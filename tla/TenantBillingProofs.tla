------------------------ MODULE TenantBillingProofs -------------------------
(***************************************************************************)
(* Proofs about TenantBilling, for any number of tenants, bills, webhook   *)
(* requests, poller runs and days.                                         *)
(*                                                                         *)
(* The webhook and the poller act on a bill they read earlier, and neither *)
(* UPDATE of the tenant looks at the bill.  That the month they grant is   *)
(* for a bill that ends up confirmed rests on the row's history: a row has *)
(* its CheckoutRequestID only once whoever pushed it is done with it, so   *)
(* nobody but Daraja's own refusal can make it fail afterwards (RowOK),    *)
(* and nobody has a row in hand that has no id (HandsOK).                  *)
(***************************************************************************)
EXTENDS TenantBilling, FiniteSetTheorems, TLAPS

RowOK ==
    \A b \in Bills :
        /\ push[b] = "request" => bill[b].status = "pending"
        /\ bill[b].id => /\ push[b] = "done" /\ bill[b].status # "absent"
                         /\ bill[b].status = "failed" => outcome[b] = "declined"

HandsOK ==
    /\ \A h \in Handlers : hook[h] # NoBill => bill[hook[h]].id
    /\ \A k \in Pollers : poll[k].bill # NoBill => bill[poll[k].bill].id
    /\ \A k \in Pollers : \A b \in poll[k].todo : bill[b].id

\* The bill the cron is pushing has nobody else's push.
CronOK == cron.bill # NoBill => push[cron.bill] = "cron"

\* A month for every confirmed bill, of which there are finitely many.
Granted(t) ==
    /\ IsFiniteSet(Confirmed(t))
    /\ tenant[t].due >= FirstDue
    /\ MonthsOf(t) >= Cardinality(Confirmed(t))

BillingIInv == TypeOK /\ RowOK /\ HandsOK /\ CronOK /\ \A t \in Tenants : Granted(t)

-----------------------------------------------------------------------------
\* The types of the rows a step touches.
LEMMA Types ==
    ASSUME TypeOK
    PROVE  /\ \A t \in Tenants : tenant[t] \in TenantRows /\ tenant[t].due \in Nat
           /\ \A b \in Bills : bill[b] \in BillRows
           /\ \A h \in Handlers : hook[h] \in Bills \cup {NoBill}
           /\ \A k \in Pollers : poll[k].bill \in Bills \cup {NoBill} /\ poll[k].todo \subseteq Bills
           /\ cron.bill \in Bills \cup {NoBill}
           /\ \A b \in Bills : TenantOf[b] \in Tenants
BY BillingConstants DEF TypeOK, TenantRows, PollRows, CronRows

\* What InsertBill and CronInsert write, and what they start from.
LEMMA RowShapes ==
    /\ NoRow \in BillRows
    /\ \A n \in Nat : /\ [NoRow EXCEPT !.status = "pending", !.born = n] \in BillRows
                      /\ [NoRow EXCEPT !.status = "pending", !.id = TRUE, !.born = n] \in BillRows
    /\ IdleCron \in CronRows
    /\ IdleCron.bill = NoBill
    /\ NewTenant \in TenantRows
    /\ IdlePoll \in PollRows
    /\ IdlePoll.bill = NoBill /\ IdlePoll.todo = {}
BY BillingConstants DEF NoRow, BillRows, IdleCron, NewTenant, TenantRows, IdlePoll,
                        CronRows, PollRows

\* The cron's moves to the next tenant keep its type and let go of the bill.
LEMMA CronMoves ==
    ASSUME TypeOK
    PROVE  /\ CronGoesOn => cron' \in CronRows /\ cron'.bill = NoBill
           /\ \A t \in Tenants :
                 CronAt(t) /\ CronDone(t) => cron' \in CronRows /\ cron'.bill = NoBill
<1>1. [cron EXCEPT !.bill = NoBill] \in CronRows /\ [cron EXCEPT !.bill = NoBill].bill = NoBill
    BY DEF TypeOK, CronRows
<1>2. ASSUME NEW t \in Tenants, CronAt(t)
      PROVE  /\ [cron EXCEPT !.todo = @ \ {t}] \in CronRows
             /\ [cron EXCEPT !.todo = @ \ {t}].bill = NoBill
    BY <1>2 DEF TypeOK, CronRows, CronAt
<1> QED
    BY <1>1, <1>2, RowShapes DEF CronGoesOn, CronDone

-----------------------------------------------------------------------------
(* Types, and the history of a row.                                        *)

Protocol == TypeOK /\ RowOK /\ HandsOK /\ CronOK

LEMMA RequestStep ==
    ASSUME Protocol, NEW b \in Bills, Request(b) \/ Daraja(b)
    PROVE  Protocol'
<1> USE DEF Protocol
<1>1. CASE InsertBill(b)
    <2>0. today \in Nat
        BY BillingConstants DEF TypeOK
    <2>1. TypeOK'
        BY <1>1, <2>0, RowShapes DEF InsertBill, TypeOK
    <2>2. ~bill[b].id /\ ~bill'[b].id /\ bill'[b].status = "pending"
        BY <1>1 DEF InsertBill, RowOK, TypeOK, NoRow
    <2>3. cron.bill # b
        BY <1>1, BillingConstants DEF InsertBill, CronOK
    <2> QED
        BY <1>1, <2>1, <2>2, <2>3, Types DEF InsertBill, RowOK, HandsOK, CronOK, TypeOK
<1>2. CASE RecordCheckout(b)
    <2>1. TypeOK'
        BY <1>2 DEF RecordCheckout, TypeOK, BillRows
    <2>2. /\ bill' \in [Bills -> BillRows] /\ bill'[b].id /\ bill'[b].status = "pending"
          /\ \A c \in Bills : c # b => bill'[c] = bill[c]
        BY <1>2 DEF RecordCheckout, RowOK, TypeOK, BillRows
    <2>3. cron.bill # b
        BY <1>2, BillingConstants DEF RecordCheckout, CronOK
    <2>4. RowOK' /\ CronOK'
        BY <1>2, <2>2, <2>3, Types DEF RecordCheckout, RowOK, CronOK, TypeOK
    <2>5. HandsOK'
        BY <1>2, <2>2, Types DEF RecordCheckout, HandsOK
    <2> QED
        BY <2>1, <2>4, <2>5
<1>3. CASE PushFails(b)
    BY <1>3, Types DEF PushFails, RowOK, HandsOK, CronOK, TypeOK, BillRows
<1>4. CASE RequestCrash(b)
    BY <1>4, Types DEF RequestCrash, Fault, RowOK, HandsOK, CronOK, TypeOK
<1>5. CASE AcceptPush(b)
    BY <1>5, Types DEF AcceptPush, RowOK, HandsOK, CronOK, TypeOK
<1>6. ASSUME NEW r \in Final, Resolve(b, r)
      PROVE  Protocol'
    BY <1>6, Types DEF Resolve, RowOK, HandsOK, CronOK, TypeOK, Final
<1> QED
    BY <1>1, <1>2, <1>3, <1>4, <1>5, <1>6 DEF Request, Daraja

LEMMA CronKeeps ==
    ASSUME Protocol,
           \/ \E t \in Tenants : CronStep(t) \/ SuperAdmin(t)
           \/ CronStart \/ CronInsert \/ CronPushFails \/ CronCrash \/ NewDay
    PROVE  Protocol'
<1> USE DEF Protocol
<1>1. ASSUME NEW t \in Tenants, CronPass(t)
      PROVE  Protocol'
    BY <1>1, CronMoves DEF CronPass, RowOK, HandsOK, CronOK, TypeOK
<1>2. ASSUME NEW t \in Tenants, CronSuspend(t)
      PROVE  Protocol'
    BY <1>2, CronMoves DEF CronSuspend, RowOK, HandsOK, CronOK, TypeOK, TenantRows
<1>3. ASSUME NEW t \in Tenants, NEW b \in Bills, CronPush(t, b)
      PROVE  Protocol'
    <2>1. TypeOK'
        <3>1. cron' \in CronRows
            BY <1>3 DEF CronPush, TypeOK, CronRows
        <3> QED
            BY <1>3, <3>1 DEF CronPush, TypeOK
    <2>2. CronOK'
        BY <1>3 DEF CronPush, CronOK, TypeOK, CronRows
    <2>3. RowOK' /\ HandsOK'
        BY <1>3 DEF CronPush, RowOK, HandsOK, TypeOK
    <2> QED
        BY <2>1, <2>2, <2>3
<1>4. ASSUME NEW t \in Tenants, SuperAdmin(t)
      PROVE  Protocol'
    BY <1>4 DEF SuperAdmin, RowOK, HandsOK, CronOK, TypeOK, TenantRows
<1>5. CASE CronStart
    <2>1. cron' \in CronRows /\ cron'.bill = NoBill
        BY <1>5, BillingConstants DEF CronStart, TypeOK, CronRows
    <2> QED
        BY <1>5, <2>1 DEF CronStart, RowOK, HandsOK, CronOK, TypeOK
<1>6. CASE CronInsert
    <2> DEFINE b == cron.bill
    <2>1. b \in Bills /\ push[b] = "cron" /\ today \in Nat
        BY <1>6, BillingConstants, Types DEF CronInsert, CronOK, TypeOK
    <2>2. TypeOK'
        BY <1>6, <2>1, RowShapes, CronMoves DEF CronInsert, TypeOK
    <2>3. bill'[b].status = "pending" /\ push'[b] = "done" /\ bill'[b].id
        BY <1>6, <2>1 DEF CronInsert, TypeOK, NoRow
    <2> QED
        BY <1>6, <2>1, <2>2, <2>3, CronMoves, Types DEF CronInsert, RowOK, HandsOK, CronOK, TypeOK
<1>7. CASE CronPushFails
    <2>1. cron.bill \in Bills
        BY <1>7, Types DEF CronPushFails
    <2> QED
        BY <1>7, <2>1, CronMoves, Types DEF CronPushFails, RowOK, HandsOK, CronOK, TypeOK
<1>8. CASE CronCrash
    <2>1. cron' \in CronRows /\ cron'.bill = NoBill
        BY <1>8, RowShapes DEF CronCrash
    <2>2. TypeOK'
        BY <1>8, <2>1 DEF CronCrash, Fault, TypeOK
    <2>3. RowOK' /\ HandsOK' /\ CronOK'
        BY <1>8, <2>1 DEF CronCrash, RowOK, HandsOK, CronOK, TypeOK
    <2> QED
        BY <2>2, <2>3
<1>9. CASE NewDay
    <2>1. today' \in 0 .. MaxDay
        BY <1>9, BillingConstants DEF NewDay, TypeOK
    <2> QED
        BY <1>9, <2>1 DEF NewDay, RowOK, HandsOK, CronOK, TypeOK
<1> QED
    BY <1>1, <1>2, <1>3, <1>4, <1>5, <1>6, <1>7, <1>8, <1>9 DEF CronStep

LEMMA HookKeeps ==
    ASSUME Protocol, NEW h \in Handlers, Webhook(h)
    PROVE  Protocol'
<1> USE DEF Protocol
<1>1. ASSUME NEW b \in Bills, HookFind(h, b)
      PROVE  Protocol'
    BY <1>1 DEF HookFind, RowOK, HandsOK, CronOK, TypeOK
<1>2. CASE HookCrash(h)
    BY <1>2 DEF HookCrash, Fault, RowOK, HandsOK, CronOK, TypeOK
<1>3. CASE HookConfirm(h)
    <2> DEFINE b == hook[h]  t == TenantOf[b]
    <2>1. b \in Bills /\ t \in Tenants /\ bill[b].id
        BY <1>3, Types DEF HookConfirm, HandsOK
    <2>2. [status |-> "active", due |-> tenant[t].due + Month] \in TenantRows
        BY <2>1, BillingConstants, Types DEF TenantRows
    <2>3. tenant' \in [Tenants -> TenantRows]
        BY <1>3, <2>1, <2>2 DEF HookConfirm, Extend, TypeOK
    <2>4. /\ bill' \in [Bills -> BillRows] /\ bill'[b].id /\ bill'[b].status = "confirmed"
          /\ \A c \in Bills : c # b => bill'[c] = bill[c]
        BY <1>3, <2>1 DEF HookConfirm, TypeOK, BillRows
    <2>5. hook' \in [Handlers -> Bills \cup {NoBill}]
        BY <1>3 DEF HookConfirm, TypeOK
    <2>6. TypeOK'
        BY <1>3, <2>3, <2>4, <2>5 DEF HookConfirm, TypeOK
    <2>7. RowOK' /\ CronOK'
        BY <1>3, <2>1, <2>4 DEF HookConfirm, RowOK, CronOK
    <2>8. HandsOK'
        BY <1>3, <2>4, Types DEF HookConfirm, HandsOK, TypeOK
    <2> QED
        BY <2>6, <2>7, <2>8
<1>4. CASE HookReject(h)
    <2> DEFINE b == hook[h]
    <2>1. b \in Bills /\ bill[b].id
        BY <1>4, Types DEF HookReject, HandsOK
    <2>2. /\ bill' \in [Bills -> BillRows] /\ bill'[b].id /\ bill'[b].status = "failed"
          /\ \A c \in Bills : c # b => bill'[c] = bill[c]
        BY <1>4, <2>1 DEF HookReject, TypeOK, BillRows
    <2>3. hook' \in [Handlers -> Bills \cup {NoBill}]
        BY <1>4 DEF HookReject, TypeOK
    <2>4. TypeOK'
        BY <1>4, <2>2, <2>3 DEF HookReject, TypeOK
    <2>5. RowOK' /\ CronOK'
        BY <1>4, <2>1, <2>2 DEF HookReject, RowOK, CronOK
    <2>6. HandsOK'
        BY <1>4, <2>2, Types DEF HookReject, HandsOK, TypeOK
    <2> QED
        BY <2>4, <2>5, <2>6
<1> QED
    BY <1>1, <1>2, <1>3, <1>4 DEF Webhook

\* A run of the poller that lets go of its bill.
LEMMA NextBillShape ==
    ASSUME Protocol, NEW k \in Pollers, NextBill(k)
    PROVE  /\ poll' \in [Pollers -> PollRows]
           /\ \A j \in Pollers : poll'[j].todo = poll[j].todo
           /\ \A j \in Pollers : poll'[j].bill # NoBill => poll'[j].bill = poll[j].bill
BY DEF Protocol, TypeOK, PollRows, NextBill

LEMMA PollKeeps ==
    ASSUME Protocol, NEW k \in Pollers, Poller(k)
    PROVE  Protocol'
<1> USE DEF Protocol
<1>1. CASE PollStart(k)
    <2>1. PICK rows \in SUBSET {b \in Bills : Pollable(b)} : poll' = [poll EXCEPT ![k].todo = rows]
        BY <1>1 DEF PollStart
    <2>2. /\ poll' \in [Pollers -> PollRows]
          /\ \A j \in Pollers : poll'[j].bill = poll[j].bill
          /\ \A j \in Pollers : j # k => poll'[j].todo = poll[j].todo
          /\ poll'[k].todo = rows
        BY <2>1 DEF TypeOK, PollRows
    <2>3. TypeOK'
        BY <1>1, <2>2 DEF PollStart, TypeOK
    <2>4. HandsOK'
        BY <1>1, <2>2 DEF PollStart, HandsOK, Pollable
    <2> QED
        BY <1>1, <2>3, <2>4 DEF PollStart, RowOK, CronOK
<1>2. ASSUME NEW b \in Bills, PollAnswer(k, b)
      PROVE  Protocol'
    <2>1. /\ poll' \in [Pollers -> PollRows]
          /\ \A j \in Pollers : j # k => poll'[j] = poll[j]
          /\ poll'[k].todo \subseteq poll[k].todo /\ poll'[k].bill = b
        BY <1>2 DEF PollAnswer, TypeOK, PollRows
    <2>2. TypeOK'
        BY <1>2, <2>1 DEF PollAnswer, TypeOK
    <2>3. HandsOK'
        BY <1>2, <2>1 DEF PollAnswer, HandsOK
    <2> QED
        BY <1>2, <2>2, <2>3 DEF PollAnswer, RowOK, CronOK
<1>3. ASSUME NEW b \in Bills, PollSkip(k, b)
      PROVE  Protocol'
    <2>1. /\ poll' \in [Pollers -> PollRows]
          /\ \A j \in Pollers : poll'[j].todo \subseteq poll[j].todo /\ poll'[j].bill = poll[j].bill
        BY <1>3 DEF PollSkip, TypeOK, PollRows
    <2>2. TypeOK'
        BY <1>3, <2>1 DEF PollSkip, Fault, TypeOK
    <2>3. HandsOK'
        BY <1>3, <2>1 DEF PollSkip, HandsOK
    <2> QED
        BY <1>3, <2>2, <2>3 DEF PollSkip, RowOK, CronOK
<1>4. CASE PollConfirm(k)
    <2> DEFINE b == poll[k].bill  t == TenantOf[b]
    <2>1. b \in Bills /\ t \in Tenants /\ bill[b].id
        BY <1>4, Types DEF PollConfirm, HandsOK
    <2>2. [status |-> "active", due |-> tenant[t].due + Month] \in TenantRows
        BY <2>1, BillingConstants, Types DEF TenantRows
    <2>3. tenant' \in [Tenants -> TenantRows]
        BY <1>4, <2>1, <2>2 DEF PollConfirm, Extend, TypeOK
    <2>4. /\ bill' \in [Bills -> BillRows] /\ bill'[b].id
          /\ bill'[b].status = "confirmed" \/ bill'[b] = bill[b]
          /\ \A c \in Bills : c # b => bill'[c] = bill[c]
        <3>1. CASE UNCHANGED bill
            BY <2>1, <3>1 DEF TypeOK
        <3>2. CASE bill' = [bill EXCEPT ![b] = [@ EXCEPT !.status = "confirmed", !.made = TRUE]]
            <4> DEFINE d == [bill[b] EXCEPT !.status = "confirmed", !.made = TRUE]
            <4>1. d \in BillRows /\ d.status = "confirmed" /\ d.id = bill[b].id
                BY <2>1, Types DEF BillRows
            <4>2. bill' = [bill EXCEPT ![b] = d]
                BY <3>2
            <4> HIDE DEF d
            <4> QED
                BY <2>1, <4>1, <4>2 DEF TypeOK
        <3> QED
            BY <1>4, <3>1, <3>2 DEF PollConfirm
    <2>5. NextBill(k)
        BY <1>4 DEF PollConfirm
    <2>6. TypeOK'
        BY <1>4, <2>3, <2>4, <2>5, NextBillShape DEF PollConfirm, TypeOK
    <2>7. RowOK' /\ CronOK'
        BY <1>4, <2>1, <2>4 DEF PollConfirm, RowOK, CronOK
    <2>8. HandsOK'
        BY <1>4, <2>4, <2>5, NextBillShape, Types DEF PollConfirm, HandsOK
    <2> QED
        BY <2>6, <2>7, <2>8
<1>5. CASE PollCollide(k)
    <2>1. NextBill(k)
        BY <1>5 DEF PollCollide
    <2>2. TypeOK' /\ HandsOK'
        BY <1>5, <2>1, NextBillShape DEF PollCollide, TypeOK, HandsOK
    <2> QED
        BY <1>5, <2>2 DEF PollCollide, RowOK, CronOK
<1>6. CASE PollReject(k)
    <2> DEFINE b == poll[k].bill
    <2>1. b \in Bills /\ bill[b].id /\ NextBill(k)
        BY <1>6, Types DEF PollReject, HandsOK
    <2>2. /\ bill' \in [Bills -> BillRows] /\ bill'[b].id
          /\ bill'[b].status = "failed" \/ bill'[b].status = bill[b].status
          /\ \A c \in Bills : c # b => bill'[c] = bill[c]
        BY <1>6, <2>1 DEF PollReject, TypeOK, BillRows
    <2>3. TypeOK'
        BY <1>6, <2>1, <2>2, NextBillShape DEF PollReject, TypeOK
    <2>4. RowOK' /\ CronOK'
        BY <1>6, <2>1, <2>2 DEF PollReject, RowOK, CronOK
    <2>5. HandsOK'
        BY <1>6, <2>1, <2>2, NextBillShape, Types DEF PollReject, HandsOK
    <2> QED
        BY <2>3, <2>4, <2>5
<1>7. CASE PollFails(k)
    <2>1. /\ poll' \in [Pollers -> PollRows]
          /\ \A j \in Pollers : poll'[j].todo \subseteq poll[j].todo
          /\ \A j \in Pollers : poll'[j].bill # NoBill => poll'[j].bill = poll[j].bill
        <3>1. CASE NextBill(k)
            BY <3>1, NextBillShape
        <3>2. CASE poll' = [poll EXCEPT ![k] = IdlePoll]
            BY <3>2, RowShapes DEF TypeOK
        <3> QED
            BY <1>7, <3>1, <3>2 DEF PollFails
    <2>2. TypeOK' /\ HandsOK'
        BY <1>7, <2>1 DEF PollFails, Fault, TypeOK, HandsOK
    <2> QED
        BY <1>7, <2>2 DEF PollFails, RowOK, CronOK
<1> QED
    BY <1>1, <1>2, <1>3, <1>4, <1>5, <1>6, <1>7 DEF Poller

LEMMA ProtocolStep == Protocol /\ [Next]_billingVars => Protocol'
<1> SUFFICES ASSUME Protocol, [Next]_billingVars PROVE Protocol'
    OBVIOUS
<1>1. CASE Next
    BY <1>1, RequestStep, CronKeeps, HookKeeps, PollKeeps DEF Next
<1>2. CASE UNCHANGED billingVars
    BY <1>2 DEF billingVars, Protocol, TypeOK, RowOK, HandsOK, CronOK
<1> QED
    BY <1>1, <1>2

-----------------------------------------------------------------------------
(* The months.                                                             *)

\* The steps that move a tenant's date: the webhook or the poller has a paid bill
\* in hand and leaves it confirmed.
Pays(b) ==
    /\ InHand(b) /\ outcome[b] = "paid" /\ bill'[b].status = "confirmed"
    /\ Extend(TenantOf[b])
    /\ \A c \in Bills : c # b => bill'[c] = bill[c]

\* No date moves and no bill becomes confirmed.
Idles ==
    /\ \A t \in Tenants : tenant'[t].due = tenant[t].due
    /\ \A b \in Bills : bill'[b].status = "confirmed" => bill[b].status = "confirmed"

LEMMA DatesMoveByPayment ==
    ASSUME Protocol, [Next]_billingVars
    PROVE  Idles \/ \E b \in Bills : Pays(b)
<1> USE DEF Protocol
<1>1. ASSUME UNCHANGED <<tenant, bill>>
      PROVE  Idles
    BY <1>1 DEF Idles
<1>2. ASSUME NEW b \in Bills, Request(b) \/ Daraja(b)
      PROVE  Idles
    <2>1. CASE InsertBill(b)
        BY <2>1 DEF InsertBill, Idles, TypeOK, NoRow
    <2>2. CASE RecordCheckout(b)
        BY <2>2 DEF RecordCheckout, Idles, TypeOK, BillRows
    <2>3. CASE PushFails(b)
        BY <2>3 DEF PushFails, Idles, TypeOK, BillRows
    <2> QED
        BY <1>1, <1>2, <2>1, <2>2, <2>3 DEF Request, Daraja, RequestCrash, AcceptPush, Resolve
<1>3. ASSUME NEW t \in Tenants, CronStep(t) \/ SuperAdmin(t)
      PROVE  Idles
    <2>1. CASE CronSuspend(t)
        BY <2>1 DEF CronSuspend, Idles, TypeOK, TenantRows
    <2>2. CASE SuperAdmin(t)
        BY <2>2 DEF SuperAdmin, Idles, TypeOK, TenantRows
    <2> QED
        BY <1>1, <1>3, <2>1, <2>2 DEF CronStep, CronPass, CronPush
<1>4. CASE CronInsert
    BY <1>4 DEF CronInsert, Idles, TypeOK, NoRow
<1>5. CASE CronStart \/ CronPushFails \/ CronCrash \/ NewDay
    BY <1>1, <1>5 DEF CronStart, CronPushFails, CronCrash, NewDay
<1>6. ASSUME NEW h \in Handlers, Webhook(h)
      PROVE  Idles \/ \E b \in Bills : Pays(b)
    <2>1. CASE HookConfirm(h)
        <3>1. hook[h] \in Bills
            BY <2>1, Types DEF HookConfirm
        <3>2. Pays(hook[h])
            BY <2>1, <3>1 DEF HookConfirm, Pays, InHand, TypeOK, BillRows
        <3> QED
            BY <3>1, <3>2
    <2>2. CASE HookReject(h)
        BY <2>2 DEF HookReject, Idles, TypeOK, BillRows
    <2> QED
        BY <1>1, <1>6, <2>1, <2>2 DEF Webhook, HookFind, HookCrash
<1>7. ASSUME NEW k \in Pollers, Poller(k)
      PROVE  Idles \/ \E b \in Bills : Pays(b)
    <2>1. CASE PollConfirm(k)
        <3> DEFINE b == poll[k].bill
        <3>1. b \in Bills /\ bill[b].id /\ outcome[b] = "paid"
            BY <2>1, Types DEF PollConfirm, HandsOK
        <3>2. InHand(b) /\ Extend(TenantOf[b])
            BY <2>1 DEF PollConfirm, InHand
        <3>3. CASE bill[b].status # "pending" /\ UNCHANGED bill
            <4>1. bill[b].status = "confirmed"
                BY <3>1, <3>3, Types DEF RowOK, BillRows
            <4> QED
                BY <3>1, <3>2, <3>3, <4>1 DEF Pays
        <3>4. CASE bill' = [bill EXCEPT ![b] = [@ EXCEPT !.status = "confirmed", !.made = TRUE]]
            <4>1. /\ bill'[b].status = "confirmed"
                  /\ \A c \in Bills : c # b => bill'[c] = bill[c]
                BY <3>1, <3>4 DEF TypeOK, BillRows
            <4> QED
                BY <3>1, <3>2, <4>1 DEF Pays
        <3> QED
            BY <2>1, <3>3, <3>4 DEF PollConfirm
    <2>2. CASE PollReject(k)
        BY <2>2 DEF PollReject, Idles, TypeOK, BillRows
    <2> QED
        BY <1>1, <1>7, <2>1, <2>2
        DEF Poller, PollStart, PollAnswer, PollSkip, PollCollide, PollFails
<1>8. CASE UNCHANGED billingVars
    BY <1>1, <1>8 DEF billingVars
<1> QED
    BY <1>2, <1>3, <1>4, <1>5, <1>6, <1>7, <1>8 DEF Next

\* A month more on the date is a month more by the division.
LEMMA AnotherMonth ==
    ASSUME NEW n \in Nat
    PROVE  /\ n \div Month \in Nat
           /\ (n + Month) \div Month = (n \div Month) + 1
BY BillingConstants

LEMMA GrantStep ==
    ASSUME Protocol, [Next]_billingVars, NEW t \in Tenants, Granted(t)
    PROVE  Granted(t)'
<1>1. /\ tenant[t].due \in Nat /\ FirstDue \in Nat /\ Month \in Nat
      /\ tenant[t].due - FirstDue \in Nat /\ IsFiniteSet(Confirmed(t))
    BY BillingConstants, Types DEF Protocol, Granted
<1>2. Cardinality(Confirmed(t)) \in Nat
    BY <1>1, FS_CardinalityType
<1>3. CASE Idles
    <2>1. Confirmed(t)' \subseteq Confirmed(t)
        BY <1>3 DEF Idles, Confirmed, BillsOf
    <2>2. /\ IsFiniteSet(Confirmed(t)')
          /\ Cardinality(Confirmed(t)') <= Cardinality(Confirmed(t))
          /\ Cardinality(Confirmed(t)') \in Nat
        BY <1>1, <2>1, FS_Subset, FS_CardinalityType
    <2>3. MonthsOf(t)' = MonthsOf(t) /\ tenant'[t].due = tenant[t].due
        BY <1>3 DEF Idles, MonthsOf
    <2>4. MonthsOf(t) \in Nat
        BY <1>1, AnotherMonth DEF MonthsOf
    <2> QED
        BY <1>2, <2>2, <2>3, <2>4 DEF Granted
<1>4. ASSUME NEW b \in Bills, Pays(b)
      PROVE  Granted(t)'
    <2>1. CASE TenantOf[b] = t
        <3>1. Confirmed(t)' \subseteq Confirmed(t) \cup {b}
            BY <1>4 DEF Pays, Confirmed, BillsOf
        <3>2. /\ IsFiniteSet(Confirmed(t) \cup {b})
              /\ Cardinality(Confirmed(t) \cup {b}) <= Cardinality(Confirmed(t)) + 1
              /\ Cardinality(Confirmed(t) \cup {b}) \in Nat
            <4> DEFINE S == Confirmed(t)
            <4>1. IsFiniteSet(S) /\ Cardinality(S) \in Nat
                BY <1>1, <1>2
            <4> HIDE DEF S
            <4>2. /\ IsFiniteSet(S \cup {b})
                  /\ Cardinality(S \cup {b}) <= Cardinality(S) + 1
                  /\ Cardinality(S \cup {b}) \in Nat
                <5>1. /\ IsFiniteSet(S \cup {b})
                      /\ \/ Cardinality(S \cup {b}) = Cardinality(S)
                         \/ Cardinality(S \cup {b}) = Cardinality(S) + 1
                    BY <4>1, FS_AddElement, Zenon
                <5> QED
                    BY <4>1, <5>1
            <4> QED
                BY <4>2 DEF S
        <3>3. /\ IsFiniteSet(Confirmed(t)')
              /\ Cardinality(Confirmed(t)') <= Cardinality(Confirmed(t) \cup {b})
              /\ Cardinality(Confirmed(t)') \in Nat
            BY <3>1, <3>2, FS_Subset, FS_CardinalityType
        <3>4. tenant'[t].due = tenant[t].due + Month
            BY <1>4, <2>1 DEF Pays, Extend, Protocol, TypeOK
        <3>5. MonthsOf(t) \in Nat /\ MonthsOf(t)' = MonthsOf(t) + 1
            <4> DEFINE n == tenant[t].due - FirstDue
            <4>1. tenant'[t].due - FirstDue = n + Month
                BY <1>1, <3>4
            <4>2. n \in Nat /\ n \div Month \in Nat /\ (n + Month) \div Month = (n \div Month) + 1
                BY <1>1, AnotherMonth
            <4> QED
                BY <4>1, <4>2 DEF MonthsOf
        <3>6. tenant'[t].due >= FirstDue
            BY <1>1, <3>4
        <3>7. MonthsOf(t)' >= Cardinality(Confirmed(t)')
            BY <1>2, <3>2, <3>3, <3>5 DEF Granted
        <3> QED
            BY <3>3, <3>6, <3>7 DEF Granted
    <2>2. CASE TenantOf[b] # t
        <3>1. Confirmed(t)' = Confirmed(t)
            BY <1>4, <2>2 DEF Pays, Confirmed, BillsOf
        <3>2. tenant'[t] = tenant[t]
            BY <1>4, <2>2 DEF Pays, Extend, Protocol, TypeOK
        <3> QED
            BY <3>1, <3>2 DEF Granted, MonthsOf
    <2> QED
        BY <2>1, <2>2
<1> QED
    BY <1>3, <1>4, DatesMoveByPayment

-----------------------------------------------------------------------------
LEMMA BillingStart == Init => BillingIInv
<1> SUFFICES ASSUME Init PROVE BillingIInv
    OBVIOUS
<1>1. TypeOK
    <2>1. 0 \in 0 .. MaxDay /\ 0 \in Nat
        BY BillingConstants
    <2> QED
        BY <2>1, RowShapes DEF Init, TypeOK
<1>2. RowOK /\ HandsOK /\ CronOK
    BY RowShapes DEF Init, RowOK, HandsOK, CronOK, NoRow
<1>3. ASSUME NEW t \in Tenants
      PROVE  Granted(t)
    <2>1. Confirmed(t) = {}
        BY DEF Init, Confirmed, BillsOf, NoRow
    <2>2. tenant[t].due = FirstDue
        BY DEF Init, NewTenant
    <2>3. MonthsOf(t) \in Nat
        <3>1. tenant[t].due - FirstDue \in Nat
            BY <2>2, BillingConstants
        <3> QED
            BY <3>1, AnotherMonth DEF MonthsOf
    <2> QED
        BY <2>1, <2>2, <2>3, FS_EmptySet, BillingConstants DEF Granted
<1> QED
    BY <1>1, <1>2, <1>3 DEF BillingIInv

\* The inductive invariant holds throughout.
THEOREM BillingInvariant == Spec => []BillingIInv
<1>1. BillingIInv /\ [Next]_billingVars => BillingIInv'
    BY ProtocolStep, GrantStep DEF BillingIInv, Protocol
<1> QED
    BY <1>1, BillingStart, PTL DEF Spec

\* BillingInv for any number of tenants, bills, handlers and pollers: every bill a
\* tenant paid has bought it a month, whichever of the webhook and the poller
\* confirmed it, how often, and whatever crashed or was rolled back in between.
THEOREM PaidMonthsAreGranted == Spec => []BillingInv
<1>1. BillingIInv => BillingInv
    BY DEF BillingIInv, BillingInv, ConfirmedIsGranted, Granted
<1> QED
    BY <1>1, BillingInvariant, PTL

\* NoFreeMonth on every instance: a date moves only with a bill that is paid, that
\* a handler has in hand, and that the same step leaves confirmed.
THEOREM MonthsArePaidFor == Spec => NoFreeMonth
<1>1. BillingIInv /\ [Next]_billingVars =>
        [\A t \in Tenants : tenant'[t].due # tenant[t].due =>
          /\ tenant'[t] = [status |-> "active", due |-> tenant[t].due + Month]
          /\ \E b \in BillsOf(t) : InHand(b) /\ outcome[b] = "paid"
                                     /\ bill'[b].status = "confirmed"
        ]_billingVars
    <2> SUFFICES ASSUME BillingIInv, [Next]_billingVars, NEW t \in Tenants,
                        tenant'[t].due # tenant[t].due
                 PROVE  /\ tenant'[t] = [status |-> "active", due |-> tenant[t].due + Month]
                        /\ \E b \in BillsOf(t) : InHand(b) /\ outcome[b] = "paid"
                                                   /\ bill'[b].status = "confirmed"
        OBVIOUS
    <2>1. PICK b \in Bills : Pays(b)
        BY DatesMoveByPayment DEF BillingIInv, Protocol, Idles
    <2>2. /\ tenant \in [Tenants -> TenantRows]
          /\ tenant' = [tenant EXCEPT ![TenantOf[b]] =
                          [status |-> "active", due |-> tenant[TenantOf[b]].due + Month]]
        BY <2>1 DEF BillingIInv, TypeOK, Pays, Extend
    <2>3. TenantOf[b] = t
        BY <2>2
    <2> QED
        BY <2>1, <2>2, <2>3 DEF Pays, BillsOf
<1> QED
    BY <1>1, BillingInvariant, PTL DEF Spec, NoFreeMonth

=============================================================================
