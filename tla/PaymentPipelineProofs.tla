----------------------- MODULE PaymentPipelineProofs ------------------------
(***************************************************************************)
(* Proofs about Settlement, Provisioning and their composition, for any    *)
(* number of payments, webhook requests, poller runs, worker coroutines,   *)
(* repeated callbacks, tries and crashes, in three parts.                  *)
(*                                                                         *)
(* Settlement.  The handlers look at a row, await, and write it later      *)
(* without looking again, so the properties are not inductive.  What       *)
(* carries them is what a handler in flight may still rely on (HookOK,     *)
(* PollOK): the checkout id is stored, Daraja's outcome is final, and a    *)
(* payment whose outcome is final and whose id is stored can only be       *)
(* settled one way (PaymentOK).                                            *)
(*                                                                         *)
(* Provisioning.  generate_voucher looks at nothing but its argument, so   *)
(* what its results are worth depends on where the job came from (TaskOK:  *)
(* whoever queued it had seen the payment confirmed, and nothing           *)
(* unconfirms it) and on how far the job has come (WorkerOK: under its     *)
(* code are the RADIUS rows of the statements behind it, and no others).   *)
(* A job touches the rows of its own code only, which is no other job's    *)
(* (CodesApart) and no voucher's.  EnvironmentFrame says what a step       *)
(* outside the worker must respect.                                        *)
(*                                                                         *)
(* The composition.  Each half's inductive invariant survives the other    *)
(* half's steps: the settlement side because the jobs never touch a status *)
(* and queue tasks for confirmed payments only, the jobs by                *)
(* EnvironmentFrame.  From the conjunction it follows what each step looks *)
(* like from outside (Seen), and from that the two refinements: Settlement *)
(* is an environment Provisioning may rely on, and the whole implements    *)
(* PaymentLifecycle.                                                       *)
(***************************************************************************)
EXTENDS PaymentPipeline, FiniteSetTheorems, TLAPS

-----------------------------------------------------------------------------
(* Settlement.                                                             *)

PollRecords == [pc : {"idle", "loop", "answered", "settled"},
                pay : Payments \cup {NoPayment}, todo : SUBSET Payments]

PaymentOK(p) ==
    /\ status[p] = "absent" <=> request[p] = "idle"
    /\ request[p] = "pushing" => status[p] = "pending"
    /\ recorded[p] => request[p] = "done"
    /\ status[p] = "confirmed" => recorded[p] /\ outcome[p] = "paid"
    /\ status[p] = "failed" /\ recorded[p] => outcome[p] = "declined"
    /\ outcome[p] # "none" => request[p] # "idle"
    /\ net[p] > 0 => outcome[p] \in Final
    /\ queue[p] > 0 => status[p] = "confirmed"
    /\ receipt[p] \in {NoReceipt, MpesaReceipt(p), FallbackReceipt(p)}
    /\ receipt[p] # NoReceipt => status[p] = "confirmed"

HookOK(h) ==
    LET p == hook[h].pay IN
    /\ hook[h].pc = "found" => p \in Payments /\ recorded[p] /\ outcome[p] \in Final
    /\ hook[h].pc = "settled" => p \in Payments /\ status[p] = "confirmed"

PollOK(k) ==
    LET p == poll[k].pay IN
    /\ \A q \in poll[k].todo : recorded[q]
    /\ poll[k].pc = "answered" => p \in Payments /\ recorded[p] /\ outcome[p] \in Final
    /\ poll[k].pc = "settled" => p \in Payments /\ status[p] = "confirmed"

PaymentsOK == \A p \in Payments : PaymentOK(p)
HooksOK    == \A h \in Handlers : HookOK(h)
PollsOK    == \A k \in Pollers : PollOK(k)

SettlementInv == TypeOK /\ PaymentsOK /\ HooksOK /\ PollsOK /\ ReceiptUnique

-----------------------------------------------------------------------------
\* Going on to the next row keeps the poller's type.
LEMMA NextRowType ==
    ASSUME TypeOK, NEW k \in Pollers, NextRow(k)
    PROVE  poll' \in [Pollers -> PollRecords]
<1>1. poll \in [Pollers -> PollRecords]
    BY DEF TypeOK, TablesTypeOK, PollRecords
<1>2. poll[k] \in PollRecords
    BY <1>1
<1>3. [poll[k] EXCEPT !.pc = "loop", !.pay = NoPayment] \in PollRecords
    BY <1>2 DEF PollRecords
<1> QED
    BY <1>1, <1>3 DEF NextRow

\* Enqueuing keeps the queue's type.
LEMMA EnqueueType ==
    ASSUME TypeOK, NEW p, Enqueue(p)
    PROVE  queue' \in [Payments -> Nat]
<1>1. CASE p \in Payments
    BY <1>1 DEF TypeOK, TablesTypeOK, Enqueue
<1>2. CASE p \notin Payments
    <2>1. queue' = [q \in Payments |-> IF q = p THEN queue[p] + 1 ELSE queue[q]]
        BY DEF TypeOK, TablesTypeOK, Enqueue
    <2> QED
        BY <1>2, <2>1 DEF TypeOK, TablesTypeOK
<1> QED
    BY <1>1, <1>2

\* The tables, the handlers and the queue keep their types.
LEMMA TypeStep == TypeOK /\ [Next]_settlementVars => TypeOK'
<1> SUFFICES ASSUME TypeOK, [Next]_settlementVars PROVE TypeOK'
    OBVIOUS
<1> USE SettlementConstants DEF TypeOK, TablesTypeOK
<1>1. CASE UNCHANGED settlementVars
    BY <1>1 DEF settlementVars
<1>2. ASSUME NEW p \in Payments, InsertPayment(p) PROVE TypeOK'
    BY <1>2 DEF InsertPayment, Statuses
<1>3. ASSUME NEW p \in Payments, RecordCheckout(p) PROVE TypeOK'
    BY <1>3 DEF RecordCheckout
<1>4. ASSUME NEW p \in Payments, PushFails(p) PROVE TypeOK'
    BY <1>4 DEF PushFails, Statuses
<1>5. ASSUME NEW p \in Payments, InitiateCrash(p) PROVE TypeOK'
    BY <1>5 DEF InitiateCrash, Fault
<1>6. ASSUME NEW p \in Payments, AcceptPush(p) PROVE TypeOK'
    BY <1>6 DEF AcceptPush
<1>7. ASSUME NEW p \in Payments, NEW r \in Final, Resolve(p, r) PROVE TypeOK'
    BY <1>7 DEF Resolve, Final
<1>8. ASSUME NEW p \in Payments, Redeliver(p) PROVE TypeOK'
    BY <1>8 DEF Redeliver
<1>9. ASSUME NEW p \in Payments, LoseCallback(p) PROVE TypeOK'
    BY <1>9 DEF LoseCallback
<1>10. ASSUME NEW p \in Payments, Mature(p) PROVE TypeOK'
    BY <1>10 DEF Mature, Ages
<1>11. ASSUME NEW p \in Payments, Expire(p) PROVE TypeOK'
    BY <1>11 DEF Expire, Ages
<1>12. ASSUME NEW h \in Handlers, NEW p \in Payments, HookDiscard(h, p) PROVE TypeOK'
    BY <1>12 DEF HookDiscard
<1>13. ASSUME NEW h \in Handlers, NEW p \in Payments, HookFind(h, p) PROVE TypeOK'
    BY <1>13 DEF HookFind
<1>14. ASSUME NEW h \in Handlers, HookConfirm(h) PROVE TypeOK'
    <2>1. receipt' \in [Payments -> Receipts \cup {NoReceipt}]
        BY <1>14 DEF HookConfirm, Receipts, MpesaReceipt
    <2> QED
        BY <1>14, <2>1 DEF HookConfirm, Statuses
<1>15. ASSUME NEW h \in Handlers, HookReject(h) PROVE TypeOK'
    BY <1>15 DEF HookReject, IdleHook, Statuses
<1>16. ASSUME NEW h \in Handlers, HookEnqueue(h) PROVE TypeOK'
    BY <1>16, EnqueueType DEF HookEnqueue, IdleHook
<1>17. ASSUME NEW h \in Handlers, HookCrash(h) PROVE TypeOK'
    BY <1>17 DEF HookCrash, Fault, IdleHook
<1>18. ASSUME NEW k \in Pollers, PollStart(k) PROVE TypeOK'
    BY <1>18 DEF PollStart
<1>19. ASSUME NEW k \in Pollers, NEW p \in Payments, PollAnswer(k, p) PROVE TypeOK'
    BY <1>19 DEF PollAnswer
<1>20. ASSUME NEW k \in Pollers, NEW p \in Payments, PollSkip(k, p) PROVE TypeOK'
    BY <1>20 DEF PollSkip, Fault
<1>21. ASSUME NEW k \in Pollers, PollConfirm(k) PROVE TypeOK'
    <2>1. receipt' \in [Payments -> Receipts \cup {NoReceipt}]
        <3>1. ASSUME poll[k].pay \in Payments
              PROVE  FallbackReceipt(poll[k].pay) \in Receipts
            BY <3>1 DEF Receipts, FallbackReceipt
        <3> QED
            BY <1>21, <3>1 DEF PollConfirm
    <2>2. status' \in [Payments -> Statuses]
        BY <1>21 DEF PollConfirm, Statuses
    <2> QED
        BY <1>21, <2>1, <2>2 DEF PollConfirm
<1>22. ASSUME NEW k \in Pollers, PollCollide(k) PROVE TypeOK'
    BY <1>22, NextRowType DEF PollCollide, PollRecords
<1>23. ASSUME NEW k \in Pollers, PollReject(k) PROVE TypeOK'
    BY <1>23, NextRowType DEF PollReject, Statuses, PollRecords
<1>24. ASSUME NEW k \in Pollers, PollEnqueue(k) PROVE TypeOK'
    BY <1>24, NextRowType, EnqueueType DEF PollEnqueue, PollRecords
<1>25. ASSUME NEW k \in Pollers, PollEnd(k) PROVE TypeOK'
    BY <1>25 DEF PollEnd, IdlePoll
<1>26. ASSUME NEW k \in Pollers, PollRaise(k) PROVE TypeOK'
    BY <1>26, NextRowType DEF PollRaise, Fault, PollRecords
<1>27. ASSUME NEW k \in Pollers, PollCrash(k) PROVE TypeOK'
    BY <1>27 DEF PollCrash, Fault, IdlePoll
<1> QED
    BY <1>1, <1>2, <1>3, <1>4, <1>5, <1>6, <1>7, <1>8, <1>9, <1>10,
        <1>11, <1>12, <1>13, <1>14, <1>15, <1>16, <1>17, <1>18, <1>19, <1>20,
       <1>21, <1>22, <1>23, <1>24, <1>25, <1>26, <1>27
       DEF Next, Initiation, Daraja, Clock, Webhook, Poller

\* Type correctness of the settlement side.
THEOREM SettlementTypeCorrect == Spec => []TypeOK
<1>1. Init => TypeOK
    BY DEF Init, InitTables, Ages, TypeOK, TablesTypeOK, Statuses, IdleHook,
           IdlePoll
<1> QED
    BY <1>1, TypeStep, PTL DEF Spec

-----------------------------------------------------------------------------
\* What no step takes back: a stored checkout id, a final outcome, a settled
\* status, a receipt of Safaricom's.
Forward ==
    \A p \in Payments :
        /\ recorded[p] => recorded'[p]
        /\ outcome[p] \in Final => outcome'[p] = outcome[p]
        /\ status[p] \in {"confirmed", "failed"} => status'[p] = status[p]
        /\ receipt[p] = MpesaReceipt(p) => receipt'[p] = receipt[p]

\* The receipts' shapes.
LEMMA ReceiptShapes ==
    ASSUME NEW p \in Payments, NEW q \in Payments
    PROVE  /\ MpesaReceipt(p) # NoReceipt /\ FallbackReceipt(p) # NoReceipt
           /\ MpesaReceipt(p) # FallbackReceipt(q)
           /\ p # q => MpesaReceipt(p) # MpesaReceipt(q)
BY SettlementConstants DEF MpesaReceipt, FallbackReceipt

\* A webhook that is not at work itself is not disturbed by any forward step.
LEMMA HookFrame ==
    ASSUME TypeOK, Forward, NEW h \in Handlers, HookOK(h), hook'[h] = hook[h]
    PROVE  HookOK(h)'
BY DEF Forward, HookOK

\* Nor is a run of the poller.
LEMMA PollFrame ==
    ASSUME TypeOK, Forward, NEW k \in Pollers, PollOK(k), poll'[k] = poll[k]
    PROVE  PollOK(k)'
BY DEF Forward, PollOK, TypeOK, TablesTypeOK

\* A step that leaves the receipts alone keeps them unique.
LEMMA ReceiptFrame ==
    ASSUME ReceiptUnique, receipt' = receipt
    PROVE  ReceiptUnique'
BY DEF ReceiptUnique

\* Opening a payment, pushing, Daraja, the network and the clock: no handler is
\* at work.
LEMMA OutsideStep ==
    ASSUME SettlementInv, NEW p \in Payments, Initiation(p) \/ Daraja(p) \/ Clock(p)
    PROVE  SettlementInv' /\ Forward
<1> USE DEF SettlementInv
<1>1. TypeOK'
    BY TypeStep DEF Next
<1>2. /\ hook' = hook /\ poll' = poll /\ receipt' = receipt /\ queue' = queue
      /\ \A q \in Payments \ {p} :
            /\ status'[q] = status[q] /\ recorded'[q] = recorded[q]
            /\ request'[q] = request[q] /\ outcome'[q] = outcome[q]
            /\ net'[q] = net[q]
    <2>1. CASE InsertPayment(p)
        BY <2>1 DEF InsertPayment, TypeOK, TablesTypeOK
    <2>2. CASE RecordCheckout(p)
        BY <2>2 DEF RecordCheckout, TypeOK, TablesTypeOK
    <2>3. CASE PushFails(p)
        BY <2>3 DEF PushFails, TypeOK, TablesTypeOK
    <2>4. CASE InitiateCrash(p)
        BY <2>4 DEF InitiateCrash, TypeOK, TablesTypeOK
    <2>5. CASE AcceptPush(p)
        BY <2>5 DEF AcceptPush, TypeOK, TablesTypeOK
    <2>6. CASE \E r \in Final : Resolve(p, r)
        BY <2>6 DEF Resolve, TypeOK, TablesTypeOK
    <2>7. CASE Redeliver(p)
        BY <2>7 DEF Redeliver, TypeOK, TablesTypeOK
    <2>8. CASE LoseCallback(p)
        BY <2>8 DEF LoseCallback, TypeOK, TablesTypeOK
    <2>9. CASE Mature(p)
        BY <2>9 DEF Mature, TypeOK, TablesTypeOK
    <2>10. CASE Expire(p)
        BY <2>10 DEF Expire, TypeOK, TablesTypeOK
    <2> QED
        BY <2>1, <2>2, <2>3, <2>4, <2>5,
           <2>6, <2>7, <2>8, <2>9, <2>10
           DEF Initiation, Daraja, Clock
<1>3. /\ PaymentOK(p)'
      /\ recorded[p] => recorded'[p]
      /\ outcome[p] \in Final => outcome'[p] = outcome[p]
      /\ status[p] \in {"confirmed", "failed"} => status'[p] = status[p]
    <2> USE DEF PaymentsOK, PaymentOK, TypeOK, TablesTypeOK, Final,
                MpesaReceipt, FallbackReceipt
    <2>1. CASE InsertPayment(p)
        BY <2>1 DEF InsertPayment
    <2>2. CASE RecordCheckout(p)
        BY <2>2 DEF RecordCheckout
    <2>3. CASE PushFails(p)
        BY <2>3 DEF PushFails
    <2>4. CASE InitiateCrash(p)
        BY <2>4 DEF InitiateCrash, Fault
    <2>5. CASE AcceptPush(p)
        BY <2>5 DEF AcceptPush
    <2>6. CASE \E r \in Final : Resolve(p, r)
        BY <2>6 DEF Resolve
    <2>7. CASE Redeliver(p)
        BY <2>7 DEF Redeliver
    <2>8. CASE LoseCallback(p)
        BY <2>8 DEF LoseCallback
    <2>9. CASE Mature(p)
        BY <2>9 DEF Mature
    <2>10. CASE Expire(p)
        BY <2>10 DEF Expire
    <2> QED
        BY <2>1, <2>2, <2>3, <2>4, <2>5,
           <2>6, <2>7, <2>8, <2>9, <2>10
           DEF Initiation, Daraja, Clock
<1>4. Forward
    BY <1>2, <1>3 DEF Forward
<1>5. PaymentsOK'
    BY <1>2, <1>3 DEF PaymentsOK, PaymentOK, MpesaReceipt, FallbackReceipt
<1>6. HooksOK'
    BY <1>2, <1>4, HookFrame DEF HooksOK
<1>7. PollsOK'
    BY <1>2, <1>4, PollFrame DEF PollsOK
<1> QED
    BY <1>1, <1>2, <1>4, <1>5, <1>6, <1>7, ReceiptFrame

\* The webhook's steps: what it writes late is what it would write now.
LEMMA WebhookStep ==
    ASSUME SettlementInv, NEW h \in Handlers, Webhook(h)
    PROVE  SettlementInv' /\ Forward
<1> USE DEF SettlementInv
<1>1. TypeOK'
    BY TypeStep DEF Next
<1>2. poll' = poll /\ \A g \in Handlers : g # h => hook'[g] = hook[g]
    BY DEF Webhook, HookDiscard, HookFind, HookConfirm, HookReject, HookEnqueue,
           HookCrash, TypeOK, TablesTypeOK
<1>3. ASSUME Forward, PaymentsOK', HookOK(h)', ReceiptUnique'
      PROVE  SettlementInv' /\ Forward
    <2>1. HooksOK'
        BY <1>2, <1>3, HookFrame DEF HooksOK
    <2>2. PollsOK'
        BY <1>2, <1>3, PollFrame DEF PollsOK
    <2> QED
        BY <1>1, <1>3, <2>1, <2>2
<1>4. ASSUME NEW p \in Payments, HookDiscard(h, p)
      PROVE  SettlementInv' /\ Forward
    <2>1. Forward
        BY <1>4 DEF HookDiscard, Forward
    <2>2. PaymentsOK'
        BY <1>4 DEF HookDiscard, PaymentsOK, PaymentOK, TypeOK, TablesTypeOK,
                    MpesaReceipt, FallbackReceipt
    <2>3. HookOK(h)'
        BY <1>4, <2>1, HookFrame DEF HookDiscard, HooksOK
    <2> QED
        BY <1>3, <1>4, <2>1, <2>2, <2>3, ReceiptFrame DEF HookDiscard
<1>5. ASSUME NEW p \in Payments, HookFind(h, p)
      PROVE  SettlementInv' /\ Forward
    <2>1. Forward
        BY <1>5 DEF HookFind, Forward
    <2>2. PaymentsOK'
        BY <1>5 DEF HookFind, PaymentsOK, PaymentOK, TypeOK, TablesTypeOK,
                    MpesaReceipt, FallbackReceipt
    <2>3. HookOK(h)'
        BY <1>5 DEF HookFind, HookOK, PaymentsOK, PaymentOK, TypeOK,
                    TablesTypeOK
    <2> QED
        BY <1>3, <1>5, <2>1, <2>2, <2>3, ReceiptFrame DEF HookFind
<1>6. CASE HookConfirm(h)
    <2> DEFINE p == hook[h].pay
    <2>1. /\ p \in Payments /\ recorded[p] /\ outcome[p] = "paid"
          /\ status[p] \in {"pending", "confirmed"}
        BY <1>6 DEF HookConfirm, HooksOK, HookOK, PaymentsOK, PaymentOK,
                    TypeOK, TablesTypeOK, Statuses
    <2>2. /\ status'[p] = "confirmed" /\ receipt'[p] = MpesaReceipt(p)
          /\ \A q \in Payments \ {p} :
                status'[q] = status[q] /\ receipt'[q] = receipt[q]
          /\ hook'[h].pc = "settled" /\ hook'[h].pay = p
          /\ UNCHANGED <<recorded, request, outcome, net, queue>>
        BY <1>6, <2>1 DEF HookConfirm, TypeOK, TablesTypeOK
    <2>3. Forward
        BY <2>1, <2>2 DEF Forward
    <2>4. PaymentsOK'
        <3>1. ASSUME NEW q \in Payments, q = p PROVE PaymentOK(q)'
            BY <2>1, <2>2, <3>1 DEF PaymentsOK, PaymentOK, MpesaReceipt
        <3>2. ASSUME NEW q \in Payments, q # p PROVE PaymentOK(q)'
            BY <2>2, <3>2 DEF PaymentsOK, PaymentOK, MpesaReceipt,
                              FallbackReceipt
        <3> QED
            BY <3>1, <3>2 DEF PaymentsOK
    <2>5. HookOK(h)'
        BY <2>1, <2>2 DEF HookOK
    <2>6. ReceiptUnique'
        BY <2>1, <2>2, ReceiptShapes DEF ReceiptUnique, PaymentsOK, PaymentOK
    <2> QED
        BY <1>3, <2>3, <2>4, <2>5, <2>6
<1>7. CASE HookReject(h)
    <2> DEFINE p == hook[h].pay
    <2>1. /\ p \in Payments /\ recorded[p] /\ outcome[p] = "declined"
          /\ status[p] \in {"pending", "failed"}
        BY <1>7 DEF HookReject, HooksOK, HookOK, PaymentsOK, PaymentOK, TypeOK,
                    TablesTypeOK, Statuses
    <2>2. /\ status'[p] = "failed" /\ receipt[p] = NoReceipt
          /\ \A q \in Payments \ {p} : status'[q] = status[q]
          /\ hook'[h] = IdleHook
          /\ UNCHANGED <<recorded, request, outcome, net, queue, receipt>>
        BY <1>7, <2>1 DEF HookReject, TypeOK, TablesTypeOK, PaymentsOK,
                          PaymentOK
    <2>3. Forward
        BY <2>1, <2>2 DEF Forward
    <2>4. PaymentsOK'
        BY <2>1, <2>2 DEF PaymentsOK, PaymentOK, MpesaReceipt, FallbackReceipt
    <2>5. HookOK(h)'
        BY <2>2 DEF HookOK, IdleHook
    <2> QED
        BY <1>3, <2>2, <2>3, <2>4, <2>5, ReceiptFrame
<1>8. CASE HookEnqueue(h)
    <2> DEFINE p == hook[h].pay
    <2>1. p \in Payments /\ status[p] = "confirmed"
        BY <1>8 DEF HookEnqueue, HooksOK, HookOK
    <2>2. /\ \A q \in Payments \ {p} : queue'[q] = queue[q]
          /\ hook'[h] = IdleHook
          /\ UNCHANGED <<status, recorded, request, outcome, net, receipt>>
        BY <1>8, <2>1 DEF HookEnqueue, Enqueue, TypeOK, TablesTypeOK
    <2>3. Forward
        BY <2>2 DEF Forward
    <2>4. PaymentsOK'
        BY <2>1, <2>2 DEF PaymentsOK, PaymentOK, MpesaReceipt, FallbackReceipt
    <2>5. HookOK(h)'
        BY <2>2 DEF HookOK, IdleHook
    <2> QED
        BY <1>3, <2>2, <2>3, <2>4, <2>5, ReceiptFrame
<1>9. CASE HookCrash(h)
    <2>1. Forward
        BY <1>9 DEF HookCrash, Forward
    <2>2. PaymentsOK'
        BY <1>9 DEF HookCrash, PaymentsOK, PaymentOK, MpesaReceipt,
                    FallbackReceipt
    <2>3. HookOK(h)'
        BY <1>9 DEF HookCrash, HookOK, IdleHook, TypeOK, TablesTypeOK
    <2> QED
        BY <1>3, <1>9, <2>1, <2>2, <2>3, ReceiptFrame DEF HookCrash
<1> QED
    BY <1>4, <1>5, <1>6, <1>7, <1>8, <1>9 DEF Webhook

\* The poller's steps: its UPDATEs are guarded by the status, and what it
\* enqueues was confirmed by itself or by the webhook that overtook it.
LEMMA PollerStep ==
    ASSUME SettlementInv, NEW k \in Pollers, Poller(k)
    PROVE  SettlementInv' /\ Forward
<1> USE DEF SettlementInv
<1>1. TypeOK'
    BY TypeStep DEF Next
<1>2. hook' = hook /\ \A j \in Pollers : j # k => poll'[j] = poll[j]
    BY DEF Poller, PollStart, PollAnswer, PollSkip, PollConfirm, PollCollide,
           PollReject, PollEnqueue, PollEnd, PollRaise, PollCrash, NextRow,
           TypeOK, TablesTypeOK
<1>3. ASSUME Forward, PaymentsOK', PollOK(k)', ReceiptUnique'
      PROVE  SettlementInv' /\ Forward
    <2>1. HooksOK'
        BY <1>2, <1>3, HookFrame DEF HooksOK
    <2>2. PollsOK'
        BY <1>2, <1>3, PollFrame DEF PollsOK
    <2> QED
        BY <1>1, <1>3, <2>1, <2>2
<1>4. ASSUME UNCHANGED <<status, recorded, receipt, request, outcome, net, queue>>,
             PollOK(k)'
      PROVE  SettlementInv' /\ Forward
    <2>1. Forward
        BY <1>4 DEF Forward
    <2>2. PaymentsOK'
        BY <1>4 DEF PaymentsOK, PaymentOK, MpesaReceipt, FallbackReceipt
    <2> QED
        BY <1>3, <1>4, <2>1, <2>2, ReceiptFrame
<1>5. ASSUME NextRow(k)
      PROVE  poll'[k].pc = "loop" /\ poll'[k].todo = poll[k].todo
    BY <1>5 DEF NextRow, TypeOK, TablesTypeOK
<1>6. CASE PollStart(k)
    <2>1. PollOK(k)'
        BY <1>6 DEF PollStart, PollOK, Pollable, TypeOK, TablesTypeOK
    <2> QED
        BY <1>4, <1>6, <2>1 DEF PollStart
<1>7. ASSUME NEW p \in Payments, PollAnswer(k, p)
      PROVE  SettlementInv' /\ Forward
    <2>1. PollOK(k)'
        BY <1>7 DEF PollAnswer, PollOK, PollsOK, TypeOK, TablesTypeOK
    <2> QED
        BY <1>4, <1>7, <2>1 DEF PollAnswer
<1>8. ASSUME NEW p \in Payments, PollSkip(k, p)
      PROVE  SettlementInv' /\ Forward
    <2>1. /\ poll'[k].pc = "loop"
          /\ poll'[k].todo = poll[k].todo \ {p}
        BY <1>8 DEF PollSkip, TypeOK, TablesTypeOK
    <2>2. PollOK(k)'
        BY <1>8, <2>1 DEF PollSkip, PollOK, PollsOK
    <2> QED
        BY <1>4, <1>8, <2>2 DEF PollSkip
<1>9. CASE PollConfirm(k)
    <2> DEFINE p == poll[k].pay
    <2>1. /\ p \in Payments /\ recorded[p] /\ outcome[p] = "paid"
          /\ status[p] \in {"pending", "confirmed"}
        BY <1>9 DEF PollConfirm, PollsOK, PollOK, PaymentsOK, PaymentOK,
                    TypeOK, TablesTypeOK, Statuses
    <2>2. /\ poll'[k].pc = "settled" /\ poll'[k].pay = p
          /\ poll'[k].todo = poll[k].todo
          /\ UNCHANGED <<recorded, request, outcome, net, queue>>
        BY <1>9 DEF PollConfirm, TypeOK, TablesTypeOK
    <2>3. \/ UNCHANGED <<status, receipt>> /\ status[p] = "confirmed"
          \/ /\ status[p] = "pending" /\ status'[p] = "confirmed"
             /\ receipt[p] = NoReceipt /\ receipt'[p] = FallbackReceipt(p)
             /\ ~ReceiptTaken(FallbackReceipt(p), p)
             /\ \A q \in Payments \ {p} :
                   status'[q] = status[q] /\ receipt'[q] = receipt[q]
        BY <1>9, <2>1 DEF PollConfirm, TypeOK, TablesTypeOK, PaymentsOK,
                          PaymentOK
    <2>4. Forward
        BY <2>1, <2>2, <2>3, ReceiptShapes DEF Forward
    <2>5. PaymentsOK'
        BY <2>1, <2>2, <2>3
           DEF PaymentsOK, PaymentOK, MpesaReceipt, FallbackReceipt
    <2>6. PollOK(k)'
        BY <2>1, <2>2, <2>3 DEF PollOK, PollsOK
    <2>7. ReceiptUnique'
        BY <2>1, <2>3 DEF ReceiptUnique, ReceiptTaken
    <2> QED
        BY <1>3, <2>4, <2>5, <2>6, <2>7
<1>10. CASE PollCollide(k) \/ PollRaise(k)
    <2>1. NextRow(k)
        BY <1>10 DEF PollCollide, PollRaise
    <2>2. PollOK(k)'
        BY <1>5, <1>10, <2>1 DEF PollOK, PollsOK, PollCollide, PollRaise
    <2> QED
        BY <1>4, <1>10, <2>2 DEF PollCollide, PollRaise
<1>11. CASE PollReject(k)
    <2> DEFINE p == poll[k].pay
    <2>1. /\ p \in Payments /\ recorded[p] /\ outcome[p] = "declined"
          /\ status[p] \in {"pending", "failed"}
        BY <1>11 DEF PollReject, PollsOK, PollOK, PaymentsOK, PaymentOK,
                     TypeOK, TablesTypeOK, Statuses
    <2>2. /\ status'[p] = "failed" /\ receipt[p] = NoReceipt
          /\ \A q \in Payments \ {p} : status'[q] = status[q]
          /\ UNCHANGED <<recorded, request, outcome, net, queue, receipt>>
        BY <1>11, <2>1 DEF PollReject, TypeOK, TablesTypeOK, PaymentsOK,
                           PaymentOK
    <2>3. Forward
        BY <2>1, <2>2 DEF Forward
    <2>4. PaymentsOK'
        BY <2>1, <2>2 DEF PaymentsOK, PaymentOK, MpesaReceipt, FallbackReceipt
    <2>5. PollOK(k)'
        BY <1>5, <1>11, <2>2 DEF PollOK, PollsOK, PollReject
    <2> QED
        BY <1>3, <2>2, <2>3, <2>4, <2>5, ReceiptFrame
<1>12. CASE PollEnqueue(k)
    <2> DEFINE p == poll[k].pay
    <2>1. p \in Payments /\ status[p] = "confirmed"
        BY <1>12 DEF PollEnqueue, PollsOK, PollOK
    <2>2. /\ \A q \in Payments \ {p} : queue'[q] = queue[q]
          /\ UNCHANGED <<status, recorded, request, outcome, net, receipt>>
        BY <1>12, <2>1 DEF PollEnqueue, Enqueue, TypeOK, TablesTypeOK
    <2>3. Forward
        BY <2>2 DEF Forward
    <2>4. PaymentsOK'
        BY <2>1, <2>2 DEF PaymentsOK, PaymentOK, MpesaReceipt, FallbackReceipt
    <2>5. PollOK(k)'
        BY <1>5, <1>12, <2>2 DEF PollOK, PollsOK, PollEnqueue
    <2> QED
        BY <1>3, <2>2, <2>3, <2>4, <2>5, ReceiptFrame
<1>13. CASE PollEnd(k) \/ PollCrash(k)
    <2>1. poll'[k] = IdlePoll
        BY <1>13 DEF PollEnd, PollCrash, TypeOK, TablesTypeOK
    <2>2. PollOK(k)'
        BY <2>1 DEF PollOK, IdlePoll
    <2> QED
        BY <1>4, <1>13, <2>2 DEF PollEnd, PollCrash
<1> QED
    BY <1>6, <1>7, <1>8, <1>9, <1>10, <1>11, <1>12, <1>13 DEF Poller

-----------------------------------------------------------------------------
\* The inductive step.
LEMMA SettlementStep ==
    SettlementInv /\ [Next]_settlementVars => SettlementInv' /\ Forward
<1> SUFFICES ASSUME SettlementInv, [Next]_settlementVars
             PROVE  SettlementInv' /\ Forward
    OBVIOUS
<1>1. CASE UNCHANGED settlementVars
    BY <1>1, TypeStep
       DEF settlementVars, SettlementInv, PaymentsOK, PaymentOK, HooksOK,
           HookOK, PollsOK, PollOK, ReceiptUnique, Forward, MpesaReceipt,
           FallbackReceipt
<1>2. CASE Next
    BY <1>2, OutsideStep, WebhookStep, PollerStep DEF Next
<1> QED
    BY <1>1, <1>2

\* Nothing has been opened yet.
LEMMA SettlementStart == Init => SettlementInv
<1>1. Init => TypeOK
    BY DEF Init, InitTables, Ages, TypeOK, TablesTypeOK, Statuses, IdleHook,
           IdlePoll
<1> QED
    BY <1>1 DEF Init, InitTables, SettlementInv, PaymentsOK, PaymentOK, HooksOK,
                HookOK, PollsOK, PollOK, ReceiptUnique, IdleHook, IdlePoll

\* The inductive invariant holds throughout every behaviour.
THEOREM SettlementInvariant == Spec => []SettlementInv
BY SettlementStart, SettlementStep, PTL DEF Spec

\* Neither process_daraja_webhook nor the polling cron ever confirms a payment
\* that was not paid, however their awaits interleave.
THEOREM OnlyPaidIsConfirmed == Spec => []ConfirmedIsPaid
<1>1. SettlementInv => ConfirmedIsPaid
    BY DEF SettlementInv, PaymentsOK, PaymentOK, ConfirmedIsPaid
<1> QED
    BY <1>1, SettlementInvariant, PTL

\* Every generate_voucher_task they queue is for a confirmed payment.
THEOREM OnlyConfirmedIsQueued == Spec => []QueuedIsConfirmed
<1>1. SettlementInv => QueuedIsConfirmed
    BY DEF SettlementInv, PaymentsOK, PaymentOK, QueuedIsConfirmed
<1> QED
    BY <1>1, SettlementInvariant, PTL

\* Receipts stay unique whatever suffixes the checkout ids share.
THEOREM ReceiptsStayUnique == Spec => []ReceiptUnique
BY SettlementInvariant, PTL DEF SettlementInv

\* The three UPDATEs that do not test the status never unsettle a row.
THEOREM SettledStays == Spec => SettledForGood
<1>1. SettlementInv /\ [Next]_settlementVars
        => [\A p \in Payments : status[p] \in {"confirmed", "failed"}
                                   => status'[p] = status[p]]_settlementVars
    BY SettlementStep DEF Forward
<1> QED
    BY <1>1, SettlementInvariant, PTL DEF Spec, SettledForGood

\* The poller never overwrites Safaricom's receipt with its own.
THEOREM MpesaReceiptStays == Spec => MpesaReceiptKept
<1>1. SettlementInv /\ [Next]_settlementVars
        => [\A p \in Payments : receipt[p] = MpesaReceipt(p)
                                   => receipt'[p] = receipt[p]]_settlementVars
    BY SettlementStep DEF Forward
<1> QED
    BY <1>1, SettlementInvariant, PTL DEF Spec, MpesaReceiptKept

-----------------------------------------------------------------------------
(* Provisioning.                                                           *)

JobRecords == [pc : Steps, pay : Payments, try : 1..ArqMaxTries, code : Codes]

\* The attributes whose rows are behind a job that has reached step pc.
Written(pc) ==
    CASE pc = "password" -> {}
      [] pc = "rate"     -> {"password"}
      [] pc = "timeout"  -> {"password", "rate"}
      [] pc = "quota"    -> {"password", "rate", "timeout"}
      [] OTHER           -> Attributes

\* Every trace of work for a payment says that it is confirmed.
TaskOK(p) ==
    \/ status[p] = "confirmed"
    \/ /\ queue[p] = 0
       /\ \A t \in 2..ArqMaxTries : retries[p][t] = 0
       /\ p \notin sweep \cup manual
       /\ voucher[p] = NoCode

\* A job under way is for a confirmed payment; until it inserts the voucher its
\* code is no voucher's, and once the DELETEs are behind it its rows are the ones
\* it has written.
WorkerOK(w) ==
    LET job == worker[w] IN
    /\ job.pc \in Steps => status[job.pay] = "confirmed"
    /\ job.pc \in BeforeVoucher => \A p \in Payments : voucher[p] # job.code
    /\ job.pc = "radreply" => <<job.code, "password">> \notin rad
    /\ job.pc \in Attributes => job.pc \in Required(job.pay)
    /\ job.pc \in Attributes \cup {"voucher"}
          => Rows(job.code) = Required(job.pay) \cap Written(job.pc)

\* No two coroutines have the same code.
CodesApart ==
    \A w, x \in Workers :
        w # x /\ worker[w].code = worker[x].code => worker[w].code = NoCode

TasksOK   == \A p \in Payments : TaskOK(p)
WorkersOK == \A w \in Workers : WorkerOK(w)

JobsInv ==
    JobsTypeOK /\ TasksOK /\ WorkersOK /\ CodesApart /\ VoucherBacked /\ SoleIssuer

-----------------------------------------------------------------------------
\* What a coroutine's record holds.
LEMMA WorkerRecord ==
    ASSUME JobsTypeOK, NEW w \in Workers
    PROVE  /\ worker[w] = Idle => worker[w].pc = "idle"
           /\ worker[w] # Idle => worker[w] \in JobRecords
           /\ worker[w].pc \in Steps <=> worker[w] # Idle
<1>1. worker[w] \in {Idle} \cup JobRecords
    BY DEF JobsTypeOK, JobRecords
<1>2. "idle" \notin Steps
    BY DEF Steps, BeforeVoucher, Tables, AfterVoucher, Attributes
<1> QED
    BY <1>1, <1>2 DEF Idle, JobRecords

\* One more and one less keep a table of counters a table of counters.
LEMMA Counting ==
    ASSUME NEW S, NEW f \in [S -> Nat], NEW x \in S
    PROVE  /\ [f EXCEPT ![x] = f[x] + 1] \in [S -> Nat]
           /\ f[x] > 0 => [f EXCEPT ![x] = f[x] - 1] \in [S -> Nat]
OBVIOUS

\* The job goes back for a try it has left, and its coroutine is free.
LEMMA RunAgainType ==
    ASSUME JobsTypeOK, NEW w \in Workers, worker[w] \in JobRecords,
           NEW limit \in Nat, limit <= ArqMaxTries, RunAgain(w, limit)
    PROVE  /\ retries' \in [Payments -> [2..ArqMaxTries -> Nat]]
           /\ worker' \in [Workers -> {Idle} \cup JobRecords]
<1>1. worker[w].pay \in Payments /\ worker[w].try \in 1..ArqMaxTries
    BY DEF JobRecords
<1>2. worker' \in [Workers -> {Idle} \cup JobRecords]
    BY DEF RunAgain, JobsTypeOK, JobRecords
<1>3. ASSUME worker[w].try < limit
      PROVE  retries' \in [Payments -> [2..ArqMaxTries -> Nat]]
    <2> DEFINE p == worker[w].pay
               t == worker[w].try + 1
    <2>1. t \in 2..ArqMaxTries
        BY <1>1, <1>3, ProvisioningConstants
    <2>2. retries[p] \in [2..ArqMaxTries -> Nat]
        BY <1>1 DEF JobsTypeOK
    <2> HIDE DEF p, t
    <2>3. [retries[p] EXCEPT ![t] = retries[p][t] + 1] \in [2..ArqMaxTries -> Nat]
        BY <2>1, <2>2, Counting
    <2>4. retries' = [retries EXCEPT ![p] = [retries[p] EXCEPT
                                               ![t] = retries[p][t] + 1]]
        BY <1>3 DEF RunAgain, p, t
    <2> QED
        BY <1>1, <2>3, <2>4 DEF JobsTypeOK, p
<1>4. ASSUME ~(worker[w].try < limit)
      PROVE  retries' \in [Payments -> [2..ArqMaxTries -> Nat]]
    BY <1>4 DEF RunAgain, JobsTypeOK
<1> QED
    BY <1>2, <1>3, <1>4

\* The statements of the task in their order, and what is written after each.
LEMMA FollowingStatement ==
    ASSUME NEW p, NEW a \in Required(p)
    PROVE  LET s == Following(a, p) IN
           /\ s \in Required(p) \cup {"voucher"}
           /\ Required(p) \cap Written(s) = (Required(p) \cap Written(a)) \cup {a}
<1>1. CASE p \in Metered
    BY <1>1 DEF Following, Attributes, Written, Required
<1>2. CASE p \notin Metered
    BY <1>2 DEF Following, Attributes, Written, Required
<1> QED
    BY <1>1, <1>2

\* The names of the steps.
LEMMA StepNames ==
    /\ Attributes \subseteq BeforeVoucher /\ BeforeVoucher \subseteq Steps
    /\ AfterVoucher \subseteq Steps /\ BeforeVoucher \cap AfterVoucher = {}
    /\ Tables \cap (Attributes \cup {"voucher"}) = {}
    /\ \A p : Required(p) \subseteq Attributes
BY DEF Steps, BeforeVoucher, AfterVoucher, Attributes, Tables, Required

\* A coroutine that goes on to a later statement of the same job.
LEMMA MoveOn ==
    ASSUME JobsTypeOK, NEW w \in Workers, worker[w] \in JobRecords,
           NEW s \in Steps, worker' = [worker EXCEPT ![w].pc = s]
    PROVE  /\ worker'[w] = [worker[w] EXCEPT !.pc = s]
           /\ worker'[w] \in JobRecords
           /\ worker' \in [Workers -> {Idle} \cup JobRecords]
<1>1. worker \in [Workers -> {Idle} \cup JobRecords]
    BY DEF JobsTypeOK, JobRecords
<1>2. worker'[w] = [worker[w] EXCEPT !.pc = s]
    BY <1>1
<1>3. worker'[w] \in JobRecords
    BY <1>2 DEF JobRecords
<1> QED
    BY <1>1, <1>2, <1>3

\* The types after a step of a worker.
LEMMA WorkType ==
    ASSUME JobsTypeOK, NEW w \in Workers, Work(w)
    PROVE  JobsTypeOK'
<1> USE DEF JobsTypeOK, TablesTypeOK
<1>1. ASSUME NEW p \in Payments, NEW t \in 1..ArqMaxTries, Begin(w, p, t)
      PROVE  worker' \in [Workers -> {Idle} \cup JobRecords]
    <2>1. PICK code \in Codes :
             worker' = [worker EXCEPT ![w] = [pc |-> "radcheck", pay |-> p, try |-> t,
                                              code |-> code]]
        BY <1>1 DEF Begin
    <2>2. [pc |-> "radcheck", pay |-> p, try |-> t, code |-> code] \in JobRecords
        BY DEF JobRecords, Steps, BeforeVoucher, Tables
    <2> QED
        BY <2>1, <2>2 DEF JobRecords
<1>2. ASSUME NEW p \in Payments, TakeJob(w, p) PROVE JobsTypeOK'
    <2>1. queue' \in [Payments -> Nat]
        BY <1>2, Counting DEF TakeJob
    <2>2. 1 \in 1..ArqMaxTries /\ Begin(w, p, 1)
        BY <1>2, ProvisioningConstants DEF TakeJob
    <2> QED
        BY <1>1, <1>2, <2>1, <2>2 DEF TakeJob, Begin, JobRecords
<1>3. ASSUME NEW p \in Payments, NEW t \in 2..ArqMaxTries, TakeRetry(w, p, t)
      PROVE  JobsTypeOK'
    <2>1. retries[p] \in [2..ArqMaxTries -> Nat] /\ retries[p][t] > 0
        BY <1>3 DEF TakeRetry
    <2>2. [retries[p] EXCEPT ![t] = retries[p][t] - 1] \in [2..ArqMaxTries -> Nat]
        BY <2>1, Counting
    <2>3. retries' = [retries EXCEPT ![p] = [retries[p] EXCEPT
                                               ![t] = retries[p][t] - 1]]
        BY <1>3 DEF TakeRetry
    <2>4. retries' \in [Payments -> [2..ArqMaxTries -> Nat]]
        BY <2>2, <2>3
    <2>5. t \in 1..ArqMaxTries /\ Begin(w, p, t)
        BY <1>3, ProvisioningConstants DEF TakeRetry
    <2> QED
        BY <1>1, <1>3, <2>4, <2>5 DEF TakeRetry, Begin, JobRecords
<1>4. ASSUME worker[w].pc \in Steps
      PROVE  /\ worker[w] \in JobRecords /\ worker[w].pay \in Payments
             /\ worker[w].code \in Codes
    BY <1>4, WorkerRecord DEF JobRecords
<1>5. CASE WriteRadiusRow(w)
    <2>1. worker[w].pc \in Attributes /\ worker[w] \in JobRecords
        BY <1>4, <1>5 DEF WriteRadiusRow, Steps, BeforeVoucher
    <2>2. Following(worker[w].pc, worker[w].pay) \in Steps
        BY <2>1 DEF Following, Steps, BeforeVoucher, Attributes
    <2>3. worker' = [worker EXCEPT ![w].pc = Following(worker[w].pc, worker[w].pay)]
        BY <1>5 DEF WriteRadiusRow
    <2>4. worker' \in [Workers -> {Idle} \cup JobRecords]
        BY <2>1, <2>2, <2>3, MoveOn
    <2>5. rad' \in SUBSET (Codes \X Attributes)
        BY <1>5, <2>1 DEF WriteRadiusRow, JobRecords
    <2> QED
        BY <1>5, <2>4, <2>5 DEF WriteRadiusRow, JobRecords, interface
<1>6. CASE InsertVoucher(w)
    <2>1. worker[w] \in JobRecords
        BY <1>4, <1>6 DEF InsertVoucher, Steps, BeforeVoucher
    <2> DEFINE s == IF worker[w].pay \in Guests THEN "guest" ELSE "invoice"
    <2>2. s \in Steps
        BY DEF Steps, AfterVoucher
    <2>3. worker' \in [Workers -> {Idle} \cup JobRecords]
        BY <1>6, <2>1, <2>2, MoveOn DEF InsertVoucher
    <2>4. voucher' \in [Payments -> Codes \cup {NoCode}]
        BY <1>6, <2>1 DEF InsertVoucher, JobRecords
    <2> QED
        BY <1>6, <2>3, <2>4 DEF InsertVoucher, JobRecords, interface
<1>7. CASE VoucherExists(w)
    <2>1. worker[w] \in JobRecords
        BY <1>4, <1>7 DEF VoucherExists, Steps, BeforeVoucher
    <2>2. /\ retries' \in [Payments -> [2..ArqMaxTries -> Nat]]
          /\ worker' \in [Workers -> {Idle} \cup JobRecords]
        BY <1>7, <2>1, RunAgainType, ProvisioningConstants DEF VoucherExists
    <2> QED
        BY <1>7, <2>2 DEF VoucherExists, JobRecords, interface
<1>8. CASE TellGuest(w)
    <2>1. worker[w] \in JobRecords /\ "invoice" \in Steps
        BY <1>4, <1>8 DEF TellGuest, Steps, AfterVoucher
    <2>2. worker' \in [Workers -> {Idle} \cup JobRecords]
        BY <1>8, <2>1, MoveOn DEF TellGuest
    <2>3. notified' \in SUBSET Payments
        BY <1>8, <2>1 DEF TellGuest, JobRecords
    <2> QED
        BY <1>8, <2>2, <2>3 DEF TellGuest, JobRecords, interface
<1>9. CASE InsertInvoice(w)
    <2>1. worker[w] \in JobRecords /\ "pdf" \in Steps
        BY <1>4, <1>9 DEF InsertInvoice, Steps, AfterVoucher
    <2>2. worker' \in [Workers -> {Idle} \cup JobRecords]
        <3>1. CASE worker' = [worker EXCEPT ![w].pc = "pdf"]
            BY <2>1, <3>1, MoveOn
        <3>2. CASE worker' = [worker EXCEPT ![w] = Idle]
            BY <3>2 DEF JobRecords
        <3> QED
            BY <1>9, <3>1, <3>2 DEF InsertInvoice
    <2>3. invoice' \in [Payments -> {"none", "numbered", "issued"}]
        BY <1>9, <2>1 DEF InsertInvoice, JobRecords
    <2> QED
        BY <1>9, <2>2, <2>3 DEF InsertInvoice, JobRecords, interface
<1>10. CASE FinishInvoice(w)
    <2>1. worker[w] \in JobRecords
        BY <1>4, <1>10 DEF FinishInvoice, Steps, AfterVoucher
    <2>2. worker' \in [Workers -> {Idle} \cup JobRecords]
        BY <1>10 DEF FinishInvoice, JobRecords
    <2>3. invoice' \in [Payments -> {"none", "numbered", "issued"}]
        BY <1>10, <2>1 DEF FinishInvoice, JobRecords
    <2> QED
        BY <1>10, <2>2, <2>3 DEF FinishInvoice, JobRecords, interface
<1>11. CASE ClearTable(w)
    <2>1. worker[w].pc \in Tables /\ worker[w] \in JobRecords
        BY <1>4, <1>11 DEF ClearTable, Steps, BeforeVoucher
    <2> DEFINE s == IF worker[w].pc = "radcheck" THEN "radreply" ELSE "password"
    <2>2. s \in Steps
        BY DEF Steps, BeforeVoucher, Tables, Attributes
    <2>3. worker' = [worker EXCEPT ![w].pc = s]
        BY <1>11 DEF ClearTable
    <2> HIDE DEF s
    <2>4. worker' \in [Workers -> {Idle} \cup JobRecords]
        BY <2>1, <2>2, <2>3, MoveOn
    <2> QED
        BY <1>11, <2>4 DEF ClearTable, JobRecords, interface
<1> QED
    BY <1>2, <1>3, <1>5, <1>6, <1>7, <1>8, <1>9, <1>10, <1>11 DEF Work

\* The types after something failed.
LEMMA FailType ==
    ASSUME JobsTypeOK, NEW w \in Workers, Fail(w)
    PROVE  JobsTypeOK'
<1> USE DEF JobsTypeOK, TablesTypeOK
<1>1. crashes' \in Nat
    BY DEF Fail, TaskRaises, InvoiceRaises, WorkerCrash, Crash
<1>2. CASE TaskRaises(w)
    <2>1. worker[w] \in JobRecords
        BY <1>2, WorkerRecord DEF TaskRaises, Steps, AfterVoucher
    <2>2. /\ retries' \in [Payments -> [2..ArqMaxTries -> Nat]]
          /\ worker' \in [Workers -> {Idle} \cup JobRecords]
        BY <1>2, <2>1, RunAgainType, ProvisioningConstants DEF TaskRaises
    <2> QED
        BY <1>1, <1>2, <2>2 DEF TaskRaises, JobRecords, interface
<1>3. CASE InvoiceRaises(w)
    <2>1. worker' \in [Workers -> {Idle} \cup JobRecords]
        BY <1>3 DEF InvoiceRaises, JobRecords
    <2> QED
        BY <1>1, <1>3, <2>1 DEF InvoiceRaises, JobRecords, interface
<1>4. CASE WorkerCrash(w)
    <2>1. worker[w] \in JobRecords
        BY <1>4, WorkerRecord DEF WorkerCrash
    <2>2. RunAgain(w, ArqMaxTries) /\ ArqMaxTries \in Nat
          /\ ArqMaxTries <= ArqMaxTries
        BY <1>4, ProvisioningConstants DEF WorkerCrash
    <2>3. /\ retries' \in [Payments -> [2..ArqMaxTries -> Nat]]
          /\ worker' \in [Workers -> {Idle} \cup JobRecords]
        BY <2>1, <2>2, RunAgainType
    <2> QED
        BY <1>1, <1>4, <2>3 DEF WorkerCrash, JobRecords, interface
<1> QED
    BY <1>2, <1>3, <1>4 DEF Fail

\* The types after a step of the reconciliation cron or of the admin.
LEMMA SafetyNetType ==
    ASSUME JobsTypeOK, SafetyNets
    PROVE  JobsTypeOK'
<1> USE DEF JobsTypeOK, TablesTypeOK
<1>1. CASE SweepStart
    BY <1>1 DEF SweepStart, interface
<1>2. CASE SweepCrash
    BY <1>2 DEF SweepCrash, Crash, interface
<1>3. ASSUME NEW p \in Payments, SweepEnqueue(p) PROVE JobsTypeOK'
    BY <1>3, Counting DEF SweepEnqueue
<1>4. ASSUME NEW p \in Payments, AdminCheck(p) PROVE JobsTypeOK'
    BY <1>4 DEF AdminCheck, interface
<1>5. ASSUME NEW p \in Payments, AdminEnqueue(p) PROVE JobsTypeOK'
    BY <1>5, Counting DEF AdminEnqueue
<1> QED
    BY <1>1, <1>2, <1>3, <1>4, <1>5 DEF SafetyNets

-----------------------------------------------------------------------------
\* What no step takes back: a confirmation, a voucher.
Onward ==
    /\ \A p \in Payments : status[p] = "confirmed" => status'[p] = "confirmed"
    /\ \A p \in Payments : voucher[p] # NoCode => voucher'[p] = voucher[p]

\* A step outside the worker and the safety nets may settle payments and queue
\* tasks for confirmed ones.
LEMMA EnvironmentFrame ==
    ASSUME JobsInv, TablesTypeOK', UNCHANGED jobVars,
           \A p \in Payments : status[p] = "confirmed" => status'[p] = "confirmed",
           \A p \in Payments : queue'[p] > 0 => status'[p] = "confirmed"
    PROVE  JobsInv' /\ Onward
<1>1. /\ retries' = retries /\ worker' = worker /\ rad' = rad
      /\ voucher' = voucher /\ sweep' = sweep /\ manual' = manual
    BY DEF jobVars
<1>2. JobsTypeOK'
    BY DEF JobsInv, JobsTypeOK, jobVars
<1>3. TasksOK'
    <2> SUFFICES ASSUME NEW p \in Payments, status'[p] # "confirmed"
                 PROVE  TaskOK(p)'
        BY DEF TasksOK, TaskOK
    <2>1. queue'[p] = 0
        BY <1>2 DEF JobsTypeOK, TablesTypeOK
    <2>2. status[p] # "confirmed" /\ TaskOK(p)
        BY DEF JobsInv, TasksOK
    <2> QED
        BY <1>1, <2>1, <2>2 DEF TaskOK
<1>4. WorkersOK'
    <2> SUFFICES ASSUME NEW w \in Workers PROVE WorkerOK(w)'
        BY DEF WorkersOK
    <2>1. worker[w].pc \in Steps => worker[w].pay \in Payments
        BY WorkerRecord DEF JobsInv, JobRecords
    <2>2. WorkerOK(w)
        BY DEF JobsInv, WorkersOK
    <2> QED
        BY <1>1, <2>1, <2>2 DEF WorkerOK, Rows
<1>5. CodesApart' /\ VoucherBacked' /\ SoleIssuer'
    BY <1>1 DEF JobsInv, CodesApart, VoucherBacked, Rows, SoleIssuer
<1> QED
    BY <1>1, <1>2, <1>3, <1>4, <1>5 DEF JobsInv, Onward

\* A step of coroutine w that leaves the vouchers alone and touches the RADIUS
\* rows of its own code only: what it owes.
LEMMA WorkerFrame ==
    ASSUME JobsInv, JobsTypeOK', NEW w \in Workers,
           status' = status, voucher' = voucher,
           rad' # rad => worker[w].pc \in BeforeVoucher,
           \A c \in Codes : c # worker[w].code => Rows(c)' = Rows(c),
           \A x \in Workers : x # w => worker'[x] = worker[x],
           TasksOK', WorkerOK(w)',
           \/ worker'[w].code \in {worker[w].code, NoCode}
           \/ \A x \in Workers : worker[x].code # worker'[w].code,
           worker'[w].pc \in AfterVoucher =>
               /\ worker[w].pc \in AfterVoucher
               /\ worker'[w].pay = worker[w].pay
               /\ worker'[w].code = worker[w].code
    PROVE  JobsInv' /\ Onward
<1>1. WorkersOK'
    <2> SUFFICES ASSUME NEW x \in Workers, x # w PROVE WorkerOK(x)'
        BY DEF WorkersOK
    <2>1. WorkerOK(x) /\ worker'[x] = worker[x]
        BY DEF JobsInv, WorkersOK
    <2>2. CASE worker[x] = Idle
        BY <2>1, <2>2, StepNames, WorkerRecord
           DEF WorkerOK, JobsInv, Idle, Steps, BeforeVoucher
    <2>3. CASE worker[x] # Idle
        <3>1. worker[x].code \in Codes /\ worker[x].code # NoCode
            BY <2>3, WorkerRecord, ProvisioningConstants DEF JobsInv, JobRecords
        <3>2. worker[x].code # worker[w].code
            BY <3>1 DEF JobsInv, CodesApart
        <3>3. Rows(worker[x].code)' = Rows(worker[x].code)
            BY <2>1, <3>1, <3>2 DEF Rows
        <3>4. <<worker[x].code, "password">> \in rad' =>
                 <<worker[x].code, "password">> \in rad
            <4>1. "password" \in Attributes
                BY DEF Attributes
            <4> QED
                BY <2>1, <3>3, <4>1 DEF Rows
        <3> QED
            BY <2>1, <3>3, <3>4 DEF WorkerOK
    <2> QED
        BY <2>2, <2>3
<1>2. VoucherBacked'
    <2> SUFFICES ASSUME NEW p \in Payments, voucher[p] # NoCode
                 PROVE  Rows(voucher[p])' = Required(p)
        BY DEF VoucherBacked, Rows
    <2>1. voucher[p] \in Codes /\ Rows(voucher[p]) = Required(p)
        BY DEF JobsInv, JobsTypeOK, VoucherBacked
    <2>2. CASE rad' = rad
        BY <2>1, <2>2 DEF Rows
    <2>3. CASE rad' # rad
        <3>1. voucher[p] # worker[w].code
            BY <2>3 DEF JobsInv, WorkersOK, WorkerOK
        <3> QED
            BY <2>1, <3>1 DEF Rows
    <2> QED
        BY <2>2, <2>3
<1>3. SoleIssuer'
    <2> SUFFICES ASSUME NEW x \in Workers, NEW y \in Workers,
                        worker'[x].pc \in AfterVoucher
                 PROVE  /\ voucher'[worker'[x].pay] = worker'[x].code
                        /\ (y # x /\ worker'[y].pc \in AfterVoucher)
                              => worker'[y].pay # worker'[x].pay
        BY DEF SoleIssuer
    <2>1. ASSUME NEW z \in Workers, worker'[z].pc \in AfterVoucher
          PROVE  /\ worker[z].pc \in AfterVoucher
                 /\ worker'[z].pay = worker[z].pay
                 /\ worker'[z].code = worker[z].code
        BY <2>1
    <2> QED
        BY <2>1 DEF JobsInv, SoleIssuer
<1>4. CodesApart'
    <2>1. CodesApart
        BY DEF JobsInv
    <2>2. CASE worker'[w].code \in {worker[w].code, NoCode}
        BY <2>1, <2>2 DEF CodesApart
    <2>3. CASE \A x \in Workers : worker[x].code # worker'[w].code
        BY <2>1, <2>3 DEF CodesApart
    <2> QED
        BY <2>2, <2>3
<1> QED
    BY <1>1, <1>2, <1>3, <1>4 DEF JobsInv, Onward

\* A job that is given up or goes back for another try: its payment is
\* confirmed, and so may be queued.
LEMMA RunAgainTasks ==
    ASSUME JobsInv, NEW w \in Workers, worker[w].pc \in Steps,
           NEW limit, RunAgain(w, limit),
           UNCHANGED <<status, queue, voucher, sweep, manual>>
    PROVE  TasksOK'
<1>1. status[worker[w].pay] = "confirmed"
    BY DEF JobsInv, WorkersOK, WorkerOK
<1> SUFFICES ASSUME NEW p \in Payments, status[p] # "confirmed"
             PROVE  TaskOK(p)'
    BY DEF TasksOK, TaskOK
<1>2. retries'[p] = retries[p]
    BY <1>1 DEF RunAgain, JobsInv, JobsTypeOK
<1>3. TaskOK(p)
    BY DEF JobsInv, TasksOK
<1> QED
    BY <1>2, <1>3 DEF TaskOK

\* A coroutine that becomes idle owes nothing more.
LEMMA IdleOK ==
    ASSUME JobsInv, NEW w \in Workers, worker' = [worker EXCEPT ![w] = Idle]
    PROVE  /\ WorkerOK(w)'
           /\ worker'[w].pc \notin AfterVoucher /\ worker'[w].code = NoCode
           /\ \A x \in Workers : x # w => worker'[x] = worker[x]
<1>1. worker'[w] = Idle
    BY DEF JobsInv, JobsTypeOK
<1>2. "idle" \notin Steps
    BY DEF Steps, BeforeVoucher, Tables, AfterVoucher, Attributes
<1>3. WorkerOK(w)' /\ worker'[w].pc \notin AfterVoucher
    BY <1>1, <1>2 DEF WorkerOK, Idle, Steps, BeforeVoucher
<1> QED
    BY <1>1, <1>3 DEF JobsInv, JobsTypeOK, Idle

\* A job is picked up: whoever queued it had seen the payment confirmed.
LEMMA TakeStep ==
    ASSUME JobsInv, NEW w \in Workers, NEW p \in Payments,
           \/ TakeJob(w, p)
           \/ \E t \in 2..ArqMaxTries : TakeRetry(w, p, t)
    PROVE  JobsInv' /\ Onward
<1>1. JobsTypeOK'
    BY WorkType DEF JobsInv, Work
<1>2. PICK t : Begin(w, p, t)
    BY DEF TakeJob, TakeRetry
<1>3. status[p] = "confirmed"
    <2>1. TaskOK(p)
        BY DEF JobsInv, TasksOK
    <2> QED
        BY <2>1 DEF TakeJob, TakeRetry, TaskOK
<1>4. TasksOK'
    <2> SUFFICES ASSUME NEW q \in Payments, status[q] # "confirmed"
                 PROVE  TaskOK(q)'
        BY <1>2 DEF TasksOK, TaskOK, Begin
    <2>1. q # p /\ TaskOK(q)
        BY <1>3 DEF JobsInv, TasksOK
    <2>2. queue'[q] = queue[q] /\ retries'[q] = retries[q]
        BY <2>1 DEF TakeJob, TakeRetry, JobsInv, JobsTypeOK, TablesTypeOK
    <2> QED
        BY <1>2, <2>1, <2>2 DEF TaskOK, Begin
<1>5. PICK code \in Codes :
         /\ Drawn(code)
         /\ worker'[w] = [pc |-> "radcheck", pay |-> p, try |-> t, code |-> code]
    BY <1>2 DEF Begin, JobsInv, JobsTypeOK
<1>6. WorkerOK(w)'
    <2>1. /\ "radcheck" \notin Attributes \cup {"voucher"}
          /\ status' = status /\ voucher' = voucher
        BY <1>2 DEF Attributes, Begin
    <2> QED
        BY <1>3, <1>5, <2>1 DEF WorkerOK, Drawn
<1>7. worker'[w].pc \notin AfterVoucher
    BY <1>5 DEF AfterVoucher
<1>8. \A x \in Workers : x # w => worker'[x] = worker[x]
    BY <1>2 DEF Begin, JobsInv, JobsTypeOK
<1>9. \A x \in Workers : worker[x].code # worker'[w].code
    BY <1>5 DEF Drawn
<1>10. /\ status' = status /\ voucher' = voucher /\ rad' = rad
       /\ \A c \in Codes : Rows(c)' = Rows(c)
    BY <1>2 DEF Begin, Rows
<1> QED
    BY <1>1, <1>4, <1>6, <1>7, <1>8, <1>9, <1>10, WorkerFrame

\* A statement on the RADIUS tables: what the job at s must then find under its code.
LEMMA TableStep ==
    ASSUME JobsInv, NEW w \in Workers, Work(w), worker[w].pc \in BeforeVoucher,
           NEW s \in BeforeVoucher, worker' = [worker EXCEPT ![w].pc = s],
           UNCHANGED <<interface, retries, voucher, sweep, manual>>,
           \A c \in Codes : c # worker[w].code => Rows(c)' = Rows(c),
           s = "radreply" => <<worker[w].code, "password">> \notin rad',
           s \in Attributes => s \in Required(worker[w].pay),
           s \in Attributes \cup {"voucher"}
              => Rows(worker[w].code)' = Required(worker[w].pay) \cap Written(s)
    PROVE  JobsInv' /\ Onward
<1>1. JobsTypeOK'
    BY WorkType DEF JobsInv
<1>2. worker[w] \in JobRecords /\ worker[w].pc \in Steps /\ s \in Steps
    BY WorkerRecord, StepNames DEF JobsInv
<1>3. worker'[w] = [worker[w] EXCEPT !.pc = s]
    BY <1>2, MoveOn DEF JobsInv
<1>4. /\ worker'[w].pc = s /\ worker'[w].pay = worker[w].pay
      /\ worker'[w].code = worker[w].code
    BY <1>2, <1>3 DEF JobRecords
<1>5. /\ status' = status /\ queue' = queue /\ retries' = retries
      /\ voucher' = voucher /\ sweep' = sweep /\ manual' = manual
    BY DEF interface
<1>6. TasksOK'
    BY <1>5 DEF JobsInv, TasksOK, TaskOK
<1>7. WorkerOK(w)'
    <2>1. WorkerOK(w)
        BY DEF JobsInv, WorkersOK
    <2> QED
        BY <1>2, <1>4, <1>5, <2>1 DEF WorkerOK
<1>8. s \notin AfterVoucher
    BY StepNames
<1>9. \A x \in Workers : x # w => worker'[x] = worker[x]
    BY DEF JobsInv, JobsTypeOK
<1> QED
    BY <1>1, <1>4, <1>5, <1>6, <1>7, <1>8, <1>9, WorkerFrame

\* Whatever rows an abandoned attempt has left under the code are gone after the
\* two DELETEs.
LEMMA ClearStep ==
    ASSUME JobsInv, NEW w \in Workers, ClearTable(w)
    PROVE  JobsInv' /\ Onward
<1> DEFINE code == worker[w].code
           pc == worker[w].pc
           s == IF pc = "radcheck" THEN "radreply" ELSE "password"
<1>1. /\ pc \in Tables /\ rad' = rad \ ({code} \X InTable(pc))
      /\ worker' = [worker EXCEPT ![w].pc = s]
      /\ UNCHANGED <<interface, retries, voucher, sweep, manual>>
    BY DEF ClearTable
<1>2. pc \in BeforeVoucher /\ s \in BeforeVoucher
    BY <1>1 DEF BeforeVoucher, Tables, Attributes
<1>3. WorkerOK(w)
    BY DEF JobsInv, WorkersOK
<1>4. \A c \in Codes : c # code => Rows(c)' = Rows(c)
    BY <1>1 DEF Rows
<1>5. CASE pc = "radcheck"
    <2>1. s = "radreply" /\ s \notin Attributes \cup {"voucher"}
        BY <1>5 DEF Attributes
    <2>2. <<code, "password">> \notin rad'
        BY <1>1, <1>5 DEF InTable
    <2> QED
        BY <1>1, <1>2, <1>4, <2>1, <2>2, TableStep DEF Work
<1>6. CASE pc = "radreply"
    <2>1. s = "password" /\ s \in Required(worker[w].pay) /\ Written(s) = {}
        BY <1>6 DEF Required, Attributes, Written
    <2>2. ASSUME NEW a \in Attributes PROVE <<code, a>> \notin rad'
        <3>1. CASE a = "password"
            BY <1>1, <1>3, <1>6, <3>1 DEF WorkerOK
        <3>2. CASE a # "password"
            BY <1>1, <1>6, <3>2 DEF InTable
        <3> QED
            BY <3>1, <3>2
    <2>3. worker'[w].code = code
        BY <1>1 DEF JobsInv, JobsTypeOK
    <2>4. Rows(code)' = {}
        BY <2>2, <2>3 DEF Rows
    <2> QED
        BY <1>1, <1>2, <1>4, <2>1, <2>4, TableStep DEF Work
<1> QED
    BY <1>1, <1>5, <1>6 DEF Tables

\* A RADIUS row is written before the step that relies on it.
LEMMA RadiusStep ==
    ASSUME JobsInv, NEW w \in Workers, WriteRadiusRow(w)
    PROVE  JobsInv' /\ Onward
<1> DEFINE p == worker[w].pay
           a == worker[w].pc
           code == worker[w].code
           s == Following(a, p)
<1>1. /\ a \in Attributes /\ rad' = rad \cup {<<code, a>>}
      /\ worker' = [worker EXCEPT ![w].pc = s]
      /\ UNCHANGED <<interface, retries, voucher, sweep, manual>>
    BY DEF WriteRadiusRow
<1>2. a \in Required(p) /\ Rows(code) = Required(p) \cap Written(a)
    BY <1>1 DEF JobsInv, WorkersOK, WorkerOK
<1>3. /\ s \in Required(p) \cup {"voucher"}
      /\ Required(p) \cap Written(s) = (Required(p) \cap Written(a)) \cup {a}
    BY <1>2, FollowingStatement
<1>4. a \in BeforeVoucher /\ s \in BeforeVoucher
    BY <1>1, <1>3, StepNames DEF BeforeVoucher
<1>5. \A c \in Codes : c # code => Rows(c)' = Rows(c)
    BY <1>1 DEF Rows
<1>6. Rows(code)' = Required(p) \cap Written(s)
    <2>1. Rows(code)' = Rows(code) \cup {a}
        BY <1>1 DEF Rows
    <2> QED
        BY <1>2, <1>3, <2>1
<1>7. s # "radreply" /\ (s \in Attributes => s \in Required(p))
    BY <1>3, StepNames DEF Attributes, Tables
<1> HIDE DEF s
<1> QED
    BY <1>1, <1>4, <1>5, <1>6, <1>7, TableStep DEF Work

\* INSERT INTO vouchers: UNIQUE (payment_id) makes this job the first for its
\* payment, and the rows its code needs are there.
LEMMA VoucherStep ==
    ASSUME JobsInv, NEW w \in Workers, InsertVoucher(w)
    PROVE  JobsInv' /\ Onward
<1>1. JobsTypeOK'
    BY WorkType DEF JobsInv, Work
<1> DEFINE p == worker[w].pay
           c == worker[w].code
           s == IF p \in Guests THEN "guest" ELSE "invoice"
<1>2. /\ worker[w].pc = "voucher" /\ worker[w].pc \in Steps
      /\ worker[w] \in JobRecords /\ p \in Payments /\ c \in Codes
    BY WorkerRecord DEF InsertVoucher, JobsInv, Steps, BeforeVoucher, JobRecords
<1>3. c # NoCode
    BY <1>2, ProvisioningConstants
<1>4. s \in AfterVoucher /\ s \in Steps
    BY DEF AfterVoucher, Steps
<1>5. worker'[w].pc = s /\ worker'[w].pay = p /\ worker'[w].code = c
    BY <1>2, <1>4, MoveOn DEF InsertVoucher, JobsInv, JobRecords
<1>6. \A x \in Workers : x # w => worker'[x] = worker[x]
    BY DEF InsertVoucher, JobsInv, JobsTypeOK
<1>7. /\ voucher[p] = NoCode /\ voucher'[p] = c
      /\ \A q \in Payments : q # p => voucher'[q] = voucher[q]
    BY <1>2 DEF InsertVoucher, JobsInv, JobsTypeOK
<1>8. /\ status' = status /\ queue' = queue /\ retries' = retries
      /\ rad' = rad /\ sweep' = sweep /\ manual' = manual
    BY DEF InsertVoucher, interface
<1>9. status[p] = "confirmed" /\ Rows(c) = Required(p)
    <2>1. Written("voucher") = Attributes /\ Required(p) \subseteq Attributes
        BY DEF Written, Required
    <2> QED
        BY <1>2, <2>1 DEF JobsInv, WorkersOK, WorkerOK
<1> HIDE DEF p, c, s
<1>10. TasksOK'
    <2> SUFFICES ASSUME NEW q \in Payments, status[q] # "confirmed"
                 PROVE  TaskOK(q)'
        BY <1>8 DEF TasksOK, TaskOK
    <2> QED
        BY <1>7, <1>8, <1>9 DEF JobsInv, TasksOK, TaskOK
<1>11. WorkersOK'
    <2>1. WorkerOK(w)'
        BY <1>4, <1>5, <1>8, <1>9, StepNames
           DEF WorkerOK, BeforeVoucher, Tables
    <2>2. ASSUME NEW x \in Workers, x # w PROVE WorkerOK(x)'
        <3>1. WorkerOK(x) /\ worker'[x] = worker[x] /\ worker[x].code # c
            BY <1>3, <1>6, <2>2 DEF JobsInv, WorkersOK, CodesApart, c
        <3> QED
            BY <1>7, <1>8, <3>1 DEF WorkerOK, Rows
    <2> QED
        BY <2>1, <2>2 DEF WorkersOK
<1>12. VoucherBacked' /\ CodesApart'
    <2>1. VoucherBacked'
        BY <1>7, <1>8, <1>9 DEF JobsInv, VoucherBacked, Rows
    <2>2. CodesApart'
        BY <1>5, <1>6 DEF JobsInv, CodesApart, c
    <2> QED
        BY <2>1, <2>2
<1>13. SoleIssuer'
    <2>1. ASSUME NEW x \in Workers, x # w, worker'[x].pc \in AfterVoucher
          PROVE  /\ worker'[x] = worker[x] /\ worker[x].pay # p
                 /\ voucher'[worker[x].pay] = worker[x].code
        <3>1. worker[x].pc \in AfterVoucher /\ worker'[x] = worker[x]
            BY <1>6, <2>1
        <3>2. /\ worker[x].pay \in Payments /\ worker[x].code \in Codes
              /\ voucher[worker[x].pay] = worker[x].code
            BY <3>1, WorkerRecord DEF JobsInv, SoleIssuer, Steps, JobRecords
        <3>3. worker[x].code # NoCode
            BY <3>2, ProvisioningConstants
        <3> QED
            BY <1>7, <3>1, <3>2, <3>3
    <2> SUFFICES ASSUME NEW x \in Workers, NEW y \in Workers,
                        worker'[x].pc \in AfterVoucher
                 PROVE  /\ voucher'[worker'[x].pay] = worker'[x].code
                        /\ (y # x /\ worker'[y].pc \in AfterVoucher)
                              => worker'[y].pay # worker'[x].pay
        BY DEF SoleIssuer
    <2>2. CASE x = w
        BY <1>5, <1>7, <2>1, <2>2
    <2>3. CASE x # w
        <3>1. y # w /\ y # x /\ worker'[y].pc \in AfterVoucher
                => worker'[y].pay # worker'[x].pay
            BY <2>1, <2>3 DEF JobsInv, SoleIssuer
        <3> QED
            BY <1>5, <2>1, <2>3, <3>1
    <2> QED
        BY <2>2, <2>3
<1>14. Onward
    BY <1>3, <1>7, <1>8 DEF Onward
<1> QED
    BY <1>1, <1>10, <1>11, <1>12, <1>13, <1>14 DEF JobsInv

\* The rest of the task: the guest's PIN and the invoice.
LEMMA AfterwardsStep ==
    ASSUME JobsInv, NEW w \in Workers,
           TellGuest(w) \/ InsertInvoice(w) \/ FinishInvoice(w)
    PROVE  JobsInv' /\ Onward
<1>1. JobsTypeOK'
    BY WorkType DEF JobsInv, Work
<1>2. /\ worker[w].pc \in AfterVoucher /\ worker[w].pc \in Steps
      /\ worker[w] \in JobRecords
    BY WorkerRecord DEF TellGuest, InsertInvoice, FinishInvoice, JobsInv, Steps,
                        AfterVoucher
<1>3. /\ status' = status /\ queue' = queue /\ retries' = retries
      /\ rad' = rad /\ voucher' = voucher /\ sweep' = sweep /\ manual' = manual
    BY DEF TellGuest, InsertInvoice, FinishInvoice, interface
<1>4. TasksOK'
    BY <1>3 DEF JobsInv, TasksOK, TaskOK
<1>5. CASE worker' = [worker EXCEPT ![w] = Idle]
    <2>1. \A c \in Codes : Rows(c)' = Rows(c)
        BY <1>3 DEF Rows
    <2> QED
        BY <1>1, <1>3, <1>4, <1>5, <2>1, IdleOK, WorkerFrame
<1>6. ASSUME NEW s \in {"invoice", "pdf"}, worker' = [worker EXCEPT ![w].pc = s]
      PROVE  JobsInv' /\ Onward
    <2>1. s \in Steps /\ s \in AfterVoucher
        BY DEF Steps, AfterVoucher
    <2>2. /\ worker'[w].pc = s /\ worker'[w].pay = worker[w].pay
          /\ worker'[w].code = worker[w].code
        BY <1>2, <1>6, <2>1, MoveOn DEF JobsInv, JobRecords
    <2>3. WorkerOK(w)'
        BY <1>2, <1>3, <2>1, <2>2, StepNames
           DEF JobsInv, WorkersOK, WorkerOK, BeforeVoucher, Tables
    <2>4. \A x \in Workers : x # w => worker'[x] = worker[x]
        BY <1>6 DEF JobsInv, JobsTypeOK
    <2>5. \A c \in Codes : Rows(c)' = Rows(c)
        BY <1>3 DEF Rows
    <2> QED
        BY <1>1, <1>2, <1>3, <1>4, <2>2, <2>3, <2>4, <2>5, WorkerFrame
<1> QED
    BY <1>5, <1>6 DEF TellGuest, InsertInvoice, FinishInvoice

\* A job that ends early: the voucher is there already, a statement raises, the
\* invoice is given up, the process dies.
LEMMA GiveUpStep ==
    ASSUME JobsInv, NEW w \in Workers, VoucherExists(w) \/ Fail(w)
    PROVE  JobsInv' /\ Onward
<1>1. JobsTypeOK'
    BY WorkType, FailType DEF JobsInv, Work
<1>2. worker[w].pc \in Steps
    BY WorkerRecord DEF VoucherExists, Fail, TaskRaises, InvoiceRaises, WorkerCrash,
                        JobsInv, Steps, BeforeVoucher, AfterVoucher
<1>3. /\ status' = status /\ queue' = queue /\ rad' = rad /\ voucher' = voucher
      /\ sweep' = sweep /\ manual' = manual
      /\ worker' = [worker EXCEPT ![w] = Idle]
    BY DEF VoucherExists, Fail, TaskRaises, InvoiceRaises, WorkerCrash, RunAgain,
           interface
<1>4. TasksOK'
    <2>1. CASE \E limit : RunAgain(w, limit)
        BY <1>2, <1>3, <2>1, RunAgainTasks
    <2>2. CASE retries' = retries
        BY <1>3, <2>2 DEF JobsInv, TasksOK, TaskOK
    <2> QED
        BY <2>1, <2>2 DEF VoucherExists, Fail, TaskRaises, InvoiceRaises, WorkerCrash
<1>5. \A c \in Codes : Rows(c)' = Rows(c)
    BY <1>3 DEF Rows
<1> QED
    BY <1>1, <1>3, <1>4, <1>5, IdleOK, WorkerFrame

\* The reconciliation cron and the admin: what they read before their await
\* still holds when they enqueue.
LEMMA SafetyNetStep ==
    ASSUME JobsInv, SafetyNets
    PROVE  JobsInv' /\ Onward
<1>1. JobsTypeOK'
    BY SafetyNetType DEF JobsInv
<1>2. /\ status' = status /\ retries' = retries /\ worker' = worker
      /\ rad' = rad /\ voucher' = voucher
    BY DEF SafetyNets, SweepStart, SweepCrash, SweepEnqueue, AdminCheck,
           AdminEnqueue, interface
<1>3. TasksOK'
    <2> SUFFICES ASSUME NEW q \in Payments, status[q] # "confirmed"
                 PROVE  TaskOK(q)'
        BY <1>2 DEF TasksOK, TaskOK
    <2>1. TaskOK(q)
        BY DEF JobsInv, TasksOK
    <2>2. queue'[q] = 0 /\ q \notin sweep' \cup manual'
        <3> USE <2>1 DEF TaskOK, interface
        <3>1. CASE SweepStart
            BY <3>1 DEF SweepStart, Stuck
        <3>2. CASE SweepCrash
            BY <3>2 DEF SweepCrash
        <3>3. ASSUME NEW p \in Payments, SweepEnqueue(p)
              PROVE  queue'[q] = 0 /\ q \notin sweep' \cup manual'
            BY <3>3 DEF SweepEnqueue, JobsInv, JobsTypeOK, TablesTypeOK
        <3>4. ASSUME NEW p \in Payments, AdminCheck(p)
              PROVE  queue'[q] = 0 /\ q \notin sweep' \cup manual'
            BY <3>4 DEF AdminCheck
        <3>5. ASSUME NEW p \in Payments, AdminEnqueue(p)
              PROVE  queue'[q] = 0 /\ q \notin sweep' \cup manual'
            BY <3>5 DEF AdminEnqueue, JobsInv, JobsTypeOK, TablesTypeOK
        <3> QED
            BY <3>1, <3>2, <3>3, <3>4, <3>5 DEF SafetyNets
    <2> QED
        BY <1>2, <2>1, <2>2 DEF TaskOK
<1>4. WorkersOK' /\ CodesApart' /\ VoucherBacked' /\ SoleIssuer'
    BY <1>2 DEF JobsInv, WorkersOK, WorkerOK, CodesApart, VoucherBacked, Rows,
                SoleIssuer
<1> QED
    BY <1>1, <1>2, <1>3, <1>4 DEF JobsInv, Onward

-----------------------------------------------------------------------------
\* Every step of the jobs, whatever runs beside them.
LEMMA JobsStep == JobsInv /\ Jobs => JobsInv' /\ Onward
BY TakeStep, ClearStep, RadiusStep, VoucherStep, AfterwardsStep, GiveUpStep, SafetyNetStep
   DEF Jobs, Work

\* The inductive step.
LEMMA ProvisioningStep ==
    JobsInv /\ [ProvisioningNext]_provisioningVars => JobsInv' /\ Onward
<1> SUFFICES ASSUME JobsInv, [ProvisioningNext]_provisioningVars
             PROVE  JobsInv' /\ Onward
    OBVIOUS
<1>1. \A p \in Payments : queue[p] > 0 => status[p] = "confirmed"
    BY DEF JobsInv, TasksOK, TaskOK
<1>2. TablesTypeOK
    BY DEF JobsInv, JobsTypeOK
<1>3. CASE UNCHANGED provisioningVars
    <2>1. UNCHANGED <<status, age, queue>> /\ UNCHANGED jobVars
        BY <1>3 DEF provisioningVars, interface
    <2>2. TablesTypeOK'
        BY <1>2, <2>1 DEF TablesTypeOK
    <2> QED
        BY <1>1, <2>1, <2>2, EnvironmentFrame
<1>4. ASSUME NEW p \in Payments, Settle(p) PROVE JobsInv' /\ Onward
    <2>1. TablesTypeOK' /\ queue' = queue /\ UNCHANGED jobVars
        BY <1>2, <1>4 DEF TablesTypeOK, Settle, Statuses
    <2>2. \A q \in Payments : status[q] = "confirmed" => status'[q] = "confirmed"
        BY <1>2, <1>4 DEF TablesTypeOK, Settle
    <2> QED
        BY <1>1, <2>1, <2>2, EnvironmentFrame
<1>5. ASSUME NEW p \in Payments, Submit(p) PROVE JobsInv' /\ Onward
    <2>1. TablesTypeOK' /\ status' = status /\ UNCHANGED jobVars
        BY <1>2, <1>5 DEF TablesTypeOK, Submit
    <2>2. \A q \in Payments : queue'[q] > 0 => status[q] = "confirmed"
        BY <1>1, <1>2, <1>5 DEF TablesTypeOK, Submit
    <2> QED
        BY <2>1, <2>2, EnvironmentFrame
<1>6. ASSUME NEW p \in Payments, Elapse(p) PROVE JobsInv' /\ Onward
    <2>1. TablesTypeOK' /\ status' = status /\ queue' = queue /\ UNCHANGED jobVars
        BY <1>2, <1>6 DEF TablesTypeOK, Elapse, Ages
    <2> QED
        BY <1>1, <2>1, EnvironmentFrame
<1> QED
    BY <1>3, <1>4, <1>5, <1>6, JobsStep DEF ProvisioningNext, Environment

\* No work and no voucher yet.
LEMMA JobsStart == InitTables /\ InitJobs => JobsInv
<1> SUFFICES ASSUME InitTables, InitJobs PROVE JobsInv
    OBVIOUS
<1>1. JobsTypeOK
    BY DEF InitTables, InitJobs, JobsTypeOK, TablesTypeOK, Statuses, Ages
<1>2. TasksOK
    BY DEF InitTables, InitJobs, TasksOK, TaskOK
<1>3. \A w \in Workers : worker[w].pc \notin Steps \cup BeforeVoucher
    BY DEF InitJobs, Idle, Steps, BeforeVoucher, Tables, AfterVoucher, Attributes
<1>4. WorkersOK /\ CodesApart /\ VoucherBacked /\ SoleIssuer
    BY <1>3 DEF InitJobs, WorkersOK, WorkerOK, CodesApart, Idle, VoucherBacked,
                SoleIssuer, Steps, BeforeVoucher
<1> QED
    BY <1>1, <1>2, <1>4 DEF JobsInv

\* The inductive invariant holds throughout every behaviour.
THEOREM JobsInvariant == ProvisioningSpec => []JobsInv
<1>1. ProvisioningInit => JobsInv
    BY JobsStart DEF ProvisioningInit
<1> QED
    BY <1>1, ProvisioningStep, PTL DEF ProvisioningSpec

\* generate_voucher_task never issues a voucher for a payment that was not
\* confirmed, although it does not look at the status.
THEOREM VouchersArePaidFor == ProvisioningSpec => []ProvisioningInv
<1>1. JobsInv => ProvisioningInv
    BY DEF JobsInv, TasksOK, TaskOK, ProvisioningInv, VoucherIsPaidFor
<1> QED
    BY <1>1, JobsInvariant, PTL

\* A voucher's RADIUS rows are in place, however many jobs crashed or ran twice.
THEOREM VouchersAreBacked == ProvisioningSpec => []VoucherBacked
<1>1. JobsInv => VoucherBacked
    BY DEF JobsInv
<1> QED
    BY <1>1, JobsInvariant, PTL

\* At most one job for a payment gets past the voucher INSERT.
THEOREM OneIssuer == ProvisioningSpec => []SoleIssuer
<1>1. JobsInv => SoleIssuer
    BY DEF JobsInv
<1> QED
    BY <1>1, JobsInvariant, PTL

-----------------------------------------------------------------------------
(* Invoices.  A job past the voucher INSERT is the only one for its payment *)
(* (SoleIssuer) and finds the invoice still to be written.                  *)

InvoicesOK ==
    /\ \A p \in Payments : voucher[p] = NoCode => invoice[p] = "none"
    /\ \A w \in Workers : worker[w].pc \in {"guest", "invoice"}
                             => invoice[worker[w].pay] = "none"
    /\ IsFiniteSet(Uninvoiced)
    /\ InvoiceLostOnlyByFailure

\* No voucher loses its job without a failure, and a failure costs one job.
LEMMA LossCounted ==
    ASSUME InvoicesOK, crashes \in Nat,
           \/ Uninvoiced' \subseteq Uninvoiced /\ crashes' = crashes
           \/ \E p : Uninvoiced' \subseteq Uninvoiced \cup {p} /\ crashes' = crashes + 1
    PROVE  IsFiniteSet(Uninvoiced)' /\ InvoiceLostOnlyByFailure'
<1>1. IsFiniteSet(Uninvoiced) /\ Cardinality(Uninvoiced) <= crashes
    BY DEF InvoicesOK, InvoiceLostOnlyByFailure
<1>2. Cardinality(Uninvoiced) \in Nat
    BY <1>1, FS_CardinalityType
<1>3. CASE Uninvoiced' \subseteq Uninvoiced /\ crashes' = crashes
    <2>1. IsFiniteSet(Uninvoiced') /\ Cardinality(Uninvoiced') <= Cardinality(Uninvoiced)
        BY <1>1, <1>3, FS_Subset
    <2>2. Cardinality(Uninvoiced') \in Nat
        BY <2>1, FS_CardinalityType
    <2> QED
        BY <1>1, <1>2, <1>3, <2>1, <2>2 DEF InvoiceLostOnlyByFailure
<1>4. ASSUME NEW p, Uninvoiced' \subseteq Uninvoiced \cup {p}, crashes' = crashes + 1
      PROVE  IsFiniteSet(Uninvoiced)' /\ InvoiceLostOnlyByFailure'
    <2> DEFINE U == Uninvoiced \cup {p}
    <2>1. IsFiniteSet(U) /\ Cardinality(U) <= Cardinality(Uninvoiced) + 1
        BY <1>1, <1>2, FS_AddElement
    <2>2. IsFiniteSet(Uninvoiced') /\ Cardinality(Uninvoiced') <= Cardinality(U)
        BY <1>4, <2>1, FS_Subset
    <2>3. Cardinality(Uninvoiced') \in Nat /\ Cardinality(U) \in Nat
        BY <2>1, <2>2, FS_CardinalityType
    <2> HIDE DEF U
    <2> QED
        BY <1>1, <1>2, <1>4, <2>1, <2>2, <2>3 DEF InvoiceLostOnlyByFailure
<1> QED
    BY <1>3, <1>4

\* A step that leaves vouchers and invoices alone, and lets every job that issues
\* go on, keeps InvoicesOK.
LEMMA InvoiceFrame ==
    ASSUME JobsInv, InvoicesOK, voucher' = voucher, invoice' = invoice,
           crashes' = crashes,
           \A w \in Workers :
              /\ worker'[w].pc \in {"guest", "invoice"}
                    => /\ worker[w].pc \in {"guest", "invoice"}
                       /\ worker'[w].pay = worker[w].pay
              /\ worker[w].pc \in AfterVoucher
                    => worker'[w].pc \in AfterVoucher /\ worker'[w].pay = worker[w].pay
    PROVE  InvoicesOK'
<1>1. Uninvoiced' \subseteq Uninvoiced
    BY DEF Uninvoiced
<1>2. IsFiniteSet(Uninvoiced)' /\ InvoiceLostOnlyByFailure'
    BY <1>1, LossCounted DEF JobsInv, JobsTypeOK
<1> QED
    BY <1>2 DEF InvoicesOK

\* The voucher INSERT, and the two writes of the invoice.
LEMMA InvoiceStep ==
    ASSUME JobsInv, InvoicesOK, NEW w \in Workers,
           InsertVoucher(w) \/ InsertInvoice(w) \/ FinishInvoice(w)
    PROVE  InvoicesOK'
<1> DEFINE p == worker[w].pay
<1>1. /\ worker[w].pc \in Steps /\ worker[w] \in JobRecords /\ p \in Payments
      /\ status[p] = "confirmed"
    <2>1. worker[w].pc \in Steps
        BY DEF InsertVoucher, InsertInvoice, FinishInvoice, Steps, BeforeVoucher,
               AfterVoucher
    <2> QED
        BY <2>1, WorkerRecord DEF JobsInv, WorkersOK, WorkerOK, JobRecords
<1>2. /\ voucher \in [Payments -> Codes \cup {NoCode}]
      /\ invoice \in [Payments -> {"none", "numbered", "issued"}]
      /\ worker \in [Workers -> {Idle} \cup JobRecords] /\ crashes \in Nat
    BY DEF JobsInv, JobsTypeOK, JobRecords
<1>3. crashes' = crashes
    BY DEF InsertVoucher, InsertInvoice, FinishInvoice
<1>4. ASSUME NEW x \in Workers, x # w, worker[x].pc \in AfterVoucher,
             worker[w].pc \in AfterVoucher \/ voucher[p] = NoCode
      PROVE  worker[x].pay # p
    <2>1. worker[x].code \in Codes /\ voucher[worker[x].pay] = worker[x].code
        BY <1>4, WorkerRecord, StepNames DEF JobsInv, SoleIssuer, JobRecords
    <2> QED
        BY <1>4, <2>1, ProvisioningConstants DEF JobsInv, SoleIssuer
<1>5. CASE InsertVoucher(w)
    <2>1. /\ voucher[p] = NoCode /\ invoice' = invoice /\ invoice[p] = "none"
          /\ \A q \in Payments : q # p => voucher'[q] = voucher[q]
          /\ \A x \in Workers : x # w => worker'[x] = worker[x]
        BY <1>1, <1>2, <1>5 DEF InsertVoucher, InvoicesOK
    <2>2. worker'[w].pc \in {"guest", "invoice"} /\ worker'[w].pay = p
        BY <1>1, <1>2, <1>5 DEF InsertVoucher, JobRecords
    <2>3. voucher'[p] # NoCode
        BY <1>1, <1>2, <1>5, ProvisioningConstants DEF InsertVoucher, JobRecords
    <2>4. "voucher" \notin AfterVoucher /\ {"guest", "invoice"} \subseteq AfterVoucher
        BY DEF AfterVoucher
    <2>5. Uninvoiced' \subseteq Uninvoiced
        BY <1>5, <2>1, <2>2, <2>4 DEF Uninvoiced, InsertVoucher
    <2>6. \A x \in Workers : worker'[x].pc \in {"guest", "invoice"}
                                => invoice'[worker'[x].pay] = "none"
        BY <2>1, <2>2 DEF InvoicesOK
    <2> QED
        BY <1>2, <1>3, <2>1, <2>3, <2>5, <2>6, LossCounted DEF InvoicesOK
<1>6. CASE InsertInvoice(w) \/ FinishInvoice(w)
    <2>1. /\ worker[w].pc \in AfterVoucher /\ voucher' = voucher
          /\ \A q \in Payments : q # p => invoice'[q] = invoice[q]
          /\ \A x \in Workers : x # w => worker'[x] = worker[x]
        BY <1>1, <1>2, <1>6 DEF InsertInvoice, FinishInvoice, AfterVoucher
    <2>2. \/ worker'[w].pc = "pdf" /\ worker'[w].pay = p
          \/ worker'[w].pc = "idle" /\ invoice'[p] = "issued"
        <3>1. CASE InsertInvoice(w)
            <4>1. invoice[p] = "none" /\ worker' = [worker EXCEPT ![w].pc = "pdf"]
                BY <1>1, <3>1 DEF InsertInvoice, InvoicesOK
            <4> QED
                BY <1>1, <1>2, <4>1 DEF JobRecords
        <3>2. CASE FinishInvoice(w)
            BY <1>1, <1>2, <3>2 DEF FinishInvoice, Idle
        <3> QED
            BY <1>6, <3>1, <3>2
    <2>3. voucher[p] # NoCode
        <3>1. worker[w].code \in Codes /\ voucher[p] = worker[w].code
            BY <1>1, <2>1 DEF JobsInv, SoleIssuer, JobRecords
        <3> QED
            BY <3>1, ProvisioningConstants
    <2>4. "pdf" \in AfterVoucher /\ {"guest", "invoice"} \subseteq AfterVoucher
        BY DEF AfterVoucher
    <2>5. Uninvoiced' \subseteq Uninvoiced
        BY <2>1, <2>2, <2>4 DEF Uninvoiced
    <2>6. \A x \in Workers : worker'[x].pc \in {"guest", "invoice"}
                                => invoice'[worker'[x].pay] = "none"
        <3> SUFFICES ASSUME NEW x \in Workers,
                            worker'[x].pc \in {"guest", "invoice"}
                     PROVE  invoice'[worker'[x].pay] = "none"
            OBVIOUS
        <3>1. x # w /\ worker'[x] = worker[x]
            BY <2>1, <2>2
        <3>2. worker[x].pay \in Payments
            BY <2>4, <3>1, StepNames, WorkerRecord DEF JobsInv, JobRecords
        <3> QED
            BY <1>4, <2>1, <2>4, <3>1, <3>2 DEF InvoicesOK
    <2> QED
        BY <1>2, <1>3, <2>1, <2>3, <2>5, <2>6, LossCounted DEF InvoicesOK
<1> QED
    BY <1>5, <1>6

\* A failure, or the end of a job that found the voucher there already.
LEMMA InvoiceLoss ==
    ASSUME JobsInv, InvoicesOK, NEW w \in Workers, VoucherExists(w) \/ Fail(w)
    PROVE  InvoicesOK'
<1>1. /\ voucher' = voucher /\ invoice' = invoice
      /\ worker' = [worker EXCEPT ![w] = Idle]
    BY DEF VoucherExists, Fail, TaskRaises, InvoiceRaises, WorkerCrash, RunAgain
<1>2. worker'[w] = Idle /\ \A x \in Workers : x # w => worker'[x] = worker[x]
    BY <1>1 DEF JobsInv, JobsTypeOK
<1>3. Idle.pc \notin {"guest", "invoice"}
    BY DEF Idle
<1>4. Uninvoiced' \subseteq Uninvoiced \cup {worker[w].pay}
    BY <1>1, <1>2 DEF Uninvoiced
<1>5. \/ crashes' = crashes + 1
      \/ crashes' = crashes /\ Uninvoiced' \subseteq Uninvoiced
    <2>1. CASE VoucherExists(w)
        <3>1. worker[w].pc \notin AfterVoucher /\ crashes' = crashes
            BY <2>1 DEF VoucherExists, AfterVoucher
        <3> QED
            BY <1>1, <1>2, <3>1 DEF Uninvoiced
    <2> QED
        BY <2>1 DEF Fail, TaskRaises, InvoiceRaises, WorkerCrash, Crash
<1>6. IsFiniteSet(Uninvoiced)' /\ InvoiceLostOnlyByFailure'
    BY <1>4, <1>5, LossCounted DEF JobsInv, JobsTypeOK
<1> QED
    BY <1>1, <1>2, <1>3, <1>6 DEF InvoicesOK

\* Every step keeps InvoicesOK.
LEMMA InvoicesKept ==
    JobsInv /\ InvoicesOK /\ [ProvisioningNext]_provisioningVars => InvoicesOK'
<1> SUFFICES ASSUME JobsInv, InvoicesOK, [ProvisioningNext]_provisioningVars
             PROVE  InvoicesOK'
    OBVIOUS
<1>1. ASSUME worker' = worker, voucher' = voucher, invoice' = invoice,
             crashes' = crashes \/ crashes' = crashes + 1
      PROVE  InvoicesOK'
    <2>1. Uninvoiced' = Uninvoiced
        BY <1>1 DEF Uninvoiced
    <2>2. IsFiniteSet(Uninvoiced)' /\ InvoiceLostOnlyByFailure'
        BY <1>1, <2>1, LossCounted DEF JobsInv, JobsTypeOK
    <2> QED
        BY <1>1, <2>2 DEF InvoicesOK
<1>2. CASE SafetyNets
    BY <1>1, <1>2 DEF SafetyNets, SweepStart, SweepCrash, SweepEnqueue, AdminCheck,
                      AdminEnqueue, Crash
<1>3. ASSUME NEW w \in Workers, NEW p \in Payments,
             TakeJob(w, p) \/ \E t \in 2..ArqMaxTries : TakeRetry(w, p, t)
      PROVE  InvoicesOK'
    <2>1. PICK t : Begin(w, p, t)
        BY <1>3 DEF TakeJob, TakeRetry
    <2>2. /\ worker'[w].pc = "radcheck" /\ worker[w] = Idle
          /\ \A x \in Workers : x # w => worker'[x] = worker[x]
        BY <2>1 DEF Begin, JobsInv, JobsTypeOK
    <2>3. /\ voucher' = voucher /\ invoice' = invoice /\ crashes' = crashes
          /\ Idle.pc \notin AfterVoucher
        BY <2>1 DEF Begin, Idle, AfterVoucher
    <2> QED
        BY <2>2, <2>3, InvoiceFrame
<1>4. ASSUME NEW w \in Workers,
             ClearTable(w) \/ WriteRadiusRow(w) \/ TellGuest(w)
      PROVE  InvoicesOK'
    <2>1. worker[w] \in JobRecords /\ worker \in [Workers -> {Idle} \cup JobRecords]
        <3>1. worker[w].pc \in Steps
            BY <1>4 DEF ClearTable, WriteRadiusRow, TellGuest, Steps, BeforeVoucher,
                        AfterVoucher
        <3> QED
            BY <3>1, WorkerRecord DEF JobsInv, JobsTypeOK, JobRecords
    <2>2. PICK s : /\ worker' = [worker EXCEPT ![w].pc = s]
                   /\ \/ worker[w].pc \in BeforeVoucher
                         /\ s \in Attributes \cup {"radreply", "voucher"}
                      \/ worker[w].pc = "guest" /\ s = "invoice"
        BY <1>4 DEF ClearTable, WriteRadiusRow, TellGuest, Following, Attributes,
                    BeforeVoucher
    <2>3. /\ worker'[w].pc = s /\ worker'[w].pay = worker[w].pay
          /\ \A x \in Workers : x # w => worker'[x] = worker[x]
        BY <2>1, <2>2 DEF JobRecords
    <2>4. /\ voucher' = voucher /\ invoice' = invoice /\ crashes' = crashes
        BY <1>4 DEF ClearTable, WriteRadiusRow, TellGuest
    <2>5. /\ {"guest", "invoice"} \subseteq AfterVoucher
          /\ (Attributes \cup {"radreply", "voucher"}) \cap {"guest", "invoice"} = {}
        BY DEF AfterVoucher, Attributes
    <2> QED
        BY <2>2, <2>3, <2>4, <2>5, StepNames, InvoiceFrame
<1>5. CASE Environment
    BY <1>1, <1>5 DEF Environment, Settle, Submit, Elapse, jobVars
<1>6. CASE UNCHANGED provisioningVars
    BY <1>1, <1>6 DEF provisioningVars, jobVars
<1> QED
    BY <1>2, <1>3, <1>4, <1>5, <1>6, InvoiceStep, InvoiceLoss
       DEF ProvisioningNext, Jobs, Work

\* However many jobs run for a payment, and whatever they find: as many invoices
\* are lost as failures happened, at most.
THEOREM InvoicesAreLostByFailureOnly == ProvisioningSpec => []InvoiceLostOnlyByFailure
<1>1. ProvisioningInit => InvoicesOK
    <2> SUFFICES ASSUME ProvisioningInit PROVE InvoicesOK
        OBVIOUS
    <2>1. Uninvoiced = {} /\ crashes = 0
        BY DEF ProvisioningInit, InitJobs, Uninvoiced
    <2>2. IsFiniteSet(Uninvoiced) /\ InvoiceLostOnlyByFailure
        BY <2>1, FS_EmptySet DEF InvoiceLostOnlyByFailure
    <2> QED
        BY <2>2 DEF ProvisioningInit, InitJobs, InvoicesOK, Idle
<1>2. InvoicesOK => InvoiceLostOnlyByFailure
    BY DEF InvoicesOK
<1> QED
    BY <1>1, <1>2, InvoicesKept, JobsInvariant, PTL DEF ProvisioningSpec

-----------------------------------------------------------------------------
(* The composition.                                                        *)

PipelineInv == SettlementInv /\ JobsInv

-----------------------------------------------------------------------------
\* The jobs leave the payments table and its clock alone.
LEMMA JobsLeaveTables == Jobs => UNCHANGED <<status, age>>
BY DEF Jobs, Work, Fail, SafetyNets, TakeJob, TakeRetry, Begin, ClearTable, WriteRadiusRow,
       InsertVoucher, VoucherExists, TellGuest, InsertInvoice, FinishInvoice,
       TaskRaises, InvoiceRaises, WorkerCrash, SweepStart, SweepCrash,
       SweepEnqueue, AdminCheck, AdminEnqueue, interface

\* The settlement side does not notice the jobs, but for the queue.
LEMMA SettlementFrame ==
    ASSUME SettlementInv, TablesTypeOK', UNCHANGED <<status, age>>,
           UNCHANGED settlementOnly,
           \A p \in Payments : queue'[p] > 0 => status[p] = "confirmed"
    PROVE  SettlementInv'
<1>1. /\ recorded' = recorded /\ receipt' = receipt /\ request' = request
      /\ outcome' = outcome /\ sent' = sent /\ net' = net /\ hook' = hook
      /\ poll' = poll /\ faults' = faults
    BY DEF settlementOnly
<1>2. TypeOK'
    BY <1>1 DEF SettlementInv, TypeOK
<1>3. PaymentsOK'
    BY <1>1 DEF SettlementInv, PaymentsOK, PaymentOK, MpesaReceipt, FallbackReceipt
<1>4. HooksOK' /\ PollsOK' /\ ReceiptUnique'
    BY <1>1 DEF SettlementInv, HooksOK, HookOK, PollsOK, PollOK, ReceiptUnique
<1> QED
    BY <1>2, <1>3, <1>4 DEF SettlementInv

\* The two inductive invariants together are one of the composition.
LEMMA PipelineStep ==
    PipelineInv /\ [PipelineNext]_pipelineVars => PipelineInv' /\ Forward /\ Onward
<1> SUFFICES ASSUME PipelineInv, [PipelineNext]_pipelineVars
             PROVE  PipelineInv' /\ Forward /\ Onward
    OBVIOUS
<1>1. CASE [Next]_settlementVars /\ UNCHANGED jobVars
    <2>1. SettlementInv' /\ Forward
        BY <1>1, SettlementStep DEF PipelineInv
    <2>2. TablesTypeOK'
        BY <2>1 DEF SettlementInv, TypeOK
    <2>3. \A p \in Payments : queue'[p] > 0 => status'[p] = "confirmed"
        BY <2>1 DEF SettlementInv, PaymentsOK, PaymentOK
    <2>4. \A p \in Payments : status[p] = "confirmed" => status'[p] = "confirmed"
        BY <2>1 DEF Forward
    <2> QED
        BY <1>1, <2>1, <2>2, <2>3, <2>4, EnvironmentFrame DEF PipelineInv
<1>2. CASE Serving
    <2>1. JobsInv' /\ Onward
        BY <1>2, JobsStep DEF PipelineInv, Serving
    <2>2. UNCHANGED <<status, age>>
        BY <1>2, JobsLeaveTables DEF Serving
    <2>3. TablesTypeOK'
        BY <2>1 DEF JobsInv, JobsTypeOK
    <2>4. \A p \in Payments : queue'[p] > 0 => status[p] = "confirmed"
        BY <2>1, <2>2 DEF JobsInv, TasksOK, TaskOK
    <2>5. SettlementInv'
        BY <1>2, <2>2, <2>3, <2>4, SettlementFrame DEF PipelineInv, Serving
    <2>6. Forward
        BY <1>2, <2>2 DEF Serving, settlementOnly, Forward
    <2> QED
        BY <2>1, <2>5, <2>6 DEF PipelineInv
<1>3. CASE UNCHANGED pipelineVars
    BY <1>1, <1>3 DEF pipelineVars, settlementOnly, settlementVars
<1> QED
    BY <1>1, <1>2, <1>3 DEF PipelineNext, Settling

\* The invariants of both halves hold throughout every run of the whole.
THEOREM PipelineInvariant == PipelineSpec => []PipelineInv
<1>1. PipelineInit => PipelineInv
    BY SettlementStart, JobsStart DEF PipelineInit, Init, PipelineInv
<1> QED
    BY <1>1, PipelineStep, PTL DEF PipelineSpec

-----------------------------------------------------------------------------
(* What a step of the settlement side is to the shared tables and to the   *)
(* money.                                                                  *)

Opened(p) ==
    /\ status[p] = "absent"
    /\ status' = [status EXCEPT ![p] = "pending"]
    /\ UNCHANGED <<age, queue, outcome>>

Confirmed(p) ==
    /\ status[p] = "pending" /\ outcome[p] = "paid"
    /\ status' = [status EXCEPT ![p] = "confirmed"]
    /\ UNCHANGED <<age, queue, outcome>>

Rejected(p) ==
    /\ status[p] = "pending"
    /\ status' = [status EXCEPT ![p] = "failed"]
    /\ UNCHANGED <<age, queue, outcome>>

Queued(p) ==
    /\ status[p] = "confirmed"
    /\ queue' = [queue EXCEPT ![p] = @ + 1]
    /\ UNCHANGED <<status, age, outcome>>

Aged(p) ==
    /\ \/ /\ age[p] = "fresh" /\ status[p] # "absent"
          /\ age' = [age EXCEPT ![p] = "due"]
       \/ age[p] = "due" /\ age' = [age EXCEPT ![p] = "stale"]
    /\ UNCHANGED <<status, queue, outcome>>

Resolved(p) ==
    /\ status[p] # "absent" /\ outcome[p] = "prompted"
    /\ \E r \in Final : outcome' = [outcome EXCEPT ![p] = r]
    /\ UNCHANGED <<status, age, queue>>

Unseen == UNCHANGED <<status, age, queue, money>>

Seen == \/ Unseen
        \/ \E p \in Payments : \/ Opened(p) \/ Confirmed(p) \/ Rejected(p)
                               \/ Queued(p) \/ Aged(p) \/ Resolved(p)

\* Opening, pushing, Daraja, the network and the clock.
LEMMA OutsideSeen ==
    ASSUME SettlementInv, NEW p \in Payments, Initiation(p) \/ Daraja(p) \/ Clock(p)
    PROVE  Seen
<1>1. PaymentOK(p) /\ outcome \in [Payments -> {"none", "prompted"} \cup Final]
    BY DEF SettlementInv, PaymentsOK, TypeOK
<1>2. CASE InsertPayment(p)
    BY <1>1, <1>2 DEF InsertPayment, PaymentOK, Opened, Seen
<1>3. CASE PushFails(p)
    BY <1>1, <1>3 DEF PushFails, PaymentOK, Rejected, Seen
<1>4. CASE AcceptPush(p)
    <2>1. money' = money
        BY <1>1, <1>4 DEF AcceptPush, money, Final
    <2> QED
        BY <1>4, <2>1 DEF AcceptPush, Unseen, Seen
<1>5. CASE \E r \in Final : Resolve(p, r)
    BY <1>1, <1>5 DEF Resolve, PaymentOK, Resolved, Seen
<1>6. CASE Clock(p)
    BY <1>6 DEF Clock, Mature, Expire, Aged, Seen
<1>7. CASE RecordCheckout(p) \/ InitiateCrash(p) \/ Redeliver(p) \/ LoseCallback(p)
    BY <1>7 DEF RecordCheckout, InitiateCrash, Redeliver, LoseCallback, money,
                Unseen, Seen
<1> QED
    BY <1>2, <1>3, <1>4, <1>5, <1>6, <1>7 DEF Initiation, Daraja

\* The webhook: an UPDATE that does not test the status still settles a pending
\* row or leaves a settled one as it is.
LEMMA WebhookSeen ==
    ASSUME SettlementInv, NEW h \in Handlers, Webhook(h)
    PROVE  Seen
<1> DEFINE p == hook[h].pay
<1>1. ASSUME hook[h].pc = "found"
      PROVE  /\ p \in Payments /\ recorded[p] /\ PaymentOK(p)
             /\ status \in [Payments -> Statuses]
    BY <1>1 DEF SettlementInv, HooksOK, HookOK, PaymentsOK, TypeOK, TablesTypeOK
<1>2. CASE HookConfirm(h)
    <2>1. status[p] \in {"pending", "confirmed"}
        BY <1>1, <1>2 DEF HookConfirm, PaymentOK, Statuses
    <2>2. CASE status[p] = "pending"
        BY <1>1, <1>2, <2>2 DEF HookConfirm, Confirmed, Seen
    <2>3. CASE status[p] = "confirmed"
        <3>1. status' = status
            BY <1>1, <1>2, <2>3 DEF HookConfirm
        <3> QED
            BY <1>2, <3>1 DEF HookConfirm, money, Unseen, Seen
    <2> QED
        BY <2>1, <2>2, <2>3
<1>3. CASE HookReject(h)
    <2>1. status[p] \in {"pending", "failed"}
        BY <1>1, <1>3 DEF HookReject, PaymentOK, Statuses
    <2>2. CASE status[p] = "pending"
        BY <1>1, <1>3, <2>2 DEF HookReject, Rejected, Seen
    <2>3. CASE status[p] = "failed"
        <3>1. status' = status
            BY <1>1, <1>3, <2>3 DEF HookReject
        <3> QED
            BY <1>3, <3>1 DEF HookReject, money, Unseen, Seen
    <2> QED
        BY <2>1, <2>2, <2>3
<1>4. CASE HookEnqueue(h)
    <2>1. p \in Payments /\ status[p] = "confirmed"
        BY <1>4 DEF HookEnqueue, SettlementInv, HooksOK, HookOK
    <2> QED
        BY <1>4, <2>1 DEF HookEnqueue, Enqueue, Queued, Seen
<1>5. CASE HookCrash(h) \/ \E q \in Payments : HookDiscard(h, q) \/ HookFind(h, q)
    BY <1>5 DEF HookCrash, HookDiscard, HookFind, money, Unseen, Seen
<1> QED
    BY <1>2, <1>3, <1>4, <1>5 DEF Webhook

\* The polling cron.
LEMMA PollerSeen ==
    ASSUME SettlementInv, NEW k \in Pollers, Poller(k)
    PROVE  Seen
<1> DEFINE p == poll[k].pay
<1>1. ASSUME poll[k].pc = "answered"
      PROVE  /\ p \in Payments /\ recorded[p] /\ PaymentOK(p)
             /\ status \in [Payments -> Statuses]
    BY <1>1 DEF SettlementInv, PollsOK, PollOK, PaymentsOK, TypeOK, TablesTypeOK
<1>2. CASE PollConfirm(k)
    <2>1. CASE status[p] = "pending"
        BY <1>1, <1>2, <2>1 DEF PollConfirm, Confirmed, Seen
    <2>2. CASE status[p] # "pending"
        BY <1>2, <2>2 DEF PollConfirm, money, Unseen, Seen
    <2> QED
        BY <2>1, <2>2
<1>3. CASE PollReject(k)
    <2>1. CASE status[p] = "pending"
        BY <1>1, <1>3, <2>1 DEF PollReject, Rejected, Seen
    <2>2. CASE status[p] # "pending"
        <3>1. status' = status
            BY <1>1, <1>3, <2>2 DEF PollReject
        <3> QED
            BY <1>3, <3>1 DEF PollReject, money, Unseen, Seen
    <2> QED
        BY <2>1, <2>2
<1>4. CASE PollEnqueue(k)
    <2>1. p \in Payments /\ status[p] = "confirmed"
        BY <1>4 DEF PollEnqueue, SettlementInv, PollsOK, PollOK
    <2> QED
        BY <1>4, <2>1 DEF PollEnqueue, Enqueue, Queued, Seen
<1>5. CASE \/ PollStart(k) \/ PollCollide(k) \/ PollEnd(k)
           \/ PollRaise(k) \/ PollCrash(k)
           \/ \E q \in Payments : PollAnswer(k, q) \/ PollSkip(k, q)
    BY <1>5 DEF PollStart, PollCollide, PollEnd, PollRaise, PollCrash,
                PollAnswer, PollSkip, money, Unseen, Seen
<1> QED
    BY <1>2, <1>3, <1>4, <1>5 DEF Poller

\* Every step of the settlement side is one of them.
LEMMA SettlingSeen == SettlementInv /\ Next => Seen
BY OutsideSeen, WebhookSeen, PollerSeen DEF Next

-----------------------------------------------------------------------------
\* Settlement is an environment Provisioning may rely on: PipelineSpec implies
\* the specification of Provisioning with its assumed environment, and with it
\* every theorem about the jobs.
THEOREM SettlementMeetsEnvironment == PipelineSpec => MeetsEnvironment
<1>1. PipelineInit => ProvisioningInit
    BY DEF PipelineInit, Init, ProvisioningInit
<1>2. PipelineInv /\ [PipelineNext]_pipelineVars
        => [ProvisioningNext]_provisioningVars
    <2> SUFFICES ASSUME PipelineInv, [PipelineNext]_pipelineVars
                 PROVE  [ProvisioningNext]_provisioningVars
        OBVIOUS
    <2>1. CASE Settling
        <3>1. Seen /\ UNCHANGED jobVars
            BY <2>1, SettlingSeen DEF PipelineInv, Settling
        <3>2. CASE Unseen
            BY <3>1, <3>2 DEF Unseen, provisioningVars, interface
        <3>3. ASSUME NEW p \in Payments, Opened(p) \/ Confirmed(p) \/ Rejected(p)
              PROVE  Settle(p)
            BY <3>1, <3>3 DEF Opened, Confirmed, Rejected, Settle
        <3>4. ASSUME NEW p \in Payments, Queued(p) PROVE Submit(p)
            BY <3>1, <3>4 DEF Queued, Submit
        <3>5. ASSUME NEW p \in Payments, Aged(p) PROVE Elapse(p)
            BY <3>1, <3>5 DEF Aged, Elapse
        <3>6. ASSUME NEW p \in Payments, Resolved(p)
              PROVE  UNCHANGED provisioningVars
            BY <3>1, <3>6 DEF Resolved, provisioningVars, interface
        <3> QED
            BY <3>1, <3>2, <3>3, <3>4, <3>5, <3>6
               DEF Seen, ProvisioningNext, Environment
    <2>2. CASE Serving
        BY <2>2 DEF Serving, ProvisioningNext
    <2>3. CASE UNCHANGED pipelineVars
        BY <2>3 DEF pipelineVars, provisioningVars, interface
    <2> QED
        BY <2>1, <2>2, <2>3 DEF PipelineNext
<1> QED
    BY <1>1, <1>2, PipelineInvariant, PTL
       DEF PipelineSpec, MeetsEnvironment, ProvisioningSpec

\* A job issues a voucher to a confirmed payment that has none, or leaves all
\* that PaymentLifecycle sees as it is.
LEMMA JobsIssue ==
    ASSUME JobsInv, Jobs
    PROVE  \/ voucher' = voucher
           \/ \E p \in Payments :
                 /\ status[p] = "confirmed" /\ voucher[p] = NoCode
                 /\ \E c \in Codes : voucher' = [voucher EXCEPT ![p] = c]
<1>1. ASSUME NEW w \in Workers, InsertVoucher(w)
      PROVE  \E p \in Payments :
                 /\ status[p] = "confirmed" /\ voucher[p] = NoCode
                 /\ \E c \in Codes : voucher' = [voucher EXCEPT ![p] = c]
    <2>1. worker[w].pc \in Steps /\ worker[w] \in JobRecords
        BY <1>1, WorkerRecord DEF InsertVoucher, JobsInv, Steps, BeforeVoucher
    <2>2. /\ worker[w].pay \in Payments /\ worker[w].code \in Codes
          /\ status[worker[w].pay] = "confirmed"
        BY <2>1 DEF JobRecords, JobsInv, WorkersOK, WorkerOK
    <2> QED
        BY <1>1, <2>2 DEF InsertVoucher
<1>2. ASSUME NEW w \in Workers, Work(w) \/ Fail(w), ~InsertVoucher(w)
      PROVE  voucher' = voucher
    BY <1>2 DEF Work, Fail, TakeJob, TakeRetry, Begin, ClearTable, WriteRadiusRow,
                VoucherExists, TellGuest, InsertInvoice, FinishInvoice,
                TaskRaises, InvoiceRaises, WorkerCrash
<1>3. ASSUME SafetyNets PROVE voucher' = voucher
    BY <1>3 DEF SafetyNets, SweepStart, SweepCrash, SweepEnqueue, AdminCheck,
                AdminEnqueue
<1> QED
    BY <1>1, <1>2, <1>3 DEF Jobs

\* Initiation, webhook, poller, worker, cron and admin together implement
\* PaymentLifecycle: each of their steps is one of its steps or none.
THEOREM PipelineImplementsLifecycle == PipelineSpec => ImplementsLifecycle
<1>1. PipelineInit => Lifecycle!Init
    BY DEF PipelineInit, Init, InitTables, InitJobs, Lifecycle!Init, money, Final
<1>2. PipelineInv /\ [PipelineNext]_pipelineVars
        => [Lifecycle!Next]_Lifecycle!lifecycleVars
    <2> SUFFICES ASSUME PipelineInv, [PipelineNext]_pipelineVars
                 PROVE  [Lifecycle!Next]_Lifecycle!lifecycleVars
        OBVIOUS
    <2>1. CASE Settling
        <3>1. Seen /\ voucher' = voucher
            BY <2>1, SettlingSeen DEF PipelineInv, Settling, jobVars
        <3>2. outcome' = outcome => money' = money
            BY DEF money
        <3>3. CASE Unseen
            BY <3>1, <3>3 DEF Unseen, Lifecycle!lifecycleVars
        <3>4. ASSUME NEW p \in Payments, Opened(p) PROVE Lifecycle!Open(p)
            BY <3>1, <3>2, <3>4 DEF Opened, Lifecycle!Open
        <3>5. ASSUME NEW p \in Payments, Confirmed(p) PROVE Lifecycle!Confirm(p)
            <4>1. money[p] = "paid"
                BY <3>5 DEF Confirmed, money, Final
            <4> QED
                BY <3>1, <3>2, <3>5, <4>1 DEF Confirmed, Lifecycle!Confirm
        <3>6. ASSUME NEW p \in Payments, Rejected(p) PROVE Lifecycle!Fail(p)
            BY <3>1, <3>2, <3>6 DEF Rejected, Lifecycle!Fail
        <3>7. ASSUME NEW p \in Payments, Queued(p) \/ Aged(p)
              PROVE  UNCHANGED Lifecycle!lifecycleVars
            BY <3>1, <3>2, <3>7 DEF Queued, Aged, Lifecycle!lifecycleVars
        <3>8. ASSUME NEW p \in Payments, Resolved(p) PROVE Lifecycle!Pay(p)
            <4>1. PICK r \in Final : outcome' = [outcome EXCEPT ![p] = r]
                BY <3>8 DEF Resolved
            <4>2. money[p] = "none" /\ money' = [money EXCEPT ![p] = r]
                BY <3>8, <4>1
                   DEF Resolved, money, Final, PipelineInv, SettlementInv, TypeOK
            <4> QED
                BY <3>1, <3>8, <4>1, <4>2 DEF Resolved, Final, Lifecycle!Pay
        <3> QED
            BY <3>1, <3>3, <3>4, <3>5, <3>6, <3>7, <3>8 DEF Seen, Lifecycle!Next
    <2>2. CASE Serving
        <3>1. status' = status /\ money' = money
            BY <2>2, JobsLeaveTables DEF Serving, settlementOnly, money
        <3>2. CASE voucher' = voucher
            BY <3>1, <3>2 DEF Lifecycle!lifecycleVars
        <3>3. ASSUME NEW p \in Payments, NEW c \in Codes,
                     status[p] = "confirmed", voucher[p] = NoCode,
                     voucher' = [voucher EXCEPT ![p] = c]
              PROVE  Lifecycle!Issue(p)
            <4>1. voucher'[p] = c
                BY <3>3 DEF PipelineInv, JobsInv, JobsTypeOK
            <4> QED
                BY <3>1, <3>3, <4>1 DEF Lifecycle!Issue
        <3> QED
            BY <2>2, <3>2, <3>3, JobsIssue DEF PipelineInv, Serving, Lifecycle!Next
    <2>3. CASE UNCHANGED pipelineVars
        BY <2>3 DEF pipelineVars, settlementOnly, jobVars, money,
                    Lifecycle!lifecycleVars
    <2> QED
        BY <2>1, <2>2, <2>3 DEF PipelineNext
<1> QED
    BY <1>1, <1>2, PipelineInvariant, PTL
       DEF PipelineSpec, ImplementsLifecycle, Lifecycle!Spec

\* The end-to-end promise in one line: a voucher exists only where M-Pesa took
\* the money, although the worker sees neither the status nor Daraja's answer.
THEOREM VoucherMeansMoney ==
    PipelineSpec => [](\A p \in Payments : voucher[p] # NoCode => outcome[p] = "paid")
<1>1. PipelineInv
        => \A p \in Payments : voucher[p] # NoCode => outcome[p] = "paid"
    BY DEF PipelineInv, SettlementInv, PaymentsOK, PaymentOK, JobsInv, TasksOK,
           TaskOK
<1> QED
    BY <1>1, PipelineInvariant, PTL

=============================================================================
