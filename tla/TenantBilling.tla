--------------------------- MODULE TenantBilling ----------------------------
(***************************************************************************)
(* The platform's own monthly fee.  A nightly cron pushes the fee to the   *)
(* owners of tenants that are due and suspends those past their grace      *)
(* period; an admin (pay-now) or the super admin can push it too.  The     *)
(* webhook and the polling cron settle the bill and, in the same           *)
(* transaction, move the tenant's next_billing_date a month on and make    *)
(* the tenant active.                                                      *)
(*                                                                         *)
(* Time is counted in days, and stands still at MaxDay.  Of the poller's   *)
(* window (two minutes to two hours) only its end is kept; which pending   *)
(* rows lie in it is left open.  Daraja is external: it resolves a push    *)
(* once, and may deliver the callback at any time after, any number of     *)
(* times or never.                                                         *)
(***************************************************************************)
EXTENDS Integers, FiniteSets

CONSTANTS
    Tenants,
    Bills,      \* rows of platform_payments (their CheckoutRequestIDs too)
    TenantOf,   \* [Bills -> Tenants]
    Suffixes,   \* the last ten characters of a CheckoutRequestID
    SuffixOf,   \* [Bills -> Suffixes]
    Handlers,   \* webhook requests served concurrently
    Pollers,    \* runs of the polling cron alive at the same time
    NoBill,
    FirstDue,   \* next_billing_date of a new tenant, as a day
    Month,      \* days in a month
    Grace,      \* days a tenant may be overdue (7 in the code)
    MaxDay,     \* bound: the last day of the calendar
    MaxFaults   \* bound: crashes and failed calls in one behaviour

ASSUME BillingConstants ==
    /\ TenantOf \in [Bills -> Tenants]
    /\ SuffixOf \in [Bills -> Suffixes]
    /\ NoBill \notin Bills
    /\ FirstDue \in Nat
    /\ Month \in Nat \ {0}
    /\ Grace \in Nat
    /\ MaxDay \in Nat
    /\ MaxFaults \in Nat

VARIABLES
    tenant,   \* status and next_billing_date of each tenant
    bill,     \* the rows of platform_payments
    push,     \* who runs stk_push for the bill, if anybody does
    outcome,  \* what Daraja knows of the push
    hook,     \* the webhook requests: the bill in hand, or NoBill
    poll,     \* the runs of poll_pending_daraja_payments_cron
    cron,     \* the run of tenant_billing_cron
    ran,      \* tenant_billing_cron has been started today
    today,
    faults    \* crashes and failed calls so far

billingVars == <<tenant, bill, push, outcome, hook, poll, cron, ran,
                 today, faults>>

-----------------------------------------------------------------------------
Final == {"paid", "declined"}

TenantRows == [status : {"active", "suspended"}, due : Nat]

\* id: mpesa_checkout_id is set; made: the receipt is one the poller made up;
\* born: the day of created_at.
BillRows == [status : {"absent", "pending", "confirmed", "failed"},
             id : BOOLEAN, made : BOOLEAN, born : Nat]

NoRow == [status |-> "absent", id |-> FALSE, made |-> FALSE, born |-> 0]

\* The bill in hand and the rows of the snapshot still to ask for.
PollRows == [bill : Bills \cup {NoBill}, todo : SUBSET Bills]

\* The tenants still to come, as they were seen at now, and the bill being pushed.
CronRows == [todo : SUBSET Tenants, seen : [Tenants -> TenantRows],
             now : Nat, bill : Bills \cup {NoBill}]

IdlePoll == [bill |-> NoBill, todo |-> {}]

BillsOf(t) == {b \in Bills : TenantOf[b] = t}

\* The 24-hour look-back of the cron: on day now a row of the day before may be
\* young enough to count as a recent push, and a row of the same day is.
MayBeRecent(t, now) == {b \in BillsOf(t) :
    bill[b].status \in {"pending", "confirmed"} /\ now <= bill[b].born + 1}
IsRecent(t, now) == {b \in MayBeRecent(t, now) : now <= bill[b].born}

\* The poller's second SELECT may return the row.
Pollable(b) ==
    bill[b].status = "pending" /\ bill[b].id /\ today <= bill[b].born + 1

\* UNIQUE (mpesa_receipt_number): another bill has the number the poller makes
\* up for this one.
ReceiptTaken(b) ==
    \E c \in Bills \ {b} : bill[c].made /\ SuffixOf[c] = SuffixOf[b]

\* (now - next_billing_date).days, for a date seen at now.
Overdue(row, now) == now - row.due

Fault == faults < MaxFaults /\ faults' = faults + 1

\* Mutant of Extend: the date stays.
ExtendNot(t) == tenant' = [tenant EXCEPT ![t].status = "active"]

\* UPDATE tenants SET next_billing_date = next_billing_date + 1 month,
\* status = 'active'.
Extend(t) ==
    tenant' = [tenant EXCEPT ![t] = [status |-> "active", due |-> @.due + Month]]

TypeOK ==
    /\ tenant \in [Tenants -> TenantRows]
    /\ bill \in [Bills -> BillRows]
    /\ push \in [Bills -> {"none", "request", "cron", "done"}]
    /\ outcome \in [Bills -> {"none", "prompted"} \cup Final]
    /\ hook \in [Handlers -> Bills \cup {NoBill}]
    /\ poll \in [Pollers -> PollRows]
    /\ cron \in CronRows
    /\ ran \in BOOLEAN
    /\ today \in 0..MaxDay
    /\ faults \in Nat

NewTenant == [status |-> "active", due |-> FirstDue]

IdleCron == [todo |-> {}, seen |-> [t \in Tenants |-> NewTenant], now |-> 0,
             bill |-> NoBill]

Init ==
    /\ tenant  = [t \in Tenants |-> NewTenant]
    /\ bill    = [b \in Bills |-> NoRow]
    /\ push    = [b \in Bills |-> "none"]
    /\ outcome = [b \in Bills |-> "none"]
    /\ hook    = [h \in Handlers |-> NoBill]
    /\ poll    = [k \in Pollers |-> IdlePoll]
    /\ cron    = IdleCron
    /\ ran     = FALSE
    /\ today   = 0
    /\ faults  = 0

-----------------------------------------------------------------------------
(* initiate_platform_billing_payment, from pay-now or from the super admin *)

InsertBill(b) ==
    /\ push[b] = "none"
    /\ push' = [push EXCEPT ![b] = "request"]
    /\ bill' = [bill EXCEPT ![b] = [NoRow EXCEPT !.status = "pending",
                                                 !.born = today]]
    /\ UNCHANGED <<tenant, outcome, hook, poll, cron, ran, today, faults>>

RecordCheckout(b) ==
    /\ push[b] = "request"
    /\ outcome[b] # "none"
    /\ push' = [push EXCEPT ![b] = "done"]
    /\ bill' = [bill EXCEPT ![b].id = TRUE]
    /\ UNCHANGED <<tenant, outcome, hook, poll, cron, ran, today, faults>>

PushFails(b) ==
    /\ push[b] = "request"
    /\ push' = [push EXCEPT ![b] = "done"]
    /\ bill' = [bill EXCEPT ![b].status = "failed"]
    /\ UNCHANGED <<tenant, outcome, hook, poll, cron, ran, today, faults>>

RequestCrash(b) ==
    /\ push[b] = "request"
    /\ Fault
    /\ push' = [push EXCEPT ![b] = "done"]
    /\ UNCHANGED <<tenant, bill, outcome, hook, poll, cron, ran, today>>

-----------------------------------------------------------------------------
(* tenant_billing_cron                                                     *)

\* Midnight: one SELECT of every tenant; the loop works from what it saw.
CronStart ==
    /\ ~ran
    /\ cron.todo = {} /\ cron.bill = NoBill
    /\ ran' = TRUE
    /\ cron' = [todo |-> Tenants, seen |-> tenant, now |-> today,
                bill |-> NoBill]
    /\ UNCHANGED <<tenant, bill, push, outcome, hook, poll, today, faults>>

\* The loop comes to tenant t.
CronAt(t) == t \in cron.todo /\ cron.bill = NoBill
CronDone(t) == cron' = IF cron.todo = {t} THEN IdleCron
                                          ELSE [cron EXCEPT !.todo = @ \ {t}]
CronGoesOn == cron' = IF cron.todo = {} THEN IdleCron
                                         ELSE [cron EXCEPT !.bill = NoBill]
Due(t) == cron.seen[t].status = "active" /\ cron.seen[t].due <= cron.now

\* Mutant of PastGrace: suspension on the first day past the grace period only.
PastGraceToday(t) == Overdue(cron.seen[t], cron.now) = Grace + 1

PastGrace(t) == Overdue(cron.seen[t], cron.now) > Grace

\* Nothing to do: not active, not due, or pushed within the last 24 hours.
\* (Also when the model has no bill left for the tenant.)
CronPass(t) ==
    /\ CronAt(t)
    /\ \/ ~Due(t)
       \/ /\ ~PastGrace(t)
          /\ \/ MayBeRecent(t, cron.now) # {}
             \/ \A b \in BillsOf(t) : push[b] # "none"
    /\ CronDone(t)
    /\ UNCHANGED <<tenant, bill, push, outcome, hook, poll, ran, today,
                   faults>>

\* The UPDATE names the tenant only by id, not by the date that was seen.
CronSuspend(t) ==
    /\ CronAt(t)
    /\ Due(t) /\ PastGrace(t)
    /\ tenant' = [tenant EXCEPT ![t].status = "suspended"]
    /\ CronDone(t)
    /\ UNCHANGED <<bill, push, outcome, hook, poll, ran, today, faults>>

\* No recent push: await stk_push, before any row is written.
CronPush(t, b) ==
    /\ CronAt(t)
    /\ Due(t) /\ ~PastGrace(t)
    /\ IsRecent(t, cron.now) = {}
    /\ b \in BillsOf(t) /\ push[b] = "none"
    /\ push' = [push EXCEPT ![b] = "cron"]
    /\ cron' = [cron EXCEPT !.todo = @ \ {t}, !.bill = b]
    /\ UNCHANGED <<tenant, bill, outcome, hook, poll, ran, today, faults>>

CronInsert ==
    LET b == cron.bill IN
    /\ b # NoBill
    /\ outcome[b] # "none"
    /\ push' = [push EXCEPT ![b] = "done"]
    /\ bill' = [bill EXCEPT ![b] = [NoRow EXCEPT !.status = "pending",
                                                 !.id = TRUE, !.born = today]]
    /\ CronGoesOn
    /\ UNCHANGED <<tenant, outcome, hook, poll, ran, today, faults>>

\* The push, or the INSERT after it, raised: logged, no row, next tenant.
CronPushFails ==
    /\ cron.bill # NoBill
    /\ push' = [push EXCEPT ![cron.bill] = "done"]
    /\ CronGoesOn
    /\ UNCHANGED <<tenant, bill, outcome, hook, poll, ran, today, faults>>

\* The worker dies, or a statement outside the inner try raises: the rest of
\* the tenants are left until tomorrow.
CronCrash ==
    /\ cron.todo # {} \/ cron.bill # NoBill
    /\ Fault
    /\ push' = [b \in Bills |-> IF b = cron.bill THEN "done" ELSE push[b]]
    /\ cron' = IdleCron
    /\ UNCHANGED <<tenant, bill, outcome, hook, poll, ran, today>>

-----------------------------------------------------------------------------
(* suspend_tenant and reactivate_tenant of the super admin                 *)

SuperAdmin(t) ==
    /\ tenant' = [tenant EXCEPT ![t].status =
                    IF @ = "active" THEN "suspended" ELSE "active"]
    /\ UNCHANGED <<bill, push, outcome, hook, poll, cron, ran, today, faults>>

-----------------------------------------------------------------------------
(* Safaricom Daraja and the clock                                          *)

AcceptPush(b) ==
    /\ push[b] \in {"request", "cron"}
    /\ outcome[b] = "none"
    /\ outcome' = [outcome EXCEPT ![b] = "prompted"]
    /\ UNCHANGED <<tenant, bill, push, hook, poll, cron, ran, today, faults>>

Resolve(b, result) ==
    /\ outcome[b] = "prompted"
    /\ outcome' = [outcome EXCEPT ![b] = result]
    /\ UNCHANGED <<tenant, bill, push, hook, poll, cron, ran, today, faults>>

\* Midnight; the cron of the day before has been started.
NewDay ==
    /\ ran
    /\ ran' = FALSE
    /\ today' = IF today < MaxDay THEN today + 1 ELSE today
    /\ UNCHANGED <<tenant, bill, push, outcome, hook, poll, cron, faults>>

-----------------------------------------------------------------------------
(* process_daraja_webhook, the branch for platform_payments                *)

\* A callback arrives whose row is there and pending; any other changes
\* nothing.
HookFind(h, b) ==
    /\ hook[h] = NoBill
    /\ outcome[b] \in Final
    /\ bill[b].id /\ bill[b].status = "pending"
    /\ hook' = [hook EXCEPT ![h] = b]
    /\ UNCHANGED <<tenant, bill, push, outcome, poll, cron, ran, today,
                   faults>>

\* One transaction, neither of whose UPDATEs looks at the bill's status.
HookConfirm(h) ==
    LET b == hook[h] IN
    /\ b # NoBill
    /\ outcome[b] = "paid"
    /\ bill' = [bill EXCEPT ![b] = [@ EXCEPT !.status = "confirmed",
                                             !.made = FALSE]]
    /\ Extend(TenantOf[b])
    /\ hook' = [hook EXCEPT ![h] = NoBill]
    /\ UNCHANGED <<push, outcome, poll, cron, ran, today, faults>>

HookReject(h) ==
    LET b == hook[h] IN
    /\ b # NoBill
    /\ outcome[b] = "declined"
    /\ bill' = [bill EXCEPT ![b].status = "failed"]
    /\ hook' = [hook EXCEPT ![h] = NoBill]
    /\ UNCHANGED <<tenant, push, outcome, poll, cron, ran, today, faults>>

HookCrash(h) ==
    /\ hook[h] # NoBill
    /\ Fault
    /\ hook' = [hook EXCEPT ![h] = NoBill]
    /\ UNCHANGED <<tenant, bill, push, outcome, poll, cron, ran, today>>

-----------------------------------------------------------------------------
(* poll_pending_daraja_payments_cron, the branch for platform_payments     *)

PollStart(k) ==
    /\ poll[k] = IdlePoll
    /\ \E rows \in SUBSET {b \in Bills : Pollable(b)} :
          rows # {} /\ poll' = [poll EXCEPT ![k].todo = rows]
    /\ UNCHANGED <<tenant, bill, push, outcome, hook, cron, ran, today,
                   faults>>

PollAnswer(k, b) ==
    /\ poll[k].bill = NoBill
    /\ b \in poll[k].todo
    /\ outcome[b] \in Final
    /\ poll' = [poll EXCEPT ![k] = [bill |-> b, todo |-> @.todo \ {b}]]
    /\ UNCHANGED <<tenant, bill, push, outcome, hook, cron, ran, today,
                   faults>>

\* Still being processed, or the query raised.
PollSkip(k, b) ==
    /\ poll[k].bill = NoBill
    /\ b \in poll[k].todo
    /\ (outcome[b] = "prompted" /\ UNCHANGED faults) \/ Fault
    /\ poll' = [poll EXCEPT ![k].todo = @ \ {b}]
    /\ UNCHANGED <<tenant, bill, push, outcome, hook, cron, ran, today>>

NextBill(k) == poll' = [poll EXCEPT ![k].bill = NoBill]

\* Mutant of PollConfirm: the tenant is extended although the transaction that
\* confirms the bill is rolled back.
PollConfirmUnrolled(k) ==
    LET b == poll[k].bill IN
    /\ b # NoBill
    /\ outcome[b] = "paid"
    /\ IF bill[b].status = "pending" /\ ~ReceiptTaken(b)
       THEN bill' = [bill EXCEPT ![b] = [@ EXCEPT !.status = "confirmed",
                                                  !.made = TRUE]]
       ELSE UNCHANGED bill
    /\ Extend(TenantOf[b])
    /\ NextBill(k)
    /\ UNCHANGED <<push, outcome, hook, cron, ran, today, faults>>

\* One transaction: the UPDATE of the bill is guarded by status = 'pending',
\* the UPDATE of the tenant is not guarded by anything.
PollConfirm(k) ==
    LET b == poll[k].bill IN
    /\ b # NoBill
    /\ outcome[b] = "paid"
    /\ \/ /\ bill[b].status = "pending"
          /\ ~ReceiptTaken(b)
          /\ bill' = [bill EXCEPT ![b] = [@ EXCEPT !.status = "confirmed",
                                                   !.made = TRUE]]
       \/ bill[b].status # "pending" /\ UNCHANGED bill
    /\ Extend(TenantOf[b])
    /\ NextBill(k)
    /\ UNCHANGED <<push, outcome, hook, cron, ran, today, faults>>

\* UniqueViolationError: both UPDATEs are rolled back.
PollCollide(k) ==
    LET b == poll[k].bill IN
    /\ b # NoBill
    /\ outcome[b] = "paid"
    /\ bill[b].status = "pending" /\ ReceiptTaken(b)
    /\ NextBill(k)
    /\ UNCHANGED <<tenant, bill, push, outcome, hook, cron, ran, today,
                   faults>>

PollReject(k) ==
    LET b == poll[k].bill IN
    /\ b # NoBill
    /\ outcome[b] = "declined"
    /\ bill' = [bill EXCEPT ![b].status = IF @ = "pending" THEN "failed" ELSE @]
    /\ NextBill(k)
    /\ UNCHANGED <<tenant, push, outcome, hook, cron, ran, today, faults>>

\* The transaction raises, or the worker dies with its snapshot.
PollFails(k) ==
    /\ poll[k] # IdlePoll
    /\ Fault
    /\ NextBill(k) \/ poll' = [poll EXCEPT ![k] = IdlePoll]
    /\ UNCHANGED <<tenant, bill, push, outcome, hook, cron, ran, today>>

-----------------------------------------------------------------------------
Request(b) == InsertBill(b) \/ RecordCheckout(b) \/ PushFails(b)
                \/ RequestCrash(b)

CronStep(t) == CronPass(t) \/ CronSuspend(t) \/ \E b \in Bills : CronPush(t, b)

Daraja(b) == AcceptPush(b) \/ \E r \in Final : Resolve(b, r)

Webhook(h) == (\E b \in Bills : HookFind(h, b)) \/ HookConfirm(h)
                \/ HookReject(h) \/ HookCrash(h)

Poller(k) ==
    \/ PollStart(k)
    \/ \E b \in Bills : PollAnswer(k, b) \/ PollSkip(k, b)
    \/ PollConfirm(k) \/ PollCollide(k) \/ PollReject(k) \/ PollFails(k)

Next ==
    \/ \E b \in Bills : Request(b) \/ Daraja(b)
    \/ \E t \in Tenants : CronStep(t) \/ SuperAdmin(t)
    \/ CronStart \/ CronInsert \/ CronPushFails \/ CronCrash \/ NewDay
    \/ \E h \in Handlers : Webhook(h)
    \/ \E k \in Pollers : Poller(k)

Spec == Init /\ [][Next]_billingVars

\* Days pass, arq starts the cron every midnight and awaits its coroutine to
\* the end; stk_push returns or times out.
FairSpec ==
    /\ Spec
    /\ WF_billingVars(NewDay) /\ WF_billingVars(CronStart)
    /\ WF_billingVars(CronInsert \/ CronPushFails)
    /\ \A t \in Tenants : WF_billingVars(CronStep(t))

-----------------------------------------------------------------------------
MonthsOf(t) == (tenant[t].due - FirstDue) \div Month

Confirmed(t) == {b \in BillsOf(t) : bill[b].status = "confirmed"}

\* A tenant gets at least a month for every bill it paid: no crash, rollback
\* or receipt collision confirms a bill without moving the date.
ConfirmedIsGranted ==
    \A t \in Tenants : MonthsOf(t) >= Cardinality(Confirmed(t))

\* The types, and ConfirmedIsGranted: no crash, rollback or second delivery between
\* the confirmation of a bill and the move of the date loses the month paid for.
BillingInv == TypeOK /\ ConfirmedIsGranted

InHand(b) == (\E h \in Handlers : hook[h] = b)
                \/ (\E k \in Pollers : poll[k].bill = b)

\* next_billing_date moves by a whole month, makes the tenant active, and does
\* so only for a paid bill some handler has in hand and leaves confirmed: not
\* for one whose confirmation is rolled back.
NoFreeMonth ==
    [][\A t \in Tenants : tenant'[t].due # tenant[t].due =>
          /\ tenant'[t] = [status |-> "active", due |-> tenant[t].due + Month]
          /\ \E b \in BillsOf(t) : InHand(b) /\ outcome[b] = "paid"
                                     /\ bill'[b].status = "confirmed"
      ]_billingVars

\* A tenant that does not pay is suspended in the end, however often a run of
\* the cron dies half-way and whatever the super admin does meanwhile.
OverdueIsSuspended ==
    \A t \in Tenants :
        (tenant[t].status = "active" /\ Overdue(tenant[t], today) > Grace)
            ~> (tenant[t].status = "suspended"
                  \/ Overdue(tenant[t], today) <= Grace)

=============================================================================
