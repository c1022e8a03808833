----------------------------- MODULE Settlement -----------------------------
(***************************************************************************)
(* How a customer payment is settled: the STK push that opens it, the      *)
(* Daraja callback that settles it, and the polling cron that settles it   *)
(* when the callback is lost.  Both settle the same row of the payments    *)
(* table and both put a generate_voucher_task on the Redis queue.          *)
(*                                                                         *)
(* Every SQL statement is committed on its own (asyncpg autocommit), so    *)
(* every await is a place where another handler can run; one action is one *)
(* stretch of a handler between two awaits that matter.                    *)
(*                                                                         *)
(* External, modelled from its use: Safaricom Daraja.  A push it accepts   *)
(* gets exactly one final outcome, which it reports in callbacks that may  *)
(* be lost, repeated or late, and in every later status query.             *)
(***************************************************************************)
EXTENDS PaymentTables

CONSTANTS
    Handlers,       \* webhook requests served concurrently
    Pollers,        \* runs of the polling cron alive at the same time
    Suffixes,       \* the last ten characters of a CheckoutRequestID
    SuffixOf,       \* [Payments -> Suffixes]; two ids may share a suffix
    NoReceipt,      \* mpesa_receipt_number IS NULL
    MaxDeliveries,  \* bound: callbacks Daraja sends for one checkout
    MaxFaults       \* bound: crashes and failed calls in one behaviour

ASSUME SettlementConstants ==
    /\ SuffixOf \in [Payments -> Suffixes]
    /\ NoReceipt \notin {"mpesa", "poll"} \X (Payments \cup Suffixes)
    /\ MaxDeliveries \in Nat
    /\ MaxFaults \in Nat

VARIABLES
    recorded,  \* payments.mpesa_checkout_id IS NOT NULL
    receipt,   \* payments.mpesa_receipt_number
    request,   \* the HTTP request that runs initiate_stk_push
    outcome,   \* what Daraja knows of the push
    sent,      \* callbacks Daraja has sent so far
    net,       \* callbacks on their way to the webhook endpoint
    hook,      \* the webhook requests
    poll,      \* the runs of poll_pending_daraja_payments_cron
    faults     \* crashes and failed calls so far

settlementVars == <<status, recorded, receipt, age, request, outcome, sent,
                    net, hook, poll, queue, faults>>

-----------------------------------------------------------------------------
Final == {"paid", "declined"}

\* The receipt Safaricom issues for a checkout, and the one the poller makes up.
MpesaReceipt(p)    == <<"mpesa", p>>
FallbackReceipt(p) == <<"poll", SuffixOf[p]>>
Receipts == ({"mpesa"} \X Payments) \cup ({"poll"} \X Suffixes)

IdleHook == [pc |-> "idle", pay |-> NoPayment]
IdlePoll == [pc |-> "idle", pay |-> NoPayment, todo |-> {}]

\* UNIQUE (mpesa_receipt_number): another row already holds the number.
ReceiptTaken(r, p) == \E q \in Payments \ {p} : receipt[q] = r

\* Mutant of Pollable: the two-hour comparison the wrong way round.
PollableFlipped(p) == status[p] = "pending" /\ recorded[p] /\ age[p] = "stale"

\* The WHERE clause of the poller's SELECT.
Pollable(p) == status[p] = "pending" /\ recorded[p] /\ age[p] = "due"

Fault == faults < MaxFaults /\ faults' = faults + 1

Enqueue(p) == queue' = [queue EXCEPT ![p] = @ + 1]

\* The poller is done with the row in hand.
NextRow(k) == poll' = [poll EXCEPT ![k] = [@ EXCEPT !.pc = "loop",
                                                    !.pay = NoPayment]]

TypeOK ==
    /\ TablesTypeOK
    /\ recorded \in [Payments -> BOOLEAN]
    /\ receipt \in [Payments -> Receipts \cup {NoReceipt}]
    /\ request \in [Payments -> {"idle", "pushing", "done"}]
    /\ outcome \in [Payments -> {"none", "prompted"} \cup Final]
    /\ sent \in [Payments -> Nat]
    /\ net \in [Payments -> Nat]
    /\ hook \in [Handlers -> [pc : {"idle", "found", "settled"},
                              pay : Payments \cup {NoPayment}]]
    /\ poll \in [Pollers -> [pc : {"idle", "loop", "answered", "settled"},
                             pay : Payments \cup {NoPayment},
                             todo : SUBSET Payments]]
    /\ faults \in Nat

Init ==
    /\ InitTables
    /\ recorded = [p \in Payments |-> FALSE]
    /\ receipt  = [p \in Payments |-> NoReceipt]
    /\ request  = [p \in Payments |-> "idle"]
    /\ outcome  = [p \in Payments |-> "none"]
    /\ sent     = [p \in Payments |-> 0]
    /\ net      = [p \in Payments |-> 0]
    /\ hook     = [h \in Handlers |-> IdleHook]
    /\ poll     = [k \in Pollers |-> IdlePoll]
    /\ faults   = 0

-----------------------------------------------------------------------------
(* initiate_stk_push and initiate_hotspot_payment                          *)

\* INSERT the pending row, without a checkout id, then await the push.
InsertPayment(p) ==
    /\ request[p] = "idle"
    /\ request' = [request EXCEPT ![p] = "pushing"]
    /\ status' = [status EXCEPT ![p] = "pending"]
    /\ UNCHANGED <<recorded, receipt, age, outcome, sent, net, hook, poll,
                   queue, faults>>

\* The push was accepted and its response arrived: store the checkout id.
RecordCheckout(p) ==
    /\ request[p] = "pushing"
    /\ outcome[p] # "none"
    /\ request' = [request EXCEPT ![p] = "done"]
    /\ recorded' = [recorded EXCEPT ![p] = TRUE]
    /\ UNCHANGED <<status, receipt, age, outcome, sent, net, hook, poll,
                   queue, faults>>

\* Mutant of PushFails: the except clause also covers what follows the push.
PushFailsLate(p) ==
    /\ request[p] # "idle"
    /\ request' = [request EXCEPT ![p] = "done"]
    /\ status' = [status EXCEPT ![p] = "failed"]
    /\ UNCHANGED <<recorded, receipt, age, outcome, sent, net, hook, poll,
                   queue, faults>>

\* The push raised: refused by Daraja, or accepted with the response lost.
PushFails(p) ==
    /\ request[p] = "pushing"
    /\ request' = [request EXCEPT ![p] = "done"]
    /\ status' = [status EXCEPT ![p] = "failed"]
    /\ UNCHANGED <<recorded, receipt, age, outcome, sent, net, hook, poll,
                   queue, faults>>

\* The API process dies while the push is in flight.
InitiateCrash(p) ==
    /\ request[p] = "pushing"
    /\ Fault
    /\ request' = [request EXCEPT ![p] = "done"]
    /\ UNCHANGED <<status, recorded, receipt, age, outcome, sent, net, hook,
                   poll, queue>>

-----------------------------------------------------------------------------
(* Safaricom Daraja and the clock                                          *)

AcceptPush(p) ==
    /\ request[p] = "pushing"
    /\ outcome[p] = "none"
    /\ outcome' = [outcome EXCEPT ![p] = "prompted"]
    /\ UNCHANGED <<status, recorded, receipt, age, request, sent, net, hook,
                   poll, queue, faults>>

\* The customer enters the PIN or does not; Daraja sends the first callback.
Resolve(p, result) ==
    /\ outcome[p] = "prompted"
    /\ outcome' = [outcome EXCEPT ![p] = result]
    /\ sent' = [sent EXCEPT ![p] = 1]
    /\ net' = [net EXCEPT ![p] = @ + 1]
    /\ UNCHANGED <<status, recorded, receipt, age, request, hook, poll, queue,
                   faults>>

Redeliver(p) ==
    /\ outcome[p] \in Final
    /\ sent[p] < MaxDeliveries
    /\ sent' = [sent EXCEPT ![p] = @ + 1]
    /\ net' = [net EXCEPT ![p] = @ + 1]
    /\ UNCHANGED <<status, recorded, receipt, age, request, outcome, hook,
                   poll, queue, faults>>

LoseCallback(p) ==
    /\ net[p] > 0
    /\ net' = [net EXCEPT ![p] = @ - 1]
    /\ UNCHANGED <<status, recorded, receipt, age, request, outcome, sent,
                   hook, poll, queue, faults>>

\* Two minutes after created_at the poller (and the reconciler) see the row.
Mature(p) ==
    /\ status[p] # "absent"
    /\ age[p] = "fresh"
    /\ age' = [age EXCEPT ![p] = "due"]
    /\ UNCHANGED <<status, recorded, receipt, request, outcome, sent, net,
                   hook, poll, queue, faults>>

\* Two hours after created_at the poller no longer does.
Expire(p) ==
    /\ age[p] = "due"
    /\ age' = [age EXCEPT ![p] = "stale"]
    /\ UNCHANGED <<status, recorded, receipt, request, outcome, sent, net,
                   hook, poll, queue, faults>>

-----------------------------------------------------------------------------
(* process_daraja_webhook                                                  *)

\* A callback no row matches, or whose row is settled, is acknowledged and
\* dropped; so is a success without a receipt number.
HookDiscard(h, p) ==
    /\ hook[h].pc = "idle"
    /\ net[p] > 0
    /\ ~recorded[p] \/ status[p] # "pending" \/ outcome[p] = "paid"
    /\ net' = [net EXCEPT ![p] = @ - 1]
    /\ UNCHANGED <<status, recorded, receipt, age, request, outcome, sent,
                   hook, poll, queue, faults>>

\* SELECT ... WHERE mpesa_checkout_id: the row is there and pending.
HookFind(h, p) ==
    /\ hook[h].pc = "idle"
    /\ net[p] > 0
    /\ recorded[p]
    /\ status[p] = "pending"
    /\ net' = [net EXCEPT ![p] = @ - 1]
    /\ hook' = [hook EXCEPT ![h] = [pc |-> "found", pay |-> p]]
    /\ UNCHANGED <<status, recorded, receipt, age, request, outcome, sent,
                   poll, queue, faults>>

\* Mutant of HookConfirm: the ResultCode is not looked at.
HookConfirmAny(h) ==
    LET p == hook[h].pay IN
    /\ hook[h].pc = "found"
    /\ status' = [status EXCEPT ![p] = "confirmed"]
    /\ receipt' = [receipt EXCEPT ![p] = MpesaReceipt(p)]
    /\ hook' = [hook EXCEPT ![h].pc = "settled"]
    /\ UNCHANGED <<recorded, age, request, outcome, sent, net, poll, queue,
                   faults>>

\* ResultCode 0: the UPDATE names the row by id only, not by its status.
HookConfirm(h) ==
    LET p == hook[h].pay IN
    /\ hook[h].pc = "found"
    /\ outcome[p] = "paid"
    /\ status' = [status EXCEPT ![p] = "confirmed"]
    /\ receipt' = [receipt EXCEPT ![p] = MpesaReceipt(p)]
    /\ hook' = [hook EXCEPT ![h].pc = "settled"]
    /\ UNCHANGED <<recorded, age, request, outcome, sent, net, poll, queue,
                   faults>>

HookReject(h) ==
    LET p == hook[h].pay IN
    /\ hook[h].pc = "found"
    /\ outcome[p] = "declined"
    /\ status' = [status EXCEPT ![p] = "failed"]
    /\ hook' = [hook EXCEPT ![h] = IdleHook]
    /\ UNCHANGED <<recorded, receipt, age, request, outcome, sent, net, poll,
                   queue, faults>>

HookEnqueue(h) ==
    /\ hook[h].pc = "settled"
    /\ Enqueue(hook[h].pay)
    /\ hook' = [hook EXCEPT ![h] = IdleHook]
    /\ UNCHANGED <<status, recorded, receipt, age, request, outcome, sent, net,
                   poll, faults>>

\* The process dies, or PostgreSQL or Redis raises: the request ends in a 500.
HookCrash(h) ==
    /\ hook[h].pc # "idle"
    /\ Fault
    /\ hook' = [hook EXCEPT ![h] = IdleHook]
    /\ UNCHANGED <<status, recorded, receipt, age, request, outcome, sent, net,
                   poll, queue>>

-----------------------------------------------------------------------------
(* poll_pending_daraja_payments_cron                                       *)

PollStart(k) ==
    /\ poll[k].pc = "idle"
    /\ \E p \in Payments : Pollable(p)
    /\ poll' = [poll EXCEPT ![k] = [pc |-> "loop", pay |-> NoPayment,
                                    todo |-> {p \in Payments : Pollable(p)}]]
    /\ UNCHANGED <<status, recorded, receipt, age, request, outcome, sent, net,
                   hook, queue, faults>>

\* stk_push_query has a final answer for the next row of the snapshot.
PollAnswer(k, p) ==
    /\ poll[k].pc = "loop"
    /\ p \in poll[k].todo
    /\ outcome[p] \in Final
    /\ poll' = [poll EXCEPT ![k] = [pc |-> "answered", pay |-> p,
                                    todo |-> @.todo \ {p}]]
    /\ UNCHANGED <<status, recorded, receipt, age, request, outcome, sent, net,
                   hook, queue, faults>>

\* Still being processed at Daraja, or the query raised: on to the next row.
PollSkip(k, p) ==
    /\ poll[k].pc = "loop"
    /\ p \in poll[k].todo
    /\ \/ outcome[p] = "prompted" /\ UNCHANGED faults
       \/ Fault
    /\ poll' = [poll EXCEPT ![k].todo = @ \ {p}]
    /\ UNCHANGED <<status, recorded, receipt, age, request, outcome, sent, net,
                   hook, queue>>

\* Mutant of PollConfirm: the UPDATE without AND status = 'pending'.
PollConfirmUnguarded(k) ==
    LET p == poll[k].pay IN
    /\ poll[k].pc = "answered"
    /\ outcome[p] = "paid"
    /\ ~ReceiptTaken(FallbackReceipt(p), p)
    /\ status' = [status EXCEPT ![p] = "confirmed"]
    /\ receipt' = [receipt EXCEPT ![p] = FallbackReceipt(p)]
    /\ poll' = [poll EXCEPT ![k].pc = "settled"]
    /\ UNCHANGED <<recorded, age, request, outcome, sent, net, hook, queue,
                   faults>>

\* Mutant of PollConfirm: no UNIQUE constraint on mpesa_receipt_number.
PollConfirmNotUnique(k) ==
    LET p == poll[k].pay IN
    /\ poll[k].pc = "answered"
    /\ outcome[p] = "paid"
    /\ status' = [status EXCEPT ![p] = "confirmed"]
    /\ receipt' = [receipt EXCEPT ![p] = IF status[p] = "pending"
                                         THEN FallbackReceipt(p) ELSE @]
    /\ poll' = [poll EXCEPT ![k].pc = "settled"]
    /\ UNCHANGED <<recorded, age, request, outcome, sent, net, hook, queue,
                   faults>>

\* The UPDATE is guarded by status = 'pending'; a row settled meanwhile is
\* left alone, but the handler goes on to enqueue all the same.
PollConfirm(k) ==
    LET p == poll[k].pay IN
    /\ poll[k].pc = "answered"
    /\ outcome[p] = "paid"
    /\ \/ /\ status[p] = "pending"
          /\ ~ReceiptTaken(FallbackReceipt(p), p)
          /\ status' = [status EXCEPT ![p] = "confirmed"]
          /\ receipt' = [receipt EXCEPT ![p] = FallbackReceipt(p)]
       \/ /\ status[p] # "pending"
          /\ UNCHANGED <<status, receipt>>
    /\ poll' = [poll EXCEPT ![k].pc = "settled"]
    /\ UNCHANGED <<recorded, age, request, outcome, sent, net, hook, queue,
                   faults>>

\* Mutant of PollCollide: no continue after the UniqueViolationError.
PollCollideGoesOn(k) ==
    LET p == poll[k].pay IN
    /\ poll[k].pc = "answered"
    /\ outcome[p] = "paid"
    /\ status[p] = "pending"
    /\ ReceiptTaken(FallbackReceipt(p), p)
    /\ poll' = [poll EXCEPT ![k].pc = "settled"]
    /\ UNCHANGED <<status, recorded, receipt, age, request, outcome, sent, net,
                   hook, queue, faults>>

\* UniqueViolationError on the made-up receipt: skip the row.
PollCollide(k) ==
    LET p == poll[k].pay IN
    /\ poll[k].pc = "answered"
    /\ outcome[p] = "paid"
    /\ status[p] = "pending"
    /\ ReceiptTaken(FallbackReceipt(p), p)
    /\ NextRow(k)
    /\ UNCHANGED <<status, recorded, receipt, age, request, outcome, sent, net,
                   hook, queue, faults>>

PollReject(k) ==
    LET p == poll[k].pay IN
    /\ poll[k].pc = "answered"
    /\ outcome[p] = "declined"
    /\ status' = [status EXCEPT ![p] = IF @ = "pending" THEN "failed" ELSE @]
    /\ NextRow(k)
    /\ UNCHANGED <<recorded, receipt, age, request, outcome, sent, net, hook,
                   queue, faults>>

PollEnqueue(k) ==
    /\ poll[k].pc = "settled"
    /\ Enqueue(poll[k].pay)
    /\ NextRow(k)
    /\ UNCHANGED <<status, recorded, receipt, age, request, outcome, sent, net,
                   hook, faults>>

PollEnd(k) ==
    /\ poll[k].pc = "loop"
    /\ poll[k].todo = {}
    /\ poll' = [poll EXCEPT ![k] = IdlePoll]
    /\ UNCHANGED <<status, recorded, receipt, age, request, outcome, sent, net,
                   hook, queue, faults>>

\* A statement or the enqueue raised: the row's except clause logs it and the
\* loop goes on.
PollRaise(k) ==
    /\ poll[k].pc \in {"answered", "settled"}
    /\ Fault
    /\ NextRow(k)
    /\ UNCHANGED <<status, recorded, receipt, age, request, outcome, sent, net,
                   hook, queue>>

\* The worker process dies; the snapshot is gone.
PollCrash(k) ==
    /\ poll[k].pc # "idle"
    /\ Fault
    /\ poll' = [poll EXCEPT ![k] = IdlePoll]
    /\ UNCHANGED <<status, recorded, receipt, age, request, outcome, sent, net,
                   hook, queue>>

-----------------------------------------------------------------------------
Initiation(p) == InsertPayment(p) \/ RecordCheckout(p) \/ PushFails(p)
                   \/ InitiateCrash(p)

Daraja(p) == AcceptPush(p) \/ (\E r \in Final : Resolve(p, r)) \/ Redeliver(p)
               \/ LoseCallback(p)

Clock(p) == Mature(p) \/ Expire(p)

Webhook(h) ==
    \/ \E p \in Payments : HookDiscard(h, p) \/ HookFind(h, p)
    \/ HookConfirm(h) \/ HookReject(h) \/ HookEnqueue(h) \/ HookCrash(h)

Poller(k) ==
    \/ PollStart(k)
    \/ \E p \in Payments : PollAnswer(k, p) \/ PollSkip(k, p)
    \/ PollConfirm(k) \/ PollCollide(k) \/ PollReject(k)
    \/ PollEnqueue(k) \/ PollEnd(k) \/ PollRaise(k) \/ PollCrash(k)

Next ==
    \/ \E p \in Payments : Initiation(p) \/ Daraja(p) \/ Clock(p)
    \/ \E h \in Handlers : Webhook(h)
    \/ \E k \in Pollers : Poller(k)

Spec == Init /\ [][Next]_settlementVars

-----------------------------------------------------------------------------
\* Nobody gets a confirmed payment, and so a voucher, without having paid: on
\* no path through the webhook's unguarded UPDATE and the poller's guarded one
\* is a row confirmed whose checkout Daraja did not resolve as paid.
ConfirmedIsPaid ==
    \A p \in Payments : status[p] = "confirmed" => outcome[p] = "paid"

\* A generate_voucher_task is only ever queued for a row already confirmed, by
\* whichever of the webhook and the poller lost the race for the row too.
QueuedIsConfirmed ==
    \A p \in Payments : queue[p] > 0 => status[p] = "confirmed"

\* No two payments carry the same receipt number, although the poller makes its
\* own out of ten characters of the checkout id and the webhook overwrites it.
ReceiptUnique ==
    \A p, q \in Payments :
        p # q /\ receipt[p] = receipt[q] => receipt[p] = NoReceipt

\* A settled row stays as it is, although the webhook's two UPDATEs and the
\* failure UPDATE of initiate_stk_push do not look at the status they overwrite.
SettledForGood ==
    [][\A p \in Payments : status[p] \in {"confirmed", "failed"}
                              => status'[p] = status[p]]_settlementVars

\* The receipt Safaricom issued, once stored, is never replaced by the number
\* the poller makes up for a webhook it believes lost.
MpesaReceiptKept ==
    [][\A p \in Payments : receipt[p] = MpesaReceipt(p)
                              => receipt'[p] = receipt[p]]_settlementVars

=============================================================================
