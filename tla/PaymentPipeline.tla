-------------------------- MODULE PaymentPipeline ---------------------------
(***************************************************************************)
(* Settlement and Provisioning side by side, as they run: the API process  *)
(* and the polling cron confirm payments and put tasks in Redis, the arq   *)
(* worker takes the tasks out.  They share the payments table (status), the*)
(* clock (age) and the Redis queue.  Two results about the composition:    *)
(* Settlement is an environment Provisioning may rely on, and the whole    *)
(* implements PaymentLifecycle.                                            *)
(***************************************************************************)
EXTENDS Settlement, Provisioning

settlementOnly == <<recorded, receipt, request, outcome, sent, net, hook, poll,
                    faults>>
pipelineVars == <<status, age, queue, settlementOnly, jobVars>>

PipelineInit == Init /\ InitJobs

\* A step of the API process, Daraja, the clock or the polling cron.
Settling == Next /\ UNCHANGED jobVars

\* A step of the arq worker, the reconciliation cron or the admin.
Serving == Jobs /\ UNCHANGED settlementOnly

PipelineNext == Settling \/ Serving

PipelineSpec == PipelineInit /\ [][PipelineNext]_pipelineVars

\* arq starts the two crons again and again and lets their runs, and the jobs,
\* go on to their end; the push request goes on to its end; time passes.
\* Nothing is assumed of Daraja, the customer, the webhook or the admin, and
\* Expire is never forced.
Fairness ==
    /\ \A p \in Payments :
          /\ WF_pipelineVars(RecordCheckout(p)
                               /\ UNCHANGED jobVars)
          /\ WF_pipelineVars(Mature(p)
                               /\ UNCHANGED jobVars)
          /\ WF_pipelineVars(SweepEnqueue(p)
                               /\ UNCHANGED settlementOnly)
    /\ \A k \in Pollers :
          WF_pipelineVars(Poller(k)
                            /\ UNCHANGED jobVars)
    /\ \A w \in Workers :
          WF_pipelineVars(Work(w) /\ UNCHANGED settlementOnly)
    /\ WF_pipelineVars(SweepStart /\ UNCHANGED settlementOnly)

FairSpec == PipelineSpec /\ Fairness

-----------------------------------------------------------------------------
\* What M-Pesa did with the money, as PaymentLifecycle sees it.
money == [p \in Payments |-> IF outcome[p] \in Final
                             THEN outcome[p] ELSE "none"]

Lifecycle == INSTANCE PaymentLifecycle

\* Seen from outside, initiation, webhook, poller, worker, cron and admin
\* together settle every payment once, confirm only what was paid, and issue
\* one voucher to a confirmed payment.
ImplementsLifecycle == Lifecycle!Spec

\* The webhook, the poller and the push handler do to the shared tables and the
\* queue only what Provisioning assumes: a row is settled once, and a task is
\* queued for a confirmed row only.
MeetsEnvironment == ProvisioningSpec

\* The reliability promise of README.md, as far as the code keeps it: money
\* taken on a checkout whose id was stored ends in a voucher, with callbacks
\* lost and jobs crashing.  There are two exceptions, and both leave the row
\* pending: no poller ran for two hours, or the number the poller makes up in
\* place of the receipt is another payment's, and every poll skips the row.
PaidIsServed ==
    \A p \in Payments :
        (outcome[p] = "paid" /\ recorded[p])
            ~> \/ voucher[p] # NoCode
               \/ /\ status[p] = "pending"
                  /\ age[p] = "stale" \/ ReceiptTaken(FallbackReceipt(p), p)

=============================================================================
