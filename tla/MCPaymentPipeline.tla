------------------------- MODULE MCPaymentPipeline --------------------------
(* Small instances of PaymentPipeline.                                     *)
EXTENDS PaymentPipeline

CONSTANTS p1, p2, h1, k1, w1, s1, c1, c2

\* Both checkout ids end in the same ten characters.
OneSuffix == [p \in Payments |-> s1]

\* Bound: the second push is sent when the poller has settled the first, it has
\* its voucher, and nothing is under way for it.
FirstAtRest ==
    /\ voucher[p1] # NoCode /\ receipt[p1] = FallbackReceipt(p1) /\ age[p1] = "stale"
    /\ net[p1] = 0 /\ queue[p1] = 0 /\ \A t \in 2..ArqMaxTries : retries[p1][t] = 0
    /\ \A h \in Handlers : hook[h] = IdleHook
    /\ \A k \in Pollers : poll[k] = IdlePoll
    /\ \A w \in Workers : worker[w] = Idle
    /\ sweep = {} /\ manual = {}

InTurn == status[p2] = "absent" /\ status'[p2] # "absent" => FirstAtRest

BoundedSpec == PipelineInit /\ [][PipelineNext /\ InTurn]_pipelineVars /\ Fairness

=============================================================================
