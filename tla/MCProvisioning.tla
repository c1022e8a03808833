--------------------------- MODULE MCProvisioning ---------------------------
(* Small instances of Provisioning.                                        *)
EXTENDS Provisioning, Functions, TLC

CONSTANTS
    p1, p2, w1, w2, c1, c2, c3,
    MaxBurst    \* bound: jobs that are about when another is submitted

Symmetric == Permutations({w1, w2}) \cup Permutations({c1, c2, c3})

Total(f) == FoldFunction(LAMBDA n, sum : n + sum, 0, f)

\* The jobs that are queued, at work, or waiting for another try.
JobsAbout ==
    Total(queue) + Cardinality({w \in Workers : worker[w] # Idle})
                 + Total([p \in Payments |-> Total(retries[p])])

\* Bound: p2 is opened when p1 has failed or has its voucher, and no job is about.
Opens(p) ==
    p = p2 => /\ status[p1] = "failed" \/ voucher[p1] # NoCode
              /\ JobsAbout = 0 /\ sweep = {} /\ manual = {}

\* ProvisioningNext with these bounds on what the settlement side does.
BoundedNext ==
    \/ \E p \in Payments :
          \/ (status[p] = "absent" => Opens(p)) /\ Settle(p)
          \/ Elapse(p)
          \/ JobsAbout < MaxBurst /\ Submit(p)
    \/ Jobs

BoundedSpec == ProvisioningInit /\ [][BoundedNext]_provisioningVars

=============================================================================
