---------------------------- MODULE MCSettlement ----------------------------
(* Small instances of Settlement.                                          *)
EXTENDS Settlement, TLC

CONSTANTS p1, p2, h1, h2, k1, s1, s2

\* Two checkout ids that end in the same ten characters.
SharedSuffix == [p \in Payments |-> s1]

Symmetric == Permutations({h1, h2})

=============================================================================
