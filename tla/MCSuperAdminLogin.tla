-------------------------- MODULE MCSuperAdminLogin --------------------------
(* Small instances of SuperAdminLogin.                                     *)
EXTENDS SuperAdminLogin, TLC

CONSTANTS t1, t2, r1, r2

\* Tabs and request slots are interchangeable.
Sym == Permutations(Tabs) \cup Permutations(Reqs)

=============================================================================
