------------------------- MODULE MCSuperAdminConsole -------------------------
(* Small instances of SuperAdminConsole.                                   *)
EXTENDS SuperAdminConsole, TLC

CONSTANTS ta, tb, e1, s1, s2, w1, w2

\* Tenants, mutation slots and tabs are interchangeable.
Sym == Permutations(Tenants) \cup Permutations(Slots) \cup Permutations(Windows)

\* The queries the client knows.
Known == {k \in Keys : entry[k] # NoEntry \/ fetch[k] # NoFetch}

\* bound: the operator's mutations and the others' changes together
Few == started + others <= MaxCalls

\* A mutation that changes no data is in the air, or a tab to impersonate a tenant open.
Harmless ==
    \/ \E s \in Slots : call[s] # NoCall /\ Concerned(call[s].kind, call[s].of) = {}
    \/ \E w \in Windows : window[w] # NoWindow

\* bound: the client knows two queries; one, and of data that has not changed, while
\* there is only something harmless, which shares nothing with the queries, to explore.
Apart ==
    IF Harmless THEN Cardinality(Known) <= 1 /\ others = 0 /\ accounts = {}
                ELSE Cardinality(Known) <= 2

Bounds == Few /\ Apart

=============================================================================
