--------------------------- MODULE MCResellerDesk ---------------------------
(* A small instance of ResellerDesk: one wallet, one C2B payment that may be *)
(* confirmed again and again, two requests at once.                          *)
EXTENDS ResellerDesk, TLC

CONSTANTS r1, c1

MCPaidTo     == [c \in TransIds |-> r1]
MCPaidAmount == [c \in TransIds |-> 2]

\* The requests are interchangeable, and only invariants are checked.
Symm == Permutations(Txns)

=============================================================================
