------------------------------ MODULE MCSession ------------------------------
(* A small instance of Session.                                            *)
EXTENDS Session

CONSTANTS w1, r1, r2

\* One tab with two requests in the air.
OneTab == [r \in Reqs |-> w1]

=============================================================================
