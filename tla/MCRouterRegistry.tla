-------------------------- MODULE MCRouterRegistry --------------------------
(* A small instance of RouterRegistry.                                     *)
EXTENDS RouterRegistry

=============================================================================
