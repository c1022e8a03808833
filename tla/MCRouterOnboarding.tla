------------------------- MODULE MCRouterOnboarding -------------------------
(* Small instances of RouterRegistry and RouterOnboarding.                 *)
EXTENDS RouterOnboarding

=============================================================================
