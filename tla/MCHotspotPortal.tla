-------------------------- MODULE MCHotspotPortal --------------------------
(* One phone on the captive portal and one customer tab. *)
EXTENDS HotspotPortal

CONSTANTS g1, c1, k1

=============================================================================
