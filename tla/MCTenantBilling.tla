-------------------------- MODULE MCTenantBilling ---------------------------
(* Small instances of TenantBilling.                                       *)
EXTENDS TenantBilling

CONSTANTS t1, b1, b2, h1, k1, s1

OneTenant == [b \in Bills |-> t1]
OneSuffix == [b \in Bills |-> s1]

=============================================================================
