----------------------------- MODULE TenantGateMC -----------------------------
(* TenantGate on small instances.                                          *)
EXTENDS TenantGate, TLC
TwoStates == {"live", "suspended"}
TenantSymmetry == Permutations(Tenant)
=============================================================================
