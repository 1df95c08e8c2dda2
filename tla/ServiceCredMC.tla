---------------------------- MODULE ServiceCredMC ----------------------------
(* ServiceCred on small instances.  Every credential has a uid of its own, *)
(* written as the credential.                                              *)
EXTENDS ServiceCred, TLC
OwnUid == [k \in Cred |-> k]
CallerSymmetry == Permutations(Caller)
=============================================================================
