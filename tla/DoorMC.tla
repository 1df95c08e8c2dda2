-------------------------------- MODULE DoorMC --------------------------------
(* Door on small instances: one role, the administrator's. *)
EXTENDS Door, TLC
CONSTANTS c1, c2, alice, bob
TwoUsers == (c1 :> alice) @@ (c2 :> bob)
=============================================================================
