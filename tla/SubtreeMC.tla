------------------------------ MODULE SubtreeMC ------------------------------
(* Subtree on small instances.                                             *)
EXTENDS Subtree, TLC
OthersSymmetry == Permutations(Uid \ Allowed)
=============================================================================
