----------------------------- MODULE TokenStoreMC -----------------------------
(* TokenStore on two tokens and two identities.  Tokens are interchangeable. *)
EXTENDS TokenStore, TLC
TokenSymmetry == Permutations(Token)
=============================================================================
