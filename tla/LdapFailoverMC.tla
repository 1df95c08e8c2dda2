--------------------------- MODULE LdapFailoverMC ---------------------------
(* LdapFailover on small instances. *)
EXTENDS LdapFailover, TLC
=============================================================================
