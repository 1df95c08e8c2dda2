---------------------------- MODULE TenantAccess ----------------------------
(***************************************************************************)
(* tenant_access.py: what membership of a tenant's groups makes of a user. *)
(***************************************************************************)

\* roles_in_tenant: administrators of a tenant are its system_admin too.
RolesFrom(groups) ==
  groups \cup (IF "administrators" \in groups THEN {"system_admin"} ELSE {})
=============================================================================
