--------------------------- MODULE MCVaultObjects ---------------------------
(* A small instance: an administrator and a member of staff. *)
EXTENDS VaultObjects, TLC

CONSTANTS admin, staff, presidency, barracks

Roles == (admin :> {"platform-admin"}) @@ (staff :> {"corporate-user"})
Grants == (admin :> {}) @@ (staff :> {presidency, barracks})
=============================================================================
