---------------------------- MODULE MCSigningKeys ---------------------------
(* Small instances: keys with an id each, and an id used for a second key. *)
EXTENDS SigningKeys

CONSTANTS k1, k2, k3, x, y

\* The third id is a new name for the first key.
OwnIds == {<<k1, x>>, <<k2, y>>, <<k3, x>>}
ReusedId == {<<k1, x>>, <<k1, y>>}
=============================================================================
