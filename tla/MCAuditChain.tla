---------------------------- MODULE MCAuditChain ----------------------------
(* A small instance: two entries, each into a session of its own. *)
EXTENDS AuditChain, TLC

CONSTANTS e1, e2, s1, s2

OwnSessions == (e1 :> s1) @@ (e2 :> s2)
=============================================================================
