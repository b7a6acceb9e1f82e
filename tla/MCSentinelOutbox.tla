---------------------------- MODULE MCSentinelOutbox ---------------------------
(* Instances of SentinelOutbox for TLC. *)
EXTENDS SentinelOutbox

CONSTANTS o1, o2, worker, e1, e2

\* Two occurrences with a content each.
Distinct == [o \in {o1, o2} |-> IF o = o1 THEN e1 ELSE e2]

================================================================================
