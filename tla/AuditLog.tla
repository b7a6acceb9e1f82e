------------------------------ MODULE AuditLog ------------------------------
(***************************************************************************)
(* What the audit chain promises its readers, with no transactions, locks  *)
(* or hashes: numbered entries, extended only past the newest one.         *)
(***************************************************************************)
EXTENDS Naturals

CONSTANT Body            \* what an entry can say

VARIABLE log             \* from the numbers of the entries to what they say

LogTypeOK ==
    /\ DOMAIN log \subseteq Nat
    /\ \A n \in DOMAIN log : log[n] \in Body

Init == DOMAIN log = {}

(***************************************************************************)
(* A batch of entries appears at once.  What was read before stays as it   *)
(* was, and nothing appears between entries that were read before.         *)
(***************************************************************************)
Extend ==
    /\ DOMAIN log \subseteq DOMAIN log'
    /\ \A n \in DOMAIN log : log'[n] = log[n]
    /\ \A n \in DOMAIN log, m \in DOMAIN log' \ DOMAIN log : n < m
    /\ LogTypeOK'

Spec == Init /\ [][Extend]_log

=============================================================================
