------------------------------ MODULE SentinelFeed -----------------------------
(***************************************************************************)
(* What the outbox promises SENTINEL: an alert is recorded before it is    *)
(* sent, it may be sent any number of times, and it is only called         *)
(* delivered once SENTINEL has heard it.                                   *)
(***************************************************************************)
CONSTANT Event

VARIABLES
    recorded,   \* events stored durably
    heard,      \* events SENTINEL received at least once
    settled     \* events stored as delivered

feed == <<recorded, heard, settled>>

Init == recorded = {} /\ heard = {} /\ settled = {}

Record(e) == recorded' = recorded \cup {e} /\ UNCHANGED <<heard, settled>>

Hear(e) ==
    /\ e \in recorded
    /\ heard' = heard \cup {e}
    /\ UNCHANGED <<recorded, settled>>

Settle(e) ==
    /\ e \in heard
    /\ settled' = settled \cup {e}
    /\ UNCHANGED <<recorded, heard>>

\* A failed duplicate may put a delivered event back into the queue.
Reopen(e) == settled' = settled \ {e} /\ UNCHANGED <<recorded, heard>>

Next == \E e \in Event : Record(e) \/ Hear(e) \/ Settle(e) \/ Reopen(e)

Spec == Init /\ [][Next]_feed

================================================================================
