------------------------------- MODULE ScifAccess -------------------------------
(***************************************************************************)
(* What Digital SCIF promises, whatever its rows look like: a door per     *)
(* session that only its holder opens, only over enough valid vouchers of  *)
(* other people, and that shuts the holder's other unvouched doors.        *)
(***************************************************************************)
EXTENDS Naturals, FiniteSets

CONSTANTS Session, Subject, Nobody

VARIABLES
    holder,     \* who asked for the session, or Nobody
    quorum,     \* how many vouchers its door needs
    vouchers,   \* who vouches for it now
    open        \* the sessions that serve a viewer

doors == <<holder, quorum, vouchers, open>>

Init ==
    /\ holder = [s \in Session |-> Nobody]
    /\ quorum = [s \in Session |-> 0]
    /\ vouchers = [s \in Session |-> {}]
    /\ open = {}

Request(s, o, q) ==
    /\ holder[s] = Nobody
    /\ holder' = [holder EXCEPT ![s] = o]
    /\ quorum' = [quorum EXCEPT ![s] = q]
    /\ UNCHANGED <<vouchers, open>>

Vouch(s, u) ==
    /\ holder[s] \notin {Nobody, u}
    /\ vouchers' = [vouchers EXCEPT ![s] = @ \cup {u}]
    /\ UNCHANGED <<holder, quorum, open>>

Lapse(s, u) ==
    /\ vouchers' = [vouchers EXCEPT ![s] = @ \ {u}]
    /\ UNCHANGED <<holder, quorum, open>>

\* The doors of the same holder that opening s must shut, and may shut.
Rivals(s) == {t \in open \ {s} : holder[t] = holder[s]}
Unvouched(s) == {t \in Rivals(s) : quorum[t] = 0}

Open(s) ==
    /\ holder[s] # Nobody
    /\ Cardinality(vouchers[s]) >= quorum[s]
    /\ \E shut \in SUBSET Rivals(s) :
          /\ Unvouched(s) \subseteq shut
          /\ open' = (open \ shut) \cup {s}
    /\ UNCHANGED <<holder, quorum, vouchers>>

\* Doors shut at any time; their vouchers may be withdrawn with them.
Shut(S) ==
    /\ open' = open \ S
    /\ \E dropped \in SUBSET S :
          vouchers' = [s \in Session |-> IF s \in dropped THEN {} ELSE vouchers[s]]
    /\ UNCHANGED <<holder, quorum>>

Next ==
    \/ \E s \in Session, o \in Subject, q \in {0, 2} : Request(s, o, q)
    \/ \E s \in Session, u \in Subject : Vouch(s, u) \/ Lapse(s, u)
    \/ \E s \in Session : Open(s)
    \/ \E S \in SUBSET Session : Shut(S)

Spec == Init /\ [][Next]_doors

================================================================================
