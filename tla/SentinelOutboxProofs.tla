-------------------------- MODULE SentinelOutboxProofs -------------------------
(***************************************************************************)
(* Proofs about SentinelOutbox, for any events, occurrences and flushers:  *)
(* typing, what "delivered" and "notified" mean, and the refinement of     *)
(* SentinelFeed.                                                           *)
(***************************************************************************)
EXTENDS SentinelOutbox, FiniteSetTheorems, TLAPS

\* What a sender carries from the read of its rows to the write of an outcome:
\* its rows are stored, and an answer in hand was heard.
InHand(x) ==
    /\ call[x].todo \subseteq Recorded
    /\ call[x].at \in {"posting", "answered", "failing"} => call[x].now \in Recorded
    /\ call[x].at = "answered" => call[x].now \in heard
    /\ x \in Occurrence =>
          /\ call[x].todo \subseteq {About[x]}
          /\ call[x].now \in {NoEvent, About[x]}

IInv ==
    /\ TypeOK
    /\ DeliveredWasHeard
    /\ NotifiedWasHeard
    /\ \A x \in Sender : InHand(x)

--------------------------------------------------------------------------------
(* Rows only come, and SENTINEL does not forget.                               *)
Grows == Recorded \subseteq Recorded' /\ heard \subseteq heard'

(* A sender whose call does not move keeps what it has in hand.                *)
LEMMA Bystander ==
    ASSUME NEW x \in Sender, InHand(x), Grows, call'[x] = call[x]
    PROVE  InHand(x)'
  BY DEF InHand, Grows

(* An update of one call is typed and leaves every other call alone.           *)
LEMMA OneMoves ==
    ASSUME TypeOK, NEW x \in Sender, NEW c \in Call, call' = [call EXCEPT ![x] = c]
    PROVE  /\ call' \in [Sender -> Call]
           /\ call'[x] = c
           /\ \A y \in Sender \ {x} : call'[y] = call[y]
  BY DEF TypeOK

(* A step of x that grows the table and leaves x with good hands keeps all.    *)
LEMMA HandsKept ==
    ASSUME IInv, Grows, NEW x \in Sender, InHand(x)',
           \A y \in Sender \ {x} : call'[y] = call[y]
    PROVE  (\A y \in Sender : InHand(y))'
  <1>1. \A y \in Sender \ {x} : InHand(y)'
    BY Bystander DEF IInv
  <1>. QED  BY <1>1 DEF Sender

(* What a write to a stored row does to the sets read from the rows.           *)
LEMMA RowWritten ==
    ASSUME TypeOK, NEW e \in Recorded, NEW r \in Row, r.status # "absent",
           outbox' = [outbox EXCEPT ![e] = r]
    PROVE  /\ outbox' \in [Event -> Row]
           /\ Recorded' = Recorded
           /\ Settled' = IF r.status = "delivered" THEN Settled \cup {e} ELSE Settled \ {e}
  <1>1. e \in Event
    BY DEF Recorded
  <1>2. outbox'[e] = r /\ \A f \in Event \ {e} : outbox'[f] = outbox[f]
    BY <1>1 DEF TypeOK
  <1>. QED  BY <1>1, <1>2 DEF TypeOK, Recorded, Settled

(* A stored alert is a new typed row, or no change at all.                     *)
LEMMA RowQueued ==
    ASSUME TypeOK, NEW e \in Event, outbox' = Queued(e)
    PROVE  /\ outbox' \in [Event -> Row]
           /\ Recorded' = Recorded \cup {e}
           /\ Settled' = Settled
  <1>1. Cardinality(Recorded) \in Nat
    BY OutboxAssumption, FS_Subset, FS_CardinalityType DEF Recorded, OutboxAssumption
  <1>2. NewRow \in Row /\ NewRow.status = "pending"
    BY <1>1 DEF NewRow, Row, Status
  <1>3. CASE e \in Recorded
    BY <1>3 DEF Queued, TypeOK, Recorded, Settled
  <1>4. CASE e \notin Recorded
    <2>1. outbox' = [outbox EXCEPT ![e] = NewRow]
      BY <1>4 DEF Queued
    <2>2. outbox'[e] = NewRow /\ \A f \in Event \ {e} : outbox'[f] = outbox[f]
      BY <2>1 DEF TypeOK
    <2>. QED  BY <1>2, <1>4, <2>1, <2>2 DEF TypeOK, Recorded, Settled
  <1>. QED  BY <1>3, <1>4

--------------------------------------------------------------------------------
(* Nothing is recorded, heard or under way at first.                           *)
LEMMA InitInvariant == Init => IInv
  BY OutboxAssumption
  DEF Init, IInv, TypeOK, OutboxAssumption, Row, Status, Call, Place, InHand, Recorded,
      Settled, DeliveredWasHeard, NotifiedWasHeard

--------------------------------------------------------------------------------
(* A sender that puts its rows down, or stands with stored rows of its own.    *)
LEMMA StandsSafely ==
    ASSUME IInv, Grows, NEW x \in Sender, NEW at \in Place, NEW todo \in SUBSET Event,
           Stands(x, at, todo), at \notin {"posting", "answered", "failing"},
           todo \subseteq Recorded', x \in Occurrence => todo \subseteq {About[x]}
    PROVE  /\ call' \in [Sender -> Call]
           /\ (\A y \in Sender : InHand(y))'
  <1>. DEFINE c == [at |-> at, now |-> NoEvent, todo |-> todo]
  <1>1. c \in Call
    BY DEF Call
  <1>2. call' = [call EXCEPT ![x] = c]
    BY DEF Stands, Goes
  <1>. HIDE DEF c
  <1>3. /\ call' \in [Sender -> Call] /\ call'[x] = c
        /\ \A y \in Sender \ {x} : call'[y] = call[y]
    BY <1>1, <1>2, OneMoves DEF IInv
  <1>4. InHand(x)'
    BY <1>3 DEF InHand, c
  <1>. QED  BY <1>3, <1>4, HandsKept

(* A sender that moves on with the same row in hand.                           *)
LEMMA TurnsSafely ==
    ASSUME IInv, Grows, NEW x \in Sender, NEW at \in {"posting", "answered", "failing"},
           Turns(x, at), call[x].at \in {"posting", "answered", "failing"},
           at = "answered" => call[x].now \in heard'
    PROVE  /\ call' \in [Sender -> Call]
           /\ (\A y \in Sender : InHand(y))'
  <1>1. call[x] \in Call /\ InHand(x)
    BY DEF IInv, TypeOK
  <1>. DEFINE c == [at |-> at, now |-> call[x].now, todo |-> call[x].todo]
  <1>2. c \in Call
    BY <1>1 DEF Call, Place
  <1>3. call' = [call EXCEPT ![x] = c]
    BY DEF Turns, Goes
  <1>. HIDE DEF c
  <1>4. /\ call' \in [Sender -> Call] /\ call'[x] = c
        /\ \A y \in Sender \ {x} : call'[y] = call[y]
    BY <1>2, <1>3, OneMoves DEF IInv
  <1>5. InHand(x)'
    BY <1>1, <1>4 DEF InHand, c, Grows
  <1>. QED  BY <1>4, <1>5, HandsKept

(* A delivery returned: the sender takes its next stored row or stops.         *)
LEMMA ContinuesSafely ==
    ASSUME IInv, Grows, NEW x \in Sender, NEW rest \in SUBSET call[x].todo,
           Continues(x, rest)
    PROVE  /\ call' \in [Sender -> Call]
           /\ (\A y \in Sender : InHand(y))'
  <1>1. call[x] \in Call /\ InHand(x)
    BY DEF IInv, TypeOK
  <1>2. rest \in SUBSET Event /\ rest \subseteq Recorded'
    BY <1>1 DEF Call, InHand, Grows
  <1>3. CASE x \in Occurrence
    <2>1. Stands(x, "returned", {})
      BY <1>3 DEF Continues
    <2>. QED  BY <2>1, StandsSafely DEF Place
  <1>4. CASE x \notin Occurrence
    <2>1. PICK at \in {"idle", "ready"} : Stands(x, at, rest)
      BY <1>4 DEF Continues
    <2>. QED  BY <1>2, <1>4, <2>1, StandsSafely DEF Place
  <1>. QED  BY <1>3, <1>4

--------------------------------------------------------------------------------
(* The invariant after a step, from what the step did to each variable.        *)
LEMMA Assemble ==
    ASSUME IInv,
           outbox' \in [Event -> Row], call' \in [Sender -> Call],
           action' \in [Occurrence -> {"none", "open", "committed", "undone"}],
           notified' \subseteq Occurrence, heard' \subseteq Event,
           crashes' \in 0 .. MaxCrashes,
           Settled' \subseteq heard', \A o \in notified' : About[o] \in heard',
           (\A y \in Sender : InHand(y))'
    PROVE  IInv'
  BY DEF IInv, TypeOK, DeliveredWasHeard, NotifiedWasHeard

LEMMA RaiseInvariant == ASSUME IInv, NEW o \in Occurrence, Raise(o) PROVE IInv'
  <1>. USE DEF IInv, TypeOK, DeliveredWasHeard, NotifiedWasHeard
  <1>x. o \in Sender /\ About[o] \in Event
    BY OutboxAssumption DEF OutboxAssumption, Sender
  <1>1. CASE Occur(o)
    <2>1. Grows /\ Stands(o, "raised", {})
      BY <1>1 DEF Occur, Grows, Recorded
    <2>2. call' \in [Sender -> Call] /\ (\A y \in Sender : InHand(y))'
      BY <2>1, <1>x, StandsSafely DEF Place
    <2>3. PICK tx \in {"open", "committed"} : action' = [action EXCEPT ![o] = tx]
      BY <1>1 DEF Occur
    <2>4. Settled' = Settled
      BY <1>1 DEF Occur, Settled
    <2>. QED  BY <1>1, <2>2, <2>3, <2>4, Assemble DEF Occur
  <1>2. CASE Queue(o)
    <2>1. /\ outbox' \in [Event -> Row]
          /\ Recorded' = Recorded \cup {About[o]} /\ Settled' = Settled
      BY <1>2, <1>x, RowQueued DEF Queue
    <2>2. Grows /\ Stands(o, "ready", {About[o]})
      BY <1>2, <2>1 DEF Queue, Grows
    <2>3. call' \in [Sender -> Call] /\ (\A y \in Sender : InHand(y))'
      BY <2>1, <2>2, <1>x, StandsSafely DEF Place
    <2>. QED  BY <1>2, <2>1, <2>3, Assemble DEF Queue
  <1>3. CASE QueueFails(o)
    <2>1. Grows /\ Stands(o, "returned", {}) /\ Settled' = Settled
      BY <1>3 DEF QueueFails, Grows, Recorded, Settled
    <2>2. call' \in [Sender -> Call] /\ (\A y \in Sender : InHand(y))'
      BY <2>1, <1>x, StandsSafely DEF Place
    <2>. QED  BY <1>3, <2>1, <2>2, Assemble DEF QueueFails
  <1>4. CASE Conclude(o)
    <2>1. Grows /\ Stands(o, "done", {}) /\ Settled' = Settled
      BY <1>4 DEF Conclude, Grows, Recorded, Settled
    <2>2. call' \in [Sender -> Call] /\ (\A y \in Sender : InHand(y))'
      BY <2>1, <1>x, StandsSafely DEF Place
    <2>3. action' \in [Occurrence -> {"none", "open", "committed", "undone"}]
      BY <1>4 DEF Conclude
    <2>. QED  BY <1>4, <2>1, <2>2, <2>3, Assemble DEF Conclude
  <1>. QED  BY <1>1, <1>2, <1>3, <1>4 DEF Raise

LEMMA FlushInvariant == ASSUME IInv, NEW x \in Flusher, Flush(x) PROVE IInv'
  <1>1. x \in Sender /\ x \notin Occurrence
    BY OutboxAssumption DEF OutboxAssumption, Sender
  <1>2. Batch \in SUBSET Event /\ Batch \subseteq Recorded
    BY DEF Batch, Backlog, Recorded
  <1>3. Grows /\ Recorded' = Recorded /\ Settled' = Settled
    BY DEF Flush, Grows, Recorded, Settled
  <1>4. PICK at \in {"idle", "ready"} : Stands(x, at, Batch)
    BY DEF Flush
  <1>5. call' \in [Sender -> Call] /\ (\A y \in Sender : InHand(y))'
    BY <1>1, <1>2, <1>3, <1>4, StandsSafely DEF Place
  <1>. QED
    BY <1>3, <1>5, Assemble
    DEF Flush, IInv, TypeOK, DeliveredWasHeard, NotifiedWasHeard

--------------------------------------------------------------------------------
(* A delivery that answers True vouches for what it had in hand.               *)
LEMMA ReturnsSafely ==
    ASSUME IInv, NEW x \in Sender, NEW d \in BOOLEAN, Returns(x, d),
           d /\ x \in Occurrence => About[x] \in heard
    PROVE  /\ UNCHANGED <<action, heard, crashes>>
           /\ notified' \subseteq Occurrence
           /\ \A o \in notified' : About[o] \in heard'
  BY DEF Returns, IInv, TypeOK, NotifiedWasHeard

(* An outcome written to the row in hand: the delivery returns.                *)
LEMMA OutcomeInvariant ==
    ASSUME IInv, NEW x \in Sender, NEW d \in BOOLEAN, NEW r \in Row,
           r.status # "absent", outbox' = [outbox EXCEPT ![call[x].now] = r],
           call[x].at \in {"answered", "failing"},
           d \/ r.status = "delivered" => call[x].at = "answered",
           Continues(x, call[x].todo), Returns(x, d)
    PROVE  IInv'
  <1>1. InHand(x) /\ call[x].now \in Recorded
    BY DEF IInv, InHand
  <1>2. call[x].now # NoEvent
    BY <1>1, OutboxAssumption DEF Recorded, OutboxAssumption
  <1>3. /\ outbox' \in [Event -> Row] /\ Recorded' = Recorded
        /\ Settled' \subseteq Settled \cup {call[x].now}
        /\ r.status # "delivered" => Settled' \subseteq Settled
    BY <1>1, RowWritten DEF IInv
  <1>4. d /\ x \in Occurrence => About[x] \in heard
    BY <1>1, <1>2 DEF InHand
  <1>5. /\ UNCHANGED <<action, heard, crashes>>
        /\ notified' \subseteq Occurrence
        /\ \A o \in notified' : About[o] \in heard'
    BY <1>4, ReturnsSafely
  <1>6. Grows
    BY <1>3, <1>5 DEF Grows
  <1>7. call' \in [Sender -> Call] /\ (\A y \in Sender : InHand(y))'
    BY <1>6, ContinuesSafely
  <1>8. Settled' \subseteq heard'
    BY <1>1, <1>3, <1>5 DEF InHand, IInv, DeliveredWasHeard
  <1>. QED  BY <1>3, <1>5, <1>7, <1>8, Assemble DEF IInv, TypeOK

LEMMA HearsInvariant ==
    ASSUME IInv, NEW x \in Sender, NEW at \in {"answered", "failing"}, Hears(x, at)
    PROVE  IInv'
  <1>1. call[x].now \in Event
    BY DEF Hears, IInv, InHand, Recorded
  <1>2. heard' = heard \cup {call[x].now} /\ Recorded' = Recorded /\ Settled' = Settled
    BY DEF Hears, Recorded, Settled
  <1>3. Grows
    BY <1>2 DEF Grows
  <1>4. call' \in [Sender -> Call] /\ (\A y \in Sender : InHand(y))'
    BY <1>2, <1>3, TurnsSafely DEF Hears
  <1>. QED
    BY <1>1, <1>2, <1>4, Assemble
    DEF Hears, IInv, TypeOK, DeliveredWasHeard, NotifiedWasHeard

LEMMA DeliverInvariant == ASSUME IInv, NEW x \in Sender, Deliver(x) PROVE IInv'
  <1>t. /\ outbox \in [Event -> Row] /\ call[x] \in Call /\ InHand(x)
        /\ Settled \subseteq heard /\ \A o \in notified : About[o] \in heard
    BY DEF IInv, TypeOK, DeliveredWasHeard, NotifiedWasHeard
  <1>. DEFINE Quiet == UNCHANGED <<outbox, notified, heard, crashes>>
  <1>q. ASSUME Quiet PROVE Grows /\ Recorded' = Recorded /\ Settled' = Settled
    BY <1>q DEF Grows, Recorded, Settled
  <1>m. ASSUME Quiet, UNCHANGED action, call' \in [Sender -> Call],
               (\A y \in Sender : InHand(y))'
        PROVE  IInv'
    BY <1>q, <1>m, Assemble DEF IInv, TypeOK, DeliveredWasHeard, NotifiedWasHeard
  <1>1. CASE NothingToSend(x)
    <2>1. PICK e \in Oldest(call[x].todo) :
             /\ Continues(x, call[x].todo \ {e})
             /\ notified' = notified \/ (e \in Settled /\ notified' = notified \cup ({x} \cap Occurrence))
             /\ UNCHANGED <<action, heard, crashes>>
      BY <1>1 DEF NothingToSend, Returns
    <2>2. x \in Occurrence => e = About[x]
      BY <1>t, <2>1 DEF Oldest, InHand
    <2>3. /\ UNCHANGED <<action, heard, crashes>>
          /\ notified' \subseteq Occurrence
          /\ \A o \in notified' : About[o] \in heard'
      BY <1>t, <2>1, <2>2 DEF IInv, TypeOK
    <2>4. Grows /\ Settled' = Settled
      BY <1>1, <2>3 DEF NothingToSend, Grows, Recorded, Settled
    <2>5. call' \in [Sender -> Call] /\ (\A y \in Sender : InHand(y))'
      BY <2>1, <2>4, ContinuesSafely
    <2>6. UNCHANGED outbox
      BY <1>1 DEF NothingToSend
    <2>. QED  BY <1>t, <2>3, <2>4, <2>5, <2>6, Assemble DEF IInv, TypeOK
  <1>2. CASE Post(x)
    <2>1. PICK e \in Oldest(call[x].todo) : Goes(x, "posting", e, call[x].todo \ {e})
      BY <1>2 DEF Post
    <2>2. e \in call[x].todo
      BY <2>1 DEF Oldest
    <2>. DEFINE c == [at |-> "posting", now |-> e, todo |-> call[x].todo \ {e}]
    <2>3. c \in Call
      BY <1>t, <2>2 DEF Call, Place
    <2>4. call' = [call EXCEPT ![x] = c]
      BY <2>1 DEF Goes
    <2>. HIDE DEF c
    <2>5. /\ call' \in [Sender -> Call] /\ call'[x] = c
          /\ \A y \in Sender \ {x} : call'[y] = call[y]
      BY <2>3, <2>4, OneMoves DEF IInv
    <2>6. Grows /\ Recorded' = Recorded
      BY <1>2, <1>q DEF Post
    <2>7. InHand(x)'
      BY <1>t, <2>2, <2>5, <2>6 DEF InHand, c
    <2>8. (\A y \in Sender : InHand(y))'
      BY <2>5, <2>6, <2>7, HandsKept
    <2>. QED  BY <1>2, <1>m, <2>5, <2>8 DEF Post
  <1>3. CASE Accepted(x) \/ AnswerLost(x)
    BY <1>3, HearsInvariant DEF Accepted, AnswerLost
  <1>4. CASE Missed(x) \/ MarkFails(x)
    <2>1. /\ Quiet /\ UNCHANGED action /\ Turns(x, "failing")
          /\ call[x].at \in {"posting", "answered"}
      BY <1>4 DEF Missed, MarkFails
    <2>2. call' \in [Sender -> Call] /\ (\A y \in Sender : InHand(y))'
      BY <2>1, <1>q, TurnsSafely
    <2>. QED  BY <2>1, <2>2, <1>m
  <1>5. CASE MarkDelivered(x)
    <2>1. call[x].now \in Event
      BY <1>5, <1>t DEF MarkDelivered, InHand, Recorded
    <2>. DEFINE r == [outbox[call[x].now] EXCEPT !.status = "delivered"]
    <2>2. r \in Row /\ r.status = "delivered"
      BY <1>t, <2>1 DEF Row, Status
    <2>3. outbox' = [outbox EXCEPT ![call[x].now] = r]
      BY <1>5, <1>t, <2>1 DEF MarkDelivered, Row
    <2>. HIDE DEF r
    <2>. QED  BY <1>5, <2>2, <2>3, OutcomeInvariant DEF MarkDelivered
  <1>6. CASE MarkRetrying(x)
    <2>1. call[x].now \in Event
      BY <1>6, <1>t DEF MarkRetrying, InHand, Recorded
    <2>. DEFINE r == [outbox[call[x].now] EXCEPT !.status = "retrying", !.due = FALSE]
    <2>2. r \in Row /\ r.status = "retrying"
      BY <1>t, <2>1 DEF Row, Status
    <2>3. outbox' = [outbox EXCEPT ![call[x].now] = r]
      BY <1>6, <1>t, <2>1 DEF MarkRetrying, Row
    <2>. HIDE DEF r
    <2>. QED  BY <1>6, <2>2, <2>3, OutcomeInvariant DEF MarkRetrying
  <1>7. CASE Raises(x)
    <2>1. PICK at \in {"error", "idle"} : Stands(x, at, {})
      BY <1>7 DEF Raises
    <2>2. Quiet
      BY <1>7 DEF Raises
    <2>3. call' \in [Sender -> Call] /\ (\A y \in Sender : InHand(y))'
      BY <2>1, <2>2, <1>q, StandsSafely DEF Place
    <2>4. action' \in [Occurrence -> {"none", "open", "committed", "undone"}]
      BY <1>7 DEF Raises, IInv, TypeOK
    <2>. QED
      BY <1>t, <1>q, <2>2, <2>3, <2>4, Assemble DEF IInv, TypeOK
  <1>. QED  BY <1>1, <1>2, <1>3, <1>4, <1>5, <1>6, <1>7 DEF Deliver

--------------------------------------------------------------------------------
LEMMA DueInvariant == ASSUME IInv, NEW e \in Event, BecomesDue(e) PROVE IInv'
  <1>. DEFINE r == [outbox[e] EXCEPT !.due = TRUE]
  <1>1. outbox \in [Event -> Row] /\ e \in Recorded
    BY DEF BecomesDue, IInv, TypeOK
  <1>2. r \in Row /\ r.status = outbox[e].status
    BY <1>1 DEF Row
  <1>3. outbox' = [outbox EXCEPT ![e] = r]
    BY <1>1 DEF BecomesDue
  <1>. HIDE DEF r
  <1>4. r.status # "absent"
    BY <1>1, <1>2 DEF Recorded
  <1>5. outbox' \in [Event -> Row] /\ Recorded' = Recorded /\ Settled' = Settled
    BY <1>1, <1>2, <1>3, <1>4, RowWritten DEF IInv, Settled
  <1>6. (\A y \in Sender : InHand(y))'
    BY <1>5, Bystander DEF BecomesDue, IInv, Grows
  <1>. QED
    BY <1>5, <1>6, Assemble
    DEF BecomesDue, IInv, TypeOK, DeliveredWasHeard, NotifiedWasHeard

LEMMA CrashInvariant == IInv /\ Crash => IInv'
  <1>. SUFFICES ASSUME IInv, Crash PROVE IInv'
    OBVIOUS
  <1>1. Settled' = Settled /\ UNCHANGED <<outbox, notified, heard>>
    BY DEF Crash, Settled
  <1>2. call' \in [Sender -> Call]
    BY DEF Crash, Call, Place
  <1>3. \A y \in Sender : call'[y].todo = {} /\ call'[y].now = NoEvent
                           /\ call'[y].at \in {"idle", "done"}
    BY DEF Crash
  <1>4. (\A y \in Sender : InHand(y))'
    BY <1>3 DEF InHand
  <1>5. action' \in [Occurrence -> {"none", "open", "committed", "undone"}]
    BY DEF Crash, IInv, TypeOK
  <1>6. crashes' \in 0 .. MaxCrashes
    BY OutboxAssumption DEF Crash, IInv, TypeOK, OutboxAssumption
  <1>. QED
    BY <1>1, <1>2, <1>4, <1>5, <1>6, Assemble
    DEF IInv, TypeOK, DeliveredWasHeard, NotifiedWasHeard

LEMMA NextInvariant == IInv /\ [Next]_vars => IInv'
  <1>1. ASSUME IInv, UNCHANGED vars PROVE IInv'
    BY <1>1
    DEF vars, IInv, TypeOK, DeliveredWasHeard, NotifiedWasHeard, InHand, Recorded, Settled
  <1>. QED
    BY <1>1, RaiseInvariant, FlushInvariant, DeliverInvariant, DueInvariant, CrashInvariant
    DEF Next

(* IInv holds in every reachable state.                                        *)
THEOREM Invariance == Spec => []IInv
  BY InitInvariant, NextInvariant, PTL DEF Spec

(* Every reachable state has the types the model declares.                     *)
THEOREM TypeCorrect == Spec => []TypeOK
  BY Invariance, PTL DEF IInv

(* Whatever deliveries overlap, fail or die, a row reads delivered only for an *)
(* event SENTINEL received: the answer that marks it is in a sender's hand.    *)
THEOREM DeliveredHeard == Spec => []DeliveredWasHeard
  BY Invariance, PTL DEF IInv

(* A True of _notify_sentinel always stands for an alert SENTINEL received.    *)
THEOREM NotifiedHeard == Spec => []NotifiedWasHeard
  BY Invariance, PTL DEF IInv

--------------------------------------------------------------------------------
(* Refinement of SentinelFeed.                                                 *)
Unfed == UNCHANGED <<Recorded, heard, Settled>>

LEMMA DeliverFeeds ==
    ASSUME IInv, NEW x \in Sender, Deliver(x) PROVE Feed!Next \/ Unfed
  <1>t. outbox \in [Event -> Row] /\ InHand(x) /\ Settled \subseteq heard
    BY DEF IInv, TypeOK, DeliveredWasHeard
  <1>1. CASE UNCHANGED <<outbox, heard>>
    BY <1>1 DEF Unfed, Recorded, Settled
  <1>2. CASE Accepted(x) \/ AnswerLost(x)
    <2>1. /\ call[x].now \in Recorded /\ heard' = heard \cup {call[x].now}
          /\ Recorded' = Recorded /\ Settled' = Settled
      BY <1>2, <1>t DEF Accepted, AnswerLost, Hears, InHand, Recorded, Settled
    <2>2. call[x].now \in Event
      BY <2>1 DEF Recorded
    <2>. QED  BY <2>1, <2>2 DEF Feed!Next, Feed!Hear
  <1>3. CASE MarkDelivered(x)
    <2>1. /\ call[x].now \in Recorded /\ call[x].now \in heard
          /\ call[x].now \in Event /\ heard' = heard
      BY <1>3, <1>t DEF MarkDelivered, InHand, Recorded, Returns
    <2>. DEFINE r == [outbox[call[x].now] EXCEPT !.status = "delivered"]
    <2>2. r \in Row /\ r.status = "delivered"
      BY <1>t, <2>1 DEF Row, Status
    <2>3. outbox' = [outbox EXCEPT ![call[x].now] = r]
      BY <1>3, <1>t, <2>1 DEF MarkDelivered, Row
    <2>. HIDE DEF r
    <2>4. Recorded' = Recorded /\ Settled' = Settled \cup {call[x].now}
      BY <2>1, <2>2, <2>3, RowWritten DEF IInv
    <2>. QED  BY <2>1, <2>4 DEF Feed!Next, Feed!Settle
  <1>4. CASE MarkRetrying(x)
    <2>1. call[x].now \in Recorded /\ call[x].now \in Event /\ heard' = heard
      BY <1>4, <1>t DEF MarkRetrying, InHand, Recorded, Returns
    <2>. DEFINE r == [outbox[call[x].now] EXCEPT !.status = "retrying", !.due = FALSE]
    <2>2. r \in Row /\ r.status = "retrying"
      BY <1>t, <2>1 DEF Row, Status
    <2>3. outbox' = [outbox EXCEPT ![call[x].now] = r]
      BY <1>4, <1>t, <2>1 DEF MarkRetrying, Row
    <2>. HIDE DEF r
    <2>4. Recorded' = Recorded /\ Settled' = Settled \ {call[x].now}
      BY <2>1, <2>2, <2>3, RowWritten DEF IInv
    <2>. QED  BY <2>1, <2>4 DEF Feed!Next, Feed!Reopen
  <1>. QED
    BY <1>1, <1>2, <1>3, <1>4
    DEF Deliver, NothingToSend, Post, Missed, MarkFails, Raises, Returns

LEMMA NextFeeds == IInv /\ [Next]_vars => [Feed!Next]_Feed!feed
  <1>. SUFFICES ASSUME IInv, [Next]_vars PROVE Feed!Next \/ Unfed
    BY DEF Unfed, Feed!feed
  <1>1. ASSUME NEW o \in Occurrence, Queue(o) PROVE Feed!Next
    <2>1. About[o] \in Event
      BY OutboxAssumption DEF OutboxAssumption
    <2>2. Recorded' = Recorded \cup {About[o]} /\ Settled' = Settled /\ heard' = heard
      BY <1>1, <2>1, RowQueued DEF Queue, IInv
    <2>. QED  BY <2>1, <2>2 DEF Feed!Next, Feed!Record
  <1>2. ASSUME NEW e \in Event, BecomesDue(e) PROVE Unfed
    <2>1. \A f \in Event : outbox'[f].status = outbox[f].status
      BY <1>2 DEF BecomesDue, IInv, TypeOK, Row
    <2>. QED  BY <1>2, <2>1 DEF BecomesDue, Unfed, Recorded, Settled
  <1>3. ASSUME UNCHANGED <<outbox, heard>> PROVE Unfed
    BY <1>3 DEF Unfed, Recorded, Settled
  <1>. QED
    BY <1>1, <1>2, <1>3, DeliverFeeds
    DEF Next, Raise, Occur, QueueFails, Conclude, Flush, Crash, vars

(* The outbox keeps what it promised SENTINEL: alerts are stored before they   *)
(* are heard and heard before they are closed, over every race and crash.      *)
THEOREM OutboxImplementsFeed == Spec => ImplementsFeed
  <1>1. Init => Feed!Init
    BY DEF Init, Feed!Init, Recorded, Settled
  <1>. QED
    BY <1>1, Invariance, NextFeeds, PTL DEF Spec, ImplementsFeed, Feed!Spec

================================================================================
