----------------------------- MODULE SentinelOutbox ----------------------------
(***************************************************************************)
(* The durable queue of security alerts for UNG-SENTINEL: the rows of      *)
(* sentinel_outbox, the handlers that raise an alert (_notify_sentinel),   *)
(* the background worker and the operator's retry (_flush_sentinel_outbox) *)
(* and the delivery they share (_deliver_sentinel_outbox_event).           *)
(*                                                                         *)
(* A delivery reads its row in one transaction, posts with no lock held,   *)
(* and writes the outcome in another, so deliveries of one event overlap.  *)
(* SCIF handlers raise an alert inside their own open transaction,         *)
(* military handlers after it.  SENTINEL is configured (URL and secret).   *)
(***************************************************************************)
EXTENDS Naturals, FiniteSets

CONSTANTS
    Event,        \* event ids: hashes of an alert's content
    Occurrence,   \* security actions that raise an alert, each happens once
    About,        \* About[o]: the event id of the alert o raises
    Flusher,      \* the worker, operators' retries, the flush of a startup
    Worker,       \* the background thread among them
    Limit,        \* rows a flush takes
    Poison,       \* events SENTINEL always refuses
    NoEvent,      \* no row in hand
    MaxCrashes    \* bound on process crashes

Sender == Occurrence \cup Flusher

ASSUME OutboxAssumption ==
    /\ About \in [Occurrence -> Event]
    /\ Occurrence \cap Flusher = {}
    /\ Worker \in Flusher
    /\ IsFiniteSet(Event) /\ NoEvent \notin Event
    /\ Limit \in Nat \ {0}
    /\ Poison \subseteq Event
    /\ MaxCrashes \in Nat

\* "absent": no row.  due: next_attempt_at has passed.  born: rank of created_at.
Status == {"absent", "pending", "retrying", "delivered"}
Row == [status: Status, due: BOOLEAN, born: Nat]

\* Where a sender is.  "ready": before the next SELECT ... FOR UPDATE; "posting":
\* the request is out; "answered": a readable 2xx came; "failing": an exception
\* was caught; "returned": _notify_sentinel gave its answer; "error": an exception
\* left it; "done": the handler ended.
Place == {"idle", "raised", "ready", "posting", "answered", "failing",
          "returned", "error", "done"}
Call == [at: Place, now: Event \cup {NoEvent}, todo: SUBSET Event]

VARIABLES
    outbox,      \* outbox[e]: the row of sentinel_outbox
    call,        \* call[x]: where sender x is, the row it works on, those after it
    action,      \* action[o]: the transaction of the security action itself
    notified,    \* occurrences whose _notify_sentinel returned True
    heard,       \* events SENTINEL received
    crashes      \* process crashes so far

vars == <<outbox, call, action, notified, heard, crashes>>

TypeOK ==
    /\ outbox \in [Event -> Row]
    /\ call \in [Sender -> Call]
    /\ action \in [Occurrence -> {"none", "open", "committed", "undone"}]
    /\ notified \subseteq Occurrence
    /\ heard \subseteq Event
    /\ crashes \in 0 .. MaxCrashes

--------------------------------------------------------------------------------
(* Faulty twins, named <definition>_<fault>: bugs the properties must reject.  *)

\* A row marked with a status the schema does not know.
NewRow_Unknown == [status |-> "queued", due |-> TRUE, born |-> 1]

\* The worker only looks for rows never tried.
Backlog_PendingOnly == {e \in Event : outbox[e].due /\ outbox[e].status = "pending"}

--------------------------------------------------------------------------------
Recorded == {e \in Event : outbox[e].status # "absent"}
Settled == {e \in Event : outbox[e].status = "delivered"}

Init ==
    /\ outbox = [e \in Event |-> [status |-> "absent", due |-> FALSE, born |-> 0]]
    /\ call = [x \in Sender |-> [at |-> "idle", now |-> NoEvent, todo |-> {}]]
    /\ action = [o \in Occurrence |-> "none"]
    /\ notified = {} /\ heard = {}
    /\ crashes = 0

Goes(x, at, now, todo) ==
    call' = [call EXCEPT ![x] = [at |-> at, now |-> now, todo |-> todo]]
Stands(x, at, todo) == Goes(x, at, NoEvent, todo)
Turns(x, at) == Goes(x, at, call[x].now, call[x].todo)

\* The row a sender takes next: its rows come ORDER BY created_at.
Oldest(S) == {e \in S : \A f \in S : outbox[e].born <= outbox[f].born}

--------------------------------------------------------------------------------
(* Raising an alert.                                                           *)

\* A SCIF handler is still inside its transaction, a military one has committed.
Occur(o) ==
    /\ call[o].at = "idle"
    /\ Stands(o, "raised", {})
    /\ \E tx \in {"open", "committed"} : action' = [action EXCEPT ![o] = tx]
    /\ UNCHANGED <<outbox, notified, heard, crashes>>

NewRow == [status |-> "pending", due |-> TRUE, born |-> Cardinality(Recorded) + 1]

\* INSERT ... ON CONFLICT DO NOTHING.
Queued(e) ==
    IF e \in Recorded THEN outbox ELSE [outbox EXCEPT ![e] = NewRow]

Queue(o) ==
    /\ call[o].at = "raised"
    /\ outbox' = Queued(About[o])
    /\ Stands(o, "ready", {About[o]})
    /\ UNCHANGED <<action, notified, heard, crashes>>

\* The INSERT failed: the exception is swallowed and nothing is stored.
QueueFails(o) ==
    /\ call[o].at = "raised"
    /\ Stands(o, "returned", {})
    /\ UNCHANGED <<outbox, action, notified, heard, crashes>>

\* The handler goes on: its own transaction commits, or fails later.
Conclude(o) ==
    /\ call[o].at = "returned"
    /\ Stands(o, "done", {})
    /\ \E tx \in IF action[o] = "open" THEN {"committed", "undone"} ELSE {action[o]} :
          action' = [action EXCEPT ![o] = tx]
    /\ UNCHANGED <<outbox, notified, heard, crashes>>

--------------------------------------------------------------------------------
(* _flush_sentinel_outbox: the oldest due rows, read once.                     *)
Backlog == {e \in Event : outbox[e].due /\ outbox[e].status \in {"pending", "retrying"}}
Batch == {e \in Backlog :
            Cardinality({f \in Backlog : outbox[f].born < outbox[e].born}) < Limit}

Flush(x) ==
    /\ x \in Flusher
    /\ call[x].at = "idle"
    /\ Stands(x, IF Batch = {} THEN "idle" ELSE "ready", Batch)
    /\ UNCHANGED <<outbox, action, notified, heard, crashes>>

--------------------------------------------------------------------------------
(* _deliver_sentinel_outbox_event.                                             *)

\* It returns: a notifier answers its handler, a flush takes the next row.
Returns(x, delivered) ==
    /\ notified' = IF delivered THEN notified \cup ({x} \cap Occurrence) ELSE notified
    /\ UNCHANGED <<action, heard, crashes>>

Continues(x, rest) ==
    IF x \in Occurrence THEN Stands(x, "returned", {})
    ELSE Stands(x, IF rest = {} THEN "idle" ELSE "ready", rest)

\* Only a stored row that is not yet delivered is posted.
ToSend(e) == outbox[e].status \in {"pending", "retrying"}

\* No row: False.  A delivered one: True.
NothingToSend(x) ==
    /\ call[x].at = "ready"
    /\ \E e \in Oldest(call[x].todo) :
          /\ ~ToSend(e)
          /\ Continues(x, call[x].todo \ {e})
          /\ Returns(x, e \in Settled)
    /\ UNCHANGED outbox

Post(x) ==
    /\ call[x].at = "ready"
    /\ \E e \in Oldest(call[x].todo) :
          /\ ToSend(e)
          /\ Goes(x, "posting", e, call[x].todo \ {e})
    /\ UNCHANGED <<outbox, action, notified, heard, crashes>>

\* SENTINEL takes the alert; its answer arrives or is lost, late or unreadable.
Hears(x, at) ==
    /\ call[x].at = "posting"
    /\ call[x].now \notin Poison
    /\ heard' = heard \cup {call[x].now}
    /\ Turns(x, at)
    /\ UNCHANGED <<outbox, action, notified, crashes>>

Accepted(x) == Hears(x, "answered")
AnswerLost(x) == Hears(x, "failing")

\* Faulty: a request that came to nothing is taken for an answer.
Missed_TakenForAnswer(x) ==
    /\ call[x].at = "posting"
    /\ Turns(x, "answered")
    /\ UNCHANGED <<outbox, action, notified, heard, crashes>>

\* No connection, a refusal, the three second timeout.
Missed(x) ==
    /\ call[x].at = "posting"
    /\ Turns(x, "failing")
    /\ UNCHANGED <<outbox, action, notified, heard, crashes>>

\* Neither UPDATE looks at the status it replaces.
MarkDelivered(x) ==
    /\ call[x].at = "answered"
    /\ outbox' = [outbox EXCEPT ![call[x].now].status = "delivered"]
    /\ Continues(x, call[x].todo)
    /\ Returns(x, TRUE)

\* Faulty: the final return says True.
MarkRetrying_SaysTrue(x) ==
    /\ call[x].at = "failing"
    /\ outbox' = [outbox EXCEPT ![call[x].now].status = "retrying", ![call[x].now].due = FALSE]
    /\ Continues(x, call[x].todo)
    /\ Returns(x, TRUE)

MarkRetrying(x) ==
    /\ call[x].at = "failing"
    /\ outbox' = [outbox EXCEPT ![call[x].now].status = "retrying", ![call[x].now].due = FALSE]
    /\ Continues(x, call[x].todo)
    /\ Returns(x, FALSE)

\* The database refuses the UPDATE to delivered: the same except clause catches it.
MarkFails(x) ==
    /\ call[x].at = "answered"
    /\ Turns(x, "failing")
    /\ UNCHANGED <<outbox, action, notified, heard, crashes>>

\* The SELECT or the UPDATE to retrying fails: the exception leaves the delivery.
\* It ends a flush, and unwinds the handler and its open transaction.
Raises(x) ==
    /\ call[x].at \in {"ready", "failing"}
    /\ Stands(x, IF x \in Occurrence THEN "error" ELSE "idle", {})
    /\ action' = [o \in Occurrence |->
                     IF o = x /\ action[o] = "open" THEN "undone" ELSE action[o]]
    /\ UNCHANGED <<outbox, notified, heard, crashes>>

--------------------------------------------------------------------------------
BecomesDue(e) ==
    /\ e \in Recorded /\ ~outbox[e].due
    /\ outbox' = [outbox EXCEPT ![e].due = TRUE]
    /\ UNCHANGED <<call, action, notified, heard, crashes>>

\* The process dies and starts again: rows stay, every call and open transaction goes.
Crash ==
    /\ crashes < MaxCrashes
    /\ crashes' = crashes + 1
    /\ call' = [x \in Sender |->
                  [at |-> IF x \in Flusher \/ call[x].at = "idle" THEN "idle" ELSE "done",
                   now |-> NoEvent, todo |-> {}]]
    /\ action' = [o \in Occurrence |-> IF action[o] = "open" THEN "undone" ELSE action[o]]
    /\ UNCHANGED <<outbox, notified, heard>>

--------------------------------------------------------------------------------
Raise(o) == Occur(o) \/ Queue(o) \/ QueueFails(o) \/ Conclude(o)
Deliver(x) ==
    \/ NothingToSend(x) \/ Post(x) \/ Accepted(x) \/ AnswerLost(x) \/ Missed(x)
    \/ MarkDelivered(x) \/ MarkRetrying(x) \/ MarkFails(x) \/ Raises(x)

Next ==
    \/ \E o \in Occurrence : Raise(o)
    \/ \E x \in Flusher : Flush(x)
    \/ \E x \in Sender : Deliver(x)
    \/ \E e \in Event : BecomesDue(e)
    \/ Crash

Spec == Init /\ [][Next]_vars

DatabaseFails == \E x \in Sender : MarkFails(x) \/ Raises(x)

(* The worker polls for ever and rows come due.  Of the environment: the       *)
(* database stops failing, and SENTINEL, posted an alert it does not refuse    *)
(* again and again, takes it and answers some time.                            *)
LiveSpec ==
    /\ Spec
    /\ WF_vars(Flush(Worker)) /\ WF_vars(Deliver(Worker))
    /\ \A e \in Event : WF_vars(BecomesDue(e))
    /\ \A e \in Event \ Poison :
          SF_vars(\E x \in Sender : Accepted(x) /\ call[x].now = e)
    /\ <>[][~DatabaseFails]_vars

--------------------------------------------------------------------------------
(* A row called delivered was heard by SENTINEL, however many deliveries of it *)
(* overlapped, failed or died.                                                 *)
DeliveredWasHeard == Settled \subseteq heard

(* When _notify_sentinel answers True (sentinel_notified in the response),     *)
(* SENTINEL has heard of an event with that content.                           *)
NotifiedWasHeard == \A o \in notified : About[o] \in heard

(* A recorded alert that SENTINEL does not refuse is delivered in the end,     *)
(* over crashes, lost answers, database failures and refused older alerts.     *)
QueuedIsDelivered == \A e \in Event \ Poison : (e \in Recorded) ~> (e \in Settled)

\* The outbox is the feed SENTINEL was promised.
Feed == INSTANCE SentinelFeed WITH recorded <- Recorded, settled <- Settled

(* SENTINEL hears only of alerts that are stored, and a row is closed only     *)
(* after it was heard.                                                         *)
ImplementsFeed == Feed!Spec

================================================================================
