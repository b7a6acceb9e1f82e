----------------------------- MODULE AuditChain -----------------------------
(***************************************************************************)
(* The hash-chained audit log, and the locks its appends are taken under   *)
(* (src/app/audit.py and the handlers of src/app/main.py that append).     *)
(*                                                                         *)
(* A handler is one transaction.  It takes row locks one at a time, then   *)
(* the advisory lock with its first append, and keeps both to its end;     *)
(* SCIF entry calls JANUS and emergency revocation calls SENTINEL while    *)
(* holding them.  PostgreSQL aborts a transaction of a cycle of waits.     *)
(*                                                                         *)
(* Approvals and wrong session tokens are in ScifSession only: each holds  *)
(* one row and appends, and waits for no second row.                       *)
(***************************************************************************)
EXTENDS Naturals, FiniteSets

CONSTANTS
    Session,     \* the live SCIF sessions of one owner
    TwoPerson,   \* those under two-person control
    Entering,    \* calls of enter_scif_session
    Revoking,    \* calls of emergency_revoke_scif
    Noting,      \* calls that append one entry and lock no session row
    Own,         \* the session an entering call is for
    NoOne        \* no handler, no session

Handler == Entering \cup Revoking \cup Noting

ASSUME HandlerAssumption ==
    /\ TwoPerson \subseteq Session
    /\ Entering \cap Revoking = {}
    /\ Noting \cap (Entering \cup Revoking) = {}
    /\ Own \in [Entering -> Session]
    /\ NoOne \notin Handler \cup Session

VARIABLES
    at,          \* where each handler stands in its transaction
    todo,        \* the rows its UPDATE has still to reach
    aim,         \* the row its UPDATE waits for
    rowLock,     \* who has locked each session's row
    ender,       \* who ended the session, in its newest row version
    demoted,     \* the sessions that were put back to pending
    auditLock,   \* who holds the advisory lock of append_audit
    table,       \* vault_audit, uncommitted rows included
    seq          \* the last number its BIGSERIAL has given out

scan == <<todo, aim>>
rows == <<rowLock, ender, demoted>>
audit == <<auditLock, table, seq>>
vars == <<at, scan, rows, audit>>

(***************************************************************************)
(* An entry names its handler and the session it ended, or no session in   *)
(* the entry that concludes the handler.                                   *)
(***************************************************************************)
Body == Handler \X (Session \cup {NoOne})

Genesis == << >>

(* A collision-free hash: the hash of an entry is what went into it. *)
Digest(body, prev) == <<body, prev>>

Ended == {"committed", "refused", "abandoned"}
Stage == {"idle", "own", "rows", "ends", "janus", "last", "sentinel", "commit"} \cup Ended

Running(h) == at[h] \notin Ended \cup {"idle"}

(***************************************************************************)
(* Reading the chain.  READ COMMITTED: a statement of h sees the committed *)
(* rows and those h itself inserted.                                       *)
(***************************************************************************)
Committed == {n \in DOMAIN table : at[table[n].by] = "committed"}
Visible(h) == {n \in DOMAIN table : n \in Committed \/ table[n].by = h}

Before(S, n) == {m \in S : m < n}
Latest(S) == CHOOSE m \in S : \A k \in S : k <= m
HashUpTo(S) == IF S = {} THEN Genesis ELSE table[Latest(S)].hash

Sound(S, n) ==
    LET prev == HashUpTo(Before(S, n))
    IN  table[n].prev = prev /\ table[n].hash = Digest(table[n].body, prev)

(* verify_chain over the rows of S: it stops at the first unsound one. *)
ChainValid(S) == \A n \in S : Sound(S, n)

-----------------------------------------------------------------------------
(***************************************************************************)
(* append_audit: wait for the advisory lock, keep it to the end of the     *)
(* transaction, chain to the newest visible row.                           *)
(***************************************************************************)
AuditFree_Ignored(h) == auditLock \in Handler \cup {NoOne}
AuditFree(h) == auditLock \in {NoOne, h}

Head_CommittedOnly(h) == HashUpTo(Committed)
Head(h) == HashUpTo(Visible(h))

Append(h, s) ==
    /\ AuditFree(h)
    /\ auditLock' = h
    /\ seq' = seq + 1
    /\ table' = [n \in DOMAIN table \cup {seq + 1} |->
                    IF n = seq + 1
                    THEN [by |-> h, body |-> <<h, s>>,
                          prev |-> Head(h), hash |-> Digest(<<h, s>>, Head(h))]
                    ELSE table[n]]

(* The sessions h has ended and not yet written an entry about. *)
Owed(h) == {s \in Session : ender[s] = h /\ \A n \in DOMAIN table : table[n].body # <<h, s>>}

-----------------------------------------------------------------------------
Init ==
    /\ at = [h \in Handler |-> "idle"]
    /\ todo = [h \in Handler |-> {}]
    /\ aim = [h \in Handler |-> NoOne]
    /\ rowLock = [s \in Session |-> NoOne]
    /\ ender = [s \in Session |-> NoOne]
    /\ demoted = {}
    /\ auditLock = NoOne
    /\ table = [n \in {} |-> NoOne]
    /\ seq = 0

Move(h, stage) == at' = [at EXCEPT ![h] = stage]

(* A call arrives.  Revocation starts with its UPDATE, entry with its own row. *)
First(h) == CASE h \in Entering -> "own" [] h \in Revoking -> "rows" [] OTHER -> "last"

Begin(h) ==
    /\ at[h] = "idle"
    /\ Move(h, First(h))
    /\ todo' = [todo EXCEPT ![h] = IF h \in Revoking THEN Session ELSE {}]
    /\ UNCHANGED <<aim, rows, audit>>

(* SELECT ... FOR UPDATE: wait, lock, and read the row as it now is. *)
OwnRow(h) == at[h] = "own" /\ rowLock[Own[h]] = NoOne

Expired(s) == ender[s] # NoOne /\ at[ender[s]] = "refused"

Enterable_AsFirstRead(s) == s \notin demoted
Enterable(s) == ender[s] = NoOne /\ s \notin demoted

LockOwn(h) ==
    /\ OwnRow(h)
    /\ Enterable(Own[h])
    /\ rowLock' = [rowLock EXCEPT ![Own[h]] = h]
    /\ todo' = [todo EXCEPT ![h] = Session \ {Own[h]}]
    /\ Move(h, "rows")
    /\ UNCHANGED <<aim, ender, demoted, audit>>

(***************************************************************************)
(* _security_raise commits what a refusal has written, before any entry:   *)
(* the row expires (410), or a two-person row without fresh approvals goes *)
(* back to pending (409), in each case whatever its state was.             *)
(***************************************************************************)
Expire(h) ==
    /\ OwnRow(h)
    /\ ender' = [ender EXCEPT ![Own[h]] = h]
    /\ Move(h, "refused")
    /\ UNCHANGED <<scan, rowLock, demoted, audit>>

Demote(h) ==
    /\ OwnRow(h)
    /\ ~Expired(Own[h])
    /\ Own[h] \in TwoPerson
    /\ ender' = [ender EXCEPT ![Own[h]] = NoOne]
    /\ demoted' = demoted \cup {Own[h]}
    /\ Move(h, "refused")
    /\ UNCHANGED <<scan, rowLock, audit>>

(* 409: the session has ended, with its approvals fresh if it needs any: a *)
(* revocation would have deleted them.  The transaction rolls back.        *)
Refuse(h) ==
    /\ OwnRow(h)
    /\ ~Expired(Own[h])
    /\ ender[Own[h]] # NoOne
    /\ Own[h] \in TwoPerson => ender[Own[h]] \notin Revoking
    /\ Move(h, "abandoned")
    /\ UNCHANGED <<scan, rows, audit>>

(***************************************************************************)
(* The UPDATE of _supersede_other_scif_sessions or of the revocation: it   *)
(* reaches the rows in no given order, waits for each one's lock and then  *)
(* checks its WHERE clause again.                                          *)
(***************************************************************************)
Reach(h, s) ==
    /\ at[h] = "rows"
    /\ aim[h] = NoOne
    /\ s \in todo[h]
    /\ aim' = [aim EXCEPT ![h] = s]
    /\ todo' = [todo EXCEPT ![h] = @ \ {s}]
    /\ UNCHANGED <<at, rows, audit>>

StillLive_AsFirstRead(h, s) == h \in Revoking \/ s \notin demoted
StillLive(h, s) == ender[s] = NoOne /\ (h \in Revoking \/ s \notin demoted)

TakeRow(h, s) ==
    /\ at[h] = "rows"
    /\ aim[h] = s
    /\ s # NoOne
    /\ rowLock[s] = NoOne
    /\ aim' = [aim EXCEPT ![h] = NoOne]
    /\ IF StillLive(h, s)
       THEN /\ rowLock' = [rowLock EXCEPT ![s] = h]
            /\ ender' = [ender EXCEPT ![s] = h]
       ELSE UNCHANGED <<rowLock, ender>>
    /\ UNCHANGED <<at, todo, demoted, audit>>

RowsDone(h) ==
    /\ at[h] = "rows"
    /\ todo[h] = {}
    /\ aim[h] = NoOne
    /\ Move(h, "ends")
    /\ UNCHANGED <<scan, rows, audit>>

(* One entry for each row the UPDATE returned. *)
WriteEnd(h, s) ==
    /\ at[h] = "ends"
    /\ s \in Owed(h)
    /\ Append(h, s)
    /\ UNCHANGED <<at, scan, rows>>

AllWritten(h) == Owed(h) = {}

EndsDone(h) ==
    /\ at[h] = "ends"
    /\ AllWritten(h)
    /\ Move(h, IF h \in Entering THEN "janus" ELSE "last")
    /\ UNCHANGED <<scan, rows, audit>>

(* exchange_scif_handle has answered.  A refusal or a timeout is an Abandon. *)
JanusAnswers(h) ==
    /\ at[h] = "janus"
    /\ Move(h, "last")
    /\ UNCHANGED <<scan, rows, audit>>

(* The entry that concludes the handler. *)
Conclude(h) ==
    /\ at[h] = "last"
    /\ Append(h, NoOne)
    /\ Move(h, IF h \in Revoking THEN "sentinel" ELSE "commit")
    /\ UNCHANGED <<scan, rows>>

(* _notify_sentinel returns, whether SENTINEL was reached or not. *)
SentinelAnswers(h) ==
    /\ at[h] = "sentinel"
    /\ Move(h, "commit")
    /\ UNCHANGED <<scan, rows, audit>>

Release_KeepsAudit(h) ==
    /\ rowLock' = [s \in Session |-> IF rowLock[s] = h THEN NoOne ELSE rowLock[s]]
    /\ auditLock' = auditLock
Release(h) ==
    /\ rowLock' = [s \in Session |-> IF rowLock[s] = h THEN NoOne ELSE rowLock[s]]
    /\ auditLock' = IF auditLock = h THEN NoOne ELSE auditLock

Commit(h) ==
    /\ at[h] = "commit"
    /\ Move(h, "committed")
    /\ Release(h)
    /\ UNCHANGED <<scan, ender, demoted, table, seq>>

(* Rolling back: the inserted and updated rows are as they were; seq is not. *)
UndoRows(h) == ender' = [s \in Session |-> IF ender[s] = h THEN NoOne ELSE ender[s]]

UndoEntries_Autocommitted(h) == UNCHANGED table
UndoEntries(h) == table' = [n \in {m \in DOMAIN table : table[m].by # h} |-> table[n]]

Rollback(h) ==
    /\ Move(h, "abandoned")
    /\ Release(h)
    /\ UndoRows(h)
    /\ UndoEntries(h)
    /\ todo' = [todo EXCEPT ![h] = {}]
    /\ aim' = [aim EXCEPT ![h] = NoOne]
    /\ UNCHANGED <<demoted, seq>>

(* An exception, a refusal of JANUS, a crash or a lost connection. *)
Abandon(h) == Running(h) /\ Rollback(h)

-----------------------------------------------------------------------------
(***************************************************************************)
(* PostgreSQL's deadlock detector.  A waiter waits for one holder, so a    *)
(* set of waiters that wait for exactly each other is a union of cycles.   *)
(***************************************************************************)
Blocker(h) ==
    CASE at[h] = "own" -> rowLock[Own[h]]
      [] at[h] = "rows" /\ aim[h] # NoOne -> rowLock[aim[h]]
      [] at[h] = "last" \/ (at[h] = "ends" /\ Owed(h) # {}) ->
            IF AuditFree(h) THEN NoOne ELSE auditLock
      [] OTHER -> NoOne

InCycle(h) == \E S \in SUBSET Handler : h \in S /\ {Blocker(k) : k \in S} = S

Victim(h) == InCycle(h) /\ Rollback(h)

-----------------------------------------------------------------------------
Proceed(h) ==
    \/ LockOwn(h) \/ Expire(h) \/ Demote(h) \/ Refuse(h)
    \/ \E s \in Session : Reach(h, s) \/ TakeRow(h, s) \/ WriteEnd(h, s)
    \/ RowsDone(h) \/ EndsDone(h) \/ JanusAnswers(h)
    \/ Conclude(h) \/ SentinelAnswers(h) \/ Commit(h)

(* Every call has ended; the service waits for others. *)
Quiet == (\A h \in Handler : at[h] \in Ended) /\ UNCHANGED vars

Next ==
    \/ \E h \in Handler : Begin(h) \/ Proceed(h) \/ Abandon(h) \/ Victim(h)
    \/ Quiet

Spec == Init /\ [][Next]_vars

(***************************************************************************)
(* A handler that is not waiting runs on: its statements return, JANUS and *)
(* SENTINEL answer or time out.  The deadlock detector finds every cycle.  *)
(***************************************************************************)
Fairness ==
    /\ \A h \in Handler : WF_vars(Proceed(h))
    /\ WF_vars(\E h \in Handler : Victim(h))

LiveSpec == Spec /\ Fairness

-----------------------------------------------------------------------------
(* The variables keep to their types, and no entry of a rolled-back call is left. *)
TypeOK ==
    /\ at \in [Handler -> Stage]
    /\ todo \in [Handler -> SUBSET Session]
    /\ aim \in [Handler -> Session \cup {NoOne}]
    /\ rowLock \in [Session -> Handler \cup {NoOne}]
    /\ ender \in [Session -> Handler \cup {NoOne}]
    /\ demoted \subseteq TwoPerson
    /\ auditLock \in Handler \cup {NoOne}
    /\ seq \in Nat
    /\ DOMAIN table \subseteq 1..seq
    /\ \A n \in DOMAIN table :
          /\ table[n].by \in Handler
          /\ table[n].body \in Body
          /\ at[table[n].by] # "abandoned"

(***************************************************************************)
(* Whatever transactions run, wait, commit or roll back, verify_chain      *)
(* (audit.py:21-29) finds the committed log valid: no two entries chain to *)
(* the same one and none chains to an entry that was rolled back.          *)
(***************************************************************************)
ChainVerifies == ChainValid(Committed)

(***************************************************************************)
(* The log and the session rows agree (main.py:1953-1974, 2404-2444).  A   *)
(* call that ended a session has exactly one entry about it, the newest    *)
(* one.  Entries pile up only about a session that was put back to         *)
(* pending, and there are none about one that is live as it was created.   *)
(* A session that expires has no entry about it (main.py:2182-2184).       *)
(***************************************************************************)
EntriesAbout(s) == {n \in Committed : table[n].body[2] = s}
EndedBy(s) == IF ender[s] # NoOne /\ at[ender[s]] = "committed" THEN ender[s] ELSE NoOne
StillAsCreated(s) == EndedBy(s) = NoOne /\ ~Expired(s) /\ s \notin demoted

TrailMatchesRows ==
    \A s \in Session :
        /\ EndedBy(s) # NoOne =>
              \E n \in EntriesAbout(s) :
                  /\ table[n].by = EndedBy(s)
                  /\ \A m \in EntriesAbout(s) \ {n} : m < n /\ table[m].by # EndedBy(s)
        /\ s \notin demoted => \A m, n \in EntriesAbout(s) : m = n
        /\ StillAsCreated(s) => EntriesAbout(s) = {}

(***************************************************************************)
(* Of entries into different sessions of one owner at most one succeeds,   *)
(* until somebody approves again: each locks its own session first and the *)
(* other's second ("Allow only one live SCIF session per identity at a     *)
(* time", main.py:1952; the row lock at 2176, the state check at 2190).    *)
(***************************************************************************)
OneSessionEntered ==
    \A g, h \in Entering : at[g] = "committed" /\ at[h] = "committed" => Own[g] = Own[h]

(***************************************************************************)
(* The committed entries implement the log that readers are promised:      *)
(* entries only appear, whole handlers at a time and past the newest one,  *)
(* although numbers are drawn before the commit and lost by a rollback.    *)
(***************************************************************************)
Log == INSTANCE AuditLog WITH log <- [n \in Committed |-> table[n].body]
ImplementsLog == Log!Spec

(***************************************************************************)
(* Every call ends: no transaction waits for ever on the row locks, on the *)
(* advisory lock that JANUS and SENTINEL calls hold, or in a deadlock.     *)
(***************************************************************************)
EveryCallEnds == \A h \in Handler : at[h] # "idle" ~> at[h] \in Ended

=============================================================================
