-------------------------- MODULE AuditChainProofs --------------------------
(***************************************************************************)
(* The audit chain verifies, agrees with the session rows and implements   *)
(* an append-only log, for any sessions and any calls.                     *)
(***************************************************************************)
EXTENDS AuditChain, FiniteSetTheorems, WellFoundedInduction, TLAPS

(* The stages in which a call may have entries of its own. *)
Writing == {"ends", "janus", "last", "sentinel", "commit"}

(* Those after its entries about the sessions that it ended. *)
Written == {"janus", "last", "sentinel", "commit", "committed"}

By(n) == table[n].by

(***************************************************************************)
(* A set of entries has a newest one: a table is finite.                   *)
(***************************************************************************)
HasLatest(S) == S # {} => \E m \in S : \A k \in S : k <= m
TableIsFinite == \A S \in SUBSET DOMAIN table : HasLatest(S)

(***************************************************************************)
(* Entries that are not committed are of the one holder of the advisory    *)
(* lock, and newer than every committed one.                               *)
(***************************************************************************)
EntriesOwned ==
    \A n \in DOMAIN table :
        /\ table[n].body[1] = By(n)
        /\ at[By(n)] \in Writing \cup {"committed"}
        /\ at[By(n)] # "committed" => auditLock = By(n)
        /\ \A m \in DOMAIN table :
              m < n /\ at[By(n)] = "committed" => at[By(m)] = "committed"

(* Soundness of an entry, with the table as a parameter. *)
HashIn(t, S) == IF S = {} THEN Genesis ELSE t[Latest(S)].hash
SoundIn(t, S, n) ==
    /\ t[n].prev = HashIn(t, Before(S, n))
    /\ t[n].hash = Digest(t[n].body, HashIn(t, Before(S, n)))

(* Every entry, committed or not, chains to the one before it. *)
Unbroken == \A n \in DOMAIN table : SoundIn(table, DOMAIN table, n)

(***************************************************************************)
(* An entry about a session is of the call that ended it, or of an earlier *)
(* one if the session was put back to pending or expired since.  The       *)
(* ender's entry is the newest and is there once it has written them all.  *)
(***************************************************************************)
EntriesOfEnders ==
    \A n \in DOMAIN table, s \in Session : table[n].body[2] = s =>
        \/ ender[s] = By(n)
        \/ at[By(n)] = "committed" /\ (s \in demoted \/ Expired(s))

EntriesDistinct ==
    \A m, n \in DOMAIN table : m # n /\ table[m].body = table[n].body => table[n].body[2] = NoOne

EntriesWritten ==
    \A s \in Session : ender[s] # NoOne /\ at[ender[s]] \in Written =>
        \E n \in DOMAIN table : table[n].body = <<ender[s], s>>

EnderNewest ==
    \A m, n \in DOMAIN table, s \in Session :
        m # n /\ table[m].body[2] = s /\ table[n].body[2] = s /\ By(n) = ender[s] => m < n

OneUnlessDemoted ==
    \A m, n \in DOMAIN table, s \in Session \ demoted :
        table[m].body[2] = s /\ table[n].body[2] = s => m = n

EntriesMatch ==
    /\ EntriesOfEnders /\ EntriesDistinct /\ EntriesWritten
    /\ EnderNewest /\ OneUnlessDemoted

(* A session is ended by a call that still has its row locked, or is over. *)
Over == {"committed", "refused"}

EndersHold ==
    \A s \in Session : ender[s] # NoOne =>
        /\ at[ender[s]] \in {"rows"} \cup Writing \cup Over
        /\ at[ender[s]] \notin Over => rowLock[s] = ender[s]

(***************************************************************************)
(* An entering call keeps its own row locked and live, and ends the other  *)
(* sessions of the owner or finds that nobody can enter them.              *)
(***************************************************************************)
EndedFor(g, s) ==
    \/ ender[s] # NoOne /\ (ender[s] = g \/ at[ender[s]] \in Over)
    \/ s \in demoted

EntryHolds ==
    \A g \in Entering :
        /\ at[g] \in {"rows"} \cup Writing => rowLock[Own[g]] = g /\ Enterable(Own[g])
        /\ at[g] = "rows" => Own[g] \notin todo[g] /\ aim[g] # Own[g]
        /\ at[g] \in {"idle", "own"} => aim[g] = NoOne
        /\ at[g] \in {"rows", "committed"} \cup Writing =>
              \A s \in Session \ {Own[g]} :
                  \/ (at[g] = "rows" /\ (s \in todo[g] \/ aim[g] = s))
                  \/ EndedFor(g, s)

IInv ==
    /\ TypeOK /\ TableIsFinite /\ EntriesOwned /\ Unbroken
    /\ EntriesMatch /\ EndersHold /\ EntryHolds /\ OneSessionEntered

-----------------------------------------------------------------------------
(* Entries. *)

LEMMA LatestIsIn ==
    ASSUME NEW S, S # {}, HasLatest(S)
    PROVE  Latest(S) \in S
BY DEF Latest, HasLatest

(* An entry stays sound while it and those before it stay as they are. *)
LEMMA SoundKept ==
    ASSUME NEW t, NEW u, NEW S, NEW T, NEW n,
           SoundIn(t, S, n), HasLatest(Before(S, n)), Before(T, n) = Before(S, n),
           u[n] = t[n], \A m \in Before(S, n) : u[m] = t[m]
    PROVE  SoundIn(u, T, n)
<1>1. CASE Before(S, n) = {}
  BY <1>1 DEF SoundIn, HashIn
<1>2. CASE Before(S, n) # {}
  <2>1. Latest(Before(S, n)) \in Before(S, n)
    BY <1>2, LatestIsIn
  <2>2. HashIn(u, Before(T, n)) = HashIn(t, Before(S, n))
    BY <2>1, <1>2 DEF HashIn
  <2> QED BY <2>2 DEF SoundIn
<1> QED BY <1>1, <1>2

(* A holder of the lock sees every entry. *)
LEMMA HolderSeesAll ==
    ASSUME TypeOK, EntriesOwned, NEW h \in Handler, AuditFree(h)
    PROVE  Visible(h) = DOMAIN table
BY HandlerAssumption DEF TypeOK, EntriesOwned, AuditFree, Visible, Committed, By

(* What append_audit does to the table. *)
LEMMA AppendAdds ==
    ASSUME TypeOK, EntriesOwned, NEW h \in Handler, NEW s, Append(h, s)
    PROVE  /\ AuditFree(h) /\ auditLock' = h /\ seq' = seq + 1
           /\ DOMAIN table' = DOMAIN table \cup {seq + 1}
           /\ \A n \in DOMAIN table : n # seq + 1 /\ n < seq + 1 /\ table'[n] = table[n]
           /\ table'[seq + 1].by = h /\ table'[seq + 1].body = <<h, s>>
           /\ table'[seq + 1].prev = HashIn(table, DOMAIN table)
           /\ table'[seq + 1].hash = Digest(<<h, s>>, HashIn(table, DOMAIN table))
<1>1. AuditFree(h) BY DEF Append
<1>2. Head(h) = HashIn(table, DOMAIN table)
  BY <1>1, HolderSeesAll DEF Head, HashUpTo, HashIn
<1>3. \A n \in DOMAIN table : n # seq + 1 /\ n < seq + 1
  BY DEF TypeOK
<1> QED BY <1>1, <1>2, <1>3 DEF Append

LEMMA AppendKeepsChain ==
    ASSUME IInv, NEW h \in Handler, NEW s, Append(h, s)
    PROVE  TableIsFinite' /\ Unbroken'
<1> USE DEF IInv
<1>0. /\ DOMAIN table' = DOMAIN table \cup {seq + 1}
      /\ \A n \in DOMAIN table : n # seq + 1 /\ n < seq + 1 /\ table'[n] = table[n]
      /\ table'[seq + 1].body = <<h, s>>
      /\ table'[seq + 1].prev = HashIn(table, DOMAIN table)
      /\ table'[seq + 1].hash = Digest(<<h, s>>, HashIn(table, DOMAIN table))
  BY AppendAdds
<1>a. seq \in Nat /\ DOMAIN table \subseteq 1..seq
  BY DEF TypeOK
<1>1. TableIsFinite'
  <2> SUFFICES ASSUME NEW S \in SUBSET (DOMAIN table \cup {seq + 1}), S # {}
               PROVE  \E m \in S : \A k \in S : k <= m
    BY <1>0 DEF TableIsFinite, HasLatest
  <2>1. CASE seq + 1 \in S
    <3>1. \A k \in S : k <= seq + 1
      BY <1>a
    <3> QED BY <2>1, <3>1
  <2>2. CASE seq + 1 \notin S
    BY <2>2 DEF TableIsFinite, HasLatest
  <2> QED BY <2>1, <2>2
<1>2. \A n \in DOMAIN table : SoundIn(table', DOMAIN table', n)
  <2> SUFFICES ASSUME NEW n \in DOMAIN table PROVE SoundIn(table', DOMAIN table', n)
    OBVIOUS
  <2>1. Before(DOMAIN table', n) = Before(DOMAIN table, n)
    BY <1>0, <1>a DEF Before
  <2>2. Before(DOMAIN table, n) \subseteq DOMAIN table
    BY DEF Before
  <2>3. SoundIn(table, DOMAIN table, n) /\ HasLatest(Before(DOMAIN table, n))
    BY <2>2 DEF Unbroken, TableIsFinite
  <2> QED BY <2>1, <2>2, <2>3, <1>0, SoundKept
<1>3. SoundIn(table', DOMAIN table', seq + 1)
  <2>1. Before(DOMAIN table', seq + 1) = DOMAIN table
    <3>1. \A m \in DOMAIN table : m < seq + 1
      BY <1>0
    <3>2. ~(seq + 1 < seq + 1)
      BY <1>a
    <3> QED BY <1>0, <3>1, <3>2 DEF Before
  <2>2. HashIn(table', DOMAIN table) = HashIn(table, DOMAIN table)
    <3>1. CASE DOMAIN table = {} BY <3>1 DEF HashIn
    <3>2. CASE DOMAIN table # {}
      <4>1. Latest(DOMAIN table) \in DOMAIN table
        BY <3>2, LatestIsIn DEF TableIsFinite
      <4> QED BY <4>1, <1>0 DEF HashIn
    <3> QED BY <3>1, <3>2
  <2> QED BY <2>1, <2>2, <1>0 DEF SoundIn
<1> QED BY <1>0, <1>1, <1>2, <1>3 DEF Unbroken

(* A call appends an entry; what it is about is its own, and new. *)
LEMMA AppendKeepsEntries ==
    ASSUME IInv, NEW h \in Handler, NEW s \in Session \cup {NoOne}, Append(h, s),
           at[h] \in Writing \cup {"last"},
           s \in Session => s \in Owed(h),
           at' = at \/ \E stage \in Writing : at' = [at EXCEPT ![h] = stage]
    PROVE  EntriesOwned'
<1> USE DEF IInv
<1>0. /\ AuditFree(h) /\ auditLock' = h
      /\ DOMAIN table' = DOMAIN table \cup {seq + 1}
      /\ \A n \in DOMAIN table : n # seq + 1 /\ n < seq + 1 /\ table'[n] = table[n]
      /\ table'[seq + 1].by = h /\ table'[seq + 1].body = <<h, s>>
  BY AppendAdds
<1>1. /\ at \in [Handler -> Stage] /\ seq \in Nat
      /\ \A n \in DOMAIN table : By(n) \in Handler
  BY DEF TypeOK, By
<1>2. \A k \in Handler : at'[k] = "committed" <=> at[k] = "committed"
  BY <1>1 DEF Writing
<1>3. at'[h] \in Writing
  BY <1>1 DEF Writing
<1>4. \A n \in DOMAIN table' : By(n)' = IF n = seq + 1 THEN h ELSE By(n)
  BY <1>0 DEF By
<1>5. \A n \in DOMAIN table' : table'[n].body[1] = By(n)'
  BY <1>0, <1>4 DEF EntriesOwned, By
<1>6. \A n \in DOMAIN table' : at'[By(n)'] \in Writing \cup {"committed"}
  BY <1>0, <1>1, <1>3, <1>4 DEF EntriesOwned
<1>7. \A n \in DOMAIN table' : at'[By(n)'] # "committed" => auditLock' = By(n)'
  BY <1>0, <1>1, <1>2, <1>4, HandlerAssumption DEF EntriesOwned, AuditFree
<1>8. \A n, m \in DOMAIN table' :
         m < n /\ at'[By(n)'] = "committed" => at'[By(m)'] = "committed"
  <2>1. ~(at'[h] = "committed")
    BY <1>3 DEF Writing
  <2>2. \A n \in DOMAIN table : ~(seq + 1 < n)
    BY <1>1 DEF TypeOK
  <2> QED BY <1>0, <1>1, <1>2, <1>4, <2>1, <2>2 DEF EntriesOwned
<1> QED BY <1>5, <1>6, <1>7, <1>8 DEF EntriesOwned

LEMMA AppendKeepsMatch ==
    ASSUME IInv, NEW h \in Handler, NEW s \in Session \cup {NoOne}, Append(h, s),
           at[h] \in Writing, s \in Session => s \in Owed(h),
           at' = at \/ (at[h] \in Written /\ \E stage \in Written : at' = [at EXCEPT ![h] = stage]),
           \A k \in Handler : (at'[k] = "committed" <=> at[k] = "committed")
                              /\ (at'[k] = "refused" <=> at[k] = "refused"),
           UNCHANGED rows
    PROVE  EntriesMatch'
<1> USE DEF IInv
<1>0. /\ DOMAIN table' = DOMAIN table \cup {seq + 1}
      /\ \A n \in DOMAIN table : n # seq + 1 /\ n < seq + 1 /\ table'[n] = table[n]
      /\ table'[seq + 1].by = h /\ table'[seq + 1].body = <<h, s>>
  BY AppendAdds
<1>1. /\ ender' = ender /\ demoted' = demoted
      /\ ender \in [Session -> Handler \cup {NoOne}] /\ at \in [Handler -> Stage]
      /\ \A n \in DOMAIN table : By(n) \in Handler
      /\ NoOne \notin Session /\ NoOne \notin Handler
  BY HandlerAssumption DEF TypeOK, rows, By
<1>2. \A k \in Handler : at'[k] \in Written => at[k] \in Written
  BY <1>1
<1>3. \A n \in DOMAIN table' : By(n)' = IF n = seq + 1 THEN h ELSE By(n)
  BY <1>0 DEF By
<1>4. s \in Session => ender[s] = h /\ \A n \in DOMAIN table : table[n].body # <<h, s>>
  BY DEF Owed
<1>5. \A t \in Session : Expired(t)' <=> Expired(t)
  BY <1>1 DEF Expired
<1>6. \A n \in DOMAIN table : s \in Session /\ table[n].body[2] = s =>
         By(n) # h /\ s \in demoted
  <2> SUFFICES ASSUME NEW n \in DOMAIN table, s \in Session, table[n].body[2] = s
               PROVE  By(n) # h /\ s \in demoted
    OBVIOUS
  <2>1. By(n) # h
    <3> SUFFICES ASSUME By(n) = h PROVE FALSE
      OBVIOUS
    <3>1. table[n].body \in Body /\ table[n].body[1] = h
      BY DEF TypeOK, EntriesOwned
    <3> QED BY <3>1, <1>4 DEF Body
  <2>2. ~Expired(s)
    BY <1>4 DEF Expired, Writing
  <2> QED BY <2>1, <2>2, <1>4 DEF EntriesMatch, EntriesOfEnders
<1>7. EntriesOfEnders'
  BY <1>0, <1>1, <1>3, <1>4, <1>5 DEF EntriesMatch, EntriesOfEnders
<1>8. EntriesDistinct'
  BY <1>0, <1>1, <1>4 DEF EntriesMatch, EntriesDistinct
<1>9. EntriesWritten'
  <2> SUFFICES ASSUME NEW t \in Session, ender[t] # NoOne, at[ender[t]] \in Written
               PROVE  \E n \in DOMAIN table' : table'[n].body = <<ender[t], t>>
    BY <1>1, <1>2 DEF EntriesWritten
  <2>1. PICK n \in DOMAIN table : table[n].body = <<ender[t], t>>
    BY DEF EntriesMatch, EntriesWritten
  <2> QED BY <2>1, <1>0
<1>10. EnderNewest'
  <2> SUFFICES ASSUME NEW m \in DOMAIN table', NEW n \in DOMAIN table', NEW t \in Session, m # n,
                      table'[m].body[2] = t, table'[n].body[2] = t, By(n)' = ender[t]
               PROVE  m < n
    BY <1>1 DEF EnderNewest
  <2>1. CASE n = seq + 1
    BY <2>1, <1>0
  <2>2. CASE n # seq + 1 /\ m # seq + 1
    BY <2>2, <1>0, <1>3 DEF EntriesMatch, EnderNewest
  <2>3. CASE n # seq + 1 /\ m = seq + 1
    <3>1. t = s /\ n \in DOMAIN table /\ table[n].body[2] = s
      BY <2>3, <1>0
    <3> QED BY <3>1, <2>3, <1>3, <1>4, <1>6
  <2> QED BY <2>1, <2>2, <2>3
<1>11. OneUnlessDemoted'
  <2> SUFFICES ASSUME NEW m \in DOMAIN table', NEW n \in DOMAIN table', NEW t \in Session \ demoted,
                      table'[m].body[2] = t, table'[n].body[2] = t
               PROVE  m = n
    BY <1>1 DEF OneUnlessDemoted
  <2>1. CASE m = seq + 1 \/ n = seq + 1
    BY <2>1, <1>0, <1>6
  <2>2. CASE m # seq + 1 /\ n # seq + 1
    BY <2>2, <1>0 DEF EntriesMatch, OneUnlessDemoted
  <2> QED BY <2>1, <2>2
<1> QED BY <1>7, <1>8, <1>9, <1>10, <1>11 DEF EntriesMatch

(* A call moves on, and writes neither rows nor entries. *)
LEMMA MatchKept ==
    ASSUME TypeOK, EntriesMatch, NEW h \in Handler, NEW stage, at' = [at EXCEPT ![h] = stage],
           at[h] \notin Over, stage # "refused",
           stage \in Written => at[h] \in Written \/ AllWritten(h),
           UNCHANGED <<table, ender, demoted>>
    PROVE  EntriesMatch'
<1>0. /\ at \in [Handler -> Stage] /\ ender \in [Session -> Handler \cup {NoOne}]
      /\ \A n \in DOMAIN table : By(n) \in Handler
      /\ at'[h] = stage /\ \A k \in Handler \ {h} : at'[k] = at[k]
  BY DEF TypeOK, By
<1>1. \A s \in Session : Expired(s)' <=> Expired(s)
  BY <1>0 DEF Expired, Over
<1>2. EntriesOfEnders'
  BY <1>0, <1>1 DEF EntriesMatch, EntriesOfEnders, By, Over
<1>3. EntriesDistinct' /\ EnderNewest' /\ OneUnlessDemoted'
  BY DEF EntriesMatch, EntriesDistinct, EnderNewest, OneUnlessDemoted, By
<1>4. EntriesWritten'
  <2>1. \A s \in Session : AllWritten(h) /\ ender[s] = h => \E n \in DOMAIN table : table[n].body = <<h, s>>
    BY DEF AllWritten, Owed
  <2> QED BY <1>0, <2>1 DEF EntriesMatch, EntriesWritten
<1> QED BY <1>2, <1>3, <1>4 DEF EntriesMatch

LEMMA MatchUnchanged ==
    ASSUME EntriesMatch, UNCHANGED <<at, table, ender, demoted>>
    PROVE  EntriesMatch'
BY DEF EntriesMatch, EntriesOfEnders, EntriesDistinct, EntriesWritten, EnderNewest,
       OneUnlessDemoted, Expired, By

-----------------------------------------------------------------------------
(* Rows. *)

(* A call that only moves on keeps what is said of rows. *)
LEMMA MovesOn ==
    ASSUME IInv, NEW h \in Handler, UNCHANGED <<scan, rows>>,
           at' = at \/ (at[h] \in Writing /\ \E stage \in Writing : at' = [at EXCEPT ![h] = stage])
    PROVE  EndersHold' /\ EntryHolds' /\ OneSessionEntered'
<1> USE DEF IInv
<1>0. /\ at \in [Handler -> Stage]
      /\ ender \in [Session -> Handler \cup {NoOne}]
      /\ Entering \subseteq Handler
  BY DEF TypeOK, Handler
<1>1. UNCHANGED <<todo, aim, rowLock, ender, demoted>>
  BY DEF scan, rows
<1>2. \A k \in Handler : \/ at'[k] = at[k]
                        \/ (at[k] \in Writing /\ at'[k] \in Writing)
  BY <1>0
<1>3. \A x \in Writing : x \notin {"rows", "committed", "refused", "idle", "own"}
  BY DEF Writing
<1>4. EndersHold'
  BY <1>0, <1>1, <1>2, <1>3 DEF EndersHold, Over
<1>5. \A g \in Entering, s \in Session : EndedFor(g, s) => EndedFor(g, s)'
  BY <1>0, <1>1, <1>2, <1>3 DEF EndedFor, Over
<1>6. EntryHolds'
  BY <1>0, <1>1, <1>2, <1>3, <1>5 DEF EntryHolds, Enterable
<1>7. OneSessionEntered'
  BY <1>0, <1>2, <1>3 DEF OneSessionEntered
<1> QED BY <1>4, <1>6, <1>7

(* A call without entries of its own that moves, and writes none. *)
LEMMA WritesNothing ==
    ASSUME IInv, NEW h \in Handler, NEW stage \in Stage,
           at' = [at EXCEPT ![h] = stage], UNCHANGED audit,
           at[h] \in {"idle", "own", "rows"}, stage # "committed"
    PROVE  TableIsFinite' /\ EntriesOwned' /\ Unbroken'
<1> USE DEF IInv
<1>0. /\ at \in [Handler -> Stage]
      /\ \A n \in DOMAIN table : By(n) \in Handler
      /\ UNCHANGED <<auditLock, table, seq>>
  BY DEF TypeOK, audit, By
<1>1. TableIsFinite' /\ Unbroken'
  BY <1>0 DEF TableIsFinite, Unbroken
<1>2. \A n \in DOMAIN table : By(n) # h
  BY DEF EntriesOwned, Writing
<1>3. EntriesOwned'
  BY <1>0, <1>2 DEF EntriesOwned, By
<1> QED BY <1>1, <1>3

-----------------------------------------------------------------------------
(* One lemma for each way a call moves. *)

LEMMA BeginSafe ==
    ASSUME IInv, NEW h \in Handler, Begin(h)
    PROVE  IInv'
<1> USE DEF IInv
<1>0. /\ at \in [Handler -> Stage] /\ todo \in [Handler -> SUBSET Session]
      /\ ender \in [Session -> Handler \cup {NoOne}]
      /\ Entering \subseteq Handler
      /\ at[h] = "idle"
      /\ UNCHANGED <<aim, rowLock, ender, demoted, auditLock, table, seq>>
  BY DEF TypeOK, Begin, rows, audit, Handler
<1>1. PICK stage \in {"own", "rows", "last"} :
         /\ at' = [at EXCEPT ![h] = stage]
         /\ h \in Entering => stage = "own"
         /\ stage = "own" => h \in Entering
  <2>1. h \in Entering => First(h) = "own"
    BY HandlerAssumption DEF First
  <2>2. h \notin Entering => First(h) \in {"rows", "last"}
    BY DEF First
  <2> QED BY <2>1, <2>2 DEF Begin, Move
<1>2. TypeOK'
  <2>1. stage \in Stage /\ stage # "abandoned"
    BY DEF Stage, Ended
  <2>2. todo' \in [Handler -> SUBSET Session]
    BY <1>0 DEF Begin
  <2> QED BY <1>0, <1>1, <2>1, <2>2 DEF TypeOK
<1>3. TableIsFinite' /\ EntriesOwned' /\ Unbroken'
  BY <1>0, <1>1, WritesNothing DEF Stage, Ended, audit
<1>4. \A s \in Session : ender[s] # h
  BY <1>0, HandlerAssumption DEF EndersHold, Over, Writing
<1>5. EntriesMatch'
  <2>1. AllWritten(h)
    BY <1>4 DEF AllWritten, Owed
  <2>2. stage # "refused" /\ at[h] \notin Over
    BY <1>0 DEF Over
  <2> QED BY <1>0, <1>1, <2>1, <2>2, MatchKept
<1>6. EndersHold'
  BY <1>0, <1>1, <1>4 DEF EndersHold, Over
<1>7. \A g \in Entering, s \in Session : EndedFor(g, s) => EndedFor(g, s)'
  BY <1>0, <1>1 DEF EndedFor, Over
<1>8. EntryHolds'
  <2> SUFFICES ASSUME NEW g \in Entering
      PROVE  /\ at'[g] \in {"rows"} \cup Writing => rowLock'[Own[g]] = g /\ Enterable(Own[g])'
             /\ at'[g] = "rows" => Own[g] \notin todo'[g] /\ aim'[g] # Own[g]
             /\ at'[g] \in {"idle", "own"} => aim'[g] = NoOne
             /\ at'[g] \in {"rows", "committed"} \cup Writing =>
                   \A s \in Session \ {Own[g]} :
                       \/ (at'[g] = "rows" /\ (s \in todo'[g] \/ aim'[g] = s))
                       \/ EndedFor(g, s)'
    BY DEF EntryHolds, Enterable
  <2>1. CASE g = h
    <3>1. at'[g] = "own" /\ aim'[g] = NoOne
      BY <2>1, <1>0, <1>1 DEF EntryHolds, Enterable
    <3> QED BY <3>1 DEF Writing
  <2>2. CASE g # h
    <3>1. at'[g] = at[g] /\ todo'[g] = todo[g]
      BY <2>2, <1>0, <1>1 DEF Begin
    <3> QED BY <3>1, <1>0, <1>7 DEF EntryHolds, Enterable
  <2> QED BY <2>1, <2>2
<1>9. OneSessionEntered'
  BY <1>0, <1>1 DEF OneSessionEntered
<1> QED BY <1>2, <1>3, <1>5, <1>6, <1>8, <1>9

LEMMA LockOwnSafe ==
    ASSUME IInv, NEW h \in Entering, LockOwn(h)
    PROVE  IInv'
<1> USE DEF IInv
<1>0. /\ at \in [Handler -> Stage] /\ todo \in [Handler -> SUBSET Session]
      /\ ender \in [Session -> Handler \cup {NoOne}]
      /\ rowLock \in [Session -> Handler \cup {NoOne}]
      /\ Entering \subseteq Handler /\ h \in Handler /\ Own \in [Entering -> Session]
      /\ at[h] = "own" /\ at' = [at EXCEPT ![h] = "rows"]
      /\ rowLock[Own[h]] = NoOne /\ ender[Own[h]] = NoOne /\ Own[h] \notin demoted
      /\ rowLock' = [rowLock EXCEPT ![Own[h]] = h]
      /\ todo' = [todo EXCEPT ![h] = Session \ {Own[h]}]
      /\ UNCHANGED <<aim, ender, demoted, auditLock, table, seq>>
  BY HandlerAssumption DEF TypeOK, LockOwn, OwnRow, Move, Enterable, audit, Handler
<1>1. NoOne \notin Handler /\ NoOne \notin Session
  BY HandlerAssumption
<1>2. TypeOK'
  <2>1. "rows" \in Stage /\ "rows" # "abandoned"
    BY DEF Stage, Ended
  <2> QED BY <1>0, <2>1 DEF TypeOK
<1>3. TableIsFinite' /\ EntriesOwned' /\ Unbroken'
  BY <1>0, WritesNothing DEF Stage, Ended, audit
<1>4. \A s \in Session : ender[s] # h
  BY <1>0, <1>1 DEF EndersHold, Over, Writing
<1>5. EntriesMatch'
  BY <1>0, MatchKept DEF Over, Written
<1>6. EndersHold'
  BY <1>0, <1>1, <1>4 DEF EndersHold, Over
<1>7. \A g \in Entering, s \in Session : EndedFor(g, s) => EndedFor(g, s)'
  BY <1>0, <1>4 DEF EndedFor, Over
<1>8. EntryHolds'
  <2> SUFFICES ASSUME NEW g \in Entering
      PROVE  /\ at'[g] \in {"rows"} \cup Writing => rowLock'[Own[g]] = g /\ Enterable(Own[g])'
             /\ at'[g] = "rows" => Own[g] \notin todo'[g] /\ aim'[g] # Own[g]
             /\ at'[g] \in {"idle", "own"} => aim'[g] = NoOne
             /\ at'[g] \in {"rows", "committed"} \cup Writing =>
                   \A s \in Session \ {Own[g]} :
                       \/ (at'[g] = "rows" /\ (s \in todo'[g] \/ aim'[g] = s))
                       \/ EndedFor(g, s)'
    BY DEF EntryHolds, Enterable
  <2>1. CASE g = h
    <3>1. aim'[g] = NoOne /\ at'[g] = "rows"
      BY <2>1, <1>0 DEF EntryHolds, Enterable
    <3> QED BY <2>1, <3>1, <1>0, <1>1 DEF Writing, Enterable
  <2>2. CASE g # h
    <3>1. at'[g] = at[g] /\ todo'[g] = todo[g]
      BY <2>2, <1>0
    <3>2. rowLock[Own[g]] = g => rowLock'[Own[g]] = g
      BY <1>0, <1>1
    <3> QED BY <3>1, <3>2, <1>0, <1>7 DEF EntryHolds, Enterable
  <2> QED BY <2>1, <2>2
<1>9. OneSessionEntered'
  BY <1>0 DEF OneSessionEntered
<1> QED BY <1>2, <1>3, <1>5, <1>6, <1>8, <1>9

LEMMA RefuseSafe ==
    ASSUME IInv, NEW h \in Handler, Refuse(h)
    PROVE  IInv'
<1> USE DEF IInv
<1>0. /\ at \in [Handler -> Stage]
      /\ ender \in [Session -> Handler \cup {NoOne}]
      /\ Entering \subseteq Handler
      /\ at[h] = "own" /\ at' = [at EXCEPT ![h] = "abandoned"]
      /\ UNCHANGED <<todo, aim, rowLock, ender, demoted, auditLock, table, seq>>
  BY DEF TypeOK, Refuse, OwnRow, Move, scan, rows, audit, Handler
<1>2. TypeOK'
  <2>1. "abandoned" \in Stage
    BY DEF Stage, Ended
  <2>2. \A n \in DOMAIN table : By(n) # h
    BY <1>0 DEF EntriesOwned, Writing
  <2> QED BY <1>0, <2>1, <2>2 DEF TypeOK, By
<1>3. TableIsFinite' /\ EntriesOwned' /\ Unbroken'
  BY <1>0, WritesNothing DEF Stage, Ended, audit
<1>4. \A s \in Session : ender[s] # h
  BY <1>0, HandlerAssumption DEF EndersHold, Over, Writing
<1>5. EntriesMatch'
  BY <1>0, MatchKept DEF Over, Written
<1>6. EndersHold'
  BY <1>0, <1>4 DEF EndersHold, Over
<1>7. \A g \in Entering, s \in Session : EndedFor(g, s) => EndedFor(g, s)'
  BY <1>0, <1>4 DEF EndedFor, Over
<1>8. EntryHolds'
  BY <1>0, <1>7 DEF EntryHolds, Enterable, Writing
<1>9. OneSessionEntered'
  BY <1>0 DEF OneSessionEntered
<1> QED BY <1>2, <1>3, <1>5, <1>6, <1>8, <1>9

(* A refusal that commits rewrites the call's own row, which nobody has locked. *)
LEMMA RefusalSafe ==
    ASSUME IInv, NEW h \in Entering, Expire(h) \/ Demote(h)
    PROVE  IInv'
<1> USE DEF IInv
<1>0. /\ at \in [Handler -> Stage]
      /\ ender \in [Session -> Handler \cup {NoOne}]
      /\ Entering \subseteq Handler /\ h \in Handler /\ Own \in [Entering -> Session]
      /\ at[h] = "own" /\ at' = [at EXCEPT ![h] = "refused"]
      /\ rowLock[Own[h]] = NoOne
      /\ UNCHANGED <<todo, aim, rowLock, auditLock, table, seq>>
      /\ NoOne \notin Handler
      /\ \A n \in DOMAIN table : By(n) \in Handler /\ By(n)' = By(n)
  BY HandlerAssumption DEF TypeOK, Expire, Demote, OwnRow, Move, scan, audit, Handler, By
<1>1. \/ ender' = [ender EXCEPT ![Own[h]] = h] /\ demoted' = demoted
      \/ /\ ender' = [ender EXCEPT ![Own[h]] = NoOne] /\ demoted' = demoted \cup {Own[h]}
         /\ Own[h] \in TwoPerson
  BY DEF Expire, Demote
<1>2. TypeOK'
  <2>1. "refused" \in Stage /\ "refused" # "abandoned"
    BY DEF Stage, Ended
  <2>2. ender' \in [Session -> Handler \cup {NoOne}] /\ demoted' \subseteq TwoPerson
    BY <1>0, <1>1 DEF TypeOK
  <2> QED BY <1>0, <2>1, <2>2 DEF TypeOK
<1>3. TableIsFinite' /\ EntriesOwned' /\ Unbroken'
  BY <1>0, WritesNothing DEF Stage, Ended, audit
<1>4. /\ \A s \in Session : ender[s] # h
      /\ \A n \in DOMAIN table : By(n) # h
  BY <1>0 DEF EndersHold, Over, EntriesOwned, Writing
<1>5. ender'[Own[h]] = h \/ (ender'[Own[h]] = NoOne /\ Own[h] \in demoted')
  BY <1>0, <1>1
<1>6. /\ \A s \in Session \ {Own[h]} : ender'[s] = ender[s] /\ (s \in demoted' <=> s \in demoted)
      /\ demoted \subseteq demoted'
  BY <1>0, <1>1
<1>7. \A s \in Session : Expired(s) => Expired(s)' \/ s = Own[h]
  BY <1>0, <1>4, <1>6 DEF Expired
<1>8. EntriesMatch'
  <2>1. \A n \in DOMAIN table : table[n].body[2] = Own[h] => at[By(n)] = "committed"
    <3> SUFFICES ASSUME NEW n \in DOMAIN table, table[n].body[2] = Own[h], ender[Own[h]] = By(n)
                 PROVE  at[By(n)] = "committed"
      BY <1>0 DEF EntriesMatch, EntriesOfEnders
    <3>1. at[By(n)] \in Over
      BY <1>0 DEF EndersHold
    <3>2. at[By(n)] \in Writing \cup {"committed"}
      BY DEF EntriesOwned
    <3> QED BY <3>1, <3>2 DEF Over, Writing
  <2>2. Own[h] \in demoted' \/ Expired(Own[h])'
    BY <1>0, <1>5 DEF Expired
  <2>3. EntriesOfEnders'
    <3> SUFFICES ASSUME NEW n \in DOMAIN table, NEW s \in Session, table[n].body[2] = s
                 PROVE  \/ ender'[s] = By(n)
                        \/ at'[By(n)] = "committed" /\ (s \in demoted' \/ Expired(s)')
      BY <1>0 DEF EntriesOfEnders
    <3>1. CASE s = Own[h]
      BY <3>1, <1>0, <1>4, <2>1, <2>2
    <3>2. CASE s # Own[h]
      BY <3>2, <1>0, <1>4, <1>6, <1>7 DEF EntriesMatch, EntriesOfEnders
    <3> QED BY <3>1, <3>2
  <2>4. EntriesWritten'
    <3>1. \A s \in Session : ender'[s] # NoOne /\ at'[ender'[s]] \in Written =>
             ender'[s] = ender[s] /\ at[ender[s]] \in Written
      <4> SUFFICES ASSUME NEW s \in Session, ender'[s] # NoOne, at'[ender'[s]] \in Written
                   PROVE  ender'[s] = ender[s] /\ at[ender[s]] \in Written
        OBVIOUS
      <4>1. s # Own[h]
        BY <1>0, <1>5 DEF Written
      <4> QED BY <4>1, <1>0, <1>4, <1>6
    <3> QED BY <1>0, <3>1 DEF EntriesMatch, EntriesWritten
  <2>5. EnderNewest'
    BY <1>0, <1>4, <1>5, <1>6 DEF EntriesMatch, EnderNewest
  <2>6. EntriesDistinct' /\ OneUnlessDemoted'
    BY <1>0, <1>6 DEF EntriesMatch, EntriesDistinct, OneUnlessDemoted
  <2> QED BY <2>3, <2>4, <2>5, <2>6 DEF EntriesMatch
<1>9. EndersHold'
  BY <1>0, <1>4, <1>5, <1>6 DEF EndersHold, Over
<1>10. \A g \in Entering, s \in Session : EndedFor(g, s) => EndedFor(g, s)'
  BY <1>0, <1>4, <1>5, <1>6 DEF EndedFor, Over
<1>11. EntryHolds'
  <2> SUFFICES ASSUME NEW g \in Entering
      PROVE  /\ at'[g] \in {"rows"} \cup Writing => rowLock[Own[g]] = g /\ Enterable(Own[g])'
             /\ at'[g] = "rows" => Own[g] \notin todo[g] /\ aim[g] # Own[g]
             /\ at'[g] \in {"idle", "own"} => aim[g] = NoOne
             /\ at'[g] \in {"rows", "committed"} \cup Writing =>
                   \A s \in Session \ {Own[g]} :
                       \/ (at'[g] = "rows" /\ (s \in todo[g] \/ aim[g] = s))
                       \/ EndedFor(g, s)'
    BY <1>0 DEF EntryHolds
  <2>1. CASE g = h
    BY <2>1, <1>0 DEF Writing
  <2>2. CASE g # h
    <3>1. at'[g] = at[g]
      BY <2>2, <1>0
    <3>2. rowLock[Own[g]] = g /\ Enterable(Own[g]) => Enterable(Own[g])'
      <4> SUFFICES ASSUME rowLock[Own[g]] = g, Enterable(Own[g]) PROVE Enterable(Own[g])'
        OBVIOUS
      <4>1. Own[g] # Own[h] /\ Own[g] \in Session
        BY <1>0
      <4> QED BY <4>1, <1>6 DEF Enterable
    <3> QED BY <3>1, <3>2, <1>10 DEF EntryHolds
  <2> QED BY <2>1, <2>2
<1>12. OneSessionEntered'
  BY <1>0 DEF OneSessionEntered
<1> QED BY <1>2, <1>3, <1>8, <1>9, <1>11, <1>12

LEMMA ReachSafe ==
    ASSUME IInv, NEW h \in Handler, NEW s \in Session, Reach(h, s)
    PROVE  IInv'
<1> USE DEF IInv
<1>0. /\ todo \in [Handler -> SUBSET Session] /\ aim \in [Handler -> Session \cup {NoOne}]
      /\ Entering \subseteq Handler /\ Own \in [Entering -> Session]
      /\ at[h] = "rows" /\ aim[h] = NoOne /\ s \in todo[h]
      /\ aim' = [aim EXCEPT ![h] = s]
      /\ todo' = [todo EXCEPT ![h] = todo[h] \ {s}]
      /\ UNCHANGED <<at, rowLock, ender, demoted, auditLock, table, seq>>
  BY HandlerAssumption DEF TypeOK, Reach, rows, audit, Handler
<1>1. NoOne \notin Session
  BY HandlerAssumption
<1>2. TypeOK'
  BY <1>0 DEF TypeOK
<1>3. TableIsFinite' /\ EntriesOwned' /\ Unbroken' /\ EndersHold'
  BY <1>0 DEF TableIsFinite, EntriesOwned, Unbroken, EndersHold, By
<1>m. EntriesMatch'
  BY <1>0, MatchUnchanged
<1>4. EntryHolds'
  <2> SUFFICES ASSUME NEW g \in Entering
      PROVE  /\ at[g] \in {"rows"} \cup Writing => rowLock[Own[g]] = g /\ Enterable(Own[g])
             /\ at[g] = "rows" => Own[g] \notin todo'[g] /\ aim'[g] # Own[g]
             /\ at[g] \in {"idle", "own"} => aim'[g] = NoOne
             /\ at[g] \in {"rows", "committed"} \cup Writing =>
                   \A t \in Session \ {Own[g]} :
                       \/ (at[g] = "rows" /\ (t \in todo'[g] \/ aim'[g] = t))
                       \/ EndedFor(g, t)
    BY <1>0 DEF EntryHolds, Enterable, EndedFor
  <2>1. CASE g = h
    BY <2>1, <1>0, <1>1 DEF EntryHolds, Enterable
  <2>2. CASE g # h
    <3>1. todo'[g] = todo[g] /\ aim'[g] = aim[g]
      BY <2>2, <1>0
    <3> QED BY <3>1 DEF EntryHolds, Enterable
  <2> QED BY <2>1, <2>2
<1>5. OneSessionEntered'
  BY <1>0 DEF OneSessionEntered
<1> QED BY <1>2, <1>3, <1>m, <1>4, <1>5

LEMMA TakeRowSafe ==
    ASSUME IInv, NEW h \in Handler, NEW s \in Session, TakeRow(h, s)
    PROVE  IInv'
<1> USE DEF IInv
<1>0. /\ at \in [Handler -> Stage]
      /\ aim \in [Handler -> Session \cup {NoOne}]
      /\ ender \in [Session -> Handler \cup {NoOne}]
      /\ rowLock \in [Session -> Handler \cup {NoOne}]
      /\ Entering \subseteq Handler /\ Own \in [Entering -> Session]
      /\ at[h] = "rows" /\ aim[h] = s /\ rowLock[s] = NoOne
      /\ aim' = [aim EXCEPT ![h] = NoOne]
      /\ UNCHANGED <<at, todo, demoted, auditLock, table, seq>>
  BY HandlerAssumption DEF TypeOK, TakeRow, audit, Handler
<1>1. NoOne \notin Handler /\ NoOne \notin Session
  BY HandlerAssumption
<1>2. \/ /\ ender[s] = NoOne
         /\ ender' = [ender EXCEPT ![s] = h] /\ rowLock' = [rowLock EXCEPT ![s] = h]
      \/ /\ ender[s] # NoOne \/ (h \notin Revoking /\ s \in demoted)
         /\ ender' = ender /\ rowLock' = rowLock
  BY DEF TakeRow, StillLive
<1>3. TypeOK'
  BY <1>0, <1>2 DEF TypeOK
<1>4. TableIsFinite' /\ EntriesOwned' /\ Unbroken'
  BY <1>0 DEF TableIsFinite, EntriesOwned, Unbroken, By
<1>5. \A t \in Session : ender[t] # NoOne => ender'[t] = ender[t]
  BY <1>0, <1>2
<1>6. \A t \in Session : ender'[t] # ender[t] => t = s /\ ender'[t] = h /\ rowLock'[t] = h
  BY <1>0, <1>2
<1>7. EntriesMatch'
  <2>1. \A n \in DOMAIN table : By(n) \in Handler /\ By(n)' = By(n) /\ (at[By(n)] = "committed" => By(n) # h)
    BY <1>0 DEF TypeOK, By
  <2>2. \A n \in DOMAIN table : By(n) # h
    BY <1>0 DEF EntriesOwned, Writing
  <2>3. \A t \in Session : Expired(t) => Expired(t)'
    BY <1>0, <1>5 DEF Expired
  <2>4. EntriesOfEnders'
    <3> SUFFICES ASSUME NEW n \in DOMAIN table, NEW t \in Session, table[n].body[2] = t
                 PROVE  ender'[t] = By(n) \/ (at[By(n)] = "committed" /\ (t \in demoted \/ Expired(t)'))
      BY <1>0, <2>1 DEF EntriesOfEnders
    <3> QED BY <1>1, <1>5, <2>1, <2>3 DEF EntriesMatch, EntriesOfEnders
  <2>5. \A t \in Session : ender'[t] # NoOne /\ at[ender'[t]] \in Written => ender'[t] = ender[t]
    BY <1>0, <1>6 DEF Written
  <2>6. EntriesWritten'
    BY <1>0, <2>5 DEF EntriesMatch, EntriesWritten
  <2>7. EnderNewest'
    BY <1>0, <1>6, <2>1, <2>2 DEF EntriesMatch, EnderNewest
  <2>8. EntriesDistinct' /\ OneUnlessDemoted'
    BY <1>0 DEF EntriesMatch, EntriesDistinct, OneUnlessDemoted
  <2> QED BY <2>4, <2>6, <2>7, <2>8 DEF EntriesMatch
<1>8. EndersHold'
  BY <1>0, <1>1, <1>2 DEF EndersHold, Over
<1>9. EndedFor(h, s)'
  <2>1. CASE ender'[s] # NoOne
    BY <2>1, <1>0, <1>1, <1>2 DEF EndersHold, EndedFor, Over
  <2>2. CASE ender'[s] = NoOne
    BY <2>2, <1>0, <1>1, <1>2 DEF EndedFor
  <2> QED BY <2>1, <2>2
<1>10. EntryHolds'
  <2> SUFFICES ASSUME NEW g \in Entering
      PROVE  /\ at[g] \in {"rows"} \cup Writing => rowLock'[Own[g]] = g /\ Enterable(Own[g])'
             /\ at[g] = "rows" => Own[g] \notin todo[g] /\ aim'[g] # Own[g]
             /\ at[g] \in {"idle", "own"} => aim'[g] = NoOne
             /\ at[g] \in {"rows", "committed"} \cup Writing =>
                   \A t \in Session \ {Own[g]} :
                       \/ (at[g] = "rows" /\ (t \in todo[g] \/ aim'[g] = t))
                       \/ EndedFor(g, t)'
    BY <1>0 DEF EntryHolds, Enterable
  <2>1. at[g] \in {"rows"} \cup Writing => Own[g] # s
    BY <1>0, <1>1 DEF EntryHolds, Enterable
  <2>2. at[g] \in {"rows"} \cup Writing => rowLock'[Own[g]] = g /\ Enterable(Own[g])'
    BY <2>1, <1>0, <1>2 DEF EntryHolds, Enterable
  <2>3. /\ at[g] = "rows" => Own[g] \notin todo[g] /\ aim'[g] # Own[g]
        /\ at[g] \in {"idle", "own"} => aim'[g] = NoOne
    BY <1>0, <1>1 DEF EntryHolds, Enterable
  <2>4. \A t \in Session : EndedFor(g, t) => EndedFor(g, t)'
    BY <1>0, <1>5 DEF EndedFor, Over
  <2>5. g = h => EndedFor(g, s)'
    BY <1>9
  <2>6. ASSUME at[g] \in {"rows", "committed"} \cup Writing, NEW t \in Session \ {Own[g]}
        PROVE  \/ (at[g] = "rows" /\ (t \in todo[g] \/ aim'[g] = t))
               \/ EndedFor(g, t)'
    <3>1. CASE g = h /\ t = s
      BY <3>1, <2>5
    <3>2. CASE g # h \/ t # s
      <4>1. aim[g] = t => aim'[g] = t
        BY <3>2, <1>0
      <4> QED BY <2>6, <4>1, <2>4 DEF EntryHolds, Enterable
    <3> QED BY <3>1, <3>2
  <2> QED BY <2>2, <2>3, <2>6
<1>11. OneSessionEntered'
  BY <1>0 DEF OneSessionEntered
<1> QED BY <1>3, <1>4, <1>7, <1>8, <1>10, <1>11

LEMMA RowsDoneSafe ==
    ASSUME IInv, NEW h \in Handler, RowsDone(h)
    PROVE  IInv'
<1> USE DEF IInv
<1>0. /\ at \in [Handler -> Stage]
      /\ ender \in [Session -> Handler \cup {NoOne}]
      /\ Entering \subseteq Handler /\ Own \in [Entering -> Session]
      /\ at[h] = "rows" /\ todo[h] = {} /\ aim[h] = NoOne
      /\ at' = [at EXCEPT ![h] = "ends"]
      /\ UNCHANGED <<todo, aim, rowLock, ender, demoted, auditLock, table, seq>>
  BY HandlerAssumption DEF TypeOK, RowsDone, Move, scan, rows, audit, Handler
<1>1. NoOne \notin Session
  BY HandlerAssumption
<1>2. TypeOK'
  <2>1. "ends" \in Stage /\ "ends" # "abandoned"
    BY DEF Stage
  <2> QED BY <1>0, <2>1 DEF TypeOK
<1>3. TableIsFinite' /\ EntriesOwned' /\ Unbroken'
  BY <1>0, WritesNothing DEF Stage, audit
<1>4. EntriesMatch'
  BY <1>0, MatchKept DEF Over, Written
<1>5. EndersHold'
  BY <1>0 DEF EndersHold, Over, Writing
<1>6. \A g \in Entering, s \in Session : EndedFor(g, s) => EndedFor(g, s)'
  BY <1>0 DEF EndedFor, Over
<1>7. EntryHolds'
  BY <1>0, <1>1, <1>6 DEF EntryHolds, Enterable, Writing
<1>8. OneSessionEntered'
  BY <1>0 DEF OneSessionEntered
<1> QED BY <1>2, <1>3, <1>4, <1>5, <1>7, <1>8

(* The calls of JANUS and SENTINEL return, and nothing is written. *)
LEMMA AnswerSafe ==
    ASSUME IInv, NEW h \in Handler, EndsDone(h) \/ JanusAnswers(h) \/ SentinelAnswers(h)
    PROVE  IInv'
<1> USE DEF IInv
<1>0. /\ at \in [Handler -> Stage]
      /\ ender \in [Session -> Handler \cup {NoOne}]
      /\ at[h] \in Writing
      /\ UNCHANGED <<scan, rows>>
      /\ UNCHANGED <<todo, aim, rowLock, ender, demoted, auditLock, table, seq>>
  BY DEF TypeOK, EndsDone, JanusAnswers, SentinelAnswers, scan, rows, audit, Writing
<1>1. PICK stage \in {"janus", "last", "commit"} : at' = [at EXCEPT ![h] = stage]
  BY DEF EndsDone, JanusAnswers, SentinelAnswers, Move
<1>2. stage \in Writing /\ stage \in Stage /\ stage # "abandoned"
  BY DEF Writing, Stage
<1>3. TypeOK'
  BY <1>0, <1>1, <1>2 DEF TypeOK
<1>4. EndersHold' /\ EntryHolds' /\ OneSessionEntered'
  BY <1>0, <1>1, <1>2, MovesOn
<1>5. TableIsFinite' /\ Unbroken'
  BY <1>0 DEF TableIsFinite, Unbroken
<1>6. EntriesOwned'
  <2>1. at'[h] # "committed" /\ at[h] # "committed"
    BY <1>0, <1>1, <1>2 DEF Writing
  <2>2. \A n \in DOMAIN table : By(n) \in Handler
    BY DEF TypeOK, By
  <2> QED BY <1>0, <1>1, <1>2, <2>1, <2>2 DEF EntriesOwned, By
<1>7. EntriesMatch'
  <2>1. at[h] \in Written \/ AllWritten(h)
    BY DEF EndsDone, JanusAnswers, SentinelAnswers, Written
  <2>2. at[h] \notin Over /\ stage # "refused"
    BY <1>0, <1>1 DEF Over, Writing
  <2> QED BY <1>0, <1>1, <2>1, <2>2, MatchKept
<1> QED BY <1>3, <1>4, <1>5, <1>6, <1>7

(* A call appends an entry, and may move on. *)
LEMMA AppendSafe ==
    ASSUME IInv, NEW h \in Handler, (\E s \in Session : WriteEnd(h, s)) \/ Conclude(h)
    PROVE  IInv'
<1> USE DEF IInv
<1>0. PICK about \in Session \cup {NoOne} :
         /\ Append(h, about)
         /\ at[h] \in Writing
         /\ about \in Session => about \in Owed(h)
         /\ \/ at' = at
            \/ (at[h] \in Written /\ \E stage \in Written \cap Writing : at' = [at EXCEPT ![h] = stage])
  <2>1. CASE \E s \in Session : WriteEnd(h, s)
    BY <2>1 DEF WriteEnd, Writing
  <2>2. CASE Conclude(h)
    <3>1. /\ Append(h, NoOne) /\ at[h] \in Writing /\ at[h] \in Written /\ NoOne \notin Session
      BY <2>2, HandlerAssumption DEF Conclude, Writing, Written
    <3>2. \E stage \in Written \cap Writing : at' = [at EXCEPT ![h] = stage]
      BY <2>2 DEF Conclude, Move, Writing, Written
    <3> QED BY <3>1, <3>2
  <2> QED BY <2>1, <2>2
<1>1. UNCHANGED <<scan, rows>>
  BY DEF WriteEnd, Conclude
<1>2. TypeOK'
  <2>1. /\ auditLock' = h /\ seq' = seq + 1
        /\ DOMAIN table' = DOMAIN table \cup {seq + 1}
        /\ \A n \in DOMAIN table : n # seq + 1 /\ table'[n] = table[n]
        /\ table'[seq + 1].by = h /\ table'[seq + 1].body = <<h, about>>
    BY <1>0, AppendAdds
  <2>2. seq' \in Nat /\ DOMAIN table' \subseteq 1..seq'
    BY <2>1 DEF TypeOK
  <2>3. /\ at' \in [Handler -> Stage]
        /\ \A k \in Handler : at'[k] = at[k] \/ at'[k] \in Writing
    BY <1>0 DEF TypeOK, Writing, Stage
  <2>4. at'[h] # "abandoned" /\ \A n \in DOMAIN table : at'[table[n].by] # "abandoned"
    BY <1>0, <2>3 DEF TypeOK, Writing
  <2>5. <<h, about>> \in Body
    BY DEF Body
  <2>6. \A n \in DOMAIN table' : /\ table'[n].by \in Handler /\ table'[n].body \in Body
                                /\ at'[table'[n].by] # "abandoned"
    BY <2>1, <2>4, <2>5 DEF TypeOK
  <2> QED BY <1>1, <2>1, <2>2, <2>3, <2>6 DEF TypeOK, scan, rows
<1>3. EndersHold' /\ EntryHolds' /\ OneSessionEntered'
  BY <1>0, <1>1, MovesOn
<1>4. TableIsFinite' /\ Unbroken'
  BY <1>0, AppendKeepsChain
<1>5. EntriesOwned'
  BY <1>0, AppendKeepsEntries
<1>6. EntriesMatch'
  <2>1. at \in [Handler -> Stage]
    BY DEF TypeOK
  <2>2. \A k \in Handler : (at'[k] = "committed" <=> at[k] = "committed")
                            /\ (at'[k] = "refused" <=> at[k] = "refused")
    BY <1>0, <2>1 DEF Writing
  <2>3. UNCHANGED rows
    BY <1>1
  <2>4. at' = at \/ (at[h] \in Written /\ \E stage \in Written : at' = [at EXCEPT ![h] = stage])
    BY <1>0
  <2> QED BY <1>0, <2>2, <2>3, <2>4, AppendKeepsMatch
<1> QED BY <1>2, <1>3, <1>4, <1>5, <1>6

(* The entries and the rows of a committing call become everybody's. *)
LEMMA CommitSafe ==
    ASSUME IInv, NEW h \in Handler, Commit(h)
    PROVE  IInv'
<1> USE DEF IInv
<1>0. /\ at \in [Handler -> Stage]
      /\ ender \in [Session -> Handler \cup {NoOne}]
      /\ rowLock \in [Session -> Handler \cup {NoOne}]
      /\ auditLock \in Handler \cup {NoOne}
      /\ Entering \subseteq Handler /\ Own \in [Entering -> Session]
      /\ at[h] = "commit" /\ at' = [at EXCEPT ![h] = "committed"]
      /\ rowLock' = [s \in Session |-> IF rowLock[s] = h THEN NoOne ELSE rowLock[s]]
      /\ auditLock' = IF auditLock = h THEN NoOne ELSE auditLock
      /\ UNCHANGED <<todo, aim, ender, demoted, table, seq>>
  BY HandlerAssumption DEF TypeOK, Commit, Move, Release, scan, Handler
<1>1. /\ \A n \in DOMAIN table : By(n) \in Handler
      /\ NoOne \notin Handler
  BY HandlerAssumption DEF TypeOK, By
<1>2. TypeOK'
  <2>1. "committed" \in Stage /\ "committed" # "abandoned"
    BY DEF Stage, Ended
  <2> QED BY <1>0, <2>1 DEF TypeOK
<1>3. TableIsFinite' /\ Unbroken'
  BY <1>0 DEF TableIsFinite, Unbroken
<1>4. EntriesOwned'
  <2>1. \A n \in DOMAIN table : /\ table[n].body[1] = By(n)
                               /\ at'[By(n)] \in Writing \cup {"committed"}
    BY <1>0, <1>1 DEF EntriesOwned
  <2>2. \A n \in DOMAIN table : at'[By(n)] # "committed" => auditLock' = By(n)
    BY <1>0, <1>1 DEF EntriesOwned
  <2>3. \A m, n \in DOMAIN table : m < n /\ at'[By(n)] = "committed" => at'[By(m)] = "committed"
    BY <1>0, <1>1 DEF EntriesOwned
  <2> QED BY <1>0, <2>1, <2>2, <2>3 DEF EntriesOwned, By
<1>5. EntriesMatch'
  BY <1>0, MatchKept DEF Over, Written
<1>6. EndersHold'
  BY <1>0 DEF EndersHold, Over
<1>7. \A g \in Entering, s \in Session : EndedFor(g, s) => EndedFor(g, s)'
  BY <1>0 DEF EndedFor, Over
<1>8. EntryHolds'
  <2> SUFFICES ASSUME NEW g \in Entering
      PROVE  /\ at'[g] \in {"rows"} \cup Writing => rowLock'[Own[g]] = g /\ Enterable(Own[g])'
             /\ at'[g] = "rows" => Own[g] \notin todo'[g] /\ aim'[g] # Own[g]
             /\ at'[g] \in {"idle", "own"} => aim'[g] = NoOne
             /\ at'[g] \in {"rows", "committed"} \cup Writing =>
                   \A s \in Session \ {Own[g]} :
                       \/ (at'[g] = "rows" /\ (s \in todo'[g] \/ aim'[g] = s))
                       \/ EndedFor(g, s)'
    BY DEF EntryHolds, Enterable
  <2>1. CASE g = h
    BY <2>1, <1>0, <1>7 DEF EntryHolds, Enterable, Writing
  <2>2. CASE g # h
    <3>1. at'[g] = at[g] /\ (rowLock[Own[g]] = g => rowLock'[Own[g]] = g)
      BY <2>2, <1>0
    <3> QED BY <3>1, <1>0, <1>7 DEF EntryHolds, Enterable
  <2> QED BY <2>1, <2>2
<1>9. OneSessionEntered'
  <2> SUFFICES ASSUME NEW g \in Entering, NEW k \in Entering, Own[g] # Own[k],
                      at'[g] = "committed", at'[k] = "committed"
               PROVE  FALSE
    BY <1>0 DEF OneSessionEntered
  <2>1. \A x, y \in Entering : x = h /\ y # h /\ at[y] = "committed" => Own[x] = Own[y]
    <3> SUFFICES ASSUME h \in Entering, NEW y \in Entering, y # h, at[y] = "committed", Own[h] # Own[y]
                 PROVE  FALSE
      OBVIOUS
    <3>1. ender[Own[h]] = NoOne /\ Own[h] \notin demoted
      BY <1>0 DEF EntryHolds, Enterable, Writing
    <3>2. EndedFor(y, Own[h])
      BY <1>0 DEF EntryHolds, Enterable
    <3> QED BY <3>1, <3>2 DEF EndedFor, Over
  <2> QED BY <1>0, <2>1 DEF OneSessionEntered
<1> QED BY <1>2, <1>3, <1>4, <1>5, <1>6, <1>8, <1>9

(* A rollback takes back what the call has written, which nobody has seen. *)
LEMMA RollbackSafe ==
    ASSUME IInv, NEW h \in Handler, Running(h), Rollback(h)
    PROVE  IInv'
<1> USE DEF IInv
<1>0. /\ at \in [Handler -> Stage]
      /\ ender \in [Session -> Handler \cup {NoOne}]
      /\ rowLock \in [Session -> Handler \cup {NoOne}]
      /\ auditLock \in Handler \cup {NoOne}
      /\ Entering \subseteq Handler /\ Own \in [Entering -> Session]
      /\ todo \in [Handler -> SUBSET Session] /\ aim \in [Handler -> Session \cup {NoOne}]
      /\ at[h] \notin {"idle", "committed", "refused", "abandoned"}
      /\ at' = [at EXCEPT ![h] = "abandoned"]
      /\ rowLock' = [s \in Session |-> IF rowLock[s] = h THEN NoOne ELSE rowLock[s]]
      /\ auditLock' = IF auditLock = h THEN NoOne ELSE auditLock
      /\ ender' = [s \in Session |-> IF ender[s] = h THEN NoOne ELSE ender[s]]
      /\ todo' = [todo EXCEPT ![h] = {}]
      /\ aim' = [aim EXCEPT ![h] = NoOne]
      /\ table' = [n \in {m \in DOMAIN table : table[m].by # h} |-> table[n]]
      /\ seq' = seq /\ demoted' = demoted
  BY HandlerAssumption DEF TypeOK, Rollback, Running, Ended, Move, Release, UndoRows, UndoEntries, Handler
<1>1. /\ \A n \in DOMAIN table : By(n) \in Handler
      /\ NoOne \notin Handler
  BY HandlerAssumption DEF TypeOK, By
<1>2. /\ DOMAIN table' \subseteq DOMAIN table
      /\ \A n \in DOMAIN table' : table'[n] = table[n] /\ By(n)' = By(n) /\ By(n) # h
      /\ \A n \in DOMAIN table : By(n) # h => n \in DOMAIN table'
  BY <1>0 DEF By
<1>3. TypeOK'
  <2>1. "abandoned" \in Stage
    BY DEF Stage, Ended
  <2>2. DOMAIN table' \subseteq 1..seq'
    BY <1>0, <1>2 DEF TypeOK
  <2>3. \A n \in DOMAIN table' : /\ table'[n].by \in Handler /\ table'[n].body \in Body
                                /\ at'[table'[n].by] # "abandoned"
    BY <1>0, <1>2 DEF TypeOK, By
  <2>4. /\ rowLock' \in [Session -> Handler \cup {NoOne}]
        /\ ender' \in [Session -> Handler \cup {NoOne}]
    BY <1>0
  <2> QED BY <1>0, <2>1, <2>2, <2>3, <2>4 DEF TypeOK
<1>4. TableIsFinite'
  BY <1>2 DEF TableIsFinite
<1>5. EntriesOwned'
  <2>1. \A n \in DOMAIN table' : at'[By(n)] = at[By(n)] /\ By(n) \in Handler
    BY <1>0, <1>1, <1>2
  <2>2. \A n \in DOMAIN table' : at[By(n)] # "committed" => auditLock' = By(n)
    BY <1>0, <1>2 DEF EntriesOwned
  <2> QED BY <1>2, <2>1, <2>2 DEF EntriesOwned
<1>6. Unbroken'
  <2> SUFFICES ASSUME NEW n \in DOMAIN table' PROVE SoundIn(table', DOMAIN table', n)
    BY DEF Unbroken
  <2>0. n \in DOMAIN table /\ By(n) # h
    BY <1>2
  <2>1. \A m \in DOMAIN table : m < n => By(m) # h
    <3> SUFFICES ASSUME NEW m \in DOMAIN table, m < n, By(m) = h PROVE FALSE
      OBVIOUS
    <3>1. auditLock = h
      BY <1>0 DEF EntriesOwned
    <3>2. at[By(n)] = "committed"
      BY <2>0, <3>1 DEF EntriesOwned
    <3>3. at[By(m)] = "committed"
      BY <2>0, <3>2 DEF EntriesOwned
    <3> QED BY <1>0, <3>3
  <2>2. Before(DOMAIN table', n) = Before(DOMAIN table, n)
    BY <2>1, <1>2 DEF Before
  <2>3. HasLatest(Before(DOMAIN table, n)) /\ SoundIn(table, DOMAIN table, n)
    BY <1>2 DEF TableIsFinite, Unbroken, Before
  <2>4. \A m \in Before(DOMAIN table, n) : table'[m] = table[m]
    BY <2>2, <1>2 DEF Before
  <2> QED BY <1>2, <2>2, <2>3, <2>4, SoundKept
<1>7. EntriesMatch'
  <2>1. \A t \in Session : Expired(t) => Expired(t)'
    BY <1>0 DEF Expired
  <2>2. \A t \in Session : ender[t] = h => ~Expired(t)
    BY <1>0 DEF Expired
  <2>3. EntriesOfEnders'
    <3> SUFFICES ASSUME NEW n \in DOMAIN table', NEW t \in Session, table'[n].body[2] = t
                 PROVE  ender'[t] = By(n)' \/ (at'[By(n)'] = "committed" /\ (t \in demoted \/ Expired(t)'))
      BY <1>0 DEF EntriesOfEnders
    <3>1. n \in DOMAIN table /\ table'[n] = table[n] /\ By(n)' = By(n) /\ By(n) # h
      BY <1>2
    <3>2. ender[t] = By(n) \/ (at[By(n)] = "committed" /\ (t \in demoted \/ Expired(t)))
      BY <3>1 DEF EntriesMatch, EntriesOfEnders
    <3> QED BY <1>0, <1>1, <2>1, <3>1, <3>2
  <2>4. EntriesDistinct'
    BY <1>2 DEF EntriesMatch, EntriesDistinct
  <2>5. EnderNewest'
    <3>1. \A t \in Session : ender'[t] # ender[t] => ender'[t] = NoOne
      BY <1>0
    <3>2. \A n \in DOMAIN table' : By(n)' # NoOne
      BY <1>1, <1>2
    <3> QED BY <1>2, <3>1, <3>2 DEF EntriesMatch, EnderNewest
  <2>6. OneUnlessDemoted'
    BY <1>0, <1>2 DEF EntriesMatch, OneUnlessDemoted
  <2>7. \A s \in Session : ender'[s] # NoOne => ender'[s] = ender[s] /\ ender[s] # h /\ ender[s] # NoOne
    BY <1>0
  <2>8. EntriesWritten'
    <3> SUFFICES ASSUME NEW s \in Session, ender'[s] # NoOne, at'[ender'[s]] \in Written
                 PROVE  \E n \in DOMAIN table' : table'[n].body = <<ender'[s], s>>
      BY DEF EntriesWritten
    <3>1. ender'[s] = ender[s] /\ ender[s] # h /\ at[ender[s]] \in Written
      BY <2>7, <1>0
    <3>2. PICK n \in DOMAIN table : table[n].body = <<ender[s], s>>
      BY <3>1, <2>7 DEF EntriesMatch, EntriesWritten
    <3>3. By(n) = ender[s]
      BY <3>2 DEF EntriesOwned
    <3> QED BY <3>1, <3>2, <3>3, <1>2
  <2> QED BY <2>3, <2>4, <2>5, <2>6, <2>8 DEF EntriesMatch
<1>8. EndersHold'
  BY <1>0 DEF EndersHold, Over
<1>9. \A g \in Entering, s \in Session : g # h /\ EndedFor(g, s) => EndedFor(g, s)'
  BY <1>0 DEF EndedFor, Over
<1>10. EntryHolds'
  <2> SUFFICES ASSUME NEW g \in Entering
      PROVE  /\ at'[g] \in {"rows"} \cup Writing => rowLock'[Own[g]] = g /\ Enterable(Own[g])'
             /\ at'[g] = "rows" => Own[g] \notin todo'[g] /\ aim'[g] # Own[g]
             /\ at'[g] \in {"idle", "own"} => aim'[g] = NoOne
             /\ at'[g] \in {"rows", "committed"} \cup Writing =>
                   \A s \in Session \ {Own[g]} :
                       \/ (at'[g] = "rows" /\ (s \in todo'[g] \/ aim'[g] = s))
                       \/ EndedFor(g, s)'
    BY DEF EntryHolds, Enterable
  <2>1. CASE g = h
    BY <2>1, <1>0 DEF Writing
  <2>2. CASE g # h
    <3>1. /\ at'[g] = at[g] /\ todo'[g] = todo[g] /\ aim'[g] = aim[g]
          /\ rowLock[Own[g]] = g => rowLock'[Own[g]] = g
          /\ Enterable(Own[g]) => Enterable(Own[g])'
      BY <2>2, <1>0 DEF Enterable
    <3> QED BY <2>2, <3>1, <1>9 DEF EntryHolds
  <2> QED BY <2>1, <2>2
<1>11. OneSessionEntered'
  BY <1>0 DEF OneSessionEntered
<1> QED BY <1>3, <1>4, <1>5, <1>6, <1>7, <1>8, <1>10, <1>11

-----------------------------------------------------------------------------
(* Only entering calls come to lock a row of their own. *)
OwnersEnter == \A h \in Handler : at[h] = "own" => h \in Entering

LEMMA InitSafe ==
    ASSUME Init
    PROVE  IInv /\ OwnersEnter
<1>0. DOMAIN table = {} /\ NoOne \notin Handler \cup Session
  BY HandlerAssumption DEF Init
<1>1. TypeOK
  BY <1>0 DEF Init, TypeOK, Stage
<1>2. TableIsFinite /\ EntriesOwned /\ Unbroken
  BY <1>0 DEF TableIsFinite, HasLatest, EntriesOwned, Unbroken
<1>3. EntriesMatch /\ EndersHold
  BY <1>0 DEF Init, EntriesMatch, EntriesOfEnders, EntriesDistinct, EntriesWritten,
             EnderNewest, OneUnlessDemoted, EndersHold
<1>4. EntryHolds /\ OneSessionEntered /\ OwnersEnter
  BY DEF Init, EntryHolds, OneSessionEntered, OwnersEnter, Enterable, Writing, Handler
<1> QED BY <1>1, <1>2, <1>3, <1>4 DEF IInv

LEMMA OwnersEnterKept ==
    ASSUME TypeOK, OwnersEnter, [Next]_vars
    PROVE  OwnersEnter'
<1>0. at \in [Handler -> Stage]
  BY DEF TypeOK
<1>1. CASE UNCHANGED vars
  BY <1>1 DEF vars, OwnersEnter
<1>2. ASSUME NEW h \in Handler, Begin(h) PROVE OwnersEnter'
  <2>1. First(h) = "own" => h \in Entering
    BY HandlerAssumption DEF First
  <2> QED BY <2>1, <1>0, <1>2 DEF Begin, Move, OwnersEnter
<1>3. ASSUME NEW h \in Handler, Proceed(h) \/ Abandon(h) \/ Victim(h) PROVE OwnersEnter'
  <2>1. at' = at \/ \E stage \in Stage \ {"own"} : at' = [at EXCEPT ![h] = stage]
    <3>1. CASE LockOwn(h) \/ Expire(h) \/ Demote(h) \/ Refuse(h)
      BY <3>1 DEF LockOwn, Expire, Demote, Refuse, Move, Stage, Ended
    <3>2. CASE \E s \in Session : Reach(h, s) \/ TakeRow(h, s) \/ WriteEnd(h, s)
      BY <3>2 DEF Reach, TakeRow, WriteEnd
    <3>3. CASE RowsDone(h) \/ EndsDone(h) \/ JanusAnswers(h)
      BY <3>3 DEF RowsDone, EndsDone, JanusAnswers, Move, Stage
    <3>4. CASE Conclude(h) \/ SentinelAnswers(h) \/ Commit(h)
      BY <3>4 DEF Conclude, SentinelAnswers, Commit, Move, Stage, Ended
    <3>5. CASE Abandon(h) \/ Victim(h)
      BY <3>5 DEF Abandon, Victim, Rollback, Move, Stage, Ended
    <3> QED BY <1>3, <3>1, <3>2, <3>3, <3>4, <3>5 DEF Proceed
  <2> QED BY <2>1, <1>0 DEF OwnersEnter
<1> QED BY <1>1, <1>2, <1>3 DEF Next, Quiet

(* What a waiting call waits for is held by a call, so it is running. *)
LEMMA VictimRuns ==
    ASSUME TypeOK, OwnersEnter, NEW h \in Handler, Victim(h)
    PROVE  Running(h)
<1>1. PICK S \in SUBSET Handler : h \in S /\ {Blocker(k) : k \in S} = S
  BY DEF Victim, InCycle
<1>2. Blocker(h) \in Handler
  BY <1>1
<1>3. Blocker(h) # NoOne
  BY <1>2, HandlerAssumption
<1>4. at[h] \in {"own", "rows", "ends", "last"}
  BY <1>3 DEF Blocker
<1> QED BY <1>4 DEF Running, Ended

LEMMA StepSafe ==
    ASSUME IInv, OwnersEnter, [Next]_vars
    PROVE  IInv'
<1>1. CASE UNCHANGED vars
  <2>0. UNCHANGED <<at, todo, aim, rowLock, ender, demoted, auditLock, table, seq>>
    BY <1>1 DEF vars, scan, rows, audit
  <2>1. TypeOK' /\ TableIsFinite' /\ EntriesOwned' /\ Unbroken'
    BY <2>0 DEF IInv, TypeOK, TableIsFinite, EntriesOwned, Unbroken, By
  <2>2. EntriesMatch' /\ EndersHold' /\ EntryHolds' /\ OneSessionEntered'
    BY <2>0, MatchUnchanged DEF IInv, EndersHold, EntryHolds, Enterable, EndedFor, OneSessionEntered
  <2> QED BY <2>1, <2>2 DEF IInv
<1>2. ASSUME NEW h \in Handler, Proceed(h) PROVE IInv'
  <2>1. CASE LockOwn(h)
    <3>1. h \in Entering
      BY <2>1 DEF LockOwn, OwnRow, OwnersEnter
    <3> QED BY <2>1, <3>1, LockOwnSafe
  <2>2. CASE Expire(h) \/ Demote(h) \/ Refuse(h)
    <3>1. h \in Entering
      BY <2>2 DEF Expire, Demote, Refuse, OwnRow, OwnersEnter
    <3> QED BY <2>2, <3>1, RefusalSafe, RefuseSafe
  <2>3. CASE \E s \in Session : Reach(h, s)
    BY <2>3, ReachSafe
  <2>4. CASE \E s \in Session : TakeRow(h, s)
    BY <2>4, TakeRowSafe
  <2>5. CASE (\E s \in Session : WriteEnd(h, s)) \/ Conclude(h)
    BY <2>5, AppendSafe
  <2>6. CASE RowsDone(h)
    BY <2>6, RowsDoneSafe
  <2>7. CASE EndsDone(h) \/ JanusAnswers(h) \/ SentinelAnswers(h)
    BY <2>7, AnswerSafe
  <2>8. CASE Commit(h)
    BY <2>8, CommitSafe
  <2> QED BY <1>2, <2>1, <2>2, <2>3, <2>4, <2>5, <2>6, <2>7, <2>8 DEF Proceed
<1>3. ASSUME NEW h \in Handler, Abandon(h) \/ Victim(h) PROVE IInv'
  <2>1. Running(h) /\ Rollback(h)
    <3>1. CASE Abandon(h) BY <3>1 DEF Abandon
    <3>2. CASE Victim(h) BY <3>2, VictimRuns DEF Victim, IInv
    <3> QED BY <1>3, <3>1, <3>2
  <2> QED BY <2>1, RollbackSafe
<1>4. ASSUME NEW h \in Handler, Begin(h) PROVE IInv'
  BY <1>4, BeginSafe
<1> QED BY <1>1, <1>2, <1>3, <1>4 DEF Next, Quiet

LEMMA Inductive == Spec => [](IInv /\ OwnersEnter)
<1>1. Init => IInv /\ OwnersEnter
  BY InitSafe
<1>2. IInv /\ OwnersEnter /\ [Next]_vars => (IInv /\ OwnersEnter)'
  BY StepSafe, OwnersEnterKept DEF IInv
<1> QED BY <1>1, <1>2, PTL DEF Spec

-----------------------------------------------------------------------------
(***************************************************************************)
(* In every transaction of SCIF entry, revocation and the calls that only  *)
(* append, the variables keep to their types: among them, no entry of a    *)
(* call that rolled back is ever left in the table (audit.py:12-19).       *)
(***************************************************************************)
THEOREM TypeCorrect == Spec => []TypeOK
<1>1. IInv => TypeOK
  BY DEF IInv
<1> QED BY <1>1, Inductive, PTL

(* Committed entries come first, so that what is sound in the table is     *)
(* sound among them.                                                       *)
LEMMA CommittedSound ==
    ASSUME IInv
    PROVE  ChainVerifies
<1> USE DEF IInv
<1> SUFFICES ASSUME NEW n \in Committed PROVE Sound(Committed, n)
  BY DEF ChainVerifies, ChainValid
<1>1. n \in DOMAIN table /\ at[By(n)] = "committed"
  BY DEF Committed, By
<1>2. Before(Committed, n) = Before(DOMAIN table, n)
  BY <1>1 DEF Before, Committed, EntriesOwned, By
<1>3. SoundIn(table, DOMAIN table, n) /\ HasLatest(Before(DOMAIN table, n))
  BY <1>1 DEF Unbroken, TableIsFinite, Before
<1>4. SoundIn(table, Committed, n)
  BY <1>2, <1>3, SoundKept
<1> QED BY <1>4 DEF SoundIn, Sound, HashIn, HashUpTo

(***************************************************************************)
(* verify_chain (audit.py:21-29) finds the committed log valid at any      *)
(* time, for any number of sessions and of concurrent transactions, any of *)
(* which may wait, roll back or be chosen as a deadlock's victim.          *)
(***************************************************************************)
THEOREM ChainSound == Spec => []ChainVerifies
<1>1. IInv => ChainVerifies
  BY CommittedSound
<1> QED BY <1>1, Inductive, PTL

LEMMA TrailFromRows ==
    ASSUME IInv
    PROVE  TrailMatchesRows
<1> USE DEF IInv
<1> SUFFICES ASSUME NEW s \in Session
             PROVE  /\ EndedBy(s) # NoOne =>
                          \E n \in EntriesAbout(s) :
                              /\ table[n].by = EndedBy(s)
                              /\ \A m \in EntriesAbout(s) \ {n} : m < n /\ table[m].by # EndedBy(s)
                    /\ s \notin demoted => \A m, n \in EntriesAbout(s) : m = n
                    /\ StillAsCreated(s) => EntriesAbout(s) = {}
  BY DEF TrailMatchesRows
<1>0. /\ ender \in [Session -> Handler \cup {NoOne}] /\ NoOne \notin Handler
      /\ NoOne \notin Session
      /\ \A n \in DOMAIN table : By(n) \in Handler
  BY HandlerAssumption DEF TypeOK, By
<1>1. \A n \in EntriesAbout(s) :
         n \in DOMAIN table /\ table[n].body[2] = s /\ at[By(n)] = "committed"
  BY DEF EntriesAbout, Committed, By
<1>2. ASSUME EndedBy(s) # NoOne
      PROVE  \E n \in EntriesAbout(s) :
                /\ table[n].by = EndedBy(s)
                /\ \A m \in EntriesAbout(s) \ {n} : m < n /\ table[m].by # EndedBy(s)
  <2>1. ender[s] # NoOne /\ at[ender[s]] = "committed" /\ EndedBy(s) = ender[s]
    BY <1>2 DEF EndedBy
  <2>2. PICK n \in DOMAIN table : table[n].body = <<ender[s], s>>
    BY <2>1 DEF EntriesMatch, EntriesWritten, Written
  <2>3. By(n) = ender[s] /\ n \in EntriesAbout(s)
    BY <2>1, <2>2 DEF EntriesOwned, EntriesAbout, Committed, By
  <2>4. ASSUME NEW m \in EntriesAbout(s) \ {n} PROVE m < n /\ By(m) # ender[s]
    <3>1. m \in DOMAIN table /\ table[m].body[2] = s /\ table[n].body[2] = s
      BY <1>1, <2>2
    <3>2. m < n
      BY <2>3, <2>4, <3>1 DEF EntriesMatch, EnderNewest
    <3>3. By(m) = ender[s] => n < m
      BY <2>4, <3>1 DEF EntriesMatch, EnderNewest
    <3>4. m \in Nat /\ n \in Nat
      BY <3>1 DEF TypeOK
    <3> QED BY <3>2, <3>3, <3>4
  <2> QED BY <2>1, <2>3, <2>4 DEF By
<1>3. s \notin demoted => \A m, n \in EntriesAbout(s) : m = n
  BY <1>1 DEF EntriesMatch, OneUnlessDemoted
<1>4. StillAsCreated(s) => EntriesAbout(s) = {}
  <2> SUFFICES ASSUME StillAsCreated(s), NEW n \in EntriesAbout(s) PROVE FALSE
    OBVIOUS
  <2>1. ender[s] = By(n)
    BY <1>1 DEF StillAsCreated, EntriesMatch, EntriesOfEnders
  <2>2. EndedBy(s) = ender[s] /\ ender[s] # NoOne
    BY <1>0, <1>1, <2>1 DEF EndedBy
  <2> QED BY <2>2 DEF StillAsCreated
<1> QED BY <1>2, <1>3, <1>4

(***************************************************************************)
(* A call that ended a session has exactly one entry about it, the newest  *)
(* one; a session that was never put back to pending has one at most, and  *)
(* none while it is live (main.py:1953-1974, 2182-2191, 2404-2444).        *)
(***************************************************************************)
THEOREM TrailSound == Spec => []TrailMatchesRows
<1>1. IInv => TrailMatchesRows
  BY TrailFromRows
<1> QED BY <1>1, Inductive, PTL

(***************************************************************************)
(* Of any number of entries into different sessions of one owner, at most  *)
(* one commits, in whatever order they lock the sessions' rows (main.py:   *)
(* 1952, 2176, 2190).                                                      *)
(***************************************************************************)
THEOREM OneEntered == Spec => []OneSessionEntered
<1>1. IInv => OneSessionEntered
  BY DEF IInv
<1> QED BY <1>1, Inductive, PTL

-----------------------------------------------------------------------------
(* What a step does to the committed entries. *)

LEMMA CommitExtends ==
    ASSUME IInv, IInv', NEW h \in Handler, Commit(h)
    PROVE  Log!Extend
<1> USE DEF IInv
<1>0. /\ at \in [Handler -> Stage] /\ at[h] = "commit"
      /\ at' = [at EXCEPT ![h] = "committed"] /\ table' = table
      /\ \A n \in DOMAIN table : By(n) \in Handler
      /\ DOMAIN table \subseteq 1..seq /\ seq \in Nat
  BY DEF TypeOK, Commit, Move, By
<1>1. Committed \subseteq Committed' /\ Committed' \subseteq DOMAIN table
  BY <1>0 DEF Committed, By
<1>2. \A n \in Committed, m \in Committed' \ Committed : n < m
  <2> SUFFICES ASSUME NEW n \in Committed, NEW m \in Committed' \ Committed PROVE n < m
    OBVIOUS
  <2>1. n \in DOMAIN table /\ m \in DOMAIN table /\ n # m
    BY <1>1 DEF Committed
  <2>2. at[By(n)] = "committed" /\ at[By(m)] # "committed"
    BY <2>1, <1>0 DEF Committed, By
  <2>3. ~(m < n)
    BY <2>1, <2>2 DEF EntriesOwned
  <2>4. n \in Nat /\ m \in Nat
    BY <2>1, <1>0
  <2> QED BY <2>1, <2>3, <2>4
<1>3. \A n \in Committed' : n \in Nat /\ table[n].body \in Body
  BY <1>0, <1>1 DEF TypeOK
<1> QED BY <1>0, <1>1, <1>2, <1>3 DEF Log!Extend, Log!LogTypeOK

LEMMA OthersHideTheirs ==
    ASSUME IInv, IInv', NEW h \in Handler,
           at[h] \notin Ended, at'[h] # "committed",
           \A k \in Handler \ {h} : at'[k] = at[k],
           \A n \in DOMAIN table : By(n) # h => n \in DOMAIN table' /\ table'[n] = table[n],
           \A n \in DOMAIN table' : n \notin DOMAIN table => By(n)' = h,
           \A n \in DOMAIN table' \cap DOMAIN table : table'[n] = table[n]
    PROVE  Committed' = Committed /\ \A n \in Committed : table'[n] = table[n]
<1>0. /\ \A n \in DOMAIN table : By(n) \in Handler
      /\ \A n \in DOMAIN table' : By(n)' \in Handler
      /\ at[h] # "committed"
  BY DEF IInv, TypeOK, By, Ended
<1>1. \A n \in Committed : n \in DOMAIN table /\ By(n) # h /\ at[By(n)] = "committed"
  BY <1>0 DEF Committed, By
<1>2. \A n \in Committed : n \in Committed' /\ table'[n] = table[n]
  BY <1>0, <1>1 DEF Committed, By
<1>3. \A n \in Committed' : n \in Committed
  <2> SUFFICES ASSUME NEW n \in Committed' PROVE n \in Committed
    OBVIOUS
  <2>1. n \in DOMAIN table' /\ at'[By(n)'] = "committed" /\ By(n)' # h
    BY DEF Committed, By
  <2>2. n \in DOMAIN table /\ table'[n] = table[n]
    BY <2>1
  <2>3. By(n)' = By(n)
    BY <2>2 DEF By
  <2> QED BY <2>1, <2>2, <2>3, <1>0 DEF Committed, By
<1> QED BY <1>2, <1>3

(* Only a commit changes what is committed. *)
LEMMA StepRefines ==
    ASSUME IInv, IInv', OwnersEnter, [Next]_vars
    PROVE  [Log!Extend]_([n \in Committed |-> table[n].body])
<1> DEFINE log == [n \in Committed |-> table[n].body]
<1>0. /\ at \in [Handler -> Stage]
      /\ \A n \in DOMAIN table : By(n) \in Handler
  BY DEF IInv, TypeOK, By
<1>s. ASSUME Committed' = Committed, \A n \in Committed : table'[n] = table[n]
      PROVE  log' = log
  BY <1>s
<1>1. ASSUME UNCHANGED <<at, table>> PROVE log' = log
  <2>1. Committed' = Committed
    BY <1>1 DEF Committed
  <2> QED BY <1>1, <2>1
<1>2. ASSUME NEW h \in Handler, at[h] \notin Ended,
             \E stage \in Stage \ {"committed"} : at' = [at EXCEPT ![h] = stage],
             UNCHANGED table
      PROVE  log' = log
  <2>1. /\ at'[h] # "committed" /\ \A k \in Handler \ {h} : at'[k] = at[k]
        /\ \A n \in DOMAIN table : n \in DOMAIN table' /\ table'[n] = table[n]
        /\ DOMAIN table' = DOMAIN table
    BY <1>2, <1>0
  <2>2. Committed' = Committed /\ \A n \in Committed : table'[n] = table[n]
    BY <1>2, <2>1, OthersHideTheirs
  <2> QED BY <2>2, <1>s
<1>3. ASSUME NEW h \in Handler, Begin(h) PROVE log' = log
  <2>1. \E stage \in Stage \ {"committed"} : at' = [at EXCEPT ![h] = stage]
    <3>1. First(h) \in {"own", "rows", "last"}
      BY DEF First
    <3> QED BY <1>3, <3>1 DEF Begin, Move, Stage
  <2> QED BY <1>2, <1>3, <2>1 DEF Begin, audit, Ended
<1>4. ASSUME NEW h \in Handler,
             LockOwn(h) \/ Expire(h) \/ Demote(h) \/ Refuse(h) \/ RowsDone(h) \/ EndsDone(h) \/ JanusAnswers(h) \/ SentinelAnswers(h)
      PROVE  log' = log
  <2>1. /\ at[h] \notin Ended /\ UNCHANGED table
        /\ \E stage \in Stage \ {"committed"} : at' = [at EXCEPT ![h] = stage]
    <3>1. CASE LockOwn(h) \/ Expire(h) \/ Demote(h) \/ Refuse(h)
      BY <3>1 DEF LockOwn, Expire, Demote, Refuse, OwnRow, Move, Stage, Ended, audit
    <3>2. CASE RowsDone(h) \/ EndsDone(h)
      BY <3>2 DEF RowsDone, EndsDone, Move, Stage, Ended, audit
    <3>3. CASE JanusAnswers(h) \/ SentinelAnswers(h)
      BY <3>3 DEF JanusAnswers, SentinelAnswers, Move, Stage, Ended, audit
    <3> QED BY <1>4, <3>1, <3>2, <3>3
  <2> QED BY <1>2, <2>1
<1>5. ASSUME NEW h \in Handler, \E s \in Session : Reach(h, s) \/ TakeRow(h, s)
      PROVE  log' = log
  <2>1. UNCHANGED <<at, table>>
    BY <1>5 DEF Reach, TakeRow, audit
  <2> QED BY <1>1, <2>1
<1>6. ASSUME NEW h \in Handler, (\E s \in Session : WriteEnd(h, s)) \/ Conclude(h)
      PROVE  log' = log
  <2>1. PICK about : Append(h, about) /\ at[h] \in {"ends", "last"}
    BY <1>6 DEF WriteEnd, Conclude
  <2>2. /\ DOMAIN table' = DOMAIN table \cup {seq + 1}
        /\ \A n \in DOMAIN table : table'[n] = table[n]
        /\ table'[seq + 1].by = h
    BY <2>1, AppendAdds DEF IInv
  <2>3. at[h] \notin Ended /\ at'[h] # "committed" /\ \A k \in Handler \ {h} : at'[k] = at[k]
    BY <1>6, <2>1, <1>0 DEF WriteEnd, Conclude, Move, Ended
  <2>4. \A n \in DOMAIN table' : n \notin DOMAIN table => By(n)' = h
    BY <2>2 DEF By
  <2>5. Committed' = Committed /\ \A n \in Committed : table'[n] = table[n]
    BY <2>2, <2>3, <2>4, OthersHideTheirs
  <2> QED BY <2>5, <1>s
<1>7. ASSUME NEW h \in Handler, Abandon(h) \/ Victim(h) PROVE log' = log
  <2>1. Running(h) /\ Rollback(h)
    <3>1. CASE Abandon(h) BY <3>1 DEF Abandon
    <3>2. CASE Victim(h) BY <3>2, VictimRuns DEF Victim, IInv
    <3> QED BY <1>7, <3>1, <3>2
  <2>2. at[h] \notin Ended /\ at'[h] # "committed" /\ \A k \in Handler \ {h} : at'[k] = at[k]
    BY <2>1, <1>0 DEF Running, Rollback, Move, Ended
  <2>3. table' = [n \in {m \in DOMAIN table : table[m].by # h} |-> table[n]]
    BY <2>1 DEF Rollback, UndoEntries
  <2>4. /\ \A n \in DOMAIN table : By(n) # h => n \in DOMAIN table' /\ table'[n] = table[n]
        /\ DOMAIN table' \subseteq DOMAIN table
        /\ \A n \in DOMAIN table' : table'[n] = table[n]
    BY <2>3 DEF By
  <2>5. Committed' = Committed /\ \A n \in Committed : table'[n] = table[n]
    BY <2>2, <2>4, OthersHideTheirs
  <2> QED BY <2>5, <1>s
<1>8. ASSUME NEW h \in Handler, Commit(h) PROVE Log!Extend
  BY <1>8, CommitExtends
<1>9. CASE UNCHANGED vars
  <2>1. UNCHANGED <<at, table>>
    BY <1>9 DEF vars, audit
  <2> QED BY <1>1, <2>1
<1>10. CASE Next
  <2>1. CASE Quiet
    BY <2>1, <1>9 DEF Quiet
  <2>2. ASSUME NEW h \in Handler, Begin(h) \/ Proceed(h) \/ Abandon(h) \/ Victim(h)
        PROVE  Log!Extend \/ log' = log
    <3>1. CASE Proceed(h)
      BY <3>1, <1>4, <1>5, <1>6, <1>8 DEF Proceed
    <3> QED BY <2>2, <3>1, <1>3, <1>7
  <2> QED BY <1>10, <2>1, <2>2 DEF Next
<1> QED BY <1>9, <1>10

(***************************************************************************)
(* The committed entries are an append-only log: a commit adds its entries *)
(* past the newest one that could be read before, and no other step of any *)
(* transaction shows to a reader (audit.py:12-19, 21-29).                  *)
(***************************************************************************)
THEOREM ChainImplementsLog == Spec => ImplementsLog
<1>1. Init => Log!Init
  BY DEF Init, Log!Init, Committed
<1>2. IInv /\ OwnersEnter /\ (IInv /\ OwnersEnter)' /\ [Next]_vars
         => [Log!Extend]_([n \in Committed |-> table[n].body])
  BY StepRefines
<1> QED BY <1>1, <1>2, Inductive, PTL DEF Spec, ImplementsLog, Log!Spec

-----------------------------------------------------------------------------
(***************************************************************************)
(* Waiting.  Locks are held by running calls, and finitely many run at a   *)
(* time.                                                                   *)
(***************************************************************************)
LocksHeld ==
    /\ \A s \in Session : rowLock[s] # NoOne => at[rowLock[s]] \in {"rows"} \cup Writing
    /\ auditLock # NoOne => at[auditLock] \in Writing

AllRunning == {h \in Handler : Running(h)}

WaitInv == LocksHeld /\ IsFiniteSet(AllRunning)

(* One call moves on, and has at its new stage the locks it may have there. *)
LEMMA LocksKept ==
    ASSUME TypeOK, WaitInv, NEW h \in Handler, NEW stage, at' = [at EXCEPT ![h] = stage],
           \A s \in Session : rowLock'[s] \in {rowLock[s], NoOne, h},
           \A s \in Session : rowLock'[s] = h => stage \in {"rows"} \cup Writing,
           auditLock' \in {auditLock, NoOne, h},
           auditLock' = h => stage \in Writing
    PROVE  WaitInv'
<1>1. /\ at'[h] = stage /\ \A k \in Handler \ {h} : at'[k] = at[k]
      /\ \A s \in Session : rowLock[s] \in Handler \cup {NoOne}
      /\ auditLock \in Handler \cup {NoOne}
  BY DEF TypeOK
<1>2. LocksHeld'
  <2>1. \A s \in Session : rowLock'[s] # NoOne => at'[rowLock'[s]] \in {"rows"} \cup Writing
    BY <1>1 DEF WaitInv, LocksHeld
  <2>2. auditLock' # NoOne => at'[auditLock'] \in Writing
    BY <1>1 DEF WaitInv, LocksHeld
  <2> QED BY <2>1, <2>2 DEF LocksHeld
<1>3. AllRunning' \in SUBSET (AllRunning \cup {h})
  BY <1>1 DEF AllRunning, Running
<1>4. IsFiniteSet(AllRunning \cup {h})
  BY FS_AddElement DEF WaitInv
<1> QED BY <1>2, <1>3, <1>4, FS_Subset DEF WaitInv

LEMMA WaitInvKept ==
    ASSUME IInv, OwnersEnter, WaitInv, [Next]_vars
    PROVE  WaitInv'
<1>0. /\ TypeOK /\ at \in [Handler -> Stage] /\ NoOne \notin Handler
      /\ rowLock \in [Session -> Handler \cup {NoOne}]
  BY HandlerAssumption DEF IInv, TypeOK
<1>1. ASSUME UNCHANGED <<at, rowLock, auditLock>> PROVE WaitInv'
  BY <1>1 DEF WaitInv, LocksHeld, AllRunning, Running
<1>2. ASSUME NEW h \in Handler, NEW stage, at' = [at EXCEPT ![h] = stage],
             UNCHANGED <<rowLock, auditLock>>,
             \/ at[h] \notin {"rows"} \cup Writing
             \/ stage \in Writing
      PROVE  WaitInv'
  <2>1. \A s \in Session : rowLock[s] = h => at[h] \in {"rows"} \cup Writing
    BY <1>0 DEF WaitInv, LocksHeld
  <2>2. auditLock = h => at[h] \in Writing
    BY <1>0 DEF WaitInv, LocksHeld
  <2> QED BY <1>0, <1>2, <2>1, <2>2, LocksKept
<1>3. ASSUME NEW h \in Handler, Begin(h) \/ Expire(h) \/ Demote(h) \/ Refuse(h) PROVE WaitInv'
  <2>1. /\ UNCHANGED <<rowLock, auditLock>> /\ at[h] \in {"idle", "own"}
        /\ \E stage : at' = [at EXCEPT ![h] = stage]
    BY <1>3 DEF Begin, Expire, Demote, Refuse, OwnRow, Move, rows, audit
  <2> QED BY <1>2, <2>1 DEF Writing
<1>4. ASSUME NEW h \in Handler, RowsDone(h) \/ EndsDone(h) \/ JanusAnswers(h) \/ SentinelAnswers(h)
      PROVE  WaitInv'
  <2>1. /\ UNCHANGED <<rowLock, auditLock>>
        /\ \E stage \in Writing : at' = [at EXCEPT ![h] = stage]
    <3>1. CASE RowsDone(h) \/ EndsDone(h)
      BY <3>1 DEF RowsDone, EndsDone, Move, rows, audit, Writing
    <3>2. CASE JanusAnswers(h) \/ SentinelAnswers(h)
      BY <3>2 DEF JanusAnswers, SentinelAnswers, Move, rows, audit, Writing
    <3> QED BY <1>4, <3>1, <3>2
  <2> QED BY <1>2, <2>1
<1>5. ASSUME NEW h \in Handler, LockOwn(h) PROVE WaitInv'
  <2>1. /\ at' = [at EXCEPT ![h] = "rows"] /\ auditLock' = auditLock
        /\ rowLock' = [rowLock EXCEPT ![Own[h]] = h] /\ at[h] = "own"
    BY <1>5 DEF LockOwn, OwnRow, Move, audit
  <2>2. \A s \in Session : rowLock'[s] \in {rowLock[s], h}
    BY <1>0, <2>1
  <2>3. auditLock # h
    BY <1>0, <2>1 DEF WaitInv, LocksHeld, Writing
  <2> QED BY <1>0, <2>1, <2>2, <2>3, LocksKept
<1>6. ASSUME NEW h \in Handler, NEW s \in Session, Reach(h, s) \/ TakeRow(h, s) PROVE WaitInv'
  <2>1. CASE Reach(h, s)
    BY <2>1, <1>1 DEF Reach, rows, audit
  <2>2. CASE TakeRow(h, s)
    <3>1. /\ at[h] = "rows" /\ at' = [at EXCEPT ![h] = "rows"] /\ auditLock' = auditLock
          /\ rowLock' \in {rowLock, [rowLock EXCEPT ![s] = h]}
      BY <2>2, <1>0 DEF TakeRow, rows, audit
    <3>2. \A t \in Session : rowLock'[t] \in {rowLock[t], h}
      BY <1>0, <3>1
    <3>3. auditLock # h
      BY <1>0, <3>1 DEF WaitInv, LocksHeld, Writing
    <3> QED BY <1>0, <3>1, <3>2, <3>3, LocksKept
  <2> QED BY <1>6, <2>1, <2>2
<1>7. ASSUME NEW h \in Handler, (\E s \in Session : WriteEnd(h, s)) \/ Conclude(h) PROVE WaitInv'
  <2>1. /\ rowLock' = rowLock /\ auditLock' = h
        /\ \E stage \in Writing : at' = [at EXCEPT ![h] = stage]
    <3>1. CASE \E s \in Session : WriteEnd(h, s)
      <4>1. at[h] = "ends" /\ at' = at /\ rowLock' = rowLock /\ auditLock' = h
        BY <3>1 DEF WriteEnd, Append, rows
      <4>2. at' = [at EXCEPT ![h] = "ends"]
        BY <4>1, <1>0
      <4> QED BY <4>1, <4>2 DEF Writing
    <3>2. CASE Conclude(h)
      BY <3>2 DEF Conclude, Append, Move, rows, Writing
    <3> QED BY <1>7, <3>1, <3>2
  <2> QED BY <1>0, <2>1, LocksKept
<1>8. ASSUME NEW h \in Handler, Commit(h) \/ Abandon(h) \/ Victim(h) PROVE WaitInv'
  <2>1. Release(h) /\ \E stage : at' = [at EXCEPT ![h] = stage]
    BY <1>8 DEF Commit, Abandon, Victim, Rollback, Move
  <2>2. \A s \in Session : rowLock'[s] \in {rowLock[s], NoOne} /\ rowLock'[s] # h
    BY <1>0, <2>1 DEF Release
  <2>3. auditLock' \in {auditLock, NoOne} /\ auditLock' # h
    BY <1>0, <2>1 DEF Release
  <2> QED BY <1>0, <2>1, <2>2, <2>3, LocksKept
<1>9. CASE Quiet \/ UNCHANGED vars
  BY <1>9, <1>1 DEF Quiet, vars, rows, audit
<1>10. ASSUME NEW h \in Handler, Proceed(h) PROVE WaitInv'
  BY <1>10, <1>3, <1>4, <1>5, <1>6, <1>7, <1>8 DEF Proceed
<1> QED BY <1>3, <1>8, <1>9, <1>10 DEF Next

LEMMA AlwaysWaitInv == Spec => []WaitInv
<1>1. Init => WaitInv
  <2> SUFFICES ASSUME Init PROVE WaitInv
    OBVIOUS
  <2>1. AllRunning = {}
    BY DEF Init, AllRunning, Running
  <2> QED BY <2>1, FS_EmptySet DEF Init, WaitInv, LocksHeld
<1>2. IInv /\ OwnersEnter /\ WaitInv /\ [Next]_vars => WaitInv'
  BY WaitInvKept
<1> QED BY <1>1, <1>2, Inductive, PTL DEF Spec

(***************************************************************************)
(* Where each call waits for one of them, the calls of a least set that    *)
(* waits within itself wait for exactly each other.                        *)
(***************************************************************************)
WaitWithin(S) == \A h \in S : Blocker(h) \in S

LEMMA WaitersCycle ==
    ASSUME NEW W \in SUBSET Handler, IsFiniteSet(W), W # {}, WaitWithin(W)
    PROVE  \E h \in W : InCycle(h)
<1> DEFINE Waiting == {S \in SUBSET W : S # {} /\ WaitWithin(S)}
<1>1. Waiting \subseteq FiniteSubsetsOf(W) /\ Waiting # {}
  <2>1. \A S \in SUBSET W : IsFiniteSet(S)
    BY FS_Subset
  <2> QED BY <2>1 DEF FiniteSubsetsOf
<1>2. IsWellFoundedOn(StrictSubsetOrdering(W), FiniteSubsetsOf(W))
  BY FS_StrictSubsetOrderingWellFounded
<1>3. \E S \in Waiting : \A T \in Waiting : <<T, S>> \notin StrictSubsetOrdering(W)
  <2> HIDE DEF Waiting
  <2> QED BY <1>1, <1>2, WFMin
<1>4. PICK S \in Waiting : \A T \in Waiting : <<T, S>> \notin StrictSubsetOrdering(W)
  BY <1>3
<1>5. S \in SUBSET W /\ S # {} /\ WaitWithin(S)
  OBVIOUS
<1> DEFINE T == {Blocker(h) : h \in S}
<1>6. T \in SUBSET S /\ T # {} /\ WaitWithin(T)
  BY <1>5 DEF WaitWithin
<1>7. T = S
  <2> SUFFICES ASSUME T # S PROVE FALSE
    OBVIOUS
  <2>1. <<T, S>> \in StrictSubsetOrdering(W)
    BY <1>5, <1>6 DEF StrictSubsetOrdering
  <2>2. T \in Waiting
    BY <1>5, <1>6
  <2> QED BY <1>4, <2>1, <2>2
<1> QED BY <1>5, <1>7 DEF InCycle

(***************************************************************************)
(* A call may move on: the lock its next statement needs is free or its    *)
(* own, or it needs none.                                                  *)
(***************************************************************************)
MayMove(h) ==
    \/ at[h] = "own" /\ rowLock[Own[h]] = NoOne
    \/ at[h] = "rows" /\ (aim[h] = NoOne \/ rowLock[aim[h]] = NoOne)
    \/ at[h] = "ends" /\ (AllWritten(h) \/ AuditFree(h))
    \/ at[h] = "last" /\ AuditFree(h)
    \/ at[h] \in {"janus", "sentinel", "commit"}

(***************************************************************************)
(* While calls run, one of them may move on, or the detector has a cycle   *)
(* of waits to break: the row locks that entry and revocation take in no   *)
(* given order, and the advisory lock that is kept over calls to JANUS and *)
(* SENTINEL, stall the service in no other way (audit.py:12, main.py:1953- *)
(* 1974, 2404-2444).                                                       *)
(***************************************************************************)
CallsMoveOrDeadlock ==
    (\E h \in Handler : Running(h)) =>
        \E h \in Handler : Running(h) /\ (MayMove(h) \/ InCycle(h))

THEOREM CallsNeverStall == Spec => []CallsMoveOrDeadlock
<1>1. ASSUME IInv, OwnersEnter, WaitInv PROVE CallsMoveOrDeadlock
  <2> SUFFICES ASSUME AllRunning # {}, \A h \in AllRunning : ~MayMove(h)
               PROVE  \E h \in AllRunning : InCycle(h)
    BY DEF CallsMoveOrDeadlock, AllRunning
  <2>0. /\ at \in [Handler -> Stage] /\ aim \in [Handler -> Session \cup {NoOne}]
        /\ rowLock \in [Session -> Handler \cup {NoOne}] /\ auditLock \in Handler \cup {NoOne}
        /\ NoOne \notin Handler \cup Session
    BY <1>1, HandlerAssumption DEF IInv, TypeOK
  <2>1. ASSUME NEW h \in AllRunning PROVE Blocker(h) \in AllRunning
    <3>1. h \in Handler /\ at[h] \in {"own", "rows", "ends", "last"}
      BY <2>0, <2>1 DEF AllRunning, Running, MayMove, Stage, Ended
    <3>2. ~MayMove(h)
      BY <2>1
    <3>3. ASSUME NEW s \in Session, rowLock[s] # NoOne
          PROVE  rowLock[s] \in AllRunning
      BY <1>1, <2>0, <3>3 DEF WaitInv, LocksHeld, AllRunning, Running, Writing, Ended
    <3>4. auditLock # NoOne => auditLock \in AllRunning
      BY <1>1, <2>0 DEF WaitInv, LocksHeld, AllRunning, Running, Writing, Ended
    <3>5. CASE at[h] = "own"
      <4>1. Own[h] \in Session
        BY <3>1, <3>5, <1>1, HandlerAssumption DEF OwnersEnter
      <4> QED BY <3>2, <3>3, <3>5, <4>1 DEF MayMove, Blocker
    <3>6. CASE at[h] = "rows"
      BY <2>0, <3>1, <3>2, <3>3, <3>6 DEF MayMove, Blocker
    <3>7. CASE at[h] \in {"ends", "last"}
      BY <2>0, <3>2, <3>4, <3>7 DEF MayMove, Blocker, AllWritten, AuditFree
    <3> QED BY <3>1, <3>5, <3>6, <3>7
  <2>2. WaitWithin(AllRunning) /\ AllRunning \in SUBSET Handler
    BY <2>1 DEF WaitWithin, AllRunning
  <2> QED BY <1>1, <2>2, WaitersCycle DEF WaitInv
<1> QED BY <1>1, Inductive, AlwaysWaitInv, PTL

=============================================================================
