-------------------------- MODULE VaultObjectsProofs -------------------------
(***************************************************************************)
(* The ledger and its history agree, and military records stay sealed, for *)
(* any objects, people and branches and any number of transfers and        *)
(* deletions that overlap.                                                 *)
(***************************************************************************)
EXTENDS VaultObjects, SequenceTheorems, TLAPS

(* A call that has been checked is about a record that is in the ledger. *)
CallsHold ==
    \A c \in Call : call[c].at = "checked" =>
        /\ call[c].object \in Object /\ InLedger(call[c].object) /\ call[c].read \in Row
        /\ c \in Transferring => call[c].to \in Branch

(* What refers to the military is stored at a level that needs a session. *)
MilitaryRestricted ==
    \A o \in Object : Exists(o) =>
        (Military(row[o].content, row[o].compartment) => NeedsScif(o))

(* Plaintext was only answered of what needs none. *)
PlaintextBelow ==
    \A p \in Person, o \in Object :
        <<p, "plaintext", o>> \in told => Exists(o) /\ ~NeedsScif(o)

IInv ==
    /\ TypeOK /\ CallsHold
    /\ MilitaryRestricted /\ PlaintextBelow /\ RowMatchesCustody

-----------------------------------------------------------------------------
(* What an entry more does to the places and deletions of a history. *)
LEMMA Appended ==
    ASSUME NEW o \in Object, custody[o] \in Seq(Entry), NEW e \in Entry,
           custody'[o] = Append(custody[o], e)
    PROVE  LET n == Len(custody[o]) + 1
           IN  /\ custody'[o] \in Seq(Entry) /\ n \in Nat /\ custody'[o][n] = e
               /\ \A i \in 1..Len(custody[o]) : custody'[o][i] = custody[o][i] /\ i < n
               /\ Places(o)' = IF e.kind = "deleted" THEN Places(o) ELSE Places(o) \cup {n}
               /\ Deletions(o)' = IF e.kind = "deleted" THEN Deletions(o) \cup {n} ELSE Deletions(o)
<1> DEFINE n == Len(custody[o]) + 1
<1>1. /\ custody'[o] \in Seq(Entry) /\ Len(custody'[o]) = n /\ custody'[o][n] = e
      /\ \A i \in 1..Len(custody[o]) : custody'[o][i] = custody[o][i]
  BY AppendProperties
<1>2. Len(custody[o]) \in Nat /\ 1..n = (1..Len(custody[o])) \cup {n}
  BY LenProperties
<1>3. n \notin 1..Len(custody[o]) /\ n \in Nat /\ \A i \in 1..Len(custody[o]) : i < n
  BY <1>2
<1> HIDE DEF n
<1>4. Places(o)' = IF e.kind = "deleted" THEN Places(o) ELSE Places(o) \cup {n}
  BY <1>1, <1>2, <1>3 DEF Places
<1>5. Deletions(o)' = IF e.kind = "deleted" THEN Deletions(o) \cup {n} ELSE Deletions(o)
  BY <1>1, <1>2, <1>3 DEF Deletions
<1> QED BY <1>1, <1>3, <1>4, <1>5 DEF n

LEMMA TransferredMatches ==
    ASSUME NEW o \in Object, custody[o] \in Seq(Entry), NEW e \in Entry,
           custody'[o] = Append(custody[o], e), e.kind = "transferred",
           MatchesCustody(o), Exists(o), Exists(o)',
           e.to = Assigned(row'[o]), row'[o].deletion = row[o].deletion
    PROVE  MatchesCustody(o)'
<1> DEFINE n == Len(custody[o]) + 1
<1>1. /\ n \in Nat /\ custody'[o][n] = e
      /\ \A i \in 1..Len(custody[o]) : custody'[o][i] = custody[o][i] /\ i < n
      /\ Places(o)' = Places(o) \cup {n} /\ Deletions(o)' = Deletions(o)
  BY Appended
<1> HIDE DEF n
<1>2. \A i \in Places(o) \cup Deletions(o) : i \in 1..Len(custody[o])
  BY DEF Places, Deletions
<1>3. n \in Places(o)' /\ IsLast(n, Places(o)')
  BY <1>1, <1>2, LenProperties DEF IsLast
<1>4. IF row[o].deletion = Nothing
      THEN Deletions(o)' = {}
      ELSE \E i \in Deletions(o)' :
              IsLast(i, Deletions(o)') /\ custody'[o][i].call = row[o].deletion
  BY <1>1, <1>2 DEF MatchesCustody
<1> QED BY <1>1, <1>3, <1>4 DEF MatchesCustody, IsLast, Assigned

LEMMA DeletedMatches ==
    ASSUME NEW o \in Object, custody[o] \in Seq(Entry), NEW e \in Entry,
           custody'[o] = Append(custody[o], e), e.kind = "deleted",
           MatchesCustody(o), Exists(o), Exists(o)',
           row'[o].deletion = e.call, e.call # Nothing, row'[o].branch = row[o].branch
    PROVE  MatchesCustody(o)'
<1> DEFINE n == Len(custody[o]) + 1
<1>1. /\ n \in Nat /\ custody'[o][n] = e
      /\ \A i \in 1..Len(custody[o]) : custody'[o][i] = custody[o][i] /\ i < n
      /\ Places(o)' = Places(o) /\ Deletions(o)' = Deletions(o) \cup {n}
  BY Appended
<1> HIDE DEF n
<1>2. \A i \in Places(o) \cup Deletions(o) : i \in 1..Len(custody[o])
  BY DEF Places, Deletions
<1>3. n \in Deletions(o)' /\ IsLast(n, Deletions(o)')
  BY <1>1, <1>2, LenProperties DEF IsLast
<1>4. \E i \in Places(o)' : IsLast(i, Places(o)') /\ custody'[o][i].to = Assigned(row'[o])
  BY <1>1, <1>2 DEF MatchesCustody, Assigned
<1> QED BY <1>1, <1>3, <1>4 DEF MatchesCustody, IsLast, Assigned

(* A record that is just stored has one entry, of the branch it counts for. *)
LEMMA CreatedMatches ==
    ASSUME NEW o \in Object, Exists(o)', row'[o].deletion = Nothing,
           custody'[o] = << [kind |-> "created", to |-> Assigned(row'[o])] >>
    PROVE  MatchesCustody(o)'
<1>1. /\ Len(custody'[o]) = 1 /\ custody'[o][1].kind = "created"
      /\ custody'[o][1].to = Assigned(row'[o])
  OBVIOUS
<1>2. Places(o)' = {1} /\ Deletions(o)' = {}
  BY <1>1 DEF Places, Deletions
<1>3. IsLast(1, Places(o)')
  BY <1>2 DEF IsLast
<1> QED BY <1>1, <1>2, <1>3 DEF MatchesCustody, IsLast, Assigned

-----------------------------------------------------------------------------
LEMMA InitSafe ==
    ASSUME Init
    PROVE  IInv
<1>1. /\ row = [o \in Object |-> Nothing] /\ custody = [o \in Object |-> << >>]
      /\ noted = {} /\ told = {} /\ call = [c \in Call |-> [at |-> "idle"]]
  BY DEF Init
<1>2. TypeOK
  <2>1. << >> \in Seq(Entry)
    OBVIOUS
  <2>2. [at |-> "idle"] \in CallState
    BY DEF CallState
  <2> QED BY <1>1, <2>1, <2>2 DEF TypeOK
<1>3. \A o \in Object : ~Exists(o)
  BY <1>1 DEF Exists
<1>4. CallsHold /\ MilitaryRestricted /\ PlaintextBelow /\ RowMatchesCustody
  BY <1>1, <1>3 DEF CallsHold, MilitaryRestricted, PlaintextBelow, RowMatchesCustody, MatchesCustody
<1> QED BY <1>2, <1>4 DEF IInv

(***************************************************************************)
(* A step that stores or changes one record with its history, and may end  *)
(* a call: a record that was there stays what it was, but for the branch   *)
(* and the deletion.                                                       *)
(***************************************************************************)
LEMMA RecordWritten ==
    ASSUME IInv, NEW o \in Object, UNCHANGED answers,
           row' \in [Object -> Row \cup {Nothing}], custody' \in [Object -> Seq(Entry)],
           \A x \in Object \ {o} : row'[x] = row[x] /\ custody'[x] = custody[x],
           row'[o] \in Row,
           Military(row'[o].content, row'[o].compartment) => row'[o].level \in ScifRequired,
           Exists(o) => row'[o].level = row[o].level /\ row'[o].profile = row[o].profile,
           MatchesCustody(o)',
           call' \in [Call -> CallState],
           \A c \in Call : call'[c].at = "checked" => call'[c] = call[c]
    PROVE  IInv'
<1> USE DEF IInv
<1>1. /\ \A x \in Object : Exists(x) => /\ row'[x] # Nothing /\ row'[x].level = row[x].level
                                       /\ row'[x].profile = row[x].profile
      /\ row'[o] # Nothing
  BY ObjectsAssumption DEF Exists
<1>2. TypeOK'
  <2>1. noted' = noted /\ told' = told
    BY DEF answers
  <2>2. \A p \in Person, answer \in Answers, x \in Object : <<p, answer, x>> \in told =>
           \E entry \in EntriesOf(answer, x)' : <<p, entry, x>> \in noted
    <3> SUFFICES ASSUME NEW p \in Person, NEW answer \in Answers, NEW x \in Object,
                        <<p, answer, x>> \in told
                 PROVE  \E entry \in EntriesOf(answer, x)' : <<p, entry, x>> \in noted
      OBVIOUS
    <3>1. answer = "plaintext" => Exists(x)
      BY DEF PlaintextBelow
    <3>2. EntriesOf(answer, x)' = EntriesOf(answer, x)
      BY <3>1, <1>1 DEF EntriesOf, ReadEntry, Answers
    <3> QED BY <3>2 DEF TypeOK
  <2> QED BY <2>1, <2>2 DEF TypeOK
<1>3. CallsHold'
  <2> SUFFICES ASSUME NEW c \in Call, call'[c].at = "checked"
               PROVE  /\ call'[c].object \in Object /\ call'[c].read \in Row
                      /\ row'[call'[c].object] # Nothing
                      /\ row'[call'[c].object].profile = "VAULT-MIL"
                      /\ c \in Transferring => call'[c].to \in Branch
    BY DEF CallsHold, InLedger, Exists
  <2> QED BY <1>1 DEF CallsHold, InLedger, Exists
<1>4. MilitaryRestricted'
  <2>1. \A x \in Object : row'[x] # Nothing =>
           (Military(row'[x].content, row'[x].compartment) => row'[x].level \in ScifRequired)
    BY DEF MilitaryRestricted, Exists, NeedsScif
  <2> QED BY <2>1 DEF MilitaryRestricted, Exists, NeedsScif, Military
<1>5. PlaintextBelow'
  BY <1>1 DEF PlaintextBelow, answers, Exists, NeedsScif
<1>6. RowMatchesCustody'
  <2>1. ASSUME NEW x \in Object \ {o} PROVE MatchesCustody(x)'
    <3>1. MatchesCustody(x) /\ row'[x] = row[x] /\ custody'[x] = custody[x]
      BY DEF RowMatchesCustody
    <3> QED BY <3>1 DEF MatchesCustody, Exists, Assigned, Places, Deletions, IsLast
  <2> QED BY <2>1 DEF RowMatchesCustody
<1> QED BY <1>2, <1>3, <1>4, <1>5, <1>6

(* A step that only answers, with the audit entry of its answer. *)
LEMMA Answered ==
    ASSUME IInv, NEW p \in Person, NEW answer \in Answers, NEW entry \in Notes, NEW o \in Object,
           Answer(p, answer, entry, o), UNCHANGED <<store, call>>,
           entry \in EntriesOf(answer, o),
           answer = "plaintext" => Exists(o) /\ ~NeedsScif(o)
    PROVE  IInv'
<1> USE DEF IInv
<1>1. /\ noted' = noted \cup {<<p, entry, o>>} /\ told' = told \cup {<<p, answer, o>>}
      /\ row' = row /\ custody' = custody /\ call' = call
  BY DEF Answer, Commits, store
<1>2. TypeOK'
  <2>1. \A q \in Person, a \in Answers, x \in Object : <<q, a, x>> \in told' =>
           \E e \in EntriesOf(a, x) : <<q, e, x>> \in noted'
    BY <1>1 DEF TypeOK
  <2>2. \A a, x : EntriesOf(a, x)' = EntriesOf(a, x)
    BY <1>1 DEF EntriesOf, ReadEntry
  <2>3. noted' \subseteq Person \X Notes \X Object /\ told' \subseteq Person \X Answers \X Object
    BY <1>1 DEF TypeOK
  <2> QED BY <1>1, <2>1, <2>2, <2>3 DEF TypeOK
<1>3. PlaintextBelow'
  BY <1>1 DEF PlaintextBelow, Exists, NeedsScif
<1>4. CallsHold' /\ MilitaryRestricted' /\ RowMatchesCustody'
  BY <1>1 DEF CallsHold, MilitaryRestricted, RowMatchesCustody, MatchesCustody, InLedger, Exists,
              NeedsScif, Assigned, Places, Deletions, IsLast
<1> QED BY <1>2, <1>3, <1>4

(* A step of one call that leaves the store to others. *)
LEMMA CallMoved ==
    ASSUME IInv, NEW c \in Call, NEW q \in CallState, call' = [call EXCEPT ![c] = q],
           UNCHANGED <<store, answers>>,
           q.at = "checked" =>
              /\ q.object \in Object /\ InLedger(q.object) /\ q.read \in Row
              /\ c \in Transferring => q.to \in Branch
    PROVE  IInv'
<1> USE DEF IInv
<1>1. /\ row' = row /\ custody' = custody /\ noted' = noted /\ told' = told
      /\ call'[c] = q /\ \A d \in Call \ {c} : call'[d] = call[d]
      /\ call' \in [Call -> CallState]
  BY DEF store, answers, TypeOK
<1>2. TypeOK'
  BY <1>1 DEF TypeOK, EntriesOf, ReadEntry
<1>3. CallsHold'
  BY <1>1 DEF CallsHold, InLedger, Exists
<1>4. MilitaryRestricted' /\ PlaintextBelow' /\ RowMatchesCustody'
  BY <1>1 DEF MilitaryRestricted, PlaintextBelow, RowMatchesCustody, MatchesCustody, Exists,
              NeedsScif, Assigned, Places, Deletions, IsLast
<1> QED BY <1>2, <1>3, <1>4

-----------------------------------------------------------------------------
(* _enforce_military_object_policy makes a row, and floors a military one. *)
LEMMA StoredRow ==
    ASSUME NEW content \in Content, NEW level \in 0..4, NEW compartment \in Compartment,
           NEW profile \in Profile, NEW branch \in Branch
    PROVE  LET r == Stored(content, level, compartment, profile, branch)
           IN  /\ r \in Row /\ r.deletion = Nothing /\ Assigned(r) \in Branch
               /\ Military(r.content, r.compartment) => r.level \in ScifRequired
<1> DEFINE military == Military(content, compartment)
           r == [content |-> content, level |-> Floored(military, level),
                 compartment |-> compartment,
                 profile |-> IF military THEN "VAULT-MIL" ELSE profile,
                 branch |-> IF military THEN branch ELSE Nothing,
                 tracked |-> military, deletion |-> Nothing]
<1>1. military \in BOOLEAN
  BY DEF Military
<1>2. Floored(military, level) \in 0..4 /\ (military => Floored(military, level) \in ScifRequired)
  BY DEF Floored, Restricted, ScifRequired
<1> HIDE DEF military
<1>3. r \in Row
  BY <1>1, <1>2 DEF Row, Profile
<1>4. Assigned(r) \in Branch
  BY ObjectsAssumption DEF Assigned
<1>5. Stored(content, level, compartment, profile, branch) = r
  BY DEF Stored, military
<1>6. r.deletion = Nothing /\ r.level = Floored(military, level)
      /\ Military(r.content, r.compartment) = military
  BY DEF military
<1> QED BY <1>2, <1>3, <1>4, <1>5, <1>6

LEMMA RecordSafe ==
    ASSUME IInv, NEW o \in Object, ~Exists(o), NEW r \in Row, Record(o, r),
           r.deletion = Nothing, Assigned(r) \in Branch,
           Military(r.content, r.compartment) => r.level \in ScifRequired,
           UNCHANGED <<answers, call>>
    PROVE  IInv'
<1> DEFINE e == [kind |-> "created", to |-> Assigned(r)]
<1>1. row' = [row EXCEPT ![o] = r] /\ custody' = [custody EXCEPT ![o] = <<e>>]
  BY DEF Record
<1>2. /\ row \in [Object -> Row \cup {Nothing}] /\ custody \in [Object -> Seq(Entry)]
      /\ call' = call /\ call \in [Call -> CallState]
  BY DEF IInv, TypeOK
<1>3. <<e>> \in Seq(Entry)
  <2>1. e \in Entry
    BY DEF Entry
  <2> QED BY <2>1
<1>4. /\ row'[o] = r /\ row' \in [Object -> Row \cup {Nothing}]
      /\ custody'[o] = <<e>> /\ custody' \in [Object -> Seq(Entry)]
      /\ \A x \in Object \ {o} : row'[x] = row[x] /\ custody'[x] = custody[x]
  BY <1>1, <1>2, <1>3
<1>5. MatchesCustody(o)'
  <2>1. row'[o] # Nothing
    BY <1>4, ObjectsAssumption
  <2> QED BY <2>1, <1>4, CreatedMatches DEF Exists
<1> QED BY <1>2, <1>4, <1>5, RecordWritten

LEMMA CreateSafe ==
    ASSUME IInv, NEW p \in Person, NEW o \in Object, NEW content \in Content, NEW level \in Asked,
           NEW compartment \in Compartment, NEW profile \in Profile, NEW branch \in Branch,
           Create(p, o, content, level, compartment, profile, branch)
    PROVE  IInv'
<1> DEFINE r == Stored(content, level, compartment, profile, branch)
<1>1. /\ r \in Row /\ r.deletion = Nothing /\ Assigned(r) \in Branch
      /\ Military(r.content, r.compartment) => r.level \in ScifRequired
  BY StoredRow, ObjectsAssumption
<1>2. ~Exists(o) /\ UNCHANGED call
  BY DEF Create
<1>3. CASE Authorized(p, r.level, compartment)
  <2>1. Record(o, r) /\ UNCHANGED answers
    BY <1>3 DEF Create
  <2> HIDE DEF r
  <2> QED BY <1>1, <1>2, <2>1, RecordSafe
<1>4. CASE ~Authorized(p, r.level, compartment)
  <2>1. Answer(p, "forbidden", "denied_create", o) /\ UNCHANGED store
    BY <1>4 DEF Create
  <2>2. "denied_create" \in EntriesOf("forbidden", o)
    BY DEF EntriesOf
  <2> QED BY <1>2, <2>1, <2>2, Answered DEF Answers, Notes
<1> QED BY <1>3, <1>4

LEMMA IngestSafe ==
    ASSUME IInv, NEW o \in Object, NEW content \in Content, NEW level \in Asked,
           NEW profile \in Profile, NEW branch \in Branch,
           Ingest(o, content, level, profile, branch)
    PROVE  IInv'
<1> DEFINE r == Stored(content, level, Presidency, profile, branch)
<1>1. /\ r \in Row /\ r.deletion = Nothing /\ Assigned(r) \in Branch
      /\ Military(r.content, r.compartment) => r.level \in ScifRequired
  BY StoredRow, ObjectsAssumption
<1>2. ~Exists(o) /\ Record(o, r) /\ UNCHANGED <<answers, call>>
  BY DEF Ingest
<1> HIDE DEF r
<1> QED BY <1>1, <1>2, RecordSafe

LEMMA GetSafe ==
    ASSUME IInv, NEW p \in Person, NEW o \in Object, Get(p, o)
    PROVE  IInv'
<1>1. CASE Deny(p, o)
  BY <1>1, Answered DEF Deny, Answers, Notes, EntriesOf
<1>2. CASE Block(p, o)
  BY <1>2, Answered DEF Block, Answers, Notes, EntriesOf
<1>3. CASE Give(p, o)
  BY <1>3, Answered DEF Give, MayRead, Answers, Notes, EntriesOf, ReadEntry
<1>4. CASE FailToDecrypt(p, o)
  BY <1>4, Answered DEF FailToDecrypt, Answers, Notes, EntriesOf
<1> QED BY <1>1, <1>2, <1>3, <1>4 DEF Get

LEMMA CheckTransferSafe ==
    ASSUME IInv, NEW c \in Transferring, NEW o \in Object, NEW to \in Branch, CheckTransfer(c, o, to)
    PROVE  IInv'
<1> DEFINE q == [at |-> "checked", object |-> o, read |-> row[o], to |-> to]
<1>1. call' = [call EXCEPT ![c] = q] /\ UNCHANGED <<store, answers>> /\ InLedger(o)
  BY DEF CheckTransfer, StillHeld
<1>2. row[o] \in Row
  BY <1>1 DEF InLedger, Exists, IInv, TypeOK
<1>3. q \in CallState /\ q.object = o /\ q.read = row[o] /\ q.to = to
  BY <1>2 DEF CallState
<1> HIDE DEF q
<1> QED BY <1>1, <1>2, <1>3, CallMoved DEF Call

LEMMA CheckDeletionSafe ==
    ASSUME IInv, NEW c \in Deleting, NEW o \in Object, CheckDeletion(c, o)
    PROVE  IInv'
<1> DEFINE q == [at |-> "checked", object |-> o, read |-> row[o]]
<1>1. call' = [call EXCEPT ![c] = q] /\ UNCHANGED <<store, answers>> /\ InLedger(o)
  BY DEF CheckDeletion, StillHeld
<1>2. row[o] \in Row
  BY <1>1 DEF InLedger, Exists, IInv, TypeOK
<1>3. q \in CallState /\ q.object = o /\ q.read = row[o]
  BY <1>2 DEF CallState
<1>4. c \notin Transferring /\ c \in Call
  BY ObjectsAssumption DEF Call
<1> HIDE DEF q
<1> QED BY <1>1, <1>2, <1>3, <1>4, CallMoved

LEMMA LoseSafe ==
    ASSUME IInv, NEW c \in Call, Lose(c)
    PROVE  IInv'
<1>1. call' = [call EXCEPT ![c] = [at |-> "done"]] /\ UNCHANGED <<store, answers>>
  BY DEF Lose
<1>2. [at |-> "done"] \in CallState
  BY DEF CallState
<1> QED BY <1>1, <1>2, CallMoved

-----------------------------------------------------------------------------
(* What a transfer writes, and that it is a row and an entry of the ledger. *)
LEMMA TransferWrites ==
    ASSUME IInv, NEW c \in Transferring, Transfer(c)
    PROVE  \E o \in Object, to \in Branch, e \in Entry :
              /\ row[o] \in Row /\ e.kind = "transferred" /\ e.to = to
              /\ row' = [row EXCEPT ![o] = [row[o] EXCEPT !.branch = to]]
              /\ custody' = [custody EXCEPT ![o] = Append(custody[o], e)]
<1> DEFINE e == [kind |-> "transferred", call |-> c, from |-> Assigned(call[c].read),
                 to |-> call[c].to]
<1>1. /\ call[c].object \in Object /\ InLedger(call[c].object)
      /\ call[c].read \in Row /\ call[c].to \in Branch
  BY DEF Transfer, IInv, CallsHold, Call
<1>2. row[call[c].object] \in Row /\ row[call[c].object].profile = "VAULT-MIL"
  BY <1>1 DEF InLedger, Exists, IInv, TypeOK
<1>3. Assigned(call[c].read) \in Branch
  BY <1>1, ObjectsAssumption DEF Assigned, Row
<1>4. e \in Entry /\ e.kind = "transferred" /\ e.to = call[c].to
  BY <1>1, <1>3 DEF Entry
<1>5. /\ row' = [row EXCEPT ![call[c].object] = [row[call[c].object] EXCEPT !.branch = call[c].to]]
      /\ custody' = [custody EXCEPT ![call[c].object] = Append(custody[call[c].object], e)]
  <2>1. custody \in [Object -> Seq(Entry)]
    BY DEF IInv, TypeOK
  <2> QED BY <1>1, <2>1 DEF Transfer, Moved, Entered
<1> HIDE DEF e
<1> QED BY <1>1, <1>2, <1>4, <1>5

LEMMA TransferSafe ==
    ASSUME IInv, NEW c \in Transferring, Transfer(c)
    PROVE  IInv'
<1>1. PICK o \in Object, to \in Branch, e \in Entry :
          /\ row[o] \in Row /\ e.kind = "transferred" /\ e.to = to
          /\ row' = [row EXCEPT ![o] = [row[o] EXCEPT !.branch = to]]
          /\ custody' = [custody EXCEPT ![o] = Append(custody[o], e)]
  BY TransferWrites
<1> DEFINE r == [row[o] EXCEPT !.branch = to]
<1>2. UNCHANGED answers /\ call' = [call EXCEPT ![c] = [at |-> "done"]]
  BY DEF Transfer
<1>3. row' = [row EXCEPT ![o] = r]
  BY <1>1
<1>4. /\ r \in Row /\ r.branch = to /\ r.deletion = row[o].deletion /\ r.level = row[o].level
      /\ r.profile = row[o].profile /\ r.content = row[o].content
      /\ r.compartment = row[o].compartment
  BY <1>1 DEF Row
<1> HIDE DEF r
<1>5. /\ row \in [Object -> Row \cup {Nothing}] /\ custody \in [Object -> Seq(Entry)]
      /\ call \in [Call -> CallState] /\ c \in Call /\ MatchesCustody(o)
  BY <1>1 DEF IInv, TypeOK, RowMatchesCustody, Call
<1>6. Append(custody[o], e) \in Seq(Entry)
  BY <1>1, <1>5, AppendProperties
<1>7. /\ row'[o] = r /\ row' \in [Object -> Row \cup {Nothing}]
      /\ custody'[o] = Append(custody[o], e) /\ custody' \in [Object -> Seq(Entry)]
      /\ \A x \in Object \ {o} : row'[x] = row[x] /\ custody'[x] = custody[x]
  BY <1>1, <1>3, <1>4, <1>5, <1>6
<1>8. Exists(o) /\ Exists(o)'
  BY <1>1, <1>4, <1>7, ObjectsAssumption DEF Exists
<1>9. MatchesCustody(o)'
  <2>1. e.to = Assigned(row'[o])
    BY <1>1, <1>3, <1>4, <1>7, ObjectsAssumption DEF Assigned
  <2> QED BY <1>1, <1>3, <1>4, <1>5, <1>7, <1>8, <2>1, TransferredMatches
<1>10. Military(r.content, r.compartment) => r.level \in ScifRequired
  BY <1>1, <1>4, <1>8 DEF IInv, MilitaryRestricted, NeedsScif
<1>11. /\ call' \in [Call -> CallState]
       /\ \A d \in Call : call'[d].at = "checked" => call'[d] = call[d]
  <2>1. [at |-> "done"] \in CallState
    BY DEF CallState
  <2> QED BY <1>2, <1>5, <2>1
<1> QED BY <1>1, <1>2, <1>4, <1>7, <1>9, <1>10, <1>11, RecordWritten

LEMMA DeleteWrites ==
    ASSUME IInv, NEW c \in Deleting, Delete(c)
    PROVE  \E o \in Object, e \in Entry :
              /\ row[o] \in Row /\ e.kind = "deleted" /\ e.call = c
              /\ row' = [row EXCEPT ![o] = [row[o] EXCEPT !.deletion = c]]
              /\ custody' = [custody EXCEPT ![o] = Append(custody[o], e)]
<1> DEFINE e == [kind |-> "deleted", call |-> c]
<1>1. call[c].object \in Object /\ InLedger(call[c].object)
  BY DEF Delete, IInv, CallsHold, Call
<1>2. row[call[c].object] \in Row /\ row[call[c].object].profile = "VAULT-MIL"
  BY <1>1 DEF InLedger, Exists, IInv, TypeOK
<1>3. e \in Entry /\ e.kind = "deleted" /\ e.call = c
  BY DEF Entry
<1>4. /\ row' = [row EXCEPT ![call[c].object] = [row[call[c].object] EXCEPT !.deletion = c]]
      /\ custody' = [custody EXCEPT ![call[c].object] = Append(custody[call[c].object], e)]
  <2>1. custody \in [Object -> Seq(Entry)]
    BY DEF IInv, TypeOK
  <2> QED BY <1>1, <2>1 DEF Delete, Dropped, Entered
<1> HIDE DEF e
<1> QED BY <1>1, <1>2, <1>3, <1>4

LEMMA DeleteSafe ==
    ASSUME IInv, NEW c \in Deleting, Delete(c)
    PROVE  IInv'
<1>1. PICK o \in Object, e \in Entry :
          /\ row[o] \in Row /\ e.kind = "deleted" /\ e.call = c
          /\ row' = [row EXCEPT ![o] = [row[o] EXCEPT !.deletion = c]]
          /\ custody' = [custody EXCEPT ![o] = Append(custody[o], e)]
  BY DeleteWrites
<1> DEFINE r == [row[o] EXCEPT !.deletion = c]
<1>2. UNCHANGED answers /\ call' = [call EXCEPT ![c] = [at |-> "done"]]
  BY DEF Delete
<1>3. row' = [row EXCEPT ![o] = r] /\ c # Nothing
  BY <1>1, ObjectsAssumption DEF Call
<1>4. /\ r \in Row /\ r.deletion = c /\ r.branch = row[o].branch /\ r.level = row[o].level
      /\ r.profile = row[o].profile /\ r.content = row[o].content
      /\ r.compartment = row[o].compartment
  BY <1>1 DEF Row
<1> HIDE DEF r
<1>5. /\ row \in [Object -> Row \cup {Nothing}] /\ custody \in [Object -> Seq(Entry)]
      /\ call \in [Call -> CallState] /\ c \in Call /\ MatchesCustody(o)
  BY <1>1 DEF IInv, TypeOK, RowMatchesCustody, Call
<1>6. Append(custody[o], e) \in Seq(Entry)
  BY <1>1, <1>5, AppendProperties
<1>7. /\ row'[o] = r /\ row' \in [Object -> Row \cup {Nothing}]
      /\ custody'[o] = Append(custody[o], e) /\ custody' \in [Object -> Seq(Entry)]
      /\ \A x \in Object \ {o} : row'[x] = row[x] /\ custody'[x] = custody[x]
  BY <1>1, <1>3, <1>4, <1>5, <1>6
<1>8. Exists(o) /\ Exists(o)'
  BY <1>1, <1>4, <1>7, ObjectsAssumption DEF Exists
<1>9. MatchesCustody(o)'
  BY <1>1, <1>3, <1>4, <1>5, <1>7, <1>8, DeletedMatches
<1>10. Military(r.content, r.compartment) => r.level \in ScifRequired
  BY <1>1, <1>4, <1>8 DEF IInv, MilitaryRestricted, NeedsScif
<1>11. /\ call' \in [Call -> CallState]
       /\ \A d \in Call : call'[d].at = "checked" => call'[d] = call[d]
  <2>1. [at |-> "done"] \in CallState
    BY DEF CallState
  <2> QED BY <1>2, <1>5, <2>1
<1> QED BY <1>1, <1>2, <1>4, <1>7, <1>9, <1>10, <1>11, RecordWritten

LEMMA StepSafe ==
    ASSUME IInv, [Next]_vars
    PROVE  IInv'
<1>1. CASE UNCHANGED vars
  <2>1. row' = row /\ custody' = custody /\ noted' = noted /\ told' = told /\ call' = call
    BY <1>1 DEF vars, store, answers
  <2>2. TypeOK'
    BY <2>1 DEF IInv, TypeOK, EntriesOf, ReadEntry
  <2>3. CallsHold' /\ MilitaryRestricted' /\ PlaintextBelow'
    BY <2>1 DEF IInv, CallsHold, MilitaryRestricted, PlaintextBelow, InLedger, Exists, NeedsScif
  <2>4. RowMatchesCustody'
    BY <2>1 DEF IInv, RowMatchesCustody, MatchesCustody, Exists, Assigned, Places, Deletions, IsLast
  <2> QED BY <2>2, <2>3, <2>4 DEF IInv
<1>2. ASSUME NEW o \in Object, NEW content \in Content, NEW level \in Asked,
             NEW profile \in Profile, NEW branch \in Branch,
             \/ \E p \in Person, compartment \in Compartment :
                   Create(p, o, content, level, compartment, profile, branch)
             \/ Ingest(o, content, level, profile, branch)
      PROVE  IInv'
  BY <1>2, CreateSafe, IngestSafe
<1>3. CASE \E p \in Person, o \in Object : Get(p, o)
  BY <1>3, GetSafe
<1>4. CASE \/ \E c \in Transferring, o \in Object, to \in Branch : CheckTransfer(c, o, to)
           \/ \E c \in Deleting, o \in Object : CheckDeletion(c, o)
           \/ \E c \in Call : Lose(c)
  BY <1>4, CheckTransferSafe, CheckDeletionSafe, LoseSafe
<1>5. CASE \/ \E c \in Transferring : Transfer(c)
           \/ \E c \in Deleting : Delete(c)
  BY <1>5, TransferSafe, DeleteSafe
<1> QED BY <1>1, <1>2, <1>3, <1>4, <1>5 DEF Next

LEMMA Inductive == Spec => []IInv
<1>1. Init => IInv
  BY InitSafe
<1>2. IInv /\ [Next]_vars => IInv'
  BY StepSafe
<1> QED BY <1>1, <1>2, PTL DEF Spec

-----------------------------------------------------------------------------
(***************************************************************************)
(* The store, the calls under way and the audit keep to their types, and   *)
(* every answer has its audit entry (main.py:341-343, 397-412).            *)
(***************************************************************************)
THEOREM TypeCorrect == Spec => []TypeOK
<1>1. IInv => TypeOK
  BY DEF IInv
<1> QED BY <1>1, Inductive, PTL

(***************************************************************************)
(* For any number of transfers and deletions that check a record before    *)
(* others write it, the branch and the deletion of its row are those of    *)
(* its last entries (main.py:1326-1337, 1372-1381).                        *)
(***************************************************************************)
THEOREM LedgerMatchesCustody == Spec => []RowMatchesCustody
<1>1. IInv => RowMatchesCustody
  BY DEF IInv
<1> QED BY <1>1, Inductive, PTL

(***************************************************************************)
(* No sequence of calls answers a military record in plaintext outside a   *)
(* session (main.py:478-485 with 400-405).                                 *)
(***************************************************************************)
THEOREM MilitarySealed == Spec => []MilitaryStaysSealed
<1>1. IInv => MilitaryStaysSealed
  BY DEF IInv, MilitaryStaysSealed, MilitaryRestricted, PlaintextBelow, Military
<1> QED BY <1>1, Inductive, PTL

-----------------------------------------------------------------------------
Kept(o) ==
    /\ [row'[o] EXCEPT !.branch = row[o].branch, !.deletion = row[o].deletion] = row[o]
    /\ row[o].deletion # Nothing => row'[o].deletion # Nothing
    /\ SubSeq(custody'[o], 1, Len(custody[o])) = custody[o]

(* A record is kept by a step that does not write it. *)
LEMMA UnwrittenKept ==
    ASSUME IInv, NEW o \in Object, Exists(o), row'[o] = row[o], custody'[o] = custody[o]
    PROVE  Kept(o)
<1>1. row[o] \in Row /\ custody[o] \in Seq(Entry)
  BY DEF IInv, TypeOK, Exists
<1>2. SubSeq(custody[o], 1, Len(custody[o])) = custody[o]
  BY <1>1, SubSeqFull
<1>3. [row[o] EXCEPT !.branch = row[o].branch, !.deletion = row[o].deletion] = row[o]
  BY <1>1 DEF Row
<1> QED BY <1>2, <1>3 DEF Kept

(* What an entry more leaves of a history. *)
LEMMA AppendKept ==
    ASSUME NEW s \in Seq(Entry), NEW e \in Entry
    PROVE  SubSeq(Append(s, e), 1, Len(s)) = s
<1> DEFINE t == Append(s, e)
           u == SubSeq(t, 1, Len(s))
<1>1. Len(s) \in Nat /\ \A i \in 1..Len(s) : s[i] \in Entry
  BY LenProperties, ElementOfSeq
<1>2. \A i \in 1..Len(s) : t[i] = s[i] /\ t[i] \in Entry
  BY <1>1, AppendProperties
<1> HIDE DEF t
<1>3. /\ u \in Seq(Entry) /\ Len(u) = (IF 1 <= Len(s) THEN Len(s) - 1 + 1 ELSE 0)
      /\ \A i \in 1..(Len(s) - 1 + 1) : u[i] = t[1 + i - 1]
  BY <1>1, <1>2, SubSeqProperties
<1> HIDE DEF u
<1>4. Len(u) = Len(s)
  BY <1>1, <1>3
<1>5. \A i \in 1..Len(s) : u[i] = s[i]
  BY <1>1, <1>2, <1>3
<1>6. u = s
  BY <1>3, <1>4, <1>5, SeqEqual
<1> QED BY <1>6 DEF u, t

LEMMA TransferKept ==
    ASSUME IInv, NEW c \in Transferring, Transfer(c), NEW o \in Object, Exists(o)
    PROVE  Kept(o)
<1>1. PICK x \in Object, to \in Branch, e \in Entry :
          /\ row[x] \in Row /\ e.kind = "transferred" /\ e.to = to
          /\ row' = [row EXCEPT ![x] = [row[x] EXCEPT !.branch = to]]
          /\ custody' = [custody EXCEPT ![x] = Append(custody[x], e)]
  BY TransferWrites
<1>2. /\ row \in [Object -> Row \cup {Nothing}] /\ custody \in [Object -> Seq(Entry)]
  BY DEF IInv, TypeOK
<1>3. CASE o # x
  BY <1>1, <1>2, <1>3, UnwrittenKept
<1>4. CASE o = x
  <2>1. row'[o] = [row[o] EXCEPT !.branch = to] /\ custody'[o] = Append(custody[o], e)
    BY <1>1, <1>2, <1>4
  <2>2. row[o] \in Row
    BY <1>1, <1>4
  <2>3. /\ [row'[o] EXCEPT !.branch = row[o].branch, !.deletion = row[o].deletion] = row[o]
        /\ row'[o].deletion = row[o].deletion
    BY <2>1, <2>2 DEF Row
  <2>4. SubSeq(custody'[o], 1, Len(custody[o])) = custody[o]
    BY <2>1, <1>2, AppendKept
  <2> QED BY <2>3, <2>4 DEF Kept
<1> QED BY <1>3, <1>4

LEMMA DeleteKept ==
    ASSUME IInv, NEW c \in Deleting, Delete(c), NEW o \in Object, Exists(o)
    PROVE  Kept(o)
<1>1. PICK x \in Object, e \in Entry :
          /\ row[x] \in Row /\ e.kind = "deleted" /\ e.call = c
          /\ row' = [row EXCEPT ![x] = [row[x] EXCEPT !.deletion = c]]
          /\ custody' = [custody EXCEPT ![x] = Append(custody[x], e)]
  BY DeleteWrites
<1>2. /\ row \in [Object -> Row \cup {Nothing}] /\ custody \in [Object -> Seq(Entry)]
      /\ c # Nothing
  BY ObjectsAssumption DEF IInv, TypeOK, Call
<1>3. CASE o # x
  BY <1>1, <1>2, <1>3, UnwrittenKept
<1>4. CASE o = x
  <2>1. row'[o] = [row[o] EXCEPT !.deletion = c] /\ custody'[o] = Append(custody[o], e)
    BY <1>1, <1>2, <1>4
  <2>2. row[o] \in Row
    BY <1>1, <1>4
  <2>3. /\ [row'[o] EXCEPT !.branch = row[o].branch, !.deletion = row[o].deletion] = row[o]
        /\ row'[o].deletion = c
    BY <2>1, <2>2 DEF Row
  <2>4. SubSeq(custody'[o], 1, Len(custody[o])) = custody[o]
    BY <2>1, <1>2, AppendKept
  <2> QED BY <2>3, <2>4, <1>2 DEF Kept
<1> QED BY <1>3, <1>4

(* A record that is stored is a new one. *)
LEMMA RecordKept ==
    ASSUME IInv, NEW x \in Object, ~Exists(x), NEW r, Record(x, r), NEW o \in Object, Exists(o)
    PROVE  Kept(o)
<1>1. o # x
  OBVIOUS
<1>2. row'[o] = row[o] /\ custody'[o] = custody[o]
  BY <1>1 DEF Record, IInv, TypeOK
<1> QED BY <1>2, UnwrittenKept

LEMMA StepKeeps ==
    ASSUME IInv, [Next]_vars, NEW o \in Object, Exists(o)
    PROVE  Kept(o)
<1>1. CASE UNCHANGED store
  BY <1>1, UnwrittenKept DEF store
<1>2. ASSUME NEW x \in Object, NEW content, NEW level, NEW profile, NEW branch,
             \/ \E p \in Person, compartment \in Compartment :
                   Create(p, x, content, level, compartment, profile, branch)
             \/ Ingest(x, content, level, profile, branch)
      PROVE  Kept(o)
  BY <1>2, <1>1, RecordKept DEF Create, Ingest
<1>3. CASE \E p \in Person, x \in Object : Get(p, x)
  BY <1>3, <1>1 DEF Get, Deny, Block, Give, FailToDecrypt, store
<1>4. CASE \/ \E c \in Transferring, x \in Object, to \in Branch : CheckTransfer(c, x, to)
           \/ \E c \in Deleting, x \in Object : CheckDeletion(c, x)
           \/ \E c \in Call : Lose(c)
  BY <1>4, <1>1 DEF CheckTransfer, CheckDeletion, Lose
<1>5. CASE \/ \E c \in Transferring : Transfer(c)
           \/ \E c \in Deleting : Delete(c)
  BY <1>5, TransferKept, DeleteKept
<1>6. CASE UNCHANGED vars
  BY <1>6, <1>1 DEF vars
<1> QED BY <1>2, <1>3, <1>4, <1>5, <1>6 DEF Next

(***************************************************************************)
(* A stored record is never replaced, restored or given another past, for  *)
(* any calls that overlap (main.py:1326-1328, 1372-1374).                  *)
(***************************************************************************)
THEOREM PastKept == Spec => RecordKeepsItsPast
<1>1. IInv /\ [Next]_vars => [\A o \in Object : Exists(o) => Kept(o)]_vars
  BY StepKeeps
<1>2. [\A o \in Object : Exists(o) => Kept(o)]_vars
        => [\A o \in Object : Exists(o) =>
              /\ [row'[o] EXCEPT !.branch = row[o].branch, !.deletion = row[o].deletion] = row[o]
              /\ row[o].deletion # Nothing => row'[o].deletion # Nothing
              /\ SubSeq(custody'[o], 1, Len(custody[o])) = custody[o]]_vars
  BY DEF Kept
<1> QED BY <1>1, <1>2, Inductive, PTL DEF Spec, RecordKeepsItsPast

=============================================================================
