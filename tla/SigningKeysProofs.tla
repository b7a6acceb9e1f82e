-------------------------- MODULE SigningKeysProofs --------------------------
(***************************************************************************)
(* The registry of signing keys stays coherent for any processes, keys and *)
(* configurations: receipts stay verifiable while an id names one key, and *)
(* keys are active together only after startups that overlapped.           *)
(***************************************************************************)
EXTENDS SigningKeys, FiniteSetTheorems, WellFoundedInduction, TLAPS

(* An id names one key: what the derived ids do, and rotation has to keep. *)
OneKeyPerId == \A c, d \in Config : c[1] = d[1] => c[2] = d[2]

(* A key is registered as it was configured. *)
RegistryConfigured ==
    \A k \in KeyId : Registered(k) => <<k, registry[k].seed>> \in Config

(* What a process signs with, and what was signed with, is registered. *)
SignersRegistered ==
    /\ \A p \in Process : proc[p].at = "up" => Registered(proc[p].id)
    /\ \A r \in receipts : Registered(r.id) /\ <<r.id, r.signer>> \in Config

(***************************************************************************)
(* The rows that a starting process has locked are active until it retires *)
(* them, and no other process has them locked.                             *)
(***************************************************************************)
RowsHeldOnce ==
    /\ \A p \in Process : proc[p].held \subseteq Active
    /\ \A p, q \in Process : p # q => proc[p].held \cap proc[q].held = {}

(***************************************************************************)
(* A starting process is going to retire every other active key, except    *)
(* those registered since its snapshot.                                    *)
(***************************************************************************)
ToRetire(p) == IF proc[p].at = "retiring" THEN proc[p].aims ELSE proc[p].held

OthersToRetire ==
    \A p \in Process : Starting(p) => Active \ {proc[p].id} \subseteq ToRetire(p) \cup during[p]

IInv ==
    /\ TypeOK /\ RegistryConfigured /\ SignersRegistered
    /\ RowsHeldOnce /\ OthersToRetire /\ OneActiveUnlessCrossed

-----------------------------------------------------------------------------
LEMMA InitSafe ==
    ASSUME Init
    PROVE  IInv
<1>1. TypeOK
  BY DEF Init, TypeOK, Down, Stage, ProcessState
<1>2. Active = {}
  BY DEF Init, Active, Registered
<1>3. RegistryConfigured /\ SignersRegistered
  BY DEF Init, RegistryConfigured, SignersRegistered, Registered, Down
<1>4. RowsHeldOnce /\ OthersToRetire
  BY <1>2 DEF Init, RowsHeldOnce, OthersToRetire, Starting, Down
<1>5. OneActiveUnlessCrossed
  BY <1>2 DEF Init, OneActiveUnlessCrossed, Registered
<1> QED BY <1>1, <1>2, <1>3, <1>4, <1>5 DEF IInv

(* A step that leaves the registry alone, and the processes but one. *)
LEMMA ProcessMoves ==
    ASSUME IInv, NEW p \in Process, NEW q,
           proc' = [proc EXCEPT ![p] = q],
           q \in ProcessState,
           q.held # {} => q.at = "inserting",
           q.at # "down" => <<q.id, q.seed>> \in Config,
           q.at # "up",
           q.held \subseteq Active,
           \A r \in Process \ {p} : q.held \cap proc[r].held = {},
           q.at \in {"retiring", "inserting"} =>
              Active \ {q.id} \subseteq (IF q.at = "retiring" THEN q.aims ELSE q.held) \cup during'[p],
           during' \in [Process -> SUBSET KeyId],
           \A r \in Process \ {p} : during'[r] = during[r],
           UNCHANGED <<registry, receipts, crossed>>
    PROVE  IInv'
<1> USE DEF IInv
<1>0. /\ proc'[p] = q /\ \A r \in Process \ {p} : proc'[r] = proc[r]
      /\ Active' = Active
      /\ \A k \in KeyId : Registered(k)' <=> Registered(k)
  BY DEF TypeOK, Active, Registered
<1>1. TypeOK'
  BY <1>0 DEF TypeOK
<1>2. RegistryConfigured'
  BY <1>0 DEF RegistryConfigured
<1>3. SignersRegistered'
  <2>1. \A r \in Process : proc'[r].at = "up" => registry'[proc'[r].id] # NoKey
    BY <1>0 DEF SignersRegistered, Registered
  <2>2. \A r \in receipts' : registry'[r.id] # NoKey /\ <<r.id, r.signer>> \in Config
    BY DEF SignersRegistered, Registered
  <2> QED BY <2>1, <2>2 DEF SignersRegistered, Registered
<1>4. RowsHeldOnce'
  BY <1>0 DEF RowsHeldOnce
<1>5. OthersToRetire'
  <2> SUFFICES ASSUME NEW r \in Process, Starting(r)'
               PROVE  (Active \ {proc[r].id} \subseteq ToRetire(r) \cup during[r])'
    BY DEF OthersToRetire
  <2>1. CASE r = p
    BY <2>1, <1>0 DEF Starting, ToRetire
  <2>2. CASE r # p
    BY <2>2, <1>0 DEF OthersToRetire, Starting, ToRetire
  <2> QED BY <2>1, <2>2
<1>6. OneActiveUnlessCrossed'
  BY <1>0 DEF OneActiveUnlessCrossed
<1> QED BY <1>1, <1>2, <1>3, <1>4, <1>5, <1>6

LEMMA StartSafe ==
    ASSUME IInv, NEW p \in Process, NEW c \in Config, Start(p, c[1], c[2])
    PROVE  IInv'
<1> DEFINE q == [at |-> "retiring", id |-> c[1], seed |-> c[2], aims |-> Others(c[1]), held |-> {}]
<1>1. c[1] \in KeyId /\ c[2] \in Seed /\ c = <<c[1], c[2]>>
  BY ConfigAssumption
<1>2. Others(c[1]) = Active \ {c[1]} /\ Active \subseteq KeyId
  BY DEF Others, Active
<1>3. proc' = [proc EXCEPT ![p] = q]
  BY DEF Start
<1>4. q \in ProcessState
  BY <1>1, <1>2 DEF Stage, ProcessState
<1>5. during' \in [Process -> SUBSET KeyId] /\ \A r \in Process \ {p} : during'[r] = during[r]
  BY DEF Start, IInv, TypeOK
<1>6. UNCHANGED <<registry, receipts, crossed>>
  BY DEF Start
<1> HIDE DEF q
<1>7. q.at = "retiring" /\ q.held = {} /\ q.id = c[1] /\ q.seed = c[2] /\ q.aims = Active \ {c[1]}
  BY <1>2 DEF q
<1>8. /\ q.held # {} => q.at = "inserting"
      /\ q.at # "down" => <<q.id, q.seed>> \in Config
      /\ q.at # "up"
      /\ q.held \subseteq Active
      /\ \A r \in Process \ {p} : q.held \cap proc[r].held = {}
      /\ Active \ {q.id} \subseteq (IF q.at = "retiring" THEN q.aims ELSE q.held) \cup during'[p]
  BY <1>1, <1>7
<1> QED BY <1>3, <1>4, <1>5, <1>6, <1>8, ProcessMoves

LEMMA RetireSafe ==
    ASSUME IInv, NEW p \in Process, Retire(p)
    PROVE  IInv'
<1> DEFINE q == [proc[p] EXCEPT !.at = "inserting", !.held = proc[p].aims \cap Active]
<1>0. /\ proc[p] \in ProcessState
      /\ proc[p].at = "retiring" /\ <<proc[p].id, proc[p].seed>> \in Config
      /\ during \in [Process -> SUBSET KeyId]
  BY DEF IInv, TypeOK, Retire
<1>1. q \in ProcessState
  BY <1>0 DEF Stage, ProcessState
<1>2. proc' = [proc EXCEPT ![p] = q] /\ UNCHANGED <<registry, receipts, overlaps>>
  BY DEF Retire
<1>3. \A r \in Process \ {p} : proc[p].aims \cap proc[r].held = {}
  BY DEF Retire, HeldByOther
<1>4. Active \ {proc[p].id} \subseteq proc[p].aims \cup during[p]
  BY <1>0 DEF IInv, OthersToRetire, Starting, ToRetire
<1>5. q.at = "inserting" /\ q.id = proc[p].id /\ q.seed = proc[p].seed /\ q.held = proc[p].aims \cap Active
  BY <1>0
<1> HIDE DEF q
<1>6. UNCHANGED <<registry, receipts, crossed, during>>
  BY <1>2 DEF overlaps
<1>7. \A r \in Process \ {p} : q.held \cap proc[r].held = {}
  BY <1>3, <1>5
<1>8. Active \ {q.id} \subseteq q.held \cup during'[p]
  BY <1>4, <1>5, <1>6
<1> QED BY <1>0, <1>1, <1>2, <1>5, <1>6, <1>7, <1>8, ProcessMoves

(* A process that ends, of itself or not, releases what it had locked. *)
LEMMA DownSafe ==
    ASSUME IInv, NEW p \in Process, RejectKey(p) \/ Stop(p) \/ Victim(p)
    PROVE  IInv'
<1>1. proc' = [proc EXCEPT ![p] = Down] /\ UNCHANGED <<registry, receipts, during, crossed>>
  BY DEF RejectKey, Stop, Victim, overlaps
<1>2. /\ Down \in ProcessState
      /\ Down.at = "down" /\ Down.held = {}
  BY DEF Down, Stage, ProcessState
<1>3. during \in [Process -> SUBSET KeyId]
  BY DEF IInv, TypeOK
<1> DEFINE q == Down
<1> HIDE DEF q
<1>4. /\ proc' = [proc EXCEPT ![p] = q]
      /\ q \in ProcessState
      /\ q.at = "down" /\ q.held = {}
  BY <1>1, <1>2 DEF q
<1>5. /\ q.held # {} => q.at = "inserting"
      /\ q.at # "down" => <<q.id, q.seed>> \in Config
      /\ q.at # "up"
      /\ q.held \subseteq Active
      /\ \A r \in Process \ {p} : q.held \cap proc[r].held = {}
      /\ q.at \notin {"retiring", "inserting"}
  BY <1>4
<1>6. /\ during' \in [Process -> SUBSET KeyId]
      /\ \A r \in Process \ {p} : during'[r] = during[r]
      /\ UNCHANGED <<registry, receipts, crossed>>
  BY <1>1, <1>3
<1> QED BY <1>4, <1>5, <1>6, ProcessMoves

LEMMA IssueSafe ==
    ASSUME IInv, NEW p \in Process, Issue(p)
    PROVE  IInv'
<1> USE DEF IInv
<1>0. /\ UNCHANGED <<registry, proc, during, crossed>>
      /\ proc[p].at = "up"
      /\ receipts' = receipts \cup {[id |-> proc[p].id, signer |-> proc[p].seed]}
  BY DEF Issue, MaySign, overlaps
<1>1. <<proc[p].id, proc[p].seed>> \in Config /\ proc[p].id \in KeyId /\ proc[p].seed \in Seed
  BY <1>0, ConfigAssumption DEF TypeOK
<1>2. TypeOK'
  BY <1>0, <1>1 DEF TypeOK
<1>3. SignersRegistered'
  BY <1>0, <1>1 DEF SignersRegistered, Registered
<1>4. RegistryConfigured' /\ RowsHeldOnce' /\ OthersToRetire' /\ OneActiveUnlessCrossed'
  BY <1>0 DEF RegistryConfigured, RowsHeldOnce, OthersToRetire, OneActiveUnlessCrossed, Registered,
              Active, Starting, ToRetire
<1> QED BY <1>2, <1>3, <1>4

-----------------------------------------------------------------------------
(* What a registration does to the registry. *)
LEMMA RegisterWrites ==
    ASSUME IInv, NEW p \in Process, Register(p)
    PROVE  /\ proc[p].id \in KeyId /\ <<proc[p].id, proc[p].seed>> \in Config
           /\ registry' \in [KeyId -> Key \cup {NoKey}]
           /\ \A k \in KeyId : Registered(k)' <=> Registered(k) \/ k = proc[p].id
           /\ registry'[proc[p].id].seed = proc[p].seed
           /\ \A k \in KeyId \ {proc[p].id} : Registered(k) => registry'[k].seed = registry[k].seed
           /\ Active' = NowActive(p)
<1> USE DEF IInv
<1>0. /\ proc[p].at = "inserting" /\ <<proc[p].id, proc[p].seed>> \in Config
      /\ proc[p].id \in KeyId /\ proc[p].seed \in Seed
      /\ registry \in [KeyId -> Key \cup {NoKey}]
      /\ proc[p].held \subseteq Active
      /\ NoKey \notin Key
  BY ConfigAssumption DEF TypeOK, Register, RowsHeldOnce
<1>1. registry' = [k \in KeyId |->
         IF k = proc[p].id THEN Upserted(proc[p].id, proc[p].seed)
         ELSE IF k \in proc[p].held THEN Retired(k)
         ELSE registry[k]]
  BY DEF Register, NewRegistry
<1>2. /\ registry'[proc[p].id] = [seed |-> proc[p].seed, active |-> TRUE]
      /\ registry'[proc[p].id] \in Key
  BY <1>0, <1>1 DEF Upserted, Key
<1>3. \A k \in proc[p].held \ {proc[p].id} :
         /\ Registered(k) /\ registry'[k] \in Key
         /\ registry'[k].seed = registry[k].seed /\ ~registry'[k].active
  <2> SUFFICES ASSUME NEW k \in proc[p].held \ {proc[p].id}
               PROVE  /\ Registered(k) /\ registry'[k] \in Key
                      /\ registry'[k].seed = registry[k].seed /\ ~registry'[k].active
    OBVIOUS
  <2>1. k \in KeyId /\ Registered(k)
    BY <1>0 DEF Active
  <2>2. registry[k] \in Key
    BY <2>1, <1>0 DEF Registered
  <2>3. registry'[k] = [registry[k] EXCEPT !.active = FALSE]
    BY <2>1, <1>1 DEF Retired
  <2> QED BY <2>1, <2>2, <2>3 DEF Key
<1>4. \A k \in KeyId : k # proc[p].id /\ k \notin proc[p].held => registry'[k] = registry[k]
  BY <1>1
<1>5. registry' \in [KeyId -> Key \cup {NoKey}]
  <2>1. \A k \in KeyId : registry'[k] \in Key \cup {NoKey}
    BY <1>0, <1>2, <1>3, <1>4
  <2> QED BY <2>1, <1>1
<1>6. \A k \in KeyId : Registered(k)' <=> Registered(k) \/ k = proc[p].id
  BY <1>0, <1>2, <1>3, <1>4 DEF Registered
<1>7. \A k \in KeyId \ {proc[p].id} : Registered(k) => registry'[k].seed = registry[k].seed
  BY <1>3, <1>4
<1>8. Active' = NowActive(p)
  <2>1. \A k \in KeyId : k \in Active' <=> k \in NowActive(p)
    <3> SUFFICES ASSUME NEW k \in KeyId PROVE k \in Active' <=> k \in NowActive(p)
      OBVIOUS
    <3>1. CASE k = proc[p].id
      BY <3>1, <1>2, <1>6 DEF Active, NowActive
    <3>2. CASE k # proc[p].id /\ k \in proc[p].held
      BY <3>2, <1>3 DEF Active, NowActive
    <3>3. CASE k # proc[p].id /\ k \notin proc[p].held
      BY <3>3, <1>4 DEF Active, NowActive, Registered
    <3> QED BY <3>1, <3>2, <3>3 DEF ProcessState
  <2> QED BY <2>1, <1>0 DEF Active, NowActive
<1> QED BY <1>0, <1>2, <1>5, <1>6, <1>7, <1>8

(***************************************************************************)
(* A registration: the keys it leaves active were registered while it was  *)
(* starting, or are its own.                                               *)
(***************************************************************************)
LEMMA RegisterSafe ==
    ASSUME IInv, NEW p \in Process, Register(p)
    PROVE  IInv'
<1> USE DEF IInv
<1>0. /\ proc[p].id \in KeyId /\ <<proc[p].id, proc[p].seed>> \in Config
      /\ registry' \in [KeyId -> Key \cup {NoKey}]
      /\ \A k \in KeyId : Registered(k)' <=> Registered(k) \/ k = proc[p].id
      /\ registry'[proc[p].id].seed = proc[p].seed
      /\ \A k \in KeyId \ {proc[p].id} : Registered(k) => registry'[k].seed = registry[k].seed
      /\ Active' = (Active \ proc[p].held) \cup {proc[p].id}
  BY RegisterWrites DEF NowActive
<1>1. /\ proc[p].at = "inserting" /\ receipts' = receipts
      /\ ~HeldByOther(p, proc[p].id)
      /\ proc' = [proc EXCEPT ![p] = [@ EXCEPT !.at = "up", !.aims = {}, !.held = {}]]
      /\ during' = [q \in Process |-> IF q # p /\ Starting(q) THEN during[q] \cup {proc[p].id}
                                     ELSE during[q]]
      /\ crossed' = {pair \in crossed : pair \subseteq NowActive(p)}
                       \cup {{proc[p].id, k} : k \in during[p]}
  BY DEF Register, Overlapping
<1>2. /\ proc \in [Process -> ProcessState]
      /\ during \in [Process -> SUBSET KeyId] /\ crossed \subseteq SUBSET KeyId
  BY DEF TypeOK
<1>3. /\ proc'[p].at = "up" /\ proc'[p].id = proc[p].id /\ proc'[p].seed = proc[p].seed
      /\ proc'[p].held = {}
      /\ \A q \in Process \ {p} : proc'[q] = proc[q]
  BY <1>1, <1>2
<1>4. proc' \in [Process -> ProcessState]
  <2>1. proc'[p] \in ProcessState
    <3>1. proc'[p] = [proc[p] EXCEPT !.at = "up", !.aims = {}, !.held = {}]
      BY <1>1, <1>2
    <3>2. proc[p] \in ProcessState
      BY <1>2
    <3>3. "up" \in Stage
      BY DEF Stage
    <3> HIDE DEF Stage
    <3> QED BY <3>1, <3>2, <3>3 DEF ProcessState
  <2> QED BY <2>1, <1>1, <1>2
<1>5. TypeOK'
  <2>1. during' \in [Process -> SUBSET KeyId]
    BY <1>0, <1>1, <1>2
  <2>2. crossed' \subseteq SUBSET KeyId
    BY <1>0, <1>1, <1>2
  <2>3. \A q \in Process : /\ proc'[q].held # {} => proc'[q].at = "inserting"
                           /\ proc'[q].at # "down" => <<proc'[q].id, proc'[q].seed>> \in Config
    BY <1>0, <1>3 DEF TypeOK
  <2>4. receipts' \subseteq [id : KeyId, signer : Seed]
    BY <1>1 DEF TypeOK
  <2>5. registry' \in [KeyId -> Key \cup {NoKey}]
    BY <1>0
  <2> QED BY <1>4, <2>1, <2>2, <2>3, <2>4, <2>5 DEF TypeOK
<1>6. RegistryConfigured'
  BY <1>0 DEF RegistryConfigured
<1>7. SignersRegistered'
  <2>0. \A k \in KeyId : registry'[k] # NoKey <=> registry[k] # NoKey \/ k = proc[p].id
    BY <1>0 DEF Registered
  <2>1. \A q \in Process : proc'[q].at = "up" => registry'[proc'[q].id] # NoKey
    <3> SUFFICES ASSUME NEW q \in Process, proc'[q].at = "up" PROVE registry'[proc'[q].id] # NoKey
      OBVIOUS
    <3>1. proc'[q].id \in KeyId
      <4>1. <<proc'[q].id, proc'[q].seed>> \in Config
        BY <1>5 DEF TypeOK
      <4> QED BY <4>1, ConfigAssumption
    <3>2. CASE q = p BY <3>1, <3>2, <2>0, <1>3
    <3>3. CASE q # p BY <3>1, <3>3, <2>0, <1>3 DEF SignersRegistered, Registered
    <3> QED BY <3>2, <3>3
  <2>2. \A r \in receipts' : registry'[r.id] # NoKey /\ <<r.id, r.signer>> \in Config
    BY <2>0, <1>1 DEF SignersRegistered, TypeOK, Registered
  <2> QED BY <2>1, <2>2 DEF SignersRegistered, Registered
<1>8. RowsHeldOnce'
  <2>1. \A q \in Process \ {p} : proc[q].held \subseteq Active'
    <3> SUFFICES ASSUME NEW q \in Process \ {p} PROVE proc[q].held \subseteq Active \ proc[p].held
      BY <1>0
    <3> QED BY DEF RowsHeldOnce
  <2> QED BY <2>1, <1>3 DEF RowsHeldOnce
<1>9. OthersToRetire'
  <2> SUFFICES ASSUME NEW q \in Process, Starting(q)'
               PROVE  (Active \ {proc[q].id} \subseteq ToRetire(q) \cup during[q])'
    BY DEF OthersToRetire
  <2>1. q # p /\ Starting(q) /\ ToRetire(q)' = ToRetire(q) /\ proc'[q].id = proc[q].id
    BY <1>3 DEF Starting, ToRetire
  <2>2. Active \ {proc[q].id} \subseteq ToRetire(q) \cup during[q]
    BY <2>1 DEF OthersToRetire
  <2>3. during'[q] = during[q] \cup {proc[p].id}
    BY <2>1, <1>1
  <2> QED BY <2>1, <2>2, <2>3, <1>0
<1>10. OneActiveUnlessCrossed'
  <2>1. Active' # {}
    BY <1>0
  <2>2. \A a, b \in Active' : a # b => {a, b} \in crossed'
    <3>1. \A k \in Active \ proc[p].held : k # proc[p].id => {proc[p].id, k} \in crossed'
      <4> SUFFICES ASSUME NEW k \in Active \ proc[p].held, k # proc[p].id
                   PROVE  {proc[p].id, k} \in crossed'
        OBVIOUS
      <4>1. k \in during[p]
        BY <1>1 DEF OthersToRetire, Starting, ToRetire
      <4> QED BY <4>1, <1>1
    <3>2. \A a, b \in Active \ proc[p].held : a # b => {a, b} \in crossed'
      <4> SUFFICES ASSUME NEW a \in Active \ proc[p].held, NEW b \in Active \ proc[p].held, a # b
                   PROVE  {a, b} \in crossed'
        OBVIOUS
      <4>1. {a, b} \in crossed
        BY DEF OneActiveUnlessCrossed
      <4>2. {a, b} \subseteq NowActive(p)
        BY DEF NowActive
      <4> QED BY <4>1, <4>2, <1>1
    <3> SUFFICES ASSUME NEW a \in Active', NEW b \in Active', a # b
                 PROVE  {a, b} \in crossed'
      OBVIOUS
    <3>3. CASE a = proc[p].id
      BY <3>3, <3>1, <1>0
    <3>4. CASE b = proc[p].id
      <4>1. {a, b} = {b, a}
        OBVIOUS
      <4> QED BY <4>1, <3>4, <3>1, <1>0
    <3>5. CASE a # proc[p].id /\ b # proc[p].id
      BY <3>5, <3>2, <1>0
    <3> QED BY <3>3, <3>4, <3>5
  <2> QED BY <2>1, <2>2 DEF OneActiveUnlessCrossed
<1> QED BY <1>5, <1>6, <1>7, <1>8, <1>9, <1>10

LEMMA StepSafe ==
    ASSUME IInv, [Next]_vars
    PROVE  IInv'
<1>1. CASE UNCHANGED vars
  BY <1>1 DEF vars, overlaps, IInv, TypeOK, RegistryConfigured, SignersRegistered, RowsHeldOnce,
              OthersToRetire, OneActiveUnlessCrossed, Registered, Active, Starting, ToRetire
<1>2. ASSUME NEW p \in Process, \E c \in Config : Start(p, c[1], c[2]) PROVE IInv'
  BY <1>2, StartSafe
<1>3. ASSUME NEW p \in Process, Finish(p) \/ Stop(p) \/ Victim(p) \/ Issue(p) PROVE IInv'
  BY <1>3, RetireSafe, RegisterSafe, DownSafe, IssueSafe DEF Finish
<1> QED BY <1>1, <1>2, <1>3 DEF Next

LEMMA Inductive == Spec => []IInv
<1>1. Init => IInv
  BY InitSafe
<1>2. IInv /\ [Next]_vars => IInv'
  BY StepSafe
<1> QED BY <1>1, <1>2, PTL DEF Spec

-----------------------------------------------------------------------------
(***************************************************************************)
(* Whatever processes start, crash, deadlock and sign, the registry keeps  *)
(* to its types, and only a process that registers its key holds rows      *)
(* locked (main.py:105-125).                                               *)
(***************************************************************************)
THEOREM TypeCorrect == Spec => []TypeOK
<1>1. IInv => TypeOK
  BY DEF IInv
<1> QED BY <1>1, Inductive, PTL

(***************************************************************************)
(* While every key id names one key, every receipt ever issued verifies    *)
(* against the registry, through any rotation, overlapping startup, crash  *)
(* or deadlock (main.py:105-125, 618-659).                                 *)
(***************************************************************************)
THEOREM ReceiptsVerify ==
    ASSUME OneKeyPerId
    PROVE  Spec => []ReceiptsStayVerifiable
<1>1. IInv => ReceiptsStayVerifiable
  <2> SUFFICES ASSUME IInv, NEW r \in receipts PROVE Verifies(r)
    BY DEF ReceiptsStayVerifiable
  <2>1. r.id \in KeyId /\ Registered(r.id) /\ <<r.id, r.signer>> \in Config
    BY DEF IInv, TypeOK, SignersRegistered
  <2>2. <<r.id, registry[r.id].seed>> \in Config
    BY <2>1 DEF IInv, RegistryConfigured
  <2>3. registry[r.id].seed = r.signer
    BY <2>1, <2>2, OneKeyPerId DEF OneKeyPerId
  <2> QED BY <2>1, <2>3 DEF Verifies
<1> QED BY <1>1, Inductive, PTL

(***************************************************************************)
(* After the first registration some key is always active, and two are     *)
(* only if one was registered while the other's process was starting, for  *)
(* any number of processes starting over each other (main.py:111-123).     *)
(***************************************************************************)
THEOREM ActiveUnlessCrossed == Spec => []OneActiveUnlessCrossed
<1>1. IInv => OneActiveUnlessCrossed
  BY DEF IInv
<1> QED BY <1>1, Inductive, PTL

(***************************************************************************)
(* What a startup is about to retire is still active and locked by it      *)
(* alone: no two startups retire one row (main.py:111-117).                *)
(***************************************************************************)
THEOREM RetiredByOne == Spec => []RowsHeldOnce
<1>1. IInv => RowsHeldOnce
  BY DEF IInv
<1> QED BY <1>1, Inductive, PTL

-----------------------------------------------------------------------------
(***************************************************************************)
(* Waiting.  Finitely many processes start at a time, and each waits for   *)
(* processes that start.                                                   *)
(***************************************************************************)
AllStarting == {p \in Process : Starting(p)}
FewStart == IsFiniteSet(AllStarting)

LEMMA AlwaysFewStart == Spec => []FewStart
<1>1. Init => FewStart
  <2> SUFFICES ASSUME Init PROVE AllStarting = {}
    BY FS_EmptySet DEF FewStart
  <2> QED BY DEF Init, AllStarting, Starting, Down
<1>2. ASSUME IInv, FewStart, NEW p \in Process, NEW q, proc' = [proc EXCEPT ![p] = q]
      PROVE  FewStart'
  <2>1. \A r \in Process \ {p} : proc'[r] = proc[r]
    BY <1>2 DEF IInv, TypeOK
  <2>2. AllStarting' \in SUBSET (AllStarting \cup {p})
    BY <2>1 DEF AllStarting, Starting
  <2>3. IsFiniteSet(AllStarting \cup {p})
    BY <1>2, FS_AddElement DEF FewStart
  <2> QED BY <2>2, <2>3, FS_Subset DEF FewStart
<1>3. ASSUME IInv, FewStart, proc' = proc PROVE FewStart'
  BY <1>3 DEF FewStart, AllStarting, Starting
<1>4. ASSUME NEW p \in Process, \E c \in Config : Start(p, c[1], c[2])
      PROVE  \E q : proc' = [proc EXCEPT ![p] = q]
  BY <1>4 DEF Start
<1>5. ASSUME NEW p \in Process, Finish(p) \/ Stop(p) \/ Victim(p) \/ Issue(p)
      PROVE  proc' = proc \/ \E q : proc' = [proc EXCEPT ![p] = q]
  <2>1. CASE Retire(p)
    BY <2>1 DEF Retire
  <2>2. CASE Register(p)
    BY <2>2 DEF Register
  <2>3. CASE RejectKey(p) \/ Stop(p) \/ Victim(p) \/ Issue(p)
    BY <2>3 DEF RejectKey, Stop, Victim, Issue
  <2> QED BY <1>5, <2>1, <2>2, <2>3 DEF Finish
<1>6. IInv /\ FewStart /\ [Next]_vars => FewStart'
  BY <1>2, <1>3, <1>4, <1>5 DEF Next, vars
<1> QED BY <1>1, <1>6, Inductive, PTL DEF Spec

(***************************************************************************)
(* Where everybody waits for somebody, a least set of processes that waits *)
(* for itself has no member for which nobody in it waits.                  *)
(***************************************************************************)
WaitWithin(S) == \A q \in S : BlockedBy(q) \cap S # {}

LEMMA WaitersCycle ==
    ASSUME NEW W \in SUBSET Process, IsFiniteSet(W), W # {}, WaitWithin(W)
    PROVE  \E p \in W : InCycle(p)
<1> DEFINE Waiting == {S \in SUBSET W : S # {} /\ WaitWithin(S)}
<1>1. Waiting \subseteq FiniteSubsetsOf(W) /\ Waiting # {}
  <2>1. \A S \in SUBSET W : IsFiniteSet(S)
    BY FS_Subset
  <2> QED BY <2>1 DEF FiniteSubsetsOf
<1>2. IsWellFoundedOn(StrictSubsetOrdering(W), FiniteSubsetsOf(W))
  BY FS_StrictSubsetOrderingWellFounded
<1>3. \E S \in Waiting : \A T \in Waiting : <<T, S>> \notin StrictSubsetOrdering(W)
  <2> HIDE DEF Waiting
  <2> QED BY <1>1, <1>2, WFMin
<1>4. PICK S \in Waiting : \A T \in Waiting : <<T, S>> \notin StrictSubsetOrdering(W)
  BY <1>3
<1>5. S \in SUBSET W /\ S # {} /\ WaitWithin(S)
  OBVIOUS
<1>6. ASSUME NEW q \in S, \A r \in S : q \notin BlockedBy(r)
      PROVE  FALSE
  <2> DEFINE T == S \ {q}
  <2>1. T # {} /\ WaitWithin(T)
    <3>1. \A r \in S : BlockedBy(r) \cap T = BlockedBy(r) \cap S
      BY <1>6
    <3>2. \A r \in S : BlockedBy(r) \cap T # {}
      BY <3>1, <1>5 DEF WaitWithin
    <3> QED BY <3>2, <1>5 DEF WaitWithin
  <2>2. T \in SUBSET W /\ T # S
    BY <1>5
  <2>3. <<T, S>> \in StrictSubsetOrdering(W)
    BY <2>2, <1>5 DEF StrictSubsetOrdering
  <2> QED BY <1>4, <2>1, <2>2, <2>3
<1>7. \A q \in S : BlockedBy(q) \cap S # {} /\ \E r \in S : q \in BlockedBy(r)
  BY <1>5, <1>6 DEF WaitWithin
<1> QED BY <1>5, <1>7 DEF InCycle

(***************************************************************************)
(* While a process starts, one of the starting processes waits for nobody, *)
(* or PostgreSQL's detector has a cycle to break: startups do not stall in *)
(* any other way, whatever keys they retire and insert (main.py:111-123).  *)
(***************************************************************************)
StartupsMoveOrDeadlock ==
    (\E p \in Process : Starting(p)) =>
        \E p \in Process : Starting(p) /\ (BlockedBy(p) = {} \/ InCycle(p))

THEOREM StartupsNeverStall == Spec => []StartupsMoveOrDeadlock
<1>1. ASSUME IInv, FewStart PROVE StartupsMoveOrDeadlock
  <2> SUFFICES ASSUME AllStarting # {}, \A p \in AllStarting : BlockedBy(p) # {}
               PROVE  \E p \in AllStarting : InCycle(p)
    BY DEF StartupsMoveOrDeadlock, AllStarting
  <2>1. \A p \in Process : BlockedBy(p) \subseteq AllStarting
    <3>1. \A q \in Process : proc[q].held # {} => proc[q].at = "inserting"
      BY <1>1 DEF IInv, TypeOK
    <3> QED BY <3>1 DEF BlockedBy, AllStarting, Starting
  <2>2. WaitWithin(AllStarting) /\ AllStarting \in SUBSET Process
    BY <2>1 DEF WaitWithin, AllStarting
  <2> QED BY <1>1, <2>2, WaitersCycle DEF FewStart
<1> QED BY <1>1, Inductive, AlwaysFewStart, PTL

=============================================================================
