----------------------------- MODULE SigningKeys ----------------------------
(***************************************************************************)
(* The registry of military receipt signing keys across restarts and       *)
(* rolling deployments (src/app/main.py).                                  *)
(*                                                                         *)
(* A starting process registers the key of its environment in one          *)
(* transaction: an UPDATE that retires the other active keys, whose rows   *)
(* it then keeps locked, and an upsert of its own row.  A running process  *)
(* signs receipts with the key of its environment; a receipt names its key *)
(* and is later verified against whatever the registry holds under it.     *)
(***************************************************************************)
EXTENDS Naturals

CONSTANTS
    Process,
    KeyId,       \* VAULT_MIL_RECEIPT_KEY_ID, or the id derived from the seed
    Seed,        \* the Ed25519 seeds; a seed also stands for its public key
    Config,      \* the pairs of a key id and a seed a process is started with
    NoKey

Key == [seed : Seed, active : BOOLEAN]

ASSUME ConfigAssumption ==
    /\ Config \subseteq KeyId \X Seed
    /\ NoKey \notin KeyId \cup Seed \cup Key

VARIABLES
    registry,    \* military_receipt_signing_keys, committed rows
    proc,        \* what each process is at, the key of its environment, the
                 \* rows its UPDATE is for and those it has locked
    receipts,    \* the receipts issued, each with its key id and signer
    during,      \* the keys registered while each process was starting, and
    crossed      \* the pairs of active keys whose startups overlapped: only
                 \* the properties read these two

overlaps == <<during, crossed>>
vars == <<registry, proc, receipts, overlaps>>

Registered(k) == registry[k] # NoKey
Active == {k \in KeyId : Registered(k) /\ registry[k].active}

Stage == {"down", "retiring", "inserting", "up"}
ProcessState == [at : Stage, id : KeyId \cup {NoKey}, seed : Seed \cup {NoKey},
                 aims : SUBSET KeyId, held : SUBSET KeyId]
Starting(p) == proc[p].at \in {"retiring", "inserting"}
Down == [at |-> "down", id |-> NoKey, seed |-> NoKey, aims |-> {}, held |-> {}]

Init ==
    /\ registry = [k \in KeyId |-> NoKey]
    /\ proc = [p \in Process |-> Down]
    /\ receipts = {}
    /\ during = [p \in Process |-> {}]
    /\ crossed = {}

-----------------------------------------------------------------------------
(* The first statement of the registration takes its snapshot. *)
Others_None(id) == {}
Others(id) == Active \ {id}

Start(p, id, seed) ==
    /\ proc[p].at = "down"
    /\ proc' = [proc EXCEPT ![p] = [at |-> "retiring", id |-> id, seed |-> seed,
                                    aims |-> Others(id), held |-> {}]]
    /\ during' = [during EXCEPT ![p] = {}]
    /\ UNCHANGED <<registry, receipts, crossed>>

HeldByOther(p, k) == \E q \in Process \ {p} : k \in proc[q].held

(* It has every row it is for, and checks again which of them are active. *)
Retire(p) ==
    /\ proc[p].at = "retiring"
    /\ \A k \in proc[p].aims : ~HeldByOther(p, k)
    /\ proc' = [proc EXCEPT ![p] = [@ EXCEPT !.at = "inserting", !.held = proc[p].aims \cap Active]]
    /\ UNCHANGED <<registry, receipts, overlaps>>

(* UNIQUE fingerprint_sha256: one key cannot be registered under two ids. *)
TakenFingerprint(id, seed) == \E k \in KeyId \ {id} : Registered(k) /\ registry[k].seed = seed

(* ON CONFLICT (key_id) DO UPDATE writes the key and sets it active. *)
Upserted(id, seed) == [seed |-> seed, active |-> TRUE]

Retired_KeyCleared(k) == [registry[k] EXCEPT !.active = FALSE, !.seed = NoKey]
Retired(k) == [registry[k] EXCEPT !.active = FALSE]

NewRegistry(p) ==
    [k \in KeyId |->
        IF k = proc[p].id THEN Upserted(proc[p].id, proc[p].seed)
        ELSE IF k \in proc[p].held THEN Retired(k)
        ELSE registry[k]]

NowActive(p) == (Active \ proc[p].held) \cup {proc[p].id}

(* The registration is over: who was starting has overlapped with it. *)
Overlapping(p) ==
    /\ during' = [q \in Process |-> IF q # p /\ Starting(q) THEN during[q] \cup {proc[p].id}
                                   ELSE during[q]]
    /\ crossed' = {pair \in crossed : pair \subseteq NowActive(p)}
                     \cup {{proc[p].id, k} : k \in during[p]}

Register(p) ==
    /\ proc[p].at = "inserting"
    /\ ~HeldByOther(p, proc[p].id)
    /\ ~TakenFingerprint(proc[p].id, proc[p].seed)
    /\ registry' = NewRegistry(p)
    /\ proc' = [proc EXCEPT ![p] = [@ EXCEPT !.at = "up", !.aims = {}, !.held = {}]]
    /\ Overlapping(p)
    /\ UNCHANGED receipts

(* The unique violation ends the startup, and the process. *)
RejectKey(p) ==
    /\ proc[p].at = "inserting"
    /\ ~HeldByOther(p, proc[p].id)
    /\ TakenFingerprint(proc[p].id, proc[p].seed)
    /\ proc' = [proc EXCEPT ![p] = Down]
    /\ UNCHANGED <<registry, receipts, overlaps>>

(* A crash at any time, or the end of a running process. *)
Stop(p) ==
    /\ proc[p].at # "down"
    /\ proc' = [proc EXCEPT ![p] = Down]
    /\ UNCHANGED <<registry, receipts, overlaps>>

-----------------------------------------------------------------------------
(* PostgreSQL's deadlock detector ends one of the transactions of a cycle. *)
BlockedBy(p) ==
    {q \in Process \ {p} :
        \/ proc[p].at = "retiring" /\ proc[p].aims \cap proc[q].held # {}
        \/ proc[p].at = "inserting" /\ proc[p].id \in proc[q].held}

InCycle_Never(p) == BlockedBy(p) = Process
InCycle(p) ==
    \E S \in SUBSET Process :
        /\ p \in S
        /\ \A q \in S : BlockedBy(q) \cap S # {} /\ \E r \in S : q \in BlockedBy(r)

Victim(p) ==
    /\ InCycle(p)
    /\ proc' = [proc EXCEPT ![p] = Down]
    /\ UNCHANGED <<registry, receipts, overlaps>>

-----------------------------------------------------------------------------
(* military_release_receipt: signed with the key of the environment. *)
MaySign_WhileStarting(p) == proc[p].at # "down"
MaySign(p) == proc[p].at = "up"

Issue(p) ==
    /\ MaySign(p)
    /\ receipts' = receipts \cup {[id |-> proc[p].id, signer |-> proc[p].seed]}
    /\ UNCHANGED <<registry, proc, overlaps>>

(* verify_military_receipt_file: the key registered under the receipt's id. *)
Verifies(r) == Registered(r.id) /\ registry[r.id].seed = r.signer

Finish(p) == Retire(p) \/ Register(p) \/ RejectKey(p)

Next ==
    \/ \E p \in Process, c \in Config : Start(p, c[1], c[2])
    \/ \E p \in Process : Finish(p) \/ Stop(p) \/ Victim(p) \/ Issue(p)

Spec == Init /\ [][Next]_vars

(***************************************************************************)
(* A startup that is not waiting runs on, and the waiters of a row lock    *)
(* are queued, so that others who come and go do not overtake one for      *)
(* ever.  The detector finds every cycle.                                  *)
(***************************************************************************)
Fairness ==
    /\ \A p \in Process : SF_vars(Finish(p))
    /\ WF_vars(\E p \in Process : Victim(p))

LiveSpec == Spec /\ Fairness

-----------------------------------------------------------------------------
(* The variables keep to their types; only a registering process holds rows. *)
TypeOK ==
    /\ registry \in [KeyId -> Key \cup {NoKey}]
    /\ proc \in [Process -> ProcessState]
    /\ receipts \subseteq [id : KeyId, signer : Seed]
    /\ during \in [Process -> SUBSET KeyId]
    /\ crossed \subseteq SUBSET KeyId
    /\ \A p \in Process : /\ proc[p].held # {} => proc[p].at = "inserting"
                          /\ proc[p].at # "down" => <<proc[p].id, proc[p].seed>> \in Config

(***************************************************************************)
(* "Current and retired Ed25519 public keys remain registered so older     *)
(* military release receipts can still be verified after rotation" (ui/    *)
(* index.html:95): across restarts, rolling deployments and failed starts  *)
(* every receipt verifies against the registry (main.py:105-125, 618-659). *)
(***************************************************************************)
ReceiptsStayVerifiable == \A r \in receipts : Verifies(r)

(***************************************************************************)
(* Once a key was registered there is an active one: no interleaving of    *)
(* registrations retires every key.  There are two only when one was       *)
(* registered while the process of the other was starting (main.py:111-123 *)
(* under READ COMMITTED): startups that do not overlap leave one.          *)
(***************************************************************************)
OneActiveUnlessCrossed ==
    /\ (\E k \in KeyId : Registered(k)) => Active # {}
    /\ \A a, b \in Active : a # b => {a, b} \in crossed

(***************************************************************************)
(* Every startup ends, registered or refused, though two processes whose   *)
(* keys are both active each wait for the row the other one retires        *)
(* (main.py:111-123).                                                      *)
(***************************************************************************)
StartupEnds == \A p \in Process : Starting(p) ~> ~Starting(p)

=============================================================================
