---------------------------- MODULE VaultObjects ----------------------------
(***************************************************************************)
(* Stored objects and the military record ledger (src/app/main.py): the    *)
(* policy a record is stored under, the direct read, and the transfers and *)
(* soft deletions of the ledger with their chain of custody.               *)
(*                                                                         *)
(* A transfer or a deletion reads the row without locking it and writes it *)
(* later; its write and its audit entry are one transaction.               *)
(***************************************************************************)
EXTENDS Naturals, Sequences

CONSTANTS
    Object,               \* the identifiers of the objects
    Compartment,
    MilitaryCompartment,  \* those whose name does
    Presidency,           \* the compartment of the PRESIDENT integration
    Branch,
    JointHeadquarters,
    Person,
    Role,                 \* the JANUS roles of each person
    Grant,                \* the compartments JANUS grants each person
    Asked,                \* the classifications callers ask for
    Transferring,         \* calls of transfer_military_record
    Deleting,             \* calls of delete_military_record
    Nothing               \* no row, no branch, no deletion

Call == Transferring \cup Deleting

Profile == {"VAULT-ENVELOPE", "VAULT-MIL"}

(* What a name or a value refers to, as far as _contains_military_reference tells. *)
Content == {"civil", "military"}

Row == [content : Content, level : 0..4, compartment : Compartment, profile : Profile,
        branch : Branch \cup {Nothing}, tracked : BOOLEAN,
        deletion : Deleting \cup {Nothing}]

ASSUME ObjectsAssumption ==
    /\ MilitaryCompartment \subseteq Compartment
    /\ Presidency \in Compartment
    /\ JointHeadquarters \in Branch
    /\ Asked \subseteq 0..4
    /\ Transferring \cap Deleting = {}
    /\ Nothing \notin Branch \cup Call \cup Row
    /\ Role \in [Person -> SUBSET {"platform-admin", "security-admin", "corporate-user",
                                   "service", "vendor", "contractor"}]
    /\ Grant \in [Person -> SUBSET Compartment]

VARIABLES
    row,         \* vault_objects
    custody,     \* the audit entries of each object that its history is told by
    noted,       \* the audit entries about attempts to create or to read
    told,        \* what callers were answered
    call         \* the transfers and deletions under way, with what they read

store == <<row, custody>>
answers == <<noted, told>>
vars == <<store, answers, call>>

(***************************************************************************)
(* Classifications are numbered as in auth.py: public is 0, restricted 3,  *)
(* top secret 4.                                                           *)
(***************************************************************************)
Restricted == 3
ScifRequired == {3, 4}

Exists(o) == row[o] # Nothing

(* The branch a row counts for: an unassigned record is the headquarters'. *)
Assigned(r) == IF r.branch = Nothing THEN JointHeadquarters ELSE r.branch

(* A VAULT-MIL row, which is what the ledger's queries select. *)
InLedger(o) == Exists(o) /\ row[o].profile = "VAULT-MIL"

-----------------------------------------------------------------------------
(***************************************************************************)
(* auth.py: a person's clearance is the highest of their roles', and the   *)
(* platform administrator holds every compartment.                         *)
(***************************************************************************)
RoleClearance(r) ==
    CASE r = "platform-admin" -> 4
      [] r \in {"security-admin", "service"} -> 3
      [] r = "corporate-user" -> 2
      [] OTHER -> 1

Cleared(p, level) == level = 0 \/ \E r \in Role[p] : RoleClearance(r) >= level
Holds(p, compartment) == "platform-admin" \in Role[p] \/ compartment \in Grant[p]

Authorized(p, level, compartment) == Cleared(p, level) /\ Holds(p, compartment)

(***************************************************************************)
(* _enforce_military_object_policy: what refers to the military is stored  *)
(* under VAULT-MIL and at least restricted.                                *)
(***************************************************************************)
Military_ContentOnly(content, compartment) == content = "military" /\ compartment \in Compartment
Military(content, compartment) == content = "military" \/ compartment \in MilitaryCompartment

Floored(military, level) == IF military /\ level < Restricted THEN Restricted ELSE level

Stored(content, level, compartment, profile, branch) ==
    LET military == Military(content, compartment)
    IN  [content |-> content, level |-> Floored(military, level), compartment |-> compartment,
         profile |-> IF military THEN "VAULT-MIL" ELSE profile,
         branch |-> IF military THEN branch ELSE Nothing,
         tracked |-> military, deletion |-> Nothing]

-----------------------------------------------------------------------------
Init ==
    /\ row = [o \in Object |-> Nothing]
    /\ custody = [o \in Object |-> << >>]
    /\ noted = {}
    /\ told = {}
    /\ call = [c \in Call |-> [at |-> "idle"]]

Record(o, r) ==
    /\ row' = [row EXCEPT ![o] = r]
    /\ custody' = [custody EXCEPT ![o] = << [kind |-> "created", to |-> Assigned(r)] >>]

(* What is committed with an answer, and then answered. *)
Commits_RolledBack(p, entry, o) == UNCHANGED noted
Commits(p, entry, o) == noted' = noted \cup {<<p, entry, o>>}

Answer(p, answer, entry, o) ==
    /\ Commits(p, entry, o)
    /\ told' = told \cup {<<p, answer, o>>}

(* create_object.  A branch left out is the headquarters. *)
Create(p, o, content, level, compartment, profile, branch) ==
    /\ ~Exists(o)
    /\ LET r == Stored(content, level, compartment, profile, branch)
       IN  IF Authorized(p, r.level, compartment)
           THEN Record(o, r) /\ UNCHANGED answers
           ELSE Answer(p, "forbidden", "denied_create", o) /\ UNCHANGED store
    /\ UNCHANGED call

(* ingest_president_record: a signed service, to which no clearance applies. *)
Ingest(o, content, level, profile, branch) ==
    /\ ~Exists(o)
    /\ Record(o, Stored(content, level, Presidency, profile, branch))
    /\ UNCHANGED <<answers, call>>

(***************************************************************************)
(* get_object, by its four answers.  It does not look at deleted_at.       *)
(***************************************************************************)
MayRead(p, o) == Exists(o) /\ Authorized(p, row[o].level, row[o].compartment)

Deny(p, o) ==
    /\ Exists(o) /\ ~MayRead(p, o)
    /\ Answer(p, "forbidden", "denied_read", o)
    /\ UNCHANGED <<store, call>>

NeedsScif(o) == row[o].level \in ScifRequired

Block(p, o) ==
    /\ MayRead(p, o) /\ NeedsScif(o)
    /\ Answer(p, "scif", "direct_plaintext_blocked_scif_required", o)
    /\ UNCHANGED <<store, call>>

ReadEntry(o) == IF row[o].profile = "VAULT-MIL" THEN "military_record_accessed" ELSE "object_read"

Give(p, o) ==
    /\ MayRead(p, o) /\ ~NeedsScif(o)
    /\ Answer(p, "plaintext", ReadEntry(o), o)
    /\ UNCHANGED <<store, call>>

(* The envelope's key is out of reach, or the ciphertext fails its check. *)
FailToDecrypt(p, o) ==
    /\ MayRead(p, o) /\ ~NeedsScif(o)
    /\ Answer(p, "unreadable", "decryption_failed", o)
    /\ UNCHANGED <<store, call>>

Get(p, o) == Deny(p, o) \/ Block(p, o) \/ Give(p, o) \/ FailToDecrypt(p, o)

-----------------------------------------------------------------------------
(***************************************************************************)
(* transfer_military_record and delete_military_record.                    *)
(***************************************************************************)
StillHeld(o) == InLedger(o) /\ row[o].deletion = Nothing

CheckTransfer(c, o, to) ==
    /\ call[c].at = "idle"
    /\ StillHeld(o)
    /\ Assigned(row[o]) # to
    /\ call' = [call EXCEPT ![c] = [at |-> "checked", object |-> o, read |-> row[o], to |-> to]]
    /\ UNCHANGED <<store, answers>>

CheckDeletion(c, o) ==
    /\ call[c].at = "idle"
    /\ StillHeld(o)
    /\ call' = [call EXCEPT ![c] = [at |-> "checked", object |-> o, read |-> row[o]]]
    /\ UNCHANGED <<store, answers>>

(* The UPDATE names only the columns it changes. *)
Moved_WholeRow(r, read, to) == [read EXCEPT !.branch = to]
Moved(r, read, to) == [r EXCEPT !.branch = to]

Dropped(r, read, c) == [r EXCEPT !.deletion = c]

(* The audit entry of the same transaction. *)
Entered_OwnTransaction(o, entry) == custody' \in {custody, [custody EXCEPT ![o] = Append(@, entry)]}
Entered(o, entry) == custody' = [custody EXCEPT ![o] = Append(@, entry)]

Transfer(c) ==
    /\ call[c].at = "checked"
    /\ LET o == call[c].object
           read == call[c].read
           to == call[c].to
       IN  /\ row' = [row EXCEPT ![o] = Moved(row[o], read, to)]
           /\ Entered(o, [kind |-> "transferred", call |-> c, from |-> Assigned(read), to |-> to])
    /\ call' = [call EXCEPT ![c] = [at |-> "done"]]
    /\ UNCHANGED answers

Delete(c) ==
    /\ call[c].at = "checked"
    /\ LET o == call[c].object
       IN  /\ row' = [row EXCEPT ![o] = Dropped(row[o], call[c].read, c)]
           /\ Entered(o, [kind |-> "deleted", call |-> c])
    /\ call' = [call EXCEPT ![c] = [at |-> "done"]]
    /\ UNCHANGED answers

(* The caller's transaction is lost: a crash, or no connection. *)
Lose(c) ==
    /\ call[c].at = "checked"
    /\ call' = [call EXCEPT ![c] = [at |-> "done"]]
    /\ UNCHANGED <<store, answers>>

Next ==
    \/ \E o \in Object, content \in Content, level \in Asked, profile \in Profile, branch \in Branch :
          \/ \E p \in Person, compartment \in Compartment :
                Create(p, o, content, level, compartment, profile, branch)
          \/ Ingest(o, content, level, profile, branch)
    \/ \E p \in Person, o \in Object : Get(p, o)
    \/ \E c \in Transferring, o \in Object, to \in Branch : CheckTransfer(c, o, to)
    \/ \E c \in Deleting, o \in Object : CheckDeletion(c, o)
    \/ \E c \in Transferring : Transfer(c)
    \/ \E c \in Deleting : Delete(c)
    \/ \E c \in Call : Lose(c)

Spec == Init /\ [][Next]_vars

-----------------------------------------------------------------------------
Entry == [kind : {"created"}, to : Branch]
         \cup [kind : {"transferred"}, call : Transferring, from : Branch, to : Branch]
         \cup [kind : {"deleted"}, call : Deleting]

CallState == [at : {"idle", "done"}]
             \cup [at : {"checked"}, object : Object, read : Row]
             \cup [at : {"checked"}, object : Object, read : Row, to : Branch]

Answers == {"forbidden", "scif", "plaintext", "unreadable"}
Notes == {"denied_create", "denied_read", "decryption_failed", "object_read",
          "military_record_accessed", "direct_plaintext_blocked_scif_required"}

(* The audit entries that say what a caller is answered. *)
EntriesOf(answer, o) ==
    CASE answer = "forbidden" -> {"denied_create", "denied_read"}
      [] answer = "scif" -> {"direct_plaintext_blocked_scif_required"}
      [] answer = "unreadable" -> {"decryption_failed"}
      [] answer = "plaintext" -> {ReadEntry(o)}

(***************************************************************************)
(* The variables keep to their types, and nobody is answered without an    *)
(* audit entry, refusals that end in an exception included: they commit    *)
(* before they raise (main.py:341-343, 397-399, 401-410, 412).             *)
(***************************************************************************)
TypeOK ==
    /\ row \in [Object -> Row \cup {Nothing}]
    /\ custody \in [Object -> Seq(Entry)]
    /\ noted \subseteq Person \X Notes \X Object
    /\ told \subseteq Person \X Answers \X Object
    /\ \A p \in Person, answer \in Answers, o \in Object :
          <<p, answer, o>> \in told => \E entry \in EntriesOf(answer, o) : <<p, entry, o>> \in noted
    /\ call \in [Call -> CallState]

Places(o) == {i \in 1..Len(custody[o]) : custody[o][i].kind # "deleted"}
Deletions(o) == {i \in 1..Len(custody[o]) : custody[o][i].kind = "deleted"}
IsLast(i, S) == i \in S /\ \A j \in S : j <= i

MatchesCustody(o) ==
    IF Exists(o)
    THEN /\ \E i \in Places(o) : IsLast(i, Places(o)) /\ custody[o][i].to = Assigned(row[o])
         /\ IF row[o].deletion = Nothing
            THEN Deletions(o) = {}
            ELSE \E i \in Deletions(o) :
                    IsLast(i, Deletions(o)) /\ custody[o][i].call = row[o].deletion
    ELSE custody[o] = << >>

(***************************************************************************)
(* The ledger and its history agree, however transfers and deletions of a  *)
(* record overlap: the branch of a row is where the last transfer entry    *)
(* took it, and its deletion is the last one entered (main.py:1326-1337,   *)
(* 1372-1381, each one transaction).                                       *)
(***************************************************************************)
RowMatchesCustody == \A o \in Object : MatchesCustody(o)

(***************************************************************************)
(* What refers to the military, by its content or by its compartment, is   *)
(* never answered in plaintext outside a SCIF session, whatever its author *)
(* asked for and whoever reads (main.py:478-485 with 400-405).             *)
(***************************************************************************)
MilitaryStaysSealed ==
    \A p \in Person, o \in Object :
        <<p, "plaintext", o>> \in told =>
            row[o].content # "military" /\ row[o].compartment \notin MilitaryCompartment

(***************************************************************************)
(* A record keeps what it was stored under, and a deleted one is never     *)
(* restored, not even by a transfer that was checked before the deletion   *)
(* (main.py:1326-1328 writes two columns only).                            *)
(***************************************************************************)
RecordKeepsItsPast ==
    [][\A o \in Object : Exists(o) =>
          /\ [row'[o] EXCEPT !.branch = row[o].branch, !.deletion = row[o].deletion] = row[o]
          /\ row[o].deletion # Nothing => row'[o].deletion # Nothing
          /\ SubSeq(custody'[o], 1, Len(custody[o])) = custody[o]]_vars

=============================================================================
