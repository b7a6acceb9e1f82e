------------------------------ MODULE ScifSession ------------------------------
(***************************************************************************)
(* Digital SCIF sessions: the rows of vault_scif_sessions and every        *)
(* handler of app/main.py that writes them.                                *)
(*                                                                         *)
(* A handler is one action: it reads the row FOR UPDATE, so a second       *)
(* handler on the same session waits for its commit.  An outcome that      *)
(* raises without _security_raise is rolled back, changes nothing and is   *)
(* left out as a stutter.  The status query alone takes no row lock; its   *)
(* read and its write are two actions.                                     *)
(*                                                                         *)
(* Clocks are flags that the environment raises: an approval leaves fresh  *)
(* when its TTL passes, verified turns "stale" when the idle window        *)
(* passes, overdue is set when expires_at passes.                          *)
(***************************************************************************)
EXTENDS Naturals, FiniteSets

CONSTANTS
    Session,            \* session ids
    Subject,            \* JANUS subjects: owners and approvers
    NoRow,              \* the id has no row yet
    Mode,               \* the modes clients ask for
    MaxEntryFailures,   \* SCIF_MAX_ENTRY_FAILURES
    MaxCookieFailures,  \* SCIF_MAX_COOKIE_FAILURES
    FailureBound,       \* bound: no failure is attempted on a counter this high
    Wavering            \* bound: the subjects whose JANUS authority may change

Secret == {"auth_envelope", "cookie_hash", "device_binding_hash", "device_public_jwk"}
Terminal == {"closed", "revoked", "expired"}
State == {"pending", "active", "locked"} \cup Terminal

ApprovalsRequired(m) == IF m = "scif_two_person" THEN 2 ELSE 0

Row == [owner: Subject, mode: Mode, state: State,
        approved: SUBSET Subject, fresh: SUBSET Subject, held: SUBSET Secret,
        verified: {"never", "recent", "stale"}, overdue: BOOLEAN,
        entryFailures: Nat, cookieFailures: Nat]

ASSUME ModeAssumption == Mode \subseteq {"scif", "scif_two_person"}
ASSUME LimitAssumption ==
    /\ MaxEntryFailures \in 3..10
    /\ MaxCookieFailures \in 2..10
    /\ FailureBound \in Nat
    /\ Wavering \subseteq Subject
ASSUME NoRowAssumption == NoRow \notin Subject \cup Row

VARIABLES
    session,      \* session[id]: the row, or NoRow
    statusRead,   \* sessions a status request read as expired and will overwrite
    entitled,     \* subjects with SCIF entitlement, trusted device and fresh MFA
    cleared       \* subjects cleared for the object's level and compartment

vars == <<session, statusRead, entitled, cleared>>
janus == <<entitled, cleared>>

TypeOK ==
    /\ session \in [Session -> Row \cup {NoRow}]
    /\ statusRead \subseteq Session
    /\ entitled \subseteq Subject
    /\ cleared \subseteq Subject

--------------------------------------------------------------------------------
(* Faulty twins, named <definition>_<fault>: bugs the properties must reject.  *)
(* Spec uses none of them.                                                     *)

\* The mode is written to the state column.
NewRow_Swapped(o, m) ==
    [owner |-> o, mode |-> m, state |-> m,
     approved |-> {}, fresh |-> {}, held |-> {},
     verified |-> "never", overdue |-> FALSE,
     entryFailures |-> 0, cookieFailures |-> 0]

\* The cookie hash survives the kill switch.
EmergencyRevoked_KeepsCookie(r) ==
    [r EXCEPT !.state = "revoked", !.held = @ \ {"auth_envelope"},
              !.approved = {}, !.fresh = {}]

\* The state changes, the secrets stay.
LockedOut_KeepsHeld(r) == [r EXCEPT !.state = "revoked", !.approved = {}, !.fresh = {}]
Superseded_KeepsHeld(r) == [r EXCEPT !.state = "revoked"]

\* One approver who approves twice counts twice.
Approved_CountsTwice(r, u) ==
    [r EXCEPT !.approved = @ \cup {u}, !.fresh = @ \cup {u},
              !.state = IF Cardinality(r.fresh) + 1 >= ApprovalsRequired(r.mode)
                        THEN "active" ELSE "pending"]

\* Approvals past their TTL count.
Approved_CountsStale(r, u) ==
    [r EXCEPT !.approved = @ \cup {u}, !.fresh = @ \cup {u},
              !.state = IF Cardinality(r.approved \cup {u}) >= ApprovalsRequired(r.mode)
                        THEN "active" ELSE "pending"]

QuorumFresh_CountsStale(r) ==
    r.mode = "scif_two_person" => Cardinality(r.approved) >= ApprovalsRequired(r.mode)

\* The idle check is forgotten.
Admitted_AfterIdle(s) == ~session[s].overdue /\ session[s].state = "active"

--------------------------------------------------------------------------------
(* Row updates: the SET lists of the UPDATE statements. *)

TwoPerson(r) == r.mode = "scif_two_person"

NewRow(o, m) ==
    [owner |-> o, mode |-> m,
     state |-> IF ApprovalsRequired(m) = 0 THEN "active" ELSE "pending",
     approved |-> {}, fresh |-> {}, held |-> {},
     verified |-> "never", overdue |-> FALSE,
     entryFailures |-> 0, cookieFailures |-> 0]

\* _clear_scif_sensitive_state
Cleared(r, st) ==
    [r EXCEPT !.state = st, !.held = {}, !.approved = {}, !.fresh = {},
              !.entryFailures = 0, !.cookieFailures = 0]

\* The second UPDATE of _record_scif_auth_failure; the counters stay.
LockedOut(r) ==
    [r EXCEPT !.state = "revoked", !.held = {}, !.approved = {}, !.fresh = {}]

\* _record_scif_auth_failure, kind "entry" and kind "cookie"
EntryFailed(r) ==
    LET counted == [r EXCEPT !.entryFailures = @ + 1]
    IN  IF counted.entryFailures >= MaxEntryFailures THEN LockedOut(counted) ELSE counted

CookieFailed(r) ==
    LET counted == [r EXCEPT !.cookieFailures = @ + 1]
    IN  IF counted.cookieFailures >= MaxCookieFailures THEN LockedOut(counted) ELSE counted

\* _enforce_scif_idle: two-person control also loses its approvals.
IdleLocked(r) ==
    IF TwoPerson(r)
    THEN [r EXCEPT !.state = "pending", !.held = {}, !.approved = {}, !.fresh = {}]
    ELSE [r EXCEPT !.state = "locked", !.held = {}]

\* _supersede_other_scif_sessions; the approvals stay.
Superseded(r) == [r EXCEPT !.state = "revoked", !.held = {}]

\* emergency_revoke_scif; the browser's public key and the counters stay.
EmergencyRevoked(r) ==
    [r EXCEPT !.state = "revoked", !.held = @ \cap {"device_public_jwk"},
              !.approved = {}, !.fresh = {}]

\* approve_scif_session; a repeated approval renews its time.
Approved(r, u) ==
    LET fresh == r.fresh \cup {u}
    IN  [r EXCEPT !.approved = @ \cup {u}, !.fresh = fresh,
                  !.state = IF Cardinality(fresh) >= ApprovalsRequired(r.mode)
                            THEN "active" ELSE "pending"]

\* The final UPDATE of enter_scif_session.
Entered(r) ==
    [r EXCEPT !.state = "active", !.held = Secret, !.verified = "recent",
              !.entryFailures = 0, !.cookieFailures = 0]

\* The cookie matched and _continuous_scif_check passed.
Verified(r) == [r EXCEPT !.verified = "recent", !.cookieFailures = 0]

--------------------------------------------------------------------------------
Exists(s) == session[s] # NoRow
Write(s, r) == session' = [session EXCEPT ![s] = r]

Init ==
    /\ session = [s \in Session |-> NoRow]
    /\ statusRead = {}
    /\ entitled = Subject
    /\ cleared = Subject

(* create_scif_session *)
Create(s, o, m) ==
    /\ ~Exists(s)
    /\ o \in entitled \cap cleared
    /\ Write(s, NewRow(o, m))
    /\ UNCHANGED <<statusRead, janus>>

(* approve_scif_session *)
Approve(s, u) ==
    /\ Exists(s)
    /\ ~session[s].overdue
    /\ session[s].state \notin Terminal
    /\ u # session[s].owner
    /\ u \in entitled \cap cleared
    /\ Write(s, Approved(session[s], u))
    /\ UNCHANGED <<statusRead, janus>>

(* scif_session_status: the unlocked SELECT, then the UPDATE of what it saw. *)
StatusRead(s) ==
    /\ Exists(s)
    /\ session[s].overdue
    /\ session[s].state \notin Terminal
    /\ statusRead' = statusRead \cup {s}
    /\ UNCHANGED <<session, janus>>

StatusExpire(s) ==
    /\ s \in statusRead
    /\ Exists(s)
    /\ Write(s, Cleared(session[s], "expired"))
    /\ statusRead' = statusRead \ {s}
    /\ UNCHANGED janus

(* enter_scif_session: the owner asks, with entitlement, device and MFA. *)
OwnerEnters(s) == Exists(s) /\ session[s].owner \in entitled

QuorumFresh(r) == TwoPerson(r) => Cardinality(r.fresh) >= ApprovalsRequired(r.mode)

EnterExpired(s) ==
    /\ session[s].overdue
    /\ Write(s, Cleared(session[s], "expired"))

\* Runs before the state is looked at.
EnterUnapproved(s) ==
    /\ ~session[s].overdue
    /\ ~QuorumFresh(session[s])
    /\ Write(s, [session[s] EXCEPT !.state = "pending"])

Enterable(s) ==
    /\ ~session[s].overdue
    /\ QuorumFresh(session[s])
    /\ session[s].state \in {"active", "locked"}

EnterBadToken(s) ==
    /\ Enterable(s)
    /\ session[s].entryFailures < FailureBound
    /\ Write(s, EntryFailed(session[s]))

Supersedes(s, t) ==
    /\ t # s
    /\ Exists(t)
    /\ session[t].owner = session[s].owner
    /\ session[t].state \in {"active", "locked"}

EnterOk(s) ==
    /\ Enterable(s)
    /\ session' = [t \in Session |->
                      IF t = s THEN Entered(session[s])
                      ELSE IF Supersedes(s, t) THEN Superseded(session[t])
                      ELSE session[t]]

Enter(s) ==
    /\ OwnerEnters(s)
    /\ \/ EnterExpired(s)
       \/ EnterUnapproved(s)
       \/ EnterBadToken(s)
       \/ EnterOk(s)
    /\ UNCHANGED <<statusRead, janus>>

(* What view, render and heartbeat share: the checks in the code's order. *)
RequestExpired(s) ==
    /\ session[s].overdue
    /\ Write(s, Cleared(session[s], "expired"))

\* Runs before the state and the cookie are looked at.
RequestIdle(s) ==
    /\ ~session[s].overdue
    /\ session[s].verified = "stale"
    /\ Write(s, IdleLocked(session[s]))

Admitted(s) ==
    /\ ~session[s].overdue
    /\ session[s].verified # "stale"
    /\ session[s].state = "active"

RequestBadCookie(s) ==
    /\ Admitted(s)
    /\ session[s].cookieFailures < FailureBound
    /\ Write(s, CookieFailed(session[s]))

RightCookie(s) == Admitted(s) /\ {"cookie_hash", "auth_envelope"} \subseteq session[s].held

\* _continuous_scif_check: JANUS no longer vouches for the owner.
CheckDenied(s) ==
    /\ RightCookie(s)
    /\ session[s].owner \notin entitled \cap cleared
    /\ Write(s, Cleared(session[s], "revoked"))

CheckPasses(s) ==
    /\ RightCookie(s)
    /\ session[s].owner \in entitled \cap cleared

\* _enforce_device_binding, _verify_scif_device_proof: another browser.
OtherDevice(s) ==
    /\ CheckPasses(s)
    /\ "device_binding_hash" \in session[s].held
    /\ Write(s, Cleared(Verified(session[s]), "revoked"))

RequestRefused(s) ==
    \/ RequestExpired(s)
    \/ RequestIdle(s)
    \/ RequestBadCookie(s)
    \/ CheckDenied(s)
    \/ OtherDevice(s)

ViewOk(s) ==
    /\ CheckPasses(s)
    /\ "device_binding_hash" \in session[s].held
    /\ Write(s, Verified(session[s]))

\* Render and heartbeat also ask for a signature by the entry's browser key.
ProvedOk(s) == ViewOk(s) /\ "device_public_jwk" \in session[s].held

(* view_scif_session *)
View(s) ==
    /\ Exists(s)
    /\ RequestRefused(s) \/ ViewOk(s)
    /\ UNCHANGED <<statusRead, janus>>

(* render_scif_document and scif_heartbeat write the same row updates. *)
Render(s) ==
    /\ Exists(s)
    /\ RequestRefused(s) \/ ProvedOk(s)
    /\ UNCHANGED <<statusRead, janus>>

Heartbeat(s) ==
    /\ Exists(s)
    /\ RequestRefused(s) \/ ProvedOk(s)
    /\ UNCHANGED <<statusRead, janus>>

(* emergency_revoke_scif over the sessions of the owners in scope: one     *)
(* owner, or every owner.                                                  *)
EmergencyRevoke(scope) ==
    /\ session' = [s \in Session |->
                      IF Exists(s) /\ session[s].owner \in scope
                                   /\ session[s].state \in {"pending", "active", "locked"}
                      THEN EmergencyRevoked(session[s]) ELSE session[s]]
    /\ UNCHANGED <<statusRead, janus>>

(* close_scif_session: "closed" by the owner, "revoked" by an administrator. *)
Close(s, st) ==
    /\ Exists(s)
    /\ Write(s, Cleared(session[s], st))
    /\ UNCHANGED <<statusRead, janus>>

--------------------------------------------------------------------------------
(* Environment: clocks and JANUS. *)

ExpiryPasses(s) ==
    /\ Exists(s)
    /\ ~session[s].overdue
    /\ Write(s, [session[s] EXCEPT !.overdue = TRUE])
    /\ UNCHANGED <<statusRead, janus>>

IdlePasses(s) ==
    /\ Exists(s)
    /\ session[s].verified = "recent"
    /\ Write(s, [session[s] EXCEPT !.verified = "stale"])
    /\ UNCHANGED <<statusRead, janus>>

ApprovalAges(s, u) ==
    /\ Exists(s)
    /\ u \in session[s].fresh
    /\ Write(s, [session[s] EXCEPT !.fresh = @ \ {u}])
    /\ UNCHANGED <<statusRead, janus>>

EntitlementChanges(u) ==
    /\ entitled' = IF u \in entitled THEN entitled \ {u} ELSE entitled \cup {u}
    /\ UNCHANGED <<session, statusRead, cleared>>

ClearanceChanges(u) ==
    /\ cleared' = IF u \in cleared THEN cleared \ {u} ELSE cleared \cup {u}
    /\ UNCHANGED <<session, statusRead, entitled>>

Scope == {{u} : u \in Subject} \cup {Subject}

Next ==
    \/ \E s \in Session, o \in Subject, m \in Mode : Create(s, o, m)
    \/ \E s \in Session, u \in Subject : Approve(s, u) \/ ApprovalAges(s, u)
    \/ \E s \in Session : StatusRead(s) \/ StatusExpire(s)
    \/ \E s \in Session : Enter(s)
    \/ \E s \in Session : View(s) \/ Render(s) \/ Heartbeat(s)
    \/ \E scope \in Scope : EmergencyRevoke(scope)
    \/ \E s \in Session, st \in {"closed", "revoked"} : Close(s, st)
    \/ \E s \in Session : ExpiryPasses(s) \/ IdlePasses(s)
    \/ \E u \in Wavering : EntitlementChanges(u) \/ ClearanceChanges(u)

Spec == Init /\ [][Next]_vars

--------------------------------------------------------------------------------
(* Properties *)

Live(s) == Exists(s) /\ "cookie_hash" \in session[s].held
Gains(s) == ~Live(s) /\ Live(s)'

(* Every way out of a live session (idle, lockout, supersession, emergency,    *)
(* denial, expiry, close) destroys envelope, cookie and binding together, so   *)
(* no locked or ended row can serve a viewer; only the emergency path leaves   *)
(* a browser public key behind.                                                *)
WipesAreComplete ==
    \A s \in Session : Exists(s) =>
        /\ session[s].held \in {{}, {"device_public_jwk"}, Secret}
        /\ session[s].held = Secret => session[s].state \in {"active", "pending"}

(* Two-person control: a session that is active or holds a viewer's secrets    *)
(* carries two approvers, neither of them the owner, whatever order approvals, *)
(* timeouts, re-entries and wipes came in.                                     *)
TwoPersonControl ==
    \A s \in Session : Exists(s) /\ TwoPerson(session[s]) =>
        /\ session[s].owner \notin session[s].approved
        /\ session[s].state = "active" \/ Live(s) =>
              Cardinality(session[s].approved) >= 2
        /\ session[s].state # "locked"

(* A session whose failures reached a limit holds nothing that a request can   *)
(* be served with until its owner enters it again.                             *)
LockoutHolds ==
    \A s \in Session :
        /\ Exists(s)
        /\ \/ session[s].entryFailures >= MaxEntryFailures
           \/ session[s].cookieFailures >= MaxCookieFailures
        => session[s].held = {}

(* At most one session of an identity serves a viewer, among sessions without  *)
(* two-person control.                                                         *)
OneLivePlainSession ==
    \A s, t \in Session :
        /\ Live(s) /\ Live(t)
        /\ session[s].owner = session[t].owner
        /\ ~TwoPerson(session[s]) /\ ~TwoPerson(session[t])
        => s = t

(* A viewer's secrets appear only by an entry: of an unexpired session that    *)
(* was active or locked, by an owner JANUS vouches for, over a fresh quorum,   *)
(* and the same step takes them from the owner's other active sessions and     *)
(* leaves every other row as it was.                                           *)
GuardedEntry ==
    \A s \in Session : Gains(s) =>
        /\ Exists(s) /\ ~session[s].overdue
        /\ session[s].state \in {"active", "locked"}
        /\ session[s].owner \in entitled
        /\ TwoPerson(session[s]) => Cardinality(session[s].fresh) >= 2
        /\ \A t \in Session \ {s} :
              IF Supersedes(s, t)
              THEN session'[t].state = "revoked" /\ session'[t].held = {}
              ELSE session'[t] = session[t]

EntryIsGuarded == [][GuardedEntry]_vars

(* A two-person session turns active only over two approvals that are fresh    *)
(* at that moment, by two people other than the owner.                         *)
QuorateActivation ==
    \A s \in Session :
        /\ Exists(s) /\ TwoPerson(session[s])
        /\ session[s].state # "active" /\ session'[s].state = "active"
        => Cardinality(session'[s].fresh \ {session[s].owner}) >= 2

TwoPersonActivation == [][QuorateActivation]_vars

(* "If the viewer stops heartbeating beyond the idle window [...] the original  *)
(* owner must explicitly re-enter" (README.md:166-167): whatever request comes  *)
(* first after the window, and whatever became of the approvals meanwhile, only *)
(* an entry over a quorum that is fresh then makes the session recent again.    *)
ReenteredAfterIdle ==
    \A s \in Session :
        /\ Exists(s)
        /\ session[s].verified = "stale" /\ session'[s].verified = "recent"
        => Enterable(s) /\ OwnerEnters(s) /\ session'[s] = Entered(session[s])

IdleNeedsReentry == [][ReenteredAfterIdle]_vars

(* The sessions implement the doors of ScifAccess: a door is open while the    *)
(* row holds the viewer's cookie, and its vouchers are the fresh approvals.    *)
Access == INSTANCE ScifAccess WITH
    Nobody <- NoRow,
    holder <- [s \in Session |-> IF Exists(s) THEN session[s].owner ELSE NoRow],
    quorum <- [s \in Session |-> IF Exists(s) THEN ApprovalsRequired(session[s].mode) ELSE 0],
    vouchers <- [s \in Session |-> IF Exists(s) THEN session[s].fresh ELSE {}],
    open <- {s \in Session : Live(s)}

ImplementsAccess == Access!Spec

--------------------------------------------------------------------------------
(* What the documentation says and the code does not do. *)

(* README.md:216: an emergency revocation terminates every session.  A         *)
(* revoked session never comes back.                                           *)
RevocationTerminates ==
    [][\A s \in Session :
          Exists(s) /\ session[s].state = "revoked" => session'[s].state \in Terminal]_vars

================================================================================
