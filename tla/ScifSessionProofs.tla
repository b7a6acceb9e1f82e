--------------------------- MODULE ScifSessionProofs ---------------------------
(***************************************************************************)
(* Proofs about ScifSession for any sets of sessions and subjects.         *)
(*                                                                         *)
(* Every handler but enter rewrites one row, so the argument is about      *)
(* rows: RowInv is what a stored row always satisfies, each row update     *)
(* preserves it (the lemmas), and the invariant of the table follows.      *)
(***************************************************************************)
EXTENDS ScifSession, FiniteSetTheorems, TLAPS

(* What every stored row satisfies.  The finiteness of the approver list and   *)
(* fresh \subseteq approved are what makes a fresh quorum a quorum of           *)
(* approvers; the last conjunct of the two-person part is TwoPersonControl.    *)
RowInv(r) ==
    /\ IsFiniteSet(r.approved)
    /\ r.fresh \subseteq r.approved
    /\ r.owner \notin r.approved
    /\ r.held \in {{}, {"device_public_jwk"}, Secret}
    /\ r.held = Secret => r.state \in {"active", "pending"}
    /\ TwoPerson(r) => r.state # "locked"
    /\ TwoPerson(r) /\ (r.state = "active" \/ r.held = Secret) => Cardinality(r.approved) >= 2
    /\ ~TwoPerson(r) /\ r.held = Secret => r.state = "active"
    /\ r.entryFailures >= MaxEntryFailures => r.held = {}
    /\ r.cookieFailures >= MaxCookieFailures => r.held = {}

(* An update that keeps the invariant, hands out no secrets, leaves an idle     *)
(* session idle, and activates two-person control only over a fresh quorum.    *)
Activates(r, q) == r.state # "active" /\ q.state = "active"

(* How an update touches the doors of ScifAccess: it opens nothing and drops   *)
(* the fresh approvals only of a session left shut, or it changes one of them. *)
Settles(r, q) ==
    /\ "cookie_hash" \in q.held => "cookie_hash" \in r.held
    /\ q.fresh = r.fresh \/ (q.fresh = {} /\ "cookie_hash" \notin q.held)

Revouches(r, q) ==
    /\ q.held = r.held
    /\ \E u \in Subject : (u # r.owner /\ q.fresh = r.fresh \cup {u}) \/ q.fresh = r.fresh \ {u}

Harmless(r, q) ==
    /\ Settles(r, q) \/ Revouches(r, q)
    /\ q \in Row /\ RowInv(q)
    /\ q.owner = r.owner /\ q.mode = r.mode
    /\ q.held = Secret => r.held = Secret
    /\ r.verified = "stale" => q.verified = "stale"
    /\ TwoPerson(r) /\ Activates(r, q) => Cardinality(q.fresh \ {r.owner}) >= 2

LEMMA Limits == /\ MaxEntryFailures \in Nat /\ MaxEntryFailures > 0
                /\ MaxCookieFailures \in Nat /\ MaxCookieFailures > 0
BY LimitAssumption

LEMMA EmptyApprovals == IsFiniteSet({})
BY FS_EmptySet

LEMMA ClearedHarmless ==
    ASSUME NEW r \in Row, RowInv(r), NEW st \in Terminal
    PROVE  Harmless(r, Cleared(r, st))
BY EmptyApprovals DEF Harmless, Settles, Revouches, Activates, RowInv, Row, Cleared, Terminal, State, Secret, TwoPerson

LEMMA LockedOutHarmless ==
    ASSUME NEW r \in Row, RowInv(r), NEW c \in Row,
           c.owner = r.owner, c.mode = r.mode, c.verified = r.verified
    PROVE  Harmless(r, LockedOut(c))
BY EmptyApprovals DEF Harmless, Settles, Revouches, Activates, RowInv, Row, LockedOut, Terminal, State, Secret, TwoPerson

LEMMA IdleHarmless ==
    ASSUME NEW r \in Row, RowInv(r)
    PROVE  Harmless(r, IdleLocked(r))
BY EmptyApprovals DEF Harmless, Settles, Revouches, Activates, RowInv, Row, IdleLocked, Terminal, State, Secret, TwoPerson

LEMMA SupersededHarmless ==
    ASSUME NEW r \in Row, RowInv(r)
    PROVE  Harmless(r, Superseded(r))
BY DEF Harmless, Settles, Revouches, Activates, RowInv, Row, Superseded, Terminal, State, Secret, TwoPerson

LEMMA EmergencyHarmless ==
    ASSUME NEW r \in Row, RowInv(r)
    PROVE  Harmless(r, EmergencyRevoked(r))
<1> DEFINE kept == r.held \cap {"device_public_jwk"}
<1>1. kept \in {{}, {"device_public_jwk"}} /\ kept \in SUBSET Secret /\ kept # Secret
  BY DEF Secret
<1>2. r.held = {} => kept = {}
  OBVIOUS
<1> HIDE DEF kept
<1>3. EmergencyRevoked(r) = [r EXCEPT !.state = "revoked", !.held = kept,
                                      !.approved = {}, !.fresh = {}]
  BY DEF EmergencyRevoked, kept, Row
<1> DEFINE q == EmergencyRevoked(r)
<1>4. q \in Row
  BY <1>1, <1>3 DEF Row, State, Terminal
<1>5. /\ q.owner = r.owner /\ q.mode = r.mode /\ q.state = "revoked"
      /\ q.approved = {} /\ q.fresh = {} /\ q.held = kept /\ q.verified = r.verified
      /\ q.entryFailures = r.entryFailures /\ q.cookieFailures = r.cookieFailures
  BY <1>3 DEF Row
<1> HIDE DEF q
<1>6. QED
  BY <1>1, <1>2, <1>4, <1>5, EmptyApprovals DEF Harmless, Settles, Revouches, Activates, RowInv, TwoPerson, q

LEMMA EntryFailedHarmless ==
    ASSUME NEW r \in Row, RowInv(r)
    PROVE  Harmless(r, EntryFailed(r))
<1> DEFINE c == [r EXCEPT !.entryFailures = @ + 1]
<1>1. /\ c \in Row
      /\ c.owner = r.owner /\ c.mode = r.mode /\ c.state = r.state
      /\ c.approved = r.approved /\ c.fresh = r.fresh /\ c.held = r.held
      /\ c.cookieFailures = r.cookieFailures /\ c.verified = r.verified
  BY DEF Row
<1>2. CASE c.entryFailures >= MaxEntryFailures
  BY <1>1, <1>2, LockedOutHarmless DEF EntryFailed
<1>3. CASE ~(c.entryFailures >= MaxEntryFailures)
  <2>1. EntryFailed(r) = c
    BY <1>3 DEF EntryFailed
  <2> HIDE DEF c
  <2>2. QED
    BY <1>1, <1>3, <2>1 DEF Harmless, Settles, Revouches, Activates, RowInv, TwoPerson
<1>4. QED
  BY <1>2, <1>3

LEMMA CookieFailedHarmless ==
    ASSUME NEW r \in Row, RowInv(r)
    PROVE  Harmless(r, CookieFailed(r))
<1> DEFINE c == [r EXCEPT !.cookieFailures = @ + 1]
<1>1. /\ c \in Row
      /\ c.owner = r.owner /\ c.mode = r.mode /\ c.state = r.state
      /\ c.approved = r.approved /\ c.fresh = r.fresh /\ c.held = r.held
      /\ c.entryFailures = r.entryFailures /\ c.verified = r.verified
  BY DEF Row
<1>2. CASE c.cookieFailures >= MaxCookieFailures
  BY <1>1, <1>2, LockedOutHarmless DEF CookieFailed
<1>3. CASE ~(c.cookieFailures >= MaxCookieFailures)
  <2>1. CookieFailed(r) = c
    BY <1>3 DEF CookieFailed
  <2> HIDE DEF c
  <2>2. QED
    BY <1>1, <1>3, <2>1 DEF Harmless, Settles, Revouches, Activates, RowInv, TwoPerson
<1>4. QED
  BY <1>2, <1>3

(* The cookie counter is reset; an idle session is not verified.                *)
LEMMA VerifiedHarmless ==
    ASSUME NEW r \in Row, RowInv(r), r.verified # "stale"
    PROVE  Harmless(r, Verified(r))
<1> DEFINE q == Verified(r)
<1>1. q \in Row
  BY DEF Row, Verified
<1>2. /\ q.owner = r.owner /\ q.mode = r.mode /\ q.state = r.state
      /\ q.approved = r.approved /\ q.fresh = r.fresh /\ q.held = r.held
      /\ q.entryFailures = r.entryFailures /\ q.cookieFailures = 0
  BY DEF Row, Verified
<1> HIDE DEF q
<1>3. QED
  BY <1>1, <1>2, Limits DEF Harmless, Settles, Revouches, Activates, RowInv, TwoPerson, q

LEMMA DemotedHarmless ==
    ASSUME NEW r \in Row, RowInv(r), TwoPerson(r)
    PROVE  Harmless(r, [r EXCEPT !.state = "pending"])
BY DEF Harmless, Settles, Revouches, Activates, RowInv, Row, State, TwoPerson

(* A fresh quorum is a quorum of the approver list.                            *)
LEMMA FreshQuorum ==
    ASSUME NEW approved, IsFiniteSet(approved), NEW fresh \in SUBSET approved,
           Cardinality(fresh) >= 2
    PROVE  Cardinality(approved) >= 2
<1>1. IsFiniteSet(fresh) /\ Cardinality(fresh) <= Cardinality(approved)
  BY FS_Subset
<1>2. Cardinality(fresh) \in Nat /\ Cardinality(approved) \in Nat
  BY <1>1, FS_CardinalityType
<1>3. QED
  BY <1>1, <1>2

LEMMA ApprovedHarmless ==
    ASSUME NEW r \in Row, RowInv(r), NEW u \in Subject, u # r.owner
    PROVE  Harmless(r, Approved(r, u))
<1> DEFINE approved == r.approved \cup {u}
           fresh == r.fresh \cup {u}
           q == Approved(r, u)
<1>1. IsFiniteSet(approved)
  BY FS_AddElement DEF RowInv
<1>2. fresh \subseteq approved /\ approved \subseteq Subject /\ r.owner \notin approved
  BY DEF RowInv, Row
<1>3. Cardinality(fresh) >= 2 => Cardinality(approved) >= 2
  BY <1>1, <1>2, FreshQuorum
<1>4. Cardinality(r.approved) >= 2 => Cardinality(approved) >= 2
  BY <1>1, FreshQuorum
<1>5. q = [r EXCEPT !.approved = approved, !.fresh = fresh, !.state = q.state]
  BY DEF Approved, Row
<1>6. q.state \in {"active", "pending"}
      /\ (TwoPerson(r) /\ q.state = "active" => Cardinality(fresh) >= 2)
      /\ (~TwoPerson(r) => q.state = "active")
  <2>1. q.state = IF Cardinality(fresh) >= ApprovalsRequired(r.mode)
                  THEN "active" ELSE "pending"
    BY DEF Approved, Row
  <2>2. Cardinality(fresh) \in Nat
    BY <1>1, <1>2, FS_Subset, FS_CardinalityType
  <2> HIDE DEF q, fresh
  <2>3. QED
    BY <2>1, <2>2 DEF ApprovalsRequired, TwoPerson
<1>7. fresh \ {r.owner} = fresh
  BY <1>2
<1>8. Revouches(r, q)
  BY <1>5 DEF Revouches, Row
<1> HIDE DEF q, fresh, approved
<1>9. QED
  BY <1>1, <1>2, <1>3, <1>4, <1>5, <1>6, <1>7, <1>8 DEF Harmless, Activates, RowInv, Row, State, TwoPerson, q

LEMMA AgedHarmless ==
    ASSUME NEW r \in Row, RowInv(r), NEW u
    PROVE  Harmless(r, [r EXCEPT !.fresh = @ \ {u}])
BY DEF Harmless, Settles, Revouches, Activates, RowInv, Row, TwoPerson

LEMMA TickHarmless ==
    ASSUME NEW r \in Row, RowInv(r)
    PROVE  /\ Harmless(r, [r EXCEPT !.overdue = TRUE])
           /\ Harmless(r, [r EXCEPT !.verified = "stale"])
BY DEF Harmless, Settles, Revouches, Activates, RowInv, Row, TwoPerson

(* An entry hands out secrets, over a fresh quorum.                            *)
LEMMA EnteredInv ==
    ASSUME NEW r \in Row, RowInv(r), QuorumFresh(r)
    PROVE  /\ Entered(r) \in Row /\ RowInv(Entered(r))
           /\ Entered(r).owner = r.owner /\ Entered(r).mode = r.mode
<1>1. TwoPerson(r) => Cardinality(r.approved) >= 2
  BY FreshQuorum DEF QuorumFresh, RowInv, ApprovalsRequired, TwoPerson
<1> DEFINE q == Entered(r)
<1>2. q \in Row
  BY DEF Row, Entered, State
<1>3. /\ q.owner = r.owner /\ q.mode = r.mode /\ q.state = "active"
      /\ q.approved = r.approved /\ q.fresh = r.fresh /\ q.held = Secret
      /\ q.entryFailures = 0 /\ q.cookieFailures = 0
  BY DEF Row, Entered
<1> HIDE DEF q
<1>4. QED
  BY <1>1, <1>2, <1>3, Limits DEF RowInv, TwoPerson, q

LEMMA NewRowInv ==
    ASSUME NEW o \in Subject, NEW m \in Mode
    PROVE  /\ NewRow(o, m) \in Row /\ RowInv(NewRow(o, m))
           /\ NewRow(o, m).held # Secret
BY EmptyApprovals, Limits, ModeAssumption DEF RowInv, Row, NewRow, State, TwoPerson, Secret, ApprovalsRequired

--------------------------------------------------------------------------------
(* The table. *)

IInv ==
    /\ TypeOK
    /\ \A s \in Session : Exists(s) => RowInv(session[s])
    /\ OneLivePlainSession

LEMMA LiveHoldsSecret ==
    ASSUME NEW r, RowInv(r)
    PROVE  "cookie_hash" \in r.held <=> r.held = Secret
BY DEF RowInv, Secret

(* A step that changes rows only by harmless updates. *)
Calm ==
    /\ session' = [s \in Session |-> session'[s]]
    /\ \A s \in Session :
          session'[s] = session[s] \/ (Exists(s) /\ Harmless(session[s], session'[s]))
    /\ \/ \A s \in Session : session'[s] = session[s] \/ Settles(session[s], session'[s])
       \/ \E s \in Session : Revouches(session[s], session'[s])
                             /\ \A t \in Session \ {s} : session'[t] = session[t]
    /\ statusRead' \subseteq Session
    /\ entitled' \subseteq Subject
    /\ cleared' \subseteq Subject

LEMMA CalmStep ==
    ASSUME IInv, Calm
    PROVE  IInv'
<1>1. TypeOK'
  BY DEF IInv, TypeOK, Calm, Harmless
<1>2. \A s \in Session : Exists(s)' => RowInv(session'[s])
  BY DEF IInv, Calm, Harmless, Exists
<1>3. \A s \in Session : (Live(s) /\ ~TwoPerson(session[s]))' =>
          /\ Live(s) /\ ~TwoPerson(session[s])
          /\ session'[s].owner = session[s].owner
  BY <1>2, LiveHoldsSecret DEF IInv, Calm, Harmless, Live, Exists, TwoPerson
<1>4. OneLivePlainSession'
  BY <1>3 DEF IInv, OneLivePlainSession
<1>5. QED
  BY <1>1, <1>2, <1>4 DEF IInv

LEMMA CalmWrite ==
    ASSUME IInv, NEW s \in Session, Exists(s), NEW q, Harmless(session[s], q), Write(s, q),
           statusRead' \subseteq Session, UNCHANGED janus
    PROVE  Calm
<1>1. session' = [session EXCEPT ![s] = q] /\ DOMAIN session = Session
  BY DEF Write, IInv, TypeOK
<1>2. session' = [t \in Session |-> session'[t]]
  BY <1>1
<1>3. \A t \in Session : session'[t] = session[t] \/ (Exists(t) /\ Harmless(session[t], session'[t]))
  BY <1>1
<1>4. entitled' \subseteq Subject /\ cleared' \subseteq Subject
  BY DEF IInv, TypeOK, janus
<1>5. \/ \A t \in Session : session'[t] = session[t] \/ Settles(session[t], session'[t])
      \/ Revouches(session[s], session'[s]) /\ \A t \in Session \ {s} : session'[t] = session[t]
  BY <1>1 DEF Harmless
<1>6. QED
  BY <1>2, <1>3, <1>4, <1>5 DEF Calm

LEMMA StoredRow ==
    ASSUME IInv, NEW s \in Session, Exists(s)
    PROVE  session[s] \in Row /\ RowInv(session[s])
BY DEF IInv, TypeOK, Exists

LEMMA CreateInv ==
    ASSUME IInv, NEW s \in Session, NEW o \in Subject, NEW m \in Mode, Create(s, o, m)
    PROVE  IInv'
<1>1. session' = [session EXCEPT ![s] = NewRow(o, m)]
  BY DEF Create, Write
<1>2. TypeOK'
  BY <1>1, NewRowInv DEF IInv, TypeOK, Create, janus
<1>3. \A t \in Session : Exists(t)' => RowInv(session'[t])
  BY <1>1, NewRowInv DEF IInv, TypeOK, Exists
<1>4. ~Live(s)'
  BY <1>1, NewRowInv, LiveHoldsSecret DEF IInv, TypeOK, Live
<1>5. OneLivePlainSession'
  BY <1>1, <1>4 DEF IInv, TypeOK, OneLivePlainSession, Live, Exists
<1>6. QED
  BY <1>2, <1>3, <1>5 DEF IInv

(* Approvals, clocks and the status query touch one row, harmlessly.           *)
LEMMA ApproveCalm ==
    ASSUME IInv, NEW s \in Session, NEW u \in Subject, Approve(s, u) \/ ApprovalAges(s, u)
    PROVE  Calm
<1>1. Exists(s) /\ UNCHANGED <<statusRead, janus>>
  BY DEF Approve, ApprovalAges
<1>2. CASE Approve(s, u)
  BY <1>1, <1>2, StoredRow, ApprovedHarmless, CalmWrite DEF Approve, IInv, TypeOK
<1>3. CASE ApprovalAges(s, u)
  BY <1>1, <1>3, StoredRow, AgedHarmless, CalmWrite DEF ApprovalAges, IInv, TypeOK
<1>4. QED
  BY <1>2, <1>3

LEMMA ClockCalm ==
    ASSUME IInv, NEW s \in Session, ExpiryPasses(s) \/ IdlePasses(s)
    PROVE  Calm
BY StoredRow, TickHarmless, CalmWrite DEF ExpiryPasses, IdlePasses, IInv, TypeOK

LEMMA StatusCalm ==
    ASSUME IInv, NEW s \in Session, StatusRead(s) \/ StatusExpire(s)
    PROVE  Calm
<1>1. CASE StatusRead(s)
  <2>1. session' = [t \in Session |-> session'[t]] /\ \A t \in Session : session'[t] = session[t]
    BY <1>1 DEF StatusRead, IInv, TypeOK
  <2>2. statusRead' \subseteq Session /\ entitled' \subseteq Subject /\ cleared' \subseteq Subject
    BY <1>1 DEF StatusRead, IInv, TypeOK, janus
  <2>3. QED
    BY <2>1, <2>2 DEF Calm
<1>2. CASE StatusExpire(s)
  <2>1. statusRead' \subseteq Session
    BY <1>2 DEF StatusExpire, IInv, TypeOK
  <2>2. Harmless(session[s], Cleared(session[s], "expired"))
    BY <1>2, StoredRow, ClearedHarmless DEF StatusExpire, Terminal
  <2>3. QED
    BY <1>2, <2>1, <2>2, CalmWrite DEF StatusExpire
<1>3. QED
  BY <1>1, <1>2

(* The outcomes that view, render and heartbeat share.                         *)
LEMMA RefusedCalm ==
    ASSUME IInv, NEW s \in Session, Exists(s), RequestRefused(s), UNCHANGED <<statusRead, janus>>
    PROVE  Calm
<1> DEFINE r == session[s]
<1>1. r \in Row /\ RowInv(r) /\ statusRead' \subseteq Session
  BY StoredRow DEF IInv, TypeOK
<1>2. \A st \in Terminal : Harmless(r, Cleared(r, st))
  BY <1>1, ClearedHarmless
<1>3. ASSUME r.verified # "stale"
      PROVE  Harmless(r, Cleared(Verified(r), "revoked"))
  <2>1. Verified(r) \in Row /\ RowInv(Verified(r)) /\ Harmless(r, Verified(r))
    BY <1>1, <1>3, VerifiedHarmless DEF Harmless
  <2>2. Harmless(Verified(r), Cleared(Verified(r), "revoked"))
    BY <2>1, ClearedHarmless DEF Terminal
  <2>3. /\ Cleared(Verified(r), "revoked").state # "active"
        /\ Cleared(Verified(r), "revoked").held = {}
        /\ Cleared(Verified(r), "revoked").fresh = {}
    BY <2>1 DEF Cleared, Row, Terminal
  <2>4. Settles(r, Cleared(Verified(r), "revoked"))
    BY <2>3 DEF Settles
  <2>5. QED
    BY <1>3, <2>1, <2>2, <2>3, <2>4 DEF Harmless, Activates
<1>4. \E q : Harmless(r, q) /\ Write(s, q)
  <2>1. CASE RequestExpired(s)
    BY <2>1, <1>2 DEF RequestExpired, Terminal
  <2>2. CASE RequestIdle(s)
    BY <2>2, <1>1, IdleHarmless DEF RequestIdle
  <2>3. CASE RequestBadCookie(s)
    BY <2>3, <1>1, CookieFailedHarmless DEF RequestBadCookie
  <2>4. CASE CheckDenied(s)
    BY <2>4, <1>2 DEF CheckDenied, Terminal
  <2>5. CASE OtherDevice(s)
    BY <2>5, <1>3 DEF OtherDevice, CheckPasses, RightCookie, Admitted
  <2>6. QED
    BY <2>1, <2>2, <2>3, <2>4, <2>5 DEF RequestRefused
<1>5. QED
  BY <1>1, <1>4, CalmWrite

LEMMA RequestCalm ==
    ASSUME IInv, NEW s \in Session, View(s) \/ Render(s) \/ Heartbeat(s)
    PROVE  Calm
<1>1. Exists(s) /\ UNCHANGED <<statusRead, janus>> /\ (RequestRefused(s) \/ ViewOk(s))
  BY DEF View, Render, Heartbeat, ProvedOk
<1>2. CASE RequestRefused(s)
  BY <1>1, <1>2, RefusedCalm
<1>3. CASE ViewOk(s)
  <2>1. Harmless(session[s], Verified(session[s])) /\ Write(s, Verified(session[s]))
    BY <1>1, <1>3, StoredRow, VerifiedHarmless DEF ViewOk, CheckPasses, RightCookie, Admitted
  <2>2. statusRead' \subseteq Session
    BY <1>1 DEF IInv, TypeOK
  <2>3. QED
    BY <1>1, <2>1, <2>2, CalmWrite
<1>4. QED
  BY <1>1, <1>2, <1>3

LEMMA CloseCalm ==
    ASSUME IInv, NEW s \in Session, NEW st \in {"closed", "revoked"}, Close(s, st)
    PROVE  Calm
BY StoredRow, ClearedHarmless, CalmWrite DEF Close, Terminal, IInv, TypeOK

LEMMA EmergencyCalm ==
    ASSUME IInv, NEW scope, EmergencyRevoke(scope)
    PROVE  Calm
<1>1. \A t \in Session :
         session'[t] = session[t] \/ (Exists(t) /\ Harmless(session[t], session'[t]))
  BY StoredRow, EmergencyHarmless DEF EmergencyRevoke
<1>2. session' = [t \in Session |-> session'[t]]
  BY DEF EmergencyRevoke
<1>3. statusRead' \subseteq Session /\ entitled' \subseteq Subject /\ cleared' \subseteq Subject
  BY DEF EmergencyRevoke, IInv, TypeOK, janus
<1>4. ASSUME NEW t \in Session
      PROVE  session'[t] = session[t] \/ Settles(session[t], session'[t])
  <2>1. CASE session'[t] # session[t]
    <3>1. Exists(t) /\ session'[t] = EmergencyRevoked(session[t]) /\ session[t] \in Row
      BY <2>1, StoredRow DEF EmergencyRevoke
    <3>2. "cookie_hash" \notin EmergencyRevoked(session[t]).held
          /\ EmergencyRevoked(session[t]).fresh = {}
      BY <3>1 DEF EmergencyRevoked, Row
    <3>3. QED
      BY <3>1, <3>2 DEF Settles
  <2>2. QED
    BY <2>1
<1>5. QED
  BY <1>1, <1>2, <1>3, <1>4 DEF Calm

LEMMA JanusCalm ==
    ASSUME IInv, NEW u \in Wavering, EntitlementChanges(u) \/ ClearanceChanges(u)
    PROVE  Calm
<1>1. u \in Subject
  BY LimitAssumption
<1>2. session' = session /\ session = [t \in Session |-> session[t]]
  BY DEF EntitlementChanges, ClearanceChanges, IInv, TypeOK
<1>3. statusRead' \subseteq Session /\ entitled' \subseteq Subject /\ cleared' \subseteq Subject
  BY <1>1 DEF EntitlementChanges, ClearanceChanges, IInv, TypeOK
<1>4. QED
  BY <1>2, <1>3 DEF Calm

(* Enter: three outcomes are harmless; the fourth hands out secrets and takes  *)
(* them from the owner's other sessions in the same step.                      *)
LEMMA EnterOkInv ==
    ASSUME IInv, NEW s \in Session, Exists(s), EnterOk(s), UNCHANGED <<statusRead, janus>>
    PROVE  IInv'
<1> DEFINE r == session[s]
<1>1. r \in Row /\ RowInv(r) /\ QuorumFresh(r)
  BY StoredRow DEF EnterOk, Enterable
<1>2. session' = [t \in Session |->
                      IF t = s THEN Entered(r)
                      ELSE IF Supersedes(s, t) THEN Superseded(session[t])
                      ELSE session[t]]
  BY DEF EnterOk
<1>3. /\ Entered(r) \in Row /\ RowInv(Entered(r))
      /\ Entered(r).owner = r.owner /\ Entered(r).mode = r.mode
  BY <1>1, EnteredInv
<1>4. \A t \in Session \ {s} :
         session'[t] = session[t] \/ (Exists(t) /\ Harmless(session[t], session'[t]))
  BY <1>2, StoredRow, SupersededHarmless DEF Supersedes
<1>5. TypeOK'
  BY <1>2, <1>3, <1>4 DEF IInv, TypeOK, Harmless, janus
<1>6. \A t \in Session : Exists(t)' => RowInv(session'[t])
  BY <1>2, <1>3, <1>4 DEF IInv, Exists, Harmless
<1>7. \A t \in Session \ {s} :
         (Live(t) /\ ~TwoPerson(session[t]))' =>
            /\ Live(t) /\ ~TwoPerson(session[t])
            /\ session'[t].owner = session[t].owner
  BY <1>4, <1>6, LiveHoldsSecret DEF IInv, Live, Exists, Harmless, TwoPerson
<1>8. \A t \in Session \ {s} :
         (Live(t) /\ ~TwoPerson(session[t]))' => session'[t].owner # r.owner
  <2>1. SUFFICES ASSUME NEW t \in Session \ {s}, (Live(t) /\ ~TwoPerson(session[t]))',
                        session'[t].owner = r.owner
                 PROVE  FALSE
    OBVIOUS
  <2>2. Live(t) /\ ~TwoPerson(session[t]) /\ session[t].owner = r.owner
    BY <1>7, <2>1
  <2>3. session[t].state = "active"
    BY <2>2, StoredRow, LiveHoldsSecret DEF RowInv, Live
  <2>4. session'[t] = Superseded(session[t])
    BY <1>2, <2>1, <2>2, <2>3 DEF Supersedes, Live
  <2>5. session'[t].held = {}
    BY <2>2, <2>4, StoredRow DEF Superseded, Row, Live
  <2>6. QED
    BY <2>1, <2>5 DEF Live
<1>9. OneLivePlainSession'
  BY <1>2, <1>3, <1>7, <1>8 DEF IInv, OneLivePlainSession
<1>10. QED
  BY <1>5, <1>6, <1>9 DEF IInv

LEMMA EnterInv ==
    ASSUME IInv, NEW s \in Session, Enter(s)
    PROVE  IInv'
<1> DEFINE r == session[s]
<1>1. Exists(s) /\ r \in Row /\ RowInv(r) /\ UNCHANGED <<statusRead, janus>>
      /\ statusRead' \subseteq Session
  BY StoredRow DEF Enter, OwnerEnters, IInv, TypeOK
<1>2. CASE EnterExpired(s)
  BY <1>1, <1>2, ClearedHarmless, CalmWrite, CalmStep DEF EnterExpired, Terminal
<1>3. CASE EnterUnapproved(s)
  BY <1>1, <1>3, DemotedHarmless, CalmWrite, CalmStep DEF EnterUnapproved, QuorumFresh
<1>4. CASE EnterBadToken(s)
  BY <1>1, <1>4, EntryFailedHarmless, CalmWrite, CalmStep DEF EnterBadToken
<1>5. CASE EnterOk(s)
  BY <1>1, <1>5, EnterOkInv
<1>6. QED
  BY <1>2, <1>3, <1>4, <1>5 DEF Enter

--------------------------------------------------------------------------------
(* What single steps may do. *)

LEMMA CalmGuarded ==
    ASSUME IInv, Calm
    PROVE  GuardedEntry /\ QuorateActivation /\ ReenteredAfterIdle
<1>1. \A s \in Session : ~Gains(s)
  BY LiveHoldsSecret DEF IInv, Calm, Harmless, Gains, Live, Exists
<1>2. QuorateActivation
  BY DEF Calm, Harmless, Activates, QuorateActivation
<1>3. ReenteredAfterIdle
  BY DEF Calm, Harmless, Exists, ReenteredAfterIdle
<1>4. QED
  BY <1>1, <1>2, <1>3 DEF GuardedEntry

LEMMA CreateGuarded ==
    ASSUME IInv, NEW s \in Session, NEW o \in Subject, NEW m \in Mode, Create(s, o, m)
    PROVE  GuardedEntry /\ QuorateActivation /\ ReenteredAfterIdle
<1>1. session' = [session EXCEPT ![s] = NewRow(o, m)] /\ ~Exists(s)
  BY DEF Create, Write
<1>2. ~Live(s)'
  BY <1>1, NewRowInv, LiveHoldsSecret DEF IInv, TypeOK, Live
<1>3. \A t \in Session \ {s} : session'[t] = session[t]
  BY <1>1 DEF IInv, TypeOK
<1>4. \A t \in Session : ~Gains(t)
  BY <1>2, <1>3 DEF Gains, Live, Exists
<1>5. QED
  BY <1>1, <1>3, <1>4 DEF GuardedEntry, QuorateActivation, ReenteredAfterIdle, Exists

LEMMA EnterOkGuarded ==
    ASSUME IInv, NEW s \in Session, OwnerEnters(s), EnterOk(s)
    PROVE  GuardedEntry /\ QuorateActivation /\ ReenteredAfterIdle
<1> DEFINE r == session[s]
<1>1. /\ Exists(s) /\ r \in Row /\ RowInv(r)
      /\ ~r.overdue /\ QuorumFresh(r) /\ r.state \in {"active", "locked"}
      /\ r.owner \in entitled
  BY StoredRow DEF EnterOk, Enterable, OwnerEnters
<1>2. \A t \in Session \ {s} : session'[t] = IF Supersedes(s, t)
                                           THEN Superseded(session[t]) ELSE session[t]
  BY DEF EnterOk
<1>3. \A t \in Session \ {s} : Supersedes(s, t) =>
         session'[t].state = "revoked" /\ session'[t].held = {}
  BY <1>2, StoredRow DEF Supersedes, Superseded, Row
<1>4. \A t \in Session \ {s} : ~Gains(t)
  BY <1>2, <1>3 DEF Gains, Live, Exists
<1>5. TwoPerson(r) => Cardinality(r.fresh) >= 2
  BY <1>1 DEF QuorumFresh, ApprovalsRequired, TwoPerson
<1>6. GuardedEntry
  BY <1>1, <1>2, <1>3, <1>4, <1>5 DEF GuardedEntry
<1>7. \A t \in Session \ {s} : Exists(t) /\ session[t].state # "active" =>
         session'[t].state # "active"
  BY <1>2, <1>3
<1>8. TwoPerson(r) => r.state = "active"
  BY <1>1 DEF RowInv
<1>9. QuorateActivation
  BY <1>6, <1>7, <1>8 DEF QuorateActivation
<1>10. \A t \in Session \ {s} : Exists(t) => session'[t].verified = session[t].verified
  BY <1>2, StoredRow DEF Supersedes, Superseded, Row
<1>11. Enterable(s) /\ session'[s] = Entered(r)
  BY DEF EnterOk
<1>12. QED
  BY <1>6, <1>9, <1>10, <1>11 DEF ReenteredAfterIdle

LEMMA EnterGuarded ==
    ASSUME IInv, NEW s \in Session, Enter(s)
    PROVE  GuardedEntry /\ QuorateActivation /\ ReenteredAfterIdle
<1> DEFINE r == session[s]
<1>1. Exists(s) /\ r \in Row /\ RowInv(r) /\ UNCHANGED <<statusRead, janus>>
      /\ statusRead' \subseteq Session /\ OwnerEnters(s)
  BY StoredRow DEF Enter, OwnerEnters, IInv, TypeOK
<1>2. CASE EnterExpired(s)
  BY <1>1, <1>2, ClearedHarmless, CalmWrite, CalmGuarded DEF EnterExpired, Terminal
<1>3. CASE EnterUnapproved(s)
  BY <1>1, <1>3, DemotedHarmless, CalmWrite, CalmGuarded DEF EnterUnapproved, QuorumFresh
<1>4. CASE EnterBadToken(s)
  BY <1>1, <1>4, EntryFailedHarmless, CalmWrite, CalmGuarded DEF EnterBadToken
<1>5. CASE EnterOk(s)
  BY <1>1, <1>5, EnterOkGuarded
<1>6. QED
  BY <1>2, <1>3, <1>4, <1>5 DEF Enter

LEMMA NextGuarded ==
    ASSUME IInv, Next
    PROVE  GuardedEntry /\ QuorateActivation /\ ReenteredAfterIdle
<1>1. CASE \E s \in Session, o \in Subject, m \in Mode : Create(s, o, m)
  BY <1>1, CreateGuarded
<1>2. CASE \E s \in Session : Enter(s)
  BY <1>2, EnterGuarded
<1>3. CASE /\ ~\E s \in Session, o \in Subject, m \in Mode : Create(s, o, m)
           /\ ~\E s \in Session : Enter(s)
  <2>1. Calm
    BY <1>3, ApproveCalm, StatusCalm, RequestCalm, EmergencyCalm, CloseCalm, ClockCalm,
       JanusCalm DEF Next
  <2>2. QED
    BY <2>1, CalmGuarded
<1>4. QED
  BY <1>1, <1>2, <1>3

--------------------------------------------------------------------------------
LEMMA InitInv == ASSUME Init PROVE IInv
BY DEF Init, IInv, TypeOK, Exists, OneLivePlainSession, Live

LEMMA NextInv == ASSUME IInv, Next PROVE IInv'
<1>1. CASE \E s \in Session, o \in Subject, m \in Mode : Create(s, o, m)
  BY <1>1, CreateInv
<1>2. CASE \E s \in Session, u \in Subject : Approve(s, u) \/ ApprovalAges(s, u)
  BY <1>2, ApproveCalm, CalmStep
<1>3. CASE \E s \in Session : StatusRead(s) \/ StatusExpire(s)
  BY <1>3, StatusCalm, CalmStep
<1>4. CASE \E s \in Session : Enter(s)
  BY <1>4, EnterInv
<1>5. CASE \E s \in Session : View(s) \/ Render(s) \/ Heartbeat(s)
  BY <1>5, RequestCalm, CalmStep
<1>6. CASE \E scope \in Scope : EmergencyRevoke(scope)
  BY <1>6, EmergencyCalm, CalmStep
<1>7. CASE \E s \in Session, st \in {"closed", "revoked"} : Close(s, st)
  BY <1>7, CloseCalm, CalmStep
<1>8. CASE \E s \in Session : ExpiryPasses(s) \/ IdlePasses(s)
  BY <1>8, ClockCalm, CalmStep
<1>9. CASE \E u \in Wavering : EntitlementChanges(u) \/ ClearanceChanges(u)
  BY <1>9, JanusCalm, CalmStep
<1>10. QED
  BY <1>1, <1>2, <1>3, <1>4, <1>5, <1>6, <1>7, <1>8, <1>9 DEF Next

LEMMA StutterInv == ASSUME IInv, UNCHANGED vars PROVE IInv'
BY DEF IInv, vars, janus, TypeOK, Exists, OneLivePlainSession, Live

(* The inductive invariant holds in every reachable state.                     *)
THEOREM Invariance == Spec => []IInv
<1>1. Init => IInv
  BY InitInv
<1>2. IInv /\ [Next]_vars => IInv'
  BY NextInv, StutterInv
<1>3. QED
  BY <1>1, <1>2, PTL DEF Spec

(* The rows are well formed, whatever order the handlers run in.               *)
THEOREM TypeCorrect == Spec => []TypeOK
<1>1. IInv => TypeOK
  BY DEF IInv
<1>2. QED
  BY <1>1, Invariance, PTL

(* No locked or ended session holds anything a viewer can be served with.      *)
THEOREM WipesComplete == Spec => []WipesAreComplete
<1>1. IInv => WipesAreComplete
  BY DEF IInv, RowInv, WipesAreComplete
<1>2. QED
  BY <1>1, Invariance, PTL

(* An active or live two-person session has two approvers besides its owner.   *)
THEOREM TwoPersonHolds == Spec => []TwoPersonControl
<1>1. IInv => TwoPersonControl
  BY LiveHoldsSecret DEF IInv, RowInv, TwoPersonControl, Live
<1>2. QED
  BY <1>1, Invariance, PTL

(* A session at a failure limit holds nothing until it is entered again.       *)
THEOREM LockoutSafe == Spec => []LockoutHolds
<1>1. IInv => LockoutHolds
  BY DEF IInv, RowInv, LockoutHolds
<1>2. QED
  BY <1>1, Invariance, PTL

(* One identity serves one viewer, among sessions without two-person control.  *)
THEOREM OneLivePlain == Spec => []OneLivePlainSession
<1>1. IInv => OneLivePlainSession
  BY DEF IInv
<1>2. QED
  BY <1>1, Invariance, PTL

(* Secrets come only from an entry with everything checked, which takes them   *)
(* from the owner's other active sessions in the same step.                    *)
THEOREM EntryGuarded == Spec => EntryIsGuarded
<1>1. IInv /\ [Next]_vars => [GuardedEntry]_vars
  BY NextGuarded
<1>2. QED
  BY <1>1, Invariance, PTL DEF Spec, EntryIsGuarded

(* Two-person control is activated only by two fresh approvals of others.      *)
THEOREM ActivationQuorate == Spec => TwoPersonActivation
<1>1. IInv /\ [Next]_vars => [QuorateActivation]_vars
  BY NextGuarded
<1>2. QED
  BY <1>1, Invariance, PTL DEF Spec, TwoPersonActivation

--------------------------------------------------------------------------------
(* Refinement: sessions implement the doors of ScifAccess.                     *)
DoorHolder == [s \in Session |-> IF Exists(s) THEN session[s].owner ELSE NoRow]
DoorQuorum == [s \in Session |-> IF Exists(s) THEN ApprovalsRequired(session[s].mode) ELSE 0]
DoorVouchers == [s \in Session |-> IF Exists(s) THEN session[s].fresh ELSE {}]
DoorOpen == {s \in Session : Live(s)}

(* A row that settles shuts its door or leaves it; together they are one Shut. *)
LEMMA SettlesShuts ==
    ASSUME IInv, Calm,
           \A s \in Session : session'[s] = session[s] \/ Settles(session[s], session'[s])
    PROVE  Access!Next
<1>0. PICK S \in SUBSET Session : S = Session \ DoorOpen'
  OBVIOUS
<1> DEFINE dropped == {s \in S : DoorVouchers'[s] = {}}
<1>1. ASSUME NEW s \in Session
      PROVE  /\ DoorHolder'[s] = DoorHolder[s] /\ DoorQuorum'[s] = DoorQuorum[s]
             /\ s \in DoorOpen' => s \in DoorOpen
             /\ DoorVouchers'[s] = IF s \in dropped THEN {} ELSE DoorVouchers[s]
  <2>1. CASE session'[s] = session[s]
    BY <1>0, <2>1 DEF DoorHolder, DoorQuorum, DoorOpen, DoorVouchers, Exists, Live
  <2>2. CASE session'[s] # session[s]
    <3>1. /\ Exists(s) /\ Settles(session[s], session'[s])
          /\ session'[s].owner = session[s].owner /\ session'[s].mode = session[s].mode
      BY <2>2 DEF Calm, Harmless
    <3>2. Exists(s)'
      BY <2>2, NoRowAssumption DEF Calm, Harmless, Exists
    <3>3. QED
      BY <1>0, <3>1, <3>2 DEF DoorHolder, DoorQuorum, DoorOpen, DoorVouchers, Exists, Live, Settles
  <2>3. QED
    BY <2>1, <2>2
<1>2. DoorHolder' = DoorHolder /\ DoorQuorum' = DoorQuorum
  BY <1>1 DEF DoorHolder, DoorQuorum
<1>3. DoorOpen' = DoorOpen \ S
  BY <1>0, <1>1 DEF DoorOpen
<1>4. DoorVouchers' = [s \in Session |-> IF s \in dropped THEN {} ELSE DoorVouchers[s]]
  BY <1>1 DEF DoorVouchers
<1>5. dropped \in SUBSET S
  OBVIOUS
<1> HIDE DEF dropped
<1>6. Access!Shut(S)
  BY <1>2, <1>3, <1>4, <1>5 DEF Access!Shut, DoorHolder, DoorQuorum, DoorOpen, DoorVouchers
<1>7. QED
  BY <1>6 DEF Access!Next

(* One approval, given or grown stale, is one Vouch or Lapse.                  *)
LEMMA RevouchesVouches ==
    ASSUME IInv, Calm, NEW s \in Session, Exists(s), session'[s] # session[s],
           Revouches(session[s], session'[s]),
           \A t \in Session \ {s} : session'[t] = session[t]
    PROVE  Access!Next
<1> DEFINE r == session[s]
           q == session'[s]
<1>1. PICK u \in Subject : (u # r.owner /\ q.fresh = r.fresh \cup {u}) \/ q.fresh = r.fresh \ {u}
  BY DEF Revouches
<1>2. /\ r \in Row /\ q \in Row /\ q.owner = r.owner /\ q.mode = r.mode /\ q.held = r.held
      /\ Exists(s)'
  BY StoredRow, NoRowAssumption DEF Calm, Harmless, Revouches, Exists
<1>3. DoorHolder' = DoorHolder /\ DoorQuorum' = DoorQuorum /\ DoorOpen' = DoorOpen
  BY <1>2 DEF DoorHolder, DoorQuorum, DoorOpen, Exists, Live
<1>4. DoorHolder[s] = r.owner /\ r.owner \in Subject /\ r.owner # NoRow
  BY <1>2, NoRowAssumption DEF DoorHolder, Row
<1>5. DoorVouchers' = [DoorVouchers EXCEPT ![s] = q.fresh] /\ DoorVouchers[s] = r.fresh
  BY <1>2 DEF DoorVouchers, Exists
<1>6. CASE u # r.owner /\ q.fresh = r.fresh \cup {u}
  <2>1. DoorHolder[s] \notin {NoRow, u} /\ DoorVouchers' = [DoorVouchers EXCEPT ![s] = @ \cup {u}]
    BY <1>4, <1>5, <1>6
  <2>2. Access!Vouch(s, u)
    BY <1>3, <2>1 DEF Access!Vouch, DoorHolder, DoorQuorum, DoorOpen, DoorVouchers
  <2>3. QED
    BY <2>2 DEF Access!Next
<1>7. CASE q.fresh = r.fresh \ {u}
  <2>1. DoorVouchers' = [DoorVouchers EXCEPT ![s] = @ \ {u}]
    BY <1>5, <1>7
  <2>2. Access!Lapse(s, u)
    BY <1>3, <2>1 DEF Access!Lapse, DoorHolder, DoorQuorum, DoorOpen, DoorVouchers
  <2>3. QED
    BY <2>2 DEF Access!Next
<1>8. QED
  BY <1>1, <1>6, <1>7

LEMMA CalmDoors == ASSUME IInv, Calm PROVE Access!Next
<1>1. CASE \A s \in Session : session'[s] = session[s] \/ Settles(session[s], session'[s])
  BY <1>1, SettlesShuts
<1>2. CASE \E s \in Session : /\ Revouches(session[s], session'[s])
                              /\ \A t \in Session \ {s} : session'[t] = session[t]
  <2>1. PICK s \in Session : /\ Revouches(session[s], session'[s])
                             /\ \A t \in Session \ {s} : session'[t] = session[t]
    BY <1>2
  <2>2. CASE session'[s] = session[s]
    BY <2>1, <2>2, SettlesShuts
  <2>3. CASE session'[s] # session[s]
    BY <2>1, <2>3, RevouchesVouches DEF Calm
  <2>4. QED
    BY <2>2, <2>3
<1>3. QED
  BY <1>1, <1>2 DEF Calm

LEMMA CreateDoors ==
    ASSUME IInv, NEW s \in Session, NEW o \in Subject, NEW m \in Mode, Create(s, o, m)
    PROVE  Access!Next
<1> DEFINE q == NewRow(o, m)
<1>1. session' = [session EXCEPT ![s] = q] /\ ~Exists(s) /\ session' \in [Session -> Row \cup {NoRow}]
  BY CreateInv DEF Create, Write, IInv, TypeOK
<1>2. q.owner = o /\ q.mode = m /\ q.fresh = {} /\ q.held = {} /\ q # NoRow
  BY NewRowInv, NoRowAssumption DEF NewRow
<1>3. session'[s] = q /\ \A t \in Session \ {s} : session'[t] = session[t]
  BY <1>1 DEF IInv, TypeOK
<1> HIDE DEF q
<1>4. DoorHolder[s] = NoRow /\ DoorHolder' = [DoorHolder EXCEPT ![s] = o]
  BY <1>1, <1>2, <1>3 DEF DoorHolder, Exists
<1>5. DoorQuorum' = [DoorQuorum EXCEPT ![s] = ApprovalsRequired(m)]
  BY <1>1, <1>2, <1>3 DEF DoorQuorum, Exists
<1>6. DoorVouchers' = DoorVouchers
  BY <1>1, <1>2, <1>3 DEF DoorVouchers, Exists
<1>7. DoorOpen' = DoorOpen
  BY <1>1, <1>2, <1>3 DEF DoorOpen, Live, Exists
<1>8. Access!Request(s, o, ApprovalsRequired(m))
  BY <1>4, <1>5, <1>6, <1>7 DEF Access!Request, DoorHolder, DoorQuorum, DoorOpen, DoorVouchers
<1>9. ApprovalsRequired(m) \in {0, 2}
  BY DEF ApprovalsRequired
<1>10. QED
  BY <1>8, <1>9 DEF Access!Next

(* The instance brings its own copy of Cardinality.                            *)
LEMMA SameCardinality == \A S : Access!Cardinality(S) = Cardinality(S)
BY DEF Access!Cardinality, Cardinality

(* An entry opens its door over enough vouchers and shuts the others it        *)
(* supersedes, among them every open one that needs no vouchers.               *)
LEMMA EnterOkDoors ==
    ASSUME IInv, NEW s \in Session, Exists(s), EnterOk(s), UNCHANGED <<statusRead, janus>>
    PROVE  Access!Next
<1> DEFINE r == session[s]
           shut == {t \in DoorOpen \ {s} : Supersedes(s, t)}
           rivals == {t \in DoorOpen \ {s} : DoorHolder[t] = DoorHolder[s]}
<1>1. r \in Row /\ RowInv(r) /\ QuorumFresh(r)
  BY StoredRow DEF EnterOk, Enterable
<1>2. session'[s] = Entered(r) /\ \A t \in Session \ {s} :
         session'[t] = IF Supersedes(s, t) THEN Superseded(session[t]) ELSE session[t]
  BY DEF EnterOk
<1>3. /\ Entered(r).owner = r.owner /\ Entered(r).mode = r.mode
      /\ Entered(r).fresh = r.fresh /\ Entered(r).held = Secret /\ Entered(r) # NoRow
  BY <1>1, EnteredInv, NoRowAssumption DEF Entered, Row
<1>4. ASSUME NEW t \in Session, Supersedes(s, t)
      PROVE  /\ Superseded(session[t]).owner = session[t].owner
             /\ Superseded(session[t]).mode = session[t].mode
             /\ Superseded(session[t]).fresh = session[t].fresh
             /\ Superseded(session[t]).held = {} /\ Superseded(session[t]) # NoRow
  <2>1. session[t] \in Row /\ RowInv(session[t])
    BY <1>4, StoredRow DEF Supersedes
  <2>2. Superseded(session[t]) \in Row
    BY <2>1, SupersededHarmless DEF Harmless
  <2>3. QED
    BY <2>1, <2>2, NoRowAssumption DEF Superseded, Row
<1>5. /\ DoorHolder' = DoorHolder /\ DoorQuorum' = DoorQuorum /\ DoorVouchers' = DoorVouchers
  BY <1>2, <1>3, <1>4 DEF DoorHolder, DoorQuorum, DoorVouchers, Exists, Supersedes
<1>6. DoorOpen' = (DoorOpen \ shut) \cup {s}
  BY <1>2, <1>3, <1>4 DEF DoorOpen, Live, Exists, Supersedes, Secret
<1>7. shut \in SUBSET rivals
  BY DEF DoorOpen, DoorHolder, Supersedes
<1>8. ASSUME NEW t \in rivals, DoorQuorum[t] = 0
      PROVE  t \in shut
  <2>1. t \in Session \ {s} /\ Live(t) /\ Exists(t) /\ session[t].owner = r.owner
    BY <1>8 DEF DoorOpen, DoorHolder, Live
  <2>2. ~TwoPerson(session[t])
    BY <1>8, <2>1 DEF DoorQuorum, ApprovalsRequired, TwoPerson
  <2>3. session[t].state = "active"
    BY <2>1, <2>2, StoredRow, LiveHoldsSecret DEF RowInv, Live
  <2>4. QED
    BY <2>1, <2>3, <1>8 DEF Supersedes
<1>9. /\ DoorHolder[s] = r.owner /\ DoorVouchers[s] = r.fresh
      /\ DoorQuorum[s] = ApprovalsRequired(r.mode) /\ r.owner # NoRow
  BY <1>1, NoRowAssumption DEF DoorHolder, DoorVouchers, DoorQuorum, Row
<1>10. Cardinality(DoorVouchers[s]) >= DoorQuorum[s]
  <2>1. Cardinality(r.fresh) \in Nat
    BY <1>1, FS_Subset, FS_CardinalityType DEF RowInv
  <2>2. QED
    BY <1>1, <1>9, <2>1 DEF QuorumFresh, ApprovalsRequired, TwoPerson
<1>11. Access!Rivals(s) = rivals
  BY DEF Access!Rivals, DoorOpen, DoorHolder
<1>12. Access!Unvouched(s) \subseteq shut
  BY <1>8, <1>11 DEF Access!Unvouched, DoorQuorum
<1> HIDE DEF shut, rivals
<1>13. Access!Open(s)
  BY <1>5, <1>6, <1>7, <1>9, <1>10, <1>11, <1>12, SameCardinality
     DEF Access!Open, DoorHolder, DoorQuorum, DoorOpen, DoorVouchers
<1>14. QED
  BY <1>13 DEF Access!Next

LEMMA EnterDoors ==
    ASSUME IInv, NEW s \in Session, Enter(s)
    PROVE  Access!Next
<1> DEFINE r == session[s]
<1>1. Exists(s) /\ r \in Row /\ RowInv(r) /\ UNCHANGED <<statusRead, janus>>
      /\ statusRead' \subseteq Session
  BY StoredRow DEF Enter, OwnerEnters, IInv, TypeOK
<1>2. CASE EnterExpired(s)
  BY <1>1, <1>2, ClearedHarmless, CalmWrite, CalmDoors DEF EnterExpired, Terminal
<1>3. CASE EnterUnapproved(s)
  BY <1>1, <1>3, DemotedHarmless, CalmWrite, CalmDoors DEF EnterUnapproved, QuorumFresh
<1>4. CASE EnterBadToken(s)
  BY <1>1, <1>4, EntryFailedHarmless, CalmWrite, CalmDoors DEF EnterBadToken
<1>5. CASE EnterOk(s)
  BY <1>1, <1>5, EnterOkDoors
<1>6. QED
  BY <1>2, <1>3, <1>4, <1>5 DEF Enter

(* The handlers implement the doors: whatever they do to their rows is a       *)
(* request, a voucher, an opening over enough vouchers, or a shutting.         *)
THEOREM SessionsImplementDoors == Spec => ImplementsAccess
<1>1. Init => Access!Init
  BY DEF Init, Access!Init, Exists, Live
<1>2. ASSUME IInv, Next
      PROVE  Access!Next
  <2>1. CASE \E s \in Session, o \in Subject, m \in Mode : Create(s, o, m)
    BY <1>2, <2>1, CreateDoors
  <2>2. CASE \E s \in Session : Enter(s)
    BY <1>2, <2>2, EnterDoors
  <2>3. CASE /\ ~\E s \in Session, o \in Subject, m \in Mode : Create(s, o, m)
             /\ ~\E s \in Session : Enter(s)
    <3>1. Calm
      BY <1>2, <2>3, ApproveCalm, StatusCalm, RequestCalm, EmergencyCalm, CloseCalm, ClockCalm,
         JanusCalm DEF Next
    <3>2. QED
      BY <1>2, <3>1, CalmDoors
  <2>4. QED
    BY <2>1, <2>2, <2>3
<1>3. UNCHANGED vars => UNCHANGED Access!doors
  BY DEF vars, Access!doors, Exists, Live
<1>4. IInv /\ [Next]_vars => [Access!Next]_(Access!doors)
  BY <1>2, <1>3
<1>5. QED
  BY <1>1, <1>4, Invariance, PTL DEF Spec, ImplementsAccess, Access!Spec

(* After its idle window a session is served again only through an entry.      *)
THEOREM IdleReentered == Spec => IdleNeedsReentry
<1>1. IInv /\ [Next]_vars => [ReenteredAfterIdle]_vars
  BY NextGuarded
<1>2. QED
  BY <1>1, Invariance, PTL DEF Spec, IdleNeedsReentry

--------------------------------------------------------------------------------
(* A request that passes the cookie, JANUS and device checks belongs to an     *)
(* active session within its expiry and its idle window, that holds every      *)
(* secret of an entry, whose owner JANUS vouches for, and under two-person     *)
(* control has two approvers other than the owner (main.py:2281-2327).         *)
AnsweredUnderControl ==
    \A s \in Session : Exists(s) /\ CheckPasses(s) =>
        /\ session[s].state = "active" /\ ~session[s].overdue /\ session[s].verified # "stale"
        /\ session[s].held = Secret /\ session[s].owner \in entitled \cap cleared
        /\ TwoPerson(session[s]) => Cardinality(session[s].approved \ {session[s].owner}) >= 2

THEOREM AnswersUnderControl == Spec => []AnsweredUnderControl
<1>1. IInv => AnsweredUnderControl
  <2> SUFFICES ASSUME IInv, NEW s \in Session, Exists(s), CheckPasses(s)
               PROVE  /\ session[s].state = "active" /\ ~session[s].overdue
                      /\ session[s].verified # "stale"
                      /\ session[s].held = Secret /\ session[s].owner \in entitled \cap cleared
                      /\ TwoPerson(session[s]) =>
                            Cardinality(session[s].approved \ {session[s].owner}) >= 2
    BY DEF AnsweredUnderControl
  <2>1. /\ session[s].state = "active" /\ ~session[s].overdue /\ session[s].verified # "stale"
        /\ session[s].owner \in entitled \cap cleared /\ "cookie_hash" \in session[s].held
    BY DEF CheckPasses, RightCookie, Admitted
  <2>2. RowInv(session[s])
    BY StoredRow
  <2>3. session[s].held = Secret
    BY <2>1, <2>2, LiveHoldsSecret
  <2>4. session[s].approved \ {session[s].owner} = session[s].approved
    BY <2>2 DEF RowInv
  <2> QED BY <2>1, <2>2, <2>3, <2>4 DEF RowInv
<1>2. QED
  BY <1>1, Invariance, PTL

================================================================================
