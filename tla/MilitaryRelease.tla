---------------------------- MODULE MilitaryRelease ----------------------------
(***************************************************************************)
(* Redacted releases of military files: the rows of                        *)
(* military_release_requests and the handlers of app/main.py that request, *)
(* approve, deny, cancel, expire and execute them.                         *)
(*                                                                         *)
(* Deciding handlers read the row FOR UPDATE and are one action each.  The *)
(* execution (military_file_protect, mode "redact") is two transactions    *)
(* with the redaction between them, so its check and its consumption are   *)
(* two actions and anything may happen in between.  That the uploaded file *)
(* and its parameters match the request is a refused stutter otherwise.    *)
(***************************************************************************)
EXTENDS Naturals, FiniteSets

CONSTANTS
    Request,      \* release request ids
    Execution,    \* event ids of military_file_protect calls, used once each
    Subject,      \* JANUS subjects
    Operator,     \* those with vault:military:operate
    Approver,     \* those with vault:military:approve, clearance and fresh MFA
    Quorum,       \* PROFILES["VAULT-MIL"].approvals_required
    None          \* no such row, no such execution

Undecided == {"pending", "approved"}
Decided == {"denied", "cancelled", "expired", "consumed"}

Release == [requestedBy: Subject, approvedBy: SUBSET Subject,
            status: Undecided \cup Decided, overdue: BOOLEAN]

\* "consumed": the second transaction committed; "lost": it did and no copy left.
Stage == {"checked", "refused", "consumed", "delivered", "lost"}
Call == [request: Request, by: Subject, approvedBy: SUBSET Subject, stage: Stage]

ASSUME ReleaseAssumption ==
    /\ Operator \subseteq Subject
    /\ Approver \subseteq Subject
    /\ Quorum \in Nat \ {0}
ASSUME NoneAssumption == None \notin Release \cup Call

VARIABLES
    release,      \* release[r]: the row, or None
    execution,    \* execution[e]: a call and how far it got, or None
    toldExpired   \* requests some caller was refused as expired

vars == <<release, execution, toldExpired>>

TypeOK ==
    /\ release \in [Request -> Release \cup {None}]
    /\ execution \in [Execution -> Call \cup {None}]
    /\ toldExpired \subseteq Request

--------------------------------------------------------------------------------
(* Faulty twins, named <definition>_<fault>: bugs the properties must reject.  *)

\* Consumption trusts the earlier check.
StillApproved_Unchecked(r) == TRUE

\* The sweep also expires what was decided.
Swept_Everything(row) == IF row.overdue THEN [row EXCEPT !.status = "expired"] ELSE row

\* Only the requester is kept from executing.
MayExecute_Approver(r, u) == u # release[r].requestedBy

\* One approval short.
Granted_OneShort(row, u) ==
    [row EXCEPT !.approvedBy = @ \cup {u},
                !.status = IF Cardinality(row.approvedBy) + 2 >= Quorum
                           THEN "approved" ELSE "pending"]

\* The requester column is read back from the approver list's default.
NewRelease_Swapped(u) ==
    [requestedBy |-> {}, approvedBy |-> {u}, status |-> "pending", overdue |-> FALSE]

--------------------------------------------------------------------------------
NewRelease(u) ==
    [requestedBy |-> u, approvedBy |-> {}, status |-> "pending", overdue |-> FALSE]

Granted(row, u) ==
    [row EXCEPT !.approvedBy = @ \cup {u},
                !.status = IF Cardinality(row.approvedBy \cup {u}) >= Quorum
                           THEN "approved" ELSE "pending"]

Swept(row) ==
    IF row.status \in Undecided /\ row.overdue
    THEN [row EXCEPT !.status = "expired"] ELSE row

Exists(r) == release[r] # None
Open(r) == Exists(r) /\ release[r].status \in Undecided
Decide(r, st) == release' = [release EXCEPT ![r].status = st]

Init ==
    /\ release = [r \in Request |-> None]
    /\ execution = [e \in Execution |-> None]
    /\ toldExpired = {}

(* request_military_redacted_release *)
Submit(r, u) ==
    /\ ~Exists(r)
    /\ u \in Operator
    /\ release' = [release EXCEPT ![r] = NewRelease(u)]
    /\ UNCHANGED <<execution, toldExpired>>

(* approve_military_release.  An expired request is updated, audited and then  *)
(* refused with a plain HTTPException: the rollback undoes the update.         *)
MayApprove(r, u) == u # release[r].requestedBy /\ u \notin release[r].approvedBy

Approve(r, u) ==
    /\ Open(r)
    /\ u \in Approver
    /\ \/ /\ release[r].overdue
          /\ toldExpired' = toldExpired \cup {r}
          /\ UNCHANGED release
       \/ /\ ~release[r].overdue
          /\ MayApprove(r, u)
          /\ release' = [release EXCEPT ![r] = Granted(@, u)]
          /\ UNCHANGED toldExpired
    /\ UNCHANGED execution

(* deny_military_release: by an approver, expired or not. *)
Deny(r, u) ==
    /\ Open(r)
    /\ u \in Approver
    /\ u # release[r].requestedBy
    /\ Decide(r, "denied")
    /\ UNCHANGED <<execution, toldExpired>>

(* cancel_military_release: by the requester, expired or not. *)
Cancel(r) ==
    /\ Open(r)
    /\ Decide(r, "cancelled")
    /\ UNCHANGED <<execution, toldExpired>>

(* The sweep that list_military_release_requests and military_summary run.     *)
Sweep ==
    /\ release' = [r \in Request |-> IF Exists(r) THEN Swept(release[r]) ELSE None]
    /\ UNCHANGED <<execution, toldExpired>>

--------------------------------------------------------------------------------
(* military_file_protect, mode "redact" *)

MayExecute(r, u) == u \notin release[r].approvedBy /\ u # release[r].requestedBy

Advance(e, stage) == execution' = [execution EXCEPT ![e].stage = stage]

(* First transaction: check the row, release its lock. *)
Check(e, r, u) ==
    /\ execution[e] = None
    /\ Exists(r)
    /\ u \in Operator
    /\ release[r].status = "approved"
    /\ \/ /\ release[r].overdue
          /\ toldExpired' = toldExpired \cup {r}
          /\ UNCHANGED execution
       \/ /\ ~release[r].overdue
          /\ Cardinality(release[r].approvedBy) >= Quorum
          /\ MayExecute(r, u)
          /\ execution' = [execution EXCEPT ![e] =
                [request |-> r, by |-> u, approvedBy |-> release[r].approvedBy,
                 stage |-> "checked"]]
          /\ UNCHANGED toldExpired
    /\ UNCHANGED release

At(e, stage) == execution[e] # None /\ execution[e].stage = stage

(* Second transaction: the guarded UPDATE and the audit entry, or a refusal. *)
StillApproved(r) == release[r].status = "approved"

Consume(e) ==
    /\ At(e, "checked")
    /\ StillApproved(execution[e].request)
    /\ Decide(execution[e].request, "consumed")
    /\ Advance(e, "consumed")
    /\ UNCHANGED toldExpired

Refuse(e) ==
    /\ At(e, "checked")
    /\ ~StillApproved(execution[e].request)
    /\ Advance(e, "refused")
    /\ UNCHANGED <<release, toldExpired>>

(* Alert, second audit entry, response with the copy. *)
Deliver(e) ==
    /\ At(e, "consumed")
    /\ Advance(e, "delivered")
    /\ UNCHANGED <<release, toldExpired>>

(* The redaction fails, the process stops, or the second audit entry fails.    *)
Fail(e) ==
    /\ \/ At(e, "checked") /\ Advance(e, "refused")
       \/ At(e, "consumed") /\ Advance(e, "lost")
    /\ UNCHANGED <<release, toldExpired>>

ExpiryPasses(r) ==
    /\ Exists(r)
    /\ ~release[r].overdue
    /\ release' = [release EXCEPT ![r].overdue = TRUE]
    /\ UNCHANGED <<execution, toldExpired>>

Next ==
    \/ \E r \in Request, u \in Subject : Submit(r, u) \/ Approve(r, u) \/ Deny(r, u)
    \/ \E r \in Request : Cancel(r) \/ ExpiryPasses(r)
    \/ Sweep
    \/ \E e \in Execution, r \in Request, u \in Subject : Check(e, r, u)
    \/ \E e \in Execution : Consume(e) \/ Refuse(e) \/ Deliver(e) \/ Fail(e)

Spec == Init /\ [][Next]_vars

--------------------------------------------------------------------------------
(* Properties *)

\* The call committed its release: the audit entry exists, a copy may have left.
Spent(e) == execution[e] # None /\ execution[e].stage \in {"consumed", "delivered", "lost"}

(* However many calls passed the check before any consumed, one authorization  *)
(* yields one release, and a release is never audited for a request that was   *)
(* denied, cancelled, expired or still open: its row says consumed, and a      *)
(* consumed row has its release.                                               *)
OneReleasePerRequest ==
    /\ \A e, f \in Execution :
          Spent(e) /\ Spent(f) /\ execution[e].request = execution[f].request => e = f
    /\ \A e \in Execution :
          Spent(e) => LET row == release[execution[e].request]
                      IN  row # None /\ row.status = "consumed"
    /\ \A r \in Request : Exists(r) /\ release[r].status = "consumed" =>
          \E e \in Execution : Spent(e) /\ execution[e].request = r

(* Nothing is approved or released on fewer than Quorum approvers, and the     *)
(* requester is never one of them.                                             *)
IndependentQuorum ==
    \A r \in Request : Exists(r) =>
        /\ release[r].requestedBy \notin release[r].approvedBy
        /\ release[r].status \in {"approved", "consumed"} =>
              Cardinality(release[r].approvedBy) >= Quorum

(* A release's audit entry names a full quorum that holds neither the person   *)
(* who executed it nor the one who asked for it.                               *)
AuditedSeparation ==
    \A e \in Execution : Spent(e) =>
        /\ Cardinality(execution[e].approvedBy) >= Quorum
        /\ execution[e].by \notin execution[e].approvedBy
        /\ execution[e].by # release[execution[e].request].requestedBy
        /\ release[execution[e].request].requestedBy \notin execution[e].approvedBy

(* A decision is final, and the approvals it was taken on are frozen with it.  *)
(* An expiry that somebody was told of freezes them too, although the status   *)
(* written with it was rolled back.                                            *)
DecisionIsFinal ==
    [][\A r \in Request : Exists(r) =>
          /\ release[r].status \in Decided => release'[r].status = release[r].status
          /\ release[r].status \in Decided \/ r \in toldExpired =>
                release'[r].approvedBy = release[r].approvedBy]_vars

================================================================================
