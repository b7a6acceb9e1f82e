------------------------- MODULE MilitaryReleaseProofs -------------------------
(***************************************************************************)
(* Proofs about MilitaryRelease for any sets of requests, executions and   *)
(* subjects and any positive quorum.                                       *)
(*                                                                         *)
(* A row changes by one of the row updates; each preserves RowInv and      *)
(* keeps a decided row as it is (Successor).  An execution keeps what its  *)
(* check saw (CallInv).  Only Consume relates the two (OneReleasePerRequest). *)
(***************************************************************************)
EXTENDS MilitaryRelease, FiniteSetTheorems, TLAPS

(* What every stored request satisfies.                                        *)
RowInv(row) ==
    /\ IsFiniteSet(row.approvedBy)
    /\ row.requestedBy \notin row.approvedBy
    /\ row.status \in {"approved", "consumed"} => Cardinality(row.approvedBy) >= Quorum

(* A row update by any handler but the consuming one.                          *)
Successor(row, new) ==
    /\ new \in Release /\ RowInv(new)
    /\ new.requestedBy = row.requestedBy
    /\ row.status \in Decided => new.status = row.status /\ new.approvedBy = row.approvedBy
    /\ new.status = "consumed" => row.status = "consumed"

Unopened(row) == row \in Release /\ RowInv(row) /\ row.status = "pending"

Called(e) == execution[e] # None

(* What a call keeps from its check, whatever happens to the request since.    *)
CallInv(e) ==
    LET call == execution[e]
        row == release[call.request]
    IN  /\ row # None
        /\ Cardinality(call.approvedBy) >= Quorum
        /\ call.by \notin call.approvedBy
        /\ call.by # row.requestedBy
        /\ row.requestedBy \notin call.approvedBy

IInv ==
    /\ TypeOK
    /\ \A r \in Request : Exists(r) => RowInv(release[r])
    /\ \A e \in Execution : Called(e) => CallInv(e)
    /\ OneReleasePerRequest

(* A step that leaves the executions alone.                                    *)
Calm ==
    /\ release' \in [Request -> Release \cup {None}]
    /\ \A r \in Request :
          \/ release'[r] = release[r]
          \/ Exists(r) /\ Successor(release[r], release'[r])
          \/ ~Exists(r) /\ Unopened(release'[r])
    /\ execution' = execution
    /\ toldExpired' \subseteq Request

--------------------------------------------------------------------------------
LEMMA NoRowIsNone == ASSUME NEW row \in Release PROVE row # None
BY NoneAssumption

LEMMA NoCallIsNone == ASSUME NEW call \in Call PROVE call # None
BY NoneAssumption

LEMMA SubmittedRow == ASSUME NEW u \in Subject PROVE Unopened(NewRelease(u))
<1>1. IsFiniteSet({})
  BY FS_EmptySet
<1>2. QED
  BY <1>1 DEF Unopened, NewRelease, Release, RowInv, Undecided

LEMMA GrantedRow ==
    ASSUME NEW row \in Release, RowInv(row), row.status \in Undecided,
           NEW u \in Subject, u # row.requestedBy
    PROVE  Successor(row, Granted(row, u))
<1> DEFINE approvedBy == row.approvedBy \cup {u}
           new == Granted(row, u)
<1>1. IsFiniteSet(approvedBy)
  BY FS_AddElement DEF RowInv
<1>2. Cardinality(approvedBy) \in Nat
  BY <1>1, FS_CardinalityType
<1>3. new = [row EXCEPT !.approvedBy = approvedBy,
                        !.status = IF Cardinality(approvedBy) >= Quorum
                                   THEN "approved" ELSE "pending"]
  BY DEF Granted, Release
<1>8. approvedBy \in SUBSET Subject
  BY DEF Release
<1> HIDE DEF new, approvedBy
<1>4. /\ new \in Release /\ new.requestedBy = row.requestedBy
      /\ new.approvedBy = approvedBy
      /\ new.status = IF Cardinality(approvedBy) >= Quorum THEN "approved" ELSE "pending"
  BY <1>3, <1>8 DEF Release, Undecided
<1>5. row.requestedBy \notin approvedBy
  BY DEF RowInv, approvedBy
<1>6. RowInv(new)
  BY <1>1, <1>4, <1>5 DEF RowInv
<1>7. Successor(row, new)
  BY <1>4, <1>6 DEF Successor, Undecided, Decided
<1>9. QED
  BY <1>7 DEF new

LEMMA DecidedRow ==
    ASSUME NEW row \in Release, RowInv(row), row.status \in Undecided,
           NEW st \in {"denied", "cancelled", "expired"}
    PROVE  Successor(row, [row EXCEPT !.status = st])
BY DEF Successor, RowInv, Release, Undecided, Decided

LEMMA OverdueRow ==
    ASSUME NEW row \in Release, RowInv(row)
    PROVE  Successor(row, [row EXCEPT !.overdue = TRUE])
BY DEF Successor, RowInv, Release, Decided

LEMMA SweptRow ==
    ASSUME NEW row \in Release, RowInv(row)
    PROVE  Swept(row) = row \/ Successor(row, Swept(row))
BY DecidedRow DEF Swept

--------------------------------------------------------------------------------
(* A calm step preserves the invariant: no row turns consumed, no row vanishes *)
(* and the requesters the calls were checked against stay.                     *)
LEMMA CalmStep == IInv /\ Calm => IInv'
<1> SUFFICES ASSUME IInv, Calm PROVE IInv'
  OBVIOUS
<1>1. TypeOK'
  BY DEF IInv, TypeOK, Calm
<1>2. ASSUME NEW r \in Request, Exists(r)'
      PROVE  RowInv(release'[r])
  BY <1>2 DEF IInv, Calm, Exists, Successor, Unopened
<1>3. ASSUME NEW r \in Request, Exists(r)
      PROVE  /\ Exists(r)'
             /\ release'[r].requestedBy = release[r].requestedBy
             /\ release'[r].status = "consumed" <=> release[r].status = "consumed"
  <2>1. release[r] \in Release
    BY <1>3 DEF IInv, TypeOK, Exists
  <2>2. CASE Successor(release[r], release'[r])
    BY <2>1, <2>2, NoRowIsNone DEF Exists, Successor, Decided
  <2>3. CASE release'[r] = release[r]
    BY <1>3, <2>3 DEF Exists
  <2>4. QED
    BY <1>3, <2>2, <2>3 DEF Calm
<1>4. ASSUME NEW r \in Request, ~Exists(r), Exists(r)'
      PROVE  release'[r].status # "consumed"
  BY <1>4 DEF Calm, Exists, Unopened
<1>5. \A e \in Execution : Called(e) => execution[e] \in Call /\ execution[e].request \in Request
  BY DEF IInv, TypeOK, Called, Call
<1>6. ASSUME NEW e \in Execution, Called(e)'
      PROVE  CallInv(e)'
  <2>1. Called(e) /\ execution'[e] = execution[e]
    BY <1>6 DEF Calm, Called
  <2>2. CallInv(e) /\ Exists(execution[e].request)
    BY <2>1 DEF IInv, CallInv, Exists
  <2>3. QED
    BY <1>3, <1>5, <2>1, <2>2 DEF CallInv, Exists
<1>7. \A e \in Execution : (Spent(e)' <=> Spent(e)) /\ execution'[e] = execution[e]
  BY DEF Calm, Spent
<1>8. OneReleasePerRequest'
  <2>1. ASSUME NEW e \in Execution, NEW f \in Execution, Spent(e)', Spent(f)',
               execution'[e].request = execution'[f].request
        PROVE  e = f
    BY <1>7, <2>1 DEF IInv, OneReleasePerRequest
  <2>2. ASSUME NEW e \in Execution, Spent(e)'
        PROVE  LET row == release'[execution'[e].request]
               IN  row # None /\ row.status = "consumed"
    <3>1. Spent(e) /\ execution[e].request \in Request
      BY <1>5, <1>7, <2>2 DEF Spent, Called
    <3>2. Exists(execution[e].request) /\ release[execution[e].request].status = "consumed"
      BY <3>1 DEF IInv, OneReleasePerRequest, Exists
    <3>3. QED
      BY <1>3, <1>7, <3>1, <3>2 DEF Exists
  <2>3. ASSUME NEW r \in Request, Exists(r)', release'[r].status = "consumed"
        PROVE  \E e \in Execution : Spent(e)' /\ execution'[e].request = r
    <3>1. Exists(r) /\ release[r].status = "consumed"
      BY <1>3, <1>4, <2>3
    <3>2. PICK e \in Execution : Spent(e) /\ execution[e].request = r
      BY <3>1 DEF IInv, OneReleasePerRequest
    <3>3. QED
      BY <1>7, <3>2
  <2>4. QED
    BY <2>1, <2>2, <2>3 DEF OneReleasePerRequest
<1>9. QED
  BY <1>1, <1>2, <1>6, <1>8 DEF IInv

(* Every handler but the execution of a release is calm.                       *)
LEMMA DecidingIsCalm ==
    ASSUME IInv,
           \/ \E r \in Request, u \in Subject : Submit(r, u) \/ Approve(r, u) \/ Deny(r, u)
           \/ \E r \in Request : Cancel(r) \/ ExpiryPasses(r)
           \/ Sweep
           \/ UNCHANGED vars
    PROVE  Calm
<1> DEFINE Rewrites(r, new) == release' = [release EXCEPT ![r] = new]
<1>1. \A r \in Request : Exists(r) => release[r] \in Release /\ RowInv(release[r])
  BY DEF IInv, TypeOK, Exists
<1>2. /\ release \in [Request -> Release \cup {None}]
      /\ toldExpired \subseteq Request
  BY DEF IInv, TypeOK
<1>3. ASSUME NEW r \in Request, NEW new, Rewrites(r, new),
             \/ Exists(r) /\ Successor(release[r], new)
             \/ ~Exists(r) /\ Unopened(new),
             execution' = execution, toldExpired' = toldExpired
      PROVE  Calm
  <2>1. new \in Release
    BY <1>3 DEF Successor, Unopened
  <2>2. QED
    BY <1>2, <1>3, <2>1 DEF Calm
<1> HIDE DEF Rewrites
<1>4. ASSUME NEW r \in Request, NEW u \in Subject, Submit(r, u)
      PROVE  Calm
  BY <1>3, <1>4, SubmittedRow DEF Submit, Rewrites
<1>5. ASSUME NEW r \in Request, NEW u \in Subject, Approve(r, u)
      PROVE  Calm
  <2>1. CASE UNCHANGED release
    BY <1>2, <1>5, <2>1 DEF Calm, Approve
  <2>2. CASE /\ MayApprove(r, u) /\ Rewrites(r, Granted(release[r], u))
             /\ toldExpired' = toldExpired
    BY <1>1, <1>3, <1>5, <2>2, GrantedRow DEF Approve, MayApprove, Open
  <2>3. QED
    BY <1>5, <2>1, <2>2 DEF Approve, Rewrites
<1>6. ASSUME NEW r \in Request, NEW st \in {"denied", "cancelled"}, Open(r),
             Decide(r, st), execution' = execution, toldExpired' = toldExpired
      PROVE  Calm
  <2>1. Successor(release[r], [release[r] EXCEPT !.status = st])
    BY <1>1, <1>6, DecidedRow DEF Open
  <2>2. Rewrites(r, [release[r] EXCEPT !.status = st])
    BY <1>6 DEF Decide, Rewrites
  <2>3. QED
    BY <1>3, <1>6, <2>1, <2>2 DEF Open
<1>7. ASSUME NEW r \in Request, NEW u \in Subject, Deny(r, u)
      PROVE  Calm
  BY <1>6, <1>7 DEF Deny
<1>8. ASSUME NEW r \in Request, Cancel(r)
      PROVE  Calm
  BY <1>6, <1>8 DEF Cancel
<1>9. ASSUME NEW r \in Request, ExpiryPasses(r)
      PROVE  Calm
  <2>1. Successor(release[r], [release[r] EXCEPT !.overdue = TRUE])
    BY <1>1, <1>9, OverdueRow DEF ExpiryPasses
  <2>2. Rewrites(r, [release[r] EXCEPT !.overdue = TRUE])
    BY <1>9 DEF ExpiryPasses, Rewrites
  <2>3. QED
    BY <1>3, <1>9, <2>1, <2>2 DEF ExpiryPasses
<1>10. ASSUME Sweep
       PROVE  Calm
  <2>1. \A r \in Request : Exists(r) =>
            Swept(release[r]) = release[r] \/ Successor(release[r], Swept(release[r]))
    BY <1>1, SweptRow
  <2>2. \A r \in Request : release'[r] = IF Exists(r) THEN Swept(release[r]) ELSE None
    BY <1>10 DEF Sweep
  <2>3. \A r \in Request : release'[r] \in Release \cup {None}
    BY <1>1, <2>1, <2>2 DEF Successor
  <2>4. QED
    BY <1>2, <1>10, <2>1, <2>2, <2>3 DEF Calm, Sweep, Exists
<1>11. CASE UNCHANGED vars
  BY <1>2, <1>11 DEF Calm, vars
<1>12. QED
  BY <1>4, <1>5, <1>7, <1>8, <1>9, <1>10, <1>11

(* A call advances without consuming: its request's row is left alone.         *)
LEMMA AdvanceStep ==
    ASSUME IInv, release' = release, toldExpired' \subseteq Request,
           NEW e \in Execution, NEW call \in Call,
           execution' = [execution EXCEPT ![e] = call],
           CallInv(e)',
           Spent(e) <=> call.stage \in {"consumed", "delivered", "lost"},
           Spent(e) => call.request = execution[e].request
    PROVE  IInv'
<1>1. execution \in [Execution -> Call \cup {None}]
  BY DEF IInv, TypeOK
<1>2. TypeOK'
  BY <1>1 DEF IInv, TypeOK
<1>3. \A r \in Request : Exists(r)' => RowInv(release'[r])
  BY DEF IInv, Exists
<1>4. ASSUME NEW f \in Execution, Called(f)'
      PROVE  CallInv(f)'
  <2>1. CASE f # e
    <3>1. execution'[f] = execution[f]
      BY <1>1, <2>1
    <3>2. Called(f) /\ CallInv(f)
      BY <1>4, <3>1 DEF IInv, Called
    <3>3. QED
      BY <3>1, <3>2 DEF CallInv
  <2>2. QED
    BY <2>1
<1>5. \A f \in Execution : /\ Spent(f)' <=> Spent(f)
                           /\ Spent(f) => execution'[f].request = execution[f].request
  <2>1. execution'[e] = call /\ call # None
    BY <1>1, NoCallIsNone
  <2>2. \A f \in Execution \ {e} : execution'[f] = execution[f]
    BY <1>1
  <2>3. QED
    BY <2>1, <2>2 DEF Spent
<1>6. OneReleasePerRequest'
  <2>1. OneReleasePerRequest
    BY DEF IInv
  <2>2. QED
    BY <1>5, <2>1 DEF OneReleasePerRequest, Exists
<1>7. QED
  BY <1>2, <1>3, <1>4, <1>6 DEF IInv

LEMMA CheckStep ==
    ASSUME IInv, NEW e \in Execution, NEW r \in Request, NEW u \in Subject, Check(e, r, u)
    PROVE  IInv'
<1>1. CASE release[r].overdue
  <2>1. UNCHANGED <<release, execution>> /\ toldExpired' \subseteq Request
    BY <1>1 DEF Check, IInv, TypeOK
  <2>2. Calm
    BY <2>1 DEF Calm, IInv, TypeOK
  <2>3. QED
    BY <2>2, CalmStep
<1>2. CASE ~release[r].overdue
  <2> DEFINE call == [request |-> r, by |-> u, approvedBy |-> release[r].approvedBy,
                      stage |-> "checked"]
  <2>1. release[r] \in Release /\ RowInv(release[r])
    BY DEF Check, IInv, TypeOK, Exists
  <2>2. call \in Call
    BY <2>1 DEF Call, Release, Stage
  <2>3. /\ release' = release /\ toldExpired' = toldExpired
        /\ execution' = [execution EXCEPT ![e] = call]
        /\ Cardinality(release[r].approvedBy) >= Quorum
        /\ MayExecute(r, u) /\ release[r] # None /\ execution[e] = None
    BY <1>2 DEF Check, Exists
  <2>4. execution'[e] = call
    BY <2>3 DEF IInv, TypeOK
  <2>5. call.request = r /\ call.by = u /\ call.approvedBy = release[r].approvedBy
        /\ call.stage = "checked"
    OBVIOUS
  <2> HIDE DEF call
  <2>6. CallInv(e)'
    BY <2>1, <2>3, <2>4, <2>5 DEF CallInv, MayExecute, RowInv
  <2>7. ~Spent(e)
    BY <2>3 DEF Spent
  <2>8. QED
    BY <2>2, <2>3, <2>5, <2>6, <2>7, AdvanceStep DEF IInv, TypeOK
<1>3. QED
  BY <1>1, <1>2

(* Refuse, Deliver and Fail: the stage moves within or outside the spent ones. *)
LEMMA StageStep ==
    ASSUME IInv, NEW e \in Execution, NEW stage \in Stage, execution[e] # None,
           Advance(e, stage), UNCHANGED <<release, toldExpired>>,
           Spent(e) <=> stage \in {"consumed", "delivered", "lost"}
    PROVE  IInv'
<1> DEFINE call == [execution[e] EXCEPT !.stage = stage]
<1>1. execution[e] \in Call
  BY DEF IInv, TypeOK
<1>2. /\ call \in Call /\ call.stage = stage
      /\ call.request = execution[e].request /\ call.by = execution[e].by
      /\ call.approvedBy = execution[e].approvedBy
  BY <1>1 DEF Call
<1>3. execution' = [execution EXCEPT ![e] = call]
  BY DEF Advance
<1> HIDE DEF call
<1>4. execution'[e] = call
  BY <1>3 DEF IInv, TypeOK
<1>5. CallInv(e)'
  BY <1>2, <1>4 DEF IInv, Called, CallInv
<1>6. QED
  BY <1>2, <1>3, <1>5, AdvanceStep DEF IInv, TypeOK

(* The guarded UPDATE: the row was approved, so no call had spent it.          *)
LEMMA ConsumeStep ==
    ASSUME IInv, NEW e \in Execution, Consume(e)
    PROVE  IInv'
<1> DEFINE q == execution[e].request
           row == [release[q] EXCEPT !.status = "consumed"]
           call == [execution[e] EXCEPT !.stage = "consumed"]
<1>1. /\ execution[e] # None /\ execution[e] \in Call /\ execution[e].stage = "checked"
      /\ q \in Request /\ CallInv(e)
  BY DEF Consume, At, IInv, TypeOK, Called, Call
<1>2. /\ release[q] # None /\ release[q] \in Release /\ RowInv(release[q])
      /\ release[q].status = "approved"
  BY <1>1 DEF CallInv, IInv, TypeOK, Exists, Consume, StillApproved
<1>3. /\ row \in Release /\ row.status = "consumed"
      /\ row.requestedBy = release[q].requestedBy /\ row.approvedBy = release[q].approvedBy
  BY <1>2 DEF Release, Decided
<1>4. /\ call \in Call /\ call.stage = "consumed" /\ call.request = q
      /\ call.by = execution[e].by /\ call.approvedBy = execution[e].approvedBy
  BY <1>1 DEF Call, Stage
<1>5. /\ release' = [release EXCEPT ![q] = row]
      /\ execution' = [execution EXCEPT ![e] = call]
      /\ toldExpired' = toldExpired
  BY DEF Consume, Decide, Advance
<1>6. /\ release \in [Request -> Release \cup {None}]
      /\ execution \in [Execution -> Call \cup {None}]
      /\ toldExpired \subseteq Request
  BY DEF IInv, TypeOK
<1>7. row # None /\ call # None
  BY <1>3, <1>4, NoRowIsNone, NoCallIsNone
<1>8. ~Spent(e)
  BY <1>1 DEF Spent
<1>9. \A f \in Execution : Spent(f) => execution[f].request # q
  BY <1>2 DEF IInv, OneReleasePerRequest
<1>10. RowInv(row)
  BY <1>2, <1>3 DEF RowInv
<1>11. \A f \in Execution : Called(f) => execution[f] \in Call /\ execution[f].request \in Request
  BY <1>6 DEF Called, Call
<1> HIDE DEF row, call, q
<1>12. release'[q] = row /\ \A r \in Request \ {q} : release'[r] = release[r]
  BY <1>1, <1>5, <1>6
<1>13. execution'[e] = call /\ \A f \in Execution \ {e} : execution'[f] = execution[f]
  BY <1>5, <1>6
<1>14. TypeOK'
  BY <1>3, <1>4, <1>5, <1>6 DEF TypeOK
<1>15. \A r \in Request : Exists(r)' => RowInv(release'[r])
  BY <1>10, <1>12 DEF IInv, Exists
<1>16. ASSUME NEW f \in Execution, Called(f)'
       PROVE  CallInv(f)'
  <2>1. CASE f = e
    BY <1>1, <1>3, <1>4, <1>7, <1>12, <1>13, <2>1 DEF CallInv, q
  <2>2. CASE f # e
    <3>1. execution'[f] = execution[f] /\ Called(f) /\ CallInv(f)
      BY <1>13, <1>16, <2>2 DEF IInv, Called
    <3>2. /\ release'[execution[f].request] # None
          /\ release'[execution[f].request].requestedBy = release[execution[f].request].requestedBy
      BY <1>3, <1>7, <1>11, <1>12, <3>1 DEF CallInv
    <3>3. QED
      BY <3>1, <3>2 DEF CallInv
  <2>3. QED
    BY <2>1, <2>2
<1>17. \A f \in Execution : Spent(f)' <=> Spent(f) \/ f = e
  BY <1>4, <1>7, <1>13 DEF Spent
<1>18. OneReleasePerRequest'
  <2>1. ASSUME NEW f \in Execution, NEW g \in Execution, Spent(f)', Spent(g)',
               execution'[f].request = execution'[g].request
        PROVE  f = g
    BY <1>4, <1>9, <1>13, <1>17, <2>1 DEF IInv, OneReleasePerRequest
  <2>2. ASSUME NEW f \in Execution, Spent(f)'
        PROVE  /\ release'[execution'[f].request] # None
               /\ release'[execution'[f].request].status = "consumed"
    <3>1. CASE f = e
      BY <1>3, <1>4, <1>7, <1>12, <1>13, <3>1
    <3>2. CASE f # e
      <4>1. Spent(f) /\ execution'[f] = execution[f] /\ execution[f].request \in Request \ {q}
        BY <1>9, <1>11, <1>13, <1>17, <2>2, <3>2 DEF Spent, Called
      <4>2. QED
        BY <1>12, <4>1 DEF IInv, OneReleasePerRequest
    <3>3. QED
      BY <3>1, <3>2
  <2>3. ASSUME NEW r \in Request, Exists(r)', release'[r].status = "consumed"
        PROVE  \E f \in Execution : Spent(f)' /\ execution'[f].request = r
    <3>1. CASE r = q
      BY <1>4, <1>13, <1>17, <3>1
    <3>2. CASE r # q
      <4>1. Exists(r) /\ release[r].status = "consumed"
        BY <1>12, <2>3, <3>2 DEF Exists
      <4>2. PICK f \in Execution : Spent(f) /\ execution[f].request = r
        BY <4>1 DEF IInv, OneReleasePerRequest
      <4>3. QED
        BY <1>8, <1>13, <1>17, <4>2
    <3>3. QED
      BY <3>1, <3>2
  <2>4. QED
    BY <2>1, <2>2, <2>3 DEF OneReleasePerRequest
<1>19. QED
  BY <1>14, <1>15, <1>16, <1>18 DEF IInv

--------------------------------------------------------------------------------
LEMMA Initially == Init => IInv
BY DEF Init, IInv, TypeOK, Exists, Called, OneReleasePerRequest, Spent

LEMMA Inductive == IInv /\ [Next]_vars => IInv'
<1> SUFFICES ASSUME IInv, [Next]_vars PROVE IInv'
  OBVIOUS
<1>1. CASE \/ \E r \in Request, u \in Subject : Submit(r, u) \/ Approve(r, u) \/ Deny(r, u)
           \/ \E r \in Request : Cancel(r) \/ ExpiryPasses(r)
           \/ Sweep
           \/ UNCHANGED vars
  BY <1>1, DecidingIsCalm, CalmStep
<1>2. ASSUME NEW e \in Execution, NEW r \in Request, NEW u \in Subject, Check(e, r, u)
      PROVE  IInv'
  BY <1>2, CheckStep
<1>3. ASSUME NEW e \in Execution, Consume(e)
      PROVE  IInv'
  BY <1>3, ConsumeStep
<1>4. ASSUME NEW e \in Execution, Refuse(e)
      PROVE  IInv'
  BY <1>4, StageStep DEF Refuse, At, Spent, Stage
<1>5. ASSUME NEW e \in Execution, Deliver(e)
      PROVE  IInv'
  BY <1>5, StageStep DEF Deliver, At, Spent, Stage
<1>6. ASSUME NEW e \in Execution, Fail(e)
      PROVE  IInv'
  BY <1>6, StageStep DEF Fail, At, Spent, Stage
<1>7. QED
  BY <1>1, <1>2, <1>3, <1>4, <1>5, <1>6 DEF Next

LEMMA Invariance == Spec => []IInv
BY Initially, Inductive, PTL DEF Spec

(* Every reachable table of requests and calls is well typed.                  *)
THEOREM TypeCorrect == Spec => []TypeOK
<1>1. IInv => TypeOK
  BY DEF IInv
<1>2. QED
  BY <1>1, Invariance, PTL

(* One authorization yields one release, however many executions were checked  *)
(* against it before the first one consumed it (military_file_protect).        *)
THEOREM ReleasedOnce == Spec => []OneReleasePerRequest
<1>1. IInv => OneReleasePerRequest
  BY DEF IInv
<1>2. QED
  BY <1>1, Invariance, PTL

(* Approved and consumed requests carry a quorum without their requester       *)
(* (approve_military_release).                                                 *)
THEOREM QuorumIndependent == Spec => []IndependentQuorum
<1>1. IInv => IndependentQuorum
  BY DEF IInv, IndependentQuorum, RowInv
<1>2. QED
  BY <1>1, Invariance, PTL

(* The audit entry of a release names a quorum apart from executor and         *)
(* requester (military_file_protect).                                          *)
THEOREM AuditSeparated == Spec => []AuditedSeparation
<1>1. IInv => AuditedSeparation
  BY DEF IInv, AuditedSeparation, CallInv, Called, Spent
<1>2. QED
  BY <1>1, Invariance, PTL

--------------------------------------------------------------------------------
(* What a step does to an expired row: it stays expired, with its approvals.   *)
Overdue(r) == Exists(r) /\ release[r].overdue

ExpiryStays ==
    \A r \in Request : Overdue(r) =>
        Overdue(r)' /\ release'[r].approvedBy = release[r].approvedBy

LEMMA StepKeepsExpiry == IInv /\ [Next]_vars => ExpiryStays
<1> SUFFICES ASSUME IInv, [Next]_vars PROVE ExpiryStays
  OBVIOUS
<1>1. /\ release \in [Request -> Release \cup {None}]
      /\ \A r \in Request : Exists(r) => release[r] \in Release
  BY DEF IInv, TypeOK, Exists
<1>2. ASSUME NEW q \in Request, NEW new \in Release, release' = [release EXCEPT ![q] = new],
             Overdue(q) => new.overdue /\ new.approvedBy = release[q].approvedBy
      PROVE  ExpiryStays
  BY <1>1, <1>2, NoRowIsNone DEF ExpiryStays, Overdue, Exists
<1>3. ASSUME NEW q \in Request, Exists(q),
             NEW st \in {"denied", "cancelled", "consumed"}, Decide(q, st)
      PROVE  ExpiryStays
  <2> DEFINE new == [release[q] EXCEPT !.status = st]
  <2>1. /\ new \in Release /\ new.overdue = release[q].overdue
        /\ new.approvedBy = release[q].approvedBy
    BY <1>1, <1>3 DEF Release, Decided
  <2>2. release' = [release EXCEPT ![q] = new]
    BY <1>3 DEF Decide
  <2> HIDE DEF new
  <2>3. QED
    BY <1>2, <2>1, <2>2 DEF Overdue
<1>4. ASSUME NEW r \in Request, NEW u \in Subject, Submit(r, u)
      PROVE  ExpiryStays
  <2>1. NewRelease(u) \in Release /\ ~Overdue(r)
    BY <1>4, SubmittedRow DEF Submit, Unopened, Overdue
  <2>2. QED
    BY <1>2, <1>4, <2>1 DEF Submit
<1>5. ASSUME NEW r \in Request, NEW u \in Subject, Approve(r, u)
      PROVE  ExpiryStays
  <2>1. CASE UNCHANGED release
    BY <2>1 DEF ExpiryStays, Overdue, Exists
  <2>2. CASE /\ ~release[r].overdue /\ MayApprove(r, u)
             /\ release' = [release EXCEPT ![r] = Granted(release[r], u)]
    <3>1. Successor(release[r], Granted(release[r], u))
      BY <1>5, <2>2, GrantedRow DEF Approve, MayApprove, Open, IInv, TypeOK, Exists
    <3>2. QED
      BY <1>2, <2>2, <3>1 DEF Successor, Overdue
  <2>3. QED
    BY <1>5, <2>1, <2>2 DEF Approve
<1>6. ASSUME NEW r \in Request, ExpiryPasses(r)
      PROVE  ExpiryStays
  <2> DEFINE new == [release[r] EXCEPT !.overdue = TRUE]
  <2>1. new \in Release /\ ~Overdue(r)
    BY <1>1, <1>6 DEF ExpiryPasses, Release, Overdue
  <2>2. release' = [release EXCEPT ![r] = new]
    BY <1>6 DEF ExpiryPasses
  <2> HIDE DEF new
  <2>3. QED
    BY <1>2, <2>1, <2>2
<1>7. ASSUME Sweep
      PROVE  ExpiryStays
  <2>1. \A r \in Request : Exists(r) =>
            /\ Swept(release[r]) \in Release
            /\ Swept(release[r]).overdue = release[r].overdue
            /\ Swept(release[r]).approvedBy = release[r].approvedBy
    BY <1>1 DEF Swept, Release, Decided
  <2>2. \A r \in Request : Exists(r) => release'[r] = Swept(release[r])
    BY <1>7 DEF Sweep
  <2>3. QED
    BY <2>1, <2>2, NoRowIsNone DEF ExpiryStays, Overdue, Exists
<1>8. ASSUME NEW e \in Execution, Consume(e)
      PROVE  ExpiryStays
  <2>1. execution[e].request \in Request /\ Exists(execution[e].request)
    BY <1>8 DEF Consume, At, IInv, TypeOK, Called, CallInv, Call, Exists
  <2>2. QED
    BY <1>3, <1>8, <2>1 DEF Consume
<1>9. CASE UNCHANGED release
  BY <1>9 DEF ExpiryStays, Overdue, Exists
<1>10. QED
  BY <1>3, <1>4, <1>5, <1>6, <1>7, <1>8, <1>9
  DEF Next, Check, Refuse, Deliver, Fail, Deny, Cancel, Open, vars

(* Requests that somebody was told have expired are past their expiry.         *)
ToldOverdue == \A r \in toldExpired : r \in Request /\ Overdue(r)

LEMMA StepTellsOverdue == IInv /\ ToldOverdue /\ [Next]_vars => ToldOverdue'
<1> SUFFICES ASSUME IInv, ToldOverdue, [Next]_vars PROVE ToldOverdue'
  OBVIOUS
<1>1. ExpiryStays
  BY StepKeepsExpiry
<1>2. \A r \in toldExpired' : r \in Request /\ Overdue(r)
  <2>1. CASE toldExpired' = toldExpired
    BY <2>1 DEF ToldOverdue
  <2>2. ASSUME NEW r \in Request, NEW u \in Subject, Approve(r, u)
        PROVE  \A q \in toldExpired' : q \in Request /\ Overdue(q)
    BY <2>2 DEF Approve, Open, ToldOverdue, Overdue
  <2>3. ASSUME NEW e \in Execution, NEW r \in Request, NEW u \in Subject, Check(e, r, u)
        PROVE  \A q \in toldExpired' : q \in Request /\ Overdue(q)
    BY <2>3 DEF Check, ToldOverdue, Overdue
  <2>4. QED
    BY <2>1, <2>2, <2>3
    DEF Next, Submit, Deny, Cancel, ExpiryPasses, Sweep, Consume, Refuse, Deliver, Fail, vars
<1>3. QED
  BY <1>1, <1>2 DEF ToldOverdue, ExpiryStays

LEMMA AlwaysToldOverdue == Spec => []ToldOverdue
<1>1. Init => ToldOverdue
  BY DEF Init, ToldOverdue
<1>2. QED
  BY <1>1, StepTellsOverdue, Invariance, PTL DEF Spec

--------------------------------------------------------------------------------
(* A decided row keeps its status and its approvals in every step, and one     *)
(* that somebody was told has expired its approvals.                           *)
Final ==
    \A r \in Request : Exists(r) =>
        /\ release[r].status \in Decided => release'[r].status = release[r].status
        /\ release[r].status \in Decided \/ r \in toldExpired =>
              release'[r].approvedBy = release[r].approvedBy

DecidedStays ==
    \A r \in Request : Exists(r) /\ release[r].status \in Decided =>
        /\ release'[r].status = release[r].status
        /\ release'[r].approvedBy = release[r].approvedBy

LEMMA StepKeepsDecided == IInv /\ [Next]_vars => DecidedStays
<1> SUFFICES ASSUME IInv, [Next]_vars PROVE DecidedStays
  OBVIOUS
<1>1. CASE Calm
  BY <1>1 DEF Calm, DecidedStays, Successor
<1>2. CASE UNCHANGED release
  BY <1>2 DEF DecidedStays
<1>3. ASSUME NEW e \in Execution, Consume(e)
      PROVE  DecidedStays
  <2>1. release[execution[e].request].status = "approved"
        /\ release' = [release EXCEPT ![execution[e].request].status = "consumed"]
    BY <1>3 DEF Consume, StillApproved, Decide
  <2>2. QED
    BY <2>1 DEF DecidedStays, Decided, IInv, TypeOK
<1>4. QED
  BY <1>1, <1>2, <1>3, DecidingIsCalm DEF Next, Check, Refuse, Deliver, Fail

(* A denied, cancelled, expired or consumed request stays as it was decided,   *)
(* and gains no approval once somebody was told it has expired (deny, cancel,  *)
(* approve, the sweep and the consuming UPDATE).                               *)
THEOREM DecisionsFinal == Spec => DecisionIsFinal
<1>1. IInv /\ ToldOverdue /\ [Next]_vars => [Final]_vars
  <2>1. DecidedStays /\ ExpiryStays /\ ToldOverdue => Final
    BY DEF DecidedStays, ExpiryStays, ToldOverdue, Final
  <2>2. QED
    BY <2>1, StepKeepsDecided, StepKeepsExpiry
<1>2. Spec => [][Final]_vars
  BY <1>1, Invariance, AlwaysToldOverdue, PTL DEF Spec
<1>3. QED
  BY <1>2 DEF DecisionIsFinal, Final

================================================================================
