# A verification project for UNG-VAULT

UNG-VAULT (`src/`) is a FastAPI service over PostgreSQL that keeps encrypted
records, serves the most sensitive ones through "Digital SCIF" viewing sessions,
and releases redacted military files under separation of duties. This directory
holds TLA+ models of its stateful protocols, TLC configurations, and proofs
checked by TLAPS.

    tlc -workers 2 -config MCScifPair.cfg MCScifSession     # any run of PROJECT.json
    tlapm ScifSessionProofs.tla                              # the proofs: also
                                                             # MilitaryReleaseProofs, SentinelOutboxProofs,
                                                             # AuditChainProofs, SigningKeysProofs,
                                                             # VaultObjectsProofs, VaultFilesProofs,
                                                             # RedactionProofs

`PROJECT.json` lists components, runs, hazards, findings and theorems, and maps
every modelling definition to the lines it translates.

## 1. Inventory

Every handler opens `with connect() as conn`: psycopg commits when the block
ends and rolls back when an exception leaves it, at READ COMMITTED. Handlers run
concurrently (threads of one process, and several processes). `SELECT ... FOR
UPDATE` serialises handlers on a row; `_security_raise` commits before it raises,
a plain `HTTPException` inside the block undoes what the handler wrote.

| Component | State | Operations | Hard behaviour | What makes it correct |
|---|---|---|---|---|
| Digital SCIF sessions (`main.py` 1539-1623, 1763-2482) | `vault_scif_sessions` | create, approve, status, enter, view, render, heartbeat, emergency revoke, close | order of calls; three clocks (expiry, idle, approval TTL); supersession across rows; unlocked status query | no secret outlives its session; two-person quorum; one live session; lockout; revocation is final |
| SCIF viewer page (`scif.py` 185-233) | the browser page, its cookie | load shell, fetch raster, heartbeat every 15 s | a script that passes through two languages on its way | an open page keeps asking for authorization |
| Military redacted release (`main.py` 499-586, 830-1071) | `military_release_requests`, the audit entry | request, approve, deny, cancel, sweep, execute | execution is two transactions with the redaction between | one release per authorization; independent quorum, executor and requester; decisions final |
| JANUS client (`auth.py`, `scif.py` 40-108) | none (live introspection) | introspect, exchange a SCIF handle, `authorize` | authority withdrawn at any time; outages | nothing is served on stale authority |
| SENTINEL outbox (`main.py` 173-180, 1393-1430, 1626-1729) | `sentinel_outbox` | notify, deliver, flush, worker, operator retry | lock released before the HTTP call; concurrent deliverers; crash between steps | at-least-once delivery; nothing is called delivered that was not heard |
| Audit chain (`audit.py`) | `vault_audit` | append, verify | advisory lock held to the end of a transaction that also waits for row locks, JANUS or SENTINEL; deadlock; rollback | the chain verifies; log and rows agree; one append-only order |
| Vault objects (`main.py` 211-424, 477-485) | `vault_objects` | create, read, list, presidential ingest | profile and classification derived from content and compartment; plaintext boundary | no military plaintext outside SCIF |
| Military records (`main.py` 1215-1391) | `vault_objects` (VAULT-MIL) | list, history, transfer, delete | reads without `FOR UPDATE` | row and chain of custody agree; a deletion stays |
| Receipts and signing keys (`main.py` 71-131, 588-828) | `military_receipt_signing_keys` | register at startup, issue, verify | concurrent and crashing startups, reused key ids | some key active; old receipts verify; startups end |
| Envelope encryption (`crypto.py`, `key_management.py`, `config.py`) | keys outside the process | encrypt, decrypt v1/v2 through four providers | backend, key id and master key change between sealing and opening | what was sealed stays readable, under its own id |
| Files (`main.py` 1074-1212, `redaction.py`, `share_package.py`) | what callers keep | encrypt, decrypt, redact, share, unlock | rounding, overlap, packages put together from two | own file or nothing; coverage close to the percentage asked |
| Access policy, markings (`access_policy.py`, `markings.py`) | constants | pure checks | boundaries | matches its table |
| Frame propagation (`ung_shared/`) | none | breadth-first propagation | cycles | not modelled |
| Portal (`ui_portal.py`, `ui/index.html`) | browser | proxy, pages | none on the server | not modelled |

How they interact: handlers call JANUS over HTTP (while holding their row lock),
append to the audit chain inside their own transaction (taking the advisory lock
until it ends), and notify SENTINEL through an outbox row written in a separate
transaction. The viewer page calls view, render and heartbeat.

## 2. Modules

### ScifSession

State: `session[s]` is the row (or `NoRow`); `statusRead` the status requests
between their unlocked SELECT and their UPDATE; `entitled` and `cleared` what
JANUS says of each subject (entitlement with device trust and MFA freshness;
clearance with compartment). A row keeps the columns the properties tell apart:
`held` is the set of non-NULL secret columns (`auth_envelope`, `cookie_hash`,
`device_binding_hash` with `device_claim`, `device_public_jwk`); `approved` is
`approved_by`; `fresh` its members whose `approved_at` is within the TTL.

Actions: one per handler, whole. Each takes its row `FOR UPDATE`, so one step is
faithful; an outcome that rolls back changes nothing and is a stuttering step.
The outcomes of `enter` and of the three cookie requests are separate disjuncts in
the order of the code's checks: expiry, idle, state, cookie, JANUS, device. The
helpers `_clear_scif_sensitive_state`, `_record_scif_auth_failure`,
`_supersede_other_scif_sessions`, `_enforce_scif_idle` are row updates
(`Cleared`, `EntryFailed`/`CookieFailed`/`LockedOut`, `Superseded`, `IdleLocked`).
Time is an environment that raises flags: `ExpiryPasses`, `IdlePasses`,
`ApprovalAges`. `verified` is `last_verified_at` against the idle window; no wipe
resets it, in the code or in the model.

Data left out: object ids, the token itself (an entry with a wrong token is
`EnterBadToken`), audit entries, alerts. A JANUS outage is a rollback, so a
stutter. A wrong cookie is possible whenever the session is active; a failed
device binding or browser-key proof has the same update (`OtherDevice`).

### ScifAccess

What the sessions promise, with no rows: a door per session, its holder, its
quorum, its current vouchers, and whether it is open. It opens only over enough
vouchers other than the holder, and opening shuts the holder's other doors that
need no vouchers. `ScifSession` implements it with `open` mapped to "holds the
browser secret" and `vouchers` to the fresh approvals. The abstract Open leaves it
free which vouched doors it shuts, because supersession skips a session that entry
has demoted (the first contradiction under Findings).

### ScifViewer

`ScifSession` composed with one viewer page per session. `page[s]` follows the page from
the moment it is sent. Its script is a Python string first: `Written` is the first literal
of the signed text in `proofHeaders` (scif.py:227), `Sent` what the f-string makes of it,
`Parses` whether JavaScript accepts the result. A page whose script does not parse is
`inert`. Otherwise the script loads the raster, heartbeats on a timer (`Beat`, `Answer`)
and closes at the first refusal; its fetches are the handlers of `ScifSession`, conjoined
with what the script does with the answer. Any other client may make every request
meanwhile (`Next`). The session properties are checked in `scif_one`, without pages.

### MilitaryRelease

State: `release[r]` is the row; `execution[e]` a call of `military_file_protect`
with what its first transaction saw (`approvedBy` is what the audit entry will
name); `toldExpired` records the requests a caller was refused as expired. `Check`
and `Consume` are the two transactions; between them anything may happen.
`Deliver` and `Fail` are the alert, the second audit entry and the response, or
the failure of any of them. That the file, branch and percentage match the request
only adds refusals and is left out.

### SentinelOutbox and SentinelFeed

State: `outbox[e]` is the row of an event id (status, whether `next_attempt_at` has
passed, rank of `created_at`; the attempt count only stretches the backoff and is
left out); `call[x]` says where a sender stands, the row it works on and those after
it. Senders are the security actions that notify (`Occurrence`) and the flushes
(worker, operator's retry, startup). `About[o]` is the event id that the content of
occurrence o hashes to, so repeats are occurrences with one event. `action[o]` is the
transaction of the action itself: still open when a SCIF handler notifies, committed
when a military one does. A delivery is split where it lets go of the row:
read (`Post`; `NothingToSend` for no row or a delivered one), the HTTP call (`Accepted`, `AnswerLost`, `Missed`),
the outcome (`MarkDelivered`, `MarkRetrying`), and the failures of the last two:
`MarkFails` is caught by the same `except`, `Raises` leaves the delivery. `heard` is
what SENTINEL, an external service, received. `urlopen` raises for
every answer that is not 2xx, so the code's `ok` is always true where it is read.
Modelled with SENTINEL configured; without it nothing is sent.

`SentinelFeed` is the promise: stored before heard, heard before closed, possibly
more than once, possibly reopened.

### AuditChain and AuditLog

One step of the other SCIF models is a whole transaction; this module opens it up.
`at[h]` says where call h stands in its transaction. An entering call locks its own
row, the UPDATE of `_supersede_other_scif_sessions` or of the emergency revocation
reaches the other rows in no given order (`Reach`), waits for each one's lock and
checks its WHERE clause again (`TakeRow`), then writes one entry per row (`WriteEnd`)
under the advisory lock of `append_audit`, calls JANUS (`JanusAnswers`), appends the
concluding entry and, for a revocation, calls SENTINEL, all before the commit.
`Abandon` is every way out by an exception, a refusal of JANUS, a crash or a lost
connection. `Blocker` and `Victim` are PostgreSQL's deadlock detector, external.
`table` keeps uncommitted rows with their author; `Visible` is what READ COMMITTED
shows. `Digest` is collision-free: a hash is what went into it. Entries keep who wrote
them and which session they are about. The two answers of `enter` that
commit without an audit entry are `Expire` (410; the row becomes `expired`) and `Demote`
(409; a two-person row, ended or not, goes back to `pending`); both end as "refused".
`Refuse` is the 409 that rolls back. Whether approvals are fresh is the environment's
choice, except that a revocation has deleted them. Left to `ScifSession`: wrong tokens,
approvals and device checks, which hold one row and wait for no second.

`AuditLog` is the promise to readers: entries appear in batches past the newest one
and never change. `AuditChain` implements it with the committed entries.

### VaultObjects

State: `row` is `vault_objects`, `custody` the audit entries that the history of a
record is told by, `noted` and `told` the audit entries and the answers of attempts
to create and to read, `call` the transfers and deletions under way. Content is
"military" or "civil" as `_contains_military_reference` tells; two of the profiles are
enough, one that forces the ledger and one that does not. Classifications are the
numbers of `auth.py`; clearance and compartments of a person come from roles and
grants as `authorize` computes them. `CheckTransfer` and `CheckDeletion` are the
unlocked SELECT with its conditions, `Transfer` and `Delete` the UPDATE (which has no
condition on what was read) with its audit entry, one transaction. `Get` has the four
answers of `get_object`, with the entry each commits first.

### SigningKeys

State: `registry` is `military_receipt_signing_keys`; `proc[p]` a process, the key of
its environment, the rows its retiring UPDATE is for (the statement's snapshot) and
holds; `receipts` what was issued, reduced to key id and signer. `Start`, `Retire`,
`Register` or `RejectKey` are the registration in its two statements; the UPDATE waits
for all its rows at once, where the code takes one after another, which leaves out only
deadlocks between two UPDATEs that hold half of their rows each; those end as `Victim`
or `Stop` does. A seed stands for its public key and its fingerprint. `during` and
`crossed` record which startups overlapped and are read by the properties only.

### VaultFiles

State: `server` is the settings the process runs with (backend, key id, master key,
which managed services its credentials reach, production flags); `package` and `share`
what callers keep; `noted` and `told` the entries and the answer of the last request.
`Accepted` is `load_settings`, `Opens` is `decrypt_bytes` with `get_key_provider`. A
cipher is its key material and its additional data. `Decrypt(k, j, military)`
is an upload with the id of k, the envelope of j and any format label, because the label
is plain JSON that nothing authenticates: it decides alone whether the file is refused as
military. `Unlock(k, j, code)` is share package k with the manifest of j. Packages of the first format may exist from the start.

### Redaction

The loop of `_rectangles`: `Lay` is one turn with its shuffled cell and random spans,
clipped at the page's edge and trimmed at the end; `Finish` and `Fail` are the rest of
the redact route. Widths are in cells, heights in pixels, areas in hundredths of their
product, so that every percentage is a whole number. The code computes in floats: a
block trimmed to a fraction of a pixel is not distinguished from its whole part, and
pages narrower than a cell per pixel are left out.

### MC modules

Each `MC<module>` holds the symmetry sets and values of its .cfg files. Symmetry is
declared only in runs that check no liveness.

## 3. Runs and bounds

| Run | Instance | Shows |
|---|---|---|
| scif_one | 1 session, 3 people, both modes, limits 3 and 2, failures past both, one owner whose JANUS authority wavers; 60 580 states | complete wipes, two-person control, lockout, quorate activation, re-entry after an idle window |
| scif_pair | 2 sessions, 3 people, no failures, JANUS constant; 157 186 states up to symmetry | supersession: one live single-person session per identity, nothing else touched; the sessions implement `ScifAccess` |
| military | 2 requests, 2 executions, 5 people, quorum 3; 71 414 states up to symmetry | single use, quorum, separation, finality |
| sentinel | 2 events, one always refused, 2 occurrences, the worker, 1 crash; 81 684 states | notified alerts were heard; implements `SentinelFeed`; a stored alert is delivered |
| audit | 2 entries into 2 sessions of one owner that has 3, one of them two-person, 1 revocation, 1 other call; 43 498 states | the chain verifies, log and rows agree, one entry succeeds; implements `AuditLog`; every call ends |
| objects | 1 object, 2 people, 2 compartments, 3 branches, 2 transfers, 2 deletions; 341 834 states | ledger and history agree, military content stays sealed, a record keeps its past |
| signing | 2 processes, 3 key ids of which two name one key; 48 233 states | receipts stay verifiable, a key stays active, startups end |
| files | 2 packages, 2 share packages, 8 settings (2 of them not accepted), 3 codes; 63 553 states | an envelope opens under its own id or not at all, switches lose nothing, a share opens to its code |
| redaction | a page of 3 cells by 3, 2 pixels high, five percentages; 128 646 states | the count is right within one block; a sixth of it is black |
| three violation runs | the same instances, or the smallest with the case | the findings below |

Why these bounds: three people are an owner and two approvers, the quorum of two-person
control. Two sessions are enough for supersession, which relates pairs. The
failure limits are the smallest the configuration admits (`max(3, ...)`,
`max(2, ...)`), and `FailureBound` is where a counter stops being driven up; in
`scif_one` it is 4, so that wrong tokens and wrong cookies pass both lockouts and go on. 0 switches failures off where they are not the question. Five people are three approvers, a requester and an executor; two
executions race for one request, two requests show that they do not mix.
`Wavering` bounds whose authority changes. The outbox has the batch of two that holds a
refused event and the one behind it. It needs fewer refused events than rows in a
batch: the code reaches further than that because a refused row's backoff grows to 15
minutes against a poll of at most 5, which the model does not count. `MaxCrashes`
bounds crashes. In the audit run, two entries end each other's session and a third
session is ended by whoever comes first; with the revocation that is every pair of
lock orders, and the other call is a writer that waits for the advisory lock alone.
One object suffices for the ledger, since no handler touches two; two transfers and two
deletions overlap in every order. Two processes are a rolling deployment; the third key
id is a new name for a registered key, which the fingerprint's uniqueness refuses. Two
packages are what a mixed package needs; the settings hold one step of each kind of
migration (key id, master key, backend, credentials). Nine cells are the smallest page
on which a block of three by two leaves a cell beside and below it; the percentages lie
outside the bounds, at zero, below one cell, high, and above 95. The proofs lift these
bounds for the safety properties they state.

No run switches the deadlock check off: a model in which everything has ended says so
with a step of its own (`Quiet` in AuditChain), and elsewhere something is always possible.

Fairness. `ViewerSpec` assumes that a browser runs the script of a page it has got, and,
of a script that runs, that its fetches end (with an answer or an error, which the script
treats alike) and that `setInterval` keeps calling the heartbeat. The counterexample of
`scif_viewer` needs none of the latter: the script does not run. Nothing is assumed of
people or of other handlers.
`LiveSpec` of the outbox assumes weak fairness of the worker's polls and deliveries (a
daemon thread in an endless loop), that rows come due, and of the environment that
the database stops failing and that SENTINEL, posted the same acceptable alert again
and again, takes it and answers some time. Operators and notifiers may stop.
`LiveSpec` of `AuditChain` assumes that a call that is not waiting runs on (its
statements return, and `urlopen` has a timeout for JANUS and SENTINEL) and that
PostgreSQL's detector finds every cycle of waits. `LiveSpec` of `SigningKeys` assumes the
same of startups, strongly: the waiters of a row lock are queued, so that processes that
come and go do not overtake one for ever.

Each property has a mutant: a faulty twin (`<definition>_<fault>`) beside the
definition it replaces, a bug a change of the code could plausibly introduce.

## 4. Findings

Each is a violation run whose counterexample is a sequence of ordinary calls.

1. `scif_revocation`: a revoked session comes back. `enter` demotes a two-person
   session to `pending` (main.py:2188) and the idle check rewrites the state
   (main.py:1986, 1991) before the state is looked at. README.md:216 of the repository
   says that revocation terminates the session.
2. `signing_reuse`: registration upserts on the key id (main.py:119). A server
   restarted with a new seed under a configured `VAULT_MIL_RECEIPT_KEY_ID` replaces
   the registered public key, and every earlier receipt stops verifying.
   ui/index.html:95 says that current and retired keys remain registered. With ids that
   name one key each, as the derived ids do, `ReceiptsStayVerifiable` holds (`signing`).
3. `scif_viewer`: the viewer never heartbeats. The page is an f-string without the prefix
   `r` (scif.py:201), so each `\n` of line 227 reaches the browser as a line break inside
   a JavaScript string in single quotes. The whole script is then a syntax error: no raster
   is fetched, no heartbeat sent, neither timer set. README.md:143 of the repository says
   that the viewer heartbeats every 15 seconds. With `RawLiteral` TRUE, that is with a raw
   literal, `ViewerReauthorizes` holds over the same instance. Since the page asks for
   nothing, a session that is viewed is locked by the first request after its idle window.

Contradictions of something the repository says, which no violation run states. Where a
model contains the behaviour, it is named:

- README.md:183, one live session per identity: the demotion of a two-person session
  keeps its secrets, and supersession skips `pending` (main.py:1965), so two sessions of
  one identity can hold live secrets. `OneLivePlainSession` is the part that holds, and the
  abstract `Open` of ScifAccess leaves vouched doors of the holder out for this reason.
- README.md:166, a viewer that stops heartbeating is locked: only another request for
  the session locks it.
- README.md:167, re-entry checks clearance and compartment: `enter` calls no
  `authorize`. The view after it does, and revokes the session (`AnswersUnderControl`).
- README.md:273, SENTINEL never blocks a security action: a database failure inside a
  delivery leaves `_notify_sentinel` and rolls back the SCIF action that notified
  (main.py:1729; `Raises` of SentinelOutbox).
- README.md:267-270, critical events are forwarded: an alert's event id is a hash of its
  content, so a second emergency revocation with the same reason and count counts as
  delivered and is not sent (main.py:1726; `Queued`).
- README.md:286-289, transitions that answer with an error commit their state and audit
  record first: the expiry that `approve` and the execution write is rolled back by the
  exception raised after it (main.py:894; the model has only `toldExpired`), and an
  `enter` that finds its session expired, or a two-person session without fresh approvals,
  commits the new state with no audit entry (main.py:2182-2189; `Expire`, `Demote`).
- README.md:54, the old master key only unwraps v1 keys: v2 packages sealed under the
  local backend need it too after a switch (`SuppliedTo` of VaultFiles).
- main.py:1013, an approver cannot execute: the executor can approve between the check
  and the consumption of their own execution. The audit entry names the approvers of the
  check, which `AuditedSeparation` is about.
- redaction.py:31 and 44, blocks do not overlap: a block spans up to three cells by two
  (55-60) and the cells it reaches stay in the list (50), so blocks overlap and the overlap
  counts twice (71). What holds is that the counted area is right (`CountsWhatWasAsked`)
  and that a sixth of it is black (`ASixthIsBlack`).
- main.py:1110, a military file is not exported as plaintext (ui/index.html:92 says the
  same): the label that says military is not authenticated, the additional data is the id
  alone, and a package relabelled as an ordinary one under its own id is decrypted
  (`Decrypt` with any label). `FileComesBack` is about ids and says nothing of labels.
- main.py:1323 and 1371, a deleted record is neither moved nor deleted again: a transfer or
  a deletion that read the row before the deletion writes after it, and the second deletion
  replaces the tracking number that ui/index.html:87 calls permanent. `RecordKeepsItsPast`
  shows that the record is not restored.

Points on which the repository promises nothing either way:

- An approval turns a locked single-person session `active` again without an entry; it
  holds no secrets. A late request after an idle wipe of a two-person session wipes
  approvals given since. A status query can overwrite a concurrent revocation with
  `expired`.
- A release may be consumed after its expiry passed during redaction.
- An event delivered by one sender returns to `retrying` when a slower one fails, and is
  sent again.
- `get_object` does not look at `deleted_at` (main.py:386).
- An explicit VAULT-MIL profile for content without a military reference is stored
  below restricted and without a branch.
- The refusal of a military file is answered as an integrity failure and leaves two
  audit entries (main.py:1110).
- A missing managed key id fails only at first use.
- The chain is not anchored outside the table: rewriting all of it verifies.

## 5. Proofs

All for arbitrary sets of sessions, subjects, requests and executions, all limits
the code's clamping admits (`LimitAssumption`), any positive quorum. The
assumptions are the named ASSUMEs of the modules: the modes are the code's
two, the limits lie in the clamped ranges, operators and approvers are subjects,
and the "no row", "nothing" and "none" values are not among the values they stand for
the absence of. One theorem has a hypothesis besides: `ReceiptsVerify`, below.

`ScifSessionProofs`. The table invariant `IInv` is typing, `RowInv` of each stored
row, and `OneLivePlainSession`. `RowInv` strengthens the checked properties so that
they are inductive: `fresh \subseteq approved` with `approved` finite turns a fresh
quorum at entry into a stored quorum afterwards; a single-person session that
holds secrets is `active`, which is exactly what makes supersession find it; a row
at a failure limit holds nothing. Every row update gets one lemma (`Harmless`: it
keeps `RowInv`, hands out nothing, activates only over a quorum, and either shuts
its door or changes one voucher). A handler that makes only harmless updates is
`Calm`; one lemma carries `IInv` over all calm steps, and only `Create` and the
successful `Enter` need their own. Theorems: `TypeCorrect`, `WipesComplete`,
`TwoPersonHolds`, `LockoutSafe`, `OneLivePlain`, the action properties
`EntryGuarded`, `ActivationQuorate` and `IdleReentered`, and the refinement
`SessionsImplementDoors` (Spec => ScifAccess!Spec). `AnswersUnderControl` says what stands
behind every request that is answered: `RowInv` gives the approvers and all secrets from
the cookie alone, which is what the handler checks.

`MilitaryReleaseProofs`. `IInv` adds to the properties that every call's request
exists and that what its check saw still separates duties (`CallInv`), because the
row's approvers may have grown since. Row updates are `Successor`s (a decided row
stays, one whose expiry a caller was told of gains no approval, none but `Consume`
turns a row `consumed`). Theorems: `TypeCorrect`,
`ReleasedOnce`, `QuorumIndependent`, `AuditSeparated`, `DecisionsFinal`.

`SentinelOutboxProofs`. `IInv` adds to the two checked invariants what each sender
has in hand between its read and its write (`InHand`): its rows are stored, an answer
in hand was heard, a notifier works on its own event. It is needed because the row
may change under the sender, but storing and hearing are never undone, so other
senders' steps keep it (`Bystander`); one lemma per way a call moves (`StandsSafely`,
`TurnsSafely`, `ContinuesSafely`) and one per way a row changes (`RowWritten`,
`RowQueued`) carry the actions. Assumed: finitely many event ids, disjoint occurrences
and flushers. Theorems: `TypeCorrect`, `DeliveredHeard`, `NotifiedHeard`,
`OutboxImplementsFeed` (Spec => SentinelFeed!Spec).

`AuditChainProofs`. For any sessions, calls and deadlock victims. `IInv` adds to the
checked properties: entries that are not committed belong to the one holder of the
advisory lock and are newer than every committed one (`EntriesOwned`), so its holder
sees all entries (`HolderSeesAll`) and a rollback takes them off the end of the chain;
every entry, committed or not, chains to the one before it (`Unbroken`); a session's
ender still has its row locked or is over (`EndersHold`);
the entries about a session are each by another call, the newest by its ender, and more than
one only if the session was demoted (`EntriesOfEnders`, `EntriesDistinct`, `EnderNewest`,
`OneUnlessDemoted`), which is what a refusal that commits leaves of "one entry each"; an entering call keeps its own
row locked and live and has ended every other session it has passed (`EntryHolds`),
which is why of two committed entries one would have had to find the other's session
live. `SoundKept` says an entry stays sound while those before it stay. There is one
lemma for each way a call moves; `VictimRuns` shows that whoever waits in a cycle is
running. `CallsNeverStall` is about waiting: locks are held by running calls, of which there
are finitely many at a time (`WaitInv`), so if none may move the calls wait for each other, and
a smallest set of calls that wait only for its own members is a cycle. Theorems: `TypeCorrect`,
`ChainSound`, `TrailSound`, `OneEntered`, `CallsNeverStall`, `ChainImplementsLog`
(Spec => AuditLog!Spec).

`VaultObjectsProofs`. For any objects, people, branches and overlapping transfers and
deletions. A call writes on what it read before, so `IInv` says of every checked call that
its record is still in the ledger (`CallsHold`): nothing removes a record or
makes it another profile's, and that is all the write relies on. `RowMatchesCustody` is
inductive with it, because the row and its entry are written in one transaction: `Appended`
says what one more entry does to the last place and the last deletion of a history, whoever
wrote the entries between. `MilitaryRestricted` (content or compartment that refers to the
military is stored at a level that needs a session) and `PlaintextBelow` (plaintext was
answered of no record that needs one) are what makes `MilitaryStaysSealed` inductive: the
policy is applied when a record is stored, the level is looked at when it is read. Theorems:
`TypeCorrect`, `LedgerMatchesCustody`, `MilitarySealed`, `PastKept`.

`SigningKeysProofs`. For any processes, keys and configurations. That some key stays active
depends on what each startup is about to retire: the rows it has locked are active and
locked by it alone (`RowsHeldOnce`, a theorem of its own, `RetiredByOne`), and every active
key but its own is among those or was registered since its snapshot (`OthersToRetire`), which is
the only way two keys end up active. For receipts, what a process signs with is registered, as
it was configured (`SignersRegistered`, `RegistryConfigured`). `ReceiptsVerify` assumes
`OneKeyPerId`: no two configurations give one id to two keys. It holds of the ids the code
derives from the public key and has to be kept by whoever configures them; the run
`signing_reuse` shows what happens otherwise, and the run `signing` satisfies it. A startup may
wait for several others, so `StartupsNeverStall` takes a smallest set of starting processes in
which everyone waits for a member, and shows that somebody waits for each. It needs no bound on
the processes, as finitely many start at a time (`FewStart`). Theorems: `TypeCorrect`,
`ReceiptsVerify`, `ActiveUnlessCrossed`, `RetiredByOne`, `StartupsNeverStall`.

`VaultFilesProofs`. For any packages, share packages, codes and sequences of settings. The
server changes between sealing and opening, so `PackagesSealed` ties a package to the
settings it was sealed under instead: they could seal, and its envelope is what they sealed
under its own id. `SwitchSafe` then follows without a word about the current settings
but what they reach. `SharesSealed` says the same of manifests. Theorems: `TypeCorrect`,
`FilesComeBack`, `SwitchSafe`, `SharesOpen`.

`RedactionProofs`. For any grid and percentages. The counting argument is on the cells
still untried: each cell laid adds at least its own area or reaches the target
(`Progress`, with `CellsAreCounted`), so when they run out the target is met. A second
invariant, `Corners`, says that no two blocks start in one cell and none is higher
than two cells, trimmed or not; a block over a point then starts in one of six cells, and by
the library's theorem on injections at most six blocks are there. A third, `PaintCounted`,
says that the units of area the blocks paint, each a pair of a block and a place in it, are
six for each unit the code's counter `covered` holds. `ASixthIsBlack` follows by counting:
`SixCoatsAtMost` maps each painted unit to a unit of black ink and the place its block has
among the six over that ink, and no two go to the same. The sum over cells in the property is
a recursive function of sets, and the library's induction over sets is beyond the provers;
so the cardinality of the ink is shown to be a solution of its recursion (`InkSumsUp`) and
the only one (`OnlyInkSumsUp`: another would differ on a least set of cells, by the library's
fact on minimal elements, and cannot). Theorems: `TypeCorrect`, `AskedIsCounted`, `SixDeep`,
`SixthBlack`.

Model-checked only:

- Liveness, which is outside the prover: `QueuedIsDelivered`, `EveryCallEnds`, `StartupEnds`. Of the
  last two the part that is safety is proved, for any number of calls and processes:
  whoever waits, somebody moves or the deadlock detector has a cycle (`CallsNeverStall`,
  `StartupsNeverStall`).
- The violations. The viewer page has no theorem: what it should do is liveness.

Every invariant, every action property and every refinement that the passing runs check is a
theorem.

## 6. Not modelled, and what is left

No property of a passing run waits for a proof, liveness apart. `AuditChain` starts from live
sessions and has no approvals and no wrong tokens. What could be stated next is
that a process signs with an active key unless another registered one since its own start,
which needs a record of the order of startups that the model does not keep.

Not modelled: `access_policy.authorize` and the frame propagation engine are called by no
route of the program; document markings are formatting; the portal and the pages
other than the viewer's keep no state on the server; the lists of objects, records,
activity and releases and the summary only read (the sweep two of them run is an
action). Ciphers and KMS clients, PDF and image rewriting, HTTP parsing, and JANUS, SENTINEL and PostgreSQL themselves appear only
through how the code uses them.
