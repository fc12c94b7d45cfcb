# A TLA+ verification of MiLAi

MiLAi keeps *governed memory* for agents: claims rest on captured evidence, change
only through proposals that a steward reviews, disagree through open issues, and lose
their support when evidence is revoked. This directory holds TLA+ modules that model
the parts of MiLAi where concurrent transactions, workers and crashes meet, TLC
configurations that check them on small instances, and theorems about them with proofs
for TLAPS.

`src/` below is the repository. The deployed program is `src/MiLAi-Product`
(`P/` below), its runtime `P/runtime/src/milai`, and its database procedures the
PL/pgSQL in `P/runtime/migrations/versions` (cited by number, `0005:607` is line 607 of
the file that begins with `0005`). `architecture/v1.0/TRANSACTIONS.md`, `INVARIANTS.md`
and the ADRs under `P/docs/adr` state what the program promises.

- [The system](#the-system)
- [Modules](#modules)
- [CanonicalGovernance and GovernedMemory](#canonicalgovernance-and-governedmemory)
- [ProjectionDelivery and ReadYourWrites](#projectiondelivery-and-readyourwrites)
- [EvidenceDeletion](#evidencedeletion)
- [IdempotentWrites and AtomicWrites](#idempotentwrites-and-atomicwrites)
- [Runs](#runs)
- [Disagreements found](#disagreements-found)
- [Proofs](#proofs)
- [Not modelled](#not-modelled)
- [What remains](#what-remains)

## The system

One PostgreSQL database per deployment is the only shared state; API processes, worker
processes and operators reach it through `SECURITY DEFINER` procedures, one transaction
each, at READ COMMITTED (`persistence/database.py:200`). Nearly all of the core logic is
in those procedures; the Python around them validates, chooses a procedure, and in the
worker loops over it.

```
 hosts (MCP, OpenWorker, hooks, LangGraph, AutoGen, Python client)
        | HTTP, idempotency keys, continuation and causal tokens
 Flask API -> application -> repositories
        | one procedure = one transaction
 PostgreSQL:  canonical state  --outbox_event-->  delivery rows of the lanes
        ^                                              | leases
        |                                        FoundationWorker (evidence, purge,
        |                                        fts, vector lanes) -> search_document,
   retrieval gate  <-- index_watermark ----------      search_embedding, blob files
```

| Component | State it keeps | Operations | What makes it hard | What makes it correct |
|---|---|---|---|---|
| Canonical governance (0004, 0005, 0015) | proposals, decisions, claim versions and heads, groundings, blocks, open issues and their transitions, the sequence `canonical_commit_seq` | submit, review (approve each operation, reject) | reviews check without locks what they write later; sequences are drawn before locks; issues are changed by three procedures | no lost update, versions ordered, one live issue per claim, issues replayable and closed only by a governed discharge, everything announced |
| Evidence revocation, TX-05 (0006, 0016) | `revoked_at`, grounding blocks, deletion request | revoke | runs against open reviews; reopens issues that may conflict with newer ones | every dependent version blocked, no blocked version revived in place, resolved issues reopened |
| Projection pipeline (0007, 0033, 0035, 0037, 0039, 0048, `workers/main.py`, `domain/projection_routing.py`) | the sequence `outbox_sequence`, delivery rows with leases and attempts, watermark, search documents | lease, apply, complete, skip, purge, fail, renew, reconcile, retry of dead letters | sequences become visible out of order; workers die, outlive leases, fail in the middle of a batch | the watermark covers only what is delivered; what is delivered can be found until its purge is announced; a purge is not undone; every event settles |
| Projection rebuild (0010) | the same rows, dropped and replayed | rebuild | runs under a worker with leases | as above |
| Evidence capture, blob store, erasure (0003, 0019, 0038, `adapters/blob_store.py`) | evidence, blobs, files by content hash, purge lane, deletion request | capture, erase, verify | files and rows change in separate steps; capture of the same bytes during an erasure | shared bytes stay until their last reference goes, nothing a record refers to is called erased, no deletion request is forgotten, revoked bytes go |
| Retrieval gate (0008, 0017, 0030) | none | gate, state view | reads as of a sequence | blocked, superseded and disputed versions are not served as current |
| Context capsules (0009, 0031) | capsules, pointers | assemble, read | evidence revoked during assembly | a capsule never serves an invalidated pointer |
| Read-your-writes (0020, `persistence/retrieval_repository.py`) | none | wait for the watermark | the watermark may be ahead of what it covers | the caller's write is in the answer |
| Retrieval continuation (0052, 0053) | states of a continuation tree | open, advance | repeated and concurrent advances | bounded tree, no duplicate successor |
| Host cognitive state, notes (0050, 0055, 0056) | versioned rows | create, replace, update, delete | several hosts, states that lapse, retries that overlap | no lost update, one active state per scope, every write one step |
| Idempotency records (0005, 0046) | key, fingerprint, response | every command | retry after a lost answer, after the world has changed | an operation takes effect at most once, and its receipt says what it did |
| Episode settlement (0011), namespace cleanup (0034, 0049), backup (`operations/`) | episodes, leases, manifests | settle, clean up, back up | resumed after interruption | complete and terminal exactly once |
| Integrations (`P/integrations`) | grants, task bindings, sessions, queues of hooks | relay, retry, reconcile | delivery twice, expiry | clients of the API's guarantees |

`src/MiLAi-Lab` is evaluation code and `src/MiLAi-Artifact-Archive` archived results;
neither runs in a deployment.

The hazards of this code, each at its line and with the properties that would catch it
going wrong, are the `hazards` of `PROJECT.json`.

## Modules

| Module | What it is |
|---|---|
| `CanonicalGovernance` | the canonical store: proposals, reviews, versions, issues, revocation |
| `MCGovernance` | its instances from an empty store |
| `MCGovernanceIssues` | its instances from a store in which one claim exists |
| `MCGovernanceSettled` | its instances from a claim that was created, contradicted and resolved |
| `CanonicalGovernanceProofs` | theorems about types, versions and blocks |
| `GovernanceIssueProofs` | theorems about issues (extends the former) |
| `GovernanceHistoryProofs` | theorems about what is recorded: transitions, branches, events (extends the former) |
| `GovernedMemory` | abstract specification: every decision and every revocation is one step |
| `GovernedMemoryProofs` | the refinement: `CanonicalGovernance` implements it (extends the former) |
| `GovernanceGapProofs` | theorems about the two promises the code breaks: when it keeps them (extends the former) |
| `ReadYourWrites` | abstract specification: the number readers wait for, and what is complete below it |
| `ProjectionDelivery` | outbox to search lane: sequences, leases, watermark, worker, index |
| `MCProjectionDelivery` | its instances |
| `ProjectionDeliveryProofs` | its theorems, the refinement of `ReadYourWrites` among them |
| `EvidenceDeletion` | one content: capture, sharing, revocation, purge lane, erasure, orphan scan |
| `MCEvidenceDeletion` | its instances |
| `EvidenceDeletionProofs` | its theorems |
| `WriteRequests` | what a host may ask for with an operation id, and the receipt it gets |
| `AtomicWrites` | abstract specification: every such request is one step |
| `IdempotentWrites` | the transactions behind it: idempotency rows, row locks, retries |
| `MCIdempotentWrites` | its instance |
| `IdempotentWritesProofs` | its theorems, the refinement of `AtomicWrites` among them |

A definition whose comment begins with "mutant:" is a plausible bug kept beside the
definition it imitates; no action uses it. `PROJECT.json` (`mutants`) names, for every
property, the mutant that violates it. `PROJECT.json` (`map`) gives for every definition
the lines it models.

The components meet at three places.

- *The outbox.* `CanonicalGovernance` says *that* every commit leaves its events
  (`EveryCommitAnnounced`), with the canonical sequence they carry; `ProjectionDelivery`
  starts from events that appear in any order their transactions may commit, with the
  outbox sequence that orders delivery. It keeps of the governance rules the two that
  decide which events can follow which (`Admitted`): a version insert keeps TX-05 out of
  its evidence row, and a version is not admitted on revoked evidence.
- *A revocation.* TX-05 is one transaction with three sides. Its blocks and reopened
  issues are in `CanonicalGovernance`, its purge event for the search lane in
  `ProjectionDelivery`, its deletion request, its blob row and its event of the purge lane
  in `EvidenceDeletion`, where it may commit or abort like there. The purge lane in turn
  reaches into the search lanes: `apply_purge_projection` deletes their documents
  (0007:714-729) in the transaction that `CountReferences` and `ApplyPurge` of
  `EvidenceDeletion` stand for, which is the step `OtherLanePurges` of `ProjectionDelivery`.
- *A call.* A host's proposal enters through the receipt protocol of `IdempotentWrites`
  and is then a pending proposal of `CanonicalGovernance`; the former knows of the
  claim only how often it was committed, the latter takes submissions as
  exactly-once, which is what `EffectOnce` and `ImplementsAtomicWrites` justify.

## CanonicalGovernance and GovernedMemory

`CanonicalGovernance` is what the procedures do.

**State.** `status`/`body` are `operation_proposal`; `phase` and `ticket` the open review
transaction of a proposal and the sequence it drew; `number`, `head` are `claim_version`
and `claim_head`; `active`, `released` the `grounding_block` rows; `issue`, `relation`,
`history` are `open_issue`, its `grounding_relation` rows and `open_issue_transition`;
`revoking`, `revokedAt` an open TX-05 and the committed one; `outbox`, `commitSeq` the
events and `canonical_commit_seq`. Versions and issues are named by the proposal whose
approval inserts them, which replaces the fresh uuid of the code.

**Steps.** A review is three steps because READ COMMITTED lets others commit between its
statements:

1. `BeginReview`: the proposal row is locked, references are checked by
   `evidence_refs_admissible` without a lock, a resolving review reads the issue without
   a lock; the sequence is drawn (0005:622), except that a resolving review draws it
   later (0015:638).
2. `LockHead`: `claim_head` `FOR UPDATE`, expected version, blocks.
3. `ApproveCreate` ... `ApproveNoChange`: all inserts and the commit. It is one step
   because nothing it writes is visible earlier, and because what it reads again
   is either locked (head, live issue) or compared in the write itself (the
   compare-and-set of the issue). An insert that references evidence waits for a TX-05
   that holds its row: `RowsFree`.

`Reject` is one step. `AbortReview` stands for every way a review ends without effect: a
failed check, a lost connection, PostgreSQL choosing it to break a deadlock; the sequence
is lost, as `nextval` does not roll back. A revocation is `BeginRevoke` (evidence row
locked, sequence drawn) and `CommitRevoke`; `Collides` is the unique index
`uq_open_issue_live_type`, which leaves it only `AbortRevoke`.

**Abstractions.** SUPPORT, WEAKEN, REVALIDATE, CONTEXTUALIZE and SUPERSEDE without
`resolve_issue_id` write versions alike and are one operation `REVISE`. The parts of
the discharge rule that read one proposal and the rule (authority, scope, kinds, sources)
are the Boolean `discharges`; its branches are looked up in the issue's groundings. The
statuses WAITING_USER, READY_FOR_REVIEW and DISMISSED of an issue are written by no
procedure in force (0015 replaced the one of 0005 that did) and are left out. Evidence exists from the start: a capture can only add
references that nobody has yet. A resolving proposal names an issue that exists, at its
revision of that moment: submission accepts any (0015:339-350), but the review compares
both again (0015:568-572), so the others can only be refused. Idempotency records (0046) are in `IdempotentWrites`, the
deletion request of TX-05 in `EvidenceDeletion`. Left out: actors and reviewer
separation (0032), payload, scope and validity time, and the context pointers TX-05
invalidates.

**Properties** (each states the behaviour in the module's comment):
`TypeOK`, `NoLostUpdate`, `VersionsFollowSequence`, `NoRevivalInPlace`,
`EveryCommitAnnounced`, `OneLiveIssuePerClaim`, `IssueReplayable`, `AsOfStatusIsCurrent`,
`ConflictKeepsBothBranches`, `IssuesClosedByDischarge`, `ImplementsGovernedMemory`,
`DecisionsAreAtomic`; and three that the documentation states and the code does not have.

Two of them are less obvious than they look. `VersionsFollowSequence` holds although
sequences are drawn *before* the head lock: a review that drew late but locks first moves
the head, and the one that drew early then fails its `expected_version_id`; two reviews
that win one after the other have expected versions that were submitted after each
other, so the second drew after the first committed. `AsOfStatusIsCurrent` is what the
as-of gate (0030:110) relies on and *not* what a replay by sequence could assume: of two
contradictions that commit in the reverse order of their sequences the transitions are
out of order, but neither changes the status; every transition that does change it (a
closing, a reopening) has the greatest sequence so far, because of what its transaction
compares after it drew and of the row locks it waits for.

`GovernedMemory` is what all of this promises a host that looks at claims and not at rows:
a ledger of versions per claim, the versions whose evidence was withdrawn, the claims in
dispute. Each operation is one step, and its guard speaks of the state of *that* step: a
version succeeds the one its author saw, a conflict is settled only by a discharging
version while it is in dispute, only a version that lost evidence is grounded anew, what is
withdrawn stays withdrawn. The mapping:

| Abstract | Of the rows |
|---|---|
| `request[p]` | `body[p]` without the issue and revision it names (`Requested`) |
| `ledger[c]` | the versions of `c` by `number`, up to that of the head (`Ledger`) |
| `withdrawn` | blocks, active or released (`Withdrawn`) |
| `revoked` | records with a `revokedAt` (`RevokedEvidence`) |
| `disputed` | claims with a live issue (`Disputed`) |

`BeginReview`, `LockHead`, `AbortReview`, `BeginRevoke`, `AbortRevoke` are stutters; an
`Approve...` maps to the decision, `CommitRevoke` to `Revoke`. Two things the abstract
specification leaves open because the code does: a decision may rest on evidence that was
revoked while it was under review (`Submit` asks for live evidence, `Decide` does not),
and `Revoke` reopens *some* of the conflicts that were settled with the evidence. These
are the runs `RevocationRace` and `RevocationReopens`; everything else is promised.
`DecisionsAreAtomic` says the same of every step without the initial state, which lets
the runs that start from a claim in dispute check it.

## ProjectionDelivery and ReadYourWrites

**State.** `event`/`kind`: what became of the transaction that drew an outbox sequence
and what the event is to this lane (`route_projection_event`: a version to apply, a purge,
something to acknowledge); `delivery`: the lane's `projection_delivery` rows;
`watermark`; `document`: the `search_document` rows; `todo`/`applied`: the batch a worker
process has in memory and how far it is with its first event; `unseen`: what other workers
have delivered since a worker's last call ended; `rebuilds` a bound.

**Steps.** One action per procedure call, one transaction each: `Lease`, `Apply`,
`Complete`, `Skip`, `Purge`, `Fail`, `Reconcile`, `Retry`, `Rebuild`; `OtherLanePurges`
for what the purge lane does to this one; `Draw`, `Commit`, `Rollback` for writing
transactions; `LetGo` for a worker that finds its event taken;
`Crash`, `Lapse`, `BackoffEnds` for the environment. Between `Apply` and
`Complete`, which the worker calls in two transactions, anything may happen. The loop of
`_process_search_events` gives the order: acknowledgements of a batch together first,
then one event after the other, going on after a failure.

- *Time* is two flags of a row, `lapsed` and `waiting`. While the heartbeat succeeds
  nothing lapses, so a renewal is a stuttering step; a running worker's batch carries
  one `lease_expires_at` (0033 sets it, 0048 renews it), so it lapses as a whole
  (`LeasedWith`); what a dead worker left may have been renewed at different times.
- `FOR UPDATE SKIP LOCKED` with several workers is a set `held` of rows that someone else
  has locked at that moment; with one worker there are none.
- `attempt_count` is only compared with the limit and stops counting there.
- One evidence record: every version rests on it, its purge removes every document.
- Versions committed after the purge are left out by `Admitted`. That they can exist all
  the same, in the window the run `RevocationRace` shows, is a question of the other
  module; here it would blur what the delivery itself guarantees.
- The fts and vector lanes have the same control. The purge lane works on the purge event
  under a delivery row of its own, and `run_once` gives it its turn before fts; its
  `apply_purge_projection` deletes the documents of *all* search lanes (0007:714-729) and
  looks at none of their rows, leases and watermarks. That is `OtherLanePurges`, possible
  at any time once the purge is committed, and again after a retry: documents go although
  the fts purge is still pending and the fts watermark covers their versions. The rest of the
  purge lane, the erasure of blobs, is in `EvidenceDeletion`; the evidence lane and the
  window fragments of 0028 are not modelled.
- Calls are atomic but for one thing. A completion or a reconcile computes the watermark
  in one statement and writes it in another (0033:325 and 337, 0035:136 and 148), and a
  transaction that overlaps may commit in between: the value written lacks its rows, and
  may be lower than the one it replaces. Such a transaction has begun after
  the worker's last call ended, so the rows that may be missing are `unseen`; which of them
  are is open (`Before`). The next reconcile that overlaps nothing repairs the value.
  A completion holds its delivery row, which a rebuild waits for. A reconcile that spans a
  rebuild writes nothing, as the watermark row is gone; that a lease recreates the row in the
  very same gap is left out.

**Fairness.** `Lease` and `Handle` of each worker are weakly fair: `run_once` is called in
a loop and a leased batch is processed to its end. `Lapse` and `BackoffEnds` are weakly fair: time
passes (a lease that is renewed for ever is a worker that never finishes, which fairness of
`Handle` excludes). Nothing is assumed of writers, of operators or of a handler's
success: a handler may fail every time, `MaxAttempts` ends the streak.

**Properties.** `TypeOK`, `WatermarkCoversCommitted`, `DeliveredIsIndexed`,
`PurgedStaysPurged`, `EveryEventSettles`, `ImplementsReadYourWrites`.

- `WatermarkCoversCommitted`, and with it the refinement, holds as long as no transaction
  commits a sequence that the lane has already passed, for instance while one transaction
  writes at a time (`MaxOpen = 1`), and fails otherwise (`WatermarkOvertaken`).
- `PurgedStaysPurged` holds as long as the lane does not run a purge ahead of a version it
  has not delivered, for instance with one worker and batches of one event, and fails for
  batches of two (`PurgeOvertaken`; the default of `worker_projection_batch_size` is 32).
- `DeliveredIsIndexed` needs no condition: until a purge is announced, a version that is
  called delivered is in the index. A worker that applied a document, lost its
  lease and meets a rebuild or a second worker is what could break it. Once a purge is
  announced nothing is said of documents, because of `OtherLanePurges`.

The two passing runs check each property where it is promised, the two violation runs show
that the conditions matter.

`ReadYourWrites` is what a reader sees of a lane: writes that are announced under
positions, an index, and a number it compares its position with. Nothing is announced at
or below the number that is shown. The number may lag and may fall, and wherever it moves
every version announced at or below it is in the index, unless the purge of
its evidence is announced, and every purge announced there has been done. From the moment a
purge is announced documents may go at any time (`Withdraw`), with the purge of this lane
still to come; a reader of the versions is then promised nothing, but the number still
passes no purge that is not done. Under the mapping `announced <- Announced` (what is
committed), `reach <- watermark`, `index <- document`, `purged <- Purged` a `Commit` is an
`Announce`, an `Apply` an `Index`, `OtherLanePurges` a `Withdraw`, a purge or a rebuild
itself; everything else is a `Move` of the number or a stutter.

## EvidenceDeletion

Evidence rows name a file by the hash of its content, so several records share one file,
which lives outside the database and is changed under other locks and by other processes
than the rows. The module follows *one content*; contents do not interact.

**State.** `file` is the blob file, absent or younger or older than the grace of the
orphan scan, `creator` the capture in flight that wrote it; `capture` is how far each
capture is (`WRITTEN`: the file is there and TX-01 has not begun, `OPEN`: TX-01 holds the
blob row, `STORED`); `blob` is `content_blob.physical_delete_state`; `revoking` is what an
open TX-05 has decided, `request` the `deletion_request` rows; `delivery` the rows of the
purge lane; `hand` what each worker is at; `survey` is set while a starting worker has found
the file old and unreferenced and has not erased it yet. Two history variables: `early`, the
records committed before any revocation of the content began, and `overtaken`, those
committed while some worker stood between the two statements of an erasure record.

**Steps.** A capture is `Write` (`BlobStore.write`), `OpenCapture`, `CommitCapture`, or
`AbortCapture` at any point after the write, which leaves the file. A revocation is
`BeginRevoke`, which counts the other references *without a lock*, and `CommitRevoke` or
`AbortRevoke`. A purge is `Lease`, `CountReferences`, `ApplyPurge`, `Erase`,
`ProveUnreferenced`, `CompleteErasure`, `Complete`. `CountReferences` and `ApplyPurge` are
halves of `apply_purge_projection`, whose count a capture or revocation may overtake before
the blob row is locked. `ProveUnreferenced` and `CompleteErasure` are halves of
`complete_blob_erasure`: at READ COMMITTED its check of the references (0019:117-127) and its
locked read of the blob row (0019:128-135) are statements with snapshots of their own, the
second waits for an open TX-01 and looks at nothing but the state of the row, so captures and
revocations may commit in between. `Erase` is the worker's call of the file
store between two transactions, which knows nothing of leases.
`RecordError` and `Fail` are its error paths, `LetGo` a worker that has lost its lease,
`Retry` an operator who returns a dead letter. `Survey` and `Collect` are
`reconcile_orphans`, which reads references first and unlinks later. `FileAges`, `Lapse`
and `Crash` are the environment. A *zombie*, a worker whose lease lapsed and was taken by
another, keeps its `hand` and goes on to the next check the code makes, which for `Erase`
is none.

**The grace.** `FileAges` says what the grace of the orphan scan covers: a capture that
created the file ends before the file is old. A capture that *found* a file is not covered:
the file keeps the modification time of the capture that wrote it, failed by now or not.

**Fairness** (`FairSpec`). Some worker goes on leasing and working (each polls, and goes on
with what it leased), some lease lapses (leases have an expiry), some transaction that was
begun ends. Each is one weak fairness condition for all of a kind together, weaker than one
for each. Nothing is assumed of stewards, operators, new captures or of the success of
an erasure.

**Properties.**

- `SharedBytesKept`: revoking one of the records that share a content never costs another
  its bytes. It is an action property of the unlinks of the purge lane: none of them takes
  the file while a record in `early` refers to it. It speaks of `early` because a
  capture that comes after a revocation began may find the file in place and commit around
  its unlinking; it speaks of the purge lane because the orphan scan is the subject of
  `OrphanErasedInFlight`.
- `ErasedUnreferenced`: the database does not call a content erased that a record refers
  to, except a record in `overtaken`. The exception is real and narrow, see
  [below](#disagreements-found). In the run captures do commit between the two statements,
  and there the state of the blob row keeps them all out; the exception takes a third
  capture.
- `NoRequestForgotten`: two TX-05 that overlap each take the other record for live, and
  both decide that the bytes are shared; the purge that comes last must then carry both
  requests.
- `RevokedBytesGo`: revoked content is erased in the end, unless something refers to it or
  a purge is parked. Any parked delivery row counts, told to the request or not.

What a capture after a revocation is *not* promised is its bytes. `LiveEvidenceHasBytes`,
which `OrphanErasedInFlight` refutes by way of the orphan scan, is also false without that
scan: a zombie erases once more after the content has been captured again; TX-05 counts the
references before a capture commits and its own request stays PENDING, so that the worker
erases although `apply_purge_projection` has counted a reference (0007:749-769,
`workers/main.py:505-513`); a file found in place is erased before TX-01 begins. The
database then has a live record without bytes, though in all but the case of `overtaken` it
does not call the content ERASED.

**Abstractions.** One purge event is leased at a time (`worker_projection_batch_size` 1),
and which pending one comes first is open. A write or an unlink is one step: temporary
files and directory syncs are the file system's. Backoff is left out; a pending row may be
leased at once or later.

## IdempotentWrites and AtomicWrites

Every host command carries an operation id. The host that loses an answer sends the
call again, perhaps while the first is still running on another connection of the API;
meanwhile other hosts write to the same note, working state or claim, working states
lapse, and evidence is revoked.

`AtomicWrites` is what that promises: each operation id takes effect at most once, in one
step (`AddNote`, `UpdateNote`, `DeleteNote`, `CreateState`, `ReplaceState`, `Propose`), or
is found stale and that is recorded (`FindStale`); a receipt is final.

`IdempotentWrites` is what the procedures do. `call[c]` is the transaction of connection
`c`: its operation id and request, its stage, the row it has locked and the working states
that had lapsed at its `CURRENT_TIMESTAMP`. Stages are cut where READ COMMITTED lets
others commit in between:

| Action | Code |
|---|---|
| `Begin` | the insert of the idempotency row, which waits for an uncommitted one; a proposal only looks for a receipt |
| `CheckNote` | `write_host_note` (0056): head `FOR UPDATE`, revision compared, sources `FOR SHARE` |
| `SeekState`, `FindState`, `InsertState` | a new working state (0050): expire a lapsed one, look for an active one, lock it and look again, insert under the unique index `uq_host_cognitive_active_binding` |
| `CheckState` | a replacement: row `FOR UPDATE`, version compared, staleness answered |
| `CheckProposal`, `InsertReceipt` | `create_operation_proposal` (0046): checks without locks, then the receipt |
| `Commit`, `CommitStale`, `Abort` | the end of the transaction; `Abort` stands for every error, lost connection and crash, and leaves nothing |

A committed version remembers the operation that wrote it and the evidence it names
(`chain`). A call whose id already has a receipt is answered from it, or refused when its
request differs; it changes nothing and does not appear. A working state found by the
search but committed after it is not seen by it, which is why `FindState` looks at the row
it waited for and not at its successor.

**Properties.** `EffectOnce`, `NoLostUpdate`, `OneActiveState`, and
`ImplementsAtomicWrites`: under the mapping `version <- Versions`, `rests <- Rests` (the
length of a chain and what its last version names) every step is a step of `AtomicWrites`
or a stutter. A `Commit` maps to the write on the state of *that* moment, although what it
compares was read several steps before. The refinement also says that a note never
comes to rest on evidence revoked meanwhile; for working states and proposals the code
does not lock the evidence, and the abstract specification does not promise it.

Payloads, tags, capacities (0055) and the fields of a fingerprint are data and left out. A
host names an expected version that exists: one that does not is refused by the comparison
under the row lock like any other that is not the current one. A review here only applies a
proposal (the standing `ACCEPTED` is the status APPLIED of 0004), since what matters to a
repeated submission is that the claim has moved; what else a review may do is in
`CanonicalGovernance`.

## Runs

| Run | Instance | What it shows | States |
|---|---|---|---|
| `GovernanceVersions` | 1 claim, 2 evidence, 3 proposals (CREATE, REVISE, REGROUND, NO_CHANGE, any references), 5 sequences | reviews and revocations in every order: `TypeOK`, `NoLostUpdate`, `VersionsFollowSequence`, `NoRevivalInPlace`, `EveryCommitAnnounced`, `ImplementsGovernedMemory` | 574 thousand |
| `GovernanceIssues` | 1 founded claim, 2 evidence, 3 more proposals (CONTRADICT, RESOLVE), 5 sequences | `OneLiveIssuePerClaim`, `IssueReplayable`, `AsOfStatusIsCurrent`, `ConflictKeepsBothBranches`, `IssuesClosedByDischarge`, `DecisionsAreAtomic` | 1.7 million |
| `DeliveryOneWriter` | 2 workers, 3 events, 1 open writer, batches of 2, 2 attempts | `TypeOK`, `WatermarkCoversCommitted`, `DeliveredIsIndexed`, `ImplementsReadYourWrites`, with completions that overlap and the deletions of the purge lane | 1.1 million |
| `DeliveryOrdered` | 1 worker, 2 events, 2 open writers, batches of 1, 3 attempts, 1 rebuild | `PurgedStaysPurged`, `DeliveredIsIndexed`, and under fairness `EveryEventSettles` | 13 thousand |
| `EvidenceDeletion` | 2 captures of one content, both revocable, 2 workers, 2 attempts | `TypeOK`, `SharedBytesKept`, `ErasedUnreferenced`, `NoRequestForgotten`, and under fairness `RevokedBytesGo` | 1.3 million |
| `HostWrites` | 3 operation ids of each family, offered in turn, 2 connections, 1 evidence, versions up to 2 | `TypeOK`, `EffectOnce`, `NoLostUpdate`, `OneActiveState`, `ImplementsAtomicWrites` | 13 thousand |
| `RevocationRace` | as `GovernanceVersions`, smaller | `EveryRevokedGroundingBlocked` violated | |
| `RevocationRefused` | from a settled issue, one more contradiction | `RevocationNeverRefused` violated | |
| `RevocationReopens` | from a settled issue, two more proposals | `RevocationReopens` violated | |
| `WatermarkOvertaken` | 1 worker, 2 open writers | `WatermarkCoversCommitted` violated | |
| `PurgeOvertaken` | 1 worker, batches of 2 | `PurgedStaysPurged` violated | |
| `OrphanErasedInFlight` | 2 captures, 1 worker | `LiveEvidenceHasBytes` violated | |

*Why the bounds are enough.* Claims do not interact but through evidence, and one claim
has all the interactions the properties speak of; the proofs below cover more. Three
proposals make a create and two competing reviews, or a review and a reground around a
revocation; a founded claim with three more makes two contradictions and a resolution, or
a contradiction and two competing resolutions. Two evidence records are the fewest with
which a grounding can survive a revocation. `MaxSeq` is drawn by reviews and revocations
alike, aborted ones included. The settled starting states are the ones the actions
lead to (create, contradict, resolve, with nothing in between); starting there saves the
states before. For delivery three events give a gap, a row below it and one above it; the
default limit is five attempts, three already separate first, middle and last. The
properties of `DeliveryOrdered` were also seen to hold with three events (340 thousand
states).
For deletion two records are the fewest that share a content, and with both revocable
each may be the one that is left; two workers are the fewest with which one stands between
two statements, or on the way to the file, while the purge goes on elsewhere; and
a limit of two attempts separates a failure that is retried from one that is parked. Three
operation ids of a family make a record and two hosts that write to it; two connections
make a retry overlap its first attempt or another host. The three families share no row
but that of the evidence, so they are offered in turn. What more captures, holds,
workers, attempts, hosts and connections could add is covered by the proofs, which fix
none of these numbers; the two liveness properties are claimed for the instances they
were run on.

Deadlock is not checked: when every proposal is decided, every record revoked, every
event delivered and every operation id used, the bounded system rightly has nothing left
to do.

Symmetry is used for interchangeable uuids and worker processes, and only where
invariants, action properties and refinements without fairness are checked, all of which
are symmetric themselves; `DeliveryOrdered` and `EvidenceDeletion`, which check
liveness, use none.

`EveryEventSettles` is claimed for one worker, which is what `FoundationWorker` calls
itself ("Single-process, ordered outbox worker"). With two, the model lets
`SKIP LOCKED` pass over the first row of the lane each time, which no finite delay of
real locks does but no fairness condition of the code excludes either.

## Disagreements found

Each is a violation run, with the trace TLC prints; `PROJECT.json` (`findings`) quotes
the line that says otherwise.

1. **`RevocationRace`.** A review checks its references (0005:607), a TX-05 revokes one of
   them and commits, the review's insert proceeds. TX-05 has computed its blocks from the
   versions of that moment; the new head rests on revoked evidence and has no block.
2. **`RevocationRefused`.** An issue is resolved, the claim contradicted again, so a newer
   live issue exists. Revoking the evidence of the resolution wants to reopen the first
   issue; the unique index of live issues refuses and the whole revocation rolls back.
3. **`RevocationReopens`.** An issue is resolved, reopened and resolved again citing the
   same evidence; `ON CONFLICT DO NOTHING` keeps the first resolver's candidate row, so
   TX-05's join on the resolving proposal misses the issue and it stays RESOLVED.
4. **`WatermarkOvertaken`.** Sequence 1 is open, 2 is committed, enrolled and delivered:
   the watermark becomes 2. Then 1 commits: committed, undelivered and below the watermark,
   until the next lease enrols it and the next completion lowers the watermark.
5. **`PurgeOvertaken`.** A batch holds a version event and the purge behind it. The
   version event fails and goes back with a backoff, the purge is delivered, the version
   event is retried and puts the document back into the index. The retrieval gate still
   refuses the claim; the text stays in the index.
6. **`OrphanErasedInFlight`.** A capture writes the file and fails. Later, when the file is
   older than the grace, the same content is captured again: the file is found in place
   and keeps its modification time. Before TX-01 commits, a worker starts, sees no blob row
   and an old file, and erases it; the capture commits. The docstring says that the grace
   protects captures in flight.

One more has no run of its own, because it is the exception that `ErasedUnreferenced` names.
With three captures of a content and two workers TLC finds, in 29 steps, a content called
ERASED that a live record refers to. The first worker has checked that nothing refers to
the content and not yet locked the blob row when its lease lapses; the second erases
and records the erasure. The content is captured a second time; TX-05 revokes that record,
counts no other, decides PENDING; a third capture commits; TX-05 commits and puts the blob row
back to PURGE_PENDING. Now the first worker locks the row, finds the state it expects and
records ERASED. The third record is live and its content is called
ERASED; the contract (`P/MiLAi_Lean_V1_实施合同.md:894`) and the runbook
(`P/docs/runbooks/projection-and-purge-recovery.md:57`) say that a content stays until the
last live record is gone. Two captures cannot do it, since the state of the row, read under
its lock, keeps out every capture that is not followed by a revocation.

## Proofs

`tlapm` proves the following for every value of the constants that satisfies the
assumptions: any set of claims, evidence, proposals, workers, operation ids and
connections, any bound. Each theorem rests on an inductive invariant, named beside it,
that the initial states satisfy and every step preserves; lemmas show one action at a time
where it matters.

`CanonicalGovernanceProofs`, `GovernanceIssueProofs`, `GovernanceHistoryProofs`,
`GovernedMemoryProofs`, `GovernanceGapProofs`:

| Theorem | Statement | Inductive invariant |
|---|---|---|
| `TypeCorrect` | `Spec => []TypeOK` | `TypeInv` |
| `UpdatesNeverLost` | `Spec => []NoLostUpdate` | `ChainInv` |
| `VersionsOrdered` | `Spec => []VersionsFollowSequence` | `OrderInv` |
| `BlockedStaysBlocked` | `Spec => []NoRevivalInPlace` | `BlockInv` |
| `AtMostOneLiveIssue` | `Spec => []OneLiveIssuePerClaim` | `LiveInv` |
| `ClosedOnlyByDischarge` | `Spec => IssuesClosedByDischarge` | `ClosingInv` |
| `IssuesReplay` | `Spec => []IssueReplayable` | `ReplayInv` |
| `BothBranchesKept` | `Spec => []ConflictKeepsBothBranches` | `BranchInv` |
| `GateReadsStatus` | `Spec => []AsOfStatusIsCurrent` | `AsOfInv` |
| `CommitsAnnounced` | `Spec => []EveryCommitAnnounced` | `AnnounceInv` |
| `EveryDecisionIsAtomic` | `Spec => DecisionsAreAtomic` | `MemoryInv` |
| `GovernanceImplementsMemory` | `Spec => ImplementsGovernedMemory` | `MemoryInv` |
| `BlockedUnlessOvertaken` | `Spec /\ [][NoRevocationUnderReview]_vars => []EveryRevokedGroundingBlocked` | `BlockedInv` |
| `ReopensUnlessCitedAgain` | `Spec /\ [][FreshCandidates]_vars => RevocationReopens` | `ReopenInv` |

*Assumptions*: `Readable` and `Cited` draw on `Evidence`, `Ops` on the six operations,
`None` is no proposal, `MaxSeq` is a natural number, proposals and evidence records are
different things (uuids of different tables).

*The argument.* None of the properties is inductive by itself.

- `TypeInv` adds to `TypeOK` that a review is open only on a pending proposal and that a
  proposal names the version or issue its operation needs (`ReviewShape`), and that only
  an approval has inserted a version (`VersionShape`).
- `ChainInv` adds `HeadLocked`: at most one review holds a claim's lock and while it
  does the head is what it expects; and `Lineage`: heads and expected versions are
  versions of the claim in question. A commit therefore numbers its
  version one above the highest.
- `OrderInv` adds `Tickets`: no ticket is above `commitSeq`, an open review has drawn one
  when the code says so, and a proposal that expects version v only ever holds a ticket
  above v's. The expected version
  was applied when the proposal was submitted, so its ticket is older than any drawn since.
- `BlockInv` adds that blocks are on existing versions. A commit moves the head to a
  version nobody could have blocked before, and `ApproveReground`, the one step that
  releases, moves it off the released version.
- `LiveInv` adds that an issue belongs to an applied proposal, whose body no longer
  changes (`IssueShape`). `ContradictInto` joins the live issue when there is one, and
  `Collides` refuses the reopening otherwise.
- `ClosingInv` adds `ResolvesItsClaim`: a resolving proposal names an existing issue of
  its own claim, and is under review only if it discharges it. The only step that turns a
  live issue RESOLVED is `ApproveResolve`, whose guard is the compare-and-set.
- `ReplayInv` adds that an issue without a revision was never opened. The lemmas
  `ContradictMoves`, `ResolveMoves` and their like show that a step leaves an issue and its
  history alone or moves it by one revision together with the transition that says
  so (`Keeps`, `Extends`), and a history so extended stays replayable.
- `BranchInv` adds `Sourced`: what a proposal inserts cites something. Relations only
  grow, and the groundings of a version that was inserted no longer change, so the support
  branch stays complete.
- `AsOfInv` adds that no sequence is used before it is drawn, and the two facts that make
  commit order agree with sequence order where it matters: a resolution that still names
  the present revision holds a greater sequence than any transition of the issue
  (`ResolveIsLatest`: it drew after it read that revision), and so does a revocation for
  the issues it will reopen (`RevokeIsLatest`: it holds the evidence row, so no resolution
  comes to rest on it meanwhile). All other transitions keep the status.
- `AnnounceInv` adds that no two transactions hold the same sequence, so an event can be
  traced to one commit.
- `MemoryInv` is the invariants above, without those of replay and as-of status, and what
  the mapping needs besides: the versions of a claim are numbered without a gap
  (`Dense`), so that a ledger is a sequence and a commit appends to it; a reground under
  review is of a version that has a block (`RegroundsWithdrawn`), although it was checked
  when the lock was taken; a resolved issue was resolved by an applied version of its claim
  (`ResolverOnRecord`) that cites what TX-05 joins on (`CandidatesCited`), so what a
  revocation reopens was settled with that evidence. Then every approval is the abstract
  decision on the state it commits in, and every other step leaves the mapped state alone.
  The lengths of ledgers come from `Dense` and not from a recursion over versions.
- `BlockedUnlessOvertaken` says what the run `RevocationRace` is about, and nothing else
  is: in every behaviour in which no TX-05 commits while a review of a proposal that cites
  the evidence is open, which is what a row lock in `evidence_refs_admissible` would
  give, all dependent versions are blocked. `BlockedInv` adds that open reviews cite
  live evidence.
- `ReopensUnlessCitedAgain` says the same of `RevocationReopens`: if no issue is resolved
  again with evidence that is its candidate already, every revocation reopens what it
  should. `ReopenInv` adds that the candidates of a resolved issue are its resolver's own.
  The hypotheses of both are met by most behaviours: with them added to `Next`, TLC
  goes through 4 thousand states from an empty store for the first and 146 thousand from
  the settled one for the second.

`ProjectionDeliveryProofs`:

| Theorem | Statement | Inductive invariant |
|---|---|---|
| `TypeCorrect` | `Spec => []TypeOK` | `TypeInv` |
| `IndexIsComplete` | `Spec => []DeliveredIsIndexed` | `IndexInv` |
| `WatermarkIsHonest` | `Spec /\ [][NothingOvertaken]_vars => []WatermarkCoversCommitted` | `WatermarkInv` |
| `LaneImplementsReadYourWrites` | `Spec /\ [][NothingOvertaken]_vars => ImplementsReadYourWrites` | `LaneInv` |
| `PurgeIsFinal` | `Spec /\ [][PurgeInOrder]_vars => []PurgedStaysPurged` | `PurgeInv` |

All hold for any number of workers, of transactions open at a time, of events and rebuilds,
and for every size of a batch. What the code leaves to luck is a premise about single steps,
and the theorem says that luck is all that is missing: the race of `WatermarkOvertaken` is
the only way for the watermark to lie, and the one of `PurgeOvertaken` the only way for a
purged document to come back.

- `NothingOvertaken`: no transaction commits a sequence above which the lane has a row
  already. Transactions may be open at the same time and commit out of order as long as
  the lane has not leased past them. `OneWriterIsEnough` proves that this is so with one open
  transaction at a time, hence the run `DeliveryOneWriter` is an instance.
- `PurgeInOrder`: no purge is run while a version before it is undelivered.
  `BatchOfOneIsEnough` proves that this is so with one worker and batches of one event, as
  in `DeliveryOrdered`.

The invariants:

- `TypeInv` adds that only committed events have rows and only versions are ever applied.
- `WatermarkInv` adds that the rows of the lane leave no committed event out below them
  (`EnrolledInOrder`, where the premise is used), that the watermark is the sequence of a
  delivered event (`WatermarkDelivered`), and the property (`BelowIsDelivered`). That a
  nonempty finite set of integers has a greatest and a least member is proved from the
  well-foundedness of strict inclusion.
- A watermark computed without some of the deliveries is still the sequence of a delivered
  row with nothing undelivered below it (`BeforeReached`): a stale value lags, it does not
  lie. All of the above holds of such values.
- `IndexInv` adds that what a worker has applied and may still complete is in the index
  (`CompletedIsIndexed`): a rebuild that empties the index takes its row away with it, and
  whoever leases the event again applies it again.
- `PurgeInv` adds that a purge excludes versions that are undecided or drawn later
  (`PurgeIsLast`, which needs that sequences are drawn in order), and that a delivered purge
  has no undelivered version left to be applied (`PurgeWaits`, where the premise is used).
- `LaneInv` is `WatermarkInv`, `CompletedIsIndexed`, `DrawnInOrder` and `PurgeIsLast`. They
  are the guards of the abstract `Move`; the premise is the guard of `Announce`.

*Assumptions*: the bounds are natural numbers, positive where the code needs one, and
`None` is no worker.

`EvidenceDeletionProofs`:

| Theorem | Statement | Inductive invariant |
|---|---|---|
| `TypeCorrect` | `Spec => []TypeOK` | `TypeOK` |
| `SharedBytesAreKept` | `Spec => SharedBytesKept` | `TypeOK`, `RowsInv`, `HandInv`, `KeepInv` |
| `ErasedIsUnreferenced` | `Spec => []ErasedUnreferenced` | `TypeOK`, `RowsInv`, `HandInv`, `ErasedInv` |
| `NoRequestIsForgotten` | `Spec => []NoRequestForgotten` | `TypeOK`, `RowsInv`, `HandInv`, `OweInv` |

*Assumptions*: holds and revocable records are records, the limit on attempts is positive,
`None` is neither a record nor a worker. None of the theorems has a premise.

- `RowsInv` and `HandInv` say what the rows say of each other: a deletion request and its
  delivery row come together and stay, only a clear request asks for an erasure, a worker
  only has events of revoked records in hand.
- `KeepInv`: as long as an early record refers to the content, no worker, zombie or not,
  has got past the count of references, and no TX-05 but its own has decided that the
  bytes may go (`Kept`). `UnlinkStep` then shows that no step of a worker unlinks.
- `ErasedInv` adds that while a worker stands between the two statements of an erasure
  record, everything that refers to the content is in `overtaken`. The lemmas `RecordStep`
  and `OvertakenStep` show that a worker only gets there with no reference left, and that
  `overtaken` is only reset then.
- `OweInv`: while no record refers to the content and some clear request is not erased,
  some purge still owes the erasure: its row is not delivered, and nobody who has it in
  hand has found the bytes shared or is past the record of the erasure.

`IdempotentWritesProofs`:

| Theorem | Statement |
|---|---|
| `TypeCorrect` | `Spec => []TypeOK` |
| `OperationsTakeEffectOnce` | `Spec => []EffectOnce` |
| `NoUpdateIsLost` | `Spec => []NoLostUpdate` |
| `ActiveStateIsUnique` | `Spec => []OneActiveState` |
| `WritesAreAtomic` | `Spec => ImplementsAtomicWrites` |

All five from one inductive invariant `IInv`: `TypeOK`, the three properties
(`SingleState` for the last, without a cardinality), and

- `KeyInv`: two connections have the same operation id in hand only for proposals, and
  never both with the receipt inserted;
- `LockInv`: no two calls hold the same row, nor two an entry in the unique index;
- `FoundInv`: what a call has checked is still so, for as long as it holds the row;
- `ChainInv`: a record has versions exactly when it has a standing.

The refinement then goes action by action: stages are stutters, and at a `Commit`
`FoundInv` is the guard of the abstract write.

*Assumptions*: the three families of operation ids are disjoint, `None` is none of the
values it stands beside, the workloads are sets of operation ids.

*Only model-checked*: `EveryEventSettles` and `RevokedBytesGo`. They are liveness under
fairness, which needs ENABLED and stays with TLC. Every safety property of a passing run,
and the three refinements, is a theorem above, those of the lane under the premises named there.

## Not modelled

- *Retrieval gate, state view, read-your-writes wait*: they read one snapshot and change
  nothing. What they rely on across transactions is `AsOfStatusIsCurrent` and what
  `ReadYourWrites` promises.
- *Context capsules*: a capsule assembled before a revocation may be stored after it and
  then misses TX-05's invalidation. It yields nothing all the same, since
  `recover_context_pointer` looks at the evidence again (0009:397); the invalidation is a
  second line.
- *Retrieval continuation*: trees of short-lived cursors nothing durable depends on.
- *Episode settlement*: one transaction under the row of the episode, with the receipts
  `IdempotentWrites` has for notes.
- *Namespace cleanup*: a loop of TX-05 calls in one transaction; TX-05 is modelled one
  record at a time.
- *Evidence lane, window fragments, batches of several purges*: lanes and tables with the
  control of those that are modelled, but for the hazards listed for them.
- *Reviewer separation (0032), payload, scope and validity time, encryption*: checks and
  transformations of data no property here tells apart.
- *API, application and repository layers*: one procedure call per request; their
  interleavings are those of the procedures.
- *Integrations*: clients of the API, whose retries are the repeated calls of
  `IdempotentWrites`; OAuth, the broker and the hooks are not modelled.
- *Legacy history reconciliation (0024)*: one migration, run once on data of the first
  candidate release.
- *Backup and restore*: file and process I/O inside a quiescent window.
- *Lab and archive*: not deployed. They are most of the repository's lines.

## What remains

In the order of importance:

1. `CanonicalGovernance` and `ProjectionDelivery` as one specification, with the outbox of
   the first as the input of the second, in place of `Admitted`.
2. `EvidenceDeletion` with batches of several purges.
3. Context capsules against TX-05's invalidation of pointers.
4. Namespace cleanup, where a refused TX-05 ends the loop, and retrieval continuation.
