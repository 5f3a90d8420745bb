# Verification of FlowDocs' coordination code

FlowDocs (the Django project under `flowdocs/`) serves searchable PDF documents.
Most of its code renders, extracts and ranks text. What is hard to get right is
the part that moves *data sets* about: backups to an object store, snapshots of
a live system, recovery, and the replacement of the running data set by another
one; and, beside it, the part in which uploads, background jobs, administrators
and searches share the documents. These are processes which share rows of a
database, directories of a volume and objects of a store, and any of them may
die, be slow, or run twice. This directory holds TLA+ models of them, the TLC
runs that check them, and proofs checked by TLAPS.

Contents: [System](#1-the-system), [Modules](#2-the-modules),
[Runs](#3-the-runs), [Fairness](#4-fairness), [Findings](#5-findings),
[Proofs](#6-the-proofs), [Not modelled](#7-not-modelled), [Plan](#8-plan).

## 1. The system

### 1.1 Components that are modelled

| Component | State | Operations | Hard part | Correct when |
|---|---|---|---|---|
| **DataOps operation worker** `dataops/worker.py` | `DataOperation` rows: state, lease token and deadline, attempt; the audit log | enqueue, claim a batch, take over an expired lease, renew, fail with retry, commit | a batch is claimed before it is executed; leases run out; processes die | one owner passes the ownership test; a receipt is published by the owner only; every operation settles |
| **Mutation barrier and journal** `vaultops/services/mutations.py`, `vaultops/middleware.py` | `SourceMutationState` (epoch, open scopes, barrier and its owner), `MutationJournalEntry` | `mutation_scope` with nesting, `request_barrier`, `assert_barrier_owner`, `release_barrier` | scopes opening around a request; threads dying inside a scope; holders that are killed or raise | an active barrier means that every write is journaled; a proof of ownership means nothing moved; writers are readmitted |
| **Vault jobs** `vaultops/services/jobs.py`, `services/sync.py`, the loop of `run_maintenance_jobs.py` | `VaultJob` rows: status, token, fencing epoch, heartbeat, version | queue, claim, start, heartbeat, cancel, complete, fail, recover stale, requeue | candidate read before the claim; late workers; double retries | an epoch names one claim; only the last claim settles; a version is retried once |
| **Consistent snapshot and clean-up** `vaultops/services/snapshot.py` | `SourceSnapshot` rows, workspaces on disk, the job's checkpoint | copy trees, barrier, copy database, reconcile, finalize, resume, stage, reclaim | several attempts of the same job inside one procedure | what is resumed and published is one coherent cut of the sources |
| **Global writer, Vault publication and promotion** `core/global_writer.py`, `vaultops/services/publication.py`, `core/registration.py`, `services/inventory.py`, `services/retention.py` | the writer record, manifests and the authoritative pointer in the store; `ArtifactGeneration` rows and attestations | acquire, renew, validate, release; upload, put manifest, promote pointer, promote rows, inventory, retire | the pointer is in the store, the rows in the database; grants that lapse under their holder; lost answers | one line of authoritative generations; rows that follow the pointer; a successor's grant is not ended by its predecessor |
| **Vault restore** `vaultops/services/restore.py` | `RestoreWorkspace` rows, a quarantine per row, one incomplete and one final runtime per generation | verify, download, pause, validate, copy, sanitize, rehearse, seal, rename | directories shared by all attempts; a handler that removes them; no heartbeat after the download | what may be activated is complete; what lies on disk is somebody's |
| **DataOps recovery publication** `dataops/v3_executor.py`, `v3_backup.py`, `v3_storage.py`, `core/recovery_snapshot.py` | snapshot directory, immutable objects, the conditional `latest` pointer, `RecoveryPoint` rows | capture or resume, observe, put manifest and point, swap, record, clean up | lost answers, retries after a partial publication, two workers in one operation | one line of points that never change; the latest can be restored; a reported success is reachable |
| **DataOps restore and activation bridge** `dataops/v3_restore_executor.py`, `v3_restore.py`, `v3_import.py`, `v3_candidate.py`, `v3_activation.py`, `core/rehearsal.py` | the quarantine directory of a recovery point with its receipts, candidates, the runtime directory | materialize, import, rehearse migrations, prepare indexes, project, schedule | all operations on a point change one directory in place, under leases that end | a runtime is one whole state of the directory; points stay restorable; imports are exact |
| **Runtime activation** `runtime_supervisor.py`, `vaultops/services/activation.py`, `vaultops/runtime_control.py` | `active.json`, `previous.json`, the lock, intents, acknowledgements and results on a volume; `ActivationIntent` and `ArtifactGeneration` rows; file modes of the runtimes | schedule, quiesce, cut over, verify, roll back, recover after a restart, project | two supervisors that talk through files, each of which restarts by itself | one generation serves; the pointer moves while nothing runs; results describe what runs; every open intent is decided |
| **Uploads, documents and maintenance jobs** `core/services/upload_intake.py`, `core/services/document_lifecycle.py`, `core/views.py`, `core/maintenance.py`, `run_maintenance_jobs.py` | `UploadBatch`, receipts, `PDFFile` lifecycle and status, stored PDFs, `MaintenanceJob` and its items | receive, finalize, discard, expire; archive, deprecate, delete, mark unavailable, restore; claim, process, recover orphans, defer, fail | administrators decide about a document that the worker has in hand; torn recovery | hidden documents come back knowingly; success means everything was processed; queued jobs end |
| **Search** `core/utils.py` | per process: the normalized corpus; shared: the result cache, the stored folder index | identity, cache, corpus load in two passes, embedding, fallback, index promotion, last checks | caches keyed by an epoch that does not move for every write; time passes inside a request | a hidden document is shown to nobody; cached state is exact; a refusal has a cause |

### 1.2 How they interact

* A view or the scheduler inserts a `DataOperation`; `reconcile_receipts` claims
  it and calls an executor: for a backup `execute_backup_operation`, which is
  the recovery publication, for a restore or test `execute_restore_operation`.
  The lease renewals of the executors are the worker's.
* Every write request and every worker that changes the sources runs inside
  `mutation_scope`. A snapshot closes the barrier for its *job*, copies, proves
  that it still owns the barrier, and opens it in a `finally` block, which a killed
  worker does not run. A search
  keys its caches by the epoch that the scopes advance.
* `sync` queues a vault job for an epoch; the maintenance worker claims it; its
  execution is a consistent snapshot followed by an upload under the global
  writer authority. Promotion and restore are vault jobs too. A requeue stages
  the job's workspaces, which a clean-up pass removes.
* An operator schedules the activation of a restored or prepared runtime; the
  supervisors of the web and the maintenance container cut over and project the
  result back into the control database.
* A finalized upload batch queues a maintenance job; the same worker process
  runs those jobs, on the live rows, while administrators use their views.

The processes are: web requests (one per gunicorn worker process at a time), one
or more maintenance workers (each a child of a supervisor), the two supervisors,
and commands started by hand. They share the databases (transactions), the
volumes (rename is atomic, nothing else is) and the object store (conditional
puts).

## 2. The modules

Each component has a module with its state as variables and one action per
transaction, per autocommitted statement, or per write that another process (or
the same one after a restart) can tell apart. `MC<Module>` gives model values
for TLC, `<Module>Proofs` holds the theorems; `MutationProofs` those about
`SourceMutations` and the two modules that extend it, `PublicationIntakeProofs`
those about `RecoveryPublication` and about `DocumentIntake`. Operators introduced by a comment
that starts with `Fault:` (or named for the bug) are not part of any
specification: each is a definition with a plausible error that the properties
have to notice. The type invariant of each module was checked while
it was developed and is proved; the runs spend their time on the rest.

### 2.1 `DataOpsWorker`

`op[o]` is the row; `pc`, `todo`, `claims` and `outcome` are the memory of a
reconciler: where it is in `reconcile_receipts` and `_finish_pipeline_operation`,
the rows it listed, the rows *as it claimed them*, and what the executor
returned. `ListQueued`, `ClaimOperation`, `ListStale`, `StartBatch` are the
first half of `reconcile_receipts`; `BeginOperation` is the unconditional first
save, `RenewLease`, `ExecutorFails` and `ExecutorReturns` the executor,
`CheckError`, `SaveError`, `AuditError` the error path, which tests ownership in
one statement and saves in another, and `RenewForCommit`, `CommitSuccess` the
success path. `LeaseOverrun` and `LeaseAbandoned` are the clock: a lease that
runs out under a live holder (bounded), and one whose holder is gone (not
bounded). What an operation does is abstracted to return, retryable error or
final error.

### 2.2 `SourceMutations`

`barrier`, `active`, `epoch` and `journal` are the row and the entries; `scope`
is the nesting depth, the changed mark and the writes of each thread; holders
are calls of `request_barrier`, two of which may act for the same job. Writes
are numbered and history variables remember which were lost with a dead thread
(`lost`) and what a holder had seen when it acquired the barrier (`heldAt`), and the
jobs whose last call ended without releasing (`abandoned`): `AbandonBarrier` is a
holder that is killed while it polls or holds, a poll that raises, and a release
that raises.
`MutationOutcome.discard` is left out, as the module explains.

### 2.3 `VaultSnapshot`

Extends `SourceMutations`: the holders of the barrier are the attempts of one
job (`Attempts` is `Holders`), and the snapshot's barrier steps conjoin the
actions of that module. `at[a]` is the attempt's position in `create_consistent_snapshot`, `snap`
its row and the writes its tree and its database copy hold, `disk` its
workspace, `step` the checkpoint of the job, `cleaning` a clean-up pass. An
attempt whose job was declared stale goes on as a *late attempt*.

### 2.4 `VaultJobs`

`job[j]` is the row, `worker[w]` the claim a process remembers and where it is
in `execute_claimed_job`, `todo` the listing of `recover_stale_jobs`,
`request[r]` an operator's retry. The transition table of `lifecycle.py` is
`Transitions`, consulted by every status change as in the code.

### 2.5 `RecoveryPublication`

`op` is the row reduced to what publication needs (state, owner, attempt), `dir`
and `temp` the snapshot directory and its temporary twin, `content` which
capture it holds, `manifests`, `points` and `latest` the objects, `recorded` the
control rows, `seen` and `made` a worker's memory. `DataOpsWorker` details
leases; here a claim may be taken over at any time. `RecoveryLine` is what all
this promises to a reader of the dataset, in two variables: a point is put once, and the pointer moves from a point to
a child of it. `RecoveryPublication` implements it, and the run and a theorem
say so.

### 2.6 `RuntimeActivation`

`active`, `previous`, `writable`, `lock`, `ack` and `result` are the volume;
`web` and `mnt` the positions of the supervisors, which a death resets while the
volume stays; `child` the generation each child process is bound to; `drafts`,
`intents`, `file`, `row` and `projection` the coordinator's side. A pointer is
the generation and the intent that wrote it, which stand for its digest.
`WebTick` is `web_tick` with the guards of `apply_intent`; the actions from
`TakeLock` to `ReleaseLock` are its writes in order. The lock file is created and
gets its content in two writes (`TakeLock` or `ClaimRecoveryLock`, then
`NameLock`); in between it is `Blank`. `Undo` to `GiveUp` serve the
exception handler and, with `web.recovering`, `_recover_incomplete_cutover`.
`MntBoot` and `MntStart` are two actions because `run` reads the pointer first
and thaws what it read afterwards. Maintenance ticks read the web acknowledgement
(`Listen`) and answer it (`Respond`) in two actions for the same reason.

### 2.7 `GlobalWriter`, `VaultPublication`, `AuthorityLine`

`GlobalWriter` is the writer record with its ETag (epoch and number of puts) and
each worker's grant; `AcquireRead` and `AcquirePut`, `ReleaseRead` and
`ReleasePut` are two actions because the record may change in between, and
`Lapse` is the clock. `VaultPublication` extends it with what a publisher does
under the grant: `UploadObjects`, `PutManifest` (immutable), `WriteCandidate`,
`Attest` for a publication, `CheckCandidate` to `PromoteRows` for a promotion;
`ReadInventory` and `ProjectInventory` are minutes apart in the code and two
actions here; `Retire` is an operator. The bytes of a manifest contain the writer
epoch, so an epoch stands for a digest: a publication that is retried after its
manifest was stored acquires a new epoch, produces other bytes and is refused for
ever with `generation_manifest_conflict`. `renew` compares only the ETag, and
`force_takeover` has no caller. `AuthorityLine` is the abstract specification,
which the module implements.

### 2.8 `DataOpsRestore`

`space[p]` is the quarantine directory of the selected or the imported point:
what was done to it, a version that every change raises, and its receipts.
`Accepts` is `_existing_workspace`, which decides whether a later attempt may go
on with what it finds. `runtime[p]` is what `project_candidate_runtime` copied,
`at[w]` a worker's position. Trial directory and copy of the database are one
action (the check that it is new and its creation are not separated by anything
slow).

### 2.9 `VaultRestore`

`ws` are the `RestoreWorkspace` rows in order of creation, `incomplete` and
`runtime` the two directories of the generation as the set of things done to
them. `Transit` is `transition_workspace` with the table of `lifecycle.py`. A
`RestoreError` is final and an `InventoryError` or `OSError` is not; a retry that
finds its row in `validating` or later is refused by the table and then fails the
row. `Handle` is the exception handler, which removes the incomplete directory if
the attempt got as far as naming it, whoever made it.

### 2.10 `DocumentLifecycle`, `MaintenanceJobs`, `DocumentIntake`

`DocumentLifecycle` has a row per document (lifecycle, status, evidence) and its
stored file, and an action per view. `MaintenanceJobs` extends it with jobs,
items and the worker: `run[w]` is the position in `run_job`, and each write of an
item is an action. `StartWorker`, `RequeueOrphan`, `RequeueItems` and
`NextOrphan` are the recovery at start, which is not one transaction.
`DocumentIntake` extends both with one upload batch, whose operations lock its
row. The administrator decides about the documents of `Operated`.

### 2.11 `SearchCorpus`

Extends `SourceMutations`, whose editor, barrier holder and scopes it uses:
`source` are the searchable rows, `index` the stored folder index, `results` the
cache by identity, `corpus[p]` the corpus of a process and `req[p]` its request.
`Identity` exists only while no scope is open and the barrier is open.
`LoadMeasure` and `LoadFill` are the two passes of a load. A process that
promotes an index opens a scope of its own. `HideOutsideScope` are the views
missing from `MUTATING_VIEW_NAMES` (`middleware.py:14-35`: removal from search,
retry of processing, upload batches, bulk operations), so what
`ActiveBarrierCoversWrites` says of writes it says of tracked ones. The promotion
of another process looks like an editor's scope.

## 3. The runs

Bounds are constants of the specifications and appear as guards of the actions
they limit; nothing else is cut off. "d.s." are distinct states.

| Run | Question | Bounds and why they suffice |
|---|---|---|
| `dataops_claims` | Do claims stay exclusive, are receipts published by owners only, do retries respect their budget, does every operation settle? | 2 reconcilers, 2 operations, batches of 2, 1 retry, one overrun or death. Two rows are needed for a claim to wait behind another in a batch, two reconcilers to take it over meanwhile. 0.9 million d.s. |
| `dataops_stale_publisher` | Violation: a stale holder publishes (section 5). | As the first run, without retries. |
| `mutation_barrier` | Does the barrier cover every write, is a proof sound, are writers readmitted? | 2 threads nested twice, 3 scopes, 2 writes, one death inside a scope, two calls that are killed or raise (the second may be the one that took over from the first); 3 holders for 2 jobs: two that the row cannot tell apart, and a competitor. 0.3 million d.s. |
| `vault_job_fencing` | Does an epoch name one claim, does only the last claim settle, are retries honoured once, does what runs settle? | 1 job, 2 workers, 2 requests, one death, one missed heartbeat, one cancellation: all the races are about one row. |
| `snapshot_retries` | Is what a retry resumes or publishes coherent, does clean-up spare the owner's workspace? | 2 attempts, 1 writer with a write to files, two exceptions, one pass of clean-up per snapshot. 4 million d.s. |
| `vault_publication` | Does the Vault show one line of generations, do the rows follow, do successors keep their grant? | 2 generations (the second replaces the first), 2 workers, 3 claims, one renewal, one fault, one inventory. 3.2 million d.s. |
| `vault_restore` | Is what may be activated complete, do directories have owners, are failed jobs without a ready workspace? | 2 jobs for one generation, 2 workers, one retry, two faults: one to leave something behind and one to meet it. 2.6 million d.s. |
| `recovery_lineage` | One line of points, a restorable latest, reachable successes? | 2 operations, 2 workers, one retry, one takeover, one lost answer, one error of the store. |
| `dataops_restore` | Are runtimes whole, do points stay restorable, are imports exact? | 2 operations on one point, 2 workers, one retry, one takeover, one error; every plan, every kind of point. 2.7 million d.s. |
| `activation_cutover` | Does the pointer move quietly, do results and rows describe what runs, are intents decided? | 3 runtimes, 2 intents (the second meets everything the first left behind: lock, acknowledgements, thawed files, a decided result), any two faults. 1.3 million d.s. |
| `documents` | Does success mean done, are manifests kept, do documents come back knowingly, do queued jobs end? | 2 documents, one batch, 2 jobs (the batch's and a later retry), one worker with one death and one failure, two decisions about one document. |
| `search_corpus` | Are hidden documents hidden, caches exact, last checks sound, refusals caused? | 1 process, 2 requests (the second meets the caches of the first), one editor, one barrier, 2 scopes, 2 writes, one hiding outside every scope, one restart. 2.9 million d.s. |

`CHECK_DEADLOCK FALSE` stands where the story ends: all jobs, operations,
attempts, intents or requests may be settled and their bounds used up. The worker
and barrier runs check deadlock.

Symmetry is used only in runs without liveness properties, over workers,
operations, jobs or attempts that no constant tells apart.

### Exceptions stated inside properties

Some properties name exceptions. Each is a behaviour of the code.

Barrier and snapshots:

* `WritersReadmitted` excepts a barrier whose owner is in `abandoned`: the last
  call for that job was killed, so that no `finally` block ran, or a poll or the
  release itself raised. Writers are refused until a later call for the same job,
  or the clean-up of its workspaces, opens the barrier; that a later call does so
  is part of the property, since a call takes its job out of `abandoned`.
* `ProvenCutIsFrozen` speaks of holders that act alone for their job, and
  `EligibleIsCoherent` of snapshots whose barrier no late attempt requested. The
  barrier knows the job and not the attempt: one late attempt can open it under
  the current one, a row is written, a second late attempt closes it again, the
  proof passes, and the published database copy lacks a write of the epoch it
  records.

Vault jobs, publication and restore:

* `RunningJobsSettle` excepts deaths and missed heartbeats: recovery of stale
  jobs runs once, when a worker starts. One that starts before the heartbeat of
  its predecessor is old recovers nothing, and the job stays `RUNNING` until a
  later start.
* No property says that a cancellation ends: one that arrives between the check
  and `start_job` leaves the row in `CANCELLING`, which recovery does not list.
* `RowsFollowPointer` excepts what the history variable `apart` records: a
  promotion that dies, is unanswered, is refused by a retired row or overtaken
  after its grant lapsed, between pointer and rows; an inventory that writes back
  what it read before; a late publication that resets the row. A promotion whose
  grant lapsed still moves the pointer: nothing but the pointer itself is
  compared.
* `ReadyRuntimesAreComplete` excepts `raided`: an attempt that fails removes the
  incomplete directory of another attempt at the same generation, which then
  makes the missing directories again and seals an almost empty runtime.
* `DirectoriesAreOwned` excepts attempts that were `cut` off: a death between the
  rename and the save of the path leaves a runtime that blocks the generation for
  ever; a leftover incomplete directory fails the next attempt, which removes it.
  Of the incomplete directory it says nothing once attempts `raided` each other,
  nor of a sealed one, whose removal may fail.
* `FailedRestoresAreNotReady` excepts attempts that lost their job after the
  download: nothing later sends a heartbeat or looks at the job.

DataOps:

* No property says that a published backup succeeds: the snapshot directory is
  removed before the success is committed. A worker that dies in between leaves
  an operation no retry can complete, which ends as failed although its point is
  the latest. An operation that lost the race for the pointer has put its point
  with the old parent, which no retry can replace.
* `RuntimesAreWhole` excepts `crowded`: no lease is renewed during the rehearsal
  and the preparation, which may run for two hours each against a lease of one, so
  two attempts may prepare one directory, and each takes it for finished.
* `PointsStayRestorable` names the two ways into a directory that every attempt
  of every operation refuses for ever: a rehearsal that did not reach its receipt,
  a failing migration included, and a preparation, although a failed one is
  marked retryable. A test recovery of a point of another dataset that is behind
  the schema makes its later import impossible.
* No property says that a failed operation changes nothing: an attempt that lost
  its lease after the rehearsal goes on, and may have the cutover scheduled of an
  operation that was reported as failed meanwhile (compare
  `docs/dataops/V3_IMPACT_ANALYSIS.md`). A crash during the copy leaves an
  incomplete directory that refuses the candidate from then on.

Activation:

* `OneGenerationServes`, `InactiveRuntimesAreFrozen` and parts of
  `PointerMovesQuietly` and `DecisionsAreWitnessed` except a maintenance
  supervisor that died: its acknowledgement "quiesced" outlives it, so a cutover
  goes on while its successor's child runs; and the successor thaws the runtime it
  read as active before the pointer moved.
* `OpenIntentsAreDecided` excepts expired intents (`_load_intent` tests expiry
  before the result, so that also a job worker paused for it is not resumed) and
  the cases of `Stranded`: a lock without content, left by a supervisor that died
  between creating it (`runtime_supervisor.py:363`) and writing it (373-376), which
  every later claim refuses as invalid (396-400), although the comment at 956-957
  says that a crash on either side of the lock can acquire or resume; a lock left
  by a decided intent whose supervisor died before releasing it; an interrupted rollback, whose acknowledgement is
  neither missing nor "applying", so that `apply_intent` returns on every poll;
  and a target that is no longer frozen, on which `validate_runtime_workspace`
  ends the web supervisor again and again.
* A coordinator that dies between the row and the file of an intent leaves an
  intent that no supervisor sees and whose row blocks every further one; the
  property speaks of intents whose file exists.

Documents and search:

* `CompletedJobsAreComplete` excepts `torn` jobs (a recovery that died between
  the job and its items) and `doubled` ones (a second worker, as the documented
  `--once` starts one, requeues a live job; the runbook says that a retry does
  not recompute completed items).
* `QueuedJobsEnd` excepts a job that was young when the worker came back after a
  death: it is not recovered and stays `running`.
* A document that is deleted between listing and processing ends the job without
  its remaining items being marked failed. A batch that `receive` or `finalize`
  finds expired is marked so and never cleaned. A crash in the middle of an item
  leaves "processing" as the state that a later failure restores.
* `CachedForEpochIsExact`, `CheckedEvidenceIsCurrent` and `RefusedForACause`
  except documents hidden outside every scope: the epoch does not move for them,
  and a request that meets one in a cache is refused, where the release note of
  the answer cache (`docs/releases/2026-08-07-search-answer-latency.md`) promises
  the fallback.
* `RefusedForACause` names two causes nobody else brings about: a request whose
  fallback rebuilds the folder index advances the epoch it is checked against,
  and behind a closed barrier it may not rebuild.

## 4. Fairness

Only runs with a liveness property use `FairSpec`'s fairness.

* `DataOpsWorker`: weak fairness of each reconciler's steps, of the executor's
  return (remote calls have time-outs, so an executor does not renew for ever)
  and of the clock passing an abandoned deadline. The worker's loop polls without
  end. Nothing is assumed about overruns, deaths or which error occurs.
* `SourceMutations`: a holder's polls end at a monotonic deadline and callers
  release in a `finally` block, so the call of a holder that is not killed ends;
  a killed one takes `AbandonBarrier`, after which nothing is promised. Scopes end
  with the request or worker step that opened them. No fairness for writes, new
  scopes, new calls, deaths or clean-up.
* `VaultJobs`: a started process goes on and the supervisor restarts a dead one;
  no fairness for operators, heartbeats or recovery beyond the start of a worker.
* `RuntimeActivation`: weak fairness of all the steps of each supervisor
  (`restart: always`, polling loops, a deadline on every wait) and of the end of
  the intent's file write. No fairness for operators, and a wait may always end
  by its time-out.
* `DocumentIntake`: weak fairness of the steps of the service's worker, which its
  container restarts; none for administrators, uploads or failures.

`VaultSnapshot`, `VaultPublication`, `VaultRestore`, `RecoveryPublication`,
`DataOpsRestore` and `SearchCorpus` are checked for safety only: their attempts
end by their code's own control flow, and whether a job is tried again is the
matter of the modules above.

## 5. Findings

One run is expected to find a violation of what the repository says of itself;
`PROJECT.json` quotes the lines. `dataops_stale_publisher` /
`StaleHolderNeverPublishes`: the first save of `_finish_pipeline_operation`
writes the row as it was claimed, without a test. A claim that waited behind a
long one in its batch until its lease ran out overwrites the newer claim, after
which all its ownership tests pass.

The other disagreements met while modelling are exceptions of properties that
hold (section 3).

## 6. The proofs

TLC checks the instances above. TLAPS proves, for every value of the constants:

| Theorem | Module | Statement |
|---|---|---|
| `TypeCorrect` | `DataOpsWorkerProofs` | `Spec => []TypeOK` |
| `OneOwnerAlways` | `DataOpsWorkerProofs` | `Spec => []OneOwner` |
| `OnlyOwnersPublish` | `DataOpsWorkerProofs` | `Spec => PublishedOnlyByOwner` |
| `TypeCorrect` | `MutationProofs` | `Spec => []TypeOK` |
| `ActiveBarrierIsCoherent` | `MutationProofs` | `Spec => []ActiveBarrierCoversWrites` |
| `JournalDense` | `MutationProofs` | `Spec => []JournalIsDense` |
| `FrozenUnderProof` | `MutationProofs` | `Spec => []ProvenCutIsFrozen` |
| `TypeCorrect` | `VaultJobsProofs` | `Spec => []TypeOK` |
| `EpochsAreFencing` | `VaultJobsProofs` | `Spec => []EpochNamesOneClaim` |
| `RetriesAreHonouredOnce` | `VaultJobsProofs` | `Spec => []RetriesHonouredOnce` |
| `SettlingNeedsTheClaim` | `VaultJobsProofs` | `Spec => SettledByLatestClaim` |
| `TypeCorrect` | `PublicationIntakeProofs` | `Spec => []TypeOK` |
| `LatestRestorable` | `PublicationIntakeProofs` | `Spec => []LatestIsRestorable` |
| `LineKept` | `PublicationIntakeProofs` | `Spec => KeepsRecoveryLine`: the refinement of `RecoveryLine` |
| `SuccessReachable` | `PublicationIntakeProofs` | `Spec => []SuccessIsReachable` |
| `IntakeTypeCorrect` | `PublicationIntakeProofs` | `IntakeSpec => []IntakeTypeOK` |
| `CompletedComplete` | `PublicationIntakeProofs` | `IntakeSpec => []CompletedJobsAreComplete` |
| `ManifestKept` | `PublicationIntakeProofs` | `IntakeSpec => []FinalizedManifestIsKept` |
| `SearchableKnowingly` | `PublicationIntakeProofs` | `IntakeSpec => BecomesSearchableKnowingly` |
| `BudgetsHold` | `DataOpsWorkerProofs` | `Spec => []AttemptsWithinBudget` |
| `TypeCorrect` | `VaultPublicationProofs` | `Spec => []TypeOK` |
| `PublicationKeepsLine` | `VaultPublicationProofs` | `Spec => KeepsAuthorityLine`: the refinement of `AuthorityLine` |
| `ReleasesSpareSuccessors` | `VaultPublicationProofs` | `Spec => SuccessorsKeepTheirGrant` |
| `RowsShowThePointer` | `VaultPublicationProofs` | `Spec => []RowsFollowPointer` |
| `TypeCorrect` | `RuntimeActivationProofs` | `Spec => []TypeOK` |
| `ServesOneGeneration` | `RuntimeActivationProofs` | `Spec => []OneGenerationServes` |
| `FreezesInactiveRuntimes` | `RuntimeActivationProofs` | `Spec => []InactiveRuntimesAreFrozen` |
| `MovesPointerQuietly` | `RuntimeActivationProofs` | `Spec => PointerMovesQuietly` |
| `WitnessesDecisions` | `RuntimeActivationProofs` | `Spec => DecisionsAreWitnessed` |
| `MarksThePointer` | `RuntimeActivationProofs` | `Spec => []ProjectionFollowsPointer` |
| `TypeCorrect` | `DataOpsRestoreProofs` | `Spec => []TypeOK` |
| `CopiesAreWhole` | `DataOpsRestoreProofs` | `Spec => []RuntimesAreWhole` |
| `DirectoriesStayRestorable` | `DataOpsRestoreProofs` | `Spec => []PointsStayRestorable` |
| `PublishesExactImports` | `DataOpsRestoreProofs` | `Spec => []ImportsAreExact` |
| `SearchKeepsMutations` | `MutationProofs` | `SearchSpec => Spec` of `SourceMutations` |
| `SearchTypeCorrect` | `MutationProofs` | `SearchSpec => []SearchTypeOK` |
| `HiddenStaysHidden` | `MutationProofs` | `SearchSpec => []HiddenIsNeverShown` |
| `CachesAreExact` | `MutationProofs` | `SearchSpec => []CachedForEpochIsExact` |
| `RefusalsHaveACause` | `MutationProofs` | `SearchSpec => []RefusedForACause` |
| `ChecksCurrentEvidence` | `MutationProofs` | `SearchSpec => CheckedEvidenceIsCurrent` |
| `SnapshotKeepsMutations` | `MutationProofs` | `SnapshotSpec => Spec` of `SourceMutations` |
| `SnapshotTypeCorrect` | `MutationProofs` | `SnapshotSpec => []SnapshotTypeOK` |
| `CutsAreCoherent` | `MutationProofs` | `SnapshotSpec => []EligibleIsCoherent` |
| `WorkspacesAreKept` | `MutationProofs` | `SnapshotSpec => []OwnersWorkspaceIsKept` |
| `TypeCorrect` | `VaultRestoreProofs` | `Spec => []TypeOK` |
| `ReadyIsComplete` | `VaultRestoreProofs` | `Spec => []ReadyRuntimesAreComplete` |
| `DirectoriesHaveOwners` | `VaultRestoreProofs` | `Spec => []DirectoriesAreOwned` |
| `FailuresLeaveNothingReady` | `VaultRestoreProofs` | `Spec => []FailedRestoresAreNotReady` |

Assumptions are the named `ASSUME`s of the modules: bounds are natural numbers,
operations and jobs are numbers (jobs not zero), the set of threads is finite (the counter of open scopes
is compared with a cardinality) and has the search processes among it, every
holder has a job (in `VaultSnapshot` all the same one), the two runtimes of the
start are different ones, the service is one of the workers and `Operated` are
documents, and `None`, `NoGen`, `NoJob` and `NoIdentity` name nothing that exists. TLC evaluates them in the runs. Every inductive
invariant below was checked by TLC on the constants of the component's run before
it was proved.

**Worker.** `OneOwner` is not inductive: a reconciler passes the test if the
row's token is the one it remembers, so two of them pass only if they remember
the same token. The inductive invariant adds `TokensUnique` (every remembered
token was issued, and no two claims, in one batch or in two, remember the same
one) and `BatchInv` (a reconciler that executes has a claim to execute). It
survives the unconditional first save, because that save writes a token which the
saver alone remembers: the bug of section 5 breaks freshness, not exclusion.
`PublishedOnlyByOwner` follows, since `CommitSuccess` tests the row in the
transaction that writes the receipt.

**Retry budget.** `AttemptsWithinBudget` is a count, and the count is not a
property of the row alone: every reconciler that still remembers a claim counted
within `MaxRetries` may send the row back to the queue and rewind its counter,
whoever owns it by then. `BudgetInv` therefore counts, for each operation, its
*chances*: the tokens of such claims, and one more while the row waits within
its retries. Chances beyond the first, attempts beyond the retries, and claims
that will start beyond them, were each paid for by a takeover of their own. A
claim turns the waiting row into a token, a retry turns a token into the waiting
row, and only a takeover adds a claim without removing a chance. That tokens are
unique (from the first part) is what makes the count of tokens a count of claims.

**Barrier.** `ActiveBarrierCoversWrites` needs what the counter means:
`CountInv` (open scopes plus leaked ones, and what was lost leaked a scope),
`WritesInv` (every write is journaled, lost, or inside a scope that is marked
changed) and `BarrierInv` (an active barrier has no counted scope). An active
barrier then means no scope and no loss, so everything is journaled.
`FrozenUnderProof` adds `HeldInv`: while a holder that acts alone for its job
holds an active barrier of that job, nothing was written since it acquired it;
that part needs the first invariant, because only a scope that is counted could
write.

**Vault jobs.** A claim may be taken from a worker that lives on: `claim_job`
accepts a row that is claimed already, and recovery and requeue revoke behind the
holder's back. That epochs are fencing all the same rests on `EpochInv` (no claim
that is remembered is ahead of its row's epoch), `PlaceInv` (a process holds no
token before it claims, so that finding another candidate carries none along) and
on rows that only grow. `RetryInv` (an honoured request has read a version that is
over) makes the second of two requests with one version fail its comparison.
`HeldInv` (the token of a held row is the one of the latest claim, and a revoked
row is not held) turns the ownership test into what `SettledByLatestClaim` says.
The actions are grouped by what they write (`ReadsOnly`, `WritesRow`,
`TouchesRow`, `ClaimJob`, `ReadForRetry`, `RequeueJob`), one lemma per group.

**Recovery publication.** The swap compares only the pointer's ETag, so that the
line is kept depends on what the worker holds by then. The inductive invariant
`IInv` says that what a worker made carries its own operation and digest
(`WholeInv`, `NamedInv`), that what it is about to publish descends from the
pointer it saw (`DescendsInv`), and that past the two immutable puts the manifest
and the point are there and are exactly what it made (`PresentInv`), which stays
so because both are written once. With `LatestIsRestorable` each step of the
specification is a step of `RecoveryLine` or stutters: a put is the only step that
adds a point, a swap the only one that moves the pointer. `SuccessReachable` says
more than where the pointer is now: an operation succeeded on a line that others
have made longer since. The lineage is stated as the least set closed under
parents, not by recursion, so that the proof is one about sets: what a swap adds
at the head keeps every such set, and an operation about to succeed is in all of
them from the moment it saw the pointer on its own point.

**Vault publication.** The promotion compares the pointer's ETag and nothing of
its grant, so that the line could be led by a worker whose grant lapsed long ago.
It stays a line because `GrantInv` gives each epoch to one worker and none beyond
the writer record, and `RunInv` says that at every place up to the conditional put
the attempt's epoch was not yet used for a pointer and the pointer it saw is not
later than its grant; what it names by digest is a stored manifest (`DigestInv`
says the same of rows and inventories), and manifests are immutable. The put
then advances `AuthorityLine`; every other step stutters.
`SuccessorsKeepTheirGrant` needs only that an expiry was read under the grant that
it ends. `RowsInv` is `RowsFollowPointer` with the one promotion between pointer
and rows taken out.

**Activation.** The proof has three parts, inductive together. `IntentInv`,
`WebInv`, `AckInv` and `AnswerInv` hold in every behaviour: they tie the web supervisor's place to its
lock, its pointer, its child and what its acknowledgement says, and what the job
worker's supervisor is about to say to what it heard. `HeldInv` and `ReliedInv`
hold only if that supervisor was never restarted, and carry its share:
it is held by every open intent it answered, its child is stopped or at the
pointer as it said, and at each place from which the pointer moves or a file is
thawed the web supervisor relies on an answer that is still true. They are what
`MntNeverDied` in the properties stands for. The third part is `RowsInv` (one
row is open, the last; what can still be read without a result is open), from
which follows that the supervisor works on one intent at a time: while an intent's
lock has no content, and after the pointer was switched back, it is this and not
the lock that keeps other intents away. `MarksThePointer` reads it together with
`MarksInv` (under an open intent the database marks the pointer or the intent's
base and never its target). The property had to be corrected for this proof: it
used to ask for a marked generation whenever none was marked `unknown`, which is
too much. Requests that were checked long ago may turn both `unknown` generations
of a failed rollback to `pending` and then fail to write their files; no row is
open then, none is unknown and none is active. That takes four intents, more than
the run has.

**DataOps restore.** A retry judges a directory by what is in it, and whoever
lost the lease goes on in it. `PlacesInv` says what each place of the code knows
of the directory; `AloneInv` that one attempt rehearses a directory, because the
trial directory can be made once, and one prepares it unless `crowded`; `SpacesInv`
that an altered directory was rehearsed and belongs to a partial point, and that a
prepared one stays prepared. With these the three properties are inductive
together: what is copied has its receipt and, where the point needs one, its
preparation, and nobody else is preparing it then.

**Search.** `SearchCorpus` extends `SourceMutations`, and its steps are steps of it
or leave it alone (`SearchKeepsMutations`), so the invariant of the barrier is
available. What carries the search is that within one epoch the state can only
cease to be *clean* (an open scope that changed something, or a lost one):
`CacheInv` and `RequestInv` say that whatever was read under an identity is current as
long as that identity can be the valid one, hidden documents of `outside`
excepted. `ScopeInv` (a process is in a scope exactly while it promotes an index)
and `OpenedInv` (epochs do not outrun the scopes) bound what others can do to it.
`HiddenIsNeverShown` needs no identity at all: each path compares what it shows
with the rows after the request began.

**Vault restore.** Nothing in the code gives a directory to an attempt, so the
proof shows what does. `ChainInv`: unless one attempt removed what another was
building, one attempt at a time is between the check of the two names and the
rename, nothing else lies on disk meanwhile, and the directory has every deed its
stage relies on; a runtime that got its name is therefore complete. It needs
`AtInv`: only an attempt that passed the check has `incomplete` assigned, so a
handler of an earlier error removes nothing. `OwnInv` says the same of what lies
on disk as `DirectoriesAreOwned`, but with the handler that got to name the
directory: that form is inductive, and the property follows. `ReadyInv` follows
a ready row to its job: the job ended well, or the attempt is about to end it and
still owns it, or it was cut off after its last heartbeat, which `AtInv` says of
every attempt past it. `UniqueInv` (a job has one row that did not fail, at most)
is why the choice of the newest row is no choice. The attempt brought two
strengthenings: a runtime has its row, and a failed job no ready row, also where
attempts raided each other.

**Intake.** `CompletedJobsAreComplete` speaks of a job at its end; the invariant
`OnceInv` follows it on the way. For a job that no two workers had in hand and no
recovery tore, `Progress` says at every place of `run_job` that the items not done
are still before the worker and that a failure is remembered, and a queued job
that nobody has in hand has no running item. Another worker disturbs none of
this: it has another job, and an administrator makes items for new jobs only.
`FinalizedManifestIsKept` needs `RowInv` (a document that was never created, or whose
batch is open, is in no job), `BatchJobInv` (the batch's job is there) and
`SingleInv` (every other job has one document).
`PlaceInv` is what a worker at each place knows of its job and of the document in
hand, among it the lifecycle that it will restore; `SearchableKnowingly` is read
off the steps with it. The lemmas used over and over are about the operators that
queue (`Queues`, `QueueStep`, `BatchRows`) and about a job that is a worker's own,
another's or none's (`OwnJob`, `OtherJob`, `LeftJob`).

**Snapshot.** `VaultSnapshot` extends `SourceMutations` and
`SnapshotKeepsMutations` makes the invariant of the barrier available.
`ProvenCutIsFrozen` says nothing here, for all attempts act for one job. What
takes its place is `HoldInv`: as long as nobody *requested* the barrier during the
hold of an attempt (which is what `shared` records), it is not requested again,
and while it is active nothing was written since the attempt acquired it. A late
attempt may well time out over the hold or open the barrier: it stays open then,
since nobody requests it, and the second proof of ownership fails. `CopiedInv`
bounds what an attempt copied by what was written when it acquired the barrier
and now; its second proof makes the two equal, and with `ActiveBarrierCoversWrites`
and `JournalIsDense` the copy is the writes of the epochs up to the one recorded.
`KeptInv` carries that on: past its second proof, finalized, chosen or published, a
snapshot is filled no more, and later entries have later epochs. `OwnerInv` says
which workspace the owner of the job works with at each place. It holds because a
pass over a workspace begins only while the job has no owner, what a new owner
fills was never given to clean-up, and what it resumes was not either
(`GivenInv`); that no late attempt makes the resumed workspace anew is `KeptInv` again.

Only model-checked: all liveness properties (`EveryOperationSettles`,
`WritersReadmitted`, `RunningJobsSettle`, `OpenIntentsAreDecided`,
`QueuedJobsEnd`), which are beyond the prover, and the violation of section 5.

## 7. Not modelled

`PROJECT.json` lists every component with its files. In short:

* *Contents*: documents, indexes, digests and signatures are abstracted to which
  writes, captures, versions or parents they stand for. A signature always
  verifies. Ranking, embedding, extraction and rendering are data.
* *Errors of single file writes and of audit inserts*, except where a model names
  them (a poll, an object put, the intent's file). Among those left out is an error
  of the web supervisor's acknowledgement after a committed result, which would
  start a rollback. In `VaultRestore` the control database answers.
* *Parts of modelled components*: in `DataOpsWorker`, the receipt branch for
  kinds that no current view creates; in `VaultJobs`, the scheduler that queues by
  epoch and the clean-up a requeue stages (which `VaultSnapshot` has); in
  `RuntimeActivation`, the activation of the very first generation, replays of a
  request by idempotency key, and the projection of a result into the DataOps
  tables; in `DataOpsRestore`, a preparation child that outlives its parent, the
  conflict checks of a repeated candidate row and the noop route; in
  `VaultPublication`, several promotion jobs of one generation; in
  `MaintenanceJobs`, validation and candidate jobs, and an operator's cancellation
  or retry of a local job (`_local_job_action` in `vaultops/views.py`, with the
  checks of `cancel_requested` in `run_job`); in `VaultSnapshot`, a late attempt
  whose copy makes a directory again that clean-up has removed.
* *Code that nothing reaches*: `core/lease.py` (a status view and tests read it),
  `backup_policy.queue_backup_if_needed`, the receipt executors of the previous
  DataOps version, `execute_gc_plan`, which always raises.
* *Sequential code of one process*: planning, discovery, legacy import, startup
  restore, the lock-file activation it uses, migrations, clean-up commands,
  evidence services, configuration, presentation, analytics, scripts and
  deployment files. They are the bulk of the repository by lines (views, read
  models, presentation, tests, operation scripts), which is why the share of
  lines that the models stand for is small.

`docs/VAULT_ACTIVE_SYNC.md` calls the vault design historical and DataOps v3 the
supported path; both are in the tree and run, and both are modelled.

## 8. Plan

Done: the modules of section 2 and the proofs of section 6. Left, in order:

1. An abstract specification for the cutover: *one serving generation that
   changes while nothing runs*, implemented by `RuntimeActivation`.
2. `VaultJobs` with two jobs and the scheduler, and the initial activation.
3. The startup restore with its lock-file activation, should it stay in use.

The number of runs is kept to one per question; a later module that needs a run
shares an instance with a module it composes.
