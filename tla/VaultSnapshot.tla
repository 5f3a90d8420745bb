--------------------------- MODULE VaultSnapshot ---------------------------
(***************************************************************************)
(* One publication job that is executed, lost and retried                  *)
(* (flowdocs/vaultops/services/snapshot.py, with the parts of sync.py,     *)
(* publication.py and jobs.py it stands on).                               *)
(*                                                                         *)
(* Attempt a is one execution of the job by a worker process.  It resumes  *)
(* a finalized snapshot of an earlier attempt or takes its own: copy the   *)
(* trees, close the mutation barrier, copy the database, reconcile the     *)
(* trees, prove that the barrier held, finalize, publish.  A heartbeat is  *)
(* refused once the job was taken away, but an attempt may pause anywhere  *)
(* for as long as its job is declared stale, requeued and run again: it is *)
(* then a late attempt, whose next steps meet those of the current one.    *)
(* The barrier knows jobs, not attempts.                                   *)
(*                                                                         *)
(* A requeue stages the workspaces of the job for clean-up, and a clean-up *)
(* pass removes them and opens the barrier a dead attempt left closed.     *)
(* An attempt that takes no more steps has crashed.  Time is abstracted:   *)
(* deadlines, the clean-up grace and heartbeat ages may elapse any time.   *)
(***************************************************************************)
EXTENDS SourceMutations

CONSTANTS
    Job,         \* the job's public id
    None,        \* no attempt, no snapshot
    TreeWrites,  \* the writes that change files besides database rows
    MaxRaises,   \* bound: exceptions inside the try block
    MaxPasses    \* bound: clean-up passes over one snapshot

ASSUME JobAssumption == Jobs = {Job}
ASSUME AttemptsAssumption == None \notin Holders
ASSUME PassesAssumption == MaxRaises \in Nat /\ MaxPasses \in Nat

\* Each execution of the job is a holder of its barrier; its name is also that
\* of its snapshot.
Attempts == Holders

VARIABLES
    job,        \* VaultJob: status, and the attempt whose token it accepts
    snap,       \* snap[a]: the SourceSnapshot row and content of attempt a
    disk,       \* disk[a]: where the workspace of that snapshot is
    step,       \* VaultJobStep of phase "snapshot"
    at,         \* at[a]: the next step of attempt a
    chosen,     \* chosen[a]: the snapshot attempt a publishes
    cleaning,   \* cleaning[s]: the path a clean-up pass is about to remove
    published,  \* snapshots whose manifest is in the Vault
    shared,     \* attempts during whose hold another one requested the barrier
    raises, passes  \* consumed bounds

records == <<job, snap, disk, step>>
notes   == <<shared, raises, passes>>
snapshotVars == <<vars, records, at, chosen, cleaning, published, notes>>

States   == {"CREATED", "COPYING", "BARRIER", "FINALIZED", "FAILED"}
Cleanups == {"NONE", "PENDING", "RECLAIMING", "COMPLETED", "FAILED", "QUARANTINED"}
Paths    == {"none", "incomplete", "final", "tombstone"}
NoRow    == [state |-> "ABSENT", included |-> 0, workspace |-> "none", path |-> "none",
             cleanup |-> "NONE", tree |-> {}, db |-> {}]
Snapshot == [state: States \cup {"ABSENT"}, included: Nat, workspace: Paths \ {"tombstone"},
             path: Paths, cleanup: Cleanups, tree: SUBSET TreeWrites,
             db: SUBSET Writes]
JobRow   == [status: {"queued", "running", "retryable", "succeeded"},
             owner: Attempts \cup {None}]
StepRow  == [status: {"PENDING", "RUNNING", "COMPLETED", "FAILED"},
             snapshot: Attempts \cup {None}]
Stages   == {"new", "begin", "workspace", "copy", "request", "poll", "beat", "prove",
             "database", "reconcile", "include", "stable", "rename", "finalize",
             "checkpoint", "release", "fail", "stage", "leave", "giveUp",
             "upload", "manifest", "complete", "done"}
\* The part of create_consistent_snapshot that its try block covers.
Guarded  == {"copy", "request", "beat", "prove", "database", "reconcile", "include",
             "stable", "rename", "finalize", "checkpoint"}

\* The sources as they are now.
DatabaseNow == 1..written
TreesNow    == TreeWrites \cap DatabaseNow

-----------------------------------------------------------------------------
SnapshotInit ==
    /\ Init
    /\ job = [status |-> "queued", owner |-> None]
    /\ snap = [a \in Attempts |-> NoRow]
    /\ disk = [a \in Attempts |-> "none"]
    /\ step = [status |-> "PENDING", snapshot |-> None]
    /\ at = [a \in Attempts |-> "new"]
    /\ chosen = [a \in Attempts |-> None]
    /\ cleaning = [a \in Attempts |-> "none"]
    /\ published = {} /\ shared = {}
    /\ raises = 0 /\ passes = [a \in Attempts |-> 0]

Goto(a, stage) == at' = [at EXCEPT ![a] = stage]
Owns(a)        == job = [status |-> "running", owner |-> a]

\* eligible_finalized_snapshot: finalized, not given to clean-up, its files in
\* place under the final name, and the one the completed step's checkpoint
\* names.
Eligible(s) ==
    /\ snap[s].state = "FINALIZED"
    /\ snap[s].cleanup = "NONE"
    /\ disk[s] = "final"
    /\ step = [status |-> "COMPLETED", snapshot |-> s]

-----------------------------------------------------------------------------
(* The job: claim, stale recovery and retry                                *)

\* claim_job and start_job; each attempt is one claim.
Claim(a) ==
    /\ at[a] = "new" /\ job.status = "queued"
    /\ job' = [status |-> "running", owner |-> a]
    /\ Goto(a, "begin")
    /\ UNCHANGED <<vars, snap, disk, step, chosen, cleaning, published, notes>>

\* recover_stale_jobs: the heartbeat expired.
RecoverStale ==
    /\ job.status = "running"
    /\ job' = [status |-> "retryable", owner |-> None]
    /\ UNCHANGED <<vars, snap, disk, step, at, chosen, cleaning, published, notes>>

\* stage_snapshot_cleanup over the snapshots in S.
Staged(S) == [s \in Attempts |->
    IF /\ s \in S
       /\ snap[s].workspace # "none"
       /\ snap[s].cleanup \notin {"PENDING", "RECLAIMING"}
    THEN [snap[s] EXCEPT !.cleanup = "PENDING",
                         !.path = IF @ = "none" THEN snap[s].workspace ELSE @]
    ELSE snap[s]]

\* The retry goes straight back to the queue, with the checkpoint or without.
Requeue ==
    /\ job.status = "retryable"
    /\ job' = [status |-> "queued", owner |-> None]
    /\ snap' = Staged({s \in Attempts : ~Eligible(s)})
    /\ UNCHANGED <<vars, disk, step, at, chosen, cleaning, published, notes>>

-----------------------------------------------------------------------------
(* create_consistent_snapshot                                              *)

Resume(a, s) ==
    /\ at[a] = "begin"
    /\ Eligible(s)
    /\ chosen' = [chosen EXCEPT ![a] = s]
    /\ Goto(a, "upload")
    /\ UNCHANGED <<vars, records, cleaning, published, notes>>

CreateRow(a) ==
    /\ at[a] = "begin"
    /\ \A s \in Attempts : ~Eligible(s)
    /\ snap' = [snap EXCEPT ![a].state = "CREATED"]
    /\ Goto(a, "workspace")
    /\ UNCHANGED <<vars, job, disk, step, chosen, cleaning, published, notes>>

\* The directory is made and recorded, and the step runs.
RecordWorkspace(a) ==
    /\ at[a] = "workspace"
    /\ disk' = [disk EXCEPT ![a] = "incomplete"]
    /\ snap' = [snap EXCEPT ![a].state = "COPYING", ![a].workspace = "incomplete"]
    /\ step' = [step EXCEPT !.status = "RUNNING"]
    /\ Goto(a, "copy")
    /\ UNCHANGED <<vars, job, chosen, cleaning, published, notes>>

\* The trees are copied while writers run; the heartbeat after them is fenced.
CopyTrees(a) ==
    /\ at[a] = "copy"
    /\ Owns(a)
    /\ snap' = [snap EXCEPT ![a].tree = TreesNow, ![a].state = "BARRIER"]
    /\ Goto(a, "request")
    /\ UNCHANGED <<vars, job, disk, step, chosen, cleaning, published, notes>>

CloseBarrier(a) ==
    /\ at[a] = "request"
    /\ RequestBarrier(a)
    /\ shared' = shared \cup {b \in Attempts : pc[b] = "holding"}
    /\ Goto(a, "poll")
    /\ UNCHANGED <<records, chosen, cleaning, published, raises, passes>>

BarrierAcquired(a) ==
    /\ at[a] = "poll"
    /\ PollDrained(a)
    /\ Goto(a, "beat")
    /\ UNCHANGED <<records, chosen, cleaning, published, notes>>

BarrierRefused(a) ==
    /\ at[a] = "poll"
    /\ PollLost(a) \/ DrainTimeout(a) \/ AbandonBarrier(a)
    /\ Goto(a, "fail")
    /\ UNCHANGED <<records, chosen, cleaning, published, notes>>

\* progress_callback under the barrier.
HeartbeatUnderBarrier(a) ==
    /\ at[a] = "beat"
    /\ Owns(a)
    /\ Goto(a, "prove")
    /\ UNCHANGED <<vars, records, chosen, cleaning, published, notes>>

\* The first assert_barrier_owner.
ProveBarrier(a) ==
    /\ at[a] = "prove"
    /\ ProvesOwnership(a)
    /\ Goto(a, "database")
    /\ UNCHANGED <<vars, records, chosen, cleaning, published, notes>>

CopyDatabase(a) ==
    /\ at[a] = "database"
    /\ snap' = [snap EXCEPT ![a].db = DatabaseNow]
    /\ Goto(a, "reconcile")
    /\ UNCHANGED <<vars, job, disk, step, chosen, cleaning, published, notes>>

ReconcileTrees(a) ==
    /\ at[a] = "reconcile"
    /\ snap' = [snap EXCEPT ![a].tree = TreesNow]
    /\ Goto(a, "include")
    /\ UNCHANGED <<vars, job, disk, step, chosen, cleaning, published, notes>>

\* The second assert_barrier_owner returns the row whose epoch is recorded.
IncludeEpoch(a) ==
    /\ at[a] = "include"
    /\ ProvesOwnership(a)
    /\ snap' = [snap EXCEPT ![a].included = epoch]
    /\ Goto(a, "stable")
    /\ UNCHANGED <<vars, job, disk, step, chosen, cleaning, published, notes>>

\* The signatures of the source files are what they were when copied.
CheckStable(a) ==
    /\ at[a] = "stable"
    /\ snap[a].tree = TreesNow
    /\ Goto(a, "rename")
    /\ UNCHANGED <<vars, records, chosen, cleaning, published, notes>>

RenameWorkspace(a) ==
    /\ at[a] = "rename"
    /\ disk[a] = "incomplete"
    /\ disk' = [disk EXCEPT ![a] = "final"]
    /\ Goto(a, "finalize")
    /\ UNCHANGED <<vars, job, snap, step, chosen, cleaning, published, notes>>

FinalizeRow(a) ==
    /\ at[a] = "finalize"
    /\ snap' = [snap EXCEPT ![a].state = "FINALIZED", ![a].workspace = "final"]
    /\ Goto(a, "checkpoint")
    /\ UNCHANGED <<vars, job, disk, step, chosen, cleaning, published, notes>>

SaveCheckpoint(a) ==
    /\ at[a] = "checkpoint"
    /\ step' = [status |-> "COMPLETED", snapshot |-> a]
    /\ Goto(a, "release")
    /\ UNCHANGED <<vars, job, snap, disk, chosen, cleaning, published, notes>>

\* The finally block of a successful call.
ReleaseHeld(a) ==
    /\ at[a] = "release"
    /\ ReleaseBarrier(a)
    /\ chosen' = [chosen EXCEPT ![a] = a]
    /\ Goto(a, "upload")
    /\ UNCHANGED <<records, cleaning, published, notes>>

-----------------------------------------------------------------------------
(* Its except and finally blocks                                           *)

\* Any statement of the try block raises: a refused heartbeat or proof, a
\* cancellation, a file that changed while it was copied, a full disk.
Raise(a) ==
    /\ at[a] \in Guarded
    /\ raises < MaxRaises
    /\ raises' = raises + 1
    /\ Goto(a, "fail")
    /\ UNCHANGED <<vars, records, chosen, cleaning, published, shared, passes>>

SaveFailure(a) ==
    /\ at[a] = "fail"
    /\ snap' = [snap EXCEPT ![a].state = "FAILED"]
    /\ step' = [status |-> "FAILED", snapshot |-> None]
    /\ Goto(a, "stage")
    /\ UNCHANGED <<vars, job, disk, chosen, cleaning, published, notes>>

\* Every snapshot of the job that is not finalized, whoever is working on it.
StageFailed(a) ==
    /\ at[a] = "stage"
    /\ snap' = Staged({s \in Attempts : snap[s].state # "FINALIZED"})
    /\ Goto(a, "leave")
    /\ UNCHANGED <<vars, job, disk, step, chosen, cleaning, published, notes>>

Leave(a) ==
    /\ at[a] = "leave"
    /\ \/ ReleaseBarrier(a)
       \/ pc[a] = "idle" /\ UNCHANGED vars
    /\ Goto(a, "giveUp")
    /\ UNCHANGED <<records, chosen, cleaning, published, notes>>

\* fail_job, or its refusal, which ends the process.
GiveUp(a) ==
    /\ at[a] = "giveUp"
    /\ job' = IF Owns(a) THEN [status |-> "retryable", owner |-> None] ELSE job
    /\ Goto(a, "done")
    /\ UNCHANGED <<vars, snap, disk, step, chosen, cleaning, published, notes>>

-----------------------------------------------------------------------------
(* publish_snapshot_candidate and complete_job                             *)

Upload(a) ==
    /\ at[a] = "upload"
    /\ Owns(a) /\ disk[chosen[a]] = "final"
    /\ Goto(a, "manifest")
    /\ UNCHANGED <<vars, records, chosen, cleaning, published, notes>>

UploadFails(a) ==
    /\ at[a] = "upload"
    /\ Goto(a, "giveUp")
    /\ UNCHANGED <<vars, records, chosen, cleaning, published, notes>>

PutManifest(a) ==
    /\ at[a] = "manifest"
    /\ published' = published \cup {chosen[a]}
    /\ Goto(a, "complete")
    /\ UNCHANGED <<vars, records, chosen, cleaning, notes>>

\* The job succeeds if it is still this attempt's.
Complete(a) ==
    /\ at[a] = "complete"
    /\ job' = IF Owns(a) THEN [status |-> "succeeded", owner |-> None] ELSE job
    /\ Goto(a, "done")
    /\ UNCHANGED <<vars, snap, disk, step, chosen, cleaning, published, notes>>

-----------------------------------------------------------------------------
(* reclaim_snapshot_cleanup_intents                                        *)

\* Fault: whether anybody works for the job is not asked.
QuiescedUnchecked == job \in JobRow

\* _cleanup_owner_is_quiesced, as far as the job goes.
Quiesced == job.status # "running" /\ job.owner = None

\* Where the row's state says that the workspace is.
Expected(s) == IF snap[s].state = "FINALIZED" THEN "final" ELSE "incomplete"

\* One transaction: open the job's barrier unless scopes are open, and mark
\* the row, or quarantine a recorded path that does not fit its state.
StartReclaim(s) ==
    /\ snap[s].cleanup \in {"PENDING", "RECLAIMING", "FAILED"}
    /\ cleaning[s] = "none"
    /\ passes[s] < MaxPasses
    /\ passes' = [passes EXCEPT ![s] = @ + 1]
    /\ Quiesced
    /\ IF barrier.owner = Job THEN ReopenBarrier(Job) ELSE UNCHANGED vars
    /\ IF snap[s].path \in {Expected(s), "tombstone"}
       THEN /\ snap' = [snap EXCEPT ![s].cleanup = "RECLAIMING", ![s].path = "tombstone"]
            /\ cleaning' = [cleaning EXCEPT ![s] = Expected(s)]
       ELSE /\ snap' = [snap EXCEPT ![s].cleanup = "QUARANTINED"]
            /\ UNCHANGED cleaning
    /\ UNCHANGED <<job, disk, step, at, chosen, published, shared, raises>>

\* The directory, if it is at the path read before, is removed.
FinishReclaim(s) ==
    /\ cleaning[s] # "none"
    /\ disk' = [disk EXCEPT ![s] = IF @ \in {cleaning[s], "tombstone"} THEN "none" ELSE @]
    /\ snap' = [snap EXCEPT ![s].cleanup = "COMPLETED", ![s].workspace = "none"]
    /\ cleaning' = [cleaning EXCEPT ![s] = "none"]
    /\ UNCHANGED <<vars, job, step, at, chosen, published, notes>>

\* A bound is exceeded, or the process dies, with the directory moved aside.
ReclaimStops(s, recorded) ==
    /\ cleaning[s] # "none"
    /\ disk' = [disk EXCEPT ![s] = IF @ = cleaning[s] THEN "tombstone" ELSE @]
    /\ snap' = IF recorded THEN [snap EXCEPT ![s].cleanup = "FAILED"] ELSE snap
    /\ cleaning' = [cleaning EXCEPT ![s] = "none"]
    /\ UNCHANGED <<vars, job, step, at, chosen, published, notes>>

-----------------------------------------------------------------------------
Attempt(a) ==
    \/ Claim(a)
    \/ \E s \in Attempts : Resume(a, s)
    \/ CreateRow(a)
    \/ RecordWorkspace(a)
    \/ CopyTrees(a)
    \/ CloseBarrier(a)
    \/ BarrierAcquired(a)
    \/ BarrierRefused(a)
    \/ HeartbeatUnderBarrier(a)
    \/ ProveBarrier(a)
    \/ CopyDatabase(a)
    \/ ReconcileTrees(a)
    \/ IncludeEpoch(a)
    \/ CheckStable(a)
    \/ RenameWorkspace(a)
    \/ FinalizeRow(a)
    \/ SaveCheckpoint(a)
    \/ ReleaseHeld(a)
    \/ Raise(a)
    \/ SaveFailure(a)
    \/ StageFailed(a)
    \/ Leave(a)
    \/ GiveUp(a)
    \/ Upload(a)
    \/ UploadFails(a)
    \/ PutManifest(a)
    \/ Complete(a)

Cleanup(s) ==
    \/ StartReclaim(s)
    \/ FinishReclaim(s)
    \/ \E recorded \in BOOLEAN : ReclaimStops(s, recorded)

SourceWrite == WriterNext /\ UNCHANGED <<records, at, chosen, cleaning, published, notes>>

SnapshotNext ==
    \/ \E a \in Attempts : Attempt(a) \/ Cleanup(a)
    \/ RecoverStale
    \/ Requeue
    \/ SourceWrite

SnapshotSpec == SnapshotInit /\ [][SnapshotNext]_snapshotVars

-----------------------------------------------------------------------------
(* Properties *)

\* The rows, the workspaces and the attempts keep their types, and the job has
\* an owner exactly while it runs.
SnapshotTypeOK ==
    /\ job \in JobRow /\ (job.owner # None <=> job.status = "running")
    /\ step \in StepRow
    /\ snap \in [Attempts -> Snapshot]
    /\ disk \in [Attempts -> Paths]
    /\ at \in [Attempts -> Stages]
    /\ chosen \in [Attempts -> Attempts \cup {None}]
    /\ cleaning \in [Attempts -> Paths \ {"tombstone"}]
    /\ published \in SUBSET Attempts /\ shared \in SUBSET Attempts
    /\ raises \in 0..MaxRaises /\ passes \in [Attempts -> 0..MaxPasses]

\* A snapshot is coherent when its trees and its database hold the writes of
\* the epochs up to the one it records, and no others.
Covered(n)  == UNION {e.writes : e \in {d \in journal : d.epoch <= n}}
Coherent(s) == /\ snap[s].db = Covered(snap[s].included)
               /\ snap[s].tree = TreeWrites \cap Covered(snap[s].included)

\* What a retry may resume from, and what reaches the Vault, is a coherent cut
\* of the sources at the epoch it claims, however many late attempts are about,
\* provided that none of them requested the barrier while the snapshot's own
\* attempt held it.
EligibleIsCoherent ==
    \A s \in Attempts \ shared : Eligible(s) \/ s \in published => Coherent(s)

\* Clean-up never takes the workspace under the attempt that owns the job,
\* neither the one it fills nor the one it resumed from, although a late
\* attempt may stage it and a pass may have started before the claim.
OwnersWorkspaceIsKept ==
    \A a \in Attempts : Owns(a) =>
        /\ at[a] \in Guarded \ {"finalize", "checkpoint"} => disk[a] = "incomplete"
        /\ at[a] \in {"upload", "manifest"} /\ chosen[a] # None => disk[chosen[a]] = "final"

=============================================================================
