------------------------ MODULE RecoveryPublication ------------------------
(***************************************************************************)
(* Executing a backup: from a two-scan snapshot of the sources to a        *)
(* recovery point and the pointer to the latest one                        *)
(* (flowdocs/dataops/v3_executor.py, v3_backup.py, v3_storage.py and       *)
(* flowdocs/core/recovery_snapshot.py).                                    *)
(*                                                                         *)
(* A worker captures the snapshot directory of the operation, or resumes   *)
(* the one an earlier attempt left, observes the latest pointer, puts the  *)
(* manifest and the recovery point as immutable objects, swaps the pointer *)
(* on condition that it is still the observed one, records the point in    *)
(* the control database and removes the directory.  It renews its lease    *)
(* between these stages, but not inside publish_snapshot, so a worker that *)
(* lost its lease may still reach the object store, and two workers may be *)
(* inside the same operation.  DataOpsWorker details claims and leases;    *)
(* here a claim may be taken over at any time.                             *)
(*                                                                         *)
(* A manifest stands for its signed bytes.  It is the same when operation, *)
(* capture and parent are: the files and the epoch follow the capture, and *)
(* a parent's digest follows its operation, whose point never changes.     *)
(***************************************************************************)
EXTENDS Naturals

CONSTANTS
    Ops,          \* backup operations of one dataset; their recovery point ids
    Reconcilers,  \* the processes that call reconcile_receipts
    None,
    MaxRetries,   \* DATAOPS_AUTO_HEAL_MAX_RETRIES
    MaxTakeovers, \* bound: leases that expire
    MaxLost,      \* bound: pointer writes whose answer is lost
    MaxErrors     \* bound: other errors of the object store

ASSUME NoneAssumption == None \notin Ops \cup Reconcilers
ASSUME BoundsAssumption ==
    /\ MaxRetries \in Nat /\ MaxTakeovers \in Nat
    /\ MaxLost \in Nat /\ MaxErrors \in Nat

VARIABLES
    op,         \* op[o]: state, lease holder and attempt of the DataOperation
    dir,        \* dir[o]: snapshot-<id>: whether its files match its evidence
    temp,       \* temp[o]: who made .snapshot-<id>-attempt-<n>, None if absent
    content,    \* content[o]: the capture that dir[o] holds
    captures,   \* captures so far; each has its own included_epoch
    manifests, points, latest,  \* the dataset's objects and pointer
    recorded,   \* recorded[o]: manifest of the RecoveryPoint row
    at,         \* at[w]: where worker w stands, in which operation
    seen,       \* seen[w]: the pointer w observed
    made,       \* made[w]: the manifest w built
    takeovers, lost, errors  \* consumed bounds

remote == <<manifests, points, latest>>
local  == <<dir, temp, content, captures>>
bounds == <<takeovers, lost, errors>>
vars   == <<op, local, remote, recorded, at, seen, made, bounds>>

Nothing   == [op |-> None, capture |-> 0, parent |-> None]
Manifest  == [op: Ops, capture: Nat \ {0}, parent: Ops \cup {None}]
Operation == [state: {"queued", "running", "succeeded", "failed"},
              owner: Reconcilers \cup {None}, attempt: Nat]
Stages    == {"idle", "resume", "copy", "rename", "renewed", "observe", "manifest",
              "point", "pointer", "published", "record", "clean", "removing", "commit",
              "retry", "fail"}
Place     == [stage: Stages, op: Ops \cup {None}]

Goto(w, stage)  == at' = [at EXCEPT ![w] = [stage |-> stage, op |-> at[w].op]]
Leave(w)        == /\ at' = [at EXCEPT ![w] = [stage |-> "idle", op |-> None]]
                   /\ seen' = [seen EXCEPT ![w] = Nothing]
                   /\ made' = [made EXCEPT ![w] = Nothing]
Stands(w, stage, o) == at[w] = [stage |-> stage, op |-> o]

\* _renew_operation_lease and the ownership tests of the worker.
Owns(w) == op[at[w].op].state = "running" /\ op[at[w].op].owner = w

-----------------------------------------------------------------------------
Init ==
    /\ op = [o \in Ops |-> [state |-> "queued", owner |-> None, attempt |-> 0]]
    /\ dir = [o \in Ops |-> "none"] /\ temp = [o \in Ops |-> None]
    /\ content = [o \in Ops |-> 0] /\ captures = 0
    /\ manifests = {} /\ points = [o \in Ops |-> Nothing] /\ latest = Nothing
    /\ recorded = [o \in Ops |-> Nothing]
    /\ at = [w \in Reconcilers |-> [stage |-> "idle", op |-> None]]
    /\ seen = [w \in Reconcilers |-> Nothing] /\ made = [w \in Reconcilers |-> Nothing]
    /\ takeovers = 0 /\ lost = 0 /\ errors = 0

-----------------------------------------------------------------------------
(* The worker: claims, errors, commit                                      *)

\* A queued operation, or one whose lease ran out, whatever its holder does.
Claim(w, o) ==
    /\ at[w].stage = "idle"
    /\ \/ op[o].state = "queued" /\ UNCHANGED takeovers
       \/ op[o].state = "running" /\ takeovers < MaxTakeovers /\ takeovers' = takeovers + 1
    /\ op' = [op EXCEPT ![o] = [state |-> "running", owner |-> w, attempt |-> @.attempt + 1]]
    /\ at' = [at EXCEPT ![w] = [stage |-> "resume", op |-> o]]
    /\ UNCHANGED <<local, remote, recorded, seen, made, lost, errors>>

\* The process dies, or stops working on this operation for good.
Die(w) ==
    /\ at[w].stage # "idle"
    /\ Leave(w)
    /\ UNCHANGED <<op, local, remote, recorded, bounds>>

\* A retryable error queues the operation again while retries are left; a lost
\* lease drops it.
Settle(w, o) ==
    /\ at[w].op = o /\ at[w].stage \in {"retry", "fail"}
    /\ op' = IF Owns(w)
             THEN [op EXCEPT ![o] = [state |-> IF at[w].stage = "retry" /\ @.attempt <= MaxRetries
                                               THEN "queued" ELSE "failed",
                                     owner |-> None, attempt |-> @.attempt]]
             ELSE op
    /\ Leave(w)
    /\ UNCHANGED <<local, remote, recorded, bounds>>

\* The operation succeeds if it is still this worker's.
Commit(w, o) ==
    /\ Stands(w, "commit", o)
    /\ op' = IF Owns(w)
             THEN [op EXCEPT ![o] = [state |-> "succeeded", owner |-> None, attempt |-> @.attempt]]
             ELSE op
    /\ Leave(w)
    /\ UNCHANGED <<local, remote, recorded, bounds>>

-----------------------------------------------------------------------------
(* capture_consistency_snapshot                                            *)

\* An earlier directory is used if it verifies; if not, the operation fails.
ResumeSnapshot(w, o) ==
    /\ Stands(w, "resume", o)
    /\ dir[o] # "none"
    /\ Goto(w, IF dir[o] = "whole" THEN "renewed" ELSE "fail")
    /\ UNCHANGED <<op, local, remote, recorded, seen, made, bounds>>

\* Otherwise a temporary directory is made afresh, the other's removed.
BeginCapture(w, o) ==
    /\ Stands(w, "resume", o)
    /\ dir[o] = "none"
    /\ temp' = [temp EXCEPT ![o] = w]
    /\ Goto(w, "copy")
    /\ UNCHANGED <<op, dir, content, captures, remote, recorded, seen, made, bounds>>

\* A try that fails removes the temporary directory; the worker makes another
\* (its three tries share one name here), or gives up.
TryFails(w, o) ==
    \/ Goto(w, "copy") /\ temp' = [temp EXCEPT ![o] = w]
    \/ Goto(w, "retry") /\ temp' = [temp EXCEPT ![o] = None]

\* The lease is renewed after the copy.  Its loss is an error like a source
\* that changed between the scans; an unsafe source fails the operation.
CopySources(w, o) ==
    /\ Stands(w, "copy", o)
    /\ \/ Owns(w) /\ Goto(w, "rename") /\ UNCHANGED temp
       \/ TryFails(w, o)
       \/ Goto(w, "fail") /\ temp' = [temp EXCEPT ![o] = None]
    /\ UNCHANGED <<op, dir, content, captures, remote, recorded, seen, made, bounds>>

\* The evidence is written and the directory renamed, whoever's it is by now:
\* files another worker is still copying need not match this evidence.
RenameSnapshot(w, o) ==
    /\ Stands(w, "rename", o)
    /\ dir[o] = "none" /\ temp[o] # None
    /\ captures' = captures + 1
    /\ content' = [content EXCEPT ![o] = captures + 1]
    /\ \/ dir' = [dir EXCEPT ![o] = "whole"] /\ Goto(w, "renewed")
       \/ /\ temp[o] # w
          /\ dir' = [dir EXCEPT ![o] = "broken"]
          /\ Goto(w, "fail")
    /\ temp' = [temp EXCEPT ![o] = None]
    /\ UNCHANGED <<op, remote, recorded, seen, made, bounds>>

\* There is no directory to rename, or one in the way.
RenameFails(w, o) ==
    /\ Stands(w, "rename", o)
    /\ dir[o] # "none" \/ temp[o] = None
    /\ TryFails(w, o)
    /\ UNCHANGED <<op, dir, content, captures, remote, recorded, seen, made, bounds>>

-----------------------------------------------------------------------------
(* publish_snapshot                                                        *)

\* lease() before and after publication.
RenewLease(w, o) ==
    /\ \/ Stands(w, "renewed", o) /\ Goto(w, IF Owns(w) THEN "observe" ELSE "retry")
       \/ Stands(w, "published", o) /\ Goto(w, IF Owns(w) THEN "record" ELSE "retry")
    /\ UNCHANGED <<op, local, remote, recorded, seen, made, bounds>>

\* The lineage of what is about to be published: a retry of the latest point
\* keeps its parent, anything else descends from the latest point.
Built(o, capture) ==
    [op |-> o, capture |-> capture,
     parent |-> IF latest.op = o THEN latest.parent ELSE latest.op]

\* The snapshot is read, the pointer is observed, the manifest is built; a
\* retry whose manifest is not the published one is a conflict.
ObserveLatest(w, o) ==
    /\ Stands(w, "observe", o)
    /\ dir[o] = "whole"
    /\ seen' = [seen EXCEPT ![w] = latest]
    /\ made' = [made EXCEPT ![w] = Built(o, content[o])]
    /\ Goto(w, IF latest.op = o /\ latest # Built(o, content[o]) THEN "retry" ELSE "manifest")
    /\ UNCHANGED <<op, local, remote, recorded, bounds>>

\* Another worker of the operation has removed the directory.
SnapshotGone(w, o) ==
    /\ Stands(w, "observe", o) \/ Stands(w, "manifest", o)
    /\ dir[o] # "whole"
    /\ Goto(w, "retry")
    /\ UNCHANGED <<op, local, remote, recorded, seen, made, bounds>>

\* The blobs, the descriptor and the manifest, each put if absent and read back.
PutManifest(w, o) ==
    /\ Stands(w, "manifest", o)
    /\ dir[o] = "whole"
    /\ manifests' = manifests \cup {made[w]}
    /\ Goto(w, "point")
    /\ UNCHANGED <<op, local, points, latest, recorded, seen, made, bounds>>

\* Fault: whatever recovery point is there will do.
PutPointLeniently(w, o) ==
    /\ Stands(w, "point", o)
    /\ points' = [points EXCEPT ![o] = IF @ = Nothing THEN made[w] ELSE @]
    /\ Goto(w, "pointer")
    /\ UNCHANGED <<op, local, manifests, latest, recorded, seen, made, bounds>>

\* put_bytes_immutable of the recovery point: an identical one is reused, any
\* other one is an error.
PutPoint(w, o) ==
    /\ Stands(w, "point", o)
    /\ points' = [points EXCEPT ![o] = IF @ = Nothing THEN made[w] ELSE @]
    /\ Goto(w, IF points[o] \in {Nothing, made[w]} THEN "pointer" ELSE "retry")
    /\ UNCHANGED <<op, local, manifests, latest, recorded, seen, made, bounds>>

\* Fault: the pointer is put whatever it is by now.
SwapPointerBlindly(w, o) ==
    /\ Stands(w, "pointer", o)
    /\ latest' = made[w]
    /\ Goto(w, "published")
    /\ UNCHANGED <<op, local, manifests, points, recorded, seen, made, bounds>>

\* Fault: a conflict is taken for success.
SwapPointerLeniently(w, o) ==
    /\ Stands(w, "pointer", o)
    /\ latest' = IF latest = seen[w] THEN made[w] ELSE latest
    /\ Goto(w, "published")
    /\ UNCHANGED <<op, local, manifests, points, recorded, seen, made, bounds>>

\* Written only over the observed pointer (If-Match, If-None-Match), or found
\* written already.
SwapPointer(w, o) ==
    /\ Stands(w, "pointer", o)
    /\ latest' = IF latest = seen[w] THEN made[w] ELSE latest
    /\ Goto(w, IF latest = seen[w] THEN "published" ELSE "retry")
    /\ UNCHANGED <<op, local, manifests, points, recorded, seen, made, bounds>>

\* The pointer is written, and the answer or the read-back fails.
SwapUnanswered(w, o) ==
    /\ Stands(w, "pointer", o)
    /\ latest = seen[w]
    /\ lost < MaxLost /\ lost' = lost + 1
    /\ latest' = made[w]
    /\ Goto(w, "retry")
    /\ UNCHANGED <<op, local, manifests, points, recorded, seen, made, takeovers, errors>>

\* Any other error on the way, before the object in question was put.
StoreFails(w) ==
    /\ at[w].stage \in {"observe", "manifest", "point", "pointer"}
    /\ errors < MaxErrors /\ errors' = errors + 1
    /\ Goto(w, "retry")
    /\ UNCHANGED <<op, local, remote, recorded, seen, made, takeovers, lost>>

-----------------------------------------------------------------------------
(* The end of execute_backup_operation                                     *)

\* get_or_create of the RecoveryPoint row; another digest is a conflict.
RecordPoint(w, o) ==
    /\ Stands(w, "record", o)
    /\ recorded' = [recorded EXCEPT ![o] = IF @ = Nothing THEN made[w] ELSE @]
    /\ Goto(w, IF recorded[o] \in {Nothing, made[w]} THEN "clean" ELSE "fail")
    /\ UNCHANGED <<op, local, remote, seen, made, bounds>>

\* cleanup_consistency_snapshot verifies the directory and removes it, file by
\* file; its failure does not fail the operation.
BeginCleanup(w, o) ==
    /\ Stands(w, "clean", o)
    /\ dir' = [dir EXCEPT ![o] = IF @ = "whole" THEN "broken" ELSE @]
    /\ Goto(w, IF dir[o] = "whole" THEN "removing" ELSE "commit")
    /\ UNCHANGED <<op, temp, content, captures, remote, recorded, seen, made, bounds>>

EndCleanup(w, o) ==
    /\ Stands(w, "removing", o)
    /\ dir' = [dir EXCEPT ![o] = "none"]
    /\ content' = [content EXCEPT ![o] = 0]
    /\ Goto(w, "commit")
    /\ UNCHANGED <<op, temp, captures, remote, recorded, seen, made, bounds>>

-----------------------------------------------------------------------------
Work(w, o) ==
    \/ ResumeSnapshot(w, o) \/ BeginCapture(w, o) \/ CopySources(w, o)
    \/ RenameSnapshot(w, o) \/ RenameFails(w, o)
    \/ RenewLease(w, o)
    \/ ObserveLatest(w, o) \/ SnapshotGone(w, o)
    \/ PutManifest(w, o) \/ PutPoint(w, o)
    \/ SwapPointer(w, o) \/ SwapUnanswered(w, o)
    \/ RecordPoint(w, o)
    \/ BeginCleanup(w, o) \/ EndCleanup(w, o)
    \/ Commit(w, o) \/ Settle(w, o)

Next == \E w \in Reconcilers :
    \/ \E o \in Ops : Claim(w, o) \/ Work(w, o)
    \/ StoreFails(w)
    \/ Die(w)

Spec == Init /\ [][Next]_vars

-----------------------------------------------------------------------------
(* Properties *)

\* Rows, directories, objects and workers keep their types.
TypeOK ==
    /\ op \in [Ops -> Operation]
    /\ \A o \in Ops : op[o].owner # None <=> op[o].state = "running"
    /\ dir \in [Ops -> {"none", "whole", "broken"}]
    /\ temp \in [Ops -> Reconcilers \cup {None}]
    /\ content \in [Ops -> 0..captures] /\ captures \in Nat
    /\ manifests \subseteq Manifest
    /\ points \in [Ops -> Manifest \cup {Nothing}]
    /\ latest \in Manifest \cup {Nothing}
    /\ recorded \in [Ops -> Manifest \cup {Nothing}]
    /\ at \in [Reconcilers -> Place]
    /\ seen \in [Reconcilers -> Manifest \cup {Nothing}]
    /\ made \in [Reconcilers -> Manifest \cup {Nothing}]

\* However workers overlap, fail, die and come back, the dataset shows one line
\* of recovery points that never change.
Line == INSTANCE RecoveryLine
KeepsRecoveryLine == Line!Spec

\* The pointer always leads to a recovery point and a manifest that are there,
\* also while late workers and retries of the same operation publish.
LatestIsRestorable ==
    latest # Nothing => latest \in manifests /\ points[latest.op] = latest

\* What the pointer's lineage leads back to: the least set that holds the
\* operation of the latest point and, with each operation, its point's parent.
HoldsParents(S) == \A o \in S : points[o].parent \in S \cup {None}
Lineage == {o \in Ops : \A S \in SUBSET Ops :
               latest.op \in S \cup {None} /\ HoldsParents(S) => o \in S}

\* A backup that reports success is one the pointer leads back to, and the
\* control database knows it by the manifest that the dataset holds.
SuccessIsReachable ==
    \A o \in Ops : op[o].state = "succeeded" =>
        o \in Lineage /\ recorded[o] = points[o]

=============================================================================
