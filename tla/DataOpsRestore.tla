--------------------------- MODULE DataOpsRestore ---------------------------
(***************************************************************************)
(* Executing a restore: from a recovery point to a rehearsed, prepared     *)
(* candidate and the intent that activates it                              *)
(* (flowdocs/dataops/v3_restore_executor.py, v3_restore.py, v3_import.py,  *)
(* v3_candidate.py, v3_activation.py, the command                          *)
(* prepare_dataops_candidate and flowdocs/core/rehearsal.py).              *)
(*                                                                         *)
(* All attempts of all operations that select a recovery point share one   *)
(* quarantine directory, named for the point and its digest.  It is        *)
(* fetched once, migrated in place by the rehearsal, changed in place by   *)
(* the candidate's preparation, and copied to a runtime directory that is  *)
(* also named for the point.  Receipts in the directory say how far it     *)
(* got; an attempt that finds a directory its receipts do not explain      *)
(* refuses it.  The lease is renewed before the directory is looked at,    *)
(* before an import and before the rehearsal, and never again.             *)
(*                                                                         *)
(* The bytes of a directory are a version number, which every change       *)
(* raises, and what they stand for.  DataOpsWorker details claims and      *)
(* leases; here a claim may be taken over at any time.                     *)
(***************************************************************************)
EXTENDS Naturals, FiniteSets

CONSTANTS
    Ops,          \* restore and test operations that select one recovery point
    Workers,      \* reconcilers
    None,
    MaxRetries,   \* DATAOPS_AUTO_HEAL_MAX_RETRIES
    MaxTakeovers, \* bound: leases that expire
    MaxErrors     \* bound: errors of the object store

ASSUME NoneAssumption == None \notin Ops \cup Workers \cup Nat
ASSUME BoundsAssumption == MaxRetries \in Nat /\ MaxTakeovers \in Nat /\ MaxErrors \in Nat

VARIABLES
    plan,       \* plan[o]: lifecycle_route and activation mode, fixed
    point,      \* whether the point lacks indexes and is behind the schema, fixed
    op,         \* op[o]: state, lease holder and attempt of the DataOperation
    space,      \* space[p]: the quarantine directory of the selected or imported point
    imported,   \* version of the database that the published import refers to
    candidate,  \* candidate[o]: state of the RestoreCandidate row
    incomplete, \* incomplete[o]: whether .<generation>-<candidate>.incomplete exists
    runtime,    \* runtime[p]: the runtime directory of the point's generation
    intent,     \* operations whose activation intent is scheduled
    at,         \* at[w]: where worker w stands
    crowded,    \* history: two attempts prepared a directory at once
    takeovers, errors   \* consumed bounds

fixed  == <<plan, point>>
disk   == <<space, incomplete, runtime>>
rows   == <<imported, candidate, intent>>
bounds == <<takeovers, errors>>
vars   == <<fixed, op, disk, rows, at, crowded, bounds>>

Plans  == {[route |-> "isolated_rehearsal", activate |-> FALSE]}
              \cup [route: {"same_dataset", "import_rebind"}, activate: BOOLEAN]
Places == {"selected", "imported"}
Kinds  == {"absent", "restored", "rehearsed", "altered", "prepared"}
Stages == {"idle", "begin", "look", "fetch", "import", "publish", "rehearse", "trial",
           "migrate", "receipt", "prepare", "preparing", "candidate", "project", "copy",
           "compare", "schedule", "commit", "retry", "fail"}

Space     == [kind: Kinds, version: Nat, trial: BOOLEAN, receipt: Nat \cup {None},
              prepared: BOOLEAN]
Empty     == [kind |-> "absent", version |-> 0, trial |-> FALSE, receipt |-> None,
              prepared |-> FALSE]
Operation == [state: {"queued", "running", "succeeded", "failed"},
              owner: Workers \cup {None}, attempt: Nat]
Stand     == [stage: Stages, op: Ops \cup {None}, place: Places, view: Nat]
Idle      == [stage |-> "idle", op |-> None, place |-> "selected", view |-> 0]

Here(w)             == space[at[w].place]
Stands(w, stage, o) == at[w].stage = stage /\ at[w].op = o
Goto(w, stage)      == at' = [at EXCEPT ![w].stage = stage]
Leave(w)            == at' = [at EXCEPT ![w] = Idle]

\* _renew_operation_lease and the ownership tests of the worker.
Owns(w) == op[at[w].op].state = "running" /\ op[at[w].op].owner = w

\* Fault: the database is always compared with the manifest.
AcceptsManifestOnly(s) == s.kind # "absent" /\ s.version = 0

\* _existing_workspace: the files are the manifest's, except that the database
\* is the one of the rehearsal's receipt where there is a receipt.
Accepts(s) ==
    /\ s.kind # "absent"
    /\ s.version = IF s.receipt = None THEN 0 ELSE s.receipt

\* Fault: only components declared incomplete are rebuilt, not a low ratio.
NeedsNoPreparation(o) == FALSE

\* preparation_required: the point lacks indexes, and the route leads to a candidate.
NeedsPreparation(o) == plan[o].route # "isolated_rehearsal" /\ point.partial

\* Where an attempt goes once its directory is materialized, or rehearsed.
Materialized(w) ==
    IF plan[at[w].op].route = "import_rebind" /\ at[w].place = "selected"
    THEN "import" ELSE "rehearse"
Rehearsed(o) == IF NeedsPreparation(o) THEN "prepare" ELSE "candidate"

-----------------------------------------------------------------------------
\* A point belongs to this dataset or to another one.
Init ==
    /\ plan \in [Ops -> Plans]
    /\ \A o, q \in Ops : ~(plan[o].route = "same_dataset" /\ plan[q].route = "import_rebind")
    /\ point \in [partial: BOOLEAN, behind: BOOLEAN]
    /\ op = [o \in Ops |-> [state |-> "queued", owner |-> None, attempt |-> 0]]
    /\ space = [p \in Places |-> Empty]
    /\ imported = None /\ candidate = [o \in Ops |-> "none"] /\ intent = {}
    /\ incomplete = [o \in Ops |-> FALSE]
    /\ runtime = [p \in Places |-> Empty]
    /\ at = [w \in Workers |-> Idle]
    /\ crowded = FALSE /\ takeovers = 0 /\ errors = 0

-----------------------------------------------------------------------------
(* The worker: claims, errors, commit                                      *)

\* A queued operation, or one whose lease ran out, whatever its holder does.
Claim(w, o) ==
    /\ at[w].stage = "idle"
    /\ \/ op[o].state = "queued" /\ UNCHANGED takeovers
       \/ op[o].state = "running" /\ takeovers < MaxTakeovers /\ takeovers' = takeovers + 1
    /\ op' = [op EXCEPT ![o] = [state |-> "running", owner |-> w, attempt |-> @.attempt + 1]]
    /\ at' = [at EXCEPT ![w] = [Idle EXCEPT !.stage = "begin", !.op = o]]
    /\ UNCHANGED <<fixed, disk, rows, crowded, errors>>

\* The process dies; what it left on disk stays.
Die(w) ==
    /\ at[w].stage # "idle"
    /\ Leave(w)
    /\ UNCHANGED <<fixed, op, disk, rows, crowded, bounds>>

\* A retryable error queues the operation again while retries are left; an
\* attempt that is not the owner any more drops its error.
Settle(w, o) ==
    /\ Stands(w, "retry", o) \/ Stands(w, "fail", o)
    /\ op' = IF Owns(w)
             THEN [op EXCEPT ![o].owner = None,
                             ![o].state = IF /\ at[w].stage = "retry"
                                             /\ op[o].attempt <= MaxRetries
                                          THEN "queued" ELSE "failed"]
             ELSE op
    /\ Leave(w)
    /\ UNCHANGED <<fixed, disk, rows, crowded, bounds>>

\* The receipt of the operation is published by its owner only.
Commit(w, o) ==
    /\ Stands(w, "commit", o)
    /\ op' = IF Owns(w) THEN [op EXCEPT ![o].owner = None, ![o].state = "succeeded"] ELSE op
    /\ Leave(w)
    /\ UNCHANGED <<fixed, disk, rows, crowded, bounds>>

\* lease(), outside the executor's try blocks.
Renew(w, o) ==
    /\ \/ Stands(w, "begin", o) /\ (IF Owns(w) THEN Goto(w, "look") ELSE Leave(w))
       \/ Stands(w, "import", o) /\ (IF Owns(w) THEN Goto(w, "publish") ELSE Leave(w))
       \/ Stands(w, "rehearse", o) /\ (IF Owns(w) THEN Goto(w, "trial") ELSE Leave(w))
    /\ UNCHANGED <<fixed, op, disk, rows, crowded, bounds>>

-----------------------------------------------------------------------------
(* materialize_quarantine and the import                                   *)

\* A read or a write of the object store fails; an import wraps every error,
\* those of its own materialization included, as final.
StoreFails(w, o) ==
    /\ errors < MaxErrors
    /\ Stands(w, "look", o) \/ Stands(w, "fetch", o) \/ Stands(w, "publish", o)
    /\ errors' = errors + 1
    /\ Goto(w, IF at[w].place = "selected" /\ at[w].stage # "publish" THEN "retry" ELSE "fail")
    /\ UNCHANGED <<fixed, op, disk, rows, crowded, takeovers>>

\* The point verifies; its directory is reused, refused or to be fetched.
Look(w, o) ==
    /\ Stands(w, "look", o)
    /\ Goto(w, IF Here(w).kind = "absent" THEN "fetch"
               ELSE IF Accepts(Here(w)) THEN Materialized(w) ELSE "fail")
    /\ UNCHANGED <<fixed, op, disk, rows, crowded, bounds>>

\* All blobs arrived in a temporary directory, which is renamed; a rename
\* onto a directory that is there by now fails and is final.
Install(w, o) ==
    /\ Stands(w, "fetch", o)
    /\ IF Here(w).kind = "absent"
       THEN /\ space' = [space EXCEPT ![at[w].place] = [Empty EXCEPT !.kind = "restored"]]
            /\ Goto(w, Materialized(w))
       ELSE Goto(w, "fail") /\ UNCHANGED space
    /\ UNCHANGED <<fixed, op, incomplete, runtime, rows, crowded, bounds>>

\* Fault: the files are uploaded without hashing them again.
PublishImportUnhashed(w, o) ==
    /\ Stands(w, "publish", o)
    /\ imported' = Here(w).version
    /\ at' = [at EXCEPT ![w] = [@ EXCEPT !.stage = "look", !.place = "imported"]]
    /\ UNCHANGED <<fixed, op, disk, candidate, intent, crowded, bounds>>

\* import_rebind_recovery_point and _project_imported_point: the directory's
\* files are put as blobs of the destination if they are still the manifest's.
PublishImport(w, o) ==
    /\ Stands(w, "publish", o)
    /\ IF Here(w).version = 0
       THEN /\ imported' = 0
            /\ at' = [at EXCEPT ![w] = [@ EXCEPT !.stage = "look", !.place = "imported"]]
       ELSE Goto(w, "fail") /\ UNCHANGED imported
    /\ UNCHANGED <<fixed, op, disk, candidate, intent, crowded, bounds>>

-----------------------------------------------------------------------------
(* rehearse_quarantine and rehearse_migrations                             *)

\* The receipt is reused; without it the trial directory must be new.
BeginTrial(w, o) ==
    /\ Stands(w, "trial", o)
    /\ IF Here(w).receipt # None
       THEN Goto(w, Rehearsed(o)) /\ UNCHANGED space
       ELSE IF Here(w).trial
       THEN Goto(w, "fail") /\ UNCHANGED space
       ELSE /\ space' = [space EXCEPT ![at[w].place].trial = TRUE]
            /\ Goto(w, "migrate")
    /\ UNCHANGED <<fixed, op, incomplete, runtime, rows, crowded, bounds>>

\* The migrated copy replaces the database; it differs if migrations applied.
Migrate(w, o) ==
    /\ Stands(w, "migrate", o)
    /\ LET s == Here(w) IN
       space' = [space EXCEPT ![at[w].place] =
                    [s EXCEPT !.kind = "rehearsed",
                              !.version = IF point.behind THEN s.version + 1 ELSE s.version]]
    /\ Goto(w, "receipt")
    /\ UNCHANGED <<fixed, op, incomplete, runtime, rows, crowded, bounds>>

\* A migration fails, times out or does not pass the integrity checks.
MigrationFails(w, o) ==
    /\ Stands(w, "migrate", o)
    /\ Goto(w, "fail")
    /\ UNCHANGED <<fixed, op, disk, rows, crowded, bounds>>

WriteReceipt(w, o) ==
    /\ Stands(w, "receipt", o)
    /\ LET s == Here(w) IN
       space' = [space EXCEPT ![at[w].place] = [s EXCEPT !.receipt = s.version]]
    /\ Goto(w, Rehearsed(o))
    /\ UNCHANGED <<fixed, op, incomplete, runtime, rows, crowded, bounds>>

-----------------------------------------------------------------------------
(* prepare_recovery_candidate                                              *)

Preparing(p) == {w \in Workers : at[w].stage = "preparing" /\ at[w].place = p}

\* The command refuses before it changes anything (blocked media, budget,
\* embeddings disabled): the exit status is retryable.  Components it cannot
\* rebuild are a final error.
PreparationRefused(w, o) ==
    /\ Stands(w, "prepare", o)
    /\ \E s \in {"retry", "fail"} : Goto(w, s)
    /\ UNCHANGED <<fixed, op, disk, rows, crowded, bounds>>

\* A candidate receipt is reused; otherwise indexes are moved away and jobs
\* are inserted into the database.
BeginPreparation(w, o) ==
    /\ Stands(w, "prepare", o)
    /\ IF Here(w).prepared
       THEN Goto(w, "candidate") /\ UNCHANGED <<space, crowded>>
       ELSE /\ LET s == Here(w) IN
               space' = [space EXCEPT ![at[w].place] =
                            [s EXCEPT !.kind = "altered", !.version = s.version + 1]]
            /\ crowded' = (crowded \/ Preparing(at[w].place) # {})
            /\ Goto(w, "preparing")
    /\ UNCHANGED <<fixed, op, incomplete, runtime, rows, bounds>>

\* The command succeeds and leaves its receipt.
EndPreparation(w, o) ==
    /\ Stands(w, "preparing", o)
    /\ LET s == Here(w) IN
       space' = [space EXCEPT ![at[w].place] =
                    [s EXCEPT !.version = s.version + 1, !.prepared = TRUE,
                              !.kind = IF Preparing(at[w].place) = {w}
                                       THEN "prepared" ELSE "altered"]]
    /\ Goto(w, "candidate")
    /\ UNCHANGED <<fixed, op, incomplete, runtime, rows, crowded, bounds>>

\* It fails half-way or times out: marked retryable.
PreparationFails(w, o) ==
    /\ Stands(w, "preparing", o)
    /\ Goto(w, "retry")
    /\ UNCHANGED <<fixed, op, disk, rows, crowded, bounds>>

-----------------------------------------------------------------------------
(* The candidate, its runtime and its activation                           *)

\* get_or_create of the RestoreCandidate; no lease is renewed from here on.
RecordCandidate(w, o) ==
    /\ Stands(w, "candidate", o)
    /\ candidate' = [candidate EXCEPT ![o] = IF plan[o].route = "isolated_rehearsal"
                                             THEN "verified" ELSE "ready"]
    /\ Goto(w, IF plan[o].activate THEN "project" ELSE "commit")
    /\ UNCHANGED <<fixed, op, disk, imported, intent, crowded, bounds>>

\* project_candidate_runtime: the directory is hashed, then copied unless the
\* runtime exists; an incomplete copy of this candidate is refused.
Project(w, o) ==
    /\ Stands(w, "project", o)
    /\ IF incomplete[o]
       THEN Goto(w, "fail") /\ UNCHANGED incomplete
       ELSE LET copies == runtime[at[w].place].kind = "absent" IN
            /\ at' = [at EXCEPT ![w] = [@ EXCEPT !.stage = IF copies THEN "copy" ELSE "compare",
                                                 !.view = Here(w).version]]
            /\ incomplete' = [incomplete EXCEPT ![o] = copies]
    /\ UNCHANGED <<fixed, op, space, runtime, rows, crowded, bounds>>

\* The copy is what was hashed: frozen and renamed.
CopyRuntime(w, o) ==
    /\ Stands(w, "copy", o)
    /\ Here(w).version = at[w].view
    /\ runtime[at[w].place].kind = "absent"
    /\ runtime' = [runtime EXCEPT ![at[w].place] = Here(w)]
    /\ incomplete' = [incomplete EXCEPT ![o] = FALSE]
    /\ Goto(w, "compare")
    /\ UNCHANGED <<fixed, op, space, rows, crowded, bounds>>

\* The directory changed, the runtime appeared or a file operation failed: the
\* copy is removed.
CopyFails(w, o) ==
    /\ Stands(w, "copy", o)
    /\ incomplete' = [incomplete EXCEPT ![o] = FALSE]
    /\ Goto(w, "fail")
    /\ UNCHANGED <<fixed, op, space, runtime, rows, crowded, bounds>>

\* The runtime must be what was hashed; the generation and workspace rows follow.
CompareRuntime(w, o) ==
    /\ Stands(w, "compare", o)
    /\ Goto(w, IF runtime[at[w].place].version = at[w].view THEN "schedule" ELSE "fail")
    /\ UNCHANGED <<fixed, op, disk, rows, crowded, bounds>>

\* schedule_activation: replayed by the operation's key, or refused (another
\* intent is open, the generation is active).
Schedule(w, o) ==
    /\ Stands(w, "schedule", o)
    /\ \/ intent' = intent \cup {o} /\ Goto(w, "commit")
       \/ o \notin intent /\ UNCHANGED intent /\ Goto(w, "fail")
    /\ UNCHANGED <<fixed, op, disk, imported, candidate, crowded, bounds>>

-----------------------------------------------------------------------------
WorkerNext(w, o) ==
    \/ Claim(w, o) \/ Settle(w, o) \/ Commit(w, o)
    \/ Renew(w, o) \/ StoreFails(w, o)
    \/ Look(w, o) \/ Install(w, o) \/ PublishImport(w, o)
    \/ BeginTrial(w, o) \/ Migrate(w, o) \/ MigrationFails(w, o) \/ WriteReceipt(w, o)
    \/ PreparationRefused(w, o) \/ BeginPreparation(w, o)
    \/ EndPreparation(w, o) \/ PreparationFails(w, o)
    \/ RecordCandidate(w, o)
    \/ Project(w, o) \/ CopyRuntime(w, o) \/ CopyFails(w, o) \/ CompareRuntime(w, o)
    \/ Schedule(w, o)

Next == \E w \in Workers : Die(w) \/ \E o \in Ops : WorkerNext(w, o)

Spec == Init /\ [][Next]_vars

-----------------------------------------------------------------------------
(* Properties *)

\* Plans, directories, rows and positions keep their types.
TypeOK ==
    /\ plan \in [Ops -> Plans] /\ point \in [partial: BOOLEAN, behind: BOOLEAN]
    /\ op \in [Ops -> Operation]
    /\ space \in [Places -> Space] /\ runtime \in [Places -> Space]
    /\ imported \in Nat \cup {None}
    /\ candidate \in [Ops -> {"none", "verified", "ready"}]
    /\ incomplete \in [Ops -> BOOLEAN] /\ intent \subseteq Ops
    /\ at \in [Workers -> Stand]
    /\ crowded \in BOOLEAN
    /\ takeovers \in 0..MaxTakeovers /\ errors \in 0..MaxErrors

\* A runtime that an intent may target is one whole state of the directory:
\* rehearsed, and prepared where the point needs it, however attempts die, lose
\* their lease and go on beside their successors; unless two attempts were
\* preparing the directory at once.
RuntimesAreWhole ==
    \A p \in Places :
        runtime[p].kind # "absent" /\ ~crowded =>
            runtime[p].kind = IF point.partial THEN "prepared" ELSE "rehearsed"

\* A directory stays usable for every later attempt and operation on its point:
\* only a rehearsal that did not reach its receipt, or a preparation, makes it
\* one that is refused for ever.
PointsStayRestorable ==
    \A p \in Places :
        \/ space[p].kind = "absent"
        \/ Accepts(space[p])
        \/ space[p].trial /\ space[p].receipt = None
        \/ space[p].kind \in {"altered", "prepared"}

\* What an import publishes under the new dataset is the selected point, byte
\* for byte, although a test of the same point migrates the same directory.
ImportsAreExact == imported \in {None, 0}

=============================================================================
