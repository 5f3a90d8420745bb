---------------------------- MODULE VaultRestore ----------------------------
(***************************************************************************)
(* Preparing a runtime from a vault generation                             *)
(* (flowdocs/vaultops/services/restore.py and the workspace part of        *)
(* flowdocs/vaultops/services/lifecycle.py).                               *)
(*                                                                         *)
(* A restore job verifies a generation, downloads it to the quarantine of  *)
(* a workspace row, copies the quarantine to an incomplete runtime,        *)
(* sanitizes and rehearses the copy and renames it.  The row belongs to    *)
(* one job and is taken up again by its next attempt unless it failed; the *)
(* incomplete runtime and the runtime are named for the generation, and so *)
(* are shared by all attempts of all jobs that restore it.  VaultJobs      *)
(* details claims and fencing: here a job may be taken from its worker at  *)
(* any time, and the worker goes on until something refuses it.            *)
(*                                                                         *)
(* A directory is the set of things that were done to it.                  *)
(***************************************************************************)
EXTENDS Naturals, Sequences

CONSTANTS
    Jobs,       \* restore jobs of one generation
    Workers,    \* maintenance worker processes
    None,
    MaxRetries, \* bound: requeues by operators
    MaxFaults   \* bound: process deaths, jobs taken from a live worker, errors
                \* of the store, the disk or the data, cancellation requests

ASSUME BoundsAssumption == MaxRetries \in Nat /\ MaxFaults \in Nat

VARIABLES
    derived,    \* the data is production-derived and must be sanitized, fixed
    job,        \* job[j]: status and owner of the VaultJob
    ws,         \* the RestoreWorkspace rows, in order of creation
    incomplete, \* .<generation>-<digest>.incomplete, None if absent
    runtime,    \* <generation>-<digest>, None if absent
    at,         \* at[w]: where worker w stands
    raided,     \* history: an attempt removed what another one was building
    cut,        \* history: where attempts died or lost their job
    retries, faults   \* consumed bounds

bounds == <<retries, faults>>
dirs   == <<incomplete, runtime>>
vars   == <<derived, job, ws, dirs, at, raided, cut, bounds>>

Statuses == {"queued", "running", "cancelling", "retryable_failed", "terminal_failed",
             "cancelled", "succeeded"}
States == {"planned", "downloading", "download_paused", "downloaded", "validating",
           "sanitizing", "migration_rehearsal", "activation_ready", "failed"}
Deeds  == {"copied", "sanitized", "rehearsed", "sealed"}
Errors == {"none", "read", "retryable", "final"}

ASSUME NoneAssumption == None \notin Workers \cup Jobs /\ \A dir \in SUBSET Deeds : dir # None

\* WORKSPACE_TRANSITIONS; nothing in the code asks for EXPIRED or ABSENT.
Transitions(s) ==
    CASE s = "planned"             -> {"downloading", "failed"}
      [] s = "downloading"         -> {"download_paused", "downloaded", "failed"}
      [] s = "download_paused"     -> {"downloading"}
      [] s = "downloaded"          -> {"validating", "failed"}
      [] s = "validating"          -> {"sanitizing", "migration_rehearsal",
                                       "activation_ready", "failed"}
      [] s = "sanitizing"          -> {"migration_rehearsal", "activation_ready", "failed"}
      [] s = "migration_rehearsal" -> {"activation_ready", "failed"}
      [] OTHER                     -> {}

Allowed(from, to) == from = to \/ to \in Transitions(from)

\* The state that a stage of the attempt asks transition_workspace for.
Asks == [start |-> "downloading", mark |-> "downloaded", enter |-> "validating",
         scrub |-> "sanitizing", rehearse |-> "migration_rehearsal",
         finish |-> "activation_ready"]

\* Fault: the workspace is ready before the runtime has its name.
AfterReadyEarly(stage) ==
    CASE stage = "start" -> "download"  [] stage = "mark"  -> "enter"
      [] stage = "enter" -> "check"     [] stage = "copy"  -> IF derived THEN "scrub" ELSE "rehearse"
      [] stage = "scrub" -> "sanitize"  [] stage = "sanitize" -> "rehearse"
      [] stage = "rehearse" -> "migrate" [] stage = "migrate" -> "seal"
      [] stage = "seal"  -> "finish"    [] stage = "finish" -> "rename"
      [] stage = "rename" -> "record"   [] stage = "record" -> "complete"
      [] OTHER -> "mark"

\* The order of the stages of run_restore_job.
After(stage) ==
    CASE stage = "start" -> "download"  [] stage = "mark"  -> "enter"
      [] stage = "enter" -> "check"     [] stage = "copy"  -> IF derived THEN "scrub" ELSE "rehearse"
      [] stage = "scrub" -> "sanitize"  [] stage = "sanitize" -> "rehearse"
      [] stage = "rehearse" -> "migrate" [] stage = "migrate" -> "seal"
      [] stage = "seal"  -> "rename"    [] stage = "rename" -> "record"
      [] stage = "record" -> "finish"   [] stage = "finish" -> "complete"
      [] OTHER -> "mark"

\* The stages after `incomplete` is assigned, whose errors remove it.
Building == {"copy", "scrub", "sanitize", "rehearse", "migrate", "seal", "rename",
             "record", "finish"}

Stages == {"idle", "verify", "start", "download", "mark", "enter", "check", "complete",
           "handle", "failing", "unwind", "stopped"} \cup Building

Idle == [stage |-> "idle", job |-> None, ws |-> 0, state |-> "planned", error |-> "none",
         assigned |-> FALSE]
Owns(w)  == job[at[w].job].owner = w /\ job[at[w].job].status \in {"running", "cancelling"}
Leave(w) == at' = [at EXCEPT ![w] = Idle]
Step(w)  == at' = [at EXCEPT ![w].stage = After(at[w].stage)]

\* An exception inside the try block of run_restore_job.
Raise(w, e) == at' = [at EXCEPT ![w] = [@ EXCEPT !.stage = "handle", !.error = e]]

-----------------------------------------------------------------------------
Init ==
    /\ derived \in BOOLEAN
    /\ job = [j \in Jobs |-> [status |-> "queued", owner |-> None]]
    /\ ws = <<>>
    /\ incomplete = None /\ runtime = None
    /\ at = [w \in Workers |-> Idle]
    /\ raided = FALSE /\ cut = {}
    /\ retries = 0 /\ faults = 0

-----------------------------------------------------------------------------
(* Claims, cancellation, loss of a job, retries                            *)

Claim(w, j) ==
    /\ at[w].stage = "idle" /\ job[j].status = "queued"
    /\ job' = [job EXCEPT ![j] = [status |-> "running", owner |-> w]]
    /\ at' = [at EXCEPT ![w] = [Idle EXCEPT !.stage = "verify", !.job = j]]
    /\ UNCHANGED <<derived, ws, dirs, raided, cut, bounds>>

RequestCancellation(j) ==
    /\ faults < MaxFaults /\ job[j].status = "running"
    /\ faults' = faults + 1
    /\ job' = [job EXCEPT ![j].status = "cancelling"]
    /\ UNCHANGED <<derived, ws, dirs, at, raided, cut, retries>>

\* A worker that starts takes the job of a dead or silent one.
LoseJob(j) ==
    /\ job[j].status = "running"
    /\ IF at[job[j].owner].job = j
       THEN /\ faults < MaxFaults /\ faults' = faults + 1
            /\ cut' = cut \cup {at[job[j].owner].stage}
       ELSE UNCHANGED <<faults, cut>>
    /\ job' = [job EXCEPT ![j] = [status |-> "retryable_failed", owner |-> None]]
    /\ UNCHANGED <<derived, ws, dirs, at, raided, retries>>

Requeue(j) ==
    /\ retries < MaxRetries /\ job[j].status = "retryable_failed"
    /\ retries' = retries + 1
    /\ job' = [job EXCEPT ![j].status = "queued"]
    /\ UNCHANGED <<derived, ws, dirs, at, raided, cut, faults>>

Die(w) ==
    /\ faults < MaxFaults /\ at[w].stage # "idle"
    /\ faults' = faults + 1
    /\ cut' = cut \cup {at[w].stage}
    /\ Leave(w)
    /\ UNCHANGED <<derived, job, ws, dirs, raided, retries>>

\* execute_claimed_job: a late attempt is refused; a cancelled job ends as such.
Settle(w) ==
    /\ at[w].stage \in {"complete", "stopped", "unwind"}
    /\ LET status == IF job[at[w].job].status = "cancelling" THEN "cancelled"
                     ELSE IF at[w].stage = "complete" THEN "succeeded"
                     ELSE IF at[w].error = "final" THEN "terminal_failed" ELSE "retryable_failed"
       IN job' = IF Owns(w)
                 THEN [job EXCEPT ![at[w].job] = [status |-> status, owner |-> None]] ELSE job
    /\ Leave(w)
    /\ UNCHANGED <<derived, ws, dirs, raided, cut, bounds>>

-----------------------------------------------------------------------------
(* run_restore_job                                                         *)

\* The generation does not verify, or the store fails: no workspace is touched.
VerifyFails(w) ==
    /\ at[w].stage = "verify" /\ faults < MaxFaults
    /\ faults' = faults + 1
    /\ \E e \in {"retryable", "final"} :
          at' = [at EXCEPT ![w] = [@ EXCEPT !.stage = "unwind", !.error = e]]
    /\ UNCHANGED <<derived, job, ws, dirs, raided, cut, retries>>

Usable(j) == {i \in DOMAIN ws : ws[i].job = j /\ ws[i].state # "failed"}

\* _workspace_for: the newest row of the job that did not fail, or a new one.
\* Only a planned or paused download is started.
TakeWorkspace(w) ==
    LET j   == at[w].job
        new == Usable(j) = {}
        i   == IF new THEN Len(ws) + 1 ELSE CHOOSE k \in Usable(j) : \A l \in Usable(j) : l <= k
        s   == IF new THEN "planned" ELSE ws[i].state IN
    /\ at[w].stage = "verify"
    /\ ws' = IF new THEN Append(ws, [job |-> j, state |-> "planned", path |-> FALSE]) ELSE ws
    /\ at' = [at EXCEPT ![w] = [@ EXCEPT !.ws = i, !.state = s,
                  !.stage = IF s \in {"planned", "download_paused"} THEN "start" ELSE "download"]]
    /\ UNCHANGED <<derived, job, dirs, raided, cut, bounds>>

\* transition_workspace; a refused transition is a retryable conflict.
Transit(w) ==
    /\ at[w].stage \in DOMAIN Asks
    /\ LET i == at[w].ws
           s == Asks[at[w].stage] IN
       IF Allowed(ws[i].state, s)
       THEN /\ ws' = [ws EXCEPT ![i].state = s]
            /\ at' = [at EXCEPT ![w] = [@ EXCEPT !.stage = After(at[w].stage), !.state = s]]
       ELSE Raise(w, "retryable") /\ UNCHANGED ws
    /\ UNCHANGED <<derived, job, dirs, raided, cut, bounds>>

\* The objects arrive, or are found in the quarantine; each is a heartbeat.
Download(w) ==
    /\ at[w].stage = "download"
    /\ IF Owns(w) THEN Step(w) ELSE Raise(w, "retryable")
    /\ UNCHANGED <<derived, job, ws, dirs, raided, cut, bounds>>

\* The check before an object sees a cancellation: the workspace is paused.
DownloadCancelled(w) ==
    LET i == at[w].ws IN
    /\ at[w].stage = "download" /\ job[at[w].job].status = "cancelling"
    /\ IF Allowed(ws[i].state, "download_paused")
       THEN /\ ws' = [ws EXCEPT ![i].state = "download_paused"]
            /\ at' = [at EXCEPT ![w].stage = "stopped"]
       ELSE Raise(w, "retryable") /\ UNCHANGED ws
    /\ UNCHANGED <<derived, job, dirs, raided, cut, bounds>>

\* Fault: what a dead attempt left is taken for finished.
CheckRuntimeReusing(w) ==
    /\ at[w].stage = "check"
    /\ IF runtime # None
       THEN /\ at' = [at EXCEPT ![w] = [@ EXCEPT !.stage = "handle", !.error = "final",
                                                 !.assigned = TRUE]]
            /\ UNCHANGED incomplete
       ELSE /\ at' = [at EXCEPT ![w] = [@ EXCEPT !.assigned = TRUE,
                  !.stage = IF incomplete = None THEN "copy" ELSE "seal"]]
            /\ incomplete' = IF incomplete = None THEN {} ELSE incomplete
    /\ UNCHANGED <<derived, job, ws, runtime, raided, cut, bounds>>

\* The download is valid; a runtime or an incomplete one of this name is refused.
CheckRuntime(w) ==
    LET taken == runtime # None \/ incomplete # None IN
    /\ at[w].stage = "check"
    /\ at' = [at EXCEPT ![w] = [@ EXCEPT !.assigned = TRUE,
                 !.stage = IF taken THEN "handle" ELSE "copy",
                 !.error = IF taken THEN "final" ELSE "none"]]
    /\ incomplete' = IF taken THEN incomplete ELSE {}
    /\ UNCHANGED <<derived, job, ws, runtime, raided, cut, bounds>>

\* The copy, the sanitized database or the rehearsed one, each of which needs
\* what came before; a directory that another attempt removed is an error.
Work(w, stage, deed, needs) ==
    /\ at[w].stage = stage
    /\ IF incomplete # None /\ needs \subseteq incomplete
       THEN incomplete' = incomplete \cup {deed} /\ Step(w)
       ELSE /\ Raise(w, IF stage = "migrate" THEN "final" ELSE "retryable")
            /\ UNCHANGED incomplete
    /\ UNCHANGED <<derived, job, ws, runtime, raided, cut, bounds>>

\* Missing directories are made, parents included; evidence; read-only modes.
Seal(w) ==
    /\ at[w].stage = "seal"
    /\ incomplete' = (IF incomplete = None THEN {} ELSE incomplete) \cup {"sealed"}
    /\ Step(w)
    /\ UNCHANGED <<derived, job, ws, runtime, raided, cut, bounds>>

\* os.replace, which refuses a target that is not empty.
Rename(w) ==
    /\ at[w].stage = "rename"
    /\ IF incomplete # None /\ runtime = None
       THEN runtime' = incomplete /\ incomplete' = None /\ Step(w)
       ELSE Raise(w, "retryable") /\ UNCHANGED dirs
    /\ UNCHANGED <<derived, job, ws, raided, cut, bounds>>

RecordPath(w) ==
    /\ at[w].stage = "record"
    /\ ws' = [ws EXCEPT ![at[w].ws].path = TRUE]
    /\ Step(w)
    /\ UNCHANGED <<derived, job, dirs, raided, cut, bounds>>

\* An object cannot be read, the disk or the data is at fault; the control
\* database answers.
Fails(w) ==
    /\ faults < MaxFaults
    /\ at[w].stage \in {"download", "check", "copy", "sanitize", "migrate", "seal", "rename"}
    /\ faults' = faults + 1
    /\ IF at[w].stage = "download" THEN Raise(w, "read")
       ELSE \E e \in {"retryable", "final"} : Raise(w, e)
    /\ UNCHANGED <<derived, job, ws, dirs, raided, cut, retries>>

\* Fault: the incomplete runtime is kept for inspection.
HandleKeeping(w) ==
    /\ at[w].stage = "handle"
    /\ at' = [at EXCEPT ![w].stage = "failing"]
    /\ UNCHANGED <<derived, job, ws, dirs, raided, cut, bounds>>

\* The handler: a failed read pauses the download; anything else removes the
\* incomplete runtime if this attempt got to name it, whoever made it.  A
\* sealed one is read-only and may survive the removal.
Handle(w) ==
    /\ at[w].stage = "handle"
    /\ IF at[w].error = "read" /\ at[w].state = "downloading"
       THEN /\ ws' = IF Allowed(ws[at[w].ws].state, "download_paused")
                     THEN [ws EXCEPT ![at[w].ws].state = "download_paused"] ELSE ws
            /\ at' = [at EXCEPT ![w].stage = "unwind"]
            /\ UNCHANGED <<incomplete, raided>>
       ELSE /\ at' = [at EXCEPT ![w].stage = "failing"]
            /\ \/ incomplete' = IF at[w].assigned THEN None ELSE incomplete
               \/ incomplete # None /\ "sealed" \in incomplete /\ UNCHANGED incomplete
            /\ LET others == {v \in Workers \ {w} : at[v].stage \in Building} IN
               raided' = (raided \/ (incomplete' # incomplete /\ others # {}))
            /\ UNCHANGED ws
    /\ UNCHANGED <<derived, job, runtime, cut, bounds>>

\* _fail_workspace: a ready or failed row stays, a paused one refuses.
FailWorkspace(w) ==
    LET i == at[w].ws IN
    /\ at[w].stage = "failing"
    /\ ws' = IF Allowed(ws[i].state, "failed") THEN [ws EXCEPT ![i].state = "failed"] ELSE ws
    /\ at' = [at EXCEPT ![w].stage = "unwind"]
    /\ UNCHANGED <<derived, job, dirs, raided, cut, bounds>>

-----------------------------------------------------------------------------
Attempt(w) ==
    \/ VerifyFails(w) \/ TakeWorkspace(w) \/ Transit(w)
    \/ Download(w) \/ DownloadCancelled(w) \/ CheckRuntime(w)
    \/ Work(w, "copy", "copied", {})
    \/ Work(w, "sanitize", "sanitized", {"copied"})
    \/ Work(w, "migrate", "rehearsed", {"copied"})
    \/ Seal(w) \/ Rename(w) \/ RecordPath(w)
    \/ Fails(w) \/ Handle(w) \/ FailWorkspace(w) \/ Settle(w)

Next ==
    \/ \E w \in Workers : Attempt(w) \/ Die(w) \/ \E j \in Jobs : Claim(w, j)
    \/ \E j \in Jobs : RequestCancellation(j) \/ LoseJob(j) \/ Requeue(j)

Spec == Init /\ [][Next]_vars

-----------------------------------------------------------------------------
(* Properties *)

\* Jobs, workspaces, directories and positions keep their types.
TypeOK ==
    /\ derived \in BOOLEAN
    /\ job \in [Jobs -> [status: Statuses, owner: Workers \cup {None}]]
    /\ ws \in Seq([job: Jobs, state: States, path: BOOLEAN])
    /\ incomplete = None \/ incomplete \subseteq Deeds
    /\ runtime = None \/ runtime \subseteq Deeds
    /\ at \in [Workers -> [stage: Stages, job: Jobs \cup {None}, ws: Nat, state: States,
                           error: Errors, assigned: BOOLEAN]]
    /\ raided \in BOOLEAN /\ cut \subseteq Stages
    /\ retries \in 0..MaxRetries /\ faults \in 0..MaxFaults

Complete(dir) ==
    dir # None /\ Deeds \ (IF derived THEN {} ELSE {"sanitized"}) \subseteq dir

\* A workspace that may be activated stands for a runtime to which everything
\* was done, the sanitizing of production data included, whatever earlier
\* attempts and jobs left behind; unless two attempts at the generation were in
\* progress at once, which remove each other's directories.
ReadyRuntimesAreComplete ==
    \/ raided
    \/ \A i \in DOMAIN ws : ws[i].state = "activation_ready" => Complete(runtime)

\* What lies on disk is somebody's: an incomplete runtime is being worked on or
\* removed, a runtime has a row that names it.  Otherwise the generation can
\* not be restored any more; an attempt that died or lost its job is the only
\* cause.
DirectoriesAreOwned ==
    /\ ~raided /\ incomplete # None =>
          \/ \E w \in Workers : at[w].stage \in Building \cup {"handle"}
          \/ cut \cap (Building \cup {"handle"}) # {}
          \/ "sealed" \in incomplete
    /\ runtime # None =>
          \/ \E i \in DOMAIN ws : ws[i].path
          \/ \E w \in Workers : at[w].stage = "record"
          \/ "record" \in cut

\* A job that ends as failed left no workspace that may be activated, unless an
\* attempt was cut off after its last heartbeat: what follows the download asks
\* nobody.
FailedRestoresAreNotReady ==
    \/ cut \cap (Building \cup {"mark", "enter", "check", "complete"}) # {}
    \/ \A i \in DOMAIN ws :
          ws[i].state = "activation_ready" =>
              job[ws[i].job].status \notin {"retryable_failed", "terminal_failed"}

=============================================================================
