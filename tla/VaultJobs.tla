----------------------------- MODULE VaultJobs -----------------------------
(***************************************************************************)
(* Claims, fencing, cancellation, recovery and retry of vault jobs         *)
(* (flowdocs/vaultops/services/jobs.py, the execution of a claim in         *)
(* services/sync.py and the maintenance worker's loop that drives them).   *)
(*                                                                         *)
(* A VaultJob row of the control database is queued by the scheduler, by a *)
(* view or by another job.  A worker reads the oldest queued row, claims   *)
(* it with a fresh token and the next fencing epoch, starts it, and        *)
(* settles it; between these transactions operators cancel and retry, the  *)
(* claim may be taken away, and the process may die.  A worker that starts *)
(* looks once for running rows whose heartbeat is too old.                 *)
(*                                                                         *)
(* Each action is one transaction, or one read, of one worker or one       *)
(* operator request.  What the job's operation does is Work: it ends well, *)
(* ends having changed the vault, notices a cancellation, or fails.        *)
(***************************************************************************)
EXTENDS Naturals, FiniteSets

CONSTANTS
    Workers,     \* maintenance worker processes
    Jobs,        \* VaultJob rows, numbered in created_at order
    Requests,    \* operators' retry requests, one idempotency key each
    MaxCrashes,  \* bound: process deaths
    MaxStalls,   \* bound: heartbeats that grow old
    MaxCancels   \* bound: cancellation requests

ASSUME JobsAssumption == Jobs \subseteq Nat \ {0}
ASSUME BoundsAssumption ==
    MaxCrashes \in Nat /\ MaxStalls \in Nat /\ MaxCancels \in Nat

VARIABLES
    job,      \* job[j]: the VaultJob row
    worker,   \* worker[w]: where a worker stands and the claim it holds
    todo,     \* todo[w]: candidate_ids of recover_stale_jobs
    request,  \* request[r]: a retry request and its receipt
    issued,   \* number of claim tokens generated (secrets.token_urlsafe)
    latest,   \* history: latest[j] is the token of the last claim, 0 once revoked
    crashes, stalls, cancels   \* consumed bounds

bounds == <<crashes, stalls, cancels>>
vars == <<job, worker, todo, request, issued, latest, bounds>>

Statuses == {"absent", "queued", "claimed", "running", "waiting", "cancelling",
             "retryable_failed", "terminal_failed", "stale", "cancelled", "succeeded"}
Held    == {"claimed", "running", "waiting", "cancelling"}
Settled == {"retryable_failed", "terminal_failed", "cancelled", "succeeded"}
Beats   == {"none", "fresh", "old"}    \* heartbeat_at against the stale cutoff
PCs == {"down", "boot", "recover", "loop", "claim", "cancelCheck", "start", "run",
        "complete", "errorCheck", "settle", "fail"}

NoToken == 0
Row     == [status: Statuses, token: Nat, epoch: Nat, version: Nat, beat: Beats]
Claim   == [pc: PCs, job: Jobs \cup {0}, token: Nat, epoch: Nat, done: BOOLEAN]
Retry   == [job: Jobs \cup {0}, version: Nat, receipt: BOOLEAN]

NoRow   == [status |-> "absent", token |-> NoToken, epoch |-> 0, version |-> 1,
            beat |-> "none"]
Nothing(pc) == [pc |-> pc, job |-> 0, token |-> NoToken, epoch |-> 0, done |-> FALSE]
NoRequest == [job |-> 0, version |-> 0, receipt |-> FALSE]

\* Fault: the table has no way from running to retryable_failed.
TransitionsWithoutRetry(s) ==
    CASE s = "queued"           -> {"claimed", "cancelled"}
      [] s = "claimed"          -> {"running", "stale", "cancelling"}
      [] s = "running"          -> {"waiting", "cancelling", "terminal_failed",
                                    "succeeded", "stale"}
      [] s = "waiting"          -> {"running", "cancelling", "stale"}
      [] s = "cancelling"       -> {"cancelled", "succeeded"}
      [] s \in {"retryable_failed", "stale"} -> {"queued"}
      [] OTHER                  -> {}

\* JOB_TRANSITIONS
Transitions(s) ==
    CASE s = "queued"           -> {"claimed", "cancelled"}
      [] s = "claimed"          -> {"running", "stale", "cancelling"}
      [] s = "running"          -> {"waiting", "cancelling", "retryable_failed",
                                    "terminal_failed", "succeeded", "stale"}
      [] s = "waiting"          -> {"running", "cancelling", "stale"}
      [] s = "cancelling"       -> {"cancelled", "succeeded"}
      [] s = "retryable_failed" -> {"queued"}
      [] s = "stale"            -> {"queued"}
      [] OTHER                  -> {}

\* _guard_transition accepts a transition to the current state.
Allowed(from, to) == from = to \/ to \in Transitions(from)

\* _verify_owner: the token's hash and the fencing epoch are the row's.
Owns(w) ==
    /\ worker[w].token = job[worker[w].job].token
    /\ worker[w].epoch = job[worker[w].job].epoch

Goto(w, pc)  == worker' = [worker EXCEPT ![w].pc = pc]
GoHome(w)    == worker' = [worker EXCEPT ![w] = Nothing("loop")]
GoDown(w)    == worker' = [worker EXCEPT ![w] = Nothing("down")]

-----------------------------------------------------------------------------
Init ==
    /\ job = [j \in Jobs |-> NoRow]
    /\ worker = [w \in Workers |-> Nothing("boot")]
    /\ todo = [w \in Workers |-> {}]
    /\ request = [r \in Requests |-> NoRequest]
    /\ issued = 0
    /\ latest = [j \in Jobs |-> NoToken]
    /\ crashes = 0 /\ stalls = 0 /\ cancels = 0

\* The scheduler, a view or a finished job creates a row.
QueueJob(j) ==
    /\ job[j].status = "absent"
    /\ \A i \in Jobs : i < j => job[i].status # "absent"
    /\ job' = [job EXCEPT ![j].status = "queued"]
    /\ UNCHANGED <<worker, todo, request, issued, latest, bounds>>

-----------------------------------------------------------------------------
(* The start of a worker: recover_stale_jobs                               *)

ListStaleJobs(w) ==
    /\ worker[w].pc = "boot"
    /\ todo' = [todo EXCEPT ![w] = {j \in Jobs : /\ job[j].status \in Held \ {"cancelling"}
                                                 /\ job[j].beat = "old"}]
    /\ Goto(w, "recover")
    /\ UNCHANGED <<job, request, issued, latest, bounds>>

Revoked(row, s) == [row EXCEPT !.status = s, !.token = NoToken, !.version = @ + 1]

\* A candidate is marked stale unless its heartbeat moved since the listing.
RecoverStaleJob(w, j) ==
    /\ worker[w].pc = "recover" /\ j \in todo[w]
    /\ todo' = [todo EXCEPT ![w] = @ \ {j}]
    /\ IF job[j].beat = "old"
       THEN /\ Allowed(job[j].status, "stale")
            /\ job' = [job EXCEPT ![j] = Revoked(@, "stale")]
            /\ latest' = [latest EXCEPT ![j] = NoToken]
       ELSE UNCHANGED <<job, latest>>
    /\ UNCHANGED <<worker, request, issued, bounds>>

\* The candidate left the recoverable states: LifecycleConflict ends the process.
RecoveryRefused(w, j) ==
    /\ worker[w].pc = "recover" /\ j \in todo[w]
    /\ job[j].beat = "old"
    /\ ~Allowed(job[j].status, "stale")
    /\ todo' = [todo EXCEPT ![w] = {}]
    /\ GoDown(w)
    /\ UNCHANGED <<job, request, issued, latest, bounds>>

EnterLoop(w) ==
    /\ worker[w].pc = "recover" /\ todo[w] = {}
    /\ Goto(w, "loop")
    /\ UNCHANGED <<job, todo, request, issued, latest, bounds>>

-----------------------------------------------------------------------------
(* claim_next_job                                                          *)

\* The oldest queued row, read outside the claiming transaction.
FindCandidate(w, j) ==
    /\ worker[w].pc = "loop"
    /\ job[j].status = "queued"
    /\ \A i \in Jobs : job[i].status = "queued" => j <= i
    /\ worker' = [worker EXCEPT ![w] = [@ EXCEPT !.pc = "claim", !.job = j]]
    /\ UNCHANGED <<job, todo, request, issued, latest, bounds>>

\* Fault: the fencing epoch moves only when a job is requeued.
ClaimJobSameEpoch(w) ==
    LET j == worker[w].job IN
    /\ worker[w].pc = "claim"
    /\ Allowed(job[j].status, "claimed")
    /\ issued' = issued + 1
    /\ job' = [job EXCEPT ![j] = [@ EXCEPT !.status = "claimed", !.token = issued + 1,
                                           !.version = @ + 1, !.beat = "fresh"]]
    /\ worker' = [worker EXCEPT ![w] = [@ EXCEPT !.pc = "cancelCheck", !.token = issued + 1,
                                                 !.epoch = job[j].epoch]]
    /\ latest' = [latest EXCEPT ![j] = issued + 1]
    /\ UNCHANGED <<todo, request, bounds>>

\* claim_job: a fresh token and the next epoch.  The guard accepts a row that
\* is claimed already, since the requested state is the current one.
ClaimJob(w) ==
    LET j == worker[w].job IN
    /\ worker[w].pc = "claim"
    /\ Allowed(job[j].status, "claimed")
    /\ issued' = issued + 1
    /\ job' = [job EXCEPT ![j] = [status |-> "claimed", token |-> issued + 1,
                                  epoch |-> job[j].epoch + 1,
                                  version |-> job[j].version + 1, beat |-> "fresh"]]
    /\ worker' = [worker EXCEPT ![w] = [pc |-> "cancelCheck", job |-> j, token |-> issued + 1,
                                        epoch |-> job[j].epoch + 1, done |-> FALSE]]
    /\ latest' = [latest EXCEPT ![j] = issued + 1]
    /\ UNCHANGED <<todo, request, bounds>>

\* The row moved on since it was read: claim_next_job returns None.
ClaimRefused(w) ==
    /\ worker[w].pc = "claim"
    /\ ~Allowed(job[worker[w].job].status, "claimed")
    /\ GoHome(w)
    /\ UNCHANGED <<job, todo, request, issued, latest, bounds>>

-----------------------------------------------------------------------------
(* execute_claimed_job                                                     *)

\* cancellation_requested before anything is started.
CheckCancelled(w) ==
    /\ worker[w].pc = "cancelCheck"
    /\ Goto(w, IF job[worker[w].job].status = "cancelling" THEN "settle" ELSE "start")
    /\ UNCHANGED <<job, todo, request, issued, latest, bounds>>

StartJob(w) ==
    LET j == worker[w].job IN
    /\ worker[w].pc = "start"
    /\ Owns(w) /\ Allowed(job[j].status, "running")
    /\ job' = [job EXCEPT ![j] = [@ EXCEPT !.status = "running", !.beat = "fresh",
                                           !.version = job[j].version + 1]]
    /\ Goto(w, "run")
    /\ UNCHANGED <<todo, request, issued, latest, bounds>>

\* start_job is called outside the try block: its refusal ends the process.
StartRefused(w) ==
    /\ worker[w].pc = "start"
    /\ ~(Owns(w) /\ Allowed(job[worker[w].job].status, "running"))
    /\ GoDown(w)
    /\ UNCHANGED <<job, todo, request, issued, latest, bounds>>

\* heartbeat_job, between two units of work.
Heartbeat(w) ==
    LET j == worker[w].job IN
    /\ worker[w].pc = "run"
    /\ Owns(w) /\ job[j].status \in Held
    /\ job' = [job EXCEPT ![j].beat = "fresh"]
    /\ UNCHANGED <<worker, todo, request, issued, latest, bounds>>

\* The operation returns; irreversible when it published a manifest or
\* promoted a generation.
WorkDone(w, irreversible) ==
    /\ worker[w].pc = "run"
    /\ worker' = [worker EXCEPT ![w] = [@ EXCEPT !.pc = "complete", !.done = irreversible]]
    /\ UNCHANGED <<job, todo, request, issued, latest, bounds>>

\* A cancellation check inside the operation raises one of the *Cancelled errors.
WorkCancelled(w) ==
    /\ worker[w].pc = "run"
    /\ job[worker[w].job].status = "cancelling"
    /\ Goto(w, "settle")
    /\ UNCHANGED <<job, todo, request, issued, latest, bounds>>

\* Any other error, a refused heartbeat among them.
WorkFails(w) ==
    /\ worker[w].pc = "run"
    /\ Goto(w, "errorCheck")
    /\ UNCHANGED <<job, todo, request, issued, latest, bounds>>

\* The state complete_owned_job asks for.
Requested(w) ==
    IF job[worker[w].job].status # "cancelling" \/ worker[w].done
    THEN "succeeded" ELSE "cancelled"

Completable(w) == Owns(w) /\ Allowed(job[worker[w].job].status, Requested(w))

\* What complete_owned_job and fail_owned_job write: ownership ends.
Settle(w, s) ==
    LET j == worker[w].job IN
    job' = [job EXCEPT ![j] = [@ EXCEPT !.status = s, !.token = NoToken, !.beat = "fresh",
                                        !.version = job[j].version + 1]]

\* Fault: the row is settled without looking at its owner.
CompleteJobUnowned(w) ==
    /\ worker[w].pc \in {"complete", "settle"}
    /\ Allowed(job[worker[w].job].status, Requested(w))
    /\ Settle(w, Requested(w))
    /\ GoHome(w)
    /\ UNCHANGED <<todo, request, issued, latest, bounds>>

CompleteJob(w) ==
    /\ worker[w].pc \in {"complete", "settle"}
    /\ Completable(w)
    /\ Settle(w, Requested(w))
    /\ GoHome(w)
    /\ UNCHANGED <<todo, request, issued, latest, bounds>>

\* Refused inside the try block: the error handler takes over.
CompleteRefused(w) ==
    /\ worker[w].pc = "complete"
    /\ ~Completable(w)
    /\ Goto(w, "errorCheck")
    /\ UNCHANGED <<job, todo, request, issued, latest, bounds>>

\* Refused inside a handler, or before the try block: the process ends.
SettleRefused(w) ==
    /\ worker[w].pc = "settle"
    /\ ~Completable(w)
    /\ GoDown(w)
    /\ UNCHANGED <<job, todo, request, issued, latest, bounds>>

\* cancellation_requested in the error handler.
CheckError(w) ==
    /\ worker[w].pc = "errorCheck"
    /\ Goto(w, IF job[worker[w].job].status = "cancelling" THEN "settle" ELSE "fail")
    /\ UNCHANGED <<job, todo, request, issued, latest, bounds>>

FailJob(w, s) ==
    /\ worker[w].pc = "fail"
    /\ Owns(w) /\ Allowed(job[worker[w].job].status, s)
    /\ Settle(w, s)
    /\ GoHome(w)
    /\ UNCHANGED <<todo, request, issued, latest, bounds>>

FailRefused(w, s) ==
    /\ worker[w].pc = "fail"
    /\ ~(Owns(w) /\ Allowed(job[worker[w].job].status, s))
    /\ GoDown(w)
    /\ UNCHANGED <<job, todo, request, issued, latest, bounds>>

-----------------------------------------------------------------------------
(* Operators, time and processes                                           *)

\* request_cancellation; a repeated request on a cancelling job is accepted.
RequestCancellation(j) ==
    LET s == IF job[j].status = "queued" THEN "cancelled" ELSE "cancelling" IN
    /\ cancels < MaxCancels
    /\ Allowed(job[j].status, s)
    /\ job' = [job EXCEPT ![j] = [@ EXCEPT !.status = s, !.version = job[j].version + 1]]
    /\ cancels' = cancels + 1
    /\ UNCHANGED <<worker, todo, request, issued, latest, crashes, stalls>>

\* An operator opens the page of job j and reads its state_version.
ReadForRetry(r, j) ==
    /\ request[r].job = 0
    /\ job[j].status # "absent"
    /\ request' = [request EXCEPT ![r] = [job |-> j, version |-> job[j].version,
                                          receipt |-> FALSE]]
    /\ UNCHANGED <<job, worker, todo, issued, latest, bounds>>

Requeued(row) ==
    [row EXCEPT !.status = "queued", !.token = NoToken, !.beat = "none",
                !.epoch = row.epoch + 1, !.version = row.version + 1]

\* Fault: the expected state version is not compared.
RequeueJobUnversioned(r) ==
    LET j == request[r].job IN
    /\ j # 0 /\ ~request[r].receipt
    /\ Allowed(job[j].status, "queued")
    /\ job' = [job EXCEPT ![j] = Requeued(@)]
    /\ latest' = [latest EXCEPT ![j] = NoToken]
    /\ request' = [request EXCEPT ![r].receipt = TRUE]
    /\ UNCHANGED <<worker, todo, issued, bounds>>

\* _requeue_job_once: a request that has its receipt, that names an old
\* version or a state without a way back to queued changes nothing.
RequeueJob(r) ==
    LET j == request[r].job IN
    /\ j # 0 /\ ~request[r].receipt
    /\ job[j].version = request[r].version
    /\ Allowed(job[j].status, "queued")
    /\ job' = [job EXCEPT ![j] = Requeued(@)]
    /\ latest' = [latest EXCEPT ![j] = NoToken]
    /\ request' = [request EXCEPT ![r].receipt = TRUE]
    /\ UNCHANGED <<worker, todo, issued, bounds>>

\* A heartbeat passes the stale cutoff.
HeartbeatAges(j) ==
    /\ stalls < MaxStalls
    /\ job[j].beat = "fresh"
    /\ job' = [job EXCEPT ![j].beat = "old"]
    /\ stalls' = stalls + 1
    /\ UNCHANGED <<worker, todo, request, issued, latest, crashes, cancels>>

WorkerDies(w) ==
    /\ worker[w].pc # "down"
    /\ crashes < MaxCrashes
    /\ crashes' = crashes + 1
    /\ GoDown(w)
    /\ todo' = [todo EXCEPT ![w] = {}]
    /\ UNCHANGED <<job, request, issued, latest, stalls, cancels>>

\* The supervisor restarts the worker (restart: always).
WorkerStarts(w) ==
    /\ worker[w].pc = "down"
    /\ Goto(w, "boot")
    /\ UNCHANGED <<job, todo, request, issued, latest, bounds>>

-----------------------------------------------------------------------------
Boot(w) ==
    \/ ListStaleJobs(w)
    \/ \E j \in Jobs : RecoverStaleJob(w, j) \/ RecoveryRefused(w, j)
    \/ EnterLoop(w)
    \/ WorkerStarts(w)

Execute(w) ==
    \/ ClaimJob(w)
    \/ ClaimRefused(w)
    \/ CheckCancelled(w)
    \/ StartJob(w)
    \/ StartRefused(w)
    \/ \E irreversible \in BOOLEAN : WorkDone(w, irreversible)
    \/ WorkCancelled(w)
    \/ WorkFails(w)
    \/ CompleteJob(w)
    \/ CompleteRefused(w)
    \/ SettleRefused(w)
    \/ CheckError(w)
    \/ \E s \in {"retryable_failed", "terminal_failed"} : FailJob(w, s) \/ FailRefused(w, s)

WorkerNext == \E w \in Workers :
    \/ Boot(w)
    \/ \E j \in Jobs : FindCandidate(w, j)
    \/ Execute(w)
    \/ Heartbeat(w)
    \/ WorkerDies(w)

OperatorNext ==
    \/ \E j \in Jobs : QueueJob(j) \/ RequestCancellation(j) \/ HeartbeatAges(j)
    \/ \E r \in Requests, j \in Jobs : ReadForRetry(r, j)
    \/ \E r \in Requests : RequeueJob(r)

Next == WorkerNext \/ OperatorNext

Spec == Init /\ [][Next]_vars

\* A process that runs goes on: each call returns or raises, and the
\* supervisor restarts what died.
Fairness == \A w \in Workers : /\ WF_vars(Boot(w))
                               /\ WF_vars(\E j \in Jobs : FindCandidate(w, j))
                               /\ WF_vars(Execute(w))

FairSpec == Spec /\ Fairness

-----------------------------------------------------------------------------
(* Properties *)

\* Rows, workers, candidate lists and retry requests keep their types.
TypeOK ==
    /\ job \in [Jobs -> Row]
    /\ worker \in [Workers -> Claim]
    /\ todo \in [Workers -> SUBSET Jobs]
    /\ request \in [Requests -> Retry]
    /\ issued \in Nat
    /\ latest \in [Jobs -> Nat]
    /\ crashes \in 0..MaxCrashes /\ stalls \in 0..MaxStalls /\ cancels \in 0..MaxCancels

\* Two claims that processes remember never share job and fencing epoch,
\* however claims, thefts, recoveries and requeues interleave: an epoch names
\* one claim, so that a remote writer can be told apart by it.
EpochNamesOneClaim ==
    \A v, w \in Workers :
        /\ worker[v].token # NoToken /\ worker[w].token # NoToken
        /\ worker[v].job = worker[w].job
        /\ worker[v].epoch = worker[w].epoch
        => v = w

\* A held job is settled only by the process whose claim is the last one
\* and was not revoked by recovery or requeue.
SettledByLatestClaim ==
    [][\A j \in Jobs :
          job[j].status \in Held /\ job'[j].status \in Settled =>
             \E w \in Workers : /\ worker[w].job = j
                                /\ worker[w].token = latest[j]
                                /\ worker'[w] # worker[w]]_vars

\* Retry requests that read the same state_version of a job requeue it once.
RetriesHonouredOnce ==
    \A q, r \in Requests :
        /\ request[q].receipt /\ request[r].receipt
        /\ request[q].job = request[r].job
        /\ request[q].version = request[r].version
        => q = r

\* While no process dies and no heartbeat is missed, what runs is settled or
\* cancelled: a claim stolen from a worker that crashes on it included.
RunningJobsSettle ==
    \A j \in Jobs : job[j].status = "running"
                        ~> job[j].status # "running" \/ crashes + stalls > 0
=============================================================================
