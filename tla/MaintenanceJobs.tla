-------------------------- MODULE MaintenanceJobs --------------------------
(***************************************************************************)
(* Document processing jobs and the maintenance worker that runs them      *)
(* (flowdocs/core/maintenance.py run_job, claim_next_job and queue_job;    *)
(* management/commands/run_maintenance_jobs.py).                           *)
(*                                                                         *)
(* Jobs are numbered as they are created.  An item is named by its         *)
(* document; a deleted row leaves its item without one.  Only the kind     *)
(* process_pdf runs on the live rows: indexing kinds run in a candidate    *)
(* workspace, and validation changes no document.                          *)
(***************************************************************************)
EXTENDS DocumentLifecycle

CONSTANTS
    Workers,     \* worker processes: the service and an operator's --once
    MaxJobs,     \* bound: jobs
    MaxCrashes   \* bound: worker processes that die

ASSUME JobBounds == MaxJobs \in Nat /\ MaxCrashes \in Nat

VARIABLES
    job,      \* job[j]: the row of job j
    item,     \* item[j][d]: the item of job j for document d
    run,      \* run[w]: what worker w holds in memory
    torn,     \* a recovery died between the job and its items
    doubled,  \* jobs requeued or claimed while another worker had them in hand
    crashes   \* consumed bound

jobVars == <<job, item, run, torn, doubled, crashes>>

JobIds     == 1..MaxJobs
JobStatus  == {"none", "queued", "running", "completed", "failed"}
ItemStatus == {"none", "queued", "running", "completed", "failed"}
Job   == [status: JobStatus,
          failed: BOOLEAN,   \* failed_items > 0
          built: BOOLEAN]    \* the folder is in completed_folder_ids
NoJob == [status |-> "none", failed |-> FALSE, built |-> FALSE]

WorkerPCs == {"down", "orphans", "items_of", "idle", "claimed", "items", "mark",
              "extract", "ready", "restore", "settle", "build", "finish"}
\* todo: items or orphaned jobs still to visit; empty: listed items without a
\* document; prior: prior_lifecycle; kept: the row in memory has stored
\* artifacts; good: the item completed; failed, built: the job's, in memory.
Run  == [pc: WorkerPCs, job: JobIds \cup {0}, todo: SUBSET (Docs \cup JobIds),
         empty: SUBSET Docs, at: Docs \cup {0}, prior: Lives, kept: BOOLEAN,
         good: BOOLEAN, failed: BOOLEAN, built: BOOLEAN]
Down == [pc |-> "down", job |-> 0, todo |-> {}, empty |-> {}, at |-> 0,
         prior |-> "none", kept |-> FALSE, good |-> FALSE, failed |-> FALSE,
         built |-> FALSE]
Idle == [Down EXCEPT !.pc = "idle"]

JobInit ==
    /\ job = [j \in JobIds |-> NoJob]
    /\ item = [j \in JobIds |-> [d \in Docs |-> "none"]]
    /\ run = [w \in Workers |-> Down]
    /\ torn = {} /\ doubled = {}
    /\ crashes = 0

Created   == {j \in JobIds : job[j].status # "none"}
NextJob   == Cardinality(Created) + 1
ItemsOf(j, statuses) == {d \in Docs : item[j][d] \in statuses}
Runners(j) == {w \in Workers : run[w].job = j}

\* queue_job: a job and its items in one transaction.
QueueJob(pdfs) ==
    /\ NextJob \in JobIds
    /\ job' = [job EXCEPT ![NextJob].status = "queued"]
    /\ item' = [item EXCEPT ![NextJob] =
                   [d \in Docs |-> IF d \in pdfs THEN "queued" ELSE "none"]]
    /\ UNCHANGED <<run, torn, doubled, crashes>>

\* retry_pdf_processing_view: one more attempt unless one is under way.
Active(d) == \E j \in Created : /\ job[j].status \in {"queued", "running"}
                                /\ item[j][d] \in {"queued", "running"}

RetryProcessing(d) ==
    /\ Searchable(d) /\ ~Active(d)
    /\ Decision
    /\ Become(d, "processing")
    /\ QueueJob({d})
    /\ UNCHANGED <<media, deleting, faults>>

\* The upload form of the folder page: row, PDF and job together.
DashboardUpload(d) ==
    /\ doc[d].life = "none"
    /\ CreateDocs({d}, "processing")
    /\ QueueJob({d})

-----------------------------------------------------------------------------
(* The worker process starts: _recover_orphaned_jobs, once                 *)

At(w, pc)  == run[w].pc = pc
Set(w, r)  == run' = [run EXCEPT ![w] = r]

\* The running jobs that started over five minutes ago are listed: any of them
\* may have.
StartWorker(w) ==
    /\ At(w, "down")
    /\ \E orphaned \in SUBSET {j \in JobIds : job[j].status = "running"} :
          Set(w, IF orphaned = {} THEN Idle
                 ELSE [Down EXCEPT !.pc = "orphans", !.todo = orphaned])
    /\ UNCHANGED <<crashes, docVars, job, item, torn, doubled>>

\* The job goes back to the queue whatever it has become since the list was read.
RequeueOrphan(w) ==
    /\ At(w, "orphans")
    /\ \E j \in run[w].todo :
          /\ job' = [job EXCEPT ![j].status = "queued"]
          /\ Set(w, [run[w] EXCEPT !.pc = "items_of", !.job = j, !.todo = @ \ {j}])
          /\ doubled' = IF Runners(j) = {} THEN doubled ELSE doubled \cup {j}
    /\ UNCHANGED <<crashes, docVars, item, torn>>

NextOrphan(w) ==
    Set(w, IF run[w].todo = {} THEN Idle ELSE [run[w] EXCEPT !.pc = "orphans", !.job = 0])

\* Fault: the items of a recovered job are left as they are.
RequeueNothing(w) ==
    /\ At(w, "items_of")
    /\ NextOrphan(w)
    /\ UNCHANGED <<crashes, docVars, job, item, torn, doubled>>

RequeueItems(w) ==
    /\ At(w, "items_of")
    /\ item' = [item EXCEPT ![run[w].job] =
                   [d \in Docs |-> IF @[d] = "running" THEN "queued" ELSE @[d]]]
    /\ NextOrphan(w)
    /\ UNCHANGED <<crashes, docVars, job, torn, doubled>>

-----------------------------------------------------------------------------
(* One job                                                                 *)

\* Fault: a job waits for the older ones to end.
ClaimInOrder(w) ==
    /\ At(w, "idle")
    /\ \E j \in JobIds :
          /\ job[j].status = "queued"
          /\ \A k \in JobIds : k < j => job[k].status \notin {"queued", "running"}
          /\ job' = [job EXCEPT ![j].status = "running"]
          /\ doubled' = IF Runners(j) = {} THEN doubled ELSE doubled \cup {j}
          /\ Set(w, [Idle EXCEPT !.pc = "claimed", !.job = j, !.failed = job[j].failed,
                           !.built = job[j].built])
    /\ UNCHANGED <<crashes, docVars, item, torn>>

\* claim_next_job: the oldest queued job.
ClaimNextJob(w) ==
    /\ At(w, "idle")
    /\ \E j \in JobIds :
          /\ job[j].status = "queued"
          /\ \A k \in JobIds : k < j => job[k].status # "queued"
          /\ job' = [job EXCEPT ![j].status = "running"]
          /\ doubled' = IF Runners(j) = {} THEN doubled ELSE doubled \cup {j}
          /\ Set(w, [Idle EXCEPT !.pc = "claimed", !.job = j, !.failed = job[j].failed,
                           !.built = job[j].built])
    /\ UNCHANGED <<crashes, docVars, item, torn>>

\* The barrier is closed: the job returns to the queue.
Defer(w) ==
    /\ At(w, "claimed")
    /\ Fault
    /\ job' = [job EXCEPT ![run[w].job].status = "queued"]
    /\ Set(w, Idle)
    /\ UNCHANGED <<rowVars, item, torn, doubled, crashes>>

\* The items to process are listed once, with the documents they have now.
ListItems(w) ==
    /\ At(w, "claimed")
    /\ LET listed == ItemsOf(run[w].job, {"queued", "failed"})
       IN  Set(w, [run[w] EXCEPT !.pc = "items", !.todo = listed,
                                 !.empty = {d \in listed : ~Exists(d)}])
    /\ UNCHANGED <<crashes, docVars, job, item, torn, doubled>>

\* The job ends as failed, whatever its items are. (_fail_unhandled_local_job)
EndFailed(w) ==
    /\ job' = [job EXCEPT ![run[w].job].status = "failed", ![run[w].job].failed = TRUE]
    /\ Set(w, Idle)

DocumentStep == UNCHANGED <<media, deleting, ops, faults, crashes, job, item, torn, doubled>>

\* An item begins; its row is loaded, with its lifecycle and its artifacts.  An
\* item listed without a document fails; one whose document was deleted since
\* raises while it is loaded, and again in the handler, which ends the job.
StartItem(w) ==
    /\ At(w, "items")
    /\ \E d \in run[w].todo :
          /\ item' = [item EXCEPT ![run[w].job][d] = "running"]
          /\ IF Exists(d) \/ d \in run[w].empty
             THEN /\ Set(w, [run[w] EXCEPT !.todo = @ \ {d}, !.at = d,
                                !.pc = IF Exists(d) THEN "mark" ELSE "settle",
                                !.prior = doc[d].life, !.kept = doc[d].chunks,
                                !.good = FALSE])
                  /\ UNCHANGED job
             ELSE EndFailed(w)
    /\ UNCHANGED <<crashes, docVars, torn, doubled>>

\* lifecycle = "processing", whatever the row says now.
MarkProcessing(w) ==
    /\ At(w, "mark")
    /\ LET d == run[w].at
       IN  IF Exists(d)
           THEN Become(d, "processing") /\ Set(w, [run[w] EXCEPT !.pc = "extract",
                                                      !.kept = doc[d].chunks])
           ELSE UNCHANGED doc /\ Set(w, [run[w] EXCEPT !.pc = "restore"])
    /\ DocumentStep

\* precompute_pdf_embeddings: text, chunks and embeddings are stored, or the
\* attempt fails; a row deleted meanwhile fails with the artifacts in memory.
Extract(w) ==
    /\ At(w, "extract")
    /\ LET d == run[w].at
       IN  \/ /\ Exists(d) /\ d \in media
              /\ doc' = [doc EXCEPT ![d].chunks = TRUE]
              /\ Set(w, [run[w] EXCEPT !.pc = "ready", !.kept = TRUE])
           \/ /\ \E kept \in {run[w].kept, run[w].kept \/ ~Exists(d)} :
                    Set(w, [run[w] EXCEPT !.pc = "restore", !.kept = kept])
              /\ UNCHANGED doc
    /\ DocumentStep

\* lifecycle = "ready", whatever the row says now.
MarkReady(w) ==
    /\ At(w, "ready")
    /\ LET d == run[w].at
       IN  IF Exists(d)
           THEN Become(d, "ready") /\ Set(w, [run[w] EXCEPT !.pc = "settle", !.good = TRUE])
           ELSE UNCHANGED doc /\ Set(w, [run[w] EXCEPT !.pc = "restore"])
    /\ DocumentStep

\* Fault: the lifecycle returns whatever the row has become.
RestoreAlways(w) ==
    /\ At(w, "restore")
    /\ LET d == run[w].at
       IN  doc' = IF Exists(d) THEN [doc EXCEPT ![d].life = run[w].prior] ELSE doc
    /\ Set(w, [run[w] EXCEPT !.pc = "settle", !.good = run[w].kept])
    /\ DocumentStep

\* The attempt failed: a row still in processing returns to its prior
\* lifecycle; stored artifacts make the item a completed checkpoint.
RestoreLifecycle(w) ==
    /\ At(w, "restore")
    /\ LET d == run[w].at
       IN  doc' = IF doc[d].life = "processing"
                  THEN [doc EXCEPT ![d].life = run[w].prior] ELSE doc
    /\ Set(w, [run[w] EXCEPT !.pc = "settle", !.good = run[w].kept])
    /\ DocumentStep

\* The item and the counters of the job, from memory.
SettleItem(w) ==
    /\ At(w, "settle")
    /\ LET r == run[w]
           failed == r.failed \/ ~r.good
       IN  /\ item' = [item EXCEPT ![r.job][r.at] = IF r.good THEN "completed" ELSE "failed"]
           /\ job' = [job EXCEPT ![r.job].failed = failed]
           /\ Set(w, [r EXCEPT !.pc = "items", !.at = 0, !.prior = "none",
                               !.failed = failed, !.kept = FALSE, !.good = FALSE])
    /\ UNCHANGED <<crashes, docVars, torn, doubled>>

Eligible(d) == Searchable(d) /\ doc[d].chunks /\ d \in media

\* The index of the folder, once per job: _repair_folder needs an eligible
\* document and may fail with one.
BuildFolder(w) ==
    /\ At(w, "items") /\ run[w].todo = {}
    /\ LET j == run[w].job
       IN  \E built \in IF run[w].built THEN {TRUE}
                        ELSE {FALSE} \cup {TRUE : d \in {e \in Docs : Eligible(e)}} :
              /\ job' = [job EXCEPT ![j].built = built,
                                    ![j].failed = run[w].failed \/ ~built]
              /\ Set(w, [run[w] EXCEPT !.pc = "finish"])
    /\ UNCHANGED <<crashes, docVars, item, torn, doubled>>

\* The row is read again; its failed_items decide.
Finish(w) ==
    /\ At(w, "finish")
    /\ job' = [job EXCEPT ![run[w].job].status =
                  IF job[run[w].job].failed THEN "failed" ELSE "completed"]
    /\ Set(w, Idle)
    /\ UNCHANGED <<crashes, docVars, item, torn, doubled>>

\* An error outside the items, of the database for one.
FailUnhandled(w) ==
    /\ run[w].pc \in {"items", "settle", "finish"}
    /\ Fault
    /\ EndFailed(w)
    /\ UNCHANGED <<rowVars, item, torn, doubled, crashes>>

\* The process dies; the container starts another one (StartWorker).
Crash(w) ==
    /\ ~At(w, "down")
    /\ crashes < MaxCrashes /\ crashes' = crashes + 1
    /\ Fault
    /\ torn' = IF At(w, "items_of") THEN torn \cup {run[w].job} ELSE torn
    /\ Set(w, Down)
    /\ UNCHANGED <<rowVars, job, item, doubled>>

ItemStep(w) ==
    \/ StartItem(w) \/ MarkProcessing(w) \/ Extract(w) \/ MarkReady(w)
    \/ RestoreLifecycle(w) \/ SettleItem(w)
WorkerStep(w) ==
    \/ StartWorker(w) \/ RequeueOrphan(w) \/ RequeueItems(w)
    \/ ClaimNextJob(w) \/ ListItems(w) \/ ItemStep(w) \/ BuildFolder(w) \/ Finish(w)
WorkerTrouble(w) == Defer(w) \/ FailUnhandled(w) \/ Crash(w)
=============================================================================
