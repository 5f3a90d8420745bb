--------------------------- MODULE DocumentIntake ---------------------------
(***************************************************************************)
(* Upload batches (flowdocs/core/services/upload_intake.py), composed with *)
(* the lifecycle of their documents and with the jobs that process them.   *)
(*                                                                         *)
(* One batch.  Every operation locks its row, so each one is a step.  A    *)
(* receipt is named by its document; rejected files leave no document and  *)
(* a repeated idempotency key changes nothing, so neither is a step.       *)
(***************************************************************************)
EXTENDS MaintenanceJobs

CONSTANTS
    Service,    \* the worker that the container restarts
    Operated    \* bound: documents that administrators decide about

ASSUME ServiceAssumption == Service \in Workers
ASSUME OperatedAssumption == Operated \subseteq Docs

VARIABLES
    batch,      \* the row of the batch; due: its expires_at has passed
    receipt     \* receipt[d]: state of the receipt of d

batchVars  == <<batch, receipt>>
intakeVars == <<docVars, jobVars, batchVars>>

Batch == [status: {"none", "draft", "finalized", "discarded", "expired"},
          due: BOOLEAN, job: JobIds \cup {0}]
ReceiptStates == {"none", "received", "removed"}

IntakeInit ==
    /\ DocInit /\ JobInit
    /\ batch = [status |-> "none", due |-> FALSE, job |-> 0]
    /\ receipt = [d \in Docs |-> "none"]

\* Received documents whose row still exists; pdf_file is NULL otherwise.
Received == {d \in Docs : receipt[d] = "received" /\ Exists(d)}
Draft    == batch.status = "draft"

CreateBatch ==
    /\ batch.status = "none"
    /\ batch' = [batch EXCEPT !.status = "draft"]
    /\ UNCHANGED <<docVars, jobVars, receipt>>

\* 24 hours pass.
BecomeDue ==
    /\ Draft /\ ~batch.due
    /\ batch' = [batch EXCEPT !.due = TRUE]
    /\ UNCHANGED <<docVars, jobVars, receipt>>

Receive(d) ==
    /\ Draft /\ ~batch.due
    /\ doc[d].life = "none"
    /\ CreateDocs({d}, "intake")
    /\ receipt' = [receipt EXCEPT ![d] = "received"]
    /\ UNCHANGED <<jobVars, batch>>

\* An upload or a finalization that comes too late marks the draft and is
\* refused; the documents stay.
RefuseExpired ==
    /\ Draft /\ batch.due
    /\ batch' = [batch EXCEPT !.status = "expired"]
    /\ UNCHANGED <<docVars, jobVars, receipt>>

Finalize ==
    /\ Draft /\ ~batch.due
    /\ Received # {}
    /\ QueueJob(Received)
    /\ batch' = [batch EXCEPT !.status = "finalized", !.job = NextJob]
    /\ UNCHANGED <<docVars, receipt>>

\* Rows and PDFs of the received documents go, every receipt is removed.
DropReceipts ==
    /\ RemoveDocs(Received)
    /\ receipt' = [d \in Docs |-> IF receipt[d] = "none" THEN "none" ELSE "removed"]

\* Fault: what became of the batch is not looked at.
DiscardAny ==
    /\ batch.status \in {"draft", "expired", "finalized"}
    /\ DropReceipts
    /\ batch' = [batch EXCEPT !.status = "discarded"]
    /\ UNCHANGED jobVars

\* discard_upload_batch: a draft, or one that has expired.
Discard ==
    /\ batch.status \in {"draft", "expired"}
    /\ DropReceipts
    /\ batch' = [batch EXCEPT !.status = "discarded"]
    /\ UNCHANGED jobVars

RemoveItem(d) ==
    /\ Draft
    /\ receipt[d] = "received"
    /\ RemoveDocs({d} \cap Received)
    /\ receipt' = [receipt EXCEPT ![d] = "removed"]
    /\ UNCHANGED <<jobVars, batch>>

\* cleanup_expired_upload_batches, when somebody opens the intake page.
CleanupExpired ==
    /\ Draft /\ batch.due
    /\ DropReceipts
    /\ batch' = [batch EXCEPT !.status = "expired"]
    /\ UNCHANGED jobVars

-----------------------------------------------------------------------------
BatchNext ==
    \/ CreateBatch \/ BecomeDue \/ RefuseExpired \/ Finalize
    \/ Discard \/ CleanupExpired
    \/ \E d \in Docs : Receive(d) \/ RemoveItem(d)

LifecycleNext ==
    \/ \E d \in Operated : DocNext(d) /\ UNCHANGED jobVars
    \/ \E d \in Operated : RetryProcessing(d)
    \/ \E d \in Docs : DashboardUpload(d)

JobNext ==
    \E w \in Workers : WorkerStep(w) \/ WorkerTrouble(w)

IntakeNext ==
    \/ BatchNext
    \/ LifecycleNext /\ UNCHANGED batchVars
    \/ JobNext /\ UNCHANGED batchVars

IntakeSpec == IntakeInit /\ [][IntakeNext]_intakeVars

\* A worker process that runs goes on; the container restarts the service.
IntakeFairness ==
    /\ \A w \in Workers : WF_intakeVars(~At(w, "down") /\ WorkerStep(w) /\ UNCHANGED batchVars)
    /\ WF_intakeVars(StartWorker(Service) /\ UNCHANGED batchVars)

FairIntakeSpec == IntakeSpec /\ IntakeFairness

-----------------------------------------------------------------------------
(* Properties *)

\* Rows, jobs, items, batch and workers keep their types.
IntakeTypeOK ==
    /\ doc \in [Docs -> Row] /\ media \subseteq Docs
    /\ deleting \subseteq Docs
    /\ job \in [JobIds -> Job]
    /\ item \in [JobIds -> [Docs -> ItemStatus]]
    /\ run \in [Workers -> Run]
    /\ torn \subseteq JobIds /\ doubled \subseteq JobIds
    /\ batch \in Batch /\ receipt \in [Docs -> ReceiptStates]

\* A document that exists becomes searchable only when an administrator
\* restores it, or when a worker marks it as the item in hand; an intake
\* document gets that far only once its batch is finalized.  A failed attempt,
\* a recovery or a retry never brings a hidden document back.
BecomesSearchableKnowingly ==
    [][\A d \in Docs :
          Exists(d) /\ ~Searchable(d) /\ Searchable(d)' =>
             \/ Restore(d) \/ RestoreUnavailable(d)
             \/ \E w \in Workers :
                   /\ run[w].at = d /\ run[w].pc \in {"mark", "ready"}
                   /\ doc[d].life = "intake" => batch.status = "finalized"]_intakeVars

\* A job that reports success has processed every document it was queued for,
\* through crashes, recoveries and retries of its items; the exceptions are a
\* recovery that died half way and two workers that ran the job together.
CompletedJobsAreComplete ==
    \A j \in JobIds \ (torn \cup doubled) :
        job[j].status = "completed" => ItemsOf(j, {"queued", "running", "failed"}) = {}

\* The job of a batch and its manifest name the same documents, for good:
\* nothing the intake does later removes one of them or queues it twice.
FinalizedManifestIsKept ==
    batch.job # 0 =>
        /\ \A d \in Docs :
              /\ item[batch.job][d] # "none" => receipt[d] = "received"
              /\ receipt[d] = "received" /\ Exists(d) => item[batch.job][d] # "none"
        /\ \A j \in Created \ {batch.job} : Cardinality(ItemsOf(j, ItemStatus \ {"none"})) = 1

\* Every queued job ends, unless a worker died on it: a job that was young
\* when the worker came back is running for ever.
QueuedJobsEnd ==
    \A j \in JobIds :
        job[j].status = "queued" ~>
            \/ job[j].status \in {"completed", "failed"}
            \/ crashes > 0 /\ job[j].status = "running" /\ Runners(j) = {}

=============================================================================
