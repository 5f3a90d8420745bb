-------------------------- MODULE VaultPublication --------------------------
(***************************************************************************)
(* Publication of generations into the Vault and promotion of the          *)
(* authoritative pointer (flowdocs/vaultops/services/publication.py and    *)
(* core/registration.py), by worker processes that hold the global writer  *)
(* authority, with what else changes the rows of the generations:          *)
(* inventory, retirement, and the loss and retry of the jobs.              *)
(*                                                                         *)
(* A generation is what one publication job produces from its finalized    *)
(* snapshot.  The bytes of its manifest differ from one attempt to the     *)
(* next by the writer epoch they record, so the epoch stands for the       *)
(* digest.  Uploads of content-addressed objects are one step.             *)
(***************************************************************************)
EXTENDS GlobalWriter, FiniteSets

CONSTANTS
    Gens,         \* generations
    First,        \* the one that was published before the model begins
    None,         \* no generation, no worker
    MaxClaims,    \* bound: attempts at jobs
    MaxRenewals,  \* bound: renewals under one epoch
    MaxFaults,    \* bound: crashes, lost jobs, store errors, lost answers
    MaxChecks     \* bound: inventory checks

ASSUME PublicationBounds ==
    MaxClaims \in Nat /\ MaxRenewals \in Nat /\ MaxFaults \in Nat /\ MaxChecks \in Nat
ASSUME FirstAssumption == First \in Gens /\ None \notin Gens \cup Workers

VARIABLES
    manifest,    \* manifest[g]: digest of the stored manifest, 0 when absent
    pointer,     \* the authoritative pointer object
    row,         \* row[g]: ArtifactGeneration
    attested,    \* attested[g]: digest a publication validation names, 0 none
    projected,   \* authoritative_generation_id of VaultDatasetProjection
    job,         \* job[op][g]: the VaultJob
    run,         \* run[w]: the attempt in hand
    check,       \* the inventory check under way
    apart,       \* rows were left behind the pointer by a named cause
    claims, faults, checks   \* consumed bounds

store   == <<manifest, pointer>>
rows    == <<row, attested, projected>>
bounds  == <<claims, faults, checks>>
vars    == <<writerVars, store, rows, job, run, check, apart, bounds>>

Ops       == {"publish", "promote"}
NoPointer == [gen |-> None, prev |-> None, digest |-> 0, epoch |-> 0]
Pointer   == [gen: Gens \cup {None}, prev: Gens \cup {None}, digest: Nat, epoch: Nat]
Row       == [state: {"none", "CANDIDATE", "AUTHORITATIVE", "RETIRED"}, digest: Nat]
Job       == [status: {"none", "queued", "running", "stopped", "ended"},
              owner: Workers \cup {None}]
PCs       == {"idle", "check", "read", "take", "upload", "validate", "manifest", "row",
              "attest", "pointer", "previous", "cas", "rows", "release", "expire",
              "complete"}
\* seen: the pointer as it was read; digest: of the manifest; ok, final: how the
\* attempt ended, final when a retry is refused.
Run       == [pc: PCs, op: Ops, gen: Gens \cup {None}, seen: Pointer, digest: Nat,
              ok: BOOLEAN, final: BOOLEAN]
Idle      == [pc |-> "idle", op |-> "publish", gen |-> None, seen |-> NoPointer,
              digest |-> 0, ok |-> FALSE, final |-> FALSE]
NoCheck   == [gen |-> None, seen |-> NoPointer, digest |-> 0]

Init ==
    /\ WriterInit(1)
    /\ manifest = [g \in Gens |-> IF g = First THEN 1 ELSE 0]
    /\ pointer = NoPointer
    /\ row = [g \in Gens |-> IF g = First THEN [state |-> "CANDIDATE", digest |-> 1]
                             ELSE [state |-> "none", digest |-> 0]]
    /\ attested = manifest
    /\ projected = None
    /\ job = [op \in Ops |-> [g \in Gens |->
                IF op = "publish" /\ g = First THEN [status |-> "ended", owner |-> None]
                ELSE [status |-> "none", owner |-> None]]]
    /\ run = [w \in Workers |-> Idle]
    /\ check = NoCheck /\ apart = FALSE
    /\ claims = 0 /\ faults = 0 /\ checks = 0

At(w, pc)    == run[w].pc = pc
Step(w, r)   == run' = [run EXCEPT ![w] = r]
Goto(w, pc)  == Step(w, [run[w] EXCEPT !.pc = pc])
Publishes(w) == run[w].op = "publish"
Fault        == faults < MaxFaults /\ faults' = faults + 1

\* An attempt is refused before it holds the authority, or raises while it does.
Refuse(w, final) == Step(w, [run[w] EXCEPT !.pc = "complete", !.final = final])
Raise(w)         == Goto(w, "release")

-----------------------------------------------------------------------------
(* Jobs                                                                    *)

\* queue_sync_job, and the promote view or automatic promotion; a promotion of
\* the generation that was promoted before is a new job.
QueueJob(op, g) ==
    /\ \/ op = "publish" /\ job[op][g].status = "none"
       \/ /\ op = "promote" /\ job[op][g].status \in {"none", "ended"}
          /\ row[g].state = "CANDIDATE"
    /\ job' = [job EXCEPT ![op][g].status = "queued"]
    /\ UNCHANGED <<writerVars, store, rows, run, check, apart, bounds>>

Claim(w, op, g) ==
    /\ At(w, "idle")
    /\ job[op][g].status = "queued"
    /\ claims < MaxClaims /\ claims' = claims + 1
    /\ job' = [job EXCEPT ![op][g] = [status |-> "running", owner |-> w]]
    /\ Step(w, [Idle EXCEPT !.pc = IF op = "publish" THEN "read" ELSE "check",
                            !.op = op, !.gen = g])
    /\ UNCHANGED <<writerVars, store, rows, check, apart, faults, checks>>

\* recover_stale_jobs: the worker may be dead, or only slow.
LoseJob(op, g) ==
    /\ job[op][g].status = "running"
    /\ Fault
    /\ job' = [job EXCEPT ![op][g] = [status |-> "stopped", owner |-> None]]
    /\ UNCHANGED <<writerVars, store, rows, run, check, apart, claims, checks>>

Retry(op, g) ==
    /\ job[op][g].status = "stopped"
    /\ job' = [job EXCEPT ![op][g].status = "queued"]
    /\ UNCHANGED <<writerVars, store, rows, run, check, apart, bounds>>

Owns(w) == job[run[w].op][run[w].gen] = [status |-> "running", owner |-> w]

\* complete_owned_job or fail_owned_job; refused when the job was taken away.
Complete(w) ==
    /\ At(w, "complete")
    /\ LET r == run[w]
       IN  job' = IF Owns(w)
                  THEN [job EXCEPT ![r.op][r.gen] =
                          [status |-> IF r.ok \/ r.final THEN "ended" ELSE "stopped",
                           owner |-> None]]
                  ELSE job
    /\ Step(w, Idle)
    /\ UNCHANGED <<writerVars, store, rows, check, apart, bounds>>

-----------------------------------------------------------------------------
(* The authority, before and after                                         *)

\* promote_candidate, before: the row and its validation are read, then the
\* stored manifest; the validation may also have expired.
CheckCandidate(w) ==
    /\ At(w, "check")
    /\ LET g == run[w].gen
       IN  \/ /\ row[g].state = "CANDIDATE" /\ attested[g] = row[g].digest
              /\ IF manifest[g] = row[g].digest
                 THEN Step(w, [run[w] EXCEPT !.pc = "read", !.digest = row[g].digest])
                 ELSE Refuse(w, FALSE)
           \/ Refuse(w, TRUE)
    /\ UNCHANGED <<writerVars, store, rows, job, check, apart, bounds>>

Acquire(w) ==
    /\ \/ At(w, "read") /\ ~Held /\ AcquireRead(w) /\ Goto(w, "take")
       \/ At(w, "read") /\ Held /\ Refuse(w, FALSE) /\ UNCHANGED writerVars
       \/ /\ At(w, "take") /\ AcquirePut(w)
          /\ Goto(w, IF Publishes(w) THEN "upload" ELSE "validate")
       \/ At(w, "take") /\ ~CanAcquire(w) /\ Refuse(w, FALSE) /\ UNCHANGED writerVars
    /\ UNCHANGED <<store, rows, job, check, apart, bounds>>

\* The answer to the put is lost: the grant is stored and nobody holds it.
AcquireUnanswered(w) ==
    /\ At(w, "take") /\ AcquirePut(w)
    /\ Fault
    /\ Refuse(w, FALSE)
    /\ UNCHANGED <<store, rows, job, check, apart, claims, checks>>

\* Between the objects of an upload.
RenewGrant(w) ==
    /\ At(w, "upload")
    /\ writer.rev < MaxRenewals
    /\ \/ Renew(w) /\ UNCHANGED run
       \/ ~CanRenew(w) /\ Raise(w) /\ UNCHANGED writerVars
    /\ UNCHANGED <<store, rows, job, check, apart, bounds>>

\* The objects are stored; the heartbeat after each one is refused when the job
\* was taken away.
UploadObjects(w) ==
    /\ At(w, "upload")
    /\ IF Owns(w) THEN Goto(w, "validate") ELSE Raise(w)
    /\ UNCHANGED <<writerVars, store, rows, job, check, apart, bounds>>

ValidateGrant(w) ==
    /\ At(w, "validate")
    /\ \/ Validate(w) /\ Goto(w, IF Publishes(w) THEN "manifest" ELSE "pointer")
       \/ ~Valid(w) /\ Raise(w) /\ UNCHANGED writerVars
    /\ UNCHANGED <<store, rows, job, check, apart, bounds>>

\* The finally clause, whatever went before; what it raises is dropped.
ReleaseGrant(w) ==
    /\ \/ At(w, "release") /\ ReleaseRead(w) /\ Goto(w, "expire")
       \/ At(w, "release") /\ ~CanRelease(w) /\ Goto(w, "complete") /\ UNCHANGED writerVars
       \/ At(w, "expire") /\ ReleasePut(w) /\ Goto(w, "complete")
    /\ UNCHANGED <<store, rows, job, check, apart, bounds>>

-----------------------------------------------------------------------------
(* publish_snapshot_candidate, with the authority                          *)

\* _put_manifest_immutable: a manifest that is there must be the same one.
PutManifest(w) ==
    /\ At(w, "manifest")
    /\ LET g == run[w].gen
       IN  IF manifest[g] \in {0, auth[w].epoch}
           THEN /\ manifest' = [manifest EXCEPT ![g] = auth[w].epoch]
                /\ Step(w, [run[w] EXCEPT !.pc = "row", !.digest = auth[w].epoch])
           ELSE Raise(w) /\ UNCHANGED manifest
    /\ UNCHANGED <<writerVars, pointer, rows, job, check, apart, bounds>>

\* The row becomes a candidate, whatever it was.
WriteCandidate(w) ==
    /\ At(w, "row")
    /\ LET g == run[w].gen
       IN  /\ row' = [row EXCEPT ![g] = [state |-> "CANDIDATE", digest |-> run[w].digest]]
           /\ apart' = (apart \/ row[g].state = "AUTHORITATIVE")
    /\ Goto(w, "attest")
    /\ UNCHANGED <<writerVars, store, attested, projected, job, check, bounds>>

Attest(w) ==
    /\ At(w, "attest")
    /\ attested' = [attested EXCEPT ![run[w].gen] = run[w].digest]
    /\ Step(w, [run[w] EXCEPT !.pc = "release", !.ok = TRUE])
    /\ UNCHANGED <<writerVars, store, row, projected, job, check, apart, bounds>>

-----------------------------------------------------------------------------
(* promote_candidate, with the authority                                   *)

ReadPointer(w) ==
    /\ At(w, "pointer")
    /\ Step(w, [run[w] EXCEPT !.pc = "previous", !.seen = pointer])
    /\ UNCHANGED <<writerVars, store, rows, job, check, apart, bounds>>

\* update_authoritative_pointer reads the pointer again, for its epoch.
ComparePointer(w) ==
    /\ At(w, "previous")
    /\ IF pointer # NoPointer /\ (run[w].seen = NoPointer \/ auth[w].epoch < pointer.epoch)
       THEN Raise(w) ELSE Goto(w, "cas")
    /\ UNCHANGED <<writerVars, store, rows, job, check, apart, bounds>>

Moved(w) == [gen |-> run[w].gen, prev |-> run[w].seen.gen, digest |-> run[w].digest,
             epoch |-> auth[w].epoch]

\* Fault: the pointer is put without a condition.
PutPointerAnyway(w) ==
    /\ At(w, "cas")
    /\ pointer' = Moved(w) /\ Goto(w, "rows")
    /\ UNCHANGED <<writerVars, manifest, rows, job, check, apart, bounds>>

\* The conditional put; the answer to one that succeeds may be lost.
PutPointer(w) ==
    /\ At(w, "cas")
    /\ \/ /\ pointer = run[w].seen
          /\ pointer' = Moved(w)
          /\ \/ Goto(w, "rows") /\ UNCHANGED <<apart, faults>>
             \/ Fault /\ Raise(w) /\ apart' = TRUE
       \/ pointer # run[w].seen /\ Raise(w) /\ UNCHANGED <<pointer, apart, faults>>
    /\ UNCHANGED <<writerVars, manifest, rows, job, check, claims, checks>>

\* Fault: the previous authoritative row is left.
PromoteRowOnly(w) ==
    /\ At(w, "rows")
    /\ row' = [row EXCEPT ![run[w].gen].state = "AUTHORITATIVE"]
    /\ apart' = (pointer.epoch # auth[w].epoch)
    /\ Step(w, [run[w] EXCEPT !.pc = "release", !.ok = TRUE])
    /\ UNCHANGED <<writerVars, store, attested, projected, job, check, bounds>>

\* One transaction: the authoritative rows become candidates and this one
\* authoritative; a retired row refuses and nothing changes.
PromoteRows(w) ==
    /\ At(w, "rows")
    /\ LET g == run[w].gen
       IN  IF row[g].state \in {"CANDIDATE", "AUTHORITATIVE"}
           THEN /\ row' = [h \in Gens |->
                     CASE h = g -> [row[h] EXCEPT !.state = "AUTHORITATIVE"]
                       [] h # g /\ row[h].state = "AUTHORITATIVE"
                            -> [row[h] EXCEPT !.state = "CANDIDATE"]
                       [] OTHER -> row[h]]
                /\ apart' = (pointer.epoch # auth[w].epoch)
                /\ Step(w, [run[w] EXCEPT !.pc = "release", !.ok = TRUE])
           ELSE Raise(w) /\ apart' = TRUE /\ UNCHANGED row
    /\ UNCHANGED <<writerVars, store, attested, projected, job, check, bounds>>

-----------------------------------------------------------------------------
(* What else happens                                                       *)

\* An error of the store or the database, and a process that dies; either
\* leaves a moved pointer without its rows.  An error before the first upload
\* is outside the try block and leaves the grant held.
Trouble(w) ==
    /\ run[w].pc \notin {"idle", "complete"}
    /\ Fault
    /\ \/ run[w].pc \in {"check", "read", "take", "upload", "release", "expire"}
          /\ Goto(w, "complete")
       \/ run[w].pc \notin {"check", "read", "take", "release", "expire"}
          /\ Raise(w)
    /\ apart' = (apart \/ At(w, "rows"))
    /\ UNCHANGED <<writerVars, store, rows, job, check, claims, checks>>

Crash(w) ==
    /\ ~At(w, "idle")
    /\ Fault
    /\ Step(w, Idle)
    /\ auth' = [auth EXCEPT ![w] = NoGrant]
    /\ apart' = (apart \/ At(w, "rows"))
    /\ UNCHANGED <<writer, store, rows, job, check, claims, checks>>

\* verify_generation reads the pointer, the manifest and every object; then
\* project_verified_generation writes what was read, whatever is there now.
ReadInventory(g) ==
    /\ check = NoCheck /\ checks < MaxChecks /\ checks' = checks + 1
    /\ pointer # NoPointer /\ manifest[g] # 0
    /\ check' = [gen |-> g, seen |-> pointer, digest |-> manifest[g]]
    /\ UNCHANGED <<writerVars, store, rows, job, run, apart, claims, faults>>

ProjectInventory ==
    /\ check # NoCheck
    /\ projected' = check.seen.gen
    /\ row' = [row EXCEPT ![check.gen] =
                 [state |-> IF check.seen.gen = check.gen THEN "AUTHORITATIVE" ELSE "CANDIDATE",
                  digest |-> check.digest]]
    /\ apart' = (apart \/ check.seen # pointer)
    /\ check' = NoCheck
    /\ UNCHANGED <<writerVars, store, attested, job, run, bounds>>

\* retire_generation and unretire_generation.
Retire(g) ==
    /\ row[g].state = "CANDIDATE" /\ projected # g
    /\ \A op \in Ops : job[op][g].status \notin {"queued", "running"}
    /\ row' = [row EXCEPT ![g].state = "RETIRED"]
    /\ UNCHANGED <<writerVars, store, attested, projected, job, run, check, apart, bounds>>

Unretire(g) ==
    /\ row[g].state = "RETIRED"
    /\ row' = [row EXCEPT ![g].state = "CANDIDATE"]
    /\ UNCHANGED <<writerVars, store, attested, projected, job, run, check, apart, bounds>>

LapseGrant == Lapse /\ UNCHANGED <<store, rows, job, run, check, apart, bounds>>

Attempt(w) ==
    \/ CheckCandidate(w) \/ Acquire(w) \/ AcquireUnanswered(w)
    \/ RenewGrant(w) \/ UploadObjects(w)
    \/ ValidateGrant(w) \/ PutManifest(w) \/ WriteCandidate(w) \/ Attest(w)
    \/ ReadPointer(w) \/ ComparePointer(w) \/ PutPointer(w) \/ PromoteRows(w)
    \/ ReleaseGrant(w) \/ Complete(w) \/ Trouble(w) \/ Crash(w)

Next ==
    \/ \E w \in Workers : Attempt(w) \/ \E op \in Ops, g \in Gens : Claim(w, op, g)
    \/ \E op \in Ops, g \in Gens : QueueJob(op, g) \/ LoseJob(op, g) \/ Retry(op, g)
    \/ \E g \in Gens : ReadInventory(g) \/ Retire(g) \/ Unretire(g)
    \/ ProjectInventory \/ LapseGrant

Spec == Init /\ [][Next]_vars

-----------------------------------------------------------------------------
(* Properties *)

\* Store, rows, jobs, attempts and the authority keep their types.
TypeOK ==
    /\ writer \in Record /\ auth \in [Workers -> Grant]
    /\ manifest \in [Gens -> Nat] /\ pointer \in Pointer
    /\ row \in [Gens -> Row] /\ attested \in [Gens -> Nat] /\ projected \in Gens \cup {None}
    /\ job \in [Ops -> [Gens -> Job]] /\ run \in [Workers -> Run]

\* However attempts overlap, lapse, die and come back, the Vault shows one
\* line of authoritative generations over manifests that never change.
Line == INSTANCE AuthorityLine WITH manifests <- manifest, head <- pointer
KeepsAuthorityLine == Line!Spec

\* Exactly the generation the pointer names is authoritative in the rows, once
\* the promotion that moved it has written them.  What leaves the rows behind
\* is named by apart: a promotion that dies, is not answered, is refused by a
\* retired row or was overtaken after its grant lapsed; an inventory that was
\* read before the pointer moved; a late publication that resets the row.
RowsFollowPointer ==
    /\ ~apart
    /\ \A w \in Workers : ~At(w, "rows")
    => {g \in Gens : row[g].state = "AUTHORITATIVE"} = {pointer.gen} \ {None}

\* A grant ends by its own holder or by time: a late holder's release never
\* ends the grant of a successor. (docs/VAULT_ACTIVE_SYNC.md)
SuccessorsKeepTheirGrant ==
    [][(~writer.expired /\ writer'.expired) =>
         \/ Lapse
         \/ \E w \in Workers : At(w, "expire") /\ auth[w].epoch = writer.epoch]_vars

=============================================================================
