-------------------------- MODULE VaultJobsProofs --------------------------
(* Proofs about VaultJobs for every set of workers, jobs and requests.      *)
EXTENDS VaultJobs, TLAPS

\* A process holds no token before it has claimed, and names a job afterwards.
PlaceInv ==
    \A w \in Workers :
        IF worker[w].pc \in {"down", "boot", "recover", "loop"}
        THEN worker[w].token = NoToken
        ELSE /\ worker[w].job \in Jobs
             /\ worker[w].pc = "claim" => worker[w].token = NoToken

\* No claim that a process remembers is ahead of the job's fencing epoch.
EpochInv ==
    \A w \in Workers :
        worker[w].token # NoToken => worker[w].epoch <= job[worker[w].job].epoch

\* The token of a held job is the one of its latest claim.
HeldInv == \A j \in Jobs : job[j].status \in Held => job[j].token = latest[j]

\* The version that an honoured request has read is over.
RetryInv ==
    \A r \in Requests :
        request[r].receipt => /\ request[r].job \in Jobs
                              /\ request[r].version < job[request[r].job].version

\* What the steps preserve together.
IInv == /\ TypeOK /\ PlaceInv /\ EpochInv /\ HeldInv /\ RetryInv
        /\ EpochNamesOneClaim /\ RetriesHonouredOnce

-----------------------------------------------------------------------------
(* The steps that touch no row: a worker reads, moves on, goes home or dies *)

ReadsOnly(w) ==
    \/ ListStaleJobs(w) \/ EnterLoop(w) \/ WorkerStarts(w)
    \/ \E j \in Jobs : RecoveryRefused(w, j) \/ FindCandidate(w, j)
    \/ ClaimRefused(w) \/ CheckCancelled(w) \/ StartRefused(w)
    \/ \E irreversible \in BOOLEAN : WorkDone(w, irreversible)
    \/ WorkCancelled(w) \/ WorkFails(w)
    \/ CompleteRefused(w) \/ SettleRefused(w) \/ CheckError(w)
    \/ \E s \in {"retryable_failed", "terminal_failed"} : FailRefused(w, s)
    \/ WorkerDies(w)

\* The steps in which the holder of a claim writes its row.
WritesRow(w) ==
    \/ StartJob(w) \/ Heartbeat(w) \/ CompleteJob(w)
    \/ \E s \in {"retryable_failed", "terminal_failed"} : FailJob(w, s)

\* The steps that write row j for another reason than a claim's progress.
TouchesRow(j) ==
    \/ QueueJob(j) \/ RequestCancellation(j) \/ HeartbeatAges(j)
    \/ \E w \in Workers : RecoverStaleJob(w, j)

\* The steps fall into six groups.
LEMMA StepGroups ==
    Next <=> \/ \E w \in Workers : ReadsOnly(w) \/ ClaimJob(w) \/ WritesRow(w)
             \/ \E j \in Jobs : TouchesRow(j)
             \/ \E r \in Requests, j \in Jobs : ReadForRetry(r, j)
             \/ \E r \in Requests : RequeueJob(r)
BY DEF Next, WorkerNext, OperatorNext, Boot, Execute, ReadsOnly, WritesRow, TouchesRow

\* No row loses an epoch or a version.
RowsGrow ==
    \A j \in Jobs : /\ job[j].epoch <= job'[j].epoch
                    /\ job[j].version <= job'[j].version

\* What a process remembers of a claim stays, or goes as a whole.
ClaimsKept ==
    \A w \in Workers :
        \/ worker'[w].token = NoToken
        \/ /\ worker'[w].job = worker[w].job
           /\ worker'[w].token = worker[w].token
           /\ worker'[w].epoch = worker[w].epoch

\* What a step leaves of a claim c: none, or the same one at another place.
Leaves(c, d) ==
    \/ /\ d.pc \in {"down", "boot", "recover", "loop", "claim"}
       /\ d.token = NoToken
       /\ d.pc = "claim" => d.job \in Jobs
    \/ /\ d.pc \notin {"down", "boot", "recover", "loop", "claim"}
       /\ d.job \in Jobs /\ d.job = c.job
       /\ d.token = c.token /\ d.epoch = c.epoch

\* The step moves worker w only, and leaves of its claim what it may.
Moves(w) ==
    /\ \E d \in Claim : worker' = [worker EXCEPT ![w] = d]
    /\ Leaves(worker[w], worker'[w])

\* The step writes row j only: its epoch and version do not fall, and if the
\* row is then held, its token is the one of the latest claim.
RowWritten(j) ==
    /\ \E r \in Row : job' = [job EXCEPT ![j] = r]
    /\ \E t \in Nat : latest' = [latest EXCEPT ![j] = t]
    /\ job[j].epoch <= job'[j].epoch /\ job[j].version <= job'[j].version
    /\ job'[j].status \in Held => job'[j].token = latest'[j]

\* Only a row that is held already can turn to cancelling.
LEMMA CancellableIsHeld ==
    ASSUME NEW s \in Statuses, Allowed(s, "cancelling")
    PROVE  s \in Held
BY DEF Statuses, Allowed, Transitions, Held

\* A settled, queued or stale row is a row that nobody holds.
LEMMA WrittenStatuses ==
    /\ \A w \in Workers : Requested(w) \in Settled
    /\ Settled \subseteq Statuses \ Held
    /\ Held \subseteq Statuses
    /\ {"queued", "stale"} \subseteq Statuses \ Held
BY DEF Requested, Settled, Statuses, Held

-----------------------------------------------------------------------------
\* Nothing is queued, claimed or requested at the start.
LEMMA InitInv == Init => IInv
<1> SUFFICES ASSUME Init PROVE IInv
  OBVIOUS
<1> USE DEF Init
<1>1. NoRow \in Row /\ Nothing("boot") \in Claim /\ NoRequest \in Retry
  BY DEF NoRow, Row, Statuses, Beats, NoToken, Nothing, Claim, PCs, NoRequest, Retry
<1>2. TypeOK
  BY <1>1, BoundsAssumption DEF TypeOK, NoToken
<1>3. \A w \in Workers : worker[w].pc = "boot" /\ worker[w].token = NoToken
  BY DEF Nothing
<1>4. PlaceInv /\ EpochInv /\ EpochNamesOneClaim
  BY <1>3 DEF PlaceInv, EpochInv, EpochNamesOneClaim
<1>5. HeldInv
  BY DEF HeldInv, NoRow, Held
<1>6. RetryInv /\ RetriesHonouredOnce
  BY DEF RetryInv, RetriesHonouredOnce, NoRequest
<1> QED BY <1>2, <1>4, <1>5, <1>6 DEF IInv

-----------------------------------------------------------------------------
\* A worker that moves keeps its place and what is left of its claim.
LEMMA MovesKeeps ==
    ASSUME TypeOK, PlaceInv, NEW w \in Workers, Moves(w)
    PROVE  worker' \in [Workers -> Claim] /\ PlaceInv' /\ ClaimsKept
<1>1. worker' \in [Workers -> Claim]
  BY DEF Moves, TypeOK
<1>2. \A v \in Workers : v # w => worker'[v] = worker[v]
  BY DEF Moves, TypeOK
<1>3. Leaves(worker[w], worker'[w])
  BY DEF Moves
<1>4. PlaceInv'
  <2> SUFFICES ASSUME NEW v \in Workers
               PROVE  IF worker'[v].pc \in {"down", "boot", "recover", "loop"}
                      THEN worker'[v].token = NoToken
                      ELSE /\ worker'[v].job \in Jobs
                           /\ worker'[v].pc = "claim" => worker'[v].token = NoToken
    BY DEF PlaceInv
  <2>1. CASE v = w
    BY <1>3, <2>1 DEF Leaves
  <2>2. CASE v # w
    BY <1>2, <2>2 DEF PlaceInv
  <2> QED BY <2>1, <2>2
<1>5. ClaimsKept
  BY <1>2, <1>3 DEF ClaimsKept, Leaves
<1> QED BY <1>1, <1>4, <1>5

\* A worker that reads and moves on keeps the types, the claims and the rows.
LEMMA ReadsOnlyStep ==
    ASSUME TypeOK, PlaceInv, NEW w \in Workers, ReadsOnly(w)
    PROVE  /\ TypeOK' /\ PlaceInv' /\ ClaimsKept
           /\ UNCHANGED <<job, request, latest>>
<1>1. UNCHANGED <<job, request, latest, issued, stalls, cancels>>
  BY DEF ReadsOnly, ListStaleJobs, EnterLoop, WorkerStarts, RecoveryRefused, FindCandidate,
         ClaimRefused, CheckCancelled, StartRefused, WorkDone, WorkCancelled, WorkFails,
         CompleteRefused, SettleRefused, CheckError, FailRefused, WorkerDies, bounds
<1>2. todo' \in [Workers -> SUBSET Jobs] /\ crashes' \in 0..MaxCrashes
  <2>1. CASE ListStaleJobs(w)
    BY <2>1 DEF ListStaleJobs, bounds, TypeOK
  <2>2. CASE WorkerDies(w)
    BY <2>2, BoundsAssumption DEF WorkerDies, TypeOK
  <2>3. CASE \E j \in Jobs : RecoveryRefused(w, j)
    BY <2>3 DEF RecoveryRefused, bounds, TypeOK
  <2>4. CASE UNCHANGED <<todo, crashes>>
    BY <2>4 DEF TypeOK
  <2> QED
    BY <2>1, <2>2, <2>3, <2>4
    DEF ReadsOnly, EnterLoop, WorkerStarts, FindCandidate, ClaimRefused, CheckCancelled,
        StartRefused, WorkDone, WorkCancelled, WorkFails, CompleteRefused, SettleRefused,
        CheckError, FailRefused, bounds
<1>3. Moves(w)
  <2> USE DEF Moves, Leaves
  <2>1. worker[w] \in Claim /\ worker \in [Workers -> Claim]
    BY DEF TypeOK
  <2>2. CASE ListStaleJobs(w) \/ EnterLoop(w) \/ WorkerStarts(w)
    <3>1. PICK pc \in {"recover", "loop", "boot"} :
             worker' = [worker EXCEPT ![w] = [worker[w] EXCEPT !.pc = pc]]
      BY <2>2 DEF ListStaleJobs, EnterLoop, WorkerStarts, Goto
    <3>2. worker[w].token = NoToken
      BY <2>2 DEF ListStaleJobs, EnterLoop, WorkerStarts, PlaceInv
    <3> QED BY <2>1, <3>1, <3>2 DEF Claim, PCs
  <2>3. CASE \/ \E j \in Jobs : RecoveryRefused(w, j)
             \/ ClaimRefused(w) \/ StartRefused(w) \/ SettleRefused(w) \/ WorkerDies(w)
             \/ \E s \in {"retryable_failed", "terminal_failed"} : FailRefused(w, s)
    <3>1. PICK pc \in {"down", "loop"} : worker' = [worker EXCEPT ![w] = Nothing(pc)]
      BY <2>3 DEF RecoveryRefused, ClaimRefused, StartRefused, SettleRefused, WorkerDies,
                  FailRefused, GoHome, GoDown
    <3>2. Nothing(pc) \in Claim /\ Nothing(pc).token = NoToken /\ Nothing(pc).pc = pc
      BY DEF Nothing, Claim, PCs, NoToken
    <3>3. worker'[w] = Nothing(pc)
      BY <2>1, <3>1
    <3> QED BY <3>1, <3>2, <3>3
  <2>4. CASE \E j \in Jobs : FindCandidate(w, j)
    <3>1. PICK j \in Jobs :
             worker' = [worker EXCEPT ![w] = [worker[w] EXCEPT !.pc = "claim", !.job = j]]
      BY <2>4 DEF FindCandidate
    <3>2. worker[w].token = NoToken
      BY <2>4 DEF FindCandidate, PlaceInv
    <3> QED BY <2>1, <3>1, <3>2 DEF Claim, PCs
  <2>5. CASE \/ CheckCancelled(w) \/ WorkCancelled(w) \/ WorkFails(w) \/ CompleteRefused(w)
             \/ CheckError(w)
    <3>1. worker[w].job \in Jobs
      BY <2>5 DEF CheckCancelled, WorkCancelled, WorkFails, CompleteRefused, CheckError, PlaceInv
    <3>2. PICK pc \in {"settle", "start", "errorCheck", "fail"} :
             worker' = [worker EXCEPT ![w] = [worker[w] EXCEPT !.pc = pc]]
      <4>1. CASE CheckCancelled(w)
        BY <4>1 DEF CheckCancelled, Goto
      <4>2. CASE CheckError(w)
        BY <4>2 DEF CheckError, Goto
      <4>3. CASE WorkCancelled(w) \/ WorkFails(w) \/ CompleteRefused(w)
        BY <4>3 DEF WorkCancelled, WorkFails, CompleteRefused, Goto
      <4> QED BY <2>5, <4>1, <4>2, <4>3
    <3> QED BY <2>1, <3>1, <3>2 DEF Claim, PCs
  <2>6. CASE \E irreversible \in BOOLEAN : WorkDone(w, irreversible)
    <3>1. worker[w].job \in Jobs
      BY <2>6 DEF WorkDone, PlaceInv
    <3>2. PICK b \in BOOLEAN :
             worker' = [worker EXCEPT ![w] = [worker[w] EXCEPT !.pc = "complete", !.done = b]]
      BY <2>6 DEF WorkDone
    <3> QED BY <2>1, <3>1, <3>2 DEF Claim, PCs
  <2> QED BY <2>2, <2>3, <2>4, <2>5, <2>6 DEF ReadsOnly
<1>4. worker' \in [Workers -> Claim] /\ PlaceInv' /\ ClaimsKept
  BY <1>3, MovesKeeps
<1>5. TypeOK'
  BY <1>1, <1>2, <1>4 DEF TypeOK
<1> QED BY <1>1, <1>4, <1>5

-----------------------------------------------------------------------------
\* A written row keeps the types, the growth of rows and the latest claims.
LEMMA RowWrittenKeeps ==
    ASSUME TypeOK, HeldInv, NEW j \in Jobs, RowWritten(j)
    PROVE  job' \in [Jobs -> Row] /\ latest' \in [Jobs -> Nat] /\ RowsGrow /\ HeldInv'
<1>1. job' \in [Jobs -> Row] /\ latest' \in [Jobs -> Nat]
  BY DEF RowWritten, TypeOK
<1>2. \A i \in Jobs : i # j => job'[i] = job[i] /\ latest'[i] = latest[i]
  BY DEF RowWritten, TypeOK
<1>3. RowsGrow
  <2>1. \A i \in Jobs : job[i].epoch \in Nat /\ job[i].version \in Nat
    BY DEF TypeOK, Row
  <2>2. job[j].epoch <= job'[j].epoch /\ job[j].version <= job'[j].version
    BY DEF RowWritten
  <2> QED BY <1>2, <2>1, <2>2 DEF RowsGrow
<1>4. HeldInv'
  BY <1>2 DEF HeldInv, RowWritten
<1> QED BY <1>1, <1>3, <1>4

\* The edits of a row that the actions make give a row.
LEMMA EditedRow ==
    ASSUME NEW r \in Row, NEW s \in Statuses, NEW b \in Beats, NEW t \in Nat
    PROVE  /\ r.version + 1 \in Nat /\ r.version <= r.version + 1
           /\ r.epoch + 1 \in Nat /\ r.epoch <= r.epoch + 1 /\ r.epoch <= r.epoch
           /\ [r EXCEPT !.status = s] \in Row
           /\ [r EXCEPT !.beat = b] \in Row
           /\ [r EXCEPT !.status = s, !.version = r.version + 1] \in Row
           /\ [r EXCEPT !.status = s, !.beat = b, !.version = r.version + 1] \in Row
           /\ [r EXCEPT !.status = s, !.token = t, !.version = r.version + 1] \in Row
           /\ [r EXCEPT !.status = s, !.token = t, !.beat = b,
                        !.version = r.version + 1] \in Row
           /\ [r EXCEPT !.status = s, !.token = t, !.beat = b, !.epoch = r.epoch + 1,
                        !.version = r.version + 1] \in Row
<1>1. r.version \in Nat /\ r.epoch \in Nat
  BY DEF Row
<1>2. /\ r.version + 1 \in Nat /\ r.version <= r.version + 1
      /\ r.epoch + 1 \in Nat /\ r.epoch <= r.epoch + 1 /\ r.epoch <= r.epoch
  BY <1>1
<1>3. [r EXCEPT !.status = s] \in Row
  BY DEF Row
<1>4. [r EXCEPT !.beat = b] \in Row
  BY DEF Row
<1>5. [r EXCEPT !.status = s, !.version = r.version + 1] \in Row
  BY <1>2 DEF Row
<1>6. [r EXCEPT !.status = s, !.beat = b, !.version = r.version + 1] \in Row
  BY <1>2 DEF Row
<1>7. [r EXCEPT !.status = s, !.token = t, !.version = r.version + 1] \in Row
  BY <1>2 DEF Row
<1>8. [r EXCEPT !.status = s, !.token = t, !.beat = b, !.version = r.version + 1] \in Row
  BY <1>2 DEF Row
<1>9. [r EXCEPT !.status = s, !.token = t, !.beat = b, !.epoch = r.epoch + 1,
                !.version = r.version + 1] \in Row
  BY <1>2 DEF Row
<1> QED BY <1>2, <1>3, <1>4, <1>5, <1>6, <1>7, <1>8, <1>9

\* A row that is replaced is written, once the latest claim is known.
LEMMA ReplacedRow ==
    ASSUME TypeOK, NEW j \in Jobs, NEW r \in Row, job' = [job EXCEPT ![j] = r],
           NEW t \in Nat, latest' = [latest EXCEPT ![j] = t],
           job[j].epoch <= r.epoch, job[j].version <= r.version,
           r.status \in Held => r.token = t
    PROVE  RowWritten(j) /\ job'[j] = r
<1>1. job'[j] = r /\ latest'[j] = t
  BY DEF TypeOK
<1> QED BY <1>1 DEF RowWritten

\* The holder of a claim writes the row of its job, and settles it by going home.
LEMMA WritesRowStep ==
    ASSUME TypeOK, PlaceInv, HeldInv, NEW w \in Workers, WritesRow(w),
           NEW j, j = worker[w].job
    PROVE  /\ j \in Jobs /\ RowWritten(j) /\ Moves(w)
           /\ worker[w].token = job[j].token
           /\ job'[j].status \in Settled => worker'[w] # worker[w]
           /\ UNCHANGED <<todo, request, issued, latest, bounds>>
<1>1. worker[w] \in Claim /\ worker \in [Workers -> Claim] /\ job \in [Jobs -> Row]
      /\ latest \in [Jobs -> Nat]
  BY DEF TypeOK
<1>2. worker[w].pc \notin {"down", "boot", "recover", "loop", "claim"}
  BY DEF WritesRow, StartJob, Heartbeat, CompleteJob, FailJob
<1>3. j \in Jobs
  BY <1>2 DEF PlaceInv
<1>4. worker[w].token = job[j].token
  BY DEF WritesRow, StartJob, Heartbeat, CompleteJob, FailJob, Completable, Owns
<1>5. UNCHANGED <<todo, request, issued, latest, bounds>>
  BY DEF WritesRow, StartJob, Heartbeat, CompleteJob, FailJob
<1>6. latest' = [latest EXCEPT ![j] = latest[j]] /\ latest[j] \in Nat
  BY <1>1, <1>3, <1>5
<1>7. job[j] \in Row /\ job[j].version \in Nat /\ job[j].epoch \in Nat
  BY <1>1, <1>3 DEF Row
<1>8. ASSUME NEW r \in Row, job' = [job EXCEPT ![j] = r],
             r.epoch = job[j].epoch, job[j].version <= r.version,
             r.status \in Held => job[j].status \in Held /\ r.token = job[j].token
      PROVE  RowWritten(j) /\ job'[j] = r
  <2>1. r.status \in Held => r.token = latest[j]
    BY <1>3, <1>8 DEF HeldInv
  <2>2. job[j].epoch <= r.epoch
    BY <1>7, <1>8
  <2> QED BY <1>3, <1>6, <1>8, <2>1, <2>2, ReplacedRow
<1>9. /\ RowWritten(j)
      /\ StartJob(w) => job'[j].status = "running"
      /\ Heartbeat(w) => job'[j].status \in Held
  <2>1. CASE StartJob(w)
    <3> DEFINE r == [job[j] EXCEPT !.status = "running", !.beat = "fresh",
                                   !.version = job[j].version + 1]
    <3>1. job[j].status \in Held
      BY <1>7, <2>1 DEF StartJob, Allowed, Transitions, Held, Row, Statuses
    <3>2. job' = [job EXCEPT ![j] = r]
      BY <2>1 DEF StartJob
    <3>3. r \in Row
      <4>1. "running" \in Statuses /\ "fresh" \in Beats
        BY DEF Statuses, Beats
      <4> QED BY <1>7, <4>1, EditedRow
    <3>4. /\ r.epoch = job[j].epoch /\ r.token = job[j].token /\ r.status = "running"
          /\ job[j].version <= r.version
      BY <1>7 DEF Row
    <3>5. RowWritten(j) /\ job'[j] = r
      <4> HIDE DEF r
      <4> QED BY <1>8, <3>1, <3>2, <3>3, <3>4
    <3> QED BY <3>4, <3>5 DEF Held
  <2>2. CASE Heartbeat(w)
    <3> DEFINE r == [job[j] EXCEPT !.beat = "fresh"]
    <3>1. job[j].status \in Held
      BY <2>2 DEF Heartbeat
    <3>2. job' = [job EXCEPT ![j] = r]
      BY <1>1, <2>2 DEF Heartbeat
    <3>3. r \in Row
      <4>1. "fresh" \in Beats /\ "running" \in Statuses /\ NoToken \in Nat
        BY DEF Beats, Statuses, NoToken
      <4> QED BY <1>7, <4>1, EditedRow
    <3>4. /\ r.epoch = job[j].epoch /\ r.token = job[j].token /\ r.status = job[j].status
          /\ job[j].version <= r.version
      BY <1>7 DEF Row
    <3>5. RowWritten(j) /\ job'[j] = r
      <4> HIDE DEF r
      <4> QED BY <1>8, <3>1, <3>2, <3>3, <3>4
    <3>6. ~StartJob(w)
      BY <2>2 DEF Heartbeat, StartJob
    <3> QED BY <3>1, <3>4, <3>5, <3>6
  <2>3. CASE CompleteJob(w) \/ \E s \in {"retryable_failed", "terminal_failed"} : FailJob(w, s)
    <3>1. PICK s \in Settled : Settle(w, s)
      <4>1. CASE CompleteJob(w)
        BY <4>1, WrittenStatuses DEF CompleteJob
      <4>2. CASE \E s \in {"retryable_failed", "terminal_failed"} : FailJob(w, s)
        BY <4>2 DEF FailJob, Settled
      <4> QED BY <2>3, <4>1, <4>2
    <3> DEFINE r == [job[j] EXCEPT !.status = s, !.token = NoToken, !.beat = "fresh",
                                   !.version = job[j].version + 1]
    <3>2. job' = [job EXCEPT ![j] = r]
      BY <3>1 DEF Settle
    <3>3. s \in Statuses \ Held
      BY <3>1, WrittenStatuses
    <3>4. r \in Row
      <4>1. "fresh" \in Beats /\ NoToken \in Nat
        BY DEF Beats, NoToken
      <4> QED BY <1>7, <3>3, <4>1, EditedRow
    <3>5. r.epoch = job[j].epoch /\ r.status \notin Held /\ job[j].version <= r.version
      BY <1>7, <3>3 DEF Row
    <3>6. RowWritten(j)
      <4> HIDE DEF r
      <4> QED BY <1>8, <3>2, <3>4, <3>5
    <3>7. ~StartJob(w) /\ ~Heartbeat(w)
      BY <2>3 DEF CompleteJob, FailJob, StartJob, Heartbeat
    <3> QED BY <3>6, <3>7
  <2> QED BY <2>1, <2>2, <2>3 DEF WritesRow
<1>10. Moves(w)
  <2>1. CASE StartJob(w)
    BY <1>1, <1>3, <2>1 DEF StartJob, Goto, Moves, Leaves, Claim, PCs
  <2>2. CASE Heartbeat(w)
    BY <1>1, <1>2, <1>3, <2>2 DEF Heartbeat, Moves, Leaves
  <2>3. CASE CompleteJob(w) \/ \E s \in {"retryable_failed", "terminal_failed"} : FailJob(w, s)
    <3>1. worker' = [worker EXCEPT ![w] = Nothing("loop")]
      BY <2>3 DEF CompleteJob, FailJob, GoHome
    <3>2. Nothing("loop") \in Claim
      BY DEF Nothing, Claim, PCs, NoToken
    <3> QED BY <1>1, <3>1, <3>2 DEF Moves, Leaves, Nothing
  <2> QED BY <2>1, <2>2, <2>3 DEF WritesRow
<1>11. ASSUME job'[j].status \in Settled
       PROVE  worker'[w] # worker[w]
  <2>1. CASE StartJob(w)
    BY <1>9, <1>11, <2>1 DEF Settled
  <2>2. CASE Heartbeat(w)
    BY <1>9, <1>11, <2>2, WrittenStatuses
  <2>3. CASE CompleteJob(w) \/ \E s \in {"retryable_failed", "terminal_failed"} : FailJob(w, s)
    <3>1. worker' = [worker EXCEPT ![w] = Nothing("loop")]
      BY <2>3 DEF CompleteJob, FailJob, GoHome
    <3> QED BY <1>1, <1>2, <3>1 DEF Nothing
  <2> QED BY <2>1, <2>2, <2>3 DEF WritesRow
<1> QED BY <1>3, <1>4, <1>5, <1>9, <1>10, <1>11

\* The other writers of a row leave workers, requests and tokens alone.
LEMMA TouchesRowStep ==
    ASSUME TypeOK, HeldInv, NEW j \in Jobs, TouchesRow(j)
    PROVE  /\ RowWritten(j)
           /\ job[j].status \in Held => job'[j].status \notin Settled
           /\ UNCHANGED <<worker, request, issued>>
           /\ todo' \in [Workers -> SUBSET Jobs]
           /\ crashes' \in 0..MaxCrashes /\ stalls' \in 0..MaxStalls
           /\ cancels' \in 0..MaxCancels
<1>1. job \in [Jobs -> Row] /\ latest \in [Jobs -> Nat] /\ job[j] \in Row
  BY DEF TypeOK
<1>2. /\ job[j].version \in Nat /\ job[j].epoch \in Nat /\ job[j].token \in Nat
      /\ job[j].status \in Statuses
  BY <1>1 DEF Row
<1>3. /\ "fresh" \in Beats /\ "old" \in Beats /\ NoToken \in Nat
      /\ {"queued", "stale", "cancelled", "cancelling"} \subseteq Statuses
  BY DEF Beats, NoToken, Statuses
<1>4. latest' = latest => latest' = [latest EXCEPT ![j] = latest[j]] /\ latest[j] \in Nat
  BY <1>1
<1>5. ASSUME NEW r \in Row, job' = [job EXCEPT ![j] = r], latest' = latest,
             r.epoch = job[j].epoch, job[j].version <= r.version,
             r.status \in Held => job[j].status \in Held /\ r.token = job[j].token
      PROVE  RowWritten(j) /\ job'[j] = r
  <2>1. r.status \in Held => r.token = latest[j]
    BY <1>5 DEF HeldInv
  <2>2. job[j].epoch <= r.epoch
    BY <1>2, <1>5
  <2> QED BY <1>4, <1>5, <2>1, <2>2, ReplacedRow
<1>6. CASE QueueJob(j)
  <2> DEFINE r == [job[j] EXCEPT !.status = "queued"]
  <2>1. job' = [job EXCEPT ![j] = r] /\ latest' = latest
    BY <1>1, <1>6 DEF QueueJob
  <2>2. r \in Row
    BY <1>1, <1>3, EditedRow
  <2>3. r.epoch = job[j].epoch /\ job[j].version <= r.version /\ r.status = "queued"
    BY <1>1, <1>2 DEF Row
  <2>4. RowWritten(j)
    <3> HIDE DEF r
    <3> QED BY <1>5, <2>1, <2>2, <2>3, WrittenStatuses
  <2> QED BY <1>6, <2>4 DEF QueueJob, TypeOK, bounds, Held
<1>7. CASE HeartbeatAges(j)
  <2> DEFINE r == [job[j] EXCEPT !.beat = "old"]
  <2>1. job' = [job EXCEPT ![j] = r] /\ latest' = latest
    BY <1>1, <1>7 DEF HeartbeatAges
  <2>2. r \in Row
    BY <1>1, <1>3, EditedRow
  <2>3. /\ r.epoch = job[j].epoch /\ job[j].version <= r.version
        /\ r.status = job[j].status /\ r.token = job[j].token
    BY <1>1, <1>2 DEF Row
  <2>4. RowWritten(j) /\ job'[j] = r
    <3> HIDE DEF r
    <3> QED BY <1>5, <2>1, <2>2, <2>3
  <2>5. job[j].status \in Held => job'[j].status \notin Settled
    BY <2>3, <2>4, WrittenStatuses
  <2>6. stalls' \in 0..MaxStalls
    BY <1>7, BoundsAssumption DEF HeartbeatAges, TypeOK
  <2> QED BY <1>7, <2>4, <2>5, <2>6 DEF HeartbeatAges, TypeOK
<1>8. CASE RequestCancellation(j)
  <2> DEFINE s == IF job[j].status = "queued" THEN "cancelled" ELSE "cancelling"
             r == [job[j] EXCEPT !.status = s, !.version = job[j].version + 1]
  <2>1. job' = [job EXCEPT ![j] = r] /\ latest' = latest
    BY <1>8 DEF RequestCancellation
  <2>2. s \in Statuses /\ Allowed(job[j].status, s)
    BY <1>3, <1>8 DEF RequestCancellation
  <2>3. r \in Row
    <3> HIDE DEF s
    <3> QED BY <1>1, <1>3, <2>2, EditedRow
  <2>4. /\ r.epoch = job[j].epoch /\ job[j].version <= r.version
        /\ r.status = s /\ r.token = job[j].token
    BY <1>1, <1>2 DEF Row
  <2>5. s \in Held => job[j].status \in Held
    BY <1>2, <2>2, CancellableIsHeld DEF Held
  <2>6. job[j].status \in Held => s \notin Settled
    BY DEF Held, Settled
  <2>7. RowWritten(j) /\ job'[j] = r
    <3> HIDE DEF r, s
    <3> QED BY <1>5, <2>1, <2>3, <2>4, <2>5
  <2>8. job[j].status \in Held => job'[j].status \notin Settled
    BY <2>4, <2>6, <2>7
  <2>9. cancels' \in 0..MaxCancels
    BY <1>8, BoundsAssumption DEF RequestCancellation, TypeOK
  <2> QED BY <1>8, <2>7, <2>8, <2>9 DEF RequestCancellation, TypeOK
<1>9. CASE \E w \in Workers : RecoverStaleJob(w, j)
  <2>1. PICK w \in Workers : RecoverStaleJob(w, j)
    BY <1>9
  <2>2. RowWritten(j) /\ (job[j].status \in Held => job'[j].status \notin Settled)
    <3>1. CASE job[j].beat = "old"
      <4> DEFINE r == [job[j] EXCEPT !.status = "stale", !.token = NoToken,
                                     !.version = job[j].version + 1]
      <4>1. job' = [job EXCEPT ![j] = r] /\ latest' = [latest EXCEPT ![j] = NoToken]
        BY <1>1, <2>1, <3>1 DEF RecoverStaleJob, Revoked, Row
      <4>2. r \in Row
        BY <1>1, <1>3, EditedRow
      <4>3. job[j].epoch <= r.epoch /\ job[j].version <= r.version /\ r.status = "stale"
        BY <1>1, <1>2 DEF Row
      <4>4. RowWritten(j) /\ job'[j] = r
        <5>1. r.status \notin Held
          BY <4>3 DEF Held
        <5> HIDE DEF r
        <5> QED BY <1>3, <4>1, <4>2, <4>3, <5>1, ReplacedRow
      <4> QED BY <4>3, <4>4 DEF Settled
    <3>2. CASE job[j].beat # "old"
      <4>1. job' = [job EXCEPT ![j] = job[j]] /\ latest' = latest /\ job'[j] = job[j]
        BY <1>1, <2>1, <3>2 DEF RecoverStaleJob
      <4>2. RowWritten(j)
        <5>1. job[j].epoch <= job[j].epoch /\ job[j].version <= job[j].version
          BY <1>2
        <5>2. job[j].status \in Held => job[j].token = latest[j]
          BY DEF HeldInv
        <5> QED BY <1>1, <1>4, <4>1, <5>1, <5>2, ReplacedRow
      <4> QED BY <4>1, <4>2, WrittenStatuses
    <3> QED BY <3>1, <3>2
  <2>3. todo' \in [Workers -> SUBSET Jobs]
    BY <2>1 DEF RecoverStaleJob, TypeOK
  <2> QED BY <2>1, <2>2, <2>3 DEF RecoverStaleJob, TypeOK, bounds
<1> QED BY <1>6, <1>7, <1>8, <1>9 DEF TouchesRow

\* A claim takes the next epoch of its row, above every claim remembered.
LEMMA ClaimJobStep ==
    ASSUME IInv, NEW w \in Workers, ClaimJob(w), NEW j, j = worker[w].job
    PROVE  /\ j \in Jobs /\ RowWritten(j) /\ TypeOK' /\ PlaceInv'
           /\ job'[j].status \notin Settled
           /\ \A v \in Workers : v # w => worker'[v] = worker[v]
           /\ worker'[w].job = j /\ worker'[w].epoch = job[j].epoch + 1
           /\ job'[j].epoch = job[j].epoch + 1
           /\ UNCHANGED request
<1> DEFINE r == [status |-> "claimed", token |-> issued + 1, epoch |-> job[j].epoch + 1,
                 version |-> job[j].version + 1, beat |-> "fresh"]
           d == [pc |-> "cancelCheck", job |-> j, token |-> issued + 1,
                 epoch |-> job[j].epoch + 1, done |-> FALSE]
<1>1. TypeOK /\ PlaceInv /\ HeldInv
  BY DEF IInv
<1>2. j \in Jobs
  BY <1>1 DEF ClaimJob, PlaceInv
<1>3. /\ job \in [Jobs -> Row] /\ worker \in [Workers -> Claim] /\ latest \in [Jobs -> Nat]
      /\ issued \in Nat
  BY <1>1 DEF TypeOK
<1>4. job[j].epoch \in Nat /\ job[j].version \in Nat
  BY <1>2, <1>3 DEF Row
<1>5. /\ job' = [job EXCEPT ![j] = r] /\ worker' = [worker EXCEPT ![w] = d]
      /\ latest' = [latest EXCEPT ![j] = issued + 1] /\ issued' = issued + 1
      /\ UNCHANGED <<todo, request, bounds>>
  BY DEF ClaimJob
<1>6. r \in Row /\ d \in Claim
  BY <1>2, <1>3, <1>4 DEF Row, Statuses, Beats, Claim, PCs
<1>7. RowWritten(j) /\ job'[j] = r
  <2>1. /\ job[j].epoch <= r.epoch /\ job[j].version <= r.version /\ r.token = issued + 1
        /\ issued + 1 \in Nat
    BY <1>3, <1>4
  <2> HIDE DEF r
  <2> QED BY <1>1, <1>2, <1>5, <1>6, <2>1, ReplacedRow
<1>8. worker'[w] = d /\ \A v \in Workers : v # w => worker'[v] = worker[v]
  BY <1>3, <1>5
<1>9. worker' \in [Workers -> Claim]
  <2> HIDE DEF d
  <2> QED BY <1>3, <1>5, <1>6
<1>10. TypeOK'
  <2>1. job' \in [Jobs -> Row] /\ latest' \in [Jobs -> Nat]
    BY <1>1, <1>2, <1>7, RowWrittenKeeps
  <2>2. todo' = todo /\ request' = request /\ issued' \in Nat
        /\ crashes' = crashes /\ stalls' = stalls /\ cancels' = cancels
    BY <1>3, <1>5 DEF bounds
  <2> QED BY <1>1, <1>9, <2>1, <2>2 DEF TypeOK
<1>11. PlaceInv'
  BY <1>1, <1>2, <1>8 DEF PlaceInv
<1>12. job'[j].status \notin Settled
  BY <1>7 DEF Settled
<1> QED BY <1>2, <1>5, <1>7, <1>8, <1>10, <1>11, <1>12

\* A requeue ends the ownership of its row and outdates the version it read.
LEMMA RequeueJobStep ==
    ASSUME TypeOK, HeldInv, NEW q \in Requests, RequeueJob(q), NEW j, j = request[q].job
    PROVE  /\ j \in Jobs /\ RowWritten(j) /\ TypeOK'
           /\ job'[j].status \notin Settled
           /\ request' = [request EXCEPT ![q] = [request[q] EXCEPT !.receipt = TRUE]]
           /\ request[q].version = job[j].version /\ job[j].version < job'[j].version
           /\ UNCHANGED worker
<1> DEFINE r == [job[j] EXCEPT !.status = "queued", !.token = NoToken, !.beat = "none",
                               !.epoch = job[j].epoch + 1, !.version = job[j].version + 1]
<1>1. /\ job \in [Jobs -> Row] /\ request \in [Requests -> Retry] /\ request[q] \in Retry
  BY DEF TypeOK
<1>2. j \in Jobs
  BY <1>1 DEF RequeueJob, Retry
<1>3. job[j] \in Row /\ job[j].epoch \in Nat /\ job[j].version \in Nat
  BY <1>1, <1>2 DEF Row
<1>4. /\ job' = [job EXCEPT ![j] = r] /\ latest' = [latest EXCEPT ![j] = NoToken]
      /\ request[q].version = job[j].version
      /\ UNCHANGED <<worker, todo, issued, bounds>>
  BY DEF RequeueJob, Requeued
<1>5. r \in Row
  <2>1. "queued" \in Statuses /\ "none" \in Beats /\ NoToken \in Nat
    BY DEF Statuses, Beats, NoToken
  <2> QED BY <1>3, <2>1, EditedRow
<1>6. /\ r.epoch = job[j].epoch + 1 /\ r.version = job[j].version + 1
      /\ r.status = "queued"
  BY <1>3 DEF Row
<1>7. RowWritten(j) /\ job'[j] = r
  <2>1. /\ job[j].epoch <= r.epoch /\ job[j].version <= r.version
        /\ r.status \notin Held /\ NoToken \in Nat
    BY <1>3, <1>6 DEF Held, NoToken
  <2> HIDE DEF r
  <2> QED BY <1>2, <1>4, <1>5, <2>1, ReplacedRow
<1>8. request' = [request EXCEPT ![q] = [request[q] EXCEPT !.receipt = TRUE]]
  BY DEF RequeueJob
<1>9. TypeOK'
  <2>1. job' \in [Jobs -> Row] /\ latest' \in [Jobs -> Nat]
    BY <1>2, <1>7, RowWrittenKeeps
  <2>2. request' \in [Requests -> Retry]
    BY <1>1, <1>8 DEF Retry
  <2> QED BY <1>4, <2>1, <2>2 DEF TypeOK, bounds
<1>10. job'[j].status \notin Settled /\ job[j].version < job'[j].version
  BY <1>3, <1>6, <1>7 DEF Settled
<1> QED BY <1>2, <1>4, <1>7, <1>8, <1>9, <1>10

-----------------------------------------------------------------------------
(* The invariants about claims and requests                                *)

\* While claims stay or go as a whole, and epochs grow, an epoch names one claim.
LEMMA KeptEpochs ==
    ASSUME IInv, TypeOK', PlaceInv', RowsGrow, ClaimsKept
    PROVE  EpochInv' /\ EpochNamesOneClaim'
<1>1. /\ \A j \in Jobs : job[j].epoch \in Nat /\ job'[j].epoch \in Nat
      /\ \A w \in Workers : worker[w].epoch \in Nat
  BY DEF IInv, TypeOK, Row, Claim
<1>2. \A w \in Workers : worker[w].token # NoToken => worker[w].job \in Jobs
  BY DEF IInv, PlaceInv
<1>3. EpochInv'
  BY <1>1, <1>2 DEF IInv, EpochInv, RowsGrow, ClaimsKept
<1>4. EpochNamesOneClaim'
  <2> SUFFICES ASSUME NEW v \in Workers, NEW w \in Workers,
                      worker'[v].token # NoToken, worker'[w].token # NoToken,
                      worker'[v].job = worker'[w].job, worker'[v].epoch = worker'[w].epoch
               PROVE  v = w
    BY DEF EpochNamesOneClaim
  <2> QED BY DEF IInv, EpochNamesOneClaim, ClaimsKept
<1> QED BY <1>3, <1>4

\* A claim's epoch is above every other claim's on the job.
LEMMA ClaimedEpochs ==
    ASSUME IInv, NEW w \in Workers, ClaimJob(w)
    PROVE  EpochInv' /\ EpochNamesOneClaim'
<1> DEFINE j == worker[w].job
<1>1. /\ j \in Jobs /\ RowWritten(j) /\ TypeOK' /\ PlaceInv'
      /\ \A v \in Workers : v # w => worker'[v] = worker[v]
      /\ worker'[w].job = j /\ worker'[w].epoch = job[j].epoch + 1
      /\ job'[j].epoch = job[j].epoch + 1
  <2> QED BY ClaimJobStep
<1> HIDE DEF j
<1>2. RowsGrow
  BY <1>1, RowWrittenKeeps DEF IInv
<1>3. /\ \A i \in Jobs : job[i].epoch \in Nat /\ job'[i].epoch \in Nat
      /\ \A v \in Workers : worker[v].epoch \in Nat
  BY <1>1 DEF IInv, TypeOK, Row, Claim
<1>4. \A v \in Workers : worker[v].token # NoToken =>
         worker[v].job \in Jobs /\ worker[v].epoch <= job[worker[v].job].epoch
  BY DEF IInv, PlaceInv, EpochInv
<1>5. EpochInv'
  <2> SUFFICES ASSUME NEW v \in Workers, worker'[v].token # NoToken
               PROVE  worker'[v].epoch <= job'[worker'[v].job].epoch
    BY DEF EpochInv
  <2>1. CASE v = w
    BY <1>1, <1>3, <2>1
  <2>2. CASE v # w
    BY <1>1, <1>2, <1>3, <1>4, <2>2 DEF RowsGrow
  <2> QED BY <2>1, <2>2
<1>6. \A v \in Workers : /\ v # w /\ worker'[v].token # NoToken /\ worker'[v].job = j
                         => worker'[v].epoch # worker'[w].epoch
  BY <1>1, <1>3, <1>4
<1>7. EpochNamesOneClaim'
  <2> SUFFICES ASSUME NEW u \in Workers, NEW v \in Workers,
                      worker'[u].token # NoToken, worker'[v].token # NoToken,
                      worker'[u].job = worker'[v].job, worker'[u].epoch = worker'[v].epoch
               PROVE  u = v
    BY DEF EpochNamesOneClaim
  <2>1. CASE u # w /\ v # w
    BY <1>1, <2>1 DEF IInv, EpochNamesOneClaim
  <2>2. CASE u = w \/ v = w
    BY <1>1, <1>6, <2>2
  <2> QED BY <2>1, <2>2
<1> QED BY <1>5, <1>7

\* While versions grow and no request gets its receipt, honoured ones stay over.
LEMMA KeptRetries ==
    ASSUME IInv, TypeOK', RowsGrow,
           \A r \in Requests : request'[r].receipt => request'[r] = request[r]
    PROVE  RetryInv' /\ RetriesHonouredOnce'
<1>1. /\ \A j \in Jobs : job[j].version \in Nat /\ job'[j].version \in Nat
      /\ \A r \in Requests : request[r].version \in Nat
  BY DEF IInv, TypeOK, Row, Retry
<1>2. RetryInv'
  BY <1>1 DEF IInv, RetryInv, RowsGrow
<1>3. RetriesHonouredOnce'
  BY DEF IInv, RetriesHonouredOnce
<1> QED BY <1>2, <1>3

\* A requeue is the first one of the version it read.
LEMMA RequeuedRetries ==
    ASSUME IInv, NEW q \in Requests, RequeueJob(q)
    PROVE  RetryInv' /\ RetriesHonouredOnce'
<1> DEFINE j == request[q].job
<1>1. TypeOK /\ HeldInv /\ RetryInv /\ RetriesHonouredOnce
  BY DEF IInv
<1>2. /\ j \in Jobs /\ RowWritten(j) /\ TypeOK'
      /\ request' = [request EXCEPT ![q] = [request[q] EXCEPT !.receipt = TRUE]]
      /\ request[q].version = job[j].version /\ job[j].version < job'[j].version
  BY <1>1, RequeueJobStep
<1> HIDE DEF j
<1>3. RowsGrow
  BY <1>1, <1>2, RowWrittenKeeps
<1>4. /\ \A i \in Jobs : job[i].version \in Nat /\ job'[i].version \in Nat
      /\ \A r \in Requests : request[r].version \in Nat
      /\ request \in [Requests -> Retry]
  BY <1>1, <1>2 DEF TypeOK, Row, Retry
<1>5. /\ request'[q].job = j /\ request'[q].version = job[j].version
      /\ \A r \in Requests : r # q => request'[r] = request[r]
  BY <1>2, <1>4 DEF Retry, j
<1>6. RetryInv'
  <2> SUFFICES ASSUME NEW r \in Requests, request'[r].receipt
               PROVE  /\ request'[r].job \in Jobs
                      /\ request'[r].version < job'[request'[r].job].version
    BY DEF RetryInv
  <2>1. CASE r = q
    BY <1>2, <1>5, <2>1
  <2>2. CASE r # q
    BY <1>1, <1>3, <1>4, <1>5, <2>2 DEF RetryInv, RowsGrow
  <2> QED BY <2>1, <2>2
<1>7. \A r \in Requests : /\ r # q /\ request'[r].receipt /\ request'[r].job = j
                          => request'[r].version # request'[q].version
  BY <1>1, <1>4, <1>5 DEF RetryInv
<1>8. RetriesHonouredOnce'
  <2> SUFFICES ASSUME NEW p \in Requests, NEW r \in Requests,
                      request'[p].receipt, request'[r].receipt,
                      request'[p].job = request'[r].job,
                      request'[p].version = request'[r].version
               PROVE  p = r
    BY DEF RetriesHonouredOnce
  <2>1. CASE p # q /\ r # q
    BY <1>1, <1>5, <2>1 DEF RetriesHonouredOnce
  <2>2. CASE p = q \/ r = q
    BY <1>5, <1>7, <2>2
  <2> QED BY <2>1, <2>2
<1> QED BY <1>6, <1>8

-----------------------------------------------------------------------------
\* What a step does to held jobs: a settled one was settled by its last claim.
SettlesByClaim ==
    \A j \in Jobs :
        job[j].status \in Held /\ job'[j].status \in Settled =>
           \E w \in Workers : /\ worker[w].job = j
                              /\ worker[w].token = latest[j]
                              /\ worker'[w] # worker[w]

\* Only the written row can be settled.
LEMMA OnlyWrittenRow ==
    ASSUME TypeOK, NEW j \in Jobs, RowWritten(j), job'[j].status \notin Settled
    PROVE  SettlesByClaim
<1>1. \A i \in Jobs : i # j => job'[i] = job[i]
  BY DEF RowWritten, TypeOK
<1> QED BY <1>1, WrittenStatuses DEF SettlesByClaim

\* The inductive step: each group of actions preserves the invariant.
LEMMA StepInv == IInv /\ [Next]_vars => IInv' /\ SettlesByClaim
<1> SUFFICES ASSUME IInv, [Next]_vars
             PROVE  IInv' /\ SettlesByClaim
  OBVIOUS
<1>1. /\ TypeOK /\ PlaceInv /\ EpochInv /\ HeldInv /\ RetryInv
      /\ EpochNamesOneClaim /\ RetriesHonouredOnce
  BY DEF IInv
<1>2. ASSUME TypeOK', PlaceInv', HeldInv', RowsGrow, ClaimsKept,
             \A r \in Requests : request'[r].receipt => request'[r] = request[r]
      PROVE  IInv'
  BY <1>2, KeptEpochs, KeptRetries DEF IInv
<1>3. \A j \in Jobs : job[j].epoch \in Nat /\ job[j].version \in Nat
  BY <1>1 DEF TypeOK, Row
<1>4. ASSUME UNCHANGED <<job, latest>>
      PROVE  HeldInv' /\ RowsGrow /\ SettlesByClaim
  BY <1>1, <1>3, <1>4, WrittenStatuses DEF HeldInv, RowsGrow, SettlesByClaim
<1>5. CASE UNCHANGED vars
  <2>1. TypeOK' /\ PlaceInv' /\ ClaimsKept /\ UNCHANGED <<job, latest, request>>
    BY <1>1, <1>5 DEF vars, bounds, TypeOK, PlaceInv, ClaimsKept
  <2> QED BY <1>2, <1>4, <2>1
<1>6. ASSUME NEW w \in Workers, ReadsOnly(w)
      PROVE  IInv' /\ SettlesByClaim
  <2>1. /\ TypeOK' /\ PlaceInv' /\ ClaimsKept /\ UNCHANGED <<job, request, latest>>
    BY <1>1, <1>6, ReadsOnlyStep
  <2> QED BY <1>2, <1>4, <2>1
<1>7. ASSUME NEW w \in Workers, ClaimJob(w)
      PROVE  IInv' /\ SettlesByClaim
  <2> DEFINE j == worker[w].job
  <2>1. /\ j \in Jobs /\ RowWritten(j) /\ TypeOK' /\ PlaceInv' /\ UNCHANGED request
        /\ job'[j].status \notin Settled
    BY <1>7, ClaimJobStep
  <2>2. HeldInv' /\ RowsGrow /\ SettlesByClaim
    <3> HIDE DEF j
    <3> QED BY <1>1, <2>1, RowWrittenKeeps, OnlyWrittenRow
  <2>3. EpochInv' /\ EpochNamesOneClaim'
    BY <1>7, ClaimedEpochs
  <2>4. RetryInv' /\ RetriesHonouredOnce'
    BY <2>1, <2>2, KeptRetries
  <2> QED BY <2>1, <2>2, <2>3, <2>4 DEF IInv
<1>8. ASSUME NEW w \in Workers, WritesRow(w)
      PROVE  IInv' /\ SettlesByClaim
  <2> DEFINE j == worker[w].job
  <2>1. /\ j \in Jobs /\ RowWritten(j) /\ Moves(w)
        /\ worker[w].token = job[j].token
        /\ job'[j].status \in Settled => worker'[w] # worker[w]
        /\ UNCHANGED <<todo, request, issued, latest, bounds>>
    BY <1>1, <1>8, WritesRowStep
  <2>2. worker[w].job = j
    OBVIOUS
  <2> HIDE DEF j
  <2>3. worker' \in [Workers -> Claim] /\ PlaceInv' /\ ClaimsKept
    BY <1>1, <2>1, MovesKeeps
  <2>4. job' \in [Jobs -> Row] /\ latest' \in [Jobs -> Nat] /\ RowsGrow /\ HeldInv'
    BY <1>1, <2>1, RowWrittenKeeps
  <2>5. TypeOK'
    BY <1>1, <2>1, <2>3, <2>4 DEF TypeOK, bounds
  <2>6. IInv'
    BY <1>2, <2>1, <2>3, <2>4, <2>5
  <2>7. SettlesByClaim
    <3>1. CASE job[j].status \in Held /\ job'[j].status \in Settled
      <4>1. worker[w].token = latest[j] /\ worker'[w] # worker[w]
        BY <1>1, <2>1, <3>1 DEF HeldInv
      <4>2. \A i \in Jobs : i # j => job'[i] = job[i]
        BY <1>1, <2>1 DEF RowWritten, TypeOK
      <4> QED BY <2>2, <4>1, <4>2, WrittenStatuses DEF SettlesByClaim
    <3>2. CASE ~(job[j].status \in Held /\ job'[j].status \in Settled)
      <4>1. \A i \in Jobs : i # j => job'[i] = job[i]
        BY <1>1, <2>1 DEF RowWritten, TypeOK
      <4> QED BY <3>2, <4>1, WrittenStatuses DEF SettlesByClaim
    <3> QED BY <3>1, <3>2
  <2> QED BY <2>6, <2>7
<1>9. ASSUME NEW j \in Jobs, TouchesRow(j)
      PROVE  IInv' /\ SettlesByClaim
  <2>1. /\ RowWritten(j)
        /\ job[j].status \in Held => job'[j].status \notin Settled
        /\ UNCHANGED <<worker, request, issued>>
        /\ todo' \in [Workers -> SUBSET Jobs]
        /\ crashes' \in 0..MaxCrashes /\ stalls' \in 0..MaxStalls
        /\ cancels' \in 0..MaxCancels
    BY <1>1, <1>9, TouchesRowStep
  <2>2. job' \in [Jobs -> Row] /\ latest' \in [Jobs -> Nat] /\ RowsGrow /\ HeldInv'
    BY <1>1, <2>1, RowWrittenKeeps
  <2>3. TypeOK' /\ PlaceInv' /\ ClaimsKept
    BY <1>1, <2>1, <2>2 DEF TypeOK, PlaceInv, ClaimsKept
  <2>4. IInv'
    BY <1>2, <2>1, <2>2, <2>3
  <2>5. SettlesByClaim
    <3>1. \A i \in Jobs : i # j => job'[i] = job[i]
      BY <1>1, <2>1 DEF RowWritten, TypeOK
    <3> QED BY <2>1, <3>1, WrittenStatuses DEF SettlesByClaim
  <2> QED BY <2>4, <2>5
<1>10. ASSUME NEW r \in Requests, NEW j \in Jobs, ReadForRetry(r, j)
       PROVE  IInv' /\ SettlesByClaim
  <2>1. UNCHANGED <<job, worker, todo, issued, latest, bounds>>
    BY <1>10 DEF ReadForRetry
  <2>2. request' = [request EXCEPT ![r] = [job |-> j, version |-> job[j].version,
                                           receipt |-> FALSE]]
    BY <1>10 DEF ReadForRetry
  <2>3. request' \in [Requests -> Retry]
    BY <1>1, <1>3, <2>2 DEF TypeOK, Retry
  <2>4. TypeOK' /\ PlaceInv' /\ ClaimsKept
    BY <1>1, <2>1, <2>3 DEF TypeOK, PlaceInv, ClaimsKept, bounds
  <2>5. \A q \in Requests : request'[q].receipt => request'[q] = request[q]
    BY <1>1, <2>2 DEF TypeOK
  <2> QED BY <1>2, <1>4, <2>1, <2>4, <2>5
<1>11. ASSUME NEW q \in Requests, RequeueJob(q)
       PROVE  IInv' /\ SettlesByClaim
  <2> DEFINE j == request[q].job
  <2>1. /\ j \in Jobs /\ RowWritten(j) /\ TypeOK' /\ UNCHANGED worker
        /\ job'[j].status \notin Settled
    BY <1>1, <1>11, RequeueJobStep
  <2>2. HeldInv' /\ RowsGrow /\ SettlesByClaim
    <3> HIDE DEF j
    <3> QED BY <1>1, <2>1, RowWrittenKeeps, OnlyWrittenRow
  <2>3. PlaceInv' /\ ClaimsKept
    BY <1>1, <2>1 DEF PlaceInv, ClaimsKept
  <2>4. EpochInv' /\ EpochNamesOneClaim'
    BY <2>1, <2>2, <2>3, KeptEpochs
  <2>5. RetryInv' /\ RetriesHonouredOnce'
    BY <1>11, RequeuedRetries
  <2> QED BY <2>1, <2>2, <2>3, <2>4, <2>5 DEF IInv
<1> QED BY <1>5, <1>6, <1>7, <1>8, <1>9, <1>10, <1>11, StepGroups

-----------------------------------------------------------------------------
\* The inductive invariant holds in every reachable state.
THEOREM Invariance == Spec => []IInv
<1>1. IInv /\ [Next]_vars => IInv'
  BY StepInv
<1> QED BY InitInv, <1>1, PTL DEF Spec

\* Rows, workers, candidate lists and requests keep their types, through every
\* claim, recovery, requeue and death of a process.
THEOREM TypeCorrect == Spec => []TypeOK
<1>1. IInv => TypeOK
  BY DEF IInv
<1> QED BY Invariance, <1>1, PTL

\* claim_job never hands out a fencing epoch that another process remembers for
\* the same job, though a claim may be taken from a process that lives on.
THEOREM EpochsAreFencing == Spec => []EpochNamesOneClaim
<1>1. IInv => EpochNamesOneClaim
  BY DEF IInv
<1> QED BY Invariance, <1>1, PTL

\* _requeue_job_once honours one of the requests that read the same version.
THEOREM RetriesAreHonouredOnce == Spec => []RetriesHonouredOnce
<1>1. IInv => RetriesHonouredOnce
  BY DEF IInv
<1> QED BY Invariance, <1>1, PTL

\* complete_owned_job and fail_owned_job settle a held job for the process of
\* its last claim only: a process whose claim was taken away settles nothing.
THEOREM SettlingNeedsTheClaim == Spec => SettledByLatestClaim
<1>1. IInv /\ [Next]_vars
        => [\A j \in Jobs :
               job[j].status \in Held /\ job'[j].status \in Settled =>
                  \E w \in Workers : /\ worker[w].job = j
                                     /\ worker[w].token = latest[j]
                                     /\ worker'[w] # worker[w]]_vars
  BY StepInv DEF SettlesByClaim
<1> QED BY Invariance, <1>1, PTL DEF Spec, SettledByLatestClaim
=============================================================================
