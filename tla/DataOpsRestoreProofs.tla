------------------------ MODULE DataOpsRestoreProofs ------------------------
(* Proofs about DataOpsRestore for every number of operations, workers,     *)
(* retries, lost leases and errors: what an import publishes, what a later  *)
(* attempt finds, and what a runtime is made of.                            *)
EXTENDS DataOpsRestore, TLAPS

\* Places at which the rehearsal of a directory is under way, those behind it,
\* and all at which the directory has to be there.
Trying  == {"migrate", "receipt"}
After   == {"prepare", "preparing", "candidate", "project", "copy"}
Present == {"import", "publish", "rehearse", "trial"} \cup Trying \cup After

\* What a worker's place in the code says of its operation and its directory.
Placed(w) ==
    LET s == Here(w)
        x == at[w].stage
        o == at[w].op
    IN  /\ x # "idle" => o \in Ops
        /\ x \in Present => s.kind # "absent"
        /\ x \in Trying => s.trial /\ s.receipt = None
        /\ x = "receipt" => s.kind = "rehearsed"
        /\ x \in After => s.receipt # None
        /\ x \in {"prepare", "preparing"} => NeedsPreparation(o)
        /\ x \in {"project", "copy"} => plan[o].activate
        /\ x \in {"candidate", "project", "copy"} /\ plan[o].activate /\ point.partial =>
              s.prepared

PlacesInv == \A w \in Workers : Placed(w)

\* One worker rehearses a directory, for the trial directory is made once; and
\* one prepares it, unless the history says otherwise.
AloneInv ==
    \A w, v \in Workers : at[w].place = at[v].place =>
        /\ at[w].stage \in Trying /\ at[v].stage \in Trying => w = v
        /\ ~crowded /\ at[w].stage = "preparing" /\ at[v].stage = "preparing" => w = v

\* Only a rehearsed directory is altered, and only if the point needs it; once
\* it is prepared nobody alters it any more.
SpacesInv ==
    \A p \in Places :
        LET s == space[p]
        IN  /\ s.receipt # None => s.kind \in {"rehearsed", "altered", "prepared"}
            /\ s.kind \in {"altered", "prepared"} => s.receipt # None /\ point.partial
            /\ s.prepared => s.receipt # None
            /\ s.prepared /\ ~crowded => s.kind = "prepared" /\ Preparing(p) = {}

\* What the steps preserve together.
IInv ==
    /\ TypeOK /\ PlacesInv /\ AloneInv /\ SpacesInv
    /\ RuntimesAreWhole /\ PointsStayRestorable /\ ImportsAreExact

-----------------------------------------------------------------------------
(* Types                                                                   *)

\* No directory is there yet, and every worker is idle.
LEMMA InitInv == Init => IInv
<1> SUFFICES ASSUME Init PROVE IInv
  OBVIOUS
<1> USE DEF Init
<1>1. Empty \in Space /\ Empty.kind = "absent" /\ Empty.receipt = None /\ ~Empty.prepared
  BY DEF Empty, Space, Kinds
<1>2. Idle \in Stand /\ Idle.stage = "idle" /\ Idle.op = None
  BY DEF Idle, Stand, Stages, Places
<1>3. TypeOK
  <2>1. /\ plan \in [Ops -> Plans] /\ point \in [partial: BOOLEAN, behind: BOOLEAN]
        /\ op \in [Ops -> Operation]
    BY DEF Operation
  <2>2. space \in [Places -> Space] /\ runtime \in [Places -> Space] /\ at \in [Workers -> Stand]
    BY <1>1, <1>2
  <2>3. /\ candidate \in [Ops -> {"none", "verified", "ready"}] /\ incomplete \in [Ops -> BOOLEAN]
        /\ imported \in Nat \cup {None} /\ intent \subseteq Ops /\ crowded \in BOOLEAN
    OBVIOUS
  <2>4. takeovers \in 0..MaxTakeovers /\ errors \in 0..MaxErrors
    BY BoundsAssumption
  <2> QED BY <2>1, <2>2, <2>3, <2>4 DEF TypeOK
<1>4. PlacesInv /\ AloneInv
  BY <1>2 DEF PlacesInv, AloneInv, Placed, Present, Trying, After
<1>5. SpacesInv /\ RuntimesAreWhole /\ PointsStayRestorable /\ ImportsAreExact
  BY <1>1 DEF SpacesInv, RuntimesAreWhole, PointsStayRestorable, ImportsAreExact
<1> QED BY <1>3, <1>4, <1>5 DEF IInv

\* A worker in its code has an operation, and stands before a directory.
LEMMA AtWork ==
    ASSUME TypeOK, NEW w \in Workers
    PROVE  /\ at[w] \in Stand /\ at[w].place \in Places /\ at[w].stage \in Stages
           /\ Here(w) \in Space
           /\ "selected" \in Places /\ "imported" \in Places
BY DEF TypeOK, Stand, Here, Places

\* A step moves one worker, to another stage or out of the code.
LEMMA MovesOne ==
    ASSUME TypeOK, NEW w \in Workers, NEW o \in Ops, WorkerNext(w, o)
    PROVE  /\ at' \in [Workers -> Stand]
           /\ \A v \in Workers : v # w => at'[v] = at[v]
<1>1. \/ \E s \in Stages : Goto(w, s)
      \/ \E r \in Stand : at' = [at EXCEPT ![w] = r]
  <2>1. Idle \in Stand /\ [Idle EXCEPT !.stage = "begin", !.op = o] \in Stand
    BY DEF Idle, Stand, Stages, Places
  <2>2. at[w] \in Stand /\ Here(w).version \in Nat
    BY AtWork DEF Space
  <2>3. CASE PublishImport(w, o)
    <3>1. [at[w] EXCEPT !.stage = "look", !.place = "imported"] \in Stand
      BY <2>2 DEF Stand, Stages, Places
    <3> QED BY <2>3, <3>1 DEF PublishImport, Stages
  <2>4. CASE Project(w, o)
    <3>1. /\ [at[w] EXCEPT !.stage = "copy", !.view = Here(w).version] \in Stand
          /\ [at[w] EXCEPT !.stage = "compare", !.view = Here(w).version] \in Stand
      BY <2>2 DEF Stand, Stages
    <3> QED BY <2>4, <3>1 DEF Project, Stages
  <2>5. CASE Claim(w, o) \/ Settle(w, o) \/ Commit(w, o)
    BY <2>1, <2>5 DEF Claim, Settle, Commit, Leave
  <2>6. CASE Renew(w, o) \/ StoreFails(w, o) \/ Look(w, o) \/ Install(w, o) \/ BeginTrial(w, o)
    BY <2>1, <2>6 DEF Renew, StoreFails, Look, Install, BeginTrial, Leave, Materialized, Rehearsed,
                      Stages
  <2>7. CASE \/ Migrate(w, o) \/ MigrationFails(w, o) \/ WriteReceipt(w, o)
             \/ PreparationRefused(w, o) \/ BeginPreparation(w, o) \/ EndPreparation(w, o)
             \/ PreparationFails(w, o)
    BY <2>7 DEF Migrate, MigrationFails, WriteReceipt, PreparationRefused, BeginPreparation,
                EndPreparation, PreparationFails, Rehearsed, Stages
  <2>8. CASE \/ RecordCandidate(w, o) \/ CopyRuntime(w, o) \/ CopyFails(w, o)
             \/ CompareRuntime(w, o) \/ Schedule(w, o)
    BY <2>8 DEF RecordCandidate, CopyRuntime, CopyFails, CompareRuntime, Schedule, Stages
  <2> QED BY <2>3, <2>4, <2>5, <2>6, <2>7, <2>8 DEF WorkerNext
<1>2. CASE \E s \in Stages : Goto(w, s)
  BY <1>2 DEF TypeOK, Goto, Stand
<1>3. CASE \E r \in Stand : at' = [at EXCEPT ![w] = r]
  BY <1>3 DEF TypeOK
<1> QED BY <1>1, <1>2, <1>3

\* What a directory can become: fetched, rehearsed step by step, or altered.
LEMMA SpaceSteps ==
    ASSUME TypeOK, NEW w \in Workers, NEW o \in Ops, WorkerNext(w, o)
    PROVE  \/ UNCHANGED space
           \/ \E s \in Space : space' = [space EXCEPT ![at[w].place] = s]
<1>1. Here(w) \in Space /\ Here(w).version \in Nat /\ Here(w).version + 1 \in Nat
      /\ Here(w) = space[at[w].place] /\ at[w].place \in Places
  BY AtWork DEF Space, Here
<1>2. CASE Install(w, o)
  <2>1. [Empty EXCEPT !.kind = "restored"] \in Space
    BY DEF Empty, Space, Kinds
  <2> QED BY <1>2, <2>1 DEF Install
<1>3. CASE BeginTrial(w, o)
  <2>1. [space[at[w].place] EXCEPT !.trial = TRUE] \in Space
    BY <1>1 DEF Space
  <2>2. CASE space' = [space EXCEPT ![at[w].place].trial = TRUE]
    <3>1. space' = [space EXCEPT ![at[w].place] = [space[at[w].place] EXCEPT !.trial = TRUE]]
      BY <2>2
    <3> QED BY <2>1, <3>1
  <2> QED BY <1>3, <2>2 DEF BeginTrial
<1>4. CASE Migrate(w, o)
  <2>1. [Here(w) EXCEPT !.kind = "rehearsed",
                        !.version = IF point.behind THEN Here(w).version + 1 ELSE Here(w).version]
           \in Space
    BY <1>1 DEF Space, Kinds
  <2> QED BY <1>4, <2>1 DEF Migrate
<1>5. CASE WriteReceipt(w, o)
  <2>1. [Here(w) EXCEPT !.receipt = Here(w).version] \in Space
    BY <1>1 DEF Space
  <2> QED BY <1>5, <2>1 DEF WriteReceipt
<1>6. CASE BeginPreparation(w, o)
  <2>1. [Here(w) EXCEPT !.kind = "altered", !.version = Here(w).version + 1] \in Space
    BY <1>1 DEF Space, Kinds
  <2> QED BY <1>6, <2>1 DEF BeginPreparation
<1>7. CASE EndPreparation(w, o)
  <2>1. [Here(w) EXCEPT !.version = Here(w).version + 1, !.prepared = TRUE,
                        !.kind = IF Preparing(at[w].place) = {w} THEN "prepared" ELSE "altered"]
           \in Space
    BY <1>1 DEF Space, Kinds
  <2> QED BY <1>7, <2>1 DEF EndPreparation
<1>8. CASE UNCHANGED space
  BY <1>8
<1> QED BY <1>2, <1>3, <1>4, <1>5, <1>6, <1>7, <1>8
        DEF WorkerNext, Claim, Settle, Commit, Renew, StoreFails, Look, PublishImport,
            MigrationFails, PreparationRefused, PreparationFails, RecordCandidate, Project,
            CopyRuntime, CopyFails, CompareRuntime, Schedule, disk

\* Every step of a worker keeps the types.
LEMMA StepTypes ==
    ASSUME TypeOK, NEW w \in Workers, NEW o \in Ops, WorkerNext(w, o)
    PROVE  TypeOK' /\ UNCHANGED fixed
<1> USE DEF WorkerNext
<1>1. UNCHANGED fixed
  BY DEF Claim, Settle, Commit, Renew, StoreFails, Look, Install, PublishImport, BeginTrial,
         Migrate, MigrationFails, WriteReceipt, PreparationRefused, BeginPreparation,
         EndPreparation, PreparationFails, RecordCandidate, Project, CopyRuntime, CopyFails,
         CompareRuntime, Schedule
<1>2. at' \in [Workers -> Stand]
  BY MovesOne
<1>3. space' \in [Places -> Space]
  BY SpaceSteps DEF TypeOK
<1>4. op' \in [Ops -> Operation]
  <2>1. op[o] \in Operation /\ op[o].attempt + 1 \in Nat
    BY DEF TypeOK, Operation
  <2>2. CASE Claim(w, o)
    <3>1. [state |-> "running", owner |-> w, attempt |-> op[o].attempt + 1] \in Operation
      BY <2>1 DEF Operation
    <3> QED BY <2>2, <3>1 DEF Claim, TypeOK
  <2>3. CASE \E s \in {"queued", "failed", "succeeded"} :
                op' = [op EXCEPT ![o].owner = None, ![o].state = s]
    <3>1. PICK s \in {"queued", "failed", "succeeded"} :
             op' = [op EXCEPT ![o].owner = None, ![o].state = s]
      BY <2>3
    <3>2. [op[o] EXCEPT !.owner = None, !.state = s] \in Operation
      BY <2>1 DEF Operation
    <3>3. op' = [op EXCEPT ![o] = [op[o] EXCEPT !.owner = None, !.state = s]]
      BY <3>1 DEF TypeOK
    <3> QED BY <3>2, <3>3 DEF TypeOK
  <2>4. CASE UNCHANGED op
    BY <2>4 DEF TypeOK
  <2> QED BY <2>2, <2>3, <2>4
          DEF Settle, Commit, Renew, StoreFails, Look, Install, PublishImport, BeginTrial,
              Migrate, MigrationFails, WriteReceipt, PreparationRefused, BeginPreparation,
              EndPreparation, PreparationFails, RecordCandidate, Project, CopyRuntime, CopyFails,
              CompareRuntime, Schedule
<1>5. runtime' \in [Places -> Space]
  <2>1. CASE CopyRuntime(w, o)
    BY <2>1, AtWork DEF CopyRuntime, TypeOK
  <2>2. CASE UNCHANGED runtime
    BY <2>2 DEF TypeOK
  <2> QED BY <2>1, <2>2
          DEF Claim, Settle, Commit, Renew, StoreFails, Look, Install, PublishImport, BeginTrial,
              Migrate, MigrationFails, WriteReceipt, PreparationRefused, BeginPreparation,
              EndPreparation, PreparationFails, RecordCandidate, Project, CopyFails,
              CompareRuntime, Schedule, disk
<1>6. /\ candidate' \in [Ops -> {"none", "verified", "ready"}] /\ intent' \subseteq Ops
      /\ imported' \in Nat \cup {None}
  BY DEF TypeOK, Claim, Settle, Commit, Renew, StoreFails, Look, Install, PublishImport,
         BeginTrial, Migrate, MigrationFails, WriteReceipt, PreparationRefused, BeginPreparation,
         EndPreparation, PreparationFails, RecordCandidate, Project, CopyRuntime, CopyFails,
         CompareRuntime, Schedule, rows
<1>7. incomplete' \in [Ops -> BOOLEAN]
  <2>1. UNCHANGED incomplete \/ \E b \in BOOLEAN : incomplete' = [incomplete EXCEPT ![o] = b]
    BY DEF Claim, Settle, Commit, Renew, StoreFails, Look, Install, PublishImport,
         BeginTrial, Migrate, MigrationFails, WriteReceipt, PreparationRefused, BeginPreparation,
         EndPreparation, PreparationFails, RecordCandidate, Project, CopyRuntime, CopyFails,
         CompareRuntime, Schedule, disk
  <2> QED BY <2>1 DEF TypeOK
<1>8. crowded' \in BOOLEAN
  <2>1. UNCHANGED crowded \/ crowded' = (crowded \/ Preparing(at[w].place) # {})
    BY DEF Claim, Settle, Commit, Renew, StoreFails, Look, Install, PublishImport,
         BeginTrial, Migrate, MigrationFails, WriteReceipt, PreparationRefused, BeginPreparation,
         EndPreparation, PreparationFails, RecordCandidate, Project, CopyRuntime, CopyFails,
         CompareRuntime, Schedule
  <2> QED BY <2>1 DEF TypeOK
<1>9. takeovers' \in 0..MaxTakeovers /\ errors' \in 0..MaxErrors
  BY BoundsAssumption DEF TypeOK, Claim, Settle, Commit, Renew, StoreFails, Look, Install,
         PublishImport, BeginTrial, Migrate, MigrationFails, WriteReceipt, PreparationRefused,
         BeginPreparation, EndPreparation, PreparationFails, RecordCandidate, Project,
         CopyRuntime, CopyFails, CompareRuntime, Schedule, bounds
<1> QED BY <1>1, <1>2, <1>3, <1>4, <1>5, <1>6, <1>7, <1>8, <1>9 DEF TypeOK, fixed


-----------------------------------------------------------------------------
(* Steps that leave the directories alone                                  *)

\* A place at which nothing is said of the directory.
LEMMA OffTheDirectory ==
    ASSUME NEW w \in Workers, at'[w].stage \notin Present,
           at'[w].stage # "idle" => at'[w].op \in Ops
    PROVE  Placed(w)'
BY DEF Placed, Present, Trying, After

\* Where the directories stay, only what the worker that moves says is new.
LEMMA QuietMove ==
    ASSUME IInv, NEW w \in Workers, \A v \in Workers : v # w => at'[v] = at[v],
           UNCHANGED <<space, crowded>>, UNCHANGED fixed,
           Placed(w)',
           at'[w].stage \in Trying => at[w].stage \in Trying /\ at'[w].place = at[w].place,
           at'[w].stage # "preparing"
    PROVE  PlacesInv' /\ AloneInv' /\ SpacesInv' /\ PointsStayRestorable'
<1>1. PlacesInv /\ AloneInv /\ SpacesInv /\ PointsStayRestorable
  BY DEF IInv
<1>2. UNCHANGED <<plan, point>>
  BY DEF fixed
<1>3. PlacesInv'
  <2>1. ASSUME NEW v \in Workers, v # w PROVE Placed(v)'
    BY <1>1, <1>2, <2>1 DEF PlacesInv, Placed, Here, NeedsPreparation
  <2> QED BY <2>1 DEF PlacesInv
<1>4. AloneInv'
  <2>1. ASSUME NEW v \in Workers, NEW u \in Workers, at'[v].place = at'[u].place,
               at'[v].stage \in Trying, at'[u].stage \in Trying
        PROVE  v = u
    <3>1. /\ at[v].stage \in Trying /\ at'[v].place = at[v].place
          /\ at[u].stage \in Trying /\ at'[u].place = at[u].place
      BY <2>1
    <3> QED BY <1>1, <2>1, <3>1 DEF AloneInv
  <2>2. ASSUME NEW v \in Workers, NEW u \in Workers, at'[v].place = at'[u].place, ~crowded',
               at'[v].stage = "preparing", at'[u].stage = "preparing"
        PROVE  v = u
    BY <1>1, <2>2 DEF AloneInv
  <2> QED BY <2>1, <2>2 DEF AloneInv
<1>5. \A p \in Places : Preparing(p)' \subseteq Preparing(p)
  BY DEF Preparing
<1>6. SpacesInv'
  BY <1>1, <1>2, <1>5 DEF SpacesInv
<1> QED BY <1>1, <1>3, <1>4, <1>6 DEF PointsStayRestorable, Accepts

\* Runtimes stay whole where no runtime is copied.
LEMMA RuntimesStay ==
    ASSUME IInv, UNCHANGED runtime, UNCHANGED fixed, crowded => crowded'
    PROVE  RuntimesAreWhole'
BY DEF IInv, RuntimesAreWhole, fixed

\* A worker that goes on at the same directory, with the same operation.
LEMMA StageMove ==
    ASSUME TypeOK, NEW w \in Workers, NEW x \in Stages, Goto(w, x)
    PROVE  at'[w].stage = x /\ at'[w].place = at[w].place /\ at'[w].op = at[w].op
BY DEF TypeOK, Stand, Goto

\* Steps after which the worker is not bound to a state of the directory:
\* claims, ends, errors, refusals and everything after the runtime is there.
LEMMA LooseStep ==
    ASSUME IInv, NEW w \in Workers, NEW o \in Ops, WorkerNext(w, o),
           UNCHANGED <<space, runtime, imported, crowded>>,
           \/ at' = [at EXCEPT ![w] = Idle]
           \/ at' = [at EXCEPT ![w] = [Idle EXCEPT !.stage = "begin", !.op = o]]
           \/ \E x \in {"look", "fetch", "retry", "fail", "commit", "compare", "schedule"} :
                 at[w].op = o /\ Goto(w, x)
    PROVE  IInv'
<1>1. TypeOK /\ ImportsAreExact
  BY DEF IInv
<1>2. TypeOK' /\ UNCHANGED fixed /\ \A v \in Workers : v # w => at'[v] = at[v]
  BY <1>1, StepTypes, MovesOne
<1>3. /\ at'[w].stage \in {"idle", "begin", "look", "fetch", "retry", "fail", "commit", "compare",
                           "schedule"}
      /\ at'[w].stage # "idle" => at'[w].op \in Ops
  <2>1. CASE at' = [at EXCEPT ![w] = Idle]
    BY <1>1, <2>1 DEF TypeOK, Idle
  <2>2. CASE at' = [at EXCEPT ![w] = [Idle EXCEPT !.stage = "begin", !.op = o]]
    BY <1>1, <2>2 DEF TypeOK, Idle
  <2>3. CASE \E x \in {"look", "fetch", "retry", "fail", "commit", "compare", "schedule"} :
                at[w].op = o /\ Goto(w, x)
    BY <1>1, <2>3, StageMove DEF Stages
  <2> QED BY <2>1, <2>2, <2>3
<1>4. Placed(w)'
  BY <1>3, OffTheDirectory DEF Present, Trying, After
<1>5. PlacesInv' /\ AloneInv' /\ SpacesInv' /\ PointsStayRestorable'
  BY <1>2, <1>3, <1>4, QuietMove DEF Trying
<1>6. RuntimesAreWhole' /\ ImportsAreExact'
  BY <1>1, <1>2, RuntimesStay DEF ImportsAreExact
<1> QED BY <1>2, <1>5, <1>6 DEF IInv

\* The death of a worker, which leaves the directories as they are.
LEMMA DieStep ==
    ASSUME IInv, NEW w \in Workers, Die(w)
    PROVE  IInv'
<1>1. TypeOK /\ ImportsAreExact
  BY DEF IInv
<1>2. /\ UNCHANGED fixed /\ UNCHANGED <<space, crowded>> /\ UNCHANGED <<runtime, imported>>
      /\ UNCHANGED <<op, incomplete, candidate, intent, takeovers, errors>>
      /\ at' = [at EXCEPT ![w] = Idle]
  BY DEF Die, Leave, disk, rows, bounds
<1>3. /\ at'[w].stage = "idle" /\ \A v \in Workers : v # w => at'[v] = at[v]
      /\ at' \in [Workers -> Stand]
  <2>1. Idle \in Stand
    BY DEF Idle, Stand, Stages, Places
  <2> QED BY <1>1, <1>2, <2>1 DEF TypeOK, Idle
<1>4. TypeOK'
  BY <1>1, <1>2, <1>3 DEF TypeOK, fixed
<1>5. Placed(w)'
  BY <1>3, OffTheDirectory DEF Present, Trying, After
<1>6. PlacesInv' /\ AloneInv' /\ SpacesInv' /\ PointsStayRestorable'
  BY <1>2, <1>3, <1>5, QuietMove DEF Trying
<1>7. RuntimesAreWhole' /\ ImportsAreExact'
  BY <1>1, <1>2, RuntimesStay DEF ImportsAreExact
<1> QED BY <1>4, <1>6, <1>7 DEF IInv


\* A step on at the same directory, whose new place says what is known of it.
LEMMA NextPlace ==
    ASSUME IInv, NEW w \in Workers, NEW o \in Ops, WorkerNext(w, o), at[w].op = o,
           UNCHANGED <<space, runtime, imported, crowded>>,
           NEW x \in Stages \ (Trying \cup {"preparing", "idle"}), Goto(w, x),
           x \in Present => Here(w).kind # "absent",
           x \in After => Here(w).receipt # None,
           x = "prepare" => NeedsPreparation(o),
           x \in {"project", "copy"} => plan[o].activate,
           x \in {"candidate", "project", "copy"} /\ plan[o].activate /\ point.partial =>
               Here(w).prepared
    PROVE  IInv'
<1>1. TypeOK /\ ImportsAreExact
  BY DEF IInv
<1>2. TypeOK' /\ UNCHANGED fixed /\ \A v \in Workers : v # w => at'[v] = at[v]
  BY <1>1, StepTypes, MovesOne
<1>3. at'[w].stage = x /\ at'[w].place = at[w].place /\ at'[w].op = o
  BY <1>1, StageMove
<1>4. Here(w)' = Here(w)
  BY <1>3 DEF Here
<1>5. Placed(w)'
  BY <1>2, <1>3, <1>4 DEF Placed, fixed, NeedsPreparation, Trying
<1>6. PlacesInv' /\ AloneInv' /\ SpacesInv' /\ PointsStayRestorable'
  BY <1>2, <1>3, <1>5, QuietMove DEF Trying
<1>7. RuntimesAreWhole' /\ ImportsAreExact'
  BY <1>1, <1>2, RuntimesStay DEF ImportsAreExact
<1> QED BY <1>2, <1>6, <1>7 DEF IInv

\* The lease is renewed, or the attempt is over.
LEMMA RenewStep ==
    ASSUME IInv, NEW w \in Workers, NEW o \in Ops, Renew(w, o)
    PROVE  IInv'
<1>1. UNCHANGED <<space, runtime, imported, crowded>> /\ WorkerNext(w, o) /\ at[w].op = o
  BY DEF Renew, WorkerNext, disk, rows, Stands
<1>2. TypeOK /\ Placed(w)
  BY DEF IInv, PlacesInv
<1>3. CASE Leave(w) \/ Goto(w, "look")
  BY <1>1, <1>3, LooseStep DEF Leave
<1>4. CASE at[w].stage \in {"import", "rehearse"} /\ \E x \in {"publish", "trial"} : Goto(w, x)
  <2>1. PICK x \in {"publish", "trial"} : Goto(w, x)
    BY <1>4
  <2>2. Here(w).kind # "absent"
    BY <1>2, <1>4 DEF Placed, Present
  <2> QED BY <1>1, <2>1, <2>2, NextPlace DEF Stages, Trying, After
<1> QED BY <1>3, <1>4 DEF Renew, Stands

\* The directory is looked at: absent, what its receipts say, or refused.
LEMMA LookStep ==
    ASSUME IInv, NEW w \in Workers, NEW o \in Ops, Look(w, o)
    PROVE  IInv'
<1>1. UNCHANGED <<space, runtime, imported, crowded>> /\ WorkerNext(w, o) /\ at[w].op = o
  BY DEF Look, WorkerNext, disk, rows, Stands
<1>2. CASE Goto(w, "fetch") \/ Goto(w, "fail")
  BY <1>1, <1>2, LooseStep
<1>3. CASE Here(w).kind # "absent" /\ Goto(w, Materialized(w))
  <2>1. PICK x \in {"import", "rehearse"} : Goto(w, x)
    BY <1>3 DEF Materialized
  <2> QED BY <1>1, <1>3, <2>1, NextPlace DEF Stages, Trying, After
<1> QED BY <1>2, <1>3 DEF Look

\* The import publishes the directory if it is still the manifest's.
LEMMA PublishImportStep ==
    ASSUME IInv, NEW w \in Workers, NEW o \in Ops, PublishImport(w, o)
    PROVE  IInv'
<1>1. TypeOK /\ ImportsAreExact /\ UNCHANGED <<space, runtime, crowded>> /\ WorkerNext(w, o)
      /\ at[w].op = o
  BY DEF IInv, PublishImport, WorkerNext, disk, Stands
<1>2. CASE UNCHANGED imported /\ Goto(w, "fail")
  BY <1>1, <1>2, LooseStep
<1>3. CASE /\ imported' = 0
           /\ at' = [at EXCEPT ![w] = [@ EXCEPT !.stage = "look", !.place = "imported"]]
  <2>1. TypeOK' /\ UNCHANGED fixed /\ \A v \in Workers : v # w => at'[v] = at[v]
    BY <1>1, StepTypes, MovesOne
  <2>2. at'[w].stage = "look" /\ at'[w].op = o
    BY <1>1, <1>3 DEF TypeOK, Stand
  <2>3. Placed(w)'
    BY <2>2, OffTheDirectory DEF Present, Trying, After
  <2>4. PlacesInv' /\ AloneInv' /\ SpacesInv' /\ PointsStayRestorable'
    BY <1>1, <2>1, <2>2, <2>3, QuietMove DEF Trying
  <2>5. RuntimesAreWhole' /\ ImportsAreExact'
    BY <1>1, <1>3, <2>1, RuntimesStay DEF ImportsAreExact
  <2> QED BY <2>1, <2>4, <2>5 DEF IInv
<1> QED BY <1>2, <1>3 DEF PublishImport

\* The candidate is recorded, and its runtime projected if it is to activate.
LEMMA CandidateSteps ==
    ASSUME IInv, NEW w \in Workers, NEW o \in Ops, RecordCandidate(w, o)
    PROVE  IInv'
<1>1. /\ UNCHANGED <<space, runtime, imported, crowded>> /\ WorkerNext(w, o) /\ at[w].op = o
      /\ at[w].stage = "candidate"
  BY DEF RecordCandidate, WorkerNext, disk, Stands
<1>2. Placed(w)
  BY DEF IInv, PlacesInv
<1>3. CASE Goto(w, "commit")
  BY <1>1, <1>3, LooseStep
<1>4. CASE plan[o].activate /\ Goto(w, "project")
  <2>1. Here(w).kind # "absent" /\ Here(w).receipt # None
        /\ (point.partial => Here(w).prepared)
    BY <1>1, <1>2, <1>4 DEF Placed, Present, After
  <2> QED BY <1>1, <1>4, <2>1, NextPlace DEF Stages, Trying
<1> QED BY <1>3, <1>4 DEF RecordCandidate

\* The directory is hashed, to be copied or to be compared with what is there.
LEMMA ProjectStep ==
    ASSUME IInv, NEW w \in Workers, NEW o \in Ops, Project(w, o)
    PROVE  IInv'
<1>1. /\ UNCHANGED <<space, runtime, imported, crowded>> /\ WorkerNext(w, o) /\ at[w].op = o
      /\ at[w].stage = "project"
  BY DEF Project, WorkerNext, rows, Stands
<1>2. TypeOK /\ Placed(w) /\ ImportsAreExact
  BY DEF IInv, PlacesInv
<1>3. CASE Goto(w, "fail")
  BY <1>1, <1>3, LooseStep
<1>4. CASE \E x \in {"copy", "compare"} :
              at' = [at EXCEPT ![w] = [@ EXCEPT !.stage = x, !.view = Here(w).version]]
  <2>1. TypeOK' /\ UNCHANGED fixed /\ \A v \in Workers : v # w => at'[v] = at[v]
    BY <1>1, <1>2, StepTypes, MovesOne
  <2>2. at'[w].stage \in {"copy", "compare"} /\ at'[w].place = at[w].place /\ at'[w].op = o
    BY <1>1, <1>2, <1>4 DEF TypeOK, Stand
  <2>3. Here(w)' = Here(w)
    BY <1>1, <2>2 DEF Here
  <2>4. Placed(w)'
    BY <1>1, <1>2, <2>1, <2>2, <2>3 DEF Placed, fixed, Present, Trying, After
  <2>5. PlacesInv' /\ AloneInv' /\ SpacesInv' /\ PointsStayRestorable'
    BY <1>1, <2>1, <2>2, <2>4, QuietMove DEF Trying
  <2>6. RuntimesAreWhole' /\ ImportsAreExact'
    BY <1>1, <1>2, <2>1, RuntimesStay DEF ImportsAreExact
  <2> QED BY <2>1, <2>5, <2>6 DEF IInv
<1> QED BY <1>3, <1>4 DEF Project

\* The runtime is a copy of a directory that is rehearsed, and prepared where
\* the point needs it, and that nobody is preparing beside the copy.
LEMMA CopyRuntimeStep ==
    ASSUME IInv, NEW w \in Workers, NEW o \in Ops, CopyRuntime(w, o)
    PROVE  IInv'
<1>1. /\ UNCHANGED <<space, imported, crowded>> /\ WorkerNext(w, o) /\ at[w].op = o
      /\ at[w].stage = "copy" /\ Goto(w, "compare")
      /\ runtime' = [runtime EXCEPT ![at[w].place] = Here(w)]
  BY DEF CopyRuntime, WorkerNext, rows, Stands
<1>2. TypeOK /\ Placed(w) /\ SpacesInv /\ ImportsAreExact /\ RuntimesAreWhole
  BY DEF IInv, PlacesInv
<1>3. TypeOK' /\ UNCHANGED fixed /\ \A v \in Workers : v # w => at'[v] = at[v]
  BY <1>1, <1>2, StepTypes, MovesOne
<1>4. at'[w].stage = "compare" /\ at'[w].op = o
  BY <1>1, <1>2, StageMove DEF Stages
<1>5. Placed(w)'
  BY <1>4, OffTheDirectory DEF Present, Trying, After
<1>6. PlacesInv' /\ AloneInv' /\ SpacesInv' /\ PointsStayRestorable'
  BY <1>1, <1>3, <1>4, <1>5, QuietMove DEF Trying
<1>7. Here(w).receipt # None /\ (point.partial => Here(w).prepared)
  BY <1>1, <1>2 DEF Placed, After
<1>8. ~crowded => Here(w).kind = IF point.partial THEN "prepared" ELSE "rehearsed"
  BY <1>2, <1>7, AtWork DEF SpacesInv, Here
<1>9. RuntimesAreWhole'
  BY <1>1, <1>2, <1>3, <1>8 DEF RuntimesAreWhole, TypeOK, fixed
<1>10. ImportsAreExact'
  BY <1>1, <1>2 DEF ImportsAreExact
<1> QED BY <1>3, <1>6, <1>9, <1>10 DEF IInv


-----------------------------------------------------------------------------
(* Steps that change a directory                                           *)

\* What such a step has to show: receipts and preparations stay, no other
\* worker is in the middle of a rehearsal, and the new state is explained.
LEMMA SpaceMove ==
    ASSUME IInv, NEW w \in Workers, NEW o \in Ops, WorkerNext(w, o), NEW s \in Space,
           space' = [space EXCEPT ![at[w].place] = s], UNCHANGED <<runtime, imported>>,
           at'[w].place = at[w].place, Placed(w)',
           s.kind # "absent",
           Here(w).receipt # None => s.receipt # None,
           Here(w).prepared => s.prepared,
           \A v \in Workers : v # w /\ at[v].place = at[w].place =>
               at[v].stage \notin Trying /\ (at[v].stage \in Present => Here(w).kind # "absent"),
           s.receipt # None => s.kind \in {"rehearsed", "altered", "prepared"},
           s.kind \in {"altered", "prepared"} => s.receipt # None /\ point.partial,
           s.prepared => s.receipt # None,
           s.prepared /\ ~crowded' => s.kind = "prepared" /\ Preparing(at[w].place)' = {},
           crowded => crowded',
           ~crowded' /\ at'[w].stage = "preparing" => Preparing(at[w].place) = {},
           Accepts(s) \/ (s.trial /\ s.receipt = None) \/ s.kind \in {"altered", "prepared"}
    PROVE  IInv'
<1>1. TypeOK /\ PlacesInv /\ AloneInv /\ SpacesInv /\ PointsStayRestorable /\ ImportsAreExact
  BY DEF IInv
<1>2. TypeOK' /\ UNCHANGED fixed /\ \A v \in Workers : v # w => at'[v] = at[v]
  BY <1>1, StepTypes, MovesOne
<1>3. UNCHANGED <<plan, point>> /\ at[w].place \in Places /\ Here(w) = space[at[w].place]
  BY <1>1, <1>2, AtWork DEF fixed, Here
<1>4. \A p \in Places : space'[p] = IF p = at[w].place THEN s ELSE space[p]
  BY <1>1, <1>3 DEF TypeOK
<1>5. PlacesInv'
  <2>1. ASSUME NEW v \in Workers, v # w, at[v].place # at[w].place PROVE Placed(v)'
    <3>1. Here(v)' = Here(v)
      BY <1>1, <1>2, <1>4, <2>1, AtWork DEF Here
    <3> QED BY <1>1, <1>2, <1>3, <2>1, <3>1 DEF PlacesInv, Placed, NeedsPreparation
  <2>2. ASSUME NEW v \in Workers, v # w, at[v].place = at[w].place PROVE Placed(v)'
    <3>1. Here(v)' = s /\ Here(v) = Here(w)
      BY <1>2, <1>3, <1>4, <2>2 DEF Here
    <3>2. at[v].stage \notin Trying
      BY <2>2
    <3> QED BY <1>1, <1>2, <1>3, <2>2, <3>1, <3>2
            DEF PlacesInv, Placed, NeedsPreparation, Trying
  <2> QED BY <2>1, <2>2 DEF PlacesInv
<1>6. AloneInv'
  <2>1. ASSUME NEW v \in Workers, NEW u \in Workers, v # u, at'[v].place = at'[u].place,
               at'[v].stage \in Trying, at'[u].stage \in Trying
        PROVE  FALSE
    BY <1>1, <1>2, <2>1 DEF AloneInv
  <2>2. ASSUME NEW v \in Workers, NEW u \in Workers, v # u, at'[v].place = at'[u].place, ~crowded',
               at'[v].stage = "preparing", at'[u].stage = "preparing"
        PROVE  FALSE
    BY <1>1, <1>2, <2>2 DEF AloneInv, Preparing
  <2> QED BY <2>1, <2>2 DEF AloneInv
<1>7. SpacesInv'
  <2>1. ASSUME NEW p \in Places, p # at[w].place PROVE Preparing(p)' = Preparing(p)
    BY <1>2, <2>1 DEF Preparing
  <2>2. ASSUME NEW p \in Places
        PROVE  /\ space'[p].receipt # None => space'[p].kind \in {"rehearsed", "altered", "prepared"}
               /\ space'[p].kind \in {"altered", "prepared"} =>
                     space'[p].receipt # None /\ point'.partial
               /\ space'[p].prepared => space'[p].receipt # None
               /\ space'[p].prepared /\ ~crowded' =>
                     space'[p].kind = "prepared" /\ Preparing(p)' = {}
    <3>1. CASE p = at[w].place
      <4>1. space'[p] = s
        BY <1>4, <3>1
      <4>2. Preparing(p)' = Preparing(at[w].place)'
        BY <3>1 DEF Preparing
      <4> QED BY <1>3, <4>1, <4>2
    <3>2. CASE p # at[w].place
      BY <1>1, <1>3, <1>4, <2>1, <3>2 DEF SpacesInv
    <3> QED BY <3>1, <3>2
  <2> QED BY <2>2 DEF SpacesInv
<1>8. PointsStayRestorable'
  BY <1>1, <1>3, <1>4 DEF PointsStayRestorable, Accepts
<1>9. RuntimesAreWhole' /\ ImportsAreExact'
  BY <1>1, <1>2, RuntimesStay DEF ImportsAreExact
<1> QED BY <1>2, <1>5, <1>6, <1>7, <1>8, <1>9 DEF IInv


\* Nobody is bound to a directory before it is installed.
LEMMA InstallStep ==
    ASSUME IInv, NEW w \in Workers, NEW o \in Ops, Install(w, o)
    PROVE  IInv'
<1>1. UNCHANGED <<runtime, imported, crowded>> /\ WorkerNext(w, o) /\ at[w].op = o
      /\ at[w].stage = "fetch"
  BY DEF Install, WorkerNext, rows, Stands
<1>2. TypeOK /\ PlacesInv /\ SpacesInv
  BY DEF IInv
<1>3. CASE UNCHANGED space /\ Goto(w, "fail")
  BY <1>1, <1>3, LooseStep
<1>4. CASE /\ Here(w).kind = "absent" /\ Goto(w, Materialized(w))
           /\ space' = [space EXCEPT ![at[w].place] = [Empty EXCEPT !.kind = "restored"]]
  <2> DEFINE s == [Empty EXCEPT !.kind = "restored"]
  <2>1. /\ s \in Space /\ s.kind = "restored" /\ s.receipt = None /\ ~s.prepared /\ s.version = 0
    BY DEF Empty, Space, Kinds
  <2>2. PICK x \in {"import", "rehearse"} : Goto(w, x)
    BY <1>4 DEF Materialized
  <2>3. at'[w].stage = x /\ at'[w].place = at[w].place /\ at'[w].op = o
    BY <1>1, <1>2, <2>2, StageMove DEF Stages
  <2>4. Here(w)' = s
    BY <1>2, <1>4, <2>3, AtWork DEF Here, TypeOK
  <2> HIDE DEF s
  <2>5. Placed(w)'
    BY <2>1, <2>3, <2>4 DEF Placed, Trying, After
  <2>6. \A v \in Workers : at[v].place = at[w].place => at[v].stage \notin Present
    BY <1>2, <1>4 DEF PlacesInv, Placed, Here
  <2>7. Here(w).receipt = None /\ ~Here(w).prepared
    BY <1>2, <1>4, AtWork DEF SpacesInv, Here
  <2>8. Accepts(s)
    BY <2>1 DEF Accepts
  <2>9. space' = [space EXCEPT ![at[w].place] = s]
    BY <1>4 DEF s
  <2> QED BY <1>1, <2>1, <2>2, <2>3, <2>5, <2>6, <2>7, <2>8, <2>9, SpaceMove DEF Present
<1> QED BY <1>3, <1>4 DEF Install

\* The trial directory is made once.
LEMMA BeginTrialStep ==
    ASSUME IInv, NEW w \in Workers, NEW o \in Ops, BeginTrial(w, o)
    PROVE  IInv'
<1>1. UNCHANGED <<runtime, imported, crowded>> /\ WorkerNext(w, o) /\ at[w].op = o
      /\ at[w].stage = "trial"
  BY DEF BeginTrial, WorkerNext, rows, Stands
<1>2. TypeOK /\ PlacesInv /\ SpacesInv /\ PointsStayRestorable
  BY DEF IInv
<1>3. Here(w).kind # "absent"
  BY <1>1, <1>2 DEF PlacesInv, Placed, Present
<1>4. CASE UNCHANGED space /\ Goto(w, "fail")
  BY <1>1, <1>4, LooseStep
<1>5. CASE Here(w).receipt # None /\ Goto(w, Rehearsed(o)) /\ UNCHANGED space
  <2>1. CASE NeedsPreparation(o)
    BY <1>1, <1>3, <1>5, <2>1, NextPlace DEF Rehearsed, Stages, Trying
  <2>2. CASE ~NeedsPreparation(o)
    <3>1. plan[o].activate => ~point.partial
      BY <1>2, <2>2 DEF NeedsPreparation, TypeOK, Plans
    <3> QED BY <1>1, <1>3, <1>5, <2>2, <3>1, NextPlace DEF Rehearsed, Stages, Trying
  <2> QED BY <2>1, <2>2
<1>6. CASE /\ Here(w).receipt = None /\ ~Here(w).trial /\ Goto(w, "migrate")
           /\ space' = [space EXCEPT ![at[w].place].trial = TRUE]
  <2> DEFINE s == [Here(w) EXCEPT !.trial = TRUE]
  <2>1. Here(w) \in Space
    BY <1>2, AtWork
  <2>2. /\ s \in Space /\ s.kind = Here(w).kind /\ s.receipt = None /\ s.trial
        /\ s.prepared = Here(w).prepared
    BY <1>6, <2>1 DEF Space
  <2>3. space' = [space EXCEPT ![at[w].place] = s]
    BY <1>6 DEF Here
  <2>4. at'[w].stage = "migrate" /\ at'[w].place = at[w].place /\ at'[w].op = o
    BY <1>1, <1>2, <1>6, StageMove DEF Stages
  <2>5. Here(w)' = s
    BY <1>2, <2>3, <2>4, AtWork DEF Here, TypeOK
  <2> HIDE DEF s
  <2>6. Placed(w)'
    BY <1>3, <2>2, <2>4, <2>5 DEF Placed, Trying, After
  <2>7. \A v \in Workers : at[v].place = at[w].place => at[v].stage \notin Trying
    BY <1>2, <1>6 DEF PlacesInv, Placed, Here
  <2>8. ~Here(w).prepared /\ Here(w).kind \notin {"altered", "prepared"}
    BY <1>2, <1>6, AtWork DEF SpacesInv, Here
  <2> QED BY <1>1, <1>3, <1>6, <2>2, <2>3, <2>4, <2>6, <2>7, <2>8, SpaceMove
<1> QED BY <1>4, <1>5, <1>6 DEF BeginTrial

\* The one worker at the trial replaces the database, then signs the receipt.
LEMMA MigrateStep ==
    ASSUME IInv, NEW w \in Workers, NEW o \in Ops, Migrate(w, o)
    PROVE  IInv'
<1>1. UNCHANGED <<runtime, imported, crowded>> /\ WorkerNext(w, o) /\ at[w].op = o
      /\ at[w].stage = "migrate" /\ Goto(w, "receipt")
  BY DEF Migrate, WorkerNext, rows, Stands
<1>2. TypeOK /\ PlacesInv /\ SpacesInv /\ AloneInv
  BY DEF IInv
<1>3. Here(w).trial /\ Here(w).receipt = None /\ Here(w) \in Space /\ Here(w).version + 1 \in Nat
  BY <1>1, <1>2, AtWork DEF PlacesInv, Placed, Trying, Space
<1> DEFINE s == [Here(w) EXCEPT !.kind = "rehearsed",
                                !.version = IF point.behind THEN Here(w).version + 1
                                                            ELSE Here(w).version]
<1>4. /\ s \in Space /\ s.kind = "rehearsed" /\ s.receipt = None /\ s.trial
      /\ s.prepared = Here(w).prepared
  BY <1>3 DEF Space, Kinds
<1>5. space' = [space EXCEPT ![at[w].place] = s]
  BY DEF Migrate
<1>6. at'[w].stage = "receipt" /\ at'[w].place = at[w].place /\ at'[w].op = o
  BY <1>1, <1>2, StageMove DEF Stages
<1>7. Here(w)' = s
  BY <1>2, <1>5, <1>6, AtWork DEF Here, TypeOK
<1> HIDE DEF s
<1>8. Placed(w)'
  BY <1>4, <1>6, <1>7 DEF Placed, Trying, After
<1>9. \A v \in Workers : v # w /\ at[v].place = at[w].place => at[v].stage \notin Trying
  BY <1>1, <1>2 DEF AloneInv, Trying
<1>10. ~Here(w).prepared /\ Here(w).kind # "absent"
  BY <1>1, <1>2, <1>3, AtWork DEF SpacesInv, Here, PlacesInv, Placed, Present, Trying
<1> QED BY <1>1, <1>3, <1>4, <1>5, <1>6, <1>8, <1>9, <1>10, SpaceMove

\* The receipt names the database as the trial left it, so it is accepted again.
LEMMA WriteReceiptStep ==
    ASSUME IInv, NEW w \in Workers, NEW o \in Ops, WriteReceipt(w, o)
    PROVE  IInv'
<1>1. UNCHANGED <<runtime, imported, crowded>> /\ WorkerNext(w, o) /\ at[w].op = o
      /\ at[w].stage = "receipt" /\ Goto(w, Rehearsed(o))
  BY DEF WriteReceipt, WorkerNext, rows, Stands
<1>2. TypeOK /\ PlacesInv /\ SpacesInv /\ AloneInv
  BY DEF IInv
<1>3. /\ Here(w).trial /\ Here(w).receipt = None /\ Here(w).kind = "rehearsed"
      /\ Here(w) \in Space /\ Here(w).version \in Nat
  BY <1>1, <1>2, AtWork DEF PlacesInv, Placed, Trying, Space
<1> DEFINE s == [Here(w) EXCEPT !.receipt = Here(w).version]
<1>4. s.receipt # None
  BY <1>3, NoneAssumption DEF Space
<1>5. /\ s \in Space /\ s.kind = "rehearsed" /\ s.prepared = Here(w).prepared
      /\ s.version = s.receipt
  BY <1>3 DEF Space, Kinds
<1>6. space' = [space EXCEPT ![at[w].place] = s]
  BY DEF WriteReceipt
<1>7. PICK x \in {"prepare", "candidate"} :
         /\ Goto(w, x) /\ (x = "prepare" <=> NeedsPreparation(o))
  BY <1>1 DEF Rehearsed
<1>8. at'[w].stage = x /\ at'[w].place = at[w].place /\ at'[w].op = o
  BY <1>1, <1>2, <1>7, StageMove DEF Stages
<1>9. Here(w)' = s
  BY <1>2, <1>6, <1>8, AtWork DEF Here, TypeOK
<1> HIDE DEF s
<1>10. UNCHANGED <<plan, point>> /\ (x = "candidate" /\ plan[o].activate => ~point.partial)
  BY <1>1, <1>2, <1>7, StepTypes DEF fixed, NeedsPreparation, TypeOK, Plans
<1>11. Placed(w)'
  BY <1>4, <1>5, <1>7, <1>8, <1>9, <1>10 DEF Placed, Trying, NeedsPreparation
<1>12. \A v \in Workers : v # w /\ at[v].place = at[w].place => at[v].stage \notin Trying
  BY <1>1, <1>2 DEF AloneInv, Trying
<1>13. ~Here(w).prepared
  BY <1>2, <1>3, AtWork DEF SpacesInv, Here
<1>14. Accepts(s)
  BY <1>4, <1>5 DEF Accepts
<1> QED BY <1>1, <1>3, <1>4, <1>5, <1>6, <1>7, <1>8, <1>11, <1>12, <1>13, <1>14, SpaceMove


\* A preparation alters a rehearsed directory whose point needs it; the history
\* notes one that begins beside another.
LEMMA BeginPreparationStep ==
    ASSUME IInv, NEW w \in Workers, NEW o \in Ops, BeginPreparation(w, o)
    PROVE  IInv'
<1>1. UNCHANGED <<runtime, imported>> /\ WorkerNext(w, o) /\ at[w].op = o
      /\ at[w].stage = "prepare"
  BY DEF BeginPreparation, WorkerNext, rows, Stands
<1>2. TypeOK /\ PlacesInv /\ SpacesInv /\ AloneInv
  BY DEF IInv
<1>3. /\ Here(w).receipt # None /\ Here(w).kind # "absent" /\ NeedsPreparation(o)
      /\ Here(w) \in Space /\ Here(w).version + 1 \in Nat
  BY <1>1, <1>2, AtWork DEF PlacesInv, Placed, Present, After, Space
<1>4. CASE Here(w).prepared /\ Goto(w, "candidate") /\ UNCHANGED <<space, crowded>>
  BY <1>1, <1>3, <1>4, NextPlace DEF Stages, Trying
<1>5. CASE /\ ~Here(w).prepared /\ Goto(w, "preparing")
           /\ space' = [space EXCEPT ![at[w].place] =
                           [Here(w) EXCEPT !.kind = "altered", !.version = Here(w).version + 1]]
           /\ crowded' = (crowded \/ Preparing(at[w].place) # {})
  <2> DEFINE s == [Here(w) EXCEPT !.kind = "altered", !.version = Here(w).version + 1]
  <2>1. /\ s \in Space /\ s.kind = "altered" /\ s.receipt = Here(w).receipt
        /\ s.prepared = Here(w).prepared
    BY <1>3 DEF Space, Kinds
  <2>2. space' = [space EXCEPT ![at[w].place] = s]
    BY <1>5
  <2>3. at'[w].stage = "preparing" /\ at'[w].place = at[w].place /\ at'[w].op = o
    BY <1>1, <1>2, <1>5, StageMove DEF Stages
  <2>4. Here(w)' = s
    BY <1>2, <2>2, <2>3, AtWork DEF Here, TypeOK
  <2> HIDE DEF s
  <2>5. UNCHANGED <<plan, point>> /\ point.partial
    BY <1>1, <1>2, <1>3, StepTypes DEF fixed, NeedsPreparation
  <2>6. Placed(w)'
    BY <1>3, <2>1, <2>3, <2>4, <2>5 DEF Placed, Trying, NeedsPreparation
  <2>7. \A v \in Workers : at[v].place = at[w].place => at[v].stage \notin Trying
    BY <1>2, <1>3 DEF PlacesInv, Placed, Here
  <2>8. (crowded => crowded') /\ (~crowded' => Preparing(at[w].place) = {})
    BY <1>2, <1>5 DEF TypeOK
  <2> QED BY <1>1, <1>3, <1>5, <2>1, <2>2, <2>3, <2>5, <2>6, <2>7, <2>8, SpaceMove
<1> QED BY <1>4, <1>5 DEF BeginPreparation

\* The preparation of a worker that prepares alone leaves a prepared directory.
LEMMA EndPreparationStep ==
    ASSUME IInv, NEW w \in Workers, NEW o \in Ops, EndPreparation(w, o)
    PROVE  IInv'
<1>1. UNCHANGED <<runtime, imported, crowded>> /\ WorkerNext(w, o) /\ at[w].op = o
      /\ at[w].stage = "preparing" /\ Goto(w, "candidate")
  BY DEF EndPreparation, WorkerNext, rows, Stands
<1>2. TypeOK /\ PlacesInv /\ SpacesInv /\ AloneInv
  BY DEF IInv
<1>3. /\ Here(w).receipt # None /\ Here(w).kind # "absent" /\ NeedsPreparation(o)
      /\ Here(w) \in Space /\ Here(w).version + 1 \in Nat
  BY <1>1, <1>2, AtWork DEF PlacesInv, Placed, Present, After, Space
<1>4. ~crowded => Preparing(at[w].place) = {w}
  BY <1>1, <1>2 DEF AloneInv, Preparing
<1> DEFINE k == IF Preparing(at[w].place) = {w} THEN "prepared" ELSE "altered"
<1> DEFINE s == [Here(w) EXCEPT !.version = Here(w).version + 1, !.prepared = TRUE, !.kind = k]
<1>5. k \in {"prepared", "altered"} /\ (~crowded => k = "prepared")
  BY <1>4
<1>6. space' = [space EXCEPT ![at[w].place] = s]
  BY DEF EndPreparation
<1> HIDE DEF k
<1>7. s \in Space /\ s.kind = k /\ s.receipt = Here(w).receipt /\ s.prepared
  BY <1>3, <1>5 DEF Space, Kinds
<1>8. at'[w].stage = "candidate" /\ at'[w].place = at[w].place /\ at'[w].op = o
  BY <1>1, <1>2, StageMove DEF Stages
<1>9. Here(w)' = s
  BY <1>2, <1>6, <1>8, AtWork DEF Here, TypeOK
<1> HIDE DEF s
<1>10. UNCHANGED <<plan, point>> /\ point.partial /\ \A v \in Workers : v # w => at'[v] = at[v]
  BY <1>1, <1>2, <1>3, StepTypes, MovesOne DEF fixed, NeedsPreparation
<1>11. Placed(w)'
  BY <1>3, <1>5, <1>7, <1>8, <1>9, <1>10 DEF Placed, Trying, NeedsPreparation
<1>12. \A v \in Workers : at[v].place = at[w].place => at[v].stage \notin Trying
  BY <1>2, <1>3 DEF PlacesInv, Placed, Here
<1>13. ~crowded' => Preparing(at[w].place)' = {}
  BY <1>1, <1>4, <1>8, <1>10 DEF Preparing
<1> QED BY <1>1, <1>3, <1>5, <1>6, <1>7, <1>8, <1>10, <1>11, <1>12, <1>13, SpaceMove

-----------------------------------------------------------------------------
(* The invariant, and what it says                                         *)

\* Every step keeps the invariant.
LEMMA StepKeeps ==
    ASSUME IInv, [Next]_vars
    PROVE  IInv'
<1>1. CASE \E w \in Workers : Die(w)
  BY <1>1, DieStep
<1>2. ASSUME NEW w \in Workers, NEW o \in Ops, WorkerNext(w, o) PROVE IInv'
  <2>1. CASE Claim(w, o) \/ Settle(w, o) \/ Commit(w, o)
    <3>1. UNCHANGED <<space, runtime, imported, crowded>>
      BY <2>1 DEF Claim, Settle, Commit, disk, rows
    <3> QED BY <1>2, <2>1, <3>1, LooseStep DEF Claim, Settle, Commit, Leave
  <2>2. CASE \/ StoreFails(w, o) \/ MigrationFails(w, o) \/ PreparationRefused(w, o)
             \/ PreparationFails(w, o) \/ CopyFails(w, o) \/ CompareRuntime(w, o)
             \/ Schedule(w, o)
    <3>1. UNCHANGED <<space, runtime, imported, crowded>> /\ at[w].op = o
      BY <2>2 DEF StoreFails, MigrationFails, PreparationRefused, PreparationFails, CopyFails,
                  CompareRuntime, Schedule, disk, rows, Stands
    <3>2. \E x \in {"retry", "fail", "commit", "schedule"} : Goto(w, x)
      BY <2>2 DEF StoreFails, MigrationFails, PreparationRefused, PreparationFails, CopyFails,
                  CompareRuntime, Schedule
    <3> QED BY <1>2, <3>1, <3>2, LooseStep
  <2>3. CASE Renew(w, o) \/ Look(w, o) \/ PublishImport(w, o) \/ RecordCandidate(w, o)
             \/ Project(w, o) \/ CopyRuntime(w, o)
    BY <2>3, RenewStep, LookStep, PublishImportStep, CandidateSteps, ProjectStep, CopyRuntimeStep
  <2>4. CASE Install(w, o) \/ BeginTrial(w, o) \/ Migrate(w, o) \/ WriteReceipt(w, o)
             \/ BeginPreparation(w, o) \/ EndPreparation(w, o)
    BY <2>4, InstallStep, BeginTrialStep, MigrateStep, WriteReceiptStep, BeginPreparationStep,
       EndPreparationStep
  <2> QED BY <1>2, <2>1, <2>2, <2>3, <2>4 DEF WorkerNext
<1>3. CASE UNCHANGED vars
  BY <1>3 DEF vars, fixed, disk, rows, bounds, IInv, TypeOK, PlacesInv, Placed, Here, AloneInv,
              SpacesInv, Preparing, NeedsPreparation, RuntimesAreWhole, PointsStayRestorable,
              Accepts, ImportsAreExact
<1> QED BY <1>1, <1>2, <1>3 DEF Next

\* The invariant holds of the specification.
LEMMA InvHolds == Spec => []IInv
<1>1. Init => IInv
  BY InitInv
<1>2. IInv /\ [Next]_vars => IInv'
  BY StepKeeps
<1> QED BY <1>1, <1>2, PTL DEF Spec

\* Plans, directories, rows and positions keep their types.
THEOREM TypeCorrect == Spec => []TypeOK
<1>1. IInv => TypeOK
  BY DEF IInv
<1> QED BY <1>1, InvHolds, PTL

\* A runtime that an intent may target is one whole state of the directory,
\* rehearsed, and prepared where the point needs it, whatever attempts die and
\* however many go on without their lease, unless two were preparing at once.
THEOREM CopiesAreWhole == Spec => []RuntimesAreWhole
<1>1. IInv => RuntimesAreWhole
  BY DEF IInv
<1> QED BY <1>1, InvHolds, PTL

\* A directory stays usable for every later attempt, unless a rehearsal did not
\* reach its receipt or a preparation altered it.
THEOREM DirectoriesStayRestorable == Spec => []PointsStayRestorable
<1>1. IInv => PointsStayRestorable
  BY DEF IInv
<1> QED BY <1>1, InvHolds, PTL

\* What an import publishes is the selected point, byte for byte.
THEOREM PublishesExactImports == Spec => []ImportsAreExact
<1>1. IInv => ImportsAreExact
  BY DEF IInv
<1> QED BY <1>1, InvHolds, PTL

=============================================================================
