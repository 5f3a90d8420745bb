------------------------- MODULE VaultRestoreProofs -------------------------
(* Proofs about VaultRestore for any number of jobs and workers.            *)
EXTENDS VaultRestore, SequenceTheorems, TLAPS

Rows      == [job: Jobs, state: States, path: BOOLEAN]
Positions == [stage: Stages, job: Jobs \cup {None}, ws: Nat, state: States,
              error: Errors, assigned: BOOLEAN]

\* Before `incomplete` is assigned; while it is built, named and alone; after
\* the last heartbeat; with a workspace row.
Early  == {"idle", "verify", "start", "download", "mark", "enter", "check"}
Chain  == Building \ {"record", "finish"}
Late   == Building \cup {"mark", "enter", "check", "complete"}
Placed == Late \cup {"start", "download", "handle", "failing", "stopped"}

\* What was done to the incomplete runtime when an attempt stands at a stage.
Done(stage) ==
    IF stage \in {"copy", "record", "finish"} THEN {} ELSE
    {"copied"}
    \cup (IF derived /\ stage \in {"rehearse", "migrate", "seal", "rename"}
          THEN {"sanitized"} ELSE {})
    \cup (IF stage \in {"seal", "rename"} THEN {"rehearsed"} ELSE {})
    \cup (IF stage = "rename" THEN {"sealed"} ELSE {})

\* An attempt has a job and, from its start on, a row of that job; it names the
\* incomplete runtime while it builds and never before; it recorded a runtime
\* that is there; and past its last heartbeat it owns its job or was cut off.
Sound(w) ==
    /\ at[w].stage # "idle" => at[w].job \in Jobs
    /\ at[w].stage \in Placed => at[w].ws \in 1..Len(ws) /\ ws[at[w].ws].job = at[w].job
    /\ at[w].stage \in Early => ~at[w].assigned
    /\ at[w].stage \in Building => at[w].assigned
    /\ at[w].stage = "handle" /\ at[w].error = "read" => ~at[w].assigned
    /\ at[w].stage \in {"record", "finish"} => runtime # None
    /\ at[w].stage \in Late => Owns(w) \/ cut \cap Late # {}

AtInv == \A w \in Workers : Sound(w)

\* Unless an attempt removed what another one built, one attempt at a time
\* builds, nothing else lies on disk meanwhile, every deed was done when its
\* stage is over, and what was renamed is complete.
ChainInv ==
    ~raided =>
      /\ \A w \in Workers : at[w].stage \in Chain =>
            /\ incomplete # None /\ Done(at[w].stage) \subseteq incomplete /\ runtime = None
            /\ \A v \in Workers : at[v].stage \in Chain => v = w
      /\ runtime # None => Complete(runtime) /\ incomplete = None

\* Who answers for the incomplete runtime: its builder, or a handler that got
\* to name it.
Minds(w) == at[w].stage \in Chain \/ (at[w].stage = "handle" /\ at[w].assigned)

OwnInv ==
    /\ ~raided /\ incomplete # None =>
          \/ \E w \in Workers : Minds(w)
          \/ cut \cap (Building \cup {"handle"}) # {}
          \/ "sealed" \in incomplete
    /\ runtime # None =>
          \/ \E i \in 1..Len(ws) : ws[i].path
          \/ \E w \in Workers : at[w].stage = "record"
          \/ "record" \in cut

\* A ready row stands for a runtime, and its job ended well or is about to.
Vouched(i) ==
    /\ runtime # None
    /\ \/ cut \cap Late # {}
       \/ job[ws[i].job].status \in {"succeeded", "cancelled"}
       \/ \E w \in Workers : at[w].stage = "complete" /\ at[w].job = ws[i].job

ReadyInv == \A i \in 1..Len(ws) : ws[i].state = "activation_ready" => Vouched(i)

\* A job has one row that did not fail, at most.
UniqueInv ==
    \A i, k \in 1..Len(ws) :
        ws[i].job = ws[k].job /\ ws[i].state # "failed" /\ ws[k].state # "failed" => i = k

\* A job in progress has an owner.
OwnerInv ==
    \A j \in Jobs : job[j].status \in {"running", "cancelling"} => job[j].owner \in Workers

\* What the steps preserve together.
IInv == TypeOK /\ AtInv /\ ChainInv /\ OwnInv /\ ReadyInv /\ UniqueInv /\ OwnerInv

-----------------------------------------------------------------------------
(* Stages, rows and positions                                              *)

\* The order of the stages, one by one.
LEMMA Order ==
    /\ After("start") = "download" /\ After("download") = "mark" /\ After("mark") = "enter"
    /\ After("enter") = "check" /\ After("copy") = IF derived THEN "scrub" ELSE "rehearse"
    /\ After("scrub") = "sanitize" /\ After("sanitize") = "rehearse"
    /\ After("rehearse") = "migrate" /\ After("migrate") = "seal" /\ After("seal") = "rename"
    /\ After("rename") = "record" /\ After("record") = "finish" /\ After("finish") = "complete"
  BY DEF After

\* A worker that moves leaves the others where they stand.
LEMMA Moved ==
    ASSUME at \in [Workers -> Positions], NEW w \in Workers, NEW y \in Positions,
           at' = [at EXCEPT ![w] = y]
    PROVE  /\ at' \in [Workers -> Positions] /\ at'[w] = y
           /\ \A v \in Workers : v # w => at'[v] = at[v]
  OBVIOUS

\* A row that changes leaves the others as they are.
LEMMA RowSet ==
    ASSUME ws \in Seq(Rows), NEW i \in 1..Len(ws), NEW r \in Rows, ws' = [ws EXCEPT ![i] = r]
    PROVE  /\ ws' \in Seq(Rows) /\ Len(ws') = Len(ws) /\ ws'[i] = r
           /\ \A k \in 1..Len(ws) : k # i => ws'[k] = ws[k]
  BY ExceptSeq

\* The state or the path of a row.
LEMMA RowFields ==
    ASSUME NEW r \in Rows, NEW s \in States
    PROVE  /\ LET q == [r EXCEPT !.state = s] IN
              q \in Rows /\ q.job = r.job /\ q.state = s /\ q.path = r.path
           /\ LET q == [r EXCEPT !.path = TRUE] IN
              q \in Rows /\ q.job = r.job /\ q.state = r.state /\ q.path
  BY DEF Rows


-----------------------------------------------------------------------------
(* What each kind of step keeps                                            *)

\* A step of an attempt that leaves the jobs alone and is not its end keeps the
\* attempts, the ready rows and the owners, if it leaves its own position sound
\* and makes no row ready but as its last act.
LEMMA AttemptKeeps ==
    ASSUME TypeOK, AtInv, ReadyInv, OwnerInv, TypeOK', NEW w \in Workers,
           job' = job, cut' = cut, at[w].stage # "complete",
           \A v \in Workers : v # w => at'[v] = at[v],
           Sound(w)',
           \A i \in 1..Len(ws) : i \in 1..Len(ws') /\ ws'[i].job = ws[i].job,
           runtime # None => runtime' # None,
           \A i \in 1..Len(ws') : ws'[i].state = "activation_ready" =>
              \/ i \in 1..Len(ws) /\ ws[i].state = "activation_ready"
              \/ runtime' # None /\ at'[w].stage = "complete" /\ at'[w].job = ws'[i].job
    PROVE  AtInv' /\ ReadyInv' /\ OwnerInv'
<1>1. AtInv'
  <2> SUFFICES ASSUME NEW v \in Workers, v # w PROVE Sound(v)'
    BY DEF AtInv
  <2>1. Sound(v) /\ at'[v] = at[v]
    BY DEF AtInv
  <2> QED
    BY <2>1 DEF Sound, Owns, Placed, Late, Building
<1>2. ReadyInv'
  <2> SUFFICES ASSUME NEW i \in 1..Len(ws'), ws'[i].state = "activation_ready"
               PROVE  Vouched(i)'
    BY DEF ReadyInv
  <2>1. CASE runtime' # None /\ at'[w].stage = "complete" /\ at'[w].job = ws'[i].job
    BY <2>1 DEF Vouched
  <2>2. CASE i \in 1..Len(ws) /\ ws[i].state = "activation_ready"
    <3>1. Vouched(i) /\ ws'[i].job = ws[i].job
      BY <2>2 DEF ReadyInv
    <3>2. ASSUME NEW v \in Workers, at[v].stage = "complete" /\ at[v].job = ws[i].job
          PROVE  at'[v].stage = "complete" /\ at'[v].job = ws'[i].job
      BY <3>1, <3>2
    <3> QED
      BY <3>1, <3>2 DEF Vouched
  <2> QED
    BY <2>1, <2>2
<1>3. OwnerInv'
  BY DEF OwnerInv
<1> QED
  BY <1>1, <1>2, <1>3

\* A step that leaves the directories alone keeps them in order, if it begins
\* no building and abandons none without leaving a trace.
LEMMA DirsKeep ==
    ASSUME TypeOK, ChainInv, OwnInv, NEW w \in Workers,
           UNCHANGED <<derived, incomplete, runtime, raided>>, cut \subseteq cut',
           \A v \in Workers : v # w => at'[v] = at[v],
           at'[w].stage \in Chain => at[w].stage \in Chain
                                     /\ Done(at'[w].stage) \subseteq Done(at[w].stage),
           Minds(w) => Minds(w)' \/ cut' \cap (Building \cup {"handle"}) # {},
           at[w].stage = "record" => \/ at'[w].stage = "record" \/ "record" \in cut'
                                     \/ \E i \in 1..Len(ws') : ws'[i].path,
           \A i \in 1..Len(ws) : i \in 1..Len(ws') /\ (ws[i].path => ws'[i].path)
    PROVE  ChainInv' /\ OwnInv'
<1>1. ASSUME NEW s PROVE Done(s)' = Done(s)
  BY DEF Done
<1>2. Complete(runtime)' = Complete(runtime)
  BY DEF Complete
<1>3. ChainInv'
  <2> SUFFICES ASSUME ~raided
               PROVE  /\ \A v \in Workers : at'[v].stage \in Chain =>
                            /\ incomplete # None /\ Done(at'[v].stage) \subseteq incomplete
                            /\ runtime = None
                            /\ \A u \in Workers : at'[u].stage \in Chain => u = v
                      /\ runtime # None => Complete(runtime) /\ incomplete = None
    BY <1>1, <1>2 DEF ChainInv
  <2>1. \A v \in Workers : at'[v].stage \in Chain =>
           at[v].stage \in Chain /\ Done(at'[v].stage) \subseteq Done(at[v].stage)
    OBVIOUS
  <2>2. /\ \A v \in Workers : at[v].stage \in Chain =>
              /\ incomplete # None /\ Done(at[v].stage) \subseteq incomplete /\ runtime = None
              /\ \A u \in Workers : at[u].stage \in Chain => u = v
        /\ runtime # None => Complete(runtime) /\ incomplete = None
    BY DEF ChainInv
  <2> QED
    BY <2>1, <2>2
<1>4. OwnInv'
  <2>1. ASSUME NEW v \in Workers, v # w PROVE Minds(v)' <=> Minds(v)
    BY <2>1 DEF Minds
  <2>2. ASSUME ~raided', incomplete' # None
        PROVE  \/ (\E v \in Workers : Minds(v))'
               \/ cut' \cap (Building \cup {"handle"}) # {}
               \/ "sealed" \in incomplete'
    <3>1. \/ \E v \in Workers : Minds(v)
          \/ cut \cap (Building \cup {"handle"}) # {}
          \/ "sealed" \in incomplete
      BY <2>2 DEF OwnInv
    <3>2. ASSUME NEW v \in Workers, Minds(v)
          PROVE  (\E u \in Workers : Minds(u))' \/ cut' \cap (Building \cup {"handle"}) # {}
      BY <2>1, <3>2
    <3> QED
      BY <3>1, <3>2
  <2>3. ASSUME runtime' # None
        PROVE  \/ \E i \in 1..Len(ws') : ws'[i].path
               \/ \E v \in Workers : at'[v].stage = "record"
               \/ "record" \in cut'
    <3>1. \/ \E i \in 1..Len(ws) : ws[i].path
          \/ \E v \in Workers : at[v].stage = "record"
          \/ "record" \in cut
      BY <2>3 DEF OwnInv
    <3> QED
      BY <3>1
  <2> QED
    BY <2>2, <2>3 DEF OwnInv
<1> QED
  BY <1>3, <1>4

\* Rows that do not change, or change their state or path and never cease to be
\* failed, stay one per job.
LEMMA UniqueKeeps ==
    ASSUME UniqueInv, Len(ws') = Len(ws),
           \A i \in 1..Len(ws) : /\ ws'[i].job = ws[i].job
                                 /\ ws[i].state = "failed" => ws'[i].state = "failed"
    PROVE  UniqueInv'
  BY DEF UniqueInv


-----------------------------------------------------------------------------
(* The steps of an attempt                                                 *)

\* The other workers stay, and this one changes these fields alone.
Turns(w, s, e) ==
    /\ at' \in [Workers -> Positions] /\ at'[w].stage = s /\ at'[w].error = e
    /\ at'[w].job = at[w].job /\ at'[w].ws = at[w].ws /\ at'[w].assigned = at[w].assigned
    /\ \A v \in Workers : v # w => at'[v] = at[v]

\* Positions and rows as sets of records.
LEMMA Types ==
    ASSUME TypeOK
    PROVE  /\ at \in [Workers -> Positions] /\ ws \in Seq(Rows)
           /\ Len(ws) \in Nat /\ DOMAIN ws = 1..Len(ws)
           /\ \A i \in 1..Len(ws) : ws[i] \in Rows
<1>1. at \in [Workers -> Positions] /\ ws \in Seq(Rows)
  BY DEF TypeOK, Positions, Rows
<1> QED
  BY <1>1, LenProperties, ElementOfSeq

\* A worker that enters stage s.
LEMMA EntersStage ==
    ASSUME at \in [Workers -> Positions], NEW w \in Workers, NEW s \in Stages,
           at' = [at EXCEPT ![w].stage = s]
    PROVE  Turns(w, s, at[w].error) /\ at'[w].state = at[w].state
<1> DEFINE y == [at[w] EXCEPT !.stage = s]
<1>1. /\ y \in Positions /\ y.stage = s /\ y.job = at[w].job /\ y.ws = at[w].ws
      /\ y.state = at[w].state /\ y.error = at[w].error /\ y.assigned = at[w].assigned
  BY DEF Positions
<1>2. at' = [at EXCEPT ![w] = y]
  OBVIOUS
<1> HIDE DEF y
<1> QED
  BY <1>1, <1>2, Moved DEF Turns

\* A worker that enters stage s with error e.
LEMMA EntersWith ==
    ASSUME at \in [Workers -> Positions], NEW w \in Workers, NEW s \in Stages, NEW e \in Errors,
           at' = [at EXCEPT ![w] = [@ EXCEPT !.stage = s, !.error = e]]
    PROVE  Turns(w, s, e) /\ at'[w].state = at[w].state
<1> DEFINE y == [at[w] EXCEPT !.stage = s, !.error = e]
<1>1. /\ y \in Positions /\ y.stage = s /\ y.job = at[w].job /\ y.ws = at[w].ws
      /\ y.state = at[w].state /\ y.error = e /\ y.assigned = at[w].assigned
  BY DEF Positions
<1>2. at' = [at EXCEPT ![w] = y]
  OBVIOUS
<1> HIDE DEF y
<1> QED
  BY <1>1, <1>2, Moved DEF Turns

\* A worker that leaves its attempt.
LEMMA Leaves ==
    ASSUME at \in [Workers -> Positions], NEW w \in Workers, Leave(w)
    PROVE  /\ at' \in [Workers -> Positions] /\ at'[w].stage = "idle" /\ ~at'[w].assigned
           /\ \A v \in Workers : v # w => at'[v] = at[v]
<1>1. Idle \in Positions /\ Idle.stage = "idle" /\ ~Idle.assigned
  BY DEF Idle, Positions, Stages, States, Errors
<1> QED
  BY <1>1, Moved DEF Leave

\* A step that leaves jobs and directories alone, enters a stage that is neither
\* idle nor part of the building, and makes no row ready keeps the invariant.
LEMMA AsideKeeps ==
    ASSUME IInv, TypeOK', NEW w \in Workers,
           UNCHANGED <<derived, job, incomplete, runtime, raided, cut>>,
           NEW s, NEW e, Turns(w, s, e), s \notin Chain \cup {"record", "complete"},
           at[w].stage \notin {"record", "complete"}, Sound(w)',
           Minds(w) => Minds(w)',
           \A i \in 1..Len(ws) : /\ ws'[i].job = ws[i].job /\ (ws[i].path => ws'[i].path)
                                 /\ ws[i].state = "failed" => ws'[i].state = "failed",
           \A i \in 1..Len(ws) : ws'[i].state = "activation_ready"
                                    => ws[i].state = "activation_ready",
           Len(ws') = Len(ws)
    PROVE  IInv'
<1>1. AtInv' /\ ReadyInv' /\ OwnerInv'
  BY AttemptKeeps DEF IInv, Turns
<1>2. ChainInv' /\ OwnInv'
  <2>1. /\ \A v \in Workers : v # w => at'[v] = at[v]
        /\ at'[w].stage \notin Chain /\ at[w].stage # "record"
        /\ cut \subseteq cut'
        /\ \A i \in 1..Len(ws) : i \in 1..Len(ws') /\ (ws[i].path => ws'[i].path)
    BY DEF Turns
  <2> QED
    BY <2>1, DirsKeep DEF IInv
<1>3. UniqueInv'
  BY UniqueKeeps DEF IInv
<1> QED
  BY <1>1, <1>2, <1>3 DEF IInv


\* Which rows a change of state touches, and how.
LEMMA RowMoves ==
    ASSUME TypeOK, NEW i \in 1..Len(ws), NEW s \in States, ws' = [ws EXCEPT ![i].state = s]
    PROVE  /\ ws' \in Seq(Rows) /\ Len(ws') = Len(ws)
           /\ \A k \in 1..Len(ws) : /\ ws'[k].job = ws[k].job /\ ws'[k].path = ws[k].path
                                    /\ ws'[k].state = IF k = i THEN s ELSE ws[k].state
<1> DEFINE r == [ws[i] EXCEPT !.state = s]
<1>1. ws \in Seq(Rows) /\ \A k \in 1..Len(ws) : ws[k] \in Rows
  BY Types
<1>2. r \in Rows /\ r.job = ws[i].job /\ r.state = s /\ r.path = ws[i].path
  BY <1>1, RowFields
<1>3. ws' = [ws EXCEPT ![i] = r]
  OBVIOUS
<1> HIDE DEF r
<1>4. /\ ws' \in Seq(Rows) /\ Len(ws') = Len(ws)
      /\ ws'[i] = r
      /\ \A k \in 1..Len(ws) : k # i => ws'[k] = ws[k]
  BY <1>1, <1>2, <1>3, RowSet
<1> QED
  BY <1>2, <1>4

\* A failed row allows no other state.
LEMMA FailedStays ==
    ASSUME NEW s \in States, Allowed("failed", s)
    PROVE  s = "failed"
  BY DEF Allowed, Transitions

\* An error raised before the last act of an attempt; only a download raises a
\* failed read.
LEMMA RaiseKeeps ==
    ASSUME IInv, NEW w \in Workers, NEW e \in Errors, Raise(w, e),
           at[w].stage \in Placed \ {"record", "complete"},
           e = "read" => at[w].stage = "download",
           UNCHANGED <<derived, job, ws, dirs, raided, cut, retries>>,
           faults' \in 0..MaxFaults
    PROVE  IInv'
<1>1. TypeOK /\ Sound(w)
  BY DEF IInv, AtInv
<1>2. Turns(w, "handle", e) /\ "handle" \in Stages
  BY <1>1, Types, EntersWith DEF Raise, Stages
<1>3. TypeOK'
  BY <1>1, <1>2 DEF TypeOK, Turns, Positions, dirs
<1>4. Sound(w)'
  BY <1>1, <1>2 DEF Sound, Turns, Placed, Late, Early, Building, dirs
<1>5. Minds(w) => Minds(w)'
  BY <1>1, <1>2 DEF Sound, Turns, Minds, Chain, Building
<1>6. "handle" \notin Chain \cup {"record", "complete"} /\ Len(ws') = Len(ws)
  BY DEF Chain, Building
<1> QED
  BY <1>2, <1>3, <1>4, <1>5, <1>6, AsideKeeps DEF dirs

\* The generation does not verify.
LEMMA VerifyFailsKeeps ==
    ASSUME IInv, NEW w \in Workers, VerifyFails(w)
    PROVE  IInv'
<1>1. TypeOK /\ Sound(w)
  BY DEF IInv, AtInv
<1>2. PICK e \in {"retryable", "final"} :
         at' = [at EXCEPT ![w] = [@ EXCEPT !.stage = "unwind", !.error = e]]
  BY DEF VerifyFails
<1>3. Turns(w, "unwind", e) /\ "unwind" \in Stages
  BY <1>1, <1>2, Types, EntersWith DEF Stages, Errors
<1>4. TypeOK'
  BY <1>1, <1>3, BoundsAssumption DEF TypeOK, Turns, Positions, dirs, VerifyFails
<1>5. Sound(w)'
  BY <1>1, <1>3 DEF Sound, Turns, Placed, Late, Early, Building, VerifyFails
<1>6. Minds(w) => Minds(w)'
  BY DEF Minds, Chain, Building, VerifyFails
<1>7. "unwind" \notin Chain \cup {"record", "complete"} /\ Len(ws') = Len(ws)
  BY DEF Chain, Building, VerifyFails
<1> QED
  BY <1>3, <1>4, <1>5, <1>6, <1>7, AsideKeeps DEF dirs, VerifyFails

\* The download ends, or a heartbeat is refused.
LEMMA DownloadKeeps ==
    ASSUME IInv, NEW w \in Workers, Download(w)
    PROVE  IInv'
<1>1. TypeOK /\ Sound(w)
  BY DEF IInv, AtInv
<1>2. CASE ~Owns(w)
  <2>1. faults' \in 0..MaxFaults /\ "retryable" \in Errors
    BY <1>1 DEF Download, TypeOK, bounds, Errors
  <2> QED
    BY <1>2, <2>1, RaiseKeeps DEF Download, Placed, dirs, bounds
<1>3. CASE Owns(w)
  <2>1. Turns(w, "mark", at[w].error) /\ "mark" \in Stages
    <3>1. at' = [at EXCEPT ![w].stage = "mark"] /\ "mark" \in Stages
      BY <1>3, Order DEF Download, Step, Stages
    <3> QED
      BY <1>1, <3>1, Types, EntersStage
  <2>2. TypeOK'
    BY <1>1, <2>1 DEF TypeOK, Turns, Positions, dirs, bounds, Download
  <2>3. Sound(w)'
    BY <1>1, <1>3, <2>1 DEF Sound, Owns, Turns, Placed, Late, Early, Building, Download
  <2>4. Minds(w) => Minds(w)'
    BY DEF Minds, Chain, Building, Download
  <2>5. "mark" \notin Chain \cup {"record", "complete"} /\ Len(ws') = Len(ws)
    BY DEF Chain, Building, Download
  <2> QED
    BY <2>1, <2>2, <2>3, <2>4, <2>5, AsideKeeps DEF dirs, Download
<1> QED
  BY <1>2, <1>3


\* A cancellation pauses the download.
LEMMA DownloadCancelledKeeps ==
    ASSUME IInv, NEW w \in Workers, DownloadCancelled(w)
    PROVE  IInv'
<1>1. TypeOK /\ Sound(w) /\ at[w].ws \in 1..Len(ws)
  BY DEF IInv, AtInv, Sound, DownloadCancelled, Placed
<1> DEFINE i == at[w].ws
<1>2. CASE ~Allowed(ws[i].state, "download_paused")
  <2>1. faults' \in 0..MaxFaults /\ "retryable" \in Errors
    BY <1>1 DEF DownloadCancelled, TypeOK, bounds, Errors
  <2> QED
    BY <1>2, <2>1, RaiseKeeps DEF DownloadCancelled, Placed, dirs, bounds
<1>3. CASE Allowed(ws[i].state, "download_paused")
  <2>1. Turns(w, "stopped", at[w].error) /\ "stopped" \in Stages
    <3>1. at' = [at EXCEPT ![w].stage = "stopped"] /\ "stopped" \in Stages
      BY <1>3 DEF DownloadCancelled, Stages
    <3> QED
      BY <1>1, <3>1, Types, EntersStage
  <2>2. /\ ws' \in Seq(Rows) /\ Len(ws') = Len(ws)
        /\ \A k \in 1..Len(ws) :
              /\ ws'[k].job = ws[k].job /\ ws'[k].path = ws[k].path
              /\ ws'[k].state = IF k = i THEN "download_paused" ELSE ws[k].state
    BY <1>1, <1>3, RowMoves DEF DownloadCancelled, States
  <2>3. TypeOK'
    BY <1>1, <2>1, <2>2 DEF TypeOK, Turns, Positions, Rows, dirs, bounds, DownloadCancelled
  <2>4. Sound(w)'
    BY <1>1, <2>1, <2>2 DEF Sound, Turns, Placed, Late, Early, Building, DownloadCancelled
  <2>5. Minds(w) => Minds(w)'
    BY DEF Minds, Chain, Building, DownloadCancelled
  <2>6. "stopped" \notin Chain \cup {"record", "complete"}
    BY DEF Chain, Building
  <2>7. ws[i].state # "failed"
    BY <1>3, FailedStays DEF States
  <2> HIDE DEF i
  <2>8. \A k \in 1..Len(ws) :
           /\ ws[k].state = "failed" => ws'[k].state = "failed"
           /\ ws'[k].state = "activation_ready" => ws[k].state = "activation_ready"
    BY <2>2, <2>7
  <2> QED
    BY <2>1, <2>2, <2>3, <2>4, <2>5, <2>6, <2>8, AsideKeeps DEF dirs, DownloadCancelled
<1> QED
  BY <1>2, <1>3

\* The row of a failed attempt.
LEMMA FailWorkspaceKeeps ==
    ASSUME IInv, NEW w \in Workers, FailWorkspace(w)
    PROVE  IInv'
<1>1. TypeOK /\ Sound(w) /\ at[w].ws \in 1..Len(ws)
  BY DEF IInv, AtInv, Sound, FailWorkspace, Placed
<1> DEFINE i == at[w].ws
<1>2. Turns(w, "unwind", at[w].error) /\ "unwind" \in Stages
  <2>1. at' = [at EXCEPT ![w].stage = "unwind"] /\ "unwind" \in Stages
    BY DEF FailWorkspace, Stages
  <2> QED
    BY <1>1, <2>1, Types, EntersStage
<1>3. /\ ws' \in Seq(Rows) /\ Len(ws') = Len(ws)
      /\ \A k \in 1..Len(ws) :
            /\ ws'[k].job = ws[k].job /\ ws'[k].path = ws[k].path
            /\ ws'[k].state = ws[k].state \/ ws'[k].state = "failed"
  <2>1. CASE ws' = ws
    BY <1>1, <2>1, Types
  <2>2. CASE ws' = [ws EXCEPT ![i].state = "failed"]
    <3>1. /\ ws' \in Seq(Rows) /\ Len(ws') = Len(ws)
          /\ \A k \in 1..Len(ws) :
                /\ ws'[k].job = ws[k].job /\ ws'[k].path = ws[k].path
                /\ ws'[k].state = IF k = i THEN "failed" ELSE ws[k].state
      BY <1>1, <2>2, RowMoves DEF States
    <3> QED
      BY <3>1
  <2> QED
    BY <2>1, <2>2 DEF FailWorkspace
<1>4. TypeOK'
  BY <1>1, <1>2, <1>3 DEF TypeOK, Turns, Positions, Rows, dirs, bounds, FailWorkspace
<1>5. Sound(w)'
  BY <1>1, <1>2, <1>3 DEF Sound, Turns, Placed, Late, Early, Building, FailWorkspace
<1>6. Minds(w) => Minds(w)'
  BY DEF Minds, Chain, Building, FailWorkspace
<1>7. "unwind" \notin Chain \cup {"record", "complete"}
  BY DEF Chain, Building
<1> QED
  BY <1>2, <1>3, <1>4, <1>5, <1>6, <1>7, AsideKeeps DEF dirs, FailWorkspace


\* An error of the store, the disk or the data.
LEMMA FailsKeeps ==
    ASSUME IInv, NEW w \in Workers, Fails(w)
    PROVE  IInv'
<1>1. PICK e \in Errors : Raise(w, e) /\ (e = "read" => at[w].stage = "download")
  BY DEF Fails, Errors
<1>2. faults' \in 0..MaxFaults
  BY BoundsAssumption DEF IInv, TypeOK, Fails
<1>3. at[w].stage \in Placed \ {"record", "complete"}
  BY DEF Fails, Placed, Late, Building
<1> QED
  BY <1>1, <1>2, <1>3, RaiseKeeps DEF Fails

\* A stage that asks for a state of its row: a start, the end of the download,
\* the stages of the building, and the end of the attempt.
LEMMA TransitKeeps ==
    ASSUME IInv, NEW w \in Workers, Transit(w)
    PROVE  IInv'
<1> DEFINE i == at[w].ws
           s == Asks[at[w].stage]
<1>1. /\ at[w].stage \in {"start", "mark", "enter", "scrub", "rehearse", "finish"}
      /\ s \in States
  BY DEF Transit, Asks, States
<1>2. TypeOK /\ Sound(w) /\ i \in 1..Len(ws) /\ ws[i].job = at[w].job
  BY <1>1 DEF IInv, AtInv, Sound, Placed, Late, Building
<1>3. CASE ~Allowed(ws[i].state, s)
  <2>1. faults' \in 0..MaxFaults /\ "retryable" \in Errors
    BY <1>2 DEF Transit, TypeOK, bounds, Errors
  <2>2. at[w].stage \in Placed \ {"record", "complete"}
    BY <1>1 DEF Placed, Late, Building
  <2> QED
    BY <1>3, <2>1, <2>2, RaiseKeeps DEF Transit, dirs, bounds
<1>4. CASE Allowed(ws[i].state, s)
  <2>1. /\ ws' = [ws EXCEPT ![i].state = s]
        /\ at' = [at EXCEPT ![w] = [@ EXCEPT !.stage = After(at[w].stage), !.state = s]]
        /\ UNCHANGED <<derived, job, dirs, raided, cut, bounds>>
    BY <1>4 DEF Transit
  <2>2. /\ ws' \in Seq(Rows) /\ Len(ws') = Len(ws)
        /\ \A k \in 1..Len(ws) :
              /\ ws'[k].job = ws[k].job /\ ws'[k].path = ws[k].path
              /\ ws'[k].state = IF k = i THEN s ELSE ws[k].state
    BY <1>1, <1>2, <2>1, RowMoves
  <2>3. /\ at[w].stage = "start" => After(at[w].stage) = "download"
        /\ at[w].stage = "mark" => After(at[w].stage) = "enter"
        /\ at[w].stage = "enter" => After(at[w].stage) = "check"
        /\ at[w].stage = "scrub" => After(at[w].stage) = "sanitize"
        /\ at[w].stage = "rehearse" => After(at[w].stage) = "migrate"
        /\ at[w].stage = "finish" => After(at[w].stage) = "complete"
    BY Order
  <2>4. Turns(w, After(at[w].stage), at[w].error) /\ After(at[w].stage) \in Stages
    <3> DEFINE y == [at[w] EXCEPT !.stage = After(at[w].stage), !.state = s]
    <3>1. at \in [Workers -> Positions] /\ After(at[w].stage) \in Stages
      BY <1>1, <1>2, <2>3, Types DEF Stages, Building
    <3> HIDE DEF s
    <3>2. /\ y \in Positions /\ y.stage = After(at[w].stage) /\ y.error = at[w].error
          /\ y.job = at[w].job /\ y.ws = at[w].ws /\ y.assigned = at[w].assigned
      BY <1>1, <3>1 DEF Positions
    <3>3. at' = [at EXCEPT ![w] = y]
      BY <2>1
    <3> HIDE DEF y
    <3> QED
      BY <3>1, <3>2, <3>3, Moved DEF Turns
  <2>5. TypeOK'
    BY <1>2, <2>1, <2>2, <2>4 DEF TypeOK, Turns, Positions, Rows, dirs, bounds
  <2>6. Sound(w)'
    <3> HIDE DEF s
    <3> QED
      BY <1>1, <1>2, <2>1, <2>2, <2>3, <2>4
      DEF Sound, Owns, Turns, Placed, Late, Early, Building, dirs
  <2>7. s = "activation_ready" => at[w].stage = "finish"
    BY <1>1 DEF Asks
  <2>8. at[w].stage = "finish" => runtime # None
    BY <1>2 DEF Sound
  <2>9. ws[i].state = "failed" => s = "failed"
    BY <1>1, <1>4, FailedStays
  <2>10. /\ \A v \in Workers : v # w => at'[v] = at[v]
         /\ at'[w].stage = After(at[w].stage) /\ at'[w].job = at[w].job
         /\ at'[w].assigned = at[w].assigned
    BY <2>4 DEF Turns
  <2> HIDE DEF s, i
  <2>11. \A k \in 1..Len(ws') : ws'[k].state = "activation_ready" =>
            \/ k \in 1..Len(ws) /\ ws[k].state = "activation_ready"
            \/ runtime' # None /\ at'[w].stage = "complete" /\ at'[w].job = ws'[k].job
    BY <1>2, <2>1, <2>2, <2>3, <2>7, <2>8, <2>10 DEF dirs
  <2>12. AtInv' /\ ReadyInv' /\ OwnerInv'
    <3>1. /\ \A k \in 1..Len(ws) : k \in 1..Len(ws') /\ ws'[k].job = ws[k].job
          /\ at[w].stage # "complete" /\ job' = job /\ cut' = cut /\ runtime' = runtime
      BY <1>1, <2>1, <2>2 DEF dirs
    <3> QED
      BY <3>1, <2>5, <2>6, <2>10, <2>11, AttemptKeeps DEF IInv
  <2>13. ChainInv' /\ OwnInv'
    <3>1. /\ \A k \in 1..Len(ws) : k \in 1..Len(ws') /\ (ws[k].path => ws'[k].path)
          /\ UNCHANGED <<derived, incomplete, runtime, raided>> /\ cut \subseteq cut'
          /\ at[w].stage # "record"
      BY <1>1, <2>1, <2>2 DEF dirs
    <3>2. at'[w].stage \in Chain => at[w].stage \in Chain
                                    /\ Done(at'[w].stage) \subseteq Done(at[w].stage)
      BY <1>1, <2>3, <2>10 DEF Chain, Building, Done
    <3>3. Minds(w) => Minds(w)'
      BY <1>1, <2>3, <2>10 DEF Minds, Chain, Building
    <3> QED
      BY <3>1, <3>2, <3>3, <2>10, DirsKeep DEF IInv
  <2>14. UniqueInv'
    BY <2>2, <2>9, UniqueKeeps DEF IInv
  <2> QED
    BY <2>5, <2>12, <2>13, <2>14 DEF IInv
<1> QED
  BY <1>3, <1>4


\* The path of the renamed runtime is recorded.
LEMMA RecordPathKeeps ==
    ASSUME IInv, NEW w \in Workers, RecordPath(w)
    PROVE  IInv'
<1> DEFINE i == at[w].ws
           r == [ws[i] EXCEPT !.path = TRUE]
<1>1. TypeOK /\ Sound(w) /\ i \in 1..Len(ws) /\ at[w].stage = "record"
  BY DEF IInv, AtInv, Sound, RecordPath, Placed, Late, Building
<1>2. Turns(w, "finish", at[w].error) /\ "finish" \in Stages
  <2>1. at' = [at EXCEPT ![w].stage = "finish"] /\ "finish" \in Stages
    BY <1>1, Order DEF RecordPath, Step, Stages, Building
  <2> QED
    BY <1>1, <2>1, Types, EntersStage
<1>3. /\ ws' \in Seq(Rows) /\ Len(ws') = Len(ws) /\ ws'[i].path
      /\ \A k \in 1..Len(ws) : /\ ws'[k].job = ws[k].job /\ ws'[k].state = ws[k].state
                               /\ ws[k].path => ws'[k].path
  <2>1. ws \in Seq(Rows) /\ \A k \in 1..Len(ws) : ws[k] \in Rows
    BY <1>1, Types
  <2>2. r \in Rows /\ r.job = ws[i].job /\ r.state = ws[i].state /\ r.path
    BY <1>1, <2>1, RowFields DEF States
  <2>3. ws' = [ws EXCEPT ![i] = r]
    BY DEF RecordPath
  <2> HIDE DEF r, i
  <2>4. /\ ws' \in Seq(Rows) /\ Len(ws') = Len(ws) /\ ws'[i] = r
        /\ \A k \in 1..Len(ws) : k # i => ws'[k] = ws[k]
    BY <1>1, <2>1, <2>2, <2>3, RowSet
  <2> QED
    BY <1>1, <2>2, <2>4
<1>4. UNCHANGED <<derived, job, incomplete, runtime, raided, cut, retries, faults>>
  BY DEF RecordPath, dirs, bounds
<1>5. TypeOK'
  BY <1>1, <1>2, <1>3, <1>4 DEF TypeOK, Turns, Positions, Rows
<1>6. Sound(w)'
  BY <1>1, <1>2, <1>3, <1>4 DEF Sound, Owns, Turns, Placed, Late, Early, Building
<1>7. \A v \in Workers : v # w => at'[v] = at[v]
  BY <1>2 DEF Turns
<1> HIDE DEF i
<1>8. AtInv' /\ ReadyInv' /\ OwnerInv'
  BY <1>1, <1>3, <1>4, <1>5, <1>6, <1>7, AttemptKeeps DEF IInv
<1>9. ChainInv' /\ OwnInv'
  <2>1. at'[w].stage = "finish" /\ ~(at'[w].stage \in Chain) /\ ~Minds(w)
    BY <1>1, <1>2 DEF Turns, Minds, Chain, Building
  <2>2. \E k \in 1..Len(ws') : ws'[k].path
    BY <1>1, <1>3
  <2>3. cut \subseteq cut' /\ \A k \in 1..Len(ws) : k \in 1..Len(ws') /\ (ws[k].path => ws'[k].path)
    BY <1>3, <1>4
  <2> QED
    BY <1>4, <1>7, <2>1, <2>2, <2>3, DirsKeep DEF IInv
<1>10. UniqueInv'
  BY <1>3, UniqueKeeps DEF IInv
<1> QED
  BY <1>5, <1>8, <1>9, <1>10 DEF IInv

\* A worker that dies leaves its stage behind.
LEMMA DieKeeps ==
    ASSUME IInv, NEW w \in Workers, Die(w)
    PROVE  IInv'
<1>1. TypeOK /\ Sound(w) /\ at[w].stage \in Stages
  BY Types DEF IInv, AtInv, Positions
<1>2. /\ at' \in [Workers -> Positions] /\ at'[w].stage = "idle" /\ ~at'[w].assigned
      /\ \A v \in Workers : v # w => at'[v] = at[v]
  BY <1>1, Types, Leaves DEF Die
<1>3. /\ UNCHANGED <<derived, job, ws, incomplete, runtime, raided, retries>>
      /\ cut' = cut \cup {at[w].stage} /\ faults' \in 0..MaxFaults
  BY <1>1, BoundsAssumption DEF Die, TypeOK, dirs
<1>4. TypeOK'
  BY <1>1, <1>2, <1>3 DEF TypeOK, Positions
<1>5. AtInv'
  <2> SUFFICES ASSUME NEW v \in Workers PROVE Sound(v)'
    BY DEF AtInv
  <2>1. CASE v = w
    BY <1>2, <2>1 DEF Sound, Placed, Late, Early, Building
  <2>2. CASE v # w
    <3>1. Sound(v) /\ at'[v] = at[v]
      BY <1>2, <2>2 DEF IInv, AtInv
    <3> QED
      BY <1>3, <3>1 DEF Sound, Owns
  <2> QED
    BY <2>1, <2>2
<1>6. ChainInv' /\ OwnInv'
  <2>1. cut \subseteq cut' /\ (at[w].stage = "record" => "record" \in cut')
        /\ (Minds(w) => cut' \cap (Building \cup {"handle"}) # {})
        /\ ~(at'[w].stage \in Chain)
    BY <1>2, <1>3 DEF Minds, Chain, Building
  <2> QED
    BY <1>2, <1>3, <2>1, DirsKeep DEF IInv
<1>7. ReadyInv'
  <2> SUFFICES ASSUME NEW i \in 1..Len(ws), ws[i].state = "activation_ready"
               PROVE  Vouched(i)'
    BY <1>3 DEF ReadyInv
  <2>1. Vouched(i)
    BY DEF IInv, ReadyInv
  <2>2. ASSUME NEW v \in Workers, at[v].stage = "complete" /\ at[v].job = ws[i].job
        PROVE  \/ at'[v].stage = "complete" /\ at'[v].job = ws'[i].job
               \/ cut' \cap Late # {}
    BY <1>2, <1>3, <2>2 DEF Late
  <2> QED
    BY <1>3, <2>1, <2>2 DEF Vouched
<1>8. UniqueInv' /\ OwnerInv'
  BY <1>3 DEF IInv, UniqueInv, OwnerInv
<1> QED
  BY <1>4, <1>5, <1>6, <1>7, <1>8 DEF IInv


\* An attempt ends: its own job is decided, any other job and a job it lost stay.
LEMMA SettleKeeps ==
    ASSUME IInv, NEW w \in Workers, Settle(w)
    PROVE  IInv'
<1> DEFINE j == at[w].job
<1>1. /\ TypeOK /\ Sound(w) /\ j \in Jobs
      /\ at[w].stage \in {"complete", "stopped", "unwind"}
  BY DEF IInv, AtInv, Sound, Settle
<1>2. /\ at' \in [Workers -> Positions] /\ at'[w].stage = "idle" /\ ~at'[w].assigned
      /\ \A v \in Workers : v # w => at'[v] = at[v]
  BY <1>1, Types, Leaves DEF Settle
<1>3. UNCHANGED <<derived, ws, incomplete, runtime, raided, cut, retries, faults>>
  BY DEF Settle, dirs, bounds
<1>4. PICK status \in {"cancelled", "succeeded", "terminal_failed", "retryable_failed"} :
         /\ job' = IF Owns(w) THEN [job EXCEPT ![j] = [status |-> status, owner |-> None]] ELSE job
         /\ at[w].stage = "complete" => status \in {"cancelled", "succeeded"}
  BY DEF Settle
<1>5. /\ job \in [Jobs -> [status: Statuses, owner: Workers \cup {None}]]
      /\ job' \in [Jobs -> [status: Statuses, owner: Workers \cup {None}]]
      /\ \A k \in Jobs : k # j => job'[k] = job[k]
      /\ Owns(w) => job'[j].status = status /\ job[j].status \in {"running", "cancelling"}
                    /\ job[j].owner = w
      /\ ~Owns(w) => job' = job
  BY <1>1, <1>4 DEF TypeOK, Statuses, Owns
<1>6. TypeOK'
  BY <1>1, <1>2, <1>3, <1>5 DEF TypeOK, Positions
<1>7. AtInv'
  <2> SUFFICES ASSUME NEW v \in Workers PROVE Sound(v)'
    BY DEF AtInv
  <2>1. CASE v = w
    BY <1>2, <2>1 DEF Sound, Placed, Late, Early, Building
  <2>2. CASE v # w
    <3>1. Sound(v) /\ at'[v] = at[v]
      BY <1>2, <2>2 DEF IInv, AtInv
    <3>2. at[v].stage \in Late /\ Owns(v) => Owns(v)'
      <4> SUFFICES ASSUME at[v].stage \in Late, Owns(v) PROVE Owns(v)'
        OBVIOUS
      <4>1. at[v].job \in Jobs /\ job[at[v].job].owner = v
        BY <3>1 DEF Sound, Owns, Late, Building
      <4>2. job'[at[v].job] = job[at[v].job]
        BY <1>5, <2>2, <4>1
      <4> QED
        BY <3>1, <4>2 DEF Owns
    <3> QED
      BY <1>3, <3>1, <3>2 DEF Sound
  <2> QED
    BY <2>1, <2>2
<1>8. ChainInv' /\ OwnInv'
  <2>1. at[w].stage # "record" /\ ~Minds(w) /\ ~(at'[w].stage \in Chain)
        /\ cut \subseteq cut'
    BY <1>1, <1>2, <1>3 DEF Minds, Chain, Building
  <2> QED
    BY <1>2, <1>3, <2>1, DirsKeep DEF IInv
<1>9. ReadyInv'
  <2> SUFFICES ASSUME NEW i \in 1..Len(ws), ws[i].state = "activation_ready"
               PROVE  Vouched(i)'
    BY <1>3 DEF ReadyInv
  <2>1. Vouched(i) /\ ws[i].job \in Jobs
    BY <1>1, Types DEF IInv, ReadyInv, Rows
  <2>2. ASSUME job[ws[i].job].status \in {"succeeded", "cancelled"}
        PROVE  job'[ws[i].job].status \in {"succeeded", "cancelled"}
    BY <1>5, <2>1, <2>2
  <2>3. ASSUME NEW v \in Workers, at[v].stage = "complete", at[v].job = ws[i].job
        PROVE  \/ at'[v].stage = "complete" /\ at'[v].job = ws[i].job
               \/ cut \cap Late # {}
               \/ job'[ws[i].job].status \in {"succeeded", "cancelled"}
    <3>1. CASE v # w
      BY <1>2, <2>3, <3>1
    <3>2. CASE v = w
      <4>1. Owns(w) \/ cut \cap Late # {}
        BY <1>1, <2>3, <3>2 DEF Sound, Late
      <4> QED
        BY <1>4, <1>5, <2>3, <3>2, <4>1
    <3> QED
      BY <3>1, <3>2
  <2> QED
    BY <1>3, <2>1, <2>2, <2>3 DEF Vouched
<1>10. UniqueInv' /\ OwnerInv'
  <2>1. UniqueInv'
    BY <1>3 DEF IInv, UniqueInv
  <2>2. Owns(w) => status \notin {"running", "cancelling"}
    OBVIOUS
  <2>3. OwnerInv'
    <3>1. OwnerInv
      BY DEF IInv
    <3> HIDE DEF j
    <3> QED
      BY <1>1, <1>5, <2>2, <3>1 DEF OwnerInv
  <2> QED
    BY <2>1, <2>3
<1> QED
  BY <1>6, <1>7, <1>8, <1>9, <1>10 DEF IInv

\* A claim takes a queued job, which nobody owns past the last heartbeat.
LEMMA ClaimKeeps ==
    ASSUME IInv, NEW w \in Workers, NEW j \in Jobs, Claim(w, j)
    PROVE  IInv'
<1>1. TypeOK /\ at[w].stage = "idle" /\ job[j].status = "queued"
  BY DEF IInv, Claim
<1>2. /\ at' \in [Workers -> Positions] /\ at'[w].stage = "verify" /\ ~at'[w].assigned
      /\ at'[w].job = j /\ \A v \in Workers : v # w => at'[v] = at[v]
  <2> DEFINE y == [Idle EXCEPT !.stage = "verify", !.job = j]
  <2>1. y \in Positions /\ y.stage = "verify" /\ y.job = j /\ ~y.assigned
    BY DEF Idle, Positions, Stages, States, Errors
  <2>2. at' = [at EXCEPT ![w] = y]
    BY DEF Claim
  <2> HIDE DEF y
  <2> QED
    BY <1>1, <2>1, <2>2, Types, Moved
<1>3. UNCHANGED <<derived, ws, incomplete, runtime, raided, cut, retries, faults>>
  BY DEF Claim, dirs, bounds
<1>4. /\ job \in [Jobs -> [status: Statuses, owner: Workers \cup {None}]]
      /\ job' \in [Jobs -> [status: Statuses, owner: Workers \cup {None}]]
      /\ job'[j].owner = w /\ \A k \in Jobs : k # j => job'[k] = job[k]
  BY <1>1 DEF TypeOK, Claim, Statuses
<1>5. TypeOK'
  BY <1>1, <1>2, <1>3, <1>4 DEF TypeOK, Positions
<1>6. AtInv'
  <2> SUFFICES ASSUME NEW v \in Workers PROVE Sound(v)'
    BY DEF AtInv
  <2>1. CASE v = w
    BY <1>2, <2>1 DEF Sound, Placed, Late, Early, Building
  <2>2. CASE v # w
    <3>1. Sound(v) /\ at'[v] = at[v]
      BY <1>2, <2>2 DEF IInv, AtInv
    <3>2. at[v].stage \in Late /\ Owns(v) => Owns(v)'
      BY <1>1, <1>4, <3>1 DEF Sound, Owns, Late, Building
    <3> QED
      BY <1>3, <3>1, <3>2 DEF Sound
  <2> QED
    BY <2>1, <2>2
<1>7. ChainInv' /\ OwnInv'
  <2>1. at[w].stage # "record" /\ ~Minds(w) /\ ~(at'[w].stage \in Chain)
        /\ cut \subseteq cut'
    BY <1>1, <1>2, <1>3 DEF Minds, Chain, Building
  <2> QED
    BY <1>2, <1>3, <2>1, DirsKeep DEF IInv
<1>8. ReadyInv'
  <2> SUFFICES ASSUME NEW i \in 1..Len(ws), ws[i].state = "activation_ready"
               PROVE  Vouched(i)'
    BY <1>3 DEF ReadyInv
  <2>1. Vouched(i) /\ ws[i].job \in Jobs
    BY <1>1, Types DEF IInv, ReadyInv, Rows
  <2>2. ASSUME job[ws[i].job].status \in {"succeeded", "cancelled"}
        PROVE  job'[ws[i].job].status \in {"succeeded", "cancelled"}
    BY <1>1, <1>4, <2>1, <2>2
  <2>3. ASSUME NEW v \in Workers, at[v].stage = "complete", at[v].job = ws[i].job
        PROVE  at'[v].stage = "complete" /\ at'[v].job = ws[i].job
    BY <1>1, <1>2, <2>3
  <2> QED
    BY <1>3, <2>1, <2>2, <2>3 DEF Vouched
<1>9. UniqueInv' /\ OwnerInv'
  BY <1>3, <1>4 DEF IInv, UniqueInv, OwnerInv
<1> QED
  BY <1>5, <1>6, <1>7, <1>8, <1>9 DEF IInv

\* Cancellation, loss and requeue change a job and leave the rest; a worker that
\* loses its job leaves its stage behind.
LEMMA JobStepKeeps ==
    ASSUME IInv, NEW j \in Jobs, RequestCancellation(j) \/ LoseJob(j) \/ Requeue(j)
    PROVE  IInv'
<1>1. TypeOK /\ UNCHANGED <<derived, ws, incomplete, runtime, at, raided>>
  BY DEF IInv, RequestCancellation, LoseJob, Requeue, dirs
<1>2. /\ job \in [Jobs -> [status: Statuses, owner: Workers \cup {None}]]
      /\ job' \in [Jobs -> [status: Statuses, owner: Workers \cup {None}]]
      /\ \A k \in Jobs : k # j => job'[k] = job[k]
      /\ job[j].status \notin {"succeeded", "cancelled"}
  <2> DEFINE Ticket == [status: Statuses, owner: Workers \cup {None}]
  <2>1. job \in [Jobs -> Ticket] /\ job[j] \in Ticket
    BY <1>1 DEF TypeOK
  <2>2. PICK t \in Ticket : job' = [job EXCEPT ![j] = t]
    <3>1. [job[j] EXCEPT !.status = "cancelling"] \in Ticket
      BY <2>1 DEF Statuses
    <3>2. [job[j] EXCEPT !.status = "queued"] \in Ticket
      BY <2>1 DEF Statuses
    <3>3. [status |-> "retryable_failed", owner |-> None] \in Ticket
      BY DEF Statuses
    <3>4. \/ job' = [job EXCEPT ![j] = [job[j] EXCEPT !.status = "cancelling"]]
          \/ job' = [job EXCEPT ![j] = [job[j] EXCEPT !.status = "queued"]]
          \/ job' = [job EXCEPT ![j] = [status |-> "retryable_failed", owner |-> None]]
      BY DEF RequestCancellation, LoseJob, Requeue
    <3> HIDE DEF Ticket
    <3> QED
      BY <3>1, <3>2, <3>3, <3>4
  <2>3. job[j].status \notin {"succeeded", "cancelled"}
    BY DEF RequestCancellation, LoseJob, Requeue
  <2> HIDE DEF Ticket
  <2>4. job' \in [Jobs -> Ticket] /\ \A k \in Jobs : k # j => job'[k] = job[k]
    BY <2>1, <2>2
  <2> QED
    BY <2>1, <2>3, <2>4 DEF Ticket
<1>3. \/ /\ cut' = cut /\ job'[j].status = "cancelling" /\ job[j].status = "running"
         /\ job'[j].owner = job[j].owner
      \/ /\ job[j].status = "running" /\ job'[j].status = "retryable_failed"
         /\ cut \subseteq cut'
         /\ at[job[j].owner].job = j => at[job[j].owner].stage \in cut'
      \/ cut' = cut /\ job[j].status = "retryable_failed" /\ job'[j].status = "queued"
  BY <1>1, <1>2 DEF RequestCancellation, LoseJob, Requeue
<1>4. cut \subseteq cut' /\ cut' \subseteq Stages
  <2>1. job[j].status = "running" => at[job[j].owner].stage \in Stages
    BY <1>1, Types DEF IInv, OwnerInv, Positions
  <2> QED
    BY <1>1, <2>1 DEF TypeOK, RequestCancellation, LoseJob, Requeue
<1>5. retries' \in 0..MaxRetries /\ faults' \in 0..MaxFaults
  BY <1>1, BoundsAssumption DEF TypeOK, RequestCancellation, LoseJob, Requeue
<1>6. TypeOK'
  BY <1>1, <1>2, <1>4, <1>5 DEF TypeOK
<1>7. AtInv'
  <2> SUFFICES ASSUME NEW v \in Workers PROVE Sound(v)'
    BY DEF AtInv
  <2>1. Sound(v)
    BY DEF IInv, AtInv
  <2>2. at[v].stage \in Late /\ Owns(v) => Owns(v)' \/ cut' \cap Late # {}
    <3> SUFFICES ASSUME at[v].stage \in Late, Owns(v) PROVE Owns(v)' \/ cut' \cap Late # {}
      OBVIOUS
    <3>1. /\ at[v].job \in Jobs /\ job[at[v].job].owner = v
          /\ job[at[v].job].status \in {"running", "cancelling"}
      BY <2>1 DEF Sound, Owns, Late, Building
    <3>2. CASE at[v].job # j
      BY <1>1, <1>2, <3>1, <3>2 DEF Owns
    <3>3. CASE at[v].job = j
      BY <1>1, <1>2, <1>3, <3>1, <3>3 DEF Owns
    <3> QED
      BY <3>2, <3>3
  <2> QED
    BY <1>1, <1>4, <2>1, <2>2 DEF Sound
<1>8. ChainInv' /\ OwnInv'
  <2>1. ASSUME NEW s PROVE Done(s)' = Done(s)
    BY <1>1 DEF Done
  <2>2. Complete(runtime)' = Complete(runtime)
    BY <1>1 DEF Complete
  <2>3. ChainInv'
    BY <1>1, <2>1, <2>2 DEF IInv, ChainInv
  <2>4. \A v \in Workers : Minds(v)' = Minds(v)
    BY <1>1 DEF Minds
  <2>5. OwnInv'
    BY <1>1, <1>4, <2>4 DEF IInv, OwnInv
  <2> QED
    BY <2>3, <2>5
<1>9. ReadyInv'
  <2> SUFFICES ASSUME NEW i \in 1..Len(ws), ws[i].state = "activation_ready"
               PROVE  Vouched(i)'
    BY <1>1 DEF ReadyInv
  <2>1. Vouched(i) /\ ws[i].job \in Jobs
    BY <1>1, Types DEF IInv, ReadyInv, Rows
  <2>2. ASSUME job[ws[i].job].status \in {"succeeded", "cancelled"}
        PROVE  job'[ws[i].job].status \in {"succeeded", "cancelled"}
    BY <1>2, <2>1, <2>2
  <2> QED
    BY <1>1, <1>4, <2>1, <2>2 DEF Vouched
<1>10. UniqueInv' /\ OwnerInv'
  BY <1>1, <1>2, <1>3 DEF IInv, UniqueInv, OwnerInv
<1> QED
  BY <1>6, <1>7, <1>8, <1>9, <1>10 DEF IInv


\* An attempt takes the row of its job that did not fail, or adds one when there
\* is none.
LEMMA TakeWorkspaceKeeps ==
    ASSUME IInv, NEW w \in Workers, TakeWorkspace(w)
    PROVE  IInv'
<1> DEFINE j == at[w].job
<1>1. TypeOK /\ Sound(w) /\ j \in Jobs /\ at[w].stage = "verify"
  BY DEF IInv, AtInv, Sound, TakeWorkspace
<1>2. /\ at \in [Workers -> Positions] /\ ws \in Seq(Rows) /\ Len(ws) \in Nat
      /\ DOMAIN ws = 1..Len(ws) /\ \A k \in 1..Len(ws) : ws[k] \in Rows
  BY <1>1, Types
<1>3. UNCHANGED <<derived, job, incomplete, runtime, raided, cut, retries, faults>>
  BY DEF TakeWorkspace, dirs, bounds
<1>4. PICK i, s, stage :
         /\ i \in 1..Len(ws') /\ s \in States /\ stage \in {"start", "download"}
         /\ at' = [at EXCEPT ![w] = [@ EXCEPT !.ws = i, !.state = s, !.stage = stage]]
         /\ ws'[i].job = j
         /\ \/ ws' = ws
            \/ /\ Usable(j) = {}
               /\ ws' = Append(ws, [job |-> j, state |-> "planned", path |-> FALSE])
  <2>1. CASE Usable(j) = {}
    <3>1. /\ ws' = Append(ws, [job |-> j, state |-> "planned", path |-> FALSE])
          /\ at' = [at EXCEPT ![w] = [@ EXCEPT !.ws = Len(ws) + 1, !.state = "planned",
                                               !.stage = "start"]]
      BY <2>1 DEF TakeWorkspace
    <3>2. [job |-> j, state |-> "planned", path |-> FALSE] \in Rows
      BY <1>1 DEF Rows, States
    <3>3. Len(ws') = Len(ws) + 1 /\ ws'[Len(ws) + 1].job = j
      BY <1>2, <3>1, <3>2, AppendProperties
    <3>4. Len(ws) + 1 \in 1..Len(ws') /\ "planned" \in States
      BY <1>2, <3>3 DEF States
    <3> QED
      BY <2>1, <3>1, <3>3, <3>4
  <2>2. CASE Usable(j) # {}
    <3> DEFINE i == CHOOSE k \in Usable(j) : \A l \in Usable(j) : l <= k
               s == ws[i].state
               stage == IF s \in {"planned", "download_paused"} THEN "start" ELSE "download"
    <3>1. PICK k \in Usable(j) : TRUE
      BY <2>2
    <3>2. \A l \in Usable(j) : l \in 1..Len(ws) /\ l = k
      BY <1>2, <3>1 DEF IInv, UniqueInv, Usable
    <3>3. \E n \in Usable(j) : \A l \in Usable(j) : l <= n
      BY <1>2, <3>1, <3>2
    <3>4. i \in Usable(j)
      BY <3>3
    <3>5. /\ ws' = ws
          /\ at' = [at EXCEPT ![w] = [@ EXCEPT !.ws = i, !.state = s, !.stage = stage]]
      BY <2>2 DEF TakeWorkspace
    <3> HIDE DEF i
    <3>6. i \in 1..Len(ws) /\ ws[i].job = j /\ s \in States
      BY <1>2, <3>4 DEF Usable, Rows
    <3>7. stage \in {"start", "download"}
      OBVIOUS
    <3> HIDE DEF s, stage
    <3> QED
      BY <3>5, <3>6, <3>7
  <2> QED
    BY <2>1, <2>2
<1>5. /\ ws' \in Seq(Rows) /\ Len(ws') \in Nat /\ Len(ws) <= Len(ws')
      /\ \A k \in 1..Len(ws) : ws'[k] = ws[k]
      /\ \A k \in 1..Len(ws') : k \notin 1..Len(ws) =>
            /\ k = Len(ws) + 1 /\ ws'[k].job = j /\ ws'[k].state = "planned"
            /\ Usable(j) = {}
  <2>1. CASE ws' = ws
    BY <1>2, <2>1
  <2>2. CASE /\ Usable(j) = {}
             /\ ws' = Append(ws, [job |-> j, state |-> "planned", path |-> FALSE])
    <3> DEFINE r == [job |-> j, state |-> "planned", path |-> FALSE]
    <3>1. r \in Rows /\ r.job = j /\ r.state = "planned"
      BY <1>1 DEF Rows, States
    <3>2. ws' = Append(ws, r)
      BY <2>2
    <3> HIDE DEF r
    <3>3. /\ ws' \in Seq(Rows) /\ Len(ws') = Len(ws) + 1 /\ ws'[Len(ws) + 1] = r
          /\ \A k \in 1..Len(ws) : ws'[k] = ws[k]
      BY <1>2, <3>1, <3>2, AppendProperties
    <3> QED
      BY <1>2, <2>2, <3>1, <3>3
  <2> QED
    BY <1>4, <2>1, <2>2
<1>6. /\ at' \in [Workers -> Positions] /\ at'[w].stage = stage /\ at'[w].job = j
      /\ at'[w].ws = i /\ at'[w].assigned = at[w].assigned
      /\ \A v \in Workers : v # w => at'[v] = at[v]
  <2> DEFINE y == [at[w] EXCEPT !.ws = i, !.state = s, !.stage = stage]
  <2>1. i \in Nat /\ stage \in Stages
    BY <1>4, <1>5 DEF Stages
  <2>2. /\ y \in Positions /\ y.stage = stage /\ y.job = j /\ y.ws = i
        /\ y.assigned = at[w].assigned
    BY <1>2, <1>4, <2>1 DEF Positions
  <2>3. at' = [at EXCEPT ![w] = y]
    BY <1>4
  <2> HIDE DEF y
  <2> QED
    BY <1>2, <2>2, <2>3, Moved
<1>7. TypeOK'
  BY <1>1, <1>3, <1>5, <1>6 DEF TypeOK, Positions, Rows
<1>8. Sound(w)'
  BY <1>1, <1>4, <1>6 DEF Sound, Placed, Late, Early, Building
<1> HIDE DEF j
<1>9. AtInv' /\ ReadyInv' /\ OwnerInv'
  <2>1. \A k \in 1..Len(ws) : k \in 1..Len(ws') /\ ws'[k].job = ws[k].job
    BY <1>2, <1>5
  <2>2. \A k \in 1..Len(ws') : ws'[k].state = "activation_ready" =>
           k \in 1..Len(ws) /\ ws[k].state = "activation_ready"
    BY <1>5
  <2> QED
    BY <1>1, <1>3, <1>6, <1>7, <1>8, <2>1, <2>2, AttemptKeeps DEF IInv
<1>10. ChainInv' /\ OwnInv'
  <2>1. \A k \in 1..Len(ws) : k \in 1..Len(ws') /\ (ws[k].path => ws'[k].path)
    BY <1>2, <1>5
  <2>2. at[w].stage # "record" /\ ~Minds(w) /\ ~(at'[w].stage \in Chain) /\ cut \subseteq cut'
    BY <1>1, <1>3, <1>4, <1>6 DEF Minds, Chain, Building
  <2> QED
    BY <1>3, <1>6, <2>1, <2>2, DirsKeep DEF IInv
<1>11. UniqueInv'
  <2> SUFFICES ASSUME NEW m \in 1..Len(ws'), NEW n \in 1..Len(ws'), ws'[m].job = ws'[n].job,
                      ws'[m].state # "failed", ws'[n].state # "failed"
               PROVE  m = n
    BY DEF UniqueInv
  <2>1. CASE m \in 1..Len(ws) /\ n \in 1..Len(ws)
    BY <1>5, <2>1 DEF IInv, UniqueInv
  <2>2. ASSUME NEW k \in 1..Len(ws), ws'[k].job = j, ws'[k].state # "failed"
        PROVE  Usable(j) # {}
    BY <1>2, <1>5, <2>2 DEF Usable
  <2>3. CASE m \notin 1..Len(ws)
    BY <1>5, <2>2, <2>3
  <2>4. CASE n \notin 1..Len(ws)
    BY <1>5, <2>2, <2>4
  <2> QED
    BY <2>1, <2>3, <2>4
<1> QED
  BY <1>7, <1>9, <1>10, <1>11 DEF IInv


-----------------------------------------------------------------------------
(* The directories                                                         *)

\* A step that leaves rows, jobs and traces alone keeps what is about them.
LEMMA BuildKeeps ==
    ASSUME IInv, TypeOK', NEW w \in Workers,
           ws' = ws, job' = job, cut' = cut, runtime # None => runtime' # None,
           at[w].stage # "complete", Sound(w)',
           \A v \in Workers : v # w => at'[v] = at[v]
    PROVE  AtInv' /\ ReadyInv' /\ OwnerInv' /\ UniqueInv'
<1>1. AtInv' /\ ReadyInv' /\ OwnerInv'
  BY AttemptKeeps DEF IInv
<1>2. UniqueInv'
  BY DEF IInv, UniqueInv
<1> QED
  BY <1>1, <1>2

\* An attempt at the building is alone with its directory, if none was raided.
LEMMA Alone ==
    ASSUME IInv, ~raided, NEW w \in Workers, at[w].stage \in Chain
    PROVE  /\ incomplete # None /\ Done(at[w].stage) \subseteq incomplete /\ runtime = None
           /\ \A v \in Workers : at[v].stage \in Chain => v = w
  BY DEF IInv, ChainInv

\* A step of the building adds to the directory what the next stage relies on.
LEMMA ChainGoesOn ==
    ASSUME IInv, NEW w \in Workers, at[w].stage \in Chain, at'[w].stage \in Chain,
           UNCHANGED <<derived, ws, runtime, cut, raided>>,
           incomplete' # None,
           incomplete # None => incomplete \subseteq incomplete',
           incomplete # None /\ Done(at[w].stage) \subseteq incomplete
              => Done(at'[w].stage) \subseteq incomplete',
           \A v \in Workers : v # w => at'[v] = at[v]
    PROVE  ChainInv' /\ OwnInv'
<1>1. ASSUME NEW s PROVE Done(s)' = Done(s)
  BY DEF Done
<1>2. ChainInv'
  <2> SUFFICES ASSUME ~raided
               PROVE  /\ \A v \in Workers : at'[v].stage \in Chain =>
                            /\ incomplete' # None /\ Done(at'[v].stage) \subseteq incomplete'
                            /\ runtime' = None
                            /\ \A u \in Workers : at'[u].stage \in Chain => u = v
                      /\ runtime' # None => Complete(runtime)' /\ incomplete' = None
    BY <1>1 DEF ChainInv
  <2>1. /\ incomplete # None /\ Done(at[w].stage) \subseteq incomplete /\ runtime = None
        /\ \A v \in Workers : at[v].stage \in Chain => v = w
    BY Alone
  <2>2. \A v \in Workers : at'[v].stage \in Chain => v = w
    BY <2>1
  <2> QED
    BY <2>1, <2>2
<1>3. OwnInv'
  <2>1. Minds(w)'
    BY DEF Minds
  <2>2. at[w].stage # "record"
    BY DEF Chain, Building
  <2> QED
    BY <2>1, <2>2 DEF IInv, OwnInv
<1> QED
  BY <1>2, <1>3

\* The directories are checked: they are there, or the building begins.
LEMMA CheckRuntimeKeeps ==
    ASSUME IInv, NEW w \in Workers, CheckRuntime(w)
    PROVE  IInv'
<1> DEFINE taken == runtime # None \/ incomplete # None
<1>1. TypeOK /\ Sound(w) /\ at[w].stage = "check"
  BY DEF IInv, AtInv, CheckRuntime
<1>2. /\ UNCHANGED <<derived, job, ws, runtime, raided, cut, retries, faults>>
      /\ incomplete' = IF taken THEN incomplete ELSE {}
  BY DEF CheckRuntime, dirs, bounds
<1>3. /\ at' \in [Workers -> Positions] /\ at'[w].assigned
      /\ at'[w].stage = IF taken THEN "handle" ELSE "copy"
      /\ at'[w].error = IF taken THEN "final" ELSE "none"
      /\ at'[w].job = at[w].job /\ at'[w].ws = at[w].ws
      /\ \A v \in Workers : v # w => at'[v] = at[v]
  <2> DEFINE stage == IF taken THEN "handle" ELSE "copy"
             error == IF taken THEN "final" ELSE "none"
             y == [at[w] EXCEPT !.assigned = TRUE, !.stage = stage, !.error = error]
  <2>1. stage \in Stages /\ error \in Errors /\ at \in [Workers -> Positions]
    BY <1>1, Types DEF Stages, Building, Errors
  <2>2. at' = [at EXCEPT ![w] = y]
    BY DEF CheckRuntime
  <2> HIDE DEF stage, error
  <2>3. /\ y \in Positions /\ y.stage = stage /\ y.error = error /\ y.assigned
        /\ y.job = at[w].job /\ y.ws = at[w].ws
    BY <2>1 DEF Positions
  <2> HIDE DEF y
  <2>4. /\ at' \in [Workers -> Positions] /\ at'[w] = y
        /\ \A v \in Workers : v # w => at'[v] = at[v]
    BY <2>1, <2>2, <2>3, Moved
  <2> QED
    BY <2>3, <2>4 DEF stage, error
<1>4. TypeOK'
  BY <1>1, <1>2, <1>3 DEF TypeOK, Positions
<1>5. Sound(w)'
  BY <1>1, <1>2, <1>3 DEF Sound, Owns, Placed, Late, Early, Building
<1>6. AtInv' /\ ReadyInv' /\ OwnerInv' /\ UniqueInv'
  BY <1>1, <1>2, <1>3, <1>4, <1>5, BuildKeeps
<1>7. ChainInv' /\ OwnInv'
  <2>1. CASE taken
    <3>1. ~(at'[w].stage \in Chain) /\ ~Minds(w) /\ at[w].stage # "record"
      BY <1>1, <1>3, <2>1 DEF Minds, Chain, Building
    <3> QED
      BY <1>1, <1>2, <1>3, <2>1, <3>1, DirsKeep DEF IInv
  <2>2. CASE ~taken
    <3>1. incomplete' = {} /\ {} # None /\ runtime' = None /\ at'[w].stage = "copy"
      BY <1>2, <1>3, <2>2, NoneAssumption
    <3>2. "copy" \in Chain /\ Done("copy") = {} /\ \A s : Done(s)' = Done(s)
      BY <1>2 DEF Chain, Building, Done
    <3>3. ASSUME ~raided, NEW v \in Workers, at'[v].stage \in Chain PROVE v = w
      BY <1>3, <2>2, <3>3, Alone
    <3>4. ChainInv'
      <4> SUFFICES ASSUME ~raided
                   PROVE  \A v \in Workers : at'[v].stage \in Chain =>
                             /\ Done(at'[v].stage) \subseteq {}
                             /\ \A u \in Workers : at'[u].stage \in Chain => u = v
        BY <1>2, <3>1, <3>2 DEF ChainInv
      <4> QED
        BY <3>1, <3>2, <3>3
    <3>5. OwnInv'
      BY <3>1, <3>2 DEF OwnInv, Minds
    <3> QED
      BY <3>4, <3>5
  <2> QED
    BY <2>1, <2>2
<1> QED
  BY <1>4, <1>6, <1>7 DEF IInv


\* A copy, a sanitized or a rehearsed database is added to the directory.
LEMMA WorkKeeps ==
    ASSUME IInv, NEW w \in Workers,
           \/ Work(w, "copy", "copied", {})
           \/ Work(w, "sanitize", "sanitized", {"copied"})
           \/ Work(w, "migrate", "rehearsed", {"copied"})
    PROVE  IInv'
<1>1. TypeOK /\ Sound(w) /\ at[w].stage \in {"copy", "sanitize", "migrate"}
  BY DEF IInv, AtInv, Work
<1>2. UNCHANGED <<derived, job, ws, runtime, raided, cut, retries, faults>>
  BY DEF Work, dirs, bounds
<1>3. PICK deed \in Deeds :
         /\ at[w].stage = "copy" => deed = "copied"
         /\ at[w].stage = "sanitize" => deed = "sanitized"
         /\ at[w].stage = "migrate" => deed = "rehearsed"
         /\ \/ incomplete # None /\ incomplete' = incomplete \cup {deed} /\ Step(w)
            \/ /\ \E e \in {"final", "retryable"} : Raise(w, e)
               /\ incomplete' = incomplete
  BY DEF Work, Deeds
<1>4. CASE incomplete # None /\ incomplete' = incomplete \cup {deed} /\ Step(w)
  <2>1. /\ at[w].stage = "copy" => After(at[w].stage) = IF derived THEN "scrub" ELSE "rehearse"
        /\ at[w].stage = "sanitize" => After(at[w].stage) = "rehearse"
        /\ at[w].stage = "migrate" => After(at[w].stage) = "seal"
    BY Order
  <2>2. Turns(w, After(at[w].stage), at[w].error) /\ After(at[w].stage) \in Stages \cap Chain
    <3>1. at' = [at EXCEPT ![w].stage = After(at[w].stage)]
      BY <1>4 DEF Step
    <3>2. After(at[w].stage) \in Stages \cap Chain
      BY <1>1, <2>1 DEF Stages, Chain, Building
    <3> QED
      BY <1>1, <3>1, <3>2, Types, EntersStage
  <2>3. incomplete \subseteq Deeds /\ incomplete' \subseteq Deeds /\ incomplete' # None
    BY <1>1, <1>4, NoneAssumption DEF TypeOK
  <2>4. TypeOK'
    BY <1>1, <1>2, <2>2, <2>3 DEF TypeOK, Turns, Positions
  <2>5. Sound(w)'
    BY <1>1, <1>2, <2>1, <2>2 DEF Sound, Owns, Turns, Placed, Late, Early, Chain, Building
  <2>6. AtInv' /\ ReadyInv' /\ OwnerInv' /\ UniqueInv'
    BY <1>1, <1>2, <2>2, <2>4, <2>5, BuildKeeps DEF Turns
  <2>7. /\ at[w].stage \in Chain /\ at'[w].stage = After(at[w].stage)
        /\ \A v \in Workers : v # w => at'[v] = at[v]
    BY <1>1, <2>2 DEF Turns, Chain, Building
  <2>8. Done(After(at[w].stage)) \subseteq Done(at[w].stage) \cup {deed}
    BY <1>1, <1>3, <2>1 DEF Done
  <2>9. ChainInv' /\ OwnInv'
    BY <1>2, <1>4, <2>2, <2>3, <2>7, <2>8, ChainGoesOn
  <2> QED
    BY <2>4, <2>6, <2>9 DEF IInv
<1>5. CASE (\E e \in {"final", "retryable"} : Raise(w, e)) /\ incomplete' = incomplete
  <2>1. PICK e \in {"final", "retryable"} : Raise(w, e)
    BY <1>5
  <2>2. e \in Errors /\ e # "read" /\ faults' \in 0..MaxFaults
        /\ at[w].stage \in Placed \ {"record", "complete"}
    BY <1>1, <1>2 DEF Errors, TypeOK, Placed, Late, Building
  <2> QED
    BY <1>2, <1>5, <2>1, <2>2, RaiseKeeps DEF dirs
<1> QED
  BY <1>3, <1>4, <1>5

\* The directory is sealed, and made first if it is gone.
LEMMA SealKeeps ==
    ASSUME IInv, NEW w \in Workers, Seal(w)
    PROVE  IInv'
<1>1. TypeOK /\ Sound(w) /\ at[w].stage = "seal"
  BY DEF IInv, AtInv, Seal
<1>2. /\ UNCHANGED <<derived, job, ws, runtime, raided, cut, retries, faults>>
      /\ incomplete' = (IF incomplete = None THEN {} ELSE incomplete) \cup {"sealed"}
  BY DEF Seal, dirs, bounds
<1>3. Turns(w, "rename", at[w].error) /\ "rename" \in Stages \cap Chain
  <2>1. at' = [at EXCEPT ![w].stage = "rename"] /\ "rename" \in Stages \cap Chain
    BY <1>1, Order DEF Seal, Step, Stages, Chain, Building
  <2> QED
    BY <1>1, <2>1, Types, EntersStage
<1>4. incomplete' \subseteq Deeds /\ incomplete' # None
  <2>1. incomplete' \subseteq Deeds
    BY <1>1, <1>2 DEF TypeOK, Deeds
  <2> QED
    BY <2>1, NoneAssumption
<1>5. TypeOK'
  BY <1>1, <1>2, <1>3, <1>4 DEF TypeOK, Turns, Positions
<1>6. Sound(w)'
  BY <1>1, <1>2, <1>3 DEF Sound, Owns, Turns, Placed, Late, Early, Chain, Building
<1>7. AtInv' /\ ReadyInv' /\ OwnerInv' /\ UniqueInv'
  BY <1>1, <1>2, <1>3, <1>5, <1>6, BuildKeeps DEF Turns
<1>8. /\ at[w].stage \in Chain /\ at'[w].stage = "rename"
      /\ \A v \in Workers : v # w => at'[v] = at[v]
  BY <1>1, <1>3 DEF Turns, Chain, Building
<1>9. Done("rename") \subseteq Done("seal") \cup {"sealed"}
  BY DEF Done
<1>10. ChainInv' /\ OwnInv'
  BY <1>1, <1>2, <1>3, <1>4, <1>8, <1>9, ChainGoesOn
<1> QED
  BY <1>5, <1>7, <1>10 DEF IInv

\* The sealed directory gets the name of the runtime.
LEMMA RenameKeeps ==
    ASSUME IInv, NEW w \in Workers, Rename(w)
    PROVE  IInv'
<1>1. TypeOK /\ Sound(w) /\ at[w].stage = "rename"
  BY DEF IInv, AtInv, Rename
<1>2. UNCHANGED <<derived, job, ws, raided, cut, retries, faults>>
  BY DEF Rename, bounds
<1>3. CASE incomplete # None /\ runtime = None
  <2>1. runtime' = incomplete /\ incomplete' = None
    BY <1>3 DEF Rename
  <2>2. Turns(w, "record", at[w].error) /\ "record" \in Stages
    <3>1. at' = [at EXCEPT ![w].stage = "record"] /\ "record" \in Stages
      BY <1>1, <1>3, Order DEF Rename, Step, Stages, Building
    <3> QED
      BY <1>1, <3>1, Types, EntersStage
  <2>3. TypeOK'
    BY <1>1, <1>2, <2>1, <2>2 DEF TypeOK, Turns, Positions
  <2>4. Sound(w)'
    BY <1>1, <1>2, <1>3, <2>1, <2>2
    DEF Sound, Owns, Turns, Placed, Late, Early, Chain, Building
  <2>5. AtInv' /\ ReadyInv' /\ OwnerInv' /\ UniqueInv'
    BY <1>1, <1>2, <1>3, <2>2, <2>3, <2>4, BuildKeeps DEF Turns
  <2>6. /\ at[w].stage \in Chain /\ at'[w].stage = "record" /\ "record" \notin Chain
        /\ \A v \in Workers : v # w => at'[v] = at[v]
    BY <1>1, <2>2 DEF Turns, Chain, Building
  <2>7. ChainInv'
    <3> SUFFICES ASSUME ~raided
                 PROVE  Complete(runtime)' /\ \A v \in Workers : at'[v].stage \notin Chain
      BY <1>2, <2>1 DEF ChainInv
    <3>1. /\ Done("rename") \subseteq incomplete
          /\ \A v \in Workers : at[v].stage \in Chain => v = w
      BY <1>1, <2>6, Alone
    <3>2. Complete(runtime)'
      BY <1>2, <1>3, <2>1, <3>1 DEF Complete, Done, Deeds
    <3> QED
      BY <2>6, <3>1, <3>2
  <2>8. OwnInv'
    BY <2>1, <2>6 DEF OwnInv
  <2> QED
    BY <2>3, <2>5, <2>7, <2>8 DEF IInv
<1>4. CASE ~(incomplete # None /\ runtime = None)
  <2>1. Raise(w, "retryable") /\ UNCHANGED dirs
    BY <1>4 DEF Rename
  <2>2. "retryable" \in Errors /\ faults' \in 0..MaxFaults
        /\ at[w].stage \in Placed \ {"record", "complete"}
    BY <1>1, <1>2 DEF Errors, TypeOK, Placed, Late, Building
  <2> QED
    BY <1>2, <2>1, <2>2, RaiseKeeps
<1> QED
  BY <1>3, <1>4


\* An error is handled: a failed read pauses the download, anything else removes
\* the incomplete runtime that the attempt got to name.
LEMMA HandleKeeps ==
    ASSUME IInv, NEW w \in Workers, Handle(w)
    PROVE  IInv'
<1> DEFINE i == at[w].ws
           pausing == at[w].error = "read" /\ at[w].state = "downloading"
<1>1. /\ TypeOK /\ Sound(w) /\ i \in 1..Len(ws) /\ at[w].stage = "handle"
      /\ at \in [Workers -> Positions] /\ ws \in Seq(Rows)
  BY Types DEF IInv, AtInv, Sound, Handle, Placed
<1>2. UNCHANGED <<derived, job, runtime, cut, retries, faults>>
  BY DEF Handle, bounds
<1>3. CASE pausing
  <2>1. UNCHANGED <<incomplete, raided>>
    BY <1>3 DEF Handle
  <2>2. Turns(w, "unwind", at[w].error) /\ "unwind" \in Stages
    <3>1. at' = [at EXCEPT ![w].stage = "unwind"] /\ "unwind" \in Stages
      BY <1>3 DEF Handle, Stages
    <3> QED
      BY <1>1, <3>1, EntersStage
  <2>3. /\ ws' \in Seq(Rows) /\ Len(ws') = Len(ws)
        /\ \A k \in 1..Len(ws) :
              /\ ws'[k].job = ws[k].job /\ ws'[k].path = ws[k].path
              /\ \/ ws'[k].state = ws[k].state
                 \/ ws'[k].state = "download_paused" /\ ws[k].state # "failed"
    <3>1. CASE ws' = ws
      BY <1>1, <3>1
    <3>2. CASE Allowed(ws[i].state, "download_paused")
               /\ ws' = [ws EXCEPT ![i].state = "download_paused"]
      <4>1. /\ ws' \in Seq(Rows) /\ Len(ws') = Len(ws)
            /\ \A k \in 1..Len(ws) :
                  /\ ws'[k].job = ws[k].job /\ ws'[k].path = ws[k].path
                  /\ ws'[k].state = IF k = i THEN "download_paused" ELSE ws[k].state
        BY <1>1, <3>2, RowMoves DEF States
      <4>2. ws[i].state # "failed"
        BY <3>2, FailedStays DEF States
      <4> HIDE DEF i
      <4> QED
        BY <4>1, <4>2
    <3> QED
      BY <1>3, <3>1, <3>2 DEF Handle
  <2>4. TypeOK'
    BY <1>1, <1>2, <2>1, <2>2, <2>3 DEF TypeOK, Turns, Positions, Rows
  <2>5. Sound(w)'
    BY <1>1, <2>2, <2>3 DEF Sound, Turns, Placed, Late, Early, Building
  <2>6. ~Minds(w) /\ "unwind" \notin Chain \cup {"record", "complete"}
    BY <1>1, <1>3 DEF Sound, Minds, Chain, Building
  <2> QED
    BY <1>1, <1>2, <2>1, <2>2, <2>3, <2>4, <2>5, <2>6, AsideKeeps
<1>4. CASE ~pausing
  <2>1. /\ ws' = ws
        /\ \/ incomplete' = IF at[w].assigned THEN None ELSE incomplete
           \/ incomplete # None /\ "sealed" \in incomplete /\ incomplete' = incomplete
        /\ raided' = \/ raided
                     \/ /\ incomplete' # incomplete
                        /\ {v \in Workers \ {w} : at[v].stage \in Building} # {}
    BY <1>4 DEF Handle
  <2>2. Turns(w, "failing", at[w].error) /\ "failing" \in Stages
    <3>1. at' = [at EXCEPT ![w].stage = "failing"] /\ "failing" \in Stages
      BY <1>4 DEF Handle, Stages
    <3> QED
      BY <1>1, <3>1, EntersStage
  <2>3. raided' \in BOOLEAN /\ (~raided' => ~raided)
        /\ (~raided' => \/ incomplete' = incomplete
                        \/ \A v \in Workers : v # w => at[v].stage \notin Building)
    BY <1>1, <2>1 DEF TypeOK
  <2>4. incomplete' = incomplete \/ incomplete' = None
    BY <2>1
  <2>5. TypeOK'
    BY <1>1, <1>2, <2>1, <2>2, <2>3, <2>4 DEF TypeOK, Turns, Positions
  <2>6. Sound(w)'
    BY <1>1, <2>1, <2>2 DEF Sound, Turns, Placed, Late, Early, Building
  <2>7. AtInv' /\ ReadyInv' /\ OwnerInv' /\ UniqueInv'
    BY <1>1, <1>2, <2>1, <2>2, <2>5, <2>6, BuildKeeps DEF Turns
  <2>8. /\ at'[w].stage = "failing" /\ "failing" \notin Chain /\ Chain \subseteq Building
        /\ \A v \in Workers : v # w => at'[v] = at[v]
    BY <2>2 DEF Turns, Chain, Building
  <2>9. ChainInv'
    <3>1. \A s : Done(s)' = Done(s)
      BY <1>2 DEF Done
    <3>2. Complete(runtime)' = Complete(runtime)
      BY <1>2 DEF Complete
    <3> SUFFICES ASSUME ~raided'
                 PROVE  /\ \A v \in Workers : at'[v].stage \in Chain =>
                              /\ incomplete' # None /\ Done(at'[v].stage) \subseteq incomplete'
                              /\ runtime = None
                              /\ \A u \in Workers : at'[u].stage \in Chain => u = v
                        /\ runtime # None => Complete(runtime) /\ incomplete' = None
      BY <1>2, <3>1, <3>2 DEF ChainInv
    <3>3. /\ \A v \in Workers : at[v].stage \in Chain =>
                /\ incomplete # None /\ Done(at[v].stage) \subseteq incomplete
                /\ runtime = None
                /\ \A u \in Workers : at[u].stage \in Chain => u = v
          /\ runtime # None => Complete(runtime) /\ incomplete = None
      BY <2>3 DEF IInv, ChainInv
    <3>4. \A v \in Workers : at'[v].stage \in Chain =>
             v # w /\ at'[v] = at[v] /\ incomplete' = incomplete
      BY <2>3, <2>8
    <3> QED
      BY <2>4, <3>3, <3>4
  <2>10. OwnInv'
    <3>1. ASSUME ~raided', incomplete' # None
          PROVE  \/ (\E v \in Workers : Minds(v))'
                 \/ cut \cap (Building \cup {"handle"}) # {}
                 \/ "sealed" \in incomplete'
      <4>1. incomplete' = incomplete /\ ~raided /\ (at[w].assigned => "sealed" \in incomplete)
        BY <2>1, <2>3, <2>4, <3>1
      <4>2. \/ \E v \in Workers : Minds(v)
            \/ cut \cap (Building \cup {"handle"}) # {}
            \/ "sealed" \in incomplete
        BY <3>1, <4>1 DEF IInv, OwnInv
      <4>3. ASSUME NEW v \in Workers, v # w, Minds(v) PROVE Minds(v)'
        BY <2>8, <4>3 DEF Minds
      <4>4. Minds(w) => at[w].assigned
        BY <1>1 DEF Minds, Chain, Building
      <4> QED
        BY <4>1, <4>2, <4>3, <4>4
    <3>2. ASSUME runtime' # None
          PROVE  \/ \E k \in 1..Len(ws') : ws'[k].path
                 \/ \E v \in Workers : at'[v].stage = "record"
                 \/ "record" \in cut'
      <4>1. \/ \E k \in 1..Len(ws) : ws[k].path
            \/ \E v \in Workers : at[v].stage = "record"
            \/ "record" \in cut
        BY <1>2, <3>2 DEF IInv, OwnInv
      <4>2. \A v \in Workers : at[v].stage = "record" => at'[v].stage = "record"
        BY <1>1, <2>8
      <4> QED
        BY <1>2, <2>1, <4>1, <4>2
    <3> QED
      BY <1>2, <3>1, <3>2 DEF OwnInv
  <2> QED
    BY <2>5, <2>7, <2>9, <2>10 DEF IInv
<1> QED
  BY <1>3, <1>4

-----------------------------------------------------------------------------
(* The invariant and what follows from it                                  *)

\* Nothing has begun: no row, no directory, every worker idle.
LEMMA InitInv == Init => IInv
<1> SUFFICES ASSUME Init PROVE IInv
  OBVIOUS
<1>1. Idle \in Positions /\ Idle.stage = "idle" /\ ~Idle.assigned
  BY DEF Idle, Positions, Stages, States, Errors
<1>2. at \in [Workers -> Positions]
      /\ \A w \in Workers : at[w].stage = "idle" /\ ~at[w].assigned
  BY <1>1 DEF Init
<1>3. ws = <<>> /\ Len(ws) = 0 /\ ws \in Seq(Rows)
  BY EmptySeq DEF Init
<1>4. TypeOK
  <2>1. job \in [Jobs -> [status: Statuses, owner: Workers \cup {None}]]
    BY DEF Init, Statuses
  <2>2. retries \in 0..MaxRetries /\ faults \in 0..MaxFaults
    BY BoundsAssumption DEF Init
  <2>3. /\ derived \in BOOLEAN /\ raided \in BOOLEAN /\ cut \subseteq Stages
        /\ incomplete = None /\ runtime = None
    BY DEF Init
  <2> QED
    BY <1>2, <1>3, <2>1, <2>2, <2>3 DEF TypeOK, Positions, Rows
<1>5. AtInv
  BY <1>2 DEF AtInv, Sound, Placed, Late, Early, Building
<1>6. ChainInv /\ OwnInv
  BY <1>2 DEF Init, ChainInv, OwnInv, Chain, Building
<1>7. ReadyInv /\ UniqueInv
  BY <1>3 DEF ReadyInv, UniqueInv
<1>8. OwnerInv
  BY DEF Init, OwnerInv
<1> QED
  BY <1>4, <1>5, <1>6, <1>7, <1>8 DEF IInv

\* Every step keeps the invariant.
LEMMA StepInv == IInv /\ [Next]_vars => IInv'
<1> SUFFICES ASSUME IInv, [Next]_vars PROVE IInv'
  OBVIOUS
<1>1. ASSUME NEW w \in Workers, Attempt(w) PROVE IInv'
  BY <1>1, VerifyFailsKeeps, TakeWorkspaceKeeps, TransitKeeps, DownloadKeeps,
     DownloadCancelledKeeps, CheckRuntimeKeeps, WorkKeeps, SealKeeps, RenameKeeps,
     RecordPathKeeps, FailsKeeps, HandleKeeps, FailWorkspaceKeeps, SettleKeeps
  DEF Attempt
<1>2. ASSUME NEW w \in Workers, Die(w) \/ \E j \in Jobs : Claim(w, j) PROVE IInv'
  BY <1>2, DieKeeps, ClaimKeeps
<1>3. ASSUME NEW j \in Jobs, RequestCancellation(j) \/ LoseJob(j) \/ Requeue(j) PROVE IInv'
  BY <1>3, JobStepKeeps
<1>4. CASE UNCHANGED vars
  <2>1. UNCHANGED <<derived, job, ws, incomplete, runtime, at, raided, cut, retries, faults>>
    BY <1>4 DEF vars, dirs, bounds
  <2>2. TypeOK' /\ UniqueInv' /\ OwnerInv' /\ AtInv'
    BY <2>1 DEF IInv, TypeOK, UniqueInv, OwnerInv, AtInv, Sound, Owns
  <2>3. ReadyInv'
    BY <2>1 DEF IInv, ReadyInv, Vouched
  <2>4. ChainInv'
    BY <2>1 DEF IInv, ChainInv, Done, Complete
  <2>5. OwnInv'
    BY <2>1 DEF IInv, OwnInv, Minds
  <2> QED
    BY <2>2, <2>3, <2>4, <2>5 DEF IInv
<1> QED
  BY <1>1, <1>2, <1>3, <1>4 DEF Next

\* The invariant holds of every behaviour.
THEOREM Inductive == Spec => []IInv
<1> QED
  BY InitInv, StepInv, PTL DEF Spec

\* Jobs, rows, directories and positions keep their types.
THEOREM TypeCorrect == Spec => []TypeOK
<1>1. IInv => TypeOK
  BY DEF IInv
<1> QED
  BY <1>1, Inductive, PTL

\* A workspace that may be activated stands for a complete and, where it must
\* be, sanitized runtime, for any number of jobs, workers, deaths and losses,
\* unless one attempt removed what another one was building.
THEOREM ReadyIsComplete == Spec => []ReadyRuntimesAreComplete
<1>1. IInv => ReadyRuntimesAreComplete
  <2> SUFFICES ASSUME IInv, ~raided, NEW i \in DOMAIN ws, ws[i].state = "activation_ready"
               PROVE  Complete(runtime)
    BY DEF ReadyRuntimesAreComplete
  <2>1. Vouched(i)
    BY Types DEF IInv, ReadyInv
  <2> QED
    BY <2>1 DEF IInv, ChainInv, Vouched
<1> QED
  BY <1>1, Inductive, PTL

\* A directory on disk has an attempt, a row or a cut that accounts for it.
THEOREM DirectoriesHaveOwners == Spec => []DirectoriesAreOwned
<1>1. IInv => DirectoriesAreOwned
  <2> SUFFICES ASSUME IInv PROVE DirectoriesAreOwned
    OBVIOUS
  <2>1. DOMAIN ws = 1..Len(ws)
    BY Types DEF IInv
  <2>2. \A w \in Workers : Minds(w) => at[w].stage \in Building \cup {"handle"}
    BY DEF Minds, Chain
  <2> QED
    BY <2>1, <2>2 DEF IInv, OwnInv, DirectoriesAreOwned
<1> QED
  BY <1>1, Inductive, PTL

\* A restore job that failed left nothing that may be activated, unless one of
\* its attempts was cut off after its last heartbeat.
THEOREM FailuresLeaveNothingReady == Spec => []FailedRestoresAreNotReady
<1>1. IInv => FailedRestoresAreNotReady
  <2> SUFFICES ASSUME IInv, cut \cap Late = {}, NEW i \in DOMAIN ws,
                      ws[i].state = "activation_ready"
               PROVE  job[ws[i].job].status \notin {"retryable_failed", "terminal_failed"}
    BY DEF FailedRestoresAreNotReady, Late
  <2>1. Vouched(i)
    BY Types DEF IInv, ReadyInv
  <2>2. ASSUME NEW w \in Workers, at[w].stage = "complete", at[w].job = ws[i].job
        PROVE  job[ws[i].job].status \in {"running", "cancelling"}
    BY <2>2 DEF IInv, AtInv, Sound, Owns, Late
  <2> QED
    BY <2>1, <2>2 DEF Vouched
<1> QED
  BY <1>1, Inductive, PTL

=============================================================================
