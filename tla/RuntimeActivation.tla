------------------------- MODULE RuntimeActivation -------------------------
(***************************************************************************)
(* The runtime cutover protocol of a staging deployment                    *)
(* (flowdocs/runtime_supervisor.py, flowdocs/vaultops/services/activation.py). *)
(*                                                                         *)
(* Two supervisors in two containers each run one child: the web           *)
(* supervisor runs the web server, the maintenance supervisor the job      *)
(* worker.  A child is bound to the generation that the signed file        *)
(* runtime/active.json names when it starts.  A coordinator, any web       *)
(* request of an operator, writes one signed intent to activate another    *)
(* generation; the supervisors poll the intents directory and talk through *)
(* acknowledgement files, one per intent and role.  The web supervisor     *)
(* performs the cutover, or rolls it back, and writes a signed result that *)
(* either supervisor projects into the control database.                   *)
(*                                                                         *)
(* Files survive a process death, the position in the code and the memory  *)
(* of a supervisor do not: one action is what a process does between two   *)
(* writes that another process, or its own successor, can tell apart.      *)
(* Intents that activate the very first generation are not modelled.       *)
(***************************************************************************)
EXTENDS Naturals, Sequences, FiniteSets

CONSTANTS
    Gens,          \* runtime generations prepared under the runtime root
    NoGen,         \* no child runs
    First, Second, \* the previous and the active one when the story starts
    MaxIntents,    \* bound: intents requested
    Faults,        \* what may go wrong: see FaultKinds
    MaxFaults      \* bound: faults of one behaviour

Supervisors == {"web", "maintenance"}

\* Deaths of the three kinds of process, and intents that expire while open.
FaultKinds == Supervisors \cup {"coordinator", "expiry"}

ASSUME GensAssumption == {First, Second} \subseteq Gens /\ First # Second /\ NoGen \notin Gens
ASSUME BoundsAssumption ==
    MaxIntents \in Nat /\ MaxFaults \in Nat /\ Faults \subseteq FaultKinds

VARIABLES
    active, previous,   \* runtime/active.json and runtime/previous.json
    writable,           \* generations whose files have write permission
    lock,               \* activation.lock: the intent it names, Blank or NoIntent
    ack,                \* ack[i][role]: state in activation/acks
    result,             \* result[i]: activation/results
    web,                \* the web supervisor's position and intent
    mnt,                \* the maintenance supervisor's position and memory
    child,              \* child[role]: generation its process is bound to
    drafts,             \* requests whose checks passed, not yet recorded
    intents,            \* signed intents, in the order of their rows
    file,               \* file[i]: what became of the intent's file
    row,                \* row[i]: ActivationIntent.state
    projection,         \* projection[g]: ArtifactGeneration.runtime_state
    expired,            \* intents whose expires_at_unix has passed
    faults              \* faults[k]: history, faults of kind k so far

runtimes == <<active, previous, writable>>
control  == <<drafts, intents, file, row, projection>>
bounds   == <<expired, faults>>
vars == <<runtimes, lock, ack, result, web, mnt, child, control, bounds>>

NoIntent == 0
Ids == 1..MaxIntents
\* A lock file that was created and whose content was never written.
Blank == MaxIntents + 1

Pointer == [gen: Gens, intent: 0..MaxIntents]
Intent  == [mode: {"activate", "rollback"}, target: Gens, base: Pointer, rb: Pointer]
Decisions == {"committed", "rolled_back", "failed", "rollback_failed"}
Acks == {"none", "applying", "pointer_switched", "verifying", "rollback_pending",
         "rollback_pointer_switched", "committed", "rolled_back", "reconciled",
         "quiesced", "target_started", "rollback_quiesced", "rollback_started"}
Projections == {"inactive", "pending", "active", "previous", "activation_failed", "unknown"}
Claiming == {"nameRecovery", "recover", "refuse"}
Cutover == {"lock", "nameLock", "freeze", "savePrevious", "switch", "thaw", "verify", "announce",
            "awaitStarted", "ready"}
Rollback == {"undo", "awaitQuiesced", "freezeTarget", "restore", "thawOld",
             "awaitRestarted", "readyAgain"}
WebPCs == {"down", "idle", "giveUp", "reconcile", "release"}
          \cup Claiming \cup Cutover \cup Rollback

Undecided == [status |-> "none", pointer |-> [gen |-> First, intent |-> 0]]

Known == 1..Len(intents)
\* One more fault of kind k.
Strike(k) ==
    /\ k \in Faults
    /\ faults["web"] + faults["maintenance"] + faults["coordinator"] + faults["expiry"]
         < MaxFaults
    /\ faults' = [faults EXCEPT ![k] = @ + 1]

Decided(i) == result[i] # Undecided

\* What _load_intent returns to a tick: an intent whose file exists and has
\* not expired, whether a result exists or not.
Loaded(i) == i \in Known /\ file[i] = "written" /\ i \notin expired

\* start_child: a running child is kept, a new one is bound to active.json.
StartChild(r) ==
    child' = [child EXCEPT ![r] = IF @ = NoGen THEN active.gen ELSE @]
StopChild(r) == child' = [child EXCEPT ![r] = NoGen]

WriteAck(i, r, state) == ack' = [ack EXCEPT ![i][r] = state]

WriteResult(i, status) ==
    result' = [result EXCEPT ![i] = [status |-> status, pointer |-> active]]

-----------------------------------------------------------------------------
Init ==
    /\ active = [gen |-> Second, intent |-> 0]
    /\ previous = [gen |-> First, intent |-> 0]
    /\ writable = {Second}
    /\ lock = NoIntent
    /\ ack = [i \in Ids |-> [r \in Supervisors |-> "none"]]
    /\ result = [i \in Ids |-> Undecided]
    /\ web = [pc |-> "down", intent |-> NoIntent, recovering |-> FALSE]
    /\ mnt = [pc |-> "down", seen |-> NoGen, paused |-> NoIntent]
    /\ child = [r \in Supervisors |-> NoGen]
    /\ drafts = {} /\ intents = <<>>
    /\ file = [i \in Ids |-> "none"]
    /\ row = [i \in Ids |-> "absent"]
    /\ projection = [g \in Gens |-> IF g = Second THEN "active"
                                    ELSE IF g = First THEN "previous" ELSE "inactive"]
    /\ expired = {} /\ faults = [k \in FaultKinds |-> 0]

-----------------------------------------------------------------------------
(* The coordinator: schedule_activation.                                   *)

\* The active generation was activated on top of the previous one, so that
\* one step back is allowed (prepare_previous_runtime_rollback).
StepsBack ==
    /\ projection[previous.gen] = "previous"
    /\ \/ active.intent = 0
       \/ active.intent # 0 /\ intents[active.intent].mode = "activate"
                            /\ intents[active.intent].base.gen = previous.gen

\* The checks before the transaction.  They read both pointers, verify that
\* the target is another, frozen runtime, and take a while.
Prepare(d) ==
    /\ Cardinality(drafts) + Len(intents) < MaxIntents
    /\ d.base = active /\ d.rb = previous
    /\ d.target # active.gen /\ d.target \notin writable
    /\ projection[active.gen] = "active"
    /\ d.mode = "rollback" => StepsBack /\ d.target = previous.gen
    /\ drafts' = drafts \cup {d}
    /\ UNCHANGED <<runtimes, lock, ack, result, web, mnt, child, intents, file, row,
                   projection, bounds>>

\* What RUNTIME_TRANSITIONS lets become PENDING; a target that a lost file left
\* PENDING stays so.
Schedulable == {"inactive", "previous", "activation_failed", "unknown", "pending"}

InProgress == \E i \in Known : row[i] = "pending"

\* The transaction: one open intent at a time.
CreateIntent(d) ==
    LET i == Len(intents) + 1
    IN  /\ d \in drafts /\ ~InProgress /\ projection[d.target] \in Schedulable
        /\ drafts' = drafts \ {d}
        /\ intents' = Append(intents, d)
        /\ file' = [file EXCEPT ![i] = "writing"]
        /\ row' = [row EXCEPT ![i] = "pending"]
        /\ projection' = [projection EXCEPT ![d.target] = "pending"]
        /\ UNCHANGED <<runtimes, lock, ack, result, web, mnt, child, bounds>>

\* runtime_activation_in_progress, or the target may not become PENDING.
RefuseIntent(d) ==
    /\ d \in drafts
    /\ InProgress \/ projection[d.target] \notin Schedulable
    /\ drafts' = drafts \ {d}
    /\ UNCHANGED <<runtimes, lock, ack, result, web, mnt, child, intents, file, row,
                   projection, bounds>>

\* After the commit: the file the supervisors poll for.
WriteIntent(i) ==
    /\ file[i] = "writing"
    /\ file' = [file EXCEPT ![i] = "written"]
    /\ UNCHANGED <<runtimes, lock, ack, result, web, mnt, child, drafts, intents, row,
                   projection, bounds>>

WriteIntentFails(i) ==
    /\ file[i] = "writing"
    /\ file' = [file EXCEPT ![i] = "lost"]
    /\ row' = [row EXCEPT ![i] = "failed"]
    /\ UNCHANGED <<runtimes, lock, ack, result, web, mnt, child, drafts, intents,
                   projection, bounds>>

\* The request's process dies between the two: the row stays open.
CoordinatorDies(i) ==
    /\ file[i] = "writing" /\ Strike("coordinator")
    /\ file' = [file EXCEPT ![i] = "lost"]
    /\ UNCHANGED <<runtimes, lock, ack, result, web, mnt, child, drafts, intents, row,
                   projection, expired>>

\* The lifetime of an intent, five minutes by default, ends.
Expire(i) ==
    /\ i \in Known /\ i \notin expired /\ Strike("expiry")
    /\ expired' = expired \cup {i}
    /\ UNCHANGED <<runtimes, lock, ack, result, web, mnt, child, control>>

-----------------------------------------------------------------------------
(* Projecting a result (reconcile_activation_result).                      *)

\* Fault: any signed result is believed.
ProjectableUnchecked(i) == Decided(i)

\* The signed result has to agree with the intent and with active.json.
Projectable(i) ==
    LET res == result[i]
    IN  /\ Decided(i)
        /\ res.status = "committed" => res.pointer.gen = intents[i].target
        /\ res.status \in {"rolled_back", "failed"} => res.pointer.gen = intents[i].base.gen
        /\ res.pointer = active

OldProjection == [committed |-> "previous", rolled_back |-> "active",
                  failed |-> "active", rollback_failed |-> "unknown"]
NewProjection == [committed |-> "active", rolled_back |-> "activation_failed",
                  failed |-> "activation_failed", rollback_failed |-> "unknown"]
RowState == [committed |-> "committed", rolled_back |-> "rolled_back",
             failed |-> "failed", rollback_failed |-> "failed"]

\* The transaction; a terminal row is left as it is.
Project(i) ==
    LET s == result[i].status
    IN  IF row[i] = "pending"
        THEN /\ row' = [row EXCEPT ![i] = RowState[s]]
             /\ projection' = [projection EXCEPT ![intents[i].base.gen] = OldProjection[s],
                                                 ![intents[i].target] = NewProjection[s]]
        ELSE UNCHANGED <<row, projection>>

\* _reconcile_result_best_effort and the acknowledgement that follows it: the
\* management command may fail, and then nothing is acknowledged.
Reconcile(i, r) ==
    \/ Projectable(i) /\ Project(i) /\ WriteAck(i, r, "reconciled")
    \/ UNCHANGED <<row, projection, ack>>

-----------------------------------------------------------------------------
(* The web supervisor.                                                     *)

Goto(l) == web' = [web EXCEPT !.pc = l]
WebAt(l) == web.pc = l
Leave == [pc |-> "idle", intent |-> NoIntent, recovering |-> FALSE]

\* run: thaw what active.json names, start the child, begin to poll.
WebBoot ==
    /\ WebAt("down")
    /\ writable' = writable \cup {active.gen}
    /\ StartChild("web")
    /\ web' = Leave
    /\ UNCHANGED <<active, previous, lock, ack, result, mnt, control, bounds>>

\* The process dies, and its child with the container.
WebDies ==
    /\ ~WebAt("down") /\ Strike("web")
    /\ StopChild("web")
    /\ web' = [Leave EXCEPT !.pc = "down"]
    /\ UNCHANGED <<runtimes, lock, ack, result, mnt, control, expired>>

\* run returns when its child is not running, and the container restarts.
WebExits ==
    /\ WebAt("idle") /\ child["web"] = NoGen
    /\ web' = [Leave EXCEPT !.pc = "down"]
    /\ UNCHANGED <<runtimes, lock, ack, result, mnt, child, control, bounds>>

\* The loop of run polls as long as the child runs.
Polls == WebAt("idle") /\ child["web"] # NoGen

\* web_tick on an intent that has a result.
WebSettles(i) ==
    /\ Polls /\ Loaded(i) /\ Decided(i)
    /\ ack[i]["web"] # "reconciled"
    /\ Reconcile(i, "web")
    /\ UNCHANGED <<runtimes, lock, result, web, mnt, child, drafts, intents, file, bounds>>

\* web_tick calls apply_intent on an intent that has none.
Applies(i) == Polls /\ Loaded(i) /\ ~Decided(i)

Moved(i) == active # intents[i].base

\* _recover_incomplete_cutover acts only on this intent's own switch.
Interrupted(i) == active.gen = intents[i].target /\ previous = intents[i].base

\* _claim_recovery_lock: without a lock file one is created, and named by the
\* next write; this intent's own is written again; any other raises, and the
\* tick returns.
ClaimRecoveryLock(i) ==
    LET at(l) == web' = [pc |-> l, intent |-> i, recovering |-> TRUE]
    IN  /\ Applies(i) /\ Moved(i)
        /\ \/ lock = NoIntent /\ lock' = Blank /\ at("nameRecovery")
           \/ lock = i /\ at("recover") /\ UNCHANGED lock
        /\ UNCHANGED <<runtimes, ack, result, mnt, child, control, bounds>>

\* The pointer is this intent's target: a predecessor died after the switch.
BeginRecovery ==
    /\ WebAt("recover") /\ Interrupted(web.intent)
    /\ StopChild("web")
    /\ WriteAck(web.intent, "web", "rollback_pending")
    /\ Goto("awaitQuiesced")
    /\ UNCHANGED <<runtimes, lock, result, mnt, control, bounds>>

\* The pointer is neither the intent's base nor its target: the finally block
\* leaves the lock ...
RefuseMoved ==
    /\ WebAt("recover") /\ ~Interrupted(web.intent)
    /\ lock' = NoIntent
    /\ Goto("refuse")
    /\ UNCHANGED <<runtimes, ack, result, mnt, child, control, bounds>>

\* ... and the intent fails, as it does after a recovery that gave up.
Refuse ==
    /\ WebAt("refuse")
    /\ WriteResult(web.intent, "failed")
    /\ web' = Leave
    /\ UNCHANGED <<runtimes, lock, ack, mnt, child, control, bounds>>

\* A rollback names the previous pointer it steps back to.  The same intent,
\* interrupted before the switch, finds its own base there instead.
MayStepBack(i) ==
    \/ previous = intents[i].rb
    \/ lock = i /\ ack[i]["web"] = "applying" /\ previous = active

RefuseRollback(i) ==
    /\ Applies(i) /\ ~Moved(i)
    /\ intents[i].mode = "rollback" /\ ~MayStepBack(i)
    /\ WriteResult(i, "failed")
    /\ UNCHANGED <<runtimes, lock, ack, web, mnt, child, control, bounds>>

\* Fault: the cutover does not wait for the maintenance supervisor.
MayCutOverAlone(i) ==
    /\ Applies(i) /\ ~Moved(i)
    /\ intents[i].mode = "rollback" => MayStepBack(i)

\* Nothing moved: go on once the maintenance child is quiesced.
MayCutOver(i) ==
    /\ Applies(i) /\ ~Moved(i)
    /\ intents[i].mode = "rollback" => MayStepBack(i)
    /\ ack[i]["maintenance"] = "quiesced"

\* validate_runtime_workspace stands outside every try: a target that is not
\* frozen any more ends the process.
MutableTargetRaises(i) ==
    /\ MayCutOver(i) /\ intents[i].target \in writable
    /\ StopChild("web")
    /\ web' = [Leave EXCEPT !.pc = "down"]
    /\ UNCHANGED <<runtimes, lock, ack, result, mnt, control, bounds>>

\* The target is frozen: sign the checkpoint "applying".
BeginCutover(i) ==
    /\ MayCutOver(i) /\ intents[i].target \notin writable
    /\ ack[i]["web"] \in {"none", "applying"}
    /\ WriteAck(i, "web", "applying")
    /\ web' = [pc |-> "lock", intent |-> i, recovering |-> FALSE]
    /\ UNCHANGED <<runtimes, lock, result, mnt, child, control, bounds>>

\* Fault: a lock is a lock, whoever left it behind.
TakeFreeLock ==
    /\ WebAt("lock")
    /\ \/ lock = NoIntent /\ lock' = Blank /\ Goto("nameLock")
       \/ lock # NoIntent /\ web' = Leave /\ UNCHANGED lock
    /\ UNCHANGED <<runtimes, child, ack, result, mnt, control, bounds>>

\* Create the lock file, or resume under this intent's own; any other lock
\* makes the tick return.  The authority check under the lock reads what
\* BeginCutover read, which nobody else writes.
TakeLock ==
    /\ WebAt("lock")
    /\ \/ lock = NoIntent /\ lock' = Blank /\ Goto("nameLock") /\ UNCHANGED child
       \/ lock = web.intent /\ StopChild("web") /\ Goto("freeze") /\ UNCHANGED lock
       \/ lock \notin {NoIntent, web.intent} /\ web' = Leave /\ UNCHANGED <<lock, child>>
    /\ UNCHANGED <<runtimes, ack, result, mnt, control, bounds>>

\* The content follows the creation: a process that dies before it leaves a
\* lock that no later claim accepts.
NameLock ==
    /\ \/ WebAt("nameLock") /\ StopChild("web") /\ Goto("freeze")
       \/ WebAt("nameRecovery") /\ Goto("recover") /\ UNCHANGED child
    /\ lock' = web.intent
    /\ UNCHANGED <<runtimes, ack, result, mnt, control, bounds>>

SetWritable(g, on) == writable' = IF on THEN writable \cup {g} ELSE writable \ {g}

FreezeOld ==
    /\ WebAt("freeze")
    /\ SetWritable(active.gen, FALSE)
    /\ Goto("savePrevious")
    /\ UNCHANGED <<active, previous, lock, ack, result, mnt, child, control, bounds>>

SavePrevious ==
    /\ WebAt("savePrevious")
    /\ previous' = active
    /\ Goto("switch")
    /\ UNCHANGED <<active, writable, lock, ack, result, mnt, child, control, bounds>>

SwitchPointer ==
    /\ WebAt("switch")
    /\ active' = [gen |-> intents[web.intent].target, intent |-> web.intent]
    /\ Goto("thaw")
    /\ UNCHANGED <<previous, writable, lock, ack, result, mnt, child, control, bounds>>

ThawTarget ==
    /\ WebAt("thaw")
    /\ SetWritable(active.gen, TRUE)
    /\ Goto("verify")
    /\ UNCHANGED <<active, previous, lock, ack, result, mnt, child, control, bounds>>

\* verify_activation_runtime before the start of the web server.
VerifyTarget ==
    /\ WebAt("verify")
    /\ \/ StartChild("web") /\ Goto("announce")
       \/ Goto("undo") /\ UNCHANGED child
    /\ UNCHANGED <<runtimes, lock, ack, result, mnt, control, bounds>>

Announce ==
    /\ WebAt("announce")
    /\ WriteAck(web.intent, "web", "pointer_switched")
    /\ Goto("awaitStarted")
    /\ UNCHANGED <<runtimes, lock, result, mnt, child, control, bounds>>

\* Fault: a deadline that passes counts as an answer.
AwaitStartedLeniently ==
    /\ WebAt("awaitStarted")
    /\ WriteAck(web.intent, "web", "verifying")
    /\ Goto("ready")
    /\ UNCHANGED <<runtimes, lock, result, mnt, child, control, bounds>>

\* _wait_maintenance_state sees the state it waits for, or its time is up.
AwaitStarted ==
    /\ WebAt("awaitStarted")
    /\ \/ /\ ack[web.intent]["maintenance"] = "target_started"
          /\ WriteAck(web.intent, "web", "verifying")
          /\ Goto("ready")
       \/ Goto("undo") /\ UNCHANGED ack
    /\ UNCHANGED <<runtimes, lock, result, mnt, child, control, bounds>>

\* _wait_ready and the second verification: commit, or undo.
DecideCommit ==
    /\ WebAt("ready")
    /\ \/ /\ WriteResult(web.intent, "committed")
          /\ WriteAck(web.intent, "web", "committed")
          /\ Goto("reconcile")
       \/ Goto("undo") /\ UNCHANGED <<result, ack>>
    /\ UNCHANGED <<runtimes, lock, mnt, child, control, bounds>>

\* The exception handler of apply_intent.
Undo ==
    /\ WebAt("undo")
    /\ StopChild("web")
    /\ WriteAck(web.intent, "web", "rollback_pending")
    /\ Goto("awaitQuiesced")
    /\ UNCHANGED <<runtimes, lock, result, mnt, control, bounds>>

\* Fault: the rollback goes on without the maintenance supervisor.
AwaitQuiescedLeniently ==
    /\ WebAt("awaitQuiesced")
    /\ Goto("freezeTarget")
    /\ UNCHANGED <<runtimes, lock, ack, result, mnt, child, control, bounds>>

AwaitQuiesced ==
    /\ WebAt("awaitQuiesced")
    /\ \/ ack[web.intent]["maintenance"] = "rollback_quiesced" /\ Goto("freezeTarget")
       \/ Goto("giveUp")
    /\ UNCHANGED <<runtimes, lock, ack, result, mnt, child, control, bounds>>

\* Fault: the failed target stays writable.
FreezeTargetForgotten ==
    /\ WebAt("freezeTarget")
    /\ Goto("restore")
    /\ UNCHANGED <<runtimes, lock, ack, result, mnt, child, control, bounds>>

FreezeTarget ==
    /\ WebAt("freezeTarget")
    /\ SetWritable(intents[web.intent].target, FALSE)
    /\ Goto("restore")
    /\ UNCHANGED <<active, previous, lock, ack, result, mnt, child, control, bounds>>

RestorePointer ==
    /\ WebAt("restore")
    /\ active' = intents[web.intent].base
    /\ Goto("thawOld")
    /\ UNCHANGED <<previous, writable, lock, ack, result, mnt, child, control, bounds>>

ThawOld ==
    /\ WebAt("thawOld")
    /\ SetWritable(active.gen, TRUE)
    /\ StartChild("web")
    /\ WriteAck(web.intent, "web", "rollback_pointer_switched")
    /\ Goto("awaitRestarted")
    /\ UNCHANGED <<active, previous, lock, result, mnt, control, bounds>>

AwaitRestarted ==
    /\ WebAt("awaitRestarted")
    /\ \/ ack[web.intent]["maintenance"] = "rollback_started" /\ Goto("readyAgain")
       \/ Goto("giveUp")
    /\ UNCHANGED <<runtimes, lock, ack, result, mnt, child, control, bounds>>

DecideRollback ==
    /\ WebAt("readyAgain")
    /\ \/ /\ WriteResult(web.intent, "rolled_back")
          /\ WriteAck(web.intent, "web", "rolled_back")
          /\ Goto("reconcile")
       \/ Goto("giveUp") /\ UNCHANGED <<result, ack>>
    /\ UNCHANGED <<runtimes, lock, mnt, child, control, bounds>>

\* The rollback failed: rollback_failed in apply_intent; a recovery answers
\* False, leaves the lock and then reports a moved pointer.
GiveUp ==
    /\ WebAt("giveUp")
    /\ \/ web.recovering /\ lock' = NoIntent /\ Goto("refuse") /\ UNCHANGED result
       \/ ~web.recovering /\ WriteResult(web.intent, "rollback_failed") /\ Goto("release")
                          /\ UNCHANGED lock
    /\ UNCHANGED <<runtimes, ack, mnt, child, control, bounds>>

ReconcileOwn ==
    /\ WebAt("reconcile")
    /\ Reconcile(web.intent, "web")
    /\ Goto("release")
    /\ UNCHANGED <<runtimes, lock, result, mnt, child, drafts, intents, file, bounds>>

\* The finally block: the lock goes only if it still names this intent.
ReleaseLock ==
    /\ WebAt("release")
    /\ lock' = IF lock = web.intent THEN NoIntent ELSE lock
    /\ web' = Leave
    /\ UNCHANGED <<runtimes, ack, result, mnt, child, control, bounds>>

-----------------------------------------------------------------------------
(* The maintenance supervisor.                                             *)

MntAt(l) == mnt.pc = l

\* run reads active.json ...
MntBoot ==
    /\ MntAt("down")
    /\ mnt' = [pc |-> "boot", seen |-> active.gen, paused |-> NoIntent]
    /\ UNCHANGED <<runtimes, lock, ack, result, web, child, control, bounds>>

\* ... thaws the runtime it read, and starts the child.
MntStart ==
    /\ MntAt("boot")
    /\ SetWritable(mnt.seen, TRUE)
    /\ StartChild("maintenance")
    /\ mnt' = [mnt EXCEPT !.pc = "idle", !.seen = NoGen]
    /\ UNCHANGED <<active, previous, lock, ack, result, web, control, bounds>>

MntDies ==
    /\ ~MntAt("down") /\ Strike("maintenance")
    /\ StopChild("maintenance")
    /\ mnt' = [mnt EXCEPT !.pc = "down", !.seen = NoGen, !.paused = NoIntent]
    /\ UNCHANGED <<runtimes, lock, ack, result, web, control, expired>>

\* maintenance_tick on an intent that has a result: project it, and start the
\* child again if it was stopped for this intent.
MntSettles(i) ==
    /\ MntAt("idle") /\ Loaded(i) /\ Decided(i)
    /\ ack[i]["maintenance"] # "reconciled" \/ mnt.paused = i
    /\ Reconcile(i, "maintenance")
    /\ IF mnt.paused = i
       THEN StartChild("maintenance") /\ mnt' = [mnt EXCEPT !.paused = NoIntent]
       ELSE UNCHANGED <<child, mnt>>
    /\ UNCHANGED <<runtimes, lock, result, web, drafts, intents, file, bounds>>

\* The first tick that sees an open intent.
Quiesce(i) ==
    /\ MntAt("idle") /\ Loaded(i) /\ ~Decided(i) /\ mnt.paused = NoIntent
    /\ StopChild("maintenance")
    /\ WriteAck(i, "maintenance", "quiesced")
    /\ mnt' = [mnt EXCEPT !.paused = i]
    /\ UNCHANGED <<runtimes, lock, result, web, control, bounds>>

Answer == [pointer_switched |-> "target_started", rollback_pending |-> "rollback_quiesced",
           rollback_pointer_switched |-> "rollback_started"]

\* Later ticks read the web supervisor's acknowledgement ...
Listen(i) ==
    /\ MntAt("idle") /\ Loaded(i) /\ ~Decided(i) /\ mnt.paused = i
    /\ ack[i]["web"] \in DOMAIN Answer
    /\ ack[i]["maintenance"] # Answer[ack[i]["web"]]    \* repeating it changes nothing
    /\ mnt' = [mnt EXCEPT !.pc = Answer[ack[i]["web"]]]
    /\ UNCHANGED <<runtimes, lock, ack, result, web, child, control, bounds>>

\* ... and do what it asks for.
Respond ==
    /\ mnt.pc \in {Answer[a] : a \in DOMAIN Answer}
    /\ IF MntAt("rollback_quiesced") THEN StopChild("maintenance") ELSE StartChild("maintenance")
    /\ WriteAck(mnt.paused, "maintenance", mnt.pc)
    /\ mnt' = [mnt EXCEPT !.pc = "idle"]
    /\ UNCHANGED <<runtimes, lock, result, web, control, bounds>>

-----------------------------------------------------------------------------
Coordinator ==
    \/ \E d \in [mode : {"activate", "rollback"}, target : Gens, base : {active}, rb : {previous}] :
          Prepare(d)
    \/ \E d \in drafts : CreateIntent(d) \/ RefuseIntent(d)

FileSteps(i) == WriteIntent(i) \/ WriteIntentFails(i)

WebTick(i) ==
    \/ WebSettles(i) \/ ClaimRecoveryLock(i) \/ RefuseRollback(i)
    \/ MutableTargetRaises(i) \/ BeginCutover(i)

WebSteps ==
    \/ WebBoot \/ WebExits \/ \E i \in Known : WebTick(i)
    \/ BeginRecovery \/ RefuseMoved \/ Refuse
    \/ TakeLock \/ NameLock \/ FreezeOld \/ SavePrevious \/ SwitchPointer \/ ThawTarget
    \/ VerifyTarget \/ Announce \/ AwaitStarted \/ DecideCommit
    \/ Undo \/ AwaitQuiesced \/ FreezeTarget \/ RestorePointer \/ ThawOld
    \/ AwaitRestarted \/ DecideRollback \/ GiveUp \/ ReconcileOwn \/ ReleaseLock

MntSteps ==
    \/ MntBoot \/ MntStart \/ Respond
    \/ \E i \in Known : MntSettles(i) \/ Quiesce(i) \/ Listen(i)

Next ==
    \/ Coordinator \/ WebSteps \/ MntSteps \/ WebDies \/ MntDies
    \/ \E i \in Known : FileSteps(i) \/ CoordinatorDies(i) \/ Expire(i)

Spec == Init /\ [][Next]_vars

\* Both containers restart (restart: always), both supervisors poll and every
\* wait of theirs has a deadline; the coordinator's write returns or raises.
Fairness ==
    /\ WF_vars(WebSteps) /\ WF_vars(MntSteps)
    /\ \A i \in Ids : WF_vars(FileSteps(i))

FairSpec == Spec /\ Fairness

-----------------------------------------------------------------------------
(* Properties.                                                             *)

\* The shape of the files, of the control rows and of the supervisors.
TypeOK ==
    /\ active \in Pointer /\ previous \in Pointer /\ writable \subseteq Gens
    /\ lock \in {NoIntent, Blank} \cup Known
    /\ ack \in [Ids -> [Supervisors -> Acks]]
    /\ result \in [Ids -> [status: Decisions \cup {"none"}, pointer: Pointer]]
    /\ web \in [pc: WebPCs, intent: {NoIntent} \cup Known, recovering: BOOLEAN]
    /\ web.pc \notin {"down", "idle"} <=> web.intent # NoIntent
    /\ mnt \in [pc: {"down", "boot", "idle"} \cup {Answer[a] : a \in DOMAIN Answer},
                 seen: Gens \cup {NoGen}, paused: {NoIntent} \cup Known]
    /\ child \in [Supervisors -> Gens \cup {NoGen}]
    /\ drafts \subseteq Intent /\ intents \in Seq(Intent) /\ Len(intents) <= MaxIntents
    /\ file \in [Ids -> {"none", "writing", "written", "lost"}]
    /\ row \in [Ids -> {"absent", "pending", "committed", "rolled_back", "failed"}]
    /\ projection \in [Gens -> Projections]
    /\ expired \subseteq Known /\ faults \in [FaultKinds -> 0..MaxFaults]

\* The exceptions below: a maintenance supervisor that was restarted.
MntNeverDied == faults["maintenance"] = 0

\* The pointer moves only under the lock of an intent that is still open, to
\* its target or back to the pointer it was signed against, and only while no
\* web server works on a runtime, nor a job worker, as long as the maintenance
\* supervisor was never restarted.
PointerMovesQuietly ==
    [][active' # active =>
          /\ lock \in Known /\ ~Decided(lock)
          /\ active'.intent = lock \/ active' = intents[lock].base
          /\ child["web"] = NoGen
          /\ MntNeverDied => child["maintenance"] = NoGen]_vars

\* The web server and the job worker never work on different generations,
\* whatever times out or dies in the web supervisor.
OneGenerationServes ==
    MntNeverDied /\ NoGen \notin {child[r] : r \in Supervisors}
        => child["web"] = child["maintenance"]

\* A runtime that active.json does not name is frozen at every moment, in the
\* middle of a cutover too.
InactiveRuntimesAreFrozen == MntNeverDied => writable \subseteq {active.gen}

\* A decision describes what runs: committed with the web server on the target
\* it names, rolled back with the web server on the base, and the job worker on
\* the same runtime unless its supervisor was restarted; and it is never revised.
DecisionsAreWitnessed ==
    [][\A i \in Known : result'[i] # result[i] =>
          /\ ~Decided(i)
          /\ result'[i].status = "committed" =>
                active.intent = i /\ child["web"] = intents[i].target
          /\ result'[i].status = "rolled_back" =>
                active = intents[i].base /\ child["web"] = intents[i].base.gen
          /\ result'[i].status \in {"committed", "rolled_back"} /\ MntNeverDied =>
                child["maintenance"] = child["web"]]_vars

MarkedActive == {g \in Gens : projection[g] = "active"}

\* With no intent open, the control database marks active only the generation
\* that active.json names, and does mark it unless the last intent that reached
\* the supervisors ended in a failed rollback.
ProjectionFollowsPointer ==
    ~InProgress =>
        /\ MarkedActive \subseteq {active.gen}
        /\ MarkedActive = {} =>
              \E i \in Known : /\ result[i].status = "rollback_failed"
                               /\ \A j \in Known : j > i => file[j] = "lost"

\* What strands an open intent for good.  A web supervisor that died left a
\* lock without content or another intent's, or a pointer that is back on the
\* base while the checkpoint is not "applying"; or a maintenance supervisor
\* that was restarted thawed the target.
Stranded(i) ==
    \/ faults["web"] > 0 /\ lock \notin {NoIntent, i}
    \/ faults["web"] > 0 /\ ~Moved(i) /\ ack[i]["web"] \notin {"none", "applying"}
    \/ ~MntNeverDied /\ ~Moved(i) /\ intents[i].target \in writable

\* Every intent that reached its file is decided in the end and the job worker
\* runs again, unless the intent expires, the job worker is stopped for one that
\* did, or a death stranded the intent.
OpenIntentsAreDecided ==
    \A i \in Ids : <>[](file[i] = "written" =>
        \/ Decided(i) /\ mnt.paused # i
        \/ i \in expired \/ mnt.paused \in expired
        \/ Stranded(i))
=============================================================================
