---------------------- MODULE RuntimeActivationProofs ----------------------
(* Proofs about RuntimeActivation for every set of generations and number   *)
(* of intents and faults: the cutover is safe as long as the job worker's   *)
(* supervisor is not restarted, and in part when it is.                     *)
EXTENDS RuntimeActivation, FiniteSetTheorems, TLAPS

\* Places at which the pointer is still, or again, the intent's base.
OnBase == {"lock", "nameLock", "freeze", "savePrevious", "switch", "thawOld",
           "awaitRestarted", "readyAgain"}
\* Places at which it names the intent's target: Ahead under this very intent.
Ahead    == {"thaw", "verify", "announce", "awaitStarted", "ready", "undo"}
OnTarget == Ahead \cup {"awaitQuiesced", "freezeTarget", "restore"}
\* Places at which the web supervisor runs no child, and one at the pointer.
Childless == {"freeze", "savePrevious", "switch", "thaw", "verify", "awaitQuiesced",
              "freezeTarget", "restore", "thawOld"}
Serving   == {"announce", "awaitStarted", "ready", "awaitRestarted", "readyAgain"}
\* Places before the switch is announced, and between the job worker's stop and
\* its restart in a rollback, and those at which the lock does not name the intent.
Preparing == {"lock", "nameLock", "freeze", "savePrevious", "switch", "thaw", "verify",
              "announce"}
Restoring == {"freezeTarget", "restore", "thawOld"}
Lockless  == {"lock", "nameLock", "nameRecovery", "refuse"}

Working == web.pc \notin {"down", "idle"}

\* The web supervisor: its lock, the pointer, its child and what it has said.
WebInv ==
    LET i == web.intent
    IN  /\ Working =>
              /\ web.pc \notin Lockless => lock = i
              /\ Decided(i) <=> web.pc \in {"reconcile", "release"}
        /\ web.pc \in Preparing => ack[i]["web"] = "applying"
        /\ web.pc = "awaitStarted" => ack[i]["web"] = "pointer_switched"
        /\ web.pc = "ready" => ack[i]["web"] = "verifying"
        /\ web.pc = "undo" => ack[i]["web"] \in {"applying", "pointer_switched", "verifying"}
        /\ web.pc \in {"awaitQuiesced"} \cup Restoring => ack[i]["web"] = "rollback_pending"
        /\ web.pc \in {"awaitRestarted", "readyAgain"} =>
              ack[i]["web"] = "rollback_pointer_switched"
        /\ web.pc \in {"nameRecovery", "recover"} => Moved(i)
        /\ web.pc \in OnBase => active = intents[i].base
        /\ web.pc \in OnTarget => active.gen = intents[i].target
        /\ web.pc \in Ahead => active.intent = i
        /\ web.pc \in Childless => child["web"] = NoGen
        /\ web.pc \in Serving => child["web"] = active.gen
        /\ child["web"] \in {NoGen, active.gen}

\* A target is another generation than the one it replaces, the counted
\* requests stay within their bound, and a result is a decision.
IntentInv ==
    /\ \A d \in drafts : d.target # d.base.gen
    /\ \A i \in Known : intents[i].target # intents[i].base.gen
    /\ IsFiniteSet(drafts) /\ Cardinality(drafts) + Len(intents) <= MaxIntents
    /\ \A i \in Ids : Decided(i) => result[i].status \in Decisions

Started == {"none", "applying"}
Switched == Started \cup {"pointer_switched", "verifying"}
Undoing == Switched \cup {"rollback_pending"}

\* What the acknowledgements of an intent say of each other and of the pointer.
AckInv ==
    \A i \in Ids :
        /\ ~Decided(i) => ack[i]["web"] \in Undoing \cup {"rollback_pointer_switched"}
        /\ ack[i]["maintenance"] = "target_started" => ack[i]["web"] \notin Started
        /\ ack[i]["maintenance"] = "rollback_quiesced" => ack[i]["web"] \notin Switched
        /\ ack[i]["maintenance"] = "rollback_started" => ack[i]["web"] \notin Undoing
        /\ ack[i]["web"] = "rollback_pointer_switched" /\ ~Decided(i) =>
               i \in Known /\ file[i] = "written" /\ active = intents[i].base

Stopped == {"quiesced", "rollback_quiesced"}
Running == {"target_started", "rollback_started"}

\* What the maintenance supervisor is about to say answers what the web
\* supervisor said, and a start of its own is bound to a generation.
AnswerInv ==
    LET p == mnt.paused
    IN  /\ mnt.pc = "boot" => mnt.seen \in Gens
        /\ mnt.pc \in {"target_started", "rollback_quiesced", "rollback_started"} => p # NoIntent
        /\ mnt.pc = "target_started" => ack[p]["web"] \notin Started
        /\ mnt.pc = "rollback_quiesced" => ack[p]["web"] \notin Switched
        /\ mnt.pc = "rollback_started" => ack[p]["web"] \notin Undoing

\* The maintenance supervisor, as long as it was never restarted: it is held
\* by every intent that it answered and that is open; its child is stopped, or
\* at the pointer, as it said; and what it is about to say follows from what it
\* said last.
HeldInv ==
    LET p == mnt.paused
    IN  /\ \A i \in Ids : ~Decided(i) /\ ack[i]["maintenance"] # "none" => p = i
        /\ child["maintenance"] \in {NoGen, active.gen}
        /\ p # NoIntent =>
              /\ mnt.pc \notin {"down", "boot"}
              /\ ack[p]["maintenance"] \in Stopped \cup Running
              /\ ack[p]["maintenance"] \in Stopped => child["maintenance"] = NoGen
              /\ ack[p]["maintenance"] \in Running => child["maintenance"] = active.gen
        /\ mnt.pc = "boot" => mnt.seen = active.gen
        /\ mnt.pc = "target_started" => ack[p]["maintenance"] = "quiesced"
        /\ mnt.pc = "rollback_quiesced" => ack[p]["maintenance"] \in {"quiesced", "target_started"}
        /\ mnt.pc = "rollback_started" => ack[p]["maintenance"] = "rollback_quiesced"
        /\ \A i \in Ids : ack[i]["web"] = "rollback_pointer_switched" =>
              ack[i]["maintenance"] \in {"rollback_quiesced", "rollback_started", "reconciled"}

\* What the web supervisor relies on while it moves the pointer.
ReliedInv ==
    LET i == web.intent
    IN  /\ web.pc \in Preparing => ack[i]["maintenance"] = "quiesced"
        /\ web.pc \in Restoring => ack[i]["maintenance"] = "rollback_quiesced"
        /\ web.pc = "ready" => ack[i]["maintenance"] = "target_started"
        /\ web.pc = "readyAgain" => ack[i]["maintenance"] = "rollback_started"
        /\ writable \subseteq {active.gen}
        /\ web.pc \in {"savePrevious", "switch", "restore"} => writable = {}

\* One row is open, the last one; what the supervisors can still read without
\* a result is open, and so is what the web supervisor works on.
RowsInv ==
    /\ \A i \in Known : row[i] = "pending" => i = Len(intents)
    /\ \A i \in Known : file[i] = "writing" => row[i] = "pending"
    /\ \A i \in Known : file[i] = "written" /\ ~Decided(i) => row[i] = "pending"
    /\ Working => file[web.intent] = "written"

\* What the steps preserve together.
IInv ==
    /\ TypeOK /\ IntentInv /\ WebInv /\ AckInv /\ AnswerInv
    /\ MntNeverDied => HeldInv /\ ReliedInv

-----------------------------------------------------------------------------
(* Init, and what the steps have in common                                 *)

\* No supervisor runs, nothing was requested and the active runtime is writable.
LEMMA InitInv == Init => IInv
<1> SUFFICES ASSUME Init PROVE IInv
  OBVIOUS
<1> USE DEF Init
<1>1. Undecided \in [status: Decisions \cup {"none"}, pointer: Pointer]
  BY GensAssumption, BoundsAssumption DEF Undecided, Pointer
<1>2. intents \in Seq(Intent) /\ Len(intents) = 0 /\ Known = {}
  BY DEF Known
<1>3. /\ active \in Pointer /\ previous \in Pointer /\ writable \subseteq Gens
      /\ lock \in {NoIntent, Blank} \cup Known
  BY GensAssumption, BoundsAssumption DEF Pointer
<1>4. /\ ack \in [Ids -> [Supervisors -> Acks]] /\ child \in [Supervisors -> Gens \cup {NoGen}]
      /\ result \in [Ids -> [status: Decisions \cup {"none"}, pointer: Pointer]]
  BY <1>1 DEF Acks
<1>5. /\ web \in [pc: WebPCs, intent: {NoIntent} \cup Known, recovering: BOOLEAN]
      /\ web.pc \notin {"down", "idle"} <=> web.intent # NoIntent
      /\ mnt \in [pc: {"down", "boot", "idle"} \cup {Answer[a] : a \in DOMAIN Answer},
                  seen: Gens \cup {NoGen}, paused: {NoIntent} \cup Known]
  BY DEF WebPCs
<1>6. /\ drafts \subseteq Intent /\ Len(intents) <= MaxIntents
      /\ file \in [Ids -> {"none", "writing", "written", "lost"}]
      /\ row \in [Ids -> {"absent", "pending", "committed", "rolled_back", "failed"}]
      /\ projection \in [Gens -> Projections]
      /\ expired \subseteq Known /\ faults \in [FaultKinds -> 0..MaxFaults]
  BY <1>2, BoundsAssumption DEF Projections
<1>7. TypeOK
  BY <1>2, <1>3, <1>4, <1>5, <1>6 DEF TypeOK
<1>8. IntentInv
  BY <1>2, BoundsAssumption, FS_EmptySet DEF IntentInv, Decided
<1>9. WebInv
  BY DEF WebInv, Working, OnBase, OnTarget, Ahead, Childless, Serving, Preparing, Restoring,
         Supervisors
<1>10. AckInv /\ AnswerInv /\ HeldInv /\ ReliedInv
  BY DEF AckInv, AnswerInv, HeldInv, ReliedInv, Started, Switched, Undoing, Preparing, Restoring,
         Supervisors
<1> QED BY <1>7, <1>8, <1>9, <1>10 DEF IInv

\* Intents keep what they were signed with, and stay within their bound.
LEMMA KnownIntents ==
    ASSUME TypeOK
    PROVE  /\ Known \subseteq Ids /\ NoIntent \notin Known /\ NoIntent \notin Ids
           /\ \A i \in Known : /\ intents[i] \in Intent /\ intents[i].target \in Gens
                               /\ intents[i].base \in Pointer /\ intents[i].base.gen \in Gens
<1>1. /\ intents \in Seq(Intent) /\ Len(intents) \in Nat /\ Len(intents) <= MaxIntents
      /\ MaxIntents \in Nat
  BY BoundsAssumption DEF TypeOK
<1>2. Known \subseteq Ids /\ NoIntent \notin Known /\ NoIntent \notin Ids
  BY <1>1 DEF Known, Ids, NoIntent
<1>3. ASSUME NEW i \in Known PROVE intents[i] \in Intent
  BY <1>1 DEF Known
<1> QED BY <1>2, <1>3 DEF Intent, Pointer

\* A fault more stays within the bound, and is one of its kind.
LEMMA StrikeTypes ==
    ASSUME TypeOK, NEW k \in FaultKinds, Strike(k)
    PROVE  /\ faults' \in [FaultKinds -> 0..MaxFaults]
           /\ k # "maintenance" => faults'["maintenance"] = faults["maintenance"]
           /\ k = "maintenance" => faults'["maintenance"] > 0
<1>1. /\ faults \in [FaultKinds -> 0..MaxFaults] /\ MaxFaults \in Nat
      /\ {"web", "maintenance", "coordinator", "expiry"} = FaultKinds
  BY BoundsAssumption DEF TypeOK, FaultKinds, Supervisors
<1>2. faults[k] + 1 \in 0..MaxFaults
  BY <1>1 DEF Strike
<1> QED BY <1>1, <1>2 DEF Strike

\* Projecting a result keeps the types of the control rows.
LEMMA ProjectTypes ==
    ASSUME TypeOK, IntentInv, NEW i \in Known, Projectable(i), Project(i)
    PROVE  /\ row' \in [Ids -> {"absent", "pending", "committed", "rolled_back", "failed"}]
           /\ projection' \in [Gens -> Projections]
<1> DEFINE st == result[i].status
<1>1. st \in Decisions
  BY KnownIntents DEF IntentInv, Projectable
<1>2. RowState[st] \in {"committed", "rolled_back", "failed"}
      /\ OldProjection[st] \in Projections /\ NewProjection[st] \in Projections
  BY <1>1 DEF Decisions, RowState, OldProjection, NewProjection, Projections
<1>3. PICK t \in {"committed", "rolled_back", "failed"}, o \in Projections, n \in Projections :
         t = RowState[st] /\ o = OldProjection[st] /\ n = NewProjection[st]
  BY <1>2
<1>4. CASE row[i] = "pending"
  <2>1. /\ row' = [row EXCEPT ![i] = t]
        /\ projection' = [projection EXCEPT ![intents[i].base.gen] = o, ![intents[i].target] = n]
    BY <1>3, <1>4 DEF Project
  <2> QED BY <2>1 DEF TypeOK
<1>5. CASE row[i] # "pending"
  BY <1>5 DEF Project, TypeOK
<1> QED BY <1>4, <1>5

-----------------------------------------------------------------------------
(* The coordinator, the files and time                                     *)

Control ==
    \/ Coordinator
    \/ \E i \in Known : FileSteps(i) \/ CoordinatorDies(i) \/ Expire(i)

\* What they leave alone, and that they only add intents.
LEMMA ControlFrame ==
    ASSUME TypeOK, IntentInv, Control
    PROVE  /\ UNCHANGED <<runtimes, lock, ack, result, web, mnt, child>>
           /\ faults'["maintenance"] = faults["maintenance"]
           /\ Known \subseteq Known' /\ \A i \in Known : intents'[i] = intents[i]
           /\ \A i \in Known : file[i] = "written" => file'[i] = "written"
           /\ TypeOK' /\ IntentInv'
<1> USE DEF Control, Coordinator, FileSteps
<1>1. UNCHANGED <<runtimes, lock, ack, result, web, mnt, child>>
  BY DEF Prepare, CreateIntent, RefuseIntent, WriteIntent, WriteIntentFails, CoordinatorDies,
         Expire, control, bounds
<1>2. Known \subseteq Ids /\ intents \in Seq(Intent) /\ Len(intents) \in Nat
  BY KnownIntents DEF TypeOK
<1>3. faults' \in [FaultKinds -> 0..MaxFaults] /\ faults'["maintenance"] = faults["maintenance"]
  <2>1. ASSUME NEW k \in {"coordinator", "expiry"}, Strike(k)
        PROVE  faults' \in [FaultKinds -> 0..MaxFaults]
               /\ faults'["maintenance"] = faults["maintenance"]
    BY <2>1, StrikeTypes DEF FaultKinds
  <2>2. CASE faults' = faults
    BY <2>2 DEF TypeOK
  <2>3. CASE \E i \in Known : CoordinatorDies(i) \/ Expire(i)
    BY <2>1, <2>3 DEF CoordinatorDies, Expire
  <2> QED BY <2>2, <2>3
          DEF Prepare, CreateIntent, RefuseIntent, WriteIntent, WriteIntentFails, bounds
<1>4. /\ file' \in [Ids -> {"none", "writing", "written", "lost"}]
      /\ row' \in [Ids -> {"absent", "pending", "committed", "rolled_back", "failed"}]
      /\ projection' \in [Gens -> Projections]
  BY DEF TypeOK, Prepare, CreateIntent, RefuseIntent, WriteIntent, WriteIntentFails,
         CoordinatorDies, Expire, control, bounds, Projections
<1>5. ASSUME NEW i \in Known, file[i] = "written"
       PROVE  file'[i] = "written"
  BY <1>2, <1>5 DEF TypeOK, Prepare, CreateIntent, RefuseIntent, WriteIntent, WriteIntentFails,
                     CoordinatorDies, Expire, control, Known
<1>6. CASE UNCHANGED <<drafts, intents>>
  <2>1. expired' \subseteq Known
    BY <1>6 DEF TypeOK, Prepare, CreateIntent, RefuseIntent, WriteIntent, WriteIntentFails,
                CoordinatorDies, Expire, bounds
  <2>2. TypeOK' /\ IntentInv'
    BY <1>1, <1>3, <1>4, <1>6, <2>1 DEF TypeOK, IntentInv, Known, Decided, runtimes
  <2> QED BY <1>1, <1>3, <1>6, <1>5, <2>2 DEF Known
<1>7. IsFiniteSet(drafts) /\ Cardinality(drafts) \in Nat /\ MaxIntents \in Nat
      /\ Cardinality(drafts) + Len(intents) <= MaxIntents /\ Len(intents) <= MaxIntents
  BY BoundsAssumption, FS_CardinalityType DEF IntentInv, TypeOK
<1>8. ASSUME UNCHANGED <<intents, expired>>, drafts' \subseteq Intent,
             \A d \in drafts' : d.target # d.base.gen,
             IsFiniteSet(drafts'), Cardinality(drafts') + Len(intents) <= MaxIntents
      PROVE  TypeOK' /\ IntentInv'
  BY <1>1, <1>3, <1>4, <1>8 DEF TypeOK, IntentInv, Known, Decided, runtimes
<1>9. CASE \E d \in [mode : {"activate", "rollback"}, target : Gens, base : {active}, rb : {previous}] :
              Prepare(d)
  <2>1. PICK d \in [mode : {"activate", "rollback"}, target : Gens, base : {active}, rb : {previous}] :
           Prepare(d)
    BY <1>9
  <2>2. d \in Intent /\ d.target # d.base.gen
    BY <2>1 DEF TypeOK, Intent, Prepare
  <2>3. drafts' = drafts \cup {d} /\ UNCHANGED <<intents, expired>>
        /\ Cardinality(drafts) + Len(intents) < MaxIntents
    BY <2>1 DEF Prepare, bounds
  <2>4. IsFiniteSet(drafts') /\ Cardinality(drafts') \in {Cardinality(drafts), Cardinality(drafts) + 1}
    BY <1>7, <2>3, FS_AddElement
  <2>5. drafts' \subseteq Intent /\ \A e \in drafts' : e.target # e.base.gen
    BY <2>2, <2>3 DEF TypeOK, IntentInv
  <2>6. Cardinality(drafts') + Len(intents) <= MaxIntents
    BY <1>2, <1>7, <2>3, <2>4
  <2> QED BY <1>1, <1>3, <1>8, <1>5, <2>3, <2>4, <2>5, <2>6 DEF Known
<1>10. CASE \E d \in drafts : RefuseIntent(d)
  <2>1. PICK d \in drafts : RefuseIntent(d)
    BY <1>10
  <2>2. drafts' = drafts \ {d} /\ UNCHANGED <<intents, expired>>
    BY <2>1 DEF RefuseIntent, bounds
  <2>3. IsFiniteSet(drafts') /\ Cardinality(drafts') = Cardinality(drafts) - 1
    BY <1>7, <2>1, <2>2, FS_RemoveElement
  <2>4. drafts' \subseteq Intent /\ \A e \in drafts' : e.target # e.base.gen
    BY <2>2 DEF TypeOK, IntentInv
  <2>5. Cardinality(drafts') + Len(intents) <= MaxIntents
    BY <1>2, <1>7, <2>3
  <2> QED BY <1>1, <1>3, <1>8, <1>5, <2>2, <2>3, <2>4, <2>5 DEF Known
<1>11. CASE \E d \in drafts : CreateIntent(d)
  <2>1. PICK d \in drafts : CreateIntent(d)
    BY <1>11
  <2>2. drafts' = drafts \ {d} /\ intents' = Append(intents, d) /\ expired' = expired
    BY <2>1 DEF CreateIntent, bounds
  <2>3. IsFiniteSet(drafts') /\ Cardinality(drafts') = Cardinality(drafts) - 1
        /\ Cardinality(drafts') \in Nat
    BY <1>7, <2>1, <2>2, FS_RemoveElement, FS_CardinalityType
  <2>4. drafts' \subseteq Intent /\ \A e \in drafts' : e.target # e.base.gen
    BY <2>2 DEF TypeOK, IntentInv
  <2>5. d \in Intent /\ d.target # d.base.gen
    BY DEF TypeOK, IntentInv
  <2>6. /\ intents' \in Seq(Intent) /\ Len(intents') = Len(intents) + 1
        /\ intents'[Len(intents) + 1] = d /\ \A i \in Known : intents'[i] = intents[i]
    BY <1>2, <2>2, <2>5 DEF Known
  <2>7. Known' = Known \cup {Len(intents) + 1} /\ Known \subseteq Known'
    BY <1>2, <2>6 DEF Known
  <2>8. Cardinality(drafts') + Len(intents') <= MaxIntents /\ Len(intents') <= MaxIntents
    BY <1>2, <1>7, <2>3, <2>6
  <2>9. \A i \in Known' : intents'[i].target # intents'[i].base.gen
    BY <2>5, <2>6, <2>7 DEF IntentInv
  <2>10. IntentInv'
    BY <1>1, <2>3, <2>4, <2>8, <2>9 DEF IntentInv, Decided
  <2>11. TypeOK'
    <3>1. /\ lock' \in {NoIntent, Blank} \cup Known' /\ expired' \subseteq Known'
          /\ web' \in [pc: WebPCs, intent: {NoIntent} \cup Known', recovering: BOOLEAN]
          /\ mnt' \in [pc: {"down", "boot", "idle"} \cup {Answer[a] : a \in DOMAIN Answer},
                       seen: Gens \cup {NoGen}, paused: {NoIntent} \cup Known']
      BY <1>1, <2>2, <2>7 DEF TypeOK
    <3> QED BY <1>1, <1>3, <1>4, <2>4, <2>6, <2>8, <3>1 DEF TypeOK, runtimes
  <2> QED BY <1>1, <1>3, <1>5, <2>6, <2>7, <2>10, <2>11
<1> QED BY <1>6, <1>9, <1>10, <1>11
        DEF WriteIntent, WriteIntentFails, CoordinatorDies, Expire, control

\* They move no supervisor, so that all that is known of both stays.
LEMMA ControlStep ==
    ASSUME IInv, Control
    PROVE  IInv'
<1> USE DEF IInv
<1>1. /\ UNCHANGED <<runtimes, lock, ack, result, web, mnt, child>>
      /\ faults'["maintenance"] = faults["maintenance"]
      /\ Known \subseteq Known' /\ \A i \in Known : intents'[i] = intents[i]
      /\ \A i \in Known : file[i] = "written" => file'[i] = "written"
      /\ TypeOK' /\ IntentInv'
  BY ControlFrame
<1>2. web.intent # NoIntent => web.intent \in Known
  BY DEF TypeOK
<1>3. web.pc \in OnBase \cup OnTarget \cup {"nameRecovery", "recover"} => web.intent \in Known
  BY <1>2 DEF TypeOK, OnBase, OnTarget, Ahead
<1>4. WebInv'
  BY <1>1, <1>3 DEF WebInv, Working, Decided, Moved, runtimes
<1>5. AckInv'
  BY <1>1 DEF AckInv, Decided, runtimes
<1>6. MntNeverDied' = MntNeverDied
  BY <1>1 DEF MntNeverDied
<1>7. HeldInv /\ ReliedInv => HeldInv' /\ ReliedInv'
  BY <1>1 DEF HeldInv, ReliedInv, Decided, runtimes
<1>8. AnswerInv'
  BY <1>1 DEF AnswerInv
<1> QED BY <1>1, <1>4, <1>5, <1>6, <1>7, <1>8
-----------------------------------------------------------------------------
(* The steps of the web supervisor                                         *)

WebMoves == WebSteps \/ WebDies

\* The web supervisor changes nothing of the other one, of its
\* acknowledgements or of the intents.
WebFrame ==
    /\ UNCHANGED <<mnt, drafts, intents, file, expired>>
    /\ faults'["maintenance"] = faults["maintenance"]
    /\ child'["maintenance"] = child["maintenance"]
    /\ \A i \in Ids : ack'[i]["maintenance"] = ack[i]["maintenance"]

\* What it says of an intent never goes back behind the switch, behind the
\* beginning of the rollback, or behind the switch back.
AcksAdvance ==
    \A i \in Ids : \A S \in {Started, Switched, Undoing} :
        ack'[i]["web"] \in S => ack[i]["web"] \in S

DecisionsStay == \A i \in Ids : Decided(i) => Decided(i)'

\* Its pointer moves only while the job worker is held and stopped.
PointerHeld ==
    active' # active => /\ mnt.paused # NoIntent
                        /\ ack[mnt.paused]["maintenance"] \in Stopped

\* What is known of the maintenance supervisor stays, whatever the web
\* supervisor says, as long as the pointer moves only while it is stopped.
LEMMA WebKeepsHeld ==
    ASSUME TypeOK, AnswerInv, HeldInv, WebFrame, DecisionsStay, PointerHeld,
           \A i \in Ids : ack'[i]["web"] = "rollback_pointer_switched" =>
               \/ ack[i]["web"] = "rollback_pointer_switched"
               \/ ack[i]["maintenance"] = "rollback_quiesced"
    PROVE  HeldInv'
<1>1. mnt.paused # NoIntent => mnt.paused \in Ids
  BY KnownIntents DEF TypeOK
<1>2. active' = active \/ (mnt.paused # NoIntent /\ child["maintenance"] = NoGen)
  BY DEF HeldInv, PointerHeld
<1>3. \A i \in Ids : ~Decided(i)' /\ ack'[i]["maintenance"] # "none" => mnt.paused = i
  BY DEF HeldInv, DecisionsStay, WebFrame
<1>4. child'["maintenance"] \in {NoGen, active'.gen}
  BY <1>2 DEF HeldInv, WebFrame
<1>5. mnt.paused # NoIntent =>
         /\ mnt.pc \notin {"down", "boot"}
         /\ ack'[mnt.paused]["maintenance"] \in Stopped \cup Running
         /\ ack'[mnt.paused]["maintenance"] \in Stopped => child'["maintenance"] = NoGen
         /\ ack'[mnt.paused]["maintenance"] \in Running => child'["maintenance"] = active'.gen
  BY <1>1 DEF HeldInv, WebFrame, PointerHeld, Stopped, Running
<1>6. mnt.pc = "boot" => mnt.seen = active'.gen
  BY <1>2 DEF HeldInv
<1>7. \A i \in Ids : ack'[i]["web"] = "rollback_pointer_switched" =>
         ack'[i]["maintenance"] \in {"rollback_quiesced", "rollback_started", "reconciled"}
  BY DEF HeldInv, WebFrame
<1>8. UNCHANGED mnt
  BY DEF WebFrame
<1>9. /\ mnt.pc = "target_started" => ack'[mnt.paused]["maintenance"] = "quiesced"
      /\ mnt.pc = "rollback_quiesced" =>
            ack'[mnt.paused]["maintenance"] \in {"quiesced", "target_started"}
      /\ mnt.pc = "rollback_started" => ack'[mnt.paused]["maintenance"] = "rollback_quiesced"
  BY <1>1 DEF HeldInv, AnswerInv, WebFrame
<1> QED BY <1>3, <1>4, <1>5, <1>6, <1>7, <1>8, <1>9 DEF HeldInv

\* What the maintenance supervisor is about to say stays an answer.
LEMMA WebKeepsAnswer ==
    ASSUME TypeOK, AnswerInv, WebFrame, AcksAdvance
    PROVE  AnswerInv'
<1>1. mnt.paused # NoIntent => mnt.paused \in Ids
  BY KnownIntents DEF TypeOK
<1>2. \A i \in Ids : /\ ack[i]["web"] \notin Started => ack'[i]["web"] \notin Started
                     /\ ack[i]["web"] \notin Switched => ack'[i]["web"] \notin Switched
                     /\ ack[i]["web"] \notin Undoing => ack'[i]["web"] \notin Undoing
  BY DEF AcksAdvance
<1> QED BY <1>1, <1>2 DEF AnswerInv, WebFrame

\* What is known of the acknowledgements stays, if an intent whose pointer is
\* switched back still has its pointer.
LEMMA WebKeepsAcks ==
    ASSUME TypeOK, AckInv, WebFrame, AcksAdvance, DecisionsStay,
           \A i \in Ids : ~Decided(i)' =>
               ack'[i]["web"] \in Undoing \cup {"rollback_pointer_switched"},
           \A i \in Ids : ack'[i]["web"] = "rollback_pointer_switched" /\ ~Decided(i)' =>
               i \in Known /\ file[i] = "written" /\ active' = intents[i].base
    PROVE  AckInv'
<1>1. intents' = intents /\ file' = file /\ Known' = Known
  BY DEF WebFrame, Known
<1>2. ASSUME NEW i \in Ids
      PROVE  /\ ack'[i]["maintenance"] = "target_started" => ack'[i]["web"] \notin Started
             /\ ack'[i]["maintenance"] = "rollback_quiesced" => ack'[i]["web"] \notin Switched
             /\ ack'[i]["maintenance"] = "rollback_started" => ack'[i]["web"] \notin Undoing
  BY DEF AckInv, WebFrame, AcksAdvance
<1> QED BY <1>1, <1>2 DEF AckInv

\* At a step of the cutover or of the rollback the intent is known.
LEMMA AtWork ==
    ASSUME TypeOK, Working
    PROVE  web.intent \in Known /\ web.intent \in Ids /\ web.intent # NoIntent
BY KnownIntents DEF TypeOK, Working

\* The web supervisor goes on with its intent, or leaves it.
LEMMA WebGoes ==
    ASSUME TypeOK, UNCHANGED intents,
           \/ Working /\ \E l \in WebPCs \ {"down", "idle"} : Goto(l)
           \/ web' = Leave \/ web' = [Leave EXCEPT !.pc = "down"]
           \/ \E i \in Known, l \in WebPCs \ {"down", "idle"}, b \in BOOLEAN :
                 web' = [pc |-> l, intent |-> i, recovering |-> b]
    PROVE  /\ web' \in [pc: WebPCs, intent: {NoIntent} \cup Known', recovering: BOOLEAN]
           /\ web'.pc \notin {"down", "idle"} <=> web'.intent # NoIntent
<1>1. Known' = Known
  BY DEF Known
<1>2. CASE Working /\ \E l \in WebPCs \ {"down", "idle"} : Goto(l)
  <2>1. PICK l \in WebPCs \ {"down", "idle"} : web' = [web EXCEPT !.pc = l]
    BY <1>2 DEF Goto
  <2>2. /\ web \in [pc: WebPCs, intent: {NoIntent} \cup Known, recovering: BOOLEAN]
        /\ web.intent # NoIntent
    BY <1>2 DEF TypeOK, Working
  <2>3. web' \in [pc: WebPCs, intent: {NoIntent} \cup Known, recovering: BOOLEAN]
    BY <2>1, <2>2
  <2>4. web'.pc = l /\ web'.intent = web.intent
    BY <2>1, <2>2
  <2> QED BY <1>1, <2>2, <2>3, <2>4
<1>3. CASE web' = Leave \/ web' = [Leave EXCEPT !.pc = "down"]
  <2>1. \E l \in {"down", "idle"} :
           web' = [pc |-> l, intent |-> NoIntent, recovering |-> FALSE]
    BY <1>3 DEF Leave
  <2> QED BY <1>1, <2>1 DEF WebPCs
<1>4. CASE \E i \in Known, l \in WebPCs \ {"down", "idle"}, b \in BOOLEAN :
             web' = [pc |-> l, intent |-> i, recovering |-> b]
  BY <1>1, <1>4, KnownIntents
<1> QED BY <1>2, <1>3, <1>4

\* Steps of the web supervisor by what they find: no cutover under way of its own ...
WebIdles ==
    \/ WebBoot \/ WebExits \/ WebDies \/ BeginRecovery \/ RefuseMoved \/ Refuse
    \/ \E i \in Known : \/ WebSettles(i) \/ ClaimRecoveryLock(i) \/ RefuseRollback(i)
                        \/ MutableTargetRaises(i) \/ BeginCutover(i)
\* ... a cutover ...
WebCuts ==
    \/ TakeLock \/ NameLock \/ FreezeOld \/ SavePrevious \/ SwitchPointer \/ ThawTarget
    \/ VerifyTarget \/ Announce \/ AwaitStarted \/ DecideCommit
\* ... or its end.
WebEnds ==
    \/ Undo \/ AwaitQuiesced \/ FreezeTarget \/ RestorePointer \/ ThawOld
    \/ AwaitRestarted \/ DecideRollback \/ GiveUp \/ ReconcileOwn \/ ReleaseLock

\* The web supervisor keeps the types.
LEMMA WebTypes ==
    ASSUME TypeOK, IntentInv, WebIdles \/ WebCuts \/ WebEnds
    PROVE  TypeOK'
<1> USE DEF WebIdles, WebCuts, WebEnds
<1>1. UNCHANGED <<mnt, drafts, intents, file, expired>>
  BY DEF WebBoot, WebExits, WebDies, WebSettles, ClaimRecoveryLock, BeginRecovery, RefuseMoved,
         Refuse, RefuseRollback, MutableTargetRaises, BeginCutover, TakeLock, NameLock,
         FreezeOld, SavePrevious, SwitchPointer, ThawTarget, VerifyTarget, Announce,
         AwaitStarted, DecideCommit, Undo, AwaitQuiesced, FreezeTarget, RestorePointer, ThawOld,
         AwaitRestarted, DecideRollback, GiveUp, ReconcileOwn, ReleaseLock, control, bounds
<1>2. /\ web' \in [pc: WebPCs, intent: {NoIntent} \cup Known', recovering: BOOLEAN]
      /\ web'.pc \notin {"down", "idle"} <=> web'.intent # NoIntent
  <2>1. CASE WebIdles
    <3>1. \/ web' = web \/ web' = Leave \/ web' = [Leave EXCEPT !.pc = "down"]
          \/ Working /\ (Goto("awaitQuiesced") \/ Goto("refuse"))
          \/ \E i \in Known, l \in {"lock", "nameRecovery", "recover"}, b \in BOOLEAN :
                web' = [pc |-> l, intent |-> i, recovering |-> b]
      BY <2>1 DEF WebBoot, WebExits, WebDies, WebSettles, ClaimRecoveryLock, BeginRecovery,
                  RefuseMoved, Refuse, RefuseRollback, MutableTargetRaises, BeginCutover, WebAt,
                  Working
    <3>2. CASE web' = web
      BY <1>1, <3>2 DEF TypeOK, Known
    <3> QED BY <1>1, <3>1, <3>2, WebGoes DEF WebPCs, Cutover, Rollback, Claiming
  <2>2. CASE WebCuts
    <3>1. \/ web' = Leave
          \/ Working /\ \E l \in Cutover \cup {"recover", "undo", "reconcile"} : Goto(l)
      BY <2>2 DEF TakeLock, NameLock, FreezeOld, SavePrevious, SwitchPointer, ThawTarget,
                  VerifyTarget, Announce, AwaitStarted, DecideCommit, WebAt, Working, Cutover
    <3> QED BY <1>1, <3>1, WebGoes DEF WebPCs, Cutover, Rollback, Claiming
  <2>3. CASE WebEnds
    <3>1. \/ web' = Leave
          \/ /\ Working
             /\ \E l \in Rollback \cup {"giveUp", "refuse", "reconcile", "release"} : Goto(l)
      BY <2>3 DEF Undo, AwaitQuiesced, FreezeTarget, RestorePointer, ThawOld, AwaitRestarted,
                  DecideRollback, GiveUp, ReconcileOwn, ReleaseLock, WebAt, Working, Rollback
    <3> QED BY <1>1, <3>1, WebGoes DEF WebPCs, Cutover, Rollback, Claiming
  <2> QED BY <2>1, <2>2, <2>3
<1>3. Known' = Known /\ (Working => web.intent \in Known /\ web.intent \in Ids)
  BY <1>1, AtWork DEF Known
<1>4. active' \in Pointer /\ previous' \in Pointer /\ writable' \subseteq Gens
  <2>1. active \in Pointer /\ previous \in Pointer /\ writable \subseteq Gens /\ active.gen \in Gens
    BY DEF TypeOK, Pointer
  <2>2. CASE SwitchPointer
    <3>1. web.intent \in Known /\ intents[web.intent].target \in Gens /\ web.intent \in Ids
      BY <1>3, <2>2, KnownIntents DEF SwitchPointer, WebAt, Working
    <3> QED BY <2>1, <2>2, <3>1 DEF SwitchPointer, Pointer, Ids
  <2>3. CASE RestorePointer
    <3>1. web.intent \in Known /\ intents[web.intent].base \in Pointer
      BY <1>3, <2>3, KnownIntents DEF RestorePointer, WebAt, Working
    <3> QED BY <2>1, <2>3, <3>1 DEF RestorePointer
  <2>4. CASE WebBoot \/ FreezeOld \/ SavePrevious \/ ThawTarget \/ FreezeTarget \/ ThawOld
    BY <2>1, <2>4 DEF WebBoot, FreezeOld, SavePrevious, ThawTarget, FreezeTarget, ThawOld,
                      SetWritable
  <2>5. CASE UNCHANGED runtimes
    BY <2>1, <2>5 DEF runtimes
  <2> QED BY <2>2, <2>3, <2>4, <2>5
          DEF WebExits, WebDies, WebSettles, ClaimRecoveryLock, BeginRecovery, RefuseMoved,
              Refuse, RefuseRollback, MutableTargetRaises, BeginCutover, TakeLock, NameLock,
              VerifyTarget, Announce, AwaitStarted, DecideCommit, Undo, AwaitQuiesced,
              AwaitRestarted, DecideRollback, GiveUp, ReconcileOwn, ReleaseLock
<1>5. lock' \in {NoIntent, Blank} \cup Known'
  <2>1. lock' \in {lock, NoIntent, Blank, web.intent} \cup Known
    BY DEF WebBoot, WebExits, WebDies, WebSettles, ClaimRecoveryLock, BeginRecovery,
           RefuseMoved, Refuse, RefuseRollback, MutableTargetRaises, BeginCutover, TakeLock,
           NameLock, FreezeOld, SavePrevious, SwitchPointer, ThawTarget, VerifyTarget, Announce,
           AwaitStarted, DecideCommit, Undo, AwaitQuiesced, FreezeTarget, RestorePointer,
           ThawOld, AwaitRestarted, DecideRollback, GiveUp, ReconcileOwn, ReleaseLock
  <2> QED BY <1>3, <2>1 DEF TypeOK
<1>6. ack' \in [Ids -> [Supervisors -> Acks]]
  <2>1. \/ ack' = ack
        \/ \E i \in Ids, s \in Acks : WriteAck(i, "web", s)
    BY <1>3, KnownIntents
    DEF WebBoot, WebExits, WebDies, WebSettles, ClaimRecoveryLock, BeginRecovery, RefuseMoved,
        Refuse, RefuseRollback, MutableTargetRaises, BeginCutover, TakeLock, NameLock,
        FreezeOld, SavePrevious, SwitchPointer, ThawTarget, VerifyTarget, Announce,
        AwaitStarted, DecideCommit, Undo, AwaitQuiesced, FreezeTarget, RestorePointer, ThawOld,
        AwaitRestarted, DecideRollback, GiveUp, ReconcileOwn, ReleaseLock, Reconcile, WebAt,
        Working, Acks
  <2>2. ASSUME NEW i \in Ids, NEW s \in Acks, WriteAck(i, "web", s)
        PROVE  ack' \in [Ids -> [Supervisors -> Acks]]
    BY <2>2 DEF TypeOK, WriteAck, Supervisors
  <2> QED BY <2>1, <2>2 DEF TypeOK
<1>7. result' \in [Ids -> [status: Decisions \cup {"none"}, pointer: Pointer]]
  <2>1. \/ result' = result
        \/ \E i \in Ids, s \in Decisions : WriteResult(i, s)
    BY <1>3, KnownIntents
    DEF WebBoot, WebExits, WebDies, WebSettles, ClaimRecoveryLock, BeginRecovery, RefuseMoved,
        Refuse, RefuseRollback, MutableTargetRaises, BeginCutover, TakeLock, NameLock,
        FreezeOld, SavePrevious, SwitchPointer, ThawTarget, VerifyTarget, Announce,
        AwaitStarted, DecideCommit, Undo, AwaitQuiesced, FreezeTarget, RestorePointer, ThawOld,
        AwaitRestarted, DecideRollback, GiveUp, ReconcileOwn, ReleaseLock, WebAt, Working,
        Decisions
  <2>2. ASSUME NEW i \in Ids, NEW s \in Decisions, WriteResult(i, s)
        PROVE  result' \in [Ids -> [status: Decisions \cup {"none"}, pointer: Pointer]]
    BY <2>2 DEF TypeOK, WriteResult
  <2> QED BY <2>1, <2>2 DEF TypeOK
<1>8. child' \in [Supervisors -> Gens \cup {NoGen}]
  <2>1. child' = child \/ StartChild("web") \/ StopChild("web")
    BY DEF WebBoot, WebExits, WebDies, WebSettles, ClaimRecoveryLock, BeginRecovery,
           RefuseMoved, Refuse, RefuseRollback, MutableTargetRaises, BeginCutover, TakeLock,
           NameLock, FreezeOld, SavePrevious, SwitchPointer, ThawTarget, VerifyTarget, Announce,
           AwaitStarted, DecideCommit, Undo, AwaitQuiesced, FreezeTarget, RestorePointer,
           ThawOld, AwaitRestarted, DecideRollback, GiveUp, ReconcileOwn, ReleaseLock
  <2>2. child \in [Supervisors -> Gens \cup {NoGen}] /\ active.gen \in Gens
    BY DEF TypeOK, Pointer
  <2>3. CASE StartChild("web")
    BY <2>2, <2>3 DEF StartChild, Supervisors
  <2>4. CASE StopChild("web")
    BY <2>2, <2>4 DEF StopChild, Supervisors
  <2> QED BY <2>1, <2>2, <2>3, <2>4
<1>9. /\ row' \in [Ids -> {"absent", "pending", "committed", "rolled_back", "failed"}]
      /\ projection' \in [Gens -> Projections]
  <2>1. UNCHANGED <<row, projection>> \/ \E i \in Known : Projectable(i) /\ Project(i)
    BY <1>3 DEF WebBoot, WebExits, WebDies, WebSettles, ClaimRecoveryLock, BeginRecovery,
           RefuseMoved, Refuse, RefuseRollback, MutableTargetRaises, BeginCutover, TakeLock,
           NameLock, FreezeOld, SavePrevious, SwitchPointer, ThawTarget, VerifyTarget, Announce,
           AwaitStarted, DecideCommit, Undo, AwaitQuiesced, FreezeTarget, RestorePointer,
           ThawOld, AwaitRestarted, DecideRollback, GiveUp, ReconcileOwn, ReleaseLock,
           Reconcile, control, WebAt, Working
  <2> QED BY <2>1, ProjectTypes DEF TypeOK
<1>10. faults' \in [FaultKinds -> 0..MaxFaults]
  <2>1. CASE WebDies
    BY <2>1, StrikeTypes DEF WebDies, Supervisors, FaultKinds
  <2>2. CASE faults' = faults
    BY <2>2 DEF TypeOK
  <2> QED BY <2>1, <2>2
          DEF WebBoot, WebExits, WebSettles, ClaimRecoveryLock, BeginRecovery, RefuseMoved,
              Refuse, RefuseRollback, MutableTargetRaises, BeginCutover, TakeLock, NameLock,
              FreezeOld, SavePrevious, SwitchPointer, ThawTarget, VerifyTarget, Announce,
              AwaitStarted, DecideCommit, Undo, AwaitQuiesced, FreezeTarget, RestorePointer,
              ThawOld, AwaitRestarted, DecideRollback, GiveUp, ReconcileOwn, ReleaseLock, bounds
<1> QED BY <1>1, <1>2, <1>3, <1>4, <1>5, <1>6, <1>7, <1>8, <1>9, <1>10 DEF TypeOK

\* What the steps of the web supervisor have in common.
LEMMA WebCommon ==
    ASSUME TypeOK, IntentInv, WebIdles \/ WebCuts \/ WebEnds
    PROVE  TypeOK' /\ WebFrame /\ Known' = Known
<1> USE DEF WebIdles, WebCuts, WebEnds
<1>1. UNCHANGED <<mnt, drafts, intents, file, expired>>
  BY DEF WebBoot, WebExits, WebDies, WebSettles, ClaimRecoveryLock, BeginRecovery, RefuseMoved,
         Refuse, RefuseRollback, MutableTargetRaises, BeginCutover, TakeLock, NameLock,
         FreezeOld, SavePrevious, SwitchPointer, ThawTarget, VerifyTarget, Announce,
         AwaitStarted, DecideCommit, Undo, AwaitQuiesced, FreezeTarget, RestorePointer, ThawOld,
         AwaitRestarted, DecideRollback, GiveUp, ReconcileOwn, ReleaseLock, control, bounds
<1>2. faults'["maintenance"] = faults["maintenance"]
  <2>1. CASE WebDies
    BY <2>1, StrikeTypes DEF WebDies, Supervisors, FaultKinds
  <2>2. CASE faults' = faults
    BY <2>2
  <2> QED BY <2>1, <2>2
          DEF WebBoot, WebExits, WebSettles, ClaimRecoveryLock, BeginRecovery, RefuseMoved,
              Refuse, RefuseRollback, MutableTargetRaises, BeginCutover, TakeLock, NameLock,
              FreezeOld, SavePrevious, SwitchPointer, ThawTarget, VerifyTarget, Announce,
              AwaitStarted, DecideCommit, Undo, AwaitQuiesced, FreezeTarget, RestorePointer,
              ThawOld, AwaitRestarted, DecideRollback, GiveUp, ReconcileOwn, ReleaseLock, bounds
<1>3. child'["maintenance"] = child["maintenance"]
  <2>1. child' = child \/ StartChild("web") \/ StopChild("web")
    BY DEF WebBoot, WebExits, WebDies, WebSettles, ClaimRecoveryLock, BeginRecovery,
           RefuseMoved, Refuse, RefuseRollback, MutableTargetRaises, BeginCutover, TakeLock,
           NameLock, FreezeOld, SavePrevious, SwitchPointer, ThawTarget, VerifyTarget, Announce,
           AwaitStarted, DecideCommit, Undo, AwaitQuiesced, FreezeTarget, RestorePointer,
           ThawOld, AwaitRestarted, DecideRollback, GiveUp, ReconcileOwn, ReleaseLock
  <2> QED BY <2>1 DEF TypeOK, StartChild, StopChild, Supervisors
<1>4. \A i \in Ids : ack'[i]["maintenance"] = ack[i]["maintenance"]
  <2>1. ack' = ack \/ \E i \in Ids, s \in Acks : WriteAck(i, "web", s)
    BY AtWork, KnownIntents
    DEF WebBoot, WebExits, WebDies, WebSettles, ClaimRecoveryLock, BeginRecovery, RefuseMoved,
        Refuse, RefuseRollback, MutableTargetRaises, BeginCutover, TakeLock, NameLock,
        FreezeOld, SavePrevious, SwitchPointer, ThawTarget, VerifyTarget, Announce,
        AwaitStarted, DecideCommit, Undo, AwaitQuiesced, FreezeTarget, RestorePointer, ThawOld,
        AwaitRestarted, DecideRollback, GiveUp, ReconcileOwn, ReleaseLock, Reconcile, WebAt,
        Working, Acks
  <2> QED BY <2>1 DEF TypeOK, WriteAck, Supervisors
<1> QED BY <1>1, <1>2, <1>3, <1>4, WebTypes DEF WebFrame, Known

\* What a step of the web supervisor has to show for the invariant to stay.
LEMMA WebKeeps ==
    ASSUME IInv, WebIdles \/ WebCuts \/ WebEnds,
           IntentInv', AcksAdvance, DecisionsStay, WebInv',
           \A i \in Ids : ~Decided(i)' =>
               ack'[i]["web"] \in Undoing \cup {"rollback_pointer_switched"},
           \A i \in Ids : ack'[i]["web"] = "rollback_pointer_switched" /\ ~Decided(i)' =>
               i \in Known /\ file[i] = "written" /\ active' = intents[i].base,
           MntNeverDied =>
               /\ PointerHeld /\ ReliedInv'
               /\ \A i \in Ids : ack'[i]["web"] = "rollback_pointer_switched" =>
                      \/ ack[i]["web"] = "rollback_pointer_switched"
                      \/ ack[i]["maintenance"] = "rollback_quiesced"
    PROVE  IInv'
<1>1. TypeOK /\ IntentInv /\ AckInv /\ AnswerInv /\ (MntNeverDied => HeldInv /\ ReliedInv)
  BY DEF IInv
<1>2. TypeOK' /\ WebFrame
  BY <1>1, WebCommon
<1>3. AckInv'
  BY <1>1, <1>2, WebKeepsAcks
<1>4. MntNeverDied => HeldInv'
  BY <1>1, <1>2, WebKeepsHeld
<1>5. MntNeverDied' = MntNeverDied
  BY <1>2 DEF WebFrame, MntNeverDied
<1>6. AnswerInv'
  BY <1>1, <1>2, WebKeepsAnswer
<1> QED BY <1>2, <1>3, <1>4, <1>5, <1>6 DEF IInv

\* A step that says and decides nothing.
LEMMA WebKeepsQuietly ==
    ASSUME IInv, WebIdles \/ WebCuts \/ WebEnds, UNCHANGED <<ack, result>>, WebInv',
           \A i \in Known : ack[i]["web"] = "rollback_pointer_switched" /\ ~Decided(i)
                            /\ file[i] = "written" => active' = active,
           MntNeverDied => PointerHeld /\ ReliedInv'
    PROVE  IInv'
<1>1. TypeOK /\ IntentInv /\ AckInv
  BY DEF IInv
<1>2. WebFrame
  BY <1>1, WebCommon
<1>3. IntentInv' /\ AcksAdvance /\ DecisionsStay
  BY <1>1, <1>2 DEF IntentInv, AcksAdvance, DecisionsStay, Decided, WebFrame, Known
<1>4. \A i \in Ids : ~Decided(i)' =>
         ack'[i]["web"] \in Undoing \cup {"rollback_pointer_switched"}
  BY <1>1 DEF AckInv, Decided
<1>5. \A i \in Ids : ack'[i]["web"] = "rollback_pointer_switched" /\ ~Decided(i)' =>
         i \in Known /\ file[i] = "written" /\ active' = intents[i].base
  BY <1>1 DEF AckInv, Decided
<1> QED BY <1>3, <1>4, <1>5, WebKeeps

\* Without an intent little is to be shown of the web supervisor.
LEMMA WebAtRest ==
    ASSUME web'.pc \in {"down", "idle"}
    PROVE  /\ child'["web"] \in {NoGen, active'.gen} => WebInv'
           /\ writable' \subseteq {active'.gen} => ReliedInv'
BY DEF WebInv, ReliedInv, Working, OnBase, OnTarget, Ahead, Childless, Serving, Preparing,
       Restoring

\* The web supervisor starts, or is gone.
LEMMA WebRestarts ==
    ASSUME IInv, \/ WebBoot \/ WebExits \/ WebDies
                 \/ \E i \in Known : MutableTargetRaises(i)
    PROVE  IInv'
<1>1. TypeOK /\ WebInv /\ (MntNeverDied => ReliedInv)
  BY DEF IInv
<1>2. WebIdles
  BY DEF WebIdles
<1>3. UNCHANGED <<ack, result>> /\ UNCHANGED <<active, lock>>
  BY DEF WebBoot, WebExits, WebDies, MutableTargetRaises, runtimes
<1>4. web'.pc \in {"down", "idle"}
  BY DEF WebBoot, WebExits, WebDies, MutableTargetRaises, Leave
<1>5. child'["web"] \in {NoGen, active.gen}
  BY <1>1 DEF WebInv, TypeOK, Supervisors, WebBoot, WebExits, WebDies, MutableTargetRaises,
              StartChild, StopChild
<1>6. writable \subseteq {active.gen} => writable' \subseteq {active.gen}
  BY DEF WebBoot, WebExits, WebDies, MutableTargetRaises, runtimes
<1>7. WebInv' /\ (MntNeverDied => PointerHeld /\ ReliedInv')
  BY <1>1, <1>3, <1>4, <1>5, <1>6, WebAtRest DEF PointerHeld, ReliedInv
<1> QED BY <1>2, <1>3, <1>7, WebKeepsQuietly

\* What it says of one intent, and what it decides.
LEMMA Says ==
    ASSUME TypeOK, NEW i \in Ids, NEW s, WriteAck(i, "web", s)
    PROVE  \A j \in Ids : ack'[j]["web"] = IF j = i THEN s ELSE ack[j]["web"]
BY DEF TypeOK, WriteAck, Supervisors

\* A result makes its own intent decided and leaves the others as they are.
LEMMA Decides ==
    ASSUME TypeOK, NEW i \in Ids, NEW s \in Decisions, WriteResult(i, s)
    PROVE  \A j \in Ids : /\ Decided(j)' <=> j = i \/ Decided(j)
                          /\ result'[j] = IF j = i THEN [status |-> s, pointer |-> active]
                                                   ELSE result[j]
<1>1. s # "none"
  BY DEF Decisions
<1>2. \A j \in Ids : result'[j] = IF j = i THEN [status |-> s, pointer |-> active] ELSE result[j]
  BY DEF TypeOK, WriteResult
<1>3. result'[i] # Undecided
  BY <1>1, <1>2 DEF Undecided
<1> QED BY <1>2, <1>3 DEF Decided

\* An intent decided: no other is touched, and it stays decided.
LEMMA DecisionsAdd ==
    ASSUME TypeOK, IntentInv, NEW i \in Ids, NEW s \in Decisions, WriteResult(i, s),
           UNCHANGED <<drafts, intents>>
    PROVE  IntentInv' /\ DecisionsStay
<1>1. \A j \in Ids : /\ Decided(j)' <=> j = i \/ Decided(j)
                     /\ result'[j] = IF j = i THEN [status |-> s, pointer |-> active]
                                              ELSE result[j]
  BY Decides
<1>2. \A j \in Ids : Decided(j)' => result'[j].status \in Decisions
  BY <1>1 DEF IntentInv
<1> QED BY <1>1, <1>2 DEF IntentInv, DecisionsStay, Known

\* Where no result is written, nothing changes for the intents.
LEMMA DecisionsUnchanged ==
    ASSUME IntentInv, UNCHANGED <<drafts, intents, result>>
    PROVE  IntentInv' /\ DecisionsStay
BY DEF IntentInv, DecisionsStay, Decided, Known


\* The web supervisor projects what it finds decided.
LEMMA WebSettlesStep ==
    ASSUME IInv, NEW i \in Known, WebSettles(i)
    PROVE  IInv'
<1>1. TypeOK /\ IntentInv /\ WebInv /\ AckInv /\ (MntNeverDied => ReliedInv)
  BY DEF IInv
<1>2. WebIdles
  BY DEF WebIdles
<1>3. /\ UNCHANGED <<runtimes, lock, result, web, child, drafts, intents>>
      /\ Decided(i) /\ web.pc = "idle"
  BY DEF WebSettles, Polls, WebAt
<1>4. i \in Ids /\ IntentInv' /\ DecisionsStay
  BY <1>1, <1>3, KnownIntents, DecisionsUnchanged
<1>5. \A j \in Ids : ack'[j]["web"] = ack[j]["web"] \/ (j = i /\ ack'[j]["web"] = "reconciled")
  BY <1>1, <1>4, Says DEF WebSettles, Reconcile
<1>6. AcksAdvance
  BY <1>5 DEF AcksAdvance, Started, Switched, Undoing
<1>7. WebInv' /\ (MntNeverDied => PointerHeld /\ ReliedInv')
  BY <1>1, <1>3, WebAtRest DEF WebInv, ReliedInv, PointerHeld, runtimes
<1>8. \A j \in Ids : ~Decided(j)' => ~Decided(j) /\ ack'[j]["web"] = ack[j]["web"]
  BY <1>3, <1>5 DEF Decided
<1>9. \A j \in Ids : ack'[j]["web"] = "rollback_pointer_switched" =>
         ack[j]["web"] = "rollback_pointer_switched"
  BY <1>5
<1>10. /\ \A j \in Ids : ~Decided(j)' =>
            ack'[j]["web"] \in Undoing \cup {"rollback_pointer_switched"}
       /\ \A j \in Ids : ack'[j]["web"] = "rollback_pointer_switched" /\ ~Decided(j)' =>
            j \in Known /\ file[j] = "written" /\ active' = intents[j].base
  BY <1>1, <1>3, <1>8 DEF AckInv, runtimes
<1> QED BY <1>2, <1>4, <1>6, <1>7, <1>9, <1>10, WebKeeps

\* The web supervisor goes to the next place of the cutover or of the rollback.
LEMMA WebGoesTo ==
    ASSUME TypeOK, Working, NEW l \in WebPCs, Goto(l)
    PROVE  web'.pc = l /\ web'.intent = web.intent /\ web.intent \in Known /\ web.intent \in Ids
BY AtWork DEF TypeOK, Goto

\* It claims the lock of a recovery, or leaves it again: nothing else moves.
LEMMA ClaimsRecovery ==
    ASSUME IInv, \/ \E i \in Known : ClaimRecoveryLock(i)
                 \/ NameLock /\ WebAt("nameRecovery")
                 \/ RefuseMoved \/ (GiveUp /\ web.recovering)
    PROVE  IInv'
<1>1. TypeOK /\ WebInv /\ (MntNeverDied => ReliedInv)
  BY DEF IInv
<1>2. WebIdles \/ WebCuts \/ WebEnds
  BY DEF WebIdles, WebCuts, WebEnds
<1>3. /\ UNCHANGED <<ack, result>> /\ UNCHANGED <<active, writable, intents>>
      /\ child'["web"] = child["web"]
  BY DEF ClaimRecoveryLock, NameLock, RefuseMoved, GiveUp, WebAt, runtimes, control
<1>4. PICK i \in Known, l \in {"nameRecovery", "recover", "refuse"} :
         /\ web'.pc = l /\ web'.intent = i /\ i \in Ids /\ ~Decided(i)
         /\ l = "recover" => lock' = i
         /\ l # "refuse" => Moved(i)
  <2>1. CASE \E i \in Known : ClaimRecoveryLock(i)
    BY <1>1, <2>1, KnownIntents DEF ClaimRecoveryLock, Applies
  <2>2. CASE NameLock /\ WebAt("nameRecovery")
    <3>1. Working /\ Goto("recover") /\ lock' = web.intent /\ web.pc = "nameRecovery"
      BY <2>2 DEF NameLock, WebAt, Working
    <3> QED BY <1>1, <3>1, WebGoesTo DEF WebInv, WebPCs, Claiming
  <2>3. CASE RefuseMoved \/ (GiveUp /\ web.recovering)
    <3>1. Working /\ Goto("refuse") /\ web.pc \in {"recover", "giveUp"}
      BY <2>3 DEF RefuseMoved, GiveUp, WebAt, Working
    <3> QED BY <1>1, <3>1, WebGoesTo DEF WebInv, WebPCs, Claiming
  <2> QED BY <2>1, <2>2, <2>3
<1>5. WebInv'
  BY <1>1, <1>3, <1>4
  DEF WebInv, Working, Decided, Moved, Preparing, Restoring, OnBase, OnTarget, Ahead, Childless,
      Serving, Lockless
<1>6. MntNeverDied => PointerHeld /\ ReliedInv'
  BY <1>1, <1>3, <1>4 DEF ReliedInv, PointerHeld, Preparing, Restoring
<1> QED BY <1>2, <1>3, <1>5, <1>6, WebKeepsQuietly

\* It recovers from an interrupted cutover: the intent is not one whose pointer
\* is switched back already, for that one has the pointer at its base.
LEMMA BeginRecoveryStep ==
    ASSUME IInv, BeginRecovery
    PROVE  IInv'
<1> DEFINE i == web.intent
<1>1. TypeOK /\ IntentInv /\ WebInv /\ AckInv /\ (MntNeverDied => ReliedInv)
  BY DEF IInv
<1>2. WebIdles
  BY DEF WebIdles
<1>3. Working /\ i \in Known /\ i \in Ids /\ web.pc = "recover"
  BY <1>1, AtWork DEF BeginRecovery, WebAt, Working
<1>4. /\ UNCHANGED <<active, writable, lock, result, drafts, intents>>
      /\ ~Decided(i) /\ active # intents[i].base /\ lock = i
      /\ active.gen = intents[i].target
  BY <1>1, <1>3 DEF BeginRecovery, Interrupted, WebInv, Moved, Lockless, runtimes, control
<1>5. IntentInv' /\ DecisionsStay
  BY <1>1, <1>4, DecisionsUnchanged
<1>6. \A j \in Ids : ack'[j]["web"] = IF j = i THEN "rollback_pending" ELSE ack[j]["web"]
  BY <1>1, <1>3, Says DEF BeginRecovery
<1>7. ack[i]["web"] \in Undoing
  BY <1>1, <1>3, <1>4 DEF AckInv
<1>8. AcksAdvance
  BY <1>6, <1>7 DEF AcksAdvance, Started, Switched, Undoing
<1>9. web'.pc = "awaitQuiesced" /\ web'.intent = i /\ child'["web"] = NoGen
  BY <1>1, <1>3, WebGoesTo DEF BeginRecovery, StopChild, TypeOK, Supervisors, WebPCs, Rollback
<1>10. WebInv'
  BY <1>3, <1>4, <1>6, <1>9 DEF WebInv, Working, Decided, Preparing, Restoring, OnBase, OnTarget,
                           Ahead, Childless, Serving, Lockless
<1>11. MntNeverDied => PointerHeld /\ ReliedInv'
  BY <1>1, <1>4, <1>9 DEF ReliedInv, PointerHeld, Preparing, Restoring
<1>12. \A j \in Ids : ack'[j]["web"] = "rollback_pointer_switched" =>
         ack[j]["web"] = "rollback_pointer_switched"
  BY <1>6
<1>13. /\ \A j \in Ids : ack'[j]["web"] = "rollback_pointer_switched" /\ ~Decided(j)' =>
            j \in Known /\ file[j] = "written" /\ active' = intents[j].base
       /\ \A j \in Ids : ~Decided(j)' =>
            ack'[j]["web"] \in Undoing \cup {"rollback_pointer_switched"}
  BY <1>1, <1>4, <1>6, <1>12 DEF AckInv, Decided, Undoing
<1> QED BY <1>2, <1>5, <1>8, <1>10, <1>11, <1>12, <1>13, WebKeeps

\* It refuses an intent: what is decided is nothing that others rely on.
LEMMA WebRefuses ==
    ASSUME IInv, Refuse \/ \E i \in Known : RefuseRollback(i)
    PROVE  IInv'
<1>1. TypeOK /\ IntentInv /\ WebInv /\ AckInv /\ (MntNeverDied => ReliedInv)
  BY DEF IInv
<1>2. WebIdles
  BY DEF WebIdles
<1>3. /\ UNCHANGED <<runtimes, ack, child, drafts, intents>> /\ web'.pc = "idle"
      /\ \E i \in Ids : WriteResult(i, "failed")
  BY <1>1, KnownIntents, AtWork
     DEF Refuse, RefuseRollback, control, Applies, Polls, WebAt, Working, Leave
<1>4. PICK i \in Ids : WriteResult(i, "failed")
  BY <1>3
<1>5. IntentInv' /\ DecisionsStay /\ \A j \in Ids : ~Decided(j)' => j # i /\ ~Decided(j)
  BY <1>1, <1>3, <1>4, DecisionsAdd, Decides DEF Decisions
<1>6. AcksAdvance
  BY <1>3 DEF AcksAdvance
<1>7. WebInv' /\ (MntNeverDied => PointerHeld /\ ReliedInv')
  BY <1>1, <1>3, WebAtRest DEF WebInv, ReliedInv, PointerHeld, runtimes
<1>8. /\ \A j \in Ids : ~Decided(j)' =>
            ack'[j]["web"] \in Undoing \cup {"rollback_pointer_switched"}
      /\ \A j \in Ids : ack'[j]["web"] = "rollback_pointer_switched" /\ ~Decided(j)' =>
            j \in Known /\ file[j] = "written" /\ active' = intents[j].base
  BY <1>1, <1>3, <1>5 DEF AckInv, runtimes
<1> QED BY <1>2, <1>3, <1>5, <1>6, <1>7, <1>8, WebKeeps

\* It begins a cutover once the job worker is quiesced.
LEMMA BeginCutoverStep ==
    ASSUME IInv, NEW i \in Known, BeginCutover(i)
    PROVE  IInv'
<1>1. TypeOK /\ IntentInv /\ WebInv /\ AckInv /\ (MntNeverDied => ReliedInv)
  BY DEF IInv
<1>2. WebIdles
  BY DEF WebIdles
<1>3. /\ UNCHANGED <<active, writable, lock, result, child, drafts, intents>>
      /\ ~Decided(i) /\ active = intents[i].base /\ ack[i]["web"] \in Started
      /\ ack[i]["maintenance"] = "quiesced"
  BY DEF BeginCutover, MayCutOver, Applies, Moved, Started, runtimes, control
<1>4. i \in Ids /\ IntentInv' /\ DecisionsStay
  BY <1>1, <1>3, KnownIntents, DecisionsUnchanged
<1>5. \A j \in Ids : ack'[j]["web"] = IF j = i THEN "applying" ELSE ack[j]["web"]
  BY <1>1, <1>4, Says DEF BeginCutover
<1>6. AcksAdvance
  BY <1>3, <1>5 DEF AcksAdvance, Started, Switched, Undoing
<1>7. web' = [pc |-> "lock", intent |-> i, recovering |-> FALSE] /\ WebFrame
  BY <1>1, <1>2, WebCommon DEF BeginCutover
<1>8. WebInv'
  BY <1>1, <1>3, <1>4, <1>5, <1>7
  DEF WebInv, Working, Decided, Preparing, Restoring, OnBase, OnTarget, Ahead, Childless,
      Serving, Lockless
<1>9. MntNeverDied => PointerHeld /\ ReliedInv'
  BY <1>1, <1>3, <1>4, <1>7 DEF ReliedInv, PointerHeld, Preparing, Restoring, WebFrame
<1>10. \A j \in Ids : ack'[j]["web"] = "rollback_pointer_switched" =>
         ack[j]["web"] = "rollback_pointer_switched"
  BY <1>5
<1>11. /\ \A j \in Ids : ~Decided(j)' =>
            ack'[j]["web"] \in Undoing \cup {"rollback_pointer_switched"}
       /\ \A j \in Ids : ack'[j]["web"] = "rollback_pointer_switched" /\ ~Decided(j)' =>
            j \in Known /\ file[j] = "written" /\ active' = intents[j].base
  BY <1>1, <1>3, <1>5, <1>10 DEF AckInv, Decided, Undoing, Switched, Started
<1> QED BY <1>2, <1>4, <1>6, <1>8, <1>9, <1>10, <1>11, WebKeeps


\* The steps up to the start of the target that say nothing.  Under the lock
\* the job worker is quiesced for this very intent, which nobody decided.
LEMMA WebPrepares ==
    ASSUME IInv, \/ TakeLock \/ (NameLock /\ WebAt("nameLock"))
                 \/ FreezeOld \/ SavePrevious \/ ThawTarget \/ VerifyTarget
    PROVE  IInv'
<1>1. TypeOK /\ IntentInv /\ WebInv /\ AckInv /\ (MntNeverDied => ReliedInv)
  BY DEF IInv
<1>2. WebCuts
  BY DEF WebCuts
<1>3. UNCHANGED <<active, ack, result, intents>> /\ UNCHANGED <<ack, result>>
  BY DEF TakeLock, NameLock, FreezeOld, SavePrevious, ThawTarget, VerifyTarget, runtimes, control
<1>4. Working /\ web.intent \in Known /\ web.intent \in Ids /\ ~Decided(web.intent)
      /\ ack[web.intent]["web"] = "applying"
  BY <1>1, AtWork DEF TakeLock, NameLock, FreezeOld, SavePrevious, ThawTarget, VerifyTarget,
                      WebAt, Working, WebInv, Preparing
<1>5. MntNeverDied => PointerHeld
  BY <1>3 DEF PointerHeld
<1>6. child["web"] \in {NoGen, active.gen}
      /\ child \in [Supervisors -> Gens \cup {NoGen}] /\ "web" \in Supervisors
  BY <1>1 DEF WebInv, TypeOK, Supervisors
<1>7. CASE TakeLock \/ (NameLock /\ WebAt("nameLock"))
  <2>1. CASE web' = Leave /\ UNCHANGED <<lock, child, writable>>
    <3>1. WebInv' /\ (MntNeverDied => ReliedInv')
      BY <1>1, <1>3, <1>6, <2>1, WebAtRest DEF Leave, ReliedInv
    <3> QED BY <1>2, <1>3, <1>5, <3>1, WebKeepsQuietly
  <2>2. CASE \/ Goto("nameLock") /\ UNCHANGED <<child, writable>>
             \/ lock' = web.intent /\ StopChild("web") /\ Goto("freeze") /\ UNCHANGED writable
    <3>1. PICK l \in {"nameLock", "freeze"} :
             /\ web'.pc = l /\ web'.intent = web.intent
             /\ l = "freeze" => lock' = web.intent
      BY <1>1, <1>4, <2>2, WebGoesTo DEF WebPCs, Cutover
    <3>2. child'["web"] \in {NoGen, active.gen} /\ (l = "freeze" => child'["web"] = NoGen)
      <4>1. CASE Goto("nameLock") /\ UNCHANGED <<child, writable>>
        BY <1>1, <1>4, <1>6, <3>1, <4>1, WebGoesTo DEF WebPCs, Cutover
      <4>2. CASE StopChild("web")
        BY <1>6, <4>2 DEF StopChild
      <4> QED BY <2>2, <4>1, <4>2
    <3>3. active = intents[web.intent].base /\ web.pc \in Preparing
      BY <1>1, <1>7 DEF WebInv, TakeLock, NameLock, WebAt, OnBase, Preparing
    <3>4. WebInv'
      BY <1>3, <1>4, <3>1, <3>2, <3>3
      DEF WebInv, Working, Decided, Preparing, Restoring, OnBase, OnTarget, Ahead, Childless,
          Serving, Lockless
    <3>5. MntNeverDied => ReliedInv'
      BY <1>1, <1>2, <1>4, <1>3, <2>2, <3>1, <3>3, WebCommon
      DEF ReliedInv, Preparing, Restoring, WebFrame
    <3> QED BY <1>2, <1>3, <1>5, <3>4, <3>5, WebKeepsQuietly
  <2>3. \/ web' = Leave /\ UNCHANGED <<lock, child, writable>>
        \/ Goto("nameLock") /\ UNCHANGED <<child, writable>>
        \/ lock' = web.intent /\ StopChild("web") /\ Goto("freeze") /\ UNCHANGED writable
    BY <1>7 DEF TakeLock, NameLock, WebAt, runtimes
  <2> QED BY <2>1, <2>2, <2>3
<1>8. CASE FreezeOld \/ SavePrevious \/ ThawTarget
  <2>1. PICK l \in {"savePrevious", "switch", "verify"} :
           /\ Goto(l)
           /\ l = "savePrevious" => web.pc = "freeze" /\ SetWritable(active.gen, FALSE)
           /\ l = "switch" => web.pc = "savePrevious" /\ UNCHANGED writable
           /\ l = "verify" => web.pc = "thaw" /\ SetWritable(active.gen, TRUE)
    BY <1>8 DEF FreezeOld, SavePrevious, ThawTarget, WebAt
  <2>2. web'.pc = l /\ web'.intent = web.intent
    BY <1>1, <1>4, <2>1, WebGoesTo DEF WebPCs, Cutover
  <2>3. UNCHANGED <<lock, child>>
    BY <1>8 DEF FreezeOld, SavePrevious, ThawTarget
  <2>4. WebInv'
    BY <1>1, <1>3, <2>1, <2>2, <2>3
    DEF WebInv, Working, Decided, Preparing, Restoring, OnBase, OnTarget, Ahead, Childless,
        Serving, Lockless
  <2>5. MntNeverDied => ReliedInv'
    <3>1. l = "savePrevious" /\ writable \subseteq {active.gen} => writable' = {}
      BY <2>1 DEF SetWritable
    <3>2. l = "verify" /\ writable \subseteq {active.gen} => writable' \subseteq {active.gen}
      BY <2>1 DEF SetWritable
    <3>3. WebFrame
      BY <1>1, <1>2, WebCommon
    <3>4. /\ MntNeverDied => ack'[web'.intent]["maintenance"] = "quiesced"
          /\ MntNeverDied => writable \subseteq {active.gen}
          /\ MntNeverDied /\ l = "switch" => writable = {}
      BY <1>1, <1>4, <2>1, <2>2, <3>3 DEF ReliedInv, Preparing, WebFrame
    <3> QED BY <1>3, <2>1, <2>2, <3>1, <3>2, <3>4 DEF ReliedInv, Restoring
  <2> QED BY <1>2, <1>3, <1>5, <2>3, <2>4, <2>5, WebKeepsQuietly
<1>9. CASE VerifyTarget
  <2>1. UNCHANGED <<lock, writable>> /\ web.pc = "verify" /\ WebFrame
    BY <1>1, <1>2, <1>9, WebCommon DEF VerifyTarget, WebAt, runtimes
  <2>2. PICK l \in {"announce", "undo"} :
           Goto(l) /\ (l = "announce" => StartChild("web")) /\ (l = "undo" => UNCHANGED child)
    BY <1>9 DEF VerifyTarget
  <2>3. web'.pc = l /\ web'.intent = web.intent
    BY <1>1, <1>4, <2>2, WebGoesTo DEF WebPCs, Cutover, Rollback
  <2>4. child["web"] = NoGen
    BY <1>1, <2>1 DEF WebInv, Childless
  <2>5. (l = "announce" => child'["web"] = active.gen) /\ (l = "undo" => child'["web"] = NoGen)
    BY <1>6, <2>2, <2>4 DEF StartChild
  <2>6. WebInv'
    BY <1>1, <1>3, <2>1, <2>2, <2>3, <2>5
    DEF WebInv, Working, Decided, Preparing, Restoring, OnBase, OnTarget, Ahead, Childless,
        Serving, Lockless
  <2>7. MntNeverDied => ReliedInv'
    BY <1>1, <1>3, <1>4, <2>1, <2>2, <2>3 DEF ReliedInv, Preparing, Restoring, WebFrame
  <2> QED BY <1>2, <1>3, <1>5, <2>1, <2>6, <2>7, WebKeepsQuietly
<1> QED BY <1>7, <1>8, <1>9

\* What the supervisors can read and nobody decided is what the web supervisor
\* works on, if that is undecided.
LEMMA WorksAlone ==
    ASSUME RowsInv, Working, web.intent \in Known, ~Decided(web.intent)
    PROVE  \A i \in Known : file[i] = "written" /\ ~Decided(i) => i = web.intent
BY DEF RowsInv

\* The pointer moves to the target, when no runtime is writable.
LEMMA SwitchPointerStep ==
    ASSUME IInv, RowsInv, SwitchPointer
    PROVE  IInv'
<1>1. TypeOK /\ IntentInv /\ WebInv /\ AckInv /\ (MntNeverDied => HeldInv /\ ReliedInv)
  BY DEF IInv
<1>2. WebCuts
  BY DEF WebCuts
<1>3. /\ UNCHANGED <<ack, result>> /\ UNCHANGED <<writable, lock, child, intents>>
      /\ web.pc = "switch" /\ Goto("thaw")
      /\ active' = [gen |-> intents[web.intent].target, intent |-> web.intent]
  BY DEF SwitchPointer, WebAt, control
<1>4. Working /\ web.intent \in Known /\ web.intent \in Ids /\ ~Decided(web.intent)
      /\ ack[web.intent]["web"] = "applying" /\ lock = web.intent /\ child["web"] = NoGen
  BY <1>1, <1>3, AtWork DEF Working, WebInv, Preparing, Childless, Lockless
<1>5. web'.pc = "thaw" /\ web'.intent = web.intent
  BY <1>1, <1>3, <1>4, WebGoesTo DEF WebPCs, Cutover
<1>6. WebInv'
  BY <1>3, <1>4, <1>5
  DEF WebInv, Working, Decided, Preparing, Restoring, OnBase, OnTarget, Ahead, Childless,
      Serving, Lockless
<1>7. MntNeverDied => ack[web.intent]["maintenance"] = "quiesced" /\ writable = {}
  BY <1>1, <1>3 DEF ReliedInv, Preparing
<1>8. MntNeverDied => PointerHeld
  BY <1>1, <1>4, <1>7, KnownIntents DEF PointerHeld, HeldInv, Stopped
<1>9. MntNeverDied => ReliedInv'
  BY <1>3, <1>5, <1>7 DEF ReliedInv, Preparing, Restoring
<1>10. \A i \in Known : file[i] = "written" /\ ~Decided(i) => i = web.intent
  BY <1>4, WorksAlone
<1> QED BY <1>2, <1>3, <1>4, <1>6, <1>8, <1>9, <1>10, WebKeepsQuietly


\* An answer came too late or was not the one expected: nothing moves.
LEMMA WebTurnsBack ==
    ASSUME IInv, WebCuts \/ WebEnds,
           \/ web.pc \in {"awaitStarted", "ready"} /\ Goto("undo")
           \/ web.pc \in {"awaitQuiesced", "awaitRestarted", "readyAgain"} /\ Goto("giveUp"),
           UNCHANGED <<runtimes, lock, ack, result, child, intents>>
    PROVE  IInv'
<1>1. TypeOK /\ IntentInv /\ WebInv /\ AckInv /\ (MntNeverDied => ReliedInv)
  BY DEF IInv
<1>2. Working /\ web.intent \in Known /\ web.intent \in Ids
  BY <1>1, AtWork DEF Working
<1>3. UNCHANGED <<ack, result>> /\ UNCHANGED <<active, writable, lock>>
  BY DEF runtimes
<1>4. /\ web'.pc \in {"undo", "giveUp"} /\ web'.intent = web.intent
      /\ web'.pc = "undo" => web.pc \in {"awaitStarted", "ready"}
  BY <1>1, <1>2, WebGoesTo DEF WebPCs, Rollback
<1>5. /\ ack[web.intent]["web"] = ack'[web.intent]["web"]
      /\ web.pc \in {"awaitStarted", "ready"} =>
            ack[web.intent]["web"] \in {"pointer_switched", "verifying"}
  BY <1>1 DEF WebInv
<1>6. /\ lock' = web.intent /\ ~Decided(web.intent)'
      /\ web'.pc = "undo" => active'.gen = intents'[web.intent].target
                             /\ active'.intent = web.intent
      /\ child'["web"] \in {NoGen, active'.gen}
  BY <1>1, <1>2, <1>4, <1>3 DEF WebInv, Working, Decided, OnTarget, Ahead, Lockless
<1>7. WebInv'
  BY <1>4, <1>5, <1>6
  DEF WebInv, Working, Preparing, Restoring, OnBase, OnTarget, Ahead, Childless, Serving, Lockless
<1>8. MntNeverDied => PointerHeld /\ ReliedInv'
  BY <1>1, <1>3, <1>4 DEF ReliedInv, PointerHeld, Preparing, Restoring
<1> QED BY <1>3, <1>7, <1>8, WebKeepsQuietly

\* The steps of the cutover that speak: each says more than the last one did.
LEMMA WebSpeaks ==
    ASSUME IInv, WebCuts \/ WebEnds,
           UNCHANGED <<active, writable, lock, result, intents>>,
           \/ /\ web.pc = "announce" /\ Goto("awaitStarted") /\ UNCHANGED child
              /\ WriteAck(web.intent, "web", "pointer_switched")
           \/ /\ web.pc = "awaitStarted" /\ Goto("ready") /\ UNCHANGED child
              /\ ack[web.intent]["maintenance"] = "target_started"
              /\ WriteAck(web.intent, "web", "verifying")
           \/ /\ web.pc = "undo" /\ Goto("awaitQuiesced") /\ StopChild("web")
              /\ WriteAck(web.intent, "web", "rollback_pending")
    PROVE  IInv'
<1>1. TypeOK /\ IntentInv /\ WebInv /\ AckInv /\ (MntNeverDied => ReliedInv)
  BY DEF IInv
<1>2. WebFrame
  BY <1>1, WebCommon
<1>3. Working /\ web.intent \in Known /\ web.intent \in Ids
  BY <1>1, AtWork DEF Working
<1>4. PICK l \in {"awaitStarted", "ready", "awaitQuiesced"},
           s \in {"pointer_switched", "verifying", "rollback_pending"} :
         /\ Goto(l) /\ WriteAck(web.intent, "web", s)
         /\ l = "awaitStarted" => s = "pointer_switched" /\ web.pc = "announce"
         /\ l = "ready" => s = "verifying" /\ web.pc = "awaitStarted"
                           /\ ack[web.intent]["maintenance"] = "target_started"
         /\ l = "awaitQuiesced" => s = "rollback_pending" /\ web.pc = "undo" /\ StopChild("web")
         /\ l # "awaitQuiesced" => UNCHANGED child
  OBVIOUS
<1>5. web'.pc = l /\ web'.intent = web.intent
  BY <1>1, <1>3, <1>4, WebGoesTo DEF WebPCs, Cutover, Rollback
<1>6. \A j \in Ids : ack'[j]["web"] = IF j = web.intent THEN s ELSE ack[j]["web"]
  BY <1>1, <1>3, <1>4, Says
<1>7. IntentInv' /\ DecisionsStay
  BY <1>1, <1>2, DecisionsUnchanged DEF WebFrame
<1>8. /\ s = "pointer_switched" => ack[web.intent]["web"] = "applying"
      /\ s = "verifying" => ack[web.intent]["web"] = "pointer_switched"
      /\ s = "rollback_pending" =>
            ack[web.intent]["web"] \in {"applying", "pointer_switched", "verifying"}
  BY <1>1, <1>4 DEF WebInv, Preparing
<1>9. AcksAdvance
  BY <1>6, <1>8 DEF AcksAdvance, Started, Switched, Undoing
<1>10. child'["web"] = IF l = "awaitQuiesced" THEN NoGen ELSE child["web"]
  BY <1>1, <1>4 DEF StopChild, TypeOK, Supervisors
<1>11. /\ lock' = web.intent /\ ~Decided(web.intent)' /\ active' = active
       /\ active'.gen = intents'[web.intent].target /\ active'.intent = web.intent
       /\ l # "awaitQuiesced" => child["web"] = active'.gen
  <2>1. web.pc \in {"announce", "awaitStarted", "undo"}
        /\ (l # "awaitQuiesced" => web.pc \in Serving)
    BY <1>4 DEF Serving
  <2>2. lock = web.intent /\ ~Decided(web.intent)
    BY <1>1, <1>3, <2>1 DEF WebInv, Lockless
  <2>3. active.gen = intents[web.intent].target /\ active.intent = web.intent
    BY <1>1, <2>1 DEF WebInv, OnTarget, Ahead
  <2>4. l # "awaitQuiesced" => child["web"] = active.gen
    BY <1>1, <2>1 DEF WebInv
  <2> QED BY <1>5, <2>2, <2>3, <2>4 DEF Decided
<1>12. WebInv'
  BY <1>3, <1>4, <1>5, <1>6, <1>10, <1>11
  DEF WebInv, Working, Preparing, Restoring, OnBase, OnTarget, Ahead, Childless, Serving, Lockless
<1>13. MntNeverDied => PointerHeld /\ ReliedInv'
  BY <1>1, <1>2, <1>3, <1>4, <1>5 DEF ReliedInv, PointerHeld, Preparing, Restoring, WebFrame
<1>14. \A j \in Ids : ack'[j]["web"] = "rollback_pointer_switched" =>
         ack[j]["web"] = "rollback_pointer_switched"
  BY <1>6
<1>15. /\ \A j \in Ids : ~Decided(j)' =>
            ack'[j]["web"] \in Undoing \cup {"rollback_pointer_switched"}
       /\ \A j \in Ids : ack'[j]["web"] = "rollback_pointer_switched" /\ ~Decided(j)' =>
            j \in Known /\ file[j] = "written" /\ active' = intents[j].base
  BY <1>1, <1>6, <1>14 DEF AckInv, Decided, Undoing, Switched, Started
<1> QED BY <1>7, <1>9, <1>12, <1>13, <1>14, <1>15, WebKeeps

\* The decisions: what is said with one is said of an intent that is decided.
LEMMA WebConcludes ==
    ASSUME IInv, WebCuts \/ WebEnds, UNCHANGED <<runtimes, child, intents>>,
           \/ /\ web.pc \in {"ready", "readyAgain"} /\ Goto("reconcile") /\ UNCHANGED lock
              /\ \E s \in Decisions : WriteResult(web.intent, s)
              /\ \E s \in {"committed", "rolled_back"} : WriteAck(web.intent, "web", s)
           \/ /\ web.pc = "giveUp" /\ UNCHANGED ack
              /\ \E s \in Decisions : WriteResult(web.intent, s)
              /\ UNCHANGED lock /\ Goto("release")
    PROVE  IInv'
<1>1. TypeOK /\ IntentInv /\ WebInv /\ AckInv /\ (MntNeverDied => ReliedInv)
  BY DEF IInv
<1>2. WebFrame
  BY <1>1, WebCommon
<1>3. /\ Working /\ web.intent \in Known /\ web.intent \in Ids
      /\ lock = web.intent /\ child["web"] \in {NoGen, active.gen}
  BY <1>1, AtWork DEF Working, WebInv, Lockless
<1>4. PICK s \in Decisions : WriteResult(web.intent, s)
  OBVIOUS
<1>5. IntentInv' /\ DecisionsStay
      /\ \A j \in Ids : Decided(j)' <=> j = web.intent \/ Decided(j)
  BY <1>1, <1>2, <1>3, <1>4, DecisionsAdd, Decides DEF WebFrame
<1>6. \A j \in Ids : \/ ack'[j]["web"] = ack[j]["web"]
                     \/ j = web.intent /\ ack'[j]["web"] \in {"committed", "rolled_back"}
  BY <1>1, <1>3, Says
<1>7. AcksAdvance
  BY <1>6 DEF AcksAdvance, Started, Switched, Undoing
<1>8. web'.pc \in {"reconcile", "release"} => web'.intent = web.intent /\ lock' = web.intent
  BY <1>1, <1>3, WebGoesTo DEF WebPCs
<1>9. web'.pc \in {"reconcile", "release"}
  BY <1>1, <1>3, WebGoesTo DEF WebPCs
<1>10. UNCHANGED <<active, writable, child>>
  BY DEF runtimes
<1>11. WebInv'
  BY <1>3, <1>5, <1>8, <1>9, <1>10
  DEF WebInv, Working, Preparing, Restoring, OnBase, OnTarget, Ahead, Childless, Serving, Lockless
<1>12. MntNeverDied => PointerHeld /\ ReliedInv'
  BY <1>1, <1>9, <1>10 DEF ReliedInv, PointerHeld, Preparing, Restoring
<1>13. /\ \A j \in Ids : ack'[j]["web"] = "rollback_pointer_switched" =>
             ack[j]["web"] = "rollback_pointer_switched"
       /\ \A j \in Ids : ~Decided(j)' => ~Decided(j) /\ ack'[j]["web"] = ack[j]["web"]
  BY <1>3, <1>5, <1>6
<1>14. /\ \A j \in Ids : ~Decided(j)' =>
            ack'[j]["web"] \in Undoing \cup {"rollback_pointer_switched"}
       /\ \A j \in Ids : ack'[j]["web"] = "rollback_pointer_switched" /\ ~Decided(j)' =>
            j \in Known /\ file[j] = "written" /\ active' = intents[j].base
  BY <1>1, <1>10, <1>13 DEF AckInv
<1> QED BY <1>5, <1>7, <1>11, <1>12, <1>13, <1>14, WebKeeps


\* The target is frozen again, once the job worker is stopped.
LEMMA FreezeTargetStep ==
    ASSUME IInv, FreezeTarget
    PROVE  IInv'
<1>1. TypeOK /\ IntentInv /\ WebInv /\ AckInv /\ (MntNeverDied => ReliedInv)
  BY DEF IInv
<1>2. WebEnds
  BY DEF WebEnds
<1>3. /\ UNCHANGED <<ack, result>> /\ UNCHANGED <<active, lock, child, intents>>
      /\ web.pc = "freezeTarget" /\ Goto("restore")
      /\ writable' = writable \ {intents[web.intent].target}
  BY DEF FreezeTarget, WebAt, SetWritable, control
<1>4. Working /\ web.intent \in Known /\ web.intent \in Ids
  BY <1>1, <1>3, AtWork DEF Working
<1>5. web'.pc = "restore" /\ web'.intent = web.intent
  BY <1>1, <1>3, <1>4, WebGoesTo DEF WebPCs, Rollback
<1>6. WebInv'
  BY <1>1, <1>3, <1>5
  DEF WebInv, Working, Decided, Preparing, Restoring, OnBase, OnTarget, Ahead, Childless,
      Serving, Lockless
<1>7. active.gen = intents[web.intent].target
  BY <1>1, <1>3 DEF WebInv, OnTarget
<1>8. MntNeverDied => PointerHeld /\ ReliedInv'
  BY <1>1, <1>3, <1>5, <1>7 DEF ReliedInv, PointerHeld, Preparing, Restoring
<1> QED BY <1>2, <1>3, <1>6, <1>8, WebKeepsQuietly

\* The pointer moves back, when no runtime is writable.
LEMMA RestorePointerStep ==
    ASSUME IInv, RowsInv, RestorePointer
    PROVE  IInv'
<1>1. TypeOK /\ IntentInv /\ WebInv /\ AckInv /\ (MntNeverDied => HeldInv /\ ReliedInv)
  BY DEF IInv
<1>2. WebEnds
  BY DEF WebEnds
<1>3. /\ UNCHANGED <<ack, result>> /\ UNCHANGED <<writable, lock, child, intents>>
      /\ web.pc = "restore" /\ Goto("thawOld") /\ active' = intents[web.intent].base
  BY DEF RestorePointer, WebAt, control
<1>4. Working /\ web.intent \in Known /\ web.intent \in Ids /\ ~Decided(web.intent)
      /\ ack[web.intent]["web"] = "rollback_pending" /\ lock = web.intent
      /\ child["web"] = NoGen
  BY <1>1, <1>3, AtWork DEF Working, WebInv, Restoring, Childless, Lockless
<1>5. web'.pc = "thawOld" /\ web'.intent = web.intent
  BY <1>1, <1>3, <1>4, WebGoesTo DEF WebPCs, Rollback
<1>6. WebInv'
  BY <1>3, <1>4, <1>5
  DEF WebInv, Working, Decided, Preparing, Restoring, OnBase, OnTarget, Ahead, Childless,
      Serving, Lockless
<1>7. MntNeverDied => ack[web.intent]["maintenance"] = "rollback_quiesced" /\ writable = {}
  BY <1>1, <1>3 DEF ReliedInv, Restoring
<1>8. MntNeverDied => PointerHeld
  BY <1>1, <1>4, <1>7, KnownIntents DEF PointerHeld, HeldInv, Stopped
<1>9. MntNeverDied => ReliedInv'
  BY <1>3, <1>5, <1>7 DEF ReliedInv, Preparing, Restoring
<1>10. \A i \in Known : file[i] = "written" /\ ~Decided(i) => i = web.intent
  BY <1>4, WorksAlone
<1> QED BY <1>2, <1>3, <1>4, <1>6, <1>8, <1>9, <1>10, WebKeepsQuietly

\* The base is thawed and started, and the job worker told so.
LEMMA ThawOldStep ==
    ASSUME IInv, RowsInv, ThawOld
    PROVE  IInv'
<1>1. TypeOK /\ IntentInv /\ WebInv /\ AckInv /\ (MntNeverDied => ReliedInv)
  BY DEF IInv
<1>2. WebEnds
  BY DEF WebEnds
<1>3. /\ UNCHANGED <<active, lock, result, drafts, intents>>
      /\ web.pc = "thawOld" /\ Goto("awaitRestarted") /\ StartChild("web")
      /\ WriteAck(web.intent, "web", "rollback_pointer_switched")
      /\ writable' = writable \cup {active.gen}
  BY DEF ThawOld, WebAt, SetWritable, control
<1>4. Working /\ web.intent \in Known /\ web.intent \in Ids /\ ~Decided(web.intent)
      /\ lock = web.intent /\ child["web"] = NoGen /\ active = intents[web.intent].base
      /\ file[web.intent] = "written"
  BY <1>1, <1>3, AtWork DEF Working, WebInv, OnBase, Childless, Lockless, RowsInv
<1>5. web'.pc = "awaitRestarted" /\ web'.intent = web.intent
  BY <1>1, <1>3, <1>4, WebGoesTo DEF WebPCs, Rollback
<1>6. child'["web"] = active.gen
  BY <1>1, <1>3, <1>4 DEF StartChild, TypeOK, Supervisors
<1>7. \A j \in Ids : ack'[j]["web"] = IF j = web.intent THEN "rollback_pointer_switched"
                                                       ELSE ack[j]["web"]
  BY <1>1, <1>3, <1>4, Says
<1>8. IntentInv' /\ DecisionsStay /\ AcksAdvance
  BY <1>1, <1>3, <1>7, DecisionsUnchanged DEF AcksAdvance, Started, Switched, Undoing
<1>9. WebInv'
  BY <1>3, <1>4, <1>5, <1>6, <1>7
  DEF WebInv, Working, Decided, Preparing, Restoring, OnBase, OnTarget, Ahead, Childless,
      Serving, Lockless
<1>10. MntNeverDied => ack[web.intent]["maintenance"] = "rollback_quiesced"
  BY <1>1, <1>3 DEF ReliedInv, Restoring
<1>11. MntNeverDied => PointerHeld /\ ReliedInv'
  BY <1>1, <1>3, <1>5 DEF ReliedInv, PointerHeld, Preparing, Restoring
<1>12. /\ \A j \in Ids : ~Decided(j)' =>
             ack'[j]["web"] \in Undoing \cup {"rollback_pointer_switched"}
       /\ \A j \in Ids : ack'[j]["web"] = "rollback_pointer_switched" /\ ~Decided(j)' =>
            j \in Known /\ file[j] = "written" /\ active' = intents[j].base
  BY <1>1, <1>3, <1>4, <1>7 DEF AckInv, Decided
<1> QED BY <1>2, <1>7, <1>8, <1>9, <1>10, <1>11, <1>12, WebKeeps

\* The waits of a rollback that end with the answer.
LEMMA WebHears ==
    ASSUME IInv, WebCuts \/ WebEnds,
           UNCHANGED <<runtimes, lock, ack, result, child, intents>>,
           \/ /\ web.pc = "awaitQuiesced" /\ Goto("freezeTarget")
              /\ ack[web.intent]["maintenance"] = "rollback_quiesced"
           \/ /\ web.pc = "awaitRestarted" /\ Goto("readyAgain")
              /\ ack[web.intent]["maintenance"] = "rollback_started"
    PROVE  IInv'
<1>1. TypeOK /\ IntentInv /\ WebInv /\ AckInv /\ (MntNeverDied => ReliedInv)
  BY DEF IInv
<1>2. Working /\ web.intent \in Known /\ web.intent \in Ids
  BY <1>1, AtWork DEF Working
<1>3. UNCHANGED <<ack, result>> /\ UNCHANGED <<active, writable, lock, child, intents>>
  BY DEF runtimes
<1>4. /\ web'.pc \in {"freezeTarget", "readyAgain"} /\ web'.intent = web.intent
      /\ web'.pc = "freezeTarget" =>
            web.pc = "awaitQuiesced" /\ ack[web.intent]["maintenance"] = "rollback_quiesced"
      /\ web'.pc = "readyAgain" =>
            web.pc = "awaitRestarted" /\ ack[web.intent]["maintenance"] = "rollback_started"
  BY <1>1, <1>2, WebGoesTo DEF WebPCs, Rollback
<1>5. WebInv'
  BY <1>1, <1>3, <1>4
  DEF WebInv, Working, Decided, Preparing, Restoring, OnBase, OnTarget, Ahead, Childless,
      Serving, Lockless
<1>6. MntNeverDied => PointerHeld /\ ReliedInv'
  BY <1>1, <1>3, <1>4 DEF ReliedInv, PointerHeld, Preparing, Restoring
<1> QED BY <1>3, <1>5, <1>6, WebKeepsQuietly

\* After the decision: project it and leave the lock, if it is still its own.
LEMMA WebLeaves ==
    ASSUME IInv, ReconcileOwn \/ ReleaseLock
    PROVE  IInv'
<1>1. TypeOK /\ IntentInv /\ WebInv /\ AckInv /\ (MntNeverDied => ReliedInv)
  BY DEF IInv
<1>2. WebEnds
  BY DEF WebEnds
<1>3. /\ UNCHANGED <<active, writable, result, child, drafts, intents>>
      /\ web.pc \in {"reconcile", "release"}
  BY DEF ReconcileOwn, ReleaseLock, WebAt, runtimes, control
<1>4. Working /\ web.intent \in Known /\ web.intent \in Ids /\ Decided(web.intent)
      /\ lock = web.intent
  BY <1>1, <1>3, AtWork DEF Working, WebInv, Lockless
<1>5. \A j \in Ids : \/ ack'[j]["web"] = ack[j]["web"]
                     \/ j = web.intent /\ ack'[j]["web"] = "reconciled"
  BY <1>1, <1>4, Says DEF ReconcileOwn, ReleaseLock, Reconcile
<1>6. \/ web'.pc = "release" /\ web'.intent = web.intent /\ lock' = lock
      \/ web'.pc = "idle"
  BY <1>1, <1>4, WebGoesTo DEF ReconcileOwn, ReleaseLock, Leave, WebPCs
<1>7. IntentInv' /\ DecisionsStay /\ AcksAdvance
  BY <1>1, <1>3, <1>5, DecisionsUnchanged DEF AcksAdvance, Started, Switched, Undoing
<1>8. WebInv'
  BY <1>1, <1>3, <1>4, <1>6
  DEF WebInv, Working, Decided, Preparing, Restoring, OnBase, OnTarget, Ahead, Childless,
      Serving, Lockless
<1>9. MntNeverDied => PointerHeld /\ ReliedInv'
  BY <1>1, <1>3, <1>6 DEF ReliedInv, PointerHeld, Preparing, Restoring
<1>10. /\ \A j \in Ids : ack'[j]["web"] = "rollback_pointer_switched" =>
             ack[j]["web"] = "rollback_pointer_switched"
       /\ \A j \in Ids : ~Decided(j)' => ~Decided(j) /\ ack'[j]["web"] = ack[j]["web"]
  BY <1>3, <1>4, <1>5 DEF Decided
<1>11. /\ \A j \in Ids : ~Decided(j)' =>
            ack'[j]["web"] \in Undoing \cup {"rollback_pointer_switched"}
       /\ \A j \in Ids : ack'[j]["web"] = "rollback_pointer_switched" /\ ~Decided(j)' =>
            j \in Known /\ file[j] = "written" /\ active' = intents[j].base
  BY <1>1, <1>3, <1>10 DEF AckInv
<1> QED BY <1>2, <1>7, <1>8, <1>9, <1>10, <1>11, WebKeeps

\* Every step of the web supervisor, and its death.
LEMMA WebStep ==
    ASSUME IInv, RowsInv, WebMoves
    PROVE  IInv'
<1>1. CASE \/ WebBoot \/ WebExits \/ WebDies \/ \E i \in Known : MutableTargetRaises(i)
  BY <1>1, WebRestarts
<1>2. CASE \/ BeginRecovery \/ RefuseMoved \/ Refuse
           \/ \E i \in Known : \/ WebSettles(i) \/ ClaimRecoveryLock(i)
                               \/ RefuseRollback(i) \/ BeginCutover(i)
  BY <1>2, WebSettlesStep, ClaimsRecovery, BeginRecoveryStep, WebRefuses, BeginCutoverStep
<1>3. CASE \/ TakeLock \/ NameLock \/ FreezeOld \/ SavePrevious \/ ThawTarget \/ VerifyTarget
           \/ SwitchPointer
  <2>1. NameLock => WebAt("nameLock") \/ WebAt("nameRecovery")
    BY DEF NameLock
  <2> QED BY <1>3, <2>1, ClaimsRecovery, WebPrepares, SwitchPointerStep
<1>4. CASE Announce \/ AwaitStarted \/ DecideCommit \/ Undo \/ AwaitQuiesced \/ AwaitRestarted
           \/ DecideRollback \/ GiveUp
  <2>1. WebCuts \/ WebEnds
    BY <1>4 DEF WebCuts, WebEnds
  <2> USE DEF WebAt, runtimes, control, Decisions
  <2>2. CASE Announce \/ Undo
    BY <2>1, <2>2, WebSpeaks DEF Announce, Undo
  <2>3. CASE AwaitStarted
    BY <2>1, <2>3, WebSpeaks, WebTurnsBack DEF AwaitStarted
  <2>4. CASE DecideCommit
    BY <2>1, <2>4, WebConcludes, WebTurnsBack DEF DecideCommit
  <2>5. CASE AwaitQuiesced \/ AwaitRestarted
    BY <2>1, <2>5, WebHears, WebTurnsBack DEF AwaitQuiesced, AwaitRestarted
  <2>6. CASE DecideRollback
    BY <2>1, <2>6, WebConcludes, WebTurnsBack DEF DecideRollback
  <2>7. CASE GiveUp
    BY <2>1, <2>7, ClaimsRecovery, WebConcludes DEF GiveUp
  <2> QED BY <1>4, <2>2, <2>3, <2>4, <2>5, <2>6, <2>7
<1>5. CASE FreezeTarget \/ RestorePointer \/ ThawOld \/ ReconcileOwn \/ ReleaseLock
  BY <1>5, FreezeTargetStep, RestorePointerStep, ThawOldStep, WebLeaves
<1> QED BY <1>1, <1>2, <1>3, <1>4, <1>5 DEF WebMoves, WebSteps, WebTick


-----------------------------------------------------------------------------
(* The steps of the maintenance supervisor                                 *)

MntMoves == MntSteps \/ MntDies

\* It changes nothing of the pointers, of the web supervisor or of its sayings.
LEMMA MntFrame ==
    ASSUME TypeOK, MntMoves
    PROVE  /\ UNCHANGED <<active, previous, lock, result, web, drafts, intents, file, expired>>
           /\ child'["web"] = child["web"]
           /\ \A i \in Ids : ack'[i]["web"] = ack[i]["web"]
<1> USE DEF MntMoves, MntSteps
<1>1. UNCHANGED <<active, previous, lock, result, web, drafts, intents, file, expired>>
  BY DEF MntBoot, MntStart, MntDies, MntSettles, Quiesce, Listen, Respond, runtimes, control,
         bounds
<1>2. child' = child \/ StartChild("maintenance") \/ StopChild("maintenance")
  BY DEF MntBoot, MntStart, MntDies, MntSettles, Quiesce, Listen, Respond
<1>3. child'["web"] = child["web"]
  BY <1>2 DEF TypeOK, StartChild, StopChild, Supervisors
<1>4. ack' = ack \/ \E i, s : WriteAck(i, "maintenance", s)
  BY DEF MntBoot, MntStart, MntDies, MntSettles, Quiesce, Listen, Respond, Reconcile
<1>5. \A i \in Ids : ack'[i]["web"] = ack[i]["web"]
  BY <1>4 DEF TypeOK, WriteAck, Supervisors
<1> QED BY <1>1, <1>3, <1>5

\* It keeps the types: a start thaws the generation that it read at its boot.
LEMMA MntTypes ==
    ASSUME TypeOK, IntentInv, AnswerInv, MntMoves
    PROVE  TypeOK'
<1> USE DEF MntMoves, MntSteps
<1>1. UNCHANGED <<active, previous, lock, result, web, drafts, intents, file, expired>>
  BY MntFrame
<1>2. Known' = Known /\ active.gen \in Gens
  BY <1>1 DEF Known, TypeOK, Pointer
<1>3. writable' \subseteq Gens
  BY DEF TypeOK, AnswerInv, MntBoot, MntStart, MntDies, MntSettles, Quiesce, Listen, Respond,
         runtimes, SetWritable, MntAt
<1>4. /\ {Answer[a] : a \in DOMAIN Answer}
           = {"target_started", "rollback_quiesced", "rollback_started"}
      /\ \A a \in DOMAIN Answer : Answer[a] \in {Answer[b] : b \in DOMAIN Answer}
  BY DEF Answer
<1>5. ack' \in [Ids -> [Supervisors -> Acks]]
  <2>1. ack' = ack \/ \E i \in {NoIntent} \cup Known, s \in Acks : WriteAck(i, "maintenance", s)
    <3>1. CASE Respond
      <4>1. mnt.paused \in {NoIntent} \cup Known
        BY DEF TypeOK
      <4>2. mnt.pc \in {"target_started", "rollback_quiesced", "rollback_started"}
        BY <1>4, <3>1 DEF Respond
      <4> QED BY <3>1, <4>1, <4>2 DEF Respond, Acks
    <3>2. CASE MntBoot \/ MntStart \/ MntDies
               \/ \E i \in Known : MntSettles(i) \/ Quiesce(i) \/ Listen(i)
      BY <3>2 DEF MntBoot, MntStart, MntDies, MntSettles, Quiesce, Listen, Reconcile, Acks
    <3> QED BY <3>1, <3>2
  <2>2. ASSUME NEW i \in {NoIntent} \cup Known, NEW s \in Acks, WriteAck(i, "maintenance", s)
        PROVE  ack' \in [Ids -> [Supervisors -> Acks]]
    BY <2>2 DEF TypeOK, WriteAck, Supervisors
  <2> QED BY <2>1, <2>2 DEF TypeOK
<1>6. mnt' \in [pc: {"down", "boot", "idle"} \cup {Answer[a] : a \in DOMAIN Answer},
                seen: Gens \cup {NoGen}, paused: {NoIntent} \cup Known]
  <2> DEFINE places == {"down", "boot", "idle"} \cup {Answer[a] : a \in DOMAIN Answer}
  <2>1. mnt \in [pc: places, seen: Gens \cup {NoGen}, paused: {NoIntent} \cup Known]
    BY DEF TypeOK
  <2>2. {"down", "boot", "idle"} \subseteq places
        /\ \A a \in DOMAIN Answer : Answer[a] \in places
    BY <1>4
  <2> SUFFICES mnt' \in [pc: places, seen: Gens \cup {NoGen}, paused: {NoIntent} \cup Known]
    OBVIOUS
  <2> HIDE DEF places
  <2>3. CASE \E i \in Known : Listen(i)
    BY <2>1, <2>2, <2>3 DEF Listen
  <2>4. CASE MntBoot \/ MntStart \/ MntDies \/ Respond
    <3>1. CASE MntBoot
      BY <1>2, <2>2, <3>1 DEF MntBoot
    <3>2. CASE \/ mnt' = [mnt EXCEPT !.pc = "idle"]
               \/ mnt' = [mnt EXCEPT !.pc = "idle", !.seen = NoGen]
               \/ mnt' = [mnt EXCEPT !.pc = "down", !.seen = NoGen, !.paused = NoIntent]
      BY <2>1, <2>2, <3>2
    <3> QED BY <2>4, <3>1, <3>2 DEF MntStart, MntDies, Respond
  <2>5. CASE \E i \in Known : MntSettles(i)
    BY <2>1, <2>5 DEF MntSettles
  <2>6. CASE \E i \in Known : Quiesce(i)
    BY <2>1, <2>6 DEF Quiesce
  <2> QED BY <2>3, <2>4, <2>5, <2>6
<1>7. child' \in [Supervisors -> Gens \cup {NoGen}]
  <2>1. child' = child \/ StartChild("maintenance") \/ StopChild("maintenance")
    BY DEF MntBoot, MntStart, MntDies, MntSettles, Quiesce, Listen, Respond
  <2>2. CASE StartChild("maintenance")
    BY <1>2, <2>2 DEF TypeOK, StartChild, Supervisors
  <2>3. CASE StopChild("maintenance")
    BY <2>3 DEF TypeOK, StopChild, Supervisors
  <2> QED BY <2>1, <2>2, <2>3 DEF TypeOK
<1>8. /\ row' \in [Ids -> {"absent", "pending", "committed", "rolled_back", "failed"}]
      /\ projection' \in [Gens -> Projections]
  <2>1. UNCHANGED <<row, projection>> \/ \E i \in Known : Projectable(i) /\ Project(i)
    BY DEF MntBoot, MntStart, MntDies, MntSettles, Quiesce, Listen, Respond, Reconcile, control
  <2> QED BY <2>1, ProjectTypes DEF TypeOK
<1>9. faults' \in [FaultKinds -> 0..MaxFaults]
  <2>1. CASE MntDies
    BY <2>1, StrikeTypes DEF MntDies, Supervisors, FaultKinds
  <2>2. CASE faults' = faults
    BY <2>2 DEF TypeOK
  <2> QED BY <2>1, <2>2 DEF MntBoot, MntStart, MntSettles, Quiesce, Listen, Respond, bounds
<1> QED BY <1>1, <1>2, <1>3, <1>5, <1>6, <1>7, <1>8, <1>9 DEF TypeOK


\* Of the invariant, only what it says and does itself is left to show.
LEMMA MntKeeps ==
    ASSUME IInv, MntMoves, AnswerInv', MntNeverDied' => HeldInv' /\ ReliedInv',
           \A i \in Ids :
               \/ ack'[i]["maintenance"] = ack[i]["maintenance"]
               \/ ack'[i]["maintenance"] \in {"quiesced", "reconciled"}
               \/ i = mnt.paused /\ ack'[i]["maintenance"] = mnt.pc
                  /\ mnt.pc \in {"target_started", "rollback_quiesced", "rollback_started"}
    PROVE  IInv'
<1>1. TypeOK /\ IntentInv /\ WebInv /\ AckInv /\ AnswerInv
  BY DEF IInv
<1>2. /\ UNCHANGED <<active, previous, lock, result, web, drafts, intents, file, expired>>
      /\ child'["web"] = child["web"]
      /\ \A i \in Ids : ack'[i]["web"] = ack[i]["web"]
  BY <1>1, MntFrame
<1>3. TypeOK' /\ IntentInv'
  BY <1>1, <1>2, MntTypes DEF IntentInv, Decided, Known
<1>4. WebInv'
  <2>1. web.pc \notin {"down", "idle"} => web.intent \in Ids
    BY <1>1, AtWork DEF Working
  <2> QED BY <1>1, <1>2, <2>1
          DEF WebInv, Working, Decided, Moved, Preparing, Restoring, OnBase, OnTarget, Ahead,
              Childless, Serving, Lockless
<1>5. AckInv'
  <2>1. ASSUME NEW i \in Ids
        PROVE  /\ ack'[i]["maintenance"] = "target_started" => ack[i]["web"] \notin Started
               /\ ack'[i]["maintenance"] = "rollback_quiesced" => ack[i]["web"] \notin Switched
               /\ ack'[i]["maintenance"] = "rollback_started" => ack[i]["web"] \notin Undoing
    BY <1>1 DEF AckInv, AnswerInv
  <2> QED BY <1>1, <1>2, <2>1 DEF AckInv, Decided, Known
<1> QED BY <1>3, <1>4, <1>5 DEF IInv

\* It boots, when nothing holds it.
LEMMA MntBootStep ==
    ASSUME IInv, MntBoot
    PROVE  IInv'
<1>1. TypeOK /\ (MntNeverDied => HeldInv /\ ReliedInv) /\ MntMoves
  BY DEF IInv, MntMoves, MntSteps
<1>2. /\ mnt.pc = "down" /\ mnt' = [pc |-> "boot", seen |-> active.gen, paused |-> NoIntent]
      /\ UNCHANGED <<ack, active, result, web, child, writable, faults>>
  BY DEF MntBoot, MntAt, runtimes, bounds
<1>3. AnswerInv'
  BY <1>1, <1>2 DEF AnswerInv, TypeOK, Pointer
<1>4. ASSUME MntNeverDied' PROVE HeldInv' /\ ReliedInv'
  <2>1. HeldInv /\ ReliedInv /\ mnt.paused = NoIntent
    BY <1>1, <1>2, <1>4 DEF MntNeverDied, HeldInv
  <2>2. HeldInv'
    BY <1>1, <1>2, <2>1, KnownIntents DEF HeldInv, Decided
  <2> QED BY <1>2, <2>1, <2>2 DEF ReliedInv
<1> QED BY <1>1, <1>2, <1>3, <1>4, MntKeeps

\* It starts what it read, which the pointer still names if it never died.
LEMMA MntStartStep ==
    ASSUME IInv, MntStart
    PROVE  IInv'
<1>1. TypeOK /\ (MntNeverDied => HeldInv /\ ReliedInv) /\ MntMoves
  BY DEF IInv, MntMoves, MntSteps
<1>2. /\ mnt.pc = "boot" /\ mnt'.pc = "idle" /\ mnt'.paused = mnt.paused
      /\ writable' = writable \cup {mnt.seen} /\ StartChild("maintenance")
      /\ UNCHANGED <<ack, active, result, web, faults>>
  BY <1>1 DEF MntStart, MntAt, SetWritable, bounds, TypeOK
<1>3. AnswerInv'
  BY <1>2 DEF AnswerInv
<1>4. ASSUME MntNeverDied' PROVE HeldInv' /\ ReliedInv'
  <2>1. HeldInv /\ ReliedInv /\ mnt.paused = NoIntent /\ mnt.seen = active.gen
    BY <1>1, <1>2, <1>4 DEF MntNeverDied, HeldInv
  <2>2. child'["maintenance"] \in {NoGen, active.gen}
    BY <1>1, <1>2, <2>1 DEF StartChild, TypeOK, Supervisors, HeldInv
  <2>3. HeldInv'
    BY <1>1, <1>2, <2>1, <2>2, KnownIntents DEF HeldInv, Decided
  <2>4. web.pc \notin {"savePrevious", "switch", "restore"}
    <3>1. web.pc \in Preparing \cup Restoring => web.intent \in Ids /\ ~Decided(web.intent)
      BY <1>1, AtWork DEF IInv, WebInv, Working, Preparing, Restoring
    <3>2. web.pc \in Preparing \cup Restoring =>
             ack[web.intent]["maintenance"] \in {"quiesced", "rollback_quiesced"}
      BY <2>1 DEF ReliedInv
    <3>3. web.pc \in Preparing \cup Restoring => mnt.paused = web.intent
      BY <2>1, <3>1, <3>2 DEF HeldInv
    <3> QED BY <1>1, <2>1, <3>1, <3>3, KnownIntents DEF Preparing, Restoring
  <2>5. writable' \subseteq {active'.gen}
    BY <1>2, <2>1 DEF ReliedInv
  <2> QED BY <1>2, <2>1, <2>3, <2>4, <2>5 DEF ReliedInv
<1> QED BY <1>1, <1>2, <1>3, <1>4, MntKeeps

\* It dies, and what it was held for is no longer relied on.
LEMMA MntDiesStep ==
    ASSUME IInv, MntDies
    PROVE  IInv'
<1>1. TypeOK /\ MntMoves
  BY DEF IInv, MntMoves
<1>2. mnt'.pc = "down" /\ UNCHANGED ack
  BY <1>1 DEF MntDies, TypeOK
<1>3. ~MntNeverDied'
  BY <1>1, StrikeTypes DEF MntDies, MntNeverDied, FaultKinds, Supervisors
<1>4. AnswerInv'
  BY <1>2 DEF AnswerInv
<1> QED BY <1>1, <1>2, <1>3, <1>4, MntKeeps

\* It settles a decided intent: no cutover works on that one any more.
LEMMA MntSettlesStep ==
    ASSUME IInv, NEW i \in Known, MntSettles(i)
    PROVE  IInv'
<1>1. TypeOK /\ WebInv /\ (MntNeverDied => HeldInv /\ ReliedInv) /\ MntMoves
  BY DEF IInv, MntMoves, MntSteps
<1>2. /\ mnt.pc = "idle" /\ Decided(i) /\ mnt'.pc = "idle" /\ i \in Ids /\ NoIntent \notin Ids
      /\ UNCHANGED <<active, writable, result, web, faults>>
  BY <1>1, KnownIntents DEF MntSettles, MntAt, bounds, runtimes, TypeOK
<1>3. /\ \A j \in Ids : /\ ack'[j]["web"] = ack[j]["web"]
                        /\ \/ ack'[j]["maintenance"] = ack[j]["maintenance"]
                           \/ j = i /\ ack'[j]["maintenance"] = "reconciled"
  BY <1>1, <1>2 DEF MntSettles, Reconcile, WriteAck, TypeOK, Supervisors
<1>4. AnswerInv'
  BY <1>2 DEF AnswerInv
<1>5. \/ /\ mnt.paused = i /\ mnt'.paused = NoIntent
         /\ child'["maintenance"] \in {child["maintenance"], active.gen}
      \/ /\ mnt.paused # i /\ UNCHANGED <<mnt, child>>
  BY <1>1 DEF MntSettles, StartChild, TypeOK, Supervisors
<1>6. ASSUME MntNeverDied' PROVE HeldInv' /\ ReliedInv'
  <2>1. HeldInv /\ ReliedInv
    BY <1>1, <1>2, <1>6 DEF MntNeverDied
  <2>2. \A j \in Ids : ~Decided(j)' /\ ack'[j]["maintenance"] # "none" => mnt'.paused = j
    BY <1>2, <1>3, <1>5, <2>1 DEF HeldInv, Decided
  <2>3. mnt.paused # NoIntent => mnt.paused \in Ids
    BY <1>1, KnownIntents DEF TypeOK
  <2>4. HeldInv'
    BY <1>2, <1>3, <1>5, <2>1, <2>2, <2>3 DEF HeldInv
  <2>5. web.pc \in Preparing \cup Restoring \cup {"ready", "readyAgain"} =>
           /\ web.intent # i /\ web.intent \in Ids
           /\ ack'[web.intent]["maintenance"] = ack[web.intent]["maintenance"]
    BY <1>1, <1>2, <1>3, AtWork DEF WebInv, Working, Preparing, Restoring
  <2>6. ReliedInv'
    BY <1>2, <2>1, <2>5 DEF ReliedInv
  <2> QED BY <2>4, <2>6
<1> QED BY <1>1, <1>3, <1>4, <1>6, MntKeeps

\* It stops its child for an open intent, the first one it answers.
LEMMA QuiesceStep ==
    ASSUME IInv, NEW i \in Known, Quiesce(i)
    PROVE  IInv'
<1>1. TypeOK /\ WebInv /\ (MntNeverDied => HeldInv /\ ReliedInv) /\ MntMoves
  BY DEF IInv, MntMoves, MntSteps
<1>2. /\ mnt.pc = "idle" /\ ~Decided(i) /\ mnt.paused = NoIntent
      /\ mnt'.pc = "idle" /\ mnt'.paused = i /\ i \in Ids /\ NoIntent \notin Ids
      /\ UNCHANGED <<active, writable, result, web, faults>>
  BY <1>1, KnownIntents DEF Quiesce, MntAt, bounds, runtimes, TypeOK
<1>3. \A j \in Ids :
         /\ ack'[j]["web"] = ack[j]["web"]
         /\ ack'[j]["maintenance"] = IF j = i THEN "quiesced" ELSE ack[j]["maintenance"]
  BY <1>1, <1>2 DEF Quiesce, WriteAck, TypeOK, Supervisors
<1>4. AnswerInv'
  BY <1>2 DEF AnswerInv
<1>5. child'["maintenance"] = NoGen
  BY <1>1 DEF Quiesce, StopChild, TypeOK, Supervisors
<1>6. ASSUME MntNeverDied' PROVE HeldInv' /\ ReliedInv'
  <2>1. HeldInv /\ ReliedInv
    BY <1>1, <1>2, <1>6 DEF MntNeverDied
  <2>2. \A j \in Ids : ~Decided(j) => ack[j]["maintenance"] = "none"
    BY <1>2, <2>1 DEF HeldInv
  <2>3. HeldInv'
    BY <1>2, <1>3, <1>5, <2>1, <2>2 DEF HeldInv, Decided, Stopped, Running
  <2>4. web.pc \notin Preparing \cup Restoring \cup {"ready", "readyAgain"}
    <3>1. web.pc \in Preparing \cup Restoring \cup {"ready", "readyAgain"} =>
             web.intent \in Ids /\ ~Decided(web.intent)
      BY <1>1, AtWork DEF WebInv, Working, Preparing, Restoring
    <3>2. web.pc \in Preparing \cup Restoring \cup {"ready", "readyAgain"} =>
             ack[web.intent]["maintenance"] # "none"
      BY <2>1 DEF ReliedInv
    <3> QED BY <2>2, <3>1, <3>2
  <2>5. ReliedInv'
    BY <1>2, <2>1, <2>4 DEF ReliedInv
  <2> QED BY <2>3, <2>5
<1> QED BY <1>1, <1>3, <1>4, <1>6, MntKeeps


\* It reads what the web supervisor said, and so what it answered last is the
\* answer to the one before.
LEMMA ListenStep ==
    ASSUME IInv, NEW i \in Known, Listen(i)
    PROVE  IInv'
<1>1. TypeOK /\ AckInv /\ (MntNeverDied => HeldInv /\ ReliedInv) /\ MntMoves
  BY DEF IInv, MntMoves, MntSteps
<1>2. /\ mnt.pc = "idle" /\ ~Decided(i) /\ mnt.paused = i /\ i \in Ids /\ NoIntent \notin Ids
      /\ UNCHANGED <<active, writable, result, web, faults, ack, child>>
  BY <1>1, KnownIntents DEF Listen, MntAt, bounds, runtimes
<1>3. PICK a \in {"pointer_switched", "rollback_pending", "rollback_pointer_switched"} :
         a = ack[i]["web"]
  BY DEF Listen, Answer
<1>4. /\ ack[i]["maintenance"] # Answer[a] /\ mnt'.paused = i /\ mnt'.pc = Answer[a]
  BY <1>1, <1>2, <1>3 DEF Listen, TypeOK
<1>5. Answer[a] = IF a = "pointer_switched" THEN "target_started"
                  ELSE IF a = "rollback_pending" THEN "rollback_quiesced" ELSE "rollback_started"
  BY DEF Answer
<1>6. AnswerInv'
  BY <1>2, <1>3, <1>4, <1>5 DEF AnswerInv, Started, Switched, Undoing
<1>7. ASSUME MntNeverDied' PROVE HeldInv' /\ ReliedInv'
  <2>1. HeldInv /\ ReliedInv
    BY <1>1, <1>2, <1>7 DEF MntNeverDied
  <2>2. ack[i]["maintenance"] \in {"quiesced", "rollback_quiesced", "target_started",
                                   "rollback_started"}
    BY <1>2, <2>1 DEF HeldInv, Stopped, Running
  <2>3. /\ ack[i]["maintenance"] = "target_started" => ack[i]["web"] \notin Started
        /\ ack[i]["maintenance"] = "rollback_quiesced" => ack[i]["web"] \notin Switched
        /\ ack[i]["maintenance"] = "rollback_started" => ack[i]["web"] \notin Undoing
    BY <1>1, <1>2 DEF AckInv
  <2>4. a = "rollback_pointer_switched" =>
           ack[i]["maintenance"] \in {"rollback_quiesced", "rollback_started", "reconciled"}
    BY <1>2, <1>3, <2>1 DEF HeldInv
  <2>5. /\ mnt'.pc = "target_started" => ack[i]["maintenance"] = "quiesced"
        /\ mnt'.pc = "rollback_quiesced" =>
              ack[i]["maintenance"] \in {"quiesced", "target_started"}
        /\ mnt'.pc = "rollback_started" => ack[i]["maintenance"] = "rollback_quiesced"
    BY <1>3, <1>4, <1>5, <2>2, <2>3, <2>4 DEF Started, Switched, Undoing
  <2>6. mnt'.pc \notin {"down", "boot"}
    BY <1>4, <1>5
  <2>7. HeldInv'
    BY <1>2, <1>4, <2>1, <2>5, <2>6 DEF HeldInv, Decided
  <2> QED BY <1>2, <2>1, <2>7 DEF ReliedInv
<1> QED BY <1>1, <1>2, <1>6, <1>7, MntKeeps

\* It does what was asked for and says so.  The web supervisor is past every
\* place that relies on the answer before.
LEMMA RespondStep ==
    ASSUME IInv, Respond
    PROVE  IInv'
<1>1. /\ TypeOK /\ WebInv /\ AnswerInv /\ (MntNeverDied => HeldInv /\ ReliedInv) /\ MntMoves
  BY DEF IInv, MntMoves, MntSteps
<1> DEFINE p == mnt.paused
<1>2. mnt.pc \in {"target_started", "rollback_quiesced", "rollback_started"}
  BY DEF Respond, Answer
<1>3. p # NoIntent /\ p \in Ids
  BY <1>1, <1>2, KnownIntents DEF AnswerInv, TypeOK
<1>4. /\ mnt'.pc = "idle" /\ mnt'.paused = p
      /\ UNCHANGED <<active, writable, result, web, faults>>
  BY <1>1 DEF Respond, bounds, runtimes, TypeOK
<1>5. \A j \in Ids :
         /\ ack'[j]["web"] = ack[j]["web"]
         /\ ack'[j]["maintenance"] = IF j = p THEN mnt.pc ELSE ack[j]["maintenance"]
  BY <1>1, <1>3 DEF Respond, WriteAck, TypeOK, Supervisors
<1>6. AnswerInv'
  BY <1>4 DEF AnswerInv
<1>7. ASSUME MntNeverDied' PROVE HeldInv' /\ ReliedInv'
  <2>1. HeldInv /\ ReliedInv
    BY <1>1, <1>4, <1>7 DEF MntNeverDied
  <2>2. /\ mnt.pc = "target_started" =>
              ack[p]["maintenance"] = "quiesced" /\ ack[p]["web"] \notin Started
        /\ mnt.pc = "rollback_quiesced" =>
              ack[p]["maintenance"] \in {"quiesced", "target_started"}
              /\ ack[p]["web"] \notin Switched
        /\ mnt.pc = "rollback_started" =>
              ack[p]["maintenance"] = "rollback_quiesced" /\ ack[p]["web"] \notin Undoing
    BY <1>1, <2>1 DEF HeldInv, AnswerInv
  <2>3. mnt.pc # "rollback_quiesced" => child["maintenance"] = NoGen
    BY <1>2, <1>3, <2>1, <2>2 DEF HeldInv, Stopped
  <2>4. child'["maintenance"] = IF mnt.pc = "rollback_quiesced" THEN NoGen ELSE active.gen
    BY <1>1, <2>3 DEF Respond, MntAt, StartChild, StopChild, TypeOK, Supervisors
  <2>5. \A j \in Ids : ~Decided(j)' /\ ack'[j]["maintenance"] # "none" => p = j
    BY <1>4, <1>5, <2>1 DEF HeldInv, Decided
  <2>6. \A j \in Ids : ack'[j]["web"] = "rollback_pointer_switched" =>
           ack'[j]["maintenance"] \in {"rollback_quiesced", "rollback_started", "reconciled"}
    BY <1>2, <1>5, <2>1, <2>2 DEF HeldInv
  <2>7. /\ ack'[p]["maintenance"] \in Stopped \cup Running
        /\ ack'[p]["maintenance"] \in Stopped => child'["maintenance"] = NoGen
        /\ ack'[p]["maintenance"] \in Running => child'["maintenance"] = active.gen
    BY <1>2, <1>3, <1>5, <2>4 DEF Stopped, Running
  <2>8. HeldInv'
    BY <1>4, <2>4, <2>5, <2>6, <2>7 DEF HeldInv
  <2>9. web.pc \in Preparing \cup Restoring \cup {"ready", "readyAgain"} => web.intent \in Ids
    BY <1>1, AtWork DEF Working, Preparing, Restoring
  <2>10. /\ web.pc \in Preparing => ack[web.intent]["web"] = "applying"
         /\ web.pc \in Restoring => ack[web.intent]["web"] = "rollback_pending"
         /\ web.pc = "ready" => ack[web.intent]["web"] = "verifying"
         /\ web.pc = "readyAgain" => ack[web.intent]["web"] = "rollback_pointer_switched"
    BY <1>1 DEF WebInv
  <2>11. /\ web.pc \in Preparing => ack[web.intent]["maintenance"] = "quiesced"
         /\ web.pc \in Restoring => ack[web.intent]["maintenance"] = "rollback_quiesced"
         /\ web.pc = "ready" => ack[web.intent]["maintenance"] = "target_started"
         /\ web.pc = "readyAgain" => ack[web.intent]["maintenance"] = "rollback_started"
    BY <2>1 DEF ReliedInv
  <2>12. web.pc \in Preparing \cup Restoring \cup {"ready", "readyAgain"} => web.intent # p
    BY <1>2, <2>2, <2>10, <2>11 DEF Started, Switched, Undoing
  <2>13. ReliedInv'
    BY <1>4, <1>5, <2>1, <2>9, <2>11, <2>12 DEF ReliedInv
  <2> QED BY <2>8, <2>13
<1>8. \A j \in Ids :
         \/ ack'[j]["maintenance"] = ack[j]["maintenance"]
         \/ j = mnt.paused /\ ack'[j]["maintenance"] = mnt.pc
            /\ mnt.pc \in {"target_started", "rollback_quiesced", "rollback_started"}
  BY <1>2, <1>5
<1> QED BY <1>1, <1>6, <1>7, <1>8, MntKeeps

-----------------------------------------------------------------------------
(* Every step                                                              *)

\* Every step keeps the invariant.
LEMMA StepKeeps ==
    ASSUME IInv, RowsInv, [Next]_vars
    PROVE  IInv'
<1>1. CASE Control
  BY <1>1, ControlStep
<1>2. CASE WebMoves
  BY <1>2, WebStep
<1>3. CASE MntMoves
  BY <1>3, MntBootStep, MntStartStep, MntDiesStep, MntSettlesStep, QuiesceStep, ListenStep,
     RespondStep DEF MntMoves, MntSteps
<1>4. CASE UNCHANGED vars
  BY <1>4 DEF vars, runtimes, control, bounds, IInv, TypeOK, IntentInv, WebInv, AckInv, AnswerInv,
              HeldInv, ReliedInv, MntNeverDied, Decided, Known, Working, Moved
<1> QED BY <1>1, <1>2, <1>3, <1>4 DEF Next, Control, WebMoves, MntMoves

\* Only the two switches move the pointer.
LEMMA PointerMoves ==
    ASSUME TypeOK, [Next]_vars
    PROVE  UNCHANGED active \/ SwitchPointer \/ RestorePointer
<1>1. CASE MntMoves
  BY <1>1, MntFrame
<1>2. CASE WebMoves
  BY <1>2 DEF WebMoves, WebSteps, WebTick, WebBoot, WebExits, WebDies, WebSettles,
      ClaimRecoveryLock, BeginRecovery, RefuseMoved, Refuse, RefuseRollback,
      MutableTargetRaises, BeginCutover, TakeLock, NameLock, FreezeOld, SavePrevious,
      ThawTarget, VerifyTarget, Announce, AwaitStarted, DecideCommit, Undo, AwaitQuiesced,
      FreezeTarget, ThawOld, AwaitRestarted, DecideRollback, GiveUp, ReconcileOwn, ReleaseLock,
      runtimes
<1>3. CASE Control
  BY <1>3 DEF Control, Coordinator, FileSteps, Prepare, CreateIntent, RefuseIntent, WriteIntent,
      WriteIntentFails, CoordinatorDies, Expire, runtimes
<1> QED BY <1>1, <1>2, <1>3 DEF Next, Control, WebMoves, MntMoves, vars, runtimes

\* Only a refusal, a decision or a failed rollback writes a result.
LEMMA ResultWrites ==
    ASSUME TypeOK, [Next]_vars
    PROVE  \/ UNCHANGED result
           \/ \E i \in Known : ~Decided(i) /\ WriteResult(i, "failed")
           \/ Refuse \/ DecideCommit \/ DecideRollback \/ GiveUp
<1>1. CASE MntMoves
  BY <1>1, MntFrame
<1>2. CASE WebMoves
  BY <1>2 DEF WebMoves, WebSteps, WebTick, WebBoot, WebExits, WebDies, WebSettles,
      ClaimRecoveryLock, BeginRecovery, RefuseMoved, Refuse, RefuseRollback,
      MutableTargetRaises, BeginCutover, TakeLock, NameLock, FreezeOld, SavePrevious,
      SwitchPointer, ThawTarget, VerifyTarget, Announce, AwaitStarted, Undo, AwaitQuiesced,
      FreezeTarget, RestorePointer, ThawOld, AwaitRestarted, ReconcileOwn, ReleaseLock, Applies
<1>3. CASE Control
  BY <1>3 DEF Control, Coordinator, FileSteps, Prepare, CreateIntent, RefuseIntent, WriteIntent,
      WriteIntentFails, CoordinatorDies, Expire
<1> QED BY <1>1, <1>2, <1>3 DEF Next, Control, WebMoves, MntMoves, vars

-----------------------------------------------------------------------------
(* The control database.  While an intent is open its rows speak of the      *)
(* generation that was active when it was made, so that what they say of the *)
(* pointer follows only once the result was projected.                       *)

\* Intent i left nothing marked active, and no later one was projected.
LastFailed(i) ==
    /\ result[i].status = "rollback_failed" /\ row[i] # "pending"
    /\ \A j \in Known : j > i => file[j] = "lost" \/ row[j] = "pending"

\* Under an open intent the database marks the pointer, or the intent's base
\* and never its target; otherwise the pointer.
MarksInv ==
    /\ \A i \in Known : row[i] = "pending" =>
          /\ projection[intents[i].target] = "pending"
          /\ MarkedActive \subseteq {active.gen} \/ MarkedActive \subseteq {intents[i].base.gen}
          /\ file[i] = "writing" => MarkedActive \subseteq {active.gen}
    /\ ~InProgress => MarkedActive \subseteq {active.gen}
    /\ MarkedActive = {} => \E i \in Known : LastFailed(i)

\* Results stay, and the web supervisor takes up what it can read.
ResultsStay == \A j \in Ids : Decided(j) => result'[j] = result[j]
WebFollows ==
    Working' => \/ Working /\ web'.intent = web.intent
                \/ \E i \in Known : Loaded(i) /\ web'.intent = i

\* Nothing is marked yet but the runtime the story starts with.
LEMMA MarksInit == Init => RowsInv /\ MarksInv
<1> SUFFICES ASSUME Init PROVE RowsInv /\ MarksInv
  OBVIOUS
<1>1. Known = {} /\ ~Working /\ active.gen = Second
  BY DEF Init, Known, Working
<1>2. MarkedActive = {Second}
  BY GensAssumption DEF Init, MarkedActive
<1> QED BY <1>1, <1>2 DEF RowsInv, MarksInv

\* A step that leaves rows, files and intents alone, and moves the pointer only
\* for an open intent whose base is what is marked, if anything is.
LEMMA MarksStay ==
    ASSUME TypeOK, RowsInv, MarksInv, ResultsStay, WebFollows,
           UNCHANGED <<intents, row, file, projection>>,
           \/ active' = active
           \/ \E i \in Known : /\ row[i] = "pending" /\ file[i] = "written"
                               /\ MarkedActive \subseteq {intents[i].base.gen}
    PROVE  RowsInv' /\ MarksInv'
<1>1. Known' = Known /\ MarkedActive' = MarkedActive /\ InProgress' = InProgress /\ Known \subseteq Ids
  BY KnownIntents DEF Known, MarkedActive, InProgress
<1>2. \A i \in Known : ~Decided(i)' => ~Decided(i)
  BY <1>1 DEF ResultsStay, Decided
<1>3. \A i \in Known : LastFailed(i) => LastFailed(i)'
  BY <1>1 DEF LastFailed, ResultsStay, Decided, Undecided
<1>4. RowsInv'
  <2>1. Working' => file[web'.intent] = "written"
    BY DEF WebFollows, RowsInv, Loaded
  <2> QED BY <1>1, <1>2, <2>1 DEF RowsInv
<1>5. CASE active' = active
  BY <1>1, <1>3, <1>4, <1>5 DEF MarksInv
<1>6. CASE \E i \in Known : /\ row[i] = "pending" /\ file[i] = "written"
                            /\ MarkedActive \subseteq {intents[i].base.gen}
  <2>1. PICK i \in Known : /\ row[i] = "pending" /\ file[i] = "written"
                           /\ MarkedActive \subseteq {intents[i].base.gen}
    BY <1>6
  <2>2. InProgress /\ \A j \in Known : row[j] = "pending" => j = i
    BY <2>1 DEF InProgress, RowsInv
  <2> QED BY <1>1, <1>3, <1>4, <2>1, <2>2 DEF MarksInv
<1> QED BY <1>5, <1>6

\* Projecting the result of the open intent marks the generation that its
\* result and active.json agree on, or none after a failed rollback.
LEMMA MarksProjected ==
    ASSUME TypeOK, IntentInv, RowsInv, MarksInv, WebFollows, NEW i \in Known,
           row[i] = "pending", file[i] = "written", Projectable(i), Project(i),
           UNCHANGED <<active, intents, file, result>>
    PROVE  RowsInv' /\ MarksInv'
<1> DEFINE s == result[i].status
           b == intents[i].base.gen
           t == intents[i].target
<1>1. /\ Known' = Known /\ Known \subseteq Ids /\ b \in Gens /\ t \in Gens /\ b # t
      /\ s \in Decisions /\ i = Len(intents) /\ Len(intents) \in Nat
      /\ projection \in [Gens -> Projections]
  BY KnownIntents DEF IntentInv, Projectable, RowsInv, TypeOK, Known
<1>2. /\ row' = [row EXCEPT ![i] = RowState[s]]
      /\ projection' = [projection EXCEPT ![b] = OldProjection[s], ![t] = NewProjection[s]]
  BY DEF Project
<1>3. /\ RowState[s] # "pending"
      /\ OldProjection[s] = "active" <=> s \in {"rolled_back", "failed"}
      /\ NewProjection[s] = "active" <=> s = "committed"
  BY <1>1 DEF Decisions, RowState, OldProjection, NewProjection
<1>4. \A j \in Known : row'[j] # "pending" /\ (j # i => row'[j] = row[j])
  BY <1>1, <1>2, <1>3 DEF TypeOK, RowsInv
<1>5. \A g \in Gens : projection'[g] = IF g = t THEN NewProjection[s]
                                       ELSE IF g = b THEN OldProjection[s] ELSE projection[g]
  BY <1>1, <1>2
<1>6. /\ s = "committed" => active.gen = t
      /\ s \in {"rolled_back", "failed"} => active.gen = b
      /\ MarkedActive \subseteq {active.gen} \/ MarkedActive \subseteq {b}
  BY <1>1 DEF Projectable, MarksInv
<1>7. /\ s \in {"committed", "rolled_back", "failed"} => MarkedActive' = {active.gen}
      /\ s = "rollback_failed" => MarkedActive' \subseteq MarkedActive \ {b, t}
  BY <1>1, <1>3, <1>5, <1>6 DEF MarkedActive
<1>8. MarkedActive' \subseteq {active.gen}
  BY <1>1, <1>6, <1>7 DEF Decisions
<1>9. MarkedActive' = {} => LastFailed(i)'
  <2>1. \A j \in Known : ~(j > i)
    BY <1>1 DEF Known
  <2> QED BY <1>1, <1>4, <1>7, <2>1 DEF Decisions, LastFailed
<1>10. RowsInv'
  <2>1. Working' => file[web'.intent] = "written"
    BY DEF WebFollows, RowsInv, Loaded
  <2>2. \A j \in Known : /\ file[j] = "writing" => j # i /\ row[j] = "pending"
                         /\ file[j] = "written" /\ ~Decided(j) => j # i /\ row[j] = "pending"
    BY DEF RowsInv, Projectable
  <2>3. \A j \in Known : row[j] = "pending" => j = i
    BY <1>1 DEF RowsInv
  <2> QED BY <1>1, <1>4, <2>1, <2>2, <2>3 DEF RowsInv, Decided
<1>11. MarksInv'
  BY <1>1, <1>4, <1>8, <1>9 DEF MarksInv
<1> QED BY <1>10, <1>11

\* A new intent: its target was not active, and is not marked.
LEMMA MarksCreated ==
    ASSUME TypeOK, IntentInv, RowsInv, MarksInv, WebFollows, NEW d \in drafts, CreateIntent(d),
           Len(intents) < MaxIntents
    PROVE  RowsInv' /\ MarksInv'
<1> DEFINE n == Len(intents) + 1
<1>1. /\ d \in Intent /\ d.target \in Gens /\ intents \in Seq(Intent) /\ Len(intents) \in Nat
      /\ n \in Ids /\ Known \subseteq Ids /\ n \notin Known
  BY KnownIntents, BoundsAssumption DEF TypeOK, Intent, Ids, Known
<1>2. /\ intents' = Append(intents, d) /\ UNCHANGED <<active, result>>
      /\ file' = [file EXCEPT ![n] = "writing"] /\ row' = [row EXCEPT ![n] = "pending"]
      /\ projection' = [projection EXCEPT ![d.target] = "pending"]
      /\ ~InProgress /\ projection[d.target] \in Schedulable
  BY DEF CreateIntent, runtimes
<1>3. /\ Len(intents') = n /\ Known' = Known \cup {n}
      /\ intents'[n] = d /\ \A i \in Known : intents'[i] = intents[i]
  BY <1>1, <1>2 DEF Known
<1>4. /\ file'[n] = "writing" /\ row'[n] = "pending"
      /\ \A i \in Known : file'[i] = file[i] /\ row'[i] = row[i] /\ row[i] # "pending"
  BY <1>1, <1>2 DEF TypeOK, InProgress
<1>5. projection'[d.target] = "pending" /\ MarkedActive' = MarkedActive
  BY <1>1, <1>2 DEF MarkedActive, TypeOK, Schedulable
<1>6. RowsInv'
  <2>1. Working' => web'.intent \in Known /\ file[web'.intent] = "written"
    BY AtWork DEF WebFollows, RowsInv, Loaded
  <2> QED BY <1>2, <1>3, <1>4, <2>1 DEF RowsInv, Decided
<1>7. MarkedActive \subseteq {active.gen} /\ InProgress'
  BY <1>2, <1>3, <1>4 DEF MarksInv, InProgress
<1>8. \A i \in Known : LastFailed(i) => LastFailed(i)'
  BY <1>2, <1>3, <1>4 DEF LastFailed
<1> QED BY <1>2, <1>3, <1>4, <1>5, <1>6, <1>7, <1>8 DEF MarksInv

\* The intent's file is written, or the write fails or is never made: nobody
\* could read the intent before.
LEMMA MarksFiled ==
    ASSUME TypeOK, RowsInv, MarksInv, WebFollows, NEW i \in Known,
           FileSteps(i) \/ CoordinatorDies(i)
    PROVE  RowsInv' /\ MarksInv'
<1>1. /\ UNCHANGED <<active, intents, result, projection>> /\ Known' = Known /\ Known \subseteq Ids
      /\ MarkedActive' = MarkedActive /\ file[i] = "writing"
  BY KnownIntents DEF FileSteps, WriteIntent, WriteIntentFails, CoordinatorDies, runtimes, Known,
                      MarkedActive
<1>2. row[i] = "pending" /\ \A j \in Known : row[j] = "pending" => j = i
  BY <1>1 DEF RowsInv
<1>3. MarkedActive \subseteq {active.gen}
  BY <1>1, <1>2 DEF MarksInv
<1>4. \A j \in Known : j # i => file'[j] = file[j] /\ row'[j] = row[j]
  BY <1>1 DEF FileSteps, WriteIntent, WriteIntentFails, CoordinatorDies, TypeOK
<1>5. \/ file'[i] = "written" /\ row'[i] = "pending"
      \/ file'[i] = "lost" /\ row'[i] \in {"pending", "failed"}
  BY <1>1, <1>2 DEF FileSteps, WriteIntent, WriteIntentFails, CoordinatorDies, TypeOK
<1>6. RowsInv'
  <2>1. Working' => web'.intent \in Known /\ file[web'.intent] = "written"
    BY AtWork DEF WebFollows, RowsInv, Loaded
  <2> QED BY <1>1, <1>2, <1>4, <1>5, <2>1 DEF RowsInv, Decided
<1>7. \A j \in Known : LastFailed(j) => LastFailed(j)'
  <2> SUFFICES ASSUME NEW j \in Known, LastFailed(j) PROVE LastFailed(j)'
    OBVIOUS
  <2>1. j # i
    BY <1>2 DEF LastFailed
  <2>2. ASSUME NEW k \in Known, k > j PROVE file'[k] = "lost" \/ row'[k] = "pending"
    BY <1>4, <1>5, <2>2 DEF LastFailed
  <2> QED BY <1>1, <1>4, <2>1, <2>2 DEF LastFailed
<1> QED BY <1>1, <1>2, <1>3, <1>4, <1>5, <1>6, <1>7 DEF MarksInv, InProgress



\* Decisions are final: a result is written for an undecided intent only.
LEMMA ResultsFinal ==
    ASSUME IInv, [Next]_vars
    PROVE  ResultsStay
<1>1. TypeOK /\ WebInv
  BY DEF IInv
<1>2. CASE UNCHANGED result
  BY <1>2 DEF ResultsStay
<1>3. CASE \E i \in Known : ~Decided(i) /\ WriteResult(i, "failed")
  BY <1>1, <1>3, KnownIntents DEF WriteResult, TypeOK, ResultsStay
<1>4. CASE Refuse \/ DecideCommit \/ DecideRollback \/ GiveUp
  <2>1. web.intent \in Ids /\ ~Decided(web.intent)
    BY <1>1, <1>4, AtWork DEF Refuse, DecideCommit, DecideRollback, GiveUp, WebAt, WebInv, Working
  <2>2. UNCHANGED result \/ \E s \in Decisions : WriteResult(web.intent, s)
    BY <1>4 DEF Refuse, DecideCommit, DecideRollback, GiveUp, Decisions
  <2> QED BY <1>1, <2>1, <2>2 DEF WriteResult, TypeOK, ResultsStay
<1> QED BY <1>1, <1>2, <1>3, <1>4, ResultWrites

\* The web supervisor keeps its intent, leaves it, or takes one it can read.
LEMMA WebTakesUp ==
    ASSUME TypeOK, [Next]_vars
    PROVE  WebFollows
<1>1. CASE MntMoves \/ Control \/ UNCHANGED vars
  <2>1. UNCHANGED web
    BY <1>1, MntFrame DEF Control, Coordinator, FileSteps, Prepare, CreateIntent, RefuseIntent,
       WriteIntent, WriteIntentFails, CoordinatorDies, Expire, vars
  <2> QED BY <2>1 DEF WebFollows, Working
<1>2. CASE \/ WebBoot \/ WebExits \/ WebDies \/ Refuse \/ ReleaseLock
           \/ \E i \in Known : MutableTargetRaises(i)
  <2>1. web' = Leave \/ web' = [Leave EXCEPT !.pc = "down"]
    BY <1>2 DEF WebBoot, WebExits, WebDies, Refuse, ReleaseLock, MutableTargetRaises
  <2>2. web'.pc \in {"down", "idle"}
    BY <2>1 DEF Leave
  <2> QED BY <2>2 DEF WebFollows, Working
<1>3. CASE \E i \in Known : \/ WebSettles(i) \/ ClaimRecoveryLock(i) \/ RefuseRollback(i)
                           \/ BeginCutover(i)
  <2>1. PICK i \in Known : \/ WebSettles(i) \/ ClaimRecoveryLock(i) \/ RefuseRollback(i)
                         \/ BeginCutover(i)
    BY <1>3
  <2>2. CASE WebSettles(i) \/ RefuseRollback(i)
    <3>1. UNCHANGED web
      BY <2>2 DEF WebSettles, RefuseRollback
    <3> QED BY <3>1 DEF WebFollows, Working
  <2>3. CASE ClaimRecoveryLock(i) \/ BeginCutover(i)
    <3>1. Loaded(i) /\ web'.intent = i
      BY <2>3 DEF ClaimRecoveryLock, BeginCutover, MayCutOver, Applies
    <3> QED BY <3>1 DEF WebFollows
  <2> QED BY <2>1, <2>2, <2>3
<1>4. CASE \/ BeginRecovery \/ RefuseMoved \/ TakeLock \/ NameLock
           \/ FreezeOld \/ SavePrevious \/ SwitchPointer \/ ThawTarget
           \/ VerifyTarget \/ Announce \/ AwaitStarted \/ DecideCommit
           \/ Undo \/ AwaitQuiesced \/ FreezeTarget \/ RestorePointer \/ ThawOld
           \/ AwaitRestarted \/ DecideRollback \/ GiveUp \/ ReconcileOwn
  <2>1. Working
    BY <1>4 DEF BeginRecovery, RefuseMoved, TakeLock, NameLock, FreezeOld, SavePrevious,
       SwitchPointer, ThawTarget, VerifyTarget, Announce, AwaitStarted, DecideCommit, Undo,
       AwaitQuiesced, FreezeTarget, RestorePointer, ThawOld, AwaitRestarted, DecideRollback,
       GiveUp, ReconcileOwn, WebAt, Working
  <2>2. web' = Leave \/ \E l \in WebPCs : Goto(l)
    BY <1>4 DEF BeginRecovery, RefuseMoved, TakeLock, NameLock, FreezeOld, SavePrevious,
       SwitchPointer, ThawTarget, VerifyTarget, Announce, AwaitStarted, DecideCommit, Undo,
       AwaitQuiesced, FreezeTarget, RestorePointer, ThawOld, AwaitRestarted, DecideRollback,
       GiveUp, ReconcileOwn, WebPCs, Cutover, Rollback, Claiming
  <2> QED BY <2>1, <2>2, WebGoesTo DEF WebFollows, Working, Leave
<1>5. CASE WebMoves
  BY <1>2, <1>3, <1>4, <1>5 DEF WebMoves, WebSteps, WebTick
<1> QED BY <1>1, <1>5 DEF Next, Control, WebMoves, MntMoves

\* Besides the steps of a request and of its file, only the projection of a
\* result writes the control rows.
LEMMA ControlWrites ==
    ASSUME TypeOK, WebInv, RowsInv, [Next]_vars
    PROVE  \/ \E d \in drafts : CreateIntent(d)
           \/ \E i \in Known : FileSteps(i) \/ CoordinatorDies(i)
           \/ \E i \in Known : /\ Projectable(i) /\ Project(i) /\ file[i] = "written"
                               /\ UNCHANGED <<active, intents, file, result>>
           \/ UNCHANGED <<intents, row, file, projection>>
<1>1. CASE Control
  BY <1>1 DEF Control, Coordinator, Prepare, RefuseIntent, Expire, control
<1>2. CASE (\E i \in Known : WebSettles(i) \/ MntSettles(i)) \/ ReconcileOwn
  <2>1. PICK i \in Known, r \in Supervisors :
           /\ Reconcile(i, r) /\ file[i] = "written"
           /\ UNCHANGED <<active, intents, file, result>>
    BY <1>2, AtWork DEF WebSettles, MntSettles, ReconcileOwn, Loaded, WebAt, Working, RowsInv,
                        runtimes, Supervisors
  <2> QED BY <2>1 DEF Reconcile
<1>3. CASE MntMoves /\ ~(\E i \in Known : MntSettles(i))
  BY <1>3 DEF MntMoves, MntSteps, MntBoot, MntStart, MntDies, Quiesce, Listen, Respond, control
<1>4. CASE WebMoves /\ ~(\E i \in Known : WebSettles(i)) /\ ~ReconcileOwn
  BY <1>4 DEF WebMoves, WebSteps, WebTick, WebBoot, WebExits, WebDies, ClaimRecoveryLock,
      BeginRecovery, RefuseMoved, Refuse, RefuseRollback, MutableTargetRaises, BeginCutover,
      TakeLock, NameLock, FreezeOld, SavePrevious, SwitchPointer, ThawTarget, VerifyTarget,
      Announce, AwaitStarted, DecideCommit, Undo, AwaitQuiesced, FreezeTarget, RestorePointer,
      ThawOld, AwaitRestarted, DecideRollback, GiveUp, ReleaseLock, control
<1>5. CASE UNCHANGED vars
  BY <1>5 DEF vars, control
<1> QED BY <1>1, <1>2, <1>3, <1>4, <1>5 DEF Next, Control, WebMoves, MntMoves

\* The pointer moves under the one open intent, from or to its base, while
\* nothing but that base is marked active: the target is marked as pending.
LEMMA PointerMovesMarked ==
    ASSUME IInv, RowsInv, MarksInv, [Next]_vars, active' # active
    PROVE  \E i \in Known : /\ row[i] = "pending" /\ file[i] = "written"
                            /\ MarkedActive \subseteq {intents[i].base.gen}
<1> DEFINE i == web.intent
<1>1. TypeOK /\ WebInv
  BY DEF IInv
<1>2. /\ web.pc = "switch" \/ web.pc = "restore"
      /\ i \in Known /\ ~Decided(i)
  BY <1>1, PointerMoves, AtWork
     DEF SwitchPointer, RestorePointer, WebAt, Working, WebInv
<1>3. file[i] = "written" /\ row[i] = "pending"
  BY <1>2 DEF RowsInv, Working
<1>4. /\ projection[intents[i].target] = "pending"
      /\ MarkedActive \subseteq {active.gen} \/ MarkedActive \subseteq {intents[i].base.gen}
  BY <1>2, <1>3 DEF MarksInv
<1>5. active = intents[i].base \/ active.gen = intents[i].target
  BY <1>1, <1>2 DEF WebInv, OnBase, OnTarget
<1>6. MarkedActive \subseteq {intents[i].base.gen}
  BY <1>4, <1>5 DEF MarkedActive
<1> QED BY <1>2, <1>3, <1>6

\* Every step keeps what the control database says.
LEMMA MarksKept ==
    ASSUME IInv, IInv', RowsInv, MarksInv, [Next]_vars
    PROVE  RowsInv' /\ MarksInv'
<1>1. TypeOK /\ IntentInv /\ WebInv /\ TypeOK'
  BY DEF IInv
<1>2. ResultsStay /\ WebFollows
  BY <1>1, ResultsFinal, WebTakesUp
<1>3. CASE \E d \in drafts : CreateIntent(d)
  <2>1. PICK d \in drafts : CreateIntent(d)
    BY <1>3
  <2>2. Len(intents) + 1 <= MaxIntents /\ Len(intents) \in Nat /\ MaxIntents \in Nat
    BY <1>1, <2>1, BoundsAssumption DEF CreateIntent, TypeOK
  <2> QED BY <1>1, <1>2, <2>1, <2>2, MarksCreated
<1>4. CASE \E i \in Known : FileSteps(i) \/ CoordinatorDies(i)
  BY <1>1, <1>2, <1>4, MarksFiled
<1>5. CASE UNCHANGED <<intents, row, file, projection>>
  BY <1>1, <1>2, <1>5, MarksStay, PointerMovesMarked
<1>6. CASE \E i \in Known : /\ Projectable(i) /\ Project(i) /\ file[i] = "written"
                            /\ UNCHANGED <<active, intents, file, result>>
  <2>1. PICK i \in Known : /\ Projectable(i) /\ Project(i) /\ file[i] = "written"
                           /\ UNCHANGED <<active, intents, file, result>>
    BY <1>6
  <2>2. CASE row[i] = "pending"
    BY <1>1, <1>2, <2>1, <2>2, MarksProjected
  <2>3. CASE row[i] # "pending"
    <3>1. UNCHANGED <<intents, row, file, projection>>
      BY <2>1, <2>3 DEF Project
    <3> QED BY <1>1, <1>2, <2>1, <3>1, MarksStay
  <2> QED BY <2>2, <2>3
<1> QED BY <1>1, <1>3, <1>4, <1>5, <1>6, ControlWrites

-----------------------------------------------------------------------------
(* The invariant, and what it says                                         *)

\* The invariants hold of the specification: the cutover relies on the rows for
\* there being one open intent, and the rows on the cutover for its results.
LEMMA InvHolds == Spec => [](IInv /\ RowsInv /\ MarksInv)
<1>1. Init => IInv /\ RowsInv /\ MarksInv
  BY InitInv, MarksInit
<1>2. ASSUME IInv, RowsInv, MarksInv, [Next]_vars
      PROVE  IInv' /\ RowsInv' /\ MarksInv'
  <2>1. IInv'
    BY <1>2, StepKeeps
  <2> QED BY <1>2, <2>1, MarksKept
<1>3. (IInv /\ RowsInv /\ MarksInv) /\ [Next]_vars => (IInv /\ RowsInv /\ MarksInv)'
  BY <1>2
<1> QED BY <1>1, <1>3, PTL DEF Spec

\* The files, the control rows and both supervisors keep their shape.
THEOREM TypeCorrect == Spec => []TypeOK
<1>1. IInv => TypeOK
  BY DEF IInv
<1> QED BY <1>1, InvHolds, PTL

\* The web server and the job worker never work on different generations, if
\* the job worker's supervisor is never restarted: both are at the pointer,
\* which moves only while both are stopped.
THEOREM ServesOneGeneration == Spec => []OneGenerationServes
<1>1. IInv => OneGenerationServes
  BY DEF IInv, WebInv, HeldInv, OneGenerationServes, Supervisors
<1> QED BY <1>1, InvHolds, PTL

\* A runtime that active.json does not name is frozen at every moment.
THEOREM FreezesInactiveRuntimes == Spec => []InactiveRuntimesAreFrozen
<1>1. IInv => InactiveRuntimesAreFrozen
  BY DEF IInv, ReliedInv, InactiveRuntimesAreFrozen
<1> QED BY <1>1, InvHolds, PTL

\* The pointer moves only under the lock of an open intent, and only while no web
\* server works on a runtime, nor a job worker, as long as the maintenance
\* supervisor was never restarted.
THEOREM MovesPointerQuietly == Spec => PointerMovesQuietly
<1>1. ASSUME IInv, [Next]_vars, active' # active
      PROVE  /\ lock \in Known /\ ~Decided(lock)
             /\ active'.intent = lock \/ active' = intents[lock].base
             /\ child["web"] = NoGen
             /\ MntNeverDied => child["maintenance"] = NoGen
  <2>1. TypeOK /\ WebInv /\ (MntNeverDied => HeldInv /\ ReliedInv)
    BY <1>1 DEF IInv
  <2>2. SwitchPointer \/ RestorePointer
    BY <1>1, <2>1, PointerMoves
  <2>3. /\ web.pc \in {"switch", "restore"}
        /\ active'.intent = web.intent \/ active' = intents[web.intent].base
    BY <2>2 DEF SwitchPointer, RestorePointer, WebAt
  <2>4. /\ web.intent \in Known /\ web.intent \in Ids /\ lock = web.intent
        /\ ~Decided(web.intent) /\ child["web"] = NoGen
    BY <2>1, <2>3, AtWork, KnownIntents DEF WebInv, Working, Childless, Lockless
  <2>5. MntNeverDied => ack[web.intent]["maintenance"] \in Stopped
    BY <2>1, <2>3 DEF ReliedInv, Preparing, Restoring, Stopped
  <2>6. MntNeverDied => child["maintenance"] = NoGen
    BY <2>1, <2>4, <2>5, KnownIntents DEF HeldInv, Stopped
  <2> QED BY <2>3, <2>4, <2>6
<1>2. IInv /\ [Next]_vars =>
         (active' # active =>
            /\ lock \in Known /\ ~Decided(lock)
            /\ active'.intent = lock \/ active' = intents[lock].base
            /\ child["web"] = NoGen
            /\ MntNeverDied => child["maintenance"] = NoGen)
  BY <1>1
<1> QED BY <1>2, InvHolds, PTL DEF Spec, PointerMovesQuietly

\* A decision describes what runs, and is never revised: a commit is decided with
\* the web server on the target, a rollback with it on the base, and the job
\* worker is on the same runtime unless its supervisor was restarted.
THEOREM WitnessesDecisions == Spec => DecisionsAreWitnessed
<1>1. ASSUME IInv, [Next]_vars, NEW i \in Known, result'[i] # result[i]
      PROVE  /\ ~Decided(i)
             /\ result'[i].status = "committed" =>
                   active.intent = i /\ child["web"] = intents[i].target
             /\ result'[i].status = "rolled_back" =>
                   active = intents[i].base /\ child["web"] = intents[i].base.gen
             /\ result'[i].status \in {"committed", "rolled_back"} /\ MntNeverDied =>
                   child["maintenance"] = child["web"]
  <2>1. TypeOK /\ WebInv /\ (MntNeverDied => HeldInv /\ ReliedInv) /\ i \in Ids
    BY <1>1, KnownIntents DEF IInv
  <2>2. CASE \E j \in Known : ~Decided(j) /\ WriteResult(j, "failed")
    <3>1. PICK j \in Known : ~Decided(j) /\ WriteResult(j, "failed")
      BY <2>2
    <3>2. j = i /\ result'[i].status = "failed"
      BY <1>1, <2>1, <3>1 DEF WriteResult, TypeOK
    <3> QED BY <3>1, <3>2
  <2>3. CASE Refuse \/ DecideCommit \/ DecideRollback \/ GiveUp
    <3>1. PICK s \in {"committed", "rolled_back", "failed", "rollback_failed"} :
             /\ WriteResult(web.intent, s)
             /\ s = "committed" => web.pc = "ready"
             /\ s = "rolled_back" => web.pc = "readyAgain"
             /\ web.pc \in {"ready", "readyAgain", "giveUp", "refuse"}
      BY <1>1, <2>3 DEF Refuse, DecideCommit, DecideRollback, GiveUp, WebAt
    <3>2. i = web.intent /\ result'[i].status = s
      BY <1>1, <2>1, <3>1 DEF WriteResult, TypeOK
    <3>3. ~Decided(i)
      BY <2>1, <3>1, <3>2 DEF WebInv, Working
    <3>4. s = "committed" =>
             active.intent = i /\ child["web"] = intents[i].target /\ child["web"] = active.gen
      BY <2>1, <3>1, <3>2 DEF WebInv, Ahead, OnTarget, Serving
    <3>5. s = "rolled_back" =>
             active = intents[i].base /\ child["web"] = active.gen
      BY <2>1, <3>1, <3>2 DEF WebInv, OnBase, Serving
    <3>6. MntNeverDied /\ s \in {"committed", "rolled_back"} =>
             ack[i]["maintenance"] \in Running
      BY <2>1, <3>1, <3>2 DEF ReliedInv, Running
    <3>7. MntNeverDied /\ s \in {"committed", "rolled_back"} =>
             child["maintenance"] = active.gen
      BY <2>1, <3>3, <3>6, KnownIntents DEF HeldInv, Running
    <3> QED BY <3>2, <3>3, <3>4, <3>5, <3>7
  <2> QED BY <1>1, <2>1, <2>2, <2>3, ResultWrites
<1>2. IInv /\ [Next]_vars =>
         \A i \in Known : result'[i] # result[i] =>
            /\ ~Decided(i)
            /\ result'[i].status = "committed" =>
                  active.intent = i /\ child["web"] = intents[i].target
            /\ result'[i].status = "rolled_back" =>
                  active = intents[i].base /\ child["web"] = intents[i].base.gen
            /\ result'[i].status \in {"committed", "rolled_back"} /\ MntNeverDied =>
                  child["maintenance"] = child["web"]
  BY <1>1
<1> QED BY <1>2, InvHolds, PTL DEF Spec, DecisionsAreWitnessed

\* With no intent open, what the control database marks active is what
\* active.json names, or nothing after a rollback that failed.
THEOREM MarksThePointer == Spec => []ProjectionFollowsPointer
<1>1. RowsInv /\ MarksInv => ProjectionFollowsPointer
  BY DEF MarksInv, LastFailed, InProgress, ProjectionFollowsPointer
<1> QED BY <1>1, InvHolds, PTL

=============================================================================
