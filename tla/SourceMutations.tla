-------------------------- MODULE SourceMutations --------------------------
(***************************************************************************)
(* The mutation barrier of one deployment                                  *)
(* (flowdocs/vaultops/services/mutations.py).                               *)
(*                                                                         *)
(* A SourceMutationState row counts the mutation scopes that are open,     *)
(* numbers the scopes that changed something (current_epoch) and holds the *)
(* barrier a snapshot closes to copy the sources while nobody writes.      *)
(* Every change of the row is one transaction on the control database.     *)
(*                                                                         *)
(* A writer is a thread inside mutation_scope: web requests open a lazy    *)
(* scope that records itself when a tracked write commits, workers open an *)
(* eager one.  A holder is a call that requests, polls, uses and releases  *)
(* the barrier on behalf of a job; two attempts of one job are two holders *)
(* that the row cannot tell apart.                                         *)
(*                                                                         *)
(* MutationOutcome.discard is left out: it takes effect only on an outcome *)
(* that is not changed, after the view that could change it has returned.  *)
(***************************************************************************)
EXTENDS Naturals, FiniteSets

CONSTANTS
    Writers,    \* threads that run mutation_scope
    Holders,    \* calls of request_barrier
    Jobs,       \* public ids of the jobs that own the barrier
    JobOf,      \* JobOf[h]: owner_job_id passed by holder h
    NoJob,      \* barrier_owner_job is null
    MaxDepth,   \* bound: nesting of scopes in one thread
    MaxScopes,  \* bound: outermost scopes ever opened
    MaxWrites,  \* bound: source writes
    MaxDeaths,  \* bound: threads that die inside a scope
    MaxErrors   \* bound: holders whose call ends without a release

ASSUME WritersAssumption == IsFiniteSet(Writers)
ASSUME JobsAssumption == JobOf \in [Holders -> Jobs] /\ NoJob \notin Jobs
ASSUME BoundsAssumption ==
    /\ MaxDepth \in Nat \ {0} /\ MaxScopes \in Nat
    /\ MaxWrites \in Nat /\ MaxDeaths \in Nat /\ MaxErrors \in Nat

VARIABLES
    barrier,  \* barrier_state and barrier_owner_job
    active,   \* active_mutations
    epoch,    \* current_epoch
    journal,  \* MutationJournalEntry rows, with the writes of their scope
    scope,    \* scope[w]: _scope_depth and _scope_outcome of thread w
    pc,       \* pc[h]: where the holder stands
    written,  \* number of source writes that committed
    heldAt,   \* heldAt[h]: written when h's request_barrier returned
    dead,     \* scopes whose thread died inside
    lost,     \* the writes of those scopes
    abandoned, \* jobs whose last call to close the barrier ended without a release
    opened, errors  \* consumed bounds

state == <<barrier, active, epoch, journal>>
ghost == <<written, heldAt, dead, lost, abandoned, opened, errors>>
vars  == <<state, scope, pc, ghost>>

Writes == 1..MaxWrites
BarrierStates == {"OPEN", "REQUESTED", "ACTIVE"}
Barrier == [state: BarrierStates, owner: Jobs \cup {NoJob}]
Open    == [state |-> "OPEN", owner |-> NoJob]
Outside == [depth |-> 0, changed |-> FALSE, writes |-> {}]
Entry   == [epoch: Nat, writes: SUBSET Writes]
HolderPCs == {"idle", "polling", "holding"}

Live == {w \in Writers : scope[w].depth > 0}
Journaled == UNION {e.writes : e \in journal}

-----------------------------------------------------------------------------
Init ==
    /\ barrier = Open
    /\ active = 0 /\ epoch = 0 /\ journal = {}
    /\ scope = [w \in Writers |-> Outside]
    /\ pc = [h \in Holders |-> "idle"]
    /\ written = 0 /\ heldAt = [h \in Holders |-> 0]
    /\ dead = 0 /\ lost = {} /\ abandoned = {} /\ opened = 0 /\ errors = 0

-----------------------------------------------------------------------------
(* mutation_scope                                                          *)

\* Count one more open scope and start its outcome.
Enter(w, eager) ==
    /\ scope[w].depth = 0
    /\ opened < MaxScopes
    /\ opened' = opened + 1
    /\ active' = active + 1
    /\ scope' = [scope EXCEPT ![w] =
                    [depth |-> 1, changed |-> eager, writes |-> {}]]
    /\ UNCHANGED <<barrier, epoch, journal, pc, written, heldAt, dead, lost, abandoned, errors>>

\* Fault: nobody looks at the barrier.
EnterScopeUnfenced(w, eager) == Enter(w, eager)

\* The outermost scope counts itself unless the barrier is closed; else it
\* raises SnapshotBarrierActive and nothing changes.
EnterScope(w, eager) ==
    /\ barrier.state = "OPEN"
    /\ Enter(w, eager)

\* A nested scope shares the outcome of the outermost one.
EnterNested(w, eager) ==
    /\ scope[w].depth \in 1..MaxDepth - 1
    /\ scope' = [scope EXCEPT ![w] =
                    [depth |-> scope[w].depth + 1, writes |-> scope[w].writes,
                     changed |-> scope[w].changed \/ eager]]
    /\ UNCHANGED <<state, pc, ghost>>

ExitNested(w) ==
    /\ scope[w].depth > 1
    /\ scope' = [scope EXCEPT ![w].depth = @ - 1]
    /\ UNCHANGED <<state, pc, ghost>>

\* Fault: the write is not observed, as if the signals were not connected.
WriteSourceUnobserved(w) ==
    /\ scope[w].depth > 0
    /\ written < MaxWrites
    /\ written' = written + 1
    /\ scope' = [scope EXCEPT ![w].writes = @ \cup {written + 1}]
    /\ UNCHANGED <<state, pc, heldAt, dead, lost, abandoned, opened, errors>>

\* A core model row is saved or deleted inside the scope; the on_commit hook
\* of the change signals marks the outcome.
WriteSource(w) ==
    /\ scope[w].depth > 0
    /\ written < MaxWrites
    /\ written' = written + 1
    /\ scope' = [scope EXCEPT ![w] =
                    [depth |-> scope[w].depth, changed |-> TRUE,
                     writes |-> scope[w].writes \cup {written + 1}]]
    /\ UNCHANGED <<state, pc, heldAt, dead, lost, abandoned, opened, errors>>

\* Fault: the journal entry carries the epoch the scope found.
ExitScopeUnnumbered(w) ==
    /\ scope[w].depth = 1
    /\ active' = IF active = 0 THEN 0 ELSE active - 1
    /\ IF scope[w].changed
       THEN /\ epoch' = epoch + 1
            /\ journal' = journal \cup {[epoch |-> epoch, writes |-> scope[w].writes]}
       ELSE UNCHANGED <<epoch, journal>>
    /\ scope' = [scope EXCEPT ![w] = Outside]
    /\ UNCHANGED <<barrier, pc, ghost>>

\* The outermost scope ends, normally or by an exception: one transaction
\* counts it down and, when it changed something, advances the epoch and
\* journals it.
ExitScope(w) ==
    /\ scope[w].depth = 1
    /\ active' = IF active = 0 THEN 0 ELSE active - 1
    /\ IF scope[w].changed
       THEN /\ epoch' = epoch + 1
            /\ journal' = journal \cup
                   {[epoch |-> epoch + 1, writes |-> scope[w].writes]}
       ELSE UNCHANGED <<epoch, journal>>
    /\ scope' = [scope EXCEPT ![w] = Outside]
    /\ UNCHANGED <<barrier, pc, ghost>>

\* The process dies inside a scope, or the exit transaction raises: the scope
\* is never counted down, and no code resets active_mutations.
WriterDies(w) ==
    /\ scope[w].depth > 0
    /\ dead < MaxDeaths
    /\ dead' = dead + 1
    /\ lost' = lost \cup scope[w].writes
    /\ scope' = [scope EXCEPT ![w] = Outside]
    /\ UNCHANGED <<state, pc, written, heldAt, abandoned, opened, errors>>

-----------------------------------------------------------------------------
(* request_barrier, assert_barrier_owner, release_barrier                  *)

\* The barrier is free or already belongs to this job.
RequestBarrier(h) ==
    /\ pc[h] = "idle"
    /\ barrier.state = "OPEN" \/ barrier.owner = JobOf[h]
    /\ barrier' = [state |-> "REQUESTED", owner |-> JobOf[h]]
    /\ pc' = [pc EXCEPT ![h] = "polling"]
    /\ abandoned' = abandoned \ {JobOf[h]}
    /\ UNCHANGED <<active, epoch, journal, scope, written, heldAt, dead, lost, opened, errors>>

\* A poll finds the job still the owner and no scope open.
PollDrained(h) ==
    /\ pc[h] = "polling"
    /\ barrier.owner = JobOf[h]
    /\ active = 0
    /\ barrier' = [barrier EXCEPT !.state = "ACTIVE"]
    /\ pc' = [pc EXCEPT ![h] = "holding"]
    /\ heldAt' = [heldAt EXCEPT ![h] = written]
    /\ UNCHANGED <<active, epoch, journal, scope, written, dead, lost, abandoned, opened, errors>>

\* A poll finds another owner: BarrierOwnershipLost.
PollLost(h) ==
    /\ pc[h] = "polling"
    /\ barrier.owner # JobOf[h]
    /\ pc' = [pc EXCEPT ![h] = "idle"]
    /\ UNCHANGED <<state, scope, ghost>>

\* release_barrier(tolerate_lost=True).
Release(h) == barrier' = IF barrier.owner = JobOf[h] THEN Open ELSE barrier

\* Fault: the drain timeout raises without giving the barrier back.
DrainTimeoutKeeping(h) ==
    /\ pc[h] = "polling"
    /\ barrier' = barrier
    /\ pc' = [pc EXCEPT ![h] = "idle"]
    /\ UNCHANGED <<active, epoch, journal, scope, ghost>>

\* The deadline passes before the scopes drain.
DrainTimeout(h) ==
    /\ pc[h] = "polling"
    /\ Release(h)
    /\ pc' = [pc EXCEPT ![h] = "idle"]
    /\ UNCHANGED <<active, epoch, journal, scope, ghost>>

\* The call ends and releases nothing: its process is killed, a polling
\* transaction raises (release_barrier is reached only after request_barrier
\* returned or timed out), or release_barrier itself raises.  The request
\* stands until a later call for the job or a clean-up opens the barrier.
AbandonBarrier(h) ==
    /\ pc[h] # "idle"
    /\ errors < MaxErrors
    /\ errors' = errors + 1
    /\ abandoned' = abandoned \cup {JobOf[h]}
    /\ pc' = [pc EXCEPT ![h] = "idle"]
    /\ heldAt' = [heldAt EXCEPT ![h] = 0]
    /\ UNCHANGED <<state, scope, written, dead, lost, opened>>

\* What assert_barrier_owner accepts.
ProvesOwnership(h) ==
    /\ pc[h] = "holding"
    /\ barrier = [state |-> "ACTIVE", owner |-> JobOf[h]]
    /\ active = 0

\* The holder's finally block.
ReleaseBarrier(h) ==
    /\ pc[h] = "holding"
    /\ Release(h)
    /\ pc' = [pc EXCEPT ![h] = "idle"]
    /\ heldAt' = [heldAt EXCEPT ![h] = 0]
    /\ UNCHANGED <<active, epoch, journal, scope, written, dead, lost, abandoned, opened, errors>>

\* The clean-up of a job's snapshot workspaces opens the barrier the job left
\* closed, once the job is quiesced and no scope is open.
ReopenBarrier(j) ==
    /\ barrier.owner = j
    /\ active = 0
    /\ barrier' = Open
    /\ UNCHANGED <<active, epoch, journal, scope, pc, ghost>>

-----------------------------------------------------------------------------
WriterNext == \E w \in Writers :
    \/ \E eager \in BOOLEAN : EnterScope(w, eager) \/ EnterNested(w, eager)
    \/ WriteSource(w)
    \/ ExitNested(w)
    \/ ExitScope(w)
    \/ WriterDies(w)

HolderNext == \E h \in Holders :
    \/ RequestBarrier(h)
    \/ PollDrained(h)
    \/ PollLost(h)
    \/ DrainTimeout(h)
    \/ AbandonBarrier(h)
    \/ ReleaseBarrier(h)

Next == WriterNext \/ HolderNext \/ \E j \in Jobs : ReopenBarrier(j)

Spec == Init /\ [][Next]_vars

\* request_barrier polls against a monotonic deadline and the callers release
\* in a finally block, so the call of a holder that is not killed ends; none
\* is forced to be killed, and nobody has to request or to clean up.  A scope
\* ends with the request or the worker step that opened it.
Fairness ==
    /\ \A h \in Holders : WF_vars(PollDrained(h) \/ PollLost(h) \/ DrainTimeout(h)
                                  \/ ReleaseBarrier(h))
    /\ \A w \in Writers : WF_vars(ExitNested(w) \/ ExitScope(w))

FairSpec == Spec /\ Fairness

-----------------------------------------------------------------------------
(* Properties *)

\* The row, the threads and the holders keep their types.
TypeOK ==
    /\ barrier \in Barrier
    /\ active \in Nat /\ epoch \in Nat
    /\ journal \subseteq Entry
    /\ scope \in [Writers -> [depth: 0..MaxDepth, changed: BOOLEAN,
                              writes: SUBSET Writes]]
    /\ pc \in [Holders -> HolderPCs]
    /\ written \in 0..MaxWrites
    /\ heldAt \in [Holders -> 0..MaxWrites]
    /\ dead \in Nat /\ opened \in Nat /\ errors \in Nat
    /\ lost \in SUBSET Writes /\ abandoned \in SUBSET Jobs

\* While the barrier is active no scope is open and every write the sources
\* have ever seen belongs to a journaled epoch: a copy taken now holds
\* exactly the writes of epochs 1..current_epoch.  A write that was never
\* journaled keeps active_mutations above zero, so the barrier stays away.
ActiveBarrierCoversWrites ==
    barrier.state = "ACTIVE" => /\ Live = {}
                                /\ Journaled = 1..written

\* Epochs number the journal without gaps or repetitions, so that the entries
\* after an epoch (journal_since) are exactly what happened after it.
JournalIsDense ==
    /\ {e.epoch : e \in journal} = 1..epoch
    /\ \A d, e \in journal : d.epoch = e.epoch => d = e

\* Nobody else acts for the job of holder h.
ActsAlone(h) == \A g \in Holders : JobOf[g] = JobOf[h] => g = h

\* When assert_barrier_owner passes, nothing was written since this caller
\* acquired the barrier, provided that it is the only one of its job: an
\* older attempt of the job could open the barrier and a newer one close it
\* again in between.
ProvenCutIsFrozen ==
    \A h \in Holders : ActsAlone(h) /\ ProvesOwnership(h) => written = heldAt[h]

\* A closed barrier is opened again, so that writers are admitted, or its job
\* is one whose last call was killed or raised: by the holder's finally block,
\* or by the drain timeout, the only way out once a thread died inside its
\* scope.  An abandoned barrier waits for a later call of that job, and that
\* call has to open it in its turn.
WritersReadmitted ==
    barrier.state # "OPEN" ~> barrier.state = "OPEN" \/ barrier.owner \in abandoned
=============================================================================
