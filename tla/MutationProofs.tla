--------------------------- MODULE MutationProofs ---------------------------
(* Proofs about SourceMutations, for every number of writers and holders,     *)
(* about SearchCorpus, for every number of search processes and documents,    *)
(* and about VaultSnapshot, for every number of attempts.  A step of the      *)
(* latter two is a step of SourceMutations or leaves its state alone, so the  *)
(* invariant proved of it is used for them.                                   *)
EXTENDS SearchCorpus, VaultSnapshot, FiniteSetTheorems, TLAPS

(* Part 1: the mutation barrier and its journal                            *)

\* The counter is the number of open scopes plus the leaked ones.
CountInv ==
    /\ active = Cardinality(Live) + dead
    /\ lost # {} => dead > 0

\* Every write is journaled, lost with its thread, or still inside a scope,
\* and a scope that wrote will be journaled.
WritesInv ==
    /\ 1..written = Journaled \cup lost \cup UNION {scope[w].writes : w \in Writers}
    /\ \A w \in Writers : scope[w].writes # {} => scope[w].changed /\ scope[w].depth > 0

\* An active barrier has an owner and no scope is counted under it.
BarrierInv == barrier.state = "ACTIVE" => active = 0

\* What the holder of an active barrier has seen is still the case.
HeldInv ==
    \A h \in Holders :
        ActsAlone(h) /\ pc[h] = "holding" /\ barrier = [state |-> "ACTIVE", owner |-> JobOf[h]]
            => written = heldAt[h]

\* What the steps preserve together.
IInv == TypeOK /\ CountInv /\ WritesInv /\ BarrierInv /\ JournalIsDense

-----------------------------------------------------------------------------
\* Opening a scope counts one more, closing it one less.
LEMMA LiveCount ==
    ASSUME NEW w, NEW S, IsFiniteSet(Live),
           S = Live \cup {w} \/ S = Live \ {w}
    PROVE  /\ IsFiniteSet(S) /\ Cardinality(S) \in Nat /\ Cardinality(Live) \in Nat
           /\ S = Live \cup {w} /\ w \notin Live => Cardinality(S) = Cardinality(Live) + 1
           /\ S = Live \ {w} /\ w \in Live => Cardinality(S) = Cardinality(Live) - 1
           /\ w \in Live => Cardinality(Live) > 0
<1>1. Cardinality(Live) \in Nat
  BY FS_CardinalityType
<1>2. IsFiniteSet(S)
  BY FS_AddElement, FS_RemoveElement
<1>3. Cardinality(S) \in Nat
  BY <1>2, FS_CardinalityType
<1>4. S = Live \cup {w} /\ w \notin Live => Cardinality(S) = Cardinality(Live) + 1
  BY FS_AddElement
<1>5. S = Live \ {w} /\ w \in Live => Cardinality(S) = Cardinality(Live) - 1
  BY FS_RemoveElement
<1>6. w \in Live => Cardinality(Live) > 0
  BY <1>1, FS_EmptySet
<1> QED BY <1>1, <1>2, <1>3, <1>4, <1>5, <1>6

\* The set of live mutations can be counted.
LEMMA LiveFinite == IsFiniteSet(Live)
BY WritersAssumption, FS_Subset DEF Live

\* The inductive invariant holds when the story starts.
LEMMA InitInv == Init => IInv
<1> SUFFICES ASSUME Init PROVE IInv
  OBVIOUS
<1> USE DEF Init
<1>1. TypeOK
  BY BoundsAssumption DEF TypeOK, Barrier, BarrierStates, Open, Outside, HolderPCs, Writes, Entry
<1>2. CountInv
  <2>1. Live = {}
    BY DEF Live, Outside
  <2> QED BY <2>1, FS_EmptySet DEF CountInv
<1>3. WritesInv
  <2>1. \A w \in Writers : scope[w].writes = {}
    BY DEF Outside
  <2>2. Journaled = {}
    BY DEF Journaled
  <2> QED BY <2>1, <2>2 DEF WritesInv
<1>4. BarrierInv
  BY DEF BarrierInv, Open
<1>5. JournalIsDense
  BY DEF JournalIsDense
<1> QED BY <1>1, <1>2, <1>3, <1>4, <1>5 DEF IInv

-----------------------------------------------------------------------------
\* Opening an outermost scope.
LEMMA EnterInv ==
    ASSUME IInv, NEW w \in Writers, NEW eager \in BOOLEAN, EnterScope(w, eager)
    PROVE  IInv'
<1>1. TypeOK'
  BY BoundsAssumption DEF IInv, TypeOK, EnterScope, Enter
<1>2. scope[w].writes = {} /\ scope'[w].writes = {} /\ scope'[w].depth = 1
  BY DEF IInv, WritesInv, TypeOK, EnterScope, Enter
<1>3. CountInv'
  <2>1. Live' = Live \cup {w} /\ w \notin Live
    BY DEF Live, IInv, TypeOK, EnterScope, Enter
  <2>2. PICK S : S = Live'
    OBVIOUS
  <2>3. IsFiniteSet(Live) /\ S = Live \cup {w} /\ w \notin Live
    BY <2>1, <2>2, LiveFinite
  <2>4. Cardinality(S) = Cardinality(Live) + 1 /\ Cardinality(Live) \in Nat
    BY <2>3, LiveCount
  <2>5. Cardinality(Live') = Cardinality(Live) + 1
    BY <2>2, <2>4
  <2> QED BY <2>4, <2>5 DEF IInv, CountInv, TypeOK, EnterScope, Enter
<1>4. WritesInv'
  <2>1. \A v \in Writers : scope'[v].writes = scope[v].writes
    BY <1>2 DEF IInv, TypeOK, EnterScope, Enter
  <2>2. \A v \in Writers : scope'[v].writes # {} => scope'[v].changed /\ scope'[v].depth > 0
    BY <1>2 DEF IInv, TypeOK, WritesInv, EnterScope, Enter
  <2>3. Journaled' = Journaled /\ UNCHANGED <<written, lost>>
    BY DEF Journaled, EnterScope, Enter
  <2> QED BY <2>1, <2>2, <2>3 DEF IInv, WritesInv
<1>5. BarrierInv' /\ JournalIsDense'
  BY DEF IInv, BarrierInv, JournalIsDense, EnterScope, Enter
<1> QED BY <1>1, <1>3, <1>4, <1>5 DEF IInv

\* Steps inside a scope: nesting and writing.
LEMMA InsideInv ==
    ASSUME IInv, NEW w \in Writers,
           \/ \E eager \in BOOLEAN : EnterNested(w, eager)
           \/ ExitNested(w)
           \/ WriteSource(w)
    PROVE  IInv'
<1>1. CASE WriteSource(w)
  <2> USE <1>1 DEF IInv, WriteSource, state
  <2>1. /\ scope'[w].writes = scope[w].writes \cup {written + 1}
        /\ scope'[w].changed /\ scope'[w].depth = scope[w].depth
        /\ \A v \in Writers : v # w => scope'[v] = scope[v]
        /\ \A v \in Writers : scope'[v].depth = scope[v].depth
    BY DEF TypeOK
  <2>2. written' \in 0..MaxWrites /\ written + 1 \in Writes
    BY BoundsAssumption DEF TypeOK, Writes
  <2>3. TypeOK'
    <3>1. scope[w] \in [depth: 0..MaxDepth, changed: BOOLEAN, writes: SUBSET Writes]
      BY DEF TypeOK
    <3>2. scope' \in [Writers -> [depth: 0..MaxDepth, changed: BOOLEAN,
                                 writes: SUBSET Writes]]
      BY <2>2, <3>1 DEF TypeOK
    <3> QED BY <2>2, <3>2 DEF TypeOK
  <2>4. CountInv'
    <3>1. Live' = Live
      BY <2>1 DEF Live
    <3> QED BY <3>1 DEF CountInv
  <2>5. WritesInv'
    <3>1. 1..written' = (1..written) \cup {written + 1}
      <4>1. written \in Nat /\ written' = written + 1
        BY BoundsAssumption DEF TypeOK
      <4>2. \A n \in Nat : 1..(n + 1) = (1..n) \cup {n + 1}
        OBVIOUS
      <4> QED BY <4>1, <4>2
    <3>2. UNION {scope'[v].writes : v \in Writers}
            = (UNION {scope[v].writes : v \in Writers}) \cup {written + 1}
      BY <2>1
    <3>3. Journaled' = Journaled /\ lost' = lost
      BY DEF Journaled
    <3>4. \A v \in Writers : scope'[v].writes # {} => scope'[v].changed /\ scope'[v].depth > 0
      BY <2>1 DEF WritesInv
    <3>5. 1..written = Journaled \cup lost \cup UNION {scope[v].writes : v \in Writers}
      BY DEF WritesInv
    <3> QED BY <3>1, <3>2, <3>3, <3>4, <3>5 DEF WritesInv
  <2>6. BarrierInv' /\ JournalIsDense'
    BY DEF BarrierInv, JournalIsDense
  <2> QED BY <2>3, <2>4, <2>5, <2>6
<1>2. ASSUME NEW eager \in BOOLEAN,
             EnterNested(w, eager) \/ ExitNested(w)
      PROVE  IInv'
  <2> USE DEF IInv, state, ghost
  <2>1. /\ \A v \in Writers : /\ scope'[v].writes = scope[v].writes
                              /\ scope[v].changed => scope'[v].changed
                              /\ scope'[v].depth > 0 <=> scope[v].depth > 0
        /\ scope' \in [Writers -> [depth: 0..MaxDepth, changed: BOOLEAN,
                                   writes: SUBSET Writes]]
        /\ UNCHANGED <<state, ghost, pc>>
    <3>1. CASE EnterNested(w, eager)
      BY <3>1, BoundsAssumption DEF TypeOK, EnterNested
    <3>2. CASE ExitNested(w)
      BY <3>2, BoundsAssumption DEF TypeOK, ExitNested
    <3> QED BY <1>2, <3>1, <3>2
  <2>2. TypeOK'
    BY <2>1 DEF TypeOK
  <2>3. CountInv'
    <3>1. Live' = Live
      BY <2>1 DEF Live
    <3> QED BY <2>1, <3>1 DEF CountInv
  <2>4. WritesInv'
    <3>1. Journaled' = Journaled
      BY <2>1 DEF Journaled
    <3> QED BY <2>1, <3>1 DEF WritesInv
  <2>5. BarrierInv' /\ JournalIsDense'
    BY <2>1 DEF BarrierInv, JournalIsDense
  <2> QED BY <2>2, <2>3, <2>4, <2>5
<1> QED BY <1>1, <1>2

\* Leaving the outermost scope, through its exit transaction or not.
LEMMA LeaveInv ==
    ASSUME IInv, NEW w \in Writers, ExitScope(w) \/ WriterDies(w)
    PROVE  IInv'
<1> USE DEF IInv
<1>1. /\ scope[w].depth > 0
      /\ scope' = [scope EXCEPT ![w] = Outside]
      /\ UNCHANGED <<barrier, pc, written, heldAt>>
      /\ scope[w] \in [depth: 0..MaxDepth, changed: BOOLEAN, writes: SUBSET Writes]
  BY DEF ExitScope, WriterDies, TypeOK, ghost, state
<1>2. scope' \in [Writers -> [depth: 0..MaxDepth, changed: BOOLEAN, writes: SUBSET Writes]]
  BY <1>1, BoundsAssumption DEF TypeOK, Outside
<1>3. /\ Cardinality(Live') = Cardinality(Live) - 1
      /\ Cardinality(Live) \in Nat /\ Cardinality(Live) > 0
  <2>1. Live' = Live \ {w} /\ w \in Live
    BY <1>1 DEF Live, Outside, TypeOK
  <2> QED BY <2>1, LiveCount, LiveFinite
<1>4. \A v \in Writers : scope'[v].writes # {} => scope'[v].changed /\ scope'[v].depth > 0
  BY <1>1 DEF Outside, TypeOK, WritesInv
<1>5. UNION {scope[v].writes : v \in Writers}
        = scope[w].writes \cup UNION {scope'[v].writes : v \in Writers}
  <2>1. scope'[w].writes = {} /\ \A v \in Writers : v # w => scope'[v] = scope[v]
    BY <1>1 DEF Outside, TypeOK
  <2> QED BY <2>1
<1>6. CASE WriterDies(w)
  <2> USE <1>6 DEF WriterDies, state
  <2>1. TypeOK'
    BY <1>1, <1>2 DEF TypeOK
  <2>2. CountInv'
    BY <1>3 DEF CountInv, TypeOK
  <2>3. WritesInv'
    <3>1. Journaled' = Journaled /\ written' = written /\ lost' = lost \cup scope[w].writes
      BY DEF Journaled
    <3>2. 1..written = Journaled \cup lost \cup UNION {scope[v].writes : v \in Writers}
      BY DEF WritesInv
    <3> QED BY <1>4, <1>5, <3>1, <3>2 DEF WritesInv
  <2>4. BarrierInv' /\ JournalIsDense'
    BY DEF BarrierInv, JournalIsDense
  <2> QED BY <2>1, <2>2, <2>3, <2>4
<1>7. CASE ExitScope(w)
  <2> USE <1>7 DEF ExitScope, ghost
  <2> DEFINE e == [epoch |-> epoch + 1, writes |-> scope[w].writes]
  <2>1. active' = active - 1 /\ active' \in Nat
    BY <1>3 DEF CountInv, TypeOK
  <2>2. CountInv'
    BY <1>3, <2>1 DEF CountInv, TypeOK
  <2>3. BarrierInv'
    BY <1>3, <2>1 DEF BarrierInv, CountInv, TypeOK
  <2>4. CASE scope[w].changed
    <3>1. epoch' = epoch + 1 /\ epoch \in Nat /\ journal' = journal \cup {e} /\ e \in Entry
      BY <1>1, <2>4 DEF TypeOK, Entry
    <3>2. TypeOK'
      BY <1>1, <1>2, <2>1, <3>1 DEF TypeOK
    <3>3. Journaled' = Journaled \cup scope[w].writes
      BY <3>1 DEF Journaled
    <3>4. WritesInv'
      BY <1>4, <1>5, <3>3 DEF WritesInv
    <3>5. JournalIsDense'
      <4>1. \A d \in journal : d.epoch \in 1..epoch
        BY DEF JournalIsDense
      <4>2. 1..(epoch + 1) = (1..epoch) \cup {epoch + 1}
        BY <3>1
      <4>3. {d.epoch : d \in journal'} = {d.epoch : d \in journal} \cup {epoch + 1}
        BY <3>1
      <4>4. {d.epoch : d \in journal'} = 1..epoch'
        BY <3>1, <4>2, <4>3 DEF JournalIsDense
      <4>5. ASSUME NEW c \in journal', NEW d \in journal', c.epoch = d.epoch
            PROVE  c = d
        <5>1. CASE c \in journal /\ d \in journal
          BY <4>5, <5>1 DEF JournalIsDense
        <5>2. CASE c = e \/ d = e
          BY <3>1, <4>1, <4>5, <5>2
        <5> QED BY <3>1, <5>1, <5>2
      <4> QED BY <4>4, <4>5 DEF JournalIsDense
    <3> QED BY <2>2, <2>3, <3>2, <3>4, <3>5
  <2>5. CASE ~scope[w].changed
    <3>1. UNCHANGED <<epoch, journal>> /\ scope[w].writes = {}
      BY <2>5 DEF WritesInv
    <3>2. TypeOK'
      BY <1>1, <1>2, <2>1, <3>1 DEF TypeOK
    <3>3. WritesInv'
      <4>1. Journaled' = Journaled
        BY <3>1 DEF Journaled
      <4> QED BY <1>4, <1>5, <3>1, <4>1 DEF WritesInv
    <3>4. JournalIsDense'
      BY <3>1 DEF JournalIsDense
    <3> QED BY <2>2, <2>3, <3>2, <3>3, <3>4
  <2> QED BY <2>4, <2>5
<1> QED BY <1>6, <1>7

\* Steps of a holder: they touch the barrier and their own place only.
LEMMA HolderInv ==
    ASSUME IInv, NEW h \in Holders,
           \/ RequestBarrier(h)
           \/ PollDrained(h)
           \/ PollLost(h)
           \/ DrainTimeout(h)
           \/ AbandonBarrier(h)
           \/ ReleaseBarrier(h)
    PROVE  IInv'
<1> USE DEF IInv
<1>1. UNCHANGED <<active, epoch, journal, scope, written, dead, lost, opened>>
  BY DEF RequestBarrier, PollDrained, PollLost, DrainTimeout, AbandonBarrier, ReleaseBarrier,
         state, ghost
<1>2. barrier' \in Barrier /\ (barrier'.state = "ACTIVE" => active = 0)
  BY JobsAssumption
  DEF RequestBarrier, PollDrained, PollLost, DrainTimeout, AbandonBarrier, ReleaseBarrier,
      state, Release, Open, Barrier, BarrierStates, BarrierInv, TypeOK
<1>3. /\ pc' \in [Holders -> HolderPCs] /\ heldAt' \in [Holders -> 0..MaxWrites]
      /\ errors' \in Nat /\ abandoned' \in SUBSET Jobs
  BY BoundsAssumption, JobsAssumption
  DEF RequestBarrier, PollDrained, PollLost, DrainTimeout, AbandonBarrier, ReleaseBarrier,
      ghost, HolderPCs, TypeOK
<1>4. TypeOK'
  BY <1>1, <1>2, <1>3 DEF TypeOK
<1>5. CountInv' /\ WritesInv' /\ BarrierInv' /\ JournalIsDense'
  <2>1. Live' = Live /\ Journaled' = Journaled
    BY <1>1 DEF Live, Journaled
  <2> QED BY <1>1, <1>2, <2>1 DEF CountInv, WritesInv, BarrierInv, JournalIsDense
<1> QED BY <1>4, <1>5

\* The clean-up opens the barrier.
LEMMA ReopenInv ==
    ASSUME IInv, NEW j \in Jobs, ReopenBarrier(j)
    PROVE  IInv'
<1> USE DEF IInv, ReopenBarrier, ghost
<1>1. TypeOK'
  BY DEF TypeOK, Open, Barrier, BarrierStates
<1>2. Live' = Live /\ Journaled' = Journaled
  BY DEF Live, Journaled
<1> QED BY <1>1, <1>2 DEF CountInv, WritesInv, BarrierInv, JournalIsDense, Open

\* Every step of the specification keeps the inductive invariant.
LEMMA StepInv == IInv /\ [Next]_vars => IInv'
<1> SUFFICES ASSUME IInv, [Next]_vars PROVE IInv'
  OBVIOUS
<1>1. CASE UNCHANGED vars
  <2>1. UNCHANGED <<barrier, active, epoch, journal, scope, pc, written, heldAt,
                    dead, lost, abandoned, opened, errors>>
    BY <1>1 DEF vars, state, ghost
  <2>2. Live' = Live /\ Journaled' = Journaled
    BY <2>1 DEF Live, Journaled
  <2>3. TypeOK'
    BY <2>1 DEF IInv, TypeOK
  <2>4. CountInv' /\ WritesInv' /\ BarrierInv' /\ JournalIsDense'
    BY <2>1, <2>2 DEF IInv, CountInv, WritesInv, BarrierInv, JournalIsDense
  <2> QED BY <2>3, <2>4 DEF IInv
<1>2. CASE WriterNext
  BY <1>2, EnterInv, InsideInv, LeaveInv DEF WriterNext
<1>3. CASE HolderNext
  BY <1>3, HolderInv DEF HolderNext
<1>4. CASE \E j \in Jobs : ReopenBarrier(j)
  BY <1>4, ReopenInv
<1> QED BY <1>1, <1>2, <1>3, <1>4 DEF Next

\* Whatever writers and holders there are, the strengthened invariant holds.
THEOREM Inductive == Spec => []IInv
BY InitInv, StepInv, PTL DEF Spec

\* The barrier row, the threads and the holders keep their types.
THEOREM TypeCorrect == Spec => []TypeOK
<1>1. IInv => TypeOK
  BY DEF IInv
<1> QED BY <1>1, Inductive, PTL

\* Under an active barrier no scope is open and the journal holds every write.
LEMMA ActiveCovers == IInv => ActiveBarrierCoversWrites
<1> SUFFICES ASSUME IInv, barrier.state = "ACTIVE"
             PROVE  Live = {} /\ Journaled = 1..written
  BY DEF ActiveBarrierCoversWrites
<1>1. Cardinality(Live) \in Nat
  BY LiveFinite, FS_CardinalityType
<1>2. Cardinality(Live) = 0 /\ dead = 0
  BY <1>1 DEF IInv, BarrierInv, CountInv, TypeOK
<1>3. Live = {} /\ lost = {}
  BY <1>2, LiveFinite, FS_EmptySet DEF IInv, CountInv
<1>4. UNION {scope[w].writes : w \in Writers} = {}
  BY <1>3 DEF IInv, WritesInv, Live
<1> QED BY <1>3, <1>4 DEF IInv, WritesInv

\* Under an active barrier no scope is open and the journal holds every write
\* the sources have seen, although threads may have died inside their scopes.
THEOREM ActiveBarrierIsCoherent == Spec => []ActiveBarrierCoversWrites
BY ActiveCovers, Inductive, PTL

\* journal_since(e) returns exactly the scopes numbered after e.
THEOREM JournalDense == Spec => []JournalIsDense
<1>1. IInv => JournalIsDense
  BY DEF IInv
<1> QED BY <1>1, Inductive, PTL

-----------------------------------------------------------------------------
\* Every step keeps what holds of a barrier that is held.
LEMMA StepHeld == IInv /\ HeldInv /\ [Next]_vars => HeldInv'
<1> SUFFICES ASSUME IInv, HeldInv, [Next]_vars, NEW h \in Holders, ActsAlone(h),
                    pc'[h] = "holding", barrier' = [state |-> "ACTIVE", owner |-> JobOf[h]]
             PROVE  written' = heldAt'[h]
  BY DEF HeldInv, ActsAlone
<1>1. CASE UNCHANGED vars
  BY <1>1 DEF vars, state, ghost, HeldInv
<1>2. CASE WriterNext
  <2>1. UNCHANGED <<barrier, pc, heldAt>>
    BY <1>2 DEF WriterNext, EnterScope, Enter, EnterNested, WriteSource, ExitNested,
                ExitScope, WriterDies, state, ghost
  <2>2. barrier.state = "ACTIVE" /\ written = heldAt[h]
    BY <2>1 DEF HeldInv
  <2>3. Live = {}
    <3>1. Cardinality(Live) \in Nat
      BY LiveFinite, FS_CardinalityType
    <3>2. Cardinality(Live) = 0
      BY <2>2, <3>1 DEF IInv, BarrierInv, CountInv, TypeOK
    <3> QED BY <3>2, LiveFinite, FS_EmptySet
  <2>4. written' = written
    BY <1>2, <2>3 DEF WriterNext, EnterScope, Enter, EnterNested, WriteSource, ExitNested,
                      ExitScope, WriterDies, ghost, Live
  <2> QED BY <2>1, <2>2, <2>4
<1>3. CASE HolderNext
  <2>1. PICK g \in Holders :
            \/ RequestBarrier(g)
            \/ PollDrained(g)
            \/ PollLost(g)
            \/ DrainTimeout(g)
            \/ AbandonBarrier(g)
            \/ ReleaseBarrier(g)
    BY <1>3 DEF HolderNext
  <2>2. CASE PollDrained(g)
    <3>1. barrier'.owner = JobOf[g]
      BY <2>2 DEF PollDrained, IInv, TypeOK, Barrier
    <3>2. g = h
      BY <3>1 DEF ActsAlone
    <3> QED BY <2>2, <3>2 DEF PollDrained, IInv, TypeOK
  <2>3. CASE PollLost(g) \/ AbandonBarrier(g) \/ DrainTimeout(g) \/ ReleaseBarrier(g)
    <3>1. /\ g # h /\ pc'[h] = pc[h] /\ heldAt'[h] = heldAt[h] /\ written' = written
          /\ barrier' = barrier \/ barrier' = Open
      BY <2>3 DEF PollLost, AbandonBarrier, DrainTimeout, ReleaseBarrier, Release, state, ghost,
                  IInv, TypeOK
    <3>2. barrier' = barrier
      BY <3>1 DEF Open
    <3> QED BY <3>1, <3>2 DEF HeldInv
  <2>4. CASE RequestBarrier(g)
    BY <2>4 DEF RequestBarrier
  <2> QED BY <2>1, <2>2, <2>3, <2>4
<1>4. CASE \E j \in Jobs : ReopenBarrier(j)
  BY <1>4 DEF ReopenBarrier, Open
<1> QED BY <1>1, <1>2, <1>3, <1>4 DEF Next

\* A holder alone in acting for its job looks, when its ownership test
\* passes, at the sources it looked at when it acquired the barrier.
THEOREM FrozenUnderProof == Spec => []ProvenCutIsFrozen
<1>1. Init => HeldInv
  BY DEF Init, HeldInv
<1>2. IInv /\ HeldInv /\ [Next]_vars => HeldInv'
  BY StepHeld
<1>3. HeldInv => ProvenCutIsFrozen
  BY DEF HeldInv, ProvenCutIsFrozen, ProvesOwnership
<1> QED BY <1>1, <1>2, <1>3, Inductive, PTL DEF Spec

-----------------------------------------------------------------------------
(* Part 2: searches against the mutation epoch                             *)

\* No open scope changed anything and none was lost: within an epoch this can
\* only cease to hold, and the identity exists only while it does.
Clean == dead = 0 /\ \A w \in Writers : ~scope[w].changed

\* rows hold what the sources hold, the documents hidden outside excepted.
IsCurrent(rows) == \A d \in Docs \ outside : rows[d] = source[d]

\* What was read under identity e is current as long as e can be the identity.
Recent(e, rows) ==
    e # NoIdentity => e <= epoch /\ (e = epoch /\ Clean => IsCurrent(rows))

\* Scopes are counted: each was opened, and each that changed something and
\* ended has advanced the epoch by one.
OpenedInv == epoch + active <= opened /\ opened <= MaxScopes

\* A search process is in a scope exactly while it promotes an index, and then
\* in an eager one; outside a scope nothing is marked as changed.
ScopeInv ==
    /\ \A p \in Procs : IF At(p, "promote") THEN scope[p].depth = 1 /\ scope[p].changed
                        ELSE scope[p].depth = 0
    /\ \A w \in Writers : scope[w].depth = 0 => ~scope[w].changed

\* Everything that is cached was read under its identity.
CacheInv ==
    /\ \A p \in Procs : Recent(corpus[p].id, corpus[p].rows)
    /\ \A e \in 0..MaxScopes : results[e] # Absent => Recent(e, results[e])

Recalling == {"cache", "recalled", "corpus"}
Optimized == Recalling \cup {"fill", "admit", "store"}
Evidence  == {"rebuild", "promote", "generate", "visible", "store"}

\* The identities of request r: the optimized paths have one, it is the one
\* the request began under, and a corpus in hand was read under it.
Identified(r) ==
    /\ r.id = NoIdentity \/ r.id = r.checked
    /\ r.pc = "idle" => r.checked = NoIdentity
    /\ r.pc = "visible" => r.checked # NoIdentity
    /\ r.pc \in Optimized => r.id # NoIdentity
    /\ r.pc \in Recalling => r.rows = Absent
    /\ r.rows # Absent /\ r.pc \in {"embed", "retrieve"} => r.id # NoIdentity
    /\ r.checked # NoIdentity => r.checked <= epoch
    /\ r.pc = "admit" => Recent(r.id, r.rows)
    /\ r.rows # Absent /\ r.pc \in {"embed", "retrieve"} => Recent(r.id, r.rows)
    /\ r.pc \in Evidence => Recent(r.checked, r.hits)

\* The hits of r were compared with the rows, or read from them, since it was
\* asked.
Compared(r) ==
    \/ r.pc \in {"rebuild", "promote", "store", "answered"}
    \/ r.pc = "recalled" /\ r.shown
    \/ r.pc = "generate" /\ r.checked = NoIdentity

\* What such a request shows was searchable at some time: it is in the set s.
Shows(r, s) ==
    /\ r.pc # "idle" => Searchable(source) \subseteq s
    /\ Compared(r) => Searchable(r.hits) \subseteq s

\* While nobody disturbed r (b is false) its identity stands, unless it moved
\* the epoch itself; a refusal has a cause.
Undisturbed(r, b) ==
    /\ ~b /\ r.checked # NoIdentity /\ ~r.promoted /\ r.pc # "promote"
          => Identity = r.checked
    /\ r.pc = "failed" => b \/ outside # {} \/ r.promoted \/ barrier.state # "OPEN"

Serves(r, s, b) == Identified(r) /\ Shows(r, s) /\ Undisturbed(r, b)

RequestInv == \A p \in Procs : Serves(req[p], seen[p], disturbed[p])

\* What the steps preserve together, next to the invariant of the mutations.
SInv == SearchTypeOK /\ OpenedInv /\ ScopeInv /\ CacheInv /\ RequestInv


-----------------------------------------------------------------------------
(* The composition                                                         *)

\* A step of the search is a step of the mutation scopes and the barrier, or
\* leaves them alone.
LEMMA SearchStepIsNext == SearchNext => [Next]_vars
<1> SUFFICES ASSUME SearchNext PROVE Next \/ UNCHANGED vars
  OBVIOUS
<1> USE ProcsAssumption
<1>1. ASSUME NEW w \in Editors, EditorWrites(w) \/ EditorScope(w) PROVE Next
  BY <1>1 DEF EditorWrites, EditorScope, Editors, Next, WriterNext
<1>2. CASE BarrierStep
  BY <1>2 DEF BarrierStep, Next
<1>3. ASSUME NEW d \in Docs, HideOutsideScope(d) PROVE UNCHANGED vars
  BY <1>3 DEF HideOutsideScope
<1>4. ASSUME NEW p \in Procs, CacheNext(p) \/ CorpusNext(p) PROVE UNCHANGED vars
  BY <1>4 DEF CacheNext, CorpusNext, Ask, CacheMiss, CacheRead, CacheDecide, UseCorpus,
              SkipDisabledCorpus, LoadMeasure, LoadRefused, LoadFill, LoadAdmit
<1>5. ASSUME NEW p \in Procs, AnswerNext(p) PROVE Next \/ UNCHANGED vars
  <2>1. CASE EnterPromotion(p) \/ Promote(p)
    BY <2>1 DEF EnterPromotion, Promote, Next, WriterNext
  <2>2. CASE ~(EnterPromotion(p) \/ Promote(p))
    BY <1>5, <2>2 DEF AnswerNext, Embedded, Retrieve, PromotionBlocked, AssertIdentity,
                      AssertVisible, Store, Reply
  <2> QED BY <2>1, <2>2
<1>6. ASSUME NEW p \in Procs, Restart(p) PROVE Next \/ UNCHANGED vars
  BY <1>6 DEF Restart, Next, WriterNext
<1> QED BY <1>1, <1>2, <1>3, <1>4, <1>5, <1>6 DEF SearchNext, SourceNext

\* The composed system runs the mutation scopes and the barrier as they are
\* specified: whatever SourceMutations guarantees holds under the search too.
THEOREM SearchKeepsMutations == SearchSpec => Spec
<1>1. SearchInit => Init
  BY DEF SearchInit
<1>2. [SearchNext]_allVars => [Next]_vars
  BY SearchStepIsNext DEF allVars
<1> QED BY <1>1, <1>2, PTL DEF SearchSpec, Spec

-----------------------------------------------------------------------------
(* The world: epoch, scopes and sources                                    *)

\* An identity exists only while the sources are at rest.
LEMMA IdentityAtRest ==
    ASSUME IInv, ScopeInv, Identity # NoIdentity
    PROVE  Identity = epoch /\ active = 0 /\ barrier.state = "OPEN" /\ Clean
<1>1. Identity = epoch /\ active = 0 /\ barrier.state = "OPEN"
  BY DEF Identity
<1>2. Cardinality(Live) \in Nat /\ dead \in Nat /\ active = Cardinality(Live) + dead
  BY LiveFinite, FS_CardinalityType DEF IInv, TypeOK, CountInv
<1>3. dead = 0 /\ Cardinality(Live) = 0
  BY <1>1, <1>2
<1>4. Live = {}
  BY <1>3, LiveFinite, FS_EmptySet
<1>5. \A w \in Writers : scope[w].depth = 0
  <2>1. \A w \in Writers : scope[w].depth \in 0..MaxDepth /\ ~(scope[w].depth > 0)
    BY <1>4 DEF Live, IInv, TypeOK
  <2> QED BY <2>1, BoundsAssumption
<1> QED BY <1>1, <1>3, <1>5 DEF Clean, ScopeInv

\* Epochs only grow, an unchanged epoch only loses its cleanness, and an
\* epoch is one of the scopes that were opened.
LEMMA EpochMoves ==
    ASSUME IInv, IInv', OpenedInv, [Next]_vars,
           \A w \in Writers : scope[w].depth = 0 => ~scope[w].changed
    PROVE  /\ epoch <= epoch' /\ (epoch' = epoch /\ Clean' => Clean)
           /\ OpenedInv'
           /\ \A w \in Writers : scope'[w].depth = 0 => ~scope'[w].changed
<1>1. /\ epoch \in Nat /\ active \in Nat /\ opened \in Nat /\ dead \in Nat /\ MaxScopes \in Nat
      /\ scope \in [Writers -> [depth: 0..MaxDepth, changed: BOOLEAN, writes: SUBSET Writes]]
  BY BoundsAssumption DEF IInv, TypeOK
<1> USE <1>1 DEF OpenedInv, Clean
<1>2. ASSUME NEW w \in Writers, NEW eager \in BOOLEAN, EnterScope(w, eager)
      PROVE  /\ epoch <= epoch' /\ (epoch' = epoch /\ Clean' => Clean)
             /\ OpenedInv'
             /\ \A v \in Writers : scope'[v].depth = 0 => ~scope'[v].changed
  BY <1>2 DEF EnterScope, Enter
<1>3. ASSUME NEW w \in Writers, NEW eager \in BOOLEAN,
             EnterNested(w, eager) \/ ExitNested(w) \/ WriteSource(w)
      PROVE  /\ epoch <= epoch' /\ (epoch' = epoch /\ Clean' => Clean)
             /\ OpenedInv'
             /\ \A v \in Writers : scope'[v].depth = 0 => ~scope'[v].changed
  <2>1. UNCHANGED <<epoch, active, opened, dead>>
    BY <1>3 DEF EnterNested, ExitNested, WriteSource, state, ghost
  <2>2. \A v \in Writers : /\ scope[v].changed => scope'[v].changed
                           /\ scope'[v].depth = 0 => scope'[v] = scope[v]
    BY <1>3, BoundsAssumption DEF EnterNested, ExitNested, WriteSource
  <2> QED BY <2>1, <2>2
<1>4. ASSUME NEW w \in Writers, ExitScope(w)
      PROVE  /\ epoch <= epoch' /\ (epoch' = epoch /\ Clean' => Clean)
             /\ OpenedInv'
             /\ \A v \in Writers : scope'[v].depth = 0 => ~scope'[v].changed
  <2>1. scope' = [scope EXCEPT ![w] = Outside] /\ opened' = opened /\ dead' = dead
    BY <1>4 DEF ExitScope, ghost
  <2>2. \A v \in Writers : scope'[v].depth = 0 => ~scope'[v].changed
    BY <2>1 DEF Outside
  <2>3. active > 0
    <3>1. w \in Live /\ Cardinality(Live) \in Nat
      BY <1>4, LiveFinite, FS_CardinalityType DEF Live, ExitScope
    <3>2. Cardinality(Live) # 0
      BY <3>1, LiveFinite, FS_EmptySet
    <3> QED BY <3>1, <3>2 DEF IInv, CountInv
  <2>4. CASE scope[w].changed
    BY <1>4, <2>1, <2>2, <2>3, <2>4 DEF ExitScope
  <2>5. CASE ~scope[w].changed
    BY <1>4, <2>1, <2>2, <2>3, <2>5 DEF ExitScope
  <2> QED BY <2>4, <2>5
<1>5. ASSUME NEW w \in Writers, WriterDies(w)
      PROVE  /\ epoch <= epoch' /\ (epoch' = epoch /\ Clean' => Clean)
             /\ OpenedInv'
             /\ \A v \in Writers : scope'[v].depth = 0 => ~scope'[v].changed
  BY <1>5 DEF WriterDies, state, Outside
<1>6. CASE UNCHANGED vars \/ HolderNext \/ \E j \in Jobs : ReopenBarrier(j)
  <2>1. UNCHANGED <<scope, epoch, active, opened, dead>>
    BY <1>6 DEF vars, state, ghost, HolderNext, RequestBarrier, PollDrained, PollLost,
                DrainTimeout, AbandonBarrier, ReleaseBarrier, ReopenBarrier
  <2> QED BY <2>1
<1> QED BY <1>2, <1>3, <1>4, <1>5, <1>6 DEF Next, WriterNext


\* What was read stays recent: the sources move only by steps that end the
\* cleanness of the epoch, or that hide a document outside.
LEMMA RecentStays ==
    ASSUME epoch \in Nat, epoch' \in Nat, epoch <= epoch',
           epoch' = epoch /\ Clean' =>
              /\ Clean
              /\ \A d \in Docs \ outside' : d \notin outside /\ source'[d] = source[d],
           NEW e \in Identities, NEW rows, Recent(e, rows)
    PROVE  Recent(e, rows)'
<1>1. e # NoIdentity => e \in Nat
  BY BoundsAssumption DEF Identities
<1> QED BY <1>1 DEF Recent, IsCurrent

\* Somebody else's step: request r goes on to serve if the step marked it as
\* disturbed, or moved nothing r relies on.
LEMMA ServesStill ==
    ASSUME epoch \in Nat, epoch' \in Nat, epoch <= epoch',
           epoch' = epoch /\ Clean' =>
              /\ Clean
              /\ \A d \in Docs \ outside' : d \notin outside /\ source'[d] = source[d],
           NEW r \in Request, NEW s, NEW b, NEW s2, NEW b2, Serves(r, s, b),
           r.pc # "idle" => s \subseteq s2 /\ Searchable(source') \subseteq s2,
           \/ b2 = TRUE
           \/ b2 = b /\ Identity' = Identity /\ outside' = outside /\ barrier' = barrier
    PROVE  Serves(r, s2, b2)'
<1>1. r.id \in Identities /\ r.checked \in Identities
  BY DEF Request
<1>2. Identified(r)'
  <2>1. r.checked # NoIdentity => r.checked \in Nat
    BY <1>1, BoundsAssumption DEF Identities
  <2>2. \A rows : Recent(r.id, rows) => Recent(r.id, rows)'
    BY <1>1, RecentStays
  <2>3. \A rows : Recent(r.checked, rows) => Recent(r.checked, rows)'
    BY <1>1, RecentStays
  <2> QED BY <2>1, <2>2, <2>3 DEF Serves, Identified
<1>3. Shows(r, s2)'
  <2>1. Compared(r) => r.pc # "idle"
    BY DEF Compared
  <2> QED BY <2>1 DEF Serves, Shows, Compared
<1>4. Undisturbed(r, b2)'
  BY DEF Serves, Undisturbed
<1> QED BY <1>2, <1>3, <1>4 DEF Serves

\* The same world, the same verdict.
LEMMA SameWorld ==
    ASSUME UNCHANGED <<vars, source, outside>>, NEW r, NEW s, NEW b
    PROVE  /\ Serves(r, s, b)' <=> Serves(r, s, b)
           /\ \A e, rows : Recent(e, rows)' <=> Recent(e, rows)
<1>1. Clean' = Clean /\ Identity' = Identity /\ epoch' = epoch /\ barrier' = barrier
  BY DEF Clean, Identity, vars, state, ghost
<1>2. \A e, rows : Recent(e, rows)' <=> Recent(e, rows)
  BY <1>1 DEF Recent, IsCurrent
<1> QED BY <1>1, <1>2 DEF Serves, Identified, Shows, Undisturbed, Compared

\* A step of the editors, of the barrier or outside every scope: the requests
\* and the caches stay, and every request is marked.
LEMMA WorldStep ==
    ASSUME IInv, IInv', SInv, [Next]_vars,
           UNCHANGED <<req, caches>>, disturbed' = [q \in Procs |-> TRUE],
           source' \in Rows, index' \in Rows, outside' \in SUBSET Docs,
           seen' \in [Procs -> SUBSET Docs],
           \A q \in Procs : req[q].pc # "idle" =>
              seen[q] \subseteq seen'[q] /\ Searchable(source') \subseteq seen'[q],
           \A q \in Procs : scope'[q] = scope[q],
           epoch' = epoch /\ Clean' =>
              \A d \in Docs \ outside' : d \notin outside /\ source'[d] = source[d]
    PROVE  SInv'
<1> USE DEF SInv
<1>1. /\ epoch <= epoch' /\ (epoch' = epoch /\ Clean' => Clean)
      /\ OpenedInv'
      /\ \A v \in Writers : scope'[v].depth = 0 => ~scope'[v].changed
  BY EpochMoves DEF ScopeInv
<1>2. epoch \in Nat /\ epoch' \in Nat
  BY DEF IInv, TypeOK
<1>3. SearchTypeOK'
  BY DEF SearchTypeOK, caches
<1>4. ScopeInv'
  BY <1>1 DEF ScopeInv, At
<1>5. CacheInv'
  <2>1. /\ \A q \in Procs : corpus[q].id \in Identities
        /\ \A e \in 0..MaxScopes : e \in Identities
    BY DEF SearchTypeOK, Identities
  <2>2. \A e \in Identities : \A rows : Recent(e, rows) => Recent(e, rows)'
    BY <1>1, <1>2, RecentStays
  <2> QED BY <2>1, <2>2 DEF CacheInv, caches
<1>6. RequestInv'
  <2>1. SUFFICES ASSUME NEW q \in Procs PROVE Serves(req[q], seen[q], disturbed[q])'
    BY DEF RequestInv
  <2> DEFINE r == req[q]
             s == seen[q]
             s2 == seen'[q]
             b == disturbed[q]
  <2>2. r \in Request /\ Serves(r, s, b) /\ req'[q] = r /\ disturbed'[q] = TRUE
    BY DEF SearchTypeOK, RequestInv
  <2>3. r.pc # "idle" => s \subseteq s2 /\ Searchable(source') \subseteq s2
    OBVIOUS
  <2>4. \A x \in Request : \A y, z, y2 :
           Serves(x, y, z) /\ (x.pc # "idle" => y \subseteq y2 /\ Searchable(source') \subseteq y2)
              => Serves(x, y2, TRUE)'
    BY <1>1, <1>2, ServesStill
  <2> HIDE DEF r, s, s2, b
  <2> QED BY <2>2, <2>3, <2>4 DEF s2
<1> QED BY <1>1, <1>3, <1>4, <1>5, <1>6


\* Row d takes a content while no cached state can be in use, or is hidden and
\* noted as such.
LEMMA SetRowStep ==
    ASSUME IInv, IInv', SInv, [Next]_vars, NEW d \in Docs, NEW v \in 0..MaxContent,
           SetRow(d, v), UNCHANGED <<req, caches>>,
           index' \in Rows, outside' \in SUBSET Docs,
           \A q \in Procs : scope'[q] = scope[q],
           \/ ~Clean'
           \/ outside' = outside \cup {d}
    PROVE  SInv'
<1>1. /\ source' = [source EXCEPT ![d] = v] /\ source \in Rows
      /\ seen' = [p \in Procs |-> IF req[p].pc = "idle" THEN {}
                                  ELSE seen[p] \cup Searchable(source')]
      /\ seen \in [Procs -> SUBSET Docs]
      /\ disturbed' = [q \in Procs |-> TRUE]
  BY DEF SetRow, DisturbAll, SInv, SearchTypeOK
<1>2. source' \in Rows /\ \A e \in Docs : e # d => source'[e] = source[e]
  BY <1>1 DEF Rows
<1>3. seen' \in [Procs -> SUBSET Docs]
  BY <1>1 DEF Searchable
<1>4. \A q \in Procs : req[q].pc # "idle" =>
         seen[q] \subseteq seen'[q] /\ Searchable(source') \subseteq seen'[q]
  BY <1>1
<1>5. epoch' = epoch /\ Clean' =>
         \A e \in Docs \ outside' : e \notin outside /\ source'[e] = source[e]
  BY <1>2
<1> QED BY <1>1, <1>2, <1>3, <1>4, <1>5, WorldStep

\* Steps of the world that write no row.
LEMMA NoRowStep ==
    ASSUME IInv, IInv', SInv, [Next]_vars,
           UNCHANGED <<source, index, seen, req, caches>>, DisturbAll,
           outside' = outside \/ (epoch' # epoch /\ outside' = {}),
           \A q \in Procs : scope'[q] = scope[q]
    PROVE  SInv'
<1>1. /\ source' \in Rows /\ index' \in Rows /\ outside' \in SUBSET Docs
      /\ seen' \in [Procs -> SUBSET Docs] /\ disturbed' = [q \in Procs |-> TRUE]
  BY DEF SInv, SearchTypeOK, DisturbAll
<1>2. \A q \in Procs : req[q].pc # "idle" =>
         seen[q] \subseteq seen'[q] /\ Searchable(source') \subseteq seen'[q]
  BY DEF SInv, RequestInv, Serves, Shows
<1>3. epoch' = epoch /\ Clean' =>
         \A d \in Docs \ outside' : d \notin outside /\ source'[d] = source[d]
  OBVIOUS
<1> QED BY <1>1, <1>2, <1>3, WorldStep

\* Editors, snapshots and hiding views keep the invariant.
LEMMA SourceKeeps ==
    ASSUME IInv, IInv', SInv, [Next]_vars, SourceNext
    PROVE  SInv'
<1>1. scope \in [Writers -> [depth: 0..MaxDepth, changed: BOOLEAN, writes: SUBSET Writes]]
  BY DEF IInv, TypeOK
<1>2. ASSUME NEW w \in Editors, EditorWrites(w) PROVE SInv'
  <2>1. PICK d \in Docs, v \in 0..MaxContent, rebuilt \in BOOLEAN :
           SetRow(d, v) /\ index' = IF rebuilt THEN source' ELSE index
    BY <1>2 DEF EditorWrites
  <2>2. w \in Writers /\ w \notin Procs /\ WriteSource(w)
        /\ UNCHANGED <<caches, req, outside, bounds>>
    BY <1>2 DEF EditorWrites, Editors
  <2>3. ~Clean' /\ \A q \in Procs : scope'[q] = scope[q]
    BY <1>1, <2>2, ProcsAssumption DEF WriteSource, Clean
  <2>4. index' \in Rows /\ outside' \in SUBSET Docs
    BY <2>1, <2>2 DEF SetRow, SInv, SearchTypeOK, Rows
  <2> QED BY <2>1, <2>2, <2>3, <2>4, SetRowStep
<1>3. ASSUME NEW w \in Editors, EditorScope(w) PROVE SInv'
  <2>1. w \notin Procs /\ scope' = [scope EXCEPT ![w] = scope'[w]]
    BY <1>1, <1>3 DEF EditorScope, Editors, EnterScope, Enter, ExitScope, WriterDies
  <2>2. \A q \in Procs : scope'[q] = scope[q]
    BY <1>1, <2>1, ProcsAssumption
  <2> QED BY <1>3, <2>2, NoRowStep DEF EditorScope
<1>4. CASE BarrierStep
  <2>1. scope' = scope
    BY <1>4 DEF BarrierStep, HolderNext, RequestBarrier, PollDrained, PollLost,
                DrainTimeout, AbandonBarrier, ReleaseBarrier, ReopenBarrier, state, ghost
  <2> QED BY <1>4, <2>1, NoRowStep DEF BarrierStep
<1>5. ASSUME NEW d \in Docs, HideOutsideScope(d) PROVE SInv'
  <2>1. /\ SetRow(d, 0) /\ outside' = outside \cup {d} /\ scope' = scope
        /\ UNCHANGED <<req, caches, index>>
    BY <1>5 DEF HideOutsideScope, vars
  <2>2. 0 \in 0..MaxContent /\ index' \in Rows /\ outside' \in SUBSET Docs
    BY <2>1, SearchBounds DEF SInv, SearchTypeOK
  <2> QED BY <2>1, <2>2, SetRowStep
<1> QED BY <1>2, <1>3, <1>4, <1>5 DEF SourceNext

-----------------------------------------------------------------------------
(* The requests                                                            *)

\* What the invariant says of the request that process p serves.
LEMMA RequestOf ==
    ASSUME SInv, NEW p \in Procs
    PROVE  /\ req[p] \in Request /\ Serves(req[p], seen[p], disturbed[p])
           /\ source \in Rows /\ seen[p] \in SUBSET Docs
           /\ NoIdentity \notin 0..MaxScopes
  BY IdentityAssumption, BoundsAssumption DEF SInv, SearchTypeOK, RequestInv

\* A step of a request that moves nothing but the request and the caches.
LEMMA RequestStep ==
    ASSUME IInv, SInv, NEW p \in Procs, NEW r \in Request,
           Step(p, r), Rest(p), UNCHANGED vars,
           r.pc # "promote", ~At(p, "promote"),
           Serves(r, seen[p], disturbed[p]),
           results' \in [0..MaxScopes -> Rows \cup {Absent}],
           corpus' \in [Procs -> [id: Identities, rows: Rows \cup {Absent}]],
           disabled' \in [Procs -> Identities],
           \A q \in Procs : Recent(corpus'[q].id, corpus'[q].rows),
           \A e \in 0..MaxScopes : results'[e] # Absent => Recent(e, results'[e])
    PROVE  SInv'
<1> USE DEF SInv
<1>1. /\ UNCHANGED <<vars, source, index, outside, seen, disturbed>>
      /\ req' = [req EXCEPT ![p] = r]
  BY DEF Rest, Step
<1>2. SearchTypeOK'
  BY <1>1 DEF SearchTypeOK
<1>3. OpenedInv'
  BY <1>1 DEF OpenedInv, vars, state, ghost
<1>4. \A q \in Procs : req'[q] = IF q = p THEN r ELSE req[q]
  BY <1>1 DEF SearchTypeOK
<1>5. ScopeInv'
  <2>1. scope' = scope
    BY <1>1 DEF vars
  <2> QED BY <1>4, <2>1 DEF ScopeInv, At
<1>6. \A e, rows : Recent(e, rows)' <=> Recent(e, rows)
  BY <1>1, SameWorld
<1>7. CacheInv'
  BY <1>6 DEF CacheInv
<1>8. RequestInv'
  <2>1. \A x, s, b : Serves(x, s, b)' <=> Serves(x, s, b)
    BY <1>1, SameWorld
  <2>2. SUFFICES ASSUME NEW q \in Procs PROVE Serves(req[q], seen[q], disturbed[q])'
    BY DEF RequestInv
  <2>3. Serves(req'[q], seen[q], disturbed[q])
    BY <1>4 DEF RequestInv
  <2> QED BY <1>1, <2>1, <2>3
<1> QED BY <1>2, <1>3, <1>5, <1>7, <1>8


\* The same when the caches stay as they are.
LEMMA PlainStep ==
    ASSUME IInv, SInv, NEW p \in Procs, NEW r \in Request,
           Step(p, r), Rest(p), UNCHANGED <<vars, caches>>,
           r.pc # "promote", ~At(p, "promote"),
           Serves(r, seen[p], disturbed[p])
    PROVE  SInv'
<1>1. /\ results' \in [0..MaxScopes -> Rows \cup {Absent}]
      /\ corpus' \in [Procs -> [id: Identities, rows: Rows \cup {Absent}]]
      /\ disabled' \in [Procs -> Identities]
  BY DEF SInv, SearchTypeOK, caches
<1>2. /\ \A q \in Procs : Recent(corpus'[q].id, corpus'[q].rows)
      /\ \A e \in 0..MaxScopes : results'[e] # Absent => Recent(e, results'[e])
  BY DEF SInv, CacheInv, caches
<1> QED BY <1>1, <1>2, RequestStep

\* Recalling a cached result and looking for a corpus.
LEMMA RecallKeeps ==
    ASSUME IInv, SInv, NEW p \in Procs,
           CacheMiss(p) \/ CacheRead(p) \/ UseCorpus(p) \/ SkipDisabledCorpus(p) \/ LoadMeasure(p)
    PROVE  SInv'
<1> DEFINE r == req[p]
<1>1. /\ r \in Request /\ Serves(r, seen[p], disturbed[p])
      /\ source \in Rows /\ seen[p] \in SUBSET Docs
      /\ NoIdentity \notin 0..MaxScopes
  BY RequestOf
<1> USE DEF Serves, Identified, Shows, Undisturbed, Compared, Optimized, Recalling, Evidence,
            Request, RequestPCs, At
<1>2. CASE CacheMiss(p)
  <2> DEFINE n == [r EXCEPT !.pc = "corpus"]
  <2>1. n \in Request /\ Serves(n, seen[p], disturbed[p])
    BY <1>1, <1>2 DEF CacheMiss
  <2>2. Step(p, n) /\ Rest(p) /\ UNCHANGED <<vars, caches>> /\ ~At(p, "promote") /\ n.pc # "promote"
    BY <1>1, <1>2 DEF CacheMiss
  <2> QED BY <2>1, <2>2, PlainStep
<1>3. CASE CacheRead(p)
  <2> DEFINE hits == results[r.id]
             n == [r EXCEPT !.pc = "recalled", !.hits = hits, !.shown = Visible(hits)]
  <2>1. hits \in Rows /\ Visible(hits) \in BOOLEAN
    <3>1. r.id \in 0..MaxScopes
      BY <1>1, <1>3 DEF CacheRead, Identities
    <3> QED BY <1>3, <3>1 DEF CacheRead, SInv, SearchTypeOK, Visible
  <2>2. Visible(hits) => Searchable(hits) \subseteq seen[p]
    BY <1>1, <1>3 DEF CacheRead, Visible
  <2>3. Step(p, n) /\ Rest(p) /\ UNCHANGED <<vars, caches>> /\ ~At(p, "promote")
    BY <1>3 DEF CacheRead
  <2> HIDE DEF hits
  <2>4. n \in Request /\ Serves(n, seen[p], disturbed[p]) /\ n.pc # "promote"
    BY <1>1, <1>3, <2>1, <2>2 DEF CacheRead
  <2> QED BY <2>3, <2>4, PlainStep
<1>4. CASE UseCorpus(p)
  <2> DEFINE rows == corpus[p].rows
             n == [r EXCEPT !.pc = "embed", !.rows = rows]
  <2>1. rows \in Rows \cup {Absent} /\ Recent(r.id, rows)
    BY <1>4 DEF UseCorpus, SInv, SearchTypeOK, CacheInv
  <2>2. Step(p, n) /\ Rest(p) /\ UNCHANGED <<vars, caches>> /\ ~At(p, "promote")
    BY <1>4 DEF UseCorpus
  <2> HIDE DEF rows
  <2>3. n \in Request /\ Serves(n, seen[p], disturbed[p]) /\ n.pc # "promote"
    BY <1>1, <1>4, <2>1 DEF UseCorpus
  <2> QED BY <2>2, <2>3, PlainStep
<1>5. CASE SkipDisabledCorpus(p)
  <2> DEFINE n == Fallback(r)
  <2>1. /\ n \in Request
        /\ n.pc = "embed" /\ n.id = NoIdentity /\ n.checked = r.checked /\ n.rows = r.rows
        /\ n.promoted = r.promoted
    <3>1. NoIdentity \in Identities /\ Nothing \in Rows
      BY SearchBounds DEF Identities, Nothing, Rows
    <3> QED BY <1>1, <3>1 DEF Fallback
  <2>2. Step(p, n) /\ Rest(p) /\ UNCHANGED <<vars, caches>> /\ ~At(p, "promote")
    BY <1>5 DEF SkipDisabledCorpus
  <2> HIDE DEF n
  <2>3. Serves(n, seen[p], disturbed[p])
    BY <1>1, <1>5, <2>1 DEF SkipDisabledCorpus, Recent
  <2> QED BY <2>1, <2>2, <2>3, PlainStep
<1>6. CASE LoadMeasure(p)
  <2> DEFINE n == [r EXCEPT !.pc = "fill", !.rows = source]
  <2>1. n \in Request /\ Serves(n, seen[p], disturbed[p])
    BY <1>1, <1>6 DEF LoadMeasure
  <2>2. Step(p, n) /\ Rest(p) /\ UNCHANGED <<vars, caches>> /\ ~At(p, "promote") /\ n.pc # "promote"
    BY <1>1, <1>6 DEF LoadMeasure
  <2> QED BY <2>1, <2>2, PlainStep
<1> QED BY <1>2, <1>3, <1>4, <1>5, <1>6

\* A fallback loses the optimized identity and goes on without a corpus.
LEMMA FallbackServes ==
    ASSUME SInv, NEW p \in Procs, req[p].pc \in {"recalled", "fill", "admit", "embed"},
           NEW r, r \in {Fallback(req[p]), [Fallback(req[p]) EXCEPT !.rows = Absent],
                         [Fallback(req[p]) EXCEPT !.pc = "retrieve", !.rows = Absent]},
           r.rows = Absent
    PROVE  r \in Request /\ r.pc # "promote" /\ Serves(r, seen[p], disturbed[p])
<1>1. /\ req[p] \in Request /\ Serves(req[p], seen[p], disturbed[p])
      /\ seen[p] \in SUBSET Docs
  BY RequestOf
<1>2. NoIdentity \in Identities /\ Nothing \in Rows
  BY SearchBounds DEF Identities, Nothing, Rows
<1>3. \A x \in Request :
         LET f == Fallback(x)
         IN  /\ f \in Request /\ f.pc = "embed" /\ f.id = NoIdentity
             /\ f.checked = x.checked /\ f.promoted = x.promoted
  BY <1>2 DEF Fallback, Request, RequestPCs
<1>4. \A f \in Request :
         /\ [f EXCEPT !.rows = Absent] \in Request
         /\ [f EXCEPT !.rows = Absent].pc = f.pc
         /\ [f EXCEPT !.rows = Absent].id = f.id
         /\ [f EXCEPT !.rows = Absent].checked = f.checked
         /\ [f EXCEPT !.rows = Absent].promoted = f.promoted
  BY DEF Request
<1>5. \A f \in Request :
         /\ [f EXCEPT !.pc = "retrieve", !.rows = Absent] \in Request
         /\ [f EXCEPT !.pc = "retrieve", !.rows = Absent].pc = "retrieve"
         /\ [f EXCEPT !.pc = "retrieve", !.rows = Absent].id = f.id
         /\ [f EXCEPT !.pc = "retrieve", !.rows = Absent].checked = f.checked
         /\ [f EXCEPT !.pc = "retrieve", !.rows = Absent].promoted = f.promoted
  BY DEF Request, RequestPCs
<1>6. /\ r \in Request /\ r.pc \in {"embed", "retrieve"} /\ r.id = NoIdentity
      /\ r.checked = req[p].checked /\ r.promoted = req[p].promoted
  <2>1. PICK f \in Request :
           /\ f = Fallback(req[p]) /\ f.pc = "embed" /\ f.id = NoIdentity
           /\ f.checked = req[p].checked /\ f.promoted = req[p].promoted
    BY <1>1, <1>3
  <2>2. CASE r = f
    BY <2>1, <2>2
  <2>3. CASE r = [f EXCEPT !.rows = Absent]
    BY <1>4, <2>1, <2>3
  <2>4. CASE r = [f EXCEPT !.pc = "retrieve", !.rows = Absent]
    BY <1>5, <2>1, <2>4
  <2> QED BY <2>1, <2>2, <2>3, <2>4
<1> QED BY <1>1, <1>6 DEF Serves, Identified, Shows, Undisturbed, Compared, Optimized,
                          Recalling, Evidence


\* A corpus or a result goes; what remains was read under its identity.
LEMMA CachesShrink ==
    ASSUME SInv,
           \A q \in Procs : corpus'[q] = corpus[q] \/ corpus'[q] = NoCorpus,
           \A e \in 0..MaxScopes : results'[e] = results[e] \/ results'[e] = Absent
    PROVE  /\ \A q \in Procs : Recent(corpus'[q].id, corpus'[q].rows)
           /\ \A e \in 0..MaxScopes : results'[e] # Absent => Recent(e, results'[e])
<1>1. Recent(NoCorpus.id, NoCorpus.rows)
  BY DEF Recent, NoCorpus
<1> QED BY <1>1 DEF SInv, CacheInv

\* Deciding on a recalled result.
LEMMA DecideKeeps ==
    ASSUME IInv, SInv, NEW p \in Procs, CacheDecide(p)
    PROVE  SInv'
<1>1. /\ req[p] \in Request /\ Serves(req[p], seen[p], disturbed[p])
      /\ req[p].pc = "recalled" /\ NoIdentity \notin 0..MaxScopes
      /\ Rest(p) /\ UNCHANGED vars /\ ~At(p, "promote")
  BY RequestOf DEF CacheDecide, At
<1>2. CASE req[p].shown /\ Identity = req[p].id
  <2> DEFINE n == [req[p] EXCEPT !.pc = "answered"]
  <2>1. n \in Request /\ n.pc # "promote" /\ Serves(n, seen[p], disturbed[p])
    BY <1>1, <1>2 DEF Request, RequestPCs, Serves, Identified, Shows, Undisturbed, Compared,
                      Optimized, Recalling, Evidence
  <2>2. Step(p, n) /\ UNCHANGED caches
    BY <1>2 DEF CacheDecide
  <2> HIDE DEF n
  <2> QED BY <1>1, <2>1, <2>2, PlainStep
<1>3. CASE ~(req[p].shown /\ Identity = req[p].id)
  <2> DEFINE n == Fallback(req[p])
  <2>1. req[p].rows = Absent /\ req[p].id \in 0..MaxScopes
    BY <1>1 DEF Serves, Identified, Recalling, Optimized, Request, Identities
  <2>2. n.rows = Absent
    BY <1>1, <2>1 DEF Fallback, Request
  <2>3. n \in Request /\ n.pc # "promote" /\ Serves(n, seen[p], disturbed[p])
    BY <1>1, <2>2, FallbackServes
  <2>4. /\ Step(p, n) /\ results' = [results EXCEPT ![req[p].id] = Absent]
        /\ UNCHANGED <<corpus, disabled>> \/ Disable(p, req[p].id)
    BY <1>3 DEF CacheDecide
  <2>5. /\ NoCorpus \in [id: Identities, rows: Rows \cup {Absent}]
        /\ results \in [0..MaxScopes -> Rows \cup {Absent}]
        /\ corpus \in [Procs -> [id: Identities, rows: Rows \cup {Absent}]]
        /\ disabled \in [Procs -> Identities] /\ req[p].id \in Identities
    BY <2>1 DEF SInv, SearchTypeOK, NoCorpus, Identities
  <2>6. /\ results' \in [0..MaxScopes -> Rows \cup {Absent}]
        /\ corpus' \in [Procs -> [id: Identities, rows: Rows \cup {Absent}]]
        /\ disabled' \in [Procs -> Identities]
    BY <2>4, <2>5 DEF Disable
  <2>7. /\ \A q \in Procs : Recent(corpus'[q].id, corpus'[q].rows)
        /\ \A e \in 0..MaxScopes : results'[e] # Absent => Recent(e, results'[e])
    BY <2>4, <2>5, CachesShrink DEF Disable
  <2> HIDE DEF n
  <2> QED BY <1>1, <2>3, <2>4, <2>6, <2>7, RequestStep
<1> QED BY <1>2, <1>3

\* Loading a corpus in two passes and publishing it under its identity.
LEMMA LoadKeeps ==
    ASSUME IInv, SInv, NEW p \in Procs,
           LoadRefused(p) \/ LoadFill(p) \/ LoadAdmit(p)
    PROVE  SInv'
<1>1. /\ req[p] \in Request /\ Serves(req[p], seen[p], disturbed[p])
      /\ req[p].pc \in {"fill", "admit"} /\ source \in Rows
      /\ Rest(p) /\ UNCHANGED vars /\ ~At(p, "promote")
  BY RequestOf DEF LoadRefused, LoadFill, LoadAdmit, At
<1>2. /\ NoCorpus \in [id: Identities, rows: Rows \cup {Absent}]
      /\ results \in [0..MaxScopes -> Rows \cup {Absent}]
      /\ corpus \in [Procs -> [id: Identities, rows: Rows \cup {Absent}]]
      /\ disabled \in [Procs -> Identities] /\ req[p].id \in Identities
      /\ NoIdentity \in Identities
  BY <1>1 DEF SInv, SearchTypeOK, NoCorpus, Identities, Request
<1>3. ASSUME RefuseCorpus(p) PROVE SInv'
  <2> DEFINE n == [Fallback(req[p]) EXCEPT !.rows = Absent]
  <2>1. n.rows = Absent
    BY <1>1 DEF Fallback, Request
  <2>2. n \in Request /\ n.pc # "promote" /\ Serves(n, seen[p], disturbed[p])
    BY <1>1, <2>1, FallbackServes
  <2>3. /\ Step(p, n) /\ corpus' = [corpus EXCEPT ![p] = NoCorpus]
        /\ disabled' = [disabled EXCEPT ![p] = req[p].id] /\ UNCHANGED results
    BY <1>3 DEF RefuseCorpus
  <2>4. /\ results' \in [0..MaxScopes -> Rows \cup {Absent}]
        /\ corpus' \in [Procs -> [id: Identities, rows: Rows \cup {Absent}]]
        /\ disabled' \in [Procs -> Identities]
    BY <1>2, <2>3
  <2>5. /\ \A q \in Procs : Recent(corpus'[q].id, corpus'[q].rows)
        /\ \A e \in 0..MaxScopes : results'[e] # Absent => Recent(e, results'[e])
    BY <1>2, <2>3, CachesShrink
  <2> HIDE DEF n
  <2> QED BY <1>1, <2>2, <2>3, <2>4, <2>5, RequestStep
<1>4. CASE LoadFill(p) /\ ~RefuseCorpus(p)
  <2> DEFINE n == [req[p] EXCEPT !.pc = "admit", !.rows = source]
  <2>1. n \in Request /\ n.pc # "promote" /\ n.id = req[p].id
        /\ n.pc = "admit" /\ n.rows = source /\ n.checked = req[p].checked
        /\ n.promoted = req[p].promoted
    BY <1>1 DEF Request, RequestPCs
  <2>2. Step(p, n) /\ UNCHANGED caches /\ req[p].pc = "fill"
    BY <1>4 DEF LoadFill, At
  <2> HIDE DEF n
  <2>3. Recent(n.id, n.rows)
    BY <1>1, <2>1, <2>2 DEF Recent, IsCurrent, Serves, Identified
  <2>4. Serves(n, seen[p], disturbed[p])
    BY <1>1, <2>1, <2>2, <2>3 DEF Serves, Identified, Shows, Undisturbed, Compared,
                      Optimized, Recalling, Evidence
  <2> QED BY <1>1, <2>1, <2>2, <2>4, PlainStep
<1>5. CASE LoadAdmit(p) /\ ~RefuseCorpus(p)
  <2> DEFINE n == [req[p] EXCEPT !.pc = "embed"]
             x == [id |-> req[p].id, rows |-> req[p].rows]
  <2>1. /\ n \in Request /\ n.pc # "promote" /\ n.pc = "embed" /\ n.id = req[p].id
        /\ n.rows = req[p].rows /\ n.checked = req[p].checked /\ n.promoted = req[p].promoted
    BY <1>1 DEF Request, RequestPCs
  <2>2. /\ Step(p, n) /\ UNCHANGED results /\ req[p].pc = "admit"
        /\ corpus' = [corpus EXCEPT ![p] = x]
        /\ disabled' = [disabled EXCEPT ![p] = NoIdentity]
        /\ Identity = req[p].id
    BY <1>5 DEF LoadAdmit, At
  <2>3. x \in [id: Identities, rows: Rows \cup {Absent}]
    BY <1>1 DEF Request
  <2>4. Recent(req[p].id, req[p].rows) /\ req[p].id # NoIdentity
    BY <1>1, <2>2 DEF Serves, Identified, Optimized
  <2> HIDE DEF n
  <2>5. Serves(n, seen[p], disturbed[p])
    BY <1>1, <2>1, <2>2, <2>4 DEF Serves, Identified, Shows, Undisturbed, Compared,
                      Optimized, Recalling, Evidence
  <2>6. /\ results' \in [0..MaxScopes -> Rows \cup {Absent}]
        /\ corpus' \in [Procs -> [id: Identities, rows: Rows \cup {Absent}]]
        /\ disabled' \in [Procs -> Identities]
    BY <1>2, <2>2, <2>3
  <2>7. /\ \A q \in Procs : Recent(corpus'[q].id, corpus'[q].rows)
        /\ \A e \in 0..MaxScopes : results'[e] # Absent => Recent(e, results'[e])
    BY <1>2, <2>2, <2>4 DEF SInv, CacheInv
  <2> QED BY <1>1, <2>1, <2>2, <2>5, <2>6, <2>7, RequestStep
<1> QED BY <1>3, <1>4, <1>5 DEF LoadRefused, LoadFill, LoadAdmit


\* Embedding, retrieving, and the two checks before an answer leaves.
LEMMA AnswerKeeps ==
    ASSUME IInv, SInv, NEW p \in Procs,
           \/ Embedded(p) \/ Retrieve(p) \/ PromotionBlocked(p)
           \/ AssertIdentity(p) \/ AssertVisible(p)
    PROVE  SInv'
<1> DEFINE r == req[p]
<1>1. /\ r \in Request /\ Serves(r, seen[p], disturbed[p])
      /\ source \in Rows /\ seen[p] \in SUBSET Docs
      /\ Rest(p) /\ UNCHANGED <<vars, caches>> /\ ~At(p, "promote")
  BY RequestOf DEF Embedded, Retrieve, PromotionBlocked, AssertIdentity, AssertVisible, At
<1>2. CASE Embedded(p)
  <2>1. CASE r.rows = Absent \/ Identity = r.id
    <3> DEFINE n == [r EXCEPT !.pc = "retrieve"]
    <3>1. n \in Request /\ n.pc # "promote" /\ Serves(n, seen[p], disturbed[p])
      BY <1>1, <1>2 DEF Embedded, At, Request, RequestPCs, Serves, Identified, Shows,
                        Undisturbed, Compared, Optimized, Recalling, Evidence
    <3>2. Step(p, n)
      BY <1>2, <2>1 DEF Embedded
    <3> HIDE DEF n
    <3> QED BY <1>1, <3>1, <3>2, PlainStep
  <2>2. CASE ~(r.rows = Absent \/ Identity = r.id)
    <3> DEFINE n == [Fallback(r) EXCEPT !.pc = "retrieve", !.rows = Absent]
    <3>1. n.rows = Absent /\ r.pc = "embed"
      BY <1>1, <1>2 DEF Embedded, At, Fallback, Request
    <3>2. n \in Request /\ n.pc # "promote" /\ Serves(n, seen[p], disturbed[p])
      BY <3>1, FallbackServes
    <3>3. Step(p, n)
      BY <1>2, <2>2 DEF Embedded
    <3> HIDE DEF n
    <3> QED BY <1>1, <3>2, <3>3, PlainStep
  <2> QED BY <2>1, <2>2
<1>3. CASE Retrieve(p)
  <2>1. CASE r.rows # Absent
    <3> DEFINE n == [r EXCEPT !.pc = "generate", !.hits = r.rows]
    <3>1. /\ n \in Request /\ n.pc = "generate" /\ n.id = r.id /\ n.checked = r.checked
          /\ n.hits = r.rows /\ n.promoted = r.promoted /\ n.rows = r.rows
      BY <1>1, <2>1 DEF Request, RequestPCs
    <3>2. Step(p, n) /\ r.pc = "retrieve"
      BY <1>3, <2>1 DEF Retrieve, At
    <3>3. r.id # NoIdentity /\ r.id = r.checked /\ Recent(r.checked, r.rows)
      BY <1>1, <2>1, <3>2 DEF Serves, Identified
    <3> HIDE DEF n
    <3>4. Serves(n, seen[p], disturbed[p])
      BY <1>1, <3>1, <3>2, <3>3 DEF Serves, Identified, Shows, Undisturbed, Compared,
                                    Optimized, Recalling, Evidence
    <3> QED BY <1>1, <3>1, <3>2, <3>4, PlainStep
  <2>2. CASE r.rows = Absent
    <3> DEFINE n == [r EXCEPT !.hits = source,
                              !.pc = IF source \in {Nothing, index} THEN "generate" ELSE "rebuild"]
    <3>1. /\ n \in Request /\ n.pc \in {"generate", "rebuild"} /\ n.id = r.id
          /\ n.checked = r.checked /\ n.hits = source /\ n.promoted = r.promoted /\ n.rows = r.rows
      BY <1>1 DEF Request, RequestPCs
    <3>2. Step(p, n) /\ r.pc = "retrieve"
      BY <1>3, <2>2 DEF Retrieve, At
    <3>3. Recent(r.checked, source)
      BY <1>1 DEF Serves, Identified, Recent, IsCurrent
    <3> HIDE DEF n
    <3>4. Serves(n, seen[p], disturbed[p])
      BY <1>1, <2>2, <3>1, <3>2, <3>3 DEF Serves, Identified, Shows, Undisturbed, Compared,
                                    Optimized, Recalling, Evidence
    <3> QED BY <1>1, <3>1, <3>2, <3>4, PlainStep
  <2> QED BY <2>1, <2>2
<1>4. CASE PromotionBlocked(p)
  <2> DEFINE n == [r EXCEPT !.pc = "failed"]
  <2>1. n \in Request /\ n.pc # "promote" /\ Serves(n, seen[p], disturbed[p])
    BY <1>1, <1>4 DEF PromotionBlocked, At, Request, RequestPCs, Serves, Identified, Shows,
                      Undisturbed, Compared, Optimized, Recalling, Evidence
  <2>2. Step(p, n)
    BY <1>4 DEF PromotionBlocked
  <2> HIDE DEF n
  <2> QED BY <1>1, <2>1, <2>2, PlainStep
<1>5. CASE AssertIdentity(p)
  <2> DEFINE to == IF r.checked = NoIdentity THEN "answered"
                   ELSE IF Identity = r.checked THEN "visible" ELSE "failed"
             n == [r EXCEPT !.pc = to]
  <2>1. /\ n \in Request /\ n.pc = to /\ n.id = r.id /\ n.rows = r.rows
        /\ n.checked = r.checked /\ n.hits = r.hits /\ n.promoted = r.promoted
    BY <1>1 DEF Request, RequestPCs
  <2>2. Step(p, n) /\ r.pc = "generate"
    BY <1>5 DEF AssertIdentity, At
  <2> HIDE DEF n
  <2>3. Serves(n, seen[p], disturbed[p]) /\ n.pc # "promote"
    BY <1>1, <2>1, <2>2 DEF Serves, Identified, Shows, Undisturbed, Compared,
                            Optimized, Recalling, Evidence
  <2> QED BY <1>1, <2>1, <2>2, <2>3, PlainStep
<1>6. CASE AssertVisible(p)
  <2> DEFINE to == IF ~Visible(r.hits) THEN "failed"
                   ELSE IF r.id = NoIdentity THEN "answered" ELSE "store"
             n == [r EXCEPT !.pc = to]
  <2>1. /\ n \in Request /\ n.pc = to /\ n.id = r.id /\ n.rows = r.rows
        /\ n.checked = r.checked /\ n.hits = r.hits /\ n.promoted = r.promoted
    BY <1>1 DEF Request, RequestPCs
  <2>2. Step(p, n) /\ r.pc = "visible"
    BY <1>6 DEF AssertVisible, At
  <2>3. r.checked # NoIdentity /\ Recent(r.checked, r.hits) /\ r.hits \in Rows
    BY <1>1, <2>2 DEF Serves, Identified, Evidence, Request
  \* Nobody disturbed the request and nothing was hidden outside: the hits are
  \* the rows, so every reference is visible.
  <2>4. ~Visible(r.hits) => disturbed[p] \/ outside # {} \/ r.promoted
    <3>1. SUFFICES ASSUME ~disturbed[p], outside = {}, ~r.promoted PROVE Visible(r.hits)
      OBVIOUS
    <3>2. Identity = r.checked
      BY <1>1, <2>2, <2>3, <3>1 DEF Serves, Undisturbed
    <3>3. Identity = epoch /\ Clean
      BY <2>3, <3>2, IdentityAtRest DEF SInv
    <3>4. IsCurrent(r.hits)
      BY <2>3, <3>2, <3>3 DEF Recent
    <3> QED BY <3>1, <3>4 DEF IsCurrent, Visible, Searchable
  <2>5. Visible(r.hits) => Searchable(r.hits) \subseteq seen[p]
    BY <1>1, <2>2 DEF Visible, Serves, Shows
  <2> HIDE DEF n
  <2>6. Serves(n, seen[p], disturbed[p]) /\ n.pc # "promote"
    BY <1>1, <2>1, <2>2, <2>3, <2>4, <2>5 DEF Serves, Identified, Shows, Undisturbed, Compared,
                            Optimized, Recalling, Evidence
  <2> QED BY <1>1, <2>1, <2>2, <2>6, PlainStep
<1> QED BY <1>2, <1>3, <1>4, <1>5, <1>6

\* A result is cached only under the identity that stands.
LEMMA StoreKeeps ==
    ASSUME IInv, SInv, NEW p \in Procs, Store(p)
    PROVE  SInv'
<1> DEFINE r == req[p]
           n == [r EXCEPT !.pc = "answered"]
<1>1. /\ r \in Request /\ Serves(r, seen[p], disturbed[p])
      /\ Rest(p) /\ UNCHANGED <<vars, corpus, disabled>> /\ ~At(p, "promote")
      /\ r.pc = "store" /\ Step(p, n)
  BY RequestOf DEF Store, At
<1>2. /\ n \in Request /\ n.pc = "answered" /\ n.id = r.id /\ n.rows = r.rows
      /\ n.checked = r.checked /\ n.hits = r.hits /\ n.promoted = r.promoted
  BY <1>1 DEF Request, RequestPCs
<1>3. r.id # NoIdentity /\ r.id = r.checked /\ Recent(r.id, r.hits) /\ r.hits \in Rows
      /\ r.id \in 0..MaxScopes
  BY <1>1 DEF Serves, Identified, Optimized, Evidence, Request, Identities
<1> HIDE DEF n
<1>4. Serves(n, seen[p], disturbed[p])
  BY <1>1, <1>2, <1>3 DEF Serves, Identified, Shows, Undisturbed, Compared,
                          Optimized, Recalling, Evidence
<1>5. results' = results \/ results' = [results EXCEPT ![r.id] = r.hits]
  BY DEF Store
<1>6. /\ results' \in [0..MaxScopes -> Rows \cup {Absent}]
      /\ corpus' \in [Procs -> [id: Identities, rows: Rows \cup {Absent}]]
      /\ disabled' \in [Procs -> Identities]
  BY <1>1, <1>3, <1>5 DEF SInv, SearchTypeOK
<1>7. /\ \A q \in Procs : Recent(corpus'[q].id, corpus'[q].rows)
      /\ \A e \in 0..MaxScopes : results'[e] # Absent => Recent(e, results'[e])
  BY <1>1, <1>3, <1>5 DEF SInv, CacheInv, SearchTypeOK
<1> QED BY <1>1, <1>2, <1>4, <1>6, <1>7, RequestStep


\* A step of process p that may open or end its scope, or start it afresh.
LEMMA OwnMove ==
    ASSUME IInv, IInv', SInv, [Next]_vars,
           NEW p \in Procs, NEW r \in Request, NEW s \in SUBSET Docs, NEW b \in BOOLEAN,
           Step(p, r), source' = source, index' \in Rows,
           outside' = outside \/ (epoch' # epoch /\ outside' = {}),
           seen' = [seen EXCEPT ![p] = s],
           disturbed' \in [Procs -> BOOLEAN], disturbed'[p] = b,
           \A q \in Procs \ {p} :
              \/ disturbed'[q] = TRUE
              \/ /\ disturbed'[q] = disturbed[q] /\ Identity' = Identity
                 /\ outside' = outside /\ barrier' = barrier,
           Serves(r, s, b)',
           \A q \in Procs \ {p} : scope'[q] = scope[q],
           IF r.pc = "promote" THEN scope'[p].depth = 1 /\ scope'[p].changed
           ELSE scope'[p].depth = 0,
           results' = results,
           corpus' \in [Procs -> [id: Identities, rows: Rows \cup {Absent}]],
           \A q \in Procs : corpus'[q] = corpus[q] \/ corpus'[q] = NoCorpus,
           disabled' \in [Procs -> Identities]
    PROVE  SInv'
<1> USE DEF SInv
<1>1. /\ epoch <= epoch' /\ (epoch' = epoch /\ Clean' => Clean)
      /\ OpenedInv'
      /\ \A v \in Writers : scope'[v].depth = 0 => ~scope'[v].changed
  BY EpochMoves DEF ScopeInv
<1>2. epoch \in Nat /\ epoch' \in Nat
  BY DEF IInv, TypeOK
<1>3. epoch' = epoch /\ Clean' =>
         /\ Clean
         /\ \A d \in Docs \ outside' : d \notin outside /\ source'[d] = source[d]
  BY <1>1
<1>4. \A q \in Procs : req'[q] = IF q = p THEN r ELSE req[q]
  BY DEF SearchTypeOK, Step
<1>5. SearchTypeOK'
  <2>1. req' \in [Procs -> Request]
    BY DEF SearchTypeOK, Step
  <2>2. seen' \in [Procs -> SUBSET Docs] /\ outside' \in SUBSET Docs
    BY DEF SearchTypeOK
  <2> QED BY <2>1, <2>2 DEF SearchTypeOK
<1>6. ScopeInv'
  BY <1>1, <1>4 DEF ScopeInv, At
<1>7. CacheInv'
  <2>1. /\ \A q \in Procs : corpus'[q].id \in Identities
        /\ \A e \in 0..MaxScopes : e \in Identities
    BY DEF SearchTypeOK, Identities
  <2>2. \A e \in Identities : \A rows : Recent(e, rows) => Recent(e, rows)'
    BY <1>1, <1>2, <1>3, RecentStays
  <2>3. /\ \A q \in Procs : Recent(corpus'[q].id, corpus'[q].rows)
        /\ \A e \in 0..MaxScopes : results'[e] # Absent => Recent(e, results'[e])
    BY CachesShrink
  <2> QED BY <2>1, <2>2, <2>3 DEF CacheInv
<1>8. RequestInv'
  <2>1. SUFFICES ASSUME NEW q \in Procs PROVE Serves(req[q], seen[q], disturbed[q])'
    BY DEF RequestInv
  <2>2. CASE q = p
    <3>1. req'[q] = r /\ seen'[q] = s /\ disturbed'[q] = b
      BY <1>4, <2>2 DEF SearchTypeOK
    <3> QED BY <3>1
  <2>3. CASE q # p
    <3>1. /\ req'[q] = req[q] /\ seen'[q] = seen[q] /\ req[q] \in Request
          /\ Serves(req[q], seen[q], disturbed[q])
      BY <1>4, <2>3 DEF RequestInv, SearchTypeOK
    <3>2. req[q].pc # "idle" => Searchable(source') \subseteq seen[q]
      BY <3>1 DEF Serves, Shows
    <3>3. \A x \in Request : \A y, z, z2 :
             /\ Serves(x, y, z)
             /\ x.pc # "idle" => Searchable(source') \subseteq y
             /\ \/ z2 = TRUE
                \/ z2 = z /\ Identity' = Identity /\ outside' = outside /\ barrier' = barrier
             => Serves(x, y, z2)'
      BY <1>1, <1>2, <1>3, ServesStill
    <3>4. \/ disturbed'[q] = TRUE
          \/ /\ disturbed'[q] = disturbed[q] /\ Identity' = Identity
             /\ outside' = outside /\ barrier' = barrier
      BY <2>3
    <3> QED BY <3>1, <3>2, <3>3, <3>4
  <2> QED BY <2>2, <2>3
<1> QED BY <1>1, <1>5, <1>6, <1>7, <1>8

\* An idle request relies on nothing.
LEMMA IdleServes ==
    /\ Idle \in Request
    /\ Serves(Idle, {}, FALSE)'
<1>1. NoIdentity \in Identities /\ Nothing \in Rows
  BY SearchBounds DEF Identities, Nothing, Rows
<1> QED BY <1>1 DEF Idle, Request, RequestPCs, Serves, Identified, Shows, Undisturbed, Compared,
                    Optimized, Recalling, Evidence

\* A question is asked.
LEMMA AskKeeps ==
    ASSUME IInv, IInv', SInv, [Next]_vars, NEW p \in Procs, Ask(p)
    PROVE  SInv'
<1> DEFINE r == [Idle EXCEPT !.pc = IF Identity = NoIdentity THEN "embed" ELSE "cache",
                             !.id = Identity, !.checked = Identity]
           s == Searchable(source)
<1>1. Identity = NoIdentity \/ (Identity = epoch /\ epoch \in 0..MaxScopes)
  <2>1. epoch \in Nat /\ active \in Nat /\ opened \in Nat /\ MaxScopes \in Nat
    BY BoundsAssumption DEF IInv, TypeOK
  <2>2. epoch + active <= opened /\ opened <= MaxScopes
    BY DEF SInv, OpenedInv
  <2>3. epoch \in 0..MaxScopes
    BY <2>1, <2>2
  <2> QED BY <2>3 DEF Identity
<1>2. /\ r \in Request /\ r.id = Identity /\ r.checked = Identity /\ r.rows = Absent
      /\ r.pc = IF Identity = NoIdentity THEN "embed" ELSE "cache"
  BY <1>1, IdleServes DEF Identities, Request, RequestPCs, Idle
<1>3. /\ UNCHANGED <<vars, source, index, caches, outside>> /\ Step(p, r)
      /\ seen' = [seen EXCEPT ![p] = s] /\ disturbed' = [disturbed EXCEPT ![p] = FALSE]
      /\ At(p, "idle")
  BY DEF Ask
<1>4. s \in SUBSET Docs
  BY DEF Searchable
<1> HIDE DEF r
<1>5. Serves(r, s, FALSE)
  BY <1>1, <1>2 DEF Serves, Identified, Shows, Undisturbed, Compared, Optimized, Recalling,
                    Evidence, IInv, TypeOK
<1> HIDE DEF s
<1>6. \A x, y, z : Serves(x, y, z)' <=> Serves(x, y, z)
  BY <1>3, SameWorld
<1>7. \E x \in Request, y \in SUBSET Docs : x = r /\ y = s
  BY <1>2, <1>4
<1>8. PICK x \in Request, y \in SUBSET Docs : x = r /\ y = s
  BY <1>7
<1>9. /\ Serves(x, y, FALSE)' /\ Step(p, x) /\ seen' = [seen EXCEPT ![p] = y]
      /\ x.pc # "promote"
  BY <1>2, <1>3, <1>5, <1>6, <1>8
<1>10. /\ scope' = scope /\ Identity' = Identity /\ barrier' = barrier /\ scope'[p].depth = 0
  BY <1>3 DEF vars, state, Identity, At, SInv, ScopeInv
<1>11. /\ disturbed' \in [Procs -> BOOLEAN] /\ disturbed'[p] = FALSE
       /\ \A q \in Procs \ {p} : disturbed'[q] = disturbed[q]
  BY <1>3 DEF SInv, SearchTypeOK
<1>12. /\ source' = source /\ index' \in Rows /\ outside' = outside /\ results' = results
       /\ corpus' \in [Procs -> [id: Identities, rows: Rows \cup {Absent}]]
       /\ \A q \in Procs : corpus'[q] = corpus[q]
       /\ disabled' \in [Procs -> Identities]
  BY <1>3 DEF SInv, SearchTypeOK, caches
<1> QED BY <1>9, <1>10, <1>11, <1>12, OwnMove


\* The answer leaves, or the process is recycled, inside a scope or outside.
LEMMA ResetKeeps ==
    ASSUME IInv, IInv', SInv, [Next]_vars, NEW p \in Procs, Reply(p) \/ Restart(p)
    PROVE  SInv'
<1>1. /\ Idle \in Request /\ Idle.pc # "promote" /\ Serves(Idle, {}, FALSE)'
      /\ {} \in SUBSET Docs
  BY IdleServes DEF Idle
<1>2. /\ Step(p, Idle) /\ source' = source /\ index' = index /\ outside' = outside
      /\ seen' = [seen EXCEPT ![p] = {}] /\ disturbed' = [disturbed EXCEPT ![p] = FALSE]
      /\ results' = results
      /\ UNCHANGED <<corpus, disabled>>
         \/ /\ corpus' = [corpus EXCEPT ![p] = NoCorpus]
            /\ disabled' = [disabled EXCEPT ![p] = NoIdentity]
  BY DEF Reply, Restart, caches
<1>3. /\ index' \in Rows /\ disturbed' \in [Procs -> BOOLEAN] /\ disturbed'[p] = FALSE
      /\ \A q \in Procs \ {p} : disturbed'[q] = disturbed[q]
  BY <1>2 DEF SInv, SearchTypeOK
<1>4. /\ corpus' \in [Procs -> [id: Identities, rows: Rows \cup {Absent}]]
      /\ \A q \in Procs : corpus'[q] = corpus[q] \/ corpus'[q] = NoCorpus
      /\ disabled' \in [Procs -> Identities]
  <2>1. NoCorpus \in [id: Identities, rows: Rows \cup {Absent}] /\ NoIdentity \in Identities
    BY DEF NoCorpus, Identities
  <2> QED BY <1>2, <2>1 DEF SInv, SearchTypeOK
<1>5. /\ \A q \in Procs \ {p} : scope'[q] = scope[q]
      /\ scope'[p].depth = 0
      /\ Identity' = Identity /\ barrier' = barrier
  <2>1. CASE UNCHANGED vars /\ ~At(p, "promote")
    BY <2>1 DEF vars, state, Identity, SInv, ScopeInv
  <2>2. CASE WriterDies(p)
    <3>1. scope \in [Writers -> [depth: 0..MaxDepth, changed: BOOLEAN, writes: SUBSET Writes]]
      BY DEF IInv, TypeOK
    <3> QED BY <2>2, <3>1, ProcsAssumption DEF WriterDies, state, Identity, Outside
  <2>3. \/ UNCHANGED vars /\ ~At(p, "promote")
        \/ WriterDies(p)
    BY DEF Reply, Restart, At
  <2> QED BY <2>1, <2>2, <2>3
<1> QED BY <1>1, <1>2, <1>3, <1>4, <1>5, OwnMove

\* A rebuilt index is promoted inside a scope of the process's own.
LEMMA PromoteKeeps ==
    ASSUME IInv, IInv', SInv, [Next]_vars, NEW p \in Procs, EnterPromotion(p) \/ Promote(p)
    PROVE  SInv'
<1> DEFINE r == req[p]
<1>1. /\ r \in Request /\ Serves(r, seen[p], disturbed[p]) /\ seen[p] \in SUBSET Docs
      /\ disturbed[p] \in BOOLEAN /\ r.pc \in {"rebuild", "promote"}
  BY RequestOf DEF SInv, SearchTypeOK, EnterPromotion, Promote, At
<1>2. scope \in [Writers -> [depth: 0..MaxDepth, changed: BOOLEAN, writes: SUBSET Writes]]
      /\ epoch \in Nat /\ epoch' \in Nat /\ p \in Writers
  BY ProcsAssumption DEF IInv, TypeOK
<1>3. /\ source' = source /\ results' = results /\ UNCHANGED caches
      /\ seen' = [seen EXCEPT ![p] = seen[p]] /\ Disturb(p)
  BY DEF EnterPromotion, Promote, caches, SInv, SearchTypeOK
<1>4. /\ disturbed' \in [Procs -> BOOLEAN] /\ disturbed'[p] = disturbed[p]
      /\ \A q \in Procs \ {p} : disturbed'[q] = TRUE
  BY <1>1, <1>3 DEF Disturb, SInv, SearchTypeOK
<1>5. /\ corpus' \in [Procs -> [id: Identities, rows: Rows \cup {Absent}]]
      /\ \A q \in Procs : corpus'[q] = corpus[q]
      /\ disabled' \in [Procs -> Identities]
  BY <1>3 DEF SInv, SearchTypeOK, caches
<1>6. epoch <= epoch' /\ (epoch' = epoch /\ Clean' => Clean)
  BY EpochMoves DEF SInv, ScopeInv
<1>7. /\ ~(epoch' = epoch /\ Clean')
      /\ outside' = outside \/ (epoch' # epoch /\ outside' = {})
      /\ \A q \in Procs \ {p} : scope'[q] = scope[q]
      /\ index' \in Rows
      /\ \/ /\ scope'[p].depth = 1 /\ scope'[p].changed
            /\ r.pc = "rebuild" /\ Step(p, [r EXCEPT !.pc = "promote"])
         \/ /\ scope'[p].depth = 0
            /\ r.pc = "promote" /\ Step(p, [r EXCEPT !.pc = "generate", !.promoted = TRUE])
  <2>1. CASE EnterPromotion(p)
    <3>1. scope' = [scope EXCEPT ![p] = [depth |-> 1, changed |-> TRUE, writes |-> {}]]
      BY <2>1 DEF EnterPromotion, EnterScope, Enter
    <3>2. scope'[p].depth = 1 /\ scope'[p].changed /\ \A q \in Procs \ {p} : scope'[q] = scope[q]
      BY <1>2, <3>1
    <3>3. ~Clean'
      BY <1>2, <3>2 DEF Clean
    <3> QED BY <2>1, <3>2, <3>3 DEF EnterPromotion, At, SInv, SearchTypeOK
  <2>2. CASE Promote(p)
    <3>1. scope' = [scope EXCEPT ![p] = Outside]
      BY <2>2 DEF Promote, ExitScope
    <3>2. scope'[p].depth = 0 /\ \A q \in Procs \ {p} : scope'[q] = scope[q]
      BY <1>2, <3>1 DEF Outside
    <3>3. epoch' = epoch + 1
      BY <2>2 DEF Promote, ExitScope, SInv, ScopeInv
    <3>4. index' \in Rows
      BY <1>1, <2>2 DEF Promote, Request
    <3> QED BY <1>2, <2>2, <3>2, <3>3, <3>4 DEF Promote, At
  <2> QED BY <2>1, <2>2
\* No row changed and the identity of the request is over: its hits stay what
\* they were compared with.
<1>8. \A e \in Identities : \A rows : Recent(e, rows) => Recent(e, rows)'
  BY <1>2, <1>6, <1>7, RecentStays
<1>9. r.checked # NoIdentity => r.checked \in Nat
  BY <1>1, BoundsAssumption DEF Request, Identities
<1>10. ASSUME NEW x \in Request,
              \/ x.pc = "promote"
              \/ x.pc = "generate" /\ x.promoted,
              x.id = r.id, x.checked = r.checked, x.hits = r.hits
       PROVE  Serves(x, seen[p], disturbed[p]) /\ \A y, z : Serves(x, y, z) => Serves(x, y, z)'
  <2>1. Serves(x, seen[p], disturbed[p])
    BY <1>1, <1>10 DEF Serves, Identified, Shows, Undisturbed, Compared, Optimized, Recalling,
                       Evidence
  <2>2. ASSUME NEW y, NEW z, Serves(x, y, z) PROVE Serves(x, y, z)'
    <3>1. x.checked \in Identities
      BY DEF Request
    <3>2. Recent(x.checked, x.hits)'
      BY <1>8, <1>10, <2>2, <3>1 DEF Serves, Identified, Evidence
    <3> QED BY <1>2, <1>3, <1>6, <1>9, <1>10, <2>2, <3>2
            DEF Serves, Identified, Shows, Undisturbed, Compared, Optimized, Recalling, Evidence
  <2> QED BY <2>1, <2>2
<1>11. ASSUME NEW x \in Request, Step(p, x),
              \/ x.pc = "promote" /\ scope'[p].depth = 1 /\ scope'[p].changed
              \/ x.pc = "generate" /\ x.promoted /\ scope'[p].depth = 0,
              x.id = r.id, x.checked = r.checked, x.hits = r.hits
       PROVE  SInv'
  <2>1. PICK y \in SUBSET Docs, z \in BOOLEAN : y = seen[p] /\ z = disturbed[p]
    BY <1>1
  <2>2. Serves(x, y, z)'
    BY <1>10, <1>11, <2>1
  <2>3. /\ seen' = [seen EXCEPT ![p] = y] /\ disturbed'[p] = z
        /\ IF x.pc = "promote" THEN scope'[p].depth = 1 /\ scope'[p].changed
           ELSE scope'[p].depth = 0
    BY <1>3, <1>4, <1>11, <2>1
  <2>4. /\ source' = source /\ results' = results
        /\ disturbed' \in [Procs -> BOOLEAN]
        /\ corpus' \in [Procs -> [id: Identities, rows: Rows \cup {Absent}]]
        /\ disabled' \in [Procs -> Identities]
    BY <1>3, <1>4, <1>5
  <2>5. /\ index' \in Rows
        /\ outside' = outside \/ (epoch' # epoch /\ outside' = {})
        /\ \A q \in Procs \ {p} : scope'[q] = scope[q]
    BY <1>7
  <2>6. \A q \in Procs \ {p} :
           \/ disturbed'[q] = TRUE
           \/ /\ disturbed'[q] = disturbed[q] /\ Identity' = Identity
              /\ outside' = outside /\ barrier' = barrier
    BY <1>4
  <2>7. \A q \in Procs : corpus'[q] = corpus[q] \/ corpus'[q] = NoCorpus
    BY <1>5
  <2>8. Step(p, x)
    BY <1>11
  <2> HIDE DEF r
  <2> QED BY <2>2, <2>3, <2>4, <2>5, <2>6, <2>7, <2>8, OwnMove
<1>12. /\ [r EXCEPT !.pc = "promote"] \in Request
       /\ [r EXCEPT !.pc = "generate", !.promoted = TRUE] \in Request
  BY <1>1 DEF Request, RequestPCs
<1>13. CASE r.pc = "rebuild" /\ Step(p, [r EXCEPT !.pc = "promote"])
            /\ scope'[p].depth = 1 /\ scope'[p].changed
  <2>1. PICK x \in Request : x = [r EXCEPT !.pc = "promote"]
    BY <1>12
  <2>2. x.pc = "promote" /\ x.id = r.id /\ x.checked = r.checked /\ x.hits = r.hits
    BY <1>1, <2>1 DEF Request
  <2> QED BY <1>11, <1>13, <2>1, <2>2
<1>14. CASE r.pc = "promote" /\ Step(p, [r EXCEPT !.pc = "generate", !.promoted = TRUE])
            /\ scope'[p].depth = 0
  <2>1. PICK x \in Request : x = [r EXCEPT !.pc = "generate", !.promoted = TRUE]
    BY <1>12
  <2>2. /\ x.pc = "generate" /\ x.promoted
        /\ x.id = r.id /\ x.checked = r.checked /\ x.hits = r.hits
    BY <1>1, <2>1 DEF Request
  <2> QED BY <1>11, <1>14, <2>1, <2>2
<1> QED BY <1>7, <1>13, <1>14


-----------------------------------------------------------------------------
(* The invariant holds                                                     *)

\* Nothing is cached and nobody asked.
LEMMA SearchInitInv == SearchInit => SInv
<1> SUFFICES ASSUME SearchInit PROVE SInv
  OBVIOUS
<1> USE DEF SearchInit
<1>1. /\ NoIdentity \in Identities /\ Nothing \in Rows
      /\ NoCorpus \in [id: Identities, rows: Rows \cup {Absent}]
      /\ Idle \in Request
  BY SearchBounds DEF Identities, Nothing, Rows, NoCorpus, Idle, Request, RequestPCs
<1>2. source \in Rows
  BY SearchBounds DEF Rows
<1>3. SearchTypeOK
  BY <1>1, <1>2 DEF SearchTypeOK
<1>4. OpenedInv
  BY BoundsAssumption DEF Init, OpenedInv
<1>5. ScopeInv
  BY ProcsAssumption DEF Init, ScopeInv, Outside, At, Idle
<1>6. CacheInv
  BY DEF CacheInv, Recent, NoCorpus
<1>7. RequestInv
  BY DEF RequestInv, Idle, Serves, Identified, Shows, Undisturbed, Compared, Optimized,
         Recalling, Evidence
<1> QED BY <1>3, <1>4, <1>5, <1>6, <1>7 DEF SInv

\* Every step keeps it.
LEMMA SearchStepInv == IInv /\ IInv' /\ SInv /\ [SearchNext]_allVars => SInv'
<1> SUFFICES ASSUME IInv, IInv', SInv, [SearchNext]_allVars PROVE SInv'
  OBVIOUS
<1>1. CASE SearchNext
  <2>1. [Next]_vars
    BY <1>1, SearchStepIsNext
  <2>2. CASE SourceNext
    BY <2>1, <2>2, SourceKeeps
  <2>3. ASSUME NEW p \in Procs, CacheNext(p) PROVE SInv'
    BY <2>1, <2>3, AskKeeps, RecallKeeps, DecideKeeps DEF CacheNext
  <2>4. ASSUME NEW p \in Procs, CorpusNext(p) PROVE SInv'
    BY <2>4, RecallKeeps, LoadKeeps DEF CorpusNext
  <2>5. ASSUME NEW p \in Procs, AnswerNext(p) PROVE SInv'
    BY <2>1, <2>5, AnswerKeeps, PromoteKeeps, StoreKeeps, ResetKeeps DEF AnswerNext
  <2>6. ASSUME NEW p \in Procs, Restart(p) PROVE SInv'
    BY <2>1, <2>6, ResetKeeps
  <2> QED BY <1>1, <2>2, <2>3, <2>4, <2>5, <2>6 DEF SearchNext
<1>2. CASE UNCHANGED allVars
  <2>1. UNCHANGED <<vars, source, index, results, corpus, disabled, req, outside, seen, disturbed>>
    BY <1>2 DEF allVars, search, caches
  <2>2. /\ \A x, s, b : Serves(x, s, b)' <=> Serves(x, s, b)
        /\ \A e, rows : Recent(e, rows)' <=> Recent(e, rows)
    BY <2>1, SameWorld
  <2>3. SearchTypeOK'
    BY <2>1 DEF SInv, SearchTypeOK
  <2>4. OpenedInv' /\ ScopeInv'
    BY <2>1 DEF SInv, OpenedInv, ScopeInv, At, vars, state, ghost
  <2>5. CacheInv'
    BY <2>1, <2>2 DEF SInv, CacheInv
  <2>6. RequestInv'
    BY <2>1, <2>2 DEF SInv, RequestInv
  <2> QED BY <2>3, <2>4, <2>5, <2>6 DEF SInv
<1> QED BY <1>1, <1>2

\* Both invariants hold in every reachable state.
THEOREM SearchInductive == SearchSpec => [](IInv /\ SInv)
<1>1. SearchSpec => []IInv
  BY SearchKeepsMutations, Inductive, PTL
<1> QED BY <1>1, SearchInitInv, SearchStepInv, PTL DEF SearchSpec

-----------------------------------------------------------------------------
\* Rows, caches and requests keep their types, whatever the number of
\* processes and documents (flowdocs/core/utils.py, search_pdf_folders).
THEOREM SearchTypeCorrect == SearchSpec => []SearchTypeOK
<1>1. SInv => SearchTypeOK
  BY DEF SInv
<1> QED BY <1>1, SearchInductive, PTL

\* No answer shows a document that was hidden before the question was asked,
\* by whatever path it was produced (_cached_references_are_visible and the
\* checks of _assert_runtime_search_result_current).
THEOREM HiddenStaysHidden == SearchSpec => []HiddenIsNeverShown
<1>1. SInv => HiddenIsNeverShown
  BY DEF SInv, RequestInv, Serves, Shows, Compared, HiddenIsNeverShown, At
<1> QED BY <1>1, SearchInductive, PTL

\* What is cached under the identity that is valid now is what the sources
\* hold now, except for what was hidden outside every scope
\* (verified_runtime_search_identity, the cache and the corpus keyed by it).
THEOREM CachesAreExact == SearchSpec => []CachedForEpochIsExact
<1>1. IInv /\ SInv => CachedForEpochIsExact
  <2> SUFFICES ASSUME IInv, SInv, Identity # NoIdentity
               PROVE  /\ \A p \in Procs : corpus[p].id = Identity => IsCurrent(corpus[p].rows)
                      /\ results[Identity] # Absent => IsCurrent(results[Identity])
    BY DEF CachedForEpochIsExact, IsCurrent
  <2>1. Identity = epoch /\ Clean
    BY IdentityAtRest DEF SInv
  <2>2. epoch \in 0..MaxScopes
    <3>1. epoch \in Nat /\ active \in Nat /\ opened \in Nat /\ MaxScopes \in Nat
      BY BoundsAssumption DEF IInv, TypeOK
    <3>2. epoch + active <= opened /\ opened <= MaxScopes
      BY DEF SInv, OpenedInv
    <3> QED BY <3>1, <3>2
  <2> QED BY <2>1, <2>2 DEF SInv, CacheInv, Recent
<1> QED BY <1>1, SearchInductive, PTL

\* A request is refused only because something moved under it, was hidden
\* outside every scope, or keeps it from promoting an index (the failures of
\* _assert_runtime_search_result_current and SnapshotBarrierActive).
THEOREM RefusalsHaveACause == SearchSpec => []RefusedForACause
<1>1. SInv => RefusedForACause
  BY DEF SInv, RequestInv, Serves, Undisturbed, RefusedForACause, At
<1> QED BY <1>1, SearchInductive, PTL

\* A request that passes its last identity check used evidence that is current
\* then, on the cached, the optimized and the fallback path
\* (_assert_runtime_search_result_current).
THEOREM ChecksCurrentEvidence == SearchSpec => CheckedEvidenceIsCurrent
<1> DEFINE Keeps == \A p \in Procs :
              At(p, "generate") /\ req[p].checked # NoIdentity /\ req'[p].pc # "failed"
                => \/ At(p, "generate")'
                   \/ At(p, "idle")'
                   \/ \A d \in Searchable(req[p].hits) \ outside :
                         req[p].hits[d] = source[d]
<1>1. IInv /\ SInv /\ [SearchNext]_allVars => [Keeps]_allVars
  <2> SUFFICES ASSUME IInv, SInv, SearchNext, NEW p \in Procs,
                      At(p, "generate"), req[p].checked # NoIdentity, req'[p].pc # "failed",
                      ~At(p, "generate")', ~At(p, "idle")',
                      NEW d \in Searchable(req[p].hits) \ outside
               PROVE  req[p].hits[d] = source[d]
    OBVIOUS
  <2>1. /\ req \in [Procs -> Request] /\ Serves(req[p], seen[p], disturbed[p])
    BY DEF SInv, SearchTypeOK, RequestInv
  <2>2. AssertIdentity(p)
    <3>1. req'[p] # req[p]
      BY DEF At
    <3>2. PICK q \in Procs : CacheNext(q) \/ CorpusNext(q) \/ AnswerNext(q) \/ Restart(q)
      BY <3>1 DEF SearchNext, SourceNext, EditorWrites, EditorScope, BarrierStep, HideOutsideScope
    <3>3. q = p
      BY <2>1, <3>1, <3>2
      DEF CacheNext, CorpusNext, AnswerNext, Restart, Ask, CacheMiss, CacheRead, CacheDecide,
          UseCorpus, SkipDisabledCorpus, LoadMeasure, LoadRefused, LoadFill, LoadAdmit,
          RefuseCorpus, Embedded, Retrieve, EnterPromotion, PromotionBlocked, Promote,
          AssertIdentity, AssertVisible, Store, Reply, Step
    <3>4. ~Restart(p)
      BY <2>1 DEF Restart, Step, At, Idle
    <3> QED BY <3>2, <3>3, <3>4
        DEF CacheNext, CorpusNext, AnswerNext, Ask, CacheMiss, CacheRead, CacheDecide,
            UseCorpus, SkipDisabledCorpus, LoadMeasure, LoadRefused, LoadFill, LoadAdmit,
            Embedded, Retrieve, EnterPromotion, PromotionBlocked, Promote,
            AssertVisible, Store, Reply, At
  <2>3. Identity = req[p].checked
    BY <2>1, <2>2 DEF AssertIdentity, Step, Request
  <2>4. Identity = epoch /\ Clean
    BY <2>3, IdentityAtRest DEF SInv
  <2>5. Recent(req[p].checked, req[p].hits)
    BY <2>1 DEF Serves, Identified, Evidence, At
  <2> QED BY <2>3, <2>4, <2>5 DEF Recent, IsCurrent, Searchable
<1> QED BY <1>1, SearchInductive, PTL DEF SearchSpec, CheckedEvidenceIsCurrent

-----------------------------------------------------------------------------
(* Part 3: the snapshots of one publication job                            *)

USE DEF Attempts

Early == {"new", "begin", "workspace", "copy", "request", "poll", "beat", "prove",
          "database", "reconcile", "include"}
Late  == {"stable", "rename", "finalize", "checkpoint", "release"}
UnderBarrier == {"beat", "prove", "database", "reconcile", "include"} \cup Late
Filling == {"copy", "request", "poll", "beat", "prove", "database", "reconcile",
            "include", "stable", "rename"}
Filled  == {"finalize", "checkpoint", "release"}

\* A closed barrier has an owner, an open one has none.
OwnedInv == barrier.state = "OPEN" <=> barrier.owner = NoJob

\* While nobody else requested the barrier that a holds, it is not requested
\* again, and as long as it is active nothing is written.
HoldOf(a) ==
    /\ heldAt[a] <= written
    /\ pc[a] = "holding" /\ a \notin shared =>
          /\ barrier.state # "REQUESTED"
          /\ barrier.state = "ACTIVE" => heldAt[a] = written
HoldInv == OwnedInv /\ \A a \in Attempts : HoldOf(a)

\* What an attempt copied under the barrier is what the sources were at some
\* time since it acquired it; whether nothing was written in between is only
\* known when it proves its ownership again.
CopiedInv ==
    \A a \in Attempts :
        /\ at[a] \in UnderBarrier => pc[a] = "holding"
        /\ at[a] \in {"reconcile", "include"} =>
              \E n \in heldAt[a]..written : snap[a].db = 1..n
        /\ at[a] = "include" =>
              \E n \in heldAt[a]..written : snap[a].tree = TreeWrites \cap 1..n

\* A snapshot that is past its second proof, finalized, chosen or published is
\* not filled any more, and it is a coherent cut.
Kept(s) == \/ snap[s].state = "FINALIZED"
           \/ s \in published
           \/ \E a \in Attempts : chosen[a] = s
           \/ at[s] \in Late
KeptInv ==
    \A s \in Attempts :
        /\ snap[s].included <= epoch
        /\ Kept(s) => at[s] \notin Early
        /\ Kept(s) /\ s \notin shared => Coherent(s)

\* What clean-up works on was given to it, and an attempt that has not begun
\* has nothing to give.
GivenInv ==
    \A a \in Attempts :
        /\ at[a] = "new" => snap[a].cleanup = "NONE" /\ snap[a].workspace = "none"
        /\ snap[a].cleanup = "NONE" => cleaning[a] = "none"
        /\ at[a] \in {"upload", "manifest"} => chosen[a] \in Attempts

\* The workspaces that the owner of the job works with, and none of them is
\* about to be removed.
OwnerInv ==
    \A a \in Attempts : Owns(a) =>
        /\ cleaning[a] = "none"
        /\ at[a] \in Filling => disk[a] = "incomplete"
        /\ at[a] \in Filled => disk[a] = "final"
        /\ at[a] \in {"upload", "manifest"} =>
              disk[chosen[a]] = "final" /\ cleaning[chosen[a]] = "none"

\* What the steps preserve together, next to the invariant of the mutations.
SnapInv == SnapshotTypeOK /\ HoldInv /\ CopiedInv /\ KeptInv /\ GivenInv /\ OwnerInv

-----------------------------------------------------------------------------
(* The barrier under the attempts                                          *)

\* What a step of the attempts does to the barrier.
OwnMoveAt(a) == \/ PollDrained(a) \/ PollLost(a) \/ DrainTimeout(a)
                \/ AbandonBarrier(a) \/ ReleaseBarrier(a)
LEMMA BarrierMoves ==
    ASSUME SnapshotNext
    PROVE  \/ \E a \in Holders : /\ RequestBarrier(a)
                                 /\ shared' = shared \cup {b \in Attempts : pc[b] = "holding"}
           \/ /\ shared' = shared
              /\ \/ UNCHANGED vars
                 \/ WriterNext
                 \/ barrier.owner = Job /\ ReopenBarrier(Job)
                 \/ \E a \in Holders : OwnMoveAt(a)
<1>1. CASE RecoverStale \/ Requeue \/ SourceWrite
  BY <1>1 DEF RecoverStale, Requeue, SourceWrite, notes
<1>2. ASSUME NEW s \in Attempts, Cleanup(s)
      PROVE  /\ shared' = shared
             /\ UNCHANGED vars \/ (barrier.owner = Job /\ ReopenBarrier(Job))
  <2>1. CASE StartReclaim(s)
    BY <2>1 DEF StartReclaim
  <2>2. CASE FinishReclaim(s) \/ \E recorded \in BOOLEAN : ReclaimStops(s, recorded)
    BY <2>2 DEF FinishReclaim, ReclaimStops, notes
  <2> QED BY <1>2, <2>1, <2>2 DEF Cleanup
<1>3. ASSUME NEW a \in Attempts, Attempt(a)
      PROVE  \/ /\ RequestBarrier(a)
                /\ shared' = shared \cup {b \in Attempts : pc[b] = "holding"}
             \/ shared' = shared /\ (UNCHANGED vars \/ OwnMoveAt(a))
  <2>1. CASE CloseBarrier(a)
    BY <2>1 DEF CloseBarrier
  <2>2. CASE BarrierAcquired(a) \/ BarrierRefused(a) \/ ReleaseHeld(a) \/ Leave(a)
    BY <2>2 DEF BarrierAcquired, BarrierRefused, ReleaseHeld, Leave, OwnMoveAt, notes
  <2>3. CASE \/ Claim(a) \/ (\E s \in Attempts : Resume(a, s)) \/ CreateRow(a)
             \/ RecordWorkspace(a) \/ CopyTrees(a)
    BY <2>3 DEF Claim, Resume, CreateRow, RecordWorkspace, CopyTrees, notes
  <2>4. CASE \/ HeartbeatUnderBarrier(a) \/ ProveBarrier(a) \/ CopyDatabase(a)
             \/ ReconcileTrees(a) \/ IncludeEpoch(a) \/ CheckStable(a)
             \/ RenameWorkspace(a) \/ FinalizeRow(a) \/ SaveCheckpoint(a)
    BY <2>4 DEF HeartbeatUnderBarrier, ProveBarrier, CopyDatabase, ReconcileTrees,
                IncludeEpoch, CheckStable, RenameWorkspace, FinalizeRow,
                SaveCheckpoint, notes
  <2>5. CASE \/ Raise(a) \/ SaveFailure(a) \/ StageFailed(a) \/ GiveUp(a) \/ Upload(a)
             \/ UploadFails(a) \/ PutManifest(a) \/ Complete(a)
    BY <2>5 DEF Raise, SaveFailure, StageFailed, GiveUp, Upload, UploadFails,
                PutManifest, Complete, notes
  <2> QED BY <1>3, <2>1, <2>2, <2>3, <2>4, <2>5 DEF Attempt
<1> QED BY <1>1, <1>2, <1>3 DEF SnapshotNext, SourceWrite

\* A step of the attempts is a step of the mutation scopes and the barrier, or
\* leaves them alone.
LEMMA SnapshotStepIsNext == SnapshotNext => [Next]_vars
<1> SUFFICES ASSUME SnapshotNext PROVE Next \/ UNCHANGED vars
  OBVIOUS
<1>1. CASE \E a \in Holders : RequestBarrier(a) \/ OwnMoveAt(a)
  BY <1>1 DEF Next, HolderNext, OwnMoveAt
<1>2. CASE WriterNext \/ (barrier.owner = Job /\ ReopenBarrier(Job))
  BY <1>2, JobAssumption DEF Next
<1> QED BY <1>1, <1>2, BarrierMoves

\* The composition runs the mutation scopes and the barrier as SourceMutations
\* specifies them.
THEOREM SnapshotKeepsMutations == SnapshotSpec => Spec
<1>1. SnapshotInit => Init
  BY DEF SnapshotInit
<1>2. [SnapshotNext]_snapshotVars => [Next]_vars
  BY SnapshotStepIsNext DEF snapshotVars
<1> QED BY <1>1, <1>2, PTL DEF SnapshotSpec, Spec

\* An unshared hold survives every step.
LEMMA HoldStep ==
    ASSUME IInv, SnapInv, SnapshotNext
    PROVE  HoldInv' /\ written <= written'
<1> USE DEF IInv, TypeOK, Attempts
<1>0. /\ OwnedInv /\ (\A a \in Attempts : HoldOf(a)) /\ shared \in SUBSET Attempts
      /\ barrier \in Barrier /\ \A a \in Holders : JobOf[a] = Job
      /\ Job # NoJob /\ Job \in Jobs
  BY JobAssumption, JobsAssumption DEF SnapInv, HoldInv, SnapshotTypeOK
<1>1. ASSUME NEW b \in Holders, RequestBarrier(b),
             shared' = shared \cup {a \in Attempts : pc[a] = "holding"}
      PROVE  HoldInv' /\ written <= written'
  <2>1. /\ barrier' = [state |-> "REQUESTED", owner |-> Job]
        /\ pc' = [pc EXCEPT ![b] = "polling"]
        /\ written' = written /\ heldAt' = heldAt
    BY <1>0, <1>1 DEF RequestBarrier, ghost
  <2>2. ASSUME NEW a \in Attempts PROVE HoldOf(a)'
    <3>1. pc'[a] = "holding" => a \in shared'
      BY <1>1, <2>1
    <3> QED BY <1>0, <2>1, <3>1 DEF HoldOf
  <2> QED BY <1>0, <2>1, <2>2 DEF HoldInv, OwnedInv
<1>2. ASSUME shared' = shared, UNCHANGED vars
      PROVE  HoldInv' /\ written <= written'
  BY <1>0, <1>2 DEF HoldInv, HoldOf, OwnedInv, vars, state, ghost
<1>3. ASSUME shared' = shared, WriterNext
      PROVE  HoldInv' /\ written <= written'
  <2>1. UNCHANGED <<barrier, pc, heldAt>>
    BY <1>3 DEF WriterNext, EnterScope, Enter, EnterNested, WriteSource, ExitNested,
                ExitScope, WriterDies, state, ghost
  <2>2. written' \in Nat /\ written <= written'
    BY <1>3 DEF WriterNext, EnterScope, Enter, EnterNested, WriteSource, ExitNested,
                ExitScope, WriterDies, state, ghost
  <2>3. barrier.state = "ACTIVE" => written' = written
    <3> SUFFICES ASSUME barrier.state = "ACTIVE" PROVE written' = written
      OBVIOUS
    <3>1. Live = {}
      BY ActiveCovers DEF ActiveBarrierCoversWrites
    <3> QED BY <1>3, <3>1 DEF WriterNext, EnterScope, Enter, EnterNested, WriteSource,
                              ExitNested, ExitScope, WriterDies, ghost, Live
  <2>4. ASSUME NEW a \in Attempts PROVE HoldOf(a)'
    <3>1. HoldOf(a) /\ heldAt[a] \in Nat /\ written \in Nat
      BY <1>0
    <3> QED BY <1>3, <2>1, <2>2, <2>3, <3>1 DEF HoldOf
  <2> QED BY <1>0, <2>1, <2>2, <2>4 DEF HoldInv, OwnedInv
<1>4. ASSUME shared' = shared, ReopenBarrier(Job)
      PROVE  HoldInv' /\ written <= written'
  BY <1>0, <1>4 DEF ReopenBarrier, Open, HoldInv, HoldOf, OwnedInv, ghost
<1>5. ASSUME shared' = shared, NEW b \in Holders, PollDrained(b)
      PROVE  HoldInv' /\ written <= written'
  <2>1. /\ barrier.owner = Job /\ barrier' = [barrier EXCEPT !.state = "ACTIVE"]
        /\ pc' = [pc EXCEPT ![b] = "holding"]
        /\ written' = written /\ heldAt' = [heldAt EXCEPT ![b] = written]
        /\ pc[b] = "polling"
    BY <1>0, <1>5 DEF PollDrained
  <2>2. ASSUME NEW a \in Attempts PROVE HoldOf(a)'
    <3>1. CASE a = b
      BY <1>0, <2>1, <3>1 DEF HoldOf
    <3>2. CASE a # b
      <4>1. HoldOf(a) /\ barrier.state # "OPEN"
        BY <1>0, <2>1 DEF OwnedInv
      <4> QED BY <1>0, <1>5, <2>1, <3>2, <4>1 DEF HoldOf, Barrier, BarrierStates
    <3> QED BY <3>1, <3>2
  <2>3. OwnedInv'
    BY <1>0, <2>1 DEF OwnedInv, Barrier
  <2> QED BY <2>1, <2>2, <2>3 DEF HoldInv
<1>6. ASSUME shared' = shared, NEW b \in Holders,
             PollLost(b) \/ DrainTimeout(b) \/ AbandonBarrier(b) \/ ReleaseBarrier(b)
      PROVE  HoldInv' /\ written <= written'
  <2>1. /\ barrier' = barrier \/ barrier' = Open
        /\ pc' = [pc EXCEPT ![b] = "idle"] /\ written' = written
        /\ heldAt' = heldAt \/ heldAt' = [heldAt EXCEPT ![b] = 0]
    BY <1>6 DEF PollLost, DrainTimeout, AbandonBarrier, ReleaseBarrier, Release, state, ghost
  <2>2. ASSUME NEW a \in Attempts PROVE HoldOf(a)'
    BY <1>0, <1>6, <2>1 DEF HoldOf, Open
  <2> QED BY <1>0, <2>1, <2>2 DEF HoldInv, OwnedInv, Open
<1> QED BY BarrierMoves, <1>1, <1>2, <1>3, <1>4, <1>5, <1>6 DEF OwnMoveAt

-----------------------------------------------------------------------------
(* What a step leaves alone                                                *)

\* The place, the choice, the hold and the content of attempt a.
LeftAlone(a) ==
    /\ at'[a] = at[a] /\ chosen'[a] = chosen[a] /\ pc'[a] = pc[a] /\ heldAt'[a] = heldAt[a]
    /\ snap'[a].state = snap[a].state /\ snap'[a].included = snap[a].included
    /\ snap'[a].tree = snap[a].tree /\ snap'[a].db = snap[a].db

\* Staging touches only the clean-up intent of a row with a workspace.
LEMMA StagedKeeps ==
    ASSUME SnapshotTypeOK, NEW S \in SUBSET Attempts
    PROVE  /\ Staged(S) \in [Attempts -> Snapshot]
           /\ \A a \in Attempts :
                 /\ Staged(S)[a].state = snap[a].state
                 /\ Staged(S)[a].included = snap[a].included
                 /\ Staged(S)[a].workspace = snap[a].workspace
                 /\ Staged(S)[a].tree = snap[a].tree /\ Staged(S)[a].db = snap[a].db
                 /\ \/ Staged(S)[a].cleanup = snap[a].cleanup
                    \/ Staged(S)[a].cleanup = "PENDING" /\ snap[a].workspace # "none"
<1>1. ASSUME NEW a \in Attempts
      PROVE  /\ Staged(S)[a] \in Snapshot
             /\ Staged(S)[a].state = snap[a].state
             /\ Staged(S)[a].included = snap[a].included
             /\ Staged(S)[a].workspace = snap[a].workspace
             /\ Staged(S)[a].tree = snap[a].tree /\ Staged(S)[a].db = snap[a].db
             /\ \/ Staged(S)[a].cleanup = snap[a].cleanup
                \/ Staged(S)[a].cleanup = "PENDING" /\ snap[a].workspace # "none"
  <2>1. snap[a] \in Snapshot
    BY DEF SnapshotTypeOK
  <2>2. \/ Staged(S)[a] = snap[a]
        \/ /\ snap[a].workspace # "none"
           /\ \E p \in {snap[a].workspace, snap[a].path} :
                 Staged(S)[a] = [snap[a] EXCEPT !.cleanup = "PENDING", !.path = p]
    BY <2>1 DEF Staged, Snapshot
  <2> QED BY <2>1, <2>2 DEF Snapshot, Cleanups, Paths
<1>2. Staged(S) = [a \in Attempts |-> Staged(S)[a]]
  BY DEF Staged
<1> QED BY <1>1, <1>2

\* The other attempts leave an attempt alone.
LEMMA OthersLeave ==
    ASSUME SnapshotTypeOK, TypeOK, NEW a \in Attempts, NEW b \in Attempts, a # b, Attempt(b)
    PROVE  LeftAlone(a)
<1> USE DEF LeftAlone, SnapshotTypeOK, TypeOK, Goto, vars, state, ghost, records, notes
<1>1. CASE CloseBarrier(b) \/ BarrierAcquired(b)
  BY <1>1 DEF CloseBarrier, BarrierAcquired, RequestBarrier, PollDrained
<1>2. CASE BarrierRefused(b)
  BY <1>2 DEF BarrierRefused, PollLost, DrainTimeout, AbandonBarrier
<1>3. CASE ReleaseHeld(b) \/ Leave(b)
  BY <1>3 DEF ReleaseHeld, Leave, ReleaseBarrier
<1>4. CASE Claim(b) \/ (\E s \in Attempts : Resume(b, s))
  BY <1>4 DEF Claim, Resume
<1>5. CASE CreateRow(b) \/ RecordWorkspace(b) \/ CopyTrees(b)
  BY <1>5 DEF CreateRow, RecordWorkspace, CopyTrees
<1>6. CASE HeartbeatUnderBarrier(b) \/ ProveBarrier(b) \/ CopyDatabase(b)
  BY <1>6 DEF HeartbeatUnderBarrier, ProveBarrier, CopyDatabase
<1>7. CASE ReconcileTrees(b) \/ IncludeEpoch(b) \/ CheckStable(b)
  BY <1>7 DEF ReconcileTrees, IncludeEpoch, CheckStable
<1>8. CASE RenameWorkspace(b) \/ FinalizeRow(b) \/ SaveCheckpoint(b)
  BY <1>8 DEF RenameWorkspace, FinalizeRow, SaveCheckpoint
<1>9. CASE Raise(b) \/ SaveFailure(b) \/ GiveUp(b)
  BY <1>9 DEF Raise, SaveFailure, GiveUp
<1>10. CASE StageFailed(b)
  <2>1. PICK S \in SUBSET Attempts : snap' = Staged(S)
    BY <1>10 DEF StageFailed
  <2> QED BY <1>10, <2>1, StagedKeeps DEF StageFailed
<1>11. CASE Upload(b) \/ UploadFails(b) \/ PutManifest(b) \/ Complete(b)
  BY <1>11 DEF Upload, UploadFails, PutManifest, Complete
<1> QED BY <1>1, <1>2, <1>3, <1>4, <1>5, <1>6, <1>7, <1>8, <1>9, <1>10, <1>11 DEF Attempt

\* So do clean-up, recovery, retries and writers.
LEMMA RestLeaves ==
    ASSUME SnapshotTypeOK, TypeOK, NEW a \in Attempts,
           \/ \E s \in Attempts : Cleanup(s)
           \/ RecoverStale \/ Requeue \/ SourceWrite
    PROVE  LeftAlone(a)
<1> USE DEF LeftAlone, SnapshotTypeOK, TypeOK, vars, state, ghost, records, notes
<1>1. ASSUME NEW s \in Attempts, StartReclaim(s) PROVE LeftAlone(a)
  <2>1. pc' = pc /\ heldAt' = heldAt /\ at' = at /\ chosen' = chosen
    BY <1>1 DEF StartReclaim, ReopenBarrier
  <2>2. PICK r \in {"RECLAIMING", "QUARANTINED"}, p \in {snap[s].path, "tombstone"} :
            snap' = [snap EXCEPT ![s] = [snap[s] EXCEPT !.cleanup = r, !.path = p]]
    <3>1. snap[s] \in Snapshot
      OBVIOUS
    <3>2. [snap[s] EXCEPT !.cleanup = "QUARANTINED", !.path = snap[s].path]
             = [snap[s] EXCEPT !.cleanup = "QUARANTINED"]
      BY <3>1 DEF Snapshot
    <3> QED BY <1>1, <3>2 DEF StartReclaim
  <2>3. snap[s] \in Snapshot /\ snap[a] \in Snapshot
    OBVIOUS
  <2>4. /\ snap'[a].state = snap[a].state /\ snap'[a].included = snap[a].included
        /\ snap'[a].tree = snap[a].tree /\ snap'[a].db = snap[a].db
    BY <2>2, <2>3 DEF Snapshot
  <2> QED BY <2>1, <2>4
<1>2. ASSUME NEW s \in Attempts, FinishReclaim(s) PROVE LeftAlone(a)
  BY <1>2 DEF FinishReclaim
<1>3. ASSUME NEW s \in Attempts, NEW recorded \in BOOLEAN, ReclaimStops(s, recorded)
      PROVE  LeftAlone(a)
  BY <1>3 DEF ReclaimStops
<1>4. CASE RecoverStale
  BY <1>4 DEF RecoverStale
<1>5. CASE Requeue
  <2>1. PICK S \in SUBSET Attempts : snap' = Staged(S)
    BY <1>5 DEF Requeue
  <2> QED BY <1>5, <2>1, StagedKeeps DEF Requeue
<1>6. CASE SourceWrite
  BY <1>6 DEF SourceWrite, WriterNext, EnterScope, Enter, EnterNested, WriteSource,
              ExitNested, ExitScope, WriterDies
<1> QED BY <1>1, <1>2, <1>3, <1>4, <1>5, <1>6 DEF Cleanup

\* Every step is an attempt's own or leaves it alone.
LEMMA OwnOrLeft ==
    ASSUME SnapInv, IInv, SnapshotNext, NEW a \in Attempts
    PROVE  Attempt(a) \/ LeftAlone(a)
<1>1. SnapshotTypeOK /\ TypeOK
  BY DEF SnapInv, IInv
<1> QED BY <1>1, OthersLeave, RestLeaves DEF SnapshotNext

-----------------------------------------------------------------------------
(* Coherent cuts                                                           *)

\* What an attempt copied is between its hold and now.
LEMMA CopiedStep ==
    ASSUME IInv, SnapInv, SnapshotNext
    PROVE  CopiedInv'
<1> SUFFICES ASSUME NEW a \in Attempts
             PROVE  /\ at'[a] \in UnderBarrier => pc'[a] = "holding"
                    /\ at'[a] \in {"reconcile", "include"} =>
                          \E n \in heldAt'[a]..written' : snap'[a].db = 1..n
                    /\ at'[a] = "include" =>
                          \E n \in heldAt'[a]..written' : snap'[a].tree = TreeWrites \cap 1..n
  BY DEF CopiedInv
<1>0. /\ at[a] \in UnderBarrier => pc[a] = "holding"
      /\ at[a] \in {"reconcile", "include"} =>
            \E n \in heldAt[a]..written : snap[a].db = 1..n
      /\ at[a] = "include" =>
            \E n \in heldAt[a]..written : snap[a].tree = TreeWrites \cap 1..n
      /\ at \in [Attempts -> Stages] /\ snap \in [Attempts -> Snapshot]
      /\ pc \in [Attempts -> HolderPCs]
      /\ heldAt[a] \in Nat /\ written \in Nat /\ heldAt[a] <= written
  <2>1. CopiedInv /\ SnapshotTypeOK /\ TypeOK /\ HoldOf(a)
    BY DEF SnapInv, HoldInv, IInv
  <2>2. heldAt[a] \in Nat /\ written \in Nat /\ heldAt[a] <= written
    BY <2>1 DEF HoldOf, TypeOK
  <2> QED BY <2>1, <2>2 DEF CopiedInv, SnapshotTypeOK, TypeOK
<1>1. written <= written'
  BY HoldStep
<1>2. written' \in Nat
  BY StepInv, SnapshotStepIsNext DEF IInv, TypeOK
<1>3. CASE LeftAlone(a)
  <2>1. heldAt[a]..written \subseteq heldAt'[a]..written'
    BY <1>0, <1>1, <1>2, <1>3 DEF LeftAlone
  <2> QED BY <1>0, <1>3, <2>1 DEF LeftAlone
<1>4. ASSUME Attempt(a), at'[a] \notin UnderBarrier
      PROVE  at'[a] \notin {"reconcile", "include"}
  BY <1>4 DEF UnderBarrier
<1>5. CASE CopyDatabase(a)
  <2>1. at'[a] = "reconcile" /\ pc'[a] = pc[a] /\ heldAt' = heldAt /\ written' = written
        /\ at[a] = "database" /\ snap'[a].db = 1..written
    BY <1>0, <1>5 DEF CopyDatabase, Goto, vars, state, ghost, DatabaseNow, Snapshot
  <2>2. written \in heldAt[a]..written
    BY <1>0
  <2> QED BY <1>0, <2>1, <2>2 DEF UnderBarrier
<1>6. CASE ReconcileTrees(a)
  <2>1. at'[a] = "include" /\ pc'[a] = pc[a] /\ heldAt' = heldAt /\ written' = written
        /\ at[a] = "reconcile" /\ snap'[a].db = snap[a].db
        /\ snap'[a].tree = TreeWrites \cap 1..written
    BY <1>0, <1>6 DEF ReconcileTrees, Goto, vars, state, ghost, TreesNow, DatabaseNow, Snapshot
  <2>2. written \in heldAt[a]..written
    BY <1>0
  <2> QED BY <1>0, <2>1, <2>2 DEF UnderBarrier
<1>7. CASE BarrierAcquired(a)
  <2>1. at'[a] = "beat" /\ pc'[a] = "holding"
    BY <1>0, <1>7 DEF BarrierAcquired, PollDrained, Goto
  <2> QED BY <2>1
<1>8. CASE \/ HeartbeatUnderBarrier(a) \/ ProveBarrier(a) \/ IncludeEpoch(a) \/ CheckStable(a)
           \/ RenameWorkspace(a) \/ FinalizeRow(a) \/ SaveCheckpoint(a)
  <2>1. /\ at[a] \in UnderBarrier /\ pc'[a] = pc[a]
        /\ at'[a] \in {"prove", "database", "stable", "rename", "finalize", "checkpoint",
                       "release"}
    BY <1>0, <1>8 DEF HeartbeatUnderBarrier, ProveBarrier, IncludeEpoch, CheckStable,
                      RenameWorkspace, FinalizeRow, SaveCheckpoint, Goto, UnderBarrier, Late,
                      vars
  <2> QED BY <1>0, <2>1
<1>9. CASE \/ Claim(a) \/ (\E s \in Attempts : Resume(a, s)) \/ CreateRow(a)
           \/ RecordWorkspace(a) \/ CopyTrees(a) \/ CloseBarrier(a) \/ BarrierRefused(a)
           \/ ReleaseHeld(a)
  <2>1. at'[a] \in {"begin", "upload", "workspace", "copy", "request", "poll", "fail"}
    BY <1>0, <1>9 DEF Claim, Resume, CreateRow, RecordWorkspace, CopyTrees, CloseBarrier,
                      BarrierRefused, ReleaseHeld, Goto
  <2> QED BY <2>1 DEF UnderBarrier, Late
<1>10. CASE \/ Raise(a) \/ SaveFailure(a) \/ StageFailed(a) \/ Leave(a) \/ GiveUp(a)
            \/ Upload(a) \/ UploadFails(a) \/ PutManifest(a) \/ Complete(a)
  <2>1. at'[a] \in {"fail", "stage", "leave", "giveUp", "done", "manifest", "complete"}
    BY <1>0, <1>10 DEF Raise, SaveFailure, StageFailed, Leave, GiveUp, Upload, UploadFails,
                       PutManifest, Complete, Goto
  <2> QED BY <2>1 DEF UnderBarrier, Late
<1> QED BY OwnOrLeft, <1>3, <1>5, <1>6, <1>7, <1>8, <1>9, <1>10 DEF Attempt

\* The epochs up to the current one keep their writes.
LEMMA EpochsKeep ==
    ASSUME IInv, SnapshotNext
    PROVE  /\ epoch \in Nat /\ epoch' \in Nat /\ epoch <= epoch'
           /\ \A n \in 0..epoch : {d \in journal' : d.epoch <= n} = {d \in journal : d.epoch <= n}
<1>1. epoch \in Nat /\ journal \subseteq Entry
  BY DEF IInv, TypeOK
<1>2. \/ UNCHANGED <<epoch, journal>>
      \/ /\ epoch' = epoch + 1
         /\ \E e \in {epoch + 1}, x \in SUBSET Writes :
               journal' = journal \cup {[epoch |-> e, writes |-> x]}
  <2>1. CASE UNCHANGED vars
    BY <2>1 DEF vars, state
  <2>2. CASE HolderNext \/ \E j \in Jobs : ReopenBarrier(j)
    BY <2>2 DEF HolderNext, ReopenBarrier, RequestBarrier, PollDrained, PollLost,
                DrainTimeout, AbandonBarrier, ReleaseBarrier, state
  <2>3. ASSUME NEW w \in Writers, ExitScope(w)
        PROVE  <1>2!:
    <3>1. scope[w].writes \in SUBSET Writes
      BY DEF IInv, TypeOK
    <3> QED BY <2>3, <3>1 DEF ExitScope
  <2>4. ASSUME NEW w \in Writers,
               \/ \E eager \in BOOLEAN : EnterScope(w, eager) \/ EnterNested(w, eager)
               \/ WriteSource(w) \/ ExitNested(w) \/ WriterDies(w)
        PROVE  UNCHANGED <<epoch, journal>>
    BY <2>4 DEF EnterScope, Enter, EnterNested, WriteSource, ExitNested, WriterDies, state
  <2> QED BY SnapshotStepIsNext, <2>1, <2>2, <2>3, <2>4 DEF Next, WriterNext
<1> QED BY <1>1, <1>2 DEF Entry

\* Nor does a cut lose its coherence.
LEMMA CoherentStays ==
    ASSUME IInv, SnapshotTypeOK, SnapshotNext, NEW s \in Attempts,
           Coherent(s), snap[s].included <= epoch,
           snap'[s].included = snap[s].included,
           snap'[s].tree = snap[s].tree, snap'[s].db = snap[s].db
    PROVE  Coherent(s)'
<1> DEFINE n == snap[s].included
<1>1. n \in Nat
  BY DEF SnapshotTypeOK, Snapshot
<1>2. n \in 0..epoch
  BY <1>1, EpochsKeep
<1>3. {d \in journal' : d.epoch <= n} = {d \in journal : d.epoch <= n}
  BY <1>2, EpochsKeep
<1> QED BY <1>3 DEF Coherent, Covered

\* What is chosen or published was kept before.
LEMMA ChosenWasKept ==
    ASSUME SnapInv, SnapshotNext, NEW s \in Attempts,
           s \in published' \/ \E a \in Attempts : chosen'[a] = s
    PROVE  Kept(s)
<1>0. chosen \in [Attempts -> Attempts \cup {None}]
  BY DEF SnapInv, SnapshotTypeOK
<1>1. CASE UNCHANGED <<published, chosen>>
  BY <1>1 DEF Kept
<1>2. ASSUME NEW b \in Attempts, PutManifest(b) PROVE Kept(s)
  BY <1>2 DEF PutManifest, Kept
<1>3. ASSUME NEW b \in Attempts, NEW t \in Attempts, Resume(b, t) PROVE Kept(s)
  BY <1>0, <1>3 DEF Resume, Eligible, Kept
<1>4. ASSUME NEW b \in Attempts, ReleaseHeld(b) PROVE Kept(s)
  BY <1>0, <1>4 DEF ReleaseHeld, Kept, Late
<1>5. ASSUME NEW b \in Attempts, Attempt(b), ~PutManifest(b), ~ReleaseHeld(b),
             \A t \in Attempts : ~Resume(b, t)
      PROVE  UNCHANGED <<published, chosen>>
  BY <1>5 DEF Attempt, Claim, CreateRow, RecordWorkspace, CopyTrees, CloseBarrier,
              BarrierAcquired, BarrierRefused, HeartbeatUnderBarrier, ProveBarrier,
              CopyDatabase, ReconcileTrees, IncludeEpoch, CheckStable, RenameWorkspace,
              FinalizeRow, SaveCheckpoint, Raise, SaveFailure, StageFailed, Leave, GiveUp,
              Upload, UploadFails, Complete
<1>6. ASSUME \/ \E b \in Attempts : Cleanup(b)
             \/ RecoverStale \/ Requeue \/ SourceWrite
      PROVE  UNCHANGED <<published, chosen>>
  BY <1>6 DEF Cleanup, StartReclaim, FinishReclaim, ReclaimStops, RecoverStale, Requeue,
              SourceWrite
<1> QED BY <1>1, <1>2, <1>3, <1>4, <1>5, <1>6 DEF SnapshotNext

\* Past its second proof an attempt fills nothing any more.
LEMMA FilledStays ==
    ASSUME SnapshotTypeOK, TypeOK, NEW s \in Attempts, Attempt(s), at[s] \notin Early
    PROVE  /\ at'[s] \notin Early
           /\ snap'[s].included = snap[s].included
           /\ snap'[s].tree = snap[s].tree /\ snap'[s].db = snap[s].db
           /\ snap'[s].state = "FINALIZED" => snap[s].state = "FINALIZED" \/ at[s] \in Late
           /\ at'[s] \in Late => at[s] \in Late
<1> USE DEF SnapshotTypeOK, Goto, Early, Late
<1>1. CASE CheckStable(s) \/ RenameWorkspace(s) \/ SaveCheckpoint(s)
  BY <1>1 DEF CheckStable, RenameWorkspace, SaveCheckpoint, records
<1>2. CASE FinalizeRow(s)
  BY <1>2 DEF FinalizeRow, Snapshot
<1>6. CASE SaveFailure(s)
  BY <1>6 DEF SaveFailure, Snapshot
<1>3. CASE StageFailed(s)
  <2>1. PICK S \in SUBSET Attempts : snap' = Staged(S)
    BY <1>3 DEF StageFailed
  <2> QED BY <1>3, <2>1, StagedKeeps DEF StageFailed
<1>4. CASE \/ ReleaseHeld(s) \/ Raise(s) \/ Leave(s) \/ GiveUp(s) \/ Upload(s)
           \/ UploadFails(s) \/ PutManifest(s) \/ Complete(s)
  BY <1>4 DEF ReleaseHeld, Raise, Leave, GiveUp, Upload, UploadFails, PutManifest, Complete,
              records
<1>5. CASE \/ Claim(s) \/ (\E t \in Attempts : Resume(s, t)) \/ CreateRow(s)
           \/ RecordWorkspace(s) \/ CopyTrees(s) \/ CloseBarrier(s) \/ BarrierAcquired(s)
           \/ BarrierRefused(s) \/ HeartbeatUnderBarrier(s) \/ ProveBarrier(s)
           \/ CopyDatabase(s) \/ ReconcileTrees(s) \/ IncludeEpoch(s)
  BY <1>5 DEF Claim, Resume, CreateRow, RecordWorkspace, CopyTrees, CloseBarrier,
              BarrierAcquired, BarrierRefused, HeartbeatUnderBarrier, ProveBarrier,
              CopyDatabase, ReconcileTrees, IncludeEpoch
<1> QED BY <1>1, <1>2, <1>3, <1>4, <1>5, <1>6 DEF Attempt

\* Before it, only the second proof makes it one to keep.
LEMMA FillingStays ==
    ASSUME SnapshotTypeOK, TypeOK, NEW s \in Attempts, Attempt(s), at[s] \in Early
    PROVE  /\ snap'[s].state = "FINALIZED" => snap[s].state = "FINALIZED"
           /\ at'[s] \in Late => IncludeEpoch(s)
           /\ ~IncludeEpoch(s) => snap'[s].included = snap[s].included
<1> USE DEF SnapshotTypeOK, Goto, Early, Late
<1>1. CASE Claim(s) \/ (\E t \in Attempts : Resume(s, t))
  BY <1>1 DEF Claim, Resume, records
<1>2. CASE CreateRow(s)
  BY <1>2 DEF CreateRow, Snapshot
<1>3. CASE RecordWorkspace(s)
  BY <1>3 DEF RecordWorkspace, Snapshot
<1>4. CASE CopyTrees(s)
  BY <1>4 DEF CopyTrees, Snapshot
<1>5. CASE CopyDatabase(s) \/ ReconcileTrees(s)
  BY <1>5 DEF CopyDatabase, ReconcileTrees, Snapshot
<1>6. CASE IncludeEpoch(s)
  BY <1>6 DEF IncludeEpoch, Snapshot
<1>7. CASE \/ CloseBarrier(s) \/ BarrierAcquired(s) \/ BarrierRefused(s)
           \/ HeartbeatUnderBarrier(s) \/ ProveBarrier(s) \/ Raise(s)
  BY <1>7 DEF CloseBarrier, BarrierAcquired, BarrierRefused, HeartbeatUnderBarrier,
              ProveBarrier, Raise, records
<1>8. CASE \/ CheckStable(s) \/ RenameWorkspace(s) \/ FinalizeRow(s) \/ SaveCheckpoint(s)
           \/ ReleaseHeld(s) \/ SaveFailure(s) \/ StageFailed(s) \/ Leave(s) \/ GiveUp(s)
           \/ Upload(s) \/ UploadFails(s) \/ PutManifest(s) \/ Complete(s)
  BY <1>8 DEF CheckStable, RenameWorkspace, FinalizeRow, SaveCheckpoint, ReleaseHeld,
              SaveFailure, StageFailed, Leave, GiveUp, Upload, UploadFails, PutManifest,
              Complete
<1> QED BY <1>1, <1>2, <1>3, <1>4, <1>5, <1>6, <1>7, <1>8 DEF Attempt

\* A proof of ownership over a hold that nobody shared makes a coherent cut.
LEMMA ProvenIsCoherent ==
    ASSUME IInv, SnapInv, NEW s \in Attempts, IncludeEpoch(s), s \notin shared
    PROVE  Coherent(s)'
<1>0. /\ snap \in [Attempts -> Snapshot] /\ at \in [Attempts -> Stages]
      /\ HoldOf(s) /\ heldAt[s] \in Nat /\ written \in Nat
      /\ epoch \in Nat /\ journal \subseteq Entry
  BY DEF SnapInv, SnapshotTypeOK, HoldInv, IInv, TypeOK
<1>1. /\ at[s] = "include" /\ pc[s] = "holding" /\ barrier.state = "ACTIVE"
      /\ journal' = journal
      /\ snap' = [snap EXCEPT ![s].included = epoch]
  BY DEF IncludeEpoch, ProvesOwnership, vars, state
<1>2. heldAt[s] = written
  BY <1>0, <1>1 DEF HoldOf
<1>3. snap[s].db = 1..written /\ snap[s].tree = TreeWrites \cap 1..written
  <2>1. PICK n \in written..written : snap[s].db = 1..n
    BY <1>1, <1>2 DEF SnapInv, CopiedInv
  <2>2. PICK m \in written..written : snap[s].tree = TreeWrites \cap 1..m
    BY <1>1, <1>2 DEF SnapInv, CopiedInv
  <2> QED BY <1>0, <2>1, <2>2
<1>4. Journaled = 1..written
  BY <1>1, ActiveCovers DEF ActiveBarrierCoversWrites
<1>5. {d \in journal : d.epoch <= epoch} = journal
  <2>1. \A d \in journal : d.epoch \in 1..epoch
    BY DEF IInv, JournalIsDense
  <2> QED BY <1>0, <2>1
<1>6. /\ snap'[s].db = 1..written /\ snap'[s].tree = TreeWrites \cap 1..written
      /\ snap'[s].included = epoch
  BY <1>0, <1>1, <1>3 DEF Snapshot
<1>7. UNION {e.writes : e \in {d \in journal' : d.epoch <= snap'[s].included}} = 1..written
  BY <1>1, <1>4, <1>5, <1>6 DEF Journaled
<1> QED BY <1>6, <1>7 DEF Coherent, Covered

\* Whatever is kept stays as it is.
LEMMA KeptStep ==
    ASSUME IInv, SnapInv, SnapshotNext
    PROVE  KeptInv'
<1> SUFFICES ASSUME NEW s \in Attempts
             PROVE  /\ snap'[s].included <= epoch'
                    /\ Kept(s)' => at'[s] \notin Early
                    /\ Kept(s)' /\ s \notin shared' => Coherent(s)'
  BY DEF KeptInv
<1>0. /\ SnapshotTypeOK /\ TypeOK
      /\ snap[s].included <= epoch
      /\ Kept(s) => at[s] \notin Early
      /\ Kept(s) /\ s \notin shared => Coherent(s)
  BY DEF SnapInv, KeptInv, IInv
<1>1. shared \subseteq shared'
  BY BarrierMoves
<1>2. snap[s].included \in Nat /\ epoch \in Nat /\ epoch' \in Nat /\ epoch <= epoch'
  BY <1>0, EpochsKeep DEF SnapshotTypeOK, Snapshot
<1>3. CASE IncludeEpoch(s)
  <2>1. snap'[s].included = epoch /\ at'[s] = "stable" /\ shared' = shared
    BY <1>0, <1>3 DEF IncludeEpoch, SnapshotTypeOK, Snapshot, Goto, notes
  <2> QED BY <1>2, <1>3, <2>1, ProvenIsCoherent DEF Early
<1>4. CASE ~IncludeEpoch(s)
  <2>1. Kept(s)' => Kept(s)
    <3>1. CASE s \in published' \/ \E a \in Attempts : chosen'[a] = s
      BY <3>1, ChosenWasKept
    <3>2. CASE LeftAlone(s)
      BY <3>1, <3>2 DEF LeftAlone, Kept
    <3>3. CASE Attempt(s)
      BY <1>0, <1>4, <3>1, <3>3, FilledStays, FillingStays DEF Kept
    <3> QED BY <3>2, <3>3, OwnOrLeft
  <2>2. snap'[s].included = snap[s].included
    BY <1>0, <1>4, OwnOrLeft, FilledStays, FillingStays DEF LeftAlone
  <2>3. Kept(s) => /\ at'[s] \notin Early
                   /\ snap'[s].tree = snap[s].tree /\ snap'[s].db = snap[s].db
    BY <1>0, OwnOrLeft, FilledStays DEF LeftAlone
  <2>4. Kept(s) /\ s \notin shared => Coherent(s)'
    BY <1>0, <2>2, <2>3, CoherentStays
  <2> QED BY <1>0, <1>1, <1>2, <2>1, <2>2, <2>3, <2>4
<1> QED BY <1>3, <1>4

-----------------------------------------------------------------------------
(* Workspaces and clean-up                                                 *)

\* What a step does to the workspace of a and to its clean-up.
LEMMA WorkspaceMoves ==
    ASSUME IInv, SnapInv, SnapshotNext, NEW a \in Attempts
    PROVE  \/ Cleanup(a)
           \/ /\ cleaning'[a] = cleaning[a]
              /\ disk'[a] = disk[a] \/ RecordWorkspace(a) \/ RenameWorkspace(a)
              /\ snap'[a].workspace = snap[a].workspace \/ Attempt(a)
              /\ \/ snap'[a].cleanup = snap[a].cleanup
                 \/ snap'[a].cleanup = "PENDING" /\ snap[a].workspace # "none"
<1> DEFINE Moves == /\ cleaning'[a] = cleaning[a]
                    /\ disk'[a] = disk[a] \/ RecordWorkspace(a) \/ RenameWorkspace(a)
                    /\ snap'[a].workspace = snap[a].workspace \/ Attempt(a)
                    /\ \/ snap'[a].cleanup = snap[a].cleanup
                       \/ snap'[a].cleanup = "PENDING" /\ snap[a].workspace # "none"
<1>0. /\ SnapshotTypeOK
      /\ snap \in [Attempts -> Snapshot] /\ disk \in [Attempts -> Paths]
      /\ cleaning \in [Attempts -> Paths \ {"tombstone"}]
  BY DEF SnapInv, SnapshotTypeOK
<1>1. CASE RecoverStale \/ SourceWrite
  BY <1>1 DEF RecoverStale, SourceWrite, records
<1>2. ASSUME NEW S \in SUBSET Attempts, snap' = Staged(S), cleaning' = cleaning, disk' = disk
      PROVE  Moves
  BY <1>0, <1>2, StagedKeeps
<1>3. CASE Requeue
  <2>1. PICK S \in SUBSET Attempts : snap' = Staged(S)
    BY <1>3 DEF Requeue
  <2> QED BY <1>2, <1>3, <2>1 DEF Requeue
<1>4. ASSUME NEW s \in Attempts, s # a, Cleanup(s) PROVE Moves
  <2>1. CASE StartReclaim(s)
    <3>1. disk' = disk /\ snap'[a] = snap[a] /\ cleaning'[a] = cleaning[a]
      BY <1>0, <1>4, <2>1 DEF StartReclaim
    <3> QED BY <3>1
  <2>2. CASE FinishReclaim(s) \/ \E recorded \in BOOLEAN : ReclaimStops(s, recorded)
    BY <1>0, <1>4, <2>2 DEF FinishReclaim, ReclaimStops
  <2> QED BY <1>4, <2>1, <2>2 DEF Cleanup
<1>5. ASSUME NEW b \in Attempts, Attempt(b) PROVE Moves
  <2>1. CASE StageFailed(b)
    <3>1. PICK S \in SUBSET Attempts : snap' = Staged(S)
      BY <2>1 DEF StageFailed
    <3> QED BY <1>2, <2>1, <3>1 DEF StageFailed
  <2>2. CASE CreateRow(b) \/ CopyTrees(b) \/ CopyDatabase(b) \/ ReconcileTrees(b)
    BY <1>0, <2>2 DEF CreateRow, CopyTrees, CopyDatabase, ReconcileTrees, Snapshot
  <2>3. CASE IncludeEpoch(b) \/ SaveFailure(b)
    BY <1>0, <2>3 DEF IncludeEpoch, SaveFailure, Snapshot
  <2>4. CASE RecordWorkspace(b)
    <3>1. /\ cleaning' = cleaning /\ snap'[a].cleanup = snap[a].cleanup
          /\ a # b => snap'[a] = snap[a] /\ disk'[a] = disk[a]
      BY <1>0, <2>4 DEF RecordWorkspace, Snapshot
    <3> QED BY <1>5, <2>4, <3>1
  <2>5. CASE FinalizeRow(b)
    <3>1. /\ cleaning' = cleaning /\ disk' = disk /\ snap'[a].cleanup = snap[a].cleanup
          /\ a # b => snap'[a] = snap[a]
      BY <1>0, <2>5 DEF FinalizeRow, Snapshot
    <3> QED BY <1>5, <3>1
  <2>6. CASE RenameWorkspace(b)
    <3>1. /\ cleaning' = cleaning /\ snap' = snap
          /\ a # b => disk'[a] = disk[a]
      BY <1>0, <2>6 DEF RenameWorkspace
    <3> QED BY <2>6, <3>1
  <2>7. CASE \/ Claim(b) \/ (\E s \in Attempts : Resume(b, s)) \/ CloseBarrier(b)
             \/ BarrierAcquired(b) \/ BarrierRefused(b) \/ HeartbeatUnderBarrier(b)
             \/ ProveBarrier(b) \/ CheckStable(b)
    BY <2>7 DEF Claim, Resume, CloseBarrier, BarrierAcquired, BarrierRefused,
                HeartbeatUnderBarrier, ProveBarrier, CheckStable, records
  <2>8. CASE \/ SaveCheckpoint(b) \/ ReleaseHeld(b) \/ Raise(b) \/ Leave(b) \/ GiveUp(b)
             \/ Upload(b) \/ UploadFails(b) \/ PutManifest(b) \/ Complete(b)
    BY <2>8 DEF SaveCheckpoint, ReleaseHeld, Raise, Leave, GiveUp, Upload, UploadFails,
                PutManifest, Complete, records
  <2> QED BY <1>5, <2>1, <2>2, <2>3, <2>4, <2>5, <2>6, <2>7, <2>8 DEF Attempt
<1> QED BY <1>1, <1>3, <1>4, <1>5 DEF SnapshotNext

\* Where an attempt goes next: it does not begin twice, and it is to publish
\* only what it resumed or finished.
LEMMA Onwards ==
    ASSUME SnapshotTypeOK, NEW a \in Attempts, Attempt(a)
    PROVE  /\ at'[a] # "new"
           /\ at'[a] \in Filling =>
                 RecordWorkspace(a) \/ (at[a] \in Filling /\ ~RenameWorkspace(a))
           /\ at'[a] \in Filled => RenameWorkspace(a) \/ at[a] \in Filled
           /\ at'[a] \in {"upload", "manifest"} =>
                 \/ \E s \in Attempts : Resume(a, s)
                 \/ ReleaseHeld(a)
                 \/ Upload(a)
<1> USE DEF SnapshotTypeOK, Goto, Filling, Filled
<1>1. CASE Claim(a) \/ (\E s \in Attempts : Resume(a, s)) \/ CreateRow(a)
  BY <1>1 DEF Claim, Resume, CreateRow
<1>2. CASE RecordWorkspace(a) \/ CopyTrees(a) \/ CloseBarrier(a) \/ BarrierAcquired(a)
  BY <1>2 DEF RecordWorkspace, CopyTrees, CloseBarrier, BarrierAcquired, RenameWorkspace
<1>3. CASE BarrierRefused(a) \/ HeartbeatUnderBarrier(a) \/ ProveBarrier(a)
  BY <1>3 DEF BarrierRefused, HeartbeatUnderBarrier, ProveBarrier, RenameWorkspace
<1>4. CASE CopyDatabase(a) \/ ReconcileTrees(a) \/ IncludeEpoch(a) \/ CheckStable(a)
  BY <1>4 DEF CopyDatabase, ReconcileTrees, IncludeEpoch, CheckStable, RenameWorkspace
<1>5. CASE RenameWorkspace(a) \/ FinalizeRow(a) \/ SaveCheckpoint(a) \/ ReleaseHeld(a)
  BY <1>5 DEF RenameWorkspace, FinalizeRow, SaveCheckpoint, ReleaseHeld
<1>6. CASE Raise(a) \/ SaveFailure(a) \/ StageFailed(a) \/ Leave(a) \/ GiveUp(a)
  BY <1>6 DEF Raise, SaveFailure, StageFailed, Leave, GiveUp
<1>7. CASE Upload(a) \/ UploadFails(a) \/ PutManifest(a) \/ Complete(a)
  BY <1>7 DEF Upload, UploadFails, PutManifest, Complete
<1> QED BY <1>1, <1>2, <1>3, <1>4, <1>5, <1>6, <1>7 DEF Attempt

\* Clean-up works on what it was given.
LEMMA GivenStep ==
    ASSUME IInv, SnapInv, SnapshotNext
    PROVE  GivenInv'
<1> SUFFICES ASSUME NEW a \in Attempts
             PROVE  /\ at'[a] = "new" => snap'[a].cleanup = "NONE" /\ snap'[a].workspace = "none"
                    /\ snap'[a].cleanup = "NONE" => cleaning'[a] = "none"
                    /\ at'[a] \in {"upload", "manifest"} => chosen'[a] \in Attempts
  BY DEF GivenInv
<1>0. /\ SnapshotTypeOK
      /\ snap \in [Attempts -> Snapshot] /\ cleaning \in [Attempts -> Paths \ {"tombstone"}]
      /\ chosen \in [Attempts -> Attempts \cup {None}]
      /\ at[a] = "new" => snap[a].cleanup = "NONE" /\ snap[a].workspace = "none"
      /\ snap[a].cleanup = "NONE" => cleaning[a] = "none"
      /\ at[a] \in {"upload", "manifest"} => chosen[a] \in Attempts
  BY DEF SnapInv, GivenInv, SnapshotTypeOK
<1>1. at'[a] \in {"upload", "manifest"} => chosen'[a] \in Attempts
  <2>1. CASE LeftAlone(a)
    BY <1>0, <2>1 DEF LeftAlone
  <2>2. CASE Attempt(a) /\ at'[a] \in {"upload", "manifest"}
    <3>1. CASE \E s \in Attempts : Resume(a, s)
      BY <1>0, <3>1 DEF Resume
    <3>2. CASE ReleaseHeld(a)
      BY <1>0, <3>2 DEF ReleaseHeld
    <3>3. CASE Upload(a)
      BY <1>0, <3>3 DEF Upload
    <3> QED BY <1>0, <2>2, <3>1, <3>2, <3>3, Onwards
  <2> QED BY <2>1, <2>2, OwnOrLeft
<1>2. CASE StartReclaim(a)
  <2>1. /\ snap[a].cleanup # "NONE" /\ snap'[a].cleanup # "NONE"
        /\ at'[a] = at[a]
    BY <1>0, <1>2 DEF StartReclaim, Snapshot
  <2> QED BY <1>0, <1>1, <2>1
<1>3. CASE FinishReclaim(a) \/ \E recorded \in BOOLEAN : ReclaimStops(a, recorded)
  <2>1. cleaning[a] # "none" /\ cleaning'[a] = "none" /\ at'[a] = at[a]
    BY <1>0, <1>3 DEF FinishReclaim, ReclaimStops
  <2> QED BY <1>0, <1>1, <2>1
<1>4. CASE ~Cleanup(a)
  <2>1. at'[a] = "new" => at[a] = "new" /\ ~Attempt(a)
    BY <1>0, Onwards, OwnOrLeft DEF LeftAlone
  <2> QED BY <1>0, <1>1, <1>4, <2>1, WorkspaceMoves
<1> QED BY <1>2, <1>3, <1>4 DEF Cleanup

\* While the job has an owner no clean-up pass begins.
LEMMA OwnedAreKept ==
    ASSUME IInv, SnapInv, SnapshotNext, NEW a \in Attempts, Owns(a),
           NEW s \in Attempts, cleaning[s] = "none"
    PROVE  /\ cleaning'[s] = "none"
           /\ disk'[s] = disk[s] \/ RecordWorkspace(s) \/ RenameWorkspace(s)
<1>1. ~StartReclaim(s)
  BY DEF Owns, StartReclaim, Quiesced
<1>2. ~Cleanup(s)
  BY <1>1 DEF Cleanup, FinishReclaim, ReclaimStops
<1> QED BY <1>2, WorkspaceMoves

\* An attempt owns the job only by claiming it.
LEMMA OwnerMoves ==
    ASSUME SnapInv, SnapshotNext, NEW a \in Attempts, Owns(a)'
    PROVE  Owns(a) \/ Claim(a)
<1>1. CASE job' = job
  BY <1>1 DEF Owns
<1>2. CASE job'.status # "running"
  BY <1>2 DEF Owns
<1>3. ASSUME NEW b \in Attempts, Claim(b) PROVE Claim(a)
  <2>1. a = b
    BY <1>3 DEF Claim, Owns
  <2> QED BY <1>3, <2>1
<1>4. ASSUME NEW b \in Attempts, Attempt(b), ~Claim(b)
      PROVE  job' = job \/ job'.status # "running"
  <2>1. CASE GiveUp(b) \/ Complete(b)
    BY <2>1 DEF GiveUp, Complete
  <2>2. CASE ~GiveUp(b) /\ ~Complete(b)
    BY <1>4, <2>2 DEF Attempt, Resume, CreateRow, RecordWorkspace, CopyTrees, CloseBarrier,
              BarrierAcquired, BarrierRefused, HeartbeatUnderBarrier, ProveBarrier,
              CopyDatabase, ReconcileTrees, IncludeEpoch, CheckStable, RenameWorkspace,
              FinalizeRow, SaveCheckpoint, ReleaseHeld, Raise, SaveFailure, StageFailed,
              Leave, Upload, UploadFails, PutManifest, records
  <2> QED BY <2>1, <2>2
<1>5. ASSUME \/ \E b \in Attempts : Cleanup(b)
             \/ RecoverStale \/ Requeue \/ SourceWrite
      PROVE  job' = job \/ job'.status # "running"
  <2>1. CASE RecoverStale \/ Requeue
    BY <2>1 DEF RecoverStale, Requeue
  <2>2. CASE SourceWrite
    BY <2>2 DEF SourceWrite, records
  <2>3. ASSUME NEW b \in Attempts, Cleanup(b) PROVE job' = job
    BY <2>3 DEF Cleanup, StartReclaim, FinishReclaim, ReclaimStops
  <2> QED BY <1>5, <2>1, <2>2, <2>3
<1> QED BY <1>1, <1>2, <1>3, <1>4, <1>5 DEF SnapshotNext

\* The workspaces of the owner stay.
LEMMA OwnerStep ==
    ASSUME IInv, SnapInv, SnapshotNext
    PROVE  OwnerInv'
<1> SUFFICES ASSUME NEW a \in Attempts, Owns(a)'
             PROVE  /\ cleaning'[a] = "none"
                    /\ at'[a] \in Filling => disk'[a] = "incomplete"
                    /\ at'[a] \in Filled => disk'[a] = "final"
                    /\ at'[a] \in {"upload", "manifest"} =>
                          disk'[chosen'[a]] = "final" /\ cleaning'[chosen'[a]] = "none"
  BY DEF OwnerInv
<1>0. /\ SnapshotTypeOK /\ GivenInv /\ KeptInv
      /\ at \in [Attempts -> Stages] /\ disk \in [Attempts -> Paths]
      /\ cleaning \in [Attempts -> Paths \ {"tombstone"}]
      /\ chosen \in [Attempts -> Attempts \cup {None}]
  BY DEF SnapInv, SnapshotTypeOK
<1>1. CASE Claim(a)
  <2>1. at[a] = "new" /\ at'[a] = "begin" /\ cleaning' = cleaning
    BY <1>0, <1>1 DEF Claim, Goto
  <2> QED BY <1>0, <2>1 DEF GivenInv, Filling, Filled
<1>2. CASE Owns(a)
  <2>1. /\ cleaning[a] = "none"
        /\ at[a] \in Filling => disk[a] = "incomplete"
        /\ at[a] \in Filled => disk[a] = "final"
        /\ at[a] \in {"upload", "manifest"} =>
              disk[chosen[a]] = "final" /\ cleaning[chosen[a]] = "none"
    BY <1>2 DEF SnapInv, OwnerInv
  <2>2. /\ cleaning'[a] = "none"
        /\ disk'[a] = disk[a] \/ RecordWorkspace(a) \/ RenameWorkspace(a)
    BY <1>2, <2>1, OwnedAreKept
  <2>3. /\ RecordWorkspace(a) => at[a] = "workspace" /\ at'[a] = "copy" /\ disk'[a] = "incomplete"
        /\ RenameWorkspace(a) => at[a] = "rename" /\ at'[a] = "finalize" /\ disk'[a] = "final"
    BY <1>0 DEF RecordWorkspace, RenameWorkspace, Goto
  <2>4. /\ at'[a] \in Filling => disk'[a] = "incomplete"
        /\ at'[a] \in Filled => disk'[a] = "final"
    <3>1. CASE LeftAlone(a)
      BY <2>1, <2>2, <2>3, <3>1 DEF LeftAlone
    <3>2. CASE Attempt(a)
      BY <1>0, <2>1, <2>2, <2>3, <3>2, Onwards DEF Filling, Filled
    <3> QED BY <3>1, <3>2, OwnOrLeft
  <2>5. ASSUME NEW t \in Attempts, disk[t] = "final", cleaning[t] = "none", Kept(t)
        PROVE  disk'[t] = "final" /\ cleaning'[t] = "none"
    <3>1. ~RecordWorkspace(t)
      BY <1>0, <2>5 DEF RecordWorkspace, KeptInv, Early
    <3>2. RenameWorkspace(t) => disk'[t] = "final"
      BY <1>0 DEF RenameWorkspace
    <3> QED BY <1>2, <2>5, <3>1, <3>2, OwnedAreKept
  <2>6. ASSUME at[a] \in {"upload", "manifest"}, chosen'[a] = chosen[a]
        PROVE  disk'[chosen'[a]] = "final" /\ cleaning'[chosen'[a]] = "none"
    <3>1. PICK t \in Attempts : t = chosen[a]
      BY <1>0, <2>6 DEF GivenInv
    <3> QED BY <2>1, <2>5, <2>6, <3>1 DEF Kept
  <2>7. at'[a] \in {"upload", "manifest"} =>
            disk'[chosen'[a]] = "final" /\ cleaning'[chosen'[a]] = "none"
    <3>1. CASE LeftAlone(a)
      BY <2>6, <3>1 DEF LeftAlone
    <3>2. CASE Upload(a)
      BY <2>6, <3>2 DEF Upload
    <3>3. ASSUME NEW s \in Attempts, Resume(a, s)
          PROVE  disk'[chosen'[a]] = "final" /\ cleaning'[chosen'[a]] = "none"
      <4>1. chosen'[a] = s /\ disk' = disk /\ cleaning' = cleaning /\ Eligible(s)
        BY <1>0, <3>3 DEF Resume, records
      <4> QED BY <1>0, <4>1 DEF Eligible, GivenInv
    <3>4. CASE ReleaseHeld(a)
      <4>1. chosen'[a] = a /\ at[a] = "release" /\ disk' = disk
        BY <1>0, <3>4 DEF ReleaseHeld, records
      <4> QED BY <2>1, <2>2, <4>1 DEF Filled
    <3>5. CASE Attempt(a) /\ at'[a] \in {"upload", "manifest"}
      BY <1>0, <3>2, <3>3, <3>4, <3>5, Onwards
    <3> QED BY <3>1, <3>5, OwnOrLeft
  <2> QED BY <2>2, <2>4, <2>7
<1> QED BY <1>1, <1>2, OwnerMoves

-----------------------------------------------------------------------------
(* The inductive invariant                                                 *)

\* A write to the row of an attempt that keeps its type.
LEMMA RowTyped ==
    ASSUME NEW a \in Attempts, snap \in [Attempts -> Snapshot],
           NEW y \in Snapshot, snap' = [snap EXCEPT ![a] = y]
    PROVE  snap' \in [Attempts -> Snapshot]
OBVIOUS

\* The types of the rows.
LEMMA RowsTyped ==
    ASSUME IInv, SnapInv, SnapshotNext
    PROVE  snap' \in [Attempts -> Snapshot]
<1>0. /\ SnapshotTypeOK /\ snap \in [Attempts -> Snapshot]
      /\ epoch \in Nat /\ DatabaseNow \in SUBSET Writes /\ TreesNow \in SUBSET TreeWrites
  <2>1. SnapshotTypeOK /\ TypeOK
    BY DEF SnapInv, IInv
  <2>2. written \in 0..MaxWrites /\ epoch \in Nat /\ MaxWrites \in Nat
    BY <2>1, BoundsAssumption DEF TypeOK
  <2>3. 1..written \subseteq 1..MaxWrites
    BY <2>2
  <2>4. snap \in [Attempts -> Snapshot]
    BY <2>1 DEF SnapshotTypeOK
  <2> QED BY <2>1, <2>2, <2>3, <2>4 DEF DatabaseNow, TreesNow, Writes
<1>1. CASE Requeue \/ \E b \in Attempts : StageFailed(b)
  <2>1. PICK S \in SUBSET Attempts : snap' = Staged(S)
    BY <1>1 DEF Requeue, StageFailed
  <2> QED BY <1>0, <2>1, StagedKeeps
<1>2. CASE snap' = snap
  BY <1>0, <1>2
<1>3. ASSUME NEW a \in Attempts,
             \/ CreateRow(a) \/ RecordWorkspace(a) \/ CopyTrees(a)
             \/ CopyDatabase(a) \/ ReconcileTrees(a)
      PROVE  snap' \in [Attempts -> Snapshot]
  <2>1. snap[a] \in Snapshot
    BY <1>0
  <2>2. CASE CreateRow(a)
    <3> DEFINE y == [snap[a] EXCEPT !.state = "CREATED"]
    <3>1. y \in Snapshot
      BY <2>1 DEF Snapshot, States
    <3>2. snap' = [snap EXCEPT ![a] = y]
      BY <2>2 DEF CreateRow
    <3> QED BY <1>0, <3>1, <3>2, RowTyped
  <2>3. CASE RecordWorkspace(a)
    <3> DEFINE y == [snap[a] EXCEPT !.state = "COPYING", !.workspace = "incomplete"]
    <3>1. y \in Snapshot
      BY <2>1 DEF Snapshot, States, Paths
    <3>2. snap' = [snap EXCEPT ![a] = y]
      BY <1>0, <2>3 DEF RecordWorkspace
    <3> QED BY <1>0, <3>1, <3>2, RowTyped
  <2>4. CASE CopyTrees(a)
    <3> DEFINE y == [snap[a] EXCEPT !.tree = TreesNow, !.state = "BARRIER"]
    <3>1. y \in Snapshot
      BY <1>0, <2>1 DEF Snapshot, States
    <3>2. snap' = [snap EXCEPT ![a] = y]
      BY <1>0, <2>4 DEF CopyTrees
    <3> QED BY <1>0, <3>1, <3>2, RowTyped
  <2>5. CASE CopyDatabase(a)
    <3> DEFINE y == [snap[a] EXCEPT !.db = DatabaseNow]
    <3>1. y \in Snapshot
      BY <1>0, <2>1 DEF Snapshot
    <3>2. snap' = [snap EXCEPT ![a] = y]
      BY <2>5 DEF CopyDatabase
    <3> QED BY <1>0, <3>1, <3>2, RowTyped
  <2>6. CASE ReconcileTrees(a)
    <3> DEFINE y == [snap[a] EXCEPT !.tree = TreesNow]
    <3>1. y \in Snapshot
      BY <1>0, <2>1 DEF Snapshot
    <3>2. snap' = [snap EXCEPT ![a] = y]
      BY <2>6 DEF ReconcileTrees
    <3> QED BY <1>0, <3>1, <3>2, RowTyped
  <2> QED BY <1>3, <2>2, <2>3, <2>4, <2>5, <2>6
<1>4. ASSUME NEW a \in Attempts, IncludeEpoch(a) \/ FinalizeRow(a) \/ SaveFailure(a)
      PROVE  snap' \in [Attempts -> Snapshot]
  <2>1. snap[a] \in Snapshot
    BY <1>0
  <2>2. CASE IncludeEpoch(a)
    <3> DEFINE y == [snap[a] EXCEPT !.included = epoch]
    <3>1. y \in Snapshot
      BY <1>0, <2>1 DEF Snapshot
    <3>2. snap' = [snap EXCEPT ![a] = y]
      BY <2>2 DEF IncludeEpoch
    <3> QED BY <1>0, <3>1, <3>2, RowTyped
  <2>3. CASE FinalizeRow(a)
    <3> DEFINE y == [snap[a] EXCEPT !.state = "FINALIZED", !.workspace = "final"]
    <3>1. y \in Snapshot
      BY <2>1 DEF Snapshot, States, Paths
    <3>2. snap' = [snap EXCEPT ![a] = y]
      BY <1>0, <2>3 DEF FinalizeRow
    <3> QED BY <1>0, <3>1, <3>2, RowTyped
  <2>4. CASE SaveFailure(a)
    <3> DEFINE y == [snap[a] EXCEPT !.state = "FAILED"]
    <3>1. y \in Snapshot
      BY <2>1 DEF Snapshot, States
    <3>2. snap' = [snap EXCEPT ![a] = y]
      BY <2>4 DEF SaveFailure
    <3> QED BY <1>0, <3>1, <3>2, RowTyped
  <2> QED BY <1>4, <2>2, <2>3, <2>4
<1>5. ASSUME NEW a \in Attempts, Attempt(a)
      PROVE  snap' \in [Attempts -> Snapshot]
  <2>1. CASE \/ Claim(a) \/ (\E s \in Attempts : Resume(a, s)) \/ CloseBarrier(a)
             \/ BarrierAcquired(a) \/ BarrierRefused(a) \/ HeartbeatUnderBarrier(a)
             \/ ProveBarrier(a) \/ CheckStable(a) \/ RenameWorkspace(a)
    BY <1>2, <2>1 DEF Claim, Resume, CloseBarrier, BarrierAcquired, BarrierRefused,
                HeartbeatUnderBarrier, ProveBarrier, CheckStable, RenameWorkspace, records
  <2>2. CASE \/ SaveCheckpoint(a) \/ ReleaseHeld(a) \/ Raise(a) \/ Leave(a) \/ GiveUp(a)
             \/ Upload(a) \/ UploadFails(a) \/ PutManifest(a) \/ Complete(a)
    BY <1>2, <2>2 DEF SaveCheckpoint, ReleaseHeld, Raise, Leave, GiveUp, Upload,
                UploadFails, PutManifest, Complete, records
  <2> QED BY <1>1, <1>3, <1>4, <1>5, <2>1, <2>2 DEF Attempt
<1>6. ASSUME NEW s \in Attempts, Cleanup(s) PROVE snap' \in [Attempts -> Snapshot]
  <2>1. snap[s] \in Snapshot
    BY <1>0
  <2>2. CASE StartReclaim(s)
    <3> DEFINE y == [snap[s] EXCEPT !.cleanup = "RECLAIMING", !.path = "tombstone"]
               z == [snap[s] EXCEPT !.cleanup = "QUARANTINED"]
    <3>1. y \in Snapshot /\ z \in Snapshot
      BY <2>1 DEF Snapshot, Cleanups, Paths
    <3>2. snap' = [snap EXCEPT ![s] = y] \/ snap' = [snap EXCEPT ![s] = z]
      BY <1>0, <2>2 DEF StartReclaim
    <3> HIDE DEF y, z
    <3> QED BY <1>0, <3>1, <3>2, RowTyped
  <2>3. CASE FinishReclaim(s)
    <3> DEFINE y == [snap[s] EXCEPT !.cleanup = "COMPLETED", !.workspace = "none"]
    <3>1. y \in Snapshot
      BY <2>1 DEF Snapshot, Cleanups, Paths
    <3>2. snap' = [snap EXCEPT ![s] = y]
      BY <1>0, <2>3 DEF FinishReclaim
    <3> QED BY <1>0, <3>1, <3>2, RowTyped
  <2>4. ASSUME NEW recorded \in BOOLEAN, ReclaimStops(s, recorded)
        PROVE  snap' \in [Attempts -> Snapshot]
    <3> DEFINE y == [snap[s] EXCEPT !.cleanup = "FAILED"]
    <3>1. y \in Snapshot
      BY <2>1 DEF Snapshot, Cleanups
    <3>2. snap' = [snap EXCEPT ![s] = y] \/ snap' = snap
      BY <2>4 DEF ReclaimStops
    <3> QED BY <1>0, <3>1, <3>2, RowTyped
  <2> QED BY <1>6, <2>2, <2>3, <2>4 DEF Cleanup
<1>7. CASE RecoverStale \/ SourceWrite
  BY <1>2, <1>7 DEF RecoverStale, SourceWrite, records
<1> QED BY <1>1, <1>5, <1>6, <1>7 DEF SnapshotNext

\* The types of everything else.
LEMMA SnapshotTypeStep ==
    ASSUME IInv, SnapInv, SnapshotNext
    PROVE  SnapshotTypeOK'
<1>0. SnapshotTypeOK /\ TypeOK /\ GivenInv
  BY DEF SnapInv, IInv
<1> USE DEF SnapshotTypeOK
<1>1. snap' \in [Attempts -> Snapshot]
  BY RowsTyped
<1>2. shared' \in SUBSET Attempts
  BY <1>0, BarrierMoves
<1>3. ASSUME NEW a \in Attempts,
             Claim(a) \/ GiveUp(a) \/ Complete(a)
      PROVE  SnapshotTypeOK'
  BY <1>0, <1>1, <1>3, AttemptsAssumption
     DEF Claim, GiveUp, Complete, Goto, JobRow, Owns, notes, Stages
<1>4. ASSUME NEW a \in Attempts,
             (\E s \in Attempts : Resume(a, s)) \/ ReleaseHeld(a) \/ Upload(a) \/ UploadFails(a)
      PROVE  SnapshotTypeOK'
  BY <1>0, <1>1, <1>4 DEF Resume, ReleaseHeld, Upload, UploadFails, Goto, records, notes, Stages
<1>5. ASSUME NEW a \in Attempts, PutManifest(a)
      PROVE  SnapshotTypeOK'
  BY <1>0, <1>1, <1>5 DEF PutManifest, Goto, records, notes, Stages, GivenInv
<1>6. ASSUME NEW a \in Attempts,
             \/ CreateRow(a) \/ RecordWorkspace(a) \/ CopyTrees(a) \/ RenameWorkspace(a)
      PROVE  SnapshotTypeOK'
  BY <1>0, <1>1, <1>6 DEF CreateRow, RecordWorkspace, CopyTrees, RenameWorkspace, Goto, notes,
                          Stages, Paths, StepRow
<1>7. ASSUME NEW a \in Attempts,
             \/ CopyDatabase(a) \/ ReconcileTrees(a) \/ IncludeEpoch(a) \/ FinalizeRow(a)
             \/ StageFailed(a)
      PROVE  SnapshotTypeOK'
  BY <1>0, <1>1, <1>7 DEF CopyDatabase, ReconcileTrees, IncludeEpoch, FinalizeRow,
                          StageFailed, Goto, notes, Stages
<1>8. ASSUME NEW a \in Attempts, SaveCheckpoint(a) \/ SaveFailure(a)
      PROVE  SnapshotTypeOK'
  BY <1>0, <1>1, <1>8 DEF SaveCheckpoint, SaveFailure, Goto, notes, Stages, StepRow
<1>9. ASSUME NEW a \in Attempts,
             \/ CloseBarrier(a) \/ BarrierAcquired(a) \/ BarrierRefused(a) \/ Leave(a)
      PROVE  SnapshotTypeOK'
  BY <1>0, <1>1, <1>2, <1>9 DEF CloseBarrier, BarrierAcquired, BarrierRefused, Leave, Goto,
                          records, notes, Stages
<1>10. ASSUME NEW a \in Attempts,
              HeartbeatUnderBarrier(a) \/ ProveBarrier(a) \/ CheckStable(a)
       PROVE  SnapshotTypeOK'
  BY <1>0, <1>1, <1>10 DEF HeartbeatUnderBarrier, ProveBarrier, CheckStable, Goto, records,
                           notes, Stages
<1>11. ASSUME NEW a \in Attempts, Raise(a)
       PROVE  SnapshotTypeOK'
  BY <1>0, <1>1, <1>11, PassesAssumption DEF Raise, Goto, records, Stages
<1>12. ASSUME NEW s \in Attempts, StartReclaim(s)
       PROVE  SnapshotTypeOK'
  <2>1. passes' \in [Attempts -> 0..MaxPasses]
    BY <1>0, <1>12, PassesAssumption DEF StartReclaim
  <2>2. cleaning' \in [Attempts -> Paths \ {"tombstone"}]
    BY <1>0, <1>12 DEF StartReclaim, Expected, Paths
  <2>3. UNCHANGED <<job, disk, step, at, chosen, published, shared, raises>>
    BY <1>12 DEF StartReclaim
  <2> QED BY <1>0, <1>1, <2>1, <2>2, <2>3
<1>13. ASSUME NEW s \in Attempts,
              FinishReclaim(s) \/ \E recorded \in BOOLEAN : ReclaimStops(s, recorded)
       PROVE  SnapshotTypeOK'
  BY <1>0, <1>1, <1>13 DEF FinishReclaim, ReclaimStops, Paths, notes
<1>14. CASE RecoverStale \/ Requeue
  BY <1>0, <1>1, <1>14 DEF RecoverStale, Requeue, JobRow, notes
<1>15. CASE SourceWrite
  BY <1>0, <1>1, <1>15 DEF SourceWrite, records, notes
<1>16. ASSUME NEW a \in Attempts, Attempt(a) PROVE SnapshotTypeOK'
  BY <1>3, <1>4, <1>5, <1>6, <1>7, <1>8, <1>9, <1>10, <1>11, <1>16 DEF Attempt
<1> QED BY <1>12, <1>13, <1>14, <1>15, <1>16 DEF SnapshotNext, Cleanup

\* The invariant holds when the job is queued for the first time.
LEMMA SnapshotInitInv == SnapshotInit => SnapInv
<1> SUFFICES ASSUME SnapshotInit PROVE SnapInv
  OBVIOUS
<1> USE DEF SnapshotInit, Init
<1>1. NoRow \in Snapshot
  BY DEF NoRow, Snapshot, Paths, Cleanups
<1>2. SnapshotTypeOK
  BY <1>1, PassesAssumption, AttemptsAssumption
     DEF SnapshotTypeOK, JobRow, StepRow, Paths, Stages
<1>3. HoldInv
  BY DEF HoldInv, OwnedInv, HoldOf, Open
<1>4. CopiedInv
  BY DEF CopiedInv, UnderBarrier, Late
<1>5. KeptInv
  BY AttemptsAssumption DEF KeptInv, Kept, NoRow, Late
<1>6. GivenInv
  BY DEF GivenInv, NoRow
<1>7. OwnerInv
  BY DEF OwnerInv, Owns
<1> QED BY <1>2, <1>3, <1>4, <1>5, <1>6, <1>7 DEF SnapInv

\* Every step keeps the invariant.
LEMMA SnapshotStepInv == IInv /\ SnapInv /\ [SnapshotNext]_snapshotVars => SnapInv'
<1> SUFFICES ASSUME IInv, SnapInv, [SnapshotNext]_snapshotVars PROVE SnapInv'
  OBVIOUS
<1>1. CASE SnapshotNext
  BY <1>1, SnapshotTypeStep, HoldStep, CopiedStep, KeptStep, GivenStep, OwnerStep DEF SnapInv
<1>2. CASE UNCHANGED snapshotVars
  <2>1. /\ UNCHANGED <<barrier, journal, epoch, pc, written, heldAt>>
        /\ UNCHANGED <<job, snap, disk, step, at, chosen, cleaning, published, shared,
                       raises, passes>>
    BY <1>2 DEF snapshotVars, vars, state, ghost, records, notes
  <2>2. SnapshotTypeOK' /\ HoldInv'
    BY <2>1 DEF SnapInv, SnapshotTypeOK, HoldInv, OwnedInv, HoldOf
  <2>3. CopiedInv' /\ KeptInv'
    BY <2>1 DEF SnapInv, CopiedInv, KeptInv, Kept, Coherent, Covered
  <2>4. GivenInv' /\ OwnerInv'
    BY <2>1 DEF SnapInv, GivenInv, OwnerInv, Owns
  <2> QED BY <2>2, <2>3, <2>4 DEF SnapInv
<1> QED BY <1>1, <1>2

\* Both invariants hold throughout, for any number of attempts.
THEOREM SnapshotInductive == SnapshotSpec => [](IInv /\ SnapInv)
<1>1. SnapshotInit => IInv /\ SnapInv
  BY InitInv, SnapshotInitInv DEF SnapshotInit
<1>2. IInv /\ SnapInv /\ [SnapshotNext]_snapshotVars => (IInv /\ SnapInv)'
  <2>1. [SnapshotNext]_snapshotVars => [Next]_vars
    BY SnapshotStepIsNext DEF snapshotVars
  <2> QED BY <2>1, StepInv, SnapshotStepInv
<1> QED BY <1>1, <1>2, PTL DEF SnapshotSpec

\* Rows, workspaces and attempts keep their types, and the job has an owner
\* exactly while it runs.
THEOREM SnapshotTypeCorrect == SnapshotSpec => []SnapshotTypeOK
<1>1. IInv /\ SnapInv => SnapshotTypeOK
  BY DEF SnapInv
<1> QED BY <1>1, SnapshotInductive, PTL

\* Whatever late attempts do, what a retry may resume from and what is
\* published is the state of the sources at the epoch that it claims, unless
\* another attempt requested the barrier during its hold.
THEOREM CutsAreCoherent == SnapshotSpec => []EligibleIsCoherent
<1>1. IInv /\ SnapInv => EligibleIsCoherent
  BY DEF SnapInv, KeptInv, Kept, Eligible, EligibleIsCoherent
<1> QED BY <1>1, SnapshotInductive, PTL

\* Clean-up never takes the workspace under the attempt that owns the job.
THEOREM WorkspacesAreKept == SnapshotSpec => []OwnersWorkspaceIsKept
<1>1. IInv /\ SnapInv => OwnersWorkspaceIsKept
  <2>1. Guarded \ {"finalize", "checkpoint"} \subseteq Filling
    BY DEF Guarded, Filling
  <2> QED BY <2>1 DEF SnapInv, OwnerInv, OwnersWorkspaceIsKept
<1> QED BY <1>1, SnapshotInductive, PTL
=============================================================================
