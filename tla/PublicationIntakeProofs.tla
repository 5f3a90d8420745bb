---------------------- MODULE PublicationIntakeProofs ----------------------
(* Proofs about two components in which workers that may die, come back or  *)
(* overlap leave results behind, for every number of workers: the dataset   *)
(* of RecoveryPublication keeps one line of recovery points that holds      *)
(* every success, and the jobs of DocumentIntake do what their rows say.    *)
(* The components share no state; each half stands by itself.               *)
EXTENDS RecoveryPublication, DocumentIntake, FiniteSetTheorems, TLAPS

-----------------------------------------------------------------------------
(* Recovery publication: the line of recovery points                       *)

\* A directory that verifies holds a capture.
WholeInv == \A o \in Ops : dir[o] = "whole" => content[o] > 0

\* A point lies under the name of its operation.
NamedInv == \A o \in Ops : points[o] # Nothing => points[o].op = o

\* What a worker is about to publish descends from the pointer that it
\* observed, or is exactly what that pointer shows.
DescendsInv ==
    \A w \in Reconcilers : at[w].stage \in {"manifest", "point", "pointer"} =>
        /\ at[w].op \in Ops
        /\ made[w] \in Manifest /\ made[w].op = at[w].op
        /\ IF seen[w].op = at[w].op THEN made[w] = seen[w] ELSE made[w].parent = seen[w].op

\* What the pointer would lead to is there before the pointer is put.
PresentInv ==
    \A w \in Reconcilers :
        /\ at[w].stage \in {"point", "pointer"} => made[w] \in manifests
        /\ at[w].stage = "pointer" => points[at[w].op] = made[w]

\* What the steps preserve together.
IInv ==
    /\ TypeOK /\ WholeInv /\ NamedInv /\ DescendsInv /\ PresentInv
    /\ LatestIsRestorable

-----------------------------------------------------------------------------
\* A manifest is always told apart from the absent one.
LEMMA ManifestIsSomething == \A m \in Manifest : m # Nothing /\ m.op # None
BY NoneAssumption DEF Manifest, Nothing

\* The inductive invariant holds when the story starts.
LEMMA InitInv == Init => IInv
<1> SUFFICES ASSUME Init PROVE IInv
  OBVIOUS
<1> USE DEF Init
<1>1. TypeOK
  BY DEF TypeOK, Operation, Place, Stages
<1>2. WholeInv /\ NamedInv /\ DescendsInv /\ PresentInv
  BY DEF WholeInv, NamedInv, DescendsInv, PresentInv
<1>3. LatestIsRestorable
  BY DEF LatestIsRestorable
<1> QED BY <1>1, <1>2, <1>3 DEF IInv

-----------------------------------------------------------------------------
\* Claims, deaths and the ends of operations change no object.
LEMMA LoopStep ==
    ASSUME IInv, NEW w \in Reconcilers,
           \/ \E o \in Ops : Claim(w, o) \/ Commit(w, o) \/ Settle(w, o)
           \/ Die(w)
    PROVE  IInv'
<1> USE DEF IInv
<1>1. TypeOK'
  <2>1. CASE \E o \in Ops : Claim(w, o)
    BY <2>1, NoneAssumption DEF Claim, TypeOK, Operation, Place, Stages, local, remote
  <2>2. ASSUME NEW o \in Ops, Commit(w, o) \/ Settle(w, o)
        PROVE  TypeOK'
    <3>1. PICK s \in {"succeeded", "queued", "failed"} :
             op' = IF Owns(w)
                   THEN [op EXCEPT ![o] = [state |-> s, owner |-> None, attempt |-> op[o].attempt]]
                   ELSE op
      BY <2>2 DEF Commit, Settle
    <3>2. /\ op' \in [Ops -> Operation]
          /\ \A p \in Ops : op'[p].owner # None <=> op'[p].state = "running"
      BY <3>1 DEF TypeOK, Operation
    <3>3. Leave(w) /\ UNCHANGED <<local, remote, recorded>>
      BY <2>2 DEF Commit, Settle
    <3>4. /\ at' \in [Reconcilers -> Place]
          /\ seen' \in [Reconcilers -> Manifest \cup {Nothing}]
          /\ made' \in [Reconcilers -> Manifest \cup {Nothing}]
      BY <3>3 DEF Leave, TypeOK, Place, Stages
    <3> QED BY <3>2, <3>3, <3>4 DEF TypeOK, local, remote
  <2>3. CASE Die(w)
    BY <2>3 DEF Die, Leave, TypeOK, Place, Stages, local, remote, bounds
  <2> QED BY <2>1, <2>2, <2>3
<1>2. UNCHANGED <<local, remote>>
  BY DEF Claim, Commit, Settle, Die
<1>3. /\ at'[w].stage \in {"idle", "resume"}
      /\ \A v \in Reconcilers \ {w} :
            at'[v] = at[v] /\ seen'[v] = seen[v] /\ made'[v] = made[v]
  BY DEF Claim, Commit, Settle, Die, Leave, TypeOK
<1>4. WholeInv' /\ NamedInv' /\ LatestIsRestorable'
  BY <1>2 DEF WholeInv, NamedInv, LatestIsRestorable, local, remote
<1>5. DescendsInv'
  BY <1>3 DEF DescendsInv
<1>6. PresentInv'
  BY <1>2, <1>3 DEF PresentInv, remote
<1> QED BY <1>1, <1>4, <1>5, <1>6

\* Capturing and removing a snapshot directory.
LEMMA DirectoryStep ==
    ASSUME IInv, NEW w \in Reconcilers, NEW o \in Ops,
           \/ ResumeSnapshot(w, o) \/ BeginCapture(w, o) \/ CopySources(w, o)
           \/ RenameSnapshot(w, o) \/ RenameFails(w, o)
           \/ BeginCleanup(w, o) \/ EndCleanup(w, o)
    PROVE  IInv'
<1> USE DEF IInv
<1>1. TypeOK' /\ WholeInv'
  <2>1. CASE ResumeSnapshot(w, o)
    BY <2>1 DEF ResumeSnapshot, Goto, TypeOK, WholeInv, Operation, Place, Stages,
                local, remote, bounds
  <2>2. CASE BeginCapture(w, o)
    <3>1. Goto(w, "copy") /\ temp' = [temp EXCEPT ![o] = w]
      BY <2>2 DEF BeginCapture
    <3>2. at' \in [Reconcilers -> Place]
      BY <3>1 DEF Goto, TypeOK, Place, Stages
    <3>3. temp' \in [Ops -> Reconcilers \cup {None}]
      BY <3>1 DEF TypeOK
    <3> QED BY <2>2, <3>2, <3>3 DEF BeginCapture, TypeOK, WholeInv, remote, bounds
  <2>3. CASE CopySources(w, o)
    <3>1. Goto(w, "rename") \/ Goto(w, "copy") \/ Goto(w, "retry") \/ Goto(w, "fail")
      BY <2>3 DEF CopySources, TryFails
    <3>2. at' \in [Reconcilers -> Place]
      BY <3>1 DEF Goto, TypeOK, Place, Stages
    <3>3. temp' \in [Ops -> Reconcilers \cup {None}]
      BY <2>3 DEF CopySources, TryFails, TypeOK
    <3> QED BY <2>3, <3>2, <3>3 DEF CopySources, TypeOK, WholeInv, remote, bounds
  <2>4. CASE RenameSnapshot(w, o)
    <3>1. content' \in [Ops -> 0..captures'] /\ captures' \in Nat
      BY <2>4 DEF RenameSnapshot, TypeOK
    <3>2. WholeInv'
      BY <2>4 DEF RenameSnapshot, WholeInv, TypeOK
    <3>3. temp' \in [Ops -> Reconcilers \cup {None}]
      BY <2>4 DEF RenameSnapshot, TypeOK
    <3>4. dir' \in [Ops -> {"none", "whole", "broken"}]
      BY <2>4 DEF RenameSnapshot, TypeOK
    <3>5. Goto(w, "renewed") \/ Goto(w, "fail")
      BY <2>4 DEF RenameSnapshot
    <3>6. at' \in [Reconcilers -> Place]
      BY <3>5 DEF Goto, TypeOK, Place, Stages
    <3> QED BY <2>4, <3>1, <3>2, <3>3, <3>4, <3>6 DEF RenameSnapshot, TypeOK, remote, bounds
  <2>5. CASE RenameFails(w, o)
    <3>1. TryFails(w, o)
      BY <2>5 DEF RenameFails
    <3>2. temp' \in [Ops -> Reconcilers \cup {None}]
      BY <3>1 DEF TryFails, TypeOK
    <3>3. Goto(w, "copy") \/ Goto(w, "retry")
      BY <3>1 DEF TryFails
    <3>4. at' \in [Reconcilers -> Place]
      BY <3>3 DEF Goto, TypeOK, Place, Stages
    <3> QED BY <2>5, <3>2, <3>4 DEF RenameFails, TypeOK, WholeInv, remote, bounds
  <2>6. CASE BeginCleanup(w, o)
    BY <2>6 DEF BeginCleanup, Goto, TypeOK, WholeInv, Operation, Place, Stages, remote, bounds
  <2>7. CASE EndCleanup(w, o)
    BY <2>7 DEF EndCleanup, Goto, TypeOK, WholeInv, Operation, Place, Stages, remote, bounds
  <2> QED BY <2>1, <2>2, <2>3, <2>4, <2>5, <2>6, <2>7
<1>2. UNCHANGED <<remote, seen, made>>
  BY DEF ResumeSnapshot, BeginCapture, CopySources, RenameSnapshot, RenameFails,
         BeginCleanup, EndCleanup
<1>3. /\ at'[w].stage \notin {"manifest", "point", "pointer"}
      /\ \A v \in Reconcilers \ {w} : at'[v] = at[v]
  BY DEF ResumeSnapshot, BeginCapture, CopySources, RenameSnapshot, RenameFails, TryFails,
         BeginCleanup, EndCleanup, Goto, TypeOK
<1>4. NamedInv' /\ LatestIsRestorable'
  BY <1>2 DEF NamedInv, LatestIsRestorable, remote
<1>5. DescendsInv'
  BY <1>2, <1>3 DEF DescendsInv
<1>6. PresentInv'
  BY <1>2, <1>3 DEF PresentInv, remote
<1> QED BY <1>1, <1>4, <1>5, <1>6

\* Steps of the publication that change no object: leases, errors, the
\* observation of the pointer, the row.
LEMMA QuietStep ==
    ASSUME IInv, NEW w \in Reconcilers,
           \/ \E o \in Ops : \/ RenewLease(w, o) \/ ObserveLatest(w, o) \/ SnapshotGone(w, o)
                             \/ RecordPoint(w, o)
           \/ StoreFails(w)
    PROVE  IInv'
<1> USE DEF IInv
<1>1. UNCHANGED <<local, remote>>
  BY DEF RenewLease, ObserveLatest, SnapshotGone, RecordPoint, StoreFails
<1>2. WholeInv' /\ NamedInv' /\ LatestIsRestorable'
  BY <1>1 DEF WholeInv, NamedInv, LatestIsRestorable, local, remote
<1>3. CASE \E o \in Ops : ObserveLatest(w, o)
  <2>1. PICK o \in Ops : ObserveLatest(w, o)
    BY <1>3
  <2>2. Built(o, content[o]) \in Manifest /\ content[o] \in Nat
    BY <2>1, NoneAssumption DEF ObserveLatest, Built, Manifest, Nothing, TypeOK, WholeInv
  <2>3. TypeOK'
    BY <2>1, <2>2 DEF ObserveLatest, Goto, TypeOK, Operation, Place, Stages, local, remote, bounds
  <2>4. /\ at'[w].op = o /\ at'[w].stage \in {"retry", "manifest"}
        /\ seen'[w] = latest /\ made'[w] = Built(o, content[o])
        /\ at'[w].stage = "manifest" => (latest.op # o \/ latest = Built(o, content[o]))
        /\ \A v \in Reconcilers \ {w} :
              at'[v] = at[v] /\ seen'[v] = seen[v] /\ made'[v] = made[v]
    BY <2>1 DEF ObserveLatest, Goto, Stands, TypeOK
  <2>5. DescendsInv'
    BY <2>2, <2>4 DEF DescendsInv, Built
  <2>6. PresentInv'
    BY <1>1, <2>4 DEF PresentInv, remote
  <2> QED BY <1>2, <2>3, <2>5, <2>6
<1>4. CASE \/ \E o \in Ops : RenewLease(w, o) \/ SnapshotGone(w, o) \/ RecordPoint(w, o)
           \/ StoreFails(w)
  <2>1. CASE \E o \in Ops : RecordPoint(w, o)
    <3>1. made \in [Reconcilers -> Manifest \cup {Nothing}] /\ recorded' \in [Ops -> Manifest \cup {Nothing}]
      BY <2>1 DEF RecordPoint, TypeOK
    <3> QED BY <2>1, <3>1, <1>2, <1>1 DEF RecordPoint, Goto, TypeOK, Operation, Place, Stages,
                  local, remote, bounds, DescendsInv, PresentInv
  <2>2. CASE \/ \E o \in Ops : RenewLease(w, o) \/ SnapshotGone(w, o)
             \/ StoreFails(w)
    <3>1. TypeOK'
      BY <2>2 DEF RenewLease, SnapshotGone, StoreFails, Goto, TypeOK, Operation, Place, Stages,
                  local, remote, bounds
    <3>2. /\ at'[w].stage \notin {"manifest", "point", "pointer"}
          /\ UNCHANGED <<seen, made>>
          /\ \A v \in Reconcilers \ {w} : at'[v] = at[v]
      BY <2>2 DEF RenewLease, SnapshotGone, StoreFails, Goto, TypeOK
    <3>3. DescendsInv' /\ PresentInv'
      BY <1>1, <3>2 DEF DescendsInv, PresentInv, remote
    <3> QED BY <1>2, <3>1, <3>3
  <2> QED BY <1>4, <2>1, <2>2
<1> QED BY <1>3, <1>4

\* The puts of the manifest, of the recovery point and of the pointer.
LEMMA PutStep ==
    ASSUME IInv, NEW w \in Reconcilers, NEW o \in Ops,
           PutManifest(w, o) \/ PutPoint(w, o) \/ SwapPointer(w, o) \/ SwapUnanswered(w, o)
    PROVE  IInv'
<1> USE DEF IInv
<1>1. at[w].op = o /\ at[w].stage \in {"manifest", "point", "pointer"}
  BY DEF PutManifest, PutPoint, SwapPointer, SwapUnanswered, Stands
<1>2. made[w] \in Manifest /\ made[w].op = o /\ made[w] # Nothing
  BY <1>1, ManifestIsSomething DEF DescendsInv
<1>3. TypeOK' /\ WholeInv'
  <2>1. at' \in [Reconcilers -> Place]
    BY DEF PutManifest, PutPoint, SwapPointer, SwapUnanswered, Goto, TypeOK, Place, Stages
  <2>2. /\ manifests' \subseteq Manifest /\ latest' \in Manifest \cup {Nothing}
        /\ points' \in [Ops -> Manifest \cup {Nothing}]
    BY <1>2 DEF PutManifest, PutPoint, SwapPointer, SwapUnanswered, TypeOK
  <2>3. UNCHANGED <<op, local, recorded, seen, made>>
    BY DEF PutManifest, PutPoint, SwapPointer, SwapUnanswered
  <2> QED BY <2>1, <2>2, <2>3 DEF TypeOK, WholeInv, local
<1>4. /\ at'[w].op = o /\ UNCHANGED <<seen, made>>
      /\ \A v \in Reconcilers \ {w} : at'[v] = at[v]
  BY <1>1 DEF PutManifest, PutPoint, SwapPointer, SwapUnanswered, Goto, TypeOK
<1>5. DescendsInv'
  BY <1>1, <1>4 DEF DescendsInv, TypeOK
<1>6. /\ manifests \subseteq manifests'
      /\ \A p \in Ops : points[p] # Nothing => points'[p] = points[p]
      /\ NamedInv'
  BY <1>2 DEF PutManifest, PutPoint, SwapPointer, SwapUnanswered, NamedInv, TypeOK
<1>7. PresentInv'
  <2>1. /\ at'[w].stage \in {"point", "pointer"} => made[w] \in manifests'
        /\ at'[w].stage = "pointer" => points'[o] = made[w]
    <3>1. CASE PutManifest(w, o)
      BY <3>1 DEF PutManifest, Goto, TypeOK
    <3>2. CASE PutPoint(w, o)
      <4>1. at'[w].stage = "pointer" => points[o] \in {Nothing, made[w]}
        BY <3>2 DEF PutPoint, Goto, TypeOK
      <4>2. points'[o] = IF points[o] = Nothing THEN made[w] ELSE points[o]
        BY <3>2 DEF PutPoint, TypeOK
      <4>3. made[w] \in manifests'
        BY <3>2 DEF PutPoint, Stands, PresentInv
      <4> QED BY <4>1, <4>2, <4>3
    <3>3. CASE SwapPointer(w, o) \/ SwapUnanswered(w, o)
      BY <3>3 DEF SwapPointer, SwapUnanswered, Goto, TypeOK
    <3> QED BY <3>1, <3>2, <3>3
  <2>2. ASSUME NEW v \in Reconcilers \ {w}, at[v].stage = "pointer"
        PROVE  points'[at[v].op] = made[v]
    BY <2>2, <1>6, ManifestIsSomething DEF PresentInv, DescendsInv
  <2> QED BY <2>1, <2>2, <1>4, <1>6 DEF PresentInv
<1>8. LatestIsRestorable'
  <2>1. latest # Nothing => latest.op \in Ops
    BY DEF TypeOK, Manifest
  <2>2. CASE latest' = latest
    BY <2>1, <2>2, <1>6 DEF LatestIsRestorable
  <2>3. CASE latest' # latest
    BY <2>3, <1>1, <1>2, <1>6 DEF PutManifest, PutPoint, SwapPointer, SwapUnanswered, Stands,
                                  PresentInv, LatestIsRestorable
  <2> QED BY <2>2, <2>3
<1> QED BY <1>3, <1>5, <1>6, <1>7, <1>8

\* Every step of the specification keeps the inductive invariant.
LEMMA StepInv == IInv /\ [Next]_vars => IInv'
<1> SUFFICES ASSUME IInv, [Next]_vars PROVE IInv'
  OBVIOUS
<1>1. CASE UNCHANGED vars
  BY <1>1 DEF vars, local, remote, bounds, IInv, TypeOK, WholeInv, NamedInv, DescendsInv,
              PresentInv, LatestIsRestorable
<1>2. CASE Next
  BY <1>2, LoopStep, DirectoryStep, QuietStep, PutStep DEF Next, Work
<1> QED BY <1>1, <1>2

\* The inductive invariant holds of the specification.
LEMMA Inductive == Spec => []IInv
<1> QED BY InitInv, StepInv, PTL DEF Spec

-----------------------------------------------------------------------------
\* Rows, directories, objects and workers keep their types.
THEOREM TypeCorrect == Spec => []TypeOK
<1>1. IInv => TypeOK
  BY DEF IInv
<1> QED BY <1>1, Inductive, PTL

\* The pointer leads to a recovery point and a manifest that are there,
\* whatever late workers, retries and lost answers did.
THEOREM LatestRestorable == Spec => []LatestIsRestorable
<1>1. IInv => LatestIsRestorable
  BY DEF IInv
<1> QED BY <1>1, Inductive, PTL

\* Every step of every worker puts a point where there was none, moves the
\* pointer to a child of what it showed, or changes neither.
LEMMA StepLine == IInv /\ [Next]_vars => [Line!Next]_<<points, latest>>
<1> SUFFICES ASSUME IInv, Next, ~UNCHANGED <<points, latest>> PROVE Line!Next
  BY DEF vars, remote
<1>1. PICK w \in Reconcilers, o \in Ops : PutPoint(w, o) \/ SwapPointer(w, o) \/ SwapUnanswered(w, o)
  BY DEF Next, Work, Claim, StoreFails, Die, ResumeSnapshot, BeginCapture, CopySources,
         RenameSnapshot, RenameFails, RenewLease, ObserveLatest, SnapshotGone, PutManifest,
         RecordPoint, BeginCleanup, EndCleanup, Commit, Settle, remote
<1>2. /\ made[w] \in Manifest /\ made[w].op = o /\ made[w] # Nothing
      /\ IF seen[w].op = o THEN made[w] = seen[w] ELSE made[w].parent = seen[w].op
  BY <1>1, ManifestIsSomething DEF PutPoint, SwapPointer, SwapUnanswered, Stands, IInv, DescendsInv
<1>3. CASE PutPoint(w, o)
  <2>1. points[o] = Nothing /\ points' = [points EXCEPT ![o] = made[w]] /\ latest' = latest
    BY <1>3 DEF PutPoint, IInv, TypeOK
  <2>2. points'[o] = made[w]
    BY <2>1 DEF IInv, TypeOK
  <2>3. Line!Put(o)
    BY <1>2, <2>1, <2>2 DEF Line!Put
  <2> QED BY <2>3 DEF Line!Next
<1>4. CASE SwapPointer(w, o) \/ SwapUnanswered(w, o)
  <2>1. latest = seen[w] /\ latest' = made[w] /\ UNCHANGED points
    BY <1>4 DEF SwapPointer, SwapUnanswered
  <2>2. points[o] = made[w]
    BY <1>4 DEF SwapPointer, SwapUnanswered, Stands, IInv, PresentInv
  <2>3. made[w].parent = latest.op
    BY <1>2, <2>1
  <2>4. Line!Advance(o)
    BY <1>2, <2>1, <2>2, <2>3 DEF Line!Advance
  <2> QED BY <2>4 DEF Line!Next
<1> QED BY <1>1, <1>3, <1>4

\* RecoveryPublication implements RecoveryLine: recovery points are put once
\* and never replaced, and the pointer descends from point to child.
THEOREM LineKept == Spec => KeepsRecoveryLine
<1>1. Init => Line!Init
  BY DEF Init, Line!Init
<1> QED BY <1>1, StepLine, Inductive, PTL DEF Spec, KeepsRecoveryLine, Line!Spec
-----------------------------------------------------------------------------
(* A success is never left behind.  The lineage only grows; a worker that   *)
(* has seen its pointer written stays in it up to the commit, whoever       *)
(* publishes in the meantime; and the row that is recorded is the point.    *)

\* The point of o is there, in the lineage of the pointer.
Shown(o) == o \in Lineage /\ points[o] # Nothing

\* What holds of a worker between its publication and its commit, and of every
\* operation that reported success.
SuccessInv ==
    /\ \A w \in Reconcilers, o \in Ops : at[w].op = o =>
          /\ at[w].stage \in {"published", "record", "clean", "removing", "commit"} =>
                Shown(o) /\ points[o] = made[w]
          /\ at[w].stage \in {"clean", "removing", "commit"} => recorded[o] = made[w]
    /\ \A o \in Ops : op[o].state = "succeeded" => Shown(o) /\ recorded[o] = points[o]

\* Nothing leaves the lineage, and no point is replaced.
LEMMA ShownStays ==
    ASSUME IInv, [Next]_vars
    PROVE  \A o \in Ops : /\ points[o] # Nothing => points'[o] = points[o]
                          /\ Shown(o) => Shown(o)'
<1>1. NamedInv /\ points \in [Ops -> Manifest \cup {Nothing}]
  BY DEF IInv, TypeOK
<1>2. [Line!Next]_<<points, latest>>
  BY StepLine
<1>3. ASSUME NEW o \in Ops PROVE points[o] # Nothing => points'[o] = points[o]
  BY <1>1, <1>2 DEF Line!Next, Line!Put, Line!Advance
<1>4. ASSUME NEW S \in SUBSET Ops, latest'.op \in S \cup {None}, HoldsParents(S)'
      PROVE  latest.op \in S \cup {None} /\ HoldsParents(S)
  <2>1. CASE UNCHANGED <<points, latest>>
    BY <1>4, <2>1 DEF HoldsParents
  <2>2. ASSUME NEW o \in Ops, Line!Put(o)
        PROVE  latest.op \in S \cup {None} /\ HoldsParents(S)
    <3>1. latest' = latest /\ Nothing.parent = None
      BY <2>2 DEF Line!Put, Nothing
    <3>2. \A p \in S : points[p] = Nothing \/ points'[p] = points[p]
      BY <1>3
    <3> QED BY <1>4, <3>1, <3>2 DEF HoldsParents
  <2>3. ASSUME NEW o \in Ops, Line!Advance(o)
        PROVE  latest.op \in S \cup {None} /\ HoldsParents(S)
    <3>1. points' = points /\ points[o] # Nothing /\ latest' = points[o]
          /\ points[o].parent = latest.op
      BY <2>3 DEF Line!Advance
    <3>2. HoldsParents(S)
      BY <1>4, <3>1 DEF HoldsParents
    <3>3. o \in S
      BY <1>1, <1>4, <3>1, NoneAssumption DEF NamedInv
    <3> QED BY <3>1, <3>2, <3>3 DEF HoldsParents
  <2> QED BY <1>2, <2>1, <2>2, <2>3 DEF Line!Next
<1>5. \A o \in Lineage : o \in Lineage'
  BY <1>4 DEF Lineage
<1> QED BY <1>3, <1>5 DEF Shown

\* The pointer's own point is shown.
LEMMA LatestShown ==
    ASSUME NEW o \in Ops, latest.op = o, points[o] # Nothing
    PROVE  Shown(o)
BY NoneAssumption DEF Shown, Lineage

\* Every step keeps what a success stands on.
LEMMA SuccessStep ==
    ASSUME IInv, IInv', SuccessInv, [Next]_vars
    PROVE  SuccessInv'
<1> DEFINE Late   == {"published", "record", "clean", "removing", "commit"}
           Closed == {"clean", "removing", "commit"}
<1>1. /\ at \in [Reconcilers -> Place] /\ made \in [Reconcilers -> Manifest \cup {Nothing}]
      /\ recorded \in [Ops -> Manifest \cup {Nothing}] /\ op \in [Ops -> Operation]
  BY DEF IInv, TypeOK
<1>2. \A o \in Ops : /\ points[o] # Nothing => points'[o] = points[o]
                     /\ Shown(o) => Shown(o)' /\ points'[o] = points[o]
  BY ShownStays DEF Shown
\* A worker that does not move, and one that moves on within its publication.
<1>3. \A o \in Ops : recorded[o] # Nothing => recorded'[o] = recorded[o]
  BY <1>1 DEF Next, Work, vars, remote, local, bounds, Claim, StoreFails, Die, ResumeSnapshot,
         BeginCapture, CopySources, RenameSnapshot, RenameFails, RenewLease, ObserveLatest,
         SnapshotGone, PutManifest, PutPoint, SwapPointer, SwapUnanswered, RecordPoint,
         BeginCleanup, EndCleanup, Commit, Settle
<1>4. ASSUME NEW v \in Reconcilers, NEW o \in Ops, at'[v] = at[v], made'[v] = made[v], at[v].op = o
      PROVE  /\ at'[v].stage \in Late => Shown(o)' /\ points'[o] = made'[v]
             /\ at'[v].stage \in Closed => recorded'[o] = made'[v]
  BY <1>2, <1>3, <1>4 DEF SuccessInv, Shown
<1>5. ASSUME NEW w \in Reconcilers,
             \/ \E o \in Ops : \/ Claim(w, o) \/ Settle(w, o) \/ Commit(w, o)
                               \/ ResumeSnapshot(w, o) \/ BeginCapture(w, o) \/ CopySources(w, o)
                               \/ RenameSnapshot(w, o) \/ RenameFails(w, o)
                               \/ ObserveLatest(w, o) \/ SnapshotGone(w, o)
                               \/ PutManifest(w, o) \/ PutPoint(w, o) \/ SwapUnanswered(w, o)
             \/ StoreFails(w) \/ Die(w)
      PROVE  /\ at'[w].stage \notin Late /\ recorded' = recorded
             /\ \A v \in Reconcilers \ {w} : at'[v] = at[v] /\ made'[v] = made[v]
  <2>1. CASE \E o \in Ops : Claim(w, o) \/ Settle(w, o) \/ Commit(w, o)
    BY <1>1, <2>1 DEF Claim, Settle, Commit, Leave
  <2>2. CASE \E o \in Ops : \/ ResumeSnapshot(w, o) \/ BeginCapture(w, o) \/ CopySources(w, o)
                            \/ RenameSnapshot(w, o) \/ RenameFails(w, o)
    BY <1>1, <2>2 DEF ResumeSnapshot, BeginCapture, CopySources, RenameSnapshot, RenameFails,
                      TryFails, Goto
  <2>3. CASE \E o \in Ops : ObserveLatest(w, o) \/ SnapshotGone(w, o)
    BY <1>1, <2>3 DEF ObserveLatest, SnapshotGone, Goto
  <2>4. CASE \E o \in Ops : PutManifest(w, o) \/ PutPoint(w, o) \/ SwapUnanswered(w, o)
    BY <1>1, <2>4 DEF PutManifest, PutPoint, SwapUnanswered, Goto
  <2>5. CASE StoreFails(w) \/ Die(w)
    BY <1>1, <2>5 DEF StoreFails, Die, Goto, Leave
  <2> QED BY <1>5, <2>1, <2>2, <2>3, <2>4, <2>5
<1>6. ASSUME NEW w \in Reconcilers, NEW o \in Ops,
             \/ SwapPointer(w, o) \/ RenewLease(w, o) \/ RecordPoint(w, o)
             \/ BeginCleanup(w, o) \/ EndCleanup(w, o)
      PROVE  /\ at[w].op = o /\ at'[w].op = o /\ made' = made /\ op' = op
             /\ \A v \in Reconcilers \ {w} : at'[v] = at[v]
             /\ at'[w].stage \in Late =>
                   \/ at[w].stage \in Late
                   \/ at[w].stage = "pointer" /\ latest' = made[w] /\ points' = points
             /\ at'[w].stage \in Closed =>
                   \/ at[w].stage \in Closed
                   \/ recorded'[o] = made[w]
  <2>1. CASE SwapPointer(w, o)
    BY <1>1, <2>1 DEF SwapPointer, Goto, Stands
  <2>2. CASE RenewLease(w, o)
    BY <1>1, <2>2 DEF RenewLease, Goto, Stands
  <2>3. CASE RecordPoint(w, o)
    BY <1>1, <2>3 DEF RecordPoint, Goto, Stands
  <2>4. CASE BeginCleanup(w, o) \/ EndCleanup(w, o)
    BY <1>1, <2>4 DEF BeginCleanup, EndCleanup, Goto, Stands
  <2> QED BY <1>6, <2>1, <2>2, <2>3, <2>4
<1>7. ASSUME NEW w \in Reconcilers, NEW o \in Ops,
             \/ SwapPointer(w, o) \/ RenewLease(w, o) \/ RecordPoint(w, o)
             \/ BeginCleanup(w, o) \/ EndCleanup(w, o)
      PROVE  /\ at'[w].op = o
             /\ at'[w].stage \in Late => Shown(o)' /\ points'[o] = made'[w]
             /\ at'[w].stage \in Closed => recorded'[o] = made'[w]
  <2>1. /\ at[w].op = o /\ at'[w].op = o /\ made'[w] = made[w]
        /\ at'[w].stage \in Late => at[w].stage \in Late \cup {"pointer"}
    BY <1>6, <1>7
  <2>2. CASE at[w].stage \in Late
    <3>1. Shown(o) /\ points[o] = made[w]
      BY <2>1, <2>2 DEF SuccessInv
    <3>2. at'[w].stage \in Closed => recorded'[o] = made[w]
      <4>1. at[w].stage \in Closed => recorded[o] = made[w] /\ made[w] # Nothing
        BY <2>1, <3>1 DEF SuccessInv, Shown
      <4> QED BY <1>3, <1>6, <1>7, <4>1
    <3> QED BY <1>2, <2>1, <3>1, <3>2
  <2>3. CASE at[w].stage = "pointer" /\ at'[w].stage \in Late
    <3>1. latest' = made[w] /\ points' = points /\ at[w].stage \notin Closed
      BY <1>6, <1>7, <2>3
    <3>2. points[o] = made[w] /\ made[w] \in Manifest /\ made[w].op = o /\ made[w] # Nothing
      BY <2>1, <2>3, ManifestIsSomething DEF IInv, PresentInv, DescendsInv
    <3>3. latest'.op = o /\ points'[o] # Nothing
      BY <2>3, <3>1, <3>2
    <3>4. Shown(o)'
      BY <3>3, NoneAssumption DEF Shown, Lineage
    <3>5. at'[w].stage \in Closed => recorded'[o] = made[w]
      BY <1>6, <1>7, <3>1
    <3> QED BY <2>1, <2>3, <3>1, <3>2, <3>4, <3>5
  <2> QED BY <2>1, <2>2, <2>3
<1>8. ASSUME NEW v \in Reconcilers, NEW o \in Ops, at'[v].op = o
      PROVE  /\ at'[v].stage \in Late => Shown(o)' /\ points'[o] = made'[v]
             /\ at'[v].stage \in Closed => recorded'[o] = made'[v]
  <2>1. CASE at'[v] = at[v] /\ made'[v] = made[v]
    BY <1>4, <1>8, <2>1
  <2>2. CASE at'[v].stage \notin Late
    BY <2>2
  <2>3. CASE \E x \in Ops : \/ SwapPointer(v, x) \/ RenewLease(v, x) \/ RecordPoint(v, x)
                            \/ BeginCleanup(v, x) \/ EndCleanup(v, x)
    BY <1>7, <1>8, <2>3
  <2>4. CASE UNCHANGED vars
    BY <1>4, <1>8, <2>4 DEF vars
  <2>5. CASE Next
    <3>1. PICK w \in Reconcilers : (\E x \in Ops : Claim(w, x) \/ Work(w, x)) \/ StoreFails(w) \/ Die(w)
      BY <2>5 DEF Next
    <3> QED BY <1>5, <1>6, <2>1, <2>2, <2>3, <3>1 DEF Work
  <2> QED BY <2>4, <2>5
<1>9. ASSUME NEW o \in Ops, op'[o].state = "succeeded"
      PROVE  Shown(o)' /\ recorded'[o] = points'[o]
  <2>1. CASE op[o].state = "succeeded"
    BY <1>2, <1>3, <2>1 DEF SuccessInv, Shown
  <2>2. CASE op[o].state # "succeeded"
    <3> DEFINE Rows(w, p) == Claim(w, p) \/ Settle(w, p) \/ Commit(w, p)
    <3>4. op' = op \/ \E w \in Reconcilers, p \in Ops : Rows(w, p)
      BY DEF Next, Work, vars, StoreFails, Die, ResumeSnapshot, remote, local, bounds,
             BeginCapture, CopySources, RenameSnapshot, RenameFails, RenewLease, ObserveLatest,
             SnapshotGone, PutManifest, PutPoint, SwapPointer, SwapUnanswered, RecordPoint,
             BeginCleanup, EndCleanup
    <3>5. op' # op
      BY <1>9, <2>2
    <3>6. PICK w \in Reconcilers, p \in Ops : Rows(w, p)
      BY <3>4, <3>5
    <3>7. ASSUME Claim(w, p) \/ Settle(w, p) PROVE FALSE
      <4> DEFINE Claimed == [state |-> "running", owner |-> w, attempt |-> op[p].attempt + 1]
                 Ended(s) == [state |-> s, owner |-> None, attempt |-> op[p].attempt]
      <4>1. CASE Claim(w, p)
        <5>1. op' = [op EXCEPT ![p] = Claimed]
          BY <4>1 DEF Claim
        <5>2. op'[o] = op[o] \/ op'[o] = Claimed
          BY <5>1, <1>1
        <5> QED BY <5>2, <1>9, <2>2
      <4>2. CASE Settle(w, p)
        <5>1. op' = [op EXCEPT ![p] = Ended("queued")] \/ op' = [op EXCEPT ![p] = Ended("failed")]
          BY <4>2, <3>5 DEF Settle
        <5>2. op'[o] = op[o] \/ op'[o] = Ended("queued") \/ op'[o] = Ended("failed")
          BY <5>1, <1>1
        <5> QED BY <5>2, <1>9, <2>2
      <4> QED BY <3>7, <4>1, <4>2
    <3>1. PICK x \in Reconcilers, q \in Ops :
             Commit(x, q) /\ op' = [op EXCEPT ![q] = [state |-> "succeeded", owner |-> None,
                                                      attempt |-> op[q].attempt]]
      BY <3>5, <3>6, <3>7 DEF Commit
    <3>2. o = q /\ at[x].stage = "commit" /\ at[x].op = o /\ UNCHANGED <<points, latest, recorded>>
      BY <1>1, <1>9, <2>2, <3>1 DEF Commit, Stands, remote
    <3>3. Shown(o) /\ recorded[o] = points[o]
      BY <3>2 DEF SuccessInv
    <3> QED BY <1>2, <3>2, <3>3
  <2> QED BY <2>1, <2>2
<1> QED BY <1>8, <1>9 DEF SuccessInv

\* A backup that reports success is one the pointer leads back to, and its row
\* in the control database holds the manifest of its recovery point, whatever
\* late workers publish and however often the operation is retried
\* (v3_backup.py publish_snapshot, v3_executor.py).
THEOREM SuccessReachable == Spec => []SuccessIsReachable
<1>1. Init => SuccessInv
  BY DEF Init, SuccessInv
<1>2. IInv /\ IInv' /\ SuccessInv /\ [Next]_vars => SuccessInv'
  BY SuccessStep
<1>3. SuccessInv => SuccessIsReachable
  BY DEF SuccessInv, SuccessIsReachable, Shown
<1> QED BY <1>1, <1>2, <1>3, Inductive, PTL DEF Spec

-----------------------------------------------------------------------------
(* Document intake: what its rows, jobs and workers keep                   *)

InHand == {"mark", "extract", "ready", "restore", "settle"}
Named  == ItemStatus \ {"none"}

\* Jobs are numbered without gaps.
CreatedInv == \E k \in 0..MaxJobs : Created = 1..k

\* Where a worker stands, it has what the step needs: a job that was created,
\* items that the job names, a lifecycle to return to.
PlaceOf(r) ==
    /\ r.job = 0 <=> r.pc \in {"down", "idle", "orphans"}
    /\ r.job # 0 => r.job \in Created
    /\ r.pc \in {"orphans", "items_of"} => r.todo \subseteq Created
    /\ r.pc \in InHand \cup {"items"} => r.todo \subseteq ItemsOf(r.job, Named)
    /\ r.pc \in InHand => r.at \in ItemsOf(r.job, Named)
    /\ r.pc \in InHand \ {"settle"} =>
          /\ r.prior \notin {"none", "gone"}
          /\ r.prior = "intake" => batch.status = "finalized"
PlaceInv == \A w \in Workers : PlaceOf(run[w])

\* A row that was never created is in no batch and in no job; a document of a
\* batch that is still open is in no job.
RowInv ==
    \A d \in Docs :
        /\ doc[d].life = "none" => receipt[d] = "none"
        /\ \/ doc[d].life = "none"
           \/ doc[d].life = "intake" /\ batch.status # "finalized"
           => \A j \in Created : item[j][d] = "none"

\* The job of the batch is there once the batch is finalized.
BatchJobInv == batch.job # 0 => batch.status = "finalized" /\ batch.job \in Created

\* Every other job names one document.
SingleInv == \A j \in Created \ {batch.job} : \E d \in Docs : ItemsOf(j, Named) = {d}

\* The manifest of the batch and the items of its job.
ManifestInv ==
    batch.job # 0 =>
        \A d \in Docs :
            /\ item[batch.job][d] # "none" => receipt[d] = "received"
            /\ receipt[d] = "received" /\ Exists(d) => item[batch.job][d] # "none"

\* How far worker w, alone with job j, has come with its items: those that are
\* not done are still before it, and a failure is remembered.
Progress(w, j) ==
    LET r == run[w]
        Left(S) == /\ ItemsOf(j, {"queued", "running"}) \subseteq S
                   /\ ItemsOf(j, {"failed"}) \subseteq S \/ r.failed
    IN  /\ r.pc = "claimed" => ItemsOf(j, {"running"}) = {}
        /\ r.pc = "items" => Left(r.todo)
        /\ r.pc \in InHand => Left(r.todo \cup {r.at})
        /\ r.pc = "finish" => /\ ItemsOf(j, {"queued", "running"}) = {}
                              /\ ItemsOf(j, {"failed"}) = {} \/ job[j].failed

\* A job that no two workers had in hand, and whose recovery was not cut short.
OnceAt(j) ==
    /\ \A v, w \in Workers : run[v].job = j /\ run[w].job = j => v = w
    /\ \A w \in Workers : run[w].job = j =>
          /\ job[j].status = IF run[w].pc = "items_of" THEN "queued" ELSE "running"
          /\ Progress(w, j)
    /\ job[j].status = "queued" /\ (\A w \in Workers : run[w].job # j)
          => ItemsOf(j, {"running"}) = {}
    /\ job[j].status = "completed" => ItemsOf(j, {"queued", "running", "failed"}) = {}
OnceInv == \A j \in JobIds \ (torn \cup doubled) : OnceAt(j)

\* What the steps preserve together.
IntakeInv ==
    /\ IntakeTypeOK /\ CreatedInv /\ PlaceInv /\ RowInv /\ BatchJobInv /\ SingleInv
    /\ ManifestInv /\ OnceInv

-----------------------------------------------------------------------------
\* The parts of the type invariant.
LEMMA IntakeTypes ==
    ASSUME IntakeInv
    PROVE  /\ doc \in [Docs -> Row] /\ job \in [JobIds -> Job] /\ run \in [Workers -> Run]
           /\ item \in [JobIds -> [Docs -> ItemStatus]]
           /\ torn \subseteq JobIds /\ doubled \subseteq JobIds
           /\ batch \in Batch /\ receipt \in [Docs -> ReceiptStates]
           /\ 0 \notin JobIds
BY JobBounds DEF IntakeInv, IntakeTypeOK, JobIds

\* What a worker's move leaves alone.
LEMMA Moves ==
    ASSUME run \in [Workers -> Run], NEW w \in Workers, NEW r \in Run, Set(w, r)
    PROVE  /\ run' \in [Workers -> Run] /\ run'[w] = r
           /\ \A v \in Workers : v # w => run'[v] = run[v]
BY DEF Set

\* The number of the next job is free.
LEMMA NextIsFree ==
    ASSUME CreatedInv, NextJob \in JobIds
    PROVE  /\ NextJob \notin Created
           /\ \E k \in 0..MaxJobs : Created \cup {NextJob} = 1..k
<1>1. PICK k \in 0..MaxJobs : Created = 1..k
  BY DEF CreatedInv
<1>2. k \in Nat /\ MaxJobs \in Nat
  BY JobBounds
<1>3. Cardinality(1..k) = k
  <2>1. Cardinality(1..k) = IF 1 > k THEN 0 ELSE k - 1 + 1
    BY <1>2, FS_Interval
  <2> QED BY <1>2, <2>1
<1>4. NextJob = k + 1
  BY <1>1, <1>3 DEF NextJob
<1>5. k + 1 \in 1..MaxJobs
  BY <1>4 DEF JobIds
<1>6. Created \cup {k + 1} = 1..(k + 1) /\ k + 1 \notin Created
  BY <1>1, <1>2
<1> QED BY <1>4, <1>5, <1>6

\* What a step may do to the rows: none is forgotten, a deleted one stays so,
\* and none enters the intake of an open batch but by being created.
RowsKeep ==
    /\ doc' \in [Docs -> Row]
    /\ \A d \in Docs :
          /\ doc'[d].life = "none" => doc[d].life = "none"
          /\ doc[d].life = "gone" => doc'[d].life = "gone"
          /\ doc'[d].life = "intake" /\ batch.status # "finalized" =>
                doc[d].life \in {"none", "intake"}

\* What a finalized batch and its receipts keep.
BatchKeeps ==
    /\ batch' \in Batch /\ batch'.job = batch.job
    /\ batch.status = "finalized" => batch'.status = "finalized"
    /\ receipt' \in [Docs -> ReceiptStates]
    /\ batch.job # 0 => receipt' = receipt

\* The invariant holds when nothing has happened yet.
LEMMA IntakeStarts == IntakeInit => IntakeInv
<1> SUFFICES ASSUME IntakeInit PROVE IntakeInv
  OBVIOUS
<1> USE DEF IntakeInit, DocInit, JobInit
<1>1. NoRow \in Row /\ NoJob \in Job /\ Down \in Run
  BY DEF NoRow, Row, Lives, SearchableLives, HiddenLives, NoJob, Job, JobStatus, Down, Run,
         WorkerPCs
<1>2. IntakeTypeOK
  BY <1>1 DEF IntakeTypeOK, Batch, ReceiptStates, ItemStatus
<1>3. Created = {}
  BY DEF Created, NoJob
<1>4. CreatedInv
  BY <1>3, JobBounds DEF CreatedInv
<1>5. PlaceInv
  BY DEF PlaceInv, PlaceOf, Down, InHand
<1>6. RowInv /\ BatchJobInv /\ SingleInv /\ ManifestInv
  BY <1>3 DEF RowInv, BatchJobInv, SingleInv, ManifestInv
<1>7. OnceInv
  <2>1. \A j \in JobIds : job[j].status = "none"
    BY DEF NoJob
  <2>2. \A w \in Workers : run[w].job = 0
    BY DEF Down
  <2>3. 0 \notin JobIds
    BY JobBounds DEF JobIds
  <2> QED BY <2>1, <2>2, <2>3 DEF OnceInv, OnceAt
<1> QED BY <1>2, <1>4, <1>5, <1>6, <1>7 DEF IntakeInv

\* Steps that touch rows, receipts and the batch, and no job.
LEMMA RowsStep ==
    ASSUME IntakeInv, RowsKeep, BatchKeeps, UNCHANGED jobVars,
           media' \subseteq Docs, deleting' \subseteq Docs,
           \A d \in Docs : doc'[d].life = "none" => receipt'[d] = "none"
    PROVE  IntakeInv'
<1>1. /\ job' = job /\ item' = item /\ run' = run /\ torn' = torn /\ doubled' = doubled
  BY DEF jobVars
<1>2. IntakeTypeOK'
  BY <1>1 DEF IntakeInv, IntakeTypeOK, RowsKeep, BatchKeeps
<1>3. Created' = Created
  BY <1>1 DEF Created
<1>4. CreatedInv'
  BY <1>3 DEF IntakeInv, CreatedInv
<1>5. \A j \in JobIds, s \in SUBSET ItemStatus : ItemsOf(j, s)' = ItemsOf(j, s)
  BY <1>1 DEF ItemsOf
<1>6. PlaceInv'
  <2> SUFFICES ASSUME NEW w \in Workers PROVE PlaceOf(run[w])'
    BY DEF PlaceInv
  <2>1. PlaceOf(run[w])
    BY DEF IntakeInv, PlaceInv
  <2> QED BY <2>1, <1>1, <1>3 DEF PlaceOf, ItemsOf, BatchKeeps
<1>7. RowInv'
  <2> SUFFICES ASSUME NEW d \in Docs
               PROVE  \/ doc'[d].life = "none"
                      \/ doc'[d].life = "intake" /\ batch'.status # "finalized"
                      => \A j \in Created : item[j][d] = "none"
    BY <1>1, <1>3 DEF RowInv
  <2> QED BY DEF IntakeInv, RowInv, RowsKeep, BatchKeeps
<1>8. BatchJobInv'
  BY <1>3 DEF IntakeInv, BatchJobInv, BatchKeeps
<1>9. SingleInv'
  BY <1>1, <1>3 DEF IntakeInv, SingleInv, BatchKeeps, ItemsOf
<1>10. ManifestInv'
  BY <1>1 DEF IntakeInv, ManifestInv, BatchKeeps, RowInv, RowsKeep, Exists
<1>11. OnceInv'
  BY <1>1 DEF IntakeInv, OnceInv, OnceAt, Progress, ItemsOf
<1> QED BY <1>2, <1>4, <1>6, <1>7, <1>8, <1>9, <1>10, <1>11 DEF IntakeInv

\* queue_job: one more job, whose items are the documents it was given.
LEMMA Queues ==
    ASSUME IntakeInv, NEW pdfs \in SUBSET Docs, QueueJob(pdfs)
    PROVE  \E n \in JobIds :
              /\ n = NextJob /\ n \notin Created /\ Created' = Created \cup {n} /\ CreatedInv'
              /\ job' \in [JobIds -> Job] /\ item' \in [JobIds -> [Docs -> ItemStatus]]
              /\ run' = run /\ torn' = torn /\ doubled' = doubled
              /\ \A j \in JobIds : j # n => job'[j] = job[j] /\ item'[j] = item[j]
              /\ job'[n].status = "queued"
              /\ \A d \in Docs : item'[n][d] = IF d \in pdfs THEN "queued" ELSE "none"
              /\ \A w \in Workers : run[w].job # n
<1>1. PICK n \in JobIds : n = NextJob
  BY DEF QueueJob
<1>2. n \notin Created /\ \E k \in 0..MaxJobs : Created \cup {n} = 1..k
  BY <1>1, NextIsFree DEF IntakeInv
<1>3. job' = [job EXCEPT ![n].status = "queued"]
  BY <1>1 DEF QueueJob
<1>4. item' = [item EXCEPT ![n] = [d \in Docs |-> IF d \in pdfs THEN "queued" ELSE "none"]]
  BY <1>1 DEF QueueJob
<1>5. /\ job' \in [JobIds -> Job] /\ job'[n].status = "queued"
      /\ \A j \in JobIds : j # n => job'[j] = job[j]
  BY <1>3, IntakeTypes DEF Job, JobStatus
<1>6. /\ item' \in [JobIds -> [Docs -> ItemStatus]]
      /\ \A j \in JobIds : j # n => item'[j] = item[j]
      /\ \A d \in Docs : item'[n][d] = IF d \in pdfs THEN "queued" ELSE "none"
  BY <1>4, IntakeTypes DEF ItemStatus
<1>7. Created' = Created \cup {n}
  BY <1>5 DEF Created
<1>8. CreatedInv'
  BY <1>2, <1>7 DEF CreatedInv
<1>9. ASSUME NEW w \in Workers PROVE run[w].job # n
  <2>1. PlaceOf(run[w])
    BY DEF IntakeInv, PlaceInv
  <2> QED BY <2>1, <1>2, IntakeTypes DEF PlaceOf
<1>10. run' = run /\ torn' = torn /\ doubled' = doubled
  BY DEF QueueJob
<1> QED BY <1>1, <1>2, <1>5, <1>6, <1>7, <1>8, <1>9, <1>10

\* A job is queued for a document, or for the batch that is finalized now.
LEMMA QueueStep ==
    ASSUME IntakeInv, NEW pdfs \in SUBSET Docs, QueueJob(pdfs), RowsKeep,
           media' \subseteq Docs, deleting' \subseteq Docs,
           UNCHANGED receipt, batch' \in Batch,
           \A d \in pdfs : /\ doc'[d].life # "none"
                           /\ doc'[d].life = "intake" => batch'.status = "finalized",
           \/ batch' = batch /\ \E d \in Docs : pdfs = {d}
           \/ /\ batch.job = 0 /\ batch'.job = NextJob /\ batch'.status = "finalized"
              /\ pdfs = Received /\ doc' = doc
    PROVE  IntakeInv'
<1>1. PICK n \in JobIds :
        /\ n = NextJob /\ n \notin Created /\ Created' = Created \cup {n} /\ CreatedInv'
        /\ job' \in [JobIds -> Job] /\ item' \in [JobIds -> [Docs -> ItemStatus]]
        /\ run' = run /\ torn' = torn /\ doubled' = doubled
        /\ \A j \in JobIds : j # n => job'[j] = job[j] /\ item'[j] = item[j]
        /\ job'[n].status = "queued"
        /\ \A d \in Docs : item'[n][d] = IF d \in pdfs THEN "queued" ELSE "none"
        /\ \A w \in Workers : run[w].job # n
  BY Queues
<1>2. IntakeTypeOK'
  BY <1>1 DEF IntakeInv, IntakeTypeOK, RowsKeep
<1>3. \A j \in Created : j \in JobIds /\ j # n /\ item'[j] = item[j]
  BY <1>1 DEF Created
<1>4. batch' = batch \/ batch'.status = "finalized"
  OBVIOUS
<1>5. batch.job # n
  BY <1>1, IntakeTypes DEF IntakeInv, BatchJobInv
<1>6. PlaceInv'
  <2> SUFFICES ASSUME NEW w \in Workers PROVE PlaceOf(run[w])'
    BY DEF PlaceInv
  <2>1. PlaceOf(run[w])
    BY DEF IntakeInv, PlaceInv
  <2>2. run[w].job # 0 =>
          /\ run[w].job \in Created'
          /\ \A s \in SUBSET ItemStatus : ItemsOf(run[w].job, s) = {d \in Docs : item'[run[w].job][d] \in s}
    BY <2>1, <1>1, <1>3 DEF PlaceOf, ItemsOf
  <2>3. run'[w] = run[w] /\ Created \subseteq Created'
    BY <1>1
  <2> DEFINE r == run[w]
  <2>4. r.pc \in InHand \cup {"items"} => r.job # 0
    BY <2>1 DEF PlaceOf, InHand
  <2>5. r.pc \in InHand \cup {"items"} => ItemsOf(r.job, Named) = {d \in Docs : item'[r.job][d] \in Named}
    BY <2>2, <2>4 DEF Named
  <2> QED BY <2>1, <2>2, <2>3, <2>5, <1>4 DEF PlaceOf, ItemsOf
<1>7. RowInv'
  <2> SUFFICES ASSUME NEW d \in Docs
               PROVE  /\ doc'[d].life = "none" => receipt'[d] = "none"
                      /\ \/ doc'[d].life = "none"
                         \/ doc'[d].life = "intake" /\ batch'.status # "finalized"
                         => \A j \in Created' : item'[j][d] = "none"
    BY DEF RowInv
  <2>1. doc'[d].life = "none" => receipt'[d] = "none"
    BY DEF IntakeInv, RowInv, RowsKeep
  <2>2. ASSUME \/ doc'[d].life = "none"
               \/ doc'[d].life = "intake" /\ batch'.status # "finalized"
        PROVE  \A j \in Created' : item'[j][d] = "none"
    <3>1. d \notin pdfs
      BY <2>2
    <3>2. \/ doc[d].life = "none"
          \/ doc[d].life = "intake" /\ batch.status # "finalized"
      BY <2>2, <1>4 DEF RowsKeep
    <3>3. \A j \in Created : item[j][d] = "none"
      BY <3>2 DEF IntakeInv, RowInv
    <3> QED BY <3>1, <3>3, <1>1, <1>3
  <2> QED BY <2>1, <2>2
<1>8. BatchJobInv'
  BY <1>1 DEF IntakeInv, BatchJobInv
<1>9. SingleInv'
  <2>1. \A j \in Created \ {batch.job} : \E d \in Docs : {e \in Docs : item'[j][e] \in Named} = {d}
    BY <1>3 DEF IntakeInv, SingleInv, ItemsOf
  <2>2. {e \in Docs : item'[n][e] \in Named} = pdfs
    BY <1>1 DEF Named, ItemStatus
  <2>3. CASE batch' = batch /\ \E d \in Docs : pdfs = {d}
    <3> SUFFICES ASSUME NEW j \in Created' \ {batch.job}
                 PROVE  \E d \in Docs : {e \in Docs : item'[j][e] \in Named} = {d}
      BY <2>3 DEF SingleInv, ItemsOf
    <3>1. j = n \/ j \in Created \ {batch.job}
      BY <1>1
    <3> QED BY <3>1, <2>1, <2>2, <2>3
  <2>4. CASE batch.job = 0 /\ batch'.job = n
    <3> SUFFICES ASSUME NEW j \in Created' \ {n}
                 PROVE  \E d \in Docs : {e \in Docs : item'[j][e] \in Named} = {d}
      BY <2>4 DEF SingleInv, ItemsOf
    <3>1. j \in Created /\ j # 0
      BY <1>1, <1>3, IntakeTypes
    <3> QED BY <3>1, <2>1, <2>4
  <2> QED BY <2>3, <2>4, <1>1
<1>10. ManifestInv'
  <2>1. CASE batch' = batch
    <3> SUFFICES ASSUME batch.job # 0, NEW d \in Docs
                 PROVE  /\ item'[batch.job][d] # "none" => receipt[d] = "received"
                        /\ receipt[d] = "received" /\ Exists(d)' => item'[batch.job][d] # "none"
      BY <2>1 DEF ManifestInv
    <3>1. item'[batch.job] = item[batch.job]
      BY <1>3 DEF IntakeInv, BatchJobInv
    <3>2. receipt[d] = "received" /\ Exists(d)' => Exists(d)
      BY DEF IntakeInv, RowInv, RowsKeep, Exists
    <3> QED BY <3>1, <3>2 DEF IntakeInv, ManifestInv
  <2>2. CASE batch'.job = n /\ pdfs = Received /\ doc' = doc
    BY <2>2, <1>1 DEF ManifestInv, Received, Exists
  <2> QED BY <2>1, <2>2, <1>1
<1>11. OnceInv'
  <2> SUFFICES ASSUME NEW j \in JobIds \ (torn \cup doubled) PROVE OnceAt(j)'
    BY <1>1 DEF OnceInv
  <2>1. OnceAt(j)
    BY DEF IntakeInv, OnceInv
  <2>2. CASE j = n
    BY <2>2, <1>1 DEF OnceAt, ItemsOf
  <2>3. CASE j # n
    <3>1. job'[j] = job[j] /\ item'[j] = item[j] /\ run' = run
      BY <2>3, <1>1
    <3> QED BY <2>1, <3>1 DEF OnceAt, Progress, ItemsOf
  <2> QED BY <2>2, <2>3
<1> QED BY <1>1, <1>2, <1>6, <1>7, <1>8, <1>9, <1>10, <1>11 DEF IntakeInv

\* The batch, without the operations that it does not see.
LEMMA BatchRows ==
    ASSUME IntakeInv, BatchNext
    PROVE  IntakeInv'
<1>1. batch \in Batch /\ receipt \in [Docs -> ReceiptStates] /\ doc \in [Docs -> Row]
      /\ media \subseteq Docs /\ deleting \subseteq Docs
  BY DEF IntakeInv, IntakeTypeOK
<1>2. \A d \in Docs : doc[d].life = "none" => receipt[d] = "none"
  BY DEF IntakeInv, RowInv
<1>3. batch.job # 0 => batch.status = "finalized"
  BY DEF IntakeInv, BatchJobInv
<1>4. CASE CreateBatch \/ BecomeDue \/ RefuseExpired
  <2>1. UNCHANGED <<docVars, jobVars, receipt>>
    BY <1>4 DEF CreateBatch, BecomeDue, RefuseExpired
  <2>2. RowsKeep
    BY <2>1, <1>1 DEF RowsKeep, docVars, rowVars
  <2>3. BatchKeeps
    BY <2>1, <1>1, <1>4 DEF CreateBatch, BecomeDue, RefuseExpired, Draft, Batch, BatchKeeps
  <2> QED BY <2>1, <2>2, <2>3, <1>1, <1>2, RowsStep DEF docVars, rowVars
<1>5. CASE Finalize
  <2>1. UNCHANGED docVars /\ UNCHANGED receipt /\ QueueJob(Received) /\ Received \subseteq Docs
        /\ Draft
    BY <1>5 DEF Finalize, Received
  <2>2. RowsKeep
    BY <2>1, <1>1 DEF RowsKeep, docVars, rowVars
  <2>3. /\ batch' = [batch EXCEPT !.status = "finalized", !.job = NextJob]
        /\ NextJob \in JobIds
    BY <1>5 DEF Finalize, QueueJob
  <2>4. batch' \in Batch /\ batch'.job = NextJob /\ batch'.status = "finalized"
    BY <2>3, <1>1 DEF Batch
  <2>5. batch.job = 0
    BY <2>1, <1>3 DEF Draft
  <2>6. \A d \in Received : doc'[d].life # "none"
    BY <2>1 DEF docVars, rowVars, Received, Exists
  <2> QED BY <2>1, <2>2, <2>4, <2>5, <2>6, <1>1, QueueStep DEF docVars, rowVars
<1>6. CASE Discard \/ CleanupExpired
  <2>1. DropReceipts /\ UNCHANGED jobVars
    BY <1>6 DEF Discard, CleanupExpired
  <2>2. BatchKeeps
    BY <2>1, <1>1, <1>3, <1>6
       DEF Discard, CleanupExpired, Draft, DropReceipts, ReceiptStates, Batch, BatchKeeps
  <2>3. \A d \in Docs : doc'[d] = IF d \in Received THEN [NoRow EXCEPT !.life = "gone"] ELSE doc[d]
    BY <2>1 DEF DropReceipts, RemoveDocs
  <2>4. RowsKeep
    BY <2>1, <2>3, <1>1 DEF RowsKeep, DropReceipts, RemoveDocs, NoRow, Row, Lives,
                            SearchableLives, HiddenLives
  <2>5. \A d \in Docs : doc'[d].life = "none" => receipt'[d] = "none"
    BY <2>1, <2>4, <1>2 DEF RowsKeep, DropReceipts
  <2>6. media' \subseteq Docs /\ deleting' \subseteq Docs
    BY <2>1, <1>1 DEF DropReceipts, RemoveDocs
  <2> QED BY <2>1, <2>2, <2>4, <2>5, <2>6, RowsStep
<1>7. ASSUME NEW d \in Docs, Receive(d) PROVE IntakeInv'
  <2>1. /\ Draft /\ doc[d].life = "none" /\ CreateDocs({d}, "intake")
        /\ receipt' = [receipt EXCEPT ![d] = "received"] /\ UNCHANGED <<jobVars, batch>>
    BY <1>7 DEF Receive
  <2>2. \A e \in Docs : doc'[e] = IF e = d THEN [NoRow EXCEPT !.life = "intake"] ELSE doc[e]
    BY <2>1 DEF CreateDocs
  <2>3. RowsKeep
    BY <2>1, <2>2, <1>1 DEF RowsKeep, CreateDocs, NoRow, Row, Lives, SearchableLives, HiddenLives
  <2>4. BatchKeeps
    BY <2>1, <1>1, <1>3 DEF BatchKeeps, ReceiptStates, Draft
  <2>5. \A e \in Docs : doc'[e].life = "none" => receipt'[e] = "none"
    BY <2>1, <2>2, <1>1, <1>2 DEF NoRow
  <2>6. media' \subseteq Docs /\ deleting' \subseteq Docs
    BY <2>1, <1>1 DEF CreateDocs
  <2> QED BY <2>1, <2>3, <2>4, <2>5, <2>6, RowsStep
<1>8. ASSUME NEW d \in Docs, RemoveItem(d) PROVE IntakeInv'
  <2>1. /\ Draft /\ receipt[d] = "received" /\ RemoveDocs({d} \cap Received)
        /\ receipt' = [receipt EXCEPT ![d] = "removed"] /\ UNCHANGED <<jobVars, batch>>
    BY <1>8 DEF RemoveItem
  <2>2. \A e \in Docs : doc'[e] = IF e \in {d} \cap Received THEN [NoRow EXCEPT !.life = "gone"]
                                  ELSE doc[e]
    BY <2>1 DEF RemoveDocs
  <2>3. RowsKeep
    BY <2>1, <2>2, <1>1 DEF RowsKeep, RemoveDocs, NoRow, Row, Lives, SearchableLives, HiddenLives
  <2>4. BatchKeeps
    BY <2>1, <1>1, <1>3 DEF BatchKeeps, ReceiptStates, Draft
  <2>5. \A e \in Docs : doc'[e].life = "none" => receipt'[e] = "none"
    BY <2>1, <2>3, <1>1, <1>2 DEF RowsKeep
  <2>6. media' \subseteq Docs /\ deleting' \subseteq Docs
    BY <2>1, <1>1 DEF RemoveDocs
  <2> QED BY <2>1, <2>3, <2>4, <2>5, <2>6, RowsStep
<1> QED BY <1>4, <1>5, <1>6, <1>7, <1>8 DEF BatchNext

\* What an administrator decides about a row, and what becomes of its PDF.
LEMMA DecisionStep ==
    ASSUME IntakeInv, NEW d \in Docs, DocNext(d), UNCHANGED <<jobVars, batchVars>>
    PROVE  IntakeInv'
<1>1. batch \in Batch /\ receipt \in [Docs -> ReceiptStates] /\ doc \in [Docs -> Row]
      /\ media \subseteq Docs /\ deleting \subseteq Docs
  BY DEF IntakeInv, IntakeTypeOK
<1>2. \A e \in Docs : doc[e].life = "none" => receipt[e] = "none"
  BY DEF IntakeInv, RowInv
<1>3. \/ doc' = doc
      \/ \E x \in Row : /\ doc' = [doc EXCEPT ![d] = x]
                        /\ \/ x.life = "gone"
                           \/ Exists(d) /\ x.life \notin {"none", "gone", "intake"}
  <2>1. \A y \in Row, l \in Lives : [y EXCEPT !.life = l] \in Row
    BY DEF Row
  <2>2. doc[d] \in Row
    BY <1>1
  <2>3. ASSUME NEW l \in Lives, Become(d, l)
        PROVE  \E x \in Row : doc' = [doc EXCEPT ![d] = x] /\ x.life = l
    <3> DEFINE x == [doc[d] EXCEPT !.life = l]
    <3>1. x \in Row /\ x.life = l
      BY <2>1, <2>2 DEF Row
    <3>2. doc' = [doc EXCEPT ![d] = x]
      BY <2>3 DEF Become
    <3> QED BY <3>1, <3>2
  <2>4. CASE DeprecateView(d) \/ ArchiveView(d) \/ RemoveFromSearch(d) \/ Restore(d)
    <3>1. Exists(d) /\ \E l \in {"deprecated", "archived", "uploaded"} : Become(d, l)
      BY <2>4 DEF DeprecateView, ArchiveView, RemoveFromSearch, Restore, Exists, Searchable,
                  SearchableLives
    <3> QED BY <3>1, <2>3 DEF Lives, SearchableLives, HiddenLives
  <2>5. CASE RestoreUnavailable(d)
    <3>1. /\ Exists(d) /\ Become(d, doc[d].prior)
          /\ doc[d].prior \in SearchableLives \cup {"deprecated", "archived"}
      BY <2>5 DEF RestoreUnavailable, Exists
    <3>2. doc[d].prior \in Lives
      BY <2>2 DEF Row
    <3>3. doc[d].prior \notin {"none", "gone", "intake"}
      BY <3>1 DEF SearchableLives
    <3> QED BY <3>1, <3>2, <3>3, <2>3
  <2>6. CASE MarkUnavailable(d)
    <3>1. PICK evidence \in BOOLEAN :
            doc' = [doc EXCEPT ![d].life = "unavailable", ![d].prior = doc[d].life,
                               ![d].evidence = evidence]
      BY <2>6 DEF MarkUnavailable
    <3> DEFINE x == [doc[d] EXCEPT !.life = "unavailable", !.prior = doc[d].life,
                                   !.evidence = evidence]
    <3>2. x \in Row /\ x.life = "unavailable"
      BY <2>2 DEF Row, Lives, HiddenLives
    <3>3. doc' = [doc EXCEPT ![d] = x]
      BY <3>1
    <3>4. Exists(d)
      BY <2>6 DEF MarkUnavailable
    <3> HIDE DEF x
    <3> QED BY <3>2, <3>3, <3>4
  <2>7. CASE BindEvidence(d)
    <3> DEFINE x == [doc[d] EXCEPT !.evidence = TRUE]
    <3>1. x \in Row /\ x.life = "unavailable" /\ Exists(d)
      BY <2>2, <2>7 DEF BindEvidence, Row, Exists
    <3>2. doc' = [doc EXCEPT ![d] = x]
      BY <2>7 DEF BindEvidence
    <3> HIDE DEF x
    <3> QED BY <3>1, <3>2
  <2>8. CASE DeleteRow(d)
    <3>1. [NoRow EXCEPT !.life = "gone"] \in Row /\ [NoRow EXCEPT !.life = "gone"].life = "gone"
      BY DEF NoRow, Row, Lives, SearchableLives, HiddenLives
    <3> QED BY <2>8, <3>1 DEF DeleteRow
  <2>9. CASE DeleteFile(d) \/ DeleteStops(d) \/ MediaLost(d) \/ MediaReturned(d)
    BY <2>9 DEF DeleteFile, DeleteStops, MediaLost, MediaReturned
  <2> QED BY <2>4, <2>5, <2>6, <2>7, <2>8, <2>9 DEF DocNext, Decide
<1>4. RowsKeep
  BY <1>1, <1>3 DEF RowsKeep, Exists
<1>5. BatchKeeps
  BY <1>1 DEF BatchKeeps, batchVars
<1>6. \A e \in Docs : doc'[e].life = "none" => receipt'[e] = "none"
  BY <1>2, <1>4 DEF RowsKeep, batchVars
<1>7. media' \subseteq Docs /\ deleting' \subseteq Docs
  BY <1>1 DEF DocNext, Decide, DeprecateView, ArchiveView, RemoveFromSearch, MarkUnavailable,
              BindEvidence, RestoreUnavailable, Restore, DeleteFile, DeleteRow, DeleteStops,
              MediaLost, MediaReturned
<1> QED BY <1>4, <1>5, <1>6, <1>7, RowsStep

\* A retry of one document, and an upload from the folder page.
LEMMA RequestStep ==
    ASSUME IntakeInv, NEW d \in Docs, RetryProcessing(d) \/ DashboardUpload(d),
           UNCHANGED batchVars
    PROVE  IntakeInv'
<1>1. batch \in Batch /\ receipt \in [Docs -> ReceiptStates] /\ doc \in [Docs -> Row]
      /\ media \subseteq Docs /\ deleting \subseteq Docs
  BY DEF IntakeInv, IntakeTypeOK
<1>2. QueueJob({d}) /\ media' \subseteq Docs /\ deleting' \subseteq Docs
  BY <1>1 DEF RetryProcessing, DashboardUpload, CreateDocs
<1>3. \A e \in Docs : e # d => doc'[e] = doc[e]
  BY <1>1 DEF RetryProcessing, DashboardUpload, CreateDocs, Become
<1>4. doc' \in [Docs -> Row] /\ doc'[d].life = "processing" /\ doc[d].life # "gone"
  <2>1. CASE RetryProcessing(d)
    BY <2>1, <1>1 DEF RetryProcessing, Become, Searchable, SearchableLives, Row, Lives
  <2>2. CASE DashboardUpload(d)
    BY <2>2, <1>1 DEF DashboardUpload, CreateDocs, NoRow, Row, Lives, SearchableLives, HiddenLives
  <2> QED BY <2>1, <2>2
<1>5. RowsKeep
  BY <1>1, <1>3, <1>4 DEF RowsKeep
<1> QED BY <1>1, <1>2, <1>4, <1>5, QueueStep DEF batchVars

-----------------------------------------------------------------------------
\* A worker's step: jobs and items change their status and nothing else, and
\* the worker arrives at a place where it has what it needs.
LEMMA WorkerMoves ==
    ASSUME IntakeInv, NEW w \in Workers, NEW r \in Run, Set(w, r), PlaceOf(r),
           RowsKeep, UNCHANGED <<batchVars, media, deleting>>,
           job' \in [JobIds -> Job], Created' = Created,
           item' \in [JobIds -> [Docs -> ItemStatus]],
           \A j \in JobIds, d \in Docs : item'[j][d] = "none" <=> item[j][d] = "none",
           torn' \subseteq JobIds, doubled' \subseteq JobIds
    PROVE  /\ IntakeTypeOK' /\ CreatedInv' /\ PlaceInv' /\ RowInv' /\ BatchJobInv'
           /\ SingleInv' /\ ManifestInv'
<1>1. batch' = batch /\ receipt' = receipt
  BY DEF batchVars
<1>2. run' \in [Workers -> Run] /\ run'[w] = r /\ \A v \in Workers : v # w => run'[v] = run[v]
  BY IntakeTypes, Moves
<1>3. IntakeTypeOK'
  BY <1>1, <1>2 DEF IntakeInv, IntakeTypeOK, RowsKeep
<1>4. CreatedInv'
  BY DEF IntakeInv, CreatedInv
<1>5. ASSUME NEW j \in JobIds
      PROVE  {d \in Docs : item'[j][d] \in Named} = {d \in Docs : item[j][d] \in Named}
  BY IntakeTypes DEF Named
<1>6. ASSUME NEW p \in Run, PlaceOf(p) PROVE PlaceOf(p)'
  <2>1. p.job # 0 => p.job \in JobIds
    BY DEF Run
  <2>2. p.pc \in InHand \cup {"items"} => p.job # 0
    BY <1>6 DEF PlaceOf, InHand
  <2>3. p.pc \in InHand \cup {"items"} =>
          {d \in Docs : item'[p.job][d] \in Named} = {d \in Docs : item[p.job][d] \in Named}
    BY <2>1, <2>2, <1>5
  <2> QED BY <1>6, <1>1, <2>3 DEF PlaceOf, ItemsOf
<1>7. PlaceInv'
  <2> SUFFICES ASSUME NEW v \in Workers PROVE PlaceOf(run[v])'
    BY DEF PlaceInv
  <2>1. PICK p \in Run : p = run'[v]
    BY <1>2
  <2>2. PlaceOf(p)
    BY <2>1, <1>2 DEF IntakeInv, PlaceInv
  <2>3. PlaceOf(p)'
    BY <2>2, <1>6
  <2> QED BY <2>1, <2>3 DEF PlaceOf
<1>8. RowInv'
  <2> SUFFICES ASSUME NEW d \in Docs
               PROVE  /\ doc'[d].life = "none" => receipt'[d] = "none"
                      /\ \/ doc'[d].life = "none"
                         \/ doc'[d].life = "intake" /\ batch'.status # "finalized"
                         => \A j \in Created : item'[j][d] = "none"
    BY DEF RowInv
  <2> QED BY <1>1 DEF IntakeInv, RowInv, RowsKeep, Created
<1>9. BatchJobInv'
  BY <1>1 DEF IntakeInv, BatchJobInv
<1>10. SingleInv'
  <2> SUFFICES ASSUME NEW j \in Created \ {batch.job}
               PROVE  \E d \in Docs : {e \in Docs : item'[j][e] \in Named} = {d}
    BY <1>1 DEF SingleInv, ItemsOf
  <2> QED BY <1>5 DEF IntakeInv, SingleInv, ItemsOf, Created
<1>11. ManifestInv'
  <2> SUFFICES ASSUME batch.job # 0, NEW d \in Docs
               PROVE  /\ item'[batch.job][d] # "none" => receipt[d] = "received"
                      /\ receipt[d] = "received" /\ Exists(d)' => item'[batch.job][d] # "none"
    BY <1>1 DEF ManifestInv
  <2>1. batch.job \in JobIds
    BY DEF IntakeInv, BatchJobInv, Created
  <2>2. receipt[d] = "received" /\ Exists(d)' => Exists(d)
    BY DEF IntakeInv, RowInv, RowsKeep, Exists
  <2> QED BY <2>1, <2>2 DEF IntakeInv, ManifestInv
<1> QED BY <1>3, <1>4, <1>7, <1>8, <1>9, <1>10, <1>11

\* A job that the worker has nothing to do with.
LEMMA OtherJob ==
    ASSUME NEW j \in JobIds, OnceAt(j), NEW w \in Workers, run[w].job # j, run'[w].job # j,
           \A v \in Workers : v # w => run'[v] = run[v],
           job'[j] = job[j], item'[j] = item[j]
    PROVE  OnceAt(j)'
<1>1. \A v \in Workers : run'[v].job = j => v # w /\ run'[v] = run[v]
  OBVIOUS
<1>2. \A v \in Workers : run[v].job = j => v # w /\ run'[v] = run[v]
  OBVIOUS
<1>3. ASSUME NEW v \in Workers, run'[v].job = j PROVE Progress(v, j)'
  BY <1>1, <1>3 DEF OnceAt, Progress, ItemsOf
<1>4. \A v \in Workers : run'[v].job = j =>
         job'[j].status = IF run'[v].pc = "items_of" THEN "queued" ELSE "running"
  BY <1>1 DEF OnceAt
<1>5. \A u, v \in Workers : run'[u].job = j /\ run'[v].job = j => u = v
  BY <1>1 DEF OnceAt
<1>6. job'[j].status = "queued" /\ (\A v \in Workers : run'[v].job # j)
         => ItemsOf(j, {"running"})' = {}
  BY <1>2 DEF OnceAt, ItemsOf
<1>7. job'[j].status = "completed" => ItemsOf(j, {"queued", "running", "failed"})' = {}
  BY DEF OnceAt, ItemsOf
<1> QED BY <1>3, <1>4, <1>5, <1>6, <1>7 DEF OnceAt

\* The job that the worker alone has in hand, from before or from now on.
LEMMA OwnJob ==
    ASSUME NEW j \in JobIds, NEW w \in Workers, run'[w].job = j,
           \A v \in Workers : v # w => run[v].job # j /\ run'[v] = run[v],
           job'[j].status = IF run'[w].pc = "items_of" THEN "queued" ELSE "running",
           Progress(w, j)'
    PROVE  OnceAt(j)'
<1>1. \A v \in Workers : run'[v].job = j => v = w
  OBVIOUS
<1> QED BY <1>1 DEF OnceAt

\* The job that nobody has in hand any longer.
LEMMA LeftJob ==
    ASSUME NEW j \in JobIds, NEW w \in Workers, run'[w].job # j,
           \A v \in Workers : v # w => run[v].job # j /\ run'[v] = run[v],
           job'[j].status = "queued" => ItemsOf(j, {"running"})' = {},
           job'[j].status = "completed" => ItemsOf(j, {"queued", "running", "failed"})' = {}
    PROVE  OnceAt(j)'
<1>1. \A v \in Workers : run'[v].job # j
  OBVIOUS
<1> QED BY <1>1 DEF OnceAt

\* What holds of the job in hand, unless it was doubled or its recovery torn.
LEMMA InHandAlone ==
    ASSUME IntakeInv, NEW w \in Workers, NEW j \in JobIds, run[w].job = j,
           j \notin torn \cup doubled
    PROVE  /\ \A v \in Workers : v # w => run[v].job # j
           /\ job[j].status = IF run[w].pc = "items_of" THEN "queued" ELSE "running"
           /\ Progress(w, j)
BY DEF IntakeInv, OnceInv, OnceAt

\* The steps of a worker with one job leave the other jobs as they were.
LEMMA OneJob ==
    ASSUME IntakeInv, NEW w \in Workers, NEW r \in Run, Set(w, r),
           torn \subseteq torn', doubled \subseteq doubled',
           NEW own \in JobIds \cup {0}, run[w].job \in {0, own}, r.job \in {0, own},
           \A j \in JobIds : j # own => job'[j] = job[j] /\ item'[j] = item[j],
           own \in JobIds \ (torn' \cup doubled') => OnceAt(own)'
    PROVE  OnceInv'
<1> SUFFICES ASSUME NEW j \in JobIds \ (torn' \cup doubled') PROVE OnceAt(j)'
  BY DEF OnceInv
<1>1. run'[w] = r /\ \A v \in Workers : v # w => run'[v] = run[v]
  BY IntakeTypes, Moves
<1>2. CASE j = own
  BY <1>2
<1>3. CASE j # own
  <2>1. OnceAt(j)
    BY DEF IntakeInv, OnceInv
  <2>2. run[w].job # j /\ run'[w].job # j
    BY <1>1, <1>3, IntakeTypes
  <2> QED BY <2>1, <2>2, <1>1, <1>3, OtherJob
<1> QED BY <1>2, <1>3

\* A step that leaves the rows alone.
LEMMA SameRows == ASSUME IntakeInv, UNCHANGED doc PROVE RowsKeep
BY IntakeTypes DEF RowsKeep

\* A worker without a job is in its place.
LEMMA AtRest ==
    /\ Down \in Run /\ Down.job = 0 /\ PlaceOf(Down)
    /\ Idle \in Run /\ Idle.job = 0 /\ PlaceOf(Idle) /\ Idle.pc = "idle"
<1>1. 0 \in JobIds \cup {0} /\ 0 \in Docs \cup {0} /\ "none" \in Lives
  BY DEF Lives
<1>2. Down \in Run
  BY <1>1 DEF Down, Run, WorkerPCs
<1>3. Idle \in Run
  BY <1>1 DEF Down, Idle, Run, WorkerPCs
<1> QED BY <1>2, <1>3 DEF Down, Idle, PlaceOf, InHand

\* Where a worker is, and which job it has.
LEMMA Standing ==
    ASSUME IntakeInv, NEW w \in Workers
    PROVE  /\ run[w] \in Run /\ PlaceOf(run[w])
           /\ run[w].job # 0 => run[w].job \in JobIds /\ run[w].job \in Created
           /\ run[w].todo \subseteq Docs \cup JobIds /\ run[w].empty \subseteq Docs
BY IntakeTypes DEF IntakeInv, PlaceInv, PlaceOf, Run

-----------------------------------------------------------------------------
\* A worker process starts, and lists jobs that may be orphans.
LEMMA StartStep ==
    ASSUME IntakeInv, NEW w \in Workers, StartWorker(w), UNCHANGED batchVars
    PROVE  IntakeInv'
<1>1. PICK orphaned \in SUBSET {j \in JobIds : job[j].status = "running"} :
        Set(w, IF orphaned = {} THEN Idle
               ELSE [Down EXCEPT !.pc = "orphans", !.todo = orphaned])
  BY DEF StartWorker
<1> DEFINE r == IF orphaned = {} THEN Idle ELSE [Down EXCEPT !.pc = "orphans", !.todo = orphaned]
<1>2. UNCHANGED <<doc, media, deleting, job, item, torn, doubled>> /\ run[w].job = 0
  BY Standing DEF StartWorker, docVars, rowVars, PlaceOf, At
<1>3. orphaned \subseteq Created
  BY DEF Created
<1>4. r \in Run /\ r.job = 0 /\ PlaceOf(r)
  <2>1. CASE orphaned = {}
    BY <2>1, AtRest
  <2>2. CASE orphaned # {}
    <3>1. r = [Down EXCEPT !.pc = "orphans", !.todo = orphaned]
      BY <2>2
    <3>2. r \in Run
      BY <3>1, AtRest DEF Run, WorkerPCs
    <3>3. r.pc = "orphans" /\ r.job = 0 /\ r.todo = orphaned
      BY <3>1 DEF Down
    <3> QED BY <3>2, <3>3, <1>3 DEF PlaceOf, InHand
  <2> QED BY <2>1, <2>2
<1>5. Created' = Created
  BY <1>2 DEF Created
<1>6. Set(w, r)
  BY <1>1
<1> HIDE DEF r
<1>7. OnceInv'
  BY <1>2, <1>4, <1>6, OneJob, IntakeTypes
<1> QED BY <1>2, <1>4, <1>5, <1>6, <1>7, SameRows, WorkerMoves, IntakeTypes DEF IntakeInv

\* An orphan goes back to the queue.
LEMMA OrphanStep ==
    ASSUME IntakeInv, NEW w \in Workers, RequeueOrphan(w), UNCHANGED batchVars
    PROVE  IntakeInv'
<1>1. PICK j \in run[w].todo :
        /\ job' = [job EXCEPT ![j].status = "queued"]
        /\ Set(w, [run[w] EXCEPT !.pc = "items_of", !.job = j, !.todo = @ \ {j}])
        /\ doubled' = IF Runners(j) = {} THEN doubled ELSE doubled \cup {j}
  BY DEF RequeueOrphan
<1> DEFINE r == [run[w] EXCEPT !.pc = "items_of", !.job = j, !.todo = run[w].todo \ {j}]
<1>2. UNCHANGED <<doc, media, deleting, item, torn>> /\ run[w].pc = "orphans"
  BY DEF RequeueOrphan, docVars, rowVars, At
<1>3. run[w].job = 0 /\ run[w].todo \subseteq Created
  BY <1>2, Standing DEF PlaceOf
<1>4. j \in Created /\ j \in JobIds
  BY <1>3 DEF Created
<1>5. r \in Run /\ r.pc = "items_of" /\ r.job = j /\ r.todo = run[w].todo \ {j}
  BY <1>4, Standing DEF Run, WorkerPCs
<1>6. Set(w, r)
  BY <1>1
<1> HIDE DEF r
<1>7. PlaceOf(r)
  BY <1>3, <1>4, <1>5, IntakeTypes DEF PlaceOf, InHand
<1>8. /\ job' \in [JobIds -> Job] /\ job'[j].status = "queued"
      /\ \A k \in JobIds : k # j => job'[k] = job[k]
  BY <1>1, <1>4, IntakeTypes DEF Job, JobStatus
<1>9. Created' = Created
  BY <1>4, <1>8 DEF Created
<1>10. doubled \subseteq doubled' /\ doubled' \subseteq JobIds
  BY <1>1, <1>4, IntakeTypes
<1>11. ASSUME j \in JobIds \ (torn' \cup doubled') PROVE OnceAt(j)'
  <2>1. run'[w] = r /\ \A v \in Workers : v # w => run'[v] = run[v]
    BY <1>5, <1>6, IntakeTypes, Moves
  <2>2. \A v \in Workers : run[v].job # j
    BY <1>1, <1>11 DEF Runners
  <2>3. Progress(w, j)'
    BY <2>1, <1>5 DEF Progress, InHand
  <2> QED BY <2>1, <2>2, <2>3, <1>4, <1>5, <1>8, OwnJob
<1>12. OnceInv'
  BY <1>2, <1>3, <1>4, <1>5, <1>6, <1>8, <1>10, <1>11, OneJob
<1> QED BY <1>2, <1>5, <1>6, <1>7, <1>8, <1>9, <1>10, <1>12, SameRows, WorkerMoves, IntakeTypes
        DEF IntakeInv

\* And its items with it.
LEMMA OrphanItemsStep ==
    ASSUME IntakeInv, NEW w \in Workers, RequeueItems(w), UNCHANGED batchVars
    PROVE  IntakeInv'
<1> DEFINE r == IF run[w].todo = {} THEN Idle ELSE [run[w] EXCEPT !.pc = "orphans", !.job = 0]
<1>1. Set(w, r)
  BY DEF RequeueItems, NextOrphan
<1>2. UNCHANGED <<doc, media, deleting, job, torn, doubled>> /\ run[w].pc = "items_of"
  BY DEF RequeueItems, docVars, rowVars, At
<1>3. run[w].job # 0 /\ run[w].todo \subseteq Created
  BY <1>2, Standing DEF PlaceOf
<1>4. r \in Run /\ r.job = 0 /\ PlaceOf(r)
  <2>1. CASE run[w].todo = {}
    BY <2>1, AtRest
  <2>2. CASE run[w].todo # {}
    <3>1. r = [run[w] EXCEPT !.pc = "orphans", !.job = 0]
      BY <2>2
    <3>2. r \in Run /\ r.pc = "orphans" /\ r.job = 0 /\ r.todo = run[w].todo
      BY <3>1, Standing DEF Run, WorkerPCs
    <3> QED BY <3>2, <1>3 DEF PlaceOf, InHand
  <2> QED BY <2>1, <2>2
<1> HIDE DEF r
<1>5. PICK j \in JobIds : j = run[w].job
  BY <1>3, Standing
<1>6. item' = [item EXCEPT ![j] = [d \in Docs |-> IF item[j][d] = "running" THEN "queued"
                                                 ELSE item[j][d]]]
  BY <1>5 DEF RequeueItems
<1>7. /\ item' \in [JobIds -> [Docs -> ItemStatus]]
      /\ \A k \in JobIds : k # j => item'[k] = item[k]
      /\ \A d \in Docs : item'[j][d] = IF item[j][d] = "running" THEN "queued" ELSE item[j][d]
  BY <1>6, IntakeTypes DEF ItemStatus
<1>8. \A k \in JobIds, d \in Docs : item'[k][d] = "none" <=> item[k][d] = "none"
  BY <1>7
<1>9. Created' = Created
  BY <1>2 DEF Created
<1>10. ASSUME j \in JobIds \ (torn' \cup doubled') PROVE OnceAt(j)'
  <2>1. run'[w] = r /\ \A v \in Workers : v # w => run'[v] = run[v]
    BY <1>1, <1>4, IntakeTypes, Moves
  <2>2. job[j].status = "queued" /\ \A v \in Workers : v # w => run[v].job # j
    BY <1>2, <1>5, <1>10, InHandAlone
  <2>3. ItemsOf(j, {"running"})' = {}
    BY <1>7 DEF ItemsOf
  <2>4. run'[w].job # j /\ job'[j].status = "queued"
    BY <2>1, <2>2, <1>2, <1>4, IntakeTypes
  <2> QED BY <2>1, <2>2, <2>3, <2>4, LeftJob
<1>11. OnceInv'
  BY <1>1, <1>2, <1>4, <1>5, <1>7, <1>10, OneJob
<1> QED BY <1>1, <1>2, <1>4, <1>7, <1>8, <1>9, <1>11, SameRows, WorkerMoves, IntakeTypes
        DEF IntakeInv

-----------------------------------------------------------------------------
\* The oldest queued job is claimed.
LEMMA ClaimStep ==
    ASSUME IntakeInv, NEW w \in Workers, ClaimNextJob(w), UNCHANGED batchVars
    PROVE  IntakeInv'
<1>1. PICK j \in JobIds :
        /\ job[j].status = "queued"
        /\ job' = [job EXCEPT ![j].status = "running"]
        /\ doubled' = IF Runners(j) = {} THEN doubled ELSE doubled \cup {j}
        /\ Set(w, [Idle EXCEPT !.pc = "claimed", !.job = j, !.failed = job[j].failed,
                         !.built = job[j].built])
  BY DEF ClaimNextJob
<1> DEFINE r == [Idle EXCEPT !.pc = "claimed", !.job = j, !.failed = job[j].failed,
                       !.built = job[j].built]
<1>2. UNCHANGED <<doc, media, deleting, item, torn>> /\ run[w].job = 0
  BY Standing DEF ClaimNextJob, docVars, rowVars, At, PlaceOf
<1>3. j \in Created /\ job[j] \in Job
  BY <1>1, IntakeTypes DEF Created
<1>4. r \in Run /\ r.pc = "claimed" /\ r.job = j
  BY <1>3, AtRest DEF Run, WorkerPCs, Job
<1>5. Set(w, r)
  BY <1>1
<1> HIDE DEF r
<1>6. PlaceOf(r)
  BY <1>3, <1>4, IntakeTypes DEF PlaceOf, InHand
<1>7. /\ job' \in [JobIds -> Job] /\ job'[j].status = "running"
      /\ \A k \in JobIds : k # j => job'[k] = job[k]
  BY <1>1, IntakeTypes DEF Job, JobStatus
<1>8. Created' = Created
  BY <1>3, <1>7 DEF Created
<1>9. doubled \subseteq doubled' /\ doubled' \subseteq JobIds
  BY <1>1, IntakeTypes
<1>10. ASSUME j \in JobIds \ (torn' \cup doubled') PROVE OnceAt(j)'
  <2>1. run'[w] = r /\ \A v \in Workers : v # w => run'[v] = run[v]
    BY <1>4, <1>5, IntakeTypes, Moves
  <2>2. \A v \in Workers : run[v].job # j
    BY <1>1, <1>10 DEF Runners
  <2>3. ItemsOf(j, {"running"}) = {}
    BY <2>2, <1>1, <1>2, <1>9, <1>10 DEF IntakeInv, OnceInv, OnceAt
  <2>4. Progress(w, j)'
    BY <2>1, <2>3, <1>2, <1>4 DEF Progress, InHand, ItemsOf
  <2> QED BY <2>1, <2>2, <2>4, <1>4, <1>7, OwnJob
<1>11. OnceInv'
  BY <1>2, <1>4, <1>5, <1>7, <1>9, <1>10, OneJob
<1> QED BY <1>2, <1>4, <1>5, <1>6, <1>7, <1>8, <1>9, <1>11, SameRows, WorkerMoves, IntakeTypes
        DEF IntakeInv

\* What a step inside a claimed job has to show: the status of the job and its
\* items may change, and either the worker goes on with it or it is left.
LEMMA JobStep ==
    ASSUME IntakeInv, NEW w \in Workers, NEW r \in Run, Set(w, r), PlaceOf(r),
           RowsKeep, UNCHANGED <<batchVars, media, deleting, doubled>>,
           NEW j \in JobIds, j = run[w].job, run[w].pc # "items_of",
           torn' = torn,
           job' \in [JobIds -> Job], job'[j].status # "none",
           item' \in [JobIds -> [Docs -> ItemStatus]],
           \A k \in JobIds : k # j => job'[k] = job[k] /\ item'[k] = item[k],
           \A d \in Docs : item'[j][d] = "none" <=> item[j][d] = "none",
           \/ r.job = j /\ r.pc # "items_of" /\ job'[j].status = job[j].status
           \/ r.job = 0,
           j \notin torn \cup doubled /\ Progress(w, j) =>
              IF r.job = j THEN run'[w] = r => Progress(w, j)'
              ELSE /\ job'[j].status = "queued" => ItemsOf(j, {"running"})' = {}
                   /\ job'[j].status = "completed" =>
                         ItemsOf(j, {"queued", "running", "failed"})' = {}
    PROVE  IntakeInv'
<1>1. run'[w] = r /\ \A v \in Workers : v # w => run'[v] = run[v]
  BY IntakeTypes, Moves
<1>2. j \in Created /\ j # 0
  BY Standing, IntakeTypes
<1>3. Created' = Created
  BY <1>2 DEF Created
<1>4. \A k \in JobIds, d \in Docs : item'[k][d] = "none" <=> item[k][d] = "none"
  OBVIOUS
<1>5. ASSUME j \in JobIds \ (torn' \cup doubled') PROVE OnceAt(j)'
  <2>1. /\ \A v \in Workers : v # w => run[v].job # j
        /\ job[j].status = "running" /\ Progress(w, j)
    BY <1>5, InHandAlone
  <2>2. \A v \in Workers : v # w => run[v].job # j /\ run'[v] = run[v]
    BY <2>1, <1>1
  <2>3. CASE r.job = j
    <3>1. Progress(w, j)'
      BY <2>1, <2>3, <1>1, <1>5
    <3>2. run'[w].job = j /\ run'[w].pc # "items_of" /\ job'[j].status = "running"
      BY <2>1, <2>3, <1>1, <1>2
    <3> QED BY <3>1, <3>2, <2>2, OwnJob
  <2>4. CASE r.job = 0
    <3>1. run'[w].job # j
      BY <2>4, <1>1, <1>2
    <3>2. r.job # j
      BY <2>4, <1>2
    <3>3. /\ job'[j].status = "queued" => ItemsOf(j, {"running"})' = {}
          /\ job'[j].status = "completed" =>
                ItemsOf(j, {"queued", "running", "failed"})' = {}
      BY <2>1, <3>2, <1>5
    <3> QED BY <3>1, <3>3, <2>2, LeftJob
  <2> QED BY <2>3, <2>4
<1>6. OnceInv'
  BY <1>5, OneJob
<1>7. torn' \subseteq JobIds /\ doubled' \subseteq JobIds
  BY IntakeTypes
<1>8. /\ IntakeTypeOK' /\ CreatedInv' /\ PlaceInv' /\ RowInv' /\ BatchJobInv'
      /\ SingleInv' /\ ManifestInv'
  BY <1>3, <1>4, <1>7, WorkerMoves
<1> QED BY <1>6, <1>8 DEF IntakeInv

\* A worker that has begun with a job knows its number.
LEMMA HasJob ==
    ASSUME IntakeInv, NEW w \in Workers, run[w].pc \notin {"down", "idle", "orphans"}
    PROVE  \E j \in JobIds : j = run[w].job /\ job[j] \in Job /\ job[j].status # "none"
<1>1. run[w].job \in JobIds /\ run[w].job \in Created
  BY Standing DEF PlaceOf
<1> QED BY <1>1, IntakeTypes DEF Created

\* The job goes back while the barrier is closed.
LEMMA DeferStep ==
    ASSUME IntakeInv, NEW w \in Workers, Defer(w), UNCHANGED batchVars
    PROVE  IntakeInv'
<1>1. /\ run[w].pc = "claimed" /\ Set(w, Idle)
      /\ UNCHANGED <<doc, media, deleting, item, torn, doubled>>
  BY DEF Defer, At, rowVars
<1>2. PICK j \in JobIds : j = run[w].job /\ job[j] \in Job /\ job[j].status # "none"
  BY <1>1, HasJob
<1>3. job' = [job EXCEPT ![j].status = "queued"]
  BY <1>2 DEF Defer
<1>4. /\ job' \in [JobIds -> Job] /\ job'[j].status = "queued"
      /\ \A k \in JobIds : k # j => job'[k] = job[k]
  BY <1>3, IntakeTypes DEF Job, JobStatus
<1>5. Progress(w, j) => ItemsOf(j, {"running"})' = {}
  BY <1>1 DEF Progress, ItemsOf
<1>6. Idle \in Run /\ Idle.job = 0 /\ PlaceOf(Idle) /\ 0 \notin JobIds
  BY AtRest, IntakeTypes
<1>7. RowsKeep
  BY <1>1, SameRows
<1> QED BY <1>1, <1>2, <1>4, <1>5, <1>6, <1>7, IntakeTypes, JobStep

\* The items that are not done are listed.
LEMMA ListStep ==
    ASSUME IntakeInv, NEW w \in Workers, ListItems(w), UNCHANGED batchVars
    PROVE  IntakeInv'
<1>1. run[w].pc = "claimed" /\ UNCHANGED <<doc, media, deleting, job, item, torn, doubled>>
  BY DEF ListItems, At, docVars, rowVars
<1>2. PICK j \in JobIds : j = run[w].job /\ job[j] \in Job /\ job[j].status # "none"
  BY <1>1, HasJob
<1> DEFINE listed == ItemsOf(j, {"queued", "failed"})
           r == [run[w] EXCEPT !.pc = "items", !.todo = listed,
                               !.empty = {d \in listed : ~Exists(d)}]
<1>3. Set(w, r)
  BY <1>2 DEF ListItems
<1>4. listed \subseteq Docs /\ listed \subseteq ItemsOf(j, Named)
  BY DEF ItemsOf, Named, ItemStatus
<1>5. r \in Run /\ r.pc = "items" /\ r.job = j /\ r.todo = listed
  BY <1>2, <1>4, Standing DEF Run, WorkerPCs
<1> HIDE DEF r
<1>6. PlaceOf(r)
  BY <1>2, <1>4, <1>5, IntakeTypes DEF PlaceOf, InHand, Created
<1>7. Progress(w, j) /\ run'[w] = r => Progress(w, j)'
  <2> SUFFICES ASSUME Progress(w, j), run'[w] = r PROVE Progress(w, j)'
    OBVIOUS
  <2>1. ItemsOf(j, {"running"}) = {}
    BY <1>1 DEF Progress
  <2>2. ItemsOf(j, {"queued", "running"}) \subseteq listed /\ ItemsOf(j, {"failed"}) \subseteq listed
    BY <2>1 DEF ItemsOf
  <2> HIDE DEF listed
  <2> QED BY <2>2, <1>1, <1>5 DEF Progress, InHand, ItemsOf
<1> HIDE DEF listed
<1>8. RowsKeep
  BY <1>1, SameRows
<1> QED BY <1>1, <1>2, <1>3, <1>5, <1>6, <1>7, <1>8, IntakeTypes, JobStep

\* A worker gives its job up.
LEMMA GiveUp ==
    ASSUME IntakeInv, NEW w \in Workers, EndFailed(w),
           run[w].pc \notin {"down", "idle", "orphans", "items_of"},
           UNCHANGED <<batchVars, doc, media, deleting, torn, doubled>>,
           item' \in [JobIds -> [Docs -> ItemStatus]],
           \A k \in JobIds : k # run[w].job => item'[k] = item[k],
           \A d \in Docs : item'[run[w].job][d] = "none" <=> item[run[w].job][d] = "none"
    PROVE  IntakeInv'
<1>1. PICK j \in JobIds : j = run[w].job /\ job[j] \in Job /\ job[j].status # "none"
  BY HasJob
<1>2. job' = [job EXCEPT ![j].status = "failed", ![j].failed = TRUE] /\ Set(w, Idle)
  BY <1>1 DEF EndFailed
<1> DEFINE x == [job[j] EXCEPT !.status = "failed", !.failed = TRUE]
<1>3. x \in Job /\ x.status = "failed"
  BY <1>1 DEF Job, JobStatus
<1>4. job' = [job EXCEPT ![j] = x]
  BY <1>1, <1>2, IntakeTypes
<1> HIDE DEF x
<1>5. /\ job' \in [JobIds -> Job] /\ job'[j].status = "failed"
      /\ \A k \in JobIds : k # j => job'[k] = job[k]
  BY <1>3, <1>4, IntakeTypes
<1>6. Idle \in Run /\ Idle.job = 0 /\ PlaceOf(Idle) /\ 0 \notin JobIds
  BY AtRest, IntakeTypes
<1>7. RowsKeep
  BY SameRows
<1>8. run[w].pc # "items_of" /\ Idle.job # j
  BY <1>6
<1>9. /\ \A k \in JobIds : k # j => item'[k] = item[k]
      /\ \A d \in Docs : item'[j][d] = "none" <=> item[j][d] = "none"
  BY <1>1
<1>10. job'[j].status # "queued" /\ job'[j].status # "completed" /\ job'[j].status # "none"
  BY <1>5
<1>11. UNCHANGED <<batchVars, media, deleting, doubled>> /\ torn' = torn
  OBVIOUS
<1>12. j \notin torn \cup doubled /\ Progress(w, j) =>
         IF Idle.job = j THEN run'[w] = Idle => Progress(w, j)'
         ELSE /\ job'[j].status = "queued" => ItemsOf(j, {"running"})' = {}
              /\ job'[j].status = "completed" => ItemsOf(j, {"queued", "running", "failed"})' = {}
  BY <1>8, <1>10
<1>13. \A k \in JobIds : k # j => job'[k] = job[k] /\ item'[k] = item[k]
  BY <1>5, <1>9
<1>14. j = run[w].job /\ Set(w, Idle) /\ job' \in [JobIds -> Job] /\ job'[j].status # "none"
  BY <1>1, <1>2, <1>5, <1>10
<1>15. run[w].pc # "items_of" /\ Idle \in Run /\ PlaceOf(Idle) /\ Idle.job = 0
  BY <1>6
<1> QED BY <1>7, <1>9, <1>11, <1>12, <1>13, <1>14, <1>15, JobStep

\* An item begins, and its row is loaded.
LEMMA StartItemStep ==
    ASSUME IntakeInv, NEW w \in Workers, StartItem(w), UNCHANGED batchVars
    PROVE  IntakeInv'
<1>1. run[w].pc = "items" /\ UNCHANGED <<doc, media, deleting, torn, doubled>>
  BY DEF StartItem, At, docVars, rowVars
<1>2. PICK j \in JobIds : j = run[w].job /\ job[j] \in Job /\ job[j].status # "none"
  BY <1>1, HasJob
<1>3. PICK d \in run[w].todo :
        /\ item' = [item EXCEPT ![j][d] = "running"]
        /\ IF Exists(d) \/ d \in run[w].empty
           THEN /\ Set(w, [run[w] EXCEPT !.todo = run[w].todo \ {d}, !.at = d,
                                !.pc = IF Exists(d) THEN "mark" ELSE "settle",
                                !.prior = doc[d].life, !.kept = doc[d].chunks,
                                !.good = FALSE])
                /\ UNCHANGED job
           ELSE EndFailed(w)
  BY <1>2 DEF StartItem
<1>4. run[w].todo \subseteq ItemsOf(j, Named) /\ d \in Docs /\ item[j][d] # "none"
  <2>1. run[w].todo \subseteq ItemsOf(j, Named)
    BY <1>1, <1>2, Standing DEF PlaceOf
  <2> QED BY <2>1 DEF ItemsOf, Named
<1>5. /\ item' \in [JobIds -> [Docs -> ItemStatus]] /\ item'[j][d] = "running"
      /\ \A k \in JobIds : k # j => item'[k] = item[k]
      /\ \A e \in Docs : e # d => item'[j][e] = item[j][e]
  BY <1>3, <1>4, IntakeTypes DEF ItemStatus
<1>6. \A e \in Docs : item'[j][e] = "none" <=> item[j][e] = "none"
  BY <1>4, <1>5
<1>7. CASE Exists(d) \/ d \in run[w].empty
  <2> DEFINE r == [run[w] EXCEPT !.todo = run[w].todo \ {d}, !.at = d,
                                 !.pc = IF Exists(d) THEN "mark" ELSE "settle",
                                 !.prior = doc[d].life, !.kept = doc[d].chunks,
                                 !.good = FALSE]
  <2>1. Set(w, r) /\ UNCHANGED job
    BY <1>3, <1>7
  <2>2. doc[d] \in Row
    BY <1>4, IntakeTypes
  <2>3. /\ r \in Run /\ r.job = j /\ r.at = d /\ r.todo = run[w].todo \ {d}
        /\ r.pc = IF Exists(d) THEN "mark" ELSE "settle"
        /\ r.prior = doc[d].life /\ r.failed = run[w].failed
    <3>1. run[w] \in Run /\ run[w].todo \ {d} \subseteq Docs \cup JobIds
      BY Standing
    <3>2. /\ (IF Exists(d) THEN "mark" ELSE "settle") \in WorkerPCs
          /\ doc[d].life \in Lives /\ doc[d].chunks \in BOOLEAN /\ d \in Docs \cup {0}
      BY <2>2, <1>4 DEF WorkerPCs, Row
    <3>3. r \in Run
      BY <3>1, <3>2 DEF Run
    <3> QED BY <3>1, <3>3, <1>2 DEF Run
  <2> HIDE DEF r
  <2>4. Exists(d) /\ doc[d].life = "intake" => batch.status = "finalized"
    <3>1. j \in Created
      BY <1>2 DEF Created
    <3> QED BY <3>1, <1>4 DEF IntakeInv, RowInv
  <2>5. PlaceOf(r)
    <3>1. r.job # 0 /\ r.job \in Created
      BY <2>3, <1>2, IntakeTypes DEF Created
    <3>2. r.todo \subseteq ItemsOf(r.job, Named) /\ r.at \in ItemsOf(r.job, Named)
      BY <2>3, <1>3, <1>4
    <3>3. r.pc = "mark" => r.prior \notin {"none", "gone"} /\ (r.prior = "intake" => batch.status = "finalized")
      BY <2>3, <2>4 DEF Exists
    <3>4. r.pc \in {"mark", "settle"}
      BY <2>3
    <3> QED BY <3>1, <3>2, <3>3, <3>4 DEF PlaceOf, InHand
  <2>6. Progress(w, j) /\ run'[w] = r => Progress(w, j)'
    <3> SUFFICES ASSUME Progress(w, j), run'[w] = r PROVE Progress(w, j)'
      OBVIOUS
    <3>1. /\ ItemsOf(j, {"queued", "running"}) \subseteq run[w].todo
          /\ ItemsOf(j, {"failed"}) \subseteq run[w].todo \/ run[w].failed
      BY <1>1 DEF Progress
    <3>2. {e \in Docs : item'[j][e] \in {"queued", "running"}} \subseteq r.todo \cup {r.at}
      BY <3>1, <2>3, <1>5 DEF ItemsOf
    <3>3. {e \in Docs : item'[j][e] = "failed"} \subseteq r.todo \cup {r.at} \/ r.failed
      BY <3>1, <2>3, <1>5 DEF ItemsOf
    <3>4. r.pc \in InHand /\ r.pc \notin {"claimed", "items", "finish"}
      BY <2>3 DEF InHand
    <3> QED BY <3>2, <3>3, <3>4 DEF Progress, ItemsOf
  <2>7. r.pc # "items_of" /\ RowsKeep
    BY <2>3, <1>1, SameRows
  <2> QED BY <1>1, <1>2, <1>5, <1>6, <2>1, <2>3, <2>5, <2>6, <2>7, IntakeTypes, JobStep
<1>8. CASE ~(Exists(d) \/ d \in run[w].empty)
  <2>1. EndFailed(w)
    BY <1>3, <1>8
  <2> QED BY <2>1, <1>1, <1>2, <1>5, <1>6, GiveUp
<1> QED BY <1>7, <1>8

\* An attempt at the document in hand: the job, its items and what is still to
\* do stay as they are.
LEMMA AttemptStep ==
    ASSUME IntakeInv, NEW w \in Workers, UNCHANGED batchVars, DocumentStep, RowsKeep,
           run[w].pc \in InHand \ {"settle"},
           NEW r \in Run, Set(w, r), r.pc \in InHand,
           r.job = run[w].job, r.todo = run[w].todo, r.at = run[w].at,
           r.prior = run[w].prior, r.failed = run[w].failed
    PROVE  IntakeInv'
<1>1. UNCHANGED <<batchVars, media, deleting, job, item, torn, doubled>>
  BY DEF DocumentStep
<1>2. run[w].pc \notin {"down", "idle", "orphans", "items_of"}
  BY DEF InHand
<1>3. PICK j \in JobIds : j = run[w].job /\ job[j] \in Job /\ job[j].status # "none"
  BY <1>2, HasJob
<1>4. PlaceOf(r)
  BY Standing DEF PlaceOf, InHand
<1>5. Progress(w, j) /\ run'[w] = r => Progress(w, j)'
  <2> SUFFICES ASSUME Progress(w, j), run'[w] = r PROVE Progress(w, j)'
    OBVIOUS
  <2>1. /\ ItemsOf(j, {"queued", "running"}) \subseteq r.todo \cup {r.at}
        /\ ItemsOf(j, {"failed"}) \subseteq r.todo \cup {r.at} \/ r.failed
    BY DEF Progress
  <2>2. r.pc \notin {"claimed", "items", "finish"}
    BY DEF InHand
  <2> QED BY <1>1, <2>1, <2>2 DEF Progress, ItemsOf
<1>6. r.pc # "items_of"
  BY DEF InHand
<1>7. job' \in [JobIds -> Job] /\ item' \in [JobIds -> [Docs -> ItemStatus]]
  BY <1>1, IntakeTypes
<1>8. job'[j].status # "none" /\ r.job = j /\ job'[j].status = job[j].status
  BY <1>1, <1>3
<1>9. /\ \A k \in JobIds : k # j => job'[k] = job[k] /\ item'[k] = item[k]
      /\ \A d \in Docs : item'[j][d] = "none" <=> item[j][d] = "none"
  BY <1>1
<1>10. j \notin torn \cup doubled /\ Progress(w, j) =>
         IF r.job = j THEN run'[w] = r => Progress(w, j)'
         ELSE /\ job'[j].status = "queued" => ItemsOf(j, {"running"})' = {}
              /\ job'[j].status = "completed" => ItemsOf(j, {"queued", "running", "failed"})' = {}
  BY <1>5, <1>8
<1> QED BY <1>1, <1>2, <1>3, <1>4, <1>6, <1>7, <1>8, <1>9, <1>10, JobStep

\* The row is marked, extracted, marked again, or put back.
LEMMA DocumentSteps ==
    ASSUME IntakeInv, NEW w \in Workers, UNCHANGED batchVars,
           MarkProcessing(w) \/ Extract(w) \/ MarkReady(w) \/ RestoreLifecycle(w)
    PROVE  IntakeInv'
<1>1. DocumentStep
  BY DEF MarkProcessing, Extract, MarkReady, RestoreLifecycle
<1>2. run[w].pc \in {"mark", "extract", "ready", "restore"}
  BY DEF MarkProcessing, Extract, MarkReady, RestoreLifecycle, At
<1>3. run[w].pc \in InHand \ {"settle"}
  BY <1>2 DEF InHand
<1>4. PICK d \in Docs : d = run[w].at
  BY <1>3, Standing DEF PlaceOf, ItemsOf
<1>5. /\ run[w].prior \in Lives \ {"none", "gone"}
      /\ run[w].prior = "intake" => batch.status = "finalized"
  BY <1>3, Standing DEF PlaceOf, Run
<1>6. doc \in [Docs -> Row]
  BY IntakeTypes
<1>7. \/ doc' = doc
      \/ Exists(d) /\ \E x \in Row : /\ doc' = [doc EXCEPT ![d] = x]
                                     /\ \/ x.life = doc[d].life
                                        \/ x.life \in {"processing", "ready", run[w].prior}
  <2>1. ASSUME NEW l \in {"processing", "ready", run[w].prior},
               doc' = [doc EXCEPT ![d].life = l]
        PROVE  \E x \in Row : doc' = [doc EXCEPT ![d] = x] /\ x.life = l
    <3> DEFINE x == [doc[d] EXCEPT !.life = l]
    <3>1. l \in Lives
      BY <1>5 DEF Lives, SearchableLives
    <3>2. x \in Row /\ x.life = l
      BY <3>1, <1>6 DEF Row
    <3>3. doc' = [doc EXCEPT ![d] = x]
      BY <2>1
    <3> HIDE DEF x
    <3> QED BY <3>2, <3>3
  <2>2. CASE MarkProcessing(w)
    <3>1. \/ doc' = doc
          \/ /\ doc[run[w].at].life \notin {"none", "gone"}
             /\ doc' = [doc EXCEPT ![run[w].at].life = "processing"]
      BY <2>2 DEF MarkProcessing, Become, Exists
    <3> QED BY <3>1, <2>1, <1>4 DEF Exists
  <2>3. CASE MarkReady(w)
    <3>1. \/ doc' = doc
          \/ /\ doc[run[w].at].life \notin {"none", "gone"}
             /\ doc' = [doc EXCEPT ![run[w].at].life = "ready"]
      BY <2>3 DEF MarkReady, Become, Exists
    <3> QED BY <3>1, <2>1, <1>4 DEF Exists
  <2>4. CASE Extract(w)
    <3>1. \/ doc' = doc
          \/ /\ doc[run[w].at].life \notin {"none", "gone"}
             /\ doc' = [doc EXCEPT ![run[w].at].chunks = TRUE]
      BY <2>4 DEF Extract, Exists
    <3> DEFINE x == [doc[d] EXCEPT !.chunks = TRUE]
    <3>2. x \in Row /\ x.life = doc[d].life
      BY <1>6 DEF Row
    <3>3. [doc EXCEPT ![d].chunks = TRUE] = [doc EXCEPT ![d] = x]
      OBVIOUS
    <3> HIDE DEF x
    <3> QED BY <3>1, <3>2, <3>3, <1>4 DEF Exists
  <2>5. CASE RestoreLifecycle(w)
    <3>1. \/ doc' = doc
          \/ /\ doc[d].life = "processing"
             /\ doc' = [doc EXCEPT ![d].life = run[w].prior]
      BY <2>5, <1>4 DEF RestoreLifecycle
    <3>2. doc[d].life = "processing" => Exists(d)
      BY DEF Exists
    <3> QED BY <3>1, <3>2, <2>1
  <2> QED BY <2>2, <2>3, <2>4, <2>5
<1>8. RowsKeep
  <2>1. CASE doc' = doc
    BY <2>1, SameRows
  <2>2. ASSUME Exists(d), NEW x \in Row, doc' = [doc EXCEPT ![d] = x],
               x.life = doc[d].life \/ x.life \in {"processing", "ready", run[w].prior}
        PROVE  RowsKeep
    <3>1. doc' \in [Docs -> Row] /\ doc'[d] = x /\ \A e \in Docs : e # d => doc'[e] = doc[e]
      BY <2>2, <1>6
    <3>2. x.life # "none" /\ doc[d].life # "gone"
      BY <2>2, <1>5 DEF Exists
    <3>3. x.life = "intake" /\ batch.status # "finalized" => doc[d].life = "intake"
      BY <2>2, <1>5
    <3> QED BY <3>1, <3>2, <3>3 DEF RowsKeep
  <2> QED BY <2>1, <2>2, <1>7
<1> DEFINE Goes(r) == /\ r \in Run /\ r.pc \in InHand
                     /\ r.job = run[w].job /\ r.todo = run[w].todo /\ r.at = run[w].at
                     /\ r.prior = run[w].prior /\ r.failed = run[w].failed
<1>9. ASSUME NEW pc \in InHand, NEW b \in BOOLEAN
      PROVE  /\ Goes([run[w] EXCEPT !.pc = pc])
             /\ Goes([run[w] EXCEPT !.pc = pc, !.kept = b])
             /\ Goes([run[w] EXCEPT !.pc = pc, !.good = b])
  <2>1. run[w] \in Run /\ pc \in WorkerPCs
    BY Standing DEF InHand, WorkerPCs
  <2>2. Goes([run[w] EXCEPT !.pc = pc])
    BY <2>1 DEF Run
  <2>3. Goes([run[w] EXCEPT !.pc = pc, !.kept = b])
    BY <2>1 DEF Run
  <2>4. Goes([run[w] EXCEPT !.pc = pc, !.good = b])
    BY <2>1 DEF Run
  <2> QED BY <2>2, <2>3, <2>4
<1>10. /\ "extract" \in InHand /\ "restore" \in InHand /\ "ready" \in InHand /\ "settle" \in InHand
       /\ run[w].kept \in BOOLEAN /\ doc[d].chunks \in BOOLEAN
       /\ TRUE \in BOOLEAN /\ FALSE \in BOOLEAN
  BY <1>6, Standing DEF Run, Row, InHand
<1>11. \E pc \in InHand : \/ Set(w, [run[w] EXCEPT !.pc = pc])
                          \/ \E b \in BOOLEAN : \/ Set(w, [run[w] EXCEPT !.pc = pc, !.kept = b])
                                                \/ Set(w, [run[w] EXCEPT !.pc = pc, !.good = b])
  <2>1. CASE MarkProcessing(w)
    BY <2>1, <1>4, <1>10 DEF MarkProcessing, Set, Exists
  <2>2. CASE Extract(w)
    <3>1. \/ Set(w, [run[w] EXCEPT !.pc = "ready", !.kept = TRUE])
          \/ \E kept \in {run[w].kept, run[w].kept \/ ~Exists(d)} :
                Set(w, [run[w] EXCEPT !.pc = "restore", !.kept = kept])
      BY <2>2, <1>4 DEF Extract, Exists
    <3>2. {run[w].kept, run[w].kept \/ ~Exists(d)} \subseteq BOOLEAN
      BY <1>10
    <3> QED BY <3>1, <3>2, <1>10
  <2>3. CASE MarkReady(w)
    BY <2>3, <1>10 DEF MarkReady, Set
  <2>4. CASE RestoreLifecycle(w)
    BY <2>4, <1>10 DEF RestoreLifecycle, Set
  <2> QED BY <2>1, <2>2, <2>3, <2>4
<1>12. \E r \in Run : Goes(r) /\ Set(w, r)
  BY <1>9, <1>11
<1> QED BY <1>1, <1>3, <1>8, <1>12, AttemptStep

\* The item and the counters are written from memory.
LEMMA SettleItemStep ==
    ASSUME IntakeInv, NEW w \in Workers, SettleItem(w), UNCHANGED batchVars
    PROVE  IntakeInv'
<1>1. run[w].pc = "settle" /\ UNCHANGED <<doc, media, deleting, torn, doubled>>
  BY DEF SettleItem, At, docVars, rowVars
<1>2. PICK j \in JobIds : j = run[w].job /\ job[j] \in Job /\ job[j].status # "none"
  BY <1>1, HasJob
<1>3. PICK d \in Docs : d = run[w].at /\ item[j][d] # "none"
  BY <1>1, <1>2, Standing DEF PlaceOf, InHand, ItemsOf, Named
<1> DEFINE failed == run[w].failed \/ ~run[w].good
           r == [run[w] EXCEPT !.pc = "items", !.at = 0, !.prior = "none",
                               !.failed = failed, !.kept = FALSE, !.good = FALSE]
<1>4. /\ item' = [item EXCEPT ![j][d] = IF run[w].good THEN "completed" ELSE "failed"]
      /\ job' = [job EXCEPT ![j].failed = failed]
      /\ Set(w, r)
  BY <1>2, <1>3 DEF SettleItem
<1>5. failed \in BOOLEAN /\ "none" \in Lives
  BY Standing DEF Run, Lives
<1>6. /\ r \in Run /\ r.pc = "items" /\ r.job = j /\ r.todo = run[w].todo
      /\ r.failed = failed
  <2>1. run[w] \in Run /\ "items" \in WorkerPCs /\ 0 \in Docs \cup {0}
    BY Standing DEF WorkerPCs
  <2> HIDE DEF failed
  <2>2. r \in Run
    BY <2>1, <1>5 DEF Run
  <2> QED BY <2>1, <2>2, <1>2 DEF Run
<1> HIDE DEF r
<1>7. /\ item' \in [JobIds -> [Docs -> ItemStatus]]
      /\ \A k \in JobIds : k # j => item'[k] = item[k]
      /\ \A e \in Docs : e # d => item'[j][e] = item[j][e]
      /\ item'[j][d] = IF run[w].good THEN "completed" ELSE "failed"
  BY <1>4, IntakeTypes DEF ItemStatus
<1>8. /\ job' \in [JobIds -> Job] /\ job'[j].status = job[j].status
      /\ \A k \in JobIds : k # j => job'[k] = job[k]
  BY <1>2, <1>4, <1>5, IntakeTypes DEF Job
<1>9. /\ \A k \in JobIds : k # j => job'[k] = job[k] /\ item'[k] = item[k]
      /\ \A e \in Docs : item'[j][e] = "none" <=> item[j][e] = "none"
  BY <1>3, <1>7, <1>8
<1>10. PlaceOf(r)
  <2>1. run[w].todo \subseteq ItemsOf(j, Named)
    BY <1>1, <1>2, Standing DEF PlaceOf, InHand
  <2> QED BY <2>1, <1>2, <1>6, IntakeTypes DEF PlaceOf, InHand, Created
<1>11. Progress(w, j) /\ run'[w] = r => Progress(w, j)'
  <2> SUFFICES ASSUME Progress(w, j), run'[w] = r PROVE Progress(w, j)'
    OBVIOUS
  <2>1. /\ ItemsOf(j, {"queued", "running"}) \subseteq run[w].todo \cup {d}
        /\ ItemsOf(j, {"failed"}) \subseteq run[w].todo \cup {d} \/ run[w].failed
    BY <1>1, <1>3 DEF Progress, InHand
  <2>2. {e \in Docs : item'[j][e] \in {"queued", "running"}} \subseteq r.todo
    BY <2>1, <1>6, <1>7 DEF ItemsOf
  <2>3. {e \in Docs : item'[j][e] = "failed"} \subseteq r.todo \/ r.failed
    <3>1. (run[w].failed => r.failed) /\ (~run[w].good => r.failed)
      BY <1>6
    <3>2. CASE ~run[w].good
      BY <3>1, <3>2
    <3>3. CASE run[w].good
      <4>1. item'[j][d] = "completed"
        BY <3>3, <1>7
      <4>2. {e \in Docs : item'[j][e] = "failed"} \subseteq ItemsOf(j, {"failed"}) \ {d}
        BY <4>1, <1>7 DEF ItemsOf
      <4> QED BY <4>2, <3>1, <2>1, <1>6
    <3> QED BY <3>2, <3>3
  <2>4. r.pc \notin InHand /\ r.pc \notin {"claimed", "finish"}
    BY <1>6 DEF InHand
  <2> QED BY <2>2, <2>3, <2>4 DEF Progress, ItemsOf
<1>12. r.pc # "items_of" /\ RowsKeep /\ job'[j].status # "none"
  BY <1>1, <1>2, <1>6, <1>8, SameRows
<1> QED BY <1>1, <1>2, <1>4, <1>6, <1>7, <1>8, <1>9, <1>10, <1>11, <1>12, JobStep

\* The folder is built once no item is left.
LEMMA BuildStep ==
    ASSUME IntakeInv, NEW w \in Workers, BuildFolder(w), UNCHANGED batchVars
    PROVE  IntakeInv'
<1>1. /\ run[w].pc = "items" /\ run[w].todo = {}
      /\ UNCHANGED <<doc, media, deleting, item, torn, doubled>>
  BY DEF BuildFolder, At, docVars, rowVars
<1>2. PICK j \in JobIds : j = run[w].job /\ job[j] \in Job /\ job[j].status # "none"
  BY <1>1, HasJob
<1>3. PICK built \in BOOLEAN :
        job' = [job EXCEPT ![j].built = built, ![j].failed = run[w].failed \/ ~built]
  BY <1>2 DEF BuildFolder
<1> DEFINE r == [run[w] EXCEPT !.pc = "finish"]
           x == [job[j] EXCEPT !.built = built, !.failed = run[w].failed \/ ~built]
<1>4. Set(w, r)
  BY DEF BuildFolder
<1>5. r \in Run /\ r.pc = "finish" /\ r.job = j /\ r.todo = run[w].todo
  BY <1>2, Standing DEF Run, WorkerPCs
<1> HIDE DEF r
<1>6. (run[w].failed \/ ~built) \in BOOLEAN
  OBVIOUS
<1>7. x \in Job /\ x.status = job[j].status /\ (x.failed <=> run[w].failed \/ ~built)
  BY <1>2, <1>6, Standing DEF Job, Run
<1>8. job' = [job EXCEPT ![j] = x]
  BY <1>2, <1>3, IntakeTypes
<1> HIDE DEF x
<1>9. /\ job' \in [JobIds -> Job] /\ job'[j] = x
      /\ \A k \in JobIds : k # j => job'[k] = job[k]
  BY <1>7, <1>8, IntakeTypes
<1>10. PlaceOf(r)
  BY <1>2, <1>5, IntakeTypes DEF PlaceOf, InHand, Created
<1>11. Progress(w, j) /\ run'[w] = r => Progress(w, j)'
  <2> SUFFICES ASSUME Progress(w, j), run'[w] = r PROVE Progress(w, j)'
    OBVIOUS
  <2>1. ItemsOf(j, {"queued", "running"}) = {} /\ (ItemsOf(j, {"failed"}) = {} \/ run[w].failed)
    BY <1>1 DEF Progress
  <2>2. ItemsOf(j, {"failed"}) = {} \/ job'[j].failed
    BY <2>1, <1>7, <1>9
  <2>3. r.pc \notin InHand /\ r.pc \notin {"claimed", "items"}
    BY <1>5 DEF InHand
  <2> QED BY <2>1, <2>2, <2>3, <1>1 DEF Progress, ItemsOf
<1>12. r.pc # "items_of" /\ RowsKeep /\ job'[j].status = job[j].status /\ job'[j].status # "none"
  BY <1>1, <1>2, <1>5, <1>7, <1>9, SameRows
<1>13. item' \in [JobIds -> [Docs -> ItemStatus]]
  BY <1>1, IntakeTypes
<1> QED BY <1>1, <1>2, <1>4, <1>5, <1>9, <1>10, <1>11, <1>12, <1>13, JobStep

\* The row is read again, and decides.
LEMMA FinishStep ==
    ASSUME IntakeInv, NEW w \in Workers, Finish(w), UNCHANGED batchVars
    PROVE  IntakeInv'
<1>1. /\ run[w].pc = "finish" /\ Set(w, Idle)
      /\ UNCHANGED <<doc, media, deleting, item, torn, doubled>>
  BY DEF Finish, At, docVars, rowVars
<1>2. PICK j \in JobIds : j = run[w].job /\ job[j] \in Job /\ job[j].status # "none"
  BY <1>1, HasJob
<1>3. job' = [job EXCEPT ![j].status = IF job[j].failed THEN "failed" ELSE "completed"]
  BY <1>2 DEF Finish
<1>4. /\ job' \in [JobIds -> Job]
      /\ job'[j].status = IF job[j].failed THEN "failed" ELSE "completed"
      /\ \A k \in JobIds : k # j => job'[k] = job[k]
  BY <1>3, IntakeTypes DEF Job, JobStatus
<1>5. Progress(w, j) /\ job'[j].status = "completed" =>
         ItemsOf(j, {"queued", "running", "failed"})' = {}
  <2>1. Progress(w, j) /\ job'[j].status = "completed" =>
           ItemsOf(j, {"queued", "running"}) = {} /\ ItemsOf(j, {"failed"}) = {}
    BY <1>1, <1>4 DEF Progress
  <2> QED BY <2>1, <1>1 DEF ItemsOf
<1>6. Idle \in Run /\ Idle.job = 0 /\ PlaceOf(Idle) /\ Idle.job # j
  BY AtRest, IntakeTypes
<1>7. RowsKeep /\ job'[j].status \notin {"none", "queued"}
  BY <1>1, <1>4, SameRows
<1>8. j \notin torn \cup doubled /\ Progress(w, j) =>
         IF Idle.job = j THEN run'[w] = Idle => Progress(w, j)'
         ELSE /\ job'[j].status = "queued" => ItemsOf(j, {"running"})' = {}
              /\ job'[j].status = "completed" => ItemsOf(j, {"queued", "running", "failed"})' = {}
  BY <1>5, <1>6, <1>7
<1>9. item' \in [JobIds -> [Docs -> ItemStatus]]
  BY <1>1, IntakeTypes
<1>10. /\ \A k \in JobIds : k # j => job'[k] = job[k] /\ item'[k] = item[k]
       /\ \A d \in Docs : item'[j][d] = "none" <=> item[j][d] = "none"
  BY <1>1, <1>4
<1> QED BY <1>1, <1>2, <1>4, <1>6, <1>7, <1>8, <1>9, <1>10, JobStep

\* Troubles outside the items, and the death of the process.
LEMMA TroubleStep ==
    ASSUME IntakeInv, NEW w \in Workers, FailUnhandled(w) \/ Crash(w), UNCHANGED batchVars
    PROVE  IntakeInv'
<1>1. CASE FailUnhandled(w)
  <2>1. /\ EndFailed(w) /\ run[w].pc \notin {"down", "idle", "orphans", "items_of"}
        /\ UNCHANGED <<doc, media, deleting, item, torn, doubled>>
    BY <1>1 DEF FailUnhandled, rowVars
  <2>2. item' \in [JobIds -> [Docs -> ItemStatus]]
    BY <2>1, IntakeTypes
  <2> QED BY <2>1, <2>2, GiveUp
<1>2. CASE Crash(w)
  <2>1. /\ Set(w, Down) /\ UNCHANGED <<doc, media, deleting, job, item, doubled>>
        /\ torn' = IF run[w].pc = "items_of" THEN torn \cup {run[w].job} ELSE torn
    BY <1>2 DEF Crash, At, rowVars
  <2>2. PICK own \in JobIds \cup {0} : own = run[w].job
    BY Standing
  <2>3. run[w].pc = "items_of" => own \in JobIds
    BY <2>2, Standing DEF PlaceOf
  <2>4. torn \subseteq torn' /\ torn' \subseteq JobIds /\ doubled' \subseteq JobIds
    BY <2>1, <2>2, <2>3, IntakeTypes
  <2>5. ASSUME own \in JobIds \ (torn' \cup doubled') PROVE OnceAt(own)'
    <3>1. run[w].pc # "items_of" /\ own \notin torn \cup doubled /\ own # 0
      BY <2>1, <2>2, <2>5, IntakeTypes
    <3>2. job[own].status = "running" /\ \A v \in Workers : v # w => run[v].job # own
      BY <3>1, <2>2, <2>5, InHandAlone
    <3>3. run'[w] = Down /\ \A v \in Workers : v # w => run'[v] = run[v]
      BY <2>1, AtRest, IntakeTypes, Moves
    <3>4. run'[w].job # own /\ job'[own].status = "running"
      BY <2>1, <3>1, <3>2, <3>3, AtRest
    <3> QED BY <2>5, <3>2, <3>3, <3>4, LeftJob
  <2>6. OnceInv'
    BY <2>1, <2>2, <2>4, <2>5, AtRest, OneJob
  <2>7. Created' = Created
    BY <2>1 DEF Created
  <2>8. RowsKeep
    BY <2>1, SameRows
  <2>9. job' \in [JobIds -> Job] /\ item' \in [JobIds -> [Docs -> ItemStatus]]
    BY <2>1, IntakeTypes
  <2>10. \A k \in JobIds, d \in Docs : item'[k][d] = "none" <=> item[k][d] = "none"
    BY <2>1
  <2>11. UNCHANGED <<batchVars, media, deleting>>
    BY <2>1
  <2>12. /\ IntakeTypeOK' /\ CreatedInv' /\ PlaceInv' /\ RowInv' /\ BatchJobInv'
         /\ SingleInv' /\ ManifestInv'
    BY <2>1, <2>4, <2>7, <2>8, <2>9, <2>10, <2>11, AtRest, WorkerMoves
  <2> QED BY <2>6, <2>12 DEF IntakeInv
<1> QED BY <1>1, <1>2

-----------------------------------------------------------------------------
\* Every step of the batch, of administrators and of workers.
LEMMA IntakeSteps == IntakeInv /\ [IntakeNext]_intakeVars => IntakeInv'
<1> SUFFICES ASSUME IntakeInv, [IntakeNext]_intakeVars PROVE IntakeInv'
  OBVIOUS
<1>1. CASE BatchNext
  BY <1>1, BatchRows
<1>2. CASE LifecycleNext /\ UNCHANGED batchVars
  <2>1. Operated \subseteq Docs
    BY OperatedAssumption
  <2>2. ASSUME NEW d \in Operated, DocNext(d), UNCHANGED jobVars PROVE IntakeInv'
    BY <2>1, <2>2, <1>2, DecisionStep
  <2>3. ASSUME NEW d \in Operated, RetryProcessing(d) PROVE IntakeInv'
    BY <2>1, <2>3, <1>2, RequestStep
  <2>4. ASSUME NEW d \in Docs, DashboardUpload(d) PROVE IntakeInv'
    BY <2>4, <1>2, RequestStep
  <2> QED BY <2>2, <2>3, <2>4, <1>2 DEF LifecycleNext
<1>3. ASSUME NEW w \in Workers, WorkerStep(w) \/ WorkerTrouble(w), UNCHANGED batchVars
      PROVE  IntakeInv'
  <2>1. CASE StartWorker(w) \/ RequeueOrphan(w) \/ RequeueItems(w) \/ ClaimNextJob(w)
    BY <2>1, <1>3, StartStep, OrphanStep, OrphanItemsStep, ClaimStep
  <2>2. CASE Defer(w) \/ ListItems(w) \/ StartItem(w) \/ SettleItem(w)
    BY <2>2, <1>3, DeferStep, ListStep, StartItemStep, SettleItemStep
  <2>3. CASE MarkProcessing(w) \/ Extract(w) \/ MarkReady(w) \/ RestoreLifecycle(w)
    BY <2>3, <1>3, DocumentSteps
  <2>4. CASE BuildFolder(w) \/ Finish(w)
    BY <2>4, <1>3, BuildStep, FinishStep
  <2>5. CASE FailUnhandled(w) \/ Crash(w)
    BY <2>5, <1>3, TroubleStep
  <2> QED BY <2>1, <2>2, <2>3, <2>4, <2>5, <1>3 DEF WorkerStep, WorkerTrouble, ItemStep
<1>4. CASE UNCHANGED intakeVars
  <2>1. /\ UNCHANGED <<doc, media, deleting, receipt, batch>> /\ UNCHANGED jobVars
    BY <1>4 DEF intakeVars, docVars, rowVars, batchVars
  <2>2. RowsKeep
    BY <2>1, SameRows
  <2>3. BatchKeeps
    BY <2>1, IntakeTypes DEF BatchKeeps
  <2>4. /\ media' \subseteq Docs /\ deleting' \subseteq Docs
        /\ \A d \in Docs : doc'[d].life = "none" => receipt'[d] = "none"
    BY <2>1 DEF IntakeInv, IntakeTypeOK, RowInv
  <2> QED BY <2>1, <2>2, <2>3, <2>4, RowsStep
<1> QED BY <1>1, <1>2, <1>3, <1>4 DEF IntakeNext, JobNext

\* The invariant holds in every reachable state.
LEMMA IntakeInvariant == IntakeSpec => []IntakeInv
<1> QED BY IntakeStarts, IntakeSteps, PTL DEF IntakeSpec

\* Rows, jobs, items, batch and workers keep their types.
THEOREM IntakeTypeCorrect == IntakeSpec => []IntakeTypeOK
<1>1. IntakeInv => IntakeTypeOK
  BY DEF IntakeInv
<1> QED BY <1>1, IntakeInvariant, PTL

\* A job that reports success has processed every document it was queued for,
\* however workers crash, recover it and retry its items.
THEOREM CompletedComplete == IntakeSpec => []CompletedJobsAreComplete
<1>1. IntakeInv => CompletedJobsAreComplete
  BY DEF IntakeInv, OnceInv, OnceAt, CompletedJobsAreComplete
<1> QED BY <1>1, IntakeInvariant, PTL

\* The manifest of a finalized batch and the items of its job stay the same
\* documents, and every other job is for one document.
THEOREM ManifestKept == IntakeSpec => []FinalizedManifestIsKept
<1>1. IntakeInv => FinalizedManifestIsKept
  <2> SUFFICES ASSUME IntakeInv, batch.job # 0 PROVE FinalizedManifestIsKept
    BY DEF FinalizedManifestIsKept
  <2>1. ASSUME NEW j \in Created \ {batch.job}
        PROVE  Cardinality(ItemsOf(j, ItemStatus \ {"none"})) = 1
    <3>1. PICK d \in Docs : ItemsOf(j, ItemStatus \ {"none"}) = {d}
      BY DEF IntakeInv, SingleInv, Named
    <3> QED BY <3>1, FS_Singleton
  <2> QED BY <2>1 DEF FinalizedManifestIsKept, IntakeInv, ManifestInv
<1> QED BY <1>1, IntakeInvariant, PTL

\* A row that changes nothing, or not its lifecycle, does not become searchable.
LEMMA BatchShowsNothing ==
    ASSUME IntakeInv, BatchNext, NEW d \in Docs, Exists(d), ~Searchable(d)
    PROVE  doc'[d].life \notin SearchableLives
<1>1. doc[d].life \notin SearchableLives /\ doc[d].life \notin {"none", "gone"}
  BY DEF Searchable, Exists
<1>2. CASE CreateBatch \/ BecomeDue \/ RefuseExpired \/ Finalize
  BY <1>1, <1>2 DEF CreateBatch, BecomeDue, RefuseExpired, Finalize, docVars, rowVars
<1>3. CASE Discard \/ CleanupExpired \/ \E e \in Docs : RemoveItem(e)
  <2>1. \E dead \in SUBSET Docs : RemoveDocs(dead)
    BY <1>3 DEF Discard, CleanupExpired, RemoveItem, DropReceipts, Received
  <2>2. doc'[d] = [NoRow EXCEPT !.life = "gone"] \/ doc'[d] = doc[d]
    BY <2>1 DEF RemoveDocs
  <2> QED BY <2>2, <1>1 DEF NoRow, SearchableLives
<1>4. CASE \E e \in Docs : Receive(e)
  <2>1. PICK e \in Docs : doc[e].life = "none" /\ CreateDocs({e}, "intake")
    BY <1>4 DEF Receive
  <2>2. doc'[d] = doc[d]
    BY <2>1, <1>1 DEF CreateDocs
  <2> QED BY <2>2, <1>1
<1> QED BY <1>2, <1>3, <1>4 DEF BatchNext

\* Of the decisions about a row only the two restorations make it searchable.
LEMMA DecisionShows ==
    ASSUME IntakeInv, NEW e \in Docs, DocNext(e), NEW d \in Docs, Exists(d), ~Searchable(d),
           doc'[d].life \in SearchableLives
    PROVE  Restore(d) \/ RestoreUnavailable(d)
<1>1. doc[d].life \notin SearchableLives /\ doc \in [Docs -> Row]
  BY IntakeTypes DEF Searchable
<1>2. CASE Restore(e) \/ RestoreUnavailable(e)
  <2>1. d = e
    BY <1>1, <1>2 DEF Restore, RestoreUnavailable, Become
  <2> QED BY <2>1, <1>2
<1>3. CASE DeprecateView(e) \/ ArchiveView(e) \/ RemoveFromSearch(e)
  <2>1. doc' = [doc EXCEPT ![e].life = "deprecated"] \/ doc' = [doc EXCEPT ![e].life = "archived"]
    BY <1>3 DEF DeprecateView, ArchiveView, RemoveFromSearch, Become
  <2>2. doc'[d].life \in {doc[d].life, "deprecated", "archived"}
    BY <2>1, <1>1 DEF Row
  <2> QED BY <2>2, <1>1 DEF SearchableLives
<1>4. CASE MarkUnavailable(e)
  <2>1. PICK evidence \in BOOLEAN :
          doc' = [doc EXCEPT ![e].life = "unavailable", ![e].prior = doc[e].life,
                             ![e].evidence = evidence]
    BY <1>4 DEF MarkUnavailable
  <2>2. doc'[d].life \in {doc[d].life, "unavailable"}
    BY <2>1, <1>1 DEF Row
  <2> QED BY <2>2, <1>1 DEF SearchableLives
<1>5. CASE BindEvidence(e) \/ DeleteRow(e)
  <2>1. doc'[d].life \in {doc[d].life, "gone"}
    BY <1>5, <1>1 DEF BindEvidence, DeleteRow, NoRow, Row
  <2> QED BY <2>1, <1>1 DEF SearchableLives
<1>6. CASE DeleteFile(e) \/ DeleteStops(e) \/ MediaLost(e) \/ MediaReturned(e)
  BY <1>6, <1>1 DEF DeleteFile, DeleteStops, MediaLost, MediaReturned
<1> QED BY <1>2, <1>3, <1>4, <1>5, <1>6 DEF DocNext, Decide

\* Of the steps of a worker only the two marks make a row searchable.
LEMMA WorkerShows ==
    ASSUME IntakeInv, NEW w \in Workers, WorkerStep(w) \/ WorkerTrouble(w),
           NEW d \in Docs, ~Searchable(d), doc'[d].life \in SearchableLives
    PROVE  /\ run[w].at = d /\ run[w].pc \in {"mark", "ready"}
           /\ doc[d].life = "intake" => batch.status = "finalized"
<1>1. doc[d].life \notin SearchableLives /\ doc \in [Docs -> Row]
  BY IntakeTypes DEF Searchable
<1>2. CASE MarkProcessing(w) \/ MarkReady(w)
  <2>1. run[w].pc \in {"mark", "ready"}
    BY <1>2 DEF MarkProcessing, MarkReady, At
  <2>2. PICK e \in Docs : e = run[w].at
    BY <2>1, Standing DEF PlaceOf, InHand, ItemsOf
  <2>3. \A f \in Docs : f # e => doc'[f] = doc[f]
    BY <1>1, <1>2, <2>2 DEF MarkProcessing, MarkReady, Become
  <2>4. d = e
    BY <2>3, <1>1
  <2>5. /\ run[w].job \in Created /\ item[run[w].job][d] # "none"
    BY <2>1, <2>2, <2>4, Standing DEF PlaceOf, InHand, ItemsOf, Named
  <2>6. doc[d].life = "intake" => batch.status = "finalized"
    BY <2>5 DEF IntakeInv, RowInv
  <2> QED BY <2>1, <2>2, <2>4, <2>6
<1>3. CASE Extract(w)
  <2>1. doc' = doc \/ doc' = [doc EXCEPT ![run[w].at].chunks = TRUE]
    BY <1>3 DEF Extract
  <2>2. doc'[d].life = doc[d].life
    BY <2>1, <1>1 DEF Row
  <2> QED BY <2>2, <1>1
<1>4. CASE RestoreLifecycle(w)
  <2>1. PICK e \in Docs : e = run[w].at
    BY <1>4, Standing DEF RestoreLifecycle, At, PlaceOf, InHand, ItemsOf
  <2>2. \/ doc' = doc
        \/ doc[e].life = "processing" /\ doc' = [doc EXCEPT ![e].life = run[w].prior]
    BY <1>4, <2>1 DEF RestoreLifecycle
  <2>3. doc[e].life = "processing" => e # d
    BY <1>1 DEF SearchableLives
  <2>4. doc'[d] = doc[d]
    BY <2>2, <2>3, <1>1
  <2> QED BY <2>4, <1>1
<1>5. CASE UNCHANGED doc
  BY <1>5, <1>1
<1>6. \/ UNCHANGED doc \/ MarkProcessing(w) \/ Extract(w) \/ MarkReady(w) \/ RestoreLifecycle(w)
  BY DEF WorkerStep, WorkerTrouble, ItemStep, StartWorker, RequeueOrphan, RequeueItems,
         ClaimNextJob, ListItems, StartItem, SettleItem, BuildFolder, Finish, Defer,
         FailUnhandled, Crash, docVars, rowVars
<1> QED BY <1>2, <1>3, <1>4, <1>5, <1>6

\* A hidden document becomes searchable again only when an administrator says
\* so or when a worker processes it, an intake document only in a finalized
\* batch: no recovery, retry or failed attempt does it.
THEOREM SearchableKnowingly == IntakeSpec => BecomesSearchableKnowingly
<1> DEFINE Knowingly ==
        \A d \in Docs :
          Exists(d) /\ ~Searchable(d) /\ Searchable(d)' =>
             \/ Restore(d) \/ RestoreUnavailable(d)
             \/ \E w \in Workers :
                   /\ run[w].at = d /\ run[w].pc \in {"mark", "ready"}
                   /\ doc[d].life = "intake" => batch.status = "finalized"
<1>1. IntakeInv /\ [IntakeNext]_intakeVars => [Knowingly]_intakeVars
  <2> SUFFICES ASSUME IntakeInv, IntakeNext, NEW d \in Docs,
                      Exists(d), ~Searchable(d), Searchable(d)'
               PROVE  \/ Restore(d) \/ RestoreUnavailable(d)
                      \/ \E w \in Workers :
                            /\ run[w].at = d /\ run[w].pc \in {"mark", "ready"}
                            /\ doc[d].life = "intake" => batch.status = "finalized"
    OBVIOUS
  <2>1. doc'[d].life \in SearchableLives
    BY DEF Searchable
  <2>2. CASE BatchNext
    BY <2>1, <2>2, BatchShowsNothing
  <2>3. ASSUME NEW e \in Operated, DocNext(e)
        PROVE  Restore(d) \/ RestoreUnavailable(d)
    <3>1. e \in Docs
      BY OperatedAssumption
    <3> QED BY <2>1, <2>3, <3>1, DecisionShows
  <2>4. ASSUME NEW e \in Docs, RetryProcessing(e) \/ DashboardUpload(e) PROVE FALSE
    <3>1. e # d
      BY <2>4 DEF RetryProcessing, DashboardUpload, Exists
    <3>2. doc'[d] = doc[d]
      BY <3>1, <2>4, IntakeTypes DEF RetryProcessing, DashboardUpload, Become, CreateDocs
    <3> QED BY <3>2, <2>1 DEF Searchable
  <2>5. ASSUME NEW w \in Workers, WorkerStep(w) \/ WorkerTrouble(w)
        PROVE  /\ run[w].at = d /\ run[w].pc \in {"mark", "ready"}
               /\ doc[d].life = "intake" => batch.status = "finalized"
    BY <2>1, <2>5, WorkerShows
  <2>6. Operated \subseteq Docs
    BY OperatedAssumption
  <2> QED BY <2>2, <2>3, <2>4, <2>5, <2>6 DEF IntakeNext, LifecycleNext, JobNext
<1> QED BY <1>1, IntakeInvariant, PTL DEF IntakeSpec, BecomesSearchableKnowingly
=============================================================================
