----------------------- MODULE VaultPublicationProofs -----------------------
(* Proofs about VaultPublication for every set of workers and generations.  *)
EXTENDS VaultPublication, TLAPS

\* The places at which an attempt holds, or believes to hold, the authority.
Granted == {"upload", "validate", "manifest", "row", "attest", "pointer", "previous",
            "cas", "rows"}

\* Attempts that name a manifest by its digest: a promotion from its check on,
\* a publication once its manifest is stored.
Names(r) ==
    \/ r.pc \in {"row", "attest", "pointer", "previous", "cas", "rows"}
    \/ r.op = "promote" /\ r.pc \in {"read", "take", "upload", "validate"}

\* What is known of an attempt r under the grant a: the grant was not yet used to put a
\* pointer, or the pointer it put is the one it is writing the rows of; the
\* manifest it names is stored; the pointer it saw is not later than its grant.
Local(a, r) ==
    /\ r.pc # "idle" => r.gen \in Gens
    /\ r.pc \in Granted => a.epoch > 0
    /\ r.pc \in Granted \ {"rows"} => a.epoch # pointer.epoch
    /\ Names(r) => r.digest = manifest[r.gen] /\ r.digest # 0
    /\ r.pc = "previous" => r.seen.epoch <= pointer.epoch
    /\ r.pc = "cas" => r.seen.epoch <= a.epoch
    /\ r.pc = "rows" /\ pointer.epoch = a.epoch => pointer.gen = r.gen
    /\ r.pc = "expire" => a.seen[1] = a.epoch

RunInv == \A w \in Workers : Local(auth[w], run[w])

\* An epoch is granted once, and none is ahead of the writer record's.
GrantInv ==
    /\ \A w \in Workers : auth[w].epoch <= writer.epoch
    /\ \A v, w \in Workers : auth[v].epoch = auth[w].epoch /\ auth[v].epoch # 0 => v = w
    /\ pointer.epoch <= writer.epoch

\* A row has the digest of the stored manifest, and so has an inventory.
DigestInv ==
    /\ \A g \in Gens : row[g].state # "none" => row[g].digest = manifest[g] /\ manifest[g] # 0
    /\ check # NoCheck => check.digest = manifest[check.gen] /\ check.digest # 0

CheckType ==
    /\ check \in [gen: Gens \cup {None}, seen: Pointer, digest: Nat]
    /\ check # NoCheck => check.gen \in Gens

Authoritative == {g \in Gens : row[g].state = "AUTHORITATIVE"}

\* The rows show the pointer's generation, unless a cause is named or the
\* promotion that put the pointer is about to write them.
RowsInv ==
    /\ ~apart
    /\ \A w \in Workers : At(w, "rows") => pointer.epoch # auth[w].epoch
    => Authoritative = {pointer.gen} \ {None}

\* What the steps preserve together.
IInv == TypeOK /\ CheckType /\ GrantInv /\ RunInv /\ DigestInv /\ RowsInv

-----------------------------------------------------------------------------
(* Facts about one step                                                    *)

\* The step moves no attempt and no grant but those of worker w.
Alone(w) ==
    /\ run' \in [Workers -> Run] /\ auth' \in [Workers -> Grant]
    /\ \A v \in Workers \ {w} : run'[v] = run[v] /\ auth'[v] = auth[v]

\* A manifest that is stored stays.
ManifestsKept == \A g \in Gens : manifest[g] # 0 => manifest'[g] = manifest[g]

\* The pointer stays, or worker w puts one under its own grant.
PointerLed(w) ==
    \/ pointer' = pointer
    \/ /\ pointer'.epoch = auth[w].epoch
       /\ auth[w].epoch > 0 /\ pointer.epoch <= auth[w].epoch

\* Worker w keeps its epoch, loses it, or draws one that nobody had.
GrantDrawn(w) ==
    \/ writer'.epoch = writer.epoch /\ auth'[w].epoch \in {auth[w].epoch, 0}
    \/ writer'.epoch = writer.epoch + 1 /\ auth'[w].epoch = writer'.epoch

\* The rows that are authoritative stay so, and who was about to write the
\* pointer's rows still is or leaves a cause behind.
RowsLeft(w) ==
    /\ Authoritative' = Authoritative /\ pointer' = pointer
    /\ apart => apart'
    /\ At(w, "rows") => \/ apart'
                        \/ run'[w].pc = "rows" /\ auth'[w].epoch = auth[w].epoch

\* What nobody has had yet is of its type.
LEMMA NothingTyped == NoPointer \in Pointer /\ NoGrant \in Grant /\ Idle \in Run
<1>1. NoPointer \in Pointer /\ NoGrant \in Grant
  BY DEF NoPointer, Pointer, NoGrant, Grant, ETags
<1>2. Idle \in Run
  BY <1>1 DEF Idle, Run, PCs, Ops
<1> QED BY <1>1, <1>2

\* The edits of an attempt that the actions make give an attempt.
LEMMA EditedRun ==
    ASSUME NEW r \in Run, NEW pc \in PCs
    PROVE  /\ [r EXCEPT !.pc = pc] \in Run
           /\ \A b \in BOOLEAN : /\ [r EXCEPT !.pc = pc, !.final = b] \in Run
                                 /\ [r EXCEPT !.pc = pc, !.ok = b] \in Run
           /\ \A d \in Nat : [r EXCEPT !.pc = pc, !.digest = d] \in Run
           /\ \A p \in Pointer : [r EXCEPT !.pc = pc, !.seen = p] \in Run
           /\ \A op \in Ops, g \in Gens : [r EXCEPT !.pc = pc, !.op = op, !.gen = g] \in Run
<1>1. [r EXCEPT !.pc = pc] \in Run
  BY DEF Run
<1>2. ASSUME NEW b \in BOOLEAN
      PROVE  [r EXCEPT !.pc = pc, !.final = b] \in Run /\ [r EXCEPT !.pc = pc, !.ok = b] \in Run
  BY DEF Run
<1>3. ASSUME NEW d \in Nat PROVE [r EXCEPT !.pc = pc, !.digest = d] \in Run
  BY DEF Run
<1>4. ASSUME NEW p \in Pointer PROVE [r EXCEPT !.pc = pc, !.seen = p] \in Run
  BY DEF Run
<1>5. ASSUME NEW op \in Ops, NEW g \in Gens
      PROVE  [r EXCEPT !.pc = pc, !.op = op, !.gen = g] \in Run
  BY DEF Run
<1> QED BY <1>1, <1>2, <1>3, <1>4, <1>5

\* A put of the writer record leaves its epoch.
LEMMA EditedRecord ==
    ASSUME NEW r \in Record, NEW b \in BOOLEAN
    PROVE  /\ [r EXCEPT !.rev = r.rev + 1, !.expired = b] \in Record
           /\ [r EXCEPT !.rev = r.rev + 1, !.expired = b].epoch = r.epoch
           /\ [r EXCEPT !.rev = r.rev + 1, !.expired = b].expired = b
<1>1. r.rev + 1 \in Nat
  BY DEF Record
<1> QED BY <1>1 DEF Record

\* An attempt that steps alone moves no other one.
LEMMA SteppedAlone ==
    ASSUME TypeOK, NEW w \in Workers, NEW r \in Run, Step(w, r)
    PROVE  run' \in [Workers -> Run] /\ run'[w] = r
           /\ \A v \in Workers \ {w} : run'[v] = run[v]
BY DEF TypeOK, Step

\* A grant that is replaced leaves the others.
LEMMA ReplacedGrant ==
    ASSUME TypeOK, NEW w \in Workers, NEW a \in Grant, auth' = [auth EXCEPT ![w] = a]
    PROVE  auth' \in [Workers -> Grant] /\ auth'[w] = a
           /\ \A v \in Workers \ {w} : auth'[v] = auth[v]
BY DEF TypeOK

\* What worker w's step leaves of the other attempts is still true of them.
LEMMA OthersKeep ==
    ASSUME TypeOK, GrantInv, RunInv, NEW w \in Workers, Alone(w), ManifestsKept,
           PointerLed(w), pointer' \in Pointer, Local(auth[w], run[w])'
    PROVE  RunInv'
<1> SUFFICES ASSUME NEW v \in Workers PROVE Local(auth[v], run[v])'
  BY DEF RunInv
<1>1. CASE v = w
  BY <1>1
<1>2. CASE v # w
  <2>1. run'[v] = run[v] /\ auth'[v] = auth[v]
    BY <1>2 DEF Alone
  <2>2. /\ run[v] \in Run /\ auth[v].epoch \in Nat /\ auth[w].epoch \in Nat
        /\ pointer.epoch \in Nat /\ pointer'.epoch \in Nat /\ run[v].seen.epoch \in Nat
    BY DEF TypeOK, Grant, Run, Pointer
  <2>3. Local(auth[v], run[v])
    BY DEF RunInv
  <2>4. pointer' # pointer /\ auth[v].epoch # 0 => pointer'.epoch # auth[v].epoch
    BY <1>2 DEF PointerLed, GrantInv
  <2>5. pointer.epoch <= pointer'.epoch
    BY <2>2 DEF PointerLed
  <2>6. Names(run[v]) => run[v].digest = manifest'[run[v].gen] /\ run[v].digest # 0
    BY <2>3 DEF Local, Names, ManifestsKept
  <2>7. /\ run[v].pc \in Granted \ {"rows"} => auth[v].epoch # pointer'.epoch
        /\ run[v].pc = "previous" => run[v].seen.epoch <= pointer'.epoch
    BY <2>2, <2>3, <2>4, <2>5 DEF Local, Granted
  <2>8. run[v].pc = "rows" /\ pointer'.epoch = auth[v].epoch => pointer'.gen = run[v].gen
    BY <2>2, <2>3, <2>4 DEF Local, Granted
  <2> QED BY <2>1, <2>3, <2>6, <2>7, <2>8 DEF Local, Names
<1> QED BY <1>1, <1>2

\* Epochs stay unique when one worker keeps, loses or draws one.
LEMMA GrantsKept ==
    ASSUME TypeOK, GrantInv, NEW w \in Workers, Alone(w), writer' \in Record,
           GrantDrawn(w), pointer' \in Pointer, PointerLed(w)
    PROVE  GrantInv'
<1>1. /\ \A v \in Workers : auth[v].epoch \in Nat /\ auth'[v].epoch \in Nat
      /\ writer.epoch \in Nat /\ writer'.epoch \in Nat /\ pointer.epoch \in Nat
    BY DEF TypeOK, Alone, Grant, Record, Pointer
<1>2. \A v \in Workers : v # w => auth'[v].epoch = auth[v].epoch
    BY DEF Alone
<1>3. \A v \in Workers : auth'[v].epoch <= writer'.epoch
    BY <1>1, <1>2 DEF GrantDrawn, GrantInv
<1>4. \A v \in Workers : v # w /\ auth'[v].epoch = auth'[w].epoch => auth'[v].epoch = 0
    BY <1>1, <1>2 DEF GrantDrawn, GrantInv
<1>5. \A u, v \in Workers : auth'[u].epoch = auth'[v].epoch /\ auth'[u].epoch # 0 => u = v
    BY <1>2, <1>4 DEF GrantInv
<1>6. pointer'.epoch <= writer'.epoch
    BY <1>1 DEF GrantDrawn, GrantInv, PointerLed
<1> QED BY <1>3, <1>5, <1>6 DEF GrantInv

\* The rows are exact after the step if they were before it.
LEMMA RowsKept ==
    ASSUME RowsInv, NEW w \in Workers, Alone(w), RowsLeft(w)
    PROVE  RowsInv'
<1> SUFFICES ASSUME ~apart', \A v \in Workers : At(v, "rows")' => pointer'.epoch # auth'[v].epoch
             PROVE  Authoritative' = {pointer'.gen} \ {None}
  BY DEF RowsInv
<1>1. \A v \in Workers : At(v, "rows") => pointer.epoch # auth[v].epoch
  BY DEF RowsLeft, Alone, At
<1> QED BY <1>1 DEF RowsInv, RowsLeft

-----------------------------------------------------------------------------
(* Init and the steps                                                      *)

\* One generation is published, nothing is promoted and nobody is at work.
LEMMA InitInv == Init => IInv
<1> SUFFICES ASSUME Init PROVE IInv
  OBVIOUS
<1> USE DEF Init, WriterInit
<1>1. NoPointer \in Pointer /\ NoGrant \in Grant /\ NoPointer.epoch = 0 /\ NoPointer.gen = None
  BY DEF NoPointer, Pointer, NoGrant, Grant, ETags
<1>2. Idle \in Run /\ Idle.pc = "idle"
  BY <1>1 DEF Idle, Run, PCs, Ops
<1>3. job \in [Ops -> [Gens -> Job]]
  BY DEF Job
<1>4. TypeOK
  BY <1>1, <1>2, <1>3, FirstAssumption DEF TypeOK, Record, Row
<1>5. CheckType
  BY <1>1 DEF CheckType, NoCheck
<1>6. GrantInv
  BY <1>1 DEF GrantInv, NoGrant
<1>7. RunInv
  BY <1>2 DEF RunInv, Local, Granted, Names, Idle
<1>8. DigestInv
  BY DEF DigestInv
<1>9. RowsInv
  BY <1>1 DEF RowsInv, Authoritative
<1> QED BY <1>4, <1>5, <1>6, <1>7, <1>8, <1>9 DEF IInv

\* An attempt that goes on and leaves store, rows and inventory alone.
LEMMA Stepped ==
    ASSUME IInv, NEW w \in Workers, NEW r \in Run, Step(w, r), Local(auth[w], run[w])',
           auth' \in [Workers -> Grant], \A v \in Workers \ {w} : auth'[v] = auth[v],
           writer' \in Record, GrantDrawn(w),
           job' \in [Ops -> [Gens -> Job]], UNCHANGED <<store, rows, check>>,
           apart => apart',
           At(w, "rows") => apart' \/ (r.pc = "rows" /\ auth'[w].epoch = auth[w].epoch)
    PROVE  IInv'
<1> USE DEF IInv, store, rows
<1>1. run' \in [Workers -> Run] /\ run'[w] = r /\ Alone(w)
  BY SteppedAlone DEF Alone
<1>2. TypeOK'
  BY <1>1 DEF TypeOK
<1>3. CheckType' /\ DigestInv'
  BY DEF CheckType, DigestInv
<1>4. ManifestsKept /\ PointerLed(w) /\ pointer' \in Pointer
  BY DEF ManifestsKept, PointerLed, TypeOK
<1>6. RunInv'
  BY <1>1, <1>4, OthersKeep
<1>7. GrantInv'
  BY <1>1, <1>4, GrantsKept
<1>8. RowsLeft(w)
  BY <1>1 DEF RowsLeft, Authoritative
<1>9. RowsInv'
  BY <1>1, <1>8, RowsKept
<1> QED BY <1>2, <1>3, <1>6, <1>7, <1>9

\* The attempts that change nothing but jobs and themselves.
RunOnly(w) ==
    \/ \E op \in Ops, g \in Gens : Claim(w, op, g)
    \/ CheckCandidate(w) \/ UploadObjects(w) \/ ReadPointer(w) \/ ComparePointer(w)
    \/ Complete(w) \/ Trouble(w)

\* Their special case: the grants stay as well.
LEMMA SteppedOnly ==
    ASSUME IInv, NEW w \in Workers, NEW r \in Run, Step(w, r), Local(auth[w], r),
           UNCHANGED <<writerVars, store, rows, check>>, job' \in [Ops -> [Gens -> Job]],
           apart => apart', At(w, "rows") => apart'
    PROVE  IInv'
<1>1. Local(auth[w], run[w])'
  <2>1. run'[w] = r
    BY SteppedAlone DEF IInv
  <2> QED BY <2>1 DEF Local, Names, writerVars, store
<1>2. GrantDrawn(w)
  BY DEF GrantDrawn, writerVars
<1>3. /\ auth' \in [Workers -> Grant] /\ \A v \in Workers \ {w} : auth'[v] = auth[v]
      /\ writer' \in Record
  BY DEF writerVars, IInv, TypeOK
<1>4. UNCHANGED <<store, rows, check>>
  OBVIOUS
<1> QED BY <1>1, <1>2, <1>3, <1>4, Stepped

\* Jobs, checks and readings keep the invariant.
LEMMA RunOnlyStep ==
    ASSUME IInv, NEW w \in Workers, RunOnly(w)
    PROVE  IInv' /\ UNCHANGED <<writerVars, store>>
<1>1. UNCHANGED <<writerVars, store, rows, check>>
  BY DEF RunOnly, Claim, CheckCandidate, UploadObjects, ReadPointer, ComparePointer,
         Complete, Trouble, bounds
<1> SUFFICES IInv'
  BY <1>1
<1>2. job' \in [Ops -> [Gens -> Job]]
  <2>1. job \in [Ops -> [Gens -> Job]] /\ run[w] \in Run
    BY DEF IInv, TypeOK
  <2>2. CASE \E op \in Ops, g \in Gens : Claim(w, op, g)
    BY <2>1, <2>2 DEF Claim, Job
  <2>3. CASE Complete(w)
    BY <2>1, <2>3 DEF Complete, Job
  <2>4. CASE job' = job
    BY <2>1, <2>4
  <2> QED BY <2>2, <2>3, <2>4
          DEF RunOnly, CheckCandidate, UploadObjects, ReadPointer, ComparePointer, Trouble
<1>3. (apart => apart') /\ (At(w, "rows") => apart')
  <2>1. CASE Trouble(w)
    BY <2>1 DEF Trouble
  <2>2. CASE apart' = apart /\ ~At(w, "rows")
    BY <2>2
  <2> QED BY <2>1, <2>2
          DEF RunOnly, Claim, CheckCandidate, UploadObjects, ReadPointer, ComparePointer,
              Complete, At, bounds
<1>4. ASSUME NEW r \in Run, Step(w, r), Local(auth[w], r)
      PROVE  IInv'
  BY <1>1, <1>2, <1>3, <1>4, SteppedOnly
<1>5. /\ run[w] \in Run /\ Local(auth[w], run[w])
      /\ auth[w].epoch \in Nat /\ pointer \in Pointer /\ pointer.epoch \in Nat
  BY DEF IInv, TypeOK, RunInv, Grant, Pointer
<1>6. CASE \E op \in Ops, g \in Gens : Claim(w, op, g)
  <2> PICK op \in Ops, g \in Gens : Claim(w, op, g)
    BY <1>6
  <2> DEFINE pc == IF op = "publish" THEN "read" ELSE "check"
             r  == [Idle EXCEPT !.pc = pc, !.op = op, !.gen = g]
  <2>1. Step(w, r)
    BY DEF Claim
  <2>2. pc \in PCs
    BY DEF PCs
  <2>3. r \in Run
    <3> HIDE DEF pc
    <3> QED BY <2>2, EditedRun, NothingTyped
  <2>4. Local(auth[w], r)
    BY DEF Local, Names, Granted, Idle
  <2> HIDE DEF r
  <2> QED BY <1>4, <2>1, <2>3, <2>4
<1>7. CASE CheckCandidate(w)
  <2> DEFINE r == [run[w] EXCEPT !.pc = "read", !.digest = row[run[w].gen].digest]
             q(b) == [run[w] EXCEPT !.pc = "complete", !.final = b]
  <2>1. run[w].gen \in Gens /\ run[w].pc = "check"
    BY <1>5, <1>7 DEF CheckCandidate, At, Local
  <2>2. row[run[w].gen].digest \in Nat
    BY <2>1 DEF IInv, TypeOK, Row
  <2>3. r \in Run /\ q(TRUE) \in Run /\ q(FALSE) \in Run
    BY <1>5, <2>2, EditedRun DEF PCs
  <2>4. Local(auth[w], q(TRUE)) /\ Local(auth[w], q(FALSE))
    BY <1>5, <2>1 DEF Local, Names, Granted, Run
  <2>5. CASE Step(w, r) /\ row[run[w].gen].state = "CANDIDATE"
    <3>1. row[run[w].gen].digest = manifest[run[w].gen] /\ manifest[run[w].gen] # 0
      BY <2>1, <2>5 DEF IInv, DigestInv
    <3>2. Local(auth[w], r)
      BY <1>5, <2>1, <3>1 DEF Local, Names, Granted, Run
    <3> HIDE DEF r
    <3> QED BY <1>4, <2>3, <2>5, <3>2
  <2>6. CASE Step(w, q(TRUE)) \/ Step(w, q(FALSE))
    <3> HIDE DEF q
    <3> QED BY <1>4, <2>3, <2>4, <2>6
  <2> QED BY <1>7, <2>5, <2>6 DEF CheckCandidate, Refuse
<1>8. CASE UploadObjects(w) \/ ReadPointer(w) \/ ComparePointer(w) \/ Trouble(w)
  <2> DEFINE q(pc) == [run[w] EXCEPT !.pc = pc]
             r == [run[w] EXCEPT !.pc = "previous", !.seen = pointer]
  <2>1. r \in Run /\ \A pc \in PCs : q(pc) \in Run
    BY <1>5, EditedRun DEF PCs
  <2>2. run[w].pc # "idle" /\ run[w].gen \in Gens
    BY <1>5, <1>8 DEF UploadObjects, ReadPointer, ComparePointer, Trouble, At, Local
  <2>3. Local(auth[w], q("complete")) /\ Local(auth[w], q("release"))
    BY <1>5, <2>2 DEF Local, Names, Granted, Run
  <2>4. CASE UploadObjects(w) /\ Step(w, q("validate"))
    <3>1. Local(auth[w], q("validate"))
      BY <1>5, <2>2, <2>4 DEF UploadObjects, At, Local, Names, Granted, Run
    <3> HIDE DEF q
    <3> QED BY <1>4, <2>1, <2>4, <3>1 DEF PCs
  <2>5. CASE ReadPointer(w)
    <3>1. Local(auth[w], r)
      BY <1>5, <2>2, <2>5 DEF ReadPointer, At, Local, Names, Granted, Run
    <3>2. Step(w, r)
      BY <2>5 DEF ReadPointer
    <3> HIDE DEF r
    <3> QED BY <1>4, <2>1, <3>1, <3>2
  <2>6. CASE ComparePointer(w) /\ Step(w, q("cas"))
    <3>1. run[w].seen.epoch <= auth[w].epoch
      <4>1. run[w].seen.epoch <= pointer.epoch /\ run[w].seen.epoch \in Nat
        BY <1>5, <2>6 DEF ComparePointer, At, Local, Run, Pointer
      <4>2. pointer = NoPointer \/ ~(auth[w].epoch < pointer.epoch)
        BY <2>6 DEF ComparePointer, Raise, Goto, Step, IInv, TypeOK, Run
      <4> QED BY <1>5, <4>1, <4>2 DEF NoPointer
    <3>2. Local(auth[w], q("cas"))
      BY <1>5, <2>2, <2>6, <3>1 DEF ComparePointer, At, Local, Names, Granted, Run
    <3> HIDE DEF q
    <3> QED BY <1>4, <2>1, <2>6, <3>2 DEF PCs
  <2>7. CASE Step(w, q("complete")) \/ Step(w, q("release"))
    <3> HIDE DEF q
    <3> QED BY <1>4, <2>1, <2>3, <2>7 DEF PCs
  <2> QED BY <1>8, <2>4, <2>5, <2>6, <2>7
          DEF UploadObjects, ComparePointer, Trouble, Goto, Raise
<1>9. CASE Complete(w)
  <2>1. Idle \in Run /\ Step(w, Idle) /\ Local(auth[w], Idle)
    BY <1>9, NothingTyped DEF Complete, Local, Names, Granted, Idle
  <2> QED BY <1>4, <2>1
<1> QED BY <1>6, <1>7, <1>8, <1>9 DEF RunOnly

\* A grant that changes as its holder goes on.
LEMMA SteppedGrant ==
    ASSUME IInv, NEW w \in Workers, NEW r \in Run, Step(w, r),
           NEW a \in Grant, auth' = [auth EXCEPT ![w] = a], writer' \in Record,
           \/ writer'.epoch = writer.epoch /\ a.epoch \in {auth[w].epoch, 0}
           \/ writer'.epoch = writer.epoch + 1 /\ a.epoch = writer'.epoch,
           Local(a, r), UNCHANGED <<store, rows, job, check>>,
           apart => apart', At(w, "rows") => apart'
    PROVE  IInv'
<1>1. auth' \in [Workers -> Grant] /\ auth'[w] = a /\ \A v \in Workers \ {w} : auth'[v] = auth[v]
  BY ReplacedGrant DEF IInv
<1>2. run'[w] = r
  BY SteppedAlone DEF IInv
<1>3. Local(auth[w], run[w])'
  BY <1>1, <1>2 DEF Local, Names, store
<1>4. GrantDrawn(w)
  BY <1>1 DEF GrantDrawn
<1>5. job' \in [Ops -> [Gens -> Job]] /\ UNCHANGED <<store, rows, check>>
  BY DEF IInv, TypeOK
<1> QED BY <1>1, <1>3, <1>4, <1>5, Stepped

\* The attempts that read or write the authority.
GrantOnly(w) ==
    \/ Acquire(w) \/ AcquireUnanswered(w) \/ RenewGrant(w) \/ ValidateGrant(w)
    \/ ReleaseGrant(w) \/ Crash(w)

\* So do the readings and puts of the authority; the only grant that one of
\* them ends is that of its own holder.
LEMMA GrantStep ==
    ASSUME IInv, NEW w \in Workers, GrantOnly(w)
    PROVE  /\ IInv' /\ UNCHANGED store
           /\ ~writer.expired /\ writer'.expired => At(w, "expire") /\ auth[w].epoch = writer.epoch
<1>1. UNCHANGED <<store, rows, job, check>>
  BY DEF GrantOnly, Acquire, AcquireUnanswered, RenewGrant, ValidateGrant, ReleaseGrant, Crash
<1>2. (apart => apart') /\ (At(w, "rows") => apart')
  <2>1. CASE Crash(w)
    BY <2>1 DEF Crash
  <2>2. CASE apart' = apart /\ ~At(w, "rows")
    BY <2>2
  <2> QED BY <2>1, <2>2
          DEF GrantOnly, Acquire, AcquireUnanswered, RenewGrant, ValidateGrant, ReleaseGrant, At
<1>3. /\ run[w] \in Run /\ auth[w] \in Grant /\ writer \in Record /\ auth[w].epoch \in Nat
      /\ auth[w].rev \in Nat /\ auth[w].seen \in ETags /\ ETag \in ETags /\ pointer.epoch \in Nat
      /\ writer.epoch \in Nat /\ writer.rev \in Nat /\ auth[w].seen[1] \in Nat
  BY DEF IInv, TypeOK, Grant, Record, ETag, ETags, Pointer
<1>4. Local(auth[w], run[w]) /\ pointer.epoch <= writer.epoch
  BY DEF IInv, RunInv, GrantInv
<1>12. ASSUME ~writer.expired, writer'.expired
       PROVE  At(w, "expire") /\ auth[w].epoch = writer.epoch
  <2>1. ~AcquireRead(w) /\ ~Validate(w) /\ ~ReleaseRead(w)
        /\ ~UNCHANGED writer /\ ~UNCHANGED writerVars
    BY <1>12 DEF AcquireRead, Validate, ReleaseRead, writerVars
  <2>4. ~AcquirePut(w) /\ ~Renew(w)
    <3>1. [writer EXCEPT !.rev = writer.rev + 1, !.expired = FALSE].expired = FALSE
      BY <1>3, EditedRecord
    <3>2. ~AcquirePut(w)
      BY <1>12 DEF AcquirePut
    <3>3. ~Renew(w)
      BY <1>12, <3>1 DEF Renew
    <3> QED BY <3>2, <3>3
  <2>2. At(w, "expire") /\ ReleasePut(w)
    BY <2>1, <2>4
    DEF GrantOnly, Acquire, AcquireUnanswered, RenewGrant, ValidateGrant, ReleaseGrant, Crash
  <2>3. auth[w].seen = ETag
    BY <1>12, <2>2 DEF ReleasePut
  <2> QED BY <1>3, <1>4, <2>2, <2>3 DEF Local, At, ETag
<1> SUFFICES IInv'
  BY <1>1, <1>12
<1>5. ASSUME NEW r \in Run, Step(w, r), NEW a \in Grant, auth' = [auth EXCEPT ![w] = a],
             writer' \in Record, Local(a, r),
             \/ writer'.epoch = writer.epoch /\ a.epoch \in {auth[w].epoch, 0}
             \/ writer'.epoch = writer.epoch + 1 /\ a.epoch = writer'.epoch
      PROVE  IInv'
  BY <1>1, <1>2, <1>5, SteppedGrant
<1>6. ASSUME NEW r \in Run, Step(w, r), Local(auth[w], r), UNCHANGED writerVars
      PROVE  IInv'
  <2>1. job' \in [Ops -> [Gens -> Job]] /\ UNCHANGED <<writerVars, store, rows, check>>
    BY <1>1, <1>6 DEF IInv, TypeOK
  <2> QED BY <1>2, <1>6, <2>1, SteppedOnly
<1> DEFINE q(pc) == [run[w] EXCEPT !.pc = pc]
           f == [run[w] EXCEPT !.pc = "complete", !.final = FALSE]
<1>7. f \in Run /\ \A pc \in PCs : q(pc) \in Run
  <2>1. run[w] \in Run /\ "complete" \in PCs /\ FALSE \in BOOLEAN
    BY <1>3 DEF PCs
  <2>2. f \in Run
    BY <2>1, EditedRun
  <2>3. \A pc \in PCs : q(pc) \in Run
    BY <2>1, EditedRun
  <2> QED BY <2>2, <2>3
<1> DEFINE read == [NoGrant EXCEPT !.seen = ETag]
           drawn == [epoch |-> auth[w].seen[1] + 1, rev |-> 0, seen |-> auth[w].seen]
<1>8. CASE Acquire(w) \/ AcquireUnanswered(w)
  <2>1. run[w].pc \in {"read", "take"} /\ run[w].gen \in Gens
    BY <1>4, <1>8 DEF Acquire, AcquireUnanswered, At, Local
  <2>2. \A a \in Grant : Local(a, f)
    BY <1>3, <1>4, <2>1 DEF Local, Names, Granted, Run
  <2>3. CASE AcquireRead(w) /\ Step(w, q("take"))
    <3>1. read \in Grant /\ read.epoch = 0
      BY <1>3, NothingTyped DEF Grant, NoGrant
    <3>2. auth' = [auth EXCEPT ![w] = read] /\ writer' = writer
      BY <2>3 DEF AcquireRead
    <3>3. Local(read, q("take"))
      BY <1>3, <1>4, <2>1 DEF Local, Names, Granted, Run
    <3> HIDE DEF q, read
    <3> QED BY <1>3, <1>5, <1>7, <2>3, <3>1, <3>2, <3>3 DEF PCs
  <2>4. CASE AcquirePut(w) /\ (Step(w, q("upload")) \/ Step(w, q("validate")) \/ Step(w, f))
    <3>1. drawn \in Grant /\ drawn.epoch = writer.epoch + 1 /\ auth' = [auth EXCEPT ![w] = drawn]
      BY <1>3, <2>4 DEF AcquirePut, CanAcquire, ETag, Grant
    <3>2. writer' \in Record /\ writer'.epoch = writer.epoch + 1
      BY <1>3, <2>4 DEF AcquirePut, CanAcquire, ETag, Record
    <3>3. Local(drawn, q("upload")) /\ Local(drawn, q("validate"))
      <4>1. drawn.epoch > 0 /\ drawn.epoch # pointer.epoch
        BY <1>3, <1>4, <3>1
      <4> HIDE DEF drawn
      <4> QED BY <1>3, <1>4, <2>1, <4>1 DEF Local, Names, Granted, Run
    <3> HIDE DEF q, drawn, f
    <3> QED BY <1>5, <1>7, <2>2, <2>4, <3>1, <3>2, <3>3 DEF PCs
  <2>5. CASE Step(w, f) /\ UNCHANGED writerVars
    <3> HIDE DEF f
    <3> QED BY <1>3, <1>6, <1>7, <2>2, <2>5
  <2> QED BY <1>8, <2>3, <2>4, <2>5 DEF Acquire, AcquireUnanswered, Goto, Refuse
<1>9. CASE RenewGrant(w) \/ ValidateGrant(w)
  <2>1. run[w].pc \in {"upload", "validate"} /\ run[w].gen \in Gens
    BY <1>4, <1>9 DEF RenewGrant, ValidateGrant, At, Local
  <2>2. Local(auth[w], q("release"))
    BY <1>3, <1>4, <2>1 DEF Local, Names, Granted, Run
  <2>3. CASE Renew(w) /\ UNCHANGED run
    <3> DEFINE a == [auth[w] EXCEPT !.rev = @ + 1]
    <3>1. a \in Grant /\ a.epoch = auth[w].epoch /\ auth' = [auth EXCEPT ![w] = a]
      BY <1>3, <2>3 DEF Renew, Grant
    <3>2. writer' \in Record /\ writer'.epoch = writer.epoch
      BY <1>3, <2>3, EditedRecord DEF Renew
    <3>3. Local(a, run[w])
      BY <1>3, <1>4, <1>9, <2>1, <3>1 DEF Local, Names, Granted
    <3>4. Step(w, run[w])
      BY <2>3 DEF Step, IInv, TypeOK
    <3> HIDE DEF a
    <3> QED BY <1>3, <1>5, <3>1, <3>2, <3>3, <3>4
  <2>4. CASE /\ Validate(w) /\ At(w, "validate")
             /\ Step(w, q("manifest")) \/ (run[w].op = "promote" /\ Step(w, q("pointer")))
    <3> DEFINE a == [auth[w] EXCEPT !.rev = writer.rev]
    <3>1. a \in Grant /\ a.epoch = auth[w].epoch /\ auth' = [auth EXCEPT ![w] = a]
      BY <1>3, <2>4 DEF Validate, Grant
    <3>2. writer' = writer
      BY <2>4 DEF Validate
    <3>3. Local(a, q("manifest")) /\ (run[w].op = "promote" => Local(a, q("pointer")))
      <4> HIDE DEF a
      <4> QED BY <1>3, <1>4, <2>1, <2>4, <3>1 DEF Local, Names, Granted, At, Run
    <3> HIDE DEF a, q
    <3> QED BY <1>3, <1>5, <1>7, <2>4, <3>1, <3>2, <3>3 DEF PCs
  <2>5. CASE Step(w, q("release")) /\ UNCHANGED writerVars
    <3> HIDE DEF q
    <3> QED BY <1>6, <1>7, <2>2, <2>5 DEF PCs
  <2> QED BY <1>3, <1>9, <2>3, <2>4, <2>5 DEF RenewGrant, ValidateGrant, Raise, Goto, Publishes, Run, Ops
<1>10. CASE ReleaseGrant(w)
  <2>1. run[w].pc \in {"release", "expire"} /\ run[w].gen \in Gens
    BY <1>4, <1>10 DEF ReleaseGrant, At, Local
  <2>2. \A a \in Grant : Local(a, q("complete"))
    BY <1>3, <1>4, <2>1 DEF Local, Names, Granted, Run
  <2>3. CASE ReleaseRead(w) /\ Step(w, q("expire"))
    <3> DEFINE a == [auth[w] EXCEPT !.seen = ETag]
    <3>1. a \in Grant /\ a.epoch = auth[w].epoch /\ auth' = [auth EXCEPT ![w] = a]
      BY <1>3, <2>3 DEF ReleaseRead, Grant
    <3>2. writer' = writer /\ a.seen[1] = a.epoch
      BY <1>3, <2>3 DEF ReleaseRead, CanRelease, ETag, Grant
    <3>3. Local(a, q("expire"))
      <4> HIDE DEF a
      <4> QED BY <1>3, <1>4, <2>1, <3>2 DEF Local, Names, Granted, Run
    <3> HIDE DEF a, q
    <3> QED BY <1>3, <1>5, <1>7, <2>3, <3>1, <3>2, <3>3 DEF PCs
  <2>4. CASE ReleasePut(w) /\ Step(w, q("complete"))
    <3>1. NoGrant \in Grant /\ NoGrant.epoch = 0 /\ auth' = [auth EXCEPT ![w] = NoGrant]
      BY <2>4, NothingTyped DEF ReleasePut, NoGrant
    <3>2. writer' \in Record /\ writer'.epoch = writer.epoch
      BY <1>3, <2>4, EditedRecord DEF ReleasePut
    <3> HIDE DEF q
    <3> QED BY <1>5, <1>7, <2>2, <2>4, <3>1, <3>2 DEF PCs
  <2>5. CASE Step(w, q("complete")) /\ UNCHANGED writerVars
    <3> HIDE DEF q
    <3> QED BY <1>3, <1>6, <1>7, <2>2, <2>5 DEF PCs
  <2> QED BY <1>10, <2>3, <2>4, <2>5 DEF ReleaseGrant, Goto
<1>11. CASE Crash(w)
  <2>1. Idle \in Run /\ NoGrant \in Grant /\ Local(NoGrant, Idle) /\ NoGrant.epoch = 0
    BY NothingTyped DEF Local, Names, Granted, Idle, NoGrant
  <2>2. Step(w, Idle) /\ auth' = [auth EXCEPT ![w] = NoGrant] /\ writer' = writer
    BY <1>11 DEF Crash
  <2> QED BY <1>3, <1>5, <2>1, <2>2
<1> QED BY <1>8, <1>9, <1>10, <1>11 DEF GrantOnly

-----------------------------------------------------------------------------
(* The attempts that write the store or the rows                           *)

\* What they keep of attempts and grants, whatever else they write.
LEMMA Wrote ==
    ASSUME IInv, NEW w \in Workers, NEW r \in Run, Step(w, r), UNCHANGED writerVars,
           ManifestsKept, PointerLed(w), pointer' \in Pointer, Local(auth[w], run[w])'
    PROVE  Alone(w) /\ RunInv' /\ GrantInv' /\ writer' \in Record
<1> USE DEF IInv, writerVars
<1>1. Alone(w) /\ writer' \in Record /\ GrantDrawn(w)
  BY SteppedAlone DEF Alone, TypeOK, GrantDrawn
<1>2. RunInv'
  BY <1>1, OthersKeep
<1>3. GrantInv'
  BY <1>1, GrantsKept
<1> QED BY <1>1, <1>2, <1>3

\* A manifest is put once, by the first that comes, and then only found again.
LEMMA PutManifestStep ==
    ASSUME IInv, NEW w \in Workers, PutManifest(w)
    PROVE  IInv' /\ (UNCHANGED store \/ \E g \in Gens : Line!Publish(g))
<1> DEFINE g == run[w].gen
           e == auth[w].epoch
           r == [run[w] EXCEPT !.pc = "row", !.digest = e]
           q == [run[w] EXCEPT !.pc = "release"]
<1>1. /\ run[w] \in Run /\ Local(auth[w], run[w]) /\ e \in Nat /\ manifest \in [Gens -> Nat]
      /\ pointer \in Pointer
  BY DEF IInv, TypeOK, RunInv, Grant
<1>2. g \in Gens /\ e > 0 /\ e # pointer.epoch /\ ~At(w, "rows")
  BY <1>1 DEF PutManifest, At, Local, Granted
<1>3. r \in Run /\ q \in Run
  BY <1>1, EditedRun DEF PCs
<1>4. UNCHANGED <<writerVars, pointer, rows, job, check, apart>>
  BY DEF PutManifest, bounds
<1>5. CASE Step(w, q) /\ UNCHANGED manifest
  <2>1. Local(auth[w], q)
    BY <1>1, <1>2 DEF Local, Names, Granted, Run
  <2>2. /\ UNCHANGED <<writerVars, store, rows, check>> /\ UNCHANGED store
        /\ job' \in [Ops -> [Gens -> Job]]
        /\ (apart => apart') /\ (At(w, "rows") => apart')
    BY <1>2, <1>4, <1>5 DEF IInv, TypeOK, store
  <2> HIDE DEF q
  <2> QED BY <1>3, <1>5, <2>1, <2>2, SteppedOnly
<1>6. CASE /\ manifest[g] \in {0, e} /\ manifest' = [manifest EXCEPT ![g] = e]
           /\ Step(w, r)
  <2>1. ManifestsKept /\ manifest' \in [Gens -> Nat] /\ manifest'[g] = e
    BY <1>1, <1>2, <1>6 DEF ManifestsKept
  <2>2. run'[w] = r
    <3> HIDE DEF r
    <3> QED BY <1>3, <1>6, SteppedAlone DEF IInv
  <2>3. Local(auth[w], run[w])'
    BY <1>1, <1>2, <1>4, <2>1, <2>2 DEF Local, Names, Granted, writerVars, Run
  <2>4. PointerLed(w) /\ pointer' \in Pointer /\ UNCHANGED writerVars
    BY <1>1, <1>4 DEF PointerLed
  <2>5. Alone(w) /\ RunInv' /\ GrantInv' /\ writer' \in Record
    <3> HIDE DEF r
    <3> QED BY <1>3, <1>6, <2>1, <2>3, <2>4, Wrote
  <2>6. TypeOK' /\ CheckType'
    BY <1>4, <2>1, <2>5 DEF IInv, TypeOK, CheckType, Alone, rows
  <2>7. DigestInv'
    BY <1>4, <2>1 DEF IInv, CheckType, DigestInv, ManifestsKept, rows
  <2>8. RowsInv'
    <3>1. RowsLeft(w)
      BY <1>2, <1>4 DEF RowsLeft, Authoritative, rows
    <3> QED BY <2>5, <3>1, RowsKept DEF IInv
  <2>9. UNCHANGED store \/ \E h \in Gens : Line!Publish(h)
    <3>1. CASE manifest[g] = 0
      BY <1>2, <1>4, <1>6, <2>1, <3>1 DEF Line!Publish
    <3>2. CASE manifest[g] = e
      BY <1>1, <1>2, <1>4, <1>6, <3>2 DEF store
    <3> QED BY <1>6, <3>1, <3>2
  <2> QED BY <2>5, <2>6, <2>7, <2>8, <2>9 DEF IInv
<1> QED BY <1>5, <1>6 DEF PutManifest, Raise, Goto

\* The pointer is moved from what was read to a later epoch, or not at all.
LEMMA PutPointerStep ==
    ASSUME IInv, NEW w \in Workers, PutPointer(w)
    PROVE  IInv' /\ (UNCHANGED store \/ \E g \in Gens : Line!Promote(g))
<1> DEFINE q(pc) == [run[w] EXCEPT !.pc = pc]
<1>1. /\ run[w] \in Run /\ Local(auth[w], run[w]) /\ auth[w].epoch \in Nat
      /\ pointer \in Pointer /\ pointer.epoch \in Nat /\ run[w].seen \in Pointer
      /\ run[w].digest \in Nat /\ manifest \in [Gens -> Nat]
  BY DEF IInv, TypeOK, RunInv, Grant, Pointer, Run
<1>2. /\ run[w].gen \in Gens /\ auth[w].epoch > 0 /\ auth[w].epoch # pointer.epoch
      /\ run[w].digest = manifest[run[w].gen] /\ run[w].digest # 0
      /\ run[w].seen.epoch <= auth[w].epoch /\ ~At(w, "rows")
  BY <1>1 DEF PutPointer, At, Local, Granted, Names
<1>3. \A pc \in PCs : q(pc) \in Run
  BY <1>1, EditedRun DEF PCs
<1>4. UNCHANGED <<writerVars, manifest, rows, job, check>>
  BY DEF PutPointer
<1>5. CASE Step(w, q("release")) /\ UNCHANGED <<pointer, apart>>
  <2>1. Local(auth[w], q("release"))
    BY <1>1, <1>2 DEF Local, Names, Granted, Run
  <2>2. /\ UNCHANGED <<writerVars, store, rows, check>> /\ UNCHANGED store
        /\ job' \in [Ops -> [Gens -> Job]]
        /\ (apart => apart') /\ (At(w, "rows") => apart')
    BY <1>2, <1>4, <1>5 DEF IInv, TypeOK, store
  <2> HIDE DEF q
  <2> QED BY <1>3, <1>5, <2>1, <2>2, SteppedOnly DEF PCs
<1>6. CASE /\ pointer = run[w].seen /\ pointer' = Moved(w)
           /\ \/ Step(w, q("rows"))
              \/ Step(w, q("release")) /\ apart' = TRUE
  <2>1. /\ pointer' \in Pointer /\ pointer'.epoch = auth[w].epoch /\ pointer'.gen = run[w].gen
    BY <1>1, <1>2, <1>6 DEF Moved, Pointer
  <2>2. PointerLed(w) /\ ManifestsKept /\ UNCHANGED writerVars
    BY <1>1, <1>2, <1>4, <1>6, <2>1 DEF PointerLed, ManifestsKept
  <2>3. PICK pc \in {"rows", "release"} : Step(w, q(pc)) /\ (pc = "release" => apart')
    BY <1>6
  <2>4. run'[w] = q(pc)
    <3> HIDE DEF q
    <3> QED BY <1>3, <2>3, SteppedAlone DEF IInv, PCs
  <2>5. Local(auth[w], run[w])'
    BY <1>1, <1>2, <1>4, <2>1, <2>4 DEF Local, Names, Granted, writerVars, Run
  <2>6. Alone(w) /\ RunInv' /\ GrantInv' /\ writer' \in Record
    <3> HIDE DEF q
    <3> QED BY <1>3, <2>1, <2>2, <2>3, <2>5, Wrote DEF PCs
  <2>7. TypeOK' /\ CheckType' /\ DigestInv'
    BY <1>4, <2>1, <2>6 DEF IInv, TypeOK, CheckType, DigestInv, Alone, rows
  <2>8. RowsInv'
    <3>1. CASE pc = "release"
      BY <2>3, <3>1 DEF RowsInv
    <3>2. CASE pc = "rows"
      <4>1. At(w, "rows")' /\ pointer'.epoch = auth'[w].epoch
        BY <1>1, <1>4, <2>1, <2>4, <3>2 DEF At, writerVars, Run
      <4> QED BY <4>1 DEF RowsInv
    <3> QED BY <3>1, <3>2
  <2>9. Line!Promote(run[w].gen)
    BY <1>1, <1>2, <1>4, <1>6, <2>1 DEF Line!Promote, Moved, Pointer
  <2> QED BY <1>2, <2>6, <2>7, <2>8, <2>9 DEF IInv
<1> QED BY <1>5, <1>6 DEF PutPointer, Raise, Goto

\* The edits of a row that the actions make give a row.
LEMMA EditedRow ==
    ASSUME NEW r \in Row, NEW st \in {"CANDIDATE", "AUTHORITATIVE", "RETIRED"}
    PROVE  [r EXCEPT !.state = st] \in Row /\ \A d \in Nat : [state |-> st, digest |-> d] \in Row
BY DEF Row

\* Publication rows, their validation and the rows of a promotion.
LEMMA WriteRowsStep ==
    ASSUME IInv, NEW w \in Workers, WriteCandidate(w) \/ Attest(w) \/ PromoteRows(w)
    PROVE  IInv' /\ UNCHANGED <<writerVars, store>>
<1> DEFINE g == run[w].gen
           q(pc) == [run[w] EXCEPT !.pc = pc]
           d == [run[w] EXCEPT !.pc = "release", !.ok = TRUE]
<1>1. /\ run[w] \in Run /\ Local(auth[w], run[w]) /\ auth[w].epoch \in Nat
      /\ run[w].digest \in Nat /\ row \in [Gens -> Row] /\ attested \in [Gens -> Nat]
      /\ manifest \in [Gens -> Nat] /\ pointer \in Pointer
  BY DEF IInv, TypeOK, RunInv, Grant, Run
<1>2. /\ g \in Gens /\ run[w].digest = manifest[g] /\ run[w].digest # 0
      /\ auth[w].epoch > 0 /\ run[w].pc \in {"row", "attest", "rows"}
  BY <1>1 DEF WriteCandidate, Attest, PromoteRows, At, Local, Granted, Names
<1>3. d \in Run /\ \A pc \in PCs : q(pc) \in Run
  <2>1. run[w] \in Run /\ "release" \in PCs /\ TRUE \in BOOLEAN
    BY <1>1 DEF PCs
  <2>2. d \in Run
    BY <2>1, EditedRun
  <2>3. \A pc \in PCs : q(pc) \in Run
    BY <2>1, EditedRun
  <2> QED BY <2>2, <2>3
<1>4. UNCHANGED <<writerVars, store, projected, job, check>>
  BY DEF WriteCandidate, Attest, PromoteRows
<1>5. \/ Step(w, d) /\ ~WriteCandidate(w)
      \/ Step(w, q("attest")) /\ WriteCandidate(w)
      \/ Step(w, q("release")) /\ ~WriteCandidate(w)
  BY <1>2 DEF WriteCandidate, Attest, PromoteRows, Goto, Raise, At
<1>6. PICK r \in {d, q("attest"), q("release")} :
         Step(w, r) /\ (r = q("attest") => run[w].pc = "row")
  BY <1>1, <1>5 DEF WriteCandidate, At, Run
<1>7. r \in Run /\ run'[w] = r /\ r.pc \in {"attest", "release"}
  <2>1. /\ d \in Run /\ d.pc = "release"
        /\ q("attest") \in Run /\ q("attest").pc = "attest"
        /\ q("release") \in Run /\ q("release").pc = "release"
    <3>1. \A x \in Run : /\ [x EXCEPT !.pc = "release", !.ok = TRUE].pc = "release"
                         /\ \A pc : [x EXCEPT !.pc = pc].pc = pc
      BY DEF Run
    <3>2. "attest" \in PCs /\ "release" \in PCs
      BY DEF PCs
    <3>3. d.pc = "release" /\ q("attest").pc = "attest" /\ q("release").pc = "release"
      BY <1>1, <3>1
    <3> QED BY <1>3, <3>2, <3>3
  <2>2. r \in Run /\ r.pc \in {"attest", "release"}
    <3> HIDE DEF d, q
    <3> QED BY <1>6, <2>1
  <2> QED BY <1>6, <2>2, SteppedAlone DEF IInv
<1>8. Local(auth[w], run[w])'
  BY <1>1, <1>2, <1>4, <1>6, <1>7 DEF Local, Names, Granted, writerVars, store, Run
<1>9. ManifestsKept /\ PointerLed(w) /\ pointer' \in Pointer /\ UNCHANGED writerVars
  BY <1>1, <1>4 DEF ManifestsKept, PointerLed, store
<1>10. Alone(w) /\ RunInv' /\ GrantInv' /\ writer' \in Record
  BY <1>6, <1>7, <1>8, <1>9, Wrote
<1>11. row' \in [Gens -> Row] /\ attested' \in [Gens -> Nat]
  <2>1. CASE WriteCandidate(w)
    BY <1>1, <2>1, EditedRow DEF WriteCandidate
  <2>2. CASE Attest(w)
    BY <1>1, <2>2 DEF Attest
  <2>3. CASE PromoteRows(w)
    <3>1. CASE UNCHANGED row
      BY <1>1, <2>3, <3>1 DEF PromoteRows
    <3>2. CASE row' = [h \in Gens |->
                         CASE h = g -> [row[h] EXCEPT !.state = "AUTHORITATIVE"]
                           [] h # g /\ row[h].state = "AUTHORITATIVE"
                                -> [row[h] EXCEPT !.state = "CANDIDATE"]
                           [] OTHER -> row[h]]
      BY <1>1, <2>3, <3>2, EditedRow DEF PromoteRows
    <3> QED BY <2>3, <3>1, <3>2 DEF PromoteRows
  <2> QED BY <2>1, <2>2, <2>3
<1>12. TypeOK' /\ CheckType'
  BY <1>4, <1>10, <1>11 DEF IInv, TypeOK, CheckType, Alone, store
<1>13. DigestInv'
  <2> SUFFICES \A h \in Gens : row'[h].state # "none" =>
                  row'[h].digest = manifest[h] /\ manifest[h] # 0
    BY <1>4 DEF DigestInv, IInv, store
  <2>1. CASE WriteCandidate(w)
    BY <1>1, <1>2, <2>1 DEF WriteCandidate, IInv, DigestInv
  <2>2. CASE row' = row
    BY <2>2 DEF IInv, DigestInv
  <2>3. CASE PromoteRows(w) /\ row' # row
    <3> SUFFICES ASSUME NEW h \in Gens
                 PROVE  row'[h].digest = row[h].digest /\
                        (row'[h].state # "none" => row[h].state # "none")
      BY DEF IInv, DigestInv
    <3>1. row[h] \in Row /\ row[g].state # "none"
      BY <1>1, <2>3 DEF PromoteRows
    <3> QED BY <2>3, <3>1 DEF PromoteRows, Row
  <2> QED BY <2>1, <2>2, <2>3 DEF Attest
<1>14. RowsInv'
  <2>1. CASE WriteCandidate(w) \/ Attest(w)
    <3>1. ~At(w, "rows") /\ pointer' = pointer
      BY <1>4, <2>1 DEF WriteCandidate, Attest, At, store
    <3>2. /\ apart => apart'
          /\ apart' \/ Authoritative' = Authoritative
      <4>1. CASE Attest(w)
        BY <4>1 DEF Attest, Authoritative
      <4>2. CASE WriteCandidate(w) /\ row[g].state = "AUTHORITATIVE"
        BY <4>2 DEF WriteCandidate
      <4>3. CASE WriteCandidate(w) /\ row[g].state # "AUTHORITATIVE"
        <5>1. apart => apart'
          BY <4>3 DEF WriteCandidate
        <5>2. row' = [row EXCEPT ![g] = [state |-> "CANDIDATE", digest |-> run[w].digest]]
          BY <4>3 DEF WriteCandidate
        <5>3. Authoritative' = Authoritative
          BY <1>1, <1>2, <4>3, <5>2 DEF Authoritative
        <5> QED BY <5>1, <5>3
      <4> QED BY <2>1, <4>1, <4>2, <4>3
    <3>3. CASE apart'
      BY <3>3 DEF RowsInv
    <3>4. CASE Authoritative' = Authoritative
      <4>1. RowsLeft(w)
        BY <3>1, <3>2, <3>4 DEF RowsLeft
      <4> QED BY <1>10, <4>1, RowsKept DEF IInv
    <3> QED BY <3>2, <3>3, <3>4
  <2>2. CASE PromoteRows(w)
    <3> SUFFICES ASSUME ~apart' PROVE Authoritative' = {pointer'.gen} \ {None}
      BY DEF RowsInv
    <3>1. row[g].state \in {"CANDIDATE", "AUTHORITATIVE"} /\ pointer.epoch = auth[w].epoch
      BY <2>2 DEF PromoteRows
    <3>2. pointer'.gen = g /\ g # None
      BY <1>2, <1>4, <2>2, <3>1, <1>1, FirstAssumption DEF PromoteRows, At, Local, store
    <3>3. \A h \in Gens : row'[h].state = "AUTHORITATIVE" <=> h = g
      BY <1>1, <1>2, <2>2, <3>1 DEF PromoteRows, Row
    <3> QED BY <1>2, <3>2, <3>3 DEF Authoritative
  <2> QED BY <2>1, <2>2
<1> QED BY <1>4, <1>10, <1>12, <1>13, <1>14 DEF IInv

\* Jobs, inventory, retirement and time.
Elsewhere ==
    \/ \E op \in Ops, g \in Gens : QueueJob(op, g) \/ LoseJob(op, g) \/ Retry(op, g)
    \/ \E g \in Gens : ReadInventory(g) \/ Retire(g) \/ Unretire(g)
    \/ ProjectInventory \/ LapseGrant

\* None of them puts anything into the store.
LEMMA ElsewhereStep ==
    ASSUME IInv, Elsewhere
    PROVE  IInv' /\ UNCHANGED store
<1>1. UNCHANGED <<auth, store, run>>
  BY DEF Elsewhere, QueueJob, LoseJob, Retry, ReadInventory, Retire, Unretire, ProjectInventory,
         LapseGrant, Lapse, writerVars, bounds
<1> SUFFICES IInv'
  BY <1>1
<1>2. writer' \in Record /\ writer'.epoch = writer.epoch
  <2>1. CASE LapseGrant
    BY <2>1 DEF LapseGrant, Lapse, IInv, TypeOK, Record
  <2>2. CASE writer' = writer
    BY <2>2 DEF IInv, TypeOK
  <2> QED BY <2>1, <2>2
          DEF Elsewhere, QueueJob, LoseJob, Retry, ReadInventory, Retire, Unretire,
              ProjectInventory, writerVars, bounds
<1>3. GrantInv' /\ RunInv'
  BY <1>1, <1>2 DEF IInv, GrantInv, RunInv, Local, Names, store
<1>4. job' \in [Ops -> [Gens -> Job]]
  <2>1. job \in [Ops -> [Gens -> Job]]
    BY DEF IInv, TypeOK
  <2>2. CASE \E op \in Ops, g \in Gens : QueueJob(op, g) \/ LoseJob(op, g) \/ Retry(op, g)
    <3>1. PICK op \in Ops, g \in Gens : QueueJob(op, g) \/ LoseJob(op, g) \/ Retry(op, g)
      BY <2>2
    <3> DEFINE queued == [job[op][g] EXCEPT !.status = "queued"]
               lost   == [status |-> "stopped", owner |-> None]
    <3>2. job[op][g] \in Job /\ queued \in Job /\ lost \in Job
      BY <2>1 DEF Job
    <3>3. \/ job' = [job EXCEPT ![op][g] = queued]
          \/ job' = [job EXCEPT ![op][g] = lost]
      BY <2>1, <3>1 DEF QueueJob, LoseJob, Retry
    <3> HIDE DEF queued, lost
    <3> QED BY <2>1, <3>2, <3>3
  <2>3. CASE job' = job
    BY <2>3 DEF IInv, TypeOK
  <2> QED BY <2>2, <2>3
          DEF Elsewhere, ReadInventory, Retire, Unretire, ProjectInventory, LapseGrant, bounds
<1>5. CASE UNCHANGED <<rows, check, apart>>
  <2>1. TypeOK' /\ CheckType' /\ DigestInv'
    BY <1>1, <1>2, <1>4, <1>5 DEF IInv, TypeOK, CheckType, DigestInv, rows, store
  <2>2. RowsInv'
    BY <1>1, <1>5 DEF IInv, RowsInv, Authoritative, At, rows, store
  <2> QED BY <1>3, <2>1, <2>2 DEF IInv
<1>6. CASE \E g \in Gens : ReadInventory(g)
  <2>1. PICK g \in Gens : ReadInventory(g)
    BY <1>6
  <2>2. UNCHANGED <<rows, apart>>
    BY <2>1 DEF ReadInventory
  <2>3. CheckType' /\ DigestInv'
    BY <1>1, <2>1, <2>2 DEF ReadInventory, CheckType, DigestInv, IInv, TypeOK, NoCheck, store, rows
  <2>4. TypeOK'
    BY <1>1, <1>2, <1>4, <2>2 DEF IInv, TypeOK, rows, store
  <2>5. RowsInv'
    BY <1>1, <2>2 DEF IInv, RowsInv, Authoritative, At, rows, store
  <2> QED BY <1>3, <2>3, <2>4, <2>5 DEF IInv
<1>7. CASE \E g \in Gens : Retire(g) \/ Unretire(g)
  <2>1. PICK g \in Gens, st \in {"RETIRED", "CANDIDATE"} :
           /\ row' = [row EXCEPT ![g].state = st] /\ row[g].state \in {"RETIRED", "CANDIDATE"}
           /\ UNCHANGED <<attested, projected, check, apart>>
    BY <1>7 DEF Retire, Unretire
  <2>2. row \in [Gens -> Row] /\ row[g] \in Row
    BY DEF IInv, TypeOK
  <2>3. row' \in [Gens -> Row]
    BY <2>1, <2>2, EditedRow
  <2>4. TypeOK' /\ CheckType'
    BY <1>1, <1>2, <1>4, <2>1, <2>3 DEF IInv, TypeOK, CheckType, store
  <2>5. DigestInv'
    BY <1>1, <2>1, <2>2 DEF IInv, DigestInv, Row, store
  <2>6. Authoritative' = Authoritative
    BY <2>1, <2>2 DEF Authoritative, Row
  <2>7. RowsInv'
    BY <1>1, <2>1, <2>6 DEF IInv, RowsInv, At, store
  <2> QED BY <1>3, <2>4, <2>5, <2>7 DEF IInv
<1>8. CASE ProjectInventory
  <2> DEFINE c == check.gen
             st == IF check.seen.gen = c THEN "AUTHORITATIVE" ELSE "CANDIDATE"
  <2>1. /\ c \in Gens /\ check.digest \in Nat /\ check.seen \in Pointer
        /\ check.digest = manifest[c] /\ check.digest # 0 /\ row \in [Gens -> Row]
    BY <1>8 DEF ProjectInventory, IInv, TypeOK, CheckType, DigestInv
  <2>2. /\ row' = [row EXCEPT ![c] = [state |-> st, digest |-> check.digest]]
        /\ projected' \in Gens \cup {None} /\ check' = NoCheck /\ attested' = attested
    BY <1>8, <2>1 DEF ProjectInventory, Pointer
  <2>3. row' \in [Gens -> Row]
    BY <2>1, <2>2, EditedRow
  <2>4. TypeOK' /\ CheckType'
    BY <1>1, <1>2, <1>4, <2>2, <2>3, NothingTyped DEF IInv, TypeOK, CheckType, NoCheck, store
  <2>5. DigestInv'
    BY <1>1, <2>1, <2>2 DEF IInv, DigestInv, store
  <2>6. RowsInv'
    <3> SUFFICES ASSUME ~apart', \A w \in Workers : At(w, "rows") => pointer.epoch # auth[w].epoch
                 PROVE  Authoritative' = {pointer.gen} \ {None}
      BY <1>1 DEF RowsInv, At, store
    <3>1. ~apart /\ check.seen = pointer
      BY <1>8 DEF ProjectInventory
    <3>2. Authoritative = {pointer.gen} \ {None}
      BY <3>1 DEF IInv, RowsInv
    <3>3. \A g \in Gens : row[g].state = "AUTHORITATIVE" <=> g = pointer.gen /\ g # None
      BY <3>2 DEF Authoritative
    <3>4. \A g \in Gens : row'[g].state = "AUTHORITATIVE" <=> row[g].state = "AUTHORITATIVE"
      BY <2>1, <2>2, <3>1, <3>3, FirstAssumption
    <3> QED BY <3>2, <3>4 DEF Authoritative
  <2> QED BY <1>3, <2>4, <2>5, <2>6 DEF IInv
<1> QED BY <1>5, <1>6, <1>7, <1>8
        DEF Elsewhere, QueueJob, LoseJob, Retry, LapseGrant, bounds

-----------------------------------------------------------------------------
(* The theorems                                                            *)

\* The attempts and what else happens fall into these groups.
LEMMA StepGroups ==
    Next => \/ \E w \in Workers : \/ RunOnly(w) \/ GrantOnly(w)
                                  \/ PutManifest(w) \/ PutPointer(w)
                                  \/ WriteCandidate(w) \/ Attest(w) \/ PromoteRows(w)
            \/ Elsewhere
BY DEF Next, Attempt, RunOnly, GrantOnly, Elsewhere

\* Every step keeps the invariant, and shows the Vault a step of its line.
LEMMA StepKeeps ==
    ASSUME IInv, [Next]_vars
    PROVE  IInv' /\ [Line!Next]_store
<1>1. CASE UNCHANGED vars
  BY <1>1 DEF vars, IInv, TypeOK, CheckType, GrantInv, RunInv, Local, Names, DigestInv, RowsInv,
              Authoritative, At, writerVars, store, rows, bounds
<1>2. CASE Elsewhere
  BY <1>2, ElsewhereStep
<1>3. ASSUME NEW w \in Workers, RunOnly(w)
      PROVE  IInv' /\ UNCHANGED store
  BY <1>3, RunOnlyStep
<1>4. ASSUME NEW w \in Workers, GrantOnly(w)
      PROVE  IInv' /\ UNCHANGED store
  BY <1>4, GrantStep
<1>5. ASSUME NEW w \in Workers, WriteCandidate(w) \/ Attest(w) \/ PromoteRows(w)
      PROVE  IInv' /\ UNCHANGED store
  BY <1>5, WriteRowsStep
<1>6. ASSUME NEW w \in Workers, PutManifest(w)
      PROVE  IInv' /\ [Line!Next]_store
  BY <1>6, PutManifestStep DEF Line!Next
<1>7. ASSUME NEW w \in Workers, PutPointer(w)
      PROVE  IInv' /\ [Line!Next]_store
  BY <1>7, PutPointerStep DEF Line!Next
<1> QED BY <1>1, <1>2, <1>3, <1>4, <1>5, <1>6, <1>7, StepGroups

\* What the steps preserve together holds in every state.
LEMMA InvHolds == Spec => []IInv
<1>1. IInv /\ [Next]_vars => IInv'
  BY StepKeeps
<1> QED BY InitInv, <1>1, PTL DEF Spec

\* Store, rows, jobs, attempts and the authority keep their types.
THEOREM TypeCorrect == Spec => []TypeOK
<1>1. IInv => TypeOK
  BY DEF IInv
<1> QED BY InvHolds, <1>1, PTL

\* However many workers publish and promote, lapse and die, each move of the
\* authoritative pointer is under a later epoch than the one before it, to a
\* stored manifest with its digest, and no stored manifest ever changes.
THEOREM PublicationKeepsLine == Spec => KeepsAuthorityLine
<1>1. Init => Line!Init
  BY FirstAssumption DEF Init, Line!Init, NoPointer, Line!NoHead
<1>2. IInv /\ [Next]_vars => [Line!Next]_store
  BY StepKeeps
<1>3. [Line!Next]_store => [Line!Next]_<<manifest, pointer>>
  BY DEF store
<1> QED BY InvHolds, <1>1, <1>2, <1>3, PTL DEF Spec, KeepsAuthorityLine, Line!Spec

\* A grant that ends was ended by its own holder or by time: the release of a
\* holder that lost it long ago never ends a successor's.
THEOREM ReleasesSpareSuccessors == Spec => SuccessorsKeepTheirGrant
<1> DEFINE Ends == ~writer.expired /\ writer'.expired =>
                     \/ Lapse
                     \/ \E w \in Workers : At(w, "expire") /\ auth[w].epoch = writer.epoch
<1>1. IInv /\ [Next]_vars => [Ends]_vars
  <2> SUFFICES ASSUME IInv, Next PROVE Ends
    OBVIOUS
  <2>1. ASSUME NEW w \in Workers, GrantOnly(w) PROVE Ends
    BY <2>1, GrantStep
  <2>2. CASE UNCHANGED writer
    BY <2>2
  <2>3. CASE LapseGrant
    BY <2>3 DEF LapseGrant
  <2>4. ASSUME NEW w \in Workers,
               \/ RunOnly(w) \/ PutManifest(w) \/ PutPointer(w)
               \/ WriteCandidate(w) \/ Attest(w) \/ PromoteRows(w)
        PROVE  UNCHANGED writer
    BY <2>4, RunOnlyStep, WriteRowsStep DEF PutManifest, PutPointer, writerVars
  <2>5. Elsewhere => LapseGrant \/ UNCHANGED writer
    BY DEF Elsewhere, QueueJob, LoseJob, Retry, ReadInventory, Retire, Unretire,
           ProjectInventory, writerVars
  <2> QED BY <2>1, <2>2, <2>3, <2>4, <2>5, StepGroups
<1> QED BY InvHolds, <1>1, PTL DEF Spec, SuccessorsKeepTheirGrant

\* Unless a named cause left the rows behind, exactly the generation that the
\* pointer names is authoritative in them once its promotion is past.
THEOREM RowsShowThePointer == Spec => []RowsFollowPointer
<1>1. IInv => RowsFollowPointer
  BY DEF IInv, RowsInv, RowsFollowPointer, Authoritative
<1> QED BY InvHolds, <1>1, PTL

=============================================================================
