------------------------ MODULE DataOpsWorkerProofs ------------------------
(* Proofs about DataOpsWorker for every set of reconcilers and operations.  *)
EXTENDS DataOpsWorker, SequenceTheorems, FiniteSetTheorems, TLAPS

\* The program points at which a reconciler executes the head of its batch.
Finishing == {"begin", "execute", "checkError", "saveError", "auditError", "renew", "commit"}

\* A reconciler that executes has something to execute.
BatchInv == \A w \in Workers : pc[w] \in Finishing => claims[w] # <<>>

\* Every token in a batch was generated, and no token was handed out twice.
TokensUnique ==
    /\ \A w \in Workers : \A i \in 1..Len(claims[w]) : claims[w][i].token <= issued
    /\ \A v, w \in Workers : \A i \in 1..Len(claims[v]), j \in 1..Len(claims[w]) :
          claims[v][i].token = claims[w][j].token => v = w /\ i = j

\* What the steps preserve together.
IInv == TypeOK /\ BatchInv /\ TokensUnique

-----------------------------------------------------------------------------
\* The attempt counted by the first save changes neither the length of a batch
\* nor any of its tokens.
LEMMA CountedAttempt ==
    ASSUME NEW s \in Seq(Claim), s # <<>>,
           NEW t, t = [s EXCEPT ![1].attempt = @ + 1]
    PROVE  /\ t \in Seq(Claim) /\ t # <<>> /\ Len(t) = Len(s)
           /\ \A i \in 1..Len(s) : t[i].token = s[i].token
<1> DEFINE e == [s[1] EXCEPT !.attempt = @ + 1]
<1>1. Len(s) \in Nat \ {0}
  BY EmptySeq
<1>2. s[1] \in Claim
  BY <1>1, ElementOfSeq
<1>3. e \in Claim /\ e.token = s[1].token
  <2>1. \A c \in Claim : LET d == [c EXCEPT !.attempt = @ + 1]
                         IN  d \in Claim /\ d.token = c.token
    BY DEF Claim
  <2> QED BY <1>2, <2>1
<1>4. t = [s EXCEPT ![1] = e]
  OBVIOUS
<1>5. /\ t \in Seq(Claim) /\ Len(t) = Len(s)
      /\ \A j \in 1..Len(s) : t[j] = IF j = 1 THEN e ELSE s[j]
  <2> HIDE DEF e
  <2>1. 1 \in 1..Len(s)
    BY <1>1
  <2> QED BY <1>3, <1>4, <2>1, ExceptSeq
<1>6. t # <<>>
  BY <1>1, <1>5
<1> QED BY <1>3, <1>5, <1>6

\* Leaving a claim keeps the memory well formed, the batch rule, and the
\* uniqueness of tokens: the batch of w loses its head and nothing else moves.
LEMMA NextClaimSafe ==
    ASSUME NEW w \in Workers, IInv, pc[w] \in Finishing, NextClaim(w), issued' = issued
    PROVE  /\ claims' \in [Workers -> Seq(Claim)] /\ pc' \in [Workers -> PCs]
           /\ outcome' \in [Workers -> Outcomes] /\ todo' \in [Workers -> SUBSET Ops]
           /\ BatchInv' /\ TokensUnique'
<1> USE DEF IInv, TypeOK
<1>1. claims[w] \in Seq(Claim) /\ claims[w] # <<>>
  BY DEF BatchInv
<1>2. /\ Tail(claims[w]) \in Seq(Claim)
      /\ Len(Tail(claims[w])) = Len(claims[w]) - 1
      /\ \A i \in 1..Len(Tail(claims[w])) : Tail(claims[w])[i] = claims[w][i + 1]
  BY <1>1, HeadTailProperties
<1>3. claims' = [claims EXCEPT ![w] = Tail(claims[w])]
  BY DEF NextClaim
<1>4. claims' \in [Workers -> Seq(Claim)]
  BY <1>2, <1>3
<1>5. pc' \in [Workers -> PCs] /\ outcome' \in [Workers -> Outcomes]
      /\ todo' \in [Workers -> SUBSET Ops]
  BY DEF NextClaim, PCs, Outcomes
<1>6. BatchInv'
  BY <1>3 DEF BatchInv, NextClaim, Finishing
<1>7. \A v \in Workers : \A i \in 1..Len(claims'[v]) :
          \E k \in 1..Len(claims[v]) :
             claims'[v][i] = claims[v][k] /\ k = (IF v = w THEN i + 1 ELSE i)
  <2>1. Len(claims[w]) \in Nat \ {0}
    BY <1>1, EmptySeq
  <2>2. SUFFICES ASSUME NEW v \in Workers, NEW i \in 1..Len(claims'[v])
                 PROVE  \E k \in 1..Len(claims[v]) :
                            claims'[v][i] = claims[v][k] /\ k = (IF v = w THEN i + 1 ELSE i)
    OBVIOUS
  <2>3. CASE v = w
    BY <1>2, <1>3, <2>1, <2>3
  <2>4. CASE v # w
    BY <1>3, <2>4
  <2> QED BY <2>3, <2>4
<1>8. TokensUnique'
  <2>1. \A v \in Workers : \A i \in 1..Len(claims'[v]) : claims'[v][i].token <= issued'
    <3>1. SUFFICES ASSUME NEW v \in Workers, NEW i \in 1..Len(claims'[v])
                   PROVE  claims'[v][i].token <= issued'
      OBVIOUS
    <3>2. PICK k \in 1..Len(claims[v]) : claims'[v][i] = claims[v][k]
      BY <1>7
    <3> QED BY <3>2 DEF TokensUnique
  <2>2. ASSUME NEW v \in Workers, NEW u \in Workers,
               NEW i \in 1..Len(claims'[v]), NEW j \in 1..Len(claims'[u]),
               claims'[v][i].token = claims'[u][j].token
        PROVE  v = u /\ i = j
    <3>1. PICK k \in 1..Len(claims[v]) :
             claims'[v][i] = claims[v][k] /\ k = (IF v = w THEN i + 1 ELSE i)
      BY <1>7
    <3>2. PICK l \in 1..Len(claims[u]) :
             claims'[u][j] = claims[u][l] /\ l = (IF u = w THEN j + 1 ELSE j)
      BY <1>7
    <3>3. v = u /\ k = l
      BY <2>2, <3>1, <3>2 DEF TokensUnique
    <3>4. i \in Int /\ j \in Int
      BY <1>4, LenProperties
    <3> QED BY <3>1, <3>2, <3>3, <3>4
  <2> QED BY <2>1, <2>2 DEF TokensUnique
<1> QED BY <1>4, <1>5, <1>6, <1>8

-----------------------------------------------------------------------------
\* What a row can be written to keeps the table well formed.
LEMMA RowUpdate ==
    ASSUME TypeOK, NEW o \in Ops
    PROVE  /\ \A st \in States : [op EXCEPT ![o].state = st] \in [Ops -> Row]
           /\ \A l \in Leases : [op EXCEPT ![o].lease = l] \in [Ops -> Row]
           /\ \A st \in States, tk \in Nat, l \in Leases :
                 [op EXCEPT ![o].state = st, ![o].token = tk, ![o].lease = l] \in [Ops -> Row]
           /\ \A a \in Nat, st \in States, tk \in Nat, l \in Leases :
                 [op EXCEPT ![o].attempt = a, ![o].state = st, ![o].token = tk, ![o].lease = l]
                    \in [Ops -> Row]
<1>1. op \in [Ops -> Row]
  BY DEF TypeOK
<1>2. \A r \in Row :
         /\ \A st \in States : [r EXCEPT !.state = st] \in Row
         /\ \A l \in Leases : [r EXCEPT !.lease = l] \in Row
         /\ \A tk \in Nat : [r EXCEPT !.token = tk] \in Row
         /\ \A a \in Nat : [r EXCEPT !.attempt = a] \in Row
  BY DEF Row
<1>3. \A f \in [Ops -> Row] :
         /\ \A st \in States : [f EXCEPT ![o].state = st] \in [Ops -> Row]
         /\ \A l \in Leases : [f EXCEPT ![o].lease = l] \in [Ops -> Row]
         /\ \A tk \in Nat : [f EXCEPT ![o].token = tk] \in [Ops -> Row]
         /\ \A a \in Nat : [f EXCEPT ![o].attempt = a] \in [Ops -> Row]
  BY <1>2
<1>4. \A st \in States, tk \in Nat, l \in Leases :
         [op EXCEPT ![o].state = st, ![o].token = tk, ![o].lease = l] \in [Ops -> Row]
  BY <1>1, <1>3
<1>5. \A a \in Nat, st \in States, tk \in Nat, l \in Leases :
         [op EXCEPT ![o].attempt = a, ![o].state = st, ![o].token = tk, ![o].lease = l]
            \in [Ops -> Row]
  BY <1>1, <1>3
<1> QED BY <1>1, <1>3, <1>4, <1>5

\* The row an executing reconciler works on is a row of the table.
LEMMA CurrentIsClaim ==
    ASSUME NEW w \in Workers, IInv, pc[w] \in Finishing
    PROVE  /\ Current(w) \in Claim /\ Current(w).id \in Ops /\ Current(w).token \in Nat
           /\ Current(w).attempt \in Nat
<1>1. claims[w] \in Seq(Claim) /\ claims[w] # <<>>
  BY DEF IInv, TypeOK, BatchInv
<1>2. Current(w) \in Claim
  BY <1>1, HeadTailProperties DEF Current
<1> QED BY <1>2 DEF Claim

\* A token of a batch is one of the numbers generated so far.
LEMMA TokenOfBatch ==
    ASSUME IInv, NEW v \in Workers, NEW i \in 1..Len(claims[v])
    PROVE  claims[v][i].token \in Nat /\ claims[v][i].token <= issued
<1>1. claims[v] \in Seq(Claim)
  BY DEF IInv, TypeOK
<1>2. claims[v][i] \in Claim
  BY <1>1, ElementOfSeq
<1> QED BY <1>2 DEF Claim, IInv, TokensUnique

\* Steps that touch only rows and program counters, never a batch: the batch
\* rule then needs only that no idle reconciler starts executing.
LEMMA BatchesUntouched ==
    ASSUME IInv, claims' = claims, issued' = issued,
           \A w \in Workers : pc'[w] \in Finishing => pc[w] \in Finishing
    PROVE  BatchInv' /\ TokensUnique'
  BY DEF IInv, BatchInv, TokensUnique

\* A claim takes a token that no batch has seen.
LEMMA ClaimSafe ==
    ASSUME NEW w \in Workers, NEW o \in Ops, IInv, ClaimOperation(w, o), pc' = pc
    PROVE  /\ op' \in [Ops -> Row] /\ claims' \in [Workers -> Seq(Claim)]
           /\ issued' \in Nat /\ takeovers' \in [Ops -> Nat]
           /\ BatchInv' /\ TokensUnique'
<1> USE DEF IInv, TypeOK
<1> DEFINE c == [id |-> o, token |-> issued + 1, attempt |-> op[o].attempt]
<1>1. c \in Claim
  BY DEF Claim, Row
<1>2. claims' = [claims EXCEPT ![w] = Append(claims[w], c)] /\ issued' = issued + 1
  BY DEF ClaimOperation
<1>3. op' \in [Ops -> Row] /\ takeovers' \in [Ops -> Nat] /\ issued' \in Nat
  <2>1. op' = [op EXCEPT ![o].state = "running", ![o].token = issued + 1, ![o].lease = "live"]
    BY DEF ClaimOperation
  <2>2. "running" \in States /\ issued + 1 \in Nat /\ "live" \in Leases
    BY DEF States, Leases
  <2>3. op' \in [Ops -> Row]
    BY <2>1, <2>2, RowUpdate
  <2>4. takeovers' \in [Ops -> Nat]
    BY DEF ClaimOperation
  <2> QED BY <1>2, <2>2, <2>3, <2>4
<1>4. /\ Append(claims[w], c) \in Seq(Claim)
      /\ Append(claims[w], c) # <<>>
      /\ Len(Append(claims[w], c)) = Len(claims[w]) + 1
      /\ \A i \in 1..Len(claims[w]) : Append(claims[w], c)[i] = claims[w][i]
      /\ Append(claims[w], c)[Len(claims[w]) + 1] = c
  BY <1>1, AppendProperties
<1>5. claims' \in [Workers -> Seq(Claim)] /\ BatchInv'
  BY <1>2, <1>4 DEF BatchInv
<1>6. ASSUME NEW v \in Workers, NEW i \in 1..Len(claims'[v])
      PROVE  \/ i \in 1..Len(claims[v]) /\ claims'[v][i] = claims[v][i]
             \/ v = w /\ i = Len(claims[v]) + 1 /\ claims'[v][i].token = issued + 1
  <2>1. Len(claims[v]) \in Nat
    BY LenProperties
  <2>2. CASE v = w
    <3>1. claims'[v] = Append(claims[w], c) /\ c.token = issued + 1
      BY <1>2, <2>2
    <3>2. \/ i \in 1..Len(claims[w])
          \/ i = Len(claims[w]) + 1
      BY <1>4, <2>1, <2>2, <3>1
    <3> HIDE DEF c
    <3> QED BY <1>4, <2>2, <3>1, <3>2
  <2>3. CASE v # w
    BY <1>2, <2>3
  <2> QED BY <2>2, <2>3
<1>7. \A v \in Workers : \A i \in 1..Len(claims'[v]) : claims'[v][i].token <= issued'
  <2>1. SUFFICES ASSUME NEW v \in Workers, NEW i \in 1..Len(claims'[v])
                 PROVE  claims'[v][i].token <= issued'
    OBVIOUS
  <2>2. CASE i \in 1..Len(claims[v]) /\ claims'[v][i] = claims[v][i]
    <3>1. claims[v][i].token \in Nat /\ claims[v][i].token <= issued
      BY <2>2, TokenOfBatch
    <3> QED BY <1>2, <2>2, <3>1
  <2>3. CASE claims'[v][i].token = issued + 1
    BY <1>2, <2>3
  <2> QED BY <1>6, <2>2, <2>3
<1>8. ASSUME NEW v \in Workers, NEW u \in Workers,
             NEW i \in 1..Len(claims'[v]), NEW j \in 1..Len(claims'[u]),
             claims'[v][i].token = claims'[u][j].token
      PROVE  v = u /\ i = j
  <2>1. \A x \in Workers : \A k \in 1..Len(claims[x]) : claims[x][k].token # issued + 1
    <3>1. SUFFICES ASSUME NEW x \in Workers, NEW k \in 1..Len(claims[x])
                   PROVE  claims[x][k].token # issued + 1
      OBVIOUS
    <3>2. claims[x][k].token \in Nat /\ claims[x][k].token <= issued
      BY TokenOfBatch
    <3> QED BY <3>2
  <2>2. CASE i \in 1..Len(claims[v]) /\ claims'[v][i] = claims[v][i]
    <3>1. claims'[u][j].token # issued + 1
      BY <1>8, <2>1, <2>2
    <3>2. j \in 1..Len(claims[u]) /\ claims'[u][j] = claims[u][j]
      BY <1>6, <3>1
    <3> QED BY <1>8, <2>2, <3>2 DEF TokensUnique
  <2>3. CASE v = w /\ i = Len(claims[v]) + 1 /\ claims'[v][i].token = issued + 1
    <3>1. claims'[u][j].token = issued + 1
      BY <1>8, <2>3
    <3>2. ~(j \in 1..Len(claims[u]) /\ claims'[u][j] = claims[u][j])
      BY <2>1, <3>1
    <3>3. u = w /\ j = Len(claims[u]) + 1
      BY <1>6, <3>2
    <3> QED BY <2>3, <3>3
  <2> QED BY <1>6, <2>2, <2>3
<1> QED BY <1>3, <1>5, <1>7, <1>8 DEF TokensUnique

\* The conjuncts of the type invariant about the steps' bookkeeping.
LEMMA InitIInv == Init => IInv
<1> SUFFICES ASSUME Init PROVE IInv
  OBVIOUS
<1>1. TypeOK
  BY EmptySeq DEF Init, TypeOK, Row, NoRow, NoToken, States, Leases, PCs, Outcomes
<1>2. BatchInv
  BY DEF Init, BatchInv, Finishing
<1>3. TokensUnique
  BY EmptySeq DEF Init, TokensUnique
<1> QED BY <1>1, <1>2, <1>3 DEF IInv

\* Every step of the specification keeps the inductive invariant.
LEMMA StepIInv == IInv /\ [Next]_vars => IInv'
<1> SUFFICES ASSUME IInv, [Next]_vars PROVE IInv'
  OBVIOUS
<1> USE DEF IInv
<1>1. ASSUME NEW o \in Ops, Enqueue(o) PROVE IInv'
  <2>1. op' \in [Ops -> Row]
    BY <1>1, RowUpdate DEF Enqueue, States
  <2>2. BatchInv' /\ TokensUnique'
    BY <1>1, BatchesUntouched DEF Enqueue, local, ghost
  <2> QED BY <1>1, <2>1, <2>2 DEF Enqueue, TypeOK, local, ghost
<1>2. ASSUME NEW o \in Ops, LeaseOverrun(o) \/ LeaseAbandoned(o) PROVE IInv'
  <2>1. op' \in [Ops -> Row]
    <3>1. op' = [op EXCEPT ![o].lease = "expired"] /\ "expired" \in Leases
      BY <1>2 DEF LeaseOverrun, LeaseAbandoned, Leases
    <3> QED BY <3>1, RowUpdate
  <2>2. BatchInv' /\ TokensUnique'
    BY <1>2, BatchesUntouched DEF LeaseOverrun, LeaseAbandoned, local, ghost
  <2> QED BY <1>2, <2>1, <2>2 DEF LeaseOverrun, LeaseAbandoned, TypeOK, local, ghost
<1>3. ASSUME NEW w \in Workers, ListQueued(w) \/ ListStale(w) PROVE IInv'
  <2>1. /\ todo' \in [Workers -> SUBSET Ops] /\ pc' \in [Workers -> PCs]
        /\ \A v \in Workers : pc'[v] \in Finishing => pc[v] \in Finishing
    BY <1>3 DEF ListQueued, ListStale, TypeOK, Earliest, QueuedOps, StaleOps, PCs, Finishing
  <2>2. BatchInv' /\ TokensUnique'
    BY <1>3, <2>1, BatchesUntouched DEF ListQueued, ListStale, rows, ghost
  <2> QED BY <1>3, <2>1, <2>2 DEF ListQueued, ListStale, TypeOK, rows, ghost
<1>4. ASSUME NEW w \in Workers, NEW o \in Ops, Visit(w, o) PROVE IInv'
  <2>1. todo' \in [Workers -> SUBSET Ops]
    BY <1>4 DEF Visit, TypeOK
  <2>2. CASE ClaimOperation(w, o)
    <3>1. pc' = pc
      BY <1>4 DEF Visit
    <3>2. /\ op' \in [Ops -> Row] /\ claims' \in [Workers -> Seq(Claim)]
          /\ issued' \in Nat /\ takeovers' \in [Ops -> Nat]
          /\ BatchInv' /\ TokensUnique'
      BY <2>2, <3>1, ClaimSafe
    <3> QED BY <1>4, <2>1, <3>2 DEF Visit, TypeOK
  <2>3. CASE UNCHANGED <<op, claims, issued, takeovers>>
    <3>1. BatchInv' /\ TokensUnique'
      BY <1>4, <2>3, BatchesUntouched DEF Visit
    <3> QED BY <1>4, <2>1, <2>3, <3>1 DEF Visit, TypeOK
  <2> QED BY <1>4, <2>2, <2>3 DEF Visit
<1>5. ASSUME NEW w \in Workers, StartBatch(w) PROVE IInv'
  <2>1. pc' \in [Workers -> PCs]
    BY <1>5 DEF StartBatch, Goto, TypeOK, PCs
  <2>2. BatchInv' /\ TokensUnique'
    BY <1>5 DEF StartBatch, Goto, BatchInv, TokensUnique, ghost, Finishing
  <2> QED BY <1>5, <2>1, <2>2 DEF StartBatch, Goto, TypeOK, rows, ghost
<1>6. ASSUME NEW w \in Workers, BeginOperation(w) PROVE IInv'
  <2> DEFINE t == [claims[w] EXCEPT ![1].attempt = @ + 1]
  <2>1. claims[w] \in Seq(Claim) /\ claims[w] # <<>>
    BY <1>6 DEF BeginOperation, BatchInv, Finishing, TypeOK
  <2>2. Current(w) \in Claim
    BY <2>1, HeadTailProperties DEF Current
  <2>3. claims' = [claims EXCEPT ![w] = t]
    BY <1>6 DEF BeginOperation
  <2>4. /\ t \in Seq(Claim) /\ t # <<>> /\ Len(t) = Len(claims[w])
        /\ \A i \in 1..Len(claims[w]) : t[i].token = claims[w][i].token
    BY <2>1, CountedAttempt
  <2> HIDE DEF t
  <2>5. op' \in [Ops -> Row]
    <3>1. /\ Current(w).id \in Ops /\ Current(w).token \in Nat
          /\ Current(w).attempt + 1 \in Nat
      BY <2>2 DEF Claim
    <3>2. PICK o \in Ops, tk \in Nat, a \in Nat :
             o = Current(w).id /\ tk = Current(w).token /\ a = Current(w).attempt + 1
      BY <3>1
    <3>3. op' = [op EXCEPT ![o].attempt = a, ![o].state = "running",
                           ![o].token = tk, ![o].lease = "live"]
      BY <1>6, <3>2 DEF BeginOperation
    <3>4. "running" \in States /\ "live" \in Leases
      BY DEF States, Leases
    <3>5. [op EXCEPT ![o].attempt = a, ![o].state = "running",
                     ![o].token = tk, ![o].lease = "live"] \in [Ops -> Row]
      BY <3>4, RowUpdate
    <3> QED BY <3>3, <3>5
  <2>6. claims' \in [Workers -> Seq(Claim)] /\ pc' \in [Workers -> PCs]
    BY <1>6, <2>3, <2>4 DEF BeginOperation, TypeOK, PCs
  <2>7. BatchInv'
    BY <1>6, <2>3, <2>4 DEF BeginOperation, BatchInv, Finishing, TypeOK
  <2>8. \A v \in Workers : /\ Len(claims'[v]) = Len(claims[v])
                           /\ \A i \in 1..Len(claims[v]) : claims'[v][i].token = claims[v][i].token
    BY <2>3, <2>4 DEF TypeOK
  <2>9. TokensUnique'
    <3>1. issued' = issued
      BY <1>6 DEF BeginOperation, ghost
    <3>2. \A v \in Workers : \A i \in 1..Len(claims'[v]) : claims'[v][i].token <= issued'
      BY <2>8, <3>1 DEF TokensUnique
    <3>3. \A v, u \in Workers : \A i \in 1..Len(claims'[v]), j \in 1..Len(claims'[u]) :
             claims'[v][i].token = claims'[u][j].token => v = u /\ i = j
      BY <2>8 DEF TokensUnique
    <3> QED BY <3>2, <3>3 DEF TokensUnique
  <2> QED BY <1>6, <2>5, <2>6, <2>7, <2>9 DEF BeginOperation, TypeOK, ghost
<1>7. ASSUME NEW w \in Workers,
             \/ RenewLease(w) \/ ExecutorFails(w) \/ ExecutorReturns(w)
             \/ CheckError(w) /\ ~NextClaim(w)
             \/ SaveError(w) /\ ~NextClaim(w)
             \/ RenewForCommit(w) /\ ~NextClaim(w)
      PROVE  IInv'
  <2>1. pc[w] \in Finishing
    BY <1>7 DEF RenewLease, ExecutorFails, ExecutorReturns, CheckError, SaveError,
                RenewForCommit, Finishing
  <2>2. Current(w).id \in Ops
    BY <2>1, CurrentIsClaim
  <2>3. op' \in [Ops -> Row]
    <3>1. \/ op' = op
          \/ op' = [op EXCEPT ![Current(w).id].lease = "live"]
          \/ \E st \in States : op' = [op EXCEPT ![Current(w).id].state = st,
                 ![Current(w).id].token = 0, ![Current(w).id].lease = "none"]
      BY <1>7
      DEF RenewLease, ExecutorFails, ExecutorReturns, CheckError, SaveError, RenewForCommit,
          rows, States, NoToken
    <3>2. TypeOK /\ 0 \in Nat /\ "live" \in Leases /\ "none" \in Leases
      BY DEF Leases
    <3>3. CASE op' = op
      BY <3>3 DEF TypeOK
    <3>4. CASE op' = [op EXCEPT ![Current(w).id].lease = "live"]
      BY <2>2, <3>2, <3>4, RowUpdate
    <3>5. ASSUME NEW st \in States,
                 op' = [op EXCEPT ![Current(w).id].state = st,
                            ![Current(w).id].token = 0, ![Current(w).id].lease = "none"]
          PROVE  op' \in [Ops -> Row]
      BY <2>2, <3>2, <3>5, RowUpdate
    <3> QED BY <3>1, <3>3, <3>4, <3>5
  <2>4. claims' = claims /\ issued' = issued /\ todo' = todo
        /\ UNCHANGED <<published, failures, takeovers, overruns, crashes>>
    BY <1>7 DEF RenewLease, ExecutorFails, ExecutorReturns, CheckError, SaveError,
                RenewForCommit, Goto, rows, ghost
  <2>5. pc' \in [Workers -> PCs] /\ outcome' \in [Workers -> Outcomes]
        /\ \A v \in Workers : pc'[v] \in Finishing => pc[v] \in Finishing
    <3>1. pc' = pc \/ \E l \in PCs : pc' = [pc EXCEPT ![w] = l]
      <4>1. "checkError" \in PCs /\ "renew" \in PCs /\ "saveError" \in PCs
            /\ "auditError" \in PCs /\ "commit" \in PCs
        BY DEF PCs
      <4>2. CASE RenewLease(w) \/ ExecutorFails(w) \/ ExecutorReturns(w)
        BY <4>1, <4>2 DEF RenewLease, ExecutorFails, ExecutorReturns, Goto
      <4>3. CASE ~NextClaim(w) /\ (CheckError(w) \/ SaveError(w) \/ RenewForCommit(w))
        BY <4>1, <4>3 DEF CheckError, SaveError, RenewForCommit, Goto
      <4> QED BY <1>7, <4>2, <4>3
    <3>2. outcome' = outcome \/ \E r \in Outcomes : outcome' = [outcome EXCEPT ![w] = r]
      <4>1. "retryable" \in Outcomes
        BY DEF Outcomes
      <4>2. CASE RenewLease(w) \/ ExecutorFails(w) \/ ExecutorReturns(w)
        BY <4>1, <4>2 DEF RenewLease, ExecutorFails, ExecutorReturns, Goto
      <4>3. CASE ~NextClaim(w) /\ (CheckError(w) \/ SaveError(w) \/ RenewForCommit(w))
        BY <4>3 DEF CheckError, SaveError, RenewForCommit, Goto
      <4> QED BY <1>7, <4>2, <4>3
    <3> QED BY <2>1, <3>1, <3>2 DEF TypeOK
  <2>6. BatchInv' /\ TokensUnique'
    BY <2>4, <2>5, BatchesUntouched
  <2> QED BY <2>3, <2>4, <2>5, <2>6 DEF TypeOK
<1>8. ASSUME NEW w \in Workers, NextClaim(w),
             CheckError(w) \/ SaveError(w) \/ AuditError(w) \/ RenewForCommit(w) \/ CommitSuccess(w)
      PROVE  IInv'
  <2>1. pc[w] \in Finishing
    BY <1>8 DEF CheckError, SaveError, AuditError, RenewForCommit, CommitSuccess, Finishing
  <2>2. Current(w).id \in Ops
    BY <2>1, CurrentIsClaim
  <2>3. op' \in [Ops -> Row]
    <3>1. \/ op' = op
          \/ op' = [op EXCEPT ![Current(w).id].lease = "live"]
          \/ \E st \in States : op' = [op EXCEPT ![Current(w).id].state = st,
                 ![Current(w).id].token = 0, ![Current(w).id].lease = "none"]
      BY <1>8
      DEF CheckError, SaveError, AuditError, RenewForCommit, CommitSuccess, rows, States, NoToken
    <3>2. TypeOK /\ 0 \in Nat /\ "live" \in Leases /\ "none" \in Leases
      BY DEF Leases
    <3>3. CASE op' = op
      BY <3>3 DEF TypeOK
    <3>4. CASE op' = [op EXCEPT ![Current(w).id].lease = "live"]
      BY <2>2, <3>2, <3>4, RowUpdate
    <3>5. ASSUME NEW st \in States,
                 op' = [op EXCEPT ![Current(w).id].state = st,
                            ![Current(w).id].token = 0, ![Current(w).id].lease = "none"]
          PROVE  op' \in [Ops -> Row]
      BY <2>2, <3>2, <3>5, RowUpdate
    <3> QED BY <3>1, <3>3, <3>4, <3>5
  <2>6. published' \in [Ops -> Nat] /\ failures' \in [Ops -> Nat]
    <3>1. \/ published' = published
          \/ published' = [published EXCEPT ![Current(w).id] = @ + 1]
      BY <1>8 DEF CheckError, SaveError, AuditError, RenewForCommit, CommitSuccess, rows
    <3>2. \/ failures' = failures
          \/ failures' = [failures EXCEPT ![Current(w).id] = @ + 1]
      BY <1>8 DEF CheckError, SaveError, AuditError, RenewForCommit, CommitSuccess, rows
    <3>3. published \in [Ops -> Nat] /\ failures \in [Ops -> Nat]
      BY DEF TypeOK
    <3>4. published' \in [Ops -> Nat]
      BY <2>2, <3>1, <3>3
    <3>5. failures' \in [Ops -> Nat]
      BY <2>2, <3>2, <3>3
    <3> QED BY <3>4, <3>5
  <2>4. issued' = issued /\ UNCHANGED <<takeovers, overruns, crashes>>
    BY <1>8 DEF CheckError, SaveError, AuditError, RenewForCommit, CommitSuccess, ghost
  <2>5. /\ claims' \in [Workers -> Seq(Claim)] /\ pc' \in [Workers -> PCs]
        /\ outcome' \in [Workers -> Outcomes] /\ todo' \in [Workers -> SUBSET Ops]
        /\ BatchInv' /\ TokensUnique'
    BY <1>8, <2>1, <2>4, NextClaimSafe
  <2> QED BY <2>3, <2>4, <2>5, <2>6 DEF TypeOK
<1>9. ASSUME NEW w \in Workers, Crash(w) PROVE IInv'
  <2>1. <<>> \in Seq(Claim) /\ Len(<<>>) = 0
    BY EmptySeq
  <2>2. claims' = [claims EXCEPT ![w] = <<>>] /\ claims' \in [Workers -> Seq(Claim)]
    BY <1>9, <2>1 DEF Crash, TypeOK
  <2>3. TypeOK'
    BY <1>9, <2>2 DEF Crash, TypeOK, rows, PCs, Outcomes
  <2>4. BatchInv'
    BY <1>9, <2>2 DEF Crash, BatchInv, Finishing, TypeOK
  <2>5. \A v \in Workers : \A i \in 1..Len(claims'[v]) :
            i \in 1..Len(claims[v]) /\ claims'[v][i] = claims[v][i]
    BY <2>1, <2>2 DEF TypeOK
  <2>6. TokensUnique'
    BY <1>9, <2>5 DEF Crash, TokensUnique
  <2> QED BY <2>3, <2>4, <2>6
<1>10. CASE UNCHANGED vars
  <2>1. BatchInv' /\ TokensUnique'
    BY <1>10, BatchesUntouched DEF vars, local, ghost
  <2> QED BY <1>10, <2>1 DEF vars, rows, local, ghost, TypeOK
<1> QED
  <2>1. ASSUME NEW w \in Workers, Execute(w) \/ Settle(w) PROVE IInv'
    BY <2>1, <1>6, <1>7, <1>8
    DEF Execute, Settle, AuditError, CommitSuccess
  <2>2. ASSUME NEW w \in Workers, Reconcile(w) PROVE IInv'
    BY <2>2, <1>3, <1>4, <1>5 DEF Reconcile
  <2> QED BY <1>1, <1>2, <1>9, <1>10, <2>1, <2>2 DEF Next

\* The inductive invariant holds in every reachable state.
THEOREM Inductive == Spec => []IInv
  BY InitIInv, StepIInv, PTL DEF Spec

-----------------------------------------------------------------------------
\* Rows and reconcilers keep their shape, whatever the number of reconcilers,
\* operations, retries and takeovers (worker.py, all of reconcile_receipts).
THEOREM TypeCorrect == Spec => []TypeOK
<1>1. IInv => TypeOK
  BY DEF IInv
<1> QED BY <1>1, Inductive, PTL

\* At most one claim of one reconciler ever passes the ownership test of an
\* operation (_renew_operation_lease and the tests in worker.py:111-165).
THEOREM OneOwnerAlways == Spec => []OneOwner
<1>1. IInv => OneOwner
  BY DEF IInv, TokensUnique, OneOwner, Owns
<1> QED BY <1>1, Inductive, PTL

\* A receipt appears only in the owner's own commit (worker.py:165-217).
THEOREM OnlyOwnersPublish == Spec => PublishedOnlyByOwner
<1> DEFINE Step == \A o \in Ops : published'[o] # published[o] =>
                      /\ published'[o] = published[o] + 1
                      /\ op'[o].state = "succeeded"
                      /\ \E w \in Workers : /\ pc[w] = "commit" /\ Current(w).id = o
                                            /\ Owns(Current(w))
<1>1. IInv /\ [Next]_vars => [Step]_vars
  <2> SUFFICES ASSUME IInv, Next, published' # published PROVE Step
    BY DEF vars, rows
  <2>1. PICK w \in Workers : CommitSuccess(w) /\ Owns(Current(w))
    BY DEF Next, Reconcile, Execute, Settle, Crash, Enqueue, LeaseOverrun, LeaseAbandoned,
           ListQueued, ListStale, Visit, StartBatch, BeginOperation, RenewLease, ExecutorFails,
           ExecutorReturns, CheckError, SaveError, AuditError, RenewForCommit, CommitSuccess, rows
  <2>2. Current(w).id \in Ops
    BY <2>1, CurrentIsClaim DEF CommitSuccess, Finishing
  <2>3. PICK i \in Ops : i = Current(w).id
    BY <2>2
  <2>4. pc[w] = "commit" /\ op \in [Ops -> Row] /\ published \in [Ops -> Nat]
    BY <2>1 DEF CommitSuccess, IInv, TypeOK
  <2>5. /\ op' = [op EXCEPT ![i].state = "succeeded", ![i].token = NoToken, ![i].lease = "none"]
        /\ published' = [published EXCEPT ![i] = @ + 1]
    BY <2>1, <2>3 DEF CommitSuccess
  <2>6. op'[i].state = "succeeded"
    BY <2>4, <2>5 DEF Row
  <2>7. \A o \in Ops : published'[o] = IF o = i THEN published[o] + 1 ELSE published[o]
    BY <2>4, <2>5
  <2> QED BY <2>1, <2>3, <2>4, <2>6, <2>7
<1>2. QED
  BY <1>1, Inductive, PTL DEF Spec, PublishedOnlyByOwner


-----------------------------------------------------------------------------
(* The retry budget.  Any reconciler that still holds a claim counted within *)
(* MaxRetries may send the row back to the queue, whoever owns it by then:   *)
(* the save that follows the error check asks nobody.  The proof counts      *)
(* those claims against the takeovers that left them behind.                 *)

\* The claim at place i was counted as an attempt, or is only being audited.
Started(w, i) == i = 1 /\ pc[w] \in Finishing \ {"begin"}
Settled(w, i) == i = 1 /\ pc[w] = "auditError"

\* Token t belongs to a claim of o that may still ask for a retry.
Retriable(o, t) ==
    \E w \in Workers : \E i \in 1..Len(claims[w]) :
        /\ claims[w][i].id = o /\ claims[w][i].token = t
        /\ claims[w][i].attempt <= MaxRetries /\ ~Settled(w, i)

\* A claim of o that will start with a attempts already beyond the retries.
Beyond(o, a) ==
    \E w \in Workers : \E i \in 1..Len(claims[w]) :
        /\ claims[w][i].id = o /\ claims[w][i].attempt = a
        /\ a > MaxRetries /\ ~Started(w, i)

RetryTokens(o) == {t \in 0..issued : Retriable(o, t)}
Waiting == {"absent", "queued"}
Waits(o) == IF op[o].state \in Waiting /\ op[o].attempt <= MaxRetries THEN 1 ELSE 0

\* The ways in which o can still come to be queued within its retries.
Chances(o) == Cardinality(RetryTokens(o)) + Waits(o)

\* Each chance beyond the first, and each attempt beyond the budget, was paid
\* for by a takeover of its own.
BudgetOf(o) ==
    /\ Chances(o) <= takeovers[o] + 1
    /\ op[o].attempt > MaxRetries =>
          /\ op[o].attempt + Chances(o) <= MaxRetries + 1 + takeovers[o]
          /\ op[o].state \in Waiting => op[o].attempt + Chances(o) <= MaxRetries + takeovers[o]
    /\ \A a \in Nat : Beyond(o, a) => a + Chances(o) <= MaxRetries + takeovers[o]

BudgetInv == \A o \in Ops : BudgetOf(o)

\* A set of tokens can be counted.
LEMMA TokensCounted ==
    ASSUME NEW n \in Nat, NEW S \in SUBSET (0..n)
    PROVE  IsFiniteSet(S) /\ Cardinality(S) \in Nat
<1>1. 0 \in Int /\ n \in Int
  OBVIOUS
<1>2. IsFiniteSet(0..n)
  BY <1>1, FS_Interval
<1> QED BY <1>2, FS_Subset, FS_CardinalityType

\* Chances can be counted, before a step and after it.
LEMMA ChancesCounted ==
    ASSUME TypeOK, TypeOK', NEW o \in Ops
    PROVE  /\ IsFiniteSet(RetryTokens(o)) /\ Cardinality(RetryTokens(o)) \in Nat
           /\ Waits(o) \in 0..1 /\ Chances(o) \in Nat
           /\ IsFiniteSet(RetryTokens(o)') /\ Cardinality(RetryTokens(o))' \in Nat
           /\ Waits(o)' \in 0..1 /\ Chances(o)' \in Nat
<1>1. issued \in Nat /\ issued' \in Nat
  BY DEF TypeOK
<1>2. RetryTokens(o) \in SUBSET (0..issued) /\ RetryTokens(o)' \in SUBSET (0..issued')
  BY DEF RetryTokens
<1>3. /\ IsFiniteSet(RetryTokens(o)) /\ Cardinality(RetryTokens(o)) \in Nat
      /\ IsFiniteSet(RetryTokens(o)') /\ Cardinality(RetryTokens(o)') \in Nat
  BY <1>1, <1>2, TokensCounted
<1> QED BY <1>3 DEF Waits, Chances

\* Rows, claims and counters as the budget reads them.
LEMMA BudgetTypes ==
    ASSUME TypeOK
    PROVE  /\ MaxRetries \in Nat
           /\ \A o \in Ops : op[o].attempt \in Nat /\ takeovers[o] \in Nat
           /\ \A w \in Workers : \A i \in 1..Len(claims[w]) :
                 /\ claims[w][i].id \in Ops /\ claims[w][i].token \in Nat
                 /\ claims[w][i].attempt \in Nat
<1>1. ASSUME NEW w \in Workers, NEW i \in 1..Len(claims[w])
      PROVE  claims[w][i] \in Claim
  <2>1. claims[w] \in Seq(Claim)
    BY DEF TypeOK
  <2> QED BY <2>1, ElementOfSeq
<1> QED BY <1>1, BoundsAssumption DEF TypeOK, Row, Claim

\* Fewer tokens leave fewer chances.
LEMMA FewerTokens ==
    ASSUME TypeOK, TypeOK', NEW o \in Ops, issued' = issued,
           \A t \in Nat : Retriable(o, t)' => Retriable(o, t)
    PROVE  Cardinality(RetryTokens(o))' <= Cardinality(RetryTokens(o))
<1>1. ASSUME NEW t \in RetryTokens(o)' PROVE t \in RetryTokens(o)
  <2>1. t \in 0..issued' /\ Retriable(o, t)'
    BY DEF RetryTokens
  <2>2. t \in 0..issued /\ t \in Nat
    BY <2>1 DEF TypeOK
  <2> QED BY <2>1, <2>2 DEF RetryTokens
<1>2. RetryTokens(o)' \subseteq RetryTokens(o)
  BY <1>1
<1>3. IsFiniteSet(RetryTokens(o))
  BY ChancesCounted
<1> QED BY <1>2, <1>3, FS_Subset

\* A step that adds no claim, counts nothing and queues nothing keeps the
\* budget of o.
LEMMA BudgetKept ==
    ASSUME TypeOK, TypeOK', NEW o \in Ops, BudgetOf(o),
           issued' = issued, takeovers' = takeovers,
           op'[o].attempt = op[o].attempt,
           op'[o].state \in Waiting => op[o].state \in Waiting,
           \A t \in Nat : Retriable(o, t)' => Retriable(o, t),
           \A a \in Nat : Beyond(o, a)' => Beyond(o, a)
    PROVE  BudgetOf(o)'
<1>1. Cardinality(RetryTokens(o))' <= Cardinality(RetryTokens(o))
  BY FewerTokens
<1>2. Waits(o)' <= Waits(o)
  BY DEF Waits
<1>3. Chances(o)' <= Chances(o)
  <2>1. /\ Cardinality(RetryTokens(o)) \in Nat /\ Cardinality(RetryTokens(o))' \in Nat
        /\ Waits(o) \in Nat /\ Waits(o)' \in Nat
    BY ChancesCounted
  <2> QED BY <1>1, <1>2, <2>1 DEF Chances
<1>4. Chances(o) \in Nat /\ Chances(o)' \in Nat
  BY ChancesCounted
<1>5. MaxRetries \in Nat /\ op[o].attempt \in Nat /\ takeovers[o] \in Nat
  BY BudgetTypes
<1>6. Chances(o)' <= takeovers[o] + 1
  BY <1>3, <1>4, <1>5 DEF BudgetOf
<1>7. ASSUME op[o].attempt > MaxRetries
      PROVE  /\ op[o].attempt + Chances(o)' <= MaxRetries + 1 + takeovers[o]
             /\ op'[o].state \in Waiting =>
                   op[o].attempt + Chances(o)' <= MaxRetries + takeovers[o]
  BY <1>3, <1>4, <1>5, <1>7 DEF BudgetOf
<1>8. ASSUME NEW a \in Nat, Beyond(o, a)'
      PROVE  a + Chances(o)' <= MaxRetries + takeovers[o]
  <2>1. a + Chances(o) <= MaxRetries + takeovers[o]
    BY <1>8 DEF BudgetOf
  <2> QED BY <1>3, <1>4, <1>5, <2>1
<1>9. /\ Chances(o)' <= takeovers'[o] + 1
      /\ op'[o].attempt > MaxRetries =>
            /\ op'[o].attempt + Chances(o)' <= MaxRetries + 1 + takeovers'[o]
            /\ op'[o].state \in Waiting =>
                  op'[o].attempt + Chances(o)' <= MaxRetries + takeovers'[o]
  BY <1>6, <1>7
<1>10. \A a \in Nat : Beyond(o, a)' => a + Chances(o)' <= MaxRetries + takeovers'[o]
  BY <1>8
<1> QED BY <1>9, <1>10 DEF BudgetOf

\* Claims that stay where they are lose no mark and gain no chance, as long as
\* nobody who settles or executes goes back to the start.
LEMMA ClaimsStay ==
    ASSUME claims' = claims, NEW o \in Ops,
           \A w \in Workers : /\ pc[w] = "auditError" => pc'[w] = "auditError"
                              /\ pc[w] \in Finishing \ {"begin"} =>
                                    pc'[w] \in Finishing \ {"begin"}
    PROVE  /\ \A t \in Nat : Retriable(o, t)' => Retriable(o, t)
           /\ \A a \in Nat : Beyond(o, a)' => Beyond(o, a)
BY DEF Retriable, Beyond, Settled, Started

\* Leaving a claim takes its chance away and moves the others up.
LEMMA ClaimsMoveUp ==
    ASSUME TypeOK, NEW w \in Workers, claims[w] # <<>>, NextClaim(w), NEW o \in Ops
    PROVE  /\ \A t \in Nat : Retriable(o, t)' => Retriable(o, t)
           /\ \A a \in Nat : Beyond(o, a)' => Beyond(o, a)
<1>1. /\ claims[w] \in Seq(Claim)
      /\ claims'[w] = Tail(claims[w])
      /\ \A v \in Workers : v # w => claims'[v] = claims[v] /\ pc'[v] = pc[v]
  BY DEF NextClaim, TypeOK
<1>2. /\ Len(Tail(claims[w])) = Len(claims[w]) - 1
      /\ \A i \in 1..Len(Tail(claims[w])) : Tail(claims[w])[i] = claims[w][i + 1]
  BY <1>1, HeadTailProperties
<1>3. Len(claims[w]) \in Nat
  BY <1>1, LenProperties
<1>4. \A i \in 1..Len(claims'[w]) :
         i + 1 \in 1..Len(claims[w]) /\ i + 1 # 1 /\ claims'[w][i] = claims[w][i + 1]
  <2>1. claims'[w] = Tail(claims[w])
    BY <1>1
  <2>2. SUFFICES ASSUME NEW i \in 1..Len(Tail(claims[w]))
                 PROVE  /\ i + 1 \in 1..Len(claims[w]) /\ i + 1 # 1
                        /\ Tail(claims[w])[i] = claims[w][i + 1]
    BY <2>1
  <2>3. i + 1 \in 1..Len(claims[w]) /\ i + 1 # 1
    BY <1>2, <1>3
  <2> QED BY <1>2, <2>3
<1>5. ASSUME NEW t \in Nat, Retriable(o, t)' PROVE Retriable(o, t)
  <2>1. PICK v \in Workers : \E i \in 1..Len(claims'[v]) :
           /\ claims'[v][i].id = o /\ claims'[v][i].token = t
           /\ claims'[v][i].attempt <= MaxRetries /\ ~Settled(v, i)'
    BY <1>5 DEF Retriable
  <2>2. PICK i \in 1..Len(claims'[v]) :
           /\ claims'[v][i].id = o /\ claims'[v][i].token = t
           /\ claims'[v][i].attempt <= MaxRetries /\ ~Settled(v, i)'
    BY <2>1
  <2>3. CASE v = w
    BY <1>4, <2>2, <2>3 DEF Retriable, Settled
  <2>4. CASE v # w
    BY <1>1, <2>2, <2>4 DEF Retriable, Settled
  <2> QED BY <2>3, <2>4
<1>6. ASSUME NEW a \in Nat, Beyond(o, a)' PROVE Beyond(o, a)
  <2>1. PICK v \in Workers : \E i \in 1..Len(claims'[v]) :
           /\ claims'[v][i].id = o /\ claims'[v][i].attempt = a
           /\ a > MaxRetries /\ ~Started(v, i)'
    BY <1>6 DEF Beyond
  <2>2. PICK i \in 1..Len(claims'[v]) :
           /\ claims'[v][i].id = o /\ claims'[v][i].attempt = a
           /\ a > MaxRetries /\ ~Started(v, i)'
    BY <2>1
  <2>3. CASE v = w
    BY <1>4, <2>2, <2>3 DEF Beyond, Started
  <2>4. CASE v # w
    BY <1>1, <2>2, <2>4 DEF Beyond, Started
  <2> QED BY <2>3, <2>4
<1> QED BY <1>5, <1>6


\* A new claim costs nothing when the row was queued, for the row itself held
\* that chance; when it was taken over, the takeover pays for it.
LEMMA ClaimBudget ==
    ASSUME IInv, IInv', BudgetInv, NEW w \in Workers, NEW p \in Ops, NEW o \in Ops,
           pc[w] \in {"claimQueued", "claimStale"}, p \in QueuedOps \cup StaleOps,
           ClaimOperation(w, p), pc' = pc
    PROVE  BudgetOf(o)'
<1> USE DEF IInv
<1> DEFINE c == [id |-> p, token |-> issued + 1, attempt |-> op[p].attempt]
<1>1. /\ claims' = [claims EXCEPT ![w] = Append(claims[w], c)]
      /\ issued' = issued + 1 /\ issued \in Nat
      /\ op'[o].attempt = op[o].attempt
      /\ o # p => op'[o] = op[o] /\ takeovers'[o] = takeovers[o]
      /\ op'[p].state = "running"
      /\ takeovers'[p] = IF p \in StaleOps THEN takeovers[p] + 1 ELSE takeovers[p]
  BY DEF ClaimOperation, TypeOK, Row
<1>2. claims[w] \in Seq(Claim) /\ c \in Claim
  <2>1. c \in Claim
    BY DEF TypeOK, Claim, Row
  <2> QED BY <2>1 DEF TypeOK
<1>3. /\ Len(Append(claims[w], c)) = Len(claims[w]) + 1
      /\ \A i \in 1..Len(claims[w]) : Append(claims[w], c)[i] = claims[w][i]
      /\ Append(claims[w], c)[Len(claims[w]) + 1] = c
  <2> HIDE DEF c
  <2> QED BY <1>2, AppendProperties
<1> HIDE DEF c
<1>4. ASSUME NEW v \in Workers, NEW i \in 1..Len(claims'[v])
      PROVE  \/ i \in 1..Len(claims[v]) /\ claims'[v][i] = claims[v][i]
             \/ v = w /\ claims'[v][i] = c
  <2>1. Len(claims[v]) \in Nat
    BY LenProperties DEF TypeOK
  <2>2. CASE v # w
    BY <1>1, <2>2 DEF TypeOK
  <2>3. CASE v = w
    <3>1. claims'[v] = Append(claims[w], c)
      BY <1>1, <2>3 DEF TypeOK
    <3>2. i \in 1..Len(claims[w]) \/ i = Len(claims[w]) + 1
      BY <1>3, <2>1, <2>3, <3>1
    <3> QED BY <1>3, <2>3, <3>1, <3>2
  <2> QED BY <2>2, <2>3
<1>5. \A v \in Workers, i \in Nat :
         /\ Settled(v, i)' <=> Settled(v, i)
         /\ Started(v, i)' <=> Started(v, i)
  BY DEF Settled, Started
<1>6. c.id = p /\ c.token = issued + 1 /\ c.attempt = op[p].attempt
  BY DEF c
<1>7. ASSUME NEW t \in Nat, Retriable(o, t)'
      PROVE  Retriable(o, t) \/ (o = p /\ t = issued + 1 /\ op[p].attempt <= MaxRetries)
  <2>1. PICK v \in Workers : \E i \in 1..Len(claims'[v]) :
           /\ claims'[v][i].id = o /\ claims'[v][i].token = t
           /\ claims'[v][i].attempt <= MaxRetries /\ ~Settled(v, i)'
    BY <1>7 DEF Retriable
  <2>2. PICK i \in 1..Len(claims'[v]) :
           /\ claims'[v][i].id = o /\ claims'[v][i].token = t
           /\ claims'[v][i].attempt <= MaxRetries /\ ~Settled(v, i)'
    BY <2>1
  <2>3. CASE claims'[v][i] = c
    BY <1>6, <2>2, <2>3
  <2>4. CASE i \in 1..Len(claims[v]) /\ claims'[v][i] = claims[v][i]
    BY <2>2, <2>4 DEF Retriable, Settled
  <2> QED BY <1>4, <2>3, <2>4
<1>8. ASSUME NEW a \in Nat, Beyond(o, a)'
      PROVE  Beyond(o, a) \/ (o = p /\ a = op[p].attempt /\ a > MaxRetries)
  <2>1. PICK v \in Workers : \E i \in 1..Len(claims'[v]) :
           /\ claims'[v][i].id = o /\ claims'[v][i].attempt = a
           /\ a > MaxRetries /\ ~Started(v, i)'
    BY <1>8 DEF Beyond
  <2>2. PICK i \in 1..Len(claims'[v]) :
           /\ claims'[v][i].id = o /\ claims'[v][i].attempt = a
           /\ a > MaxRetries /\ ~Started(v, i)'
    BY <2>1
  <2>3. CASE claims'[v][i] = c
    BY <1>6, <2>2, <2>3
  <2>4. CASE i \in 1..Len(claims[v]) /\ claims'[v][i] = claims[v][i]
    BY <2>2, <2>4 DEF Beyond, Started
  <2> QED BY <1>4, <2>3, <2>4
<1>9. /\ IsFiniteSet(RetryTokens(o)) /\ Cardinality(RetryTokens(o)) \in Nat
      /\ Waits(o) \in 0..1 /\ Chances(o) \in Nat
      /\ IsFiniteSet(RetryTokens(o)') /\ Cardinality(RetryTokens(o))' \in Nat
      /\ Waits(o)' \in 0..1 /\ Chances(o)' \in Nat
  BY ChancesCounted
<1>10. /\ MaxRetries \in Nat /\ op[o].attempt \in Nat /\ takeovers[o] \in Nat
       /\ takeovers'[o] \in Nat /\ op[p].attempt \in Nat
  BY BudgetTypes DEF TypeOK
<1>11. BudgetOf(o)
  BY DEF BudgetInv
<1>12. ASSUME o # p \/ op[p].attempt > MaxRetries
       PROVE  Chances(o)' <= Chances(o)
  <2>1. RetryTokens(o)' \subseteq RetryTokens(o)
    <3>1. SUFFICES ASSUME NEW t \in RetryTokens(o)' PROVE t \in RetryTokens(o)
      OBVIOUS
    <3>2. t \in Nat /\ Retriable(o, t)'
      BY <1>1 DEF RetryTokens
    <3>3. Retriable(o, t)
      BY <1>7, <1>10, <1>12, <3>2
    <3>4. t <= issued
      BY <3>3, TokenOfBatch DEF Retriable
    <3> QED BY <1>1, <3>2, <3>3, <3>4 DEF RetryTokens
  <2>2. Cardinality(RetryTokens(o))' <= Cardinality(RetryTokens(o))
    BY <1>9, <2>1, FS_Subset
  <2>3. Waits(o)' <= Waits(o)
    BY <1>1, <1>10, <1>12 DEF Waits
  <2> QED BY <1>9, <2>2, <2>3 DEF Chances
<1>13. CASE o # p
  <2>1. Chances(o)' <= Chances(o) /\ op'[o] = op[o] /\ takeovers'[o] = takeovers[o]
    BY <1>1, <1>12, <1>13
  <2>2. \A a \in Nat : Beyond(o, a)' => Beyond(o, a)
    BY <1>8, <1>13
  <2> QED BY <1>9, <1>10, <1>11, <2>1, <2>2 DEF BudgetOf
<1>14. CASE o = p /\ op[p].attempt <= MaxRetries
  <2>1. RetryTokens(o)' \subseteq RetryTokens(o) \cup {issued + 1}
    <3>1. SUFFICES ASSUME NEW t \in RetryTokens(o)', t # issued + 1 PROVE t \in RetryTokens(o)
      OBVIOUS
    <3>2. t \in Nat /\ Retriable(o, t)'
      BY <1>1 DEF RetryTokens
    <3>3. Retriable(o, t)
      BY <1>7, <3>1, <3>2
    <3>4. t <= issued
      BY <3>3, TokenOfBatch DEF Retriable
    <3> QED BY <1>1, <3>2, <3>3, <3>4 DEF RetryTokens
  <2>2. Cardinality(RetryTokens(o))' <= Cardinality(RetryTokens(o)) + 1
    <3>1. /\ IsFiniteSet(RetryTokens(o) \cup {issued + 1})
          /\ \/ Cardinality(RetryTokens(o) \cup {issued + 1}) = Cardinality(RetryTokens(o)) + 1
             \/ Cardinality(RetryTokens(o) \cup {issued + 1}) = Cardinality(RetryTokens(o))
      BY <1>9, FS_AddElement
    <3>2. Cardinality(RetryTokens(o)') <= Cardinality(RetryTokens(o) \cup {issued + 1})
      BY <2>1, <3>1, FS_Subset
    <3> QED BY <1>9, <3>1, <3>2
  <2>3. Waits(o)' = 0
    BY <1>1, <1>14 DEF Waits, Waiting
  <2>4. Chances(o)' <= Chances(o) + (takeovers'[o] - takeovers[o])
    <3>1. CASE p \in StaleOps
      <4>1. takeovers'[o] = takeovers[o] + 1
        BY <1>1, <1>14, <3>1
      <4> QED BY <1>9, <1>10, <2>2, <2>3, <4>1 DEF Chances
    <3>2. CASE p \notin StaleOps
      <4>1. takeovers'[o] = takeovers[o] /\ op[o].state = "queued"
        BY <1>1, <1>14, <3>2 DEF QueuedOps
      <4>2. Waits(o) = 1
        BY <1>14, <4>1 DEF Waits, Waiting
      <4> QED BY <1>9, <1>10, <2>2, <2>3, <4>1, <4>2 DEF Chances
    <3> QED BY <3>1, <3>2
  <2>5. \A a \in Nat : Beyond(o, a)' => Beyond(o, a)
    BY <1>8, <1>10, <1>14
  <2>6. Chances(o)' <= takeovers'[o] + 1
    BY <1>9, <1>10, <1>11, <2>4 DEF BudgetOf
  <2>7. ~(op'[o].attempt > MaxRetries)
    BY <1>1, <1>10, <1>14
  <2>8. ASSUME NEW a \in Nat, Beyond(o, a)'
        PROVE  a + Chances(o)' <= MaxRetries + takeovers'[o]
    <3>1. a + Chances(o) <= MaxRetries + takeovers[o]
      BY <1>11, <2>5, <2>8 DEF BudgetOf
    <3> QED BY <1>9, <1>10, <2>4, <3>1
  <2> QED BY <2>6, <2>7, <2>8 DEF BudgetOf
<1>15. CASE o = p /\ op[p].attempt > MaxRetries
  <2>1. Chances(o)' <= Chances(o)
    BY <1>12, <1>15
  <2>2. takeovers'[o] >= takeovers[o] /\ op'[o].state \notin Waiting
    BY <1>1, <1>10, <1>15 DEF Waiting
  <2>3. op[o].attempt + Chances(o) <= MaxRetries + takeovers'[o]
    <3>1. CASE p \in StaleOps
      <4>1. takeovers'[o] = takeovers[o] + 1
        BY <1>1, <1>15, <3>1
      <4>2. op[o].attempt + Chances(o) <= MaxRetries + 1 + takeovers[o]
        BY <1>11, <1>15 DEF BudgetOf
      <4> QED BY <1>9, <1>10, <4>1, <4>2
    <3>2. CASE p \notin StaleOps
      <4>1. takeovers'[o] = takeovers[o] /\ op[o].state = "queued"
        BY <1>1, <1>15, <3>2 DEF QueuedOps
      <4> QED BY <1>11, <1>15, <4>1 DEF BudgetOf, Waiting
    <3> QED BY <3>1, <3>2
  <2>4. Chances(o)' <= takeovers'[o] + 1
    BY <1>9, <1>10, <1>11, <2>1, <2>2 DEF BudgetOf
  <2>5. op'[o].attempt + Chances(o)' <= MaxRetries + 1 + takeovers'[o]
    BY <1>1, <1>9, <1>10, <2>1, <2>3
  <2>6. ASSUME NEW a \in Nat, Beyond(o, a)'
        PROVE  a + Chances(o)' <= MaxRetries + takeovers'[o]
    <3>1. CASE Beyond(o, a)
      <4>1. a + Chances(o) <= MaxRetries + takeovers[o]
        BY <1>11, <3>1 DEF BudgetOf
      <4> QED BY <1>9, <1>10, <2>1, <2>2, <4>1
    <3>2. CASE a = op[o].attempt
      BY <1>9, <1>10, <2>1, <2>3, <3>2
    <3> QED BY <1>8, <1>15, <2>6, <3>1, <3>2
  <2> QED BY <2>2, <2>4, <2>5, <2>6 DEF BudgetOf
<1> QED BY <1>10, <1>13, <1>14, <1>15


\* The claim a reconciler executes is the first of its batch, and no other
\* claim of anybody has its token.
LEMMA CurrentIsFirst ==
    ASSUME IInv, NEW w \in Workers, pc[w] \in Finishing
    PROVE  /\ 1 \in 1..Len(claims[w]) /\ Current(w) = claims[w][1]
           /\ \A v \in Workers : \A i \in 1..Len(claims[v]) :
                 claims[v][i].token = Current(w).token => v = w /\ i = 1
<1>1. claims[w] \in Seq(Claim) /\ claims[w] # <<>>
  BY DEF IInv, TypeOK, BatchInv
<1>2. Len(claims[w]) \in Nat \ {0}
  BY <1>1, EmptySeq
<1>3. Current(w) = claims[w][1]
  BY <1>1 DEF Current
<1> QED BY <1>2, <1>3 DEF IInv, TokensUnique

\* The first save turns the claim into an attempt: one that exceeds the budget
\* was beyond it already, or has used up its own chance.
LEMMA BeginBudget ==
    ASSUME IInv, IInv', BudgetInv, NEW w \in Workers, NEW o \in Ops, BeginOperation(w)
    PROVE  BudgetOf(o)'
<1> USE DEF IInv
<1> DEFINE c == claims[w][1]
           t == [claims[w] EXCEPT ![1].attempt = @ + 1]
<1>1. pc[w] = "begin" /\ pc[w] \in Finishing
  BY DEF BeginOperation, Finishing
<1>2. /\ 1 \in 1..Len(claims[w]) /\ Current(w) = c
      /\ \A v \in Workers : \A i \in 1..Len(claims[v]) :
            claims[v][i].token = c.token => v = w /\ i = 1
  BY <1>1, CurrentIsFirst
<1>3. /\ MaxRetries \in Nat /\ op[o].attempt \in Nat /\ takeovers[o] \in Nat
      /\ c.id \in Ops /\ c.token \in Nat /\ c.attempt \in Nat
  BY <1>2, BudgetTypes
<1>4. /\ claims[w] \in Seq(Claim) /\ claims[w] # <<>>
      /\ claims' = [claims EXCEPT ![w] = t]
  BY <1>1 DEF TypeOK, BatchInv, BeginOperation
<1>5. /\ Len(t) = Len(claims[w]) /\ t[1].id = c.id /\ t[1].token = c.token
      /\ t[1].attempt = c.attempt + 1
      /\ \A i \in 1..Len(claims[w]) : i # 1 => t[i] = claims[w][i]
  <2> DEFINE e == [c EXCEPT !.attempt = @ + 1]
  <2>1. c \in Claim
    BY <1>2, <1>4, ElementOfSeq
  <2>2. e \in Claim /\ e.id = c.id /\ e.token = c.token /\ e.attempt = c.attempt + 1
    <3>1. \A d \in Claim : LET x == [d EXCEPT !.attempt = @ + 1]
                           IN  /\ x \in Claim /\ x.id = d.id /\ x.token = d.token
                               /\ x.attempt = d.attempt + 1
      BY DEF Claim
    <3> QED BY <2>1, <3>1
  <2>3. t = [claims[w] EXCEPT ![1] = e]
    OBVIOUS
  <2> HIDE DEF e, c, t
  <2>4. Len(t) = Len(claims[w]) /\ \A j \in 1..Len(claims[w]) : t[j] = IF j = 1 THEN e ELSE claims[w][j]
    BY <1>2, <1>4, <2>2, <2>3, ExceptSeq
  <2> QED BY <1>2, <2>2, <2>4
<1> HIDE DEF c, t
<1>6. /\ \A v \in Workers : v # w => claims'[v] = claims[v] /\ pc'[v] = pc[v]
      /\ claims'[w] = t /\ pc'[w] = "execute" /\ issued' = issued /\ takeovers' = takeovers
  BY <1>4 DEF BeginOperation, TypeOK, ghost
<1>7. /\ o # c.id => op'[o] = op[o]
      /\ o = c.id => op'[o].attempt = c.attempt + 1 /\ op'[o].state = "running"
  BY <1>2, <1>3 DEF BeginOperation, TypeOK, Row
<1>8. ASSUME NEW k \in Nat, Retriable(o, k)'
      PROVE  Retriable(o, k) /\ (k = c.token => c.attempt < MaxRetries)
  <2>1. PICK v \in Workers : \E i \in 1..Len(claims'[v]) :
           /\ claims'[v][i].id = o /\ claims'[v][i].token = k
           /\ claims'[v][i].attempt <= MaxRetries /\ ~Settled(v, i)'
    BY <1>8 DEF Retriable
  <2>2. PICK i \in 1..Len(claims'[v]) :
           /\ claims'[v][i].id = o /\ claims'[v][i].token = k
           /\ claims'[v][i].attempt <= MaxRetries /\ ~Settled(v, i)'
    BY <2>1
  <2>3. CASE v = w /\ i = 1
    <3>1. c.id = o /\ c.token = k /\ c.attempt + 1 <= MaxRetries /\ ~Settled(w, 1)
      BY <1>1, <1>5, <1>6, <2>2, <2>3 DEF Settled
    <3>2. Retriable(o, k)
      BY <1>2, <1>3, <3>1 DEF Retriable, c
    <3> QED BY <1>3, <3>1, <3>2
  <2>4. CASE ~(v = w /\ i = 1)
    <3>1. i \in 1..Len(claims[v]) /\ claims'[v][i] = claims[v][i] /\ ~Settled(v, i)
      BY <1>1, <1>5, <1>6, <2>2, <2>4 DEF Settled
    <3>2. k # c.token
      BY <1>2, <2>2, <2>4, <3>1
    <3> QED BY <2>2, <3>1, <3>2 DEF Retriable
  <2> QED BY <2>3, <2>4
<1>9. ASSUME NEW a \in Nat, Beyond(o, a)' PROVE Beyond(o, a)
  <2>1. PICK v \in Workers : \E i \in 1..Len(claims'[v]) :
           /\ claims'[v][i].id = o /\ claims'[v][i].attempt = a
           /\ a > MaxRetries /\ ~Started(v, i)'
    BY <1>9 DEF Beyond
  <2>2. PICK i \in 1..Len(claims'[v]) :
           /\ claims'[v][i].id = o /\ claims'[v][i].attempt = a
           /\ a > MaxRetries /\ ~Started(v, i)'
    BY <2>1
  <2>3. ~(v = w /\ i = 1)
    BY <1>6, <2>2 DEF Started, Finishing
  <2>4. i \in 1..Len(claims[v]) /\ claims'[v][i] = claims[v][i] /\ ~Started(v, i)
    BY <1>5, <1>6, <2>2, <2>3 DEF Started
  <2> QED BY <2>2, <2>4 DEF Beyond
<1>10. BudgetOf(o)
  BY DEF BudgetInv
<1>11. CASE o # c.id
  <2>1. op'[o] = op[o]
    BY <1>7, <1>11
  <2> QED BY <1>6, <1>8, <1>9, <1>10, <2>1, BudgetKept
<1>12. CASE o = c.id
  <2>1. /\ IsFiniteSet(RetryTokens(o)) /\ Cardinality(RetryTokens(o)) \in Nat
        /\ Waits(o) \in 0..1 /\ Chances(o) \in Nat
        /\ IsFiniteSet(RetryTokens(o)') /\ Cardinality(RetryTokens(o))' \in Nat
        /\ Waits(o)' \in 0..1 /\ Chances(o)' \in Nat
    BY ChancesCounted
  <2>2. Waits(o)' = 0
    BY <1>7, <1>12 DEF Waits, Waiting
  <2>3. Cardinality(RetryTokens(o))' <= Cardinality(RetryTokens(o))
    BY <1>6, <1>8, FewerTokens
  <2>4. Chances(o)' <= Chances(o)
    BY <2>1, <2>2, <2>3 DEF Chances
  <2>5. ASSUME c.attempt = MaxRetries
        PROVE  Chances(o)' + 1 <= Chances(o)
    <3>1. c.token \in RetryTokens(o)
      <4>1. Retriable(o, c.token)
        BY <1>1, <1>2, <1>3, <1>12, <2>5 DEF Retriable, Settled, c
      <4>2. c.token <= issued /\ issued \in Nat
        BY <1>2, TokenOfBatch DEF TypeOK, c
      <4> QED BY <1>3, <4>1, <4>2 DEF RetryTokens
    <3>2. RetryTokens(o)' \subseteq RetryTokens(o) \ {c.token}
      <4>1. SUFFICES ASSUME NEW k \in RetryTokens(o)' PROVE k \in RetryTokens(o) \ {c.token}
        OBVIOUS
      <4>2. k \in 0..issued /\ k \in Nat /\ Retriable(o, k)'
        BY <1>6 DEF RetryTokens
      <4> QED BY <1>3, <1>8, <2>5, <4>2 DEF RetryTokens
    <3>3. /\ IsFiniteSet(RetryTokens(o) \ {c.token})
          /\ Cardinality(RetryTokens(o) \ {c.token}) = Cardinality(RetryTokens(o)) - 1
      BY <2>1, <3>1, FS_RemoveElement
    <3>4. Cardinality(RetryTokens(o)') <= Cardinality(RetryTokens(o) \ {c.token})
      BY <3>2, <3>3, FS_Subset
    <3> QED BY <2>1, <2>2, <3>3, <3>4 DEF Chances
  <2>6. Chances(o) <= takeovers[o] + 1
    BY <1>10 DEF BudgetOf
  <2>7. ASSUME c.attempt > MaxRetries
        PROVE  c.attempt + Chances(o) <= MaxRetries + takeovers[o]
    <3>1. Beyond(o, c.attempt)
      BY <1>1, <1>2, <1>12, <2>7 DEF Beyond, Started, c
    <3> QED BY <1>3, <1>10, <3>1 DEF BudgetOf
  <2>8. Chances(o)' <= takeovers'[o] + 1
    BY <1>3, <1>6, <2>1, <2>4, <2>6
  <2>9. ASSUME op'[o].attempt > MaxRetries
        PROVE  op'[o].attempt + Chances(o)' <= MaxRetries + 1 + takeovers'[o]
    <3>1. op'[o].attempt = c.attempt + 1 /\ takeovers'[o] = takeovers[o]
      BY <1>6, <1>7, <1>12
    <3>2. CASE c.attempt = MaxRetries
      BY <1>3, <2>1, <2>5, <2>6, <3>1, <3>2
    <3>3. CASE c.attempt > MaxRetries
      BY <1>3, <2>1, <2>4, <2>7, <3>1, <3>3
    <3> QED BY <1>3, <2>9, <3>1, <3>2, <3>3
  <2>10. ASSUME NEW a \in Nat, Beyond(o, a)'
         PROVE  a + Chances(o)' <= MaxRetries + takeovers'[o]
    <3>1. a + Chances(o) <= MaxRetries + takeovers[o]
      BY <1>9, <1>10, <2>10 DEF BudgetOf
    <3> QED BY <1>3, <1>6, <2>1, <2>4, <3>1
  <2>11. op'[o].state \notin Waiting
    BY <1>7, <1>12 DEF Waiting
  <2> QED BY <2>8, <2>9, <2>10, <2>11 DEF BudgetOf
<1> QED BY <1>11, <1>12


\* The save after an error uses up the chance of its claim, and only a claim
\* that had one queues the row again.
LEMMA SaveBudget ==
    ASSUME IInv, IInv', BudgetInv, NEW w \in Workers, NEW o \in Ops, SaveError(w)
    PROVE  BudgetOf(o)'
<1> USE DEF IInv
<1> DEFINE c == claims[w][1]
           retry == outcome[w] = "retryable" /\ c.attempt <= MaxRetries
<1>1. pc[w] = "saveError" /\ pc[w] \in Finishing
  BY DEF SaveError, Finishing
<1>2. /\ 1 \in 1..Len(claims[w]) /\ Current(w) = c
      /\ \A v \in Workers : \A i \in 1..Len(claims[v]) :
            claims[v][i].token = c.token => v = w /\ i = 1
  BY <1>1, CurrentIsFirst
<1>3. /\ MaxRetries \in Nat /\ op[o].attempt \in Nat /\ takeovers[o] \in Nat
      /\ c.id \in Ops /\ c.token \in Nat /\ c.attempt \in Nat
  BY <1>2, BudgetTypes
<1>4. /\ issued' = issued /\ takeovers' = takeovers
      /\ op'[o].attempt = op[o].attempt
      /\ o # c.id => op'[o] = op[o]
      /\ o = c.id => op'[o].state = IF retry THEN "queued" ELSE "failed"
  BY <1>2, <1>3 DEF SaveError, ghost, TypeOK, Row
<1>5. /\ \A k \in Nat : Retriable(o, k)' => Retriable(o, k)
      /\ \A a \in Nat : Beyond(o, a)' => Beyond(o, a)
  <2>1. CASE NextClaim(w)
    BY <1>1, <2>1, ClaimsMoveUp DEF BatchInv
  <2>2. CASE Goto(w, "auditError")
    <3>1. claims' = claims
          /\ \A v \in Workers : /\ pc[v] = "auditError" => pc'[v] = "auditError"
                                /\ pc[v] \in Finishing \ {"begin"} =>
                                      pc'[v] \in Finishing \ {"begin"}
      BY <1>1, <2>2 DEF Goto, TypeOK, Finishing
    <3> QED BY <3>1, ClaimsStay
  <2> QED BY <2>1, <2>2 DEF SaveError
<1>6. BudgetOf(o)
  BY DEF BudgetInv
<1>7. CASE ~(o = c.id /\ retry)
  <2>1. op'[o].state \in Waiting => op[o].state \in Waiting
    BY <1>4, <1>7 DEF Waiting
  <2> QED BY <1>4, <1>5, <1>6, <2>1, BudgetKept
<1>8. CASE o = c.id /\ retry
  <2>1. claims' = claims /\ pc' = [pc EXCEPT ![w] = "auditError"]
    BY <1>8 DEF SaveError, Goto
  <2>2. pc'[w] = "auditError"
    BY <2>1 DEF TypeOK
  <2>3. c.token \in RetryTokens(o)
    <3>1. Retriable(o, c.token)
      BY <1>1, <1>2, <1>3, <1>8 DEF Retriable, Settled
    <3>2. c.token <= issued /\ issued \in Nat
      BY <1>2, TokenOfBatch DEF TypeOK
    <3> QED BY <1>3, <3>1, <3>2 DEF RetryTokens
  <2> HIDE DEF c
  <2>4. \A k \in Nat : k = c.token => ~Retriable(o, k)'
    <3>1. SUFFICES ASSUME NEW v \in Workers, NEW i \in 1..Len(claims'[v]),
                          claims'[v][i].token = c.token
                   PROVE  Settled(v, i)'
      BY DEF Retriable
    <3>2. v = w /\ i = 1
      BY <1>2, <2>1, <3>1
    <3> QED BY <2>2, <3>2 DEF Settled
  <2>5. /\ IsFiniteSet(RetryTokens(o)) /\ Cardinality(RetryTokens(o)) \in Nat
        /\ Waits(o) \in 0..1 /\ Chances(o) \in Nat
        /\ IsFiniteSet(RetryTokens(o)') /\ Cardinality(RetryTokens(o))' \in Nat
        /\ Waits(o)' \in 0..1 /\ Chances(o)' \in Nat
    BY ChancesCounted
  <2>6. Cardinality(RetryTokens(o))' <= Cardinality(RetryTokens(o)) - 1
    <3>1. RetryTokens(o)' \subseteq RetryTokens(o) \ {c.token}
      <4>1. SUFFICES ASSUME NEW k \in RetryTokens(o)' PROVE k \in RetryTokens(o) \ {c.token}
        OBVIOUS
      <4>2. k \in 0..issued /\ k \in Nat /\ Retriable(o, k)'
        BY <1>4 DEF RetryTokens
      <4>3. k # c.token
        BY <2>4, <4>2
      <4> QED BY <1>5, <4>2, <4>3 DEF RetryTokens
    <3>2. /\ IsFiniteSet(RetryTokens(o) \ {c.token})
          /\ Cardinality(RetryTokens(o) \ {c.token}) = Cardinality(RetryTokens(o)) - 1
      BY <2>3, <2>5, FS_RemoveElement
    <3>3. Cardinality(RetryTokens(o)') <= Cardinality(RetryTokens(o) \ {c.token})
      BY <3>1, <3>2, FS_Subset
    <3> QED BY <3>2, <3>3
  <2>7. Chances(o)' <= Chances(o)
    BY <2>5, <2>6 DEF Chances
  <2>8. op[o].attempt > MaxRetries => Chances(o)' + 1 <= Chances(o)
    <3>1. ASSUME op[o].attempt > MaxRetries PROVE Waits(o)' = 0
      <4>1. ~(op'[o].attempt <= MaxRetries)
        BY <1>3, <1>4, <3>1
      <4> QED BY <4>1 DEF Waits
    <3> QED BY <2>5, <2>6, <3>1 DEF Chances
  <2>9. Chances(o)' <= takeovers'[o] + 1
    BY <1>3, <1>4, <1>6, <2>5, <2>7 DEF BudgetOf
  <2>10. ASSUME op'[o].attempt > MaxRetries
         PROVE  op'[o].attempt + Chances(o)' <= MaxRetries + takeovers'[o]
    <3>1. op[o].attempt + Chances(o) <= MaxRetries + 1 + takeovers[o]
      BY <1>4, <1>6, <2>10 DEF BudgetOf
    <3> QED BY <1>3, <1>4, <2>5, <2>8, <2>10, <3>1
  <2>11. ASSUME NEW a \in Nat, Beyond(o, a)'
         PROVE  a + Chances(o)' <= MaxRetries + takeovers'[o]
    <3>1. a + Chances(o) <= MaxRetries + takeovers[o]
      BY <1>5, <1>6, <2>11 DEF BudgetOf
    <3> QED BY <1>3, <1>4, <2>5, <2>7, <3>1
  <2>12. op'[o].attempt > MaxRetries =>
           op'[o].attempt + Chances(o)' <= MaxRetries + 1 + takeovers'[o]
    BY <1>3, <1>4, <2>5, <2>10
  <2> QED BY <2>9, <2>10, <2>11, <2>12 DEF BudgetOf
<1> QED BY <1>7, <1>8

\* A dead reconciler's claims ask for nothing any more.
LEMMA CrashBudget ==
    ASSUME IInv, IInv', BudgetInv, NEW w \in Workers, NEW o \in Ops, Crash(w)
    PROVE  BudgetOf(o)'
<1> USE DEF IInv
<1>1. claims'[w] = <<>> /\ \A v \in Workers : v # w => claims'[v] = claims[v] /\ pc'[v] = pc[v]
  BY DEF Crash, TypeOK
<1>2. \A v \in Workers : \A i \in 1..Len(claims'[v]) :
         /\ v # w /\ i \in 1..Len(claims[v]) /\ claims'[v][i] = claims[v][i]
         /\ (Settled(v, i)' <=> Settled(v, i)) /\ (Started(v, i)' <=> Started(v, i))
  <2>1. Len(<<>>) = 0 /\ 1..0 = {}
    BY EmptySeq
  <2> QED BY <1>1, <2>1 DEF Settled, Started
<1>3. \A k \in Nat : Retriable(o, k)' => Retriable(o, k)
  BY <1>2 DEF Retriable
<1>4. \A a \in Nat : Beyond(o, a)' => Beyond(o, a)
  BY <1>2 DEF Beyond
<1>5. op' = op /\ issued' = issued /\ takeovers' = takeovers /\ BudgetOf(o)
  BY DEF Crash, rows, BudgetInv
<1> QED BY <1>3, <1>4, <1>5, BudgetKept

\* Leases and ends of a row leave its attempts alone and queue nothing.
LEMMA RowsKept ==
    ASSUME TypeOK, NEW o \in Ops, NEW p \in Ops,
           \/ op' = op
           \/ \E l \in Leases : op' = [op EXCEPT ![p].lease = l]
           \/ op[p].state = "absent" /\ op' = [op EXCEPT ![p].state = "queued"]
           \/ op' = [op EXCEPT ![p].state = "succeeded",
                               ![p].token = NoToken, ![p].lease = "none"]
    PROVE  /\ op'[o].attempt = op[o].attempt
           /\ op'[o].state \in Waiting => op[o].state \in Waiting
<1>1. op \in [Ops -> Row] /\ op[p] \in Row
  BY DEF TypeOK
<1>2. o # p => op'[o] = op[o]
  BY <1>1
<1>3. \/ op'[p] = op[p]
      \/ \E l \in Leases : op'[p] = [op[p] EXCEPT !.lease = l]
      \/ op[p].state = "absent" /\ op'[p] = [op[p] EXCEPT !.state = "queued"]
      \/ op'[p] = [op[p] EXCEPT !.state = "succeeded", !.token = NoToken, !.lease = "none"]
  BY <1>1
<1>4. op'[p].attempt = op[p].attempt /\ (op'[p].state \in Waiting => op[p].state \in Waiting)
  BY <1>1, <1>3 DEF Row, Waiting
<1> QED BY <1>2, <1>4

\* Every step keeps the budget of every operation.
LEMMA StepBudget == IInv /\ IInv' /\ BudgetInv /\ [Next]_vars => BudgetInv'
<1> SUFFICES ASSUME IInv, IInv', BudgetInv, [Next]_vars, NEW o \in Ops PROVE BudgetOf(o)'
  BY DEF BudgetInv
<1> USE DEF IInv
<1>1. BudgetOf(o)
  BY DEF BudgetInv
<1>2. ASSUME \/ UNCHANGED vars
             \/ \E p \in Ops : Enqueue(p) \/ LeaseOverrun(p) \/ LeaseAbandoned(p)
      PROVE  BudgetOf(o)'
  <2>1. claims' = claims /\ pc' = pc /\ issued' = issued /\ takeovers' = takeovers
    BY <1>2 DEF Enqueue, LeaseOverrun, LeaseAbandoned, vars, local, ghost
  <2>2. \/ op' = op
        \/ \E p \in Ops : \/ op' = [op EXCEPT ![p].lease = "expired"]
                          \/ op[p].state = "absent" /\ op' = [op EXCEPT ![p].state = "queued"]
    BY <1>2 DEF Enqueue, LeaseOverrun, LeaseAbandoned, vars, rows
  <2>3. /\ op'[o].attempt = op[o].attempt
        /\ op'[o].state \in Waiting => op[o].state \in Waiting
    BY <2>2, RowsKept DEF Leases
  <2> QED BY <1>1, <2>1, <2>3, ClaimsStay, BudgetKept
<1>3. ASSUME NEW w \in Workers,
             \/ ListQueued(w) \/ ListStale(w) \/ StartBatch(w)
             \/ RenewLease(w) \/ ExecutorFails(w) \/ ExecutorReturns(w)
             \/ CheckError(w) /\ ~NextClaim(w)
             \/ RenewForCommit(w) /\ ~NextClaim(w)
      PROVE  BudgetOf(o)'
  <2>1. /\ claims' = claims /\ issued' = issued /\ takeovers' = takeovers
        /\ \A v \in Workers : /\ pc[v] = "auditError" => pc'[v] = "auditError"
                              /\ pc[v] \in Finishing \ {"begin"} =>
                                    pc'[v] \in Finishing \ {"begin"}
    BY <1>3 DEF ListQueued, ListStale, StartBatch, RenewLease, ExecutorFails, ExecutorReturns,
                CheckError, RenewForCommit, Goto, rows, ghost, TypeOK, Finishing
  <2>2. op' = op \/ \E p \in Ops : op' = [op EXCEPT ![p].lease = "live"]
    <3>1. CASE RenewLease(w) \/ RenewForCommit(w)
      <4>1. Current(w).id \in Ops
        BY <3>1, CurrentIsClaim DEF RenewLease, RenewForCommit, Finishing
      <4> QED BY <3>1, <4>1 DEF RenewLease, RenewForCommit
    <3>2. CASE ~(RenewLease(w) \/ RenewForCommit(w))
      BY <1>3, <3>2 DEF ListQueued, ListStale, StartBatch, ExecutorFails, ExecutorReturns,
                        CheckError, rows
    <3> QED BY <3>1, <3>2
  <2>3. /\ op'[o].attempt = op[o].attempt
        /\ op'[o].state \in Waiting => op[o].state \in Waiting
    BY <2>2, RowsKept DEF Leases
  <2> QED BY <1>1, <2>1, <2>3, ClaimsStay, BudgetKept
<1>4. ASSUME NEW w \in Workers, NextClaim(w),
             CheckError(w) \/ AuditError(w) \/ RenewForCommit(w) \/ CommitSuccess(w)
      PROVE  BudgetOf(o)'
  <2>1. pc[w] \in Finishing /\ issued' = issued /\ takeovers' = takeovers
    BY <1>4 DEF CheckError, AuditError, RenewForCommit, CommitSuccess, Finishing, ghost
  <2>2. claims[w] # <<>> /\ Current(w).id \in Ops
    BY <2>1, CurrentIsClaim DEF BatchInv
  <2>3. \/ op' = op
        \/ op' = [op EXCEPT ![Current(w).id].lease = "live"]
        \/ op' = [op EXCEPT ![Current(w).id].state = "succeeded",
                            ![Current(w).id].token = NoToken, ![Current(w).id].lease = "none"]
    BY <1>4 DEF CheckError, AuditError, RenewForCommit, CommitSuccess, rows
  <2>4. /\ op'[o].attempt = op[o].attempt
        /\ op'[o].state \in Waiting => op[o].state \in Waiting
    BY <2>2, <2>3, RowsKept DEF Leases
  <2> QED BY <1>1, <1>4, <2>1, <2>2, <2>4, ClaimsMoveUp, BudgetKept
<1>5. ASSUME NEW w \in Workers, NEW p \in Ops, Visit(w, p) PROVE BudgetOf(o)'
  <2>1. pc' = pc /\ pc[w] \in {"claimQueued", "claimStale"}
    BY <1>5 DEF Visit
  <2>2. CASE p \in QueuedOps \cup StaleOps /\ ClaimOperation(w, p)
    BY <2>1, <2>2, ClaimBudget
  <2>3. CASE UNCHANGED <<op, claims, issued, takeovers>>
    BY <1>1, <2>1, <2>3, ClaimsStay, BudgetKept
  <2> QED BY <1>5, <2>2, <2>3 DEF Visit
<1> QED
  <2>1. ASSUME NEW w \in Workers, Execute(w) \/ Settle(w) PROVE BudgetOf(o)'
    BY <2>1, <1>3, <1>4, BeginBudget, SaveBudget DEF Execute, Settle, AuditError, CommitSuccess
  <2>2. ASSUME NEW w \in Workers, Reconcile(w) PROVE BudgetOf(o)'
    BY <2>2, <1>3, <1>5 DEF Reconcile
  <2> QED BY <1>2, <2>1, <2>2, CrashBudget DEF Next

\* At first every row is one chance away from nothing.
LEMMA InitBudget == Init => BudgetInv
<1> SUFFICES ASSUME Init, NEW o \in Ops PROVE BudgetOf(o)
  BY DEF BudgetInv
<1>1. \A w \in Workers : 1..Len(claims[w]) = {}
  <2>1. \A w \in Workers : Len(claims[w]) = 0
    BY EmptySeq DEF Init
  <2> QED BY <2>1
<1>2. RetryTokens(o) = {} /\ \A a : ~Beyond(o, a)
  BY <1>1 DEF RetryTokens, Retriable, Beyond
<1>3. Chances(o) = 1
  BY <1>2, FS_EmptySet, BoundsAssumption DEF Chances, Waits, Waiting, Init, NoRow
<1> QED BY <1>2, <1>3, BoundsAssumption DEF BudgetOf, Init, NoRow

\* However stale reconcilers rewind, requeue and restart an operation, its
\* attempts exceed the retries only by as many as leases of it were taken over
\* (worker.py, the attempt counter of _finish_pipeline_operation and the
\* retry test of its two error paths).
THEOREM BudgetsHold == Spec => []AttemptsWithinBudget
<1>1. IInv /\ BudgetInv => AttemptsWithinBudget
  <2> SUFFICES ASSUME IInv, BudgetInv, NEW o \in Ops
               PROVE  op[o].attempt <= MaxRetries + 1 + takeovers[o]
    BY DEF AttemptsWithinBudget
  <2>1. MaxRetries \in Nat /\ op[o].attempt \in Nat /\ takeovers[o] \in Nat
    BY BudgetTypes DEF IInv
  <2>2. Chances(o) \in Nat
    <3>1. issued \in Nat /\ RetryTokens(o) \in SUBSET (0..issued)
      BY DEF IInv, TypeOK, RetryTokens
    <3>2. Cardinality(RetryTokens(o)) \in Nat
      BY <3>1, TokensCounted
    <3> QED BY <3>2 DEF Chances, Waits
  <2>3. op[o].attempt > MaxRetries => op[o].attempt + Chances(o) <= MaxRetries + 1 + takeovers[o]
    BY DEF BudgetInv, BudgetOf
  <2> QED BY <2>1, <2>2, <2>3
<1> QED BY <1>1, InitBudget, StepBudget, Inductive, PTL DEF Spec

=============================================================================
