--------------------------- MODULE DataOpsWorker ---------------------------
(***************************************************************************)
(* Claiming, executing and settling data operations                        *)
(* (flowdocs/dataops/worker.py).                                            *)
(*                                                                         *)
(* A DataOperation row of the control database is queued by a view or by   *)
(* the scheduler.  Every call of reconcile_receipts, from the maintenance  *)
(* worker's loop or from the reconcile_data_operations command, lists the  *)
(* queued rows, claims each of them in a transaction of its own, fills the *)
(* rest of the batch with running rows whose lease ran out, and then       *)
(* executes its claims one after the other outside any transaction.  The   *)
(* only protection of an executing claim is its lease: a fresh token and a *)
(* deadline written into the row.                                          *)
(*                                                                         *)
(* One action is one transaction, or one autocommitted statement, of one   *)
(* reconciler.  Between two of them other reconcilers run, leases run out  *)
(* and the process may die.                                                *)
(***************************************************************************)
EXTENDS Naturals, Sequences, FiniteSets

CONSTANTS
    Workers,      \* reconciler processes
    Ops,          \* operation rows, numbered in created_at order
    Limit,        \* reconcile_receipts(limit=...)
    MaxRetries,   \* DATAOPS_AUTO_HEAL_MAX_RETRIES
    MaxFaults     \* bound: leases that run out under a live holder, deaths

ASSUME OpsAssumption == Ops \subseteq Nat
ASSUME BoundsAssumption ==
    /\ Limit \in Nat \ {0}
    /\ MaxRetries \in Nat /\ MaxFaults \in Nat

VARIABLES
    op,         \* op[o]: the DataOperation row
    published,  \* published[o]: pipeline_receipt_published audit events
    failures,   \* failures[o]: pipeline_failed audit events
    pc,         \* pc[w]: where reconcile_receipts stands in worker w
    todo,       \* todo[w]: listed ids not yet visited
    claims,     \* claims[w]: claimed rows as read, in execution order
    outcome,    \* outcome[w]: how the executor of Head(claims[w]) ended
    issued,     \* number of lease tokens generated so far (uuid4)
    takeovers,  \* history: takeovers[o] counts claims of expired leases
    overruns, crashes   \* the two kinds of fault so far

rows  == <<op, published, failures>>
local == <<pc, todo, claims, outcome>>
ghost == <<issued, takeovers, overruns, crashes>>
vars  == <<rows, local, ghost>>

NoToken == 0

States == {"absent", "queued", "running", "succeeded", "failed"}
Leases == {"none", "live", "expired"}    \* lease_expires_at against now
PCs == {"idle", "claimQueued", "claimStale", "begin", "execute", "checkError",
        "saveError", "auditError", "renew", "commit"}
Outcomes == {"none", "retryable", "terminal", "unexpected"}

Row   == [state: States, token: Nat, lease: Leases, attempt: Nat]
Claim == [id: Ops, token: Nat, attempt: Nat]

NoRow == [state |-> "absent", token |-> NoToken, lease |-> "none", attempt |-> 0]

-----------------------------------------------------------------------------
(* What a reconciler's code refers to.                                     *)

\* The claim being executed: `operation` in _finish_pipeline_operation.
Current(w) == Head(claims[w])

\* The row still says RUNNING under this claim's token: the test of
\* _renew_operation_lease, of both error paths and of the final commit.
Owns(c) == op[c.id].state = "running" /\ op[c.id].token = c.token

\* The first n ids of S in created_at order.
Earliest(S, n) == {o \in S : Cardinality({p \in S : p < o}) < n}

IsEarliest(o, S) == o \in S /\ \A p \in S : o <= p

QueuedOps == {o \in Ops : op[o].state = "queued"}

\* Fault: only null deadlines are stale.
StaleOpsNullOnly == {o \in Ops : op[o].state = "running" /\ op[o].lease = "none"}

\* RUNNING with a deadline that is null or has passed.
StaleOps == {o \in Ops : op[o].state = "running" /\ op[o].lease # "live"}

\* Leave the current claim and take the next one of the batch.
NextClaim(w) ==
    /\ claims' = [claims EXCEPT ![w] = Tail(@)]
    /\ pc' = [pc EXCEPT ![w] = IF Tail(claims[w]) = <<>> THEN "idle" ELSE "begin"]
    /\ outcome' = [outcome EXCEPT ![w] = "none"]
    /\ UNCHANGED todo

Goto(w, l) == pc' = [pc EXCEPT ![w] = l] /\ UNCHANGED <<todo, claims, outcome>>

-----------------------------------------------------------------------------
Init ==
    /\ op = [o \in Ops |-> NoRow]
    /\ published = [o \in Ops |-> 0]
    /\ failures = [o \in Ops |-> 0]
    /\ pc = [w \in Workers |-> "idle"]
    /\ todo = [w \in Workers |-> {}]
    /\ claims = [w \in Workers |-> <<>>]
    /\ outcome = [w \in Workers |-> "none"]
    /\ issued = 0
    /\ takeovers = [o \in Ops |-> 0]
    /\ overruns = 0 /\ crashes = 0

\* A view or queue_backup_if_due creates the row; get_or_create on the
\* idempotency key makes a repeated request find the same row.
Enqueue(o) ==
    /\ op[o].state = "absent"
    /\ \A p \in Ops : p < o => op[p].state # "absent"
    /\ op' = [op EXCEPT ![o].state = "queued"]
    /\ UNCHANGED <<published, failures, local, ghost>>

\* reconcile_receipts reads the ids of the first queued pipeline operations.
ListQueued(w) ==
    /\ pc[w] = "idle"
    /\ todo' = [todo EXCEPT ![w] = Earliest(QueuedOps, Limit)]
    /\ pc' = [pc EXCEPT ![w] = "claimQueued"]
    /\ UNCHANGED <<rows, claims, outcome, ghost>>

\* The loop over queued ids ended: list expired leases for the rest of the
\* batch, or start executing a full one.
ListStale(w) ==
    LET remaining == IF Len(claims[w]) < Limit THEN Limit - Len(claims[w]) ELSE 0
    IN  /\ pc[w] = "claimQueued"
        /\ todo[w] = {}
        /\ todo' = [todo EXCEPT ![w] = Earliest(StaleOps, remaining)]
        /\ pc' = [pc EXCEPT ![w] = "claimStale"]
        /\ UNCHANGED <<rows, claims, outcome, ghost>>

\* Fault: a takeover keeps the token it finds in the row.
ClaimOperationReusingToken(w, o) ==
    LET token == IF op[o].token = NoToken THEN issued + 1 ELSE op[o].token
    IN  /\ op' = [op EXCEPT ![o].state = "running", ![o].token = token, ![o].lease = "live"]
        /\ claims' = [claims EXCEPT
               ![w] = Append(@, [id |-> o, token |-> token, attempt |-> op[o].attempt])]
        /\ issued' = issued + 1
        /\ takeovers' = [takeovers EXCEPT ![o] = IF o \in StaleOps THEN @ + 1 ELSE @]

\* The transaction that claims a row: the test is made again on the row
\* itself, and a claim always writes a fresh token and a new deadline.
ClaimOperation(w, o) ==
    LET token == issued + 1
    IN  /\ op' = [op EXCEPT ![o].state = "running", ![o].token = token, ![o].lease = "live"]
        /\ claims' = [claims EXCEPT
               ![w] = Append(@, [id |-> o, token |-> token, attempt |-> op[o].attempt])]
        /\ issued' = token
        /\ takeovers' = [takeovers EXCEPT ![o] = IF o \in StaleOps THEN @ + 1 ELSE @]

\* One call of _claim_pipeline_operation for the next listed id.
Visit(w, o) ==
    /\ pc[w] \in {"claimQueued", "claimStale"}
    /\ IsEarliest(o, todo[w])
    /\ todo' = [todo EXCEPT ![w] = @ \ {o}]
    /\ \/ o \in QueuedOps \cup StaleOps /\ ClaimOperation(w, o)
       \/ o \notin QueuedOps \cup StaleOps /\ UNCHANGED <<op, claims, issued, takeovers>>
    /\ UNCHANGED <<published, failures, pc, outcome, overruns, crashes>>

\* Both listings are exhausted: execute the claims, or end an empty cycle.
StartBatch(w) ==
    /\ pc[w] = "claimStale"
    /\ todo[w] = {}
    /\ Goto(w, IF claims[w] = <<>> THEN "idle" ELSE "begin")
    /\ UNCHANGED <<rows, ghost>>

\* The first save of _finish_pipeline_operation.  It writes the values of the
\* row as it was claimed, whatever the row says by now.
BeginOperation(w) ==
    LET c == Current(w)
    IN  /\ pc[w] = "begin"
        /\ op' = [op EXCEPT ![c.id].attempt = c.attempt + 1, ![c.id].state = "running",
                            ![c.id].token = c.token, ![c.id].lease = "live"]
        /\ claims' = [claims EXCEPT ![w][1].attempt = @ + 1]
        /\ pc' = [pc EXCEPT ![w] = "execute"]
        /\ UNCHANGED <<published, failures, todo, outcome, ghost>>

\* The executor calls lease() between two stages.  The deadline moves only if
\* the row is still owned; otherwise operation_lease_lost is raised, retryable.
RenewLease(w) ==
    LET c == Current(w)
    IN  /\ pc[w] = "execute"
        /\ \/ /\ Owns(c)
              /\ op' = [op EXCEPT ![c.id].lease = "live"]
              /\ UNCHANGED <<pc, outcome>>
           \/ /\ ~Owns(c)
              /\ pc' = [pc EXCEPT ![w] = "checkError"]
              /\ outcome' = [outcome EXCEPT ![w] = "retryable"]
              /\ UNCHANGED op
        /\ UNCHANGED <<published, failures, todo, claims, ghost>>

\* The executor raises: a pipeline error, retryable or not, or anything else.
ExecutorFails(w) ==
    /\ pc[w] = "execute"
    /\ \E r \in Outcomes \ {"none"} : outcome' = [outcome EXCEPT ![w] = r]
    /\ pc' = [pc EXCEPT ![w] = "checkError"]
    /\ UNCHANGED <<rows, todo, claims, ghost>>

ExecutorReturns(w) ==
    /\ pc[w] = "execute"
    /\ Goto(w, "renew")
    /\ UNCHANGED <<rows, ghost>>

\* The exists() query in both exception handlers: a lost claim is dropped.
CheckError(w) ==
    /\ pc[w] = "checkError"
    /\ \/ Owns(Current(w)) /\ Goto(w, "saveError")
       \/ ~Owns(Current(w)) /\ NextClaim(w)
    /\ UNCHANGED <<rows, ghost>>

\* Fault: one retry too many.
SaveErrorOneMoreRetry(w) ==
    LET c == Current(w)
        retry == outcome[w] = "retryable" /\ c.attempt <= MaxRetries + 1
    IN  /\ pc[w] = "saveError"
        /\ op' = [op EXCEPT ![c.id].state = IF retry THEN "queued" ELSE "failed",
                            ![c.id].token = NoToken, ![c.id].lease = "none"]
        /\ \/ outcome[w] = "unexpected" /\ NextClaim(w)
           \/ outcome[w] # "unexpected" /\ Goto(w, "auditError")
        /\ UNCHANGED <<published, failures, ghost>>

\* The save that follows it in a statement of its own, without the test.
SaveError(w) ==
    LET c == Current(w)
        retry == outcome[w] = "retryable" /\ c.attempt <= MaxRetries
    IN  /\ pc[w] = "saveError"
        /\ op' = [op EXCEPT ![c.id].state = IF retry THEN "queued" ELSE "failed",
                            ![c.id].token = NoToken, ![c.id].lease = "none"]
        /\ \/ outcome[w] = "unexpected" /\ NextClaim(w)
           \/ outcome[w] # "unexpected" /\ Goto(w, "auditError")
        /\ UNCHANGED <<published, failures, ghost>>

AuditError(w) ==
    /\ pc[w] = "auditError"
    /\ failures' = [failures EXCEPT ![Current(w).id] = @ + 1]
    /\ NextClaim(w)
    /\ UNCHANGED <<op, published, ghost>>

\* The renewal after the executor returned: a lost lease drops the result.
RenewForCommit(w) ==
    LET c == Current(w)
    IN  /\ pc[w] = "renew"
        /\ \/ Owns(c) /\ op' = [op EXCEPT ![c.id].lease = "live"] /\ Goto(w, "commit")
           \/ ~Owns(c) /\ NextClaim(w) /\ UNCHANGED op
        /\ UNCHANGED <<published, failures, ghost>>

\* Fault: the commit trusts the renewal before it.
CommitSuccessUnchecked(w) ==
    LET c == Current(w)
    IN  /\ pc[w] = "commit"
        /\ op' = [op EXCEPT ![c.id].state = "succeeded",
                            ![c.id].token = NoToken, ![c.id].lease = "none"]
        /\ published' = [published EXCEPT ![c.id] = @ + 1]
        /\ NextClaim(w)
        /\ UNCHANGED <<failures, ghost>>

\* The transaction that publishes the result and its audit event.
CommitSuccess(w) ==
    LET c == Current(w)
    IN  /\ pc[w] = "commit"
        /\ \/ /\ Owns(c)
              /\ op' = [op EXCEPT ![c.id].state = "succeeded",
                                  ![c.id].token = NoToken, ![c.id].lease = "none"]
              /\ published' = [published EXCEPT ![c.id] = @ + 1]
           \/ ~Owns(c) /\ UNCHANGED <<op, published>>
        /\ NextClaim(w)
        /\ UNCHANGED <<failures, ghost>>

\* Some live reconciler holds the token of o in its batch.
Held(o) == \E w \in Workers : \E i \in 1..Len(claims[w]) :
               claims[w][i].id = o /\ claims[w][i].token = op[o].token

\* A deadline passes although the holder is alive: its current stage, or the
\* operations before it in the batch, take longer than the lease.
LeaseOverrun(o) ==
    /\ op[o].lease = "live" /\ Held(o)
    /\ overruns + crashes < MaxFaults
    /\ overruns' = overruns + 1
    /\ op' = [op EXCEPT ![o].lease = "expired"]
    /\ UNCHANGED <<published, failures, local, issued, takeovers, crashes>>

\* A deadline passes that no process will ever renew.
LeaseAbandoned(o) ==
    /\ op[o].lease = "live" /\ ~Held(o)
    /\ op' = [op EXCEPT ![o].lease = "expired"]
    /\ UNCHANGED <<published, failures, local, ghost>>

\* The process dies; the next one starts with an empty batch.
Crash(w) ==
    /\ pc[w] # "idle" /\ overruns + crashes < MaxFaults
    /\ crashes' = crashes + 1
    /\ pc' = [pc EXCEPT ![w] = "idle"]
    /\ todo' = [todo EXCEPT ![w] = {}]
    /\ claims' = [claims EXCEPT ![w] = <<>>]
    /\ outcome' = [outcome EXCEPT ![w] = "none"]
    /\ UNCHANGED <<rows, issued, takeovers, overruns>>

Execute(w) == RenewLease(w) \/ ExecutorFails(w) \/ ExecutorReturns(w)

Settle(w) ==
    \/ BeginOperation(w) \/ CheckError(w) \/ SaveError(w) \/ AuditError(w)
    \/ RenewForCommit(w) \/ CommitSuccess(w)

Reconcile(w) ==
    \/ ListQueued(w) \/ (\E o \in Ops : Visit(w, o)) \/ ListStale(w) \/ StartBatch(w)

Next ==
    \/ \E w \in Workers : Reconcile(w) \/ Execute(w) \/ Settle(w) \/ Crash(w)
    \/ \E o \in Ops : Enqueue(o) \/ LeaseOverrun(o) \/ LeaseAbandoned(o)

Spec == Init /\ [][Next]_vars

\* Every reconciler is called again and again and each of its steps ends (the
\* worker loop polls without end; a remote call has a timeout); the executor
\* does not renew for ever; clocks advance past an abandoned deadline.
Fairness ==
    /\ \A w \in Workers :
          /\ WF_vars(Reconcile(w))
          /\ WF_vars(ExecutorFails(w) \/ ExecutorReturns(w))
          /\ WF_vars(Settle(w))
    /\ \A o \in Ops : WF_vars(LeaseAbandoned(o))

FairSpec == Spec /\ Fairness

-----------------------------------------------------------------------------
(* Properties.                                                             *)

\* The shape of the rows and of the reconcilers' memory.
TypeOK ==
    /\ op \in [Ops -> Row]
    /\ published \in [Ops -> Nat] /\ failures \in [Ops -> Nat]
    /\ pc \in [Workers -> PCs]
    /\ todo \in [Workers -> SUBSET Ops]
    /\ claims \in [Workers -> Seq(Claim)]
    /\ outcome \in [Workers -> Outcomes]
    /\ issued \in Nat
    /\ takeovers \in [Ops -> Nat]
    /\ overruns \in Nat /\ crashes \in Nat

\* However claims, takeovers, overwrites and retries interleave, no two
\* reconcilers ever both pass the ownership test for one operation, and none
\* passes it with two claims of the same batch.
OneOwner ==
    \A v, w \in Workers : \A i \in 1..Len(claims[v]), j \in 1..Len(claims[w]) :
        claims[v][i].id = claims[w][j].id /\ Owns(claims[v][i]) /\ Owns(claims[w][j])
            => v = w /\ i = j

\* A receipt is published only in the step that takes the row from RUNNING,
\* under the publisher's own token, to SUCCEEDED: a reconciler that lost its
\* claim between its last renewal and its commit publishes nothing.
PublishedOnlyByOwner ==
    [][\A o \in Ops : published'[o] # published[o] =>
          /\ published'[o] = published[o] + 1
          /\ op'[o].state = "succeeded"
          /\ \E w \in Workers : /\ pc[w] = "commit" /\ Current(w).id = o
                                /\ Owns(Current(w))]_vars

\* An operation is attempted beyond its retry budget only after a lease of it
\* was taken over: errors alone never exceed MaxRetries + 1 attempts.
AttemptsWithinBudget ==
    \A o \in Ops : op[o].attempt <= MaxRetries + 1 + takeovers[o]

\* Once overruns, deaths and failures stop, every operation settles for good,
\* whoever held its lease: no row stays claimed by a dead reconciler.
EveryOperationSettles ==
    \A o \in Ops : <>[](op[o].state \in {"absent", "succeeded", "failed"})

\* The contract's demand (docs/dataops/V3_IMPACT_ANALYSIS.md): no path may let
\* a stale lease holder publish.  No reconciler publishes while another one
\* holds a newer claim of the operation.  The unfenced first save breaks it.
StaleHolderNeverPublishes ==
    [][\A v, w \in Workers : \A o \in Ops :
          (v # w /\ pc[w] = "commit" /\ Current(w).id = o /\ published'[o] # published[o])
              => \A i \in 1..Len(claims[v]) :
                    claims[v][i].id = o => claims[v][i].token < Current(w).token]_vars
=============================================================================
