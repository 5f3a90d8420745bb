---------------------------- MODULE RecoveryLine ----------------------------
(***************************************************************************)
(* What a dataset promises about its recovery points, whoever publishes,   *)
(* loses his lease, dies or tries again: a recovery point is put once and  *)
(* never replaced, and the latest pointer moves from a point to a child of *)
(* it that has been put.  So the points it ever showed form one line, and  *)
(* no publication is lost between two workers that saw the same pointer.   *)
(***************************************************************************)

CONSTANTS Ops,      \* the recovery points, named for the operations
          Nothing   \* no recovery point

VARIABLES points,   \* points[o]: what was put under the name o
          latest    \* the point the pointer shows

Init ==
    /\ points = [o \in Ops |-> Nothing]
    /\ latest = Nothing

Put(o) ==
    /\ points[o] = Nothing
    /\ points'[o].op = o
    /\ points' = [points EXCEPT ![o] = points'[o]]
    /\ UNCHANGED latest

Advance(o) ==
    /\ points[o] # Nothing
    /\ points[o].parent = latest.op
    /\ latest' = points[o]
    /\ UNCHANGED points

Next == \E o \in Ops : Put(o) \/ Advance(o)
Spec == Init /\ [][Next]_<<points, latest>>
=============================================================================
