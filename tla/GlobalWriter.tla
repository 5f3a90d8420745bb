---------------------------- MODULE GlobalWriter ----------------------------
(***************************************************************************)
(* The writer control record of a dataset in the Vault                     *)
(* (flowdocs/core/global_writer.py): who may publish, guarded only by      *)
(* conditional puts and by a time limit.                                   *)
(*                                                                         *)
(* Every put gives the record a new ETag, here the epoch and the number of *)
(* puts under it.  A token is drawn per acquisition, and so is an epoch:   *)
(* the epoch stands for both.  Time is abstracted: a grant may lapse       *)
(* whenever it is held.                                                    *)
(***************************************************************************)
EXTENDS Naturals

CONSTANTS Workers   \* the processes that publish and promote

VARIABLES
    writer,   \* the stored record
    auth      \* auth[w]: what w believes it holds, and the ETag it read last

writerVars == <<writer, auth>>

Record == [epoch: Nat, rev: Nat, expired: BOOLEAN]
ETags  == Nat \X Nat
Grant  == [epoch: Nat, rev: Nat, seen: ETags]
NoGrant == [epoch |-> 0, rev |-> 0, seen |-> <<0, 0>>]

\* The record as the acquisition and the release under the given epoch left it.
WriterInit(epoch) ==
    /\ writer = [epoch |-> epoch, rev |-> 1, expired |-> TRUE]
    /\ auth = [w \in Workers |-> NoGrant]

ETag == <<writer.epoch, writer.rev>>
Held == ~writer.expired

\* acquire_global_writer: the record is read, then replaced if it still is the
\* one that was read.
AcquireRead(w) ==
    /\ ~Held
    /\ auth' = [auth EXCEPT ![w] = [NoGrant EXCEPT !.seen = ETag]]
    /\ UNCHANGED writer

CanAcquire(w) == auth[w].seen = ETag

AcquirePut(w) ==
    /\ CanAcquire(w)
    /\ writer' = [epoch |-> auth[w].seen[1] + 1, rev |-> 0, expired |-> FALSE]
    /\ auth' = [auth EXCEPT ![w] = [epoch |-> auth[w].seen[1] + 1, rev |-> 0, seen |-> @.seen]]

\* renew_global_writer: nothing but the ETag is compared.
CanRenew(w) == ETag = <<auth[w].epoch, auth[w].rev>>

Renew(w) ==
    /\ CanRenew(w)
    /\ writer' = [writer EXCEPT !.rev = @ + 1, !.expired = FALSE]
    /\ auth' = [auth EXCEPT ![w].rev = @ + 1]

\* validate_writer_for_publication, and the record it returns.
Valid(w) == Held /\ writer.epoch = auth[w].epoch

Validate(w) ==
    /\ Valid(w)
    /\ auth' = [auth EXCEPT ![w].rev = writer.rev]
    /\ UNCHANGED writer

\* release_global_writer: the record is read and compared with the caller's
\* token and epoch, then expired if it still is the one that was read.
\* Fault: the owner is not compared.
CanReleaseAny(w) == TRUE
CanRelease(w) == writer.epoch = auth[w].epoch

ReleaseRead(w) ==
    /\ CanRelease(w)
    /\ auth' = [auth EXCEPT ![w].seen = ETag]
    /\ UNCHANGED writer

ReleasePut(w) ==
    /\ writer' = IF auth[w].seen = ETag
                 THEN [writer EXCEPT !.rev = @ + 1, !.expired = TRUE] ELSE writer
    /\ auth' = [auth EXCEPT ![w] = NoGrant]

\* Nobody renewed the grant in time.
Lapse ==
    /\ Held
    /\ writer' = [writer EXCEPT !.expired = TRUE]
    /\ UNCHANGED auth
=============================================================================
