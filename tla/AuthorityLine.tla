--------------------------- MODULE AuthorityLine ---------------------------
(***************************************************************************)
(* What the Vault promises about the generations of a dataset, whoever     *)
(* publishes, loses his grant, dies or tries again: a manifest is written  *)
(* once and stays what it was; the authoritative pointer moves in one      *)
(* line, each move under a later writer epoch than the one before, to a    *)
(* manifest that is there and with its digest, naming the generation it    *)
(* replaces.                                                               *)
(***************************************************************************)
EXTENDS Naturals

CONSTANTS Gens, None   \* generation ids; no generation

VARIABLES
    manifests,   \* manifests[g]: the digest of g's manifest, 0 before it is put
    head         \* the authoritative pointer

NoHead == [gen |-> None, prev |-> None, digest |-> 0, epoch |-> 0]

Init ==
    /\ manifests \in [Gens -> Nat]
    /\ head = NoHead

Publish(g) ==
    /\ manifests[g] = 0
    /\ manifests'[g] > 0
    /\ manifests' = [manifests EXCEPT ![g] = manifests'[g]]
    /\ UNCHANGED head

Promote(g) ==
    /\ manifests[g] > 0
    /\ head'.epoch > head.epoch
    /\ head' = [gen |-> g, prev |-> head.gen, digest |-> manifests[g], epoch |-> head'.epoch]
    /\ UNCHANGED manifests

Next == \E g \in Gens : Publish(g) \/ Promote(g)
Spec == Init /\ [][Next]_<<manifests, head>>
=============================================================================
