----------------------------- MODULE Broadcast ------------------------------
(***************************************************************************)
(* What MessageQueue promises its users: the n-th object that a dequeue    *)
(* returns to a reader is the n-th object enqueued, for every reader, and  *)
(* a writer is never more than `Capacity' objects ahead of any of them.    *)
(* An object is its position in the order of the enqueues.                 *)
(***************************************************************************)
EXTENDS Integers

CONSTANTS Readers, Capacity

VARIABLES
    sent,   \* the number of objects enqueued
    out     \* the object each reader got from its last dequeue, 0 at first

bvars == <<sent, out>>

BInit ==
    /\ sent = 0
    /\ out = [r \in Readers |-> 0]

BSend ==
    /\ \A r \in Readers : sent - out[r] < Capacity
    /\ sent' = sent + 1
    /\ out' = out

BDeliver(r) ==
    /\ out[r] < sent
    /\ out' = [out EXCEPT ![r] = @ + 1]
    /\ sent' = sent

BNext == BSend \/ \E r \in Readers : BDeliver(r)

BSpec == BInit /\ [][BNext]_bvars
=============================================================================
