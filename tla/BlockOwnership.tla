--------------------------- MODULE BlockOwnership ---------------------------
(***************************************************************************)
(* What the KV cache promises about its blocks, whatever the attention     *)
(* types, the block tables and the prefix cache above them: every call     *)
(* moves one request from the blocks it holds to other ones.  Blocks it    *)
(* gives up lose a reference, blocks it shares gain one (touch), and fresh *)
(* blocks come out of the free queue (get_new_blocks).  KVCacheSystem is   *)
(* shown to implement this module.                                         *)
(***************************************************************************)
EXTENDS Integers, FiniteSets

CONSTANTS Blocks, Requests

VARIABLES
    avail,      \* the blocks in the free queue
    ref,        \* ref_cnt of the blocks
    holds       \* the blocks in the block tables of a request

vars == <<avail, ref, holds>>

Init ==
    /\ avail = Blocks
    /\ ref = [b \in Blocks |-> 0]
    /\ holds = [r \in Requests |-> {}]

\* Request r comes to hold the set new, of which fresh was allocated and the
\* rest was kept or is shared.  What it drops is free when nobody else holds it,
\* and may be allocated again by the same call.
Update(r, new, fresh) ==
    LET dropped == holds[r] \ (new \ fresh)
        shared == new \ (holds[r] \cup fresh)
        released == avail \cup {b \in dropped : ref[b] = 1}
    IN  /\ holds' = [holds EXCEPT ![r] = new]
        /\ fresh \subseteq released
        /\ ref' = [b \in Blocks |-> CASE b \in fresh -> 1
                                      [] b \in dropped \ fresh -> ref[b] - 1
                                      [] b \in shared -> ref[b] + 1
                                      [] OTHER -> ref[b]]
        /\ avail' = released \ new

Next ==
    \E r \in Requests, new \in SUBSET Blocks : \E fresh \in SUBSET new : Update(r, new, fresh)

Spec == Init /\ [][Next]_vars

-----------------------------------------------------------------------------
(* Proved in module BlockOwnershipProofs, when there are finitely many     *)
(* requests.                                                               *)

\* Only blocks of the pool are free, counted or held.
TypeOK ==
    /\ avail \subseteq Blocks
    /\ ref \in [Blocks -> Nat]
    /\ holds \in [Requests -> SUBSET Blocks]

Holders(b) == {r \in Requests : b \in holds[r]}

\* ref_cnt counts the requests that hold a block.
CountsHolders == \A b \in Blocks : ref[b] = Cardinality(Holders(b))

\* A block is in the free queue exactly when no request holds it: the pool never
\* hands out a block that is in use, and never loses one.
FreeIffUnheld == \A b \in Blocks : b \in avail <=> Holders(b) = {}

\* The inductive invariant.
OwnershipInv == TypeOK /\ CountsHolders /\ FreeIffUnheld
=============================================================================
