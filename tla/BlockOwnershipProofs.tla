------------------------ MODULE BlockOwnershipProofs ------------------------
(***************************************************************************)
(* For any set of blocks and any finite set of requests: reference counts  *)
(* are exact, and a block is free exactly when no request holds it.        *)
(***************************************************************************)
EXTENDS BlockOwnership, FiniteSetTheorems, TLAPS

\* The sets of holders are finite, and empty exactly when they count zero.
LEMMA HoldersFinite ==
  ASSUME IsFiniteSet(Requests), NEW b
  PROVE  /\ IsFiniteSet(Holders(b))
         /\ Cardinality(Holders(b)) \in Nat
         /\ Cardinality(Holders(b)) = 0 <=> Holders(b) = {}
<1>1. Holders(b) \subseteq Requests
  BY DEF Holders
<1>2. IsFiniteSet(Holders(b))
  BY <1>1, FS_Subset
<1>3. QED
  BY <1>2, FS_CardinalityType, FS_EmptySet

\* The holders of a block after an update of request r.
LEMMA HoldersAfter ==
  ASSUME TypeOK, NEW r \in Requests, NEW new \in SUBSET Blocks, NEW fresh \in SUBSET new,
         Update(r, new, fresh), NEW b \in Blocks
  PROVE  /\ b \in new => Holders(b)' = Holders(b) \cup {r}
         /\ b \notin new => Holders(b)' = Holders(b) \ {r}
<1>1. holds' = [holds EXCEPT ![r] = new] /\ holds \in [Requests -> SUBSET Blocks]
  BY DEF Update, TypeOK
<1>2. holds'[r] = new /\ \A q \in Requests \ {r} : holds'[q] = holds[q]
  BY <1>1
<1>3. QED
  BY <1>2 DEF Holders

\* An update keeps the types.
LEMMA TypeStep ==
  ASSUME IsFiniteSet(Requests), OwnershipInv,
         NEW r \in Requests, NEW new \in SUBSET Blocks, NEW fresh \in SUBSET new,
         Update(r, new, fresh)
  PROVE  TypeOK'
<1> DEFINE dropped == holds[r] \ (new \ fresh)
           shared == new \ (holds[r] \cup fresh)
<1>1. avail' \subseteq Blocks
  BY DEF OwnershipInv, TypeOK, Update
<1>2. holds' \in [Requests -> SUBSET Blocks]
  BY DEF OwnershipInv, TypeOK, Update
<1>3. ASSUME NEW b \in Blocks, b \in dropped
      PROVE  ref[b] - 1 \in Nat
  <2>1. r \in Holders(b)
    BY <1>3 DEF Holders
  <2>2. ref[b] = Cardinality(Holders(b)) /\ ref[b] \in Nat
    BY DEF OwnershipInv, CountsHolders, TypeOK
  <2>3. ref[b] # 0
    BY <2>1, <2>2, HoldersFinite
  <2>4. QED
    BY <2>2, <2>3
<1>4. \A b \in Blocks : ref[b] \in Nat
  BY DEF OwnershipInv, TypeOK
<1>5. ref' = [b \in Blocks |-> CASE b \in fresh -> 1
                                 [] b \in dropped \ fresh -> ref[b] - 1
                                 [] b \in shared -> ref[b] + 1
                                 [] OTHER -> ref[b]]
  BY DEF Update
<1> HIDE DEF dropped, shared
<1>6. ref' \in [Blocks -> Nat]
  BY <1>3, <1>4, <1>5
<1>7. QED
  BY <1>1, <1>2, <1>6 DEF TypeOK

\* What an update does to the count of one block, by what the block is to it.
LEMMA RefAfter ==
  ASSUME NEW r \in Requests, NEW new \in SUBSET Blocks, NEW fresh \in SUBSET new,
         Update(r, new, fresh), NEW b \in Blocks
  PROVE  /\ b \in fresh => ref'[b] = 1
         /\ b \notin new /\ b \in holds[r] => ref'[b] = ref[b] - 1
         /\ b \in new /\ b \notin fresh /\ b \notin holds[r] => ref'[b] = ref[b] + 1
         /\ b \notin fresh /\ (b \in new <=> b \in holds[r]) => ref'[b] = ref[b]
  BY DEF Update

\* ref_cnt stays exact.
LEMMA CountsStep ==
  ASSUME IsFiniteSet(Requests), OwnershipInv,
         NEW r \in Requests, NEW new \in SUBSET Blocks, NEW fresh \in SUBSET new,
         Update(r, new, fresh)
  PROVE  CountsHolders'
<1> SUFFICES ASSUME NEW b \in Blocks
             PROVE  ref'[b] = Cardinality(Holders(b)')
  BY DEF CountsHolders
<1>1. /\ ref[b] = Cardinality(Holders(b))
      /\ b \in avail <=> Holders(b) = {}
  BY DEF OwnershipInv, CountsHolders, FreeIffUnheld
<1>2. IsFiniteSet(Holders(b)) /\ Cardinality(Holders(b)) \in Nat
  BY HoldersFinite
<1>3. r \in Holders(b) <=> b \in holds[r]
  BY DEF Holders
<1>4. /\ b \in new => Holders(b)' = Holders(b) \cup {r}
      /\ b \notin new => Holders(b)' = Holders(b) \ {r}
  BY HoldersAfter DEF OwnershipInv
<1>5. Cardinality(Holders(b) \cup {r})
        = IF r \in Holders(b) THEN Cardinality(Holders(b)) ELSE Cardinality(Holders(b)) + 1
  BY <1>2, FS_AddElement, Zenon
<1>6. Cardinality(Holders(b) \ {r})
        = IF r \in Holders(b) THEN Cardinality(Holders(b)) - 1 ELSE Cardinality(Holders(b))
  BY <1>2, FS_RemoveElement, Zenon
<1>7. CASE b \in fresh
  <2>1. b \in avail \/ (b \in holds[r] /\ ref[b] = 1)
    BY <1>7 DEF Update
  <2>2. CASE b \in avail
    <3>1. Holders(b) = {} /\ Cardinality(Holders(b)) = 0
      BY <1>1, <2>2, FS_EmptySet
    <3>2. Cardinality(Holders(b)') = 1
      BY <1>4, <1>5, <1>7, <3>1
    <3>3. QED
      BY <1>7, <3>2, RefAfter
  <2>3. CASE b \in holds[r] /\ ref[b] = 1
    <3>1. ref'[b] = 1
      BY <1>7, RefAfter
    <3>2. Cardinality(Holders(b)') = 1
      BY <1>1, <1>3, <1>4, <1>5, <1>7, <2>3
    <3>3. QED
      BY <3>1, <3>2
  <2>4. QED
    BY <2>1, <2>2, <2>3
<1>8. CASE b \notin new /\ b \in holds[r]
  <2>1. ref'[b] = ref[b] - 1
    BY <1>8, RefAfter
  <2>2. QED
    BY <1>1, <1>3, <1>4, <1>6, <1>8, <2>1
<1>9. CASE b \in new /\ b \notin fresh /\ b \notin holds[r]
  <2>1. ref'[b] = ref[b] + 1
    BY <1>9, RefAfter
  <2>2. QED
    BY <1>1, <1>3, <1>4, <1>5, <1>9, <2>1
<1>10. CASE b \notin fresh /\ (b \in new <=> b \in holds[r])
  <2>1. ref'[b] = ref[b]
    BY <1>10, RefAfter
  <2>2. QED
    BY <1>1, <1>3, <1>4, <1>5, <1>6, <1>10, <2>1
<1>11. QED
  BY <1>7, <1>8, <1>9, <1>10

\* The free queue stays the set of the blocks nobody holds.
LEMMA FreeStep ==
  ASSUME IsFiniteSet(Requests), OwnershipInv,
         NEW r \in Requests, NEW new \in SUBSET Blocks, NEW fresh \in SUBSET new,
         Update(r, new, fresh)
  PROVE  FreeIffUnheld'
<1> SUFFICES ASSUME NEW b \in Blocks
             PROVE  b \in avail' <=> Holders(b)' = {}
  BY DEF FreeIffUnheld
<1>1. b \in avail' <=> b \notin new /\ (b \in avail \/ (b \in holds[r] /\ ref[b] = 1))
  BY DEF Update
<1>2. /\ b \in avail <=> Holders(b) = {}
      /\ ref[b] = Cardinality(Holders(b))
  BY DEF OwnershipInv, CountsHolders, FreeIffUnheld
<1>3. r \in Holders(b) <=> b \in holds[r]
  BY DEF Holders
<1>4. /\ b \in new => Holders(b)' = Holders(b) \cup {r}
      /\ b \notin new => Holders(b)' = Holders(b) \ {r}
  BY HoldersAfter DEF OwnershipInv
<1>5. r \in Holders(b) => (ref[b] = 1 <=> Holders(b) \ {r} = {})
  <2> SUFFICES ASSUME r \in Holders(b)
               PROVE  ref[b] = 1 <=> Holders(b) \ {r} = {}
    OBVIOUS
  <2>1. IsFiniteSet(Holders(b)) /\ Cardinality(Holders(b)) \in Nat
    BY HoldersFinite
  <2>2. IsFiniteSet(Holders(b) \ {r}) /\ Cardinality(Holders(b) \ {r}) = Cardinality(Holders(b)) - 1
    BY <2>1, FS_RemoveElement
  <2>3. Cardinality(Holders(b) \ {r}) = 0 <=> Holders(b) \ {r} = {}
    BY <2>2, FS_EmptySet, Zenon
  <2>4. QED
    BY <1>2, <2>1, <2>2, <2>3
<1>6. QED
  BY <1>1, <1>2, <1>3, <1>4, <1>5

\* Reference counts are exact and the free queue holds exactly the unheld blocks.
THEOREM OwnershipExact ==
  ASSUME IsFiniteSet(Requests)
  PROVE  Spec => [](CountsHolders /\ FreeIffUnheld)
<1>1. Init => OwnershipInv
  <2> SUFFICES ASSUME Init PROVE OwnershipInv
    OBVIOUS
  <2>1. TypeOK
    BY DEF Init, TypeOK
  <2>2. \A b \in Blocks : Holders(b) = {}
    BY DEF Init, Holders
  <2>3. QED
    BY <2>1, <2>2, FS_EmptySet DEF Init, OwnershipInv, CountsHolders, FreeIffUnheld
<1>2. OwnershipInv /\ [Next]_vars => OwnershipInv'
  <2> SUFFICES ASSUME OwnershipInv, [Next]_vars PROVE OwnershipInv'
    OBVIOUS
  <2>1. CASE Next
    <3>1. PICK r \in Requests, new \in SUBSET Blocks :
             \E fresh \in SUBSET new : Update(r, new, fresh)
      BY <2>1 DEF Next
    <3>2. PICK fresh \in SUBSET new : Update(r, new, fresh)
      BY <3>1
    <3>3. QED
      BY <3>2, TypeStep, CountsStep, FreeStep DEF OwnershipInv
  <2>2. CASE UNCHANGED vars
    BY <2>2 DEF vars, OwnershipInv, TypeOK, CountsHolders, FreeIffUnheld, Holders
  <2>3. QED
    BY <2>1, <2>2
<1>3. OwnershipInv => CountsHolders /\ FreeIffUnheld
  BY DEF OwnershipInv
<1>4. QED
  BY <1>1, <1>2, <1>3, PTL DEF Spec
=============================================================================
