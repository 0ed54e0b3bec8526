------------------------ MODULE FreeBlockQueueProofs ------------------------
(***************************************************************************)
(* For every number of blocks, the pointers of FreeKVCacheBlockQueue       *)
(* describe the abstract queue, and every call implements the abstract     *)
(* call.  The inductive invariant is TypeOK /\ WellLinked: the refinement  *)
(* alone is not inductive, since nothing in it says that the blocks a walk *)
(* meets are the blocks of the queue.                                      *)
(***************************************************************************)
EXTENDS FreeBlockQueue, SequenceTheorems, FiniteSetTheorems, WellFoundedInduction, TLAPS

\* Most leaves need no arithmetic; those that do cite SMT.
USE Zenon

-----------------------------------------------------------------------------
(* Induction over the natural numbers for properties given as sets.        *)

\* Every non-empty set of natural numbers has a least element.
LEMMA LeastNat ==
  ASSUME NEW S \in SUBSET Nat, S # {}
  PROVE  \E m \in S : \A k \in S : m <= k
<1> DEFINE Up(i) == 1 .. i
           T == {Up(i) : i \in S}
           R == StrictSubsetOrdering(Nat)
<1>1. IsWellFoundedOn(R, FiniteSubsetsOf(Nat))
  BY FS_StrictSubsetOrderingWellFounded
<1>2. T \subseteq FiniteSubsetsOf(Nat)
  <2>1. \A i \in Nat : IsFiniteSet(1 .. i) /\ 1 .. i \subseteq Nat
    BY FS_Interval, SMT
  <2> QED BY <2>1 DEF FiniteSubsetsOf
<1>3. T # {}
  OBVIOUS
<1>4. PICK x \in T : \A y \in T : <<y, x>> \notin R
  <2> HIDE DEF T, R
  <2> QED BY <1>1, <1>2, <1>3, WFMin
<1>5. PICK m \in S : x = 1 .. m
  OBVIOUS
<1>6. ASSUME NEW k \in S, k < m PROVE FALSE
  <2>1. 1 .. k \subseteq Nat /\ 1 .. m \subseteq Nat /\ 1 .. k \subseteq 1 .. m
    BY <1>6, SMT
  <2>2. m \in 1 .. m /\ m \notin 1 .. k
    BY <1>6, SMT
  <2>3. <<1 .. k, 1 .. m>> \in R
    BY <2>1, <2>2 DEF StrictSubsetOrdering
  <2> QED BY <1>4, <1>5, <2>3
<1> QED BY <1>6, SMT

\* A set that holds 0 and is closed under successor below n holds 0 .. n.
LEMMA SetInduction ==
  ASSUME NEW n \in Nat, NEW S, 0 \in S,
         \A i \in 0 .. n - 1 : i \in S => i + 1 \in S
  PROVE  0 .. n \subseteq S
<1> DEFINE Bad == {i \in 0 .. n : i \notin S}
<1>1. SUFFICES ASSUME Bad # {} PROVE FALSE
  OBVIOUS
<1>2. Bad \in SUBSET Nat
  BY SMT
<1>3. PICK m \in Bad : \A k \in Bad : m <= k
  <2> HIDE DEF Bad
  <2> QED BY <1>1, <1>2, LeastNat
<1>4. m # 0 /\ m - 1 \in 0 .. n - 1
  BY <1>3, SMT
<1>5. m - 1 \in S
  BY <1>3, <1>4, SMT
<1> QED BY <1>3, <1>4, <1>5, SMT

-----------------------------------------------------------------------------
(* The links.                                                              *)

IInv == TypeOK /\ WellLinked

USE NumBlocksAssumption

\* Where the links of a well-linked list lead.
LEMMA StopFacts ==
  ASSUME IInv
  PROVE  /\ Len(q) \in Nat
         /\ \A i \in 1 .. Len(q) : q[i] \in Blocks
         /\ nxt[FakeHead] = Stop(1)
         /\ prv[FakeTail] = Stop(Len(q))
         /\ \A i \in 1 .. Len(q) : nxt[q[i]] = Stop(i + 1) /\ prv[q[i]] = Stop(i - 1)
         /\ \A i \in 0 .. Len(q) : Stop(i) # FakeTail /\ Stop(i) # None
         /\ \A i \in 1 .. Len(q) + 1 : Stop(i) # FakeHead /\ Stop(i) # None
<1>1. /\ Len(q) \in Nat
      /\ \A i \in 1 .. Len(q) : q[i] \in Blocks
  BY ElementOfSeq, LenProperties DEF IInv, TypeOK
<1>2. \A i \in 0 .. Len(q) : nxt[Stop(i)] = Stop(i + 1) /\ prv[Stop(i + 1)] = Stop(i)
  BY DEF IInv, WellLinked
<1>3. Stop(0) = FakeHead /\ Stop(Len(q) + 1) = FakeTail
  BY <1>1, SMT DEF Stop
<1>4. \A i \in 1 .. Len(q) : Stop(i) = q[i]
  BY <1>1, SMT DEF Stop
<1>5. nxt[FakeHead] = Stop(1) /\ prv[FakeTail] = Stop(Len(q))
  BY <1>1, <1>2, <1>3, SMT
<1>6. \A i \in 1 .. Len(q) : nxt[q[i]] = Stop(i + 1) /\ prv[q[i]] = Stop(i - 1)
  <2> TAKE i \in 1 .. Len(q)
  <2>1. i - 1 \in 0 .. Len(q) /\ i \in 0 .. Len(q) /\ (i - 1) + 1 = i
    BY <1>1, SMT
  <2> QED BY <2>1, <1>2, <1>4
<1>7. /\ \A i \in 0 .. Len(q) : Stop(i) # FakeTail /\ Stop(i) # None
      /\ \A i \in 1 .. Len(q) + 1 : Stop(i) # FakeHead /\ Stop(i) # None
  BY <1>1, SMT DEF Stop, FakeHead, FakeTail, None, Blocks
<1> QED BY <1>1, <1>5, <1>6, <1>7

\* The walk from the head visits the blocks of the queue in their order.
LEMMA WalkIsPrefix ==
  ASSUME IInv, NEW n \in 1 .. Len(q), NEW w \in [1 .. n -> Blocks], Walk(n, w)
  PROVE  /\ \A i \in 1 .. n : w[i] = q[i]
         /\ w = SubSeq(q, 1, n)
<1> DEFINE S == {i \in 0 .. n : i = 0 \/ w[i] = q[i]}
<1>1. Len(q) \in Nat /\ n \in Nat
  BY StopFacts, SMT
<1>2. 0 \in S
  BY <1>1, SMT
<1>3. ASSUME NEW i \in 0 .. n - 1, i \in S PROVE i + 1 \in S
  <2>1. CASE i = 0
    BY <2>1, <1>1, StopFacts, SMT DEF Walk, Stop
  <2>2. CASE i # 0
    <3>1. w[i] = q[i] /\ w[i + 1] = nxt[w[i]]
      BY <1>3, <2>2, <1>1, SMT DEF Walk
    <3>2. i \in 1 .. Len(q) /\ i + 1 \in 1 .. Len(q)
      BY <2>2, <1>1, SMT
    <3>3. nxt[q[i]] = Stop(i + 1)
      BY <3>2, StopFacts
    <3>4. Stop(i + 1) = q[i + 1]
      BY <3>2, <1>1, SMT DEF Stop
    <3> QED BY <3>1, <3>3, <3>4, <1>1, SMT
  <2> QED BY <2>1, <2>2
<1>4. 0 .. n \subseteq S
  <2> HIDE DEF S
  <2> QED BY <1>1, <1>2, <1>3, SetInduction
<1>5. \A i \in 1 .. n : w[i] = q[i]
  BY <1>4, <1>1, SMT
<1>6. w = SubSeq(q, 1, n)
  <2>1. \A i \in 1 .. n : q[i] \in Blocks
    BY <1>1, StopFacts, SMT
  <2>2. SubSeq(q, 1, n) \in Seq(Blocks)
        /\ Len(SubSeq(q, 1, n)) = n
        /\ \A i \in 1 .. n : SubSeq(q, 1, n)[i] = q[i]
    BY <2>1, <1>1, SubSeqProperties, SMT
  <2>3. w \in Seq(Blocks) /\ Len(w) = n
    BY <1>1, SeqDef, SMT
  <2> QED BY <2>2, <2>3, <1>5, SeqEqual
<1> QED BY <1>5, <1>6

-----------------------------------------------------------------------------
LEMMA InitIInv == Init => IInv
<1> SUFFICES ASSUME Init PROVE IInv
  OBVIOUS
<1>1. q \in Seq(Blocks) /\ Len(q) = NumBlocks /\ \A i \in 1 .. NumBlocks : q[i] = i - 1
  <2>1. q \in [1 .. NumBlocks -> Blocks]
    BY SMT DEF Init, Blocks
  <2>2. q \in Seq(Blocks)
    BY <2>1, SeqDef
  <2>3. Len(q) = NumBlocks
    BY <2>1, <2>2, LenProperties, SMT
  <2> QED BY <2>2, <2>3 DEF Init
<1>2. TypeOK
  BY <1>1, SMT DEF Init, TypeOK, Nodes, Blocks, FakeHead, FakeTail, None
<1>3. Distinct(q) /\ num = Len(q)
  BY <1>1, SMT DEF Init, Distinct
<1>4. \A i \in 0 .. Len(q) : nxt[Stop(i)] = Stop(i + 1)
  BY <1>1, SMT DEF Init, Stop, Nodes, Blocks, FakeHead, FakeTail, None
<1>5. \A i \in 0 .. Len(q) : prv[Stop(i + 1)] = Stop(i)
  BY <1>1, SMT DEF Init, Stop, Nodes, Blocks, FakeHead, FakeTail, None
<1>6. nxt[FakeTail] = None /\ prv[FakeHead] = None
  BY SMT DEF Init, Nodes, Blocks, FakeHead, FakeTail, None
<1>7. \A b \in Blocks : \E i \in 1 .. Len(q) : q[i] = b
  <2> TAKE b \in Blocks
  <2>1. b + 1 \in 1 .. NumBlocks /\ (b + 1) - 1 = b
    BY SMT DEF Blocks
  <2> QED BY <1>1, <2>1
<1> QED BY <1>2, <1>3, <1>4, <1>5, <1>6, <1>7 DEF IInv, WellLinked

\* popleft_n keeps the links of the blocks that stay and clears the others'.
LEMMA PopLeftNStep ==
  ASSUME IInv, NEW n \in 1 .. NumBlocks, popleft_n(n)
  PROVE  IInv' /\ Abstract!QPopLeftN(n)
<1> DEFINE L == Len(q)
<1>1. /\ L \in Nat /\ n \in Nat /\ n >= 1
      /\ num = L /\ n <= L
      /\ q \in Seq(Blocks) /\ Distinct(q)
  BY StopFacts, SMT DEF IInv, WellLinked, popleft_n, TypeOK
<1>2. PICK w \in [1 .. n -> Blocks] :
        LET popped == {w[i] : i \in 1 .. n}
            curr == nxt[w[n]]
        IN  /\ Walk(n, w)
            /\ nxt' = [x \in Nodes |-> IF x \in popped THEN None
                                       ELSE IF x = FakeHead /\ curr # None THEN curr
                                       ELSE nxt[x]]
            /\ prv' = [x \in Nodes |-> IF x \in popped THEN None
                                       ELSE IF x = curr THEN FakeHead
                                       ELSE prv[x]]
            /\ num' = num - n
            /\ ret' = w
            /\ q' = SubSeq(q, n + 1, Len(q))
  BY DEF popleft_n
<1> DEFINE popped == {w[i] : i \in 1 .. n}
           curr == nxt[w[n]]
<1>3. /\ \A i \in 1 .. n : w[i] = q[i]
      /\ w = SubSeq(q, 1, n)
  <2>1. n \in 1 .. Len(q) /\ Walk(n, w)
    BY <1>1, <1>2, SMT
  <2> QED BY <2>1, WalkIsPrefix
<1>4. curr = Stop(n + 1) /\ curr # None /\ curr # FakeHead
  <2>1. n \in 1 .. L /\ n + 1 \in 1 .. L + 1 /\ w[n] = q[n]
    BY <1>1, <1>3, SMT
  <2> QED BY <2>1, StopFacts
<1>5. /\ q' \in Seq(Blocks)
      /\ Len(q') = L - n
      /\ \A i \in 1 .. L - n : q'[i] = q[n + i]
  <2>1. \A i \in n + 1 .. L : q[i] \in Blocks
    BY <1>1, StopFacts, SMT
  <2>2. /\ SubSeq(q, n + 1, L) \in Seq(Blocks)
        /\ Len(SubSeq(q, n + 1, L)) = IF n + 1 <= L THEN L - (n + 1) + 1 ELSE 0
        /\ \A i \in 1 .. L - (n + 1) + 1 : SubSeq(q, n + 1, L)[i] = q[(n + 1) + i - 1]
    BY <2>1, <1>1, SubSeqProperties, SMT
  <2>3. q' = SubSeq(q, n + 1, L)
    BY <1>2
  <2> QED BY <2>2, <2>3, <1>1, SMT
<1>6. \A i \in 1 .. L : q[i] \in popped <=> i <= n
  BY <1>1, <1>3, SMT DEF Distinct
<1>7. /\ \A x \in Nodes : nxt'[x] = IF x \in popped THEN None
                                     ELSE IF x = FakeHead THEN curr ELSE nxt[x]
      /\ \A x \in Nodes : prv'[x] = IF x \in popped THEN None
                                     ELSE IF x = curr THEN FakeHead ELSE prv[x]
  BY <1>2, <1>4
<1>8. popped \subseteq Blocks /\ FakeHead \in Nodes /\ FakeTail \in Nodes
      /\ Blocks \subseteq Nodes /\ FakeHead \notin Blocks /\ FakeTail \notin Blocks
      /\ FakeHead # FakeTail
  <2>1. popped \subseteq Blocks
    BY <1>2
  <2>2. /\ FakeHead \in Nodes /\ FakeTail \in Nodes /\ Blocks \subseteq Nodes
        /\ FakeHead \notin Blocks /\ FakeTail \notin Blocks /\ FakeHead # FakeTail
    BY SMT DEF Nodes, Blocks, FakeHead, FakeTail
  <2> QED BY <2>1, <2>2
<1> HIDE DEF popped, curr
<1>9. \A i \in 1 .. (L - n) + 1 : Stop(i)' = Stop(n + i)
  <2> TAKE i \in 1 .. (L - n) + 1
  <2>1. CASE i = (L - n) + 1
    <3>1. n + i = L + 1 /\ i # 0 /\ n + i # 0 /\ i = Len(q') + 1
      BY <2>1, <1>1, <1>5, SMT
    <3> QED BY <3>1 DEF Stop
  <2>2. CASE i # (L - n) + 1
    <3>0. Len(q') = L - n
      BY <1>5
    <3>1. /\ i \in 1 .. L - n
          /\ n + i # L + 1 /\ i # 0 /\ n + i # 0 /\ i # Len(q') + 1
      <4> HIDE DEF L
      <4> QED BY <2>2, <1>1, <3>0, SMT
    <3>2. q'[i] = q[n + i]
      BY <3>1, <1>5
    <3> QED BY <3>1, <3>2 DEF Stop
  <2> QED BY <2>1, <2>2
<1>10. Stop(0)' = FakeHead
  BY DEF Stop
<1>11. TypeOK'
  <2>1. curr \in Nodes
    BY <1>1, <1>4, <1>8, StopFacts, SMT DEF Stop
  <2>2. nxt' \in [Nodes -> Nodes \cup {None}] /\ prv' \in [Nodes -> Nodes \cup {None}]
    BY <1>2, <2>1, <1>8, SMT DEF IInv, TypeOK
  <2> QED BY <2>2, <1>1, <1>2, <1>5, SMT DEF TypeOK, IInv
<1>12. Distinct(q')
  BY <1>1, <1>5, SMT DEF Distinct
<1>13. num' = Len(q')
  BY <1>1, <1>2, <1>5
<1>14. ASSUME NEW i \in 0 .. Len(q')
       PROVE  nxt'[Stop(i)'] = Stop(i + 1)' /\ prv'[Stop(i + 1)'] = Stop(i)'
  <2>1. CASE i = 0
    <3>1. Stop(1)' = curr /\ Stop(0)' = FakeHead
      BY <1>1, <1>4, <1>5, <1>9, <1>10, SMT
    <3>2. nxt'[FakeHead] = curr
      BY <1>7, <1>8
    <3>3. curr \in Nodes /\ curr \notin popped
      <4>1. CASE n = L
        BY <4>1, <1>1, <1>4, <1>8 DEF Stop
      <4>2. CASE n < L
        <5>1. curr = q[n + 1] /\ n + 1 \in 1 .. L
          BY <4>2, <1>1, <1>4, SMT DEF Stop
        <5>2. q[n + 1] \in Blocks
          BY <5>1, StopFacts
        <5>3. q[n + 1] \notin popped
          BY <5>1, <1>1, <1>6, SMT
        <5> QED BY <5>1, <5>2, <5>3, <1>8
      <4> QED BY <4>1, <4>2, <1>1, SMT
    <3>4. prv'[curr] = FakeHead
      BY <1>7, <3>3
    <3> QED BY <2>1, <3>1, <3>2, <3>4, SMT
  <2>2. CASE i # 0
    <3>1. /\ i \in 1 .. L - n /\ n + i \in 1 .. L /\ n + i \in 0 .. L
          /\ n + (i + 1) = (n + i) + 1 /\ i + 1 \in 1 .. (L - n) + 1
      BY <2>2, <1>1, <1>5, SMT
    <3>2. Stop(i)' = Stop(n + i) /\ Stop(i + 1)' = Stop((n + i) + 1)
      BY <3>1, <1>9, SMT
    <3>3. nxt[Stop(n + i)] = Stop((n + i) + 1) /\ prv[Stop((n + i) + 1)] = Stop(n + i)
      BY <3>1 DEF IInv, WellLinked
    <3>4. Stop(n + i) = q[n + i] /\ q[n + i] \in Blocks /\ q[n + i] \notin popped
      BY <3>1, <1>1, <1>6, StopFacts, SMT DEF Stop
    <3>5. nxt'[Stop(n + i)] = nxt[Stop(n + i)]
      BY <3>4, <1>7, <1>8
    <3>6. /\ Stop((n + i) + 1) \in Nodes
          /\ Stop((n + i) + 1) \notin popped
          /\ Stop((n + i) + 1) # curr
      <4>1. CASE n + i = L
        <5>1. Stop((n + i) + 1) = FakeTail
          BY <4>1, <1>1, SMT DEF Stop
        <5>2. curr # FakeTail
          <6>1. n + 1 \in 0 .. L
            BY <3>1, <4>1, <1>1, SMT
          <6> QED BY <6>1, <1>4, StopFacts
        <5> QED BY <5>1, <5>2, <1>8
      <4>2. CASE n + i # L
        <5>1. Stop((n + i) + 1) = q[(n + i) + 1] /\ (n + i) + 1 \in 1 .. L
          BY <4>2, <3>1, <1>1, SMT DEF Stop
        <5>2. q[(n + i) + 1] \in Blocks /\ q[(n + i) + 1] \notin popped
          <6>1. ~((n + i) + 1 <= n)
            BY <3>1, <1>1, SMT
          <6> QED BY <5>1, <6>1, <1>6, StopFacts
        <5>3. curr = q[n + 1] /\ n + 1 \in 1 .. L
          BY <3>1, <1>1, <1>4, SMT DEF Stop
        <5>4. (n + i) + 1 # n + 1
          BY <3>1, <1>1, SMT
        <5>5. q[(n + i) + 1] # q[n + 1]
          BY <5>1, <5>3, <5>4, <1>1 DEF Distinct
        <5> QED BY <5>1, <5>2, <5>3, <5>5, <1>8
      <4> QED BY <4>1, <4>2
    <3>7. prv'[Stop((n + i) + 1)] = prv[Stop((n + i) + 1)]
      BY <3>6, <1>7
    <3> QED BY <3>2, <3>3, <3>5, <3>7
  <2> QED BY <2>1, <2>2
<1>15. nxt'[FakeTail] = None /\ prv'[FakeHead] = None
  BY <1>4, <1>7, <1>8 DEF IInv, WellLinked
<1>16. ASSUME NEW b \in Blocks, \A i \in 1 .. Len(q') : q'[i] # b
       PROVE  nxt'[b] = None /\ prv'[b] = None
  <2>1. CASE b \in popped
    BY <2>1, <1>7, <1>8
  <2>2. CASE b \notin popped
    <3>1. \A i \in 1 .. L : q[i] # b
      <4> SUFFICES ASSUME NEW i \in 1 .. L, q[i] = b PROVE FALSE
        OBVIOUS
      <4>1. i > n
        BY <2>2, <1>1, <1>6, SMT
      <4>2. i - n \in 1 .. L - n /\ n + (i - n) = i
        BY <4>1, <1>1, SMT
      <4> QED BY <4>2, <1>5, <1>16
    <3>2. nxt[b] = None /\ prv[b] = None
      BY <3>1 DEF IInv, WellLinked, Unlinked
    <3>3. b # FakeHead /\ b # curr /\ b \in Nodes
      <4>1. curr \in Blocks => \E i \in 1 .. L : q[i] = curr
        BY <1>1, <1>4, <1>8, SMT DEF Stop
      <4> QED BY <4>1, <3>1, <1>8
    <3> QED BY <2>2, <3>2, <3>3, <1>7
  <2> QED BY <2>1, <2>2
<1>17. WellLinked'
  BY <1>12, <1>13, <1>14, <1>15, <1>16 DEF WellLinked, Unlinked
<1>18. Abstract!QPopLeftN(n)
  BY <1>1, <1>2, <1>3 DEF Abstract!QPopLeftN
<1> QED BY <1>11, <1>17, <1>18 DEF IInv

\* The stops of a walk are distinct nodes.
LEMMA StopsDistinct ==
  ASSUME IInv
  PROVE  /\ \A j \in 0 .. Len(q) + 1 : Stop(j) \in Nodes
         /\ \A j, k \in 0 .. Len(q) + 1 : Stop(j) = Stop(k) => j = k
<1>1. /\ Len(q) \in Nat
      /\ \A i \in 1 .. Len(q) : q[i] \in Blocks
  BY StopFacts
<1>2. Distinct(q)
  BY DEF IInv, WellLinked
<1>3. \A j \in 0 .. Len(q) + 1 : Stop(j) \in Nodes
  BY <1>1, SMT DEF Stop, Nodes
<1>4. ASSUME NEW j \in 0 .. Len(q) + 1, NEW k \in 0 .. Len(q) + 1, Stop(j) = Stop(k)
      PROVE  j = k
  <2>1. \A i \in 1 .. Len(q) : q[i] # FakeHead /\ q[i] # FakeTail
    BY <1>1, SMT DEF Blocks, FakeHead, FakeTail
  <2>2. FakeHead # FakeTail
    BY SMT DEF FakeHead, FakeTail
  <2>3. CASE j \in 1 .. Len(q) /\ k \in 1 .. Len(q)
    <3>1. q[j] = q[k]
      BY <2>3, <1>1, <1>4, SMT DEF Stop
    <3> QED BY <3>1, <2>3, <1>2 DEF Distinct
  <2>4. CASE ~(j \in 1 .. Len(q) /\ k \in 1 .. Len(q))
    BY <2>4, <2>1, <2>2, <1>1, <1>4, SMT DEF Stop
  <2> QED BY <2>3, <2>4
<1> QED BY <1>3, <1>4

\* popleft is popleft_n with one block.
LEMMA PopLeftStep ==
  ASSUME IInv, popleft
  PROVE  1 \in 1 .. NumBlocks /\ popleft_n(1)
<1> DEFINE first == nxt[FakeHead]
           second == nxt[first]
           w == <<first>>
<1>1. first # FakeTail /\ first # None /\ second # None
  BY DEF popleft
<1>2. Len(q) \in Nat /\ num = Len(q) /\ num \in 0 .. NumBlocks
  BY StopFacts DEF IInv, TypeOK, WellLinked
<1>3. Len(q) # 0 /\ first = q[1] /\ first \in Blocks
  <2>1. first = Stop(1)
    BY StopFacts
  <2>2. Len(q) # 0
    BY <2>1, <1>1, <1>2, SMT DEF Stop
  <2>3. 1 \in 1 .. Len(q)
    BY <2>2, <1>2, SMT
  <2>4. first = q[1]
    BY <2>1, <2>3, <1>2, SMT DEF Stop
  <2> QED BY <2>2, <2>3, <2>4, StopFacts
<1>4. w \in [1 .. 1 -> Blocks] /\ w[1] = first /\ {w[i] : i \in 1 .. 1} = {first}
  BY <1>3, SMT
<1>5. Walk(1, w)
  BY <1>4, SMT DEF Walk
<1>6. second \in Nodes /\ first # FakeHead
  BY <1>1, <1>3, SMT DEF IInv, TypeOK, Nodes, Blocks, FakeHead
<1>7. nxt' = [x \in Nodes |-> IF x \in {first} THEN None
                              ELSE IF x = FakeHead /\ second # None THEN second
                              ELSE nxt[x]]
  BY <1>1, <1>6 DEF popleft, IInv, TypeOK
<1>8. prv' = [x \in Nodes |-> IF x \in {first} THEN None
                              ELSE IF x = second THEN FakeHead
                              ELSE prv[x]]
  BY <1>1, <1>6 DEF popleft, IInv, TypeOK
<1>9. num' = num - 1 /\ ret' = w /\ q' = SubSeq(q, 1 + 1, Len(q)) /\ num >= 1
  BY <1>2, <1>3, SMT DEF popleft
<1> HIDE DEF w
<1>10. popleft_n(1)
  BY <1>4, <1>5, <1>7, <1>8, <1>9 DEF popleft_n
<1> QED BY <1>10, <1>2, <1>3, SMT

\* remove joins the neighbours of the block it takes out of the middle.
LEMMA RemoveStep ==
  ASSUME IInv, NEW b \in Blocks, remove(b)
  PROVE  IInv' /\ \E i \in 1 .. Len(q) : Abstract!QRemove(i)
<1>1. PICK i \in 1 .. Len(q) :
        q[i] = b /\ q' = SubSeq(q, 1, i - 1) \o SubSeq(q, i + 1, Len(q))
  BY DEF remove
<1> DEFINE L == Len(q)
           s1 == SubSeq(q, 1, i - 1)
           s2 == SubSeq(q, i + 1, L)
<1>2. /\ L \in Nat /\ i \in Nat /\ 1 <= i /\ i <= L
      /\ num = L /\ q \in Seq(Blocks) /\ Distinct(q)
      /\ \A j \in 1 .. L : q[j] \in Blocks
  BY StopFacts, SMT DEF IInv, TypeOK, WellLinked
<1>3. /\ q' \in Seq(Blocks)
      /\ Len(q') = L - 1
      /\ \A k \in 1 .. L - 1 : q'[k] = IF k < i THEN q[k] ELSE q[k + 1]
  <2>1. /\ s1 \in Seq(Blocks) /\ Len(s1) = i - 1
        /\ \A k \in 1 .. i - 1 : s1[k] = q[k]
    <3>1. \A k \in 1 .. i - 1 : q[k] \in Blocks
      BY <1>2, SMT
    <3>2. /\ s1 \in Seq(Blocks)
          /\ Len(s1) = IF 1 <= i - 1 THEN (i - 1) - 1 + 1 ELSE 0
          /\ \A k \in 1 .. (i - 1) - 1 + 1 : s1[k] = q[1 + k - 1]
      BY <3>1, <1>2, SubSeqProperties, SMT
    <3> HIDE DEF s1, L
    <3> QED BY <3>2, <1>2, SMT
  <2>2. /\ s2 \in Seq(Blocks) /\ Len(s2) = L - i
        /\ \A k \in 1 .. L - i : s2[k] = q[i + k]
    <3>1. \A k \in i + 1 .. L : q[k] \in Blocks
      BY <1>2, SMT
    <3>2. /\ s2 \in Seq(Blocks)
          /\ Len(s2) = IF i + 1 <= L THEN L - (i + 1) + 1 ELSE 0
          /\ \A k \in 1 .. L - (i + 1) + 1 : s2[k] = q[(i + 1) + k - 1]
      BY <3>1, <1>2, SubSeqProperties, SMT
    <3> HIDE DEF s2, L
    <3>3. Len(s2) = L - i
      BY <3>2, <1>2, SMT
    <3>4. ASSUME NEW k \in 1 .. L - i PROVE s2[k] = q[i + k]
      <4>1. k \in 1 .. L - (i + 1) + 1 /\ (i + 1) + k - 1 = i + k
        BY <1>2, SMT
      <4> QED BY <4>1, <3>2
    <3> QED BY <3>2, <3>3, <3>4
  <2>3. /\ q' \in Seq(Blocks)
        /\ Len(q') = Len(s1) + Len(s2)
        /\ \A k \in 1 .. Len(s1) + Len(s2) :
             q'[k] = IF k <= Len(s1) THEN s1[k] ELSE s2[k - Len(s1)]
    <3>1. q' = s1 \o s2
      BY <1>1
    <3> HIDE DEF s1, s2
    <3> QED BY <3>1, <2>1, <2>2, ConcatProperties
  <2>4. Len(q') = L - 1
    <3> HIDE DEF s1, s2, L
    <3> QED BY <2>1, <2>2, <2>3, <1>2, SMT
  <2>5. ASSUME NEW k \in 1 .. L - 1
        PROVE  q'[k] = IF k < i THEN q[k] ELSE q[k + 1]
    <3> HIDE DEF s1, s2, L
    <3>1. CASE k < i
      BY <3>1, <2>1, <2>2, <2>3, <1>2, SMT
    <3>2. CASE ~(k < i)
      <4>1. /\ k - (i - 1) \in 1 .. L - i
            /\ i + (k - (i - 1)) = k + 1
            /\ ~(k <= i - 1)
            /\ k \in 1 .. (i - 1) + (L - i)
        BY <3>2, <1>2, SMT
      <4>2. q'[k] = s2[k - (i - 1)]
        BY <4>1, <2>1, <2>2, <2>3
      <4> QED BY <4>1, <4>2, <2>2, <3>2
    <3> QED BY <3>1, <3>2
  <2> QED BY <2>3, <2>4, <2>5
<1> DEFINE before == prv[b]
           after == nxt[b]
<1>4. /\ before = Stop(i - 1) /\ after = Stop(i + 1) /\ b = Stop(i)
      /\ i - 1 \in 0 .. L + 1 /\ i \in 0 .. L + 1 /\ i + 1 \in 0 .. L + 1
  <2>1. b = Stop(i)
    BY <1>1, <1>2, SMT DEF Stop
  <2> QED BY <2>1, <1>1, <1>2, StopFacts, SMT
<1>5. /\ \A j \in 0 .. L + 1 : Stop(j) \in Nodes
      /\ \A j, k \in 0 .. L + 1 : Stop(j) = Stop(k) => j = k
  BY StopsDistinct
<1>6. /\ \A x \in Nodes : nxt'[x] = IF x = b THEN None ELSE IF x = before THEN after ELSE nxt[x]
      /\ \A x \in Nodes : prv'[x] = IF x = b THEN None ELSE IF x = after THEN before ELSE prv[x]
      /\ nxt' \in [Nodes -> Nodes \cup {None}]
      /\ prv' \in [Nodes -> Nodes \cup {None}]
  <2>1. before \in Nodes /\ after \in Nodes /\ b \in Nodes /\ before # b /\ after # b
    <3>1. i - 1 # i /\ i + 1 # i
      BY <1>2, SMT
    <3> QED BY <1>4, <1>5, <3>1
  <2>2. /\ nxt' = [nxt EXCEPT ![before] = after, ![b] = None]
        /\ prv' = [prv EXCEPT ![after] = before, ![b] = None]
    BY DEF remove
  <2> HIDE DEF before, after
  <2> QED BY <2>1, <2>2 DEF IInv, TypeOK
<1> HIDE DEF before, after, s1, s2
<1>7. \A k \in 0 .. L : Stop(k)' = IF k < i THEN Stop(k) ELSE Stop(k + 1)
  <2> TAKE k \in 0 .. L
  <2>0. Len(q') = L - 1
    BY <1>3
  <2>1. CASE k = 0
    BY <2>1, <1>2, SMT DEF Stop
  <2>2. CASE k = L
    <3>1. k = Len(q') + 1 /\ k # 0 /\ ~(k < i) /\ k + 1 = L + 1 /\ k + 1 # 0
      BY <2>2, <2>0, <1>2, SMT
    <3> QED BY <3>1 DEF Stop
  <2>3. CASE k # 0 /\ k # L
    <3>1. /\ k \in 1 .. L - 1 /\ k # Len(q') + 1 /\ k # L + 1
          /\ k + 1 # 0 /\ k + 1 # L + 1
      BY <2>3, <2>0, <1>2, SMT
    <3>2. q'[k] = IF k < i THEN q[k] ELSE q[k + 1]
      BY <3>1, <1>3
    <3> QED BY <2>3, <3>1, <3>2 DEF Stop
  <2> QED BY <2>1, <2>2, <2>3
<1>8. \A j \in 0 .. L : nxt[Stop(j)] = Stop(j + 1) /\ prv[Stop(j + 1)] = Stop(j)
  BY DEF IInv, WellLinked
<1>9. \A j \in 0 .. L + 1 : /\ Stop(j) = b <=> j = i
                            /\ Stop(j) = before <=> j = i - 1
                            /\ Stop(j) = after <=> j = i + 1
  BY <1>4, <1>5
<1>10. ASSUME NEW k \in 0 .. Len(q')
       PROVE  nxt'[Stop(k)'] = Stop(k + 1)' /\ prv'[Stop(k + 1)'] = Stop(k)'
  <2>0. /\ k \in 0 .. L /\ k + 1 \in 0 .. L /\ k \in 0 .. L + 1
        /\ k + 1 \in 0 .. L + 1 /\ (k + 1) + 1 \in 0 .. L + 1
    BY <1>2, <1>3, SMT
  <2>1. CASE k + 1 < i
    <3>1. Stop(k)' = Stop(k) /\ Stop(k + 1)' = Stop(k + 1)
      BY <2>0, <2>1, <1>2, <1>7, SMT
    <3>2. /\ Stop(k) # b /\ Stop(k) # before
          /\ Stop(k + 1) # b /\ Stop(k + 1) # after
      BY <2>0, <2>1, <1>2, <1>9, SMT
    <3>3. nxt'[Stop(k)] = nxt[Stop(k)] /\ prv'[Stop(k + 1)] = prv[Stop(k + 1)]
      BY <3>2, <2>0, <1>5, <1>6
    <3> QED BY <3>1, <3>3, <2>0, <1>8
  <2>2. CASE k + 1 = i
    <3>1. Stop(k)' = before /\ Stop(k + 1)' = after
      BY <2>0, <2>2, <1>2, <1>4, <1>7, SMT
    <3>2. before # b /\ after # b /\ before \in Nodes /\ after \in Nodes
      BY <1>2, <1>4, <1>5, <1>9, SMT
    <3> QED BY <3>1, <3>2, <1>6
  <2>3. CASE k + 1 > i
    <3>1. Stop(k)' = Stop(k + 1) /\ Stop(k + 1)' = Stop((k + 1) + 1)
      BY <2>0, <2>3, <1>2, <1>7, SMT
    <3>2. /\ Stop(k + 1) # b /\ Stop(k + 1) # before
          /\ Stop((k + 1) + 1) # b /\ Stop((k + 1) + 1) # after
      BY <2>0, <2>3, <1>2, <1>9, SMT
    <3>3. /\ nxt'[Stop(k + 1)] = nxt[Stop(k + 1)]
          /\ prv'[Stop((k + 1) + 1)] = prv[Stop((k + 1) + 1)]
      BY <3>2, <2>0, <1>5, <1>6
    <3> QED BY <3>1, <3>3, <2>0, <1>8
  <2> QED BY <2>1, <2>2, <2>3, <2>0, <1>2, SMT
<1>11. nxt'[FakeTail] = None /\ prv'[FakeHead] = None
  <2>1. nxt[FakeTail] = None /\ prv[FakeHead] = None
    BY DEF IInv, WellLinked
  <2>2. FakeTail = Stop(L + 1) /\ FakeHead = Stop(0) /\ 0 \in 0 .. L + 1 /\ L + 1 \in 0 .. L + 1
    BY <1>2, SMT DEF Stop
  <2>3. L + 1 # i /\ L + 1 # i - 1 /\ 0 # i /\ 0 # i + 1
    BY <1>2, SMT
  <2>4. FakeTail # b /\ FakeTail # before /\ FakeHead # b /\ FakeHead # after
    BY <2>2, <2>3, <1>9
  <2> QED BY <2>1, <2>2, <2>4, <1>5, <1>6
<1>12. Distinct(q')
  <2> SUFFICES ASSUME NEW j \in 1 .. Len(q'), NEW k \in 1 .. Len(q'), q'[j] = q'[k]
               PROVE  j = k
    BY DEF Distinct
  <2> DEFINE at(m) == IF m < i THEN m ELSE m + 1
  <2>1. j \in 1 .. L - 1 /\ k \in 1 .. L - 1
    BY <1>3
  <2>2. at(j) \in 1 .. L /\ at(k) \in 1 .. L /\ q'[j] = q[at(j)] /\ q'[k] = q[at(k)]
    BY <2>1, <1>2, <1>3, SMT
  <2>3. at(j) = at(k)
    <3> HIDE DEF at
    <3> QED BY <2>2, <1>2 DEF Distinct
  <2> QED BY <2>1, <2>3, <1>2, SMT
<1>13. ASSUME NEW c \in Blocks, \A k \in 1 .. Len(q') : q'[k] # c
       PROVE  nxt'[c] = None /\ prv'[c] = None
  <2>0. c \in Nodes /\ c # FakeHead /\ c # FakeTail
    BY SMT DEF Nodes, Blocks, FakeHead, FakeTail
  <2>1. CASE c = b
    BY <2>0, <2>1, <1>6
  <2>2. CASE c # b
    <3>1. \A k \in 1 .. L : q[k] # c
      <4> SUFFICES ASSUME NEW k \in 1 .. L, q[k] = c PROVE FALSE
        OBVIOUS
      <4>1. k # i
        BY <2>2, <1>1
      <4>2. CASE k < i
        <5>1. k \in 1 .. L - 1
          BY <4>2, <1>2, SMT
        <5>2. q'[k] = q[k]
          BY <5>1, <4>2, <1>3
        <5> QED BY <5>1, <5>2, <1>3, <1>13
      <4>3. CASE k > i
        <5>1. k - 1 \in 1 .. L - 1 /\ ~(k - 1 < i) /\ (k - 1) + 1 = k
          BY <4>3, <1>2, SMT
        <5>2. q'[k - 1] = q[k]
          BY <5>1, <1>3
        <5> QED BY <5>1, <5>2, <1>3, <1>13
      <4> QED BY <4>1, <4>2, <4>3, <1>2, SMT
    <3>2. nxt[c] = None /\ prv[c] = None
      BY <3>1 DEF IInv, WellLinked, Unlinked
    <3>3. \A j \in 0 .. L + 1 : Stop(j) # c
      BY <3>1, <2>0, <1>2, SMT DEF Stop
    <3>4. c # before /\ c # after
      BY <3>3, <1>4
    <3> QED BY <2>0, <2>2, <3>2, <3>4, <1>6
  <2> QED BY <2>1, <2>2
<1>14. num' = L - 1 /\ ret' = <<>>
  BY <1>2 DEF remove
<1>15. TypeOK'
  BY <1>2, <1>3, <1>6, <1>14, SMT DEF TypeOK, IInv
<1>16. WellLinked'
  BY <1>3, <1>10, <1>11, <1>12, <1>13, <1>14 DEF WellLinked, Unlinked
<1>17. Abstract!QRemove(i)
  BY <1>1, <1>2, <1>14 DEF Abstract!QRemove
<1> QED BY <1>15, <1>16, <1>17 DEF IInv

\* A list of distinct blocks is no longer than the number of blocks.
LEMMA DistinctLen ==
  ASSUME NEW s \in Seq(Blocks), Distinct(s)
  PROVE  Len(s) <= NumBlocks
<1> DEFINE n == Len(s)
<1>1. n \in Nat /\ \A i \in 1 .. n : s[i] \in Blocks
  BY ElementOfSeq, LenProperties
<1>2. IsFiniteSet(Blocks) /\ Cardinality(Blocks) = NumBlocks
  <2>1. IsFiniteSet(0 .. NumBlocks - 1)
        /\ Cardinality(0 .. NumBlocks - 1) = IF 0 > NumBlocks - 1 THEN 0 ELSE (NumBlocks - 1) - 0 + 1
    BY FS_Interval, SMT
  <2> QED BY <2>1, SMT DEF Blocks
<1>3. IsFiniteSet(1 .. n) /\ Cardinality(1 .. n) = n
  <2>1. IsFiniteSet(1 .. n) /\ Cardinality(1 .. n) = IF 1 > n THEN 0 ELSE n - 1 + 1
    BY <1>1, FS_Interval, SMT
  <2> QED BY <2>1, <1>1, SMT
<1> SUFFICES ASSUME n > NumBlocks PROVE FALSE
  BY <1>1, SMT
<1>4. s \in [1 .. n -> Blocks]
  BY LenProperties
<1> HIDE DEF n
<1>5. \E i, j \in 1 .. n : i # j /\ s[i] = s[j]
  BY <1>1, <1>2, <1>3, <1>4, FS_PigeonHole
<1> QED BY <1>5 DEF Distinct, n

\* append_n links the new blocks, in their order, between the last one and the
\* fake tail.
LEMMA AppendNStep ==
  ASSUME IInv, NEW bs \in Lists, Distinct(bs), append_n(bs)
  PROVE  IInv' /\ Abstract!QAppendN(bs)
<1> DEFINE L == Len(q)
           n == Len(bs)
           last == prv[FakeTail]
           pos(x) == CHOOSE i \in 1 .. n : bs[i] = x
           added == {bs[i] : i \in 1 .. n}
           NStop(k) == IF k = 0 THEN FakeHead
                       ELSE IF k = Len(q') + 1 THEN FakeTail ELSE q'[k]
<1>1. /\ L \in Nat /\ num = L /\ q \in Seq(Blocks) /\ Distinct(q)
      /\ \A j \in 1 .. L : q[j] \in Blocks
  BY StopFacts DEF IInv, TypeOK, WellLinked
<1>2. /\ bs \in Seq(Blocks) /\ n \in Nat /\ n > 0
      /\ \A i \in 1 .. n : bs[i] \in Blocks
  <2>1. PICK m \in 0 .. NumBlocks : bs \in [1 .. m -> Blocks]
    BY DEF Lists
  <2>2. bs \in Seq(Blocks)
    BY <2>1, SeqDef, SMT
  <2>3. n > 0
    BY DEF append_n
  <2> HIDE DEF n
  <2> QED BY <2>2, <2>3, ElementOfSeq, LenProperties DEF n
<1>3. /\ \A i \in 1 .. n : Unlinked(bs[i])
      /\ nxt' = [x \in Nodes |->
                   IF x \in added
                   THEN IF pos(x) = n THEN FakeTail ELSE bs[pos(x) + 1]
                   ELSE IF x = last THEN bs[1] ELSE nxt[x]]
      /\ prv' = [x \in Nodes |->
                   IF x \in added
                   THEN IF pos(x) = 1 THEN last ELSE bs[pos(x) - 1]
                   ELSE IF x = FakeTail THEN bs[n] ELSE prv[x]]
      /\ num' = num + n /\ ret' = <<>> /\ q' = q \o bs
  BY DEF append_n
<1>4. \A i \in 1 .. n : pos(bs[i]) = i /\ bs[i] \in added
  BY DEF Distinct
<1> HIDE DEF pos, n, L
<1>5. /\ q' \in Seq(Blocks) /\ Len(q') = L + n
      /\ \A k \in 1 .. L : q'[k] = q[k]
      /\ \A k \in 1 .. n : q'[L + k] = bs[k]
  <2>1. /\ q' \in Seq(Blocks) /\ Len(q') = L + n
        /\ \A k \in 1 .. L + n : q'[k] = IF k <= L THEN q[k] ELSE bs[k - L]
    BY <1>1, <1>2, <1>3, ConcatProperties DEF L, n
  <2>2. ASSUME NEW k \in 1 .. L PROVE q'[k] = q[k]
    <3>1. k \in 1 .. L + n /\ k <= L
      BY <1>1, <1>2, SMT
    <3> QED BY <2>1, <3>1
  <2>3. ASSUME NEW k \in 1 .. n PROVE q'[L + k] = bs[k]
    <3>1. L + k \in 1 .. L + n /\ ~(L + k <= L) /\ (L + k) - L = k
      BY <1>1, <1>2, SMT
    <3> QED BY <2>1, <3>1
  <2> QED BY <2>1, <2>2, <2>3
\* None of the new blocks is a stop of the old list.
<1>6. \A j \in 0 .. L + 1 : Stop(j) \notin added
  <2> SUFFICES ASSUME NEW j \in 0 .. L + 1, NEW i \in 1 .. n, Stop(j) = bs[i]
               PROVE  FALSE
    OBVIOUS
  <2>1. bs[i] \in Blocks /\ nxt[bs[i]] = None
    BY <1>2, <1>3 DEF Unlinked
  <2>2. j # L + 1 /\ j # 0
    <3>1. bs[i] # FakeHead /\ bs[i] # FakeTail
      BY <2>1, SMT DEF FakeHead, FakeTail, Blocks
    <3>2. Stop(L + 1) = FakeTail /\ Stop(0) = FakeHead
      BY <1>1, StopFacts, SMT DEF Stop, L
    <3> QED BY <3>1, <3>2
  <2>3. j \in 1 .. L /\ j + 1 \in 1 .. L + 1
    BY <2>2, <1>1, SMT
  <2>4. nxt[q[j]] = Stop(j + 1) /\ Stop(j + 1) # None /\ Stop(j) = q[j]
    BY <2>2, <2>3, StopFacts DEF Stop, L
  <2> QED BY <2>1, <2>4
<1>7. /\ last = Stop(L) /\ L \in 0 .. L + 1 /\ FakeTail = Stop(L + 1) /\ L + 1 \in 0 .. L + 1
      /\ FakeHead = Stop(0) /\ 0 \in 0 .. L + 1
  BY <1>1, StopFacts, SMT DEF Stop, L
<1>8. /\ \A j \in 0 .. L + 1 : Stop(j) \in Nodes
      /\ \A j, k \in 0 .. L + 1 : Stop(j) = Stop(k) => j = k
  BY StopsDistinct DEF L
<1> HIDE DEF NStop
<1>9. /\ \A k \in 0 .. L : NStop(k) = Stop(k)
      /\ \A k \in 1 .. n : NStop(L + k) = bs[k]
      /\ NStop(L + n + 1) = FakeTail
  <2>1. ASSUME NEW k \in 0 .. L PROVE NStop(k) = Stop(k)
    <3>1. k # Len(q') + 1 /\ k # L + 1 /\ (k = 0 \/ k \in 1 .. L)
      BY <1>1, <1>2, <1>5, SMT
    <3> QED BY <3>1, <1>5 DEF NStop, Stop, L
  <2>2. ASSUME NEW k \in 1 .. n PROVE NStop(L + k) = bs[k]
    <3>1. L + k # Len(q') + 1 /\ L + k # 0
      BY <1>1, <1>2, <1>5, SMT
    <3> QED BY <3>1, <1>5 DEF NStop
  <2>3. NStop(L + n + 1) = FakeTail
    <3>1. L + n + 1 = Len(q') + 1 /\ L + n + 1 # 0
      BY <1>1, <1>2, <1>5, SMT
    <3> QED BY <3>1 DEF NStop
  <2> QED BY <2>1, <2>2, <2>3
<1>10. \A j \in 0 .. L : nxt[Stop(j)] = Stop(j + 1) /\ prv[Stop(j + 1)] = Stop(j)
  BY DEF IInv, WellLinked, L
<1>11. \A i \in 1 .. n : bs[i] \in Nodes
  BY <1>2 DEF Nodes
<1> HIDE DEF last, added
<1>12. /\ \A i \in 1 .. n : /\ nxt'[bs[i]] = IF i = n THEN FakeTail ELSE bs[i + 1]
                            /\ prv'[bs[i]] = IF i = 1 THEN last ELSE bs[i - 1]
       /\ \A j \in 0 .. L + 1 :
            /\ nxt'[Stop(j)] = IF j = L THEN bs[1] ELSE nxt[Stop(j)]
            /\ prv'[Stop(j)] = IF j = L + 1 THEN bs[n] ELSE prv[Stop(j)]
  <2>1. ASSUME NEW i \in 1 .. n
        PROVE  /\ nxt'[bs[i]] = IF i = n THEN FakeTail ELSE bs[i + 1]
               /\ prv'[bs[i]] = IF i = 1 THEN last ELSE bs[i - 1]
    BY <1>3, <1>4, <1>11
  <2>2. ASSUME NEW j \in 0 .. L + 1
        PROVE  /\ nxt'[Stop(j)] = IF j = L THEN bs[1] ELSE nxt[Stop(j)]
               /\ prv'[Stop(j)] = IF j = L + 1 THEN bs[n] ELSE prv[Stop(j)]
    <3>1. (Stop(j) = last <=> j = L) /\ (Stop(j) = FakeTail <=> j = L + 1)
      BY <1>7, <1>8
    <3> QED BY <3>1, <1>3, <1>6, <1>8
  <2> QED BY <2>1, <2>2
<1>13. ASSUME NEW k \in 0 .. Len(q')
       PROVE  nxt'[NStop(k)] = NStop(k + 1) /\ prv'[NStop(k + 1)] = NStop(k)
  <2>1. CASE k < L
    <3>1. /\ k \in 0 .. L /\ k + 1 \in 0 .. L /\ k \in 0 .. L + 1
          /\ k + 1 \in 0 .. L + 1 /\ k # L /\ k + 1 # L + 1
      BY <2>1, <1>1, SMT
    <3> QED BY <3>1, <1>9, <1>10, <1>12, SMT
  <2>2. CASE k = L
    <3>1. 1 \in 1 .. n /\ L \in 0 .. L /\ L \in 0 .. L + 1
      BY <1>1, <1>2, SMT
    <3>2. NStop(k) = Stop(L) /\ NStop(k + 1) = bs[1]
      BY <2>2, <3>1, <1>9
    <3> QED BY <3>1, <3>2, <1>7, <1>12
  <2>3. CASE k > L /\ k < L + n
    <3> DEFINE i == k - L
    <3>1. i \in 1 .. n /\ i + 1 \in 1 .. n /\ i # n /\ i + 1 # 1 /\ k = L + i
          /\ k + 1 = L + (i + 1) /\ (i + 1) - 1 = i
      BY <2>3, <1>1, <1>2, SMT
    <3> HIDE DEF i
    <3>2. NStop(k) = bs[i] /\ NStop(k + 1) = bs[i + 1]
      BY <3>1, <1>9
    <3>3. nxt'[bs[i]] = bs[i + 1] /\ prv'[bs[i + 1]] = bs[(i + 1) - 1]
      BY <3>1, <1>12
    <3> QED BY <3>1, <3>2, <3>3
  <2>4. CASE k = L + n
    <3>1. n \in 1 .. n /\ L + 1 \in 0 .. L + 1
      BY <1>1, <1>2, SMT
    <3>2. NStop(k) = bs[n] /\ NStop(k + 1) = FakeTail
      BY <2>4, <3>1, <1>9
    <3> QED BY <3>1, <3>2, <1>7, <1>12, SMT
  <2> QED BY <2>1, <2>2, <2>3, <2>4, <1>1, <1>2, <1>5, SMT
<1>14. nxt'[FakeTail] = None /\ prv'[FakeHead] = None
  <2>1. nxt[FakeTail] = None /\ prv[FakeHead] = None
    BY DEF IInv, WellLinked
  <2>2. L + 1 # L /\ 0 # L + 1
    BY <1>1, SMT
  <2> QED BY <2>1, <2>2, <1>7, <1>12
<1>15. \A i \in 1 .. n : ~Abstract!Queued(bs[i])
  <2> SUFFICES ASSUME NEW i \in 1 .. n, NEW j \in 1 .. L, q[j] = bs[i]
               PROVE  FALSE
    BY DEF Abstract!Queued, L
  <2>1. j \in 0 .. L + 1 /\ Stop(j) = q[j]
    BY <1>1, SMT DEF Stop, L
  <2> QED BY <2>1, <1>4, <1>6
<1>16. Distinct(q')
  <2> SUFFICES ASSUME NEW j \in 1 .. L + n, NEW k \in 1 .. L + n, q'[j] = q'[k]
               PROVE  j = k
    BY <1>5 DEF Distinct
  <2>1. CASE j <= L /\ k <= L
    <3>1. j \in 1 .. L /\ k \in 1 .. L
      BY <2>1, SMT
    <3> QED BY <3>1, <1>1, <1>5 DEF Distinct, L
  <2>2. CASE j > L /\ k > L
    <3>1. j - L \in 1 .. n /\ k - L \in 1 .. n /\ L + (j - L) = j /\ L + (k - L) = k
      BY <2>2, <1>1, <1>2, SMT
    <3>2. bs[j - L] = bs[k - L]
      BY <3>1, <1>5
    <3>3. j - L = k - L
      BY <3>1, <3>2 DEF Distinct, n
    <3> QED BY <3>3, <3>1
  <2>3. ASSUME NEW x \in 1 .. L, NEW y \in 1 .. L + n, y > L, q'[x] = q'[y]
        PROVE  FALSE
    <3>1. y - L \in 1 .. n /\ L + (y - L) = y
      BY <2>3, <1>1, <1>2, SMT
    <3>2. q[x] = bs[y - L]
      BY <2>3, <3>1, <1>5
    <3> QED BY <3>1, <3>2, <1>15 DEF Abstract!Queued, L
  <2> QED BY <2>1, <2>2, <2>3, <1>1, <1>2, SMT
<1>17. ASSUME NEW c \in Blocks, \A k \in 1 .. Len(q') : q'[k] # c
       PROVE  nxt'[c] = None /\ prv'[c] = None
  <2>1. c \in Nodes /\ c # FakeHead /\ c # FakeTail
    BY SMT DEF Nodes, Blocks, FakeHead, FakeTail
  <2>2. \A k \in 1 .. L : q[k] # c
    <3> TAKE k \in 1 .. L
    <3>1. k \in 1 .. Len(q')
      BY <1>1, <1>2, <1>5, SMT
    <3> QED BY <3>1, <1>5, <1>17
  <2>3. c \notin added
    <3> SUFFICES ASSUME NEW i \in 1 .. n, bs[i] = c PROVE FALSE
      BY DEF added
    <3>1. L + i \in 1 .. Len(q') /\ q'[L + i] = bs[i]
      BY <1>1, <1>2, <1>5, SMT
    <3> QED BY <3>1, <1>17
  <2>4. nxt[c] = None /\ prv[c] = None
    BY <2>2 DEF IInv, WellLinked, Unlinked, L
  <2>5. c # last
    <3>1. \A j \in 0 .. L + 1 : Stop(j) # c
      BY <2>1, <2>2, <1>1, SMT DEF Stop, L
    <3> QED BY <3>1, <1>7
  <2> QED BY <2>1, <2>3, <2>4, <2>5, <1>3
<1>18. L + n <= NumBlocks
  <2>1. q' \in Seq(Blocks) /\ Distinct(q')
    BY <1>5, <1>16
  <2> QED BY <2>1, <1>5, DistinctLen
<1>19. nxt' \in [Nodes -> Nodes \cup {None}] /\ prv' \in [Nodes -> Nodes \cup {None}]
  <2>1. ASSUME NEW x \in Nodes
        PROVE  nxt'[x] \in Nodes \cup {None} /\ prv'[x] \in Nodes \cup {None}
    <3>1. CASE x \in added
      <4>1. PICK i \in 1 .. n : x = bs[i]
        BY <3>1 DEF added
      <4>2. (i # n => i + 1 \in 1 .. n) /\ (i # 1 => i - 1 \in 1 .. n)
        BY <1>2, SMT
      <4>3. last \in Nodes /\ FakeTail \in Nodes
        BY <1>7, <1>8
      <4> QED BY <4>1, <4>2, <4>3, <1>11, <1>12
    <3>2. CASE x \notin added
      <4>1. 1 \in 1 .. n /\ n \in 1 .. n
        BY <1>2, SMT
      <4>2. /\ nxt'[x] = IF x = last THEN bs[1] ELSE nxt[x]
            /\ prv'[x] = IF x = FakeTail THEN bs[n] ELSE prv[x]
        BY <3>2, <1>3
      <4>3. nxt[x] \in Nodes \cup {None} /\ prv[x] \in Nodes \cup {None}
        BY DEF IInv, TypeOK
      <4> QED BY <4>1, <4>2, <4>3, <1>11
    <3> QED BY <3>1, <3>2
  <2> QED BY <2>1, <1>3
<1>20. TypeOK'
  BY <1>1, <1>2, <1>3, <1>5, <1>18, <1>19, SMT DEF TypeOK
<1>21. WellLinked'
  BY <1>1, <1>3, <1>5, <1>13, <1>14, <1>16, <1>17 DEF WellLinked, Unlinked, NStop, Stop
<1>22. Abstract!QAppendN(bs)
  BY <1>3, <1>15 DEF Abstract!QAppendN, Abstract!Distinct, Distinct, n
<1> QED BY <1>20, <1>21, <1>22 DEF IInv

\* append is append_n of one block.
LEMMA AppendStep ==
  ASSUME IInv, NEW b \in Blocks, append(b)
  PROVE  <<b>> \in Lists /\ Distinct(<<b>>) /\ append_n(<<b>>)
<1>1. /\ Len(<<b>>) = 1 /\ <<b>>[1] = b /\ 1 .. 1 = {1}
      /\ <<b>> \in [1 .. 1 -> Blocks]
  BY SMT
<1>2. <<b>> \in Lists /\ Distinct(<<b>>)
  <2>1. 1 \in 0 .. NumBlocks
    BY SMT DEF Blocks
  <2> QED BY <1>1, <2>1 DEF Lists, Distinct
<1> DEFINE last == prv[FakeTail]
           pos(x) == CHOOSE i \in 1 .. Len(<<b>>) : <<b>>[i] = x
           added == {<<b>>[i] : i \in 1 .. Len(<<b>>)}
<1>3. added = {b} /\ pos(b) = 1
  BY <1>1
<1>4. /\ last \in Nodes /\ last # b /\ b # FakeTail /\ b \in Nodes /\ FakeTail \in Nodes
      /\ last # FakeTail
  <2>1. last = Stop(Len(q)) /\ Len(q) \in Nat /\ Len(q) \in 0 .. Len(q)
        /\ Len(q) \in 0 .. Len(q) + 1
    BY StopFacts, SMT
  <2>2. last \in Nodes
    BY <2>1, StopsDistinct
  <2>3. nxt[last] # None
    <3>1. nxt[last] = Stop(Len(q) + 1)
      BY <2>1 DEF IInv, WellLinked
    <3> QED BY <3>1, <2>1, SMT DEF Stop, FakeTail, None
  <2>4. nxt[b] = None
    BY DEF append, Unlinked
  <2> QED BY <2>1, <2>2, <2>3, <2>4, StopFacts, SMT DEF Nodes, Blocks, FakeTail
<1>5. /\ Unlinked(b) /\ last # None
      /\ nxt' = [nxt EXCEPT ![last] = b, ![b] = FakeTail]
      /\ prv' = [prv EXCEPT ![b] = last, ![FakeTail] = b]
      /\ num' = num + 1 /\ ret' = <<>> /\ q' = q \o <<b>>
  BY DEF append
<1>6. /\ nxt \in [Nodes -> Nodes \cup {None}] /\ prv \in [Nodes -> Nodes \cup {None}]
  BY DEF IInv, TypeOK
<1> HIDE DEF last, pos, added
<1>7. nxt' = [x \in Nodes |->
               IF x \in added
               THEN IF pos(x) = 1 THEN FakeTail ELSE <<b>>[pos(x) + 1]
               ELSE IF x = last THEN b ELSE nxt[x]]
  BY <1>3, <1>4, <1>5, <1>6
<1>8. prv' = [x \in Nodes |->
               IF x \in added
               THEN IF pos(x) = 1 THEN last ELSE <<b>>[pos(x) - 1]
               ELSE IF x = FakeTail THEN b ELSE prv[x]]
  BY <1>3, <1>4, <1>5, <1>6
<1>9. append_n(<<b>>)
  <2>1. /\ \A i \in 1 .. Len(<<b>>) : Unlinked(<<b>>[i])
        /\ num' = num + Len(<<b>>)
        /\ nxt' = [x \in Nodes |->
               IF x \in added
               THEN IF pos(x) = Len(<<b>>) THEN FakeTail ELSE <<b>>[pos(x) + 1]
               ELSE IF x = last THEN <<b>>[1] ELSE nxt[x]]
        /\ prv' = [x \in Nodes |->
               IF x \in added
               THEN IF pos(x) = 1 THEN last ELSE <<b>>[pos(x) - 1]
               ELSE IF x = FakeTail THEN <<b>>[Len(<<b>>)] ELSE prv[x]]
    BY <1>1, <1>5, <1>7, <1>8
  <2>2. Len(<<b>>) > 0
    BY <1>1, SMT
  <2> QED BY <2>1, <2>2, <1>5 DEF append_n, last, pos, added
<1> QED BY <1>2, <1>9

-----------------------------------------------------------------------------
\* Every call keeps the inductive invariant and is a step of the abstract queue.
LEMMA StepIInv == IInv /\ [Next]_vars => IInv' /\ [Abstract!QNext]_(Abstract!qvars)
<1> SUFFICES ASSUME IInv, [Next]_vars
             PROVE  IInv' /\ [Abstract!QNext]_(Abstract!qvars)
  OBVIOUS
<1>1. CASE popleft
  BY <1>1, PopLeftStep, PopLeftNStep DEF Abstract!QNext
<1>2. CASE \E n \in 1 .. NumBlocks : popleft_n(n)
  BY <1>2, PopLeftNStep DEF Abstract!QNext
<1>3. CASE \E b \in Blocks : remove(b)
  BY <1>3, RemoveStep DEF Abstract!QNext
<1>4. CASE \E b \in Blocks : append(b)
  <2>1. PICK b \in Blocks : append(b)
    BY <1>4
  <2>2. IInv' /\ Abstract!QAppendN(<<b>>) /\ <<b>> \in Lists
    BY <2>1, AppendStep, AppendNStep
  <2> QED BY <2>2 DEF Abstract!QNext, Lists, Blocks, Abstract!Lists, Abstract!Blocks
<1>5. CASE \E bs \in Lists : Distinct(bs) /\ append_n(bs)
  <2>1. PICK bs \in Lists : Distinct(bs) /\ append_n(bs)
    BY <1>5
  <2>2. IInv' /\ Abstract!QAppendN(bs)
    BY <2>1, AppendNStep
  <2> QED BY <2>2 DEF Abstract!QNext, Lists, Blocks, Abstract!Lists, Abstract!Blocks
<1>6. CASE UNCHANGED vars
  BY <1>6 DEF vars, IInv, TypeOK, WellLinked, Unlinked, Stop, Abstract!qvars
<1> QED BY <1>1, <1>2, <1>3, <1>4, <1>5, <1>6 DEF Next

\* The links always describe exactly one well-formed list of num_free_blocks
\* blocks, whatever calls BlockPool makes and for every pool size.
THEOREM LinksCorrect == Spec => [](TypeOK /\ WellLinked)
<1>1. Init => IInv
  BY InitIInv
<1>2. IInv /\ [Next]_vars => IInv'
  BY StepIInv
<1> QED BY <1>1, <1>2, PTL DEF Spec, IInv

\* The defensive branches of popleft, popleft_n and append are unreachable.
THEOREM NoCallerErrorHolds == Spec => []NoCallerError
<1>1. IInv => NoCallerError
  <2> SUFFICES ASSUME IInv PROVE NoCallerError
    OBVIOUS
  <2>1. /\ Len(q) \in Nat /\ num = Len(q)
        /\ nxt[FakeHead] = Stop(1) /\ prv[FakeTail] = Stop(Len(q))
        /\ 1 \in 1 .. Len(q) + 1 /\ Len(q) \in 0 .. Len(q)
    BY StopFacts, SMT DEF IInv, WellLinked
  <2>2. Stop(1) # None /\ Stop(Len(q)) # None
    BY <2>1, StopFacts
  <2>3. CASE Len(q) = 0
    BY <2>1, <2>2, <2>3, SMT DEF NoCallerError, Stop
  <2>4. CASE Len(q) # 0
    <3>1. 1 \in 1 .. Len(q) /\ 1 \in 0 .. Len(q) /\ 1 + 1 \in 1 .. Len(q) + 1 /\ Stop(1) = q[1]
      BY <2>1, <2>4, SMT DEF Stop
    <3>2. Stop(1) # FakeTail /\ nxt[q[1]] = Stop(1 + 1) /\ Stop(1 + 1) # None
      BY <3>1, StopFacts
    <3> QED BY <2>1, <2>2, <2>4, <3>1, <3>2 DEF NoCallerError
  <2> QED BY <2>3, <2>4
<1>2. Spec => []IInv
  BY LinksCorrect DEF IInv
<1> QED BY <1>1, <1>2, PTL

\* The linked list implements the abstract queue: the same blocks come back in
\* the same order, for every pool size.
THEOREM RefinesQueue == Spec => ImplementsQueue
<1>1. Init => Abstract!QInit
  BY DEF Init, Abstract!QInit
<1>2. IInv /\ [Next]_vars => [Abstract!QNext]_(Abstract!qvars)
  BY StepIInv
<1>3. Spec => []IInv
  BY LinksCorrect DEF IInv
<1> QED BY <1>1, <1>2, <1>3, PTL DEF Spec, ImplementsQueue, Abstract!QSpec
=============================================================================
