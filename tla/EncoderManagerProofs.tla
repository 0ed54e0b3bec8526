------------------------ MODULE EncoderManagerProofs ------------------------
(***************************************************************************)
(* What the operations of the encoder cache manager, and the loops of the  *)
(* scheduler that call them, do to a cache: they keep its counters exact   *)
(* and its references with their owners, and change only what they are     *)
(* asked to.  The loops are folds over sequences, so that the first facts  *)
(* are about folds and about the weight of a set of items.                 *)
(***************************************************************************)
EXTENDS EncoderCache, FiniteSetTheorems, WellFoundedInduction, TLAPS

\* Most leaves need no arithmetic; those that do cite SMT.
USE Zenon

-----------------------------------------------------------------------------
(* Induction and folds, for properties and operations given as sets and    *)
(* functions.                                                              *)

\* Every non-empty set of natural numbers has a least element.
LEMMA LeastNat ==
  ASSUME NEW S \in SUBSET Nat, S # {}
  PROVE  \E m \in S : \A k \in S : m <= k
<1> DEFINE R == OpToRel(<, Nat)
<1>1. PICK m \in S : \A k \in S : <<k, m>> \notin R
  <2> HIDE DEF R
  <2>1. IsWellFoundedOn(R, Nat)
    BY NatLessThanWellFounded DEF R
  <2> QED BY <2>1, WFMin
<1>2. \A k \in S : ~(k < m)
  BY <1>1 DEF OpToRel
<1> QED BY <1>2, SMT

\* A set that holds 0 and is closed under successor below n holds 0 .. n.
LEMMA SetInduction ==
  ASSUME NEW n \in Nat, NEW S, 0 \in S,
         \A i \in 0 .. n - 1 : i \in S => i + 1 \in S
  PROVE  0 .. n \subseteq S
<1> DEFINE Bad == {i \in 0 .. n : i \notin S}
<1>1. SUFFICES ASSUME Bad # {} PROVE FALSE
  OBVIOUS
<1>2. Bad \in SUBSET Nat
  BY SMT
<1>3. PICK m \in Bad : \A k \in Bad : m <= k
  <2> HIDE DEF Bad
  <2> QED BY <1>1, <1>2, LeastNat
<1>4. m # 0 /\ m - 1 \in 0 .. n - 1
  BY <1>3, SMT
<1>5. m - 1 \in S
  BY <1>3, <1>4, SMT
<1> QED BY <1>3, <1>4, <1>5, SMT

\* The greatest element of a set that ends at n.
LEMMA MaxIs ==
  ASSUME NEW S \in SUBSET Nat, NEW n \in S, \A i \in S : i <= n
  PROVE  Max(S) = n
<1>1. \A y \in S : n >= y
  BY SMT
<1>2. Max(S) \in S /\ \A y \in S : Max(S) >= y
  BY <1>1 DEF Max
<1>3. Max(S) >= n /\ n >= Max(S)
  BY <1>1, <1>2
<1>4. Max(S) \in Nat /\ n \in Nat
  BY <1>2
<1> HIDE DEF Max
<1> QED BY ONLY <1>3, <1>4, SMT

\* Non-empty sets of naturals below n have a greatest element.
LEMMA MaxExists ==
  ASSUME NEW n \in Nat, NEW S \in SUBSET (1 .. n), S # {}
  PROVE  Max(S) \in S /\ \A i \in S : i <= Max(S)
<1> DEFINE T == {n - i : i \in S}
<1>1. T \in SUBSET Nat /\ T # {}
  <2>1. \A i \in 1 .. n : n - i \in Nat
    BY SMT
  <2> QED BY <2>1
<1>2. PICK m \in T : \A k \in T : m <= k
  <2> HIDE DEF T
  <2> QED BY <1>1, LeastNat
<1>3. PICK x \in S : m = n - x
  BY <1>2
<1>4. \A i \in S : n - i \in T
  OBVIOUS
<1>5. \A i \in S : x >= i
  BY <1>2, <1>3, <1>4, SMT
<1>6. Max(S) \in S /\ \A i \in S : Max(S) >= i
  BY <1>5 DEF Max
<1> QED BY <1>6, SMT

\* g is what FoldLeft computes for every set of places of s, with the
\* operation F; f is its value after each place.
IsFold(A, E, F, c, s, n, g, f) ==
  /\ DOMAIN s = 1 .. n
  /\ g \in [SUBSET (1 .. n) -> A] /\ g[{}] = c
  /\ \A t \in SUBSET (1 .. n) : t # {} =>
       /\ g[t \ {Max(t)}] \in A /\ s[Max(t)] \in E
       /\ g[t] = F[<<g[t \ {Max(t)}], s[Max(t)]>>]
  /\ f \in [0 .. n -> A] /\ f[0] = c
  /\ \A i \in 1 .. n :
       /\ f[i - 1] \in A /\ s[i] \in E
       /\ f[i] = F[<<f[i - 1], s[i]>>]

\* The recursive function of FoldLeft exists.
LEMMA FoldExists ==
  ASSUME NEW A, NEW E, NEW c \in A, NEW s \in Seq(E), NEW F \in [A \X E -> A]
  PROVE  \E g, f : IsFold(A, E, F, c, s, Len(s), g, f)
<1> DEFINE n == Len(s)
           Good(k, g) ==
             /\ g[{}] = c
             /\ \A t \in SUBSET (1 .. k) : t # {} => g[t] = F[<<g[t \ {Max(t)}], s[Max(t)]>>]
           K == {k \in 0 .. n : \E g \in [SUBSET (1 .. k) -> A] : Good(k, g)}
<1>s. n \in Nat /\ s \in [1 .. n -> E] /\ DOMAIN s = 1 .. n
  BY SMT
<1> HIDE DEF n
<1>1. 0 \in K
  <2>1. 1 .. 0 = {} /\ 0 \in 0 .. n
    BY <1>s, SMT
  <2> DEFINE g == [t \in SUBSET (1 .. 0) |-> c]
  <2>2. g \in [SUBSET (1 .. 0) -> A] /\ g[{}] = c
    OBVIOUS
  <2>3. \A t \in SUBSET (1 .. 0) : t = {}
    BY <2>1
  <2>4. Good(0, g)
    BY <2>2, <2>3
  <2> QED BY <2>1, <2>2, <2>4
<1>2. ASSUME NEW k \in 0 .. n - 1, k \in K PROVE k + 1 \in K
  <2>1. PICK g \in [SUBSET (1 .. k) -> A] : Good(k, g)
    BY <1>2
  <2> DEFINE m == k + 1
             h == [t \in SUBSET (1 .. m) |->
                     IF m \in t THEN F[<<g[t \ {m}], s[m]>>] ELSE g[t]]
  <2>2. m \in 1 .. n /\ m \in 0 .. n /\ m \in Nat
    BY <1>s, SMT
  <2>3. \A t \in SUBSET (1 .. m) : t \ {m} \in SUBSET (1 .. k) /\ (m \notin t => t \in SUBSET (1 .. k))
    BY <1>s, SMT
  <2>4. s[m] \in E
    BY <2>2, <1>s
  <2> HIDE DEF m
  <2>5. h \in [SUBSET (1 .. m) -> A]
    BY <2>3, <2>4
  <2>6. h[{}] = c
    BY <2>1
  <2>7. ASSUME NEW t \in SUBSET (1 .. m), t # {}
        PROVE  h[t] = F[<<h[t \ {Max(t)}], s[Max(t)]>>]
    <3>1. CASE m \in t
      <4>1. t \in SUBSET Nat /\ \A i \in t : i <= m
        BY <2>2, SMT
      <4>2. Max(t) = m
        BY <3>1, <4>1, MaxIs
      <4>3. h[t \ {m}] = g[t \ {m}]
        BY <2>3
      <4> QED BY <3>1, <4>2, <4>3
    <3>2. CASE m \notin t
      <4>1. t \in SUBSET (1 .. k)
        BY <2>3, <3>2
      <4>2. h[t] = g[t] /\ h[t \ {Max(t)}] = g[t \ {Max(t)}]
        BY <3>2, <2>3
      <4> QED BY <4>1, <4>2, <2>1, <2>7
    <3> QED BY <3>1, <3>2
  <2>8. Good(m, h)
    BY <2>6, <2>7
  <2>9. m \in K
    BY <2>2, <2>5, <2>8
  <2> QED BY <2>9 DEF m
<1>3. n \in K
  <2>1. n \in 0 .. n
    BY <1>s, SMT
  <2> HIDE DEF K
  <2> QED BY <1>1, <1>2, <1>s, <2>1, SetInduction
<1>4. PICK g \in [SUBSET (1 .. n) -> A] : Good(n, g)
  BY <1>3
<1> DEFINE f == [i \in 0 .. n |-> g[1 .. i]]
<1>5. \A i \in 0 .. n : 1 .. i \in SUBSET (1 .. n)
  BY <1>s, SMT
<1>6. f \in [0 .. n -> A]
  BY <1>5
<1>7. 1 .. 0 = {} /\ 0 \in 0 .. n
  BY <1>s, SMT
<1>8. ASSUME NEW i \in 1 .. n
      PROVE  f[i - 1] \in A /\ s[i] \in E /\ f[i] = F[<<f[i - 1], s[i]>>]
  <2>1. /\ i \in 0 .. n /\ i - 1 \in 0 .. n /\ i \in 1 .. i /\ 1 .. i \in SUBSET Nat
        /\ \A j \in 1 .. i : j <= i
    BY <1>s, SMT
  <2>2. (1 .. i) \ {i} = 1 .. i - 1
    BY <1>s, SMT
  <2>3. Max(1 .. i) = i
    BY <2>1, MaxIs
  <2>4. f[i] = g[1 .. i] /\ f[i - 1] = g[1 .. i - 1]
    BY <2>1
  <2> QED BY <2>1, <2>2, <2>3, <2>4, <1>4, <1>5, <1>s, ZenonT(40)
<1>9. ASSUME NEW t \in SUBSET (1 .. n), t # {}
      PROVE  g[t \ {Max(t)}] \in A /\ s[Max(t)] \in E
  BY <1>9, <1>s, MaxExists
<1>10. IsFold(A, E, F, c, s, n, g, f)
  BY <1>4, <1>6, <1>7, <1>8, <1>9, <1>s DEF IsFold
<1> QED BY <1>10 DEF n

\* What the prefixes of a sequence come to, place by place.
LEMMA PrefixValue ==
  ASSUME NEW n \in Nat, NEW v, NEW f, v[{}] = f[0],
         \A i \in 1 .. n : /\ 1 .. i \in SUBSET (1 .. n) /\ 1 .. i # {}
                           /\ v[(1 .. i) \ {Max(1 .. i)}] = f[i - 1] /\ Max(1 .. i) = i
                           => v[1 .. i] = f[i]
  PROVE  v[1 .. n] = f[n]
<1> DEFINE K == {i \in 0 .. n : v[1 .. i] = f[i]}
<1>1. 0 \in K
  <2>1. 1 .. 0 = {} /\ 0 \in 0 .. n
    BY SMT
  <2> QED BY <2>1
<1>2. ASSUME NEW j \in 0 .. n - 1, j \in K PROVE j + 1 \in K
  <2> DEFINE i == j + 1
  <2>1. /\ i \in 0 .. n /\ i \in 1 .. n /\ i \in 1 .. i /\ 1 .. i \in SUBSET Nat /\ i - 1 = j
        /\ 1 .. i \in SUBSET (1 .. n)
        /\ \A k \in 1 .. i : k <= i
    BY SMT
  <2>2. (1 .. i) \ {i} = 1 .. j
    BY SMT
  <2> HIDE DEF i
  <2>3. Max(1 .. i) = i
    BY <2>1, MaxIs
  <2>4. v[1 .. j] = f[j]
    BY <1>2
  <2>5. v[1 .. i] = f[i]
    BY <2>1, <2>2, <2>3, <2>4
  <2>6. i \in K
    BY <2>1, <2>5
  <2> QED BY <2>6 DEF i
<1>3. n \in 0 .. n
  BY SMT
<1>4. n \in K
  <2> HIDE DEF K
  <2> QED BY <1>1, <1>2, <1>3, SetInduction
<1> QED BY <1>4

\* One round of Among.
Kept(kept, x, S) == IF x \in S THEN Append(kept, x) ELSE kept

\* The value of Among after each element.
LEMMA AmongFold ==
  ASSUME NEW A, NEW E, <<>> \in A, NEW s \in Seq(E), NEW S,
         \A x \in A, y \in E : Kept(x, y, S) \in A
  PROVE  \E f \in [0 .. Len(s) -> A] :
           /\ f[0] = <<>>
           /\ \A i \in 1 .. Len(s) : f[i - 1] \in A /\ s[i] \in E /\ f[i] = Kept(f[i - 1], s[i], S)
           /\ Among(s, S) = f[Len(s)]
<1> DEFINE n == Len(s)
           F == [x \in A \X E |-> Kept(x[1], x[2], S)]
           It(v) == [t \in SUBSET DOMAIN s |->
                       IF t = {} THEN <<>> ELSE Kept(v[t \ {Max(t)}], s[Max(t)], S)]
           it == CHOOSE v : v = It(v)
<1>1. F \in [A \X E -> A]
  OBVIOUS
<1>2. PICK g, f : IsFold(A, E, F, <<>>, s, n, g, f)
  <2> HIDE DEF F
  <2> QED BY <1>1, FoldExists
<1>3. n \in Nat
  BY SMT
<1> HIDE DEF n
<1>4. \A i \in 1 .. n : f[i - 1] \in A /\ s[i] \in E /\ f[i] = Kept(f[i - 1], s[i], S)
  BY <1>2 DEF IsFold
<1>5. g = It(g)
  BY <1>2 DEF IsFold
<1>6. it = It(it)
  BY <1>5
<1>7. Among(s, S) = it[DOMAIN s]
  BY DEF Among, Kept, FoldLeft, MapThenFoldSet
<1>8. DOMAIN s = 1 .. n
  BY <1>2 DEF IsFold
<1> HIDE DEF it
<1>9. it[{}] = f[0]
  BY <1>2, <1>6 DEF IsFold
<1>10. \A i \in 1 .. n : /\ 1 .. i \in SUBSET (1 .. n) /\ 1 .. i # {}
                         /\ it[(1 .. i) \ {Max(1 .. i)}] = f[i - 1] /\ Max(1 .. i) = i
                         => it[1 .. i] = f[i]
  BY <1>4, <1>6, <1>8
<1>11. it[1 .. n] = f[n]
  <2> HIDE DEF It, F
  <2> QED BY <1>3, <1>9, <1>10, PrefixValue, ZenonT(40)
<1> QED BY <1>2, <1>4, <1>7, <1>8, <1>11 DEF n, IsFold

\* The value of SizeOf after each item.
LEMMA SizeOfFold ==
  ASSUME NEW A, NEW E, 0 \in A, NEW s \in Seq(E),
         \A x \in A, y \in E : x + Size[y] \in A
  PROVE  \E f \in [0 .. Len(s) -> A] :
           /\ f[0] = 0
           /\ \A i \in 1 .. Len(s) : f[i - 1] \in A /\ s[i] \in E /\ f[i] = f[i - 1] + Size[s[i]]
           /\ SizeOf(s) = f[Len(s)]
<1> DEFINE n == Len(s)
           F == [x \in A \X E |-> x[1] + Size[x[2]]]
           It(v) == [t \in SUBSET DOMAIN s |->
                       IF t = {} THEN 0 ELSE v[t \ {Max(t)}] + Size[s[Max(t)]]]
           it == CHOOSE v : v = It(v)
<1>1. F \in [A \X E -> A]
  OBVIOUS
<1>2. PICK g, f : IsFold(A, E, F, 0, s, n, g, f)
  <2> HIDE DEF F
  <2> QED BY <1>1, FoldExists
<1>3. n \in Nat
  BY SMT
<1> HIDE DEF n
<1>4. \A i \in 1 .. n : f[i - 1] \in A /\ s[i] \in E /\ f[i] = f[i - 1] + Size[s[i]]
  BY <1>2 DEF IsFold
<1>5. g = It(g)
  BY <1>2 DEF IsFold
<1>6. it = It(it)
  BY <1>5
<1>7. SizeOf(s) = it[DOMAIN s]
  BY DEF SizeOf, FoldLeft, MapThenFoldSet
<1>8. DOMAIN s = 1 .. n
  BY <1>2 DEF IsFold
<1> HIDE DEF it
<1>9. it[{}] = f[0]
  BY <1>2, <1>6 DEF IsFold
<1>10. \A i \in 1 .. n : /\ 1 .. i \in SUBSET (1 .. n) /\ 1 .. i # {}
                         /\ it[(1 .. i) \ {Max(1 .. i)}] = f[i - 1] /\ Max(1 .. i) = i
                         => it[1 .. i] = f[i]
  BY <1>4, <1>6, <1>8
<1>11. it[1 .. n] = f[n]
  <2> HIDE DEF It, F
  <2> QED BY <1>3, <1>9, <1>10, PrefixValue, ZenonT(40)
<1> QED BY <1>2, <1>4, <1>7, <1>8, <1>11 DEF n, IsFold

\* f is the cache, or the state of the loop, after each round of FreeAll.
FreeAllRun(f, A, E, c, s, r) ==
  /\ f[0] = c
  /\ \A i \in 1 .. Len(s) : f[i - 1] \in A /\ s[i] \in E /\ f[i] = free_encoder_input(f[i - 1], r, s[i].hash)
  /\ FreeAll(c, r, s) = f[Len(s)]

\* The cache after each item that FreeAll releases.
LEMMA FreeAllFold ==
  ASSUME NEW A, NEW E, NEW c \in A, NEW s \in Seq(E), NEW r,
         \A x \in A, y \in E : free_encoder_input(x, r, y.hash) \in A
  PROVE  \E f \in [0 .. Len(s) -> A] : FreeAllRun(f, A, E, c, s, r)
<1> DEFINE n == Len(s)
           F == [x \in A \X E |-> free_encoder_input(x[1], r, x[2].hash)]
           It(v) == [t \in SUBSET DOMAIN s |->
                       IF t = {} THEN c ELSE free_encoder_input(v[t \ {Max(t)}], r, s[Max(t)].hash)]
           it == CHOOSE v : v = It(v)
<1>1. F \in [A \X E -> A]
  OBVIOUS
<1>2. PICK g, f : IsFold(A, E, F, c, s, n, g, f)
  <2> HIDE DEF F
  <2> QED BY <1>1, FoldExists
<1>3. n \in Nat
  BY SMT
<1> HIDE DEF n
<1>4. \A i \in 1 .. n : f[i - 1] \in A /\ s[i] \in E /\ f[i] = free_encoder_input(f[i - 1], r, s[i].hash)
  BY <1>2 DEF IsFold
<1>5. g = It(g)
  BY <1>2 DEF IsFold
<1>6. it = It(it)
  BY <1>5
<1>7. FreeAll(c, r, s) = it[DOMAIN s]
  BY DEF FreeAll, FoldLeft, MapThenFoldSet
<1>8. DOMAIN s = 1 .. n
  BY <1>2 DEF IsFold
<1> HIDE DEF it
<1>9. it[{}] = f[0]
  BY <1>2, <1>6 DEF IsFold
<1>10. \A i \in 1 .. n : /\ 1 .. i \in SUBSET (1 .. n) /\ 1 .. i # {}
                         /\ it[(1 .. i) \ {Max(1 .. i)}] = f[i - 1] /\ Max(1 .. i) = i
                         => it[1 .. i] = f[i]
  BY <1>4, <1>6, <1>8
<1>11. it[1 .. n] = f[n]
  <2> HIDE DEF It, F
  <2> QED BY <1>3, <1>9, <1>10, PrefixValue, ZenonT(40)
<1> QED BY <1>2, <1>4, <1>7, <1>8, <1>11 DEF n, IsFold, FreeAllRun

\* f is the cache, or the state of the loop, after each round of Allocated.
AllocatedRun(f, A, E, c, s, r) ==
  /\ f[0] = c
  /\ \A i \in 1 .. Len(s) : f[i - 1] \in A /\ s[i] \in E /\ f[i] = allocate(f[i - 1], r, s[i])
  /\ Allocated(c, r, s) = f[Len(s)]

\* The cache after each item that is allocated.
LEMMA AllocatedFold ==
  ASSUME NEW A, NEW E, NEW c \in A, NEW s \in Seq(E), NEW r,
         \A x \in A, y \in E : allocate(x, r, y) \in A
  PROVE  \E f \in [0 .. Len(s) -> A] : AllocatedRun(f, A, E, c, s, r)
<1> DEFINE n == Len(s)
           F == [x \in A \X E |-> allocate(x[1], r, x[2])]
           It(v) == [t \in SUBSET DOMAIN s |->
                       IF t = {} THEN c ELSE allocate(v[t \ {Max(t)}], r, s[Max(t)])]
           it == CHOOSE v : v = It(v)
<1>1. F \in [A \X E -> A]
  OBVIOUS
<1>2. PICK g, f : IsFold(A, E, F, c, s, n, g, f)
  <2> HIDE DEF F
  <2> QED BY <1>1, FoldExists
<1>3. n \in Nat
  BY SMT
<1> HIDE DEF n
<1>4. \A i \in 1 .. n : f[i - 1] \in A /\ s[i] \in E /\ f[i] = allocate(f[i - 1], r, s[i])
  BY <1>2 DEF IsFold
<1>5. g = It(g)
  BY <1>2 DEF IsFold
<1>6. it = It(it)
  BY <1>5
<1>7. Allocated(c, r, s) = it[DOMAIN s]
  BY DEF Allocated, FoldLeft, MapThenFoldSet
<1>8. DOMAIN s = 1 .. n
  BY <1>2 DEF IsFold
<1> HIDE DEF it
<1>9. it[{}] = f[0]
  BY <1>2, <1>6 DEF IsFold
<1>10. \A i \in 1 .. n : /\ 1 .. i \in SUBSET (1 .. n) /\ 1 .. i # {}
                         /\ it[(1 .. i) \ {Max(1 .. i)}] = f[i - 1] /\ Max(1 .. i) = i
                         => it[1 .. i] = f[i]
  BY <1>4, <1>6, <1>8
<1>11. it[1 .. n] = f[n]
  <2> HIDE DEF It, F
  <2> QED BY <1>3, <1>9, <1>10, PrefixValue, ZenonT(40)
<1> QED BY <1>2, <1>4, <1>7, <1>8, <1>11 DEF n, IsFold, AllocatedRun

\* f is the cache, or the state of the loop, after each round of Preempted.
PreemptedRun(f, A, E, c, s) ==
  /\ f[0] = c
  /\ \A i \in 1 .. Len(s) : f[i - 1] \in A /\ s[i] \in E /\ f[i] = free(f[i - 1], s[i])
  /\ Preempted(c, s) = f[Len(s)]

\* The cache after each request that is preempted.
LEMMA PreemptedFold ==
  ASSUME NEW A, NEW E, NEW c \in A, NEW s \in Seq(E),
         \A x \in A, y \in E : free(x, y) \in A
  PROVE  \E f \in [0 .. Len(s) -> A] : PreemptedRun(f, A, E, c, s)
<1> DEFINE n == Len(s)
           F == [x \in A \X E |-> free(x[1], x[2])]
           It(v) == [t \in SUBSET DOMAIN s |->
                       IF t = {} THEN c ELSE free(v[t \ {Max(t)}], s[Max(t)])]
           it == CHOOSE v : v = It(v)
<1>1. F \in [A \X E -> A]
  OBVIOUS
<1>2. PICK g, f : IsFold(A, E, F, c, s, n, g, f)
  <2> HIDE DEF F
  <2> QED BY <1>1, FoldExists
<1>3. n \in Nat
  BY SMT
<1> HIDE DEF n
<1>4. \A i \in 1 .. n : f[i - 1] \in A /\ s[i] \in E /\ f[i] = free(f[i - 1], s[i])
  BY <1>2 DEF IsFold
<1>5. g = It(g)
  BY <1>2 DEF IsFold
<1>6. it = It(it)
  BY <1>5
<1>7. Preempted(c, s) = it[DOMAIN s]
  BY DEF Preempted, FoldLeft, MapThenFoldSet
<1>8. DOMAIN s = 1 .. n
  BY <1>2 DEF IsFold
<1> HIDE DEF it
<1>9. it[{}] = f[0]
  BY <1>2, <1>6 DEF IsFold
<1>10. \A i \in 1 .. n : /\ 1 .. i \in SUBSET (1 .. n) /\ 1 .. i # {}
                         /\ it[(1 .. i) \ {Max(1 .. i)}] = f[i - 1] /\ Max(1 .. i) = i
                         => it[1 .. i] = f[i]
  BY <1>4, <1>6, <1>8
<1>11. it[1 .. n] = f[n]
  <2> HIDE DEF It, F
  <2> QED BY <1>3, <1>9, <1>10, PrefixValue, ZenonT(40)
<1> QED BY <1>2, <1>4, <1>7, <1>8, <1>11 DEF n, IsFold, PreemptedRun

\* The loops of _try_schedule_encoder_inputs and update_from_output.
TryAll(t, r, computed, features) == FoldLeft(LAMBDA x, f : TryItem(x, r, f, computed), t, features)

UpdatedAll(c, entries) == FoldLeft(Updated, c, entries)

\* f is the cache, or the state of the loop, after each round of TryAll.
TryAllRun(f, A, E, c, s, r, computed) ==
  /\ f[0] = c
  /\ \A i \in 1 .. Len(s) : f[i - 1] \in A /\ s[i] \in E /\ f[i] = TryItem(f[i - 1], r, s[i], computed)
  /\ TryAll(c, r, computed, s) = f[Len(s)]

\* The state of the loop over the features after each feature.
LEMMA TryAllFold ==
  ASSUME NEW A, NEW E, NEW c \in A, NEW s \in Seq(E), NEW r, NEW computed,
         \A x \in A, y \in E : TryItem(x, r, y, computed) \in A
  PROVE  \E f \in [0 .. Len(s) -> A] : TryAllRun(f, A, E, c, s, r, computed)
<1> DEFINE n == Len(s)
           F == [x \in A \X E |-> TryItem(x[1], r, x[2], computed)]
           It(v) == [t \in SUBSET DOMAIN s |->
                       IF t = {} THEN c ELSE TryItem(v[t \ {Max(t)}], r, s[Max(t)], computed)]
           it == CHOOSE v : v = It(v)
<1>1. F \in [A \X E -> A]
  OBVIOUS
<1>2. PICK g, f : IsFold(A, E, F, c, s, n, g, f)
  <2> HIDE DEF F
  <2> QED BY <1>1, FoldExists
<1>3. n \in Nat
  BY SMT
<1> HIDE DEF n
<1>4. \A i \in 1 .. n : f[i - 1] \in A /\ s[i] \in E /\ f[i] = TryItem(f[i - 1], r, s[i], computed)
  BY <1>2 DEF IsFold
<1>5. g = It(g)
  BY <1>2 DEF IsFold
<1>6. it = It(it)
  BY <1>5
<1>7. TryAll(c, r, computed, s) = it[DOMAIN s]
  BY DEF TryAll, FoldLeft, MapThenFoldSet
<1>8. DOMAIN s = 1 .. n
  BY <1>2 DEF IsFold
<1> HIDE DEF it
<1>9. it[{}] = f[0]
  BY <1>2, <1>6 DEF IsFold
<1>10. \A i \in 1 .. n : /\ 1 .. i \in SUBSET (1 .. n) /\ 1 .. i # {}
                         /\ it[(1 .. i) \ {Max(1 .. i)}] = f[i - 1] /\ Max(1 .. i) = i
                         => it[1 .. i] = f[i]
  BY <1>4, <1>6, <1>8
<1>11. it[1 .. n] = f[n]
  <2> HIDE DEF It, F
  <2> QED BY <1>3, <1>9, <1>10, PrefixValue, ZenonT(40)
<1> QED BY <1>2, <1>4, <1>7, <1>8, <1>11 DEF n, IsFold, TryAllRun

\* f is the cache, or the state of the loop, after each round of UpdateFromOutput.
UpdatedRun(f, A, E, c, s) ==
  /\ f[0] = c
  /\ \A i \in 1 .. Len(s) : f[i - 1] \in A /\ s[i] \in E /\ f[i] = Updated(f[i - 1], s[i])
  /\ UpdatedAll(c, s) = f[Len(s)]

\* The cache after each entry of a batch whose results are applied.
LEMMA UpdatedFold ==
  ASSUME NEW A, NEW E, NEW c \in A, NEW s \in Seq(E),
         \A x \in A, y \in E : Updated(x, y) \in A
  PROVE  \E f \in [0 .. Len(s) -> A] : UpdatedRun(f, A, E, c, s)
<1> DEFINE n == Len(s)
           F == [x \in A \X E |-> Updated(x[1], x[2])]
           It(v) == [t \in SUBSET DOMAIN s |->
                       IF t = {} THEN c ELSE Updated(v[t \ {Max(t)}], s[Max(t)])]
           it == CHOOSE v : v = It(v)
<1>1. F \in [A \X E -> A]
  OBVIOUS
<1>2. PICK g, f : IsFold(A, E, F, c, s, n, g, f)
  <2> HIDE DEF F
  <2> QED BY <1>1, FoldExists
<1>3. n \in Nat
  BY SMT
<1> HIDE DEF n
<1>4. \A i \in 1 .. n : f[i - 1] \in A /\ s[i] \in E /\ f[i] = Updated(f[i - 1], s[i])
  BY <1>2 DEF IsFold
<1>5. g = It(g)
  BY <1>2 DEF IsFold
<1>6. it = It(it)
  BY <1>5
<1>7. UpdatedAll(c, s) = it[DOMAIN s]
  BY DEF UpdatedAll, FoldLeft, MapThenFoldSet
<1>8. DOMAIN s = 1 .. n
  BY <1>2 DEF IsFold
<1> HIDE DEF it
<1>9. it[{}] = f[0]
  BY <1>2, <1>6 DEF IsFold
<1>10. \A i \in 1 .. n : /\ 1 .. i \in SUBSET (1 .. n) /\ 1 .. i # {}
                         /\ it[(1 .. i) \ {Max(1 .. i)}] = f[i - 1] /\ Max(1 .. i) = i
                         => it[1 .. i] = f[i]
  BY <1>4, <1>6, <1>8
<1>11. it[1 .. n] = f[n]
  <2> HIDE DEF It, F
  <2> QED BY <1>3, <1>9, <1>10, PrefixValue, ZenonT(40)
<1> QED BY <1>2, <1>4, <1>7, <1>8, <1>11 DEF n, IsFold, UpdatedRun

-----------------------------------------------------------------------------
(* Sequences.                                                              *)

\* A sequence as a function.
LEMMA SeqFacts ==
  ASSUME NEW E, NEW s \in Seq(E)
  PROVE  /\ Len(s) \in Nat /\ DOMAIN s = 1 .. Len(s)
         /\ \A i \in 1 .. Len(s) : s[i] \in E /\ s[i] \in Range(s)
         /\ Range(s) = {s[i] : i \in 1 .. Len(s)} /\ Range(s) \subseteq E
<1>1. /\ Len(s) \in Nat /\ DOMAIN s = 1 .. Len(s)
      /\ \A i \in 1 .. Len(s) : s[i] \in E
  BY SMT
<1> QED BY <1>1 DEF Range

\* What a sequence holds after an element is appended.
LEMMA AppendFacts ==
  ASSUME NEW E, NEW s \in Seq(E), NEW e \in E
  PROVE  /\ Append(s, e) \in Seq(E)
         /\ Len(Append(s, e)) = Len(s) + 1
         /\ \A i \in 1 .. Len(s) : Append(s, e)[i] = s[i]
         /\ Append(s, e)[Len(s) + 1] = e
         /\ Range(Append(s, e)) = Range(s) \cup {e}
         /\ IsInjective(s) /\ e \notin Range(s) => IsInjective(Append(s, e))
<1> DEFINE t == Append(s, e)
<1>1. /\ t \in Seq(E) /\ Len(t) = Len(s) + 1 /\ DOMAIN t = 1 .. Len(s) + 1
      /\ \A i \in 1 .. Len(s) : t[i] = s[i]
      /\ t[Len(s) + 1] = e
  BY SMT
<1> HIDE DEF t
<1>2. /\ Len(s) \in Nat /\ DOMAIN s = 1 .. Len(s)
      /\ \A i \in 1 .. Len(s) + 1 : i \in 1 .. Len(s) \/ i = Len(s) + 1
      /\ \A i \in 1 .. Len(s) : i \in 1 .. Len(s) + 1 /\ i # Len(s) + 1
      /\ Len(s) + 1 \in 1 .. Len(s) + 1
  BY SMT
<1>3. Range(t) = Range(s) \cup {e}
  BY <1>1, <1>2 DEF Range
<1>4. ASSUME IsInjective(s), e \notin Range(s) PROVE IsInjective(t)
  <2>1. \A i \in 1 .. Len(s) : s[i] # e
    BY <1>2, <1>4 DEF Range
  <2>2. \A i, j \in 1 .. Len(s) : s[i] = s[j] => i = j
    BY <1>2, <1>4 DEF IsInjective
  <2> QED BY <1>1, <1>2, <2>1, <2>2 DEF IsInjective
<1> QED BY <1>1, <1>3, <1>4 DEF t

\* What two sequences hold together.
LEMMA ConcatFacts ==
  ASSUME NEW E, NEW s \in Seq(E), NEW t \in Seq(E)
  PROVE  s \o t \in Seq(E) /\ Range(s \o t) = Range(s) \cup Range(t)
<1> DEFINE u == s \o t
<1>1. /\ u \in Seq(E) /\ DOMAIN u = 1 .. Len(s) + Len(t)
      /\ \A i \in 1 .. Len(s) : u[i] = s[i]
      /\ \A i \in 1 .. Len(t) : u[Len(s) + i] = t[i]
  BY SMT
<1>2. /\ Len(s) \in Nat /\ Len(t) \in Nat /\ DOMAIN s = 1 .. Len(s) /\ DOMAIN t = 1 .. Len(t)
      /\ \A i \in 1 .. Len(s) : i \in 1 .. Len(s) + Len(t)
      /\ \A i \in 1 .. Len(t) : Len(s) + i \in 1 .. Len(s) + Len(t)
      /\ \A i \in 1 .. Len(s) + Len(t) :
           i \in 1 .. Len(s) \/ (i - Len(s) \in 1 .. Len(t) /\ Len(s) + (i - Len(s)) = i)
  BY SMT
<1> HIDE DEF u
<1>3. ASSUME NEW x \in Range(u) PROVE x \in Range(s) \cup Range(t)
  <2>1. PICK i \in 1 .. Len(s) + Len(t) : x = u[i]
    BY <1>1 DEF Range
  <2>2. CASE i \in 1 .. Len(s)
    BY <1>1, <1>2, <2>1, <2>2 DEF Range
  <2>3. CASE i - Len(s) \in 1 .. Len(t) /\ Len(s) + (i - Len(s)) = i
    BY <1>1, <1>2, <2>1, <2>3 DEF Range
  <2> QED BY <1>2, <2>2, <2>3
<1>4. ASSUME NEW x \in Range(s) PROVE x \in Range(u)
  <2>1. PICK i \in 1 .. Len(s) : x = s[i]
    BY <1>2 DEF Range
  <2>2. x = u[i] /\ i \in DOMAIN u
    BY <1>1, <1>2, <2>1
  <2> QED BY <2>2 DEF Range
<1>5. ASSUME NEW x \in Range(t) PROVE x \in Range(u)
  <2>1. PICK i \in 1 .. Len(t) : x = t[i]
    BY <1>2 DEF Range
  <2>2. x = u[Len(s) + i] /\ Len(s) + i \in DOMAIN u
    BY <1>1, <1>2, <2>1
  <2> QED BY <2>2 DEF Range
<1> QED BY <1>1, <1>3, <1>4, <1>5 DEF u

\* A sequence cut after n elements.
LEMMA SplitFacts ==
  ASSUME NEW E, NEW s \in Seq(E), NEW n \in 0 .. Len(s)
  PROVE  LET a == SubSeq(s, 1, n)
             b == SubSeq(s, n + 1, Len(s))
         IN  /\ a \in Seq(E) /\ b \in Seq(E)
             /\ Len(a) = n /\ Len(b) = Len(s) - n
             /\ \A i \in 1 .. n : a[i] = s[i]
             /\ Range(a) = {s[i] : i \in 1 .. n}
             /\ Range(b) = {s[i] : i \in n + 1 .. Len(s)}
             /\ Range(s) = Range(a) \cup Range(b)
             /\ IsInjective(s) =>
                  IsInjective(a) /\ IsInjective(b) /\ Range(a) \cap Range(b) = {}
<1> DEFINE a == SubSeq(s, 1, n)
           b == SubSeq(s, n + 1, Len(s))
<1>1. /\ a \in Seq(E) /\ Len(a) = n /\ DOMAIN a = 1 .. n
      /\ \A i \in 1 .. n : a[i] = s[i]
  BY SMT
<1>2. /\ b \in Seq(E) /\ Len(b) = Len(s) - n /\ DOMAIN b = 1 .. Len(s) - n
      /\ \A i \in 1 .. Len(s) - n : b[i] = s[n + i]
  BY SMT
<1>3. DOMAIN s = 1 .. Len(s)
  BY SMT
<1>s. /\ 1 .. n \subseteq 1 .. Len(s) /\ n + 1 .. Len(s) \subseteq 1 .. Len(s)
      /\ \A i \in 1 .. Len(s) : i \in 1 .. n \/ i \in n + 1 .. Len(s)
      /\ \A i \in 1 .. n : i \notin n + 1 .. Len(s)
  BY SMT
<1>t. /\ \A i \in n + 1 .. Len(s) : i - n \in 1 .. Len(s) - n /\ n + (i - n) = i
      /\ \A i \in 1 .. Len(s) - n : n + i \in n + 1 .. Len(s)
      /\ \A i, j \in 1 .. Len(s) - n : n + i = n + j => i = j
  BY SMT
<1> HIDE DEF a, b
<1>4. Range(a) = {s[i] : i \in 1 .. n}
  BY <1>1 DEF Range
<1>5. Range(b) = {s[i] : i \in n + 1 .. Len(s)}
  <2>1. ASSUME NEW x \in Range(b) PROVE x \in {s[i] : i \in n + 1 .. Len(s)}
    <3>1. PICK i \in 1 .. Len(s) - n : x = b[i]
      BY <1>2 DEF Range
    <3>2. x = s[n + i] /\ n + i \in n + 1 .. Len(s)
      BY <1>2, <1>t, <3>1
    <3> QED BY <3>2
  <2>2. ASSUME NEW i \in n + 1 .. Len(s) PROVE s[i] \in Range(b)
    <3>1. b[i - n] = s[i] /\ i - n \in DOMAIN b
      BY <1>2, <1>t
    <3> QED BY <3>1 DEF Range
  <2> QED BY <2>1, <2>2
<1>6. Range(s) = Range(a) \cup Range(b)
  <2>1. Range(s) = {s[i] : i \in 1 .. Len(s)}
    BY <1>3 DEF Range
  <2>2. Range(a) \subseteq Range(s) /\ Range(b) \subseteq Range(s)
    BY <1>s, <1>4, <1>5, <2>1
  <2>3. \A i \in 1 .. Len(s) : s[i] \in Range(a) \/ s[i] \in Range(b)
    BY <1>s, <1>4, <1>5
  <2>4. Range(s) \subseteq Range(a) \cup Range(b)
    BY <2>1, <2>3
  <2> QED BY <2>2, <2>4
<1>7. ASSUME IsInjective(s)
      PROVE  IsInjective(a) /\ IsInjective(b) /\ Range(a) \cap Range(b) = {}
  <2>1. \A i, j \in 1 .. Len(s) : s[i] = s[j] => i = j
    BY <1>3, <1>7 DEF IsInjective
  <2>2. IsInjective(a)
    <3>1. \A i, j \in 1 .. n : a[i] = a[j] => i = j
      <4>1. \A i \in 1 .. n : a[i] = s[i] /\ i \in 1 .. Len(s)
        BY <1>1, <1>s
      <4> QED BY <2>1, <4>1
    <3> QED BY <3>1, <1>1 DEF IsInjective
  <2>3. IsInjective(b)
    <3>1. ASSUME NEW i \in 1 .. Len(s) - n, NEW j \in 1 .. Len(s) - n, b[i] = b[j] PROVE i = j
      <4>1. n + i \in 1 .. Len(s) /\ n + j \in 1 .. Len(s) /\ s[n + i] = s[n + j]
        BY <1>2, <1>s, <1>t, <3>1
      <4> QED BY <1>t, <2>1, <4>1
    <3> QED BY <3>1, <1>2 DEF IsInjective
  <2>4. ASSUME NEW x \in Range(a), x \in Range(b) PROVE FALSE
    <3>1. PICK i \in 1 .. n : x = s[i]
      BY <1>4
    <3>2. PICK j \in n + 1 .. Len(s) : x = s[j]
      BY <1>5, <2>4
    <3> QED BY <1>s, <2>1, <3>1, <3>2
  <2> QED BY <2>2, <2>3, <2>4
<1> QED BY <1>1, <1>2, <1>4, <1>5, <1>6, <1>7 DEF a, b

\* What one round of Among does.
LEMMA KeptFacts ==
  ASSUME NEW E, NEW s \in Seq(E), NEW e \in E, NEW S
  PROVE  /\ Kept(s, e, S) \in Seq(E)
         /\ Range(Kept(s, e, S)) = Range(s) \cup ({e} \cap S)
         /\ IsInjective(s) /\ e \notin Range(s) => IsInjective(Kept(s, e, S))
  BY AppendFacts, SMT DEF Kept

\* Among keeps the elements of S, in their order.
LEMMA AmongFacts ==
  ASSUME NEW E, NEW s \in Seq(E), NEW S
  PROVE  /\ Among(s, S) \in Seq(E)
         /\ Range(Among(s, S)) = Range(s) \cap S
         /\ IsInjective(s) => IsInjective(Among(s, S))
<1>1. <<>> \in Seq(E)
  BY SMT
<1>2. \A x \in Seq(E), y \in E : Kept(x, y, S) \in Seq(E)
  BY KeptFacts
<1>3. PICK f \in [0 .. Len(s) -> Seq(E)] :
           /\ f[0] = <<>>
           /\ \A i \in 1 .. Len(s) :
                f[i - 1] \in Seq(E) /\ s[i] \in E /\ f[i] = Kept(f[i - 1], s[i], S)
           /\ Among(s, S) = f[Len(s)]
  BY <1>1, <1>2, AmongFold
<1> DEFINE To(i) == {s[j] : j \in 1 .. i}
           K == {i \in 0 .. Len(s) : /\ Range(f[i]) = To(i) \cap S
                                     /\ IsInjective(s) => IsInjective(f[i])}
<1>4. Len(s) \in Nat /\ Len(s) \in 0 .. Len(s) /\ 0 \in 0 .. Len(s) /\ 1 .. 0 = {}
  BY SMT
<1>5. 0 \in K
  <2>1. DOMAIN <<>> = {}
    BY SMT
  <2> QED BY <1>3, <1>4, <2>1 DEF Range, IsInjective
<1>6. ASSUME NEW k \in 0 .. Len(s) - 1, k \in K PROVE k + 1 \in K
  <2>1. /\ k + 1 \in 1 .. Len(s) /\ k + 1 \in 0 .. Len(s) /\ (k + 1) - 1 = k
        /\ 1 .. k + 1 = (1 .. k) \cup {k + 1} /\ k + 1 \notin 1 .. k
        /\ 1 .. k \subseteq 1 .. Len(s)
    BY <1>4, SMT
  <2>2. To(k + 1) = To(k) \cup {s[k + 1]}
    BY <2>1
  <2>3. f[k] \in Seq(E) /\ s[k + 1] \in E /\ f[k + 1] = Kept(f[k], s[k + 1], S)
    BY <1>3, <2>1
  <2>4. Range(f[k]) = To(k) \cap S /\ (IsInjective(s) => IsInjective(f[k]))
    BY <1>6
  <2>5. IsInjective(s) => s[k + 1] \notin To(k)
    <3> SUFFICES ASSUME IsInjective(s), NEW j \in 1 .. k, s[k + 1] = s[j] PROVE FALSE
      OBVIOUS
    <3>1. DOMAIN s = 1 .. Len(s)
      BY SeqFacts
    <3>2. k + 1 = j
      BY <2>1, <3>1 DEF IsInjective
    <3> QED BY <2>1, <3>2
  <2>6. Range(f[k + 1]) = Range(f[k]) \cup ({s[k + 1]} \cap S)
    BY <2>3, KeptFacts, SMT
  <2>7. ASSUME IsInjective(s) PROVE IsInjective(f[k + 1])
    <3>1. s[k + 1] \notin Range(f[k]) /\ IsInjective(f[k])
      BY <2>4, <2>5, <2>7
    <3> QED BY <2>3, <3>1, KeptFacts, SMT
  <2>8. Range(f[k + 1]) = To(k + 1) \cap S
    BY <2>2, <2>4, <2>6
  <2> QED BY <2>1, <2>7, <2>8
<1>7. Len(s) \in K
  <2> HIDE DEF K
  <2> QED BY <1>4, <1>5, <1>6, SetInduction
<1>8. Range(s) = To(Len(s))
  BY SeqFacts
<1> QED BY <1>3, <1>4, <1>7, <1>8

-----------------------------------------------------------------------------
(* Sums of sizes, as the number of embeddings.                             *)

Embeddings(D) == {x \in D \X Nat : x[2] \in 1 .. Size[x[1]]}

Weight(D) == Cardinality(Embeddings(D))

\* Sizes are positive.
LEMMA SizeFacts ==
  ASSUME NEW h \in DOMAIN Size
  PROVE  Size[h] \in Nat /\ Size[h] > 0 /\ Size[h] <= CacheSize /\ CacheSize \in Nat
BY EncoderCacheAssumption, SMT

\* Finite sets of items have finite weight.
LEMMA WeightType ==
  ASSUME NEW D \in SUBSET DOMAIN Size, IsFiniteSet(D)
  PROVE  IsFiniteSet(Embeddings(D)) /\ Weight(D) \in Nat
<1>1. IsFiniteSet(1 .. CacheSize)
  BY FS_Interval, EncoderCacheAssumption, SMT
<1>2. IsFiniteSet(D \X (1 .. CacheSize))
  BY <1>1, FS_Product
<1>3. ASSUME NEW x \in D \X Nat, x[2] \in 1 .. Size[x[1]] PROVE x \in D \X (1 .. CacheSize)
  <2>1. x[1] \in D /\ x[2] \in Nat /\ x = <<x[1], x[2]>>
    BY SMT
  <2>2. Size[x[1]] \in Nat /\ Size[x[1]] <= CacheSize /\ CacheSize \in Nat
    BY <2>1, SizeFacts
  <2>3. x[2] \in 1 .. CacheSize
    BY <1>3, <2>1, <2>2, SMT
  <2> QED BY <2>1, <2>3
<1>4. Embeddings(D) \in SUBSET (D \X (1 .. CacheSize))
  BY <1>3 DEF Embeddings
<1>5. IsFiniteSet(Embeddings(D))
  BY <1>2, <1>4, FS_Subset
<1> QED BY <1>5, FS_CardinalityType DEF Weight

\* The weights of disjoint sets add up.
LEMMA WeightUnion ==
  ASSUME NEW D \in SUBSET DOMAIN Size, NEW C \in SUBSET DOMAIN Size,
         IsFiniteSet(D), IsFiniteSet(C), D \cap C = {}
  PROVE  IsFiniteSet(D \cup C) /\ Weight(D \cup C) = Weight(D) + Weight(C)
<1>1. Embeddings(D \cup C) = Embeddings(D) \cup Embeddings(C)
  BY DEF Embeddings
<1>2. Embeddings(D) \cap Embeddings(C) = {}
  BY DEF Embeddings
<1>3. /\ IsFiniteSet(Embeddings(D)) /\ IsFiniteSet(Embeddings(C))
      /\ Weight(D) \in Nat /\ Weight(C) \in Nat
  BY WeightType
<1>4. Cardinality(Embeddings(D) \cup Embeddings(C))
        = Cardinality(Embeddings(D)) + Cardinality(Embeddings(C)) - Cardinality(Embeddings(D) \cap Embeddings(C))
  BY <1>3, FS_Union
<1>5. Cardinality(Embeddings(D) \cap Embeddings(C)) = 0
  BY <1>2, FS_EmptySet
<1>6. Weight(D \cup C) = Weight(D) + Weight(C) - 0
  BY <1>1, <1>4, <1>5 DEF Weight
<1>7. IsFiniteSet(D \cup C)
  BY FS_Union
<1> QED BY <1>3, <1>6, <1>7, SMT

\* The weight of the empty set and of one item.
LEMMA WeightSmall ==
  /\ IsFiniteSet({}) /\ Weight({}) = 0
  /\ \A h \in DOMAIN Size : IsFiniteSet({h}) /\ Weight({h}) = Size[h]
<1>1. IsFiniteSet({}) /\ Weight({}) = 0
  <2>1. Embeddings({}) = {}
    BY DEF Embeddings
  <2> QED BY <2>1, FS_EmptySet DEF Weight
<1>2. ASSUME NEW h \in DOMAIN Size PROVE IsFiniteSet({h}) /\ Weight({h}) = Size[h]
  <2>1. 1 .. Size[h] \subseteq Nat
    BY SizeFacts, SMT
  <2>2. Embeddings({h}) = {h} \X (1 .. Size[h])
    BY <2>1 DEF Embeddings
  <2>3. IsFiniteSet({h}) /\ Cardinality({h}) = 1
    BY FS_Singleton
  <2>4. IsFiniteSet(1 .. Size[h]) /\ Cardinality(1 .. Size[h]) = Size[h]
    BY FS_Interval, SizeFacts, SMT
  <2>5. Weight({h}) = 1 * Size[h]
    BY <2>2, <2>3, <2>4, FS_Product DEF Weight
  <2> QED BY <2>3, <2>5, SizeFacts, SMT
<1> QED BY <1>1, <1>2

\* One more item.
LEMMA WeightAdd ==
  ASSUME NEW D \in SUBSET DOMAIN Size, IsFiniteSet(D), NEW h \in DOMAIN Size, h \notin D
  PROVE  IsFiniteSet(D \cup {h}) /\ Weight(D \cup {h}) = Weight(D) + Size[h]
BY WeightUnion, WeightSmall

\* One item less.
LEMMA WeightRemove ==
  ASSUME NEW D \in SUBSET DOMAIN Size, IsFiniteSet(D), NEW h \in D
  PROVE  IsFiniteSet(D \ {h}) /\ Weight(D \ {h}) = Weight(D) - Size[h]
<1>1. IsFiniteSet(D \ {h}) /\ D \ {h} \in SUBSET DOMAIN Size /\ (D \ {h}) \cup {h} = D
  BY FS_RemoveElement
<1>2. Weight(D) = Weight(D \ {h}) + Size[h]
  BY <1>1, WeightAdd
<1>3. Weight(D \ {h}) \in Nat /\ Size[h] \in Nat
  BY <1>1, WeightType, SizeFacts
<1> QED BY <1>1, <1>2, <1>3, SMT

\* SizeOf adds up the sizes of different items.
LEMMA SizeOfWeight ==
  ASSUME NEW s \in Seq(DOMAIN Size), IsInjective(s)
  PROVE  IsFiniteSet(Range(s)) /\ SizeOf(s) = Weight(Range(s)) /\ SizeOf(s) \in Nat
<1>1. 0 \in Nat /\ \A x \in Nat, y \in DOMAIN Size : x + Size[y] \in Nat
  BY SizeFacts, SMT
<1>2. PICK f \in [0 .. Len(s) -> Nat] :
        /\ f[0] = 0
        /\ \A i \in 1 .. Len(s) :
             f[i - 1] \in Nat /\ s[i] \in DOMAIN Size /\ f[i] = f[i - 1] + Size[s[i]]
        /\ SizeOf(s) = f[Len(s)]
  BY <1>1, SizeOfFold
<1> DEFINE To(i) == {s[j] : j \in 1 .. i}
           K == {i \in 0 .. Len(s) : IsFiniteSet(To(i)) /\ f[i] = Weight(To(i))}
<1>3. Len(s) \in Nat /\ Len(s) \in 0 .. Len(s) /\ 0 \in 0 .. Len(s) /\ 1 .. 0 = {}
  BY SMT
<1>4. 0 \in K
  <2>1. To(0) = {}
    BY <1>3
  <2> QED BY <1>2, <1>3, <2>1, WeightSmall
<1>5. ASSUME NEW k \in 0 .. Len(s) - 1, k \in K PROVE k + 1 \in K
  <2>1. /\ k + 1 \in 1 .. Len(s) /\ k + 1 \in 0 .. Len(s) /\ (k + 1) - 1 = k
        /\ 1 .. k + 1 = (1 .. k) \cup {k + 1} /\ k + 1 \notin 1 .. k
        /\ 1 .. k \subseteq 1 .. Len(s)
    BY <1>3, SMT
  <2>2. To(k + 1) = To(k) \cup {s[k + 1]}
    BY <2>1
  <2>3. s[k + 1] \in DOMAIN Size /\ f[k + 1] = f[k] + Size[s[k + 1]]
    BY <1>2, <2>1
  <2>4. \A i \in 1 .. Len(s) : s[i] \in DOMAIN Size
    BY SeqFacts
  <2>5. To(k) \in SUBSET DOMAIN Size
    BY <2>1, <2>4
  <2>6. s[k + 1] \notin To(k)
    <3> SUFFICES ASSUME NEW j \in 1 .. k, s[k + 1] = s[j] PROVE FALSE
      OBVIOUS
    <3>1. DOMAIN s = 1 .. Len(s)
      BY SeqFacts
    <3>2. k + 1 = j
      BY <2>1, <3>1 DEF IsInjective
    <3> QED BY <2>1, <3>2
  <2>7. IsFiniteSet(To(k)) /\ f[k] = Weight(To(k))
    BY <1>5
  <2>8. IsFiniteSet(To(k + 1)) /\ Weight(To(k + 1)) = Weight(To(k)) + Size[s[k + 1]]
    <3> HIDE DEF To
    <3> QED BY <2>2, <2>3, <2>5, <2>6, <2>7, WeightAdd
  <2> QED BY <2>1, <2>3, <2>7, <2>8
<1>6. Len(s) \in K
  <2> HIDE DEF K
  <2> QED BY <1>3, <1>4, <1>5, SetInduction
<1>7. Range(s) = To(Len(s)) /\ Range(s) \in SUBSET DOMAIN Size
  BY SeqFacts
<1> QED BY <1>2, <1>3, <1>6, <1>7, ZenonT(40)

\* The sizes of the items of a finite set add up to its weight.
LEMMA SumWeight ==
  ASSUME NEW D \in SUBSET DOMAIN Size, IsFiniteSet(D)
  PROVE  SumFunctionOnSet(Size, D) = Weight(D)
<1> DEFINE pick(s) == CHOOSE x \in s : TRUE
           Def(g) == g = [s \in SUBSET D |->
                            IF s = {} THEN 0 ELSE Size[pick(s)] + g[s \ {pick(s)}]]
           it == CHOOSE g : Def(g)
           f == [s \in SUBSET D |-> Weight(s)]
           K == {i \in 0 .. Cardinality(D) :
                   \A s \in SUBSET D : Cardinality(s) = i => it[s] = Weight(s)}
<1>1. ASSUME NEW s \in SUBSET D, s # {}
      PROVE  /\ pick(s) \in s /\ s \ {pick(s)} \in SUBSET D
             /\ Weight(s) = Size[pick(s)] + Weight(s \ {pick(s)})
             /\ Cardinality(s \ {pick(s)}) = Cardinality(s) - 1
  <2>1. pick(s) \in s
    BY <1>1
  <2> HIDE DEF pick
  <2>2. IsFiniteSet(s) /\ s \in SUBSET DOMAIN Size
    BY FS_Subset
  <2>3. Weight(s \ {pick(s)}) = Weight(s) - Size[pick(s)]
    BY <2>1, <2>2, WeightRemove
  <2>4. Weight(s) \in Nat /\ Size[pick(s)] \in Nat
    BY <2>1, <2>2, WeightType, SizeFacts
  <2>5. Weight(s) = Size[pick(s)] + (Weight(s) - Size[pick(s)])
    BY <2>4, SMT
  <2> QED BY <2>1, <2>2, <2>3, <2>5, FS_RemoveElement
<1>2. Def(f)
  <2>1. \A s \in SUBSET D :
          Weight(s) = IF s = {} THEN 0 ELSE Size[pick(s)] + f[s \ {pick(s)}]
    <3> HIDE DEF pick
    <3> QED BY <1>1, WeightSmall
  <2> HIDE DEF pick
  <2> QED BY <2>1
<1>3. Def(it)
  <2> HIDE DEF f, Def
  <2> QED BY <1>2
<1>4. \A s \in SUBSET D : it[s] = IF s = {} THEN 0 ELSE Size[pick(s)] + it[s \ {pick(s)}]
  <2> HIDE DEF pick, it
  <2> QED BY <1>3
<1> HIDE DEF pick, it, Def, f
<1>5. /\ \A s \in SUBSET D : IsFiniteSet(s) /\ Cardinality(s) \in Nat
      /\ Cardinality(D) \in Nat /\ Cardinality(D) \in 0 .. Cardinality(D)
      /\ 0 \in 0 .. Cardinality(D)
  <2>1. \A s \in SUBSET D : IsFiniteSet(s) /\ Cardinality(s) \in Nat
    BY FS_Subset, FS_CardinalityType
  <2> QED BY <2>1, SMT
<1>6. 0 \in K
  BY <1>4, <1>5, FS_EmptySet, WeightSmall
<1>7. ASSUME NEW i \in 0 .. Cardinality(D) - 1, i \in K PROVE i + 1 \in K
  <2>1. i + 1 \in 0 .. Cardinality(D) /\ i + 1 # 0 /\ (i + 1) - 1 = i
    BY <1>5, SMT
  <2>2. ASSUME NEW s \in SUBSET D, Cardinality(s) = i + 1 PROVE it[s] = Weight(s)
    <3>1. s # {}
      BY <2>1, <2>2, FS_EmptySet
    <3>2. it[s \ {pick(s)}] = Weight(s \ {pick(s)})
      BY <1>1, <1>7, <2>1, <2>2, <3>1
    <3> QED BY <1>1, <1>4, <3>1, <3>2
  <2> QED BY <2>1, <2>2
<1>8. Cardinality(D) \in K
  <2> HIDE DEF K
  <2> QED BY <1>5, <1>6, <1>7, SetInduction
<1>9. it[D] = Weight(D)
  BY <1>8
<1> QED BY <1>9 DEF SumFunctionOnSet, FoldFunctionOnSet, MapThenFoldSet, it, Def, pick

-----------------------------------------------------------------------------
(* The operations of the manager.                                          *)

Tables == UNION {[D -> SUBSET Requests] : D \in SUBSET DOMAIN Size}

Caches == [cached : Tables, freeable : Seq(DOMAIN Size), freed : Seq(DOMAIN Size),
           num_free_slots : Int, num_freeable_slots : Int, error : BOOLEAN]

Idle(c) == {h \in DOMAIN c.cached : c.cached[h] = {}}

\* The counters and lists of the manager are those of its table.
Exact(c) ==
  /\ c \in Caches
  /\ ~c.error
  /\ IsFiniteSet(DOMAIN c.cached)
  /\ c.num_free_slots = CacheSize - Weight(DOMAIN c.cached)
  /\ c.num_free_slots >= 0
  /\ c.num_freeable_slots = c.num_free_slots + Weight(Idle(c))
  /\ Range(c.freeable) = Idle(c)
  /\ IsInjective(c.freeable)

\* The fields of a cache.
LEMMA CacheFields ==
  ASSUME NEW c \in Caches
  PROVE  /\ DOMAIN c.cached \subseteq DOMAIN Size
         /\ c.cached \in [DOMAIN c.cached -> SUBSET Requests]
         /\ c.freeable \in Seq(DOMAIN Size) /\ c.freed \in Seq(DOMAIN Size)
         /\ c.num_free_slots \in Int /\ c.num_freeable_slots \in Int
         /\ c.error \in BOOLEAN
         /\ c.cached \in Tables
<1>1. /\ c.cached \in Tables
      /\ c.freeable \in Seq(DOMAIN Size) /\ c.freed \in Seq(DOMAIN Size)
      /\ c.num_free_slots \in Int /\ c.num_freeable_slots \in Int
      /\ c.error \in BOOLEAN
  BY DEF Caches
<1>2. PICK D \in SUBSET DOMAIN Size : c.cached \in [D -> SUBSET Requests]
  BY <1>1 DEF Tables
<1>3. DOMAIN c.cached = D
  BY <1>2
<1> QED BY <1>1, <1>2, <1>3

\* A table is a function from items to sets of requests.
LEMMA TableType ==
  ASSUME NEW D \in SUBSET DOMAIN Size, NEW f \in [D -> SUBSET Requests]
  PROVE  f \in Tables
BY DEF Tables

\* The counters of an exact cache.
LEMMA ExactFacts ==
  ASSUME NEW c, Exact(c)
  PROVE  /\ IsFiniteSet(Idle(c)) /\ Idle(c) \subseteq DOMAIN c.cached
         /\ Weight(Idle(c)) \in Nat /\ Weight(DOMAIN c.cached) \in Nat
         /\ DOMAIN c.cached \in SUBSET DOMAIN Size
         /\ c.num_free_slots \in Nat /\ c.num_freeable_slots \in Nat
         /\ c.num_free_slots <= c.num_freeable_slots /\ c.num_freeable_slots <= CacheSize
         /\ c.num_freeable_slots = c.num_free_slots + SizeOf(c.freeable)
<1>1. c \in Caches /\ IsFiniteSet(DOMAIN c.cached) /\ Range(c.freeable) = Idle(c) /\ IsInjective(c.freeable)
  BY DEF Exact
<1>2. DOMAIN c.cached \in SUBSET DOMAIN Size /\ c.freeable \in Seq(DOMAIN Size)
  BY <1>1, CacheFields
<1>3. Idle(c) \in SUBSET DOMAIN c.cached
  BY DEF Idle
<1>4. IsFiniteSet(Idle(c)) /\ Idle(c) \in SUBSET DOMAIN Size
  BY <1>1, <1>2, <1>3, FS_Subset
<1>5. Weight(Idle(c)) \in Nat /\ Weight(DOMAIN c.cached) \in Nat
  BY <1>1, <1>2, <1>4, WeightType
<1> DEFINE B == DOMAIN c.cached \ Idle(c)
<1>6. IsFiniteSet(B) /\ B \in SUBSET DOMAIN Size /\ B \cap Idle(c) = {} /\ B \cup Idle(c) = DOMAIN c.cached
  BY <1>1, <1>2, <1>3, FS_Difference
<1> HIDE DEF B
<1>7. Weight(DOMAIN c.cached) = Weight(B) + Weight(Idle(c)) /\ Weight(B) \in Nat
  BY <1>4, <1>6, WeightUnion, WeightType
<1>8. SizeOf(c.freeable) = Weight(Idle(c))
  BY <1>1, <1>2, SizeOfWeight
<1>9. /\ c.num_free_slots = CacheSize - Weight(DOMAIN c.cached)
      /\ c.num_free_slots >= 0
      /\ c.num_freeable_slots = c.num_free_slots + Weight(Idle(c))
      /\ CacheSize \in Nat
  BY EncoderCacheAssumption DEF Exact
<1>10. /\ c.num_free_slots \in Nat /\ c.num_freeable_slots \in Nat
       /\ c.num_free_slots <= c.num_freeable_slots /\ c.num_freeable_slots <= CacheSize
  BY ONLY <1>5, <1>7, <1>9, SMT
<1> QED BY <1>2, <1>3, <1>4, <1>5, <1>8, <1>9, <1>10

\* `freeable` without an item.
LEMMA WithoutFacts ==
  ASSUME NEW s \in Seq(DOMAIN Size), IsInjective(s), NEW h
  PROVE  /\ Without(s, h) \in Seq(DOMAIN Size) /\ IsInjective(Without(s, h))
         /\ Range(Without(s, h)) = Range(s) \ {h}
<1>1. Range(s) \cap (Range(s) \ {h}) = Range(s) \ {h}
  OBVIOUS
<1> QED BY <1>1, AmongFacts, SMT DEF Without

\* From c to y a request r takes a reference to h.
Taken(c, y, r, h) ==
  /\ y.cached = [c.cached EXCEPT ![h] = @ \cup {r}]
  /\ y.freed = c.freed
  /\ y.num_free_slots = c.num_free_slots

\* From c to y a request r lets go of h.
Released(c, y, r, h) ==
  /\ DOMAIN y.cached = DOMAIN c.cached
  /\ h \in DOMAIN c.cached => y.cached[h] = c.cached[h] \ {r}
  /\ \A g \in DOMAIN c.cached \ {h} : y.cached[g] = c.cached[g]
  /\ y.freed = c.freed
  /\ y.num_free_slots = c.num_free_slots

\* From c to y the item h is added for the request r.
Added(c, y, r, h) ==
  /\ DOMAIN y.cached = DOMAIN c.cached \cup {h}
  /\ y.cached[h] = {r}
  /\ \A g \in DOMAIN c.cached : y.cached[g] = c.cached[g]
  /\ y.freed = c.freed
  /\ y.num_free_slots = c.num_free_slots - Size[h]

\* From c to y items without references have gone.
Evicted(c, y, need) ==
  /\ DOMAIN y.cached \subseteq DOMAIN c.cached
  /\ \A g \in DOMAIN y.cached : y.cached[g] = c.cached[g]
  /\ \A g \in DOMAIN c.cached \ DOMAIN y.cached : c.cached[g] = {}
  /\ Range(y.freed) = Range(c.freed) \cup (DOMAIN c.cached \ DOMAIN y.cached)
  /\ c.num_free_slots <= y.num_free_slots
  /\ need <= y.num_free_slots

\* check_and_update_cache adds a reference.
LEMMA CheckStep ==
  ASSUME NEW c, Exact(c), NEW r \in Requests, NEW h \in DOMAIN c.cached
  PROVE  LET y == check_and_update_cache(c, r, h)
         IN  Exact(y) /\ Taken(c, y, r, h)
<1> DEFINE y == check_and_update_cache(c, r, h)
           idle == c.cached[h] = {}
           tab == [c.cached EXCEPT ![h] = @ \cup {r}]
<1>1. c \in Caches
  BY DEF Exact
<1>2. y = [c EXCEPT !.cached = tab,
             !.freeable = IF idle THEN Without(c.freeable, h) ELSE c.freeable,
             !.num_freeable_slots = IF idle THEN c.num_freeable_slots - Size[h]
                                            ELSE c.num_freeable_slots,
             !.error = c.error \/ (idle /\ h \notin Range(c.freeable))]
  BY DEF check_and_update_cache
<1> HIDE DEF y
<1>3. /\ y.cached = tab /\ y.freed = c.freed /\ y.num_free_slots = c.num_free_slots
      /\ y.freeable = IF idle THEN Without(c.freeable, h) ELSE c.freeable
      /\ y.num_freeable_slots = IF idle THEN c.num_freeable_slots - Size[h]
                                        ELSE c.num_freeable_slots
      /\ y.error = (c.error \/ (idle /\ h \notin Range(c.freeable)))
  BY <1>1, <1>2 DEF Caches
<1>4. /\ h \in DOMAIN Size /\ Size[h] \in Nat
      /\ c.freeable \in Seq(DOMAIN Size) /\ IsInjective(c.freeable)
      /\ DOMAIN c.cached \in SUBSET DOMAIN Size
      /\ c.cached \in [DOMAIN c.cached -> SUBSET Requests]
      /\ c.num_freeable_slots \in Int /\ Range(c.freeable) = Idle(c)
  BY <1>1, CacheFields, SizeFacts DEF Exact
<1>5. tab \in [DOMAIN c.cached -> SUBSET Requests] /\ DOMAIN tab = DOMAIN c.cached
  BY <1>4
<1>6. tab \in Tables
  BY <1>4, <1>5, TableType
<1>7. Idle(y) = IF idle THEN Idle(c) \ {h} ELSE Idle(c)
  <2>1. \A g \in DOMAIN c.cached : tab[g] = IF g = h THEN c.cached[h] \cup {r} ELSE c.cached[g]
    BY <1>4
  <2>2. Idle(y) = {g \in DOMAIN c.cached : tab[g] = {}}
    BY <1>3, <1>5 DEF Idle
  <2>3. Idle(y) = Idle(c) \ {h}
    BY <2>1, <2>2 DEF Idle
  <2> QED BY <2>3 DEF Idle
<1>8. ~y.error
  BY <1>3, <1>4 DEF Exact, Idle
<1>9. /\ y.freeable \in Seq(DOMAIN Size) /\ IsInjective(y.freeable)
      /\ Range(y.freeable) = Idle(y)
  BY <1>3, <1>4, <1>7, WithoutFacts
<1>10. y.num_freeable_slots = y.num_free_slots + Weight(Idle(y))
  <2>1. CASE idle
    <3>1. h \in Idle(c) /\ IsFiniteSet(Idle(c)) /\ Idle(c) \in SUBSET DOMAIN Size
      BY <2>1, <1>4, ExactFacts DEF Idle
    <3>2. Weight(Idle(y)) = Weight(Idle(c)) - Size[h]
      BY <2>1, <3>1, <1>7, WeightRemove
    <3>3. y.num_freeable_slots = c.num_freeable_slots - Size[h]
      BY <2>1, <1>3
    <3>4. Weight(Idle(c)) \in Nat /\ c.num_free_slots \in Nat
      BY ExactFacts
    <3>5. c.num_freeable_slots = c.num_free_slots + Weight(Idle(c))
      BY DEF Exact
    <3>6. y.num_free_slots = c.num_free_slots
      BY <1>3
    <3> QED BY ONLY <3>2, <3>3, <3>4, <3>5, <3>6, <1>4, SMT
  <2>2. CASE ~idle
    BY <2>2, <1>3, <1>7 DEF Exact
  <2> QED BY <2>1, <2>2
<1>11. y.num_freeable_slots \in Int
  BY <1>3, <1>4, SMT
<1>12. y \in Caches
  BY <1>1, <1>2, <1>3, <1>6, <1>9, <1>11, <1>8 DEF Caches
<1>13. Exact(y)
  BY <1>3, <1>5, <1>8, <1>9, <1>10, <1>12 DEF Exact
<1> QED BY <1>3, <1>13 DEF y, Taken

\* free_encoder_input takes a reference away.
LEMMA FreeStep ==
  ASSUME NEW c, Exact(c), NEW r, NEW h
  PROVE  LET y == free_encoder_input(c, r, h)
         IN  Exact(y) /\ Released(c, y, r, h)
<1> DEFINE y == free_encoder_input(c, r, h)
<1>1. CASE h \notin DOMAIN c.cached \/ c.cached[h] = {}
  <2>1. y = c
    BY <1>1 DEF free_encoder_input
  <2> QED BY <1>1, <2>1 DEF Released
<1>2. CASE h \in DOMAIN c.cached /\ c.cached[h] # {}
  <2> DEFINE last == c.cached[h] \ {r} = {}
             tab == [c.cached EXCEPT ![h] = @ \ {r}]
             fr == Append(Without(c.freeable, h), h)
  <2>1. c \in Caches
    BY DEF Exact
  <2>2. y = [c EXCEPT !.cached = tab,
                      !.freeable = IF last THEN fr ELSE c.freeable,
                      !.num_freeable_slots = IF last THEN c.num_freeable_slots + Size[h]
                                                     ELSE c.num_freeable_slots]
    BY <1>2 DEF free_encoder_input
  <2> HIDE DEF y
  <2>3. /\ h \in DOMAIN Size /\ Size[h] \in Nat
        /\ c.freeable \in Seq(DOMAIN Size) /\ IsInjective(c.freeable)
        /\ DOMAIN c.cached \in SUBSET DOMAIN Size
        /\ c.cached \in [DOMAIN c.cached -> SUBSET Requests]
        /\ c.num_freeable_slots \in Int /\ Range(c.freeable) = Idle(c)
    BY <1>2, <2>1, CacheFields, SizeFacts DEF Exact
  <2>4. h \notin Idle(c)
    BY <1>2 DEF Idle
  <2>5. /\ fr \in Seq(DOMAIN Size) /\ IsInjective(fr) /\ Range(fr) = Idle(c) \cup {h}
    <3>1. /\ Without(c.freeable, h) \in Seq(DOMAIN Size) /\ IsInjective(Without(c.freeable, h))
          /\ Range(Without(c.freeable, h)) = Idle(c) /\ h \notin Range(Without(c.freeable, h))
      <4>1. /\ Without(c.freeable, h) \in Seq(DOMAIN Size) /\ IsInjective(Without(c.freeable, h))
            /\ Range(Without(c.freeable, h)) = Range(c.freeable) \ {h}
        BY <2>3, WithoutFacts
      <4>2. Range(c.freeable) \ {h} = Idle(c)
        BY <2>3, <2>4
      <4> QED BY <4>1, <4>2
    <3> QED BY <2>3, <3>1, AppendFacts, SMT
  <2> HIDE DEF fr
  <2>6. /\ y.cached = tab /\ y.freed = c.freed /\ y.num_free_slots = c.num_free_slots
        /\ y.freeable = IF last THEN fr ELSE c.freeable
        /\ y.num_freeable_slots = IF last THEN c.num_freeable_slots + Size[h]
                                          ELSE c.num_freeable_slots
        /\ y.error = c.error
    BY <2>1, <2>2 DEF Caches
  <2>7. tab \in [DOMAIN c.cached -> SUBSET Requests] /\ DOMAIN tab = DOMAIN c.cached
    BY <1>2, <2>3
  <2>8. tab \in Tables
    BY <2>3, <2>7, TableType
  <2>9. \A g \in DOMAIN c.cached : tab[g] = IF g = h THEN c.cached[g] \ {r} ELSE c.cached[g]
    BY <2>3
  <2>10. Idle(y) = IF last THEN Idle(c) \cup {h} ELSE Idle(c)
    <3>1. Idle(y) = {g \in DOMAIN c.cached : tab[g] = {}}
      BY <2>6, <2>7 DEF Idle
    <3>2. CASE last
      BY <1>2, <2>9, <3>1, <3>2 DEF Idle
    <3>3. CASE ~last
      BY <1>2, <2>9, <3>1, <3>3 DEF Idle
    <3> QED BY <3>2, <3>3
  <2>11. /\ y.freeable \in Seq(DOMAIN Size) /\ IsInjective(y.freeable)
         /\ Range(y.freeable) = Idle(y)
    BY <2>3, <2>5, <2>6, <2>10
  <2>12. y.num_freeable_slots = y.num_free_slots + Weight(Idle(y))
    <3>1. CASE last
      <4>1. IsFiniteSet(Idle(c)) /\ Idle(c) \in SUBSET DOMAIN Size
        BY <2>3, ExactFacts
      <4>2. Weight(Idle(y)) = Weight(Idle(c)) + Size[h]
        BY <3>1, <4>1, <2>3, <2>4, <2>10, WeightAdd
      <4>3. y.num_freeable_slots = c.num_freeable_slots + Size[h] /\ y.num_free_slots = c.num_free_slots
        BY <3>1, <2>6
      <4>4. Weight(Idle(c)) \in Nat /\ c.num_free_slots \in Nat
        BY ExactFacts
      <4>5. c.num_freeable_slots = c.num_free_slots + Weight(Idle(c))
        BY DEF Exact
      <4> QED BY ONLY <4>2, <4>3, <4>4, <4>5, <2>3, SMT
    <3>2. CASE ~last
      BY <3>2, <2>6, <2>10 DEF Exact
    <3> QED BY <3>1, <3>2
  <2>13. y.num_freeable_slots \in Int
    BY <2>3, <2>6, SMT
  <2>14. y \in Caches
    BY <2>1, <2>2, <2>6, <2>8, <2>11, <2>13 DEF Caches
  <2>15. Exact(y)
    BY <2>6, <2>7, <2>11, <2>12, <2>14 DEF Exact
  <2> QED BY <2>6, <2>7, <2>9, <2>15 DEF y, Released
<1> QED BY <1>1, <1>2

\* allocate adds an item that is not cached.
LEMMA AllocateType ==
  ASSUME NEW c \in Caches, NEW r \in Requests, NEW h \in DOMAIN Size
  PROVE  allocate(c, r, h) \in Caches
<1> DEFINE tab == [g \in DOMAIN c.cached \cup {h} |->
                     (IF g \in DOMAIN c.cached THEN c.cached[g] ELSE {})
                       \cup (IF g = h THEN {r} ELSE {})]
<1>1. /\ DOMAIN c.cached \subseteq DOMAIN Size
      /\ c.cached \in [DOMAIN c.cached -> SUBSET Requests]
      /\ c.num_free_slots \in Int /\ c.num_freeable_slots \in Int
  BY CacheFields
<1>2. tab \in [DOMAIN c.cached \cup {h} -> SUBSET Requests]
  BY <1>1
<1>3. tab \in Tables
  BY <1>1, <1>2, TableType
<1>4. c.num_free_slots - Size[h] \in Int /\ c.num_freeable_slots - Size[h] \in Int
  BY <1>1, SizeFacts, SMT
<1>5. allocate(c, r, h) = [c EXCEPT !.cached = tab,
           !.num_free_slots = c.num_free_slots - Size[h],
           !.num_freeable_slots = c.num_freeable_slots - Size[h],
           !.error = \/ c.error
                     \/ c.num_free_slots < Size[h]
                     \/ c.num_freeable_slots < Size[h]]
  BY DEF allocate
<1> QED BY <1>3, <1>4, <1>5 DEF Caches

\* allocate keeps the counters exact if there is room.
LEMMA AllocateStep ==
  ASSUME NEW c, Exact(c), NEW r \in Requests, NEW h \in DOMAIN Size,
         h \notin DOMAIN c.cached, Size[h] <= c.num_free_slots
  PROVE  LET y == allocate(c, r, h)
         IN  Exact(y) /\ Added(c, y, r, h)
<1> DEFINE y == allocate(c, r, h)
           tab == [g \in DOMAIN c.cached \cup {h} |->
                     (IF g \in DOMAIN c.cached THEN c.cached[g] ELSE {})
                       \cup (IF g = h THEN {r} ELSE {})]
<1>1. c \in Caches
  BY DEF Exact
<1>2. y \in Caches
  BY <1>1, AllocateType
<1>3. y = [c EXCEPT !.cached = tab,
           !.num_free_slots = c.num_free_slots - Size[h],
           !.num_freeable_slots = c.num_freeable_slots - Size[h],
           !.error = \/ c.error
                     \/ c.num_free_slots < Size[h]
                     \/ c.num_freeable_slots < Size[h]]
  BY DEF allocate
<1> HIDE DEF y
<1>4. /\ y.cached = tab /\ y.freed = c.freed /\ y.freeable = c.freeable
      /\ y.num_free_slots = c.num_free_slots - Size[h]
      /\ y.num_freeable_slots = c.num_freeable_slots - Size[h]
      /\ y.error = (\/ c.error
                    \/ c.num_free_slots < Size[h]
                    \/ c.num_freeable_slots < Size[h])
  BY <1>1, <1>3 DEF Caches
<1>5. /\ Size[h] \in Nat /\ c.num_free_slots \in Nat /\ c.num_freeable_slots \in Nat
      /\ c.num_free_slots <= c.num_freeable_slots
      /\ Weight(DOMAIN c.cached) \in Nat /\ Weight(Idle(c)) \in Nat /\ CacheSize \in Nat
      /\ DOMAIN c.cached \in SUBSET DOMAIN Size
  BY ExactFacts, SizeFacts
<1>6. ~(c.num_free_slots < Size[h]) /\ ~(c.num_freeable_slots < Size[h])
  BY <1>5, SMT
<1>7. ~y.error
  BY <1>4, <1>6 DEF Exact
<1>8. /\ DOMAIN tab = DOMAIN c.cached \cup {h}
      /\ tab[h] = {r}
      /\ \A g \in DOMAIN c.cached : tab[g] = c.cached[g]
  OBVIOUS
<1> HIDE DEF tab
<1>9. Idle(y) = Idle(c)
  BY <1>4, <1>8 DEF Idle
<1>10. /\ IsFiniteSet(DOMAIN y.cached)
       /\ Weight(DOMAIN y.cached) = Weight(DOMAIN c.cached) + Size[h]
  BY <1>4, <1>5, <1>8, WeightAdd DEF Exact
<1>11. /\ c.num_free_slots = CacheSize - Weight(DOMAIN c.cached)
       /\ c.num_freeable_slots = c.num_free_slots + Weight(Idle(c))
  BY DEF Exact
<1>12. /\ y.num_free_slots = CacheSize - Weight(DOMAIN y.cached)
       /\ y.num_free_slots >= 0
       /\ y.num_freeable_slots = y.num_free_slots + Weight(Idle(c))
  BY ONLY <1>4, <1>5, <1>6, <1>10, <1>11, SMT
<1>13. Exact(y)
  BY <1>2, <1>4, <1>7, <1>9, <1>10, <1>12 DEF Exact
<1> QED BY <1>4, <1>8, <1>13 DEF y, Added

\* Min and Max of the sets that the code takes them of.
LEMMA MinMax ==
  ASSUME NEW a \in Int, NEW b \in Int
  PROVE  /\ Min({a, b}) = IF a <= b THEN a ELSE b
         /\ Max({a, b}) = IF a <= b THEN b ELSE a
<1>1. ASSUME NEW m \in {a, b}, \A y \in {a, b} : m <= y PROVE Min({a, b}) = m
  <2>1. \E x \in {a, b} : \A y \in {a, b} : x =< y
    BY <1>1
  <2>2. Min({a, b}) \in {a, b} /\ \A y \in {a, b} : Min({a, b}) =< y
    BY <2>1 DEF Min
  <2> QED BY <2>2, <1>1, SMT
<1>2. ASSUME NEW m \in {a, b}, \A y \in {a, b} : m >= y PROVE Max({a, b}) = m
  <2>1. \E x \in {a, b} : \A y \in {a, b} : x >= y
    BY <1>2
  <2>2. Max({a, b}) \in {a, b} /\ \A y \in {a, b} : Max({a, b}) >= y
    BY <2>1 DEF Max
  <2> QED BY <2>2, <1>2, SMT
<1>3. CASE a <= b
  <2>1. (\A y \in {a, b} : a <= y) /\ \A y \in {a, b} : b >= y
    BY <1>3, SMT
  <2> QED BY <1>1, <1>2, <1>3, <2>1
<1>4. CASE ~(a <= b)
  <2>1. (\A y \in {a, b} : b <= y) /\ \A y \in {a, b} : a >= y
    BY <1>4, SMT
  <2> QED BY <1>1, <1>2, <1>4, <2>1
<1> QED BY <1>3, <1>4

\* The loop of can_allocate makes the room that it was asked for, and what goes
\* had no reference.
LEMMA EvictStep ==
  ASSUME NEW c, Exact(c), NEW need \in Nat, need <= c.num_freeable_slots
  PROVE  LET y == Evict(c, need)
         IN  Exact(y) /\ Evicted(c, y, need)
<1> DEFINE s == c.freeable
           enough == {n \in 0 .. Len(s) : need <= c.num_free_slots + SizeOf(SubSeq(s, 1, n))}
           m == Min(enough)
           gone == SubSeq(s, 1, m)
           rest == SubSeq(s, m + 1, Len(s))
           left == DOMAIN c.cached \ Range(gone)
           y == Evict(c, need)
<1>1. c \in Caches /\ IsInjective(s) /\ Range(s) = Idle(c) /\ IsFiniteSet(DOMAIN c.cached) /\ ~c.error
  BY DEF Exact
<1>2. /\ s \in Seq(DOMAIN Size) /\ c.freed \in Seq(DOMAIN Size) /\ DOMAIN c.cached \in SUBSET DOMAIN Size
      /\ c.cached \in [DOMAIN c.cached -> SUBSET Requests] /\ c.num_freeable_slots \in Int
  BY <1>1, CacheFields
<1>3. m \in enough
  <2>1. Len(s) \in Nat /\ SubSeq(s, 1, Len(s)) = s
    BY <1>2, SMT
  <2>2. need <= c.num_free_slots + SizeOf(SubSeq(s, 1, Len(s)))
    BY <2>1, ExactFacts
  <2>3. Len(s) \in 0 .. Len(s)
    BY <2>1, SMT
  <2>4. enough # {} /\ enough \in SUBSET Nat
    <3>1. 0 .. Len(s) \in SUBSET Nat
      BY <2>1, SMT
    <3> QED BY <2>2, <2>3, <3>1
  <2>5. \E x \in enough : \A z \in enough : x =< z
    BY <2>4, LeastNat
  <2> HIDE DEF enough
  <2> QED BY <2>5 DEF Min
<1>4. m \in 0 .. Len(s) /\ need <= c.num_free_slots + SizeOf(gone)
  BY <1>3
<1>5. y = [c EXCEPT !.freeable = rest, !.cached = Restrict(c.cached, left),
                    !.freed = c.freed \o gone,
                    !.num_free_slots = c.num_free_slots + SizeOf(gone)]
  <2>1. y = EvictFirst(c, m)
    BY <1>3 DEF Evict
  <2> QED BY <2>1 DEF EvictFirst
<1> HIDE DEF y, m
<1>6. /\ gone \in Seq(DOMAIN Size) /\ rest \in Seq(DOMAIN Size)
      /\ IsInjective(gone) /\ IsInjective(rest)
      /\ Range(gone) \cap Range(rest) = {}
      /\ Range(gone) \cup Range(rest) = Idle(c)
  BY <1>1, <1>2, <1>4, SplitFacts
<1> HIDE DEF gone, rest
<1>7. c.freed \o gone \in Seq(DOMAIN Size) /\ Range(c.freed \o gone) = Range(c.freed) \cup Range(gone)
  BY <1>2, <1>6, ConcatFacts, SMT
<1> DEFINE fr == c.freed \o gone
           tab == Restrict(c.cached, left)
<1> HIDE DEF fr
<1>8. /\ tab \in [left -> SUBSET Requests] /\ DOMAIN tab = left
      /\ \A g \in left : tab[g] = c.cached[g]
  BY <1>2 DEF Restrict
<1> HIDE DEF tab
<1>9. tab \in Tables
  BY <1>2, <1>8, TableType
<1>10. /\ IsFiniteSet(Range(gone)) /\ SizeOf(gone) = Weight(Range(gone)) /\ SizeOf(gone) \in Nat
       /\ IsFiniteSet(Range(rest)) /\ Weight(Range(rest)) = SizeOf(rest) /\ SizeOf(rest) \in Nat
  BY <1>6, SizeOfWeight
<1>11. c.num_free_slots \in Nat /\ c.num_free_slots + SizeOf(gone) \in Int
  BY <1>10, ExactFacts, SMT
<1>12. /\ y.cached = tab /\ y.freeable = rest /\ y.freed = fr /\ y.error = c.error
       /\ y.num_free_slots = c.num_free_slots + SizeOf(gone)
       /\ y.num_freeable_slots = c.num_freeable_slots
  BY <1>1, <1>5 DEF Caches, tab, fr
<1>13. y \in Caches
  <2>1. fr \in Seq(DOMAIN Size)
    BY <1>7 DEF fr
  <2>2. y = [c EXCEPT !.freeable = rest, !.cached = tab, !.freed = fr,
                    !.num_free_slots = c.num_free_slots + SizeOf(gone)]
    BY <1>5 DEF tab, fr
  <2> QED BY <1>1, <1>6, <1>9, <1>11, <2>1, <2>2 DEF Caches
<1>14. Range(gone) \subseteq Idle(c) /\ Range(rest) \subseteq Idle(c) /\ Idle(c) \subseteq DOMAIN c.cached
  BY <1>6, ExactFacts
<1>15. Idle(y) = Range(rest)
  <2>1. Idle(y) = {g \in left : c.cached[g] = {}}
    BY <1>8, <1>12 DEF Idle
  <2> QED BY <2>1, <1>6, <1>14 DEF Idle
<1>16. /\ IsFiniteSet(left) /\ left \in SUBSET DOMAIN Size /\ Range(gone) \in SUBSET DOMAIN Size
       /\ left \cap Range(gone) = {} /\ left \cup Range(gone) = DOMAIN c.cached
       /\ Range(rest) \in SUBSET DOMAIN Size
  BY <1>1, <1>2, <1>14, FS_Difference
<1> HIDE DEF left
<1>17. Weight(DOMAIN c.cached) = Weight(left) + Weight(Range(gone)) /\ Weight(left) \in Nat
  BY <1>10, <1>16, WeightUnion, WeightType
<1>18. Weight(Idle(c)) = Weight(Range(gone)) + Weight(Range(rest))
  BY <1>6, <1>10, <1>16, WeightUnion
<1>19. /\ c.num_free_slots = CacheSize - Weight(DOMAIN c.cached)
       /\ c.num_freeable_slots = c.num_free_slots + Weight(Idle(c)) /\ CacheSize \in Nat
  BY EncoderCacheAssumption DEF Exact
<1>20. /\ y.num_free_slots = CacheSize - Weight(left) /\ y.num_free_slots >= 0
       /\ y.num_freeable_slots = y.num_free_slots + Weight(Range(rest))
       /\ c.num_free_slots <= y.num_free_slots
       /\ need <= y.num_free_slots
  BY ONLY <1>4, <1>10, <1>11, <1>12, <1>17, <1>18, <1>19, SMT
<1>21. Exact(y)
  BY <1>1, <1>6, <1>8, <1>12, <1>13, <1>15, <1>16, <1>20 DEF Exact
<1>22. /\ DOMAIN y.cached \subseteq DOMAIN c.cached
       /\ \A g \in DOMAIN y.cached : y.cached[g] = c.cached[g]
       /\ DOMAIN c.cached \ DOMAIN y.cached = Range(gone)
  BY <1>8, <1>12, <1>16
<1>23. \A g \in Range(gone) : c.cached[g] = {}
  BY <1>14 DEF Idle
<1>24. Range(y.freed) = Range(c.freed) \cup Range(gone)
  BY <1>7, <1>12 DEF fr
<1> QED BY <1>20, <1>21, <1>22, <1>23, <1>24 DEF y, Evicted

-----------------------------------------------------------------------------
(* The loops over the operations of the manager.                           *)

Items == [hash : DOMAIN Size, offset : Nat]

Hashes(r) == {f.hash : f \in Range(Features[r])}

Refers(c, r, h) == h \in DOMAIN c.cached /\ r \in c.cached[h]

\* Requests refer to items of their own.
Owned(c) == \A h \in DOMAIN c.cached : \A r \in c.cached[h] : h \in Hashes(r)

\* From c to y some requests of R let go of some items.
Shrunk(c, y, R) ==
  /\ DOMAIN y.cached = DOMAIN c.cached
  /\ y.freed = c.freed
  /\ y.num_free_slots = c.num_free_slots
  /\ \A h \in DOMAIN c.cached : c.cached[h] \ R \subseteq y.cached[h] /\ y.cached[h] \subseteq c.cached[h]

\* Letting go twice.
LEMMA ShrunkTrans ==
  ASSUME NEW c, NEW x, NEW y, NEW R, Shrunk(c, x, R), Shrunk(x, y, R)
  PROVE  Shrunk(c, y, R)
<1>1. ASSUME NEW h \in DOMAIN c.cached
      PROVE  c.cached[h] \ R \subseteq y.cached[h] /\ y.cached[h] \subseteq c.cached[h]
  <2>1. c.cached[h] \ R \subseteq x.cached[h] /\ x.cached[h] \subseteq c.cached[h]
    BY DEF Shrunk
  <2>2. x.cached[h] \ R \subseteq y.cached[h] /\ y.cached[h] \subseteq x.cached[h]
    BY DEF Shrunk
  <2> QED BY <2>1, <2>2
<1> QED BY <1>1 DEF Shrunk

\* More requests let go.
LEMMA ShrunkMore ==
  ASSUME NEW c, NEW y, NEW R, NEW S, R \subseteq S, Shrunk(c, y, R)
  PROVE  Shrunk(c, y, S)
BY DEF Shrunk

\* Nobody let go.
LEMMA ShrunkSame ==
  ASSUME NEW c, NEW R
  PROVE  Shrunk(c, c, R)
BY DEF Shrunk

\* Letting go keeps the owners.
LEMMA ShrunkOwned ==
  ASSUME NEW c, NEW y, NEW R, Owned(c), Shrunk(c, y, R)
  PROVE  Owned(y)
BY DEF Shrunk, Owned

\* The loop over the features of a request: it no longer refers to them.
LEMMA FreeAllStep ==
  ASSUME NEW c, Exact(c), NEW r, NEW s \in Seq(Items)
  PROVE  LET y == FreeAll(c, r, s)
         IN  /\ Exact(y)
             /\ Shrunk(c, y, {r})
             /\ \A j \in 1 .. Len(s) : ~Refers(y, r, s[j].hash)
<1> DEFINE A == {x \in Caches : Exact(x) /\ Shrunk(c, x, {r})}
           y == FreeAll(c, r, s)
<1>1. c \in A
  BY ShrunkSame DEF Exact
<1>2. ASSUME NEW x, Exact(x), NEW h
      PROVE  /\ Exact(free_encoder_input(x, r, h))
             /\ Shrunk(x, free_encoder_input(x, r, h), {r})
             /\ ~Refers(free_encoder_input(x, r, h), r, h)
  <2> DEFINE z == free_encoder_input(x, r, h)
  <2>1. Exact(z) /\ Released(x, z, r, h)
    BY <1>2, FreeStep
  <2> HIDE DEF z
  <2>2. Shrunk(x, z, {r}) /\ ~Refers(z, r, h)
    BY <2>1 DEF Released, Shrunk, Refers
  <2> QED BY <2>1, <2>2 DEF z
<1>3. \A x \in A, e \in Items : free_encoder_input(x, r, e.hash) \in A
  <2> SUFFICES ASSUME NEW x \in A, NEW e \in Items PROVE free_encoder_input(x, r, e.hash) \in A
    OBVIOUS
  <2>1. Exact(x) /\ Shrunk(c, x, {r})
    OBVIOUS
  <2>2. Exact(free_encoder_input(x, r, e.hash)) /\ Shrunk(x, free_encoder_input(x, r, e.hash), {r})
    BY <1>2, <2>1
  <2>3. Shrunk(c, free_encoder_input(x, r, e.hash), {r})
    BY <2>1, <2>2, ShrunkTrans
  <2>4. free_encoder_input(x, r, e.hash) \in Caches
    BY <2>2 DEF Exact
  <2> QED BY <2>2, <2>3, <2>4
<1> HIDE DEF A
<1>4a. PICK f \in [0 .. Len(s) -> A] : FreeAllRun(f, A, Items, c, s, r)
  BY <1>1, <1>3, FreeAllFold
<1>4. /\ f[0] = c
      /\ \A i \in 1 .. Len(s) : f[i - 1] \in A /\ s[i] \in Items /\ f[i] = free_encoder_input(f[i - 1], r, s[i].hash)
      /\ y = f[Len(s)]
  BY <1>4a DEF FreeAllRun
<1> HIDE DEF y
<1>5. Len(s) \in Nat
  BY SMT
<1> DEFINE S == {i \in 0 .. Len(s) : \A j \in 1 .. i : ~Refers(f[i], r, s[j].hash)}
<1>6. 0 \in S
  BY <1>5, SMT
<1>7. ASSUME NEW i \in 0 .. Len(s) - 1, i \in S PROVE i + 1 \in S
  <2>1. i + 1 \in 1 .. Len(s) /\ (i + 1) - 1 = i /\ i + 1 \in 0 .. Len(s)
    BY <1>5, SMT
  <2>2. f[i] \in A /\ f[i + 1] = free_encoder_input(f[i], r, s[i + 1].hash)
    BY <1>4, <2>1, SMT
  <2>3. Exact(f[i])
    BY <2>2 DEF A
  <2>4. Shrunk(f[i], f[i + 1], {r}) /\ ~Refers(f[i + 1], r, s[i + 1].hash)
    BY <1>2, <2>2, <2>3
  <2>5. \A h : ~Refers(f[i], r, h) => ~Refers(f[i + 1], r, h)
    BY <2>4 DEF Shrunk, Refers
  <2>6. ASSUME NEW j \in 1 .. i + 1 PROVE ~Refers(f[i + 1], r, s[j].hash)
    <3>1. j \in 1 .. i \/ j = i + 1
      BY <1>5, SMT
    <3> QED BY <3>1, <1>7, <2>4, <2>5
  <2> QED BY <2>1, <2>6
<1>8. 0 .. Len(s) \subseteq S
  <2> HIDE DEF S
  <2> QED BY <1>5, <1>6, <1>7, SetInduction
<1>9. Len(s) \in 0 .. Len(s)
  BY <1>5, SMT
<1>10. \A j \in 1 .. Len(s) : ~Refers(y, r, s[j].hash)
  BY <1>4, <1>8, <1>9
<1>11. y \in A
  BY <1>4, <1>9
<1> QED BY <1>10, <1>11 DEF y, A

\* The features of a request.
LEMMA FeatureFacts ==
  ASSUME NEW r \in Requests
  PROVE  /\ Features[r] \in Seq(Items) /\ Range(Features[r]) \subseteq Items
         /\ Hashes(r) \subseteq DOMAIN Size
         /\ DOMAIN Features[r] = 1 .. Len(Features[r])
<1>1. Features[r] \in Seq(Items)
  BY EncoderCacheAssumption DEF Items
<1>2. DOMAIN Features[r] = 1 .. Len(Features[r]) /\ Range(Features[r]) \subseteq Items
  BY <1>1, SeqFacts
<1> QED BY <1>1, <1>2 DEF Hashes, Items

\* free: the request refers to nothing.
LEMMA FreeRequest ==
  ASSUME NEW c, Exact(c), Owned(c), NEW r \in Requests
  PROVE  /\ Exact(free(c, r)) /\ Owned(free(c, r)) /\ Shrunk(c, free(c, r), {r})
         /\ \A h : ~Refers(free(c, r), r, h)
<1> DEFINE y == free(c, r)
<1>1. /\ Exact(y) /\ Shrunk(c, y, {r})
      /\ \A j \in 1 .. Len(Features[r]) : ~Refers(y, r, Features[r][j].hash)
  BY FeatureFacts, FreeAllStep DEF free
<1> HIDE DEF y
<1>2. Owned(y)
  BY <1>1, ShrunkOwned
<1>3. ASSUME NEW h, Refers(y, r, h) PROVE FALSE
  <2>1. h \in Hashes(r)
    BY <1>2, <1>3 DEF Refers, Owned
  <2>2. PICK j \in DOMAIN Features[r] : h = Features[r][j].hash
    BY <2>1 DEF Hashes, Range
  <2>3. j \in 1 .. Len(Features[r])
    BY <2>2, FeatureFacts
  <2> QED BY <1>1, <1>3, <2>2, <2>3
<1> QED BY <1>1, <1>2, <1>3 DEF y

\* _free_encoder_inputs: the request lets go of some items.
LEMMA FreePassed ==
  ASSUME NEW c, Exact(c), Owned(c), NEW r \in Requests, NEW computed
  PROVE  /\ Exact(free_encoder_inputs(c, r, computed))
         /\ Owned(free_encoder_inputs(c, r, computed))
         /\ Shrunk(c, free_encoder_inputs(c, r, computed), {r})
<1> DEFINE T == {f \in Range(Features[r]) : f.offset + Size[f.hash] <= computed}
           s == Among(Features[r], T)
<1>1. free_encoder_inputs(c, r, computed) = FreeAll(c, r, s)
  BY DEF free_encoder_inputs
<1>2. s \in Seq(Items)
  <2> HIDE DEF T
  <2> QED BY FeatureFacts, AmongFacts, SMT
<1> HIDE DEF s
<1>3. Exact(FreeAll(c, r, s)) /\ Shrunk(c, FreeAll(c, r, s), {r})
  BY <1>2, FreeAllStep
<1> QED BY <1>1, <1>3, ShrunkOwned

\* A sequence is one of its own elements.
LEMMA OwnElements ==
  ASSUME NEW E, NEW s \in Seq(E)
  PROVE  s \in Seq(Range(s))
<1> DEFINE n == Len(s)
<1>1. n \in Nat /\ s \in [1 .. n -> E]
  BY SMT
<1>2. s \in [1 .. n -> Range(s)]
  BY <1>1, SeqFacts
<1>3. s \in Seq(Range(s))
  BY <1>1, <1>2, SMT
<1> QED BY <1>3

\* Preemption: the victims refer to nothing.
LEMMA PreemptedStep ==
  ASSUME NEW c, Exact(c), Owned(c), NEW s \in Seq(Requests)
  PROVE  LET y == Preempted(c, s)
         IN  /\ Exact(y) /\ Owned(y) /\ Shrunk(c, y, Range(s))
             /\ \A v \in Range(s) : \A h : ~Refers(y, v, h)
<1> DEFINE A == {x \in Caches : Exact(x) /\ Owned(x) /\ Shrunk(c, x, Range(s))}
           y == Preempted(c, s)
<1>1. c \in A
  BY ShrunkSame DEF Exact
<1>2. s \in Seq(Range(s)) /\ Range(s) \subseteq Requests /\ Len(s) \in Nat
  BY OwnElements, SeqFacts
<1>3. \A x \in A, v \in Range(s) : free(x, v) \in A
  <2> SUFFICES ASSUME NEW x \in A, NEW v \in Range(s) PROVE free(x, v) \in A
    OBVIOUS
  <2>1. Exact(x) /\ Owned(x) /\ Shrunk(c, x, Range(s)) /\ v \in Requests
    BY <1>2
  <2>2. Exact(free(x, v)) /\ Owned(free(x, v)) /\ Shrunk(x, free(x, v), {v})
    BY <2>1, FreeRequest
  <2>3. Shrunk(x, free(x, v), Range(s))
    BY <2>2, ShrunkMore
  <2>4. Shrunk(c, free(x, v), Range(s))
    BY <2>1, <2>3, ShrunkTrans
  <2>5. free(x, v) \in Caches
    BY <2>2 DEF Exact
  <2> QED BY <2>2, <2>4, <2>5
<1> HIDE DEF A
<1>4. PICK f \in [0 .. Len(s) -> A] : PreemptedRun(f, A, Range(s), c, s)
  BY <1>1, <1>2, <1>3, PreemptedFold
<1>5. /\ \A i \in 1 .. Len(s) : f[i - 1] \in A /\ s[i] \in Range(s) /\ f[i] = free(f[i - 1], s[i])
      /\ y = f[Len(s)]
  BY <1>4 DEF PreemptedRun
<1> HIDE DEF y
<1> DEFINE S == {i \in 0 .. Len(s) : \A j \in 1 .. i : \A h : ~Refers(f[i], s[j], h)}
<1>6. 0 \in S
  BY <1>2, SMT
<1>7. ASSUME NEW i \in 0 .. Len(s) - 1, i \in S PROVE i + 1 \in S
  <2>1. i + 1 \in 1 .. Len(s) /\ (i + 1) - 1 = i /\ i + 1 \in 0 .. Len(s)
    BY <1>2, SMT
  <2>2. f[i] \in A /\ f[i + 1] = free(f[i], s[i + 1]) /\ s[i + 1] \in Range(s)
    BY <1>5, <2>1, SMT
  <2>3. Exact(f[i]) /\ Owned(f[i]) /\ s[i + 1] \in Requests
    BY <1>2, <2>2 DEF A
  <2>4. Shrunk(f[i], f[i + 1], {s[i + 1]}) /\ \A h : ~Refers(f[i + 1], s[i + 1], h)
    BY <2>2, <2>3, FreeRequest
  <2>5. \A r, h : ~Refers(f[i], r, h) => ~Refers(f[i + 1], r, h)
    BY <2>4 DEF Shrunk, Refers
  <2>6. ASSUME NEW j \in 1 .. i + 1, NEW h PROVE ~Refers(f[i + 1], s[j], h)
    <3>1. j \in 1 .. i \/ j = i + 1
      BY <1>2, SMT
    <3> QED BY <3>1, <1>7, <2>4, <2>5
  <2> QED BY <2>1, <2>6
<1>8. 0 .. Len(s) \subseteq S
  <2> HIDE DEF S
  <2> QED BY <1>2, <1>6, <1>7, SetInduction
<1>9. Len(s) \in 0 .. Len(s)
  BY <1>2, SMT
<1>10. \A j \in 1 .. Len(s) : \A h : ~Refers(y, s[j], h)
  BY <1>5, <1>8, <1>9
<1>11. \A v \in Range(s) : \A h : ~Refers(y, v, h)
  <2>1. Range(s) = {s[j] : j \in 1 .. Len(s)}
    BY SeqFacts
  <2> QED BY <1>10, <2>1
<1>12. y \in A
  BY <1>5, <1>9
<1> QED BY <1>11, <1>12 DEF y, A

Entries == [r : Requests, start : Nat, n : Nat, inputs : Seq(DOMAIN Size)]

\* One result: the request lets go of items, of all if it has ended.
LEMMA UpdatedStep ==
  ASSUME NEW c, Exact(c), Owned(c), NEW e \in Entries
  PROVE  /\ Exact(Updated(c, e)) /\ Owned(Updated(c, e)) /\ Shrunk(c, Updated(c, e), Requests)
         /\ Live(e.r) /\ e.start + e.n = PromptLen[e.r] => \A h : ~Refers(Updated(c, e), e.r, h)
<1> DEFINE passed == free_encoder_inputs(c, e.r, req[e.r].computed)
<1>1. e.r \in Requests
  BY DEF Entries
<1>2. Exact(passed) /\ Owned(passed) /\ Shrunk(c, passed, {e.r})
  BY <1>1, FreePassed
<1>3. /\ Exact(free(passed, e.r)) /\ Owned(free(passed, e.r)) /\ Shrunk(passed, free(passed, e.r), {e.r})
      /\ \A h : ~Refers(free(passed, e.r), e.r, h)
  BY <1>1, <1>2, FreeRequest
<1>4. Shrunk(c, free(passed, e.r), {e.r})
  BY <1>2, <1>3, ShrunkTrans
<1>5. Shrunk(c, free(passed, e.r), Requests) /\ Shrunk(c, passed, Requests) /\ Shrunk(c, c, Requests)
  <2> DEFINE R == {e.r}
  <2>1. R \subseteq Requests /\ Shrunk(c, free(passed, e.r), R) /\ Shrunk(c, passed, R)
    BY <1>1, <1>2, <1>4
  <2> HIDE DEF R, passed
  <2>2. Shrunk(c, free(passed, e.r), Requests)
    BY <2>1, ShrunkMore
  <2>3. Shrunk(c, passed, Requests)
    BY <2>1, ShrunkMore
  <2> QED BY <2>2, <2>3, ShrunkSame
<1>6. Updated(c, e) = IF ~Live(e.r) THEN c
                      ELSE IF e.start + e.n = PromptLen[e.r] THEN free(passed, e.r)
                      ELSE passed
  BY DEF Updated
<1> HIDE DEF passed
<1> QED BY <1>2, <1>3, <1>5, <1>6

\* The results of a batch: the requests that have ended refer to nothing.
LEMMA UpdatedAllStep ==
  ASSUME NEW c, Exact(c), Owned(c), NEW s \in Seq(Entries)
  PROVE  LET y == UpdatedAll(c, s)
         IN  /\ Exact(y) /\ Owned(y) /\ Shrunk(c, y, Requests)
             /\ \A r \in Ended(s) : \A h : ~Refers(y, r, h)
<1> DEFINE A == {x \in Caches : Exact(x) /\ Owned(x) /\ Shrunk(c, x, Requests)}
           y == UpdatedAll(c, s)
           Closing(e) == Live(e.r) /\ e.start + e.n = PromptLen[e.r]
<1>1. c \in A
  BY ShrunkSame DEF Exact
<1>2. Len(s) \in Nat /\ DOMAIN s = 1 .. Len(s)
  BY SeqFacts
<1>3. \A x \in A, e \in Entries : Updated(x, e) \in A
  <2> SUFFICES ASSUME NEW x \in A, NEW e \in Entries PROVE Updated(x, e) \in A
    OBVIOUS
  <2>1. Exact(x) /\ Owned(x) /\ Shrunk(c, x, Requests)
    OBVIOUS
  <2>2. Exact(Updated(x, e)) /\ Owned(Updated(x, e)) /\ Shrunk(x, Updated(x, e), Requests)
    BY <2>1, UpdatedStep
  <2>3. Shrunk(c, Updated(x, e), Requests)
    BY <2>1, <2>2, ShrunkTrans
  <2>4. Updated(x, e) \in Caches
    BY <2>2 DEF Exact
  <2> QED BY <2>2, <2>3, <2>4
<1> HIDE DEF A
<1>4. PICK f \in [0 .. Len(s) -> A] : UpdatedRun(f, A, Entries, c, s)
  BY <1>1, <1>3, UpdatedFold
<1>5. /\ \A i \in 1 .. Len(s) : f[i - 1] \in A /\ s[i] \in Entries /\ f[i] = Updated(f[i - 1], s[i])
      /\ y = f[Len(s)]
  BY <1>4 DEF UpdatedRun
<1> HIDE DEF y
<1> DEFINE S == {i \in 0 .. Len(s) : \A j \in 1 .. i : Closing(s[j]) => \A h : ~Refers(f[i], s[j].r, h)}
<1>6. 0 \in S
  BY <1>2, SMT
<1>7. ASSUME NEW i \in 0 .. Len(s) - 1, i \in S PROVE i + 1 \in S
  <2>1. i + 1 \in 1 .. Len(s) /\ (i + 1) - 1 = i /\ i + 1 \in 0 .. Len(s)
    BY <1>2, SMT
  <2>2. f[i] \in A /\ f[i + 1] = Updated(f[i], s[i + 1]) /\ s[i + 1] \in Entries
    BY <1>5, <2>1, SMT
  <2>3. Exact(f[i]) /\ Owned(f[i])
    BY <2>2 DEF A
  <2>4. /\ Shrunk(f[i], f[i + 1], Requests)
        /\ Closing(s[i + 1]) => \A h : ~Refers(f[i + 1], s[i + 1].r, h)
    BY <2>2, <2>3, UpdatedStep
  <2>5. \A r, h : ~Refers(f[i], r, h) => ~Refers(f[i + 1], r, h)
    BY <2>4 DEF Shrunk, Refers
  <2> HIDE DEF Closing
  <2>6. ASSUME NEW j \in 1 .. i + 1, Closing(s[j]), NEW h PROVE ~Refers(f[i + 1], s[j].r, h)
    <3>1. j \in 1 .. i \/ j = i + 1
      BY <1>2, SMT
    <3> QED BY <3>1, <1>7, <2>4, <2>5, <2>6
  <2> QED BY <2>1, <2>6
<1>8. 0 .. Len(s) \subseteq S
  <2> HIDE DEF S
  <2> QED BY <1>2, <1>6, <1>7, SetInduction
<1>9. Len(s) \in 0 .. Len(s)
  BY <1>2, SMT
<1>10. ASSUME NEW r \in Ended(s), NEW h PROVE ~Refers(y, r, h)
  <2>1. PICK e \in Range(s) : Closing(e) /\ r = e.r
    BY DEF Ended
  <2> HIDE DEF Closing
  <2>2. PICK j \in 1 .. Len(s) : e = s[j]
    BY <1>2 DEF Range
  <2> QED BY <1>5, <1>8, <1>9, <2>1, <2>2
<1>11. y \in A
  BY <1>5, <1>9
<1> QED BY <1>10, <1>11 DEF y, A

\* A part weighs no more than the whole.
LEMMA WeightMono ==
  ASSUME NEW D \in SUBSET DOMAIN Size, IsFiniteSet(D), NEW C \in SUBSET D
  PROVE  IsFiniteSet(C) /\ Weight(C) <= Weight(D)
<1> DEFINE B == D \ C
<1>1. IsFiniteSet(C) /\ IsFiniteSet(B)
  BY FS_Subset, FS_Difference
<1>2. B \in SUBSET DOMAIN Size /\ C \in SUBSET DOMAIN Size /\ B \cap C = {} /\ B \cup C = D
  OBVIOUS
<1> HIDE DEF B
<1>3. Weight(D) = Weight(B) + Weight(C)
  BY <1>1, <1>2, WeightUnion
<1>4. Weight(B) \in Nat /\ Weight(C) \in Nat
  BY <1>1, <1>2, WeightType
<1> QED BY <1>1, <1>3, <1>4, SMT

\* From c to y the items of D are added for the request r.
AddedAll(c, y, r, D) ==
  /\ DOMAIN y.cached = DOMAIN c.cached \cup D
  /\ \A g \in DOMAIN c.cached : y.cached[g] = c.cached[g]
  /\ \A g \in D : y.cached[g] = {r}
  /\ y.freed = c.freed
  /\ y.num_free_slots = c.num_free_slots - Weight(D)

\* The elements of the first i places.
First(s, i) == {s[j] : j \in 1 .. i}

\* The loop over allocate: new items, for which there is room.
LEMMA AllocatedStep ==
  ASSUME NEW c, Exact(c), NEW r \in Requests, NEW s \in Seq(DOMAIN Size), IsInjective(s),
         Range(s) \cap DOMAIN c.cached = {}, SizeOf(s) <= c.num_free_slots
  PROVE  Exact(Allocated(c, r, s)) /\ AddedAll(c, Allocated(c, r, s), r, Range(s))
<1> DEFINE y == Allocated(c, r, s)
<1>1. c \in Caches
  BY DEF Exact
<1>2. /\ Len(s) \in Nat /\ DOMAIN s = 1 .. Len(s) /\ Range(s) = First(s, Len(s))
      /\ Range(s) \in SUBSET DOMAIN Size
      /\ \A i \in 1 .. Len(s) : s[i] \in DOMAIN Size /\ s[i] \in Range(s)
  BY SeqFacts DEF First
<1>3. IsFiniteSet(Range(s)) /\ SizeOf(s) = Weight(Range(s)) /\ SizeOf(s) \in Nat
  BY SizeOfWeight
<1>4. PICK f \in [0 .. Len(s) -> Caches] : AllocatedRun(f, Caches, DOMAIN Size, c, s, r)
  <2>1. \A x \in Caches, h \in DOMAIN Size : allocate(x, r, h) \in Caches
    BY AllocateType
  <2> QED BY <1>1, <2>1, AllocatedFold
<1>5. /\ f[0] = c /\ \A i \in 1 .. Len(s) : f[i] = allocate(f[i - 1], r, s[i])
      /\ y = f[Len(s)]
  BY <1>4 DEF AllocatedRun
<1> HIDE DEF y
<1> DEFINE S == {i \in 0 .. Len(s) : Exact(f[i]) /\ AddedAll(c, f[i], r, First(s, i))}
<1>6. 0 \in S
  <2>1. First(s, 0) = {} /\ 0 \in 0 .. Len(s)
    BY <1>2, SMT DEF First
  <2>2. c.num_free_slots \in Nat
    BY ExactFacts
  <2>3. c.num_free_slots = c.num_free_slots - Weight({})
    BY <2>2, WeightSmall, SMT
  <2>4. AddedAll(c, c, r, {})
    BY <2>3 DEF AddedAll
  <2> QED BY <1>5, <2>1, <2>4
<1>7. ASSUME NEW i \in 0 .. Len(s) - 1, i \in S PROVE i + 1 \in S
  <2> DEFINE h == s[i + 1]
             D == First(s, i)
             x == f[i]
             z == f[i + 1]
  <2>1. i + 1 \in 1 .. Len(s) /\ (i + 1) - 1 = i /\ i + 1 \in 0 .. Len(s) /\ 1 .. i \in SUBSET (1 .. Len(s))
    BY <1>2, SMT
  <2>2. z = allocate(x, r, h) /\ h \in DOMAIN Size /\ h \in Range(s)
    BY <1>2, <1>5, <2>1, SMT
  <2>3. Exact(x) /\ AddedAll(c, x, r, D)
    BY <1>7
  <2>4. First(s, i + 1) = D \cup {h}
    <3>1. 1 .. i + 1 = (1 .. i) \cup {i + 1}
      BY <1>2, SMT
    <3> QED BY <3>1 DEF First
  <2>5. h \notin D
    <3>1. \A j \in 1 .. i : j # i + 1
      BY <1>2, SMT
    <3> QED BY <1>2, <2>1, <3>1 DEF First, IsInjective
  <2>6. D \in SUBSET Range(s) /\ D \cup {h} \in SUBSET Range(s)
    BY <1>2, <2>1, <2>2 DEF First
  <2> HIDE DEF D, h, x, z
  <2>7. IsFiniteSet(D) /\ D \in SUBSET DOMAIN Size /\ Weight(D \cup {h}) <= Weight(Range(s))
    BY <1>2, <1>3, <2>6, WeightMono
  <2>8. Weight(D \cup {h}) = Weight(D) + Size[h] /\ Weight(D) \in Nat /\ Size[h] \in Nat
    BY <2>2, <2>5, <2>7, WeightAdd, WeightType, SizeFacts
  <2>9. c.num_free_slots \in Nat /\ x.num_free_slots = c.num_free_slots - Weight(D)
    BY <2>3, ExactFacts DEF AddedAll
  <2>10. Size[h] <= x.num_free_slots
    BY ONLY <1>3, <2>7, <2>8, <2>9, SizeOf(s) <= c.num_free_slots, SMT
  <2>11. h \notin DOMAIN x.cached
    BY <2>2, <2>3, <2>5 DEF AddedAll
  <2>12. Exact(z) /\ Added(x, z, r, h)
    BY <2>2, <2>3, <2>10, <2>11, AllocateStep
  <2>13. z.num_free_slots = c.num_free_slots - Weight(D \cup {h})
    <3>1. z.num_free_slots = x.num_free_slots - Size[h]
      BY <2>12 DEF Added
    <3> QED BY <2>8, <2>9, <3>1, SMT
  <2>14. DOMAIN z.cached = DOMAIN c.cached \cup (D \cup {h}) /\ z.freed = c.freed
    BY <2>3, <2>12 DEF Added, AddedAll
  <2>15. \A g \in DOMAIN c.cached : z.cached[g] = c.cached[g]
    BY <2>3, <2>12 DEF Added, AddedAll
  <2>16. \A g \in D \cup {h} : z.cached[g] = {r}
    BY <2>3, <2>12 DEF Added, AddedAll
  <2>17. AddedAll(c, z, r, D \cup {h})
    BY <2>13, <2>14, <2>15, <2>16 DEF AddedAll
  <2> QED BY <2>1, <2>4, <2>12, <2>17 DEF D, h, z
<1>8. 0 .. Len(s) \subseteq S
  <2> HIDE DEF S
  <2> QED BY <1>2, <1>6, <1>7, SetInduction
<1>9. Len(s) \in 0 .. Len(s)
  BY <1>2, SMT
<1> QED BY <1>2, <1>5, <1>8, <1>9 DEF y

-----------------------------------------------------------------------------
(* The loop of _try_schedule_encoder_inputs.                               *)

\* From c to y the request r refers to more of its items, and items without
\* references have gone.
Grown(c, y, r) ==
  /\ DOMAIN y.cached \subseteq DOMAIN c.cached
  /\ \A h \in DOMAIN y.cached :
       c.cached[h] \subseteq y.cached[h] /\ y.cached[h] \subseteq c.cached[h] \cup {r}
  /\ \A h \in DOMAIN y.cached : r \in y.cached[h] => r \in c.cached[h] \/ h \in Hashes(r)
  /\ \A h \in DOMAIN c.cached \ DOMAIN y.cached : c.cached[h] = {}
  /\ Range(y.freed) = Range(c.freed) \cup (DOMAIN c.cached \ DOMAIN y.cached)

\* Growing twice.
LEMMA GrownTrans ==
  ASSUME NEW c, NEW x, NEW y, NEW r, Grown(c, x, r), Grown(x, y, r)
  PROVE  Grown(c, y, r)
<1>1. DOMAIN y.cached \subseteq DOMAIN x.cached /\ DOMAIN x.cached \subseteq DOMAIN c.cached
  BY DEF Grown
<1>2. ASSUME NEW h \in DOMAIN y.cached
      PROVE  /\ c.cached[h] \subseteq y.cached[h] /\ y.cached[h] \subseteq c.cached[h] \cup {r}
             /\ r \in y.cached[h] => r \in c.cached[h] \/ h \in Hashes(r)
  <2>1. h \in DOMAIN x.cached
    BY <1>1
  <2>2. /\ c.cached[h] \subseteq x.cached[h] /\ x.cached[h] \subseteq c.cached[h] \cup {r}
        /\ r \in x.cached[h] => r \in c.cached[h] \/ h \in Hashes(r)
    BY <2>1 DEF Grown
  <2>3. /\ x.cached[h] \subseteq y.cached[h] /\ y.cached[h] \subseteq x.cached[h] \cup {r}
        /\ r \in y.cached[h] => r \in x.cached[h] \/ h \in Hashes(r)
    BY DEF Grown
  <2> QED BY <2>2, <2>3
<1>3. ASSUME NEW h \in DOMAIN c.cached \ DOMAIN y.cached PROVE c.cached[h] = {}
  <2>1. CASE h \in DOMAIN x.cached
    <3>1. x.cached[h] = {} /\ c.cached[h] \subseteq x.cached[h]
      BY <2>1 DEF Grown
    <3> QED BY <3>1
  <2>2. CASE h \notin DOMAIN x.cached
    BY <2>2 DEF Grown
  <2> QED BY <2>1, <2>2
<1>4. Range(y.freed) = Range(c.freed) \cup (DOMAIN c.cached \ DOMAIN y.cached)
  <2>1. /\ Range(x.freed) = Range(c.freed) \cup (DOMAIN c.cached \ DOMAIN x.cached)
        /\ Range(y.freed) = Range(x.freed) \cup (DOMAIN x.cached \ DOMAIN y.cached)
    BY DEF Grown
  <2> QED BY <1>1, <2>1
<1> QED BY <1>1, <1>2, <1>3, <1>4 DEF Grown

\* Nothing has changed.
LEMMA GrownSame ==
  ASSUME NEW c, NEW r
  PROVE  Grown(c, c, r)
BY DEF Grown

\* A reference to an item of the request.
LEMMA GrownTaken ==
  ASSUME NEW c, NEW y, NEW r, NEW h \in DOMAIN c.cached, h \in Hashes(r), Taken(c, y, r, h)
  PROVE  Grown(c, y, r) /\ Refers(y, r, h)
<1>1. y.cached = [c.cached EXCEPT ![h] = @ \cup {r}] /\ y.freed = c.freed
  BY DEF Taken
<1>2. /\ DOMAIN y.cached = DOMAIN c.cached
      /\ y.cached[h] = c.cached[h] \cup {r}
      /\ \A g \in DOMAIN c.cached \ {h} : y.cached[g] = c.cached[g]
  BY <1>1
<1>3. ASSUME NEW g \in DOMAIN y.cached
      PROVE  /\ c.cached[g] \subseteq y.cached[g] /\ y.cached[g] \subseteq c.cached[g] \cup {r}
             /\ r \in y.cached[g] => r \in c.cached[g] \/ g \in Hashes(r)
  BY <1>2
<1>4. Range(y.freed) = Range(c.freed) \cup (DOMAIN c.cached \ DOMAIN y.cached)
  BY <1>1, <1>2
<1> QED BY <1>2, <1>3, <1>4 DEF Grown, Refers

\* Eviction.
LEMMA GrownEvicted ==
  ASSUME NEW c, NEW y, NEW r, NEW need, Evicted(c, y, need)
  PROVE  Grown(c, y, r)
BY DEF Evicted, Grown

\* The references stay.
LEMMA GrownRefers ==
  ASSUME NEW c, NEW y, NEW r, Grown(c, y, r), NEW q, NEW h, Refers(c, q, h)
  PROVE  Refers(y, q, h)
BY DEF Grown, Refers

Tries == [ec : Caches, new : Nat, budget : Int, embeds : Nat, inputs : Seq(DOMAIN Size),
          stop : BOOLEAN]

\* The state of the loop: the inputs are new, distinct and have room, and the
\* loop has come from the cache c and m tokens.
Trying(t, c, r, m) ==
  /\ t \in Tries
  /\ Exact(t.ec)
  /\ Grown(c, t.ec, r)
  /\ IsInjective(t.inputs)
  /\ Range(t.inputs) \cap DOMAIN t.ec.cached = {}
  /\ Range(t.inputs) \subseteq Hashes(r)
  /\ t.embeds = SizeOf(t.inputs)
  /\ t.embeds <= t.ec.num_free_slots
  /\ t.new <= m
  /\ ~t.stop => t.new = m

\* From t to u the loop has looked at the item f.
Tried(t, u, r, f, computed) ==
  /\ u.new <= t.new
  /\ Range(t.inputs) \subseteq Range(u.inputs)
  /\ Grown(t.ec, u.ec, r)
  /\ t.stop => u.stop /\ u.new = t.new
  /\ u.stop => u.ec = t.ec
  /\ ~t.stop /\ u.stop =>
       \/ u.new = t.new /\ f.offset >= computed + t.new + Shift
       \/ u.new = 0 /\ f.offset <= computed + Shift
       \/ u.new = f.offset - (computed + Shift)
  /\ ~u.stop =>
       /\ ~t.stop /\ u.new = t.new
       /\ f.offset + Size[f.hash] <= computed => u.ec = t.ec
       /\ \/ f.offset + Size[f.hash] <= computed
          \/ f.hash \in Range(u.inputs)
          \/ Refers(u.ec, r, f.hash)
          \/ Shift # 0

\* The loop goes on with another cache.
LEMMA TryingOn ==
  ASSUME NEW t, NEW c, NEW r, NEW m, Trying(t, c, r, m),
         NEW x, Exact(x), Grown(t.ec, x, r), t.ec.num_free_slots <= x.num_free_slots
  PROVE  LET u == [t EXCEPT !.ec = x]
         IN  Trying(u, c, r, m)
<1> DEFINE u == [t EXCEPT !.ec = x]
<1>1. t \in Tries /\ x \in Caches
  BY DEF Trying, Exact
<1>2. /\ u.ec = x /\ u.new = t.new /\ u.inputs = t.inputs /\ u.stop = t.stop
      /\ u.embeds = t.embeds /\ u.budget = t.budget
  BY <1>1 DEF Tries
<1>3. u \in Tries
  BY <1>1 DEF Tries
<1> HIDE DEF u
<1>4. Grown(c, u.ec, r)
  BY <1>2, GrownTrans DEF Trying
<1>5. Range(u.inputs) \cap DOMAIN u.ec.cached = {}
  <2>1. DOMAIN x.cached \subseteq DOMAIN t.ec.cached /\ Range(t.inputs) \cap DOMAIN t.ec.cached = {}
    BY DEF Grown, Trying
  <2> QED BY <1>2, <2>1
<1>6. u.embeds <= u.ec.num_free_slots
  <2>1. t.embeds \in Nat /\ t.embeds <= t.ec.num_free_slots
    BY <1>1 DEF Trying, Tries
  <2>2. t.ec.num_free_slots \in Nat /\ x.num_free_slots \in Nat
    BY ExactFacts DEF Trying
  <2> QED BY <1>2, <2>1, <2>2, SMT
<1>7. Trying(u, c, r, m)
  BY <1>2, <1>3, <1>4, <1>5, <1>6 DEF Trying
<1> QED BY <1>7 DEF u

\* The loop stops with n tokens.
LEMMA TryingStop ==
  ASSUME NEW t, NEW c, NEW r, NEW m, Trying(t, c, r, m), m \in Nat,
         NEW n \in Nat, n <= t.new
  PROVE  LET u == [t EXCEPT !.new = n, !.stop = TRUE]
         IN  Trying(u, c, r, m)
<1> DEFINE u == [t EXCEPT !.new = n, !.stop = TRUE]
<1>1. t \in Tries /\ t.new \in Nat /\ t.new <= m
  BY DEF Trying, Tries
<1>2. /\ u.ec = t.ec /\ u.new = n /\ u.inputs = t.inputs /\ u.stop
      /\ u.embeds = t.embeds /\ u.budget = t.budget
  BY <1>1 DEF Tries
<1>3. u \in Tries
  BY <1>1 DEF Tries
<1> HIDE DEF u
<1>4. u.new <= m
  BY <1>1, <1>2, SMT
<1>5. Trying(u, c, r, m)
  BY <1>2, <1>3, <1>4 DEF Trying
<1> QED BY <1>5 DEF u

\* With no drafter the tokens of the step have embeddings of every item that
\* the loop looks for.
LEMMA PlaceNotEmpty ==
  ASSUME NEW offset \in Nat, NEW size \in Nat, NEW computed \in Nat, NEW new \in Nat,
         new > 0, size > 0, offset < computed + new, offset + size > computed
  PROVE  Min({size, computed + new - offset}) - Max({0, computed - offset}) # 0
<1> DEFINE e == computed + new - offset
           b == computed - offset
           last == Min({size, e})
           first == Max({0, b})
<1>1. e \in Int /\ b \in Int /\ size \in Int /\ 0 \in Int
  BY SMT
<1>2. (last = IF size <= e THEN size ELSE e) /\ (first = IF 0 <= b THEN b ELSE 0)
  <2> HIDE DEF e, b
  <2> QED BY <1>1, MinMax
<1> HIDE DEF first, last
<1>3. last \in Int /\ first \in Int /\ last > first
  <2>2. e > 0 /\ e > b /\ size > b
    BY SMT
  <2> HIDE DEF e, b
  <2>4. CASE size <= e
    <3>1. last = size /\ (first = b \/ first = 0)
      BY <1>2, <2>4
    <3> QED BY <1>1, <2>2, <3>1, SMT
  <2>5. CASE ~(size <= e)
    <3>1. last = e /\ (first = b \/ first = 0)
      BY <1>2, <2>5
    <3> QED BY <1>1, <2>2, <3>1, SMT
  <2> QED BY <2>4, <2>5
<1>4. last - first # 0
  BY <1>3, SMT
<1> QED BY <1>4 DEF first, last

\* can_allocate evicts, and the item joins the inputs of the step.
LEMMA TakeStep ==
  ASSUME NEW t, NEW c, NEW r \in Requests, NEW m \in Nat, Trying(t, c, r, m), ~t.stop, m > 0,
         NEW f \in Range(Features[r]), NEW computed \in Nat,
         f.offset < computed + t.new + Shift, f.offset + Size[f.hash] > computed,
         f.hash \notin Range(t.inputs), f.hash \notin DOMAIN t.ec.cached,
         can_allocate(t.ec, f.hash, t.budget, t.embeds)
  PROVE  Trying(Take(t, f, computed), c, r, m) /\ Tried(t, Take(t, f, computed), r, f, computed)
<1> DEFINE h == f.hash
           need == Size[h] + t.embeds
           x == Evict(t.ec, need)
           first == Max({0, computed - f.offset})
           last == Min({Size[h], computed + t.new - f.offset})
           u == Take(t, f, computed)
<1>1. f \in Items /\ h \in DOMAIN Size /\ f.offset \in Nat /\ h \in Hashes(r)
  BY FeatureFacts DEF Items, Hashes
<1>2. t \in Tries /\ Exact(t.ec) /\ t.new = m
  BY DEF Trying
<1>3. /\ t.embeds \in Nat /\ Size[h] \in Nat /\ t.inputs \in Seq(DOMAIN Size) /\ t.budget \in Int
      /\ t.ec.num_free_slots \in Nat /\ t.ec.num_freeable_slots \in Nat
      /\ t.ec.num_free_slots <= t.ec.num_freeable_slots
  BY <1>1, <1>2, SizeFacts, ExactFacts DEF Tries
<1>4. need \in Nat /\ need <= t.ec.num_freeable_slots
  <2>1. need <= t.ec.num_free_slots \/ need <= t.ec.num_freeable_slots
    BY DEF can_allocate
  <2> QED BY <1>3, <2>1, SMT
<1> HIDE DEF need
<1>5. Exact(x) /\ Evicted(t.ec, x, need)
  BY <1>2, <1>4, EvictStep
<1>6. u = IF last - first = 0 THEN [t EXCEPT !.ec = x]
          ELSE [t EXCEPT !.ec = x, !.embeds = t.embeds + Size[h],
                         !.budget = t.budget - Size[h], !.inputs = Append(t.inputs, h)]
  BY DEF Take, need
<1> HIDE DEF x, u
<1>7. Grown(t.ec, x, r)
  BY <1>5, GrownEvicted
<1>8. t.ec.num_free_slots <= x.num_free_slots /\ need <= x.num_free_slots
  BY <1>5 DEF Evicted
<1> DEFINE w == [t EXCEPT !.ec = x]
<1>9. /\ Trying(w, c, r, m)
      /\ w.ec = x /\ w.new = t.new /\ w.inputs = t.inputs /\ w.stop = t.stop
  <2>1. Trying(w, c, r, m)
    BY <1>5, <1>7, <1>8, TryingOn
  <2> QED BY <1>2, <2>1 DEF Tries
<1>10. ~(f.offset + Size[h] <= computed)
  BY <1>1, <1>3, SMT
<1>11. CASE last - first = 0
  <2>1. u = w
    BY <1>6, <1>11
  <2> HIDE DEF w
  <2>2. Shift # 0
    <3> SUFFICES ASSUME Shift = 0 PROVE FALSE
      OBVIOUS
    <3>1. f.offset < computed + t.new /\ t.new > 0 /\ t.new \in Nat
      BY <1>1, <1>2, SMT
    <3> QED BY <1>1, <1>3, <1>11, <3>1, SizeFacts, PlaceNotEmpty
  <2>3. Tried(t, w, r, f, computed)
    <3>1. w.new <= t.new
      BY <1>2, <1>9, SMT
    <3>2. ~w.stop
      BY <1>9
    <3> QED BY <1>7, <1>9, <1>10, <2>2, <3>1, <3>2 DEF Tried
  <2> QED BY <1>9, <2>1, <2>3 DEF u
<1>12. CASE last - first # 0
  <2> DEFINE s == Append(t.inputs, h)
  <2>1. u = [t EXCEPT !.ec = x, !.embeds = t.embeds + Size[h],
                      !.budget = t.budget - Size[h], !.inputs = s]
    BY <1>6, <1>12
  <2>2. /\ s \in Seq(DOMAIN Size) /\ Range(s) = Range(t.inputs) \cup {h} /\ IsInjective(s)
    <3>1. IsInjective(t.inputs) /\ h \notin Range(t.inputs)
      BY DEF Trying
    <3> QED BY <1>1, <1>3, <3>1, AppendFacts, SMT
  <2> HIDE DEF s
  <2>3. t.embeds + Size[h] \in Nat /\ t.budget - Size[h] \in Int
    BY <1>3, SMT
  <2>4. x \in Caches
    BY <1>5 DEF Exact
  <2>5. /\ u.ec = x /\ u.new = t.new /\ u.inputs = s /\ u.stop = t.stop
        /\ u.embeds = t.embeds + Size[h]
    BY <1>2, <2>1 DEF Tries
  <2>6. u \in Tries
    BY <1>2, <2>1, <2>2, <2>3, <2>4 DEF Tries
  <2>7. SizeOf(s) = t.embeds + Size[h]
    <3>1. /\ IsFiniteSet(Range(t.inputs)) /\ SizeOf(t.inputs) = Weight(Range(t.inputs))
          /\ t.embeds = SizeOf(t.inputs) /\ h \notin Range(t.inputs)
          /\ Range(t.inputs) \in SUBSET DOMAIN Size
      BY <1>3, SizeOfWeight, SeqFacts DEF Trying
    <3>2. SizeOf(s) = Weight(Range(s))
      BY <2>2, SizeOfWeight
    <3>3. Weight(Range(t.inputs) \cup {h}) = Weight(Range(t.inputs)) + Size[h]
      BY <1>1, <3>1, WeightAdd
    <3> QED BY <2>2, <3>1, <3>2, <3>3
  <2>8. u.embeds <= u.ec.num_free_slots
    BY <1>3, <1>8, <2>5, SMT DEF need
  <2>9. Range(u.inputs) \cap DOMAIN u.ec.cached = {}
    <3>1. /\ DOMAIN x.cached \subseteq DOMAIN t.ec.cached
          /\ Range(t.inputs) \cap DOMAIN t.ec.cached = {} /\ h \notin DOMAIN t.ec.cached
      BY <1>7 DEF Grown, Trying
    <3> QED BY <2>2, <2>5, <3>1
  <2>10. Range(u.inputs) \subseteq Hashes(r)
    <3>1. Range(t.inputs) \subseteq Hashes(r)
      BY DEF Trying
    <3> QED BY <1>1, <2>2, <2>5, <3>1
  <2>11. Grown(c, u.ec, r) /\ Exact(u.ec)
    <3>1. Grown(c, t.ec, r)
      BY DEF Trying
    <3> QED BY <1>5, <1>7, <2>5, <3>1, GrownTrans
  <2>12. u.new <= m /\ u.new = m /\ u.new <= t.new
    BY <1>2, <2>5, SMT
  <2>13. Trying(u, c, r, m)
    BY <2>2, <2>5, <2>6, <2>7, <2>8, <2>9, <2>10, <2>11, <2>12 DEF Trying
  <2>14. Tried(t, u, r, f, computed)
    <3>1. Range(t.inputs) \subseteq Range(u.inputs) /\ f.hash \in Range(u.inputs)
      BY <2>2, <2>5
    <3>2. ~u.stop
      BY <2>5
    <3> QED BY <1>7, <1>10, <2>5, <2>12, <3>1, <3>2 DEF Tried
  <2> QED BY <2>13, <2>14 DEF u
<1> QED BY <1>11, <1>12

\* One round of the loop.
LEMMA TryItemStep ==
  ASSUME NEW t, NEW c, NEW r \in Requests, NEW m \in Nat, Trying(t, c, r, m), m > 0,
         NEW f \in Range(Features[r]), NEW computed \in Nat
  PROVE  LET u == TryItem(t, r, f, computed)
         IN  Trying(u, c, r, m) /\ Tried(t, u, r, f, computed)
<1> DEFINE h == f.hash
           end == f.offset + Size[h]
           u == TryItem(t, r, f, computed)
           far == f.offset >= computed + t.new + Shift
           n == Max({0, f.offset - (computed + Shift)})
<1>1. h \in DOMAIN Size /\ f.offset \in Nat /\ h \in Hashes(r) /\ Size[h] \in Nat
  BY FeatureFacts, SizeFacts DEF Items, Hashes
<1>2. /\ t \in Tries /\ Exact(t.ec) /\ (~t.stop => t.new = m) /\ t.new \in Nat /\ t.stop \in BOOLEAN
      /\ Shift \in Nat /\ t.new <= t.new
  <2>1. t \in Tries /\ Exact(t.ec) /\ (~t.stop => t.new = m) /\ t.new \in Nat /\ t.stop \in BOOLEAN
    BY DEF Trying, Tries
  <2>2. Shift \in Nat /\ t.new <= t.new
    BY <2>1, EncoderCacheAssumption, SMT
  <2> QED BY <2>1, <2>2
<1>3. Grown(t.ec, t.ec, r)
  BY GrownSame
<1>4. CASE t.stop \/ far
  <2> DEFINE w == [t EXCEPT !.new = t.new, !.stop = TRUE]
  <2>1. u = [t EXCEPT !.stop = TRUE]
    BY <1>4 DEF TryItem
  <2>2. [t EXCEPT !.stop = TRUE] = w
    BY <1>2 DEF Tries
  <2>3. Trying(w, c, r, m)
    BY <1>2, TryingStop
  <2>4. w.ec = t.ec /\ w.new = t.new /\ w.inputs = t.inputs /\ w.stop
    BY <1>2 DEF Tries
  <2> HIDE DEF w
  <2>5. Tried(t, w, r, f, computed)
    BY <1>2, <1>3, <1>4, <2>4 DEF Tried
  <2> QED BY <2>1, <2>2, <2>3, <2>5
<1>5. CASE ~t.stop /\ ~far
  <2>1. f.offset < computed + t.new + Shift
    BY <1>1, <1>2, <1>5, SMT
  <2>2. CASE end <= computed \/ h \in Range(t.inputs)
    <3>1. u = t
      BY <1>5, <2>2 DEF TryItem
    <3>2. Tried(t, t, r, f, computed)
      BY <1>2, <1>3, <1>5, <2>2 DEF Tried
    <3> HIDE DEF u
    <3>3. Trying(u, c, r, m) /\ Tried(t, u, r, f, computed)
      BY <3>1, <3>2
    <3> QED BY <3>3 DEF u
  <2>3. CASE ~(end <= computed \/ h \in Range(t.inputs)) /\ h \in DOMAIN t.ec.cached
    <3> DEFINE x == check_and_update_cache(t.ec, r, h)
               w == [t EXCEPT !.ec = x]
    <3>1. u = w
      BY <1>5, <2>3 DEF TryItem
    <3>2. Exact(x) /\ Taken(t.ec, x, r, h)
      BY <1>2, <2>3, CheckStep
    <3> HIDE DEF x
    <3>3. Grown(t.ec, x, r) /\ Refers(x, r, h)
      BY <1>1, <2>3, <3>2, GrownTaken
    <3>4. t.ec.num_free_slots <= x.num_free_slots
      <4>1. x.num_free_slots = t.ec.num_free_slots
        BY <3>2 DEF Taken
      <4>2. t.ec.num_free_slots \in Nat
        BY <1>2, ExactFacts
      <4> QED BY <4>1, <4>2, SMT
    <3>5. Trying(w, c, r, m)
      BY <3>2, <3>3, <3>4, TryingOn
    <3>6. w.ec = x /\ w.new = t.new /\ w.inputs = t.inputs /\ w.stop = t.stop
      BY <1>2 DEF Tries
    <3> HIDE DEF w
    <3>7. Tried(t, w, r, f, computed)
      BY <1>2, <1>5, <2>3, <3>3, <3>6 DEF Tried
    <3> QED BY <3>1, <3>5, <3>7
  <2>4. CASE ~(end <= computed \/ h \in Range(t.inputs)) /\ h \notin DOMAIN t.ec.cached
    <3>1. CASE \/ disable_chunked_mm_input /\ computed < f.offset /\ computed + t.new < end
               \/ ~can_allocate(t.ec, h, t.budget, t.embeds)
      <4> DEFINE w == [t EXCEPT !.new = n, !.stop = TRUE]
      <4>1. u = w
        BY <1>5, <2>4, <3>1 DEF TryItem, Stop
      <4>2. /\ n \in Nat /\ n <= t.new
            /\ (n = 0 /\ f.offset <= computed + Shift) \/ n = f.offset - (computed + Shift)
        <5> DEFINE a == f.offset - (computed + Shift)
        <5>1. a \in Int /\ 0 \in Int /\ a <= t.new
          BY <1>1, <1>2, <2>1, SMT
        <5>2. n = IF 0 <= a THEN a ELSE 0
          <6> HIDE DEF a
          <6>1. Max({0, a}) = IF 0 <= a THEN a ELSE 0
            BY <5>1, MinMax
          <6> QED BY <6>1 DEF a
        <5> HIDE DEF n
        <5> QED BY <1>1, <1>2, <5>1, <5>2, SMT
      <4> HIDE DEF n
      <4>3. Trying(w, c, r, m)
        BY <4>2, TryingStop
      <4>4. w.ec = t.ec /\ w.new = n /\ w.inputs = t.inputs /\ w.stop
        BY <1>2 DEF Tries
      <4> HIDE DEF w
      <4>5. Tried(t, w, r, f, computed)
        BY <1>2, <1>3, <1>5, <4>2, <4>4 DEF Tried
      <4> QED BY <4>1, <4>3, <4>5
    <3>2. CASE /\ ~(disable_chunked_mm_input /\ computed < f.offset /\ computed + t.new < end)
               /\ can_allocate(t.ec, h, t.budget, t.embeds)
      <4>1. u = Take(t, f, computed)
        BY <1>5, <2>4, <3>2 DEF TryItem
      <4>2. end > computed
        BY <1>1, <2>4, SMT
      <4>3. Trying(Take(t, f, computed), c, r, m) /\ Tried(t, Take(t, f, computed), r, f, computed)
        BY <1>5, <2>1, <2>4, <3>2, <4>2, TakeStep
      <4> QED BY <4>1, <4>3
    <3> QED BY <3>1, <3>2
  <2> QED BY <2>2, <2>3, <2>4
<1> QED BY <1>4, <1>5

\* The items of a request do not overlap.
ItemsApart ==
  \A r \in Requests : \A i, j \in DOMAIN Features[r] :
    i < j => Features[r][i].offset + Size[Features[r][i].hash] <= Features[r][j].offset

\* The items of the first i places that lie in the new tokens are inputs of the
\* step, or cached and referred to.
Covered(u, r, computed, i) ==
  \A j \in 1 .. i :
    LET f == Features[r][j]
    IN  f.offset < computed + u.new /\ f.offset + Size[f.hash] > computed
          => f.hash \in Range(u.inputs) \/ Refers(u.ec, r, f.hash)

\* The items after the first i places lie after the new tokens.
Beyond(u, r, computed, i) ==
  \A j \in i + 1 .. Len(Features[r]) : Features[r][j].offset >= computed + u.new

SameRefs(c, y) == \A h \in DOMAIN y.cached : y.cached[h] = c.cached[h]

\* Some item of the first i places is not passed.
Ahead(r, computed, i) ==
  \E j \in 1 .. i : Features[r][j].offset + Size[Features[r][j].hash] > computed

\* The references that the request has taken are to items that are not passed,
\* and there are none if it gets no tokens.
Pinned(c, t, r, computed, i) ==
  /\ t.new = 0 => SameRefs(c, t.ec)
  /\ ~SameRefs(c, t.ec) => Ahead(r, computed, i)

\* The loop covers the items that it has looked at.
LEMMA CoveredStep ==
  ASSUME Shift = 0, NEW r \in Requests, NEW computed \in Nat, NEW t, NEW u, NEW i \in Nat,
         i + 1 <= Len(Features[r]),
         t \in Tries, u \in Tries, Tried(t, u, r, Features[r][i + 1], computed), u.new > 0,
         Covered(t, r, computed, i), t.stop => Beyond(t, r, computed, i)
  PROVE  Covered(u, r, computed, i + 1) /\ (u.stop => Beyond(u, r, computed, i + 1))
<1> DEFINE n == Len(Features[r])
           f == Features[r][i + 1]
<1>1. /\ n \in Nat /\ DOMAIN Features[r] = 1 .. n
      /\ \A j \in 1 .. n : Features[r][j] \in Items /\ Features[r][j].offset \in Nat
                           /\ Size[Features[r][j].hash] \in Nat
  <2>1. /\ n \in Nat /\ DOMAIN Features[r] = 1 .. n
        /\ \A j \in 1 .. n : Features[r][j] \in Items
    BY FeatureFacts, SeqFacts
  <2> QED BY <2>1, SizeFacts DEF Items
<1>2. i + 1 \in 1 .. n /\ i + 1 \in i + 1 .. n
  BY <1>1, SMT
<1>3. f \in Items /\ f.offset \in Nat /\ Size[f.hash] \in Nat
  BY <1>1, <1>2
<1>4. t.new \in Nat /\ u.new \in Nat /\ t.stop \in BOOLEAN /\ u.stop \in BOOLEAN
  BY DEF Tries
<1> HIDE DEF n, f
<1>5. /\ u.new <= t.new
      /\ Range(t.inputs) \subseteq Range(u.inputs)
      /\ Grown(t.ec, u.ec, r)
      /\ t.stop => u.stop /\ u.new = t.new
      /\ ~t.stop /\ u.stop =>
           \/ u.new = t.new /\ f.offset >= computed + t.new + Shift
           \/ u.new = 0 /\ f.offset <= computed + Shift
           \/ u.new = f.offset - (computed + Shift)
      /\ ~u.stop =>
           \/ f.offset + Size[f.hash] <= computed
           \/ f.hash \in Range(u.inputs)
           \/ Refers(u.ec, r, f.hash)
  BY DEF Tried, f
<1>6. u.stop => f.offset >= computed + u.new
  <2>1. CASE t.stop
    <3>1. f.offset >= computed + t.new
      BY <1>2, <2>1 DEF Beyond, f, n
    <3> QED BY <1>5, <2>1, <3>1
  <2>2. CASE ~t.stop /\ u.stop
    <3>1. \/ u.new = t.new /\ f.offset >= computed + t.new + Shift
          \/ u.new = 0 /\ f.offset <= computed + Shift
          \/ u.new = f.offset - (computed + Shift)
      BY <1>5, <2>2
    <3> QED BY <1>3, <1>4, <3>1, SMT
  <2> QED BY <1>4, <2>1, <2>2
<1>7. ASSUME NEW j \in 1 .. i + 1, Features[r][j].offset < computed + u.new,
             Features[r][j].offset + Size[Features[r][j].hash] > computed
      PROVE  Features[r][j].hash \in Range(u.inputs) \/ Refers(u.ec, r, Features[r][j].hash)
  <2>1. j \in 1 .. n /\ (j \in 1 .. i \/ j = i + 1)
    BY <1>1, SMT DEF n
  <2>2. CASE j \in 1 .. i
    <3>1. Features[r][j].offset \in Nat
      BY <1>1, <2>1
    <3>2. Features[r][j].offset < computed + t.new
      BY <1>4, <1>5, <1>7, <3>1, SMT
    <3>3. Features[r][j].hash \in Range(t.inputs) \/ Refers(t.ec, r, Features[r][j].hash)
      BY <1>7, <2>2, <3>2 DEF Covered
    <3> QED BY <1>5, <3>3, GrownRefers
  <2>3. CASE j = i + 1
    <3>1. f.offset < computed + u.new /\ f.offset + Size[f.hash] > computed
      BY <1>7, <2>3 DEF f
    <3>2. ~(f.offset >= computed + u.new) /\ ~(f.offset + Size[f.hash] <= computed)
      BY <1>3, <1>4, <3>1, SMT
    <3>3. f.hash \in Range(u.inputs) \/ Refers(u.ec, r, f.hash)
      BY <1>5, <1>6, <3>2
    <3> QED BY <2>3, <3>3 DEF f
  <2> QED BY <2>1, <2>2, <2>3
<1>8. ASSUME u.stop, NEW j \in (i + 1) + 1 .. Len(Features[r])
      PROVE  Features[r][j].offset >= computed + u.new
  <2>1. j \in 1 .. n /\ i + 1 <= j
    BY <1>1, SMT DEF n
  <2>2. f.offset <= Features[r][j].offset
    BY <1>1, <1>2, <2>1, FeaturesAssumption DEF f
  <2>3. Features[r][j].offset \in Nat
    BY <1>1, <2>1
  <2>4. f.offset >= computed + u.new
    BY <1>6, <1>8
  <2> QED BY <1>3, <1>4, <2>2, <2>3, <2>4, SMT
<1> QED BY <1>7, <1>8 DEF Covered, Beyond

\* A request that gets no tokens takes no reference.
LEMMA SameStep ==
  ASSUME Shift = 0, ItemsApart, NEW r \in Requests, NEW computed \in Nat,
         NEW c, NEW m \in Nat, m > 0, NEW t, NEW u, NEW i \in Nat, i + 1 <= Len(Features[r]),
         Trying(t, c, r, m), Trying(u, c, r, m), Tried(t, u, r, Features[r][i + 1], computed),
         Pinned(c, t, r, computed, i)
  PROVE  Pinned(c, u, r, computed, i + 1)
<1> DEFINE n == Len(Features[r])
           f == Features[r][i + 1]
<1>1. /\ n \in Nat /\ DOMAIN Features[r] = 1 .. n
      /\ \A j \in 1 .. n : Features[r][j] \in Items /\ Features[r][j].offset \in Nat
                           /\ Size[Features[r][j].hash] \in Nat
  <2>1. /\ n \in Nat /\ DOMAIN Features[r] = 1 .. n
        /\ \A j \in 1 .. n : Features[r][j] \in Items
    BY FeatureFacts, SeqFacts
  <2> QED BY <2>1, SizeFacts DEF Items
<1>2. i + 1 \in 1 .. n /\ i + 1 \in 1 .. i + 1 /\ 1 .. i \in SUBSET (1 .. i + 1)
  BY <1>1, SMT
<1>3. f \in Items /\ f.offset \in Nat /\ Size[f.hash] \in Nat
  BY <1>1, <1>2
<1>4. /\ t.stop \in BOOLEAN /\ u.stop \in BOOLEAN
      /\ ~t.stop => t.new = m
      /\ ~u.stop => u.new = m
  BY DEF Trying, Tries
<1> HIDE DEF n, f
<1>5. /\ t.stop => u.stop /\ u.new = t.new
      /\ u.stop => u.ec = t.ec
      /\ ~t.stop /\ u.stop =>
           \/ u.new = t.new /\ f.offset >= computed + t.new + Shift
           \/ u.new = 0 /\ f.offset <= computed + Shift
           \/ u.new = f.offset - (computed + Shift)
      /\ ~u.stop => (f.offset + Size[f.hash] <= computed => u.ec = t.ec)
  BY DEF Tried, f
<1>6. ASSUME u.new = 0 PROVE SameRefs(c, u.ec)
  <2>1. u.stop /\ u.ec = t.ec
    <3>1. u.stop
      BY <1>4, <1>6, SMT
    <3> QED BY <1>5, <3>1
  <2>2. CASE t.stop
    <3>1. t.new = 0
      BY <1>5, <1>6, <2>2
    <3> QED BY <2>1, <3>1 DEF Pinned
  <2>3. CASE ~t.stop
    <3>1. f.offset <= computed
      <4>1. t.new = m
        BY <1>4, <2>3
      <4>2. \/ u.new = t.new /\ f.offset >= computed + t.new + Shift
            \/ u.new = 0 /\ f.offset <= computed + Shift
            \/ u.new = f.offset - (computed + Shift)
        BY <1>5, <2>1, <2>3
      <4> QED BY <1>3, <1>6, <4>1, <4>2, SMT
    <3>2. ASSUME ~SameRefs(c, t.ec) PROVE FALSE
      <4>1. PICK j \in 1 .. i : Features[r][j].offset + Size[Features[r][j].hash] > computed
        BY <3>2 DEF Ahead, Pinned
      <4>2. j \in 1 .. n /\ j < i + 1
        BY <1>1, <1>2, SMT
      <4>3. Features[r][j].offset + Size[Features[r][j].hash] <= f.offset
        BY <1>1, <1>2, <4>2 DEF ItemsApart, f
      <4>4. Features[r][j].offset \in Nat /\ Size[Features[r][j].hash] \in Nat
        BY <1>1, <4>2
      <4> QED BY <1>3, <3>1, <4>1, <4>3, <4>4, SMT
    <3> QED BY <2>1, <3>2
  <2> QED BY <1>4, <2>2, <2>3
<1>7. ASSUME ~SameRefs(c, u.ec) PROVE Ahead(r, computed, i + 1)
  <2>1. CASE u.ec = t.ec
    <3>1. Ahead(r, computed, i)
      BY <1>7, <2>1 DEF Pinned
    <3> QED BY <1>2, <3>1 DEF Ahead
  <2>2. CASE u.ec # t.ec
    <3>1. ~(f.offset + Size[f.hash] <= computed)
      BY <1>4, <1>5, <2>2
    <3>2. f.offset + Size[f.hash] > computed
      BY <1>3, <3>1, SMT
    <3> QED BY <1>2, <3>2 DEF Ahead, f
  <2> QED BY <2>1, <2>2
<1> QED BY <1>6, <1>7 DEF Pinned

\* What _try_schedule_encoder_inputs returns.
Outcome(u, c, r, computed) ==
  /\ u \in Tries
  /\ Exact(u.ec)
  /\ Grown(c, u.ec, r)
  /\ IsInjective(u.inputs)
  /\ Range(u.inputs) \cap DOMAIN u.ec.cached = {}
  /\ Range(u.inputs) \subseteq Hashes(r)
  /\ SizeOf(u.inputs) <= u.ec.num_free_slots
  /\ computed + u.new <= PromptLen[r]
  /\ u.new <= step.tokens
  /\ Shift = 0 /\ u.new > 0 => Covered(u, r, computed, Len(Features[r]))
  /\ Shift = 0 /\ ItemsApart /\ u.new = 0 => SameRefs(c, u.ec)

\* The loop over all items of a request.
LEMMA TryAllStep ==
  ASSUME NEW c, NEW r \in Requests, NEW computed \in Nat, NEW m \in Nat, m > 0,
         NEW t, Trying(t, c, r, m), ~t.stop, t.ec = c
  PROVE  LET u == TryAll(t, r, computed, Features[r])
         IN  /\ Trying(u, c, r, m)
             /\ Shift = 0 /\ u.new > 0 => Covered(u, r, computed, Len(Features[r]))
             /\ Shift = 0 /\ ItemsApart /\ u.new = 0 => SameRefs(c, u.ec)
<1> DEFINE s == Features[r]
           n == Len(s)
           A == {x \in Tries : Trying(x, c, r, m)}
           E == Range(s)
           u == TryAll(t, r, computed, s)
<1>1. t \in A
  BY DEF Trying
<1>2. s \in Seq(E) /\ n \in Nat
  BY FeatureFacts, OwnElements, SeqFacts
<1>3. \A x \in A, f \in E : TryItem(x, r, f, computed) \in A
  <2> SUFFICES ASSUME NEW x \in A, NEW f \in E PROVE TryItem(x, r, f, computed) \in A
    OBVIOUS
  <2>1. Trying(TryItem(x, r, f, computed), c, r, m)
    BY TryItemStep
  <2> QED BY <2>1 DEF Trying
<1> HIDE DEF A, E, s
<1>4. PICK f \in [0 .. n -> A] : TryAllRun(f, A, E, t, s, r, computed)
  BY <1>1, <1>2, <1>3, TryAllFold
<1>5. /\ f[0] = t
      /\ \A i \in 1 .. n : f[i - 1] \in A /\ s[i] \in E /\ f[i] = TryItem(f[i - 1], r, s[i], computed)
      /\ u = f[n]
  BY <1>4 DEF TryAllRun
<1> HIDE DEF u, n
<1>6. ASSUME NEW i \in 0 .. n - 1
      PROVE  /\ i \in Nat /\ i + 1 <= Len(Features[r]) /\ i + 1 \in 0 .. n
             /\ Trying(f[i], c, r, m) /\ Trying(f[i + 1], c, r, m)
             /\ f[i] \in Tries /\ f[i + 1] \in Tries
             /\ Tried(f[i], f[i + 1], r, Features[r][i + 1], computed)
  <2>1. /\ i + 1 \in 1 .. n /\ (i + 1) - 1 = i /\ i + 1 \in 0 .. n /\ i \in Nat /\ i + 1 <= n
    BY <1>2, SMT
  <2>2. f[i] \in A /\ s[i + 1] \in E /\ f[i + 1] = TryItem(f[i], r, s[i + 1], computed) /\ f[i + 1] \in A
    BY <1>4, <1>5, <2>1, SMT
  <2>3. Trying(f[i], c, r, m) /\ Trying(f[i + 1], c, r, m) /\ f[i] \in Tries /\ f[i + 1] \in Tries
    BY <2>2 DEF A
  <2>4. Tried(f[i], f[i + 1], r, s[i + 1], computed)
    BY <2>2, <2>3, TryItemStep DEF E, s
  <2> QED BY <2>1, <2>3, <2>4 DEF s, n
<1>7. 0 \in 0 .. n /\ n \in 0 .. n /\ 1 .. 0 = {}
  BY <1>2, SMT DEF n
<1>8. n \in Nat
  BY <1>2 DEF n
<1>9. ASSUME Shift = 0, u.new > 0 PROVE Covered(u, r, computed, Len(Features[r]))
  <2> DEFINE S == {i \in 0 .. n : f[i].new > 0 =>
                     /\ Covered(f[i], r, computed, i)
                     /\ f[i].stop => Beyond(f[i], r, computed, i)}
  <2>1. 0 \in S
    BY <1>5, <1>7 DEF Covered
  <2>2. ASSUME NEW i \in 0 .. n - 1, i \in S PROVE i + 1 \in S
    <3>1. /\ i \in Nat /\ i + 1 <= Len(Features[r]) /\ i + 1 \in 0 .. n
          /\ f[i] \in Tries /\ f[i + 1] \in Tries
          /\ Tried(f[i], f[i + 1], r, Features[r][i + 1], computed)
      BY <1>6
    <3> SUFFICES ASSUME f[i + 1].new > 0
                 PROVE  /\ Covered(f[i + 1], r, computed, i + 1)
                        /\ f[i + 1].stop => Beyond(f[i + 1], r, computed, i + 1)
      BY <3>1
    <3>2. f[i].new > 0
      <4>1. f[i].new \in Nat /\ f[i + 1].new \in Nat /\ f[i + 1].new <= f[i].new
        BY <3>1 DEF Tries, Tried
      <4> QED BY <4>1, SMT
    <3>3. Covered(f[i], r, computed, i) /\ (f[i].stop => Beyond(f[i], r, computed, i))
      BY <2>2, <3>2
    <3> QED BY <1>9, <3>1, <3>3, CoveredStep
  <2>3. 0 .. n \subseteq S
    <3> HIDE DEF S
    <3> QED BY <1>8, <2>1, <2>2, SetInduction
  <2>4. Covered(f[n], r, computed, n)
    BY <1>5, <1>7, <1>9, <2>3
  <2> QED BY <1>5, <2>4 DEF n, s
<1>10. ASSUME Shift = 0, ItemsApart, u.new = 0 PROVE SameRefs(c, u.ec)
  <2> DEFINE S == {i \in 0 .. n : Pinned(c, f[i], r, computed, i)}
  <2>1. 0 \in S
    <3>1. SameRefs(c, t.ec)
      BY DEF SameRefs
    <3> QED BY <1>5, <1>7, <3>1 DEF Pinned
  <2>2. ASSUME NEW i \in 0 .. n - 1, i \in S PROVE i + 1 \in S
    <3>1. /\ i \in Nat /\ i + 1 <= Len(Features[r]) /\ i + 1 \in 0 .. n
          /\ Trying(f[i], c, r, m) /\ Trying(f[i + 1], c, r, m)
          /\ Tried(f[i], f[i + 1], r, Features[r][i + 1], computed)
      BY <1>6
    <3>2. Pinned(c, f[i + 1], r, computed, i + 1)
      BY <1>10, <2>2, <3>1, SameStep
    <3> QED BY <3>1, <3>2
  <2>3. 0 .. n \subseteq S
    <3> HIDE DEF S
    <3> QED BY <1>8, <2>1, <2>2, SetInduction
  <2>4. Pinned(c, u, r, computed, n)
    BY <1>5, <1>7, <2>3
  <2> QED BY <1>10, <2>4 DEF Pinned
<1>11. Trying(u, c, r, m)
  BY <1>4, <1>5, <1>7 DEF A
<1> QED BY <1>9, <1>10, <1>11 DEF u, s

\* _try_schedule_encoder_inputs for a request that starts at a position.
LEMMA TryScheduleStep ==
  ASSUME Exact(ec), NEW r \in Requests, NEW computed \in Nat, computed <= PromptLen[r],
         step.tokens \in Nat, step.tokens > 0, step.budget \in Int
  PROVE  Outcome(try_schedule(r, computed), ec, r, computed)
<1> DEFINE m == Min({PromptLen[r] - computed, step.tokens})
           t == [ec |-> ec, new |-> m, budget |-> step.budget, embeds |-> 0,
                 inputs |-> <<>>, stop |-> FALSE]
           u == try_schedule(r, computed)
<1>1. PromptLen[r] \in Nat
  BY EncoderCacheAssumption
<1>2. /\ m \in Nat /\ computed + m <= PromptLen[r] /\ m <= step.tokens
      /\ PromptLen[r] > computed => m > 0
      /\ ~(PromptLen[r] > computed) => m = 0
  <2> DEFINE a == PromptLen[r] - computed
             b == step.tokens
  <2>1. a \in Int /\ b \in Int /\ a >= 0
    BY <1>1, SMT
  <2>2. m = IF a <= b THEN a ELSE b
    <3> HIDE DEF a, b
    <3>1. Min({a, b}) = IF a <= b THEN a ELSE b
      BY <2>1, MinMax
    <3> QED BY <3>1 DEF a, b
  <2> HIDE DEF m
  <2> QED BY <1>1, <2>1, <2>2, SMT
<1> HIDE DEF m
<1>3. /\ <<>> \in Seq(DOMAIN Size) /\ Range(<<>>) = {} /\ IsInjective(<<>>) /\ SizeOf(<<>>) = 0
  <2>1. <<>> \in Seq(DOMAIN Size) /\ Len(<<>>) = 0 /\ 1 .. 0 = {}
    BY SMT
  <2>2. DOMAIN <<>> = {} /\ Range(<<>>) = {}
    <3>1. DOMAIN <<>> = {}
      BY SMT
    <3> QED BY <3>1 DEF Range
  <2>3. IsInjective(<<>>)
    BY <2>2 DEF IsInjective
  <2>4. SizeOf(<<>>) = 0
    BY <2>1, <2>2, <2>3, SizeOfWeight, WeightSmall
  <2> QED BY <2>1, <2>2, <2>3, <2>4
<1>4. /\ t.ec = ec /\ t.new = m /\ t.embeds = 0 /\ t.inputs = <<>> /\ t.stop = FALSE
  OBVIOUS
<1>5. t \in Tries
  <2>1. ec \in Caches /\ 0 \in Nat
    BY SMT DEF Exact
  <2> QED BY <1>2, <1>3, <2>1 DEF Tries
<1>6. u = TryAll(t, r, computed, IF PromptLen[r] > computed THEN Features[r] ELSE <<>>)
  BY DEF try_schedule, TryAll, m
<1> HIDE DEF t, u
<1>7. Trying(t, ec, r, m)
  <2>1. 0 <= ec.num_free_slots /\ m <= m
    <3>1. ec.num_free_slots \in Nat
      BY ExactFacts
    <3> QED BY <1>2, <3>1, SMT
  <2> QED BY <1>3, <1>4, <1>5, <2>1, GrownSame DEF Trying
<1>8. ASSUME Trying(u, ec, r, m),
             Shift = 0 /\ u.new > 0 => Covered(u, r, computed, Len(Features[r])),
             Shift = 0 /\ ItemsApart /\ u.new = 0 => SameRefs(ec, u.ec)
      PROVE  Outcome(u, ec, r, computed)
  <2>1. u.new \in Nat /\ u.new <= m
    BY <1>8 DEF Trying, Tries
  <2>2. computed + u.new <= PromptLen[r] /\ u.new <= step.tokens
    BY <1>1, <1>2, <2>1, SMT
  <2> QED BY <1>8, <2>2 DEF Trying, Outcome
<1>9. CASE PromptLen[r] > computed
  <2>1. u = TryAll(t, r, computed, Features[r]) /\ m > 0 /\ ~t.stop
    BY <1>2, <1>4, <1>6, <1>9
  <2>2. /\ Trying(u, ec, r, m)
        /\ Shift = 0 /\ u.new > 0 => Covered(u, r, computed, Len(Features[r]))
        /\ Shift = 0 /\ ItemsApart /\ u.new = 0 => SameRefs(ec, u.ec)
    BY <1>2, <1>4, <1>7, <2>1, TryAllStep
  <2>3. Outcome(u, ec, r, computed)
    BY <1>8, <2>2
  <2> QED BY <2>3 DEF u
<1>10. CASE ~(PromptLen[r] > computed)
  <2>1. u = TryAll(t, r, computed, <<>>) /\ m = 0
    BY <1>2, <1>6, <1>10
  <2>2. u = t
    <3> DEFINE s == <<>>
    <3>1. s \in Seq({}) /\ Len(s) = 0 /\ t \in {t}
      BY SMT
    <3>2. \A x \in {t}, y \in {} : TryItem(x, r, y, computed) \in {t}
      OBVIOUS
    <3> HIDE DEF s
    <3>3. PICK f \in [0 .. Len(s) -> {t}] : TryAllRun(f, {t}, {}, t, s, r, computed)
      BY <3>1, <3>2, TryAllFold
    <3>4. TryAll(t, r, computed, s) = f[Len(s)] /\ f[0] = t
      BY <3>3 DEF TryAllRun
    <3> QED BY <2>1, <3>1, <3>4 DEF s
  <2>3. ~(u.new > 0) /\ SameRefs(ec, u.ec)
    <3>1. u.new = 0 /\ u.ec = ec
      BY <1>4, <2>1, <2>2
    <3>2. ~(u.new > 0)
      BY <3>1, SMT
    <3> QED BY <3>1, <3>2 DEF SameRefs
  <2>4. Outcome(u, ec, r, computed)
    BY <1>7, <1>8, <2>2, <2>3
  <2> QED BY <2>4 DEF u
<1> QED BY <1>9, <1>10

-----------------------------------------------------------------------------
(* References, entries and what the worker will have.                      *)

\* Every reference is one of Q.
ReferTo(c, Q) == \A h \in DOMAIN c.cached : c.cached[h] \subseteq Q

\* The manager counts what the worker will have: V without the evicted items,
\* and the new items D of the step.
Mirrors(c, V, D) == DOMAIN c.cached = (V \ Range(c.freed)) \cup D

\* An entry of the batch that is being put together: its items are cached, and
\* its request refers to them.
EntryOK(e, c, q) ==
  /\ e.start = q[e.r].computed
  /\ e.start + e.n <= PromptLen[e.r]
  /\ \A h \in Range(e.inputs) : Refers(c, e.r, h)
  /\ Shift = 0 => \A h \in Needed(e) : Refers(c, e.r, h)

Encoded(entries) == UNION {Range(e.inputs) : e \in Range(entries)}

\* The growth of the cache keeps the owners.
LEMMA GrownOwned ==
  ASSUME NEW c, NEW y, NEW r, Owned(c), Grown(c, y, r)
  PROVE  Owned(y)
<1>1. ASSUME NEW h \in DOMAIN y.cached, NEW q \in y.cached[h] PROVE h \in Hashes(q)
  <2>1. h \in DOMAIN c.cached
    BY DEF Grown
  <2>2. CASE q = r
    BY <2>1, <2>2 DEF Grown, Owned
  <2>3. CASE q # r
    <3>1. q \in c.cached[h]
      BY <2>3 DEF Grown
    <3> QED BY <2>1, <3>1 DEF Owned
  <2> QED BY <2>2, <2>3
<1> QED BY <1>1 DEF Owned

\* So do new items of the request itself.
LEMMA AddedOwned ==
  ASSUME NEW c, NEW y, NEW r, NEW D, Owned(c), AddedAll(c, y, r, D), D \subseteq Hashes(r)
  PROVE  Owned(y)
<1>1. ASSUME NEW h \in DOMAIN y.cached, NEW q \in y.cached[h] PROVE h \in Hashes(q)
  <2>1. CASE h \in DOMAIN c.cached
    BY <2>1 DEF AddedAll, Owned
  <2>2. CASE h \in D
    BY <2>2 DEF AddedAll
  <2> QED BY <2>1, <2>2 DEF AddedAll
<1> QED BY <1>1 DEF Owned

\* Which references stay.
LEMMA ShrunkRefers ==
  ASSUME NEW c, NEW y, NEW R, Shrunk(c, y, R), NEW q, q \notin R, NEW h, Refers(c, q, h)
  PROVE  Refers(y, q, h)
BY DEF Shrunk, Refers

\* Which references stay when items are added.
LEMMA AddedRefers ==
  ASSUME NEW c, NEW y, NEW r, NEW D, AddedAll(c, y, r, D)
  PROVE  /\ \A q, h : Refers(c, q, h) => Refers(y, q, h)
         /\ \A h \in D : Refers(y, r, h)
BY DEF AddedAll, Refers

\* Evicted items had no reference, so they are none of the step's.
LEMMA GrownMirrors ==
  ASSUME NEW c, NEW y, NEW r, NEW V, NEW D, Mirrors(c, V, D), Grown(c, y, r),
         \A h \in D : \E q : Refers(c, q, h)
  PROVE  Mirrors(y, V, D)
<1>1. /\ DOMAIN y.cached \subseteq DOMAIN c.cached
      /\ Range(y.freed) = Range(c.freed) \cup (DOMAIN c.cached \ DOMAIN y.cached)
      /\ DOMAIN c.cached = (V \ Range(c.freed)) \cup D
  BY DEF Grown, Mirrors
<1>2. D \subseteq DOMAIN y.cached
  <2> SUFFICES ASSUME NEW h \in D, h \notin DOMAIN y.cached PROVE FALSE
    OBVIOUS
  <2>1. PICK q : Refers(c, q, h)
    OBVIOUS
  <2>2. h \in DOMAIN c.cached /\ q \in c.cached[h]
    BY <2>1 DEF Refers
  <2>3. c.cached[h] = {}
    BY <2>2 DEF Grown
  <2> QED BY <2>2, <2>3
<1>3. DOMAIN y.cached = (V \ Range(y.freed)) \cup D
  BY <1>1, <1>2
<1> QED BY <1>3 DEF Mirrors

\* Letting go evicts nothing.
LEMMA ShrunkMirrors ==
  ASSUME NEW c, NEW y, NEW R, NEW V, NEW D, Mirrors(c, V, D), Shrunk(c, y, R)
  PROVE  Mirrors(y, V, D)
BY DEF Shrunk, Mirrors

\* New items.
LEMMA AddedMirrors ==
  ASSUME NEW c, NEW y, NEW r, NEW V, NEW D, NEW N, Mirrors(c, V, D), AddedAll(c, y, r, N)
  PROVE  Mirrors(y, V, D \cup N)
BY DEF AddedAll, Mirrors

\* Who refers to items after a request has grown.
LEMMA GrownReferTo ==
  ASSUME NEW c, NEW y, NEW r, NEW Q, ReferTo(c, Q), Grown(c, y, r)
  PROVE  ReferTo(y, Q \cup {r})
<1>1. ASSUME NEW h \in DOMAIN y.cached PROVE y.cached[h] \subseteq Q \cup {r}
  <2>1. h \in DOMAIN c.cached /\ y.cached[h] \subseteq c.cached[h] \cup {r}
    BY DEF Grown
  <2>2. c.cached[h] \subseteq Q
    BY <2>1 DEF ReferTo
  <2> QED BY <2>1, <2>2
<1> QED BY <1>1 DEF ReferTo

\* Who refers to items after some have let go of all.
LEMMA ShrunkReferTo ==
  ASSUME NEW c, NEW y, NEW R, NEW S, NEW Q, ReferTo(c, Q), Shrunk(c, y, S),
         \A q \in R : \A h : ~Refers(y, q, h)
  PROVE  ReferTo(y, Q \ R)
<1>1. ASSUME NEW h \in DOMAIN y.cached, NEW q \in y.cached[h] PROVE q \in Q \ R
  <2>1. h \in DOMAIN c.cached /\ q \in c.cached[h]
    BY DEF Shrunk
  <2>2. q \in Q
    BY <2>1 DEF ReferTo
  <2>3. Refers(y, q, h)
    BY DEF Refers
  <2> QED BY <2>2, <2>3
<1> QED BY <1>1 DEF ReferTo

\* Who refers to items after a request has got new ones.
LEMMA AddedReferTo ==
  ASSUME NEW c, NEW y, NEW r, NEW D, NEW Q, ReferTo(c, Q), AddedAll(c, y, r, D), r \in Q
  PROVE  ReferTo(y, Q)
BY DEF AddedAll, ReferTo

\* An entry stays right while its request keeps its references.
LEMMA EntryStays ==
  ASSUME NEW e, NEW c, NEW y, NEW q, NEW p, EntryOK(e, c, q), p[e.r] = q[e.r],
         \A h : Refers(c, e.r, h) => Refers(y, e.r, h)
  PROVE  EntryOK(e, y, p)
BY DEF EntryOK

\* With no drafter an entry needs the items in its tokens.
LEMMA NeededIs ==
  ASSUME Shift = 0, NEW e \in Entries, NEW h \in Needed(e)
  PROVE  \E j \in 1 .. Len(Features[e.r]) :
           /\ h = Features[e.r][j].hash
           /\ Features[e.r][j].offset < e.start + e.n
           /\ Features[e.r][j].offset + Size[Features[e.r][j].hash] > e.start
<1>1. e.r \in Requests /\ e.start \in Nat /\ e.n \in Nat
  BY DEF Entries
<1>2. PICK x \in Range(Features[e.r]), s \in 0 .. Shift :
        h = x.hash /\ x.offset < e.start + e.n + s /\ x.offset + Size[x.hash] > e.start + s
  BY DEF Needed
<1>3. s = 0
  BY SMT
<1>4. x.offset < e.start + e.n /\ x.offset + Size[x.hash] > e.start
  BY <1>1, <1>2, <1>3, SMT
<1>5. PICK j \in DOMAIN Features[e.r] : x = Features[e.r][j]
  BY DEF Range
<1>6. j \in 1 .. Len(Features[e.r])
  BY <1>1, <1>5, FeatureFacts
<1> QED BY <1>2, <1>4, <1>5, <1>6

\* The request joins the batch.
LEMMA JoinStep ==
  ASSUME NEW c, NEW r \in Requests, NEW computed \in Nat, NEW t, Outcome(t, c, r, computed), t.new > 0,
         NEW y, Exact(y), Owned(y), NEW R, Shrunk(t.ec, y, R), r \notin R,
         NEW q, q[r].computed = computed
  PROVE  LET z == Allocated(y, r, t.inputs)
             e == [r |-> r, start |-> computed, n |-> t.new, inputs |-> t.inputs]
         IN  /\ Exact(z) /\ Owned(z) /\ AddedAll(y, z, r, Range(t.inputs))
             /\ e \in Entries /\ EntryOK(e, z, q)
<1> DEFINE z == Allocated(y, r, t.inputs)
           e == [r |-> r, start |-> computed, n |-> t.new, inputs |-> t.inputs]
<1>1. /\ t \in Tries /\ t.new \in Nat /\ t.inputs \in Seq(DOMAIN Size)
      /\ IsInjective(t.inputs) /\ Range(t.inputs) \cap DOMAIN t.ec.cached = {}
      /\ Range(t.inputs) \subseteq Hashes(r) /\ SizeOf(t.inputs) <= t.ec.num_free_slots
      /\ computed + t.new <= PromptLen[r]
  BY DEF Outcome, Tries
<1>2. DOMAIN y.cached = DOMAIN t.ec.cached /\ y.num_free_slots = t.ec.num_free_slots
  BY DEF Shrunk
<1>3. Range(t.inputs) \cap DOMAIN y.cached = {} /\ SizeOf(t.inputs) <= y.num_free_slots
  BY <1>1, <1>2
<1>4. Exact(z) /\ AddedAll(y, z, r, Range(t.inputs))
  BY <1>1, <1>3, AllocatedStep
<1> HIDE DEF z
<1>5. Owned(z)
  BY <1>1, <1>4, AddedOwned
<1>6. e \in Entries /\ e.r = r /\ e.start = computed /\ e.n = t.new /\ e.inputs = t.inputs
  BY <1>1 DEF Entries
<1> HIDE DEF e
<1>7. \A h \in Range(e.inputs) : Refers(z, e.r, h)
  BY <1>4, <1>6, AddedRefers
<1>8. ASSUME Shift = 0, NEW h \in Needed(e) PROVE Refers(z, e.r, h)
  <2>1. PICK j \in 1 .. Len(Features[e.r]) :
          /\ h = Features[e.r][j].hash
          /\ Features[e.r][j].offset < e.start + e.n
          /\ Features[e.r][j].offset + Size[Features[e.r][j].hash] > e.start
    BY <1>6, <1>8, NeededIs
  <2>2. Covered(t, r, computed, Len(Features[r]))
    BY <1>8 DEF Outcome
  <2>3. h \in Range(t.inputs) \/ Refers(t.ec, r, h)
    BY <1>6, <2>1, <2>2 DEF Covered
  <2>4. Refers(t.ec, r, h) => Refers(y, r, h)
    BY ShrunkRefers
  <2> QED BY <1>4, <1>6, <2>3, <2>4, AddedRefers
<1>9. EntryOK(e, z, q)
  BY <1>1, <1>6, <1>7, <1>8 DEF EntryOK
<1> QED BY <1>4, <1>5, <1>6, <1>9 DEF z, e

\* Two sequences of distinct elements.
LEMMA ConcatInjective ==
  ASSUME NEW E, NEW s \in Seq(E), NEW t \in Seq(E), IsInjective(s), IsInjective(t),
         Range(s) \cap Range(t) = {}
  PROVE  IsInjective(s \o t)
<1> DEFINE u == s \o t
<1>1. /\ DOMAIN u = 1 .. Len(s) + Len(t)
      /\ \A i \in 1 .. Len(s) : u[i] = s[i]
      /\ \A i \in 1 .. Len(t) : u[Len(s) + i] = t[i]
  BY SMT
<1>2. /\ Len(s) \in Nat /\ Len(t) \in Nat /\ DOMAIN s = 1 .. Len(s) /\ DOMAIN t = 1 .. Len(t)
      /\ \A i \in 1 .. Len(s) : s[i] \in Range(s)
      /\ \A i \in 1 .. Len(t) : t[i] \in Range(t)
  BY SeqFacts
<1> HIDE DEF u
<1>3. ASSUME NEW i \in DOMAIN u, i \notin 1 .. Len(s)
      PROVE  i - Len(s) \in 1 .. Len(t) /\ u[i] = t[i - Len(s)]
  <2>1. i - Len(s) \in 1 .. Len(t) /\ Len(s) + (i - Len(s)) = i
    BY <1>1, <1>2, <1>3, SMT
  <2> QED BY <1>1, <2>1
<1>4. ASSUME NEW i \in DOMAIN u, NEW j \in DOMAIN u, u[i] = u[j] PROVE i = j
  <2>1. CASE i \in 1 .. Len(s) /\ j \in 1 .. Len(s)
    BY <1>1, <1>2, <1>4, <2>1 DEF IsInjective
  <2>2. CASE i \notin 1 .. Len(s) /\ j \notin 1 .. Len(s)
    <3>1. i - Len(s) = j - Len(s)
      BY <1>2, <1>3, <1>4, <2>2 DEF IsInjective
    <3>2. i \in Int /\ j \in Int
      BY <1>1, SMT
    <3> QED BY <1>2, <3>1, <3>2, SMT
  <2>3. CASE i \in 1 .. Len(s) /\ j \notin 1 .. Len(s)
    <3>1. u[i] \in Range(s) /\ u[j] \in Range(t)
      BY <1>1, <1>2, <1>3, <2>3
    <3> QED BY <1>4, <3>1
  <2>4. CASE i \notin 1 .. Len(s) /\ j \in 1 .. Len(s)
    <3>1. u[j] \in Range(s) /\ u[i] \in Range(t)
      BY <1>1, <1>2, <1>3, <2>4
    <3> QED BY <1>4, <3>1
  <2> QED BY <2>1, <2>2, <2>3, <2>4
<1>5. IsInjective(u)
  BY <1>4 DEF IsInjective
<1> QED BY <1>5 DEF u

\* The head and the tail of a sequence.
LEMMA TailFacts ==
  ASSUME NEW E, NEW s \in Seq(E), s # <<>>
  PROVE  LET t == Tail(s)
         IN  /\ Head(s) \in E /\ t \in Seq(E) /\ Len(t) = Len(s) - 1 /\ Len(s) > 0
             /\ Head(s) = s[1]
             /\ \A i \in 1 .. Len(t) : t[i] = s[i + 1]
             /\ Range(s) = {Head(s)} \cup Range(t)
             /\ IsInjective(s) => IsInjective(t) /\ Head(s) \notin Range(t)
<1> DEFINE t == Tail(s)
<1>1. /\ t \in Seq(E) /\ Len(t) = Len(s) - 1 /\ Len(s) > 0 /\ Head(s) = s[1] /\ Head(s) \in E
      /\ \A i \in 1 .. Len(s) - 1 : t[i] = s[i + 1]
  BY SMT
<1> HIDE DEF t
<1>2. /\ Len(s) \in Nat /\ DOMAIN s = 1 .. Len(s) /\ Range(s) = {s[i] : i \in 1 .. Len(s)}
  BY SeqFacts
<1>3. DOMAIN t = 1 .. Len(s) - 1 /\ Range(t) = {t[i] : i \in 1 .. Len(s) - 1}
  BY <1>1, SeqFacts
<1>4. \A i \in 1 .. Len(s) - 1 : i + 1 \in 1 .. Len(s) /\ i + 1 # 1
  BY <1>2, SMT
<1>5. \A i \in 1 .. Len(s) : i = 1 \/ (i - 1 \in 1 .. Len(s) - 1 /\ (i - 1) + 1 = i)
  BY <1>2, SMT
<1>6. 1 \in 1 .. Len(s)
  BY <1>1, <1>2, SMT
<1>7. Range(s) = {Head(s)} \cup Range(t)
  <2>1. ASSUME NEW x \in Range(s) PROVE x \in {Head(s)} \cup Range(t)
    <3>1. PICK i \in 1 .. Len(s) : x = s[i]
      BY <1>2
    <3>2. CASE i = 1
      BY <1>1, <3>1, <3>2
    <3>3. CASE i # 1
      <4>1. i - 1 \in 1 .. Len(s) - 1 /\ (i - 1) + 1 = i
        BY <1>5, <3>3
      <4>2. t[i - 1] = s[i]
        BY <1>1, <4>1
      <4> QED BY <1>3, <3>1, <4>1, <4>2
    <3> QED BY <3>2, <3>3
  <2>2. ASSUME NEW x \in Range(t) PROVE x \in Range(s)
    <3>1. PICK i \in 1 .. Len(s) - 1 : x = t[i]
      BY <1>3
    <3>2. x = s[i + 1] /\ i + 1 \in 1 .. Len(s)
      BY <1>1, <1>4, <3>1
    <3> QED BY <1>2, <3>2
  <2>3. Head(s) \in Range(s)
    BY <1>1, <1>2, <1>6
  <2> QED BY <2>1, <2>2, <2>3
<1>8. ASSUME IsInjective(s) PROVE IsInjective(t) /\ Head(s) \notin Range(t)
  <2>1. ASSUME NEW i \in DOMAIN t, NEW j \in DOMAIN t, t[i] = t[j] PROVE i = j
    <3>0. /\ s[i + 1] = s[j + 1] /\ i + 1 \in DOMAIN s /\ j + 1 \in DOMAIN s
      BY <1>1, <1>2, <1>3, <1>4, <2>1
    <3>1. i + 1 = j + 1
      BY <1>8, <3>0 DEF IsInjective
    <3>2. i \in Int /\ j \in Int
      BY <1>3, SMT
    <3> QED BY <3>1, <3>2, SMT
  <2>2. ASSUME NEW i \in 1 .. Len(s) - 1, t[i] = Head(s) PROVE FALSE
    <3>1. s[i + 1] = s[1] /\ i + 1 \in 1 .. Len(s) /\ i + 1 # 1
      BY <1>1, <1>4, <2>2
    <3> QED BY <1>2, <1>6, <1>8, <3>1 DEF IsInjective
  <2>3. IsInjective(t)
    BY <2>1 DEF IsInjective
  <2> QED BY <1>3, <2>2, <2>3
<1>9. \A i \in 1 .. Len(t) : t[i] = s[i + 1]
  BY <1>1
<1> QED BY <1>1, <1>7, <1>8, <1>9 DEF t

=============================================================================
