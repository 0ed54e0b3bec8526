--------------------------- MODULE KVCacheManager ---------------------------
(***************************************************************************)
(* KVCacheManager (vllm/v1/core/kv_cache_manager.py) and the coordinators  *)
(* below it (vllm/v1/core/kv_cache_coordinator.py) as operators on the     *)
(* record kv of module SingleTypeManager.  A coordinator calls the manager *)
(* of every group in turn, on the one pool they share.                     *)
(***************************************************************************)
EXTENDS SingleTypeManager

CONSTANT EagleGroups        \* eagle_group_ids: groups that drop the last hit

\* Chunked-local attention asserts that eagle is off and that all the block
\* sizes are equal.
ASSUME EagleAssumption ==
    /\ EagleGroups \subseteq Groups
    /\ \A g \in Groups : Kind(g) = "chunked" =>
          g \notin EagleGroups /\ \A k \in Groups : BlockSize(k) = BlockSize(g)

GroupSeq == [g \in Groups |-> g]

\* _check_enough_kv_cache_memory: the engine starts only with enough blocks for
\* one request of max_model_len tokens.
EnoughBlocks ==
    LET needed(g) == IF Kind(g) = "full" THEN cdiv(MaxModelLen, BlockSize(g))
                     ELSE max_admission_blocks_per_request(g)
    IN  FoldLeft(LAMBDA n, g : n + needed(g), 0, GroupSeq) <= NumBlocks

ASSUME SizeAssumption == EnoughBlocks

-----------------------------------------------------------------------------
(* HybridKVCacheCoordinator.find_longest_cache_hit                         *)

\* Groups with equal specs are looked up together; full attention comes first.
SameSpec(g) == {k \in Groups : GroupSpecs[k] = GroupSpecs[g]}

attention_groups ==
    LET firsts == SelectSeq(GroupSeq, LAMBDA g : \A k \in SameSpec(g) : g <= k)
        order == SelectSeq(firsts, LAMBDA g : Kind(g) = "full")
                 \o SelectSeq(firsts, LAMBDA g : Kind(g) # "full")
    IN  [i \in 1 .. Len(order) |-> SameSpec(order[i])]

\* The least common multiple of the block sizes.
lcm_block_size ==
    LET bound == FoldLeft(LAMBDA m, g : m * BlockSize(g), 1, GroupSeq)
    IN  Min({m \in 1 .. bound : \A g \in Groups : m % BlockSize(g) = 0})

\* s: the candidate length so far, the hits by attention type and the types whose
\* eagle drop is verified.  Attention type t has the given hit.
Narrow(s, t, size, eagle, hit) ==
    [length   |-> hit.length * size,
     hits     |-> [s.hits EXCEPT ![t] = <<hit>>],
     verified |-> IF eagle THEN s.verified \cup {t}
                  ELSE IF hit.length * size < s.length THEN {} ELSE s.verified]

\* One attention type t, of the groups gs, in one pass.
CheckType(p, r, max_length, gs, s, t) ==
    LET size == BlockSize(GroupOf(gs))
        eagle == gs \cap EagleGroups # {} /\ t \notin s.verified
        limit == IF eagle THEN Lesser(s.length + size, max_length) ELSE s.length
    IN  IF Kind(GroupOf(gs)) = "full" /\ s.hits[t] # <<>>
        THEN [s EXCEPT !.length = (@ \div size) * size]
        ELSE Narrow(s, t, size, eagle, FindHit(p, gs, r, limit, eagle, lcm_block_size))

Pass(p, r, max_length, ags, s) ==
    FoldLeftDomain(LAMBDA st, t : CheckType(p, r, max_length, ags[t], st, t), s, ags)

\* The loop ends with the first pass that does not shrink the length.
AfterPass(before, after, simple) ==
    IF after.length < before.length THEN [state |-> after, done |-> simple]
    ELSE [state |-> [after EXCEPT !.length = before.length], done |-> TRUE]

\* Mutant: only one pass over the attention types, for any number of them.
HybridPasses_once(p, r, max_length, ags, s0) == Pass(p, r, max_length, ags, s0)

\* Passes over all the types until one leaves the length alone; a model with
\* full attention and one other type needs only one pass.
HybridPasses(p, r, max_length, ags, s0) ==
    LET simple == Len(ags) = 2 /\ Kind(GroupOf(ags[1])) = "full"
        step(s, i) == IF s.done THEN s
                      ELSE AfterPass(s.state, Pass(p, r, max_length, ags, s.state), simple)
    IN  FoldLeft(step, [state |-> s0, done |-> FALSE],
                 [i \in 1 .. max_length + 1 |-> i]).state

\* Only full attention is cut to the final length.
HybridBlocks(p, r, ags, end) ==
    LET hit(g) == end.hits[CHOOSE t \in DOMAIN ags : g \in ags[t]][1]
        cut(g) == IF Kind(g) # "full" THEN hit(g)
                  ELSE [hit(g) EXCEPT !.length = Lesser(@, end.length \div BlockSize(g))]
    IN  [blocks |-> [g \in Groups |-> HitBlocks(p, g, r, cut(g))], tokens |-> end.length]

HybridFind(p, r, max_length, ags) ==
    HybridBlocks(p, r, ags,
        HybridPasses(p, r, max_length, ags,
                     [length |-> max_length, hits |-> [t \in DOMAIN ags |-> <<>>],
                      verified |-> {}]))

UnitaryBlocks(p, r, hit) ==
    [blocks |-> [g \in Groups |-> HitBlocks(p, g, r, hit)], tokens |-> hit.length * BlockSize(1)]

UnitaryFind(p, r, max_length) ==
    UnitaryBlocks(p, r, FindHit(p, {1}, r, max_length, 1 \in EagleGroups, BlockSize(1)))

find_longest_cache_hit(p, r, max_length) ==
    IF Len(GroupSpecs) = 1 THEN UnitaryFind(p, r, max_length)
    ELSE HybridFind(p, r, max_length, attention_groups)

NoHit == [blocks |-> [g \in Groups |-> <<>>], tokens |-> 0]

\* The last token is always recomputed, to obtain its logits.
get_computed_blocks(kv, r, num_tokens) ==
    IF EnableCaching THEN find_longest_cache_hit(kv.pool, r, num_tokens - 1) ELSE NoHit

-----------------------------------------------------------------------------
(* The calls that change the cache.                                        *)

num_blocks_to_allocate(kv, r, num_tokens, hits, total_computed, cap) ==
    FoldLeft(LAMBDA n, g : n + get_num_blocks_to_allocate(
                                   kv, g, r, num_tokens, hits[g], total_computed, cap),
             0, GroupSeq)

CacheAll(kv, r, num_tokens) ==
    FoldLeft(LAMBDA k, g : cache_blocks(k, g, r, num_tokens), kv, GroupSeq)

RemoveSkipped(kv, r, total_computed) ==
    FoldLeft(LAMBDA k, g : remove_skipped_blocks(k, g, r, total_computed), kv, GroupSeq)

AllocateComputed(kv, r, hits, num_local, num_external) ==
    FoldLeft(LAMBDA k, g : allocate_new_computed_blocks(k, g, r, hits[g], num_local, num_external),
             kv, GroupSeq)

AllocateNew(kv, r, num_tokens) ==
    FoldLeft(LAMBDA k, g : allocate_new_blocks(k, g, r, num_tokens), kv, GroupSeq)

\* Draft tokens may be rejected: they are not cached.
num_tokens_to_cache(total, a) == Lesser(total + a.num_new, a.num_tokens)

\* The arguments of allocate_slots are in the record a: request r with
\* num_computed_tokens and num_tokens, num_new tokens to compute, the prefix
\* cache hits and their number of tokens, num_lookahead and num_external tokens,
\* whether caching is delayed and whether the full sequence must fit.  The
\* result is FALSE when the code returns None.
NumLocal(a) == a.num_computed + a.hit_tokens
NumTotal(a) == Lesser(NumLocal(a) + a.num_external, MaxModelLen)
NeedSlot(a) == Lesser(NumTotal(a) + a.num_new + a.num_lookahead, MaxModelLen)

\* The blocks are allocated: the tokens that are final are cached.
SlotsAllocated(kv, a) ==
    [kv |-> IF EnableCaching /\ ~a.delay_cache /\ ~kv.pool.err
            THEN CacheAll(kv, a.r, num_tokens_to_cache(NumTotal(a), a)) ELSE kv,
     result |-> ~kv.pool.err]

\* The skipped blocks are gone: allocate, if there are enough blocks.
AllocateTrimmed(kv, a) ==
    IF num_blocks_to_allocate(kv, a.r, NeedSlot(a), a.hits, NumLocal(a) + a.num_external, FALSE)
          > get_num_free_blocks(kv.pool)
    THEN [kv |-> kv, result |-> FALSE]
    ELSE SlotsAllocated(
            AllocateNew(IF a.num_external > 0 \/ \E g \in Groups : a.hits[g] # <<>>
                        THEN AllocateComputed(kv, a.r, a.hits, NumLocal(a), a.num_external)
                        ELSE kv,
                        a.r, NeedSlot(a)),
            a)

allocate_slots(kv, a) ==
    LET fits == num_blocks_to_allocate(kv, a.r, Lesser(a.num_tokens, MaxModelLen),
                                       a.hits, NumTotal(a), TRUE) <= get_num_free_blocks(kv.pool)
        \* a request the managers know has no hits
        known == \E g \in Groups : kv.ncached[g][a.r] # Absent /\ a.hits[g] # <<>>
    IN  IF (a.num_new = 0 /\ a.num_external = 0) \/ known
        THEN [kv |-> [kv EXCEPT !.pool = Raise(@)], result |-> FALSE]
        ELSE IF a.full_sequence_must_fit /\ ~fits THEN [kv |-> kv, result |-> FALSE]
        ELSE AllocateTrimmed(RemoveSkipped(kv, a.r, NumTotal(a)), a)

free_request(kv, r) == FoldLeft(LAMBDA k, g : free(k, g, r), kv, GroupSeq)

CacheBlocks(kv, r, num_computed) ==
    IF EnableCaching THEN CacheAll(kv, r, num_computed) ELSE kv
=============================================================================
