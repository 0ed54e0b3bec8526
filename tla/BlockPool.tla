------------------------------ MODULE BlockPool ------------------------------
(***************************************************************************)
(* BlockPool and BlockHashToBlockMap (vllm/v1/core/block_pool.py) as       *)
(* operators on a pool record:                                             *)
(*   free    free_block_queue, the abstract queue of module BlockQueue     *)
(*   ref     ref_cnt of every block but the null block, whose count the    *)
(*           code does not maintain                                        *)
(*   hash    block_hash, NoHash for None                                   *)
(*   cached  cached_block_hash_to_block: for every key its blocks, in the  *)
(*           order they were inserted                                      *)
(*   err     an exception has been raised (an assert or a ValueError)      *)
(* A hash is a pair of a group and the tokens the block's hash chain       *)
(* covers: hashing is taken to be free of collisions.                      *)
(***************************************************************************)
EXTENDS Integers, FiniteSets, SequencesExt

CONSTANTS NumBlocks, EnableCaching

ASSUME PoolAssumption == NumBlocks \in Nat \ {0} /\ EnableCaching \in BOOLEAN

Null == 0                       \* null_block, the first one popped
Blocks == 1 .. NumBlocks - 1
NoHash == <<>>
Miss == -1

InitPool ==
    [free   |-> [i \in 1 .. NumBlocks - 1 |-> i],
     ref    |-> [b \in Blocks |-> 0],
     hash   |-> [b \in {Null} \cup Blocks |-> NoHash],
     cached |-> <<>>,
     err    |-> FALSE]

Raise(p) == [p EXCEPT !.err = TRUE]

get_num_free_blocks(p) == Len(p.free)

get_one_block(p, h) == IF h \in DOMAIN p.cached THEN Head(p.cached[h]) ELSE Miss

insert(p, h, b) ==
    LET old == IF h \in DOMAIN p.cached THEN p.cached[h] ELSE <<>>
    IN  [p EXCEPT !.cached = (h :> Append(old, b)) @@ @, !.hash[b] = h]

pop(p, h, b) ==
    LET rest == SelectSeq(p.cached[h], LAMBDA x : x # b)
    IN  IF rest = <<>> THEN [p EXCEPT !.cached = Restrict(@, DOMAIN @ \ {h})]
                       ELSE [p EXCEPT !.cached[h] = rest]

maybe_evict_cached_block(p, b) ==
    LET h == p.hash[b]
    IN  IF h \notin DOMAIN p.cached \/ ~Contains(p.cached[h], b) THEN p
        ELSE [pop(p, h, b) EXCEPT !.hash[b] = NoHash]

get_new_blocks(p, n) ==
    IF n < 0 \/ n > get_num_free_blocks(p) \/ \E i \in 1 .. n : p.ref[p.free[i]] # 0
    THEN [pool |-> Raise(p), blocks |-> <<>>]
    ELSE LET got == SubSeq(p.free, 1, n)
             evicted == IF EnableCaching THEN FoldLeft(maybe_evict_cached_block, p, got) ELSE p
         IN  [pool |-> [evicted EXCEPT
                          !.free = SubSeq(@, n + 1, Len(@)),
                          !.ref = [b \in Blocks |-> IF Contains(got, b) THEN 1 ELSE @[b]]],
              blocks |-> got]

\* Mutant: a block hit in the free queue stays in the queue.
touch_one_in_queue(p, b) ==
    IF b = Null THEN p ELSE [p EXCEPT !.ref[b] = @ + 1]

touch_one(p, b) ==
    IF b = Null THEN p
    ELSE [p EXCEPT !.free = IF p.ref[b] = 0 THEN SelectSeq(@, LAMBDA x : x # b) ELSE @,
                   !.ref[b] = @ + 1]

touch(p, bs) == FoldLeft(touch_one, p, bs)

\* Mutant: shared blocks go to the free queue, too.
free_blocks_shared(p, bs) ==
    LET drop(ref, b) == IF b = Null THEN ref ELSE [ref EXCEPT ![b] = @ - 1]
    IN  [p EXCEPT !.ref = FoldLeft(drop, @, bs),
                  !.free = @ \o SelectSeq(bs, LAMBDA b : b # Null)]

\* All the counters are decremented before the queue is extended.
free_blocks(p, bs) ==
    LET drop(ref, b) == IF b = Null THEN ref ELSE [ref EXCEPT ![b] = @ - 1]
        ref == FoldLeft(drop, p.ref, bs)
    IN  [p EXCEPT !.ref = ref,
                  !.free = @ \o SelectSeq(bs, LAMBDA b : b # Null /\ ref[b] = 0)]

\* hashes[i] is the hash of blocks[i].
cache_full_blocks(p, blocks, hashes, num_cached, num_full) ==
    LET cache_one(pool, i) ==
            IF blocks[i] = Null THEN pool
            ELSE IF pool.hash[blocks[i]] # NoHash THEN Raise(pool)
            ELSE insert(pool, hashes[i], blocks[i])
    IN  FoldLeft(cache_one, p, [k \in 1 .. num_full - num_cached |-> num_cached + k])

\* Nothing is reset while any block but the null block is in use.
CanReset(p) == NumBlocks - get_num_free_blocks(p) = 1

reset_prefix_cache(p) ==
    IF CanReset(p)
    THEN [p EXCEPT !.cached = <<>>, !.hash = [b \in DOMAIN @ |-> NoHash]]
    ELSE p
=============================================================================
