-------------------------- MODULE SingleTypeManager --------------------------
(***************************************************************************)
(* SingleTypeKVCacheManager and its subclasses for full, sliding-window    *)
(* and chunked-local attention (vllm/v1/core/single_type_kv_cache_manager) *)
(* as operators on a record kv:                                            *)
(*   pool     the BlockPool all the groups share                           *)
(*   blocks   req_to_blocks of every group's manager                       *)
(*   ncached  num_cached_block of every group's manager, Absent for a      *)
(*            request the manager has no entry for                         *)
(* A group's specification is a record of GroupSpecs: its kind, its block  *)
(* size and the size of its window or chunk.                               *)
(***************************************************************************)
EXTENDS BlockPool

CONSTANTS
    Requests,
    Tokens,             \* the tokens a request has or will generate
    GroupSpecs,         \* a sequence of [kind, block_size, window]
    MaxModelLen,
    MaxBatchedTokens

Groups == 1 .. Len(GroupSpecs)
Kinds == {"full", "sliding", "chunked"}

ASSUME GroupAssumption ==
    /\ \A r \in Requests : Len(Tokens[r]) \in 1 .. MaxModelLen
    /\ \A g \in Groups : /\ GroupSpecs[g].kind \in Kinds
                         /\ GroupSpecs[g].block_size \in Nat \ {0}
                         /\ GroupSpecs[g].window \in Nat \ {0}
    /\ MaxBatchedTokens \in Nat \ {0}

Absent == -1

Kind(g) == GroupSpecs[g].kind
BlockSize(g) == GroupSpecs[g].block_size
Window(g) == GroupSpecs[g].window       \* sliding_window or attention_chunk_size

cdiv(a, b) == (a + b - 1) \div b
AtLeast0(n) == IF n > 0 THEN n ELSE 0
Lesser(a, b) == IF a < b THEN a ELSE b
Greater(a, b) == IF a < b THEN b ELSE a

\* request.block_hashes at the block size of the group.
Hash(g, r, i) == <<g, SubSeq(Tokens[r], 1, i * BlockSize(g))>>

InitManagers ==
    [pool    |-> InitPool,
     blocks  |-> [g \in Groups |-> [r \in Requests |-> <<>>]],
     ncached |-> [g \in Groups |-> [r \in Requests |-> Absent]]]

\* Mutant: the window is taken to end before the token to be computed.
get_num_skipped_tokens_off_by_one(g, n) ==
    IF Kind(g) = "sliding" THEN AtLeast0(n - Window(g) + 2)
    ELSE IF Kind(g) = "chunked" THEN (n \div Window(g)) * Window(g) ELSE 0

get_num_skipped_tokens(g, n) ==
    CASE Kind(g) = "full" -> 0
      [] Kind(g) = "sliding" -> AtLeast0(n - Window(g) + 1)
      [] Kind(g) = "chunked" -> (n \div Window(g)) * Window(g)


\* Only the kinds that recycle blocks have a cap.
max_admission_blocks_per_request(g) ==
    CASE Kind(g) = "sliding" ->
            cdiv(Lesser(Window(g) - 1 + MaxBatchedTokens, MaxModelLen), BlockSize(g)) + 1
      [] Kind(g) = "chunked" ->
            cdiv(Lesser(Window(g) + MaxBatchedTokens, MaxModelLen), BlockSize(g))

get_num_evictable_blocks(p, bs) ==
    Cardinality({i \in 1 .. Len(bs) : bs[i] # Null /\ p.ref[bs[i]] = 0})

\* Mutant: eviction candidates among the hits are not counted.
get_num_blocks_to_allocate_hits_free(kv, g, r, num_tokens, hits, total_computed, cap) ==
    AtLeast0(cdiv(num_tokens, BlockSize(g)) - Len(hits) - Len(kv.blocks[g][r]))

\* The blocks that leave the free queue: new ones and hits that were free.
get_num_blocks_to_allocate(kv, g, r, num_tokens, hits, total_computed, cap) ==
    LET need == cdiv(num_tokens, BlockSize(g))
        required == IF cap /\ Kind(g) # "full"
                    THEN Lesser(need, max_admission_blocks_per_request(g)) ELSE need
        held == Len(kv.blocks[g][r])
        skipped == get_num_skipped_tokens(g, total_computed) \div BlockSize(g)
    IN  IF kv.ncached[g][r] # Absent THEN AtLeast0(required - held)
        ELSE AtLeast0(required - Greater(skipped, Len(hits) + held))
             + get_num_evictable_blocks(kv.pool,
                   SubSeq(hits, AtLeast0(skipped - held) + 1, Len(hits)))

\* Mutant: the hits are not touched.
allocate_new_computed_blocks_untouched(kv, g, r, hits, num_local, num_external) ==
    [kv EXCEPT !.blocks[g][r] = hits, !.ncached[g][r] = Len(hits)]

\* The request holds the blocks known, cached already, and then the new ones.
HoldComputed(kv, g, r, known, new) ==
    [kv EXCEPT !.pool = new.pool,
               !.blocks[g][r] = known \o new.blocks,
               !.ncached[g][r] = Len(known)]

\* Touch the hits inside the window, pad with null blocks, and take new blocks
\* for the tokens a connector will load.
allocate_new_computed_blocks(kv, g, r, hits, num_local, num_external) ==
    LET total == num_local + num_external
        skipped_tokens == get_num_skipped_tokens(g, total)
        skipped == skipped_tokens \div BlockSize(g)
        kept == SubSeq(hits, skipped + 1, Len(hits))
        external == IF skipped > 0 THEN Lesser(total - skipped_tokens, num_external)
                                   ELSE num_external
        known == [i \in 1 .. skipped |-> Null] \o kept
        missing == IF external > 0 THEN cdiv(total, BlockSize(g)) - Len(known) ELSE 0
    IN  IF kv.ncached[g][r] # Absent
        THEN IF hits = <<>> THEN kv ELSE [kv EXCEPT !.pool = Raise(@)]
        ELSE IF kv.blocks[g][r] # <<>> \/ (~EnableCaching /\ kept # <<>>)
        THEN [kv EXCEPT !.pool = Raise(@)]
        ELSE HoldComputed(kv, g, r, known, get_new_blocks(touch(kv.pool, kept), missing))

HoldNew(kv, g, r, new) == [kv EXCEPT !.pool = new.pool, !.blocks[g][r] = @ \o new.blocks]

allocate_new_blocks(kv, g, r, num_tokens) ==
    LET missing == cdiv(num_tokens, BlockSize(g)) - Len(kv.blocks[g][r])
    IN  IF missing <= 0 THEN kv ELSE HoldNew(kv, g, r, get_new_blocks(kv.pool, missing))

cache_blocks(kv, g, r, num_tokens) ==
    LET num_cached == AtLeast0(kv.ncached[g][r])
        num_full == num_tokens \div BlockSize(g)
    IN  IF num_cached >= num_full THEN kv
        ELSE [kv EXCEPT
                !.pool = cache_full_blocks(@, kv.blocks[g][r],
                            [i \in 1 .. num_full |-> Hash(g, r, i)], num_cached, num_full),
                !.ncached[g][r] = num_full]

\* Mutant: the blocks are freed head first.
free_head_first(kv, g, r) ==
    [kv EXCEPT !.pool = free_blocks(@, kv.blocks[g][r]),
               !.blocks[g][r] = <<>>,
               !.ncached[g][r] = Absent]

\* The tail blocks go to the free queue first, to be evicted first.
free(kv, g, r) ==
    [kv EXCEPT !.pool = free_blocks(@, Reverse(kv.blocks[g][r])),
               !.blocks[g][r] = <<>>,
               !.ncached[g][r] = Absent]

\* Blocks before the window are freed from right to left up to the first one
\* that is null already, and replaced by the null block.
remove_skipped_blocks(kv, g, r, total_computed) ==
    LET held == kv.blocks[g][r]
        n == Lesser(get_num_skipped_tokens(g, total_computed) \div BlockSize(g), Len(held))
        first == 1 + Max({0} \cup {i \in 1 .. n : held[i] = Null})
    IN  [kv EXCEPT !.pool = free_blocks(@, Reverse(SubSeq(held, first, n))),
                   !.blocks[g][r] = [i \in 1 .. Len(held) |->
                                       IF i \in first .. n THEN Null ELSE held[i]]]

\* The blocks all of a request's holders share, for full attention only.
get_num_common_prefix_blocks(kv, g, r) ==
    LET holders == Cardinality({q \in Requests : kv.blocks[g][q] # <<>>})
        shared(n) == \A i \in 1 .. n : kv.pool.ref[kv.blocks[g][r][i]] = holders
    IN  IF Kind(g) # "full" THEN 0
        ELSE Max({n \in 0 .. Len(kv.blocks[g][r]) : shared(n)})
-----------------------------------------------------------------------------
(* find_longest_cache_hit of the managers, for the groups gs of one spec.  *)
(* A hit is a number of blocks; HitBlocks lists them, with null blocks for *)
(* the ones the attention type does not read.                              *)

GroupOf(gs) == CHOOSE g \in gs : TRUE

\* get_cached_block for every group of gs.
IsCached(p, gs, r, i) == \A g \in gs : get_one_block(p, Hash(g, r, i)) # Miss

\* The largest aligned hit that is not longer than n blocks.
AlignDown(n, block_size, alignment) ==
    Max({m \in 0 .. n : (m * block_size) % alignment = 0})

\* Full attention reads every block: scan from the left.
FullHit(p, gs, r, max_length, eagle, alignment) ==
    LET size == BlockSize(GroupOf(gs))
        run == Max({n \in 0 .. max_length \div size : \A i \in 1 .. n : IsCached(p, gs, r, i)})
        hit == AlignDown(IF eagle THEN AtLeast0(run - 1) ELSE run, size, alignment)
    IN  [length |-> hit, first |-> 1]

\* sliding_window_contiguous_blocks, the blocks a hit must have in a row.
contiguous_blocks(g, eagle) == cdiv(Window(g) - 1, BlockSize(g)) + (IF eagle THEN 1 ELSE 0)

\* The hit at the end of the scan.  A run that reaches the first block is a hit
\* however short it is.
ScannedHit(end, size, eagle, alignment) ==
    LET raw == IF end.found THEN end.first + end.run - 1
               ELSE AlignDown(end.run, size, alignment)
    IN  [length |-> IF eagle /\ raw > 0 THEN AlignDown(raw - 1, size, alignment) ELSE raw,
         first |-> IF end.found THEN end.first ELSE 1]

\* Sliding window: scan from the right for enough contiguous blocks.
SlidingHit(p, gs, r, max_length, eagle, alignment) ==
    LET g == GroupOf(gs)
        size == BlockSize(g)
        needed == contiguous_blocks(g, eagle)
        max_blocks == max_length \div size
        \* state of the scan: blocks in the current run, and its end once found
        scan(s, i) ==
            IF s.found THEN s
            ELSE IF ~IsCached(p, gs, r, i) THEN [s EXCEPT !.run = 0]
            ELSE IF s.run = 0 /\ ((IF eagle THEN i - 1 ELSE i) * size) % alignment # 0 THEN s
            ELSE [run |-> s.run + 1, found |-> s.run + 1 >= needed, first |-> i]
    IN  ScannedHit(FoldLeft(scan, [run |-> 0, found |-> FALSE, first |-> 1],
                            [k \in 1 .. max_blocks |-> max_blocks + 1 - k]),
                   size, eagle, alignment)

\* local_attention_start_idx, where the chunk of the token at position n begins.
local_attention_start(g, n) == (n \div Window(g)) * Window(g)

\* Chunked local: blocks before the chunk of max_length count as computed.
ChunkedHit(p, gs, r, max_length) ==
    LET g == GroupOf(gs)
        start == local_attention_start(g, max_length) \div BlockSize(g)
    IN  [length |-> Max({n \in start .. Greater(start, max_length \div BlockSize(g)) :
                           \A i \in start + 1 .. n : IsCached(p, gs, r, i)}),
         first |-> start + 1]

FindHit(p, gs, r, max_length, eagle, alignment) ==
    CASE Kind(GroupOf(gs)) = "full" -> FullHit(p, gs, r, max_length, eagle, alignment)
      [] Kind(GroupOf(gs)) = "sliding" -> SlidingHit(p, gs, r, max_length, eagle, alignment)
      [] Kind(GroupOf(gs)) = "chunked" -> ChunkedHit(p, gs, r, max_length)

HitBlocks(p, g, r, hit) ==
    [i \in 1 .. hit.length |-> IF i < hit.first THEN Null ELSE get_one_block(p, Hash(g, r, i))]
=============================================================================
