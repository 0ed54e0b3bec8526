--------------------------- MODULE KVCacheSystem ---------------------------
(***************************************************************************)
(* The KV cache as the scheduler drives it: requests that hit the prefix   *)
(* cache, are admitted, compute their tokens in chunks, are preempted,     *)
(* finish, load tokens through a connector, and share one pool.  The calls *)
(* and their order are those of vllm/v1/core/sched/scheduler.py; which     *)
(* request is next and how many tokens it gets is left open.               *)
(*                                                                         *)
(* store is what the cache memory holds: for every slot of every block the *)
(* group and the tokens whose KV was last written to it.  A worker runs    *)
(* the batches in the order they were scheduled, so the tokens of a        *)
(* scheduled request are in the store before any later request reads them: *)
(* a step of a request is one action here.                                 *)
(***************************************************************************)
EXTENDS KVCacheManager

CONSTANTS
    PromptLen,          \* number of prompt tokens; the others are generated
    MaxDrafts,          \* num_spec_tokens
    NumLookahead,       \* num_lookahead_tokens
    MaxExternal,        \* tokens a connector may offer, 0 without a connector
    AsyncLoad,          \* the connector loads asynchronously
    AsyncScheduling,    \* AsyncScheduler, which caches tokens as they arrive
    ReserveFull         \* scheduler_reserve_full_isl

ASSUME SystemAssumption ==
    /\ \A r \in Requests : PromptLen[r] \in 1 .. Len(Tokens[r]) - 1
    /\ {MaxDrafts, NumLookahead, MaxExternal} \subseteq Nat
    /\ {AsyncLoad, AsyncScheduling, ReserveFull} \subseteq BOOLEAN

VARIABLES
    kv,         \* the managers and their pool
    store,      \* the cache memory
    req         \* the requests

vars == <<kv, store, req>>

Garbage == <<>>         \* nothing, or the KV of a rejected draft token
Slots == 0 .. Max({BlockSize(g) : g \in Groups}) - 1

Prefix(r, n) == SubSeq(Tokens[r], 1, n)

\* WAITING stands for PREEMPTED too.  A request that is aborted while it loads
\* keeps its blocks until the connector is done with them.
Statuses == {"WAITING", "RUNNING", "WAITING_FOR_REMOTE_KVS", "FINISHED_ABORTED"}

\* status, num_computed_tokens and num_tokens; the tokens that hit the prefix
\* cache when the load began; whether the request is in
\* finished_recving_kv_req_ids and failed_recving_kv_req_ids; and the position
\* where its last step began, for the properties.
NewRequest(r) ==
    [status |-> "WAITING", computed |-> 0, tokens |-> PromptLen[r],
     local |-> 0, received |-> FALSE, failed |-> FALSE, start |-> 0]

Init ==
    /\ kv = InitManagers
    /\ store = [b \in Blocks |-> [s \in Slots |-> Garbage]]
    /\ req = [r \in Requests |-> NewRequest(r)]

\* The block of the token at position i (from 0) of a request.
BlockAt(k, g, r, i) == k.blocks[g][r][i \div BlockSize(g) + 1]

\* The store after the tokens at positions from .. to - 1 of r were written in
\* every group; those from position valid on are drafts that are rejected.
Written(k, r, from, to, valid) ==
    LET at(b, s) == {x \in Groups \X (from .. to - 1) :
                        BlockAt(k, x[1], r, x[2]) = b /\ x[2] % BlockSize(x[1]) = s}
        value(x) == IF x[2] < valid THEN <<x[1], Prefix(r, x[2] + 1)>> ELSE Garbage
    IN  [b \in Blocks |-> [s \in Slots |->
            IF at(b, s) = {} THEN store[b][s] ELSE value(CHOOSE x \in at(b, s) : TRUE)]]

-----------------------------------------------------------------------------
Args(r, n) ==
    [r |-> r, num_computed |-> req[r].computed, num_tokens |-> req[r].tokens, num_new |-> n,
     hits |-> NoHit.blocks, hit_tokens |-> 0, num_lookahead |-> 0, num_external |-> 0,
     delay_cache |-> FALSE, full_sequence_must_fit |-> FALSE]

\* The step that computes the tokens start .. end - 1 of request r with the
\* blocks k, after those from position from on were loaded.  A token is sampled
\* when all the known ones are computed.  Drafts come after the known tokens; the
\* ones after the first accepted ones are rejected and taken back.
Run(k, r, from, start, end, accepted) ==
    LET sampled == end >= req[r].tokens
        kept == IF sampled THEN req[r].tokens + accepted ELSE end
    IN  /\ kv' = IF AsyncScheduling /\ sampled THEN CacheBlocks(k, r, kept) ELSE k
        /\ store' = Written(k, r, from, end, kept)
        /\ req' = [req EXCEPT ![r].status = "RUNNING",
                              ![r].computed = kept,
                              ![r].start = start,
                              ![r].tokens = IF sampled THEN kept + 1 ELSE @]

\* The step is run if allocate_slots found the blocks for it.
RunIf(res, r, from, start, end, accepted) ==
    IF res.result THEN Run(res.kv, r, from, start, end, accepted)
                  ELSE kv' = res.kv /\ UNCHANGED <<store, req>>

\* A waiting request is looked up in the prefix cache and admitted, with n
\* tokens to compute after the ones a connector loads within the step.
Admit(r, external, n) ==
    /\ req[r].status = "WAITING" /\ req[r].computed = 0
    /\ external > 0 => ~AsyncLoad
    /\ \E hit \in {get_computed_blocks(kv, r, req[r].tokens)} :
          LET start == hit.tokens + external
          IN  /\ start + n <= req[r].tokens
              /\ RunIf(allocate_slots(kv, [Args(r, n) EXCEPT
                          !.hits = hit.blocks, !.hit_tokens = hit.tokens,
                          !.num_external = external, !.full_sequence_must_fit = ReserveFull]),
                       r, hit.tokens, start, start + n, 0)

\* The connector loads the request's tokens while other requests run.
AdmitLoading(r, external) ==
    /\ req[r].status = "WAITING" /\ req[r].computed = 0
    /\ AsyncLoad
    /\ \E hit \in {get_computed_blocks(kv, r, req[r].tokens)} :
       \E res \in {allocate_slots(kv, [Args(r, 0) EXCEPT
                      !.hits = hit.blocks, !.hit_tokens = hit.tokens,
                      !.num_external = external, !.delay_cache = TRUE,
                      !.full_sequence_must_fit = ReserveFull])} :
          /\ hit.tokens + external <= req[r].tokens
          /\ kv' = res.kv
          /\ req' = IF res.result
                    THEN [req EXCEPT ![r].status = "WAITING_FOR_REMOTE_KVS",
                                     ![r].computed = hit.tokens + external,
                                     ![r].local = hit.tokens]
                    ELSE req
    /\ UNCHANGED store

\* A request that holds the blocks a connector loaded: no new lookup.
AdmitLoaded(r, n) ==
    LET start == req[r].computed
    IN  /\ req[r].status = "WAITING" /\ start > 0
        /\ start + n <= req[r].tokens
        /\ RunIf(allocate_slots(kv, [Args(r, n) EXCEPT
                    !.num_lookahead = NumLookahead, !.full_sequence_must_fit = ReserveFull]),
                 r, start, start, start + n, 0)

\* A running request computes n more tokens, and drafts after the known ones once
\* the prompt is computed.
Compute(r, n, accepted) ==
    LET start == req[r].computed
        end == start + n
    IN  /\ req[r].status = "RUNNING" /\ req[r].tokens < Len(Tokens[r])
        /\ end <= Lesser(req[r].tokens + MaxDrafts, MaxModelLen - 1)
        /\ end > req[r].tokens => req[r].tokens > PromptLen[r] /\ start = req[r].tokens - 1
        /\ req[r].tokens + accepted < Len(Tokens[r])
        /\ accepted <= AtLeast0(end - req[r].tokens)
        /\ RunIf(allocate_slots(kv, [Args(r, n) EXCEPT !.num_lookahead = NumLookahead]),
                 r, start, start, end, accepted)

Preempt(r) ==
    /\ req[r].status = "RUNNING" /\ req[r].tokens < Len(Tokens[r])
    /\ kv' = free_request(kv, r)
    /\ req' = [req EXCEPT ![r].status = "WAITING", ![r].computed = 0, ![r].start = 0]
    /\ UNCHANGED store

\* A request stops or is aborted.  Its place is taken by a new request with the
\* same tokens.
Finish(r) ==
    /\ req[r].status # "FINISHED_ABORTED"
    /\ IF req[r].status = "WAITING_FOR_REMOTE_KVS" /\ ~req[r].received
       THEN /\ req' = [req EXCEPT ![r].status = "FINISHED_ABORTED"]
            /\ UNCHANGED kv
       ELSE /\ kv' = free_request(kv, r)
            /\ req' = [req EXCEPT ![r] = NewRequest(r)]
    /\ UNCHANGED store

-----------------------------------------------------------------------------
\* The worker reports that the blocks of a load from the i-th on are invalid:
\* the computed tokens end before them.  Only for models with one group.
LoadError(r, i) ==
    /\ req[r].status = "WAITING_FOR_REMOTE_KVS" /\ ~req[r].received
    /\ Len(GroupSpecs) = 1
    /\ i * BlockSize(1) \in req[r].local .. req[r].computed - 1
    /\ BlockAt(kv, 1, r, i * BlockSize(1)) # Null
    /\ req' = [req EXCEPT ![r].computed = i * BlockSize(1), ![r].failed = TRUE]
    /\ UNCHANGED <<kv, store>>

\* The worker reports the end of a load.
Received(r) ==
    /\ IF req[r].status = "FINISHED_ABORTED"
       THEN /\ kv' = free_request(kv, r)
            /\ req' = [req EXCEPT ![r] = NewRequest(r)]
       ELSE /\ req[r].status = "WAITING_FOR_REMOTE_KVS" /\ ~req[r].received
            /\ req' = [req EXCEPT ![r].received = TRUE]
            /\ UNCHANGED kv
    /\ store' = Written(kv, r, req[r].local, req[r].computed, req[r].computed)

\* Mutant: the request is promoted before its load has ended.
Promote_early(r) ==
    /\ req[r].status = "WAITING_FOR_REMOTE_KVS"
    /\ kv' = CacheBlocks(kv, r, req[r].computed)
    /\ req' = [req EXCEPT ![r].status = "WAITING", ![r].local = 0, ![r].failed = FALSE]
    /\ UNCHANGED store

\* A loaded request can be scheduled again: its blocks are cached.  When the
\* whole prompt was loaded its last token is computed again for its logits.
Promote(r) ==
    LET n == req[r].computed
        whole == ~req[r].failed /\ n = req[r].tokens
    IN  /\ req[r].status = "WAITING_FOR_REMOTE_KVS" /\ req[r].received
        /\ kv' = IF req[r].failed /\ n = 0 THEN free_request(kv, r) ELSE CacheBlocks(kv, r, n)
        /\ req' = [req EXCEPT ![r].status = "WAITING",
                              ![r].computed = IF whole THEN n - 1 ELSE n,
                              ![r].local = 0, ![r].received = FALSE, ![r].failed = FALSE]
        /\ UNCHANGED store

Reset ==
    /\ kv' = [kv EXCEPT !.pool = reset_prefix_cache(@)]
    /\ UNCHANGED <<store, req>>

Next ==
    \/ \E r \in Requests :
          \/ \E external \in 0 .. MaxExternal, n \in 1 .. MaxBatchedTokens : Admit(r, external, n)
          \/ \E external \in 1 .. MaxExternal : AdmitLoading(r, external)
          \/ \E n \in 1 .. MaxBatchedTokens : AdmitLoaded(r, n)
          \/ \E n \in 1 .. MaxBatchedTokens, accepted \in 0 .. MaxDrafts : Compute(r, n, accepted)
          \/ Preempt(r)
          \/ Finish(r)
          \/ \E i \in 0 .. MaxModelLen : LoadError(r, i)
          \/ Received(r)
          \/ Promote(r)
    \/ Reset

Spec == Init /\ [][Next]_vars

-----------------------------------------------------------------------------
(* Properties.                                                             *)

Hashes == UNION {{Hash(g, r, i) : i \in 1 .. Len(Tokens[r]) \div BlockSize(g)} :
                    <<g, r>> \in Groups \X Requests}

\* The types of the variables: num_computed_tokens never passes num_tokens, and
\* the lists of the pool only name blocks.
TypeOK ==
    /\ Range(kv.pool.free) \subseteq Blocks
    /\ kv.pool.ref \in [Blocks -> 0 .. Cardinality(Requests)]
    /\ DOMAIN kv.pool.cached \subseteq Hashes
    /\ \A g \in Groups, r \in Requests :
          /\ Range(kv.blocks[g][r]) \subseteq {Null} \cup Blocks
          /\ kv.ncached[g][r] \in Absent .. Len(kv.blocks[g][r])
    /\ \A r \in Requests : /\ req[r].status \in Statuses
                           /\ req[r].tokens \in PromptLen[r] .. Len(Tokens[r])
                           /\ req[r].computed \in 0 .. req[r].tokens

\* No assert and no ValueError of the block pool, the managers or allocate_slots
\* is reached.  In particular get_new_blocks never runs out of blocks: what
\* get_num_blocks_to_allocate predicts before the pool is touched is what
\* touching the hits and allocating really takes from the free queue.
NoException == ~kv.pool.err

\* The places where block b is held.
Holders(b) == {x \in Groups \X Requests \X (1 .. MaxModelLen) :
                  x[3] \in DOMAIN kv.blocks[x[1]][x[2]] /\ kv.blocks[x[1]][x[2]][x[3]] = b}

\* No block is leaked and none is used after it was freed: ref_cnt is the number
\* of block tables a block is in, and the blocks with count zero are exactly the
\* ones in the free queue, each of them once.
RefCountsExact ==
    /\ \A b \in Blocks : kv.pool.ref[b] = Cardinality(Holders(b))
    /\ Range(kv.pool.free) = {b \in Blocks : kv.pool.ref[b] = 0}
    /\ Len(kv.pool.free) = Cardinality(Range(kv.pool.free))

Ownership == INSTANCE BlockOwnership WITH
    avail <- Range(kv.pool.free),
    ref <- kv.pool.ref,
    holds <- [r \in Requests |-> UNION {Range(kv.blocks[g][r]) : g \in Groups} \ {Null}]

\* Every call of the KV cache manager, with all it trims, touches, allocates,
\* evicts and frees in several groups, is one step of BlockOwnership or leaves
\* the blocks alone.
ImplementsOwnership == Ownership!Spec

\* cached_block_hash_to_block and the block_hash fields agree: each block is
\* listed under its own hash, once, and nowhere else.
CacheIndexed ==
    \A b \in Blocks :
       LET keys == {h \in DOMAIN kv.pool.cached : Contains(kv.pool.cached[h], b)}
       IN  /\ keys = IF kv.pool.hash[b] = NoHash THEN {} ELSE {kv.pool.hash[b]}
           /\ \A h \in keys : Cardinality({i \in DOMAIN kv.pool.cached[h] :
                                              kv.pool.cached[h][i] = b}) = 1

\* The blocks cascade attention computes once for all the requests are the same
\* blocks, at the same place, in every block table of the group.
CommonPrefixShared ==
    \A g \in Groups, r \in Requests :
       req[r].status = "RUNNING" =>
          \A q \in Requests : kv.blocks[g][q] # <<>> =>
             IsPrefix(SubSeq(kv.blocks[g][r], 1, get_num_common_prefix_blocks(kv, g, r)),
                      kv.blocks[g][q])

\* The records of the block pool agree with the block tables and with each
\* other, whatever get_new_blocks, touch, free_blocks and cache_full_blocks did
\* on behalf of requests that share blocks, so that the counts can be used to
\* tell which blocks all of them have in common.
PoolExact == TypeOK /\ RefCountsExact /\ CacheIndexed /\ CommonPrefixShared

\* Whether block b holds the KV of the tokens of r around position i.
Holds(b, g, r, i) == b # Null /\ store[b][i % BlockSize(g)] = <<g, Prefix(r, i + 1)>>

\* A block in the prefix cache holds what its hash promises, even while it waits
\* in the free queue to be reused: a hit never reads another request's tokens,
\* a rejected draft or a block whose load has failed.
CacheHoldsItsPrefix ==
    \A h \in DOMAIN kv.pool.cached :
       LET g == h[1]
           n == Len(h[2])
       IN  \A j \in DOMAIN kv.pool.cached[h], i \in n - BlockSize(g) .. n - 1 :
              store[kv.pool.cached[h][j]][i % BlockSize(g)] = <<g, SubSeq(h[2], 1, i + 1)>>

\* The first position the attention of the token at position n covers.
AttendsFrom(g, n) ==
    CASE Kind(g) = "full" -> 0
      [] Kind(g) = "sliding" -> Max({0, n - (Window(g) - 1)})
      [] Kind(g) = "chunked" -> n - (n % Window(g))

\* The tokens the last step of r attended to are in its block table and hold the
\* KV of r.
ReadRight(r) ==
    \A g \in Groups :
       \A i \in AttendsFrom(g, req[r].start) .. req[r].computed - 1 :
          Holds(BlockAt(kv, g, r, i), g, r, i)

\* Whatever the other requests did since its last one, a step of a request reads
\* its own KV at every position its attention covers.
StepReadsValid ==
    [][\A r \in Requests : req'[r] # req[r] /\ req'[r].status = "RUNNING" => ReadRight(r)']_vars

\* The requests the scheduler looks up in the prefix cache.
LookedUp == {r \in Requests : req[r].status = "WAITING" /\ req[r].computed = 0}

\* "Touch the computed blocks to make sure they won't be evicted": when a request
\* is admitted, its cache hits are still cached afterwards.
HitsNotEvicted ==
    [][\A r \in LookedUp : req'[r].status # "WAITING" =>
          \A hit \in {get_computed_blocks(kv, r, req[r].tokens)}, g \in Groups :
             \A i \in DOMAIN hit.blocks[g] :
                kv'.blocks[g][r][i] # Null => kv'.pool.hash[hit.blocks[g][i]] = Hash(g, r, i)
      ]_vars

\* What find_longest_cache_hit returns can be used: the hits of every group
\* cover the same tokens, leave one token to compute, and hold all the tokens
\* the group's attention reads from there on.
HitUsable ==
    \A r \in LookedUp :
       \A hit \in {get_computed_blocks(kv, r, req[r].tokens)} :
          /\ hit.tokens < req[r].tokens
          /\ \A g \in Groups :
                /\ Len(hit.blocks[g]) * BlockSize(g) = hit.tokens
                /\ \A i \in AttendsFrom(g, hit.tokens) .. hit.tokens - 1 :
                      Holds(hit.blocks[g][i \div BlockSize(g) + 1], g, r, i)

\* The tokens of r whose blocks a step at position n would read are cached.
AllCached(r, n) ==
    \A g \in Groups :
       \A i \in AttendsFrom(g, n) .. n - 1 :
          Hash(g, r, i \div BlockSize(g) + 1) \in DOMAIN kv.pool.cached

\* find_longest_cache_hit finds the longest hit there is, for any mix of
\* attention types (without the block that eagle gives up).
HitLongest ==
    EagleGroups = {} /\ EnableCaching =>
       \A r \in LookedUp :
          get_computed_blocks(kv, r, req[r].tokens).tokens =
             Max({n \in 0 .. req[r].tokens - 1 : n % lcm_block_size = 0 /\ AllCached(r, n)})

\* The fixed point of the hybrid coordinator is a hit that every group can use,
\* and the longest one.
BestHit == HitUsable /\ HitLongest

\* "If a block hash is not in the cached_block_hash_to_id, the following block
\* hashes are not computed yet for sure" (FullAttentionManager): eviction never
\* leaves a hole in a chain of full-attention blocks.
PrefixClosed ==
    \A h \in DOMAIN kv.pool.cached :
       LET size == BlockSize(h[1])
       IN  Kind(h[1]) = "full" /\ Len(h[2]) > size =>
              <<h[1], SubSeq(h[2], 1, Len(h[2]) - size)>> \in DOMAIN kv.pool.cached

=============================================================================
