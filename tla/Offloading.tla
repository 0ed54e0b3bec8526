----------------------------- MODULE Offloading -----------------------------
(***************************************************************************)
(* The offloading connector, which keeps KV blocks in CPU memory: its      *)
(* scheduler side, the CPUOffloadingManager with the LRU policy, its       *)
(* worker side and the copies between GPU and CPU, which run beside the    *)
(* model.  The scheduler appears as far as the connector sees it: both     *)
(* loops of schedule(), update_from_output() and aborts.  One group with   *)
(* full attention; a GPU block holds one token and an offloaded block      *)
(* Factor of them, and the hash of a block is the prefix it ends.          *)
(***************************************************************************)
EXTENDS Integers, Sequences, FiniteSets, SequencesExt, FiniteSetsExt, Functions, TLC

CONSTANTS
    Requests,
    Tokens,             \* the prompt and the output of each request
    PromptLen,
    NumBlocks,          \* GPU blocks
    NumCpuBlocks,       \* num_blocks of the CPUOffloadingManager
    Factor,             \* block_size_factor
    Workers,
    Depth,              \* batches in flight
    TokenBudget,
    MaxAborts,
    AbortInFlight       \* whether requests in a batch in flight are aborted

ASSUME OffloadingAssumption ==
    /\ Factor \in Nat \ {0}
    /\ Depth \in Nat \ {0}
    /\ \A r \in Requests : PromptLen[r] \in 1 .. Len(Tokens[r]) - 1
    /\ \A r \in Requests : Len(Tokens[r]) <= NumBlocks + 1

VARIABLES
    req,            \* status, number of tokens, computed tokens and blocks
    running, waiting, skipped,
    recvd,          \* finished_recving_kv_req_ids
    finished,       \* whether finished_req_ids has members
    pool,           \* the free queue, and block_hash of every block
    step,           \* the locals of schedule()
    conn,           \* OffloadingConnectorScheduler, with its manager
    inflight,       \* batches, the oldest first, with the replies of the workers
    worker,         \* OffloadingConnectorWorker, the copies and both memories
    aborts

vars == <<req, running, waiting, skipped, recvd, finished, pool, step, conn,
          inflight, worker, aborts>>

None == -1

Nil == [none |-> TRUE]

Prefix(r, i) == SubSeq(Tokens[r], 1, i)

cdiv(a, b) == (a + b - 1) \div b

Blocks == 1 .. NumBlocks

-----------------------------------------------------------------------------
(* CPUOffloadingManager and LRUCachePolicy, on a record m: order and blk   *)
(* are the OrderedDict, announced is what the events of the manager say,   *)
(* and error a failed assertion.                                           *)

EmptyManager == [order |-> <<>>, blk |-> <<>>, free_list |-> <<>>, allocated |-> 0,
                 announced |-> {}, error |-> FALSE]

lookup(m, k) ==
    IF k \notin DOMAIN m.blk THEN "miss"
    ELSE IF m.blk[k].ref_cnt >= 0 THEN "hit" ELSE "retry"

\* From the last key to the first: the first one becomes the most recent.
touch(m, keys) ==
    [m EXCEPT !.order = SelectSeq(@, LAMBDA k : k \notin Range(keys))
                        \o Reverse(SelectSeq(keys, LAMBDA k : k \in DOMAIN m.blk))]

AddRef(m, keys, d) ==
    [m EXCEPT !.blk = [k \in DOMAIN @ |->
        IF k \in Range(keys) THEN [@[k] EXCEPT !.ref_cnt = @ + d] ELSE @[k]]]

prepare_load(m, keys) ==
    [AddRef(m, keys, 1) EXCEPT !.error = @ \/ \E k \in Range(keys) : lookup(m, k) # "hit"]

complete_load(m, keys) ==
    [AddRef(m, keys, -1) EXCEPT
        !.error = @ \/ \E k \in Range(keys) : k \notin DOMAIN m.blk \/ m.blk[k].ref_cnt <= 0]

\* Mutant: blocks that are being read or written can be evicted.
Evictable_inUse(m, protected) ==
    SelectSeq(m.order, LAMBDA k : k \notin protected)

Evictable(m, protected) ==
    SelectSeq(m.order, LAMBDA k : m.blk[k].ref_cnt = 0 /\ k \notin protected)

evict(m, keys) ==
    [m EXCEPT !.order = SelectSeq(@, LAMBDA k : k \notin Range(keys)),
              !.blk = Restrict(@, DOMAIN @ \ Range(keys)),
              !.free_list = @ \o [i \in 1 .. Len(keys) |-> m.blk[keys[i]].block_id],
              !.announced = @ \ Range(keys)]

\* Blocks that were never used come first, then the last ones freed.
_allocate_blocks(m, n) ==
    LET fresh == Min({n, NumCpuBlocks - m.allocated})
        kept  == Len(m.free_list) - (n - fresh)
    IN  [ids |-> [i \in 1 .. fresh |-> m.allocated + i - 1]
                 \o Reverse(SubSeq(m.free_list, kept + 1, Len(m.free_list))),
         m   |-> [m EXCEPT !.allocated = @ + fresh, !.free_list = SubSeq(@, 1, kept)]]

insert(m, keys, ids) ==
    [m EXCEPT !.order = @ \o keys,
              !.blk = [k \in Range(keys) |->
                          [ref_cnt |-> -1, block_id |-> ids[CHOOSE i \in DOMAIN keys : keys[i] = k]]]
                      @@ @]

\* The result of prepare_store; ok is FALSE where the code returns None.
prepare_store(m, keys) ==
    LET new    == SelectSeq(keys, LAMBDA k : k \notin DOMAIN m.blk)
        excess == Max({0, Len(new) - (Len(m.free_list) + NumCpuBlocks - m.allocated)})
        victims == Evictable(m, Range(keys))
        a      == _allocate_blocks(evict(m, SubSeq(victims, 1, excess)), Len(new))
    IN  IF Len(victims) < excess THEN [ok |-> FALSE, m |-> m, keys |-> <<>>, ids |-> <<>>]
        ELSE [ok |-> TRUE, m |-> insert(a.m, new, a.ids), keys |-> new, ids |-> a.ids]

\* Mutant: the blocks of a store that has ended are not made ready.
complete_store_notReady(m, keys) ==
    [m EXCEPT !.announced = @ \cup {k \in Range(keys) : lookup(m, k) = "retry"}]

complete_store(m, keys) ==
    LET stored == {k \in Range(keys) : lookup(m, k) = "retry"}
    IN  [m EXCEPT !.blk = [k \in DOMAIN @ |->
                              IF k \in stored THEN [@[k] EXCEPT !.ref_cnt = 0] ELSE @[k]],
                  !.announced = @ \cup stored]

-----------------------------------------------------------------------------
(* The scheduler side of the connector, on a record c.  known, next and    *)
(* ids are _req_status with next_stored_block_idx and block_ids, jobs is   *)
(* _jobs with the transfer specs, watched is _block_id_to_pending_jobs,    *)
(* loading is _blocks_being_loaded; loads, stores and flush belong to the  *)
(* batch that is being scheduled.                                          *)

EmptyConnector == [known |-> {}, next |-> [r \in Requests |-> 0],
                   ids |-> [r \in Requests |-> <<>>], jobs |-> <<>>, watched |-> {},
                   loading |-> {}, loads |-> <<>>, stores |-> <<>>, flush |-> {}, m |-> EmptyManager,
                   error |-> FALSE]

\* update_offload_keys: one key for each full offloaded block of n tokens.
offload_keys(r, n) == [i \in 1 .. n \div Factor |-> Prefix(r, i * Factor)]

transfer_jobs(c, r) == {j \in DOMAIN c.jobs : c.jobs[j].req = r}

WatchedBy(c, blocks) == {j \in DOMAIN c.jobs : \E b \in Range(blocks) : <<b, j>> \in c.watched}

\* An id that nothing refers to: ids are only compared with each other.
_generate_job_id(c) ==
    LET used == DOMAIN c.jobs \cup c.flush \cup UNION {inflight[i].flush : i \in DOMAIN inflight}
    IN  Min(0 .. Cardinality(used) \ used)

_maximal_prefix_lookup(m, keys) ==
    LET misses == {i \in DOMAIN keys : lookup(m, keys[i]) = "miss"}
        hits   == Min({Len(keys)} \cup {i - 1 : i \in misses})
    IN  IF \E i \in 1 .. hits : lookup(m, keys[i]) = "retry" THEN None ELSE hits

\* The number of tokens after the first n that can be loaded.
_lookup(c, r, n) ==
    LET keys  == offload_keys(r, req[r].tokens)
        start == n \div Factor
        hits  == _maximal_prefix_lookup(c.m, SubSeq(keys, start + 1, Len(keys)))
        size  == Factor * (start + hits) - n
    IN  IF Len(keys) * Factor - n < Factor THEN 0
        ELSE IF hits = None THEN None
        ELSE IF hits = 0 \/ size < Factor THEN 0
        ELSE IF \E i \in start + 1 .. start + hits : keys[i] \in c.loading THEN None
        ELSE size

get_num_new_matched_tokens(c, r) ==
    [c EXCEPT !.known = @ \cup {r}, !.ids[r] = <<>>,
              !.m = touch(@, offload_keys(r, req[r].tokens))]

\* A load of ext tokens after the n that the GPU has.
update_state_after_alloc(c, r, p, blocks, n, ext) ==
    LET total == n + ext
        local == Min({total} \cup {i - 1 : i \in {i \in 1 .. total : p.hash[blocks[i]] = <<>>}})
        all   == offload_keys(r, req[r].tokens)
        keys  == SubSeq(all, local \div Factor + 1, cdiv(total, Factor))
        dst   == SubSeq(blocks, local + 1, total)
        j     == _generate_job_id(c)
    IN  IF ext = 0 THEN c
        ELSE [c EXCEPT
                !.next[r] = cdiv(total, Factor),
                !.flush   = @ \cup WatchedBy(c, dst),
                !.m       = prepare_load(@, keys),
                !.loads   = Append(@, j),
                !.jobs    = (j :> [req |-> r, store |-> FALSE, left |-> Cardinality(Workers),
                                   keys |-> keys, gpu |-> dst, skip |-> local % Factor,
                                   cpu |-> [i \in 1 .. Len(keys) |-> c.m.blk[keys[i]].block_id]]) @@ @,
                !.loading = @ \cup Range(keys),
                !.error   = @ \/ local < n \/ Len(all) < cdiv(total, Factor)
                              \/ transfer_jobs(c, r) # {}]

\* One round of _build_store_jobs: e is what the batch does for a request.
_build_store_job(c, e) ==
    LET r     == e.req
        ids   == IF e.kind = "resumed" THEN e.new ELSE c.ids[r] \o e.new
        n     == Min({e.start + e.n, req[r].tokens}) \div Factor
        keys  == SubSeq(offload_keys(r, req[r].tokens), c.next[r] + 1, n)
        s     == prepare_store(c.m, keys)
        src   == FlattenSeq([i \in 1 .. Len(s.keys) |->
                     SubSeq(ids, Len(s.keys[i]) - Factor + 1, Len(s.keys[i]))])
        j     == _generate_job_id(c)
        seen  == [c EXCEPT !.ids[r] = ids, !.flush = @ \cup WatchedBy(c, e.new),
                           !.error = @ \/ r \notin c.known \/ (keys # <<>> /\ Len(ids) < n * Factor)]
    IN  IF keys = <<>> THEN [seen EXCEPT !.next[r] = n]
        ELSE IF ~s.ok \/ seen.error THEN seen
        ELSE IF s.keys = <<>> THEN [seen EXCEPT !.next[r] = n]
        ELSE [seen EXCEPT
                !.next[r] = n,
                !.m       = touch(s.m, offload_keys(r, req[r].tokens)),
                !.stores  = Append(@, j),
                !.jobs    = (j :> [req |-> r, store |-> TRUE, left |-> Cardinality(Workers),
                                   keys |-> s.keys, gpu |-> src, skip |-> 0, cpu |-> s.ids]) @@ @,
                !.error   = @ \/ \E i \in transfer_jobs(c, r) : ~c.jobs[i].store]

\* Mutant: the stores of preempted requests are not flushed.
build_connector_meta_noFlush(c, entries, preempted) ==
    LET c2 == FoldLeft(_build_store_job, c, entries)
    IN  [c    |-> [c2 EXCEPT !.loads = <<>>, !.stores = <<>>, !.flush = {}],
         meta |-> [loads |-> c2.loads, stores |-> c2.stores, flush |-> c2.flush]]

\* build_connector_meta for a batch that preempts the given requests.
build_connector_meta(c, entries, preempted) ==
    LET jobs == UNION {transfer_jobs(c, r) : r \in preempted}
        c1   == [c EXCEPT !.flush = @ \cup jobs,
                          !.error = @ \/ \E j \in jobs : ~c.jobs[j].store]
        c2   == FoldLeft(_build_store_job, c1, entries)
    IN  [c    |-> [c2 EXCEPT !.loads = <<>>, !.stores = <<>>, !.flush = {}],
         meta |-> [loads |-> c2.loads, stores |-> c2.stores, flush |-> c2.flush]]

request_finished(c, r) ==
    LET jobs == transfer_jobs(c, r)
    IN  IF jobs = {} THEN [c EXCEPT !.known = @ \ {r}, !.next[r] = 0, !.ids[r] = <<>>]
        ELSE [c EXCEPT !.watched = @ \cup UNION {Range(c.jobs[j].gpu) \X {j} :
                                                  j \in {j \in jobs : c.jobs[j].store}}]

\* One round of update_connector_output: n workers have completed job j.
CompleteJob(c, j, n, isFinished) ==
    LET job  == c.jobs[j]
        mine == Range(job.gpu) \X {j}
        last == transfer_jobs(c, job.req) = {j} /\ isFinished
        left == [c EXCEPT !.jobs[j].left = @ - n]
        done == [c EXCEPT
                   !.m       = IF job.store THEN complete_store(@, job.keys)
                                            ELSE complete_load(@, job.keys),
                   !.loading = IF job.store THEN @ ELSE @ \ Range(job.keys),
                   !.watched = IF isFinished /\ job.store THEN @ \ mine ELSE @,
                   !.jobs    = Restrict(@, DOMAIN @ \ {j}),
                   !.known   = IF last THEN @ \ {job.req} ELSE @,
                   !.next[job.req] = IF last THEN 0 ELSE @,
                   !.ids[job.req]  = IF last THEN <<>> ELSE @,
                   !.error   = \/ @
                               \/ job.req \notin c.known
                               \/ isFinished /\ job.store /\ c.watched # {} /\ ~ mine \subseteq c.watched]
    IN  IF job.left - n > 0 THEN left ELSE done

-----------------------------------------------------------------------------
(* The KV cache manager, as far as this module needs it: a free queue and  *)
(* the hash of every block.                                                *)

Held(q, b) == \E s \in Requests : b \in Range(q[s].blocks)

\* The longest prefix that the GPU has; the last token is computed anyway.
CachedPrefix(r) ==
    LET cached(i) == \E b \in Blocks : pool.hash[b] = Prefix(r, i)
        n == Max({n \in 0 .. req[r].tokens - 1 : \A i \in 1 .. n : cached(i)})
    IN  [i \in 1 .. n |-> CHOOSE b \in Blocks : pool.hash[b] = Prefix(r, i)]

\* allocate_slots for n tokens in all, of which the GPU has the given blocks;
\* all is the number of tokens for which there must be room.
CanAllocate(have, n, all) ==
    Max({n, all}) - Len(have) <= Len(pool.free) - Cardinality(Range(have) \cap Range(pool.free))

Take(have, n) ==
    LET free == SelectSeq(pool.free, LAMBDA b : b \notin Range(have))
    IN  have \o SubSeq(free, 1, n - Len(have))

Taken(p, blocks, have) ==
    [free |-> SelectSeq(p.free, LAMBDA b : b \notin Range(blocks)),
     hash |-> [b \in Blocks |-> IF b \in Range(blocks) \ Range(have) THEN <<>> ELSE p.hash[b]]]

cache_blocks(p, r, blocks, n) ==
    [p EXCEPT !.hash = [b \in Blocks |->
        IF \E i \in 1 .. n : blocks[i] = b THEN Prefix(r, CHOOSE i \in 1 .. n : blocks[i] = b)
        ELSE @[b]]]

\* q is req after the request has given up its blocks.
Freed(p, q, blocks) ==
    [p EXCEPT !.free = @ \o Reverse(SelectSeq(blocks, LAMBDA b : ~Held(q, b)))]

-----------------------------------------------------------------------------
(* schedule().  A step visits the running requests, then the waiting ones, *)
(* and ends with build_connector_meta and the batch.                       *)

Active(r) == req[r].status \in {"waiting", "loading", "running", "preempted"}

Without(q, r) == SelectSeq(q, LAMBDA x : x # r)

schedule ==
    /\ step = Nil
    /\ Len(inflight) < Depth
    /\ finished \/ \E r \in Requests : Active(r)
    /\ step' = [todo |-> SelectSeq(running, LAMBDA r : req[r].computed < req[r].tokens),
                budget |-> TokenBudget, entries |-> <<>>, preempted |-> {},
                skip |-> <<>>, stop |-> FALSE]
    /\ UNCHANGED <<req, running, waiting, skipped, recvd, finished, pool, conn,
                   inflight, worker, aborts>>

Entry(r, kind, new, n, start) ==
    [req |-> r, kind |-> kind, new |-> new, n |-> n, start |-> start,
     samples |-> start + n = req[r].tokens]

_preempt_request(r) ==
    LET q == [req EXCEPT ![r] = [@ EXCEPT !.status = "preempted", !.preempted = TRUE,
                                          !.computed = 0, !.blocks = <<>>]]
    IN  /\ req' = q
        /\ pool' = Freed(pool, q, req[r].blocks)
        /\ running' = Without(running, r)
        /\ waiting' = <<r>> \o waiting

\* One round of the first loop.
ScheduleRunning ==
    /\ step # Nil
    /\ step.todo # <<>>
    /\ step.budget > 0
    /\ LET r   == Head(step.todo)
           n   == Min({req[r].tokens - req[r].computed, step.budget})
           old == req[r].blocks
           end == req[r].computed + n
           new == Take(old, Max({end, Len(old)}))
       IN  \/ /\ CanAllocate(old, end, end)
              /\ req' = [req EXCEPT ![r].blocks = new]
              /\ pool' = cache_blocks(Taken(pool, new, old), r, new, end)
              /\ step' = [step EXCEPT !.todo = Tail(@), !.budget = @ - n,
                            !.entries = Append(@, Entry(r, "running",
                                SubSeq(new, Len(old) + 1, Len(new)), n, req[r].computed))]
              /\ UNCHANGED <<running, waiting>>
           \/ /\ ~CanAllocate(old, end, end)
              /\ _preempt_request(Last(running))
              /\ step' = [step EXCEPT !.todo = IF Last(running) = r THEN <<>> ELSE Without(@, Last(running)),
                                      !.preempted = @ \cup {Last(running)}]
    /\ UNCHANGED <<skipped, recvd, finished, conn, inflight, worker, aborts>>

\* The head of the queues, as the second loop sees it: a request whose load has
\* ended gets its blocks cached, and computes the last token once more.
Promoted(r) == req[r].status = "loading" /\ r \in recvd

PopWaiting(r) ==
    /\ skipped' = Without(skipped, r)
    /\ waiting' = Without(waiting, r)

Skip(r) == step' = [step EXCEPT !.skip = Append(@, r)]

\* One round of the second loop.
ScheduleWaiting ==
    /\ step # Nil
    /\ step.todo = <<>> \/ step.budget = 0
    /\ ~step.stop /\ step.preempted = {} /\ step.budget > 0
    /\ skipped \o waiting # <<>>
    /\ LET r      == Head(skipped \o waiting)
           start  == Min({req[r].computed, req[r].tokens - 1})
           hits   == CachedPrefix(r)
           ext    == _lookup(conn, r, Len(hits))
           c      == get_num_new_matched_tokens(conn, r)
           asked  == req[r].computed = 0
           had    == IF asked THEN hits ELSE req[r].blocks
           from   == IF asked THEN Len(hits) ELSE start
           n      == Min({req[r].tokens - from, step.budget})
           kind   == IF req[r].preempted THEN "resumed" ELSE "new"
           p      == IF Promoted(r) THEN cache_blocks(pool, r, req[r].blocks, req[r].computed) ELSE pool
       IN  \/ /\ req[r].status = "loading" /\ r \notin recvd
              /\ PopWaiting(r) /\ Skip(r)
              /\ UNCHANGED <<req, running, recvd, pool, conn>>
           \/ /\ asked /\ ext = None
              /\ conn' = c
              /\ PopWaiting(r) /\ Skip(r)
              /\ UNCHANGED <<req, running, recvd, pool>>
           \/ /\ asked /\ ext > 0
              /\ \/ /\ CanAllocate(hits, Len(hits) + ext, req[r].tokens)
                    /\ LET blocks == Take(hits, Len(hits) + ext)
                       IN  /\ pool' = Taken(pool, blocks, hits)
                           /\ conn' = update_state_after_alloc(c, r, pool', blocks, Len(hits), ext)
                           /\ req' = [req EXCEPT ![r] = [@ EXCEPT !.status = "loading",
                                        !.computed = Len(hits) + ext, !.blocks = blocks]]
                    /\ PopWaiting(r) /\ Skip(r)
                 \/ /\ ~CanAllocate(hits, Len(hits) + ext, req[r].tokens)
                    /\ conn' = c
                    /\ step' = [step EXCEPT !.stop = TRUE]
                    /\ UNCHANGED <<req, waiting, skipped, pool>>
              /\ UNCHANGED <<running, recvd>>
           \/ /\ asked => ext = 0
              /\ req[r].status = "loading" => r \in recvd
              /\ recvd' = recvd \ {r}
              /\ conn' = IF asked THEN c ELSE conn
              /\ \/ /\ CanAllocate(had, from + n, req[r].tokens)
                    /\ LET blocks == Take(had, Max({from + n, Len(had)}))
                       IN  /\ pool' = cache_blocks(Taken(p, blocks, had), r, blocks, from + n)
                           /\ req' = [req EXCEPT ![r] = [@ EXCEPT !.status = "running",
                                        !.computed = from, !.blocks = blocks]]
                           /\ step' = [step EXCEPT !.budget = @ - n,
                                         !.entries = Append(@, Entry(r, kind, blocks, n, from))]
                    /\ running' = Append(running, r)
                    /\ PopWaiting(r)
                 \/ /\ ~CanAllocate(had, from + n, req[r].tokens)
                    /\ pool' = p
                    /\ req' = IF Promoted(r)
                              THEN [req EXCEPT ![r] = [@ EXCEPT !.computed = start,
                                      !.status = IF req[r].preempted THEN "preempted" ELSE "waiting"]]
                              ELSE req
                    /\ step' = [step EXCEPT !.stop = TRUE]
                    /\ UNCHANGED <<running, waiting, skipped>>
    /\ UNCHANGED <<finished, inflight, worker, aborts>>

OfKind(entries, kind) == SelectSeq(entries, LAMBDA e : e.kind = kind)

\* The end of schedule(): new requests come before the running and the resumed
\* ones, and what is scheduled counts as computed.
Dispatch ==
    /\ step # Nil
    /\ step.todo = <<>> \/ step.budget = 0
    /\ step.stop \/ step.preempted # {} \/ step.budget = 0 \/ skipped \o waiting = <<>>
    /\ LET sorted == OfKind(step.entries, "new") \o OfKind(step.entries, "running")
                     \o OfKind(step.entries, "resumed")
           b      == build_connector_meta(conn, sorted, step.preempted)
           Work(e) == [req |-> e.req, start |-> e.start, samples |-> e.samples,
                       blocks |-> SubSeq(req[e.req].blocks, 1, e.start + e.n)]
       IN  /\ conn' = b.c
           /\ inflight' = Append(inflight, b.meta @@
                  [work    |-> [i \in DOMAIN sorted |-> Work(sorted[i])],
                   replies |-> [w \in Workers |-> Nil],
                   forward |-> [w \in Workers |-> "queued"]])
           /\ req' = [r \in Requests |->
                  IF \E i \in DOMAIN sorted : sorted[i].req = r
                  THEN [req[r] EXCEPT !.computed = @ + sorted[CHOOSE i \in DOMAIN sorted : sorted[i].req = r].n]
                  ELSE req[r]]
    /\ skipped' = step.skip \o skipped
    /\ finished' = FALSE
    /\ step' = Nil
    /\ UNCHANGED <<running, waiting, recvd, pool, worker, aborts>>

-----------------------------------------------------------------------------
(* The workers.  stores and loads are the transfers of the two handlers    *)
(* that get_finished() has not yet returned; behind counts the forward     *)
(* passes that the stream of a store waits for, and fired is its event.    *)

Unanswered(w) == {i \in DOMAIN inflight : inflight[i].replies[w] = Nil}

Current(w) == Min(Unanswered(w))

Launched(w) == {i \in DOMAIN inflight : inflight[i].forward[w] = "launched"}

Submit(jobs, behind) ==
    [i \in DOMAIN jobs |-> [job |-> jobs[i], behind |-> behind, fired |-> FALSE]]

EngineUnchanged ==
    UNCHANGED <<req, running, waiting, skipped, recvd, finished, pool, step, conn, aborts>>

\* The stores of earlier batches start before the worker waits for any.
handle_preemptions(w) ==
    /\ worker[w].pc = "idle"
    /\ Unanswered(w) # {}
    /\ worker' = [worker EXCEPT ![w] = [@ EXCEPT
            !.pc = "flush", !.unsubmitted = <<>>,
            !.stores = @ \o Submit(worker[w].unsubmitted, Cardinality(Launched(w)))]]
    /\ UNCHANGED inflight
    /\ EngineUnchanged

\* After the flush, start_kv_transfers, and the forward pass if there is work.
start_kv_transfers(w) ==
    /\ worker[w].pc = "flush"
    /\ LET b == inflight[Current(w)]
       IN  /\ \A t \in Range(worker[w].stores \o worker[w].loads) : t.job \in b.flush => t.fired
           /\ worker' = [worker EXCEPT ![w] = [@ EXCEPT
                  !.pc = "forward", !.loads = @ \o Submit(b.loads, 0)]]
           /\ inflight' = [inflight EXCEPT ![Current(w)].forward[w] =
                              IF b.work = <<>> THEN "computed" ELSE "launched"]
    /\ EngineUnchanged

Unfired(transfers) == SelectSeq(transfers, LAMBDA t : ~t.fired)

FiredFirst(transfers) ==
    SubSeq(transfers, 1, Min({Len(transfers)} \cup {i - 1 : i \in {i \in DOMAIN transfers : ~transfers[i].fired}}))

From(transfers, n) == SubSeq(transfers, n + 1, Len(transfers))

\* prepare_store_kv, then get_finished and the reply.
get_finished(w) ==
    /\ worker[w].pc = "forward"
    /\ LET s == FiredFirst(worker[w].stores)
           l == FiredFirst(worker[w].loads)
       IN  /\ worker' = [worker EXCEPT ![w] = [@ EXCEPT
                  !.pc = "idle", !.unsubmitted = @ \o inflight[Current(w)].stores,
                  !.stores = From(@, Len(s)), !.loads = From(@, Len(l))]]
           /\ inflight' = [inflight EXCEPT ![Current(w)].replies[w] =
                              [jobs |-> {t.job : t \in Range(s \o l)}]]
    /\ EngineUnchanged

\* The GPU memory after the forward pass of a batch.
Computed(gpu, work) ==
    LET places == {x \in (1 .. Len(work)) \X Blocks :
                     x[2] \in work[x[1]].start + 1 .. Len(work[x[1]].blocks)}
        at(b)  == {x \in places : work[x[1]].blocks[x[2]] = b}
    IN  [b \in Blocks |-> IF at(b) = {} THEN gpu[b]
                          ELSE LET x == CHOOSE x \in at(b) : TRUE IN Prefix(work[x[1]].req, x[2])]

Forward(w) ==
    /\ Launched(w) # {}
    /\ LET i == Min(Launched(w))
       IN  /\ worker' = [worker EXCEPT ![w] = [@ EXCEPT
                  !.gpu = Computed(@, inflight[i].work),
                  !.stores = [t \in DOMAIN @ |-> [@[t] EXCEPT !.behind = Max({0, @ - 1})]]]]
           /\ inflight' = [inflight EXCEPT ![i].forward[w] = "computed"]
    /\ EngineUnchanged

Fire(transfers) ==
    LET i == Min({i \in DOMAIN transfers : ~transfers[i].fired})
    IN  [transfers EXCEPT ![i].fired = TRUE]

\* The copy of a store: it waits for the forward passes before it.
CopyOut(w) ==
    /\ Unfired(worker[w].stores) # <<>>
    /\ Head(Unfired(worker[w].stores)).behind = 0
    /\ LET job == conn.jobs[Head(Unfired(worker[w].stores)).job]
       IN  worker' = [worker EXCEPT ![w] = [@ EXCEPT
               !.stores = Fire(@),
               !.cpu = [q \in Range(job.cpu) |->
                           LET i == CHOOSE i \in DOMAIN job.cpu : job.cpu[i] = q
                           IN  [x \in 1 .. Factor |-> worker[w].gpu[job.gpu[(i - 1) * Factor + x]]]] @@ @]]
    /\ UNCHANGED inflight
    /\ EngineUnchanged

\* The copy of a load: it waits for no forward pass.
CopyIn(w) ==
    /\ Unfired(worker[w].loads) # <<>>
    /\ LET job == conn.jobs[Head(Unfired(worker[w].loads)).job]
       IN  worker' = [worker EXCEPT ![w] = [@ EXCEPT
               !.loads = Fire(@),
               !.gpu = [b \in Range(job.gpu) |->
                           LET n == job.skip + (CHOOSE i \in DOMAIN job.gpu : job.gpu[i] = b) - 1
                           IN  worker[w].cpu[job.cpu[n \div Factor + 1]][(n % Factor) + 1]] @@ @]]
    /\ UNCHANGED inflight
    /\ EngineUnchanged

-----------------------------------------------------------------------------
(* update_from_output() and aborts.  s holds req, the queues, pool and     *)
(* conn while results are applied.                                         *)

_free_blocks(s, r) ==
    LET q == [s.req EXCEPT ![r].blocks = <<>>]
    IN  [s EXCEPT !.req = q, !.pool = Freed(@, q, s.req[r].blocks)]

\* _free_request, after the status is set; a load keeps its blocks to its end.
_free_request(s, r, delay) ==
    LET t == [s EXCEPT !.req[r].status = "finished", !.conn = request_finished(@, r),
                       !.running = Without(@, r), !.waiting = Without(@, r)]
    IN  IF delay THEN t ELSE _free_blocks(t, r)

\* The sampled token of a request that still wants it.
ApplyResult(s, e) ==
    LET n == s.req[e.req].tokens + 1
        t == [s EXCEPT !.req[e.req].tokens = n]
    IN  IF s.req[e.req].status = "finished" \/ ~e.samples THEN s
        ELSE IF n = Len(Tokens[e.req]) THEN _free_request(t, e.req, FALSE) ELSE t

\* Mutant: the first worker that has loaded its part lets the request go on.
ApplyJob_firstWorker(s, j, n) ==
    LET job  == s.conn.jobs[j]
        over == s.req[job.req].status = "finished"
        t    == [s EXCEPT !.conn = CompleteJob(@, j, n, over)]
    IN  IF job.store THEN t
        ELSE IF over THEN _free_blocks(t, job.req)
        ELSE [t EXCEPT !.recvd = @ \cup {job.req}]

\* A job that all workers have completed; the request of a load may go on.
ApplyJob(s, j, n) ==
    LET job  == s.conn.jobs[j]
        over == s.req[job.req].status = "finished"
        t    == [s EXCEPT !.conn = CompleteJob(@, j, n, over)]
    IN  IF job.store \/ job.left > n THEN t
        ELSE IF over THEN _free_blocks(t, job.req)
        ELSE [t EXCEPT !.recvd = @ \cup {job.req},
                       !.conn.error = @ \/ s.req[job.req].status # "loading"]

Answered(b) == \A w \in Workers : b.replies[w] # Nil /\ b.forward[w] = "computed"

update_from_output ==
    /\ step = Nil
    /\ inflight # <<>>
    /\ Answered(Head(inflight))
    /\ LET b     == Head(inflight)
           s0    == [req |-> req, running |-> running, waiting |-> waiting, recvd |-> recvd,
                     pool |-> pool, conn |-> conn]
           s1    == FoldLeft(ApplyResult, s0, b.work)
           count(j) == Cardinality({w \in Workers : j \in b.replies[w].jobs})
           s2    == FoldLeft(LAMBDA s, j : ApplyJob(s, j, count(j)), s1,
                             SetToSortSeq(UNION {b.replies[w].jobs : w \in Workers}, <))
       IN  /\ req' = s2.req /\ running' = s2.running /\ waiting' = s2.waiting
           /\ recvd' = s2.recvd /\ pool' = s2.pool /\ conn' = s2.conn
           /\ finished' = (finished \/ \E r \in Requests : s2.req[r].status # req[r].status)
    /\ inflight' = Tail(inflight)
    /\ UNCHANGED <<skipped, step, worker, aborts>>

\* finish_requests for an abort: a request that is loading keeps its blocks.
finish_requests(r) ==
    /\ step = Nil
    /\ aborts < MaxAborts
    /\ Active(r)
    /\ AbortInFlight \/ r \notin {e.req : e \in UNION {Range(inflight[i].work) : i \in DOMAIN inflight}}
    /\ LET s == _free_request([req |-> req, running |-> running, waiting |-> waiting,
                               pool |-> pool, conn |-> conn], r,
                              req[r].status = "loading" /\ r \notin recvd)
       IN  /\ req' = s.req /\ running' = s.running /\ waiting' = s.waiting
           /\ pool' = s.pool /\ conn' = s.conn
    /\ skipped' = Without(skipped, r)
    /\ recvd' = recvd \ {r}
    /\ finished' = TRUE
    /\ aborts' = aborts + 1
    /\ UNCHANGED <<step, inflight, worker>>

\* Requests arrive at any time.
add_request(r) ==
    /\ step = Nil
    /\ req[r].status = "none"
    /\ req' = [req EXCEPT ![r].status = "waiting"]
    /\ waiting' = Append(waiting, r)
    /\ UNCHANGED <<running, skipped, recvd, finished, pool, step, conn, inflight, worker, aborts>>

-----------------------------------------------------------------------------
Init ==
    /\ req = [r \in Requests |-> [status |-> "none", tokens |-> PromptLen[r], computed |-> 0,
                                  blocks |-> <<>>, preempted |-> FALSE]]
    /\ running = <<>> /\ waiting = <<>> /\ skipped = <<>>
    /\ recvd = {} /\ finished = FALSE
    /\ pool = [free |-> [i \in Blocks |-> i], hash |-> [b \in Blocks |-> <<>>]]
    /\ step = Nil
    /\ conn = EmptyConnector
    /\ inflight = <<>>
    /\ worker = [w \in Workers |->
          [pc |-> "idle", unsubmitted |-> <<>>, stores |-> <<>>, loads |-> <<>>,
           gpu |-> [b \in Blocks |-> <<>>],
           cpu |-> [q \in 0 .. NumCpuBlocks - 1 |-> [x \in 1 .. Factor |-> <<>>]]]]
    /\ aborts = 0

WorkerStep(w) ==
    handle_preemptions(w) \/ start_kv_transfers(w) \/ get_finished(w)

Device(w) == Forward(w) \/ CopyOut(w) \/ CopyIn(w)

Engine == schedule \/ ScheduleRunning \/ ScheduleWaiting \/ Dispatch \/ update_from_output

Next ==
    \/ Engine
    \/ \E w \in Workers : WorkerStep(w) \/ Device(w)
    \/ \E r \in Requests : add_request(r) \/ finish_requests(r)

\* When a step of the engine is possible: one that has begun can go on.
EngineReady ==
    \/ step # Nil
    \/ Len(inflight) < Depth /\ (finished \/ \E r \in Requests : Active(r))
    \/ inflight # <<>> /\ Answered(Head(inflight))

\* Weak fairness of the engine, with its guard in place of ENABLED.
Fairness ==
    /\ []<>~EngineReady \/ []<><<Engine>>_vars
    /\ WF_vars(\E w \in Workers : WorkerStep(w))
    /\ WF_vars(\E w \in Workers : Device(w))

Spec == Init /\ [][Next]_vars /\ Fairness

-----------------------------------------------------------------------------
(* Properties.                                                             *)

\* The types of the variables, and the bounds of the counters and queues.
TypeOK ==
    /\ \A r \in Requests :
          /\ req[r].status \in {"none", "waiting", "loading", "running", "preempted", "finished"}
          /\ req[r].tokens \in PromptLen[r] .. Len(Tokens[r])
          /\ req[r].computed \in 0 .. req[r].tokens
          /\ Range(req[r].blocks) \subseteq Blocks
    /\ recvd \subseteq Requests
    /\ finished \in BOOLEAN
    /\ Len(inflight) <= Depth
    /\ \A w \in Workers : worker[w].pc \in {"idle", "flush", "forward"}
    /\ aborts \in 0 .. MaxAborts

\* An offloaded block that a lookup may return holds the KV data of its key on
\* every worker: the copy of a store is never made from a GPU block that has
\* been given to another request meanwhile (jobs_to_flush), nor into a block
\* that is in use (ref_cnt).
OffloadedIsRight ==
    \A k \in DOMAIN conn.m.blk : conn.m.blk[k].ref_cnt >= 0 =>
        \A w \in Workers : \A x \in 1 .. Factor :
            worker[w].cpu[conn.m.blk[k].block_id][x] = SubSeq(k, 1, Len(k) - Factor + x)

\* A forward pass finds in the GPU memory of its worker what the scheduler
\* counts as computed: tokens from the prefix cache, from an earlier pass or
\* from a load, which has ended on this worker and on all others.
ReadsValid ==
    \A w \in Workers : Launched(w) # {} =>
        LET work == inflight[Min(Launched(w))].work
            gpu  == Computed(worker[w].gpu, work)
        IN  \A i \in DOMAIN work : req[work[i].req].status # "finished" =>
                \A p \in 1 .. work[i].start : gpu[work[i].blocks[p]] = Prefix(work[i].req, p)

JobsWith(k, store) ==
    {j \in DOMAIN conn.jobs : conn.jobs[j].store = store /\ k \in Range(conn.jobs[j].keys)}

\* No assertion of the connector or its manager fails.  The ref_cnt of a block
\* counts the loads that read it, or is -1 for the one store that writes it; the
\* blocks of the manager are used once each and none is lost, and a job finds its
\* keys where they were when it was issued; its events tell
\* what can be loaded; jobs of finished requests are watched and nothing else,
\* and a finished request is forgotten with its last job.  A GPU block is free,
\* once, or held, and the blocks of an aborted load are held to its end.
BookkeepingExact ==
    LET m   == conn.m
        ids == {m.blk[k].block_id : k \in DOMAIN m.blk}
        orphans == {j \in DOMAIN conn.jobs : conn.jobs[j].store /\ req[conn.jobs[j].req].status = "finished"}
    IN  /\ TypeOK
        /\ ~conn.error /\ ~m.error
        /\ \A k \in DOMAIN m.blk :
              IF m.blk[k].ref_cnt = -1
              THEN Cardinality(JobsWith(k, TRUE)) = 1 /\ JobsWith(k, FALSE) = {}
              ELSE m.blk[k].ref_cnt = Cardinality(JobsWith(k, FALSE)) /\ JobsWith(k, TRUE) = {}
        /\ Range(m.order) = DOMAIN m.blk /\ Len(m.order) = Cardinality(DOMAIN m.blk)
        /\ Cardinality(ids) = Cardinality(DOMAIN m.blk)
        /\ ids \cap Range(m.free_list) = {}
        /\ ids \cup Range(m.free_list) = 0 .. m.allocated - 1
        /\ \A j \in DOMAIN conn.jobs : \A i \in DOMAIN conn.jobs[j].keys :
              /\ conn.jobs[j].keys[i] \in DOMAIN m.blk
              /\ m.blk[conn.jobs[j].keys[i]].block_id = conn.jobs[j].cpu[i]
        /\ m.announced = {k \in DOMAIN m.blk : m.blk[k].ref_cnt >= 0}
        /\ conn.watched = UNION {Range(conn.jobs[j].gpu) \X {j} : j \in orphans}
        /\ \A r \in Requests : req[r].status = "finished" =>
              (r \in conn.known <=> transfer_jobs(conn, r) # {})
        /\ Range(pool.free) = {b \in Blocks : ~Held(req, b)}
        /\ IsInjective(pool.free)
        /\ \A j \in DOMAIN conn.jobs : conn.jobs[j].store \/
              Range(conn.jobs[j].gpu) \subseteq Range(req[conn.jobs[j].req].blocks)

\* No request waits for ever for a lookup that is deferred, for a load or for
\* blocks: again and again all requests that have arrived are finished.
EveryRequestFinishes == []<>(\A r \in Requests : ~Active(r))
=============================================================================
