----------------------------- MODULE Scheduler -----------------------------
(***************************************************************************)
(* Scheduler and AsyncScheduler (vllm/v1/core/sched/scheduler.py and       *)
(* async_scheduler.py) on the KV cache of module KVCacheManager, driven by *)
(* the loop of EngineCore (vllm/v1/engine/core.py): schedule() puts a      *)
(* batch into the queue of batches in flight, update_from_output() takes   *)
(* the result of the oldest one, and client calls come in between.  Each   *)
(* of these calls runs to its end in the engine's one thread, so each is   *)
(* one action.                                                             *)
(*                                                                         *)
(* The worker is external: it runs the batches in order, each with the     *)
(* block tables it was scheduled with, and samples for the requests whose  *)
(* known tokens are all computed.  Its effect on the cache memory (store)  *)
(* is part of the action that takes the result, which is sound because     *)
(* nothing but the worker sees the memory.                                 *)
(***************************************************************************)
EXTENDS KVCacheManager

CONSTANTS
    PromptLen,              \* num_prompt_tokens; Len(Tokens) adds max_tokens
    Policy,                 \* "fcfs" or "priority"
    Priority,               \* priority of the requests, arrival is by number
    MaxRunning,             \* max_num_running_reqs
    LongPrefillThreshold,   \* long_prefill_token_threshold, 0 for none
    ReserveFull,            \* scheduler_reserve_full_isl
    NumSpec,                \* num_spec_tokens
    NumLookahead,           \* num_lookahead_tokens
    AsyncScheduling,        \* AsyncScheduler instead of Scheduler
    MaxInflight,            \* batch_queue_size; 1 for EngineCore.step
    Aborts,                 \* whether clients abort requests
    ClientCalls,            \* what else clients call: reset_prefix_cache with
                            \* reset_running_requests, pause_scheduler by mode
    MaxCalls                \* bound: the number of these calls

ASSUME SchedulerAssumption ==
    /\ Requests \subseteq Nat
    /\ \A r \in Requests : PromptLen[r] \in 1 .. Len(Tokens[r]) - 1
    /\ Policy \in {"fcfs", "priority"}
    /\ {MaxRunning, MaxInflight} \subseteq Nat \ {0}
    /\ {LongPrefillThreshold, NumSpec, NumLookahead, MaxCalls} \subseteq Nat
    /\ {AsyncScheduling, ReserveFull, Aborts} \subseteq BOOLEAN
    /\ ClientCalls \subseteq {"reset", "abort", "wait", "keep"}

VARIABLES
    kv,         \* kv_cache_manager
    store,      \* the cache memory
    req,        \* the requests
    running,    \* running
    waiting,    \* waiting, in the order it is popped
    prev,       \* prev_step_scheduled_req_ids
    inflight,   \* batch_queue, oldest batch first
    pause,      \* the state of the pauses
    calls       \* calls of reset_prefix_cache and pause_scheduler so far

queues == <<running, waiting, prev>>
vars == <<kv, store, req, queues, inflight, pause, calls>>

Garbage == <<>>
Slots == 0 .. Max({BlockSize(g) : g \in Groups}) - 1
Prefix(r, n) == SubSeq(Tokens[r], 1, n)

Statuses == {"NEW", "WAITING", "RUNNING", "PREEMPTED", "FINISHED"}

\* status, num_computed_tokens, num_tokens, num_output_placeholders, the number
\* of spec_token_ids, discard_latest_async_tokens and is_prefill_chunk.
NewRequest(r) ==
    [status |-> "NEW", computed |-> 0, tokens |-> PromptLen[r], placeholders |-> 0,
     spec |-> 0, discard |-> FALSE, chunk |-> FALSE]

Init ==
    /\ kv = InitManagers
    /\ store = [b \in Blocks |-> [s \in Slots |-> Garbage]]
    /\ req = [r \in Requests |-> NewRequest(r)]
    /\ running = <<>> /\ waiting = <<>>
    /\ prev = {}
    /\ inflight = <<>>
    /\ pause = [state |-> "UNPAUSED", pending |-> FALSE, draining |-> {}]
    /\ calls = 0

\* pause.state is _pause_state; pending says that pause_scheduler has registered its
\* idle callback, and draining, for the properties, which requests it waits for.

RaiseIf(k, cond) == IF cond THEN [k EXCEPT !.pool = Raise(@)] ELSE k

Without(queue, r) == SelectSeq(queue, LAMBDA q : q # r)

\* The loop is back at its input queue only when the batch queue is not full.
QueueNotFull == Len(inflight) < MaxInflight

\* Mutant: the newest batch is taken.
oldest_newest == Len(inflight)

\* batch_queue.pop(), with new batches at the other end.
oldest == 1

-----------------------------------------------------------------------------
(* The request queues.                                                     *)

\* Request.__lt__
Before(q, r) == Priority[q] < Priority[r] \/ (Priority[q] = Priority[r] /\ q < r)

\* heappush into the priority queue, which pops the least request first.
Push(queue, r) ==
    SelectSeq(queue, LAMBDA q : Before(q, r)) \o <<r>> \o SelectSeq(queue, LAMBDA q : Before(r, q))

add_request_to(queue, r) == IF Policy = "fcfs" THEN Append(queue, r) ELSE Push(queue, r)
prepend_request(queue, r) == IF Policy = "fcfs" THEN <<r>> \o queue ELSE Push(queue, r)

-----------------------------------------------------------------------------
(* schedule(), on a record s of the scheduler's state and its locals:      *)
(* budget is token_budget, sched lists the scheduled requests with their   *)
(* tokens and drafts, index is req_index, preempted tells whether          *)
(* preempted_reqs has members and resumed is scheduled_resumed_reqs.       *)

Args(s, r, n) ==
    [r |-> r, num_computed |-> s.req[r].computed, num_tokens |-> s.req[r].tokens, num_new |-> n,
     hits |-> NoHit.blocks, hit_tokens |-> 0, num_lookahead |-> NumLookahead, num_external |-> 0,
     delay_cache |-> FALSE, full_sequence_must_fit |-> FALSE]

Capped(n) == IF LongPrefillThreshold \in 1 .. n - 1 THEN LongPrefillThreshold ELSE n

_preempt_request(s, r) ==
    [s EXCEPT !.kv = RaiseIf(free_request(@, r), s.req[r].status # "RUNNING"),
              !.req[r].status = "PREEMPTED", !.req[r].computed = 0, !.req[r].spec = 0,
              !.waiting = prepend_request(@, r)]

\* The running request that gives way, taken out of running and, when this step
\* has already scheduled it, out of the step.
Unschedule(s, v) ==
    LET entry == SelectSeq(s.sched, LAMBDA e : e.r = v)
        out == [s EXCEPT !.running = Without(@, v), !.preempted = TRUE]
    IN  IF entry = <<>> \/ Policy = "fcfs" THEN out
        ELSE [out EXCEPT !.sched = SelectSeq(@, LAMBDA e : e.r # v),
                         !.budget = @ + entry[1].n, !.index = @ - 1]

Victim(s) ==
    IF Policy = "fcfs" THEN Last(s.running)
    ELSE CHOOSE v \in Range(s.running) : \A q \in Range(s.running) \ {v} : Before(q, v)

RECURSIVE AllocateOrPreempt(_, _, _)

\* The victim gives way, and the allocation is tried again, unless the victim is
\* the request itself.
PreemptFor(s, r, n, victim) ==
    LET after == _preempt_request(Unschedule(s, victim), victim)
    IN  IF victim = r THEN [s |-> after, result |-> FALSE] ELSE AllocateOrPreempt(after, r, n)

AfterAttempt(s, r, n, result) ==
    IF result THEN [s |-> s, result |-> TRUE] ELSE PreemptFor(s, r, n, Victim(s))

\* allocate_slots for n tokens of r, after as many preemptions as it takes.
AllocateOrPreempt(s, r, n) ==
    LET res == allocate_slots(s.kv, Args(s, r, n))
    IN  AfterAttempt([s EXCEPT !.kv = res.kv], r, n, res.result)

\* Mutant: without a look at whether a token is on its way.
ReachedMaxTokens_unguarded(s, r) ==
    s.req[r].computed + 2 - s.req[r].placeholders >= Len(Tokens[r])

\* The step before already computes the last token that max_tokens allows.
ReachedMaxTokens(s, r) ==
    /\ s.req[r].placeholders > 0
    /\ s.req[r].computed + 2 - s.req[r].placeholders >= Len(Tokens[r])

num_new_tokens(s, r) ==
    LET q == s.req[r]
        ahead == q.tokens + q.spec + q.placeholders - q.computed
    IN  Lesser(Lesser(Capped(ahead), s.budget), MaxModelLen - 1 - q.computed)

RECURSIVE ScheduleRunning(_)

\* The running request r, with its blocks, is part of the step; the loop ends when
\* it had to give way itself.
RunningGot(got, r, n) ==
    LET q == got.s.req[r]
        drafts == Lesser(q.spec, AtLeast0(n + q.computed - q.tokens - q.placeholders))
    IN  IF ~got.result THEN got.s
        ELSE ScheduleRunning(
                [got.s EXCEPT !.sched = Append(@, [r |-> r, n |-> n, drafts |-> drafts]),
                              !.budget = @ - n, !.index = @ + 1, !.req[r].spec = 0])

\* The while loop over running.
ScheduleRunning(s) ==
    LET r == s.running[s.index]
        n == num_new_tokens(s, r)
    IN  IF s.index > Len(s.running) \/ s.budget = 0 THEN s
        ELSE IF ReachedMaxTokens(s, r) \/ n = 0
             THEN ScheduleRunning([s EXCEPT !.index = @ + 1])
        ELSE RunningGot(AllocateOrPreempt(s, r, n), r, n)

RECURSIVE ScheduleWaiting(_)

\* The waiting request r, with its blocks, is part of the step; the loop ends when
\* there are none for it.
WaitingGot(s, r, n, hit_tokens, result) ==
    IF ~result THEN s
    ELSE ScheduleWaiting(
            [s EXCEPT !.waiting = Without(@, r), !.running = Append(@, r),
                      !.resumed = IF s.req[r].status = "PREEMPTED" THEN @ \cup {r} ELSE @,
                      !.sched = Append(@, [r |-> r, n |-> n, drafts |-> 0]), !.budget = @ - n,
                      !.req[r].status = "RUNNING", !.req[r].computed = hit_tokens])

\* num_computed_tokens is 0 without a connector.
WaitingAsserts(q, n) == n > 0 /\ q.computed = 0 /\ q.status \in {"WAITING", "PREEMPTED"}

\* The first waiting request, with its prefix cache hit.
AdmitFirst(s, r, hit) ==
    LET n == Lesser(Capped(s.req[r].tokens - hit.tokens), s.budget)
        res == allocate_slots(s.kv, [Args(s, r, n) EXCEPT
                   !.hits = hit.blocks, !.hit_tokens = hit.tokens, !.num_lookahead = 0,
                   !.full_sequence_must_fit = ReserveFull])
    IN  WaitingGot([s EXCEPT !.kv = RaiseIf(res.kv, ~WaitingAsserts(s.req[r], n))],
                   r, n, hit.tokens, res.result)

\* The while loop over waiting.
ScheduleWaiting(s) ==
    LET r == s.waiting[1]
    IN  IF s.waiting = <<>> \/ s.budget = 0 \/ Len(s.running) = MaxRunning THEN s
        ELSE AdmitFirst(s, r, get_computed_blocks(s.kv, r, s.req[r].tokens))

\* Scheduler._update_after_schedule, for one request.
Advanced(q, e) ==
    LET computed == q.computed + e.n
    IN  [q EXCEPT !.computed = computed, !.chunk = computed < q.tokens + q.placeholders]

\* AsyncScheduler adds placeholders for the tokens the step will sample.
_update_after_schedule(q, e) ==
    LET after == Advanced(q, e)
    IN  IF ~AsyncScheduling \/ after.chunk THEN after
        ELSE [after EXCEPT !.placeholders = @ + 1 + e.drafts, !.spec = NumSpec]

\* The asserts at the end of schedule and in _make_cached_request_data.
ScheduleAsserts(s) ==
    /\ s.budget >= 0
    /\ FoldLeft(LAMBDA n, e : n + e.n, 0, s.sched) <= MaxBatchedTokens
    /\ Len(s.running) <= MaxRunning /\ Len(s.sched) <= Len(s.running)
    /\ s.resumed \cap prev = {}

\* No request is admitted in a step that preempts one, or in a pause.
ThenWaiting(s) ==
    IF s.preempted \/ pause.state # "UNPAUSED" THEN s ELSE ScheduleWaiting(s)

schedule ==
    LET start == [kv |-> kv, req |-> req, running |-> running, waiting |-> waiting,
                  budget |-> MaxBatchedTokens, sched |-> <<>>, index |-> 1,
                  preempted |-> FALSE, resumed |-> {}]
    IN  IF pause.state = "PAUSED_ALL" THEN start ELSE ThenWaiting(ScheduleRunning(start))

\* What the worker gets for a scheduled request: where its tokens start, its
\* block table, and whether a token is sampled; joined tells whether the request
\* goes on from the batch before.
Entry(s, e) ==
    [r |-> e.r, n |-> e.n, drafts |-> e.drafts, start |-> s.req[e.r].computed,
     table |-> [g \in Groups |-> s.kv.blocks[g][e.r]],
     sampled |-> s.req[e.r].computed + e.n >= s.req[e.r].tokens + s.req[e.r].placeholders,
     joined |-> e.r \in prev]

\* Mutant: only the running requests count.
has_requests_running == pause.state # "PAUSED_ALL" /\ running # <<>>

\* Mutant: nothing is left to do in any pause state.
has_requests_paused == pause.state = "UNPAUSED" /\ (running # <<>> \/ waiting # <<>>)

\* has_requests: what is left to do in the current pause state.  Requests that
\* finished cause one more, empty step, which is left out.
has_requests ==
    CASE pause.state = "UNPAUSED" -> running # <<>> \/ waiting # <<>>
      [] pause.state = "PAUSED_NEW" -> running # <<>>
      [] pause.state = "PAUSED_ALL" -> FALSE

\* The engine's state after a call of schedule() that left s.
Scheduled(s) ==
    LET scheduled == {s.sched[i].r : i \in DOMAIN s.sched}
        entry(r) == CHOOSE e \in Range(s.sched) : e.r = r
    IN  /\ kv' = RaiseIf(s.kv, ~ScheduleAsserts(s))
        /\ req' = [r \in Requests |-> IF r \in scheduled
                                      THEN _update_after_schedule(s.req[r], entry(r))
                                      ELSE s.req[r]]
        /\ running' = s.running /\ waiting' = s.waiting
        /\ prev' = scheduled
        /\ inflight' = Append(inflight, [i \in DOMAIN s.sched |-> Entry(s, s.sched[i])])

Schedule ==
    /\ QueueNotFull
    /\ has_requests
    /\ Scheduled(schedule)
    /\ UNCHANGED <<store, pause, calls>>

-----------------------------------------------------------------------------
(* update_from_output(), on a record s of the scheduler's state, for the   *)
(* requests of the oldest batch in turn.                                   *)

\* The worker's writes for entry e, of whose drafts the first accepted ones are
\* right: the tokens at its positions, in the blocks it was scheduled with.
\* Tokens after the last one of a request are drafts that are never used.
Kept(e, accepted) == Lesser(e.start + e.n - e.drafts + accepted, Len(Tokens[e.r]))

Written(mem, e, accepted) ==
    LET at(b, slot) == {x \in Groups \X (e.start .. e.start + e.n - 1) :
                           /\ e.table[x[1]][x[2] \div BlockSize(x[1]) + 1] = b
                           /\ x[2] % BlockSize(x[1]) = slot}
        value(x) == IF x[2] < Kept(e, accepted) THEN <<x[1], Prefix(e.r, x[2] + 1)>> ELSE Garbage
    IN  [b \in Blocks |-> [slot \in Slots |->
            IF at(b, slot) = {} THEN mem[b][slot] ELSE value(CHOOSE x \in at(b, slot) : TRUE)]]

\* The worker learns what was rejected before it runs the next batch, and moves
\* the positions of the requests that go on from this one.
Shifted(batches, r, rejected) ==
    IF batches = <<>> THEN batches
    ELSE [batches EXCEPT ![1] = [i \in DOMAIN @ |->
             IF @[i].r = r /\ @[i].joined THEN [@[i] EXCEPT !.start = @ - rejected] ELSE @[i]]]

\* Mutant: num_computed_tokens still counts the rejected drafts.
Reject_keeps_computed(q, e, accepted) ==
    LET rejected == IF e.sampled THEN e.drafts - accepted ELSE 0
    IN  [q EXCEPT !.placeholders = IF @ > 0 THEN @ - rejected ELSE @]

\* The rejected drafts are taken out of the counters.
Reject(q, e, accepted) ==
    LET rejected == IF e.sampled THEN e.drafts - accepted ELSE 0
    IN  [q EXCEPT !.computed = IF @ > 0 THEN @ - rejected ELSE @,
                  !.placeholders = IF @ > 0 THEN @ - rejected ELSE @]

\* Mutant: the drafts in flight are cached, too.
NumToCache_drafts(q, left) == q.computed

\* AsyncScheduler caches the tokens it knows.
NumToCache(q, left) == q.computed - left

\* Mutant: a request that was preempted stays in the waiting queue.
Stop_preempted_stays(s, r) ==
    [s EXCEPT !.kv = free_request(@, r), !.req[r].status = "FINISHED", !.running = Without(@, r)]

\* Mutant: the blocks are not freed.
Stop_keeps_blocks(s, r) ==
    [s EXCEPT !.req[r].status = "FINISHED",
              !.running = Without(@, r), !.waiting = Without(@, r)]

\* A request that stops is freed and leaves its queue.
Stop(s, r) ==
    [s EXCEPT !.kv = free_request(@, r), !.req[r].status = "FINISHED",
              !.running = Without(@, r), !.waiting = Without(@, r)]

\* The tokens the request takes: those after the one that stops it are cut off.
NewTokens(q, r, accepted) == Lesser(accepted + 1, Len(Tokens[r]) - q.tokens)

\* eos stands for every stop condition on the tokens, Len(Tokens) for max_tokens
\* and max_model_len.
check_stop(q, r, new, eos) == eos \/ q.tokens + new = Len(Tokens[r])

\* _update_request_with_output.  eos: the last of the tokens ends the request.
_update_request_with_output(s, e, accepted, eos) ==
    LET r == e.r
        q == Reject(s.req[r], e, accepted)
        new == NewTokens(q, r, accepted)
        stopped == check_stop(q, r, new, eos)
        left == IF AsyncScheduling THEN q.placeholders - new ELSE q.placeholders
        cached == IF AsyncScheduling /\ left >= 0 /\ q.status = "RUNNING"
                  THEN CacheBlocks(s.kv, r, NumToCache(q, left)) ELSE s.kv
        after == [s EXCEPT !.kv = RaiseIf(cached, left < 0),
                           !.req[r] = [q EXCEPT !.tokens = @ + new, !.placeholders = left]]
    IN  IF AsyncScheduling /\ q.discard THEN [s EXCEPT !.req[r] = [q EXCEPT !.discard = FALSE]]
        ELSE IF stopped THEN Stop(after, r) ELSE after

\* One request of the batch.  A request that finished meanwhile is skipped, but
\* the worker has run it.
UpdateRequest(s, e, accepted, eos) ==
    LET ran == [s EXCEPT !.store = Written(@, e, accepted),
                         !.rest = Shifted(@, e.r, e.drafts - accepted),
                         !.kv = RaiseIf(@, e.n <= 0)]
    IN  IF s.req[e.r].status = "FINISHED" \/ ~e.sampled THEN ran
        ELSE _update_request_with_output(ran, e, accepted, eos)

\* update_draft_token_ids; AsyncScheduler does not need it.
update_draft_token_ids(q) ==
    IF q.status = "FINISHED" THEN q ELSE [q EXCEPT !.spec = IF q.chunk THEN 0 ELSE NumSpec]

\* The engine's state after update_from_output() and, for a synchronous engine
\* with drafts, update_draft_token_ids(), left s.
Updated(s, in) ==
    /\ kv' = s.kv /\ store' = s.store
    /\ req' = [r \in Requests |-> IF r \in in /\ NumSpec > 0 /\ ~AsyncScheduling
                                  THEN update_draft_token_ids(s.req[r]) ELSE s.req[r]]
    /\ running' = s.running /\ waiting' = s.waiting
    /\ inflight' = s.rest

\* accepted: how many drafts of each request are right; eos: the requests whose
\* last token of the step stops them.
UpdateFromOutput(accepted, eos) ==
    LET batch == inflight[oldest]
        sampled == {e \in Range(batch) : e.sampled}
    IN  /\ inflight # <<>>
        /\ \A r \in Requests : accepted[r] <= Max({0} \cup {e.drafts : e \in {e \in sampled : e.r = r}})
        /\ eos \subseteq {e.r : e \in sampled}
        /\ Updated(FoldLeft(LAMBDA s, e : UpdateRequest(s, e, accepted[e.r], e.r \in eos),
                            [kv |-> kv, store |-> store, req |-> req, running |-> running,
                             waiting |-> waiting, rest |-> RemoveAt(inflight, oldest)], batch),
                   {e.r : e \in Range(batch)})
        /\ UNCHANGED <<prev, pause, calls>>

-----------------------------------------------------------------------------
(* Client calls.  The engine takes them from its input queue between two   *)
(* steps, when the batch queue is not full; aborts are also taken before   *)
(* the result of a batch is processed.                                     *)

Unfinished == {r \in Requests : req[r].status \in {"WAITING", "RUNNING", "PREEMPTED"}}

AddRequest(r) ==
    /\ QueueNotFull
    /\ req[r].status = "NEW"
    /\ req' = [req EXCEPT ![r].status = "WAITING"]
    /\ waiting' = add_request_to(waiting, r)
    /\ UNCHANGED <<kv, store, running, prev, inflight, pause, calls>>

\* finish_requests
Abort(r) ==
    /\ Aborts
    /\ req[r].status \in {"WAITING", "RUNNING", "PREEMPTED"}
    /\ running' = IF req[r].status = "RUNNING" THEN Without(running, r) ELSE running
    /\ waiting' = IF req[r].status = "RUNNING" THEN waiting ELSE Without(waiting, r)
    /\ kv' = free_request(kv, r)
    /\ req' = [req EXCEPT ![r].status = "FINISHED"]
    /\ UNCHANGED <<store, prev, inflight, pause, calls>>

\* reset_prefix_cache(reset_running_requests=True)
reset_running ==
    LET s == FoldRight(LAMBDA r, st : [_preempt_request(st, r) EXCEPT
                                          !.req[r].placeholders = 0, !.req[r].discard = TRUE],
                       running, [kv |-> kv, req |-> req, waiting |-> waiting])
    IN  /\ kv' = [s.kv EXCEPT !.pool = IF CanReset(@) THEN reset_prefix_cache(@) ELSE Raise(@)]
        /\ req' = s.req
        /\ running' = <<>> /\ waiting' = s.waiting
        /\ prev' = {}

ClientCall(call) ==
    /\ call \in ClientCalls
    /\ calls < MaxCalls /\ calls' = calls + 1
    /\ QueueNotFull
    /\ UNCHANGED <<store, inflight>>

ResetPrefixCache == ClientCall("reset") /\ reset_running /\ UNCHANGED pause

\* Mutant: the batches in flight do not count as work.
work_left_no_batches(mode) == mode # "keep" /\ running # <<>>

\* has_work in the pause state that the mode sets.
work_left(mode) == (mode # "keep" /\ running # <<>>) \/ inflight # <<>>

\* pause_scheduler in mode wait or keep, with clear_cache.  When there is nothing
\* left to do the caches are reset at once, else when the engine is idle.
PauseScheduler(mode) ==
    LET state == IF mode = "keep" THEN "PAUSED_ALL" ELSE "PAUSED_NEW"
    IN  /\ ClientCall(mode)
        /\ pause.state = "UNPAUSED" /\ ~pause.pending
        /\ pause' = [state |-> state, pending |-> work_left(mode),
                     draining |-> IF mode = "keep" THEN {} ELSE Range(running)]
        /\ IF work_left(mode) THEN UNCHANGED <<kv, req, queues>> ELSE reset_running

\* pause_scheduler in mode abort: all the requests are aborted first, and the
\* workers have yet to be told of them.
PauseAbort ==
    LET busy == Unfinished # {} \/ inflight # <<>>
    IN  /\ ClientCall("abort")
        /\ pause.state = "UNPAUSED" /\ ~pause.pending
        /\ pause' = [state |-> "PAUSED_NEW", pending |-> busy, draining |-> Unfinished]
        /\ IF busy
           THEN /\ kv' = FoldSet(LAMBDA r, k : free_request(k, r), kv, Unfinished)
                /\ req' = [r \in Requests |->
                              IF r \in Unfinished THEN [req[r] EXCEPT !.status = "FINISHED"] ELSE req[r]]
                /\ running' = <<>> /\ waiting' = <<>>
                /\ UNCHANGED prev
           ELSE reset_running

\* engine_idle_callback
IdleCallback ==
    /\ pause.pending /\ ~has_requests /\ inflight = <<>>
    /\ reset_running
    /\ pause' = [pause EXCEPT !.pending = FALSE, !.draining = {}]
    /\ UNCHANGED <<store, inflight, calls>>

ResumeScheduler ==
    /\ QueueNotFull
    /\ pause.state # "UNPAUSED"
    /\ pause' = [pause EXCEPT !.state = "UNPAUSED"]
    /\ UNCHANGED <<kv, store, req, queues, inflight, calls>>

\* The engine has nothing left to do.
Idle ==
    /\ \A r \in Requests : req[r].status = "FINISHED"
    /\ inflight = <<>>
    /\ UNCHANGED vars

Next ==
    \/ \E r \in Requests : AddRequest(r) \/ Abort(r)
    \/ Schedule
    \/ \E accepted \in [Requests -> 0 .. NumSpec], eos \in SUBSET Requests :
          UpdateFromOutput(accepted, eos)
    \/ ResetPrefixCache
    \/ \E mode \in {"wait", "keep"} : PauseScheduler(mode)
    \/ PauseAbort
    \/ IdleCallback
    \/ ResumeScheduler
    \/ Idle

Spec == Init /\ [][Next]_vars

\* The busy loop schedules whenever it can, takes the result of every batch and
\* runs the callback when it is idle; a client that pauses resumes.  The first
\* conjunct is WF_vars(Schedule) with the guard and the effect of Schedule written
\* out: it is enabled when its guards hold, and no other action adds a batch.
Fairness ==
    /\ <>[](QueueNotFull /\ has_requests) => []<><<Len(inflight') > Len(inflight)>>_vars
    /\ WF_vars(\E accepted \in [Requests -> 0 .. NumSpec], eos \in SUBSET Requests :
                  UpdateFromOutput(accepted, eos))
    /\ WF_vars(IdleCallback)
    /\ WF_vars(ResumeScheduler)

FairSpec == Spec /\ Fairness

-----------------------------------------------------------------------------
(* Properties.                                                             *)

\* The types of the variables, and the bound of batch_queue.
TypeOK ==
    /\ \A r \in Requests : /\ req[r].status \in Statuses
                           /\ req[r].tokens \in PromptLen[r] .. Len(Tokens[r])
                           /\ req[r].computed \in 0 .. MaxModelLen
                           /\ req[r].placeholders \in Nat
                           /\ req[r].spec \in 0 .. NumSpec
                           /\ {req[r].discard, req[r].chunk} \subseteq BOOLEAN
    /\ prev \subseteq Requests
    /\ Len(inflight) <= MaxInflight

\* Each unfinished request is in exactly one queue, once, and its status says
\* which: none is lost by a preemption, an abort or a result that comes late.
\* The counters of the request stay within its length, and no assert and no
\* exception of schedule, update_from_output, the preemption or the KV cache
\* below them is reached, whatever is in flight when a request is preempted,
\* aborted or finished.
QueuesMatchStatus ==
    /\ TypeOK
    /\ ~kv.pool.err
    /\ Range(running) = {r \in Requests : req[r].status = "RUNNING"}
    /\ Range(waiting) = {r \in Requests : req[r].status \in {"WAITING", "PREEMPTED"}}
    /\ Len(running) = Cardinality(Range(running))
    /\ Len(waiting) = Cardinality(Range(waiting))

\* Only running requests hold blocks, and no block is leaked.
BlocksOfRunning ==
    /\ \A g \in Groups, r \in Requests : kv.blocks[g][r] # <<>> => req[r].status = "RUNNING"
    /\ \A b \in Blocks :
          kv.pool.ref[b] = 0 <=> \A g \in Groups, r \in Requests : b \notin Range(kv.blocks[g][r])

\* The scheduled entries of the batch whose result comes next.
Arriving == IF inflight = <<>> THEN {} ELSE Range(inflight[oldest])

\* A sampled token is appended where it belongs: the worker computed it from all
\* the tokens before it, and no token is lost or comes twice.
TokensInPlace ==
    [][\A e \in Arriving : req'[e.r].tokens > req[e.r].tokens =>
          e.start + e.n - e.drafts = req[e.r].tokens]_vars

\* When a batch runs, the KV of the tokens its requests attend to is in the
\* blocks they were scheduled with, although these may have been freed, evicted
\* and allocated again since.
BatchReadsValid ==
    [][\A e \in Arriving : inflight' # inflight /\ Len(inflight') < Len(inflight)
                           /\ req[e.r].status # "FINISHED" =>
          \A g \in Groups :
             \A i \in get_num_skipped_tokens(g, e.start) .. e.start + e.n - e.drafts - 1 :
                LET b == e.table[g][i \div BlockSize(g) + 1]
                IN  b # Null /\ store'[b][i % BlockSize(g)] = <<g, Prefix(e.r, i + 1)>>]_vars

\* The blocks that batches in flight will write.
ToBeWritten ==
    UNION {{e.table[g][i \div BlockSize(g) + 1] : g \in Groups, i \in e.start .. e.start + e.n - 1} :
              e \in UNION {Range(inflight[k]) : k \in DOMAIN inflight}}

\* "The computed blocks must be full" and computed: a block in the prefix cache
\* holds the KV its hash stands for, or a batch in flight will put it there.
CachedIsComputed ==
    \A h \in DOMAIN kv.pool.cached :
       \A b \in Range(kv.pool.cached[h]) \ ToBeWritten :
          \A i \in Len(h[2]) - BlockSize(h[1]) .. Len(h[2]) - 1 :
             store[b][i % BlockSize(h[1])] = <<h[1], SubSeq(h[2], 1, i + 1)>>

\* "wait: Wait for in-flight requests to complete": when a pause completes, the
\* requests that were running when it was asked for have finished, but for those
\* that had to give way to another one on the way and wait until the resume.
PauseDrains ==
    [][pause.pending /\ ~pause'.pending =>
          \A r \in pause.draining : req[r].status \in {"FINISHED", "PREEMPTED"}]_vars

\* Once a pause is complete and until the client resumes, no batch is on its way
\* and nothing that was computed before the pause can be used after it: no block is
\* held and the prefix cache is empty, so that new weights can be loaded.
PausedIsQuiet ==
    pause.state # "UNPAUSED" /\ ~pause.pending =>
       /\ inflight = <<>>
       /\ kv.pool.cached = <<>>
       /\ \A g \in Groups, r \in Requests : kv.blocks[g][r] = <<>>

\* A request that no client aborts generates until it stops: it is neither
\* starved by preemptions nor left waiting for a result that never comes.
EveryRequestFinishes ==
    \A r \in Requests : req[r].status = "WAITING" ~> req[r].status = "FINISHED"
=============================================================================
