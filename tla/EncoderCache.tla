---------------------------- MODULE EncoderCache ----------------------------
(***************************************************************************)
(* The cache of encoder outputs: EncoderCacheManager, which only counts,   *)
(* the scheduler's two loops as far as they use it, and the cache of the   *)
(* worker, which holds the outputs and follows one batch later.  The KV    *)
(* cache appears as its effects: hits on admission, and allocations that   *)
(* fail.  Requests end with the result of their last prompt token; items   *)
(* have no embedding mask, and there is no encoder-cache connector.        *)
(***************************************************************************)
EXTENDS Integers, Sequences, FiniteSets, FiniteSetsExt, Functions, Folds, TLC

CONSTANTS
    Requests,
    PromptLen,          \* the number of prompt tokens of each request
    Features,           \* mm_features: for each request a sequence of [hash, offset]
    Size,               \* the number of embeddings of each item, by hash
    Hits,               \* numbers of tokens that a prefix cache or connector may have
    Shift,              \* 1 with an eagle drafter, which reads one token ahead
    Chunking,           \* values of disable_chunked_mm_input to start with
    CacheSize, EncoderBudget, TokenBudget, MaxRunning,
    MaxInflight,        \* batches scheduled ahead
    MaxShort,           \* bound on KV allocations that fail
    MaxAborts, MaxResets

ASSUME EncoderCacheAssumption ==
    /\ PromptLen \in [Requests -> Nat]
    /\ Features \in [Requests -> Seq([hash : DOMAIN Size, offset : Nat])]
    /\ CacheSize \in Nat /\ EncoderBudget \in Nat /\ TokenBudget \in Nat /\ MaxRunning \in Nat
    /\ \A h \in DOMAIN Size : Size[h] \in 1 .. CacheSize /\ Size[h] <= EncoderBudget
    /\ TRUE \in Chunking => \A h \in DOMAIN Size : Size[h] <= TokenBudget
    /\ Chunking \subseteq BOOLEAN
    /\ Shift \in {0, 1}
    /\ 0 \in Hits /\ Hits \subseteq Nat

\* argsort_mm_positions: the features of a request come in the order of offsets.
ASSUME FeaturesAssumption ==
    \A r \in Requests : \A i, j \in DOMAIN Features[r] :
        i <= j => Features[r][i].offset <= Features[r][j].offset

VARIABLES
    disable_chunked_mm_input,
    ec,             \* encoder_cache_manager
    req,            \* status and num_computed_tokens of each request
    running, waiting,
    step,           \* the locals of schedule()
    inflight,       \* scheduled batches, the oldest first
    executed,       \* how many of them the worker has run
    worker,         \* encoder_cache of the model runner
    missed,         \* outputs that a batch needed and the worker did not have
    short, aborts, resets

config == <<disable_chunked_mm_input>>

vars == <<config, ec, req, running, waiting, step, inflight, executed, worker,
          missed, short, aborts, resets>>

-----------------------------------------------------------------------------
(* EncoderCacheManager, on a record of its fields; error stands for a      *)
(* failed assertion or a KeyError.                                         *)

EmptyCache == [cached |-> <<>>, freeable |-> <<>>, freed |-> <<>>,
               num_free_slots |-> CacheSize, num_freeable_slots |-> CacheSize,
               error |-> FALSE]

reset(c) == [EmptyCache EXCEPT !.error = c.error]

\* A loop over a sequence.  (That of SequencesExt; the proofs do without the many
\* definitions and theorems that come with that module.)
FoldLeft(op(_, _), start, seq) ==
    MapThenFoldSet(LAMBDA x, acc : op(acc, x), start, LAMBDA i : seq[i], LAMBDA S : Max(S), DOMAIN seq)

\* The elements of a sequence that are in S, in their order.
Among(seq, S) ==
    FoldLeft(LAMBDA kept, x : IF x \in S THEN Append(kept, x) ELSE kept, <<>>, seq)

Without(seq, h) == Among(seq, Range(seq) \ {h})

\* Mutant: the item stays in `freeable`.
check_and_update_cache_listed(c, r, h) ==
    LET idle == c.cached[h] = {}
    IN  [c EXCEPT !.cached[h] = @ \cup {r},
                  !.freeable = @,
                  !.num_freeable_slots = IF idle THEN @ - Size[h] ELSE @,
                  !.error = @ \/ (idle /\ h \notin Range(c.freeable))]

\* The item is cached: the request refers to it.
check_and_update_cache(c, r, h) ==
    LET idle == c.cached[h] = {}
    IN  [c EXCEPT !.cached[h] = @ \cup {r},
                  !.freeable = IF idle THEN Without(@, h) ELSE @,
                  !.num_freeable_slots = IF idle THEN @ - Size[h] ELSE @,
                  !.error = @ \/ (idle /\ h \notin Range(c.freeable))]

can_allocate(c, h, budget, scheduled) ==
    /\ Size[h] <= budget
    /\ \/ Size[h] + scheduled <= c.num_free_slots
       \/ Size[h] + scheduled <= c.num_freeable_slots

SizeOf(hashes) == FoldLeft(LAMBDA n, h : n + Size[h], 0, hashes)

\* The loop of can_allocate: the oldest entries go, until there is room.
EvictFirst(c, n) ==
    LET gone == SubSeq(c.freeable, 1, n)
    IN  [c EXCEPT !.freeable = SubSeq(@, n + 1, Len(@)),
                  !.cached = Restrict(@, DOMAIN @ \ Range(gone)),
                  !.freed = @ \o gone,
                  !.num_free_slots = @ + SizeOf(gone)]

Evict(c, need) ==
    LET enough == {n \in 0 .. Len(c.freeable) :
                      need <= c.num_free_slots + SizeOf(SubSeq(c.freeable, 1, n))}
    IN  IF enough = {} THEN [c EXCEPT !.error = TRUE] ELSE EvictFirst(c, Min(enough))

allocate(c, r, h) ==
    [c EXCEPT !.cached = [g \in DOMAIN @ \cup {h} |->
                             (IF g \in DOMAIN @ THEN @[g] ELSE {})
                               \cup (IF g = h THEN {r} ELSE {})],
              !.num_free_slots = @ - Size[h],
              !.num_freeable_slots = @ - Size[h],
              !.error = \/ @
                        \/ c.num_free_slots < Size[h]
                        \/ c.num_freeable_slots < Size[h]]

\* Mutant: an item without references is freed once more.
free_encoder_input_again(c, r, h) ==
    IF h \notin DOMAIN c.cached THEN c
    ELSE LET last == c.cached[h] \ {r} = {}
         IN  [c EXCEPT !.cached[h] = @ \ {r},
                       !.freeable = IF last THEN Append(Without(@, h), h) ELSE @,
                       !.num_freeable_slots = IF last THEN @ + Size[h] ELSE @]

free_encoder_input(c, r, h) ==
    IF h \notin DOMAIN c.cached \/ c.cached[h] = {} THEN c
    ELSE LET last == c.cached[h] \ {r} = {}
         IN  [c EXCEPT !.cached[h] = @ \ {r},
                       !.freeable = IF last THEN Append(Without(@, h), h) ELSE @,
                       !.num_freeable_slots = IF last THEN @ + Size[h] ELSE @]

FreeAll(c, r, features) == FoldLeft(LAMBDA x, f : free_encoder_input(x, r, f.hash), c, features)

free(c, r) == FreeAll(c, r, Features[r])

\* Mutant: off by one: an item that has just been passed stays.
free_encoder_inputs_after(c, r, computed) ==
    FreeAll(c, r, Among(Features[r], {f \in Range(Features[r]) : f.offset + Size[f.hash] < computed}))

\* _free_encoder_inputs: those that the KV cache has taken over.
free_encoder_inputs(c, r, computed) ==
    FreeAll(c, r, Among(Features[r], {f \in Range(Features[r]) : f.offset + Size[f.hash] <= computed}))

-----------------------------------------------------------------------------
(* _try_schedule_encoder_inputs.                                           *)

Stop(t, new) == [t EXCEPT !.new = new, !.stop = TRUE]

\* The item's place in the step is empty when only the drafter needs it.
Take(t, f, computed) ==
    LET c == Evict(t.ec, Size[f.hash] + t.embeds)
        first == Max({0, computed - f.offset})
        last == Min({Size[f.hash], computed + t.new - f.offset})
    IN  IF last - first = 0 THEN [t EXCEPT !.ec = c]
        ELSE [t EXCEPT !.ec = c, !.embeds = @ + Size[f.hash],
                       !.budget = @ - Size[f.hash], !.inputs = Append(@, f.hash)]

TryItem(t, r, f, computed) ==
    LET end == f.offset + Size[f.hash]
    IN  IF t.stop \/ f.offset >= computed + t.new + Shift THEN [t EXCEPT !.stop = TRUE]
        ELSE IF end <= computed \/ f.hash \in Range(t.inputs) THEN t
        ELSE IF f.hash \in DOMAIN t.ec.cached
             THEN [t EXCEPT !.ec = check_and_update_cache(@, r, f.hash)]
        ELSE IF disable_chunked_mm_input /\ computed < f.offset /\ computed + t.new < end
             THEN Stop(t, Max({0, f.offset - (computed + Shift)}))
        ELSE IF ~can_allocate(t.ec, f.hash, t.budget, t.embeds)
             THEN Stop(t, Max({0, f.offset - (computed + Shift)}))
        ELSE Take(t, f, computed)

try_schedule(r, computed) ==
    FoldLeft(LAMBDA t, f : TryItem(t, r, f, computed),
             [ec |-> ec, new |-> Min({PromptLen[r] - computed, step.tokens}),
              budget |-> step.budget, embeds |-> 0, inputs |-> <<>>, stop |-> FALSE],
             IF PromptLen[r] > computed THEN Features[r] ELSE <<>>)

-----------------------------------------------------------------------------
(* The system.                                                             *)

NoStep == [pc |-> "idle", index |-> 0, tokens |-> 0, budget |-> 0,
           preempted |-> FALSE, entries |-> <<>>]

Init ==
    /\ disable_chunked_mm_input \in Chunking
    /\ ec = EmptyCache
    /\ req = [r \in Requests |-> [status |-> "NEW", computed |-> 0]]
    /\ running = <<>>
    /\ waiting = <<>>
    /\ step = NoStep
    /\ inflight = <<>>
    /\ executed = 0
    /\ worker = {}
    /\ missed = {}
    /\ short = 0
    /\ aborts = 0
    /\ resets = 0

Holds(r, status) == req[r].status = status

AddRequest(r) ==
    /\ Holds(r, "NEW")
    /\ step.pc = "idle"
    /\ req' = [req EXCEPT ![r].status = "WAITING"]
    /\ waiting' = Append(waiting, r)
    /\ UNCHANGED <<config, ec, running, step, inflight, executed, worker, missed,
                   short, aborts, resets>>

\* schedule() starts.
BeginStep ==
    /\ step.pc = "idle"
    /\ Len(inflight) < MaxInflight
    /\ running \o waiting # <<>>
    /\ step' = [NoStep EXCEPT !.pc = "running", !.index = 1,
                              !.tokens = TokenBudget, !.budget = EncoderBudget]
    /\ UNCHANGED <<config, ec, req, running, waiting, inflight, executed, worker, missed,
                   short, aborts, resets>>

Allocated(c, r, inputs) == FoldLeft(LAMBDA x, h : allocate(x, r, h), c, inputs)

\* The request joins the batch with t.new tokens from position computed on.
Scheduled(s, r, computed, t) ==
    [s EXCEPT !.tokens = @ - t.new,
              !.budget = t.budget,
              !.entries = Append(@, [r |-> r, start |-> computed, n |-> t.new,
                                     inputs |-> t.inputs])]

Preempted(c, victims) == FoldLeft(LAMBDA x, v : free(x, v), c, victims)

\* One round of the loop over the running requests, which preempts the last
\* k of them before the KV cache has room, or preempts the request itself.
ScheduleRunning(k) ==
    /\ step.pc = "running"
    /\ step.index + k <= Len(running) + 1
    /\ step.index <= Len(running)
    /\ step.tokens > 0
    /\ \E r \in {running[step.index]} :
       \E t \in {try_schedule(r, req[r].computed)} :
       \E keep \in {Len(running) - k} :
         IF t.new = 0
         THEN /\ k = 0
              /\ ec' = t.ec
              /\ step' = [step EXCEPT !.index = @ + 1]
              /\ UNCHANGED <<req, running, waiting, short>>
         ELSE \E victims \in {SubSeq(running, keep + 1, Len(running))} :
              /\ short + k <= MaxShort
              /\ short' = short + k
              /\ running' = SubSeq(running, 1, keep)
              /\ waiting' = victims \o waiting
              /\ req' = [q \in Requests |->
                           IF q \in Range(victims) THEN [status |-> "PREEMPTED", computed |-> 0]
                           ELSE req[q]]
              /\ IF keep < step.index
                 THEN /\ ec' = Preempted(t.ec, victims)
                      /\ step' = [step EXCEPT !.pc = "end"]
                 ELSE /\ ec' = Allocated(Preempted(t.ec, victims), r, t.inputs)
                      /\ step' = [Scheduled(step, r, req[r].computed, t) EXCEPT
                                    !.index = @ + 1, !.preempted = @ \/ k > 0]
    /\ UNCHANGED <<config, inflight, executed, worker, missed, aborts, resets>>

RunningDone ==
    \/ step.pc = "waiting"
    \/ step.pc = "running" /\ (step.index > Len(running) \/ step.tokens = 0)

WaitingDone ==
    step.preempted \/ waiting = <<>> \/ step.tokens = 0 \/ Len(running) = MaxRunning

\* One round of the loop over the waiting requests: the caches hold the
\* first hit tokens of the request, and the KV cache has room or not.
ScheduleWaiting(hit, room) ==
    /\ RunningDone
    /\ ~WaitingDone
    /\ hit < PromptLen[Head(waiting)]
    /\ \E r \in {Head(waiting)} : \E t \in {try_schedule(r, hit)} :
         \/ /\ t.new = 0
            /\ room
            /\ ec' = t.ec
            /\ step' = [step EXCEPT !.pc = "end"]
            /\ UNCHANGED <<req, running, waiting, short>>
         \/ /\ t.new > 0
            /\ ~room
            /\ short < MaxShort
            /\ short' = short + 1
            /\ ec' = free(t.ec, r)
            /\ step' = [step EXCEPT !.pc = "end"]
            /\ UNCHANGED <<req, running, waiting>>
         \/ /\ t.new > 0
            /\ room
            /\ ec' = Allocated(t.ec, r, t.inputs)
            /\ step' = [Scheduled(step, r, hit, t) EXCEPT !.pc = "waiting"]
            /\ req' = [req EXCEPT ![r] = [status |-> "RUNNING", computed |-> hit]]
            /\ running' = Append(running, r)
            /\ waiting' = Tail(waiting)
            /\ UNCHANGED short
    /\ UNCHANGED <<config, inflight, executed, worker, missed, aborts, resets>>

\* The batch takes the list of evicted items along; _update_after_schedule
\* advances the requests.
EndStep ==
    /\ step.pc = "end" \/ (RunningDone /\ WaitingDone)
    /\ inflight' = Append(inflight, [entries |-> step.entries, freed |-> ec.freed])
    /\ ec' = [ec EXCEPT !.freed = <<>>]
    /\ req' = [r \in Requests |->
                 [req[r] EXCEPT !.computed =
                    @ + SumSet({e.n : e \in {x \in Range(step.entries) : x.r = r}})]]
    /\ step' = NoStep
    /\ UNCHANGED <<config, running, waiting, executed, worker, missed, short, aborts, resets>>

\* _gather_mm_embeddings: the items of the tokens of an entry, for the model
\* and, one token ahead, for the drafter.
Needed(e) ==
    {f.hash : f \in {x \in Range(Features[e.r]) : \E s \in 0 .. Shift :
                        /\ x.offset < e.start + e.n + s
                        /\ x.offset + Size[x.hash] > e.start + s}}

\* The worker runs the next batch: it drops the evicted outputs, runs the
\* encoder, and collects the embeddings.
ExecuteModel ==
    /\ executed < Len(inflight)
    /\ \E b \in {inflight[executed + 1]} :
         /\ worker' = (worker \ Range(b.freed))
                        \cup UNION {Range(e.inputs) : e \in Range(b.entries)}
         /\ missed' = missed \cup
                        ((UNION {Needed(e) : e \in Range(b.entries)}) \ worker')
    /\ executed' = executed + 1
    /\ UNCHANGED <<config, ec, req, running, waiting, step, inflight, short, aborts, resets>>

Live(r) == req[r].status \in {"WAITING", "RUNNING", "PREEMPTED"}

\* What the results of a batch do to the cache, for the requests still there.
Updated(c, e) ==
    LET passed == free_encoder_inputs(c, e.r, req[e.r].computed)
    IN  IF ~Live(e.r) THEN c
        ELSE IF e.start + e.n = PromptLen[e.r] THEN free(passed, e.r)
        ELSE passed

Ended(entries) == {e.r : e \in {x \in Range(entries) :
                            Live(x.r) /\ x.start + x.n = PromptLen[x.r]}}

Leave(rs) ==
    /\ req' = [r \in Requests |-> IF r \in rs THEN [req[r] EXCEPT !.status = "FINISHED"] ELSE req[r]]
    /\ running' = Among(running, Range(running) \ rs)
    /\ waiting' = Among(waiting, Range(waiting) \ rs)

UpdateFromOutput ==
    /\ step.pc = "idle"
    /\ executed > 0
    /\ \E b \in {Head(inflight)} :
         /\ ec' = FoldLeft(Updated, ec, b.entries)
         /\ Leave(Ended(b.entries))
    /\ inflight' = Tail(inflight)
    /\ executed' = executed - 1
    /\ UNCHANGED <<config, step, worker, missed, short, aborts, resets>>

AbortRequest(r) ==
    /\ step.pc = "idle"
    /\ Live(r)
    /\ aborts < MaxAborts
    /\ aborts' = aborts + 1
    /\ ec' = free(ec, r)
    /\ Leave({r})
    /\ UNCHANGED <<config, step, inflight, executed, worker, missed, short, resets>>

\* Mutant: only the scheduler resets.
ResetEncoderCache_scheduler ==
    /\ step.pc = "idle"
    /\ executed = Len(inflight)
    /\ resets < MaxResets
    /\ resets' = resets + 1
    /\ ec' = reset(ec)
    /\ UNCHANGED worker
    /\ UNCHANGED <<config, req, running, waiting, step, inflight, executed, missed, short, aborts>>

\* EngineCore.reset_encoder_cache: the call to the workers queues behind the
\* batches in flight, and the engine waits for it.
ResetEncoderCache ==
    /\ step.pc = "idle"
    /\ executed = Len(inflight)
    /\ resets < MaxResets
    /\ resets' = resets + 1
    /\ ec' = reset(ec)
    /\ worker' = {}
    /\ UNCHANGED <<config, req, running, waiting, step, inflight, executed, missed, short, aborts>>

EngineStep ==
    \/ BeginStep
    \/ \E k \in 0 .. MaxRunning : ScheduleRunning(k)
    \/ \E hit \in Hits, room \in BOOLEAN : ScheduleWaiting(hit, room)
    \/ EndStep
    \/ UpdateFromOutput

Next ==
    \/ EngineStep
    \/ ExecuteModel
    \/ ResetEncoderCache
    \/ \E r \in Requests : AddRequest(r) \/ AbortRequest(r)

Spec == Init /\ [][Next]_vars

\* schedule() returns; the busy loop calls it again while there is work and
\* room for a batch, and takes the result of a batch that has run: it waits for
\* the oldest one whenever it cannot schedule.  The worker runs the batches it
\* gets.  The guards and effects of the
\* actions are written out.
Fairness ==
    /\ []<>(step.pc = "idle")
    /\ <>[](Len(inflight) < MaxInflight /\ running \o waiting # <<>>)
         => []<><<step.pc = "idle" /\ step'.pc = "running">>_vars
    /\ []<>(executed > 0) => []<><<Len(inflight') < Len(inflight)>>_vars
    /\ <>[](executed < Len(inflight)) => []<><<executed' > executed>>_vars

FairSpec == Spec /\ Fairness

-----------------------------------------------------------------------------
(* Properties.                                                             *)

\* The shape of the state; the two counters of the manager stay between zero
\* and cache_size.
TypeOK ==
    /\ DOMAIN ec.cached \subseteq DOMAIN Size
    /\ \A h \in DOMAIN ec.cached : ec.cached[h] \subseteq Requests
    /\ 0 <= ec.num_free_slots /\ ec.num_free_slots <= ec.num_freeable_slots
    /\ ec.num_freeable_slots <= CacheSize
    /\ \A r \in Requests : req[r].computed \in 0 .. PromptLen[r]
    /\ worker \subseteq DOMAIN Size
    /\ executed \in 0 .. Len(inflight)

\* Only running requests refer to items: a request that waits, was preempted
\* or has ended pins no encoder output.
RunningRefer == \A h \in DOMAIN ec.cached : ec.cached[h] \subseteq Range(running)

\* The two counters of the manager are those of its tables: the free slots
\* are what the cached items leave, the freeable slots count the items that
\* no request refers to, and those are the ones in `freeable`, once each.  So no
\* assertion of allocate() fails and no pop from `freeable` finds it empty or
\* without the key, in whatever order requests share, release and evict items.
CountersExact ==
    /\ ~ec.error
    /\ ec.num_free_slots = CacheSize - SumFunctionOnSet(Size, DOMAIN ec.cached)
    /\ ec.num_freeable_slots = ec.num_free_slots + SizeOf(ec.freeable)
    /\ Range(ec.freeable) = {h \in DOMAIN ec.cached : ec.cached[h] = {}}
    /\ IsInjective(ec.freeable)

\* The counters are exact, and only running requests refer to items.
SlotsExact == TypeOK /\ RunningRefer /\ CountersExact

\* Every batch finds the encoder outputs of its tokens in the worker's cache
\* (the assertion "Encoder cache miss"), though the scheduler evicts and
\* releases while earlier batches are still to run.
OutputsPresent == missed = {}

\* The worker keeps no output that the manager no longer counts, unless word
\* of the eviction is on its way: the memory of the worker is what the
\* manager accounts for.
WorkerAccounted ==
    worker \subseteq DOMAIN ec.cached \cup Range(ec.freed)
                       \cup UNION {Range(inflight[i].freed) : i \in executed + 1 .. Len(inflight)}

\* Every request that is added ends: requests do not block each other for
\* ever with the items they hold.
EveryRequestEnds == \A r \in Requests : Holds(r, "WAITING") ~> Holds(r, "FINISHED")
=============================================================================
