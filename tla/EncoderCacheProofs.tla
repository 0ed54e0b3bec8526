------------------------- MODULE EncoderCacheProofs -------------------------
(***************************************************************************)
(* For any requests, items and sizes, and for any budgets: the counters of *)
(* the encoder cache are exact, the worker holds nothing the manager does  *)
(* not count, and, if the drafter does not read ahead, a batch finds the   *)
(* encoder outputs it needs.  The inductive invariant follows what the     *)
(* worker will hold after each batch that is still in flight.              *)
(***************************************************************************)
EXTENDS EncoderManagerProofs

\* Most leaves need no arithmetic; those that do cite SMT.
USE Zenon

-----------------------------------------------------------------------------
(* The inductive invariant.                                                *)

Status == {"NEW", "WAITING", "RUNNING", "PREEMPTED", "FINISHED"}

Records == [Requests -> [status : Status, computed : Nat]]

Steps == [pc : {"idle", "running", "waiting", "end"}, index : Nat, tokens : Nat,
          budget : Int, preempted : BOOLEAN, entries : Seq(Entries)]

Batches == [entries : Seq(Entries), freed : Seq(DOMAIN Size)]

TypeInv ==
  /\ req \in Records
  /\ \A r \in Requests : req[r].computed <= PromptLen[r]
  /\ running \in Seq(Requests) /\ waiting \in Seq(Requests)
  /\ step \in Steps
  /\ inflight \in Seq(Batches)
  /\ executed \in 0 .. Len(inflight)

\* A request is in one queue, once, and new requests are in none.
QueuesInv ==
  /\ IsInjective(running) /\ IsInjective(waiting)
  /\ Range(running) \cap Range(waiting) = {}
  /\ \A r \in Range(running) \cup Range(waiting) : req[r].status # "NEW"

CacheInv == Exact(ec) /\ Owned(ec)

\* One entry for each request.
Distinct(entries) ==
  \A i, j \in DOMAIN entries : entries[i].r = entries[j].r => i = j

\* The loop over the running requests has passed them.
Joined(entries, run, index) ==
  /\ index > 0
  /\ \A e \in Range(entries) : \E p \in 1 .. Len(run) : p < index /\ run[p] = e.r

\* The batch that is being put together.
StepInv ==
  /\ step.pc = "idle" => step = NoStep /\ ec.freed = <<>>
  /\ Distinct(step.entries)
  /\ \A e \in Range(step.entries) : e.r \in Range(running) /\ EntryOK(e, ec, req)
  /\ step.pc = "running" => Joined(step.entries, running, step.index)

\* v tells what the worker will have after each batch; without a drafter it
\* has what the batch needs.
View(v, batches, n, w) ==
  /\ v \in [n .. Len(batches) -> SUBSET DOMAIN Size]
  /\ v[n] = w
  /\ \A i \in n + 1 .. Len(batches) :
       /\ v[i] = (v[i - 1] \ Range(batches[i].freed)) \cup Encoded(batches[i].entries)
       /\ Shift = 0 => \A e \in Range(batches[i].entries) : Needed(e) \subseteq v[i]

ViewInv ==
  \E v : View(v, inflight, executed, worker) /\ Mirrors(ec, v[Len(inflight)], Encoded(step.entries))

MissedInv == Shift = 0 => missed = {}

ReferInv == Shift = 0 /\ ItemsApart => ReferTo(ec, Range(running))

Inv == TypeInv /\ QueuesInv /\ CacheInv /\ StepInv /\ ViewInv /\ MissedInv /\ ReferInv

\* The empty cache.
LEMMA EmptyFacts ==
  /\ Exact(EmptyCache) /\ Owned(EmptyCache) /\ EmptyCache.freed = <<>>
  /\ DOMAIN EmptyCache.cached = {} /\ EmptyCache \in Caches
  /\ Range(<<>>) = {} /\ IsInjective(<<>>) /\ <<>> \in Seq(Entries) /\ <<>> \in Seq(Requests)
  /\ <<>> \in Seq(DOMAIN Size) /\ <<>> \in Seq(Batches) /\ Len(<<>>) = 0 /\ DOMAIN <<>> = {}
<1>1. /\ DOMAIN <<>> = {} /\ <<>> \in Seq(DOMAIN Size) /\ CacheSize \in Int
      /\ <<>> \in Seq(Entries) /\ <<>> \in Seq(Requests) /\ <<>> \in Seq(Batches)
      /\ Len(<<>>) = 0
  BY EncoderCacheAssumption, SMT
<1>2. Range(<<>>) = {} /\ IsInjective(<<>>)
  BY <1>1 DEF Range, IsInjective
<1>3. <<>> \in [{} -> SUBSET Requests] /\ {} \in SUBSET DOMAIN Size
  BY SMT
<1>4. <<>> \in Tables
  BY <1>3, TableType
<1>5. /\ EmptyCache.cached = <<>> /\ EmptyCache.freeable = <<>> /\ EmptyCache.freed = <<>>
      /\ EmptyCache.num_free_slots = CacheSize /\ EmptyCache.num_freeable_slots = CacheSize
      /\ EmptyCache.error = FALSE
  BY DEF EmptyCache
<1>6. EmptyCache \in Caches
  BY <1>1, <1>4 DEF EmptyCache, Caches
<1>7. Idle(EmptyCache) = {}
  BY <1>1, <1>5 DEF Idle
<1>8. /\ CacheSize = CacheSize - Weight({}) /\ CacheSize >= 0
      /\ CacheSize = CacheSize + Weight({})
  BY WeightSmall, EncoderCacheAssumption, SMT
<1>9. Exact(EmptyCache)
  BY <1>1, <1>2, <1>5, <1>6, <1>7, <1>8, WeightSmall DEF Exact
<1> QED BY <1>1, <1>2, <1>5, <1>6, <1>9 DEF Owned

\* The state between two calls of schedule.
LEMMA NoStepFacts ==
  NoStep \in Steps /\ NoStep.pc = "idle" /\ NoStep.entries = <<>> /\ Encoded(<<>>) = {}
<1>1. 0 \in Nat /\ 0 \in Int
  BY SMT
<1>2. Encoded(<<>>) = {}
  BY EmptyFacts DEF Encoded
<1> QED BY <1>1, <1>2, EmptyFacts DEF NoStep, Steps

\* Initially nothing is cached, queued or scheduled.
LEMMA InitInv == Init => Inv
<1> SUFFICES ASSUME Init PROVE Inv
  OBVIOUS
<1>1. TypeInv
  <2>1. req \in Records /\ \A r \in Requests : req[r].computed = 0
    <3>1. 0 \in Nat
      BY SMT
    <3> QED BY <3>1 DEF Init, Records, Status
  <2>2. \A r \in Requests : req[r].computed <= PromptLen[r]
    <3>1. \A r \in Requests : 0 <= PromptLen[r]
      BY EncoderCacheAssumption, SMT
    <3> QED BY <2>1, <3>1
  <2>3. executed \in 0 .. Len(inflight)
    BY SMT DEF Init
  <2> QED BY <2>1, <2>2, <2>3, EmptyFacts, NoStepFacts DEF Init, TypeInv
<1>2. QueuesInv
  BY EmptyFacts DEF Init, QueuesInv
<1>3. CacheInv
  BY EmptyFacts DEF Init, CacheInv
<1>4. StepInv
  BY EmptyFacts, NoStepFacts DEF Init, StepInv, Distinct, Joined
<1>5. ViewInv
  <2> DEFINE v == [i \in 0 .. 0 |-> {}]
  <2>1. 0 \in 0 .. 0 /\ 0 + 1 .. 0 = {}
    BY SMT
  <2>2. v \in [0 .. 0 -> SUBSET DOMAIN Size] /\ v[0] = {}
    BY <2>1
  <2> HIDE DEF v
  <2>3. inflight = <<>> /\ executed = 0 /\ worker = {} /\ ec = EmptyCache /\ step = NoStep
    BY DEF Init
  <2>4. View(v, inflight, executed, worker)
    BY <2>1, <2>2, <2>3, EmptyFacts DEF View
  <2>5. Mirrors(ec, v[Len(inflight)], Encoded(step.entries))
    BY <2>2, <2>3, EmptyFacts, NoStepFacts DEF Mirrors
  <2> QED BY <2>4, <2>5 DEF ViewInv
<1>6. MissedInv /\ ReferInv
  BY EmptyFacts DEF Init, MissedInv, ReferInv, ReferTo
<1> QED BY <1>1, <1>2, <1>3, <1>4, <1>5, <1>6 DEF Inv

\* Between two calls of schedule there is no batch that is being put together.
LEMMA IdleFacts ==
  ASSUME StepInv, step.pc = "idle"
  PROVE  /\ step = NoStep /\ ec.freed = <<>> /\ step.entries = <<>>
         /\ Range(step.entries) = {} /\ Encoded(step.entries) = {}
BY NoStepFacts, EmptyFacts DEF StepInv

\* The invariant of a state without a batch that is being put together.
LEMMA IdleInv ==
  ASSUME Inv, step' = NoStep, ec'.freed = <<>>, TypeInv', QueuesInv', CacheInv', MissedInv', ReferInv',
         NEW v, View(v, inflight', executed', worker'), DOMAIN ec'.cached = v[Len(inflight')]
  PROVE  Inv'
<1>1. step'.entries = <<>> /\ Range(step'.entries) = {} /\ Encoded(step'.entries) = {}
      /\ step'.pc = "idle" /\ DOMAIN step'.entries = {}
  BY NoStepFacts, EmptyFacts
<1>2. StepInv'
  BY <1>1 DEF StepInv, Distinct
<1>3. Mirrors(ec', v[Len(inflight')], Encoded(step'.entries))
  BY <1>1, EmptyFacts DEF Mirrors
<1>4. ViewInv'
  BY <1>3 DEF ViewInv
<1> QED BY <1>2, <1>4 DEF Inv

\* add_request.
LEMMA AddInv ==
  ASSUME Inv, NEW r \in Requests, AddRequest(r)
  PROVE  Inv'
<1>1. /\ TypeInv /\ QueuesInv /\ CacheInv /\ StepInv /\ ViewInv /\ MissedInv /\ ReferInv
  BY DEF Inv
<1>2. /\ step.pc = "idle" /\ req[r].status = "NEW"
      /\ req' = [req EXCEPT ![r].status = "WAITING"]
      /\ waiting' = Append(waiting, r)
      /\ ec' = ec /\ running' = running /\ step' = step /\ inflight' = inflight
      /\ executed' = executed /\ worker' = worker /\ missed' = missed
  BY DEF AddRequest, Holds
<1>3. step = NoStep /\ ec.freed = <<>> /\ Encoded(step.entries) = {}
  BY <1>1, <1>2, IdleFacts
<1>4. /\ req \in Records /\ waiting \in Seq(Requests)
      /\ \A q \in Requests : req[q].computed <= PromptLen[q]
  BY <1>1 DEF TypeInv
<1>5. /\ req' \in Records
      /\ \A q \in Requests : req'[q].computed = req[q].computed
      /\ \A q \in Requests : req'[q].status = IF q = r THEN "WAITING" ELSE req[q].status
  BY <1>2, <1>4 DEF Records, Status
<1>6. r \notin Range(running) \cup Range(waiting)
  BY <1>1, <1>2 DEF QueuesInv
<1>7. waiting' \in Seq(Requests) /\ Range(waiting') = Range(waiting) \cup {r} /\ IsInjective(waiting')
  <2>1. IsInjective(waiting) /\ r \notin Range(waiting)
    BY <1>1, <1>6 DEF QueuesInv
  <2> QED BY <1>2, <1>4, <2>1, AppendFacts, SMT
<1>8. TypeInv'
  BY <1>1, <1>2, <1>4, <1>5, <1>7 DEF TypeInv
<1>9. QueuesInv'
  <2>1. Range(running) \subseteq Requests /\ Range(waiting) \subseteq Requests
    BY <1>1, SeqFacts DEF TypeInv
  <2>2. Range(running') \cap Range(waiting') = {}
    BY <1>1, <1>2, <1>6, <1>7 DEF QueuesInv
  <2>3. \A q \in Range(running') \cup Range(waiting') : req'[q].status # "NEW"
    <3>1. \A q \in Range(running) \cup Range(waiting) : req[q].status # "NEW"
      BY <1>1 DEF QueuesInv
    <3>2. \A q \in Range(running') \cup Range(waiting') : q \in Requests /\ (q = r \/ req[q].status # "NEW")
      BY <1>2, <1>7, <2>1, <3>1
    <3>3. "WAITING" # "NEW"
      OBVIOUS
    <3> SUFFICES ASSUME NEW q \in Range(running') \cup Range(waiting') PROVE req'[q].status # "NEW"
      OBVIOUS
    <3>4. CASE q = r
      BY <1>5, <3>3, <3>4
    <3>5. CASE q # r
      BY <1>5, <3>2, <3>5
    <3> QED BY <3>4, <3>5
  <2> QED BY <1>1, <1>2, <1>7, <2>2, <2>3 DEF QueuesInv
<1>10. CacheInv' /\ MissedInv' /\ ReferInv'
  BY <1>1, <1>2 DEF CacheInv, MissedInv, ReferInv
<1>11. PICK v : View(v, inflight, executed, worker) /\ Mirrors(ec, v[Len(inflight)], Encoded(step.entries))
  BY <1>1 DEF ViewInv
<1>12. DOMAIN ec.cached = v[Len(inflight)]
  BY <1>3, <1>11, EmptyFacts DEF Mirrors
<1> QED BY <1>2, <1>3, <1>8, <1>9, <1>10, <1>11, <1>12, IdleInv

\* schedule() starts.
LEMMA BeginInv ==
  ASSUME Inv, BeginStep
  PROVE  Inv'
<1>1. /\ TypeInv /\ QueuesInv /\ CacheInv /\ StepInv /\ ViewInv /\ MissedInv /\ ReferInv
  BY DEF Inv
<1>2. /\ step.pc = "idle"
      /\ step' = [NoStep EXCEPT !.pc = "running", !.index = 1,
                                !.tokens = TokenBudget, !.budget = EncoderBudget]
      /\ ec' = ec /\ running' = running /\ waiting' = waiting /\ req' = req
      /\ inflight' = inflight /\ executed' = executed /\ worker' = worker /\ missed' = missed
  BY DEF BeginStep
<1>3. step.entries = <<>>
  BY <1>1, <1>2, IdleFacts
<1>4. step' \in Steps /\ step'.pc = "running" /\ step'.entries = <<>> /\ step'.index > 0
  <2>1. 1 > 0 /\ 1 \in Nat /\ TokenBudget \in Nat /\ EncoderBudget \in Int
    BY EncoderCacheAssumption, SMT
  <2> QED BY <1>2, <2>1, NoStepFacts DEF Steps
<1>5. TypeInv' /\ QueuesInv' /\ CacheInv' /\ MissedInv' /\ ReferInv'
  BY <1>1, <1>2, <1>4 DEF TypeInv, QueuesInv, CacheInv, MissedInv, ReferInv
<1>6. StepInv'
  BY <1>4, EmptyFacts DEF StepInv, Distinct, Joined
<1>7. ViewInv'
  BY <1>1, <1>2, <1>3, <1>4 DEF ViewInv
<1> QED BY <1>5, <1>6, <1>7 DEF Inv

\* The worker runs the next batch.
LEMMA ExecuteInv ==
  ASSUME Inv, ExecuteModel
  PROVE  Inv'
<1> DEFINE n == executed + 1
           b == inflight[n]
<1>1. /\ TypeInv /\ QueuesInv /\ CacheInv /\ StepInv /\ ViewInv /\ MissedInv /\ ReferInv
  BY DEF Inv
<1>2. /\ executed < Len(inflight) /\ executed' = n
      /\ worker' = (worker \ Range(b.freed)) \cup Encoded(b.entries)
      /\ missed' = missed \cup ((UNION {Needed(e) : e \in Range(b.entries)}) \ worker')
      /\ ec' = ec /\ running' = running /\ waiting' = waiting /\ req' = req /\ step' = step
      /\ inflight' = inflight
  BY DEF ExecuteModel, Encoded
<1>3. PICK v : View(v, inflight, executed, worker) /\ Mirrors(ec, v[Len(inflight)], Encoded(step.entries))
  BY <1>1 DEF ViewInv
<1>4. executed \in 0 .. Len(inflight) /\ Len(inflight) \in Nat
  BY <1>1, SeqFacts DEF TypeInv
<1>5. /\ n \in executed + 1 .. Len(inflight) /\ n \in 0 .. Len(inflight) /\ n - 1 = executed
      /\ n + 1 .. Len(inflight) \subseteq executed + 1 .. Len(inflight)
      /\ n .. Len(inflight) \subseteq executed .. Len(inflight)
      /\ n \in n .. Len(inflight) /\ Len(inflight) \in n .. Len(inflight)
      /\ \A i \in n + 1 .. Len(inflight) : i \in n .. Len(inflight) /\ i - 1 \in n .. Len(inflight)
  BY <1>2, <1>4, SMT
<1>6. /\ v[n] = (v[n - 1] \ Range(b.freed)) \cup Encoded(b.entries)
      /\ Shift = 0 => \A e \in Range(b.entries) : Needed(e) \subseteq v[n]
  BY <1>3, <1>5 DEF View
<1>7. v[executed] = worker
  BY <1>3 DEF View
<1>8. worker' = v[n]
  BY <1>2, <1>5, <1>6, <1>7
<1> HIDE DEF n, b
<1> DEFINE w == [i \in n .. Len(inflight) |-> v[i]]
<1>9. w \in [n .. Len(inflight) -> SUBSET DOMAIN Size] /\ \A i \in n .. Len(inflight) : w[i] = v[i]
  BY <1>3, <1>5 DEF View
<1> HIDE DEF w
<1>10. View(w, inflight, n, v[n])
  <2>1. \A i \in n + 1 .. Len(inflight) :
          /\ v[i] = (v[i - 1] \ Range(inflight[i].freed)) \cup Encoded(inflight[i].entries)
          /\ Shift = 0 => \A e \in Range(inflight[i].entries) : Needed(e) \subseteq v[i]
    BY <1>3, <1>5 DEF View
  <2>2. \A i \in n + 1 .. Len(inflight) : w[i] = v[i] /\ w[i - 1] = v[i - 1]
    BY <1>5, <1>9
  <2>3. \A i \in n + 1 .. Len(inflight) :
          /\ w[i] = (w[i - 1] \ Range(inflight[i].freed)) \cup Encoded(inflight[i].entries)
          /\ Shift = 0 => \A e \in Range(inflight[i].entries) : Needed(e) \subseteq w[i]
    BY <2>1, <2>2
  <2> QED BY <1>5, <1>9, <2>3 DEF View
<1>11. Mirrors(ec, w[Len(inflight)], Encoded(step.entries))
  BY <1>3, <1>5, <1>9
<1>12. ViewInv'
  BY <1>2, <1>8, <1>10, <1>11 DEF ViewInv
<1>13. MissedInv'
  <2> SUFFICES ASSUME Shift = 0 PROVE missed' = {}
    BY DEF MissedInv
  <2>1. missed = {} /\ \A e \in Range(b.entries) : Needed(e) \subseteq worker'
    BY <1>1, <1>6, <1>8 DEF MissedInv
  <2> SUFFICES ASSUME NEW x, x \in missed' PROVE FALSE
    OBVIOUS
  <2>2. missed' = missed \cup ((UNION {Needed(e) : e \in Range(b.entries)}) \ worker')
    BY <1>2, SMT
  <2>3. x \notin worker' /\ \E e \in Range(b.entries) : x \in Needed(e)
    BY <2>1, <2>2
  <2> QED BY <2>1, <2>3
<1>14. TypeInv'
  BY <1>1, <1>2, <1>5 DEF TypeInv
<1>15. QueuesInv' /\ CacheInv' /\ StepInv' /\ ReferInv'
  BY <1>1, <1>2 DEF QueuesInv, CacheInv, StepInv, ReferInv
<1> QED BY <1>12, <1>13, <1>14, <1>15 DEF Inv

\* reset_encoder_cache.
LEMMA ResetInv ==
  ASSUME Inv, ResetEncoderCache
  PROVE  Inv'
<1>1. /\ TypeInv /\ QueuesInv /\ CacheInv /\ StepInv /\ ViewInv /\ MissedInv /\ ReferInv
  BY DEF Inv
<1>2. /\ step.pc = "idle" /\ executed = Len(inflight) /\ ec' = reset(ec) /\ worker' = {}
      /\ running' = running /\ waiting' = waiting /\ req' = req /\ step' = step
      /\ inflight' = inflight /\ executed' = executed /\ missed' = missed
  BY DEF ResetEncoderCache
<1>3. ec' = EmptyCache
  <2>1. ec.error = FALSE
    <3>1. ec \in Caches /\ ~ec.error
      BY <1>1 DEF CacheInv, Exact
    <3> QED BY <3>1 DEF Caches
  <2>2. reset(ec) = [EmptyCache EXCEPT !.error = FALSE]
    BY <2>1 DEF reset
  <2>3. [EmptyCache EXCEPT !.error = FALSE] = EmptyCache
    <3>1. \A x : x = FALSE => [EmptyCache EXCEPT !.error = x]
                                = [EmptyCache EXCEPT !.error = EmptyCache.error]
      BY DEF EmptyCache
    <3>2. EmptyCache = [f \in DOMAIN EmptyCache |-> EmptyCache[f]]
      BY DEF EmptyCache
    <3>3. [EmptyCache EXCEPT !.error = EmptyCache.error] = EmptyCache
      BY <3>2
    <3> QED BY <3>1, <3>3
  <2> QED BY <1>2, <2>2, <2>3
<1>4. step' = NoStep
  BY <1>1, <1>2, IdleFacts
<1>5. TypeInv' /\ QueuesInv' /\ MissedInv'
  BY <1>1, <1>2 DEF TypeInv, QueuesInv, MissedInv
<1>6. CacheInv' /\ ReferInv' /\ ec'.freed = <<>>
  BY <1>3, EmptyFacts DEF CacheInv, ReferInv, ReferTo
<1> DEFINE n == Len(inflight)
           v == [i \in n .. n |-> {}]
<1>7. n \in Nat
  BY <1>1, SeqFacts DEF TypeInv
<1>8. n \in n .. n /\ n + 1 .. n = {}
  BY <1>7, SMT
<1>9. v \in [n .. n -> SUBSET DOMAIN Size] /\ v[n] = {}
  BY <1>8
<1> HIDE DEF v
<1>10. View(v, inflight', executed', worker')
  BY <1>2, <1>8, <1>9 DEF View
<1>11. DOMAIN ec'.cached = v[Len(inflight')]
  BY <1>2, <1>3, <1>9, EmptyFacts
<1> QED BY <1>4, <1>5, <1>6, <1>10, <1>11, IdleInv

\* The sum of at most one number.
LEMMA SumSmall ==
  ASSUME NEW n \in Nat, NEW S, S \subseteq {n}
  PROVE  SumSet(S) = IF S = {} THEN 0 ELSE n
<1> DEFINE pick(s) == CHOOSE x \in s : TRUE
           Def(g) == g = [s \in SUBSET S |-> IF s = {} THEN 0 ELSE pick(s) + g[s \ {pick(s)}]]
           it == CHOOSE g : Def(g)
           f == [s \in SUBSET S |-> IF s = {} THEN 0 ELSE n]
<1>1. \A s \in SUBSET S : s # {} => pick(s) = n /\ s \ {pick(s)} = {}
  <2> SUFFICES ASSUME NEW s \in SUBSET S, s # {} PROVE pick(s) = n /\ s \ {pick(s)} = {}
    OBVIOUS
  <2>1. pick(s) \in s
    OBVIOUS
  <2> HIDE DEF pick
  <2> QED BY <2>1
<1>2. {} \in SUBSET S /\ n + 0 = n
  BY SMT
<1>3. Def(f)
  <2>1. f[{}] = 0
    BY <1>2
  <2>2. \A s \in SUBSET S : (IF s = {} THEN 0 ELSE n) = (IF s = {} THEN 0 ELSE pick(s) + f[s \ {pick(s)}])
    <3> HIDE DEF f, pick
    <3> QED BY <1>1, <1>2, <2>1
  <2> HIDE DEF pick
  <2> QED BY <2>2
<1>4. Def(it)
  <2> HIDE DEF f, Def
  <2> QED BY <1>3
<1>5. it[S] = IF S = {} THEN 0 ELSE pick(S) + it[S \ {pick(S)}]
  <2> HIDE DEF pick, it
  <2> QED BY <1>4
<1>6. it[{}] = 0
  <2> HIDE DEF pick, it
  <2> QED BY <1>2, <1>4
<1>7. SumSet(S) = it[S]
  BY DEF SumSet, FoldSet, MapThenFoldSet
<1> HIDE DEF it, pick
<1> QED BY <1>1, <1>2, <1>5, <1>6, <1>7

\* Requests leave the queues.
LEMMA LeaveFacts ==
  ASSUME TypeInv, QueuesInv, NEW rs, Leave(rs)
  PROVE  /\ req' \in Records /\ \A q \in Requests : req'[q].computed = req[q].computed
         /\ running' \in Seq(Requests) /\ waiting' \in Seq(Requests)
         /\ Range(running') = Range(running) \ rs
         /\ QueuesInv'
<1>1. req \in Records /\ running \in Seq(Requests) /\ waiting \in Seq(Requests)
  BY DEF TypeInv
<1>2. /\ req' = [r \in Requests |-> IF r \in rs THEN [req[r] EXCEPT !.status = "FINISHED"] ELSE req[r]]
      /\ running' = Among(running, Range(running) \ rs)
      /\ waiting' = Among(waiting, Range(waiting) \ rs)
  BY DEF Leave
<1>3. \A r \in Requests :
        /\ req'[r] \in [status : Status, computed : Nat] /\ req'[r].computed = req[r].computed
        /\ req[r].status # "NEW" => req'[r].status # "NEW"
  <2> SUFFICES ASSUME NEW r \in Requests
               PROVE  /\ req'[r] \in [status : Status, computed : Nat]
                      /\ req'[r].computed = req[r].computed
                      /\ req[r].status # "NEW" => req'[r].status # "NEW"
    OBVIOUS
  <2>1. req[r] \in [status : Status, computed : Nat]
    BY <1>1 DEF Records
  <2>2. CASE r \in rs
    <3>1. req'[r] = [req[r] EXCEPT !.status = "FINISHED"]
      BY <1>2, <2>2
    <3>2. "FINISHED" \in Status /\ "FINISHED" # "NEW"
      BY DEF Status
    <3> QED BY <2>1, <3>1, <3>2
  <2>3. CASE r \notin rs
    BY <1>2, <2>1, <2>3
  <2> QED BY <2>2, <2>3
<1>4. req' \in Records
  BY <1>2, <1>3 DEF Records
<1> IsInjective(running) /\ IsInjective(waiting)
  BY DEF QueuesInv
<1>5. /\ running' \in Seq(Requests) /\ Range(running') = Range(running) \ rs /\ IsInjective(running')
  <2> DEFINE S == Range(running) \ rs
  <2>1. Range(running) \cap S = S
    OBVIOUS
  <2>2. running' = Among(running, S)
    BY <1>2
  <2> HIDE DEF S
  <2>3. /\ Among(running, S) \in Seq(Requests) /\ Range(Among(running, S)) = Range(running) \cap S
        /\ IsInjective(Among(running, S))
    BY <1>1, AmongFacts
  <2>4. running' \in Seq(Requests) /\ Range(running') = S /\ IsInjective(running')
    BY <2>1, <2>2, <2>3
  <2> QED BY <2>4 DEF S
<1>6. /\ waiting' \in Seq(Requests) /\ Range(waiting') = Range(waiting) \ rs /\ IsInjective(waiting')
  <2> DEFINE S == Range(waiting) \ rs
  <2>1. Range(waiting) \cap S = S
    OBVIOUS
  <2>2. waiting' = Among(waiting, S)
    BY <1>2
  <2> HIDE DEF S
  <2>3. /\ Among(waiting, S) \in Seq(Requests) /\ Range(Among(waiting, S)) = Range(waiting) \cap S
        /\ IsInjective(Among(waiting, S))
    BY <1>1, AmongFacts
  <2>4. waiting' \in Seq(Requests) /\ Range(waiting') = S /\ IsInjective(waiting')
    BY <2>1, <2>2, <2>3
  <2> QED BY <2>4 DEF S
<1>7. Range(running) \subseteq Requests /\ Range(waiting) \subseteq Requests
  BY <1>1, SeqFacts
<1>8. QueuesInv'
  BY <1>3, <1>5, <1>6, <1>7 DEF QueuesInv
<1> QED BY <1>3, <1>4, <1>5, <1>6, <1>8

\* finish_requests.
LEMMA AbortInv ==
  ASSUME Inv, NEW r \in Requests, AbortRequest(r)
  PROVE  Inv'
<1>1. /\ TypeInv /\ QueuesInv /\ CacheInv /\ StepInv /\ ViewInv /\ MissedInv /\ ReferInv
  BY DEF Inv
<1>2. /\ step.pc = "idle" /\ ec' = free(ec, r) /\ Leave({r})
      /\ step' = step /\ inflight' = inflight /\ executed' = executed /\ worker' = worker
      /\ missed' = missed
  BY DEF AbortRequest
<1>3. step = NoStep /\ ec.freed = <<>> /\ Encoded(step.entries) = {}
  BY <1>1, <1>2, IdleFacts
<1>4. Exact(ec) /\ Owned(ec)
  BY <1>1 DEF CacheInv
<1>5. /\ Exact(ec') /\ Owned(ec') /\ Shrunk(ec, ec', {r}) /\ \A h : ~Refers(ec', r, h)
  BY <1>2, <1>4, FreeRequest
<1>6. /\ req' \in Records /\ \A q \in Requests : req'[q].computed = req[q].computed
      /\ running' \in Seq(Requests) /\ waiting' \in Seq(Requests)
      /\ Range(running') = Range(running) \ {r} /\ QueuesInv'
  BY <1>1, <1>2, LeaveFacts
<1>7. TypeInv'
  BY <1>1, <1>2, <1>6 DEF TypeInv
<1>8. CacheInv' /\ MissedInv'
  BY <1>1, <1>2, <1>5 DEF CacheInv, MissedInv
<1>9. ReferInv'
  <2> SUFFICES ASSUME Shift = 0, ItemsApart PROVE ReferTo(ec', Range(running'))
    BY DEF ReferInv
  <2>1. ReferTo(ec, Range(running)) /\ \A q \in {r} : \A h : ~Refers(ec', q, h)
    BY <1>1, <1>5 DEF ReferInv
  <2>2. ReferTo(ec', Range(running) \ {r})
    BY <1>5, <2>1, ShrunkReferTo
  <2> QED BY <1>6, <2>2
<1>10. PICK v : View(v, inflight, executed, worker) /\ Mirrors(ec, v[Len(inflight)], Encoded(step.entries))
  BY <1>1 DEF ViewInv
<1>11. DOMAIN ec.cached = v[Len(inflight)]
  BY <1>3, <1>10, EmptyFacts DEF Mirrors
<1>12. DOMAIN ec'.cached = v[Len(inflight')] /\ ec'.freed = <<>>
  BY <1>2, <1>3, <1>5, <1>11 DEF Shrunk
<1> QED BY <1>2, <1>3, <1>6, <1>7, <1>8, <1>9, <1>10, <1>12, IdleInv

\* update_from_output.
LEMMA UpdateInv ==
  ASSUME Inv, UpdateFromOutput
  PROVE  Inv'
<1> DEFINE b == Head(inflight)
           n == Len(inflight)
           gone == Ended(b.entries)
<1>1. /\ TypeInv /\ QueuesInv /\ CacheInv /\ StepInv /\ ViewInv /\ MissedInv /\ ReferInv
  BY DEF Inv
<1>2. /\ step.pc = "idle" /\ executed > 0 /\ ec' = UpdatedAll(ec, b.entries) /\ Leave(gone)
      /\ inflight' = Tail(inflight) /\ executed' = executed - 1
      /\ step' = step /\ worker' = worker /\ missed' = missed
  BY DEF UpdateFromOutput, UpdatedAll
<1>3. step = NoStep /\ ec.freed = <<>> /\ Encoded(step.entries) = {}
  BY <1>1, <1>2, IdleFacts
<1>4. Exact(ec) /\ Owned(ec) /\ inflight \in Seq(Batches) /\ executed \in 0 .. n
  BY <1>1 DEF CacheInv, TypeInv
<1>5. n \in Nat /\ inflight # <<>> /\ executed - 1 \in 0 .. n - 1 /\ executed \in 1 .. n
  BY <1>2, <1>4, SMT
<1>6. /\ b \in Batches /\ inflight' \in Seq(Batches) /\ Len(inflight') = n - 1
      /\ \A i \in 1 .. n - 1 : inflight'[i] = inflight[i + 1]
  <2>1. inflight \in Seq(Batches) /\ inflight # <<>>
    BY <1>4, <1>5
  <2>2. /\ b \in Batches /\ Tail(inflight) \in Seq(Batches) /\ Len(Tail(inflight)) = n - 1
        /\ \A i \in 1 .. n - 1 : Tail(inflight)[i] = inflight[i + 1]
    BY ONLY <2>1, SMT
  <2> QED BY <1>2, <2>2
<1>7. b.entries \in Seq(Entries)
  BY <1>6 DEF Batches
<1> HIDE DEF b, n
<1>8. /\ Exact(ec') /\ Owned(ec') /\ Shrunk(ec, ec', Requests)
      /\ \A r \in gone : \A h : ~Refers(ec', r, h)
  BY <1>2, <1>4, <1>7, UpdatedAllStep
<1> HIDE DEF gone
<1>9. /\ req' \in Records /\ \A q \in Requests : req'[q].computed = req[q].computed
      /\ running' \in Seq(Requests) /\ waiting' \in Seq(Requests)
      /\ Range(running') = Range(running) \ gone /\ QueuesInv'
  BY <1>1, <1>2, LeaveFacts
<1>10. TypeInv'
  <2>1. executed' \in 0 .. Len(inflight')
    BY <1>2, <1>5, <1>6
  <2> QED BY <1>1, <1>2, <1>6, <1>9, <2>1 DEF TypeInv
<1>11. CacheInv' /\ MissedInv'
  BY <1>1, <1>2, <1>8 DEF CacheInv, MissedInv
<1>12. ReferInv'
  <2> SUFFICES ASSUME Shift = 0, ItemsApart PROVE ReferTo(ec', Range(running'))
    BY DEF ReferInv
  <2>1. ReferTo(ec, Range(running))
    BY <1>1 DEF ReferInv
  <2>2. ReferTo(ec', Range(running) \ gone)
    BY <1>8, <2>1, ShrunkReferTo
  <2> QED BY <1>9, <2>2
<1>13. PICK v : View(v, inflight, executed, worker) /\ Mirrors(ec, v[n], Encoded(step.entries))
  BY <1>1 DEF ViewInv, n
<1>14. DOMAIN ec.cached = v[n]
  BY <1>3, <1>13, EmptyFacts DEF Mirrors
<1> DEFINE w == [i \in executed - 1 .. n - 1 |-> v[i + 1]]
<1>15. /\ \A i \in executed - 1 .. n - 1 : i + 1 \in executed .. n
       /\ \A i \in executed - 1 + 1 .. n - 1 :
            /\ i \in executed - 1 .. n - 1 /\ i - 1 \in executed - 1 .. n - 1
            /\ i + 1 \in executed + 1 .. n /\ i \in 1 .. n - 1
            /\ i + 1 - 1 = i /\ i - 1 + 1 = i
       /\ executed - 1 \in executed - 1 .. n - 1 /\ executed - 1 + 1 = executed
       /\ n - 1 \in executed - 1 .. n - 1 /\ n - 1 + 1 = n
  BY <1>5, SMT
<1>16. /\ w \in [executed - 1 .. n - 1 -> SUBSET DOMAIN Size]
       /\ \A i \in executed - 1 .. n - 1 : w[i] = v[i + 1]
  <2>1. v \in [executed .. n -> SUBSET DOMAIN Size]
    BY <1>13 DEF View, n
  <2> QED BY <1>15, <2>1
<1> HIDE DEF w
<1>17. w[executed - 1] = worker /\ w[n - 1] = v[n]
  BY <1>13, <1>15, <1>16 DEF View
<1>18. ASSUME NEW i \in executed - 1 + 1 .. n - 1
       PROVE  /\ w[i] = (w[i - 1] \ Range(inflight'[i].freed)) \cup Encoded(inflight'[i].entries)
              /\ Shift = 0 => \A e \in Range(inflight'[i].entries) : Needed(e) \subseteq w[i]
  <2> DEFINE j == i + 1
  <2>1. w[i] = v[j] /\ w[i - 1] = v[j - 1] /\ inflight'[i] = inflight[j] /\ j \in executed + 1 .. n
    <3>1. /\ i \in executed - 1 .. n - 1 /\ i - 1 \in executed - 1 .. n - 1 /\ i \in 1 .. n - 1
          /\ i - 1 + 1 = i /\ j \in executed + 1 .. n /\ j - 1 = i
      BY <1>5, <1>18, SMT
    <3>2. w[i] = v[j] /\ w[i - 1] = v[i]
      BY <1>16, <3>1
    <3>3. inflight'[i] = inflight[j]
      BY <1>6, <3>1
    <3> QED BY <3>1, <3>2, <3>3
  <2> HIDE DEF j
  <2>2. /\ v[j] = (v[j - 1] \ Range(inflight[j].freed)) \cup Encoded(inflight[j].entries)
        /\ Shift = 0 => \A e \in Range(inflight[j].entries) : Needed(e) \subseteq v[j]
    BY <1>13, <2>1 DEF View, n
  <2> QED BY <2>1, <2>2
<1>19. View(w, inflight', executed', worker')
  BY <1>2, <1>6, <1>16, <1>17, <1>18 DEF View
<1>20. DOMAIN ec'.cached = w[Len(inflight')] /\ ec'.freed = <<>>
  BY <1>3, <1>6, <1>8, <1>14, <1>17 DEF Shrunk
<1> QED BY <1>2, <1>3, <1>9, <1>10, <1>11, <1>12, <1>19, <1>20, IdleInv

\* Only the list of evicted items is emptied.
LEMMA FlushFacts ==
  ASSUME NEW c, NEW y, Exact(c), Owned(c), y = [c EXCEPT !.freed = <<>>]
  PROVE  Exact(y) /\ Owned(y) /\ y.cached = c.cached /\ y.freed = <<>>
<1>1. c \in Caches
  BY DEF Exact
<1>2. /\ y.cached = c.cached /\ y.freeable = c.freeable /\ y.freed = <<>>
      /\ y.num_free_slots = c.num_free_slots /\ y.num_freeable_slots = c.num_freeable_slots
      /\ y.error = c.error
  BY <1>1 DEF Caches
<1>3. y \in Caches
  BY <1>1, EmptyFacts DEF Caches
<1>4. Idle(y) = Idle(c)
  BY <1>2 DEF Idle
<1> QED BY <1>2, <1>3, <1>4 DEF Exact, Owned

\* _update_after_schedule: how far a request is after the batch.
LEMMA AdvanceFacts ==
  ASSUME TypeInv, StepInv, NEW r \in Requests
  PROVE  LET m == req[r].computed + SumSet({e.n : e \in {x \in Range(step.entries) : x.r = r}})
         IN  m \in Nat /\ m <= PromptLen[r]
<1> DEFINE X == {x \in Range(step.entries) : x.r = r}
           S == {e.n : e \in X}
<1>1. req[r].computed \in Nat /\ req[r].computed <= PromptLen[r] /\ PromptLen[r] \in Nat
  BY EncoderCacheAssumption DEF TypeInv, Records
<1>2. step.entries \in Seq(Entries)
  BY DEF TypeInv, Steps
<1>3. CASE X = {}
  <2>1. S \subseteq {0} /\ S = {} /\ 0 \in Nat
    BY <1>3, SMT
  <2> HIDE DEF S
  <2>2. SumSet(S) = 0
    BY <2>1, SumSmall
  <2>3. req[r].computed + SumSet(S) = req[r].computed
    BY <1>1, <2>2, SMT
  <2> QED BY <1>1, <2>3 DEF S
<1>4. CASE X # {}
  <2>1. PICK e \in X : TRUE
    BY <1>4
  <2>2. e \in Range(step.entries) /\ e.r = r
    OBVIOUS
  <2>3. ASSUME NEW x \in X PROVE x = e
    <3>1. x \in Range(step.entries) /\ x.r = r
      OBVIOUS
    <3>2. PICK i \in DOMAIN step.entries : x = step.entries[i]
      BY <3>1 DEF Range
    <3>3. PICK j \in DOMAIN step.entries : e = step.entries[j]
      BY <2>2 DEF Range
    <3>4. i = j
      BY <2>2, <3>1, <3>2, <3>3 DEF StepInv, Distinct
    <3> QED BY <3>2, <3>3, <3>4
  <2>4. EntryOK(e, ec, req) /\ e \in Entries
    BY <1>2, <2>2, SeqFacts DEF StepInv
  <2>5. e.n \in Nat /\ req[r].computed + e.n <= PromptLen[r]
    BY <2>2, <2>4 DEF EntryOK, Entries
  <2>6. S \subseteq {e.n} /\ S # {}
    BY <2>1, <2>3
  <2> HIDE DEF S, X
  <2>7. SumSet(S) = e.n
    BY <2>5, <2>6, SumSmall
  <2>8. req[r].computed + SumSet(S) \in Nat /\ req[r].computed + SumSet(S) <= PromptLen[r]
    BY <1>1, <2>5, <2>7, SMT
  <2> QED BY <2>8 DEF S, X
<1> QED BY <1>3, <1>4

\* schedule() returns.
LEMMA EndInv ==
  ASSUME Inv, EndStep
  PROVE  Inv'
<1> DEFINE b == [entries |-> step.entries, freed |-> ec.freed]
           n == Len(inflight)
           m(r) == req[r].computed + SumSet({e.n : e \in {x \in Range(step.entries) : x.r = r}})
<1>1. /\ TypeInv /\ QueuesInv /\ CacheInv /\ StepInv /\ ViewInv /\ MissedInv /\ ReferInv
  BY DEF Inv
<1>2. /\ inflight' = Append(inflight, b) /\ ec' = [ec EXCEPT !.freed = <<>>] /\ step' = NoStep
      /\ running' = running /\ waiting' = waiting
      /\ executed' = executed /\ worker' = worker /\ missed' = missed
  BY DEF EndStep
<1>3. req' = [r \in Requests |-> [req[r] EXCEPT !.computed = m(r)]]
  BY DEF EndStep
<1>4. \A r \in Requests : m(r) \in Nat /\ m(r) <= PromptLen[r]
  BY <1>1, AdvanceFacts
<1> HIDE DEF m
<1>5. Exact(ec) /\ Owned(ec)
  BY <1>1 DEF CacheInv
<1>6. Exact(ec') /\ Owned(ec') /\ ec'.cached = ec.cached /\ ec'.freed = <<>>
  BY <1>2, <1>5, FlushFacts
<1>7. \A r \in Requests : /\ req'[r] \in [status : Status, computed : Nat]
                          /\ req'[r].computed = m(r) /\ req'[r].status = req[r].status
  <2>1. \A r \in Requests : req[r] \in [status : Status, computed : Nat]
    BY <1>1 DEF TypeInv, Records
  <2> QED BY <1>3, <1>4, <2>1
<1>8. req' \in Records
  BY <1>3, <1>7 DEF Records
<1>9. /\ step.entries \in Seq(Entries) /\ ec.freed \in Seq(DOMAIN Size)
      /\ DOMAIN ec.cached \in SUBSET DOMAIN Size /\ inflight \in Seq(Batches) /\ executed \in 0 .. n
  <2>1. ec \in Caches
    BY <1>5 DEF Exact
  <2>2. DOMAIN ec.cached \subseteq DOMAIN Size
    BY <2>1, CacheFields
  <2> QED BY <1>1, <2>1, <2>2 DEF TypeInv, Steps, Caches
<1>10. b \in Batches
  BY <1>9 DEF Batches
<1>11. b.entries = step.entries /\ b.freed = ec.freed
  OBVIOUS
<1> HIDE DEF b
<1>12. /\ inflight' \in Seq(Batches) /\ Len(inflight') = n + 1 /\ inflight'[n + 1] = b
       /\ \A i \in 1 .. n : inflight'[i] = inflight[i]
  <2> DEFINE a == Append(inflight, b)
  <2>1. /\ a \in Seq(Batches) /\ Len(a) = n + 1 /\ a[n + 1] = b
        /\ \A i \in 1 .. n : a[i] = inflight[i]
    <3>1. inflight \in Seq(Batches)
      BY <1>9
    <3> QED BY <3>1, <1>10, AppendFacts, SMT
  <2>2. inflight' = a
    BY <1>2
  <2> HIDE DEF a, n
  <2> QED BY <2>1, <2>2
<1>13. n \in Nat
  BY <1>9, SeqFacts
<1> HIDE DEF n
<1>14. TypeInv'
  <2>1. executed' \in 0 .. Len(inflight')
    BY <1>2, <1>9, <1>12, <1>13, SMT
  <2>2. \A r \in Requests : req'[r].computed <= PromptLen[r]
    BY <1>4, <1>7
  <2> QED BY <1>1, <1>2, <1>8, <1>12, <2>1, <2>2, NoStepFacts DEF TypeInv
<1>15. QueuesInv'
  <2>1. Range(running) \subseteq Requests /\ Range(waiting) \subseteq Requests
    BY <1>1, SeqFacts DEF TypeInv
  <2> QED BY <1>1, <1>2, <1>7, <2>1 DEF QueuesInv
<1>16. CacheInv' /\ MissedInv'
  BY <1>1, <1>2, <1>6 DEF CacheInv, MissedInv
<1>17. ReferInv'
  BY <1>1, <1>2, <1>6 DEF ReferInv, ReferTo
<1>18. PICK v : View(v, inflight, executed, worker) /\ Mirrors(ec, v[n], Encoded(step.entries))
  BY <1>1 DEF ViewInv, n
<1> DEFINE w == [i \in executed .. n + 1 |-> IF i = n + 1 THEN DOMAIN ec.cached ELSE v[i]]
<1>19. /\ \A i \in executed .. n : i \in executed .. n + 1 /\ i # n + 1
       /\ \A i \in executed .. n + 1 : i # n + 1 => i \in executed .. n
       /\ n + 1 \in executed .. n + 1 /\ executed \in executed .. n /\ n \in executed .. n
       /\ \A i \in executed + 1 .. n : i \in executed .. n /\ i - 1 \in executed .. n /\ i \in 1 .. n
       /\ \A i \in executed + 1 .. n + 1 : i # n + 1 => i \in executed + 1 .. n
       /\ n + 1 - 1 = n
  BY <1>9, <1>13, SMT
<1>20. /\ w \in [executed .. n + 1 -> SUBSET DOMAIN Size]
       /\ \A i \in executed .. n : w[i] = v[i]
       /\ w[n + 1] = DOMAIN ec.cached
  <2>1. v \in [executed .. n -> SUBSET DOMAIN Size]
    BY <1>18 DEF View, n
  <2> QED BY <1>9, <1>19, <2>1
<1> HIDE DEF w
<1>21. w[executed] = worker
  BY <1>18, <1>19, <1>20 DEF View
<1>22. ASSUME NEW i \in executed + 1 .. n + 1
       PROVE  /\ w[i] = (w[i - 1] \ Range(inflight'[i].freed)) \cup Encoded(inflight'[i].entries)
              /\ Shift = 0 => \A e \in Range(inflight'[i].entries) : Needed(e) \subseteq w[i]
  <2>1. CASE i = n + 1
    <3>1. w[n + 1] = (w[n] \ Range(b.freed)) \cup Encoded(b.entries)
      BY <1>11, <1>18, <1>19, <1>20 DEF Mirrors
    <3>2. ASSUME Shift = 0, NEW e \in Range(b.entries) PROVE Needed(e) \subseteq w[n + 1]
      <4>1. EntryOK(e, ec, req)
        BY <1>1, <1>11, <3>2 DEF StepInv
      <4> QED BY <1>20, <3>2, <4>1 DEF EntryOK, Refers
    <3>3. i - 1 = n /\ inflight'[i] = b /\ w[i] = w[n + 1]
      <4>1. i - 1 = n
        BY <1>13, <2>1, SMT
      <4> QED BY <1>12, <2>1, <4>1
    <3> QED BY <3>1, <3>2, <3>3
  <2>2. CASE i # n + 1
    <3>1. i \in executed + 1 .. n
      BY <1>19, <2>2
    <3>2. /\ v[i] = (v[i - 1] \ Range(inflight[i].freed)) \cup Encoded(inflight[i].entries)
          /\ Shift = 0 => \A e \in Range(inflight[i].entries) : Needed(e) \subseteq v[i]
      BY <1>18, <3>1 DEF View, n
    <3>3. w[i] = v[i] /\ w[i - 1] = v[i - 1] /\ inflight'[i] = inflight[i]
      BY <1>12, <1>19, <1>20, <3>1
    <3> QED BY <3>2, <3>3
  <2> QED BY <2>1, <2>2
<1>23. View(w, inflight', executed', worker')
  BY <1>2, <1>12, <1>20, <1>21, <1>22 DEF View
<1>24. DOMAIN ec'.cached = w[Len(inflight')]
  BY <1>6, <1>12, <1>20
<1> QED BY <1>2, <1>6, <1>14, <1>15, <1>16, <1>17, <1>23, <1>24, IdleInv

-----------------------------------------------------------------------------
(* The rounds of schedule().                                               *)

\* An entry more in the batch.
LEMMA EntryAppend ==
  ASSUME NEW s \in Seq(Entries), NEW e \in Entries, Distinct(s), \A x \in Range(s) : x.r # e.r
  PROVE  LET t == Append(s, e)
         IN  /\ t \in Seq(Entries) /\ Range(t) = Range(s) \cup {e} /\ Distinct(t)
             /\ Encoded(t) = Encoded(s) \cup Range(e.inputs)
<1> DEFINE t == Append(s, e)
           n == Len(s)
<1>1. /\ t \in Seq(Entries) /\ Len(t) = n + 1 /\ t[n + 1] = e
      /\ \A i \in 1 .. n : t[i] = s[i]
      /\ Range(t) = Range(s) \cup {e}
  BY AppendFacts, SMT
<1>2. /\ n \in Nat /\ DOMAIN s = 1 .. n /\ \A i \in 1 .. n : s[i] \in Range(s)
  BY SeqFacts
<1>3. DOMAIN t = 1 .. n + 1
  BY <1>1, SeqFacts
<1> HIDE DEF t, n
<1>4. \A i \in 1 .. n + 1 : i = n + 1 \/ i \in 1 .. n
  BY <1>2, SMT
<1>5. ASSUME NEW i \in 1 .. n + 1, NEW j \in 1 .. n + 1, t[i].r = t[j].r PROVE i = j
  <2>1. CASE i \in 1 .. n /\ j \in 1 .. n
    BY <1>1, <1>2, <1>5, <2>1 DEF Distinct
  <2>2. CASE i \in 1 .. n /\ j = n + 1
    BY <1>1, <1>2, <1>5, <2>2
  <2>3. CASE i = n + 1 /\ j \in 1 .. n
    BY <1>1, <1>2, <1>5, <2>3
  <2> QED BY <1>4, <1>5, <2>1, <2>2, <2>3
<1>6. Distinct(t)
  BY <1>3, <1>5 DEF Distinct
<1>7. Encoded(t) = Encoded(s) \cup Range(e.inputs)
  BY <1>1 DEF Encoded
<1> QED BY <1>1, <1>6, <1>7 DEF t

\* What trying to schedule the items of a request leaves as it was.
LEMMA TriedFacts ==
  ASSUME TypeInv, CacheInv, StepInv, NEW r \in Requests, NEW computed \in Nat,
         computed <= PromptLen[r], step.tokens > 0, NEW t, t = try_schedule(r, computed)
  PROVE  /\ Outcome(t, ec, r, computed) /\ Exact(t.ec) /\ Owned(t.ec) /\ Grown(ec, t.ec, r)
         /\ t.new \in Nat /\ t.new <= step.tokens /\ t.budget \in Int
         /\ \A e \in Range(step.entries) : EntryOK(e, t.ec, req)
         /\ \A V : Mirrors(ec, V, Encoded(step.entries)) => Mirrors(t.ec, V, Encoded(step.entries))
<1>1. Exact(ec) /\ Owned(ec) /\ step.tokens \in Nat /\ step.budget \in Int
  BY DEF CacheInv, TypeInv, Steps
<1>2. Outcome(t, ec, r, computed)
  BY <1>1, TryScheduleStep
<1>3. /\ Exact(t.ec) /\ Grown(ec, t.ec, r) /\ t.new \in Nat /\ t.new <= step.tokens /\ t.budget \in Int
  BY <1>2 DEF Outcome, Tries
<1>4. Owned(t.ec)
  BY <1>1, <1>3, GrownOwned
<1>5. \A q, h : Refers(ec, q, h) => Refers(t.ec, q, h)
  BY <1>3, GrownRefers
<1>6. \A e \in Range(step.entries) : EntryOK(e, ec, req)
  BY DEF StepInv
<1>7. \A e \in Range(step.entries) : EntryOK(e, t.ec, req)
  BY <1>5, <1>6, EntryStays
<1>8. ASSUME NEW h \in Encoded(step.entries) PROVE \E q : Refers(ec, q, h)
  <2>1. PICK e \in Range(step.entries) : h \in Range(e.inputs)
    BY DEF Encoded
  <2> QED BY <1>6, <2>1 DEF EntryOK
<1>9. \A V : Mirrors(ec, V, Encoded(step.entries)) => Mirrors(t.ec, V, Encoded(step.entries))
  <2> DEFINE D == Encoded(step.entries)
  <2>1. \A h \in D : \E q : Refers(ec, q, h)
    BY <1>8
  <2> HIDE DEF D
  <2>2. \A V : Mirrors(ec, V, D) => Mirrors(t.ec, V, D)
    BY <1>3, <2>1, GrownMirrors
  <2> QED BY <2>2 DEF D
<1> QED BY <1>2, <1>3, <1>4, <1>7, <1>9

\* The invariant after a round.
LEMMA RoundInv ==
  ASSUME Inv, inflight' = inflight, executed' = executed, worker' = worker, missed' = missed,
         req' \in Records, \A q \in Requests : req'[q].computed <= PromptLen[q],
         running' \in Seq(Requests), waiting' \in Seq(Requests), QueuesInv',
         step' \in Steps, step'.pc # "idle", Distinct(step'.entries),
         \A e \in Range(step'.entries) : e.r \in Range(running') /\ EntryOK(e, ec', req'),
         step'.pc = "running" => Joined(step'.entries, running', step'.index),
         CacheInv', ReferInv',
         \A V : Mirrors(ec, V, Encoded(step.entries)) => Mirrors(ec', V, Encoded(step'.entries))
  PROVE  Inv'
<1>1. /\ TypeInv /\ ViewInv /\ MissedInv
  BY DEF Inv
<1>2. TypeInv'
  BY <1>1 DEF TypeInv
<1>3. StepInv'
  BY DEF StepInv
<1>4. ViewInv'
  <2>1. PICK v : View(v, inflight, executed, worker) /\ Mirrors(ec, v[Len(inflight)], Encoded(step.entries))
    BY <1>1 DEF ViewInv
  <2>2. View(v, inflight', executed', worker') /\ Mirrors(ec', v[Len(inflight')], Encoded(step'.entries))
    BY <2>1
  <2> QED BY <2>2 DEF ViewInv
<1>5. MissedInv'
  BY <1>1 DEF MissedInv
<1> QED BY <1>2, <1>3, <1>4, <1>5 DEF Inv

\* A running request gets no tokens: the loop goes on with the next.
LEMMA SkipInv ==
  ASSUME Inv, step.pc = "running", step.tokens > 0, NEW r \in Range(running), NEW t,
         t = try_schedule(r, req[r].computed),
         ec' = t.ec, step' = [step EXCEPT !.index = @ + 1],
         req' = req, running' = running, waiting' = waiting,
         inflight' = inflight, executed' = executed, worker' = worker, missed' = missed
  PROVE  Inv'
<1>1. /\ TypeInv /\ QueuesInv /\ CacheInv /\ StepInv /\ ViewInv /\ MissedInv /\ ReferInv
  BY DEF Inv
<1>2. /\ req \in Records /\ \A q \in Requests : req[q].computed <= PromptLen[q]
      /\ running \in Seq(Requests) /\ waiting \in Seq(Requests) /\ step \in Steps
  BY <1>1 DEF TypeInv
<1>3. r \in Requests /\ req[r].computed \in Nat
  <2>1. r \in Requests
    BY <1>2, SeqFacts
  <2> QED BY <1>2, <2>1 DEF Records
<1>4. /\ Exact(t.ec) /\ Owned(t.ec) /\ Grown(ec, t.ec, r)
      /\ \A e \in Range(step.entries) : EntryOK(e, t.ec, req)
      /\ \A V : Mirrors(ec, V, Encoded(step.entries)) => Mirrors(t.ec, V, Encoded(step.entries))
  BY <1>1, <1>2, <1>3, TriedFacts
<1>5. step.index \in Nat /\ step.index + 1 \in Nat
  <2>1. step.index \in Nat
    BY <1>2 DEF Steps
  <2> QED BY <2>1, SMT
<1>6. step' \in Steps /\ step'.pc = "running" /\ step'.entries = step.entries /\ step'.index = step.index + 1
  BY <1>2, <1>5 DEF Steps
<1>7. CacheInv' /\ QueuesInv'
  BY <1>1, <1>4 DEF CacheInv, QueuesInv
<1>8. ReferInv'
  <2> SUFFICES ASSUME Shift = 0, ItemsApart PROVE ReferTo(ec', Range(running'))
    BY DEF ReferInv
  <2>1. ReferTo(ec, Range(running)) /\ Range(running) \cup {r} = Range(running)
    BY <1>1 DEF ReferInv
  <2>2. ReferTo(t.ec, Range(running) \cup {r})
    BY <1>4, <2>1, GrownReferTo
  <2> QED BY <2>1, <2>2
<1>9. Joined(step'.entries, running', step'.index)
  <2>1. Joined(step.entries, running, step.index)
    BY <1>1 DEF StepInv
  <2>2. Len(running) \in Nat
    BY <1>2, SeqFacts
  <2>3. /\ \A p \in 1 .. Len(running) : p < step.index => p < step.index + 1
        /\ step.index > 0 => step.index + 1 > 0
    BY <1>5, <2>2, SMT
  <2>4. Joined(step.entries, running, step.index + 1)
    BY <2>1, <2>3 DEF Joined
  <2> QED BY <1>6, <2>4
<1>10. \A e \in Range(step'.entries) : e.r \in Range(running') /\ EntryOK(e, ec', req')
  BY <1>1, <1>4, <1>6 DEF StepInv
<1>11. Distinct(step'.entries) /\ step'.pc # "idle"
  BY <1>1, <1>6 DEF StepInv
<1>12. \A V : Mirrors(ec, V, Encoded(step.entries)) => Mirrors(ec', V, Encoded(step'.entries))
  BY <1>4, <1>6
<1> QED BY <1>2, <1>6, <1>7, <1>8, <1>9, <1>10, <1>11, <1>12, RoundInv

\* What preemption of the last running requests does.
Cut(keep, vs) ==
  /\ keep \in 0 .. Len(running) /\ vs \in Seq(Requests)
  /\ running' \in Seq(Requests) /\ waiting' \in Seq(Requests) /\ QueuesInv'
  /\ Len(running') = keep /\ \A p \in 1 .. keep : running'[p] = running[p]
  /\ Range(running') = Range(running) \ Range(vs)
  /\ req' \in Records /\ \A q \in Requests : req'[q].computed <= PromptLen[q]
  /\ \A q \in Range(running') : req'[q] = req[q]

\* The victims go to the front of the waiting queue and start from nothing.
LEMMA CutFacts ==
  ASSUME TypeInv, QueuesInv, NEW keep \in 0 .. Len(running), NEW vs,
         vs = SubSeq(running, keep + 1, Len(running)),
         running' = SubSeq(running, 1, keep), waiting' = vs \o waiting,
         req' = [q \in Requests |->
                   IF q \in Range(vs) THEN [status |-> "PREEMPTED", computed |-> 0] ELSE req[q]]
  PROVE  Cut(keep, vs)
<1>1. /\ req \in Records /\ \A q \in Requests : req[q].computed <= PromptLen[q]
      /\ running \in Seq(Requests) /\ waiting \in Seq(Requests)
  BY DEF TypeInv
<1>2. /\ IsInjective(running) /\ IsInjective(waiting) /\ Range(running) \cap Range(waiting) = {}
      /\ \A r \in Range(running) \cup Range(waiting) : req[r].status # "NEW"
  BY DEF QueuesInv
<1>3. /\ running' \in Seq(Requests) /\ vs \in Seq(Requests) /\ Len(running') = keep
      /\ \A p \in 1 .. keep : running'[p] = running[p]
      /\ Range(running) = Range(running') \cup Range(vs)
      /\ IsInjective(running') /\ IsInjective(vs) /\ Range(running') \cap Range(vs) = {}
  <2> DEFINE a == SubSeq(running, 1, keep)
             b == SubSeq(running, keep + 1, Len(running))
  <2>1. /\ a \in Seq(Requests) /\ b \in Seq(Requests) /\ Len(a) = keep
        /\ \A i \in 1 .. keep : a[i] = running[i]
        /\ Range(running) = Range(a) \cup Range(b)
        /\ IsInjective(running) => IsInjective(a) /\ IsInjective(b) /\ Range(a) \cap Range(b) = {}
    <3>1. keep \in 0 .. Len(running) /\ running \in Seq(Requests)
      BY <1>1
    <3> QED BY ONLY <3>1, SplitFacts, SMT DEF a, b
  <2>2. running' = a /\ vs = b
    OBVIOUS
  <2> HIDE DEF a, b
  <2> QED BY <1>2, <2>1, <2>2
<1>4. Range(running') = Range(running) \ Range(vs)
  BY <1>3
<1>5. waiting' \in Seq(Requests) /\ Range(waiting') = Range(vs) \cup Range(waiting)
  <2>1. vs \in Seq(Requests) /\ waiting \in Seq(Requests)
    BY <1>1, <1>3
  <2>2. vs \o waiting \in Seq(Requests) /\ Range(vs \o waiting) = Range(vs) \cup Range(waiting)
    BY ONLY <2>1, ConcatFacts, Zenon
  <2> QED BY <2>2
<1>6. IsInjective(waiting')
  <2>1. Range(vs) \cap Range(waiting) = {}
    BY <1>2, <1>3
  <2> QED BY <1>1, <1>2, <1>3, <2>1, ConcatInjective
<1>7. ASSUME NEW q \in Requests
      PROVE  /\ req'[q] \in [status : Status, computed : Nat] /\ req'[q].computed <= PromptLen[q]
             /\ req[q].status # "NEW" => req'[q].status # "NEW"
             /\ q \notin Range(vs) => req'[q] = req[q]
  <2>1. req[q] \in [status : Status, computed : Nat] /\ req[q].computed <= PromptLen[q]
    BY <1>1 DEF Records
  <2>2. 0 \in Nat /\ 0 <= PromptLen[q]
    BY EncoderCacheAssumption, SMT
  <2>3. CASE q \in Range(vs)
    <3>1. req'[q] = [status |-> "PREEMPTED", computed |-> 0]
      BY <2>3
    <3>2. "PREEMPTED" \in Status /\ "PREEMPTED" # "NEW"
      BY DEF Status
    <3> QED BY <2>2, <2>3, <3>1, <3>2
  <2>4. CASE q \notin Range(vs)
    BY <2>1, <2>4
  <2> QED BY <2>3, <2>4
<1>8. req' \in Records
  BY <1>7 DEF Records
<1>9. Range(running) \subseteq Requests /\ Range(waiting) \subseteq Requests
  BY <1>1, SeqFacts
<1>10. Range(running') \cap Range(waiting') = {}
  BY <1>2, <1>3, <1>5
<1>11. \A r \in Range(running') \cup Range(waiting') : req'[r].status # "NEW"
  <2>1. \A r \in Range(running') \cup Range(waiting') : r \in Range(running) \cup Range(waiting) /\ r \in Requests
    BY <1>3, <1>5, <1>9
  <2> QED BY <1>2, <1>7, <2>1
<1>12. QueuesInv'
  BY <1>3, <1>6, <1>10, <1>11 DEF QueuesInv
<1>13. \A q \in Range(running') : req'[q] = req[q]
  BY <1>4, <1>7, <1>9
<1> QED BY <1>3, <1>4, <1>5, <1>7, <1>8, <1>12, <1>13 DEF Cut

\* The batch after a preemption: its requests are still running, and the cache
\* has lost the references of the victims only.
LEMMA CutBatch ==
  ASSUME Inv, step.pc = "running", NEW r \in Range(running), step.tokens > 0,
         NEW t, t = try_schedule(r, req[r].computed),
         NEW keep, NEW vs, Cut(keep, vs), step.index <= keep + 1,
         NEW y, y = Preempted(t.ec, vs)
  PROVE  /\ Outcome(t, ec, r, req[r].computed)
         /\ Exact(y) /\ Owned(y) /\ Shrunk(t.ec, y, Range(vs))
         /\ \A e \in Range(step.entries) : EntryOK(e, y, req')
         /\ Joined(step.entries, running', step.index)
         /\ \A e \in Range(step.entries) : e.r \in Range(running')
         /\ \A V : Mirrors(ec, V, Encoded(step.entries)) => Mirrors(y, V, Encoded(step.entries))
         /\ Shift = 0 /\ ItemsApart => ReferTo(y, Range(running'))
<1>1. /\ TypeInv /\ QueuesInv /\ CacheInv /\ StepInv /\ ReferInv
  BY DEF Inv
<1>2. /\ req \in Records /\ \A q \in Requests : req[q].computed <= PromptLen[q]
      /\ running \in Seq(Requests) /\ step \in Steps
  BY <1>1 DEF TypeInv
<1>3. r \in Requests /\ req[r].computed \in Nat
  <2>1. r \in Requests
    BY <1>2, SeqFacts
  <2> QED BY <1>2, <2>1 DEF Records
<1>4. /\ Outcome(t, ec, r, req[r].computed) /\ Exact(t.ec) /\ Owned(t.ec) /\ Grown(ec, t.ec, r)
      /\ \A e \in Range(step.entries) : EntryOK(e, t.ec, req)
      /\ \A V : Mirrors(ec, V, Encoded(step.entries)) => Mirrors(t.ec, V, Encoded(step.entries))
  BY <1>1, <1>2, <1>3, TriedFacts
<1>5. /\ keep \in 0 .. Len(running) /\ vs \in Seq(Requests) /\ running' \in Seq(Requests)
      /\ Len(running') = keep /\ \A p \in 1 .. keep : running'[p] = running[p]
      /\ Range(running') = Range(running) \ Range(vs)
      /\ \A q \in Range(running') : req'[q] = req[q]
  BY DEF Cut
<1>6. /\ Exact(y) /\ Owned(y) /\ Shrunk(t.ec, y, Range(vs))
      /\ \A v \in Range(vs) : \A h : ~Refers(y, v, h)
  BY <1>4, <1>5, PreemptedStep
<1>7. Joined(step.entries, running', step.index)
  <2>1. Joined(step.entries, running, step.index)
    BY <1>1 DEF StepInv
  <2>2. step.index \in Nat /\ Len(running) \in Nat
    BY <1>2, SeqFacts DEF Steps
  <2>3. \A p \in 1 .. Len(running) : p < step.index => p \in 1 .. keep
    BY <1>5, <2>2, SMT
  <2> QED BY <1>5, <2>1, <2>3 DEF Joined
<1>8. ASSUME NEW e \in Range(step.entries) PROVE e.r \in Range(running')
  <2>1. PICK p \in 1 .. Len(running') : running'[p] = e.r
    BY <1>7 DEF Joined
  <2> QED BY <1>5, <2>1, SeqFacts
<1>9. ASSUME NEW e \in Range(step.entries) PROVE EntryOK(e, y, req')
  <2>1. e.r \notin Range(vs) /\ req'[e.r] = req[e.r]
    BY <1>5, <1>8
  <2>2. \A h : Refers(t.ec, e.r, h) => Refers(y, e.r, h)
    BY <1>6, <2>1, ShrunkRefers
  <2>3. EntryOK(e, t.ec, req)
    BY <1>4
  <2> QED BY <2>1, <2>2, <2>3, EntryStays
<1>10. \A V : Mirrors(ec, V, Encoded(step.entries)) => Mirrors(y, V, Encoded(step.entries))
  BY <1>4, <1>6, ShrunkMirrors
<1>11. ASSUME Shift = 0, ItemsApart PROVE ReferTo(y, Range(running'))
  <2>1. ReferTo(ec, Range(running)) /\ Range(running) \cup {r} = Range(running)
    BY <1>1, <1>11 DEF ReferInv
  <2>2. ReferTo(t.ec, Range(running) \cup {r})
    BY <1>4, <2>1, GrownReferTo
  <2>3. ReferTo(t.ec, Range(running))
    BY <2>1, <2>2
  <2>4. ReferTo(y, Range(running) \ Range(vs))
    BY <1>6, <2>3, ShrunkReferTo
  <2> QED BY <1>5, <2>4
<1> QED BY <1>4, <1>6, <1>7, <1>8, <1>9, <1>10, <1>11

\* The request itself is preempted: the loop ends.
LEMMA PreemptSelfInv ==
  ASSUME Inv, step.pc = "running", NEW r \in Range(running), step.tokens > 0,
         NEW t, t = try_schedule(r, req[r].computed),
         NEW keep, NEW vs, Cut(keep, vs), step.index <= keep + 1,
         ec' = Preempted(t.ec, vs), step' = [step EXCEPT !.pc = "end"],
         inflight' = inflight, executed' = executed, worker' = worker, missed' = missed
  PROVE  Inv'
<1>1. /\ Exact(ec') /\ Owned(ec')
      /\ \A e \in Range(step.entries) : EntryOK(e, ec', req')
      /\ \A e \in Range(step.entries) : e.r \in Range(running')
      /\ \A V : Mirrors(ec, V, Encoded(step.entries)) => Mirrors(ec', V, Encoded(step.entries))
      /\ Shift = 0 /\ ItemsApart => ReferTo(ec', Range(running'))
  BY CutBatch
<1>2. step \in Steps /\ Distinct(step.entries)
  BY DEF Inv, TypeInv, StepInv
<1>3. step' \in Steps /\ step'.pc = "end" /\ step'.entries = step.entries
  BY <1>2 DEF Steps
<1>4. /\ running' \in Seq(Requests) /\ waiting' \in Seq(Requests) /\ QueuesInv'
      /\ req' \in Records /\ \A q \in Requests : req'[q].computed <= PromptLen[q]
  BY DEF Cut
<1>5. CacheInv' /\ ReferInv'
  BY <1>1 DEF CacheInv, ReferInv
<1>6. \A e \in Range(step'.entries) : e.r \in Range(running') /\ EntryOK(e, ec', req')
  BY <1>1, <1>3
<1>7. \A V : Mirrors(ec, V, Encoded(step.entries)) => Mirrors(ec', V, Encoded(step'.entries))
  BY <1>1, <1>3
<1>8. step'.pc # "idle" /\ step'.pc # "running" /\ Distinct(step'.entries)
  BY <1>2, <1>3
<1> QED BY <1>3, <1>4, <1>5, <1>6, <1>7, <1>8, RoundInv

\* The step after a request has joined the batch.
LEMMA ScheduledFacts ==
  ASSUME step \in Steps, NEW r \in Requests, NEW computed \in Nat, NEW t, t.new \in Nat,
         t.new <= step.tokens, t.budget \in Int, NEW e,
         e = [r |-> r, start |-> computed, n |-> t.new, inputs |-> t.inputs], e \in Entries
  PROVE  LET s == Scheduled(step, r, computed, t)
         IN  /\ s \in Steps /\ s.entries = Append(step.entries, e)
             /\ s.pc = step.pc /\ s.index = step.index
<1> DEFINE s == Scheduled(step, r, computed, t)
<1>1. s = [step EXCEPT !.tokens = @ - t.new, !.budget = t.budget, !.entries = Append(@, e)]
  BY DEF Scheduled
<1>2. step.tokens \in Nat /\ step.entries \in Seq(Entries)
  BY DEF Steps
<1>3. step.tokens - t.new \in Nat
  BY <1>2, SMT
<1>4. Append(step.entries, e) \in Seq(Entries)
  BY <1>2, AppendFacts, SMT
<1> HIDE DEF s
<1> QED BY <1>1, <1>3, <1>4 DEF Steps, s

\* A request that joins the batch.
LEMMA JoinInv ==
  ASSUME Inv, NEW r \in Requests, NEW computed \in Nat, NEW t, Outcome(t, ec, r, computed), t.new > 0,
         NEW y, Exact(y), Owned(y), NEW R, Shrunk(t.ec, y, R), r \notin R,
         \A e \in Range(step.entries) : e.r # r,
         \A e \in Range(step.entries) : EntryOK(e, y, req'),
         \A e \in Range(step.entries) : e.r \in Range(running'),
         \A V : Mirrors(ec, V, Encoded(step.entries)) => Mirrors(y, V, Encoded(step.entries)),
         Shift = 0 /\ ItemsApart => ReferTo(y, Range(running')),
         ec' = Allocated(y, r, t.inputs),
         step' \in Steps, step'.pc # "idle",
         step'.entries = Scheduled(step, r, computed, t).entries,
         r \in Range(running'), req'[r].computed = computed,
         req' \in Records, \A q \in Requests : req'[q].computed <= PromptLen[q],
         running' \in Seq(Requests), waiting' \in Seq(Requests), QueuesInv',
         \A e : e.r = r /\ Range(step'.entries) = Range(step.entries) \cup {e} /\ step'.pc = "running" =>
            Joined(step'.entries, running', step'.index),
         inflight' = inflight, executed' = executed, worker' = worker, missed' = missed
  PROVE  Inv'
<1> DEFINE e == [r |-> r, start |-> computed, n |-> t.new, inputs |-> t.inputs]
<1>1. /\ Exact(ec') /\ Owned(ec') /\ AddedAll(y, ec', r, Range(t.inputs))
      /\ e \in Entries /\ EntryOK(e, ec', req')
  BY JoinStep
<1>2. e.r = r /\ e.inputs = t.inputs
  OBVIOUS
<1>3. step \in Steps /\ Distinct(step.entries)
  BY DEF Inv, TypeInv, StepInv
<1>4. step.entries \in Seq(Entries) /\ t.new \in Nat /\ t.new <= step.tokens /\ t.budget \in Int
  BY <1>3 DEF Steps, Outcome, Tries
<1>5. step'.entries = Append(step.entries, e)
  <2>1. e = [r |-> r, start |-> computed, n |-> t.new, inputs |-> t.inputs] /\ e \in Entries
    BY <1>1
  <2> HIDE DEF e
  <2>2. Scheduled(step, r, computed, t).entries = Append(step.entries, e)
    <3>1. Scheduled(step, r, computed, t)
            = [step EXCEPT !.tokens = @ - t.new, !.budget = t.budget, !.entries = Append(@, e)]
      BY <2>1 DEF Scheduled
    <3> QED BY <1>3, <3>1 DEF Steps
  <2> QED BY <2>2
<1> HIDE DEF e
<1>6. /\ Range(step'.entries) = Range(step.entries) \cup {e} /\ Distinct(step'.entries)
      /\ Encoded(step'.entries) = Encoded(step.entries) \cup Range(t.inputs)
  BY <1>1, <1>2, <1>3, <1>4, <1>5, EntryAppend
<1>7. \A q, h : Refers(y, q, h) => Refers(ec', q, h)
  BY <1>1, AddedRefers
<1>8. \A x \in Range(step.entries) : EntryOK(x, ec', req')
  BY <1>7, EntryStays
<1>9. \A x \in Range(step'.entries) : x.r \in Range(running') /\ EntryOK(x, ec', req')
  BY <1>1, <1>2, <1>6, <1>8
<1>10. \A V : Mirrors(ec, V, Encoded(step.entries)) => Mirrors(ec', V, Encoded(step'.entries))
  <2> SUFFICES ASSUME NEW V, Mirrors(ec, V, Encoded(step.entries))
               PROVE  Mirrors(ec', V, Encoded(step'.entries))
    OBVIOUS
  <2>1. Mirrors(y, V, Encoded(step.entries))
    OBVIOUS
  <2>2. Mirrors(ec', V, Encoded(step.entries) \cup Range(t.inputs))
    BY <1>1, <2>1, AddedMirrors
  <2> QED BY <1>6, <2>2
<1>11. CacheInv'
  BY <1>1 DEF CacheInv
<1>12. ReferInv'
  BY <1>1, AddedReferTo DEF ReferInv
<1>13. step'.pc = "running" => Joined(step'.entries, running', step'.index)
  BY <1>2, <1>6
<1> QED BY <1>6, <1>9, <1>10, <1>11, <1>12, <1>13, RoundInv

\* One round of the loop over the running requests.
LEMMA RunningInv ==
  ASSUME Inv, NEW k \in 0 .. MaxRunning, ScheduleRunning(k)
  PROVE  Inv'
<1> DEFINE r == running[step.index]
           computed == req[r].computed
           t == try_schedule(r, computed)
           keep == Len(running) - k
           vs == SubSeq(running, keep + 1, Len(running))
<1>1. /\ TypeInv /\ QueuesInv /\ CacheInv /\ StepInv /\ ViewInv /\ MissedInv /\ ReferInv
  BY DEF Inv
<1>2. /\ step.pc = "running" /\ step.index + k <= Len(running) + 1 /\ step.index <= Len(running)
      /\ step.tokens > 0
      /\ inflight' = inflight /\ executed' = executed /\ worker' = worker /\ missed' = missed
  BY DEF ScheduleRunning
<1>3. /\ t.new = 0 => /\ ec' = t.ec
                      /\ step' = [step EXCEPT !.index = @ + 1]
                      /\ req' = req /\ running' = running /\ waiting' = waiting
      /\ t.new # 0 =>
           /\ running' = SubSeq(running, 1, keep) /\ waiting' = vs \o waiting
           /\ req' = [q \in Requests |->
                        IF q \in Range(vs) THEN [status |-> "PREEMPTED", computed |-> 0] ELSE req[q]]
           /\ keep < step.index => ec' = Preempted(t.ec, vs) /\ step' = [step EXCEPT !.pc = "end"]
           /\ ~(keep < step.index) =>
                /\ ec' = Allocated(Preempted(t.ec, vs), r, t.inputs)
                /\ step' = [Scheduled(step, r, computed, t) EXCEPT
                              !.index = @ + 1, !.preempted = @ \/ k > 0]
  <2> DEFINE Rest(q, u, n, victims) ==
               /\ short + k <= MaxShort
               /\ short' = short + k
               /\ running' = SubSeq(running, 1, n)
               /\ waiting' = victims \o waiting
               /\ req' = [p \in Requests |->
                            IF p \in Range(victims) THEN [status |-> "PREEMPTED", computed |-> 0]
                            ELSE req[p]]
               /\ IF n < step.index
                  THEN /\ ec' = Preempted(u.ec, victims)
                       /\ step' = [step EXCEPT !.pc = "end"]
                  ELSE /\ ec' = Allocated(Preempted(u.ec, victims), q, u.inputs)
                       /\ step' = [Scheduled(step, q, req[q].computed, u) EXCEPT
                                     !.index = @ + 1, !.preempted = @ \/ k > 0]
             Body(q, u, n) ==
               IF u.new = 0
               THEN /\ k = 0
                    /\ ec' = u.ec
                    /\ step' = [step EXCEPT !.index = @ + 1]
                    /\ UNCHANGED <<req, running, waiting, short>>
               ELSE \E victims \in {SubSeq(running, n + 1, Len(running))} : Rest(q, u, n, victims)
  <2>1. \E q \in {running[step.index]} : \E u \in {try_schedule(q, req[q].computed)} :
        \E n \in {Len(running) - k} : Body(q, u, n)
    BY DEF ScheduleRunning
  <2>2. Body(r, t, keep)
    <3> HIDE DEF Body
    <3> QED BY <2>1
  <2>3. t.new # 0 => Rest(r, t, keep, vs)
    <3> HIDE DEF r, t, keep, Rest
    <3> QED BY <2>2
  <2> HIDE DEF r, t, keep, vs
  <2> QED BY <2>2, <2>3 DEF computed
<1>4. running \in Seq(Requests) /\ step \in Steps /\ req \in Records
  BY <1>1 DEF TypeInv
<1>5. step.index \in Nat /\ Len(running) \in Nat /\ Joined(step.entries, running, step.index)
  BY <1>1, <1>2, <1>4, SeqFacts DEF Steps, StepInv
<1>6. step.index \in 1 .. Len(running)
  <2>1. step.index > 0
    BY <1>5 DEF Joined
  <2> QED BY <1>2, <1>5, <2>1, SMT
<1>7. r \in Range(running) /\ r \in Requests
  BY <1>4, <1>6, SeqFacts
<1>8. computed \in Nat
  BY <1>4, <1>7 DEF Records
<1>9. keep \in 0 .. Len(running) /\ step.index <= keep + 1 /\ (~(keep < step.index) => step.index \in 1 .. keep)
  <2>1. MaxRunning \in Nat
    BY EncoderCacheAssumption
  <2> QED BY <1>2, <1>5, <1>6, <2>1, SMT
<1> HIDE DEF r, t, keep, vs, computed
<1>10. t = try_schedule(r, req[r].computed) /\ computed = req[r].computed
  BY DEF t, computed
<1>11. CASE t.new = 0
  BY <1>2, <1>3, <1>7, <1>10, <1>11, SkipInv
<1>12. CASE t.new # 0
  <2>1. Cut(keep, vs)
    <3>1. vs = SubSeq(running, keep + 1, Len(running))
      BY DEF vs
    <3>2. /\ running' = SubSeq(running, 1, keep) /\ waiting' = vs \o waiting
          /\ req' = [q \in Requests |->
                       IF q \in Range(vs) THEN [status |-> "PREEMPTED", computed |-> 0] ELSE req[q]]
      BY <1>3, <1>12
    <3>3. keep \in 0 .. Len(running)
      BY <1>9
    <3> QED BY <1>1, <3>1, <3>2, <3>3, CutFacts
  <2>2. CASE keep < step.index
    BY <1>2, <1>3, <1>7, <1>9, <1>10, <1>12, <2>1, <2>2, PreemptSelfInv
  <2>3. CASE ~(keep < step.index)
    <3> DEFINE y == Preempted(t.ec, vs)
               s == Scheduled(step, r, computed, t)
    <3>1. ec' = Allocated(y, r, t.inputs) /\ step' = [s EXCEPT !.index = @ + 1, !.preempted = @ \/ k > 0]
      BY <1>3, <1>12, <2>3
    <3>2. y = Preempted(t.ec, vs)
      OBVIOUS
    <3> HIDE DEF y, s
    <3>3. /\ Outcome(t, ec, r, req[r].computed)
          /\ Exact(y) /\ Owned(y) /\ Shrunk(t.ec, y, Range(vs))
          /\ \A e \in Range(step.entries) : EntryOK(e, y, req')
          /\ Joined(step.entries, running', step.index)
          /\ \A e \in Range(step.entries) : e.r \in Range(running')
          /\ \A V : Mirrors(ec, V, Encoded(step.entries)) => Mirrors(y, V, Encoded(step.entries))
          /\ Shift = 0 /\ ItemsApart => ReferTo(y, Range(running'))
      BY <1>2, <1>7, <1>9, <1>10, <2>1, <3>2, CutBatch
    <3>4. t.new \in Nat /\ t.new > 0 /\ t.new <= step.tokens /\ t.budget \in Int
      <4>1. t.new \in Nat /\ t.new <= step.tokens /\ t.budget \in Int
        BY <3>3 DEF Outcome, Tries
      <4> QED BY <1>12, <4>1, SMT
    <3>5. /\ running' \in Seq(Requests) /\ waiting' \in Seq(Requests) /\ QueuesInv'
          /\ Len(running') = keep /\ \A p \in 1 .. keep : running'[p] = running[p]
          /\ Range(running') = Range(running) \ Range(vs)
          /\ req' \in Records /\ \A q \in Requests : req'[q].computed <= PromptLen[q]
          /\ \A q \in Range(running') : req'[q] = req[q]
      BY <2>1 DEF Cut
    <3>6. running'[step.index] = r /\ step.index \in 1 .. Len(running')
      BY <1>9, <2>3, <3>5 DEF r
    <3>7. r \in Range(running')
      BY <3>5, <3>6, SeqFacts
    <3>8. r \notin Range(vs) /\ req'[r].computed = computed
      BY <1>10, <3>5, <3>7
    <3>9. ASSUME NEW e \in Range(step.entries) PROVE e.r # r
      <4>1. PICK p \in 1 .. Len(running) : p < step.index /\ running[p] = e.r
        BY <1>5 DEF Joined
      <4>2. p # step.index
        BY <1>5, <4>1, SMT
      <4>3. DOMAIN running = 1 .. Len(running)
        BY <1>4, SeqFacts
      <4> QED BY <1>1, <1>6, <4>1, <4>2, <4>3 DEF QueuesInv, IsInjective, r
    <3>10. s \in Steps /\ s.pc = "running" /\ s.index = step.index
      <4> DEFINE e == [r |-> r, start |-> computed, n |-> t.new, inputs |-> t.inputs]
      <4>1. t.inputs \in Seq(DOMAIN Size)
        BY <3>3 DEF Outcome, Tries
      <4>2. e \in Entries
        BY <1>7, <1>8, <3>4, <4>1 DEF Entries
      <4>3. e = [r |-> r, start |-> computed, n |-> t.new, inputs |-> t.inputs]
        OBVIOUS
      <4> HIDE DEF e
      <4> QED BY <1>2, <1>4, <1>7, <1>8, <3>4, <4>2, <4>3, ScheduledFacts DEF s
    <3>11. /\ step' \in Steps /\ step'.pc = "running" /\ step'.entries = s.entries
           /\ step'.index = step.index + 1
      <4>1. step.index + 1 \in Nat /\ (k > 0) \in BOOLEAN
        BY <1>5, SMT
      <4> QED BY <3>1, <3>10, <4>1 DEF Steps
    <3>12. ASSUME NEW e, e.r = r, Range(step'.entries) = Range(step.entries) \cup {e}
           PROVE  Joined(step'.entries, running', step'.index)
      <4>1. /\ step.index < step.index + 1 /\ step.index + 1 > 0
            /\ \A p \in 1 .. Len(running') : p < step.index => p < step.index + 1
        BY <1>5, <1>9, <3>5, SMT
      <4>2. Joined(step'.entries, running', step.index + 1)
        BY <3>3, <3>6, <3>12, <4>1 DEF Joined
      <4> QED BY <3>11, <4>2
    <3>13. step'.entries = Scheduled(step, r, computed, t).entries /\ step'.pc # "idle"
      BY <3>11 DEF s
    <3>14. Outcome(t, ec, r, computed)
      BY <1>10, <3>3
    <3> QED BY <1>2, <1>7, <1>8, <3>1, <3>3, <3>4, <3>5, <3>7, <3>8, <3>9, <3>11, <3>12, <3>13, <3>14, JoinInv
  <2> QED BY <2>2, <2>3
<1> QED BY <1>11, <1>12

\* One round of the loop over the waiting requests.
LEMMA WaitingInv ==
  ASSUME Inv, NEW hit \in Hits, NEW room \in BOOLEAN, ScheduleWaiting(hit, room)
  PROVE  Inv'
<1> DEFINE r == Head(waiting)
           t == try_schedule(r, hit)
           Skipped == /\ t.new = 0 /\ ec' = t.ec /\ step' = [step EXCEPT !.pc = "end"]
                      /\ req' = req /\ running' = running /\ waiting' = waiting
           Refused == /\ ec' = free(t.ec, r) /\ step' = [step EXCEPT !.pc = "end"]
                      /\ req' = req /\ running' = running /\ waiting' = waiting
           Admitted == /\ t.new > 0 /\ ec' = Allocated(t.ec, r, t.inputs)
                       /\ step' = [Scheduled(step, r, hit, t) EXCEPT !.pc = "waiting"]
                       /\ req' = [req EXCEPT ![r] = [status |-> "RUNNING", computed |-> hit]]
                       /\ running' = Append(running, r) /\ waiting' = Tail(waiting)
<1>1. /\ TypeInv /\ QueuesInv /\ CacheInv /\ StepInv /\ ViewInv /\ MissedInv /\ ReferInv
  BY DEF Inv
<1>2. /\ waiting # <<>> /\ step.tokens # 0 /\ hit < PromptLen[r]
      /\ inflight' = inflight /\ executed' = executed /\ worker' = worker /\ missed' = missed
  BY DEF ScheduleWaiting, WaitingDone
<1>3. Skipped \/ Refused \/ Admitted
  BY DEF ScheduleWaiting
<1>4. /\ running \in Seq(Requests) /\ waiting \in Seq(Requests) /\ step \in Steps /\ req \in Records
      /\ \A q \in Requests : req[q].computed <= PromptLen[q]
  BY <1>1 DEF TypeInv
<1>5. /\ IsInjective(running) /\ IsInjective(waiting) /\ Range(running) \cap Range(waiting) = {}
      /\ \A q \in Range(running) \cup Range(waiting) : req[q].status # "NEW"
  BY <1>1 DEF QueuesInv
<1>6. /\ r \in Requests /\ Tail(waiting) \in Seq(Requests) /\ Range(waiting) = {r} \cup Range(Tail(waiting))
      /\ IsInjective(Tail(waiting)) /\ r \notin Range(Tail(waiting))
  BY <1>2, <1>4, <1>5, TailFacts
<1> HIDE DEF r
<1>7. r \notin Range(running)
  BY <1>5, <1>6
<1>8. hit \in Nat /\ hit <= PromptLen[r] /\ step.tokens > 0
  <2>1. hit \in Nat /\ PromptLen[r] \in Nat
    BY <1>6, EncoderCacheAssumption
  <2>2. step.tokens \in Nat
    BY <1>4 DEF Steps
  <2> QED BY <1>2, <2>1, <2>2, SMT
<1>9. /\ Outcome(t, ec, r, hit) /\ Exact(t.ec) /\ Owned(t.ec) /\ Grown(ec, t.ec, r)
      /\ t.new \in Nat /\ t.new <= step.tokens /\ t.budget \in Int
      /\ \A e \in Range(step.entries) : EntryOK(e, t.ec, req)
      /\ \A V : Mirrors(ec, V, Encoded(step.entries)) => Mirrors(t.ec, V, Encoded(step.entries))
  BY <1>1, <1>6, <1>8, TriedFacts
<1> HIDE DEF t
<1>10. Distinct(step.entries) /\ \A e \in Range(step.entries) : e.r \in Range(running) /\ e.r # r
  BY <1>1, <1>7 DEF StepInv
<1>11. ASSUME Skipped PROVE Inv'
  <2>1. step' \in Steps /\ step'.pc = "end" /\ step'.entries = step.entries
    BY <1>4, <1>11 DEF Steps
  <2>2. CacheInv' /\ QueuesInv'
    BY <1>1, <1>9, <1>11 DEF CacheInv, QueuesInv
  <2>3. ReferInv'
    <3> SUFFICES ASSUME Shift = 0, ItemsApart PROVE ReferTo(ec', Range(running'))
      BY DEF ReferInv
    <3>1. SameRefs(ec, t.ec) /\ ReferTo(ec, Range(running)) /\ DOMAIN t.ec.cached \subseteq DOMAIN ec.cached
      BY <1>1, <1>9, <1>11 DEF ReferInv, Outcome, Grown
    <3>2. ReferTo(t.ec, Range(running))
      BY <3>1 DEF SameRefs, ReferTo
    <3> QED BY <1>11, <3>2
  <2>4. \A e \in Range(step'.entries) : e.r \in Range(running') /\ EntryOK(e, ec', req')
    BY <1>9, <1>10, <1>11, <2>1
  <2>5. \A V : Mirrors(ec, V, Encoded(step.entries)) => Mirrors(ec', V, Encoded(step'.entries))
    BY <1>9, <1>11, <2>1
  <2>6. step'.pc # "idle" /\ step'.pc # "running" /\ Distinct(step'.entries)
    BY <1>10, <2>1
  <2> HIDE DEF Refused, Admitted
  <2> QED BY <1>2, <1>4, <1>11, <2>1, <2>2, <2>3, <2>4, <2>5, <2>6, RoundInv
<1>12. ASSUME Refused PROVE Inv'
  <2>1. step' \in Steps /\ step'.pc = "end" /\ step'.entries = step.entries
    BY <1>4, <1>12 DEF Steps
  <2>2. Exact(ec') /\ Owned(ec') /\ Shrunk(t.ec, ec', {r}) /\ \A h : ~Refers(ec', r, h)
    BY <1>6, <1>9, <1>12, FreeRequest
  <2>3. CacheInv' /\ QueuesInv'
    BY <1>1, <1>12, <2>2 DEF CacheInv, QueuesInv
  <2>4. ReferInv'
    <3> SUFFICES ASSUME Shift = 0, ItemsApart PROVE ReferTo(ec', Range(running'))
      BY DEF ReferInv
    <3> DEFINE Q == Range(running) \cup {r}
    <3>1. ReferTo(ec, Range(running))
      BY <1>1 DEF ReferInv
    <3>2. ReferTo(t.ec, Q)
      BY <1>9, <3>1, GrownReferTo
    <3>3. \A q \in {r} : \A h : ~Refers(ec', q, h)
      BY <2>2
    <3>4. Q \ {r} = Range(running)
      BY <1>7
    <3> HIDE DEF Q
    <3>5. ReferTo(ec', Q \ {r})
      BY <2>2, <3>2, <3>3, ShrunkReferTo
    <3> QED BY <1>12, <3>4, <3>5
  <2>5. ASSUME NEW e \in Range(step.entries) PROVE EntryOK(e, ec', req)
    <3>1. e.r \notin {r} /\ EntryOK(e, t.ec, req)
      BY <1>9, <1>10
    <3>2. \A h : Refers(t.ec, e.r, h) => Refers(ec', e.r, h)
      BY <2>2, <3>1, ShrunkRefers
    <3> QED BY <3>1, <3>2, EntryStays
  <2>6. \A e \in Range(step'.entries) : e.r \in Range(running') /\ EntryOK(e, ec', req')
    BY <1>10, <1>12, <2>1, <2>5
  <2>7. \A V : Mirrors(ec, V, Encoded(step.entries)) => Mirrors(ec', V, Encoded(step'.entries))
    BY <1>9, <2>1, <2>2, ShrunkMirrors
  <2>8. step'.pc # "idle" /\ step'.pc # "running" /\ Distinct(step'.entries)
    BY <1>10, <2>1
  <2> HIDE DEF Skipped, Admitted
  <2> QED BY <1>2, <1>4, <1>12, <2>1, <2>3, <2>4, <2>6, <2>7, <2>8, RoundInv
<1>13. ASSUME Admitted PROVE Inv'
  <2> DEFINE s == Scheduled(step, r, hit, t)
  <2>1. /\ t.new > 0 /\ ec' = Allocated(t.ec, r, t.inputs) /\ step' = [s EXCEPT !.pc = "waiting"]
        /\ req' = [req EXCEPT ![r] = [status |-> "RUNNING", computed |-> hit]]
        /\ running' = Append(running, r) /\ waiting' = Tail(waiting)
    BY <1>13
  <2> HIDE DEF s, Skipped, Refused, Admitted
  <2>2. /\ running' \in Seq(Requests) /\ Range(running') = Range(running) \cup {r} /\ IsInjective(running')
    BY <1>4, <1>5, <1>6, <1>7, <2>1, AppendFacts, SMT
  <2>3. /\ req' \in Records /\ req'[r] = [status |-> "RUNNING", computed |-> hit]
        /\ \A q \in Requests : q # r => req'[q] = req[q]
    <3>1. [status |-> "RUNNING", computed |-> hit] \in [status : Status, computed : Nat]
      BY <1>8 DEF Status
    <3> QED BY <1>4, <1>6, <2>1, <3>1 DEF Records
  <2>4. req'[r].computed = hit /\ req'[r].status # "NEW"
    <3>1. req'[r].computed = hit /\ req'[r].status = "RUNNING"
      BY <2>3, SMT
    <3> QED BY <3>1
  <2>5. \A q \in Requests : req'[q].computed <= PromptLen[q]
    BY <1>4, <1>8, <2>3, <2>4
  <2>6. QueuesInv'
    <3>1. Range(running) \subseteq Requests /\ Range(waiting) \subseteq Requests
      BY <1>4, SeqFacts
    <3>2. Range(running') \cap Range(waiting') = {} /\ IsInjective(waiting')
      BY <1>5, <1>6, <2>1, <2>2
    <3>3. \A q \in Range(running') \cup Range(waiting') :
            q = r \/ (q # r /\ q \in Requests /\ req[q].status # "NEW")
      BY <1>5, <1>6, <2>1, <2>2, <3>1
    <3>4. \A q \in Range(running') \cup Range(waiting') : req'[q].status # "NEW"
      BY <2>3, <2>4, <3>3
    <3> QED BY <2>2, <3>2, <3>4 DEF QueuesInv
  <2>7. Shrunk(t.ec, t.ec, {}) /\ r \notin {}
    BY ShrunkSame
  <2>8. ASSUME NEW e \in Range(step.entries) PROVE EntryOK(e, t.ec, req')
    <3>1. e.r # r /\ e.r \in Requests /\ EntryOK(e, t.ec, req)
      <4>1. Range(running) \subseteq Requests
        BY <1>4, SeqFacts
      <4> QED BY <1>9, <1>10, <4>1
    <3>2. req'[e.r] = req[e.r]
      BY <2>3, <3>1
    <3> QED BY <3>1, <3>2, EntryStays
  <2>9. Shift = 0 /\ ItemsApart => ReferTo(t.ec, Range(running'))
    <3> SUFFICES ASSUME Shift = 0, ItemsApart PROVE ReferTo(t.ec, Range(running'))
      OBVIOUS
    <3>1. ReferTo(ec, Range(running))
      BY <1>1 DEF ReferInv
    <3>2. ReferTo(t.ec, Range(running) \cup {r})
      BY <1>9, <3>1, GrownReferTo
    <3> QED BY <2>2, <3>2
  <2>10. s \in Steps
    <3> DEFINE e == [r |-> r, start |-> hit, n |-> t.new, inputs |-> t.inputs]
    <3>1. t.inputs \in Seq(DOMAIN Size)
      BY <1>9 DEF Outcome, Tries
    <3>2. e \in Entries
      BY <1>6, <1>8, <1>9, <3>1 DEF Entries
    <3>3. e = [r |-> r, start |-> hit, n |-> t.new, inputs |-> t.inputs]
      OBVIOUS
    <3> HIDE DEF e
    <3> QED BY <1>4, <1>6, <1>8, <1>9, <3>2, <3>3, ScheduledFacts DEF s
  <2>11. step' \in Steps /\ step'.pc = "waiting" /\ step'.entries = s.entries
    BY <2>1, <2>10 DEF Steps
  <2>12. step'.entries = Scheduled(step, r, hit, t).entries /\ step'.pc # "idle" /\ step'.pc # "running"
    BY <2>11 DEF s
  <2>13. /\ \A e \in Range(step.entries) : e.r \in Range(running') /\ e.r # r
         /\ r \in Range(running') /\ waiting' \in Seq(Requests)
    BY <1>6, <1>10, <2>1, <2>2
  <2> QED BY <1>2, <1>6, <1>8, <1>9, <2>1, <2>2, <2>3, <2>4, <2>5, <2>6, <2>7, <2>8, <2>9,
             <2>11, <2>12, <2>13, JoinInv
<1> HIDE DEF Skipped, Refused, Admitted
<1> QED BY <1>3, <1>11, <1>12, <1>13

\* Every step keeps the invariant.
LEMMA NextInv ==
  ASSUME Inv, [Next]_vars
  PROVE  Inv'
<1>1. CASE BeginStep
  BY <1>1, BeginInv
<1>2. ASSUME NEW k \in 0 .. MaxRunning, ScheduleRunning(k) PROVE Inv'
  BY <1>2, RunningInv
<1>3. ASSUME NEW hit \in Hits, NEW room \in BOOLEAN, ScheduleWaiting(hit, room) PROVE Inv'
  BY <1>3, WaitingInv
<1>4. CASE EndStep
  BY <1>4, EndInv
<1>5. CASE UpdateFromOutput
  BY <1>5, UpdateInv
<1>6. CASE ExecuteModel
  BY <1>6, ExecuteInv
<1>7. CASE ResetEncoderCache
  BY <1>7, ResetInv
<1>8. ASSUME NEW r \in Requests, AddRequest(r) PROVE Inv'
  BY <1>8, AddInv
<1>9. ASSUME NEW r \in Requests, AbortRequest(r) PROVE Inv'
  BY <1>9, AbortInv
<1>10. CASE UNCHANGED vars
  <2>1. /\ ec' = ec /\ req' = req /\ running' = running /\ waiting' = waiting /\ step' = step
        /\ inflight' = inflight /\ executed' = executed /\ worker' = worker /\ missed' = missed
    BY <1>10 DEF vars
  <2> QED BY <2>1 DEF Inv, TypeInv, QueuesInv, CacheInv, StepInv, ViewInv, MissedInv, ReferInv
<1> QED BY <1>1, <1>2, <1>3, <1>4, <1>5, <1>6, <1>7, <1>8, <1>9, <1>10 DEF Next, EngineStep

-----------------------------------------------------------------------------
(* What the invariant says.                                                *)

\* The state has its shape, and the counters are exact.
LEMMA CountersFollow == Inv => TypeOK /\ CountersExact
<1> SUFFICES ASSUME Inv PROVE TypeOK /\ CountersExact
  OBVIOUS
<1> DEFINE D == DOMAIN ec.cached
<1>1. Exact(ec) /\ TypeInv /\ ViewInv
  BY DEF Inv, CacheInv
<1>2. /\ ec \in Caches /\ ~ec.error /\ IsFiniteSet(D)
      /\ ec.num_free_slots = CacheSize - Weight(D) /\ ec.num_free_slots >= 0
      /\ ec.num_freeable_slots = ec.num_free_slots + Weight(Idle(ec))
      /\ Range(ec.freeable) = Idle(ec) /\ IsInjective(ec.freeable)
  BY <1>1 DEF Exact
<1>3. D \subseteq DOMAIN Size /\ ec.cached \in [D -> SUBSET Requests] /\ ec.freeable \in Seq(DOMAIN Size)
  BY <1>2, CacheFields
<1>4. Idle(ec) \subseteq D
  BY DEF Idle
<1> HIDE DEF D
<1>5. SizeOf(ec.freeable) = Weight(Idle(ec))
  BY <1>2, <1>3, SizeOfWeight
<1>6. SumFunctionOnSet(Size, D) = Weight(D)
  BY <1>2, <1>3, SumWeight
<1>7. Weight(D) \in Nat /\ Weight(Idle(ec)) \in Nat /\ Weight(Idle(ec)) <= Weight(D)
  BY <1>2, <1>3, <1>4, WeightType, WeightMono
<1>8. CountersExact
  BY <1>2, <1>5, <1>6 DEF CountersExact, D, Idle
<1>9. /\ 0 <= ec.num_free_slots /\ ec.num_free_slots <= ec.num_freeable_slots
      /\ ec.num_freeable_slots <= CacheSize
  BY <1>2, <1>7, EncoderCacheAssumption, SMT
<1>10. \A h \in D : ec.cached[h] \subseteq Requests
  BY <1>3
<1>11. \A r \in Requests : req[r].computed \in 0 .. PromptLen[r]
  <2>1. \A r \in Requests : req[r].computed \in Nat /\ req[r].computed <= PromptLen[r] /\ PromptLen[r] \in Nat
    BY <1>1, EncoderCacheAssumption DEF TypeInv, Records
  <2> QED BY <2>1, SMT
<1>12. worker \subseteq DOMAIN Size /\ executed \in 0 .. Len(inflight)
  <2>1. executed \in 0 .. Len(inflight)
    BY <1>1 DEF TypeInv
  <2>2. PICK v : View(v, inflight, executed, worker)
    BY <1>1 DEF ViewInv
  <2>3. Len(inflight) \in Nat
    BY <1>1, SeqFacts DEF TypeInv
  <2>4. executed \in executed .. Len(inflight)
    BY <2>1, <2>3, SMT
  <2> QED BY <2>1, <2>2, <2>4 DEF View
<1> QED BY <1>3, <1>8, <1>9, <1>10, <1>11, <1>12 DEF TypeOK, D

\* The worker's outputs: each is counted, or word of its eviction is under way.
LEMMA AccountedFollows == Inv => WorkerAccounted
<1> SUFFICES ASSUME Inv PROVE WorkerAccounted
  OBVIOUS
<1> DEFINE n == Len(inflight)
           F == UNION {Range(inflight[i].freed) : i \in executed + 1 .. n}
<1>1. TypeInv /\ ViewInv
  BY DEF Inv
<1>2. executed \in 0 .. n /\ n \in Nat
  BY <1>1, SeqFacts DEF TypeInv
<1>3. PICK v : View(v, inflight, executed, worker) /\ Mirrors(ec, v[n], Encoded(step.entries))
  BY <1>1 DEF ViewInv
<1>4. /\ v[executed] = worker
      /\ \A i \in executed + 1 .. n :
           v[i] = (v[i - 1] \ Range(inflight[i].freed)) \cup Encoded(inflight[i].entries)
  BY <1>3 DEF View
<1>5. \A i \in executed + 1 .. n : Range(inflight[i].freed) \subseteq F
  OBVIOUS
<1> HIDE DEF n
<1> HIDE DEF F
<1> DEFINE m == n - executed
           S == {i \in 0 .. m : worker \subseteq v[executed + i] \cup F}
<1>6. m \in Nat /\ executed + 0 = executed /\ executed + m = n /\ 0 \in 0 .. m /\ m \in 0 .. m
  BY <1>2, SMT
<1>7. 0 \in S
  BY <1>4, <1>6
<1>8. ASSUME NEW i \in 0 .. m - 1, i \in S PROVE i + 1 \in S
  <2> DEFINE j == executed + (i + 1)
  <2>1. j \in executed + 1 .. n /\ j - 1 = executed + i /\ i + 1 \in 0 .. m
    BY <1>2, <1>6, SMT
  <2> HIDE DEF m
  <2>2. worker \subseteq v[executed + i] \cup F
    BY <1>8
  <2> HIDE DEF j
  <2>3. v[j] = (v[j - 1] \ Range(inflight[j].freed)) \cup Encoded(inflight[j].entries)
        /\ Range(inflight[j].freed) \subseteq F
    BY <1>4, <1>5, <2>1
  <2>4. worker \subseteq v[j] \cup F
    BY <2>1, <2>2, <2>3
  <2> QED BY <2>1, <2>4 DEF j
<1>9. m \in S
  <2> HIDE DEF S, m
  <2> QED BY <1>6, <1>7, <1>8, SetInduction
<1>10. worker \subseteq v[n] \cup F
  BY <1>6, <1>9
<1>11. v[n] \subseteq DOMAIN ec.cached \cup Range(ec.freed)
  BY <1>3 DEF Mirrors
<1>12. worker \subseteq DOMAIN ec.cached \cup Range(ec.freed) \cup F
  BY <1>10, <1>11
<1> QED BY <1>12 DEF WorkerAccounted, F, n

\* The invariant holds.
LEMMA InvHolds == Spec => []Inv
<1>1. Inv /\ [Next]_vars => Inv'
  BY NextInv
<1> QED BY <1>1, InitInv, PTL DEF Spec

-----------------------------------------------------------------------------
(* The theorems.                                                           *)

\* num_free_slots and num_freeable_slots count what the tables hold, `freeable`
\* lists the items without references, once each, and no assertion or lookup of
\* EncoderCacheManager fails: for any requests, features, sizes, budgets, numbers
\* of batches ahead, preemptions, aborts and resets, with a drafter or without.
THEOREM CountersAreExact == Spec => [](TypeOK /\ CountersExact)
BY CountersFollow, InvHolds, PTL

\* The worker holds no output that the manager does not count, except those whose
\* eviction is on its way to it; with a drafter or without.
THEOREM WorkerIsAccounted == Spec => []WorkerAccounted
BY AccountedFollows, InvHolds, PTL

\* Without a drafter that reads ahead, every batch finds the encoder outputs of
\* its tokens in the worker's cache: the assertion of _gather_mm_embeddings holds
\* whatever the scheduler evicts while earlier batches are still to run.
THEOREM OutputsArePresent ==
  ASSUME Shift = 0
  PROVE  Spec => []OutputsPresent
<1>1. Inv => OutputsPresent
  BY DEF Inv, MissedInv, OutputsPresent
<1> QED BY <1>1, InvHolds, PTL

\* Without a drafter, and if the items of a prompt do not overlap, only running
\* requests refer to items too: a request that waits, was preempted, could not be
\* admitted or has ended holds no slot of the encoder cache.
THEOREM SlotsAreExact ==
  ASSUME Shift = 0, ItemsApart
  PROVE  Spec => []SlotsExact
<1>1. Inv => RunningRefer
  BY DEF Inv, ReferInv, ReferTo, RunningRefer
<1>2. Inv => SlotsExact
  BY <1>1, CountersFollow DEF SlotsExact
<1> QED BY <1>2, InvHolds, PTL

=============================================================================
