--------------------------- MODULE ExecutorProofs ---------------------------
(***************************************************************************)
(* For any number of workers, calls, crashes, failures and time-outs, with *)
(* or without an aggregator of the ranks' outputs: a step uses the answers *)
(* to its own call, and a utility call gets another call's answer from a   *)
(* rank only after an answer of that rank was left in its queue.           *)
(***************************************************************************)
EXTENDS Executor, TLAPS

\* Most leaves need no arithmetic; those that do cite SMT.
USE Zenon

-----------------------------------------------------------------------------
(* The inductive invariant: types.                                         *)

Pcs == {"loop", "check", "enqueue", "write", "lookup", "pop", "drain", "dead"}
States == {"pending", "value", "failure", "timeout", "cancelled"}
Kinds == {"failure", "none", "output", "drafts", "reply"}
AnswerSet == [call : Nat, value : Kinds]
Partial == UNION {[ranks -> AnswerSet] : ranks \in SUBSET Ranks}
Outcomes == [state : States, answers : Partial]
Futures == [call : Nat, mqs : SUBSET Ranks]
InFlight == [fut : Nat, exec : Nat]
Engine == [pc : Pcs, method : Methods, wait : Nat, exec : Nat, deferred : BOOLEAN]

EngineOK ==
    /\ log \in Seq(Methods)
    /\ result \in Seq(Outcomes)
    /\ Len(result) = Len(log)
    /\ futures \in Seq(Futures)
    /\ batch_queue \in Seq(InFlight)
    /\ engine \in Engine

WorkerOK ==
    /\ alive \in [Ranks -> BOOLEAN]
    /\ taken \in [Ranks -> Nat]
    /\ finished \in [Ranks -> Nat]
    /\ output_queue \in [Ranks -> Seq(AnswerSet)]
    /\ responses \in [Ranks -> Seq(AnswerSet)]
    /\ \A w \in Ranks : /\ finished[w] <= taken[w] /\ taken[w] <= finished[w] + 1
                        /\ taken[w] <= Len(log)

FlagsOK ==
    /\ {is_failed, shutting_down, cancelled, cleared, callback} \subseteq BOOLEAN
    /\ monitor \in {"watch", "shutdown", "terminate", "clear", "callback", "done"}
    /\ cleared \/ monitor \in {"shutdown", "terminate", "clear", "callback"} => is_failed

\* What the futures and the batches refer to, the engine dead or not.
RefInv ==
    /\ \A i \in 1 .. Len(futures) : futures[i].call \in Calls
    /\ \A i \in 1 .. Len(batch_queue) : {batch_queue[i].fut, batch_queue[i].exec} \subseteq Calls
    /\ applied.of = {applied.call}

-----------------------------------------------------------------------------
(* The inductive invariant: the answers of a rank.                         *)

\* The answers of a worker that nobody has received, in order.
Stream(w) == responses[w] \o output_queue[w]

Batches == {"sample_tokens", "execute_empty"}

\* The answer of a rank that was asked, of a kind that the call can have.
Fits(w, answer) ==
    /\ answer.call \in Calls
    /\ answer.call <= finished[w]
    /\ w \in Asked(log[answer.call])
    /\ answer.value = "output" => log[answer.call] \in Batches
    /\ answer.value = "drafts" => log[answer.call] = "take_draft_token_ids"

Got(n, w) == w \in DOMAIN result[n].answers
From(n, w) == result[n].answers[w]

\* They are in the order of the calls.
StreamInv(w) ==
    /\ \A i \in 1 .. Len(Stream(w)) : Fits(w, Stream(w)[i])
    /\ \A i, j \in 1 .. Len(Stream(w)) : i < j => Stream(w)[i].call < Stream(w)[j].call

\* A call has received the answer to itself or to an earlier call, and to an
\* earlier one only when some call has missed an answer of that rank.
ReceivedInv(w) ==
    \A n \in Calls :
        Got(n, w) => /\ w \in Asked(log[n])
                     /\ Fits(w, From(n, w))
                     /\ From(n, w).call <= n
                     /\ From(n, w).call = n \/ \E m \in 1 .. n - 1 : Missed(m, w)
                     /\ \A i \in 1 .. Len(Stream(w)) : From(n, w).call < Stream(w)[i].call

\* Answers are received in order, each of them once.
OrderInv(w) ==
    \A m, n \in Calls : m < n /\ Got(m, w) /\ Got(n, w) => From(m, w).call < From(n, w).call

\* No answer is lost.
CoverInv(w) ==
    \A c \in Calls :
        c <= finished[w] /\ w \in Asked(log[c]) =>
           \/ \E i \in 1 .. Len(Stream(w)) : Stream(w)[i].call = c
           \/ \E n \in Calls : Got(n, w) /\ From(n, w).call = c

RankInv(w) == StreamInv(w) /\ ReceivedInv(w) /\ OrderInv(w) /\ CoverInv(w)

\* A future that has a value has the answers of all the ranks that were asked.
ValueInv ==
    \A n \in Calls :
        result[n].state = "value" => \/ \A w \in Ranks : Got(n, w) <=> w \in Asked(log[n])
                                     \/ is_failed /\ \A w \in Ranks : ~Got(n, w)

-----------------------------------------------------------------------------
(* The inductive invariant: the engine.                                    *)

Live == engine.pc # "dead"
Calling == engine.pc \in {"check", "enqueue", "write", "lookup"}

\* The last call that has a future, and the first whose future is not resolved.
Registered == IF engine.pc = "lookup" THEN Len(log) - 1 ELSE Len(log)
First == Registered - Len(futures) + 1

\* Room in the batch queue, when a batch has been taken out for one to come.
Room == Len(batch_queue) + (IF engine.deferred THEN 1 ELSE 0) < BatchQueueSize

\* Where the engine is in step_with_batch_queue.
StepInv ==
    /\ engine.pc = "loop" => engine = Idle /\ Room
    /\ engine.pc = "lookup" => Len(log) > 0 /\ log[Len(log)] = engine.method
    /\ Calling =>
          \/ engine.method \in Utility \cup {"execute_empty"} /\ ~engine.deferred /\ Room
          \/ /\ engine.method = "execute_model" /\ Len(batch_queue) < BatchQueueSize
             /\ engine.deferred => batch_queue # <<>>
          \/ engine.method = "sample_tokens" /\ engine.exec \in 1 .. Registered /\ Room
          \/ /\ engine.method = "take_draft_token_ids" /\ engine.exec \in 1 .. Registered
             /\ engine.deferred /\ Room
    /\ engine.pc \in {"pop", "drain"} =>
          \/ /\ batch_queue # <<>> /\ Len(batch_queue) <= BatchQueueSize
             /\ engine.deferred => /\ Len(batch_queue) < BatchQueueSize
                                   /\ engine.exec \in 1 .. Registered
             /\ engine.pc = "drain" => engine.wait = batch_queue[1].fut
          \/ /\ engine.pc = "drain" /\ Len(log) > 0 /\ engine.wait = Len(log) /\ Room
             /\ \/ log[Len(log)] \in Utility /\ ~engine.deferred
                \/ /\ log[Len(log)] = "take_draft_token_ids" /\ engine.deferred
                   /\ engine.exec \in 1 .. Registered

\* The futures are those of the last calls, in order, and only the first of
\* them has received answers.
FutureInv ==
    /\ Len(futures) <= Registered
    /\ \A n \in Calls : Done(result[n]) <=> n < First
    /\ \A n \in Calls : n > First \/ n > Registered => \A w \in Ranks : ~Got(n, w)
    /\ \A i \in 1 .. Len(futures) :
          /\ futures[i].call = First + i - 1
          /\ \/ futures[i].mqs = Asked(log[futures[i].call])
             \/ /\ futures[i].mqs = {} /\ cleared
                /\ \A w \in Ranks : ~Got(futures[i].call, w)

Own(n) == \A w \in Asked(log[n]) : Got(n, w) /\ From(n, w).call = n

\* The batches in flight are in order.
BatchInv ==
    /\ \A i \in 1 .. Len(batch_queue) : /\ batch_queue[i].fut \in 1 .. Registered
                                        /\ batch_queue[i].exec \in 1 .. Registered
                                        /\ log[batch_queue[i].fut] \in Batches
    /\ \A i, j \in 1 .. Len(batch_queue) : i < j => batch_queue[i].fut < batch_queue[j].fut

\* An engine that goes on has used the answers of each batch that is not in
\* flight, and of each call for draft tokens, and they were the call's own.
UsedInv ==
    \A n \in 1 .. Registered :
        /\ log[n] \in Batches =>
              Own(n) \/ \E i \in 1 .. Len(batch_queue) : batch_queue[i].fut = n
        /\ log[n] = "take_draft_token_ids" =>
              Own(n) \/ (engine.pc = "drain" /\ engine.wait = n)

LiveInv == Live => StepInv /\ FutureInv /\ BatchInv /\ UsedInv

Inv == /\ EngineOK /\ WorkerOK /\ FlagsOK /\ RefInv /\ ValueInv /\ LiveInv
       /\ \A w \in Ranks : RankInv(w)


-----------------------------------------------------------------------------
(* Sequences.                                                              *)

\* The elements of a sequence.
LEMMA SeqLen ==
    ASSUME NEW S, NEW s \in Seq(S)
    PROVE  /\ Len(s) \in Nat /\ DOMAIN s = 1 .. Len(s) /\ (s = <<>> <=> Len(s) = 0)
           /\ \A i \in 1 .. Len(s) : s[i] \in S
    BY SMT

\* Sequences with the same elements are the same.
LEMMA SeqSame ==
    ASSUME NEW S, NEW s \in Seq(S), NEW t \in Seq(S), Len(s) = Len(t),
           \A i \in 1 .. Len(s) : s[i] = t[i]
    PROVE  s = t
    BY SMT

\* Taking the first element.
LEMMA SeqTail ==
    ASSUME NEW S, NEW s \in Seq(S), s # <<>>
    PROVE  /\ Head(s) \in S /\ Head(s) = s[1] /\ Tail(s) \in Seq(S)
           /\ Len(Tail(s)) = Len(s) - 1
           /\ \A i \in 1 .. Len(Tail(s)) : Tail(s)[i] = s[i + 1]
    BY SMT

\* Adding an element.
LEMMA SeqAppend ==
    ASSUME NEW S, NEW s \in Seq(S), NEW x \in S
    PROVE  /\ Append(s, x) \in Seq(S) /\ Append(s, x) # <<>> /\ Len(Append(s, x)) = Len(s) + 1
           /\ \A i \in 1 .. Len(s) : Append(s, x)[i] = s[i]
           /\ Append(s, x)[Len(s) + 1] = x
    BY SMT

\* One sequence after the other.
LEMMA SeqConcat ==
    ASSUME NEW S, NEW r \in Seq(S), NEW q \in Seq(S)
    PROVE  /\ r \o q \in Seq(S) /\ Len(r \o q) = Len(r) + Len(q)
           /\ \A i \in 1 .. Len(r) + Len(q) :
                 (r \o q)[i] = IF i <= Len(r) THEN r[i] ELSE q[i - Len(r)]
    BY SMT

\* Appending to the second of two sequences appends to both.
LEMMA AppendConcat ==
    ASSUME NEW S, NEW r \in Seq(S), NEW q \in Seq(S), NEW x \in S
    PROVE  r \o Append(q, x) = Append(r \o q, x)
<1>1. /\ Append(q, x) \in Seq(S) /\ Len(Append(q, x)) = Len(q) + 1
      /\ \A i \in 1 .. Len(q) : Append(q, x)[i] = q[i]
      /\ Append(q, x)[Len(q) + 1] = x
    BY SeqAppend, SMT
<1>2. r \o q \in Seq(S) /\ Len(r \o q) = Len(r) + Len(q)
    BY SeqConcat
<1>3. \A i \in 1 .. Len(r) + Len(q) : (r \o q)[i] = IF i <= Len(r) THEN r[i] ELSE q[i - Len(r)]
    BY SeqConcat
<1>4. /\ r \o Append(q, x) \in Seq(S) /\ Len(r \o Append(q, x)) = Len(r) + Len(q) + 1
      /\ \A i \in 1 .. Len(r) + Len(q) + 1 :
            (r \o Append(q, x))[i] = IF i <= Len(r) THEN r[i] ELSE Append(q, x)[i - Len(r)]
  <2>1. /\ r \o Append(q, x) \in Seq(S) /\ Len(r \o Append(q, x)) = Len(r) + Len(Append(q, x))
        /\ \A i \in 1 .. Len(r) + Len(Append(q, x)) :
              (r \o Append(q, x))[i] = IF i <= Len(r) THEN r[i] ELSE Append(q, x)[i - Len(r)]
    BY ONLY <1>1, r \in Seq(S), SeqConcat, Zenon
  <2>2. Len(r) + Len(Append(q, x)) = Len(r) + Len(q) + 1
    BY <1>1, SeqLen, SMT
  <2>. QED
    BY ONLY <2>1, <2>2, Zenon
<1>5. /\ Append(r \o q, x) \in Seq(S) /\ Len(Append(r \o q, x)) = Len(r) + Len(q) + 1
      /\ \A i \in 1 .. Len(r) + Len(q) : Append(r \o q, x)[i] = (r \o q)[i]
      /\ Append(r \o q, x)[Len(r) + Len(q) + 1] = x
    BY <1>2, SeqAppend, SMT
<1>6. ASSUME NEW i \in 1 .. Len(r) + Len(q) + 1
      PROVE  (r \o Append(q, x))[i] = Append(r \o q, x)[i]
  <2>. Len(r) \in Nat /\ Len(q) \in Nat
    BY SeqLen
  <2>1. CASE i <= Len(r)
    BY <2>1, <1>3, <1>4, <1>5, SMT
  <2>2. CASE i > Len(r) /\ i <= Len(r) + Len(q)
    <3>1. i - Len(r) \in 1 .. Len(q) /\ i \in 1 .. Len(r) + Len(q)
      BY <2>2, SMT
    <3>. QED
      BY <2>2, <3>1, <1>1, <1>3, <1>4, <1>5
  <2>3. CASE i = Len(r) + Len(q) + 1
    <3>1. i - Len(r) = Len(q) + 1 /\ ~(i <= Len(r))
      BY <2>3, SMT
    <3>. QED
      BY <2>3, <3>1, <1>1, <1>4, <1>5
  <2>. QED
    BY <2>1, <2>2, <2>3, SMT
<1>. QED
    BY <1>4, <1>5, <1>6, SeqSame

\* Taking from the first of two sequences takes from both.
LEMMA TailConcat ==
    ASSUME NEW S, NEW r \in Seq(S), NEW q \in Seq(S), r # <<>>
    PROVE  /\ Tail(r) \o q = Tail(r \o q)
           /\ r \o q # <<>>
           /\ (r \o q)[1] = Head(r)
<1>1. /\ Tail(r) \in Seq(S) /\ Len(Tail(r)) = Len(r) - 1
      /\ \A i \in 1 .. Len(Tail(r)) : Tail(r)[i] = r[i + 1]
    BY SeqTail
<1>2. /\ r \o q \in Seq(S) /\ Len(r \o q) = Len(r) + Len(q)
      /\ \A i \in 1 .. Len(r) + Len(q) : (r \o q)[i] = IF i <= Len(r) THEN r[i] ELSE q[i - Len(r)]
    BY SeqConcat
<1>3. Len(r) \in Nat \ {0} /\ Len(q) \in Nat
    BY SeqLen, SMT
<1>4. r \o q # <<>>
    BY <1>2, <1>3, SeqLen, SMT
<1>5. /\ Tail(r) \o q \in Seq(S) /\ Len(Tail(r) \o q) = Len(r) - 1 + Len(q)
      /\ \A i \in 1 .. Len(r) - 1 + Len(q) :
            (Tail(r) \o q)[i] = IF i <= Len(r) - 1 THEN Tail(r)[i] ELSE q[i - (Len(r) - 1)]
    BY <1>1, SeqConcat, SMT
<1>6. /\ Tail(r \o q) \in Seq(S) /\ Len(Tail(r \o q)) = Len(r) + Len(q) - 1
      /\ \A i \in 1 .. Len(r) + Len(q) - 1 : Tail(r \o q)[i] = (r \o q)[i + 1]
    BY <1>2, <1>4, SeqTail, SMT
<1>7. ASSUME NEW i \in 1 .. Len(r) - 1 + Len(q)
      PROVE  (Tail(r) \o q)[i] = Tail(r \o q)[i]
  <2>1. Tail(r \o q)[i] = IF i + 1 <= Len(r) THEN r[i + 1] ELSE q[i + 1 - Len(r)]
    BY <1>2, <1>3, <1>6, SMT
  <2>2. CASE i + 1 <= Len(r)
    BY <2>1, <2>2, <1>1, <1>3, <1>5, SMT
  <2>3. CASE ~(i + 1 <= Len(r))
    <3>1. i - (Len(r) - 1) = i + 1 - Len(r)
      BY <1>3, SMT
    <3>. QED
      BY <2>1, <2>3, <3>1, <1>3, <1>5, SMT
  <2>. QED
    BY <2>2, <2>3
<1>8. (r \o q)[1] = Head(r)
    BY <1>2, <1>3, SMT
<1>9. Tail(r) \o q = Tail(r \o q)
    BY <1>3, <1>5, <1>6, <1>7, SeqSame, SMT
<1>. QED
    BY <1>4, <1>8, <1>9

\* Moving an element from the second of two sequences to the first changes
\* nothing.
LEMMA MoveConcat ==
    ASSUME NEW S, NEW r \in Seq(S), NEW q \in Seq(S), q # <<>>
    PROVE  Append(r, Head(q)) \o Tail(q) = r \o q
<1>1. /\ Tail(q) \in Seq(S) /\ Len(Tail(q)) = Len(q) - 1 /\ Head(q) \in S
      /\ \A i \in 1 .. Len(Tail(q)) : Tail(q)[i] = q[i + 1]
    BY SeqTail
<1>2. /\ r \o q \in Seq(S) /\ Len(r \o q) = Len(r) + Len(q)
      /\ \A i \in 1 .. Len(r) + Len(q) : (r \o q)[i] = IF i <= Len(r) THEN r[i] ELSE q[i - Len(r)]
    BY SeqConcat
<1>3. /\ Append(r, Head(q)) \in Seq(S) /\ Len(Append(r, Head(q))) = Len(r) + 1
      /\ \A i \in 1 .. Len(r) : Append(r, Head(q))[i] = r[i]
      /\ Append(r, Head(q))[Len(r) + 1] = Head(q)
    BY <1>1, SeqAppend, SMT
<1>4. Len(r) \in Nat /\ Len(q) \in Nat \ {0} /\ Head(q) = q[1]
    BY SeqLen, SMT
<1>5. /\ Append(r, Head(q)) \o Tail(q) \in Seq(S)
      /\ Len(Append(r, Head(q)) \o Tail(q)) = Len(r) + 1 + (Len(q) - 1)
      /\ \A i \in 1 .. Len(r) + 1 + (Len(q) - 1) :
            (Append(r, Head(q)) \o Tail(q))[i] =
               IF i <= Len(r) + 1 THEN Append(r, Head(q))[i] ELSE Tail(q)[i - (Len(r) + 1)]
    BY <1>1, <1>3, SeqConcat, SMT
<1>6. ASSUME NEW i \in 1 .. Len(r) + Len(q)
      PROVE  (Append(r, Head(q)) \o Tail(q))[i] = (r \o q)[i]
  <2>1. CASE i <= Len(r)
    BY <2>1, <1>2, <1>3, <1>4, <1>5, SMT
  <2>2. CASE i = Len(r) + 1
    <3>1. i - Len(r) = 1 /\ ~(i <= Len(r)) /\ i \in 1 .. Len(r) + 1 + (Len(q) - 1)
      BY <2>2, <1>4, SMT
    <3>. QED
      BY <2>2, <3>1, <1>2, <1>3, <1>4, <1>5, SMT
  <2>3. CASE i > Len(r) + 1
    <3>1. /\ i - (Len(r) + 1) \in 1 .. Len(Tail(q)) /\ i - (Len(r) + 1) + 1 = i - Len(r)
          /\ i \in 1 .. Len(r) + 1 + (Len(q) - 1) /\ ~(i <= Len(r) + 1) /\ ~(i <= Len(r))
      BY <2>3, <1>1, <1>4, SMT
    <3>. QED
      BY <3>1, <1>1, <1>2, <1>5
  <2>. QED
    BY <2>1, <2>2, <2>3, <1>4, SMT
<1>7. Len(r) + 1 + (Len(q) - 1) = Len(r) + Len(q)
    BY <1>4, SMT
<1>. QED
    BY <1>2, <1>5, <1>6, <1>7, SeqSame

\* The sequences that the engine builds.
LEMMA SeqTypes ==
    ASSUME NEW S, NEW s \in Seq(S)
    PROVE  /\ \A x \in S : Append(s, x) \in Seq(S) /\ Len(Append(s, x)) = Len(s) + 1
           /\ s # <<>> => Head(s) \in S /\ Tail(s) \in Seq(S)
           /\ Len(s) \in Nat
    BY SeqAppend, SeqTail, SeqLen, SMT

-----------------------------------------------------------------------------
(* Constants and numbers.                                                  *)

\* The constants.
LEMMA Sizes ==
    /\ OutputRank \in Ranks /\ BatchQueueSize \in Nat /\ BatchQueueSize > 1
    /\ \A w \in Ranks : w \in Nat
    /\ \A method : Asked(method) \subseteq Ranks
    /\ \A method : Asked(method) # {}
    /\ \A method \in Utility : Asked(method) = Ranks
<1>1. /\ OutputRank \in Ranks /\ BatchQueueSize \in Nat /\ BatchQueueSize > 1
      /\ \A w \in Ranks : w \in Nat
    BY ExecutorAssumption, SMT DEF Ranks
<1>. QED
    BY <1>1 DEF Asked, ToAll

\* Lengths and positions are numbers.
LEMMA Numbers ==
    ASSUME EngineOK
    PROVE  /\ Len(log) \in Nat /\ Len(futures) \in Nat /\ Len(batch_queue) \in Nat
           /\ Registered \in Int /\ First \in Int
           /\ \A n \in Calls : n \in Nat /\ n >= 1 /\ n <= Len(log)
           /\ \A n \in Calls : \A m \in 1 .. n - 1 : m \in Calls /\ m < n
<1>1. Len(log) \in Nat /\ Len(futures) \in Nat /\ Len(batch_queue) \in Nat
    BY SeqLen DEF EngineOK
<1>. QED
    BY <1>1, SMT DEF Registered, First, Calls

\* The elements of the engine's sequences.
LEMMA Elements ==
    ASSUME EngineOK
    PROVE  /\ \A n \in Calls : result[n] \in Outcomes /\ log[n] \in Methods
           /\ \A n \in Calls : result[n].state \in States /\ result[n].answers \in Partial
           /\ \A i \in 1 .. Len(futures) : futures[i] \in Futures
           /\ \A i \in 1 .. Len(batch_queue) : batch_queue[i] \in InFlight
<1>1. \A n \in Calls : result[n] \in Outcomes /\ log[n] \in Methods
    BY SeqLen DEF EngineOK, Calls
<1>. QED
    BY <1>1, SeqLen DEF EngineOK, Outcomes

\* A set of answers.
LEMMA PartialFacts ==
    /\ NoAnswers \in Partial /\ DOMAIN NoAnswers = {}
    /\ \A answers \in Partial : /\ DOMAIN answers \subseteq Ranks
                                /\ \A w \in DOMAIN answers : answers[w] \in AnswerSet
    /\ \A answers \in Partial, w \in Ranks, x \in AnswerSet :
          [v \in DOMAIN answers \cup {w} |-> IF v = w THEN x ELSE answers[v]] \in Partial
<1>1. NoAnswers \in [{} -> AnswerSet] /\ DOMAIN NoAnswers = {}
    BY DEF NoAnswers
<1>2. NoAnswers \in Partial
    BY <1>1 DEF Partial
<1>3. \A answers \in Partial : /\ DOMAIN answers \subseteq Ranks
                               /\ \A w \in DOMAIN answers : answers[w] \in AnswerSet
    BY DEF Partial
<1>4. ASSUME NEW answers \in Partial, NEW w \in Ranks, NEW x \in AnswerSet
      PROVE  [v \in DOMAIN answers \cup {w} |-> IF v = w THEN x ELSE answers[v]] \in Partial
  <2>. DEFINE ranks == DOMAIN answers \cup {w}
  <2>1. ranks \in SUBSET Ranks /\ \A v \in ranks : v # w => answers[v] \in AnswerSet
    BY <1>3
  <2>2. [v \in ranks |-> IF v = w THEN x ELSE answers[v]] \in [ranks -> AnswerSet]
    <3>. HIDE DEF ranks
    <3>. QED
      BY <2>1
  <2>. QED
    BY <2>1, <2>2 DEF Partial
<1>. QED
    BY <1>1, <1>2, <1>3, <1>4

-----------------------------------------------------------------------------
(* The answers of a rank.                                                  *)

\* The answers of a worker, and how many.
LEMMA StreamType ==
    ASSUME WorkerOK
    PROVE  \A w \in Ranks : Stream(w) \in Seq(AnswerSet) /\ Len(Stream(w)) \in Nat
    BY SeqConcat, SeqLen DEF WorkerOK, Stream

\* Calls that a rank knows nothing of change nothing for it: the answers that
\* were received and the stream are as before.
LEMMA RankKept ==
    ASSUME EngineOK, NEW w \in Ranks, RankInv(w), Stream(w)' = Stream(w),
           finished'[w] = finished[w], finished[w] \in Nat, finished[w] <= Len(log),
           \A n \in Calls : /\ n \in Calls' /\ log'[n] = log[n]
                            /\ Got(n, w)' <=> Got(n, w)
                            /\ Got(n, w) => From(n, w)' = From(n, w)
                            /\ Done(result[n]) => Done(result'[n]),
           \A n \in Calls' : n \notin Calls => /\ ~Got(n, w)' /\ n > Len(log)
    PROVE  RankInv(w)'
<1>0. /\ StreamInv(w) /\ ReceivedInv(w) /\ OrderInv(w) /\ CoverInv(w)
      /\ \A n \in Calls : \A m \in 1 .. n - 1 : m \in Calls
    BY Numbers DEF RankInv
<1>1. \A n \in Calls : (Got(n, w)' <=> Got(n, w)) /\ (Got(n, w) => From(n, w)' = From(n, w))
    OBVIOUS
<1>2. \A n \in Calls' : Got(n, w)' => n \in Calls
    OBVIOUS
<1>3. \A n \in Calls : Missed(n, w) => Missed(n, w)'
    BY DEF Missed, Got
<1>4. \A a : Fits(w, a) => Fits(w, a)'
    BY DEF Fits
<1>5. StreamInv(w)'
    BY <1>0, <1>4 DEF StreamInv
<1>6. ReceivedInv(w)'
    BY <1>0, <1>1, <1>2, <1>3, <1>4 DEF ReceivedInv
<1>7. OrderInv(w)'
    BY <1>0, <1>1, <1>2 DEF OrderInv
<1>8. CoverInv(w)'
  <2>. SUFFICES ASSUME NEW c \in Calls', c <= finished'[w], w \in Asked(log'[c])
                PROVE  \/ \E i \in 1 .. Len(Stream(w)') : Stream(w)'[i].call = c
                       \/ \E n \in Calls' : Got(n, w)' /\ From(n, w)'.call = c
    BY DEF CoverInv
  <2>1. c \in Calls
    <3>1. c \in Nat /\ Len(log) \in Nat
      BY Numbers, SMT DEF Calls
    <3>. QED
      BY <3>1, SMT DEF Calls
  <2>2. CASE \E i \in 1 .. Len(Stream(w)) : Stream(w)[i].call = c
    BY <2>2
  <2>3. ASSUME NEW n \in Calls, Got(n, w), From(n, w).call = c
        PROVE  n \in Calls' /\ Got(n, w)' /\ From(n, w)'.call = c
    BY <1>1, <2>3
  <2>. QED
    BY <1>0, <2>1, <2>2, <2>3 DEF CoverInv
<1>. QED
    BY <1>5, <1>6, <1>7, <1>8 DEF RankInv

\* A rank that finishes a call adds its answer at the end, if it was asked.
LEMMA RankFinish ==
    ASSUME EngineOK, WorkerOK, NEW w \in Ranks, RankInv(w), UNCHANGED <<log, result>>,
           finished'[w] = finished[w] + 1, finished[w] + 1 \in Calls,
           \/ w \notin Asked(log[finished[w] + 1]) /\ Stream(w)' = Stream(w)
           \/ /\ w \in Asked(log[finished[w] + 1])
              /\ \E a \in AnswerSet : /\ Stream(w)' = Append(Stream(w), a)
                                      /\ a.call = finished[w] + 1 /\ Fits(w, a)'
    PROVE  RankInv(w)'
<1>0. /\ StreamInv(w) /\ ReceivedInv(w) /\ OrderInv(w) /\ CoverInv(w) /\ finished[w] \in Nat
      /\ Stream(w) \in Seq(AnswerSet) /\ Len(Stream(w)) \in Nat
    BY StreamType DEF RankInv, WorkerOK
<1>1. /\ \A n : (Got(n, w)' <=> Got(n, w)) /\ From(n, w)' = From(n, w)
      /\ \A n : Missed(n, w)' <=> Missed(n, w)
      /\ Calls' = Calls
    BY DEF Got, From, Missed, Calls
<1>2. \A a : Fits(w, a) => Fits(w, a)'
  <2>. SUFFICES ASSUME NEW a, Fits(w, a) PROVE a.call <= finished'[w]
    BY <1>1 DEF Fits
  <2>1. a.call \in Nat /\ a.call <= finished[w]
    BY Numbers DEF Fits
  <2>. QED
    BY <1>0, <2>1, SMT
<1>3. OrderInv(w)'
    BY <1>0, <1>1 DEF OrderInv
<1>4. ASSUME NEW n \in Calls, n <= finished'[w], n # finished[w] + 1 PROVE n <= finished[w]
    BY <1>0, <1>4, Numbers, SMT
<1>5. CASE w \notin Asked(log[finished[w] + 1]) /\ Stream(w)' = Stream(w)
  <2>1. StreamInv(w)'
    BY <1>0, <1>2, <1>5 DEF StreamInv
  <2>2. ReceivedInv(w)'
    BY <1>0, <1>1, <1>2, <1>5 DEF ReceivedInv
  <2>3. CoverInv(w)'
    BY <1>0, <1>1, <1>4, <1>5 DEF CoverInv
  <2>. QED
    BY <1>3, <2>1, <2>2, <2>3 DEF RankInv
<1>6. ASSUME NEW a \in AnswerSet, Stream(w)' = Append(Stream(w), a),
             a.call = finished[w] + 1, Fits(w, a)'
      PROVE  RankInv(w)'
  <2>0. PICK s, t, k : s = Stream(w) /\ t = Append(s, a) /\ k = Len(s)
    OBVIOUS
  <2>1. /\ Len(t) = k + 1 /\ t[k + 1] = a /\ k \in Nat
        /\ \A i \in 1 .. k : t[i] = s[i]
        /\ \A i \in 1 .. k + 1 : i = k + 1 \/ i \in 1 .. k
    <3>1. /\ Len(t) = k + 1 /\ t[k + 1] = a /\ k \in Nat
          /\ \A i \in 1 .. k : t[i] = s[i]
      BY <1>0, <2>0, SeqAppend, SMT
    <3>. QED
      BY <3>1, SMT
  <2>2. Stream(w)' = t
    BY <1>6, <2>0
  <2>3. \A i \in 1 .. k : Fits(w, s[i]) /\ s[i].call < a.call
    <3>1. \A i \in 1 .. k : Fits(w, s[i])
      BY <1>0, <2>0 DEF StreamInv
    <3>2. \A b : Fits(w, b) => b.call \in Nat /\ b.call <= finished[w]
      BY Numbers DEF Fits
    <3>3. \A c \in Nat : c <= finished[w] => c < finished[w] + 1
      BY <1>0, SMT
    <3>. QED
      BY <1>6, <3>1, <3>2, <3>3
  <2>4. \A i, j \in 1 .. k : i < j => s[i].call < s[j].call
    BY <1>0, <2>0 DEF StreamInv
  <2>5. StreamInv(w)'
    <3>1. ASSUME NEW i \in 1 .. k + 1 PROVE Fits(w, t[i])'
      <4>1. i \in 1 .. k => t[i] = s[i] /\ Fits(w, s[i])'
        BY <1>2, <2>1, <2>3
      <4>2. i = k + 1 => t[i] = a
        BY <2>1
      <4>3. i \in 1 .. k => Fits(w, t[i])'
        BY <4>1
      <4>. QED
        BY <1>6, <2>1, <4>2, <4>3
    <3>2. ASSUME NEW i \in 1 .. k + 1, NEW j \in 1 .. k + 1, i < j PROVE t[i].call < t[j].call
      <4>1. i \in 1 .. k
        BY <2>1, <3>2, SMT
      <4>. QED
        BY <2>1, <2>3, <2>4, <3>2, <4>1
    <3>. QED
      BY <2>1, <2>2, <3>1, <3>2 DEF StreamInv
  <2>6. ReceivedInv(w)'
    <3>1. ASSUME NEW n \in Calls, Got(n, w), NEW i \in 1 .. k + 1 PROVE From(n, w).call < t[i].call
      <4>1. /\ \A j \in 1 .. k : From(n, w).call < s[j].call
            /\ From(n, w).call \in Nat /\ From(n, w).call <= finished[w]
        BY <1>0, <2>0, <3>1, Numbers DEF ReceivedInv, Fits
      <4>2. From(n, w).call < a.call
        BY <1>0, <1>6, <4>1, SMT
      <4>. QED
        BY <2>1, <4>1, <4>2
    <3>. QED
      BY <1>0, <1>1, <1>2, <2>1, <2>2, <3>1 DEF ReceivedInv
  <2>7. CoverInv(w)'
    <3>. SUFFICES ASSUME NEW c \in Calls, c <= finished'[w], w \in Asked(log[c]),
                         ~ \E n \in Calls : Got(n, w) /\ From(n, w).call = c
                  PROVE  \E i \in 1 .. k + 1 : t[i].call = c
      BY <1>1, <2>1, <2>2 DEF CoverInv
    <3>1. CASE c = finished[w] + 1
      <4>1. k + 1 \in 1 .. k + 1
        BY <2>1, SMT
      <4>. QED
        BY <1>6, <2>1, <3>1, <4>1
    <3>2. CASE c # finished[w] + 1
      <4>1. PICK i \in 1 .. k : s[i].call = c
        BY <1>0, <1>4, <2>0, <3>2 DEF CoverInv
      <4>2. i \in 1 .. k + 1
        BY <2>1, SMT
      <4>. QED
        BY <2>1, <4>1, <4>2
    <3>. QED
      BY <3>1, <3>2
  <2>. QED
    BY <1>3, <2>5, <2>6, <2>7 DEF RankInv
<1>. QED
    BY <1>5, <1>6

\* The oldest future takes the first answer of a stream.  All earlier calls are
\* resolved and no later one has received an answer, so that the answer is not
\* that of a later call; if it is that of an earlier call, then that call has
\* missed it or has itself got the answer of an earlier one.
LEMMA RankTake ==
    ASSUME EngineOK, WorkerOK, NEW w \in Ranks, RankInv(w), NEW n \in Calls,
           w \in Asked(log[n]), ~Got(n, w), Stream(w) # <<>>,
           Stream(w)' = Tail(Stream(w)), log' = log, finished'[w] = finished[w],
           \A m \in Calls : m < n => Done(result[m]),
           \A m \in Calls : m > n => ~Got(m, w),
           \A m \in Calls : m # n => result'[m] = result[m],
           Got(n, w)', From(n, w)' = Stream(w)[1]
    PROVE  RankInv(w)'
<1>0. /\ StreamInv(w) /\ ReceivedInv(w) /\ OrderInv(w) /\ CoverInv(w)
      /\ Stream(w) \in Seq(AnswerSet) /\ Calls' = Calls
    BY StreamType DEF RankInv, Calls
<1>n. /\ \A m \in Calls : m \in Nat
      /\ \A m \in Calls : \A i \in 1 .. m - 1 : i \in Calls
    BY Numbers
<1>1. PICK s, t, a : s = Stream(w) /\ t = Tail(s) /\ a = s[1]
    OBVIOUS
<1>2. /\ Len(s) \in Nat /\ Len(t) = Len(s) - 1 /\ 1 \in 1 .. Len(s)
      /\ \A i \in 1 .. Len(t) : t[i] = s[i + 1] /\ i + 1 \in 1 .. Len(s) /\ 1 < i + 1
      /\ \A i \in 1 .. Len(s) : i = 1 \/ (i - 1 \in 1 .. Len(t) /\ (i - 1) + 1 = i /\ 1 < i)
  <2>1. /\ Len(s) \in Nat \ {0} /\ Len(t) = Len(s) - 1
        /\ \A i \in 1 .. Len(t) : t[i] = s[i + 1]
    BY <1>0, <1>1, SeqTail, SeqLen, SMT
  <2>. QED
    BY <2>1, SMT
<1>3. /\ Stream(w)' = t /\ From(n, w)' = a /\ Fits(w, a) /\ a.call \in Calls
      /\ \A i \in 1 .. Len(s) : Fits(w, s[i])
      /\ \A i, j \in 1 .. Len(s) : i < j => s[i].call < s[j].call
    BY <1>0, <1>1, <1>2 DEF StreamInv, Fits
<1>4. /\ \A x : Fits(w, x) => Fits(w, x)'
      /\ \A m \in Calls : m # n => (Got(m, w)' <=> Got(m, w)) /\ From(m, w)' = From(m, w)
      /\ \A m \in Calls : m # n /\ Missed(m, w) => Missed(m, w)'
    BY <1>0 DEF Fits, Got, From, Missed
<1>5. a.call <= n
  <2>. SUFFICES ASSUME ~(a.call <= n) PROVE FALSE
    OBVIOUS
  <2>1. n < a.call /\ n <= finished[w]
    <3>1. a.call \in Nat /\ n \in Nat /\ a.call <= finished[w] /\ finished[w] \in Nat
      BY <1>3, <1>n DEF Fits, WorkerOK
    <3>. QED
      BY <3>1, SMT
  <2>2. ASSUME NEW i \in 1 .. Len(s), s[i].call = n PROVE FALSE
    <3>1. i = 1 \/ a.call < s[i].call
      BY <1>1, <1>2, <1>3
    <3>2. ~(n < n) /\ ~(n < a.call /\ a.call < n)
      BY <1>n, <1>3, SMT
    <3>. QED
      BY <1>1, <2>1, <2>2, <3>1, <3>2
  <2>3. ASSUME NEW m \in Calls, Got(m, w), From(m, w).call = n PROVE FALSE
    <3>1. n <= m
      BY <1>0, <2>3 DEF ReceivedInv
    <3>2. m = n \/ m > n
      BY <1>n, <3>1, SMT
    <3>. QED
      BY <2>3, <3>2
  <2>. QED
    BY <1>0, <1>1, <2>1, <2>2, <2>3 DEF CoverInv
<1>6. a.call = n \/ \E m \in 1 .. n - 1 : Missed(m, w)'
  <2>. SUFFICES ASSUME a.call # n PROVE \E m \in 1 .. n - 1 : Missed(m, w)'
    OBVIOUS
  <2>1. /\ a.call < n /\ a.call \in 1 .. n - 1
        /\ \A m \in 1 .. a.call - 1 : m \in 1 .. n - 1
        /\ \A m \in 1 .. n - 1 : m # n /\ m \in Calls
    <3>1. a.call \in Nat /\ a.call >= 1 /\ n \in Nat
      BY <1>3, Numbers
    <3>2. \A m \in 1 .. n - 1 : m \in Calls
      BY <1>n
    <3>. QED
      BY <1>5, <3>1, <3>2, SMT
  <2>2. Done(result[a.call]) /\ w \in Asked(log[a.call])
    BY <1>3, <2>1 DEF Fits
  <2>3. CASE ~Got(a.call, w)
    <3>1. Missed(a.call, w)
      BY <2>2, <2>3 DEF Missed, Got
    <3>. QED
      BY <1>4, <2>1, <3>1
  <2>4. CASE Got(a.call, w)
    <3>1. From(a.call, w).call < a.call
      BY <1>0, <1>1, <1>2, <1>3, <2>4 DEF ReceivedInv
    <3>2. From(a.call, w).call # a.call
      BY <1>n, <1>3, <3>1, SMT
    <3>3. PICK m \in 1 .. a.call - 1 : Missed(m, w)
      BY <1>0, <1>3, <2>4, <3>2 DEF ReceivedInv
    <3>. QED
      BY <1>4, <2>1, <3>3
  <2>. QED
    BY <2>3, <2>4
<1>7. StreamInv(w)'
  <2>1. \A i \in 1 .. Len(t) : Fits(w, t[i])'
    BY <1>2, <1>3, <1>4
  <2>2. ASSUME NEW i \in 1 .. Len(t), NEW j \in 1 .. Len(t), i < j PROVE t[i].call < t[j].call
    <3>1. i + 1 \in 1 .. Len(s) /\ j + 1 \in 1 .. Len(s) /\ i + 1 < j + 1
      BY <1>2, <2>2, SMT
    <3>2. s[i + 1].call < s[j + 1].call
      BY <1>3, <3>1
    <3>. QED
      BY <1>2, <3>2
  <2>. QED
    BY <1>3, <2>1, <2>2 DEF StreamInv
<1>8. ReceivedInv(w)'
  <2>. SUFFICES ASSUME NEW m \in Calls, Got(m, w)'
                PROVE  /\ w \in Asked(log[m]) /\ Fits(w, From(m, w))' /\ From(m, w)'.call <= m
                       /\ From(m, w)'.call = m \/ \E i \in 1 .. m - 1 : Missed(i, w)'
                       /\ \A i \in 1 .. Len(t) : From(m, w)'.call < t[i].call
    BY <1>0, <1>3 DEF ReceivedInv
  <2>1. CASE m = n
    <3>1. Fits(w, From(n, w))'
      <4>1. Fits(w, a)'
        BY <1>3, <1>4
      <4>. QED
        BY <1>3, <4>1 DEF Fits
    <3>2. \A i \in 1 .. Len(t) : a.call < t[i].call
      BY <1>1, <1>2, <1>3
    <3>. QED
      BY <1>3, <1>5, <1>6, <2>1, <3>1, <3>2
  <2>2. CASE m # n
    <3>1. /\ Got(m, w) /\ From(m, w)' = From(m, w) /\ m <= n
      <4>1. Got(m, w) /\ From(m, w)' = From(m, w)
        BY <1>4, <2>2
      <4>2. ~(m > n)
        BY <4>1
      <4>. QED
        BY <1>n, <4>1, <4>2, SMT
    <3>2. /\ w \in Asked(log[m]) /\ Fits(w, From(m, w)) /\ From(m, w).call <= m
          /\ From(m, w).call = m \/ \E i \in 1 .. m - 1 : Missed(i, w)
          /\ \A i \in 1 .. Len(s) : From(m, w).call < s[i].call
      BY <1>0, <1>1, <3>1 DEF ReceivedInv
    <3>3. Fits(w, From(m, w))'
      <4>1. PICK x : x = From(m, w)
        OBVIOUS
      <4>2. Fits(w, x)'
        BY <1>4, <3>2, <4>1
      <4>. QED
        BY <3>1, <4>1, <4>2 DEF Fits
    <3>4. \A i \in 1 .. m - 1 : i \in Calls /\ i # n
      <4>1. \A i \in 1 .. m - 1 : i # n
        BY <1>n, <3>1, SMT
      <4>. QED
        BY <1>n, <4>1
    <3>5. \A i \in 1 .. Len(t) : From(m, w).call < t[i].call
      BY <1>2, <3>2
    <3>. QED
      BY <1>4, <3>1, <3>2, <3>3, <3>4, <3>5
  <2>. QED
    BY <2>1, <2>2
<1>9. OrderInv(w)'
  <2>. SUFFICES ASSUME NEW m \in Calls, NEW i \in Calls, m < i, Got(m, w)', Got(i, w)'
                PROVE  From(m, w)'.call < From(i, w)'.call
    BY <1>0 DEF OrderInv
  <2>1. m # n
    <3>. SUFFICES ASSUME m = n PROVE FALSE
      OBVIOUS
    <3>1. i > n /\ i # n
      BY <1>n, SMT
    <3>. QED
      BY <1>4, <3>1
  <2>2. Got(m, w) /\ From(m, w)' = From(m, w)
    BY <1>4, <2>1
  <2>3. CASE i = n
    <3>1. From(m, w).call < a.call
      BY <1>0, <1>1, <1>2, <2>2 DEF ReceivedInv
    <3>. QED
      BY <1>3, <2>2, <2>3, <3>1
  <2>4. CASE i # n
    BY <1>0, <1>4, <2>2, <2>4 DEF OrderInv
  <2>. QED
    BY <2>3, <2>4
<1>10. CoverInv(w)'
  <2>. SUFFICES ASSUME NEW c \in Calls, c <= finished[w], w \in Asked(log[c])
                PROVE  \/ \E i \in 1 .. Len(t) : t[i].call = c
                       \/ \E m \in Calls : Got(m, w)' /\ From(m, w)'.call = c
    BY <1>0, <1>3 DEF CoverInv
  <2>1. ASSUME NEW i \in 1 .. Len(s), s[i].call = c
        PROVE  \/ \E j \in 1 .. Len(t) : t[j].call = c
               \/ \E m \in Calls : Got(m, w)' /\ From(m, w)'.call = c
    <3>1. CASE i = 1
      BY <1>1, <1>3, <2>1, <3>1
    <3>2. CASE i # 1
      <4>1. i - 1 \in 1 .. Len(t) /\ t[i - 1] = s[(i - 1) + 1] /\ (i - 1) + 1 = i
        BY <1>2, <3>2
      <4>2. t[i - 1].call = c
        BY <2>1, <4>1
      <4>. QED
        BY <4>1, <4>2
    <3>. QED
      BY <3>1, <3>2
  <2>2. ASSUME NEW m \in Calls, Got(m, w), From(m, w).call = c
        PROVE  Got(m, w)' /\ From(m, w)'.call = c
    BY <1>4, <2>2
  <2>. QED
    BY <1>0, <1>1, <2>1, <2>2 DEF CoverInv
<1>. QED
    BY <1>7, <1>8, <1>9, <1>10 DEF RankInv

-----------------------------------------------------------------------------
(* What the engine waits for, and types.                                   *)

\* The engine waits for the oldest batch, or for the last call.
LEMMA WaitFacts ==
    ASSUME Inv, engine.pc = "drain"
    PROVE  /\ engine.wait \in Calls /\ Registered = Len(log) /\ Live
           /\ log[engine.wait] \in Model =>
                 /\ batch_queue # <<>> /\ engine.wait = batch_queue[1].fut
                 /\ Len(batch_queue) <= BatchQueueSize
                 /\ engine.deferred => /\ Len(batch_queue) < BatchQueueSize
                                       /\ engine.exec \in Calls
           /\ log[engine.wait] \notin Model =>
                 /\ engine.wait = Len(log) /\ Room
                 /\ log[engine.wait] \in Utility => ~engine.deferred
                 /\ log[engine.wait] = "take_draft_token_ids" =>
                       engine.deferred /\ engine.exec \in Calls
<1>. Live /\ EngineOK /\ StepInv /\ BatchInv
    BY DEF Live, Inv, LiveInv
<1>1. Registered = Len(log) /\ Len(log) \in Nat
    BY Numbers DEF Registered
<1>2. /\ \A x \in Utility \cup {"take_draft_token_ids"} : x \notin Model
      /\ \A x \in Utility : x # "take_draft_token_ids"
      /\ \A x \in Batches : x \in Model
    BY DEF Utility, Model, Batches
<1>3. batch_queue # <<>> => /\ log[batch_queue[1].fut] \in Batches
                            /\ batch_queue[1].fut \in Calls
    BY <1>1, SeqLen, SMT DEF BatchInv, EngineOK, Calls
<1>4. CASE /\ batch_queue # <<>> /\ Len(batch_queue) <= BatchQueueSize
           /\ engine.deferred => /\ Len(batch_queue) < BatchQueueSize
                                 /\ engine.exec \in 1 .. Registered
           /\ engine.wait = batch_queue[1].fut
    BY <1>1, <1>2, <1>3, <1>4 DEF Calls
<1>5. CASE /\ Len(log) > 0 /\ engine.wait = Len(log) /\ Room
           /\ \/ log[Len(log)] \in Utility /\ ~engine.deferred
              \/ /\ log[Len(log)] = "take_draft_token_ids" /\ engine.deferred
                 /\ engine.exec \in 1 .. Registered
  <2>1. log[engine.wait] \notin Model
    BY <1>2, <1>5
  <2>2. engine.wait \in Calls
    BY <1>1, <1>5, SMT DEF Calls
  <2>. QED
    BY <1>1, <1>2, <1>5, <2>1, <2>2 DEF Calls
<1>. QED
    BY <1>4, <1>5 DEF StepInv

\* The future being resolved is that of the first call without a result.
LEMMA HeadFuture ==
    ASSUME Inv, Draining
    PROVE  /\ futures # <<>> /\ Head(futures) = futures[1] /\ Head(futures) \in Futures
           /\ Current = First /\ First \in Calls /\ ~Done(result[First])
           /\ Live /\ Registered = Len(log) /\ First <= engine.wait /\ engine.wait \in Calls
           /\ \/ Head(futures).mqs = Asked(log[First])
              \/ Head(futures).mqs = {} /\ cleared /\ \A w \in Ranks : ~Got(First, w)
           /\ Answers \in Partial
<1>0. engine.wait \in Calls /\ Registered = Len(log) /\ Live /\ ~Done(result[engine.wait])
    BY WaitFacts DEF Draining
<1>1. EngineOK /\ FutureInv
    BY <1>0 DEF Inv, LiveInv
<1>2. ~(engine.wait < First)
    BY <1>0, <1>1 DEF FutureInv
<1>3. /\ Len(log) \in Nat /\ Len(futures) \in Nat /\ engine.wait \in Nat /\ engine.wait <= Len(log)
      /\ Len(futures) <= Len(log) /\ First = Len(log) - Len(futures) + 1
    BY <1>0, <1>1, Numbers DEF FutureInv, First
<1>4. /\ Len(futures) # 0 /\ 1 \in 1 .. Len(futures) /\ First + 1 - 1 = First
      /\ First \in Calls /\ First <= engine.wait /\ ~(First < First)
    BY <1>2, <1>3, SMT DEF Calls
<1>5. /\ futures # <<>> /\ Head(futures) = futures[1] /\ Head(futures) \in Futures
    BY <1>1, <1>4, SeqLen, SeqTail DEF EngineOK
<1>6. /\ futures[1].call = First
      /\ \/ futures[1].mqs = Asked(log[First])
         \/ futures[1].mqs = {} /\ cleared /\ \A w \in Ranks : ~Got(First, w)
  <2>1. futures[1].call = First
    BY <1>1, <1>4 DEF FutureInv
  <2>2. \/ futures[1].mqs = Asked(log[futures[1].call])
        \/ futures[1].mqs = {} /\ cleared /\ \A w \in Ranks : ~Got(futures[1].call, w)
    BY <1>1, <1>4 DEF FutureInv
  <2>. QED
    BY <2>1, <2>2
<1>7. ~Done(result[First])
    BY <1>1, <1>4 DEF FutureInv
<1>8. Answers \in Partial
    BY <1>1, <1>4, <1>5, <1>6, Elements DEF Answers, Current
<1>. QED
    BY <1>0, <1>4, <1>5, <1>6, <1>7, <1>8 DEF Current

\* What the oldest future has after one more answer.
Added(w) == [v \in DOMAIN Answers \cup {w} |-> IF v = w THEN Head(responses[w]) ELSE Answers[v]]

\* The two cases of an answer that is received: no queue to read, or the first
\* answer of the queue of a rank that was asked and has not answered.
LEMMA DequeueFacts ==
    ASSUME Inv, Dequeue
    PROVE  /\ Draining /\ UNCHANGED <<log, batch_queue, engine, applied>>
           /\ UNCHANGED <<alive, taken, finished, raised, ready, output_queue>> /\ UNCHANGED mvars
           /\ \/ /\ cleared /\ responses' = responses /\ \A w \in Ranks : ~Got(First, w)
                 /\ Settle(Outcome("value", NoAnswers))
              \/ \E w \in Ranks :
                    /\ w \in Asked(log[First]) /\ ~Got(First, w) /\ responses[w] # <<>>
                    /\ responses' = [responses EXCEPT ![w] = Tail(@)]
                    /\ Head(responses[w]) \in AnswerSet
                    /\ Head(futures).mqs = Asked(log[First])
                    /\ Added(w) \in Partial
                    /\ \E state \in {"failure", "value", "pending"} :
                          /\ Settle(Outcome(state, Added(w)))
                          /\ state = "value" => DOMAIN Added(w) = Asked(log[First])
<1>0. /\ Draining /\ UNCHANGED <<log, batch_queue, engine, applied>>
      /\ UNCHANGED <<alive, taken, finished, raised, ready, output_queue>> /\ UNCHANGED mvars
    BY DEF Dequeue
<1>1. /\ Current = First /\ Answers \in Partial
      /\ \/ Head(futures).mqs = Asked(log[First])
         \/ Head(futures).mqs = {} /\ cleared /\ \A w \in Ranks : ~Got(First, w)
    BY <1>0, HeadFuture
<1>2. CASE /\ Head(futures).mqs = {} /\ Settle(Outcome("value", NoAnswers))
           /\ responses' = responses
    BY <1>0, <1>1, <1>2, Sizes
<1>3. ASSUME NEW w \in Ranks, Awaited(w), responses[w] # <<>>,
             responses' = [responses EXCEPT ![w] = Tail(@)], Receive(w, Head(responses[w]))
      PROVE  /\ w \in Asked(log[First]) /\ ~Got(First, w)
             /\ Head(futures).mqs = Asked(log[First])
             /\ Head(responses[w]) \in AnswerSet /\ Added(w) \in Partial
             /\ \E state \in {"failure", "value", "pending"} :
                   /\ Settle(Outcome(state, Added(w)))
                   /\ state = "value" => DOMAIN Added(w) = Asked(log[First])
  <2>1. w \in Head(futures).mqs /\ w \notin DOMAIN Answers
    BY <1>3 DEF Awaited
  <2>2. Head(futures).mqs = Asked(log[First]) /\ ~Got(First, w)
    BY <1>1, <2>1 DEF Answers, Got
  <2>3. Head(responses[w]) \in AnswerSet
    BY <1>3, SeqTypes DEF Inv, WorkerOK
  <2>4. Added(w) \in Partial
    BY <1>1, <2>3, PartialFacts DEF Added
  <2>5. \E answers \in {Added(w)} :
            Settle(Outcome(IF Head(responses[w]).value = "failure" THEN "failure"
                           ELSE IF DOMAIN answers = Head(futures).mqs THEN "value"
                           ELSE "pending", answers))
    BY <1>3 DEF Receive, Added
  <2>6. \E state \in {"failure", "value", "pending"} :
            /\ Settle(Outcome(state, Added(w)))
            /\ state = "value" => DOMAIN Added(w) = Head(futures).mqs
    <3>. DEFINE added == Added(w)
    <3>1. \E answers \in {added} :
            Settle(Outcome(IF Head(responses[w]).value = "failure" THEN "failure"
                           ELSE IF DOMAIN answers = Head(futures).mqs THEN "value"
                           ELSE "pending", answers))
      BY <2>5
    <3>. HIDE DEF added
    <3>2. CASE Head(responses[w]).value = "failure"
      <4>1. Settle(Outcome("failure", added))
        BY <3>1, <3>2
      <4>. QED
        BY <4>1 DEF added
    <3>3. CASE Head(responses[w]).value # "failure" /\ DOMAIN added = Head(futures).mqs
      <4>1. Settle(Outcome("value", added))
        BY <3>1, <3>3
      <4>. QED
        BY <3>3, <4>1 DEF added
    <3>4. CASE Head(responses[w]).value # "failure" /\ DOMAIN added # Head(futures).mqs
      <4>1. Settle(Outcome("pending", added))
        BY <3>1, <3>4
      <4>. QED
        BY <4>1 DEF added
    <3>. QED
      BY <3>2, <3>3, <3>4
  <2>. QED
    BY <2>1, <2>2, <2>3, <2>4, <2>6
<1>. QED
    BY <1>0, <1>2, <1>3 DEF Dequeue

\* A wait that raises keeps the answers that were received.
LEMMA RaisesFacts ==
    ASSUME Inv, DequeueRaises
    PROVE  /\ Draining /\ UNCHANGED <<log, batch_queue, engine, applied>> /\ UNCHANGED <<wvars, mvars>>
           /\ \E state \in {"cancelled", "timeout"} : Settle(Outcome(state, Answers))
    BY DEF DequeueRaises

\* Only the oldest future changes, and it leaves the queue once it is resolved.
LEMMA SettleFacts ==
    ASSUME Inv, Draining, NEW state \in States, NEW answers \in Partial,
           Settle(Outcome(state, answers))
    PROVE  /\ result' \in Seq(Outcomes) /\ Len(result') = Len(result)
           /\ result'[First].state = state /\ result'[First].answers = answers
           /\ \A n \in Calls : n # First => result'[n] = result[n]
           /\ futures' \in Seq(Futures)
           /\ state = "pending" => futures' = futures
           /\ state # "pending" => futures' = Tail(futures) /\ Len(futures') = Len(futures) - 1
<1>0. /\ Current = First /\ First \in Calls /\ futures # <<>> /\ EngineOK
    BY HeadFuture DEF Inv
<1>1. /\ result' = [result EXCEPT ![First] = Outcome(state, answers)]
      /\ futures' = IF Done(Outcome(state, answers)) THEN Tail(futures) ELSE futures
    BY <1>0 DEF Settle
<1>2. Outcome(state, answers) \in Outcomes /\ (Done(Outcome(state, answers)) <=> state # "pending")
    BY DEF Outcome, Outcomes, Done
<1>3. First \in 1 .. Len(result) /\ Calls = 1 .. Len(result) /\ result \in Seq(Outcomes)
    BY <1>0 DEF EngineOK, Calls
<1>4. /\ result' \in Seq(Outcomes) /\ Len(result') = Len(result)
      /\ result'[First] = Outcome(state, answers)
      /\ \A n \in Calls : n # First => result'[n] = result[n]
  <2>1. PICK x : x = Outcome(state, answers) /\ x \in Outcomes
    BY <1>2
  <2>2. result' = [result EXCEPT ![First] = x]
    BY <1>1, <2>1
  <2>3. /\ [result EXCEPT ![First] = x] \in Seq(Outcomes)
        /\ Len([result EXCEPT ![First] = x]) = Len(result)
        /\ [result EXCEPT ![First] = x][First] = x
        /\ \A j \in 1 .. Len(result) : j # First => [result EXCEPT ![First] = x][j] = result[j]
    BY ONLY <1>3, <2>1, SMT
  <2>. QED
    BY <1>3, <2>1, <2>2, <2>3
<1>5. Tail(futures) \in Seq(Futures) /\ Len(Tail(futures)) = Len(futures) - 1 /\ futures \in Seq(Futures)
    BY <1>0, SeqTail DEF EngineOK
<1>. QED
  <2>1. Outcome(state, answers).state = state /\ Outcome(state, answers).answers = answers
    BY DEF Outcome
  <2>2. /\ state = "pending" => futures' = futures
        /\ state # "pending" => futures' = Tail(futures)
    BY <1>1, <1>2
  <2>3. CASE state = "pending"
    BY <1>4, <1>5, <2>1, <2>2, <2>3
  <2>4. CASE state # "pending"
    BY <1>4, <1>5, <2>1, <2>2, <2>4
  <2>. QED
    BY <2>3, <2>4

\* The variables of the engine thread keep their types.
LEMMA EngineType == Inv /\ [Next]_vars => EngineOK'
<1>. SUFFICES ASSUME Inv, [Next]_vars PROVE EngineOK'
    OBVIOUS
<1>. USE DEF EngineOK
<1>0. EngineOK /\ engine \in Engine /\ Len(log) \in Nat
    BY SeqLen DEF Inv
<1>a. Idle \in Engine /\ Dead \in Engine
    BY DEF Engine, Idle, Dead, Pcs, Methods, Utility
<1>b. \A method \in Methods : Call(method) \in Engine
    BY <1>0 DEF Call, Engine, Pcs
<1>m. /\ Utility \subseteq Methods /\ Model \subseteq Methods
      /\ {"execute_empty", "execute_model", "sample_tokens", "take_draft_token_ids"} \subseteq Methods
    BY DEF Methods, Model
<1>c. ASSUME UNCHANGED <<log, result, futures, batch_queue>>, engine' \in Engine
      PROVE  EngineOK'
    BY <1>0, <1>c
<1>d. ASSUME UNCHANGED evars PROVE EngineOK'
    BY <1>0, <1>d DEF evars
<1>e. ASSUME Raise PROVE engine' \in Engine
    BY <1>a, <1>e DEF Raise
<1>1. CASE ExecutorFailed
    BY <1>1, <1>a, <1>c DEF ExecutorFailed
<1>2. CASE UtilityCall
    BY <1>2, <1>m, <1>b, <1>c DEF UtilityCall
<1>3. CASE Step
  <2>1. PICK empty, deferred \in BOOLEAN :
           engine' = [Call(IF empty THEN "execute_empty" ELSE "execute_model")
                         EXCEPT !.deferred = deferred]
    BY <1>3 DEF Step
  <2>2. Call(IF empty THEN "execute_empty" ELSE "execute_model") \in Engine
    BY <1>b, <1>m
  <2>3. engine' \in Engine
    BY <2>1, <2>2 DEF Engine
  <2>. QED
    BY <1>3, <2>3, <1>c DEF Step
<1>4. CASE StepDrain
  <2>1. engine' \in Engine
    BY <1>0, <1>4 DEF StepDrain, Engine, Pcs
  <2>. QED
    BY <1>4, <2>1, <1>c DEF StepDrain
<1>5. CASE CheckFailed
  <2>1. engine' \in Engine
    BY <1>0, <1>5, <1>e DEF CheckFailed, Engine, Pcs
  <2>. QED
    BY <1>5, <2>1, <1>c DEF CheckFailed, Raise
<1>6. CASE Enqueue
  <2>1. engine' \in Engine
    BY <1>0, <1>6, <1>e DEF Enqueue, Engine, Pcs
  <2>. QED
    BY <1>6, <2>1, <1>c DEF Enqueue, Raise
<1>7. CASE AcquireWrite
  <2>1. engine.method \in Methods /\ engine' \in Engine
    BY <1>0, <1>7 DEF AcquireWrite, Engine, Pcs
  <2>2. Outcome("pending", NoAnswers) \in Outcomes
    BY PartialFacts DEF Outcome, Outcomes, States
  <2>3. log' \in Seq(Methods) /\ Len(log') = Len(log) + 1
    BY <1>0, <1>7, <2>1, SeqTypes DEF AcquireWrite
  <2>4. result' \in Seq(Outcomes) /\ Len(result') = Len(result) + 1
    BY <1>0, <1>7, <2>2, SeqTypes DEF AcquireWrite
  <2>. QED
    BY <1>0, <1>7, <2>1, <2>3, <2>4 DEF AcquireWrite
<1>8. CASE Lookup
  <2>0. log' = log /\ engine.pc = "lookup"
    BY <1>8 DEF Lookup
  <2>. DEFINE future == [call |-> Len(log), mqs |-> IF cleared THEN {} ELSE Asked(engine.method)]
  <2>1. CASE Raise
    BY <2>0, <2>1, <1>c, <1>e DEF Raise
  <2>2. ASSUME futures' = Append(futures, future), result' = result,
               engine' \in Engine, batch_queue' \in Seq(InFlight)
        PROVE  EngineOK'
    <3>1. future \in Futures
      BY <1>0, Sizes DEF Futures
    <3>2. futures' \in Seq(Futures)
      BY <1>0, <2>2, <3>1, SeqTypes
    <3>. QED
      BY <1>0, <2>0, <2>2, <3>2
  <2>3. ASSUME engine' = IF engine.deferred THEN [engine EXCEPT !.pc = "pop", !.exec = Len(log)]
                         ELSE [Call("sample_tokens") EXCEPT !.exec = Len(log)]
        PROVE  engine' \in Engine
    <3>1. CASE engine.deferred
      BY <1>0, <2>3, <3>1 DEF Engine, Pcs
    <3>2. CASE ~engine.deferred
      <4>1. Call("sample_tokens") \in Engine
        BY <1>b, <1>m
      <4>. QED
        BY <1>0, <2>3, <3>2, <4>1 DEF Engine
    <3>. QED
      BY <3>1, <3>2
  <2>4. ASSUME NEW batch \in InFlight, AddBatch(batch)
        PROVE  engine' \in Engine /\ batch_queue' \in Seq(InFlight)
    <3>1. [Idle EXCEPT !.pc = "pop"] \in Engine
      BY <1>a DEF Engine, Pcs
    <3>2. engine' \in {Idle, [Idle EXCEPT !.pc = "pop"]}
      BY <2>4 DEF AddBatch
    <3>3. batch_queue' = Append(batch_queue, batch)
      BY <2>4 DEF AddBatch
    <3>. QED
      BY <1>0, <1>a, <3>1, <3>2, <3>3, SeqTypes
  <2>5. ASSUME engine' = [engine EXCEPT !.pc = "drain", !.wait = Len(log)]
        PROVE  engine' \in Engine
    BY <1>0, <2>5 DEF Engine, Pcs
  <2>6. /\ [fut |-> Len(log), exec |-> Len(log)] \in InFlight
        /\ [fut |-> Len(log), exec |-> engine.exec] \in InFlight
    BY <1>0 DEF InFlight, Engine
  <2>7. \/ Raise
        \/ /\ futures' = Append(futures, future)
           /\ result' = result
           /\ \/ /\ engine' = IF engine.deferred
                              THEN [engine EXCEPT !.pc = "pop", !.exec = Len(log)]
                              ELSE [Call("sample_tokens") EXCEPT !.exec = Len(log)]
                 /\ batch_queue' = batch_queue
              \/ AddBatch([fut |-> Len(log), exec |-> Len(log)])
              \/ AddBatch([fut |-> Len(log), exec |-> engine.exec])
              \/ /\ engine' = [engine EXCEPT !.pc = "drain", !.wait = Len(log)]
                 /\ batch_queue' = batch_queue
    BY <1>8 DEF Lookup
  <2>. HIDE DEF future
  <2>. QED
    BY <1>0, <2>1, <2>2, <2>3, <2>4, <2>5, <2>6, <2>7
<1>9. CASE PopBatch
  <2>1. batch_queue # <<>>
    BY <1>9 DEF PopBatch, Inv, LiveInv, Live, StepInv
  <2>2. batch_queue[1] \in InFlight
    BY <1>0, <2>1, SeqLen, SMT
  <2>3. engine' \in Engine
    BY <1>0, <1>9, <1>m, <2>2 DEF PopBatch, Engine, InFlight, Pcs
  <2>. QED
    BY <1>9, <2>3, <1>c DEF PopBatch
<1>10. ASSUME Draining, UNCHANGED <<log, batch_queue, engine>>,
              NEW state \in States, NEW answers \in Partial, Settle(Outcome(state, answers))
       PROVE  EngineOK'
    BY <1>0, <1>10, SettleFacts
<1>11. CASE Dequeue
    BY <1>10, <1>11, DequeueFacts, PartialFacts DEF States
<1>12. CASE DequeueRaises
    BY <1>10, <1>12, RaisesFacts, HeadFuture DEF States
<1>13. CASE UtilityReturns
    BY <1>13, <1>a, <1>c DEF UtilityReturns
<1>14. CASE DraftsReturn
    BY <1>14, <1>a, <1>b, <1>c, <1>m DEF DraftsReturn
<1>15. CASE BatchReturns
  <2>0. UNCHANGED <<log, result, futures>>
    BY <1>15 DEF BatchReturns
  <2>1. batch_queue # <<>>
    BY <1>15, WaitFacts DEF BatchReturns, Answered
  <2>2. Tail(batch_queue) \in Seq(InFlight)
    BY <1>0, <2>1, SeqTypes
  <2>4. batch_queue' \in {batch_queue, Tail(batch_queue)}
    BY <1>15 DEF BatchReturns
  <2>5. engine' \in {Dead, Idle, Call("take_draft_token_ids"), Call("sample_tokens")}
    BY <1>15 DEF BatchReturns
  <2>6. engine' \in Engine
    BY <2>5, <1>a, <1>b, <1>m
  <2>. QED
    BY <1>0, <2>0, <2>2, <2>4, <2>6
<1>16. CASE EngineShutdown
    BY <1>16, <1>d DEF EngineShutdown
<1>17. ASSUME NEW w \in Ranks, WorkerStep(w) \/ Crash(w) \/ WorkerStops(w) PROVE EngineOK'
    BY <1>17, <1>d DEF WorkerStep, TakeCall, FinishCall, EnqueueOutput, Crash, WorkerStops
<1>18. CASE MonitorStep
    BY <1>18, <1>d DEF MonitorStep, MonitorSees, MonitorShutdown, MonitorTerminates,
                       MonitorClears, MonitorCallback
<1>19. CASE UNCHANGED vars
    BY <1>19, <1>d DEF vars, evars
<1>. QED
    BY <1>1, <1>2, <1>3, <1>4, <1>5, <1>6, <1>7, <1>8, <1>9, <1>11, <1>12, <1>13,
       <1>14, <1>15, <1>16, <1>17, <1>18, <1>19 DEF Next, EngineStep

\* The steps of the engine thread, but for the one that takes an answer from
\* a queue and the shutdown that follows a failure.
EngineOnly ==
    \/ ExecutorFailed \/ UtilityCall \/ Step \/ StepDrain \/ CheckFailed \/ Enqueue
    \/ AcquireWrite \/ Lookup \/ PopBatch \/ DequeueRaises \/ UtilityReturns
    \/ DraftsReturn \/ BatchReturns

WorkerMove == \E w \in Ranks : WorkerStep(w) \/ Crash(w) \/ WorkerStops(w)

\* The kinds of step, and what they leave alone.
LEMMA StepKinds ==
    ASSUME [Next]_vars
    PROVE  \/ EngineOnly /\ UNCHANGED <<wvars, mvars>> /\ Live
           \/ Dequeue /\ Live
           \/ EngineShutdown
           \/ WorkerMove /\ UNCHANGED <<evars, mvars>>
           \/ MonitorStep /\ UNCHANGED <<evars, wvars>>
           \/ UNCHANGED <<evars, wvars, mvars>>
<1>1. ASSUME EngineOnly PROVE UNCHANGED <<wvars, mvars>> /\ Live
    BY <1>1 DEF EngineOnly, ExecutorFailed, UtilityCall, Step, StepDrain, CheckFailed, Enqueue,
                AcquireWrite, Lookup, PopBatch, DequeueRaises, UtilityReturns, DraftsReturn,
                BatchReturns, Live, Draining, Answered, AtLoop
<1>2. ASSUME Dequeue PROVE Live
    BY <1>2 DEF Dequeue, Draining, Live
<1>3. ASSUME WorkerMove PROVE UNCHANGED <<evars, mvars>>
    BY <1>3 DEF WorkerMove, WorkerStep, TakeCall, FinishCall, EnqueueOutput, Crash, WorkerStops
<1>4. ASSUME MonitorStep PROVE UNCHANGED <<evars, wvars>>
    BY <1>4 DEF MonitorStep, MonitorSees, MonitorShutdown, MonitorTerminates,
                MonitorClears, MonitorCallback
<1>5. ASSUME UNCHANGED vars PROVE UNCHANGED <<evars, wvars, mvars>>
    BY <1>5 DEF vars, evars, wvars, mvars
<1>6. EngineOnly \/ Dequeue \/ EngineShutdown \/ WorkerMove \/ MonitorStep \/ UNCHANGED vars
    BY DEF Next, EngineStep, EngineOnly, WorkerMove
<1>. QED
    BY <1>1, <1>2, <1>3, <1>4, <1>5, <1>6

\* Calls are only added to the log, and one at a time.
LEMMA LogGrows ==
    ASSUME EngineOK, [Next]_vars
    PROVE  Len(log) \in Nat /\ Len(log') \in Nat /\ Len(log') >= Len(log)
<1>1. UNCHANGED evars => log' = log
    BY DEF evars
<1>2. EngineShutdown \/ Dequeue => log' = log
    BY DEF EngineShutdown, evars, Dequeue
<1>3. EngineOnly => log' = log \/ log' = Append(log, engine.method)
    BY DEF EngineOnly, ExecutorFailed, UtilityCall, Step, StepDrain, CheckFailed, Enqueue,
           AcquireWrite, Lookup, PopBatch, DequeueRaises, UtilityReturns, DraftsReturn, BatchReturns
<1>5. log' = log \/ log' = Append(log, engine.method)
  <2>1. EngineOnly \/ Dequeue \/ EngineShutdown \/ UNCHANGED evars
    BY StepKinds
  <2>. QED
    BY <2>1, <1>1, <1>2, <1>3
<1>6. log \in Seq(Methods) /\ engine.method \in Methods
    BY DEF EngineOK, Engine
<1>7. /\ Len(log) \in Nat /\ Len(Append(log, engine.method)) = Len(log) + 1
    BY <1>6, SeqLen, SeqAppend
<1>. QED
    BY <1>5, <1>7, SMT

\* The flags keep their types, and the executor is failed before its queues
\* are cleared.
LEMMA FlagsType == Inv /\ [Next]_vars => FlagsOK'
<1>. SUFFICES ASSUME Inv, [Next]_vars PROVE FlagsOK'
    OBVIOUS
<1>0. FlagsOK
    BY DEF Inv
<1>1. ASSUME UNCHANGED mvars PROVE FlagsOK'
    BY <1>0, <1>1 DEF FlagsOK, mvars
<1>2. CASE Dequeue
    BY <1>1, <1>2 DEF Dequeue
<1>3. CASE EngineShutdown
    BY <1>0, <1>3 DEF EngineShutdown, FlagsOK
<1>4. CASE MonitorSees
    BY <1>0, <1>4 DEF FlagsOK, MonitorSees
<1>5. CASE MonitorShutdown
    BY <1>0, <1>5 DEF FlagsOK, MonitorShutdown
<1>6. CASE MonitorTerminates
    BY <1>0, <1>6 DEF FlagsOK, MonitorTerminates
<1>7. CASE MonitorClears
    BY <1>0, <1>7 DEF FlagsOK, MonitorClears
<1>8. CASE MonitorCallback
    BY <1>0, <1>8 DEF FlagsOK, MonitorCallback
<1>. QED
    BY <1>1, <1>2, <1>3, <1>4, <1>5, <1>6, <1>7, <1>8, StepKinds DEF MonitorStep

\* The workers' variables keep their types.
LEMMA WorkerType == Inv /\ [Next]_vars => WorkerOK'
<1>. SUFFICES ASSUME Inv, [Next]_vars PROVE WorkerOK'
    OBVIOUS
<1>0. EngineOK /\ WorkerOK
    BY DEF Inv
<1>g. Len(log) \in Nat /\ Len(log') \in Nat /\ Len(log') >= Len(log)
    BY <1>0, LogGrows
<1>a. ASSUME UNCHANGED wvars PROVE WorkerOK'
    BY <1>0, <1>a, <1>g, SMT DEF WorkerOK, wvars
<1>1. CASE Dequeue
  <2>1. UNCHANGED <<log, alive, taken, finished, output_queue>>
    BY <1>1, DequeueFacts
  <2>2. responses' \in [Ranks -> Seq(AnswerSet)]
    <3>1. ASSUME NEW w \in Ranks, responses[w] # <<>>,
                 responses' = [responses EXCEPT ![w] = Tail(@)]
          PROVE  responses' \in [Ranks -> Seq(AnswerSet)]
      <4>1. Tail(responses[w]) \in Seq(AnswerSet)
        BY <1>0, <3>1, SeqTypes DEF WorkerOK
      <4>. QED
        BY <1>0, <3>1, <4>1 DEF WorkerOK
    <3>. QED
      BY <1>0, <1>1, <3>1, DequeueFacts DEF WorkerOK
  <2>. QED
    BY <1>0, <2>1, <2>2 DEF WorkerOK
<1>2. CASE EngineShutdown
    BY <1>2, <1>a DEF EngineShutdown
<1>3. ASSUME NEW w \in Ranks, TakeCall(w) PROVE WorkerOK'
  <2>1. taken' = [taken EXCEPT ![w] = @ + 1] /\ taken[w] = finished[w] /\ taken[w] < Len(log)
    BY <1>3 DEF TakeCall
  <2>2. taken' \in [Ranks -> Nat] /\ UNCHANGED <<log, alive, finished, output_queue, responses>>
    BY <1>0, <1>3, <2>1, SMT DEF WorkerOK, TakeCall, evars
  <2>. QED
    BY <1>0, <1>g, <2>1, <2>2, SMT DEF WorkerOK
<1>4. ASSUME NEW w \in Ranks, FinishCall(w) PROVE WorkerOK'
  <2>1. UNCHANGED <<log, alive, taken, responses>> /\ finished[w] < taken[w]
    BY <1>4 DEF FinishCall, evars
  <2>2. PICK failed \in MayFail(w, taken[w]) :
          /\ finished' = [finished EXCEPT ![w] = taken[w]]
          /\ output_queue' =
                IF w \in Asked(log[taken[w]])
                THEN [output_queue EXCEPT ![w] = Append(@, Answer(w, taken[w], failed))]
                ELSE output_queue
    BY <1>4 DEF FinishCall
  <2>3. Answer(w, taken[w], failed) \in AnswerSet
    BY <1>0 DEF Answer, AnswerSet, WorkerOK, Kinds, Kind
  <2>4. Append(output_queue[w], Answer(w, taken[w], failed)) \in Seq(AnswerSet)
    BY <1>0, <2>3, SeqTypes DEF WorkerOK
  <2>5. output_queue' \in [Ranks -> Seq(AnswerSet)]
    <3>1. output_queue' = output_queue \/
          output_queue' = [output_queue EXCEPT ![w] = Append(@, Answer(w, taken[w], failed))]
      BY <2>2
    <3>. QED
      BY <1>0, <2>4, <3>1 DEF WorkerOK
  <2>6. finished' \in [Ranks -> Nat]
    BY <1>0, <2>2 DEF WorkerOK
  <2>7. \A v \in Ranks : /\ finished'[v] <= taken'[v] /\ taken'[v] <= finished'[v] + 1
                         /\ taken'[v] <= Len(log')
    BY <1>0, <2>1, <2>2, SMT DEF WorkerOK
  <2>. QED
    BY <1>0, <2>1, <2>5, <2>6, <2>7 DEF WorkerOK
<1>5. ASSUME NEW w \in Ranks, EnqueueOutput(w) PROVE WorkerOK'
  <2>1. /\ responses' = [responses EXCEPT ![w] = Append(@, Head(output_queue[w]))]
        /\ output_queue' = [output_queue EXCEPT ![w] = Tail(@)]
        /\ UNCHANGED <<log, alive, taken, finished>>
    BY <1>5 DEF EnqueueOutput, evars
  <2>2. /\ Head(output_queue[w]) \in AnswerSet /\ Tail(output_queue[w]) \in Seq(AnswerSet)
        /\ responses[w] \in Seq(AnswerSet)
    BY <1>0, <1>5, SeqTypes DEF EnqueueOutput, WorkerOK
  <2>3. Append(responses[w], Head(output_queue[w])) \in Seq(AnswerSet)
    BY <2>2, SeqTypes
  <2>4. responses' \in [Ranks -> Seq(AnswerSet)]
    BY <1>0, <2>1, <2>3 DEF WorkerOK
  <2>5. output_queue' \in [Ranks -> Seq(AnswerSet)]
    BY <1>0, <2>1, <2>2 DEF WorkerOK
  <2>. QED
    BY <1>0, <2>1, <2>4, <2>5 DEF WorkerOK
<1>6. ASSUME NEW w \in Ranks, Crash(w) \/ WorkerStops(w) PROVE WorkerOK'
    BY <1>0, <1>6 DEF WorkerOK, Crash, WorkerStops, Dies, evars
<1>7. CASE WorkerMove
    BY <1>7, <1>3, <1>4, <1>5, <1>6 DEF WorkerMove, WorkerStep
<1>. QED
    BY <1>a, <1>1, <1>2, <1>7, StepKinds

-----------------------------------------------------------------------------
(* The answers of the ranks, step by step.                                 *)

\* Steps that make and resolve no call, and receive no answer.
LEMMA RanksKept ==
    ASSUME Inv, UNCHANGED <<log, result, finished>>, NEW w \in Ranks, Stream(w)' = Stream(w)
    PROVE  RankInv(w)'
<1>1. EngineOK /\ RankInv(w) /\ finished[w] \in Nat /\ finished[w] <= Len(log)
  <2>1. EngineOK /\ WorkerOK /\ RankInv(w)
    BY DEF Inv
  <2>2. /\ finished[w] \in Nat /\ taken[w] \in Nat /\ finished[w] <= taken[w]
        /\ taken[w] <= Len(log) /\ Len(log) \in Nat
    BY <2>1, Numbers DEF WorkerOK
  <2>. QED
    BY <2>1, <2>2, SMT
<1>2. Calls' = Calls /\ \A n : (Got(n, w)' <=> Got(n, w)) /\ From(n, w)' = From(n, w)
    BY DEF Calls, Got, From
<1>. QED
    BY <1>1, <1>2, RankKept

\* Handing an answer from the output thread to the queue changes no stream.
LEMMA StreamMove ==
    ASSUME WorkerOK, NEW w \in Ranks, EnqueueOutput(w)
    PROVE  \A v \in Ranks : Stream(v)' = Stream(v)
<1>1. /\ responses' = [responses EXCEPT ![w] = Append(@, Head(output_queue[w]))]
      /\ output_queue' = [output_queue EXCEPT ![w] = Tail(@)]
      /\ output_queue[w] # <<>>
    BY DEF EnqueueOutput
<1>2. \A v \in Ranks \ {w} : responses'[v] = responses[v] /\ output_queue'[v] = output_queue[v]
    BY <1>1 DEF WorkerOK
<1>3. responses'[w] = Append(responses[w], Head(output_queue[w]))
    BY <1>1 DEF WorkerOK
<1>4. output_queue'[w] = Tail(output_queue[w])
    BY <1>1 DEF WorkerOK
<1>5. output_queue[w] \in Seq(AnswerSet) /\ responses[w] \in Seq(AnswerSet)
    BY DEF WorkerOK
<1>6. Append(responses[w], Head(output_queue[w])) \o Tail(output_queue[w]) = responses[w] \o output_queue[w]
    BY ONLY <1>1, <1>5, MoveConcat, Zenon
<1>7. Stream(w)' = Stream(w)
    BY ONLY <1>3, <1>4, <1>6, Zenon DEF Stream
<1>8. \A v \in Ranks \ {w} : Stream(v)' = Stream(v)
    BY <1>2 DEF Stream
<1>. QED
    BY <1>7, <1>8

\* A worker finishes a call.
LEMMA FinishInv ==
    ASSUME Inv, NEW w \in Ranks, FinishCall(w), NEW v \in Ranks
    PROVE  RankInv(v)'
<1>0. EngineOK /\ WorkerOK /\ RankInv(v) /\ RankInv(w)
    BY DEF Inv
<1>1. UNCHANGED <<log, result, responses>> /\ finished[w] < taken[w]
    BY DEF FinishCall, evars
<1>2. PICK failed \in MayFail(w, taken[w]) :
        /\ finished' = [finished EXCEPT ![w] = taken[w]]
        /\ output_queue' =
              IF w \in Asked(log[taken[w]])
              THEN [output_queue EXCEPT ![w] = Append(@, Answer(w, taken[w], failed))]
              ELSE output_queue
    BY DEF FinishCall
<1>3. /\ taken[w] \in Nat /\ finished[w] \in Nat /\ taken[w] = finished[w] + 1
      /\ taken[w] <= Len(log) /\ Len(log) \in Nat /\ taken[w] <= taken[w]
    BY <1>0, <1>1, Numbers, SMT DEF WorkerOK
<1>4. taken[w] \in Calls /\ finished'[w] = taken[w]
  <2>1. taken[w] \in Calls
    BY <1>3, SMT DEF Calls
  <2>. QED
    BY <1>0, <1>2, <2>1 DEF WorkerOK
<1>5. CASE v # w
  <2>1. Stream(v)' = Stream(v)
    BY <1>0, <1>1, <1>2, <1>5 DEF Stream, WorkerOK
  <2>2. finished'[v] = finished[v]
    BY <1>0, <1>2, <1>5 DEF WorkerOK
  <2>3. Calls' = Calls /\ \A n : (Got(n, v)' <=> Got(n, v)) /\ From(n, v)' = From(n, v)
    BY <1>1 DEF Calls, Got, From
  <2>4. finished[v] \in Nat /\ finished[v] <= Len(log)
    <3>1. finished[v] \in Nat /\ taken[v] \in Nat /\ finished[v] <= taken[v] /\ taken[v] <= Len(log)
      BY <1>0 DEF WorkerOK
    <3>. QED
      BY <1>3, <3>1, SMT
  <2>. QED
    BY <1>0, <1>1, <2>1, <2>2, <2>3, <2>4, RankKept
<1>6. CASE v = w
  <2>. DEFINE answer == Answer(w, taken[w], failed)
  <2>1. /\ answer \in AnswerSet /\ answer.call = taken[w]
        /\ answer.value = "output" => log[taken[w]] \in Batches
        /\ answer.value = "drafts" => log[taken[w]] = "take_draft_token_ids"
    <3>1. /\ Kind(w, log[taken[w]]) \in Kinds
          /\ Kind(w, log[taken[w]]) = "output" => log[taken[w]] \in Batches
          /\ Kind(w, log[taken[w]]) = "drafts" => log[taken[w]] = "take_draft_token_ids"
      <4>1. CASE log[taken[w]] = "execute_model"
        BY <4>1 DEF Kind, Kinds
      <4>2. CASE log[taken[w]] = "execute_empty"
        BY <4>2 DEF Kind, Kinds, Batches
      <4>3. CASE log[taken[w]] = "sample_tokens"
        BY <4>3 DEF Kind, Kinds, Batches
      <4>4. CASE log[taken[w]] = "take_draft_token_ids"
        BY <4>4 DEF Kind, Kinds
      <4>5. CASE log[taken[w]] \notin {"execute_model", "execute_empty", "sample_tokens",
                                      "take_draft_token_ids"}
        BY <4>5 DEF Kind, Kinds
      <4>. QED
        BY <4>1, <4>2, <4>3, <4>4, <4>5
    <3>2. /\ answer.call = taken[w]
          /\ answer.value = IF failed THEN "failure" ELSE Kind(w, log[taken[w]])
      BY DEF Answer
    <3>3. answer \in AnswerSet
      BY <1>3, <3>1 DEF Answer, AnswerSet, Kinds
    <3>. QED
      BY <3>1, <3>2, <3>3
  <2>. HIDE DEF answer
  <2>2. CASE w \notin Asked(log[taken[w]])
    <3>1. Stream(w)' = Stream(w)
      BY <1>1, <1>2, <2>2 DEF Stream
    <3>. QED
      BY <1>0, <1>1, <1>3, <1>4, <1>6, <2>2, <3>1, RankFinish
  <2>3. CASE w \in Asked(log[taken[w]])
    <3>1. output_queue' = [output_queue EXCEPT ![w] = Append(@, answer)]
      BY <1>2, <2>3 DEF answer
    <3>2. output_queue'[w] = Append(output_queue[w], answer)
      BY <1>0, <3>1 DEF WorkerOK
    <3>3. output_queue[w] \in Seq(AnswerSet) /\ responses[w] \in Seq(AnswerSet) /\ answer \in AnswerSet
      BY <1>0, <2>1 DEF WorkerOK
    <3>4. responses[w] \o Append(output_queue[w], answer) = Append(responses[w] \o output_queue[w], answer)
      <4>1. \A r, q \in Seq(AnswerSet) : \A x \in AnswerSet : r \o Append(q, x) = Append(r \o q, x)
        BY AppendConcat, SMT
      <4>. QED
        BY <3>3, <4>1
    <3>5. Stream(w)' = Append(Stream(w), answer)
      BY ONLY <1>1, <3>2, <3>4, Zenon DEF Stream
    <3>6. PICK a : a = answer
      OBVIOUS
    <3>7. Fits(w, a)'
      BY <1>1, <1>3, <1>4, <2>1, <2>3, <3>6 DEF Fits, Calls
    <3>. QED
      BY <1>0, <1>1, <1>3, <1>4, <1>6, <2>1, <2>3, <3>5, <3>6, <3>7, RankFinish
  <2>. QED
    BY <2>2, <2>3
<1>. QED
    BY <1>5, <1>6

\* A new call has received nothing.
LEMMA WriteFacts ==
    ASSUME Inv, AcquireWrite
    PROVE  /\ Len(log') = Len(log) + 1 /\ Len(log) \in Nat /\ Live
           /\ \A n \in Calls : n \in Calls' /\ log'[n] = log[n] /\ result'[n] = result[n]
           /\ log'[Len(log) + 1] = engine.method
           /\ result'[Len(log) + 1] = Outcome("pending", NoAnswers)
           /\ \A n \in Calls' : n \notin Calls => n = Len(log) + 1 /\ n > Len(log)
           /\ Len(log) + 1 \in Calls'
<1>0. EngineOK /\ engine.method \in Methods
    BY DEF Inv, EngineOK, Engine
<1>1. /\ log' = Append(log, engine.method) /\ Live
      /\ result' = Append(result, Outcome("pending", NoAnswers))
    BY DEF AcquireWrite, Live
<1>2. Outcome("pending", NoAnswers) \in Outcomes
    BY PartialFacts DEF Outcome, Outcomes, States
<1>3. /\ Len(log') = Len(log) + 1 /\ Len(log) \in Nat
      /\ \A n \in 1 .. Len(log) : log'[n] = log[n]
      /\ log'[Len(log) + 1] = engine.method
  <2>1. log \in Seq(Methods) /\ Len(log) \in Nat
    BY <1>0, SeqLen DEF EngineOK
  <2>. QED
    BY <1>0, <1>1, <2>1, SeqAppend
<1>4. /\ \A n \in 1 .. Len(log) : result'[n] = result[n]
      /\ result'[Len(log) + 1] = Outcome("pending", NoAnswers)
  <2>1. result \in Seq(Outcomes) /\ Len(result) = Len(log)
    BY <1>0 DEF EngineOK
  <2>2. /\ \A n \in 1 .. Len(result) : result'[n] = result[n]
        /\ result'[Len(result) + 1] = Outcome("pending", NoAnswers)
    BY <1>1, <1>2, <2>1, SeqAppend
  <2>. QED
    BY <2>1, <2>2
<1>5. /\ \A n \in 1 .. Len(log) : n \in 1 .. Len(log')
      /\ \A n \in 1 .. Len(log') : n \notin 1 .. Len(log) => n = Len(log) + 1 /\ n > Len(log)
      /\ Len(log) + 1 \in 1 .. Len(log')
    BY <1>3, SMT
<1>. QED
    BY <1>1, <1>3, <1>4, <1>5 DEF Calls

\* No rank knows of a call that has just been sent.
LEMMA WriteRanks ==
    ASSUME Inv, AcquireWrite, NEW w \in Ranks
    PROVE  RankInv(w)'
<1>0. EngineOK /\ WorkerOK /\ RankInv(w) /\ UNCHANGED <<responses, output_queue, finished>>
    BY DEF Inv, AcquireWrite, wvars
<1>1. finished[w] \in Nat /\ finished[w] <= Len(log)
  <2>2. /\ finished[w] \in Nat /\ taken[w] \in Nat /\ finished[w] <= taken[w]
        /\ taken[w] <= Len(log) /\ Len(log) \in Nat
    BY <1>0, Numbers DEF WorkerOK
  <2>. QED
    BY <2>2, SMT
<1>2. Stream(w)' = Stream(w)
    BY <1>0 DEF Stream
<1>3. \A n \in Calls : /\ n \in Calls' /\ log'[n] = log[n]
                       /\ Got(n, w)' <=> Got(n, w)
                       /\ Got(n, w) => From(n, w)' = From(n, w)
                       /\ Done(result[n]) => Done(result'[n])
    BY WriteFacts DEF Got, From
<1>4. \A n \in Calls' : n \notin Calls => ~Got(n, w)' /\ n > Len(log)
  <2>1. DOMAIN Outcome("pending", NoAnswers).answers = {}
    BY PartialFacts DEF Outcome
  <2>. QED
    BY <2>1, WriteFacts DEF Got
<1>. QED
    BY <1>0, <1>1, <1>2, <1>3, <1>4, RankKept

\* A wait that raises leaves the answers where they are.
LEMMA RaiseRanks ==
    ASSUME Inv, DequeueRaises, NEW w \in Ranks
    PROVE  RankInv(w)'
<1>0. /\ EngineOK /\ WorkerOK /\ RankInv(w) /\ UNCHANGED <<log, responses, output_queue, finished>>
      /\ Draining
    BY RaisesFacts DEF Inv, wvars
<1>1. finished[w] \in Nat /\ finished[w] <= Len(log)
  <2>2. /\ finished[w] \in Nat /\ taken[w] \in Nat /\ finished[w] <= taken[w]
        /\ taken[w] <= Len(log) /\ Len(log) \in Nat
    BY <1>0, Numbers DEF WorkerOK
  <2>. QED
    BY <2>2, SMT
<1>2. Stream(w)' = Stream(w) /\ Calls' = Calls
    BY <1>0 DEF Stream, Calls
<1>3. /\ First \in Calls /\ ~Done(result[First]) /\ Answers \in Partial
      /\ Answers = result[First].answers
    BY <1>0, HeadFuture DEF Answers
<1>4. /\ result'[First].answers = result[First].answers
      /\ \A n \in Calls : n # First => result'[n] = result[n]
    BY <1>0, <1>3, RaisesFacts, SettleFacts DEF States
<1>5. \A n \in Calls : /\ Got(n, w)' <=> Got(n, w)
                       /\ From(n, w)' = From(n, w)
                       /\ Done(result[n]) => Done(result'[n])
    BY <1>3, <1>4 DEF Got, From
<1>. QED
    BY <1>0, <1>1, <1>2, <1>5, RankKept

\* The oldest future receives an answer.
LEMMA TakeRanks ==
    ASSUME Inv, Dequeue, NEW v \in Ranks
    PROVE  RankInv(v)'
<1>0. /\ EngineOK /\ WorkerOK /\ RankInv(v) /\ UNCHANGED <<log, output_queue, finished>>
      /\ Draining
    BY DequeueFacts DEF Inv
<1>1. finished[v] \in Nat /\ finished[v] <= Len(log)
  <2>2. /\ finished[v] \in Nat /\ taken[v] \in Nat /\ finished[v] <= taken[v]
        /\ taken[v] <= Len(log) /\ Len(log) \in Nat
    BY <1>0, Numbers DEF WorkerOK
  <2>. QED
    BY <2>2, SMT
<1>2. /\ First \in Calls /\ ~Done(result[First]) /\ Answers = result[First].answers
      /\ Calls' = Calls /\ FutureInv /\ Live
    BY <1>0, HeadFuture DEF Answers, Calls, Inv, LiveInv
<1>3. ASSUME NEW state \in States, NEW answers \in Partial, Settle(Outcome(state, answers)),
             v \in DOMAIN answers <=> Got(First, v),
             Got(First, v) => answers[v] = From(First, v),
             Stream(v)' = Stream(v)
      PROVE  RankInv(v)'
  <2>1. /\ result'[First].answers = answers
        /\ \A n \in Calls : n # First => result'[n] = result[n]
    BY <1>0, <1>3, SettleFacts
  <2>2. \A n \in Calls : /\ Got(n, v)' <=> Got(n, v)
                         /\ Got(n, v) => From(n, v)' = From(n, v)
                         /\ Done(result[n]) => Done(result'[n])
    BY <1>2, <1>3, <2>1 DEF Got, From
  <2>. QED
    BY <1>0, <1>1, <1>2, <1>3, <2>2, RankKept
<1>4. CASE /\ responses' = responses /\ Settle(Outcome("value", NoAnswers))
           /\ \A w \in Ranks : ~Got(First, w)
  <2>1. Stream(v)' = Stream(v)
    BY <1>0, <1>4 DEF Stream
  <2>. QED
    BY <1>3, <1>4, <2>1, PartialFacts DEF States
<1>5. ASSUME NEW w \in Ranks, w \in Asked(log[First]), ~Got(First, w), responses[w] # <<>>,
             responses' = [responses EXCEPT ![w] = Tail(@)], Head(responses[w]) \in AnswerSet,
             Added(w) \in Partial, NEW state \in {"failure", "value", "pending"},
             Settle(Outcome(state, Added(w)))
      PROVE  RankInv(v)'
  <2>0. /\ DOMAIN Added(w) = DOMAIN Answers \cup {w} /\ Added(w)[w] = Head(responses[w])
        /\ \A u \in DOMAIN Answers : u # w => Added(w)[u] = Answers[u]
    BY DEF Added
  <2>1. CASE v # w
    <3>1. Stream(v)' = Stream(v)
      BY <1>0, <1>5, <2>1 DEF Stream, WorkerOK
    <3>. QED
      BY <1>2, <1>3, <1>5, <2>0, <2>1, <3>1 DEF Got, From, States
  <2>2. CASE v = w
    <3>1. /\ responses[w] \in Seq(AnswerSet) /\ output_queue[w] \in Seq(AnswerSet)
          /\ responses'[w] = Tail(responses[w])
      BY <1>0, <1>5 DEF WorkerOK
    <3>2. /\ Tail(responses[w]) \o output_queue[w] = Tail(responses[w] \o output_queue[w])
          /\ responses[w] \o output_queue[w] # <<>>
          /\ (responses[w] \o output_queue[w])[1] = Head(responses[w])
      BY ONLY <1>5, <3>1, TailConcat, Zenon
    <3>3. Stream(w)' = Tail(Stream(w)) /\ Stream(w) # <<>> /\ Stream(w)[1] = Head(responses[w])
      BY <1>0, <3>1, <3>2 DEF Stream
    <3>4. /\ result'[First].answers = Added(w)
          /\ \A n \in Calls : n # First => result'[n] = result[n]
      BY <1>0, <1>5, SettleFacts DEF States
    <3>5. \A m \in Calls : (m < First => Done(result[m])) /\ (m > First => ~Got(m, w))
      BY <1>2, <1>5 DEF FutureInv
    <3>6. PICK n : n = First
      OBVIOUS
    <3>7. Got(n, w)' /\ From(n, w)' = Stream(w)[1]
      BY <2>0, <3>3, <3>4, <3>6 DEF Got, From
    <3>. QED
      BY <1>0, <1>2, <1>5, <2>2, <3>3, <3>4, <3>5, <3>6, <3>7, RankTake
  <2>. QED
    BY <2>1, <2>2
<1>. QED
    BY <1>4, <1>5, DequeueFacts

\* The answers of the ranks, in every step.
LEMMA RankStep ==
    ASSUME Inv, [Next]_vars, NEW v \in Ranks
    PROVE  RankInv(v)'
<1>0. WorkerOK
    BY DEF Inv
<1>1. ASSUME UNCHANGED <<log, result, finished, responses, output_queue>> PROVE RankInv(v)'
  <2>1. Stream(v)' = Stream(v)
    BY <1>1 DEF Stream
  <2>. QED
    BY <1>1, <2>1, RanksKept
<1>2. CASE EngineOnly /\ UNCHANGED wvars
  <2>1. AcquireWrite \/ DequeueRaises \/ UNCHANGED <<log, result>>
    BY <1>2 DEF EngineOnly, ExecutorFailed, UtilityCall, Step, StepDrain, CheckFailed, Enqueue,
                Lookup, PopBatch, UtilityReturns, DraftsReturn, BatchReturns, Raise
  <2>. QED
    BY <1>1, <1>2, <2>1, WriteRanks, RaiseRanks DEF wvars
<1>3. ASSUME NEW w \in Ranks, WorkerStep(w) \/ Crash(w) \/ WorkerStops(w) PROVE RankInv(v)'
  <2>1. CASE FinishCall(w)
    BY <2>1, FinishInv
  <2>2. CASE EnqueueOutput(w)
    <3>1. Stream(v)' = Stream(v) /\ UNCHANGED <<log, result, finished>>
      BY <1>0, <2>2, StreamMove DEF EnqueueOutput, evars
    <3>. QED
      BY <3>1, RanksKept
  <2>3. CASE TakeCall(w) \/ Crash(w) \/ WorkerStops(w)
    BY <1>1, <2>3 DEF TakeCall, Crash, WorkerStops, evars
  <2>. QED
    BY <1>3, <2>1, <2>2, <2>3 DEF WorkerStep
<1>4. UNCHANGED <<evars, wvars>> => RankInv(v)'
    BY <1>1 DEF evars, wvars
<1>5. EngineShutdown => UNCHANGED <<evars, wvars>>
    BY DEF EngineShutdown
<1>. QED
    BY <1>2, <1>3, <1>4, <1>5, TakeRanks, StepKinds DEF WorkerMove

-----------------------------------------------------------------------------
(* Steps that make and resolve no call.                                    *)

\* The executor's failure is final.
LEMMA FlagsKept ==
    ASSUME Inv, [Next]_vars
    PROVE  (cleared => cleared') /\ (is_failed => is_failed')
<1>0. {is_failed, shutting_down, cleared} \subseteq BOOLEAN
    BY DEF Inv, FlagsOK
<1>1. UNCHANGED mvars \/ EngineShutdown \/ Dequeue => UNCHANGED <<cleared, is_failed>>
    BY DEF mvars, EngineShutdown, Dequeue
<1>2. MonitorSees => cleared' = cleared /\ (is_failed => is_failed')
    BY <1>0, SMT DEF MonitorSees
<1>3. MonitorShutdown \/ MonitorTerminates \/ MonitorClears \/ MonitorCallback
         => is_failed' = is_failed /\ (cleared => cleared')
    BY <1>0, SMT DEF MonitorShutdown, MonitorTerminates, MonitorClears, MonitorCallback
<1>4. UNCHANGED mvars \/ EngineShutdown \/ Dequeue \/ MonitorStep
    BY StepKinds
<1>. QED
    BY <1>0, <1>1, <1>2, <1>3, <1>4, SMT DEF MonitorStep

\* What is said of results stays so.
LEMMA Frame ==
    ASSUME Inv, [Next]_vars, UNCHANGED <<log, result>>
    PROVE  /\ Calls' = Calls /\ ValueInv'
           /\ \A n, w : (Got(n, w)' <=> Got(n, w)) /\ From(n, w)' = From(n, w)
           /\ \A n : Own(n)' <=> Own(n)
<1>1. /\ Calls' = Calls
      /\ \A n, w : (Got(n, w)' <=> Got(n, w)) /\ From(n, w)' = From(n, w)
    BY DEF Calls, Got, From
<1>2. \A n : Own(n)' <=> Own(n)
    BY <1>1 DEF Own
<1>3. ValueInv'
    BY <1>1, FlagsKept DEF ValueInv, Inv
<1>. QED
    BY <1>1, <1>2, <1>3

\* The futures and the batches stay.
LEMMA FutureFrame ==
    ASSUME Inv, [Next]_vars, Live, UNCHANGED <<log, result, futures>>, Registered' = Registered
    PROVE  First' = First /\ FutureInv'
<1>1. First' = First
    BY DEF First
<1>2. FutureInv /\ (cleared => cleared')
    BY FlagsKept DEF Inv, LiveInv
<1>. QED
    BY <1>1, <1>2, Frame DEF FutureInv

\* An engine that stops.
LEMMA DeadInv ==
    ASSUME Inv, [Next]_vars, UNCHANGED <<log, result, futures, batch_queue, applied>>,
           engine' = Dead
    PROVE  RefInv' /\ ValueInv' /\ LiveInv'
<1>1. ~Live'
    BY DEF Dead, Idle, Live
<1>2. RefInv'
    BY DEF Inv, RefInv, Calls
<1>. QED
    BY <1>1, <1>2, Frame DEF LiveInv

\* Steps of the workers and of the monitor.
LEMMA OthersInv ==
    ASSUME Inv, [Next]_vars, UNCHANGED evars
    PROVE  RefInv' /\ ValueInv' /\ LiveInv'
<1>1. UNCHANGED <<log, result, futures, batch_queue, engine, applied>>
    BY DEF evars
<1>2. RefInv'
    BY <1>1 DEF Inv, RefInv, Calls
<1>3. Registered' = Registered /\ (Live' <=> Live)
    BY <1>1 DEF Registered, Live
<1>4. ASSUME Live PROVE StepInv' /\ BatchInv' /\ UsedInv'
  <2>1. StepInv /\ BatchInv /\ UsedInv
    BY <1>4 DEF Inv, LiveInv
  <2>2. StepInv'
    BY <1>1, <1>3, <2>1 DEF StepInv, Calling, Room
  <2>3. BatchInv'
    BY <1>1, <1>3, <2>1 DEF BatchInv
  <2>4. UsedInv'
    BY <1>1, <1>3, <2>1, Frame DEF UsedInv
  <2>. QED
    BY <2>2, <2>3, <2>4
<1>. QED
    BY <1>1, <1>2, <1>3, <1>4, Frame, FutureFrame DEF LiveInv

\* Steps that move the engine thread on.
LEMMA QuietInv ==
    ASSUME Inv, [Next]_vars, Live, UNCHANGED <<log, result, futures, batch_queue>>,
           applied'.of = {applied'.call}, engine.pc # "lookup", engine'.pc # "lookup",
           \/ engine.pc # "drain" \/ log[engine.wait] # "take_draft_token_ids"
           \/ Own(engine.wait),
           StepInv'
    PROVE  RefInv' /\ ValueInv' /\ LiveInv'
<1>1. Registered' = Registered /\ Calls' = Calls
    BY DEF Registered, Calls
<1>2. RefInv'
    BY <1>1 DEF Inv, RefInv
<1>3. BatchInv /\ UsedInv
    BY DEF Inv, LiveInv
<1>4. BatchInv'
    BY <1>1, <1>3 DEF BatchInv
<1>5. UsedInv'
    BY <1>1, <1>3, Frame DEF UsedInv
<1>. QED
    BY <1>1, <1>2, <1>4, <1>5, Frame, FutureFrame DEF LiveInv

\* The record of a thread that starts a call.
LEMMA CallRecord ==
    ASSUME EngineOK, NEW method
    PROVE  /\ Call(method).pc = "check" /\ Call(method).method = method
           /\ Call(method).deferred = engine.deferred /\ Call(method).exec = engine.exec
    BY DEF EngineOK, Engine, Call

\* The last result used stays.
LEMMA AppliedKept ==
    ASSUME Inv, applied' = applied
    PROVE  applied'.of = {applied'.call}
    BY DEF Inv, RefInv

\* The engine thread starts a call or waits for the oldest batch.
LEMMA LoopInv ==
    ASSUME Inv, [Next]_vars, UtilityCall \/ Step \/ StepDrain
    PROVE  RefInv' /\ ValueInv' /\ LiveInv'
<1>0. /\ engine.pc = "loop" /\ Live /\ StepInv /\ EngineOK
      /\ UNCHANGED <<log, result, futures, batch_queue, applied>>
    BY DEF Inv, LiveInv, Live, UtilityCall, Step, StepDrain, AtLoop
<1>1. engine = Idle /\ Len(batch_queue) < BatchQueueSize /\ Len(batch_queue) \in Nat
    BY <1>0, Numbers, SMT DEF StepInv, Room, Idle
<1>4. \/ engine'.pc = "check" /\ engine'.method \in Utility /\ engine'.deferred = FALSE
      \/ engine'.pc = "check" /\ engine'.method = "execute_empty" /\ engine'.deferred = FALSE
      \/ /\ engine'.pc = "check" /\ engine'.method = "execute_model"
         /\ engine'.deferred => batch_queue # <<>>
      \/ engine'.pc = "pop" /\ engine'.deferred = FALSE /\ batch_queue # <<>>
  <2>1. CASE UtilityCall
    <3>1. PICK method \in Utility : engine' = Call(method)
      BY <2>1 DEF UtilityCall
    <3>2. engine.deferred = FALSE
      BY <1>1 DEF Idle
    <3>. QED
      BY <1>0, <3>1, <3>2, CallRecord
  <2>2. CASE Step
    <3>1. PICK empty, deferred \in BOOLEAN :
            /\ deferred => ~empty /\ batch_queue # <<>>
            /\ engine' = [Call(IF empty THEN "execute_empty" ELSE "execute_model")
                             EXCEPT !.deferred = deferred]
      BY <2>2 DEF Step
    <3>2. \A method : /\ [Call(method) EXCEPT !.deferred = deferred].pc = "check"
                      /\ [Call(method) EXCEPT !.deferred = deferred].method = method
                      /\ [Call(method) EXCEPT !.deferred = deferred].deferred = deferred
      BY <1>0 DEF EngineOK, Engine, Call
    <3>3. engine'.pc = "check" /\ engine'.deferred = deferred
      BY <3>1, <3>2
    <3>4. engine'.method = IF empty THEN "execute_empty" ELSE "execute_model"
      BY <3>1, <3>2
    <3>. QED
      BY <3>1, <3>3, <3>4
  <2>3. CASE StepDrain
    BY <1>1, <2>3 DEF StepDrain, Idle
  <2>. QED
    BY <2>1, <2>2, <2>3
<1>5. StepInv'
  <2>1. CASE engine'.pc = "check"
    BY <1>0, <1>1, <1>4, <2>1, SMT DEF StepInv, Calling, Room
  <2>2. CASE engine'.pc = "pop"
    BY <1>0, <1>1, <1>4, <2>2, Sizes, SMT DEF StepInv, Calling
  <2>. QED
    BY <1>4, <2>1, <2>2
<1>7. engine'.pc # "lookup"
    BY <1>4
<1>. QED
    BY <1>0, <1>5, <1>7, QuietInv, AppliedKept

\* collective_rpc looks at the executor's state, and at the broadcast queue.
LEMMA CheckInv ==
    ASSUME Inv, [Next]_vars, CheckFailed \/ Enqueue
    PROVE  RefInv' /\ ValueInv' /\ LiveInv'
<1>0. /\ engine.pc \in {"check", "enqueue"} /\ Live /\ StepInv /\ EngineOK
      /\ UNCHANGED <<log, result, futures, batch_queue, applied>>
    BY DEF Inv, LiveInv, Live, CheckFailed, Enqueue, Raise
<1>1. Registered = Len(log) /\ Len(batch_queue) \in Nat
    BY <1>0, Numbers DEF Registered
<1>2. CASE engine' = Dead
    BY <1>0, <1>2, DeadInv
<1>3. CASE engine' = Idle /\ engine.method \in Utility
  <2>0. engine.method \notin Model \cup {"take_draft_token_ids"}
    BY <1>3 DEF Utility, Model
  <2>1. StepInv'
    BY <1>0, <1>1, <1>3, <2>0 DEF StepInv, Calling, Room, Idle, Model
  <2>3. engine'.pc # "lookup"
    BY <1>3 DEF Idle
  <2>. QED
    BY <1>0, <2>1, <2>3, QuietInv, AppliedKept
<1>4. ASSUME NEW pc \in {"enqueue", "write"}, engine' = [engine EXCEPT !.pc = pc]
      PROVE  RefInv' /\ ValueInv' /\ LiveInv'
  <2>0. /\ engine'.pc \in {"enqueue", "write"} /\ engine'.method = engine.method
        /\ engine'.deferred = engine.deferred /\ engine'.exec = engine.exec
    BY <1>0, <1>4 DEF EngineOK, Engine
  <2>1. StepInv'
    BY <1>0, <1>1, <2>0 DEF StepInv, Calling, Room, Registered
  <2>3. engine'.pc # "lookup"
    BY <2>0
  <2>. QED
    BY <1>0, <2>1, <2>3, QuietInv, AppliedKept
<1>. QED
    BY <1>2, <1>3, <1>4 DEF CheckFailed, Enqueue, Raise

\* The engine thread takes the oldest batch.
LEMMA PopInv ==
    ASSUME Inv, [Next]_vars, PopBatch
    PROVE  RefInv' /\ ValueInv' /\ LiveInv'
<1>0. /\ engine.pc = "pop" /\ Live /\ StepInv /\ EngineOK
      /\ UNCHANGED <<log, result, futures, batch_queue, applied>>
    BY DEF Inv, LiveInv, Live, PopBatch
<1>1. Registered = Len(log)
    BY <1>0 DEF Registered
<1>2. /\ engine'.pc = "drain" /\ engine'.wait = batch_queue[1].fut
      /\ engine'.deferred = engine.deferred /\ engine'.exec = engine.exec
    BY <1>0 DEF PopBatch, EngineOK, Engine
<1>3. StepInv'
    BY <1>0, <1>1, <1>2 DEF StepInv, Calling, Room, Registered
<1>. QED
    BY <1>0, <1>2, <1>3, QuietInv, AppliedKept

-----------------------------------------------------------------------------
(* The answers that a step uses.                                           *)

\* What a step uses consists of the answers to its own call.  An answer to an
\* earlier call would be of a batch, or of a call for draft tokens; the engine
\* has used the answers of those that are not in flight, and an answer is
\* received once.
LEMMA OwnOutput ==
    ASSUME Inv, engine.pc = "drain", NEW kind,
           \/ kind = "output" /\ log[engine.wait] \in Model
           \/ kind = "drafts" /\ log[engine.wait] = "take_draft_token_ids",
           Holds(result[engine.wait], kind)
    PROVE  /\ Own(engine.wait)
           /\ {result[engine.wait].answers[w].call :
                  w \in DOMAIN result[engine.wait].answers} = {engine.wait}
<1>1. PICK n : n = engine.wait
    OBVIOUS
<1>2. /\ n \in Calls /\ Registered = Len(log) /\ Live /\ EngineOK /\ UsedInv /\ BatchInv
      /\ ValueInv /\ \A w \in Ranks : RankInv(w)
    BY <1>1, WaitFacts DEF Inv, LiveInv
<1>3. /\ result[n].state = "value" /\ DOMAIN result[n].answers # {}
      /\ \A w \in DOMAIN result[n].answers : result[n].answers[w].value = kind
      /\ DOMAIN result[n].answers \subseteq Ranks
    BY <1>1, <1>2, Elements, PartialFacts DEF Holds
<1>4. \A w \in Ranks : Got(n, w) <=> w \in Asked(log[n])
    BY <1>2, <1>3 DEF ValueInv, Got
<1>5. DOMAIN result[n].answers = Asked(log[n])
    BY <1>3, <1>4, Sizes DEF Got
<1>6. ASSUME NEW w \in Asked(log[n]) PROVE Got(n, w) /\ From(n, w).call = n
  <2>0. w \in Ranks /\ Got(n, w) /\ RankInv(w)
    BY <1>2, <1>4, Sizes
  <2>1. PICK c : c = From(n, w).call
    OBVIOUS
  <2>2. /\ c \in Calls /\ c <= n /\ w \in Asked(log[c])
        /\ From(n, w).value = "output" => log[c] \in Batches
        /\ From(n, w).value = "drafts" => log[c] = "take_draft_token_ids"
    BY <1>2, <2>0, <2>1 DEF RankInv, ReceivedInv, Fits
  <2>3. From(n, w).value = kind
    BY <1>3, <2>0 DEF Got, From
  <2>. SUFFICES ASSUME c # n PROVE FALSE
    BY <2>0, <2>1
  <2>4. c < n /\ c \in 1 .. Registered /\ ~(c < c) /\ ~(n < c)
    <3>1. c \in Nat /\ n \in Nat
      BY <1>2, <2>2, Numbers
    <3>2. c \in 1 .. Registered
      BY <1>2, <2>2 DEF Calls
    <3>. QED
      BY <2>2, <3>1, <3>2, SMT
  <2>5. ~Own(c)
    <3>. SUFFICES ASSUME Own(c) PROVE FALSE
      OBVIOUS
    <3>1. Got(c, w) /\ From(c, w).call = c
      BY <2>2 DEF Own
    <3>2. From(c, w).call < From(n, w).call
      BY <1>2, <2>0, <2>2, <2>4, <3>1 DEF RankInv, OrderInv
    <3>. QED
      BY <2>1, <2>4, <3>1, <3>2
  <2>6. CASE kind = "output" /\ log[n] \in Model
    <3>1. PICK i \in 1 .. Len(batch_queue) : batch_queue[i].fut = c
      BY <1>2, <2>2, <2>3, <2>4, <2>5, <2>6 DEF UsedInv
    <3>2. n = batch_queue[1].fut
      BY <1>1, <2>6, WaitFacts
    <3>3. i = 1 \/ (1 \in 1 .. Len(batch_queue) /\ 1 < i)
      BY <1>2, Numbers, SMT
    <3>. QED
      BY <1>2, <2>4, <3>1, <3>2, <3>3 DEF BatchInv
  <2>7. CASE kind = "drafts" /\ log[n] = "take_draft_token_ids"
    BY <1>1, <1>2, <2>2, <2>3, <2>4, <2>5, <2>7 DEF UsedInv
  <2>. QED
    BY <1>1, <2>6, <2>7
<1>7. Own(n)
    BY <1>6 DEF Own
<1>8. {result[n].answers[w].call : w \in DOMAIN result[n].answers} = {n}
  <2>1. \A w \in DOMAIN result[n].answers : result[n].answers[w].call = n
    BY <1>5, <1>6 DEF From
  <2>. QED
    BY <1>3, <2>1
<1>. QED
    BY <1>1, <1>7, <1>8

\* A blocking call returns.
LEMMA ReturnInv ==
    ASSUME Inv, [Next]_vars, UtilityReturns \/ DraftsReturn
    PROVE  RefInv' /\ ValueInv' /\ LiveInv'
<1>0. /\ engine.pc = "drain" /\ log[engine.wait] \in Utility \cup {"take_draft_token_ids"}
      /\ Live /\ StepInv /\ EngineOK
      /\ UNCHANGED <<log, result, futures, batch_queue>>
    BY DEF Inv, LiveInv, Live, UtilityReturns, DraftsReturn, Answered
<1>n. \A x \in Utility \cup {"take_draft_token_ids"} : x \notin Model
    BY DEF Utility, Model
<1>1. /\ Registered = Len(log) /\ engine.wait = Len(log) /\ Room /\ engine.wait \in Calls
      /\ Len(batch_queue) \in Nat
    BY <1>0, <1>n, WaitFacts, Numbers
<1>2. CASE UtilityReturns
  <2>1. log[engine.wait] \in Utility /\ ~engine.deferred /\ engine' = Idle /\ applied' = applied
    BY <1>0, <1>1, <1>2, <1>n, WaitFacts DEF UtilityReturns, Answered
  <2>2. StepInv'
    BY <1>0, <1>1, <2>1 DEF StepInv, Calling, Room, Idle
  <2>3. log[engine.wait] # "take_draft_token_ids" /\ engine'.pc # "lookup"
    BY <2>1 DEF Utility, Idle
  <2>. QED
    BY <1>0, <2>1, <2>2, <2>3, QuietInv, AppliedKept
<1>3. CASE DraftsReturn /\ Holds(result[engine.wait], "drafts")
  <2>1. /\ log[engine.wait] = "take_draft_token_ids" /\ engine' = Call("sample_tokens")
        /\ engine.deferred /\ engine.exec \in Calls /\ Use(engine.wait)
    BY <1>0, <1>3, <1>n, WaitFacts DEF DraftsReturn, Answered
  <2>2. /\ engine'.pc = "check" /\ engine'.method = "sample_tokens"
        /\ engine'.deferred = engine.deferred /\ engine'.exec = engine.exec
    BY <1>0, <2>1, CallRecord
  <2>3. StepInv'
    BY <1>0, <1>1, <2>1, <2>2 DEF StepInv, Calling, Room, Registered, Calls
  <2>4. Own(engine.wait) /\ applied'.of = {applied'.call}
    BY <1>0, <1>3, <2>1, OwnOutput DEF Use
  <2>. QED
    BY <1>0, <2>2, <2>3, <2>4, QuietInv
<1>4. CASE DraftsReturn /\ ~Holds(result[engine.wait], "drafts")
  <2>1. engine' = Dead /\ applied' = applied
    BY <1>4 DEF DraftsReturn
  <2>. QED
    BY <1>0, <2>1, DeadInv
<1>. QED
    BY <1>2, <1>3, <1>4

\* update_from_output.
LEMMA BatchReturnsInv ==
    ASSUME Inv, [Next]_vars, BatchReturns
    PROVE  RefInv' /\ ValueInv' /\ LiveInv'
<1>0. /\ engine.pc = "drain" /\ log[engine.wait] \in Model
      /\ Live /\ StepInv /\ BatchInv /\ UsedInv /\ EngineOK /\ RefInv
      /\ UNCHANGED <<log, result, futures>>
    BY DEF Inv, LiveInv, Live, BatchReturns, Answered
<1>1. /\ Registered = Len(log) /\ Len(log) \in Nat /\ engine.wait \in Calls
      /\ batch_queue # <<>> /\ engine.wait = batch_queue[1].fut
      /\ Len(batch_queue) <= BatchQueueSize /\ Len(batch_queue) \in Nat /\ BatchQueueSize \in Nat
      /\ engine.deferred => Len(batch_queue) < BatchQueueSize /\ engine.exec \in Calls
    BY <1>0, WaitFacts, Numbers, Sizes
<1>2. CASE engine' = Dead /\ UNCHANGED <<batch_queue, applied>>
    BY <1>0, <1>2, DeadInv
<1>3. CASE /\ Holds(result[engine.wait], "output") /\ Use(engine.wait)
           /\ batch_queue' = Tail(batch_queue)
           /\ \/ ~engine.deferred /\ engine' = Idle
              \/ /\ engine.deferred
                 /\ \E method \in {"take_draft_token_ids", "sample_tokens"} : engine' = Call(method)
  <2>1. /\ Len(batch_queue') = Len(batch_queue) - 1
        /\ \A i \in 1 .. Len(batch_queue') : /\ batch_queue'[i] = batch_queue[i + 1]
                                             /\ i + 1 \in 1 .. Len(batch_queue)
    <3>1. /\ Len(batch_queue') = Len(batch_queue) - 1
          /\ \A i \in 1 .. Len(batch_queue') : batch_queue'[i] = batch_queue[i + 1]
      BY <1>0, <1>1, <1>3, SeqTail DEF EngineOK
    <3>. QED
      BY <1>1, <3>1, SMT
  <2>2. applied'.of = {applied'.call} /\ Own(engine.wait)
    BY <1>0, <1>3, OwnOutput DEF Use
  <2>3. \/ ~engine.deferred /\ engine' = Idle
        \/ /\ engine.deferred /\ engine'.pc = "check" /\ engine'.deferred = engine.deferred
           /\ engine'.exec = engine.exec
           /\ engine'.method \in {"take_draft_token_ids", "sample_tokens"}
    BY <1>0, <1>3, CallRecord
  <2>4. engine'.pc \in {"loop", "check"}
    BY <2>3, SMT DEF Idle
  <2>5. Registered' = Registered /\ Calls' = Calls /\ ValueInv' /\ FutureInv'
    <3>1. Registered' = Registered
      BY <1>0, <1>1, <2>4 DEF Registered
    <3>. QED
      BY <1>0, <3>1, Frame, FutureFrame
  <2>6. StepInv'
    <3>1. CASE ~engine.deferred /\ engine' = Idle
      BY <1>1, <2>1, <3>1, SMT DEF StepInv, Calling, Room, Idle
    <3>2. CASE /\ engine.deferred /\ engine'.pc = "check" /\ engine'.deferred = engine.deferred
               /\ engine'.exec = engine.exec
               /\ engine'.method \in {"take_draft_token_ids", "sample_tokens"}
      BY <1>1, <2>1, <2>5, <3>2, SMT DEF StepInv, Calling, Room, Calls
    <3>. QED
      BY <2>3, <3>1, <3>2
  <2>8. BatchInv'
    <3>1. \A i \in 1 .. Len(batch_queue') : /\ batch_queue'[i].fut \in 1 .. Registered
                                            /\ batch_queue'[i].exec \in 1 .. Registered
                                            /\ log[batch_queue'[i].fut] \in Batches
      BY <1>0, <2>1 DEF BatchInv
    <3>2. ASSUME NEW i \in 1 .. Len(batch_queue'), NEW j \in 1 .. Len(batch_queue'), i < j
          PROVE  batch_queue'[i].fut < batch_queue'[j].fut
      <4>1. i + 1 \in 1 .. Len(batch_queue) /\ j + 1 \in 1 .. Len(batch_queue) /\ i + 1 < j + 1
        BY <1>1, <2>1, <3>2, SMT
      <4>2. batch_queue[i + 1].fut < batch_queue[j + 1].fut
        BY <1>0, <4>1 DEF BatchInv
      <4>. QED
        BY <2>1, <4>2
    <3>. QED
      BY <1>0, <2>5, <3>1, <3>2 DEF BatchInv
  <2>9. UsedInv'
    <3>1. ASSUME NEW m \in 1 .. Registered, log[m] \in Batches, ~Own(m)
          PROVE  \E i \in 1 .. Len(batch_queue') : batch_queue'[i].fut = m
      <4>1. PICK i \in 1 .. Len(batch_queue) : batch_queue[i].fut = m
        BY <1>0, <3>1 DEF UsedInv
      <4>2. i # 1
        BY <1>1, <2>2, <3>1, <4>1
      <4>3. i - 1 \in 1 .. Len(batch_queue') /\ (i - 1) + 1 = i
        BY <1>1, <2>1, <4>2, SMT
      <4>4. batch_queue'[i - 1] = batch_queue[i]
        BY <2>1, <4>3
      <4>. QED
        BY <4>1, <4>3, <4>4
    <3>2. ASSUME NEW m \in 1 .. Registered, log[m] = "take_draft_token_ids" PROVE Own(m)
      <4>1. m # engine.wait
        BY <1>0, <3>2 DEF Model
      <4>. QED
        BY <1>0, <3>2, <4>1 DEF UsedInv
    <3>3. \A m : Own(m)' <=> Own(m)
      BY <1>0, Frame
    <3>. QED
      BY <1>0, <2>5, <3>1, <3>2, <3>3 DEF UsedInv
  <2>10. RefInv'
    <3>1. \A i \in 1 .. Len(batch_queue') : {batch_queue'[i].fut, batch_queue'[i].exec} \subseteq Calls
      BY <1>0, <2>1 DEF RefInv
    <3>. QED
      BY <1>0, <2>2, <2>5, <3>1 DEF RefInv
  <2>. QED
    BY <2>5, <2>6, <2>8, <2>9, <2>10 DEF LiveInv
<1>. QED
  <2>1. \/ engine' = Dead /\ UNCHANGED <<batch_queue, applied>>
        \/ /\ Holds(result[engine.wait], "output") /\ Use(engine.wait)
           /\ batch_queue' = Tail(batch_queue)
           /\ \/ ~engine.deferred /\ engine' = Idle
              \/ /\ engine.deferred
                 /\ \E method \in {"take_draft_token_ids", "sample_tokens"} : engine' = Call(method)
    BY DEF BatchReturns
  <2>. QED
    BY <1>2, <1>3, <2>1

-----------------------------------------------------------------------------
(* A call is made.                                                         *)

\* The call is broadcast.
LEMMA WriteInv ==
    ASSUME Inv, [Next]_vars, AcquireWrite
    PROVE  RefInv' /\ ValueInv' /\ LiveInv'
<1>0. /\ engine.pc = "write" /\ Live /\ EngineOK /\ StepInv /\ FutureInv /\ BatchInv
      /\ UsedInv /\ RefInv /\ ValueInv /\ UNCHANGED <<futures, batch_queue, applied>>
    BY WriteFacts DEF Inv, LiveInv, AcquireWrite
<1>1. /\ Registered = Len(log) /\ Len(log) \in Nat /\ Len(futures) \in Nat
      /\ Len(futures) <= Len(log) /\ First \in Int /\ Len(batch_queue) \in Nat
    BY <1>0, Numbers DEF Registered, FutureInv
<1>2. /\ engine'.pc = "lookup" /\ engine'.method = engine.method
      /\ engine'.deferred = engine.deferred /\ engine'.exec = engine.exec
    BY <1>0 DEF AcquireWrite, EngineOK, Engine
<1>3. Registered' = Registered /\ First' = First /\ First <= Len(log) + 1
    BY <1>0, <1>1, <1>2, WriteFacts, SMT DEF Registered, First
<1>4. /\ \A n \in Calls, w \in Ranks : (Got(n, w)' <=> Got(n, w)) /\ From(n, w)' = From(n, w)
      /\ \A n \in Calls : Own(n)' <=> Own(n)
  <2>1. \A n \in Calls, w \in Ranks : (Got(n, w)' <=> Got(n, w)) /\ From(n, w)' = From(n, w)
    BY WriteFacts DEF Got, From
  <2>2. \A n \in Calls : Asked(log'[n]) = Asked(log[n]) /\ Asked(log[n]) \subseteq Ranks
    BY WriteFacts, Sizes
  <2>. QED
    BY <2>1, <2>2 DEF Own
<1>5. \A n \in Calls' : n \notin Calls => /\ result'[n].state = "pending" /\ ~Done(result'[n])
                                          /\ \A w \in Ranks : ~Got(n, w)'
                                          /\ ~(n < First) /\ ~(n \in 1 .. Registered)
  <2>1. /\ Outcome("pending", NoAnswers).state = "pending"
        /\ DOMAIN Outcome("pending", NoAnswers).answers = {}
    BY PartialFacts DEF Outcome
  <2>. SUFFICES ASSUME NEW n \in Calls', n \notin Calls
                PROVE  /\ result'[n].state = "pending" /\ ~Done(result'[n])
                       /\ \A w \in Ranks : ~Got(n, w)'
                       /\ ~(n < First) /\ ~(n \in 1 .. Registered)
    OBVIOUS
  <2>2. n = Len(log) + 1 /\ result'[n] = Outcome("pending", NoAnswers)
    BY WriteFacts
  <2>3. ~(n < First) /\ ~(n \in 1 .. Registered)
    BY <1>1, <1>3, <2>2, SMT
  <2>4. \A w \in Ranks : ~Got(n, w)'
    BY <2>1, <2>2 DEF Got
  <2>. QED
    BY <2>1, <2>2, <2>3, <2>4 DEF Done
<1>6. /\ \A n \in Calls : n \in Calls' /\ log'[n] = log[n] /\ result'[n] = result[n]
      /\ \A n \in 1 .. Registered : n \in Calls
    BY <1>1, WriteFacts DEF Calls
<1>7. RefInv'
  <2>1. Calls \subseteq Calls'
    BY <1>6
  <2>2. \A i \in 1 .. Len(futures) : futures[i].call \in Calls'
    BY <1>0, <2>1 DEF RefInv
  <2>3. \A i \in 1 .. Len(batch_queue) : {batch_queue[i].fut, batch_queue[i].exec} \subseteq Calls'
    BY <1>0, <2>1 DEF RefInv
  <2>. QED
    BY <1>0, <2>2, <2>3 DEF RefInv
<1>8. ValueInv'
  <2>. SUFFICES ASSUME NEW n \in Calls', result'[n].state = "value"
                PROVE  \/ \A w \in Ranks : Got(n, w)' <=> w \in Asked(log'[n])
                       \/ is_failed' /\ \A w \in Ranks : ~Got(n, w)'
    BY DEF ValueInv
  <2>1. n \in Calls
    BY <1>5
  <2>. QED
    BY <1>0, <1>4, <1>6, <2>1, FlagsKept DEF ValueInv
<1>9. StepInv'
  <2>1. Len(log') = Len(log) + 1 /\ log'[Len(log')] = engine.method /\ Len(log') > 0
    BY <1>1, WriteFacts, SMT
  <2>2. Calling /\ Room' = Room
    BY <1>0, <1>2 DEF Calling, Room
  <2>. QED
    BY <1>0, <1>2, <1>3, <2>1, <2>2 DEF StepInv
<1>10. FutureInv'
  <2>1. \A n \in Calls' : Done(result'[n]) <=> n < First
    <3>1. ASSUME NEW n \in Calls PROVE Done(result'[n]) <=> n < First
      <4>1. result'[n] = result[n]
        BY <1>6
      <4>. QED
        BY <1>0, <4>1 DEF FutureInv
    <3>2. ASSUME NEW n \in Calls', n \notin Calls PROVE Done(result'[n]) <=> n < First
      <4>1. ~Done(result'[n]) /\ ~(n < First)
        BY <1>5, <3>2
      <4>. QED
        BY <4>1
    <3>. QED
      BY <3>1, <3>2
  <2>2. \A n \in Calls' : n > First \/ n > Registered => \A w \in Ranks : ~Got(n, w)'
    BY <1>0, <1>4, <1>5 DEF FutureInv
  <2>3. \A i \in 1 .. Len(futures) :
          /\ futures[i].call = First + i - 1
          /\ \/ futures[i].mqs = Asked(log'[futures[i].call])
             \/ /\ futures[i].mqs = {} /\ cleared'
                /\ \A w \in Ranks : ~Got(futures[i].call, w)'
    <3>. SUFFICES ASSUME NEW i \in 1 .. Len(futures)
                  PROVE  /\ futures[i].call = First + i - 1
                         /\ \/ futures[i].mqs = Asked(log'[futures[i].call])
                            \/ /\ futures[i].mqs = {} /\ cleared'
                               /\ \A w \in Ranks : ~Got(futures[i].call, w)'
      OBVIOUS
    <3>1. PICK f : f = futures[i] /\ f.call \in Calls
      BY <1>0 DEF RefInv
    <3>2. /\ f.call = First + i - 1
          /\ \/ f.mqs = Asked(log[f.call])
             \/ f.mqs = {} /\ cleared /\ \A w \in Ranks : ~Got(f.call, w)
      BY <1>0, <3>1 DEF FutureInv
    <3>3. \/ f.mqs = Asked(log'[f.call])
          \/ f.mqs = {} /\ cleared' /\ \A w \in Ranks : ~Got(f.call, w)'
      BY <1>4, <1>6, <3>1, <3>2, FlagsKept
    <3>4. futures'[i] = f
      BY <1>0, <3>1
    <3>. QED
      BY <3>1, <3>2, <3>3, <3>4 DEF Got
  <2>. QED
    BY <1>0, <1>1, <1>3, <2>1, <2>2, <2>3 DEF FutureInv
<1>11. BatchInv'
    BY <1>0, <1>3, <1>6 DEF BatchInv
<1>12. UsedInv'
    BY <1>0, <1>3, <1>4, <1>6 DEF UsedInv
<1>. QED
    BY <1>7, <1>8, <1>9, <1>10, <1>11, <1>12 DEF LiveInv

\* The future of the call is put in the queue.
LEMMA LookupFrame ==
    ASSUME Inv, [Next]_vars, Live, engine.pc = "lookup", engine'.pc # "lookup",
           UNCHANGED <<log, result>>,
           futures' = Append(futures, [call |-> Len(log), mqs |-> IF cleared THEN {}
                                                                 ELSE Asked(engine.method)])
    PROVE  /\ Registered = Len(log) - 1 /\ Registered' = Len(log) /\ Len(log) \in Nat \ {0}
           /\ Len(log) \in 1 .. Len(log)
           /\ \A n \in 1 .. Len(log) : n # Len(log) => n \in 1 .. Registered
           /\ \A n \in 1 .. Registered : n \in 1 .. Len(log) /\ n < Len(log)
           /\ FutureInv'
           /\ \A i \in 1 .. Len(futures') : futures'[i].call \in Calls
<1>. DEFINE future == [call |-> Len(log), mqs |-> IF cleared THEN {} ELSE Asked(engine.method)]
<1>0. EngineOK /\ FutureInv /\ StepInv /\ RefInv
    BY DEF Inv, LiveInv
<1>1. /\ Len(log) \in Nat \ {0} /\ Registered = Len(log) - 1 /\ Registered' = Len(log)
      /\ log[Len(log)] = engine.method /\ Len(futures) \in Nat /\ Len(futures) <= Registered
    BY <1>0, Numbers, SMT DEF StepInv, Registered, FutureInv
<1>2. /\ Len(log) \in 1 .. Len(log) /\ Len(log) > Registered
      /\ \A n \in 1 .. Len(log) : n # Len(log) => n \in 1 .. Registered
      /\ \A n \in 1 .. Registered : n \in 1 .. Len(log) /\ n < Len(log)
      /\ \A n \in 1 .. Len(log) : ~(n > Len(log))
    BY <1>1, SMT
<1>3. future \in Futures
    BY <1>1, Sizes DEF Futures
<1>4. PICK k : k = Len(futures) + 1
    OBVIOUS
<1>5. /\ Len(futures') = k /\ futures'[k] = future
      /\ \A i \in 1 .. Len(futures) : futures'[i] = futures[i]
  <2>1. futures \in Seq(Futures) /\ futures' = Append(futures, future)
    BY <1>0 DEF EngineOK
  <2>2. PICK f : f = future /\ f \in Futures
    BY <1>3
  <2>3. /\ Len(Append(futures, f)) = Len(futures) + 1 /\ Append(futures, f)[Len(futures) + 1] = f
        /\ \A i \in 1 .. Len(futures) : Append(futures, f)[i] = futures[i]
    BY ONLY <2>1, <2>2, SMT
  <2>. HIDE DEF future
  <2>. QED
    BY <1>4, <2>1, <2>2, <2>3
<1>f. future.call = Len(log) /\ future.mqs = IF cleared THEN {} ELSE Asked(engine.method)
    OBVIOUS
<1>. HIDE DEF future
<1>6. \A i \in 1 .. k : i = k \/ i \in 1 .. Len(futures)
    BY <1>1, <1>4, SMT
<1>7. /\ First' = First /\ Len(log) = First + k - 1 /\ k <= Len(log)
    BY <1>1, <1>4, <1>5, SMT DEF First
<1>8. /\ Calls' = Calls /\ Calls = 1 .. Len(log)
      /\ \A n, w : Got(n, w)' <=> Got(n, w)
    BY Frame DEF Calls
<1>9. \A w \in Ranks : ~Got(Len(log), w)
    BY <1>0, <1>2, <1>8 DEF FutureInv
<1>10. \A i \in 1 .. Len(futures') : futures'[i].call \in Calls
  <2>1. \A i \in 1 .. Len(futures) : futures'[i].call \in Calls
    BY <1>0, <1>5 DEF RefInv
  <2>2. futures'[k].call \in Calls
    BY <1>2, <1>5, <1>8, <1>f
  <2>. QED
    BY <1>5, <1>6, <2>1, <2>2
<1>11. FutureInv'
  <2>1. ASSUME NEW i \in 1 .. k
        PROVE  /\ futures'[i].call = First + i - 1
               /\ \/ futures'[i].mqs = Asked(log[futures'[i].call])
                  \/ /\ futures'[i].mqs = {} /\ cleared'
                     /\ \A w \in Ranks : ~Got(futures'[i].call, w)
    <3>1. CASE i = k
      <4>1. futures'[i].call = Len(log) /\ futures'[i].mqs = IF cleared THEN {} ELSE Asked(engine.method)
        BY <1>5, <1>f, <3>1
      <4>. QED
        BY <1>1, <1>7, <1>9, <3>1, <4>1, FlagsKept
    <3>2. CASE i \in 1 .. Len(futures)
      <4>1. futures'[i] = futures[i]
        BY <1>5, <3>2
      <4>2. /\ futures[i].call = First + i - 1
            /\ \/ futures[i].mqs = Asked(log[futures[i].call])
               \/ /\ futures[i].mqs = {} /\ cleared'
                  /\ \A w \in Ranks : ~Got(futures[i].call, w)
        BY <1>0, <3>2, FlagsKept DEF FutureInv
      <4>. QED
        BY <4>1, <4>2
    <3>. QED
      BY <1>6, <3>1, <3>2
  <2>2. ASSUME NEW n \in Calls, n > First \/ n > Len(log) PROVE \A w \in Ranks : ~Got(n, w)
    BY <1>0, <1>2, <1>8, <2>2 DEF FutureInv
  <2>3. \A n \in Calls : Done(result[n]) <=> n < First
    BY <1>0 DEF FutureInv
  <2>4. \A i \in 1 .. Len(futures') :
           /\ futures'[i].call = First + i - 1
           /\ \/ futures'[i].mqs = Asked(log[futures'[i].call])
              \/ /\ futures'[i].mqs = {} /\ cleared'
                 /\ \A w \in Ranks : ~Got(futures[i].call, w)'
    <3>. SUFFICES ASSUME NEW i \in 1 .. k
                  PROVE  /\ futures'[i].call = First + i - 1
                         /\ \/ futures'[i].mqs = Asked(log[futures'[i].call])
                            \/ /\ futures'[i].mqs = {} /\ cleared'
                               /\ \A w \in Ranks : ~Got(futures[i].call, w)'
      BY <1>5
    <3>1. PICK c : c = futures'[i].call
      OBVIOUS
    <3>2. \A w \in Ranks : Got(futures[i].call, w)' <=> Got(c, w)
      BY <1>8, <3>1 DEF Got
    <3>. QED
      BY <2>1, <3>1, <3>2
  <2>. QED
    BY <1>1, <1>5, <1>7, <1>8, <2>2, <2>3, <2>4 DEF FutureInv
<1>. QED
    BY <1>1, <1>2, <1>10, <1>11

\* The batch joins the queue.
LEMMA AddBatchInv ==
    ASSUME Inv, [Next]_vars, Live, engine.pc = "lookup",
           UNCHANGED <<log, result, applied>>,
           futures' = Append(futures, [call |-> Len(log), mqs |-> IF cleared THEN {}
                                                                 ELSE Asked(engine.method)]),
           NEW batch \in InFlight, AddBatch(batch), batch.fut = Len(log),
           \/ engine.method = "execute_empty" /\ batch.exec = Len(log)
           \/ engine.method = "sample_tokens" /\ batch.exec = engine.exec
    PROVE  RefInv' /\ ValueInv' /\ LiveInv'
<1>0. EngineOK /\ StepInv /\ BatchInv /\ UsedInv /\ RefInv
    BY DEF Inv, LiveInv
<1>1. /\ batch_queue' = Append(batch_queue, batch)
      /\ \/ engine' = Idle /\ (engine.deferred \/ Len(batch_queue') < BatchQueueSize)
         \/ engine' = [Idle EXCEPT !.pc = "pop"]
  <2>1. CASE engine.deferred \/ Len(batch_queue') < BatchQueueSize
    BY <2>1 DEF AddBatch
  <2>2. CASE ~(engine.deferred \/ Len(batch_queue') < BatchQueueSize)
    BY <2>2 DEF AddBatch
  <2>. QED
    BY <2>1, <2>2
<1>2. /\ engine'.pc \in {"loop", "pop"} /\ ~engine'.deferred
      /\ engine'.pc = "loop" =>
            engine' = Idle /\ (engine.deferred \/ Len(batch_queue') < BatchQueueSize)
  <2>1. /\ Idle.pc = "loop" /\ ~Idle.deferred
        /\ [Idle EXCEPT !.pc = "pop"].pc = "pop" /\ ~[Idle EXCEPT !.pc = "pop"].deferred
    BY DEF Idle
  <2>. QED
    BY <1>1, <2>1
<1>3. /\ Registered = Len(log) - 1 /\ Registered' = Len(log) /\ Len(log) \in Nat \ {0}
      /\ Len(log) \in 1 .. Len(log)
      /\ \A n \in 1 .. Len(log) : n # Len(log) => n \in 1 .. Registered
      /\ \A n \in 1 .. Registered : n \in 1 .. Len(log) /\ n < Len(log)
      /\ FutureInv' /\ \A i \in 1 .. Len(futures') : futures'[i].call \in Calls
    BY <1>2, LookupFrame
<1>4. PICK k : k = Len(batch_queue) + 1
    OBVIOUS
<1>5. /\ Len(batch_queue) \in Nat /\ Len(batch_queue') = k /\ batch_queue'[k] = batch
      /\ batch_queue' # <<>>
      /\ \A i \in 1 .. Len(batch_queue) : batch_queue'[i] = batch_queue[i]
  <2>1. batch_queue \in Seq(InFlight) /\ Len(batch_queue) \in Nat /\ batch \in InFlight
    BY <1>0, SeqLen DEF EngineOK
  <2>2. /\ Len(Append(batch_queue, batch)) = Len(batch_queue) + 1
        /\ Append(batch_queue, batch)[Len(batch_queue) + 1] = batch
        /\ Append(batch_queue, batch) # <<>>
        /\ \A i \in 1 .. Len(batch_queue) : Append(batch_queue, batch)[i] = batch_queue[i]
    BY ONLY <2>1, SMT
  <2>. QED
    BY <1>1, <1>4, <2>1, <2>2
<1>6. /\ \A i \in 1 .. k : i = k \/ i \in 1 .. Len(batch_queue)
      /\ \A i \in 1 .. Len(batch_queue) : i \in 1 .. k
      /\ \A i, j \in 1 .. k : i < j => i \in 1 .. Len(batch_queue)
      /\ k \in 1 .. k
    BY <1>4, <1>5, SMT
<1>7. /\ Calls' = Calls /\ Calls = 1 .. Len(log) /\ ValueInv' /\ \A n : Own(n)' <=> Own(n)
    BY Frame DEF Calls
<1>8. /\ log[Len(log)] = engine.method /\ Room
      /\ batch.exec \in 1 .. Len(log)
  <2>1. log[Len(log)] = engine.method /\ Room
    BY <1>0 DEF StepInv, Calling, Utility
  <2>2. engine.method = "sample_tokens" => engine.exec \in 1 .. Registered
    BY <1>0 DEF StepInv, Calling, Utility
  <2>. QED
    BY <1>3, <2>1, <2>2
<1>9. StepInv'
  <2>1. /\ engine'.pc = "loop" => Len(batch_queue') < BatchQueueSize
        /\ Len(batch_queue') <= BatchQueueSize
    <3>1. /\ engine.deferred => Len(batch_queue) + 1 < BatchQueueSize
          /\ Len(batch_queue) < BatchQueueSize
      BY <1>5, <1>8, Sizes, SMT DEF Room
    <3>. QED
      BY <1>2, <1>4, <1>5, <3>1, Sizes, SMT
  <2>2. engine'.pc = "loop" => Room'
    BY <1>2, <1>4, <1>5, <2>1, SMT DEF Room
  <2>. QED
    BY <1>2, <1>5, <2>1, <2>2 DEF StepInv, Calling
<1>10. BatchInv'
  <2>1. ASSUME NEW i \in 1 .. k
        PROVE  /\ batch_queue'[i].fut \in 1 .. Len(log) /\ batch_queue'[i].exec \in 1 .. Len(log)
               /\ log[batch_queue'[i].fut] \in Batches
    <3>1. CASE i = k
      BY <1>3, <1>5, <1>8, <3>1 DEF Batches
    <3>2. CASE i \in 1 .. Len(batch_queue)
      BY <1>0, <1>3, <1>5, <3>2 DEF BatchInv
    <3>. QED
      BY <1>6, <3>1, <3>2
  <2>2. ASSUME NEW i \in 1 .. k, NEW j \in 1 .. k, i < j
        PROVE  batch_queue'[i].fut < batch_queue'[j].fut
    <3>0. i \in 1 .. Len(batch_queue) /\ batch_queue'[i] = batch_queue[i]
      BY <1>5, <1>6, <2>2
    <3>1. CASE j = k
      BY <1>0, <1>3, <1>5, <3>0, <3>1 DEF BatchInv
    <3>2. CASE j \in 1 .. Len(batch_queue)
      BY <1>0, <1>5, <2>2, <3>0, <3>2 DEF BatchInv
    <3>. QED
      BY <1>6, <3>1, <3>2
  <2>. QED
    BY <1>3, <1>5, <2>1, <2>2 DEF BatchInv
<1>11. UsedInv'
  <2>1. ASSUME NEW n \in 1 .. Len(log), log[n] \in Batches, ~Own(n)
        PROVE  \E i \in 1 .. k : batch_queue'[i].fut = n
    <3>1. CASE n = Len(log)
      BY <1>5, <1>6, <3>1
    <3>2. CASE n # Len(log)
      <4>1. PICK i \in 1 .. Len(batch_queue) : batch_queue[i].fut = n
        BY <1>0, <1>3, <2>1, <3>2 DEF UsedInv
      <4>. QED
        BY <1>5, <1>6, <4>1
    <3>. QED
      BY <3>1, <3>2
  <2>2. ASSUME NEW n \in 1 .. Len(log), log[n] = "take_draft_token_ids" PROVE Own(n)
    <3>1. n # Len(log)
      BY <1>8, <2>2
    <3>. QED
      BY <1>0, <1>3, <2>2, <3>1 DEF UsedInv
  <2>. QED
    BY <1>3, <1>5, <1>7, <2>1, <2>2 DEF UsedInv
<1>12. RefInv'
  <2>1. ASSUME NEW i \in 1 .. k
        PROVE  {batch_queue'[i].fut, batch_queue'[i].exec} \subseteq Calls
    <3>1. CASE i = k
      BY <1>3, <1>5, <1>7, <1>8, <3>1
    <3>2. CASE i \in 1 .. Len(batch_queue)
      BY <1>0, <1>5, <3>2 DEF RefInv
    <3>. QED
      BY <1>6, <3>1, <3>2
  <2>. QED
    BY <1>0, <1>3, <1>5, <1>7, <2>1 DEF RefInv
<1>. QED
    BY <1>3, <1>7, <1>9, <1>10, <1>11, <1>12 DEF LiveInv

\* The queues of the call are looked up.
LEMMA LookupInv ==
    ASSUME Inv, [Next]_vars, Lookup
    PROVE  RefInv' /\ ValueInv' /\ LiveInv'
<1>0. /\ engine.pc = "lookup" /\ Live /\ EngineOK /\ StepInv /\ BatchInv /\ UsedInv /\ RefInv
      /\ UNCHANGED <<log, applied>>
    BY DEF Inv, LiveInv, Live, Lookup
<1>. DEFINE future == [call |-> Len(log), mqs |-> IF cleared THEN {} ELSE Asked(engine.method)]
<1>1. CASE engine.method \notin ToAll /\ Raise
  <2>1. engine' = Dead /\ UNCHANGED <<result, futures, batch_queue>>
    BY <1>1 DEF Raise, ToAll
  <2>. QED
    BY <1>0, <2>1, DeadInv
<1>2. ASSUME futures' = Append(futures, future), result' = result, batch_queue' = batch_queue,
             engine'.pc \in {"check", "pop", "drain"}, StepInv',
             engine.method \notin Batches,
             engine.method = "take_draft_token_ids" => engine'.pc = "drain" /\ engine'.wait = Len(log)
      PROVE  RefInv' /\ ValueInv' /\ LiveInv'
  <2>1. /\ Registered = Len(log) - 1 /\ Registered' = Len(log)
        /\ \A n \in 1 .. Len(log) : n # Len(log) => n \in 1 .. Registered
        /\ \A n \in 1 .. Registered : n \in 1 .. Len(log)
        /\ FutureInv' /\ \A i \in 1 .. Len(futures') : futures'[i].call \in Calls
    BY <1>0, <1>2, LookupFrame
  <2>2. Calls' = Calls /\ ValueInv' /\ \A n : Own(n)' <=> Own(n)
    BY <1>0, <1>2, Frame
  <2>3. log[Len(log)] = engine.method
    BY <1>0 DEF StepInv
  <2>4. BatchInv'
    BY <1>0, <1>2, <2>1 DEF BatchInv
  <2>5. UsedInv'
    <3>. SUFFICES ASSUME NEW n \in 1 .. Len(log)
                  PROVE  /\ log[n] \in Batches =>
                               Own(n) \/ \E i \in 1 .. Len(batch_queue) : batch_queue[i].fut = n
                         /\ log[n] = "take_draft_token_ids" =>
                               Own(n) \/ (engine'.pc = "drain" /\ engine'.wait = n)
      BY <1>0, <1>2, <2>1, <2>2 DEF UsedInv
    <3>1. CASE n = Len(log)
      BY <1>2, <2>3, <3>1
    <3>2. CASE n # Len(log)
      BY <1>0, <2>1, <3>2 DEF UsedInv
    <3>. QED
      BY <3>1, <3>2
  <2>6. RefInv'
    BY <1>0, <1>2, <2>1, <2>2 DEF RefInv
  <2>. QED
    BY <1>2, <2>1, <2>2, <2>4, <2>5, <2>6 DEF LiveInv
<1>3. /\ Len(log) \in Nat \ {0} /\ Len(log) > 0 /\ Len(log) \in 1 .. Len(log)
      /\ Registered = Len(log) - 1 /\ \A n \in 1 .. Registered : n \in 1 .. Len(log)
      /\ Len(batch_queue) \in Nat /\ log[Len(log)] = engine.method
      /\ \A n \in Nat : n < BatchQueueSize => n <= BatchQueueSize
  <2>1. /\ Len(log) \in Nat /\ Len(log) > 0 /\ log[Len(log)] = engine.method
        /\ Len(batch_queue) \in Nat /\ Registered = Len(log) - 1 /\ BatchQueueSize \in Nat
    BY <1>0, Numbers, Sizes DEF StepInv, Registered
  <2>. QED
    BY <2>1, SMT
<1>4. engine'.pc # "lookup" /\ log' = log => Registered' = Len(log)
    BY DEF Registered
<1>5. CASE /\ futures' = Append(futures, future) /\ result' = result /\ batch_queue' = batch_queue
           /\ engine.method = "execute_model"
           /\ engine' = IF engine.deferred THEN [engine EXCEPT !.pc = "pop", !.exec = Len(log)]
                        ELSE [Call("sample_tokens") EXCEPT !.exec = Len(log)]
  <2>0. /\ Len(batch_queue) < BatchQueueSize
        /\ engine.deferred => batch_queue # <<>>
    BY <1>0, <1>5 DEF StepInv, Calling, Utility
  <2>1. CASE engine.deferred
    <3>1. engine'.pc = "pop" /\ engine'.exec = Len(log)
      BY <1>0, <1>5, <2>1 DEF EngineOK, Engine
    <3>2. StepInv'
      BY <1>0, <1>3, <1>4, <1>5, <2>0, <2>1, <3>1 DEF StepInv, Calling
    <3>. QED
      BY <1>2, <1>5, <3>1, <3>2 DEF Batches
  <2>2. CASE ~engine.deferred
    <3>1. /\ engine'.pc = "check" /\ engine'.exec = Len(log) /\ engine'.method = "sample_tokens"
          /\ engine'.deferred = FALSE
      BY <1>0, <1>5, <2>2 DEF EngineOK, Engine, Call
    <3>2. Room'
      <4>1. batch_queue' = batch_queue /\ Len(batch_queue) \in Nat
        BY <1>3, <1>5
      <4>. QED
        BY <2>0, <3>1, <4>1, SMT DEF Room
    <3>3. StepInv'
      BY <1>0, <1>3, <1>4, <3>1, <3>2 DEF StepInv, Calling
    <3>. QED
      BY <1>2, <1>5, <3>1, <3>3 DEF Batches
  <2>. QED
    BY <2>1, <2>2
<1>6. CASE /\ futures' = Append(futures, future) /\ result' = result /\ batch_queue' = batch_queue
           /\ engine.method \in Utility \cup {"take_draft_token_ids"}
           /\ engine' = [engine EXCEPT !.pc = "drain", !.wait = Len(log)]
  <2>1. /\ engine'.pc = "drain" /\ engine'.wait = Len(log) /\ engine'.exec = engine.exec
        /\ engine'.deferred = engine.deferred
    BY <1>0, <1>6 DEF EngineOK, Engine
  <2>2. /\ engine.method \notin Batches /\ engine.method # "execute_model"
        /\ engine.method # "sample_tokens" /\ engine.method # "execute_empty"
        /\ engine.method \in Utility => engine.method # "take_draft_token_ids"
    BY <1>6 DEF Utility, Batches
  <2>3. /\ Room
        /\ engine.method \in Utility => ~engine.deferred
        /\ engine.method = "take_draft_token_ids" => engine.deferred /\ engine.exec \in 1 .. Registered
    BY <1>0, <1>6, <2>2 DEF StepInv, Calling
  <2>4. Room'
    BY <1>6, <2>1, <2>3 DEF Room
  <2>5. StepInv'
    BY <1>0, <1>3, <1>4, <1>6, <2>1, <2>3, <2>4 DEF StepInv, Calling
  <2>. QED
    BY <1>2, <1>6, <2>1, <2>2, <2>5
<1>7. CASE /\ futures' = Append(futures, future) /\ result' = result
           /\ \/ engine.method = "execute_empty" /\ AddBatch([fut |-> Len(log), exec |-> Len(log)])
              \/ engine.method = "sample_tokens" /\ AddBatch([fut |-> Len(log), exec |-> engine.exec])
  <2>1. /\ [fut |-> Len(log), exec |-> Len(log)] \in InFlight
        /\ [fut |-> Len(log), exec |-> engine.exec] \in InFlight
    BY <1>0, <1>3 DEF InFlight, EngineOK, Engine
  <2>2. \E batch \in InFlight :
           /\ AddBatch(batch) /\ batch.fut = Len(log)
           /\ \/ engine.method = "execute_empty" /\ batch.exec = Len(log)
              \/ engine.method = "sample_tokens" /\ batch.exec = engine.exec
    BY <1>7, <2>1
  <2>. QED
    BY <1>0, <1>7, <2>2, AddBatchInv
<1>. QED
    BY <1>1, <1>5, <1>6, <1>7 DEF Lookup

-----------------------------------------------------------------------------
(* A future is resolved.                                                   *)

\* The oldest future receives an answer, or is resolved.
LEMMA SettleInv ==
    ASSUME Inv, [Next]_vars, Draining, UNCHANGED <<log, batch_queue, engine, applied>>,
           NEW state \in States, NEW answers \in Partial, Settle(Outcome(state, answers)),
           \A w \in Ranks : Got(First, w) => w \in DOMAIN answers /\ answers[w] = From(First, w),
           state = "value" => \/ DOMAIN answers = Asked(log[First])
                              \/ is_failed' /\ DOMAIN answers = {},
           state = "pending" => Head(futures).mqs = Asked(log[First])
    PROVE  RefInv' /\ ValueInv' /\ LiveInv'
<1>1. PICK n : n = First
    OBVIOUS
<1>2. /\ n \in Calls /\ ~Done(result[n]) /\ Live /\ Registered = Len(log)
      /\ Head(futures) = futures[1] /\ futures # <<>>
      /\ EngineOK /\ StepInv /\ FutureInv /\ BatchInv /\ UsedInv /\ RefInv /\ ValueInv
    BY <1>1, HeadFuture DEF Inv, LiveInv
<1>3. /\ result'[n].state = state /\ result'[n].answers = answers
      /\ \A m \in Calls : m # n => result'[m] = result[m]
      /\ state = "pending" => futures' = futures
      /\ state # "pending" => futures' = Tail(futures) /\ Len(futures') = Len(futures) - 1
    BY <1>1, SettleFacts
<1>4. /\ Calls' = Calls /\ Registered' = Registered /\ (Live' <=> Live)
    BY DEF Calls, Registered, Live
<1>5. /\ \A m \in Calls, w \in Ranks : m # n => (Got(m, w)' <=> Got(m, w)) /\ From(m, w)' = From(m, w)
      /\ \A w \in Ranks : Got(n, w)' <=> w \in DOMAIN answers
      /\ \A w \in Ranks : Got(n, w) => Got(n, w)' /\ From(n, w)' = From(n, w)
    BY <1>1, <1>3 DEF Got, From
<1>6. \A m \in Calls : Own(m) => Own(m)'
  <2>. SUFFICES ASSUME NEW m \in Calls, Own(m) PROVE Own(m)'
    OBVIOUS
  <2>1. ASSUME NEW w \in Asked(log[m]) PROVE Got(m, w)' /\ From(m, w)'.call = m
    <3>1. w \in Ranks /\ Got(m, w) /\ From(m, w).call = m
      BY Sizes DEF Own
    <3>. QED
      BY <1>5, <3>1
  <2>. QED
    BY <2>1 DEF Own
<1>7. ValueInv'
  <2>. SUFFICES ASSUME NEW m \in Calls, result'[m].state = "value"
                PROVE  \/ \A w \in Ranks : Got(m, w)' <=> w \in Asked(log[m])
                       \/ is_failed' /\ \A w \in Ranks : ~Got(m, w)'
    BY <1>4 DEF ValueInv
  <2>1. CASE m = n
    BY <1>1, <1>3, <1>5, <2>1
  <2>2. CASE m # n
    BY <1>2, <1>3, <1>5, <2>2, FlagsKept DEF ValueInv
  <2>. QED
    BY <2>1, <2>2
<1>8. StepInv'
    BY <1>2, <1>4 DEF StepInv, Calling, Room
<1>9. BatchInv'
    BY <1>2, <1>4 DEF BatchInv
<1>10. UsedInv'
  <2>1. \A m \in 1 .. Registered : m \in Calls
    BY <1>2 DEF Calls
  <2>. QED
    BY <1>2, <1>4, <1>6, <2>1 DEF UsedInv
<1>11. /\ Len(log) \in Nat /\ Len(futures) \in Nat /\ n = Len(log) - Len(futures) + 1
       /\ Len(futures) <= Len(log) /\ \A m \in Calls : m \in Nat
    BY <1>1, <1>2, Numbers DEF First, FutureInv
<1>12. \A i \in 1 .. Len(futures) :
          /\ futures[i].call = n + i - 1 /\ futures[i].call \in Calls
          /\ \/ futures[i].mqs = Asked(log[futures[i].call])
             \/ /\ futures[i].mqs = {} /\ cleared
                /\ \A w \in Ranks : ~Got(futures[i].call, w)
    BY <1>1, <1>2 DEF FutureInv, RefInv
<1>13. CASE state = "pending"
  <2>1. First' = n /\ futures' = futures /\ futures[1].mqs = Asked(log[n])
    BY <1>1, <1>2, <1>3, <1>4, <1>13 DEF First
  <2>2. \A m \in Calls : Done(result'[m]) <=> m < n
    <3>1. Done(result'[n]) <=> Done(result[n])
      BY <1>2, <1>3, <1>13 DEF Done
    <3>2. \A m \in Calls : Done(result'[m]) <=> Done(result[m])
      BY <1>3, <3>1
    <3>3. \A m \in Calls : Done(result[m]) <=> m < n
      BY <1>1, <1>2 DEF FutureInv
    <3>. QED
      BY <3>2, <3>3
  <2>3. ASSUME NEW m \in Calls, m > n \/ m > Registered PROVE \A w \in Ranks : ~Got(m, w)'
    <3>1. m # n
      BY <1>2, <1>11, <2>3, SMT DEF Calls
    <3>. QED
      BY <1>1, <1>2, <1>5, <2>3, <3>1 DEF FutureInv
  <2>4. ASSUME NEW i \in 1 .. Len(futures)
        PROVE  /\ futures[i].call = n + i - 1
               /\ \/ futures[i].mqs = Asked(log[futures[i].call])
                  \/ /\ futures[i].mqs = {} /\ cleared'
                     /\ \A w \in Ranks : ~Got(futures[i].call, w)'
    <3>1. CASE i = 1
      <4>1. n + 1 - 1 = n
        BY <1>11, SMT
      <4>. QED
        BY <1>12, <2>1, <3>1, <4>1
    <3>2. CASE i # 1
      <4>1. PICK c : c = futures[i].call
        OBVIOUS
      <4>2. c # n
        BY <1>11, <1>12, <3>2, <4>1, SMT
      <4>3. \A w \in Ranks : Got(futures[i].call, w)' <=> Got(c, w)'
        BY <2>1, <4>1 DEF Got
      <4>. QED
        BY <1>5, <1>12, <4>1, <4>2, <4>3, FlagsKept
    <3>. QED
      BY <3>1, <3>2
  <2>5. FutureInv'
    BY <1>2, <1>4, <2>1, <2>2, <2>3, <2>4 DEF FutureInv
  <2>6. RefInv'
    BY <1>2, <1>4, <2>1 DEF RefInv
  <2>. QED
    BY <1>4, <1>7, <1>8, <1>9, <1>10, <2>5, <2>6 DEF LiveInv
<1>14. CASE state # "pending"
  <2>0. futures' = Tail(futures) /\ Len(futures') = Len(futures) - 1
    BY <1>3, <1>14
  <2>1. /\ First' = n + 1 /\ Len(futures') <= Len(log)
        /\ \A m \in Calls : m < n + 1 <=> m < n \/ m = n
        /\ \A m \in Calls : m > n + 1 => m > n /\ m # n
        /\ \A m \in Calls : ~(m > Registered)
    <3>1. First' = Registered - Len(futures') + 1
      BY <1>4 DEF First
    <3>2. First' = n + 1 /\ Len(futures') <= Len(log)
      BY <1>2, <1>11, <2>0, <3>1, SMT
    <3>3. \A m \in Calls : ~(m > Registered)
      BY <1>2, <1>11, SMT DEF Calls
    <3>4. n \in Nat
      BY <1>2, <1>11
    <3>. QED
      BY <1>11, <3>2, <3>3, <3>4, SMT
  <2>2. \A i \in 1 .. Len(futures') : futures'[i] = futures[i + 1] /\ i + 1 \in 1 .. Len(futures)
    <3>1. \A i \in 1 .. Len(futures') : futures'[i] = futures[i + 1]
      BY <1>2, <2>0, SeqTail DEF EngineOK
    <3>. QED
      BY <1>11, <2>0, <3>1, SMT
  <2>3. \A m \in Calls : Done(result'[m]) <=> m < n + 1
    <3>1. ASSUME NEW m \in Calls, m # n PROVE Done(result'[m]) <=> m < n + 1
      BY <1>1, <1>2, <1>3, <2>1, <3>1 DEF FutureInv
    <3>2. Done(result'[n]) /\ n < n + 1
      BY <1>2, <1>3, <1>14, <2>1 DEF Done
    <3>. QED
      BY <3>1, <3>2
  <2>4. ASSUME NEW m \in Calls, m > n + 1 \/ m > Registered PROVE \A w \in Ranks : ~Got(m, w)'
    BY <1>1, <1>2, <1>5, <2>1, <2>4 DEF FutureInv
  <2>5. ASSUME NEW i \in 1 .. Len(futures')
        PROVE  /\ futures'[i].call = (n + 1) + i - 1 /\ futures'[i].call \in Calls
               /\ \/ futures'[i].mqs = Asked(log[futures'[i].call])
                  \/ /\ futures'[i].mqs = {} /\ cleared'
                     /\ \A w \in Ranks : ~Got(futures[i].call, w)'
    <3>1. PICK f, c, j : f = futures'[i] /\ c = f.call /\ j = i + 1
      OBVIOUS
    <3>2. f = futures[j] /\ j \in 1 .. Len(futures)
      BY <2>2, <3>1
    <3>3. /\ c = n + j - 1 /\ c \in Calls
          /\ \/ f.mqs = Asked(log[c])
             \/ f.mqs = {} /\ cleared /\ \A w \in Ranks : ~Got(c, w)
      BY <1>12, <3>1, <3>2
    <3>4. c # n /\ c = (n + 1) + i - 1
      <4>1. n \in Nat /\ i \in Nat /\ i >= 1
        BY <1>2, <1>11, <2>0, SMT
      <4>. QED
        BY <3>1, <3>3, <4>1, SMT
    <3>5. \A w \in Ranks : Got(futures[i].call, w)' <=> Got(c, w)'
      BY <3>1 DEF Got
    <3>. QED
      BY <1>5, <3>1, <3>3, <3>4, <3>5, FlagsKept
  <2>6. FutureInv'
    BY <1>2, <1>4, <2>1, <2>3, <2>4, <2>5 DEF FutureInv
  <2>7. RefInv'
    BY <1>2, <1>4, <2>5 DEF RefInv
  <2>. QED
    BY <1>4, <1>7, <1>8, <1>9, <1>10, <2>6, <2>7 DEF LiveInv
<1>. QED
    BY <1>13, <1>14

\* The engine thread takes an answer, or gives up waiting for it.
LEMMA DequeueInv ==
    ASSUME Inv, [Next]_vars, Dequeue \/ DequeueRaises
    PROVE  RefInv' /\ ValueInv' /\ LiveInv'
<1>0. Draining /\ UNCHANGED <<log, batch_queue, engine, applied>>
    BY DequeueFacts, RaisesFacts
<1>1. /\ Current = First /\ Answers = result[First].answers /\ Answers \in Partial
      /\ \A w : Got(First, w) => w \in DOMAIN Answers /\ Answers[w] = From(First, w)
    BY <1>0, HeadFuture DEF Answers, Got, From
<1>2. CASE cleared /\ Settle(Outcome("value", NoAnswers)) /\ \A w \in Ranks : ~Got(First, w)
  <2>1. is_failed'
    BY <1>2, FlagsKept DEF Inv, FlagsOK
  <2>. QED
    BY <1>0, <1>2, <2>1, PartialFacts, SettleInv DEF States
<1>3. ASSUME NEW w \in Ranks, ~Got(First, w), Head(futures).mqs = Asked(log[First]),
             Added(w) \in Partial, NEW state \in {"failure", "value", "pending"},
             Settle(Outcome(state, Added(w))),
             state = "value" => DOMAIN Added(w) = Asked(log[First])
      PROVE  RefInv' /\ ValueInv' /\ LiveInv'
  <2>1. \A v \in Ranks : Got(First, v) => v \in DOMAIN Added(w) /\ Added(w)[v] = From(First, v)
    BY <1>1, <1>3 DEF Added
  <2>. QED
    BY <1>0, <1>3, <2>1, SettleInv DEF States
<1>4. ASSUME NEW state \in {"cancelled", "timeout"}, Settle(Outcome(state, Answers))
      PROVE  RefInv' /\ ValueInv' /\ LiveInv'
    BY <1>0, <1>1, <1>4, SettleInv DEF States
<1>. QED
    BY <1>2, <1>3, <1>4, DequeueFacts, RaisesFacts

-----------------------------------------------------------------------------
(* The invariant holds.                                                    *)

\* The initial state.
LEMMA InvInit == Init => Inv
<1>. SUFFICES ASSUME Init PROVE Inv
    OBVIOUS
<1>1. EngineOK
  <2>1. /\ log = <<>> /\ result = <<>> /\ futures = <<>> /\ batch_queue = <<>> /\ engine = Idle
    BY DEF Init
  <2>2. Idle \in Engine
    BY DEF Engine, Idle, Pcs, Methods, Utility
  <2>. QED
    BY <2>1, <2>2, SMT DEF EngineOK
<1>2. Len(log) = 0 /\ Calls = {} /\ Len(futures) = 0 /\ Len(batch_queue) = 0
    BY SMT DEF Init, Calls
<1>3. WorkerOK
    BY <1>2, SMT DEF WorkerOK, Init
<1>4. FlagsOK
    BY DEF FlagsOK, Init
<1>5. \A w \in Ranks : Stream(w) = <<>> /\ Len(Stream(w)) = 0
    BY SMT DEF Init, Stream
<1>6. \A w \in Ranks : RankInv(w)
  <2>1. \A w \in Ranks : StreamInv(w)
    BY <1>5, SMT DEF StreamInv
  <2>. QED
    BY <1>2, <2>1 DEF RankInv, ReceivedInv, OrderInv, CoverInv
<1>7. 1 .. Len(futures) = {} /\ 1 .. Len(batch_queue) = {}
    BY <1>2, SMT
<1>8. RefInv /\ ValueInv
    BY <1>2, <1>7 DEF RefInv, ValueInv, Init
<1>9. Registered = 0 /\ 1 .. Registered = {} /\ First = 1 /\ engine = Idle /\ engine.pc = "loop"
  <2>1. engine = Idle /\ engine.pc = "loop"
    BY DEF Init, Idle
  <2>. QED
    BY <1>2, <2>1, SMT DEF Registered, First
<1>10. StepInv
  <2>1. Room
    BY <1>2, <1>9, Sizes, SMT DEF Room, Idle
  <2>. QED
    BY <1>9, <2>1 DEF StepInv, Calling
<1>11. FutureInv
  <2>1. Len(futures) <= Registered
    BY <1>2, <1>9, SMT
  <2>. QED
    BY <1>2, <1>7, <2>1 DEF FutureInv
<1>12. BatchInv /\ UsedInv
    BY <1>7, <1>9 DEF BatchInv, UsedInv
<1>. QED
    BY <1>1, <1>3, <1>4, <1>6, <1>8, <1>10, <1>11, <1>12 DEF Inv, LiveInv

\* Every step keeps the invariant.
LEMMA InvStep == Inv /\ [Next]_vars => Inv'
<1>. SUFFICES ASSUME Inv, [Next]_vars PROVE Inv'
    OBVIOUS
<1>1. RefInv' /\ ValueInv' /\ LiveInv'
  <2>1. CASE EngineOnly
    <3>1. CASE ExecutorFailed
      BY <3>1, DeadInv DEF ExecutorFailed
    <3>. QED
      BY <2>1, <3>1, LoopInv, CheckInv, WriteInv, LookupInv, PopInv, DequeueInv, ReturnInv,
         BatchReturnsInv DEF EngineOnly
  <2>2. EngineShutdown => UNCHANGED evars
    BY DEF EngineShutdown
  <2>. QED
    BY <2>1, <2>2, OthersInv, DequeueInv, StepKinds
<1>. QED
    BY <1>1, EngineType, WorkerType, FlagsType, RankStep DEF Inv

\* The invariant is strong enough.
LEMMA InvOutputs == Inv => OutputsApplied
<1>. SUFFICES ASSUME Inv PROVE OutputsApplied
    OBVIOUS
<1>0. /\ EngineOK /\ WorkerOK /\ FlagsOK /\ RefInv /\ ValueInv /\ LiveInv
      /\ \A w \in Ranks : RankInv(w)
    BY DEF Inv
<1>1. TypeOK
  <2>1. engine.pc = "loop" => Len(batch_queue) < BatchQueueSize
    <3>. SUFFICES ASSUME engine.pc = "loop" PROVE Len(batch_queue) < BatchQueueSize
      OBVIOUS
    <3>1. engine = Idle /\ Room
      BY <1>0 DEF LiveInv, Live, StepInv
    <3>. QED
      BY <1>0, <3>1, Numbers, SMT DEF Room, Idle
  <2>2. /\ log \in Seq(Methods) /\ Len(result) = Len(log) /\ engine.pc \in Pcs
        /\ \A n \in Calls : result[n].state \in States
    BY <1>0, Elements DEF EngineOK, Engine
  <2>3. DOMAIN futures = 1 .. Len(futures) /\ DOMAIN batch_queue = 1 .. Len(batch_queue)
    BY <1>0, SeqLen DEF EngineOK
  <2>. QED
    BY <1>0, <2>1, <2>2, <2>3 DEF TypeOK, RefInv, WorkerOK, FlagsOK, Pcs, States
<1>2. UtilityAnswers
  <2>. SUFFICES ASSUME NEW n \in Calls, log[n] \in Utility, result[n].state = "value"
                PROVE  \/ /\ DOMAIN result[n].answers = Ranks
                          /\ \A w \in Ranks : \/ result[n].answers[w].call = n
                                              \/ \E m \in 1 .. n - 1 : Missed(m, w)
                       \/ is_failed /\ DOMAIN result[n].answers = {}
    BY DEF UtilityAnswers
  <2>1. Asked(log[n]) = Ranks /\ DOMAIN result[n].answers \subseteq Ranks
    BY <1>0, Sizes, Elements, PartialFacts
  <2>2. CASE \A w \in Ranks : Got(n, w) <=> w \in Asked(log[n])
    <3>1. DOMAIN result[n].answers = Ranks /\ \A w \in Ranks : Got(n, w)
      BY <2>1, <2>2 DEF Got
    <3>2. \A w \in Ranks : \/ result[n].answers[w].call = n
                           \/ \E m \in 1 .. n - 1 : Missed(m, w)
      BY <1>0, <3>1 DEF RankInv, ReceivedInv, From
    <3>. QED
      BY <3>1, <3>2
  <2>3. CASE is_failed /\ \A w \in Ranks : ~Got(n, w)
    BY <2>1, <2>3 DEF Got
  <2>. QED
    BY <1>0, <2>2, <2>3 DEF ValueInv
<1>. QED
    BY <1>0, <1>1, <1>2 DEF OutputsApplied, RefInv

\* The inductive invariant holds for any number of workers, of calls and of
\* failures, with or without an aggregator of the ranks' outputs.
THEOREM ExecutorInvariant == Spec => []Inv
<1>1. Init => Inv
    BY InvInit
<1>2. Inv /\ [Next]_vars => Inv'
    BY InvStep
<1>. QED
    BY <1>1, <1>2, PTL DEF Spec

\* Whatever times out, fails or dies in the executor and its workers: what a
\* step uses, the output that update_from_output is given or the draft tokens,
\* consists of the answers to its own call; and a utility call that returns a
\* list has one answer of each rank, the rank's answer to this call unless an
\* earlier answer of that rank was left in its queue.
THEOREM OutputSafety == Spec => []OutputsApplied
<1>1. Inv => OutputsApplied
    BY InvOutputs
<1>. QED
    BY <1>1, ExecutorInvariant, PTL
=============================================================================
