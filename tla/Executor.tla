------------------------------ MODULE Executor ------------------------------
(***************************************************************************)
(* MultiprocExecutor between the engine core's step_with_batch_queue and   *)
(* its worker processes: calls broadcast to every worker, answers that     *)
(* come back on one queue per worker, futures resolved in the order of the *)
(* calls, calls that fail, time out or lose their worker, and the thread   *)
(* that watches the workers.  The queues are the abstract ones that        *)
(* MessageQueue implements: whole objects, in order, a bounded ring.       *)
(* Every batch that runs the model is sampled from, and the workers'       *)
(* outputs go through the asynchronous output thread.  The queues are      *)
(* known by their ranks, and the answers to a call are a function of the   *)
(* ranks that gave them.                                                   *)
(***************************************************************************)
EXTENDS Integers, Sequences, FiniteSets

CONSTANTS
    World,              \* world_size
    OutputRank,         \* _get_output_rank()
    Aggregated,         \* kv_output_aggregator is not None
    BatchQueueSize,     \* max_concurrent_batches
    MaxChunks,          \* chunks of each message queue
    Fails,              \* pairs <<method, rank>> that may raise in a worker
    MaxCalls,           \* bound: no new batch or utility call after so many calls
    MaxTimeouts,        \* bound on the calls whose deadline passes
    MaxCrashes          \* bound on the workers that die by themselves

Ranks == 0 .. World - 1
Model == {"execute_model", "execute_empty", "sample_tokens"}
Utility == {"utility", "timed_utility"}
Methods == Model \cup Utility \cup {"take_draft_token_ids"}

\* The calls that have a deadline: those that run the model, check_health and
\* the utility calls for which a client has given one.
Timed == Model \cup {"timed_utility"}

\* The calls answered by every rank (output_rank is None).
ToAll == Utility \cup (IF Aggregated THEN Model ELSE {})
Asked(method) == IF method \in ToAll THEN Ranks ELSE {OutputRank}

ASSUME ExecutorAssumption ==
    /\ World \in Nat \ {0}
    /\ OutputRank \in Ranks
    /\ Aggregated \in BOOLEAN
    /\ BatchQueueSize \in Nat /\ BatchQueueSize > 1
    /\ MaxChunks \in Nat \ {0}
    /\ Fails \subseteq Methods \X Ranks

VARIABLES
    log,            \* the calls broadcast so far, in order
    result,         \* the future of each call and the answers it has received
    futures,        \* futures_queue, the oldest first
    batch_queue,    \* batches in flight, the oldest first
    engine,         \* the engine thread
    applied,        \* the last result used by a step: its call, and the calls
                    \* whose answers it is made of
    \* each worker
    alive, taken, finished, raised, ready, output_queue, responses,
    \* the executor's flags and the monitor thread
    is_failed, shutting_down, cancelled, cleared, monitor, callback

evars == <<log, result, futures, batch_queue, engine, applied>>
wvars == <<alive, taken, finished, raised, ready, output_queue, responses>>
mvars == <<is_failed, shutting_down, cancelled, cleared, monitor, callback>>
vars == <<log, result, futures, batch_queue, engine, applied,
          alive, taken, finished, raised, ready, output_queue, responses,
          is_failed, shutting_down, cancelled, cleared, monitor, callback>>

NoAnswers == [w \in {} |-> 0]
Outcome(state, answers) == [state |-> state, answers |-> answers]
Done(outcome) == outcome.state # "pending"

\* pc, the method being called, the call waited for, the execute_model call
\* of the batch in hand, and whether its sampling is deferred.
Idle == [pc |-> "loop", method |-> "utility", wait |-> 0, exec |-> 0, deferred |-> FALSE]
Dead == [Idle EXCEPT !.pc = "dead"]

Init ==
    /\ log = <<>> /\ result = <<>> /\ futures = <<>> /\ batch_queue = <<>>
    /\ engine = Idle
    /\ applied = [call |-> 0, of |-> {0}]
    /\ alive = [w \in Ranks |-> TRUE]
    /\ taken = [w \in Ranks |-> 0]
    /\ finished = [w \in Ranks |-> 0]
    /\ raised = [w \in Ranks |-> {}]
    /\ ready = [w \in Ranks |-> FALSE]
    /\ output_queue = [w \in Ranks |-> <<>>]
    /\ responses = [w \in Ranks |-> <<>>]
    /\ is_failed = FALSE /\ shutting_down = FALSE
    /\ cancelled = FALSE /\ cleared = FALSE
    /\ monitor = "watch" /\ callback = FALSE

-----------------------------------------------------------------------------
(* The engine thread, between calls.                                       *)

\* _process_input_queue finds EXECUTOR_FAILED before the next step.
ExecutorFailed ==
    /\ engine.pc = "loop"
    /\ callback
    /\ engine' = Dead
    /\ UNCHANGED <<log, result, futures, batch_queue, applied, wvars, mvars>>

AtLoop == engine.pc = "loop" /\ ~callback

Call(method) == [engine EXCEPT !.pc = "check", !.method = method]

UtilityCall ==
    /\ AtLoop
    /\ Len(log) < MaxCalls
    /\ \E method \in Utility : engine' = Call(method)
    /\ UNCHANGED <<log, result, futures, batch_queue, applied, wvars, mvars>>

\* The scheduler has requests; sampling is deferred when a grammar needs
\* the tokens of a batch that is still in flight.
Step ==
    /\ AtLoop
    /\ Len(log) < MaxCalls
    /\ \E empty, deferred \in BOOLEAN :
          /\ deferred => ~empty /\ batch_queue # <<>>
          /\ engine' = [Call(IF empty THEN "execute_empty" ELSE "execute_model")
                           EXCEPT !.deferred = deferred]
    /\ UNCHANGED <<log, result, futures, batch_queue, applied, wvars, mvars>>

\* The scheduler has none, but batches are in flight.
StepDrain ==
    /\ AtLoop
    /\ batch_queue # <<>>
    /\ engine' = [engine EXCEPT !.pc = "pop"]
    /\ UNCHANGED <<log, result, futures, batch_queue, applied, wvars, mvars>>

-----------------------------------------------------------------------------
(* collective_rpc.                                                         *)

\* A utility call that raises is answered with the error; an exception in a
\* step ends the engine.
Raise ==
    /\ engine' = IF engine.method \in Utility THEN Idle ELSE Dead
    /\ UNCHANGED <<result, futures, batch_queue>>

CheckFailed ==
    /\ engine.pc = "check"
    /\ \/ /\ cleared \/ is_failed
          /\ Raise
       \/ /\ ~cleared /\ ~is_failed
          /\ engine' = [engine EXCEPT !.pc = "enqueue"]
          /\ UNCHANGED <<result, futures, batch_queue>>
    /\ UNCHANGED <<log, applied, wvars, mvars>>

\* self.rpc_broadcast_mq is read before the wait for a chunk.
Enqueue ==
    /\ engine.pc = "enqueue"
    /\ \/ /\ cleared
          /\ Raise
       \/ /\ ~cleared
          /\ engine' = [engine EXCEPT !.pc = "write"]
          /\ UNCHANGED <<result, futures, batch_queue>>
    /\ UNCHANGED <<log, applied, wvars, mvars>>

\* acquire_write waits for the slowest worker, a dead one included.
RingFull == \E w \in Ranks : Len(log) - taken[w] >= MaxChunks

AcquireWrite ==
    /\ engine.pc = "write"
    /\ ~RingFull
    /\ log' = Append(log, engine.method)
    /\ result' = Append(result, Outcome("pending", NoAnswers))
    /\ engine' = [engine EXCEPT !.pc = "lookup"]
    /\ UNCHANGED <<futures, batch_queue, applied, wvars, mvars>>

\* What step_with_batch_queue does once the batch has its futures: it goes
\* on to wait for the oldest batch, unless there is room for another one.
AddBatch(batch) ==
    /\ batch_queue' = Append(batch_queue, batch)
    /\ LET room == /\ log[batch.fut] = "sample_tokens"
                   /\ Len(batch_queue') < BatchQueueSize
                   /\ ~Done(result[batch_queue'[1].fut])
       IN  engine' = IF engine.deferred \/ room THEN Idle
                     ELSE [Idle EXCEPT !.pc = "pop"]

\* self.response_mqs is read after the call has been sent: once it is empty,
\* there is no queue for a call to one rank, and none to wait for in a call
\* to all.  The futures of a batch are not waited for; the other calls block.
Lookup ==
    /\ engine.pc = "lookup"
    /\ \E n \in {Len(log)} :
       \/ /\ cleared /\ engine.method \notin ToAll
          /\ Raise
       \/ /\ ~cleared \/ engine.method \in ToAll
          /\ futures' = Append(futures, [call |-> n, mqs |-> IF cleared THEN {}
                                                            ELSE Asked(engine.method)])
          /\ result' = result
          /\ \/ /\ engine.method = "execute_model"
                /\ engine' = IF engine.deferred
                             THEN [engine EXCEPT !.pc = "pop", !.exec = n]
                             ELSE [Call("sample_tokens") EXCEPT !.exec = n]
                /\ batch_queue' = batch_queue
             \/ /\ engine.method = "execute_empty"
                /\ AddBatch([fut |-> n, exec |-> n])
             \/ /\ engine.method = "sample_tokens"
                /\ AddBatch([fut |-> n, exec |-> engine.exec])
             \/ /\ engine.method \in Utility \cup {"take_draft_token_ids"}
                /\ engine' = [engine EXCEPT !.pc = "drain", !.wait = n]
                /\ batch_queue' = batch_queue
    /\ UNCHANGED <<log, applied, wvars, mvars>>

-----------------------------------------------------------------------------
(* FutureWrapper.result: futures ahead in the queue are resolved first.    *)

PopBatch ==
    /\ engine.pc = "pop"
    /\ engine' = [engine EXCEPT !.pc = "drain", !.method = "execute_model",
                                !.wait = batch_queue[1].fut]
    /\ UNCHANGED <<log, result, futures, batch_queue, applied, wvars, mvars>>

Draining == engine.pc = "drain" /\ ~Done(result[engine.wait])

\* The future being resolved is the oldest one.
Current == Head(futures).call
Answers == result[Current].answers

Settle(outcome) ==
    /\ result' = [result EXCEPT ![Current] = outcome]
    /\ futures' = IF Done(outcome) THEN Tail(futures) ELSE futures

\* The queue that get_response reads next: it goes through them in order.
Awaited(w) ==
    /\ w \in Head(futures).mqs \ DOMAIN Answers
    /\ \A v \in Head(futures).mqs : v < w => v \in DOMAIN Answers

\* get_response stops at the first failure.
Receive(w, answer) ==
    \E answers \in {[v \in DOMAIN Answers \cup {w} |-> IF v = w THEN answer ELSE Answers[v]]} :
        Settle(Outcome(IF answer.value = "failure" THEN "failure"
                       ELSE IF DOMAIN answers = Head(futures).mqs THEN "value"
                       ELSE "pending", answers))

Dequeue ==
    /\ Draining
    /\ \/ /\ Head(futures).mqs = {}
          /\ Settle(Outcome("value", NoAnswers))
          /\ responses' = responses
       \/ \E w \in Ranks :
             /\ Awaited(w)
             /\ responses[w] # <<>>
             /\ responses' = [responses EXCEPT ![w] = Tail(@)]
             /\ Receive(w, Head(responses[w]))
    /\ UNCHANGED <<log, batch_queue, engine, applied,
                   alive, taken, finished, raised, ready, output_queue, mvars>>

\* Mutant: the wait for an answer is not cancelled by a shutdown.
DequeueRaises_notCancelled ==
    /\ Draining
    /\ \E w \in Ranks : Awaited(w) /\ responses[w] = <<>>
    /\ log[Current] \in Timed
    /\ Cardinality({n \in DOMAIN result : result[n].state = "timeout"}) < MaxTimeouts
    /\ Settle(Outcome("timeout", Answers))
    /\ UNCHANGED <<log, batch_queue, engine, applied, wvars, mvars>>

\* The queue was shut down, or the deadline of the call, if it has one, has
\* passed.  The answers that come later are left for the calls that follow.
DequeueRaises ==
    /\ Draining
    /\ \E w \in Ranks : Awaited(w) /\ responses[w] = <<>>
    /\ \/ cancelled /\ Settle(Outcome("cancelled", Answers))
       \/ /\ ~cancelled /\ log[Current] \in Timed
          /\ Cardinality({n \in DOMAIN result : result[n].state = "timeout"}) < MaxTimeouts
          /\ Settle(Outcome("timeout", Answers))
    /\ UNCHANGED <<log, batch_queue, engine, applied, wvars, mvars>>

Answered(method) == /\ engine.pc = "drain" /\ Done(result[engine.wait])
                    /\ log[engine.wait] \in method

\* The client is sent the answers or the error, and the engine goes on.
UtilityReturns ==
    /\ Answered(Utility)
    /\ engine' = Idle
    /\ UNCHANGED <<log, result, futures, batch_queue, applied, wvars, mvars>>

\* The result of the call is of the kind that its caller needs: anything else
\* (no answer, None, the answer to a call of another kind) raises, in
\* KVOutputAggregator.aggregate, in the assertions or where its fields are read.
Holds(outcome, kind) ==
    /\ outcome.state = "value"
    /\ DOMAIN outcome.answers # {}
    /\ \A w \in DOMAIN outcome.answers : outcome.answers[w].value = kind

Use(n) == applied' = [call |-> n, of |-> {result[n].answers[w].call :
                                             w \in DOMAIN result[n].answers}]

DraftsReturn ==
    /\ Answered({"take_draft_token_ids"})
    /\ \/ /\ ~Holds(result[engine.wait], "drafts")
          /\ engine' = Dead
          /\ applied' = applied
       \/ /\ Holds(result[engine.wait], "drafts")
          /\ Use(engine.wait)
          /\ engine' = Call("sample_tokens")
    /\ UNCHANGED <<log, result, futures, batch_queue, wvars, mvars>>

\* Mutant: a batch whose output is missing is skipped.
BatchReturns_skips ==
    /\ Answered(Model)
    /\ batch_queue' = Tail(batch_queue)
    /\ IF Holds(result[engine.wait], "output") THEN Use(engine.wait) ELSE applied' = applied
    /\ \/ /\ ~engine.deferred
          /\ engine' = Idle
       \/ /\ engine.deferred
          /\ \E method \in {"take_draft_token_ids", "sample_tokens"} :
                engine' = Call(method)
    /\ UNCHANGED <<log, result, futures, wvars, mvars>>

\* update_from_output, then the batch whose sampling was deferred.
BatchReturns ==
    /\ Answered(Model)
    /\ \/ /\ ~Holds(result[engine.wait], "output")
          /\ engine' = Dead
          /\ UNCHANGED <<batch_queue, applied>>
       \/ /\ Holds(result[engine.wait], "output")
          /\ Use(engine.wait)
          /\ batch_queue' = Tail(batch_queue)
          /\ \/ /\ ~engine.deferred
                /\ engine' = Idle
             \/ /\ engine.deferred
                /\ \E method \in {"take_draft_token_ids", "sample_tokens"} :
                      engine' = Call(method)
    /\ UNCHANGED <<log, result, futures, wvars, mvars>>

-----------------------------------------------------------------------------
(* A worker: worker_busy_loop and async_output_busy_loop.                  *)

\* The ranks of the last pipeline stage, which keep the state of a forward pass
\* for sample_tokens.
LastStage(w) == w >= OutputRank

\* The last stage cannot finish a forward pass that another rank has not
\* entered, or has left by an exception.
PeersIn(n) == \A v \in Ranks : taken[v] >= n /\ n \notin raised[v]

\* sample_tokens returns None where no forward pass is waiting for it.  On the
\* other stages what waits is kv_connector_output.
Kind(w, method) ==
    CASE method = "execute_model" -> "none"
      [] method = "execute_empty" -> "output"
      [] method = "sample_tokens" -> IF ready[w] THEN "output" ELSE "none"
      [] method = "take_draft_token_ids" -> "drafts"
      [] OTHER -> "reply"

Answer(w, n, failed) ==
    [call |-> n, value |-> IF failed THEN "failure" ELSE Kind(w, log[n])]

TakeCall(w) ==
    /\ alive[w]
    /\ taken[w] = finished[w]
    /\ taken[w] < Len(log)
    /\ taken' = [taken EXCEPT ![w] = @ + 1]
    /\ UNCHANGED <<evars, alive, finished, raised, ready, output_queue, responses, mvars>>

\* execute_model raises by itself while a state waits for sample_tokens.
MayFail(w, n) ==
    IF log[n] = "execute_model" /\ ready[w] /\ LastStage(w) THEN {TRUE}
    ELSE {FALSE} \cup {f \in {TRUE} : <<log[n], w>> \in Fails}

FinishCall(w) ==
    /\ alive[w]
    /\ finished[w] < taken[w]
    /\ \E n \in {taken[w]} :
       \E failed \in MayFail(w, n) :
          /\ LastStage(w) /\ log[n] = "execute_model" /\ ~failed => PeersIn(n)
          /\ finished' = [finished EXCEPT ![w] = n]
          /\ raised' = [raised EXCEPT ![w] = IF failed THEN @ \cup {n} ELSE @]
          /\ ready' = [ready EXCEPT ![w] =
                          /\ log[n] # "sample_tokens"
                          /\ @ \/ (log[n] = "execute_model" /\ ~failed)]
          /\ output_queue' =
                IF w \in Asked(log[n])
                THEN [output_queue EXCEPT ![w] = Append(@, Answer(w, n, failed))]
                ELSE output_queue
    /\ UNCHANGED <<evars, alive, taken, responses, mvars>>

EnqueueOutput(w) ==
    /\ alive[w]
    /\ output_queue[w] # <<>>
    /\ Len(responses[w]) < MaxChunks
    /\ responses' = [responses EXCEPT ![w] = Append(@, Head(output_queue[w]))]
    /\ output_queue' = [output_queue EXCEPT ![w] = Tail(@)]
    /\ UNCHANGED <<evars, alive, taken, finished, raised, ready, mvars>>

WorkerStep(w) == TakeCall(w) \/ FinishCall(w) \/ EnqueueOutput(w)

Dies(w) == alive' = [alive EXCEPT ![w] = FALSE]

Crash(w) ==
    /\ alive[w] /\ ~shutting_down
    /\ Cardinality({v \in Ranks : ~alive[v]}) < MaxCrashes
    /\ Dies(w)
    /\ UNCHANGED <<evars, taken, finished, raised, ready, output_queue, responses, mvars>>

\* The death pipe is closed; SIGTERM and SIGKILL follow.
WorkerStops(w) ==
    /\ alive[w] /\ shutting_down
    /\ Dies(w)
    /\ UNCHANGED <<evars, taken, finished, raised, ready, output_queue, responses, mvars>>

-----------------------------------------------------------------------------
(* monitor_workers, and the shutdown of an engine that has failed.         *)

MonitorSees ==
    /\ monitor = "watch"
    /\ \E w \in Ranks : ~alive[w]
    /\ is_failed' = (is_failed \/ ~shutting_down)
    /\ monitor' = IF shutting_down THEN "done" ELSE "shutdown"
    /\ UNCHANGED <<evars, wvars, shutting_down, cancelled, cleared, callback>>

MonitorShutdown ==
    /\ monitor = "shutdown"
    /\ shutting_down' = TRUE
    /\ monitor' = IF shutting_down THEN "clear" ELSE "terminate"
    /\ UNCHANGED <<evars, wvars, is_failed, cancelled, cleared, callback>>

MonitorTerminates ==
    /\ monitor = "terminate"
    /\ \A w \in Ranks : ~alive[w]
    /\ cancelled' = TRUE
    /\ monitor' = "clear"
    /\ UNCHANGED <<evars, wvars, is_failed, shutting_down, cleared, callback>>

MonitorClears ==
    /\ monitor = "clear"
    /\ cancelled' = TRUE
    /\ cleared' = TRUE
    /\ monitor' = "callback"
    /\ UNCHANGED <<evars, wvars, is_failed, shutting_down, callback>>

\* Mutant: the engine is not told that the executor has failed.
MonitorCallback_silent ==
    /\ monitor = "callback"
    /\ callback' = callback
    /\ monitor' = "done"
    /\ UNCHANGED <<evars, wvars, is_failed, shutting_down, cancelled, cleared>>

MonitorCallback ==
    /\ monitor = "callback"
    /\ callback' = TRUE
    /\ monitor' = "done"
    /\ UNCHANGED <<evars, wvars, is_failed, shutting_down, cancelled, cleared>>

MonitorStep == \/ MonitorSees \/ MonitorShutdown \/ MonitorTerminates
               \/ MonitorClears \/ MonitorCallback

EngineShutdown ==
    /\ engine.pc = "dead"
    /\ ~shutting_down
    /\ shutting_down' = TRUE
    /\ UNCHANGED <<evars, wvars, is_failed, cancelled, cleared, monitor, callback>>

EngineStep ==
    \/ ExecutorFailed \/ StepDrain \/ CheckFailed \/ Enqueue \/ AcquireWrite
    \/ Lookup \/ PopBatch \/ Dequeue \/ DequeueRaises \/ UtilityReturns \/ DraftsReturn
    \/ BatchReturns \/ EngineShutdown

Next ==
    \/ UtilityCall
    \/ Step
    \/ EngineStep
    \/ \E w \in Ranks : WorkerStep(w) \/ Crash(w) \/ WorkerStops(w)
    \/ MonitorStep

\* The threads of every process run, and a worker told to stop does.  No
\* call has to be made and no worker has to fail.
Spec ==
    /\ Init /\ [][Next]_vars
    /\ WF_vars(EngineStep)
    /\ WF_vars(MonitorStep)
    /\ \A w \in Ranks : WF_vars(WorkerStep(w)) /\ WF_vars(WorkerStops(w))

-----------------------------------------------------------------------------
(* Properties.                                                             *)

Calls == 1 .. Len(log)

\* Every future and every batch in the queue belongs to a call that was made,
\* each call has one result, and a worker finishes calls that it has taken.  A
\* step starts with room in the batch queue (the assertion at the head of
\* step_with_batch_queue).
TypeOK ==
    /\ engine.pc = "loop" => Len(batch_queue) < BatchQueueSize
    /\ log \in Seq(Methods)
    /\ Len(result) = Len(log)
    /\ \A n \in Calls : result[n].state \in {"pending", "value", "failure", "timeout",
                                             "cancelled"}
    /\ \A i \in DOMAIN futures : futures[i].call \in Calls
    /\ \A i \in DOMAIN batch_queue : {batch_queue[i].fut, batch_queue[i].exec} \subseteq Calls
    /\ engine.pc \in {"loop", "check", "enqueue", "write", "lookup", "pop", "drain", "dead"}
    /\ alive \in [Ranks -> BOOLEAN]
    /\ \A w \in Ranks : finished[w] <= taken[w] /\ taken[w] <= Len(log)
    /\ {is_failed, shutting_down, cancelled, cleared, callback} \subseteq BOOLEAN
    /\ monitor \in {"watch", "shutdown", "terminate", "clear", "callback", "done"}

\* The future of call m was resolved without the answer of rank w: get_response
\* raised before it got to that queue, which keeps the answer.
Missed(m, w) == Done(result[m]) /\ w \in Asked(log[m]) \ DOMAIN result[m].answers

\* A utility call that returns a list has one answer from each rank, and it is
\* the rank's answer to this call unless the rank's answer to an earlier call was
\* left in its queue, by a time-out or a failure.  An executor that fails in
\* mid-call may return an empty list.
UtilityAnswers ==
    \A n \in Calls :
        log[n] \in Utility /\ result[n].state = "value" =>
        \/ /\ DOMAIN result[n].answers = Ranks
           /\ \A w \in Ranks : \/ result[n].answers[w].call = n
                               \/ \E m \in 1 .. n - 1 : Missed(m, w)
        \/ is_failed /\ DOMAIN result[n].answers = {}

\* What a step uses, the output it gives to update_from_output or the draft
\* tokens, consists of the answers to its own call, of every rank that was
\* asked.  Late and left-over answers never get so far: those of forward passes
\* that timed out or failed on one rank, and those that utility calls left
\* behind when they timed out or failed and the engine went on.
OutputsApplied ==
    /\ TypeOK
    /\ UtilityAnswers
    /\ applied.of = {applied.call}

\* A utility call that returns a list returns the answers to this call, unless
\* the executor has failed: "A list containing the results from each worker".
OwnAnswers ==
    \A n \in Calls :
        log[n] \in Utility /\ result[n].state = "value" =>
        is_failed \/ \A w \in DOMAIN result[n].answers : result[n].answers[w].call = n

\* No call blocks the engine for ever: a worker answers, the deadline
\* passes, or the monitor sees the worker's end and cancels the wait.
EngineReturns == engine.pc \notin {"loop", "dead"} ~> engine.pc \in {"loop", "dead"}

\* When a worker process dies, whatever the engine is doing, the engine
\* learns of it and stops, and no worker process is left behind.
CrashStopsAll ==
    (\E w \in Ranks : ~alive[w]) ~> (engine.pc = "dead" /\ \A w \in Ranks : ~alive[w])

\* A forward pass that raises in a worker stops the engine: "if an Exception
\* arises in busy_loop, we send a FAILURE message over the MQ RPC to notify
\* the Executor, which triggers system shutdown".
FailureNotified ==
    (\E w \in Ranks : \E n \in raised[w] : log[n] \in Model) ~> engine.pc = "dead"
=============================================================================
