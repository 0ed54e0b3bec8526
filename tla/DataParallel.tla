---------------------------- MODULE DataParallel ----------------------------
(***************************************************************************)
(* The request waves of data-parallel engines with expert parallelism:     *)
(* DPEngineCoreProc's loop, whose forward passes are collective over all   *)
(* engines, the DPCoordinator that wakes idle engines, and the front ends  *)
(* (DPAsyncMPClient) that number their requests.  Messages of a pair of    *)
(* processes arrive in order; nothing orders the pairs.  Requests are      *)
(* counted; load statistics, shutdown and elastic scaling are left out.    *)
(***************************************************************************)
EXTENDS Integers, Sequences, FiniteSets, FiniteSetsExt, Functions

CONSTANTS
    Engines,            \* ranks 0 .. dp_size - 1
    Clients,            \* API servers
    SyncPeriod,         \* passes between all-reduces (32)
    PauseModes,         \* modes of pause_generation in use
    Races,              \* the races allowed to happen, of those named below
    MaxCalls,           \* bound on requests and pauses together
    MaxAborts           \* bound on aborts

\* abort_idle: an abort reaches an engine that has its request but does not
\*     run, because it has not stepped yet or is paused;
\* late_first_req: a request is over before its FIRST_REQ has reached the
\*     coordinator, so a wave or a pause may begin in between;
\* busy_resume: requests are sent while resume_generation is in progress.
ASSUME DataParallelAssumption ==
    /\ 0 \in Engines /\ Engines \subseteq Nat /\ IsFiniteSet(Engines)
    /\ Clients # {}
    /\ MaxCalls \in Nat
    /\ SyncPeriod \in Nat \ {0}
    /\ PauseModes \subseteq {"abort", "wait", "keep"}
    /\ Races \subseteq {"abort_idle", "late_first_req", "busy_resume"}

VARIABLES
    \* each engine
    pc, waiting, active, engines_running, current_wave, step_counter,
    pause_state, pending_pause, ignore_start, future,
    \* the coordinator, and each client
    coordinator, client, first_req,
    \* messages in flight
    to_engine, start, from_engine, from_client, published,
    \* what has been asked for
    issued, done, aborts, pauses

evars == <<pc, waiting, active, engines_running, current_wave, step_counter,
           pause_state, pending_pause, ignore_start, future>>
cvars == <<coordinator, client, first_req>>
mvars == <<to_engine, start, from_engine, from_client, published>>
hvars == <<issued, done, aborts, pauses>>
vars == <<pc, waiting, active, engines_running, current_wave, step_counter,
          pause_state, pending_pause, ignore_start, future,
          coordinator, client, first_req,
          to_engine, start, from_engine, from_client, published,
          issued, done, aborts, pauses>>

Nobody == -1

\* The ZMQ identity by which a client knows an engine: bytes, which no
\* engine_index is equal to.
Identity(e) == -2 - e
Boss == CHOOSE c \in Clients : TRUE

Init ==
    /\ pc = [e \in Engines |-> "input"]
    /\ waiting = [e \in Engines |-> 0]
    /\ active = [e \in Engines |-> 0]
    /\ engines_running = [e \in Engines |-> FALSE]
    /\ current_wave = [e \in Engines |-> 0]
    /\ step_counter = [e \in Engines |-> 0]
    /\ pause_state = [e \in Engines |-> "unpaused"]
    /\ pending_pause = [e \in Engines |-> FALSE]
    /\ ignore_start = [e \in Engines |-> FALSE]
    /\ future = [e \in Engines |-> "none"]
    /\ coordinator = [wave |-> 0, running |-> FALSE]
    /\ client = [c \in Clients |-> [wave |-> 0, running |-> FALSE]]
    /\ first_req = [c \in Clients |-> <<>>]
    /\ to_engine = [c \in Clients |-> [e \in Engines |-> <<>>]]
    /\ start = [e \in Engines |-> <<>>]
    /\ from_engine = [e \in Engines |-> <<>>]
    /\ from_client = [c \in Clients |-> <<>>]
    /\ published = [c \in Clients |-> <<>>]
    /\ issued = 0 /\ done = 0 /\ aborts = 0 /\ pauses = 0

-----------------------------------------------------------------------------
(* The front end.                                                          *)

Resuming == \E e \in Engines : future[e] = "resuming" \/ pc[e] = "resume"

\* add_request_async, with whichever engine the load balancer picks.
AddRequest(c, e) ==
    /\ issued + pauses < MaxCalls
    /\ "busy_resume" \in Races \/ ~Resuming
    /\ issued' = issued + 1
    /\ to_engine' = [to_engine EXCEPT ![c][e] =
                        Append(@, [type |-> "add", wave |-> client[c].wave])]
    /\ first_req' = IF client[c].running THEN first_req
                    ELSE [first_req EXCEPT ![c] = Append(@, e)]
    /\ UNCHANGED <<evars, coordinator, client, start, from_engine, from_client,
                   published, done, aborts, pauses>>

\* The stats task forwards the FIRST_REQ, with the identity of the engine and
\* the wave it knows now.
SendFirstReq(c) ==
    /\ first_req[c] # <<>>
    /\ first_req' = [first_req EXCEPT ![c] = Tail(@)]
    /\ client' = [client EXCEPT ![c].running = TRUE]
    /\ from_client' = [from_client EXCEPT ![c] =
                          Append(@, [target |-> Identity(Head(first_req[c])), wave |-> client[c].wave])]
    /\ UNCHANGED <<evars, coordinator, to_engine, start, from_engine, published, hvars>>

\* The stats task drains what has arrived, one after the other, and keeps
\* the latest.  A FIRST_REQ goes first unless the engines are thought to run.
ReceiveState(c) ==
    /\ published[c] # <<>>
    /\ client[c].running \/ first_req[c] = <<>>
    /\ client' = [client EXCEPT ![c] = Head(published[c])]
    /\ published' = [published EXCEPT ![c] = Tail(@)]
    /\ UNCHANGED <<evars, coordinator, first_req, to_engine, start, from_engine,
                   from_client, hvars>>

TellEngines(msg) ==
    to_engine' = [to_engine EXCEPT ![Boss] = [e \in Engines |-> Append(@[e], msg)]]

\* pause_generation, by one client on every engine.
PauseAll(mode) ==
    /\ issued + pauses < MaxCalls
    /\ \A e \in Engines : future[e] = "none"
    /\ pauses' = pauses + 1
    /\ future' = [e \in Engines |-> "sent"]
    /\ TellEngines([type |-> "pause", mode |-> mode])
    /\ UNCHANGED <<pc, waiting, active, engines_running, current_wave, step_counter,
                   pause_state, pending_pause, ignore_start, cvars, start,
                   from_engine, from_client, published, issued, done, aborts>>

\* resume_generation, once every engine has answered the pause.
ResumeAll ==
    /\ \A e \in Engines : future[e] = "done"
    /\ future' = [e \in Engines |-> "resuming"]
    /\ TellEngines([type |-> "resume"])
    /\ UNCHANGED <<pc, waiting, active, engines_running, current_wave, step_counter,
                   pause_state, pending_pause, ignore_start, cvars, start,
                   from_engine, from_client, published, hvars>>

-----------------------------------------------------------------------------
(* The coordinator.                                                        *)

Publish(state) ==
    /\ coordinator' = state
    /\ published' = [c \in Clients |-> Append(published[c], state)]

SendStartWave(wave, exclude) ==
    start' = [e \in Engines |-> Append(start[e], [wave |-> wave, exclude |-> exclude])]

\* The engine that has the request was to be left out; its identity excludes
\* nobody.
FirstReq(c) ==
    /\ from_client[c] # <<>>
    /\ from_client' = [from_client EXCEPT ![c] = Tail(@)]
    /\ \E req \in {Head(from_client[c])} :
          IF coordinator.running
          THEN UNCHANGED <<coordinator, published, start>>
          ELSE /\ Publish([wave |-> coordinator.wave, running |-> TRUE])
               /\ SendStartWave(coordinator.wave,
                                IF req.wave < coordinator.wave THEN Nobody ELSE req.target)
    /\ UNCHANGED <<evars, client, first_req, to_engine, from_engine, hvars>>

\* Mutant: the wave that the coordinator counts itself is not completed.
EngineNotice_strict(e) ==
    /\ from_engine[e] # <<>>
    /\ from_engine' = [from_engine EXCEPT ![e] = Tail(@)]
    /\ \E msg \in {Head(from_engine[e])} :
       \/ /\ msg.type = "wave_complete"
          /\ start' = start
          /\ IF coordinator.wave < msg.wave
             THEN Publish([wave |-> msg.wave + 1, running |-> FALSE])
             ELSE UNCHANGED <<coordinator, published>>
       \/ /\ msg.type = "start_wave"
          /\ IF \/ msg.wave > coordinator.wave
                \/ msg.wave = coordinator.wave /\ ~coordinator.running
             THEN /\ Publish([wave |-> msg.wave, running |-> TRUE])
                  /\ SendStartWave(msg.wave, e)
             ELSE UNCHANGED <<coordinator, published, start>>
    /\ UNCHANGED <<evars, client, first_req, to_engine, from_client, hvars>>

\* wave_complete of rank 0, or start_wave of an engine with a late request.
EngineNotice(e) ==
    /\ from_engine[e] # <<>>
    /\ from_engine' = [from_engine EXCEPT ![e] = Tail(@)]
    /\ \E msg \in {Head(from_engine[e])} :
       \/ /\ msg.type = "wave_complete"
          /\ start' = start
          /\ IF coordinator.wave <= msg.wave
             THEN Publish([wave |-> msg.wave + 1, running |-> FALSE])
             ELSE UNCHANGED <<coordinator, published>>
       \/ /\ msg.type = "start_wave"
          /\ IF \/ msg.wave > coordinator.wave
                \/ msg.wave = coordinator.wave /\ ~coordinator.running
             THEN /\ Publish([wave |-> msg.wave, running |-> TRUE])
                  /\ SendStartWave(msg.wave, e)
             ELSE UNCHANGED <<coordinator, published, start>>
    /\ UNCHANGED <<evars, client, first_req, to_engine, from_client, hvars>>

\* The poll times out and the state is published once more.
Republish(c) ==
    /\ published[c] = <<>>
    /\ client[c] # coordinator
    /\ published' = [published EXCEPT ![c] = <<coordinator>>]
    /\ UNCHANGED <<evars, cvars, to_engine, start, from_engine, from_client, hvars>>

-----------------------------------------------------------------------------
(* An engine's input: _process_input_queue takes what has arrived before   *)
(* each step, and blocks while there is no work.                           *)

\* get_num_unfinished_requests.
HasUnfinished(e) ==
    CASE pause_state[e] = "unpaused" -> waiting[e] + active[e] > 0
      [] pause_state[e] = "new"      -> active[e] > 0
      [] pause_state[e] = "all"      -> FALSE

HasWork(e) == engines_running[e] \/ HasUnfinished(e)

MayEnd(e) ==
    \/ "late_first_req" \in Races
    \/ \A c \in Clients :
                 /\ e \notin Range(first_req[c])
                 /\ \A msg \in Range(from_client[c]) : msg.target # Identity(e)

\* Mutant: a request of a finished wave starts its own engine only.
Add_silent(e, wave) ==
    /\ waiting' = [waiting EXCEPT ![e] = @ + 1]
    /\ current_wave' = [current_wave EXCEPT ![e] = Max({@, wave})]
    /\ IF wave < current_wave[e] /\ ~engines_running[e] /\ pause_state[e] = "unpaused"
       THEN /\ engines_running' = [engines_running EXCEPT ![e] = TRUE]
            /\ UNCHANGED from_engine
       ELSE UNCHANGED <<engines_running, from_engine>>
    /\ UNCHANGED <<pc, active, step_counter, pause_state, pending_pause, ignore_start,
                   future, done>>

\* A message whose wave is old comes from a client that has not heard of
\* the end of that wave, and its coordinator message may say so too.
Add(e, wave) ==
    /\ waiting' = [waiting EXCEPT ![e] = @ + 1]
    /\ current_wave' = [current_wave EXCEPT ![e] = Max({@, wave})]
    /\ IF wave < current_wave[e] /\ ~engines_running[e] /\ pause_state[e] = "unpaused"
       THEN /\ engines_running' = [engines_running EXCEPT ![e] = TRUE]
            /\ from_engine' = [from_engine EXCEPT ![e] =
                  Append(@, [type |-> "start_wave", wave |-> current_wave[e]])]
       ELSE UNCHANGED <<engines_running, from_engine>>
    /\ UNCHANGED <<pc, active, step_counter, pause_state, pending_pause, ignore_start,
                   future, done>>

\* pause_scheduler and _pause_complete.
Pause(e, mode) ==
    /\ IF mode = "abort"
       THEN /\ MayEnd(e)
            /\ done' = done + waiting[e] + active[e]
            /\ waiting' = [waiting EXCEPT ![e] = 0]
            /\ active' = [active EXCEPT ![e] = 0]
       ELSE UNCHANGED <<done, waiting, active>>
    /\ pause_state' = [pause_state EXCEPT ![e] = IF mode = "keep" THEN "all" ELSE "new"]
    /\ pending_pause' = [pending_pause EXCEPT ![e] = TRUE]
    /\ engines_running' = [engines_running EXCEPT ![e] = TRUE]
    /\ future' = [future EXCEPT ![e] = "pending"]
    /\ UNCHANGED <<pc, current_wave, step_counter, ignore_start, from_engine>>

\* resume_scheduler up to its barrier; RuntimeError while a pause is in flight.
Resume(e) ==
    /\ future' = [future EXCEPT ![e] = "none"]
    /\ IF engines_running[e] \/ pending_pause[e]
       THEN UNCHANGED <<pc, pause_state, ignore_start>>
       ELSE /\ pc' = [pc EXCEPT ![e] = "resume"]
            /\ pause_state' = [pause_state EXCEPT ![e] = "unpaused"]
            /\ ignore_start' = [ignore_start EXCEPT ![e] = FALSE]
    /\ UNCHANGED <<waiting, active, engines_running, current_wave, step_counter,
                   pending_pause, from_engine, done>>

HandleRequest(e, c) ==
    /\ pc[e] = "input"
    /\ to_engine[c][e] # <<>>
    /\ to_engine' = [to_engine EXCEPT ![c][e] = Tail(@)]
    /\ \E msg \in {Head(to_engine[c][e])} :
          \/ msg.type = "add" /\ Add(e, msg.wave)
          \/ msg.type = "pause" /\ Pause(e, msg.mode)
          \/ msg.type = "resume" /\ Resume(e)
    /\ UNCHANGED <<cvars, start, from_client, published, issued, aborts, pauses>>

\* An abort arrives for a request that the engine has.
HandleAbort(e) ==
    /\ pc[e] = "input"
    /\ aborts < MaxAborts
    /\ "abort_idle" \in Races \/ engines_running[e]
    /\ MayEnd(e)
    /\ \/ waiting[e] > 0 /\ waiting' = [waiting EXCEPT ![e] = @ - 1] /\ active' = active
       \/ active[e] > 0 /\ active' = [active EXCEPT ![e] = @ - 1] /\ waiting' = waiting
    /\ aborts' = aborts + 1
    /\ done' = done + 1
    /\ UNCHANGED <<pc, engines_running, current_wave, step_counter, pause_state,
                   pending_pause, ignore_start, future, cvars, mvars,
                   issued, pauses>>

StartDpWave(e) ==
    /\ pc[e] = "input"
    /\ start[e] # <<>>
    /\ start' = [start EXCEPT ![e] = Tail(@)]
    /\ \E msg \in {Head(start[e])} :
          IF ~ignore_start[e] /\ msg.exclude # e /\ msg.wave >= current_wave[e]
          THEN /\ current_wave' = [current_wave EXCEPT ![e] = msg.wave]
               /\ engines_running' = [engines_running EXCEPT ![e] = TRUE]
          ELSE UNCHANGED <<current_wave, engines_running>>
    /\ UNCHANGED <<pc, waiting, active, step_counter, pause_state, pending_pause,
                   ignore_start, future, cvars, to_engine, from_engine,
                   from_client, published, hvars>>

\* No work: the callback of a pause is called, then the engine blocks.
NotifyIdle(e) ==
    /\ pc[e] = "input"
    /\ ~HasWork(e)
    /\ future[e] = "pending"
    /\ future' = [future EXCEPT ![e] = "done"]
    /\ UNCHANGED <<pc, waiting, active, engines_running, current_wave, step_counter,
                   pause_state, pending_pause, ignore_start, cvars, mvars, hvars>>

-----------------------------------------------------------------------------
(* An engine's step: a forward pass, of requests or a dummy one, and every *)
(* SyncPeriod passes an all-reduce.  Both need all engines.                *)

\* Waiting requests are admitted unless the engine is paused.
Step(e) ==
    /\ pc[e] = "input"
    /\ HasWork(e)
    /\ IF pause_state[e] = "unpaused"
       THEN /\ active' = [active EXCEPT ![e] = @ + waiting[e]]
            /\ waiting' = [waiting EXCEPT ![e] = 0]
       ELSE UNCHANGED <<active, waiting>>
    /\ pc' = [pc EXCEPT ![e] = "forward"]
    /\ UNCHANGED <<engines_running, current_wave, step_counter, pause_state,
                   pending_pause, ignore_start, future, cvars, mvars, hvars>>

\* A collective call returns to all engines at once: none can tell whether
\* another has gone on before it looks at a message.
Together(at) == \A e \in Engines : pc[e] = at

\* Mutant: an engine with nothing left asks the others at once.
ForwardPass_eager(finished) ==
    /\ Together("forward")
    /\ finished \subseteq {e \in Engines : active[e] > 0 /\ pause_state[e] # "all" /\ MayEnd(e)}
    /\ done' = done + MapThenSumSet(LAMBDA e : active[e], finished)
    /\ active' = [e \in Engines |-> IF e \in finished THEN 0 ELSE active[e]]
    /\ step_counter' = [e \in Engines |-> (step_counter[e] + 1) % SyncPeriod]
    /\ LET ask(e) == step_counter'[e] = 0 \/ active'[e] + waiting[e] = 0 IN
       /\ pc' = [e \in Engines |-> IF ask(e) THEN "sync" ELSE "input"]
       /\ engines_running' = [e \in Engines |-> engines_running[e] \/ ~ask(e)]
    /\ UNCHANGED <<waiting, current_wave, pause_state, pending_pause, ignore_start,
                   future, cvars, mvars, issued, aborts, pauses>>

\* The requests of the pass may finish; only every SyncPeriod-th pass asks
\* the others, until then the engine keeps running.
ForwardPass(finished) ==
    /\ Together("forward")
    /\ finished \subseteq {e \in Engines : active[e] > 0 /\ pause_state[e] # "all" /\ MayEnd(e)}
    /\ done' = done + MapThenSumSet(LAMBDA e : active[e], finished)
    /\ active' = [e \in Engines |-> IF e \in finished THEN 0 ELSE active[e]]
    /\ step_counter' = [e \in Engines |-> (step_counter[e] + 1) % SyncPeriod]
    /\ LET ask(e) == step_counter'[e] = 0 IN
       /\ pc' = [e \in Engines |-> IF ask(e) THEN "sync" ELSE "input"]
       /\ engines_running' = [e \in Engines |-> engines_running[e] \/ ~ask(e)]
    /\ UNCHANGED <<waiting, current_wave, pause_state, pending_pause, ignore_start,
                   future, cvars, mvars, issued, aborts, pauses>>

\* Mutant: the engines are asked whether they run, not whether they have requests.
SyncDpState_running ==
    /\ Together("sync")
    /\ \E paused \in {{e \in Engines : pending_pause[e]}} :
       \E unfinished \in {\/ \E e \in Engines : HasWork(e)
                          \/ paused \notin {{}, Engines}} :
          /\ ignore_start' = [e \in Engines |-> ignore_start[e] \/ paused = Engines]
          /\ pending_pause' = [e \in Engines |-> pending_pause[e] /\ paused # Engines]
          /\ engines_running' = [e \in Engines |-> unfinished]
          /\ IF unfinished
             THEN UNCHANGED <<current_wave, step_counter, from_engine>>
             ELSE /\ from_engine' = [from_engine EXCEPT ![0] =
                       Append(@, [type |-> "wave_complete", wave |-> current_wave[0]])]
                  /\ current_wave' = [e \in Engines |-> current_wave[e] + 1]
                  /\ step_counter' = [e \in Engines |-> 0]
    /\ pc' = [e \in Engines |-> "input"]
    /\ UNCHANGED <<waiting, active, pause_state, future, cvars, to_engine,
                   start, from_client, published, hvars>>

\* sync_dp_state: some engine has work, or only some engines have a pause
\* pending.  Otherwise the wave is over, and rank 0 says so.
SyncDpState ==
    /\ Together("sync")
    /\ \E paused \in {{e \in Engines : pending_pause[e]}} :
       \E unfinished \in {\/ \E e \in Engines : HasUnfinished(e)
                          \/ paused \notin {{}, Engines}} :
          /\ ignore_start' = [e \in Engines |-> ignore_start[e] \/ paused = Engines]
          /\ pending_pause' = [e \in Engines |-> pending_pause[e] /\ paused # Engines]
          /\ engines_running' = [e \in Engines |-> unfinished]
          /\ IF unfinished
             THEN UNCHANGED <<current_wave, step_counter, from_engine>>
             ELSE /\ from_engine' = [from_engine EXCEPT ![0] =
                       Append(@, [type |-> "wave_complete", wave |-> current_wave[0]])]
                  /\ current_wave' = [e \in Engines |-> current_wave[e] + 1]
                  /\ step_counter' = [e \in Engines |-> 0]
    /\ pc' = [e \in Engines |-> "input"]
    /\ UNCHANGED <<waiting, active, pause_state, future, cvars, to_engine,
                   start, from_client, published, hvars>>

\* The barrier in resume_scheduler is an all-reduce of the same group.
ResumeBarrier ==
    /\ Together("resume")
    /\ engines_running' = [e \in Engines |->
                              engines_running[e] \/ \E f \in Engines : HasUnfinished(f)]
    /\ pc' = [e \in Engines |-> "input"]
    /\ UNCHANGED <<waiting, active, current_wave, step_counter, pause_state,
                   pending_pause, ignore_start, future, cvars, mvars, hvars>>

EngineStep(e) ==
    \/ \E c \in Clients : HandleRequest(e, c)
    \/ StartDpWave(e)
    \/ NotifyIdle(e)
    \/ Step(e)

Collective ==
    \/ \E finished \in SUBSET Engines : ForwardPass(finished)
    \/ SyncDpState
    \/ ResumeBarrier

Next ==
    \/ \E c \in Clients, e \in Engines : AddRequest(c, e)
    \/ \E c \in Clients : SendFirstReq(c) \/ ReceiveState(c) \/ FirstReq(c) \/ Republish(c)
    \/ \E mode \in PauseModes : PauseAll(mode)
    \/ ResumeAll
    \/ \E e \in Engines : EngineNotice(e) \/ EngineStep(e) \/ HandleAbort(e)
    \/ Collective

Spec == Init /\ [][Next]_vars

\* Every process runs and every message arrives.  An engine takes what has
\* arrived before it steps again, a pause is followed by a resume, and a
\* request does not generate for ever.
Fairness ==
    /\ \A c \in Clients : /\ WF_vars(SendFirstReq(c))
                          /\ WF_vars(ReceiveState(c))
                          /\ WF_vars(FirstReq(c))
    /\ \A e \in Engines : /\ WF_vars(EngineNotice(e))
                          /\ WF_vars(EngineStep(e))
                          /\ SF_vars(\E c \in Clients : HandleRequest(e, c))
                          /\ SF_vars(StartDpWave(e))
                          /\ SF_vars(\E F \in SUBSET Engines : e \in F /\ ForwardPass(F))
    /\ WF_vars(ResumeAll)
    /\ WF_vars(Collective)

FairSpec == Spec /\ Fairness

-----------------------------------------------------------------------------
(* Properties.                                                             *)

Waits == {"forward", "sync", "resume"}

\* No engine counts a request below zero or more of them than were sent, and
\* step_counter stays within the period of the all-reduce.
TypeOK ==
    /\ pc \in [Engines -> Waits \cup {"input"}]
    /\ waiting \in [Engines -> 0 .. MaxCalls]
    /\ active \in [Engines -> 0 .. MaxCalls]
    /\ engines_running \in [Engines -> BOOLEAN]
    /\ current_wave \in [Engines -> Nat]
    /\ step_counter \in [Engines -> 0 .. SyncPeriod - 1]
    /\ pause_state \in [Engines -> {"unpaused", "new", "all"}]
    /\ pending_pause \in [Engines -> BOOLEAN]
    /\ ignore_start \in [Engines -> BOOLEAN]
    /\ future \in [Engines -> {"none", "sent", "pending", "done", "resuming"}]
    /\ coordinator \in [wave : Nat, running : BOOLEAN]
    /\ client \in [Clients -> [wave : Nat, running : BOOLEAN]]

\* Engines that wait for each other wait in the same collective call: no
\* engine is in a forward pass while another is in an all-reduce, however
\* they were woken.  Otherwise both wait for ever.
SameCollective ==
    /\ TypeOK
    /\ \A e, f \in Engines : pc[e] \in Waits /\ pc[f] \in Waits => pc[e] = pc[f]

Idle ==
    /\ \A e \in Engines : /\ pc[e] = "input" /\ ~HasWork(e) /\ future[e] = "none"
                          /\ start[e] = <<>> /\ from_engine[e] = <<>>
    /\ \A c \in Clients : /\ first_req[c] = <<>> /\ from_client[c] = <<>>
                          /\ \A e \in Engines : to_engine[c][e] = <<>>

\* When every engine is idle and no message is on its way, the coordinator
\* knows that the wave is over and all engines are at its wave.  If it
\* thought otherwise, run_coordinator would wake nobody for the next request.
IdleIsKnown ==
    Idle => /\ ~coordinator.running
            /\ \A e \in Engines : current_wave[e] = coordinator.wave

\* Every request given to add_request_async is finished, whichever wave it
\* was numbered with, whatever its engine was doing when it arrived, and
\* across pause_generation and resume_generation: MaxCalls bounds the
\* requests, so all of them are finished again and again only if each is.
EveryRequestFinishes == []<>(done = issued)

\* Once nothing is left to do, run_busy_loop stops running dummy batches
\* on all engines.
WavesEnd == []<>(done # issued \/ \A e \in Engines : ~engines_running[e])

\* DPCoordinator: an engine that has a request is joined by the others.
WakesAll ==
    \A e \in Engines :
        HasUnfinished(e) ~> (~HasUnfinished(e) \/ \A f \in Engines : HasWork(f))
=============================================================================
