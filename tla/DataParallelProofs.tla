------------------------- MODULE DataParallelProofs -------------------------
(***************************************************************************)
(* For any number of engines and front ends, engines that wait for each    *)
(* other wait in the same collective call.  The inductive invariant says   *)
(* that the engines count their passes alike, and that engines which have  *)
(* agreed to pause run nothing until each of them is at the barrier of     *)
(* resume_scheduler.                                                       *)
(*                                                                         *)
(* And the coordinator knows when nothing is left to do, for which the     *)
(* invariant says that the engines are at one wave, that nobody is ahead   *)
(* of it and that the coordinator will hear of it.  That the coordinator   *)
(* takes the engines to run only if one of them does, will or has to, is   *)
(* shown twice: without pauses, because no engine ignores the message that *)
(* wakes it; and with pauses, if no request ends before its FIRST_REQ is   *)
(* delivered or before its engine runs.                                    *)
(***************************************************************************)
EXTENDS DataParallel, FiniteSetTheorems, TLAPS

\* Most leaves need no arithmetic; those that do cite SMT.
USE Zenon

-----------------------------------------------------------------------------
(* The inductive invariant: messages.                                      *)

Request == [type : {"add"}, wave : Nat] \cup [type : {"pause"}, mode : PauseModes]
              \cup [type : {"resume"}]
Notice == [type : {"wave_complete", "start_wave"}, wave : Nat]
State == [wave : Nat, running : BOOLEAN]
Identities == {Identity(e) : e \in Engines}
StartWave == [wave : Nat, exclude : Engines \cup Identities \cup {Nobody}]
NewRequest == [target : Identities, wave : Nat]

MessageOK ==
    /\ first_req \in [Clients -> Seq(Engines)]
    /\ to_engine \in [Clients -> [Engines -> Seq(Request)]]
    /\ start \in [Engines -> Seq(StartWave)]
    /\ from_engine \in [Engines -> Seq(Notice)]
    /\ from_client \in [Clients -> Seq(NewRequest)]
    /\ published \in [Clients -> Seq(State)]

\* The requests on their way to an engine.
Adds(e) == {x \in Clients \X (Nat \ {0}) : /\ x[2] <= Len(to_engine[x[1]][e])
                                           /\ to_engine[x[1]][e][x[2]].type = "add"}

\* An engine has no more requests than were issued.
CountInv ==
    /\ issued \in Nat /\ pauses \in Nat /\ issued + pauses <= MaxCalls
    /\ \A e \in Engines : /\ IsFiniteSet(Adds(e))
                          /\ waiting[e] + active[e] + Cardinality(Adds(e)) <= issued

\* The engines count their passes alike, and enter the all-reduce together.
PassInv ==
    /\ \A e, f \in Engines : step_counter[e] = step_counter[f]
    /\ \A e, f \in Engines : pc[e] = "sync" => pc[f] = "sync"

-----------------------------------------------------------------------------
(* The inductive invariant: pause and resume.                              *)

\* All engines have agreed to pause, and this one has nothing to run.
Quiet(e) ==
    /\ pc[e] = "input"
    /\ ~engines_running[e] /\ ~pending_pause[e] /\ ignore_start[e]
    /\ pause_state[e] # "unpaused"
    /\ pause_state[e] = "new" => active[e] = 0

Asked == {"sent", "pending", "done"}
Heard == {"pending", "done"}

\* One pause or resume at a time, from one client to every engine.
CallInv ==
    \A c \in Clients, e \in Engines : \A i \in 1 .. Len(to_engine[c][e]) :
        to_engine[c][e][i].type # "add" =>
            /\ c = Boss
            /\ to_engine[c][e][i].type = "pause" => future[e] = "sent"
            /\ to_engine[c][e][i].type = "resume" => future[e] = "resuming"
            /\ \A j \in 1 .. Len(to_engine[c][e]) : to_engine[c][e][j].type # "add" => i = j

\* An engine that has heard of the pause runs until all of them have agreed.
PauseInv ==
    \A e \in Engines :
        /\ future[e] \in Asked => \A f \in Engines : future[f] \in Asked
        /\ future[e] = "pending" =>
              /\ pause_state[e] # "unpaused"
              /\ engines_running[e] \/ \A f \in Engines : Quiet(f) /\ future[f] \in Heard
              /\ \/ pending_pause[e]
                 \/ \A f \in Engines : /\ ignore_start[f] /\ ~pending_pause[f]
                                       /\ future[f] \in Heard
        /\ pending_pause[e] => future[e] = "pending"
        /\ future[e] = "done" => \A f \in Engines : Quiet(f) /\ future[f] \in Heard
        /\ future[e] \in {"none", "sent"} => pause_state[e] = "unpaused"

\* While some engine is in the barrier of resume_scheduler or has yet to get
\* there, the others are there too or have nothing to run.
ResumeInv ==
    \A e \in Engines :
        /\ pc[e] = "resume" => future[e] \in {"none", "sent"}
        /\ pc[e] = "resume" \/ future[e] = "resuming" =>
              \A f \in Engines : pc[f] = "resume" \/ (future[f] = "resuming" /\ Quiet(f))

CollectiveInv == TypeOK /\ MessageOK /\ CountInv /\ PassInv /\ CallInv /\ PauseInv /\ ResumeInv

-----------------------------------------------------------------------------
(* Lemmas about queues and numbers.                                        *)

\* What a process finds after it has appended a message to a queue.
LEMMA AppendFacts ==
    ASSUME NEW S, NEW q \in Seq(S), NEW m \in S
    PROVE  /\ Append(q, m) \in Seq(S)
           /\ Len(q) \in Nat
           /\ Len(Append(q, m)) = Len(q) + 1
           /\ \A i \in 1 .. Len(q) + 1 :
                 Append(q, m)[i] = IF i = Len(q) + 1 THEN m ELSE q[i]
    BY SMT

\* What a process finds after it has taken the first message of a queue.
LEMMA TailFacts ==
    ASSUME NEW S, NEW q \in Seq(S), q # <<>>
    PROVE  /\ Tail(q) \in Seq(S)
           /\ Head(q) \in S
           /\ Head(q) = q[1]
           /\ Len(q) \in Nat \ {0}
           /\ Len(Tail(q)) = Len(q) - 1
           /\ \A i \in 1 .. Len(q) - 1 : Tail(q)[i] = q[i + 1]
    BY SMT

\* Appending to one queue of several, or to all of them.
LEMMA AppendType ==
    ASSUME NEW D, NEW S, NEW q \in [D -> Seq(S)], NEW m \in S
    PROVE  /\ \A d \in D : [q EXCEPT ![d] = Append(@, m)] \in [D -> Seq(S)]
           /\ [d \in D |-> Append(q[d], m)] \in [D -> Seq(S)]
    BY SMT

\* The wave that Add keeps is the larger of the two.
LEMMA MaxTwo ==
    ASSUME NEW a \in Nat, NEW b \in Nat
    PROVE  Max({a, b}) = IF a >= b THEN a ELSE b
    BY SMT DEF Max

\* The period's counter stays below the period.
LEMMA ModFacts ==
    ASSUME NEW a \in Nat
    PROVE  a % SyncPeriod \in 0 .. SyncPeriod - 1
    BY DataParallelAssumption, SMT

\* Boss is a client.
LEMMA BossIsClient == Boss \in Clients
    BY DataParallelAssumption DEF Boss

-----------------------------------------------------------------------------
(* Types.                                                                  *)

\* TypeOK without the bound on the requests of an engine.
WeakTypeOK ==
    /\ pc \in [Engines -> Waits \cup {"input"}]
    /\ waiting \in [Engines -> Nat]
    /\ active \in [Engines -> Nat]
    /\ engines_running \in [Engines -> BOOLEAN]
    /\ current_wave \in [Engines -> Nat]
    /\ step_counter \in [Engines -> 0 .. SyncPeriod - 1]
    /\ pause_state \in [Engines -> {"unpaused", "new", "all"}]
    /\ pending_pause \in [Engines -> BOOLEAN]
    /\ ignore_start \in [Engines -> BOOLEAN]
    /\ future \in [Engines -> {"none", "sent", "pending", "done", "resuming"}]
    /\ coordinator \in State
    /\ client \in [Clients -> State]

\* TypeOK includes WeakTypeOK.
LEMMA TypeIsWeakType == TypeOK => WeakTypeOK
    BY DataParallelAssumption, SMT DEF TypeOK, WeakTypeOK, State

\* The messages in flight keep their types: every action of the front ends,
\* the coordinator and the engines.
LEMMA MessageStep == WeakTypeOK /\ MessageOK /\ [Next]_vars => MessageOK'
<1> SUFFICES ASSUME WeakTypeOK, MessageOK, [Next]_vars
             PROVE  MessageOK'
    OBVIOUS
<1> USE DEF MessageOK
<1>1. ASSUME NEW c \in Clients, NEW e \in Engines, AddRequest(c, e) PROVE MessageOK'
  <2>1. [type |-> "add", wave |-> client[c].wave] \in Request
    BY DEF WeakTypeOK, State, Request
  <2>2. to_engine' \in [Clients -> [Engines -> Seq(Request)]]
    BY <1>1, <2>1, SMT DEF AddRequest
  <2>3. first_req' \in [Clients -> Seq(Engines)]
    BY <1>1, SMT DEF AddRequest
  <2>4. QED
    BY <1>1, <2>2, <2>3 DEF AddRequest
<1>2. ASSUME NEW c \in Clients, SendFirstReq(c) PROVE MessageOK'
  <2>1. first_req[c] \in Seq(Engines) /\ first_req[c] # <<>>
    BY <1>2 DEF SendFirstReq
  <2>2. Tail(first_req[c]) \in Seq(Engines) /\ Head(first_req[c]) \in Engines
    BY <2>1, TailFacts
  <2>3. [target |-> Identity(Head(first_req[c])), wave |-> client[c].wave] \in NewRequest
    BY <2>2 DEF WeakTypeOK, State, NewRequest, Identities
  <2>4. from_client' \in [Clients -> Seq(NewRequest)]
    BY <1>2, <2>3, AppendType, SMT DEF SendFirstReq
  <2>5. QED
    BY <1>2, <2>2, <2>4 DEF SendFirstReq
<1>3. ASSUME NEW c \in Clients, ReceiveState(c) PROVE MessageOK'
  <2>1. Tail(published[c]) \in Seq(State)
    BY <1>3, TailFacts DEF ReceiveState
  <2>2. QED
    BY <1>3, <2>1 DEF ReceiveState
<1>4. ASSUME NEW mode \in PauseModes, PauseAll(mode) PROVE MessageOK'
  <2>1. [type |-> "pause", mode |-> mode] \in Request
    BY DEF Request
  <2>2. to_engine' \in [Clients -> [Engines -> Seq(Request)]]
    BY <1>4, <2>1, BossIsClient, SMT DEF PauseAll, TellEngines
  <2>3. QED
    BY <1>4, <2>2 DEF PauseAll, cvars
<1>5. CASE ResumeAll
  <2>1. [type |-> "resume"] \in Request
    BY DEF Request
  <2>2. to_engine' \in [Clients -> [Engines -> Seq(Request)]]
    BY <1>5, <2>1, BossIsClient, SMT DEF ResumeAll, TellEngines
  <2>3. QED
    BY <1>5, <2>2 DEF ResumeAll, cvars
<1>6. ASSUME NEW c \in Clients, FirstReq(c) PROVE MessageOK'
  <2>1. /\ Tail(from_client[c]) \in Seq(NewRequest)
        /\ Head(from_client[c]) \in NewRequest
    BY <1>6, TailFacts DEF FirstReq
  <2>2. from_client' \in [Clients -> Seq(NewRequest)]
    BY <1>6, <2>1 DEF FirstReq
  <2>3. CASE coordinator.running
    BY <1>6, <2>2, <2>3 DEF FirstReq
  <2>4. CASE ~coordinator.running
    <3>1. [wave |-> coordinator.wave, running |-> TRUE] \in State
      BY DEF WeakTypeOK, State
    <3> DEFINE s == [wave |-> coordinator.wave, running |-> TRUE]
    <3>a. published' = [d \in Clients |-> Append(published[d], s)]
      BY <1>6, <2>4 DEF FirstReq, Publish
    <3>2. published' \in [Clients -> Seq(State)]
      <4> HIDE DEF s
      <4> QED  BY <3>1, <3>a, AppendType, SMT DEF s
    <3>3. PICK x \in Identities \cup {Nobody} : SendStartWave(coordinator.wave, x)
      BY <1>6, <2>1, <2>4 DEF FirstReq, NewRequest
    <3>4. [wave |-> coordinator.wave, exclude |-> x] \in StartWave
      BY DEF WeakTypeOK, State, StartWave
    <3>5. start' \in [Engines -> Seq(StartWave)]
      BY <3>3, <3>4, AppendType, SMT DEF SendStartWave
    <3>6. QED
      BY <1>6, <2>2, <3>2, <3>5 DEF FirstReq
  <2>5. QED
    BY <2>3, <2>4
<1>7. ASSUME NEW e \in Engines, EngineNotice(e) PROVE MessageOK'
  <2>1. Tail(from_engine[e]) \in Seq(Notice) /\ Head(from_engine[e]) \in Notice
    BY <1>7, TailFacts DEF EngineNotice
  <2>2. from_engine' \in [Engines -> Seq(Notice)]
    BY <1>7, <2>1 DEF EngineNotice
  <2>3. ASSUME NEW s \in State, Publish(s) PROVE published' \in [Clients -> Seq(State)]
    BY <2>3, SMT DEF Publish
  <2>4. ASSUME NEW w \in Nat, SendStartWave(w, e)
        PROVE  start' \in [Engines -> Seq(StartWave)]
    <3>1. [wave |-> w, exclude |-> e] \in StartWave
      BY DEF StartWave
    <3>2. QED
      BY <2>4, <3>1, AppendType, SMT DEF SendStartWave
  <2>5. Head(from_engine[e]).wave \in Nat
    BY <2>1 DEF Notice
  <2>6. /\ [wave |-> Head(from_engine[e]).wave + 1, running |-> FALSE] \in State
        /\ [wave |-> Head(from_engine[e]).wave, running |-> TRUE] \in State
    BY <2>5, SMT DEF State
  <2>7. published' \in [Clients -> Seq(State)]
    BY <1>7, <2>3, <2>6 DEF EngineNotice
  <2>8. start' \in [Engines -> Seq(StartWave)]
    BY <1>7, <2>4, <2>5 DEF EngineNotice
  <2>9. QED
    BY <1>7, <2>2, <2>7, <2>8 DEF EngineNotice
<1>8. ASSUME NEW c \in Clients, Republish(c) PROVE MessageOK'
  <2>1. <<coordinator>> \in Seq(State)
    BY SMT DEF WeakTypeOK
  <2>2. QED
    BY <1>8, <2>1 DEF Republish, cvars
<1>9. ASSUME NEW e \in Engines, NEW c \in Clients, HandleRequest(e, c) PROVE MessageOK'
  <2>1. Tail(to_engine[c][e]) \in Seq(Request)
    BY <1>9, TailFacts, SMT DEF HandleRequest
  <2>2. to_engine' \in [Clients -> [Engines -> Seq(Request)]]
    BY <1>9, <2>1 DEF HandleRequest
  <2>3. [type |-> "start_wave", wave |-> current_wave[e]] \in Notice
    BY DEF WeakTypeOK, Notice
  <2>4. from_engine' \in [Engines -> Seq(Notice)]
    <3> DEFINE m == [type |-> "start_wave", wave |-> current_wave[e]]
    <3>1. from_engine' = from_engine \/ from_engine' = [from_engine EXCEPT ![e] = Append(@, m)]
      BY <1>9 DEF HandleRequest, Add, Pause, Resume
    <3>2. m \in Notice
      BY <2>3
    <3> HIDE DEF m
    <3>3. from_engine \in [Engines -> Seq(Notice)]
      OBVIOUS
    <3>4. [from_engine EXCEPT ![e] = Append(@, m)] \in [Engines -> Seq(Notice)]
      BY ONLY <3>2, <3>3, e \in Engines, AppendType, Zenon
    <3>5. QED
      BY <3>1, <3>3, <3>4
  <2>5. QED
    BY <1>9, <2>2, <2>4 DEF HandleRequest, cvars
<1>10. ASSUME NEW e \in Engines, HandleAbort(e) PROVE MessageOK'
  BY <1>10 DEF HandleAbort, cvars, mvars
<1>11. ASSUME NEW e \in Engines, StartDpWave(e) PROVE MessageOK'
  <2>1. Tail(start[e]) \in Seq(StartWave)
    BY <1>11, TailFacts DEF StartDpWave
  <2>2. QED
    BY <1>11, <2>1 DEF StartDpWave, cvars
<1>12. ASSUME NEW e \in Engines, NotifyIdle(e) PROVE MessageOK'
  BY <1>12 DEF NotifyIdle, cvars, mvars
<1>13. ASSUME NEW e \in Engines, Step(e) PROVE MessageOK'
  BY <1>13 DEF Step, cvars, mvars
<1>14. ASSUME NEW finished, ForwardPass(finished) PROVE MessageOK'
  BY <1>14 DEF ForwardPass, cvars, mvars
<1>15. CASE SyncDpState
  <2>1. [type |-> "wave_complete", wave |-> current_wave[0]] \in Notice
    BY DataParallelAssumption DEF WeakTypeOK, Notice
  <2>2. from_engine' \in [Engines -> Seq(Notice)]
    <3> DEFINE m == [type |-> "wave_complete", wave |-> current_wave[0]]
    <3>1. from_engine' = from_engine \/ from_engine' = [from_engine EXCEPT ![0] = Append(@, m)]
      BY <1>15 DEF SyncDpState
    <3>2. m \in Notice
      BY <2>1
    <3> HIDE DEF m
    <3>3. from_engine \in [Engines -> Seq(Notice)]
      OBVIOUS
    <3>4. [from_engine EXCEPT ![0] = Append(@, m)] \in [Engines -> Seq(Notice)]
      BY ONLY <3>2, <3>3, DataParallelAssumption, AppendType, Zenon
    <3>5. QED
      BY <3>1, <3>3, <3>4
  <2>3. QED
    BY <1>15, <2>2 DEF SyncDpState, cvars
<1>16. CASE ResumeBarrier
  BY <1>16 DEF ResumeBarrier, cvars, mvars
<1>17. CASE UNCHANGED vars
  BY <1>17 DEF vars
<1>18. QED
  BY <1>1, <1>2, <1>3, <1>4, <1>5, <1>6, <1>7, <1>8, <1>9, <1>10, <1>11, <1>12, <1>13,
     <1>14, <1>15, <1>16, <1>17 DEF Next, EngineStep, Collective

\* The state of the engines, the coordinator and the front ends keeps its
\* type: every action.
LEMMA WeakTypeStep == WeakTypeOK /\ MessageOK /\ [Next]_vars => WeakTypeOK'
<1> SUFFICES ASSUME WeakTypeOK, MessageOK, [Next]_vars
             PROVE  WeakTypeOK'
    OBVIOUS
<1> USE DEF WeakTypeOK
<1>1. ASSUME NEW c \in Clients, NEW e \in Engines, AddRequest(c, e) PROVE WeakTypeOK'
  BY <1>1 DEF AddRequest, evars
<1>2. ASSUME NEW c \in Clients, SendFirstReq(c) PROVE WeakTypeOK'
  <2>1. client' \in [Clients -> State]
    BY <1>2 DEF SendFirstReq, State
  <2>2. QED
    BY <1>2, <2>1 DEF SendFirstReq, evars
<1>3. ASSUME NEW c \in Clients, ReceiveState(c) PROVE WeakTypeOK'
  <2>1. published[c] \in Seq(State) /\ published[c] # <<>>
    BY <1>3 DEF ReceiveState, MessageOK
  <2>2. Head(published[c]) \in State
    BY <2>1, TailFacts
  <2>3. QED
    BY <1>3, <2>2 DEF ReceiveState, evars
<1>4. ASSUME NEW mode \in PauseModes, PauseAll(mode) PROVE WeakTypeOK'
  BY <1>4 DEF PauseAll, cvars
<1>5. CASE ResumeAll
  BY <1>5 DEF ResumeAll, cvars
<1>6. ASSUME NEW c \in Clients, FirstReq(c) PROVE WeakTypeOK'
  <2>1. [wave |-> coordinator.wave, running |-> TRUE] \in State
    BY DEF State
  <2>2. coordinator' \in State
    BY <1>6, <2>1 DEF FirstReq, Publish
  <2>3. QED
    BY <1>6, <2>2 DEF FirstReq, evars
<1>7. ASSUME NEW e \in Engines, EngineNotice(e) PROVE WeakTypeOK'
  <2>1. Head(from_engine[e]) \in Notice
    BY <1>7, TailFacts DEF EngineNotice, MessageOK
  <2>2. /\ [wave |-> Head(from_engine[e]).wave + 1, running |-> FALSE] \in State
        /\ [wave |-> Head(from_engine[e]).wave, running |-> TRUE] \in State
    BY <2>1, SMT DEF State, Notice
  <2>3. coordinator' \in State
    BY <1>7, <2>2 DEF EngineNotice, Publish
  <2>4. QED
    BY <1>7, <2>3 DEF EngineNotice, evars
<1>8. ASSUME NEW c \in Clients, Republish(c) PROVE WeakTypeOK'
  BY <1>8 DEF Republish, evars, cvars
<1>9. ASSUME NEW e \in Engines, NEW c \in Clients, HandleRequest(e, c) PROVE WeakTypeOK'
  <2> DEFINE msg == Head(to_engine[c][e])
  <2>1. msg \in Request
    BY <1>9, TailFacts, SMT DEF HandleRequest, MessageOK
  <2>2. CASE msg.type = "add" /\ Add(e, msg.wave)
    <3>1. msg.wave \in Nat
      BY <2>1, <2>2 DEF Request
    <3> HIDE DEF msg
    <3>2. current_wave[e] \in Nat
      OBVIOUS
    <3> DEFINE w == Max({current_wave[e], msg.wave})
    <3>3. w \in Nat
      BY ONLY <3>1, <3>2, MaxTwo, Zenon
    <3>a. /\ current_wave' = [current_wave EXCEPT ![e] = w]
          /\ waiting' = [waiting EXCEPT ![e] = @ + 1]
          /\ \/ engines_running' = engines_running
             \/ engines_running' = [engines_running EXCEPT ![e] = TRUE]
      BY <2>2 DEF Add
    <3> HIDE DEF w
    <3>4. /\ current_wave' \in [Engines -> Nat]
          /\ waiting' \in [Engines -> Nat]
          /\ engines_running' \in [Engines -> BOOLEAN]
      <4>1. current_wave' \in [Engines -> Nat]
        BY <3>a, <3>3
      <4>2. waiting' \in [Engines -> Nat]
        BY <3>a, SMT
      <4>3. engines_running' \in [Engines -> BOOLEAN]
        BY <3>a
      <4>4. QED  BY <4>1, <4>2, <4>3
    <3>5. QED
      BY <1>9, <2>2, <3>4 DEF HandleRequest, Add, cvars
  <2>3. CASE msg.type = "pause" /\ Pause(e, msg.mode)
    <3> HIDE DEF msg
    <3>1. waiting' \in [Engines -> Nat] /\ active' \in [Engines -> Nat]
      BY <2>3, SMT DEF Pause
    <3>2. /\ pause_state' \in [Engines -> {"unpaused", "new", "all"}]
          /\ pending_pause' \in [Engines -> BOOLEAN]
          /\ engines_running' \in [Engines -> BOOLEAN]
      BY <2>3 DEF Pause
    <3>3. QED
      BY <1>9, <2>3, <3>1, <3>2 DEF HandleRequest, Pause, cvars
  <2>4. CASE msg.type = "resume" /\ Resume(e)
    BY <1>9, <2>4 DEF HandleRequest, Resume, cvars, Waits
  <2>5. QED
    BY <1>9, <2>2, <2>3, <2>4 DEF HandleRequest
<1>10. ASSUME NEW e \in Engines, HandleAbort(e) PROVE WeakTypeOK'
  BY <1>10, SMT DEF HandleAbort, cvars
<1>11. ASSUME NEW e \in Engines, StartDpWave(e) PROVE WeakTypeOK'
  <2>1. Head(start[e]) \in StartWave
    BY <1>11, TailFacts DEF StartDpWave, MessageOK
  <2>2. Head(start[e]).wave \in Nat
    BY <2>1 DEF StartWave
  <2>3. current_wave' \in [Engines -> Nat] /\ engines_running' \in [Engines -> BOOLEAN]
    <3>1. \/ UNCHANGED <<current_wave, engines_running>>
          \/ /\ current_wave' = [current_wave EXCEPT ![e] = Head(start[e]).wave]
             /\ engines_running' = [engines_running EXCEPT ![e] = TRUE]
      BY <1>11 DEF StartDpWave
    <3>2. QED
      BY <2>2, <3>1
  <2>4. QED
    BY <1>11, <2>3 DEF StartDpWave, cvars
<1>12. ASSUME NEW e \in Engines, NotifyIdle(e) PROVE WeakTypeOK'
  BY <1>12 DEF NotifyIdle, cvars
<1>13. ASSUME NEW e \in Engines, Step(e) PROVE WeakTypeOK'
  BY <1>13, SMT DEF Step, cvars, Waits
<1>14. ASSUME NEW finished, ForwardPass(finished) PROVE WeakTypeOK'
  <2>1. \A e \in Engines : (step_counter[e] + 1) % SyncPeriod \in 0 .. SyncPeriod - 1
    BY ModFacts, DataParallelAssumption, SMT
  <2>2. QED
    BY <1>14, <2>1 DEF ForwardPass, cvars, Waits
<1>15. CASE SyncDpState
  <2>1. 0 \in 0 .. SyncPeriod - 1
    BY DataParallelAssumption, SMT
  <2>2. PICK unfinished \in BOOLEAN :
           /\ engines_running' = [e \in Engines |-> unfinished]
           /\ IF unfinished
              THEN UNCHANGED <<current_wave, step_counter>>
              ELSE /\ current_wave' = [e \in Engines |-> current_wave[e] + 1]
                   /\ step_counter' = [e \in Engines |-> 0]
    BY <1>15 DEF SyncDpState
  <2>3. /\ ignore_start' \in [Engines -> BOOLEAN]
        /\ pending_pause' \in [Engines -> BOOLEAN]
    BY <1>15, SMT DEF SyncDpState
  <2>4. QED
    <3>1. /\ current_wave' \in [Engines -> Nat] /\ engines_running' \in [Engines -> BOOLEAN]
          /\ step_counter' \in [Engines -> 0 .. SyncPeriod - 1]
      BY <2>1, <2>2, SMT
    <3>2. QED
      BY <1>15, <2>3, <3>1 DEF SyncDpState, cvars
<1>16. CASE ResumeBarrier
  BY <1>16 DEF ResumeBarrier, cvars
<1>17. CASE UNCHANGED vars
  BY <1>17 DEF vars
<1>18. QED
  BY <1>1, <1>2, <1>3, <1>4, <1>5, <1>6, <1>7, <1>8, <1>9, <1>10, <1>11, <1>12, <1>13,
     <1>14, <1>15, <1>16, <1>17 DEF Next, EngineStep, Collective

-----------------------------------------------------------------------------
(* No engine has more requests than were issued.                           *)

\* A request that is sent is one more on its way to its engine.
LEMMA AddsAppended ==
    ASSUME MessageOK, NEW c \in Clients, NEW e \in Engines, NEW m \in Request,
           to_engine' = [to_engine EXCEPT ![c][e] = Append(@, m)]
    PROVE  /\ Adds(e)' \subseteq Adds(e) \cup {<<c, Len(to_engine[c][e]) + 1>>}
           /\ \A f \in Engines \ {e} : Adds(f)' = Adds(f)
<1>1. /\ to_engine'[c][e] = Append(to_engine[c][e], m)
      /\ \A d \in Clients, f \in Engines : d # c \/ f # e => to_engine'[d][f] = to_engine[d][f]
    BY DEF MessageOK
<1>2. to_engine[c][e] \in Seq(Request)
    BY DEF MessageOK
<1>3. /\ Len(to_engine[c][e]) \in Nat
      /\ Len(to_engine'[c][e]) = Len(to_engine[c][e]) + 1
      /\ \A i \in 1 .. Len(to_engine[c][e]) + 1 :
            to_engine'[c][e][i] = IF i = Len(to_engine[c][e]) + 1 THEN m ELSE to_engine[c][e][i]
    BY ONLY <1>1, <1>2, m \in Request, AppendFacts, SMT
<1>4. ASSUME NEW x \in Adds(e)', x \notin Adds(e) PROVE x = <<c, Len(to_engine[c][e]) + 1>>
  <2>1. x \in Clients \X (Nat \ {0}) /\ x = <<x[1], x[2]>>
    BY <1>4, SMT DEF Adds
  <2>2. x[1] = c
    BY <1>1, <1>4, <2>1 DEF Adds
  <2>3. x[2] = Len(to_engine[c][e]) + 1
    BY <1>3, <1>4, <2>1, <2>2, SMT DEF Adds
  <2>4. QED
    BY <2>1, <2>2, <2>3
<1>5. \A f \in Engines \ {e} : Adds(f)' = Adds(f)
    BY <1>1, SMT DEF Adds
<1>6. QED
    BY <1>4, <1>5

\* A pause or a resume is not a request.
LEMMA AddsTold ==
    ASSUME MessageOK, NEW m \in Request, m.type # "add", TellEngines(m)
    PROVE  \A e \in Engines : Adds(e)' = Adds(e)
<1> SUFFICES ASSUME NEW e \in Engines PROVE Adds(e)' = Adds(e)
    OBVIOUS
<1>1. /\ to_engine'[Boss][e] = Append(to_engine[Boss][e], m)
      /\ \A d \in Clients \ {Boss} : to_engine'[d][e] = to_engine[d][e]
    BY BossIsClient DEF MessageOK, TellEngines
<1>2. to_engine[Boss][e] \in Seq(Request)
    BY BossIsClient DEF MessageOK
<1>3. /\ Len(to_engine[Boss][e]) \in Nat
      /\ Len(to_engine'[Boss][e]) = Len(to_engine[Boss][e]) + 1
      /\ \A i \in 1 .. Len(to_engine[Boss][e]) + 1 :
            to_engine'[Boss][e][i] =
               IF i = Len(to_engine[Boss][e]) + 1 THEN m ELSE to_engine[Boss][e][i]
    BY ONLY <1>1, <1>2, m \in Request, AppendFacts, SMT
<1>4. ASSUME NEW d \in Clients, NEW i \in Nat \ {0}
      PROVE  <<d, i>> \in Adds(e)' <=> <<d, i>> \in Adds(e)
  <2>1. CASE d = Boss
    <3>1. <<d, i>> \in Adds(e) <=> /\ i <= Len(to_engine[Boss][e])
                                   /\ to_engine[Boss][e][i].type = "add"
      BY <2>1 DEF Adds
    <3>2. <<d, i>> \in Adds(e)' <=> /\ i <= Len(to_engine'[Boss][e])
                                    /\ to_engine'[Boss][e][i].type = "add"
      BY <2>1 DEF Adds
    <3>3. CASE i <= Len(to_engine[Boss][e])
      BY ONLY i \in Nat \ {0}, <1>3, <3>1, <3>2, <3>3, SMT
    <3>4. CASE i > Len(to_engine[Boss][e])
      BY ONLY i \in Nat \ {0}, m.type # "add", <1>3, <3>1, <3>2, <3>4, SMT
    <3>5. QED
      BY <1>3, <3>3, <3>4, SMT
  <2>2. CASE d # Boss
    BY <1>1, <2>2 DEF Adds
  <2>3. QED
    BY <2>1, <2>2
<1>5. Adds(e)' \subseteq Clients \X (Nat \ {0}) /\ Adds(e) \subseteq Clients \X (Nat \ {0})
    BY DEF Adds
<1>6. QED
    BY <1>4, <1>5, SMT

\* A message that is handled is no longer on its way.
LEMMA AddsHandled ==
    ASSUME MessageOK, NEW c \in Clients, NEW e \in Engines, to_engine[c][e] # <<>>,
           to_engine' = [to_engine EXCEPT ![c][e] = Tail(@)],
           \A f \in Engines : IsFiniteSet(Adds(f))
    PROVE  /\ \A f \in Engines \ {e} : Adds(f)' = Adds(f)
           /\ IsFiniteSet(Adds(e)')
           /\ Cardinality(Adds(e)') <= Cardinality(Adds(e))
           /\ Head(to_engine[c][e]).type = "add" =>
                 Cardinality(Adds(e)') < Cardinality(Adds(e))
<1>1. /\ to_engine'[c][e] = Tail(to_engine[c][e])
      /\ \A d \in Clients, f \in Engines : d # c \/ f # e => to_engine'[d][f] = to_engine[d][f]
    BY DEF MessageOK
<1>2. to_engine[c][e] \in Seq(Request)
    BY DEF MessageOK
<1>3. /\ Head(to_engine[c][e]) = to_engine[c][e][1]
      /\ Len(to_engine[c][e]) \in Nat \ {0}
      /\ Len(to_engine'[c][e]) = Len(to_engine[c][e]) - 1
      /\ \A i \in 1 .. Len(to_engine[c][e]) - 1 : to_engine'[c][e][i] = to_engine[c][e][i + 1]
    BY ONLY <1>1, <1>2, to_engine[c][e] # <<>>, TailFacts, SMT
<1>4. \A f \in Engines \ {e} : Adds(f)' = Adds(f)
    BY <1>1, SMT DEF Adds
<1> DEFINE T == Adds(e) \ {<<c, 1>>}
           g == [x \in Adds(e)' |-> IF x[1] = c THEN <<c, x[2] + 1>> ELSE x]
<1>5. ASSUME NEW x \in Adds(e)' PROVE g[x] \in T
  <2>1. x \in Clients \X (Nat \ {0}) /\ x = <<x[1], x[2]>> /\ x[2] \in Nat \ {0}
    BY SMT DEF Adds
  <2>2. CASE x[1] = c
    <3>1. x[2] <= Len(to_engine[c][e]) - 1 /\ to_engine'[c][e][x[2]].type = "add"
      BY <1>3, <2>2 DEF Adds
    <3>2. to_engine[c][e][x[2] + 1].type = "add" /\ x[2] + 1 <= Len(to_engine[c][e])
      BY <1>3, <2>1, <3>1, SMT
    <3>3. <<c, x[2] + 1>> \in Adds(e)
      BY <2>1, <3>2, SMT DEF Adds
    <3>4. QED
      BY <2>1, <2>2, <3>3, SMT
  <2>3. CASE x[1] # c
    <3>1. x[2] <= Len(to_engine'[x[1]][e]) /\ to_engine'[x[1]][e][x[2]].type = "add"
      BY DEF Adds
    <3>2. to_engine'[x[1]][e] = to_engine[x[1]][e]
      BY <1>1, <2>1, <2>3
    <3>3. x \in Adds(e)
      BY <2>1, <3>1, <3>2 DEF Adds
    <3>4. x # <<c, 1>>
      BY <2>1, <2>3, SMT
    <3>5. QED
      BY <2>3, <3>3, <3>4
  <2>4. QED
    BY <2>2, <2>3
<1>6. ASSUME NEW x \in Adds(e)', NEW y \in Adds(e)', g[x] = g[y] PROVE x = y
  <2>1. /\ x = <<x[1], x[2]>> /\ x[2] \in Nat \ {0}
        /\ y = <<y[1], y[2]>> /\ y[2] \in Nat \ {0}
    BY SMT DEF Adds
  <2>2. QED
    BY <1>6, <2>1, SMT
<1>7. g \in Injection(Adds(e)', T)
  <2>1. g \in [Adds(e)' -> T]
    BY <1>5
  <2>2. QED
    BY <1>6, <2>1 DEF Injection, IsInjective
<1>8. IsFiniteSet(T) /\ Cardinality(T) <= Cardinality(Adds(e))
    BY FS_Subset
<1>9. IsFiniteSet(Adds(e)') /\ Cardinality(Adds(e)') <= Cardinality(T)
    BY <1>7, <1>8, FS_Injection
<1>10. Cardinality(T) \in Nat /\ Cardinality(Adds(e)) \in Nat /\ Cardinality(Adds(e)') \in Nat
    BY <1>8, <1>9, FS_CardinalityType
<1>11. ASSUME Head(to_engine[c][e]).type = "add"
       PROVE  Cardinality(T) = Cardinality(Adds(e)) - 1
  <2>1. <<c, 1>> \in Adds(e)
    BY <1>3, <1>11, SMT DEF Adds
  <2>2. QED
    BY <2>1, FS_RemoveElement
<1>12. QED
    BY <1>4, <1>8, <1>9, <1>10, <1>11, SMT

\* CountInv after a step that sends and handles no request.
LEMMA CountKept ==
    ASSUME WeakTypeOK, WeakTypeOK', CountInv,
           issued' = issued, pauses' \in Nat, issued + pauses' <= MaxCalls,
           \A e \in Engines : Adds(e)' = Adds(e),
           \A e \in Engines : waiting'[e] + active'[e] <= waiting[e] + active[e]
    PROVE  CountInv'
<1>1. ASSUME NEW e \in Engines
      PROVE  /\ IsFiniteSet(Adds(e)')
             /\ waiting'[e] + active'[e] + Cardinality(Adds(e)') <= issued'
  <2>1. Adds(e)' = Adds(e) /\ IsFiniteSet(Adds(e))
    BY DEF CountInv
  <2>2. Cardinality(Adds(e)) \in Nat /\ Cardinality(Adds(e)') = Cardinality(Adds(e))
    BY <2>1, FS_CardinalityType
  <2>3. /\ waiting[e] \in Nat /\ active[e] \in Nat /\ waiting'[e] \in Nat /\ active'[e] \in Nat
        /\ issued \in Nat
        /\ waiting[e] + active[e] + Cardinality(Adds(e)) <= issued
    BY DEF WeakTypeOK, CountInv
  <2>4. QED
    BY <2>1, <2>2, <2>3, SMT
<1>2. QED
    BY <1>1 DEF CountInv

\* CountInv in every step.  A request is counted when it is sent, on its way,
\* while it waits and while it runs.
LEMMA CountStep == WeakTypeOK /\ WeakTypeOK' /\ MessageOK /\ CountInv /\ [Next]_vars => CountInv'
<1> SUFFICES ASSUME WeakTypeOK, WeakTypeOK', MessageOK, CountInv, [Next]_vars
             PROVE  CountInv'
    OBVIOUS
<1> USE DataParallelAssumption
<1>0. /\ waiting \in [Engines -> Nat] /\ active \in [Engines -> Nat]
      /\ issued \in Nat /\ pauses \in Nat /\ issued + pauses <= MaxCalls
    BY DEF WeakTypeOK, CountInv
<1>a. ASSUME UNCHANGED <<to_engine, issued, pauses>>,
             \A e \in Engines : waiting'[e] + active'[e] <= waiting[e] + active[e]
      PROVE  CountInv'
    BY <1>0, <1>a, CountKept DEF Adds
<1>b. ASSUME UNCHANGED <<to_engine, issued, pauses, waiting, active>> PROVE CountInv'
    BY <1>0, <1>a, <1>b, SMT
<1>1. ASSUME NEW c \in Clients, NEW e \in Engines, AddRequest(c, e) PROVE CountInv'
  <2> DEFINE m == [type |-> "add", wave |-> client[c].wave]
             x == <<c, Len(to_engine[c][e]) + 1>>
  <2>1. m \in Request
    BY DEF WeakTypeOK, State, Request
  <2>2. to_engine' = [to_engine EXCEPT ![c][e] = Append(@, m)]
    BY <1>1 DEF AddRequest
  <2> HIDE DEF m
  <2>3. Adds(e)' \subseteq Adds(e) \cup {x} /\ \A f \in Engines \ {e} : Adds(f)' = Adds(f)
    BY <2>1, <2>2, AddsAppended
  <2>4. /\ issued' = issued + 1 /\ pauses' = pauses /\ issued + pauses < MaxCalls
        /\ waiting' = waiting /\ active' = active
    BY <1>1 DEF AddRequest, evars
  <2> HIDE DEF x
  <2>5. ASSUME NEW f \in Engines
        PROVE  IsFiniteSet(Adds(f)') /\ Cardinality(Adds(f)') <= Cardinality(Adds(f)) + 1
    <3>1. IsFiniteSet(Adds(f)) /\ Cardinality(Adds(f)) \in Nat
      BY FS_CardinalityType DEF CountInv
    <3>a. /\ IsFiniteSet(Adds(f) \cup {x})
          /\ \/ Cardinality(Adds(f) \cup {x}) = Cardinality(Adds(f))
             \/ Cardinality(Adds(f) \cup {x}) = Cardinality(Adds(f)) + 1
      BY <3>1, FS_AddElement
    <3>2. /\ IsFiniteSet(Adds(f) \cup {x})
          /\ Cardinality(Adds(f) \cup {x}) <= Cardinality(Adds(f)) + 1
      BY <3>1, <3>a, SMT
    <3>3. Adds(f)' \in SUBSET (Adds(f) \cup {x})
      BY <2>3
    <3>4. IsFiniteSet(Adds(f)') /\ Cardinality(Adds(f)') <= Cardinality(Adds(f) \cup {x})
      BY <3>2, <3>3, FS_Subset
    <3>5. Cardinality(Adds(f)') \in Nat /\ Cardinality(Adds(f) \cup {x}) \in Nat
      BY <3>2, <3>4, FS_CardinalityType
    <3>6. QED
      BY <3>1, <3>2, <3>4, <3>5, SMT
  <2>6. ASSUME NEW f \in Engines
        PROVE  /\ IsFiniteSet(Adds(f)')
               /\ waiting'[f] + active'[f] + Cardinality(Adds(f)') <= issued'
    <3>1. waiting[f] + active[f] + Cardinality(Adds(f)) <= issued
      BY DEF CountInv
    <3>2. Cardinality(Adds(f)) \in Nat /\ Cardinality(Adds(f)') \in Nat
      BY <2>5, FS_CardinalityType DEF CountInv
    <3>3. waiting[f] \in Nat /\ active[f] \in Nat
      BY <1>0
    <3>4. QED
      BY <1>0, <2>4, <2>5, <3>1, <3>2, <3>3, SMT
  <2>7. QED
    BY <1>0, <2>4, <2>6, SMT DEF CountInv
<1>2. ASSUME NEW c \in Clients, SendFirstReq(c) PROVE CountInv'
  BY <1>b, <1>2 DEF SendFirstReq, evars, hvars
<1>3. ASSUME NEW c \in Clients, ReceiveState(c) PROVE CountInv'
  BY <1>b, <1>3 DEF ReceiveState, evars, hvars
<1>4. ASSUME NEW mode \in PauseModes, PauseAll(mode) PROVE CountInv'
  <2> DEFINE m == [type |-> "pause", mode |-> mode]
  <2>1. m \in Request /\ m.type # "add"
    BY DEF Request
  <2>2. /\ TellEngines(m) /\ pauses' = pauses + 1 /\ issued + pauses < MaxCalls
        /\ issued' = issued /\ waiting' = waiting /\ active' = active
    BY <1>4 DEF PauseAll
  <2> HIDE DEF m
  <2>3. \A e \in Engines : Adds(e)' = Adds(e)
    BY <2>1, <2>2, AddsTold
  <2>4. pauses' \in Nat /\ issued + pauses' <= MaxCalls
    BY <1>0, <2>2, SMT
  <2>5. QED
    BY <1>0, <2>2, <2>3, <2>4, CountKept, SMT
<1>5. CASE ResumeAll
  <2> DEFINE m == [type |-> "resume"]
  <2>1. m \in Request /\ m.type # "add"
    BY DEF Request
  <2>2. /\ TellEngines(m) /\ pauses' = pauses
        /\ issued' = issued /\ waiting' = waiting /\ active' = active
    BY <1>5 DEF ResumeAll, hvars
  <2> HIDE DEF m
  <2>3. \A e \in Engines : Adds(e)' = Adds(e)
    BY <2>1, <2>2, AddsTold
  <2>4. QED
    BY <1>0, <2>2, <2>3, CountKept, SMT
<1>6. ASSUME NEW c \in Clients, FirstReq(c) PROVE CountInv'
  BY <1>b, <1>6 DEF FirstReq, evars, hvars
<1>7. ASSUME NEW e \in Engines, EngineNotice(e) PROVE CountInv'
  BY <1>b, <1>7 DEF EngineNotice, evars, hvars
<1>8. ASSUME NEW c \in Clients, Republish(c) PROVE CountInv'
  BY <1>b, <1>8 DEF Republish, evars, hvars
<1>9. ASSUME NEW e \in Engines, NEW c \in Clients, HandleRequest(e, c) PROVE CountInv'
  <2> DEFINE msg == Head(to_engine[c][e])
  <2>1. /\ to_engine[c][e] # <<>>
        /\ to_engine' = [to_engine EXCEPT ![c][e] = Tail(@)]
        /\ issued' = issued /\ pauses' = pauses
    BY <1>9 DEF HandleRequest
  <2>2. /\ \A f \in Engines \ {e} : Adds(f)' = Adds(f)
        /\ IsFiniteSet(Adds(e)')
        /\ Cardinality(Adds(e)') <= Cardinality(Adds(e))
        /\ msg.type = "add" => Cardinality(Adds(e)') < Cardinality(Adds(e))
    <3>1. \A f \in Engines : IsFiniteSet(Adds(f))
      BY DEF CountInv
    <3>2. QED
      BY <2>1, <3>1, AddsHandled
  <2>3. \/ msg.type = "add" /\ waiting' = [waiting EXCEPT ![e] = @ + 1] /\ active' = active
        \/ waiting' = waiting /\ active' = active
        \/ waiting' = [waiting EXCEPT ![e] = 0] /\ active' = [active EXCEPT ![e] = 0]
    BY <1>9 DEF HandleRequest, Add, Pause, Resume
  <2> HIDE DEF msg
  <2>4. ASSUME NEW f \in Engines
        PROVE  /\ IsFiniteSet(Adds(f)')
               /\ waiting'[f] + active'[f] + Cardinality(Adds(f)') <= issued'
    <3>1. waiting[f] + active[f] + Cardinality(Adds(f)) <= issued /\ IsFiniteSet(Adds(f))
      BY DEF CountInv
    <3>2. IsFiniteSet(Adds(f)')
      BY <2>2, <3>1
    <3>3. Cardinality(Adds(f)) \in Nat /\ Cardinality(Adds(f)') \in Nat
      BY <3>1, <3>2, FS_CardinalityType
    <3>4. waiting[f] \in Nat /\ active[f] \in Nat
      BY <1>0
    <3>5. CASE f = e
      <4>1. \/ /\ msg.type = "add"
               /\ waiting'[f] = waiting[f] + 1 /\ active'[f] = active[f]
            \/ waiting'[f] = waiting[f] /\ active'[f] = active[f]
            \/ waiting'[f] = 0 /\ active'[f] = 0
        BY <1>0, <2>3, <3>5
      <4>2. /\ Cardinality(Adds(f)') <= Cardinality(Adds(f))
            /\ msg.type = "add" => Cardinality(Adds(f)') < Cardinality(Adds(f))
        BY <2>2, <3>5
      <4>3. issued \in Nat /\ issued' = issued
        BY <1>0, <2>1
      <4>4. waiting'[f] + active'[f] + Cardinality(Adds(f)') <= issued'
        BY ONLY <3>1, <3>3, <3>4, <4>1, <4>2, <4>3, SMT
      <4>5. QED
        BY <3>2, <4>4
    <3>6. CASE f # e
      BY <1>0, <2>1, <2>2, <2>3, <3>1, <3>2, <3>3, <3>4, <3>6
    <3>7. QED
      BY <3>5, <3>6
  <2>5. QED
    BY <1>0, <2>1, <2>4 DEF CountInv
<1>10. ASSUME NEW e \in Engines, HandleAbort(e) PROVE CountInv'
  <2>1. \/ waiting' = [waiting EXCEPT ![e] = @ - 1] /\ active' = active
        \/ active' = [active EXCEPT ![e] = @ - 1] /\ waiting' = waiting
    BY <1>10 DEF HandleAbort
  <2>2. \A f \in Engines : waiting'[f] + active'[f] <= waiting[f] + active[f]
    BY <1>0, <2>1, SMT
  <2>3. QED
    BY <1>a, <1>10, <2>2 DEF HandleAbort, mvars
<1>11. ASSUME NEW e \in Engines, StartDpWave(e) PROVE CountInv'
  BY <1>b, <1>11 DEF StartDpWave, hvars
<1>12. ASSUME NEW e \in Engines, NotifyIdle(e) PROVE CountInv'
  BY <1>b, <1>12 DEF NotifyIdle, mvars, hvars
<1>13. ASSUME NEW e \in Engines, Step(e) PROVE CountInv'
  <2>1. \/ active' = [active EXCEPT ![e] = @ + waiting[e]] /\ waiting' = [waiting EXCEPT ![e] = 0]
        \/ active' = active /\ waiting' = waiting
    BY <1>13 DEF Step
  <2>2. \A f \in Engines : waiting'[f] + active'[f] <= waiting[f] + active[f]
    BY <1>0, <2>1, SMT
  <2>3. QED
    BY <1>a, <1>13, <2>2 DEF Step, mvars, hvars
<1>14. ASSUME NEW finished, ForwardPass(finished) PROVE CountInv'
  <2>1. /\ active' = [e \in Engines |-> IF e \in finished THEN 0 ELSE active[e]]
        /\ waiting' = waiting
    BY <1>14 DEF ForwardPass
  <2>2. \A f \in Engines : waiting'[f] + active'[f] <= waiting[f] + active[f]
    BY <1>0, <2>1, SMT
  <2>3. QED
    BY <1>a, <1>14, <2>2 DEF ForwardPass, mvars
<1>15. CASE SyncDpState
  BY <1>b, <1>15 DEF SyncDpState, hvars
<1>16. CASE ResumeBarrier
  BY <1>b, <1>16 DEF ResumeBarrier, mvars, hvars
<1>17. CASE UNCHANGED vars
  BY <1>b, <1>17 DEF vars
<1>18. QED
  BY <1>1, <1>2, <1>3, <1>4, <1>5, <1>6, <1>7, <1>8, <1>9, <1>10, <1>11, <1>12, <1>13,
     <1>14, <1>15, <1>16, <1>17 DEF Next, EngineStep, Collective

\* An engine that has no more requests than were issued has no more than MaxCalls.
LEMMA TypeFromCount == WeakTypeOK /\ CountInv => TypeOK
<1> SUFFICES ASSUME WeakTypeOK, CountInv PROVE TypeOK
    OBVIOUS
<1>1. ASSUME NEW e \in Engines PROVE waiting[e] \in 0 .. MaxCalls /\ active[e] \in 0 .. MaxCalls
  <2>1. /\ waiting[e] \in Nat /\ active[e] \in Nat /\ issued \in Nat /\ pauses \in Nat
        /\ issued + pauses <= MaxCalls /\ IsFiniteSet(Adds(e))
        /\ waiting[e] + active[e] + Cardinality(Adds(e)) <= issued
    BY DEF WeakTypeOK, CountInv
  <2>2. Cardinality(Adds(e)) \in Nat
    BY <2>1, FS_CardinalityType
  <2>3. QED
    BY <2>1, <2>2, DataParallelAssumption, SMT
<1>2. QED
    BY <1>1 DEF WeakTypeOK, TypeOK, State

-----------------------------------------------------------------------------
(* Pause and resume.                                                       *)

\* When get_num_unfinished_requests is positive.
LEMMA UnfinishedFacts ==
    ASSUME WeakTypeOK, NEW e \in Engines
    PROVE  HasUnfinished(e) <=> \/ pause_state[e] = "unpaused" /\ waiting[e] + active[e] > 0
                                \/ pause_state[e] = "new" /\ active[e] > 0
<1>1. pause_state[e] \in {"unpaused", "new", "all"}
    BY DEF WeakTypeOK
<1>2. CASE pause_state[e] = "unpaused"
    BY <1>2 DEF HasUnfinished
<1>3. CASE pause_state[e] = "new"
    BY <1>3 DEF HasUnfinished
<1>4. CASE pause_state[e] = "all"
    BY <1>4 DEF HasUnfinished
<1>5. QED
    BY <1>1, <1>2, <1>3, <1>4

\* Handling a request, an abort or START_DP_WAVE and starting a step do not
\* disturb an engine that is Quiet.
LEMMA QuietKept ==
    ASSUME WeakTypeOK, NEW e \in Engines,
           \/ \E wave : Add(e, wave)
           \/ HandleAbort(e)
           \/ StartDpWave(e)
           \/ Step(e)
    PROVE  /\ \A f \in Engines : Quiet(f) => Quiet(f)'
           /\ \A f \in Engines : engines_running[f] => engines_running'[f]
           /\ UNCHANGED <<pause_state, pending_pause, ignore_start, future>>
<1>1. ASSUME NEW wave, Add(e, wave)
      PROVE  /\ \A f \in Engines : Quiet(f) => Quiet(f)'
             /\ \A f \in Engines : engines_running[f] => engines_running'[f]
             /\ UNCHANGED <<pause_state, pending_pause, ignore_start, future>>
  <2>1. /\ \/ engines_running' = engines_running
           \/ /\ engines_running' = [engines_running EXCEPT ![e] = TRUE]
              /\ pause_state[e] = "unpaused"
        /\ UNCHANGED <<pc, active, pause_state, pending_pause, ignore_start, future>>
    BY <1>1 DEF Add
  <2>2. QED
    BY <2>1 DEF Quiet, WeakTypeOK
<1>2. CASE HandleAbort(e)
  <2>1. /\ UNCHANGED <<pc, engines_running, pause_state, pending_pause, ignore_start, future>>
        /\ \/ active' = active
           \/ active[e] > 0 /\ active' = [active EXCEPT ![e] = @ - 1]
    BY <1>2 DEF HandleAbort
  <2>2. QED
    BY <2>1, SMT DEF Quiet, WeakTypeOK
<1>3. CASE StartDpWave(e)
  <2>1. /\ \/ engines_running' = engines_running
           \/ /\ engines_running' = [engines_running EXCEPT ![e] = TRUE]
              /\ ~ignore_start[e]
        /\ UNCHANGED <<pc, active, pause_state, pending_pause, ignore_start, future>>
    BY <1>3 DEF StartDpWave
  <2>2. QED
    BY <2>1 DEF Quiet, WeakTypeOK
<1>4. CASE Step(e)
  <2>1. ~Quiet(e)
    BY <1>4, UnfinishedFacts, SMT DEF Step, HasWork, Quiet, WeakTypeOK
  <2>2. /\ UNCHANGED <<engines_running, pause_state, pending_pause, ignore_start, future>>
        /\ \A f \in Engines \ {e} : pc'[f] = pc[f] /\ active'[f] = active[f]
    BY <1>4 DEF Step, WeakTypeOK
  <2>3. QED
    BY <2>1, <2>2 DEF Quiet
<1>5. QED
    BY <1>1, <1>2, <1>3, <1>4

\* PauseInv and ResumeInv depend on these variables only.
LEMMA PauseFrame ==
    ASSUME PauseInv, ResumeInv,
           UNCHANGED <<pc, active, engines_running, pause_state, pending_pause, ignore_start, future>>
    PROVE  PauseInv' /\ ResumeInv'
    BY DEF PauseInv, ResumeInv, Quiet

\* PauseInv keeps as long as a Quiet engine stays so and none stops.
LEMMA PauseKept ==
    ASSUME PauseInv,
           \A f \in Engines : Quiet(f) => Quiet(f)',
           \A f \in Engines : engines_running[f] => engines_running'[f],
           UNCHANGED <<pause_state, pending_pause, ignore_start, future>>
    PROVE  PauseInv'
    BY DEF PauseInv

\* What the one pause or resume in the queue of an engine says.
LEMMA CallFacts ==
    ASSUME MessageOK, CallInv, NEW c \in Clients, NEW e \in Engines, to_engine[c][e] # <<>>
    PROVE  LET msg == Head(to_engine[c][e])
           IN  /\ msg \in Request
               /\ msg.type = "pause" => future[e] = "sent"
               /\ msg.type = "resume" => future[e] = "resuming"
<1>1. to_engine[c][e] \in Seq(Request)
    BY DEF MessageOK
<1>2. /\ Head(to_engine[c][e]) = to_engine[c][e][1] /\ 1 \in 1 .. Len(to_engine[c][e])
      /\ Head(to_engine[c][e]) \in Request
    BY <1>1, TailFacts, SMT
<1>3. QED
    BY <1>2, SMT DEF CallInv

\* PauseInv in every step: the engines agree on a pause in the all-reduce.
LEMMA PauseStep ==
    WeakTypeOK /\ MessageOK /\ CallInv /\ PauseInv /\ ResumeInv /\ [Next]_vars => PauseInv'
<1> SUFFICES ASSUME WeakTypeOK, MessageOK, CallInv, PauseInv, ResumeInv, [Next]_vars
             PROVE  PauseInv'
    OBVIOUS
<1>1. ASSUME NEW c \in Clients, NEW e \in Engines, AddRequest(c, e) PROVE PauseInv'
  BY <1>1, PauseFrame DEF AddRequest, evars
<1>2. ASSUME NEW c \in Clients, SendFirstReq(c) PROVE PauseInv'
  BY <1>2, PauseFrame DEF SendFirstReq, evars
<1>3. ASSUME NEW c \in Clients, ReceiveState(c) PROVE PauseInv'
  BY <1>3, PauseFrame DEF ReceiveState, evars
<1>4. ASSUME NEW mode \in PauseModes, PauseAll(mode) PROVE PauseInv'
  <2>1. /\ \A e \in Engines : future[e] = "none" /\ future'[e] = "sent"
        /\ UNCHANGED <<pause_state, pending_pause>>
    BY <1>4 DEF PauseAll
  <2>2. QED
    BY <2>1 DEF PauseInv, Asked
<1>5. CASE ResumeAll
  <2>1. /\ \A e \in Engines : future[e] = "done" /\ future'[e] = "resuming"
        /\ UNCHANGED <<pause_state, pending_pause>>
    BY <1>5 DEF ResumeAll
  <2>2. QED
    BY <2>1 DEF PauseInv, Asked, Quiet
<1>6. ASSUME NEW c \in Clients, FirstReq(c) PROVE PauseInv'
  BY <1>6, PauseFrame DEF FirstReq, evars
<1>7. ASSUME NEW e \in Engines, EngineNotice(e) PROVE PauseInv'
  BY <1>7, PauseFrame DEF EngineNotice, evars
<1>8. ASSUME NEW c \in Clients, Republish(c) PROVE PauseInv'
  BY <1>8, PauseFrame DEF Republish, evars
<1>9. ASSUME NEW e \in Engines, NEW c \in Clients, HandleRequest(e, c) PROVE PauseInv'
  <2> DEFINE msg == Head(to_engine[c][e])
  <2>1. /\ msg.type = "pause" => future[e] = "sent"
        /\ msg.type = "resume" => future[e] = "resuming"
    BY <1>9, CallFacts DEF HandleRequest
  <2>2. pc[e] = "input"
    BY <1>9 DEF HandleRequest
  <2>3. CASE msg.type = "add" /\ Add(e, msg.wave)
    BY <2>3, QuietKept, PauseKept
  <2>4. CASE msg.type = "pause" /\ Pause(e, msg.mode)
    <3>1. /\ future' = [future EXCEPT ![e] = "pending"]
          /\ pending_pause' = [pending_pause EXCEPT ![e] = TRUE]
          /\ engines_running' = [engines_running EXCEPT ![e] = TRUE]
          /\ \A f \in Engines \ {e} : pause_state'[f] = pause_state[f]
          /\ pause_state'[e] # "unpaused"
          /\ UNCHANGED <<pc, ignore_start>>
      BY <2>4 DEF Pause, WeakTypeOK
    <3>2. \A f \in Engines :
             /\ future[f] \in {"sent", "pending"}
             /\ future[f] = "pending" => engines_running[f] /\ pending_pause[f]
      BY <2>1, <2>4 DEF PauseInv, Asked, Heard
    <3>3. ASSUME NEW f \in Engines
          PROVE  /\ future'[f] \in {"sent", "pending"}
                 /\ future'[f] = "pending" => /\ pause_state'[f] # "unpaused"
                                              /\ engines_running'[f] /\ pending_pause'[f]
                 /\ pending_pause'[f] => future'[f] = "pending"
                 /\ future'[f] = "sent" => pause_state'[f] = "unpaused"
      <4>1. CASE f = e
        BY <3>1, <4>1 DEF WeakTypeOK
      <4>2. CASE f # e
        BY <3>1, <3>2, <4>2, SMT DEF WeakTypeOK, PauseInv
      <4>3. QED
        BY <4>1, <4>2
    <3>4. QED
      BY <3>3 DEF PauseInv, Asked
  <2>5. CASE msg.type = "resume" /\ Resume(e)
    <3>1. Quiet(e) /\ \A f \in Engines : future[f] \in {"none", "resuming"}
      BY <2>1, <2>2, <2>5 DEF ResumeInv, PauseInv, Asked
    <3>2. /\ future' = [future EXCEPT ![e] = "none"]
          /\ pause_state' = [pause_state EXCEPT ![e] = "unpaused"]
          /\ pending_pause' = pending_pause
      BY <2>5, <3>1 DEF Resume, Quiet
    <3>3. ASSUME NEW f \in Engines
          PROVE  /\ future'[f] \in {"none", "resuming"}
                 /\ ~pending_pause'[f]
                 /\ future'[f] = "none" => pause_state'[f] = "unpaused"
      BY <3>1, <3>2 DEF WeakTypeOK, PauseInv
    <3>4. QED
      BY <3>3 DEF PauseInv, Asked
  <2>6. QED
    BY <1>9, <2>3, <2>4, <2>5 DEF HandleRequest
<1>10. ASSUME NEW e \in Engines, HandleAbort(e) PROVE PauseInv'
  BY <1>10, QuietKept, PauseKept
<1>11. ASSUME NEW e \in Engines, StartDpWave(e) PROVE PauseInv'
  BY <1>11, QuietKept, PauseKept
<1>12. ASSUME NEW e \in Engines, NotifyIdle(e) PROVE PauseInv'
  <2>1. /\ future[e] = "pending" /\ ~engines_running[e]
        /\ future' = [future EXCEPT ![e] = "done"]
        /\ UNCHANGED <<pc, active, engines_running, pause_state, pending_pause, ignore_start>>
    BY <1>12 DEF NotifyIdle, HasWork
  <2>2. \A f \in Engines : Quiet(f) /\ future[f] \in Heard
    BY <2>1 DEF PauseInv
  <2>3. \A f \in Engines : Quiet(f)' /\ future'[f] \in Heard /\ ~pending_pause'[f]
    BY <2>1, <2>2, SMT DEF Quiet, Heard, WeakTypeOK
  <2>4. \A f \in Engines : ignore_start'[f] /\ pause_state'[f] # "unpaused"
    BY <2>3 DEF Quiet
  <2>5. QED
    BY <2>3, <2>4 DEF PauseInv, Asked, Heard
<1>13. ASSUME NEW e \in Engines, Step(e) PROVE PauseInv'
  BY <1>13, QuietKept, PauseKept
<1>14. ASSUME NEW finished, ForwardPass(finished) PROVE PauseInv'
  <2>1. /\ \A f \in Engines : ~Quiet(f)
        /\ \A f \in Engines : engines_running[f] => engines_running'[f]
        /\ UNCHANGED <<pause_state, pending_pause, ignore_start, future>>
    BY <1>14 DEF ForwardPass, Together, Quiet
  <2>2. QED
    BY <2>1, PauseKept
<1>15. CASE SyncDpState
  <2>1. \A f \in Engines : pc[f] = "sync" /\ ~Quiet(f) /\ future[f] # "done"
    BY <1>15 DEF SyncDpState, Together, Quiet, PauseInv
  <2> DEFINE paused == {e \in Engines : pending_pause[e]}
  <2>2. PICK unfinished \in {\/ \E e \in Engines : HasUnfinished(e)
                             \/ paused \notin {{}, Engines}} :
           /\ ignore_start' = [e \in Engines |-> ignore_start[e] \/ paused = Engines]
           /\ pending_pause' = [e \in Engines |-> pending_pause[e] /\ paused # Engines]
           /\ engines_running' = [e \in Engines |-> unfinished]
    BY <1>15 DEF SyncDpState
  <2>3. UNCHANGED <<active, pause_state, future>> /\ pc' = [e \in Engines |-> "input"]
    BY <1>15 DEF SyncDpState
  <2>4. ASSUME ~unfinished, NEW f \in Engines PROVE pause_state[f] = "new" => active[f] = 0
    BY <2>2, <2>4, UnfinishedFacts, SMT DEF WeakTypeOK
  <2>5. CASE paused = Engines
    <3>1. \A f \in Engines : future[f] = "pending" /\ pause_state[f] # "unpaused"
      BY <2>5 DEF PauseInv
    <3>2. \A f \in Engines : ignore_start'[f] /\ ~pending_pause'[f] /\ future'[f] = "pending"
                             /\ pause_state'[f] # "unpaused"
      BY <2>2, <2>3, <2>5, <3>1
    <3>3. \A f \in Engines : engines_running'[f] \/ \A g \in Engines : Quiet(g)'
      <4>1. CASE unfinished
        BY <2>2, <4>1
      <4>2. CASE ~unfinished
        BY <2>2, <2>3, <2>4, <3>2, <4>2 DEF Quiet
      <4>3. QED
        BY <4>1, <4>2
    <3>4. QED
      BY <3>2, <3>3 DEF PauseInv, Asked, Heard
  <2>6. CASE paused # Engines
    <3>1. \A f \in Engines : (pending_pause'[f] <=> pending_pause[f])
                             /\ (ignore_start'[f] <=> ignore_start[f])
      BY <2>2, <2>6 DEF WeakTypeOK
    <3>2. ASSUME NEW e \in Engines, future[e] = "pending", ~engines_running'[e]
          PROVE  \A f \in Engines : Quiet(f)' /\ future'[f] \in Heard
      <4>1. ~unfinished /\ paused = {}
        BY <2>2, <2>6, <3>2
      <4>2. ~pending_pause[e]
        BY <4>1
      <4>3. \A f \in Engines : ignore_start[f] /\ ~pending_pause[f] /\ future[f] \in Heard
        BY <3>2, <4>2 DEF PauseInv
      <4>4. \A f \in Engines : future[f] = "pending" /\ pause_state[f] # "unpaused"
        BY <2>1, <4>3 DEF Heard, PauseInv
      <4>5. QED
        BY <2>2, <2>3, <2>4, <3>1, <4>1, <4>3, <4>4 DEF Quiet, Heard
    <3>3. QED
      BY <2>1, <2>3, <3>1, <3>2 DEF PauseInv
  <2>7. QED
    BY <2>5, <2>6
<1>16. CASE ResumeBarrier
  <2>1. /\ \A f \in Engines : ~Quiet(f)
        /\ \A f \in Engines : engines_running[f] => engines_running'[f]
        /\ UNCHANGED <<pause_state, pending_pause, ignore_start, future>>
    BY <1>16 DEF ResumeBarrier, Together, Quiet
  <2>2. QED
    BY <2>1, PauseKept
<1>17. CASE UNCHANGED vars
  BY <1>17, PauseFrame DEF vars
<1>18. QED
  BY <1>1, <1>2, <1>3, <1>4, <1>5, <1>6, <1>7, <1>8, <1>9, <1>10, <1>11, <1>12, <1>13,
     <1>14, <1>15, <1>16, <1>17 DEF Next, EngineStep, Collective

\* ResumeInv keeps when no engine is at the barrier or on its way to it.
LEMMA NoResume ==
    ASSUME NEW e \in Engines, ResumeInv, pc[e] # "resume", ~(future[e] = "resuming" /\ Quiet(e))
    PROVE  \A f \in Engines : pc[f] # "resume" /\ future[f] # "resuming"
    BY DEF ResumeInv

\* ResumeInv in every step: an engine gets to the barrier of
\* resume_scheduler without being started before.
LEMMA ResumeStep ==
    WeakTypeOK /\ MessageOK /\ CallInv /\ PauseInv /\ ResumeInv /\ [Next]_vars => ResumeInv'
<1> SUFFICES ASSUME WeakTypeOK, MessageOK, CallInv, PauseInv, ResumeInv, [Next]_vars
             PROVE  ResumeInv'
    OBVIOUS
<1>a. ASSUME \A f \in Engines : pc'[f] # "resume" /\ future'[f] # "resuming" PROVE ResumeInv'
  BY <1>a DEF ResumeInv
<1>1. ASSUME NEW c \in Clients, NEW e \in Engines, AddRequest(c, e) PROVE ResumeInv'
  BY <1>1, PauseFrame DEF AddRequest, evars
<1>2. ASSUME NEW c \in Clients, SendFirstReq(c) PROVE ResumeInv'
  BY <1>2, PauseFrame DEF SendFirstReq, evars
<1>3. ASSUME NEW c \in Clients, ReceiveState(c) PROVE ResumeInv'
  BY <1>3, PauseFrame DEF ReceiveState, evars
<1>4. ASSUME NEW mode \in PauseModes, PauseAll(mode) PROVE ResumeInv'
  <2>1. /\ \A e \in Engines : future[e] = "none" /\ future'[e] = "sent"
        /\ pc' = pc
    BY <1>4 DEF PauseAll
  <2>2. QED
    BY <2>1 DEF ResumeInv
<1>5. CASE ResumeAll
  <2>1. /\ \A e \in Engines : future[e] = "done" /\ future'[e] = "resuming"
        /\ UNCHANGED <<pc, active, engines_running, pause_state, pending_pause, ignore_start>>
    BY <1>5 DEF ResumeAll
  <2>2. \A f \in Engines : Quiet(f)' /\ pc'[f] = "input"
    BY <2>1 DEF PauseInv, Quiet
  <2>3. QED
    BY <2>1, <2>2 DEF ResumeInv
<1>6. ASSUME NEW c \in Clients, FirstReq(c) PROVE ResumeInv'
  BY <1>6, PauseFrame DEF FirstReq, evars
<1>7. ASSUME NEW e \in Engines, EngineNotice(e) PROVE ResumeInv'
  BY <1>7, PauseFrame DEF EngineNotice, evars
<1>8. ASSUME NEW c \in Clients, Republish(c) PROVE ResumeInv'
  BY <1>8, PauseFrame DEF Republish, evars
<1>9. ASSUME NEW e \in Engines, NEW c \in Clients, HandleRequest(e, c) PROVE ResumeInv'
  <2> DEFINE msg == Head(to_engine[c][e])
  <2>1. /\ msg.type = "pause" => future[e] = "sent"
        /\ msg.type = "resume" => future[e] = "resuming"
    BY <1>9, CallFacts DEF HandleRequest
  <2>2. pc[e] = "input"
    BY <1>9 DEF HandleRequest
  <2>3. CASE msg.type = "add" /\ Add(e, msg.wave)
    <3>1. pc' = pc /\ future' = future /\ \A f \in Engines : Quiet(f) => Quiet(f)'
      BY <2>3, QuietKept DEF Add
    <3>2. QED
      BY <3>1 DEF ResumeInv
  <2>4. CASE msg.type = "pause" /\ Pause(e, msg.mode)
    <3>1. \A f \in Engines : pc[f] # "resume" /\ future[f] # "resuming"
      BY <2>1, <2>2, <2>4, NoResume
    <3>2. future' = [future EXCEPT ![e] = "pending"] /\ pc' = pc
      BY <2>4 DEF Pause
    <3>3. QED
      BY <1>a, <3>1, <3>2 DEF WeakTypeOK
  <2>5. CASE msg.type = "resume" /\ Resume(e)
    <3>1. Quiet(e) /\ \A f \in Engines : pc[f] = "resume" \/ (future[f] = "resuming" /\ Quiet(f))
      BY <2>1, <2>2, <2>5 DEF ResumeInv
    <3>2. /\ future' = [future EXCEPT ![e] = "none"]
          /\ pause_state' = [pause_state EXCEPT ![e] = "unpaused"]
          /\ ignore_start' = [ignore_start EXCEPT ![e] = FALSE]
          /\ pc' = [pc EXCEPT ![e] = "resume"]
          /\ UNCHANGED <<pending_pause, engines_running, active>>
      BY <2>5, <3>1 DEF Resume, Quiet
    <3>3. \A f \in Engines \ {e} : /\ Quiet(f)' <=> Quiet(f)
                                   /\ pc'[f] = pc[f] /\ future'[f] = future[f]
      BY <3>2 DEF Quiet, WeakTypeOK
    <3>4. pc'[e] = "resume" /\ future'[e] = "none"
      BY <3>2 DEF WeakTypeOK
    <3>5. \A f \in Engines : pc'[f] = "resume" \/ (future'[f] = "resuming" /\ Quiet(f)')
      BY <3>1, <3>3, <3>4
    <3>6. \A f \in Engines : pc'[f] = "resume" => future'[f] \in {"none", "sent"}
      BY <3>3, <3>4 DEF ResumeInv
    <3>7. QED
      BY <3>5, <3>6 DEF ResumeInv
  <2>6. QED
    BY <1>9, <2>3, <2>4, <2>5 DEF HandleRequest
<1>10. ASSUME NEW e \in Engines, HandleAbort(e) PROVE ResumeInv'
  <2>1. pc' = pc /\ future' = future /\ \A f \in Engines : Quiet(f) => Quiet(f)'
    BY <1>10, QuietKept DEF HandleAbort
  <2>2. QED
    BY <2>1 DEF ResumeInv
<1>11. ASSUME NEW e \in Engines, StartDpWave(e) PROVE ResumeInv'
  <2>1. pc' = pc /\ future' = future /\ \A f \in Engines : Quiet(f) => Quiet(f)'
    BY <1>11, QuietKept DEF StartDpWave
  <2>2. QED
    BY <2>1 DEF ResumeInv
<1>12. ASSUME NEW e \in Engines, NotifyIdle(e) PROVE ResumeInv'
  <2>1. /\ pc[e] = "input" /\ future[e] = "pending" /\ pc' = pc
        /\ future' = [future EXCEPT ![e] = "done"]
    BY <1>12 DEF NotifyIdle
  <2>2. \A f \in Engines : pc[f] # "resume" /\ future[f] # "resuming"
    BY <2>1, NoResume
  <2>3. QED
    BY <1>a, <2>1, <2>2 DEF WeakTypeOK
<1>13. ASSUME NEW e \in Engines, Step(e) PROVE ResumeInv'
  <2>1. ~Quiet(e)
    BY <1>13, UnfinishedFacts, SMT DEF Step, HasWork, Quiet, WeakTypeOK
  <2>2. /\ pc[e] = "input" /\ pc' = [pc EXCEPT ![e] = "forward"] /\ future' = future
    BY <1>13 DEF Step
  <2>3. \A f \in Engines : pc[f] # "resume" /\ future[f] # "resuming"
    BY <2>1, <2>2, NoResume
  <2>4. QED
    BY <1>a, <2>2, <2>3 DEF WeakTypeOK
<1>14. ASSUME NEW finished, ForwardPass(finished) PROVE ResumeInv'
  <2>1. /\ \A f \in Engines : pc[f] = "forward" /\ pc'[f] # "resume"
        /\ future' = future
    BY <1>14 DEF ForwardPass, Together
  <2>2. \A f \in Engines : ~Quiet(f)
    BY <2>1 DEF Quiet
  <2>3. QED
    BY <1>a, <2>1, <2>2, NoResume
<1>15. CASE SyncDpState
  <2>1. /\ \A f \in Engines : pc[f] = "sync" /\ pc'[f] # "resume"
        /\ future' = future
    BY <1>15 DEF SyncDpState, Together
  <2>2. \A f \in Engines : ~Quiet(f)
    BY <2>1 DEF Quiet
  <2>3. QED
    BY <1>a, <2>1, <2>2, NoResume
<1>16. CASE ResumeBarrier
  <2>1. /\ \A f \in Engines : pc[f] = "resume" /\ pc'[f] # "resume"
        /\ future' = future
    BY <1>16 DEF ResumeBarrier, Together
  <2>2. \A f \in Engines : future[f] \in {"none", "sent"}
    BY <2>1 DEF ResumeInv
  <2>3. QED
    BY <1>a, <2>1, <2>2
<1>17. CASE UNCHANGED vars
  BY <1>17, PauseFrame DEF vars
<1>18. QED
  BY <1>1, <1>2, <1>3, <1>4, <1>5, <1>6, <1>7, <1>8, <1>9, <1>10, <1>11, <1>12, <1>13,
     <1>14, <1>15, <1>16, <1>17 DEF Next, EngineStep, Collective

\* PassInv in every step: all engines make the same number of passes between
\* two all-reduces.
LEMMA PassStep == WeakTypeOK /\ PassInv /\ [Next]_vars => PassInv'
<1> SUFFICES ASSUME WeakTypeOK, PassInv, [Next]_vars
             PROVE  PassInv'
    OBVIOUS
<1>a. ASSUME UNCHANGED <<pc, step_counter>> PROVE PassInv'
  BY <1>a DEF PassInv
<1>1. ASSUME NEW c \in Clients, NEW e \in Engines, AddRequest(c, e) PROVE PassInv'
  BY <1>a, <1>1 DEF AddRequest, evars
<1>2. ASSUME NEW c \in Clients, SendFirstReq(c) PROVE PassInv'
  BY <1>a, <1>2 DEF SendFirstReq, evars
<1>3. ASSUME NEW c \in Clients, ReceiveState(c) PROVE PassInv'
  BY <1>a, <1>3 DEF ReceiveState, evars
<1>4. ASSUME NEW mode \in PauseModes, PauseAll(mode) PROVE PassInv'
  BY <1>a, <1>4 DEF PauseAll
<1>5. CASE ResumeAll
  BY <1>a, <1>5 DEF ResumeAll
<1>6. ASSUME NEW c \in Clients, FirstReq(c) PROVE PassInv'
  BY <1>a, <1>6 DEF FirstReq, evars
<1>7. ASSUME NEW e \in Engines, EngineNotice(e) PROVE PassInv'
  BY <1>a, <1>7 DEF EngineNotice, evars
<1>8. ASSUME NEW c \in Clients, Republish(c) PROVE PassInv'
  BY <1>a, <1>8 DEF Republish, evars
<1>9. ASSUME NEW e \in Engines, NEW c \in Clients, HandleRequest(e, c) PROVE PassInv'
  <2>1. /\ step_counter' = step_counter /\ pc[e] = "input"
        /\ pc' = pc \/ pc' = [pc EXCEPT ![e] = "resume"]
    BY <1>9 DEF HandleRequest, Add, Pause, Resume
  <2>2. QED
    BY <2>1, SMT DEF PassInv, WeakTypeOK
<1>10. ASSUME NEW e \in Engines, HandleAbort(e) PROVE PassInv'
  BY <1>a, <1>10 DEF HandleAbort
<1>11. ASSUME NEW e \in Engines, StartDpWave(e) PROVE PassInv'
  BY <1>a, <1>11 DEF StartDpWave
<1>12. ASSUME NEW e \in Engines, NotifyIdle(e) PROVE PassInv'
  BY <1>a, <1>12 DEF NotifyIdle
<1>13. ASSUME NEW e \in Engines, Step(e) PROVE PassInv'
  BY <1>13 DEF Step, PassInv, WeakTypeOK
<1>14. ASSUME NEW finished, ForwardPass(finished) PROVE PassInv'
  <2>1. \A e \in Engines : /\ step_counter'[e] = (step_counter[e] + 1) % SyncPeriod
                           /\ pc'[e] = IF step_counter'[e] = 0 THEN "sync" ELSE "input"
    BY <1>14 DEF ForwardPass
  <2>2. QED
    BY <2>1, SMT DEF PassInv
<1>15. CASE SyncDpState
  <2>1. /\ \A e \in Engines : pc'[e] = "input"
        /\ \/ step_counter' = step_counter
           \/ step_counter' = [e \in Engines |-> 0]
    BY <1>15 DEF SyncDpState
  <2>2. QED
    BY <2>1, SMT DEF PassInv
<1>16. CASE ResumeBarrier
  BY <1>16 DEF ResumeBarrier, PassInv
<1>17. CASE UNCHANGED vars
  BY <1>a, <1>17 DEF vars
<1>18. QED
  BY <1>1, <1>2, <1>3, <1>4, <1>5, <1>6, <1>7, <1>8, <1>9, <1>10, <1>11, <1>12, <1>13,
     <1>14, <1>15, <1>16, <1>17 DEF Next, EngineStep, Collective

\* CallInv after TellEngines, when no call was on its way.
LEMMA CallTold ==
    ASSUME MessageOK, CallInv, NEW m \in Request, TellEngines(m),
           \A e \in Engines : future[e] \notin {"sent", "resuming"},
           \A e \in Engines : /\ m.type = "pause" => future'[e] = "sent"
                              /\ m.type = "resume" => future'[e] = "resuming"
    PROVE  CallInv'
<1> SUFFICES ASSUME NEW c \in Clients, NEW e \in Engines,
                    NEW i \in 1 .. Len(to_engine'[c][e]), to_engine'[c][e][i].type # "add"
             PROVE  /\ c = Boss
                    /\ to_engine'[c][e][i].type = "pause" => future'[e] = "sent"
                    /\ to_engine'[c][e][i].type = "resume" => future'[e] = "resuming"
                    /\ \A j \in 1 .. Len(to_engine'[c][e]) :
                          to_engine'[c][e][j].type # "add" => i = j
    BY DEF CallInv
<1>1. \A d \in Clients : \A j \in 1 .. Len(to_engine[d][e]) : to_engine[d][e][j].type = "add"
  <2>1. \A d \in Clients : to_engine[d][e] \in Seq(Request)
    BY DEF MessageOK
  <2>2. ASSUME NEW d \in Clients, NEW j \in 1 .. Len(to_engine[d][e])
        PROVE  to_engine[d][e][j].type \in {"add", "pause", "resume"}
    <3>1. to_engine[d][e][j] \in Request
      BY <2>1, SMT
    <3>2. QED
      BY <3>1 DEF Request
  <2>3. QED
    BY <2>2, SMT DEF CallInv
<1>2. /\ to_engine'[Boss][e] = Append(to_engine[Boss][e], m)
      /\ \A d \in Clients \ {Boss} : to_engine'[d][e] = to_engine[d][e]
    BY BossIsClient DEF MessageOK, TellEngines
<1>3. to_engine[Boss][e] \in Seq(Request)
    BY BossIsClient DEF MessageOK
<1>4. /\ Len(to_engine[Boss][e]) \in Nat
      /\ Len(to_engine'[Boss][e]) = Len(to_engine[Boss][e]) + 1
      /\ \A j \in 1 .. Len(to_engine[Boss][e]) + 1 :
            to_engine'[Boss][e][j] =
               IF j = Len(to_engine[Boss][e]) + 1 THEN m ELSE to_engine[Boss][e][j]
    BY ONLY <1>2, <1>3, m \in Request, AppendFacts, SMT
<1>5. c = Boss
    BY <1>1, <1>2
<1>6. \A j \in 1 .. Len(to_engine'[c][e]) :
         to_engine'[c][e][j].type # "add" => j = Len(to_engine[Boss][e]) + 1
  <2>1. ASSUME NEW j \in 1 .. Len(to_engine'[Boss][e]), j # Len(to_engine[Boss][e]) + 1
        PROVE  to_engine'[Boss][e][j].type = "add"
    <3>1. j \in 1 .. Len(to_engine[Boss][e])
      BY <1>4, <2>1, SMT
    <3>2. to_engine'[Boss][e][j] = to_engine[Boss][e][j]
      BY <1>4, <2>1, <3>1
    <3>3. QED
      BY <1>1, <3>1, <3>2, BossIsClient
  <2>2. QED
    BY <1>5, <2>1
<1>7. to_engine'[c][e][i] = m
    BY <1>4, <1>5, <1>6
<1>8. QED
    BY <1>5, <1>6, <1>7

\* CallInv in every step: a call is answered before the next one is made.
LEMMA CallStep ==
    WeakTypeOK /\ MessageOK /\ CallInv /\ [Next]_vars => CallInv'
<1> SUFFICES ASSUME WeakTypeOK, MessageOK, CallInv, [Next]_vars
             PROVE  CallInv'
    OBVIOUS
<1>a. ASSUME UNCHANGED <<to_engine, future>> PROVE CallInv'
  BY <1>a, SMT DEF CallInv
<1>1. ASSUME NEW c \in Clients, NEW e \in Engines, AddRequest(c, e) PROVE CallInv'
  <2> DEFINE m == [type |-> "add", wave |-> client[c].wave]
  <2>1. m \in Request /\ m.type = "add"
    BY DEF WeakTypeOK, State, Request
  <2>2. to_engine' = [to_engine EXCEPT ![c][e] = Append(@, m)] /\ future' = future
    BY <1>1 DEF AddRequest, evars
  <2> HIDE DEF m
  <2>3. /\ to_engine'[c][e] = Append(to_engine[c][e], m)
        /\ \A d \in Clients, f \in Engines : d # c \/ f # e => to_engine'[d][f] = to_engine[d][f]
    BY <2>2 DEF MessageOK
  <2>4. to_engine[c][e] \in Seq(Request)
    BY DEF MessageOK
  <2>5. /\ Len(to_engine[c][e]) \in Nat
        /\ Len(to_engine'[c][e]) = Len(to_engine[c][e]) + 1
        /\ \A j \in 1 .. Len(to_engine[c][e]) + 1 :
              to_engine'[c][e][j] = IF j = Len(to_engine[c][e]) + 1 THEN m ELSE to_engine[c][e][j]
    BY ONLY <2>1, <2>3, <2>4, AppendFacts, SMT
  <2>6. ASSUME NEW d \in Clients, NEW f \in Engines,
               NEW i \in 1 .. Len(to_engine'[d][f]), to_engine'[d][f][i].type # "add"
        PROVE  i \in 1 .. Len(to_engine[d][f]) /\ to_engine'[d][f][i] = to_engine[d][f][i]
    <3>1. CASE d = c /\ f = e
      BY <2>1, <2>5, <2>6, <3>1, SMT
    <3>2. CASE d # c \/ f # e
      BY <2>3, <3>2
    <3>3. QED
      BY <3>1, <3>2
  <2>7. QED
    BY <2>2, <2>6, SMT DEF CallInv
<1>2. ASSUME NEW c \in Clients, SendFirstReq(c) PROVE CallInv'
  BY <1>a, <1>2 DEF SendFirstReq, evars
<1>3. ASSUME NEW c \in Clients, ReceiveState(c) PROVE CallInv'
  BY <1>a, <1>3 DEF ReceiveState, evars
<1>4. ASSUME NEW mode \in PauseModes, PauseAll(mode) PROVE CallInv'
  <2> DEFINE m == [type |-> "pause", mode |-> mode]
  <2>1. m \in Request /\ m.type = "pause"
    BY DEF Request
  <2>2. /\ TellEngines(m)
        /\ \A e \in Engines : future[e] = "none" /\ future'[e] = "sent"
    BY <1>4 DEF PauseAll
  <2> HIDE DEF m
  <2>3. QED
    BY <2>1, <2>2, CallTold
<1>5. CASE ResumeAll
  <2> DEFINE m == [type |-> "resume"]
  <2>1. m \in Request /\ m.type = "resume"
    BY DEF Request
  <2>2. /\ TellEngines(m)
        /\ \A e \in Engines : future[e] = "done" /\ future'[e] = "resuming"
    BY <1>5 DEF ResumeAll
  <2> HIDE DEF m
  <2>3. QED
    BY <2>1, <2>2, CallTold
<1>6. ASSUME NEW c \in Clients, FirstReq(c) PROVE CallInv'
  BY <1>a, <1>6 DEF FirstReq, evars
<1>7. ASSUME NEW e \in Engines, EngineNotice(e) PROVE CallInv'
  BY <1>a, <1>7 DEF EngineNotice, evars
<1>8. ASSUME NEW c \in Clients, Republish(c) PROVE CallInv'
  BY <1>a, <1>8 DEF Republish, evars
<1>9. ASSUME NEW e \in Engines, NEW c \in Clients, HandleRequest(e, c) PROVE CallInv'
  <2> DEFINE msg == Head(to_engine[c][e])
  <2>1. /\ to_engine[c][e] # <<>>
        /\ to_engine' = [to_engine EXCEPT ![c][e] = Tail(@)]
    BY <1>9 DEF HandleRequest
  <2>2. /\ to_engine'[c][e] = Tail(to_engine[c][e])
        /\ \A d \in Clients, f \in Engines : d # c \/ f # e => to_engine'[d][f] = to_engine[d][f]
    BY <2>1 DEF MessageOK
  <2>3. to_engine[c][e] \in Seq(Request)
    BY DEF MessageOK
  <2>4. /\ msg = to_engine[c][e][1]
        /\ Len(to_engine[c][e]) \in Nat \ {0}
        /\ Len(to_engine'[c][e]) = Len(to_engine[c][e]) - 1
        /\ \A i \in 1 .. Len(to_engine[c][e]) - 1 : to_engine'[c][e][i] = to_engine[c][e][i + 1]
    <3>1. to_engine[c][e] # <<>>
      BY <2>1
    <3>2. QED
      BY ONLY <2>2, <2>3, <3>1, TailFacts, SMT DEF msg
  <2>5. \/ future' = future
        \/ /\ msg.type # "add" /\ \A f \in Engines \ {e} : future'[f] = future[f]
    BY <1>9 DEF HandleRequest, Add, Pause, Resume, WeakTypeOK
  <2> HIDE DEF msg
  <2>6. ASSUME NEW d \in Clients, NEW f \in Engines, d # c \/ f # e, future'[f] = future[f],
               NEW i \in 1 .. Len(to_engine'[d][f]), to_engine'[d][f][i].type # "add"
        PROVE  /\ d = Boss
               /\ to_engine'[d][f][i].type = "pause" => future'[f] = "sent"
               /\ to_engine'[d][f][i].type = "resume" => future'[f] = "resuming"
               /\ \A j \in 1 .. Len(to_engine'[d][f]) :
                     to_engine'[d][f][j].type # "add" => i = j
    BY <2>2, <2>6, SMT DEF CallInv
  <2>7. ASSUME NEW i \in 1 .. Len(to_engine'[c][e]), to_engine'[c][e][i].type # "add"
        PROVE  /\ c = Boss
               /\ to_engine[c][e][i + 1].type # "add"
               /\ to_engine'[c][e][i] = to_engine[c][e][i + 1]
               /\ \A j \in 1 .. Len(to_engine[c][e]) : to_engine[c][e][j].type # "add" => i + 1 = j
               /\ to_engine[c][e][i + 1].type = "pause" => future[e] = "sent"
               /\ to_engine[c][e][i + 1].type = "resume" => future[e] = "resuming"
    <3>1. i + 1 \in 1 .. Len(to_engine[c][e]) /\ to_engine'[c][e][i] = to_engine[c][e][i + 1]
      BY <2>4, SMT
    <3>2. QED
      BY <2>7, <3>1 DEF CallInv
  <2>8. CASE msg.type = "add"
    <3>1. future' = future
      BY <2>5, <2>8
    <3>2. ASSUME NEW i \in 1 .. Len(to_engine'[c][e]), to_engine'[c][e][i].type # "add",
                 NEW j \in 1 .. Len(to_engine'[c][e]), to_engine'[c][e][j].type # "add"
          PROVE  i = j
      <4>1. \A k \in 1 .. Len(to_engine[c][e]) : to_engine[c][e][k].type # "add" => i + 1 = k
        BY <2>7, <3>2
      <4>a. to_engine[c][e][j + 1].type # "add"
        BY <2>7, <3>2
      <4>2. j + 1 \in 1 .. Len(to_engine[c][e])
        BY <2>4, SMT
      <4>3. QED
        BY <4>1, <4>a, <4>2, SMT
    <3>3. ASSUME NEW d \in Clients, NEW f \in Engines,
                 NEW i \in 1 .. Len(to_engine'[d][f]), to_engine'[d][f][i].type # "add"
          PROVE  /\ d = Boss
                 /\ to_engine'[d][f][i].type = "pause" => future'[f] = "sent"
                 /\ to_engine'[d][f][i].type = "resume" => future'[f] = "resuming"
                 /\ \A j \in 1 .. Len(to_engine'[d][f]) :
                       to_engine'[d][f][j].type # "add" => i = j
      <4>1. CASE d = c /\ f = e
        BY <2>7, <3>1, <3>2, <3>3, <4>1
      <4>2. CASE d # c \/ f # e
        BY <2>6, <3>1, <3>3, <4>2
      <4>3. QED
        BY <4>1, <4>2
    <3>4. QED
      BY <3>3 DEF CallInv
  <2>9. CASE msg.type # "add"
    <3>1. c = Boss /\ \A j \in 1 .. Len(to_engine[c][e]) : to_engine[c][e][j].type # "add" => j = 1
      BY <2>4, <2>9, SMT DEF CallInv
    <3>2. \A i \in 1 .. Len(to_engine'[c][e]) : to_engine'[c][e][i].type = "add"
      <4> SUFFICES ASSUME NEW i \in 1 .. Len(to_engine'[c][e]), to_engine'[c][e][i].type # "add"
                   PROVE  FALSE
        OBVIOUS
      <4>1. i + 1 \in 1 .. Len(to_engine[c][e]) /\ i + 1 # 1
        BY <2>4, SMT
      <4>2. QED
        BY <2>7, <3>1, <4>1
    <3>3. \A d \in Clients \ {c} : \A i \in 1 .. Len(to_engine'[d][e]) :
             to_engine'[d][e][i].type = "add"
      BY <2>2, <3>1, SMT DEF CallInv
    <3>4. ASSUME NEW d \in Clients, NEW f \in Engines,
                 NEW i \in 1 .. Len(to_engine'[d][f]), to_engine'[d][f][i].type # "add"
          PROVE  f # e /\ future'[f] = future[f]
      BY <2>5, <3>2, <3>3, <3>4
    <3>5. QED
      BY <2>6, <3>4, SMT DEF CallInv
  <2>10. QED
    BY <2>8, <2>9
<1>10. ASSUME NEW e \in Engines, HandleAbort(e) PROVE CallInv'
  BY <1>a, <1>10 DEF HandleAbort, mvars
<1>11. ASSUME NEW e \in Engines, StartDpWave(e) PROVE CallInv'
  BY <1>a, <1>11 DEF StartDpWave
<1>12. ASSUME NEW e \in Engines, NotifyIdle(e) PROVE CallInv'
  <2>1. /\ future[e] = "pending" /\ to_engine' = to_engine
        /\ \A f \in Engines \ {e} : future'[f] = future[f]
    BY <1>12 DEF NotifyIdle, mvars, WeakTypeOK
  <2>2. ASSUME NEW c \in Clients, NEW i \in 1 .. Len(to_engine[c][e])
        PROVE  to_engine[c][e][i].type = "add"
    <3>1. to_engine[c][e] \in Seq(Request)
      BY DEF MessageOK
    <3>2. to_engine[c][e][i] \in Request
      BY <3>1, SMT
    <3>3. to_engine[c][e][i].type \in {"add", "pause", "resume"}
      BY <3>2 DEF Request
    <3>4. QED
      BY <2>1, <3>3 DEF CallInv
  <2>3. QED
    BY <2>1, <2>2, SMT DEF CallInv
<1>13. ASSUME NEW e \in Engines, Step(e) PROVE CallInv'
  BY <1>a, <1>13 DEF Step, mvars
<1>14. ASSUME NEW finished, ForwardPass(finished) PROVE CallInv'
  BY <1>a, <1>14 DEF ForwardPass, mvars
<1>15. CASE SyncDpState
  BY <1>a, <1>15 DEF SyncDpState
<1>16. CASE ResumeBarrier
  BY <1>a, <1>16 DEF ResumeBarrier, mvars
<1>17. CASE UNCHANGED vars
  BY <1>a, <1>17 DEF vars
<1>18. QED
  BY <1>1, <1>2, <1>3, <1>4, <1>5, <1>6, <1>7, <1>8, <1>9, <1>10, <1>11, <1>12, <1>13,
     <1>14, <1>15, <1>16, <1>17 DEF Next, EngineStep, Collective

-----------------------------------------------------------------------------
(* The collective calls.                                                   *)

\* The engines start with nothing to run and no message in flight.
LEMMA CollectiveInit == Init => CollectiveInv
<1> SUFFICES ASSUME Init PROVE CollectiveInv
    OBVIOUS
<1> USE DataParallelAssumption
<1>1. WeakTypeOK
  <2>1. 0 \in 0 .. SyncPeriod - 1 /\ [wave |-> 0, running |-> FALSE] \in State
    BY SMT DEF State
  <2>2. QED
    BY <2>1 DEF Init, WeakTypeOK
<1>2. MessageOK
  BY SMT DEF Init, MessageOK
<1>3. \A c \in Clients, e \in Engines : Len(to_engine[c][e]) = 0
  BY DEF Init
<1>4. CountInv
  <2>1. ASSUME NEW e \in Engines PROVE Adds(e) = {}
    BY <1>3, SMT DEF Adds
  <2>2. QED
    <3>1. ASSUME NEW e \in Engines
          PROVE  /\ IsFiniteSet(Adds(e))
                 /\ waiting[e] + active[e] + Cardinality(Adds(e)) <= issued
      <4>1. IsFiniteSet(Adds(e)) /\ Cardinality(Adds(e)) = 0
        BY <2>1, FS_EmptySet
      <4>2. waiting[e] = 0 /\ active[e] = 0 /\ issued = 0
        BY DEF Init
      <4>3. QED
        BY <4>1, <4>2, SMT
    <3>2. QED
      BY <3>1, SMT DEF Init, CountInv
<1>5. PassInv
  BY DEF Init, PassInv
<1>6. CallInv
  BY ONLY <1>3, SMT DEF CallInv
<1>7. PauseInv
  BY DEF Init, PauseInv, Asked
<1>8. ResumeInv
  BY DEF Init, ResumeInv
<1>9. QED
  BY <1>1, <1>2, <1>4, <1>5, <1>6, <1>7, <1>8, TypeFromCount DEF CollectiveInv

\* CollectiveInv in every step.
LEMMA CollectiveStep == CollectiveInv /\ [Next]_vars => CollectiveInv'
<1> SUFFICES ASSUME CollectiveInv, [Next]_vars PROVE CollectiveInv'
    OBVIOUS
<1>1. WeakTypeOK /\ MessageOK /\ CountInv /\ PassInv /\ CallInv /\ PauseInv /\ ResumeInv
  BY TypeIsWeakType DEF CollectiveInv
<1>2. WeakTypeOK' /\ MessageOK'
  BY <1>1, WeakTypeStep, MessageStep
<1>3. CountInv'
  BY <1>1, <1>2, CountStep
<1>4. TypeOK'
  BY <1>2, <1>3, TypeFromCount, PTL
<1>5. PassInv' /\ CallInv' /\ PauseInv' /\ ResumeInv'
  BY <1>1, PassStep, CallStep, PauseStep, ResumeStep
<1>6. QED
  BY <1>2, <1>3, <1>4, <1>5 DEF CollectiveInv

\* The inductive invariant holds in every reachable state.
THEOREM CollectiveInvariant == Spec => []CollectiveInv
  BY CollectiveInit, CollectiveStep, PTL DEF Spec

\* Engines that wait for each other wait in the same collective call,
\* whatever the interleaving of requests, aborts, pauses and resumes.
THEOREM CollectiveSafety == Spec => []SameCollective
<1>1. CollectiveInv => SameCollective
  <2> SUFFICES ASSUME CollectiveInv, NEW e \in Engines, NEW f \in Engines,
                      pc[e] \in Waits, pc[f] \in Waits
               PROVE  pc[e] = pc[f]
    BY DEF SameCollective, CollectiveInv
  <2>1. pc[e] = "sync" <=> pc[f] = "sync"
    BY DEF CollectiveInv, PassInv
  <2>2. pc[e] = "resume" => pc[f] = "resume"
    BY DEF CollectiveInv, ResumeInv, Quiet, Waits
  <2>3. pc[f] = "resume" => pc[e] = "resume"
    BY DEF CollectiveInv, ResumeInv, Quiet, Waits
  <2>4. QED
    BY <2>1, <2>2, <2>3, SMT DEF Waits
<1>2. QED
  BY CollectiveInvariant, <1>1, PTL

-----------------------------------------------------------------------------
(* The inductive invariant: waves.                                         *)

Wave == current_wave[0]

\* The messages that do not run ahead of wave w.
RequestUpTo(w) == {m \in Request : m.type = "add" => m.wave <= w}
StartUpTo(w) == {m \in StartWave : m.wave <= w}
NewUpTo(w) == {m \in NewRequest : m.wave <= w}
StateUpTo(w) == {s \in State : s.wave <= w}
NoticeUpTo(w) == {m \in Notice : m.wave <= w /\ (m.type = "wave_complete" => m.wave < w)}

\* All engines are at the same wave, which nobody else is ahead of.
WaveInv ==
    /\ \A e \in Engines : current_wave[e] = Wave
    /\ coordinator \in StateUpTo(Wave)
    /\ client \in [Clients -> StateUpTo(Wave)]
    /\ to_engine \in [Clients -> [Engines -> Seq(RequestUpTo(Wave))]]
    /\ start \in [Engines -> Seq(StartUpTo(Wave))]
    /\ from_engine \in [Engines -> Seq(NoticeUpTo(Wave))]
    /\ from_client \in [Clients -> Seq(NewUpTo(Wave))]
    /\ published \in [Clients -> Seq(StateUpTo(Wave))]

\* The coordinator has heard of the end of the last wave, or will.
HeardInv ==
    \/ coordinator.wave = Wave
    \/ \E i \in 1 .. Len(from_engine[0]) : /\ from_engine[0][i].type = "wave_complete"
                                           /\ from_engine[0][i].wave = Wave - 1

\* A request is on its way to the engine or there.
HasRequest(e) ==
    \/ waiting[e] + active[e] > 0
    \/ \E c \in Clients : \E i \in 1 .. Len(to_engine[c][e]) : to_engine[c][e][i].type = "add"

Requested == {e \in Engines : HasRequest(e)}
Busy(e) == engines_running[e] \/ pc[e] = "sync" \/ HasRequest(e)

\* A FIRST_REQ is overtaken by no end of its request.
NewFor(R) == {m \in NewRequest : \E e \in R : m.target = Identity(e)}

FirstReqInv ==
    /\ first_req \in [Clients -> Seq(Requested)]
    /\ from_client \in [Clients -> Seq(NewFor(Requested))]

\* An engine that asks the coordinator to start the others runs until the end
\* of the wave.
AskInv ==
    \A e \in Engines : \A i \in 1 .. Len(from_engine[e]) :
        from_engine[e][i].type = "start_wave" /\ from_engine[e][i].wave = Wave
           => engines_running[e]

\* The coordinator takes the engines to run only when one does, or will.
BusyInv == coordinator.running /\ coordinator.wave = Wave => \E e \in Engines : Busy(e)

KnownInv == CollectiveInv /\ WaveInv /\ HeardInv /\ AskInv /\ FirstReqInv /\ BusyInv

\* Without pauses a START_DP_WAVE on its way will wake its engine, whatever has
\* become of the request that it was sent for.
Woken(e) == \E i \in 1 .. Len(start[e]) : start[e][i].wave = Wave /\ start[e][i].exclude # e

NeverPaused == \A e \in Engines : future[e] = "none" /\ ~ignore_start[e] /\ ~pending_pause[e]

StartedInv ==
    coordinator.running /\ coordinator.wave = Wave =>
        \E e \in Engines : engines_running[e] \/ pc[e] = "sync" \/ Woken(e)

UnpausedInv == CollectiveInv /\ WaveInv /\ HeardInv /\ AskInv /\ NeverPaused /\ StartedInv

-----------------------------------------------------------------------------
(* Waves.                                                                  *)

\* A sequence over a set is one over a larger set, and over any set that
\* holds its elements.
LEMMA SeqFacts ==
    ASSUME NEW S, NEW T
    PROVE  /\ S \subseteq T => Seq(S) \subseteq Seq(T)
           /\ \A q \in Seq(S) : (\A i \in 1 .. Len(q) : q[i] \in T) => q \in Seq(T)
    BY SMT

\* What is not ahead of a wave is not ahead of a later one.
LEMMA WaveGrows ==
    ASSUME WaveInv, NEW w \in Nat, Wave \in Nat, Wave <= w
    PROVE  /\ coordinator \in StateUpTo(w)
           /\ client \in [Clients -> StateUpTo(w)]
           /\ to_engine \in [Clients -> [Engines -> Seq(RequestUpTo(w))]]
           /\ start \in [Engines -> Seq(StartUpTo(w))]
           /\ from_engine \in [Engines -> Seq(NoticeUpTo(w))]
           /\ from_client \in [Clients -> Seq(NewUpTo(w))]
           /\ published \in [Clients -> Seq(StateUpTo(w))]
<1>1. /\ RequestUpTo(Wave) \subseteq RequestUpTo(w)
      /\ StartUpTo(Wave) \subseteq StartUpTo(w)
      /\ NewUpTo(Wave) \subseteq NewUpTo(w)
      /\ StateUpTo(Wave) \subseteq StateUpTo(w)
      /\ NoticeUpTo(Wave) \subseteq NoticeUpTo(w)
  <2>1. RequestUpTo(Wave) \subseteq RequestUpTo(w)
    BY SMT DEF RequestUpTo, Request
  <2>2. StartUpTo(Wave) \subseteq StartUpTo(w)
    BY SMT DEF StartUpTo, StartWave
  <2>3. NewUpTo(Wave) \subseteq NewUpTo(w)
    BY SMT DEF NewUpTo, NewRequest
  <2>4. StateUpTo(Wave) \subseteq StateUpTo(w)
    BY SMT DEF StateUpTo, State
  <2>5. NoticeUpTo(Wave) \subseteq NoticeUpTo(w)
    BY SMT DEF NoticeUpTo, Notice
  <2>6. QED
    BY <2>1, <2>2, <2>3, <2>4, <2>5
<1>2. /\ Seq(RequestUpTo(Wave)) \subseteq Seq(RequestUpTo(w))
      /\ Seq(StartUpTo(Wave)) \subseteq Seq(StartUpTo(w))
      /\ Seq(NewUpTo(Wave)) \subseteq Seq(NewUpTo(w))
      /\ Seq(StateUpTo(Wave)) \subseteq Seq(StateUpTo(w))
      /\ Seq(NoticeUpTo(Wave)) \subseteq Seq(NoticeUpTo(w))
  BY <1>1, SeqFacts
<1>3. QED
  BY <1>1, <1>2 DEF WaveInv

\* An engine's wave is not set by a request or by START_DP_WAVE, since both
\* are at most its own.
LEMMA SameWave ==
    ASSUME WeakTypeOK, WaveInv, NEW e \in Engines,
           (\E c \in Clients : HandleRequest(e, c)) \/ StartDpWave(e)
    PROVE  current_wave' = current_wave /\ Wave' = Wave
<1>1. current_wave[e] = Wave /\ Wave \in Nat
  BY DataParallelAssumption DEF WaveInv, WeakTypeOK, Wave
<1>2. ASSUME NEW c \in Clients, HandleRequest(e, c) PROVE current_wave' = current_wave
  <2> DEFINE msg == Head(to_engine[c][e])
  <2>1. to_engine[c][e] \in Seq(RequestUpTo(Wave)) /\ to_engine[c][e] # <<>>
    BY <1>2 DEF HandleRequest, WaveInv
  <2>2. msg \in RequestUpTo(Wave)
    BY <2>1, TailFacts
  <2>3. \/ current_wave' = current_wave
        \/ /\ msg.type = "add"
           /\ current_wave' = [current_wave EXCEPT ![e] = Max({Wave, msg.wave})]
    BY <1>1, <1>2 DEF HandleRequest, Add, Pause, Resume
  <2> HIDE DEF msg
  <2>4. ASSUME msg.type = "add" PROVE Max({Wave, msg.wave}) = Wave
    <3>1. msg.wave \in Nat /\ msg.wave <= Wave
      BY <2>2, <2>4 DEF RequestUpTo, Request
    <3>2. QED
      BY <1>1, <3>1, MaxTwo
  <2>5. QED
    BY <1>1, <2>3, <2>4, SMT DEF WeakTypeOK
<1>3. ASSUME StartDpWave(e) PROVE current_wave' = current_wave
  <2> DEFINE msg == Head(start[e])
  <2>1. start[e] \in Seq(StartUpTo(Wave)) /\ start[e] # <<>>
    BY <1>3 DEF StartDpWave, WaveInv
  <2>2. msg \in StartUpTo(Wave)
    BY <2>1, TailFacts
  <2>3. \/ current_wave' = current_wave
        \/ /\ msg.wave >= current_wave[e]
           /\ current_wave' = [current_wave EXCEPT ![e] = msg.wave]
    BY <1>3 DEF StartDpWave
  <2> HIDE DEF msg
  <2>4. msg.wave \in Nat /\ msg.wave <= Wave
    BY <2>2 DEF StartUpTo, StartWave
  <2>5. QED
    BY <1>1, <2>3, <2>4, SMT DEF WeakTypeOK
<1>4. QED
  BY <1>2, <1>3 DEF Wave

\* WaveInv in every step: only the all-reduce ends a wave, and the message
\* that says so is behind the next one.
LEMMA WaveStep == WeakTypeOK /\ MessageOK /\ WaveInv /\ [Next]_vars => WaveInv'
<1> SUFFICES ASSUME WeakTypeOK, MessageOK, WaveInv, [Next]_vars
             PROVE  WaveInv'
    OBVIOUS
<1>0. 0 \in Engines /\ Wave \in Nat
  BY DataParallelAssumption DEF WeakTypeOK, Wave
<1>a. coordinator.wave \in Nat /\ coordinator.wave <= Wave
  BY DEF WaveInv, StateUpTo, State
<1>1. ASSUME NEW c \in Clients, NEW e \in Engines, AddRequest(c, e) PROVE WaveInv'
  <2>1. Wave' = Wave /\ current_wave' = current_wave
    BY <1>1 DEF AddRequest, evars, Wave
  <2>2. client[c] \in StateUpTo(Wave)
    BY DEF WaveInv
  <2>3. [type |-> "add", wave |-> client[c].wave] \in RequestUpTo(Wave)
    BY <2>2 DEF StateUpTo, State, Request, RequestUpTo
  <2>4. to_engine' \in [Clients -> [Engines -> Seq(RequestUpTo(Wave))]]
    BY <1>1, <2>3, SMT DEF AddRequest, WaveInv
  <2>5. QED
    BY <1>1, <2>1, <2>4 DEF AddRequest, WaveInv
<1>2. ASSUME NEW c \in Clients, SendFirstReq(c) PROVE WaveInv'
  <2>1. Wave' = Wave /\ current_wave' = current_wave
    BY <1>2 DEF SendFirstReq, evars, Wave
  <2>2. client[c] \in StateUpTo(Wave)
    BY DEF WaveInv
  <2>3. client' \in [Clients -> StateUpTo(Wave)]
    BY <1>2, <2>2 DEF SendFirstReq, WaveInv, StateUpTo, State
  <2> DEFINE m == [target |-> Identity(Head(first_req[c])), wave |-> client[c].wave]
  <2>4. m \in NewUpTo(Wave)
    <3>1. first_req[c] \in Seq(Engines) /\ first_req[c] # <<>>
      BY <1>2 DEF SendFirstReq, MessageOK
    <3>2. Head(first_req[c]) \in Engines
      BY <3>1, TailFacts
    <3>3. QED
      BY <2>2, <3>2 DEF StateUpTo, State, NewRequest, NewUpTo, Identities
  <2>5. from_client' = [from_client EXCEPT ![c] = Append(@, m)]
    BY <1>2 DEF SendFirstReq
  <2> HIDE DEF m
  <2>6. from_client' \in [Clients -> Seq(NewUpTo(Wave))]
    BY <2>4, <2>5, AppendType DEF WaveInv
  <2>7. QED
    BY <1>2, <2>1, <2>3, <2>6 DEF SendFirstReq, WaveInv
<1>3. ASSUME NEW c \in Clients, ReceiveState(c) PROVE WaveInv'
  <2>1. Wave' = Wave /\ current_wave' = current_wave
    BY <1>3 DEF ReceiveState, evars, Wave
  <2>2. published[c] \in Seq(StateUpTo(Wave)) /\ published[c] # <<>>
    BY <1>3 DEF ReceiveState, WaveInv
  <2>3. Tail(published[c]) \in Seq(StateUpTo(Wave)) /\ Head(published[c]) \in StateUpTo(Wave)
    BY <2>2, TailFacts
  <2>4. /\ published' \in [Clients -> Seq(StateUpTo(Wave))]
        /\ client' \in [Clients -> StateUpTo(Wave)]
    BY <1>3, <2>3 DEF ReceiveState, WaveInv
  <2>5. QED
    BY <1>3, <2>1, <2>4 DEF ReceiveState, WaveInv
<1>b. ASSUME NEW m \in Request, m.type # "add", TellEngines(m)
      PROVE  to_engine' \in [Clients -> [Engines -> Seq(RequestUpTo(Wave))]]
  <2>1. m \in RequestUpTo(Wave)
    BY <1>b DEF RequestUpTo
  <2>2. to_engine[Boss] \in [Engines -> Seq(RequestUpTo(Wave))]
    BY BossIsClient DEF WaveInv
  <2>3. [e \in Engines |-> Append(to_engine[Boss][e], m)] \in [Engines -> Seq(RequestUpTo(Wave))]
    BY <2>1, <2>2, AppendType, SMT
  <2>4. QED
    BY <1>b, <2>3, BossIsClient DEF TellEngines, WaveInv
<1>4. ASSUME NEW mode \in PauseModes, PauseAll(mode) PROVE WaveInv'
  <2>1. Wave' = Wave /\ current_wave' = current_wave
    BY <1>4 DEF PauseAll, Wave
  <2>2. [type |-> "pause", mode |-> mode] \in Request
    BY DEF Request
  <2>3. to_engine' \in [Clients -> [Engines -> Seq(RequestUpTo(Wave))]]
    BY <1>4, <1>b, <2>2 DEF PauseAll
  <2>4. QED
    BY <1>4, <2>1, <2>3 DEF PauseAll, cvars, WaveInv
<1>5. CASE ResumeAll
  <2>1. Wave' = Wave /\ current_wave' = current_wave
    BY <1>5 DEF ResumeAll, Wave
  <2>2. [type |-> "resume"] \in Request
    BY DEF Request
  <2>3. to_engine' \in [Clients -> [Engines -> Seq(RequestUpTo(Wave))]]
    BY <1>5, <1>b, <2>2 DEF ResumeAll
  <2>4. QED
    BY <1>5, <2>1, <2>3 DEF ResumeAll, cvars, WaveInv
<1>c. ASSUME NEW s \in StateUpTo(Wave), Publish(s)
      PROVE  /\ coordinator' \in StateUpTo(Wave)
             /\ published' \in [Clients -> Seq(StateUpTo(Wave))]
  BY <1>c, AppendType, SMT DEF Publish, WaveInv
<1>d. ASSUME NEW w \in Nat, w <= Wave, NEW x \in Engines \cup Identities \cup {Nobody},
             SendStartWave(w, x)
      PROVE  start' \in [Engines -> Seq(StartUpTo(Wave))]
  <2> DEFINE m == [wave |-> w, exclude |-> x]
  <2>1. m \in StartUpTo(Wave)
    BY <1>d DEF StartUpTo, StartWave
  <2>2. start' = [e \in Engines |-> Append(start[e], m)]
    BY <1>d DEF SendStartWave
  <2> HIDE DEF m
  <2>3. QED
    BY <2>1, <2>2, AppendType, SMT DEF WaveInv
<1>6. ASSUME NEW c \in Clients, FirstReq(c) PROVE WaveInv'
  <2>1. Wave' = Wave /\ current_wave' = current_wave
    BY <1>6 DEF FirstReq, evars, Wave
  <2>2. from_client[c] \in Seq(NewUpTo(Wave)) /\ from_client[c] # <<>>
    BY <1>6 DEF FirstReq, WaveInv
  <2>3. Tail(from_client[c]) \in Seq(NewUpTo(Wave)) /\ Head(from_client[c]) \in NewUpTo(Wave)
    BY <2>2, TailFacts
  <2>4. from_client' \in [Clients -> Seq(NewUpTo(Wave))]
    BY <1>6, <2>3 DEF FirstReq, WaveInv
  <2>5. CASE coordinator.running
    BY <1>6, <2>1, <2>4, <2>5 DEF FirstReq, WaveInv
  <2>6. CASE ~coordinator.running
    <3>1. [wave |-> coordinator.wave, running |-> TRUE] \in StateUpTo(Wave)
      BY <1>a DEF State, StateUpTo
    <3>2. /\ coordinator' \in StateUpTo(Wave)
          /\ published' \in [Clients -> Seq(StateUpTo(Wave))]
      BY <1>6, <1>c, <2>6, <3>1 DEF FirstReq
    <3>3. PICK x \in Identities \cup {Nobody} : SendStartWave(coordinator.wave, x)
      BY <1>6, <2>3, <2>6 DEF FirstReq, NewUpTo, NewRequest
    <3>4. start' \in [Engines -> Seq(StartUpTo(Wave))]
      BY <1>a, <1>d, <3>3
    <3>5. QED
      BY <1>6, <2>1, <2>4, <3>2, <3>4 DEF FirstReq, WaveInv
  <2>7. QED
    BY <2>5, <2>6
<1>7. ASSUME NEW e \in Engines, EngineNotice(e) PROVE WaveInv'
  <2>1. Wave' = Wave /\ current_wave' = current_wave
    BY <1>7 DEF EngineNotice, evars, Wave
  <2> DEFINE msg == Head(from_engine[e])
  <2>2. from_engine[e] \in Seq(NoticeUpTo(Wave)) /\ from_engine[e] # <<>>
    BY <1>7 DEF EngineNotice, WaveInv
  <2>3. Tail(from_engine[e]) \in Seq(NoticeUpTo(Wave)) /\ msg \in NoticeUpTo(Wave)
    BY <2>2, TailFacts
  <2>4. from_engine' \in [Engines -> Seq(NoticeUpTo(Wave))]
    BY <1>7, <2>3 DEF EngineNotice, WaveInv
  <2>5. /\ \/ UNCHANGED <<coordinator, published>>
           \/ /\ msg.type = "wave_complete"
              /\ Publish([wave |-> msg.wave + 1, running |-> FALSE])
           \/ Publish([wave |-> msg.wave, running |-> TRUE])
        /\ start' = start \/ SendStartWave(msg.wave, e)
        /\ UNCHANGED <<client, to_engine, from_client>>
    BY <1>7 DEF EngineNotice
  <2> HIDE DEF msg
  <2>6. msg.wave \in Nat /\ msg.wave <= Wave /\ (msg.type = "wave_complete" => msg.wave < Wave)
    BY <2>3 DEF NoticeUpTo, Notice
  <2>7. /\ msg.type = "wave_complete" =>
             [wave |-> msg.wave + 1, running |-> FALSE] \in StateUpTo(Wave)
        /\ [wave |-> msg.wave, running |-> TRUE] \in StateUpTo(Wave)
    BY <1>0, <2>6, SMT DEF State, StateUpTo
  <2>8. /\ coordinator' \in StateUpTo(Wave)
        /\ published' \in [Clients -> Seq(StateUpTo(Wave))]
    BY <1>c, <2>5, <2>7 DEF WaveInv
  <2>9. start' \in [Engines -> Seq(StartUpTo(Wave))]
    BY <1>d, <2>5, <2>6 DEF WaveInv
  <2>10. QED
    BY <2>1, <2>4, <2>5, <2>8, <2>9 DEF WaveInv
<1>8. ASSUME NEW c \in Clients, Republish(c) PROVE WaveInv'
  <2>1. Wave' = Wave /\ current_wave' = current_wave
    BY <1>8 DEF Republish, evars, Wave
  <2>2. <<coordinator>> \in Seq(StateUpTo(Wave))
    BY SMT DEF WaveInv
  <2>3. published' \in [Clients -> Seq(StateUpTo(Wave))]
    BY <1>8, <2>2 DEF Republish, WaveInv
  <2>4. QED
    BY <1>8, <2>1, <2>3 DEF Republish, cvars, WaveInv
<1>9. ASSUME NEW e \in Engines, NEW c \in Clients, HandleRequest(e, c) PROVE WaveInv'
  <2> DEFINE msg == Head(to_engine[c][e])
             m == [type |-> "start_wave", wave |-> Wave]
  <2>1. to_engine[c][e] \in Seq(RequestUpTo(Wave)) /\ to_engine[c][e] # <<>>
    BY <1>9 DEF HandleRequest, WaveInv
  <2>2. Tail(to_engine[c][e]) \in Seq(RequestUpTo(Wave)) /\ msg \in RequestUpTo(Wave)
    BY <2>1, TailFacts
  <2>3. to_engine' \in [Clients -> [Engines -> Seq(RequestUpTo(Wave))]]
    BY <1>9, <2>2 DEF HandleRequest, WaveInv
  <2>4. current_wave[e] = Wave
    BY DEF WaveInv
  <2>5. current_wave' = current_wave /\ Wave' = Wave
    BY <1>9, SameWave
  <2>6. from_engine' = from_engine \/ from_engine' = [from_engine EXCEPT ![e] = Append(@, m)]
    BY <1>9, <2>4 DEF HandleRequest, Add, Pause, Resume
  <2>7. m \in NoticeUpTo(Wave)
    BY <1>0, SMT DEF Notice, NoticeUpTo
  <2> HIDE DEF msg, m
  <2>8. from_engine' \in [Engines -> Seq(NoticeUpTo(Wave))]
    <3>1. from_engine \in [Engines -> Seq(NoticeUpTo(Wave))]
      BY DEF WaveInv
    <3>2. [from_engine EXCEPT ![e] = Append(@, m)] \in [Engines -> Seq(NoticeUpTo(Wave))]
      BY ONLY <2>7, <3>1, e \in Engines, AppendType, Zenon
    <3>3. QED
      BY <2>6, <3>1, <3>2
  <2>9. UNCHANGED <<coordinator, client, start, from_client, published>>
    BY <1>9 DEF HandleRequest, cvars
  <2>10. QED
    BY <2>3, <2>5, <2>8, <2>9 DEF WaveInv
<1>10. ASSUME NEW e \in Engines, HandleAbort(e) PROVE WaveInv'
  BY <1>10 DEF HandleAbort, cvars, mvars, WaveInv, Wave
<1>11. ASSUME NEW e \in Engines, StartDpWave(e) PROVE WaveInv'
  <2> DEFINE msg == Head(start[e])
  <2>1. start[e] \in Seq(StartUpTo(Wave)) /\ start[e] # <<>>
    BY <1>11 DEF StartDpWave, WaveInv
  <2>2. Tail(start[e]) \in Seq(StartUpTo(Wave)) /\ msg \in StartUpTo(Wave)
    BY <2>1, TailFacts
  <2>3. start' \in [Engines -> Seq(StartUpTo(Wave))]
    BY <1>11, <2>2 DEF StartDpWave, WaveInv
  <2>4. current_wave' = current_wave /\ Wave' = Wave
    BY <1>11, SameWave
  <2>5. QED
    BY <1>11, <2>3, <2>4 DEF StartDpWave, cvars, WaveInv
<1>12. ASSUME NEW e \in Engines, NotifyIdle(e) PROVE WaveInv'
  BY <1>12 DEF NotifyIdle, cvars, mvars, WaveInv, Wave
<1>13. ASSUME NEW e \in Engines, Step(e) PROVE WaveInv'
  BY <1>13 DEF Step, cvars, mvars, WaveInv, Wave
<1>14. ASSUME NEW finished, ForwardPass(finished) PROVE WaveInv'
  BY <1>14 DEF ForwardPass, cvars, mvars, WaveInv, Wave
<1>15. CASE SyncDpState
  <2> DEFINE m == [type |-> "wave_complete", wave |-> Wave]
  <2>1. UNCHANGED <<coordinator, client, to_engine, start, from_client, published>>
    BY <1>15 DEF SyncDpState, cvars
  <2>2. \/ UNCHANGED <<current_wave, from_engine>>
        \/ /\ from_engine' = [from_engine EXCEPT ![0] = Append(@, m)]
           /\ current_wave' = [e \in Engines |-> current_wave[e] + 1]
    BY <1>15 DEF SyncDpState, Wave
  <2>3. CASE UNCHANGED <<current_wave, from_engine>>
    BY <2>1, <2>3 DEF WaveInv, Wave
  <2>4. CASE /\ from_engine' = [from_engine EXCEPT ![0] = Append(@, m)]
             /\ current_wave' = [e \in Engines |-> current_wave[e] + 1]
    <3>1. Wave' = Wave + 1 /\ \A e \in Engines : current_wave'[e] = Wave'
      BY <1>0, <2>4 DEF Wave, WaveInv
    <3>2. Wave + 1 \in Nat /\ Wave <= Wave + 1
      BY <1>0, SMT
    <3>3. /\ coordinator \in StateUpTo(Wave + 1)
          /\ client \in [Clients -> StateUpTo(Wave + 1)]
          /\ to_engine \in [Clients -> [Engines -> Seq(RequestUpTo(Wave + 1))]]
          /\ start \in [Engines -> Seq(StartUpTo(Wave + 1))]
          /\ from_engine \in [Engines -> Seq(NoticeUpTo(Wave + 1))]
          /\ from_client \in [Clients -> Seq(NewUpTo(Wave + 1))]
          /\ published \in [Clients -> Seq(StateUpTo(Wave + 1))]
      BY <1>0, <3>2, WaveGrows
    <3>4. m \in NoticeUpTo(Wave + 1)
      BY <1>0, SMT DEF Notice, NoticeUpTo
    <3> HIDE DEF m
    <3>5. [from_engine EXCEPT ![0] = Append(@, m)] \in [Engines -> Seq(NoticeUpTo(Wave + 1))]
      BY ONLY <1>0, <3>3, <3>4, AppendType, Zenon
    <3>6. QED
      BY <2>1, <2>4, <3>1, <3>3, <3>5 DEF WaveInv
  <2>5. QED
    BY <2>2, <2>3, <2>4
<1>16. CASE ResumeBarrier
  BY <1>16 DEF ResumeBarrier, cvars, mvars, WaveInv, Wave
<1>17. CASE UNCHANGED vars
  BY <1>17 DEF vars, WaveInv, Wave
<1>18. QED
  BY <1>1, <1>2, <1>3, <1>4, <1>5, <1>6, <1>7, <1>8, <1>9, <1>10, <1>11, <1>12, <1>13,
     <1>14, <1>15, <1>16, <1>17 DEF Next, EngineStep, Collective

\* HeardInv in every step: the coordinator takes the messages of rank 0 in
\* order and never goes back to an earlier wave.
LEMMA HeardStep == WeakTypeOK /\ WaveInv /\ HeardInv /\ [Next]_vars => HeardInv'
<1> SUFFICES ASSUME WeakTypeOK, WaveInv, HeardInv, [Next]_vars
             PROVE  HeardInv'
    OBVIOUS
<1>0. 0 \in Engines /\ Wave \in Nat /\ coordinator.wave \in Nat /\ coordinator.wave <= Wave
  BY DataParallelAssumption DEF WeakTypeOK, Wave, WaveInv, StateUpTo, State
<1>a. from_engine[0] \in Seq(NoticeUpTo(Wave)) /\ Len(from_engine[0]) \in Nat
  BY <1>0, SMT DEF WaveInv
<1>b. ASSUME UNCHANGED <<coordinator, from_engine, current_wave>> PROVE HeardInv'
  BY <1>b DEF HeardInv, Wave
<1>1. ASSUME NEW c \in Clients, NEW e \in Engines, AddRequest(c, e) PROVE HeardInv'
  BY <1>b, <1>1 DEF AddRequest, evars
<1>2. ASSUME NEW c \in Clients, SendFirstReq(c) PROVE HeardInv'
  BY <1>b, <1>2 DEF SendFirstReq, evars
<1>3. ASSUME NEW c \in Clients, ReceiveState(c) PROVE HeardInv'
  BY <1>b, <1>3 DEF ReceiveState, evars
<1>4. ASSUME NEW mode \in PauseModes, PauseAll(mode) PROVE HeardInv'
  BY <1>b, <1>4 DEF PauseAll, cvars
<1>5. CASE ResumeAll
  BY <1>b, <1>5 DEF ResumeAll, cvars
<1>6. ASSUME NEW c \in Clients, FirstReq(c) PROVE HeardInv'
  <2>1. coordinator'.wave = coordinator.wave
    BY <1>6, SMT DEF FirstReq, Publish
  <2>2. UNCHANGED <<from_engine, current_wave>>
    BY <1>6 DEF FirstReq, evars
  <2>3. QED
    BY <2>1, <2>2 DEF HeardInv, Wave
<1>7. ASSUME NEW e \in Engines, EngineNotice(e) PROVE HeardInv'
  <2> DEFINE msg == Head(from_engine[e])
  <2>1. from_engine[e] \in Seq(NoticeUpTo(Wave)) /\ from_engine[e] # <<>>
    BY <1>7 DEF EngineNotice, WaveInv
  <2>2. /\ msg \in NoticeUpTo(Wave) /\ msg = from_engine[e][1]
        /\ Len(from_engine[e]) \in Nat \ {0}
        /\ Len(Tail(from_engine[e])) = Len(from_engine[e]) - 1
        /\ \A i \in 1 .. Len(from_engine[e]) - 1 : Tail(from_engine[e])[i] = from_engine[e][i + 1]
    BY <2>1, TailFacts
  <2>3. /\ from_engine' = [from_engine EXCEPT ![e] = Tail(@)]
        /\ UNCHANGED current_wave
        /\ \/ /\ msg.type = "wave_complete"
              /\ IF coordinator.wave <= msg.wave
                 THEN coordinator' = [wave |-> msg.wave + 1, running |-> FALSE]
                 ELSE coordinator' = coordinator
           \/ /\ msg.type = "start_wave"
              /\ \/ /\ msg.wave >= coordinator.wave
                    /\ coordinator' = [wave |-> msg.wave, running |-> TRUE]
                 \/ coordinator' = coordinator
    <3>1. msg.wave \in Nat
      BY <2>2 DEF NoticeUpTo, Notice
    <3>2. (msg.wave > coordinator.wave \/ (msg.wave = coordinator.wave /\ ~coordinator.running))
              => msg.wave >= coordinator.wave
      BY <1>0, <3>1, SMT
    <3>3. QED
      BY <1>7, <3>2 DEF EngineNotice, Publish, evars
  <2> HIDE DEF msg
  <2>4. msg.wave \in Nat /\ msg.wave <= Wave /\ (msg.type = "wave_complete" => msg.wave < Wave)
    BY <2>2 DEF NoticeUpTo, Notice
  <2>5. Wave' = Wave
    BY <2>3 DEF Wave
  <2>6. CASE coordinator.wave = Wave
    BY <1>0, <2>3, <2>4, <2>5, <2>6, SMT DEF HeardInv
  <2>7. CASE coordinator.wave # Wave
    <3>1. PICK i \in 1 .. Len(from_engine[0]) : /\ from_engine[0][i].type = "wave_complete"
                                                /\ from_engine[0][i].wave = Wave - 1
      BY <2>7 DEF HeardInv
    <3>2. CASE e # 0
      <4>1. from_engine'[0] = from_engine[0]
        BY <1>0, <2>3, <3>2 DEF WaveInv
      <4>2. QED
        BY <2>5, <3>1, <4>1 DEF HeardInv
    <3>3. CASE e = 0 /\ i > 1
      <4>1. from_engine'[0] = Tail(from_engine[0])
        BY <1>0, <2>3, <3>3 DEF WaveInv
      <4>2. i - 1 \in 1 .. Len(from_engine'[0]) /\ from_engine'[0][i - 1] = from_engine[0][i]
        BY <1>a, <2>2, <3>1, <3>3, <4>1, SMT
      <4>3. QED
        BY <2>5, <3>1, <4>2 DEF HeardInv
    <3>4. CASE e = 0 /\ i = 1
      <4>1. msg.type = "wave_complete" /\ msg.wave = Wave - 1
        BY <2>2, <3>1, <3>4
      <4>2. coordinator'.wave = Wave
        BY <1>0, <2>3, <2>7, <4>1, SMT
      <4>3. QED
        BY <2>5, <4>2 DEF HeardInv
    <3>5. QED
      BY <3>2, <3>3, <3>4, SMT
  <2>8. QED
    BY <2>6, <2>7
<1>8. ASSUME NEW c \in Clients, Republish(c) PROVE HeardInv'
  BY <1>b, <1>8 DEF Republish, evars, cvars
<1>9. ASSUME NEW e \in Engines, NEW m \in Notice, Wave' = Wave, coordinator' = coordinator,
             from_engine' = [from_engine EXCEPT ![e] = Append(@, m)]
      PROVE  HeardInv'
  <2>1. CASE coordinator.wave = Wave
    BY <1>9, <2>1 DEF HeardInv
  <2>2. CASE coordinator.wave # Wave
    <3>1. PICK i \in 1 .. Len(from_engine[0]) : /\ from_engine[0][i].type = "wave_complete"
                                                /\ from_engine[0][i].wave = Wave - 1
      BY <2>2 DEF HeardInv
    <3>2. from_engine[0] \in Seq(Notice)
      BY <1>a, SeqFacts DEF NoticeUpTo
    <3>3. \/ from_engine'[0] = from_engine[0]
          \/ from_engine'[0] = Append(from_engine[0], m)
      BY <1>0, <1>9 DEF WaveInv
    <3>4. i \in 1 .. Len(from_engine'[0]) /\ from_engine'[0][i] = from_engine[0][i]
      BY ONLY i \in 1 .. Len(from_engine[0]), m \in Notice, <3>2, <3>3, AppendFacts, SMT
    <3>5. QED
      BY <1>9, <3>1, <3>4 DEF HeardInv
  <2>3. QED
    BY <2>1, <2>2
<1>10. ASSUME NEW e \in Engines, NEW c \in Clients, HandleRequest(e, c) PROVE HeardInv'
  <2> DEFINE m == [type |-> "start_wave", wave |-> current_wave[e]]
  <2>1. from_engine' = from_engine \/ from_engine' = [from_engine EXCEPT ![e] = Append(@, m)]
    BY <1>10 DEF HandleRequest, Add, Pause, Resume
  <2>2. m \in Notice
    BY DEF Notice, WeakTypeOK
  <2>3. coordinator' = coordinator /\ Wave' = Wave /\ current_wave' = current_wave
    BY <1>10, SameWave DEF HandleRequest, cvars
  <2> HIDE DEF m
  <2>4. QED
    BY <1>b, <1>9, <2>1, <2>2, <2>3
<1>11. ASSUME NEW e \in Engines, HandleAbort(e) PROVE HeardInv'
  BY <1>b, <1>11 DEF HandleAbort, cvars, mvars
<1>12. ASSUME NEW e \in Engines, StartDpWave(e) PROVE HeardInv'
  BY <1>b, <1>12, SameWave DEF StartDpWave, cvars
<1>13. ASSUME NEW e \in Engines, NotifyIdle(e) PROVE HeardInv'
  BY <1>b, <1>13 DEF NotifyIdle, cvars, mvars
<1>14. ASSUME NEW e \in Engines, Step(e) PROVE HeardInv'
  BY <1>b, <1>14 DEF Step, cvars, mvars
<1>15. ASSUME NEW finished, ForwardPass(finished) PROVE HeardInv'
  BY <1>b, <1>15 DEF ForwardPass, cvars, mvars
<1>16. CASE SyncDpState
  <2> DEFINE m == [type |-> "wave_complete", wave |-> Wave]
  <2>1. coordinator' = coordinator
    BY <1>16 DEF SyncDpState, cvars
  <2>2. \/ UNCHANGED <<current_wave, from_engine>>
        \/ /\ from_engine' = [from_engine EXCEPT ![0] = Append(@, m)]
           /\ current_wave' = [e \in Engines |-> current_wave[e] + 1]
    BY <1>16 DEF SyncDpState, Wave
  <2>3. CASE UNCHANGED <<current_wave, from_engine>>
    BY <1>b, <2>1, <2>3
  <2>4. CASE /\ from_engine' = [from_engine EXCEPT ![0] = Append(@, m)]
             /\ current_wave' = [e \in Engines |-> current_wave[e] + 1]
    <3>1. Wave' = Wave + 1
      BY <1>0, <2>4 DEF Wave
    <3>2. m \in Notice /\ m.type = "wave_complete" /\ m.wave = Wave
      BY <1>0 DEF Notice
    <3>3. from_engine[0] \in Seq(Notice)
      BY <1>a, SeqFacts DEF NoticeUpTo
    <3> HIDE DEF m
    <3>4. from_engine'[0] = Append(from_engine[0], m)
      BY <1>0, <2>4 DEF WaveInv
    <3>5. /\ Len(from_engine[0]) + 1 \in 1 .. Len(from_engine'[0])
          /\ from_engine'[0][Len(from_engine[0]) + 1] = m
      BY ONLY <3>2, <3>3, <3>4, AppendFacts, SMT
    <3>6. Wave = Wave' - 1
      BY <1>0, <3>1, SMT
    <3>7. QED
      BY <3>2, <3>5, <3>6 DEF HeardInv
  <2>5. QED
    BY <2>2, <2>3, <2>4
<1>17. CASE ResumeBarrier
  BY <1>b, <1>17 DEF ResumeBarrier, cvars, mvars
<1>18. CASE UNCHANGED vars
  BY <1>b, <1>18 DEF vars
<1>19. QED
  BY <1>1, <1>2, <1>3, <1>4, <1>5, <1>6, <1>7, <1>8, <1>10, <1>11, <1>12, <1>13,
     <1>14, <1>15, <1>16, <1>17, <1>18 DEF Next, EngineStep, Collective

-----------------------------------------------------------------------------
(* Requests.                                                               *)

\* A message that is sent makes no request disappear.
LEMMA RequestSent ==
    ASSUME MessageOK, NEW f \in Engines, NEW m \in Request,
           \A d \in Clients : \/ to_engine'[d][f] = to_engine[d][f]
                              \/ to_engine'[d][f] = Append(to_engine[d][f], m),
           waiting' = waiting, active' = active, HasRequest(f)
    PROVE  HasRequest(f)'
<1>1. CASE waiting[f] + active[f] > 0
  BY <1>1 DEF HasRequest
<1>2. ASSUME NEW d \in Clients, NEW i \in 1 .. Len(to_engine[d][f]),
             to_engine[d][f][i].type = "add"
      PROVE  HasRequest(f)'
  <2>1. to_engine[d][f] \in Seq(Request)
    BY DEF MessageOK
  <2>2. \/ to_engine'[d][f] = to_engine[d][f]
        \/ to_engine'[d][f] = Append(to_engine[d][f], m)
    OBVIOUS
  <2>3. i \in 1 .. Len(to_engine'[d][f]) /\ to_engine'[d][f][i] = to_engine[d][f][i]
    BY ONLY i \in 1 .. Len(to_engine[d][f]), m \in Request, <2>1, <2>2, AppendFacts, SMT
  <2>4. QED
    BY <1>2, <2>3 DEF HasRequest
<1>3. QED
  BY <1>1, <1>2 DEF HasRequest

\* A request that is handled waits in its engine, and a pause or a resume
\* that is handled makes no request in the queue disappear.
LEMMA RequestHandled ==
    ASSUME WeakTypeOK, MessageOK, NEW e \in Engines, NEW c \in Clients, HandleRequest(e, c),
           NEW f \in Engines, HasRequest(f)
    PROVE  HasRequest(f)' \/ (f = e /\ MayEnd(e) /\ engines_running'[e])
<1> DEFINE msg == Head(to_engine[c][e])
<1>1. /\ to_engine[c][e] # <<>>
      /\ to_engine' = [to_engine EXCEPT ![c][e] = Tail(@)]
  BY DEF HandleRequest
<1>2. /\ to_engine'[c][e] = Tail(to_engine[c][e])
      /\ \A d \in Clients, g \in Engines : d # c \/ g # e => to_engine'[d][g] = to_engine[d][g]
  BY <1>1 DEF MessageOK
<1>3. to_engine[c][e] \in Seq(Request) /\ to_engine[c][e] # <<>>
  BY <1>1 DEF MessageOK
<1>4. /\ msg = to_engine[c][e][1]
      /\ Len(to_engine[c][e]) \in Nat \ {0}
      /\ Len(to_engine'[c][e]) = Len(to_engine[c][e]) - 1
      /\ \A i \in 1 .. Len(to_engine[c][e]) - 1 : to_engine'[c][e][i] = to_engine[c][e][i + 1]
  BY ONLY <1>2, <1>3, TailFacts, SMT DEF msg
<1>5. \/ msg.type = "add" /\ waiting' = [waiting EXCEPT ![e] = @ + 1] /\ active' = active
      \/ msg.type # "add" /\ waiting' = waiting /\ active' = active
      \/ /\ msg.type # "add" /\ MayEnd(e)
         /\ waiting' = [waiting EXCEPT ![e] = 0] /\ active' = [active EXCEPT ![e] = 0]
         /\ engines_running'[e]
  BY DEF HandleRequest, Add, Pause, Resume, WeakTypeOK
<1> HIDE DEF msg
<1>6. CASE f # e
  <2>1. waiting'[f] = waiting[f] /\ active'[f] = active[f]
    BY <1>5, <1>6 DEF WeakTypeOK
  <2>2. \A d \in Clients : to_engine'[d][f] = to_engine[d][f]
    BY <1>2, <1>6
  <2>3. QED
    BY <2>1, <2>2 DEF HasRequest
<1>7. CASE f = e /\ msg.type = "add"
  <2>1. waiting'[e] + active'[e] > 0
    BY <1>5, <1>7, SMT DEF WeakTypeOK
  <2>2. QED
    BY <1>7, <2>1 DEF HasRequest
<1>8. CASE f = e /\ msg.type # "add" /\ waiting' = waiting /\ active' = active
  <2>1. CASE waiting[e] + active[e] > 0
    BY <1>8, <2>1 DEF HasRequest
  <2>2. ASSUME NEW d \in Clients, NEW i \in 1 .. Len(to_engine[d][e]),
               to_engine[d][e][i].type = "add"
        PROVE  HasRequest(e)'
    <3>1. CASE d # c
      BY <1>2, <2>2, <3>1, SMT DEF HasRequest
    <3>2. CASE d = c
      <4>1. i # 1
        BY <1>4, <1>8, <2>2, <3>2
      <4>2. i - 1 \in 1 .. Len(to_engine'[c][e]) /\ to_engine'[c][e][i - 1] = to_engine[c][e][i]
        BY <1>4, <3>2, <4>1, SMT
      <4>3. QED
        BY <2>2, <3>2, <4>2 DEF HasRequest
    <3>3. QED
      BY <3>1, <3>2
  <2>3. QED
    BY <1>8, <2>1, <2>2 DEF HasRequest
<1>9. QED
  BY <1>5, <1>6, <1>7, <1>8

\* A request is over only when MayEnd says so, and an engine that has
\* something to do goes on until the all-reduce ends the wave.
LEMMA StillBusy ==
    ASSUME WeakTypeOK, MessageOK, [Next]_vars, "abort_idle" \notin Races, NEW f \in Engines
    PROVE  /\ HasRequest(f) => HasRequest(f)' \/ MayEnd(f)
           /\ Busy(f) => Busy(f)' \/ SyncDpState
<1> DEFINE Goal == /\ HasRequest(f) => HasRequest(f)' \/ MayEnd(f)
                   /\ Busy(f) => Busy(f)' \/ SyncDpState
<1>a. ASSUME UNCHANGED <<to_engine, waiting, active>> PROVE HasRequest(f)' <=> HasRequest(f)
  BY <1>a DEF HasRequest
<1>b. ASSUME UNCHANGED <<to_engine, waiting, active, pc, engines_running>> PROVE Goal
  BY <1>a, <1>b DEF Busy
<1>c. ASSUME UNCHANGED <<waiting, active, pc, engines_running>>, HasRequest(f) => HasRequest(f)'
      PROVE  Goal
  BY <1>c DEF Busy
<1>d. ASSUME NEW m \in Request, TellEngines(m), UNCHANGED <<waiting, active, pc, engines_running>>
      PROVE  Goal
  <2>1. \A d \in Clients : \/ to_engine'[d][f] = to_engine[d][f]
                           \/ to_engine'[d][f] = Append(to_engine[d][f], m)
    BY <1>d, BossIsClient DEF TellEngines, MessageOK
  <2>2. QED
    BY <1>c, <1>d, <2>1, RequestSent
<1>1. ASSUME NEW c \in Clients, NEW e \in Engines, AddRequest(c, e) PROVE Goal
  <2> DEFINE m == [type |-> "add", wave |-> client[c].wave]
  <2>1. m \in Request
    BY DEF WeakTypeOK, State, Request
  <2>2. to_engine' = [to_engine EXCEPT ![c][e] = Append(@, m)]
    BY <1>1 DEF AddRequest
  <2>3. UNCHANGED <<waiting, active, pc, engines_running>>
    BY <1>1 DEF AddRequest, evars
  <2> HIDE DEF m
  <2>4. \A d \in Clients : \/ to_engine'[d][f] = to_engine[d][f]
                           \/ to_engine'[d][f] = Append(to_engine[d][f], m)
    BY <2>2 DEF MessageOK
  <2>5. QED
    BY <1>c, <2>1, <2>3, <2>4, RequestSent
<1>2. ASSUME NEW c \in Clients, SendFirstReq(c) PROVE Goal
  BY <1>b, <1>2 DEF SendFirstReq, evars
<1>3. ASSUME NEW c \in Clients, ReceiveState(c) PROVE Goal
  BY <1>b, <1>3 DEF ReceiveState, evars
<1>4. ASSUME NEW mode \in PauseModes, PauseAll(mode) PROVE Goal
  <2>1. [type |-> "pause", mode |-> mode] \in Request
    BY DEF Request
  <2>2. QED
    BY <1>d, <1>4, <2>1 DEF PauseAll
<1>5. ASSUME ResumeAll PROVE Goal
  <2>1. [type |-> "resume"] \in Request
    BY DEF Request
  <2>2. QED
    BY <1>d, <1>5, <2>1 DEF ResumeAll
<1>6. ASSUME NEW c \in Clients, FirstReq(c) PROVE Goal
  BY <1>b, <1>6 DEF FirstReq, evars
<1>7. ASSUME NEW e \in Engines, EngineNotice(e) PROVE Goal
  BY <1>b, <1>7 DEF EngineNotice, evars
<1>8. ASSUME NEW c \in Clients, Republish(c) PROVE Goal
  BY <1>b, <1>8 DEF Republish, evars
<1>9. ASSUME NEW e \in Engines, NEW c \in Clients, HandleRequest(e, c) PROVE Goal
  <2>1. HasRequest(f) => HasRequest(f)' \/ (f = e /\ MayEnd(e) /\ engines_running'[e])
    BY <1>9, RequestHandled
  <2>2. /\ pc[e] = "input"
        /\ pc' = pc \/ pc' = [pc EXCEPT ![e] = "resume"]
        /\ \/ engines_running' = engines_running
           \/ engines_running' = [engines_running EXCEPT ![e] = TRUE]
    BY <1>9 DEF HandleRequest, Add, Pause, Resume
  <2>3. QED
    BY <2>1, <2>2 DEF Busy, WeakTypeOK
<1>10. ASSUME NEW e \in Engines, HandleAbort(e) PROVE Goal
  <2>1. /\ MayEnd(e) /\ engines_running[e]
        /\ UNCHANGED <<pc, engines_running, to_engine>>
        /\ \A g \in Engines \ {e} : waiting'[g] = waiting[g] /\ active'[g] = active[g]
    BY <1>10 DEF HandleAbort, mvars, WeakTypeOK
  <2>2. CASE f = e
    BY <2>1, <2>2 DEF Busy
  <2>3. CASE f # e
    <3>1. HasRequest(f)' <=> HasRequest(f)
      BY <2>1, <2>3 DEF HasRequest
    <3>2. QED
      BY <2>1, <3>1 DEF Busy
  <2>4. QED
    BY <2>2, <2>3
<1>11. ASSUME NEW e \in Engines, StartDpWave(e) PROVE Goal
  <2>1. /\ UNCHANGED <<pc, waiting, active, to_engine>>
        /\ \/ engines_running' = engines_running
           \/ engines_running' = [engines_running EXCEPT ![e] = TRUE]
    BY <1>11 DEF StartDpWave
  <2>2. engines_running[f] => engines_running'[f]
    BY <2>1 DEF WeakTypeOK
  <2>3. QED
    BY <1>a, <2>1, <2>2 DEF Busy
<1>12. ASSUME NEW e \in Engines, NotifyIdle(e) PROVE Goal
  BY <1>b, <1>12 DEF NotifyIdle, mvars
<1>13. ASSUME NEW e \in Engines, Step(e) PROVE Goal
  <2>1. /\ UNCHANGED <<engines_running, to_engine>>
        /\ pc[e] = "input" /\ pc' = [pc EXCEPT ![e] = "forward"]
        /\ \/ active' = [active EXCEPT ![e] = @ + waiting[e]] /\ waiting' = [waiting EXCEPT ![e] = 0]
           \/ active' = active /\ waiting' = waiting
    BY <1>13 DEF Step, mvars
  <2>2. waiting'[f] + active'[f] = waiting[f] + active[f]
    BY <2>1, SMT DEF WeakTypeOK
  <2>3. HasRequest(f)' <=> HasRequest(f)
    BY <2>1, <2>2 DEF HasRequest
  <2>4. pc[f] = "sync" => pc'[f] = "sync"
    BY <2>1 DEF WeakTypeOK
  <2>5. QED
    BY <2>1, <2>3, <2>4 DEF Busy
<1>14. ASSUME NEW finished, ForwardPass(finished) PROVE Goal
  <2>1. /\ f \in finished => MayEnd(f)
        /\ f \notin finished => active'[f] = active[f]
        /\ UNCHANGED <<waiting, to_engine>>
    BY <1>14 DEF ForwardPass, mvars
  <2>2. engines_running'[f] \/ pc'[f] = "sync"
    BY <1>14 DEF ForwardPass
  <2>3. f \notin finished => (HasRequest(f)' <=> HasRequest(f))
    BY <2>1 DEF HasRequest
  <2>4. QED
    BY <2>1, <2>2, <2>3 DEF Busy
<1>15. ASSUME SyncDpState PROVE Goal
  BY <1>a, <1>15 DEF SyncDpState
<1>16. ASSUME ResumeBarrier PROVE Goal
  <2>1. /\ UNCHANGED <<waiting, active, to_engine>>
        /\ pc[f] = "resume"
        /\ engines_running[f] => engines_running'[f]
    BY <1>16 DEF ResumeBarrier, Together, mvars
  <2>2. QED
    BY <1>a, <2>1 DEF Busy
<1>17. ASSUME UNCHANGED vars PROVE Goal
  BY <1>b, <1>17 DEF vars
<1>18. QED
  <2> HIDE DEF Goal
  <2>1. Goal
    BY <1>1, <1>2, <1>3, <1>4, <1>5, <1>6, <1>7, <1>8, <1>9, <1>10, <1>11, <1>12, <1>13,
       <1>14, <1>15, <1>16, <1>17 DEF Next, EngineStep, Collective
  <2>2. QED
    BY <2>1 DEF Goal

\* FirstReqInv in every step: MayEnd lets no request end whose FIRST_REQ is
\* still on its way.
LEMMA FirstReqStep ==
    ASSUME "abort_idle" \notin Races, "late_first_req" \notin Races
    PROVE  WeakTypeOK /\ MessageOK /\ FirstReqInv /\ [Next]_vars => FirstReqInv'
<1> SUFFICES ASSUME WeakTypeOK, MessageOK, FirstReqInv, [Next]_vars
             PROVE  FirstReqInv'
    OBVIOUS
<1>a. ASSUME NEW c \in Clients, NEW i \in 1 .. Len(first_req[c])
      PROVE  first_req[c][i] \in Requested'
  <2>1. first_req[c] \in Seq(Requested)
    BY DEF FirstReqInv
  <2>2. first_req[c][i] \in Requested /\ i \in DOMAIN first_req[c]
    BY <2>1, SMT
  <2>3. first_req[c][i] \in Range(first_req[c])
    BY <2>2 DEF Range
  <2>4. ~MayEnd(first_req[c][i])
    BY <2>3 DEF MayEnd
  <2>5. QED
    BY <2>2, <2>4, StillBusy DEF Requested
<1>b. ASSUME NEW c \in Clients, NEW i \in 1 .. Len(from_client[c])
      PROVE  from_client[c][i] \in NewFor(Requested')
  <2>1. from_client[c] \in Seq(NewFor(Requested))
    BY DEF FirstReqInv
  <2>2. from_client[c][i] \in NewFor(Requested) /\ i \in DOMAIN from_client[c]
    BY <2>1, SMT
  <2>3. from_client[c][i] \in Range(from_client[c])
    BY <2>2 DEF Range
  <2>4. PICK e \in Requested : from_client[c][i].target = Identity(e)
    BY <2>2 DEF NewFor
  <2>5. ~MayEnd(e)
    BY <2>3, <2>4 DEF MayEnd
  <2>6. e \in Requested'
    BY <2>5, StillBusy DEF Requested
  <2>7. QED
    BY <2>2, <2>4, <2>6 DEF NewFor
<1>c. first_req \in [Clients -> Seq(Requested')]
  <2>1. ASSUME NEW c \in Clients PROVE first_req[c] \in Seq(Requested')
    <3>1. first_req[c] \in Seq(Engines)
      BY DEF MessageOK
    <3>2. QED
      BY <1>a, <3>1, SeqFacts
  <2>2. QED
    BY <2>1 DEF MessageOK
<1>d. from_client \in [Clients -> Seq(NewFor(Requested'))]
  <2>1. ASSUME NEW c \in Clients PROVE from_client[c] \in Seq(NewFor(Requested'))
    <3>1. from_client[c] \in Seq(NewRequest)
      BY DEF MessageOK
    <3>2. QED
      BY <1>b, <3>1, SeqFacts
  <2>2. QED
    BY <2>1 DEF MessageOK
<1>e. ASSUME first_req' \in [Clients -> Seq(Requested')],
             from_client' \in [Clients -> Seq(NewFor(Requested'))]
      PROVE  FirstReqInv'
  BY <1>e DEF FirstReqInv
<1>f. ASSUME UNCHANGED <<first_req, from_client>> PROVE FirstReqInv'
  BY <1>c, <1>d, <1>e, <1>f
<1>1. ASSUME NEW c \in Clients, NEW e \in Engines, AddRequest(c, e) PROVE FirstReqInv'
  <2> DEFINE m == [type |-> "add", wave |-> client[c].wave]
  <2>1. m \in Request /\ m.type = "add"
    BY DEF WeakTypeOK, State, Request
  <2>2. to_engine' = [to_engine EXCEPT ![c][e] = Append(@, m)]
    BY <1>1 DEF AddRequest
  <2> HIDE DEF m
  <2>3. to_engine'[c][e] = Append(to_engine[c][e], m) /\ to_engine[c][e] \in Seq(Request)
    BY <2>2 DEF MessageOK
  <2>4. /\ Len(to_engine[c][e]) + 1 \in 1 .. Len(to_engine'[c][e])
        /\ to_engine'[c][e][Len(to_engine[c][e]) + 1] = m
    BY ONLY <2>1, <2>3, AppendFacts, SMT
  <2>5. e \in Requested'
    BY <2>1, <2>4 DEF Requested, HasRequest
  <2>6. /\ first_req' = first_req \/ first_req' = [first_req EXCEPT ![c] = Append(@, e)]
        /\ from_client' = from_client
    BY <1>1 DEF AddRequest
  <2>7. first_req' \in [Clients -> Seq(Requested')]
    <3>1. [first_req EXCEPT ![c] = Append(@, e)] \in [Clients -> Seq(Requested')]
      BY ONLY c \in Clients, <1>c, <2>5, AppendType, Zenon
    <3>2. QED
      BY <1>c, <2>6, <3>1
  <2>8. QED
    BY <1>d, <1>e, <2>6, <2>7
<1>2. ASSUME NEW c \in Clients, SendFirstReq(c) PROVE FirstReqInv'
  <2> DEFINE m == [target |-> Identity(Head(first_req[c])), wave |-> client[c].wave]
  <2>1. first_req[c] \in Seq(Requested') /\ first_req[c] # <<>> /\ first_req[c] \in Seq(Engines)
    BY <1>c, <1>2 DEF SendFirstReq, MessageOK
  <2>2. /\ Tail(first_req[c]) \in Seq(Requested') /\ Head(first_req[c]) \in Requested'
        /\ Head(first_req[c]) \in Engines
    BY <2>1, TailFacts
  <2>3. m \in NewFor(Requested')
    BY <2>2 DEF NewFor, NewRequest, Identities, WeakTypeOK, State
  <2>4. /\ first_req' = [first_req EXCEPT ![c] = Tail(@)]
        /\ from_client' = [from_client EXCEPT ![c] = Append(@, m)]
    BY <1>2 DEF SendFirstReq
  <2> HIDE DEF m
  <2>5. first_req' \in [Clients -> Seq(Requested')]
    BY <1>c, <2>2, <2>4
  <2>6. from_client' \in [Clients -> Seq(NewFor(Requested'))]
    BY <1>d, <2>3, <2>4, AppendType
  <2>7. QED
    BY <1>e, <2>5, <2>6
<1>3. ASSUME NEW c \in Clients, ReceiveState(c) PROVE FirstReqInv'
  BY <1>f, <1>3 DEF ReceiveState
<1>4. ASSUME NEW mode \in PauseModes, PauseAll(mode) PROVE FirstReqInv'
  BY <1>f, <1>4 DEF PauseAll, cvars
<1>5. CASE ResumeAll
  BY <1>f, <1>5 DEF ResumeAll, cvars
<1>6. ASSUME NEW c \in Clients, FirstReq(c) PROVE FirstReqInv'
  <2>1. from_client[c] \in Seq(NewFor(Requested')) /\ from_client[c] # <<>>
    BY <1>d, <1>6 DEF FirstReq
  <2>2. Tail(from_client[c]) \in Seq(NewFor(Requested'))
    BY <2>1, TailFacts
  <2>3. from_client' = [from_client EXCEPT ![c] = Tail(@)] /\ first_req' = first_req
    BY <1>6 DEF FirstReq
  <2>4. from_client' \in [Clients -> Seq(NewFor(Requested'))]
    BY <1>d, <2>2, <2>3
  <2>5. QED
    BY <1>c, <1>e, <2>3, <2>4
<1>7. ASSUME NEW e \in Engines, EngineNotice(e) PROVE FirstReqInv'
  BY <1>f, <1>7 DEF EngineNotice
<1>8. ASSUME NEW c \in Clients, Republish(c) PROVE FirstReqInv'
  BY <1>f, <1>8 DEF Republish, cvars
<1>9. ASSUME NEW e \in Engines, NEW c \in Clients, HandleRequest(e, c) PROVE FirstReqInv'
  BY <1>f, <1>9 DEF HandleRequest, cvars
<1>10. ASSUME NEW e \in Engines, HandleAbort(e) PROVE FirstReqInv'
  BY <1>f, <1>10 DEF HandleAbort, cvars, mvars
<1>11. ASSUME NEW e \in Engines, StartDpWave(e) PROVE FirstReqInv'
  BY <1>f, <1>11 DEF StartDpWave, cvars
<1>12. ASSUME NEW e \in Engines, NotifyIdle(e) PROVE FirstReqInv'
  BY <1>f, <1>12 DEF NotifyIdle, cvars, mvars
<1>13. ASSUME NEW e \in Engines, Step(e) PROVE FirstReqInv'
  BY <1>f, <1>13 DEF Step, cvars, mvars
<1>14. ASSUME NEW finished, ForwardPass(finished) PROVE FirstReqInv'
  BY <1>f, <1>14 DEF ForwardPass, cvars, mvars
<1>15. CASE SyncDpState
  BY <1>f, <1>15 DEF SyncDpState, cvars
<1>16. CASE ResumeBarrier
  BY <1>f, <1>16 DEF ResumeBarrier, cvars, mvars
<1>17. CASE UNCHANGED vars
  BY <1>f, <1>17 DEF vars
<1>18. QED
  BY <1>1, <1>2, <1>3, <1>4, <1>5, <1>6, <1>7, <1>8, <1>9, <1>10, <1>11, <1>12, <1>13,
     <1>14, <1>15, <1>16, <1>17, SMT DEF Next, EngineStep, Collective

\* An engine that runs goes on until the all-reduce stops all of them.
LEMMA RunningKept ==
    ASSUME WeakTypeOK, [Next]_vars, NEW f \in Engines, engines_running[f]
    PROVE  engines_running'[f] \/ SyncDpState
<1>1. ASSUME NEW e \in Engines, NEW c \in Clients, HandleRequest(e, c) PROVE engines_running'[f]
  <2>1. \/ engines_running' = engines_running
        \/ engines_running' = [engines_running EXCEPT ![e] = TRUE]
    BY <1>1 DEF HandleRequest, Add, Pause, Resume
  <2>2. QED
    BY <2>1 DEF WeakTypeOK
<1>2. ASSUME NEW e \in Engines, StartDpWave(e) PROVE engines_running'[f]
  <2>1. \/ engines_running' = engines_running
        \/ engines_running' = [engines_running EXCEPT ![e] = TRUE]
    BY <1>2 DEF StartDpWave
  <2>2. QED
    BY <2>1 DEF WeakTypeOK
<1>3. ASSUME (\E finished : ForwardPass(finished)) \/ ResumeBarrier PROVE engines_running'[f]
  BY <1>3 DEF ForwardPass, ResumeBarrier
<1>4. ASSUME UNCHANGED engines_running PROVE engines_running'[f]
  BY <1>4
<1>5. ASSUME NEW c \in Clients,
             \/ \E e \in Engines : AddRequest(c, e)
             \/ SendFirstReq(c) \/ ReceiveState(c) \/ FirstReq(c) \/ Republish(c)
      PROVE  engines_running'[f]
  BY <1>4, <1>5 DEF AddRequest, SendFirstReq, ReceiveState, FirstReq, Republish, evars
<1>6. ASSUME (\E mode \in PauseModes : PauseAll(mode)) \/ ResumeAll PROVE engines_running'[f]
  BY <1>4, <1>6 DEF PauseAll, ResumeAll
<1>7. ASSUME NEW e \in Engines, EngineNotice(e) \/ HandleAbort(e) \/ NotifyIdle(e) \/ Step(e)
      PROVE  engines_running'[f]
  BY <1>4, <1>7 DEF EngineNotice, HandleAbort, NotifyIdle, Step, evars
<1>8. ASSUME UNCHANGED vars PROVE engines_running'[f]
  BY <1>4, <1>8 DEF vars
<1>9. QED
  BY <1>1, <1>2, <1>3, <1>5, <1>6, <1>7, <1>8 DEF Next, EngineStep, Collective

\* The all-reduce that finds a request keeps every engine running, the one that
\* finds none ends the wave, and no other step does.
LEMMA WaveEnds ==
    ASSUME WeakTypeOK, WaveInv, [Next]_vars
    PROVE  \/ ~SyncDpState /\ Wave' = Wave
           \/ /\ SyncDpState /\ coordinator' = coordinator
              /\ Wave' = Wave + 1 \/ \A e \in Engines : engines_running'[e]
<1>0. 0 \in Engines
  BY DataParallelAssumption
<1>1. CASE SyncDpState
  <2>1. coordinator' = coordinator
    BY <1>1 DEF SyncDpState, cvars
  <2>2. PICK unfinished \in BOOLEAN :
           /\ engines_running' = [e \in Engines |-> unfinished]
           /\ unfinished \/ current_wave' = [e \in Engines |-> current_wave[e] + 1]
    BY <1>1 DEF SyncDpState
  <2>3. QED
    BY <1>0, <1>1, <2>1, <2>2 DEF Wave
<1>2. ASSUME NEW e \in Engines, (\E c \in Clients : HandleRequest(e, c)) \/ StartDpWave(e)
      PROVE  Wave' = Wave
  BY <1>2, SameWave
<1>3. ASSUME NEW c \in Clients,
             \/ \E e \in Engines : AddRequest(c, e)
             \/ SendFirstReq(c) \/ ReceiveState(c) \/ FirstReq(c) \/ Republish(c)
      PROVE  Wave' = Wave
  BY <1>3 DEF AddRequest, SendFirstReq, ReceiveState, FirstReq, Republish, evars, Wave
<1>4. ASSUME (\E mode \in PauseModes : PauseAll(mode)) \/ ResumeAll PROVE Wave' = Wave
  BY <1>4 DEF PauseAll, ResumeAll, Wave
<1>5. ASSUME NEW e \in Engines, EngineNotice(e) \/ HandleAbort(e) \/ NotifyIdle(e) \/ Step(e)
      PROVE  Wave' = Wave
  BY <1>5 DEF EngineNotice, HandleAbort, NotifyIdle, Step, evars, Wave
<1>6. ASSUME (\E finished : ForwardPass(finished)) \/ ResumeBarrier PROVE Wave' = Wave
  BY <1>6 DEF ForwardPass, ResumeBarrier, Wave
<1>7. ASSUME UNCHANGED vars PROVE Wave' = Wave
  BY <1>7 DEF vars, Wave
<1>8. QED
  BY <1>1, <1>2, <1>3, <1>4, <1>5, <1>6, <1>7 DEF Next, EngineStep, Collective

\* AskInv in every step: an engine starts to run when it asks.
LEMMA AskStep == WeakTypeOK /\ MessageOK /\ WaveInv /\ AskInv /\ [Next]_vars => AskInv'
<1> SUFFICES ASSUME WeakTypeOK, MessageOK, WaveInv, AskInv, [Next]_vars
             PROVE  AskInv'
    OBVIOUS
<1>0. 0 \in Engines /\ Wave \in Nat
  BY DataParallelAssumption DEF WeakTypeOK, Wave
<1> DEFINE Asks(f) == \A i \in 1 .. Len(from_engine'[f]) :
                         from_engine'[f][i].type = "start_wave" /\ from_engine'[f][i].wave = Wave'
                            => engines_running'[f]
<1>a. ASSUME \A f \in Engines : Asks(f) PROVE AskInv'
  BY <1>a DEF AskInv
<1>b. ASSUME NEW f \in Engines, from_engine'[f] = from_engine[f], ~SyncDpState PROVE Asks(f)
  BY <1>b, WaveEnds, RunningKept DEF AskInv
<1>c. ASSUME from_engine' = from_engine, ~SyncDpState PROVE AskInv'
  BY <1>a, <1>b, <1>c
<1> HIDE DEF Asks
<1>1. ASSUME NEW c \in Clients,
             \/ \E e \in Engines : AddRequest(c, e)
             \/ SendFirstReq(c) \/ ReceiveState(c) \/ FirstReq(c) \/ Republish(c)
      PROVE  from_engine' = from_engine
  BY <1>1 DEF AddRequest, SendFirstReq, ReceiveState, FirstReq, Republish
<1>2. ASSUME (\E mode \in PauseModes : PauseAll(mode)) \/ ResumeAll
      PROVE  from_engine' = from_engine
  BY <1>2 DEF PauseAll, ResumeAll
<1>3. ASSUME NEW e \in Engines, StartDpWave(e) \/ HandleAbort(e) \/ NotifyIdle(e) \/ Step(e)
      PROVE  from_engine' = from_engine
  BY <1>3 DEF StartDpWave, HandleAbort, NotifyIdle, Step, mvars
<1>4. ASSUME (\E finished : ForwardPass(finished)) \/ ResumeBarrier \/ UNCHANGED vars
      PROVE  from_engine' = from_engine
  BY <1>4 DEF ForwardPass, ResumeBarrier, mvars, vars
<1>5. ASSUME NEW e \in Engines, EngineNotice(e), ~SyncDpState PROVE AskInv'
  <2>1. from_engine[e] \in Seq(Notice) /\ from_engine[e] # <<>>
    BY <1>5 DEF EngineNotice, MessageOK
  <2>2. /\ Len(from_engine[e]) \in Nat \ {0}
        /\ Len(Tail(from_engine[e])) = Len(from_engine[e]) - 1
        /\ \A i \in 1 .. Len(from_engine[e]) - 1 : Tail(from_engine[e])[i] = from_engine[e][i + 1]
    BY <2>1, TailFacts
  <2>3. /\ from_engine' = [from_engine EXCEPT ![e] = Tail(@)]
        /\ UNCHANGED engines_running
    BY <1>5 DEF EngineNotice, evars
  <2>4. ASSUME NEW f \in Engines PROVE Asks(f)
    <3>1. CASE f # e
      <4>1. from_engine'[f] = from_engine[f]
        BY <2>3, <3>1 DEF WaveInv
      <4>2. QED
        BY <1>b, <1>5, <4>1
    <3>2. CASE f = e
      <4>1. from_engine'[e] = Tail(from_engine[e])
        BY <2>3 DEF WaveInv
      <4>2. ASSUME NEW i \in 1 .. Len(from_engine'[e])
            PROVE  /\ i + 1 \in 1 .. Len(from_engine[e])
                   /\ from_engine'[e][i] = from_engine[e][i + 1]
        BY <2>2, <4>1, SMT
      <4>3. Wave' = Wave /\ engines_running'[e] = engines_running[e]
        BY <1>5, <2>3, WaveEnds
      <4>4. Asks(e)
        BY <4>2, <4>3 DEF Asks, AskInv
      <4>5. QED
        BY <3>2, <4>4
    <3>3. QED
      BY <3>1, <3>2
  <2>5. QED
    BY <1>a, <2>4
<1>6. ASSUME NEW e \in Engines, NEW c \in Clients, HandleRequest(e, c), ~SyncDpState PROVE AskInv'
  <2> DEFINE m == [type |-> "start_wave", wave |-> current_wave[e]]
  <2>1. \/ from_engine' = from_engine
        \/ /\ from_engine' = [from_engine EXCEPT ![e] = Append(@, m)]
           /\ engines_running' = [engines_running EXCEPT ![e] = TRUE]
    BY <1>6 DEF HandleRequest, Add, Pause, Resume
  <2> HIDE DEF m
  <2>2. CASE from_engine' = from_engine
    BY <1>c, <1>6, <2>2
  <2>3. CASE /\ from_engine' = [from_engine EXCEPT ![e] = Append(@, m)]
             /\ engines_running' = [engines_running EXCEPT ![e] = TRUE]
    <3>1. engines_running'[e]
      BY <2>3 DEF WeakTypeOK
    <3>2. Asks(e)
      BY <3>1 DEF Asks
    <3>3. ASSUME NEW f \in Engines, f # e PROVE Asks(f)
      <4>1. from_engine'[f] = from_engine[f]
        BY <2>3, <3>3 DEF WaveInv
      <4>2. QED
        BY <1>b, <1>6, <4>1
    <3>4. QED
      BY <1>a, <3>2, <3>3
  <2>4. QED
    BY <2>1, <2>2, <2>3
<1>7. CASE SyncDpState
  <2>1. CASE \A e \in Engines : engines_running'[e]
    BY <1>a, <2>1 DEF Asks
  <2>2. CASE Wave' = Wave + 1
    <3> DEFINE m == [type |-> "wave_complete", wave |-> current_wave[0]]
    <3>1. from_engine' = from_engine \/ from_engine' = [from_engine EXCEPT ![0] = Append(@, m)]
      BY <1>7 DEF SyncDpState
    <3>2. m \in Notice /\ m.type = "wave_complete"
      BY <1>0 DEF Notice, Wave
    <3> HIDE DEF m
    <3>3. ASSUME NEW f \in Engines, NEW i \in 1 .. Len(from_engine'[f]),
                 from_engine'[f][i].type = "start_wave"
          PROVE  from_engine'[f][i].wave # Wave'
      <4>1. from_engine[f] \in Seq(NoticeUpTo(Wave)) /\ from_engine[f] \in Seq(Notice)
        BY SeqFacts DEF WaveInv, NoticeUpTo
      <4>2. from_engine'[f] = from_engine[f] \/ from_engine'[f] = Append(from_engine[f], m)
        BY <1>0, <3>1 DEF WaveInv
      <4>3. i \in 1 .. Len(from_engine[f]) /\ from_engine'[f][i] = from_engine[f][i]
        BY <3>2, <3>3, <4>1, <4>2, AppendFacts, SMT
      <4>4. from_engine'[f][i] \in NoticeUpTo(Wave)
        BY <4>1, <4>3, SMT
      <4>5. from_engine'[f][i].wave \in Nat /\ from_engine'[f][i].wave <= Wave
        BY <4>4 DEF NoticeUpTo, Notice
      <4>6. QED
        BY <1>0, <2>2, <4>5, SMT
    <3>4. QED
      BY <1>a, <3>3 DEF Asks
  <2>3. QED
    BY <1>7, <2>1, <2>2, WaveEnds
<1>8. QED
  BY <1>c, <1>1, <1>2, <1>3, <1>4, <1>5, <1>6, <1>7 DEF Next, EngineStep, Collective

\* The coordinator takes the engines to run for a FIRST_REQ, or for the notice
\* of an engine that runs.
LEMMA TakenBy ==
    ASSUME WeakTypeOK, MessageOK, WaveInv, AskInv, [Next]_vars
    PROVE  \/ coordinator' = coordinator
           \/ ~coordinator'.running
           \/ \E c \in Clients : FirstReq(c) /\ ~coordinator.running
           \/ coordinator'.wave = Wave' => \E e \in Engines : engines_running'[e]
<1>1. ASSUME NEW c \in Clients, FirstReq(c), coordinator.running PROVE coordinator' = coordinator
  BY <1>1 DEF FirstReq
<1>2. ASSUME NEW c \in Clients,
             \/ \E e \in Engines : AddRequest(c, e)
             \/ SendFirstReq(c) \/ ReceiveState(c) \/ Republish(c)
      PROVE  coordinator' = coordinator
  BY <1>2 DEF AddRequest, SendFirstReq, ReceiveState, Republish, cvars
<1>3. ASSUME (\E mode \in PauseModes : PauseAll(mode)) \/ ResumeAll
      PROVE  coordinator' = coordinator
  BY <1>3 DEF PauseAll, ResumeAll, cvars
<1>4. ASSUME NEW e \in Engines,
             \/ \E c \in Clients : HandleRequest(e, c)
             \/ StartDpWave(e) \/ HandleAbort(e) \/ NotifyIdle(e) \/ Step(e)
      PROVE  coordinator' = coordinator
  BY <1>4 DEF HandleRequest, StartDpWave, HandleAbort, NotifyIdle, Step, cvars
<1>5. ASSUME (\E finished : ForwardPass(finished)) \/ SyncDpState \/ ResumeBarrier \/ UNCHANGED vars
      PROVE  coordinator' = coordinator
  BY <1>5 DEF ForwardPass, SyncDpState, ResumeBarrier, cvars, vars
<1>6. ASSUME NEW e \in Engines, EngineNotice(e)
      PROVE  \/ coordinator' = coordinator
             \/ ~coordinator'.running
             \/ coordinator'.wave = Wave' => engines_running'[e]
  <2> DEFINE msg == Head(from_engine[e])
  <2>1. from_engine[e] \in Seq(Notice) /\ from_engine[e] # <<>>
    BY <1>6 DEF EngineNotice, MessageOK
  <2>2. msg = from_engine[e][1] /\ Len(from_engine[e]) \in Nat \ {0}
    BY <2>1, TailFacts
  <2>3. UNCHANGED <<current_wave, engines_running>>
    BY <1>6 DEF EngineNotice, evars
  <2>4. \/ coordinator' = [wave |-> msg.wave + 1, running |-> FALSE]
        \/ /\ msg.type = "start_wave"
           /\ coordinator' = [wave |-> msg.wave, running |-> TRUE]
        \/ coordinator' = coordinator
    BY <1>6 DEF EngineNotice, Publish
  <2> HIDE DEF msg
  <2>5. msg.type = "start_wave" /\ msg.wave = Wave => engines_running[e]
    BY <2>2, SMT DEF AskInv
  <2>6. Wave' = Wave
    BY <2>3 DEF Wave
  <2>7. CASE /\ msg.type = "start_wave"
             /\ coordinator' = [wave |-> msg.wave, running |-> TRUE]
    <3>1. coordinator'.wave = msg.wave
      BY <2>7
    <3>2. QED
      BY <2>3, <2>5, <2>6, <2>7, <3>1
  <2>8. CASE coordinator' = [wave |-> msg.wave + 1, running |-> FALSE]
    BY <2>8
  <2>9. QED
    BY <2>4, <2>7, <2>8
<1>7. QED
  BY <1>1, <1>2, <1>3, <1>4, <1>5, <1>6 DEF Next, EngineStep, Collective

\* BusyInv in every step.  The request of a FIRST_REQ is not over, and the
\* all-reduce ends the wave only when it finds no request.
LEMMA BusyStep ==
    ASSUME "abort_idle" \notin Races
    PROVE  WeakTypeOK /\ MessageOK /\ WaveInv /\ AskInv /\ FirstReqInv /\ BusyInv /\ [Next]_vars
              => BusyInv'
<1> SUFFICES ASSUME WeakTypeOK, MessageOK, WaveInv, AskInv, FirstReqInv, BusyInv, [Next]_vars
             PROVE  BusyInv'
    OBVIOUS
<1>0. 0 \in Engines /\ Wave \in Nat /\ coordinator.wave \in Nat /\ coordinator.wave <= Wave
  BY DataParallelAssumption DEF WeakTypeOK, Wave, WaveInv, StateUpTo, State
<1>1. CASE SyncDpState
  <2>1. CASE \A e \in Engines : engines_running'[e]
    BY <1>0, <2>1 DEF BusyInv, Busy
  <2>2. CASE Wave' = Wave + 1 /\ coordinator' = coordinator
    BY <1>0, <2>2, SMT DEF BusyInv
  <2>3. QED
    BY <1>1, <2>1, <2>2, WaveEnds
<1>2. ASSUME ~SyncDpState, NEW e \in Engines, Busy(e) PROVE BusyInv'
  BY <1>2, StillBusy DEF BusyInv
<1>3. CASE ~SyncDpState /\ coordinator' = coordinator
  BY <1>2, <1>3, WaveEnds DEF BusyInv
<1>4. ASSUME NEW c \in Clients, FirstReq(c), ~SyncDpState PROVE BusyInv'
  <2>1. from_client[c] \in Seq(NewFor(Requested)) /\ from_client[c] # <<>>
    BY <1>4 DEF FirstReq, FirstReqInv
  <2>2. Head(from_client[c]) \in NewFor(Requested)
    BY <2>1, TailFacts
  <2>3. QED
    BY <1>2, <1>4, <2>2 DEF NewFor, Requested, Busy
<1>5. CASE \/ ~coordinator'.running
           \/ coordinator'.wave = Wave' => \E e \in Engines : engines_running'[e]
  BY <1>5 DEF BusyInv, Busy
<1>6. QED
  BY <1>1, <1>3, <1>4, <1>5, TakenBy

-----------------------------------------------------------------------------
(* Without pauses.                                                         *)

\* Where pause_generation is not used, no engine ignores START_DP_WAVE.
LEMMA NeverPausedStep ==
    ASSUME PauseModes = {}
    PROVE  WeakTypeOK /\ MessageOK /\ NeverPaused /\ [Next]_vars => NeverPaused'
<1> SUFFICES ASSUME WeakTypeOK, MessageOK, NeverPaused, [Next]_vars
             PROVE  NeverPaused'
    OBVIOUS
<1>0. 0 \in Engines
  BY DataParallelAssumption
<1>a. ASSUME UNCHANGED <<future, ignore_start, pending_pause>> PROVE NeverPaused'
  BY <1>a DEF NeverPaused
<1>1. ASSUME NEW c \in Clients,
             \/ \E e \in Engines : AddRequest(c, e)
             \/ SendFirstReq(c) \/ ReceiveState(c) \/ FirstReq(c) \/ Republish(c)
      PROVE  NeverPaused'
  BY <1>a, <1>1 DEF AddRequest, SendFirstReq, ReceiveState, FirstReq, Republish, evars
<1>2. ~ResumeAll
  BY <1>0 DEF ResumeAll, NeverPaused
<1>3. ASSUME NEW e \in Engines,
             EngineNotice(e) \/ StartDpWave(e) \/ HandleAbort(e) \/ Step(e)
      PROVE  NeverPaused'
  BY <1>a, <1>3 DEF EngineNotice, StartDpWave, HandleAbort, Step, evars
<1>4. ASSUME NEW e \in Engines, NotifyIdle(e) PROVE NeverPaused'
  BY <1>4 DEF NotifyIdle, NeverPaused
<1>5. ASSUME NEW e \in Engines, NEW c \in Clients, HandleRequest(e, c) PROVE NeverPaused'
  <2>1. to_engine[c][e] \in Seq(Request) /\ to_engine[c][e] # <<>>
    BY <1>5 DEF HandleRequest, MessageOK
  <2>2. Head(to_engine[c][e]) \in Request
    BY <2>1, TailFacts
  <2>3. Head(to_engine[c][e]).type # "pause"
    BY <2>2 DEF Request
  <2>4. /\ \/ future' = future
           \/ future' = [future EXCEPT ![e] = "none"]
        /\ \/ ignore_start' = ignore_start
           \/ ignore_start' = [ignore_start EXCEPT ![e] = FALSE]
        /\ pending_pause' = pending_pause
    BY <1>5, <2>3 DEF HandleRequest, Add, Resume
  <2>5. ASSUME NEW f \in Engines
        PROVE  future'[f] = "none" /\ ~ignore_start'[f] /\ ~pending_pause'[f]
    <3>1. future'[f] = "none"
      BY <2>4 DEF NeverPaused, WeakTypeOK
    <3>2. ~ignore_start'[f]
      <4>1. CASE ignore_start' = ignore_start
        BY <4>1 DEF NeverPaused
      <4>2. CASE ignore_start' = [ignore_start EXCEPT ![e] = FALSE]
        <5>1. ignore_start \in [Engines -> BOOLEAN] /\ ignore_start[f] = FALSE
          BY DEF NeverPaused, WeakTypeOK
        <5>2. ignore_start'[f] = FALSE
          BY ONLY <4>2, <5>1, e \in Engines, f \in Engines, SMT
        <5>3. QED
          BY <5>2
      <4>3. QED
        BY <2>4, <4>1, <4>2
    <3>3. QED
      BY <2>4, <3>1, <3>2 DEF NeverPaused
  <2>6. QED
    BY <2>5 DEF NeverPaused
<1>6. CASE SyncDpState
  <2>1. {e \in Engines : pending_pause[e]} # Engines
    BY <1>0 DEF NeverPaused
  <2>2. /\ ignore_start' = [e \in Engines |->
                               ignore_start[e] \/ {f \in Engines : pending_pause[f]} = Engines]
        /\ pending_pause' = [e \in Engines |->
                               pending_pause[e] /\ {f \in Engines : pending_pause[f]} # Engines]
        /\ future' = future
    BY <1>6 DEF SyncDpState
  <2>3. QED
    BY <2>1, <2>2 DEF NeverPaused
<1>7. ASSUME (\E finished : ForwardPass(finished)) \/ ResumeBarrier \/ UNCHANGED vars
      PROVE  NeverPaused'
  BY <1>a, <1>7 DEF ForwardPass, ResumeBarrier, vars
<1>8. QED
  BY <1>1, <1>2, <1>3, <1>4, <1>5, <1>6, <1>7 DEF Next, EngineStep, Collective

\* An engine leaves the all-reduce with all the others.
LEMMA SyncKept ==
    ASSUME WeakTypeOK, PassInv, [Next]_vars, ~SyncDpState, NEW f \in Engines, pc[f] = "sync"
    PROVE  pc'[f] = "sync"
<1>1. ASSUME NEW e \in Engines,
             \/ \E c \in Clients : HandleRequest(e, c)
             \/ StartDpWave(e) \/ HandleAbort(e) \/ NotifyIdle(e) \/ Step(e)
      PROVE  FALSE
  <2>1. pc[e] = "input"
    BY <1>1 DEF HandleRequest, StartDpWave, HandleAbort, NotifyIdle, Step
  <2>2. QED
    BY <2>1 DEF PassInv
<1>2. ~ResumeBarrier /\ \A finished : ~ForwardPass(finished)
  BY DEF ResumeBarrier, ForwardPass, Together
<1>3. ASSUME NEW c \in Clients,
             \/ \E e \in Engines : AddRequest(c, e)
             \/ SendFirstReq(c) \/ ReceiveState(c) \/ FirstReq(c) \/ Republish(c)
      PROVE  pc' = pc
  BY <1>3 DEF AddRequest, SendFirstReq, ReceiveState, FirstReq, Republish, evars
<1>4. ASSUME (\E mode \in PauseModes : PauseAll(mode)) \/ ResumeAll \/ UNCHANGED vars
      PROVE  pc' = pc
  BY <1>4 DEF PauseAll, ResumeAll, vars
<1>5. ASSUME NEW e \in Engines, EngineNotice(e) PROVE pc' = pc
  BY <1>5 DEF EngineNotice, evars
<1>6. QED
  BY <1>1, <1>2, <1>3, <1>4, <1>5 DEF Next, EngineStep, Collective

\* A START_DP_WAVE of this wave stays on its way until it wakes its engine.
LEMMA WokenKept ==
    ASSUME WeakTypeOK, MessageOK, WaveInv, NeverPaused, [Next]_vars, ~SyncDpState,
           NEW f \in Engines, Woken(f)
    PROVE  engines_running'[f] \/ Woken(f)'
<1>0. Wave' = Wave
  BY WaveEnds
<1>a. ASSUME start' = start PROVE Woken(f)'
  BY <1>0, <1>a DEF Woken
<1>b. PICK i \in 1 .. Len(start[f]) : start[f][i].wave = Wave /\ start[f][i].exclude # f
  BY DEF Woken
<1>c. start[f] \in Seq(StartWave)
  BY DEF MessageOK
<1>1. ASSUME NEW w, NEW x, SendStartWave(w, x), w \in Nat, [wave |-> w, exclude |-> x] \in StartWave
      PROVE  Woken(f)'
  <2> DEFINE m == [wave |-> w, exclude |-> x]
  <2>1. start'[f] = Append(start[f], m)
    BY <1>1 DEF SendStartWave
  <2>2. m \in StartWave
    BY <1>1
  <2> HIDE DEF m
  <2>3. i \in 1 .. Len(start'[f]) /\ start'[f][i] = start[f][i]
    BY ONLY i \in 1 .. Len(start[f]), <1>c, <2>1, <2>2, AppendFacts, SMT
  <2>4. QED
    BY <1>0, <1>b, <2>3 DEF Woken
<1>2. ASSUME NEW c \in Clients, FirstReq(c) PROVE Woken(f)'
  <2>1. from_client[c] \in Seq(NewRequest) /\ from_client[c] # <<>>
    BY <1>2 DEF FirstReq, MessageOK
  <2>2. Head(from_client[c]).target \in Identities
    <3>1. Head(from_client[c]) \in NewRequest
      BY <2>1, TailFacts
    <3>2. QED
      BY <3>1 DEF NewRequest
  <2>3. start' = start \/ \E x \in Identities \cup {Nobody} : SendStartWave(coordinator.wave, x)
    BY <1>2, <2>2 DEF FirstReq
  <2>4. coordinator.wave \in Nat
    BY DEF WeakTypeOK, State
  <2>5. \A x \in Identities \cup {Nobody} : [wave |-> coordinator.wave, exclude |-> x] \in StartWave
    BY <2>4 DEF StartWave
  <2>6. QED
    BY <1>a, <1>1, <2>3, <2>4, <2>5
<1>3. ASSUME NEW e \in Engines, EngineNotice(e) PROVE Woken(f)'
  <2>1. from_engine[e] \in Seq(Notice) /\ from_engine[e] # <<>>
    BY <1>3 DEF EngineNotice, MessageOK
  <2>2. Head(from_engine[e]).wave \in Nat
    <3>1. Head(from_engine[e]) \in Notice
      BY <2>1, TailFacts
    <3>2. QED
      BY <3>1 DEF Notice
  <2>3. start' = start \/ SendStartWave(Head(from_engine[e]).wave, e)
    BY <1>3 DEF EngineNotice
  <2>4. [wave |-> Head(from_engine[e]).wave, exclude |-> e] \in StartWave
    BY <2>2 DEF StartWave
  <2>5. QED
    BY <1>a, <1>1, <2>2, <2>3, <2>4
<1>4. ASSUME NEW e \in Engines, StartDpWave(e) PROVE engines_running'[f] \/ Woken(f)'
  <2>1. start' = [start EXCEPT ![e] = Tail(@)] /\ start[e] # <<>>
    BY <1>4 DEF StartDpWave
  <2>2. CASE e # f
    <3>1. start'[f] = start[f]
      BY <2>1, <2>2 DEF MessageOK
    <3>2. QED
      BY <1>0, <1>b, <3>1 DEF Woken
  <2>3. CASE e = f /\ i = 1
    <3>1. Head(start[f]) = start[f][1]
      BY <1>c, <2>1, <2>3, TailFacts
    <3>2. current_wave[f] = Wave /\ Wave \in Nat /\ ~ignore_start[f]
      BY DataParallelAssumption DEF WaveInv, WeakTypeOK, Wave, NeverPaused
    <3>3. Head(start[f]).wave >= current_wave[f] /\ Head(start[f]).exclude # f
      BY <1>b, <2>3, <3>1, <3>2, SMT
    <3>4. engines_running' = [engines_running EXCEPT ![f] = TRUE]
      BY <1>4, <2>3, <3>2, <3>3 DEF StartDpWave
    <3>5. QED
      BY <3>4 DEF WeakTypeOK
  <2>4. CASE e = f /\ i # 1
    <3>1. start'[f] = Tail(start[f])
      BY <2>1, <2>4 DEF MessageOK
    <3>2. /\ Len(start[f]) \in Nat
          /\ Len(Tail(start[f])) = Len(start[f]) - 1
          /\ \A j \in 1 .. Len(start[f]) - 1 : Tail(start[f])[j] = start[f][j + 1]
      BY <1>c, <2>1, <2>4, TailFacts
    <3>3. i - 1 \in 1 .. Len(start'[f]) /\ start'[f][i - 1] = start[f][i]
      BY ONLY i \in 1 .. Len(start[f]), <2>4, <3>1, <3>2, SMT
    <3>4. QED
      BY <1>0, <1>b, <3>3 DEF Woken
  <2>5. QED
    BY <2>2, <2>3, <2>4
<1>5. ASSUME NEW c \in Clients,
             \/ \E e \in Engines : AddRequest(c, e)
             \/ SendFirstReq(c) \/ ReceiveState(c) \/ Republish(c)
      PROVE  start' = start
  BY <1>5 DEF AddRequest, SendFirstReq, ReceiveState, Republish
<1>6. ASSUME (\E mode \in PauseModes : PauseAll(mode)) \/ ResumeAll \/ UNCHANGED vars
      PROVE  start' = start
  BY <1>6 DEF PauseAll, ResumeAll, vars
<1>7. ASSUME NEW e \in Engines,
             \/ \E c \in Clients : HandleRequest(e, c)
             \/ HandleAbort(e) \/ NotifyIdle(e) \/ Step(e)
      PROVE  start' = start
  BY <1>7 DEF HandleRequest, HandleAbort, NotifyIdle, Step, mvars
<1>8. ASSUME (\E finished : ForwardPass(finished)) \/ ResumeBarrier PROVE start' = start
  BY <1>8 DEF ForwardPass, ResumeBarrier, mvars
<1>9. QED
  BY <1>a, <1>2, <1>3, <1>4, <1>5, <1>6, <1>7, <1>8 DEF Next, EngineStep, Collective

\* StartedInv in every step: a FIRST_REQ wakes every engine, the one that has
\* the request included, since its identity is no engine_index.
LEMMA StartedStep ==
    WeakTypeOK /\ MessageOK /\ PassInv /\ WaveInv /\ AskInv /\ NeverPaused /\ StartedInv
       /\ [Next]_vars => StartedInv'
<1> SUFFICES ASSUME WeakTypeOK, MessageOK, PassInv, WaveInv, AskInv, NeverPaused, StartedInv,
                    [Next]_vars
             PROVE  StartedInv'
    OBVIOUS
<1>0. 0 \in Engines /\ Wave \in Nat /\ coordinator.wave \in Nat /\ coordinator.wave <= Wave
  BY DataParallelAssumption DEF WeakTypeOK, Wave, WaveInv, StateUpTo, State
<1>1. CASE SyncDpState
  <2>1. CASE \A e \in Engines : engines_running'[e]
    BY <1>0, <2>1 DEF StartedInv
  <2>2. CASE Wave' = Wave + 1 /\ coordinator' = coordinator
    BY <1>0, <2>2, SMT DEF StartedInv
  <2>3. QED
    BY <1>1, <2>1, <2>2, WaveEnds
<1>2. CASE ~SyncDpState /\ coordinator' = coordinator
  BY <1>2, WaveEnds, RunningKept, SyncKept, WokenKept DEF StartedInv
<1>3. ASSUME NEW c \in Clients, FirstReq(c), ~coordinator.running, ~SyncDpState PROVE StartedInv'
  <2>1. from_client[c] \in Seq(NewRequest) /\ from_client[c] # <<>>
    BY <1>3 DEF FirstReq, MessageOK
  <2>2. Head(from_client[c]).target \in Identities
    <3>1. Head(from_client[c]) \in NewRequest
      BY <2>1, TailFacts
    <3>2. QED
      BY <3>1 DEF NewRequest
  <2>3. PICK x \in Identities \cup {Nobody} : SendStartWave(coordinator.wave, x)
    BY <1>3, <2>2 DEF FirstReq
  <2>4. coordinator'.wave = coordinator.wave
    <3>1. coordinator' = [wave |-> coordinator.wave, running |-> TRUE]
      BY <1>3 DEF FirstReq, Publish
    <3>2. QED
      BY <3>1
  <2>5. x # 0
    BY DataParallelAssumption, SMT DEF Identities, Identity, Nobody
  <2> DEFINE m == [wave |-> coordinator.wave, exclude |-> x]
  <2>6. m \in StartWave /\ m.wave = coordinator.wave /\ m.exclude # 0
    BY <1>0, <2>5 DEF StartWave
  <2>7. start'[0] = Append(start[0], m) /\ start[0] \in Seq(StartWave)
    BY <1>0, <2>3 DEF SendStartWave, MessageOK
  <2> HIDE DEF m
  <2>8. /\ Len(start[0]) + 1 \in 1 .. Len(start'[0])
        /\ start'[0][Len(start[0]) + 1] = m
    BY ONLY <2>6, <2>7, AppendFacts, SMT
  <2>9. PICK i \in 1 .. Len(start'[0]) : start'[0][i] = m
    BY <2>8
  <2>10. QED
    BY <1>0, <1>3, <2>4, <2>6, <2>9, WaveEnds DEF StartedInv, Woken
<1>4. CASE \/ ~coordinator'.running
           \/ coordinator'.wave = Wave' => \E e \in Engines : engines_running'[e]
  BY <1>4 DEF StartedInv
<1>5. QED
  BY <1>1, <1>2, <1>3, <1>4, TakenBy

-----------------------------------------------------------------------------
(* The coordinator.                                                        *)

\* The engines start at wave 0 and the coordinator takes them to be idle.
LEMMA KnownInit == Init => KnownInv /\ UnpausedInv
<1> SUFFICES ASSUME Init PROVE KnownInv /\ UnpausedInv
    OBVIOUS
<1>0. 0 \in Engines
  BY DataParallelAssumption
<1>1. CollectiveInv
  BY CollectiveInit
<1>2. Wave = 0
  BY <1>0 DEF Init, Wave
<1>3. WaveInv
  <2>1. [wave |-> 0, running |-> FALSE] \in StateUpTo(0)
    BY SMT DEF StateUpTo, State
  <2>2. QED
    BY <1>2, <2>1, SMT DEF Init, WaveInv
<1>4. HeardInv
  BY <1>2 DEF Init, HeardInv
<1>5. FirstReqInv
  BY SMT DEF Init, FirstReqInv
<1>6. AskInv
  BY SMT DEF Init, AskInv
<1>7. BusyInv /\ NeverPaused /\ StartedInv
  BY DEF Init, BusyInv, NeverPaused, StartedInv
<1>8. QED
  BY <1>1, <1>3, <1>4, <1>5, <1>6, <1>7 DEF KnownInv, UnpausedInv

\* KnownInv in every step.
LEMMA KnownStep ==
    ASSUME "abort_idle" \notin Races, "late_first_req" \notin Races
    PROVE  KnownInv /\ [Next]_vars => KnownInv'
<1> SUFFICES ASSUME KnownInv, [Next]_vars PROVE KnownInv'
    OBVIOUS
<1>1. /\ CollectiveInv /\ WeakTypeOK /\ MessageOK
      /\ WaveInv /\ HeardInv /\ AskInv /\ FirstReqInv /\ BusyInv
  BY TypeIsWeakType DEF KnownInv, CollectiveInv
<1>2. CollectiveInv'
  BY <1>1, CollectiveStep
<1>3. WaveInv' /\ HeardInv' /\ AskInv'
  BY <1>1, WaveStep, HeardStep, AskStep
<1>4. FirstReqInv' /\ BusyInv'
  BY <1>1, FirstReqStep, BusyStep
<1>5. QED
  BY <1>2, <1>3, <1>4 DEF KnownInv

\* UnpausedInv in every step.
LEMMA UnpausedStep ==
    ASSUME PauseModes = {}
    PROVE  UnpausedInv /\ [Next]_vars => UnpausedInv'
<1> SUFFICES ASSUME UnpausedInv, [Next]_vars PROVE UnpausedInv'
    OBVIOUS
<1>1. /\ CollectiveInv /\ WeakTypeOK /\ MessageOK /\ PassInv
      /\ WaveInv /\ HeardInv /\ AskInv /\ NeverPaused /\ StartedInv
  BY TypeIsWeakType DEF UnpausedInv, CollectiveInv
<1>2. CollectiveInv'
  BY <1>1, CollectiveStep
<1>3. WaveInv' /\ HeardInv' /\ AskInv'
  BY <1>1, WaveStep, HeardStep, AskStep
<1>4. NeverPaused' /\ StartedInv'
  BY <1>1, NeverPausedStep, StartedStep
<1>5. QED
  BY <1>2, <1>3, <1>4 DEF UnpausedInv

\* When nothing is left to do, the coordinator knows that the wave is over
\* and all engines are at its wave: run_coordinator wakes them for the next
\* request.  It holds where pause_generation is not used, and with pauses if
\* no abort reaches an engine that does not run and no FIRST_REQ comes later
\* than the end of its request.  With a pause either race breaks it.
THEOREM IdleSafety ==
    ASSUME PauseModes = {} \/ ("abort_idle" \notin Races /\ "late_first_req" \notin Races)
    PROVE  Spec => []IdleIsKnown
<1>1. ASSUME CollectiveInv, HeardInv, WaveInv, Idle
      PROVE  /\ \A e \in Engines : current_wave[e] = coordinator.wave
             /\ coordinator.wave = Wave
  <2>1. from_engine[0] = <<>>
    BY <1>1, DataParallelAssumption DEF Idle
  <2>2. coordinator.wave = Wave
    BY <1>1, <2>1, SMT DEF HeardInv
  <2>3. QED
    BY <1>1, <2>2 DEF WaveInv
<1>2. KnownInv => IdleIsKnown
  <2> SUFFICES ASSUME KnownInv, Idle
               PROVE  ~coordinator.running /\ \A e \in Engines : current_wave[e] = coordinator.wave
    BY DEF IdleIsKnown
  <2>1. /\ WeakTypeOK /\ WaveInv /\ HeardInv /\ BusyInv /\ PauseInv /\ CollectiveInv
    BY TypeIsWeakType DEF KnownInv, CollectiveInv
  <2>2. ASSUME NEW e \in Engines PROVE ~Busy(e)
    <3>1. pc[e] = "input" /\ ~engines_running[e] /\ ~HasUnfinished(e) /\ future[e] = "none"
      BY DEF Idle, HasWork
    <3>2. pause_state[e] = "unpaused"
      BY <2>1, <3>1 DEF PauseInv
    <3>3. ~(waiting[e] + active[e] > 0)
      BY <2>1, <3>1, <3>2, UnfinishedFacts
    <3>4. \A c \in Clients : to_engine[c][e] = <<>>
      BY DEF Idle
    <3>5. QED
      BY <3>1, <3>3, <3>4, SMT DEF Busy, HasRequest
  <2>3. QED
    BY <1>1, <2>1, <2>2 DEF BusyInv
<1>3. UnpausedInv => IdleIsKnown
  <2> SUFFICES ASSUME UnpausedInv, Idle
               PROVE  ~coordinator.running /\ \A e \in Engines : current_wave[e] = coordinator.wave
    BY DEF IdleIsKnown
  <2>1. WaveInv /\ HeardInv /\ StartedInv /\ CollectiveInv
    BY DEF UnpausedInv
  <2>2. ASSUME NEW e \in Engines PROVE ~(engines_running[e] \/ pc[e] = "sync" \/ Woken(e))
    <3>1. pc[e] = "input" /\ ~engines_running[e] /\ start[e] = <<>>
      BY DEF Idle, HasWork
    <3>2. QED
      BY <3>1, SMT DEF Woken
  <2>3. QED
    BY <1>1, <2>1, <2>2 DEF StartedInv
<1>4. CASE PauseModes = {}
  <2>1. UnpausedInv /\ [Next]_vars => UnpausedInv'
    BY <1>4, UnpausedStep
  <2>2. QED
    BY KnownInit, <1>3, <2>1, PTL DEF Spec
<1>5. CASE "abort_idle" \notin Races /\ "late_first_req" \notin Races
  <2>1. KnownInv /\ [Next]_vars => KnownInv'
    BY <1>5, KnownStep
  <2>2. QED
    BY KnownInit, <1>2, <2>1, PTL DEF Spec
<1>6. QED
  BY <1>4, <1>5
=============================================================================
