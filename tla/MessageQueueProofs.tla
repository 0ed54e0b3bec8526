------------------------- MODULE MessageQueueProofs -------------------------
(***************************************************************************)
(* The inductive invariant of MessageQueue, for any number of readers and  *)
(* chunks.                                                                 *)
(*                                                                         *)
(* The flags say which object a chunk holds only together with the         *)
(* position of the writer: chunk s holds object Num(s), the last one       *)
(* written to it.  The inductive invariant says that a written chunk holds *)
(* that object with the read flags of the readers that took it, that a     *)
(* chunk not written was taken by everybody, that each reader stands       *)
(* sent - taken chunks behind the writer, and that the data socket of a    *)
(* reader holds, in order, the large objects it has not received.          *)
(***************************************************************************)
EXTENDS MessageQueue, TLAPS

\* Most leaves need no arithmetic; those that do cite SMT.
USE Zenon

\* The last object that was written to chunk s; none if it is not positive.
Num(s) == IF s < widx THEN sent - widx + s + 1 ELSE sent - widx + s + 1 - MaxChunks

\* The chunk of the next object that r takes.
Behind(r) ==
    IF sent - taken[r] <= widx
    THEN widx - (sent - taken[r])
    ELSE widx - (sent - taken[r]) + MaxChunks

Holds(d, n) == d.obj = n /\ (d.overflow <=> n \in big)

PositionInv ==
    /\ big \subseteq 1 .. sent
    /\ \A r \in Readers :
        /\ taken[r] <= sent
        /\ sent - taken[r] <= MaxChunks
        /\ ridx[r] = Behind(r)

ChunkInv ==
    \A s \in Chunks :
        /\ written[s] = 1 => /\ Holds(data[s], Num(s))
                             /\ \A r \in Readers : (read[s][r] = 1) <=> (Num(s) <= taken[r])
        /\ written[s] = 0 => \A r \in Readers : Num(s) <= taken[r]

WriterInv ==
    /\ wpc \in {"write", "reset", "mark"} => written[widx] = 0
    /\ wpc \in {"reset", "mark"} => /\ data[widx].obj = sent + 1
                                    /\ data[widx].overflow <=> overflow
    /\ wpc = "reset" => /\ reset \in Readers
                        /\ \A r \in Readers : r < reset => read[widx][r] = 0
    /\ wpc = "mark" => \A r \in Readers : read[widx][r] = 0
    /\ wpc = "send" => sent \in big

ReaderInv ==
    \A r \in Readers :
        /\ rpc[r] = "check_written" => read[ridx[r]][r] = 0
        /\ rpc[r] \in {"read", "mark"} => /\ taken[r] < sent
                                          /\ written[ridx[r]] = 1
        /\ rpc[r] = "mark" => Holds(buf[r], taken[r] + 1)
        /\ rpc[r] = "recv" => taken[r] \in big

\* The last object that r has received.
Low(r) == IF rpc[r] = "recv" THEN taken[r] - 1 ELSE taken[r]

\* The last large object up to which everything has been sent.
High == IF wpc = "send" THEN sent - 1 ELSE sent

Received(r) == out[r] = Low(r) /\ Low(r) <= High

\* What waits in r's socket is large, not received and sent, ...
Pending(r) ==
    \A i \in 1 .. Len(sock[r]) :
        /\ sock[r][i] \in big
        /\ Low(r) < sock[r][i]
        /\ sock[r][i] <= High - (Len(sock[r]) - i)

\* ... in the order of the enqueues, ...
Ordered(r) ==
    \A i, j \in 1 .. Len(sock[r]) : i < j => sock[r][i] < sock[r][j]

\* ... and is everything, but for the last object of a writer that died.
Complete(r) ==
    \A m \in big :
        (Low(r) < m /\ m <= High /\ (wpc = "dead" => m < sent)) =>
            \E i \in 1 .. Len(sock[r]) : sock[r][i] = m

SocketInv ==
    \A r \in Readers :
        ~late[r] => Received(r) /\ Pending(r) /\ Ordered(r) /\ Complete(r)

PatienceInv == \A r \in Patient : ~late[r]

Inv ==
    /\ TypeOK
    /\ PositionInv
    /\ ChunkInv
    /\ WriterInv
    /\ ReaderInv
    /\ SocketInv
    /\ PatienceInv

\* The invariant without its types.
Rest == PositionInv /\ ChunkInv /\ WriterInv /\ ReaderInv /\ SocketInv /\ PatienceInv

-----------------------------------------------------------------------------
(* Where the objects are.                                                  *)

\* The chunk that the writer comes to next holds the oldest object.
LEMMA NumOfWriter ==
    ASSUME TypeOK
    PROVE  Num(widx) = sent + 1 - MaxChunks
BY RingAssumption, SMT DEF TypeOK, Num, Chunks

\* Different chunks hold different objects.
LEMMA NumInjective ==
    ASSUME TypeOK, NEW s \in Chunks, NEW t \in Chunks, Num(s) = Num(t)
    PROVE  s = t
<1>1. sent \in Nat /\ widx \in Chunks
    BY DEF TypeOK
<1>. QED
    BY <1>1, RingAssumption, SMT DEF Num, Chunks

\* A reader that is behind the writer stands at the object it takes next.
LEMMA NumOfReader ==
    ASSUME TypeOK, PositionInv, NEW r \in Readers, taken[r] < sent
    PROVE  Num(ridx[r]) = taken[r] + 1
<1>1. taken[r] \in Nat /\ sent \in Nat /\ widx \in Chunks
    BY DEF TypeOK
<1>2. ridx[r] = Behind(r) /\ sent - taken[r] <= MaxChunks
    BY DEF PositionInv
<1>. QED
    BY <1>1, <1>2, RingAssumption, SMT DEF Behind, Num, Chunks

\* A reader that has taken everything stands where the writer is.
LEMMA ReaderAtWriter ==
    ASSUME TypeOK, PositionInv, NEW r \in Readers, taken[r] = sent
    PROVE  ridx[r] = widx
<1>1. taken[r] \in Nat /\ sent \in Nat /\ widx \in Chunks
    BY DEF TypeOK
<1>2. ridx[r] = Behind(r)
    BY DEF PositionInv
<1>. QED
    BY <1>1, <1>2, RingAssumption, SMT DEF Behind, Chunks

\* Marking a chunk gives it the new object and leaves the others theirs.
LEMMA NumAdvances ==
    ASSUME TypeOK, widx' = Advance(widx), sent' = sent + 1, NEW s \in Chunks
    PROVE  Num(s)' = IF s = widx THEN sent + 1 ELSE Num(s)
<1>1. sent \in Nat /\ widx \in Chunks
    BY DEF TypeOK
<1>. QED
    BY <1>1, RingAssumption, SMT DEF Num, Advance, Chunks

\* The next chunk is in the ring.
LEMMA AdvanceType ==
    ASSUME NEW i \in Chunks
    PROVE  Advance(i) \in Chunks
BY RingAssumption, SMT DEF Advance, Chunks

-----------------------------------------------------------------------------
(* Types.                                                                  *)

\* The queue starts with its flags down and every index at the first chunk.
LEMMA TypeInit == Init => TypeOK
<1>. SUFFICES ASSUME Init PROVE TypeOK
    OBVIOUS
<1>1. 0 \in Chunks
    BY RingAssumption, SMT DEF Chunks
<1>2. 0 \in 0 .. NReader
    BY RingAssumption, SMT
<1>3. Torn \in [overflow : BOOLEAN, obj : Int]
    BY SMT DEF Torn
<1>4. <<>> \in Seq(Nat)
    BY SMT
<1>5. /\ written \in [Chunks -> {0, 1}]
      /\ read \in [Chunks -> [Readers -> {0, 1}]]
      /\ data \in [Chunks -> [overflow : BOOLEAN, obj : Int]]
    BY <1>3 DEF Init
<1>6. /\ sock \in [Readers -> Seq(Nat)]
      /\ ping \in [Readers -> BOOLEAN]
    BY <1>4 DEF Init
<1>7. /\ widx \in Chunks
      /\ reset \in 0 .. NReader
      /\ ridx \in [Readers -> Chunks]
      /\ buf \in [Readers -> [overflow : BOOLEAN, obj : Int]]
    BY <1>1, <1>2, <1>3 DEF Init
<1>. QED
    BY <1>5, <1>6, <1>7, SMT DEF Init, TypeOK

\* Every step keeps the flags bits and the indices in the ring.
LEMMA TypeStep ==
    ASSUME TypeOK, WriterInv, [Next]_vars
    PROVE  TypeOK'
<1>. USE DEF TypeOK
<1>1. CASE \E o \in BOOLEAN : Enqueue(o)
    BY <1>1 DEF Enqueue, mem, rvars
<1>2. CASE EnqueueTimeout
    BY <1>2 DEF EnqueueTimeout, mem, rvars
<1>3. CASE AcquireWrite
    BY <1>3, SMT DEF AcquireWrite, Torn, rvars
<1>4. CASE WriteChunk
    BY <1>4, RingAssumption, SMT DEF WriteChunk, rvars
<1>5. CASE ResetReadFlag
  <2>1. reset \in Readers /\ reset + 1 \in 0 .. NReader
    BY <1>5, RingAssumption, SMT DEF ResetReadFlag, WriterInv, Readers
  <2>2. read' \in [Chunks -> [Readers -> {0, 1}]]
    BY <1>5, <2>1 DEF ResetReadFlag
  <2>. QED
    BY <1>5, <2>1, <2>2 DEF ResetReadFlag, rvars
<1>6. CASE MarkWritten
    BY <1>6, AdvanceType, SMT DEF MarkWritten, rvars
<1>7. CASE SendOverflow
    BY <1>7, SMT DEF SendOverflow, mem, rvars
<1>8. CASE Notify
    BY <1>8 DEF Notify, mem, rvars
<1>9. CASE WriterDies
    BY <1>9 DEF WriterDies, mem, rvars
<1>10. ASSUME NEW r \in Readers, CheckReadFlag(r) PROVE TypeOK'
    BY <1>10 DEF CheckReadFlag, Goto, mem, wvars
<1>11. ASSUME NEW r \in Readers, CheckWrittenFlag(r) PROVE TypeOK'
    BY <1>11 DEF CheckWrittenFlag, Goto, mem, wvars
<1>12. ASSUME NEW r \in Readers, Spin(r) PROVE TypeOK'
    BY <1>12 DEF Spin, Goto, Resume, mem, wvars
<1>13. ASSUME NEW r \in Readers, GoIdle(r) PROVE TypeOK'
    BY <1>13 DEF GoIdle, Goto, mem, wvars
<1>14. ASSUME NEW r \in Readers, WakeCancelled(r) PROVE TypeOK'
    BY <1>14 DEF WakeCancelled, Goto, Resume, mem, wvars
<1>15. ASSUME NEW r \in Readers, WakeNotified(r) PROVE TypeOK'
    BY <1>15 DEF WakeNotified, Goto, Resume, mem, wvars
<1>16. ASSUME NEW r \in Readers, WakeTimeout(r) PROVE TypeOK'
    BY <1>16 DEF WakeTimeout, Goto, Resume, mem, wvars
<1>17. ASSUME NEW r \in Readers, ReadChunk(r) PROVE TypeOK'
    BY <1>17 DEF ReadChunk, Goto, mem, wvars
<1>18. ASSUME NEW r \in Readers, MarkRead(r) PROVE TypeOK'
  <2>1. /\ UNCHANGED <<written, data, sock, ping, wvars, buf, shutting_down, late>>
        /\ rpc' = [rpc EXCEPT ![r] = IF buf[r].overflow THEN "recv" ELSE "check"]
        /\ read' = [read EXCEPT ![ridx[r]][r] = 1]
        /\ ridx' = [ridx EXCEPT ![r] = Advance(@)]
        /\ taken' = [taken EXCEPT ![r] = @ + 1]
        /\ out' = IF buf[r].overflow THEN out ELSE [out EXCEPT ![r] = buf[r].obj]
    BY <1>18 DEF MarkRead, Goto
  <2>2. read' \in [Chunks -> [Readers -> {0, 1}]]
    BY <2>1
  <2>3. ridx' \in [Readers -> Chunks] /\ taken' \in [Readers -> Nat]
    BY <2>1, AdvanceType, SMT
  <2>4. out' \in [Readers -> Int]
    BY <2>1
  <2>5. rpc' \in [Readers -> {"check", "check_written", "wait", "poll", "read",
                              "mark", "recv", "stopped"}]
    BY <2>1
  <2>6. UNCHANGED <<written, data, sock, ping, wpc, widx, overflow, reset, sent, big,
                    buf, shutting_down, late>>
    BY <2>1 DEF wvars
  <2>. QED
    BY <2>2, <2>3, <2>4, <2>5, <2>6
<1>19. ASSUME NEW r \in Readers, RecvOverflow(r) PROVE TypeOK'
  <2>1. /\ UNCHANGED <<mem, ping, wvars, ridx, buf, taken, shutting_down, late>>
        /\ rpc' = [rpc EXCEPT ![r] = "check"]
        /\ sock[r] # <<>>
        /\ out' = [out EXCEPT ![r] = Head(sock[r])]
        /\ sock' = [sock EXCEPT ![r] = Tail(@)]
    BY <1>19 DEF RecvOverflow, Goto
  <2>2. Head(sock[r]) \in Nat /\ Tail(sock[r]) \in Seq(Nat)
    BY <2>1, SMT
  <2>3. out' \in [Readers -> Int] /\ sock' \in [Readers -> Seq(Nat)]
    BY <2>1, <2>2, SMT
  <2>4. rpc' \in [Readers -> {"check", "check_written", "wait", "poll", "read",
                              "mark", "recv", "stopped"}]
    BY <2>1
  <2>5. UNCHANGED <<written, read, data, ping, wpc, widx, overflow, reset, sent, big,
                    ridx, buf, taken, shutting_down, late>>
    BY <2>1 DEF mem, wvars
  <2>. QED
    BY <2>3, <2>4, <2>5
<1>20. ASSUME NEW r \in Readers, RecvTimeout(r) PROVE TypeOK'
    BY <1>20 DEF RecvTimeout, Goto, mem, wvars
<1>21. ASSUME NEW r \in Readers, Shutdown(r) PROVE TypeOK'
    BY <1>21 DEF Shutdown, mem, wvars
<1>22. CASE UNCHANGED vars
    BY <1>22 DEF vars
<1>. QED
    BY <1>1, <1>2, <1>3, <1>4, <1>5, <1>6, <1>7, <1>8, <1>9, <1>10, <1>11, <1>12, <1>13, <1>14, <1>15, <1>16, <1>17, <1>18, <1>19, <1>20, <1>21, <1>22 DEF Next, WriterStep, ReaderStep

-----------------------------------------------------------------------------
(* Frames.                                                                 *)

\* A step in which r does not receive and nothing is sent leaves r's socket alone.
LEMMA ReaderSocketFrame ==
    ASSUME NEW r, Received(r), Pending(r), Ordered(r), Complete(r),
           sock'[r] = sock[r], out'[r] = out[r], Low(r)' = Low(r), High' = High,
           UNCHANGED <<big, sent>>, wpc = "dead" => wpc' = "dead"
    PROVE  Received(r)' /\ Pending(r)' /\ Ordered(r)' /\ Complete(r)'
<1>1. Received(r)' /\ Ordered(r)'
    BY DEF Received, Ordered
<1>2. Pending(r)'
    BY DEF Pending
<1>3. Complete(r)'
    BY DEF Complete
<1>. QED
    BY <1>1, <1>2, <1>3

\* A step that neither sends, takes nor receives leaves the sockets alone.
LEMMA SocketFrame ==
    ASSUME SocketInv, UNCHANGED <<sock, big, sent, out, taken, late>>, High' = High,
           \A r \in Readers : Low(r)' = Low(r),
           wpc = "dead" => wpc' = "dead"
    PROVE  SocketInv'
BY ReaderSocketFrame DEF SocketInv

-----------------------------------------------------------------------------
(* The steps of the writer keep the invariant.                             *)

\* Calls, notifications, a timeout and the writer's death move no object.
LEMMA QuietWriter ==
    ASSUME Inv, (\E o \in BOOLEAN : Enqueue(o)) \/ EnqueueTimeout \/ Notify \/ WriterDies
    PROVE  Rest'
<1>. USE DEF Inv
<1>1. /\ UNCHANGED <<written, read, data, sock, widx, sent, big, rpc, ridx, buf,
                     taken, out, shutting_down, late>>
      /\ wpc' \in {"acquire", "out", "dead"}
      /\ wpc # "dead" /\ (wpc = "send" => wpc' = "dead")
    BY DEF Enqueue, EnqueueTimeout, Notify, WriterDies, mem, rvars
<1>2. PositionInv' /\ PatienceInv'
    BY <1>1 DEF PositionInv, Behind, PatienceInv
<1>3. ChunkInv' /\ WriterInv' /\ ReaderInv'
    BY <1>1 DEF ChunkInv, Num, Holds, WriterInv, ReaderInv
<1>4. SocketInv'
  <2>1. /\ High' = sent /\ High <= sent /\ High \in Int
        /\ \A r \in Readers : Low(r)' = Low(r) /\ Low(r) \in Int
    BY <1>1, SMT DEF High, Low, TypeOK
  <2>2. big \subseteq Nat /\ sent \in Nat /\ sock \in [Readers -> Seq(Nat)]
    BY DEF TypeOK
  <2>3. ASSUME NEW r \in Readers, ~late[r]
        PROVE  Pending(r)' /\ Ordered(r)'
    <3>1. Ordered(r)'
        BY <1>1, <2>3 DEF SocketInv, Ordered
    <3>2. sock'[r] = sock[r] /\ big' = big /\ Pending(r)
        BY <1>1, <2>3 DEF SocketInv
    <3>3. ASSUME NEW i \in 1 .. Len(sock[r])
          PROVE  sock[r][i] \in big /\ Low(r) < sock[r][i] /\ sock[r][i] <= sent - (Len(sock[r]) - i)
        BY <2>1, <2>2, <3>2, SMT DEF Pending
    <3>. QED
        BY <2>1, <3>1, <3>2, <3>3 DEF Pending
  <2>4. ASSUME NEW r \in Readers, ~late[r]
        PROVE  Complete(r)'
    <3>. SUFFICES ASSUME NEW m \in big, Low(r) < m, m <= sent, wpc' = "dead" => m < sent
                  PROVE  \E i \in 1 .. Len(sock[r]) : sock[r][i] = m
        BY <1>1, <2>1 DEF Complete
    <3>1. m <= High /\ (wpc = "dead" => m < sent)
        BY <1>1, <2>2, SMT DEF High
    <3>. QED
        BY <2>4, <3>1 DEF SocketInv, Complete
  <2>5. ASSUME NEW r \in Readers, ~late[r]
        PROVE  Received(r)'
    BY <1>1, <2>1, <2>2, <2>5, SMT DEF SocketInv, Received
  <2>. QED
    BY <1>1, <2>3, <2>4, <2>5 DEF SocketInv
<1>. QED
    BY <1>2, <1>3, <1>4 DEF Rest

\* acquire_write finds a chunk that all readers have read or nobody has written,
\* and takes its mark away: no reader is in it or will enter it.
LEMMA AcquireWriteInv ==
    ASSUME Inv, AcquireWrite
    PROVE  Rest'
<1>. USE DEF Inv
<1>1. /\ UNCHANGED <<read, sock, widx, sent, big, rpc, ridx, buf, taken, out, late>>
      /\ wpc = "acquire" /\ wpc' = "write" /\ Writable(widx)
      /\ written' = [written EXCEPT ![widx] = 0]
      /\ data' = [data EXCEPT ![widx] = Torn]
    BY DEF AcquireWrite, rvars
<1>2. PositionInv' /\ PatienceInv'
    BY <1>1 DEF PositionInv, Behind, PatienceInv
<1>3. widx \in Chunks /\ \A s \in Chunks : Num(s)' = Num(s)
    BY <1>1 DEF TypeOK, Num
<1>4. \A s \in Chunks \ {widx} : written'[s] = written[s] /\ data'[s] = data[s]
    BY <1>1 DEF TypeOK
<1>5. written'[widx] = 0
    BY <1>1, <1>3 DEF TypeOK
<1>6. written[widx] \in {0, 1}
    BY <1>3 DEF TypeOK
<1>7. \A r \in Readers : Num(widx) <= taken[r]
    BY <1>1, <1>3, <1>6 DEF Writable, ChunkInv
<1>8. ChunkInv'
  <2>. SUFFICES ASSUME NEW s \in Chunks
                PROVE  ChunkInv!(s)'
    BY DEF ChunkInv
  <2>1. CASE s = widx
    BY <1>1, <1>3, <1>5, <1>7, <2>1, SMT
  <2>2. CASE s # widx
    BY <1>1, <1>3, <1>4, <2>2, SMT DEF ChunkInv, Holds
  <2>. QED
    BY <2>1, <2>2
<1>9. WriterInv'
    BY <1>1, <1>5 DEF WriterInv
<1>10. ReaderInv'
  <2>1. ASSUME NEW r \in Readers, rpc[r] \in {"read", "mark"}
        PROVE  ridx[r] # widx
    <3>1. taken[r] < sent /\ taken[r] \in Nat
        BY <2>1 DEF ReaderInv, TypeOK
    <3>2. Num(ridx[r]) = taken[r] + 1
        BY <3>1, NumOfReader
    <3>. QED
        BY <1>7, <3>1, <3>2, SMT
  <2>2. \A r \in Readers : ridx[r] \in Chunks
    BY DEF TypeOK
  <2>. QED
    BY <1>1, <1>4, <2>1, <2>2 DEF ReaderInv, Holds
<1>11. SocketInv'
  <2>1. High' = High /\ \A r \in Readers : Low(r)' = Low(r)
    BY <1>1 DEF High, Low
  <2>. QED
    BY <1>1, <2>1, SocketFrame
<1>. QED
    BY <1>2, <1>8, <1>9, <1>10, <1>11 DEF Rest

\* The object is written while the chunk is unmarked: no reader sees it yet.
LEMMA WriteChunkInv ==
    ASSUME Inv, WriteChunk
    PROVE  Rest'
<1>. USE DEF Inv
<1>1. /\ UNCHANGED <<written, read, sock, widx, overflow, sent, big, rpc, ridx, buf, taken, out, late>>
      /\ wpc = "write" /\ wpc' = "reset" /\ reset' = 0
      /\ data' = [data EXCEPT ![widx] = [overflow |-> overflow, obj |-> sent + 1]]
    BY DEF WriteChunk, rvars
<1>2. PositionInv' /\ PatienceInv' /\ ReaderInv'
    BY <1>1 DEF PositionInv, Behind, PatienceInv, ReaderInv, Holds
<1>3. widx \in Chunks /\ written[widx] = 0 /\ \A s \in Chunks : Num(s)' = Num(s)
    BY <1>1 DEF TypeOK, Num, WriterInv
<1>4. \A s \in Chunks \ {widx} : data'[s] = data[s]
    BY <1>1 DEF TypeOK
<1>5. ChunkInv'
    BY <1>1, <1>3, <1>4, SMT DEF ChunkInv, Holds
<1>6. data'[widx].obj = sent + 1 /\ (data'[widx].overflow <=> overflow)
    BY <1>1, <1>3 DEF TypeOK
<1>7. 0 \in Readers /\ \A r \in Readers : ~(r < 0)
    BY RingAssumption, SMT DEF Readers
<1>8. WriterInv'
    BY <1>1, <1>3, <1>6, <1>7 DEF WriterInv
<1>9. High' = High /\ \A r \in Readers : Low(r)' = Low(r)
    BY <1>1 DEF High, Low
<1>10. SocketInv'
    BY <1>1, <1>9, SocketFrame
<1>. QED
    BY <1>2, <1>5, <1>8, <1>10 DEF Rest

\* The read flags go down one by one while the chunk is unmarked.
LEMMA ResetReadFlagInv ==
    ASSUME Inv, ResetReadFlag
    PROVE  Rest'
<1>. USE DEF Inv
<1>1. /\ UNCHANGED <<written, data, sock, widx, overflow, sent, big, rpc, ridx, buf, taken, out, late>>
      /\ wpc = "reset" /\ reset' = reset + 1
      /\ wpc' = IF reset + 1 = NReader THEN "mark" ELSE "reset"
      /\ read' = [read EXCEPT ![widx][reset] = 0]
    BY DEF ResetReadFlag, rvars
<1>2. PositionInv' /\ PatienceInv'
    BY <1>1 DEF PositionInv, Behind, PatienceInv
<1>3. /\ widx \in Chunks /\ written[widx] = 0 /\ reset \in Readers
      /\ \A s \in Chunks : Num(s)' = Num(s)
    BY <1>1 DEF TypeOK, Num, WriterInv
<1>4. \A s \in Chunks \ {widx} : read'[s] = read[s]
    BY <1>1 DEF TypeOK
<1>5. \A r \in Readers : read'[widx][r] = IF r = reset THEN 0 ELSE read[widx][r]
    BY <1>1, <1>3 DEF TypeOK
<1>6. ChunkInv'
    BY <1>1, <1>3, <1>4, SMT DEF ChunkInv, Holds
<1>7. WriterInv'
  <2>1. \A r \in Readers : r < reset + 1 => read'[widx][r] = 0
    BY <1>1, <1>3, <1>5, SMT DEF WriterInv, Readers
  <2>2. reset + 1 # NReader => reset + 1 \in Readers
    BY <1>3, RingAssumption, SMT DEF Readers
  <2>3. reset + 1 = NReader => \A r \in Readers : r < reset + 1
    BY <1>3, RingAssumption, SMT DEF Readers
  <2>. QED
    BY <1>1, <1>3, <2>1, <2>2, <2>3 DEF WriterInv
<1>8. ReaderInv'
  <2>1. \A r \in Readers : ridx[r] \in Chunks
    BY DEF TypeOK
  <2>. QED
    BY <1>1, <1>4, <1>5, <2>1, SMT DEF ReaderInv, Holds
<1>9. High' = High /\ \A r \in Readers : Low(r)' = Low(r)
    BY <1>1 DEF High, Low
<1>10. SocketInv'
    BY <1>1, <1>9, SocketFrame
<1>. QED
    BY <1>2, <1>6, <1>7, <1>8, <1>10 DEF Rest

\* The mark makes the new object the next one of every reader, and its mark in
\* the chunk announces a payload exactly when one follows.
LEMMA MarkWrittenInv ==
    ASSUME Inv, MarkWritten
    PROVE  Rest'
<1>. USE DEF Inv
<1>1. /\ UNCHANGED <<read, data, sock, overflow, rpc, ridx, buf, taken, out, late>>
      /\ wpc = "mark" /\ wpc' = IF overflow THEN "send" ELSE "notify"
      /\ written' = [written EXCEPT ![widx] = 1]
      /\ widx' = Advance(widx) /\ sent' = sent + 1
      /\ big' = IF overflow THEN big \cup {sent + 1} ELSE big
    BY DEF MarkWritten, rvars
<1>2. /\ widx \in Chunks /\ sent \in Nat /\ taken \in [Readers -> Nat]
      /\ big \subseteq 1 .. sent
      /\ written[widx] = 0
      /\ data[widx].obj = sent + 1 /\ (data[widx].overflow <=> overflow)
      /\ \A r \in Readers : read[widx][r] = 0
  <2>1. widx \in Chunks /\ sent \in Nat /\ taken \in [Readers -> Nat] /\ big \subseteq 1 .. sent
    BY DEF TypeOK, PositionInv
  <2>2. wpc = "mark" /\ wpc \in {"reset", "mark"} /\ wpc \in {"write", "reset", "mark"}
    BY <1>1
  <2>3. written[widx] = 0 /\ \A r \in Readers : read[widx][r] = 0
    BY <2>2 DEF WriterInv
  <2>4. data[widx].obj = sent + 1 /\ (data[widx].overflow <=> overflow)
    BY <2>2 DEF WriterInv
  <2>. QED
    BY <2>1, <2>3, <2>4
<1>3. \A s \in Chunks : Num(s)' = IF s = widx THEN sent + 1 ELSE Num(s)
    BY <1>1, NumAdvances
<1>4. \A r \in Readers : taken[r] <= sent /\ sent + 1 - taken[r] <= MaxChunks
  <2>1. \A r \in Readers : Num(widx) <= taken[r]
    BY <1>2 DEF ChunkInv
  <2>2. Num(widx) = sent + 1 - MaxChunks
    BY NumOfWriter
  <2>. QED
    BY <1>2, <2>1, <2>2, RingAssumption, SMT DEF PositionInv
<1>5. \A r \in Readers : Behind(r)' = Behind(r)
    BY <1>1, <1>2, <1>4, RingAssumption, SMT DEF Behind, Advance, Chunks
<1>6. big' \subseteq 1 .. sent + 1 /\ \A n \in Int : n <= sent => (n \in big' <=> n \in big)
  <2>1. CASE overflow
    BY <1>1, <1>2, <2>1, SMT
  <2>2. CASE ~overflow
    BY <1>1, <1>2, <2>2, SMT
  <2>. QED
    BY <2>1, <2>2
<1>7. PositionInv' /\ PatienceInv'
    BY <1>1, <1>2, <1>4, <1>5, <1>6, SMT DEF PositionInv, PatienceInv
<1>8. (sent + 1 \in big') <=> overflow
  <2>1. sent + 1 \notin big
    BY <1>2, SMT
  <2>. QED
    BY <1>1, <2>1
<1>10. \A s \in Chunks \ {widx} : Num(s) \in Int /\ Num(s) <= sent
    BY <1>2, RingAssumption, SMT DEF Num, Chunks
<1>11. written'[widx] = 1 /\ \A s \in Chunks \ {widx} : written'[s] = written[s]
    BY <1>1, <1>2 DEF TypeOK
<1>12. ChunkInv'
  <2>. SUFFICES ASSUME NEW s \in Chunks
                PROVE  ChunkInv!(s)'
    BY DEF ChunkInv
  <2>1. CASE s = widx
    <3>1. \A r \in Readers : ~(sent + 1 <= taken[r])
        BY <1>2, <1>4, SMT
    <3>2. Num(s)' = sent + 1
        BY <1>3, <2>1
    <3>. QED
        BY <1>1, <1>2, <1>8, <1>11, <2>1, <3>1, <3>2, SMT DEF Holds
  <2>2. CASE s # widx
    <3>1. Num(s)' = Num(s) /\ Num(s) \in Int /\ Num(s) <= sent
        BY <1>3, <1>10, <2>2
    <3>2. (Num(s)' \in big') <=> (Num(s) \in big)
        BY <1>6, <3>1
    <3>. QED
        BY <1>1, <1>11, <2>2, <3>1, <3>2 DEF ChunkInv, Holds
  <2>. QED
    BY <2>1, <2>2
<1>13. WriterInv'
    BY <1>1 DEF WriterInv
<1>14. ReaderInv'
  <2>. SUFFICES ASSUME NEW r \in Readers
                PROVE  ReaderInv!(r)'
    BY DEF ReaderInv
  <2>1. ridx[r] \in Chunks /\ taken[r] \in Nat /\ ReaderInv!(r)
    BY DEF TypeOK, ReaderInv
  <2>2. rpc[r] \in {"read", "mark"} => taken[r] < sent' /\ written'[ridx[r]] = 1
    BY <1>1, <1>2, <1>11, <2>1, SMT
  <2>3. rpc[r] = "mark" => Holds(buf[r], taken[r] + 1)'
    <3>. SUFFICES ASSUME rpc[r] = "mark" PROVE Holds(buf[r], taken[r] + 1)'
        OBVIOUS
    <3>1. taken[r] + 1 \in Int /\ taken[r] + 1 <= sent
        BY <1>2, <2>1, SMT
    <3>. QED
        BY <1>1, <1>6, <2>1, <3>1 DEF Holds
  <2>. QED
    BY <1>1, <2>1, <2>2, <2>3
<1>15. SocketInv'
  <2>1. High = sent /\ High' = IF overflow THEN sent ELSE sent + 1
    BY <1>1, <1>2, SMT DEF High
  <2>2. \A r \in Readers : Low(r)' = Low(r) /\ Low(r) \in Int
    BY <1>1, <1>2, SMT DEF Low
  <2>3. sock \in [Readers -> Seq(Nat)]
    BY DEF TypeOK
  <2>. SUFFICES ASSUME NEW r \in Readers, ~late[r]
                PROVE  Received(r)' /\ Pending(r)' /\ Ordered(r)' /\ Complete(r)'
    BY <1>1 DEF SocketInv
  <2>4. Received(r) /\ Pending(r) /\ Ordered(r) /\ Complete(r)
    BY DEF SocketInv
  <2>5. Received(r)' /\ Ordered(r)'
    <3>1. Ordered(r)'
        BY <1>1, <2>4 DEF Ordered
    <3>2. High <= High' /\ High \in Int /\ High' \in Int
        BY <1>2, <2>1, SMT
    <3>. QED
        BY <1>1, <2>2, <2>4, <3>1, <3>2, SMT DEF Received
  <2>6. Pending(r)'
    <3>1. ASSUME NEW i \in 1 .. Len(sock[r])
          PROVE  /\ sock[r][i] \in big'
                 /\ Low(r) < sock[r][i]
                 /\ sock[r][i] <= High' - (Len(sock[r]) - i)
        BY <1>1, <1>2, <2>1, <2>2, <2>3, <2>4, SMT DEF Pending
    <3>. QED
        BY <1>1, <2>2, <3>1 DEF Pending
  <2>7. Complete(r)'
    <3>. SUFFICES ASSUME NEW m \in big', Low(r) < m, m <= High'
                  PROVE  \E i \in 1 .. Len(sock[r]) : sock[r][i] = m
        BY <1>1, <2>2 DEF Complete
    <3>1. m \in big /\ m <= High
      <4>1. m \in 1 .. sent + 1
        BY <1>6
      <4>2. CASE overflow
        BY <1>2, <1>6, <2>1, <4>1, <4>2, SMT
      <4>3. CASE ~overflow
        BY <1>1, <1>2, <2>1, <4>3, SMT
      <4>. QED
        BY <4>2, <4>3
    <3>. QED
        BY <1>1, <2>4, <3>1 DEF Complete
  <2>. QED
    BY <2>5, <2>6, <2>7
<1>. QED
    BY <1>7, <1>12, <1>13, <1>14, <1>15 DEF Rest

\* The ring has held the writer back: the socket has room for the object.
LEMMA SendOverflowInv ==
    ASSUME Inv, SendOverflow
    PROVE  Rest'
<1>. USE DEF Inv
<1>1. /\ UNCHANGED <<written, read, data, widx, overflow, sent, big, rpc, ridx, buf, taken, out, late>>
      /\ wpc = "send" /\ wpc' = "notify"
      /\ \A r \in Readers : sock'[r] = IF Len(sock[r]) < Hwm THEN Append(sock[r], sent) ELSE sock[r]
    BY DEF SendOverflow, mem, rvars
<1>2. PositionInv' /\ ChunkInv' /\ WriterInv' /\ ReaderInv' /\ PatienceInv'
    BY <1>1 DEF PositionInv, Behind, ChunkInv, Num, Holds, WriterInv, ReaderInv, PatienceInv
<1>3. SocketInv'
  <2>1. sent \in Nat /\ sent \in big /\ taken \in [Readers -> Nat] /\ sock \in [Readers -> Seq(Nat)]
    BY <1>1 DEF TypeOK, WriterInv
  <2>2. High = sent - 1 /\ High' = sent
    BY <1>1 DEF High
  <2>3. \A r \in Readers : Low(r)' = Low(r) /\ Low(r) \in Int /\ Low(r) >= taken[r] - 1
    BY <1>1, <2>1, SMT DEF Low
  <2>. SUFFICES ASSUME NEW r \in Readers, ~late[r]
                PROVE  Received(r)' /\ Pending(r)' /\ Ordered(r)' /\ Complete(r)'
    BY <1>1 DEF SocketInv
  <2>4. Received(r) /\ Pending(r) /\ Ordered(r) /\ Complete(r)
    BY DEF SocketInv
  <2>5. Len(sock[r]) < Hwm
    <3>1. CASE sock[r] = <<>>
        BY <3>1, RingAssumption, SMT
    <3>2. CASE sock[r] # <<>>
      <4>1. 1 \in 1 .. Len(sock[r])
        BY <2>1, <3>2, SMT
      <4>2. Low(r) < sock[r][1] /\ sock[r][1] <= High - (Len(sock[r]) - 1)
        BY <2>4, <4>1 DEF Pending
      <4>3. taken[r] \in Nat /\ sent - taken[r] <= MaxChunks
        BY <2>1 DEF PositionInv
      <4>. QED
        BY <2>1, <2>2, <2>3, <4>1, <4>2, <4>3, RingAssumption, SMT
    <3>. QED
        BY <3>1, <3>2
  <2>6. /\ sock'[r] = Append(sock[r], sent)
        /\ Len(sock'[r]) = Len(sock[r]) + 1
        /\ sock'[r][Len(sock[r]) + 1] = sent
        /\ \A i \in 1 .. Len(sock[r]) : sock'[r][i] = sock[r][i]
    <3>1. sock'[r] = Append(sock[r], sent) /\ sock[r] \in Seq(Nat)
        BY <1>1, <2>1, <2>5
    <3>. QED
        BY <2>1, <3>1, SMT
  <2>7. Received(r)'
    BY <1>1, <2>1, <2>2, <2>3, <2>4, SMT DEF Received
  <2>8. \A i \in 1 .. Len(sock[r]) : sock[r][i] < sent
    BY <2>1, <2>2, <2>4, SMT DEF Pending
  <2>9. Pending(r)'
    <3>. SUFFICES ASSUME NEW i \in 1 .. Len(sock'[r])
                  PROVE  /\ sock'[r][i] \in big
                         /\ Low(r) < sock'[r][i]
                         /\ sock'[r][i] <= sent - (Len(sock'[r]) - i)
        BY <1>1, <2>2, <2>3 DEF Pending
    <3>1. CASE i = Len(sock[r]) + 1
      <4>1. Len(sock'[r]) - i = 0 /\ sock'[r][i] = sent
        BY <2>1, <2>6, <3>1, SMT
      <4>2. Low(r) < sent
        BY <2>1, <2>2, <2>3, <2>4, SMT DEF Received
      <4>. QED
        BY <2>1, <4>1, <4>2, SMT
    <3>2. CASE i \in 1 .. Len(sock[r])
        BY <2>1, <2>2, <2>3, <2>4, <2>6, <3>2, SMT DEF Pending
    <3>3. i = Len(sock[r]) + 1 \/ i \in 1 .. Len(sock[r])
        BY <2>1, <2>6, SMT
    <3>. QED
        BY <3>1, <3>2, <3>3
  <2>10. Ordered(r)'
    <3>. SUFFICES ASSUME NEW i \in 1 .. Len(sock'[r]), NEW j \in 1 .. Len(sock'[r]), i < j
                  PROVE  sock'[r][i] < sock'[r][j]
        BY DEF Ordered
    <3>1. i \in 1 .. Len(sock[r])
        BY <2>1, <2>6, SMT
    <3>2. CASE j = Len(sock[r]) + 1
        BY <2>6, <2>8, <3>1, <3>2
    <3>3. CASE j \in 1 .. Len(sock[r])
        BY <2>4, <2>6, <3>1, <3>3 DEF Ordered
    <3>. QED
        BY <2>1, <2>6, <3>2, <3>3, SMT
  <2>11. Complete(r)'
    <3>. SUFFICES ASSUME NEW m \in big, Low(r) < m, m <= sent
                  PROVE  \E i \in 1 .. Len(sock'[r]) : sock'[r][i] = m
        BY <1>1, <2>2, <2>3 DEF Complete
    <3>1. CASE m = sent
      <4>1. Len(sock[r]) + 1 \in 1 .. Len(sock'[r])
        BY <2>1, <2>6, SMT
      <4>. QED
        BY <2>6, <3>1, <4>1
    <3>2. CASE m # sent
      <4>1. m <= High
        BY <2>1, <2>2, <3>2, SMT DEF TypeOK
      <4>2. PICK i \in 1 .. Len(sock[r]) : sock[r][i] = m
        BY <1>1, <2>4, <4>1 DEF Complete
      <4>3. i \in 1 .. Len(sock'[r])
        BY <2>1, <2>6, SMT
      <4>. QED
        BY <2>6, <4>2, <4>3
    <3>. QED
        BY <3>1, <3>2
  <2>. QED
    BY <2>7, <2>9, <2>10, <2>11
<1>. QED
    BY <1>2, <1>3 DEF Rest

-----------------------------------------------------------------------------
(* The steps of a reader keep the invariant.                               *)

\* Waiting, waking up and being told to shut down move no object.
LEMMA QuietReader ==
    ASSUME Inv, NEW r \in Readers,
           \/ Spin(r) \/ GoIdle(r) \/ WakeCancelled(r) \/ WakeNotified(r)
           \/ WakeTimeout(r) \/ Shutdown(r)
    PROVE  Rest'
<1>. USE DEF Inv
<1>1. /\ UNCHANGED <<written, read, data, sock, wpc, widx, overflow, reset, sent, big,
                     ridx, buf, taken, out, late>>
      /\ \/ rpc' = rpc
         \/ /\ rpc[r] \in {"wait", "poll"}
            /\ \E pc \in {"check", "poll", "stopped"} : rpc' = [rpc EXCEPT ![r] = pc]
    BY DEF Spin, GoIdle, WakeCancelled, WakeNotified, WakeTimeout, Shutdown, Resume, Goto, mem, wvars
<1>2. PositionInv' /\ ChunkInv' /\ WriterInv' /\ PatienceInv'
    BY <1>1 DEF PositionInv, Behind, ChunkInv, Num, Holds, WriterInv, PatienceInv
<1>3. \A q \in Readers : \/ rpc'[q] = rpc[q]
                         \/ /\ rpc[q] \in {"wait", "poll"}
                            /\ rpc'[q] \in {"check", "poll", "stopped"}
    BY <1>1 DEF TypeOK
<1>4. ReaderInv'
    BY <1>1, <1>3 DEF ReaderInv, Holds
<1>5. High' = High /\ \A q \in Readers : Low(q)' = Low(q)
    BY <1>1, <1>3 DEF High, Low
<1>6. SocketInv'
    BY <1>1, <1>5, SocketFrame
<1>. QED
    BY <1>2, <1>4, <1>6 DEF Rest

\* A raised read flag is the reader's own, so it stays down once seen down.
LEMMA CheckReadFlagInv ==
    ASSUME Inv, NEW r \in Readers, CheckReadFlag(r)
    PROVE  Rest'
<1>. USE DEF Inv
<1>1. /\ UNCHANGED <<written, read, data, sock, wpc, widx, overflow, reset, sent, big,
                     ridx, buf, taken, out, late>>
      /\ rpc[r] = "check"
      /\ rpc' = [rpc EXCEPT ![r] = IF read[ridx[r]][r] = 1 THEN "wait" ELSE "check_written"]
    BY DEF CheckReadFlag, Goto, mem, wvars
<1>2. PositionInv' /\ ChunkInv' /\ WriterInv' /\ PatienceInv'
    BY <1>1 DEF PositionInv, Behind, ChunkInv, Num, Holds, WriterInv, PatienceInv
<1>3. /\ \A q \in Readers \ {r} : rpc'[q] = rpc[q]
      /\ rpc'[r] = IF read[ridx[r]][r] = 1 THEN "wait" ELSE "check_written"
      /\ read[ridx[r]][r] \in {0, 1}
    BY <1>1, SMT DEF TypeOK
<1>4. ReaderInv'
  <2>1. ASSUME NEW q \in Readers, q # r
        PROVE  ReaderInv!(q)'
    BY <1>1, <1>3, <2>1 DEF ReaderInv, Holds
  <2>2. ReaderInv!(r)'
    BY <1>1, <1>3, SMT
  <2>. QED
    BY <2>1, <2>2 DEF ReaderInv
<1>5. High' = High /\ \A q \in Readers : Low(q)' = Low(q)
    BY <1>1, <1>3, SMT DEF High, Low
<1>6. SocketInv'
    BY <1>1, <1>5, SocketFrame
<1>. QED
    BY <1>2, <1>4, <1>6 DEF Rest

\* A chunk that is written and that r has not read holds r's next object.
LEMMA CheckWrittenFlagInv ==
    ASSUME Inv, NEW r \in Readers, CheckWrittenFlag(r)
    PROVE  Rest'
<1>. USE DEF Inv
<1>1. /\ UNCHANGED <<written, read, data, sock, wpc, widx, overflow, reset, sent, big,
                     ridx, buf, taken, out, late>>
      /\ rpc[r] = "check_written"
      /\ rpc' = [rpc EXCEPT ![r] = IF written[ridx[r]] = 1 THEN "read" ELSE "wait"]
    BY DEF CheckWrittenFlag, Goto, mem, wvars
<1>2. PositionInv' /\ ChunkInv' /\ WriterInv' /\ PatienceInv'
    BY <1>1 DEF PositionInv, Behind, ChunkInv, Num, Holds, WriterInv, PatienceInv
<1>3. /\ \A q \in Readers \ {r} : rpc'[q] = rpc[q]
      /\ rpc'[r] = IF written[ridx[r]] = 1 THEN "read" ELSE "wait"
    BY <1>1 DEF TypeOK
<1>4. written[ridx[r]] = 1 => taken[r] < sent
  <2>. SUFFICES ASSUME written[ridx[r]] = 1, ~(taken[r] < sent) PROVE FALSE
    OBVIOUS
  <2>1. taken[r] \in Nat /\ sent \in Nat /\ ridx[r] \in Chunks
    BY DEF TypeOK
  <2>2. taken[r] = sent
    BY <2>1, SMT DEF PositionInv
  <2>3. Num(ridx[r]) = sent + 1 - MaxChunks
    BY <2>2, ReaderAtWriter, NumOfWriter
  <2>4. read[ridx[r]][r] = 0
    BY <1>1 DEF ReaderInv
  <2>5. ~(Num(ridx[r]) <= taken[r])
    <3>1. (read[ridx[r]][r] = 1) <=> (Num(ridx[r]) <= taken[r])
        BY <2>1 DEF ChunkInv
    <3>. QED
        BY <2>4, <3>1, SMT
  <2>. QED
    BY <2>1, <2>2, <2>3, <2>5, RingAssumption, SMT
<1>5. ReaderInv'
  <2>1. ASSUME NEW q \in Readers, q # r
        PROVE  ReaderInv!(q)'
    BY <1>1, <1>3, <2>1 DEF ReaderInv, Holds
  <2>2. ReaderInv!(r)'
    BY <1>1, <1>3, <1>4, SMT
  <2>. QED
    BY <2>1, <2>2 DEF ReaderInv
<1>6. High' = High /\ \A q \in Readers : Low(q)' = Low(q)
    BY <1>1, <1>3, SMT DEF High, Low
<1>7. SocketInv'
    BY <1>1, <1>6, SocketFrame
<1>. QED
    BY <1>2, <1>5, <1>7 DEF Rest

\* A reader copies the chunk while its own read flag keeps the writer out.
LEMMA ReadChunkInv ==
    ASSUME Inv, NEW r \in Readers, ReadChunk(r)
    PROVE  Rest'
<1>. USE DEF Inv
<1>1. /\ UNCHANGED <<written, read, data, sock, wpc, widx, overflow, reset, sent, big,
                     ridx, taken, out, late>>
      /\ rpc[r] = "read"
      /\ rpc' = [rpc EXCEPT ![r] = "mark"]
      /\ buf' = [buf EXCEPT ![r] = data[ridx[r]]]
    BY DEF ReadChunk, Goto, mem, wvars
<1>2. PositionInv' /\ ChunkInv' /\ WriterInv' /\ PatienceInv'
    BY <1>1 DEF PositionInv, Behind, ChunkInv, Num, Holds, WriterInv, PatienceInv
<1>3. /\ \A q \in Readers \ {r} : rpc'[q] = rpc[q] /\ buf'[q] = buf[q]
      /\ rpc'[r] = "mark" /\ buf'[r] = data[ridx[r]]
    BY <1>1 DEF TypeOK
<1>4. taken[r] < sent /\ written[ridx[r]] = 1
    BY <1>1 DEF ReaderInv
<1>5. Holds(data[ridx[r]], taken[r] + 1)
  <2>1. ridx[r] \in Chunks
    BY DEF TypeOK
  <2>2. Num(ridx[r]) = taken[r] + 1
    BY <1>4, NumOfReader
  <2>. QED
    BY <1>4, <2>1, <2>2 DEF ChunkInv
<1>6. ReaderInv'
  <2>1. ASSUME NEW q \in Readers, q # r
        PROVE  ReaderInv!(q)'
    BY <1>1, <1>3, <2>1 DEF ReaderInv, Holds
  <2>2. ReaderInv!(r)'
    BY <1>1, <1>3, <1>4, <1>5 DEF Holds
  <2>. QED
    BY <2>1, <2>2 DEF ReaderInv
<1>7. High' = High /\ \A q \in Readers : Low(q)' = Low(q)
    BY <1>1, <1>3 DEF High, Low
<1>8. SocketInv'
    BY <1>1, <1>7, SocketFrame
<1>. QED
    BY <1>2, <1>6, <1>8 DEF Rest

\* A reader raises its flag and moves on: it has taken one object more.
LEMMA MarkReadInv ==
    ASSUME Inv, NEW r \in Readers, MarkRead(r)
    PROVE  Rest'
<1>. USE DEF Inv
<1>1. /\ UNCHANGED <<written, data, sock, wpc, widx, overflow, reset, sent, big, buf, late>>
      /\ rpc[r] = "mark"
      /\ rpc' = [rpc EXCEPT ![r] = IF buf[r].overflow THEN "recv" ELSE "check"]
      /\ read' = [read EXCEPT ![ridx[r]][r] = 1]
      /\ ridx' = [ridx EXCEPT ![r] = Advance(@)]
      /\ taken' = [taken EXCEPT ![r] = @ + 1]
      /\ out' = IF buf[r].overflow THEN out ELSE [out EXCEPT ![r] = buf[r].obj]
    BY DEF MarkRead, Goto, wvars
<1>2. /\ sent \in Nat /\ widx \in Chunks /\ ridx[r] \in Chunks
      /\ \A q \in Readers : taken[q] \in Nat /\ out[q] \in Int
    BY DEF TypeOK
<1>3. /\ \A q \in Readers \ {r} : /\ rpc'[q] = rpc[q] /\ ridx'[q] = ridx[q]
                                  /\ taken'[q] = taken[q] /\ out'[q] = out[q]
      /\ rpc'[r] = IF buf[r].overflow THEN "recv" ELSE "check"
      /\ ridx'[r] = Advance(ridx[r]) /\ taken'[r] = taken[r] + 1
      /\ out'[r] = IF buf[r].overflow THEN out[r] ELSE buf[r].obj
    BY <1>1 DEF TypeOK
<1>4. /\ \A s \in Chunks, q \in Readers : (s # ridx[r] \/ q # r) => read'[s][q] = read[s][q]
      /\ read'[ridx[r]][r] = 1
    BY <1>1, <1>2 DEF TypeOK
<1>5. /\ taken[r] < sent /\ written[ridx[r]] = 1
      /\ Holds(buf[r], taken[r] + 1)
    BY <1>1 DEF ReaderInv
<1>6. \A s \in Chunks : Num(s)' = Num(s) /\ Num(s) \in Int
    BY <1>1, <1>2, RingAssumption, SMT DEF Num, Chunks
<1>7. Num(ridx[r]) = taken[r] + 1
    BY <1>5, NumOfReader
<1>8. PositionInv' /\ PatienceInv'
  <2>1. sent - taken[r] <= MaxChunks /\ ridx[r] = Behind(r)
    BY DEF PositionInv
  <2>2. Advance(ridx[r]) = Behind(r)'
    <3>1. Behind(r)' = IF sent - (taken[r] + 1) <= widx
                       THEN widx - (sent - (taken[r] + 1))
                       ELSE widx - (sent - (taken[r] + 1)) + MaxChunks
        BY <1>1, <1>3, SMT DEF Behind
    <3>2. /\ taken[r] \in Nat /\ sent \in Nat /\ widx \in 0 .. MaxChunks - 1
          /\ MaxChunks \in Nat \ {0} /\ taken[r] < sent
        BY <1>2, <1>5, RingAssumption DEF Chunks
    <3>3. ridx[r] = IF sent - taken[r] <= widx
                    THEN widx - (sent - taken[r])
                    ELSE widx - (sent - taken[r]) + MaxChunks
        BY <2>1 DEF Behind
    <3>. QED
      <4>. DEFINE d == sent - taken[r]
      <4>1. d \in 1 .. MaxChunks /\ sent - (taken[r] + 1) = d - 1
        BY <2>1, <3>2, SMT
      <4>. HIDE DEF d
      <4>2. ridx[r] = IF d <= widx THEN widx - d ELSE widx - d + MaxChunks
        BY <3>3 DEF d
      <4>3. Behind(r)' = IF d - 1 <= widx THEN widx - (d - 1) ELSE widx - (d - 1) + MaxChunks
        BY <3>1, <4>1
      <4>. QED
        BY <3>2, <4>1, <4>2, <4>3, SMT DEF Advance
  <2>3. \A q \in Readers \ {r} : Behind(q)' = Behind(q)
    BY <1>1, <1>3, SMT DEF Behind
  <2>4. taken'[r] <= sent /\ sent - taken'[r] <= MaxChunks
    <3>1. taken[r] \in Nat /\ sent \in Nat /\ taken[r] < sent /\ MaxChunks \in Nat
        BY <1>2, <1>5, RingAssumption
    <3>2. taken'[r] = taken[r] + 1 /\ sent - taken[r] <= MaxChunks
        BY <1>3, <2>1
    <3>. QED
        BY <3>1, <3>2, SMT
  <2>. QED
    BY <1>1, <1>3, <2>2, <2>3, <2>4 DEF PositionInv, PatienceInv
<1>9. ChunkInv'
  <2>. SUFFICES ASSUME NEW s \in Chunks
                PROVE  ChunkInv!(s)'
    BY DEF ChunkInv
  <2>1. ASSUME NEW q \in Readers, q # r
        PROVE  taken'[q] = taken[q] /\ read'[s][q] = read[s][q]
    BY <1>3, <1>4, <2>1
  <2>2. CASE s = ridx[r]
    <3>1. Num(s) <= taken'[r]
      <4>1. Num(s) = taken[r] + 1 /\ taken'[r] = taken[r] + 1
        BY <1>3, <1>7, <2>2
      <4>2. taken[r] + 1 \in Nat
        BY <1>2, SMT
      <4>. QED
        BY <4>1, <4>2, SMT
    <3>2. written'[s] = 1 /\ data'[s] = data[s] /\ Num(s)' = Num(s) /\ big' = big
        BY <1>1, <1>5, <1>6, <2>2
    <3>3. /\ Holds(data[s], Num(s))
          /\ \A q \in Readers : (read[s][q] = 1) <=> (Num(s) <= taken[q])
        BY <1>5, <2>2 DEF ChunkInv
    <3>4. \A q \in Readers : (read'[s][q] = 1) <=> (Num(s) <= taken'[q])
        BY <1>4, <2>1, <2>2, <3>1, <3>3
    <3>. QED
        BY <3>2, <3>3, <3>4, SMT DEF Holds
  <2>3. CASE s # ridx[r]
    <3>1. Num(s) # taken[r] + 1
        BY <1>2, <1>7, <2>3, NumInjective
    <3>2. (Num(s) <= taken'[r]) <=> (Num(s) <= taken[r])
      <4>1. taken[r] \in Nat /\ Num(s) \in Int
        BY <1>2, <1>6
      <4>2. taken'[r] = taken[r] + 1
        BY <1>3
      <4>. QED
        BY <3>1, <4>1, <4>2, SMT
    <3>3. read'[s][r] = read[s][r]
        BY <1>4, <2>3
    <3>4. ChunkInv!(s)
        BY DEF ChunkInv
    <3>5. written'[s] = written[s] /\ data'[s] = data[s] /\ Num(s)' = Num(s) /\ big' = big
        BY <1>1, <1>6
    <3>6. \A q \in Readers : /\ (Num(s) <= taken'[q]) <=> (Num(s) <= taken[q])
                             /\ read'[s][q] = read[s][q]
        BY <2>1, <3>2, <3>3
    <3>. QED
        BY <3>4, <3>5, <3>6 DEF Holds
  <2>. QED
    BY <2>2, <2>3
<1>10. WriterInv'
  <2>1. wpc \in {"write", "reset", "mark"} => ridx[r] # widx
    <3>1. wpc \in {"write", "reset", "mark"} => written[widx] = 0
        BY DEF WriterInv
    <3>. QED
        BY <1>5, <3>1, SMT
  <2>2. wpc \in {"reset", "mark"} => \A q \in Readers : read'[widx][q] = read[widx][q]
    BY <1>2, <1>4, <2>1
  <2>. QED
    BY <1>1, <2>2 DEF WriterInv
<1>11. ReaderInv'
  <2>1. ASSUME NEW q \in Readers, q # r
        PROVE  ReaderInv!(q)'
    <3>1. ridx[q] \in Chunks
        BY DEF TypeOK
    <3>2. ReaderInv!(q)
        BY DEF ReaderInv
    <3>3. /\ rpc'[q] = rpc[q] /\ ridx'[q] = ridx[q] /\ taken'[q] = taken[q]
          /\ read'[ridx[q]][q] = read[ridx[q]][q]
        BY <1>3, <1>4, <2>1, <3>1
    <3>. QED
        BY <1>1, <3>2, <3>3, SMT DEF Holds
  <2>2. ReaderInv!(r)'
    BY <1>1, <1>3, <1>5, SMT DEF Holds
  <2>. QED
    BY <2>1, <2>2 DEF ReaderInv
<1>12. SocketInv'
  <2>1. High' = High /\ High \in Int
    BY <1>1, <1>2, SMT DEF High
  <2>2. ASSUME NEW q \in Readers, q # r, ~late[q]
        PROVE  Received(q)' /\ Pending(q)' /\ Ordered(q)' /\ Complete(q)'
    <3>1. Low(q)' = Low(q)
        BY <1>3, <2>2 DEF Low
    <3>. QED
        BY <1>1, <1>3, <2>1, <2>2, <3>1, ReaderSocketFrame DEF SocketInv
  <2>3. ASSUME ~late[r]
        PROVE  Received(r)' /\ Pending(r)' /\ Ordered(r)' /\ Complete(r)'
    <3>1. Received(r) /\ Pending(r) /\ Ordered(r) /\ Complete(r) /\ Low(r) = taken[r]
        BY <1>1, <2>3 DEF SocketInv, Low
    <3>2. CASE buf[r].overflow
      <4>1. Low(r)' = Low(r) /\ out'[r] = out[r]
        <5>1. rpc'[r] = "recv" /\ taken'[r] = taken[r] + 1 /\ out'[r] = out[r]
            BY <1>3, <3>2
        <5>2. Low(r)' = (taken[r] + 1) - 1
            BY <5>1 DEF Low
        <5>3. taken[r] \in Nat
            BY <1>2
        <5>4. (taken[r] + 1) - 1 = taken[r]
            BY <5>3, SMT
        <5>. QED
            BY <3>1, <5>1, <5>2, <5>4
      <4>. QED
        BY <1>1, <2>1, <3>1, <4>1, ReaderSocketFrame
    <3>3. CASE ~buf[r].overflow
      <4>1. /\ Low(r)' = taken[r] + 1 /\ out'[r] = taken[r] + 1
            /\ taken[r] + 1 \notin big
        BY <1>3, <1>5, <3>3 DEF Low, Holds
      <4>2. taken[r] + 1 <= High
        <5>1. wpc = "send" => sent # taken[r] + 1
            BY <4>1 DEF WriterInv
        <5>2. taken[r] \in Nat /\ sent \in Nat /\ taken[r] < sent
            BY <1>2, <1>5
        <5>. QED
            BY <5>1, <5>2, SMT DEF High
      <4>3. Received(r)' /\ Ordered(r)'
        BY <1>1, <2>1, <3>1, <4>1, <4>2 DEF Received, Ordered
      <4>4. ASSUME NEW k \in 1 .. Len(sock[r])
            PROVE  taken[r] + 1 < sock[r][k]
        <5>1. sock[r][k] \in Nat /\ sock[r][k] \in big /\ taken[r] < sock[r][k]
          <6>1. sock[r][k] \in big /\ Low(r) < sock[r][k]
            BY <3>1 DEF Pending
          <6>2. big \subseteq Nat
            BY DEF TypeOK
          <6>. QED
            BY <3>1, <6>1, <6>2
        <5>. QED
            BY <1>2, <4>1, <5>1, SMT
      <4>5. Pending(r)'
        BY <1>1, <2>1, <3>1, <4>1, <4>4 DEF Pending
      <4>6. Complete(r)'
        <5>. SUFFICES ASSUME NEW m \in big, taken[r] + 1 < m, m <= High, wpc = "dead" => m < sent
                      PROVE  \E k \in 1 .. Len(sock[r]) : sock[r][k] = m
            BY <1>1, <2>1, <4>1 DEF Complete
        <5>1. Low(r) < m
            BY <1>2, <3>1, SMT DEF TypeOK
        <5>. QED
            BY <3>1, <5>1 DEF Complete
      <4>. QED
        BY <4>3, <4>5, <4>6
    <3>. QED
        BY <3>2, <3>3
  <2>. QED
    BY <1>1, <2>2, <2>3 DEF SocketInv
<1>. QED
    BY <1>8, <1>9, <1>10, <1>11, <1>12 DEF Rest

\* What a reader waits for is the first thing in its socket.
LEMMA HeadIsNext ==
    ASSUME Inv, NEW r \in Readers, rpc[r] = "recv", ~late[r], sock[r] # <<>>
    PROVE  sock[r][1] = taken[r] /\ Head(sock[r]) = sock[r][1] /\ taken[r] <= High
<1>. USE DEF Inv
<1>1. sent \in Nat /\ taken[r] \in Nat /\ sock \in [Readers -> Seq(Nat)] /\ High \in Int /\ High <= sent
    BY SMT DEF TypeOK, High
<1>2. Pending(r) /\ Ordered(r) /\ Complete(r) /\ Low(r) = taken[r] - 1
    BY DEF SocketInv, Low
<1>3. 1 \in 1 .. Len(sock[r]) /\ Head(sock[r]) = sock[r][1]
    BY <1>1, SMT
<1>4. sock[r][1] \in Nat /\ taken[r] - 1 < sock[r][1] /\ sock[r][1] <= High
    BY <1>1, <1>2, <1>3, SMT DEF Pending
<1>5. taken[r] \in big
    BY DEF ReaderInv
<1>6. CASE \E i \in 1 .. Len(sock[r]) : sock[r][i] = taken[r]
  <2>1. PICK i \in 1 .. Len(sock[r]) : sock[r][i] = taken[r]
    BY <1>6
  <2>2. i = 1 \/ sock[r][1] < sock[r][i]
    BY <1>1, <1>2, <1>3, SMT DEF Ordered
  <2>. QED
    BY <1>1, <1>3, <1>4, <2>1, <2>2, SMT
<1>7. CASE ~\E i \in 1 .. Len(sock[r]) : sock[r][i] = taken[r]
  <2>1. Low(r) < taken[r]
    <3>1. taken[r] \in Nat /\ Low(r) = taken[r] - 1
        BY <1>1, <1>2
    <3>. QED
        BY <3>1, SMT
  <2>2. ~(taken[r] <= High /\ (wpc = "dead" => taken[r] < sent))
    BY <1>2, <1>5, <1>7, <2>1 DEF Complete
  <2>. QED
    BY <1>1, <1>3, <1>4, <2>2, SMT
<1>. QED
    BY <1>6, <1>7

\* recv takes the payload of the object whose chunk was read last.
LEMMA RecvOverflowInv ==
    ASSUME Inv, NEW r \in Readers, RecvOverflow(r)
    PROVE  Rest'
<1>. USE DEF Inv
<1>1. /\ UNCHANGED <<written, read, data, wpc, widx, overflow, reset, sent, big,
                     ridx, buf, taken, late>>
      /\ rpc[r] = "recv" /\ sock[r] # <<>>
      /\ rpc' = [rpc EXCEPT ![r] = "check"]
      /\ out' = [out EXCEPT ![r] = Head(sock[r])]
      /\ sock' = [sock EXCEPT ![r] = Tail(@)]
    BY DEF RecvOverflow, Goto, mem, wvars
<1>2. PositionInv' /\ ChunkInv' /\ WriterInv' /\ PatienceInv'
    BY <1>1 DEF PositionInv, Behind, ChunkInv, Num, Holds, WriterInv, PatienceInv
<1>3. /\ \A q \in Readers \ {r} : rpc'[q] = rpc[q] /\ out'[q] = out[q] /\ sock'[q] = sock[q]
      /\ rpc'[r] = "check" /\ out'[r] = Head(sock[r]) /\ sock'[r] = Tail(sock[r])
    BY <1>1 DEF TypeOK
<1>4. ReaderInv'
    BY <1>1, <1>3 DEF ReaderInv, Holds
<1>5. High' = High /\ High \in Int
    BY <1>1, SMT DEF High, TypeOK
<1>6. SocketInv'
  <2>1. ASSUME NEW q \in Readers, q # r, ~late[q]
        PROVE  Received(q)' /\ Pending(q)' /\ Ordered(q)' /\ Complete(q)'
    <3>1. Low(q)' = Low(q)
        BY <1>1, <1>3, <2>1 DEF Low
    <3>2. Received(q) /\ Pending(q) /\ Ordered(q) /\ Complete(q)
        BY <2>1 DEF SocketInv
    <3>3. sock'[q] = sock[q] /\ out'[q] = out[q]
        BY <1>3, <2>1
    <3>. QED
        BY <1>1, <1>5, <3>1, <3>2, <3>3, ReaderSocketFrame
  <2>2. ASSUME ~late[r]
        PROVE  Received(r)' /\ Pending(r)' /\ Ordered(r)' /\ Complete(r)'
    <3>1. /\ sock \in [Readers -> Seq(Nat)] /\ sock[r] \in Seq(Nat) /\ sock[r] # <<>> /\ taken[r] \in Nat
          /\ sock[r][1] = taken[r] /\ Head(sock[r]) = taken[r] /\ taken[r] <= High
      <4>1. sock \in [Readers -> Seq(Nat)] /\ sock[r] \in Seq(Nat) /\ taken[r] \in Nat
        BY DEF TypeOK
      <4>2. sock[r] # <<>> /\ sock[r][1] = taken[r] /\ Head(sock[r]) = sock[r][1] /\ taken[r] <= High
        BY <1>1, <2>2, HeadIsNext
      <4>. QED
        BY <4>1, <4>2
    <3>2. /\ Len(sock'[r]) = Len(sock[r]) - 1 /\ Len(sock[r]) >= 1
          /\ \A i \in 1 .. Len(sock'[r]) : sock'[r][i] = sock[r][i + 1] /\ i + 1 \in 1 .. Len(sock[r])
      <4>1. sock'[r] = Tail(sock[r])
        BY <1>3
      <4>2. /\ Len(Tail(sock[r])) = Len(sock[r]) - 1 /\ Len(sock[r]) \in Nat /\ Len(sock[r]) >= 1
            /\ \A i \in 1 .. Len(sock[r]) - 1 : Tail(sock[r])[i] = sock[r][i + 1]
        BY <3>1, SMT
      <4>3. \A i \in 1 .. Len(sock[r]) - 1 : i + 1 \in 1 .. Len(sock[r])
        BY <4>2, SMT
      <4>. QED
        BY <4>1, <4>2, <4>3
    <3>3. Pending(r) /\ Ordered(r) /\ Complete(r) /\ Low(r) = taken[r] - 1 /\ Low(r)' = taken[r]
        BY <1>1, <1>3, <2>2 DEF SocketInv, Low
    <3>4. Received(r)'
        BY <1>3, <1>5, <3>1, <3>3 DEF Received
    <3>5. Pending(r)'
      <4>. SUFFICES ASSUME NEW i \in 1 .. Len(sock'[r])
                    PROVE  /\ sock'[r][i] \in big
                           /\ taken[r] < sock'[r][i]
                           /\ sock'[r][i] <= High - (Len(sock'[r]) - i)
        BY <1>1, <1>5, <3>3 DEF Pending
      <4>1. /\ i + 1 \in 1 .. Len(sock[r]) /\ 1 \in 1 .. Len(sock[r]) /\ 1 < i + 1
            /\ sock'[r][i] = sock[r][i + 1]
        <5>1. sock'[r][i] = sock[r][i + 1] /\ i + 1 \in 1 .. Len(sock[r])
            BY <3>2
        <5>2. Len(sock[r]) \in Nat /\ Len(sock[r]) >= 1 /\ i \in Int /\ i >= 1
            BY <3>1, <3>2, SMT
        <5>. QED
            BY <5>1, <5>2, SMT
      <4>2. sock[r][1] < sock[r][i + 1]
        BY <3>3, <4>1 DEF Ordered
      <4>3. sock[r][i + 1] \in big /\ sock[r][i + 1] <= High - (Len(sock[r]) - (i + 1))
        BY <3>3, <4>1 DEF Pending
      <4>4. Len(sock[r]) - (i + 1) = Len(sock'[r]) - i
        <5>1. Len(sock[r]) \in Nat /\ i \in Int
            BY <3>1, SMT
        <5>2. Len(sock'[r]) = Len(sock[r]) - 1
            BY <3>2
        <5>. QED
            BY <5>1, <5>2, SMT
      <4>5. taken[r] < sock'[r][i]
        BY <3>1, <4>1, <4>2
      <4>6. sock'[r][i] \in big /\ sock'[r][i] <= High - (Len(sock'[r]) - i)
        BY <4>1, <4>3, <4>4
      <4>. QED
        BY <4>5, <4>6
    <3>6. Ordered(r)'
      <4>. SUFFICES ASSUME NEW i \in 1 .. Len(sock'[r]), NEW j \in 1 .. Len(sock'[r]), i < j
                    PROVE  sock'[r][i] < sock'[r][j]
        BY DEF Ordered
      <4>1. /\ sock'[r][i] = sock[r][i + 1] /\ i + 1 \in 1 .. Len(sock[r])
            /\ sock'[r][j] = sock[r][j + 1] /\ j + 1 \in 1 .. Len(sock[r])
        BY <3>2
      <4>2. i + 1 < j + 1
        BY SMT
      <4>. QED
        BY <3>3, <4>1, <4>2 DEF Ordered
    <3>7. Complete(r)'
      <4>. SUFFICES ASSUME NEW m \in big, taken[r] < m, m <= High, wpc = "dead" => m < sent
                    PROVE  \E i \in 1 .. Len(sock'[r]) : sock'[r][i] = m
        BY <1>1, <1>5, <3>3 DEF Complete
      <4>1. Low(r) < m
        BY <3>1, <3>3, SMT DEF TypeOK
      <4>2. PICK k \in 1 .. Len(sock[r]) : sock[r][k] = m
        BY <3>3, <4>1 DEF Complete
      <4>3. k # 1
        BY <3>1, <4>2, SMT DEF TypeOK
      <4>4. k - 1 \in 1 .. Len(sock'[r]) /\ (k - 1) + 1 = k
        <5>1. Len(sock[r]) \in Nat
            BY <3>1, SMT
        <5>2. Len(sock'[r]) = Len(sock[r]) - 1
            BY <3>2
        <5>. QED
            BY <4>3, <5>1, <5>2, SMT
      <4>. QED
        BY <3>2, <4>2, <4>4
    <3>. QED
        BY <3>4, <3>5, <3>6, <3>7
  <2>. QED
    BY <1>1, <2>1, <2>2 DEF SocketInv
<1>. QED
    BY <1>2, <1>4, <1>6 DEF Rest

\* A recv that times out sets its reader apart and moves no object.
LEMMA RecvTimeoutInv ==
    ASSUME Inv, NEW r \in Readers, RecvTimeout(r)
    PROVE  Rest'
<1>. USE DEF Inv
<1>1. /\ UNCHANGED <<written, read, data, sock, wpc, widx, overflow, reset, sent, big,
                     ridx, buf, taken, out>>
      /\ rpc[r] = "recv" /\ r \in TimeoutReaders
      /\ rpc' = [rpc EXCEPT ![r] = "check"]
      /\ late' = [late EXCEPT ![r] = TRUE]
    BY DEF RecvTimeout, Goto, mem, wvars
<1>2. PositionInv' /\ ChunkInv' /\ WriterInv'
    BY <1>1 DEF PositionInv, Behind, ChunkInv, Num, Holds, WriterInv
<1>3. /\ \A q \in Readers \ {r} : rpc'[q] = rpc[q] /\ late'[q] = late[q]
      /\ rpc'[r] = "check" /\ late'[r]
    BY <1>1 DEF TypeOK
<1>4. PatienceInv'
    BY <1>1, <1>3 DEF PatienceInv, Patient
<1>5. ReaderInv'
    BY <1>1, <1>3 DEF ReaderInv, Holds
<1>6. SocketInv'
  <2>1. High' = High
    BY <1>1 DEF High
  <2>2. ASSUME NEW q \in Readers, ~late'[q]
        PROVE  Received(q)' /\ Pending(q)' /\ Ordered(q)' /\ Complete(q)'
    <3>1. q # r /\ ~late[q] /\ Low(q)' = Low(q)
        BY <1>1, <1>3, <2>2 DEF Low
    <3>. QED
        BY <1>1, <2>1, <3>1, ReaderSocketFrame DEF SocketInv
  <2>. QED
    BY <2>2 DEF SocketInv
<1>. QED
    BY <1>2, <1>4, <1>5, <1>6 DEF Rest

-----------------------------------------------------------------------------
(* The theorems.                                                           *)

\* The inductive invariant holds when the queue is created.
LEMMA InvInit == Init => Inv
<1>. SUFFICES ASSUME Init PROVE Inv
    OBVIOUS
<1>1. TypeOK
    BY TypeInit
<1>2. PositionInv
    BY RingAssumption, SMT DEF Init, PositionInv, Behind, Chunks
<1>3. ChunkInv
    BY RingAssumption, SMT DEF Init, ChunkInv, Num, Chunks
<1>4. WriterInv /\ ReaderInv /\ PatienceInv
    BY RingAssumption DEF Init, WriterInv, ReaderInv, PatienceInv, Patient
<1>5. SocketInv
    BY SMT DEF Init, SocketInv, Received, Pending, Ordered, Complete, Low, High
<1>. QED
    BY <1>1, <1>2, <1>3, <1>4, <1>5 DEF Inv

\* Every step of the writer, of a reader and of shutdown keeps the invariant.
LEMMA InvStep ==
    ASSUME Inv, [Next]_vars
    PROVE  Inv'
<1>1. TypeOK'
    BY TypeStep DEF Inv
<1>2. Rest'
  <2>1. CASE (\E o \in BOOLEAN : Enqueue(o)) \/ EnqueueTimeout \/ Notify \/ WriterDies
    BY <2>1, QuietWriter
  <2>2. CASE AcquireWrite
    BY <2>2, AcquireWriteInv
  <2>3. CASE WriteChunk
    BY <2>3, WriteChunkInv
  <2>4. CASE ResetReadFlag
    BY <2>4, ResetReadFlagInv
  <2>5. CASE MarkWritten
    BY <2>5, MarkWrittenInv
  <2>6. CASE SendOverflow
    BY <2>6, SendOverflowInv
  <2>7. ASSUME NEW r \in Readers, ReaderStep(r) \/ Shutdown(r)
        PROVE  Rest'
    BY <2>7, QuietReader, CheckReadFlagInv, CheckWrittenFlagInv, ReadChunkInv,
       MarkReadInv, RecvOverflowInv, RecvTimeoutInv DEF ReaderStep
  <2>8. CASE UNCHANGED vars
    <3>. USE <2>8 DEF Inv, vars
    <3>1. PositionInv' /\ ChunkInv' /\ WriterInv' /\ ReaderInv' /\ PatienceInv'
        BY DEF PositionInv, Behind, ChunkInv, Num, Holds, WriterInv, ReaderInv, PatienceInv
    <3>2. SocketInv'
        BY SocketFrame DEF High, Low
    <3>. QED
        BY <3>1, <3>2 DEF Rest
  <2>. QED
    BY <2>1, <2>2, <2>3, <2>4, <2>5, <2>6, <2>7, <2>8 DEF Next, WriterStep
<1>. QED
    BY <1>1, <1>2 DEF Inv, Rest

\* The inductive invariant holds in every state of the queue.
LEMMA InvHolds == Spec => []Inv
BY InvInit, InvStep, PTL DEF Spec

\* The writer and a reader are never in one chunk at once, for any number of
\* readers and chunks: the flags are a lock although nothing but ordered
\* writes and reads of single bytes implements them.
THEOREM ChunksNotRaced == Spec => []NoRace
<1>1. ASSUME Inv, NEW r \in Readers, rpc[r] \in {"read", "mark"}, ridx[r] = widx
      PROVE  wpc \notin {"write", "reset", "mark"}
  <2>1. written[widx] = 1
    BY <1>1 DEF Inv, ReaderInv
  <2>2. wpc \in {"write", "reset", "mark"} => written[widx] = 0
    BY <1>1 DEF Inv, WriterInv
  <2>. QED
    BY <2>1, <2>2, SMT
<1>2. Inv => NoRace
    BY <1>1 DEF NoRace
<1>. QED
    BY <1>2, InvHolds, PTL

\* What a reader takes out of the ring is whole and is its next object.
THEOREM RingInOrder == Spec => []TakesNext
<1>1. Inv => TakesNext
    BY DEF Inv, TakesNext, ReaderInv, Holds
<1>. QED
    BY <1>1, InvHolds, PTL

\* The ring is a sound queue for any number of readers and chunks: no reader is
\* in the chunk that the writer fills, and each takes the objects in order.
THEOREM RingIsSafe == Spec => []RingSafe
<1>1. NoRace /\ TakesNext => RingSafe
    BY DEF RingSafe
<1>. QED
    BY <1>1, ChunksNotRaced, RingInOrder, PTL

\* Large objects never reach the wrong dequeue.
THEOREM SocketStaysInStep == Spec => []SocketInStep
<1>1. Inv => SocketInStep
    BY HeadIsNext DEF SocketInStep
<1>. QED
    BY <1>1, InvHolds, PTL

\* No large object is dropped: the ring bounds what the socket has to hold.
THEOREM SocketBounded == Spec => []SocketNeverFull
<1>1. ASSUME Inv, NEW r \in Readers, ~late[r]
      PROVE  Len(sock[r]) <= MaxChunks + 1
  <2>. USE DEF Inv
  <2>1. sent \in Nat /\ taken[r] \in Nat /\ sock \in [Readers -> Seq(Nat)] /\ High \in Int /\ High <= sent
    BY <1>1, SMT DEF TypeOK, High
  <2>2. sent - taken[r] <= MaxChunks
    BY <1>1 DEF PositionInv
  <2>3. CASE sock[r] = <<>>
    BY <2>3, RingAssumption, SMT
  <2>4. CASE sock[r] # <<>>
    <3>1. 1 \in 1 .. Len(sock[r])
        BY <2>1, <2>4, SMT
    <3>2. Low(r) < sock[r][1] /\ sock[r][1] <= High - (Len(sock[r]) - 1)
        BY <1>1, <3>1 DEF SocketInv, Pending
    <3>3. Low(r) \in Int /\ Low(r) >= taken[r] - 1
        BY <2>1, SMT DEF Low
    <3>4. Len(sock[r]) \in Nat /\ sock[r][1] \in Nat
        BY <2>1, <3>1, SMT
    <3>5. sock[r][1] >= taken[r]
        BY <2>1, <3>2, <3>3, <3>4, SMT
    <3>. QED
        BY <2>1, <2>2, <3>2, <3>4, <3>5, RingAssumption, SMT
  <2>. QED
    BY <2>3, <2>4
<1>2. Inv => SocketNeverFull
    BY <1>1 DEF SocketNeverFull
<1>. QED
    BY <1>2, InvHolds, PTL

\* Large objects are neither dropped nor mixed up on the socket beside the ring.
THEOREM SocketIsReliable == Spec => []SocketReliable
<1>1. SocketInStep /\ SocketNeverFull => SocketReliable
    BY DEF SocketReliable
<1>. QED
    BY <1>1, SocketStaysInStep, SocketBounded, PTL

\* Every step of the queue is a step of the abstract broadcast or none.
LEMMA RefinementStep ==
    ASSUME Inv, [Next]_vars
    PROVE  [Queue!BNext]_(Queue!bvars)
<1>. DEFINE view == [r \in Patient |-> out[r]]
<1>. USE DEF Inv
<1>1. sent \in Nat /\ \A r \in Readers : taken[r] \in Nat /\ out[r] \in Int
    BY DEF TypeOK
<1>2. ASSUME NEW r \in Patient
      PROVE  r \in Readers /\ ~late[r] /\ out[r] = Low(r)
    BY DEF Patient, PatienceInv, SocketInv, Received
<1>3. ASSUME UNCHANGED <<sent, out>>
      PROVE  UNCHANGED Queue!bvars
    BY <1>3 DEF Queue!bvars
<1>4. CASE MarkWritten
  <2>1. sent' = sent + 1 /\ out' = out /\ wpc = "mark"
    BY <1>4 DEF MarkWritten, rvars
  <2>2. widx \in Chunks /\ written[widx] = 0
    BY <2>1 DEF TypeOK, WriterInv
  <2>3. \A r \in Readers : sent + 1 - MaxChunks <= taken[r]
    BY <2>2, NumOfWriter DEF ChunkInv
  <2>4. \A r \in Patient : sent - view[r] < MaxChunks + 1
    BY <1>1, <1>2, <2>3, RingAssumption, SMT DEF Low
  <2>. QED
    BY <2>1, <2>4 DEF Queue!BNext, Queue!BSend
<1>5. ASSUME NEW r \in Readers, MarkRead(r)
      PROVE  [Queue!BNext]_(Queue!bvars)
  <2>1. /\ sent' = sent /\ rpc[r] = "mark"
        /\ out' = IF buf[r].overflow THEN out ELSE [out EXCEPT ![r] = buf[r].obj]
    BY <1>5 DEF MarkRead, wvars
  <2>2. taken[r] < sent /\ buf[r].obj = taken[r] + 1
    BY <2>1 DEF ReaderInv, Holds
  <2>3. CASE buf[r].overflow \/ r \notin Patient
    <3>1. view' = view
        BY <2>1, <2>3 DEF TypeOK, Patient
    <3>. QED
        BY <2>1, <3>1 DEF Queue!bvars
  <2>4. CASE ~buf[r].overflow /\ r \in Patient
    <3>1. out[r] = taken[r]
        BY <1>2, <2>1, <2>4 DEF Low
    <3>2. view' = [view EXCEPT ![r] = view[r] + 1] /\ view[r] < sent
        BY <1>1, <2>1, <2>2, <2>4, <3>1 DEF TypeOK, Patient
    <3>. QED
        BY <2>1, <2>4, <3>2 DEF Queue!BNext, Queue!BDeliver
  <2>. QED
    BY <2>3, <2>4
<1>6. ASSUME NEW r \in Readers, RecvOverflow(r)
      PROVE  [Queue!BNext]_(Queue!bvars)
  <2>1. /\ sent' = sent /\ rpc[r] = "recv" /\ sock[r] # <<>>
        /\ out' = [out EXCEPT ![r] = Head(sock[r])]
    BY <1>6 DEF RecvOverflow, wvars
  <2>2. CASE r \notin Patient
    <3>1. view' = view
        BY <2>1, <2>2 DEF TypeOK, Patient
    <3>. QED
        BY <2>1, <3>1 DEF Queue!bvars
  <2>3. CASE r \in Patient
    <3>1. out[r] = taken[r] - 1 /\ ~late[r]
        BY <1>2, <2>1, <2>3 DEF Low
    <3>2. Head(sock[r]) = taken[r] /\ taken[r] <= High
        BY <2>1, <3>1, HeadIsNext
    <3>3. High <= sent /\ High \in Int
        BY <1>1, SMT DEF High
    <3>4. Head(sock[r]) = out[r] + 1 /\ out[r] < sent
        BY <1>1, <1>2, <2>3, <3>1, <3>2, <3>3, SMT
    <3>5. view' = [view EXCEPT ![r] = view[r] + 1] /\ view[r] < sent
        BY <2>1, <2>3, <3>4 DEF TypeOK, Patient
    <3>. QED
        BY <2>1, <2>3, <3>5 DEF Queue!BNext, Queue!BDeliver
  <2>. QED
    BY <2>2, <2>3
<1>7. CASE (\E o \in BOOLEAN : Enqueue(o)) \/ EnqueueTimeout \/ Notify \/ WriterDies
           \/ AcquireWrite \/ WriteChunk \/ ResetReadFlag \/ SendOverflow \/ UNCHANGED vars
    BY <1>3, <1>7 DEF Enqueue, EnqueueTimeout, Notify, WriterDies, AcquireWrite, WriteChunk,
       ResetReadFlag, SendOverflow, rvars, vars
<1>8. ASSUME NEW r \in Readers,
             \/ CheckReadFlag(r) \/ CheckWrittenFlag(r) \/ Spin(r) \/ GoIdle(r)
             \/ WakeCancelled(r) \/ WakeNotified(r) \/ WakeTimeout(r) \/ ReadChunk(r)
             \/ RecvTimeout(r) \/ Shutdown(r)
      PROVE  [Queue!BNext]_(Queue!bvars)
    BY <1>3, <1>8 DEF CheckReadFlag, CheckWrittenFlag, Spin, GoIdle, WakeCancelled,
       WakeNotified, WakeTimeout, ReadChunk, RecvTimeout, Shutdown, wvars
<1>. QED
    BY <1>4, <1>5, <1>6, <1>7, <1>8 DEF Next, WriterStep, ReaderStep

\* MessageQueue is a reliable, ordered and bounded broadcast to every reader
\* that dequeues without a timeout.
THEOREM QueueImplementsBroadcast == Spec => ImplementsBroadcast
<1>1. Init => Queue!BInit
    BY DEF Init, Queue!BInit, Patient
<1>2. Inv /\ [Next]_vars => [Queue!BNext]_(Queue!bvars)
    BY RefinementStep
<1>. QED
    BY <1>1, <1>2, InvHolds, PTL DEF Spec, ImplementsBroadcast, Queue!BSpec
=============================================================================
