---------------------------- MODULE MessageQueue ----------------------------
(***************************************************************************)
(* MessageQueue, over which the executor broadcasts to its workers and     *)
(* each worker answers: one writer, local readers, a ring of chunks in     *)
(* shared memory with a written flag and one read flag per reader, a       *)
(* socket for objects too large for a chunk, and a lossy socket that wakes *)
(* sleeping readers.  A step is one access to memory that another process  *)
(* may also touch.  The fences make each process's accesses visible in     *)
(* program order.  The behaviour starts when wait_until_ready has returned *)
(* everywhere and the notify sockets are connected.  Remote readers are    *)
(* left out.                                                               *)
(***************************************************************************)
EXTENDS Integers, Sequences

CONSTANTS
    NReader,            \* buffer.n_reader
    MaxChunks,          \* buffer.max_chunks
    Hwm,                \* what the data socket holds per reader before it drops
    TimeoutReaders,     \* readers that call dequeue with a timeout
    IndefiniteReaders,  \* readers that call it with indefinite = True
    MaxMessages         \* bound on the number of objects enqueued

Readers == 0 .. NReader - 1
Chunks == 0 .. MaxChunks - 1

ASSUME RingAssumption ==
    /\ NReader \in Nat \ {0}
    /\ MaxChunks \in Nat \ {0}
    /\ Hwm \in Nat /\ Hwm > MaxChunks
    /\ MaxMessages \in Nat
    /\ TimeoutReaders \subseteq Readers
    /\ IndefiniteReaders \subseteq Readers \ TimeoutReaders

VARIABLES
    written,        \* metadata_buffer[0] of each chunk
    read,           \* metadata_buffer[1 + r] of each chunk
    data,           \* what the chunk holds
    sock,           \* local_socket: objects sent to r and not received
    ping,           \* a notification waits in r's conflating socket
    \* the writer
    wpc, widx, overflow, reset, sent, big,
    \* each reader
    rpc, ridx, buf, taken, out, shutting_down, late

wvars == <<wpc, widx, overflow, reset, sent, big>>
rvars == <<rpc, ridx, buf, taken, out, shutting_down, late>>
mem == <<written, read, data>>
vars == <<written, read, data, sock, ping, wpc, widx, overflow,
          reset, sent, big, rpc, ridx, buf, taken, out, shutting_down, late>>

\* A chunk that the writer is in the middle of, and one never written.
Torn == [overflow |-> FALSE, obj |-> -1]

Init ==
    /\ written = [s \in Chunks |-> 0]
    /\ read = [s \in Chunks |-> [r \in Readers |-> 0]]
    /\ data = [s \in Chunks |-> Torn]
    /\ sock = [r \in Readers |-> <<>>]
    /\ ping = [r \in Readers |-> FALSE]
    /\ wpc = "out" /\ widx = 0 /\ overflow = FALSE /\ reset = 0
    /\ sent = 0 /\ big = {}
    /\ rpc = [r \in Readers |-> "check"]
    /\ ridx = [r \in Readers |-> 0]
    /\ buf = [r \in Readers |-> Torn]
    /\ taken = [r \in Readers |-> 0]
    /\ out = [r \in Readers |-> 0]
    /\ shutting_down = [r \in Readers |-> FALSE]
    /\ late = [r \in Readers |-> FALSE]

Advance(i) == IF i + 1 = MaxChunks THEN 0 ELSE i + 1

-----------------------------------------------------------------------------
(* The writer: enqueue and acquire_write.                                  *)

Enqueue(o) ==
    /\ wpc = "out"
    /\ sent < MaxMessages
    /\ wpc' = "acquire"
    /\ overflow' = o
    /\ UNCHANGED <<mem, sock, ping, widx, reset, sent, big, rvars>>

\* Mutant: one reader is enough.
Writable_anyReader(s) == written[s] = 0 \/ \E r \in Readers : read[s][r] = 1

\* Until the writer clears the written flag readers only raise read flags,
\* so adding them up one by one is as good as seeing them all at once.
Writable(s) == written[s] = 0 \/ \A r \in Readers : read[s][r] = 1

\* Mutant: the chunk stays marked as written while it is rewritten.
AcquireWrite_stillMarked ==
    /\ wpc = "acquire"
    /\ Writable(widx)
    /\ data' = [data EXCEPT ![widx] = Torn]
    /\ wpc' = "write"
    /\ UNCHANGED <<written, read, sock, ping, widx, overflow, reset, sent, big, rvars>>

AcquireWrite ==
    /\ wpc = "acquire"
    /\ Writable(widx)
    /\ written' = [written EXCEPT ![widx] = 0]
    /\ data' = [data EXCEPT ![widx] = Torn]
    /\ wpc' = "write"
    /\ UNCHANGED <<read, sock, ping, widx, overflow, reset, sent, big, rvars>>

\* TimeoutError from acquire_write: nothing has been touched.
EnqueueTimeout ==
    /\ wpc = "acquire"
    /\ ~Writable(widx)
    /\ wpc' = "out"
    /\ UNCHANGED <<mem, sock, ping, widx, overflow, reset, sent, big, rvars>>

WriteChunk ==
    /\ wpc = "write"
    /\ data' = [data EXCEPT ![widx] = [overflow |-> overflow, obj |-> sent + 1]]
    /\ reset' = 0
    /\ wpc' = "reset"
    /\ UNCHANGED <<written, read, sock, ping, widx, overflow, sent, big, rvars>>

ResetReadFlag ==
    /\ wpc = "reset"
    /\ read' = [read EXCEPT ![widx][reset] = 0]
    /\ reset' = reset + 1
    /\ wpc' = IF reset + 1 = NReader THEN "mark" ELSE "reset"
    /\ UNCHANGED <<written, data, sock, ping, widx, overflow, sent, big, rvars>>

\* Mutant: objects that fit the chunk also go over the socket.
MarkWritten_alwaysSends ==
    /\ wpc = "mark"
    /\ written' = [written EXCEPT ![widx] = 1]
    /\ widx' = Advance(widx)
    /\ sent' = sent + 1
    /\ big' = IF overflow THEN big \cup {sent + 1} ELSE big
    /\ wpc' = "send"
    /\ UNCHANGED <<read, data, sock, ping, overflow, reset, rvars>>

MarkWritten ==
    /\ wpc = "mark"
    /\ written' = [written EXCEPT ![widx] = 1]
    /\ widx' = Advance(widx)
    /\ sent' = sent + 1
    /\ big' = IF overflow THEN big \cup {sent + 1} ELSE big
    /\ wpc' = IF overflow THEN "send" ELSE "notify"
    /\ UNCHANGED <<read, data, sock, ping, overflow, reset, rvars>>

\* Mutant: only objects in the chunk are announced.
SendOverflow_silent ==
    /\ wpc = "send"
    /\ sock' = [r \in Readers |->
                   IF Len(sock[r]) < Hwm THEN Append(sock[r], sent) ELSE sock[r]]
    /\ wpc' = "out"
    /\ UNCHANGED <<mem, ping, widx, overflow, reset, sent, big, rvars>>

\* A publisher's socket drops what is over the high-water mark.
SendOverflow ==
    /\ wpc = "send"
    /\ sock' = [r \in Readers |->
                   IF Len(sock[r]) < Hwm THEN Append(sock[r], sent) ELSE sock[r]]
    /\ wpc' = "notify"
    /\ UNCHANGED <<mem, ping, widx, overflow, reset, sent, big, rvars>>

\* A dropped or conflated notification leaves the earlier one waiting.
Notify ==
    /\ wpc = "notify"
    /\ ping' = [r \in Readers |-> TRUE]
    /\ wpc' = "out"
    /\ UNCHANGED <<mem, sock, widx, overflow, reset, sent, big, rvars>>

WriterDies ==
    /\ wpc # "dead"
    /\ wpc' = "dead"
    /\ UNCHANGED <<mem, sock, ping, widx, overflow, reset, sent, big, rvars>>

WriterStep ==
    \/ AcquireWrite
    \/ WriteChunk
    \/ ResetReadFlag
    \/ MarkWritten
    \/ SendOverflow
    \/ Notify

-----------------------------------------------------------------------------
(* A reader: dequeue, acquire_read and SpinCondition.wait.                 *)

Goto(r, pc) == rpc' = [rpc EXCEPT ![r] = pc]

CheckReadFlag(r) ==
    /\ rpc[r] = "check"
    /\ Goto(r, IF read[ridx[r]][r] = 1 THEN "wait" ELSE "check_written")
    /\ UNCHANGED <<mem, sock, ping, wvars, ridx, buf, taken, out, shutting_down, late>>

CheckWrittenFlag(r) ==
    /\ rpc[r] = "check_written"
    /\ Goto(r, IF written[ridx[r]] = 1 THEN "read" ELSE "wait")
    /\ UNCHANGED <<mem, sock, ping, wvars, ridx, buf, taken, out, shutting_down, late>>

\* Mutant: shutting_down is not looked at after a wait.
Resume_deaf(r) == Goto(r, "check")

\* After every wait: RuntimeError("cancelled"), or another look at the flags.
Resume(r) == Goto(r, IF shutting_down[r] THEN "stopped" ELSE "check")

\* Less than busy_loop_s since the last read.
Spin(r) ==
    /\ rpc[r] = "wait"
    /\ Resume(r)
    /\ UNCHANGED <<mem, sock, ping, wvars, ridx, buf, taken, out, shutting_down, late>>

\* No read for busy_loop_s.
GoIdle(r) ==
    /\ rpc[r] = "wait"
    /\ Goto(r, "poll")
    /\ UNCHANGED <<mem, sock, ping, wvars, ridx, buf, taken, out, shutting_down, late>>

WakeCancelled(r) ==
    /\ rpc[r] = "poll"
    /\ shutting_down[r]
    /\ Resume(r)
    /\ UNCHANGED <<mem, sock, ping, wvars, ridx, buf, taken, out, shutting_down, late>>

WakeNotified(r) ==
    /\ rpc[r] = "poll"
    /\ ~shutting_down[r]
    /\ ping[r]
    /\ ping' = [ping EXCEPT ![r] = FALSE]
    /\ Resume(r)
    /\ UNCHANGED <<mem, sock, wvars, ridx, buf, taken, out, shutting_down, late>>

\* The warning interval or the deadline: a TimeoutError ends the call, and
\* the next call starts where this one did.
WakeTimeout(r) ==
    /\ rpc[r] = "poll"
    /\ r \notin IndefiniteReaders
    /\ Resume(r)
    /\ UNCHANGED <<mem, sock, ping, wvars, ridx, buf, taken, out, shutting_down, late>>

ReadChunk(r) ==
    /\ rpc[r] = "read"
    /\ buf' = [buf EXCEPT ![r] = data[ridx[r]]]
    /\ Goto(r, "mark")
    /\ UNCHANGED <<mem, sock, ping, wvars, ridx, taken, out, shutting_down, late>>

MarkRead(r) ==
    /\ rpc[r] = "mark"
    /\ read' = [read EXCEPT ![ridx[r]][r] = 1]
    /\ ridx' = [ridx EXCEPT ![r] = Advance(@)]
    /\ taken' = [taken EXCEPT ![r] = @ + 1]
    /\ out' = IF buf[r].overflow THEN out ELSE [out EXCEPT ![r] = buf[r].obj]
    /\ Goto(r, IF buf[r].overflow THEN "recv" ELSE "check")
    /\ UNCHANGED <<written, data, sock, ping, wvars, buf, shutting_down, late>>

RecvOverflow(r) ==
    /\ rpc[r] = "recv"
    /\ sock[r] # <<>>
    /\ out' = [out EXCEPT ![r] = Head(sock[r])]
    /\ sock' = [sock EXCEPT ![r] = Tail(@)]
    /\ Goto(r, "check")
    /\ UNCHANGED <<mem, ping, wvars, ridx, buf, taken, shutting_down, late>>

\* TimeoutError from recv: the chunk is marked read already.
RecvTimeout(r) ==
    /\ rpc[r] = "recv"
    /\ r \in TimeoutReaders
    /\ sock[r] = <<>>
    /\ late' = [late EXCEPT ![r] = TRUE]
    /\ Goto(r, "check")
    /\ UNCHANGED <<mem, sock, ping, wvars, ridx, buf, taken, out, shutting_down>>

ReaderStep(r) ==
    \/ CheckReadFlag(r)
    \/ CheckWrittenFlag(r)
    \/ Spin(r)
    \/ GoIdle(r)
    \/ WakeCancelled(r)
    \/ WakeNotified(r)
    \/ WakeTimeout(r)
    \/ ReadChunk(r)
    \/ MarkRead(r)
    \/ RecvOverflow(r)
    \/ RecvTimeout(r)

-----------------------------------------------------------------------------
(* A thread of the reader's process calls shutdown when the pipe from the  *)
(* writer's process closes.                                                *)

Shutdown(r) ==
    /\ wpc = "dead"
    /\ ~shutting_down[r]
    /\ shutting_down' = [shutting_down EXCEPT ![r] = TRUE]
    /\ UNCHANGED <<mem, sock, ping, wvars, rpc, ridx, buf, taken, out, late>>

Next ==
    \/ \E o \in BOOLEAN : Enqueue(o)
    \/ EnqueueTimeout
    \/ WriterStep
    \/ WriterDies
    \/ \E r \in Readers : ReaderStep(r) \/ Shutdown(r)

Spec == Init /\ [][Next]_vars

\* The writer finishes what it began, readers keep calling dequeue, and the
\* monitor thread of each reader runs.  Nobody has to enqueue or to die.
FairSpec ==
    /\ Spec
    /\ WF_vars(WriterStep)
    /\ \A r \in Readers : /\ WF_vars(ReaderStep(r))
                          /\ WF_vars(Shutdown(r))

-----------------------------------------------------------------------------
(* Properties.                                                             *)

Messages == 1 .. MaxMessages

\* The flags are bits, both sides' indices stay inside the ring of max_chunks,
\* and the writer and the readers are at one of their memory accesses.
TypeOK ==
    /\ written \in [Chunks -> {0, 1}]
    /\ read \in [Chunks -> [Readers -> {0, 1}]]
    /\ data \in [Chunks -> [overflow : BOOLEAN, obj : Int]]
    /\ sock \in [Readers -> Seq(Nat)]
    /\ ping \in [Readers -> BOOLEAN]
    /\ wpc \in {"out", "acquire", "write", "reset", "mark", "send", "notify", "dead"}
    /\ widx \in Chunks
    /\ overflow \in BOOLEAN
    /\ reset \in 0 .. NReader
    /\ sent \in Nat
    /\ big \subseteq Nat
    /\ rpc \in [Readers -> {"check", "check_written", "wait", "poll", "read",
                            "mark", "recv", "stopped"}]
    /\ ridx \in [Readers -> Chunks]
    /\ buf \in [Readers -> [overflow : BOOLEAN, obj : Int]]
    /\ taken \in [Readers -> Nat]
    /\ out \in [Readers -> Int]
    /\ shutting_down \in [Readers -> BOOLEAN]
    /\ late \in [Readers -> BOOLEAN]

\* While a reader is inside a chunk the writer is not: acquire_write waits
\* for the flag that acquire_read raises after the caller has read, and the
\* reader does not enter a chunk whose flags are being reset.
NoRace ==
    \A r \in Readers :
        /\ rpc[r] \in {"read", "mark"}
        /\ ridx[r] = widx
        => wpc \notin {"write", "reset", "mark"}

\* The chunk that a reader takes is whole and is the next one it has not
\* taken, whatever the two sides were doing when the ring wrapped around.
TakesNext ==
    \A r \in Readers : rpc[r] = "mark" => buf[r].obj = taken[r] + 1

\* The ring is sound although no lock guards its chunks and flags.
RingSafe == NoRace /\ TakesNext

\* A reader that waits for a large object finds its own object at the head
\* of the socket, or nothing yet: chunks and socket stay in step, unless an
\* earlier dequeue timed out between the two.
SocketInStep ==
    \A r \in Readers :
        (rpc[r] = "recv" /\ ~late[r] /\ sock[r] # <<>>) => Head(sock[r]) = taken[r]

\* The ring holds the writer back before the data socket can overflow and
\* drop an object: at most one more than the ring has chunks are in flight.
SocketNeverFull ==
    \A r \in Readers : ~late[r] => Len(sock[r]) <= MaxChunks + 1

\* The data socket is as good as the ring: it loses no object, and each dequeue
\* receives the one whose chunk it has taken.
SocketReliable == SocketInStep /\ SocketNeverFull

\* Every reader that never gave up in mid-object gets every object once and
\* in order, and the writer is held back.
Patient == Readers \ TimeoutReaders

Queue == INSTANCE Broadcast WITH
    Readers <- Patient,
    Capacity <- MaxChunks + 1,
    out <- [r \in Patient |-> out[r]]

ImplementsBroadcast == Queue!BSpec

\* No wake-up is lost: a reader asleep with no timeout still gets every
\* object whose enqueue has marked the chunk, although notifications are
\* dropped, conflated, or consumed before the chunk they announce is seen.
EveryReaderGets ==
    \A r \in Patient, n \in Messages :
        sent >= n ~> (out[r] >= n \/ wpc = "dead")

\* When the writer's process dies, in mid-write or not, every reader leaves
\* its loop; only one that has taken the chunk of a large object which was
\* never sent stays in recv, which shutdown does not interrupt.
ReadersStop ==
    \A r \in Patient :
        wpc = "dead" ~> (rpc[r] = "stopped" \/ (rpc[r] = "recv" /\ sock[r] = <<>>))
=============================================================================
