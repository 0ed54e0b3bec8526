--------------------------- MODULE FreeBlockQueue ---------------------------
(***************************************************************************)
(* FreeKVCacheBlockQueue (vllm/v1/core/kv_cache_utils.py): the doubly      *)
(* linked list of free KV-cache blocks, pointer by pointer.  `nxt' and     *)
(* `prv' are the next_free_block and prev_free_block attributes of every   *)
(* block and of the fake head and tail; `num' is num_free_blocks; `ret' is *)
(* the list the last call returned.  `q' is a history variable: the queue  *)
(* of the abstract specification BlockQueue, advanced by the call that was *)
(* made.  It never guards an action and no other variable depends on it.   *)
(***************************************************************************)
EXTENDS Integers, Sequences

CONSTANT NumBlocks

ASSUME NumBlocksAssumption == NumBlocks \in Nat

VARIABLES nxt, prv, num, ret, q

vars == <<nxt, prv, num, ret, q>>

Blocks == 0 .. NumBlocks - 1
FakeHead == -1      \* fake_free_list_head
FakeTail == -2      \* fake_free_list_tail
None == -3
Nodes == Blocks \cup {FakeHead, FakeTail}

Distinct(s) == \A i, j \in 1 .. Len(s) : s[i] = s[j] => i = j

\* Lists a call may pass or return: functions, so that TLC can enumerate them.
Lists == UNION {[1 .. n -> Blocks] : n \in 0 .. NumBlocks}

Init ==
    /\ nxt = [x \in Nodes |->
                IF x = FakeHead THEN IF NumBlocks > 0 THEN 0 ELSE FakeTail
                ELSE IF x = FakeTail THEN None
                ELSE IF x = NumBlocks - 1 THEN FakeTail ELSE x + 1]
    /\ prv = [x \in Nodes |->
                IF x = FakeTail THEN IF NumBlocks > 0 THEN NumBlocks - 1 ELSE FakeHead
                ELSE IF x = FakeHead THEN None
                ELSE IF x = 0 THEN FakeHead ELSE x - 1]
    /\ num = NumBlocks
    /\ ret = <<>>
    /\ q = [i \in 1 .. NumBlocks |-> i - 1]

\* A block outside the list has both links cleared.
Unlinked(b) == nxt[b] = None /\ prv[b] = None

\* The path of n blocks that starts at the head.
Walk(n, w) ==
    /\ w[1] = nxt[FakeHead]
    /\ \A i \in 1 .. n - 1 : w[i + 1] = nxt[w[i]]

\* Mutant: the popped block keeps its links.
popleft_keeps_links ==
    LET first == nxt[FakeHead]
        second == nxt[first]
    IN  /\ first \notin {FakeTail, None}
        /\ nxt' = [nxt EXCEPT ![FakeHead] = second]
        /\ prv' = [prv EXCEPT ![second] = FakeHead]
        /\ num' = num - 1 /\ ret' = <<first>> /\ q' = SubSeq(q, 2, Len(q))

popleft ==
    LET first == nxt[FakeHead]
        second == nxt[first]
    IN  /\ first \notin {FakeTail, None}
        /\ second # None
        /\ nxt' = [nxt EXCEPT ![FakeHead] = second, ![first] = None]
        /\ prv' = [prv EXCEPT ![second] = FakeHead, ![first] = None]
        /\ num' = num - 1
        /\ ret' = <<first>>
        /\ q' = SubSeq(q, 2, Len(q))

popleft_n(n) ==
    /\ num >= n
    /\ \E w \in [1 .. n -> Blocks] :
        LET popped == {w[i] : i \in 1 .. n}
            curr == nxt[w[n]]
        IN  /\ Walk(n, w)
            /\ nxt' = [x \in Nodes |-> IF x \in popped THEN None
                                       ELSE IF x = FakeHead /\ curr # None THEN curr
                                       ELSE nxt[x]]
            /\ prv' = [x \in Nodes |-> IF x \in popped THEN None
                                       ELSE IF x = curr THEN FakeHead
                                       ELSE prv[x]]
            /\ num' = num - n
            /\ ret' = w
            /\ q' = SubSeq(q, n + 1, Len(q))

remove(b) ==
    LET before == prv[b]
        after == nxt[b]
    IN  /\ before # None /\ after # None
        /\ nxt' = [nxt EXCEPT ![before] = after, ![b] = None]
        /\ prv' = [prv EXCEPT ![after] = before, ![b] = None]
        /\ num' = num - 1
        /\ ret' = <<>>
        /\ \E i \in 1 .. Len(q) :
            /\ q[i] = b
            /\ q' = SubSeq(q, 1, i - 1) \o SubSeq(q, i + 1, Len(q))

\* Mutant: the block goes to the front of the list.
append_front(b) ==
    LET first == nxt[FakeHead]
    IN  /\ Unlinked(b)
        /\ nxt' = [nxt EXCEPT ![FakeHead] = b, ![b] = first]
        /\ prv' = [prv EXCEPT ![b] = FakeHead, ![first] = b]
        /\ num' = num + 1 /\ ret' = <<>> /\ q' = q \o <<b>>

append(b) ==
    LET last == prv[FakeTail]
    IN  /\ Unlinked(b)
        /\ last # None
        /\ nxt' = [nxt EXCEPT ![last] = b, ![b] = FakeTail]
        /\ prv' = [prv EXCEPT ![b] = last, ![FakeTail] = b]
        /\ num' = num + 1
        /\ ret' = <<>>
        /\ q' = q \o <<b>>

\* The chain last, bs[1], ..., bs[Len(bs)], FakeTail replaces last, FakeTail.
append_n(bs) ==
    LET last == prv[FakeTail]
        n == Len(bs)
        pos(x) == CHOOSE i \in 1 .. n : bs[i] = x
        added == {bs[i] : i \in 1 .. n}
    IN  /\ n > 0
        /\ last # None
        /\ \A i \in 1 .. n : Unlinked(bs[i])
        /\ nxt' = [x \in Nodes |->
                     IF x \in added
                     THEN IF pos(x) = n THEN FakeTail ELSE bs[pos(x) + 1]
                     ELSE IF x = last THEN bs[1] ELSE nxt[x]]
        /\ prv' = [x \in Nodes |->
                     IF x \in added
                     THEN IF pos(x) = 1 THEN last ELSE bs[pos(x) - 1]
                     ELSE IF x = FakeTail THEN bs[n] ELSE prv[x]]
        /\ num' = num + n
        /\ ret' = <<>>
        /\ q' = q \o bs

Next ==
    \/ popleft
    \/ \E n \in 1 .. NumBlocks : popleft_n(n)
    \/ \E b \in Blocks : remove(b)
    \/ \E b \in Blocks : append(b)
    \/ \E bs \in Lists : Distinct(bs) /\ append_n(bs)

Spec == Init /\ [][Next]_vars

-----------------------------------------------------------------------------
(* Properties *)

\* The types of the links, and the bounds of the num_free_blocks counter.
TypeOK ==
    /\ nxt \in [Nodes -> Nodes \cup {None}]
    /\ prv \in [Nodes -> Nodes \cup {None}]
    /\ num \in 0 .. NumBlocks
    /\ q \in Seq(Blocks)

\* The i-th stop of a walk over the queue q between the fake ends.
Stop(i) == IF i = 0 THEN FakeHead ELSE IF i = Len(q) + 1 THEN FakeTail ELSE q[i]

\* After every call the links describe exactly the queue q, in both
\* directions: each stop points to the next one and back, the fake ends are
\* never popped, every block outside has both links cleared, and the
\* num_free_blocks counter is the length of the list.
WellLinked ==
    /\ Distinct(q)
    /\ num = Len(q)
    /\ \A i \in 0 .. Len(q) : nxt[Stop(i)] = Stop(i + 1) /\ prv[Stop(i + 1)] = Stop(i)
    /\ nxt[FakeTail] = None /\ prv[FakeHead] = None
    /\ \A b \in Blocks : (\A i \in 1 .. Len(q) : q[i] # b) => Unlinked(b)

\* The "should not happen" branches are never reached: popleft sees an empty
\* list only with the counter at zero, the first block of a non-empty list has
\* a successor, and the tail always has a predecessor.
NoCallerError ==
    /\ (nxt[FakeHead] = FakeTail) <=> (num = 0)
    /\ nxt[FakeHead] # None
    /\ nxt[FakeHead] # FakeTail => nxt[nxt[FakeHead]] # None
    /\ prv[FakeTail] # None

Abstract == INSTANCE BlockQueue

\* Every call does to the list what the abstract queue does: the same blocks
\* come back in the same order and the counter is the queue's length.
ImplementsQueue == Abstract!QSpec
=============================================================================
