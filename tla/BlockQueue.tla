----------------------------- MODULE BlockQueue -----------------------------
(***************************************************************************)
(* What FreeKVCacheBlockQueue promises to BlockPool: a queue of distinct   *)
(* block ids with bulk operations at both ends and removal from the        *)
(* middle.  `ret' is what the last call returned and `num' the             *)
(* num_free_blocks attribute that callers read.                            *)
(***************************************************************************)
EXTENDS Integers, Sequences

CONSTANT NumBlocks

VARIABLES q, num, ret

qvars == <<q, num, ret>>

Blocks == 0 .. NumBlocks - 1

Lists == UNION {[1 .. n -> Blocks] : n \in 0 .. NumBlocks}

\* BlockPool only hands over lists of distinct blocks.
Distinct(s) == \A i, j \in 1 .. Len(s) : s[i] = s[j] => i = j

Queued(b) == \E i \in 1 .. Len(q) : q[i] = b

QInit ==
    /\ q = [i \in 1 .. NumBlocks |-> i - 1]
    /\ num = NumBlocks
    /\ ret = <<>>

QPopLeftN(n) ==
    /\ n <= Len(q)
    /\ q' = SubSeq(q, n + 1, Len(q))
    /\ num' = num - n
    /\ ret' = SubSeq(q, 1, n)

QRemove(i) ==
    /\ q' = SubSeq(q, 1, i - 1) \o SubSeq(q, i + 1, Len(q))
    /\ num' = num - 1
    /\ ret' = <<>>

QAppendN(bs) ==
    /\ Distinct(bs)
    /\ \A i \in 1 .. Len(bs) : ~Queued(bs[i])
    /\ q' = q \o bs
    /\ num' = num + Len(bs)
    /\ ret' = <<>>

QNext ==
    \/ \E n \in 1 .. NumBlocks : QPopLeftN(n)
    \/ \E i \in 1 .. Len(q) : QRemove(i)
    \/ \E bs \in Lists : QAppendN(bs)

QSpec == QInit /\ [][QNext]_qvars
=============================================================================
