-------------------------- MODULE MCKVCacheSystem --------------------------
(***************************************************************************)
(* Small instances of KVCacheSystem: requests that share a prefix, in one  *)
(* pool too small for all of them.                                         *)
(***************************************************************************)
EXTENDS KVCacheSystem

Full(size) == [kind |-> "full", block_size |-> size, window |-> 1]
Sliding(size, window) == [kind |-> "sliding", block_size |-> size, window |-> window]
Chunked(size, window) == [kind |-> "chunked", block_size |-> size, window |-> window]

MCFull == <<Full(1)>>
MCSliding == <<Sliding(1, 3)>>
MCSliding3 == <<Sliding(2, 3)>>
MCFullSliding3 == <<Full(1), Sliding(1, 3)>>
MCSlidingChunked == <<Sliding(1, 3), Chunked(1, 2)>>

\* Requests are numbers.
MCTokens == <<<<1, 1, 1, 1>>, <<1, 1, 2, 2>>>>
MCPromptLen == <<3, 3>>
MCTokens5 == <<<<1, 1, 1, 1, 1, 1>>, <<1, 1, 1, 2, 2, 2>>>>
MCPromptLen5 == <<4, 4>>
MCTokensFork == <<<<1, 1, 1, 1>>, <<1, 2, 2, 2>>>>
MCTokensApart == <<<<1, 1, 1, 1>>, <<2, 2, 2, 2>>>>
MCTokensOne == <<<<1, 1, 1, 1, 1, 1>>>>
MCPromptLenShort == <<2, 2>>
=============================================================================
