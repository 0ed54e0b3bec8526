---------------------------- MODULE MCScheduler ----------------------------
(***************************************************************************)
(* Instances of Scheduler for TLC.                                         *)
(***************************************************************************)
EXTENDS Scheduler

Full(size) == [kind |-> "full", block_size |-> size, window |-> 1]
MCFull == <<Full(1)>>
MCFull2 == <<Full(2)>>

\* Two requests with a common first token.
MCTokens == <<<<"a", "b", "c", "d">>, <<"a", "e", "f", "g">>>>
MCPromptLen == <<2, 2>>
MCPriority == <<1, 0>>

\* Long generations.
MCTokens5 == <<<<"a", "b", "c", "d", "e", "f">>, <<"a", "b", "g", "h", "i", "j">>>>
MCPromptLen5 == <<2, 3>>

\* A long prompt of low priority and a short one.
MCTokensLong == <<<<"a", "b", "c", "d", "e", "f", "g", "h">>, <<"i", "j", "k", "l">>>>
MCPromptLenLong == <<7, 2>>
=============================================================================
