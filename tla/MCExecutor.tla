----------------------------- MODULE MCExecutor -----------------------------
(***************************************************************************)
(* Instances of Executor for TLC: a pipeline of two workers, the second of *)
(* which answers.                                                          *)
(***************************************************************************)
EXTENDS Executor

MCFails == {<<"execute_model", 1>>, <<"utility", 0>>}
MCFailsPass == {<<"execute_model", 1>>}
MCFailsUtility == {<<"utility", 0>>}
MCFailsSilent == {<<"execute_model", 0>>}
=============================================================================
