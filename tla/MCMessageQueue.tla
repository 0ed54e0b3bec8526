--------------------------- MODULE MCMessageQueue ---------------------------
(***************************************************************************)
(* An instance of MessageQueue for TLC: a worker that waits without a      *)
(* limit, and a reader with a timeout, as the executor is.                 *)
(***************************************************************************)
EXTENDS MessageQueue
=============================================================================
