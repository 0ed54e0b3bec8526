--------------------------- MODULE MCDataParallel ---------------------------
(***************************************************************************)
(* Instances of DataParallel for TLC.                                      *)
(***************************************************************************)
EXTENDS DataParallel
=============================================================================
