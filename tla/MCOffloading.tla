---------------------------- MODULE MCOffloading ----------------------------
(***************************************************************************)
(* Small instances of Offloading: requests that cannot all be in the GPU   *)
(* at once, so that some are preempted and loaded again.                   *)
(***************************************************************************)
EXTENDS Offloading

CONSTANTS A, B, C, t1, t2, t3, t4

\* A shared first block; the pool has room for the first two of each.
MCTokens == (A :> <<t1, t2, t3, t4>>) @@ (B :> <<t1, t3, t4, t2>>)
MCPromptLen == (A :> 2) @@ (B :> 2)

\* C shares the first offloaded block of B, for Factor = 2.
MCTokensWide ==
    (A :> <<t1, t2, t3, t4, t1, t2>>) @@ (B :> <<t2, t1, t4, t3, t1, t2>>) @@ (C :> <<t2, t1, t4, t1>>)
MCPromptLenWide == (A :> 2) @@ (B :> 4) @@ (C :> 3)

\* Two requests that are loaded at the same time.
MCTokensTwo == (A :> <<t1, t2, t3, t4>>) @@ (B :> <<t3, t4, t2, t1>>) @@ (C :> <<t3, t4, t1>>)
MCPromptLenTwo == (A :> 2) @@ (B :> 2) @@ (C :> 2)
=============================================================================
