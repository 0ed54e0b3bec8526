--------------------------- MODULE MCEncoderCache ---------------------------
(* Small instances of EncoderCache.                                        *)
EXTENDS EncoderCache

CONSTANTS a, b, d, w, x, y, z

\* x and y do not fit in a cache of four together; a has x twice.
MCSize == (w :> 1) @@ (x :> 2) @@ (y :> 3) @@ (z :> 1)

Item(h, o) == [hash |-> h, offset |-> o]

MCFeatures == (a :> <<Item(x, 1), Item(y, 3), Item(x, 6)>>)
              @@ (b :> <<Item(y, 0), Item(z, 3), Item(x, 5)>>)
              @@ (d :> <<Item(z, 1), Item(w, 2)>>)

MCPromptLen == (a :> 8) @@ (b :> 7) @@ (d :> 4)
=============================================================================
