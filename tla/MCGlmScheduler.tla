--------------------------- MODULE MCGlmScheduler ---------------------------
EXTENDS GlmScheduler, TLC

MCIntOf == ("0" :> 0) @@ ("-1" :> -1) @@ ("2" :> 2) @@ ("4" :> 4)

Symmetry == Permutations(Requests)
=============================================================================
