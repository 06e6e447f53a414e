-------------------------- MODULE MCGfxRenderCaps --------------------------
(* TLC instances of GfxRenderCaps.                                            *)
EXTENDS GfxRenderCaps, TLC

\* Threads, renderers, configs and outputs are each interchangeable.
CapsSymmetry ==
    Permutations(Threads) \cup Permutations(Renderers) \cup Permutations(Configs)
        \cup Permutations(Outputs)
=============================================================================
