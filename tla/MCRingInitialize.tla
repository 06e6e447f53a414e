-------------------------- MODULE MCRingInitialize --------------------------
(* TLC instance of RingInitialize.  No symmetry: the run checks liveness.    *)
EXTENDS RingInitialize
=============================================================================
