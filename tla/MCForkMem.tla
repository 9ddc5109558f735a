------------------------------ MODULE MCForkMem ------------------------------
(* ForkMem for TLC *)
EXTENDS ForkMem

Symmetry == Permutations(Frames)
=============================================================================
