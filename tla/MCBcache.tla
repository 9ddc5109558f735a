------------------------------ MODULE MCBcache ------------------------------
(* Bcache for TLC *)
EXTENDS Bcache

Symmetry == Permutations(Procs) \union Permutations(Blocks) \union Permutations(Vals)
=============================================================================
