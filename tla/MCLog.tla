-------------------------------- MODULE MCLog --------------------------------
(* Log for TLC *)
EXTENDS Log, TLC

Symmetry == Permutations(Procs) \union Permutations(Blocks) \union Permutations(Vals)
=============================================================================
