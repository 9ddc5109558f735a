------------------------------ MODULE MCFileSys ------------------------------
(* FileSys for TLC *)
EXTENDS FileSys, TLC

CONSTANTS a, b

\* an entry of the root directory, and one of a directory in it
MCPaths == {[abs |-> TRUE, names |-> <<a>>], [abs |-> FALSE, names |-> <<b>>]}
Symmetry == Permutations(Procs)
=============================================================================
