----------------------------- MODULE MCMemEncrypt -----------------------------
(* MemEncrypt for TLC *)
EXTENDS MemEncrypt

OnePage == {<<p>> : p \in Pages}
WholePages == {PGSIZE, 2 * PGSIZE, -PGSIZE, -2 * PGSIZE}
=============================================================================
