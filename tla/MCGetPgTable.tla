---------------------------- MODULE MCGetPgTable ----------------------------
(* GetPgTable, with the process that calls it, for TLC *)
EXTENDS GetPgTable

\* instructions that touch one page, or two
TwoPages == {<<p, r>> : p, r \in ImagePages \union {Guard + 2}}
Grow == {PGSIZE}
=============================================================================
