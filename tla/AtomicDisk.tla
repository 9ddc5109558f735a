------------------------------ MODULE AtomicDisk ------------------------------
(***************************************************************************)
(* What the log of src/src/log.c promises to the file system: the blocks   *)
(* that operations write become durable all at once, at moments when no    *)
(* operation is open, and a crash brings back the durable contents.        *)
(***************************************************************************)
CONSTANTS Procs, Blocks, Vals

VARIABLES mem,    \* what a read of a block returns
          stable, \* what a crash leaves of it
          open    \* the operations between begin_op() and end_op()

vars == <<mem, stable, open>>

Init ==
  /\ mem \in [Blocks -> Vals]
  /\ stable = mem
  /\ open = {}

Begin(p) == open' = open \union {p} /\ UNCHANGED <<mem, stable>>

End(p) == open' = open \ {p} /\ UNCHANGED <<mem, stable>>

Write(p, b, v) ==
  /\ p \in open
  /\ mem' = [mem EXCEPT ![b] = v]
  /\ UNCHANGED <<stable, open>>

Commit == open = {} /\ stable' = mem /\ UNCHANGED <<mem, open>>

Crash == mem' = stable /\ open' = {} /\ UNCHANGED stable

Next ==
  \/ \E p \in Procs : Begin(p) \/ End(p) \/ \E b \in Blocks, v \in Vals : Write(p, b, v)
  \/ Commit \/ Crash

Spec == Init /\ [][Next]_vars
=============================================================================
