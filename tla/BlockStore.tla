------------------------------ MODULE BlockStore ------------------------------
(***************************************************************************)
(* What the buffer cache promises: between bread() and brelse() a process  *)
(* has a block for itself, and it finds there what was last stored.        *)
(***************************************************************************)
CONSTANTS Procs, Blocks, Vals, NULL

VARIABLES contents, \* of every block
          holder    \* the process that has it

Acquire(p, b) ==
  /\ holder[b] = NULL
  /\ holder' = [holder EXCEPT ![b] = p]
  /\ UNCHANGED contents

Store(p, b, v) ==
  /\ holder[b] = p
  /\ contents' = [contents EXCEPT ![b] = v]
  /\ UNCHANGED holder

Release(p, b) ==
  /\ holder[b] = p
  /\ holder' = [holder EXCEPT ![b] = NULL]
  /\ UNCHANGED contents

Init == contents \in [Blocks -> Vals] /\ holder = [b \in Blocks |-> NULL]

Next ==
  \E p \in Procs, b \in Blocks :
    Acquire(p, b) \/ Release(p, b) \/ \E v \in Vals : Store(p, b, v)

Spec == Init /\ [][Next]_<<contents, holder>>
=============================================================================
