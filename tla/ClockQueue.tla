------------------------------ MODULE ClockQueue ------------------------------
(***************************************************************************)
(* The per-process working-set queue of src/src/vm.c: struct proc's array  *)
(* cq[CLOCKSIZE] and its clock_hand.  A queue is a record                  *)
(*    [node |-> the array, clock_hand |-> -1 or a slot];                   *)
(* a node is a cq_node: empty is -1 for an empty slot and 0 otherwise, va  *)
(* is the page the slot was filled for, pte the pointer to its page-table  *)
(* entry.  The operators below take the pointers whose entry has PTE_A set *)
(* as a set, because the bits live in the page table and not in the queue. *)
(***************************************************************************)
EXTENDS Integers, Sequences, FiniteSetsExt

CONSTANTS CLOCKSIZE, \* number of slots of the ring
          NULL       \* the null pointer

ASSUME ClockSizeAssumption == CLOCKSIZE \in Nat \ {0}

Slots == 0 .. CLOCKSIZE - 1

cq_init == [node |-> [i \in Slots |-> [empty |-> -1, va |-> 0, pte |-> NULL]],
            clock_hand |-> -1]

\* queues over pages Va and pointers Ptr
QueueType(Va, Ptr) ==
  [node : [Slots -> [empty : {-1, 0}, va : Va, pte : Ptr \union {NULL}]],
   clock_hand : -1 .. CLOCKSIZE - 1]

Occupied(q, i) == q.node[i].empty # -1

Resident(q) == {q.node[i].pte : i \in {j \in Slots : Occupied(q, j)}}

-----------------------------------------------------------------------------
(* cq_enset: the sweep of the hand *)

\* the slot the hand is at after its k-th advance
Advance(q, k) == (q.clock_hand + k) % CLOCKSIZE

\* the k-th advance ends the sweep: an empty slot, or an entry whose PTE_A is
\* clear, either from the start or because this very sweep cleared it
Stops(q, A, k) ==
  \/ ~Occupied(q, Advance(q, k))
  \/ q.node[Advance(q, k)].pte \notin A
  \/ \E j \in 1 .. k - 1 : q.node[Advance(q, j)].pte = q.node[Advance(q, k)].pte

SweepLength(q, A) ==
  CHOOSE k \in 1 .. CLOCKSIZE + 1 :
    Stops(q, A, k) /\ \A j \in 1 .. k - 1 : ~Stops(q, A, j)

\* mutant: the hand is not advanced
VictimSlot_NoAdvance(q, A) == IF q.clock_hand = -1 THEN 0 ELSE q.clock_hand

VictimSlot(q, A) == Advance(q, SweepLength(q, A))

\* mutant: the sweep clears nothing
Cleared_None(q, A) == {}

\* the entries whose PTE_A the sweep clears on its way
Cleared(q, A) ==
  {q.node[Advance(q, j)].pte : j \in 1 .. SweepLength(q, A) - 1}

\* the queue after the page va, with entry pte, took slot i
Place(q, i, va, pte) ==
  [node |-> [q.node EXCEPT ![i] = [empty |-> 0, va |-> va, pte |-> pte]],
   clock_hand |-> i]

-----------------------------------------------------------------------------
(* cq_remove: the first slot that holds the pointer, empty or not, is      *)
(* closed by shifting the slots up to the hand to the left.                *)

Matches(q, pte) == {i \in Slots : q.node[i].pte = pte}

\* The shift counts i upwards from the match until it equals the hand,
\* without the modulus: a match beyond the hand never meets it, and the loop
\* writes past the end of cq[].
RunsAway(q, pte) ==
  Matches(q, pte) # {} /\ Min(Matches(q, pte)) > q.clock_hand

ShiftLeft(q, del) ==
  [i \in Slots |-> CASE i >= del /\ i < q.clock_hand -> q.node[i + 1]
                     [] i = q.clock_hand -> [q.node[i] EXCEPT !.empty = -1]
                     [] OTHER -> q.node[i]]

cq_remove(q, pte) ==
  IF Matches(q, pte) = {}
  THEN q
  ELSE [node |-> ShiftLeft(q, Min(Matches(q, pte))),
        clock_hand |-> IF q.clock_hand = 0 THEN CLOCKSIZE - 1
                                           ELSE q.clock_hand - 1]
-----------------------------------------------------------------------------
\* The queue in the order clk_print() of src/clock.c shows it: from the slot
\* after the hand round to the hand, empty slots left out.
Order(q) ==
  SelectSeq([k \in 1 .. CLOCKSIZE |->
               LET n == q.node[Advance(q, k)]
               IN IF n.empty = -1 THEN NULL ELSE n.pte],
            LAMBDA x : x # NULL)

\* no pointer is in two occupied slots
Distinct(q) ==
  \A i, j \in Slots : Occupied(q, i) /\ Occupied(q, j) /\ i # j
                        => q.node[i].pte # q.node[j].pte
=============================================================================
