------------------------------- MODULE ClockRef -------------------------------
(***************************************************************************)
(* src/clock.c: the user-level CLOCK queue the kernel's was written after. *)
(* Its queue is a record as in ClockQueue; a slot whose vpn is -1 is an    *)
(* empty one, and vpn stands for the pointer to the page's entry, too.     *)
(***************************************************************************)
EXTENDS ClockQueue

CONSTANT Vpns  \* the pages of main()'s page table

VARIABLES clk,  \* clk_queue and clk_hand
          E, A  \* the pages whose entry has PTE_E, PTE_A; PTE_P is set
                \* exactly where PTE_E is not
vars == <<clk, E, A>>

clk_insert(v) ==
  LET i == VictimSlot(clk, A)
      out == IF Occupied(clk, i) THEN {clk.node[i].va} ELSE {}
  IN /\ clk' = Place(clk, i, v, v)
     /\ E' = (E \union out) \ {v}
     /\ A' = (A \ Cleared(clk, A)) \union {v}

\* a page that is present raises no fault, only its ref bit is set
do_ref_page(v) ==
  \/ v \notin E /\ A' = A \union {v} /\ UNCHANGED <<clk, E>>
  \/ v \in E /\ clk_insert(v)

\* mutant: the match is emptied in its place
clk_remove_InPlace(v) ==
  clk' = [node |-> [i \in Slots |-> IF clk.node[i].va = v
                                    THEN [clk.node[i] EXCEPT !.empty = -1]
                                    ELSE clk.node[i]],
          clock_hand |-> clk.clock_hand]

\* the slots from the match up to the tail, in ring order, move one slot left
clk_remove(v) ==
  LET tail == clk.clock_hand
      match == CHOOSE i \in Slots : Occupied(clk, i) /\ clk.node[i].va = v
      Dist(i) == (i - match) % CLOCKSIZE
  IN clk' = [node |-> [i \in Slots |->
               CASE i = tail -> [clk.node[i] EXCEPT !.empty = -1]
                 [] Dist(i) < Dist(tail) -> clk.node[(i + 1) % CLOCKSIZE]
                 [] OTHER -> clk.node[i]],
             clock_hand |-> IF tail = 0 THEN CLOCKSIZE - 1 ELSE tail - 1]

\* main() removes pages it referenced before; the page table is left alone
do_remove_page(v) ==
  /\ v \in Resident(clk)
  /\ clk_remove(v)
  /\ UNCHANGED <<E, A>>

\* clk_clear() and main()'s page table
Init == clk = cq_init /\ E = Vpns /\ A = {}

Next == \E v \in Vpns : do_ref_page(v) \/ do_remove_page(v)

Spec == Init /\ [][Next]_vars
-----------------------------------------------------------------------------
Abstract == INSTANCE SecondChance WITH
              Page <- Vpns, fifo <- Order(clk), ref <- A \intersect Resident(clk)

\* clock.c keeps a FIFO with second chances: the sweep of clk_insert() evicts
\* the right page and clk_remove()'s shifting keeps the order of the others.
ImplementsSecondChance == Abstract!Spec
=============================================================================
