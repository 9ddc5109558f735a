------------------------------ MODULE WorkingSet ------------------------------
(***************************************************************************)
(* The working-set queue of a process implements SecondChance.             *)
(***************************************************************************)
EXTENDS MemEncrypt

Abstract == INSTANCE SecondChance WITH
              Page <- Pages, fifo <- Order(m.q), ref <- m.A \intersect Resident(m.q)

\* The kernel's queue is a FIFO with second chances, as src/clock.c's is:
\* cq_enset() evicts the page that is due, and cq_remove() takes out the page
\* that is deallocated and keeps the order of the others.
ImplementsSecondChance == Abstract!Spec
=============================================================================
