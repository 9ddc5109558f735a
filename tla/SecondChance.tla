----------------------------- MODULE SecondChance -----------------------------
(***************************************************************************)
(* What a working-set queue promises: a FIFO of at most CLOCKSIZE pages in *)
(* which a page that was referenced since it was last passed over is given *)
(* a second chance.  fifo is the queue, head first; ref the pages of it    *)
(* that were referenced.  Both src/clock.c and the kernel's cq_enset() and *)
(* cq_remove() are meant to implement it.                                  *)
(***************************************************************************)
EXTENDS Integers, SequencesExt

CONSTANTS CLOCKSIZE, Page

VARIABLES fifo, ref

vars == <<fifo, ref>>

Members == ToSet(fifo)

Init == fifo = <<>> /\ ref = {}

\* pages of the queue are referenced
Touch == /\ fifo' = fifo
         /\ ref' \in SUBSET Members
         /\ ref \subseteq ref'

\* the number of pages at the head that use up their second chance, when the
\* referenced pages are r
Passed(r) == LET stop == {k \in 1 .. Len(fifo) : fifo[k] \notin r}
             IN IF stop = {} THEN Len(fifo) ELSE Min(stop) - 1

\* a page comes in, after the references T; when the queue is full the pages
\* passed over go to the tail and the one then at the head leaves
Insert(p, T) ==
  /\ p \in Page \ Members
  /\ T \subseteq Members
  /\ LET r == ref \union T
         k == Passed(r)
         turned == SubSeq(fifo, k + 1, Len(fifo)) \o SubSeq(fifo, 1, k)
     IN IF Len(fifo) < CLOCKSIZE
        THEN fifo' = Append(fifo, p) /\ ref' = r \union {p}
        ELSE /\ fifo' = Append(Tail(turned), p)
             /\ ref' = (r \ {fifo[j] : j \in 1 .. k}) \union {p}

\* a page is deallocated: the others keep their order
Leave(p) == /\ p \in Members
            /\ fifo' = Remove(fifo, p)
            /\ ref' = ref \ {p}

\* exec() starts over
Clear == fifo' = <<>> /\ ref' = {}

Next == \/ Touch
        \/ \E p \in Page, T \in SUBSET Members : Insert(p, T)
        \/ \E p \in Page : Leave(p)
        \/ Clear

Spec == Init /\ [][Next]_vars
=============================================================================
