------------------------------ MODULE Umalloc ------------------------------
(***************************************************************************)
(* The user-level memory allocator, umalloc.c: a circular list of free     *)
(* blocks, each with a header that has its size and the next block.        *)
(*                                                                         *)
(* Addresses count units of sizeof(Header).  The static header "base" is   *)
(* below the heap, which the kernel extends at brk (sbrk(), external); the *)
(* program may call sbrk() itself, so the heap has gaps.                   *)
(***************************************************************************)
EXTENDS Integers, FiniteSets

CONSTANTS HEAP,      \* brk when the program starts
          MAXBRK,    \* sbrk() fails beyond it
          MINCORE,   \* 4096 units, the least that morecore() asks for
          Sizes      \* units the program asks for, the header included

base == 0
Addrs == {base} \union HEAP..MAXBRK-1

VARIABLES hdr,     \* the header at each address, stale ones included
          freep,   \* -1 before the first malloc(): the C program's null pointer
          brk,
          given,   \* history: the blocks malloc() has returned and free() not taken back
          own      \* history: what the program got from sbrk() itself

vars == <<hdr, freep, brk, given, own>>
-----------------------------------------------------------------------------
(* h is [hdr, freep]: the static data and the heap of the program *)

\* the block after which free() puts bp
RECURSIVE Place(_, _, _)
Place(h, bp, p) ==
  LET next == h.hdr[p].ptr
  IN IF (bp > p /\ bp < next) \/ (p >= next /\ (bp > p \/ bp < next)) THEN p
     ELSE Place(h, bp, next)

\* mutant: a block is not joined to the free block below it
free_NoLower(h, bp) ==
  LET p == Place(h, bp, h.freep)
      next == h.hdr[p].ptr
      up == IF bp + h.hdr[bp].size = next
            THEN [h.hdr EXCEPT ![bp] = [size |-> @.size + h.hdr[next].size,
                                        ptr |-> h.hdr[next].ptr]]
            ELSE [h.hdr EXCEPT ![bp].ptr = next]
  IN [hdr |-> [up EXCEPT ![p].ptr = bp], freep |-> p]

free(h, bp) ==
  LET p == Place(h, bp, h.freep)
      next == h.hdr[p].ptr
      up == IF bp + h.hdr[bp].size = next
            THEN [h.hdr EXCEPT ![bp] = [size |-> @.size + h.hdr[next].size,
                                        ptr |-> h.hdr[next].ptr]]
            ELSE [h.hdr EXCEPT ![bp].ptr = next]
      low == IF p + up[p].size = bp
             THEN [up EXCEPT ![p] = [size |-> @.size + up[bp].size, ptr |-> up[bp].ptr]]
             ELSE [up EXCEPT ![p].ptr = bp]
  IN [hdr |-> low, freep |-> p]

Units(nu) == IF nu < MINCORE THEN MINCORE ELSE nu

\* morecore() when sbrk() gives it the units at brk
morecore(h, nu) == free([h EXCEPT !.hdr[brk].size = Units(nu)], brk)

\* the first block that is large enough, as its predecessor; -1 after a whole round
RECURSIVE Fit(_, _, _)
Fit(h, prevp, nunits) ==
  LET p == h.hdr[prevp].ptr
  IN IF h.hdr[p].size >= nunits THEN prevp
     ELSE IF p = h.freep THEN -1 ELSE Fit(h, p, nunits)

\* malloc() takes nunits from the block after prevp: all of it, or its upper end
Take(h, prevp, nunits) ==
  LET p == h.hdr[prevp].ptr
      q == p + h.hdr[p].size - nunits
  IN IF h.hdr[p].size = nunits
     THEN [h |-> [hdr |-> [h.hdr EXCEPT ![prevp].ptr = h.hdr[p].ptr], freep |-> prevp],
           block |-> p]
     ELSE [h |-> [hdr |-> [h.hdr EXCEPT ![p].size = @ - nunits, ![q].size = nunits],
                  freep |-> prevp],
           block |-> q]

\* the list when malloc() starts to search it
First == IF freep = -1
         THEN [hdr |-> [hdr EXCEPT ![base] = [ptr |-> base, size |-> 0]], freep |-> base]
         ELSE [hdr |-> hdr, freep |-> freep]
-----------------------------------------------------------------------------
\* malloc() returns the block of t and leaves t's list
Give(t) == hdr' = t.h.hdr /\ freep' = t.h.freep /\ given' = given \union {t.block}

malloc(nunits) ==
  LET fit == Fit(First, First.freep, nunits)
      grown == morecore(First, nunits)
  IN /\ \/ /\ fit # -1
           /\ Give(Take(First, fit, nunits))
           /\ brk' = brk
        \/ /\ fit = -1 /\ brk + Units(nunits) <= MAXBRK
           /\ Give(Take(grown, Fit(grown, grown.freep, nunits), nunits))
           /\ brk' = brk + Units(nunits)
        \/ /\ fit = -1 /\ brk + Units(nunits) > MAXBRK  \* sbrk() fails: malloc() returns 0
           /\ hdr' = First.hdr /\ freep' = First.freep
           /\ UNCHANGED <<brk, given>>
     /\ own' = own

free_block(b) ==
  LET t == free([hdr |-> hdr, freep |-> freep], b)
  IN /\ b \in given
     /\ hdr' = t.hdr /\ freep' = t.freep
     /\ given' = given \ {b}
     /\ UNCHANGED <<brk, own>>

\* the program moves brk by one unit for itself
sbrk ==
  /\ brk < MAXBRK
  /\ own' = own \union {brk} /\ brk' = brk + 1
  /\ UNCHANGED <<hdr, freep, given>>

Init ==
  /\ hdr = [a \in Addrs |-> [ptr |-> base, size |-> 0]]
  /\ freep = -1 /\ brk = HEAP /\ given = {} /\ own = {}

Next ==
  \/ sbrk
  \/ \E n \in Sizes : malloc(n)
  \/ \E b \in Addrs : free_block(b)

Spec == Init /\ [][Next]_vars
-----------------------------------------------------------------------------
\* the free blocks: those the list reaches from base
RECURSIVE ListFrom(_)
ListFrom(p) == IF p = base THEN {} ELSE {p} \union ListFrom(hdr[p].ptr)

FreeBlocks == IF freep = -1 THEN {} ELSE ListFrom(hdr[base].ptr)

Extent(b) == b..b + hdr[b].size - 1

\* Every unit of the heap is in exactly one block: a free one, one the program has, or
\* its own memory; so malloc() gives no unit twice and free() loses none, also when the
\* program's sbrk() calls leave gaps.  The list is in the order of the addresses, two
\* neighbours on it never touch (free() has joined them), and freep is on it.
HeapPartitioned ==
  LET all == FreeBlocks \union given
  IN /\ FreeBlocks \intersect given = {}
     /\ HEAP..brk-1 = own \union UNION {Extent(b) : b \in all}
     /\ \A b, c \in all : Extent(b) \intersect Extent(c) # {} => b = c
     /\ \A b \in all : Extent(b) # {} /\ Extent(b) \intersect own = {}
     /\ \A b \in FreeBlocks : hdr[b].ptr = base \/ hdr[b].ptr > b + hdr[b].size
     /\ freep \in FreeBlocks \union {base, -1}
=============================================================================
