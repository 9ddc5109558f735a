------------------------------- MODULE ForkMem -------------------------------
(***************************************************************************)
(* The page tables and working-set queues of several processes: page       *)
(* faults, fork(), exec(), exit(), wait() and kill() on several CPUs.      *)
(*                                                                         *)
(* A queue's pte pointers are pairs <<frame, page>>: the frame that holds  *)
(* the page table and the entry in it.  Frames are allocated and freed, so *)
(* a pointer can outlive the table it points into.  All processes have the *)
(* same pages; their contents and sizes are MemEncrypt's subject.  A       *)
(* process takes one step at a time and is at any moment preempted or runs *)
(* beside the others.                                                      *)
(***************************************************************************)
EXTENDS ClockQueue, SequencesExt

CONSTANTS Procs,    \* slots of ptable
          initproc, \* one of them
          Frames,   \* frames kalloc() hands out for page tables
          NPAGES    \* pages of a process

ASSUME ProcsAssumption == initproc \in Procs /\ Frames # {} /\ NPAGES \in Nat \ {0}

Pages == 0 .. NPAGES - 1

VARIABLES state,   \* proc->state; RUNNABLE also stands for RUNNING and SLEEPING
          parent,  \* proc->parent
          killed,  \* proc->killed
          pgdir,   \* proc->pgdir: a frame or NULL
          cq,      \* proc->cq and proc->clock_hand
          tbl,     \* the entries in each frame: the pages with PTE_P, PTE_E, PTE_A
          forking, \* the child a process in fork() made, NULL if none
          wild     \* cq_remove() has left its array, or cq_enset() followed a null
                   \* pointer: nothing is known any more

vars == <<state, parent, killed, pgdir, cq, tbl, forking, wild>>

\* kfree() fills a frame with a pattern in which PTE_A is clear
Junk == [P |-> Pages, E |-> {}, A |-> {}]

FreeFrames == Frames \ {pgdir[p] : p \in Procs}

\* the pointers whose entry has PTE_A
Referenced == UNION {{<<f, v>> : v \in tbl[f].A} : f \in Frames}

\* p is in user mode, on some CPU or about to be
Running(p) == state[p] = "RUNNABLE" /\ forking[p] = NULL /\ ~wild

\* a system call of a process that is not killed; the page with the instruction
\* that makes it is decrypted
Calls(p) == Running(p) /\ ~killed[p] /\ tbl[pgdir[p]].P # {}
-----------------------------------------------------------------------------
\* exit(): the children go to init
Exits(p) ==
  /\ state' = [state EXCEPT ![p] = "ZOMBIE"]
  /\ parent' = [c \in Procs |-> IF parent[c] = p THEN initproc ELSE parent[c]]

exit(p) ==
  /\ Running(p) /\ p # initproc
  /\ killed[p] \/ Calls(p)
  /\ Exits(p)
  /\ UNCHANGED <<killed, pgdir, cq, tbl, forking, wild>>

\* the MMU sets PTE_A
Touch(p, v) ==
  /\ Running(p) /\ v \in tbl[pgdir[p]].P
  /\ tbl' = [tbl EXCEPT ![pgdir[p]].A = @ \union {v}]
  /\ UNCHANGED <<state, parent, killed, pgdir, cq, forking, wild>>

\* mencrypt() of page v of p, in the tables t
Encrypted(t, p, v) ==
  [t EXCEPT ![pgdir[p]].P = @ \ {v}, ![pgdir[p]].E = @ \union {v}]

\* mutant: the victim is found through its pte pointer instead of its address
EvictedFrom_Pointer(t, p, i) ==
  IF Occupied(cq[p], i)
  THEN LET ptr == cq[p].node[i].pte IN
       [t EXCEPT ![ptr[1]].P = @ \ {ptr[2]}, ![ptr[1]].E = @ \union {ptr[2]}]
  ELSE t

\* the victim in slot i is encrypted through its virtual address
EvictedFrom(t, p, i) ==
  IF Occupied(cq[p], i) THEN Encrypted(t, p, cq[p].node[i].va) ELSE t

\* trap(), mdecrypt() and cq_enset(): the sweep reads and clears PTE_A through
\* the pointers in the queue, whichever table they point into; what it reads
\* through a null pointer is not known
Decrypts(p, v) ==
  LET f == pgdir[p]
      present == [tbl EXCEPT ![f].P = @ \union {v}, ![f].E = @ \ {v},
                             ![f].A = @ \union {v}]
      Aset == Referenced \union {<<f, v>>}
      i == VictimSlot(cq[p], Aset)
      swept == [g \in Frames |->
                  [present[g] EXCEPT !.A = {x \in @ : <<g, x>> \notin Cleared(cq[p], Aset)}]]
  IN IF <<f, v>> \in Resident(cq[p])
     THEN tbl' = present /\ UNCHANGED <<cq, wild>>
     ELSE IF Occupied(cq[p], i) /\ cq[p].node[i].pte = NULL
     THEN wild' = TRUE /\ UNCHANGED <<cq, tbl>>
     ELSE /\ tbl' = EvictedFrom(swept, p, i)
          /\ cq' = [cq EXCEPT ![p] = Place(@, i, v, <<f, v>>)]
          /\ wild' = wild

\* a process that was killed exits at the end of the trap
Fault(p, v) ==
  /\ Running(p) /\ v \in tbl[pgdir[p]].E
  /\ Decrypts(p, v)
  /\ IF killed[p] THEN Exits(p) ELSE UNCHANGED <<state, parent>>
  /\ UNCHANGED <<killed, pgdir, forking>>

\* mencrypt() of one page
sys_mencrypt(p, v) ==
  /\ Calls(p) /\ v \in tbl[pgdir[p]].P
  /\ tbl' = Encrypted(tbl, p, v)
  /\ UNCHANGED <<state, parent, killed, pgdir, cq, forking, wild>>
-----------------------------------------------------------------------------
(* freevm(): deallocuvm() takes every page of the table out of the queue of *)
(* the process that runs, whose table it need not be.                      *)

\* the queue q, and whether cq_remove() ran away, after the first k pages of
\* frame f were deallocated
Deallocated(q, f, k) ==
  LET Step(r, v) == IF r.away \/ RunsAway(r.q, <<f, v>>)
                    THEN [r EXCEPT !.away = TRUE]
                    ELSE [r EXCEPT !.q = cq_remove(@, <<f, v>>)]
  IN FoldLeft(Step, [q |-> q, away |-> FALSE], [n \in 1 .. k |-> n - 1])

freevm(p, q, f, k) ==
  LET r == Deallocated(q, f, k)
  IN /\ cq' = [cq EXCEPT ![p] = r.q]
     /\ wild' = r.away
-----------------------------------------------------------------------------
(* fork() *)

\* allocproc() and copyuvm(); the child's queue is what the slot's last
\* process left there
fork(p, c, f) ==
  /\ Calls(p)
  /\ state[c] = "UNUSED" /\ f \in FreeFrames
  /\ state' = [state EXCEPT ![c] = "EMBRYO"]
  /\ pgdir' = [pgdir EXCEPT ![c] = f]
  /\ tbl' = [tbl EXCEPT ![f] = tbl[pgdir[p]]]
  /\ parent' = [parent EXCEPT ![c] = p]
  /\ forking' = [forking EXCEPT ![p] = c]
  /\ UNCHANGED <<killed, cq, wild>>

\* np->state = RUNNABLE: from here on the child may run
fork_runnable(p) ==
  /\ forking[p] # NULL /\ state[forking[p]] = "EMBRYO" /\ ~wild
  /\ state' = [state EXCEPT ![forking[p]] = "RUNNABLE"]
  /\ UNCHANGED <<parent, killed, pgdir, cq, tbl, forking, wild>>

\* the queue is copied, pointers into the parent's table and all
fork_copies_queue(p) ==
  /\ forking[p] # NULL /\ state[forking[p]] # "EMBRYO" /\ ~wild
  /\ cq' = [cq EXCEPT ![forking[p]] = cq[p]]
  /\ forking' = [forking EXCEPT ![p] = NULL]
  /\ UNCHANGED <<state, parent, killed, pgdir, tbl, wild>>

\* copyuvm() in fork(), or loading the image in exec(), fails when k pages are
\* in the new table: it is freed again
vm_fails(p, f, k) ==
  /\ Calls(p) /\ f \in FreeFrames
  /\ freevm(p, cq[p], f, k)
  /\ tbl' = [tbl EXCEPT ![f] = Junk]
  /\ UNCHANGED <<state, parent, killed, pgdir, forking>>
-----------------------------------------------------------------------------
\* exec(): an empty queue, a table of encrypted pages, and the old one freed
exec(p, f) ==
  /\ Calls(p) /\ f \in FreeFrames
  /\ pgdir' = [pgdir EXCEPT ![p] = f]
  /\ tbl' = [tbl EXCEPT ![f] = [P |-> {}, E |-> Pages, A |-> Pages],
                        ![pgdir[p]] = Junk]
  /\ freevm(p, cq_init, pgdir[p], NPAGES)
  /\ UNCHANGED <<state, parent, killed, forking>>

\* wait() frees the table of a zombie child; a process killed in wait() may
\* still find one
wait(p, c) ==
  /\ Running(p) /\ tbl[pgdir[p]].P # {}
  /\ parent[c] = p /\ state[c] = "ZOMBIE"
  /\ freevm(p, cq[p], pgdir[c], NPAGES)
  /\ tbl' = [tbl EXCEPT ![pgdir[c]] = Junk]
  /\ pgdir' = [pgdir EXCEPT ![c] = NULL]
  /\ parent' = [parent EXCEPT ![c] = NULL]
  /\ killed' = [killed EXCEPT ![c] = FALSE]
  /\ state' = [state EXCEPT ![c] = "UNUSED"]
  /\ UNCHANGED forking

\* kill() empties the queue of its victim, wherever the victim is; it finds an UNUSED
\* slot as well, by a pid of 0 or the pid of a fork() that failed; without init the
\* system panics
kill(p, t) ==
  /\ Calls(p) /\ t # initproc
  /\ killed' = [killed EXCEPT ![t] = TRUE]
  /\ cq' = [cq EXCEPT ![t] = cq_init]
  /\ UNCHANGED <<state, parent, pgdir, tbl, forking, wild>>
-----------------------------------------------------------------------------
\* init has executed its image; a slot never used has a queue of zeroes
Init ==
  \E f \in Frames :
    /\ state = [p \in Procs |-> IF p = initproc THEN "RUNNABLE" ELSE "UNUSED"]
    /\ parent = [p \in Procs |-> NULL]
    /\ killed = [p \in Procs |-> FALSE]
    /\ pgdir = [p \in Procs |-> IF p = initproc THEN f ELSE NULL]
    /\ cq = [p \in Procs |->
               IF p = initproc THEN cq_init
               ELSE [node |-> [i \in Slots |-> [empty |-> 0, va |-> 0, pte |-> NULL]],
                     clock_hand |-> 0]]
    /\ tbl = [g \in Frames |-> IF g = f THEN [P |-> {}, E |-> Pages, A |-> Pages]
                               ELSE Junk]
    /\ forking = [p \in Procs |-> NULL]
    /\ wild = FALSE

Next ==
  \E p \in Procs :
    \/ \E v \in Pages : Touch(p, v) \/ Fault(p, v) \/ sys_mencrypt(p, v)
    \/ \E c \in Procs, f \in Frames : fork(p, c, f)
    \/ fork_runnable(p) \/ fork_copies_queue(p)
    \/ \E f \in Frames, k \in 0 .. NPAGES - 1 : vm_fails(p, f, k)
    \/ \E f \in Frames : exec(p, f)
    \/ exit(p)
    \/ \E c \in Procs : wait(p, c) \/ kill(p, c)

Spec == Init /\ [][Next]_vars
-----------------------------------------------------------------------------
(* Properties *)

\* Although a child's queue points into its parent's page table, a step of one
\* process never encrypts or decrypts a page of another: the victim of
\* cq_enset() is encrypted through its address.
OneTableChanges ==
  [][\A p, r \in Procs :
       LET Flags(x) == <<tbl[pgdir[x]].P, tbl[pgdir[x]].E>>
           Keeps(x) == pgdir[x] # NULL /\ pgdir'[x] = pgdir[x]
       IN Keeps(p) /\ Keeps(r) /\ Flags(p)' # Flags(p) /\ Flags(r)' # Flags(r)
            => p = r]_vars

\* every decrypted page of p is in p's queue
Covered(p) ==
  \A v \in tbl[pgdir[p]].P :
    \E i \in Slots : Occupied(cq[p], i) /\ cq[p].node[i].va = v

\* When fork() has copied the queue of a process whose decrypted pages are all
\* queued, those of the child are queued as well: the child has not run on its
\* own queue before the copy replaced it.
ForkedQueued ==
  [][\A p, c \in Procs :
       /\ forking[p] = c /\ forking'[p] = NULL
       /\ state[c] = "RUNNABLE" /\ ~killed[c] /\ Covered(p)
       => Covered(c)']_vars
=============================================================================
