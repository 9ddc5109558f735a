-------------------------------- MODULE Boot --------------------------------
(***************************************************************************)
(* How the machine starts (main.c, entryother.S) and the allocator of      *)
(* physical pages (kalloc.c), which takes no lock until kinit2() is done.  *)
(*                                                                         *)
(* The list of free pages is modelled by its head and the pointers in the  *)
(* free pages, and kalloc() and kfree() by their single reads and writes.  *)
(* CPU 0 is the boot processor.  userinit() makes the first process        *)
(* runnable; from then on any CPU in scheduler() may run kernel code that  *)
(* allocates and frees pages.                                              *)
(***************************************************************************)
EXTENDS Integers, FiniteSets

CONSTANTS NCPU,
          LowPages,    \* the pages below 4MB, given to kinit1()
          HighPages    \* the others, given to kinit2()

Cpus == 0..NCPU-1
Pages == LowPages \union HighPages
NONE == 0              \* the null pointer; pages are numbered from 1

VARIABLES freelist, next,  \* kmem.freelist, and r->next of each page
          use_lock, lock,  \* kmem.use_lock; the CPU that has kmem.lock, or -1
          k,               \* the kalloc() or kfree() a CPU is in: operation, step, page
          at,              \* what each CPU executes outside kmem
          todo,            \* the pages freerange() still has to free
          ap,              \* the CPU that startothers() is starting
          code4,           \* the word at code-4: the stack for that CPU
          stack, started,  \* the stack that each CPU runs on; c->started
          procs,           \* there are processes to run
          kpgdir,          \* the kernel's page table, one page here
          held             \* the pages that kernel code has allocated, for each CPU

vars == <<freelist, next, use_lock, lock, k, at, todo, ap, code4, stack, started, procs, kpgdir,
          held>>
kmem == <<freelist, next, use_lock, lock, k>>
boot == <<todo, ap, code4, stack, started, procs, kpgdir>>

idle == [op |-> "none", step |-> "", page |-> NONE]
-----------------------------------------------------------------------------
(* kalloc.c *)

Call(c, op, page) ==
  /\ k[c] = idle
  /\ k' = [k EXCEPT ![c] = [op |-> op, step |-> "acquire", page |-> page]]
  /\ UNCHANGED <<freelist, next, use_lock, lock>>

\* if(kmem.use_lock) acquire(&kmem.lock)
kmem_acquire(c) ==
  /\ k[c].step = "acquire"
  /\ use_lock => lock = -1
  /\ lock' = IF use_lock THEN c ELSE lock
  /\ k' = [k EXCEPT ![c].step = "read"]
  /\ UNCHANGED <<freelist, next, use_lock, at, held>> /\ UNCHANGED boot

\* r = kmem.freelist, or r->next = kmem.freelist
kmem_read(c) ==
  /\ k[c].step = "read"
  /\ \/ /\ k[c].op = "kalloc"
        /\ k' = [k EXCEPT ![c].page = freelist,
                          ![c].step = IF freelist = NONE THEN "release" ELSE "write"]
        /\ next' = next
     \/ /\ k[c].op = "kfree"
        /\ k' = [k EXCEPT ![c].step = "write"]
        /\ next' = [next EXCEPT ![k[c].page] = freelist]
  /\ UNCHANGED <<freelist, use_lock, lock, at, held>> /\ UNCHANGED boot

\* kmem.freelist = r->next, or kmem.freelist = r; the page changes hands
kmem_write(c) ==
  LET r == k[c].page
  IN /\ k[c].step = "write"
     /\ freelist' = IF k[c].op = "kalloc" THEN next[r] ELSE r
     /\ held' = IF k[c].op = "kalloc" THEN [held EXCEPT ![c] = @ \union {r}] ELSE held
     /\ k' = [k EXCEPT ![c].step = "release"]
     /\ UNCHANGED <<next, use_lock, lock, at>> /\ UNCHANGED boot

\* if(kmem.use_lock) release(&kmem.lock)
kmem_release(c) ==
  /\ k[c].step = "release"
  /\ lock' = IF use_lock THEN -1 ELSE lock
  /\ k' = [k EXCEPT ![c].op = "done", ![c].step = ""]
  /\ UNCHANGED <<freelist, next, use_lock, at, held>> /\ UNCHANGED boot
-----------------------------------------------------------------------------
(* main.c; a call to the allocator goes from one label to the next *)

Goto(c, label) == at' = [at EXCEPT ![c] = label]

Returned(c) == k[c].op = "done"

Finish(c) == k' = [k EXCEPT ![c] = idle] /\ UNCHANGED <<freelist, next, use_lock, lock>>

\* freerange(), in kinit1() and in kinit2()
freerange(c) ==
  /\ at[c] \in {"kinit1", "kinit2"}
  /\ \/ /\ \E p \in todo :
             /\ \A q \in todo : p <= q
             /\ Call(c, "kfree", p) /\ todo' = todo \ {p}
        /\ at' = at
     \/ /\ Returned(c) /\ Finish(c)
        /\ UNCHANGED <<at, todo>>
  /\ UNCHANGED <<ap, code4, stack, started, procs, kpgdir, held>>

\* the end of kinit1(); kvmalloc() allocates the kernel's page table
kvmalloc(c) ==
  /\ \/ /\ at[c] = "kinit1" /\ todo = {}
        /\ Call(c, "kalloc", NONE) /\ Goto(c, "kvmalloc")
        /\ UNCHANGED <<kpgdir, held>>
     \/ /\ at[c] = "kvmalloc" /\ Returned(c)
        /\ Finish(c) /\ Goto(c, "startothers")
        /\ kpgdir' = k[c].page /\ held' = [held EXCEPT ![c] = {}]
  /\ UNCHANGED <<todo, ap, code4, stack, started, procs>>

\* the stack of the next CPU
startothers(c) ==
  /\ at[c] = "startothers" /\ ap < NCPU
  /\ Call(c, "kalloc", NONE) /\ Goto(c, "startap")
  /\ UNCHANGED held /\ UNCHANGED boot

\* the page goes to the new CPU
lapicstartap(c) ==
  /\ at[c] = "startap" /\ Returned(c) /\ Finish(c)
  /\ code4' = k[c].page /\ held' = [held EXCEPT ![c] = @ \ {k[c].page}]
  /\ at' = [at EXCEPT ![c] = "waitap", ![ap] = "start"]
  /\ UNCHANGED <<todo, ap, stack, started, procs, kpgdir>>

\* mutant: startothers() goes on without waiting for the CPU
waitap_Skips(c) ==
  /\ at[c] = "waitap"
  /\ ap' = ap + 1 /\ Goto(c, "startothers")
  /\ UNCHANGED <<todo, code4, stack, started, procs, kpgdir, held>> /\ UNCHANGED kmem

\* while(c->started == 0)
waitap(c) ==
  /\ at[c] = "waitap" /\ started[ap]
  /\ ap' = ap + 1 /\ Goto(c, "startothers")
  /\ UNCHANGED <<todo, code4, stack, started, procs, kpgdir, held>> /\ UNCHANGED kmem

\* the new CPU takes its stack from code-4 and calls mpenter()
entryother(c) ==
  /\ at[c] = "start"
  /\ stack' = [stack EXCEPT ![c] = code4] /\ Goto(c, "mpmain")
  /\ UNCHANGED <<todo, ap, code4, started, procs, kpgdir, held>> /\ UNCHANGED kmem

kinit2(c) ==
  /\ at[c] = "startothers" /\ ap = NCPU
  /\ todo' = HighPages /\ Goto(c, "kinit2")
  /\ UNCHANGED <<ap, code4, stack, started, procs, kpgdir, held>> /\ UNCHANGED kmem

\* kmem.use_lock = 1
kinit2_end(c) ==
  /\ at[c] = "kinit2" /\ todo = {} /\ k[c] = idle
  /\ use_lock' = TRUE /\ Goto(c, "userinit")
  /\ UNCHANGED <<freelist, next, lock, k, held>> /\ UNCHANGED boot

\* userinit() allocates pages for the first process and makes it runnable
userinit(c) ==
  /\ at[c] = "userinit"
  /\ \/ /\ Call(c, "kalloc", NONE)
        /\ UNCHANGED <<at, procs>>
     \/ /\ Returned(c) /\ Finish(c)
        /\ procs' = TRUE /\ Goto(c, "mpmain")
  /\ UNCHANGED <<todo, ap, code4, stack, started, kpgdir, held>>

mpmain(c) ==
  /\ at[c] = "mpmain"
  /\ started' = [started EXCEPT ![c] = TRUE] /\ Goto(c, "scheduler")
  /\ UNCHANGED <<todo, ap, code4, stack, procs, kpgdir, held>> /\ UNCHANGED kmem

\* kernel code of a process that a CPU runs
run(c) ==
  /\ at[c] = "scheduler" /\ procs
  /\ \/ /\ Call(c, "kalloc", NONE) /\ held' = held
     \/ \E p \in held[c] : Call(c, "kfree", p) /\ held' = [held EXCEPT ![c] = @ \ {p}]
     \/ Returned(c) /\ Finish(c) /\ held' = held
  /\ UNCHANGED at /\ UNCHANGED boot
-----------------------------------------------------------------------------
Init ==
  /\ freelist = NONE /\ next = [p \in Pages |-> NONE] /\ use_lock = FALSE /\ lock = -1
  /\ k = [c \in Cpus |-> idle]
  /\ at = [c \in Cpus |-> IF c = 0 THEN "kinit1" ELSE "off"]
  /\ todo = LowPages /\ ap = 1 /\ code4 = NONE
  /\ stack = [c \in Cpus |-> NONE] /\ started = [c \in Cpus |-> FALSE]
  /\ procs = FALSE /\ kpgdir = NONE /\ held = [c \in Cpus |-> {}]

Next == \E c \in Cpus :
  \/ kmem_acquire(c) \/ kmem_read(c) \/ kmem_write(c) \/ kmem_release(c)
  \/ freerange(c) \/ kvmalloc(c) \/ startothers(c) \/ lapicstartap(c) \/ waitap(c)
  \/ entryother(c) \/ kinit2(c) \/ kinit2_end(c) \/ userinit(c) \/ mpmain(c) \/ run(c)

Spec == Init /\ [][Next]_vars
-----------------------------------------------------------------------------
\* the pages on the list after n pointers
RECURSIVE Listed(_, _)
Listed(p, n) == IF p = NONE \/ n = 0 THEN {} ELSE {p} \union Listed(next[p], n - 1)

\* the page that a CPU is putting on the list
Freeing(c) == IF k[c].op = "kfree" /\ k[c].step # "release" THEN {k[c].page} ELSE {}

\* A page is on the free list, or some CPU has it, or it is the stack of one CPU, never
\* two of these: although the boot CPU allocates without the lock while the others
\* already run scheduler(), the order of main() (startothers(), kinit2(), userinit())
\* and the wait of startothers() for c->started keep every kalloc() and kfree() alone.
PagesOwnedOnce ==
  LET list == Listed(freelist, Cardinality(Pages))
      Mine(c) == held[c] \union Freeing(c) \union ({stack[c]} \ {NONE})
  IN /\ kpgdir \notin list
     /\ \A c \in Cpus :
       /\ Mine(c) \intersect (list \union {kpgdir}) = {}
       /\ held[c] \intersect Freeing(c) = {}
       /\ \A d \in Cpus \ {c} : Mine(c) \intersect Mine(d) = {}
=============================================================================
