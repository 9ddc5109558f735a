------------------------------- MODULE MCParts -------------------------------
(***************************************************************************)
(* The parts of the system that share no state with the others, for TLC.   *)
(* A behaviour is one of one part, chosen in the initial state; the others *)
(* stay in their initial states, so the state spaces add up.  The spin     *)
(* locks are checked on one CPU with two processes and on two CPUs with    *)
(* one.                                                                    *)
(***************************************************************************)
EXTENDS Integers

VARIABLES part,
  clk, E, A,                                                    \* ClockRef
  lock1, cpu1, state1, chan1, stack1, panicked1,                       \* Spinlock, one CPU
  lock2, cpu2, state2, chan2, stack2, panicked2,                       \* Spinlock, two CPUs
  buf, r, w, e, conslock, at, n, dst, killed,                   \* Console
  fs, content, off, todo,                                       \* FileData
  hdr, freep, brk, given, own,                                  \* Umalloc
  freelist, next, use_lock, lock, k, pc, frees, ap, code4,
  stack, started, procs, kpgdir, held,                          \* Boot
  proc, ftable, pipe, typed, failed,                            \* Shell
  line,                                                         \* Parse
  sz, mapped, emptied                                           \* Args

clock_vars == <<clk, E, A>>
spin1_vars == <<lock1, cpu1, state1, chan1, stack1, panicked1>>
spin2_vars == <<lock2, cpu2, state2, chan2, stack2, panicked2>>
console_vars == <<buf, r, w, e, conslock, at, n, dst, killed>>
data_vars == <<fs, content, off, todo>>
malloc_vars == <<hdr, freep, brk, given, own>>
boot_vars == <<freelist, next, use_lock, lock, k, pc, frees, ap, code4, stack, started, procs,
               kpgdir, held>>
shell_vars == <<proc, ftable, pipe, typed, failed>>
args_vars == <<sz, mapped, emptied>>
vars == <<part, clock_vars, spin1_vars, spin2_vars, console_vars, data_vars, malloc_vars,
          boot_vars, shell_vars, line, args_vars>>
-----------------------------------------------------------------------------
Clock == INSTANCE ClockRef WITH CLOCKSIZE <- 3, NULL <- -1, Vpns <- 0..3

Spin1 == INSTANCE Spinlock WITH NCPU <- 1, NPROC <- 2, KBD_CPU <- 0,
  lock <- lock1, cpu <- cpu1, state <- state1, chan <- chan1, stack <- stack1, panicked <- panicked1

Spin2 == INSTANCE Spinlock WITH NCPU <- 2, NPROC <- 1, KBD_CPU <- 0,
  lock <- lock2, cpu <- cpu2, state <- state2, chan <- chan2, stack <- stack2, panicked <- panicked2

Cons == INSTANCE Console WITH
  Readers <- {"p1", "p2"}, Letters <- {"a"}, INPUT_BUF <- 2, UINT <- 4, MaxN <- 2

\* an image whose only file needs an indirect block, and one whose root directory fills
\* its blocks
Files == INSTANCE FileData WITH
  FSSIZE <- 14, NMETA <- 2, BSIZE <- 2, NDIRECT <- 1, MAXWRITE <- 2,
  Images <- {<<<<5, 6, 5, 6, 5>>>>, <<<<>>, <<6>>>>}, Data <- {<<7, 8, 9>>},
  Inums <- 1..3, ROOTINO <- 1, Writers <- {"p1", "p2"}, FILE <- 2

Heap == INSTANCE Umalloc WITH HEAP <- 2, MAXBRK <- 10, MINCORE <- 3, Sizes <- {2, 4}

Start == INSTANCE Boot WITH NCPU <- 3, LowPages <- 1..4, HighPages <- {5},
  at <- pc, todo <- frees

\* a < f | b | c, where pipe() and fork() may fail; a | b that ends before a; and a command
\* in the background before a pipeline
X(prog) == [type |-> "EXEC", prog |-> prog]
Pipe(l, right) == [type |-> "PIPE", left |-> l, right |-> right]
Back(cmd) == [type |-> "BACK", cmd |-> cmd]
Commands == {
  Pipe([type |-> "REDIR", fd |-> 0, cmd |-> X("cat")], Pipe(X("cat"), X("true"))),
  Pipe(X("cat"), X("true")),
  Back(Pipe(X("echo"), X("cat"))),
  [type |-> "LIST", left |-> Back(X("cat")), right |-> Pipe(X("echo"), X("true"))]}

Sh == INSTANCE Shell WITH NPROC <- 6, NFILE <- 5, NOFILE <- 5, NPIPE <- 2, PIPESIZE <- 1,
  MaxCmds <- 1

Grammar == INSTANCE Parse WITH
  Tokens <- {"a", "|", "&", ";", "(", ")", ">"}, MaxLine <- 5, MAXARGS <- 3

Checks == INSTANCE Args WITH UINT <- 32, KERNBASE <- 16, PGSIZE <- 4, INT <- 2, SZ <- 6
-----------------------------------------------------------------------------
Init ==
  /\ part \in {"clock", "spin1", "spin2", "console", "files", "heap", "start", "shell",
               "grammar", "args"}
  /\ Clock!Init /\ Spin1!Init /\ Spin2!Init /\ Cons!Init /\ Heap!Init
  /\ Start!Init /\ Sh!Init /\ Grammar!Init /\ Checks!Init /\ Files!Init

\* the variables of all parts but one stay as they are
OthersUnchanged ==
  /\ part # "clock" => UNCHANGED clock_vars
  /\ part # "spin1" => UNCHANGED spin1_vars
  /\ part # "spin2" => UNCHANGED spin2_vars
  /\ part # "console" => UNCHANGED console_vars
  /\ part # "files" => UNCHANGED data_vars
  /\ part # "heap" => UNCHANGED malloc_vars
  /\ part # "start" => UNCHANGED boot_vars
  /\ part # "shell" => UNCHANGED shell_vars
  /\ part # "grammar" => UNCHANGED line
  /\ part # "args" => UNCHANGED args_vars

Next ==
  /\ part' = part
  /\ \/ part = "clock" /\ Clock!Next
     \/ part = "spin1" /\ Spin1!Next
     \/ part = "spin2" /\ Spin2!Next
     \/ part = "console" /\ Cons!Next
     \/ part = "files" /\ Files!Next
     \/ part = "heap" /\ Heap!Next
     \/ part = "start" /\ Start!Next
     \/ part = "shell" /\ Sh!Next
     \/ part = "grammar" /\ Grammar!Next
     \/ part = "args" /\ Checks!Next
  /\ OthersUnchanged

Spec == Init /\ [][Next]_vars
-----------------------------------------------------------------------------
\* clock.c keeps a FIFO with second chances: the sweep of clk_insert() evicts the right
\* page and clk_remove()'s shifting keeps the order of the others.
ClockIsSecondChance == Clock!ImplementsSecondChance

\* No panic of acquire(), release(), popcli() or sched(), and no CPU that spins for itself
\* or for a CPU that spins for it, whatever interrupts what and wherever sched() continues.
LocksSafe ==
  /\ part = "spin1" => Spin1!LocksSafe
  /\ part = "spin2" => Spin2!LocksSafe

\* A system call that holds no lock any more has its interrupts enabled again, wherever it
\* slept and woke up, and a handler never has them enabled.
InterruptsRestored ==
  /\ part = "spin1" => Spin1!InterruptsRestored
  /\ part = "spin2" => Spin2!InterruptsRestored

\* The ring of console.c is a line that can be edited and a queue of complete input.
ConsoleIsTty == Cons!IsTty

\* Nobody sleeps in consoleread() while there is complete input.
NoLostInput == part = "console" => Cons!NoLostInput

\* readi() returns what writei() or mkfs last stored there, through direct and indirect
\* blocks, and allocates nothing except in a hole of the root directory.
ReadsBack == part = "files" => Files!ReadsBack

\* The bitmap marks exactly the blocks that are pointed to, and each by one pointer.
BlocksAccounted == part = "files" => Files!BlocksAccounted

\* Free blocks, blocks in use and the program's own memory partition the heap of malloc(),
\* and the free list is sorted and coalesced.
HeapPartitioned == part = "heap" => Heap!HeapPartitioned

\* While the CPUs start, no page is on the free list, in use or a stack twice.
PagesOwnedOnce == part = "start" => Start!PagesOwnedOnce

\* A struct file counts the descriptors that refer to it, and an end of a pipe is open
\* exactly while there is one.
RefsAreDescriptors == part = "shell" => Sh!RefsAreDescriptors

\* No set of processes of a pipeline sleeps for one another for ever.
NoneStuck == part = "shell" => Sh!NoneStuck

\* The shell prompts when the processes of the command in the foreground have all ended.
PromptAfterForeground == part = "shell" => Sh!PromptAfterForeground

\* parsecmd() accepts the lines of the grammar and builds their only tree.
ParsesGrammar == part = "grammar" => Grammar!ParsesGrammar

\* An argument that fetchint(), fetchstr() or argptr() accepts lies in the process's memory.
ArgumentsInside == part = "args" => Checks!ArgumentsInside
=============================================================================
