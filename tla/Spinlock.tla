------------------------------ MODULE Spinlock ------------------------------
(***************************************************************************)
(* Spin locks and the nesting of disabled interrupts (src/src/spinlock.c), *)
(* with the code that makes them hard: interrupt handlers that take a lock *)
(* of the code they interrupt, and sched(), which carries ptable.lock from *)
(* one kernel thread to another and may continue a thread on another CPU.  *)
(*                                                                         *)
(* The users of the locks are the scheduler, sleep(), yield() and wakeup() *)
(* of proc.c; the console: consoleread() sleeps with cons.lock,            *)
(* consoleintr() takes it in an interrupt, cprintf() unless it is held;    *)
(* and the clock: sys_sleep() sleeps with tickslock, which the timer       *)
(* interrupt of CPU 0 takes.  A channel has the name of its lock.          *)
(*                                                                         *)
(* A kernel thread is a process or the scheduler of a CPU.  Its stack has  *)
(* a frame for each call to return to, the one on top is executed.         *)
(***************************************************************************)
EXTENDS Integers, Sequences, FiniteSetsExt

CONSTANTS NCPU, NPROC, KBD_CPU  \* KBD_CPU: where ioapicenable() routes the keyboard

Cpus == 0..NCPU-1
Procs == NCPU..NCPU+NPROC-1  \* the threads are numbered; scheduler c is thread c
Threads == Cpus \union Procs
Locks == {"ptable", "cons", "tickslock"}
None == -1

VARIABLES lock,    \* lock[lk].locked and the CPU that holds it
          cpu,     \* cpu[c]: eflags' FL_IF, ncli, intena and the thread it runs
          state,   \* p->state
          chan,    \* p->chan
          stack,
          panicked
vars == <<lock, cpu, state, chan, stack, panicked>>

\* n is a local: the saved FL_IF or intena, or the loop index of scheduler()
Frame(pc, lk, n) == [pc |-> pc, lk |-> lk, n |-> n]
Do(pc) == Frame(pc, "none", 0)
acquire(lk) == Frame("acquire", lk, 0)
release(lk) == Frame("release", lk, 0)

Top(c) == Head(stack[cpu[c].on])
At(c, pc) == panicked = "no" /\ Top(c).pc = pc

\* the frame on top is replaced by the calls that it makes
Calls(c, frames) == stack' = [stack EXCEPT ![cpu[c].on] = frames \o Tail(@)]
Return(c) == Calls(c, <<>>)

holding(c, lk) == lock[lk].locked /\ lock[lk].cpu = c
-----------------------------------------------------------------------------
(* acquire() and release() *)

\* pushcli() reads eflags before it disables interrupts
pushcli(c) ==
  /\ At(c, "acquire")
  /\ Calls(c, <<Frame("cli", Top(c).lk, IF cpu[c].FL_IF THEN 1 ELSE 0)>>)
  /\ UNCHANGED <<lock, cpu, state, chan, panicked>>

\* the rest of pushcli(), and acquire()'s test that the lock is not held here
pushcli_cli(c) ==
  LET lk == Top(c).lk
  IN /\ At(c, "cli")
     /\ cpu' = [cpu EXCEPT ![c].FL_IF = FALSE, ![c].ncli = @ + 1,
                           ![c].intena = IF cpu[c].ncli = 0 THEN Top(c).n ELSE @]
     /\ Calls(c, <<Frame("xchg", lk, 0)>>)
     /\ panicked' = IF holding(c, lk) THEN "acquire" ELSE "no"
     /\ UNCHANGED <<lock, state, chan>>

\* the loop ends when xchg() finds the lock free; only this CPU can find itself in cpu
acquire_xchg(c) ==
  /\ At(c, "xchg") /\ ~lock[Top(c).lk].locked
  /\ lock' = [lock EXCEPT ![Top(c).lk] = [locked |-> TRUE, cpu |-> c]]
  /\ Return(c)
  /\ UNCHANGED <<cpu, state, chan, panicked>>

popcli(c) ==
  cpu' = [cpu EXCEPT ![c].ncli = @ - 1,
                     ![c].FL_IF = cpu[c].ncli = 1 /\ cpu[c].intena = 1]

\* release() with its popcli(), which other CPUs do not see
release_store(c) ==
  LET lk == Top(c).lk
  IN /\ At(c, "release")
     /\ panicked' = CASE ~holding(c, lk) -> "release"
                      [] cpu[c].FL_IF -> "popcli - interruptible"
                      [] cpu[c].ncli = 0 -> "popcli"
                      [] OTHER -> "no"
     /\ lock' = [lock EXCEPT ![lk] = [locked |-> FALSE, cpu |-> None]]
     /\ popcli(c)
     /\ Return(c)
     /\ UNCHANGED <<state, chan>>
-----------------------------------------------------------------------------
(* proc.c *)

\* mutant: intena is left as the thread that ran in between had it
sched_back_Keeps(c) ==
  /\ At(c, "sched_back")
  /\ chan' = [chan EXCEPT ![cpu[c].on] = "none"]
  /\ Return(c)
  /\ UNCHANGED <<lock, cpu, state, panicked>>

\* swtch() has returned, perhaps on another CPU; sleep() goes on with p->chan = 0
sched_back(c) ==
  /\ At(c, "sched_back")
  /\ cpu' = [cpu EXCEPT ![c].intena = Top(c).n]
  /\ chan' = [chan EXCEPT ![cpu[c].on] = "none"]
  /\ Return(c)
  /\ UNCHANGED <<lock, state, panicked>>

sched(c) ==
  /\ At(c, "sched")
  /\ panicked' = CASE ~holding(c, "ptable") -> "sched ptable.lock"
                   [] cpu[c].ncli # 1 -> "sched locks"
                   [] state[cpu[c].on] = "RUNNING" -> "sched running"
                   [] cpu[c].FL_IF -> "sched interruptible"
                   [] OTHER -> "no"
  /\ Calls(c, <<Frame("sched_back", "none", cpu[c].intena)>>)
  /\ cpu' = [cpu EXCEPT ![c].on = c]
  /\ UNCHANGED <<lock, state, chan>>

\* the top of scheduler()'s loop
scheduler(c) ==
  /\ At(c, "scheduler")
  /\ cpu' = [cpu EXCEPT ![c].FL_IF = TRUE]
  /\ Calls(c, <<acquire("ptable"), Frame("pick", "none", NCPU)>>)
  /\ UNCHANGED <<lock, state, chan, panicked>>

\* the next RUNNABLE process at or after the loop index, or the end of the loop
scheduler_pick(c) ==
  LET next == {p \in Procs : p >= Top(c).n /\ state[p] = "RUNNABLE"}
  IN /\ At(c, "pick")
     /\ \/ /\ next = {}
           /\ Calls(c, <<release("ptable"), Do("scheduler")>>)
           /\ UNCHANGED <<cpu, state>>
        \/ /\ next # {}
           /\ state' = [state EXCEPT ![Min(next)] = "RUNNING"]
           /\ Calls(c, <<Frame("pick", "none", Min(next) + 1)>>)
           /\ cpu' = [cpu EXCEPT ![c].on = Min(next)]
     /\ UNCHANGED <<lock, chan, panicked>>

yield(c) ==
  /\ At(c, "yield")
  /\ state' = [state EXCEPT ![cpu[c].on] = "RUNNABLE"]
  /\ Calls(c, <<Do("sched")>>)
  /\ UNCHANGED <<lock, cpu, chan, panicked>>

\* sleep(&input.r, &cons.lock) or sleep(&ticks, &tickslock)
sleep(c) ==
  LET lk == Top(c).lk
  IN /\ At(c, "sleep")
     /\ Calls(c, <<acquire("ptable"), release(lk), Frame("asleep", lk, 0),
                   release("ptable"), acquire(lk)>>)
     /\ UNCHANGED <<lock, cpu, state, chan, panicked>>

sleep_sched(c) ==
  /\ At(c, "asleep")
  /\ state' = [state EXCEPT ![cpu[c].on] = "SLEEPING"]
  /\ chan' = [chan EXCEPT ![cpu[c].on] = Top(c).lk]
  /\ Calls(c, <<Do("sched")>>)
  /\ UNCHANGED <<lock, cpu, panicked>>

wakeup(c) ==
  /\ At(c, "wakeup")
  /\ Calls(c, <<acquire("ptable"), Frame("wakeup1", Top(c).lk, 0), release("ptable")>>)
  /\ UNCHANGED <<lock, cpu, state, chan, panicked>>

wakeup1(c) ==
  LET Woken(p) == state[p] = "SLEEPING" /\ chan[p] = Top(c).lk
  IN /\ At(c, "wakeup1")
     /\ state' = [p \in Procs |-> IF Woken(p) THEN "RUNNABLE" ELSE state[p]]
     /\ Return(c)
     /\ UNCHANGED <<lock, cpu, chan, panicked>>
-----------------------------------------------------------------------------
(* console.c, system calls and interrupts *)

\* cprintf() takes the lock unless this CPU holds it
cprintf(c) ==
  /\ At(c, "cprintf")
  /\ Calls(c, (IF holding(c, "cons") THEN <<>> ELSE <<acquire("cons")>>)
                \o <<release("cons")>>)
  /\ UNCHANGED <<lock, cpu, state, chan, panicked>>

\* the loop of consoleread() or of sys_sleep(), with its lock: sleep once more, or done
waits(c) ==
  LET lk == Top(c).lk
  IN /\ At(c, "waits")
     /\ \/ Calls(c, <<Frame("sleep", lk, 0), Frame("waits", lk, 0)>>)
        \/ Calls(c, <<release(lk)>>)
     /\ UNCHANGED <<lock, cpu, state, chan, panicked>>

\* a system call comes through a trap gate: interrupts stay enabled
syscall(c) ==
  /\ At(c, "user")
  /\ \/ \E lk \in {"cons", "tickslock"} :
          Calls(c, <<acquire(lk), Frame("waits", lk, 0), Do("sysret")>>)
     \/ Calls(c, <<Do("cprintf"), Do("sysret")>>)
  /\ UNCHANGED <<lock, cpu, state, chan, panicked>>

\* the return from a system call or from forkret(): iret restores the FL_IF of user mode
trapret(c) ==
  /\ At(c, "sysret") \/ At(c, "forkret")
  /\ Calls(c, <<Do("user")>>)
  /\ cpu' = [cpu EXCEPT ![c].FL_IF = TRUE]
  /\ UNCHANGED <<lock, state, chan, panicked>>

\* mutant: ^P prints the process list with cons.lock held
consoleintr_Dumps ==
  <<acquire("cons"), Frame("wakeup", "cons", 0), Do("cprintf"), release("cons")>>

\* consoleintr() for a key that ends a line, and for ^P, which prints afterwards
consoleintr ==
  <<acquire("cons"), Frame("wakeup", "cons", 0), release("cons"), Do("cprintf")>>

\* an interrupt comes through an interrupt gate: it disables interrupts
interrupt(c, handler) ==
  /\ panicked = "no" /\ cpu[c].FL_IF
  /\ cpu' = [cpu EXCEPT ![c].FL_IF = FALSE]
  /\ stack' = [stack EXCEPT ![cpu[c].on] = handler \o <<Do("iret")>> \o @]
  /\ UNCHANGED <<lock, state, chan, panicked>>

kbdintr(c) == c = KBD_CPU /\ interrupt(c, consoleintr)

\* the timer interrupt: CPU 0 counts it
timer(c) ==
  interrupt(c, (IF c = 0 THEN <<acquire("tickslock"), Frame("wakeup", "tickslock", 0),
                                release("tickslock")>> ELSE <<>>)
               \o <<Do("tick")>>)

\* and trap() then calls yield() if it interrupted a RUNNING process
tick(c) ==
  /\ At(c, "tick")
  /\ Calls(c, IF cpu[c].on \in Procs /\ state[cpu[c].on] = "RUNNING"
              THEN <<acquire("ptable"), Do("yield"), release("ptable")>> ELSE <<>>)
  /\ UNCHANGED <<lock, cpu, state, chan, panicked>>

spurious(c) == interrupt(c, <<Do("cprintf")>>)

iret(c) ==
  /\ At(c, "iret")
  /\ cpu' = [cpu EXCEPT ![c].FL_IF = TRUE]
  /\ Return(c)
  /\ UNCHANGED <<lock, state, chan, panicked>>
-----------------------------------------------------------------------------
\* after mpmain(): every CPU in its scheduler(), processes on their way to forkret()
Init ==
  /\ lock = [lk \in Locks |-> [locked |-> FALSE, cpu |-> None]]
  /\ cpu = [c \in Cpus |-> [FL_IF |-> FALSE, ncli |-> 0, intena |-> 0, on |-> c]]
  /\ state = [p \in Procs |-> "RUNNABLE"]
  /\ chan = [p \in Procs |-> "none"]
  /\ stack = [t \in Threads |-> IF t \in Cpus THEN <<Do("scheduler")>>
                                ELSE <<release("ptable"), Do("forkret")>>]
  /\ panicked = "no"

Step(c) ==
  \/ pushcli(c) \/ pushcli_cli(c) \/ acquire_xchg(c) \/ release_store(c)
  \/ scheduler(c) \/ scheduler_pick(c) \/ sched(c) \/ sched_back(c)
  \/ yield(c) \/ sleep(c) \/ sleep_sched(c) \/ wakeup(c) \/ wakeup1(c)
  \/ cprintf(c) \/ waits(c) \/ syscall(c) \/ trapret(c)
  \/ kbdintr(c) \/ timer(c) \/ tick(c) \/ spurious(c) \/ iret(c)

Next == \E c \in Cpus : Step(c)

Spec == Init /\ [][Next]_vars
-----------------------------------------------------------------------------
\* pushcli() and popcli() match: a system call that holds no lock any more has its
\* interrupts enabled again, although it slept and came back on another CPU where a
\* thread with interrupts disabled had run; a handler never has them enabled.
InterruptsRestored ==
  \A c \in Cpus :
    /\ Top(c).pc = "sysret" => cpu[c].FL_IF /\ cpu[c].ncli = 0
    /\ Top(c).pc = "iret" => ~cpu[c].FL_IF /\ cpu[c].ncli = 0

Spins(c) == Top(c).pc = "xchg" /\ lock[Top(c).lk].locked

\* No panic of acquire(), release(), popcli() or sched(): nobody takes a lock twice on a
\* CPU, gives up one it does not hold, switches with another lock than ptable.lock, or
\* finds interrupts enabled inside a critical section, whatever is interrupted where.
\* And a CPU that spins waits neither for itself nor for a CPU that spins for it.
LocksSafe ==
  /\ panicked = "no"
  /\ \A c, d \in Cpus : Spins(c) /\ lock[Top(c).lk].cpu = d =>
       c # d /\ ~(Spins(d) /\ lock[Top(d).lk].cpu = c)
=============================================================================
