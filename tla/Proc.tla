--------------------------------- MODULE Proc ---------------------------------
(***************************************************************************)
(* The process table of src/src/proc.c on several CPUs: scheduler(),       *)
(* sched(), yield(), fork(), exit(), wait(), sleep(), wakeup(), kill(),    *)
(* and one sleep lock of src/src/sleeplock.c as the user of sleep() with a *)
(* lock other than ptable.lock.                                            *)
(*                                                                         *)
(* A step of a CPU is a step of its scheduler or of the process it runs.   *)
(* A spin lock is held by a CPU; a stretch of code that holds one lock     *)
(* from acquire() to release() is one step, a stretch that carries         *)
(* ptable.lock through swtch() is several.  Trapped interrupts can take    *)
(* the CPU from a process, in the kernel as well, when it holds no lock.   *)
(***************************************************************************)
EXTENDS Integers, FiniteSetsExt

CONSTANTS NPROC, \* slots of the process table
          CPUs,  \* the processors
          NULL

ASSUME NprocAssumption == NPROC \in Nat \ {0}
ASSUME NullAssumption ==
  /\ NULL \notin CPUs /\ NULL \notin 1..NPROC + 1
  /\ NULL \notin {"yield", "forkret", "wait", "sleep", "exit"}

Procs == 1 .. NPROC
initproc == 1

\* what a process can sleep on: a process, or the sleep lock
SleepLock == NPROC + 1
Channels == Procs \union {SleepLock}

VARIABLES state,  \* proc->state
          parent, \* proc->parent
          killed, \* proc->killed
          haspid, \* proc->pid # 0
          chan,   \* proc->chan
          pc,     \* where the process is in its system call
          saved,  \* how proc->context resumes: the function that called sched()
          np,     \* the child a process in fork() works on
          cur,    \* cpu->proc
          scan,   \* the slot a scheduler's loop has come to, 0 outside the loop
          lock,   \* the CPU that holds ptable.lock
          slock   \* the sleep lock: lk is its spin lock, pid the process that has it

vars == <<state, parent, killed, haspid, chan, pc, saved, np, cur, scan, lock, slock>>

\* the process is on CPU c and executes, rather than being switched in or out
Executes(c, p) == cur[c] = p /\ state[p] = "RUNNING" /\ saved[p] = NULL

At(c, p, l) == Executes(c, p) /\ pc[p] = l

Goto(p, l) == pc' = [pc EXCEPT ![p] = l]
-----------------------------------------------------------------------------
(* scheduler() *)

\* acquire(&ptable.lock) and start over at the first slot
scheduler_acquire(c) ==
  /\ scan[c] = 0 /\ lock = NULL
  /\ lock' = c
  /\ scan' = [scan EXCEPT ![c] = 1]
  /\ UNCHANGED <<state, parent, killed, haspid, chan, pc, saved, np, cur, slock>>

\* the next RUNNABLE slot is switched to, with ptable.lock held
scheduler_run(c) ==
  /\ scan[c] \in Procs /\ cur[c] = NULL
  /\ \E p \in Procs :
       /\ p = Min({r \in scan[c] .. NPROC : state[r] = "RUNNABLE"} \union {NPROC + 1})
       /\ cur' = [cur EXCEPT ![c] = p]
       /\ scan' = [scan EXCEPT ![c] = p]
       /\ state' = [state EXCEPT ![p] = "RUNNING"]
  /\ UNCHANGED <<parent, killed, haspid, chan, pc, saved, np, lock, slock>>

\* no RUNNABLE slot is left: release(&ptable.lock)
scheduler_release(c) ==
  /\ scan[c] > 0 /\ cur[c] = NULL
  /\ \A r \in scan[c] .. NPROC : state[r] # "RUNNABLE"
  /\ lock' = NULL
  /\ scan' = [scan EXCEPT ![c] = 0]
  /\ UNCHANGED <<state, parent, killed, haspid, chan, pc, saved, np, cur, slock>>
-----------------------------------------------------------------------------
(* sched() *)

\* swtch() back to the scheduler, which goes on with the next slot
sched(c) ==
  /\ cur[c] # NULL /\ saved[cur[c]] # NULL /\ state[cur[c]] # "RUNNING"
  /\ cur' = [cur EXCEPT ![c] = NULL]
  /\ scan' = [scan EXCEPT ![c] = @ + 1]
  /\ UNCHANGED <<state, parent, killed, haspid, chan, pc, saved, np, lock, slock>>

\* the process is back from swtch() in f
Resumes(c, p, f) == cur[c] = p /\ state[p] = "RUNNING" /\ saved[p] = f

\* the ends of yield() and of forkret()
resume_release(c, p) ==
  /\ Resumes(c, p, "yield") \/ Resumes(c, p, "forkret")
  /\ lock' = NULL
  /\ saved' = [saved EXCEPT ![p] = NULL]
  /\ UNCHANGED <<state, parent, killed, haspid, chan, pc, np, cur, scan, slock>>

\* the end of sleep(&ptable.lock), in wait()
resume_wait(c, p) ==
  /\ Resumes(c, p, "wait")
  /\ chan' = [chan EXCEPT ![p] = NULL]
  /\ saved' = [saved EXCEPT ![p] = NULL]
  /\ UNCHANGED <<state, parent, killed, haspid, pc, np, cur, scan, lock, slock>>

\* the end of sleep() with another lock, which is then acquired
resume_sleep(c, p) ==
  /\ Resumes(c, p, "sleep")
  /\ chan' = [chan EXCEPT ![p] = NULL]
  /\ saved' = [saved EXCEPT ![p] = NULL]
  /\ lock' = NULL
  /\ UNCHANGED <<state, parent, killed, haspid, pc, np, cur, scan, slock>>

\* p is off the CPU at the next sched(), in the given state, to resume in f
Leaves(p, s, f) ==
  /\ state' = [state EXCEPT ![p] = s]
  /\ saved' = [saved EXCEPT ![p] = f]

\* a timer interrupt; interrupts are off while a lock is held, and trap() makes a
\* killed process in user mode exit rather than yield
yield(c, p) ==
  /\ Executes(c, p) /\ ~(pc[p] = "user" /\ killed[p])
  /\ lock = NULL /\ slock.lk # c
  /\ lock' = c
  /\ Leaves(p, "RUNNABLE", "yield")
  /\ UNCHANGED <<parent, killed, haspid, chan, pc, np, cur, scan, slock>>
-----------------------------------------------------------------------------
(* fork() *)

\* allocproc(): the first UNUSED slot
allocproc(c, p) ==
  /\ At(c, p, "user") /\ ~killed[p] /\ lock = NULL
  /\ LET unused == {r \in Procs : state[r] = "UNUSED"}
     IN /\ unused # {}
        /\ state' = [state EXCEPT ![Min(unused)] = "EMBRYO"]
        /\ haspid' = [haspid EXCEPT ![Min(unused)] = TRUE]
        /\ np' = [np EXCEPT ![p] = Min(unused)]
        /\ saved' = [saved EXCEPT ![Min(unused)] = "forkret"]
        /\ pc' = [pc EXCEPT ![p] = "fork", ![Min(unused)] = "user"]
  /\ UNCHANGED <<parent, killed, chan, cur, scan, lock, slock>>

\* kalloc() or copyuvm() fails: the slot is given back without ptable.lock, with its
\* pid
fork_fails(c, p) ==
  /\ At(c, p, "fork")
  /\ state' = [state EXCEPT ![np[p]] = "UNUSED"]
  /\ Goto(p, "user")
  /\ np' = [np EXCEPT ![p] = NULL]
  /\ UNCHANGED <<parent, killed, haspid, chan, saved, cur, scan, lock, slock>>

\* np->parent is set without ptable.lock
fork_parent(c, p) ==
  /\ At(c, p, "fork")
  /\ parent' = [parent EXCEPT ![np[p]] = p]
  /\ Goto(p, "fork_runnable")
  /\ UNCHANGED <<state, killed, haspid, chan, saved, np, cur, scan, lock, slock>>

fork_runnable(c, p) ==
  /\ At(c, p, "fork_runnable") /\ lock = NULL
  /\ state' = [state EXCEPT ![np[p]] = "RUNNABLE"]
  /\ Goto(p, "user")
  /\ np' = [np EXCEPT ![p] = NULL]
  /\ UNCHANGED <<parent, killed, haspid, chan, saved, cur, scan, lock, slock>>
-----------------------------------------------------------------------------
(* exit(), wait() and kill() *)

\* the states st with the sleepers on a channel of chs made RUNNABLE
wakeup1(st, chs) ==
  [p \in Procs |-> IF st[p] = "SLEEPING" /\ chan[p] \in chs THEN "RUNNABLE" ELSE st[p]]

Children(p) == {r \in Procs : parent[r] = p}

Zombies(p) == {r \in Children(p) : state[r] = "ZOMBIE"}

\* the children of p go to init
Reparented(p) == [r \in Procs |-> IF r \in Children(p) THEN initproc ELSE parent[r]]

\* mutant: nobody is told of an exit
Told_Nobody(p) == {}

\* whom the exit of p wakes up
Told(p) == {parent[p]} \union IF Zombies(p) = {} THEN {} ELSE {initproc}

\* mutant: ptable.lock is released before the process is off the CPU
exit_Releases(c, p) ==
  /\ At(c, p, "user") /\ p # initproc /\ lock = NULL
  /\ parent' = Reparented(p)
  /\ state' = [wakeup1(state, Told(p)) EXCEPT ![p] = "ZOMBIE"]
  /\ saved' = [saved EXCEPT ![p] = "exit"]
  /\ UNCHANGED <<killed, haspid, chan, pc, np, cur, scan, lock, slock>>

\* by choice, or because trap() finds the process killed
exit(c, p) ==
  /\ At(c, p, "user") /\ p # initproc /\ lock = NULL
  /\ lock' = c
  /\ parent' = Reparented(p)
  /\ state' = [wakeup1(state, Told(p)) EXCEPT ![p] = "ZOMBIE"]
  /\ saved' = [saved EXCEPT ![p] = "exit"]
  /\ UNCHANGED <<killed, haspid, chan, pc, np, cur, scan, slock>>

wait(c, p) ==
  /\ At(c, p, "user") /\ ~killed[p] /\ lock = NULL
  /\ lock' = c
  /\ Goto(p, "wait")
  /\ UNCHANGED <<state, parent, killed, haspid, chan, saved, np, cur, scan, slock>>

\* the first zombie child is reaped: its kernel stack and memory are freed
wait_reaps(c, p) ==
  /\ At(c, p, "wait") /\ Zombies(p) # {}
  /\ LET z == Min(Zombies(p))
     IN /\ state' = [state EXCEPT ![z] = "UNUSED"]
        /\ parent' = [parent EXCEPT ![z] = NULL]
        /\ killed' = [killed EXCEPT ![z] = FALSE]
        /\ haspid' = [haspid EXCEPT ![z] = FALSE]
  /\ lock' = NULL
  /\ Goto(p, "user")
  /\ UNCHANGED <<chan, saved, np, cur, scan, slock>>

wait_returns(c, p) ==
  /\ At(c, p, "wait") /\ Zombies(p) = {}
  /\ Children(p) = {} \/ killed[p]
  /\ lock' = NULL
  /\ Goto(p, "user")
  /\ UNCHANGED <<state, parent, killed, haspid, chan, saved, np, cur, scan, slock>>

\* sleep(curproc, &ptable.lock)
wait_sleeps(c, p) ==
  /\ At(c, p, "wait") /\ Zombies(p) = {}
  /\ Children(p) # {} /\ ~killed[p]
  /\ chan' = [chan EXCEPT ![p] = p]
  /\ Leaves(p, "SLEEPING", "wait")
  /\ UNCHANGED <<parent, killed, haspid, pc, np, cur, scan, lock, slock>>

\* the slots kill() finds for some pid: a pid of 0 finds the first slot without one,
\* and nothing says that the slot is in use
Killable(t) == t # initproc /\ (haspid[t] \/ \A r \in 1 .. t - 1 : haspid[r])

\* mutant: a sleeping victim is not woken up
kill_LetsSleep(c, p, t) ==
  /\ At(c, p, "user") /\ ~killed[p] /\ lock = NULL
  /\ Killable(t)
  /\ killed' = [killed EXCEPT ![t] = TRUE]
  /\ UNCHANGED <<haspid, state, parent, chan, pc, saved, np, cur, scan, lock, slock>>

\* init is not killed: the kernel would panic when it exits
kill(c, p, t) ==
  /\ At(c, p, "user") /\ ~killed[p] /\ lock = NULL
  /\ Killable(t)
  /\ killed' = [killed EXCEPT ![t] = TRUE]
  /\ state' = [state EXCEPT ![t] = IF @ = "SLEEPING" THEN "RUNNABLE" ELSE @]
  /\ UNCHANGED <<haspid, parent, chan, pc, saved, np, cur, scan, lock, slock>>
-----------------------------------------------------------------------------
(* acquiresleep() and releasesleep() *)

\* mutant: the lock's fields are read without its spin lock
acquiresleep_Unlocked(c, p) ==
  /\ (At(c, p, "user") /\ ~killed[p]) \/ At(c, p, "acquiresleep")
  /\ slock.lk = NULL
  /\ Goto(p, "test")
  /\ UNCHANGED <<state, parent, killed, haspid, chan, saved, np, cur, scan, lock, slock>>

\* acquire(&lk->lk), on entry and after sleep()
acquiresleep(c, p) ==
  /\ (At(c, p, "user") /\ ~killed[p]) \/ At(c, p, "acquiresleep")
  /\ slock.lk = NULL
  /\ slock' = [slock EXCEPT !.lk = c]
  /\ Goto(p, "test")
  /\ UNCHANGED <<state, parent, killed, haspid, chan, saved, np, cur, scan, lock>>

acquiresleep_locked(c, p) ==
  /\ At(c, p, "test") /\ slock.pid # NULL
  /\ Goto(p, "sleep")
  /\ UNCHANGED <<state, parent, killed, haspid, chan, saved, np, cur, scan, lock, slock>>

\* sleep(lk, &lk->lk): ptable.lock is taken before lk->lk is released
sleep(c, p) ==
  /\ At(c, p, "sleep") /\ lock = NULL
  /\ lock' = c
  /\ slock' = [slock EXCEPT !.lk = NULL]
  /\ chan' = [chan EXCEPT ![p] = SleepLock]
  /\ Leaves(p, "SLEEPING", "sleep")
  /\ Goto(p, "acquiresleep")
  /\ UNCHANGED <<parent, killed, haspid, np, cur, scan>>

\* mutant: lk->locked is not tested again after sleep()
acquiresleep_takes_Untested(c, p) ==
  /\ At(c, p, "test")
  /\ slock' = [lk |-> NULL, pid |-> p]
  /\ Goto(p, "holds")
  /\ UNCHANGED <<state, parent, killed, haspid, chan, saved, np, cur, scan, lock>>

acquiresleep_takes(c, p) ==
  /\ At(c, p, "test") /\ slock.pid = NULL
  /\ slock' = [lk |-> NULL, pid |-> p]
  /\ Goto(p, "holds")
  /\ UNCHANGED <<state, parent, killed, haspid, chan, saved, np, cur, scan, lock>>

releasesleep(c, p) ==
  /\ At(c, p, "holds") /\ slock.lk = NULL
  /\ slock' = [lk |-> c, pid |-> NULL]
  /\ Goto(p, "wakeup")
  /\ UNCHANGED <<state, parent, killed, haspid, chan, saved, np, cur, scan, lock>>

wakeup(c, p) ==
  /\ At(c, p, "wakeup") /\ lock = NULL
  /\ state' = wakeup1(state, {SleepLock})
  /\ slock' = [slock EXCEPT !.lk = NULL]
  /\ Goto(p, "user")
  /\ UNCHANGED <<parent, killed, haspid, chan, saved, np, cur, scan, lock>>
-----------------------------------------------------------------------------
\* userinit() has made init RUNNABLE, and the CPUs enter their schedulers
Init ==
  /\ state = [p \in Procs |-> IF p = initproc THEN "RUNNABLE" ELSE "UNUSED"]
  /\ parent = [p \in Procs |-> NULL]
  /\ killed = [p \in Procs |-> FALSE]
  /\ haspid = [p \in Procs |-> p = initproc]
  /\ chan = [p \in Procs |-> NULL]
  /\ pc = [p \in Procs |-> "user"]
  /\ saved = [p \in Procs |-> IF p = initproc THEN "forkret" ELSE NULL]
  /\ np = [p \in Procs |-> NULL]
  /\ cur = [c \in CPUs |-> NULL]
  /\ scan = [c \in CPUs |-> 0]
  /\ lock = NULL
  /\ slock = [lk |-> NULL, pid |-> NULL]

scheduler(c) == scheduler_acquire(c) \/ scheduler_run(c) \/ scheduler_release(c)

Resume(c, p) == resume_release(c, p) \/ resume_wait(c, p) \/ resume_sleep(c, p)

\* a step of the code of process p on CPU c
Proceeds(c, p) ==
  \/ allocproc(c, p) \/ fork_fails(c, p) \/ fork_parent(c, p) \/ fork_runnable(c, p)
  \/ exit(c, p)
  \/ wait(c, p) \/ wait_reaps(c, p) \/ wait_returns(c, p) \/ wait_sleeps(c, p)
  \/ \E t \in Procs : kill(c, p, t)
  \/ acquiresleep(c, p) \/ acquiresleep_locked(c, p) \/ acquiresleep_takes(c, p)
  \/ sleep(c, p) \/ releasesleep(c, p) \/ wakeup(c, p)

Step(c) ==
  scheduler(c) \/ sched(c) \/ \E p \in Procs : Resume(c, p) \/ Proceeds(c, p)

Next == \E c \in CPUs : Step(c) \/ \E p \in Procs : yield(c, p)

Spec == Init /\ [][Next]_vars

\* Every CPU keeps going; a process that runs again and again gets on with its
\* code, since a time slice is longer than an interrupt; the timer interrupts
\* a process that has interrupts on again and again; init calls wait() again and
\* again (init.c).
FairSpec ==
  /\ Spec
  /\ \A c \in CPUs :
       /\ WF_vars(Step(c))
       /\ \A p \in Procs : SF_vars(Proceeds(c, p)) /\ SF_vars(yield(c, p))
       /\ SF_vars(wait(c, initproc))
-----------------------------------------------------------------------------
(* Properties *)

\* Every variable has its type.
TypeOK ==
  /\ state \in [Procs -> {"UNUSED", "EMBRYO", "SLEEPING", "RUNNABLE", "RUNNING", "ZOMBIE"}]
  /\ parent \in [Procs -> Procs \union {NULL}]
  /\ killed \in [Procs -> BOOLEAN] /\ haspid \in [Procs -> BOOLEAN]
  /\ chan \in [Procs -> Channels \union {NULL}]
  /\ pc \in [Procs -> {"user", "fork", "fork_runnable", "wait", "acquiresleep",
                       "test", "sleep", "holds", "wakeup"}]
  /\ saved \in [Procs -> {NULL, "yield", "forkret", "wait", "sleep", "exit"}]
  /\ np \in [Procs -> Procs \union {NULL}]
  /\ cur \in [CPUs -> Procs \union {NULL}]
  /\ scan \in [CPUs -> 0 .. NPROC + 1]
  /\ lock \in CPUs \union {NULL}
  /\ slock \in [lk : CPUs \union {NULL}, pid : Procs \union {NULL}]

\* A kernel stack is used by one CPU at a time: scheduler() does not switch to a process
\* whose CPU has not left its stack yet, and the stack that wait() frees or allocproc()
\* sets up is not one some CPU executes on.
StackUsedOnce ==
  /\ TypeOK
  /\ \A c, d \in CPUs : c # d /\ cur[c] # NULL => cur[c] # cur[d]
  /\ \A c \in CPUs : cur[c] # NULL => state[cur[c]] \notin {"UNUSED", "EMBRYO"}

\* No zombie is forgotten: it has a live parent, although its parent may have exited before
\* it or at the same time, and that parent does not sleep in wait(), whether the child or
\* the child's former parent exits.
NoZombieMissed ==
  \A z \in Procs : state[z] = "ZOMBIE" =>
    /\ parent[z] # NULL /\ state[parent[z]] \notin {"UNUSED", "EMBRYO", "ZOMBIE"}
    /\ ~(state[parent[z]] = "SLEEPING" /\ chan[parent[z]] = parent[z])

\* Only the process that acquiresleep() recorded is between acquiresleep() and
\* releasesleep().
SleepLockExclusive ==
  \A p \in Procs : pc[p] = "holds" => slock.pid = p

\* No process sleeps on a sleep lock that is free, unless the wakeup() is still
\* to come: "we won't miss any wakeup" (proc.c, sleep()).
NoLostWakeup ==
  \A p \in Procs :
    state[p] = "SLEEPING" /\ chan[p] = SleepLock =>
      slock.pid # NULL \/ \E r \in Procs : pc[r] = "wakeup"

\* A zombie that init inherited or made is reaped.  Two things can keep it: wait()
\* prefers a zombie in a lower slot, and others may take the sleep lock again
\* before init when they wake it up.
InitReaps ==
  \A p \in Procs :
    state[p] = "ZOMBIE" /\ parent[p] = initproc ~>
      \/ state[p] = "UNUSED"
      \/ \E r \in Zombies(initproc) : r < p
      \/ chan[initproc] = SleepLock

\* A killed process exits, unless it is kept on the sleep lock: kill() gets it
\* out of wait(), and no sequence of system calls or preemptions outlasts it.
KilledExits ==
  \A p \in Procs :
    killed[p] /\ state[p] # "UNUSED" ~>
      state[p] \in {"ZOMBIE", "UNUSED"} \/ chan[p] = SleepLock
=============================================================================
