------------------------------ MODULE ProcProofs ------------------------------
(***************************************************************************)
(* The safety of the process table, for every size of the table and every  *)
(* number of CPUs.                                                         *)
(***************************************************************************)
EXTENDS Proc, NatLemmas

\* ptable.lock belongs to a CPU whose scheduler looks for a process, that is on its way
\* into or out of a process, or whose process is in wait()
Carries(c) ==
  /\ cur[c] = NULL /\ scan[c] > 0 => lock = c
  /\ cur[c] # NULL =>
       /\ scan[c] = cur[c]
       /\ state[cur[c]] \notin {"UNUSED", "EMBRYO"}
       /\ saved[cur[c]] # NULL => lock = c
       /\ saved[cur[c]] = NULL => state[cur[c]] = "RUNNING"
       /\ saved[cur[c]] = NULL /\ pc[cur[c]] = "wait" => lock = c

\* who is not running has a context to resume, and only sleep() in wait() returns to wait()
HasContext(p) ==
  /\ state[p] \in {"RUNNABLE", "SLEEPING", "EMBRYO", "ZOMBIE"} => saved[p] # NULL
  /\ saved[p] \in {"yield", "forkret", "sleep"} => pc[p] # "wait"

\* the slot that fork() works on is its own
Forks(p) ==
  /\ pc[p] \in {"fork", "fork_runnable"} => np[p] # NULL
  /\ np[p] # NULL => state[np[p]] = "EMBRYO"
  /\ \A q \in Procs : np[p] # NULL /\ q # p => np[q] # np[p]

StackInv ==
  /\ StackUsedOnce
  /\ \A c \in CPUs : Carries(c)
  /\ \A p \in Procs : HasContext(p) /\ Forks(p)

Alive(p) == state[p] \notin {"UNUSED", "EMBRYO", "ZOMBIE"}

\* who has been forked has a live parent, and init has none
FamilyInv ==
  /\ Alive(initproc) /\ parent[initproc] = NULL
  /\ \A p \in Procs :
       /\ parent[p] # p
       /\ p # initproc /\ state[p] \notin {"UNUSED", "EMBRYO"} =>
            parent[p] # NULL /\ Alive(parent[p])
       /\ pc[p] = "fork_runnable" => parent[np[p]] = p
  /\ NoZombieMissed

\* a process that holds the spin lock of the sleep lock is executing
SleepInv ==
  /\ SleepLockExclusive /\ NoLostWakeup
  /\ \A p \in Procs :
       /\ pc[p] \in {"test", "sleep", "wakeup"} =>
            \E c \in CPUs : Executes(c, p) /\ slock.lk = c
       /\ pc[p] = "sleep" => slock.pid # NULL

IInv == StackInv /\ FamilyInv /\ SleepInv
-----------------------------------------------------------------------------
\* scheduler() switches to p; allocproc() takes the slot new; wait() frees the child z
Switches(c, p) ==
  /\ state[p] = "RUNNABLE" /\ cur[c] = NULL /\ scan[c] > 0
  /\ cur' = [cur EXCEPT ![c] = p]
  /\ scan' = [scan EXCEPT ![c] = p]
  /\ state' = [state EXCEPT ![p] = "RUNNING"]
  /\ UNCHANGED <<parent, killed, haspid, chan, pc, saved, np, lock, slock>>

Takes(c, p, new) ==
  /\ state[new] = "UNUSED" /\ At(c, p, "user")
  /\ state' = [state EXCEPT ![new] = "EMBRYO"]
  /\ haspid' = [haspid EXCEPT ![new] = TRUE]
  /\ np' = [np EXCEPT ![p] = new]
  /\ saved' = [saved EXCEPT ![new] = "forkret"]
  /\ pc' = [pc EXCEPT ![p] = "fork", ![new] = "user"]
  /\ UNCHANGED <<parent, killed, chan, cur, scan, lock, slock>>

Frees(c, p, z) ==
  /\ parent[z] = p /\ state[z] = "ZOMBIE" /\ At(c, p, "wait")
  /\ state' = [state EXCEPT ![z] = "UNUSED"]
  /\ parent' = [parent EXCEPT ![z] = NULL]
  /\ killed' = [killed EXCEPT ![z] = FALSE]
  /\ haspid' = [haspid EXCEPT ![z] = FALSE]
  /\ lock' = NULL
  /\ pc' = [pc EXCEPT ![p] = "user"]
  /\ UNCHANGED <<chan, saved, np, cur, scan, slock>>

\* allocproc(), wait() and scheduler() find the first slot of a set of slots.
LEMMA MinIsIn ==
  ASSUME NEW T, T \subseteq Nat, T # {}
  PROVE  Min(T) \in T
<1>1. \E x \in T : \A y \in T : x <= y BY Zenon, LeastNat
<1> QED BY Zenon, <1>1 DEF Min

\* wakeup1() makes sleepers RUNNABLE and leaves the others alone.
LEMMA Woken ==
  ASSUME NEW st, NEW chs, NEW p \in Procs
  PROVE  \/ wakeup1(st, chs)[p] = st[p]
         \/ st[p] = "SLEEPING" /\ chan[p] \in chs /\ wakeup1(st, chs)[p] = "RUNNABLE"
BY DEF wakeup1

\* scheduler() switches to a RUNNABLE process.
LEMMA SchedulerPicks ==
  ASSUME TypeOK, NEW c \in CPUs, scheduler_run(c)
  PROVE  \E p \in Procs : Switches(c, p)
<1> USE NprocAssumption DEF TypeOK, Procs
<1> DEFINE T == {r \in scan[c] .. NPROC : state[r] = "RUNNABLE"} \union {NPROC + 1}
<1>1. PICK p \in Procs :
        /\ p = Min(T)
        /\ cur' = [cur EXCEPT ![c] = p]
        /\ scan' = [scan EXCEPT ![c] = p]
        /\ state' = [state EXCEPT ![p] = "RUNNING"]
  BY Zenon DEF scheduler_run
<1>2. p \in T
  <2>1. T \subseteq Nat /\ T # {} BY DEF scheduler_run
  <2> HIDE DEF T
  <2> QED BY Zenon, <1>1, <2>1, MinIsIn
<1>3. state[p] = "RUNNABLE" BY <1>1, <1>2
<1>4. /\ cur[c] = NULL /\ scan[c] > 0
      /\ UNCHANGED <<parent, killed, haspid, chan, pc, saved, np, lock, slock>>
  BY SMTT(30) DEF scheduler_run
<1> QED BY Zenon, <1>1, <1>3, <1>4 DEF Switches

\* allocproc() takes an UNUSED slot.
LEMMA AllocprocTakes ==
  ASSUME TypeOK, NEW c \in CPUs, NEW p \in Procs, allocproc(c, p)
  PROVE  \E new \in Procs : Takes(c, p, new)
<1> DEFINE unused == {r \in Procs : state[r] = "UNUSED"}
<1>1. unused \subseteq Nat /\ unused # {} BY NprocAssumption DEF allocproc, Procs
<1>2. Min(unused) \in unused
  <2> HIDE DEF unused
  <2> QED BY Zenon, <1>1, MinIsIn
<1>3. Min(unused) \in Procs /\ state[Min(unused)] = "UNUSED" BY <1>2
<1> QED BY Zenon, <1>3 DEF allocproc, Takes

\* wait() frees a zombie child.
LEMMA WaitFrees ==
  ASSUME TypeOK, NEW c \in CPUs, NEW p \in Procs, wait_reaps(c, p)
  PROVE  \E z \in Procs : Frees(c, p, z)
<1>1. Zombies(p) \subseteq Nat /\ Zombies(p) # {}
  BY NprocAssumption DEF wait_reaps, Zombies, Children, Procs
<1>2. Min(Zombies(p)) \in Zombies(p) BY <1>1, MinIsIn
<1>3. Min(Zombies(p)) \in Procs /\ parent[Min(Zombies(p))] = p
        /\ state[Min(Zombies(p))] = "ZOMBIE"
  BY <1>2 DEF Zombies, Children
<1> QED BY Zenon, <1>3 DEF wait_reaps, Goto, Frees

\* userinit() starts with one process that has never run.
LEMMA InitIInv == Init => IInv
<1> SUFFICES ASSUME Init PROVE IInv OBVIOUS
<1> USE NprocAssumption, NullAssumption DEF Init, Procs, initproc
<1>1. StackInv
  <2>1. TypeOK BY DEF TypeOK, Channels, SleepLock
  <2> QED BY <2>1 DEF StackInv, StackUsedOnce, Carries, HasContext, Forks
<1>2. FamilyInv BY DEF FamilyInv, Alive, NoZombieMissed
<1>3. SleepInv BY DEF SleepInv, SleepLockExclusive, NoLostWakeup
<1> QED BY <1>1, <1>2, <1>3 DEF IInv

\* ptable.lock, handed over in swtch(), keeps every CPU on a stack of its own.
LEMMA StackStep == StackInv /\ [Next]_vars => StackInv'
<1> SUFFICES ASSUME StackInv, [Next]_vars PROVE StackInv' OBVIOUS
<1> USE NprocAssumption, NullAssumption
    DEF StackInv, StackUsedOnce, TypeOK, Carries, HasContext, Forks, Procs, Channels, initproc
<1>1. CASE UNCHANGED vars BY <1>1 DEF vars
<1>2. ASSUME NEW c \in CPUs, scheduler_acquire(c) PROVE StackInv'
  BY <1>2 DEF scheduler_acquire
<1>3. ASSUME NEW c \in CPUs, scheduler_run(c) PROVE StackInv'
  <2>1. TypeOK OBVIOUS
  <2>2. PICK p \in Procs : Switches(c, p) BY Zenon, <1>3, <2>1, SchedulerPicks
  <2> QED BY SMTT(30), <2>2 DEF Switches
<1>4. ASSUME NEW c \in CPUs, scheduler_release(c) PROVE StackInv'
  BY <1>4 DEF scheduler_release
<1>5. ASSUME NEW c \in CPUs, sched(c) PROVE StackInv'
  BY <1>5 DEF sched
<1>6. ASSUME NEW c \in CPUs, NEW p \in Procs, resume_release(c, p) PROVE StackInv'
  BY SMTT(30), <1>6 DEF resume_release, Resumes
<1>7. ASSUME NEW c \in CPUs, NEW p \in Procs, resume_wait(c, p) PROVE StackInv'
  BY <1>7 DEF resume_wait, Resumes
<1>8. ASSUME NEW c \in CPUs, NEW p \in Procs, resume_sleep(c, p) PROVE StackInv'
  BY <1>8 DEF resume_sleep, Resumes
<1>9. ASSUME NEW c \in CPUs, NEW p \in Procs, yield(c, p) PROVE StackInv'
  BY <1>9 DEF yield, Executes, Leaves
<1>10. ASSUME NEW c \in CPUs, NEW p \in Procs, allocproc(c, p) PROVE StackInv'
  <2>1. TypeOK OBVIOUS
  <2>2. PICK new \in Procs : Takes(c, p, new) BY Zenon, <1>10, <2>1, AllocprocTakes
  <2> QED BY SMTT(30), <2>2 DEF At, Executes, Takes
<1>11. ASSUME NEW c \in CPUs, NEW p \in Procs, fork_fails(c, p) PROVE StackInv'
  BY <1>11 DEF fork_fails, At, Executes, Goto
<1>12. ASSUME NEW c \in CPUs, NEW p \in Procs, fork_parent(c, p) PROVE StackInv'
  BY <1>12 DEF fork_parent, At, Executes, Goto
<1>13. ASSUME NEW c \in CPUs, NEW p \in Procs, fork_runnable(c, p) PROVE StackInv'
  BY <1>13 DEF fork_runnable, At, Executes, Goto
<1>14. ASSUME NEW c \in CPUs, NEW p \in Procs, exit(c, p) PROVE StackInv'
  <2>1. \A q \in Procs : \/ wakeup1(state, Told(p))[q] = state[q]
                         \/ state[q] = "SLEEPING" /\ wakeup1(state, Told(p))[q] = "RUNNABLE"
    BY Woken
  <2>2. wakeup1(state, Told(p)) \in [Procs -> {"UNUSED", "EMBRYO", "SLEEPING", "RUNNABLE",
                                               "RUNNING", "ZOMBIE"}]
    BY DEF wakeup1
  <2>3. Reparented(p) \in [Procs -> Procs \union {NULL}] BY DEF Reparented
  <2> QED BY <1>14, <2>1, <2>2, <2>3 DEF exit, At, Executes
<1>15. ASSUME NEW c \in CPUs, NEW p \in Procs, wait(c, p) PROVE StackInv'
  BY <1>15 DEF wait, At, Executes, Goto
<1>16. ASSUME NEW c \in CPUs, NEW p \in Procs, wait_reaps(c, p) PROVE StackInv'
  <2>1. TypeOK OBVIOUS
  <2>2. PICK z \in Procs : Frees(c, p, z) BY Zenon, <1>16, <2>1, WaitFrees
  <2>3. \A d \in CPUs : cur[d] # z BY <2>2 DEF At, Executes, Frees
  <2>4. TypeOK' BY <2>2 DEF Frees
  <2>5. StackUsedOnce' BY <2>2, <2>3, <2>4 DEF Frees
  <2>6. \A d \in CPUs : Carries(d)' BY <2>2, <2>3 DEF At, Executes, Frees
  <2>7. \A q \in Procs : HasContext(q)' /\ Forks(q)' BY <2>2 DEF At, Executes, Frees
  <2> QED BY SMTT(30), <2>5, <2>6, <2>7
<1>17. ASSUME NEW c \in CPUs, NEW p \in Procs, wait_returns(c, p) PROVE StackInv'
  BY <1>17 DEF wait_returns, At, Executes, Goto
<1>18. ASSUME NEW c \in CPUs, NEW p \in Procs, wait_sleeps(c, p) PROVE StackInv'
  BY <1>18 DEF wait_sleeps, At, Executes, Leaves
<1>19. ASSUME NEW c \in CPUs, NEW p \in Procs, NEW t \in Procs, kill(c, p, t) PROVE StackInv'
  BY <1>19 DEF kill, At, Executes
<1>20. ASSUME NEW c \in CPUs, NEW p \in Procs, acquiresleep(c, p) PROVE StackInv'
  <2>1. slock' \in [lk : CPUs \union {NULL}, pid : Procs \union {NULL}]
    BY Zenon, <1>20 DEF acquiresleep
  <2> QED BY <1>20, <2>1 DEF acquiresleep, At, Executes, Goto
<1>21. ASSUME NEW c \in CPUs, NEW p \in Procs, acquiresleep_locked(c, p) PROVE StackInv'
  BY <1>21 DEF acquiresleep_locked, At, Executes, Goto
<1>22. ASSUME NEW c \in CPUs, NEW p \in Procs, acquiresleep_takes(c, p) PROVE StackInv'
  BY <1>22 DEF acquiresleep_takes, At, Executes, Goto
<1>23. ASSUME NEW c \in CPUs, NEW p \in Procs, sleep(c, p) PROVE StackInv'
  <2>1. slock' \in [lk : CPUs \union {NULL}, pid : Procs \union {NULL}] BY Zenon, <1>23 DEF sleep
  <2> QED BY SMTT(30), <1>23, <2>1 DEF sleep, At, Executes, Goto, Leaves, SleepLock
<1>24. ASSUME NEW c \in CPUs, NEW p \in Procs, releasesleep(c, p) PROVE StackInv'
  BY <1>24 DEF releasesleep, At, Executes, Goto
<1>25. ASSUME NEW c \in CPUs, NEW p \in Procs, wakeup(c, p) PROVE StackInv'
  <2>1. \A q \in Procs : \/ state'[q] = state[q]
                         \/ state[q] = "SLEEPING" /\ state'[q] = "RUNNABLE"
    BY <1>25, Woken DEF wakeup
  <2>2. state' \in [Procs -> {"UNUSED", "EMBRYO", "SLEEPING", "RUNNABLE", "RUNNING", "ZOMBIE"}]
    BY <1>25 DEF wakeup, wakeup1
  <2>3. slock' \in [lk : CPUs \union {NULL}, pid : Procs \union {NULL}] BY Zenon, <1>25 DEF wakeup
  <2>4. /\ cur[c] = p /\ pc' = [pc EXCEPT ![p] = "user"]
        /\ UNCHANGED <<parent, killed, haspid, chan, saved, np, cur, scan, lock>>
    BY <1>25 DEF wakeup, At, Executes, Goto
  <2> QED BY <2>1, <2>2, <2>3, <2>4
<1> HIDE DEF StackInv, StackUsedOnce, TypeOK, Carries, HasContext, Forks, Procs, Channels, initproc
<1>26. ASSUME NEW c \in CPUs, NEW p \in Procs, Proceeds(c, p) PROVE StackInv'
  BY Zenon, <1>10, <1>11, <1>12, <1>13, <1>14, <1>15, <1>16, <1>17, <1>18, <1>19, <1>20, <1>21,
     <1>22, <1>23, <1>24, <1>25, <1>26 DEF Proceeds
<1>27. ASSUME NEW c \in CPUs, Step(c) PROVE StackInv'
  BY Zenon, <1>2, <1>3, <1>4, <1>5, <1>6, <1>7, <1>8, <1>26, <1>27 DEF Step, scheduler, Resume
<1> QED BY Zenon, <1>1, <1>9, <1>27 DEF Next

\* exit() and wait() keep every zombie with a parent that will find it.
LEMMA FamilyStep == StackInv /\ FamilyInv /\ [Next]_vars => FamilyInv'
<1> SUFFICES ASSUME StackInv, FamilyInv, [Next]_vars PROVE FamilyInv' OBVIOUS
<1> USE NprocAssumption, NullAssumption
    DEF FamilyInv, Alive, NoZombieMissed, StackInv, StackUsedOnce, TypeOK, Forks, Procs, initproc
<1>1. CASE UNCHANGED vars BY <1>1 DEF vars
<1>2. ASSUME NEW c \in CPUs, scheduler_acquire(c) PROVE FamilyInv'
  BY <1>2 DEF scheduler_acquire
<1>3. ASSUME NEW c \in CPUs, scheduler_run(c) PROVE FamilyInv'
  <2>1. TypeOK OBVIOUS
  <2>2. PICK p \in Procs : Switches(c, p) BY Zenon, <1>3, <2>1, SchedulerPicks
  <2> QED BY <2>2 DEF Switches
<1>4. ASSUME NEW c \in CPUs, scheduler_release(c) PROVE FamilyInv'
  BY <1>4 DEF scheduler_release
<1>5. ASSUME NEW c \in CPUs, sched(c) PROVE FamilyInv'
  BY <1>5 DEF sched
<1>6. ASSUME NEW c \in CPUs, NEW p \in Procs, resume_release(c, p) PROVE FamilyInv'
  BY <1>6 DEF resume_release, Resumes
<1>7. ASSUME NEW c \in CPUs, NEW p \in Procs, resume_wait(c, p) PROVE FamilyInv'
  BY <1>7 DEF resume_wait, Resumes
<1>8. ASSUME NEW c \in CPUs, NEW p \in Procs, resume_sleep(c, p) PROVE FamilyInv'
  BY <1>8 DEF resume_sleep, Resumes
<1>9. ASSUME NEW c \in CPUs, NEW p \in Procs, yield(c, p) PROVE FamilyInv'
  BY <1>9 DEF yield, Executes, Leaves
<1>10. ASSUME NEW c \in CPUs, NEW p \in Procs, allocproc(c, p) PROVE FamilyInv'
  <2>1. TypeOK OBVIOUS
  <2>2. PICK new \in Procs : Takes(c, p, new) BY Zenon, <1>10, <2>1, AllocprocTakes
  <2> QED BY <2>2 DEF At, Executes, Takes
<1>11. ASSUME NEW c \in CPUs, NEW p \in Procs, fork_fails(c, p) PROVE FamilyInv'
  BY <1>11 DEF fork_fails, At, Executes, Goto
<1>12. ASSUME NEW c \in CPUs, NEW p \in Procs, fork_parent(c, p) PROVE FamilyInv'
  BY <1>12 DEF fork_parent, At, Executes, Goto
<1>13. ASSUME NEW c \in CPUs, NEW p \in Procs, fork_runnable(c, p) PROVE FamilyInv'
  BY <1>13 DEF fork_runnable, At, Executes, Goto
<1>14. ASSUME NEW c \in CPUs, NEW p \in Procs, exit(c, p) PROVE FamilyInv'
  <2>1. /\ p # initproc /\ state[p] = "RUNNING" /\ pc[p] = "user"
        /\ state'[p] = "ZOMBIE" /\ UNCHANGED <<chan, pc, np>>
    BY <1>14 DEF exit, At, Executes, wakeup1
  <2>2. \A q \in Procs \ {p} :
          /\ \/ state'[q] = state[q]
             \/ state[q] = "SLEEPING" /\ state'[q] = "RUNNABLE"
          /\ ~(state'[q] = "SLEEPING" /\ chan[q] \in Told(p))
    BY <1>14 DEF exit, wakeup1
  <2>3. \A q \in Procs : parent'[q] = IF parent[q] = p THEN initproc ELSE parent[q]
    BY <1>14 DEF exit, Reparented, Children
  <2>4. parent[p] \in Told(p) /\ (Zombies(p) # {} => initproc \in Told(p)) BY DEF Told
  <2>5. \A q \in Procs : state[q] = "ZOMBIE" /\ parent[q] = p => initproc \in Told(p)
    BY Zenon, <2>4 DEF Zombies, Children
  <2>6. /\ Alive(initproc)' /\ parent'[initproc] = NULL
        /\ \A q \in Procs : parent'[q] # q /\ (pc'[q] = "fork_runnable" => parent'[np'[q]] = q)
    BY <2>1, <2>2, <2>3
  <2>7. \A q \in Procs : q # initproc /\ state'[q] \notin {"UNUSED", "EMBRYO"} =>
          parent'[q] \in Procs \ {p} /\ Alive(parent[q])'
    <3> SUFFICES ASSUME NEW q \in Procs, q # initproc, state'[q] \notin {"UNUSED", "EMBRYO"}
                 PROVE  parent'[q] \in Procs \ {p} /\ Alive(parent[q])'
      BY Zenon
    <3>1. parent[q] \in Procs /\ Alive(parent[q])
      <4>1. state[q] \notin {"UNUSED", "EMBRYO"} BY Zenon, <2>1, <2>2
      <4> QED BY <4>1
    <3>2. parent'[q] \in Procs \ {p} /\ Alive(parent'[q]) BY SMTT(30), <2>1, <2>3, <3>1
    <3> QED BY Zenon, <2>2, <3>2
  <2>8. NoZombieMissed'
    <3> SUFFICES ASSUME NEW z \in Procs, state'[z] = "ZOMBIE"
                 PROVE  /\ parent'[z] # NULL /\ Alive(parent[z])'
                        /\ ~(state'[parent'[z]] = "SLEEPING" /\ chan'[parent'[z]] = parent'[z])
      BY Zenon
    <3>1. parent'[z] \in Procs \ {p} /\ Alive(parent[z])' BY ZenonT(30), <2>6, <2>7
    <3>2. CASE z = p \/ parent[z] = p
      <4>1. parent'[z] \in Told(p) BY <2>1, <2>2, <2>3, <2>4, <2>5, <3>1, <3>2
      <4> QED BY <2>1, <2>2, <3>1, <4>1
    <3>3. CASE z # p /\ parent[z] # p
      <4>1. state[z] = "ZOMBIE" /\ parent'[z] = parent[z] BY <2>2, <2>3, <3>3
      <4> QED BY <2>1, <2>2, <3>1, <4>1
    <3> QED BY <3>2, <3>3
  <2> QED BY <2>6, <2>7, <2>8
<1>15. ASSUME NEW c \in CPUs, NEW p \in Procs, wait(c, p) PROVE FamilyInv'
  BY <1>15 DEF wait, At, Executes, Goto
<1>16. ASSUME NEW c \in CPUs, NEW p \in Procs, wait_reaps(c, p) PROVE FamilyInv'
  <2>1. TypeOK OBVIOUS
  <2>2. PICK z \in Procs : Frees(c, p, z) BY Zenon, <1>16, <2>1, WaitFrees
  <2> QED BY <2>2 DEF At, Executes, Frees
<1>17. ASSUME NEW c \in CPUs, NEW p \in Procs, wait_returns(c, p) PROVE FamilyInv'
  BY <1>17 DEF wait_returns, At, Executes, Goto
<1>18. ASSUME NEW c \in CPUs, NEW p \in Procs, wait_sleeps(c, p) PROVE FamilyInv'
  <2>1. /\ state[p] = "RUNNING" /\ pc[p] = "wait"
        /\ \A q \in Procs : state[q] = "ZOMBIE" => parent[q] # p
        /\ state' = [state EXCEPT ![p] = "SLEEPING"] /\ chan' = [chan EXCEPT ![p] = p]
        /\ UNCHANGED <<parent, pc, np>>
    BY Zenon, <1>18 DEF wait_sleeps, At, Executes, Leaves, Zombies, Children
  <2>2. NoZombieMissed' BY <2>1
  <2> QED BY <2>1, <2>2
<1>19. ASSUME NEW c \in CPUs, NEW p \in Procs, NEW t \in Procs, kill(c, p, t) PROVE FamilyInv'
  BY <1>19 DEF kill, At, Executes
<1>20. ASSUME NEW c \in CPUs, NEW p \in Procs, acquiresleep(c, p) PROVE FamilyInv'
  BY <1>20 DEF acquiresleep, At, Executes, Goto
<1>21. ASSUME NEW c \in CPUs, NEW p \in Procs, acquiresleep_locked(c, p) PROVE FamilyInv'
  BY <1>21 DEF acquiresleep_locked, At, Executes, Goto
<1>22. ASSUME NEW c \in CPUs, NEW p \in Procs, acquiresleep_takes(c, p) PROVE FamilyInv'
  BY <1>22 DEF acquiresleep_takes, At, Executes, Goto
<1>23. ASSUME NEW c \in CPUs, NEW p \in Procs, sleep(c, p) PROVE FamilyInv'
  BY <1>23 DEF sleep, At, Executes, Goto, Leaves, SleepLock
<1>24. ASSUME NEW c \in CPUs, NEW p \in Procs, releasesleep(c, p) PROVE FamilyInv'
  BY <1>24 DEF releasesleep, At, Executes, Goto
<1>25. ASSUME NEW c \in CPUs, NEW p \in Procs, wakeup(c, p) PROVE FamilyInv'
  <2>1. \A q \in Procs : \/ state'[q] = state[q]
                         \/ state[q] = "SLEEPING" /\ state'[q] = "RUNNABLE"
    BY <1>25, Woken DEF wakeup
  <2>2. pc' = [pc EXCEPT ![p] = "user"] /\ UNCHANGED <<parent, chan, np>>
    BY <1>25 DEF wakeup, Goto
  <2>3. \A q \in Procs : Alive(q)' <=> Alive(q) BY <2>1
  <2>4. NoZombieMissed' BY <2>1, <2>2, <2>3
  <2>5. pc[p] = "wakeup" BY <1>25 DEF wakeup, At
  <2> QED BY <2>1, <2>2, <2>3, <2>4, <2>5
<1> HIDE DEF FamilyInv, Alive, NoZombieMissed, StackInv, StackUsedOnce, TypeOK, Forks, Procs,
             initproc
<1>26. ASSUME NEW c \in CPUs, NEW p \in Procs, Proceeds(c, p) PROVE FamilyInv'
  BY Zenon, <1>10, <1>11, <1>12, <1>13, <1>14, <1>15, <1>16, <1>17, <1>18, <1>19, <1>20, <1>21,
     <1>22, <1>23, <1>24, <1>25, <1>26 DEF Proceeds
<1>27. ASSUME NEW c \in CPUs, Step(c) PROVE FamilyInv'
  BY Zenon, <1>2, <1>3, <1>4, <1>5, <1>6, <1>7, <1>8, <1>26, <1>27 DEF Step, scheduler, Resume
<1> QED BY Zenon, <1>1, <1>9, <1>27 DEF Next

\* acquiresleep(), releasesleep() and sleep() lose no wakeup and admit one process.
LEMMA SleepStep == StackInv /\ SleepInv /\ [Next]_vars => SleepInv'
<1> SUFFICES ASSUME StackInv, SleepInv, [Next]_vars PROVE SleepInv' OBVIOUS
<1> USE NprocAssumption, NullAssumption
  DEF SleepInv, SleepLockExclusive, NoLostWakeup, Executes, StackInv, StackUsedOnce, TypeOK,
      Carries, Procs, Channels, SleepLock, initproc
<1>1. CASE UNCHANGED vars BY <1>1 DEF vars
<1>2. ASSUME NEW c \in CPUs, scheduler_acquire(c) PROVE SleepInv'
  BY <1>2 DEF scheduler_acquire
<1>3. ASSUME NEW c \in CPUs, scheduler_run(c) PROVE SleepInv'
  <2>1. TypeOK OBVIOUS
  <2>2. PICK p \in Procs : Switches(c, p) BY Zenon, <1>3, <2>1, SchedulerPicks
  <2> QED BY <2>2 DEF Switches
<1>4. ASSUME NEW c \in CPUs, scheduler_release(c) PROVE SleepInv'
  BY <1>4 DEF scheduler_release
<1>5. ASSUME NEW c \in CPUs, sched(c) PROVE SleepInv'
  BY <1>5 DEF sched
<1>6. ASSUME NEW c \in CPUs, NEW p \in Procs, resume_release(c, p) PROVE SleepInv'
  BY <1>6 DEF resume_release, Resumes
<1>7. ASSUME NEW c \in CPUs, NEW p \in Procs, resume_wait(c, p) PROVE SleepInv'
  BY <1>7 DEF resume_wait, Resumes
<1>8. ASSUME NEW c \in CPUs, NEW p \in Procs, resume_sleep(c, p) PROVE SleepInv'
  BY <1>8 DEF resume_sleep, Resumes
<1>9. ASSUME NEW c \in CPUs, NEW p \in Procs, yield(c, p) PROVE SleepInv'
  BY <1>9 DEF yield, Leaves
<1>10. ASSUME NEW c \in CPUs, NEW p \in Procs, allocproc(c, p) PROVE SleepInv'
  <2>1. TypeOK OBVIOUS
  <2>2. PICK new \in Procs : Takes(c, p, new) BY Zenon, <1>10, <2>1, AllocprocTakes
  <2> QED BY <2>2 DEF At, Takes
<1>11. ASSUME NEW c \in CPUs, NEW p \in Procs, fork_fails(c, p) PROVE SleepInv'
  BY <1>11 DEF fork_fails, At, Goto, Forks
<1>12. ASSUME NEW c \in CPUs, NEW p \in Procs, fork_parent(c, p) PROVE SleepInv'
  BY <1>12 DEF fork_parent, At, Goto
<1>13. ASSUME NEW c \in CPUs, NEW p \in Procs, fork_runnable(c, p) PROVE SleepInv'
  BY <1>13 DEF fork_runnable, At, Goto, Forks
<1>14. ASSUME NEW c \in CPUs, NEW p \in Procs, exit(c, p) PROVE SleepInv'
  <2>1. \A q \in Procs \ {p} : \/ state'[q] = state[q]
                               \/ state[q] = "SLEEPING" /\ state'[q] = "RUNNABLE"
    BY SMTT(30), <1>14 DEF exit, wakeup1
  <2>2. /\ Executes(c, p) /\ pc[p] = "user" /\ state'[p] = "ZOMBIE"
        /\ saved' = [saved EXCEPT ![p] = "exit"] /\ UNCHANGED <<chan, pc, cur, slock>>
    BY SMTT(30), <1>14 DEF exit, At, wakeup1
  <2>3. \A q \in Procs : pc[q] \in {"test", "sleep", "wakeup"} =>
          q # p /\ \E d \in CPUs : Executes(d, q)' /\ slock.lk = d
    BY <2>1, <2>2
  <2>4. \A q \in Procs : state'[q] = "SLEEPING" => state[q] = "SLEEPING" BY <2>1, <2>2
  <2>5. SleepLockExclusive' /\ NoLostWakeup' BY <2>2, <2>4
  <2> QED BY <2>2, <2>3, <2>5
<1>15. ASSUME NEW c \in CPUs, NEW p \in Procs, wait(c, p) PROVE SleepInv'
  BY <1>15 DEF wait, At, Goto
<1>16. ASSUME NEW c \in CPUs, NEW p \in Procs, wait_reaps(c, p) PROVE SleepInv'
  <2>1. TypeOK OBVIOUS
  <2>2. PICK z \in Procs : Frees(c, p, z) BY Zenon, <1>16, <2>1, WaitFrees
  <2> QED BY SMTT(30), <2>2 DEF At, Frees
<1>17. ASSUME NEW c \in CPUs, NEW p \in Procs, wait_returns(c, p) PROVE SleepInv'
  BY <1>17 DEF wait_returns, At, Goto
<1>18. ASSUME NEW c \in CPUs, NEW p \in Procs, wait_sleeps(c, p) PROVE SleepInv'
  BY <1>18 DEF wait_sleeps, At, Leaves
<1>19. ASSUME NEW c \in CPUs, NEW p \in Procs, NEW t \in Procs, kill(c, p, t) PROVE SleepInv'
  BY <1>19 DEF kill, At
<1>20. ASSUME NEW c \in CPUs, NEW p \in Procs, acquiresleep(c, p) PROVE SleepInv'
  BY <1>20 DEF acquiresleep, At, Goto
<1>21. ASSUME NEW c \in CPUs, NEW p \in Procs, acquiresleep_locked(c, p) PROVE SleepInv'
  BY SMTT(30), <1>21 DEF acquiresleep_locked, At, Goto
<1>22. ASSUME NEW c \in CPUs, NEW p \in Procs, acquiresleep_takes(c, p) PROVE SleepInv'
  BY <1>22 DEF acquiresleep_takes, At, Goto
<1>23. ASSUME NEW c \in CPUs, NEW p \in Procs, sleep(c, p) PROVE SleepInv'
  BY SMTT(30), <1>23 DEF sleep, At, Goto, Leaves
<1>24. ASSUME NEW c \in CPUs, NEW p \in Procs, releasesleep(c, p) PROVE SleepInv'
  BY <1>24 DEF releasesleep, At, Goto
<1>25. ASSUME NEW c \in CPUs, NEW p \in Procs, wakeup(c, p) PROVE SleepInv'
  <2>1. \A q \in Procs : \/ state'[q] = state[q]
                         \/ state[q] = "SLEEPING" /\ state'[q] = "RUNNABLE"
    BY <1>25, Woken DEF wakeup
  <2>2. \A q \in Procs : ~(state'[q] = "SLEEPING" /\ chan[q] = SleepLock)
    BY <1>25 DEF wakeup, wakeup1
  <2>3. /\ Executes(c, p) /\ pc[p] = "wakeup"
        /\ pc' = [pc EXCEPT ![p] = "user"] /\ slock' = [slock EXCEPT !.lk = NULL]
        /\ UNCHANGED <<cur, saved, chan>>
    BY SMTT(30), <1>25 DEF wakeup, At, Goto
  <2> QED BY <2>1, <2>2, <2>3
<1> HIDE DEF SleepInv, SleepLockExclusive, NoLostWakeup, Executes, StackInv, StackUsedOnce, TypeOK,
      Carries, Procs, Channels, SleepLock, initproc
<1>26. ASSUME NEW c \in CPUs, NEW p \in Procs, Proceeds(c, p) PROVE SleepInv'
  BY Zenon, <1>10, <1>11, <1>12, <1>13, <1>14, <1>15, <1>16, <1>17, <1>18, <1>19, <1>20, <1>21,
     <1>22, <1>23, <1>24, <1>25, <1>26 DEF Proceeds
<1>27. ASSUME NEW c \in CPUs, Step(c) PROVE SleepInv'
  BY Zenon, <1>2, <1>3, <1>4, <1>5, <1>6, <1>7, <1>8, <1>26, <1>27 DEF Step, scheduler, Resume
<1> QED BY Zenon, <1>1, <1>9, <1>27 DEF Next
-----------------------------------------------------------------------------
\* All of it holds in every state of the process table.
THEOREM Invariance == Spec => []IInv
<1>1. IInv /\ [Next]_vars => IInv' BY StackStep, FamilyStep, SleepStep DEF IInv
<1> QED BY InitIInv, <1>1, PTL DEF Spec

\* No CPU runs on the kernel stack of a process that another CPU has not left, and none is
\* freed or set up anew while it is in use: exit(), yield() and sleep() carry ptable.lock
\* through swtch(), for any number of processes and CPUs.
THEOREM StacksSafe == Spec => []StackUsedOnce
<1>1. IInv => StackUsedOnce BY DEF IInv, StackInv
<1> QED BY Invariance, <1>1, PTL

\* A zombie always has a live parent that does not sleep in wait(): exit() passes children
\* on to init and wakes the right parents, in whatever order a family exits.
THEOREM ZombiesFound == Spec => []NoZombieMissed
<1>1. IInv => NoZombieMissed BY DEF IInv, FamilyInv
<1> QED BY Invariance, <1>1, PTL

\* One process at a time is between acquiresleep() and releasesleep().
THEOREM SleepLockSafe == Spec => []SleepLockExclusive
<1>1. IInv => SleepLockExclusive BY DEF IInv, SleepInv
<1> QED BY Invariance, <1>1, PTL

\* sleep() misses no wakeup(): it takes ptable.lock before it gives up the lock that
\* protects the condition.
THEOREM WakeupsArrive == Spec => []NoLostWakeup
<1>1. IInv => NoLostWakeup BY DEF IInv, SleepInv
<1> QED BY Invariance, <1>1, PTL
=============================================================================
