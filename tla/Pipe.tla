-------------------------------- MODULE Pipe --------------------------------
(***************************************************************************)
(* A pipe of src/src/pipe.c with its readers and writers: pipewrite(),     *)
(* piperead() and pipeclose(), with sleep() and wakeup() on &p->nread and  *)
(* &p->nwrite, and kill() from other CPUs.                                 *)
(*                                                                         *)
(* p->lock is held from acquire() to release() or sleep(); kill() does not *)
(* take it, so it may come between any two steps.  sleep() gives the lock  *)
(* up and goes to sleep in one step (Proc).                                *)
(***************************************************************************)
EXTENDS Integers, FiniteSetsExt

CONSTANTS Readers, Writers, \* processes with the read end, or the write end, open
          Vals,             \* bytes
          PIPESIZE,
          UINT,             \* the counters are counted modulo UINT
          MaxN,             \* largest count given to read() and write()
          NULL

Procs == Readers \union Writers

ASSUME PipeAssumption ==
  /\ PIPESIZE \in Nat \ {0} /\ UINT \in Nat /\ UINT % PIPESIZE = 0 /\ UINT > PIPESIZE
  /\ MaxN \in Nat /\ Readers \intersect Writers = {} /\ NULL \notin Procs

VARIABLES nread, nwrite,       \* bytes read and written, modulo UINT
          data,                \* the ring
          addr,                \* the byte a reader copied last
          lock,                \* the process that holds p->lock
          at,                  \* where a process is
          left,                \* n - i: the bytes it still wants to copy
          open,                \* the processes that have not closed their end
          killed

vars == <<nread, nwrite, data, addr, lock, at, left, open, killed>>
ring == <<nread, nwrite, data, addr>>

readopen == open \intersect Readers # {}
writeopen == open \intersect Writers # {}

Full == nwrite = (nread + PIPESIZE) % UINT
Empty == nread = nwrite

Goto(p, l) == at' = [at EXCEPT ![p] = l]

\* wakeup(&p->nread) wakes the readers, wakeup(&p->nwrite) the writers
wakeup(a, sleepers) ==
  [p \in Procs |-> IF p \in sleepers /\ a[p] = "asleep" THEN "awake" ELSE a[p]]

\* read() or write(): acquire(&p->lock)
Call(p, n) ==
  /\ at[p] = "out" /\ p \in open /\ lock = NULL
  /\ lock' = p
  /\ left' = [left EXCEPT ![p] = n]
  /\ Goto(p, "loop")
  /\ UNCHANGED <<ring, open, killed>>

\* the ends of sleep(): the lock is acquired again
Relock(p) ==
  /\ at[p] = "awake" /\ lock = NULL
  /\ lock' = p
  /\ Goto(p, "loop")
  /\ UNCHANGED <<ring, left, open, killed>>

\* sleep(): killed was looked at before
Sleep(p) ==
  /\ at[p] = "sleep"
  /\ lock' = NULL
  /\ Goto(p, "asleep")
  /\ UNCHANGED <<ring, left, open, killed>>

\* release(&p->lock) and return -1
Fail(p) ==
  /\ lock' = NULL
  /\ Goto(p, "out")
  /\ UNCHANGED <<ring, left, open, killed>>
-----------------------------------------------------------------------------
(* pipewrite() *)

pipewrite_fails(w) ==
  /\ at[w] = "loop" /\ left[w] > 0 /\ Full
  /\ ~readopen \/ killed[w]
  /\ Fail(w)

\* wakeup(&p->nread), then on to sleep()
pipewrite_full(w) ==
  /\ at[w] = "loop" /\ left[w] > 0 /\ Full
  /\ readopen /\ ~killed[w]
  /\ at' = [wakeup(at, Readers) EXCEPT ![w] = "sleep"]
  /\ UNCHANGED <<ring, lock, left, open, killed>>

\* mutant: the ring is one byte too long
pipewrite_byte_Unchecked(w, v) ==
  /\ at[w] = "loop" /\ left[w] > 0
  /\ nwrite # (nread + PIPESIZE + 1) % UINT
  /\ data' = [data EXCEPT ![nwrite % PIPESIZE] = v]
  /\ nwrite' = (nwrite + 1) % UINT
  /\ left' = [left EXCEPT ![w] = @ - 1]
  /\ UNCHANGED <<nread, addr, lock, at, open, killed>>

pipewrite_byte(w, v) ==
  /\ at[w] = "loop" /\ left[w] > 0 /\ ~Full
  /\ data' = [data EXCEPT ![nwrite % PIPESIZE] = v]
  /\ nwrite' = (nwrite + 1) % UINT
  /\ left' = [left EXCEPT ![w] = @ - 1]
  /\ UNCHANGED <<nread, addr, lock, at, open, killed>>

\* mutant: the readers are not woken up
pipewrite_returns_Quiet(w) ==
  /\ at[w] = "loop" /\ left[w] = 0
  /\ Fail(w)

pipewrite_returns(w) ==
  /\ at[w] = "loop" /\ left[w] = 0
  /\ lock' = NULL
  /\ at' = [wakeup(at, Readers) EXCEPT ![w] = "out"]
  /\ UNCHANGED <<ring, left, open, killed>>
-----------------------------------------------------------------------------
(* piperead() *)

piperead_fails(r) ==
  /\ at[r] = "loop" /\ Empty /\ writeopen
  /\ killed[r]
  /\ Fail(r)

piperead_empty(r) ==
  /\ at[r] = "loop" /\ Empty /\ writeopen
  /\ ~killed[r]
  /\ Goto(r, "sleep")
  /\ UNCHANGED <<ring, lock, left, open, killed>>

\* the second loop, which does not wait
piperead_starts(r) ==
  /\ at[r] = "loop" /\ (~Empty \/ ~writeopen)
  /\ Goto(r, "copy")
  /\ UNCHANGED <<ring, lock, left, open, killed>>

piperead_byte(r) ==
  /\ at[r] = "copy" /\ left[r] > 0 /\ ~Empty
  /\ addr' = data[nread % PIPESIZE]
  /\ nread' = (nread + 1) % UINT
  /\ left' = [left EXCEPT ![r] = @ - 1]
  /\ UNCHANGED <<nwrite, data, lock, at, open, killed>>

piperead_returns(r) ==
  /\ at[r] = "copy" /\ (left[r] = 0 \/ Empty)
  /\ lock' = NULL
  /\ at' = [wakeup(at, Writers) EXCEPT ![r] = "out"]
  /\ UNCHANGED <<ring, left, open, killed>>
-----------------------------------------------------------------------------
\* fileclose(): the last process that closes an end calls pipeclose()
pipeclose(p) ==
  /\ at[p] = "out" /\ p \in open /\ lock = NULL
  /\ open' = open \ {p}
  /\ LET side == IF p \in Readers THEN Readers ELSE Writers
     IN at' = IF open \intersect side = {p} THEN wakeup(at, Procs \ side) ELSE at
  /\ UNCHANGED <<ring, lock, left, killed>>

\* kill(), from elsewhere; a killed process does not come back to the pipe
kill(p) ==
  /\ p \in open /\ ~killed[p]
  /\ killed' = [killed EXCEPT ![p] = TRUE]
  /\ at' = wakeup(at, {p})
  /\ UNCHANGED <<ring, lock, left, open>>

Init ==
  /\ nread = 0 /\ nwrite = 0
  /\ data \in [0 .. PIPESIZE - 1 -> Vals]
  /\ \A i, j \in DOMAIN data : data[i] = data[j]
  /\ addr = data[0]
  /\ lock = NULL
  /\ at = [p \in Procs |-> "out"]
  /\ left = [p \in Procs |-> 0]
  /\ open = Procs
  /\ killed = [p \in Procs |-> FALSE]

Write(w) ==
  \/ pipewrite_fails(w) \/ pipewrite_full(w) \/ pipewrite_returns(w)
  \/ \E v \in Vals : pipewrite_byte(w, v)

Read(r) ==
  \/ piperead_fails(r) \/ piperead_empty(r)
  \/ piperead_starts(r) \/ piperead_byte(r) \/ piperead_returns(r)

Step(p) == Relock(p) \/ Sleep(p) \/ (p \in Writers /\ Write(p)) \/ (p \in Readers /\ Read(p))

Enter(p) == ~killed[p] /\ \E n \in 0 .. MaxN : Call(p, n)

Next == \E p \in Procs : Step(p) \/ Enter(p) \/ pipeclose(p) \/ kill(p)

Spec == Init /\ [][Next]_vars
-----------------------------------------------------------------------------
(* Properties *)

\* Every variable has its type.
TypeOK ==
  /\ nread \in 0 .. UINT - 1 /\ nwrite \in 0 .. UINT - 1
  /\ data \in [0 .. PIPESIZE - 1 -> Vals] /\ addr \in Vals
  /\ lock \in Procs \union {NULL}
  /\ at \in [Procs -> {"out", "loop", "copy", "sleep", "asleep", "awake"}]
  /\ left \in [Procs -> 0 .. MaxN]
  /\ open \subseteq Procs
  /\ killed \in [Procs -> BOOLEAN]

F == INSTANCE Fifo
     WITH SIZE <- PIPESIZE, out <- addr,
          q <- [k \in 1 .. (nwrite - nread) % UINT |-> data[(nread + k - 1) % PIPESIZE]]

\* The ring with its two counters is a bounded FIFO of bytes, however reads,
\* writes, kills and closes interleave, and when the counters wrap around.
IsFifo == F!Spec

\* Nobody sleeps without a reason while the lock is free: a reader only on an
\* empty pipe that can still be written, a writer only on a full one that can
\* still be read.  A writer that was killed may have left bytes behind without
\* a wakeup.
NoLostWakeup ==
  /\ TypeOK
  /\ lock = NULL =>
       /\ \A r \in Readers :
            at[r] = "asleep" => writeopen /\ (Empty \/ \E w \in Writers : killed[w])
       /\ \A w \in Writers : at[w] = "asleep" => Full /\ readopen
=============================================================================
