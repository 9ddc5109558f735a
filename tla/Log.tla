--------------------------------- MODULE Log ---------------------------------
(***************************************************************************)
(* The write-ahead log of src/src/log.c: operations that run side by side, *)
(* group commit, and recovery after a crash at any moment, also one during *)
(* recovery.                                                               *)
(*                                                                         *)
(* A block is one disk write, and so is the log's header, which fits into  *)
(* a block (initlog() checks it).  The code between acquire(&log.lock) and *)
(* release() is one step.  The buffer cache keeps a block with B_DIRTY and *)
(* may drop any other one.                                                 *)
(***************************************************************************)
EXTENDS Integers, SequencesExt

CONSTANTS Procs,       \* processes in file-system calls
          Blocks,      \* home locations
          Vals,        \* contents of a block
          MAXOPBLOCKS, \* blocks one operation writes at most
          LOGSIZE,     \* entries of struct logheader
          nlog         \* blocks of the on-disk log, the header included

ASSUME LogAssumption ==
  /\ IsFiniteSet(Procs) /\ Blocks # {} /\ nlog \in Nat \ {0}
  /\ MAXOPBLOCKS \in Nat \ {0} /\ LOGSIZE \in Nat /\ MAXOPBLOCKS <= LOGSIZE

VARIABLES cache,       \* the contents of the buffers
          dirty,       \* the blocks whose buffer has B_DIRTY
          disk,        \* the home locations on disk
          dlog,        \* the log blocks on disk
          dhead,       \* the log header on disk
          lh,          \* log.lh: the first n entries of block[]
          outstanding, \* log.outstanding
          committing,  \* log.committing
          at,          \* where a process is: out of, asleep in begin_op(), or in, an operation
          wrote,       \* the blocks its operation has written
          phase,       \* where commit(), or recover_from_log(), is
          tail         \* its loop variable

vars == <<cache, dirty, disk, dlog, dhead, lh, outstanding, committing, at, wrote,
          phase, tail>>

memory == <<cache, dirty, lh>>
onDisk == <<disk, dlog, dhead>>
calls == <<outstanding, committing, at, wrote>>

\* the system is up, not crashed, panicked or recovering
Up == phase # "panic" /\ (phase = "none" \/ committing)

\* wakeup(&log)
wakeup(s) == [p \in Procs |-> IF s[p] = "asleep" THEN "out" ELSE s[p]]
-----------------------------------------------------------------------------
(* begin_op(), log_write() and end_op() *)

HasSpace == Len(lh) + (outstanding + 1) * MAXOPBLOCKS <= LOGSIZE

begin_op(p) ==
  /\ Up /\ at[p] = "out"
  /\ ~committing /\ HasSpace
  /\ outstanding' = outstanding + 1
  /\ at' = [at EXCEPT ![p] = "in"]
  /\ wrote' = [wrote EXCEPT ![p] = {}]
  /\ UNCHANGED <<memory, onDisk, committing, phase, tail>>

begin_op_sleeps(p) ==
  /\ Up /\ at[p] = "out"
  /\ committing \/ ~HasSpace
  /\ at' = [at EXCEPT ![p] = "asleep"]
  /\ UNCHANGED <<memory, onDisk, outstanding, committing, wrote, phase, tail>>

\* an operation keeps to the number of blocks it may write
MayWrite(p, b) ==
  /\ Up /\ at[p] = "in"
  /\ b \in wrote[p] \/ Cardinality(wrote[p]) < MAXOPBLOCKS

TooBig == Len(lh) >= LOGSIZE \/ Len(lh) >= nlog - 1

\* mutant: the buffer is not pinned
log_write_Unpinned(p, b, v) ==
  /\ MayWrite(p, b) /\ ~TooBig
  /\ cache' = [cache EXCEPT ![b] = v]
  /\ lh' = IF Contains(lh, b) THEN lh ELSE Append(lh, b)
  /\ wrote' = [wrote EXCEPT ![p] = @ \union {b}]
  /\ UNCHANGED <<onDisk, dirty, outstanding, committing, at, phase, tail>>

\* bread(), a change of b->data and log_write()
log_write(p, b, v) ==
  /\ MayWrite(p, b) /\ ~TooBig
  /\ cache' = [cache EXCEPT ![b] = v]
  /\ lh' = IF Contains(lh, b) THEN lh ELSE Append(lh, b)
  /\ dirty' = dirty \union {b}
  /\ wrote' = [wrote EXCEPT ![p] = @ \union {b}]
  /\ UNCHANGED <<onDisk, outstanding, committing, at, phase, tail>>

\* panic("too big a transaction"), also for a block that is in the log already
log_write_panics(p, b) ==
  /\ MayWrite(p, b) /\ TooBig
  /\ phase' = "panic"
  /\ UNCHANGED <<memory, onDisk, calls, tail>>

\* the last operation commits
end_op(p) ==
  /\ Up /\ at[p] = "in"
  /\ outstanding' = outstanding - 1
  /\ IF outstanding = 1
     THEN /\ committing' = TRUE
          /\ at' = [at EXCEPT ![p] = "out"]
          /\ phase' = IF lh = <<>> THEN "committed" ELSE "write_log"
          /\ tail' = 1
     ELSE /\ at' = [wakeup(at) EXCEPT ![p] = "out"]
          /\ UNCHANGED <<committing, phase, tail>>
  /\ UNCHANGED <<memory, onDisk, wrote>>
-----------------------------------------------------------------------------
(* commit() and recover_from_log(): one disk write a step *)

\* mutant: the header is written with the first block
write_log_HeadFirst ==
  /\ phase = "write_log"
  /\ dlog' = [dlog EXCEPT ![tail] = cache[lh[tail]]]
  /\ dhead' = lh
  /\ tail' = tail + 1
  /\ phase' = IF tail = Len(lh) THEN "write_head" ELSE phase
  /\ UNCHANGED <<memory, disk, calls>>

\* write_log(): the tail-th block goes to the log
write_log ==
  /\ phase = "write_log"
  /\ dlog' = [dlog EXCEPT ![tail] = cache[lh[tail]]]
  /\ tail' = tail + 1
  /\ phase' = IF tail = Len(lh) THEN "write_head" ELSE phase
  /\ UNCHANGED <<memory, disk, dhead, calls>>

\* write_head(): the commit itself
write_head ==
  /\ phase = "write_head"
  /\ dhead' = lh
  /\ phase' = "install_trans"
  /\ tail' = 1
  /\ UNCHANGED <<memory, disk, dlog, calls>>

\* install_trans(): bwrite() leaves the buffer without B_DIRTY
install_trans ==
  /\ phase = "install_trans" /\ tail <= Len(lh)
  /\ cache' = [cache EXCEPT ![lh[tail]] = dlog[tail]]
  /\ disk' = [disk EXCEPT ![lh[tail]] = dlog[tail]]
  /\ dirty' = dirty \ {lh[tail]}
  /\ tail' = tail + 1
  /\ UNCHANGED <<dlog, dhead, lh, calls, phase>>

\* write_head() with n = 0, from commit() or from recover_from_log()
clear_head ==
  /\ phase = "install_trans" /\ tail > Len(lh)
  /\ lh' = <<>>
  /\ dhead' = <<>>
  /\ phase' = IF committing THEN "committed" ELSE "none"
  /\ UNCHANGED <<cache, dirty, disk, dlog, calls, tail>>

\* mutant: nobody is told that the commit is over
committed_Quiet ==
  /\ phase = "committed"
  /\ committing' = FALSE
  /\ phase' = "none"
  /\ UNCHANGED <<memory, onDisk, outstanding, at, wrote, tail>>

\* the end of end_op()
committed ==
  /\ phase = "committed"
  /\ committing' = FALSE
  /\ phase' = "none"
  /\ at' = wakeup(at)
  /\ UNCHANGED <<memory, onDisk, outstanding, wrote, tail>>

\* read_head() after a restart
read_head ==
  /\ phase = "read_head"
  /\ lh' = dhead
  /\ phase' = "install_trans"
  /\ tail' = 1
  /\ UNCHANGED <<cache, dirty, onDisk, calls>>

\* the machine restarts; memory is lost
Crash ==
  /\ cache' = disk /\ dirty' = {} /\ lh' = <<>>
  /\ outstanding' = 0 /\ committing' = FALSE
  /\ at' = [p \in Procs |-> "out"] /\ wrote' = [p \in Procs |-> {}]
  /\ phase' = "read_head" /\ tail' = 1
  /\ UNCHANGED onDisk

\* bget() takes the buffer of b for another block, and b is read again later
Evict(b) ==
  /\ b \notin dirty
  /\ cache' = [cache EXCEPT ![b] = disk[b]]
  /\ UNCHANGED <<dirty, onDisk, lh, calls, phase, tail>>
-----------------------------------------------------------------------------
Init ==
  /\ disk \in [Blocks -> Vals] /\ \A b, c \in Blocks : disk[b] = disk[c]
  /\ cache = disk /\ dirty = {} /\ lh = <<>>
  /\ dlog = [i \in 1 .. nlog - 1 |-> disk[CHOOSE b \in Blocks : TRUE]]
  /\ dhead = <<>>
  /\ outstanding = 0 /\ committing = FALSE
  /\ at = [p \in Procs |-> "out"] /\ wrote = [p \in Procs |-> {}]
  /\ phase = "none" /\ tail = 1

Commit == write_log \/ write_head \/ install_trans \/ clear_head \/ committed \/ read_head

Next ==
  \/ \E p \in Procs :
       \/ begin_op(p) \/ begin_op_sleeps(p) \/ end_op(p)
       \/ \E b \in Blocks : log_write_panics(p, b) \/ \E v \in Vals : log_write(p, b, v)
  \/ Commit \/ Crash
  \/ \E b \in Blocks : Evict(b)

Spec == Init /\ [][Next]_vars
-----------------------------------------------------------------------------
(* Properties *)

\* Every variable has its type; the log never has more blocks than the disk has
\* room for.
TypeOK ==
  /\ cache \in [Blocks -> Vals] /\ disk \in [Blocks -> Vals]
  /\ dlog \in [1 .. nlog - 1 -> Vals]
  /\ dirty \subseteq Blocks
  /\ lh \in Seq(Blocks) /\ dhead \in Seq(Blocks)
  /\ Len(lh) < nlog /\ Len(dhead) < nlog
  /\ outstanding = Cardinality({p \in Procs : at[p] = "in"}) /\ committing \in BOOLEAN
  /\ at \in [Procs -> {"out", "asleep", "in"}]
  /\ wrote \in [Procs -> SUBSET Blocks]
  /\ phase \in {"none", "write_log", "write_head", "install_trans", "committed",
                "read_head", "panic"}
  /\ tail \in 1 .. nlog

\* what recover_from_log() would make of the disk
Recovered ==
  [b \in Blocks |-> IF Contains(dhead, b)
                    THEN dlog[CHOOSE i \in 1 .. Len(dhead) : dhead[i] = b]
                    ELSE disk[b]]

A == INSTANCE AtomicDisk
     WITH mem <- IF Up THEN cache ELSE Recovered,
          stable <- Recovered,
          open <- IF Up THEN {p \in Procs : at[p] = "in"} ELSE {}

\* The log makes the disk atomic: whenever the machine crashes, in a commit or in
\* the recovery from an earlier crash, the blocks come back as one of the
\* commits left them, with all writes of an operation or none; and the buffer
\* cache never loses a write before its commit.
Atomic == A!Spec

\* Nothing that was written can be dropped: a buffer that bget() may recycle has the
\* contents of its block on disk, before, during and after a commit; and when no operation
\* is open and no commit under way, everything is on its home location and the log empty.
Durable ==
  /\ TypeOK
  /\ \A b \in Blocks \ dirty : cache[b] = disk[b]
  /\ phase = "none" /\ outstanding = 0 => cache = disk /\ lh = <<>> /\ dhead = <<>>

\* A sleeper in begin_op() has somebody to wake it up: an open operation or a
\* commit.
SleeperHasWaker ==
  (\E p \in Procs : at[p] = "asleep") /\ phase # "panic" => outstanding > 0 \/ committing
=============================================================================
