-------------------------------- MODULE Bcache --------------------------------
(***************************************************************************)
(* The buffer cache of src/src/bio.c on the disk driver of src/src/ide.c:  *)
(* bread(), bwrite() and brelse() of several processes, the request queue  *)
(* and the disk interrupt, and buffers that log_write() pins with B_DIRTY. *)
(*                                                                         *)
(* The code under bcache.lock is one step, and so is the code under        *)
(* idelock; acquiresleep() is a step that waits (Proc).                    *)
(***************************************************************************)
EXTENDS Integers, SequencesExt

CONSTANTS Procs, Blocks, Vals, NULL,
          NBUF,      \* number of buffers
          DiskErrors \* the results a read can have: {FALSE}, or {FALSE, TRUE}

ASSUME BcacheAssumption == NBUF \in Nat \ {0} /\ DiskErrors \subseteq BOOLEAN

Bufs == 1 .. NBUF

VARIABLES buf,      \* the buffers: blockno, refcnt, B_VALID, B_DIRTY, data, lock
          mru,      \* bcache.head's list, most recently used first
          disk,
          idequeue, \* the requests, the active one first
          pc,       \* where a process is
          b,        \* its buffer
          want,     \* the block it asked for
          panicked  \* "bget: no buffers"

vars == <<buf, mru, disk, idequeue, pc, b, want, panicked>>

At(p, l) == pc[p] = l /\ ~panicked

Goto(p, l) == pc' = [pc EXCEPT ![p] = l]
-----------------------------------------------------------------------------
(* bget() *)

Cached(k) == {i \in Bufs : buf[i].blockno = k}

\* mutant: a pinned buffer is recycled
Unused_Pinned == SelectSeq(mru, LAMBDA i : buf[i].refcnt = 0)

\* the buffers that can be recycled, the least recently used one last
Unused == SelectSeq(mru, LAMBDA i : buf[i].refcnt = 0 /\ ~buf[i].dirty)

bget_hit(p, k) ==
  /\ At(p, "out") /\ Cached(k) # {}
  /\ \E i \in Cached(k) :
       /\ buf' = [buf EXCEPT ![i].refcnt = @ + 1]
       /\ b' = [b EXCEPT ![p] = i]
  /\ want' = [want EXCEPT ![p] = k]
  /\ Goto(p, "acquiresleep")
  /\ UNCHANGED <<mru, disk, idequeue, panicked>>

bget_recycle(p, k) ==
  /\ At(p, "out") /\ Cached(k) = {} /\ Unused # <<>>
  /\ LET i == Last(Unused)
     IN /\ buf' = [buf EXCEPT ![i] = [@ EXCEPT !.blockno = k, !.refcnt = 1,
                                               !.valid = FALSE, !.dirty = FALSE]]
        /\ b' = [b EXCEPT ![p] = i]
  /\ want' = [want EXCEPT ![p] = k]
  /\ Goto(p, "acquiresleep")
  /\ UNCHANGED <<mru, disk, idequeue, panicked>>

bget_panics(p, k) ==
  /\ At(p, "out") /\ Cached(k) = {} /\ Unused = <<>>
  /\ panicked' = TRUE
  /\ UNCHANGED <<buf, mru, disk, idequeue, pc, b, want>>

\* acquiresleep(&b->lock), and bread()'s test of B_VALID
acquiresleep(p) ==
  /\ At(p, "acquiresleep") /\ buf[b[p]].lock = NULL
  /\ buf' = [buf EXCEPT ![b[p]].lock = p]
  /\ Goto(p, IF buf[b[p]].valid THEN "bread" ELSE "iderw")
  /\ UNCHANGED <<mru, disk, idequeue, b, want, panicked>>
-----------------------------------------------------------------------------
(* iderw() and ideintr() *)

\* the request goes to the end of the queue, and the process sleeps
iderw(p) ==
  /\ At(p, "iderw")
  /\ idequeue' = Append(idequeue, b[p])
  /\ Goto(p, "asleep")
  /\ UNCHANGED <<buf, mru, disk, b, want, panicked>>

\* mutant: the processes are not woken up
ideintr_Quiet(error) ==
  /\ idequeue # <<>> /\ ~panicked
  /\ LET i == Head(idequeue)
     IN /\ disk' = IF buf[i].dirty THEN [disk EXCEPT ![buf[i].blockno] = buf[i].data]
                                   ELSE disk
        /\ buf' = [buf EXCEPT ![i] = [@ EXCEPT !.valid = TRUE, !.dirty = FALSE,
                     !.data = IF buf[i].dirty \/ error THEN @ ELSE disk[buf[i].blockno]]]
  /\ idequeue' = Tail(idequeue)
  /\ UNCHANGED <<mru, pc, b, want, panicked>>

\* The disk has done the active request, in the direction B_DIRTY said when
\* idestart() started it; after a read error the buffer keeps its data.  Whoever
\* sleeps on the buffer is woken up and finds it valid and clean.
ideintr(error) ==
  /\ idequeue # <<>> /\ ~panicked
  /\ LET i == Head(idequeue)
     IN /\ disk' = IF buf[i].dirty THEN [disk EXCEPT ![buf[i].blockno] = buf[i].data]
                                   ELSE disk
        /\ buf' = [buf EXCEPT ![i] = [@ EXCEPT !.valid = TRUE, !.dirty = FALSE,
                     !.data = IF buf[i].dirty \/ error THEN @ ELSE disk[buf[i].blockno]]]
        /\ pc' = [p \in Procs |-> IF pc[p] = "asleep" /\ b[p] = i THEN "bread" ELSE pc[p]]
  /\ idequeue' = Tail(idequeue)
  /\ UNCHANGED <<mru, b, want, panicked>>
-----------------------------------------------------------------------------
(* the holder of a buffer *)

\* new contents, written by bwrite()
bwrite(p, v) ==
  /\ At(p, "bread")
  /\ buf' = [buf EXCEPT ![b[p]] = [@ EXCEPT !.data = v, !.dirty = TRUE]]
  /\ Goto(p, "iderw")
  /\ UNCHANGED <<mru, disk, idequeue, b, want, panicked>>

\* new contents, for a later commit: log_write() sets B_DIRTY
log_write(p, v) ==
  /\ At(p, "bread")
  /\ buf' = [buf EXCEPT ![b[p]] = [@ EXCEPT !.data = v, !.dirty = TRUE]]
  /\ UNCHANGED <<mru, disk, idequeue, pc, b, want, panicked>>

\* brelse(): first the sleep lock ...
releasesleep(p) ==
  /\ At(p, "bread")
  /\ buf' = [buf EXCEPT ![b[p]].lock = NULL]
  /\ Goto(p, "brelse")
  /\ UNCHANGED <<mru, disk, idequeue, b, want, panicked>>

\* ... then the count, under bcache.lock
brelse(p) ==
  /\ At(p, "brelse")
  /\ buf' = [buf EXCEPT ![b[p]].refcnt = @ - 1]
  /\ mru' = IF buf[b[p]].refcnt = 1 THEN <<b[p]>> \o Remove(mru, b[p]) ELSE mru
  /\ Goto(p, "out")
  /\ UNCHANGED <<disk, idequeue, b, want, panicked>>
-----------------------------------------------------------------------------
\* binit(): no buffer has a block
Init ==
  /\ disk \in [Blocks -> Vals] /\ \A k, l \in Blocks : disk[k] = disk[l]
  /\ buf = [i \in Bufs |-> [blockno |-> NULL, refcnt |-> 0, valid |-> FALSE,
                            dirty |-> FALSE, data |-> disk[CHOOSE k \in Blocks : TRUE],
                            lock |-> NULL]]
  /\ mru = [k \in Bufs |-> NBUF + 1 - k]
  /\ idequeue = <<>>
  /\ pc = [p \in Procs |-> "out"]
  /\ b = [p \in Procs |-> 1]
  /\ want = [p \in Procs |-> NULL]
  /\ panicked = FALSE

Step(p) ==
  \/ \E k \in Blocks : bget_hit(p, k) \/ bget_recycle(p, k) \/ bget_panics(p, k)
  \/ acquiresleep(p) \/ iderw(p)
  \/ \E v \in Vals : bwrite(p, v) \/ log_write(p, v)
  \/ releasesleep(p) \/ brelse(p)

Next == (\E p \in Procs : Step(p)) \/ \E e \in DiskErrors : ideintr(e)

Spec == Init /\ [][Next]_vars

\* the disk answers
FairSpec == Spec /\ WF_vars(\E e \in DiskErrors : ideintr(e))
-----------------------------------------------------------------------------
(* Properties *)

\* the contents of block k
Contents(k) ==
  IF \E i \in Cached(k) : buf[i].valid \/ buf[i].dirty
  THEN buf[CHOOSE i \in Cached(k) : TRUE].data ELSE disk[k]

\* bread() has returned the buffer of block k to p; a bwrite() may be under way
Has(p, k) ==
  /\ want[p] = k
  /\ pc[p] = "bread" \/ (pc[p] \in {"iderw", "asleep"} /\ buf[b[p]].valid)

B == INSTANCE BlockStore
     WITH contents <- [k \in Blocks |-> Contents(k)],
          holder <- [k \in Blocks |-> IF \E p \in Procs : Has(p, k)
                                      THEN CHOOSE p \in Procs : Has(p, k) ELSE NULL]

\* The cache is transparent: a holder finds the contents last stored in its block,
\* although buffers are recycled, written back, read again and waited for.
Transparent == B!Spec

\* A process that waits for the disk is woken up.
RequestDone == \A p \in Procs : pc[p] = "asleep" ~> pc[p] # "asleep" \/ panicked
=============================================================================
