------------------------------ MODULE PipeProofs ------------------------------
(***************************************************************************)
(* The pipe wakes whom it must and is a queue of bytes, for every number   *)
(* of readers and writers, every size of the ring and every width of its   *)
(* counters that the size divides.                                         *)
(***************************************************************************)
EXTENDS Pipe, NatLemmas, SequenceTheorems

\* p->lock is held by the process that is between acquire() and release() or sleep()
LockInv ==
  /\ \A p \in Procs : at[p] \in {"loop", "copy", "sleep"} <=> lock = p
  /\ \A p \in Procs : at[p] # "out" => p \in open
  /\ \A w \in Writers : at[w] # "copy"

\* a reader waits for a byte, or for a writer that holds the lock and has yet to return
ReaderInv ==
  \A r \in Readers :
    /\ at[r] = "sleep" => writeopen /\ Empty
    /\ at[r] = "asleep" =>
         writeopen /\ (Empty \/ \E w \in Writers : killed[w] \/ at[w] = "loop")

\* a writer waits for room, or for a reader that holds the lock and is making some
WriterInv ==
  \A w \in Writers :
    /\ at[w] = "sleep" => readopen /\ Full
    /\ at[w] = "asleep" => readopen /\ (Full \/ \E r \in Readers : at[r] = "copy")

IInv == TypeOK /\ LockInv /\ ReaderInv /\ WriterInv
-----------------------------------------------------------------------------
\* pipealloc() leaves nobody in the pipe.
LEMMA InitIInv == Init => IInv
<1> SUFFICES ASSUME Init PROVE IInv OBVIOUS
<1>1. TypeOK
  <2>1. killed \in [Procs -> BOOLEAN] BY Zenon DEF Init
  <2> QED BY <2>1, PipeAssumption DEF Init, TypeOK
<1>2. LockInv BY PipeAssumption DEF Init, LockInv, Procs
<1> QED BY <1>1, <1>2 DEF Init, IInv, ReaderInv, WriterInv, Procs

\* Every action keeps the types; the counters wrap around.
LEMMA TypeStep == IInv /\ Next => TypeOK'
<1> SUFFICES ASSUME IInv, Next PROVE TypeOK' OBVIOUS
<1>1. TypeOK BY DEF IInv
<1>2. PICK p \in Procs : Step(p) \/ Enter(p) \/ pipeclose(p) \/ kill(p) BY DEF Next
<1>3. UINT \in Nat \ {0} /\ PIPESIZE \in Nat \ {0} BY PipeAssumption
<1>4. ASSUME NEW v \in Vals, pipewrite_byte(p, v) PROVE TypeOK'
  <2>1. (nwrite + 1) % UINT \in 0 .. UINT - 1 /\ nwrite % PIPESIZE \in 0 .. PIPESIZE - 1
    BY <1>1, <1>3 DEF TypeOK
  <2>2. nwrite' \in 0 .. UINT - 1 /\ nread' \in 0 .. UINT - 1
    BY <1>1, <1>4, <2>1 DEF pipewrite_byte, TypeOK
  <2>3. data' \in [0 .. PIPESIZE - 1 -> Vals] /\ addr' \in Vals
    BY <1>1, <1>4, <2>1 DEF pipewrite_byte, TypeOK
  <2>4. left' \in [Procs -> 0 .. MaxN]
    BY <1>1, <1>4, PipeAssumption DEF pipewrite_byte, TypeOK
  <2> QED BY <1>1, <1>4, <2>2, <2>3, <2>4 DEF pipewrite_byte, TypeOK
<1>5. ASSUME piperead_byte(p) PROVE TypeOK'
  <2>1. (nread + 1) % UINT \in 0 .. UINT - 1 /\ nread % PIPESIZE \in 0 .. PIPESIZE - 1
    BY <1>1, <1>3 DEF TypeOK
  <2>2. nwrite' \in 0 .. UINT - 1 /\ nread' \in 0 .. UINT - 1
    BY <1>1, <1>5, <2>1 DEF piperead_byte, TypeOK
  <2>3. data' \in [0 .. PIPESIZE - 1 -> Vals] /\ addr' \in Vals
    BY <1>1, <1>5, <2>1 DEF piperead_byte, TypeOK
  <2>4. left' \in [Procs -> 0 .. MaxN]
    BY <1>1, <1>5, PipeAssumption DEF piperead_byte, TypeOK
  <2> QED BY <1>1, <1>5, <2>2, <2>3, <2>4 DEF piperead_byte, TypeOK
<1>6. CASE Enter(p) BY <1>1, <1>6 DEF Enter, Call, Goto, TypeOK, ring
<1>7. CASE pipeclose(p) BY <1>1, <1>7 DEF pipeclose, wakeup, TypeOK, ring
<1>8. CASE kill(p)
  <2>1. killed' \in [Procs -> BOOLEAN] BY Zenon, <1>1, <1>8 DEF kill, TypeOK
  <2> QED BY <1>1, <1>8, <2>1 DEF kill, wakeup, TypeOK, ring
<1>9. CASE Relock(p) \/ Sleep(p) BY <1>1, <1>9 DEF Relock, Sleep, Goto, TypeOK, ring
<1>10. CASE pipewrite_fails(p) \/ piperead_fails(p)
  BY Zenon, <1>1, <1>10 DEF pipewrite_fails, piperead_fails, Fail, Goto, TypeOK, ring
<1>11. CASE pipewrite_full(p) \/ pipewrite_returns(p)
  BY Zenon, <1>1, <1>11 DEF pipewrite_full, pipewrite_returns, wakeup, TypeOK, ring
<1>12. CASE piperead_empty(p) \/ piperead_starts(p) \/ piperead_returns(p)
  BY Zenon, <1>1, <1>12
     DEF piperead_empty, piperead_starts, piperead_returns, Goto, wakeup, TypeOK, ring
<1> QED BY Zenon, <1>2, <1>4, <1>5, <1>6, <1>7, <1>8, <1>9, <1>10, <1>11, <1>12
        DEF Step, Write, Read

\* What processes do to each other in the pipe: the holder of the lock moves on, the others
\* are woken up at most, and nobody is put to sleep but by itself.
LEMMA LockStep == IInv /\ Next => LockInv'
<1> SUFFICES ASSUME IInv, Next PROVE LockInv' OBVIOUS
<1>1. TypeOK /\ LockInv BY DEF IInv
<1>2. PICK p \in Procs : Step(p) \/ Enter(p) \/ pipeclose(p) \/ kill(p) BY DEF Next
<1>3. NULL \notin Procs /\ Readers \intersect Writers = {} BY PipeAssumption
<1>4. Readers \subseteq Procs /\ Writers \subseteq Procs BY DEF Procs
<1> USE <1>1, <1>3, <1>4
<1>5. ASSUME NEW v \in Vals, pipewrite_byte(p, v) PROVE LockInv'
  BY <1>5 DEF pipewrite_byte, LockInv
<1>6. CASE piperead_byte(p) BY <1>6 DEF piperead_byte, LockInv
<1>7. CASE Enter(p) BY <1>7 DEF Enter, Call, Goto, TypeOK, LockInv
<1>8. CASE pipeclose(p) BY <1>8 DEF pipeclose, wakeup, TypeOK, LockInv
<1>9. CASE kill(p) BY <1>9 DEF kill, wakeup, TypeOK, LockInv
<1>10. CASE Relock(p) \/ Sleep(p) BY <1>10 DEF Relock, Sleep, Goto, TypeOK, LockInv
<1>11. CASE pipewrite_fails(p) \/ piperead_fails(p)
  BY <1>11 DEF pipewrite_fails, piperead_fails, Fail, Goto, TypeOK, LockInv
<1>12. CASE pipewrite_full(p) \/ pipewrite_returns(p)
  BY ZenonT(30), <1>12 DEF pipewrite_full, pipewrite_returns, wakeup, TypeOK, LockInv
<1>13. CASE p \in Readers /\ (piperead_empty(p) \/ piperead_starts(p))
  BY <1>13 DEF piperead_empty, piperead_starts, Goto, TypeOK, LockInv
<1>14. CASE piperead_returns(p)
  BY <1>14 DEF piperead_returns, wakeup, TypeOK, LockInv
<1> QED BY Zenon, <1>2, <1>5, <1>6, <1>7, <1>8, <1>9, <1>10, <1>11, <1>12, <1>13, <1>14
        DEF Step, Write, Read

\* A reader that sleeps has a reason to, or somebody who will wake it up.
LEMMA ReaderStep == IInv /\ Next => ReaderInv'
<1> SUFFICES ASSUME IInv, Next PROVE ReaderInv' OBVIOUS
<1>1. TypeOK /\ LockInv /\ ReaderInv BY DEF IInv
<1>2. PICK p \in Procs : Step(p) \/ Enter(p) \/ pipeclose(p) \/ kill(p) BY DEF Next
<1>3. NULL \notin Procs /\ Readers \intersect Writers = {} BY PipeAssumption
<1>4. Readers \subseteq Procs /\ Writers \subseteq Procs BY DEF Procs
<1> USE <1>1, <1>3, <1>4
<1>5. ASSUME NEW v \in Vals, p \in Writers, pipewrite_byte(p, v) PROVE ReaderInv'
  BY <1>5 DEF pipewrite_byte, LockInv, ReaderInv, writeopen
<1>6. CASE p \in Readers /\ piperead_byte(p)
  <2>1. at' = at /\ open' = open /\ killed' = killed /\ at[p] = "copy" /\ ~Empty
    BY <1>6 DEF piperead_byte
  <2>2. \A q \in Procs : at[q] # "loop" /\ at[q] # "sleep" BY <2>1 DEF LockInv
  <2> QED BY <2>1, <2>2 DEF ReaderInv, writeopen
<1>7. CASE Enter(p) BY <1>7 DEF Enter, Call, Goto, TypeOK, LockInv, ReaderInv, writeopen, Empty, ring
<1>8. CASE pipeclose(p)
  <2>1. lock = NULL /\ at[p] = "out" /\ killed' = killed /\ Empty' = Empty
        /\ open' = open \ {p}
    BY <1>8 DEF pipeclose, Empty, ring
  <2>2. \A q \in Procs : at[q] \notin {"loop", "copy", "sleep"} BY <2>1 DEF LockInv
  <2>3. \A q \in Procs : at'[q] # at[q] => at'[q] = "awake"
    BY <1>8 DEF pipeclose, wakeup, TypeOK
  <2>4. ASSUME NEW r \in Readers, at'[r] = "asleep" PROVE writeopen'
    <3>1. at[r] = "asleep" BY <2>3, <2>4
    <3>2. writeopen BY <3>1 DEF ReaderInv
    <3>3. CASE p \in Readers BY <2>1, <3>2, <3>3 DEF writeopen
    <3>4. CASE p \in Writers /\ open \intersect Writers = {p}
      <4>1. at' = wakeup(at, Procs \ Writers) BY <1>8, <3>4 DEF pipeclose
      <4> QED BY <2>4, <3>1, <4>1 DEF wakeup
    <3>5. CASE p \in Writers /\ open \intersect Writers # {p}
      BY <2>1, <3>2, <3>5 DEF writeopen
    <3> QED BY <3>3, <3>4, <3>5 DEF Procs
  <2> QED BY <2>1, <2>2, <2>3, <2>4 DEF ReaderInv
<1>9. CASE kill(p)
  <2>1. Empty' = Empty /\ writeopen' = writeopen BY <1>9 DEF kill, Empty, writeopen, ring
  <2>2. \A q \in Procs : at'[q] # at[q] => at'[q] = "awake" /\ at[q] = "asleep"
    BY <1>9 DEF kill, wakeup, TypeOK
  <2>3. \A q \in Procs : killed[q] => killed'[q] BY Zenon, <1>9 DEF kill, TypeOK
  <2> QED BY Zenon, <2>1, <2>2, <2>3 DEF ReaderInv
<1>10. CASE Relock(p) \/ Sleep(p)
  BY <1>10 DEF Relock, Sleep, Goto, TypeOK, LockInv, ReaderInv, writeopen, Empty, ring
<1>11. CASE p \in Writers /\ pipewrite_fails(p)
  <2>1. Empty' = Empty /\ writeopen' = writeopen /\ killed' = killed
    BY <1>11 DEF pipewrite_fails, Fail, Empty, writeopen, ring
  <2>2. at' = [at EXCEPT ![p] = "out"] BY <1>11 DEF pipewrite_fails, Fail, Goto
  <2>3. ASSUME NEW r \in Readers, at[r] = "asleep" PROVE killed[p]
    <3>1. readopen BY <2>3 DEF LockInv, readopen
    <3> QED BY <1>11, <3>1 DEF pipewrite_fails
  <2> QED BY <2>1, <2>2, <2>3, <1>11 DEF ReaderInv, TypeOK
<1>12. CASE p \in Writers /\ (pipewrite_full(p) \/ pipewrite_returns(p))
  BY ZenonT(30), <1>12 DEF pipewrite_full, pipewrite_returns, wakeup, TypeOK, LockInv, ReaderInv
<1>13. CASE p \in Readers /\ (piperead_fails(p) \/ piperead_empty(p) \/ piperead_starts(p))
  BY <1>13 DEF piperead_fails, piperead_empty, piperead_starts, Fail, Goto, TypeOK, LockInv,
               ReaderInv, writeopen, Empty, ring
<1>14. CASE p \in Readers /\ piperead_returns(p)
  BY <1>14 DEF piperead_returns, wakeup, TypeOK, LockInv, ReaderInv, writeopen, Empty, ring
<1> QED BY Zenon, <1>2, <1>5, <1>6, <1>7, <1>8, <1>9, <1>10, <1>11, <1>12, <1>13, <1>14
        DEF Step, Write, Read

\* The same for a writer.
LEMMA WriterStep == IInv /\ Next => WriterInv'
<1> SUFFICES ASSUME IInv, Next PROVE WriterInv' OBVIOUS
<1>1. TypeOK /\ LockInv /\ WriterInv BY DEF IInv
<1>2. PICK p \in Procs : Step(p) \/ Enter(p) \/ pipeclose(p) \/ kill(p) BY DEF Next
<1>3. NULL \notin Procs /\ Readers \intersect Writers = {} BY PipeAssumption
<1>4. Readers \subseteq Procs /\ Writers \subseteq Procs BY DEF Procs
<1> USE <1>1, <1>3, <1>4
<1>5. ASSUME NEW v \in Vals, p \in Writers, pipewrite_byte(p, v) PROVE WriterInv'
  <2>1. at' = at /\ open' = open /\ at[p] = "loop" /\ ~Full BY <1>5 DEF pipewrite_byte
  <2>2. \A q \in Procs : at[q] # "copy" /\ at[q] # "sleep" BY <2>1 DEF LockInv
  <2> QED BY <2>1, <2>2 DEF WriterInv, readopen
<1>6. CASE p \in Readers /\ piperead_byte(p)
  BY <1>6 DEF piperead_byte, LockInv, WriterInv, readopen
<1>7. CASE Enter(p) BY <1>7 DEF Enter, Call, Goto, TypeOK, LockInv, WriterInv, readopen, Full, ring
<1>8. CASE pipeclose(p)
  <2>1. lock = NULL /\ at[p] = "out" /\ Full' = Full /\ open' = open \ {p}
    BY <1>8 DEF pipeclose, Full, ring
  <2>2. \A q \in Procs : at[q] \notin {"loop", "copy", "sleep"} BY <2>1 DEF LockInv
  <2>3. \A q \in Procs : at'[q] # at[q] => at'[q] = "awake"
    BY <1>8 DEF pipeclose, wakeup, TypeOK
  <2>4. ASSUME NEW w \in Writers, at'[w] = "asleep" PROVE readopen'
    <3>1. at[w] = "asleep" BY <2>3, <2>4
    <3>2. readopen BY <3>1 DEF WriterInv
    <3>3. CASE p \in Writers BY <2>1, <3>2, <3>3 DEF readopen
    <3>4. CASE p \in Readers /\ open \intersect Readers = {p}
      <4>1. at' = wakeup(at, Procs \ Readers) BY <1>8, <3>4 DEF pipeclose
      <4> QED BY <2>4, <3>1, <4>1 DEF wakeup
    <3>5. CASE p \in Readers /\ open \intersect Readers # {p}
      BY <2>1, <3>2, <3>5 DEF readopen
    <3> QED BY <3>3, <3>4, <3>5 DEF Procs
  <2> QED BY <2>1, <2>2, <2>3, <2>4 DEF WriterInv
<1>9. CASE kill(p)
  <2>1. Full' = Full /\ readopen' = readopen BY <1>9 DEF kill, Full, readopen, ring
  <2>2. \A q \in Procs : at'[q] # at[q] => at'[q] = "awake" /\ at[q] = "asleep"
    BY <1>9 DEF kill, wakeup, TypeOK
  <2> QED BY <2>1, <2>2 DEF WriterInv
<1>10. CASE Relock(p) \/ Sleep(p)
  BY <1>10 DEF Relock, Sleep, Goto, TypeOK, LockInv, WriterInv, readopen, Full, ring
<1>11. CASE p \in Writers /\ pipewrite_fails(p)
  BY <1>11 DEF pipewrite_fails, Fail, Goto, TypeOK, LockInv, WriterInv, readopen, Full, ring
<1>12. CASE p \in Writers /\ (pipewrite_full(p) \/ pipewrite_returns(p))
  BY Zenon, <1>12 DEF pipewrite_full, pipewrite_returns, wakeup, TypeOK, LockInv, WriterInv, readopen,
               Full, ring
<1>13. CASE p \in Readers /\ (piperead_fails(p) \/ piperead_empty(p) \/ piperead_starts(p))
  BY <1>13 DEF piperead_fails, piperead_empty, piperead_starts, Fail, Goto, TypeOK, LockInv,
               WriterInv, readopen, Full, ring
<1>14. CASE p \in Readers /\ piperead_returns(p)
  BY <1>14 DEF piperead_returns, wakeup, TypeOK, LockInv, WriterInv
<1> QED BY <1>2, <1>5, <1>6, <1>7, <1>8, <1>9, <1>10, <1>11, <1>12, <1>13, <1>14, Zenon
        DEF Step, Write, Read

\* The invariant is inductive.
THEOREM Invariance == Spec => []IInv
<1>1. IInv /\ [Next]_vars => IInv'
  <2>1. IInv /\ Next => IInv' BY TypeStep, LockStep, ReaderStep, WriterStep DEF IInv
  <2>2. IInv /\ UNCHANGED vars => IInv'
    BY DEF vars, IInv, TypeOK, LockInv, ReaderInv, WriterInv, readopen, writeopen, Full, Empty
  <2> QED BY <2>1, <2>2
<1> QED BY <1>1, InitIInv, PTL DEF Spec

\* Nobody sleeps in the pipe without a reason while its lock is free.
THEOREM WakeupsArrive == Spec => []NoLostWakeup
<1>1. IInv => NoLostWakeup
  <2> SUFFICES ASSUME IInv PROVE NoLostWakeup OBVIOUS
  <2>1. TypeOK /\ LockInv /\ ReaderInv /\ WriterInv BY DEF IInv
  <2>2. lock = NULL => \A p \in Procs : at[p] \notin {"loop", "copy", "sleep"}
    BY <2>1, PipeAssumption DEF LockInv
  <2> QED BY <2>1, <2>2 DEF NoLostWakeup, ReaderInv, WriterInv, Procs
<1> QED BY <1>1, Invariance, PTL
-----------------------------------------------------------------------------
(* the refinement of Fifo *)

\* the bytes in the ring, and the queue they are
Count == (nwrite - nread) % UINT
Queue == [k \in 1 .. Count |-> data[(nread + k - 1) % PIPESIZE]]

\* The counters, added or subtracted, wrap around once at most.
LEMMA WrapsOnce ==
  \A x \in - UINT .. 2 * UINT - 1 :
    x % UINT = IF x < 0 THEN x + UINT ELSE IF x < UINT THEN x ELSE x - UINT
<1>1. UINT \in Nat \ {0} BY PipeAssumption
<1> QED BY Zenon, <1>1, ModOnce

\* what the counters say of the ring, also after they wrapped around
RingInv ==
  /\ Count = IF nwrite >= nread THEN nwrite - nread ELSE nwrite - nread + UINT
  /\ Count \in 0 .. UINT - 1
  /\ Full <=> Count = PIPESIZE
  /\ Empty <=> Count = 0
  /\ Queue \in Seq(Vals) /\ Len(Queue) = Count
  /\ \A k \in 1 .. Count : Queue[k] = data[(nread + k - 1) % PIPESIZE]

\* The counters tell how full the ring is and where its bytes are.
LEMMA Ring == TypeOK => RingInv
<1> SUFFICES ASSUME TypeOK PROVE RingInv OBVIOUS
<1>1. /\ UINT \in Nat \ {0} /\ PIPESIZE \in 1 .. UINT - 1
      /\ nread \in 0 .. UINT - 1 /\ nwrite \in 0 .. UINT - 1
  BY PipeAssumption DEF TypeOK
<1>2. Count = IF nwrite - nread < 0 THEN nwrite - nread + UINT ELSE nwrite - nread
  <2>1. nwrite - nread \in - UINT .. 2 * UINT - 1 /\ nwrite - nread < UINT BY <1>1
  <2> QED BY <1>1, <2>1, WrapsOnce DEF Count
<1>3. (nread + PIPESIZE) % UINT =
        IF nread + PIPESIZE < UINT THEN nread + PIPESIZE ELSE nread + PIPESIZE - UINT
  <2>1. nread + PIPESIZE \in - UINT .. 2 * UINT - 1 /\ nread + PIPESIZE >= 0 BY <1>1
  <2> QED BY <1>1, <2>1, WrapsOnce
<1>4. /\ Count = IF nwrite >= nread THEN nwrite - nread ELSE nwrite - nread + UINT
      /\ Count \in 0 .. UINT - 1
      /\ Full <=> Count = PIPESIZE
      /\ Empty <=> Count = 0
  BY <1>1, <1>2, <1>3 DEF Full, Empty
<1>5. Queue \in Seq(Vals) /\ Len(Queue) = Count
  <2>1. \A x \in Int : x % PIPESIZE \in 0 .. PIPESIZE - 1 BY <1>1
  <2>2. \A k \in 1 .. Count : nread + k - 1 \in Int BY <1>1, <1>4
  <2>3. Queue \in [1 .. Count -> Vals] BY Zenon, <2>1, <2>2 DEF Queue, TypeOK
  <2> QED BY <1>4, <2>3
<1> QED BY <1>4, <1>5 DEF RingInv, Queue

\* A counter that wraps around stays on its place of the ring.
LEMMA WrapsOnRing ==
  ASSUME NEW x \in Int
  PROVE  (x - UINT) % PIPESIZE = x % PIPESIZE
<1>1. PIPESIZE \in Nat \ {0} /\ UINT \in Nat /\ UINT % PIPESIZE = 0 BY PipeAssumption
<1> DEFINE m == UINT \div PIPESIZE
<1>2. m \in Int /\ UINT = PIPESIZE * m BY <1>1
<1> HIDE DEF m
<1>3. -m \in Int /\ x - UINT = x + PIPESIZE * (-m) BY <1>1, <1>2
<1> QED BY Zenon, <1>1, <1>3, ModMultiple

\* pipewrite() adds a byte to the end of the queue, in a place that is free.
LEMMA Puts ==
  ASSUME TypeOK, TypeOK', Count <= PIPESIZE,
         NEW w \in Writers, NEW v \in Vals, pipewrite_byte(w, v)
  PROVE  F!Put(v) /\ Count' <= PIPESIZE
<1>1. RingInv BY Ring
<1>2. RingInv' BY Ring, PTL
<1>3. /\ nread' = nread /\ nwrite' = (nwrite + 1) % UINT /\ addr' = addr
      /\ data' = [data EXCEPT ![nwrite % PIPESIZE] = v] /\ ~Full
  BY DEF pipewrite_byte
<1>4. /\ UINT \in Nat \ {0} /\ PIPESIZE \in 1 .. UINT - 1
      /\ nread \in 0 .. UINT - 1 /\ nwrite \in 0 .. UINT - 1
  BY PipeAssumption DEF TypeOK
<1>5. Count \in 0 .. PIPESIZE - 1 BY <1>1, <1>3, <1>4 DEF RingInv
<1>6. nwrite' = IF nwrite + 1 < UINT THEN nwrite + 1 ELSE nwrite + 1 - UINT
  <2>1. nwrite + 1 \in - UINT .. 2 * UINT - 1 /\ nwrite + 1 >= 0 BY <1>4
  <2> QED BY <1>3, <1>4, <2>1, WrapsOnce
<1>7. Count' = Count + 1
  <2>1. Count = IF nwrite >= nread THEN nwrite - nread ELSE nwrite - nread + UINT
    BY <1>1 DEF RingInv
  <2>2. Count' = IF nwrite' >= nread' THEN nwrite' - nread' ELSE nwrite' - nread' + UINT
    BY <1>2 DEF RingInv
  <2> QED BY <1>3, <1>4, <1>5, <1>6, <2>1, <2>2
<1>8. nwrite % PIPESIZE = (nread + Count) % PIPESIZE
  <2>1. CASE nwrite >= nread
    <3>1. nread + Count = nwrite BY <1>1, <1>4, <2>1 DEF RingInv
    <3> QED BY <3>1
  <2>2. CASE nwrite < nread
    <3>1. nread + Count \in Int /\ nwrite = (nread + Count) - UINT
      BY <1>1, <1>4, <1>5, <2>2 DEF RingInv
    <3> QED BY <3>1, WrapsOnRing
  <2> QED BY <1>4, <2>1, <2>2
<1>9. \A x \in Int : x % PIPESIZE \in DOMAIN data
  <2>1. \A x \in Int : x % PIPESIZE \in 0 .. PIPESIZE - 1 BY <1>4
  <2> QED BY Zenon, <2>1 DEF TypeOK
<1>10. ASSUME NEW k \in 1 .. Count PROVE Queue'[k] = Queue[k]
  <2> DEFINE x == nread + k - 1
             d == Count - k + 1
  <2>1. x \in Int /\ d \in 1 .. PIPESIZE - 1 /\ x + d = nread + Count BY <1>4, <1>5
  <2>2. Queue[k] = data[x % PIPESIZE] BY <1>1 DEF RingInv
  <2>3. Queue'[k] = data'[x % PIPESIZE]
    <3>1. k \in 1 .. Count' BY <1>5, <1>7
    <3> QED BY <1>2, <1>3, <3>1 DEF RingInv
  <2> HIDE DEF x, d
  <2>4. (x + d) % PIPESIZE # x % PIPESIZE
    <3>1. PIPESIZE \in Nat \ {0} BY PipeAssumption
    <3> QED BY Zenon, <2>1, <3>1, ModDistinct
  <2>5. data'[x % PIPESIZE] = data[x % PIPESIZE] BY <1>3, <1>8, <2>1, <2>4
  <2> QED BY <2>2, <2>3, <2>5
<1>11. Queue'[Count + 1] = v
  <2>1. Count + 1 \in 1 .. Count' /\ nread' + (Count + 1) - 1 = nread + Count
    BY <1>3, <1>4, <1>5, <1>7
  <2>2. Queue'[Count + 1] = data'[(nread + Count) % PIPESIZE] BY <1>2, <2>1 DEF RingInv
  <2>3. nwrite % PIPESIZE \in DOMAIN data BY <1>4, <1>9
  <2> QED BY <1>3, <1>8, <2>2, <2>3
<1>12. Queue' = Append(Queue, v)
  <2>1. Queue \in Seq(Vals) /\ Len(Queue) = Count BY <1>1 DEF RingInv
  <2>2. Queue' \in Seq(Vals) /\ Len(Queue') = Count + 1 BY <1>2, <1>7 DEF RingInv
  <2>3. /\ Append(Queue, v) \in Seq(Vals) /\ Len(Append(Queue, v)) = Count + 1
        /\ \A k \in 1 .. Count : Append(Queue, v)[k] = Queue[k]
        /\ Append(Queue, v)[Count + 1] = v
    BY <2>1, AppendProperties
  <2>4. \A k \in 1 .. Count + 1 : Queue'[k] = Append(Queue, v)[k]
    BY SMTT(30), <1>5, <1>10, <1>11, <2>3
  <2> QED BY <2>2, <2>3, <2>4, SeqEqual
<1>13. F!Put(v)
  <2>1. Len(Queue) < PIPESIZE BY <1>1, <1>4, <1>5 DEF RingInv
  <2> QED BY Zenon, <1>3, <1>12, <2>1 DEF F!Put, Queue, Count
<1> QED BY <1>4, <1>5, <1>7, <1>13

\* piperead() takes the byte at the front of the queue.
LEMMA Gets ==
  ASSUME TypeOK, TypeOK', Count <= PIPESIZE, NEW r \in Readers, piperead_byte(r)
  PROVE  F!Get /\ Count' <= PIPESIZE
<1>1. RingInv BY Ring
<1>2. RingInv' BY Ring, PTL
<1>3. /\ nread' = (nread + 1) % UINT /\ nwrite' = nwrite /\ data' = data
      /\ addr' = data[nread % PIPESIZE] /\ ~Empty
  BY DEF piperead_byte
<1>4. /\ UINT \in Nat \ {0} /\ PIPESIZE \in 1 .. UINT - 1
      /\ nread \in 0 .. UINT - 1 /\ nwrite \in 0 .. UINT - 1
  BY PipeAssumption DEF TypeOK
<1>5. Count \in 1 .. PIPESIZE BY <1>1, <1>3, <1>4 DEF RingInv
<1>6. nread' = IF nread + 1 < UINT THEN nread + 1 ELSE nread + 1 - UINT
  <2>1. nread + 1 \in - UINT .. 2 * UINT - 1 /\ nread + 1 >= 0 BY <1>4
  <2> QED BY <1>3, <1>4, <2>1, WrapsOnce
<1>7. Count' = Count - 1
  <2>1. Count = IF nwrite >= nread THEN nwrite - nread ELSE nwrite - nread + UINT
    BY <1>1 DEF RingInv
  <2>2. Count' = IF nwrite' >= nread' THEN nwrite' - nread' ELSE nwrite' - nread' + UINT
    BY <1>2 DEF RingInv
  <2> QED BY <1>3, <1>4, <1>5, <1>6, <2>1, <2>2
<1>8. addr' = Queue[1]
  <2>1. 1 \in 1 .. Count /\ nread + 1 - 1 = nread BY <1>4, <1>5
  <2>2. Queue[1] = data[(nread + 1 - 1) % PIPESIZE] BY <1>1, <2>1 DEF RingInv
  <2> QED BY <1>3, <2>1, <2>2
<1>9. ASSUME NEW k \in 1 .. Count - 1 PROVE Queue'[k] = Queue[k + 1]
  <2> DEFINE x == nread + k
  <2>1. x \in Int /\ k \in 1 .. Count' /\ k + 1 \in 1 .. Count BY <1>4, <1>5, <1>7
  <2>2. Queue[k + 1] = data[x % PIPESIZE]
    <3>1. nread + (k + 1) - 1 = x BY <1>4, <1>5
    <3> QED BY <1>1, <2>1, <3>1 DEF RingInv
  <2>3. Queue'[k] = data[(nread' + k - 1) % PIPESIZE] BY <1>2, <1>3, <2>1 DEF RingInv
  <2>4. nread' + k - 1 = x \/ nread' + k - 1 = x - UINT BY <1>4, <1>5, <1>6
  <2> HIDE DEF x
  <2>5. (x - UINT) % PIPESIZE = x % PIPESIZE BY <2>1, WrapsOnRing
  <2> QED BY <2>2, <2>3, <2>4, <2>5
<1>10. Queue \in Seq(Vals) /\ Len(Queue) = Count /\ Queue # <<>> BY <1>1, <1>5 DEF RingInv
<1>11. Head(Queue) = Queue[1] BY <1>10
<1>12. Queue' = Tail(Queue)
  <2>1. Queue' \in Seq(Vals) /\ Len(Queue') = Count - 1 BY <1>2, <1>7 DEF RingInv
  <2>2. /\ Tail(Queue) \in Seq(Vals) /\ Len(Tail(Queue)) = Count - 1
        /\ \A k \in 1 .. Count - 1 : Tail(Queue)[k] = Queue[k + 1]
    BY <1>5, <1>10, HeadTailProperties
  <2>3. \A k \in 1 .. Count - 1 : Queue'[k] = Tail(Queue)[k] BY <1>9, <2>2
  <2> QED BY <2>1, <2>2, <2>3, SeqEqual
<1>13. F!Get BY Zenon, <1>8, <1>10, <1>11, <1>12 DEF F!Get, Queue, Count
<1> QED BY <1>4, <1>5, <1>7, <1>13

\* The ring is a queue, for every size and however the counters wrap around.
THEOREM RingIsFifo == Spec => IsFifo
<1> DEFINE Fits == Count <= PIPESIZE
<1>1. Init => F!Init /\ Fits
  <2> SUFFICES ASSUME Init PROVE F!Init /\ Fits OBVIOUS
  <2>1. TypeOK BY InitIInv DEF IInv
  <2>2. RingInv /\ Empty BY <2>1, Ring DEF Init, Empty
  <2>3. Count = 0 /\ Queue \in Seq(Vals) /\ Len(Queue) = 0 BY <2>2 DEF RingInv
  <2>4. Queue = <<>> BY <2>3
  <2> QED BY <2>1, <2>3, <2>4, PipeAssumption DEF F!Init, Queue, Count, TypeOK
<1>2. IInv /\ IInv' /\ Fits /\ [Next]_vars => Fits' /\ [F!Next]_<<Queue, addr>>
  <2> SUFFICES ASSUME IInv, IInv', Fits, [Next]_vars
               PROVE  Fits' /\ [F!Next]_<<Queue, addr>>
    OBVIOUS
  <2>1. TypeOK /\ TypeOK' BY DEF IInv
  <2>2. ASSUME NEW w \in Writers, NEW v \in Vals, pipewrite_byte(w, v)
        PROVE  Fits' /\ [F!Next]_<<Queue, addr>>
    BY <2>1, <2>2, Puts DEF F!Next
  <2>3. ASSUME NEW r \in Readers, piperead_byte(r)
        PROVE  Fits' /\ [F!Next]_<<Queue, addr>>
    BY <2>1, <2>3, Gets DEF F!Next
  <2>4. CASE UNCHANGED ring BY SMTT(30), <2>4 DEF ring, Queue, Count
  <2>5. \/ \E w \in Writers, v \in Vals : pipewrite_byte(w, v)
        \/ \E r \in Readers : piperead_byte(r)
        \/ UNCHANGED ring
    BY ZenonT(30) DEF vars, ring, Next, Step, Relock, Sleep, Fail, Write, Read, Enter, Call, pipeclose,
           kill, pipewrite_fails, pipewrite_full, pipewrite_returns, piperead_fails,
           piperead_empty, piperead_starts, piperead_returns
  <2> HIDE DEF Fits
  <2> QED BY <2>2, <2>3, <2>4, <2>5
<1> HIDE DEF Fits
<1> QED BY <1>1, <1>2, Invariance, PTL DEF Spec, IsFifo, F!Spec, Queue, Count
=============================================================================
