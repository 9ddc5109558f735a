------------------------------ MODULE LogProofs ------------------------------
(***************************************************************************)
(* The log makes the disk atomic, for every number of processes, blocks    *)
(* and log blocks, and whenever the machine crashes.                       *)
(***************************************************************************)
EXTENDS Log, FiniteSetTheorems, TLAPS

Opened == {p \in Procs : at[p] = "in"}

\* no block is in the log twice
Once(s) == \A i, j \in 1 .. Len(s) : s[i] = s[j] => i = j

\* the entries of the log that lh has not installed yet, from the k-th on
From(k) == {lh[i] : i \in k .. Len(lh)}

\* the first k - 1 blocks of the log on disk are the buffers'
Logged(k) == \A i \in 1 .. Len(lh) : i < k => dlog[i] = cache[lh[i]]

\* what holds between operations and while they write: only buffers in the log are ahead
\* of the disk
RunInv ==
  phase \in {"none", "panic"} =>
    /\ ~committing /\ dhead = <<>> /\ dirty \subseteq From(1)
    /\ phase = "none" /\ outstanding = 0 => lh = <<>>

\* commit() before its write_head(): the disk is as it was before the operations
LogInv ==
  phase \in {"write_log", "write_head"} =>
    /\ committing /\ dhead = <<>> /\ dirty \subseteq From(1)
    /\ phase = "write_log" => tail <= Len(lh) /\ Logged(tail)
    /\ phase = "write_head" => Logged(Len(lh) + 1)

\* after it, and in recovery: what is not installed is in the log on disk
InstallInv ==
  phase = "install_trans" =>
    /\ dhead = lh /\ tail <= Len(lh) + 1 /\ dirty \subseteq From(tail)
    /\ \A i \in 1 .. Len(lh) : i < tail => disk[lh[i]] = dlog[i]
    /\ committing => \A i \in 1 .. Len(lh) : cache[lh[i]] = dlog[i]
    /\ ~committing => dirty = {}

\* the ends of commit() and of a crash
RestInv ==
  /\ phase = "committed" => committing /\ dhead = <<>> /\ lh = <<>> /\ dirty = {}
  /\ phase = "read_head" => ~committing /\ lh = <<>> /\ dirty = {}

\* operations are open only while nothing is committed and nothing recovered
OpenInv ==
  /\ committing \/ phase \in {"read_head", "install_trans"} => outstanding = 0
  /\ phase \in {"read_head", "install_trans"} /\ ~committing => \A p \in Procs : at[p] = "out"

IInv ==
  /\ TypeOK /\ Once(lh) /\ Once(dhead)
  /\ \A b \in Blocks \ dirty : cache[b] = disk[b]
  /\ RunInv /\ LogInv /\ InstallInv /\ RestInv /\ OpenInv
  /\ SleeperHasWaker
-----------------------------------------------------------------------------
\* log.outstanding counts the open operations.
LEMMA Outstanding ==
  ASSUME TypeOK
  PROVE  /\ outstanding \in Nat /\ outstanding = Cardinality(Opened) /\ IsFiniteSet(Opened)
         /\ outstanding = 0 <=> Opened = {}
<1>1. IsFiniteSet(Opened) BY FS_Subset, LogAssumption DEF Opened
<1>2. outstanding = Cardinality(Opened) BY DEF TypeOK, Opened
<1> QED BY <1>1, <1>2, FS_CardinalityType, FS_EmptySet

\* initlog() finds an empty log.
LEMMA InitIInv == Init => IInv
<1> SUFFICES ASSUME Init PROVE IInv OBVIOUS
<1>1. Cardinality({p \in Procs : at[p] = "in"}) = 0
  <2>1. {p \in Procs : at[p] = "in"} = {} BY DEF Init
  <2> QED BY <2>1, FS_EmptySet
<1>2. TypeOK
  <2>1. dlog \in [1 .. nlog - 1 -> Vals] BY LogAssumption DEF Init
  <2>2. wrote \in [Procs -> SUBSET Blocks] /\ at \in [Procs -> {"out", "asleep", "in"}]
    BY DEF Init
  <2>3. lh \in Seq(Blocks) /\ Len(lh) = 0 /\ dhead = lh BY DEF Init
  <2>4. cache \in [Blocks -> Vals] /\ disk = cache /\ dirty = {} /\ tail = 1 /\ phase = "none"
        /\ outstanding = 0
    BY DEF Init
  <2>5. committing \in BOOLEAN BY Zenon DEF Init
  <2> QED BY <1>1, <2>1, <2>2, <2>3, <2>4, <2>5, LogAssumption DEF TypeOK
<1> QED BY <1>2 DEF Init, IInv, Once, RunInv, LogInv, InstallInv, RestInv, OpenInv, SleeperHasWaker, From

\* The variables keep their types, and outstanding its count.
LEMMA TypeStep == IInv /\ Next => TypeOK'
<1> SUFFICES ASSUME IInv, Next PROVE TypeOK' OBVIOUS
<1> USE LogAssumption
<1>1. TypeOK BY DEF IInv
<1>2. ASSUME NEW p \in Procs, begin_op(p) PROVE TypeOK'
  <2>1. Opened' = Opened \union {p} /\ p \notin Opened
    BY <1>1, <1>2 DEF begin_op, Opened, TypeOK
  <2>2. outstanding' = Cardinality(Opened')
    BY Zenon, <1>1, <1>2, <2>1, Outstanding, FS_AddElement DEF begin_op
  <2> QED BY <1>1, <1>2, <2>2 DEF begin_op, TypeOK, Opened, memory, onDisk
<1>3. ASSUME NEW p \in Procs, begin_op_sleeps(p) PROVE TypeOK'
  <2>1. Opened' = Opened BY <1>1, <1>3 DEF begin_op_sleeps, Opened, TypeOK
  <2> QED BY Zenon, <1>1, <1>3, <2>1 DEF begin_op_sleeps, TypeOK, Opened, memory, onDisk
<1>4. ASSUME NEW p \in Procs, end_op(p) PROVE TypeOK'
  <2>1. Opened' = Opened \ {p} /\ p \in Opened
    BY Zenon, <1>1, <1>4 DEF end_op, Opened, TypeOK, wakeup
  <2>2. outstanding' = Cardinality(Opened')
    BY Zenon, <1>1, <1>4, <2>1, Outstanding, FS_RemoveElement DEF end_op
  <2>3. at' \in [Procs -> {"out", "asleep", "in"}] BY Zenon, <1>1, <1>4 DEF end_op, TypeOK, wakeup
  <2>4. committing' \in BOOLEAN BY Zenon, <1>1, <1>4 DEF end_op, TypeOK
  <2>7. tail' \in 1 .. nlog BY <1>1, <1>4 DEF end_op, TypeOK
  <2>5. phase' \in {phase, "committed", "write_log"} BY <1>4 DEF end_op
  <2>6. UNCHANGED <<cache, dirty, lh, disk, dlog, dhead, wrote>>
    BY <1>4 DEF end_op, memory, onDisk
  <2> QED BY <1>1, <2>2, <2>3, <2>4, <2>5, <2>6, <2>7 DEF TypeOK, Opened
<1>5. ASSUME NEW p \in Procs, NEW b \in Blocks, log_write_panics(p, b) PROVE TypeOK'
  BY <1>1, <1>5 DEF log_write_panics, TypeOK, memory, onDisk, calls
<1>6. ASSUME NEW p \in Procs, NEW b \in Blocks, NEW v \in Vals, log_write(p, b, v) PROVE TypeOK'
  <2>1. lh' \in Seq(Blocks) /\ Len(lh') < nlog BY <1>1, <1>6 DEF log_write, TypeOK, TooBig
  <2> QED BY <1>1, <1>6, <2>1 DEF log_write, TypeOK, onDisk
<1>7. CASE write_log
  BY <1>1, <1>7 DEF write_log, IInv, LogInv, TypeOK, memory, calls
<1>8. CASE write_head
  BY <1>1, <1>8 DEF write_head, TypeOK, memory, calls
<1>9. CASE install_trans
  BY <1>1, <1>9 DEF install_trans, IInv, InstallInv, TypeOK, calls
<1>10. CASE clear_head BY <1>1, <1>10 DEF clear_head, TypeOK, calls
<1>11. CASE committed
  <2>1. Opened' = Opened BY <1>1, <1>11 DEF committed, Opened, TypeOK, wakeup
  <2> QED BY Zenon, <1>1, <1>11, <2>1 DEF committed, TypeOK, Opened, wakeup, memory, onDisk
<1>12. CASE read_head BY <1>1, <1>12 DEF read_head, TypeOK, onDisk, calls
<1>13. CASE Crash
  <2>1. Opened' = {} BY <1>13 DEF Crash, Opened
  <2>2. outstanding' = Cardinality(Opened') BY <1>13, <2>1, FS_EmptySet DEF Crash
  <2>3. wrote' \in [Procs -> SUBSET Blocks] /\ at' \in [Procs -> {"out", "asleep", "in"}]
    BY <1>13 DEF Crash
  <2>4. lh' \in Seq(Blocks) /\ Len(lh') = 0 BY <1>13 DEF Crash
  <2>5. cache' = disk /\ dirty' = {} /\ tail' = 1 /\ phase' = "read_head"
        /\ UNCHANGED <<disk, dlog, dhead>>
    BY <1>13 DEF Crash, onDisk
  <2>6. committing' \in BOOLEAN BY Zenon, <1>13 DEF Crash
  <2> QED BY <1>1, <2>2, <2>3, <2>4, <2>5, <2>6 DEF TypeOK, Opened
<1>14. ASSUME NEW b \in Blocks, Evict(b) PROVE TypeOK'
  BY SMTT(30), <1>1, <1>14 DEF Evict, TypeOK, onDisk, calls
<1> QED
  BY SMTT(30), <1>2, <1>3, <1>4, <1>5, <1>6, <1>7, <1>8, <1>9, <1>10, <1>11, <1>12, <1>13, <1>14
  DEF Next, Commit

\* Every step of an operation, of commit(), of a crash and of recovery keeps the invariant.
LEMMA Step == IInv /\ [Next]_vars => IInv'
<1> SUFFICES ASSUME IInv, [Next]_vars PROVE IInv' OBVIOUS
<1> USE LogAssumption
    DEF IInv, Once, From, Logged, RunInv, LogInv, InstallInv, RestInv, OpenInv, SleeperHasWaker, Up
<1>1. CASE UNCHANGED vars BY <1>1 DEF vars, TypeOK
<1>2. CASE Next
  <2>1. TypeOK /\ TypeOK' BY <1>2, TypeStep
  <2>2. outstanding \in Nat /\ \A p \in Procs : at[p] = "in" => outstanding # 0
    BY Zenon, <2>1, Outstanding DEF Opened
  <2>3. ASSUME NEW p \in Procs, begin_op(p) PROVE IInv'
    BY <2>1, <2>2, <2>3 DEF begin_op, TypeOK, memory, onDisk
  <2>4. ASSUME NEW p \in Procs, begin_op_sleeps(p) PROVE IInv'
    <3>1. SleeperHasWaker' BY SMTT(30), <2>1, <2>2, <2>4 DEF begin_op_sleeps, HasSpace
    <3> QED BY <2>1, <2>2, <2>4, <3>1 DEF begin_op_sleeps, TypeOK, memory, onDisk
  <2>5. ASSUME NEW p \in Procs, end_op(p) PROVE IInv'
    BY <2>1, <2>2, <2>5 DEF end_op, TypeOK, wakeup, memory, onDisk
  <2>6. ASSUME NEW p \in Procs, NEW b \in Blocks, log_write_panics(p, b) PROVE IInv'
    BY SMTT(30), <2>1, <2>2, <2>6 DEF log_write_panics, MayWrite, TypeOK, memory, onDisk, calls
  <2>7. ASSUME NEW p \in Procs, NEW b \in Blocks, NEW v \in Vals, log_write(p, b, v) PROVE IInv'
    <3>1. phase = "none" /\ ~committing /\ outstanding # 0
      BY <2>1, <2>2, <2>7 DEF log_write, MayWrite, TypeOK
    <3>2. Once(lh)' /\ dirty' \subseteq From(1)'
      <4>1. dirty' = dirty \union {b} /\ dirty \subseteq From(1) BY SMTT(30), <2>7, <3>1 DEF log_write
      <4>2. CASE Contains(lh, b) BY SMTT(30), <2>7, <4>1, <4>2 DEF log_write, Contains
      <4>3. CASE ~Contains(lh, b)
        <5>1. lh' = Append(lh, b) /\ lh \in Seq(Blocks) BY SMTT(30), <2>1, <2>7, <4>3 DEF log_write, TypeOK
        <5>2. /\ Len(lh') = Len(lh) + 1 /\ lh'[Len(lh) + 1] = b
              /\ \A i \in 1 .. Len(lh) : lh'[i] = lh[i]
          BY <5>1
        <5>3. \A i \in 1 .. Len(lh) : lh[i] # b BY <4>3 DEF Contains
        <5>4. Len(lh) \in Nat BY <5>1
        <5> QED BY SMTT(30), <4>1, <5>2, <5>3, <5>4
      <4> QED BY <4>2, <4>3
    <3>3. \A c \in Blocks \ dirty' : cache'[c] = disk'[c]
      BY SMTT(30), <2>1, <2>7 DEF log_write, TypeOK, onDisk
    <3> QED BY SMTT(30), <2>1, <2>7, <3>1, <3>2, <3>3 DEF log_write, onDisk
  <2>8. CASE write_log BY SMTT(30), <2>1, <2>2, <2>8 DEF write_log, TypeOK, memory, calls
  <2>9. CASE write_head BY SMTT(30), <2>1, <2>2, <2>9 DEF write_head, TypeOK, memory, calls
  <2>10. CASE install_trans BY SMTT(30), <2>1, <2>2, <2>10 DEF install_trans, TypeOK, calls
  <2>11. CASE clear_head BY SMTT(30), <2>1, <2>2, <2>11 DEF clear_head, TypeOK, calls
  <2>12. CASE committed BY SMTT(30), <2>1, <2>2, <2>12 DEF committed, TypeOK, wakeup, memory, onDisk
  <2>13. CASE read_head BY SMTT(30), <2>1, <2>2, <2>13 DEF read_head, TypeOK, onDisk, calls
  <2>14. CASE Crash BY SMTT(30), <2>1, <2>2, <2>14 DEF Crash, TypeOK, onDisk
  <2>15. ASSUME NEW b \in Blocks, Evict(b) PROVE IInv'
    BY SMTT(30), <2>1, <2>2, <2>15 DEF Evict, TypeOK, onDisk, calls
  <2> HIDE DEF IInv
  <2> QED
    BY SMTT(30), <1>2, <2>3, <2>4, <2>5, <2>6, <2>7, <2>8, <2>9, <2>10, <2>11, <2>12, <2>13, <2>14, <2>15
    DEF Next, Commit
<1> QED BY <1>1, <1>2
-----------------------------------------------------------------------------
(* the refinement of AtomicDisk *)

\* what recovery makes of the disk, told from the header: the logged blocks come from the
\* log, and in install_trans() that is what the buffers have as well
RecoveryInv ==
  /\ DOMAIN Recovered = Blocks
  /\ dhead = <<>> => Recovered = disk
  /\ \A i \in 1 .. Len(dhead) : Recovered[dhead[i]] = dlog[i]
  /\ \A b \in Blocks : (\A i \in 1 .. Len(dhead) : dhead[i] # b) => Recovered[b] = disk[b]
  /\ phase = "install_trans" /\ committing => Recovered = cache
  /\ phase = "install_trans" /\ tail > Len(lh) => Recovered = disk

\* recover_from_log() copies each block of the log to the place that the header names.
LEMMA Recovery == IInv => RecoveryInv
<1> SUFFICES ASSUME IInv PROVE RecoveryInv OBVIOUS
<1>1. TypeOK /\ Once(dhead) BY DEF IInv
<1>2. DOMAIN Recovered = Blocks BY DEF Recovered
<1>3. \A b \in Blocks : (\A i \in 1 .. Len(dhead) : dhead[i] # b) => Recovered[b] = disk[b]
  BY DEF Recovered, Contains
<1>4. ASSUME NEW i \in 1 .. Len(dhead) PROVE Recovered[dhead[i]] = dlog[i]
  <2>1. dhead[i] \in Blocks BY <1>1 DEF TypeOK
  <2>2. (CHOOSE j \in 1 .. Len(dhead) : dhead[j] = dhead[i]) = i BY <1>1 DEF Once
  <2> QED BY Zenon, <2>1, <2>2 DEF Recovered, Contains
<1>5. dhead = <<>> => Recovered = disk
  <2> SUFFICES ASSUME dhead = <<>> PROVE Recovered = disk OBVIOUS
  <2>1. \A b \in Blocks : Recovered[b] = disk[b] BY <1>3
  <2> QED BY <1>1, <2>1 DEF TypeOK, Recovered
<1>6. ASSUME phase = "install_trans", committing PROVE Recovered = cache
  <2>1. \A b \in Blocks : Recovered[b] = cache[b]
    BY <1>1, <1>3, <1>4, <1>6 DEF IInv, InstallInv, From, TypeOK
  <2> QED BY <1>1, <2>1 DEF TypeOK, Recovered
<1>7. ASSUME phase = "install_trans", tail > Len(lh) PROVE Recovered = disk
  <2>1. \A b \in Blocks : Recovered[b] = disk[b]
    BY <1>1, <1>3, <1>4, <1>7 DEF IInv, InstallInv, TypeOK
  <2> QED BY <1>1, <2>1 DEF TypeOK, Recovered
<1> QED BY <1>2, <1>3, <1>4, <1>5, <1>6, <1>7 DEF RecoveryInv

\* What a crash would bring back changes in one step only, the write of the header.
LEMMA OneCommitPoint ==
  ASSUME IInv, IInv', Next
  PROVE  Recovered' = IF write_head THEN cache ELSE Recovered
<1>1. RecoveryInv BY Recovery
<1>2. RecoveryInv' BY Recovery, PTL
<1>3. TypeOK /\ TypeOK' BY DEF IInv
<1>4. CASE UNCHANGED onDisk /\ ~write_head BY <1>4 DEF onDisk, Recovered
<1>5. CASE write_log
  <2>1. dhead = <<>> /\ dhead' = <<>> /\ disk' = disk /\ ~write_head
    BY <1>5 DEF write_log, write_head, IInv, LogInv
  <2> QED BY <1>1, <1>2, <2>1 DEF RecoveryInv
<1>6. CASE write_head
  <2>1. \A b \in Blocks : Recovered'[b] = cache[b]
    BY SMTT(30), <1>2, <1>3, <1>6 DEF RecoveryInv, write_head, IInv, LogInv, From, Logged, TypeOK, memory
  <2> QED BY SMTT(30), <1>3, <1>6, <2>1 DEF Recovered, TypeOK
<1>7. CASE install_trans
  <2>1. ~write_head /\ dhead' = dhead /\ dlog' = dlog /\ dhead = lh /\ tail \in 1 .. Len(lh)
        /\ disk' = [disk EXCEPT ![lh[tail]] = dlog[tail]]
    BY <1>3, <1>7 DEF install_trans, write_head, IInv, InstallInv, TypeOK
  <2>2. \A b \in Blocks : Recovered'[b] = Recovered[b]
    BY <1>1, <1>2, <1>3, <2>1 DEF RecoveryInv, TypeOK
  <2> QED BY <2>1, <2>2 DEF Recovered
<1>8. CASE clear_head
  <2>1. Recovered = disk /\ Recovered' = disk' /\ disk' = disk /\ ~write_head
    BY <1>1, <1>2, <1>8 DEF RecoveryInv, clear_head, write_head
  <2> QED BY <2>1
<1>9. UNCHANGED onDisk \/ write_log \/ write_head \/ install_trans \/ clear_head
  BY DEF Next, Commit, begin_op, begin_op_sleeps, end_op, log_write, log_write_panics,
         committed, read_head, Crash, Evict
<1> QED BY <1>4, <1>5, <1>6, <1>7, <1>8, <1>9

\* the refinement mapping of A: what a read returns, and who is in an operation
Mem == IF Up THEN cache ELSE Recovered
Open == IF Up THEN Opened ELSE {}

\* Every step of the log is a step of the atomic disk: the write of the header is its
\* commit, a crash or a panic its crash, and the writes to the log and to the home
\* locations, the recovery and the recycling of buffers do nothing.
LEMMA Simulation ==
  ASSUME IInv, IInv', [Next]_vars
  PROVE  [A!Next]_(A!vars)
<1> DEFINE Stutter == Mem' = Mem /\ Open' = Open /\ Recovered' = Recovered
<1>1. ASSUME Stutter PROVE [A!Next]_(A!vars)
  BY <1>1 DEF A!vars, Mem, Open, Opened
<1>2. CASE UNCHANGED vars
  <2>1. Stutter BY <1>2 DEF vars, Mem, Open, Opened, Up, Recovered
  <2> QED BY <1>1, <2>1, Zenon
<1> SUFFICES ASSUME Next PROVE [A!Next]_(A!vars) BY <1>2
<1>3. Recovered' = IF write_head THEN cache ELSE Recovered BY OneCommitPoint
<1>4. TypeOK /\ TypeOK' BY DEF IInv
<1>5. RecoveryInv BY Recovery
<1>6. phase # "write_head" => Recovered' = Recovered BY <1>3 DEF write_head
<1>7. ASSUME NEW p \in Procs, begin_op(p) PROVE [A!Next]_(A!vars)
  <2>1. Up /\ Up' /\ phase = "none" /\ cache' = cache BY <1>7 DEF begin_op, Up, memory
  <2>2. Opened' = Opened \union {p} BY <1>4, <1>7 DEF begin_op, Opened, TypeOK
  <2>3. Mem' = Mem /\ Open' = Open \union {p} /\ Recovered' = Recovered
    BY <1>6, <2>1, <2>2 DEF Mem, Open
  <2>4. A!Begin(p) BY <2>3 DEF A!Begin, Mem, Open, Opened
  <2> QED BY <2>4 DEF A!Next
<1>8. ASSUME NEW p \in Procs, begin_op_sleeps(p) PROVE [A!Next]_(A!vars)
  <2>1. Up /\ Up' /\ cache' = cache /\ UNCHANGED onDisk
    BY <1>8 DEF begin_op_sleeps, Up, memory
  <2>2. Opened' = Opened BY <1>4, <1>8 DEF begin_op_sleeps, Opened, TypeOK
  <2>3. Stutter BY <2>1, <2>2 DEF Mem, Open, Recovered, onDisk
  <2> QED BY <1>1, <2>3, Zenon
<1>9. ASSUME NEW p \in Procs, end_op(p) PROVE [A!Next]_(A!vars)
  <2>1. phase = "none" /\ ~committing
    <3>1. outstanding # 0 BY <1>4, <1>9, Outstanding DEF end_op, Opened
    <3> QED BY <1>9, <3>1 DEF end_op, Up, IInv, OpenInv
  <2>2. Up /\ Up' /\ cache' = cache BY <1>9, <2>1 DEF end_op, Up, memory
  <2>3. Opened' = Opened \ {p} BY Zenon, <1>4, <1>9 DEF end_op, Opened, TypeOK, wakeup
  <2>4. Mem' = Mem /\ Open' = Open \ {p} /\ Recovered' = Recovered
    BY <1>6, <2>1, <2>2, <2>3 DEF Mem, Open
  <2>5. A!End(p) BY <2>4 DEF A!End, Mem, Open, Opened
  <2> QED BY <2>5 DEF A!Next
<1>10. ASSUME NEW p \in Procs, NEW b \in Blocks, NEW v \in Vals, log_write(p, b, v)
       PROVE  [A!Next]_(A!vars)
  <2>1. Up /\ Up' /\ cache' = [cache EXCEPT ![b] = v] /\ UNCHANGED onDisk
    BY <1>10 DEF log_write, MayWrite, Up
  <2>2. Opened' = Opened /\ p \in Opened BY <1>10 DEF log_write, MayWrite, Opened
  <2>3. /\ Mem' = [Mem EXCEPT ![b] = v] /\ Open' = Open /\ p \in Open
        /\ Recovered' = Recovered
    BY <2>1, <2>2 DEF Mem, Open, Recovered, onDisk
  <2>4. A!Write(p, b, v) BY <2>3 DEF A!Write, Mem, Open, Opened
  <2> QED BY <2>4 DEF A!Next
<1>11. ASSUME NEW p \in Procs, NEW b \in Blocks, log_write_panics(p, b)
       PROVE  [A!Next]_(A!vars)
  <2>1. ~Up' /\ UNCHANGED onDisk BY <1>11 DEF log_write_panics, Up
  <2>2. Mem' = Recovered /\ Open' = {} /\ Recovered' = Recovered
    BY <2>1 DEF Mem, Open, Recovered, onDisk
  <2>3. A!Crash BY <2>2 DEF A!Crash, Mem, Open, Opened
  <2> QED BY <2>3 DEF A!Next
<1>12. CASE Crash
  <2>1. ~Up' /\ UNCHANGED onDisk BY <1>12 DEF Crash, Up
  <2>2. Mem' = Recovered /\ Open' = {} /\ Recovered' = Recovered
    BY <2>1 DEF Mem, Open, Recovered, onDisk
  <2>3. A!Crash BY <2>2 DEF A!Crash, Mem, Open, Opened
  <2> QED BY <2>3 DEF A!Next
<1>13. CASE write_head
  <2>1. Up /\ Up' /\ cache' = cache /\ Opened' = Opened /\ outstanding = 0
    BY <1>13 DEF write_head, Up, IInv, LogInv, OpenInv, Opened, memory, calls
  <2>2. Opened = {} BY <1>4, <2>1, Outstanding
  <2>3. Mem' = Mem /\ Open' = Open /\ Open = {} /\ Recovered' = Mem
    BY <1>3, <1>13, <2>1, <2>2 DEF Mem, Open
  <2>4. A!Commit BY <2>3 DEF A!Commit, Mem, Open, Opened
  <2> QED BY <2>4 DEF A!Next
<1>14. CASE write_log
  <2>1. Up /\ Up' /\ cache' = cache /\ Opened' = Opened
    BY SMTT(30), <1>14 DEF write_log, Up, IInv, LogInv, Opened, memory, calls
  <2>2. Stutter BY SMTT(30), <1>6, <1>14, <2>1 DEF Mem, Open, write_log
  <2> QED BY <1>1, <2>2, Zenon
<1>15. CASE install_trans
  <2>1. Up' = Up /\ Opened' = Opened /\ phase # "write_head"
    BY <1>15 DEF install_trans, Up, Opened, calls
  <2>2. Up => cache' = cache
    <3> SUFFICES ASSUME Up PROVE cache' = cache OBVIOUS
    <3>1. committing /\ tail \in 1 .. Len(lh) BY <1>4, <1>15 DEF install_trans, Up, TypeOK
    <3>2. cache[lh[tail]] = dlog[tail] BY <1>15, <3>1 DEF install_trans, IInv, InstallInv
    <3> QED BY <1>4, <1>15, <3>2 DEF install_trans, TypeOK
  <2>3. Stutter BY SMTT(30), <1>6, <2>1, <2>2 DEF Mem, Open
  <2> QED BY <1>1, <2>3, Zenon
<1>16. CASE clear_head
  <2>1. Up' /\ cache' = cache /\ Opened' = Opened /\ phase # "write_head"
    BY <1>16 DEF clear_head, Up, Opened, calls
  <2>2. ~Up => cache = Recovered /\ Opened = {}
    <3> SUFFICES ASSUME ~Up PROVE cache = Recovered /\ Opened = {} OBVIOUS
    <3>1. ~committing /\ phase = "install_trans" BY <1>16 DEF clear_head, Up
    <3>2. Opened = {} BY <3>1 DEF IInv, OpenInv, Opened
    <3>3. dirty = {} BY <3>1 DEF IInv, InstallInv
    <3>4. \A b \in Blocks : cache[b] = disk[b] BY <3>3 DEF IInv
    <3>5. cache = disk BY <1>4, <3>4 DEF TypeOK
    <3>6. Recovered = disk BY <1>5, <1>16 DEF RecoveryInv, clear_head
    <3> QED BY <3>2, <3>5, <3>6
  <2>3. Stutter BY SMTT(30), <1>6, <2>1, <2>2 DEF Mem, Open
  <2> QED BY <1>1, <2>3, Zenon
<1>17. CASE committed
  <2>1. Up /\ Up' /\ cache' = cache /\ phase # "write_head"
    BY <1>17 DEF committed, Up, IInv, RestInv, memory
  <2>2. Opened' = Opened BY <1>4, <1>17 DEF committed, Opened, wakeup, TypeOK
  <2>3. Stutter BY SMTT(30), <1>6, <2>1, <2>2 DEF Mem, Open
  <2> QED BY <1>1, <2>3, Zenon
<1>18. CASE read_head
  <2>1. ~Up /\ ~Up' /\ phase # "write_head"
    BY <1>18 DEF read_head, Up, IInv, RestInv, calls
  <2>2. Stutter BY <1>6, <2>1 DEF Mem, Open
  <2> QED BY <1>1, <2>2, Zenon
<1>19. ASSUME NEW b \in Blocks, Evict(b) PROVE [A!Next]_(A!vars)
  <2>1. Up' = Up /\ Opened' = Opened /\ UNCHANGED onDisk BY <1>19 DEF Evict, Up, Opened, calls
  <2>2. cache[b] = disk[b] BY <1>19 DEF Evict, IInv
  <2>3. cache' = cache BY SMTT(30), <1>4, <1>19, <2>2 DEF Evict, TypeOK
  <2>4. Stutter BY <2>1, <2>3 DEF Mem, Open, Recovered, onDisk
  <2> QED BY <1>1, <2>4, Zenon
<1> HIDE DEF Stutter
<1> QED BY ZenonT(30), <1>7, <1>8, <1>9, <1>10, <1>11, <1>12, <1>13, <1>14, <1>15, <1>16, <1>17, <1>18,
           <1>19 DEF Next, Commit
-----------------------------------------------------------------------------
\* The invariant is inductive.
THEOREM Invariance == Spec => []IInv
BY InitIInv, Step, PTL DEF Spec

\* No write is dropped: bget() may recycle only buffers that agree with the disk, and
\* without an operation or a commit under way everything is home and the log empty.
THEOREM NothingDropped == Spec => []Durable
<1>1. IInv => Durable
  <2> SUFFICES ASSUME IInv PROVE Durable OBVIOUS
  <2>1. ASSUME phase = "none", outstanding = 0 PROVE cache = disk /\ lh = <<>> /\ dhead = <<>>
    <3>1. lh = <<>> /\ dhead = <<>> /\ dirty \subseteq From(1)
      BY <2>1 DEF IInv, RunInv
    <3>2. dirty = {} BY <3>1 DEF From
    <3>3. \A b \in Blocks : cache[b] = disk[b] BY <3>2 DEF IInv
    <3> QED BY <3>1, <3>3 DEF IInv, TypeOK
  <2> QED BY <2>1 DEF IInv, Durable
<1> QED BY <1>1, Invariance, PTL

\* A process asleep in begin_op() is always owed a wakeup() by end_op().
THEOREM NobodyForgotten == Spec => []SleeperHasWaker
<1>1. IInv => SleeperHasWaker BY DEF IInv
<1> QED BY <1>1, Invariance, PTL

\* The log implements the atomic disk, through crashes in every step of a commit and of a
\* recovery: what comes back is what one of the commits left.
THEOREM LogIsAtomic == Spec => Atomic
<1>1. Init => A!Init
  <2> SUFFICES ASSUME Init PROVE A!Init OBVIOUS
  <2>1. IInv /\ RecoveryInv BY InitIInv, Recovery
  <2>2. Up /\ Opened = {} BY DEF Init, Up, Opened
  <2>3. cache \in [Blocks -> Vals] /\ Recovered = cache
    BY <2>1 DEF Init, RecoveryInv
  <2> QED BY <2>2, <2>3 DEF A!Init, Opened
<1>2. IInv /\ IInv' /\ [Next]_vars => [A!Next]_(A!vars) BY Simulation
<1> QED BY <1>1, <1>2, Invariance, PTL DEF Spec, Atomic, A!Spec
=============================================================================
