--------------------------- MODULE ClockQueueProofs ---------------------------
(***************************************************************************)
(* What the queue operators of ClockQueue do, for every number of slots    *)
(* and every queue.                                                        *)
(***************************************************************************)
EXTENDS ClockQueue, NatLemmas

\* Each advance of cq_enset()'s hand is at a slot of the ring.
LEMMA AdvanceSlot ==
  ASSUME NEW Va, NEW Ptr, NEW q \in QueueType(Va, Ptr), NEW k \in Int
  PROVE  Advance(q, k) \in Slots
BY ClockSizeAssumption DEF Advance, Slots, QueueType

\* The while(1) loop of cq_enset() ends after at most CLOCKSIZE + 1 advances:
\* once round, the first entry it cleared is found clear.
THEOREM SweepTerminates ==
  ASSUME NEW Va, NEW Ptr, NEW q \in QueueType(Va, Ptr), NEW A
  PROVE  /\ SweepLength(q, A) \in 1 .. CLOCKSIZE + 1
         /\ Stops(q, A, SweepLength(q, A))
         /\ \A j \in 1 .. SweepLength(q, A) - 1 : ~Stops(q, A, j)
<1> DEFINE T == {k \in 1 .. CLOCKSIZE + 1 : Stops(q, A, k)}
<1>1. CLOCKSIZE + 1 \in T
  <2>1. Advance(q, CLOCKSIZE + 1) = Advance(q, 1)
    <3>1. q.clock_hand \in Int BY ClockSizeAssumption DEF QueueType
    <3>2. (q.clock_hand + 1) + CLOCKSIZE = q.clock_hand + (CLOCKSIZE + 1)
      BY <3>1, ClockSizeAssumption
    <3>3. q.clock_hand + 1 \in Int BY <3>1
    <3> QED BY Zenon, <3>2, <3>3, ModPeriod, ClockSizeAssumption DEF Advance
  <2>2. 1 \in 1 .. (CLOCKSIZE + 1) - 1 BY ClockSizeAssumption
  <2>3. Stops(q, A, CLOCKSIZE + 1) BY <2>1, <2>2 DEF Stops
  <2> QED BY <2>3, ClockSizeAssumption
<1>2. PICK k \in T : \A y \in T : k <= y
  <2>1. T \subseteq Nat BY ClockSizeAssumption
  <2> HIDE DEF T
  <2> QED BY Zenon, <1>1, <2>1, LeastNat
<1>3. \A j \in 1 .. k - 1 : ~Stops(q, A, j) BY <1>2, ClockSizeAssumption
<1>4. \E i \in 1 .. CLOCKSIZE + 1 :
        Stops(q, A, i) /\ \A j \in 1 .. i - 1 : ~Stops(q, A, j)
  BY <1>2, <1>3
<1> QED BY <1>4 DEF SweepLength

\* The slot cq_enset() fills is a slot of the ring.
LEMMA VictimInRing ==
  ASSUME NEW Va, NEW Ptr, NEW q \in QueueType(Va, Ptr), NEW A
  PROVE  VictimSlot(q, A) \in Slots
BY SweepTerminates, AdvanceSlot, ClockSizeAssumption DEF VictimSlot

\* A page cq_enset() evicts while its PTE_A was set at the start of the sweep
\* is met for the second time: the sweep cleared the bit itself.
THEOREM EvictedHadSecondChance ==
  ASSUME NEW Va, NEW Ptr, NEW q \in QueueType(Va, Ptr), NEW A,
         Occupied(q, VictimSlot(q, A)), q.node[VictimSlot(q, A)].pte \in A
  PROVE  q.node[VictimSlot(q, A)].pte \in Cleared(q, A)
<1>1. Stops(q, A, SweepLength(q, A)) BY SweepTerminates
<1>2. PICK j \in 1 .. SweepLength(q, A) - 1 :
        q.node[Advance(q, j)].pte = q.node[VictimSlot(q, A)].pte
  BY <1>1 DEF Stops, VictimSlot
<1> QED BY <1>2 DEF Cleared

-----------------------------------------------------------------------------
(* Place *)

\* Filling a slot keeps the type of the queue.
LEMMA PlaceType ==
  ASSUME NEW Va, NEW Ptr, NEW q \in QueueType(Va, Ptr),
         NEW i \in Slots, NEW va \in Va, NEW pte \in Ptr
  PROVE  Place(q, i, va, pte) \in QueueType(Va, Ptr)
BY ClockSizeAssumption DEF Place, QueueType, Slots

\* Filling a slot loses at most the entry that was in it.
LEMMA PlaceResident ==
  ASSUME NEW Va, NEW Ptr, NEW q \in QueueType(Va, Ptr),
         NEW i \in Slots, NEW va \in Va, NEW pte \in Ptr
  PROVE  /\ pte \in Resident(Place(q, i, va, pte))
         /\ \A x \in Resident(q) :
              \/ x \in Resident(Place(q, i, va, pte))
              \/ Occupied(q, i) /\ x = q.node[i].pte
<1> DEFINE r == Place(q, i, va, pte)
<1>1. Occupied(r, i) /\ r.node[i].pte = pte
  BY DEF Place, Occupied, QueueType
<1>2. \A j \in Slots : j # i => r.node[j] = q.node[j]
  BY DEF Place, QueueType
<1>3. pte \in Resident(r) BY <1>1 DEF Resident
<1>4. ASSUME NEW x \in Resident(q)
      PROVE  x \in Resident(r) \/ (Occupied(q, i) /\ x = q.node[i].pte)
  <2>1. PICK j \in Slots : Occupied(q, j) /\ x = q.node[j].pte BY DEF Resident
  <2>2. j # i => Occupied(r, j) /\ x = r.node[j].pte
    BY <1>2, <2>1 DEF Occupied
  <2> QED BY <2>1, <2>2 DEF Resident
<1> QED BY <1>3, <1>4

\* Filling a slot with a pointer that is not resident creates no repetition.
LEMMA PlaceDistinct ==
  ASSUME NEW Va, NEW Ptr, NEW q \in QueueType(Va, Ptr), Distinct(q),
         NEW i \in Slots, NEW va \in Va, NEW pte \in Ptr, pte \notin Resident(q)
  PROVE  Distinct(Place(q, i, va, pte))
<1> DEFINE r == Place(q, i, va, pte)
<1>1. r.node[i].pte = pte BY DEF Place, QueueType
<1>2. \A j \in Slots : j # i => r.node[j] = q.node[j]
  BY DEF Place, QueueType
<1>3. \A j \in Slots : Occupied(q, j) => q.node[j].pte # pte BY DEF Resident
<1>4. \A j \in Slots : j # i /\ Occupied(r, j) => Occupied(q, j)
  BY <1>2 DEF Occupied
<1> HIDE DEF r
<1>5. Distinct(r) BY <1>1, <1>2, <1>3, <1>4 DEF Distinct
<1> QED BY <1>5 DEF r

-----------------------------------------------------------------------------
(* cq_remove *)

\* The slot cq_remove() closes holds the pointer and is not beyond the hand,
\* when the shift stays inside the array.
LEMMA RemovedSlot ==
  ASSUME NEW Va, NEW Ptr, NEW q \in QueueType(Va, Ptr), NEW pte,
         Matches(q, pte) # {}, ~RunsAway(q, pte)
  PROVE  /\ Min(Matches(q, pte)) \in Slots
         /\ q.node[Min(Matches(q, pte))].pte = pte
         /\ Min(Matches(q, pte)) <= q.clock_hand
         /\ q.clock_hand \in Slots
<1> DEFINE T == Matches(q, pte)
<1>1. T \subseteq Nat BY ClockSizeAssumption DEF Matches, Slots
<1>2. \E x \in T : \A y \in T : x <= y
  <2>1. T # {} OBVIOUS
  <2> HIDE DEF T
  <2> QED BY Zenon, <1>1, <2>1, LeastNat
<1>3. Min(T) \in T BY <1>2 DEF Min
<1>4. Min(T) \in Slots /\ q.node[Min(T)].pte = pte BY <1>3 DEF Matches
<1>5. q.clock_hand \in -1 .. CLOCKSIZE - 1 BY DEF QueueType
<1> QED BY <1>4, <1>5, ClockSizeAssumption DEF RunsAway, Slots

\* The nodes after cq_remove(): those from the closed slot up to the hand come
\* from the slot to their right, and the hand's slot is empty.
LEMMA RemovedNodes ==
  ASSUME NEW Va, NEW Ptr, NEW q \in QueueType(Va, Ptr), NEW pte,
         Matches(q, pte) # {}, ~RunsAway(q, pte)
  PROVE  LET r == cq_remove(q, pte)
             del == Min(Matches(q, pte))
         IN /\ r.node \in [Slots -> [empty : {-1, 0}, va : Va, pte : Ptr \union {NULL}]]
            /\ r.clock_hand \in Slots
            /\ r.node[q.clock_hand].empty = -1
            /\ \A i \in Slots : i < del \/ i > q.clock_hand => r.node[i] = q.node[i]
            /\ \A i \in Slots : i >= del /\ i < q.clock_hand
                                 => r.node[i] = q.node[i + 1]
<1> DEFINE del == Min(Matches(q, pte))
           h == q.clock_hand
           r == cq_remove(q, pte)
           N == [empty : {-1, 0}, va : Va, pte : Ptr \union {NULL}]
<1>1. del \in Slots /\ del <= h /\ h \in Slots BY RemovedSlot
<1>2. q.node \in [Slots -> N] BY DEF QueueType
<1>3. r = [node |-> ShiftLeft(q, del),
           clock_hand |-> IF h = 0 THEN CLOCKSIZE - 1 ELSE h - 1]
  BY DEF cq_remove
<1> HIDE DEF del, r
<1>4. r.clock_hand \in Slots BY <1>1, <1>3, ClockSizeAssumption DEF Slots
<1>5. ASSUME NEW i \in Slots
      PROVE  /\ i >= del /\ i < h => r.node[i] = q.node[i + 1] /\ i + 1 \in Slots
             /\ i = h => r.node[i] = [q.node[i] EXCEPT !.empty = -1]
             /\ i < del \/ i > h => r.node[i] = q.node[i]
  BY <1>1, <1>3, ClockSizeAssumption DEF ShiftLeft, Slots
<1>6. [q.node[h] EXCEPT !.empty = -1] \in N BY <1>1, <1>2
<1>7. r.node = ShiftLeft(q, del) BY <1>3
<1>8. \A i \in Slots : r.node[i] \in N
  <2> TAKE i \in Slots
  <2>1. CASE i >= del /\ i < h BY Zenon, <2>1, <1>5, <1>2
  <2>2. CASE i = h BY <2>2, <1>5, <1>6
  <2>3. CASE i < del \/ i > h BY Zenon, <2>3, <1>5, <1>2
  <2> QED BY <2>1, <2>2, <2>3, <1>1 DEF Slots
<1>9. r.node \in [Slots -> N] BY <1>7, <1>8 DEF ShiftLeft
<1>10. r.node[h].empty = -1
  <2>1. r.node[h] = [q.node[h] EXCEPT !.empty = -1] BY <1>1, <1>5
  <2>2. q.node[h] \in N BY <1>1, <1>2
  <2> QED BY <2>1, <2>2
<1> QED BY Zenon, <1>4, <1>5, <1>9, <1>10 DEF del, r

\* cq_remove() keeps the type of the queue.
LEMMA RemoveType ==
  ASSUME NEW Va, NEW Ptr, NEW q \in QueueType(Va, Ptr), NEW pte, ~RunsAway(q, pte)
  PROVE  cq_remove(q, pte) \in QueueType(Va, Ptr)
<1>1. CASE Matches(q, pte) = {} BY <1>1 DEF cq_remove
<1>2. CASE Matches(q, pte) # {}
  <2> DEFINE r == cq_remove(q, pte)
  <2>1. /\ r.node \in [Slots -> [empty : {-1, 0}, va : Va, pte : Ptr \union {NULL}]]
        /\ r.clock_hand \in Slots
    BY <1>2, RemovedNodes
  <2>2. r = [node |-> r.node, clock_hand |-> r.clock_hand] BY <1>2 DEF cq_remove
  <2> HIDE DEF r
  <2>3. r \in QueueType(Va, Ptr)
    BY <2>1, <2>2, ClockSizeAssumption DEF QueueType, Slots
  <2> QED BY <2>3 DEF r
<1> QED BY <1>1, <1>2

\* Where an occupied slot of the queue is after cq_remove(): in its own slot or,
\* between the closed slot and the hand, one slot to the left.
LEMMA RemoveMoves ==
  ASSUME NEW Va, NEW Ptr, NEW q \in QueueType(Va, Ptr), NEW pte, ~RunsAway(q, pte)
  PROVE  LET r == cq_remove(q, pte)
         IN /\ \A i \in Slots : Occupied(q, i) /\ q.node[i].pte # pte
                 => \E k \in Slots : r.node[k] = q.node[i]
            /\ \A k \in Slots : Occupied(r, k)
                 => \E i \in Slots : Occupied(q, i) /\ r.node[k] = q.node[i]
<1> DEFINE r == cq_remove(q, pte)
<1>1. CASE Matches(q, pte) = {} BY <1>1 DEF cq_remove
<1>2. CASE Matches(q, pte) # {}
  <2> DEFINE del == Min(Matches(q, pte))
             h == q.clock_hand
  <2>1. del \in Slots /\ q.node[del].pte = pte /\ del <= h /\ h \in Slots
    BY <1>2, RemovedSlot
  <2>2. /\ r.node[h].empty = -1
        /\ \A i \in Slots : i < del \/ i > h => r.node[i] = q.node[i]
        /\ \A i \in Slots : i >= del /\ i < h => r.node[i] = q.node[i + 1]
    BY <1>2, RemovedNodes
  <2> HIDE DEF del, r, h
  <2>3. ASSUME NEW i \in Slots, q.node[i].pte # pte
        PROVE  \E k \in Slots : r.node[k] = q.node[i]
    <3>1. CASE i < del \/ i > h BY <3>1, <2>2
    <3>2. CASE i > del /\ i <= h
      <4>1. i - 1 \in Slots /\ i - 1 >= del /\ i - 1 < h /\ (i - 1) + 1 = i
        BY <3>2, <2>1, ClockSizeAssumption DEF Slots
      <4> QED BY <4>1, <2>2
    <3> QED BY <3>1, <3>2, <2>3, <2>1, ClockSizeAssumption DEF Slots
  <2>4. ASSUME NEW k \in Slots, Occupied(r, k)
        PROVE  \E i \in Slots : Occupied(q, i) /\ r.node[k] = q.node[i]
    <3>1. CASE k < del \/ k > h BY <3>1, <2>2, <2>4 DEF Occupied
    <3>2. CASE k >= del /\ k < h
      <4>1. k + 1 \in Slots BY <3>2, <2>1, ClockSizeAssumption DEF Slots
      <4> QED BY <4>1, <3>2, <2>2, <2>4 DEF Occupied
    <3>3. k # h BY <2>2, <2>4 DEF Occupied
    <3> QED BY <3>1, <3>2, <3>3, <2>1, ClockSizeAssumption DEF Slots
  <2> QED BY <2>3, <2>4 DEF r
<1> QED BY <1>1, <1>2

\* cq_remove() takes no page but the one it is asked to out of the queue, and
\* puts none in.
THEOREM RemoveResident ==
  ASSUME NEW Va, NEW Ptr, NEW q \in QueueType(Va, Ptr), NEW pte, ~RunsAway(q, pte)
  PROVE  /\ Resident(q) \ {pte} \subseteq Resident(cq_remove(q, pte))
         /\ Resident(cq_remove(q, pte)) \subseteq Resident(q)
<1> DEFINE r == cq_remove(q, pte)
<1>1. \A i \in Slots : Occupied(q, i) /\ q.node[i].pte # pte
        => \E k \in Slots : r.node[k] = q.node[i]
  BY RemoveMoves
<1>2. \A k \in Slots : Occupied(r, k)
        => \E i \in Slots : Occupied(q, i) /\ r.node[k] = q.node[i]
  BY RemoveMoves
<1> HIDE DEF r
<1>3. Resident(q) \ {pte} \subseteq Resident(r)
  <2> SUFFICES ASSUME NEW x \in Resident(q), x # pte PROVE x \in Resident(r)
    OBVIOUS
  <2>1. PICK i \in Slots : Occupied(q, i) /\ x = q.node[i].pte BY DEF Resident
  <2>2. PICK k \in Slots : r.node[k] = q.node[i] BY <1>1, <2>1
  <2>3. Occupied(r, k) /\ x = r.node[k].pte BY <2>1, <2>2 DEF Occupied
  <2> QED BY <2>3 DEF Resident
<1>4. Resident(r) \subseteq Resident(q)
  <2> SUFFICES ASSUME NEW x \in Resident(r) PROVE x \in Resident(q)
    OBVIOUS
  <2>1. PICK k \in Slots : Occupied(r, k) /\ x = r.node[k].pte BY DEF Resident
  <2>2. PICK i \in Slots : Occupied(q, i) /\ r.node[k] = q.node[i] BY <1>2, <2>1
  <2> QED BY <2>1, <2>2 DEF Resident
<1> QED BY <1>3, <1>4 DEF r

\* cq_remove()'s shifting duplicates no entry.
LEMMA RemoveDistinct ==
  ASSUME NEW Va, NEW Ptr, NEW q \in QueueType(Va, Ptr), NEW pte,
         ~RunsAway(q, pte), Distinct(q)
  PROVE  Distinct(cq_remove(q, pte))
<1> DEFINE r == cq_remove(q, pte)
<1>1. CASE Matches(q, pte) = {} BY <1>1 DEF cq_remove
<1>2. CASE Matches(q, pte) # {}
  <2> DEFINE del == Min(Matches(q, pte))
             h == q.clock_hand
             Src(k) == IF k >= del /\ k < h THEN k + 1 ELSE k
  <2>1. del \in Slots /\ del <= h /\ h \in Slots BY <1>2, RemovedSlot
  <2>2. /\ r.node[h].empty = -1
        /\ \A i \in Slots : i < del \/ i > h => r.node[i] = q.node[i]
        /\ \A i \in Slots : i >= del /\ i < h => r.node[i] = q.node[i + 1]
    BY <1>2, RemovedNodes
  <2> HIDE DEF del, r, h
  <2>3. \A k \in Slots : Occupied(r, k)
          => Src(k) \in Slots /\ r.node[k] = q.node[Src(k)] /\ Occupied(q, Src(k))
    BY <2>1, <2>2, ClockSizeAssumption DEF Slots, Occupied
  <2>4. \A j, k \in Slots : j # k /\ j # h /\ k # h => Src(j) # Src(k)
    BY <2>1, ClockSizeAssumption DEF Slots
  <2>5. \A k \in Slots : Occupied(r, k) => k # h BY <2>2 DEF Occupied
  <2> HIDE DEF Src
  <2>6. Distinct(r) BY <2>3, <2>4, <2>5 DEF Distinct
  <2> QED BY <2>6 DEF r
<1> QED BY <1>1, <1>2
=============================================================================
