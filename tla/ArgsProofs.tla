------------------------------ MODULE ArgsProofs ------------------------------
(***************************************************************************)
(* The checks of system-call arguments, for every word size: that the      *)
(* kernel starts in the upper half of the address space is all they need.  *)
(***************************************************************************)
EXTENDS Args, TLAPS

\* mmu.h and memlayout.h: KERNBASE is 2^31 and a word has 2^32 values; SZ is a size that
\* exec() accepts
Machine ==
  /\ UINT \in Nat /\ KERNBASE \in Nat /\ PGSIZE \in Nat \ {0}
  /\ INT \in Nat /\ INT <= KERNBASE /\ KERNBASE <= UINT \div 2
  /\ SZ \in 0..KERNBASE - 1

IInv ==
  /\ sz \in 0..KERNBASE - 1 /\ emptied \in BOOLEAN
  /\ emptied \/ PagesFrom(0, sz) \subseteq mapped

\* PGROUNDUP() does not skip a page: no page starts between a and PGROUNDUP(a).
LEMMA NoPageSkipped ==
  ASSUME PGSIZE \in Nat \ {0}, NEW a \in Nat, NEW p \in Nat, p % PGSIZE = 0, a <= p
  PROVE  PGROUNDUP(a) <= p
<1> DEFINE d == (a + PGSIZE - 1) \div PGSIZE
           k == p \div PGSIZE
<1>1. d \in Int /\ PGSIZE * d <= a + PGSIZE - 1 OBVIOUS
<1>2. k \in Int /\ p = PGSIZE * k OBVIOUS
<1>3. PGROUNDUP(a) = d * PGSIZE BY DEF PGROUNDUP
<1> HIDE DEF d, k
<1>4. PGSIZE * (d - k) <= PGSIZE - 1 BY <1>1, <1>2
<1>5. d <= k
  <2> SUFFICES ASSUME d - k >= 1 PROVE FALSE BY <1>1, <1>2
  <2>1. PGSIZE * (d - k) >= PGSIZE BY <1>1, <1>2
  <2> QED BY <2>1, <1>1, <1>2, <1>4
<1>6. PGSIZE * d <= PGSIZE * k BY <1>1, <1>2, <1>5
<1> QED BY <1>1, <1>2, <1>3, <1>6

\* PGROUNDUP() does not round down.
LEMMA RoundsUp ==
  ASSUME PGSIZE \in Nat \ {0}, NEW a \in Nat
  PROVE  PGROUNDUP(a) \in Nat /\ a <= PGROUNDUP(a)
<1> DEFINE d == (a + PGSIZE - 1) \div PGSIZE
           r == (a + PGSIZE - 1) % PGSIZE
<1>1. d \in Nat /\ r \in 0..PGSIZE - 1 /\ a + PGSIZE - 1 = PGSIZE * d + r OBVIOUS
<1>2. PGROUNDUP(a) = d * PGSIZE BY DEF PGROUNDUP
<1> HIDE DEF d, r
<1> QED BY <1>1, <1>2

\* growproc(): after any sbrk() every page below sz is mapped, unless all were given back.
LEMMA Grows == Machine /\ IInv /\ [Next]_vars => IInv'
<1> SUFFICES ASSUME Machine, IInv, [Next]_vars PROVE IInv' OBVIOUS
<1>1. CASE UNCHANGED vars BY <1>1 DEF IInv, vars, PagesFrom
<1>2. ASSUME NEW n \in Ints, growproc_up(n) PROVE IInv'
  <2> DEFINE newsz == uint(sz + n)
  <2>1. CASE UNCHANGED <<mapped, sz>>
    BY <1>2, <2>1 DEF IInv, growproc_up, PagesFrom
  <2>2. CASE /\ newsz < KERNBASE /\ newsz >= sz
             /\ mapped' = mapped \union PagesFrom(sz, newsz) /\ sz' = newsz
    <3>1. newsz \in Nat BY DEF Machine, IInv, Ints, uint
    <3> HIDE DEF newsz
    <3>2. ASSUME NEW p \in PagesFrom(0, newsz) PROVE p \in PagesFrom(0, sz) \/ p \in PagesFrom(sz, newsz)
      BY <3>1, <3>2, <2>2, NoPageSkipped DEF Machine, IInv, PagesFrom
    <3> QED BY <3>1, <3>2, <2>2, <1>2 DEF IInv, growproc_up, Machine
  <2> QED BY <1>2, <2>1, <2>2 DEF growproc_up
<1>3. ASSUME NEW n \in Ints, growproc_down(n) PROVE IInv'
  <2> DEFINE newsz == uint(sz + n)
             left == IF newsz >= sz THEN sz ELSE newsz
  <2>1. left \in Nat /\ left <= sz BY DEF Machine, IInv, Ints, uint
  <2>2. /\ mapped' = mapped \ PagesFrom(left, sz)
        /\ sz' = IF left = 0 THEN sz ELSE left
        /\ emptied' = (emptied \/ left = 0)
    BY <1>3 DEF growproc_down, deallocuvm
  <2> HIDE DEF left
  <2>3. CASE left = 0 BY <2>1, <2>2, <2>3 DEF IInv
  <2>4. CASE left # 0
    <3>1. ASSUME NEW p \in PagesFrom(0, left)
          PROVE  p \in PagesFrom(0, sz) /\ p \notin PagesFrom(left, sz)
      BY <3>1, <2>1, RoundsUp DEF Machine, IInv, PagesFrom
    <3> QED BY <3>1, <2>1, <2>2, <2>4 DEF IInv, Machine
  <2> QED BY <2>3, <2>4
<1> QED BY <1>1, <1>2, <1>3 DEF Next

\* The sums of fetchint() and argptr() wrap around only where the other comparison fails.
LEMMA ChecksSuffice == Machine /\ IInv => ArgumentsInside
<1> SUFFICES ASSUME Machine, IInv PROVE ArgumentsInside OBVIOUS
<1>1. ASSUME NEW addr \in 0..UINT - 1, fetchint(addr) PROVE addr + INT <= sz
  <2>1. addr + INT \in 0..UINT - 1 BY <1>1 DEF fetchint, Machine, IInv
  <2>2. uint(addr + INT) = addr + INT BY <2>1 DEF uint, Machine
  <2> QED BY <1>1, <2>2 DEF fetchint, Machine, IInv
<1>2. ASSUME NEW i \in Ints, NEW size \in Ints, argptr(i, size)
      PROVE  size >= 0 /\ uint(i) + size <= sz
  <2>1. uint(i) \in Nat /\ uint(i) < sz /\ size \in Nat /\ size < UINT \div 2
    BY <1>2 DEF argptr, Ints, Machine, IInv, uint
  <2>2. uint(i) + size \in 0..UINT - 1 BY <2>1 DEF Machine, IInv
  <2>3. uint(uint(i) + size) = uint(i) + size BY <2>2 DEF uint, Machine
  <2> QED BY <1>2, <2>1, <2>3 DEF argptr, Machine, IInv
<1>3. \A esp \in 0..UINT - 1 : \A n \in 0..2 : argint(esp, n) \in 0..UINT - 1
  BY DEF argint, uint, Machine
<1>4. \A addr \in 0..UINT - 1 : \A nul \in 0..UINT - 1 : \A a \in fetchstr(addr, nul) : a < sz
  BY DEF fetchstr, Machine, IInv
<1> QED BY <1>1, <1>2, <1>3, <1>4 DEF ArgumentsInside, IInv, Machine

\* Whatever arguments a process passes and however it calls sbrk(), fetchint(), argptr() and
\* fetchstr() accept nothing outside its memory, on every machine whose kernel starts in
\* the upper half of the address space.
THEOREM ArgumentsChecked ==
  ASSUME Machine
  PROVE  Spec => []ArgumentsInside
<1>1. Init => IInv BY DEF Init, IInv, Machine
<1>2. IInv /\ [Next]_vars => IInv' BY Grows
<1>3. IInv => ArgumentsInside BY ChecksSuffice
<1> QED BY <1>1, <1>2, <1>3, PTL DEF Spec
=============================================================================
