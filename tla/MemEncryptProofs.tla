--------------------------- MODULE MemEncryptProofs ---------------------------
(***************************************************************************)
(* Invariants of MemEncrypt, proved for every number of slots, pages and   *)
(* bytes per page, and every set of inputs.                                *)
(***************************************************************************)
EXTENDS MemEncryptLemmas

\* Which pages are mapped at each point of a system call: all below sz (or
\* none) in user mode; up to the next page while allocuvm() runs; and while
\* deallocuvm() runs, those that stay and some that it has not reached.
SysInv ==
  /\ InUser => Mapped(m) \in {{}, 0 .. PGROUNDUP(sz) - 1}
  /\ sys.op = "alloc" =>
       /\ sz <= sys.newsz /\ sys.newsz <= KERNBASE
       /\ PGROUNDUP(sz) <= sys.a /\ sys.a <= PGROUNDUP(sys.newsz)
       /\ Mapped(m) = 0 .. sys.a - 1
       /\ PGROUNDUP(sz) .. sys.a - 1 \subseteq m.U
  /\ sys.op = "dealloc" =>
       /\ sys.newsz <= sys.oldsz /\ sys.oldsz <= KERNBASE
       /\ sys.oldsz = sz \/ sys.newsz = sz
       /\ PGROUNDUP(sys.newsz) <= sys.a
       /\ 0 .. PGROUNDUP(sys.newsz) - 1 \subseteq Mapped(m)
       /\ Mapped(m) \subseteq (0 .. PGROUNDUP(sys.newsz) - 1)
                                \union (sys.a .. PGROUNDUP(sys.oldsz) - 1)

\* The inductive invariant behind TypeOK, NoRepetition and NoHoles.
IInv == TypeOK /\ Good(m) /\ SysInv

\* sbrk() is only asked for whole pages, and sizes stay whole pages.
Aligned(b) == \E k \in Int : b = k * PGSIZE
SizesAligned == /\ Aligned(sz)
                /\ sys.op = "alloc" => Aligned(sys.newsz)
                /\ sys.op = "dealloc" => Aligned(sys.newsz) /\ Aligned(sys.oldsz)

\* The inductive invariant behind DecryptedQueued and WorkingSetBounded.
QueueInv == IInv /\ SizesAligned /\ Queued(m, PGROUNDUP(sz), {})
-----------------------------------------------------------------------------
(* IInv is inductive *)

\* A step in user mode that maps and unmaps nothing keeps SysInv.
LEMMA SameSys ==
  ASSUME SysInv, InUser, Mapped(m') = Mapped(m), sz' = sz, sys' = sys
  PROVE  SysInv'
<1>1. Mapped(m)' = Mapped(m') BY DEF Mapped
<1> QED BY <1>1 DEF SysInv, InUser

\* The process that exec() leaves, at the start and later.
LEMMA ImageInv ==
  ASSUME NEW c \in [ImagePages -> Vals]
  PROVE  /\ m = Image(c) /\ plain = Contents(c) /\ sz = ImageSize /\ insn = <<>>
           /\ sys = [op |-> "user"] => IInv
<1> SUFFICES ASSUME m = Image(c), plain = Contents(c), sz = ImageSize, insn = <<>>,
                    sys = [op |-> "user"]
             PROVE  IInv
  OBVIOUS
<1>1. /\ Good(m) /\ Mapped(m) = 0 .. PGROUNDUP(sz) - 1
      /\ plain \in [Pages -> Bytes] /\ sz \in 0 .. KERNBASE
  BY GoodImage
<1>2. sys \in SysStates BY DEF SysStates
<1>3. TypeOK BY <1>1, <1>2 DEF TypeOK, Good
<1>4. SysInv BY <1>1 DEF SysInv
<1> QED BY <1>1, <1>3, <1>4 DEF IInv

\* Init: the process userinit() and the first exec() make.
LEMMA InitInv == Init => IInv
BY ImageInv DEF Init

\* A user instruction is issued.
LEMMA IssueInv == IInv /\ Issue => IInv'
<1> SUFFICES ASSUME IInv, Issue PROVE IInv' OBVIOUS
<1>1. SysInv' BY SameSys DEF IInv, Issue
<1>2. TypeOK' BY DEF IInv, Issue, TypeOK
<1>3. Good(m') BY DEF IInv, Issue
<1> QED BY <1>1, <1>2, <1>3 DEF IInv

\* A user instruction touches its pages and stores.
LEMMA ExecuteInv == IInv /\ Execute => IInv'
<1> SUFFICES ASSUME IInv, Execute PROVE IInv' OBVIOUS
<1> DEFINE S == {insn[k] : k \in 1 .. Len(insn)}
           p == insn[Len(insn)]
<1>1. insn \in Footprints \union {<<>>} /\ insn # <<>> /\ InUser
  BY DEF IInv, TypeOK, Execute
<1>2. S \in SUBSET Pages /\ p \in Pages BY <1>1, InsnPages
<1>3. PICK v \in Vals : m' = Store(Touch(m, S), p, v) /\ plain' = [plain EXCEPT ![p] = v]
  BY Zenon DEF Execute
<1>4. v \in Bytes BY ValsAreBytes
<1> HIDE DEF S, p
<1>5. Good(Touch(m, S)) /\ Mapped(Touch(m, S)) = Mapped(m)
  BY <1>2, GoodTouch DEF IInv
<1>6. Good(m') /\ Mapped(m') = Mapped(m) BY <1>2, <1>3, <1>4, <1>5, GoodStore
<1>7. SysInv' BY <1>1, <1>6, SameSys DEF IInv, Execute
<1>8. TypeOK' BY Zenon, <1>2, <1>3, <1>4, <1>6 DEF IInv, TypeOK, Good, Execute
<1> QED BY <1>6, <1>7, <1>8 DEF IInv

\* trap() decrypts the page that is missing or kills the process.
LEMMA FaultInv == IInv /\ Fault => IInv'
<1> SUFFICES ASSUME IInv, Fault PROVE IInv' OBVIOUS
<1>1. PICK k \in 1 .. Len(insn) :
        LET seen == Touch(m, {insn[j] : j \in 1 .. k - 1}) IN
        IF insn[k] \in Mapped(m)
        THEN m' = mdecrypt(seen, insn[k]) /\ sys' = sys
        ELSE m' = seen /\ sys' = [op |-> "killed"]
  BY Zenon DEF Fault
<1> DEFINE S == {insn[j] : j \in 1 .. k - 1}
           seen == Touch(m, S)
<1>2. insn \in Footprints \union {<<>>} /\ Good(m) BY DEF IInv, TypeOK
<1>3. S \in SUBSET Pages BY <1>2, InsnPages
<1>4. Good(seen) /\ Mapped(seen) = Mapped(m) BY <1>2, <1>3, GoodTouch
<1>5. \/ m' = mdecrypt(seen, insn[k]) /\ sys' = sys /\ insn[k] \in Mapped(seen)
      \/ m' = seen /\ sys' = [op |-> "killed"]
  BY <1>1, <1>4
<1> HIDE DEF seen
<1>6. Good(m') /\ Mapped(m') = Mapped(m) BY <1>4, <1>5, GoodMdecrypt
<1>7. InUser /\ plain' = plain /\ sz' = sz /\ insn' = insn BY DEF Fault
<1>8. SysInv'
  <2>1. CASE sys' = sys BY <2>1, <1>6, <1>7, SameSys DEF IInv
  <2>2. CASE sys' = [op |-> "killed"] BY <2>2 DEF SysInv, InUser
  <2> QED BY <1>5, <2>1, <2>2
<1>9. sys' \in SysStates BY <1>5 DEF IInv, TypeOK, SysStates
<1>10. TypeOK' BY <1>6, <1>7, <1>9 DEF IInv, TypeOK, Good
<1> QED BY <1>6, <1>8, <1>10 DEF IInv

\* The kernel touches a page of the process, or faults on it.
LEMMA KernelAccessInv == \A p \in Pages : IInv /\ KernelAccess(p) => IInv'
<1> SUFFICES ASSUME NEW p \in Pages, IInv, KernelAccess(p) PROVE IInv' OBVIOUS
<1>1. /\ InUser /\ Good(m) /\ p \in Mapped(m)
      /\ sz' = sz /\ insn' = insn /\ sys' = sys /\ {p} \in SUBSET Pages
  BY DEF IInv, KernelAccess, CanCall
<1>2. Good(m') /\ Mapped(m') = Mapped(m) /\ plain' \in [Pages -> Bytes]
  <2>1. ASSUME NEW v \in Vals, m' = Store(Touch(m, {p}), p, v),
               plain' = [plain EXCEPT ![p] = v]
        PROVE  Good(m') /\ Mapped(m') = Mapped(m) /\ plain' \in [Pages -> Bytes]
    <3>1. v \in Bytes BY ValsAreBytes
    <3>2. Good(Touch(m, {p})) /\ Mapped(Touch(m, {p})) = Mapped(m)
      BY <1>1, GoodTouch
    <3>3. Good(m') /\ Mapped(m') = Mapped(m) BY <2>1, <3>1, <3>2, GoodStore
    <3> QED BY <2>1, <3>1, <3>3 DEF IInv, TypeOK
  <2>2. ASSUME m' = mdecrypt(m, p), plain' = plain
        PROVE  Good(m') /\ Mapped(m') = Mapped(m) /\ plain' \in [Pages -> Bytes]
    BY <1>1, <2>2, GoodMdecrypt DEF IInv, TypeOK
  <2> QED BY <2>1, <2>2 DEF KernelAccess
<1>3. SysInv' BY <1>1, <1>2, SameSys DEF IInv
<1>4. TypeOK' BY <1>1, <1>2 DEF IInv, TypeOK, Good
<1> QED BY <1>2, <1>3, <1>4 DEF IInv

\* mencrypt() from a program.
LEMMA SysMencryptInv ==
  \A p \in Pages, len \in 1 .. NPAGES : IInv /\ sys_mencrypt(p, len) => IInv'
<1> SUFFICES ASSUME NEW p \in Pages, NEW len \in 1 .. NPAGES, IInv, sys_mencrypt(p, len)
             PROVE  IInv'
  OBVIOUS
<1>1. /\ InUser /\ Good(m) /\ m' = mencrypt(m, p .. p + len - 1)
      /\ plain' = plain /\ sz' = sz /\ insn' = insn /\ sys' = sys
  BY DEF IInv, sys_mencrypt, CanCall
<1>2. Good(m') /\ Mapped(m') = Mapped(m) BY <1>1, GoodMencrypt
<1>3. SysInv' BY <1>1, <1>2, SameSys DEF IInv
<1>4. TypeOK' BY <1>1, <1>2 DEF IInv, TypeOK, Good
<1> QED BY <1>2, <1>3, <1>4 DEF IInv

\* dump_rawphymem(), with a buffer at any offset.
LEMMA DumpInv ==
  \A p \in Pages, off \in DumpOffsets, v \in Vals :
    IInv /\ sys_dump_rawphymem(p, off, v) => IInv'
<1> SUFFICES ASSUME NEW p \in Pages, NEW off \in DumpOffsets, NEW v \in Vals,
                    IInv, sys_dump_rawphymem(p, off, v)
             PROVE  IInv'
  OBVIOUS
<1> DEFINE s == IF p \in m.P THEN Touch(m, {p}) ELSE mdecrypt(m, p)
           t == IF off = 0 THEN p ELSE p + 1
<1>1. /\ InUser /\ Good(m) /\ p \in Mapped(m) /\ {p} \in SUBSET Pages
      /\ sz' = sz /\ insn' = insn /\ sys' = sys
  BY DEF IInv, sys_dump_rawphymem, CanCall
<1>2. Good(s) /\ Mapped(s) = Mapped(m) BY <1>1, GoodTouch, GoodMdecrypt
<1>3. \/ t \in Pages /\ m' = Store(s, t, v) /\ plain' = [plain EXCEPT ![t] = v]
      \/ m' = s /\ plain' = plain
  BY DEF sys_dump_rawphymem
<1>4. v \in Bytes BY ValsAreBytes
<1> HIDE DEF s, t
<1>5. Good(m') /\ Mapped(m') = Mapped(m) BY <1>2, <1>3, <1>4, GoodStore
<1>6. plain' \in [Pages -> Bytes] BY <1>3, <1>4 DEF IInv, TypeOK
<1>7. SysInv' BY <1>1, <1>5, SameSys DEF IInv
<1>8. TypeOK' BY <1>1, <1>5, <1>6 DEF IInv, TypeOK, Good
<1> QED BY <1>5, <1>7, <1>8 DEF IInv
\* The entry of sbrk(): growproc() starts allocating or deallocating.
LEMMA SysSbrkInv == \A n \in SbrkArgs : IInv /\ sys_sbrk(n) => IInv'
<1> SUFFICES ASSUME NEW n \in SbrkArgs, IInv, sys_sbrk(n) PROVE IInv' OBVIOUS
<1> DEFINE R == PGROUNDUP(sz)
           w == sz + n
<1>1. /\ m' = m /\ plain' = plain /\ sz' = sz /\ insn' = insn /\ Good(m)
      /\ InUser /\ m.U # {} /\ sz \in Nat /\ sz <= KERNBASE /\ n \in Int
  BY InputsAssumption, KernbaseNat DEF IInv, TypeOK, sys_sbrk, CanCall
<1>2. Mapped(m) = 0 .. R - 1 BY <1>1 DEF IInv, SysInv, Good, Coherent
<1>3. R \in Nat BY <1>1, RoundUpNat
<1>4. CASE n > 0 /\ w < KERNBASE /\ sys' = [op |-> "alloc", a |-> R, newsz |-> w]
  <2>1. w \in Nat /\ sz <= w /\ w <= KERNBASE BY <1>1, <1>4, KernbaseNat
  <2>2. R <= PGROUNDUP(w) BY <1>1, <2>1, RoundUpMono
  <2>3. sys' \in SysStates BY <1>3, <1>4, <2>1 DEF SysStates
  <2> HIDE DEF R, w
  <2>4. sys'.op = "alloc" /\ sys'.a = R /\ sys'.newsz = w BY <1>4
  <2>5. R .. R - 1 = {} BY <1>3
  <2>6. SysInv' BY SMTT(30), <1>1, <1>2, <2>1, <2>2, <2>4, <2>5, <1>3 DEF SysInv, InUser, R
  <2> QED BY <1>1, <2>3, <2>6 DEF IInv, TypeOK
<1>5. CASE /\ n < 0 /\ w >= 0
           /\ sys' = [op |-> "dealloc", a |-> PGROUNDUP(w), oldsz |-> sz, newsz |-> w]
  <2>1. w \in Nat /\ w <= sz BY <1>1, <1>5
  <2>2. PGROUNDUP(w) \in Nat /\ PGROUNDUP(w) <= R
    BY <1>1, <2>1, RoundUpMono, RoundUpNat
  <2>3. sys' \in SysStates BY <1>1, <1>5, <2>1, <2>2 DEF SysStates
  <2> HIDE DEF w
  <2>4. /\ sys'.op = "dealloc" /\ sys'.a = PGROUNDUP(w)
        /\ sys'.oldsz = sz /\ sys'.newsz = w
    BY <1>5
  <2>5. /\ 0 .. PGROUNDUP(w) - 1 \subseteq 0 .. R - 1
        /\ 0 .. R - 1 \subseteq (0 .. PGROUNDUP(w) - 1) \union (PGROUNDUP(w) .. R - 1)
    BY <1>3, <2>2
  <2>6. SysInv' BY <1>1, <1>2, <2>1, <2>2, <2>4, <2>5 DEF SysInv, InUser
  <2> QED BY <1>1, <2>3, <2>6 DEF IInv, TypeOK
<1> QED BY <1>4, <1>5 DEF sys_sbrk

\* allocuvm() maps one more page.
LEMMA AllocPageInv == IInv /\ allocuvm_page => IInv'
<1> SUFFICES ASSUME IInv, allocuvm_page PROVE IInv' OBVIOUS
<1> DEFINE a == sys.a
<1>1. /\ sys.op = "alloc" /\ a \in Nat /\ sys.newsz \in Nat /\ sz \in Nat
      /\ sys' = [op |-> "alloc", a |-> a + 1, newsz |-> sys.newsz]
  BY KernbaseNat DEF IInv, TypeOK, SysStates, allocuvm_page
<1>2. /\ sz <= sys.newsz /\ sys.newsz <= KERNBASE
      /\ PGROUNDUP(sz) <= a /\ a < PGROUNDUP(sys.newsz)
      /\ Mapped(m) = 0 .. a - 1 /\ PGROUNDUP(sz) .. a - 1 \subseteq m.U
  BY <1>1 DEF IInv, SysInv, allocuvm_page
<1>3. PGROUNDUP(sys.newsz) \in Nat /\ PGROUNDUP(sys.newsz) <= NPAGES
      /\ PGROUNDUP(sz) \in Nat
  BY Zenon, <1>1, <1>2, RoundUpNat, RoundUpBound
<1>4. a \in Pages BY <1>1, <1>2, <1>3, SizesAssumption DEF Pages
<1>5. /\ plain' = [plain EXCEPT ![a] = 0] /\ sz' = sz /\ insn' = insn
      /\ m' = [P |-> m.P \union {a}, E |-> m.E, U |-> m.U \union {a},
               A |-> m.A, mem |-> [m.mem EXCEPT ![a] = 0], q |-> m.q]
  BY DEF allocuvm_page
<1>6. Good(m) BY DEF IInv
<1>7. m \in MemState /\ 0 \in Bytes BY <1>6 DEF Good, Bytes
<1>8. m' \in MemState
  <2>1. [m.mem EXCEPT ![a] = 0] \in [Pages -> Bytes] BY Zenon, <1>7, MemFields
  <2>2. /\ m.P \union {a} \subseteq Pages /\ m.E \subseteq Pages
        /\ m.U \union {a} \subseteq Pages /\ m.A \subseteq Pages
        /\ m.q \in QueueType(Pages, Pages)
    BY <1>4, <1>7, MemFields
  <2> QED BY <1>5, <2>1, <2>2 DEF MemState
<1>9. a \notin Mapped(m) BY <1>1, <1>2
<1>10. m'.P = m.P \union {a} /\ m'.E = m.E /\ m'.U = m.U \union {a} /\ m'.q = m.q
  BY <1>5
<1>11. Mapped(m') = Mapped(m) \union {a} BY <1>10 DEF Mapped
<1>12. Coherent(m') BY <1>6, <1>9, <1>10, <1>11 DEF Good, Coherent, Mapped
<1>13. Good(m') BY <1>6, <1>8, <1>10, <1>12 DEF Good
<1>14. plain' \in [Pages -> Bytes] BY Zenon, <1>5, <1>7 DEF IInv, TypeOK
<1>15. sys' \in SysStates BY <1>1 DEF SysStates
<1>16. TypeOK' BY <1>5, <1>8, <1>14, <1>15 DEF IInv, TypeOK
<1> HIDE DEF a
<1>17. sys'.op = "alloc" /\ sys'.a = a + 1 /\ sys'.newsz = sys.newsz BY <1>1
<1>18. Mapped(m') = 0 .. sys'.a - 1 BY <1>1, <1>2, <1>11, <1>17
<1>19. PGROUNDUP(sz) .. sys'.a - 1 \subseteq m'.U
  BY <1>1, <1>2, <1>3, <1>10, <1>17
<1>20. PGROUNDUP(sz) <= sys'.a /\ sys'.a <= PGROUNDUP(sys'.newsz)
  BY SMTT(30), <1>1, <1>2, <1>3, <1>17
<1>21. SysInv'
  BY SMTT(30), <1>2, <1>5, <1>17, <1>18, <1>19, <1>20 DEF SysInv, InUser, Mapped, PGROUNDUP
<1> QED BY <1>13, <1>16, <1>21 DEF IInv

\* kalloc() fails: allocuvm() calls deallocuvm() on what it added.
LEMMA AllocFailsInv == IInv /\ allocuvm_fails => IInv'
<1> SUFFICES ASSUME IInv, allocuvm_fails PROVE IInv' OBVIOUS
<1> DEFINE R == PGROUNDUP(sz)
           w == sys.newsz
<1>1. /\ sys.op = "alloc" /\ sys.a \in Nat /\ w \in Nat /\ sz \in Nat
      /\ sys' = [op |-> "dealloc", a |-> R, oldsz |-> w, newsz |-> sz]
      /\ m' = m /\ plain' = plain /\ sz' = sz /\ insn' = insn
  BY KernbaseNat DEF IInv, TypeOK, SysStates, allocuvm_fails
<1>2. /\ sz <= w /\ w <= KERNBASE /\ R <= sys.a /\ sys.a <= PGROUNDUP(w)
      /\ Mapped(m) = 0 .. sys.a - 1
  BY <1>1 DEF IInv, SysInv
<1>3. R \in Nat /\ PGROUNDUP(w) \in Nat BY <1>1, RoundUpNat
<1>4. sys' \in SysStates BY <1>1, <1>3 DEF SysStates
<1>5. /\ 0 .. R - 1 \subseteq 0 .. sys.a - 1
      /\ 0 .. sys.a - 1 \subseteq (0 .. R - 1) \union (R .. PGROUNDUP(w) - 1)
  BY SMTT(30), <1>1, <1>2, <1>3
<1> HIDE DEF w
<1>6. /\ sys'.op = "dealloc" /\ sys'.a = R /\ sys'.oldsz = w /\ sys'.newsz = sz
  BY <1>1
<1>7. SysInv' BY <1>1, <1>2, <1>3, <1>5, <1>6 DEF SysInv, InUser
<1> QED BY <1>1, <1>4, <1>7 DEF IInv, TypeOK

\* growproc() returns after growing.
LEMMA GrownInv == IInv /\ growproc_grown => IInv'
<1> SUFFICES ASSUME IInv, growproc_grown PROVE IInv' OBVIOUS
<1>1. /\ sys.op = "alloc" /\ sys.newsz \in Nat /\ sz' = sys.newsz
      /\ sys.a = PGROUNDUP(sys.newsz) /\ sys' = [op |-> "user"]
      /\ plain' = plain /\ insn' = insn
  BY DEF IInv, TypeOK, SysStates, growproc_grown
<1>2. sys.newsz <= KERNBASE /\ Mapped(m) = 0 .. sys.a - 1
  BY <1>1 DEF IInv, SysInv
<1>3. PICK S : m' = mencrypt(m, S) BY DEF growproc_grown
<1>4. Good(m') /\ Mapped(m') = Mapped(m) BY <1>3, GoodMencrypt DEF IInv
<1>5. SysInv'
  <2>1. Mapped(m') = 0 .. PGROUNDUP(sz') - 1 BY <1>1, <1>2, <1>4
  <2> QED BY <1>1, <2>1 DEF SysInv, Mapped, PGROUNDUP
<1>6. sys' \in SysStates BY <1>1 DEF SysStates
<1>7. sz' \in 0 .. KERNBASE BY <1>1, <1>2, KernbaseNat
<1>8. TypeOK' BY <1>1, <1>4, <1>6, <1>7 DEF IInv, TypeOK, Good
<1> QED BY <1>4, <1>5, <1>8 DEF IInv

\* growproc() returns after shrinking, or after the allocation failed.
LEMMA ShrunkInv == IInv /\ growproc_shrunk => IInv'
<1> SUFFICES ASSUME IInv, growproc_shrunk PROVE IInv' OBVIOUS
<1>1. /\ sys.op = "dealloc" /\ sys.newsz \in Nat /\ sys.a \in Nat /\ sys.oldsz \in Nat
      /\ sz' = IF sys.newsz = 0 THEN sz ELSE sys.newsz
      /\ sys.a >= PGROUNDUP(sys.oldsz) /\ sys' = [op |-> "user"]
      /\ plain' = plain /\ insn' = insn /\ m' = m
  BY DEF IInv, TypeOK, SysStates, growproc_shrunk
<1> DEFINE R == PGROUNDUP(sys.newsz)
<1>2. /\ sys.newsz <= sys.oldsz /\ sys.oldsz <= KERNBASE
      /\ 0 .. R - 1 \subseteq Mapped(m)
      /\ Mapped(m) \subseteq (0 .. R - 1) \union (sys.a .. PGROUNDUP(sys.oldsz) - 1)
  BY <1>1 DEF IInv, SysInv
<1>3. R \in Nat /\ PGROUNDUP(sys.oldsz) \in Nat BY <1>1, RoundUpNat
<1>4. sys.a .. PGROUNDUP(sys.oldsz) - 1 = {} BY <1>1, <1>3
<1>5. Mapped(m) = 0 .. R - 1 BY Zenon, <1>2, <1>4
<1>6. sys.newsz = 0 => Mapped(m) = {} BY <1>5, RoundUpZero
<1>7. Mapped(m') \in {{}, 0 .. PGROUNDUP(sz') - 1} BY <1>1, <1>5, <1>6
<1>8. SysInv' BY <1>1, <1>7 DEF SysInv, Mapped, PGROUNDUP
<1>9. sys' \in SysStates BY <1>1 DEF SysStates
<1>10. sz' \in 0 .. KERNBASE BY <1>1, <1>2, KernbaseNat DEF IInv, TypeOK
<1> QED BY <1>1, <1>8, <1>9, <1>10 DEF IInv, TypeOK

\* cq_remove() keeps va and pte of every occupied slot together.
LEMMA RemoveVa ==
  ASSUME NEW q \in QueueType(Pages, Pages), NEW x, ~RunsAway(q, x), VaMatchesPte(q)
  PROVE  VaMatchesPte(cq_remove(q, x))
<1> DEFINE r == cq_remove(q, x)
<1>1. \A k \in Slots : Occupied(r, k)
        => \E i \in Slots : Occupied(q, i) /\ r.node[k] = q.node[i]
  BY RemoveMoves
<1> HIDE DEF r
<1>2. VaMatchesPte(r) BY <1>1 DEF VaMatchesPte
<1> QED BY <1>2 DEF r

\* One page is given back: the memory of the process stays well formed.
LEMMA GoodUnmap ==
  ASSUME NEW s, Good(s), NEW x, ~RunsAway(s.q, x)
  PROVE  LET r == [P |-> s.P \ {x}, E |-> s.E \ {x}, U |-> s.U \ {x}, A |-> s.A \ {x},
                   mem |-> s.mem, q |-> cq_remove(s.q, x)]
         IN Good(r) /\ Mapped(r) = Mapped(s) \ {x}
<1> DEFINE n == cq_remove(s.q, x)
           r == [P |-> s.P \ {x}, E |-> s.E \ {x}, U |-> s.U \ {x}, A |-> s.A \ {x},
                 mem |-> s.mem, q |-> n]
<1>1. s \in MemState /\ Coherent(s) /\ VaMatchesPte(s.q) /\ Distinct(s.q) BY DEF Good
<1>2. s.q \in QueueType(Pages, Pages) BY <1>1, MemFields
<1>3. n \in QueueType(Pages, Pages) BY <1>2, RemoveType
<1>4. VaMatchesPte(n) BY <1>1, <1>2, RemoveVa
<1>5. Distinct(n) BY SMTT(30), <1>1, <1>2, RemoveDistinct
<1> HIDE DEF n
<1>6. r \in MemState
  <2>1. /\ s.P \ {x} \subseteq Pages /\ s.E \ {x} \subseteq Pages
        /\ s.U \ {x} \subseteq Pages /\ s.A \ {x} \subseteq Pages
        /\ s.mem \in [Pages -> Bytes]
    BY <1>1, MemFields
  <2> QED BY <1>3, <2>1 DEF MemState
<1>7. Mapped(r) = Mapped(s) \ {x} BY DEF Mapped
<1>8. Coherent(r) BY SMTT(30), <1>1, <1>7 DEF Coherent
<1>9. Good(r) BY <1>4, <1>5, <1>6, <1>8 DEF Good
<1> QED BY Zenon, <1>7, <1>9 DEF n

\* deallocuvm() goes past one page.
LEMMA DeallocPageInv == IInv /\ deallocuvm_page => IInv'
<1> SUFFICES ASSUME IInv, deallocuvm_page PROVE IInv' OBVIOUS
<1> DEFINE a == sys.a
           R == PGROUNDUP(sys.newsz)
           T == PGROUNDUP(sys.oldsz)
<1>1. /\ sys.op = "dealloc" /\ sys.newsz \in Nat /\ a \in Nat /\ sys.oldsz \in Nat
      /\ sys = [op |-> "dealloc", a |-> a, oldsz |-> sys.oldsz, newsz |-> sys.newsz]
      /\ plain' = plain /\ insn' = insn /\ sz' = sz /\ Good(m)
  BY DEF IInv, TypeOK, SysStates, deallocuvm_page
<1>2. /\ sys.newsz <= sys.oldsz /\ sys.oldsz <= KERNBASE
      /\ sys.oldsz = sz \/ sys.newsz = sz
      /\ R <= a
      /\ 0 .. R - 1 \subseteq Mapped(m)
      /\ Mapped(m) \subseteq (0 .. R - 1) \union (a .. T - 1)
  BY <1>1 DEF IInv, SysInv
<1>3. R \in Nat /\ T \in Nat BY <1>1, RoundUpNat
<1>4. CASE m' = m /\ sys' = [op |-> "runaway"]
  <2>1. sys' \in SysStates BY <1>4 DEF SysStates
  <2>2. SysInv' BY <1>4 DEF SysInv, InUser
  <2> QED BY <1>1, <1>4, <2>1, <2>2 DEF IInv, TypeOK
<1>5. CASE /\ Good(m') /\ Mapped(m') = Mapped(m) \ {a}
           /\ sys' = [sys EXCEPT !.a = @ + 1]
  <2>1. sys' = [op |-> "dealloc", a |-> a + 1, oldsz |-> sys.oldsz, newsz |-> sys.newsz]
    BY <1>1, <1>5
  <2>2. sys' \in SysStates BY <1>1, <2>1 DEF SysStates
  <2>3. /\ 0 .. R - 1 \subseteq Mapped(m')
        /\ Mapped(m') \subseteq (0 .. R - 1) \union (a + 1 .. T - 1)
    BY <1>1, <1>2, <1>3, <1>5
  <2> HIDE DEF a
  <2>4. /\ sys'.op = "dealloc" /\ sys'.a = a + 1 /\ sys'.oldsz = sys.oldsz
        /\ sys'.newsz = sys.newsz
    BY <2>1
  <2>5. R <= a + 1 BY <1>1, <1>2, <1>3
  <2>6. Mapped(m)' = Mapped(m') BY DEF Mapped
  <2>7. SysInv' BY <1>1, <1>2, <2>3, <2>4, <2>5, <2>6 DEF SysInv, InUser
  <2> QED BY <1>1, <1>5, <2>2, <2>7 DEF IInv, TypeOK, Good
<1>6. CASE a \notin Mapped(m) BY <1>1, <1>5, <1>6 DEF deallocuvm_page
<1>7. CASE a \in Mapped(m) /\ ~RunsAway(m.q, a)
  <2>1. /\ m' = [P |-> m.P \ {a}, E |-> m.E \ {a}, U |-> m.U \ {a}, A |-> m.A \ {a},
                mem |-> m.mem, q |-> cq_remove(m.q, a)]
        /\ sys' = [sys EXCEPT !.a = @ + 1]
    BY <1>7 DEF deallocuvm_page
  <2>2. Good(m') /\ Mapped(m') = Mapped(m) \ {a} BY Zenon, <1>1, <1>7, <2>1, GoodUnmap
  <2> QED BY Zenon, <1>5, <2>1, <2>2
<1> QED BY <1>4, <1>6, <1>7 DEF deallocuvm_page

\* exec() replaces the image.
LEMMA ExecInv == IInv /\ exec => IInv'
<1> SUFFICES ASSUME IInv, exec PROVE IInv' OBVIOUS
<1>1. PICK c \in [ImagePages -> Vals] : m' = Image(c) /\ plain' = Contents(c) BY DEF exec
<1>2. /\ Good(m') /\ Mapped(m') = 0 .. PGROUNDUP(sz') - 1
      /\ plain' \in [Pages -> Bytes] /\ sz' \in 0 .. KERNBASE
  BY <1>1, GoodImage DEF exec
<1>3. insn' = insn /\ sys' = sys /\ InUser BY DEF exec, CanCall
<1>4. TypeOK' BY <1>2, <1>3 DEF IInv, TypeOK, Good
<1>5. SysInv' BY <1>2, <1>3 DEF SysInv, InUser, Mapped, PGROUNDUP
<1> QED BY <1>2, <1>4, <1>5 DEF IInv

\* Every step of the process and of the kernel on its behalf keeps IInv.
LEMMA NextInv == IInv /\ [Next]_vars => IInv'
<1> SUFFICES ASSUME IInv, [Next]_vars PROVE IInv' OBVIOUS
<1>1. CASE UNCHANGED vars
  <2>1. m' = m /\ plain' = plain /\ sz' = sz /\ insn' = insn /\ sys' = sys
    BY <1>1 DEF vars
  <2> QED BY <2>1 DEF IInv, TypeOK, SysInv, InUser, Mapped
<1>2. CASE Next
  BY SMTT(30), <1>2, IssueInv, ExecuteInv, FaultInv, KernelAccessInv, SysMencryptInv, DumpInv,
     SysSbrkInv, AllocPageInv, AllocFailsInv, GrownInv, DeallocPageInv, ShrunkInv, ExecInv
     DEF Next, KernelLoop
<1> QED BY <1>1, <1>2

\* The inductive invariant holds throughout.
LEMMA SpecInv == Spec => []IInv
BY InitInv, NextInv, PTL DEF Spec

\* Type correctness of the memory of a process: page tables, queue, contents,
\* size and system calls.
THEOREM TypeCorrect == Spec => []TypeOK
<1>1. IInv => TypeOK BY DEF IInv
<1> QED BY <1>1, SpecInv, PTL

\* Whatever the program and the kernel do, cq_enset() and cq_remove() never let
\* a page occupy two slots of the queue.
THEOREM QueueNeverRepeats == Spec => []NoRepetition
<1>1. IInv => NoRepetition BY DEF IInv, Good, NoRepetition
<1> QED BY <1>1, SpecInv, PTL

\* The pages of the process are contiguous whenever it runs and whenever
\* allocuvm() is about to map one, for any arguments of sbrk() and any failed
\* allocation: mappages() never finds its page present.
THEOREM AddressSpaceContiguous == Spec => []NoHoles
<1>1. IInv => NoHoles BY DEF IInv, SysInv, NoHoles
<1> QED BY <1>1, SpecInv, PTL
-----------------------------------------------------------------------------
(* Contents.  dump_rawphymem() must be given page-aligned buffers: with any*)
(* other the property fails, as a run of the model shows.                  *)

\* Each step keeps what the program stored.
LEMMA PlainStep ==
  ASSUME DumpOffsets \subseteq {0}
  PROVE  IInv /\ PlaintextPreserved /\ [Next]_vars => PlaintextPreserved'
<1> SUFFICES ASSUME IInv, PlaintextPreserved, [Next]_vars PROVE Intact(m', plain')
  BY DEF PlaintextPreserved, Intact
<1>1. /\ Good(m) /\ m \in MemState /\ Coherent(m) /\ plain \in [Pages -> Bytes]
      /\ Intact(m, plain) /\ insn \in Footprints \union {<<>>}
  BY DEF IInv, TypeOK, Good, PlaintextPreserved, Intact
<1>2. ASSUME m' = m, plain' = plain PROVE Intact(m', plain') BY <1>1, <1>2
<1>3. ASSUME NEW p \in Pages, NEW S \in SUBSET Pages, NEW v \in Vals, p \in m.P,
             m' = Store(Touch(m, S), p, v), plain' = [plain EXCEPT ![p] = v]
      PROVE  Intact(m', plain')
  <2>1. v \in Bytes BY ValsAreBytes
  <2>2. Touch(m, S) \in MemState /\ Touch(m, S).E = m.E BY <1>1, TouchFrame
  <2>3. p \notin m.E BY <1>1, <1>3 DEF Coherent
  <2>4. Intact(Touch(m, S), plain) BY <1>1, IntactTouch
  <2> QED BY Zenon, <1>1, <1>3, <2>1, <2>2, <2>3, <2>4, IntactStore
<1>4. CASE Execute
  <2> DEFINE S == {insn[k] : k \in 1 .. Len(insn)}
             p == insn[Len(insn)]
  <2>1. insn # <<>> BY <1>4 DEF Execute
  <2>2. S \in SUBSET Pages /\ p \in Pages /\ Len(insn) \in 1 .. Len(insn)
    BY <1>1, <2>1, InsnPages
  <2>3. p \in m.P BY <1>4, <2>2 DEF Execute, Accessible
  <2>4. \E v \in Vals : m' = Store(Touch(m, S), p, v) /\ plain' = [plain EXCEPT ![p] = v]
    BY Zenon, <1>4 DEF Execute
  <2> HIDE DEF S, p
  <2> QED BY Zenon, <2>2, <2>3, <2>4, <1>3
<1>5. CASE Fault
  <2>1. PICK k \in 1 .. Len(insn) :
          /\ ~Accessible(insn[k])
          /\ LET seen == Touch(m, {insn[j] : j \in 1 .. k - 1}) IN
             IF insn[k] \in Mapped(m) THEN m' = mdecrypt(seen, insn[k]) ELSE m' = seen
    BY Zenon, <1>5 DEF Fault
  <2> DEFINE S == {insn[j] : j \in 1 .. k - 1}
             seen == Touch(m, S)
             p == insn[k]
  <2>2. S \in SUBSET Pages BY <1>1, InsnPages
  <2>3. /\ Good(seen) /\ Mapped(seen) = Mapped(m) /\ Intact(seen, plain)
        /\ seen.U = m.U /\ seen.E = m.E
    BY <1>1, <2>2, GoodTouch, IntactTouch, TouchFrame
  <2>4. p \in Mapped(m) => (p \in m.U => p \in m.E)
    BY <2>1 DEF Accessible, Mapped
  <2>5. plain' = plain BY <1>5 DEF Fault
  <2>6. IF p \in Mapped(m) THEN m' = mdecrypt(seen, p) ELSE m' = seen BY <2>1
  <2> HIDE DEF seen, p
  <2>7. CASE p \in Mapped(m)
    BY SMTT(30), <1>1, <2>3, <2>4, <2>5, <2>6, <2>7, MdecryptIntact
  <2>8. CASE p \notin Mapped(m) BY SMTT(30), <2>3, <2>5, <2>6, <2>8
  <2> QED BY <2>7, <2>8
<1>6. ASSUME NEW p \in Pages, KernelAccess(p) PROVE Intact(m', plain')
  <2>1. p \in Mapped(m) /\ {p} \in SUBSET Pages BY <1>6 DEF KernelAccess
  <2>2. ASSUME p \notin m.P, m' = mdecrypt(m, p), plain' = plain
        PROVE  Intact(m', plain')
    <3>1. p \in m.E BY <2>1, <2>2 DEF Mapped
    <3> QED BY SMTT(30), <1>1, <2>1, <2>2, <3>1, MdecryptIntact
  <2> QED BY SMTT(30), <1>3, <1>6, <2>1, <2>2 DEF KernelAccess
<1>7. ASSUME NEW p \in Pages, NEW off \in DumpOffsets, NEW v \in Vals,
             sys_dump_rawphymem(p, off, v)
      PROVE  Intact(m', plain')
  <2> DEFINE s == IF p \in m.P THEN Touch(m, {p}) ELSE mdecrypt(m, p)
  <2>1. off = 0 /\ p \in Mapped(m) /\ {p} \in SUBSET Pages
    BY SMTT(30), <1>7 DEF sys_dump_rawphymem
  <2>2. \/ m' = Store(s, p, v) /\ plain' = [plain EXCEPT ![p] = v]
        \/ m' = s /\ plain' = plain
    BY <1>7, <2>1 DEF sys_dump_rawphymem
  <2>3. v \in Bytes BY SMTT(30), ValsAreBytes
  <2>4. s \in MemState /\ Intact(s, plain) /\ p \notin s.E
    <3>1. CASE p \in m.P
      <4>1. p \notin m.E BY <1>1, <3>1 DEF Coherent
      <4> QED BY SMTT(30), <1>1, <2>1, <3>1, <4>1, TouchFrame, IntactTouch
    <3>2. CASE p \notin m.P
      <4>1. p \in m.E BY <2>1, <3>2 DEF Mapped
      <4>2. Intact(mdecrypt(m, p), plain) BY SMTT(30), <1>1, <2>1, <4>1, MdecryptIntact
      <4>3. p \notin mdecrypt(m, p).E BY <1>1, <2>1, MdecryptPage
      <4>4. mdecrypt(m, p) \in MemState BY <1>1, <2>1, GoodMdecrypt DEF Good
      <4> QED BY <3>2, <4>2, <4>3, <4>4
    <3> QED BY SMTT(30), <3>1, <3>2
  <2> HIDE DEF s
  <2> QED BY SMTT(30), <1>1, <2>2, <2>3, <2>4, IntactStore
<1>8. ASSUME NEW S, m' = mencrypt(m, S), plain' = plain PROVE Intact(m', plain')
  BY SMTT(30), <1>1, <1>8, MencryptIntact
<1>9. CASE allocuvm_page
  <2> DEFINE a == sys.a
  <2>1. a \in Nat /\ Mapped(m) = 0 .. a - 1
    BY <1>9 DEF allocuvm_page, IInv, SysInv, TypeOK, SysStates
  <2>2. a \notin m.E BY <2>1 DEF Mapped
  <2>3. /\ m'.U = m.U \union {a} /\ m'.E = m.E /\ m'.mem = [m.mem EXCEPT ![a] = 0]
        /\ plain' = [plain EXCEPT ![a] = 0]
    BY <1>9 DEF allocuvm_page
  <2>4. m'.U \subseteq Pages BY <1>1, <1>9, AllocPageInv, MemFields DEF IInv, Good
  <2>5. m.mem \in [Pages -> Bytes] BY <1>1, MemFields
  <2> HIDE DEF a
  <2> QED BY SMTT(30), <1>1, <2>2, <2>3, <2>4, <2>5 DEF Intact
<1>10. CASE deallocuvm_page
  <2>1. /\ plain' = plain
        /\ m' = m \/ (m'.U = m.U \ {sys.a} /\ m'.E = m.E \ {sys.a} /\ m'.mem = m.mem)
    BY <1>10 DEF deallocuvm_page
  <2> QED BY <1>1, <2>1 DEF Intact
<1>11. CASE exec
  <2>1. PICK c \in [ImagePages -> Vals] : m' = Image(c) /\ plain' = Contents(c)
    BY <1>11 DEF exec
  <2>2. m'.U \subseteq Pages BY <1>11, ExecInv, MemFields DEF IInv, Good
  <2> QED BY <2>1, <2>2 DEF Intact, Image, Contents
<1>12. CASE growproc_grown BY <1>8, <1>12 DEF growproc_grown
<1>13. ASSUME NEW p \in Pages, NEW len \in 1 .. NPAGES, sys_mencrypt(p, len)
       PROVE  Intact(m', plain')
  BY <1>8, <1>13 DEF sys_mencrypt
<1>14. CASE Issue \/ (\E n \in SbrkArgs : sys_sbrk(n)) \/ allocuvm_fails \/ growproc_shrunk
  BY <1>2, <1>14 DEF Issue, sys_sbrk, allocuvm_fails, growproc_shrunk
<1>15. CASE UNCHANGED vars BY <1>2, <1>15 DEF vars
<1> QED BY SMTT(30), <1>4, <1>5, <1>6, <1>7, <1>9, <1>10, <1>11, <1>12, <1>13, <1>14, <1>15
     DEF Next, KernelLoop

\* No sequence of faults, evictions, mencrypt() calls, growing, shrinking and
\* exec() flips a user page twice or not at all: with page-aligned buffers for
\* dump_rawphymem() the program's bytes are always recoverable.
THEOREM ContentsPreserved ==
  ASSUME DumpOffsets \subseteq {0}
  PROVE  Spec => []PlaintextPreserved
<1>1. Init => PlaintextPreserved
  <2> SUFFICES ASSUME NEW c \in [ImagePages -> Vals], m = Image(c), plain = Contents(c)
               PROVE  PlaintextPreserved
    BY DEF Init
  <2>1. m.U \subseteq Pages BY GoodImage, MemFields DEF Good
  <2> QED BY <2>1 DEF PlaintextPreserved, Image, Contents
<1>2. IInv /\ PlaintextPreserved /\ [Next]_vars => PlaintextPreserved' BY PlainStep
<1> QED BY <1>1, <1>2, SpecInv, PTL DEF Spec
-----------------------------------------------------------------------------
(* The bound on decrypted pages.  sbrk() must be asked for whole pages: for *)
(* a part of one growproc() leaves a page decrypted and outside the queue. *)

\* Sums of whole pages are whole pages.
LEMMA AlignedSum == \A x, y \in Int : Aligned(x) /\ Aligned(y) => Aligned(x + y)
<1> SUFFICES ASSUME NEW j \in Int, NEW k \in Int
             PROVE  Aligned(j * PGSIZE + k * PGSIZE)
  BY DEF Aligned
<1>1. j * PGSIZE + k * PGSIZE = (j + k) * PGSIZE BY SizesAssumption
<1> QED BY <1>1 DEF Aligned

\* growproc()'s page_num counts the pages allocuvm() mapped when both sizes are
\* whole pages.
LEMMA AlignedPages ==
  ASSUME NEW x \in Nat, NEW y \in Nat, Aligned(x), Aligned(y), x <= y
  PROVE  PGROUNDUP(x) + (y - x) \div PGSIZE = PGROUNDUP(y)
<1>1. PICK j \in Int : x = j * PGSIZE BY DEF Aligned
<1>2. PICK k \in Int : y = k * PGSIZE BY DEF Aligned
<1>3. j \in Nat /\ k \in Nat BY <1>1, <1>2, SizesAssumption
<1>4. PGROUNDUP(x) = j /\ PGROUNDUP(y) = k BY <1>1, <1>2, <1>3, RoundUpPages
<1>5. y - x = (k - j) * PGSIZE BY <1>1, <1>2, SizesAssumption
<1>6. ((k - j) * PGSIZE) \div PGSIZE = k - j BY <1>3, SizesAssumption
<1> QED BY <1>3, <1>4, <1>5, <1>6

\* Sizes stay whole pages.
LEMMA AlignedStep ==
  ASSUME \A n \in SbrkArgs : Aligned(n)
  PROVE  IInv /\ SizesAligned /\ [Next]_vars => SizesAligned'
<1> SUFFICES ASSUME IInv, SizesAligned, [Next]_vars PROVE SizesAligned' OBVIOUS
<1>0. sys \in SysStates /\ sz \in Int BY KernbaseNat DEF IInv, TypeOK
<1>1. ASSUME sz' = sz, sys' = sys PROVE SizesAligned'
  BY <1>1 DEF SizesAligned, Aligned
<1>2. ASSUME NEW n \in SbrkArgs, sys_sbrk(n) PROVE SizesAligned'
  <2>1. Aligned(sz + n) BY SMTT(30), <1>0, AlignedSum, InputsAssumption DEF SizesAligned
  <2>2. sz' = sz /\ (\/ sys'.op = "alloc" /\ sys'.newsz = sz + n
                     \/ sys'.op = "dealloc" /\ sys'.newsz = sz + n /\ sys'.oldsz = sz)
    BY <1>2 DEF sys_sbrk
  <2> QED BY <2>1, <2>2 DEF SizesAligned, Aligned
<1>3. CASE allocuvm_page \/ deallocuvm_page \/ allocuvm_fails \/ growproc_grown
           \/ growproc_shrunk \/ Fault
  <2>1. CASE allocuvm_page
    <3>1. sys'.op = "alloc" /\ sys'.newsz = sys.newsz /\ sz' = sz /\ sys.op = "alloc"
      BY <1>0, <2>1 DEF allocuvm_page, SysStates
    <3> QED BY <3>1 DEF SizesAligned, Aligned
  <2>2. CASE deallocuvm_page
    <3>1. /\ sz' = sz /\ sys.op = "dealloc"
          /\ \/ sys'.op = "runaway"
             \/ sys'.op = "dealloc" /\ sys'.newsz = sys.newsz /\ sys'.oldsz = sys.oldsz
      BY <1>0, <2>2 DEF deallocuvm_page, SysStates
    <3> QED BY <3>1 DEF SizesAligned, Aligned
  <2>3. CASE allocuvm_fails
    <3>1. /\ sz' = sz /\ sys.op = "alloc"
          /\ sys'.op = "dealloc" /\ sys'.newsz = sz /\ sys'.oldsz = sys.newsz
      BY <2>3 DEF allocuvm_fails
    <3> QED BY <3>1 DEF SizesAligned, Aligned
  <2>4. CASE growproc_grown
    <3>1. sys.op = "alloc" /\ sz' = sys.newsz /\ sys'.op = "user"
      BY <2>4 DEF growproc_grown
    <3> QED BY <3>1 DEF SizesAligned, Aligned
  <2>5. CASE growproc_shrunk
    <3>1. sys.op = "dealloc" /\ (sz' = sz \/ sz' = sys.newsz) /\ sys'.op = "user"
      BY <2>5 DEF growproc_shrunk
    <3> QED BY <3>1 DEF SizesAligned, Aligned
  <2>6. CASE Fault
    <3>1. sz' = sz /\ (sys' = sys \/ sys'.op = "killed") BY <2>6 DEF Fault
    <3> QED BY <1>1, <3>1 DEF SizesAligned, Aligned
  <2> QED BY <1>3, <2>1, <2>2, <2>3, <2>4, <2>5, <2>6
<1>4. CASE exec
  <2>1. sz' = (TEXT + 2) * PGSIZE /\ sys' = sys /\ sys.op = "user"
    BY <1>4 DEF exec, CanCall, InUser, ImageSize
  <2> QED BY <2>1, SizesAssumption DEF SizesAligned, Aligned
<1>5. CASE UNCHANGED vars BY SMTT(30), <1>1, <1>5 DEF vars
<1>6. CASE Issue \/ Execute \/ (\E p \in Pages : KernelAccess(p))
           \/ (\E p \in Pages, len \in 1 .. NPAGES : sys_mencrypt(p, len))
           \/ (\E p \in Pages, off \in DumpOffsets, v \in Vals :
                 sys_dump_rawphymem(p, off, v))
  BY ZenonT(30), <1>1, <1>6 DEF Issue, Execute, KernelAccess, sys_mencrypt, sys_dump_rawphymem
<1> QED BY <1>2, <1>3, <1>4, <1>5, <1>6 DEF Next, KernelLoop

\* Queued depends on the decrypted user pages and the queue only.
LEMMA QueuedSame ==
  ASSUME NEW s, NEW t, NEW b, Queued(s, b, {}), t.P = s.P, t.U = s.U, t.q = s.q
  PROVE  Queued(t, b, {})
BY DEF Queued

\* growproc() encrypts every page allocuvm() added.
LEMMA GrownQueued ==
  ASSUME QueueInv, growproc_grown
  PROVE  Queued(m', PGROUNDUP(sz'), {})
<1> DEFINE R == PGROUNDUP(sz)
           T == PGROUNDUP(sys.newsz)
           S == R .. T - 1
<1>1. /\ sys.op = "alloc" /\ sys.newsz \in Nat /\ sz \in Nat /\ m \in MemState
      /\ sys.a = T /\ sz' = sys.newsz /\ Coherent(m)
  <2>1. sys.op = "alloc" /\ sys.a = T /\ sz' = sys.newsz BY DEF growproc_grown
  <2>2. Good(m) BY DEF QueueInv, IInv
  <2>3. m \in MemState /\ Coherent(m) BY <2>2 DEF Good
  <2>4. sz \in Nat BY KernbaseNat DEF QueueInv, IInv, TypeOK
  <2>5. sys \in SysStates BY DEF QueueInv, IInv, TypeOK
  <2>6. sys.newsz \in Nat BY SMTT(30), <2>1, <2>5 DEF SysStates
  <2> QED BY <2>1, <2>3, <2>4, <2>6
<1>2. sz <= sys.newsz /\ S \subseteq m.U /\ Aligned(sz) /\ Aligned(sys.newsz)
  BY SMTT(30), <1>1 DEF QueueInv, IInv, SysInv, SizesAligned
<1>3. R + (sys.newsz - sz) \div PGSIZE = T BY <1>1, <1>2, AlignedPages
<1>4. m' = mencrypt(m, S)
  <2> DEFINE n == (sys.newsz - sz) \div PGSIZE
  <2>1. m' = mencrypt(m, R .. R + n - 1) BY DEF growproc_grown
  <2>2. R + n = T /\ R \in Int /\ n \in Int /\ T \in Int
    BY <1>1, <1>3, RoundUpNat, SizesAssumption
  <2> HIDE DEF R, T, n
  <2>3. R + n - 1 = T - 1 BY <2>2
  <2>4. R .. R + n - 1 = S BY <2>3
  <2> HIDE DEF S
  <2> QED BY <2>1, <2>4
<1>5. R \in Nat /\ T \in Nat BY <1>1, RoundUpNat
<1> HIDE DEF S
<1>6. \A p \in S : p \in Pages /\ uva2ka(m, p)
  BY <1>1, <1>2, MemFields DEF uva2ka, Coherent
<1>7. m' = Encrypt(m, S) BY SMTT(30), <1>4, <1>6 DEF mencrypt
<1>8. m'.P = m.P \ (S \ m.E) /\ m'.U = m.U /\ m'.q = m.q BY <1>7 DEF Encrypt
<1>9. \A p \in m'.P : p \in m.P /\ p \notin S BY <1>1, <1>8 DEF Coherent
<1>10. \A p \in m.P : p \in Nat BY <1>1, MemFields, SizesAssumption DEF Pages
<1>11. \A p \in m'.P \intersect m'.U : p < T => p < R
  BY <1>5, <1>9, <1>10 DEF S
<1> QED BY <1>1, <1>8, <1>9, <1>11 DEF QueueInv, Queued

\* Every step keeps the decrypted pages below sz in the queue.
LEMMA QueuedStep ==
  QueueInv /\ [Next]_vars => Queued(m', PGROUNDUP(sz'), {})
<1> SUFFICES ASSUME QueueInv, [Next]_vars PROVE Queued(m', PGROUNDUP(sz'), {}) OBVIOUS
<1> DEFINE R == PGROUNDUP(sz)
<1>1. /\ Good(m) /\ m \in MemState /\ insn \in Footprints \union {<<>>}
      /\ Queued(m, R, {}) /\ sz \in Nat
  BY KernbaseNat DEF QueueInv, IInv, TypeOK, Good
<1>2. R \in Int BY <1>1, RoundUpNat
<1>3. ASSUME sz' = sz, m' = m PROVE Queued(m', PGROUNDUP(sz'), {}) BY <1>1, <1>3
<1>4. ASSUME sz' = sz, Queued(m', R, {}) PROVE Queued(m', PGROUNDUP(sz'), {}) BY <1>4
<1> HIDE DEF R
<1>5. ASSUME NEW S \in SUBSET Pages
      PROVE  Good(Touch(m, S)) /\ Queued(Touch(m, S), R, {}) /\ Mapped(Touch(m, S)) = Mapped(m)
  <2> DEFINE t == Touch(m, S)
  <2>1. t.P = m.P /\ t.U = m.U /\ t.q = m.q BY <1>1, TouchFrame
  <2>2. Good(t) /\ Mapped(t) = Mapped(m) BY <1>1, GoodTouch
  <2> HIDE DEF t
  <2>3. Queued(t, R, {}) BY <1>1, <2>1, QueuedSame
  <2> QED BY <2>2, <2>3 DEF t
<1>6. ASSUME NEW s, Good(s), Queued(s, R, {}), NEW p \in Pages, NEW v \in Vals
      PROVE  Queued(Store(s, p, v), R, {})
  <2> DEFINE t == Store(s, p, v)
  <2>0. s \in MemState /\ v \in Bytes BY SMTT(30), <1>6, ValsAreBytes DEF Good
  <2>1. t.P = s.P /\ t.U = s.U /\ t.q = s.q BY ZenonT(30), <2>0, StoreFrame
  <2> HIDE DEF t
  <2>2. Queued(t, R, {}) BY <1>6, <2>1, QueuedSame
  <2> QED BY <2>2 DEF t
<1>7. CASE Execute
  <2> DEFINE S == {insn[k] : k \in 1 .. Len(insn)}
             p == insn[Len(insn)]
  <2>1. insn # <<>> /\ sz' = sz BY <1>7 DEF Execute
  <2>2. S \in SUBSET Pages /\ p \in Pages BY <1>1, <2>1, InsnPages
  <2>3. \E v \in Vals : m' = Store(Touch(m, S), p, v) BY <1>7 DEF Execute
  <2> HIDE DEF S, p
  <2>4. Queued(m', R, {}) BY <1>5, <1>6, <2>2, <2>3
  <2> QED BY <1>4, <2>1, <2>4
<1>8. CASE Fault
  <2>1. PICK k \in 1 .. Len(insn) :
          LET seen == Touch(m, {insn[j] : j \in 1 .. k - 1}) IN
          IF insn[k] \in Mapped(m) THEN m' = mdecrypt(seen, insn[k]) ELSE m' = seen
    BY ZenonT(30), <1>8 DEF Fault
  <2> DEFINE S == {insn[j] : j \in 1 .. k - 1}
             seen == Touch(m, S)
             p == insn[k]
  <2>2. S \in SUBSET Pages BY <1>1, InsnPages
  <2>3. Good(seen) /\ Queued(seen, R, {}) /\ Mapped(seen) = Mapped(m) BY <2>2, <1>5
  <2>4. IF p \in Mapped(m) THEN m' = mdecrypt(seen, p) ELSE m' = seen BY <2>1
  <2>5. sz' = sz BY <1>8 DEF Fault
  <2> HIDE DEF seen, p
  <2>6. Queued(m', R, {}) BY <1>2, <2>3, <2>4, MdecryptQueued
  <2> QED BY <1>4, <2>5, <2>6
<1>9. ASSUME NEW p \in Pages, KernelAccess(p) PROVE Queued(m', PGROUNDUP(sz'), {})
  <2>1. p \in Mapped(m) /\ sz' = sz /\ {p} \in SUBSET Pages BY <1>9 DEF KernelAccess
  <2>2. \/ \E v \in Vals : m' = Store(Touch(m, {p}), p, v)
        \/ m' = mdecrypt(m, p)
    BY <1>9 DEF KernelAccess
  <2>3. Queued(m', R, {}) BY <1>1, <1>2, <1>5, <1>6, <2>1, <2>2, MdecryptQueued
  <2> QED BY SMTT(30), <1>4, <2>1, <2>3
<1>10. ASSUME NEW p \in Pages, NEW off \in DumpOffsets, NEW v \in Vals,
              sys_dump_rawphymem(p, off, v)
       PROVE  Queued(m', PGROUNDUP(sz'), {})
  <2> DEFINE s == IF p \in m.P THEN Touch(m, {p}) ELSE mdecrypt(m, p)
             t == IF off = 0 THEN p ELSE p + 1
  <2>1. p \in Mapped(m) /\ sz' = sz /\ {p} \in SUBSET Pages
    BY SMTT(30), <1>10 DEF sys_dump_rawphymem
  <2>2. Good(s) /\ Queued(s, R, {})
    BY SMTT(30), <1>1, <1>2, <1>5, <2>1, MdecryptQueued, GoodMdecrypt
  <2>3. (t \in Pages /\ m' = Store(s, t, v)) \/ m' = s
    BY <1>10 DEF sys_dump_rawphymem
  <2> HIDE DEF s, t
  <2>4. Queued(m', R, {}) BY <1>6, <2>2, <2>3
  <2> QED BY SMTT(30), <1>4, <2>1, <2>4
<1>11. ASSUME NEW p \in Pages, NEW len \in 1 .. NPAGES, sys_mencrypt(p, len)
       PROVE  Queued(m', PGROUNDUP(sz'), {})
  <2>1. m' = mencrypt(m, p .. p + len - 1) /\ sz' = sz BY <1>11 DEF sys_mencrypt
  <2>2. Queued(m', R, {}) BY <1>1, <2>1, MencryptQueued
  <2> QED BY <1>4, <2>1, <2>2
<1>12. CASE allocuvm_page
  <2>1. /\ sys.op = "alloc" /\ sz' = sz /\ sys.a \in Nat
        /\ m'.P = m.P \union {sys.a} /\ m'.U = m.U \union {sys.a} /\ m'.q = m.q
    BY <1>12 DEF allocuvm_page, QueueInv, IInv, TypeOK, SysStates
  <2>2. R <= sys.a /\ Mapped(m) = 0 .. sys.a - 1
    BY <2>1 DEF QueueInv, IInv, SysInv, R
  <2>3. ~(sys.a < R) BY <1>2, <2>1, <2>2
  <2>4. m.U \subseteq Mapped(m) /\ m.P \subseteq Mapped(m) BY <1>1 DEF Good, Coherent, Mapped
  <2>5. sys.a \notin m.U /\ sys.a \notin m.P BY <2>1, <2>2, <2>4
  <2>6. \A p \in m'.P \intersect m'.U : p = sys.a \/ p \in m.P \intersect m.U
    BY <2>1
  <2>7. Queued(m', R, {}) BY <1>1, <2>1, <2>3, <2>6 DEF Queued
  <2> QED BY <1>4, <2>1, <2>7
<1>13. CASE growproc_grown BY <1>13, GrownQueued
<1>14. CASE deallocuvm_page
  <2>1. sz' = sz BY <1>14 DEF deallocuvm_page
  <2>2. CASE m' = m BY <1>3, <2>1, <2>2
  <2>3. CASE m' # m
    <3> DEFINE a == sys.a
    <3>1. /\ ~RunsAway(m.q, a) /\ m'.P = m.P \ {a} /\ m'.U = m.U \ {a}
          /\ m'.q = cq_remove(m.q, a)
      BY SMTT(30), <1>14, <2>3 DEF deallocuvm_page
    <3>2. Resident(m.q) \ {a} \subseteq Resident(cq_remove(m.q, a))
      BY <1>1, <3>1, MemFields, RemoveResident
    <3> HIDE DEF a
    <3>3. Queued(m', R, {}) BY <1>1, <3>1, <3>2 DEF Queued
    <3> QED BY <1>4, <2>1, <3>3
  <2> QED BY <2>2, <2>3
<1>15. CASE growproc_shrunk
  <2>1. /\ m' = m /\ sys.op = "dealloc" /\ sys.newsz \in Nat /\ sys.oldsz \in Nat
        /\ (sz' = sz \/ sz' = sys.newsz)
    BY <1>15 DEF growproc_shrunk, QueueInv, IInv, TypeOK, SysStates
  <2>2. sys.newsz <= sz
    BY <1>1, <2>1 DEF QueueInv, IInv, SysInv
  <2>3. sz' \in Nat /\ sz' <= sz BY <1>1, <2>1, <2>2
  <2>4. PGROUNDUP(sz') \in Nat /\ PGROUNDUP(sz') <= R
    BY SMTT(30), <1>1, <2>3, RoundUpMono, RoundUpNat DEF R
  <2>5. \A p \in m.P : p \in Nat BY <1>1, MemFields, SizesAssumption DEF Pages
  <2>6. \A p \in m.P : p < PGROUNDUP(sz') => p < R BY <1>2, <2>4, <2>5
  <2> QED BY <1>1, <2>1, <2>6 DEF Queued
<1>16. CASE exec
  <2>1. PICK c \in [ImagePages -> Vals] : m' = Image(c) BY <1>16 DEF exec
  <2>2. m'.P \intersect m'.U = {} BY <2>1 DEF Image, ImagePages
  <2> QED BY <2>2 DEF Queued
<1>17. CASE Issue \/ (\E n \in SbrkArgs : sys_sbrk(n)) \/ allocuvm_fails
  BY <1>3, <1>17 DEF Issue, sys_sbrk, allocuvm_fails
<1>18. CASE UNCHANGED vars BY <1>3, <1>18 DEF vars
<1> QED BY SMTT(30), <1>7, <1>8, <1>9, <1>10, <1>11, <1>12, <1>13, <1>14, <1>15, <1>16, <1>17, <1>18
     DEF Next, KernelLoop

\* Init is an image: nothing is decrypted.
LEMMA InitQueue == Init => QueueInv
<1> SUFFICES ASSUME Init PROVE QueueInv OBVIOUS
<1>1. IInv BY InitInv
<1>2. PICK c \in [ImagePages -> Vals] : m = Image(c) BY DEF Init
<1>3. m.P \intersect m.U = {} BY <1>2 DEF Image, ImagePages
<1>4. sz = (TEXT + 2) * PGSIZE /\ sys.op = "user" BY DEF Init, ImageSize
<1>5. SizesAligned BY <1>4, SizesAssumption DEF SizesAligned, Aligned
<1> QED BY <1>1, <1>3, <1>5 DEF QueueInv, Queued

\* QueueInv holds throughout when sbrk() is asked for whole pages.
LEMMA SpecQueue ==
  ASSUME \A n \in SbrkArgs : Aligned(n)
  PROVE  Spec => []QueueInv
<1>1. QueueInv /\ [Next]_vars => QueueInv'
  <2> SUFFICES ASSUME QueueInv, [Next]_vars PROVE QueueInv' OBVIOUS
  <2>1. IInv' BY NextInv DEF QueueInv
  <2>2. SizesAligned' BY AlignedStep DEF QueueInv
  <2>3. Queued(m', PGROUNDUP(sz'), {}) BY QueuedStep
  <2>4. Queued(m, PGROUNDUP(sz), {})' BY <2>3 DEF Queued, PGROUNDUP
  <2> QED BY <2>1, <2>2, <2>4 DEF QueueInv
<1> QED BY <1>1, InitQueue, PTL DEF Spec

\* Every page mdecrypt() made readable is in the queue from which it will be
\* evicted and encrypted again, whatever the program does, provided sbrk() is
\* asked for whole pages.
THEOREM DecryptedAreQueued ==
  ASSUME \A n \in SbrkArgs : Aligned(n)
  PROVE  Spec => []DecryptedQueued
<1>1. QueueInv => DecryptedQueued BY DEF QueueInv, Queued, DecryptedQueued
<1> QED BY <1>1, SpecQueue, PTL

\* A queue of CLOCKSIZE slots holds at most CLOCKSIZE pages.
LEMMA ResidentBound ==
  ASSUME NEW q
  PROVE  IsFiniteSet(Resident(q)) /\ Cardinality(Resident(q)) <= CLOCKSIZE
<1> DEFINE S == {j \in Slots : Occupied(q, j)}
           f == [j \in S |-> q.node[j].pte]
<1>1. IsFiniteSet(Slots) /\ Cardinality(Slots) = CLOCKSIZE
  BY ClockSizeAssumption, FS_Interval DEF Slots
<1>2. S \in SUBSET Slots OBVIOUS
<1>3. f \in Surjection(S, Resident(q)) BY DEF Surjection, Resident
<1> HIDE DEF S, f
<1>4. IsFiniteSet(S) /\ Cardinality(S) <= CLOCKSIZE BY <1>1, <1>2, FS_Subset
<1>5. IsFiniteSet(Resident(q)) /\ Cardinality(Resident(q)) <= Cardinality(S)
  BY <1>3, <1>4, FS_Surjection
<1>6. Cardinality(Resident(q)) \in Nat /\ Cardinality(S) \in Nat
  BY <1>4, <1>5, FS_CardinalityType
<1> QED BY <1>4, <1>5, <1>6, ClockSizeAssumption

\* A running process has at most CLOCKSIZE decrypted pages, whatever it does,
\* provided it asks sbrk() for whole pages: the purpose of the working set.
THEOREM DecryptedAreBounded ==
  ASSUME \A n \in SbrkArgs : Aligned(n)
  PROVE  Spec => []WorkingSetBounded
<1>1. QueueInv => WorkingSetBounded
  <2> SUFFICES ASSUME QueueInv, InUser
               PROVE  Cardinality(m.P \intersect m.U) <= CLOCKSIZE
    BY DEF WorkingSetBounded
  <2> DEFINE D == m.P \intersect m.U
  <2>1. Mapped(m) \in {{}, 0 .. PGROUNDUP(sz) - 1} /\ PGROUNDUP(sz) \in Nat
    BY RoundUpNat, KernbaseNat DEF QueueInv, IInv, SysInv, TypeOK
  <2>2. \A p \in D : p < PGROUNDUP(sz) BY <2>1 DEF Mapped
  <2>3. D \in SUBSET Resident(m.q) BY <2>2 DEF QueueInv, Queued
  <2>4. IsFiniteSet(Resident(m.q)) /\ Cardinality(Resident(m.q)) <= CLOCKSIZE
    BY ResidentBound
  <2> HIDE DEF D
  <2>5. IsFiniteSet(D) /\ Cardinality(D) <= Cardinality(Resident(m.q))
    BY <2>3, <2>4, FS_Subset
  <2>6. Cardinality(D) \in Nat /\ Cardinality(Resident(m.q)) \in Nat
    BY <2>4, <2>5, FS_CardinalityType
  <2>7. Cardinality(D) <= CLOCKSIZE BY <2>4, <2>5, <2>6, ClockSizeAssumption
  <2> QED BY <2>7 DEF D
<1> QED BY <1>1, SpecQueue, PTL
=============================================================================
