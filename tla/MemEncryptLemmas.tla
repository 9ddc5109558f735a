--------------------------- MODULE MemEncryptLemmas ---------------------------
(***************************************************************************)
(* What the operators of MemEncrypt keep: lemmas about mencrypt(),         *)
(* mdecrypt(), cq_enset() and PGROUNDUP() for the proofs about its steps.  *)
(***************************************************************************)
EXTENDS MemEncrypt, ClockQueueProofs, FiniteSetTheorems

\* Of a process's memory: no page is both decrypted and encrypted, and only
\* mapped pages have PTE_U.
Coherent(s) == s.P \intersect s.E = {} /\ s.U \subseteq Mapped(s)

\* What PlaintextPreserved says, of a memory s and the bytes pl.
Intact(s, pl) ==
  \A p \in s.U : s.mem[p] = IF p \in s.E THEN Flip(pl[p]) ELSE pl[p]

\* What DecryptedQueued says of the pages below b other than those of X.
Queued(s, b, X) ==
  \A p \in s.P \intersect s.U : p < b /\ p \notin X => p \in Resident(s.q)

\* An occupied slot's va is the page its pte belongs to.
VaMatchesPte(q) ==
  \A i \in Slots : Occupied(q, i) => q.node[i].pte \in Pages
                                     /\ q.node[i].va = q.node[i].pte
-----------------------------------------------------------------------------
(* Flip and the encryption primitives *)

\* Flipping every bit of a byte twice, as mencrypt() and then mdecrypt() do,
\* gives the byte back.
LEMMA FlipTwice == \A b \in Bytes : Flip(b) \in Bytes /\ Flip(Flip(b)) = b
BY DEF Flip, Bytes

\* The fields of a well-typed memory.
LEMMA MemFields ==
  ASSUME NEW s \in MemState
  PROVE  /\ s.P \subseteq Pages /\ s.E \subseteq Pages
         /\ s.U \subseteq Pages /\ s.A \subseteq Pages
         /\ s.mem \in [Pages -> Bytes]
         /\ s.q \in QueueType(Pages, Pages)
BY DEF MemState

\* mencrypt() keeps the type, maps and unmaps nothing, and leaves the queue to
\* its caller.
LEMMA MencryptFrame ==
  ASSUME NEW s \in MemState, NEW S
  PROVE  /\ mencrypt(s, S) \in MemState
         /\ mencrypt(s, S).U = s.U
         /\ mencrypt(s, S).q = s.q
         /\ Coherent(s) => Coherent(mencrypt(s, S))
         /\ Mapped(mencrypt(s, S)) = Mapped(s)
<1>1. CASE ~(\A p \in S : p \in Pages /\ uva2ka(s, p))
  BY <1>1 DEF mencrypt
<1>2. CASE \A p \in S : p \in Pages /\ uva2ka(s, p)
  <2> DEFINE N == S \ s.E
             e == Encrypt(s, S)
  <2>1. mencrypt(s, S) = e BY <1>2 DEF mencrypt
  <2>2. /\ e.P = s.P \ N /\ e.E = s.E \union N /\ e.U = s.U /\ e.A = s.A \union N
        /\ e.q = s.q
    BY DEF Encrypt
  <2>3. N \subseteq Pages /\ N \subseteq s.P BY <1>2 DEF uva2ka, Mapped
  <2>4. e.mem \in [Pages -> Bytes]
    BY MemFields, FlipTwice DEF Encrypt
  <2>5. e = [P |-> e.P, E |-> e.E, U |-> e.U, A |-> e.A, mem |-> e.mem, q |-> e.q]
    BY DEF Encrypt
  <2> HIDE DEF e, N
  <2>6. e \in MemState BY <2>2, <2>3, <2>4, <2>5, MemFields DEF MemState
  <2>7. Mapped(e) = Mapped(s) BY <2>2, <2>3 DEF Mapped
  <2>8. Coherent(s) => Coherent(e) BY <2>2, <2>7 DEF Coherent
  <2> QED BY <2>1, <2>2, <2>6, <2>7, <2>8
<1> QED BY <1>1, <1>2

\* mencrypt() flips exactly the pages it marks encrypted.
LEMMA MencryptIntact ==
  ASSUME NEW s \in MemState, NEW pl \in [Pages -> Bytes], NEW S, Intact(s, pl)
  PROVE  Intact(mencrypt(s, S), pl)
<1>1. CASE ~(\A p \in S : p \in Pages /\ uva2ka(s, p))
  BY <1>1 DEF mencrypt
<1>2. CASE \A p \in S : p \in Pages /\ uva2ka(s, p)
  <2> DEFINE N == S \ s.E
             e == Encrypt(s, S)
  <2>1. mencrypt(s, S) = e BY <1>2 DEF mencrypt
  <2>2. e.E = s.E \union N /\ e.U = s.U BY DEF Encrypt
  <2>3. \A p \in Pages : e.mem[p] = IF p \in N THEN Flip(s.mem[p]) ELSE s.mem[p]
    BY DEF Encrypt
  <2>4. s.U \subseteq Pages BY MemFields
  <2> HIDE DEF e
  <2>5. Intact(e, pl)
    BY <2>2, <2>3, <2>4 DEF Intact
  <2> QED BY <2>1, <2>5
<1> QED BY <1>1, <1>2

\* cq_enset() up to the write of the slot: the sweep and the eviction.
Evicted(s) ==
  LET i == VictimSlot(s.q, s.A)
      swept == [s EXCEPT !.A = @ \ Cleared(s.q, s.A)]
  IN IF Occupied(s.q, i) THEN mencrypt(swept, {s.q.node[i].va}) ELSE swept

\* Clearing PTE_A bits, as cq_enset()'s sweep does, changes nothing else.
LEMMA SweptFields ==
  ASSUME NEW s \in MemState, NEW C
  PROVE  LET t == [s EXCEPT !.A = @ \ C]
         IN /\ t \in MemState
            /\ t.P = s.P /\ t.E = s.E /\ t.U = s.U /\ t.q = s.q /\ t.mem = s.mem
BY DEF MemState

\* The sweep and the eviction keep the memory well formed and intact.
LEMMA EvictedFrame ==
  ASSUME NEW s \in MemState, NEW pl \in [Pages -> Bytes]
  PROVE  /\ Evicted(s) \in MemState
         /\ Evicted(s).U = s.U
         /\ Evicted(s).q = s.q
         /\ Mapped(Evicted(s)) = Mapped(s)
         /\ Coherent(s) => Coherent(Evicted(s))
         /\ Intact(s, pl) => Intact(Evicted(s), pl)
<1> DEFINE i == VictimSlot(s.q, s.A)
           t == [s EXCEPT !.A = @ \ Cleared(s.q, s.A)]
           v == {s.q.node[i].va}
<1>1. /\ t \in MemState
      /\ t.P = s.P /\ t.E = s.E /\ t.U = s.U /\ t.q = s.q /\ t.mem = s.mem
  BY SweptFields
<1>2. Evicted(s) = IF Occupied(s.q, i) THEN mencrypt(t, v) ELSE t BY DEF Evicted
<1> HIDE DEF t, v, i
<1>3. Mapped(t) = Mapped(s) BY <1>1 DEF Mapped
<1>4. Coherent(s) => Coherent(t) BY <1>1, <1>3 DEF Coherent
<1>5. Intact(s, pl) => Intact(t, pl) BY <1>1 DEF Intact
<1>6. /\ mencrypt(t, v) \in MemState
      /\ mencrypt(t, v).U = t.U
      /\ mencrypt(t, v).q = t.q
      /\ Coherent(t) => Coherent(mencrypt(t, v))
      /\ Mapped(mencrypt(t, v)) = Mapped(t)
  BY <1>1, MencryptFrame
<1>7. Intact(t, pl) => Intact(mencrypt(t, v), pl) BY <1>1, MencryptIntact
<1> QED BY <1>1, <1>2, <1>3, <1>4, <1>5, <1>6, <1>7

\* The page in the slot cq_enset() takes over is not decrypted any more, and no
\* other page becomes so.
LEMMA EvictedPage ==
  ASSUME NEW s \in MemState, Coherent(s), VaMatchesPte(s.q)
  PROVE  LET i == VictimSlot(s.q, s.A)
         IN /\ Evicted(s).P \subseteq s.P
            /\ Occupied(s.q, i)
                 => s.q.node[i].pte \notin Evicted(s).P \intersect s.U
<1> DEFINE i == VictimSlot(s.q, s.A)
           t == [s EXCEPT !.A = @ \ Cleared(s.q, s.A)]
           x == s.q.node[i].va
<1>1. t \in MemState /\ t.P = s.P /\ t.E = s.E /\ t.U = s.U /\ t.q = s.q
  BY SweptFields
<1>2. Evicted(s) = IF Occupied(s.q, i) THEN mencrypt(t, {x}) ELSE t BY DEF Evicted
<1>3. i \in Slots BY MemFields, VictimInRing
<1>4. Occupied(s.q, i) => x = s.q.node[i].pte /\ x \in Pages
  BY <1>3 DEF VaMatchesPte
<1> HIDE DEF t
<1>5. mencrypt(t, {x}).P = IF x \in Pages /\ uva2ka(t, x)
                           THEN t.P \ ({x} \ t.E) ELSE t.P
  BY SMTT(30) DEF mencrypt, Encrypt
<1>6. Evicted(s).P \subseteq s.P BY SMTT(30), <1>1, <1>2, <1>5
<1>7. ASSUME Occupied(s.q, i), x \in Evicted(s).P, x \in s.U PROVE FALSE
  <2>1. Evicted(s) = mencrypt(t, {x}) BY <1>2, <1>7
  <2>2. x \in t.P BY <1>6, <1>7, <1>1
  <2>3. x \notin t.E BY <2>2, <1>1 DEF Coherent
  <2>4. uva2ka(t, x) BY <2>2, <1>7, <1>1 DEF uva2ka, Mapped
  <2> QED BY SMTT(30), <2>1, <2>3, <2>4, <1>4, <1>5, <1>7
<1> QED BY <1>4, <1>6, <1>7

\* cq_enset() keeps the memory well formed and intact.
LEMMA EnsetFrame ==
  ASSUME NEW s \in MemState, NEW pl \in [Pages -> Bytes], NEW p \in Pages
  PROVE  /\ cq_enset(s, p) \in MemState
         /\ cq_enset(s, p).U = s.U
         /\ Mapped(cq_enset(s, p)) = Mapped(s)
         /\ Coherent(s) => Coherent(cq_enset(s, p))
         /\ Intact(s, pl) => Intact(cq_enset(s, p), pl)
<1>1. CASE p \in Resident(s.q) BY <1>1 DEF cq_enset
<1>2. CASE p \notin Resident(s.q)
  <2> DEFINE i == VictimSlot(s.q, s.A)
             e == Evicted(s)
             n == Place(s.q, i, p, p)
             r == [e EXCEPT !.q = n]
  <2>1. cq_enset(s, p) = r BY <1>2 DEF cq_enset, Evicted
  <2>2. n \in QueueType(Pages, Pages)
    BY MemFields, VictimInRing, PlaceType
  <2>3. /\ e \in MemState /\ e.U = s.U /\ Mapped(e) = Mapped(s)
        /\ Coherent(s) => Coherent(e)
        /\ Intact(s, pl) => Intact(e, pl)
    BY EvictedFrame
  <2> HIDE DEF e, n
  <2>4. /\ r \in MemState
        /\ r.P = e.P /\ r.E = e.E /\ r.U = e.U /\ r.mem = e.mem
    BY <2>2, <2>3 DEF MemState
  <2> HIDE DEF r
  <2>5. Mapped(r) = Mapped(e) BY <2>4 DEF Mapped
  <2>6. Coherent(e) => Coherent(r) BY <2>4, <2>5 DEF Coherent
  <2>7. Intact(e, pl) => Intact(r, pl) BY <2>4 DEF Intact
  <2> QED BY <2>1, <2>3, <2>4, <2>5, <2>6, <2>7
<1> QED BY <1>1, <1>2

\* cq_enset() queues the page, keeps every page that stays decrypted in the
\* queue, and queues no page twice.
LEMMA EnsetQueue ==
  ASSUME NEW s \in MemState, NEW b \in Int, NEW p \in Pages,
         Coherent(s), VaMatchesPte(s.q)
  PROVE  /\ VaMatchesPte(cq_enset(s, p).q)
         /\ Queued(s, b, {p}) => Queued(cq_enset(s, p), b, {})
         /\ Distinct(s.q) => Distinct(cq_enset(s, p).q)
<1>1. CASE p \in Resident(s.q) BY <1>1 DEF cq_enset, Queued
<1>2. CASE p \notin Resident(s.q)
  <2> DEFINE i == VictimSlot(s.q, s.A)
             e == Evicted(s)
             n == Place(s.q, i, p, p)
             r == [e EXCEPT !.q = n]
  <2>1. cq_enset(s, p) = r BY <1>2 DEF cq_enset, Evicted
  <2>2. s.q \in QueueType(Pages, Pages) /\ i \in Slots BY MemFields, VictimInRing
  <2>3. e \in MemState /\ e.U = s.U
    <3>1. [x \in Pages |-> 0] \in [Pages -> Bytes] BY DEF Bytes
    <3> QED BY Zenon, <3>1, EvictedFrame
  <2>4. /\ e.P \subseteq s.P
        /\ Occupied(s.q, i) => s.q.node[i].pte \notin e.P \intersect s.U
    BY EvictedPage
  <2>5. VaMatchesPte(n)
    BY <2>2 DEF VaMatchesPte, Place, QueueType, Occupied
  <2>6. Distinct(s.q) => Distinct(n) BY <1>2, <2>2, PlaceDistinct
  <2>7. /\ p \in Resident(n)
        /\ \A x \in Resident(s.q) :
             x \in Resident(n) \/ (Occupied(s.q, i) /\ x = s.q.node[i].pte)
    BY <2>2, PlaceResident
  <2> HIDE DEF e, n, i
  <2>8. r.P = e.P /\ r.U = e.U /\ r.q = n BY <2>3 DEF MemState
  <2> HIDE DEF r
  <2>9. Queued(s, b, {p}) => Queued(r, b, {})
    BY <2>3, <2>4, <2>7, <2>8 DEF Queued
  <2> QED BY <2>1, <2>5, <2>6, <2>8, <2>9
<1> QED BY <1>1, <1>2

\* mdecrypt() of a mapped page: everything it keeps.  Contents stay intact when
\* the page, if it is a user page, was encrypted.
LEMMA Mdecrypt ==
  ASSUME NEW s \in MemState, NEW pl \in [Pages -> Bytes], NEW b \in Int,
         NEW p \in Mapped(s), Coherent(s), VaMatchesPte(s.q)
  PROVE  LET r == mdecrypt(s, p)
         IN /\ r \in MemState
            /\ r.U = s.U
            /\ Mapped(r) = Mapped(s)
            /\ Coherent(r)
            /\ VaMatchesPte(r.q)
            /\ (p \in s.U => p \in s.E) /\ Intact(s, pl) => Intact(r, pl)
            /\ Queued(s, b, {}) => Queued(r, b, {})
            /\ Distinct(s.q) => Distinct(r.q)
<1> DEFINE d == [P |-> s.P \union {p}, E |-> s.E \ {p}, U |-> s.U,
                 A |-> s.A \union {p},
                 mem |-> [s.mem EXCEPT ![p] = Flip(@)], q |-> s.q]
<1>1. mdecrypt(s, p) = cq_enset(d, p) BY DEF mdecrypt
<1>2. p \in Pages BY MemFields DEF Mapped
<1>3. s.mem \in [Pages -> Bytes] BY MemFields
<1>4. d.mem \in [Pages -> Bytes] BY <1>2, <1>3, FlipTwice
<1>5. d.P \subseteq Pages /\ d.E \subseteq Pages /\ d.U \subseteq Pages
      /\ d.A \subseteq Pages /\ d.q \in QueueType(Pages, Pages)
  BY <1>2, MemFields
<1>6. d \in MemState BY <1>4, <1>5 DEF MemState
<1>7. Mapped(d) = Mapped(s) BY DEF Mapped
<1>8. Coherent(d) BY <1>7 DEF Coherent
<1>9. VaMatchesPte(d.q) OBVIOUS
<1>10. (p \in s.U => p \in s.E) /\ Intact(s, pl) => Intact(d, pl)
  <2> SUFFICES ASSUME p \in s.U => p \in s.E, Intact(s, pl), NEW x \in s.U
               PROVE  d.mem[x] = IF x \in d.E THEN Flip(pl[x]) ELSE pl[x]
    BY DEF Intact
  <2>1. x \in Pages BY MemFields
  <2>2. CASE x = p
    <3>1. s.mem[p] = Flip(pl[p]) BY <2>2 DEF Intact
    <3>2. d.mem[p] = Flip(Flip(pl[p])) BY <1>2, <1>3, <3>1
    <3> QED BY <2>2, <3>2, <1>2, FlipTwice
  <2>3. CASE x # p BY <2>1, <2>3, <1>3 DEF Intact
  <2> QED BY <2>2, <2>3
<1>11. Queued(s, b, {}) => Queued(d, b, {p}) BY DEF Queued
<1>12. d.U = s.U /\ d.q = s.q OBVIOUS
<1> HIDE DEF d
<1>13. /\ cq_enset(d, p) \in MemState
       /\ cq_enset(d, p).U = d.U
       /\ Mapped(cq_enset(d, p)) = Mapped(d)
       /\ Coherent(cq_enset(d, p))
       /\ Intact(d, pl) => Intact(cq_enset(d, p), pl)
  BY <1>2, <1>6, <1>8, EnsetFrame
<1>14. /\ VaMatchesPte(cq_enset(d, p).q)
       /\ Queued(d, b, {p}) => Queued(cq_enset(d, p), b, {})
       /\ Distinct(d.q) => Distinct(cq_enset(d, p).q)
  BY <1>2, <1>6, <1>8, <1>9, EnsetQueue
<1> QED BY <1>1, <1>7, <1>10, <1>11, <1>12, <1>13, <1>14

-----------------------------------------------------------------------------
(* Sizes and pages *)

\* PGROUNDUP() gives a page number.
LEMMA RoundUpNat == \A a \in Nat : PGROUNDUP(a) \in Nat
BY SizesAssumption DEF PGROUNDUP

\* PGROUNDUP() is monotonic.
LEMMA RoundUpMono == \A a, b \in Nat : a <= b => PGROUNDUP(a) <= PGROUNDUP(b)
BY SizesAssumption DEF PGROUNDUP

\* PGROUNDUP() keeps a size of whole pages.
LEMMA RoundUpPages == \A n \in Nat : PGROUNDUP(n * PGSIZE) = n
BY SizesAssumption DEF PGROUNDUP

\* A process that ends below KERNBASE has no page above it.
LEMMA RoundUpBound == \A b \in Nat : b <= KERNBASE => PGROUNDUP(b) <= NPAGES
BY SizesAssumption DEF PGROUNDUP, KERNBASE

\* A process of size 0 has no page.
LEMMA RoundUpZero == PGROUNDUP(0) = 0
BY SizesAssumption DEF PGROUNDUP

\* KERNBASE is an address.
LEMMA KernbaseNat == KERNBASE \in Nat
BY SizesAssumption DEF KERNBASE

\* An instruction touches pages, and at least one.
LEMMA InsnPages ==
  ASSUME insn \in Footprints \union {<<>>}
  PROVE  /\ \A k \in 1 .. Len(insn) : insn[k] \in Pages
         /\ insn # <<>> => Len(insn) \in 1 .. Len(insn)
<1>1. Footprints \subseteq Seq(Pages) BY InputsAssumption DEF Pages
<1>2. CASE insn = <<>> BY <1>2
<1>3. CASE insn # <<>>
  <2>1. insn \in Seq(Pages) BY <1>1, <1>3
  <2> QED BY <2>1, <1>3
<1> QED BY <1>2, <1>3

-----------------------------------------------------------------------------
(* The memory after a reference and after a store *)

\* The MMU sets PTE_A on an access and changes nothing else.
LEMMA TouchFrame ==
  ASSUME NEW s \in MemState, NEW S \in SUBSET Pages
  PROVE  /\ Touch(s, S) \in MemState
         /\ Touch(s, S).P = s.P /\ Touch(s, S).E = s.E /\ Touch(s, S).U = s.U
         /\ Touch(s, S).mem = s.mem /\ Touch(s, S).q = s.q
BY DEF Touch, MemState

\* A store changes one byte and nothing else.
LEMMA StoreFrame ==
  ASSUME NEW s \in MemState, NEW p \in Pages, NEW v \in Bytes
  PROVE  /\ Store(s, p, v) \in MemState
         /\ Store(s, p, v).P = s.P /\ Store(s, p, v).E = s.E
         /\ Store(s, p, v).U = s.U /\ Store(s, p, v).q = s.q
         /\ Store(s, p, v).mem = [s.mem EXCEPT ![p] = v]
BY DEF Store, MemState

\* What programs store are bytes.
LEMMA ValsAreBytes == Vals \subseteq Bytes
BY InputsAssumption DEF Bytes

\* A well-formed memory: what every step of the kernel keeps.
Good(s) == s \in MemState /\ Coherent(s) /\ VaMatchesPte(s.q) /\ Distinct(s.q)

\* Good depends on the flags and the queue only.
LEMMA GoodSame ==
  ASSUME NEW s, NEW t, Good(s), t \in MemState,
         t.P = s.P, t.E = s.E, t.U = s.U, t.q = s.q
  PROVE  Good(t) /\ Mapped(t) = Mapped(s)
BY DEF Good, Coherent, Mapped

\* A reference keeps the memory well formed.
LEMMA GoodTouch ==
  ASSUME NEW s, Good(s), NEW S \in SUBSET Pages
  PROVE  Good(Touch(s, S)) /\ Mapped(Touch(s, S)) = Mapped(s)
<1>1. s \in MemState BY DEF Good
<1> QED BY <1>1, TouchFrame, GoodSame

\* A store keeps the memory well formed.
LEMMA GoodStore ==
  ASSUME NEW s, Good(s), NEW p \in Pages, NEW v \in Bytes
  PROVE  Good(Store(s, p, v)) /\ Mapped(Store(s, p, v)) = Mapped(s)
<1> DEFINE t == Store(s, p, v)
<1>1. s \in MemState BY DEF Good
<1>2. t \in MemState /\ t.P = s.P /\ t.E = s.E /\ t.U = s.U /\ t.q = s.q
  BY ZenonT(30), <1>1, StoreFrame
<1> HIDE DEF t
<1>3. Good(t) /\ Mapped(t) = Mapped(s) BY <1>2, GoodSame
<1> QED BY <1>3 DEF t

\* mencrypt() keeps the memory well formed and maps the same pages.
LEMMA GoodMencrypt ==
  ASSUME NEW s, Good(s), NEW S
  PROVE  /\ Good(mencrypt(s, S)) /\ Mapped(mencrypt(s, S)) = Mapped(s)
         /\ mencrypt(s, S).U = s.U
BY MencryptFrame DEF Good

\* So does mdecrypt() of a mapped page.
LEMMA GoodMdecrypt ==
  ASSUME NEW s, Good(s), NEW p \in Mapped(s)
  PROVE  /\ Good(mdecrypt(s, p)) /\ Mapped(mdecrypt(s, p)) = Mapped(s)
         /\ mdecrypt(s, p).U = s.U
<1>1. [x \in Pages |-> 0] \in [Pages -> Bytes] BY DEF Bytes
<1>2. s \in MemState /\ Coherent(s) /\ VaMatchesPte(s.q) /\ Distinct(s.q) BY DEF Good
<1> DEFINE r == mdecrypt(s, p)
           pl == [x \in Pages |-> 0]
<1> HIDE DEF pl
<1>3. 0 \in Int /\ pl \in [Pages -> Bytes] BY <1>1 DEF pl
<1>4. /\ r \in MemState /\ r.U = s.U /\ Mapped(r) = Mapped(s) /\ Coherent(r)
      /\ VaMatchesPte(r.q) /\ (Distinct(s.q) => Distinct(r.q))
  BY <1>3, <1>2, Mdecrypt, Zenon
<1> QED BY <1>2, <1>4 DEF Good

\* A fresh image of exec().
LEMMA GoodImage ==
  ASSUME NEW c \in [ImagePages -> Vals]
  PROVE  /\ Good(Image(c))
         /\ Mapped(Image(c)) = 0 .. PGROUNDUP(ImageSize) - 1
         /\ Contents(c) \in [Pages -> Bytes]
         /\ ImageSize \in 0 .. KERNBASE
         /\ Image(c).U # {}
<1>1. ImagePages \subseteq Pages /\ Guard \in Pages /\ 0 \in Pages /\ 0 \in ImagePages
  BY SizesAssumption DEF ImagePages, Guard, Pages
<1>0. 0 \in Bytes BY DEF Bytes
<1>2. Contents(c) \in [Pages -> Bytes]
  BY <1>0, <1>1, ValsAreBytes DEF Contents
<1>3. cq_init \in QueueType(Pages, Pages)
  BY <1>1, ClockSizeAssumption DEF cq_init, QueueType
<1>4. Image(c).mem \in [Pages -> Bytes]
  BY <1>0, <1>1, ValsAreBytes, FlipTwice DEF Image
<1>5. Image(c) = [P |-> {Guard}, E |-> ImagePages, U |-> ImagePages, A |-> ImagePages,
                  mem |-> Image(c).mem, q |-> cq_init]
  BY DEF Image
<1>6. Image(c) \in MemState BY <1>1, <1>3, <1>4, <1>5 DEF MemState
<1>7. Coherent(Image(c)) BY <1>5, SizesAssumption DEF Coherent, Mapped, ImagePages, Guard
<1>8. \A i \in Slots : ~Occupied(cq_init, i) BY DEF cq_init, Occupied
<1>9. VaMatchesPte(Image(c).q) /\ Distinct(Image(c).q)
  BY <1>5, <1>8 DEF VaMatchesPte, Distinct
<1>10. PGROUNDUP(ImageSize) = TEXT + 2
  BY RoundUpPages, SizesAssumption DEF ImageSize
<1>11. Mapped(Image(c)) = 0 .. TEXT + 1
  BY <1>5, SizesAssumption DEF Mapped, ImagePages, Guard
<1>12. ImageSize \in 0 .. KERNBASE BY SizesAssumption DEF ImageSize, KERNBASE
<1> QED BY <1>1, <1>2, <1>5, <1>6, <1>7, <1>9, <1>10, <1>11, <1>12, SizesAssumption
     DEF Good
-----------------------------------------------------------------------------
(* Contents and the queue under each primitive *)

\* The eviction in cq_enset() never encrypts the page that is coming in.
LEMMA EnsetKeepsPage ==
  ASSUME NEW s \in MemState, VaMatchesPte(s.q), NEW p \in Pages, p \notin s.E
  PROVE  p \notin cq_enset(s, p).E
<1>1. CASE p \in Resident(s.q) BY <1>1 DEF cq_enset
<1>2. CASE p \notin Resident(s.q)
  <2> DEFINE i == VictimSlot(s.q, s.A)
             t == [s EXCEPT !.A = @ \ Cleared(s.q, s.A)]
             x == s.q.node[i].va
             e == IF Occupied(s.q, i) THEN mencrypt(t, {x}) ELSE t
             n == Place(s.q, i, p, p)
  <2>1. t \in MemState /\ t.E = s.E BY SweptFields
  <2>2. i \in Slots BY MemFields, VictimInRing
  <2>3. Occupied(s.q, i) => x # p BY <1>2, <2>2 DEF VaMatchesPte, Resident
  <2>4. mencrypt(t, {x}) \in MemState BY <2>1, MencryptFrame
  <2>5. cq_enset(s, p) = [e EXCEPT !.q = n] BY <1>2 DEF cq_enset
  <2> HIDE DEF t, i, n
  <2>6. mencrypt(t, {x}).E \subseteq t.E \union {x} BY DEF mencrypt, Encrypt
  <2>7. e \in MemState /\ p \notin e.E BY <2>1, <2>3, <2>4, <2>6
  <2> HIDE DEF e
  <2>8. [e EXCEPT !.q = n].E = e.E BY <2>7 DEF MemState
  <2> QED BY <2>5, <2>7, <2>8
<1> QED BY <1>1, <1>2

\* After mdecrypt() the page is not encrypted: what is stored in it next is kept
\* as it is.
LEMMA MdecryptPage ==
  ASSUME NEW s, Good(s), NEW p \in Mapped(s)
  PROVE  p \notin mdecrypt(s, p).E
<1> DEFINE d == [P |-> s.P \union {p}, E |-> s.E \ {p}, U |-> s.U,
                 A |-> s.A \union {p},
                 mem |-> [s.mem EXCEPT ![p] = Flip(@)], q |-> s.q]
<1>1. mdecrypt(s, p) = cq_enset(d, p) BY DEF mdecrypt
<1>2. s \in MemState /\ VaMatchesPte(s.q) BY DEF Good
<1>3. p \in Pages BY <1>2, MemFields DEF Mapped
<1>4. d.mem \in [Pages -> Bytes] BY SMTT(30), <1>2, <1>3, MemFields, FlipTwice
<1>5. d.P \subseteq Pages /\ d.E \subseteq Pages /\ d.U \subseteq Pages
      /\ d.A \subseteq Pages /\ d.q \in QueueType(Pages, Pages)
  BY SMTT(30), <1>2, <1>3, MemFields
<1>6. d \in MemState BY <1>4, <1>5 DEF MemState
<1>7. VaMatchesPte(d.q) /\ p \notin d.E BY <1>2
<1> HIDE DEF d
<1> QED BY <1>1, <1>3, <1>6, <1>7, EnsetKeepsPage

\* mdecrypt() of an encrypted page, or of one that is no user page, keeps the
\* contents of every user page.
LEMMA MdecryptIntact ==
  ASSUME NEW s, Good(s), NEW pl \in [Pages -> Bytes], NEW p \in Mapped(s),
         p \in s.U => p \in s.E, Intact(s, pl)
  PROVE  Intact(mdecrypt(s, p), pl)
<1>1. s \in MemState /\ Coherent(s) /\ VaMatchesPte(s.q) /\ 0 \in Int BY DEF Good
<1> QED BY <1>1, Mdecrypt, Zenon

\* mdecrypt() queues the page it decrypts and keeps the others queued.
LEMMA MdecryptQueued ==
  ASSUME NEW s, Good(s), NEW b \in Int, NEW p \in Mapped(s), Queued(s, b, {})
  PROVE  Queued(mdecrypt(s, p), b, {})
<1>1. s \in MemState /\ Coherent(s) /\ VaMatchesPte(s.q) BY DEF Good
<1>2. [x \in Pages |-> 0] \in [Pages -> Bytes] BY DEF Bytes
<1> DEFINE pl == [x \in Pages |-> 0]
<1> HIDE DEF pl
<1>3. pl \in [Pages -> Bytes] BY <1>2 DEF pl
<1> QED BY <1>1, <1>3, Mdecrypt, Zenon

\* A store to a decrypted page: the program's byte is there.
LEMMA IntactStore ==
  ASSUME NEW s \in MemState, NEW pl \in [Pages -> Bytes], Intact(s, pl),
         NEW p \in Pages, NEW v \in Bytes, p \notin s.E
  PROVE  Intact(Store(s, p, v), [pl EXCEPT ![p] = v])
<1> DEFINE t == Store(s, p, v)
<1>1. t.U = s.U /\ t.E = s.E /\ t.mem = [s.mem EXCEPT ![p] = v] BY StoreFrame
<1>2. s.U \subseteq Pages /\ s.mem \in [Pages -> Bytes] BY MemFields
<1> HIDE DEF t
<1>3. Intact(t, [pl EXCEPT ![p] = v]) BY <1>1, <1>2 DEF Intact
<1> QED BY <1>3 DEF t

\* A reference changes no contents.
LEMMA IntactTouch ==
  ASSUME NEW s \in MemState, NEW S \in SUBSET Pages, NEW pl, Intact(s, pl)
  PROVE  Intact(Touch(s, S), pl)
<1> DEFINE t == Touch(s, S)
<1>1. t.U = s.U /\ t.E = s.E /\ t.mem = s.mem BY TouchFrame
<1> HIDE DEF t
<1>2. Intact(t, pl) BY <1>1 DEF Intact
<1> QED BY <1>2 DEF t

\* mencrypt() leaves fewer pages decrypted and the queue alone.
LEMMA MencryptQueued ==
  ASSUME NEW s \in MemState, NEW b, NEW S, NEW X, Queued(s, b, X)
  PROVE  Queued(mencrypt(s, S), b, X)
<1>1. mencrypt(s, S).U = s.U /\ mencrypt(s, S).q = s.q BY MencryptFrame
<1>2. mencrypt(s, S).P \subseteq s.P BY DEF mencrypt, Encrypt
<1> QED BY <1>1, <1>2 DEF Queued
=============================================================================
