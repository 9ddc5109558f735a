------------------------------ MODULE MemEncrypt ------------------------------
(***************************************************************************)
(* The user memory of one process: its page-table bits, the contents of    *)
(* its pages, its working-set queue, and everything that changes them: user*)
(* instructions and the page faults they raise, kernel accesses to user    *)
(* memory, sbrk(), mencrypt(), dump_rawphymem() and exec().                *)
(*                                                                         *)
(* A page is its number; since one process is modelled the pointer to the  *)
(* page's PTE is the page number too.  Of a page's contents one byte is    *)
(* kept, the one at offset 0.  plain is a history variable: the byte the   *)
(* program last stored or was given there.  A call that returns without    *)
(* changing anything is a stuttering step and has no action.               *)
(***************************************************************************)
EXTENDS ClockQueue

CONSTANTS PGSIZE,      \* bytes per page
          NPAGES,      \* pages below KERNBASE
          TEXT,        \* pages of the program text and data
          Vals,        \* bytes a program stores
          Footprints,  \* sequences of pages one instruction touches
          SbrkArgs,    \* arguments of sbrk()
          DumpOffsets  \* offsets of dump_rawphymem()'s buffer in its page

ASSUME SizesAssumption ==
  /\ PGSIZE \in Nat \ {0}
  /\ NPAGES \in Nat
  /\ TEXT \in Nat \ {0}
  /\ TEXT + 2 <= NPAGES
ASSUME InputsAssumption ==
  /\ Vals \subseteq 0 .. 127 /\ Vals # {}
  /\ Footprints \subseteq Seq(0 .. NPAGES - 1) \ {<<>>}
  /\ SbrkArgs \subseteq Int
  /\ DumpOffsets \subseteq 0 .. PGSIZE - 1
ASSUME NullAssumption == NULL \notin 0 .. NPAGES - 1

Pages == 0 .. NPAGES - 1
KERNBASE == NPAGES * PGSIZE
PGROUNDUP(b) == (b + PGSIZE - 1) \div PGSIZE   \* as a page number

VARIABLES m,     \* page table, memory and queue of the process (below)
          plain, \* history: the bytes as the program knows them
          sz,    \* proc->sz
          insn,  \* pages of the instruction being executed, <<>> if none
          sys    \* where the kernel is in a system call with a loop

vars == <<m, plain, sz, insn, sys>>

\* m.P, m.E, m.U, m.A: the pages whose PTE has PTE_P, PTE_E, PTE_U, PTE_A;
\* m.mem: contents; m.q: the working-set queue.  A PTE is zero exactly for
\* the pages that are not Mapped.
Mapped(s) == s.P \union s.E

InUser == sys.op = "user"

\* to make a system call the process must fetch the instruction for it
CanCall == InUser /\ insn = <<>> /\ m.U # {}
-----------------------------------------------------------------------------
(* The encryption primitives, as functions of m *)

\* ~*slider on a signed char
Flip(b) == -1 - b

\* the MMU sets PTE_A in the entry of every page that is accessed
Touch(s, S) == [s EXCEPT !.A = @ \union S]

uva2ka(s, p) == p \in Mapped(s) /\ p \in s.U

\* mutant: pages that are encrypted already are flipped again
Encrypt_Again(s, S) ==
  [P |-> s.P \ S, E |-> s.E \union S, U |-> s.U, A |-> s.A \union S,
   mem |-> [p \in Pages |-> IF p \in S THEN Flip(s.mem[p]) ELSE s.mem[p]],
   q |-> s.q]

\* encrypts the pages of S that are not encrypted yet; the flip goes through
\* the user address and so references the page
Encrypt(s, S) ==
  LET N == S \ s.E IN
  [P |-> s.P \ N, E |-> s.E \union N, U |-> s.U, A |-> s.A \union N,
   mem |-> [p \in Pages |-> IF p \in N THEN Flip(s.mem[p]) ELSE s.mem[p]],
   q |-> s.q]

\* all or nothing: -1 and no change unless every page is a user page
mencrypt(s, S) ==
  IF \A p \in S : p \in Pages /\ uva2ka(s, p) THEN Encrypt(s, S) ELSE s

\* mutant: no check for repetition
cq_enset_Repeats(s, p) ==
  [s EXCEPT !.A = @ \ Cleared(s.q, s.A), !.q = Place(s.q, VictimSlot(s.q, s.A), p, p)]

cq_enset(s, p) ==
  IF p \in Resident(s.q)
  THEN s
  ELSE LET i == VictimSlot(s.q, s.A)
           swept == [s EXCEPT !.A = @ \ Cleared(s.q, s.A)]
           evicted == IF Occupied(s.q, i)
                      THEN mencrypt(swept, {s.q.node[i].va}) ELSE swept
       IN [evicted EXCEPT !.q = Place(s.q, i, p, p)]

\* the caller checks for a zero PTE, on which mdecrypt() returns -1
mdecrypt(s, p) ==
  cq_enset([P |-> s.P \union {p}, E |-> s.E \ {p}, U |-> s.U,
            A |-> s.A \union {p},
            mem |-> [s.mem EXCEPT ![p] = Flip(@)], q |-> s.q], p)
-----------------------------------------------------------------------------
(* User instructions.  An instruction touches the pages of a footprint in  *)
(* order; at the first one it may not access it faults, and it starts over *)
(* when the handler returns.                                               *)

Accessible(p) == p \in m.P /\ p \in m.U

Issue == /\ InUser /\ insn = <<>>
         /\ insn' \in Footprints
         /\ UNCHANGED <<m, plain, sz, sys>>

Store(s, p, v) == [s EXCEPT !.mem[p] = v]

\* every page is accessible; the instruction stores to its last page
Execute ==
  /\ InUser /\ insn # <<>>
  /\ \A k \in 1 .. Len(insn) : Accessible(insn[k])
  /\ \E v \in Vals :
       LET p == insn[Len(insn)] IN
       /\ m' = Store(Touch(m, {insn[k] : k \in 1 .. Len(insn)}), p, v)
       /\ plain' = [plain EXCEPT ![p] = v]
  /\ insn' = <<>>
  /\ UNCHANGED <<sz, sys>>

\* trap(), T_PGFLT from user mode: mdecrypt() the page or kill the process
Fault ==
  /\ InUser
  /\ \E k \in 1 .. Len(insn) :
       /\ ~Accessible(insn[k])
       /\ \A j \in 1 .. k - 1 : Accessible(insn[j])
       /\ LET seen == Touch(m, {insn[j] : j \in 1 .. k - 1}) IN
          IF insn[k] \in Mapped(m)
          THEN m' = mdecrypt(seen, insn[k]) /\ sys' = sys
          ELSE m' = seen /\ sys' = [op |-> "killed"]
  /\ UNCHANGED <<plain, sz, insn>>

\* The kernel reads a system call's arguments from the user stack, or copies
\* from or to a user buffer: PTE_U is not needed, and a page that is not
\* present faults into the same handler.
KernelAccess(p) ==
  /\ CanCall
  /\ p < PGROUNDUP(sz) /\ p \in Mapped(m)
  /\ \/ /\ p \in m.P
        /\ \E v \in Vals : /\ m' = Store(Touch(m, {p}), p, v)
                           /\ plain' = [plain EXCEPT ![p] = v]
     \/ /\ p \notin m.P
        /\ m' = mdecrypt(m, p)
        /\ plain' = plain
  /\ UNCHANGED <<sz, insn, sys>>
-----------------------------------------------------------------------------
(* mencrypt(): argptr() wants the address of the first page below sz *)
sys_mencrypt(p, len) ==
  /\ CanCall
  /\ len > 0 /\ p < PGROUNDUP(sz)
  /\ m' = mencrypt(m, p .. p + len - 1)
  /\ UNCHANGED <<plain, sz, insn, sys>>

\* dump_rawphymem(): the buffer starts off bytes into page p.  Touching its
\* first byte brings in page p only; copyout() then writes through the kernel
\* mapping of each page of the buffer.  The byte at offset 0 of a page is
\* covered in page p if off is 0, and in page p + 1 otherwise.
sys_dump_rawphymem(p, off, v) ==
  /\ CanCall
  /\ (p + 1) * PGSIZE + off <= sz /\ p \in Mapped(m)
  /\ LET s == IF p \in m.P THEN Touch(m, {p}) ELSE mdecrypt(m, p)
         t == IF off = 0 THEN p ELSE p + 1
         ok == uva2ka(s, p) /\ t \in Pages /\ uva2ka(s, t)
     IN /\ m' = IF ok THEN Store(s, t, v) ELSE s
        /\ plain' = IF ok THEN [plain EXCEPT ![t] = v] ELSE plain
  /\ UNCHANGED <<sz, insn, sys>>
-----------------------------------------------------------------------------
(* sbrk(): growproc(), one step per page that allocuvm() or deallocuvm()   *)
(* handles.  newsz is the size asked for, a the next page.                 *)
sys_sbrk(n) ==
  /\ CanCall
  /\ \/ /\ n > 0 /\ sz + n < KERNBASE
        /\ sys' = [op |-> "alloc", a |-> PGROUNDUP(sz), newsz |-> sz + n]
     \/ /\ n < 0 /\ sz + n >= 0
        /\ sys' = [op |-> "dealloc", a |-> PGROUNDUP(sz + n),
                   oldsz |-> sz, newsz |-> sz + n]
  /\ UNCHANGED <<m, plain, sz, insn>>

allocuvm_page ==
  /\ sys.op = "alloc" /\ sys.a < PGROUNDUP(sys.newsz)
  /\ m' = [P |-> m.P \union {sys.a}, E |-> m.E, U |-> m.U \union {sys.a},
           A |-> m.A, mem |-> [m.mem EXCEPT ![sys.a] = 0], q |-> m.q]
  /\ plain' = [plain EXCEPT ![sys.a] = 0]
  /\ sys' = [sys EXCEPT !.a = @ + 1]
  /\ UNCHANGED <<sz, insn>>

\* mutant: a failed allocation keeps the pages it added
allocuvm_fails_Leaks ==
  /\ sys.op = "alloc" /\ sys.a < PGROUNDUP(sys.newsz)
  /\ sys' = [op |-> "user"]
  /\ UNCHANGED <<m, plain, sz, insn>>

\* kalloc() has no page left: what was allocated is given back
allocuvm_fails ==
  /\ sys.op = "alloc" /\ sys.a < PGROUNDUP(sys.newsz)
  /\ sys' = [op |-> "dealloc", a |-> PGROUNDUP(sz),
             oldsz |-> sys.newsz, newsz |-> sz]
  /\ UNCHANGED <<m, plain, sz, insn>>

\* mutant: the new pages are not encrypted
growproc_grown_Plain ==
  /\ sys.op = "alloc" /\ sys.a = PGROUNDUP(sys.newsz)
  /\ sz' = sys.newsz
  /\ sys' = [op |-> "user"]
  /\ UNCHANGED <<m, plain, insn>>

\* growproc() sets the size and encrypts n / PGSIZE of the new pages
growproc_grown ==
  /\ sys.op = "alloc" /\ sys.a = PGROUNDUP(sys.newsz)
  /\ sz' = sys.newsz
  /\ m' = LET first == PGROUNDUP(sz)
              page_num == (sys.newsz - sz) \div PGSIZE
          IN mencrypt(m, first .. first + page_num - 1)
  /\ sys' = [op |-> "user"]
  /\ UNCHANGED <<plain, insn>>

\* kfree(), cq_remove() and *pte = 0 for one page
deallocuvm_page ==
  /\ sys.op = "dealloc" /\ sys.a < PGROUNDUP(sys.oldsz)
  /\ IF sys.a \notin Mapped(m)
     THEN m' = m /\ sys' = [sys EXCEPT !.a = @ + 1]
     ELSE IF RunsAway(m.q, sys.a)
     THEN m' = m /\ sys' = [op |-> "runaway"]
     ELSE /\ m' = [P |-> m.P \ {sys.a}, E |-> m.E \ {sys.a},
                   U |-> m.U \ {sys.a}, A |-> m.A \ {sys.a},
                   mem |-> m.mem, q |-> cq_remove(m.q, sys.a)]
          /\ sys' = [sys EXCEPT !.a = @ + 1]
  /\ UNCHANGED <<plain, sz, insn>>

\* a failed allocation leaves sz alone, and so does shrinking to 0, which
\* growproc() takes for an error; otherwise mencrypt() gets a negative
\* length and does nothing
growproc_shrunk ==
  /\ sys.op = "dealloc" /\ sys.a >= PGROUNDUP(sys.oldsz)
  /\ sz' = IF sys.newsz = 0 THEN sz ELSE sys.newsz
  /\ sys' = [op |-> "user"]
  /\ UNCHANGED <<m, plain, insn>>
-----------------------------------------------------------------------------
(* exec(): text and data, a guard page without PTE_U, and a stack page; the*)
(* queue is emptied and every page mencrypt() accepts is encrypted.        *)
Guard == TEXT
ImagePages == (0 .. TEXT + 1) \ {Guard}
ImageSize == (TEXT + 2) * PGSIZE

\* the bytes exec() put into the pages; pages that are not mapped hold 0
Contents(c) == [p \in Pages |-> IF p \in ImagePages THEN c[p] ELSE 0]

Image(c) ==
  [P |-> {Guard}, E |-> ImagePages, U |-> ImagePages, A |-> ImagePages,
   mem |-> [p \in Pages |-> IF p \in ImagePages THEN Flip(c[p]) ELSE 0],
   q |-> cq_init]

exec ==
  /\ CanCall
  /\ \E c \in [ImagePages -> Vals] : m' = Image(c) /\ plain' = Contents(c)
  /\ sz' = ImageSize
  /\ UNCHANGED <<insn, sys>>
-----------------------------------------------------------------------------
Init ==
  /\ \E c \in [ImagePages -> Vals] : m = Image(c) /\ plain = Contents(c)
  /\ sz = ImageSize
  /\ insn = <<>>
  /\ sys = [op |-> "user"]

KernelLoop == \/ allocuvm_page \/ allocuvm_fails \/ growproc_grown
              \/ deallocuvm_page \/ growproc_shrunk

Next ==
  \/ Issue \/ Execute \/ Fault
  \/ \E p \in Pages : KernelAccess(p)
  \/ \E p \in Pages, len \in 1 .. NPAGES : sys_mencrypt(p, len)
  \/ \E p \in Pages, off \in DumpOffsets, v \in Vals : sys_dump_rawphymem(p, off, v)
  \/ \E n \in SbrkArgs : sys_sbrk(n)
  \/ KernelLoop
  \/ exec

Spec == Init /\ [][Next]_vars

\* A runnable process is scheduled again and again, so its instruction and the
\* kernel code it runs make progress.  Which calls it makes is its own choice.
Fairness == WF_vars(Execute) /\ WF_vars(Fault) /\ WF_vars(KernelLoop)
-----------------------------------------------------------------------------
(* Properties *)

Bytes == -128 .. 127
MemState == [P : SUBSET Pages, E : SUBSET Pages, U : SUBSET Pages,
             A : SUBSET Pages, mem : [Pages -> Bytes],
             q : QueueType(Pages, Pages)]
SysStates ==
  [op : {"user", "killed", "runaway"}]
    \union [op : {"alloc"}, a : Nat, newsz : Nat]
    \union [op : {"dealloc"}, a : Nat, oldsz : Nat, newsz : Nat]

\* Every variable has its type.
TypeOK ==
  /\ m \in MemState
  /\ plain \in [Pages -> Bytes]
  /\ sz \in 0 .. KERNBASE
  /\ insn \in Footprints \union {<<>>}
  /\ sys \in SysStates

\* What the program stored in a user page is there: as it is while the page is
\* decrypted, with every bit flipped while it is encrypted.  A page flipped
\* twice, or not at all, by mdecrypt(), mencrypt() or an eviction breaks this.
PlaintextPreserved ==
  \A p \in m.U : m.mem[p] = IF p \in m.E THEN Flip(plain[p]) ELSE plain[p]

\* Every decrypted user page below sz is in the working-set queue, so that the
\* sweep of cq_enset() will find it and encrypt it again.
DecryptedQueued ==
  \A p \in m.P \intersect m.U : p < PGROUNDUP(sz) => p \in Resident(m.q)

\* No more than CLOCKSIZE user pages of the process are decrypted.
WorkingSetBounded ==
  InUser => Cardinality(m.P \intersect m.U) <= CLOCKSIZE

\* No page occupies two slots of the queue: cq_enset()'s repetition check and
\* cq_remove()'s shift keep the residents distinct.
NoRepetition == Distinct(m.q)

\* Below sz every page is mapped and above it none is, unless sbrk() gave all
\* of them away: copyuvm()'s and mappages()'s panics cannot happen when the
\* process forks or grows.
NoHoles == /\ InUser => Mapped(m) \in {{}, 0 .. PGROUNDUP(sz) - 1}
           /\ sys.op = "alloc" => Mapped(m) = 0 .. sys.a - 1

\* An instruction whose pages are all mapped user pages, no more than the
\* queue has slots, is executed in the end: its faults do not evict each
\* other's pages for ever.
InsnCompletes == insn # <<>> ~> insn = <<>> \/ sys.op = "killed"

\* cq_remove() stops shifting at the hand and stays within cq[].
RemoveStaysInside == sys.op # "runaway"
=============================================================================
