-------------------------------- MODULE Args --------------------------------
(***************************************************************************)
(* The checks that the kernel makes on the arguments of system calls       *)
(* (fetchint(), fetchstr(), argint(), argptr() of syscall.c) in unsigned   *)
(* arithmetic, against the memory that sbrk() has given the process        *)
(* (growproc() of proc.c, allocuvm() and deallocuvm() of vm.c).            *)
(*                                                                         *)
(* A word has UINT values; an int is stored in INT bytes.  The encryption  *)
(* of the pages is in MemEncrypt and does not change sz or what is mapped. *)
(***************************************************************************)
EXTENDS Integers, FiniteSets

CONSTANTS UINT, KERNBASE, PGSIZE, INT,
          SZ            \* the size of the program that exec() has loaded

uint(x) == x % UINT
Ints == -(UINT \div 2)..(UINT \div 2) - 1
PGROUNDUP(a) == ((a + PGSIZE - 1) \div PGSIZE) * PGSIZE

VARIABLES sz,           \* proc->sz
          mapped,       \* the addresses of the user pages that are mapped
          emptied       \* history: sbrk() has taken away all of the memory

vars == <<sz, mapped, emptied>>

PagesFrom(a, b) == {p \in 0..UINT - 1 : p % PGSIZE = 0 /\ p >= PGROUNDUP(a) /\ p < b}
-----------------------------------------------------------------------------
\* mutant: one comparison is thought to be enough
fetchint_Once(addr) == uint(addr + INT) <= sz

\* fetchint() does not return -1
fetchint(addr) == ~(addr >= sz \/ uint(addr + INT) > sz)

\* the address of the nth argument
argint(esp, n) == uint(esp + INT + INT * n)

argptr(i, size) == ~(size < 0 \/ uint(i) >= sz \/ uint(uint(i) + size) > sz)

\* the addresses that fetchstr() reads if the string's end is at nul (or nowhere below sz)
fetchstr(addr, nul) ==
  IF addr >= sz THEN {} ELSE {a \in addr..sz - 1 : nul \in addr..sz - 1 => a <= nul}

deallocuvm(oldsz, newsz) == PagesFrom(newsz, oldsz)

\* sbrk(n) for n > 0: allocuvm() refuses a size that reaches the kernel; kalloc() may fail
growproc_up(n) ==
  LET newsz == uint(sz + n)
  IN /\ n > 0
     /\ \/ /\ newsz < KERNBASE /\ newsz >= sz
           /\ mapped' = mapped \union PagesFrom(sz, newsz) /\ sz' = newsz
        \/ UNCHANGED <<mapped, sz>>
     /\ UNCHANGED emptied

\* sbrk(n) for n < 0: growproc() takes the new size 0 for an error and leaves sz alone
growproc_down(n) ==
  LET newsz == uint(sz + n)
      left == IF newsz >= sz THEN sz ELSE newsz
  IN /\ n < 0
     /\ mapped' = mapped \ deallocuvm(sz, left)
     /\ sz' = IF left = 0 THEN sz ELSE left
     /\ emptied' = (emptied \/ left = 0)
-----------------------------------------------------------------------------
Init == sz = SZ /\ mapped = PagesFrom(0, SZ) /\ emptied = FALSE

Next == \E n \in Ints : growproc_up(n) \/ growproc_down(n)

Spec == Init /\ [][Next]_vars
-----------------------------------------------------------------------------
\* Whatever a process leaves on its stack and in its registers, an argument that passes
\* the checks lies below proc->sz, to its last byte, although the sums wrap around; and
\* every page below sz is mapped, however sbrk() has moved it up and down (unless the
\* process gave back all of its memory: growproc() then frees the pages and keeps sz).
ArgumentsInside ==
  /\ \A esp \in 0..UINT - 1 : \A n \in 0..2 :
       fetchint(argint(esp, n)) => argint(esp, n) + INT <= sz
  /\ \A i \in Ints : \A size \in Ints : argptr(i, size) => size >= 0 /\ uint(i) + size <= sz
  /\ \A addr \in 0..UINT - 1 : \A nul \in 0..UINT - 1 : \A a \in fetchstr(addr, nul) : a < sz
  /\ sz < KERNBASE
  /\ emptied \/ PagesFrom(0, sz) \subseteq mapped
=============================================================================
