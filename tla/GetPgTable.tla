------------------------------ MODULE GetPgTable ------------------------------
(***************************************************************************)
(* getpgtable(): the kernel lists the entries of the page table from sz    *)
(* downwards, page 0 excluded, into a user array.  Writing an entry may    *)
(* fault on the array's page, and the fault decrypts that page and may     *)
(* evict another one, while the listing goes on.                           *)
(***************************************************************************)
EXTENDS WorkingSet

CONSTANTS Splits, \* how many entries fit into the array's first page
          Nums    \* lengths of the array

\* argptr() wants the array below sz
sys_getpgtable(buf, split, num, wsetOnly) ==
  /\ CanCall
  /\ buf + (IF split < num THEN 1 ELSE 0) < PGROUNDUP(sz)
  /\ sys' = [op |-> "getpgtable", i |-> sz \div PGSIZE, buf |-> buf,
             split |-> split, num |-> num, wsetOnly |-> wsetOnly, entries |-> <<>>]
  /\ UNCHANGED <<m, plain, sz, insn>>

pet_in_set(p) == p \in m.P

\* the walk has not come to page 0, and the array is not full
Listing == sys.op = "getpgtable" /\ sys.i > 0 /\ Len(sys.entries) < sys.num

Listed(p) == p \in Mapped(m) /\ (sys.wsetOnly => pet_in_set(p))

\* the page of the next entry to be written
Target == IF Len(sys.entries) < sys.split THEN sys.buf ELSE sys.buf + 1

Entry(s, p) == [page |-> p, present |-> p \in s.P, user |-> p \in s.U,
                encrypted |-> p \in s.E, ref |-> p \notin s.E /\ p \in s.A]

\* mutant: the flags are read before the write that may fault
getpgtable_entry_Early ==
  /\ Listing /\ Listed(sys.i)
  /\ m' = IF Target \in m.P THEN Touch(m, {Target}) ELSE mdecrypt(m, Target)
  /\ sys' = [sys EXCEPT !.i = @ - 1, !.entries = Append(@, Entry(m, sys.i))]
  /\ UNCHANGED <<plain, sz, insn>>

\* the first field written brings in the array's page, then the flags are read
getpgtable_entry ==
  /\ Listing /\ Listed(sys.i)
  /\ \E v \in Vals :
       LET s == IF Target \in m.P THEN Touch(m, {Target}) ELSE mdecrypt(m, Target)
       IN /\ m' = Store(s, Target, v)
          /\ plain' = [plain EXCEPT ![Target] = v]
          /\ sys' = [sys EXCEPT !.i = @ - 1, !.entries = Append(@, Entry(s, sys.i))]
  /\ UNCHANGED <<sz, insn>>

getpgtable_skips ==
  /\ Listing /\ ~Listed(sys.i)
  /\ sys' = [sys EXCEPT !.i = @ - 1]
  /\ UNCHANGED <<m, plain, sz, insn>>

getpgtable_returns ==
  /\ sys.op = "getpgtable" /\ ~Listing
  /\ sys' = [op |-> "user"]
  /\ UNCHANGED <<m, plain, sz, insn>>

ListNext ==
  \/ Next
  \/ \E buf \in Pages, split \in Splits, num \in Nums, w \in BOOLEAN :
       sys_getpgtable(buf, split, num, w)
  \/ getpgtable_entry \/ getpgtable_skips \/ getpgtable_returns

ListSpec == Init /\ [][ListNext]_vars /\ Fairness
-----------------------------------------------------------------------------
\* When getpgtable() returns, every entry says whether its page is encrypted
\* now, although the listing itself decrypted and evicted pages on its way.
ListedTruthfully ==
  sys.op = "getpgtable" /\ ~Listing =>
    \A k \in 1 .. Len(sys.entries) :
      sys.entries[k].encrypted <=> sys.entries[k].page \in m.E
=============================================================================
