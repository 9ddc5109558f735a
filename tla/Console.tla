------------------------------- MODULE Console -------------------------------
(***************************************************************************)
(* Console input (src/src/console.c): the ring input.buf with the indices  *)
(* r, w and e, consoleintr() for the keys, and consoleread().              *)
(*                                                                         *)
(* consoleintr() holds cons.lock from its first key to its last and does   *)
(* not sleep: one key is one step.  consoleread() gives the lock up only   *)
(* in sleep(), which is one step (Proc); kill() does not take cons.lock    *)
(* and may come between the test of killed and sleep().                    *)
(***************************************************************************)
EXTENDS Integers, Sequences

CONSTANTS Readers, Letters, INPUT_BUF,
          UINT,  \* the indices are counted modulo UINT, a multiple of INPUT_BUF
          MaxN   \* the largest count given to read()

VARIABLES buf, r, w, e,
          conslock,  \* the reader that holds cons.lock
          at,        \* where a reader is
          n,         \* what it still wants
          dst,       \* what it copied to its buffer
          killed

input == <<buf, r, w, e>>
vars == <<buf, r, w, e, conslock, at, n, dst, killed>>

Keys == Letters \union {"nl", "cr", "^D", "^H", "^U"}
Free == "nobody"
Plus(i, k) == (i + k) % UINT
Slot(i) == i % INPUT_BUF

Goto(p, l) == at' = [at EXCEPT ![p] = l]
-----------------------------------------------------------------------------
(* consoleintr(), for one key *)

\* input.w = input.e and wakeup(&input.r)
Complete(c, e1) == c \in {"nl", "^D"} \/ e1 = Plus(r, INPUT_BUF)
wakeup == [p \in Readers |-> IF at[p] = "asleep" THEN "awake" ELSE at[p]]

\* mutant: the test leaves room for one character too many
HasRoom_OneMore == Plus(e, -r) <= INPUT_BUF

HasRoom == Plus(e, -r) < INPUT_BUF

key(k) ==
  LET c == IF k = "cr" THEN "nl" ELSE k
      e1 == Plus(e, 1)
  IN /\ k \notin {"^H", "^U"} /\ HasRoom
     /\ buf' = [buf EXCEPT ![Slot(e)] = c]
     /\ e' = e1
     /\ IF Complete(c, e1) THEN w' = e1 /\ at' = wakeup ELSE UNCHANGED <<w, at>>
     /\ UNCHANGED r

backspace == e # w /\ e' = Plus(e, -1) /\ UNCHANGED <<buf, r, w, at>>

\* back to w, or to the last newline after it
kill_line ==
  LET Stops(i) == i = w \/ buf[Slot(Plus(i, -1))] = "nl"
      k == CHOOSE k \in 0..INPUT_BUF : /\ Stops(Plus(e, -k))
                                       /\ \A j \in 0..k-1 : ~Stops(Plus(e, -j))
  IN e' = Plus(e, -k) /\ UNCHANGED <<buf, r, w, at>>

\* mutant: the handler does not take cons.lock
consoleintr_Unlocked(k) ==
  /\ \/ key(k)
     \/ k = "^H" /\ backspace
     \/ k = "^U" /\ kill_line
  /\ UNCHANGED <<conslock, n, dst, killed>>

consoleintr(k) ==
  /\ conslock = Free
  /\ \/ key(k)
     \/ k = "^H" /\ backspace
     \/ k = "^U" /\ kill_line
  /\ UNCHANGED <<conslock, n, dst, killed>>
-----------------------------------------------------------------------------
(* consoleread() *)

\* read() up to acquire(&cons.lock)
read(p, count) ==
  /\ at[p] = "out" /\ conslock = Free
  /\ conslock' = p /\ Goto(p, "loop")
  /\ n' = [n EXCEPT ![p] = count]
  /\ UNCHANGED <<input, dst, killed>>

\* the end of sleep()
relock(p) ==
  /\ at[p] = "awake" /\ conslock = Free
  /\ conslock' = p /\ Goto(p, "loop")
  /\ UNCHANGED <<input, n, dst, killed>>

\* the function returns, and its caller has seen the result
returns(p) ==
  /\ at[p] = "return" /\ conslock = p
  /\ conslock' = Free /\ Goto(p, "out")
  /\ dst' = [dst EXCEPT ![p] = <<>>] /\ n' = [n EXCEPT ![p] = 0]
  /\ UNCHANGED <<input, killed>>

Holds(p) == conslock = p /\ at[p] = "loop" /\ n[p] > 0

\* nothing to read: return -1, or on to sleep()
empty(p) ==
  /\ Holds(p) /\ r = w
  /\ Goto(p, IF killed[p] THEN "return" ELSE "sleep")
  /\ UNCHANGED <<input, conslock, n, dst, killed>>

sleep(p) ==
  /\ at[p] = "sleep"
  /\ conslock' = Free /\ Goto(p, "asleep")
  /\ UNCHANGED <<input, n, dst, killed>>

\* a ^D that ends a longer result is left for the next read()
EOF(p) == IF dst[p] # <<>> THEN r ELSE Plus(r, 1)

char(p) ==
  LET c == buf[Slot(r)]
  IN /\ Holds(p) /\ r # w
     /\ \/ /\ c = "^D"
           /\ r' = EOF(p) /\ Goto(p, "return")
           /\ UNCHANGED <<dst, n>>
        \/ /\ c # "^D"
           /\ r' = Plus(r, 1)
           /\ dst' = [dst EXCEPT ![p] = Append(@, c)]
           /\ n' = [n EXCEPT ![p] = @ - 1]
           /\ Goto(p, IF c = "nl" \/ n[p] = 1 THEN "return" ELSE "loop")
     /\ UNCHANGED <<buf, w, e, conslock, killed>>

\* kill() by another process; it wakes a sleeper only
kill(p) ==
  /\ ~killed[p]
  /\ killed' = [killed EXCEPT ![p] = TRUE]
  /\ at' = [at EXCEPT ![p] = IF @ = "asleep" THEN "awake" ELSE @]
  /\ UNCHANGED <<input, conslock, n, dst>>
-----------------------------------------------------------------------------
Init ==
  /\ buf = [i \in 0..INPUT_BUF-1 |-> "0"] /\ r = 0 /\ w = 0 /\ e = 0
  /\ conslock = Free
  /\ at = [p \in Readers |-> "out"] /\ n = [p \in Readers |-> 0]
  /\ dst = [p \in Readers |-> <<>>]
  /\ killed = [p \in Readers |-> FALSE]

Next ==
  \/ \E k \in Keys : consoleintr(k)
  \/ \E p \in Readers :
       \/ \E count \in 1..MaxN : read(p, count)
       \/ relock(p) \/ empty(p) \/ sleep(p) \/ char(p) \/ returns(p) \/ kill(p)

Spec == Init /\ [][Next]_vars
-----------------------------------------------------------------------------
\* the characters between two indices
Between(i, j) == [k \in 1..Plus(j, -i) |-> buf[Slot(Plus(i, k - 1))]]

Abstract == INSTANCE Tty WITH Size <- INPUT_BUF, line <- Between(w, e),
                              ready <- Between(r, w), got <- dst

\* The ring is a line that can be edited and a queue of complete input: no character is
\* lost, doubled, reordered or erased once complete, at every fill of the ring and with
\* every wrap of the indices, and a ^D makes a read() of length 0.
IsTty == Abstract!Spec

\* A reader sleeps only while there is no complete input: each change of w wakes it.
NoLostInput == \A p \in Readers : at[p] = "asleep" => r = w
=============================================================================
