--------------------------------- MODULE Tty ---------------------------------
(***************************************************************************)
(* What the console promises its readers: a line that can be edited until  *)
(* it is complete, and complete input that is read once, in order.  A line *)
(* is complete when it ends, at ^D, or when there is room for no more.     *)
(***************************************************************************)
EXTENDS Integers, SequencesExt

CONSTANTS Letters, Readers, Size, MaxN

VARIABLES line,   \* the characters that can still be erased
          ready,  \* complete input that nobody has read
          got     \* got[p]: what the read() of p has copied so far

vars == <<line, ready, got>>

Ends == {"nl", "^D"}
Chars == Letters \union Ends

Init == line = <<>> /\ ready = <<>> /\ got = [p \in Readers |-> <<>>]

Type(c) ==
  /\ Len(ready) + Len(line) < Size
  /\ IF c \in Ends \/ Len(ready) + Len(line) + 1 = Size
     THEN ready' = ready \o Append(line, c) /\ line' = <<>>
     ELSE line' = Append(line, c) /\ UNCHANGED ready
  /\ UNCHANGED got

Erase == line # <<>> /\ line' = Front(line) /\ UNCHANGED <<ready, got>>
EraseLine == line' = <<>> /\ UNCHANGED <<ready, got>>

\* a read() ends after a newline; before ^D it ends too, and takes ^D only if it has
\* nothing else, so that the ^D is a result of length 0
Read(p) ==
  /\ ready # <<>> /\ Len(got[p]) < MaxN
  /\ ~(got[p] # <<>> /\ Last(got[p]) \in Ends)
  /\ \/ /\ Head(ready) # "^D"
        /\ got' = [got EXCEPT ![p] = Append(@, Head(ready))] /\ ready' = Tail(ready)
     \/ /\ Head(ready) = "^D" /\ got[p] = <<>>
        /\ ready' = Tail(ready) /\ UNCHANGED got
  /\ UNCHANGED line

\* read() has returned and its buffer is forgotten
Return(p) == got' = [got EXCEPT ![p] = <<>>] /\ UNCHANGED <<line, ready>>

Next ==
  \/ \E c \in Chars : Type(c)
  \/ Erase \/ EraseLine
  \/ \E p \in Readers : Read(p) \/ Return(p)

Spec == Init /\ [][Next]_vars
=============================================================================
