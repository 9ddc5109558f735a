------------------------------- MODULE NatLemmas -------------------------------
(***************************************************************************)
(* Facts about numbers that the proofs of ClockQueue, Proc and Pipe use.   *)
(***************************************************************************)
EXTENDS Integers, WellFoundedInduction, TLAPS

\* The remainder is unique.
LEMMA ModUnique ==
  ASSUME NEW w \in Nat \ {0}, NEW x \in Int, NEW d \in Int, NEW r \in 0 .. w - 1,
         x = w * d + r
  PROVE  x % w = r
<1> DEFINE e == x \div w
           s == x % w
<1>1. e \in Int /\ s \in 0 .. w - 1 /\ x = w * e + s OBVIOUS
<1> HIDE DEF e, s
<1>2. w * (e - d) = r - s BY <1>1
<1>3. e - d = 0
  <2>1. CASE e - d >= 1
    <3>1. w * (e - d) >= w BY <2>1, <1>1
    <3> QED BY <3>1, <1>1, <1>2
  <2>2. CASE e - d <= -1
    <3>1. w * (e - d) <= -w BY <2>2, <1>1
    <3> QED BY <3>1, <1>1, <1>2
  <2> QED BY <2>1, <2>2, <1>1
<1>4. r = s BY <1>1, <1>2, <1>3
<1> QED BY <1>4 DEF s

\* Turns of the whole ring do not matter: the counters of a pipe wrap around at a multiple
\* of its size.
LEMMA ModMultiple ==
  ASSUME NEW w \in Nat \ {0}, NEW x \in Int, NEW m \in Int
  PROVE  (x + w * m) % w = x % w
<1> DEFINE d == x \div w
           r == x % w
<1>1. d \in Int /\ r \in 0 .. w - 1 /\ x = w * d + r OBVIOUS
<1> HIDE DEF d, r
<1>2. x + w * m \in Int /\ d + m \in Int /\ x + w * m = w * (d + m) + r BY <1>1
<1>3. (x + w * m) % w = r BY <1>1, <1>2, ModUnique
<1> QED BY <1>3 DEF r

\* The hand of the working-set queue comes round after w advances.
LEMMA ModPeriod == \A x \in Int, w \in Nat \ {0} : (x + w) % w = x % w
<1> TAKE x \in Int, w \in Nat \ {0}
<1>1. 1 \in Int /\ x + w = x + w * 1 OBVIOUS
<1> QED BY <1>1, ModMultiple

\* Less than a turn apart, two places of a ring differ.
LEMMA ModDistinct ==
  ASSUME NEW w \in Nat \ {0}, NEW x \in Int, NEW d \in 1 .. w - 1
  PROVE  (x + d) % w # x % w
<1> DEFINE e == x \div w
           f == (x + d) \div w
           r == x % w
           s == (x + d) % w
<1>1. e \in Int /\ r \in 0 .. w - 1 /\ x = w * e + r OBVIOUS
<1>2. f \in Int /\ s \in 0 .. w - 1 /\ x + d = w * f + s OBVIOUS
<1> HIDE DEF e, f, r, s
<1>3. ASSUME r = s PROVE FALSE
  <2>1. w * (f - e) = d BY <1>1, <1>2, <1>3
  <2>2. CASE f - e >= 1
    <3>1. w * (f - e) >= w BY <2>2, <1>1, <1>2
    <3> QED BY <3>1, <2>1
  <2>3. CASE f - e <= 0
    <3>1. w * (f - e) <= 0 BY <2>3, <1>1, <1>2
    <3> QED BY <3>1, <2>1
  <2> QED BY <2>2, <2>3, <1>1, <1>2
<1> QED BY <1>3 DEF r, s

\* A number up to twice the modulus is taken down by it once at most.
LEMMA ModOnce ==
  ASSUME NEW w \in Nat \ {0}, NEW x \in - w .. 2 * w - 1
  PROVE  x % w = IF x < 0 THEN x + w ELSE IF x < w THEN x ELSE x - w
<1>1. CASE x < 0
  <2>1. x + w \in 0 .. w - 1 /\ x = w * (-1) + (x + w) BY <1>1
  <2> QED BY <1>1, <2>1, ModUnique
<1>2. CASE x >= 0 /\ x < w
  <2>1. x \in 0 .. w - 1 /\ x = w * 0 + x BY <1>2
  <2> QED BY <1>2, <2>1, ModUnique
<1>3. CASE x >= w
  <2>1. x - w \in 0 .. w - 1 /\ x = w * 1 + (x - w) BY <1>3
  <2> QED BY <1>3, <2>1, ModUnique
<1> QED BY <1>1, <1>2, <1>3

\* A nonempty set of naturals has a least element: the first slot that a loop over a
\* table (cq_remove(), allocproc(), wait()) finds.
LEMMA LeastNat ==
  ASSUME NEW T, T \subseteq Nat, T # {}
  PROVE  \E x \in T : \A y \in T : x <= y
<1>1. PICK x \in T : \A y \in T : ~(<<y, x>> \in OpToRel(<, Nat))
  BY Zenon, NatLessThanWellFounded, WFMin
<1>2. \A y \in T : ~(y < x) BY Zenon, <1>1 DEF OpToRel
<1> QED BY <1>2
=============================================================================
