--------------------------- MODULE TaskRangeProofs ---------------------------
(***************************************************************************)
(* DetermineTaskRange of gfx/renderer/schedule.h splits a list into ranges *)
(* that no item escapes and no two workers share, for every number of      *)
(* items and of workers.                                                   *)
(*                                                                         *)
(* The module also holds the two facts about the naturals on which the     *)
(* proofs about recursive functions rest: a nonempty set of naturals has a *)
(* least element, and so a set that holds 0 and with n also n + 1 holds    *)
(* every natural.                                                          *)
(***************************************************************************)
EXTENDS TaskRange, Integers, TLAPS, WellFoundedInduction

Less == {ss \in Nat \X Nat : ss[1] < ss[2]}

\* The order of the naturals is well-founded.
LEMMA LessIsWellFounded == IsWellFoundedOn(Less, Nat)
  <1>1. OpToRel(<, Nat) = Less
    BY DEF OpToRel, Less
  <1> QED
    BY <1>1, NatLessThanWellFounded

\* Every nonempty set of naturals has a least element.
LEMMA LeastNat ==
  ASSUME NEW T, T \subseteq Nat, T # {}
  PROVE  \E x \in T : \A y \in T : x <= y
  <1>1. PICK x \in T : \A y \in T : <<y, x>> \notin Less
    BY LessIsWellFounded, WFMin
  <1>2. ASSUME NEW y \in T, y < x
        PROVE  <<y, x>> \in Less
    <2>1. <<y, x>> \in Nat \X Nat /\ <<y, x>>[1] < <<y, x>>[2]
      BY <1>2
    <2> QED
      BY <2>1 DEF Less
  <1>3. x \in Nat /\ \A y \in T : y \in Nat /\ ~(y < x)
    BY <1>1, <1>2
  <1> QED
    BY <1>3, SMT

\* Induction, for a set: what every natural inherits from the one before.
LEMMA SetInduction ==
  ASSUME NEW S, 0 \in S, \A n \in Nat : n \in S => n + 1 \in S
  PROVE  Nat \subseteq S
  <1> DEFINE T == Nat \ S
  <1> SUFFICES ASSUME T # {} PROVE FALSE
    OBVIOUS
  <1>1. PICK x \in T : \A y \in T : x <= y
    BY LeastNat
  <1>2. x \in Nat /\ x # 0 /\ x \notin S
    OBVIOUS
  <1>3. x - 1 \in Nat /\ x - 1 \notin T
    BY <1>1, <1>2, SMT
  <1>4. (x - 1) + 1 \in S
    BY <1>3
  <1> QED
    BY <1>2, <1>4, SMT

\* Quotient and remainder.
LEMMA DivisionFacts ==
  ASSUME NEW n \in Nat, NEW d \in Nat \ {0}
  PROVE  /\ n \div d \in Nat
         /\ n % d \in 0 .. d - 1
         /\ n = (n \div d) * d + (n % d)
  BY Z3

\* A larger number has no smaller quotient.
LEMMA DivisionIsMonotone ==
  ASSUME NEW m \in Nat, NEW n \in Nat, NEW d \in Nat \ {0}, m <= n
  PROVE  m \div d <= n \div d
  BY Z3

\* Dividing a multiple gives back the factor.
LEMMA DivisionOfMultiple ==
  ASSUME NEW n \in Nat, NEW d \in Nat \ {0}
  PROVE  (n * d) \div d = n
  BY Z3

\* Where a worker starts is a position.
LEMMA SplitIsNat ==
  ASSUME NEW workers \in Nat \ {0}, NEW n \in Nat, NEW w \in Nat
  PROVE  Split(w, workers, n) \in Nat
  <1> DEFINE q == n \div workers
             r == n % workers
  <1>1. q \in Nat /\ r \in Nat
    BY DivisionFacts
  <1>2. q * w \in Nat /\ r * w \in Nat
    BY <1>1, SMT
  <1>3. (r * w) \div workers \in Nat
    BY <1>2, DivisionFacts
  <1> HIDE DEF q, r
  <1>4. q * w + (r * w) \div workers \in Nat
    BY <1>2, <1>3, SMT
  <1> QED
    BY <1>4 DEF Split, q, r

\* The first range starts at the first item and the last one ends at the last.
LEMMA SplitEnds ==
  ASSUME NEW workers \in Nat \ {0}, NEW n \in Nat
  PROVE  Split(0, workers, n) = 0 /\ Split(workers, workers, n) = n
  <1> DEFINE q == n \div workers
             r == n % workers
  <1>1. q \in Nat /\ r \in Nat /\ n = q * workers + r
    BY DivisionFacts
  <1> HIDE DEF q, r
  <1>2. (r * 0) \div workers = 0 /\ q * 0 = 0
    BY <1>1, Z3
  <1>3. (r * workers) \div workers = r
    BY <1>1, DivisionOfMultiple
  <1>4. q * 0 + (r * 0) \div workers = 0
    BY <1>2, SMT
  <1>5. q * workers + (r * workers) \div workers = n
    BY <1>1, <1>3, SMT
  <1> QED
    BY <1>4, <1>5 DEF Split, q, r

\* A later worker starts no earlier.
LEMMA SplitIsMonotone ==
  ASSUME NEW workers \in Nat \ {0}, NEW n \in Nat, NEW v \in Nat, NEW w \in Nat, v <= w
  PROVE  Split(v, workers, n) <= Split(w, workers, n)
  <1> DEFINE q == n \div workers
             r == n % workers
  <1>1. q \in Nat /\ r \in Nat
    BY DivisionFacts
  <1> HIDE DEF q, r
  <1>2. q * v \in Nat /\ q * w \in Nat /\ q * v <= q * w
    BY <1>1, Z3
  <1>3. r * v \in Nat /\ r * w \in Nat /\ r * v <= r * w
    BY <1>1, Z3
  <1>4. (r * v) \div workers <= (r * w) \div workers
    BY <1>3, DivisionIsMonotone
  <1>5. (r * v) \div workers \in Nat /\ (r * w) \div workers \in Nat
    BY <1>3, DivisionFacts
  <1>6. q * v + (r * v) \div workers <= q * w + (r * w) \div workers
    BY <1>2, <1>4, <1>5, SMT
  <1> QED
    BY <1>6 DEF Split, q, r

\* Every item is in the range that DetermineTaskRange gives to some worker:
\* no bone and no cube group is left to nobody.
THEOREM RangesCover ==
  ASSUME NEW workers \in Nat \ {0}, NEW n \in Nat, NEW i \in 0 .. n - 1
  PROVE  \E w \in 0 .. workers - 1 : i \in TaskRange(w, workers, n)
  <1> DEFINE Reach == {w \in Nat : i < Split(w, workers, n)}
  <1>1. workers \in Reach
    BY SplitEnds, SMT
  <1>2. PICK w \in Reach : \A v \in Reach : w <= v
    <2>1. Reach \subseteq Nat /\ Reach # {}
      BY <1>1
    <2> HIDE DEF Reach
    <2> QED
      BY <2>1, LeastNat
  <1>3. w \in Nat /\ i < Split(w, workers, n) /\ w <= workers
    BY <1>1, <1>2
  <1>4. w # 0
    BY <1>3, SplitEnds, SMT
  <1>5. w - 1 \in 0 .. workers - 1 /\ w - 1 \in Nat /\ (w - 1) + 1 = w
    BY <1>3, <1>4, SMT
  <1>6. w - 1 \notin Reach
    BY <1>2, <1>5, SMT
  <1>7. Split(w - 1, workers, n) \in Nat /\ Split(w, workers, n) \in Nat
    BY <1>3, <1>5, SplitIsNat
  <1>8. Split(w - 1, workers, n) <= i
    BY <1>5, <1>6, <1>7, SMT
  <1>9. i \in Split(w - 1, workers, n) .. Split(w, workers, n) - 1
    BY <1>3, <1>7, <1>8, SMT
  <1> QED
    BY <1>5, <1>9 DEF TaskRange

\* No item is in the ranges of two workers: no bone is updated twice and no
\* cube group drawn twice.
THEOREM RangesAreDisjoint ==
  ASSUME NEW workers \in Nat \ {0}, NEW n \in Nat, NEW v \in Nat, NEW w \in Nat,
         NEW i \in TaskRange(v, workers, n) \cap TaskRange(w, workers, n)
  PROVE  v = w
  <1>1. ASSUME NEW a \in Nat, NEW b \in Nat, a < b,
               i \in TaskRange(a, workers, n), i \in TaskRange(b, workers, n)
        PROVE  FALSE
    <2>1. a + 1 \in Nat /\ b + 1 \in Nat /\ a + 1 <= b
      BY <1>1, SMT
    <2>2. Split(a + 1, workers, n) <= Split(b, workers, n)
      BY <2>1, SplitIsMonotone
    <2>3. /\ Split(a, workers, n) \in Nat /\ Split(a + 1, workers, n) \in Nat
          /\ Split(b, workers, n) \in Nat /\ Split(b + 1, workers, n) \in Nat
      BY <2>1, SplitIsNat
    <2>4. i \in Split(a, workers, n) .. Split(a + 1, workers, n) - 1
      BY <1>1 DEF TaskRange
    <2>5. i \in Split(b, workers, n) .. Split(b + 1, workers, n) - 1
      BY <1>1 DEF TaskRange
    <2> QED
      BY <2>2, <2>3, <2>4, <2>5, SMT
  <1> QED
    BY <1>1, SMT
=============================================================================
