---------------------------- MODULE NumberLemmas ----------------------------
(***************************************************************************)
(* Least and greatest elements of sets of natural numbers, which the model *)
(* takes with Min and Max, and functions that are sequences.               *)
(***************************************************************************)
EXTENDS Integers, Sequences, FiniteSetsExt, WellFoundedInduction, TLAPS

(* A non-empty set of natural numbers has a smallest element. *)
LEMMA MinExists ==
  ASSUME NEW T, T \subseteq Nat, T # {}
  PROVE  \E x \in T : \A y \in T : x <= y
<1>1. OpToRel(<, Nat) = {ss \in Nat \X Nat : ss[1] < ss[2]}
  BY DEF OpToRel
<1>2. \E x \in T : \A y \in T : ~ (<<y, x>> \in OpToRel(<, Nat))
  BY NatLessThanWellFounded, WFMin, Zenon
<1>3. PICK x \in T : \A y \in T : ~ (<<y, x>> \in {ss \in Nat \X Nat : ss[1] < ss[2]})
  BY <1>1, <1>2
<1>4. ASSUME NEW y \in T PROVE x <= y
  <2>1. <<y, x>> \in Nat \X Nat /\ <<y, x>>[1] = y /\ <<y, x>>[2] = x
    OBVIOUS
  <2>2. ~ (y < x)
    BY <1>3, <2>1, Zenon
  <2>. QED BY <2>2
<1>. QED BY <1>4

(* Min picks that element. *)
LEMMA MinIn ==
  ASSUME NEW T, T \subseteq Nat, T # {}
  PROVE  Min(T) \in T
<1>1. \E x \in T : \A y \in T : x <= y
  BY MinExists
<1>. QED BY <1>1 DEF Min

(* A non-empty bounded set of natural numbers has a largest element: Max. *)
LEMMA MaxIn ==
  ASSUME NEW T, T \subseteq Nat, T # {}, NEW b \in Nat, \A x \in T : x <= b
  PROVE  Max(T) \in T /\ \A y \in T : y <= Max(T)
<1>. DEFINE D == {d \in Nat : \E x \in T : d = b - x}
<1>1. D # {}
  <2>1. PICK x \in T : TRUE
    OBVIOUS
  <2>2. b - x \in D
    BY <2>1
  <2>. QED BY <2>2
<1>2. PICK d \in D : \A e \in D : d <= e
  BY <1>1, MinExists
<1>3. PICK x \in T : d = b - x
  BY <1>2
<1>4. ASSUME NEW y \in T PROVE y <= x
  <2>1. b - y \in D
    OBVIOUS
  <2>. QED BY <1>2, <1>3, <2>1
<1>5. \E z \in T : \A y \in T : z >= y
  BY <1>4
<1>6. Max(T) \in T /\ \A y \in T : Max(T) >= y
  BY <1>5 DEF Max
<1>. QED BY <1>6

(* Max of a number and a bounded set is a natural number no smaller. *)
LEMMA MaxWith ==
  ASSUME NEW a \in Nat, NEW T, T \subseteq Nat, NEW b \in Nat, \A x \in T : x <= b
  PROVE  /\ Max({a} \cup T) \in Nat
         /\ Max({a} \cup T) >= a
         /\ Max({a} \cup T) \in {a} \cup T
         /\ \A y \in T : y <= Max({a} \cup T)
<1>. DEFINE U == {a} \cup T
<1>1. U \subseteq Nat /\ U # {} /\ a \in U /\ T \subseteq U
  OBVIOUS
<1>2. a + b \in Nat /\ \A x \in U : x <= a + b
  OBVIOUS
<1>3. Max(U) \in U /\ \A y \in U : y <= Max(U)
  <2>. HIDE DEF U
  <2>. QED BY <1>1, <1>2, MaxIn
<1>. QED BY <1>1, <1>3

(* The larger of zero and an integer. *)
LEMMA MaxZero ==
  ASSUME NEW x \in Int
  PROVE  Max({0, x}) \in Nat /\ Max({0, x}) = IF x > 0 THEN x ELSE 0
<1>1. \E z \in {0, x} : \A y \in {0, x} : z >= y
  OBVIOUS
<1>2. Max({0, x}) \in {0, x} /\ \A y \in {0, x} : Max({0, x}) >= y
  BY <1>1 DEF Max
<1>. QED BY <1>2

(* A bound of the numbers before the k-th and the k-th number bound all k. *)
LEMMA BoundStep ==
  ASSUME NEW n \in Nat, NEW f \in [1 .. n -> Nat], NEW k \in 1 .. n, NEW b \in Nat,
         \A i \in 1 .. k - 1 : f[i] <= b
  PROVE  b + f[k] \in Nat /\ \A i \in 1 .. k : f[i] <= b + f[k]
<1>1. f[k] \in Nat
  OBVIOUS
<1>2. ASSUME NEW i \in 1 .. k PROVE f[i] <= b + f[k]
  <2>1. i \in 1 .. n
    OBVIOUS
  <2>2. f[i] \in Nat
    BY <2>1
  <2>3. CASE i = k
    BY <1>1, <2>3
  <2>4. CASE i # k
    <3>1. i \in 1 .. k - 1
      BY <2>4
    <3>2. f[i] <= b
      BY <3>1
    <3>. QED BY <1>1, <2>2, <3>2
  <2>. QED BY <2>3, <2>4
<1>. QED BY <1>1, <1>2

(* Finitely many natural numbers are bounded: take the shortest initial       *)
(* segment that is not.                                                       *)
LEMMA Bounded ==
  ASSUME NEW n \in Nat, NEW f \in [1 .. n -> Nat]
  PROVE  \E b \in Nat : \A i \in 1 .. n : f[i] <= b
<1>. DEFINE Bound(k, b) == \A i \in 1 .. k : f[i] <= b
            Unbounded == {k \in 0 .. n : \A b \in Nat : ~ Bound(k, b)}
<1>. SUFFICES ASSUME \A b \in Nat : ~ Bound(n, b) PROVE FALSE
  OBVIOUS
<1>1. Unbounded \subseteq Nat /\ n \in Unbounded
  OBVIOUS
<1>2. PICK k \in Unbounded : \A j \in Unbounded : k <= j
  <2>. HIDE DEF Unbounded
  <2>. QED BY <1>1, MinExists
<1>3. k \in 0 .. n /\ \A b \in Nat : ~ Bound(k, b)
  BY <1>2
<1>4. k # 0
  <2>1. Bound(0, 0)
    OBVIOUS
  <2>. QED BY <1>3, <2>1, Zenon
<1>. HIDE DEF Unbounded
<1>5. k \in 1 .. n
  BY <1>3, <1>4
<1>6. k - 1 \in 0 .. n /\ k - 1 \notin Unbounded
  BY <1>2, <1>5
<1>7. PICK b \in Nat : Bound(k - 1, b)
  <2>. HIDE DEF Bound
  <2>. QED BY <1>6 DEF Unbounded
<1>8. b + f[k] \in Nat /\ Bound(k, b + f[k])
  BY <1>5, <1>7, BoundStep
<1>. HIDE DEF Bound
<1>. QED BY <1>3, <1>8

(* A function on 1 .. n is a sequence of length n. *)
LEMMA SeqOf ==
  ASSUME NEW S, NEW n \in Nat, NEW f \in [1 .. n -> S]
  PROVE  f \in Seq(S) /\ Len(f) = n /\ DOMAIN f = 1 .. n
OBVIOUS

(* Of finitely many pairs of numbers, some pair is not smaller than any other  *)
(* in lexicographic order: among those with the largest first number take one  *)
(* with the largest second.                                                    *)
LEMMA LexicographicMax ==
  ASSUME NEW n \in Nat \ {0}, NEW v \in [1 .. n -> Nat], NEW o \in [1 .. n -> Nat]
  PROVE  \E i \in 1 .. n : \A j \in 1 .. n :
           ~ (v[j] > v[i] \/ (v[j] = v[i] /\ o[j] > o[i]))
<1>. DEFINE latest == {v[i] : i \in 1 .. n}
            longest == {o[i] : i \in {j \in 1 .. n : v[j] = Max(latest)}}
<1>1. PICK bv \in Nat : \A i \in 1 .. n : v[i] <= bv
  BY Bounded
<1>2. PICK bo \in Nat : \A i \in 1 .. n : o[i] <= bo
  BY Bounded
<1>3. \A i \in 1 .. n : v[i] \in Nat /\ o[i] \in Nat
  OBVIOUS
<1>4. latest \subseteq Nat /\ latest # {} /\ \A x \in latest : x <= bv
  <2>1. 1 \in 1 .. n
    OBVIOUS
  <2>. QED BY <1>1, <1>3, <2>1
<1>5. Max(latest) \in latest /\ \A x \in latest : x <= Max(latest)
  <2>. HIDE DEF latest
  <2>. QED BY <1>4, MaxIn
<1>6. PICK k \in 1 .. n : v[k] = Max(latest)
  BY <1>5
<1>7. \A i \in 1 .. n : v[i] <= Max(latest)
  BY <1>5
<1>. HIDE DEF latest
<1>8. longest \subseteq Nat /\ longest # {} /\ \A x \in longest : x <= bo
  BY <1>2, <1>3, <1>6
<1>9. Max(longest) \in longest /\ \A x \in longest : x <= Max(longest)
  <2>. HIDE DEF longest
  <2>. QED BY <1>8, MaxIn
<1>10. PICK i \in 1 .. n : v[i] = Max(latest) /\ o[i] = Max(longest)
  BY <1>9
<1>11. \A j \in 1 .. n : v[j] = Max(latest) => o[j] <= o[i]
  BY <1>9, <1>10
<1>. HIDE DEF longest
<1>12. ASSUME NEW j \in 1 .. n
       PROVE  ~ (v[j] > v[i] \/ (v[j] = v[i] /\ o[j] > o[i]))
  BY <1>3, <1>7, <1>10, <1>11
<1>. QED BY <1>12

(* Concatenation of two sequences over a set. *)
LEMMA ConcatSeq ==
  ASSUME NEW S, NEW a \in Seq(S), NEW b \in Seq(S)
  PROVE  a \o b \in Seq(S) /\ Len(a \o b) = Len(a) + Len(b)
OBVIOUS

(* A prefix of a sequence. *)
LEMMA SubSeqType ==
  ASSUME NEW S, NEW q \in Seq(S), NEW k \in 0 .. Len(q)
  PROVE  SubSeq(q, 1, k) \in Seq(S)
OBVIOUS
=============================================================================
