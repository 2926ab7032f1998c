--------------------------- MODULE BPlusTreeProofs ---------------------------
(***************************************************************************)
(* The shape of the B+ tree of BPlusTreeDeletion, proved with TLAPS.       *)
(*                                                                         *)
(* The invariant, Whole, says that there are levels lev under which the    *)
(* pages in use are one tree, and that every page is full enough.  A split *)
(* that climbs has one page hanging in the air (Hangs), a deletion that    *)
(* climbs one page that may be too empty (Lean); each step of either       *)
(* climb hands that page on, one level up, and there are fewer levels than *)
(* pages, so the folds that stand for the recursion end (Counting).        *)
(*                                                                         *)
(* Lemmas whose hypotheses or conclusions are long name them: an operator  *)
(* that is not expanded keeps the provers from looking inside.             *)
(***************************************************************************)
EXTENDS BPlusTreeDeletion, FiniteSetTheorems, Sequences, TLAPS

-----------------------------------------------------------------------------
(* Sequences of keys and of children.                                      *)

LEMMA InRange ==
  ASSUME NEW T, NEW q \in Seq(T)
  PROVE  /\ DOMAIN q = 1 .. Len(q) /\ Len(q) \in Nat
         /\ \A p : p \in Range(q) <=> \E k \in 1 .. Len(q) : q[k] = p
         /\ \A k \in 1 .. Len(q) : q[k] \in T /\ q[k] \in Range(q)
         /\ Range(q) \subseteq T
  BY DEF Range

LEMMA Injective ==
  ASSUME NEW T, NEW q \in Seq(T)
  PROVE  IsInjective(q) <=> \A i, j \in 1 .. Len(q) : q[i] = q[j] => i = j
  BY DEF IsInjective

\* The sequence q is a and then b.
Joins(T, a, b, q) ==
  /\ a \in Seq(T) /\ b \in Seq(T) /\ q \in Seq(T) /\ q = a \o b
  /\ Len(a) \in Nat /\ Len(b) \in Nat /\ Len(q) = Len(a) + Len(b)
  /\ \A i \in 1 .. Len(a) : q[i] = a[i]
  /\ \A i \in 1 .. Len(b) : q[Len(a) + i] = b[i]
  /\ Range(q) = Range(a) \union Range(b)
  /\ IsInjective(q) <=> /\ IsInjective(a) /\ IsInjective(b)
                         /\ Range(a) \intersect Range(b) = {}

LEMMA Joined ==
  ASSUME NEW T, NEW a \in Seq(T), NEW b \in Seq(T)
  PROVE  Joins(T, a, b, a \o b)
<1> DEFINE q == a \o b
<1>1. /\ q \in Seq(T) /\ Len(q) = Len(a) + Len(b) /\ Len(a) \in Nat /\ Len(b) \in Nat
      /\ \A i \in 1 .. Len(a) : q[i] = a[i]
      /\ \A i \in 1 .. Len(b) : q[Len(a) + i] = b[i]
  OBVIOUS
<1>2. \A i \in 1 .. Len(a) + Len(b) : i \in 1 .. Len(a) \/ i - Len(a) \in 1 .. Len(b)
  BY <1>1
<1> HIDE DEF q
<1>3. \A i \in 1 .. Len(q) :
        \/ i \in 1 .. Len(a) /\ q[i] = a[i] /\ q[i] \in Range(a)
        \/ i - Len(a) \in 1 .. Len(b) /\ q[i] = b[i - Len(a)] /\ q[i] \in Range(b)
  <2> SUFFICES ASSUME NEW i \in 1 .. Len(q)
               PROVE  \/ i \in 1 .. Len(a) /\ q[i] = a[i] /\ q[i] \in Range(a)
                      \/ i - Len(a) \in 1 .. Len(b) /\ q[i] = b[i - Len(a)] /\ q[i] \in Range(b)
    OBVIOUS
  <2>1. CASE i \in 1 .. Len(a)
    BY <1>1, <2>1, InRange
  <2>2. CASE i - Len(a) \in 1 .. Len(b)
    <3>1. Len(a) + (i - Len(a)) = i
      BY <1>1
    <3>2. q[i] = b[i - Len(a)]
      BY <1>1, <2>2, <3>1
    <3> QED BY <2>2, <3>2, InRange
  <2> QED BY <1>1, <1>2, <2>1, <2>2
<1>4. \A i \in 1 .. Len(a) : i \in 1 .. Len(q)
  BY <1>1
<1>5. \A i \in 1 .. Len(b) : Len(a) + i \in 1 .. Len(q) /\ Len(a) + i \notin 1 .. Len(a)
  BY <1>1
<1>6. Range(q) = Range(a) \union Range(b)
  <2>1. ASSUME NEW p \in Range(q) PROVE p \in Range(a) \union Range(b)
    BY <1>1, <1>3, InRange
  <2>2. ASSUME NEW p \in Range(a) PROVE p \in Range(q)
    BY SMTT(30), <1>1, <1>4, InRange
  <2>3. ASSUME NEW p \in Range(b) PROVE p \in Range(q)
    <3>1. PICK i \in 1 .. Len(b) : b[i] = p
      BY <2>3, InRange
    <3>2. Len(a) + i \in 1 .. Len(q) /\ q[Len(a) + i] = p
      BY <1>1, <1>5, <3>1
    <3> QED BY <1>1, <3>2, InRange
  <2> QED BY <2>1, <2>2, <2>3
<1>7. ASSUME IsInjective(a), IsInjective(b), Range(a) \intersect Range(b) = {} PROVE IsInjective(q)
  <2> SUFFICES ASSUME NEW i \in 1 .. Len(q), NEW j \in 1 .. Len(q), q[i] = q[j] PROVE i = j
    BY <1>1, Injective
  <2>1. CASE i \in 1 .. Len(a) /\ j \in 1 .. Len(a)
    BY <1>1, <1>7, <2>1, Injective
  <2>2. CASE i - Len(a) \in 1 .. Len(b) /\ j - Len(a) \in 1 .. Len(b)
    <3>1. Len(a) + (i - Len(a)) = i /\ Len(a) + (j - Len(a)) = j
      BY <1>1
    <3>2. b[i - Len(a)] = b[j - Len(a)]
      BY <1>1, <2>2, <3>1
    <3>3. i - Len(a) = j - Len(a)
      BY <1>7, <2>2, <3>2, Injective
    <3> QED BY <3>1, <3>3
  <2> QED BY <1>3, <1>7, <2>1, <2>2
<1>8. ASSUME IsInjective(q) PROVE IsInjective(a) /\ IsInjective(b) /\ Range(a) \intersect Range(b) = {}
  <2>1. \A i, j \in 1 .. Len(q) : q[i] = q[j] => i = j
    BY <1>1, <1>8, Injective
  <2>2. IsInjective(a)
    BY <1>1, <1>4, <2>1, Injective
  <2>3. IsInjective(b)
    <3> SUFFICES ASSUME NEW i \in 1 .. Len(b), NEW j \in 1 .. Len(b), b[i] = b[j] PROVE i = j
      BY Injective
    <3>1. Len(a) + i = Len(a) + j
      BY <1>1, <1>5, <2>1
    <3> QED BY <1>1, <3>1
  <2>4. ASSUME NEW p \in Range(a), p \in Range(b) PROVE FALSE
    <3>1. PICK i \in 1 .. Len(a) : a[i] = p
      BY InRange
    <3>2. PICK j \in 1 .. Len(b) : b[j] = p
      BY <2>4, InRange
    <3>3. q[i] = q[Len(a) + j]
      BY <1>1, <3>1, <3>2
    <3>4. i = Len(a) + j
      BY <1>4, <1>5, <2>1, <3>3
    <3> QED BY <1>5, <3>4
  <2> QED BY <2>2, <2>3, <2>4
<1> QED BY <1>1, <1>6, <1>7, <1>8 DEF q, Joins

\* A sequence is cut in two.
LEMMA CutInTwo ==
  ASSUME NEW T, NEW q \in Seq(T), NEW i \in 1 .. Len(q) + 1
  PROVE  /\ Joins(T, SubSeq(q, 1, i - 1), SubSeq(q, i, Len(q)), q)
         /\ Len(SubSeq(q, 1, i - 1)) = i - 1 /\ Len(SubSeq(q, i, Len(q))) = Len(q) - (i - 1)
<1> DEFINE a == SubSeq(q, 1, i - 1)
           b == SubSeq(q, i, Len(q))
<1>1. Len(q) \in Nat /\ i \in Nat /\ 1 <= i /\ i <= Len(q) + 1
  OBVIOUS
<1>2. a \in Seq(T) /\ Len(a) = i - 1 /\ \A j \in 1 .. i - 1 : a[j] = q[j]
  BY <1>1
<1>3. b \in Seq(T) /\ Len(b) = Len(q) - (i - 1) /\ \A j \in 1 .. Len(q) - (i - 1) : b[j] = q[(i - 1) + j]
  BY <1>1
<1> HIDE DEF a, b
<1>4. q = a \o b
  <2> DEFINE c == a \o b
  <2>1. /\ c \in Seq(T) /\ Len(c) = Len(a) + Len(b)
        /\ \A j \in 1 .. Len(a) : c[j] = a[j]
        /\ \A j \in 1 .. Len(b) : c[Len(a) + j] = b[j]
    <3>1. Joins(T, a, b, a \o b)
      BY <1>2, <1>3, Joined
    <3> QED BY <3>1 DEF Joins
  <2> HIDE DEF c
  <2>2. Len(c) = Len(q)
    BY <1>1, <1>2, <1>3, <2>1
  <2>3. ASSUME NEW j \in 1 .. Len(q) PROVE c[j] = q[j]
    <3>1. CASE j \in 1 .. i - 1
      BY <1>2, <2>1, <3>1
    <3>2. CASE j \notin 1 .. i - 1
      <4>1. j - (i - 1) \in 1 .. Len(b) /\ (i - 1) + (j - (i - 1)) = j
        BY <1>1, <1>3, <3>2
      <4>2. c[j] = b[j - (i - 1)]
        BY <1>2, <2>1, <4>1
      <4> QED BY <1>3, <4>1, <4>2
    <3> QED BY <3>1, <3>2
  <2>4. q = c
    BY <2>1, <2>2, <2>3
  <2> QED BY <2>4 DEF c
<1>5. Joins(T, a, b, q)
  BY <1>2, <1>3, <1>4, Joined
<1> QED BY <1>2, <1>3, <1>5 DEF a, b

LEMMA Single ==
  ASSUME NEW T, NEW e \in T
  PROVE  /\ <<e>> \in Seq(T) /\ Len(<<e>>) = 1 /\ <<e>>[1] = e
         /\ Range(<<e>>) = {e} /\ IsInjective(<<e>>)
<1> DEFINE q == <<e>>
<1>1. q \in Seq(T) /\ Len(q) = 1 /\ q[1] = e
  OBVIOUS
<1>2. \A k \in 1 .. 1 : k = 1
  OBVIOUS
<1>3. 1 \in 1 .. 1
  OBVIOUS
<1> HIDE DEF q
<1>4. Range(q) = {e}
  BY <1>1, <1>2, <1>3, InRange
<1>5. IsInjective(q)
  BY <1>1, <1>2, Injective
<1> QED BY <1>1, <1>4, <1>5 DEF q

\* The sequence r is q with the element e in the middle.
InMiddle(T, q, e, r) ==
  \E a \in Seq(T) : \E b \in Seq(T) : q = a \o b /\ r = (a \o <<e>>) \o b

\* The sequence r is q with the element e more.
Gains(T, q, e, r) ==
  /\ r \in Seq(T) /\ Len(r) = Len(q) + 1 /\ Range(r) = Range(q) \union {e}
  /\ IsInjective(q) /\ e \notin Range(q) => IsInjective(r)
  /\ InMiddle(T, q, e, r)

\* The sequence r is q without one element e.
Loses(T, q, e, r) ==
  /\ r \in Seq(T) /\ Len(r) = Len(q) - 1
  /\ IsInjective(q) => IsInjective(r) /\ Range(r) = Range(q) \ {e}
  /\ InMiddle(T, r, e, q)

\* An element is put in at a place.
LEMMA PutIn ==
  ASSUME NEW T, NEW q \in Seq(T), NEW i \in 1 .. Len(q) + 1, NEW e \in T
  PROVE  Gains(T, q, e, InsertAt(q, i, e))
<1> DEFINE a == SubSeq(q, 1, i - 1)
           b == SubSeq(q, i, Len(q))
           c == a \o <<e>>
           r == c \o b
<1>1. r = InsertAt(q, i, e)
  BY DEF InsertAt
<1>2. Joins(T, a, b, q)
  BY CutInTwo
<1> HIDE DEF a, b
<1>3. /\ <<e>> \in Seq(T) /\ Len(<<e>>) = 1
      /\ Range(<<e>>) = {e} /\ IsInjective(<<e>>)
  BY Single
<1>4. Joins(T, a, <<e>>, c)
  BY <1>2, <1>3, Joined DEF Joins
<1>5. Joins(T, c, b, r)
  BY <1>2, <1>4, Joined DEF Joins
<1>6. r = (a \o <<e>>) \o b
  OBVIOUS
<1> HIDE DEF c, r
<1>7. Len(r) = Len(q) + 1
  BY <1>2, <1>3, <1>4, <1>5 DEF Joins
<1>8. Range(r) = Range(q) \union {e}
  BY <1>2, <1>3, <1>4, <1>5 DEF Joins
<1>9. IsInjective(q) /\ e \notin Range(q) => IsInjective(r)
  BY SMTT(30), <1>2, <1>3, <1>4, <1>5 DEF Joins
<1>10. r \in Seq(T) /\ a \in Seq(T) /\ b \in Seq(T) /\ q = a \o b
  BY <1>2, <1>5 DEF Joins
<1>11. InMiddle(T, q, e, r)
  BY <1>6, <1>10 DEF InMiddle
<1> QED BY <1>1, <1>7, <1>8, <1>9, <1>10, <1>11 DEF Gains

\* The first elements, and one more.
LEMMA OneMore ==
  ASSUME NEW T, NEW q \in Seq(T), NEW i \in 1 .. Len(q)
  PROVE  SubSeq(q, 1, i) = SubSeq(q, 1, i - 1) \o <<q[i]>>
<1>1. /\ Len(q) \in Nat /\ i \in Nat /\ i \in 1 .. Len(q) + 1 /\ i + 1 \in 1 .. Len(q) + 1
      /\ (i + 1) - 1 = i /\ q[i] \in T
  BY InRange
<1> DEFINE a == SubSeq(q, 1, i - 1)
           b == SubSeq(q, i + 1, Len(q))
           c == SubSeq(q, 1, i)
<1>3. Len(a) = i - 1 /\ Joins(T, a, SubSeq(q, i, Len(q)), q)
  BY <1>1, CutInTwo
<1>4. Joins(T, c, b, q) /\ Len(c) = i
  BY <1>1, CutInTwo
<1> HIDE DEF a, b, c
<1>5. /\ <<q[i]>> \in Seq(T) /\ Len(<<q[i]>>) = 1 /\ <<q[i]>>[1] = q[i]
      /\ Range(<<q[i]>>) = {q[i]} /\ IsInjective(<<q[i]>>)
  BY <1>1, Single
<1>6. Joins(T, a, <<q[i]>>, a \o <<q[i]>>)
  BY <1>3, <1>5, Joined DEF Joins
<1>7. c = a \o <<q[i]>>
  <2> DEFINE d == a \o <<q[i]>>
             e == <<q[i]>>
  <2>1. /\ d \in Seq(T) /\ Len(d) = Len(a) + Len(e)
        /\ \A j \in 1 .. Len(a) : d[j] = a[j]
        /\ \A j \in 1 .. Len(e) : d[Len(a) + j] = e[j]
    BY <1>6 DEF Joins
  <2>2. Len(e) = 1 /\ e[1] = q[i] /\ 1 \in 1 .. 1
    BY <1>5
  <2> HIDE DEF d, e
  <2>3. Len(d) = i /\ d[i] = q[i] /\ (i - 1) + 1 = i
    BY <1>1, <1>3, <2>1, <2>2
  <2>4. \A j \in 1 .. i : j \in 1 .. i - 1 \/ j = i
    BY <1>1
  <2>5. /\ c \in Seq(T) /\ \A j \in 1 .. i : c[j] = q[j]
        /\ \A j \in 1 .. i - 1 : a[j] = q[j]
    BY <1>3, <1>4 DEF Joins
  <2>6. \A j \in 1 .. i : d[j] = c[j]
    BY <1>3, <2>1, <2>3, <2>4, <2>5
  <2>7. d = c
    BY <1>4, <2>1, <2>3, <2>5, <2>6
  <2> QED BY <2>7 DEF d
<1> QED BY <1>7 DEF a, c

\* The element at a place is taken out.
LEMMA TakenOut ==
  ASSUME NEW T, NEW q \in Seq(T), NEW i \in 1 .. Len(q)
  PROVE  Loses(T, q, q[i], RemoveAt(q, i))
<1>1. /\ Len(q) \in Nat /\ i \in Nat /\ i \in 1 .. Len(q) + 1 /\ i + 1 \in 1 .. Len(q) + 1
      /\ (i + 1) - 1 = i /\ q[i] \in T
  BY InRange
<1> DEFINE a == SubSeq(q, 1, i - 1)
           b == SubSeq(q, i + 1, Len(q))
           c == SubSeq(q, 1, i)
           r == a \o b
<1>2. r = RemoveAt(q, i)
  BY DEF RemoveAt
<1>3. Len(a) = i - 1 /\ Joins(T, a, SubSeq(q, i, Len(q)), q)
  BY <1>1, CutInTwo
<1>4. Joins(T, c, b, q) /\ Len(c) = i
  BY <1>1, CutInTwo
<1> HIDE DEF a, b, c
<1>5. /\ <<q[i]>> \in Seq(T) /\ Len(<<q[i]>>) = 1 /\ <<q[i]>>[1] = q[i]
      /\ Range(<<q[i]>>) = {q[i]} /\ IsInjective(<<q[i]>>)
  BY <1>1, Single
<1>6. Joins(T, a, <<q[i]>>, a \o <<q[i]>>)
  BY <1>3, <1>5, Joined DEF Joins
<1>7. c = a \o <<q[i]>>
  BY OneMore DEF a, c
<1>8. Joins(T, a, b, r)
  BY <1>3, <1>4, Joined DEF Joins
<1> HIDE DEF r
<1>9. Len(r) = Len(q) - 1
  BY <1>1, <1>3, <1>4, <1>8 DEF Joins
<1>10. Joins(T, a, <<q[i]>>, c)
  BY <1>6, <1>7
<1>11. IsInjective(q) => IsInjective(r) /\ Range(r) = Range(q) \ {q[i]}
  BY <1>4, <1>5, <1>8, <1>10 DEF Joins
<1>12. r \in Seq(T) /\ a \in Seq(T) /\ b \in Seq(T) /\ r = a \o b /\ q = c \o b
  BY <1>4, <1>8 DEF Joins
<1>13. InMiddle(T, r, q[i], q)
  BY <1>7, <1>12 DEF InMiddle
<1> QED BY <1>2, <1>9, <1>11, <1>12, <1>13 DEF Loses

-----------------------------------------------------------------------------
(* Numbers.                                                                *)

\* Any set of numbers has a smallest one.
LEMMA Smallest ==
  ASSUME NEW T, T \subseteq Nat, T # {}
  PROVE  \E k \in T : \A h \in T : k <= h
<1> DEFINE R == OpToRel(<, Nat)
<1>1. \A x, y \in Nat : x < y => <<x, y>> \in R
  BY DEF OpToRel
<1>2. IsWellFoundedOn(R, Nat)
  BY NatLessThanWellFounded
<1> HIDE DEF R
<1>3. PICK k \in T : \A h \in T : <<h, k>> \notin R
  BY <1>2, WFMin
<1>4. \A h \in T : ~(h < k)
  BY <1>1, <1>3
<1>5. \A h \in T : h \in Nat /\ k \in Nat
  OBVIOUS
<1> QED BY <1>3, <1>4, <1>5

\* What holds at the start of a walk and after every step holds all along it.
LEMMA Counting ==
  ASSUME NEW S, 0 \in S, \A n \in Nat : n \in S => n + 1 \in S
  PROVE  Nat \subseteq S
<1> SUFFICES ASSUME Nat \ S # {} PROVE FALSE
  OBVIOUS
<1>1. PICK k \in Nat \ S : \A h \in Nat \ S : k <= h
  BY Smallest
<1>2. k # 0 /\ k - 1 \in Nat
  BY <1>1
<1>3. k - 1 \in S
  BY <1>1, <1>2
<1> QED BY <1>1, <1>2, <1>3

\* A set of places has a largest one.
LEMMA Largest ==
  ASSUME NEW n \in Nat, NEW T \in SUBSET (0 .. n), T # {}
  PROVE  Max(T) \in T /\ \A y \in T : y <= Max(T)
<1> DEFINE D == {n - y : y \in T}
<1>1. \A y \in T : y \in Nat /\ n - y \in Nat
  OBVIOUS
<1> HIDE DEF D
<1>0. D \subseteq Nat /\ D # {} /\ \A y \in T : n - y \in D
  BY <1>1 DEF D
<1>2. PICK d \in D : \A e \in D : d <= e
  BY <1>0, Smallest
<1>3. PICK x \in T : d = n - x
  BY DEF D
<1>4. \A y \in T : y <= x
  BY <1>0, <1>1, <1>2, <1>3
<1>5. \A y \in T : x >= y
  BY <1>4
<1>6. \E z \in T : \A y \in T : z >= y
  BY <1>5
<1>7. Max(T) \in T /\ \A y \in T : Max(T) >= y
  BY <1>6 DEF Max
<1> QED BY <1>7

LEMMA LargestUpTo ==
  ASSUME NEW n \in Nat \ {0}
  PROVE  Max(1 .. n) = n /\ (1 .. n) \ {n} = 1 .. n - 1 /\ 1 .. n # {}
<1>1. 1 .. n \in SUBSET (0 .. n) /\ n \in 1 .. n
  OBVIOUS
<1>2. Max(1 .. n) \in 1 .. n /\ n <= Max(1 .. n)
  BY <1>1, Largest
<1> QED BY <1>1, <1>2

-----------------------------------------------------------------------------
(* The space of records.                                                   *)

\* One round of the fold: the space g of some of the records gives that of one more.
SpaceStep(keys, g) ==
  [s \in SUBSET DOMAIN keys |->
     IF s = {} THEN 0 ELSE g[s \ {Max(s)}] + Size[keys[Max(s)]]]

LEMMA SpaceIsStep ==
  ASSUME NEW keys
  PROVE  SpaceFor(keys) = (CHOOSE g : g = SpaceStep(keys, g))[DOMAIN keys]
BY DEF SpaceFor, FoldLeft, MapThenFoldSet, SpaceStep

LEMMA SizeIsNat ==
  ASSUME NEW k \in Key
  PROVE  Size[k] \in Nat \ {0} /\ 2 * Size[k] <= MAX_FREE_SPACE \div 2
BY BPlusTreeAssumption

\* The fold has a solution.
LEMMA SpaceExists ==
  ASSUME NEW keys \in Seq(Key)
  PROVE  \E g : g = SpaceStep(keys, g)
<1> DEFINE S == DOMAIN keys
           Part(n) == {T \in SUBSET S : Cardinality(T) <= n}
           More(g, T) == IF T = {} THEN 0 ELSE g[T \ {Max(T)}] + Size[keys[Max(T)]]
           Upto(g, n) == g = [T \in Part(n) |-> More(g, T)]
           Good == {n \in Nat : \E g : Upto(g, n)}
<1>1. S = 1 .. Len(keys) /\ Len(keys) \in Nat /\ IsFiniteSet(S)
  BY FS_Interval, InRange
<1>2. \A T \in SUBSET S : IsFiniteSet(T) /\ Cardinality(T) \in Nat
  BY <1>1, FS_Subset, FS_CardinalityType
<1>3. 0 \in Good
  <2> DEFINE g == [T \in Part(0) |-> 0]
  <2>1. \A T \in Part(0) : T = {}
    BY <1>2, FS_EmptySet
  <2>2. Upto(g, 0)
    BY <2>1
  <2> QED BY <2>2
<1>4. ASSUME NEW n \in Nat, n \in Good PROVE n + 1 \in Good
  <2>1. PICK g : Upto(g, n)
    BY <1>4
  <2> DEFINE h == [T \in Part(n + 1) |-> More(g, T)]
  <2>2. ASSUME NEW T \in Part(n + 1), T # {}
        PROVE  T \ {Max(T)} \in Part(n)
    <3>1. Max(T) \in T
      <4>1. T \in SUBSET (0 .. Len(keys))
        BY <1>1
      <4> QED BY <1>1, <2>2, <4>1, Largest
    <3>2. Cardinality(T \ {Max(T)}) = Cardinality(T) - 1 /\ Cardinality(T) \in Nat
      BY <1>2, <3>1, FS_RemoveElement
    <3>3. T \ {Max(T)} \in SUBSET S /\ Cardinality(T) <= n + 1
      OBVIOUS
    <3> QED BY <3>2, <3>3
  <2>3. \A T \in Part(n) : T \in Part(n + 1)
    BY <1>2
  <2>4. \A T \in Part(n) : h[T] = g[T]
    <3>1. \A T \in Part(n) : g[T] = More(g, T)
      BY <2>1
    <3> HIDE DEF Part, More
    <3> QED BY <2>3, <3>1
  <2>5. ASSUME NEW T \in Part(n + 1) PROVE h[T] = More(h, T)
    <3>1. h[T] = More(g, T)
      BY <2>5
    <3>2. T # {} => h[T \ {Max(T)}] = g[T \ {Max(T)}]
      BY <2>2, <2>4
    <3> HIDE DEF h
    <3> QED BY <3>1, <3>2
  <2>6. Upto(h, n + 1)
    BY <2>5
  <2> HIDE DEF Upto, h
  <2> QED BY <2>6
<1> HIDE DEF Good
<1>5. Nat \subseteq Good
  BY <1>3, <1>4, Counting
<1>6. Cardinality(S) \in Good
  BY <1>1, <1>2, <1>5
<1>7. PICK g : Upto(g, Cardinality(S))
  BY <1>6 DEF Good
<1>8. Part(Cardinality(S)) = SUBSET S
  BY <1>1, FS_Subset
<1>10. g = [T \in SUBSET S |-> More(g, T)]
  <2> HIDE DEF S, More, Part
  <2> QED BY <1>7, <1>8
<1>11. g = SpaceStep(keys, g)
  BY <1>10 DEF SpaceStep
<1> QED BY <1>11

\* The space of the first records, record by record.
Adds(keys, h) ==
  /\ h[0] = 0 /\ \A i \in 0 .. Len(keys) : h[i] \in Nat
  /\ \A i \in 1 .. Len(keys) : h[i] = h[i - 1] + Size[keys[i]]

LEMMA SpaceAdds ==
  ASSUME NEW keys \in Seq(Key)
  PROVE  \E h : Adds(keys, h) /\ SpaceFor(keys) = h[Len(keys)]
<1> DEFINE g == CHOOSE g : g = SpaceStep(keys, g)
           h == [i \in 0 .. Len(keys) |-> g[1 .. i]]
<1>1. g = SpaceStep(keys, g)
  BY SpaceExists
<1>2. SpaceFor(keys) = g[DOMAIN keys]
  BY SpaceIsStep
<1> HIDE DEF g
<1>3. DOMAIN keys = 1 .. Len(keys) /\ Len(keys) \in Nat
  BY InRange
<1>4. g[{}] = 0 /\ 1 .. 0 = {}
  <2>1. {} \in SUBSET DOMAIN keys
    OBVIOUS
  <2> QED BY <1>1, <2>1 DEF SpaceStep
<1>5. ASSUME NEW i \in 1 .. Len(keys)
      PROVE  g[1 .. i] = g[1 .. i - 1] + Size[keys[i]]
  <2>1. 1 .. i \in SUBSET DOMAIN keys /\ i \in Nat \ {0}
    BY <1>3
  <2>2. Max(1 .. i) = i /\ (1 .. i) \ {i} = 1 .. i - 1 /\ 1 .. i # {}
    BY <2>1, LargestUpTo
  <2>3. g[1 .. i] = g[(1 .. i) \ {Max(1 .. i)}] + Size[keys[Max(1 .. i)]]
    <3> DEFINE s == 1 .. i
    <3> HIDE DEF s
    <3>1. s \in SUBSET DOMAIN keys /\ s # {}
      BY <2>1, <2>2 DEF s
    <3>2. g[s] = g[s \ {Max(s)}] + Size[keys[Max(s)]]
      BY <1>1, <3>1 DEF SpaceStep
    <3> QED BY <3>2 DEF s
  <2> QED BY <2>2, <2>3
<1>6. h[0] = 0
  BY <1>3, <1>4
<1>7. ASSUME NEW i \in 1 .. Len(keys) PROVE h[i] = h[i - 1] + Size[keys[i]]
  <2>1. i \in 0 .. Len(keys) /\ i - 1 \in 0 .. Len(keys)
    BY <1>3
  <2>2. h[i] = g[1 .. i] /\ h[i - 1] = g[1 .. i - 1]
    BY <2>1
  <2> QED BY <1>5, <2>2
<1>8. SpaceFor(keys) = h[Len(keys)]
  BY <1>2, <1>3
<1> HIDE DEF h
<1> DEFINE Good == {n \in Nat : n \in 0 .. Len(keys) => h[n] \in Nat}
<1>9. 0 \in Good
  BY <1>6
<1>10. ASSUME NEW n \in Nat, n \in Good PROVE n + 1 \in Good
  <2> SUFFICES ASSUME n + 1 \in 0 .. Len(keys) PROVE h[n + 1] \in Nat
    OBVIOUS
  <2>1. n + 1 \in 1 .. Len(keys) /\ n \in 0 .. Len(keys) /\ (n + 1) - 1 = n
    BY <1>3
  <2>2. h[n + 1] = h[n] + Size[keys[n + 1]] /\ h[n] \in Nat
    BY <1>7, <1>10, <2>1
  <2>3. Size[keys[n + 1]] \in Nat
    BY <2>1, InRange, SizeIsNat
  <2> QED BY <2>2, <2>3
<1> HIDE DEF Good
<1>11. Nat \subseteq Good
  BY <1>9, <1>10, Counting
<1>12. \A i \in 0 .. Len(keys) : h[i] \in Nat
  BY <1>3, <1>11 DEF Good
<1> QED BY <1>6, <1>7, <1>8, <1>12 DEF Adds

\* Records that begin alike take the same space so far.
LEMMA AddsSame ==
  ASSUME NEW q \in Seq(Key), NEW g, Adds(q, g), NEW r \in Seq(Key), NEW h, Adds(r, h),
         NEW n \in 0 .. Len(q), n <= Len(r), \A i \in 1 .. n : q[i] = r[i]
  PROVE  g[n] = h[n]
<1> DEFINE Good == {i \in Nat : i <= n => g[i] = h[i]}
<1>1. Len(q) \in Nat /\ Len(r) \in Nat /\ n \in Nat
  OBVIOUS
<1>2. 0 \in Good
  BY DEF Adds
<1>3. ASSUME NEW i \in Nat, i \in Good PROVE i + 1 \in Good
  <2> SUFFICES ASSUME i + 1 <= n PROVE g[i + 1] = h[i + 1]
    OBVIOUS
  <2>1. i + 1 \in 1 .. Len(q) /\ i + 1 \in 1 .. Len(r) /\ i + 1 \in 1 .. n /\ (i + 1) - 1 = i
    BY <1>1
  <2>2. g[i + 1] = g[i] + Size[q[i + 1]] /\ h[i + 1] = h[i] + Size[r[i + 1]] /\ g[i] = h[i]
    BY <1>1, <1>3, <2>1 DEF Adds
  <2> QED BY <2>1, <2>2
<1> HIDE DEF Good
<1>4. Nat \subseteq Good
  BY <1>2, <1>3, Counting
<1>5. n \in Good
  BY <1>1, <1>4
<1> QED BY <1>1, <1>5 DEF Good

\* Records side by side take the space of both.
LEMMA SpaceJoined ==
  ASSUME NEW a \in Seq(Key), NEW b \in Seq(Key)
  PROVE  /\ SpaceFor(a \o b) = SpaceFor(a) + SpaceFor(b)
         /\ SpaceFor(a) \in Nat /\ SpaceFor(b) \in Nat
<1> DEFINE q == a \o b
<1>1. Joins(Key, a, b, q)
  BY Joined
<1> HIDE DEF q
<1>2. PICK g : Adds(q, g) /\ SpaceFor(q) = g[Len(q)]
  BY <1>1, SpaceAdds DEF Joins
<1>3. PICK e : Adds(a, e) /\ SpaceFor(a) = e[Len(a)]
  BY SpaceAdds
<1>4. PICK f : Adds(b, f) /\ SpaceFor(b) = f[Len(b)]
  BY SpaceAdds
<1>5. Len(a) \in Nat /\ Len(b) \in Nat /\ Len(q) = Len(a) + Len(b) /\ q \in Seq(Key)
  BY <1>1 DEF Joins
<1>6. g[Len(a)] = e[Len(a)]
  <2>1. \A i \in 1 .. Len(a) : q[i] = a[i]
    BY <1>1 DEF Joins
  <2>2. Len(a) \in 0 .. Len(q) /\ Len(a) <= Len(a)
    BY <1>5
  <2> QED BY <1>2, <1>3, <1>5, <2>1, <2>2, AddsSame
<1> DEFINE Good == {n \in Nat : n <= Len(b) => g[Len(a) + n] = g[Len(a)] + f[n]}
<1>7. 0 \in Good
  <2>1. f[0] = 0 /\ g[Len(a)] \in Nat /\ Len(a) + 0 = Len(a)
    BY <1>2, <1>4, <1>5 DEF Adds
  <2> QED BY <2>1
<1>8. ASSUME NEW n \in Nat, n \in Good PROVE n + 1 \in Good
  <2> SUFFICES ASSUME n + 1 <= Len(b) PROVE g[Len(a) + (n + 1)] = g[Len(a)] + f[n + 1]
    OBVIOUS
  <2> DEFINE m == Len(a) + (n + 1)
  <2>1. m \in 1 .. Len(q) /\ m - 1 = Len(a) + n /\ n + 1 \in 1 .. Len(b) /\ (n + 1) - 1 = n
        /\ n \in 0 .. Len(b) /\ Len(a) \in 0 .. Len(q)
    BY <1>5
  <2>2. q[m] = b[n + 1]
    BY <1>1, <2>1 DEF Joins
  <2> HIDE DEF m
  <2>3. g[m] = g[m - 1] + Size[q[m]] /\ f[n + 1] = f[n] + Size[b[n + 1]]
    BY <1>2, <1>4, <2>1 DEF Adds
  <2>4. g[m - 1] = g[Len(a)] + f[n]
    BY <1>8, <2>1, <1>5
  <2>5. g[Len(a)] \in Nat /\ f[n] \in Nat /\ Size[b[n + 1]] \in Nat
    BY <1>2, <1>4, <2>1, InRange, SizeIsNat DEF Adds
  <2>6. g[m] = g[Len(a)] + f[n + 1]
    BY <2>2, <2>3, <2>4, <2>5
  <2> QED BY <2>6 DEF m
<1> HIDE DEF Good
<1>9. Nat \subseteq Good
  BY <1>7, <1>8, Counting
<1>10. Len(b) \in Good
  BY <1>5, <1>9
<1>11. g[Len(a) + Len(b)] = g[Len(a)] + f[Len(b)]
  BY <1>5, <1>10 DEF Good
<1>12. e[Len(a)] \in Nat /\ f[Len(b)] \in Nat
  <2>1. Len(a) \in 0 .. Len(a) /\ Len(b) \in 0 .. Len(b)
    BY <1>5
  <2> QED BY <1>3, <1>4, <2>1 DEF Adds
<1> QED BY <1>2, <1>3, <1>4, <1>5, <1>6, <1>11, <1>12 DEF q

LEMMA SpaceSingle ==
  ASSUME NEW k \in Key
  PROVE  SpaceFor(<<k>>) = Size[k] /\ SpaceFor(<< >>) = 0
<1>1. <<k>> \in Seq(Key) /\ Len(<<k>>) = 1 /\ <<k>>[1] = k
  BY Single
<1>2. << >> \in Seq(Key) /\ Len(<< >>) = 0
  OBVIOUS
<1> DEFINE q == <<k>>
<1> HIDE DEF q
<1>3. PICK h : Adds(q, h) /\ SpaceFor(q) = h[Len(q)]
  BY <1>1, SpaceAdds DEF q
<1>4. Len(q) = 1 /\ q[1] = k
  BY <1>1 DEF q
<1>5. 1 \in 1 .. 1 /\ 1 - 1 = 0
  OBVIOUS
<1>6. h[1] = h[0] + Size[k] /\ h[0] = 0 /\ Size[k] \in Nat
  BY <1>3, <1>4, <1>5, SizeIsNat DEF Adds
<1>7. SpaceFor(q) = Size[k]
  BY <1>3, <1>4, <1>6
<1>8. PICK e : Adds(<< >>, e) /\ SpaceFor(<< >>) = e[Len(<< >>)]
  BY <1>2, SpaceAdds
<1>9. SpaceFor(<< >>) = 0
  BY <1>2, <1>8 DEF Adds
<1> QED BY <1>7, <1>9 DEF q

-----------------------------------------------------------------------------
(* Links.                                                                  *)

\* The children K and the parents P of the pages U make a tree with the root r, level
\* by level, but for the pages out, which no page has as a child.
Linked(K, P, U, r, lev, out) ==
  /\ U \subseteq PageNumber /\ r \in U /\ r \notin out /\ P[r] = 0
  /\ \A m \in U : lev[m] \in Nat
  /\ \A m \in U : \A x \in K[m] :
       x \in U /\ x \notin out /\ P[x] = m /\ lev[m] = lev[x] + 1
  /\ \A n \in U \ {r} : n \notin out => P[n] \in U /\ n \in K[P[n]]

\* A page that splits: its children, and the page that was split before, go to it and
\* to the new page beside it.
SplitLinks(K, P, U, r, lev, out, L, Q, lew, n, new) ==
  /\ Linked(K, P, U, r, lev, out)
  /\ n \in U /\ n \notin out /\ new \in PageNumber /\ new \notin U
  /\ out \subseteq U /\ \A x \in out : P[x] = n /\ lev[n] = lev[x] + 1
  /\ L[n] \union L[new] = K[n] \union out /\ L[n] \intersect L[new] = {}
  /\ \A m \in U : m # n => L[m] = K[m]
  /\ \A x \in U : Q[x] = IF x \in L[new] THEN new ELSE P[x]
  /\ Q[new] = P[n]
  /\ \A m \in U : lew[m] = lev[m]
  /\ lew[new] = lev[n]

LEMMA LinkedSplit ==
  ASSUME NEW K, NEW P, NEW U, NEW r, NEW lev, NEW out, NEW L, NEW Q, NEW lew, NEW n,
         NEW new, SplitLinks(K, P, U, r, lev, out, L, Q, lew, n, new)
  PROVE  Linked(L, Q, U \union {new}, r, lew, {new})
<1> USE DEF SplitLinks
<1>1. \A m \in U : K[m] \subseteq U
  BY DEF Linked
<1>2. L[new] \subseteq U /\ L[n] \subseteq U
  BY <1>1
<1>3. r \notin L[new] /\ r \notin K[n] /\ r \notin out
  BY DEF Linked, PageNumber
<1>4. ASSUME NEW m \in U \union {new}, NEW x \in L[m]
      PROVE  x \in U /\ x # new /\ Q[x] = m /\ lew[m] = lew[x] + 1
  <2>1. CASE m = n \/ m = new
    <3>1. x \in K[n] \union out
      BY <2>1
    <3>2. x \in U /\ P[x] = n /\ lev[n] = lev[x] + 1
      BY <3>1 DEF Linked
    <3>3. Q[x] = m
      BY <2>1, <3>2
    <3> QED BY <2>1, <3>2, <3>3
  <2>2. CASE m # n /\ m # new
    <3>1. x \in K[m] /\ m \in U
      BY <2>2
    <3>2. x \in U /\ P[x] = m /\ lev[m] = lev[x] + 1
      BY <3>1 DEF Linked
    <3>3. x \notin L[new]
      <4>1. x \notin K[n] /\ x \notin out
        BY <2>2, <3>1, <3>2 DEF Linked
      <4> QED BY <4>1
    <3> QED BY <3>1, <3>2, <3>3
  <2> QED BY <2>1, <2>2
<1>5. ASSUME NEW x \in U \ {r} PROVE Q[x] \in U \union {new} /\ x \in L[Q[x]]
  <2>1. CASE x \in L[new]
    BY <2>1
  <2>2. CASE x \in out /\ x \notin L[new]
    BY <2>2
  <2>3. CASE x \notin out /\ x \notin L[new]
    <3>1. P[x] \in U /\ x \in K[P[x]] /\ Q[x] = P[x]
      BY <2>3 DEF Linked
    <3> QED BY <2>3, <3>1
  <2> QED BY <2>1, <2>2, <2>3
<1>6. Q[r] = 0 /\ r \in U /\ r # new
  BY <1>3 DEF Linked
<1> QED BY <1>4, <1>5, <1>6 DEF Linked

\* The old root and the page split off it get a new root.
NewRootLinks(K, P, U, r, lev, x, L, Q, lew, new) ==
  /\ Linked(K, P, U, r, lev, {x})
  /\ x \in U /\ lev[x] = lev[r] /\ new \in PageNumber /\ new \notin U
  /\ L[new] = {r, x} /\ \A m \in U : L[m] = K[m]
  /\ Q[new] = 0 /\ \A m \in U : Q[m] = IF m \in {r, x} THEN new ELSE P[m]
  /\ \A m \in U : lew[m] = lev[m]
  /\ lew[new] = lev[r] + 1

LEMMA LinkedNewRoot ==
  ASSUME NEW K, NEW P, NEW U, NEW r, NEW lev, NEW x, NEW L, NEW Q, NEW lew, NEW new,
         NewRootLinks(K, P, U, r, lev, x, L, Q, lew, new)
  PROVE  Linked(L, Q, U \union {new}, new, lew, {})
<1> USE DEF NewRootLinks
<1>1. r \in U /\ r # x /\ r \in PageNumber /\ P[r] = 0 /\ 0 \notin PageNumber /\ lev[r] \in Nat
  BY DEF Linked, PageNumber
<1>2. ASSUME NEW m \in U \union {new}, NEW y \in L[m]
      PROVE  y \in U /\ Q[y] = m /\ lew[m] = lew[y] + 1
  <2>1. CASE m = new
    BY <1>1, <2>1
  <2>2. CASE m # new
    <3>1. y \in U /\ y # x /\ P[y] = m /\ lev[m] = lev[y] + 1
      BY <2>2 DEF Linked
    <3>2. y # r
      BY <1>1, <2>2, <3>1 DEF Linked
    <3> QED BY <2>2, <3>1, <3>2
  <2> QED BY <2>1, <2>2
<1>3. ASSUME NEW y \in U PROVE Q[y] \in U \union {new} /\ y \in L[Q[y]]
  BY <1>1 DEF Linked
<1> QED BY <1>1, <1>2, <1>3 DEF Linked

\* The page split off becomes a child of the parent it names.
AdoptLinks(K, P, U, r, lev, x, L, n) ==
  /\ Linked(K, P, U, r, lev, {x})
  /\ x \in U /\ n \in U /\ P[x] = n /\ lev[n] = lev[x] + 1
  /\ L[n] = K[n] \union {x} /\ \A m \in U : m # n => L[m] = K[m]

LEMMA LinkedAdopt ==
  ASSUME NEW K, NEW P, NEW U, NEW r, NEW lev, NEW x, NEW L, NEW n,
         AdoptLinks(K, P, U, r, lev, x, L, n)
  PROVE  Linked(L, P, U, r, lev, {})
BY DEF Linked, AdoptLinks

\* One child goes to the page beside its parent.
PassLinks(K, P, U, r, lev, L, Q, a, b, x) ==
  /\ Linked(K, P, U, r, lev, {})
  /\ a \in U /\ b \in U /\ a # b /\ lev[a] = lev[b] /\ x \in K[b]
  /\ L[a] = K[a] \union {x} /\ L[b] = K[b] \ {x}
  /\ \A m \in U : m \notin {a, b} => L[m] = K[m]
  /\ \A m \in U : Q[m] = IF m = x THEN a ELSE P[m]

LEMMA LinkedPass ==
  ASSUME NEW K, NEW P, NEW U, NEW r, NEW lev, NEW L, NEW Q, NEW a, NEW b, NEW x,
         PassLinks(K, P, U, r, lev, L, Q, a, b, x)
  PROVE  Linked(L, Q, U, r, lev, {})
<1> USE DEF PassLinks
<1>1. x \in U /\ x # r /\ P[x] = b
  BY DEF Linked, PageNumber
<1>2. ASSUME NEW m \in U, NEW y \in L[m] PROVE y \in U /\ Q[y] = m /\ lev[m] = lev[y] + 1
  BY <1>1 DEF Linked
<1>3. ASSUME NEW y \in U \ {r} PROVE Q[y] \in U /\ y \in L[Q[y]]
  BY <1>1 DEF Linked
<1> QED BY <1>1, <1>2, <1>3 DEF Linked

\* A page goes into the one beside it, and their parent loses it.
JoinLinks(K, P, U, r, lev, L, Q, a, b) ==
  /\ Linked(K, P, U, r, lev, {})
  /\ a \in U /\ b \in U \ {r} /\ a # b /\ lev[a] = lev[b]
  /\ L[a] = K[a] \union K[b] /\ L[P[b]] = K[P[b]] \ {b}
  /\ \A m \in U : m \notin {a, b, P[b]} => L[m] = K[m]
  /\ \A m \in U : Q[m] = IF m \in K[b] THEN a ELSE P[m]

LEMMA LinkedJoin ==
  ASSUME NEW K, NEW P, NEW U, NEW r, NEW lev, NEW L, NEW Q, NEW a, NEW b,
         JoinLinks(K, P, U, r, lev, L, Q, a, b)
  PROVE  Linked(L, Q, U \ {b}, r, lev, {})
<1> USE DEF JoinLinks
<1>1. /\ P[b] \in U /\ b \in K[P[b]] /\ lev[P[b]] = lev[b] + 1 /\ lev[b] \in Nat
      /\ P[b] # a /\ P[b] # b
  BY DEF Linked
<1>2. ASSUME NEW m \in U \ {b}, NEW y \in L[m]
      PROVE  y \in U \ {b} /\ Q[y] = m /\ lev[m] = lev[y] + 1
  <2>1. b \notin K[b] /\ \A z \in U : z # P[b] => b \notin K[z]
    BY <1>1 DEF Linked
  <2>2. CASE m = a
    BY <1>1, <2>1, <2>2 DEF Linked
  <2>3. CASE m # a
    BY <1>1, <2>1, <2>3 DEF Linked
  <2> QED BY <2>2, <2>3
<1>3. ASSUME NEW y \in U \ {b, r} PROVE Q[y] \in U \ {b} /\ y \in L[Q[y]]
  <2>1. P[y] \in U /\ y \in K[P[y]]
    BY DEF Linked
  <2>2. CASE y \in K[b]
    BY <2>2
  <2>3. CASE y \notin K[b]
    BY <1>1, <2>1, <2>3
  <2> QED BY <2>2, <2>3
<1>4. r \in U /\ r \notin K[b] /\ Q[r] = 0
  BY <1>1 DEF Linked, PageNumber
<1> QED BY <1>2, <1>3, <1>4 DEF Linked

\* A root with one child gives way to it.
DownLinks(K, P, U, r, lev, Q, x) ==
  /\ Linked(K, P, U, r, lev, {})
  /\ K[r] = {x}
  /\ \A m \in U : Q[m] = IF m = x THEN 0 ELSE P[m]

LEMMA LinkedDown ==
  ASSUME NEW K, NEW P, NEW U, NEW r, NEW lev, NEW Q, NEW x, DownLinks(K, P, U, r, lev, Q, x)
  PROVE  Linked(K, Q, U \ {r}, x, lev, {})
<1> USE DEF DownLinks
<1>1. x \in U /\ x # r /\ P[x] = r /\ r \in PageNumber /\ P[r] = 0 /\ r \in U
  BY DEF Linked, PageNumber
<1>2. ASSUME NEW m \in U \ {r}, NEW y \in K[m]
      PROVE  y \in U \ {r} /\ Q[y] = m /\ lev[m] = lev[y] + 1
  <2>1. y \in U /\ P[y] = m /\ lev[m] = lev[y] + 1
    BY DEF Linked
  <2>2. y # x /\ m # 0
    BY <1>1, <2>1 DEF Linked, PageNumber
  <2> QED BY <1>1, <2>1, <2>2
<1>3. ASSUME NEW y \in U \ {r, x} PROVE Q[y] \in U \ {r} /\ y \in K[Q[y]]
  BY <1>1 DEF Linked
<1> QED BY <1>1, <1>2, <1>3 DEF Linked

-----------------------------------------------------------------------------
(* Trees.                                                                  *)

Kids(p) == [n \in PageNumber |-> Range(p[n].children)]

Par(p) == [n \in PageNumber |-> p[n].parent]

Used(fr) == PageNumber \ Range(fr)

\* What holds of a page by itself.
PageOK(g) ==
  /\ g \in Page
  /\ g.leaf => g.children = << >> /\ g.space + SpaceFor(g.keys) = MAX_FREE_SPACE
  /\ ~g.leaf => /\ Len(g.children) = Len(g.keys) + 1 /\ IsInjective(g.children)
                /\ Len(g.keys) <= MAX_KEY_NUMBER

\* A page other than the root has enough entries, and the root, if it is not a leaf, two.
Enough(g) == IF g.leaf THEN g.space < THRESHOLD
             ELSE Len(g.keys) + 1 >= MAX_KEY_NUMBER \div 2

Rooted(g) == g.leaf \/ Len(g.keys) >= 1

\* A page is full enough, unless it is lean, and at level 0 if it is a leaf.
FullAt(p, r, lev, lean, n) ==
  /\ PageOK(p[n])
  /\ p[n].leaf <=> lev[n] = 0
  /\ n \notin lean => IF n = r THEN Rooted(p[n]) ELSE Enough(p[n])

Stocked(p, U, r, lev, lean) == \A n \in U : FullAt(p, r, lev, lean, n)

Tree(p, r, fr, lev, out, lean) ==
  /\ p \in [PageNumber -> Page] /\ fr \in Seq(PageNumber) /\ IsInjective(fr)
  /\ Linked(Kids(p), Par(p), Used(fr), r, lev, out)
  /\ Stocked(p, Used(fr), r, lev, lean)

LEMMA PageFields ==
  ASSUME NEW g \in Page
  PROVE  /\ g.leaf \in BOOLEAN /\ g.parent \in Nat /\ g.keys \in Seq(Key)
         /\ g.children \in Seq(Nat \ {0}) /\ g.right \in Nat /\ g.space \in Nat
BY DEF Page

LEMMA PageNumbers ==
  /\ P_NUMBER \in Nat /\ P_NUMBER - 1 \in Nat \ {0} /\ PageNumber \subseteq Nat \ {0}
  /\ 0 \notin PageNumber /\ IsFiniteSet(PageNumber) /\ Cardinality(PageNumber) = P_NUMBER - 1
<1>1. P_NUMBER \in Nat /\ P_NUMBER - 1 \in Nat \ {0}
  BY BPlusTreeAssumption
<1>2. Cardinality(1 .. P_NUMBER - 1) = P_NUMBER - 1 /\ IsFiniteSet(1 .. P_NUMBER - 1)
  BY <1>1, FS_Interval
<1> QED BY <1>1, <1>2 DEF PageNumber

\* What a tree says of a page of it.
LEMMA TreePage ==
  ASSUME NEW p, NEW r, NEW fr, NEW lev, NEW out, NEW lean, Tree(p, r, fr, lev, out, lean),
         NEW n \in Used(fr)
  PROVE  /\ n \in PageNumber /\ p[n] \in Page /\ PageOK(p[n]) /\ lev[n] \in Nat
         /\ p[n].leaf <=> lev[n] = 0
         /\ n \notin lean => IF n = r THEN Rooted(p[n]) ELSE Enough(p[n])
         /\ \A x \in Range(p[n].children) :
              /\ x \in Used(fr) /\ x \notin out /\ x # r /\ p[x].parent = n /\ lev[n] = lev[x] + 1
              /\ x # n
         /\ n # r /\ n \notin out => /\ p[n].parent \in Used(fr)
                                  /\ n \in Range(p[p[n].parent].children)
                                  /\ ~p[p[n].parent].leaf
                                  /\ lev[p[n].parent] = lev[n] + 1
         /\ n # r /\ n \notin out => p[n].parent # 0
         /\ p[r].parent = 0 /\ r \in Used(fr) /\ r \in PageNumber
<1>1. n \in PageNumber /\ p[n] \in Page /\ Used(fr) \subseteq PageNumber
  BY DEF Used, Tree
<1>2. PageOK(p[n]) /\ (p[n].leaf <=> lev[n] = 0)
      /\ (n \notin lean => IF n = r THEN Rooted(p[n]) ELSE Enough(p[n]))
  BY DEF Tree, Stocked, FullAt
<1>3. /\ r \in Used(fr) /\ p[r].parent = 0
  BY <1>1 DEF Tree, Linked, Par
<1>4. \A m \in Used(fr) : Kids(p)[m] = Range(p[m].children) /\ Par(p)[m] = p[m].parent
  BY <1>1 DEF Kids, Par
<1>5. \A m \in Used(fr) : \A x \in Range(p[m].children) :
        x \in Used(fr) /\ x \notin out /\ p[x].parent = m /\ lev[m] = lev[x] + 1
  BY <1>4 DEF Tree, Linked
<1>6. \A m \in Used(fr) : lev[m] \in Nat
  BY DEF Tree, Linked
<1>7. n # r /\ n \notin out => p[n].parent \in Used(fr) /\ n \in Range(p[p[n].parent].children)
  BY <1>4 DEF Tree, Linked
<1>8. n # r /\ n \notin out => ~p[p[n].parent].leaf
  <2> SUFFICES ASSUME n # r, n \notin out PROVE ~p[p[n].parent].leaf
    OBVIOUS
  <2>1. lev[p[n].parent] = lev[n] + 1 /\ lev[n] \in Nat
    BY <1>5, <1>6, <1>7
  <2>2. p[p[n].parent].leaf <=> lev[p[n].parent] = 0
    BY <1>7 DEF Tree, Stocked, FullAt
  <2> QED BY <2>1, <2>2
<1>9. \A x \in Range(p[n].children) : x # n
  BY <1>5, <1>6
<1>10. 0 \notin Used(fr)
  BY <1>1, PageNumbers
<1>11. \A x \in Range(p[n].children) : x # r
  BY <1>3, <1>5, <1>10
<1> QED BY <1>1, <1>2, <1>3, <1>5, <1>6, <1>7, <1>8, <1>9, <1>10, <1>11

\* The levels have a bound, and the root is at the top.
LEMMA Bounded ==
  ASSUME NEW U, U \subseteq PageNumber, NEW lev, \A n \in U : lev[n] \in Nat
  PROVE  \E b \in Nat : \A n \in U : lev[n] <= b
<1> DEFINE Good == {j \in Nat : \E b \in Nat : \A n \in U : n <= j => lev[n] <= b}
<1>1. U \subseteq Nat \ {0}
  BY PageNumbers
<1>2. 0 \in Good
  BY <1>1
<1>3. ASSUME NEW j \in Nat, j \in Good PROVE j + 1 \in Good
  <2>1. PICK b \in Nat : \A n \in U : n <= j => lev[n] <= b
    BY <1>3
  <2>2. CASE j + 1 \notin U
    <3>1. \A n \in U : n <= j + 1 => lev[n] <= b
      BY <1>1, <2>1, <2>2
    <3> QED BY <3>1
  <2>3. CASE j + 1 \in U
    <3> DEFINE c == b + lev[j + 1]
    <3>1. c \in Nat /\ b <= c /\ lev[j + 1] <= c /\ lev[j + 1] \in Nat
      BY <2>3
    <3>2. ASSUME NEW n \in U, n <= j + 1 PROVE lev[n] <= c
      <4>1. n = j + 1 \/ n <= j
        BY <1>1, <3>2
      <4>2. n <= j => lev[n] <= b /\ lev[n] \in Nat
        BY <2>1
      <4> QED BY <3>1, <4>1, <4>2
    <3> QED BY <3>1, <3>2
  <2> QED BY <2>2, <2>3
<1> HIDE DEF Good
<1>4. P_NUMBER \in Good
  BY <1>2, <1>3, Counting, PageNumbers
<1>5. PICK b \in Nat : \A n \in U : n <= P_NUMBER => lev[n] <= b
  BY <1>4 DEF Good
<1>6. \A n \in U : n <= P_NUMBER
  BY PageNumbers DEF PageNumber
<1> QED BY <1>5, <1>6

LEMMA RootOnTop ==
  ASSUME NEW p, NEW r, NEW fr, NEW lev, NEW lean, Tree(p, r, fr, lev, {}, lean)
  PROVE  \A n \in Used(fr) : lev[n] <= lev[r]
<1>1. /\ Used(fr) \subseteq PageNumber /\ r \in Used(fr) /\ \A n \in Used(fr) : lev[n] \in Nat
  BY DEF Tree, Linked
<1>2. PICK b \in Nat : \A n \in Used(fr) : lev[n] <= b
  BY <1>1, Bounded
<1> DEFINE D == {b - lev[n] : n \in Used(fr)}
<1>3. D \subseteq Nat /\ D # {}
  BY <1>1, <1>2
<1>4. PICK d \in D : \A e \in D : d <= e
  BY <1>3, Smallest
<1>5. PICK m \in Used(fr) : d = b - lev[m]
  OBVIOUS
<1>6. \A n \in Used(fr) : b - lev[m] <= b - lev[n]
  BY <1>4, <1>5
<1>7. \A n \in Used(fr) : lev[n] <= lev[m]
  BY <1>1, <1>6
<1>8. m = r
  <2> SUFFICES ASSUME m # r PROVE FALSE
    OBVIOUS
  <2>1. p[m].parent \in Used(fr) /\ lev[p[m].parent] = lev[m] + 1 /\ lev[m] \in Nat
    BY TreePage
  <2> QED BY <1>7, <2>1
<1> QED BY <1>7, <1>8

\* Each level has a page, so there are no more levels than pages.
LEMMA FewLevels ==
  ASSUME NEW p, NEW r, NEW fr, NEW lev, NEW lean, Tree(p, r, fr, lev, {}, lean)
  PROVE  lev[r] + 1 <= P_NUMBER - 1
<1>1. r \in Used(fr) /\ lev[r] \in Nat /\ Used(fr) \subseteq PageNumber
  BY DEF Tree, Linked
<1> DEFINE Missing == {i \in Nat : i <= lev[r] /\ \A n \in Used(fr) : lev[n] # lev[r] - i}
<1>2. Missing = {}
  <2> SUFFICES ASSUME Missing # {} PROVE FALSE
    OBVIOUS
  <2>1. PICK i \in Missing : \A j \in Missing : i <= j
    BY Smallest
  <2>2. i # 0
    BY <1>1
  <2>3. i - 1 \in Nat /\ i - 1 <= lev[r] /\ i - 1 \notin Missing /\ lev[r] - (i - 1) = (lev[r] - i) + 1
        /\ lev[r] - i \in Nat
    BY <1>1, <2>1, <2>2
  <2>4. PICK n \in Used(fr) : lev[n] = (lev[r] - i) + 1
    BY <2>3
  <2>5. /\ ~p[n].leaf /\ PageOK(p[n]) /\ p[n] \in Page
        /\ \A x \in Range(p[n].children) : x \in Used(fr) /\ lev[n] = lev[x] + 1 /\ lev[x] \in Nat
    <3>1. \A x \in Range(p[n].children) : x \in Used(fr) /\ lev[n] = lev[x] + 1
      BY TreePage
    <3>2. \A x \in Used(fr) : lev[x] \in Nat
      BY TreePage
    <3>3. (p[n].leaf <=> lev[n] = 0) /\ PageOK(p[n]) /\ p[n] \in Page
      BY TreePage
    <3> QED BY <2>3, <2>4, <3>1, <3>2, <3>3
  <2>6. /\ Len(p[n].children) = Len(p[n].keys) + 1 /\ p[n].keys \in Seq(Key)
        /\ p[n].children \in Seq(Nat \ {0})
    BY <2>5, PageFields DEF PageOK
  <2>7. 1 \in 1 .. Len(p[n].children)
    BY <2>6
  <2>8. p[n].children[1] \in Range(p[n].children)
    BY <2>6, <2>7, InRange
  <2>9. p[n].children[1] \in Used(fr) /\ lev[p[n].children[1]] = lev[r] - i
    BY <2>3, <2>4, <2>5, <2>8
  <2> QED BY <2>1, <2>9
<1> DEFINE at(l) == CHOOSE n \in Used(fr) : lev[n] = l
           f == [l \in 0 .. lev[r] |-> at(l)]
<1>3. \A l \in 0 .. lev[r] : at(l) \in PageNumber /\ lev[at(l)] = l
  <2> SUFFICES ASSUME NEW l \in 0 .. lev[r] PROVE at(l) \in PageNumber /\ lev[at(l)] = l
    OBVIOUS
  <2>1. lev[r] - l \in Nat /\ lev[r] - l <= lev[r] /\ lev[r] - (lev[r] - l) = l
    BY <1>1
  <2>2. \E n \in Used(fr) : lev[n] = l
    BY <1>2, <2>1
  <2> QED BY <1>1, <2>2
<1> HIDE DEF at
<1>4. f \in Injection(0 .. lev[r], PageNumber)
  <2>1. f \in [0 .. lev[r] -> PageNumber]
    BY <1>3
  <2>2. \A i, j \in 0 .. lev[r] : f[i] = f[j] => i = j
    BY <1>3
  <2> QED BY <2>1, <2>2 DEF Injection, IsInjective
<1>5. IsFiniteSet(0 .. lev[r]) /\ Cardinality(0 .. lev[r]) = lev[r] + 1
  BY <1>1, FS_Interval, SMTT(30)
<1>6. Cardinality(0 .. lev[r]) <= Cardinality(PageNumber)
  BY <1>4, PageNumbers, FS_Injection
<1> QED BY <1>5, <1>6, PageNumbers

-----------------------------------------------------------------------------
(* The ways down and up.                                                   *)

\* The pages in use are those of a tree.
Grown(lev) == Tree(page, root, free, lev, {}, {})

LEMMA UsedIsInUse == Used(free) = InUse
BY DEF Used, InUse

\* The walk up from a page counts the levels above it.
LEMMA Depths ==
  ASSUME NEW lev, Grown(lev)
  PROVE  \A n \in InUse : Depth[n] = lev[root] - lev[n]
<1> DEFINE Body(d) == [n \in InUse |-> IF page[n].parent = 0 THEN 0 ELSE d[page[n].parent] + 1]
           e == [n \in InUse |-> lev[root] - lev[n]]
<1>1. Depth = CHOOSE d : d = Body(d)
  BY DEF Depth
<1>2. /\ root \in InUse /\ page[root].parent = 0
      /\ \A n \in InUse : lev[n] \in Nat /\ lev[n] <= lev[root]
      /\ \A n \in InUse : n # root => /\ page[n].parent # 0 /\ page[n].parent \in InUse
                                      /\ lev[page[n].parent] = lev[n] + 1
  <2>1. root \in InUse /\ page[root].parent = 0 /\ \A n \in InUse : lev[n] \in Nat
    BY UsedIsInUse, PageNumbers DEF Grown, Tree, Linked, Used, Par
  <2>2. \A n \in InUse : lev[n] <= lev[root]
    BY RootOnTop, UsedIsInUse DEF Grown
  <2>3. \A n \in InUse : n # root => /\ page[n].parent # 0 /\ page[n].parent \in InUse
                                     /\ lev[page[n].parent] = lev[n] + 1
    BY TreePage, UsedIsInUse DEF Grown
  <2> QED BY <2>1, <2>2, <2>3
<1>3. e = Body(e)
  <2>1. \A n \in InUse : e[n] = IF page[n].parent = 0 THEN 0 ELSE e[page[n].parent] + 1
    BY <1>2
  <2> QED BY <2>1
<1>4. Depth = Body(Depth)
  BY <1>1, <1>3
<1>5. \A n \in InUse : Depth[n] = IF page[n].parent = 0 THEN 0 ELSE Depth[page[n].parent] + 1
  BY <1>4
<1> DEFINE Good == {i \in Nat : \A n \in InUse : lev[root] - lev[n] = i => Depth[n] = i}
<1>6. 0 \in Good
  <2> SUFFICES ASSUME NEW n \in InUse, lev[root] - lev[n] = 0 PROVE Depth[n] = 0
    OBVIOUS
  <2>1. n = root
    <3> SUFFICES ASSUME n # root PROVE FALSE
      OBVIOUS
    <3>1. lev[page[n].parent] = lev[n] + 1 /\ lev[page[n].parent] <= lev[root]
      BY <1>2
    <3> QED BY <1>2, <3>1
  <2> QED BY <1>2, <1>5, <2>1
<1>7. ASSUME NEW i \in Nat, i \in Good PROVE i + 1 \in Good
  <2> SUFFICES ASSUME NEW n \in InUse, lev[root] - lev[n] = i + 1 PROVE Depth[n] = i + 1
    OBVIOUS
  <2>1. n # root
    BY <1>2
  <2>2. page[n].parent \in InUse /\ lev[root] - lev[page[n].parent] = i
    BY <1>2, <2>1
  <2>3. Depth[page[n].parent] = i
    BY <1>7, <2>2
  <2> QED BY <1>2, <1>5, <2>1, <2>3
<1> HIDE DEF Good
<1>8. Nat \subseteq Good
  BY <1>6, <1>7, Counting
<1>9. \A n \in InUse : lev[root] - lev[n] \in Good
  BY <1>2, <1>8
<1> QED BY <1>9 DEF Good

LEMMA UpTo ==
  ASSUME NEW m \in Nat
  PROVE  IsFiniteSet(1 .. m) /\ Cardinality(1 .. m) = m
BY FS_Interval

\* An internal page sends every key to one of its children.
LEMMA Routed ==
  ASSUME NEW keys \in Seq(Key), NEW k
  PROVE  Route(keys, k) \in 1 .. Len(keys) + 1
<1> DEFINE S == {i \in DOMAIN keys : keys[i] <= k}
<1>1. DOMAIN keys = 1 .. Len(keys) /\ Len(keys) \in Nat
  BY InRange
<1>2. IsFiniteSet(1 .. Len(keys)) /\ Cardinality(1 .. Len(keys)) = Len(keys)
  BY <1>1, FS_Interval, SMTT(30)
<1>3. S \in SUBSET (1 .. Len(keys))
  BY <1>1
<1>4. IsFiniteSet(S) /\ Cardinality(S) <= Len(keys)
  BY <1>2, <1>3, FS_Subset
<1>5. Cardinality(S) \in Nat
  BY <1>4, FS_CardinalityType
<1>6. Route(keys, k) = Cardinality(S) + 1
  BY DEF Route
<1> HIDE DEF S
<1> QED BY <1>1, <1>4, <1>5, <1>6

LEMMA RouteIsChild ==
  ASSUME NEW lev, Grown(lev), NEW n \in InUse, ~page[n].leaf, NEW k
  PROVE  /\ page[n].children[Route(page[n].keys, k)] \in InUse
         /\ lev[n] = lev[page[n].children[Route(page[n].keys, k)]] + 1
         /\ lev[page[n].children[Route(page[n].keys, k)]] \in Nat
<1>1. n \in Used(free)
  BY UsedIsInUse
<1>2. PageOK(page[n]) /\ page[n] \in Page
  BY <1>1, TreePage DEF Grown
<1>3. /\ page[n].keys \in Seq(Key) /\ page[n].children \in Seq(Nat \ {0})
      /\ Len(page[n].children) = Len(page[n].keys) + 1
  BY <1>2, PageFields DEF PageOK
<1> DEFINE i == Route(page[n].keys, k)
<1>4. i \in 1 .. Len(page[n].children)
  BY <1>3, Routed
<1> HIDE DEF i
<1>5. page[n].children[i] \in Range(page[n].children)
  BY <1>3, <1>4, InRange
<1>6. \A x \in Range(page[n].children) : x \in Used(free) /\ lev[n] = lev[x] + 1
  BY <1>1, TreePage DEF Grown
<1>7. page[n].children[i] \in Used(free) /\ lev[n] = lev[page[n].children[i]] + 1
  BY <1>5, <1>6
<1>8. lev[page[n].children[i]] \in Nat
  BY <1>7, TreePage DEF Grown
<1> QED BY <1>7, <1>8, UsedIsInUse DEF i

\* The walk down ends at a leaf, and stays where its steps stay.
LEMMA FindsWithin ==
  ASSUME NEW lev, Grown(lev), NEW k, NEW I \in SUBSET InUse, root \in I,
         \A n \in I : ~page[n].leaf => page[n].children[Route(page[n].keys, Int32(k))] \in I
  PROVE  FindLeaf(k) \in I /\ page[FindLeaf(k)].leaf
<1> DEFINE N == P_NUMBER - 1
           child(n) == page[n].children[Route(page[n].keys, Int32(k))]
           On(f, i) == [n \in PageNumber |-> IF i = 0 \/ page[n].leaf THEN n
                                             ELSE f[i - 1][child(n)]]
           Upto(f, m) == f = [i \in 0 .. m |-> On(f, i)]
           Good == {m \in Nat : \E f : Upto(f, m)}
           down == CHOOSE f : f = [i \in 0 .. N |-> On(f, i)]
<1>1. FindLeaf(k) = down[N][root] /\ N \in Nat
  BY PageNumbers DEF FindLeaf
<1>2. /\ root \in InUse /\ InUse \subseteq PageNumber
      /\ \A n \in InUse : lev[n] \in Nat
      /\ \A n \in InUse : page[n].leaf <=> lev[n] = 0
      /\ lev[root] <= N
  <2>1. root \in InUse /\ InUse \subseteq PageNumber /\ \A n \in InUse : lev[n] \in Nat
    BY UsedIsInUse DEF Grown, Tree, Linked, InUse
  <2>2. \A n \in InUse : page[n].leaf <=> lev[n] = 0
    BY TreePage, UsedIsInUse DEF Grown
  <2>3. lev[root] + 1 <= N
    BY FewLevels DEF Grown
  <2>4. lev[root] \in Nat
    BY <2>1, SMTT(30)
  <2> HIDE DEF N
  <2>5. lev[root] <= N
    BY SMTT(30), <1>1, <2>3, <2>4
  <2> QED BY <2>1, <2>2, <2>5
<1>3. \A n \in I : ~page[n].leaf => child(n) \in I /\ lev[n] = lev[child(n)] + 1
  BY RouteIsChild
<1> HIDE DEF child, N
<1>4. 0 \in Good
  <2> DEFINE f == [i \in 0 .. 0 |-> [n \in PageNumber |-> n]]
  <2>1. \A i \in 0 .. 0 : i = 0
    OBVIOUS
  <2>2. Upto(f, 0)
    BY <2>1
  <2> QED BY <2>2
<1>5. ASSUME NEW m \in Nat, m \in Good PROVE m + 1 \in Good
  <2>1. PICK f : Upto(f, m)
    BY <1>5
  <2> DEFINE g == [i \in 0 .. m + 1 |-> On(f, i)]
  <2>2. \A i \in 0 .. m : g[i] = f[i]
    <3>1. \A i \in 0 .. m : i \in 0 .. m + 1
      OBVIOUS
    <3>2. \A i \in 0 .. m : f[i] = On(f, i)
      BY <2>1
    <3> HIDE DEF On
    <3> QED BY <3>1, <3>2
  <2>3. ASSUME NEW i \in 0 .. m + 1 PROVE g[i] = On(g, i)
    <3>1. i # 0 => i - 1 \in 0 .. m
      OBVIOUS
    <3>2. g[i] = On(f, i)
      OBVIOUS
    <3> HIDE DEF g
    <3> QED BY <2>2, <3>1, <3>2
  <2>4. Upto(g, m + 1)
    BY <2>3
  <2> HIDE DEF Upto, g
  <2> QED BY <2>4
<1> HIDE DEF Good
<1>6. N \in Good
  BY <1>1, <1>4, <1>5, Counting
<1>7. \A i \in 0 .. N : down[i] = On(down, i)
  <2>1. down = [i \in 0 .. N |-> On(down, i)]
    BY <1>6 DEF Good
  <2> HIDE DEF down, On
  <2> QED BY <2>1
<1> HIDE DEF down, Upto
<1> DEFINE Ends == {l \in Nat : l <= N => \A n \in I : lev[n] <= l =>
                                    down[l][n] \in I /\ page[down[l][n]].leaf}
<1>8. 0 \in Ends
  <2>1. 0 \in 0 .. N
    BY <1>1
  <2>2. \A n \in PageNumber : down[0][n] = n
    BY <1>7, <2>1
  <2>3. \A n \in InUse : lev[n] <= 0 => page[n].leaf
    BY <1>2
  <2> QED BY <1>2, <2>2, <2>3
<1>9. ASSUME NEW l \in Nat, l \in Ends PROVE l + 1 \in Ends
  <2> SUFFICES ASSUME l + 1 <= N, NEW n \in I, lev[n] <= l + 1
               PROVE  down[l + 1][n] \in I /\ page[down[l + 1][n]].leaf
    OBVIOUS
  <2>1. l <= N /\ l + 1 \in 0 .. N /\ l + 1 # 0 /\ (l + 1) - 1 = l
    BY <1>1
  <2>2. down[l + 1][n] = IF page[n].leaf THEN n ELSE down[l][child(n)]
    <3>1. n \in PageNumber
      BY <1>2
    <3>2. down[l + 1] = On(down, l + 1)
      <4> HIDE DEF On
      <4> QED BY <1>7, <2>1
    <3>3. On(down, l + 1)[n] = IF page[n].leaf THEN n ELSE down[(l + 1) - 1][child(n)]
      BY <2>1, <3>1
    <3> HIDE DEF On
    <3> QED BY <2>1, <3>2, <3>3
  <2>3. CASE page[n].leaf
    BY <2>2, <2>3
  <2>4. CASE ~page[n].leaf
    <3>1. child(n) \in I /\ lev[n] = lev[child(n)] + 1 /\ lev[child(n)] \in Nat
      BY <1>2, <1>3, <2>4
    <3>2. lev[child(n)] <= l
      BY <3>1
    <3> QED BY <1>9, <2>1, <2>2, <2>4, <3>1, <3>2
  <2> QED BY <2>3, <2>4
<1> HIDE DEF Ends
<1>10. N \in Ends
  BY <1>1, <1>8, <1>9, Counting
<1> QED BY <1>1, <1>2, <1>10 DEF Ends

LEMMA FindsLeaf ==
  ASSUME NEW lev, Grown(lev), NEW k
  PROVE  FindLeaf(k) \in InUse /\ page[FindLeaf(k)].leaf
<1>1. root \in InUse
  BY UsedIsInUse DEF Grown, Tree, Linked
<1>2. \A n \in InUse : ~page[n].leaf => page[n].children[Route(page[n].keys, Int32(k))] \in InUse
  BY RouteIsChild
<1> QED BY <1>1, <1>2, FindsWithin

-----------------------------------------------------------------------------
(* What a tree says of the properties.                                     *)

LEMMA TreeIsShaped ==
  ASSUME NEW lev, Grown(lev)
  PROVE  TreeShape /\ IsInjective(free)
<1>1. root \in InUse /\ page[root].parent = 0 /\ root # 0 /\ IsInjective(free)
  <2>1. root \in Used(free) /\ IsInjective(free)
    BY DEF Grown, Tree, Linked
  <2>2. page[root].parent = 0
    BY <2>1, TreePage DEF Grown
  <2> QED BY <2>1, <2>2, UsedIsInUse, PageNumbers DEF Used
<1>2. ASSUME NEW n \in InUse \ {root}
      PROVE  {m \in InUse : n \in Children(m)} = {page[n].parent}
  <2>1. page[n].parent \in InUse /\ n \in Children(page[n].parent)
    BY TreePage, UsedIsInUse DEF Grown, Children
  <2>2. ASSUME NEW m \in InUse, n \in Children(m) PROVE m = page[n].parent
    BY <2>2, TreePage, UsedIsInUse DEF Grown, Children
  <2> QED BY <2>1, <2>2
<1>3. ASSUME NEW n \in InUse, ~page[n].leaf
      PROVE  /\ Len(page[n].children) = Len(page[n].keys) + 1
             /\ Cardinality(Children(n)) = Len(page[n].children)
  <2>1. PageOK(page[n]) /\ page[n] \in Page
    BY TreePage, UsedIsInUse DEF Grown
  <2>2. /\ Len(page[n].children) = Len(page[n].keys) + 1 /\ IsInjective(page[n].children)
        /\ page[n].children \in Seq(Nat \ {0})
    BY <1>3, <2>1, PageFields DEF PageOK
  <2> DEFINE q == page[n].children
             S == 1 .. Len(q)
  <2> HIDE DEF q
  <2>3. DOMAIN q = S /\ Len(q) \in Nat /\ IsFiniteSet(S) /\ Cardinality(S) = Len(q)
    <3>1. q \in Seq(Nat \ {0})
      BY <2>2 DEF q
    <3>2. DOMAIN q = S /\ Len(q) \in Nat
      BY <3>1, InRange
    <3> QED BY <3>2, UpTo
  <2>4. Children(n) = Range(q) /\ Range(q) = {q[i] : i \in S}
    BY <2>2, InRange DEF Children, q, Range
  <2>5. q \in [S -> Range(q)] /\ \A i, j \in S : q[i] = q[j] => i = j
    <3>1. q \in [S -> Nat \ {0}]
      BY <2>2 DEF q
    <3>2. \A i \in S : q[i] \in Range(q)
      BY <2>4
    <3>3. \A i, j \in S : q[i] = q[j] => i = j
      BY <2>2, Injective DEF q
    <3> QED BY <3>1, <3>2, <3>3
  <2>6. q \in Bijection(S, Range(q))
    BY <2>3, <2>4, <2>5 DEF Bijection, Injection, Surjection, IsInjective
  <2>7. Cardinality(Range(q)) = Cardinality(S)
    <3>1. ExistsBijection(S, Range(q))
      BY <2>6 DEF ExistsBijection
    <3> QED BY <2>3, <3>1, FS_Bijection
  <2> QED BY <2>2, <2>3, <2>4, <2>7 DEF q
<1>4. ASSUME NEW m \in InUse, NEW n \in InUse, page[m].leaf, page[n].leaf
      PROVE  Depth[m] = Depth[n]
  <2>1. lev[m] = 0 /\ lev[n] = 0
    BY <1>4, TreePage, UsedIsInUse DEF Grown
  <2> QED BY <2>1, Depths
<1> QED BY <1>1, <1>2, <1>3, <1>4 DEF TreeShape

LEMMA TreeIsFull ==
  ASSUME NEW lev, Grown(lev)
  PROVE  FillKept
<1>1. ASSUME NEW n \in InUse, page[n].leaf
      PROVE  page[n].space + SpaceFor(page[n].keys) = MAX_FREE_SPACE
  BY <1>1, TreePage, UsedIsInUse DEF Grown, PageOK
<1>2. ASSUME NEW n \in InUse \ {root} PROVE Enough(page[n])
  BY TreePage, UsedIsInUse DEF Grown
<1> QED BY <1>1, <1>2 DEF FillKept, SpaceAgrees, Enough

-----------------------------------------------------------------------------
(* The search for a child.                                                 *)

\* The middle of what is left of a search, which goes on beside it.
LEMMA Middle ==
  ASSUME NEW L \in Nat \ {0}, NEW l \in 1 .. L, NEW r \in 0 .. L - 1, l <= r
  PROVE  /\ (l + r) \div 2 \in 1 .. L
         /\ (l + r) \div 2 + 1 \in 1 .. L /\ l <= (l + r) \div 2 /\ (l + r) \div 2 <= r
         /\ (l + r) \div 2 - 1 \in 0 .. L - 1
<1> DEFINE m == (l + r) \div 2
<1>1. m \in Int /\ 2 * m <= l + r /\ l + r <= 2 * m + 1
  OBVIOUS
<1> HIDE DEF m
<1>2. l <= m /\ m <= r
  BY <1>1
<1>3. m \in 1 .. L /\ m + 1 \in 1 .. L /\ m - 1 \in 0 .. L - 1
  BY <1>2, <1>1
<1> QED BY <1>2, <1>3 DEF m

LEMMA PointerFound ==
  ASSUME NEW q \in Seq(Nat \ {0}), Len(q) > 0, NEW x
  PROVE  PointerIndex(q, x) \in 1 .. Len(q)
<1> DEFINE L == Len(q)
           W == (1 .. L) \X (0 .. L - 1)
           mid(w) == (w[1] + w[2]) \div 2
           On(s, w) == IF w[1] > w[2] THEN 1
                       ELSE IF q[mid(w)] = x THEN mid(w)
                       ELSE IF q[mid(w)] < x THEN s[<<mid(w) + 1, w[2]>>]
                       ELSE s[<<w[1], mid(w) - 1>>]
           Left(n) == {w \in W : w[2] - w[1] < n}
           Upto(s, n) == s = [w \in Left(n) |-> On(s, w)]
           Good == {n \in Nat : \E s : Upto(s, n)}
           search == CHOOSE s : s = [w \in W |-> On(s, w)]
<1>1. PointerIndex(q, x) = search[<<1, L - 1>>]
  BY DEF PointerIndex
<1>2. L \in Nat \ {0}
  OBVIOUS
<1> HIDE DEF L
<1>3. \A w \in W : w[1] \in 1 .. L /\ w[2] \in 0 .. L - 1 /\ w[1] \in Int /\ w[2] \in Int
  BY <1>2
<1>4. ASSUME NEW w \in W, ~(w[1] > w[2])
      PROVE  /\ <<mid(w) + 1, w[2]>> \in W /\ <<w[1], mid(w) - 1>> \in W
             /\ mid(w) \in 1 .. L /\ mid(w) \in Int
             /\ w[2] - (mid(w) + 1) < w[2] - w[1] /\ (mid(w) - 1) - w[1] < w[2] - w[1]
  <2>1. w[1] <= w[2]
    BY <1>3, <1>4
  <2>2. /\ mid(w) \in 1 .. L /\ mid(w) + 1 \in 1 .. L /\ mid(w) - 1 \in 0 .. L - 1
        /\ w[1] <= mid(w) /\ mid(w) <= w[2]
    BY <1>2, <1>3, <2>1, Middle
  <2> HIDE DEF mid
  <2>3. mid(w) \in Int
    BY <1>2, <2>2
  <2> QED BY <1>3, <2>2, <2>3
<1> HIDE DEF W, mid
<1>5. 0 \in Good
  <2> DEFINE s == [w \in Left(0) |-> 1]
  <2>1. \A w \in Left(0) : w[1] > w[2]
    BY <1>3
  <2>2. Upto(s, 0)
    BY <2>1
  <2> QED BY <2>2
<1>6. ASSUME NEW n \in Nat, n \in Good PROVE n + 1 \in Good
  <2>1. PICK s : Upto(s, n)
    BY <1>6
  <2> DEFINE t == [w \in Left(n + 1) |-> On(s, w)]
  <2>2. \A w \in Left(n) : w \in Left(n + 1) /\ t[w] = s[w]
    <3>1. \A w \in Left(n) : w \in Left(n + 1)
      BY <1>3
    <3>2. \A w \in Left(n) : s[w] = On(s, w)
      BY <2>1
    <3> HIDE DEF Left, On
    <3> QED BY <3>1, <3>2
  <2>3. ASSUME NEW w \in Left(n + 1) PROVE t[w] = On(t, w)
    <3>1. w \in W /\ w[2] - w[1] < n + 1
      OBVIOUS
    <3>2. ~(w[1] > w[2]) => <<mid(w) + 1, w[2]>> \in Left(n) /\ <<w[1], mid(w) - 1>> \in Left(n)
      <4> SUFFICES ASSUME ~(w[1] > w[2])
                   PROVE  <<mid(w) + 1, w[2]>> \in Left(n) /\ <<w[1], mid(w) - 1>> \in Left(n)
        OBVIOUS
      <4>1. w[1] \in Int /\ w[2] \in Int /\ mid(w) \in Int
        BY <1>3, <1>4, <3>1
      <4>2. /\ <<mid(w) + 1, w[2]>> \in W /\ <<w[1], mid(w) - 1>> \in W
            /\ w[2] - (mid(w) + 1) < n /\ (mid(w) - 1) - w[1] < n
        BY <1>4, <3>1, <4>1, SMTT(30)
      <4>3. /\ <<mid(w) + 1, w[2]>>[1] = mid(w) + 1 /\ <<mid(w) + 1, w[2]>>[2] = w[2]
            /\ <<w[1], mid(w) - 1>>[1] = w[1] /\ <<w[1], mid(w) - 1>>[2] = mid(w) - 1
        OBVIOUS
      <4> QED BY <4>2, <4>3
    <3>3. ~(w[1] > w[2]) => /\ t[<<mid(w) + 1, w[2]>>] = s[<<mid(w) + 1, w[2]>>]
                            /\ t[<<w[1], mid(w) - 1>>] = s[<<w[1], mid(w) - 1>>]
      BY <2>2, <3>2
    <3>4. t[w] = On(s, w)
      OBVIOUS
    <3> HIDE DEF t
    <3> QED BY <3>3, <3>4
  <2>4. Upto(t, n + 1)
    BY <2>3
  <2> HIDE DEF Upto, t
  <2> QED BY <2>4
<1> HIDE DEF Good
<1>7. Nat \subseteq Good
  BY <1>5, <1>6, Counting
<1>8. \E s : s = [w \in W |-> On(s, w)]
  <2>1. PICK s : Upto(s, L)
    BY <1>2, <1>7 DEF Good
  <2>2. Left(L) = W
    BY <1>2, <1>3
  <2> QED BY <2>1, <2>2
<1>9. \A w \in W : search[w] = On(search, w)
  <2>1. search = [w \in W |-> On(search, w)]
    BY <1>8
  <2> HIDE DEF search, On
  <2> QED BY <2>1
<1> HIDE DEF search
<1> DEFINE Ends == {n \in Nat : \A w \in W : w[2] - w[1] < n => search[w] \in 1 .. L}
<1>10. 0 \in Ends
  <2> SUFFICES ASSUME NEW w \in W, w[2] - w[1] < 0 PROVE search[w] \in 1 .. L
    OBVIOUS
  <2>1. w[1] > w[2]
    BY <1>3
  <2>2. search[w] = 1
    BY <1>9, <2>1
  <2> QED BY <1>2, <2>2
<1>11. ASSUME NEW n \in Nat, n \in Ends PROVE n + 1 \in Ends
  <2> SUFFICES ASSUME NEW w \in W, w[2] - w[1] < n + 1 PROVE search[w] \in 1 .. L
    OBVIOUS
  <2>1. CASE w[1] > w[2]
    <3>1. search[w] = 1
      BY <1>9, <2>1
    <3> QED BY <1>2, <3>1
  <2>2. CASE ~(w[1] > w[2])
    <3>1. w[1] \in Int /\ w[2] \in Int /\ mid(w) \in Int
      BY <1>3, <1>4, <2>2
    <3>2. /\ <<mid(w) + 1, w[2]>> \in W /\ <<w[1], mid(w) - 1>> \in W /\ mid(w) \in 1 .. L
          /\ w[2] - (mid(w) + 1) < n /\ (mid(w) - 1) - w[1] < n
      BY SMTT(30), <1>4, <2>2, <3>1
    <3>3. /\ <<mid(w) + 1, w[2]>>[1] = mid(w) + 1 /\ <<mid(w) + 1, w[2]>>[2] = w[2]
          /\ <<w[1], mid(w) - 1>>[1] = w[1] /\ <<w[1], mid(w) - 1>>[2] = mid(w) - 1
      OBVIOUS
    <3>4. search[<<mid(w) + 1, w[2]>>] \in 1 .. L /\ search[<<w[1], mid(w) - 1>>] \in 1 .. L
      BY <1>11, <3>2, <3>3
    <3>5. search[w] = On(search, w)
      BY <1>9
    <3>6. \/ search[w] = mid(w)
          \/ search[w] = search[<<mid(w) + 1, w[2]>>]
          \/ search[w] = search[<<w[1], mid(w) - 1>>]
      BY <2>2, <3>5
    <3> QED BY <3>2, <3>4, <3>6
  <2> QED BY <2>1, <2>2
<1> HIDE DEF Ends
<1>12. Nat \subseteq Ends
  BY <1>10, <1>11, Counting
<1>13. <<1, L - 1>> \in W /\ <<1, L - 1>>[1] = 1 /\ <<1, L - 1>>[2] = L - 1 /\ (L - 1) - 1 < L
  BY <1>2 DEF W
<1>14. search[<<1, L - 1>>] \in 1 .. L
  BY <1>2, <1>12, <1>13 DEF Ends
<1> QED BY <1>1, <1>14 DEF L

-----------------------------------------------------------------------------
(* The climbs, as sequences of steps.                                      *)

\* The set of the first pages without the last of them.
LEMMA LastOfPages ==
  ASSUME NEW s \in SUBSET PageNumber, s # {}
  PROVE  /\ Max(s) \in s /\ s \ {Max(s)} \in SUBSET PageNumber
         /\ Cardinality(s) \in Nat \ {0} /\ Cardinality(s) <= P_NUMBER - 1
         /\ Cardinality(s \ {Max(s)}) = Cardinality(s) - 1
<1>1. s \in SUBSET (0 .. P_NUMBER) /\ P_NUMBER \in Nat
  BY PageNumbers DEF PageNumber
<1>2. Max(s) \in s
  BY <1>1, Largest
<1>3. IsFiniteSet(s) /\ Cardinality(s) <= P_NUMBER - 1
  BY PageNumbers, FS_Subset
<1>4. Cardinality(s) \in Nat /\ Cardinality(s) # 0
  BY <1>3, FS_CardinalityType, FS_EmptySet
<1>5. Cardinality(s \ {Max(s)}) = Cardinality(s) - 1
  BY <1>2, <1>3, FS_RemoveElement
<1> QED BY <1>2, <1>3, <1>4, <1>5

\* One step of the climb from a split, and one of that of a deletion, as FoldLeft takes
\* them, and the folds over more and more pages.
ClimbStep(d) == IF d.left = 0 THEN d ELSE IntoParent(d)

DeleteStep(d) == IF d.n = 0 THEN d ELSE DeleteEntry(d)

ClimbRound(c, g) ==
  [s \in SUBSET DOMAIN [n \in PageNumber |-> n] |->
     IF s = {} THEN c ELSE ClimbStep(g[s \ {Max(s)}])]

LEMMA ClimbIsRound ==
  ASSUME NEW c
  PROVE  Climb(c) = (CHOOSE g : g = ClimbRound(c, g))[DOMAIN [n \in PageNumber |-> n]]
BY DEF Climb, FoldLeft, MapThenFoldSet, ClimbRound, ClimbStep

LEMMA ClimbSteps ==
  ASSUME NEW c
  PROVE  \E w : /\ w[0] = c /\ \A i \in 1 .. P_NUMBER - 1 : w[i] = ClimbStep(w[i - 1])
               /\ Climb(c) = w[P_NUMBER - 1]
<1> DEFINE N == P_NUMBER - 1
           On(w, i) == IF i = 0 THEN c ELSE ClimbStep(w[i - 1])
           Upto(w, n) == w = [i \in 0 .. n |-> On(w, i)]
           Good == {n \in Nat : \E w : Upto(w, n)}
           S == DOMAIN [n \in PageNumber |-> n]
           More(g, s) == IF s = {} THEN c ELSE ClimbStep(g[s \ {Max(s)}])
           h == CHOOSE g : g = ClimbRound(c, g)
<1>1. N \in Nat \ {0} /\ S = PageNumber /\ S = 1 .. N
  BY PageNumbers DEF PageNumber
<1> HIDE DEF N, S
<1>2. 0 \in Good
  <2> DEFINE w == [i \in 0 .. 0 |-> c]
  <2>1. \A i \in 0 .. 0 : i = 0
    OBVIOUS
  <2>2. Upto(w, 0)
    BY <2>1
  <2> QED BY <2>2
<1>3. ASSUME NEW n \in Nat, n \in Good PROVE n + 1 \in Good
  <2>1. PICK w : Upto(w, n)
    BY <1>3
  <2> DEFINE v == [i \in 0 .. n + 1 |-> On(w, i)]
  <2>2. \A i \in 0 .. n : v[i] = w[i]
    <3>1. \A i \in 0 .. n : i \in 0 .. n + 1
      OBVIOUS
    <3>2. \A i \in 0 .. n : w[i] = On(w, i)
      BY <2>1
    <3> HIDE DEF On
    <3> QED BY <3>1, <3>2
  <2>3. ASSUME NEW i \in 0 .. n + 1 PROVE v[i] = On(v, i)
    <3>1. i # 0 => i - 1 \in 0 .. n
      OBVIOUS
    <3>2. v[i] = On(w, i)
      OBVIOUS
    <3> HIDE DEF v
    <3> QED BY <2>2, <3>1, <3>2
  <2>4. Upto(v, n + 1)
    BY <2>3
  <2> HIDE DEF Upto, v
  <2> QED BY <2>4
<1> HIDE DEF Good
<1>4. N \in Good
  BY <1>1, <1>2, <1>3, Counting
<1>5. PICK w : Upto(w, N)
  BY <1>4 DEF Good
<1>6. \A i \in 0 .. N : w[i] = On(w, i)
  <2> HIDE DEF On
  <2> QED BY <1>5
<1>7. w[0] = c /\ \A i \in 1 .. N : w[i] = ClimbStep(w[i - 1])
  <2>1. \A i \in 1 .. N : i \in 0 .. N /\ i # 0
    BY <1>1
  <2>2. 0 \in 0 .. N
    BY <1>1
  <2> QED BY <1>6, <2>1, <2>2
<1> HIDE DEF Upto
<1> DEFINE e == [s \in SUBSET S |-> w[Cardinality(s)]]
<1>8. e = ClimbRound(c, e)
  <2>1. ASSUME NEW s \in SUBSET S PROVE e[s] = More(e, s)
    <3>1. CASE s = {}
      <4>1. Cardinality(s) = 0
        BY <3>1, FS_EmptySet
      <4> QED BY <1>7, <3>1, <4>1
    <3>2. CASE s # {}
      <4>1. /\ s \ {Max(s)} \in SUBSET S /\ Cardinality(s) \in 1 .. N
            /\ Cardinality(s \ {Max(s)}) = Cardinality(s) - 1
        <5>1. s \in SUBSET PageNumber
          BY <1>1
        <5>2. /\ s \ {Max(s)} \in SUBSET PageNumber /\ Cardinality(s) \in Nat \ {0}
              /\ Cardinality(s) <= P_NUMBER - 1
              /\ Cardinality(s \ {Max(s)}) = Cardinality(s) - 1
          BY <3>2, <5>1, LastOfPages
        <5>3. Cardinality(s) <= N
          BY <5>2 DEF N
        <5>4. Cardinality(s) \in 1 .. N
          BY <1>1, <5>2, <5>3
        <5> QED BY <1>1, <5>2, <5>4
      <4>2. e[s \ {Max(s)}] = w[Cardinality(s) - 1]
        BY <4>1
      <4>3. e[s] = w[Cardinality(s)]
        OBVIOUS
      <4> HIDE DEF e
      <4> QED BY <1>7, <3>2, <4>1, <4>2, <4>3
    <3> QED BY <3>1, <3>2
  <2>2. e = [s \in SUBSET S |-> More(e, s)]
    <3>1. e = [s \in SUBSET S |-> e[s]]
      OBVIOUS
    <3> HIDE DEF e, More
    <3> QED BY <2>1, <3>1
  <2> HIDE DEF e
  <2> QED BY <2>2 DEF ClimbRound, S
<1>9. h = ClimbRound(c, h)
  BY <1>8
<1>10. Climb(c) = h[S]
  BY ClimbIsRound DEF S
<1> HIDE DEF h
<1>11. \A s \in SUBSET S : h[s] = More(h, s)
  <2>1. h = [s \in SUBSET S |-> More(h, s)]
    BY <1>9 DEF ClimbRound, S
  <2> HIDE DEF More
  <2> QED BY <2>1
<1> DEFINE Same == {i \in Nat : i <= N => h[1 .. i] = w[i]}
<1>12. 0 \in Same
  <2>1. 1 .. 0 = {} /\ {} \in SUBSET S
    OBVIOUS
  <2> QED BY <1>7, <1>11, <2>1
<1>13. ASSUME NEW i \in Nat, i \in Same PROVE i + 1 \in Same
  <2> SUFFICES ASSUME i + 1 <= N PROVE h[1 .. i + 1] = w[i + 1]
    OBVIOUS
  <2>1. 1 .. i + 1 \in SUBSET S /\ i + 1 \in Nat \ {0} /\ i + 1 \in 1 .. N /\ (i + 1) - 1 = i
    BY <1>1
  <2>2. Max(1 .. i + 1) = i + 1 /\ (1 .. i + 1) \ {i + 1} = 1 .. i /\ 1 .. i + 1 # {}
    BY <2>1, LargestUpTo
  <2>3. h[1 .. i + 1] = ClimbStep(h[1 .. i])
    <3> DEFINE s == 1 .. i + 1
    <3>1. s \in SUBSET S /\ s # {} /\ s \ {Max(s)} = 1 .. i
      BY <2>1, <2>2
    <3> HIDE DEF s
    <3>2. h[s] = ClimbStep(h[s \ {Max(s)}])
      BY <1>11, <3>1
    <3> QED BY <3>1, <3>2 DEF s
  <2>4. h[1 .. i] = w[i]
    BY <1>1, <1>13
  <2>5. w[i + 1] = ClimbStep(w[i])
    BY <1>7, <2>1
  <2> QED BY <2>3, <2>4, <2>5
<1> HIDE DEF Same
<1>14. N \in Same
  BY <1>1, <1>12, <1>13, Counting
<1>15. h[S] = w[N]
  BY <1>1, <1>14 DEF Same
<1> QED BY <1>7, <1>10, <1>15 DEF N

DeleteRound(c, g) ==
  [s \in SUBSET DOMAIN [n \in PageNumber |-> n] |->
     IF s = {} THEN c ELSE DeleteStep(g[s \ {Max(s)}])]

LEMMA DeleteUpIsRound ==
  ASSUME NEW c
  PROVE  DeleteUp(c) = (CHOOSE g : g = DeleteRound(c, g))[DOMAIN [n \in PageNumber |-> n]]
BY DEF DeleteUp, FoldLeft, MapThenFoldSet, DeleteRound, DeleteStep

LEMMA DeleteUpSteps ==
  ASSUME NEW c
  PROVE  \E w : /\ w[0] = c /\ \A i \in 1 .. P_NUMBER - 1 : w[i] = DeleteStep(w[i - 1])
               /\ DeleteUp(c) = w[P_NUMBER - 1]
<1> DEFINE N == P_NUMBER - 1
           On(w, i) == IF i = 0 THEN c ELSE DeleteStep(w[i - 1])
           Upto(w, n) == w = [i \in 0 .. n |-> On(w, i)]
           Good == {n \in Nat : \E w : Upto(w, n)}
           S == DOMAIN [n \in PageNumber |-> n]
           More(g, s) == IF s = {} THEN c ELSE DeleteStep(g[s \ {Max(s)}])
           h == CHOOSE g : g = DeleteRound(c, g)
<1>1. N \in Nat \ {0} /\ S = PageNumber /\ S = 1 .. N
  BY PageNumbers DEF PageNumber
<1> HIDE DEF N, S
<1>2. 0 \in Good
  <2> DEFINE w == [i \in 0 .. 0 |-> c]
  <2>1. \A i \in 0 .. 0 : i = 0
    OBVIOUS
  <2>2. Upto(w, 0)
    BY <2>1
  <2> QED BY <2>2
<1>3. ASSUME NEW n \in Nat, n \in Good PROVE n + 1 \in Good
  <2>1. PICK w : Upto(w, n)
    BY <1>3
  <2> DEFINE v == [i \in 0 .. n + 1 |-> On(w, i)]
  <2>2. \A i \in 0 .. n : v[i] = w[i]
    <3>1. \A i \in 0 .. n : i \in 0 .. n + 1
      OBVIOUS
    <3>2. \A i \in 0 .. n : w[i] = On(w, i)
      BY <2>1
    <3> HIDE DEF On
    <3> QED BY <3>1, <3>2
  <2>3. ASSUME NEW i \in 0 .. n + 1 PROVE v[i] = On(v, i)
    <3>1. i # 0 => i - 1 \in 0 .. n
      OBVIOUS
    <3>2. v[i] = On(w, i)
      OBVIOUS
    <3> HIDE DEF v
    <3> QED BY <2>2, <3>1, <3>2
  <2>4. Upto(v, n + 1)
    BY <2>3
  <2> HIDE DEF Upto, v
  <2> QED BY <2>4
<1> HIDE DEF Good
<1>4. N \in Good
  BY <1>1, <1>2, <1>3, Counting
<1>5. PICK w : Upto(w, N)
  BY <1>4 DEF Good
<1>6. \A i \in 0 .. N : w[i] = On(w, i)
  <2> HIDE DEF On
  <2> QED BY <1>5
<1>7. w[0] = c /\ \A i \in 1 .. N : w[i] = DeleteStep(w[i - 1])
  <2>1. \A i \in 1 .. N : i \in 0 .. N /\ i # 0
    BY <1>1
  <2>2. 0 \in 0 .. N
    BY <1>1
  <2> QED BY <1>6, <2>1, <2>2
<1> HIDE DEF Upto
<1> DEFINE e == [s \in SUBSET S |-> w[Cardinality(s)]]
<1>8. e = DeleteRound(c, e)
  <2>1. ASSUME NEW s \in SUBSET S PROVE e[s] = More(e, s)
    <3>1. CASE s = {}
      <4>1. Cardinality(s) = 0
        BY <3>1, FS_EmptySet
      <4> QED BY <1>7, <3>1, <4>1
    <3>2. CASE s # {}
      <4>1. /\ s \ {Max(s)} \in SUBSET S /\ Cardinality(s) \in 1 .. N
            /\ Cardinality(s \ {Max(s)}) = Cardinality(s) - 1
        <5>1. s \in SUBSET PageNumber
          BY <1>1
        <5>2. /\ s \ {Max(s)} \in SUBSET PageNumber /\ Cardinality(s) \in Nat \ {0}
              /\ Cardinality(s) <= P_NUMBER - 1
              /\ Cardinality(s \ {Max(s)}) = Cardinality(s) - 1
          BY <3>2, <5>1, LastOfPages
        <5>3. Cardinality(s) <= N
          BY <5>2 DEF N
        <5>4. Cardinality(s) \in 1 .. N
          BY <1>1, <5>2, <5>3
        <5> QED BY <1>1, <5>2, <5>4
      <4>2. e[s \ {Max(s)}] = w[Cardinality(s) - 1]
        BY <4>1
      <4>3. e[s] = w[Cardinality(s)]
        OBVIOUS
      <4> HIDE DEF e
      <4> QED BY <1>7, <3>2, <4>1, <4>2, <4>3
    <3> QED BY <3>1, <3>2
  <2>2. e = [s \in SUBSET S |-> More(e, s)]
    <3>1. e = [s \in SUBSET S |-> e[s]]
      OBVIOUS
    <3> HIDE DEF e, More
    <3> QED BY <2>1, <3>1
  <2> HIDE DEF e
  <2> QED BY <2>2 DEF DeleteRound, S
<1>9. h = DeleteRound(c, h)
  BY <1>8
<1>10. DeleteUp(c) = h[S]
  BY DeleteUpIsRound DEF S
<1> HIDE DEF h
<1>11. \A s \in SUBSET S : h[s] = More(h, s)
  <2>1. h = [s \in SUBSET S |-> More(h, s)]
    BY <1>9 DEF DeleteRound, S
  <2> HIDE DEF More
  <2> QED BY <2>1
<1> DEFINE Same == {i \in Nat : i <= N => h[1 .. i] = w[i]}
<1>12. 0 \in Same
  <2>1. 1 .. 0 = {} /\ {} \in SUBSET S
    OBVIOUS
  <2> QED BY <1>7, <1>11, <2>1
<1>13. ASSUME NEW i \in Nat, i \in Same PROVE i + 1 \in Same
  <2> SUFFICES ASSUME i + 1 <= N PROVE h[1 .. i + 1] = w[i + 1]
    OBVIOUS
  <2>1. 1 .. i + 1 \in SUBSET S /\ i + 1 \in Nat \ {0} /\ i + 1 \in 1 .. N /\ (i + 1) - 1 = i
    BY <1>1
  <2>2. Max(1 .. i + 1) = i + 1 /\ (1 .. i + 1) \ {i + 1} = 1 .. i /\ 1 .. i + 1 # {}
    BY <2>1, LargestUpTo
  <2>3. h[1 .. i + 1] = DeleteStep(h[1 .. i])
    <3> DEFINE s == 1 .. i + 1
    <3>1. s \in SUBSET S /\ s # {} /\ s \ {Max(s)} = 1 .. i
      BY <2>1, <2>2
    <3> HIDE DEF s
    <3>2. h[s] = DeleteStep(h[s \ {Max(s)}])
      BY <1>11, <3>1
    <3> QED BY <3>1, <3>2 DEF s
  <2>4. h[1 .. i] = w[i]
    BY <1>1, <1>13
  <2>5. w[i + 1] = DeleteStep(w[i])
    BY <1>7, <2>1
  <2> QED BY <2>3, <2>4, <2>5
<1> HIDE DEF Same
<1>14. N \in Same
  BY <1>1, <1>12, <1>13, Counting
<1>15. h[S] = w[N]
  BY <1>1, <1>14 DEF Same
<1> QED BY <1>7, <1>10, <1>15 DEF N

-----------------------------------------------------------------------------
(* The ends of a sequence, and the free list.                              *)

LEMMA FirstAway ==
  ASSUME NEW T, NEW q \in Seq(T), Len(q) >= 1
  PROVE  /\ Head(q) \in T /\ Head(q) \in Range(q) /\ Tail(q) \in Seq(T)
         /\ Len(Tail(q)) = Len(q) - 1 /\ q = <<Head(q)>> \o Tail(q)
         /\ IsInjective(q) => IsInjective(Tail(q)) /\ Range(Tail(q)) = Range(q) \ {Head(q)}
<1>1. 1 \in 1 .. Len(q) /\ Len(q) \in Nat
  OBVIOUS
<1>2. Head(q) = q[1] /\ Head(q) \in T /\ Head(q) \in Range(q)
  BY <1>1, InRange
<1>3. Tail(q) = RemoveAt(q, 1)
  <2> DEFINE r == RemoveAt(q, 1)
  <2>2. SubSeq(q, 1, 0) = << >> /\ r = SubSeq(q, 1, 0) \o SubSeq(q, 2, Len(q))
    BY DEF RemoveAt
  <2>3. SubSeq(q, 2, Len(q)) \in Seq(T) /\ << >> \in Seq(T)
    BY <1>1
  <2>4. r = SubSeq(q, 2, Len(q))
    BY <2>2, <2>3
  <2>5. SubSeq(q, 2, Len(q)) = Tail(q)
    BY <1>1
  <2> QED BY <2>4, <2>5
<1>4. Len(Tail(q)) = Len(q) - 1 /\ Tail(q) \in Seq(T)
  BY <1>1
<1>5. IsInjective(q) => IsInjective(Tail(q)) /\ Range(Tail(q)) = Range(q) \ {Head(q)}
  <2>1. PICK i \in 1 .. Len(q) : i = 1
    BY <1>1
  <2>2. IsInjective(q) => IsInjective(RemoveAt(q, i)) /\ Range(RemoveAt(q, i)) = Range(q) \ {q[i]}
    <3>1. Loses(T, q, q[i], RemoveAt(q, i))
      BY TakenOut
    <3> QED BY <3>1 DEF Loses
  <2> QED BY <1>2, <1>3, <2>1, <2>2, Zenon
<1>6. q = <<Head(q)>> \o Tail(q)
  BY <1>1
<1> QED BY <1>2, <1>4, <1>5, <1>6

LEMMA LastAway ==
  ASSUME NEW T, NEW q \in Seq(T), Len(q) >= 1
  PROVE  /\ Last(q) \in T /\ Last(q) \in Range(q) /\ Last(q) = q[Len(q)] /\ Front(q) \in Seq(T)
         /\ Len(Front(q)) = Len(q) - 1
         /\ IsInjective(q) => IsInjective(Front(q)) /\ Range(Front(q)) = Range(q) \ {Last(q)}
<1>1. Len(q) \in 1 .. Len(q) /\ Len(q) \in Nat
  OBVIOUS
<1>2. Last(q) = q[Len(q)] /\ Last(q) \in T /\ Last(q) \in Range(q)
  BY <1>1, InRange DEF Last
<1>3. Front(q) = RemoveAt(q, Len(q))
  <2>1. SubSeq(q, Len(q) + 1, Len(q)) = << >>
    BY <1>1
  <2>2. SubSeq(q, 1, Len(q) - 1) \in Seq(T)
    BY <1>1, CutInTwo DEF Joins
  <2>3. SubSeq(q, 1, Len(q) - 1) \o << >> = SubSeq(q, 1, Len(q) - 1)
    BY <2>2
  <2> QED BY <2>1, <2>3 DEF RemoveAt, Front
<1>4. IsInjective(q) => IsInjective(Front(q)) /\ Range(Front(q)) = Range(q) \ {Last(q)}
  <2>1. PICK i \in 1 .. Len(q) : i = Len(q)
    BY <1>1
  <2>2. IsInjective(q) => IsInjective(RemoveAt(q, i)) /\ Range(RemoveAt(q, i)) = Range(q) \ {q[i]}
    <3>1. Loses(T, q, q[i], RemoveAt(q, i))
      BY TakenOut
    <3> QED BY <3>1 DEF Loses
  <2> QED BY <1>2, <1>3, <2>1, <2>2, Zenon
<1>5. Front(q) \in Seq(T) /\ Len(Front(q)) = Len(q) - 1
  <2>1. Front(q) = SubSeq(q, 1, Len(q) - 1)
    BY DEF Front
  <2>2. SubSeq(q, 1, Len(q) - 1) \in Seq(T)
    BY <1>1, CutInTwo DEF Joins
  <2>3. Len(SubSeq(q, 1, Len(q) - 1)) = Len(q) - 1
    <3>1. PICK i \in 1 .. Len(q) + 1 : i = Len(q)
      BY <1>1
    <3>2. Len(SubSeq(q, 1, i - 1)) = i - 1
      BY CutInTwo
    <3> QED BY <3>1, <3>2
  <2> QED BY <2>1, <2>2, <2>3
<1> QED BY <1>2, <1>4, <1>5

\* A sequence of other elements, with one put in front.
LEMMA PutFirst ==
  ASSUME NEW T, NEW q \in Seq(T), NEW e \in T
  PROVE  /\ <<e>> \o q \in Seq(T) /\ Len(<<e>> \o q) = Len(q) + 1
         /\ Range(<<e>> \o q) = Range(q) \union {e}
         /\ IsInjective(q) /\ e \notin Range(q) => IsInjective(<<e>> \o q)
<1>1. Joins(T, <<e>>, q, <<e>> \o q)
  BY Single, Joined
<1>2. <<e>> \in Seq(T) /\ Len(<<e>>) = 1 /\ Range(<<e>>) = {e} /\ IsInjective(<<e>>)
  BY Single
<1> QED BY <1>1, <1>2 DEF Joins

LEMMA PutLast ==
  ASSUME NEW T, NEW q \in Seq(T), NEW e \in T
  PROVE  /\ Append(q, e) \in Seq(T) /\ Len(Append(q, e)) = Len(q) + 1
         /\ Append(q, e) = q \o <<e>>
         /\ Range(Append(q, e)) = Range(q) \union {e}
         /\ IsInjective(q) /\ e \notin Range(q) => IsInjective(Append(q, e))
<1>1. Append(q, e) = q \o <<e>>
  OBVIOUS
<1>2. Joins(T, q, <<e>>, q \o <<e>>)
  BY Single, Joined
<1>3. <<e>> \in Seq(T) /\ Len(<<e>>) = 1 /\ Range(<<e>>) = {e} /\ IsInjective(<<e>>)
  BY Single
<1> QED BY <1>1, <1>2, <1>3 DEF Joins

\* A page is taken off the free list, or put on it.
LEMMA Popped ==
  ASSUME NEW fr \in Seq(PageNumber), IsInjective(fr), Len(fr) >= 1
  PROVE  /\ Head(fr) \in PageNumber /\ Head(fr) \notin Used(fr)
         /\ Tail(fr) \in Seq(PageNumber) /\ IsInjective(Tail(fr))
         /\ Len(Tail(fr)) = Len(fr) - 1
         /\ Used(Tail(fr)) = Used(fr) \union {Head(fr)}
<1>1. /\ Head(fr) \in PageNumber /\ Head(fr) \in Range(fr) /\ Tail(fr) \in Seq(PageNumber)
      /\ Len(Tail(fr)) = Len(fr) - 1
      /\ IsInjective(Tail(fr)) /\ Range(Tail(fr)) = Range(fr) \ {Head(fr)}
  BY FirstAway
<1> DEFINE t == Tail(fr)
           x == Head(fr)
<1> HIDE DEF t, x
<1>2. Used(t) = Used(fr) \union {x} /\ x \notin Used(fr)
  BY <1>1, Zenon DEF Used, t, x
<1> QED BY <1>1, <1>2 DEF t, x

LEMMA Pushed ==
  ASSUME NEW fr \in Seq(PageNumber), IsInjective(fr), NEW x \in Used(fr)
  PROVE  /\ <<x>> \o fr \in Seq(PageNumber) /\ IsInjective(<<x>> \o fr)
         /\ Used(<<x>> \o fr) = Used(fr) \ {x}
<1>1. x \in PageNumber /\ x \notin Range(fr)
  BY DEF Used
<1> QED BY <1>1, PutFirst DEF Used

-----------------------------------------------------------------------------
(* Pages.                                                                  *)

\* The pages g and h are the same but for their parents.
Alike(g, h) == /\ g.leaf = h.leaf /\ g.keys = h.keys /\ g.children = h.children
               /\ g.space = h.space

LEMMA AlikeOK ==
  ASSUME NEW g, NEW h \in Page, Alike(g, h), PageOK(g)
  PROVE  /\ PageOK(h) /\ Enough(g) = Enough(h) /\ Rooted(g) = Rooted(h)
         /\ Range(g.children) = Range(h.children)
BY DEF Alike, PageOK, Enough, Rooted

LEMMA NewParent ==
  ASSUME NEW p \in [PageNumber -> Page], NEW ns, NEW x \in Nat
  PROVE  /\ WithParent(p, ns, x) \in [PageNumber -> Page]
         /\ \A n \in PageNumber : /\ Alike(p[n], WithParent(p, ns, x)[n])
                                  /\ WithParent(p, ns, x)[n].parent = IF n \in ns THEN x ELSE p[n].parent
<1> DEFINE q == WithParent(p, ns, x)
<1>1. q = [n \in PageNumber |-> IF n \in ns THEN [p[n] EXCEPT !.parent = x] ELSE p[n]]
  BY DEF WithParent
<1>2. ASSUME NEW n \in PageNumber
      PROVE  q[n] \in Page /\ Alike(p[n], q[n]) /\ q[n].parent = IF n \in ns THEN x ELSE p[n].parent
  <2>1. CASE n \in ns
    <3>1. q[n] = [p[n] EXCEPT !.parent = x] /\ p[n] \in Page
      BY <1>1, <2>1
    <3> HIDE DEF q
    <3> QED BY <2>1, <3>1 DEF Page, Alike
  <2>2. CASE n \notin ns
    <3>1. q[n] = p[n] /\ p[n] \in Page
      BY <1>1, <2>2
    <3> HIDE DEF q
    <3> QED BY <2>2, <3>1 DEF Alike
  <2> QED BY <2>1, <2>2
<1>3. q \in [PageNumber -> Page]
  BY <1>1, <1>2
<1> QED BY <1>2, <1>3

-----------------------------------------------------------------------------
(* Keys of a page.                                                         *)

\* A record that is put in takes its space, and one that is taken out gives it back.
LEMMA WithKeyOK ==
  ASSUME NEW keys \in Seq(Key), NEW k \in Key
  PROVE  /\ WithKey(keys, k) \in Seq(Key) /\ Len(WithKey(keys, k)) = Len(keys) + 1
         /\ SpaceFor(WithKey(keys, k)) = SpaceFor(keys) + Size[k]
<1> DEFINE S == {i \in DOMAIN keys : keys[i] < k}
           i == Cardinality(S) + 1
           r == InsertAt(keys, i, k)
<1>1. DOMAIN keys = 1 .. Len(keys) /\ Len(keys) \in Nat
  BY InRange
<1>2. S \in SUBSET (1 .. Len(keys))
  BY <1>1
<1>3. i \in 1 .. Len(keys) + 1
  <2>1. IsFiniteSet(S) /\ Cardinality(S) <= Len(keys)
    BY <1>1, <1>2, UpTo, FS_Subset
  <2>2. Cardinality(S) \in Nat
    BY <2>1, FS_CardinalityType
  <2> HIDE DEF S
  <2> QED BY <1>1, <2>1, <2>2
<1>4. WithKey(keys, k) = r
  BY DEF WithKey
<1> HIDE DEF i
<1>5. /\ r \in Seq(Key) /\ Len(r) = Len(keys) + 1
      /\ InMiddle(Key, keys, k, r)
  <2>1. Gains(Key, keys, k, r)
    BY <1>3, PutIn
  <2> QED BY <2>1 DEF Gains
<1>6. PICK a \in Seq(Key) : \E b \in Seq(Key) : keys = a \o b /\ r = (a \o <<k>>) \o b
  BY <1>5 DEF InMiddle
<1>7. PICK b \in Seq(Key) : keys = a \o b /\ r = (a \o <<k>>) \o b
  BY <1>6
<1>8. <<k>> \in Seq(Key) /\ a \o <<k>> \in Seq(Key)
  OBVIOUS
<1>9. /\ SpaceFor(keys) = SpaceFor(a) + SpaceFor(b)
      /\ SpaceFor(r) = SpaceFor(a \o <<k>>) + SpaceFor(b)
      /\ SpaceFor(a \o <<k>>) = SpaceFor(a) + SpaceFor(<<k>>)
      /\ SpaceFor(a) \in Nat /\ SpaceFor(b) \in Nat /\ SpaceFor(<<k>>) = Size[k]
  BY <1>7, <1>8, SpaceJoined, SpaceSingle
<1>10. SpaceFor(r) = SpaceFor(keys) + Size[k]
  BY <1>9, SizeIsNat
<1> QED BY <1>4, <1>5, <1>10

LEMMA WithoutKeyOK ==
  ASSUME NEW keys \in Seq(Key), NEW k \in Range(keys)
  PROVE  /\ WithoutKey(keys, k) \in Seq(Key) /\ Len(WithoutKey(keys, k)) = Len(keys) - 1
         /\ Len(keys) >= 1 /\ k \in Key
         /\ SpaceFor(WithoutKey(keys, k)) + Size[k] = SpaceFor(keys)
<1> DEFINE i == CHOOSE j \in DOMAIN keys : keys[j] = k
           r == RemoveAt(keys, i)
<1>1. i \in 1 .. Len(keys) /\ keys[i] = k /\ k \in Key /\ Len(keys) \in Nat
  BY InRange
<1>2. WithoutKey(keys, k) = r
  BY DEF WithoutKey
<1> HIDE DEF i
<1>3. /\ r \in Seq(Key) /\ Len(r) = Len(keys) - 1
      /\ InMiddle(Key, r, k, keys)
  <2>1. Loses(Key, keys, keys[i], r)
    BY <1>1, TakenOut
  <2> QED BY <1>1, <2>1 DEF Loses
<1>4. PICK a \in Seq(Key) : \E b \in Seq(Key) : r = a \o b /\ keys = (a \o <<k>>) \o b
  BY <1>3 DEF InMiddle
<1>5. PICK b \in Seq(Key) : r = a \o b /\ keys = (a \o <<k>>) \o b
  BY <1>4
<1>6. <<k>> \in Seq(Key) /\ a \o <<k>> \in Seq(Key)
  BY <1>1
<1>7. /\ SpaceFor(r) = SpaceFor(a) + SpaceFor(b)
      /\ SpaceFor(keys) = SpaceFor(a \o <<k>>) + SpaceFor(b)
      /\ SpaceFor(a \o <<k>>) = SpaceFor(a) + SpaceFor(<<k>>)
      /\ SpaceFor(a) \in Nat /\ SpaceFor(b) \in Nat /\ SpaceFor(<<k>>) = Size[k]
  BY <1>1, <1>5, <1>6, SpaceJoined, SpaceSingle
<1>8. SpaceFor(r) + Size[k] = SpaceFor(keys)
  BY <1>1, <1>7, SizeIsNat
<1> QED BY <1>1, <1>2, <1>3, <1>8

-----------------------------------------------------------------------------
(* What holds of a page.                                                   *)

LEMMA Constants ==
  /\ MAX_FREE_SPACE \in Nat /\ THRESHOLD \in Nat /\ THRESHOLD <= MAX_FREE_SPACE
  /\ MAX_KEY_NUMBER \in Nat /\ MAX_KEY_NUMBER >= 4
  /\ MAX_KEY_NUMBER \div 2 \in Nat /\ MAX_KEY_NUMBER \div 2 >= 2
  /\ 2 * (MAX_KEY_NUMBER \div 2) <= MAX_KEY_NUMBER
  /\ MAX_KEY_NUMBER <= 2 * (MAX_KEY_NUMBER \div 2) + 1
  /\ MAX_FREE_SPACE \div 2 \in Nat /\ 2 * (MAX_FREE_SPACE \div 2) <= MAX_FREE_SPACE
  /\ MAX_FREE_SPACE <= 2 * (MAX_FREE_SPACE \div 2) + 1
<1>1. /\ MAX_FREE_SPACE \in Nat /\ THRESHOLD \in Nat /\ THRESHOLD <= MAX_FREE_SPACE
      /\ MAX_KEY_NUMBER \in Nat /\ MAX_KEY_NUMBER >= 4
  BY BPlusTreeAssumption, DeletionAssumption
<1> QED BY <1>1

\* The words of a leaf, and those of an internal page.
IsLeaf(g, parent, keys, space) ==
  /\ g \in Page /\ PageOK(g) /\ Rooted(g) /\ g.leaf
  /\ g.parent = parent /\ g.keys = keys /\ g.space = space /\ Range(g.children) = {}

IsInternal(g, parent, keys, children) ==
  /\ g \in Page /\ PageOK(g) /\ ~g.leaf
  /\ g.parent = parent /\ g.keys = keys /\ g.children = children

LEMMA LeafOK ==
  ASSUME NEW keys \in Seq(Key), SpaceFor(keys) <= MAX_FREE_SPACE,
         NEW parent \in Nat, NEW right \in Nat
  PROVE  IsLeaf(LeafPage(parent, keys, right), parent, keys, MAX_FREE_SPACE - SpaceFor(keys))
<1> DEFINE g == LeafPage(parent, keys, right)
<1>1. SpaceFor(keys) \in Nat
  <2>1. << >> \in Seq(Key)
    OBVIOUS
  <2> QED BY <2>1, SpaceJoined
<1>2. g = [leaf |-> TRUE, parent |-> parent, keys |-> keys, children |-> << >>,
           right |-> right, space |-> MAX_FREE_SPACE - SpaceFor(keys)]
  BY DEF LeafPage
<1>3. /\ MAX_FREE_SPACE - SpaceFor(keys) \in Nat
      /\ (MAX_FREE_SPACE - SpaceFor(keys)) + SpaceFor(keys) = MAX_FREE_SPACE
  BY <1>1, Constants
<1>4. /\ g.leaf = TRUE /\ g.parent = parent /\ g.keys = keys /\ g.children = << >>
      /\ g.right = right /\ g.space = MAX_FREE_SPACE - SpaceFor(keys)
  BY <1>2
<1>5. << >> \in Seq(Nat \ {0}) /\ Range(<< >>) = {}
  BY DEF Range
<1>6. g \in Page
  BY <1>2, <1>3, <1>5 DEF Page
<1> HIDE DEF g
<1>7. PageOK(g) /\ Rooted(g)
  BY <1>3, <1>4, <1>6 DEF PageOK, Rooted
<1> QED BY <1>4, <1>5, <1>6, <1>7 DEF g, IsLeaf

\* A leaf with other records, and an internal page with other entries.
Refilled(g, keys, space) == [g EXCEPT !.keys = keys, !.space = space]

Regrouped(g, keys, children) == [g EXCEPT !.keys = keys, !.children = children]

LEMMA LeafReplaced ==
  ASSUME NEW g \in Page, g.leaf, PageOK(g), NEW keys \in Seq(Key), NEW space \in Nat,
         space + SpaceFor(keys) = MAX_FREE_SPACE
  PROVE  IsLeaf(Refilled(g, keys, space), g.parent, keys, space)
<1> DEFINE h == Refilled(g, keys, space)
<1>1. h \in Page
  BY DEF Page, Refilled
<1>2. /\ h.leaf = g.leaf /\ h.parent = g.parent /\ h.keys = keys /\ h.children = g.children
      /\ h.space = space
  BY DEF Page, Refilled
<1>3. g.children = << >> /\ Range(<< >>) = {}
  BY DEF PageOK, Range
<1> HIDE DEF h
<1>4. PageOK(h)
  BY <1>1, <1>2, <1>3 DEF PageOK
<1>5. Range(h.children) = {} /\ Rooted(h)
  BY <1>2, <1>3 DEF Rooted
<1> QED BY <1>1, <1>2, <1>4, <1>5 DEF h, IsLeaf

LEMMA InternalOK ==
  ASSUME NEW keys \in Seq(Key), NEW children \in Seq(Nat \ {0}), NEW parent \in Nat,
         Len(children) = Len(keys) + 1, IsInjective(children), Len(keys) <= MAX_KEY_NUMBER
  PROVE  IsInternal(InternalPage(parent, keys, children), parent, keys, children)
<1> DEFINE g == InternalPage(parent, keys, children)
<1>1. g = [leaf |-> FALSE, parent |-> parent, keys |-> keys, children |-> children,
           right |-> 0, space |-> 0]
  BY DEF InternalPage
<1>2. g \in Page
  BY <1>1 DEF Page
<1>3. g.leaf = FALSE /\ g.parent = parent /\ g.keys = keys /\ g.children = children
  BY <1>1
<1> HIDE DEF g
<1>4. PageOK(g)
  BY <1>2, <1>3 DEF PageOK
<1> QED BY <1>2, <1>3, <1>4 DEF g, IsInternal

LEMMA InternalReplaced ==
  ASSUME NEW g \in Page, ~g.leaf, NEW keys \in Seq(Key), NEW children \in Seq(Nat \ {0}),
         Len(children) = Len(keys) + 1, IsInjective(children), Len(keys) <= MAX_KEY_NUMBER
  PROVE  IsInternal(Regrouped(g, keys, children), g.parent, keys, children)
<1> DEFINE h == Regrouped(g, keys, children)
<1>1. h \in Page
  BY DEF Page, Regrouped
<1>2. h.leaf = g.leaf /\ h.parent = g.parent /\ h.keys = keys /\ h.children = children
  BY DEF Page, Regrouped
<1> HIDE DEF h
<1>3. PageOK(h)
  BY <1>1, <1>2 DEF PageOK
<1> QED BY <1>1, <1>2, <1>3 DEF h, IsInternal

-----------------------------------------------------------------------------
(* Pages of a tree that change.                                            *)

\* A page that changes but for its parent stays full enough.
LEMMA FullAlike ==
  ASSUME NEW p, NEW r, NEW lev, NEW lean, NEW m, FullAt(p, r, lev, lean, m),
         NEW q, NEW s, NEW lew, NEW mean, q[m] \in Page, Alike(p[m], q[m]), lew[m] = lev[m],
         m \notin mean => m \notin lean,
         m \notin mean => (m = s <=> m = r)
  PROVE  FullAt(q, s, lew, mean, m)
<1>1. PageOK(p[m]) /\ (p[m].leaf <=> lev[m] = 0)
      /\ (m \notin lean => IF m = r THEN Rooted(p[m]) ELSE Enough(p[m]))
  BY DEF FullAt
<1>2. PageOK(q[m]) /\ Enough(p[m]) = Enough(q[m]) /\ Rooted(p[m]) = Rooted(q[m])
  BY <1>1, AlikeOK
<1>3. p[m].leaf = q[m].leaf
  BY DEF Alike
<1> QED BY <1>1, <1>2, <1>3 DEF FullAt

\* One page of a tree changes, its children and its parent do not.
Replaces(p, r, fr, n, g, lean, mean) ==
  /\ n \in Used(fr) /\ g \in Page /\ PageOK(g) /\ g.leaf = p[n].leaf
  /\ g.parent = p[n].parent /\ Range(g.children) = Range(p[n].children)
  /\ lean \ {n} \subseteq mean
  /\ n \notin mean => IF n = r THEN Rooted(g) ELSE Enough(g)

LEMMA OneReplaced ==
  ASSUME NEW p, NEW r, NEW fr, NEW lev, NEW out, NEW lean, Tree(p, r, fr, lev, out, lean),
         NEW n, NEW g, NEW mean, Replaces(p, r, fr, n, g, lean, mean)
  PROVE  Tree([p EXCEPT ![n] = g], r, fr, lev, out, mean)
<1> USE DEF Replaces
<1> DEFINE q == [p EXCEPT ![n] = g]
<1>1. p \in [PageNumber -> Page] /\ n \in PageNumber /\ Used(fr) \subseteq PageNumber
  BY DEF Tree, Used
<1>2. q \in [PageNumber -> Page] /\ q[n] = g /\ \A m \in PageNumber : m # n => q[m] = p[m]
  BY <1>1
<1> HIDE DEF q
<1>3. Kids(q) = Kids(p) /\ Par(q) = Par(p)
  BY <1>1, <1>2 DEF Kids, Par
<1>4. p[n].leaf <=> lev[n] = 0
  BY TreePage
<1>5. ASSUME NEW m \in Used(fr) PROVE FullAt(q, r, lev, mean, m)
  <2>1. CASE m = n
    BY <1>2, <1>4, <2>1 DEF FullAt
  <2>2. CASE m # n
    <3>1. FullAt(p, r, lev, lean, m)
      BY DEF Tree, Stocked
    <3>2. q[m] = p[m] /\ q[m] \in Page /\ (m \notin mean => m \notin lean)
      BY <1>1, <1>2, <2>2
    <3>3. Alike(p[m], q[m])
      BY <3>2 DEF Alike
    <3> QED BY <3>1, <3>2, <3>3, FullAlike
  <2> QED BY <2>1, <2>2
<1>6. Stocked(q, Used(fr), r, lev, mean)
  BY <1>5 DEF Stocked
<1> QED BY <1>2, <1>3, <1>6 DEF Tree, q

-----------------------------------------------------------------------------
(* The climb from a split.                                                 *)

IsClimb(c) == c \in [page : [PageNumber -> Page], root : Nat, free : Seq(PageNumber),
                     left : Nat, key : Key, right : Nat]

\* The page split off hangs beside the page left, on the level i, and has no parent that
\* knows it; every level above and a new root can have a page more.
Hangs(c, lev, i) ==
  /\ Tree(c.page, c.root, c.free, lev, {c.right}, {})
  /\ c.left \in Used(c.free) /\ c.right \in Used(c.free) /\ c.left # c.right
  /\ c.page[c.left].parent = c.page[c.right].parent
  /\ Enough(c.page[c.left])
  /\ lev[c.left] = i /\ lev[c.right] = i
  /\ \A m \in Used(c.free) : lev[m] <= lev[c.root]
  /\ lev[c.root] + 1 <= P_NUMBER - 1
  /\ Len(c.free) >= (lev[c.root] - i) + 1

Climbs(c, i) ==
  /\ IsClimb(c)
  /\ IF c.left = 0 THEN \E lev : Tree(c.page, c.root, c.free, lev, {}, {})
     ELSE \E lev : Hangs(c, lev, i)

\* The root gets a new root over it.
LEMMA NewRootHolds ==
  ASSUME NEW c, NEW i, IsClimb(c), NEW lev, Hangs(c, lev, i), c.page[c.left].parent = 0
  PROVE  Climbs(IntoNewRoot(c), i + 1)
<1> DEFINE U == Used(c.free)
           new == Head(c.free)
           r == c.root
           x == c.right
           w == WithParent(c.page, {c.left, x}, new)
           g == InternalPage(0, <<c.key>>, <<c.left, x>>)
           q == [w EXCEPT ![new] = g]
           d == [c EXCEPT !.page = q, !.root = new, !.free = Tail(@), !.left = 0]
           lew == [m \in PageNumber |-> IF m = new THEN lev[r] + 1 ELSE lev[m]]
<1>1. d = IntoNewRoot(c)
  BY DEF IntoNewRoot
<1>2. /\ c.page \in [PageNumber -> Page] /\ c.free \in Seq(PageNumber) /\ IsInjective(c.free)
      /\ Linked(Kids(c.page), Par(c.page), U, r, lev, {x}) /\ Stocked(c.page, U, r, lev, {})
      /\ U \subseteq PageNumber /\ c.key \in Key
  BY DEF Hangs, Tree, IsClimb, Used
<1>3. c.left = r
  BY TreePage DEF Hangs
<1>4. /\ r \in U /\ x \in U /\ r # x /\ lev[x] = lev[r] /\ lev[r] \in Nat /\ r \in PageNumber
      /\ x \in PageNumber /\ r \in Nat \ {0} /\ x \in Nat \ {0}
  <2>1. r \in U /\ x \in U /\ r # x /\ lev[x] = lev[r]
    BY <1>3 DEF Hangs
  <2>2. \A m \in U : lev[m] \in Nat
    BY <1>2 DEF Linked
  <2> QED BY <1>2, <2>1, <2>2, PageNumbers
<1>5. Len(c.free) >= 1
  BY <1>3, <1>4, <1>2 DEF Hangs
<1>6. /\ new \in PageNumber /\ new \notin U /\ new \in Nat
      /\ Tail(c.free) \in Seq(PageNumber) /\ IsInjective(Tail(c.free))
      /\ Used(Tail(c.free)) = U \union {new}
  BY <1>2, <1>5, Popped, PageNumbers
<1> HIDE DEF new, U
<1>7. /\ w \in [PageNumber -> Page]
      /\ \A n \in PageNumber : /\ Alike(c.page[n], w[n])
                               /\ w[n].parent = IF n \in {c.left, x} THEN new ELSE c.page[n].parent
  BY <1>2, <1>6, NewParent
<1>8. /\ <<c.key>> \in Seq(Key) /\ <<c.left, x>> \in Seq(Nat \ {0}) /\ Len(<<c.key>>) = 1
      /\ Len(<<c.left, x>>) = 2 /\ IsInjective(<<c.left, x>>) /\ Range(<<c.left, x>>) = {c.left, x}
  <2>1. <<c.key>> \in Seq(Key) /\ <<c.left, x>> \in Seq(Nat \ {0}) /\ Len(<<c.key>>) = 1
        /\ Len(<<c.left, x>>) = 2 /\ <<c.left, x>>[1] = c.left /\ <<c.left, x>>[2] = x
    BY <1>2, <1>3, <1>4
  <2>2. 1 .. 2 = {1, 2}
    OBVIOUS
  <2> DEFINE s == <<c.left, x>>
  <2> HIDE DEF s
  <2>3. s \in Seq(Nat \ {0}) /\ Len(s) = 2 /\ s[1] = c.left /\ s[2] = x
    BY <2>1 DEF s
  <2>4. IsInjective(s)
    BY <1>3, <1>4, <2>2, <2>3, Injective
  <2>5. Range(s) = {c.left, x}
    <3>1. DOMAIN s = {1, 2}
      BY <2>2, <2>3
    <3> QED BY <2>3, <3>1 DEF Range
  <2> QED BY <2>1, <2>4, <2>5 DEF s
<1>9. g \in Page /\ PageOK(g) /\ ~g.leaf /\ g.parent = 0 /\ g.keys = <<c.key>>
      /\ g.children = <<c.left, x>>
  <2>1. Len(<<c.left, x>>) = Len(<<c.key>>) + 1 /\ Len(<<c.key>>) <= MAX_KEY_NUMBER /\ 0 \in Nat
    BY <1>8, Constants
  <2> DEFINE s == <<c.left, x>>
             t == <<c.key>>
  <2> HIDE DEF s, t
  <2>2. /\ t \in Seq(Key) /\ s \in Seq(Nat \ {0}) /\ IsInjective(s)
        /\ Len(s) = Len(t) + 1 /\ Len(t) <= MAX_KEY_NUMBER
    BY <1>8, <2>1 DEF s, t
  <2>3. IsInternal(InternalPage(0, t, s), 0, t, s)
    BY <2>1, <2>2, InternalOK
  <2> QED BY <2>3 DEF s, t, IsInternal
<1> HIDE DEF w, g
<1>10. /\ q \in [PageNumber -> Page] /\ q[new] = g
       /\ \A m \in PageNumber : m # new => q[m] = w[m]
  BY <1>6, <1>7, <1>9
<1>11. /\ d \in [page : [PageNumber -> Page], root : Nat, free : Seq(PageNumber),
                 left : Nat, key : Key, right : Nat]
       /\ d.page = q /\ d.root = new /\ d.free = Tail(c.free) /\ d.left = 0
  <2> HIDE DEF q
  <2> QED BY <1>6, <1>10 DEF IsClimb
<1> HIDE DEF q, d
<1>12. \A m \in U : m # new /\ m \in PageNumber
  BY <1>2, <1>6
<1>13. /\ \A m \in U : lew[m] = lev[m]
       /\ lew[new] = lev[r] + 1
  BY <1>6, <1>12
<1> HIDE DEF lew
<1>14. Linked(Kids(q), Par(q), U \union {new}, new, lew, {})
  <2>1. \A m \in U : Kids(q)[m] = Kids(c.page)[m]
    BY <1>7, <1>10, <1>12 DEF Kids, Alike
  <2>2. Kids(q)[new] = {r, x}
    BY <1>3, <1>6, <1>8, <1>9, <1>10 DEF Kids
  <2>3. \A m \in U : Par(q)[m] = IF m \in {r, x} THEN new ELSE Par(c.page)[m]
    BY <1>3, <1>7, <1>10, <1>12 DEF Par
  <2>4. Par(q)[new] = 0
    BY <1>6, <1>9, <1>10 DEF Par
  <2> DEFINE K == Kids(c.page)
             P == Par(c.page)
             L == Kids(q)
             Q == Par(q)
  <2> HIDE DEF r, x, K, P, L, Q
  <2>5. Linked(K, P, U, r, lev, {x})
    BY <1>2 DEF K, P
  <2>6. \A m \in U : L[m] = K[m]
    BY <2>1 DEF K, L
  <2>7. L[new] = {r, x} /\ Q[new] = 0
    BY <2>2, <2>4 DEF L, Q
  <2>8. \A m \in U : Q[m] = IF m \in {r, x} THEN new ELSE P[m]
    BY <2>3 DEF P, Q
  <2>9. Linked(L, Q, U \union {new}, new, lew, {})
    <3>1. NewRootLinks(K, P, U, r, lev, x, L, Q, lew, new)
      BY <1>4, <1>6, <1>13, <2>5, <2>6, <2>7, <2>8 DEF NewRootLinks
    <3> QED BY <3>1, LinkedNewRoot
  <2> QED BY <2>9 DEF L, Q
<1>15. ASSUME NEW m \in U \union {new} PROVE FullAt(q, new, lew, {}, m)
  <2>1. CASE m = new
    <3>1. Rooted(g)
      BY <1>8, <1>9 DEF Rooted
    <3>2. lew[m] # 0
      BY <1>4, <1>13, <2>1
    <3> QED BY <1>9, <1>10, <2>1, <3>1, <3>2 DEF FullAt
  <2>2. CASE m # new
    <3>1. m \in U /\ FullAt(c.page, r, lev, {}, m) /\ q[m] = w[m]
      BY <1>2, <1>10, <1>12, <2>2 DEF Stocked
    <3>2. q[m] \in Page /\ Alike(c.page[m], q[m]) /\ lew[m] = lev[m]
      BY <1>7, <1>12, <1>13, <3>1
    <3>3. Enough(c.page[m])
      BY <1>3, <3>1 DEF FullAt, Hangs
    <3>4. PageOK(c.page[m]) /\ (c.page[m].leaf <=> lev[m] = 0)
      BY <3>1 DEF FullAt
    <3>5. PageOK(q[m]) /\ Enough(q[m])
      BY <3>2, <3>3, <3>4, AlikeOK
    <3> QED BY <2>2, <3>2, <3>4, <3>5 DEF FullAt, Alike
  <2> QED BY <2>1, <2>2
<1>16. Tree(q, new, Tail(c.free), lew, {}, {})
  BY <1>6, <1>10, <1>14, <1>15 DEF Tree, Stocked
<1> QED BY <1>1, <1>11, <1>16 DEF Climbs, IsClimb

LEMMA LeftFound ==
  ASSUME NEW p, NEW n, NEW x, p[n].children \in Seq(Nat \ {0}), x \in Range(p[n].children)
  PROVE  /\ LeftIndex(p, n, x) \in 1 .. Len(p[n].children)
         /\ p[n].children[LeftIndex(p, n, x)] = x
BY SMTT(30), InRange DEF LeftIndex

\* The parent of the page that was split takes the key and the page split off.
AdoptKeys(c, n) == InsertAt(c.page[n].keys, LeftIndex(c.page, n, c.left), c.key)

AdoptChildren(c, n) == InsertAt(c.page[n].children, LeftIndex(c.page, n, c.left) + 1, c.right)

Adopts(c, n) ==
  /\ n \in Used(c.free) /\ n \in PageNumber /\ n # c.left /\ n # c.right
  /\ c.page[n] \in Page /\ PageOK(c.page[n]) /\ ~c.page[n].leaf
  /\ Len(c.page[n].keys) \in Nat
  /\ AdoptKeys(c, n) \in Seq(Key) /\ Len(AdoptKeys(c, n)) = Len(c.page[n].keys) + 1
  /\ AdoptChildren(c, n) \in Seq(Nat \ {0})
  /\ Len(AdoptChildren(c, n)) = Len(c.page[n].keys) + 2
  /\ IsInjective(AdoptChildren(c, n))
  /\ Range(AdoptChildren(c, n)) = Range(c.page[n].children) \union {c.right}
  /\ c.right \notin Range(c.page[n].children)

\* The page n is the parent of the page that was split.
Above(c, n) == n = c.page[c.left].parent /\ n # 0

LEMMA AdoptHolds ==
  ASSUME NEW c, NEW i, IsClimb(c), NEW lev, Hangs(c, lev, i), NEW n, Above(c, n)
  PROVE  Adopts(c, n) /\ lev[n] = i + 1
<1>0. n = c.page[c.left].parent /\ n # 0
  BY DEF Above
<1>1. /\ c.left \in Used(c.free) /\ c.right \in Used(c.free) /\ c.left # c.right
      /\ Tree(c.page, c.root, c.free, lev, {c.right}, {}) /\ lev[c.left] = i /\ lev[c.right] = i
      /\ c.key \in Key
  BY DEF Hangs, IsClimb
<1>2. c.left # c.root
  BY <1>0, <1>1, TreePage
<1>3. /\ n \in Used(c.free) /\ c.left \in Range(c.page[n].children) /\ ~c.page[n].leaf
      /\ lev[n] = i + 1
  BY <1>0, <1>1, <1>2, TreePage
<1>4. /\ n \in PageNumber /\ c.page[n] \in Page /\ PageOK(c.page[n])
      /\ c.right \notin Range(c.page[n].children)
      /\ \A m \in Used(c.free) : lev[m] \in Nat /\ m \in Nat \ {0}
  <2>1. n \in PageNumber /\ c.page[n] \in Page /\ PageOK(c.page[n])
    BY <1>1, <1>3, TreePage
  <2>2. c.right \notin Range(c.page[n].children)
    BY <1>1, <1>3, TreePage
  <2>3. \A m \in Used(c.free) : lev[m] \in Nat
    BY <1>1, TreePage
  <2> QED BY <2>1, <2>2, <2>3, PageNumbers DEF Used
<1> DEFINE keys == c.page[n].keys
           children == c.page[n].children
           j == LeftIndex(c.page, n, c.left)
<1>5. /\ keys \in Seq(Key) /\ children \in Seq(Nat \ {0}) /\ Len(children) = Len(keys) + 1
      /\ IsInjective(children) /\ Len(keys) \in Nat
  <2>1. keys \in Seq(Key) /\ children \in Seq(Nat \ {0})
    BY <1>4, PageFields
  <2>2. Len(children) = Len(keys) + 1 /\ IsInjective(children)
    BY <1>3, <1>4 DEF PageOK
  <2> QED BY <2>1, <2>2
<1>6. j \in 1 .. Len(children)
  BY <1>3, <1>5, LeftFound
<1>8. n # c.left /\ n # c.right
  BY <1>1, <1>3, <1>4
<1> HIDE DEF keys, children, j
<1>7. j \in 1 .. Len(keys) + 1 /\ j + 1 \in 1 .. Len(children) + 1
  BY <1>5, <1>6
<1> DEFINE k == c.key
           x == c.right
           h == j + 1
           T == Nat \ {0}
<1>10. k \in Key /\ x \in T /\ h \in 1 .. Len(children) + 1 /\ children \in Seq(T)
  BY <1>1, <1>4, <1>5, <1>7
<1> HIDE DEF k, x, h, T
<1>9. InsertAt(keys, j, k) \in Seq(Key) /\ Len(InsertAt(keys, j, k)) = Len(keys) + 1
  <2>1. Gains(Key, keys, k, InsertAt(keys, j, k))
    BY <1>5, <1>7, <1>10, PutIn
  <2> QED BY <2>1 DEF Gains
<1>11. /\ InsertAt(children, h, x) \in Seq(T)
       /\ Len(InsertAt(children, h, x)) = Len(children) + 1
       /\ Range(InsertAt(children, h, x)) = Range(children) \union {x}
       /\ IsInjective(children) /\ x \notin Range(children) => IsInjective(InsertAt(children, h, x))
  <2>1. Gains(T, children, x, InsertAt(children, h, x))
    BY <1>10, PutIn
  <2> QED BY <2>1 DEF Gains
<1>12. Len(children) + 1 = Len(keys) + 2
  BY <1>5
<1>13. AdoptKeys(c, n) = InsertAt(keys, j, k) /\ AdoptChildren(c, n) = InsertAt(children, h, x)
  BY DEF AdoptKeys, AdoptChildren, keys, children, j, k, x, h
<1>14. Len(keys) = Len(c.page[n].keys) /\ Range(children) = Range(c.page[n].children)
  BY DEF keys, children
<1>15. x \notin Range(children) /\ x = c.right
  BY <1>4, <1>14 DEF x
<1> QED BY <1>3, <1>4, <1>5, <1>8, <1>9, <1>11, <1>12, <1>13, <1>14, <1>15 DEF Adopts, T

LEMMA InternalIs ==
  ASSUME NEW c, NEW n
  PROVE  IntoInternal(c, n) =
           [c EXCEPT !.page = [c.page EXCEPT ![n] =
                                 Regrouped(c.page[n], AdoptKeys(c, n), AdoptChildren(c, n))],
                     !.left = 0]
BY ZenonT(40) DEF IntoInternal, AdoptKeys, AdoptChildren, Regrouped

LEMMA InternalHolds ==
  ASSUME NEW c, NEW i, IsClimb(c), NEW lev, Hangs(c, lev, i), NEW n, Above(c, n),
         HasRoom(c.page[n])
  PROVE  Climbs(IntoInternal(c, n), i + 1)
<1> DEFINE U == Used(c.free)
           p == c.page
           x == c.right
           A == AdoptKeys(c, n)
           B == AdoptChildren(c, n)
           g == Regrouped(c.page[n], A, B)
           q == [c.page EXCEPT ![n] = g]
           d == IntoInternal(c, n)
<1>1. Adopts(c, n) /\ lev[n] = i + 1 /\ n = c.page[c.left].parent
  <2>1. Adopts(c, n) /\ lev[n] = i + 1
    BY AdoptHolds
  <2> QED BY <2>1 DEF Above
<1>2. /\ p \in [PageNumber -> Page] /\ c.free \in Seq(PageNumber) /\ IsInjective(c.free)
      /\ Linked(Kids(p), Par(p), U, c.root, lev, {x}) /\ Stocked(p, U, c.root, lev, {})
      /\ U \subseteq PageNumber
  BY DEF Hangs, Tree, IsClimb, Used
<1>3. d = [c EXCEPT !.page = q, !.left = 0]
  BY InternalIs
<1> HIDE DEF A, B, d
<1>4. g \in Page /\ PageOK(g) /\ ~g.leaf /\ g.parent = p[n].parent /\ g.keys = A /\ g.children = B
  <2>1. /\ A \in Seq(Key) /\ B \in Seq(Nat \ {0}) /\ IsInjective(B)
        /\ Len(A) = Len(p[n].keys) + 1 /\ Len(B) = Len(p[n].keys) + 2
        /\ Len(p[n].keys) \in Nat /\ Len(p[n].keys) < MAX_KEY_NUMBER
    BY <1>1 DEF A, B, Adopts, HasRoom
  <2>2. Len(B) = Len(A) + 1 /\ Len(A) <= MAX_KEY_NUMBER
    BY <2>1, Constants, SMTT(30)
  <2> DEFINE h == c.page[n]
  <2> HIDE DEF h
  <2>3. h \in Page /\ ~h.leaf
    BY <1>1 DEF Adopts, h
  <2>4. IsInternal(Regrouped(h, A, B), h.parent, A, B)
    BY <2>1, <2>2, <2>3, InternalReplaced
  <2> QED BY <2>4 DEF h, IsInternal
<1> HIDE DEF g
<1>5. q \in [PageNumber -> Page] /\ q[n] = g /\ \A m \in PageNumber : m # n => q[m] = p[m]
  BY <1>1, <1>2, <1>4 DEF Adopts
<1> HIDE DEF q
<1>6. IsClimb(d) /\ d.page = q /\ d.root = c.root /\ d.free = c.free /\ d.left = 0
  BY <1>3, <1>5 DEF IsClimb
<1>7. Linked(Kids(q), Par(q), U, c.root, lev, {})
  <2> DEFINE K == Kids(p)
             P == Par(p)
             L == Kids(q)
  <2>1. \A m \in U : m # n => L[m] = K[m]
    BY <1>2, <1>5 DEF Kids
  <2>2. L[n] = K[n] \union {x}
    BY <1>1, <1>4, <1>5 DEF Kids, Adopts, B
  <2>3. Par(q) = P
    BY <1>4, <1>5, SMTT(30) DEF Par
  <2>4. P[x] = n /\ lev[n] = lev[x] + 1 /\ x \in U /\ n \in U
    BY <1>1, <1>2 DEF Hangs, Par, Adopts
  <2>5. AdoptLinks(K, P, U, c.root, lev, x, L, n)
    <3> HIDE DEF K, P, L, x
    <3>1. Linked(K, P, U, c.root, lev, {x})
      BY <1>2 DEF K, P
    <3> QED BY <2>1, <2>2, <2>4, <3>1 DEF AdoptLinks
  <2> HIDE DEF K, P, L, x
  <2>6. Linked(L, P, U, c.root, lev, {})
    BY <2>5, LinkedAdopt
  <2> QED BY <2>3, <2>6 DEF L
<1>8. ASSUME NEW m \in U PROVE FullAt(q, c.root, lev, {}, m)
  <2>1. FullAt(p, c.root, lev, {}, m)
    BY <1>2 DEF Stocked
  <2>2. CASE m # n
    BY <1>2, <1>5, <2>1, <2>2 DEF FullAt
  <2>3. CASE m = n
    <3>1. Len(A) = Len(p[n].keys) + 1 /\ Len(p[n].keys) \in Nat /\ ~p[n].leaf
      BY <1>1 DEF Adopts, A
    <3>2. IF n = c.root THEN Rooted(g) ELSE Enough(g)
      <4>1. Rooted(g)
        <5>1. Len(A) >= 1 /\ g.keys = A
          BY <1>4, <3>1
        <5> QED BY <5>1 DEF Rooted
      <4>2. n # c.root => Enough(p[n])
        BY <2>1, <2>3 DEF FullAt
      <4>3. n # c.root => Len(p[n].keys) + 1 >= MAX_KEY_NUMBER \div 2
        BY <3>1, <4>2 DEF Enough
      <4>4. n # c.root => Len(A) + 1 >= MAX_KEY_NUMBER \div 2
        BY <3>1, <4>3, Constants
      <4> QED BY <1>4, <4>1, <4>4 DEF Enough
    <3>3. lev[n] # 0
      BY <2>1, <2>3, <3>1 DEF FullAt
    <3> QED BY <1>4, <1>5, <2>3, <3>2, <3>3, SMTT(30) DEF FullAt
  <2> QED BY <2>2, <2>3
<1>9. Tree(q, c.root, c.free, lev, {}, {})
  BY <1>2, <1>5, <1>7, <1>8 DEF Tree, Stocked
<1> QED BY <1>6, <1>9 DEF Climbs, d

\* What stays of the entries of a page that is split, and what goes.
Split == MAX_KEY_NUMBER \div 2
StayKeys(c, n) == SubSeq(AdoptKeys(c, n), 1, Split - 1)
GoKeys(c, n) == SubSeq(AdoptKeys(c, n), Split + 1, Len(AdoptKeys(c, n)))
StayChildren(c, n) == SubSeq(AdoptChildren(c, n), 1, Split)
GoChildren(c, n) == SubSeq(AdoptChildren(c, n), Split + 1, Len(AdoptChildren(c, n)))

SplitPages(c, n) ==
  [c.page EXCEPT ![n] = Regrouped(c.page[n], StayKeys(c, n), StayChildren(c, n)),
                 ![Head(c.free)] = InternalPage(c.page[n].parent, GoKeys(c, n), GoChildren(c, n))]

LEMMA SplitIs ==
  ASSUME NEW c, NEW n
  PROVE  SplitInternal(c, n) =
           [c EXCEPT !.page = WithParent(SplitPages(c, n), Range(GoChildren(c, n)), Head(c.free)),
                     !.free = Tail(c.free), !.left = n,
                     !.key = AdoptKeys(c, n)[Split], !.right = Head(c.free)]
BY ZenonT(40) DEF SplitInternal, AdoptKeys, AdoptChildren, Regrouped, Split, StayKeys, GoKeys, StayChildren,
       GoChildren, SplitPages, Move

Halves(c, n) ==
  /\ StayKeys(c, n) \in Seq(Key) /\ GoKeys(c, n) \in Seq(Key)
  /\ Len(StayKeys(c, n)) = Split - 1 /\ Len(GoKeys(c, n)) = (MAX_KEY_NUMBER + 1) - Split
  /\ StayChildren(c, n) \in Seq(Nat \ {0}) /\ GoChildren(c, n) \in Seq(Nat \ {0})
  /\ Len(StayChildren(c, n)) = Split /\ Len(GoChildren(c, n)) = (MAX_KEY_NUMBER + 2) - Split
  /\ IsInjective(StayChildren(c, n)) /\ IsInjective(GoChildren(c, n))
  /\ Range(StayChildren(c, n)) \intersect Range(GoChildren(c, n)) = {}
  /\ Range(StayChildren(c, n)) \union Range(GoChildren(c, n))
       = Range(c.page[n].children) \union {c.right}
  /\ AdoptKeys(c, n)[Split] \in Key

LEMMA HalvesHold ==
  ASSUME NEW c, NEW n, Adopts(c, n), ~HasRoom(c.page[n])
  PROVE  Halves(c, n)
<1> DEFINE A == AdoptKeys(c, n)
           B == AdoptChildren(c, n)
           T == Nat \ {0}
<1>1. /\ A \in Seq(Key) /\ B \in Seq(T) /\ IsInjective(B)
      /\ Range(B) = Range(c.page[n].children) \union {c.right}
  BY DEF Adopts
<1>2. Len(A) = MAX_KEY_NUMBER + 1 /\ Len(B) = MAX_KEY_NUMBER + 2
  <2>1. Len(c.page[n].keys) = MAX_KEY_NUMBER
    <3> DEFINE z == Len(c.page[n].keys)
    <3>1. z \in Nat /\ z <= MAX_KEY_NUMBER /\ ~(z < MAX_KEY_NUMBER)
      BY DEF Adopts, PageOK, HasRoom
    <3> HIDE DEF z
    <3>2. z = MAX_KEY_NUMBER
      BY <3>1, Constants
    <3> QED BY <3>2 DEF z
  <2> QED BY <2>1 DEF Adopts
<1>3. /\ Split \in Nat /\ Split >= 2 /\ 2 * Split <= MAX_KEY_NUMBER /\ MAX_KEY_NUMBER \in Nat
  BY Constants DEF Split
<1> HIDE DEF A, B, T
<1>4. Split \in 1 .. Len(A) /\ Split \in 1 .. Len(A) + 1 /\ Split + 1 \in 1 .. Len(A) + 1
  BY <1>2, <1>3
<1>5. Split + 1 \in 1 .. Len(B) + 1 /\ (Split + 1) - 1 = Split
  BY <1>2, <1>3
<1>6. A[Split] \in Key
  BY <1>1, <1>4
<1>7. SubSeq(A, 1, Split - 1) \in Seq(Key) /\ Len(SubSeq(A, 1, Split - 1)) = Split - 1
  BY <1>1, <1>4, CutInTwo DEF Joins
<1> DEFINE h == Split + 1
<1>8. h \in 1 .. Len(A) + 1 /\ h \in 1 .. Len(B) + 1 /\ h - 1 = Split
  BY <1>4, <1>5
<1> HIDE DEF h
<1>9. SubSeq(A, h, Len(A)) \in Seq(Key) /\ Len(SubSeq(A, h, Len(A))) = Len(A) - (h - 1)
  BY <1>1, <1>8, CutInTwo DEF Joins
<1>10. /\ Joins(T, SubSeq(B, 1, h - 1), SubSeq(B, h, Len(B)), B)
       /\ Len(SubSeq(B, 1, h - 1)) = h - 1 /\ Len(SubSeq(B, h, Len(B))) = Len(B) - (h - 1)
  BY <1>1, <1>8, CutInTwo
<1> DEFINE b == SubSeq(B, 1, h - 1)
           d == SubSeq(B, h, Len(B))
<1> HIDE DEF b, d
<1>11. /\ Joins(T, b, d, B) /\ Len(b) = Split /\ Len(d) = (MAX_KEY_NUMBER + 2) - Split
  BY <1>2, <1>8, <1>10 DEF b, d
<1>12. /\ b \in Seq(T) /\ d \in Seq(T) /\ IsInjective(b) /\ IsInjective(d)
       /\ Range(b) \intersect Range(d) = {} /\ Range(b) \union Range(d) = Range(B)
  BY <1>1, <1>11 DEF Joins
<1>13. b = StayChildren(c, n) /\ d = GoChildren(c, n)
  BY <1>8 DEF b, d, StayChildren, GoChildren, B, h
<1>14. StayKeys(c, n) = SubSeq(A, 1, Split - 1) /\ GoKeys(c, n) = SubSeq(A, h, Len(A))
  BY DEF StayKeys, GoKeys, A, h
<1>15. Len(GoKeys(c, n)) = (MAX_KEY_NUMBER + 1) - Split
  BY <1>2, <1>8, <1>9, <1>14
<1>16. AdoptKeys(c, n)[Split] \in Key
  BY <1>6 DEF A
<1> QED BY <1>1, <1>7, <1>9, <1>11, <1>12, <1>13, <1>14, <1>15, <1>16 DEF Halves, T

LEMMA SplitHolds ==
  ASSUME NEW c, NEW i \in Nat, IsClimb(c), NEW lev, Hangs(c, lev, i), NEW n, Above(c, n),
         ~HasRoom(c.page[n])
  PROVE  Climbs(SplitInternal(c, n), i + 1)
<1> DEFINE U == Used(c.free)
           p == c.page
           r == c.root
           x == c.right
           new == Head(c.free)
           go == Range(GoChildren(c, n))
           g == Regrouped(c.page[n], StayKeys(c, n), StayChildren(c, n))
           h == InternalPage(c.page[n].parent, GoKeys(c, n), GoChildren(c, n))
           s == SplitPages(c, n)
           q == WithParent(s, go, new)
           d == SplitInternal(c, n)
           lew == [m \in PageNumber |-> IF m = new THEN lev[n] ELSE lev[m]]
<1>1. Adopts(c, n) /\ lev[n] = i + 1 /\ n = p[c.left].parent
  <2>1. Adopts(c, n) /\ lev[n] = i + 1
    BY AdoptHolds
  <2> QED BY <2>1 DEF Above
<1>2. Halves(c, n)
  BY <1>1, HalvesHold
<1>3. /\ p \in [PageNumber -> Page] /\ c.free \in Seq(PageNumber) /\ IsInjective(c.free)
      /\ Linked(Kids(p), Par(p), U, r, lev, {x}) /\ Stocked(p, U, r, lev, {})
      /\ U \subseteq PageNumber
  BY DEF Hangs, Tree, IsClimb, Used
<1>4. /\ n \in U /\ n \in PageNumber /\ n # x /\ p[n] \in Page /\ ~p[n].leaf /\ p[n].parent \in Nat
  <2>1. n \in U /\ n \in PageNumber /\ n # x /\ p[n] \in Page /\ ~p[n].leaf
    BY <1>1 DEF Adopts
  <2> QED BY <2>1, PageFields, SMTT(30)
<1>5. /\ x \in U /\ lev[n] = lev[x] + 1 /\ p[x].parent = n /\ r \in U /\ r \notin {x}
      /\ \A m \in U : lev[m] \in Nat /\ lev[m] <= lev[r]
  BY <1>1, <1>3 DEF Hangs, Linked
<1>6. Len(c.free) >= 1 /\ Len(c.free) - 1 >= (lev[r] - (i + 1)) + 1 /\ Len(c.free) \in Nat
  <2> DEFINE z == Len(c.free)
             y == lev[r]
  <2>1. z \in Nat /\ y \in Nat /\ lev[n] <= y /\ z >= (y - i) + 1
    BY <1>3, <1>4, <1>5 DEF Hangs
  <2> HIDE DEF z, y
  <2>2. z >= 1 /\ z - 1 >= (y - (i + 1)) + 1
    BY <1>1, <2>1
  <2> QED BY <2>1, <2>2 DEF z, y
<1>7. /\ new \in PageNumber /\ new \notin U /\ new \in Nat
      /\ Tail(c.free) \in Seq(PageNumber) /\ IsInjective(Tail(c.free))
      /\ Len(Tail(c.free)) = Len(c.free) - 1
      /\ Used(Tail(c.free)) = U \union {new}
  BY <1>3, <1>6, Popped, PageNumbers
<1> HIDE DEF new
<1>8. IsInternal(g, p[n].parent, StayKeys(c, n), StayChildren(c, n))
  <2> DEFINE f == p[n]
             A == StayKeys(c, n)
             B == StayChildren(c, n)
  <2>1. /\ f \in Page /\ ~f.leaf /\ A \in Seq(Key) /\ B \in Seq(Nat \ {0}) /\ IsInjective(B)
        /\ Len(A) = Split - 1 /\ Len(B) = Split
    BY <1>2, <1>4 DEF Halves
  <2> HIDE DEF f, A, B
  <2>2. Len(B) = Len(A) + 1 /\ Len(A) <= MAX_KEY_NUMBER
    BY <2>1, Constants DEF Split
  <2>3. IsInternal(Regrouped(f, A, B), f.parent, A, B)
    BY <2>1, <2>2, InternalReplaced
  <2> QED BY <2>3 DEF f, A, B
<1>9. IsInternal(h, p[n].parent, GoKeys(c, n), GoChildren(c, n))
  <2> DEFINE f == p[n].parent
             A == GoKeys(c, n)
             B == GoChildren(c, n)
  <2>1. /\ f \in Nat /\ A \in Seq(Key) /\ B \in Seq(Nat \ {0}) /\ IsInjective(B)
        /\ Len(A) = (MAX_KEY_NUMBER + 1) - Split /\ Len(B) = (MAX_KEY_NUMBER + 2) - Split
    BY <1>2, <1>4 DEF Halves
  <2> HIDE DEF f, A, B
  <2>2. Len(B) = Len(A) + 1 /\ Len(A) <= MAX_KEY_NUMBER
    BY <2>1, Constants DEF Split
  <2>3. IsInternal(InternalPage(f, A, B), f, A, B)
    BY <2>1, <2>2, InternalOK
  <2> QED BY <2>3 DEF f, A, B
<1> HIDE DEF g, h
<1>10. /\ s \in [PageNumber -> Page] /\ s[n] = g /\ s[new] = h
       /\ \A m \in PageNumber : m # n /\ m # new => s[m] = p[m]
  <2>1. s = [[p EXCEPT ![n] = g] EXCEPT ![new] = h]
    BY DEF SplitPages, g, h, new
  <2>2. g \in Page /\ h \in Page /\ n # new
    BY <1>4, <1>7, <1>8, <1>9 DEF IsInternal
  <2> HIDE DEF s, p
  <2> QED BY <1>3, <1>4, <1>7, <2>1, <2>2
<1> HIDE DEF s
<1>11. /\ q \in [PageNumber -> Page]
       /\ \A m \in PageNumber : /\ Alike(s[m], q[m])
                                /\ q[m].parent = IF m \in go THEN new ELSE s[m].parent
  BY <1>7, <1>10, NewParent
<1> HIDE DEF q
<1>12. /\ IsClimb(d) /\ d.page = q /\ d.root = r /\ d.free = Tail(c.free) /\ d.left = n
       /\ d.right = new
  <2>1. d = [c EXCEPT !.page = q, !.free = Tail(c.free), !.left = n,
                      !.key = AdoptKeys(c, n)[Split], !.right = new]
    BY SplitIs DEF q, s, new
  <2>2. AdoptKeys(c, n)[Split] \in Key /\ n \in Nat
    BY <1>2, <1>4, PageNumbers DEF Halves
  <2> HIDE DEF d
  <2> QED BY <1>7, <1>11, <2>1, <2>2 DEF IsClimb
<1> HIDE DEF d
<1>13. \A m \in U : m # new /\ m \in PageNumber
  BY <1>3, <1>7
<1>14. /\ \A m \in U : lew[m] = lev[m]
       /\ lew[new] = lev[n]
  BY <1>7, <1>13
<1> HIDE DEF lew
<1>15. /\ Range(StayChildren(c, n)) \intersect go = {}
       /\ Range(StayChildren(c, n)) \union go = Range(p[n].children) \union {x}
  BY <1>2 DEF Halves
<1>16. n \notin go /\ new \notin go
  <2>1. \A y \in Range(p[n].children) : y \in U /\ lev[n] = lev[y] + 1
    <3>1. Kids(p)[n] = Range(p[n].children)
      BY <1>4 DEF Kids
    <3> QED BY <1>3, <1>4, <3>1 DEF Linked
  <2>2. \A y \in go : y \in U /\ lev[n] = lev[y] + 1
    BY <1>5, <1>15, <2>1
  <2> QED BY <1>4, <1>5, <1>7, <2>2
<1> HIDE DEF go
<1>17. Linked(Kids(q), Par(q), U \union {new}, r, lew, {new})
  <2> DEFINE K == Kids(p)
             P == Par(p)
             L == Kids(q)
             Q == Par(q)
  <2>1. \A m \in U : m # n => L[m] = K[m]
    BY <1>10, <1>11, <1>13 DEF Kids, Alike
  <2>2. L[n] = Range(StayChildren(c, n)) /\ L[new] = go
    BY <1>4, <1>7, <1>8, <1>9, <1>10, <1>11 DEF Kids, Alike, IsInternal, go
  <2>3. K[n] = Range(p[n].children)
    BY <1>4 DEF Kids
  <2>4. \A m \in U : Q[m] = IF m \in go THEN new ELSE P[m]
    BY <1>8, <1>10, <1>11, <1>13 DEF Par, IsInternal
  <2>5. Q[new] = P[n]
    BY <1>4, <1>7, <1>9, <1>10, <1>11, <1>16 DEF Par, IsInternal
  <2>6. P[x] = n
    BY <1>3, <1>5 DEF Par
  <2>7. Linked(K, P, U, r, lev, {x})
    BY <1>3
  <2> HIDE DEF K, P, L, Q, p, x, r
  <2>8. L[n] \union L[new] = K[n] \union {x} /\ L[n] \intersect L[new] = {}
    BY <1>15, <2>2, <2>3
  <2>9. SplitLinks(K, P, U, r, lev, {x}, L, Q, lew, n, new)
    <3>1. {x} \subseteq U /\ n \notin {x} /\ \A y \in {x} : P[y] = n /\ lev[n] = lev[y] + 1
      BY <1>4, <1>5, <2>6
    <3>2. \A m \in U : Q[m] = IF m \in L[new] THEN new ELSE P[m]
      BY <2>2, <2>4
    <3> QED BY <1>4, <1>7, <1>14, <2>1, <2>5, <2>7, <2>8, <3>1, <3>2 DEF SplitLinks
  <2>10. Linked(L, Q, U \union {new}, r, lew, {new})
    BY <2>9, LinkedSplit
  <2> QED BY <2>10 DEF L, Q
<1>18. /\ Enough(g) /\ Rooted(g) /\ Enough(h)
  <2>1. /\ ~g.leaf /\ ~h.leaf /\ Len(g.keys) = Split - 1 /\ Len(h.keys) = (MAX_KEY_NUMBER + 1) - Split
    BY <1>2, <1>8, <1>9 DEF IsInternal, Halves
  <2>2. Len(g.keys) >= 1 /\ Len(g.keys) + 1 >= MAX_KEY_NUMBER \div 2
        /\ Len(h.keys) + 1 >= MAX_KEY_NUMBER \div 2
    BY <2>1, Constants DEF Split
  <2> QED BY <2>1, <2>2 DEF Enough, Rooted
<1>19. lev[n] # 0
  BY <1>1
<1>20. /\ q[n] \in Page /\ Alike(g, q[n]) /\ q[new] \in Page /\ Alike(h, q[new])
       /\ PageOK(g) /\ PageOK(h) /\ ~g.leaf /\ ~h.leaf
  BY <1>4, <1>7, <1>8, <1>9, <1>10, <1>11 DEF IsInternal
<1>21. /\ PageOK(q[n]) /\ Enough(q[n]) /\ Rooted(q[n]) /\ ~q[n].leaf
       /\ PageOK(q[new]) /\ Enough(q[new]) /\ ~q[new].leaf
  <2>1. q[n].leaf = g.leaf /\ q[new].leaf = h.leaf
    BY <1>20 DEF Alike
  <2> QED BY <1>18, <1>20, <2>1, AlikeOK
<1>22. ASSUME NEW m \in U \union {new} PROVE FullAt(q, r, lew, {}, m)
  <2>1. CASE m = new
    <3>1. r # new
      BY <1>5, <1>13
    <3> QED BY <1>14, <1>19, <1>21, <2>1, <3>1 DEF FullAt
  <2>2. CASE m = n
    BY <1>4, <1>14, <1>19, <1>21, <2>2 DEF FullAt
  <2>3. CASE m # n /\ m # new
    <3>1. FullAt(p, r, lev, {}, m) /\ s[m] = p[m] /\ m \in PageNumber /\ m \in U
      BY <1>3, <1>10, <1>13, <2>3 DEF Stocked
    <3>2. q[m] \in Page /\ Alike(p[m], q[m]) /\ lew[m] = lev[m]
      BY <1>11, <1>14, <3>1
    <3> QED BY <3>1, <3>2, FullAlike
  <2> QED BY <2>1, <2>2, <2>3
<1>23. Tree(q, r, Tail(c.free), lew, {new}, {})
  BY <1>7, <1>11, <1>17, <1>22 DEF Tree, Stocked
<1>24. q[n].parent = q[new].parent
  BY <1>4, <1>7, <1>8, <1>9, <1>10, <1>11, <1>16 DEF IsInternal
<1>25. \A m \in U \union {new} : lew[m] <= lew[r]
  BY <1>4, <1>5, <1>14
<1>26. lew[r] + 1 <= P_NUMBER - 1 /\ Len(Tail(c.free)) >= (lew[r] - (i + 1)) + 1
  BY <1>5, <1>6, <1>7, <1>14 DEF Hangs
<1>27. Hangs(d, lew, i + 1)
  <2>1. lew[n] = i + 1 /\ lew[new] = i + 1 /\ n # new /\ n \in Used(Tail(c.free)) /\ new \in Used(Tail(c.free))
    BY <1>1, <1>4, <1>7, <1>13, <1>14
  <2> HIDE DEF r
  <2> QED BY <1>7, <1>12, <1>21, <1>23, <1>24, <1>25, <1>26, <2>1 DEF Hangs
<1>28. d.left # 0
  BY <1>4, <1>12, PageNumbers
<1> QED BY <1>12, <1>27, <1>28 DEF Climbs, d

LEMMA ParentHolds ==
  ASSUME NEW c, NEW i \in Nat, Climbs(c, i), c.left # 0
  PROVE  Climbs(IntoParent(c), i + 1)
<1> DEFINE n == c.page[c.left].parent
<1>1. IsClimb(c)
  BY DEF Climbs
<1>2. PICK lev : Hangs(c, lev, i)
  BY DEF Climbs
<1>3. CASE n = 0
  <2>1. IntoParent(c) = IntoNewRoot(c)
    BY <1>3 DEF IntoParent
  <2> QED BY <1>1, <1>2, <1>3, <2>1, NewRootHolds
<1>4. CASE n # 0 /\ HasRoom(c.page[n])
  <2>1. IntoParent(c) = IntoInternal(c, n) /\ Above(c, n)
    BY <1>4 DEF IntoParent, Above
  <2> HIDE DEF n
  <2> QED BY <1>1, <1>2, <1>4, <2>1, InternalHolds
<1>5. CASE n # 0 /\ ~HasRoom(c.page[n])
  <2>1. IntoParent(c) = SplitInternal(c, n) /\ Above(c, n)
    BY <1>5 DEF IntoParent, Above
  <2> HIDE DEF n
  <2> QED BY <1>1, <1>2, <1>5, <2>1, SplitHolds
<1> QED BY <1>3, <1>4, <1>5

\* The climb ends, since there are fewer levels than pages.
LEMMA ClimbHolds ==
  ASSUME NEW c, Climbs(c, 0)
  PROVE  /\ IsClimb(Climb(c))
         /\ \E lev : Tree(Climb(c).page, Climb(c).root, Climb(c).free, lev, {}, {})
<1> DEFINE N == P_NUMBER - 1
<1>1. N \in Nat
  BY PageNumbers
<1>2. PICK w : /\ w[0] = c /\ \A i \in 1 .. N : w[i] = ClimbStep(w[i - 1])
               /\ Climb(c) = w[N]
  BY ClimbSteps
<1> HIDE DEF N
<1> DEFINE Good == {i \in Nat : i <= N => Climbs(w[i], i)}
<1>3. 0 \in Good
  BY <1>2
<1>4. ASSUME NEW i \in Nat, i \in Good PROVE i + 1 \in Good
  <2> SUFFICES ASSUME i + 1 <= N PROVE Climbs(w[i + 1], i + 1)
    OBVIOUS
  <2>1. Climbs(w[i], i)
    BY <1>1, <1>4
  <2>2. w[i + 1] = ClimbStep(w[i])
    <3>1. i + 1 \in 1 .. N /\ (i + 1) - 1 = i
      BY <1>1
    <3> QED BY <1>2, <3>1
  <2>3. CASE w[i].left = 0
    BY <2>1, <2>2, <2>3 DEF ClimbStep, Climbs
  <2>4. CASE w[i].left # 0
    <3>1. w[i + 1] = IntoParent(w[i])
      BY <2>2, <2>4 DEF ClimbStep
    <3> QED BY <2>1, <2>4, <3>1, ParentHolds
  <2> QED BY <2>3, <2>4
<1> HIDE DEF Good
<1>5. N \in Good
  BY <1>1, <1>3, <1>4, Counting
<1>6. Climbs(Climb(c), N)
  BY <1>1, <1>2, <1>5 DEF Good
<1>7. Climb(c).left = 0
  <2> SUFFICES ASSUME Climb(c).left # 0 PROVE FALSE
    OBVIOUS
  <2> DEFINE e == Climb(c)
  <2>1. PICK lev : Hangs(e, lev, N)
    BY <1>6 DEF Climbs
  <2>2. lev[e.left] = N /\ lev[e.left] <= lev[e.root] /\ lev[e.root] + 1 <= N
    BY <2>1 DEF Hangs, N
  <2>3. lev[e.root] \in Nat
    BY <2>1 DEF Hangs, Tree, Linked
  <2> HIDE DEF e
  <2> QED BY <1>1, <2>2, <2>3
<1> QED BY <1>6, <1>7 DEF Climbs

-----------------------------------------------------------------------------
(* Insertion.                                                              *)

\* A file without a tree has all its pages on the free list.
Bare(p, fr) == /\ p \in [PageNumber -> Page] /\ fr \in Seq(PageNumber) /\ IsInjective(fr)
               /\ Used(fr) = {}

Whole(p, r, fr) == IF r = 0 THEN Bare(p, fr) ELSE \E lev : Tree(p, r, fr, lev, {}, {})

LEMMA TreeIsWhole ==
  ASSUME NEW p, NEW r, NEW fr, NEW lev, Tree(p, r, fr, lev, {}, {})
  PROVE  Whole(p, r, fr) /\ r # 0
<1>1. r # 0
  BY PageNumbers DEF Tree, Linked
<1> QED BY <1>1 DEF Whole

LEMMA FirstHolds ==
  ASSUME Bare(page, free), NEW k \in Key
  PROVE  Whole([page EXCEPT ![Head(free)] = LeafPage(0, <<k>>, 0)], Head(free), Tail(free))
<1> DEFINE new == Head(free)
           g == LeafPage(0, <<k>>, 0)
           q == [page EXCEPT ![new] = g]
           lev == [m \in PageNumber |-> 0]
<1>1. /\ page \in [PageNumber -> Page] /\ free \in Seq(PageNumber) /\ IsInjective(free)
      /\ Used(free) = {}
  BY DEF Bare
<1>2. Len(free) >= 1
  <2>1. 1 \in PageNumber
    BY PageNumbers DEF PageNumber
  <2>2. 1 \in Range(free)
    BY <1>1, <2>1 DEF Used
  <2>3. \E i \in 1 .. Len(free) : free[i] = 1
    BY <1>1, <2>2, InRange
  <2>4. Len(free) \in Nat
    BY <1>1
  <2> QED BY <2>3, <2>4
<1>3. /\ new \in PageNumber /\ Tail(free) \in Seq(PageNumber) /\ IsInjective(Tail(free))
      /\ Used(Tail(free)) = {new}
  BY <1>1, <1>2, Popped
<1> HIDE DEF new
<1>4. g \in Page /\ PageOK(g) /\ Rooted(g) /\ g.leaf /\ g.parent = 0 /\ Range(g.children) = {}
  <2>1. SpaceFor(<<k>>) = Size[k] /\ <<k>> \in Seq(Key)
    BY SpaceSingle
  <2>2. SpaceFor(<<k>>) <= MAX_FREE_SPACE
    BY <2>1, SizeIsNat, Constants
  <2>3. IsLeaf(g, 0, <<k>>, MAX_FREE_SPACE - SpaceFor(<<k>>))
    BY <2>1, <2>2, LeafOK
  <2> QED BY <2>3 DEF IsLeaf
<1> HIDE DEF g
<1>5. q \in [PageNumber -> Page] /\ q[new] = g
  BY <1>1, <1>3, <1>4
<1> HIDE DEF q
<1>6. Linked(Kids(q), Par(q), {new}, new, lev, {})
  <2>1. Kids(q)[new] = {} /\ Par(q)[new] = 0 /\ lev[new] = 0
    BY <1>3, <1>4, <1>5 DEF Kids, Par
  <2> HIDE DEF lev
  <2> QED BY <1>3, <2>1 DEF Linked
<1>7. FullAt(q, new, lev, {}, new)
  BY <1>3, <1>4, <1>5 DEF FullAt
<1> HIDE DEF lev
<1>8. Tree(q, new, Tail(free), lev, {}, {})
  BY <1>3, <1>5, <1>6, <1>7 DEF Tree, Stocked
<1>9. Whole(q, new, Tail(free))
  BY <1>8, TreeIsWhole
<1> QED BY <1>9 DEF q, g, new

LEMMA IntoLeafHolds ==
  ASSUME NEW lev, Grown(lev), NEW k \in Key, NEW n \in Used(free), page[n].leaf,
         page[n].space >= Size[k]
  PROVE  Tree(IntoLeaf(n, k), root, free, lev, {}, {})
<1> DEFINE keys == WithKey(page[n].keys, k)
           space == page[n].space - Size[k]
           g == Refilled(page[n], keys, space)
<1>1. /\ n \in PageNumber /\ page[n] \in Page /\ PageOK(page[n])
      /\ n # root => Enough(page[n])
  BY TreePage DEF Grown
<1>2. /\ page[n].keys \in Seq(Key) /\ page[n].space \in Nat
      /\ page[n].space + SpaceFor(page[n].keys) = MAX_FREE_SPACE
      /\ page[n].children = << >> /\ Range(<< >>) = {}
  BY <1>1, PageFields DEF PageOK, Range
<1>3. IntoLeaf(n, k) = [page EXCEPT ![n] = g]
  BY DEF IntoLeaf, Refilled
<1>4. /\ keys \in Seq(Key) /\ SpaceFor(keys) = SpaceFor(page[n].keys) + Size[k]
  BY <1>2, WithKeyOK
<1>5. /\ space \in Nat /\ space + SpaceFor(keys) = MAX_FREE_SPACE /\ space <= page[n].space
  <2> DEFINE a == page[n].space
             b == SpaceFor(page[n].keys)
             s == Size[k]
  <2>1. a \in Nat /\ b \in Nat /\ s \in Nat /\ a >= s /\ a + b = MAX_FREE_SPACE
    <3>1. b \in Nat
      BY <1>2, SpaceJoined
    <3> QED BY <1>2, <3>1, SizeIsNat
  <2> HIDE DEF a, b, s
  <2>2. a - s \in Nat /\ (a - s) + (b + s) = MAX_FREE_SPACE /\ a - s <= a
    BY <2>1
  <2> QED BY <1>4, <2>2 DEF a, b, s
<1> HIDE DEF keys, space
<1>6. IsLeaf(g, page[n].parent, keys, space)
  <2> DEFINE f == page[n]
  <2>1. f \in Page /\ f.leaf /\ PageOK(f)
    BY <1>1
  <2> HIDE DEF f
  <2>2. IsLeaf(Refilled(f, keys, space), f.parent, keys, space)
    BY <1>4, <1>5, <2>1, LeafReplaced
  <2> QED BY <2>2 DEF f
<1> HIDE DEF g
<1>7. n # root => Enough(g)
  <2> SUFFICES ASSUME n # root PROVE Enough(g)
    OBVIOUS
  <2> DEFINE a == page[n].space
  <2>1. a \in Nat /\ a < THRESHOLD /\ space <= a /\ space \in Nat
    BY <1>1, <1>2, <1>5 DEF Enough
  <2> HIDE DEF a
  <2>2. space < THRESHOLD
    BY <2>1, Constants
  <2> QED BY <1>6, <2>2 DEF Enough, IsLeaf
<1>8. Tree([page EXCEPT ![n] = g], root, free, lev, {}, {})
  <2>1. Tree(page, root, free, lev, {}, {})
    BY DEF Grown
  <2>2. /\ g \in Page /\ PageOK(g) /\ g.leaf = page[n].leaf /\ g.parent = page[n].parent
        /\ Range(g.children) = Range(page[n].children)
        /\ IF n = root THEN Rooted(g) ELSE Enough(g)
    <3>1. page[n].leaf = TRUE /\ g.leaf = TRUE
      BY <1>1, <1>6, PageFields DEF IsLeaf
    <3> QED BY <1>2, <1>6, <1>7, <3>1 DEF IsLeaf
  <2>3. Replaces(page, root, free, n, g, {}, {})
    BY <2>2 DEF Replaces
  <2> QED BY <2>1, <2>3, OneReplaced
<1> QED BY <1>3, <1>8

\* The keys that stay in a leaf that is split, and those that go, fill both leaves enough.
SplitsEvenly(keys) ==
  /\ Kept(keys) \in Nat /\ Kept(keys) + 1 \in 1 .. Len(keys)
  /\ SubSeq(keys, 1, Kept(keys)) \in Seq(Key)
  /\ SubSeq(keys, Kept(keys) + 1, Len(keys)) \in Seq(Key)
  /\ SpaceFor(SubSeq(keys, 1, Kept(keys))) <= MAX_FREE_SPACE
  /\ MAX_FREE_SPACE - SpaceFor(SubSeq(keys, 1, Kept(keys))) < THRESHOLD
  /\ SpaceFor(SubSeq(keys, Kept(keys) + 1, Len(keys))) <= MAX_FREE_SPACE
  /\ MAX_FREE_SPACE - SpaceFor(SubSeq(keys, Kept(keys) + 1, Len(keys))) < THRESHOLD

LEMMA HalfAndHalf ==
  ASSUME NEW keys \in Seq(Key), NEW k \in Key, SpaceFor(keys) > MAX_FREE_SPACE,
         SpaceFor(keys) <= MAX_FREE_SPACE + Size[k]
  PROVE  SplitsEvenly(keys)
<1> DEFINE Half == MAX_FREE_SPACE \div 2
           S == {m \in 0 .. Len(keys) : SpaceFor(SubSeq(keys, 1, m)) < Half}
           m == Kept(keys)
           a == SubSeq(keys, 1, m)
           b == SubSeq(keys, m + 1, Len(keys))
           j == m + 1
<1>1. Len(keys) \in Nat /\ \A i \in 1 .. Len(keys) : keys[i] \in Key
  BY InRange
<1>2. /\ Half \in Nat /\ 2 * Half <= MAX_FREE_SPACE /\ MAX_FREE_SPACE <= 2 * Half + 1
      /\ MAX_FREE_SPACE \in Nat /\ THRESHOLD \in Nat
      /\ \A x \in Key : Size[x] \in Nat \ {0} /\ 2 * Size[x] <= Half
      /\ \A x \in Key : (MAX_FREE_SPACE - Half) + Size[x] < THRESHOLD
  BY Constants, SizeIsNat, DeletionAssumption
<1> HIDE DEF Half
<1>3. Half > 0
  BY <1>2
<1>4. SpaceFor(keys) \in Nat /\ SpaceFor(<< >>) = 0
  <2>1. << >> \in Seq(Key)
    OBVIOUS
  <2> QED BY <2>1, SpaceJoined, SpaceSingle
<1>5. 0 \in S
  <2>1. SubSeq(keys, 1, 0) = << >>
    OBVIOUS
  <2>2. SpaceFor(SubSeq(keys, 1, 0)) < Half
    BY <1>2, <1>3, <1>4, <2>1
  <2>3. 0 \in 0 .. Len(keys)
    BY <1>1
  <2> QED BY <2>2, <2>3
<1>6. m \in S /\ \A y \in S : y <= m
  <2>1. m = Max(S)
    BY DEF Kept, Half
  <2>2. S \in SUBSET (0 .. Len(keys)) /\ S # {}
    BY <1>5
  <2> HIDE DEF S
  <2> QED BY <1>1, <2>1, <2>2, Largest
<1>7. m \in 0 .. Len(keys) /\ SpaceFor(a) < Half
  BY <1>6
<1>8. m # Len(keys)
  <2> SUFFICES ASSUME m = Len(keys) PROVE FALSE
    OBVIOUS
  <2>1. a = keys
    BY <1>1
  <2> DEFINE y == SpaceFor(keys)
  <2>2. y \in Nat /\ y < Half /\ y > MAX_FREE_SPACE
    BY <1>4, <1>7, <2>1
  <2> HIDE DEF y
  <2> QED BY <1>2, <2>2
<1> HIDE DEF m
<1>9. j \in 1 .. Len(keys) /\ j \in 1 .. Len(keys) + 1 /\ j - 1 = m /\ j \in 0 .. Len(keys) /\ m \in Nat
  BY <1>1, <1>7, <1>8
<1>10. j \notin S
  <2>1. ~(j <= m)
    BY <1>9
  <2> HIDE DEF S, j
  <2> QED BY <1>6, <2>1
<1>11. ~(SpaceFor(SubSeq(keys, 1, j)) < Half)
  BY <1>9, <1>10
<1> HIDE DEF S, j
<1>12. SubSeq(keys, 1, j) = a \o <<keys[j]>>
  BY <1>9, OneMore
<1>13. /\ Joins(Key, SubSeq(keys, 1, j - 1), SubSeq(keys, j, Len(keys)), keys)
  BY <1>9, CutInTwo
<1>14. Joins(Key, a, b, keys)
  BY <1>9, <1>13 DEF j
<1> HIDE DEF a, b
<1>15. a \in Seq(Key) /\ b \in Seq(Key) /\ keys = a \o b
  BY <1>14 DEF Joins
<1>16. keys[j] \in Key /\ <<keys[j]>> \in Seq(Key)
  BY <1>1, <1>9
<1> DEFINE A == SpaceFor(a)
           B == SpaceFor(b)
           s == Size[keys[j]]
           t == Size[k]
           M == MAX_FREE_SPACE
           H == THRESHOLD
<1>17. /\ A \in Nat /\ B \in Nat /\ SpaceFor(keys) = A + B
       /\ SpaceFor(SubSeq(keys, 1, j)) = A + s
  BY <1>12, <1>15, <1>16, SpaceJoined, SpaceSingle
<1>18. /\ s \in Nat /\ t \in Nat /\ 2 * s <= Half /\ 2 * t <= Half
       /\ (M - Half) + s < H /\ (M - Half) + t < H /\ M \in Nat /\ H \in Nat
       /\ 2 * Half <= M /\ M <= 2 * Half + 1
  BY <1>2, <1>16
<1>19. A < Half /\ A + B > M /\ A + B <= M + t /\ ~(A + s < Half)
  BY <1>7, <1>11, <1>17
<1> HIDE DEF A, B, s, t, M, H
<1>20. A <= M /\ M - A < H
  BY <1>2, <1>17, <1>18, <1>19
<1>21. B <= M
  BY <1>2, <1>17, <1>18, <1>19
<1>22. M - B < H
  BY <1>2, <1>17, <1>18, <1>19
<1>23. m + 1 \in 1 .. Len(keys)
  BY <1>9 DEF j
<1> QED BY <1>9, <1>15, <1>20, <1>21, <1>22, <1>23 DEF SplitsEvenly, A, B, M, H, a, b, m

LEMMA SplitLeafHolds ==
  ASSUME NEW lev, Grown(lev), NEW k \in Key, NEW n \in Used(free), page[n].leaf,
         page[n].space < Size[k], Len(free) >= lev[root] + 2
  PROVE  Climbs(SplitLeaf(n, k), 0)
<1> DEFINE U == Used(free)
           new == Head(free)
           keys == WithKey(page[n].keys, k)
           parent == page[n].parent
           g == LeafPage(parent, SubSeq(keys, 1, Kept(keys)), new)
           h == LeafPage(parent, SubSeq(keys, Kept(keys) + 1, Len(keys)), page[n].right)
           q == [page EXCEPT ![n] = g, ![new] = h]
           c == SplitLeaf(n, k)
           lew == [m \in PageNumber |-> IF m = new THEN lev[n] ELSE lev[m]]
<1>1. /\ n \in PageNumber /\ page[n] \in Page /\ PageOK(page[n]) /\ lev[n] = 0
      /\ \A x \in Range(page[n].children) : FALSE
  <2>1. n \in PageNumber /\ page[n] \in Page /\ PageOK(page[n]) /\ lev[n] = 0
    BY TreePage DEF Grown
  <2>2. page[n].children = << >>
    BY <2>1 DEF PageOK
  <2> QED BY <2>1, <2>2 DEF Range
<1>2. /\ page[n].keys \in Seq(Key) /\ page[n].space \in Nat /\ parent \in Nat /\ page[n].right \in Nat
      /\ page[n].space + SpaceFor(page[n].keys) = MAX_FREE_SPACE
  BY <1>1, PageFields DEF PageOK
<1>3. /\ page \in [PageNumber -> Page] /\ free \in Seq(PageNumber) /\ IsInjective(free)
      /\ Linked(Kids(page), Par(page), U, root, lev, {}) /\ Stocked(page, U, root, lev, {})
      /\ U \subseteq PageNumber
  BY DEF Grown, Tree, Used
<1>4. /\ root \in U /\ \A m \in U : lev[m] \in Nat /\ lev[m] <= lev[root]
  <2>1. root \in U /\ \A m \in U : lev[m] \in Nat
    BY <1>3 DEF Linked
  <2> QED BY <2>1, RootOnTop DEF Grown
<1>5. lev[root] + 1 <= P_NUMBER - 1
  BY FewLevels DEF Grown
<1>6. Len(free) >= 1 /\ Len(free) - 1 >= lev[root] + 1
  <2> DEFINE z == Len(free)
             y == lev[root]
  <2>1. z \in Nat /\ y \in Nat /\ z >= y + 2
    BY <1>3, <1>4
  <2> HIDE DEF z, y
  <2>2. z >= 1 /\ z - 1 >= y + 1
    BY <2>1
  <2> QED BY <2>2 DEF z, y
<1>7. /\ new \in PageNumber /\ new \notin U /\ new \in Nat
      /\ Tail(free) \in Seq(PageNumber) /\ IsInjective(Tail(free))
      /\ Len(Tail(free)) = Len(free) - 1
      /\ Used(Tail(free)) = U \union {new}
  BY <1>3, <1>6, Popped, PageNumbers
<1> HIDE DEF new
<1>8. /\ keys \in Seq(Key) /\ SpaceFor(keys) > MAX_FREE_SPACE
      /\ SpaceFor(keys) <= MAX_FREE_SPACE + Size[k]
  <2>1. keys \in Seq(Key) /\ SpaceFor(keys) = SpaceFor(page[n].keys) + Size[k]
    BY <1>2, WithKeyOK
  <2> DEFINE a == page[n].space
             b == SpaceFor(page[n].keys)
             s == Size[k]
             M == MAX_FREE_SPACE
  <2>2. a \in Nat /\ b \in Nat /\ s \in Nat /\ a < s /\ a + b = M /\ M \in Nat
    <3>1. b \in Nat
      BY <1>2, SpaceJoined
    <3> QED BY <1>2, <3>1, SizeIsNat, Constants
  <2> HIDE DEF a, b, s, M
  <2>3. b + s > M /\ b + s <= M + s
    BY <2>2
  <2> QED BY <2>1, <2>3 DEF b, s, M
<1> HIDE DEF keys
<1>9. SplitsEvenly(keys)
  BY <1>8, HalfAndHalf
<1> HIDE DEF parent
<1>10. IsLeaf(g, parent, SubSeq(keys, 1, Kept(keys)), MAX_FREE_SPACE - SpaceFor(SubSeq(keys, 1, Kept(keys))))
  <2> DEFINE s == SubSeq(keys, 1, Kept(keys))
  <2>1. s \in Seq(Key) /\ SpaceFor(s) <= MAX_FREE_SPACE
    BY <1>9 DEF SplitsEvenly
  <2> HIDE DEF s
  <2>2. IsLeaf(LeafPage(parent, s, new), parent, s, MAX_FREE_SPACE - SpaceFor(s))
    BY <1>2, <1>7, <2>1, LeafOK
  <2> QED BY <2>2 DEF s
<1>11. IsLeaf(h, parent, SubSeq(keys, Kept(keys) + 1, Len(keys)),
              MAX_FREE_SPACE - SpaceFor(SubSeq(keys, Kept(keys) + 1, Len(keys))))
  <2> DEFINE s == SubSeq(keys, Kept(keys) + 1, Len(keys))
             x == page[n].right
  <2>1. s \in Seq(Key) /\ SpaceFor(s) <= MAX_FREE_SPACE /\ x \in Nat
    BY <1>2, <1>9 DEF SplitsEvenly
  <2> HIDE DEF s, x
  <2>2. IsLeaf(LeafPage(parent, s, x), parent, s, MAX_FREE_SPACE - SpaceFor(s))
    BY <1>2, <2>1, LeafOK
  <2> QED BY <2>2 DEF s, x
<1> HIDE DEF g, h
<1>12. Enough(g) /\ Enough(h)
  BY <1>9, <1>10, <1>11 DEF IsLeaf, Enough, SplitsEvenly
<1>13. /\ PageOK(g) /\ PageOK(h) /\ g.leaf /\ h.leaf /\ g \in Page /\ h \in Page /\ Rooted(g)
       /\ g.parent = parent /\ h.parent = parent /\ Range(g.children) = {} /\ Range(h.children) = {}
  BY <1>10, <1>11 DEF IsLeaf
<1>14. /\ q \in [PageNumber -> Page] /\ q[n] = g /\ q[new] = h
       /\ \A m \in PageNumber : m # n /\ m # new => q[m] = page[m]
  <2>1. n # new
    BY <1>7
  <2> QED BY <1>1, <1>3, <1>7, <1>13, <2>1
<1>15. c = [page |-> q, root |-> root, free |-> Tail(free), left |-> n,
            key |-> keys[Kept(keys) + 1], right |-> new]
  BY DEF SplitLeaf, Climbing, q, g, h, keys, parent, new
<1> HIDE DEF q, c
<1>16. /\ IsClimb(c) /\ c.page = q /\ c.root = root /\ c.free = Tail(free) /\ c.left = n
       /\ c.right = new
  <2>1. keys[Kept(keys) + 1] \in Key
    BY <1>8, <1>9, InRange DEF SplitsEvenly
  <2>2. n \in Nat /\ root \in Nat
    BY <1>1, <1>3, <1>4, PageNumbers
  <2> QED BY <1>7, <1>14, <1>15, <2>1, <2>2 DEF IsClimb
<1>17. \A m \in U : m # new /\ m \in PageNumber
  BY <1>3, <1>7
<1>18. /\ \A m \in U : lew[m] = lev[m]
       /\ lew[new] = lev[n]
  BY <1>7, <1>17
<1> HIDE DEF lew
<1>19. Linked(Kids(q), Par(q), U \union {new}, root, lew, {new})
  <2> DEFINE K == Kids(page)
             P == Par(page)
             L == Kids(q)
             Q == Par(q)
  <2>1. \A m \in U : m # n => L[m] = K[m]
    BY <1>14, <1>17 DEF Kids
  <2>2. L[n] = {} /\ L[new] = {}
    BY <1>1, <1>7, <1>13, <1>14 DEF Kids
  <2>3. K[n] = {}
    BY <1>1 DEF Kids
  <2>4. \A m \in U : Q[m] = P[m]
    BY <1>13, <1>14, <1>17 DEF Par, parent
  <2>5. Q[new] = P[n]
    BY <1>1, <1>7, <1>13, <1>14 DEF Par, parent
  <2>6. Linked(K, P, U, root, lev, {})
    BY <1>3
  <2> HIDE DEF K, P, L, Q
  <2>7. SplitLinks(K, P, U, root, lev, {}, L, Q, lew, n, new)
    BY <1>7, <1>18, <2>1, <2>2, <2>3, <2>4, <2>5, <2>6 DEF SplitLinks
  <2>8. Linked(L, Q, U \union {new}, root, lew, {new})
    BY <2>7, LinkedSplit
  <2> QED BY <2>8 DEF L, Q
<1>20. ASSUME NEW m \in U \union {new} PROVE FullAt(q, root, lew, {}, m)
  <2>1. CASE m = new
    <3>1. root # new
      BY <1>4, <1>17
    <3> QED BY <1>1, <1>12, <1>13, <1>14, <1>18, <2>1, <3>1 DEF FullAt
  <2>2. CASE m = n
    BY <1>1, <1>12, <1>13, <1>14, <1>18, <2>2 DEF FullAt
  <2>3. CASE m # n /\ m # new
    <3>1. FullAt(page, root, lev, {}, m) /\ q[m] = page[m] /\ m \in PageNumber /\ m \in U
      BY <1>3, <1>14, <1>17, <2>3 DEF Stocked
    <3> QED BY <1>18, <3>1 DEF FullAt
  <2> QED BY <2>1, <2>2, <2>3
<1>21. Tree(q, root, Tail(free), lew, {new}, {})
  BY <1>7, <1>14, <1>19, <1>20 DEF Tree, Stocked
<1>22. \A m \in U \union {new} : lew[m] <= lew[root]
  BY <1>4, <1>18
<1>23. Hangs(c, lew, 0)
  <2>1. /\ lew[n] = 0 /\ lew[new] = 0 /\ n # new /\ n \in Used(Tail(free))
        /\ new \in Used(Tail(free)) /\ q[n].parent = q[new].parent /\ Enough(q[n])
    BY <1>1, <1>7, <1>12, <1>13, <1>14, <1>17, <1>18
  <2>2. lew[root] + 1 <= P_NUMBER - 1 /\ Len(Tail(free)) >= (lew[root] - 0) + 1
    BY <1>4, <1>5, <1>6, <1>7, <1>18
  <2> QED BY <1>7, <1>16, <1>21, <1>22, <2>1, <2>2 DEF Hangs
<1>24. c.left # 0
  BY <1>1, <1>16, PageNumbers
<1> QED BY <1>16, <1>23, <1>24 DEF Climbs, c

\* db_insert keeps the tree whole.
LEMMA InsertHolds ==
  ASSUME Whole(page, root, free), NEW k \in Key, Insert(k)
  PROVE  Whole(page, root, free)'
<1>1. CASE InsertFirst(k)
  <2>1. Bare(page, free)
    BY <1>1 DEF InsertFirst, Whole
  <2>2. Whole([page EXCEPT ![Head(free)] = LeafPage(0, <<k>>, 0)], Head(free), Tail(free))
    BY <2>1, FirstHolds
  <2> QED BY <1>1, <2>2 DEF InsertFirst
<1>2. CASE InsertPresent(k)
  BY <1>2 DEF InsertPresent, vars
<1>3. ASSUME root # 0
      PROVE  /\ FindLeaf(k) \in Used(free) /\ page[FindLeaf(k)].leaf
             /\ \E lev : Grown(lev) /\ Depth[FindLeaf(k)] = lev[root]
  <2>1. PICK lev : Tree(page, root, free, lev, {}, {})
    BY <1>3 DEF Whole
  <2>2. Grown(lev)
    BY <2>1 DEF Grown
  <2>3. FindLeaf(k) \in InUse /\ page[FindLeaf(k)].leaf
    BY <2>2, FindsLeaf
  <2>4. FindLeaf(k) \in Used(free)
    BY <2>3, UsedIsInUse
  <2>5. lev[FindLeaf(k)] = 0
    BY <2>1, <2>3, <2>4, TreePage
  <2>6. Depth[FindLeaf(k)] = lev[root] - lev[FindLeaf(k)]
    BY <2>2, <2>3, Depths
  <2>7. lev[root] \in Nat
    BY <2>1 DEF Tree, Linked
  <2>8. Depth[FindLeaf(k)] = lev[root]
    BY <2>5, <2>6, <2>7
  <2> QED BY <2>2, <2>3, <2>4, <2>8
<1>4. CASE InsertIntoLeaf(k)
  <2> DEFINE n == FindLeaf(k)
  <2>1. root # 0 /\ page[n].space >= Size[k] /\ page' = IntoLeaf(n, k) /\ root' = root /\ free' = free
    BY <1>4 DEF InsertIntoLeaf
  <2>2. n \in Used(free) /\ page[n].leaf /\ \E lev : Grown(lev) /\ Depth[n] = lev[root]
    BY <1>3, <2>1
  <2>3. PICK lev : Grown(lev)
    BY <2>2
  <2> HIDE DEF n
  <2>4. Tree(IntoLeaf(n, k), root, free, lev, {}, {})
    BY <2>1, <2>2, <2>3, IntoLeafHolds
  <2>5. Whole(IntoLeaf(n, k), root, free)
    BY <2>4, TreeIsWhole
  <2> QED BY <2>1, <2>5
<1>5. CASE InsertSplitting(k)
  <2> DEFINE n == FindLeaf(k)
             c == Climb(SplitLeaf(n, k))
  <2>1. /\ root # 0 /\ page[n].space < Size[k] /\ EnoughPages(n)
        /\ page' = c.page /\ root' = c.root /\ free' = c.free
    BY <1>5 DEF InsertSplitting
  <2>2. n \in Used(free) /\ page[n].leaf /\ \E lev : Grown(lev) /\ Depth[n] = lev[root]
    BY <1>3, <2>1
  <2>3. PICK lev : Grown(lev) /\ Depth[n] = lev[root]
    BY <2>2
  <2> HIDE DEF n
  <2>4. Len(free) >= lev[root] + 2
    BY <2>1, <2>3 DEF EnoughPages
  <2>5. Climbs(SplitLeaf(n, k), 0)
    BY <2>1, <2>2, <2>3, <2>4, SplitLeafHolds
  <2>6. PICK lew : Tree(c.page, c.root, c.free, lew, {}, {})
    BY <2>5, ClimbHolds
  <2> HIDE DEF c
  <2>7. Whole(c.page, c.root, c.free)
    BY <2>6, TreeIsWhole
  <2> QED BY <2>1, <2>7
<1> QED BY <1>1, <1>2, <1>4, <1>5 DEF Insert

-----------------------------------------------------------------------------
(* Damage stays.                                                           *)

\* A deletion that has damaged the tree.
Hurt(c) == "damaged" \in DOMAIN c /\ c.damaged = TRUE

\* What db_delete_entry does after it has removed the entry.
Continue(d) ==
  IF d.n = d.root
  THEN IF Len(d.page[d.root].keys) > 0 THEN [d EXCEPT !.n = 0] ELSE AdjustRoot(d)
  ELSE IF Filled(d.page, d.n) THEN [d EXCEPT !.n = 0]
  ELSE Refill(d)

LEMMA DeleteEntryIs ==
  ASSUME NEW c
  PROVE  DeleteEntry(c) = Continue(RemoveEntry(c))
BY DEF DeleteEntry, Continue

LEMMA HurtRemoved ==
  ASSUME NEW c, Hurt(c)
  PROVE  Hurt(RemoveEntry(c))
<1>1. Hurt(RemoveFromLeaf(c))
  BY DEF Hurt, RemoveFromLeaf
<1>2. Hurt(RemoveFromInternal(c))
  BY DEF Hurt, RemoveFromInternal
<1> QED BY <1>1, <1>2 DEF RemoveEntry

LEMMA HurtAdjusted ==
  ASSUME NEW c, Hurt(c)
  PROVE  Hurt(AdjustRoot(c)) /\ Hurt([c EXCEPT !.n = 0])
BY DEF Hurt, AdjustRoot

LEMMA HurtRefilled ==
  ASSUME NEW c, Hurt(c), NEW n, NEW neighbor, NEW i, NEW s
  PROVE  /\ Hurt(Coalesce(c, n, neighbor, s)) /\ Hurt(Redistribute(c, neighbor, n, i))
<1>1. Hurt(Coalesce(c, n, neighbor, s))
  BY SMTT(30) DEF Hurt, Coalesce
<1>2. Hurt(TakeFromLeft(c, neighbor, n, i))
  BY ZenonT(40) DEF Hurt, TakeFromLeft
<1>3. Hurt(TakeFromRight(c, n, neighbor, 1))
  BY ZenonT(40) DEF Hurt, TakeFromRight
<1>4. Hurt(TakeLastChild(c, neighbor, n, i))
  BY ZenonT(40) DEF Hurt, TakeLastChild
<1>5. Hurt(TakeFirstChild(c, n, neighbor, 1))
  BY ZenonT(40) DEF Hurt, TakeFirstChild
<1> QED BY <1>1, <1>2, <1>3, <1>4, <1>5 DEF Redistribute

LEMMA HurtContinued ==
  ASSUME NEW c, Hurt(c)
  PROVE  Hurt(Continue(c))
BY HurtAdjusted, HurtRefilled DEF Continue, Refill

-----------------------------------------------------------------------------
(* The climb of a deletion.                                                *)

IsDelete(c) == c \in [page : [PageNumber -> Page], root : Nat, free : Seq(PageNumber),
                      damaged : BOOLEAN, n : Nat, key : Key, pointer : Nat]

\* An entry is gone from the page n, on the level i, which may be too empty now.
Lean(d, lev, i) ==
  /\ Tree(d.page, d.root, d.free, lev, {}, {d.n})
  /\ d.n \in Used(d.free) /\ lev[d.n] = i
  /\ d.n # d.root => \/ d.page[d.n].leaf
                     \/ Len(d.page[d.n].keys) + 2 >= MAX_KEY_NUMBER \div 2

Leans(d, i) == IsDelete(d) /\ d.damaged = FALSE /\ \E lev : Lean(d, lev, i)

\* An entry is to be removed from the page n, on the level i, which exists, or nothing is
\* left to do.
Due(c, i) ==
  \/ Hurt(c)
  \/ /\ IsDelete(c) /\ c.damaged = FALSE
     /\ IF c.n = 0 THEN Whole(c.page, c.root, c.free)
        ELSE i + 1 <= P_NUMBER - 1 /\ (Hurt(RemoveEntry(c)) \/ Leans(RemoveEntry(c), i))

LEMMA LinkedSame ==
  ASSUME NEW K, NEW P, NEW U, NEW r, NEW lev, NEW out, Linked(K, P, U, r, lev, out),
         NEW L, NEW Q, \A m \in U : L[m] = K[m] /\ Q[m] = P[m]
  PROVE  Linked(L, Q, U, r, lev, out)
BY DEF Linked

\* Pages with the same parents and children make the same tree.
Same(p, q, r, fr, lev, mean) ==
  /\ q \in [PageNumber -> Page]
  /\ \A m \in Used(fr) : /\ q[m].parent = p[m].parent
                         /\ Range(q[m].children) = Range(p[m].children)
                         /\ FullAt(q, r, lev, mean, m)

LEMMA TreeSame ==
  ASSUME NEW p, NEW r, NEW fr, NEW lev, NEW out, NEW lean, Tree(p, r, fr, lev, out, lean),
         NEW q, NEW mean, Same(p, q, r, fr, lev, mean)
  PROVE  Tree(q, r, fr, lev, out, mean)
<1> DEFINE U == Used(fr)
           K == Kids(p)
           P == Par(p)
           L == Kids(q)
           Q == Par(q)
<1>1. U \subseteq PageNumber
  BY DEF Used
<1>2. \A m \in U : L[m] = K[m] /\ Q[m] = P[m]
  BY <1>1 DEF Same, Kids, Par
<1>3. Linked(K, P, U, r, lev, out)
  BY DEF Tree
<1> HIDE DEF K, P, L, Q
<1>4. Linked(L, Q, U, r, lev, out)
  BY <1>2, <1>3, LinkedSame
<1> QED BY <1>4 DEF Tree, Same, Stocked, L, Q

\* A page that is full enough after all.
LEMMA NotLean ==
  ASSUME NEW d, NEW lev, NEW i, Lean(d, lev, i),
         IF d.n = d.root THEN Rooted(d.page[d.n]) ELSE Enough(d.page[d.n])
  PROVE  Tree(d.page, d.root, d.free, lev, {}, {})
<1>1. \A m \in Used(d.free) : FullAt(d.page, d.root, lev, {d.n}, m)
  BY DEF Lean, Tree, Stocked
<1>2. \A m \in Used(d.free) : FullAt(d.page, d.root, lev, {}, m)
  BY <1>1 DEF FullAt
<1> QED BY <1>2 DEF Lean, Tree, Stocked

LEMMA EndOfDelete ==
  ASSUME NEW d, NEW i, Leans(d, i), NEW lev, Tree(d.page, d.root, d.free, lev, {}, {}), NEW j
  PROVE  Due([d EXCEPT !.n = 0], j)
<1> DEFINE c == [d EXCEPT !.n = 0]
<1>1. /\ IsDelete(c) /\ c.damaged = FALSE /\ c.n = 0 /\ c.page = d.page /\ c.root = d.root
      /\ c.free = d.free
  BY DEF Leans, IsDelete
<1> HIDE DEF c
<1>2. Whole(c.page, c.root, c.free)
  BY <1>1, TreeIsWhole
<1>3. Due(c, j)
  BY <1>1, <1>2 DEF Due
<1> QED BY <1>3 DEF c

\* The record of a key is gone from its leaf.
LEMMA StartHolds ==
  ASSUME NEW lev, Grown(lev), NEW k \in Key, Found(k)
  PROVE  Due(Deleting(k), 0)
<1> DEFINE n == FindLeaf(k)
           f == page[n]
           keys == WithoutKey(f.keys, k)
           space == f.space + Size[k]
           g == Refilled(f, keys, space)
           q == [page EXCEPT ![n] = g]
           c == Deleting(k)
           d == RemoveEntry(c)
<1>1. n \in Used(free) /\ f.leaf /\ k \in Range(f.keys)
  BY FindsLeaf, UsedIsInUse DEF Found
<1> HIDE DEF n
<1>2. /\ Tree(page, root, free, lev, {}, {}) /\ n \in PageNumber /\ f \in Page /\ PageOK(f)
      /\ lev[n] = 0
  BY <1>1, TreePage DEF Grown
<1>3. /\ page \in [PageNumber -> Page] /\ free \in Seq(PageNumber) /\ root \in Nat
      /\ n \in Nat /\ n # 0
  BY <1>2, PageNumbers DEF Tree, Linked
<1>4. /\ c = [page |-> page, root |-> root, free |-> free, damaged |-> FALSE,
              n |-> n, key |-> k, pointer |-> 0]
  BY DEF Deleting, n
<1> HIDE DEF c
<1>5. /\ IsDelete(c) /\ c.damaged = FALSE /\ c.n = n /\ c.page = page /\ c.root = root
      /\ c.free = free /\ c.key = k
  BY <1>3, <1>4 DEF IsDelete
<1>6. d = [c EXCEPT !.page = q]
  BY <1>1, <1>5 DEF RemoveEntry, RemoveFromLeaf, Refilled
<1> HIDE DEF d
<1>7. /\ f.keys \in Seq(Key) /\ f.space \in Nat /\ f.space + SpaceFor(f.keys) = MAX_FREE_SPACE
  BY <1>1, <1>2, PageFields DEF PageOK
<1>8. keys \in Seq(Key) /\ SpaceFor(keys) + Size[k] = SpaceFor(f.keys)
  BY <1>1, <1>7, WithoutKeyOK
<1>9. space \in Nat /\ space + SpaceFor(keys) = MAX_FREE_SPACE
  <2> DEFINE a == f.space
             b == SpaceFor(keys)
             s == Size[k]
  <2>1. a \in Nat /\ b \in Nat /\ s \in Nat /\ a + (b + s) = MAX_FREE_SPACE
    BY <1>7, <1>8, SpaceJoined, SizeIsNat
  <2> HIDE DEF a, b, s
  <2>2. a + s \in Nat /\ (a + s) + b = MAX_FREE_SPACE
    BY <2>1
  <2> QED BY <2>2 DEF a, b, s
<1> HIDE DEF keys, space
<1>10. IsLeaf(g, f.parent, keys, space)
  <2>1. f \in Page /\ f.leaf /\ PageOK(f)
    BY <1>1, <1>2
  <2> HIDE DEF f
  <2> QED BY <1>8, <1>9, <2>1, LeafReplaced
<1> HIDE DEF g
<1>11. g \in Page /\ q \in [PageNumber -> Page] /\ q[n] = g
  BY <1>2, <1>3, <1>10 DEF IsLeaf
<1>12. Tree(q, root, free, lev, {}, {n})
  <2>1. f.leaf = TRUE /\ g.leaf = TRUE /\ f.children = << >> /\ Range(<< >>) = {}
    BY <1>1, <1>2, <1>10, PageFields DEF IsLeaf, PageOK, Range
  <2>2. Replaces(page, root, free, n, g, {}, {n})
    BY <1>1, <1>10, <2>1 DEF Replaces, IsLeaf
  <2> QED BY <1>2, <2>2, OneReplaced
<1> HIDE DEF q
<1>13. /\ IsDelete(d) /\ d.damaged = FALSE /\ d.n = n /\ d.page = q /\ d.root = root
       /\ d.free = free
  BY <1>5, <1>6, <1>11 DEF IsDelete
<1>14. q[n].leaf
  BY <1>10, <1>11 DEF IsLeaf
<1>15. Leans(d, 0)
  BY <1>1, <1>2, <1>12, <1>13, <1>14 DEF Leans, Lean
<1>16. 0 + 1 <= P_NUMBER - 1
  BY PageNumbers
<1> QED BY <1>3, <1>5, <1>15, <1>16 DEF Due, c, d

LEMMA EnoughIsRooted ==
  ASSUME NEW g \in Page, Enough(g)
  PROVE  Rooted(g)
<1>1. Len(g.keys) \in Nat
  BY PageFields
<1> DEFINE z == Len(g.keys)
<1>2. CASE ~g.leaf
  <2>1. z \in Nat /\ z + 1 >= MAX_KEY_NUMBER \div 2
    BY <1>1, <1>2 DEF Enough
  <2> HIDE DEF z
  <2>2. z >= 1
    BY <2>1, Constants
  <2> QED BY <2>2 DEF Rooted, z
<1> QED BY <1>2 DEF Rooted

\* The last record of a table leaves no tree.
LEMMA NoneLeft ==
  ASSUME NEW d, NEW i, Leans(d, i), NEW lev, Lean(d, lev, i), d.page[d.root].leaf, NEW j
  PROVE  Due(AdjustRoot(d), j)
<1> DEFINE c == AdjustRoot(d)
           U == Used(d.free)
           r == d.root
           fr == <<r>> \o d.free
<1>1. /\ Tree(d.page, r, d.free, lev, {}, {d.n}) /\ IsDelete(d) /\ d.damaged = FALSE
  BY DEF Lean, Leans
<1>2. /\ d.page \in [PageNumber -> Page] /\ d.free \in Seq(PageNumber) /\ IsInjective(d.free)
      /\ r \in U
  BY <1>1 DEF Tree, Linked
<1>3. lev[r] = 0
  BY <1>1, <1>2, TreePage
<1>4. U = {r}
  <2>1. ASSUME NEW m \in U, m # r PROVE FALSE
    <3>1. d.page[m].parent \in U /\ lev[d.page[m].parent] = lev[m] + 1
      BY <1>1, <2>1, TreePage
    <3>2. lev[m] \in Nat /\ lev[m] + 1 <= 0
      BY <1>1, <1>3, <3>1, RootOnTop, TreePage
    <3> QED BY <3>2
  <2> QED BY <1>2, <2>1
<1>5. /\ fr \in Seq(PageNumber) /\ IsInjective(fr) /\ Used(fr) = U \ {r}
  BY <1>2, Pushed
<1> HIDE DEF fr, U
<1>6. c = [d EXCEPT !.page = d.page, !.root = 0, !.free = fr, !.n = 0]
  BY DEF AdjustRoot, fr
<1> HIDE DEF c, r
<1>7. /\ IsDelete(c) /\ c.damaged = FALSE /\ c.n = 0 /\ c.page = d.page /\ c.root = 0
      /\ c.free = fr
  BY <1>1, <1>2, <1>5, <1>6 DEF IsDelete
<1>8. Used(fr) = {}
  BY <1>4, <1>5
<1> QED BY <1>2, <1>5, <1>7, <1>8 DEF Due, Whole, Bare, c

\* The only child of the root becomes the root.
LEMMA ChildIsRoot ==
  ASSUME NEW d, NEW i, Leans(d, i), NEW lev, Lean(d, lev, i), d.n = d.root,
         ~d.page[d.root].leaf, ~(Len(d.page[d.root].keys) > 0), NEW j
  PROVE  Due(AdjustRoot(d), j)
<1> DEFINE c == AdjustRoot(d)
           p == d.page
           U == Used(d.free)
           r == d.root
           f == p[r]
           x == Head(f.children)
           fr == <<r>> \o d.free
           q == WithParent(p, {x}, 0)
<1>1. /\ Tree(p, r, d.free, lev, {}, {r}) /\ IsDelete(d) /\ d.damaged = FALSE
  BY DEF Lean, Leans
<1>2. /\ p \in [PageNumber -> Page] /\ d.free \in Seq(PageNumber) /\ IsInjective(d.free)
      /\ r \in U /\ Linked(Kids(p), Par(p), U, r, lev, {}) /\ U \subseteq PageNumber
      /\ \A m \in U : FullAt(p, r, lev, {r}, m)
  BY <1>1 DEF Tree, Linked, Stocked, Used
<1>3. f \in Page /\ PageOK(f) /\ ~f.leaf
  BY <1>1, <1>2, TreePage
<1>4. /\ f.children \in Seq(Nat \ {0}) /\ f.keys \in Seq(Key) /\ Len(f.children) = Len(f.keys) + 1
      /\ ~(Len(f.keys) > 0)
  BY <1>3, PageFields DEF PageOK
<1>5. Range(f.children) = {x}
  <2> DEFINE s == f.children
  <2>1. s \in Seq(Nat \ {0}) /\ Len(s) = 1
    <3> DEFINE z == Len(f.keys)
    <3>1. z \in Nat /\ Len(s) = z + 1 /\ ~(z > 0)
      BY <1>4
    <3> HIDE DEF z, s
    <3>2. Len(s) = 1
      BY <3>1
    <3> QED BY <1>4, <3>2 DEF s
  <2> HIDE DEF s
  <2>2. Head(s) = s[1] /\ DOMAIN s = {1}
    BY <2>1
  <2>3. Range(s) = {Head(s)}
    BY <2>2 DEF Range
  <2> QED BY <2>3 DEF s
<1>6. x \in U /\ x # r /\ x \in PageNumber /\ x \in Nat
  <2>1. x \in U /\ x # r
    BY <1>1, <1>2, <1>5, TreePage
  <2> QED BY <1>2, <2>1, PageNumbers
<1>7. /\ fr \in Seq(PageNumber) /\ IsInjective(fr) /\ Used(fr) = U \ {r}
  BY <1>2, Pushed
<1>8. c = [d EXCEPT !.page = q, !.root = x, !.free = fr, !.n = 0]
  BY <1>3 DEF AdjustRoot
<1>9. /\ q \in [PageNumber -> Page]
      /\ \A m \in PageNumber : /\ Alike(p[m], q[m])
                               /\ q[m].parent = IF m \in {x} THEN 0 ELSE p[m].parent
  <2>1. 0 \in Nat
    OBVIOUS
  <2> HIDE DEF p, x
  <2> QED BY <1>2, <2>1, NewParent
<1> HIDE DEF c, q, x, f, fr, U
<1>10. Linked(Kids(q), Par(q), U \ {r}, x, lev, {})
  <2> DEFINE K == Kids(p)
             P == Par(p)
             Q == Par(q)
  <2>1. Kids(q) = K
    BY <1>9 DEF Kids, Alike
  <2>2. K[r] = {x}
    BY <1>2, <1>5 DEF Kids, f
  <2>3. \A m \in U : Q[m] = IF m = x THEN 0 ELSE P[m]
    BY <1>2, <1>9 DEF Par
  <2>4. Linked(K, P, U, r, lev, {})
    BY <1>2
  <2> HIDE DEF K, P, Q, p, r
  <2>5. DownLinks(K, P, U, r, lev, Q, x)
    BY <2>2, <2>3, <2>4 DEF DownLinks
  <2>6. Linked(K, Q, U \ {r}, x, lev, {})
    BY <2>5, LinkedDown
  <2> QED BY <2>1, <2>6 DEF Q
<1>11. ASSUME NEW m \in U \ {r} PROVE FullAt(q, x, lev, {}, m)
  <2>1. FullAt(p, r, lev, {r}, m) /\ q[m] \in Page /\ Alike(p[m], q[m]) /\ m # r /\ p[m] \in Page
    BY <1>2, <1>9
  <2>2. CASE m # x
    <3> HIDE DEF p, r
    <3> QED BY <2>1, <2>2, FullAlike
  <2>3. CASE m = x
    <3>1. PageOK(p[m]) /\ Enough(p[m]) /\ (p[m].leaf <=> lev[m] = 0)
      BY <2>1 DEF FullAt
    <3>2. Rooted(p[m])
      BY <2>1, <3>1, EnoughIsRooted
    <3>3. PageOK(q[m]) /\ Rooted(q[m])
      BY <2>1, <3>1, <3>2, AlikeOK
    <3>4. q[m].leaf = p[m].leaf
      BY <2>1 DEF Alike
    <3> QED BY <2>3, <3>1, <3>3, <3>4 DEF FullAt
  <2> QED BY <2>2, <2>3
<1>12. Tree(q, x, fr, lev, {}, {})
  BY <1>7, <1>9, <1>10, <1>11 DEF Tree, Stocked
<1>13. /\ IsDelete(c) /\ c.damaged = FALSE /\ c.n = 0 /\ c.page = q /\ c.root = x
       /\ c.free = fr
  BY <1>1, <1>6, <1>7, <1>8, <1>9 DEF IsDelete
<1>14. Whole(q, x, fr)
  BY <1>12, TreeIsWhole
<1> QED BY <1>13, <1>14 DEF Due, c

LEMMA RootHolds ==
  ASSUME NEW d, NEW i, Leans(d, i), NEW lev, Lean(d, lev, i), d.n = d.root, NEW j
  PROVE  Due(Continue(d), j)
<1> DEFINE f == d.page[d.root]
<1>1. CASE Len(f.keys) > 0
  <2>1. Continue(d) = [d EXCEPT !.n = 0]
    BY <1>1 DEF Continue
  <2>2. f \in Page
    BY TreePage DEF Lean
  <2>3. Len(f.keys) \in Nat
    BY <2>2, PageFields
  <2>4. Rooted(d.page[d.n])
    <3> DEFINE z == Len(f.keys)
    <3>1. z \in Nat /\ z > 0
      BY <1>1, <2>3
    <3> HIDE DEF z
    <3>2. z >= 1
      BY <3>1
    <3> QED BY <3>2 DEF Rooted, z
  <2>5. Tree(d.page, d.root, d.free, lev, {}, {})
    BY <2>4, NotLean
  <2> QED BY <2>1, <2>5, EndOfDelete
<1>2. CASE ~(Len(f.keys) > 0)
  <2>1. Continue(d) = AdjustRoot(d)
    BY <1>2 DEF Continue
  <2>2. CASE f.leaf
    BY <2>1, <2>2, NoneLeft
  <2>3. CASE ~f.leaf
    BY <1>2, <2>1, <2>3, ChildIsRoot
  <2> QED BY <2>2, <2>3
<1> QED BY <1>1, <1>2

-----------------------------------------------------------------------------
(* Neighbours.                                                             *)

\* Two children a and b of one page, which has the key s; one of them is n and is too
\* empty, the other is full enough.
Beside(d, lev, a, b, s) ==
  /\ IsDelete(d) /\ d.damaged = FALSE
  /\ Tree(d.page, d.root, d.free, lev, {}, {d.n})
  /\ d.n \in {a, b} /\ a \in Used(d.free) /\ b \in Used(d.free) /\ a # b
  /\ a # d.root /\ b # d.root /\ lev[a] = lev[b]
  /\ d.page[a].parent = d.page[b].parent
  /\ s \in Range(d.page[d.page[a].parent].keys)
  /\ ~Filled(d.page, d.n)
  /\ d.page[d.n].leaf \/ Len(d.page[d.n].keys) + 2 >= MAX_KEY_NUMBER \div 2

\* The place of the neighbour among the children, and that of the key between.
BesideAt(i) == IF i = 0 THEN 2 ELSE i
KeyAt(i) == IF i = 0 THEN 1 ELSE i

\* The parent P of the page n, the place j left of it, its neighbour m and the key s
\* between them.
Chooses(d, P, j, m, s) ==
  /\ P = d.page[d.n].parent /\ j = NeighborIndex(d.page, d.n)
  /\ m = d.page[P].children[BesideAt(j)] /\ s = d.page[P].keys[KeyAt(j)]

LEMMA BesideHolds ==
  ASSUME NEW d, NEW i, Leans(d, i), NEW lev, Lean(d, lev, i), d.n # d.root,
         ~Filled(d.page, d.n), NEW P, NEW j, NEW m, NEW s, Chooses(d, P, j, m, s)
  PROVE  /\ j \in Nat /\ KeyAt(j) \in 1 .. Len(d.page[P].keys)
         /\ Beside(d, lev, d.n, m, s) /\ Beside(d, lev, m, d.n, s)
<1> DEFINE p == d.page
           n == d.n
           U == Used(d.free)
           f == p[P]
<1>1. Tree(p, d.root, d.free, lev, {}, {n}) /\ IsDelete(d) /\ d.damaged = FALSE /\ n \in U
  BY DEF Lean, Leans
<1>2. P \in U /\ n \in Range(f.children) /\ ~f.leaf /\ lev[P] = lev[n] + 1
  <2>1. P = p[n].parent
    BY DEF Chooses
  <2> QED BY <1>1, <2>1, TreePage
<1>3. P # n /\ lev[n] \in Nat /\ f \in Page /\ PageOK(f)
      /\ IF P = d.root THEN Rooted(f) ELSE Enough(f)
  <2>1. lev[n] \in Nat /\ lev[P] \in Nat /\ f \in Page /\ PageOK(f)
    BY <1>1, <1>2, TreePage
  <2>2. P # n
    BY <1>2, <2>1
  <2>3. IF P = d.root THEN Rooted(f) ELSE Enough(f)
    BY <1>1, <1>2, <2>2, TreePage
  <2> QED BY <2>1, <2>2, <2>3
<1>4. Rooted(f)
  BY <1>3, EnoughIsRooted
<1>5. /\ f.keys \in Seq(Key) /\ f.children \in Seq(Nat \ {0}) /\ Len(f.children) = Len(f.keys) + 1
      /\ Len(f.keys) >= 1 /\ Len(f.keys) \in Nat /\ IsInjective(f.children)
  <2>1. /\ f.keys \in Seq(Key) /\ f.children \in Seq(Nat \ {0})
    BY <1>3, PageFields
  <2>2. Len(f.children) = Len(f.keys) + 1 /\ IsInjective(f.children)
    BY <1>2, <1>3 DEF PageOK
  <2>3. Len(f.keys) >= 1
    BY <1>2, <1>4 DEF Rooted
  <2>4. Len(f.keys) \in Nat
    BY <2>1
  <2> QED BY <2>1, <2>2, <2>3, <2>4
<1> DEFINE l == LeftIndex(p, P, n)
           q == f.children
           K == f.keys
<1>6. l \in 1 .. Len(q) /\ q[l] = n
  <2>1. p[P].children \in Seq(Nat \ {0}) /\ n \in Range(p[P].children)
    BY <1>2, <1>5
  <2> HIDE DEF p, n
  <2> QED BY <2>1, LeftFound
<1>7. j = l - 1
  BY DEF NeighborIndex, Chooses
<1> HIDE DEF l, q, K
<1>8. /\ Len(q) = Len(K) + 1 /\ Len(K) >= 1 /\ Len(K) \in Nat /\ IsInjective(q)
      /\ q \in Seq(Nat \ {0}) /\ K \in Seq(Key)
  BY <1>5 DEF q, K
<1>9. /\ j \in Nat /\ BesideAt(j) \in 1 .. Len(q) /\ BesideAt(j) # l /\ KeyAt(j) \in 1 .. Len(K)
  BY <1>6, <1>7, <1>8 DEF BesideAt, KeyAt
<1>10. m # n /\ m \in Range(q)
  <2>1. m = q[BesideAt(j)]
    BY DEF q, Chooses
  <2> HIDE DEF n
  <2>2. m # n
    BY <1>6, <1>8, <1>9, <2>1, Injective
  <2> QED BY <1>8, <1>9, <2>1, <2>2, InRange
<1>11. s \in Range(K)
  <2>1. s = K[KeyAt(j)]
    BY DEF K, Chooses
  <2> QED BY <1>8, <1>9, <2>1, InRange
<1>12. /\ m \in U /\ m # d.root /\ p[m].parent = P /\ lev[P] = lev[m] + 1 /\ lev[m] \in Nat
  <2>1. \A x \in Range(f.children) :
          x \in U /\ x # d.root /\ p[x].parent = P /\ lev[P] = lev[x] + 1
    BY <1>1, <1>2, TreePage
  <2>2. /\ m \in U /\ m # d.root /\ p[m].parent = P /\ lev[P] = lev[m] + 1
    BY <1>10, <2>1 DEF q
  <2> QED BY <1>1, <2>2, TreePage
<1>13. lev[m] = lev[n]
  BY <1>2, <1>3, <1>12
<1>14. p[n].leaf \/ Len(p[n].keys) + 2 >= MAX_KEY_NUMBER \div 2
  BY DEF Lean
<1>15. p[n].parent = P /\ s \in Range(p[p[n].parent].keys) /\ s \in Range(p[p[m].parent].keys)
  <2>1. p[n].parent = P
    BY DEF Chooses
  <2> QED BY <1>11, <1>12, <2>1 DEF K
<1> QED BY <1>1, <1>9, <1>10, <1>12, <1>13, <1>14, <1>15 DEF Beside, K

\* What that says of the pages.
LEMMA BesidePages ==
  ASSUME NEW d, NEW lev, NEW a, NEW b, NEW s, Beside(d, lev, a, b, s),
         NEW P, P = d.page[a].parent
  PROVE  /\ a \in PageNumber /\ b \in PageNumber /\ P \in PageNumber /\ P \in Used(d.free)
         /\ P # a /\ P # b /\ P # 0
         /\ d.page[a] \in Page /\ PageOK(d.page[a]) /\ d.page[b] \in Page /\ PageOK(d.page[b])
         /\ d.page[P] \in Page /\ PageOK(d.page[P]) /\ ~d.page[P].leaf
         /\ Len(d.page[P].keys) >= 1
         /\ IF P = d.root THEN Rooted(d.page[P]) ELSE Enough(d.page[P])
         /\ d.page[a].leaf = d.page[b].leaf
         /\ d.n # a => Enough(d.page[a])
         /\ d.n # b => Enough(d.page[b])
         /\ lev[P] = lev[a] + 1 /\ lev[a] \in Nat
         /\ a \in Range(d.page[P].children) /\ b \in Range(d.page[P].children)
         /\ d.page[b].parent = P
<1> DEFINE p == d.page
           U == Used(d.free)
<1>1. /\ Tree(p, d.root, d.free, lev, {}, {d.n}) /\ a \in U /\ b \in U /\ a # d.root
      /\ b # d.root /\ d.n \in {a, b} /\ lev[a] = lev[b] /\ p[b].parent = P
  BY DEF Beside
<1>2. /\ a \in PageNumber /\ p[a] \in Page /\ PageOK(p[a]) /\ lev[a] \in Nat
      /\ (p[a].leaf <=> lev[a] = 0) /\ (d.n # a => Enough(p[a]))
      /\ P \in U /\ a \in Range(p[P].children) /\ ~p[P].leaf /\ lev[P] = lev[a] + 1
  BY <1>1, TreePage
<1>3. /\ b \in PageNumber /\ p[b] \in Page /\ PageOK(p[b]) /\ b \in Range(p[P].children)
      /\ (p[b].leaf <=> lev[b] = 0) /\ (d.n # b => Enough(p[b]))
  BY <1>1, TreePage
<1>4. P \in PageNumber /\ p[P] \in Page /\ PageOK(p[P])
  BY <1>1, <1>2, TreePage
<1>5. P # a /\ P # b
  BY <1>1, <1>2
<1>6. IF P = d.root THEN Rooted(p[P]) ELSE Enough(p[P])
  BY <1>1, <1>2, <1>5, TreePage
<1>7. Rooted(p[P])
  BY <1>4, <1>6, EnoughIsRooted
<1>8. p[a].leaf = p[b].leaf
  <2>1. p[a].leaf \in BOOLEAN /\ p[b].leaf \in BOOLEAN
    BY <1>2, <1>3, PageFields
  <2> QED BY <1>1, <1>2, <1>3, <2>1
<1>9. Len(p[P].keys) >= 1
  BY <1>2, <1>7 DEF Rooted
<1> QED BY <1>1, <1>2, <1>3, <1>4, <1>5, <1>6, <1>8, <1>9, PageNumbers

-----------------------------------------------------------------------------
(* Two pages become one.                                                   *)

\* The pages q are those of d, but b has gone into a, which is like g now, and out of
\* their parent P.
Joint(d, q, a, b, P, g) ==
  /\ q \in [PageNumber -> Page]
  /\ \A m \in Used(d.free) : m \notin {a, b, P} => Alike(d.page[m], q[m])
  /\ g \in Page /\ PageOK(g) /\ Enough(g) /\ g.leaf = d.page[a].leaf
  /\ Range(g.children) = Range(d.page[a].children) \union Range(d.page[b].children)
  /\ Alike(g, q[a])
  /\ P = d.page[a].parent /\ PageOK(q[P]) /\ ~q[P].leaf
  /\ Range(q[P].children) = Range(d.page[P].children) \ {b}
  /\ \A m \in Used(d.free) :
       q[m].parent = IF m \in Range(d.page[b].children) THEN a ELSE d.page[m].parent

LEMMA JoinHolds ==
  ASSUME NEW d, NEW lev, NEW a, NEW b, NEW s, Beside(d, lev, a, b, s),
         NEW q, NEW P, NEW g, Joint(d, q, a, b, P, g)
  PROVE  Tree(q, d.root, <<b>> \o d.free, lev, {}, {P})
<1> DEFINE p == d.page
           U == Used(d.free)
           r == d.root
           fr == <<b>> \o d.free
<1>1. /\ Tree(p, r, d.free, lev, {}, {d.n}) /\ a \in U /\ b \in U /\ a # b /\ a # r
      /\ b # r /\ d.n \in {a, b} /\ lev[a] = lev[b]
  BY DEF Beside
<1>2. /\ p \in [PageNumber -> Page] /\ d.free \in Seq(PageNumber) /\ IsInjective(d.free)
      /\ Linked(Kids(p), Par(p), U, r, lev, {}) /\ U \subseteq PageNumber
      /\ \A m \in U : FullAt(p, r, lev, {d.n}, m)
  BY <1>1 DEF Tree, Stocked, Used
<1>3. P = p[a].parent
  BY DEF Joint
<1>4. /\ P \in PageNumber /\ P \in U /\ P # a /\ P # b /\ p[b].parent = P
      /\ lev[P] = lev[a] + 1 /\ lev[a] \in Nat
  BY <1>3, BesidePages
<1>5. /\ q \in [PageNumber -> Page]
      /\ \A m \in U : m \notin {a, b, P} => Alike(p[m], q[m])
      /\ g \in Page /\ PageOK(g) /\ Enough(g) /\ g.leaf = p[a].leaf
      /\ Range(g.children) = Range(p[a].children) \union Range(p[b].children)
      /\ Alike(g, q[a])
      /\ PageOK(q[P]) /\ ~q[P].leaf
      /\ Range(q[P].children) = Range(p[P].children) \ {b}
      /\ \A m \in U : q[m].parent = IF m \in Range(p[b].children) THEN a ELSE p[m].parent
  BY DEF Joint
<1>6. fr \in Seq(PageNumber) /\ IsInjective(fr) /\ Used(fr) = U \ {b}
  BY <1>1, <1>2, Pushed
<1> HIDE DEF p, U, r, fr
<1>7. Linked(Kids(q), Par(q), U \ {b}, r, lev, {})
  <2> DEFINE K == Kids(p)
             PP == Par(p)
             L == Kids(q)
             Q == Par(q)
  <2>1. \A m \in U : m \notin {a, b, P} => L[m] = K[m]
    BY <1>2, <1>5 DEF Kids, Alike
  <2>2. L[a] = K[a] \union K[b] /\ L[P] = K[P] \ {b}
    BY <1>1, <1>2, <1>4, <1>5 DEF Kids, Alike
  <2>3. \A m \in U : Q[m] = IF m \in K[b] THEN a ELSE PP[m]
    BY <1>1, <1>2, <1>5 DEF Par, Kids
  <2>4. PP[b] = P
    BY <1>1, <1>2, <1>4 DEF Par
  <2>5. Linked(K, PP, U, r, lev, {})
    BY <1>2
  <2> HIDE DEF K, PP, L, Q
  <2>6. JoinLinks(K, PP, U, r, lev, L, Q, a, b)
    BY <1>1, <2>1, <2>2, <2>3, <2>4, <2>5 DEF JoinLinks
  <2>7. Linked(L, Q, U \ {b}, r, lev, {})
    BY <2>6, LinkedJoin
  <2> QED BY <2>7 DEF L, Q
<1>8. ASSUME NEW m \in U \ {b} PROVE FullAt(q, r, lev, {P}, m)
  <2>1. CASE m = a
    <3>1. q[a] \in Page
      BY <1>1, <1>2, <1>5
    <3>2. PageOK(q[a]) /\ Enough(q[a])
      BY <1>5, <3>1, AlikeOK
    <3>3. q[a].leaf = p[a].leaf
      BY <1>5 DEF Alike
    <3>4. p[a].leaf <=> lev[a] = 0
      BY <1>1, <1>2 DEF FullAt
    <3> QED BY <1>1, <2>1, <3>2, <3>3, <3>4 DEF FullAt
  <2>2. CASE m = P
    <3>1. lev[P] # 0
      BY <1>4
    <3> QED BY <1>5, <2>2, <3>1 DEF FullAt
  <2>3. CASE m # a /\ m # P
    <3>1. FullAt(p, r, lev, {d.n}, m) /\ q[m] \in Page /\ Alike(p[m], q[m]) /\ m # d.n
      BY <1>1, <1>2, <1>5, <2>3
    <3> QED BY <3>1, FullAlike
  <2> QED BY <2>1, <2>2, <2>3
<1>9. Tree(q, r, fr, lev, {}, {P})
  BY <1>5, <1>6, <1>7, <1>8 DEF Tree, Stocked
<1> QED BY <1>9 DEF r, fr

-----------------------------------------------------------------------------
(* The page that two pages become.                                         *)

MergedPage(a, b, s) ==
  IF a.leaf THEN MergedLeaf(a, b)
  ELSE InternalPage(a.parent, Append(a.keys, s) \o b.keys, a.children \o b.children)

LEMMA LeavesMerge ==
  ASSUME NEW a \in Page, PageOK(a), a.leaf, NEW b \in Page, PageOK(b), b.leaf,
         a.space + b.space >= MAX_FREE_SPACE, Enough(a) \/ Enough(b)
  PROVE  /\ MergedLeaf(a, b) \in Page /\ PageOK(MergedLeaf(a, b)) /\ Enough(MergedLeaf(a, b))
         /\ MergedLeaf(a, b).leaf = TRUE /\ MergedLeaf(a, b).parent = a.parent
         /\ Range(MergedLeaf(a, b).children) = Range(a.children) \union Range(b.children)
<1> DEFINE keys == a.keys \o b.keys
<1>1. /\ a.keys \in Seq(Key) /\ b.keys \in Seq(Key) /\ a.space \in Nat /\ b.space \in Nat
      /\ a.space + SpaceFor(a.keys) = MAX_FREE_SPACE
      /\ b.space + SpaceFor(b.keys) = MAX_FREE_SPACE
      /\ a.children = << >> /\ b.children = << >> /\ Range(<< >>) = {}
      /\ a.parent \in Nat /\ b.right \in Nat
  BY PageFields DEF PageOK, Range
<1>2. keys \in Seq(Key) /\ SpaceFor(keys) = SpaceFor(a.keys) + SpaceFor(b.keys)
      /\ SpaceFor(a.keys) \in Nat /\ SpaceFor(b.keys) \in Nat
  BY <1>1, SpaceJoined
<1>3. /\ SpaceFor(keys) <= MAX_FREE_SPACE
      /\ MAX_FREE_SPACE - SpaceFor(keys) < THRESHOLD
  <2> DEFINE x == SpaceFor(a.keys)
             y == SpaceFor(b.keys)
             u == a.space
             v == b.space
  <2>1. /\ x \in Nat /\ y \in Nat /\ u \in Nat /\ v \in Nat /\ u + x = MAX_FREE_SPACE
        /\ v + y = MAX_FREE_SPACE /\ u + v >= MAX_FREE_SPACE /\ SpaceFor(keys) = x + y
    BY <1>1, <1>2
  <2>2. u < THRESHOLD \/ v < THRESHOLD
    BY DEF Enough
  <2> HIDE DEF x, y, u, v, keys
  <2>3. x + y <= MAX_FREE_SPACE /\ MAX_FREE_SPACE - (x + y) < THRESHOLD
    BY <2>1, <2>2, Constants
  <2> QED BY <2>1, <2>3
<1> HIDE DEF keys
<1> DEFINE y == a.parent
           z == b.right
           g == LeafPage(y, keys, z)
<1>4. y \in Nat /\ z \in Nat
  BY <1>1
<1>5. MergedLeaf(a, b) = g
  BY DEF MergedLeaf, keys
<1> HIDE DEF y, z
<1>6. IsLeaf(g, y, keys, MAX_FREE_SPACE - SpaceFor(keys))
  BY <1>2, <1>3, <1>4, LeafOK
<1> HIDE DEF g
<1>7. /\ g \in Page /\ PageOK(g) /\ g.leaf /\ g.parent = y
      /\ g.space = MAX_FREE_SPACE - SpaceFor(keys) /\ Range(g.children) = {}
  BY <1>6 DEF IsLeaf
<1>8. Enough(g) /\ g.leaf = TRUE
  BY <1>3, <1>7, PageFields DEF Enough
<1> QED BY <1>1, <1>5, <1>7, <1>8 DEF y

LEMMA InternalsMerge ==
  ASSUME NEW a \in Page, PageOK(a), ~a.leaf, NEW b \in Page, PageOK(b), ~b.leaf,
         Len(a.keys) + Len(b.keys) < MAX_KEY_NUMBER, Enough(a) \/ Enough(b), NEW s \in Key,
         Range(a.children) \intersect Range(b.children) = {}
  PROVE  LET g == InternalPage(a.parent, Append(a.keys, s) \o b.keys, a.children \o b.children)
         IN /\ g \in Page /\ PageOK(g) /\ Enough(g) /\ g.leaf = FALSE /\ g.parent = a.parent
            /\ Range(g.children) = Range(a.children) \union Range(b.children)
<1> DEFINE T == Nat \ {0}
           A == Append(a.keys, s)
           K == A \o b.keys
           B == a.children
           C == b.children
           L == B \o C
           y == a.parent
           m == Len(a.keys)
           n == Len(b.keys)
           g == InternalPage(y, K, L)
<1>1. /\ a.keys \in Seq(Key) /\ b.keys \in Seq(Key) /\ B \in Seq(T) /\ C \in Seq(T) /\ y \in Nat
      /\ m \in Nat /\ n \in Nat
  BY PageFields
<1>2. /\ Len(B) = m + 1 /\ Len(C) = n + 1 /\ IsInjective(B) /\ IsInjective(C)
      /\ Range(B) \intersect Range(C) = {} /\ m + n < MAX_KEY_NUMBER
  BY DEF PageOK
<1>3. m + 1 >= MAX_KEY_NUMBER \div 2 \/ n + 1 >= MAX_KEY_NUMBER \div 2
  BY DEF Enough
<1>4. K \in Seq(Key) /\ Len(K) = (m + 1) + n
  BY <1>1
<1>5. L \in Seq(T) /\ Len(L) = Len(B) + Len(C) /\ IsInjective(L)
      /\ Range(L) = Range(B) \union Range(C)
  <2>1. Joins(T, B, C, L)
    <3> HIDE DEF B, C, T
    <3> QED BY <1>1, Joined
  <2> HIDE DEF B, C, L, T
  <2> QED BY <1>2, <2>1 DEF Joins
<1> HIDE DEF A, K, B, C, L, y, m, n
<1>6. Len(L) = Len(K) + 1 /\ Len(K) <= MAX_KEY_NUMBER /\ Len(K) + 1 >= MAX_KEY_NUMBER \div 2
  BY <1>1, <1>2, <1>3, <1>4, <1>5, Constants
<1>7. IsInternal(g, y, K, L)
  BY <1>1, <1>4, <1>5, <1>6, InternalOK
<1> HIDE DEF g
<1>8. g \in Page /\ PageOK(g) /\ ~g.leaf /\ g.parent = y /\ g.keys = K /\ g.children = L
  BY <1>7 DEF IsInternal
<1>9. Enough(g) /\ g.leaf = FALSE
  BY <1>6, <1>8, PageFields DEF Enough
<1>10. Range(g.children) = Range(a.children) \union Range(b.children)
  BY <1>5, <1>8 DEF B, C
<1> QED BY <1>8, <1>9, <1>10 DEF g, y, K, A, L, B, C

MergedPages(p, a, b, s) ==
  LET g == MergedPage(p[a], p[b], s)
  IN IF p[a].leaf THEN [p EXCEPT ![a] = g] ELSE WithParent([p EXCEPT ![a] = g], Range(g.children), a)

LEMMA CoalesceIs ==
  ASSUME NEW d, NEW a, NEW b, NEW s
  PROVE  Coalesce(d, a, b, s) =
           [d EXCEPT !.page = MergedPages(d.page, a, b, s), !.free = <<b>> \o d.free,
                     !.n = d.page[a].parent, !.key = s, !.pointer = b]
BY DEF Coalesce, MergedPages, MergedPage, Move

Pointed(c) == PointerIndex(c.page[c.n].children, c.pointer)

EntryRemoved(c) ==
  [c.page EXCEPT ![c.n] = Regrouped(c.page[c.n], WithoutKey(c.page[c.n].keys, c.key),
                                    RemoveAt(c.page[c.n].children, Pointed(c)))]

LEMMA RemovedIs ==
  ASSUME NEW c
  PROVE  RemoveFromInternal(c) =
           [c EXCEPT !.page = EntryRemoved(c),
                     !.damaged = c.damaged \/ c.page[c.n].children[Pointed(c)] # c.pointer]
BY ZenonT(40) DEF RemoveFromInternal, Pointed, EntryRemoved, Regrouped

\* The pages t are those of d with b gone into a, which is like g now.
Merges(d, t, a, b, g) ==
  /\ t \in [PageNumber -> Page]
  /\ \A m \in Used(d.free) : m # a => Alike(d.page[m], t[m])
  /\ g \in Page /\ PageOK(g) /\ Enough(g) /\ g.leaf = d.page[a].leaf
  /\ Range(g.children) = Range(d.page[a].children) \union Range(d.page[b].children)
  /\ Alike(g, t[a])
  /\ \A m \in Used(d.free) :
       t[m].parent = IF m \in Range(d.page[b].children) THEN a ELSE d.page[m].parent

LEMMA MergesHolds ==
  ASSUME NEW d, NEW lev, NEW a, NEW b, NEW s, Beside(d, lev, a, b, s),
         Fits(d.page[a], d.page[b])
  PROVE  Merges(d, MergedPages(d.page, a, b, s), a, b, MergedPage(d.page[a], d.page[b], s))
<1> DEFINE p == d.page
           U == Used(d.free)
           f == p[a]
           h == p[b]
           P == f.parent
           g == MergedPage(f, h, s)
           t == MergedPages(p, a, b, s)
<1>1. /\ Tree(p, d.root, d.free, lev, {}, {d.n}) /\ a \in U /\ b \in U /\ a # b
      /\ d.n \in {a, b} /\ s \in Range(p[P].keys)
  BY DEF Beside
<1>2. p \in [PageNumber -> Page] /\ U \subseteq PageNumber
  BY <1>1 DEF Tree, Used
<1>3. /\ a \in PageNumber /\ f \in Page /\ PageOK(f) /\ h \in Page /\ PageOK(h)
      /\ f.leaf = h.leaf /\ (d.n # a => Enough(f)) /\ (d.n # b => Enough(h))
      /\ p[P] \in Page
  BY BesidePages
<1>4. Enough(f) \/ Enough(h)
  BY <1>1, <1>3
<1>5. s \in Key
  BY <1>1, <1>3, PageFields, InRange
<1>6. /\ \A x \in Range(f.children) : p[x].parent = a
      /\ \A x \in Range(h.children) : p[x].parent = b
  BY <1>1, TreePage
<1>7. /\ f.leaf \in BOOLEAN /\ (f.leaf => h.leaf) /\ (~f.leaf => ~h.leaf)
  BY <1>3, PageFields
<1>8. /\ g \in Page /\ PageOK(g) /\ Enough(g) /\ g.leaf = f.leaf /\ g.parent = P
      /\ Range(g.children) = Range(f.children) \union Range(h.children)
  <2>1. CASE f.leaf
    <3>1. f.space + h.space >= MAX_FREE_SPACE
      BY <2>1 DEF Fits
    <3> HIDE DEF f, h
    <3>2. /\ MergedLeaf(f, h) \in Page /\ PageOK(MergedLeaf(f, h)) /\ Enough(MergedLeaf(f, h))
          /\ MergedLeaf(f, h).leaf = TRUE /\ MergedLeaf(f, h).parent = f.parent
          /\ Range(MergedLeaf(f, h).children) = Range(f.children) \union Range(h.children)
      BY <1>3, <1>4, <1>7, <2>1, <3>1, LeavesMerge
    <3>3. g = MergedLeaf(f, h) /\ f.leaf = TRUE
      BY <1>7, <2>1 DEF MergedPage
    <3> QED BY <3>2, <3>3
  <2>2. CASE ~f.leaf
    <3>1. Len(f.keys) + Len(h.keys) < MAX_KEY_NUMBER
      BY <2>2 DEF Fits
    <3>2. Range(f.children) \intersect Range(h.children) = {}
      BY <1>1, <1>6
    <3> HIDE DEF f, h
    <3> DEFINE e == InternalPage(f.parent, Append(f.keys, s) \o h.keys, f.children \o h.children)
    <3>3. /\ e \in Page /\ PageOK(e) /\ Enough(e) /\ e.leaf = FALSE /\ e.parent = f.parent
          /\ Range(e.children) = Range(f.children) \union Range(h.children)
      BY ZenonT(40), <1>3, <1>4, <1>5, <1>7, <2>2, <3>1, <3>2, InternalsMerge
    <3>4. g = e /\ f.leaf = FALSE
      BY <1>7, <2>2 DEF MergedPage
    <3> QED BY <3>3, <3>4
  <2> QED BY <2>1, <2>2
<1> DEFINE w == [p EXCEPT ![a] = g]
<1>9. w \in [PageNumber -> Page] /\ w[a] = g /\ \A m \in PageNumber : m # a => w[m] = p[m]
  <2> HIDE DEF p, g
  <2> QED BY <1>2, <1>3, <1>8
<1>10. t = IF f.leaf THEN w ELSE WithParent(w, Range(g.children), a)
  BY DEF MergedPages
<1> HIDE DEF w, t, g
<1>11. /\ t \in [PageNumber -> Page]
       /\ \A m \in PageNumber : /\ Alike(w[m], t[m])
                                /\ t[m].parent = IF m \in Range(g.children) THEN a ELSE w[m].parent
  <2>1. CASE f.leaf
    <3>1. f.children = << >> /\ h.children = << >> /\ Range(<< >>) = {}
      BY <1>3, <1>7, <2>1 DEF PageOK, Range
    <3>2. Range(g.children) = {}
      BY <1>8, <3>1
    <3> QED BY <1>9, <1>10, <2>1, <3>2 DEF Alike
  <2>2. CASE ~f.leaf
    <3>1. t = WithParent(w, Range(g.children), a) /\ a \in Nat
      BY <1>3, <1>10, <2>2, PageNumbers
    <3> HIDE DEF f
    <3> QED BY <1>9, <3>1, NewParent
  <2> QED BY <2>1, <2>2
<1>12. \A m \in U : m # a => Alike(p[m], t[m])
  BY <1>2, <1>9, <1>11
<1>13. Alike(g, t[a])
  BY <1>3, <1>9, <1>11
<1>14. \A m \in U : t[m].parent = IF m \in Range(h.children) THEN a ELSE p[m].parent
  <2>1. \A m \in PageNumber : w[m].parent = p[m].parent
    BY <1>8, <1>9
  <2> HIDE DEF p, f, h
  <2>2. \A x \in Range(f.children) : p[x].parent = a
    BY <1>6
  <2> QED BY <1>2, <1>8, <1>11, <2>1, <2>2
<1>15. Merges(d, t, a, b, g)
  BY <1>8, <1>11, <1>12, <1>13, <1>14 DEF Merges
<1> QED BY <1>15 DEF t, g

\* The page h is the parent P without the entry of the page that is gone.
Without(d, t, a, b, s, P, j, h) ==
  /\ P = d.page[a].parent /\ j \in 1 .. Len(t[P].children) /\ t[P].children[j] = b
  /\ h = Regrouped(t[P], WithoutKey(t[P].keys, s), RemoveAt(t[P].children, j))

\* With that page the two pages are joined, and it may be lean.
JoinedBy(d, t, a, b, P, g, h) ==
  /\ t[P].leaf = FALSE /\ h \in Page
  /\ Joint(d, [t EXCEPT ![P] = h], a, b, P, g)
  /\ P # d.root => Len(h.keys) + 2 >= MAX_KEY_NUMBER \div 2

LEMMA EntryGone ==
  ASSUME NEW d, NEW lev, NEW a, NEW b, NEW s, Beside(d, lev, a, b, s),
         NEW t, NEW g, Merges(d, t, a, b, g), NEW P, NEW j, NEW h, Without(d, t, a, b, s, P, j, h)
  PROVE  JoinedBy(d, t, a, b, P, g, h)
<1> DEFINE p == d.page
           U == Used(d.free)
           f == p[P]
           e == t[P]
           A == WithoutKey(e.keys, s)
           B == RemoveAt(e.children, j)
           q == [t EXCEPT ![P] = h]
<1>0. P = p[a].parent /\ j \in 1 .. Len(e.children) /\ e.children[j] = b /\ h = Regrouped(e, A, B)
  BY DEF Without
<1>1. /\ P \in PageNumber /\ P \in U /\ P # a /\ P # b /\ f \in Page /\ PageOK(f) /\ ~f.leaf
      /\ IF P = d.root THEN Rooted(f) ELSE Enough(f)
  BY SMTT(30), <1>0, BesidePages
<1>2. /\ t \in [PageNumber -> Page] /\ \A m \in U : m # a => Alike(p[m], t[m])
      /\ g \in Page /\ PageOK(g) /\ Enough(g) /\ g.leaf = p[a].leaf
      /\ Range(g.children) = Range(p[a].children) \union Range(p[b].children)
      /\ Alike(g, t[a])
      /\ \A m \in U : t[m].parent = IF m \in Range(p[b].children) THEN a ELSE p[m].parent
  BY SMTT(30) DEF Merges
<1>3. s \in Range(f.keys) /\ U \subseteq PageNumber /\ a \in U
  BY <1>0 DEF Beside, Used
<1>4. /\ e \in Page /\ PageOK(e) /\ e.leaf = FALSE /\ e.keys = f.keys
      /\ e.children = f.children
  <2>1. Alike(f, e) /\ e \in Page
    BY <1>1, <1>2
  <2>2. PageOK(e)
    BY <1>1, <2>1, AlikeOK
  <2>3. f.leaf = FALSE
    BY <1>1, PageFields
  <2> QED BY <2>1, <2>2, <2>3 DEF Alike
<1>5. /\ e.keys \in Seq(Key) /\ e.children \in Seq(Nat \ {0}) /\ s \in Range(e.keys)
      /\ Len(e.children) = Len(e.keys) + 1 /\ IsInjective(e.children)
      /\ Len(e.keys) <= MAX_KEY_NUMBER
  BY <1>3, <1>4, PageFields DEF PageOK
<1>6. A \in Seq(Key) /\ Len(A) = Len(e.keys) - 1 /\ Len(e.keys) >= 1
  <2> DEFINE z == e.keys
  <2>1. z \in Seq(Key) /\ s \in Range(z)
    BY <1>5
  <2> HIDE DEF z
  <2>2. WithoutKey(z, s) \in Seq(Key) /\ Len(WithoutKey(z, s)) = Len(z) - 1 /\ Len(z) >= 1
    BY <2>1, WithoutKeyOK
  <2> QED BY <2>2 DEF z
<1>7. /\ B \in Seq(Nat \ {0}) /\ Len(B) = Len(e.children) - 1 /\ IsInjective(B)
      /\ Range(B) = Range(e.children) \ {b}
  <2> DEFINE z == e.children
             T == Nat \ {0}
  <2>1. z \in Seq(T) /\ j \in 1 .. Len(z) /\ z[j] = b /\ IsInjective(z)
    BY <1>0, <1>5
  <2> HIDE DEF z, T
  <2>2. Loses(T, z, z[j], RemoveAt(z, j))
    BY <2>1, TakenOut
  <2>3. RemoveAt(z, j) \in Seq(T) /\ Len(RemoveAt(z, j)) = Len(z) - 1 /\ IsInjective(RemoveAt(z, j))
        /\ Range(RemoveAt(z, j)) = Range(z) \ {b}
    BY <2>1, <2>2 DEF Loses
  <2> QED BY <2>3, SMTT(30) DEF z, T
<1> HIDE DEF A, B
<1>8. Len(B) = Len(A) + 1 /\ Len(A) <= MAX_KEY_NUMBER
  <2> DEFINE z == Len(e.keys)
             x == Len(A)
             y == Len(B)
  <2>1. z \in Nat
    BY <1>5
  <2>2. x = z - 1 /\ y = (z + 1) - 1 /\ z <= MAX_KEY_NUMBER
    BY <1>5, <1>6, <1>7
  <2>3. MAX_KEY_NUMBER \in Nat
    BY Constants
  <2> HIDE DEF x, y, z
  <2>4. y = x + 1 /\ x <= MAX_KEY_NUMBER
    BY <2>1, <2>2, <2>3
  <2> QED BY <2>4 DEF x, y
<1>9. IsInternal(h, e.parent, A, B)
  <2>1. h = Regrouped(e, A, B)
    BY <1>0 DEF A, B
  <2>2. e \in Page /\ ~e.leaf
    BY <1>4
  <2> HIDE DEF e
  <2> QED BY <1>6, <1>7, <1>8, <2>1, <2>2, InternalReplaced
<1>10. h \in Page /\ PageOK(h) /\ ~h.leaf /\ h.parent = e.parent /\ h.keys = A /\ h.children = B
  BY <1>9 DEF IsInternal
<1>11. q \in [PageNumber -> Page] /\ q[P] = h /\ \A m \in PageNumber : m # P => q[m] = t[m]
  <2> HIDE DEF p
  <2> QED BY <1>1, <1>2, <1>10, SMTT(30)
<1> HIDE DEF q
<1>12. Joint(d, q, a, b, P, g)
  <2>1. \A m \in U : m \notin {a, b, P} => Alike(p[m], q[m])
    BY <1>2, <1>3, <1>11
  <2>2. Alike(g, q[a])
    BY <1>1, <1>2, <1>3, <1>11
  <2>3. \A m \in U : q[m].parent = t[m].parent
    BY <1>3, <1>10, <1>11
  <2>4. \A m \in U : q[m].parent = IF m \in Range(p[b].children) THEN a ELSE p[m].parent
    BY <1>2, <2>3
  <2>5. PageOK(q[P]) /\ ~q[P].leaf /\ Range(q[P].children) = Range(p[P].children) \ {b}
    BY <1>4, <1>7, <1>10, <1>11
  <2> QED BY <1>0, <1>2, <1>11, <2>1, <2>2, <2>4, <2>5 DEF Joint
<1>13. ASSUME P # d.root PROVE Len(h.keys) + 2 >= MAX_KEY_NUMBER \div 2
  <2> DEFINE z == Len(e.keys)
             x == Len(A)
  <2>1. z \in Nat /\ x = z - 1
    BY <1>5, <1>6
  <2>2. z + 1 >= MAX_KEY_NUMBER \div 2
    BY <1>1, <1>4, <1>13 DEF Enough
  <2> HIDE DEF x, z
  <2>3. x + 2 >= MAX_KEY_NUMBER \div 2
    BY <2>1, <2>2, Constants
  <2> QED BY <1>10, <2>3 DEF x
<1> QED BY <1>4, <1>10, <1>12, <1>13 DEF q, JoinedBy

LEMMA CoalesceHolds ==
  ASSUME NEW d, NEW lev, NEW a, NEW b, NEW s, Beside(d, lev, a, b, s),
         Fits(d.page[a], d.page[b])
  PROVE  Due(Coalesce(d, a, b, s), lev[a] + 1)
<1> DEFINE p == d.page
           U == Used(d.free)
           P == p[a].parent
           i == lev[a] + 1
           g == MergedPage(p[a], p[b], s)
           t == MergedPages(p, a, b, s)
           fr == <<b>> \o d.free
           c == Coalesce(d, a, b, s)
           e == RemoveEntry(c)
           K == t[P].children
           j == PointerIndex(K, b)
           h == Regrouped(t[P], WithoutKey(t[P].keys, s), RemoveAt(t[P].children, j))
           q == [t EXCEPT ![P] = h]
<1>1. /\ Tree(p, d.root, d.free, lev, {}, {d.n}) /\ a \in U /\ b \in U /\ a # b
      /\ d.n \in {a, b} /\ s \in Range(p[P].keys) /\ IsDelete(d) /\ d.damaged = FALSE
  BY DEF Beside
<1>2. Merges(d, t, a, b, g)
  BY MergesHolds
<1>3. /\ P \in PageNumber /\ P \in U /\ P # a /\ P # b /\ p[P] \in Page /\ PageOK(p[P])
      /\ ~p[P].leaf /\ lev[P] = i /\ lev[a] \in Nat /\ P # 0 /\ b \in PageNumber
  BY BesidePages
<1>4. s \in Key
  BY <1>1, <1>3, PageFields, InRange
<1>5. d.free \in Seq(PageNumber) /\ IsInjective(d.free)
  BY <1>1 DEF Tree
<1>6. fr \in Seq(PageNumber) /\ Used(fr) = U \ {b}
  BY <1>1, <1>5, Pushed
<1>7. c = [d EXCEPT !.page = t, !.free = fr, !.n = P, !.key = s, !.pointer = b]
  BY CoalesceIs
<1>8. t \in [PageNumber -> Page] /\ Alike(p[P], t[P])
  BY <1>2, <1>3 DEF Merges
<1> HIDE DEF c, t, g, fr, U
<1>9. /\ IsDelete(c) /\ c.damaged = FALSE /\ c.page = t /\ c.root = d.root /\ c.free = fr
      /\ c.n = P /\ c.key = s /\ c.pointer = b
  <2>1. P \in Nat /\ b \in Nat
    BY <1>3, PageNumbers
  <2> HIDE DEF P
  <2> QED BY <1>1, <1>4, <1>6, <1>7, <1>8, <2>1 DEF IsDelete
<1> HIDE DEF P
<1>10. t[P] \in Page /\ t[P].leaf = FALSE /\ PageOK(t[P])
  <2>1. t[P] \in Page
    BY <1>3, <1>8
  <2>2. PageOK(t[P])
    BY <1>3, <1>8, <2>1, AlikeOK
  <2>3. p[P].leaf = FALSE
    BY <1>3, PageFields
  <2> QED BY <1>8, <2>1, <2>2, <2>3 DEF Alike
<1>11. j \in 1 .. Len(K)
  <2>1. K \in Seq(Nat \ {0}) /\ Len(K) = Len(t[P].keys) + 1 /\ Len(t[P].keys) \in Nat
    BY <1>10, PageFields DEF PageOK
  <2>2. Len(K) > 0
    BY <2>1
  <2> HIDE DEF K
  <2> QED BY <2>1, <2>2, PointerFound
<1>12. e = [c EXCEPT !.page = EntryRemoved(c), !.damaged = c.damaged \/ K[j] # b]
  <2>1. e = RemoveFromInternal(c)
    BY <1>9, <1>10 DEF RemoveEntry
  <2>2. c.page[c.n].children[Pointed(c)] = K[j] /\ c.pointer = b
    BY <1>9 DEF Pointed
  <2> HIDE DEF e, K, j
  <2> QED BY <2>1, <2>2, RemovedIs
<1>13. EntryRemoved(c) = q
  BY <1>9 DEF EntryRemoved, Pointed
<1>14. i + 1 <= P_NUMBER - 1
  <2>1. lev[P] <= lev[d.root] /\ lev[d.root] + 1 <= P_NUMBER - 1 /\ lev[d.root] \in Nat
    <3>1. lev[P] <= lev[d.root]
      BY <1>1, <1>3, RootOnTop DEF U
    <3>2. lev[d.root] + 1 <= P_NUMBER - 1
      BY <1>1, FewLevels
    <3> QED BY <1>1, <3>1, <3>2 DEF Tree, Linked
  <2> DEFINE x == lev[P]
             y == lev[d.root]
  <2>2. x \in Nat /\ y \in Nat /\ x <= y /\ y + 1 <= P_NUMBER - 1 /\ x = i
    BY <1>3, <2>1
  <2> HIDE DEF x, y, i
  <2>3. x + 1 <= P_NUMBER - 1
    BY <2>2, PageNumbers
  <2> QED BY <2>2, <2>3
<1>15. CASE K[j] # b
  <2>1. Hurt(e)
    <3> HIDE DEF K, j, e
    <3>1. e.damaged = TRUE /\ "damaged" \in DOMAIN e
      BY <1>9, <1>12, <1>15 DEF IsDelete
    <3> QED BY <3>1 DEF Hurt
  <2> QED BY <1>3, <1>9, <1>14, <2>1 DEF Due, c
<1>16. CASE K[j] = b
  <2> HIDE DEF j, h, q, e
  <2>1. /\ h \in Page /\ Joint(d, q, a, b, P, g)
        /\ P # d.root => Len(h.keys) + 2 >= MAX_KEY_NUMBER \div 2
    <3>1. Without(d, t, a, b, s, P, j, h)
      BY <1>11, <1>16 DEF Without, h, P
    <3> HIDE DEF K
    <3>2. JoinedBy(d, t, a, b, P, g, h)
      BY <1>2, <3>1, EntryGone
    <3> QED BY <3>2 DEF q, JoinedBy
  <2>2. Tree(q, d.root, fr, lev, {}, {P})
    BY <2>1, JoinHolds DEF fr
  <2>3. q \in [PageNumber -> Page] /\ q[P] = h
    <3>1. q \in [PageNumber -> Page]
      BY <2>2 DEF Tree
    <3>2. q[P] = h
      BY <1>3, <1>8 DEF q
    <3> QED BY <3>1, <3>2
  <2>4. e = [c EXCEPT !.page = q, !.damaged = FALSE]
    <3>1. (c.damaged \/ K[j] # b) = FALSE
      BY <1>9, <1>16
    <3> HIDE DEF K
    <3> QED BY <1>12, <1>13, <3>1
  <2>5. /\ IsDelete(e) /\ e.damaged = FALSE /\ e.page = q /\ e.root = d.root /\ e.free = fr
        /\ e.n = P
    BY <1>9, <2>3, <2>4 DEF IsDelete
  <2>6. Lean(e, lev, i)
    BY <1>3, <1>6, <2>1, <2>2, <2>3, <2>5 DEF Lean
  <2>7. Leans(e, i)
    BY <2>5, <2>6 DEF Leans
  <2> QED BY <1>3, <1>9, <1>14, <2>7 DEF Due, c, e
<1> QED BY <1>15, <1>16

-----------------------------------------------------------------------------
(* One entry changes over.                                                 *)

\* An internal page with another key at one place.
Rekeyed(f, i, k) == [f EXCEPT !.keys = [f.keys EXCEPT ![i] = k]]

\* Three pages that change.
ThreePages(p, a, f, b, g, P, h) == [[[p EXCEPT ![a] = f] EXCEPT ![b] = g] EXCEPT ![P] = h]

\* The entries of two internal pages and a key of their parent change.
InternalsChanged(p, n, m, P, u, v, y, z, i, k) ==
  [p EXCEPT ![n].keys = u, ![n].children = v, ![m].keys = y, ![m].children = z, ![P].keys[i] = k]

LEMMA InternalsChange ==
  ASSUME NEW p, NEW n \in DOMAIN p, NEW m \in DOMAIN p, NEW P \in DOMAIN p, n # m, P # n, P # m,
         NEW u, NEW v, NEW y, NEW z, NEW i, NEW k
  PROVE  InternalsChanged(p, n, m, P, u, v, y, z, i, k)
         = ThreePages(p, n, Regrouped(p[n], u, v), m, Regrouped(p[m], y, z),
                      P, Rekeyed(p[P], i, k))
<1> DEFINE f == [p EXCEPT ![n].keys = u, ![n].children = v]
           g == [f EXCEPT ![m].keys = y, ![m].children = z]
<1>1. f = [p EXCEPT ![n] = Regrouped(p[n], u, v)]
  BY DEF Regrouped
<1>2. g = [f EXCEPT ![m] = Regrouped(f[m], y, z)]
  <2> HIDE DEF f
  <2> QED BY DEF Regrouped
<1>3. f[m] = p[m] /\ f[P] = p[P]
  BY <1>1
<1>4. g[P] = f[P]
  <2>1. P \in DOMAIN f
    BY <1>1
  <2> HIDE DEF f
  <2> QED BY <1>2, <2>1
<1>5. [g EXCEPT ![P].keys[i] = k] = [g EXCEPT ![P] = Rekeyed(g[P], i, k)]
  <2> HIDE DEF g
  <2> QED BY DEF Rekeyed
<1>6. InternalsChanged(p, n, m, P, u, v, y, z, i, k) = [g EXCEPT ![P].keys[i] = k]
  BY DEF InternalsChanged
<1> HIDE DEF f, g
<1> QED BY <1>1, <1>2, <1>3, <1>4, <1>5, <1>6 DEF ThreePages

\* The records of two leaves and a key of their parent change.
LeavesChanged(p, n, m, P, u, v, y, z, i, k) ==
  [p EXCEPT ![n].keys = u, ![n].space = v, ![m].keys = y, ![m].space = z, ![P].keys[i] = k]

LEMMA LeavesChange ==
  ASSUME NEW p, NEW n \in DOMAIN p, NEW m \in DOMAIN p, NEW P \in DOMAIN p, n # m, P # n, P # m,
         NEW u, NEW v, NEW y, NEW z, NEW i, NEW k
  PROVE  LeavesChanged(p, n, m, P, u, v, y, z, i, k)
         = ThreePages(p, n, Refilled(p[n], u, v), m, Refilled(p[m], y, z),
                      P, Rekeyed(p[P], i, k))
<1> DEFINE f == [p EXCEPT ![n].keys = u, ![n].space = v]
           g == [f EXCEPT ![m].keys = y, ![m].space = z]
<1>1. f = [p EXCEPT ![n] = Refilled(p[n], u, v)]
  BY DEF Refilled
<1>2. g = [f EXCEPT ![m] = Refilled(f[m], y, z)]
  <2> HIDE DEF f
  <2> QED BY DEF Refilled
<1>3. f[m] = p[m] /\ f[P] = p[P]
  BY <1>1
<1>4. g[P] = f[P]
  <2>1. P \in DOMAIN f
    BY <1>1
  <2> HIDE DEF f
  <2> QED BY <1>2, <2>1
<1>5. [g EXCEPT ![P].keys[i] = k] = [g EXCEPT ![P] = Rekeyed(g[P], i, k)]
  <2> HIDE DEF g
  <2> QED BY DEF Rekeyed
<1>6. LeavesChanged(p, n, m, P, u, v, y, z, i, k) = [g EXCEPT ![P].keys[i] = k]
  BY DEF LeavesChanged
<1> HIDE DEF f, g
<1> QED BY <1>1, <1>2, <1>3, <1>4, <1>5, <1>6 DEF ThreePages

Changed(p, q, a, f, b, g, P, h) ==
  /\ q \in [PageNumber -> Page] /\ q[a] = f /\ q[b] = g /\ q[P] = h
  /\ \A m \in PageNumber : m \notin {a, b, P} => q[m] = p[m]

LEMMA ThreeAre ==
  ASSUME NEW p \in [PageNumber -> Page], NEW a \in PageNumber, NEW b \in PageNumber,
         NEW P \in PageNumber, a # b, P # a, P # b, NEW f \in Page, NEW g \in Page, NEW h \in Page
  PROVE  Changed(p, ThreePages(p, a, f, b, g, P, h), a, f, b, g, P, h)
<1> DEFINE q == [p EXCEPT ![a] = f]
           s == [q EXCEPT ![b] = g]
<1>1. q \in [PageNumber -> Page] /\ q[a] = f /\ \A m \in PageNumber : m # a => q[m] = p[m]
  OBVIOUS
<1> HIDE DEF q
<1>2. s \in [PageNumber -> Page] /\ s[b] = g /\ \A m \in PageNumber : m # b => s[m] = q[m]
  BY <1>1
<1>3. ThreePages(p, a, f, b, g, P, h) = [s EXCEPT ![P] = h]
  BY DEF ThreePages, s, q
<1> HIDE DEF s
<1> QED BY <1>1, <1>2, <1>3 DEF Changed

\* Another key changes nothing that holds of an internal page.
LEMMA KeyReplaced ==
  ASSUME NEW f \in Page, ~f.leaf, PageOK(f), NEW i \in 1 .. Len(f.keys), NEW k \in Key
  PROVE  /\ Rekeyed(f, i, k) \in Page /\ PageOK(Rekeyed(f, i, k)) /\ Rekeyed(f, i, k).leaf = FALSE
         /\ Rekeyed(f, i, k).parent = f.parent /\ Rekeyed(f, i, k).children = f.children
         /\ Enough(f) => Enough(Rekeyed(f, i, k))
         /\ Rooted(f) => Rooted(Rekeyed(f, i, k))
<1> DEFINE q == f.keys
           s == [q EXCEPT ![i] = k]
           g == Rekeyed(f, i, k)
<1>1. q \in Seq(Key)
  BY PageFields
<1>2. s \in Seq(Key) /\ Len(s) = Len(q)
  <2> HIDE DEF q
  <2>1. i \in 1 .. Len(q)
    BY DEF q
  <2> QED BY <1>1, <2>1
<1> HIDE DEF s
<1>3. g = [f EXCEPT !.keys = s]
  BY DEF Rekeyed, s
<1> HIDE DEF g
<1>4. /\ g \in Page /\ g.leaf = f.leaf /\ g.parent = f.parent /\ g.children = f.children
      /\ g.keys = s
  <2> HIDE DEF q
  <2> QED BY <1>2, <1>3 DEF Page
<1>5. f.leaf = FALSE
  BY PageFields
<1>6. PageOK(g)
  BY <1>2, <1>4, <1>5 DEF PageOK
<1>7. Enough(f) => Enough(g)
  BY <1>2, <1>4, <1>5 DEF Enough
<1>8. Rooted(f) => Rooted(g)
  BY <1>2, <1>4, <1>5 DEF Rooted
<1> QED BY <1>4, <1>5, <1>6, <1>7, <1>8 DEF g

-----------------------------------------------------------------------------
(* Internal pages.                                                         *)

\* The pages q are those of d, but the page a, which was too empty, has taken the child x
\* of b, and their parent P has another key.
Passed(d, q, a, b, P, x) ==
  /\ q \in [PageNumber -> Page] /\ d.n = a /\ P = d.page[a].parent
  /\ \A m \in Used(d.free) : m \notin {a, b, P} => Alike(d.page[m], q[m])
  /\ \A m \in {a, b, P} : PageOK(q[m]) /\ ~q[m].leaf
  /\ Enough(q[a]) /\ Enough(q[b]) /\ IF P = d.root THEN Rooted(q[P]) ELSE Enough(q[P])
  /\ x \in Range(d.page[b].children) /\ ~d.page[a].leaf
  /\ Range(q[a].children) = Range(d.page[a].children) \union {x}
  /\ Range(q[b].children) = Range(d.page[b].children) \ {x}
  /\ Range(q[P].children) = Range(d.page[P].children)
  /\ \A m \in Used(d.free) : q[m].parent = IF m = x THEN a ELSE d.page[m].parent

LEMMA PassHolds ==
  ASSUME NEW d, NEW lev, NEW a, NEW b, NEW s, Beside(d, lev, a, b, s),
         NEW q, NEW P, NEW x, Passed(d, q, a, b, P, x)
  PROVE  Tree(q, d.root, d.free, lev, {}, {})
<1> DEFINE p == d.page
           U == Used(d.free)
           r == d.root
<1>1. /\ Tree(p, r, d.free, lev, {}, {d.n}) /\ a \in U /\ b \in U /\ a # b /\ a # r
      /\ b # r /\ lev[a] = lev[b]
  BY DEF Beside
<1>2. /\ p \in [PageNumber -> Page] /\ d.free \in Seq(PageNumber) /\ IsInjective(d.free)
      /\ Linked(Kids(p), Par(p), U, r, lev, {}) /\ U \subseteq PageNumber
      /\ \A m \in U : FullAt(p, r, lev, {d.n}, m)
  BY <1>1 DEF Tree, Stocked, Used
<1>3. P = p[a].parent
  BY DEF Passed
<1>4. /\ P \in PageNumber /\ P \in U /\ P # a /\ P # b /\ lev[P] = lev[a] + 1 /\ lev[a] \in Nat
      /\ p[a].leaf = p[b].leaf
  BY <1>3, BesidePages
<1>5. /\ q \in [PageNumber -> Page] /\ d.n = a
      /\ \A m \in U : m \notin {a, b, P} => Alike(p[m], q[m])
      /\ \A m \in {a, b, P} : PageOK(q[m]) /\ ~q[m].leaf
      /\ Enough(q[a]) /\ Enough(q[b]) /\ (IF P = r THEN Rooted(q[P]) ELSE Enough(q[P]))
      /\ x \in Range(p[b].children) /\ ~p[a].leaf
      /\ Range(q[a].children) = Range(p[a].children) \union {x}
      /\ Range(q[b].children) = Range(p[b].children) \ {x}
      /\ Range(q[P].children) = Range(p[P].children)
      /\ \A m \in U : q[m].parent = IF m = x THEN a ELSE p[m].parent
  BY DEF Passed
<1> HIDE DEF p, U, r
<1>6. Linked(Kids(q), Par(q), U, r, lev, {})
  <2> DEFINE K == Kids(p)
             PP == Par(p)
             L == Kids(q)
             Q == Par(q)
  <2>1. \A m \in U : m \notin {a, b, P} => L[m] = K[m]
    BY <1>2, <1>5 DEF Kids, Alike
  <2>2. L[a] = K[a] \union {x} /\ L[b] = K[b] \ {x} /\ L[P] = K[P] /\ x \in K[b]
    BY <1>1, <1>2, <1>4, <1>5 DEF Kids
  <2>3. \A m \in U : Q[m] = IF m = x THEN a ELSE PP[m]
    BY <1>2, <1>5 DEF Par
  <2>4. Linked(K, PP, U, r, lev, {})
    BY <1>2
  <2> HIDE DEF K, PP, L, Q
  <2>5. \A m \in U : m \notin {a, b} => L[m] = K[m]
    BY <2>1, <2>2
  <2>6. PassLinks(K, PP, U, r, lev, L, Q, a, b, x)
    BY <1>1, <2>2, <2>3, <2>4, <2>5 DEF PassLinks
  <2>7. Linked(L, Q, U, r, lev, {})
    BY <2>6, LinkedPass
  <2> QED BY <2>7 DEF L, Q
<1>7. ASSUME NEW m \in U PROVE FullAt(q, r, lev, {}, m)
  <2>1. CASE m \in {a, b}
    <3>1. FullAt(p, r, lev, {d.n}, a)
      BY <1>1, <1>2
    <3>2. ~(lev[a] = 0)
      BY <1>5, <3>1 DEF FullAt
    <3>3. ~(lev[m] = 0) /\ PageOK(q[m]) /\ ~q[m].leaf /\ Enough(q[m]) /\ m # r
      BY <1>1, <1>5, <2>1, <3>2
    <3> QED BY <3>3 DEF FullAt
  <2>2. CASE m = P
    <3>1. lev[P] # 0
      BY <1>4
    <3> QED BY <1>5, <2>2, <3>1 DEF FullAt
  <2>3. CASE m \notin {a, b, P}
    <3>1. FullAt(p, r, lev, {d.n}, m) /\ q[m] \in Page /\ Alike(p[m], q[m]) /\ m # d.n
      BY <1>1, <1>2, <1>5, <2>3
    <3> QED BY <3>1, FullAlike
  <2> QED BY <2>1, <2>2, <2>3
<1>8. Tree(q, r, d.free, lev, {}, {})
  BY <1>2, <1>5, <1>6, <1>7 DEF Tree, Stocked, U
<1> QED BY <1>8 DEF r

\* The keys u and the children v of a page with one entry more, the keys y and the children
\* z of its neighbour with one less, and the key k at the place i of their parent P.
Turns(d, a, b, P, u, v, y, z, i, k, x) ==
  /\ d.n = a /\ P = d.page[a].parent /\ ~d.page[a].leaf /\ ~Fits(d.page[b], d.page[a])
  /\ u \in Seq(Key) /\ Len(u) = Len(d.page[a].keys) + 1
  /\ v \in Seq(Nat \ {0}) /\ Len(v) = Len(d.page[a].children) + 1
  /\ Range(v) = Range(d.page[a].children) \union {x}
  /\ x \notin Range(d.page[a].children) => IsInjective(v)
  /\ y \in Seq(Key) /\ Len(y) = Len(d.page[b].keys) - 1
  /\ z \in Seq(Nat \ {0}) /\ Len(z) = Len(d.page[b].children) - 1
  /\ Range(z) = Range(d.page[b].children) \ {x} /\ IsInjective(z)
  /\ i \in 1 .. Len(d.page[P].keys) /\ k \in Key /\ x \in Range(d.page[b].children)

Turned(p, a, b, P, u, v, y, z, i, k) ==
  ThreePages(p, a, Regrouped(p[a], u, v), b, Regrouped(p[b], y, z), P, Rekeyed(p[P], i, k))

LEMMA TurnHolds ==
  ASSUME NEW d, NEW lev, NEW a, NEW b, NEW s, Beside(d, lev, a, b, s),
         NEW P, NEW u, NEW v, NEW y, NEW z, NEW i, NEW k, NEW x,
         Turns(d, a, b, P, u, v, y, z, i, k, x)
  PROVE  Passed(d, WithParent(Turned(d.page, a, b, P, u, v, y, z, i, k), {x}, a), a, b, P, x)
<1> DEFINE p == d.page
           U == Used(d.free)
           f == p[a]
           h == p[b]
           e == p[P]
           F == Len(f.keys)
           H == Len(h.keys)
           ff == Regrouped(f, u, v)
           hh == Regrouped(h, y, z)
           ee == Rekeyed(e, i, k)
           w == Turned(p, a, b, P, u, v, y, z, i, k)
           q == WithParent(w, {x}, a)
<1>1. /\ Tree(p, d.root, d.free, lev, {}, {d.n}) /\ a \in U /\ b \in U /\ a # b /\ ~Filled(p, d.n)
      /\ f.leaf \/ F + 2 >= MAX_KEY_NUMBER \div 2
  BY DEF Beside, Turns
<1>2. /\ d.n = a /\ P = f.parent /\ ~f.leaf /\ ~Fits(h, f)
      /\ u \in Seq(Key) /\ Len(u) = F + 1
      /\ v \in Seq(Nat \ {0}) /\ Len(v) = Len(f.children) + 1
      /\ Range(v) = Range(f.children) \union {x}
      /\ (x \notin Range(f.children) => IsInjective(v))
      /\ y \in Seq(Key) /\ Len(y) = H - 1
      /\ z \in Seq(Nat \ {0}) /\ Len(z) = Len(h.children) - 1
      /\ Range(z) = Range(h.children) \ {x} /\ IsInjective(z)
      /\ i \in 1 .. Len(e.keys) /\ k \in Key /\ x \in Range(h.children)
  BY DEF Turns
<1>3. /\ a \in PageNumber /\ b \in PageNumber /\ P \in PageNumber /\ P # a /\ P # b
      /\ f \in Page /\ PageOK(f) /\ h \in Page /\ PageOK(h) /\ e \in Page /\ PageOK(e)
      /\ ~e.leaf /\ (IF P = d.root THEN Rooted(e) ELSE Enough(e)) /\ f.leaf = h.leaf
  <2>1. P = d.page[a].parent
    BY <1>2
  <2> HIDE DEF p, f, h, e
  <2>2. /\ a \in PageNumber /\ b \in PageNumber /\ P \in PageNumber /\ P # a /\ P # b
        /\ d.page[a] \in Page /\ PageOK(d.page[a]) /\ d.page[b] \in Page /\ PageOK(d.page[b])
        /\ d.page[P] \in Page /\ PageOK(d.page[P]) /\ ~d.page[P].leaf
        /\ (IF P = d.root THEN Rooted(d.page[P]) ELSE Enough(d.page[P]))
        /\ d.page[a].leaf = d.page[b].leaf
    BY <2>1, BesidePages
  <2> QED BY <2>2 DEF p, f, h, e
<1>4. p \in [PageNumber -> Page] /\ U \subseteq PageNumber
  BY <1>1 DEF Tree, Used
<1>5. /\ F \in Nat /\ H \in Nat /\ Len(f.children) = F + 1 /\ Len(h.children) = H + 1
      /\ F <= MAX_KEY_NUMBER /\ H <= MAX_KEY_NUMBER
  <2>1. F \in Nat /\ H \in Nat
    BY <1>3, PageFields
  <2> QED BY <1>2, <1>3, <2>1 DEF PageOK
<1>6. F + 2 >= MAX_KEY_NUMBER \div 2 /\ ~(F >= MAX_KEY_NUMBER \div 2) /\ ~(H + F < MAX_KEY_NUMBER)
  BY <1>1, <1>2, <1>3 DEF Filled, Fits
<1> HIDE DEF F, H
<1>7. /\ Len(v) = Len(u) + 1 /\ Len(u) <= MAX_KEY_NUMBER /\ Len(u) + 1 >= MAX_KEY_NUMBER \div 2
  BY <1>2, <1>5, <1>6, Constants
<1>8. Len(z) = Len(y) + 1 /\ Len(y) <= MAX_KEY_NUMBER
  BY <1>2, <1>5, <1>6, Constants
<1>9. Len(y) + 1 >= MAX_KEY_NUMBER \div 2
  BY <1>2, <1>5, <1>6, Constants
<1>10. x \notin Range(f.children)
  <2>1. \A n \in Range(f.children) : p[n].parent = a
    BY <1>1, TreePage
  <2>2. p[x].parent = b
    BY SMTT(30), <1>1, <1>2, TreePage
  <2> QED BY <1>1, <2>1, <2>2
<1>11. IsInternal(ff, f.parent, u, v)
  <2>1. f \in Page /\ ~f.leaf /\ IsInjective(v)
    BY <1>2, <1>3, <1>10
  <2> HIDE DEF f
  <2> QED BY <1>2, <1>7, <2>1, InternalReplaced
<1>12. IsInternal(hh, h.parent, y, z)
  <2>1. h \in Page /\ ~h.leaf
    BY <1>2, <1>3
  <2> HIDE DEF h
  <2> QED BY <1>2, <1>8, <2>1, InternalReplaced
<1>13. /\ ee \in Page /\ PageOK(ee) /\ ee.leaf = FALSE /\ ee.parent = e.parent
       /\ ee.children = e.children /\ (Enough(e) => Enough(ee)) /\ (Rooted(e) => Rooted(ee))
  <2> HIDE DEF e
  <2> QED BY ZenonT(40), <1>2, <1>3, KeyReplaced
<1>14. /\ ff \in Page /\ PageOK(ff) /\ ~ff.leaf /\ ff.parent = f.parent /\ ff.children = v
       /\ Enough(ff)
       /\ hh \in Page /\ PageOK(hh) /\ ~hh.leaf /\ hh.parent = h.parent /\ hh.children = z
       /\ Enough(hh)
  BY <1>7, <1>9, <1>11, <1>12 DEF IsInternal, Enough
<1>15. w = ThreePages(p, a, ff, b, hh, P, ee)
  BY DEF Turned
<1> HIDE DEF ff, hh, ee, w, q
<1>16. /\ w \in [PageNumber -> Page] /\ w[a] = ff /\ w[b] = hh /\ w[P] = ee
       /\ \A m \in PageNumber : m \notin {a, b, P} => w[m] = p[m]
  <2>1. /\ p \in [PageNumber -> Page] /\ a \in PageNumber /\ b \in PageNumber /\ P \in PageNumber
        /\ a # b /\ P # a /\ P # b /\ ff \in Page /\ hh \in Page /\ ee \in Page
    BY <1>1, <1>3, <1>4, <1>13, <1>14
  <2> HIDE DEF p
  <2>2. Changed(p, ThreePages(p, a, ff, b, hh, P, ee), a, ff, b, hh, P, ee)
    BY <2>1, ThreeAre
  <2> QED BY <1>15, <2>2 DEF Changed
<1>17. /\ q \in [PageNumber -> Page]
       /\ \A m \in PageNumber : /\ Alike(w[m], q[m])
                                /\ q[m].parent = IF m \in {x} THEN a ELSE w[m].parent
  <2>1. a \in Nat
    BY <1>3, PageNumbers
  <2> QED BY <1>16, <2>1, NewParent DEF q
<1>18. \A m \in U : m \notin {a, b, P} => Alike(p[m], q[m])
  BY <1>4, <1>16, <1>17
<1>19. \A m \in U : q[m].parent = IF m = x THEN a ELSE p[m].parent
  <2>1. \A m \in PageNumber : w[m].parent = p[m].parent
    BY <1>13, <1>14, <1>16
  <2> QED BY <1>4, <1>17, <2>1
<1>20. /\ Alike(ff, q[a]) /\ Alike(hh, q[b]) /\ Alike(ee, q[P])
       /\ q[a] \in Page /\ q[b] \in Page /\ q[P] \in Page
  BY <1>3, <1>16, <1>17
<1>21. /\ PageOK(q[a]) /\ Enough(q[a]) /\ ~q[a].leaf
       /\ Range(q[a].children) = Range(f.children) \union {x}
  <2>1. ~q[a].leaf
    BY <1>14, <1>20 DEF Alike
  <2> QED BY <1>2, <1>14, <1>20, <2>1, AlikeOK
<1>22. /\ PageOK(q[b]) /\ Enough(q[b]) /\ ~q[b].leaf
       /\ Range(q[b].children) = Range(h.children) \ {x}
  <2>1. ~q[b].leaf
    BY <1>14, <1>20 DEF Alike
  <2> QED BY <1>2, <1>14, <1>20, <2>1, AlikeOK
<1>23. /\ PageOK(q[P]) /\ (IF P = d.root THEN Rooted(q[P]) ELSE Enough(q[P])) /\ ~q[P].leaf
       /\ Range(q[P].children) = Range(e.children)
  <2>1. ~q[P].leaf
    BY <1>13, <1>20 DEF Alike
  <2>2. PageOK(q[P]) /\ Enough(ee) = Enough(q[P]) /\ Rooted(ee) = Rooted(q[P])
        /\ Range(ee.children) = Range(q[P].children)
    BY <1>13, <1>20, AlikeOK
  <2> QED BY <1>3, <1>13, <2>1, <2>2
<1>24. Passed(d, q, a, b, P, x)
  <2>1. \A m \in {a, b, P} : PageOK(q[m]) /\ ~q[m].leaf
    BY <1>21, <1>22, <1>23
  <2> QED BY <1>2, <1>17, <1>18, <1>19, <1>21, <1>22, <1>23, <2>1 DEF Passed
<1> QED BY <1>24 DEF q, w

LEMMA Ended ==
  ASSUME NEW d, IsDelete(d), d.damaged = FALSE, NEW lev, NEW q,
         Tree(q, d.root, d.free, lev, {}, {}), NEW j
  PROVE  Due([d EXCEPT !.page = q, !.n = 0], j)
<1> DEFINE c == [d EXCEPT !.page = q, !.n = 0]
<1>1. q \in [PageNumber -> Page]
  BY DEF Tree
<1>2. /\ IsDelete(c) /\ c.damaged = FALSE /\ c.n = 0 /\ c.page = q /\ c.root = d.root
      /\ c.free = d.free
  BY <1>1 DEF IsDelete
<1> HIDE DEF c
<1>3. Whole(c.page, c.root, c.free)
  BY <1>2, TreeIsWhole
<1>4. Due(c, j)
  BY <1>2, <1>3 DEF Due
<1> QED BY <1>4 DEF c

\* A page n that is too empty, which does not fit into one page with its neighbour b, and
\* the place i of a key of their parent.
Apart(d, lev, n, b, s, P, i) ==
  /\ Beside(d, lev, n, b, s) /\ d.n = n /\ P = d.page[n].parent
  /\ ~Fits(d.page[b], d.page[n]) /\ i \in 1 .. Len(d.page[P].keys)

\* What that says of the pages.
ApartOK(d, n, b, P, i) ==
  /\ d.page \in [PageNumber -> Page] /\ IsDelete(d) /\ d.damaged = FALSE
  /\ n \in PageNumber /\ b \in PageNumber /\ P \in PageNumber /\ P # n /\ P # b /\ n # b
  /\ d.page[n] \in Page /\ PageOK(d.page[n]) /\ d.page[b] \in Page /\ PageOK(d.page[b])
  /\ d.page[n].leaf = d.page[b].leaf /\ d.page[P] \in Page
  /\ d.page[P].keys[i] \in Key /\ P = d.page[n].parent /\ d.page[b].parent = P

LEMMA ApartPages ==
  ASSUME NEW d, NEW lev, NEW n, NEW b, NEW s, NEW P, NEW i, Apart(d, lev, n, b, s, P, i)
  PROVE  ApartOK(d, n, b, P, i)
<1>1. Beside(d, lev, n, b, s) /\ P = d.page[n].parent /\ i \in 1 .. Len(d.page[P].keys)
  BY DEF Apart
<1>2. d.page \in [PageNumber -> Page] /\ n # b /\ IsDelete(d) /\ d.damaged = FALSE
  BY <1>1 DEF Beside, Tree
<1>3. /\ n \in PageNumber /\ b \in PageNumber /\ P \in PageNumber /\ P # n /\ P # b
      /\ d.page[n] \in Page /\ PageOK(d.page[n]) /\ d.page[b] \in Page /\ PageOK(d.page[b])
      /\ d.page[n].leaf = d.page[b].leaf /\ d.page[P] \in Page /\ d.page[b].parent = P
  BY <1>1, BesidePages
<1>4. d.page[P].keys[i] \in Key
  BY <1>1, <1>3, PageFields, InRange
<1> QED BY <1>1, <1>2, <1>3, <1>4 DEF ApartOK

\* The neighbour of an internal page has enough to give.
LEMMA ApartInternal ==
  ASSUME NEW d, NEW lev, NEW n, NEW b, NEW s, NEW P, NEW i, Apart(d, lev, n, b, s, P, i),
         ~d.page[n].leaf
  PROVE  /\ d.page[n].keys \in Seq(Key) /\ d.page[n].children \in Seq(Nat \ {0})
         /\ IsInjective(d.page[n].children)
         /\ d.page[b].keys \in Seq(Key) /\ d.page[b].children \in Seq(Nat \ {0})
         /\ IsInjective(d.page[b].children)
         /\ Len(d.page[b].keys) >= 1 /\ Len(d.page[b].children) >= 1
<1> DEFINE f == d.page[n]
           h == d.page[b]
           F == Len(f.keys)
           H == Len(h.keys)
<1>1. f \in Page /\ h \in Page /\ PageOK(f) /\ PageOK(h) /\ ~f.leaf /\ ~h.leaf
  BY ApartPages DEF ApartOK
<1>2. ~Filled(d.page, d.n) /\ d.n = n /\ ~Fits(h, f)
  BY DEF Apart, Beside
<1>3. F \in Nat /\ H \in Nat /\ ~(F >= MAX_KEY_NUMBER \div 2) /\ ~(H + F < MAX_KEY_NUMBER)
  <2>1. F \in Nat /\ H \in Nat
    BY <1>1, PageFields
  <2> QED BY <1>1, <1>2, <2>1 DEF Filled, Fits
<1>4. /\ IsInjective(f.children) /\ IsInjective(h.children) /\ Len(h.children) = H + 1
  BY <1>1 DEF PageOK
<1>5. f.keys \in Seq(Key) /\ f.children \in Seq(Nat \ {0})
  BY <1>1, PageFields
<1>6. h.keys \in Seq(Key) /\ h.children \in Seq(Nat \ {0})
  BY <1>1, PageFields
<1>7. H >= 1 /\ Len(h.children) >= 1
  <2> DEFINE z == Len(h.children)
  <2> HIDE DEF F, H, z
  <2>1. z = H + 1
    BY <1>4 DEF z, H
  <2>2. H >= 1 /\ z >= 1
    BY <1>3, <2>1, Constants
  <2> QED BY <2>2 DEF z
<1> QED BY <1>4, <1>5, <1>6, <1>7

\* The pages when the last child of b has gone to n.
LastPassed(p, n, b, P, i) ==
  WithParent(Turned(p, n, b, P, <<p[P].keys[i]>> \o p[n].keys,
                    <<Last(p[b].children)>> \o p[n].children,
                    Front(p[b].keys), Front(p[b].children), i, Last(p[b].keys)),
             {Last(p[b].children)}, n)

LEMMA TakeLastIs ==
  ASSUME NEW d, NEW lev, NEW n, NEW b, NEW s, NEW P, NEW i, Apart(d, lev, n, b, s, P, i),
         ~d.page[n].leaf
  PROVE  /\ TakeLastChild(d, b, n, i) = [d EXCEPT !.page = LastPassed(d.page, n, b, P, i), !.n = 0]
         /\ Tree(LastPassed(d.page, n, b, P, i), d.root, d.free, lev, {}, {})
<1> DEFINE p == d.page
           f == p[n]
           h == p[b]
           e == p[P].keys[i]
           x == Last(h.children)
           u == <<e>> \o f.keys
           v == <<x>> \o f.children
           y == Front(h.keys)
           z == Front(h.children)
           k == Last(h.keys)
           w == Turned(p, n, b, P, u, v, y, z, i, k)
           q == WithParent(w, {x}, n)
<1>0. q = LastPassed(p, n, b, P, i)
  BY DEF LastPassed
<1>1. /\ p \in [PageNumber -> Page] /\ IsDelete(d) /\ d.damaged = FALSE
      /\ n \in PageNumber /\ b \in PageNumber /\ P \in PageNumber /\ P # n /\ P # b /\ n # b
      /\ e \in Key /\ P = f.parent
  <2>1. ApartOK(d, n, b, P, i)
    BY ApartPages
  <2> QED BY <2>1 DEF ApartOK
<1>2. /\ f.keys \in Seq(Key) /\ f.children \in Seq(Nat \ {0}) /\ IsInjective(f.children)
      /\ h.keys \in Seq(Key) /\ h.children \in Seq(Nat \ {0}) /\ IsInjective(h.children)
      /\ Len(h.keys) >= 1 /\ Len(h.children) >= 1
  BY ApartInternal
<1>3. /\ Beside(d, lev, n, b, s) /\ d.n = n /\ ~Fits(h, f) /\ i \in 1 .. Len(p[P].keys)
  BY DEF Apart
<1>4. TakeLastChild(d, b, n, i) = [d EXCEPT !.page = q, !.n = 0]
  <2> DEFINE ww == [p EXCEPT ![n].keys = <<p[f.parent].keys[i]>> \o f.keys,
                            ![n].children = <<Last(h.children)>> \o f.children,
                            ![b].keys = Front(h.keys), ![b].children = Front(h.children),
                            ![f.parent].keys[i] = Last(h.keys)]
  <2>1. TakeLastChild(d, b, n, i) = [d EXCEPT !.page = WithParent(ww, {x}, n), !.n = 0]
    BY DEF TakeLastChild, Move
  <2>2. ww = InternalsChanged(p, n, b, P, u, v, y, z, i, k)
    BY <1>1 DEF InternalsChanged
  <2>3. n \in DOMAIN p /\ b \in DOMAIN p /\ P \in DOMAIN p
    BY <1>1
  <2> HIDE DEF u, v, y, z, k, p, ww
  <2>4. InternalsChanged(p, n, b, P, u, v, y, z, i, k) = w
    <3>1. n # b /\ P # n /\ P # b
      BY <1>1
    <3> HIDE DEF f, h
    <3> QED BY <2>3, <3>1, InternalsChange DEF Turned
  <2> QED BY <2>1, <2>2, <2>4
<1>5. x \in Nat \ {0} /\ x \in Range(h.children) /\ z \in Seq(Nat \ {0})
      /\ Len(z) = Len(h.children) - 1 /\ IsInjective(z) /\ Range(z) = Range(h.children) \ {x}
  <2> DEFINE g == h.children
  <2>1. g \in Seq(Nat \ {0}) /\ Len(g) >= 1 /\ IsInjective(g)
    BY <1>2
  <2> HIDE DEF g
  <2>2. /\ Last(g) \in Nat \ {0} /\ Last(g) \in Range(g) /\ Front(g) \in Seq(Nat \ {0})
        /\ Len(Front(g)) = Len(g) - 1 /\ IsInjective(Front(g)) /\ Range(Front(g)) = Range(g) \ {Last(g)}
    BY <2>1, LastAway
  <2> QED BY <2>2 DEF g
<1>6. k \in Key /\ y \in Seq(Key) /\ Len(y) = Len(h.keys) - 1
  <2> DEFINE g == h.keys
  <2>1. g \in Seq(Key) /\ Len(g) >= 1
    BY <1>2
  <2> HIDE DEF g
  <2>2. Last(g) \in Key /\ Front(g) \in Seq(Key) /\ Len(Front(g)) = Len(g) - 1
    BY <2>1, LastAway
  <2> QED BY <2>2 DEF g
<1> HIDE DEF x, k, y, z, e
<1>7. u \in Seq(Key) /\ Len(u) = Len(f.keys) + 1
  <2> DEFINE g == f.keys
  <2>1. g \in Seq(Key)
    BY <1>2
  <2> HIDE DEF g
  <2>2. <<e>> \o g \in Seq(Key) /\ Len(<<e>> \o g) = Len(g) + 1
    BY <1>1, <2>1, PutFirst
  <2> QED BY <2>2 DEF g
<1>8. /\ v \in Seq(Nat \ {0}) /\ Len(v) = Len(f.children) + 1
      /\ Range(v) = Range(f.children) \union {x}
      /\ x \notin Range(f.children) => IsInjective(v)
  <2> DEFINE g == f.children
  <2>1. g \in Seq(Nat \ {0}) /\ IsInjective(g)
    BY <1>2
  <2> HIDE DEF g
  <2>2. /\ <<x>> \o g \in Seq(Nat \ {0}) /\ Len(<<x>> \o g) = Len(g) + 1
        /\ Range(<<x>> \o g) = Range(g) \union {x}
        /\ x \notin Range(g) => IsInjective(<<x>> \o g)
    BY <1>5, <2>1, PutFirst
  <2> QED BY <2>2 DEF g
<1> HIDE DEF u, v
<1>9. Turns(d, n, b, P, u, v, y, z, i, k, x)
  BY <1>1, <1>3, <1>5, <1>6, <1>7, <1>8 DEF Turns
<1> HIDE DEF p, f, h
<1>10. Passed(d, q, n, b, P, x)
  BY <1>3, <1>9, TurnHolds DEF p
<1> HIDE DEF q
<1>11. Tree(q, d.root, d.free, lev, {}, {})
  BY <1>3, <1>10, PassHolds
<1> QED BY <1>0, <1>4, <1>11 DEF p

LEMMA TakeLastHolds ==
  ASSUME NEW d, NEW lev, NEW n, NEW b, NEW s, NEW P, NEW i, Apart(d, lev, n, b, s, P, i),
         ~d.page[n].leaf, NEW j
  PROVE  Due(TakeLastChild(d, b, n, i), j)
<1>1. IsDelete(d) /\ d.damaged = FALSE
  BY DEF Apart, Beside
<1> DEFINE q == LastPassed(d.page, n, b, P, i)
<1>2. /\ TakeLastChild(d, b, n, i) = [d EXCEPT !.page = q, !.n = 0]
      /\ Tree(q, d.root, d.free, lev, {}, {})
  BY TakeLastIs
<1> HIDE DEF q
<1>3. Due([d EXCEPT !.page = q, !.n = 0], j)
  BY <1>1, <1>2, Ended
<1> QED BY <1>2, <1>3

\* What an element at the end makes of a sequence.
OneAtEnd(T, q, e, r) ==
  /\ r \in Seq(T) /\ Len(r) = Len(q) + 1 /\ Range(r) = Range(q) \union {e}
  /\ IsInjective(q) /\ e \notin Range(q) => IsInjective(r)

LEMMA AtEnd ==
  ASSUME NEW T, NEW q \in Seq(T), NEW e \in T
  PROVE  OneAtEnd(T, q, e, Append(q, e))
<1>1. /\ Append(q, e) \in Seq(T) /\ Len(Append(q, e)) = Len(q) + 1
      /\ Append(q, e) = q \o <<e>>
      /\ Range(Append(q, e)) = Range(q) \union {e}
      /\ IsInjective(q) /\ e \notin Range(q) => IsInjective(Append(q, e))
  BY PutLast
<1> QED BY <1>1 DEF OneAtEnd

\* The pages when the first child of b has gone to n.
FirstPassed(p, n, b, P, i) ==
  WithParent(Turned(p, n, b, P, Append(p[n].keys, p[P].keys[i]),
                    Append(p[n].children, Head(p[b].children)),
                    Tail(p[b].keys), Tail(p[b].children), i, Head(p[b].keys)),
             {Head(p[b].children)}, n)

LEMMA TakeFirstIs ==
  ASSUME NEW d, NEW lev, NEW n, NEW b, NEW s, NEW P, NEW i, Apart(d, lev, n, b, s, P, i),
         ~d.page[n].leaf
  PROVE  /\ TakeFirstChild(d, n, b, i) = [d EXCEPT !.page = FirstPassed(d.page, n, b, P, i), !.n = 0]
         /\ Tree(FirstPassed(d.page, n, b, P, i), d.root, d.free, lev, {}, {})
<1> DEFINE p == d.page
           f == p[n]
           h == p[b]
           e == p[P].keys[i]
           x == Head(h.children)
           u == Append(f.keys, e)
           v == Append(f.children, x)
           y == Tail(h.keys)
           z == Tail(h.children)
           k == Head(h.keys)
           w == Turned(p, n, b, P, u, v, y, z, i, k)
           q == WithParent(w, {x}, n)
<1>0. q = FirstPassed(p, n, b, P, i)
  BY DEF FirstPassed
<1>1. /\ p \in [PageNumber -> Page] /\ IsDelete(d) /\ d.damaged = FALSE
      /\ n \in PageNumber /\ b \in PageNumber /\ P \in PageNumber /\ P # n /\ P # b /\ n # b
      /\ e \in Key /\ P = h.parent /\ P = f.parent
  <2>1. ApartOK(d, n, b, P, i)
    BY ApartPages
  <2> QED BY <2>1 DEF ApartOK
<1>2. /\ f.keys \in Seq(Key) /\ f.children \in Seq(Nat \ {0}) /\ IsInjective(f.children)
      /\ h.keys \in Seq(Key) /\ h.children \in Seq(Nat \ {0}) /\ IsInjective(h.children)
      /\ Len(h.keys) >= 1 /\ Len(h.children) >= 1
  BY ApartInternal
<1>3. /\ Beside(d, lev, n, b, s) /\ d.n = n /\ ~Fits(h, f) /\ i \in 1 .. Len(p[P].keys)
  BY DEF Apart
<1>4. TakeFirstChild(d, n, b, i) = [d EXCEPT !.page = q, !.n = 0]
  <2> DEFINE ww == [p EXCEPT ![n].keys = Append(f.keys, p[h.parent].keys[i]),
                            ![n].children = Append(f.children, Head(h.children)),
                            ![b].keys = Tail(h.keys), ![b].children = Tail(h.children),
                            ![h.parent].keys[i] = Head(h.keys)]
  <2>1. TakeFirstChild(d, n, b, i) = [d EXCEPT !.page = WithParent(ww, {x}, n), !.n = 0]
    BY DEF TakeFirstChild, Move
  <2>2. ww = InternalsChanged(p, n, b, P, u, v, y, z, i, k)
    BY <1>1 DEF InternalsChanged
  <2>3. n \in DOMAIN p /\ b \in DOMAIN p /\ P \in DOMAIN p
    BY <1>1
  <2> HIDE DEF u, v, y, z, k, p, ww
  <2>4. InternalsChanged(p, n, b, P, u, v, y, z, i, k) = w
    <3>1. n # b /\ P # n /\ P # b
      BY <1>1
    <3> HIDE DEF f, h
    <3> QED BY <2>3, <3>1, InternalsChange DEF Turned
  <2> QED BY <2>1, <2>2, <2>4
<1>5. x \in Nat \ {0} /\ x \in Range(h.children) /\ z \in Seq(Nat \ {0})
      /\ Len(z) = Len(h.children) - 1 /\ IsInjective(z) /\ Range(z) = Range(h.children) \ {x}
  <2> DEFINE g == h.children
  <2>1. g \in Seq(Nat \ {0}) /\ Len(g) >= 1 /\ IsInjective(g)
    BY <1>2
  <2> HIDE DEF g
  <2>2. /\ Head(g) \in Nat \ {0} /\ Head(g) \in Range(g) /\ Tail(g) \in Seq(Nat \ {0})
        /\ Len(Tail(g)) = Len(g) - 1 /\ IsInjective(Tail(g)) /\ Range(Tail(g)) = Range(g) \ {Head(g)}
    BY <2>1, FirstAway
  <2> QED BY <2>2 DEF g
<1>6. k \in Key /\ y \in Seq(Key) /\ Len(y) = Len(h.keys) - 1
  <2> DEFINE g == h.keys
  <2>1. g \in Seq(Key) /\ Len(g) >= 1
    BY <1>2
  <2> HIDE DEF g
  <2>2. Head(g) \in Key /\ Tail(g) \in Seq(Key) /\ Len(Tail(g)) = Len(g) - 1
    BY <2>1, FirstAway
  <2> QED BY <2>2 DEF g
<1> HIDE DEF x, k, y, z, e
<1>7. u \in Seq(Key) /\ Len(u) = Len(f.keys) + 1
  <2> DEFINE g == f.keys
  <2>1. g \in Seq(Key)
    BY <1>2
  <2> HIDE DEF g
  <2>2. Append(g, e) \in Seq(Key) /\ Len(Append(g, e)) = Len(g) + 1
    BY <1>1, <2>1, PutLast
  <2> QED BY <2>2 DEF g
<1>8. /\ v \in Seq(Nat \ {0}) /\ Len(v) = Len(f.children) + 1
      /\ Range(v) = Range(f.children) \union {x}
      /\ x \notin Range(f.children) => IsInjective(v)
  <2> DEFINE g == f.children
             T == Nat \ {0}
  <2>1. g \in Seq(T) /\ IsInjective(g) /\ x \in T
    BY <1>2, <1>5
  <2> HIDE DEF g, T
  <2>2. /\ Append(g, x) \in Seq(T) /\ Len(Append(g, x)) = Len(g) + 1
        /\ Range(Append(g, x)) = Range(g) \union {x}
        /\ x \notin Range(g) => IsInjective(Append(g, x))
    <3>1. OneAtEnd(T, g, x, Append(g, x))
      BY <2>1, AtEnd
    <3> QED BY <2>1, <3>1 DEF OneAtEnd
  <2> QED BY <2>2 DEF g, T
<1> HIDE DEF u, v
<1>9. Turns(d, n, b, P, u, v, y, z, i, k, x)
  BY <1>1, <1>3, <1>5, <1>6, <1>7, <1>8 DEF Turns
<1> HIDE DEF p, f, h
<1>10. Passed(d, q, n, b, P, x)
  BY <1>3, <1>9, TurnHolds DEF p
<1> HIDE DEF q
<1>11. Tree(q, d.root, d.free, lev, {}, {})
  BY <1>3, <1>10, PassHolds
<1> QED BY <1>0, <1>4, <1>11 DEF p

LEMMA TakeFirstHolds ==
  ASSUME NEW d, NEW lev, NEW n, NEW b, NEW s, NEW P, NEW i, Apart(d, lev, n, b, s, P, i),
         ~d.page[n].leaf, NEW j
  PROVE  Due(TakeFirstChild(d, n, b, i), j)
<1>1. IsDelete(d) /\ d.damaged = FALSE
  BY DEF Apart, Beside
<1> DEFINE q == FirstPassed(d.page, n, b, P, i)
<1>2. /\ TakeFirstChild(d, n, b, i) = [d EXCEPT !.page = q, !.n = 0]
      /\ Tree(q, d.root, d.free, lev, {}, {})
  BY TakeFirstIs
<1> HIDE DEF q
<1>3. Due([d EXCEPT !.page = q, !.n = 0], j)
  BY <1>1, <1>2, Ended
<1> QED BY <1>2, <1>3

-----------------------------------------------------------------------------
(* Leaves.                                                                 *)

\* The records u of a leaf with one record more, the records y of its neighbour with one
\* less, the free space v and z of both, and the key k at the place i of their parent.
Shifts(d, n, b, P, u, v, y, z, i, k) ==
  /\ d.page[n].leaf /\ d.n = n
  /\ u \in Seq(Key) /\ v \in Nat /\ v + SpaceFor(u) = MAX_FREE_SPACE /\ v < THRESHOLD
  /\ y \in Seq(Key) /\ z \in Nat /\ z + SpaceFor(y) = MAX_FREE_SPACE /\ z < THRESHOLD
  /\ k \in Key

Shifted(p, n, b, P, u, v, y, z, i, k) ==
  ThreePages(p, n, Refilled(p[n], u, v), b, Refilled(p[b], y, z), P, Rekeyed(p[P], i, k))

LEMMA ShiftHolds ==
  ASSUME NEW d, NEW lev, NEW n, NEW b, NEW s, NEW P, NEW i, Apart(d, lev, n, b, s, P, i),
         NEW u, NEW v, NEW y, NEW z, NEW k, Shifts(d, n, b, P, u, v, y, z, i, k)
  PROVE  Tree(Shifted(d.page, n, b, P, u, v, y, z, i, k), d.root, d.free, lev, {}, {})
<1> DEFINE p == d.page
           U == Used(d.free)
           r == d.root
           f == p[n]
           h == p[b]
           e == p[P]
           ff == Refilled(f, u, v)
           hh == Refilled(h, y, z)
           ee == Rekeyed(e, i, k)
           q == Shifted(p, n, b, P, u, v, y, z, i, k)
<1>1. /\ p \in [PageNumber -> Page]
      /\ n \in PageNumber /\ b \in PageNumber /\ P \in PageNumber /\ P # n /\ P # b /\ n # b
      /\ f \in Page /\ PageOK(f) /\ h \in Page /\ PageOK(h) /\ f.leaf = h.leaf /\ e \in Page
      /\ P = f.parent
  <2>1. ApartOK(d, n, b, P, i)
    BY ApartPages
  <2> QED BY <2>1 DEF ApartOK
<1>2. /\ Tree(p, r, d.free, lev, {}, {d.n}) /\ n \in U /\ b \in U /\ n # r /\ b # r /\ d.n = n
      /\ lev[n] = lev[b] /\ i \in 1 .. Len(e.keys) /\ U \subseteq PageNumber
  BY DEF Apart, Beside, Used
<1>3. /\ f.leaf = TRUE /\ h.leaf = TRUE
      /\ u \in Seq(Key) /\ v \in Nat /\ v + SpaceFor(u) = MAX_FREE_SPACE /\ v < THRESHOLD
      /\ y \in Seq(Key) /\ z \in Nat /\ z + SpaceFor(y) = MAX_FREE_SPACE /\ z < THRESHOLD
      /\ k \in Key
  BY <1>1, PageFields DEF Shifts
<1>4. PageOK(e) /\ ~e.leaf /\ (IF P = r THEN Rooted(e) ELSE Enough(e)) /\ lev[P] # 0
  <2>1. Beside(d, lev, n, b, s) /\ P = d.page[n].parent
    BY DEF Apart
  <2> HIDE DEF f, h, e
  <2>2. /\ PageOK(d.page[P]) /\ ~d.page[P].leaf
        /\ (IF P = d.root THEN Rooted(d.page[P]) ELSE Enough(d.page[P]))
        /\ lev[P] = lev[n] + 1 /\ lev[n] \in Nat
    BY <2>1, BesidePages
  <2>3. lev[P] # 0
    BY <2>2
  <2> QED BY <2>2, <2>3 DEF e
<1>5. /\ \A m \in U : FullAt(p, r, lev, {n}, m)
      /\ lev[n] = 0 /\ lev[b] = 0
  <2>1. \A m \in U : FullAt(p, r, lev, {n}, m)
    BY <1>2 DEF Tree, Stocked
  <2>2. lev[n] = 0
    BY <1>2, <1>3, <2>1 DEF FullAt
  <2> QED BY <1>2, <2>1, <2>2
<1>6. IsLeaf(ff, f.parent, u, v)
  <2> HIDE DEF f, h, e
  <2> QED BY <1>1, <1>3, LeafReplaced
<1>7. IsLeaf(hh, h.parent, y, z)
  <2> HIDE DEF f, h, e
  <2> QED BY <1>1, <1>3, LeafReplaced
<1>8. /\ ee \in Page /\ PageOK(ee) /\ ee.leaf = FALSE /\ ee.parent = e.parent
      /\ ee.children = e.children /\ (Enough(e) => Enough(ee)) /\ (Rooted(e) => Rooted(ee))
  <2> HIDE DEF f, h, e
  <2> QED BY <1>1, <1>2, <1>3, <1>4, KeyReplaced
<1>9. q = ThreePages(p, n, ff, b, hh, P, ee)
  BY DEF Shifted
<1>10. /\ ff \in Page /\ PageOK(ff) /\ ff.leaf /\ Enough(ff) /\ ff.parent = f.parent
       /\ Range(ff.children) = {}
       /\ hh \in Page /\ PageOK(hh) /\ hh.leaf /\ Enough(hh) /\ hh.parent = h.parent
       /\ Range(hh.children) = {}
  BY <1>3, <1>6, <1>7 DEF IsLeaf, Enough
<1>11. Range(f.children) = {} /\ Range(h.children) = {}
  <2>1. f.children = << >> /\ h.children = << >> /\ Range(<< >>) = {}
    BY <1>1, <1>3 DEF PageOK, Range
  <2> QED BY <2>1
<1> HIDE DEF ff, hh, ee, q
<1>12. /\ q \in [PageNumber -> Page] /\ q[n] = ff /\ q[b] = hh /\ q[P] = ee
       /\ \A m \in PageNumber : m \notin {n, b, P} => q[m] = p[m]
  <2>1. Changed(p, ThreePages(p, n, ff, b, hh, P, ee), n, ff, b, hh, P, ee)
    <3> HIDE DEF p, f, h, e
    <3>1. /\ p \in [PageNumber -> Page] /\ n \in PageNumber /\ b \in PageNumber /\ P \in PageNumber
          /\ n # b /\ P # n /\ P # b /\ ff \in Page /\ hh \in Page /\ ee \in Page
      BY <1>1, <1>8, <1>10
    <3> QED BY <3>1, ThreeAre
  <2> QED BY <1>9, <2>1 DEF Changed
<1>13. ASSUME NEW m \in U
       PROVE  /\ q[m].parent = p[m].parent /\ Range(q[m].children) = Range(p[m].children)
              /\ FullAt(q, r, lev, {}, m)
  <2>1. CASE m = n
    BY <1>2, <1>5, <1>10, <1>11, <1>12, <2>1 DEF FullAt
  <2>2. CASE m = b
    BY <1>2, <1>5, <1>10, <1>11, <1>12, <2>2 DEF FullAt
  <2>3. CASE m = P
    BY <1>4, <1>8, <1>12, <2>3 DEF FullAt
  <2>4. CASE m \notin {n, b, P}
    BY <1>2, <1>5, <1>12, <2>4 DEF FullAt
  <2> QED BY <2>1, <2>2, <2>3, <2>4
<1> HIDE DEF p, U, r, f, h, e
<1>14. Same(p, q, r, d.free, lev, {})
  BY <1>12, <1>13 DEF Same, U
<1>15. Tree(q, r, d.free, lev, {}, {})
  BY <1>2, <1>14, TreeSame
<1> QED BY <1>15 DEF q, r, p

-----------------------------------------------------------------------------
(* The first record of the right neighbour changes over.                   *)

\* The rounds of redistributing, when the neighbour has enough to give.
LEMMA RoundsFound ==
  ASSUME NEW f \in Page, NEW q \in Seq(Key), f.space < SpaceFor(q)
  PROVE  /\ Rounds(f, q) \in 1 .. Len(q)
         /\ f.space < THRESHOLD + SpaceFor(SubSeq(q, 1, Rounds(f, q)))
<1> DEFINE S == {r \in DOMAIN q : f.space < THRESHOLD + SpaceFor(SubSeq(q, 1, r))}
           L == Len(q)
<1>1. f.space \in Nat /\ L \in Nat /\ DOMAIN q = 1 .. L /\ SpaceFor(q) \in Nat
  <2>1. << >> \in Seq(Key)
    OBVIOUS
  <2> QED BY <2>1, PageFields, SpaceJoined
<1>2. L # 0
  <2> SUFFICES ASSUME L = 0 PROVE FALSE
    OBVIOUS
  <2>1. PICK g : Adds(q, g) /\ SpaceFor(q) = g[Len(q)]
    BY SpaceAdds
  <2>2. SpaceFor(q) = 0
    BY <2>1 DEF Adds
  <2> QED BY <1>1, <2>2
<1>3. SubSeq(q, 1, L) = q
  OBVIOUS
<1>4. L \in S
  <2>1. f.space < THRESHOLD + SpaceFor(SubSeq(q, 1, L))
    <3> DEFINE x == f.space
               y == SpaceFor(q)
    <3>1. x \in Nat /\ y \in Nat /\ x < y /\ THRESHOLD \in Nat
      BY <1>1, Constants
    <3> HIDE DEF x, y
    <3>2. x < THRESHOLD + y
      BY <3>1
    <3> QED BY <1>3, <3>2 DEF x, y
  <2> QED BY <1>1, <1>2, <2>1
<1>5. S \subseteq Nat
  BY <1>1
<1>6. Rounds(f, q) = Min(S)
  BY DEF Rounds
<1> HIDE DEF S
<1>7. Min(S) \in S
  <2>1. \E x \in S : \A h \in S : x <= h
    BY <1>4, <1>5, Smallest
  <2> QED BY <2>1 DEF Min
<1>8. Rounds(f, q) \in S
  BY <1>6, <1>7
<1> QED BY <1>1, <1>8 DEF S

\* The records slots are those of the neighbour moved down by r places, the last slot
\* keeping its record.
Slots(q, r) == [j \in DOMAIN q |-> q[Min({j + r, Len(q)})]]

LEMMA SlotsDown ==
  ASSUME NEW q \in Seq(Key), Len(q) >= 1
  PROVE  Head(Slots(q, 1)) \in Key /\ Front(Slots(q, 1)) = Tail(q)
<1> DEFINE L == Len(q)
           m == [j \in 1 .. L |-> Min({j + 1, L})]
           t == Slots(q, 1)
<1>1. /\ L \in Nat /\ L >= 1 /\ DOMAIN q = 1 .. L /\ \A j \in 1 .. L : q[j] \in Key
  BY InRange
<1>2. ASSUME NEW j \in 1 .. L
      PROVE  m[j] \in 1 .. L /\ (j # L => m[j] = j + 1)
  <2> DEFINE S == {j + 1, L}
  <2>1. S \subseteq Nat /\ S # {}
    BY <1>1
  <2>2. \E x \in S : \A h \in S : x <= h
    <3> HIDE DEF S
    <3> QED BY <2>1, Smallest
  <2>3. Min(S) \in S /\ \A h \in S : Min(S) <= h
    <3> HIDE DEF S
    <3> QED BY <2>2 DEF Min
  <2> DEFINE x == Min(S)
  <2>4. (x = j + 1 \/ x = L) /\ x <= L /\ x <= j + 1
    BY <2>3
  <2>5. m[j] = x
    OBVIOUS
  <2> HIDE DEF x, m, L
  <2>6. j \in Nat /\ 1 <= j /\ j <= L
    BY <1>1
  <2>7. x \in 1 .. L
    BY <1>1, <2>4, <2>6
  <2>8. j # L => x = j + 1
    BY <1>1, <2>4, <2>6
  <2> QED BY <2>5, <2>7, <2>8
<1>3. t = [j \in 1 .. L |-> q[m[j]]]
  BY <1>1 DEF Slots
<1> HIDE DEF t, m, L
<1>4. t \in Seq(Key) /\ Len(t) = L
  BY <1>1, <1>2, <1>3
<1>5. Head(t) \in Key
  BY <1>1, <1>4
<1>6. Front(t) = Tail(q)
  <2>1. Front(t) = SubSeq(t, 1, L - 1)
    BY <1>4 DEF Front
  <2>2. ASSUME NEW j \in 1 .. L - 1
        PROVE  t[j] = q[j + 1]
    <3>1. j \in 1 .. L /\ j # L
      BY <1>1
    <3> QED BY <1>2, <1>3, <3>1
  <2>3. /\ SubSeq(t, 1, L - 1) \in Seq(Key) /\ Len(SubSeq(t, 1, L - 1)) = L - 1
        /\ \A j \in 1 .. L - 1 : SubSeq(t, 1, L - 1)[j] = t[j]
    BY <1>1, <1>4
  <2>4. Tail(q) \in Seq(Key) /\ Len(Tail(q)) = L - 1 /\ \A j \in 1 .. L - 1 : Tail(q)[j] = q[j + 1]
    BY <1>1 DEF L
  <2> DEFINE a == SubSeq(t, 1, L - 1)
             b == Tail(q)
  <2>5. a \in Seq(Key) /\ b \in Seq(Key) /\ Len(a) = L - 1 /\ Len(b) = L - 1
        /\ \A j \in 1 .. L - 1 : a[j] = b[j]
    BY <2>2, <2>3, <2>4
  <2> HIDE DEF a, b
  <2>6. a = b
    BY <2>5
  <2> QED BY <2>1, <2>6 DEF a, b
<1> QED BY <1>5, <1>6 DEF t

\* The space of records with one in front, or at the end.
LEMMA HeadSpace ==
  ASSUME NEW q \in Seq(Key), Len(q) >= 1
  PROVE  SpaceFor(q) = Size[Head(q)] + SpaceFor(Tail(q)) /\ SpaceFor(Tail(q)) \in Nat
<1> DEFINE k == Head(q)
           t == Tail(q)
<1>1. k \in Key /\ t \in Seq(Key) /\ q = <<k>> \o t
  BY FirstAway
<1> HIDE DEF k, t
<1>2. <<k>> \in Seq(Key) /\ SpaceFor(<<k>>) = Size[k]
  BY <1>1, Single, SpaceSingle
<1>3. SpaceFor(<<k>> \o t) = SpaceFor(<<k>>) + SpaceFor(t) /\ SpaceFor(t) \in Nat
  BY <1>1, <1>2, SpaceJoined
<1> QED BY <1>1, <1>2, <1>3 DEF k, t

LEMMA EndSpace ==
  ASSUME NEW q \in Seq(Key), NEW k \in Key
  PROVE  SpaceFor(Append(q, k)) = SpaceFor(q) + Size[k] /\ Append(q, k) \in Seq(Key)
<1>1. <<k>> \in Seq(Key) /\ SpaceFor(<<k>>) = Size[k]
  BY Single, SpaceSingle
<1>2. SpaceFor(q \o <<k>>) = SpaceFor(q) + SpaceFor(<<k>>)
  BY <1>1, SpaceJoined
<1> QED BY <1>1, <1>2, PutLast

\* One record of the neighbour is enough to fill the leaf, and the neighbour stays full
\* enough.
LEMMA OneShifts ==
  ASSUME NEW d, NEW lev, NEW n, NEW b, NEW s, NEW P, NEW i, Apart(d, lev, n, b, s, P, i),
         d.page[n].leaf
  PROVE  LET f == d.page[n]
             h == d.page[b]
             k == Head(h.keys)
         IN /\ f.space < SpaceFor(h.keys) /\ Len(h.keys) >= 1
            /\ f.space < THRESHOLD + Size[k] =>
                 Shifts(d, n, b, P, Append(f.keys, k), f.space - Size[k],
                        Tail(h.keys), h.space + Size[k], i, Head(Slots(h.keys, 1)))
<1> DEFINE f == d.page[n]
           h == d.page[b]
           q == h.keys
           k == Head(q)
           x == f.space
           y == h.space
           u == SpaceFor(f.keys)
           v == SpaceFor(q)
           m == MAX_FREE_SPACE
<1>1. f \in Page /\ h \in Page /\ PageOK(f) /\ PageOK(h) /\ f.leaf /\ h.leaf
  BY ApartPages DEF ApartOK
<1>2. ~Filled(d.page, d.n) /\ d.n = n /\ ~Fits(h, f)
  BY DEF Apart, Beside
<1>3. /\ x \in Nat /\ y \in Nat /\ f.keys \in Seq(Key) /\ q \in Seq(Key)
      /\ x + u = m /\ y + v = m
  BY <1>1, PageFields DEF PageOK
<1>4. u \in Nat /\ v \in Nat /\ m \in Nat
  BY <1>3, SpaceJoined, Constants
<1>5. ~(x < THRESHOLD) /\ ~(y + x >= m)
  BY <1>1, <1>2 DEF Filled, Fits
<1> HIDE DEF u, v, x, y, m
<1>6. x < v /\ x >= THRESHOLD /\ y + x < m
  <2>1. x \in Nat /\ y \in Nat /\ v \in Nat /\ m \in Nat /\ THRESHOLD \in Nat
    BY <1>3, <1>4, Constants
  <2> QED BY <1>3, <1>5, <2>1
<1>7. Len(q) >= 1
  <2> SUFFICES ASSUME ~(Len(q) >= 1) PROVE FALSE
    OBVIOUS
  <2> HIDE DEF q
  <2>1. Len(q) = 0
    BY <1>3
  <2>2. q = << >>
    BY <1>3, <2>1
  <2>3. \E e : e \in Key
    <3>1. x < v
      BY <1>6
    <3>2. PICK g : Adds(q, g) /\ SpaceFor(q) = g[Len(q)]
      BY <1>3, SpaceAdds
    <3>3. v = 0
      BY <2>1, <3>2 DEF Adds, v
    <3> QED BY <1>3, <3>1, <3>3
  <2>4. v = 0
    <3>1. SpaceFor(<< >>) = 0
      BY <2>3, SpaceSingle
    <3> QED BY <2>2, <3>1 DEF v
  <2> QED BY <1>3, <1>6, <2>4
<1> DEFINE z == Size[k]
           w == SpaceFor(Tail(q))
<1>8. k \in Key /\ Tail(q) \in Seq(Key) /\ v = z + w /\ w \in Nat
  <2> HIDE DEF q
  <2> QED BY <1>3, <1>7, FirstAway, HeadSpace DEF v
<1>9. z \in Nat /\ 2 * z <= m \div 2 /\ (m - m \div 2) + z < THRESHOLD
  BY <1>8, SizeIsNat, DeletionAssumption DEF m
<1>10. SpaceFor(Append(f.keys, k)) = u + z /\ Append(f.keys, k) \in Seq(Key)
  <2> DEFINE g == f.keys
  <2> HIDE DEF g, k
  <2>1. SpaceFor(Append(g, k)) = SpaceFor(g) + Size[k] /\ Append(g, k) \in Seq(Key)
    BY <1>3, <1>8, EndSpace DEF g
  <2> QED BY <2>1 DEF g, u
<1>11. Head(Slots(q, 1)) \in Key
  <2> HIDE DEF q
  <2> QED BY <1>3, <1>7, SlotsDown
<1>12. x - z \in Nat /\ (x - z) + (u + z) = m /\ y + z \in Nat /\ (y + z) + w = m
       /\ y + z < THRESHOLD
  <2> HIDE DEF z, w
  <2> DEFINE o == m \div 2
             t == THRESHOLD
  <2>1. o \in Nat /\ 2 * o <= m /\ m <= 2 * o + 1 /\ t \in Nat /\ t <= m
    BY Constants DEF m
  <2>2. x >= t /\ y + x < m /\ 2 * z <= o /\ (m - o) + z < t
    BY <1>6, <1>9
  <2> HIDE DEF o, t
  <2>3. z <= x
    BY <1>3, <1>4, <1>9, <2>1, <2>2
  <2>4. x - z \in Nat /\ (x - z) + (u + z) = m
    BY <1>3, <1>4, <1>9, <2>3
  <2>5. y + z \in Nat /\ (y + z) + w = m
    BY <1>3, <1>4, <1>8, <1>9
  <2>6. y + z < t
    <3>1. y < m - x /\ x >= t
      BY <1>3, <1>4, <2>1, <2>2
    <3>2. y < m - t
      BY <1>3, <1>4, <2>1, <3>1
    <3>3. m - o <= t
      BY <1>4, <1>9, <2>1, <2>2
    <3>4. y < o
      BY <1>3, <1>4, <2>1, <3>2, <3>3
    <3>5. o <= m - o
      BY <1>4, <2>1
    <3>6. y + z < (m - o) + z
      BY <1>3, <1>4, <1>9, <2>1, <3>4, <3>5
    <3> QED BY <1>3, <1>4, <1>9, <2>1, <2>2, <3>6
  <2> QED BY <2>4, <2>5, <2>6 DEF t
<1>13. x < THRESHOLD + z => x - z < THRESHOLD
  <2> HIDE DEF z
  <2>1. x \in Nat /\ z \in Nat /\ THRESHOLD \in Nat
    BY <1>3, <1>9, Constants
  <2> QED BY <2>1
<1>14. x < THRESHOLD + z =>
         Shifts(d, n, b, P, Append(f.keys, k), x - z, Tail(q), y + z, i, Head(Slots(q, 1)))
  <2> DEFINE a == Append(f.keys, k)
             c == Tail(q)
             e == Head(Slots(q, 1))
  <2>1. /\ a \in Seq(Key) /\ c \in Seq(Key) /\ e \in Key /\ d.n = n /\ d.page[n].leaf
        /\ SpaceFor(a) = u + z /\ SpaceFor(c) = w
    BY <1>1, <1>2, <1>8, <1>10, <1>11
  <2> HIDE DEF a, c, e, z, w
  <2> DEFINE v1 == x - z
             z1 == y + z
  <2>2. v1 \in Nat /\ v1 + SpaceFor(a) = m /\ z1 \in Nat /\ z1 + SpaceFor(c) = m /\ z1 < THRESHOLD
    BY <1>12, <2>1
  <2>3. x < THRESHOLD + z => v1 < THRESHOLD
    BY <1>13
  <2> HIDE DEF v1, z1, f
  <2>4. x < THRESHOLD + z => Shifts(d, n, b, P, a, v1, c, z1, i, e)
    BY <2>1, <2>2, <2>3 DEF Shifts, m
  <2> QED BY <2>4 DEF v1, z1, a, c, e
<1> QED BY <1>6, <1>7, <1>14 DEF x, y, v

\* The pages when the first record of b has gone to n.
RightShifted(p, n, b, P, i) ==
  Shifted(p, n, b, P, Append(p[n].keys, Head(p[b].keys)), p[n].space - Size[Head(p[b].keys)],
          Tail(p[b].keys), p[b].space + Size[Head(p[b].keys)], i, Head(Slots(p[b].keys, 1)))

LEMMA TakeRightIs ==
  ASSUME NEW d, NEW lev, NEW n, NEW b, NEW s, NEW P, NEW i, Apart(d, lev, n, b, s, P, i),
         d.page[n].leaf
  PROVE  \/ Hurt(TakeFromRight(d, n, b, i))
         \/ /\ TakeFromRight(d, n, b, i) = [d EXCEPT !.page = RightShifted(d.page, n, b, P, i), !.n = 0]
            /\ Tree(RightShifted(d.page, n, b, P, i), d.root, d.free, lev, {}, {})
            /\ d.page[n].space < THRESHOLD + Size[Head(d.page[b].keys)]
<1> DEFINE p == d.page
           f == p[n]
           h == p[b]
           q == h.keys
           r == Rounds(f, q)
           c == TakeFromRight(d, n, b, i)
<1>1. /\ p \in [PageNumber -> Page] /\ IsDelete(d) /\ d.damaged = FALSE
      /\ n \in PageNumber /\ b \in PageNumber /\ P \in PageNumber /\ P # n /\ P # b /\ n # b
      /\ f \in Page /\ h \in Page /\ P = f.parent
  <2>1. ApartOK(d, n, b, P, i)
    BY ApartPages
  <2> QED BY <2>1 DEF ApartOK
<1>2. q \in Seq(Key) /\ f.space < SpaceFor(q) /\ Len(q) >= 1
  BY <1>1, OneShifts, PageFields
<1>3. r \in 1 .. Len(q) /\ f.space < THRESHOLD + SpaceFor(SubSeq(q, 1, r))
  <2> HIDE DEF f, q
  <2> QED BY <1>1, <1>2, RoundsFound
<1>4. CASE r > 1
  <2>1. c.damaged = TRUE /\ "damaged" \in DOMAIN c
    <3>1. "damaged" \in DOMAIN d
      BY <1>1 DEF IsDelete
    <3>2. "damaged" \in DOMAIN c
      BY <3>1 DEF TakeFromRight
    <3>3. c.damaged = (d.damaged \/ r > 1)
      BY <3>1 DEF TakeFromRight
    <3> QED BY <1>4, <3>2, <3>3
  <2> HIDE DEF c
  <2> QED BY <2>1 DEF Hurt, c
<1>5. CASE ~(r > 1)
  <2> DEFINE k == Head(q)
             u == Append(f.keys, k)
             v == f.space - Size[k]
             y == Tail(q)
             z == h.space + Size[k]
             e == Head(Slots(q, 1))
             t == Shifted(p, n, b, P, u, v, y, z, i, e)
  <2>0. t = RightShifted(p, n, b, P, i)
    BY DEF RightShifted
  <2>1. r = 1
    <3>1. Len(q) \in Nat
      BY <1>2
    <3> HIDE DEF r, q
    <3> QED BY <1>3, <1>5, <3>1
  <2>2. SubSeq(q, 1, 1) = <<k>> /\ Last(<<k>>) = k /\ SpaceFor(<<k>>) = Size[k] /\ k \in Key
    <3>1. k \in Key
      <4> HIDE DEF q
      <4> QED BY <1>2, FirstAway
    <3>2. SubSeq(q, 1, 1) = <<k>>
      <4> DEFINE S == SubSeq(q, 1, 1)
                 T == <<Head(q)>>
      <4> HIDE DEF q
      <4>1. S \in Seq(Key) /\ Len(S) = 1 /\ S[1] = q[1]
        BY <1>2
      <4>2. T \in Seq(Key) /\ Len(T) = 1 /\ T[1] = q[1]
        BY <1>2
      <4> HIDE DEF S, T
      <4>3. S = T
        BY <4>1, <4>2
      <4> QED BY <4>3 DEF S, T
    <3> HIDE DEF k, q
    <3>3. Last(<<k>>) = k
      BY DEF Last
    <3> QED BY <3>1, <3>2, <3>3, SpaceSingle
  <2>3. Front(Slots(q, 1)) = y
    <3> HIDE DEF q
    <3> QED BY <1>2, SlotsDown
  <2>4. c = [d EXCEPT !.page = t, !.n = 0]
    <3> DEFINE S == SubSeq(q, 1, r)
               G == [p EXCEPT ![n].keys = Append(f.keys, Last(S)),
                              ![n].space = f.space - SpaceFor(S),
                              ![b].keys = Front(Slots(q, r)),
                              ![b].space = h.space + SpaceFor(S),
                              ![f.parent].keys[i] = Head(Slots(q, r))]
    <3>1. c = [d EXCEPT !.page = G, !.damaged = d.damaged \/ r > 1, !.n = 0]
      BY DEF TakeFromRight, Slots
    <3>2. S = <<k>>
      BY <2>1, <2>2
    <3>3. G = LeavesChanged(p, n, b, P, u, v, y, z, i, e)
      <4>1. /\ Append(f.keys, Last(S)) = u /\ f.space - SpaceFor(S) = v
            /\ Front(Slots(q, r)) = y /\ h.space + SpaceFor(S) = z /\ f.parent = P
            /\ Head(Slots(q, r)) = e
        <5> HIDE DEF S, q, r, f, h
        <5> QED BY <1>1, <2>1, <2>2, <2>3, <3>2
      <4> DEFINE g1 == Append(f.keys, Last(S))
                 g2 == f.space - SpaceFor(S)
                 g3 == Front(Slots(q, r))
                 g4 == h.space + SpaceFor(S)
                 g5 == f.parent
                 g6 == Head(Slots(q, r))
      <4>2. G = LeavesChanged(p, n, b, g5, g1, g2, g3, g4, i, g6)
        <5> HIDE DEF g1, g2, g3, g4, g6
        <5> QED BY DEF LeavesChanged, g1, g2, g3, g4, g6
      <4> HIDE DEF G, u, v, y, z, e, S
      <4> QED BY <4>1, <4>2
    <3>4. LeavesChanged(p, n, b, P, u, v, y, z, i, e) = t
      <4>1. n \in DOMAIN p /\ b \in DOMAIN p /\ P \in DOMAIN p /\ n # b /\ P # n /\ P # b
        BY <1>1
      <4> HIDE DEF u, v, y, z, e, p
      <4> QED BY <4>1, LeavesChange DEF Shifted
    <3>5. (d.damaged \/ r > 1) = d.damaged
      BY <1>1, <1>5
    <3> HIDE DEF G, t, r
    <3>6. c = [d EXCEPT !.page = t, !.damaged = d.damaged, !.n = 0]
      BY <3>1, <3>3, <3>4, <3>5
    <3>7. d = [d EXCEPT !.damaged = d.damaged]
      BY <1>1 DEF IsDelete
    <3> HIDE DEF c
    <3> QED BY <1>1, <3>6 DEF IsDelete
  <2>8. f.space < THRESHOLD + Size[k]
    BY <1>3, <2>1, <2>2
  <2>5. Shifts(d, n, b, P, u, v, y, z, i, e)
    BY <2>8, OneShifts
  <2> HIDE DEF u, v, y, z, e
  <2>6. Tree(t, d.root, d.free, lev, {}, {})
    BY <2>5, ShiftHolds
  <2> HIDE DEF t, c
  <2> QED BY <2>0, <2>4, <2>6, <2>8 DEF c
<1> QED BY <1>4, <1>5

LEMMA TakeRightHolds ==
  ASSUME NEW d, NEW lev, NEW n, NEW b, NEW s, NEW P, NEW i, Apart(d, lev, n, b, s, P, i),
         d.page[n].leaf, NEW j
  PROVE  Due(TakeFromRight(d, n, b, i), j)
<1> DEFINE c == TakeFromRight(d, n, b, i)
           q == RightShifted(d.page, n, b, P, i)
<1>1. IsDelete(d) /\ d.damaged = FALSE
  BY DEF Apart, Beside
<1>2. \/ Hurt(c)
      \/ c = [d EXCEPT !.page = q, !.n = 0] /\ Tree(q, d.root, d.free, lev, {}, {})
  <2>1. Hurt(c) \/ (/\ c = [d EXCEPT !.page = q, !.n = 0]
                    /\ Tree(q, d.root, d.free, lev, {}, {})
                    /\ d.page[n].space < THRESHOLD + Size[Head(d.page[b].keys)])
    BY TakeRightIs
  <2> QED BY <2>1, SMTT(30)
<1> HIDE DEF c, q
<1>3. Hurt(c) => Due(c, j)
  BY DEF Due
<1>4. ASSUME ~Hurt(c) PROVE Due(c, j)
  <2>1. Due([d EXCEPT !.page = q, !.n = 0], j)
    BY <1>1, <1>2, <1>4, Ended
  <2> QED BY <1>2, <1>4, <2>1
<1>5. Due(c, j)
  BY <1>3, <1>4
<1> QED BY <1>5 DEF c

-----------------------------------------------------------------------------
(* A page that is too empty.                                               *)

LEMMA LeftHurts ==
  ASSUME NEW d, IsDelete(d), NEW m, NEW n, NEW i, NEW j
  PROVE  Due(TakeFromLeft(d, m, n, i), j)
<1> DEFINE c == TakeFromLeft(d, m, n, i)
<1>1. "damaged" \in DOMAIN d
  BY SMTT(30) DEF IsDelete
<1>2. "damaged" \in DOMAIN c /\ c.damaged = TRUE
  BY <1>1 DEF TakeFromLeft
<1> HIDE DEF c
<1> QED BY <1>2 DEF Due, Hurt, c

\* Which page is the left one makes no difference to whether two fit into one.
LEMMA FitsEitherWay ==
  ASSUME NEW a \in Page, NEW b \in Page, a.leaf = b.leaf, Fits(a, b)
  PROVE  Fits(b, a)
<1> DEFINE x == a.space
           y == b.space
           u == Len(a.keys)
           v == Len(b.keys)
<1>1. x \in Nat /\ y \in Nat /\ u \in Nat /\ v \in Nat
  BY PageFields
<1> HIDE DEF x, y, u, v
<1>2. (IF a.leaf THEN x + y >= MAX_FREE_SPACE ELSE u + v < MAX_KEY_NUMBER)
  BY DEF Fits, x, y, u, v
<1>3. x + y = y + x /\ u + v = v + u
  BY <1>1
<1>4. (IF b.leaf THEN y + x >= MAX_FREE_SPACE ELSE v + u < MAX_KEY_NUMBER)
  BY <1>2, <1>3
<1> QED BY <1>4 DEF Fits, x, y, u, v

LEMMA RefillIs ==
  ASSUME NEW d, NEW P, NEW j, NEW m, NEW s, Chooses(d, P, j, m, s)
  PROVE  Refill(d) = IF Fits(d.page[m], d.page[d.n])
                     THEN IF j = 0 THEN Coalesce(d, d.n, m, s) ELSE Coalesce(d, m, d.n, s)
                     ELSE Redistribute(d, m, d.n, j)
BY DEF Refill, Chooses, BesideAt, KeyAt

LEMMA RefillHolds ==
  ASSUME NEW d, NEW i, Leans(d, i), NEW lev, Lean(d, lev, i), d.n # d.root,
         ~Filled(d.page, d.n)
  PROVE  Due(Refill(d), i + 1)
<1> DEFINE p == d.page
           n == d.n
           P == p[n].parent
           j == NeighborIndex(p, n)
           m == p[P].children[BesideAt(j)]
           s == p[P].keys[KeyAt(j)]
<1>1. Chooses(d, P, j, m, s)
  BY DEF Chooses
<1> HIDE DEF j, m, s
<1>2. /\ j \in Nat /\ KeyAt(j) \in 1 .. Len(p[P].keys)
      /\ Beside(d, lev, n, m, s) /\ Beside(d, lev, m, n, s)
  BY <1>1, BesideHolds
<1>3. /\ IsDelete(d) /\ lev[n] = i /\ lev[m] = i
  BY <1>2 DEF Beside, Lean
<1>4. /\ p[n] \in Page /\ p[m] \in Page /\ p[n].leaf = p[m].leaf
  BY <1>2, BesidePages
<1>5. Refill(d) = IF Fits(p[m], p[n])
                  THEN IF j = 0 THEN Coalesce(d, n, m, s) ELSE Coalesce(d, m, n, s)
                  ELSE Redistribute(d, m, n, j)
  BY <1>1, RefillIs
<1>6. CASE Fits(p[m], p[n])
  <2>1. Fits(p[n], p[m])
    BY <1>4, <1>6, FitsEitherWay
  <2>2. CASE j = 0
    <3>1. Due(Coalesce(d, n, m, s), lev[n] + 1)
      BY <1>2, <2>1, CoalesceHolds
    <3> QED BY <1>3, <1>5, <1>6, <2>2, <3>1
  <2>3. CASE j # 0
    <3>1. Due(Coalesce(d, m, n, s), lev[m] + 1)
      BY <1>2, <1>6, CoalesceHolds
    <3> QED BY <1>3, <1>5, <1>6, <2>3, <3>1
  <2> QED BY <2>2, <2>3
<1>7. CASE ~Fits(p[m], p[n])
  <2>1. Refill(d) = Redistribute(d, m, n, j)
    BY <1>5, <1>7
  <2>2. Apart(d, lev, n, m, s, P, KeyAt(j))
    BY <1>2, <1>7 DEF Apart
  <2>3. CASE j > 0 /\ p[n].leaf
    <3>1. Redistribute(d, m, n, j) = TakeFromLeft(d, m, n, j)
      BY <2>3 DEF Redistribute
    <3> QED BY <1>3, <2>1, <3>1, LeftHurts
  <2>4. CASE j > 0 /\ ~p[n].leaf
    <3>1. Redistribute(d, m, n, j) = TakeLastChild(d, m, n, j)
      BY <2>4 DEF Redistribute
    <3>2. KeyAt(j) = j
      BY <1>2, <2>4 DEF KeyAt
    <3>3. Due(TakeLastChild(d, m, n, KeyAt(j)), i + 1)
      BY <2>2, <2>4, TakeLastHolds
    <3> QED BY <2>1, <3>1, <3>2, <3>3
  <2>5. CASE ~(j > 0) /\ p[n].leaf
    <3>1. Redistribute(d, m, n, j) = TakeFromRight(d, n, m, 1)
      BY <2>5 DEF Redistribute
    <3>2. KeyAt(j) = 1
      BY <1>2, <2>5 DEF KeyAt
    <3>3. Due(TakeFromRight(d, n, m, KeyAt(j)), i + 1)
      BY <2>2, <2>5, TakeRightHolds
    <3> QED BY <2>1, <3>1, <3>2, <3>3
  <2>6. CASE ~(j > 0) /\ ~p[n].leaf
    <3>1. Redistribute(d, m, n, j) = TakeFirstChild(d, n, m, 1)
      BY <2>6 DEF Redistribute
    <3>2. KeyAt(j) = 1
      BY <1>2, <2>6 DEF KeyAt
    <3>3. Due(TakeFirstChild(d, n, m, KeyAt(j)), i + 1)
      BY <2>2, <2>6, TakeFirstHolds
    <3> QED BY <2>1, <3>1, <3>2, <3>3
  <2> QED BY <2>3, <2>4, <2>5, <2>6
<1> QED BY <1>6, <1>7

LEMMA ContinueHolds ==
  ASSUME NEW d, NEW i, Leans(d, i)
  PROVE  Due(Continue(d), i + 1)
<1>1. PICK lev : Lean(d, lev, i)
  BY DEF Leans
<1>2. CASE d.n = d.root
  BY <1>1, <1>2, RootHolds
<1>3. CASE d.n # d.root /\ Filled(d.page, d.n)
  <2> DEFINE g == d.page[d.n]
             z == Len(g.keys)
  <2>1. g \in Page
    BY <1>1, TreePage DEF Lean
  <2>2. z \in Nat
    BY <2>1, PageFields
  <2>3. ~g.leaf => z + 1 >= MAX_KEY_NUMBER \div 2
    <3>1. ~g.leaf => z >= MAX_KEY_NUMBER \div 2
      BY <1>3 DEF Filled
    <3> HIDE DEF z
    <3> QED BY <2>2, <3>1, Constants
  <2>4. Enough(g)
    BY <1>3, <2>3 DEF Filled, Enough
  <2>5. Tree(d.page, d.root, d.free, lev, {}, {})
    BY <1>1, <1>3, <2>4, NotLean
  <2>6. Continue(d) = [d EXCEPT !.n = 0]
    BY <1>3 DEF Continue
  <2> QED BY <2>5, <2>6, EndOfDelete
<1>4. CASE d.n # d.root /\ ~Filled(d.page, d.n)
  <2>1. Continue(d) = Refill(d)
    BY <1>4 DEF Continue
  <2> QED BY <1>1, <1>4, <2>1, RefillHolds
<1> QED BY <1>2, <1>3, <1>4

-----------------------------------------------------------------------------
(* Deletion.                                                               *)

LEMMA DueStep ==
  ASSUME NEW c, NEW i \in Nat, Due(c, i)
  PROVE  Due(DeleteStep(c), i + 1)
<1> DEFINE e == RemoveEntry(c)
<1>1. CASE Hurt(c)
  <2>1. Hurt(Continue(e))
    BY <1>1, HurtRemoved, HurtContinued
  <2> HIDE DEF e
  <2>2. Hurt(DeleteStep(c))
    BY <1>1, <2>1, DeleteEntryIs DEF DeleteStep, e
  <2> QED BY <2>2 DEF Due
<1>2. CASE ~Hurt(c) /\ c.n = 0
  BY <1>2 DEF Due, DeleteStep
<1>3. CASE ~Hurt(c) /\ c.n # 0
  <2>1. DeleteStep(c) = Continue(e)
    BY <1>3, DeleteEntryIs DEF DeleteStep
  <2>2. Hurt(e) \/ Leans(e, i)
    BY <1>3 DEF Due
  <2> HIDE DEF e
  <2>3. CASE Hurt(e)
    <3>1. Hurt(Continue(e))
      BY <2>3, HurtContinued
    <3> QED BY <2>1, <3>1 DEF Due
  <2>4. CASE Leans(e, i)
    BY <2>1, <2>4, ContinueHolds
  <2> QED BY <2>2, <2>3, <2>4
<1> QED BY <1>1, <1>2, <1>3

\* There are fewer levels than pages, so the climb ends.
LEMMA DeleteUpHolds ==
  ASSUME NEW c, Due(c, 0)
  PROVE  LET e == DeleteUp(c)
         IN Hurt(e) \/ (IsDelete(e) /\ e.damaged = FALSE /\ Whole(e.page, e.root, e.free))
<1> DEFINE N == P_NUMBER - 1
           e == DeleteUp(c)
<1>1. N \in Nat
  BY PageNumbers
<1>2. PICK w : /\ w[0] = c /\ \A i \in 1 .. N : w[i] = DeleteStep(w[i - 1])
               /\ e = w[N]
  BY DeleteUpSteps
<1> HIDE DEF e, N
<1> DEFINE Good == {i \in Nat : i <= N => Due(w[i], i)}
<1>3. 0 \in Good
  BY <1>2
<1>4. ASSUME NEW i \in Nat, i \in Good PROVE i + 1 \in Good
  <2> SUFFICES ASSUME i + 1 <= N PROVE Due(w[i + 1], i + 1)
    OBVIOUS
  <2>1. i <= N /\ i + 1 \in 1 .. N /\ (i + 1) - 1 = i
    BY <1>1
  <2>2. w[i + 1] = DeleteStep(w[i])
    BY <1>2, <2>1
  <2>3. Due(w[i], i)
    BY <1>4, <2>1
  <2> QED BY <2>2, <2>3, DueStep
<1> HIDE DEF Good
<1>5. N \in Good
  BY <1>1, <1>3, <1>4, Counting
<1>6. Due(e, N)
  BY <1>1, <1>2, <1>5 DEF Good
<1>7. ~(N + 1 <= N)
  BY <1>1
<1> QED BY <1>6, <1>7 DEF Due, e, N

LEMMA FreePageOK == FreePage \in Page
BY DEF FreePage, Page

\* What freed pages are left with makes no difference.
LEMMA WholeForgotten ==
  ASSUME NEW p, NEW r, NEW fr, Whole(p, r, fr)
  PROVE  Whole([n \in PageNumber |-> IF n \in Range(fr) THEN FreePage ELSE p[n]], r, fr)
<1> DEFINE q == [n \in PageNumber |-> IF n \in Range(fr) THEN FreePage ELSE p[n]]
<1>1. CASE r = 0
  <2>1. Bare(p, fr)
    BY <1>1 DEF Whole
  <2>2. q \in [PageNumber -> Page]
    BY <2>1, FreePageOK DEF Bare
  <2> HIDE DEF q
  <2>3. Bare(q, fr)
    BY <2>1, <2>2 DEF Bare
  <2> QED BY <1>1, <2>3 DEF Whole, q
<1>2. CASE r # 0
  <2>1. PICK lev : Tree(p, r, fr, lev, {}, {})
    BY <1>2 DEF Whole
  <2>2. q \in [PageNumber -> Page]
    BY <2>1, FreePageOK DEF Tree
  <2>3. \A m \in Used(fr) : q[m] = p[m] /\ FullAt(p, r, lev, {}, m)
    BY <2>1 DEF Used, Tree, Stocked
  <2> HIDE DEF q
  <2>4. Same(p, q, r, fr, lev, {})
    BY <2>2, <2>3 DEF Same, FullAt
  <2>5. Tree(q, r, fr, lev, {}, {})
    BY <2>1, <2>4, TreeSame
  <2> QED BY <2>5, TreeIsWhole DEF q
<1> QED BY <1>1, <1>2

LEMMA DeleteHolds ==
  ASSUME Whole(page, root, free), NEW k \in Key, DeleteRecord(k)
  PROVE  damaged' \in BOOLEAN /\ (damaged' \/ Whole(page, root, free)')
<1> DEFINE c == DeleteUp(Deleting(k))
<1>1. Found(k) /\ root # 0
  BY DEF DeleteRecord, Found
<1>2. PICK lev : Grown(lev)
  BY <1>1 DEF Whole, Grown
<1>3. Due(Deleting(k), 0)
  BY <1>1, <1>2, StartHolds
<1>4. Hurt(c) \/ (IsDelete(c) /\ c.damaged = FALSE /\ Whole(c.page, c.root, c.free))
  BY <1>3, DeleteUpHolds
<1>5. /\ page' = IF c.damaged THEN c.page
                 ELSE [n \in PageNumber |-> IF n \in Range(c.free) THEN FreePage ELSE c.page[n]]
      /\ root' = c.root /\ free' = c.free /\ damaged' = c.damaged
  BY DEF DeleteRecord
<1> HIDE DEF c
<1>6. CASE Hurt(c)
  BY <1>5, <1>6 DEF Hurt
<1>7. CASE IsDelete(c) /\ c.damaged = FALSE /\ Whole(c.page, c.root, c.free)
  <2> DEFINE q == [n \in PageNumber |-> IF n \in Range(c.free) THEN FreePage ELSE c.page[n]]
  <2>1. Whole(q, c.root, c.free)
    BY <1>7, WholeForgotten
  <2>2. page' = q
    BY <1>5, <1>7
  <2> HIDE DEF q
  <2>3. Whole(page', root', free')
    BY <1>5, <2>1, <2>2
  <2> QED BY <1>5, <1>7, <2>3
<1> QED BY <1>4, <1>6, <1>7

-----------------------------------------------------------------------------
(* The inductive invariant.                                                *)

\* Until the tree is damaged, there are levels that make one tree of the pages in use:
\* the children of a page are those that name it as their parent, one level below it,
\* leaves are the pages of level 0, and every page is full enough.
TreeInv == damaged \in BOOLEAN /\ (damaged \/ Whole(page, root, free))

\* The free list of a new file holds every page once.
LEMMA InitIsBare ==
  ASSUME Init
  PROVE  Bare(page, free) /\ root = 0
<1> DEFINE N == P_NUMBER - 1
           f == [i \in 1 .. N |-> P_NUMBER - i]
<1>1. N \in Nat /\ P_NUMBER \in Nat /\ P_NUMBER = N + 1 /\ PageNumber = 1 .. N
  BY PageNumbers DEF PageNumber
<1>2. free = f /\ root = 0 /\ page = [n \in PageNumber |-> FreePage]
  BY <1>1 DEF Init
<1> HIDE DEF N
<1>3. \A i \in 1 .. N : P_NUMBER - i \in 1 .. N
  BY <1>1
<1>4. \A i, j \in 1 .. N : P_NUMBER - i = P_NUMBER - j => i = j
  BY <1>1
<1>5. f \in Seq(PageNumber) /\ DOMAIN f = 1 .. N /\ \A i \in 1 .. N : f[i] = P_NUMBER - i
  BY <1>1, <1>3
<1>6. IsInjective(f)
  <2> HIDE DEF f
  <2> QED BY <1>4, <1>5 DEF IsInjective
<1>7. \A n \in PageNumber : n \in Range(f)
  <2> SUFFICES ASSUME NEW n \in PageNumber PROVE n \in Range(f)
    OBVIOUS
  <2>1. P_NUMBER - n \in 1 .. N /\ P_NUMBER - (P_NUMBER - n) = n
    BY <1>1
  <2>2. f[P_NUMBER - n] = n
    BY <1>5, <2>1
  <2> HIDE DEF f
  <2> QED BY <1>5, <2>1, <2>2 DEF Range
<1>8. page \in [PageNumber -> Page]
  BY <1>2, FreePageOK
<1> HIDE DEF f
<1> QED BY <1>2, <1>5, <1>6, <1>7, <1>8 DEF Bare, Used

\* Every call keeps the invariant, whichever pages it splits, merges or frees.
THEOREM TreeInvariant == DeletionSpec => []TreeInv
<1>1. DeletionInit => TreeInv
  BY InitIsBare DEF DeletionInit, TreeInv, Whole
<1>2. TreeInv /\ [DeletionNext]_deletionVars => TreeInv'
  <2> SUFFICES ASSUME TreeInv, [DeletionNext]_deletionVars PROVE TreeInv'
    OBVIOUS
  <2>1. CASE UNCHANGED deletionVars
    BY <2>1 DEF deletionVars, TreeInv, Whole, Bare
  <2>2. ASSUME NEW k \in Key, InsertOrDelete(k) PROVE TreeInv'
    <3>1. damaged = FALSE /\ Whole(page, root, free)
      BY <2>2 DEF TreeInv, InsertOrDelete
    <3>2. CASE Insert(k) /\ UNCHANGED damaged
      <4>1. Whole(page, root, free)'
        BY <3>1, <3>2, InsertHolds
      <4> QED BY <3>1, <3>2, <4>1 DEF TreeInv
    <3>3. CASE DeleteAbsent(k)
      BY <3>1, <3>3 DEF DeleteAbsent, deletionVars, TreeInv
    <3>4. CASE DeleteRecord(k)
      BY <3>1, <3>4, DeleteHolds DEF TreeInv
    <3> QED BY <2>2, <3>2, <3>3, <3>4 DEF InsertOrDelete
  <2> QED BY <2>1, <2>2 DEF DeletionNext
<1> QED BY <1>1, <1>2, PTL DEF DeletionSpec

LEMMA TreeInvShape == TreeInv => ShapeKept
<1> SUFFICES ASSUME TreeInv, ~damaged PROVE TreeShape /\ IsInjective(free)
  BY DEF ShapeKept
<1>1. Whole(page, root, free)
  BY DEF TreeInv
<1>2. CASE root = 0
  BY <1>1, <1>2, UsedIsInUse DEF Whole, Bare, TreeShape
<1>3. CASE root # 0
  BY <1>1, <1>3, TreeIsShaped DEF Whole, Grown
<1> QED BY <1>2, <1>3

LEMMA TreeInvFill == TreeInv => FillKept
<1> SUFFICES ASSUME TreeInv, ~damaged PROVE FillKept
  BY DEF FillKept
<1>1. Whole(page, root, free)
  BY DEF TreeInv
<1>2. CASE root = 0
  <2>1. InUse = {}
    BY <1>1, <1>2, UsedIsInUse DEF Whole, Bare
  <2> QED BY <2>1 DEF FillKept, SpaceAgrees
<1>3. CASE root # 0
  BY <1>1, <1>3, TreeIsFull DEF Whole, Grown
<1> QED BY <1>2, <1>3

\* Until a deletion damages it, the index is one balanced tree with right parent words,
\* and every page is in it or on the free list, however many pages there are.
THEOREM ShapeKeptHolds == DeletionSpec => []ShapeKept
BY TreeInvariant, TreeInvShape, PTL

\* Until a deletion damages the tree, the free space of every leaf is what its records
\* leave, and no page but the root is too empty.
THEOREM FillKeptHolds == DeletionSpec => []FillKept
BY TreeInvariant, TreeInvFill, PTL
=============================================================================
