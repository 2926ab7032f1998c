------------------------- MODULE BPlusTreeOrderProofs -------------------------
(***************************************************************************)
(* The order of the keys in the B+ tree of BPlusTreeDeletion.              *)
(*                                                                         *)
(* The invariant, InOrder, gives every page of the tree an interval, from  *)
(* lo[n] on and below hi[n], where hi[n] = 0 stands for no bound.  The     *)
(* keys of a page are in its interval, and its separators cut the interval *)
(* into those of its children; the right sibling of a leaf is the one      *)
(* whose interval begins where its own ends.                               *)
(***************************************************************************)
EXTENDS BPlusTreeProofs

-----------------------------------------------------------------------------
(* Places in a sequence.                                                   *)

\* The sequence r is q with e put in at the place i.
PutAt(q, i, e, r) ==
  /\ Len(r) = Len(q) + 1 /\ r[i] = e
  /\ \A j \in 1 .. i - 1 : r[j] = q[j]
  /\ \A j \in i .. Len(q) : r[j + 1] = q[j]

LEMMA PutPlaces ==
  ASSUME NEW T, NEW q \in Seq(T), NEW i \in 1 .. Len(q) + 1, NEW e \in T
  PROVE  PutAt(q, i, e, InsertAt(q, i, e))
<1> DEFINE a == SubSeq(q, 1, i - 1)
           b == SubSeq(q, i, Len(q))
           r == (a \o <<e>>) \o b
<1>1. Joins(T, a, b, q) /\ Len(a) = i - 1 /\ Len(b) = Len(q) - (i - 1)
  BY CutInTwo
<1>0. a \in Seq(T) /\ b \in Seq(T) /\ <<e>> \in Seq(T) /\ Len(<<e>>) = 1 /\ <<e>>[1] = e
  BY <1>1, Single DEF Joins
<1>2. Joins(T, a, <<e>>, a \o <<e>>) /\ a \o <<e>> \in Seq(T)
  <2> HIDE DEF a
  <2>1. Joins(T, a, <<e>>, a \o <<e>>)
    BY <1>0, Joined
  <2> QED BY <2>1 DEF Joins
<1>3. Joins(T, a \o <<e>>, b, r)
  <2> HIDE DEF a, b
  <2> QED BY <1>0, <1>2, Joined
<1>4. InsertAt(q, i, e) = r
  BY DEF InsertAt
<1> HIDE DEF a, b, r
<1>5. Len(q) \in Nat /\ i \in Nat /\ i >= 1 /\ i <= Len(q) + 1
  OBVIOUS
<1>6. Len(a \o <<e>>) = i /\ Len(r) = Len(q) + 1
  BY <1>0, <1>1, <1>2, <1>3, <1>5 DEF Joins
<1>7. r[i] = e
  <2>1. r[i] = (a \o <<e>>)[i]
    BY <1>3, <1>5, <1>6 DEF Joins
  <2>2. (a \o <<e>>)[Len(a) + 1] = <<e>>[1]
    BY <1>0, <1>2 DEF Joins
  <2> QED BY <1>0, <1>1, <1>2, <1>5, <2>1, <2>2
<1>8. ASSUME NEW j \in 1 .. i - 1 PROVE r[j] = q[j]
  <2>1. r[j] = (a \o <<e>>)[j]
    BY <1>3, <1>5, <1>6, <1>8 DEF Joins
  <2>2. (a \o <<e>>)[j] = a[j]
    BY <1>1, <1>2, <1>5, <1>8 DEF Joins
  <2>3. q[j] = a[j]
    BY <1>1, <1>5, <1>8 DEF Joins
  <2> QED BY <2>1, <2>2, <2>3
<1>9. ASSUME NEW j \in i .. Len(q) PROVE r[j + 1] = q[j]
  <2> DEFINE m == j - (i - 1)
  <2>1. m \in 1 .. Len(b) /\ j + 1 = i + m /\ j = (i - 1) + m
    BY <1>1, <1>5, <1>9
  <2>2. r[i + m] = b[m] /\ q[(i - 1) + m] = b[m]
    BY <1>1, <1>3, <1>6, <2>1 DEF Joins
  <2> QED BY <2>1, <2>2
<1> QED BY <1>4, <1>6, <1>7, <1>8, <1>9 DEF PutAt

\* The sequence r is q without the element at the place i.
TakenAt(q, i, r) ==
  /\ Len(r) = Len(q) - 1
  /\ \A j \in 1 .. i - 1 : r[j] = q[j]
  /\ \A j \in i .. Len(q) - 1 : r[j] = q[j + 1]

LEMMA TakenPlaces ==
  ASSUME NEW T, NEW q \in Seq(T), NEW i \in 1 .. Len(q)
  PROVE  RemoveAt(q, i) \in Seq(T) /\ TakenAt(q, i, RemoveAt(q, i))
<1>1. RemoveAt(q, i) = SubSeq(q, 1, i - 1) \o SubSeq(q, i + 1, Len(q))
  BY DEF RemoveAt
<1> DEFINE a == SubSeq(q, 1, i - 1)
           b == SubSeq(q, i + 1, Len(q))
<1>2. a \in Seq(T) /\ Len(a) = i - 1 /\ \A j \in 1 .. i - 1 : a[j] = q[j]
  OBVIOUS
<1>3. b \in Seq(T) /\ Len(b) = Len(q) - i /\ \A j \in 1 .. Len(q) - i : b[j] = q[i + j]
  OBVIOUS
<1> HIDE DEF a, b
<1>4. Joins(T, a, b, a \o b)
  BY <1>2, <1>3, Joined
<1>5. Len(a \o b) = Len(q) - 1 /\ a \o b \in Seq(T)
  BY <1>2, <1>3, <1>4 DEF Joins
<1>6. \A j \in 1 .. i - 1 : (a \o b)[j] = q[j]
  BY <1>2, <1>4 DEF Joins
<1>7. ASSUME NEW j \in i .. Len(q) - 1 PROVE (a \o b)[j] = q[j + 1]
  <2> DEFINE m == j - (i - 1)
  <2>1. m \in 1 .. Len(q) - i /\ j = Len(a) + m /\ j + 1 = i + m
    <3>1. Len(q) \in Nat /\ i \in Nat /\ Len(a) = i - 1 /\ j \in Int /\ i <= j /\ j <= Len(q) - 1
      BY <1>2, <1>7
    <3> QED BY <3>1
  <2>2. (a \o b)[Len(a) + m] = b[m] /\ b[m] = q[i + m]
    BY <1>3, <1>4, <2>1 DEF Joins
  <2> QED BY <2>1, <2>2
<1> QED BY <1>1, <1>5, <1>6, <1>7 DEF TakenAt, a, b

\* The sequence r is q from the place i to the place j.
LEMMA CutPlaces ==
  ASSUME NEW T, NEW q \in Seq(T), NEW i \in 1 .. Len(q) + 1, NEW j \in i - 1 .. Len(q)
  PROVE  /\ SubSeq(q, i, j) \in Seq(T) /\ Len(SubSeq(q, i, j)) = j - (i - 1)
         /\ \A m \in 1 .. j - (i - 1) : SubSeq(q, i, j)[m] = q[(i - 1) + m]
  OBVIOUS

-----------------------------------------------------------------------------
(* Keys in order.                                                          *)

Sorted(q) == \A i, j \in 1 .. Len(q) : i < j => q[i] < q[j]

\* No key is h or above; 0 is no bound.
Below(k, h) == h = 0 \/ k < h

\* The keys of q ascend from l on and below h.
Ascends(q, l, h) == Sorted(q) /\ \A i \in 1 .. Len(q) : l <= q[i] /\ Below(q[i], h)

LEMMA KeysAreNat ==
  ASSUME NEW q \in Seq(Key)
  PROVE  Len(q) \in Nat /\ \A i \in 1 .. Len(q) : q[i] \in Nat /\ q[i] \in Key
<1>1. Key \subseteq Nat
  BY BPlusTreeAssumption
<1>2. Len(q) \in Nat /\ \A i \in 1 .. Len(q) : q[i] \in Key
  OBVIOUS
<1> QED BY <1>1, <1>2

LEMMA KeyIsNat ==
  ASSUME NEW k \in Key
  PROVE  k \in Nat
<1>1. Key \subseteq Nat
  BY BPlusTreeAssumption
<1> QED BY <1>1

LEMMA SortedIsInjective ==
  ASSUME NEW q \in Seq(Key), Sorted(q)
  PROVE  IsInjective(q) /\ \A i, j \in 1 .. Len(q) : q[i] = q[j] => i = j
<1>1. Len(q) \in Nat /\ \A i \in 1 .. Len(q) : q[i] \in Nat
  BY KeysAreNat
<1>2. ASSUME NEW i \in 1 .. Len(q), NEW j \in 1 .. Len(q), q[i] = q[j] PROVE i = j
  <2>1. ~(i < j) /\ ~(j < i)
    BY <1>1, <1>2 DEF Sorted
  <2> QED BY <1>1, <2>1
<1> QED BY <1>2, Injective

LEMMA AscendsPut ==
  ASSUME NEW q \in Seq(Key), NEW l \in Nat, NEW h \in Nat, Ascends(q, l, h),
         NEW i \in 1 .. Len(q) + 1, NEW k \in Key, l <= k, Below(k, h),
         i > 1 => q[i - 1] < k, i <= Len(q) => k < q[i],
         NEW r, PutAt(q, i, k, r)
  PROVE  Ascends(r, l, h)
<1>1. Len(q) \in Nat /\ \A j \in 1 .. Len(q) : q[j] \in Nat
  BY KeysAreNat
<1>2. k \in Nat
  BY BPlusTreeAssumption
<1>3. Len(r) = Len(q) + 1 /\ r[i] = k
  BY DEF PutAt
<1>4. \A j \in 1 .. i - 1 : r[j] = q[j] /\ q[j] < k
  <2> SUFFICES ASSUME NEW j \in 1 .. i - 1 PROVE r[j] = q[j] /\ q[j] < k
    OBVIOUS
  <2>1. i - 1 \in 1 .. Len(q) /\ j \in 1 .. Len(q) /\ j <= i - 1
    BY <1>1
  <2>2. q[j] <= q[i - 1]
    BY <1>1, <2>1 DEF Ascends, Sorted
  <2> QED BY <1>1, <1>2, <2>1, <2>2 DEF PutAt
<1>5. \A j \in i + 1 .. Len(q) + 1 : j - 1 \in 1 .. Len(q) /\ r[j] = q[j - 1] /\ k < q[j - 1]
  <2> SUFFICES ASSUME NEW j \in i + 1 .. Len(q) + 1
               PROVE  j - 1 \in 1 .. Len(q) /\ r[j] = q[j - 1] /\ k < q[j - 1]
    OBVIOUS
  <2>1. i \in 1 .. Len(q) /\ j - 1 \in i .. Len(q) /\ j - 1 \in 1 .. Len(q) /\ (j - 1) + 1 = j
    BY <1>1
  <2>2. q[i] <= q[j - 1]
    BY <1>1, <2>1 DEF Ascends, Sorted
  <2>3. r[(j - 1) + 1] = q[j - 1]
    BY <2>1 DEF PutAt
  <2> QED BY <1>1, <1>2, <2>1, <2>2, <2>3
<1>6. ASSUME NEW a \in 1 .. Len(r), NEW b \in 1 .. Len(r), a < b PROVE r[a] < r[b]
  <2>1. CASE b < i
    BY <1>1, <1>3, <1>4, <1>6, <2>1, SMTT(30) DEF Ascends, Sorted
  <2>2. CASE b = i
    BY <1>1, <1>3, <1>4, <1>6, <2>2
  <2>3. CASE b > i /\ a < i
    <3>1. r[a] < k /\ r[a] \in Nat
      BY <1>1, <1>4, <2>3, SMTT(30)
    <3>2. k < r[b] /\ r[b] \in Nat
      BY <1>1, <1>3, <1>5, <2>3
    <3> QED BY <1>2, <3>1, <3>2, SMTT(30)
  <2>4. CASE b > i /\ a = i
    BY <1>1, <1>3, <1>5, <2>4
  <2>5. CASE b > i /\ a > i
    <3>1. r[a] = q[a - 1] /\ r[b] = q[b - 1] /\ a - 1 \in 1 .. Len(q) /\ b - 1 \in 1 .. Len(q)
      BY <1>1, <1>3, <1>5, <2>5
    <3> QED BY <1>1, <1>6, <3>1, SMTT(30) DEF Ascends, Sorted
  <2> QED BY <1>1, <1>3, <2>1, <2>2, <2>3, <2>4, <2>5
<1>7. ASSUME NEW j \in 1 .. Len(r) PROVE l <= r[j] /\ Below(r[j], h)
  <2>1. CASE j < i
    BY <1>1, <1>3, <1>4, <2>1 DEF Ascends
  <2>2. CASE j = i
    BY <1>3, <2>2
  <2>3. CASE j > i
    BY <1>1, <1>3, <1>5, <2>3 DEF Ascends
  <2> QED BY <1>1, <1>3, <2>1, <2>2, <2>3
<1> QED BY <1>6, <1>7 DEF Ascends, Sorted

LEMMA AscendsTaken ==
  ASSUME NEW q \in Seq(Key), NEW l, NEW h, Ascends(q, l, h),
         NEW i \in 1 .. Len(q), NEW r, TakenAt(q, i, r)
  PROVE  Ascends(r, l, h)
<1>1. Len(q) \in Nat /\ Len(r) = Len(q) - 1
  BY KeysAreNat DEF TakenAt
<1> DEFINE at(j) == IF j < i THEN j ELSE j + 1
<1>2. \A j \in 1 .. Len(r) : at(j) \in 1 .. Len(q) /\ r[j] = q[at(j)]
  BY <1>1 DEF TakenAt
<1>3. \A a, b \in 1 .. Len(r) : a < b => at(a) < at(b)
  BY <1>1
<1> HIDE DEF at
<1> QED BY <1>2, <1>3 DEF Ascends, Sorted

\* Keys are cut in two at a place.
LEMMA AscendsCut ==
  ASSUME NEW q \in Seq(Key), NEW l, NEW h, Ascends(q, l, h), NEW i \in 1 .. Len(q)
  PROVE  /\ Ascends(SubSeq(q, 1, i - 1), l, q[i])
         /\ Ascends(SubSeq(q, i, Len(q)), q[i], h)
         /\ Ascends(SubSeq(q, i + 1, Len(q)), q[i] + 1, h)
<1>1. Len(q) \in Nat /\ \A j \in 1 .. Len(q) : q[j] \in Nat
  BY KeysAreNat
<1> DEFINE a == SubSeq(q, 1, i - 1)
           b == SubSeq(q, i, Len(q))
           c == SubSeq(q, i + 1, Len(q))
<1>2. Len(a) = i - 1 /\ \A m \in 1 .. i - 1 : a[m] = q[m]
  OBVIOUS
<1>3. Len(b) = Len(q) - (i - 1) /\ \A m \in 1 .. Len(q) - (i - 1) : b[m] = q[(i - 1) + m]
  OBVIOUS
<1>4. Len(c) = Len(q) - i /\ \A m \in 1 .. Len(q) - i : c[m] = q[i + m]
  OBVIOUS
<1> HIDE DEF a, b, c
<1>5. Ascends(a, l, q[i])
  BY <1>1, <1>2 DEF Ascends, Sorted, Below
<1>6. Ascends(b, q[i], h)
  <2>1. \A m \in 1 .. Len(b) : (i - 1) + m \in 1 .. Len(q) /\ (m > 1 => i < (i - 1) + m)
                               /\ (m = 1 => (i - 1) + m = i)
    BY <1>1, <1>3
  <2>2. \A m \in 1 .. Len(b) : q[i] <= b[m]
    BY <1>1, <1>3, <2>1 DEF Ascends, Sorted
  <2>3. Sorted(b)
    BY <1>1, <1>3, <2>1 DEF Ascends, Sorted
  <2> QED BY <1>3, <2>1, <2>2, <2>3 DEF Ascends
<1>7. Ascends(c, q[i] + 1, h)
  <2>1. \A m \in 1 .. Len(c) : i + m \in 1 .. Len(q) /\ i < i + m
    BY <1>1, <1>4
  <2>2. \A m \in 1 .. Len(c) : q[i] + 1 <= c[m]
    BY <1>1, <1>4, <2>1 DEF Ascends, Sorted
  <2>3. Sorted(c)
    <3> SUFFICES ASSUME NEW m \in 1 .. Len(c), NEW n \in 1 .. Len(c), m < n PROVE c[m] < c[n]
      BY DEF Sorted
    <3>1. c[m] = q[i + m] /\ c[n] = q[i + n] /\ i + m < i + n
      BY <1>4
    <3> QED BY <2>1, <3>1 DEF Ascends, Sorted
  <2> QED BY <1>4, <2>1, <2>2, <2>3 DEF Ascends
<1> QED BY <1>5, <1>6, <1>7 DEF a, b, c

\* Keys below s and keys from s on are put together.
LEMMA AscendsJoined ==
  ASSUME NEW a \in Seq(Key), NEW b \in Seq(Key), NEW l \in Nat, NEW s \in Nat \ {0}, NEW h \in Nat,
         Ascends(a, l, s), Ascends(b, s, h), l <= s, h = 0 \/ s <= h
  PROVE  Ascends(a \o b, l, h)
<1> DEFINE q == a \o b
<1>1. /\ Len(a) \in Nat /\ \A j \in 1 .. Len(a) : a[j] \in Nat
      /\ Len(b) \in Nat /\ \A j \in 1 .. Len(b) : b[j] \in Nat
  BY KeysAreNat
<1>2. Joins(Key, a, b, q)
  BY Joined
<1> HIDE DEF q
<1>3. Len(q) = Len(a) + Len(b) /\ \A j \in 1 .. Len(a) : q[j] = a[j]
  BY <1>2 DEF Joins
<1>4. \A j \in 1 .. Len(q) : j > Len(a) => j - Len(a) \in 1 .. Len(b) /\ q[j] = b[j - Len(a)]
  <2> SUFFICES ASSUME NEW j \in 1 .. Len(q), j > Len(a)
               PROVE  j - Len(a) \in 1 .. Len(b) /\ q[j] = b[j - Len(a)]
    OBVIOUS
  <2>1. j - Len(a) \in 1 .. Len(b) /\ Len(a) + (j - Len(a)) = j
    BY <1>1, <1>3
  <2> QED BY <1>2, <2>1 DEF Joins
<1>5. \A j \in 1 .. Len(a) : l <= a[j] /\ a[j] < s
  BY DEF Ascends, Below
<1>6. \A j \in 1 .. Len(b) : s <= b[j] /\ Below(b[j], h)
  BY DEF Ascends
<1>7. ASSUME NEW i \in 1 .. Len(q), NEW j \in 1 .. Len(q), i < j PROVE q[i] < q[j]
  <2>1. CASE j <= Len(a)
    BY <1>1, <1>3, <1>7, <2>1 DEF Ascends, Sorted
  <2>2. CASE j > Len(a) /\ i <= Len(a)
    <3>1. q[i] = a[i] /\ a[i] < s /\ a[i] \in Nat
      BY <1>1, <1>3, <1>5, <2>2
    <3>2. q[j] \in Nat /\ s <= q[j]
      BY <1>1, <1>4, <1>6, <2>2
    <3> QED BY <3>1, <3>2
  <2>3. CASE i > Len(a)
    <3>1. /\ q[i] = b[i - Len(a)] /\ i - Len(a) \in 1 .. Len(b)
          /\ q[j] = b[j - Len(a)] /\ j - Len(a) \in 1 .. Len(b) /\ i - Len(a) < j - Len(a)
      BY <1>1, <1>4, <1>7, <2>3
    <3> QED BY <3>1 DEF Ascends, Sorted
  <2> QED BY <1>1, <2>1, <2>2, <2>3
<1>8. ASSUME NEW j \in 1 .. Len(q) PROVE l <= q[j] /\ Below(q[j], h)
  <2>1. CASE j <= Len(a)
    <3>1. q[j] = a[j] /\ l <= a[j] /\ a[j] < s /\ a[j] \in Nat
      BY <1>1, <1>3, <1>5, <2>1
    <3> QED BY <3>1 DEF Below
  <2>2. CASE j > Len(a)
    <3>1. q[j] \in Nat /\ s <= q[j] /\ Below(q[j], h)
      BY <1>1, <1>4, <1>6, <2>2
    <3> QED BY <3>1
  <2> QED BY <1>1, <2>1, <2>2
<1> QED BY <1>7, <1>8 DEF Ascends, Sorted, q

-----------------------------------------------------------------------------
(* The intervals of children.                                              *)

\* The bounds of the i'th child of a page with the separators s and the interval from l
\* on and below h.
Low(s, l, i) == IF i = 1 THEN l ELSE s[i - 1]

High(s, h, i) == IF i > Len(s) THEN h ELSE s[i]

\* The separators s cut the interval into those of the children c.
Parts(s, c, l, h, lo, hi) ==
  \A i \in 1 .. Len(c) : lo[c[i]] = Low(s, l, i) /\ hi[c[i]] = High(s, h, i)

\* The child x at the place i is cut at k; y is what is from k on.
CutsChild(c, i, k, y, lo, hi, low, high) ==
  /\ \A j \in 1 .. Len(c) : low[c[j]] = lo[c[j]] /\ (j # i => high[c[j]] = hi[c[j]])
  /\ high[c[i]] = k /\ low[y] = k /\ high[y] = hi[c[i]]

LEMMA PartsPut ==
  ASSUME NEW S, NEW s \in Seq(S), NEW C, NEW c \in Seq(C), Len(c) = Len(s) + 1, NEW l, NEW h,
         NEW lo, NEW hi, Parts(s, c, l, h, lo, hi), NEW i \in 1 .. Len(c), NEW k, NEW y,
         NEW t, PutAt(s, i, k, t), NEW d, PutAt(c, i + 1, y, d),
         NEW low, NEW high, CutsChild(c, i, k, y, lo, hi, low, high)
  PROVE  Parts(t, d, l, h, low, high)
<1>1. Len(s) \in Nat /\ Len(t) = Len(s) + 1 /\ Len(d) = Len(s) + 2
  BY DEF PutAt
<1> SUFFICES ASSUME NEW j \in 1 .. Len(d)
             PROVE  low[d[j]] = Low(t, l, j) /\ high[d[j]] = High(t, h, j)
  BY DEF Parts
<1>2. CASE j < i
  <2>1. d[j] = c[j] /\ j \in 1 .. Len(c) /\ t[j] = s[j] /\ (j # 1 => t[j - 1] = s[j - 1])
    BY <1>1, <1>2 DEF PutAt
  <2>2. lo[c[j]] = Low(s, l, j) /\ hi[c[j]] = High(s, h, j)
    BY <2>1 DEF Parts
  <2>3. Low(s, l, j) = Low(t, l, j) /\ High(s, h, j) = High(t, h, j)
    BY <1>1, <1>2, <2>1 DEF Low, High
  <2>4. low[c[j]] = lo[c[j]] /\ high[c[j]] = hi[c[j]]
    BY <1>2, <2>1 DEF CutsChild
  <2> QED BY <2>1, <2>2, <2>3, <2>4
<1>3. CASE j = i
  <2>1. d[j] = c[i] /\ t[j] = k /\ (j # 1 => t[j - 1] = s[j - 1])
    <3>1. i \in 1 .. (i + 1) - 1 /\ (i # 1 => i - 1 \in 1 .. i - 1)
      BY <1>1
    <3> QED BY <1>3, <3>1 DEF PutAt
  <2>2. lo[c[i]] = Low(s, l, i)
    BY DEF Parts
  <2>3. Low(s, l, j) = Low(t, l, j) /\ High(t, h, j) = k
    BY <1>1, <1>3, <2>1 DEF Low, High
  <2> QED BY <1>3, <2>1, <2>2, <2>3 DEF CutsChild
<1>4. CASE j = i + 1
  <2>1. d[j] = y /\ t[j - 1] = k
    BY <1>1, <1>4 DEF PutAt
  <2>2. hi[c[i]] = High(s, h, i)
    BY DEF Parts
  <2>3. High(t, h, j) = High(s, h, i)
    <3>1. i <= Len(s) => t[i + 1] = s[i]
      BY <1>1 DEF PutAt
    <3> QED BY <1>1, <1>4, <3>1 DEF High
  <2>4. Low(t, l, j) = k
    BY <1>1, <1>4, <2>1 DEF Low
  <2> QED BY <2>1, <2>2, <2>3, <2>4 DEF CutsChild
<1>5. CASE j > i + 1
  <2> DEFINE m == j - 1
  <2>1. m \in 1 .. Len(c) /\ m > i /\ j = m + 1 /\ m - 1 \in i .. Len(s) /\ m # 1 /\ m # i
    BY <1>1, <1>5
  <2>2. d[m + 1] = c[m]
    BY <1>1, <2>1 DEF PutAt
  <2>3. lo[c[m]] = Low(s, l, m) /\ hi[c[m]] = High(s, h, m)
    BY <2>1 DEF Parts
  <2>4. Low(t, l, m + 1) = Low(s, l, m)
    <3>1. t[(m - 1) + 1] = s[m - 1] /\ (m - 1) + 1 = m /\ (m + 1) - 1 = m /\ m + 1 # 1
      BY <1>1, <2>1, SMTT(30) DEF PutAt
    <3> QED BY <2>1, <3>1 DEF Low
  <2>5. High(t, h, m + 1) = High(s, h, m)
    <3>1. m <= Len(s) => t[m + 1] = s[m]
      BY <1>1, <2>1 DEF PutAt
    <3> QED BY <1>1, <2>1, <3>1 DEF High
  <2>6. low[c[m]] = lo[c[m]] /\ high[c[m]] = hi[c[m]]
    BY <2>1 DEF CutsChild
  <2> HIDE DEF m
  <2> QED BY <2>1, <2>2, <2>3, <2>4, <2>5, <2>6
<1> QED BY <1>1, <1>2, <1>3, <1>4, <1>5

\* The child at the place i takes the interval of the next one, which is gone.
JoinsChild(c, i, lo, hi, low, high) ==
  /\ \A j \in 1 .. Len(c) : j # i + 1 => /\ low[c[j]] = lo[c[j]]
                                         /\ j # i => high[c[j]] = hi[c[j]]
  /\ high[c[i]] = hi[c[i + 1]]

LEMMA PartsTaken ==
  ASSUME NEW S, NEW s \in Seq(S), NEW C, NEW c \in Seq(C), Len(c) = Len(s) + 1, NEW l, NEW h,
         NEW lo, NEW hi, Parts(s, c, l, h, lo, hi), NEW i \in 1 .. Len(s),
         NEW t, TakenAt(s, i, t), NEW d, TakenAt(c, i + 1, d),
         NEW low, NEW high, JoinsChild(c, i, lo, hi, low, high)
  PROVE  Parts(t, d, l, h, low, high)
<1>1. Len(s) \in Nat /\ Len(t) = Len(s) - 1 /\ Len(d) = Len(s)
  BY DEF TakenAt
<1> SUFFICES ASSUME NEW j \in 1 .. Len(d)
             PROVE  low[d[j]] = Low(t, l, j) /\ high[d[j]] = High(t, h, j)
  BY DEF Parts
<1>2. CASE j < i
  <2>1. d[j] = c[j] /\ j \in 1 .. Len(c) /\ t[j] = s[j] /\ (j # 1 => t[j - 1] = s[j - 1])
    <3>1. /\ j \in 1 .. (i + 1) - 1 /\ j \in 1 .. i - 1 /\ (j # 1 => j - 1 \in 1 .. i - 1)
          /\ j \in 1 .. Len(c)
      BY <1>1, <1>2
    <3> QED BY <3>1 DEF TakenAt
  <2>2. lo[c[j]] = Low(s, l, j) /\ hi[c[j]] = High(s, h, j)
    BY <2>1 DEF Parts
  <2>3. Low(s, l, j) = Low(t, l, j) /\ High(s, h, j) = High(t, h, j)
    BY <1>1, <1>2, <2>1 DEF Low, High
  <2>4. low[c[j]] = lo[c[j]] /\ high[c[j]] = hi[c[j]]
    BY <1>2, <2>1 DEF JoinsChild
  <2> QED BY <2>1, <2>2, <2>3, <2>4
<1>3. CASE j = i
  <2>1. /\ d[j] = c[i] /\ i \in 1 .. Len(c) /\ i + 1 \in 1 .. Len(c) /\ i # i + 1
        /\ (i # 1 => t[i - 1] = s[i - 1]) /\ (i <= Len(t) => t[i] = s[i + 1])
    BY <1>1, <1>3 DEF TakenAt
  <2>2. lo[c[i]] = Low(s, l, i) /\ hi[c[i + 1]] = High(s, h, i + 1)
    BY <2>1 DEF Parts
  <2>3. Low(s, l, i) = Low(t, l, i)
    BY <1>1, <2>1 DEF Low
  <2>4. High(s, h, i + 1) = High(t, h, i)
    BY <1>1, <2>1 DEF High
  <2>5. low[c[i]] = lo[c[i]] /\ high[c[i]] = hi[c[i + 1]]
    BY <2>1 DEF JoinsChild
  <2> QED BY <1>3, <2>1, <2>2, <2>3, <2>4, <2>5
<1>4. CASE j > i
  <2>1. /\ d[j] = c[j + 1] /\ j + 1 \in 1 .. Len(c) /\ j + 1 # i /\ j + 1 # i + 1
        /\ j # 1 /\ j - 1 \in i .. Len(s) - 1 /\ (j - 1) + 1 = j
        /\ (j <= Len(t) => t[j] = s[j + 1])
    BY <1>1, <1>4 DEF TakenAt
  <2>2. t[j - 1] = s[j]
    BY <1>1, <2>1 DEF TakenAt
  <2>3. lo[c[j + 1]] = Low(s, l, j + 1) /\ hi[c[j + 1]] = High(s, h, j + 1)
    BY <2>1 DEF Parts
  <2>4. Low(s, l, j + 1) = Low(t, l, j)
    <3>1. (j + 1) - 1 = j /\ j + 1 # 1
      BY <2>1, SMTT(30)
    <3> QED BY <2>1, <2>2, <3>1 DEF Low
  <2>5. High(s, h, j + 1) = High(t, h, j)
    BY <1>1, <2>1 DEF High
  <2>6. low[c[j + 1]] = lo[c[j + 1]] /\ high[c[j + 1]] = hi[c[j + 1]]
    BY <2>1 DEF JoinsChild
  <2> QED BY <2>1, <2>3, <2>4, <2>5, <2>6
<1> QED BY <1>1, <1>2, <1>3, <1>4

\* The children are cut in two before the one at the place i + 1.
LEMMA PartsCut ==
  ASSUME NEW S, NEW s \in Seq(S), NEW C, NEW c \in Seq(C), Len(c) = Len(s) + 1, NEW l, NEW h,
         NEW lo, NEW hi, Parts(s, c, l, h, lo, hi), NEW i \in 1 .. Len(s)
  PROVE  /\ Parts(SubSeq(s, 1, i - 1), SubSeq(c, 1, i), l, s[i], lo, hi)
         /\ Parts(SubSeq(s, i + 1, Len(s)), SubSeq(c, i + 1, Len(c)), s[i], h, lo, hi)
<1> DEFINE a == SubSeq(s, 1, i - 1)
           b == SubSeq(s, i + 1, Len(s))
           d == SubSeq(c, 1, i)
           e == SubSeq(c, i + 1, Len(c))
<1>1. Len(s) \in Nat /\ Len(c) \in Nat
  OBVIOUS
<1>2. Len(a) = i - 1 /\ \A m \in 1 .. i - 1 : a[m] = s[m]
  OBVIOUS
<1>3. Len(b) = Len(s) - i /\ \A m \in 1 .. Len(s) - i : b[m] = s[i + m]
  OBVIOUS
<1>4. Len(d) = i /\ \A m \in 1 .. i : d[m] = c[m]
  OBVIOUS
<1>5. Len(e) = Len(c) - i /\ \A m \in 1 .. Len(c) - i : e[m] = c[i + m]
  OBVIOUS
<1> HIDE DEF a, b, d, e
<1>6. ASSUME NEW j \in 1 .. Len(d) PROVE lo[d[j]] = Low(a, l, j) /\ hi[d[j]] = High(a, s[i], j)
  <2>1. d[j] = c[j] /\ j \in 1 .. Len(c)
    BY <1>1, <1>4
  <2>2. lo[c[j]] = Low(s, l, j) /\ hi[c[j]] = High(s, h, j)
    BY <2>1 DEF Parts
  <2>3. Low(s, l, j) = Low(a, l, j)
    BY <1>1, <1>2, <1>4 DEF Low
  <2>4. High(s, h, j) = High(a, s[i], j)
    BY <1>1, <1>2, <1>4 DEF High
  <2> QED BY <2>1, <2>2, <2>3, <2>4
<1>7. ASSUME NEW j \in 1 .. Len(e) PROVE lo[e[j]] = Low(b, s[i], j) /\ hi[e[j]] = High(b, h, j)
  <2>1. e[j] = c[i + j] /\ i + j \in 1 .. Len(c) /\ i + j # 1
    BY <1>1, <1>5
  <2>2. lo[c[i + j]] = Low(s, l, i + j) /\ hi[c[i + j]] = High(s, h, i + j)
    BY <2>1 DEF Parts
  <2>3. Low(s, l, i + j) = Low(b, s[i], j)
    <3>1. j # 1 => b[j - 1] = s[i + (j - 1)] /\ i + (j - 1) = (i + j) - 1
      BY <1>1, <1>3, <1>5
    <3>2. j = 1 => (i + j) - 1 = i
      BY <1>1
    <3> QED BY <2>1, <3>1, <3>2 DEF Low
  <2>4. High(s, h, i + j) = High(b, h, j)
    BY <1>1, <1>3, <1>5 DEF High
  <2> QED BY <2>1, <2>2, <2>3, <2>4
<1> QED BY <1>6, <1>7 DEF Parts, a, b, d, e

\* The children of two intervals side by side are those of both.
LEMMA PartsJoined ==
  ASSUME NEW S, NEW a \in Seq(S), NEW b \in Seq(S), NEW k \in S,
         NEW C, NEW c \in Seq(C), NEW d \in Seq(C), Len(c) = Len(a) + 1, Len(d) = Len(b) + 1,
         NEW l, NEW h, NEW lo, NEW hi,
         Parts(a, c, l, k, lo, hi), Parts(b, d, k, h, lo, hi)
  PROVE  Parts((a \o <<k>>) \o b, c \o d, l, h, lo, hi)
<1> DEFINE s == (a \o <<k>>) \o b
           e == c \o d
<1>1. Len(a) \in Nat /\ Len(b) \in Nat
  OBVIOUS
<1>2. a \o <<k>> \in Seq(S) /\ Joins(S, a, <<k>>, a \o <<k>>) /\ Len(<<k>>) = 1 /\ <<k>>[1] = k
  <2>1. <<k>> \in Seq(S) /\ Len(<<k>>) = 1 /\ <<k>>[1] = k
    BY Single
  <2>2. Joins(S, a, <<k>>, a \o <<k>>)
    BY <2>1, Joined
  <2> QED BY <2>1, <2>2 DEF Joins
<1>3. Joins(S, a \o <<k>>, b, s) /\ Joins(C, c, d, e)
  BY <1>2, Joined
<1> HIDE DEF s, e
<1>4. Len(a \o <<k>>) = Len(a) + 1 /\ Len(s) = (Len(a) + 1) + Len(b) /\ Len(e) = Len(c) + Len(d)
  BY <1>2, <1>3 DEF Joins
<1>5. \A j \in 1 .. Len(a) : s[j] = a[j]
  <2> SUFFICES ASSUME NEW j \in 1 .. Len(a) PROVE s[j] = a[j]
    OBVIOUS
  <2>1. (a \o <<k>>)[j] = a[j]
    BY <1>2 DEF Joins
  <2>2. s[j] = (a \o <<k>>)[j]
    BY <1>1, <1>3, <1>4 DEF Joins
  <2> QED BY <2>1, <2>2
<1>6. s[Len(a) + 1] = k
  <2>1. (a \o <<k>>)[Len(a) + 1] = <<k>>[1]
    BY <1>2 DEF Joins
  <2>2. s[Len(a) + 1] = (a \o <<k>>)[Len(a) + 1]
    BY <1>1, <1>3, <1>4 DEF Joins
  <2> QED BY <1>2, <2>1, <2>2
<1>7. \A j \in 1 .. Len(b) : s[(Len(a) + 1) + j] = b[j]
  BY <1>3, <1>4 DEF Joins
<1> SUFFICES ASSUME NEW j \in 1 .. Len(e) PROVE lo[e[j]] = Low(s, l, j) /\ hi[e[j]] = High(s, h, j)
  BY DEF Parts, s, e
<1>8. CASE j <= Len(c)
  <2>1. j \in 1 .. Len(c) /\ e[j] = c[j]
    BY <1>1, <1>3, <1>8 DEF Joins
  <2>2. lo[c[j]] = Low(a, l, j) /\ hi[c[j]] = High(a, k, j)
    BY <2>1 DEF Parts
  <2>3. Low(a, l, j) = Low(s, l, j)
    BY <1>1, <1>5, <2>1, SMTT(30) DEF Low
  <2>4. High(a, k, j) = High(s, h, j)
    BY <1>1, <1>4, <1>5, <1>6, <2>1 DEF High
  <2> QED BY <2>1, <2>2, <2>3, <2>4
<1>9. CASE j > Len(c)
  <2> DEFINE m == j - Len(c)
  <2>1. m \in 1 .. Len(d) /\ j = Len(c) + m /\ j = (Len(a) + 1) + m
    BY <1>1, <1>4, <1>9
  <2>2. e[Len(c) + m] = d[m]
    BY <1>3, <2>1 DEF Joins
  <2>3. lo[d[m]] = Low(b, k, m) /\ hi[d[m]] = High(b, h, m)
    BY <2>1 DEF Parts
  <2> HIDE DEF m
  <2>4. Low(b, k, m) = Low(s, l, j)
    <3>1. CASE m = 1
      BY <1>1, <1>6, <2>1, <3>1 DEF Low
    <3>2. CASE m # 1
      <4>1. m - 1 \in 1 .. Len(b) /\ (Len(a) + 1) + (m - 1) = j - 1 /\ j # 1
        BY <1>1, <2>1, <3>2
      <4>2. s[j - 1] = b[m - 1]
        BY <1>7, <4>1
      <4> QED BY <3>2, <4>1, <4>2 DEF Low
    <3> QED BY <3>1, <3>2
  <2>5. High(b, h, m) = High(s, h, j)
    BY <1>1, <1>4, <1>7, <2>1 DEF High
  <2> QED BY <2>1, <2>2, <2>3, <2>4, <2>5
<1> QED BY <1>1, <1>4, <1>8, <1>9

\* Another separator between the children at the places i and i + 1.
TurnsAt(c, i, k, lo, hi, low, high) ==
  /\ \A j \in 1 .. Len(c) : low[c[j]] = IF j = i + 1 THEN k ELSE lo[c[j]]
  /\ \A j \in 1 .. Len(c) : high[c[j]] = IF j = i THEN k ELSE hi[c[j]]

LEMMA PartsRekeyed ==
  ASSUME NEW S, NEW s \in Seq(S), NEW c, Len(c) = Len(s) + 1, NEW l, NEW h,
         NEW lo, NEW hi, Parts(s, c, l, h, lo, hi), NEW i \in 1 .. Len(s), NEW k \in S,
         NEW low, NEW high, TurnsAt(c, i, k, lo, hi, low, high), NEW t, t = [s EXCEPT ![i] = k]
  PROVE  Parts(t, c, l, h, low, high)
<1>1. Len(s) \in Nat /\ Len(t) = Len(s) /\ \A j \in 1 .. Len(s) : t[j] = IF j = i THEN k ELSE s[j]
  OBVIOUS
<1> SUFFICES ASSUME NEW j \in 1 .. Len(c) PROVE low[c[j]] = Low(t, l, j) /\ high[c[j]] = High(t, h, j)
  BY <1>1 DEF Parts
<1>2. lo[c[j]] = Low(s, l, j) /\ hi[c[j]] = High(s, h, j)
  BY DEF Parts
<1>3. Low(t, l, j) = IF j = i + 1 THEN k ELSE Low(s, l, j)
  BY <1>1 DEF Low
<1>4. High(t, h, j) = IF j = i THEN k ELSE High(s, h, j)
  BY <1>1 DEF High
<1> QED BY <1>2, <1>3, <1>4 DEF TurnsAt

-----------------------------------------------------------------------------
(* Trees in order.                                                         *)

\* The page n has an interval and its keys in it; see is how its parts are bounded above.
At(p, n, lo, hi, see) ==
  /\ lo[n] \in Nat /\ hi[n] \in Nat /\ Below(lo[n], hi[n])
  /\ p[n].leaf => Ascends(p[n].keys, lo[n], hi[n])
  /\ ~p[n].leaf => /\ Ascends(p[n].keys, lo[n] + 1, hi[n])
                   /\ Parts(p[n].keys, p[n].children, lo[n], hi[n], lo, see)

Ordered(p, r, U, lo, hi, see) ==
  lo[r] = 0 /\ see[r] = 0 /\ \A n \in U : At(p, n, lo, hi, see)

\* The right sibling of a leaf is a leaf, and has the interval that follows.
Follows(p, U, lo, hi, n) ==
  IF p[n].right = 0 THEN hi[n] = 0
  ELSE /\ p[n].right \in U /\ p[p[n].right].leaf
       /\ hi[n] # 0 /\ lo[p[n].right] = hi[n]

Chain(p, U, lo, hi) == \A n \in U : p[n].leaf => Follows(p, U, lo, hi, n)

\* The keys of the records in the leaves.
Records(p, U) == {k \in Key : \E n \in U : p[n].leaf /\ k \in Range(p[n].keys)}

Orders(p, r, U, lo, hi, see, R) ==
  /\ Ordered(p, r, U, lo, hi, see) /\ Chain(p, U, lo, hi) /\ Records(p, U) = R

InOrder(p, r, fr, R) == \E lo, hi : Orders(p, r, Used(fr), lo, hi, hi, R)

LEMMA PartsSame ==
  ASSUME NEW s, NEW c, NEW l, NEW h, NEW lo, NEW hi, Parts(s, c, l, h, lo, hi), NEW low, NEW high,
         \A j \in 1 .. Len(c) : low[c[j]] = lo[c[j]] /\ high[c[j]] = hi[c[j]]
  PROVE  Parts(s, c, l, h, low, high)
BY DEF Parts

\* A page whose keys, children and bounds stay.
AtStays(p, n, lo, hi, see, q, low, high, view) ==
  /\ At(p, n, lo, hi, see)
  /\ q[n].leaf = p[n].leaf /\ q[n].keys = p[n].keys /\ q[n].children = p[n].children
  /\ low[n] = lo[n] /\ high[n] = hi[n]
  /\ ~p[n].leaf => \A j \in 1 .. Len(p[n].children) : /\ low[p[n].children[j]] = lo[p[n].children[j]]
                                                      /\ view[p[n].children[j]] = see[p[n].children[j]]

LEMMA AtSame ==
  ASSUME NEW p, NEW n, NEW lo, NEW hi, NEW see, NEW q, NEW low, NEW high, NEW view,
         AtStays(p, n, lo, hi, see, q, low, high, view)
  PROVE  At(q, n, low, high, view)
<1>1. CASE p[n].leaf
  BY <1>1 DEF At, AtStays
<1>2. CASE ~p[n].leaf
  <2>1. Parts(p[n].keys, p[n].children, lo[n], hi[n], low, view)
    BY <1>2, PartsSame DEF At, AtStays
  <2> QED BY <1>2, <2>1 DEF At, AtStays
<1> QED BY <1>1, <1>2

\* A child's interval is in that of its parent.
LEMMA ChildWithin ==
  ASSUME NEW p, NEW n, NEW lo, NEW hi, At(p, n, lo, hi, hi), p[n] \in Page, ~p[n].leaf,
         Len(p[n].children) = Len(p[n].keys) + 1, NEW i \in 1 .. Len(p[n].children)
  PROVE  /\ lo[n] <= lo[p[n].children[i]] /\ lo[p[n].children[i]] \in Nat
         /\ hi[p[n].children[i]] \in Nat
         /\ hi[n] # 0 => hi[p[n].children[i]] # 0 /\ hi[p[n].children[i]] <= hi[n]
<1> DEFINE s == p[n].keys
           x == p[n].children[i]
<1>1. s \in Seq(Key) /\ Len(s) \in Nat /\ \A j \in 1 .. Len(s) : s[j] \in Nat
  BY PageFields, KeysAreNat
<1>2. /\ lo[n] \in Nat /\ hi[n] \in Nat /\ Ascends(s, lo[n] + 1, hi[n])
      /\ lo[x] = Low(s, lo[n], i) /\ hi[x] = High(s, hi[n], i)
  BY DEF At, Parts
<1>3. \A j \in 1 .. Len(s) : lo[n] + 1 <= s[j] /\ (hi[n] = 0 \/ s[j] < hi[n])
  BY <1>2 DEF Ascends, Below
<1>4. i \in 1 .. Len(s) + 1
  OBVIOUS
<1> HIDE DEF s, x
<1>5. lo[n] <= lo[x] /\ lo[x] \in Nat
  <2>1. CASE i = 1
    BY <1>2, <2>1 DEF Low
  <2>2. CASE i # 1
    <3>1. i - 1 \in 1 .. Len(s)
      BY <1>1, <1>4, <2>2
    <3>2. lo[x] = s[i - 1]
      BY <1>2, <2>2 DEF Low
    <3> QED BY <1>1, <1>2, <1>3, <3>1, <3>2
  <2> QED BY <2>1, <2>2
<1>6. hi[x] \in Nat /\ (hi[n] # 0 => hi[x] # 0 /\ hi[x] <= hi[n])
  <2>1. CASE i > Len(s)
    BY <1>2, <2>1 DEF High
  <2>2. CASE ~(i > Len(s))
    <3>1. i \in 1 .. Len(s)
      BY <1>1, <1>4, <2>2
    <3>2. hi[x] = s[i]
      BY <1>2, <2>2 DEF High
    <3> QED BY <1>1, <1>2, <1>3, <3>1, <3>2
  <2> QED BY <2>1, <2>2
<1> QED BY <1>5, <1>6 DEF x

\* The interval of m ends where that of n begins, or before.
Before(lo, hi, m, n) == hi[m] # 0 /\ hi[m] <= lo[n]

LEMMA SiblingsApart ==
  ASSUME NEW p, NEW n, NEW lo, NEW hi, At(p, n, lo, hi, hi), p[n] \in Page, ~p[n].leaf,
         Len(p[n].children) = Len(p[n].keys) + 1,
         NEW i \in 1 .. Len(p[n].children), NEW j \in 1 .. Len(p[n].children), i < j
  PROVE  Before(lo, hi, p[n].children[i], p[n].children[j])
<1> DEFINE s == p[n].keys
           x == p[n].children[i]
           y == p[n].children[j]
<1>1. s \in Seq(Key) /\ Len(s) \in Nat /\ \A m \in 1 .. Len(s) : s[m] \in Nat
  BY PageFields, KeysAreNat
<1>2. /\ lo[n] \in Nat /\ Ascends(s, lo[n] + 1, hi[n])
      /\ lo[y] = Low(s, lo[n], j) /\ hi[x] = High(s, hi[n], i)
  BY DEF At, Parts
<1>3. i \in 1 .. Len(s) /\ j - 1 \in 1 .. Len(s) /\ i <= j - 1 /\ j # 1
  BY <1>1
<1> HIDE DEF s, x, y
<1>4. hi[x] = s[i] /\ lo[y] = s[j - 1]
  BY <1>1, <1>2, <1>3 DEF Low, High
<1>5. s[i] <= s[j - 1] /\ s[i] # 0
  BY <1>1, <1>2, <1>3 DEF Ascends, Sorted
<1> QED BY <1>4, <1>5 DEF Before, x, y

\* The pages of one level have intervals that do not meet.
LEMMA OneOnLevel ==
  ASSUME NEW p, NEW r, NEW fr, NEW lev, NEW lean, Tree(p, r, fr, lev, {}, lean),
         NEW lo, NEW hi, Ordered(p, r, Used(fr), lo, hi, hi),
         NEW m \in Used(fr), NEW n \in Used(fr), m # n, lev[m] = lev[n]
  PROVE  Before(lo, hi, m, n) \/ Before(lo, hi, n, m)
<1> DEFINE U == Used(fr)
           Good == {d \in Nat : \A x, y \in U : x # y /\ lev[x] = lev[y] /\ lev[r] = lev[x] + d
                                  => Before(lo, hi, x, y) \/ Before(lo, hi, y, x)}
<1>1. r \in U /\ \A x \in U : lev[x] \in Nat /\ lev[x] <= lev[r]
  BY RootOnTop DEF Tree, Linked
<1>2. ASSUME NEW x \in U, x # r
      PROVE  LET P == p[x].parent
             IN /\ P \in U /\ lev[P] = lev[x] + 1 /\ ~p[P].leaf /\ p[P] \in Page
                /\ Len(p[P].children) = Len(p[P].keys) + 1 /\ At(p, P, lo, hi, hi)
                /\ \E i \in 1 .. Len(p[P].children) : p[P].children[i] = x
  <2> DEFINE P == p[x].parent
  <2>1. P \in U /\ lev[P] = lev[x] + 1 /\ ~p[P].leaf /\ x \in Range(p[P].children)
    BY <1>2, TreePage
  <2>2. p[P] \in Page /\ PageOK(p[P])
    BY <2>1, TreePage
  <2>3. p[P].children \in Seq(Nat \ {0})
    BY <2>2, PageFields
  <2>4. \E i \in 1 .. Len(p[P].children) : p[P].children[i] = x
    BY <2>1, <2>3, InRange
  <2> QED BY <2>1, <2>2, <2>4 DEF PageOK, Ordered
<1>3. 0 \in Good
  <2> SUFFICES ASSUME NEW x \in U, NEW y \in U, x # y, lev[x] = lev[y], lev[r] = lev[x] + 0 PROVE FALSE
    OBVIOUS
  <2>1. \A z \in U : z # r => lev[p[z].parent] \in Nat /\ lev[p[z].parent] = lev[z] + 1
                              /\ lev[p[z].parent] <= lev[r]
    BY <1>1, <1>2
  <2>2. x = r /\ y = r
    BY <1>1, <2>1
  <2> QED BY <2>2
<1>4. ASSUME NEW d \in Nat, d \in Good PROVE d + 1 \in Good
  <2> SUFFICES ASSUME NEW x \in U, NEW y \in U, x # y, lev[x] = lev[y], lev[r] = lev[x] + (d + 1)
               PROVE  Before(lo, hi, x, y) \/ Before(lo, hi, y, x)
    OBVIOUS
  <2>1. x # r /\ y # r
    BY <1>1
  <2> DEFINE P == p[x].parent
             Q == p[y].parent
  <2>2. /\ P \in U /\ lev[P] = lev[x] + 1 /\ ~p[P].leaf /\ p[P] \in Page
        /\ Len(p[P].children) = Len(p[P].keys) + 1 /\ At(p, P, lo, hi, hi)
    BY <1>2, <2>1
  <2>3. PICK i \in 1 .. Len(p[P].children) : p[P].children[i] = x
    BY <1>2, <2>1
  <2>4. /\ Q \in U /\ lev[Q] = lev[y] + 1 /\ ~p[Q].leaf /\ p[Q] \in Page
        /\ Len(p[Q].children) = Len(p[Q].keys) + 1 /\ At(p, Q, lo, hi, hi)
    BY <1>2, <2>1
  <2>5. PICK j \in 1 .. Len(p[Q].children) : p[Q].children[j] = y
    BY <1>2, <2>1
  <2> HIDE DEF P, Q
  <2>6. CASE P = Q
    <3>1. i # j /\ i \in 1 .. Len(p[P].children) /\ j \in 1 .. Len(p[P].children)
      BY <2>3, <2>5, <2>6
    <3>2. i < j \/ j < i
      BY <3>1
    <3>3. ASSUME i < j PROVE Before(lo, hi, x, y)
      BY <2>2, <2>3, <2>5, <2>6, <3>1, <3>3, SiblingsApart
    <3>4. ASSUME j < i PROVE Before(lo, hi, y, x)
      BY <2>2, <2>3, <2>5, <2>6, <3>1, <3>4, SiblingsApart
    <3> QED BY <3>2, <3>3, <3>4
  <2>7. CASE P # Q
    <3>1. lev[P] = lev[Q] /\ lev[r] = lev[P] + d
      BY <1>1, <2>2, <2>4, SMTT(30)
    <3>2. Before(lo, hi, P, Q) \/ Before(lo, hi, Q, P)
      BY <1>4, <2>2, <2>4, <2>7, <3>1
    <3>3. /\ lo[P] <= lo[x] /\ lo[x] \in Nat /\ hi[x] \in Nat
          /\ hi[P] # 0 => hi[x] # 0 /\ hi[x] <= hi[P]
      BY <2>2, <2>3, ChildWithin
    <3>4. /\ lo[Q] <= lo[y] /\ lo[y] \in Nat /\ hi[y] \in Nat
          /\ hi[Q] # 0 => hi[y] # 0 /\ hi[y] <= hi[Q]
      BY <2>4, <2>5, ChildWithin
    <3>5. lo[P] \in Nat /\ hi[P] \in Nat /\ lo[Q] \in Nat /\ hi[Q] \in Nat
      BY <2>2, <2>4 DEF At
    <3> QED BY <3>2, <3>3, <3>4, <3>5, SMTT(30) DEF Before
  <2> QED BY <2>6, <2>7
<1> HIDE DEF Good
<1>5. Nat \subseteq Good
  BY <1>3, <1>4, Counting
<1>6. lev[r] - lev[m] \in Nat /\ lev[r] = lev[m] + (lev[r] - lev[m])
  BY <1>1
<1> QED BY <1>5, <1>6 DEF Good

\* No two leaves begin or end at the same bound.
LEMMA LeavesApart ==
  ASSUME NEW p, NEW r, NEW fr, NEW lev, NEW lean, Tree(p, r, fr, lev, {}, lean),
         NEW lo, NEW hi, Ordered(p, r, Used(fr), lo, hi, hi),
         NEW m \in Used(fr), NEW n \in Used(fr), m # n, p[m].leaf, p[n].leaf
  PROVE  lo[m] # lo[n] /\ hi[m] # hi[n]
<1>1. lev[m] = 0 /\ lev[n] = 0
  BY TreePage
<1>2. Before(lo, hi, m, n) \/ Before(lo, hi, n, m)
  BY <1>1, OneOnLevel
<1>3. /\ lo[m] \in Nat /\ hi[m] \in Nat /\ Below(lo[m], hi[m])
      /\ lo[n] \in Nat /\ hi[n] \in Nat /\ Below(lo[n], hi[n])
  BY DEF Ordered, At
<1> QED BY <1>2, <1>3 DEF Before, Below

\* The leaf whose interval begins where that of a ends is the right sibling of a, and of
\* no other leaf.
LEMMA NextLeaf ==
  ASSUME NEW p, NEW r, NEW fr, NEW lev, NEW lean, Tree(p, r, fr, lev, {}, lean),
         NEW lo, NEW hi, NEW R, Orders(p, r, Used(fr), lo, hi, hi, R),
         NEW a \in Used(fr), NEW b \in Used(fr), p[a].leaf, p[b].leaf, hi[a] = lo[b], hi[a] # 0
  PROVE  /\ p[a].right = b /\ b # 0
         /\ \A x \in Used(fr) : p[x].leaf /\ x # a => p[x].right # b
<1>1. Ordered(p, r, Used(fr), lo, hi, hi) /\ Chain(p, Used(fr), lo, hi)
  BY DEF Orders
<1>2. b # 0
  BY PageNumbers DEF Used
<1>3. p[a].right = b
  <2>1. p[a].right \in Used(fr) /\ p[p[a].right].leaf /\ lo[p[a].right] = hi[a]
    BY <1>1 DEF Chain, Follows
  <2> QED BY <1>1, <2>1, LeavesApart
<1>4. ASSUME NEW x \in Used(fr), p[x].leaf, x # a PROVE p[x].right # b
  <2>1. p[x].right = b => hi[x] = lo[b]
    BY <1>1, <1>2, <1>4 DEF Chain, Follows
  <2>2. hi[x] # hi[a]
    BY <1>1, <1>4, LeavesApart
  <2> QED BY <2>1, <2>2
<1> QED BY <1>2, <1>3, <1>4

\* The leaves of the pages q in V are those of the pages p in U.
SameLeaves(p, U, lo, hi, q, V, low, high) ==
  /\ \A n \in U : p[n].leaf => /\ n \in V /\ q[n].leaf
                               /\ q[n].keys = p[n].keys /\ q[n].right = p[n].right
                               /\ low[n] = lo[n] /\ high[n] = hi[n]
  /\ \A n \in V : q[n].leaf => n \in U /\ p[n].leaf

LEMMA LeavesStay ==
  ASSUME NEW p, NEW U, NEW lo, NEW hi, NEW q, NEW V, NEW low, NEW high,
         SameLeaves(p, U, lo, hi, q, V, low, high), Chain(p, U, lo, hi)
  PROVE  Chain(q, V, low, high) /\ Records(q, V) = Records(p, U)
<1>1. ASSUME NEW n \in V, q[n].leaf PROVE Follows(q, V, low, high, n)
  <2>1. n \in U /\ p[n].leaf /\ q[n].right = p[n].right /\ high[n] = hi[n]
    BY <1>1 DEF SameLeaves
  <2>2. Follows(p, U, lo, hi, n)
    BY <2>1 DEF Chain
  <2>3. CASE p[n].right = 0
    BY <2>1, <2>2, <2>3 DEF Follows
  <2>4. CASE p[n].right # 0
    <3>1. p[n].right \in U /\ p[p[n].right].leaf /\ hi[n] # 0 /\ lo[p[n].right] = hi[n]
      BY <2>2, <2>4 DEF Follows
    <3>2. p[n].right \in V /\ q[p[n].right].leaf /\ low[p[n].right] = lo[p[n].right]
      BY <3>1 DEF SameLeaves
    <3> QED BY <2>1, <2>4, <3>1, <3>2 DEF Follows
  <2> QED BY <2>3, <2>4
<1>2. \A k : (\E n \in V : q[n].leaf /\ k \in Range(q[n].keys))
             <=> (\E n \in U : p[n].leaf /\ k \in Range(p[n].keys))
  BY DEF SameLeaves
<1> QED BY <1>1, <1>2 DEF Chain, Records

-----------------------------------------------------------------------------
(* Searches.                                                               *)

\* A set of places that has all places before each of its own is counted by the last.
LEMMA FirstPlaces ==
  ASSUME NEW n \in Nat, NEW T \in SUBSET (1 .. n), \A i \in T : \A j \in 1 .. i : j \in T
  PROVE  Cardinality(T) \in 0 .. n /\ T = 1 .. Cardinality(T)
<1>1. CASE T = {}
  BY <1>1, FS_EmptySet
<1>2. CASE T # {}
  <2>1. T \in SUBSET (0 .. n)
    OBVIOUS
  <2>2. Max(T) \in T /\ \A y \in T : y <= Max(T)
    BY <1>2, <2>1, Largest
  <2> DEFINE m == Max(T)
  <2> HIDE DEF m
  <2>3. m \in T /\ \A y \in T : y <= m
    BY <2>2 DEF m
  <2>4. m \in 1 .. n /\ m \in Nat
    BY <2>3
  <2>5. \A y \in T : y \in 1 .. m
    BY <2>3, <2>4
  <2>6. \A y \in 1 .. m : y \in T
    BY <2>3
  <2>7. T = 1 .. m
    BY <2>5, <2>6
  <2>8. Cardinality(T) = m
    BY <2>4, <2>7, UpTo
  <2> QED BY <2>4, <2>7, <2>8
<1> QED BY <1>1, <1>2

\* The place of a key among others.
LEMMA PlaceOf ==
  ASSUME NEW q \in Seq(Key), Sorted(q), NEW k \in Nat
  PROVE  /\ Route(q, k) \in 1 .. Len(q) + 1
         /\ \A i \in 1 .. Len(q) : IF i < Route(q, k) THEN q[i] <= k ELSE k < q[i]
<1>1. Len(q) \in Nat /\ DOMAIN q = 1 .. Len(q) /\ \A j \in 1 .. Len(q) : q[j] \in Nat
  BY KeysAreNat
<1> DEFINE T == {i \in 1 .. Len(q) : q[i] <= k}
<1>2. \A i \in T : \A j \in 1 .. i : j \in T
  <2> SUFFICES ASSUME NEW i \in T, NEW j \in 1 .. i PROVE j \in T
    OBVIOUS
  <2>1. j \in 1 .. Len(q) /\ i \in 1 .. Len(q) /\ (j = i \/ j < i) /\ q[i] <= k
    BY <1>1
  <2> QED BY <1>1, <2>1 DEF Sorted
<1>3. Cardinality(T) \in 0 .. Len(q) /\ T = 1 .. Cardinality(T)
  <2> HIDE DEF T
  <2>1. T \in SUBSET (1 .. Len(q))
    BY DEF T
  <2> QED BY <1>1, <1>2, <2>1, FirstPlaces
<1>4. Route(q, k) = Cardinality(T) + 1
  BY <1>1 DEF Route
<1> DEFINE c == Cardinality(T)
<1>5. \A i \in 1 .. Len(q) : q[i] <= k <=> i \in T
  OBVIOUS
<1> HIDE DEF T
<1>6. c \in 0 .. Len(q) /\ T = 1 .. c /\ Route(q, k) = c + 1
  BY <1>3, <1>4
<1> HIDE DEF c
<1>7. \A i \in 1 .. Len(q) : i < c + 1 <=> q[i] <= k
  BY <1>1, <1>5, <1>6
<1> QED BY <1>1, <1>6, <1>7

\* A key that is new is put in its place.
LEMMA WithKeyAscends ==
  ASSUME NEW q \in Seq(Key), NEW l \in Nat, NEW h \in Nat, Ascends(q, l, h),
         NEW k \in Key, k \notin Range(q), l <= k, Below(k, h)
  PROVE  Ascends(WithKey(q, k), l, h) /\ Range(WithKey(q, k)) = Range(q) \union {k}
<1>1. Len(q) \in Nat /\ DOMAIN q = 1 .. Len(q) /\ \A j \in 1 .. Len(q) : q[j] \in Nat
  BY KeysAreNat
<1>2. k \in Nat
  BY BPlusTreeAssumption
<1> DEFINE T == {i \in 1 .. Len(q) : q[i] < k}
           i == Cardinality(T) + 1
<1>3. \A a \in T : \A b \in 1 .. a : b \in T
  <2> SUFFICES ASSUME NEW a \in T, NEW b \in 1 .. a PROVE b \in T
    OBVIOUS
  <2>1. b \in 1 .. Len(q) /\ a \in 1 .. Len(q) /\ (b = a \/ b < a) /\ q[a] < k
    BY <1>1
  <2> QED BY <1>1, <1>2, <2>1 DEF Ascends, Sorted
<1>4. Cardinality(T) \in 0 .. Len(q) /\ T = 1 .. Cardinality(T)
  <2> HIDE DEF T
  <2>1. T \in SUBSET (1 .. Len(q))
    BY DEF T
  <2> QED BY <1>1, <1>3, <2>1, FirstPlaces
<1>5. WithKey(q, k) = InsertAt(q, i, k)
  BY <1>1 DEF WithKey
<1>6. i \in 1 .. Len(q) + 1 /\ \A j \in 1 .. Len(q) : j < i <=> q[j] < k
  <2> DEFINE c == Cardinality(T)
  <2>1. \A j \in 1 .. Len(q) : q[j] < k <=> j \in T
    OBVIOUS
  <2> HIDE DEF T
  <2>2. c \in 0 .. Len(q) /\ T = 1 .. c /\ i = c + 1
    BY <1>4
  <2> HIDE DEF c, i
  <2> QED BY <1>1, <2>1, <2>2
<1> HIDE DEF i
<1>7. PutAt(q, i, k, InsertAt(q, i, k))
  BY <1>6, PutPlaces
<1>8. Gains(Key, q, k, InsertAt(q, i, k))
  BY <1>6, PutIn
<1>9. \A j \in 1 .. Len(q) : q[j] # k
  BY InRange
<1>10. (i > 1 => q[i - 1] < k) /\ (i <= Len(q) => k < q[i])
  BY <1>1, <1>2, <1>6, <1>9
<1>11. Ascends(InsertAt(q, i, k), l, h)
  BY <1>6, <1>7, <1>10, AscendsPut
<1> QED BY <1>5, <1>8, <1>11 DEF Gains

\* No key is changed by being taken as an int.
KeysFit == \A k \in Key : Int32(k) = k

\* The key k is in the interval of the page n.
Covers(lo, hi, n, k) == lo[n] <= k /\ Below(k, hi[n])

\* An internal page sends a key to the child whose interval has it.
LEMMA RoutedWithin ==
  ASSUME NEW p, NEW n, NEW lo, NEW hi, At(p, n, lo, hi, hi), p[n] \in Page, ~p[n].leaf,
         Len(p[n].children) = Len(p[n].keys) + 1, NEW k \in Nat, Covers(lo, hi, n, k)
  PROVE  Covers(lo, hi, p[n].children[Route(p[n].keys, k)], k)
<1> DEFINE s == p[n].keys
           i == Route(s, k)
           x == p[n].children[i]
<1>1. s \in Seq(Key) /\ Len(s) \in Nat
  BY PageFields, KeysAreNat
<1>2. Ascends(s, lo[n] + 1, hi[n]) /\ Parts(s, p[n].children, lo[n], hi[n], lo, hi)
  BY DEF At
<1>3. i \in 1 .. Len(s) + 1 /\ \A j \in 1 .. Len(s) : IF j < i THEN s[j] <= k ELSE k < s[j]
  <2>1. Sorted(s)
    BY <1>2 DEF Ascends
  <2> HIDE DEF s
  <2> QED BY <1>1, <2>1, PlaceOf
<1>4. lo[x] = Low(s, lo[n], i) /\ hi[x] = High(s, hi[n], i)
  BY <1>2, <1>3 DEF Parts
<1> HIDE DEF s, i, x
<1>5. Low(s, lo[n], i) <= k
  <2>1. i # 1 => i - 1 \in 1 .. Len(s) /\ i - 1 < i
    BY <1>1, <1>3
  <2> QED BY <1>3, <2>1 DEF Low, Covers
<1>6. Below(k, High(s, hi[n], i))
  <2>1. ~(i > Len(s)) => i \in 1 .. Len(s) /\ ~(i < i)
    BY <1>1, <1>3
  <2> QED BY <1>3, <2>1 DEF High, Covers, Below
<1>7. Covers(lo, hi, x, k)
  BY <1>4, <1>5, <1>6 DEF Covers
<1> QED BY <1>7 DEF x, i, s

\* A search ends at the leaf whose interval has the key.
LEMMA FindsInterval ==
  ASSUME KeysFit, NEW lev, Grown(lev), NEW lo, NEW hi,
         Ordered(page, root, Used(free), lo, hi, hi), NEW k \in Key
  PROVE  /\ FindLeaf(k) \in Used(free) /\ page[FindLeaf(k)].leaf
         /\ Covers(lo, hi, FindLeaf(k), k)
<1> DEFINE I == {n \in Used(free) : Covers(lo, hi, n, k)}
<1>1. k \in Nat /\ Int32(k) = k
  BY BPlusTreeAssumption DEF KeysFit
<1>2. Tree(page, root, free, lev, {}, {}) /\ Used(free) = InUse
  BY UsedIsInUse DEF Grown
<1>3. root \in I
  <2>1. root \in Used(free)
    BY <1>2, RootOnTop DEF Tree, Linked
  <2>2. lo[root] = 0 /\ hi[root] = 0
    BY DEF Ordered
  <2> QED BY <1>1, <2>1, <2>2 DEF Covers, Below
<1>4. ASSUME NEW n \in I, ~page[n].leaf
      PROVE  page[n].children[Route(page[n].keys, Int32(k))] \in I
  <2>1. n \in Used(free) /\ Covers(lo, hi, n, k) /\ At(page, n, lo, hi, hi)
    BY DEF Ordered
  <2>2. page[n] \in Page /\ Len(page[n].children) = Len(page[n].keys) + 1
    BY <1>2, <1>4, <2>1, TreePage DEF PageOK
  <2>3. Covers(lo, hi, page[n].children[Route(page[n].keys, k)], k)
    BY <1>1, <1>4, <2>1, <2>2, RoutedWithin
  <2>4. page[n].children[Route(page[n].keys, Int32(k))] \in Used(free)
    BY <1>2, <1>4, <2>1, RouteIsChild
  <2> QED BY <1>1, <2>3, <2>4
<1>5. I \in SUBSET InUse
  BY <1>2
<1> HIDE DEF I
<1>6. FindLeaf(k) \in I /\ page[FindLeaf(k)].leaf
  BY <1>3, <1>4, <1>5, FindsWithin
<1> QED BY <1>6 DEF I

\* A key is in the interval of one leaf, and a leaf that has it covers it.
LEMMA CoveredOnce ==
  ASSUME NEW p, NEW r, NEW fr, NEW lev, NEW lean, Tree(p, r, fr, lev, {}, lean),
         NEW lo, NEW hi, Ordered(p, r, Used(fr), lo, hi, hi), NEW k \in Nat,
         NEW m \in Used(fr), NEW n \in Used(fr), p[m].leaf, p[n].leaf,
         Covers(lo, hi, m, k), Covers(lo, hi, n, k)
  PROVE  m = n
<1>1. lev[n] = 0 /\ lev[m] = 0
  BY TreePage
<1>2. m # n => Before(lo, hi, m, n) \/ Before(lo, hi, n, m)
  BY <1>1, OneOnLevel
<1>3. lo[m] \in Nat /\ hi[m] \in Nat /\ lo[n] \in Nat /\ hi[n] \in Nat
  BY DEF Ordered, At
<1> QED BY <1>2, <1>3 DEF Before, Covers, Below

LEMMA CoversItsKeys ==
  ASSUME NEW p, NEW U, NEW r, NEW lo, NEW hi, Ordered(p, r, U, lo, hi, hi),
         NEW n \in U, p[n].leaf, p[n] \in Page, NEW k \in Range(p[n].keys)
  PROVE  Covers(lo, hi, n, k)
<1>1. PICK i \in 1 .. Len(p[n].keys) : p[n].keys[i] = k
  BY PageFields, InRange
<1>2. Ascends(p[n].keys, lo[n], hi[n])
  BY DEF Ordered, At
<1> QED BY <1>1, <1>2 DEF Ascends, Covers

\* What db_find finds are the records in the leaves.
LEMMA FoundIs ==
  ASSUME KeysFit, root # 0, NEW lev, Grown(lev), NEW lo, NEW hi, NEW R,
         Orders(page, root, Used(free), lo, hi, hi, R), NEW k \in Key
  PROVE  Found(k) <=> k \in R
<1>1. Ordered(page, root, Used(free), lo, hi, hi) /\ R = Records(page, Used(free))
  BY DEF Orders
<1>2. Tree(page, root, free, lev, {}, {})
  BY DEF Grown
<1> DEFINE m == FindLeaf(k)
<1>3. m \in Used(free) /\ page[m].leaf /\ Covers(lo, hi, m, k)
  BY <1>1, FindsInterval
<1>4. Found(k) <=> k \in Range(page[m].keys)
  BY DEF Found
<1> HIDE DEF m
<1>5. ASSUME k \in R PROVE k \in Range(page[m].keys)
  <2>1. PICK n \in Used(free) : page[n].leaf /\ k \in Range(page[n].keys)
    BY <1>1, <1>5 DEF Records
  <2>2. page[n] \in Page /\ k \in Nat
    BY <1>2, <2>1, TreePage, BPlusTreeAssumption
  <2>3. Covers(lo, hi, n, k)
    BY <1>1, <2>1, <2>2, CoversItsKeys
  <2>4. m = n
    BY <1>1, <1>2, <1>3, <2>1, <2>2, <2>3, CoveredOnce
  <2> QED BY <2>1, <2>4
<1> QED BY <1>1, <1>3, <1>4, <1>5 DEF Records

-----------------------------------------------------------------------------
(* The leaves in order.                                                    *)

\* On every level a page has no bound above.
LEMMA LastOnLevel ==
  ASSUME NEW p, NEW r, NEW fr, NEW lev, NEW lean, Tree(p, r, fr, lev, {}, lean),
         NEW lo, NEW hi, Ordered(p, r, Used(fr), lo, hi, hi)
  PROVE  \E n \in Used(fr) : p[n].leaf /\ hi[n] = 0
<1> DEFINE U == Used(fr)
           Good == {d \in Nat : d <= lev[r] => \E n \in U : lev[n] + d = lev[r] /\ hi[n] = 0}
<1>1. r \in U /\ lev[r] \in Nat /\ \A x \in U : lev[x] \in Nat
  BY DEF Tree, Linked
<1>2. 0 \in Good
  BY <1>1 DEF Ordered
<1>3. ASSUME NEW d \in Nat, d \in Good PROVE d + 1 \in Good
  <2> SUFFICES ASSUME d + 1 <= lev[r] PROVE \E n \in U : lev[n] + (d + 1) = lev[r] /\ hi[n] = 0
    OBVIOUS
  <2>1. PICK n \in U : lev[n] + d = lev[r] /\ hi[n] = 0
    BY <1>1, <1>3
  <2>2. p[n] \in Page /\ PageOK(p[n]) /\ ~p[n].leaf
    BY <1>1, <2>1, TreePage
  <2>3. p[n].keys \in Seq(Key) /\ p[n].children \in Seq(Nat \ {0}) /\ Len(p[n].keys) \in Nat
        /\ Len(p[n].children) = Len(p[n].keys) + 1
    BY <2>2, PageFields, KeysAreNat DEF PageOK
  <2> DEFINE i == Len(p[n].keys) + 1
             x == p[n].children[i]
  <2>4. i \in 1 .. Len(p[n].children) /\ i > Len(p[n].keys)
    BY <2>3, SMTT(30)
  <2>5. x \in Range(p[n].children)
    BY <2>3, <2>4, InRange
  <2>6. x \in U /\ lev[n] = lev[x] + 1
    BY <2>5, TreePage
  <2>7. hi[x] = 0
    BY <2>1, <2>2, <2>4 DEF Ordered, At, Parts, High
  <2> HIDE DEF x, i
  <2>8. lev[x] + (d + 1) = lev[r]
    BY <1>1, <2>1, <2>6
  <2> QED BY <2>6, <2>7, <2>8
<1> HIDE DEF Good
<1>4. lev[r] \in Good
  BY <1>1, <1>2, <1>3, Counting
<1>5. PICK n \in U : lev[n] + lev[r] = lev[r] /\ hi[n] = 0
  BY <1>1, <1>4 DEF Good
<1>6. p[n].leaf
  BY <1>1, <1>5, TreePage
<1> QED BY <1>5, <1>6

\* A leaf with a sibling is not the root, so it has a record.
LEMMA NotAlone ==
  ASSUME NEW p, NEW r, NEW fr, NEW lev, Tree(p, r, fr, lev, {}, {}),
         NEW m \in Used(fr), NEW n \in Used(fr), m # n, p[m].leaf, p[n].leaf
  PROVE  p[m].keys \in Seq(Key) /\ Len(p[m].keys) \in Nat \ {0}
<1>1. m # r
  <2>1. SUFFICES ASSUME m = r PROVE FALSE
    OBVIOUS
  <2>2. p[n].parent \in Used(fr) /\ lev[p[n].parent] = lev[n] + 1 /\ lev[n] = 0 /\ lev[r] = 0
    BY <2>1, TreePage
  <2>3. lev[p[n].parent] <= lev[r]
    BY <2>2, RootOnTop
  <2> QED BY <2>2, <2>3
<1>2. Enough(p[m]) /\ PageOK(p[m]) /\ p[m] \in Page
  BY <1>1, TreePage
<1>3. p[m].keys \in Seq(Key) /\ p[m].space \in Nat /\ p[m].space < THRESHOLD
      /\ p[m].space + SpaceFor(p[m].keys) = MAX_FREE_SPACE
  BY <1>2, PageFields DEF Enough, PageOK
<1>4. p[m].keys # << >>
  <2>1. p[m].keys = << >> => SpaceFor(p[m].keys) = 0
    <3>1. ASSUME NEW k \in Key PROVE SpaceFor(<< >>) = 0
      BY SpaceSingle
    <3>2. << >> \in Seq(Key) /\ << >> \o << >> = << >>
      OBVIOUS
    <3>3. SpaceFor(<< >>) = SpaceFor(<< >>) + SpaceFor(<< >>) /\ SpaceFor(<< >>) \in Nat
      BY <3>2, SpaceJoined
    <3> QED BY <3>3
  <2> QED BY <1>3, <2>1, Constants, SMTT(30)
<1> QED BY <1>3, <1>4

LEMMA OrdersLeaves ==
  ASSUME NEW lev, Grown(lev), NEW lo, NEW hi, NEW R,
         Orders(page, root, Used(free), lo, hi, hi, R)
  PROVE  LeavesInOrder
<1> DEFINE leaves == {n \in InUse : page[n].leaf}
           next == [n \in leaves |-> page[n].right]
<1>1. Tree(page, root, free, lev, {}, {}) /\ Used(free) = InUse
  BY UsedIsInUse DEF Grown
<1>2. /\ Ordered(page, root, InUse, lo, hi, hi) /\ Chain(page, InUse, lo, hi)
      /\ Ordered(page, root, Used(free), lo, hi, hi)
  BY <1>1 DEF Orders
<1>3. IsInjective(next) /\ \E n \in leaves : next[n] = 0
  <2>1. PICK a \in InUse : page[a].leaf /\ hi[a] = 0
    BY <1>1, <1>2, LastOnLevel
  <2>2. page[a].right = 0
    BY <1>2, <2>1 DEF Chain, Follows
  <2>3. ASSUME NEW m \in InUse, page[m].leaf, NEW n \in InUse, page[n].leaf,
               page[m].right = page[n].right
        PROVE  m = n
    <3>1. Follows(page, InUse, lo, hi, m) /\ Follows(page, InUse, lo, hi, n)
      BY <1>2, <2>3 DEF Chain
    <3>2. hi[m] = hi[n]
      BY <2>3, <3>1 DEF Follows
    <3>3. m \in Used(free) /\ n \in Used(free)
      BY <1>1, <2>3
    <3>4. m # n => hi[m] # hi[n]
      BY <1>1, <1>2, <2>3, <3>3, LeavesApart
    <3> QED BY <3>2, <3>4
  <2> QED BY <2>1, <2>2, <2>3 DEF IsInjective
<1>4. ASSUME NEW n \in InUse, page[n].leaf
      PROVE  /\ \A i, j \in DOMAIN page[n].keys : i < j => page[n].keys[i] < page[n].keys[j]
             /\ page[n].right # 0 =>
                  /\ page[n].right \in leaves
                  /\ Last(page[n].keys) < Head(page[page[n].right].keys)
  <2>1. page[n].keys \in Seq(Key) /\ Ascends(page[n].keys, lo[n], hi[n])
    <3>1. page[n] \in Page
      BY <1>1, <1>4, TreePage
    <3> QED BY <1>2, <1>4, <3>1, PageFields DEF Ordered, At
  <2>2. DOMAIN page[n].keys = 1 .. Len(page[n].keys)
    BY <2>1
  <2> SUFFICES ASSUME page[n].right # 0
               PROVE  /\ page[n].right \in leaves
                      /\ Last(page[n].keys) < Head(page[page[n].right].keys)
    BY <2>1, <2>2 DEF Ascends, Sorted
  <2> DEFINE m == page[n].right
  <2>3. m \in InUse /\ page[m].leaf /\ hi[n] # 0 /\ lo[m] = hi[n]
    BY <1>2, <1>4 DEF Chain, Follows
  <2> HIDE DEF m
  <2>4. lo[n] \in Nat /\ hi[n] \in Nat /\ Below(lo[n], hi[n]) /\ Ascends(page[m].keys, lo[m], hi[m])
    BY <1>2, <2>3, <1>4 DEF Ordered, At
  <2>5. m # n
    BY <2>3, <2>4 DEF Below
  <2>6. Len(page[n].keys) \in Nat \ {0} /\ page[m].keys \in Seq(Key) /\ Len(page[m].keys) \in Nat \ {0}
    BY <1>1, <1>4, <2>3, <2>5, NotAlone
  <2>7. Last(page[n].keys) = page[n].keys[Len(page[n].keys)] /\ Head(page[m].keys) = page[m].keys[1]
    <3> DEFINE f == page[n].keys
               g == page[m].keys
    <3>1. f \in Seq(Key) /\ Len(f) >= 1 /\ g \in Seq(Key) /\ Len(g) >= 1
      BY <2>1, <2>6
    <3> HIDE DEF f, g
    <3>2. Last(f) = f[Len(f)]
      BY <3>1, LastAway
    <3>3. Head(g) = g[1]
      BY <3>1
    <3> QED BY <3>2, <3>3 DEF f, g
  <2>8. Len(page[n].keys) \in 1 .. Len(page[n].keys) /\ 1 \in 1 .. Len(page[m].keys)
    BY <2>6
  <2>9. /\ page[n].keys[Len(page[n].keys)] \in Nat /\ page[m].keys[1] \in Nat
    BY <2>1, <2>6, <2>8, KeysAreNat
  <2>10. page[n].keys[Len(page[n].keys)] < hi[n]
    BY <2>1, <2>3, <2>8 DEF Ascends, Below
  <2>11. lo[m] <= page[m].keys[1]
    BY <2>4, <2>8 DEF Ascends
  <2>12. Last(page[n].keys) < Head(page[m].keys)
    BY <2>3, <2>4, <2>7, <2>9, <2>10, <2>11
  <2> QED BY <2>3, <2>12 DEF m
<1> QED BY <1>3, <1>4 DEF LeavesInOrder

-----------------------------------------------------------------------------
(* Leaves that change.                                                     *)

\* The records of one leaf change within its interval.
LEMMA LeafRefilled ==
  ASSUME NEW p \in [PageNumber -> Page], NEW U \in SUBSET PageNumber, NEW r, NEW lo, NEW hi,
         NEW R, Orders(p, r, U, lo, hi, hi, R), NEW n \in U, p[n].leaf,
         NEW ks, NEW space, Ascends(ks, lo[n], hi[n])
  PROVE  LET q == [p EXCEPT ![n] = Refilled(p[n], ks, space)]
         IN Orders(q, r, U, lo, hi, hi, Records(q, U))
<1> DEFINE g == Refilled(p[n], ks, space)
           q == [p EXCEPT ![n] = g]
<1>1. /\ g.leaf = p[n].leaf /\ g.keys = ks /\ g.right = p[n].right
      /\ g.children = p[n].children
  <2>1. p[n] \in Page
    OBVIOUS
  <2> QED BY <2>1 DEF Refilled, Page
<1>2. \A m \in U : q[m] = IF m = n THEN g ELSE p[m]
  OBVIOUS
<1> HIDE DEF g, q
<1>3. Ordered(p, r, U, lo, hi, hi) /\ Chain(p, U, lo, hi)
  BY DEF Orders
<1>4. ASSUME NEW m \in U PROVE At(q, m, lo, hi, hi)
  <2>1. At(p, m, lo, hi, hi)
    BY <1>3 DEF Ordered
  <2> QED BY <1>1, <1>2, <2>1 DEF At
<1>5. Chain(q, U, lo, hi)
  <2>1. \A m \in U : q[m].leaf = p[m].leaf /\ q[m].right = p[m].right
    BY <1>1, <1>2
  <2> QED BY <1>3, <2>1 DEF Chain, Follows
<1>6. Orders(q, r, U, lo, hi, hi, Records(q, U))
  BY <1>3, <1>4, <1>5 DEF Orders, Ordered
<1> QED BY <1>6 DEF q, g

\* A record is put into a leaf.
LEMMA IntoLeafOrders ==
  ASSUME page \in [PageNumber -> Page], NEW lo, NEW hi, NEW R,
         Orders(page, root, Used(free), lo, hi, hi, R),
         NEW n \in Used(free), page[n].leaf, NEW k \in Key, k \notin R, Covers(lo, hi, n, k)
  PROVE  Orders(IntoLeaf(n, k), root, Used(free), lo, hi, hi, R \union {k})
<1> DEFINE U == Used(free)
           ks == WithKey(page[n].keys, k)
           q == [page EXCEPT ![n] = Refilled(page[n], ks, page[n].space - Size[k])]
<1>0. U \in SUBSET PageNumber /\ n \in PageNumber
  BY DEF Used
<1>1. IntoLeaf(n, k) = q
  BY <1>0 DEF IntoLeaf, Refilled
<1>2. page[n].keys \in Seq(Key) /\ k \notin Range(page[n].keys)
  BY <1>0, PageFields DEF Orders, Records
<1>3. lo[n] \in Nat /\ hi[n] \in Nat /\ Ascends(page[n].keys, lo[n], hi[n])
  BY DEF Orders, Ordered, At
<1>4. Ascends(ks, lo[n], hi[n]) /\ Range(ks) = Range(page[n].keys) \union {k}
  BY <1>2, <1>3, WithKeyAscends DEF Covers
<1>5. \A m \in U : q[m].leaf = page[m].leaf
                   /\ Range(q[m].keys) = IF m = n THEN Range(page[n].keys) \union {k}
                                         ELSE Range(page[m].keys)
  BY <1>0, <1>4 DEF Refilled, Page
<1>6. Orders(q, root, U, lo, hi, hi, Records(q, U))
  BY <1>0, <1>4, LeafRefilled
<1> HIDE DEF q, ks
<1>7. Records(q, U) = R \union {k}
  <2>1. R = Records(page, U)
    BY DEF Orders
  <2> QED BY <1>5, <2>1 DEF Records
<1> QED BY <1>1, <1>6, <1>7

\* The first record of a table.
LEMMA FirstOrders ==
  ASSUME Bare(page, free), NEW k \in Key
  PROVE  InOrder([page EXCEPT ![Head(free)] = LeafPage(0, <<k>>, 0)], Head(free), Tail(free), {k})
<1> DEFINE n == Head(free)
           q == [page EXCEPT ![n] = LeafPage(0, <<k>>, 0)]
           zero == [m \in PageNumber |-> 0]
<1>1. Len(free) >= 1
  <2>1. free \in Seq(PageNumber) /\ Used(free) = {} /\ PageNumber # {}
    BY PageNumbers, FS_EmptySet DEF Bare
  <2>2. free # << >>
    <3>1. Range(<< >>) = {}
      BY DEF Range
    <3> QED BY <2>1, <3>1 DEF Used
  <2> QED BY <2>1, <2>2
<1>2. n \in PageNumber /\ Used(Tail(free)) = {n}
  BY <1>1, Popped DEF Bare
<1>3. q[n].leaf /\ q[n].keys = <<k>> /\ q[n].right = 0
  <2>1. page \in [PageNumber -> Page]
    BY DEF Bare
  <2> QED BY <1>2, <2>1 DEF LeafPage
<1>4. k \in Nat /\ Range(<<k>>) = {k} /\ Len(<<k>>) = 1 /\ <<k>>[1] = k
  BY BPlusTreeAssumption, Single
<1> HIDE DEF n, q
<1>5. zero[n] = 0
  BY <1>2
<1> HIDE DEF zero
<1>6. Ascends(<<k>>, 0, 0)
  BY <1>4 DEF Ascends, Sorted, Below
<1>7. At(q, n, zero, zero, zero)
  BY <1>3, <1>5, <1>6 DEF At, Below
<1>8. Follows(q, {n}, zero, zero, n)
  BY <1>3, <1>5 DEF Follows
<1>9. Records(q, {n}) = {k}
  BY <1>3, <1>4 DEF Records
<1>10. Orders(q, n, {n}, zero, zero, zero, {k})
  BY <1>5, <1>7, <1>8, <1>9 DEF Orders, Ordered, Chain
<1> QED BY <1>2, <1>10 DEF InOrder, n, q

-----------------------------------------------------------------------------
(* The climb from a split, in order.                                       *)

\* The parent of a page that was split sees the intervals of both pages as one.
Sees(c, hi) == [m \in PageNumber |-> IF m = c.left THEN hi[c.right] ELSE hi[m]]

HangsInOrder(c, lo, hi, R) ==
  /\ Orders(c.page, c.root, Used(c.free), lo, hi, Sees(c, hi), R)
  /\ hi[c.left] = c.key /\ lo[c.right] = c.key /\ lo[c.left] < c.key

ClimbsInOrder(c, R) ==
  IF c.left = 0 THEN InOrder(c.page, c.root, c.free, R)
  ELSE \E lo, hi : HangsInOrder(c, lo, hi, R)

\* The records of a leaf that has no room for one more.
LEMMA OverfullSplits ==
  ASSUME NEW g \in Page, PageOK(g), g.leaf, NEW k \in Key, g.space < Size[k]
  PROVE  WithKey(g.keys, k) \in Seq(Key) /\ SplitsEvenly(WithKey(g.keys, k))
<1>1. g.keys \in Seq(Key) /\ g.space \in Nat /\ g.space + SpaceFor(g.keys) = MAX_FREE_SPACE
  BY PageFields DEF PageOK
<1>2. WithKey(g.keys, k) \in Seq(Key) /\ SpaceFor(WithKey(g.keys, k)) = SpaceFor(g.keys) + Size[k]
  BY <1>1, WithKeyOK
<1> DEFINE a == g.space
           b == SpaceFor(g.keys)
           s == Size[k]
           M == MAX_FREE_SPACE
           keys == WithKey(g.keys, k)
<1>3. a \in Nat /\ b \in Nat /\ s \in Nat /\ a < s /\ a + b = M /\ M \in Nat
  <2>1. b \in Nat
    BY <1>1, SpaceJoined
  <2> QED BY <1>1, <2>1, SizeIsNat, Constants
<1>4. SpaceFor(keys) = b + s
  BY <1>2
<1> HIDE DEF a, b, s, keys
<1>5. b + s > M /\ b + s <= M + s
  BY <1>3
<1>6. SpaceFor(keys) > MAX_FREE_SPACE /\ SpaceFor(keys) <= MAX_FREE_SPACE + Size[k]
  BY <1>4, <1>5 DEF s
<1>7. keys \in Seq(Key)
  BY <1>2 DEF keys
<1> QED BY <1>6, <1>7, HalfAndHalf DEF keys

\* Where the records of a leaf are split: the first and the other half have intervals of
\* their own.
LEMMA SplitPlace ==
  ASSUME NEW keys \in Seq(Key), SplitsEvenly(keys), NEW l \in Nat, NEW h \in Nat,
         Ascends(keys, l, h)
  PROVE  LET s == keys[Kept(keys) + 1]
         IN /\ s \in Key /\ s \in Nat /\ l < s /\ Below(s, h)
            /\ Ascends(SubSeq(keys, 1, Kept(keys)), l, s)
            /\ Ascends(SubSeq(keys, Kept(keys) + 1, Len(keys)), s, h)
            /\ Range(keys) = Range(SubSeq(keys, 1, Kept(keys)))
                             \union Range(SubSeq(keys, Kept(keys) + 1, Len(keys)))
<1> DEFINE m == Kept(keys)
<1>1. m \in Nat /\ m + 1 \in 1 .. Len(keys)
  BY DEF SplitsEvenly
<1>2. m # 0
  <2>1. SUFFICES ASSUME m = 0 PROVE FALSE
    OBVIOUS
  <2>2. SubSeq(keys, 1, m) = << >>
    BY <2>1
  <2>3. SpaceFor(<< >>) = 0
    <3>1. PICK k : k \in Key
      BY <1>1, KeysAreNat
    <3> QED BY <3>1, SpaceSingle
  <2>4. SpaceFor(SubSeq(keys, 1, m)) = 0
    BY <2>2, <2>3
  <2>5. MAX_FREE_SPACE - SpaceFor(SubSeq(keys, 1, m)) < THRESHOLD
    BY DEF SplitsEvenly
  <2> HIDE DEF m
  <2> QED BY <2>4, <2>5, Constants
<1> HIDE DEF m
<1>3. Len(keys) \in Nat /\ \A j \in 1 .. Len(keys) : keys[j] \in Nat /\ keys[j] \in Key
  BY KeysAreNat
<1> DEFINE s == keys[m + 1]
<1>4. s \in Key /\ s \in Nat /\ Below(s, h)
  BY <1>1, <1>3 DEF Ascends
<1>5. l < s
  <2>1. 1 \in 1 .. Len(keys) /\ 1 < m + 1
    BY <1>1, <1>2, <1>3
  <2>2. l <= keys[1] /\ keys[1] < s
    BY <1>1, <2>1 DEF Ascends, Sorted
  <2>3. keys[1] \in Nat
    BY <1>3, <2>1
  <2> QED BY <1>4, <2>2, <2>3
<1>6. (m + 1) - 1 = m
  BY <1>1
<1>7. Ascends(SubSeq(keys, 1, m), l, s) /\ Ascends(SubSeq(keys, m + 1, Len(keys)), s, h)
  BY <1>1, <1>6, AscendsCut
<1>8. Range(keys) = Range(SubSeq(keys, 1, m)) \union Range(SubSeq(keys, m + 1, Len(keys)))
  <2>1. m + 1 \in 1 .. Len(keys) + 1
    BY <1>1, <1>3
  <2>2. Joins(Key, SubSeq(keys, 1, (m + 1) - 1), SubSeq(keys, m + 1, Len(keys)), keys)
    BY <2>1, CutInTwo
  <2> QED BY <1>6, <2>2 DEF Joins
<1> QED BY <1>4, <1>5, <1>7, <1>8 DEF m

\* A leaf that is split keeps the interval up to the key that separates, and the new leaf
\* takes the rest.
LEMMA SplitLeafOrders ==
  ASSUME NEW lev, Grown(lev), NEW lo, NEW hi, NEW R,
         Orders(page, root, Used(free), lo, hi, hi, R), Len(free) >= 1,
         NEW n \in Used(free), page[n].leaf, NEW k \in Key, page[n].space < Size[k],
         k \notin R, Covers(lo, hi, n, k)
  PROVE  ClimbsInOrder(SplitLeaf(n, k), R \union {k})
<1> DEFINE U == Used(free)
           new == Head(free)
           keys == WithKey(page[n].keys, k)
           m == Kept(keys)
           s == keys[m + 1]
           a == SubSeq(keys, 1, m)
           b == SubSeq(keys, m + 1, Len(keys))
           g == LeafPage(page[n].parent, a, new)
           h == LeafPage(page[n].parent, b, page[n].right)
           q == [page EXCEPT ![n] = g, ![new] = h]
           c == SplitLeaf(n, k)
           low == [x \in PageNumber |-> IF x = new THEN s ELSE lo[x]]
           high == [x \in PageNumber |-> IF x = n THEN s ELSE IF x = new THEN hi[n] ELSE hi[x]]
           see == Sees(c, high)
<1>1. Tree(page, root, free, lev, {}, {}) /\ n \in PageNumber /\ page[n] \in Page /\ PageOK(page[n])
  BY TreePage DEF Grown
<1>2. /\ page \in [PageNumber -> Page] /\ free \in Seq(PageNumber) /\ IsInjective(free)
      /\ root \in U /\ U \subseteq PageNumber
  BY <1>1 DEF Tree, Linked
<1>3. new \in PageNumber /\ new \notin U /\ Used(Tail(free)) = U \union {new}
  BY <1>2, Popped
<1>4. /\ Ordered(page, root, U, lo, hi, hi) /\ Chain(page, U, lo, hi) /\ Records(page, U) = R
      /\ At(page, n, lo, hi, hi) /\ lo[n] \in Nat /\ hi[n] \in Nat
      /\ Ascends(page[n].keys, lo[n], hi[n])
  BY DEF Orders, Ordered, At
<1>5. page[n].keys \in Seq(Key) /\ k \notin Range(page[n].keys)
  BY <1>1, <1>4, PageFields DEF Records
<1>6. Ascends(keys, lo[n], hi[n]) /\ Range(keys) = Range(page[n].keys) \union {k}
  BY <1>4, <1>5, WithKeyAscends DEF Covers
<1>7. keys \in Seq(Key) /\ SplitsEvenly(keys)
  BY <1>1, OverfullSplits
<1>8. /\ s \in Key /\ s \in Nat /\ lo[n] < s /\ Below(s, hi[n])
      /\ Ascends(a, lo[n], s) /\ Ascends(b, s, hi[n]) /\ Range(keys) = Range(a) \union Range(b)
  <2> HIDE DEF keys
  <2> QED BY <1>4, <1>6, <1>7, SplitPlace
<1> HIDE DEF new
<1>9. /\ c.page = q /\ c.root = root /\ c.free = Tail(free)
      /\ c.left = n /\ c.key = s /\ c.right = new
  <2> HIDE DEF keys, m, s, a, b, g, h
  <2> QED BY DEF SplitLeaf, Climbing, keys, m, s, a, b, g, h, new
<1> HIDE DEF c
<1>10. /\ g.leaf /\ g.keys = a /\ g.right = new
       /\ h.leaf /\ h.keys = b /\ h.right = page[n].right
  <2> HIDE DEF a, b
  <2> QED BY DEF LeafPage
<1> HIDE DEF keys, m, s, a, b, g, h
<1>11. /\ q[n] = g /\ q[new] = h /\ \A x \in U : x # n => q[x] = page[x]
       /\ \A x \in U : x # new /\ x \in PageNumber
  BY <1>1, <1>2, <1>3
<1> HIDE DEF q
<1>12. /\ low[new] = s /\ \A x \in U : low[x] = lo[x]
       /\ high[new] = hi[n] /\ high[n] = s /\ \A x \in U : x # n => high[x] = hi[x]
  BY <1>1, <1>3, <1>11
<1> HIDE DEF low, high
<1>13. see[new] = hi[n] /\ \A x \in U : see[x] = hi[x]
  BY <1>1, <1>3, <1>9, <1>11, <1>12 DEF Sees
<1> HIDE DEF see
<1>14. ASSUME NEW x \in U \union {new} PROVE At(q, x, low, high, see)
  <2>1. CASE x = n
    <3>1. low[n] = lo[n] /\ high[n] = s /\ q[n] = g
      BY <1>11, <1>12
    <3>2. Below(lo[n], s)
      BY <1>8 DEF Below
    <3> QED BY <1>4, <1>8, <1>10, <2>1, <3>1, <3>2 DEF At
  <2>2. CASE x = new
    BY <1>4, <1>8, <1>10, <1>11, <1>12, <2>2 DEF At
  <2>3. CASE x # n /\ x # new
    <3>1. x \in U /\ q[x] = page[x] /\ low[x] = lo[x] /\ high[x] = hi[x]
      BY <1>11, <1>12, <2>3
    <3>2. At(page, x, lo, hi, hi)
      BY <1>4, <3>1 DEF Ordered
    <3>3. \A j \in 1 .. Len(page[x].children) : page[x].children[j] \in U
      BY <1>1, <3>1, TreePage, PageFields, InRange
    <3>4. AtStays(page, x, lo, hi, hi, q, low, high, see)
      BY <1>12, <1>13, <3>1, <3>2, <3>3 DEF AtStays
    <3> QED BY <3>4, AtSame
  <2> QED BY <2>1, <2>2, <2>3
<1>15. ASSUME NEW x \in U \union {new}, q[x].leaf PROVE Follows(q, U \union {new}, low, high, x)
  <2>1. CASE x = n
    <3>1. q[x].right = new /\ q[new].leaf /\ high[x] = s /\ low[new] = s /\ s # 0
      BY <1>4, <1>8, <1>10, <1>11, <1>12, <2>1
    <3>2. new # 0
      BY <1>3, PageNumbers
    <3> QED BY <3>1, <3>2 DEF Follows
  <2>2. ASSUME NEW z \in U, page[z].leaf, q[x].right = page[z].right, high[x] = hi[z]
        PROVE  Follows(q, U \union {new}, low, high, x)
    <3>1. Follows(page, U, lo, hi, z)
      BY <1>4, <2>2 DEF Chain
    <3>2. CASE page[z].right = 0
      BY <2>2, <3>1, <3>2 DEF Follows
    <3>3. CASE page[z].right # 0
      <4> DEFINE y == page[z].right
      <4>1. y \in U /\ page[y].leaf /\ hi[z] # 0 /\ lo[y] = hi[z]
        BY <3>1, <3>3 DEF Follows
      <4> HIDE DEF y
      <4>2. q[y].leaf /\ low[y] = lo[y]
        BY <1>10, <1>11, <1>12, <4>1
      <4>3. q[x].right = y
        BY <2>2 DEF y
      <4>4. y # 0
        BY <3>3 DEF y
      <4> QED BY <2>2, <4>1, <4>2, <4>3, <4>4 DEF Follows
    <3> QED BY <3>2, <3>3
  <2>3. CASE x = new
    BY <1>10, <1>11, <1>12, <2>2, <2>3
  <2>4. CASE x # n /\ x # new
    <3>1. x \in U /\ q[x] = page[x] /\ high[x] = hi[x]
      BY <1>11, <1>12, <2>4
    <3> QED BY <1>15, <2>2, <3>1
  <2> QED BY <2>1, <2>3, <2>4
<1>16. Records(q, U \union {new}) = R \union {k}
  <2>1. Range(q[n].keys) \union Range(q[new].keys) = Range(page[n].keys) \union {k}
    BY <1>6, <1>8, <1>10, <1>11
  <2>2. q[n].leaf /\ q[new].leaf /\ \A x \in U : x # n => q[x] = page[x]
    BY <1>10, <1>11
  <2> HIDE DEF U
  <2>3. \A e : (\E x \in U \union {new} : q[x].leaf /\ e \in Range(q[x].keys))
               <=> e = k \/ \E x \in U : page[x].leaf /\ e \in Range(page[x].keys)
    <3> TAKE e
    <3>1. ASSUME NEW x \in U \union {new}, q[x].leaf, e \in Range(q[x].keys)
          PROVE  e = k \/ \E z \in U : page[z].leaf /\ e \in Range(page[z].keys)
      <4>1. CASE x = n \/ x = new
        <5>1. e \in Range(page[n].keys) \union {k}
          BY <2>1, <3>1, <4>1
        <5> QED BY <5>1 DEF U
      <4>2. CASE x # n /\ x # new
        <5>1. x \in U /\ q[x] = page[x]
          BY <2>2, <4>2
        <5> QED BY <3>1, <5>1
      <4> QED BY <4>1, <4>2
    <3>2. ASSUME e \in Range(page[n].keys) \union {k}
          PROVE  \E x \in U \union {new} : q[x].leaf /\ e \in Range(q[x].keys)
      <4>1. n \in U \union {new} /\ new \in U \union {new}
        BY DEF U
      <4>2. e \in Range(q[n].keys) \/ e \in Range(q[new].keys)
        BY <2>1, <3>2
      <4> QED BY <2>2, <4>1, <4>2
    <3>3. ASSUME NEW z \in U, page[z].leaf, e \in Range(page[z].keys), z # n
          PROVE  \E x \in U \union {new} : q[x].leaf /\ e \in Range(q[x].keys)
      BY <2>2, <3>3
    <3> QED BY <3>1, <3>2, <3>3
  <2> QED BY <1>4, <2>3 DEF Records
<1>17. low[root] = 0 /\ see[root] = 0
  BY <1>2, <1>4, <1>12, <1>13 DEF Ordered
<1>18. Orders(c.page, c.root, Used(c.free), low, high, Sees(c, high), R \union {k})
  BY <1>3, <1>9, <1>14, <1>15, <1>16, <1>17 DEF Orders, Ordered, Chain, see
<1>19. HangsInOrder(c, low, high, R \union {k})
  BY <1>8, <1>9, <1>12, <1>18 DEF HangsInOrder
<1>20. c.left # 0
  BY <1>1, <1>9, PageNumbers
<1> QED BY <1>19, <1>20 DEF ClimbsInOrder, c

\* The key and the page split off, among the entries of the parent.
LEMMA AdoptAscends ==
  ASSUME NEW c, NEW i, IsClimb(c), NEW lev, Hangs(c, lev, i), NEW n, Above(c, n),
         NEW lo, NEW hi, NEW R, HangsInOrder(c, lo, hi, R)
  PROVE  /\ lo[n] \in Nat /\ hi[n] \in Nat /\ Below(lo[n], hi[n])
         /\ Ascends(AdoptKeys(c, n), lo[n] + 1, hi[n])
         /\ Parts(AdoptKeys(c, n), AdoptChildren(c, n), lo[n], hi[n], lo, hi)
<1> DEFINE s == c.page[n].keys
           ch == c.page[n].children
           see == Sees(c, hi)
           j == LeftIndex(c.page, n, c.left)
           k == c.key
           y == c.right
<1>1. Adopts(c, n)
  BY AdoptHolds
<1>2. /\ s \in Seq(Key) /\ Len(s) \in Nat /\ ch \in Seq(Nat \ {0}) /\ Len(ch) = Len(s) + 1
      /\ IsInjective(ch) /\ ~c.page[n].leaf /\ n \in Used(c.free) /\ k \in Key /\ y \in Nat \ {0}
  <2>1. s \in Seq(Key) /\ ch \in Seq(Nat \ {0}) /\ Len(ch) = Len(s) + 1 /\ IsInjective(ch)
        /\ ~c.page[n].leaf /\ n \in Used(c.free)
    BY <1>1, PageFields DEF Adopts, PageOK
  <2>2. k \in Key /\ y \in Nat \ {0}
    BY PageNumbers DEF IsClimb, Hangs, Used
  <2> QED BY <2>1, <2>2, KeysAreNat
<1>3. c.left \in Range(ch)
  <2>1. c.left # c.root
    BY TreePage DEF Hangs, Above
  <2> QED BY <2>1, TreePage DEF Hangs, Above
<1>4. j \in 1 .. Len(ch) /\ ch[j] = c.left
  BY <1>2, <1>3, LeftFound
<1>5. /\ lo[n] \in Nat /\ hi[n] \in Nat /\ Below(lo[n], hi[n])
      /\ Ascends(s, lo[n] + 1, hi[n]) /\ Parts(s, ch, lo[n], hi[n], lo, see)
  BY <1>2 DEF HangsInOrder, Orders, Ordered, At
<1>6. /\ \A x \in Range(ch) : x \in PageNumber
      /\ c.left \in PageNumber /\ c.right \in PageNumber /\ hi[c.left] = k /\ lo[y] = k
      /\ lo[c.left] < k
  BY <1>2, TreePage DEF Hangs, HangsInOrder, Used
<1>7. \A x \in PageNumber : see[x] = IF x = c.left THEN hi[y] ELSE hi[x]
  BY DEF Sees
<1>8. Below(k, hi[y]) /\ hi[y] \in Nat /\ k \in Nat /\ lo[c.left] \in Nat
  <2>1. c.right \in Used(c.free) /\ c.left \in Used(c.free)
    BY DEF Hangs
  <2>2. At(c.page, y, lo, hi, see) /\ At(c.page, c.left, lo, hi, see)
    BY <2>1 DEF HangsInOrder, Orders, Ordered
  <2> QED BY <1>2, <1>6, <2>2, BPlusTreeAssumption DEF At
<1>9. PutAt(s, j, k, AdoptKeys(c, n)) /\ PutAt(ch, j + 1, y, AdoptChildren(c, n))
  <2>1. j \in 1 .. Len(s) + 1 /\ j + 1 \in 1 .. Len(ch) + 1
    <3> HIDE DEF j, s, ch
    <3> QED BY <1>2, <1>4
  <2> HIDE DEF j, s, ch
  <2>2. PutAt(s, j, k, InsertAt(s, j, k)) /\ PutAt(ch, j + 1, y, InsertAt(ch, j + 1, y))
    BY <1>2, <2>1, PutPlaces
  <2> QED BY <2>2 DEF AdoptKeys, AdoptChildren, s, ch, j
<1> HIDE DEF s, ch, see, j, k, y
<1>10. CutsChild(ch, j, k, y, lo, see, lo, hi)
  <2>1. \A x \in 1 .. Len(ch) : x # j => hi[ch[x]] = see[ch[x]]
    <3> SUFFICES ASSUME NEW x \in 1 .. Len(ch), x # j PROVE hi[ch[x]] = see[ch[x]]
      OBVIOUS
    <3>1. ch[x] # ch[j]
      BY <1>2, <1>4, Injective
    <3>2. ch[x] \in PageNumber
      BY <1>2, <1>6, InRange
    <3> QED BY <1>4, <1>7, <3>1, <3>2
  <2>2. see[ch[j]] = hi[y]
    BY <1>4, <1>6, <1>7
  <2> QED BY <1>4, <1>6, <2>1, <2>2 DEF CutsChild
<1>11. Parts(AdoptKeys(c, n), AdoptChildren(c, n), lo[n], hi[n], lo, hi)
  BY <1>2, <1>4, <1>5, <1>9, <1>10, PartsPut
<1>12. lo[c.left] = Low(s, lo[n], j) /\ hi[y] = High(s, hi[n], j)
  <2>1. lo[ch[j]] = Low(s, lo[n], j) /\ see[ch[j]] = High(s, hi[n], j)
    BY <1>4, <1>5 DEF Parts
  <2> QED BY <1>4, <1>6, <1>7, <2>1
<1>13. \A x \in 1 .. Len(s) : s[x] \in Nat /\ lo[n] + 1 <= s[x] /\ Below(s[x], hi[n])
  BY <1>2, <1>5, KeysAreNat DEF Ascends
<1>14. lo[n] + 1 <= k /\ (j > 1 => s[j - 1] < k)
  <2>1. CASE j = 1
    BY <1>5, <1>6, <1>8, <1>12, <2>1 DEF Low
  <2>2. CASE j # 1
    <3>1. j - 1 \in 1 .. Len(s)
      BY <1>2, <1>4, <2>2
    <3>2. s[j - 1] < k
      BY <1>6, <1>12, <2>2 DEF Low
    <3> QED BY <1>5, <1>8, <1>13, <3>1, <3>2
  <2> QED BY <2>1, <2>2
<1>15. Below(k, hi[n]) /\ (j <= Len(s) => k < s[j])
  <2>1. CASE j > Len(s)
    <3>1. hi[y] = hi[n]
      BY <1>12, <2>1 DEF High
    <3> QED BY <1>2, <1>4, <1>8, <2>1, <3>1
  <2>2. CASE ~(j > Len(s))
    <3>1. j \in 1 .. Len(s) /\ hi[y] = s[j]
      BY <1>2, <1>4, <1>12, <2>2 DEF High
    <3>2. s[j] # 0
      BY <1>5, <1>13, <3>1
    <3>3. k < s[j]
      BY <1>8, <3>1, <3>2 DEF Below
    <3> QED BY <1>5, <1>8, <1>13, <3>1, <3>3 DEF Below
  <2> QED BY <2>1, <2>2
<1>16. Ascends(AdoptKeys(c, n), lo[n] + 1, hi[n])
  <2>1. j \in 1 .. Len(s) + 1 /\ lo[n] + 1 \in Nat
    BY <1>2, <1>4, <1>5
  <2> QED BY <1>2, <1>5, <1>9, <1>14, <1>15, <2>1, AscendsPut
<1> QED BY <1>5, <1>11, <1>16

\* The other pages see the intervals as they are.
LEMMA OthersSee ==
  ASSUME NEW c, NEW i, IsClimb(c), NEW lev, Hangs(c, lev, i),
         NEW lo, NEW hi, NEW R, HangsInOrder(c, lo, hi, R),
         NEW m \in Used(c.free), m # c.page[c.left].parent
  PROVE  At(c.page, m, lo, hi, hi)
<1>1. At(c.page, m, lo, hi, Sees(c, hi)) /\ m \in PageNumber
  BY DEF HangsInOrder, Orders, Ordered, Used
<1>2. c.page[m].children \in Seq(Nat \ {0})
  BY <1>1, PageFields DEF IsClimb
<1>3. ASSUME NEW j \in 1 .. Len(c.page[m].children)
      PROVE  Sees(c, hi)[c.page[m].children[j]] = hi[c.page[m].children[j]]
  <2> DEFINE x == c.page[m].children[j]
  <2>1. x \in Range(c.page[m].children)
    BY <1>2, InRange
  <2>2. x \in Used(c.free) /\ c.page[x].parent = m
    BY <2>1, TreePage DEF Hangs
  <2>3. x # c.left /\ x \in PageNumber
    BY <2>2 DEF Used
  <2> QED BY <2>3 DEF Sees
<1>4. AtStays(c.page, m, lo, hi, Sees(c, hi), c.page, lo, hi, hi)
  BY <1>1, <1>3 DEF AtStays
<1> QED BY <1>4, AtSame

\* The parent takes them.
LEMMA InternalOrders ==
  ASSUME NEW c, NEW i, IsClimb(c), NEW lev, Hangs(c, lev, i), NEW n, Above(c, n),
         NEW lo, NEW hi, NEW R, HangsInOrder(c, lo, hi, R)
  PROVE  ClimbsInOrder(IntoInternal(c, n), R)
<1> DEFINE U == Used(c.free)
           g == Regrouped(c.page[n], AdoptKeys(c, n), AdoptChildren(c, n))
           q == [c.page EXCEPT ![n] = g]
           d == IntoInternal(c, n)
<1>1. n \in U /\ n \in PageNumber /\ c.page[n] \in Page /\ ~c.page[n].leaf
  BY AdoptHolds DEF Adopts
<1>2. /\ lo[n] \in Nat /\ hi[n] \in Nat /\ Below(lo[n], hi[n])
      /\ Ascends(AdoptKeys(c, n), lo[n] + 1, hi[n])
      /\ Parts(AdoptKeys(c, n), AdoptChildren(c, n), lo[n], hi[n], lo, hi)
  BY AdoptAscends
<1>3. d.page = q /\ d.left = 0 /\ d.root = c.root /\ d.free = c.free
  <2> HIDE DEF g
  <2>1. d = [c EXCEPT !.page = q, !.left = 0]
    BY InternalIs DEF g
  <2> HIDE DEF q, d
  <2> QED BY <2>1 DEF IsClimb
<1> HIDE DEF d
<1>4. g.leaf = FALSE /\ g.keys = AdoptKeys(c, n) /\ g.children = AdoptChildren(c, n)
  BY <1>1 DEF Regrouped, Page
<1> HIDE DEF g
<1>5. /\ Orders(c.page, c.root, U, lo, hi, Sees(c, hi), R)
      /\ Ordered(c.page, c.root, U, lo, hi, Sees(c, hi)) /\ Chain(c.page, U, lo, hi)
      /\ Records(c.page, U) = R
  BY DEF HangsInOrder, Orders
<1>6. q[n] = g /\ \A m \in U : m # n => q[m] = c.page[m]
  BY <1>1 DEF IsClimb, Used
<1> HIDE DEF q
<1>7. ASSUME NEW m \in U PROVE At(q, m, lo, hi, hi)
  <2>1. CASE m = n
    BY <1>2, <1>4, <1>6, <2>1 DEF At
  <2>2. CASE m # n
    <3>1. At(c.page, m, lo, hi, hi)
      BY <2>2, OthersSee DEF Above
    <3> QED BY <1>6, <2>2, <3>1 DEF At
  <2> QED BY <2>1, <2>2
<1>8. lo[c.root] = 0 /\ hi[c.root] = 0
  <2>1. c.root # c.left
    BY TreePage DEF Hangs, Above
  <2>2. c.root \in PageNumber
    BY TreePage DEF Hangs
  <2> QED BY <1>5, <2>1, <2>2 DEF Ordered, Sees
<1>9. SameLeaves(c.page, U, lo, hi, q, U, lo, hi)
  BY <1>1, <1>4, <1>6 DEF SameLeaves
<1>10. Chain(q, U, lo, hi) /\ Records(q, U) = R
  BY <1>5, <1>9, LeavesStay
<1>11. Orders(q, c.root, U, lo, hi, hi, R)
  BY <1>7, <1>8, <1>10 DEF Orders, Ordered
<1> QED BY <1>3, <1>11 DEF ClimbsInOrder, InOrder, d

\* What WithParent leaves alone.
Twin(g, h) == /\ h.leaf = g.leaf /\ h.keys = g.keys /\ h.children = g.children
              /\ h.right = g.right

LEMMA NewParentTwin ==
  ASSUME NEW p \in [PageNumber -> Page], NEW ns, NEW x, NEW n \in PageNumber
  PROVE  Twin(p[n], WithParent(p, ns, x)[n])
<1>1. WithParent(p, ns, x)[n] = IF n \in ns THEN [p[n] EXCEPT !.parent = x] ELSE p[n]
  BY DEF WithParent
<1>2. p[n] \in Page
  OBVIOUS
<1> QED BY <1>1, <1>2 DEF Twin, Page

\* The root and the page split off get a new root.
LEMMA NewRootOrders ==
  ASSUME NEW c, NEW i, IsClimb(c), NEW lev, Hangs(c, lev, i), c.page[c.left].parent = 0,
         NEW lo, NEW hi, NEW R, HangsInOrder(c, lo, hi, R)
  PROVE  ClimbsInOrder(IntoNewRoot(c), R)
<1> DEFINE U == Used(c.free)
           new == Head(c.free)
           r == c.root
           x == c.right
           w == WithParent(c.page, {c.left, x}, new)
           g == InternalPage(0, <<c.key>>, <<c.left, x>>)
           q == [w EXCEPT ![new] = g]
           d == IntoNewRoot(c)
           low == [m \in PageNumber |-> IF m = new THEN 0 ELSE lo[m]]
           high == [m \in PageNumber |-> IF m = new THEN 0 ELSE hi[m]]
<1>1. /\ c.page \in [PageNumber -> Page] /\ c.free \in Seq(PageNumber) /\ IsInjective(c.free)
      /\ U \subseteq PageNumber /\ c.key \in Key
      /\ r \in U /\ x \in U /\ c.left = r /\ r # x
  <2>1. c.left = r /\ r # x
    BY TreePage DEF Hangs
  <2> QED BY <2>1 DEF Hangs, Tree, Linked, IsClimb
<1>2. Len(c.free) >= 1
  <2>1. lev[r] \in Nat
    BY <1>1 DEF Hangs, Tree, Linked
  <2>2. Len(c.free) >= (lev[r] - i) + 1 /\ lev[r] = i
    BY <1>1 DEF Hangs
  <2> QED BY <1>1, <2>1, <2>2
<1>3. new \in PageNumber /\ new \notin U /\ Used(Tail(c.free)) = U \union {new}
  BY <1>1, <1>2, Popped
<1> HIDE DEF new
<1>4. /\ Ordered(c.page, r, U, lo, hi, Sees(c, hi)) /\ Chain(c.page, U, lo, hi)
      /\ Records(c.page, U) = R /\ hi[r] = c.key /\ lo[x] = c.key /\ lo[r] < c.key
  BY <1>1 DEF HangsInOrder, Orders
<1>5. lo[r] = 0 /\ hi[x] = 0 /\ c.key \in Nat /\ c.key >= 1
  <2>1. lo[r] = 0 /\ Sees(c, hi)[r] = 0
    BY <1>4 DEF Ordered
  <2>2. Sees(c, hi)[r] = hi[x]
    BY <1>1 DEF Sees
  <2>3. c.key \in Nat
    BY <1>1, BPlusTreeAssumption
  <2> QED BY <1>4, <2>1, <2>2, <2>3
<1>6. d.page = q /\ d.left = 0 /\ d.root = new /\ d.free = Tail(c.free)
  <2>1. d = [c EXCEPT !.page = q, !.root = new, !.free = Tail(c.free), !.left = 0]
    BY DEF IntoNewRoot, new
  <2> HIDE DEF q, d
  <2> QED BY <2>1 DEF IsClimb
<1> HIDE DEF d
<1>7. \A m \in U : m # new /\ m \in PageNumber /\ q[m] = w[m] /\ Twin(c.page[m], w[m])
  BY <1>1, <1>3, NewParentTwin DEF WithParent
<1>8. q[new] = g
  BY <1>1, <1>3 DEF WithParent
<1>9. g.leaf = FALSE /\ g.keys = <<c.key>> /\ g.children = <<c.left, x>>
  BY DEF InternalPage
<1> HIDE DEF w, g, q
<1>10. /\ low[new] = 0 /\ high[new] = 0 /\ \A m \in U : low[m] = lo[m] /\ high[m] = hi[m]
  BY <1>1, <1>3
<1> HIDE DEF low, high
<1>11. At(q, new, low, high, high)
  <2> DEFINE s == <<c.key>>
             e == <<c.left, x>>
  <2>1. Len(s) = 1 /\ s[1] = c.key /\ Len(e) = 2 /\ e[1] = r /\ e[2] = x
    BY <1>1
  <2> HIDE DEF s, e
  <2>2. Ascends(s, 0 + 1, 0)
    BY <1>5, <2>1 DEF Ascends, Sorted, Below
  <2>3. Parts(s, e, 0, 0, low, high)
    <3>1. ASSUME NEW j \in 1 .. Len(e) PROVE low[e[j]] = Low(s, 0, j) /\ high[e[j]] = High(s, 0, j)
      <4>1. j = 1 \/ j = 2
        BY <2>1
      <4>2. CASE j = 1
        BY <1>1, <1>4, <1>5, <1>10, <2>1, <4>2 DEF Low, High
      <4>3. CASE j = 2
        BY <1>1, <1>4, <1>5, <1>10, <2>1, <4>3 DEF Low, High
      <4> QED BY <4>1, <4>2, <4>3
    <3> QED BY <3>1 DEF Parts
  <2> QED BY <1>8, <1>9, <1>10, <2>2, <2>3 DEF At, Below, s, e
<1>12. ASSUME NEW m \in U PROVE At(q, m, low, high, high)
  <2>1. m # c.page[c.left].parent
    BY <1>1, PageNumbers
  <2>2. At(c.page, m, lo, hi, hi)
    BY <2>1, OthersSee
  <2>3. \A j \in 1 .. Len(c.page[m].children) : c.page[m].children[j] \in U
    <3>1. c.page[m] \in Page
      BY <1>1
    <3> QED BY <3>1, TreePage, PageFields, InRange, SMTT(30) DEF Hangs
  <2>4. AtStays(c.page, m, lo, hi, hi, q, low, high, high)
    BY <1>7, <1>10, <2>2, <2>3 DEF AtStays, Twin
  <2> QED BY <2>4, AtSame
<1>13. SameLeaves(c.page, U, lo, hi, q, U \union {new}, low, high)
  BY <1>7, <1>8, <1>9, <1>10 DEF SameLeaves, Twin
<1>14. Chain(q, U \union {new}, low, high) /\ Records(q, U \union {new}) = R
  BY <1>4, <1>13, LeavesStay
<1>15. Orders(q, new, U \union {new}, low, high, high, R)
  BY <1>10, <1>11, <1>12, <1>14 DEF Orders, Ordered
<1> QED BY <1>3, <1>6, <1>15 DEF ClimbsInOrder, InOrder, d

\* The two halves of the parent that has no room, with the intervals they get.
HalvesAscend(c, n, lo, hi) ==
  LET s == AdoptKeys(c, n)[Split]
  IN /\ s \in Nat /\ lo[n] < s /\ Below(s, hi[n])
     /\ Ascends(StayKeys(c, n), lo[n] + 1, s) /\ Ascends(GoKeys(c, n), s + 1, hi[n])
     /\ Parts(StayKeys(c, n), StayChildren(c, n), lo[n], s, lo, hi)
     /\ Parts(GoKeys(c, n), GoChildren(c, n), s, hi[n], lo, hi)

LEMMA HalvesInOrder ==
  ASSUME NEW c, NEW i, IsClimb(c), NEW lev, Hangs(c, lev, i), NEW n, Above(c, n),
         ~HasRoom(c.page[n]), NEW lo, NEW hi, NEW R, HangsInOrder(c, lo, hi, R)
  PROVE  HalvesAscend(c, n, lo, hi)
<1> DEFINE t == AdoptKeys(c, n)
           d == AdoptChildren(c, n)
<1>1. Adopts(c, n) /\ Halves(c, n)
  BY AdoptHolds, HalvesHold
<1>2. /\ lo[n] \in Nat /\ hi[n] \in Nat
      /\ Ascends(t, lo[n] + 1, hi[n]) /\ Parts(t, d, lo[n], hi[n], lo, hi)
  BY AdoptAscends
<1>3. t \in Seq(Key) /\ d \in Seq(Nat \ {0}) /\ Len(d) = Len(t) + 1 /\ Len(t) \in Nat
      /\ Split \in 1 .. Len(t)
  <2>1. t \in Seq(Key) /\ d \in Seq(Nat \ {0}) /\ Len(c.page[n].keys) \in Nat
        /\ Len(t) = Len(c.page[n].keys) + 1 /\ Len(d) = Len(c.page[n].keys) + 2
        /\ Len(c.page[n].keys) >= MAX_KEY_NUMBER
    BY <1>1, Constants DEF Adopts, HasRoom
  <2> QED BY <2>1, Constants DEF Split
<1> HIDE DEF t, d
<1>4. t[Split] \in Nat /\ lo[n] + 1 <= t[Split] /\ Below(t[Split], hi[n])
  BY <1>2, <1>3, KeysAreNat DEF Ascends
<1>5. lo[n] < t[Split]
  BY <1>2, <1>4
<1>6. /\ Ascends(SubSeq(t, 1, Split - 1), lo[n] + 1, t[Split])
      /\ Ascends(SubSeq(t, Split + 1, Len(t)), t[Split] + 1, hi[n])
  BY <1>2, <1>3, AscendsCut
<1>7. /\ Parts(SubSeq(t, 1, Split - 1), SubSeq(d, 1, Split), lo[n], t[Split], lo, hi)
      /\ Parts(SubSeq(t, Split + 1, Len(t)), SubSeq(d, Split + 1, Len(d)), t[Split], hi[n], lo, hi)
  BY <1>2, <1>3, PartsCut
<1> QED BY <1>4, <1>5, <1>6, <1>7
        DEF HalvesAscend, StayKeys, GoKeys, StayChildren, GoChildren, t, d

\* It splits in its turn, and the key in the middle separates the two.
LEMMA SplitOrders ==
  ASSUME NEW c, NEW i, IsClimb(c), NEW lev, Hangs(c, lev, i), NEW n, Above(c, n),
         ~HasRoom(c.page[n]), NEW lo, NEW hi, NEW R, HangsInOrder(c, lo, hi, R)
  PROVE  ClimbsInOrder(SplitInternal(c, n), R)
<1> DEFINE U == Used(c.free)
           new == Head(c.free)
           s == AdoptKeys(c, n)[Split]
           g == Regrouped(c.page[n], StayKeys(c, n), StayChildren(c, n))
           h == InternalPage(c.page[n].parent, GoKeys(c, n), GoChildren(c, n))
           q == WithParent(SplitPages(c, n), Range(GoChildren(c, n)), new)
           d == SplitInternal(c, n)
           low == [m \in PageNumber |-> IF m = new THEN s ELSE lo[m]]
           high == [m \in PageNumber |-> IF m = n THEN s ELSE IF m = new THEN hi[n] ELSE hi[m]]
           see == Sees(d, high)
<1>1. /\ c.page \in [PageNumber -> Page] /\ c.free \in Seq(PageNumber) /\ IsInjective(c.free)
      /\ U \subseteq PageNumber /\ c.root \in U
  BY DEF Hangs, Tree, Linked, IsClimb
<1>2. /\ Adopts(c, n) /\ lev[n] = i + 1 /\ n \in U /\ n \in PageNumber
      /\ ~c.page[n].leaf /\ c.page[n] \in Page
  BY AdoptHolds, SMTT(30) DEF Adopts
<1>3. Len(c.free) >= 1
  <2>1. lev[n] \in Nat /\ lev[c.root] \in Nat /\ lev[n] <= lev[c.root]
    BY <1>1, <1>2 DEF Hangs, Tree, Linked
  <2>2. Len(c.free) >= (lev[c.root] - i) + 1 /\ i \in Nat
    <3>1. c.left \in U /\ lev[c.left] = i
      BY DEF Hangs
    <3> QED BY <3>1 DEF Hangs, Tree, Linked
  <2> QED BY <1>1, <1>2, <2>1, <2>2
<1>4. new \in PageNumber /\ new \notin U /\ Used(Tail(c.free)) = U \union {new}
  BY <1>1, <1>3, Popped
<1>5. HalvesAscend(c, n, lo, hi) /\ lo[n] \in Nat /\ hi[n] \in Nat /\ Below(lo[n], hi[n])
  BY HalvesInOrder, AdoptAscends
<1>6. /\ Ordered(c.page, c.root, U, lo, hi, Sees(c, hi)) /\ Chain(c.page, U, lo, hi)
      /\ Records(c.page, U) = R
  BY DEF HangsInOrder, Orders
<1>7. /\ d.page = q /\ d.left = n /\ d.root = c.root /\ d.free = Tail(c.free)
      /\ d.key = s /\ d.right = new
  <2>1. d = [c EXCEPT !.page = q, !.free = Tail(c.free), !.left = n, !.key = s, !.right = new]
    BY SplitIs
  <2> HIDE DEF q, d, s, new
  <2> QED BY <2>1 DEF IsClimb
<1> HIDE DEF d
<1>8. /\ g.leaf = FALSE /\ g.keys = StayKeys(c, n) /\ g.children = StayChildren(c, n)
      /\ h.leaf = FALSE /\ h.keys = GoKeys(c, n) /\ h.children = GoChildren(c, n)
  <2> DEFINE a == StayKeys(c, n)
             b == StayChildren(c, n)
             e == GoKeys(c, n)
             f == GoChildren(c, n)
  <2> HIDE DEF a, b, e, f
  <2>1. /\ Regrouped(c.page[n], a, b).leaf = FALSE /\ Regrouped(c.page[n], a, b).keys = a
        /\ Regrouped(c.page[n], a, b).children = b
    BY <1>2 DEF Regrouped, Page
  <2>2. LET y == InternalPage(c.page[n].parent, e, f)
        IN y.leaf = FALSE /\ y.keys = e /\ y.children = f
    BY DEF InternalPage
  <2> QED BY <2>1, <2>2 DEF a, b, e, f
<1>9. /\ SplitPages(c, n)[n] = g /\ SplitPages(c, n)[new] = h
      /\ \A m \in U : m # n => SplitPages(c, n)[m] = c.page[m]
      /\ DOMAIN SplitPages(c, n) = PageNumber
  <2> HIDE DEF new, g, h
  <2>1. SplitPages(c, n) = [c.page EXCEPT ![n] = g, ![new] = h]
    BY DEF SplitPages, g, h, new
  <2> QED BY <1>1, <1>2, <1>4, <2>1
<1> HIDE DEF g, h, new
<1>10. \A m \in PageNumber : /\ q[m].leaf = SplitPages(c, n)[m].leaf
                             /\ q[m].keys = SplitPages(c, n)[m].keys
                             /\ q[m].children = SplitPages(c, n)[m].children
                             /\ m # n /\ m # new /\ m \in U => q[m].right = c.page[m].right
  <2> SUFFICES ASSUME NEW m \in PageNumber
               PROVE  /\ q[m].leaf = SplitPages(c, n)[m].leaf
                      /\ q[m].keys = SplitPages(c, n)[m].keys
                      /\ q[m].children = SplitPages(c, n)[m].children
                      /\ m # n /\ m # new /\ m \in U => q[m].right = c.page[m].right
    OBVIOUS
  <2> DEFINE p == SplitPages(c, n)
             K == Range(GoChildren(c, n))
  <2>1. q[m] = IF m \in K THEN [p[m] EXCEPT !.parent = new] ELSE p[m]
    BY <1>9 DEF WithParent
  <2> HIDE DEF p, K, q
  <2>2. [p[m] EXCEPT !.parent = new].leaf = p[m].leaf /\ [p[m] EXCEPT !.parent = new].keys = p[m].keys
        /\ [p[m] EXCEPT !.parent = new].children = p[m].children
        /\ [p[m] EXCEPT !.parent = new].right = p[m].right
    OBVIOUS
  <2>3. m # n /\ m \in U => p[m] = c.page[m]
    BY <1>9 DEF p
  <2> QED BY <2>1, <2>2, <2>3 DEF p
<1>11. /\ q[n].leaf = FALSE /\ q[n].keys = StayKeys(c, n) /\ q[n].children = StayChildren(c, n)
       /\ q[new].leaf = FALSE /\ q[new].keys = GoKeys(c, n) /\ q[new].children = GoChildren(c, n)
       /\ \A m \in U : m # n => Twin(c.page[m], q[m])
       /\ \A m \in U : m # new /\ m \in PageNumber
  <2>1. \A m \in U : m # new /\ m \in PageNumber
    BY <1>1, <1>4
  <2> HIDE DEF q
  <2> QED BY <1>2, <1>4, <1>8, <1>9, <1>10, <2>1 DEF Twin
<1> HIDE DEF q, s
<1>12. /\ low[new] = s /\ \A x \in U : low[x] = lo[x]
       /\ high[new] = hi[n] /\ high[n] = s /\ \A x \in U : x # n => high[x] = hi[x]
  BY <1>2, <1>4, <1>11
<1> HIDE DEF low, high
<1>13. see[new] = hi[n] /\ \A x \in U : see[x] = hi[x]
  BY <1>2, <1>4, <1>7, <1>11, <1>12 DEF Sees
<1> HIDE DEF see
<1>14. /\ s \in Nat /\ lo[n] < s /\ Below(s, hi[n])
       /\ Ascends(StayKeys(c, n), lo[n] + 1, s) /\ Ascends(GoKeys(c, n), s + 1, hi[n])
       /\ Parts(StayKeys(c, n), StayChildren(c, n), lo[n], s, lo, hi)
       /\ Parts(GoKeys(c, n), GoChildren(c, n), s, hi[n], lo, hi)
  BY <1>5 DEF HalvesAscend, s
<1>15. \A x \in Range(StayChildren(c, n)) \union Range(GoChildren(c, n)) : x \in U
  <2>1. Range(StayChildren(c, n)) \union Range(GoChildren(c, n))
          = Range(c.page[n].children) \union {c.right}
    BY <1>2, HalvesHold DEF Halves
  <2>2. c.right \in U /\ \A x \in Range(c.page[n].children) : x \in U
    BY <1>2, TreePage DEF Hangs
  <2> QED BY <2>1, <2>2
<1>16. /\ \A j \in 1 .. Len(StayChildren(c, n)) : StayChildren(c, n)[j] \in U
       /\ \A j \in 1 .. Len(GoChildren(c, n)) : GoChildren(c, n)[j] \in U
  <2>1. StayChildren(c, n) \in Seq(Nat \ {0}) /\ GoChildren(c, n) \in Seq(Nat \ {0})
    BY <1>2, HalvesHold DEF Halves
  <2> QED BY <1>15, <2>1, InRange
<1>17. /\ Parts(StayKeys(c, n), StayChildren(c, n), lo[n], s, low, see)
       /\ Parts(GoKeys(c, n), GoChildren(c, n), s, hi[n], low, see)
  BY <1>12, <1>13, <1>14, <1>16, PartsSame
<1>18. At(q, n, low, high, see)
  <2>1. Below(lo[n], s) /\ low[n] = lo[n] /\ high[n] = s
    BY <1>2, <1>12, <1>14 DEF Below
  <2> QED BY <1>5, <1>11, <1>14, <1>17, <2>1 DEF At
<1>19. At(q, new, low, high, see)
  BY <1>5, <1>11, <1>12, <1>14, <1>17 DEF At
<1>20. ASSUME NEW m \in U, m # n PROVE At(q, m, low, high, see)
  <2>1. At(c.page, m, lo, hi, hi)
    BY <1>20, OthersSee DEF Above
  <2>2. \A j \in 1 .. Len(c.page[m].children) : c.page[m].children[j] \in U
    <3>1. c.page[m] \in Page
      BY <1>1
    <3> QED BY <3>1, TreePage, PageFields, InRange, SMTT(30) DEF Hangs
  <2>3. AtStays(c.page, m, lo, hi, hi, q, low, high, see)
    BY <1>11, <1>12, <1>13, <1>20, <2>1, <2>2 DEF AtStays, Twin
  <2> QED BY <2>3, AtSame
<1>21. SameLeaves(c.page, U, lo, hi, q, U \union {new}, low, high)
  BY <1>2, <1>11, <1>12 DEF SameLeaves, Twin
<1>22. Chain(q, U \union {new}, low, high) /\ Records(q, U \union {new}) = R
  BY <1>6, <1>21, LeavesStay
<1>23. low[c.root] = 0 /\ see[c.root] = 0
  <2>1. c.root # c.left
    BY TreePage DEF Hangs, Above
  <2>2. c.root \in PageNumber /\ lo[c.root] = 0 /\ Sees(c, hi)[c.root] = 0
    BY <1>1, <1>6 DEF Ordered
  <2>3. hi[c.root] = 0
    BY <2>1, <2>2 DEF Sees
  <2> QED BY <1>1, <1>12, <1>13, <2>2, <2>3
<1>24. Orders(q, c.root, U \union {new}, low, high, see, R)
  BY <1>18, <1>19, <1>20, <1>22, <1>23 DEF Orders, Ordered
<1>25. HangsInOrder(d, low, high, R)
  BY <1>2, <1>4, <1>7, <1>12, <1>14, <1>24 DEF HangsInOrder, see
<1>26. d.left # 0
  BY <1>2, <1>7, PageNumbers
<1> QED BY <1>25, <1>26 DEF ClimbsInOrder, d

\* A step of the climb keeps the order.
LEMMA ParentOrders ==
  ASSUME NEW c, NEW i \in Nat, Climbs(c, i), c.left # 0, NEW R, ClimbsInOrder(c, R)
  PROVE  ClimbsInOrder(IntoParent(c), R)
<1> DEFINE n == c.page[c.left].parent
<1>1. IsClimb(c)
  BY DEF Climbs
<1>2. PICK lev : Hangs(c, lev, i)
  BY DEF Climbs
<1>3. PICK lo, hi : HangsInOrder(c, lo, hi, R)
  BY DEF ClimbsInOrder
<1>4. CASE n = 0
  <2>1. IntoParent(c) = IntoNewRoot(c)
    BY <1>4 DEF IntoParent
  <2> QED BY <1>1, <1>2, <1>3, <1>4, <2>1, NewRootOrders
<1>5. CASE n # 0 /\ HasRoom(c.page[n])
  <2>1. IntoParent(c) = IntoInternal(c, n) /\ Above(c, n)
    BY <1>5 DEF IntoParent, Above
  <2> HIDE DEF n
  <2> QED BY <1>1, <1>2, <1>3, <2>1, InternalOrders
<1>6. CASE n # 0 /\ ~HasRoom(c.page[n])
  <2>1. IntoParent(c) = SplitInternal(c, n) /\ Above(c, n)
    BY <1>6 DEF IntoParent, Above
  <2> HIDE DEF n
  <2> QED BY <1>1, <1>2, <1>3, <1>6, <2>1, SplitOrders
<1> QED BY <1>4, <1>5, <1>6

LEMMA ClimbOrders ==
  ASSUME NEW c, Climbs(c, 0), NEW R, ClimbsInOrder(c, R)
  PROVE  InOrder(Climb(c).page, Climb(c).root, Climb(c).free, R)
<1> DEFINE N == P_NUMBER - 1
<1>1. N \in Nat
  BY PageNumbers
<1>2. PICK w : /\ w[0] = c /\ \A i \in 1 .. N : w[i] = ClimbStep(w[i - 1])
               /\ Climb(c) = w[N]
  BY ClimbSteps
<1> HIDE DEF N
<1> DEFINE Good == {i \in Nat : i <= N => Climbs(w[i], i) /\ ClimbsInOrder(w[i], R)}
<1>3. 0 \in Good
  BY <1>2
<1>4. ASSUME NEW i \in Nat, i \in Good PROVE i + 1 \in Good
  <2> SUFFICES ASSUME i + 1 <= N PROVE Climbs(w[i + 1], i + 1) /\ ClimbsInOrder(w[i + 1], R)
    OBVIOUS
  <2>1. Climbs(w[i], i) /\ ClimbsInOrder(w[i], R)
    BY <1>1, <1>4
  <2>2. w[i + 1] = ClimbStep(w[i])
    <3>1. i + 1 \in 1 .. N /\ (i + 1) - 1 = i
      BY <1>1
    <3> QED BY <1>2, <3>1
  <2>3. CASE w[i].left = 0
    BY <2>1, <2>2, <2>3 DEF ClimbStep, Climbs
  <2>4. CASE w[i].left # 0
    <3>1. w[i + 1] = IntoParent(w[i])
      BY <2>2, <2>4 DEF ClimbStep
    <3> QED BY <2>1, <2>4, <3>1, ParentHolds, ParentOrders
  <2> QED BY <2>3, <2>4
<1> HIDE DEF Good
<1>5. N \in Good
  BY <1>1, <1>3, <1>4, Counting
<1>6. Climbs(Climb(c), N) /\ ClimbsInOrder(Climb(c), R)
  BY <1>1, <1>2, <1>5 DEF Good
<1>7. Climb(c).left = 0
  <2> SUFFICES ASSUME Climb(c).left # 0 PROVE FALSE
    OBVIOUS
  <2> DEFINE e == Climb(c)
  <2>1. PICK lev : Hangs(e, lev, N)
    BY <1>6 DEF Climbs
  <2>2. lev[e.left] = N /\ lev[e.left] <= lev[e.root] /\ lev[e.root] + 1 <= N
    BY <2>1 DEF Hangs, N
  <2>3. lev[e.root] \in Nat
    BY <2>1 DEF Hangs, Tree, Linked
  <2> HIDE DEF e
  <2> QED BY <1>1, <2>2, <2>3
<1> QED BY <1>6, <1>7 DEF ClimbsInOrder

-----------------------------------------------------------------------------
(* Insertion.                                                              *)

\* The index holds the records R in order.
Holding(p, r, fr, R) == IF r = 0 THEN R = {} ELSE InOrder(p, r, fr, R)

LEMMA HeldOnce ==
  ASSUME NEW p, NEW r, NEW fr, NEW R, NEW S, Holding(p, r, fr, R), Holding(p, r, fr, S)
  PROVE  R = S /\ R \subseteq Key
<1>1. InOrder(p, r, fr, R) => R = Records(p, Used(fr))
  BY DEF InOrder, Orders
<1>2. InOrder(p, r, fr, S) => S = Records(p, Used(fr))
  BY DEF InOrder, Orders
<1>3. Records(p, Used(fr)) \subseteq Key
  BY DEF Records
<1> QED BY <1>1, <1>2, <1>3 DEF Holding

\* What db_find finds is what the index holds.
LEMMA StoredIs ==
  ASSUME KeysFit, Whole(page, root, free), NEW R, Holding(page, root, free, R)
  PROVE  Stored = R
<1>1. CASE root = 0
  BY <1>1 DEF Holding, Stored, Found
<1>2. CASE root # 0
  <2>1. PICK lev : Tree(page, root, free, lev, {}, {})
    BY <1>2 DEF Whole
  <2>2. PICK lo, hi : Orders(page, root, Used(free), lo, hi, hi, R)
    BY <1>2 DEF Holding, InOrder
  <2>3. \A k \in Key : Found(k) <=> k \in R
    BY <1>2, <2>1, <2>2, FoundIs DEF Grown
  <2>4. R \subseteq Key
    BY HeldOnce
  <2> QED BY <2>3, <2>4 DEF Stored
<1> QED BY <1>1, <1>2

\* db_insert adds the record, if the key is new.
LEMMA InsertOrders ==
  ASSUME KeysFit, Whole(page, root, free), NEW R, Holding(page, root, free, R),
         NEW k \in Key, Insert(k)
  PROVE  \/ UNCHANGED vars
         \/ k \notin R /\ Holding(page', root', free', R \union {k})
<1>1. CASE InsertFirst(k)
  <2>1. Bare(page, free) /\ R = {} /\ free # << >>
    <3>1. Bare(page, free) /\ R = {}
      BY <1>1 DEF InsertFirst, Whole, Holding
    <3>2. free # << >>
      <4>1. Range(<< >>) = {}
        BY DEF Range
      <4>2. PageNumber # {}
        BY PageNumbers, FS_EmptySet
      <4> QED BY <3>1, <4>1, <4>2 DEF Bare, Used
    <3> QED BY <3>1, <3>2
  <2> DEFINE p == [page EXCEPT ![Head(free)] = LeafPage(0, <<k>>, 0)]
  <2>2. InOrder(p, Head(free), Tail(free), {k})
    BY <2>1, FirstOrders
  <2>3. Head(free) # 0
    <3>1. free \in Seq(PageNumber)
      BY <2>1 DEF Bare
    <3>2. Head(free) \in PageNumber
      BY <2>1, <3>1
    <3> QED BY <3>2, PageNumbers
  <2>4. page' = p /\ root' = Head(free) /\ free' = Tail(free)
    BY <1>1 DEF InsertFirst
  <2> HIDE DEF p
  <2> QED BY <2>1, <2>2, <2>3, <2>4 DEF Holding
<1>2. CASE InsertPresent(k)
  BY <1>2 DEF InsertPresent
<1>3. ASSUME root # 0, ~Found(k)
      PROVE  /\ FindLeaf(k) \in Used(free) /\ page[FindLeaf(k)].leaf /\ k \notin R
             /\ \E lev : Grown(lev) /\ Depth[FindLeaf(k)] = lev[root]
             /\ \E lo, hi : /\ Orders(page, root, Used(free), lo, hi, hi, R)
                            /\ Covers(lo, hi, FindLeaf(k), k)
  <2>1. PICK lev : Tree(page, root, free, lev, {}, {})
    BY <1>3 DEF Whole
  <2>2. Grown(lev)
    BY <2>1 DEF Grown
  <2>3. PICK lo, hi : Orders(page, root, Used(free), lo, hi, hi, R)
    BY <1>3 DEF Holding, InOrder
  <2>4. FindLeaf(k) \in Used(free) /\ page[FindLeaf(k)].leaf /\ Covers(lo, hi, FindLeaf(k), k)
    BY <2>2, <2>3, FindsInterval DEF Orders
  <2>5. k \notin R
    BY <1>3, <2>2, <2>3, FoundIs
  <2>6. lev[FindLeaf(k)] = 0
    BY <2>1, <2>4, TreePage
  <2>7. Depth[FindLeaf(k)] = lev[root] - lev[FindLeaf(k)]
    BY <2>2, <2>4, UsedIsInUse, Depths
  <2>8. lev[root] \in Nat
    BY <2>1 DEF Tree, Linked
  <2>9. Depth[FindLeaf(k)] = lev[root]
    BY <2>6, <2>7, <2>8
  <2> QED BY <2>2, <2>3, <2>4, <2>5, <2>9
<1>4. CASE InsertIntoLeaf(k)
  <2> DEFINE n == FindLeaf(k)
  <2>1. /\ root # 0 /\ ~Found(k) /\ page' = IntoLeaf(n, k) /\ root' = root /\ free' = free
    BY <1>4 DEF InsertIntoLeaf
  <2>2. /\ n \in Used(free) /\ page[n].leaf /\ k \notin R
        /\ \E lo, hi : Orders(page, root, Used(free), lo, hi, hi, R) /\ Covers(lo, hi, n, k)
    BY <1>3, <2>1
  <2> HIDE DEF n
  <2>3. PICK lo, hi : Orders(page, root, Used(free), lo, hi, hi, R) /\ Covers(lo, hi, n, k)
    BY <2>2
  <2>4. page \in [PageNumber -> Page]
    BY <2>1 DEF Whole, Tree
  <2>5. Orders(IntoLeaf(n, k), root, Used(free), lo, hi, hi, R \union {k})
    BY <2>2, <2>3, <2>4, IntoLeafOrders
  <2> QED BY <2>1, <2>2, <2>5 DEF Holding, InOrder
<1>5. CASE InsertSplitting(k)
  <2> DEFINE n == FindLeaf(k)
             c == Climb(SplitLeaf(n, k))
  <2>1. /\ root # 0 /\ ~Found(k) /\ page[n].space < Size[k] /\ EnoughPages(n)
        /\ page' = c.page /\ root' = c.root /\ free' = c.free
    BY <1>5 DEF InsertSplitting
  <2>2. /\ n \in Used(free) /\ page[n].leaf /\ k \notin R
        /\ \E lev : Grown(lev) /\ Depth[n] = lev[root]
        /\ \E lo, hi : Orders(page, root, Used(free), lo, hi, hi, R) /\ Covers(lo, hi, n, k)
    BY <1>3, <2>1
  <2> HIDE DEF n
  <2>3. PICK lev : Grown(lev) /\ Depth[n] = lev[root]
    BY <2>2
  <2>4. PICK lo, hi : Orders(page, root, Used(free), lo, hi, hi, R) /\ Covers(lo, hi, n, k)
    BY <2>2
  <2>5. Len(free) >= lev[root] + 2 /\ lev[root] \in Nat /\ Len(free) \in Nat
    BY <2>1, <2>3 DEF EnoughPages, Grown, Tree, Linked
  <2>6. Climbs(SplitLeaf(n, k), 0)
    BY <2>1, <2>2, <2>3, <2>5, SplitLeafHolds
  <2>7. ClimbsInOrder(SplitLeaf(n, k), R \union {k})
    <3>1. Len(free) >= 1
      BY <2>5
    <3> QED BY <2>1, <2>2, <2>3, <2>4, <3>1, SplitLeafOrders
  <2>8. InOrder(c.page, c.root, c.free, R \union {k})
    BY <2>6, <2>7, ClimbOrders
  <2>9. c.root # 0
    <3>1. PICK lew : Tree(c.page, c.root, c.free, lew, {}, {})
      BY <2>6, ClimbHolds
    <3> HIDE DEF c
    <3> QED BY <3>1, TreeIsWhole
  <2> HIDE DEF c
  <2> QED BY <2>1, <2>2, <2>8, <2>9 DEF Holding
<1> QED BY <1>1, <1>2, <1>4, <1>5 DEF Insert

-----------------------------------------------------------------------------
(* The climb of a deletion, in order.                                      *)

\* The tree is in order when the entry has been removed, or at the end.
DueInOrder(c, R) ==
  \/ Hurt(c)
  \/ IF c.n = 0 THEN Holding(c.page, c.root, c.free, R)
     ELSE LET d == RemoveEntry(c)
          IN Hurt(d) \/ InOrder(d.page, d.root, d.free, R)

\* A key is taken out of a page.
LEMMA WithoutKeyIs ==
  ASSUME NEW q \in Seq(Key), Sorted(q), NEW i \in 1 .. Len(q)
  PROVE  WithoutKey(q, q[i]) = RemoveAt(q, i)
<1>1. DOMAIN q = 1 .. Len(q)
  OBVIOUS
<1>2. \A j \in DOMAIN q : q[j] = q[i] => j = i
  BY <1>1, SortedIsInjective
<1>3. (CHOOSE j \in DOMAIN q : q[j] = q[i]) = i
  BY <1>1, <1>2
<1> QED BY <1>3 DEF WithoutKey

LEMMA WithoutKeyAscends ==
  ASSUME NEW q \in Seq(Key), NEW l, NEW h, Ascends(q, l, h), NEW k \in Range(q)
  PROVE  Ascends(WithoutKey(q, k), l, h) /\ Range(WithoutKey(q, k)) = Range(q) \ {k}
<1>1. Sorted(q)
  BY DEF Ascends
<1>2. PICK i \in 1 .. Len(q) : q[i] = k
  BY InRange
<1>3. WithoutKey(q, k) = RemoveAt(q, i)
  BY <1>1, <1>2, WithoutKeyIs
<1>4. Ascends(RemoveAt(q, i), l, h)
  BY TakenPlaces, AscendsTaken
<1>5. Range(RemoveAt(q, i)) = Range(q) \ {k}
  BY <1>1, <1>2, SortedIsInjective, TakenOut DEF Loses
<1> QED BY <1>3, <1>4, <1>5

\* The record is gone from its leaf.
LEMMA StartOrders ==
  ASSUME NEW lev, Grown(lev), NEW lo, NEW hi, NEW R, Orders(page, root, Used(free), lo, hi, hi, R),
         NEW k \in Key, Found(k)
  PROVE  DueInOrder(Deleting(k), R \ {k})
<1> DEFINE n == FindLeaf(k)
           U == Used(free)
           ks == WithoutKey(page[n].keys, k)
           q == [page EXCEPT ![n] = Refilled(page[n], ks, page[n].space + Size[k])]
           c == Deleting(k)
           d == RemoveEntry(c)
<1>1. n \in U /\ page[n].leaf /\ k \in Range(page[n].keys)
  BY FindsLeaf, UsedIsInUse DEF Found
<1> HIDE DEF n
<1>2. /\ Tree(page, root, free, lev, {}, {}) /\ n \in PageNumber /\ page[n] \in Page
      /\ page \in [PageNumber -> Page] /\ U \in SUBSET PageNumber /\ n # 0
  BY <1>1, TreePage, PageNumbers DEF Grown, Tree, Used
<1>3. /\ c.n = n /\ c.page = page /\ c.root = root /\ c.free = free /\ c.key = k
      /\ c = [page |-> page, root |-> root, free |-> free, damaged |-> FALSE,
              n |-> n, key |-> k, pointer |-> 0]
  BY DEF Deleting, n
<1> HIDE DEF c
<1>4. d = [c EXCEPT !.page = q]
  BY <1>1, <1>2, <1>3 DEF RemoveEntry, RemoveFromLeaf, Refilled
<1>5. d.page = q /\ d.root = root /\ d.free = free
  <2> HIDE DEF q, d
  <2> QED BY <1>3, <1>4
<1> HIDE DEF d
<1>6. /\ Ordered(page, root, U, lo, hi, hi) /\ Records(page, U) = R
      /\ Ascends(page[n].keys, lo[n], hi[n])
  BY <1>1 DEF Orders, Ordered, At
<1>7. page[n].keys \in Seq(Key)
  BY <1>2, PageFields
<1>8. Ascends(ks, lo[n], hi[n]) /\ Range(ks) = Range(page[n].keys) \ {k}
  BY <1>1, <1>6, <1>7, WithoutKeyAscends
<1>9. \A m \in U : q[m].leaf = page[m].leaf
                   /\ Range(q[m].keys) = IF m = n THEN Range(page[n].keys) \ {k}
                                         ELSE Range(page[m].keys)
  BY <1>2, <1>8 DEF Refilled, Page
<1>10. Orders(q, root, U, lo, hi, hi, Records(q, U))
  BY <1>1, <1>2, <1>8, LeafRefilled
<1> HIDE DEF q, ks
<1>11. ASSUME NEW m \in U, page[m].leaf, k \in Range(page[m].keys) PROVE m = n
  <2>1. page[m] \in Page /\ k \in Nat
    BY <1>2, <1>11, BPlusTreeAssumption
  <2>2. Covers(lo, hi, m, k) /\ Covers(lo, hi, n, k)
    BY <1>1, <1>2, <1>6, <1>11, <2>1, CoversItsKeys
  <2> QED BY <1>1, <1>2, <1>6, <1>11, <2>1, <2>2, CoveredOnce
<1>12. Records(q, U) = R \ {k}
  BY <1>1, <1>6, <1>9, <1>11 DEF Records
<1> QED BY <1>2, <1>3, <1>5, <1>10, <1>12 DEF DueInOrder, InOrder, c, d

-----------------------------------------------------------------------------
(* The root.                                                               *)

\* Nothing is left to do.
LEMMA EndOrders ==
  ASSUME NEW d, IsDelete(d), NEW lev, NEW lean, Tree(d.page, d.root, d.free, lev, {}, lean),
         NEW R, InOrder(d.page, d.root, d.free, R)
  PROVE  DueInOrder([d EXCEPT !.n = 0], R)
<1> DEFINE e == [d EXCEPT !.n = 0]
<1>1. e.n = 0 /\ e.page = d.page /\ e.root = d.root /\ e.free = d.free
  BY DEF IsDelete
<1>2. d.root # 0
  BY PageNumbers DEF Tree, Linked
<1> HIDE DEF e
<1> QED BY <1>1, <1>2 DEF DueInOrder, Holding, e

\* The last record is gone.
LEMMA NoneOrders ==
  ASSUME NEW d, NEW i, Leans(d, i), NEW lev, Lean(d, lev, i), d.page[d.root].leaf,
         ~(Len(d.page[d.root].keys) > 0), NEW R, InOrder(d.page, d.root, d.free, R)
  PROVE  DueInOrder(AdjustRoot(d), R)
<1> DEFINE c == AdjustRoot(d)
           U == Used(d.free)
           r == d.root
<1>1. Tree(d.page, r, d.free, lev, {}, {d.n}) /\ IsDelete(d) /\ r \in U
  BY DEF Lean, Leans, Tree, Linked
<1>2. lev[r] = 0 /\ d.page[r] \in Page
  BY <1>1, TreePage
<1>3. U = {r}
  <2>1. ASSUME NEW m \in U, m # r PROVE FALSE
    <3>1. d.page[m].parent \in U /\ lev[d.page[m].parent] = lev[m] + 1
      BY <1>1, <2>1, TreePage
    <3>2. lev[m] \in Nat /\ lev[m] + 1 <= 0
      BY <1>1, <1>2, <3>1, RootOnTop, TreePage
    <3> QED BY <3>2
  <2> QED BY <1>1, <2>1
<1>4. Range(d.page[r].keys) = {}
  <2>1. d.page[r].keys \in Seq(Key) /\ Len(d.page[r].keys) \in Nat
    BY <1>2, PageFields, KeysAreNat
  <2>2. 1 .. Len(d.page[r].keys) = {}
    BY <2>1
  <2> QED BY <2>1, <2>2, InRange
<1>5. R = {}
  <2>1. R = Records(d.page, U)
    BY DEF InOrder, Orders
  <2> QED BY <1>3, <1>4, <2>1 DEF Records
<1>6. c.n = 0 /\ c.root = 0
  <2>1. c = [d EXCEPT !.page = d.page, !.root = 0, !.free = <<r>> \o d.free, !.n = 0]
    BY DEF AdjustRoot
  <2> HIDE DEF c
  <2> QED BY <1>1, <2>1 DEF IsDelete
<1> HIDE DEF c
<1> QED BY <1>5, <1>6 DEF DueInOrder, Holding, c

\* The only child of the root has its interval.
LEMMA ChildOrders ==
  ASSUME NEW d, NEW i, Leans(d, i), NEW lev, Lean(d, lev, i),
         ~d.page[d.root].leaf, ~(Len(d.page[d.root].keys) > 0),
         NEW R, InOrder(d.page, d.root, d.free, R)
  PROVE  DueInOrder(AdjustRoot(d), R)
<1> DEFINE c == AdjustRoot(d)
           p == d.page
           U == Used(d.free)
           r == d.root
           f == p[r]
           x == Head(f.children)
           fr == <<r>> \o d.free
           q == WithParent(p, {x}, 0)
<1>1. /\ Tree(p, r, d.free, lev, {}, {d.n}) /\ IsDelete(d) /\ r \in U
      /\ p \in [PageNumber -> Page] /\ d.free \in Seq(PageNumber) /\ IsInjective(d.free)
      /\ U \subseteq PageNumber
  BY DEF Lean, Leans, Tree, Linked
<1>2. f \in Page /\ PageOK(f) /\ ~f.leaf
  BY <1>1, TreePage
<1>3. /\ f.children \in Seq(Nat \ {0}) /\ f.keys \in Seq(Key) /\ Len(f.keys) = 0
      /\ Len(f.children) = 1
  <2>1. f.children \in Seq(Nat \ {0}) /\ f.keys \in Seq(Key) /\ Len(f.children) = Len(f.keys) + 1
    BY <1>2, PageFields DEF PageOK
  <2>2. Len(f.keys) = 0
    BY <2>1
  <2> QED BY <2>1, <2>2
<1>4. x = f.children[1] /\ x \in U /\ x # r /\ \A y \in Range(f.children) : y = x
  <2>1. x = f.children[1]
    BY <1>3
  <2>2. 1 \in 1 .. Len(f.children) /\ \A j \in 1 .. Len(f.children) : j = 1
    BY <1>3
  <2>3. x \in Range(f.children) /\ \A y \in Range(f.children) : y = x
    BY <1>3, <2>1, <2>2, InRange, SMTT(30)
  <2> QED BY <1>1, <2>1, <2>3, TreePage
<1>5. Used(fr) = U \ {r}
  BY <1>1, Pushed
<1>6. PICK lo, hi : Orders(p, r, U, lo, hi, hi, R)
  BY DEF InOrder
<1>7. Ordered(p, r, U, lo, hi, hi) /\ Chain(p, U, lo, hi) /\ Records(p, U) = R
  BY <1>6, SMTT(30) DEF Orders
<1>8. lo[x] = 0 /\ hi[x] = 0
  <2>1. lo[r] = 0 /\ hi[r] = 0 /\ Parts(f.keys, f.children, lo[r], hi[r], lo, hi)
    BY <1>1, <1>2, <1>7 DEF Ordered, At
  <2>2. 1 \in 1 .. Len(f.children) /\ 1 > Len(f.keys)
    BY <1>3
  <2> QED BY <1>4, <2>1, <2>2 DEF Parts, Low, High
<1>9. c.page = q /\ c.root = x /\ c.free = fr /\ c.n = 0
  <2>1. c = [d EXCEPT !.page = q, !.root = x, !.free = fr, !.n = 0]
    BY <1>2 DEF AdjustRoot
  <2> HIDE DEF q, c, x, fr
  <2> QED BY <1>1, <2>1 DEF IsDelete
<1>10. \A m \in U : Twin(p[m], q[m])
  BY <1>1, NewParentTwin
<1> HIDE DEF c, q, x, fr
<1>11. ASSUME NEW m \in U PROVE At(q, m, lo, hi, hi)
  <2>1. At(p, m, lo, hi, hi)
    BY <1>7 DEF Ordered
  <2> QED BY <1>10, <2>1 DEF At, Twin
<1>12. SameLeaves(p, U, lo, hi, q, U \ {r}, lo, hi)
  BY <1>2, <1>10 DEF SameLeaves, Twin
<1>13. Chain(q, U \ {r}, lo, hi) /\ Records(q, U \ {r}) = R
  BY <1>7, <1>12, LeavesStay
<1>14. Orders(q, x, U \ {r}, lo, hi, hi, R)
  BY <1>8, <1>11, <1>13 DEF Orders, Ordered
<1>15. x # 0
  BY <1>1, <1>4, PageNumbers
<1> QED BY <1>5, <1>9, <1>14, <1>15 DEF DueInOrder, Holding, InOrder, c

LEMMA RootOrders ==
  ASSUME NEW d, NEW i, Leans(d, i), NEW lev, Lean(d, lev, i), d.n = d.root,
         NEW R, InOrder(d.page, d.root, d.free, R)
  PROVE  DueInOrder(Continue(d), R)
<1> DEFINE f == d.page[d.root]
<1>1. CASE Len(f.keys) > 0
  <2>1. Continue(d) = [d EXCEPT !.n = 0]
    BY <1>1 DEF Continue
  <2>2. IsDelete(d) /\ Tree(d.page, d.root, d.free, lev, {}, {d.n})
    BY DEF Leans, Lean
  <2> QED BY <2>1, <2>2, EndOrders
<1>2. CASE ~(Len(f.keys) > 0)
  <2>1. Continue(d) = AdjustRoot(d)
    BY <1>2 DEF Continue
  <2>2. CASE f.leaf
    BY <1>2, <2>1, <2>2, NoneOrders
  <2>3. CASE ~f.leaf
    BY <1>2, <2>1, <2>3, ChildOrders
  <2> QED BY <2>2, <2>3
<1> QED BY <1>1, <1>2

-----------------------------------------------------------------------------
(* Neighbours in order.                                                    *)

\* The children a and b of the page P are side by side, with the key s between them.
Adjacent(p, P, a, b, s, i) ==
  /\ i \in 1 .. Len(p[P].keys) /\ p[P].keys[i] = s
  /\ p[P].children[i] = a /\ p[P].children[i + 1] = b

LEMMA NeighborsAdjacent ==
  ASSUME NEW d, NEW i, Leans(d, i), NEW lev, Lean(d, lev, i), d.n # d.root,
         ~Filled(d.page, d.n), NEW P, NEW j, NEW m, NEW s, Chooses(d, P, j, m, s)
  PROVE  IF j = 0 THEN Adjacent(d.page, P, d.n, m, s, 1) ELSE Adjacent(d.page, P, m, d.n, s, j)
<1> DEFINE p == d.page
           n == d.n
           q == p[P].children
           l == LeftIndex(p, P, n)
<1>1. /\ j \in Nat /\ KeyAt(j) \in 1 .. Len(p[P].keys) /\ Beside(d, lev, n, m, s)
  BY BesideHolds
<1>2. P = p[n].parent /\ j = l - 1 /\ m = q[BesideAt(j)] /\ s = p[P].keys[KeyAt(j)]
  BY DEF Chooses, NeighborIndex
<1>3. p[P] \in Page /\ n \in Range(q)
  <2>1. P = d.page[n].parent /\ Beside(d, lev, n, m, s)
    BY <1>1, <1>2
  <2> HIDE DEF n
  <2>2. d.page[P] \in Page /\ n \in Range(d.page[P].children)
    BY <2>1, BesidePages
  <2> QED BY <2>2, SMTT(30)
<1>4. q \in Seq(Nat \ {0})
  BY <1>3, PageFields
<1>5. l \in 1 .. Len(q) /\ q[l] = n
  <2> HIDE DEF p, n
  <2> QED BY <1>3, <1>4, LeftFound
<1> HIDE DEF l
<1> HIDE DEF n, q
<1>6. l = j + 1
  BY <1>2, <1>4, <1>5
<1>7. CASE j = 0
  <2>1. BesideAt(j) = 2 /\ KeyAt(j) = 1 /\ l = 1
    BY <1>6, <1>7, SMTT(30) DEF BesideAt, KeyAt
  <2>2. /\ 1 \in 1 .. Len(p[P].keys) /\ p[P].keys[1] = s
        /\ q[1] = n /\ q[1 + 1] = m
    BY <1>1, <1>2, <1>5, <2>1
  <2> QED BY <1>7, <2>2 DEF Adjacent, n, q
<1>8. CASE j # 0
  <2>1. BesideAt(j) = j /\ KeyAt(j) = j
    BY <1>8, SMTT(30) DEF BesideAt, KeyAt
  <2>2. /\ j \in 1 .. Len(p[P].keys) /\ p[P].keys[j] = s
        /\ q[j] = m /\ q[j + 1] = n
    BY <1>1, <1>2, <1>5, <1>6, <2>1
  <2> QED BY <1>8, <2>2 DEF Adjacent, n, q
<1> QED BY <1>7, <1>8

\* The key between two neighbours is where the interval of one ends and that of the other
\* begins.
Meets(lo, hi, a, b, s) ==
  /\ hi[a] = s /\ lo[b] = s /\ s \in Nat \ {0} /\ lo[a] < s /\ Below(s, hi[b])

LEMMA NeighborsMeet ==
  ASSUME NEW p, NEW P, NEW lo, NEW hi, At(p, P, lo, hi, hi), p[P] \in Page, ~p[P].leaf,
         Len(p[P].children) = Len(p[P].keys) + 1, NEW a, NEW b, NEW s, NEW i,
         Adjacent(p, P, a, b, s, i)
  PROVE  Meets(lo, hi, a, b, s)
<1> DEFINE q == p[P].keys
           c == p[P].children
           l == lo[P]
           h == hi[P]
<1>1. /\ q \in Seq(Key) /\ l \in Nat /\ h \in Nat /\ Ascends(q, l + 1, h) /\ Parts(q, c, l, h, lo, hi)
      /\ Len(c) = Len(q) + 1
  BY PageFields DEF At
<1>2. Len(q) \in Nat /\ \A j \in 1 .. Len(q) : q[j] \in Nat
  BY <1>1, KeysAreNat
<1>3. i \in 1 .. Len(q) /\ q[i] = s /\ c[i] = a /\ c[i + 1] = b
  BY DEF Adjacent
<1> HIDE DEF q, c, l, h
<1>4. i \in 1 .. Len(c) /\ i + 1 \in 1 .. Len(c) /\ i \in Nat
  BY <1>1, <1>2, <1>3
<1>5. lo[a] = Low(q, l, i) /\ hi[a] = High(q, h, i) /\ lo[b] = Low(q, l, i + 1) /\ hi[b] = High(q, h, i + 1)
  BY <1>1, <1>3, <1>4 DEF Parts
<1>6. s \in Nat /\ l + 1 <= s /\ Below(s, h)
  BY <1>1, <1>2, <1>3 DEF Ascends
<1>7. hi[a] = s /\ lo[b] = s
  BY <1>2, <1>3, <1>4, <1>5 DEF Low, High
<1>8. lo[a] < s
  <2>1. CASE i = 1
    BY <1>1, <1>5, <1>6, <2>1 DEF Low
  <2>2. CASE i # 1
    <3>1. i - 1 \in 1 .. Len(q) /\ i - 1 < i
      BY <1>2, <1>3, <2>2
    <3>2. q[i - 1] < q[i]
      BY <1>1, <1>3, <3>1 DEF Ascends, Sorted
    <3> QED BY <1>3, <1>5, <2>2, <3>2 DEF Low
  <2> QED BY <2>1, <2>2
<1>9. Below(s, hi[b])
  <2>1. CASE i + 1 > Len(q)
    BY <1>5, <1>6, <2>1 DEF High
  <2>2. CASE ~(i + 1 > Len(q))
    <3>1. i + 1 \in 1 .. Len(q) /\ i < i + 1
      BY <1>2, <1>3, <2>2
    <3>2. q[i] < q[i + 1]
      BY <1>1, <1>3, <3>1 DEF Ascends, Sorted
    <3> QED BY <1>3, <1>5, <2>2, <3>2 DEF High, Below
  <2> QED BY <2>1, <2>2
<1>10. s # 0
  BY <1>1, <1>6
<1> QED BY <1>6, <1>7, <1>8, <1>9, <1>10 DEF Meets

-----------------------------------------------------------------------------
(* Two pages become one, in order.                                         *)

\* A key is put behind others, or in front of them.
LEMMA AscendsAppended ==
  ASSUME NEW q \in Seq(Key), NEW k \in Key, NEW l \in Nat, NEW h \in Nat,
         Ascends(q, l, k), l <= k, Below(k, h), k # 0
  PROVE  Ascends(Append(q, k), l, h)
<1>1. k \in Nat \ {0}
  BY KeyIsNat
<1>2. <<k>> \in Seq(Key) /\ Len(<<k>>) = 1 /\ <<k>>[1] = k
  BY Single
<1>3. Ascends(<<k>>, k, h)
  <2> DEFINE z == <<k>>
  <2>1. \A i \in 1 .. Len(z) : i = 1 /\ z[i] = k
    BY <1>2
  <2> HIDE DEF z
  <2> QED BY <1>1, <2>1 DEF Ascends, Sorted, z
<1>4. h = 0 \/ k <= h
  BY <1>1 DEF Below
<1>5. Ascends(q \o <<k>>, l, h)
  BY <1>1, <1>2, <1>3, <1>4, AscendsJoined
<1> QED BY <1>5, PutLast

LEMMA AscendsPrefixed ==
  ASSUME NEW q \in Seq(Key), NEW k \in Key, NEW l \in Nat, NEW h \in Nat,
         Ascends(q, k + 1, h), l <= k, Below(k, h)
  PROVE  Ascends(<<k>> \o q, l, h)
<1>1. k \in Nat /\ k + 1 \in Nat \ {0}
  BY BPlusTreeAssumption
<1>2. <<k>> \in Seq(Key) /\ Len(<<k>>) = 1 /\ <<k>>[1] = k
  BY Single
<1>3. Ascends(<<k>>, l, k + 1)
  <2> DEFINE z == <<k>>
  <2>1. \A i \in 1 .. Len(z) : i = 1 /\ z[i] = k
    BY <1>2
  <2> HIDE DEF z
  <2>2. k < k + 1
    BY <1>1
  <2> QED BY <2>1, <2>2 DEF Ascends, Sorted, Below, z
<1>4. l <= k + 1 /\ (h = 0 \/ k + 1 <= h)
  BY <1>1 DEF Below
<1> QED BY <1>1, <1>2, <1>3, <1>4, AscendsJoined

\* The page g has what the pages a and b had.
MergedInOrder(p, a, b, g, lo, hi) ==
  /\ g.leaf = p[a].leaf
  /\ g.leaf => /\ Ascends(g.keys, lo[a], hi[b]) /\ g.right = p[b].right
               /\ Range(g.keys) = Range(p[a].keys) \union Range(p[b].keys)
  /\ ~g.leaf => /\ Ascends(g.keys, lo[a] + 1, hi[b])
                /\ Parts(g.keys, g.children, lo[a], hi[b], lo, hi)

LEMMA LeavesMergeInOrder ==
  ASSUME NEW p, NEW lo, NEW hi, NEW a, NEW b, NEW s, At(p, a, lo, hi, hi), At(p, b, lo, hi, hi),
         p[a] \in Page, p[b] \in Page, p[a].leaf, p[b].leaf, Meets(lo, hi, a, b, s)
  PROVE  MergedInOrder(p, a, b, MergedLeaf(p[a], p[b]), lo, hi)
<1> DEFINE f == p[a].keys
           g == p[b].keys
           m == MergedLeaf(p[a], p[b])
<1>1. f \in Seq(Key) /\ g \in Seq(Key)
  BY PageFields
<1>2. /\ Ascends(f, lo[a], s) /\ Ascends(g, s, hi[b])
      /\ lo[a] \in Nat /\ hi[b] \in Nat /\ s \in Nat \ {0} /\ lo[a] <= s /\ (hi[b] = 0 \/ s <= hi[b])
  BY DEF At, Meets, Below
<1>3. m.leaf = TRUE /\ m.keys = f \o g /\ m.right = p[b].right
  BY DEF MergedLeaf, LeafPage
<1> HIDE DEF m, f, g
<1>4. Ascends(f \o g, lo[a], hi[b])
  BY <1>1, <1>2, AscendsJoined
<1>5. Range(f \o g) = Range(f) \union Range(g)
  BY <1>1, Joined DEF Joins
<1>6. p[a].leaf = TRUE
  BY PageFields
<1> QED BY <1>3, <1>4, <1>5, <1>6 DEF MergedInOrder, m, f, g

LEMMA InternalsMergeInOrder ==
  ASSUME NEW p, NEW lo, NEW hi, NEW a, NEW b, NEW s \in Key, At(p, a, lo, hi, hi), At(p, b, lo, hi, hi),
         p[a] \in Page, p[b] \in Page, PageOK(p[a]), PageOK(p[b]), ~p[a].leaf, ~p[b].leaf,
         Meets(lo, hi, a, b, s)
  PROVE  MergedInOrder(p, a, b, MergedPage(p[a], p[b], s), lo, hi)
<1> DEFINE f == p[a].keys
           g == p[b].keys
           v == p[a].children
           w == p[b].children
           m == MergedPage(p[a], p[b], s)
<1>1. /\ f \in Seq(Key) /\ g \in Seq(Key) /\ v \in Seq(Nat \ {0}) /\ w \in Seq(Nat \ {0})
      /\ Len(v) = Len(f) + 1 /\ Len(w) = Len(g) + 1
  BY PageFields DEF PageOK
<1>2. /\ Ascends(f, lo[a] + 1, s) /\ Ascends(g, s + 1, hi[b])
      /\ Parts(f, v, lo[a], s, lo, hi) /\ Parts(g, w, s, hi[b], lo, hi)
      /\ lo[a] \in Nat /\ hi[b] \in Nat /\ s \in Nat \ {0} /\ lo[a] < s /\ Below(s, hi[b])
  BY DEF At, Meets
<1>3. m.leaf = FALSE /\ m.keys = Append(f, s) \o g /\ m.children = v \o w
  BY DEF MergedPage, InternalPage
<1> HIDE DEF m, f, g, v, w
<1>4. /\ lo[a] + 1 \in Nat /\ lo[a] + 1 <= s /\ s + 1 \in Nat \ {0} /\ Below(s, s + 1)
      /\ lo[a] + 1 <= s + 1 /\ (hi[b] = 0 \/ s + 1 <= hi[b])
  BY <1>2 DEF Below
<1>5. Append(f, s) \in Seq(Key) /\ Append(f, s) = f \o <<s>>
  BY <1>1, PutLast
<1>6. Ascends(Append(f, s), lo[a] + 1, s + 1)
  BY <1>1, <1>2, <1>4, AscendsAppended
<1>7. Ascends(Append(f, s) \o g, lo[a] + 1, hi[b])
  BY <1>1, <1>2, <1>4, <1>5, <1>6, AscendsJoined
<1>8. Parts((f \o <<s>>) \o g, v \o w, lo[a], hi[b], lo, hi)
  BY <1>1, <1>2, PartsJoined
<1>9. p[a].leaf = FALSE
  BY PageFields
<1> QED BY <1>3, <1>5, <1>7, <1>8, <1>9 DEF MergedInOrder, m

\* The page a takes the interval of b, which follows.
Widened(hi, a, b) == [m \in PageNumber |-> IF m = a THEN hi[b] ELSE hi[m]]

\* Their parent loses the key between them and the page b.
LEMMA ParentTorn ==
  ASSUME NEW p, NEW P, NEW lo, NEW hi, At(p, P, lo, hi, hi), p[P] \in Page, ~p[P].leaf, PageOK(p[P]),
         Range(p[P].children) \subseteq PageNumber,
         NEW a, NEW b, NEW s, NEW i, Adjacent(p, P, a, b, s, i)
  PROVE  /\ Ascends(WithoutKey(p[P].keys, s), lo[P] + 1, hi[P])
         /\ Parts(WithoutKey(p[P].keys, s), RemoveAt(p[P].children, i + 1), lo[P], hi[P],
                  lo, Widened(hi, a, b))
<1> DEFINE q == p[P].keys
           c == p[P].children
           high == Widened(hi, a, b)
           C == Nat \ {0}
<1>1. /\ q \in Seq(Key) /\ c \in Seq(C) /\ Len(c) = Len(q) + 1 /\ IsInjective(c)
      /\ Ascends(q, lo[P] + 1, hi[P]) /\ Parts(q, c, lo[P], hi[P], lo, hi)
      /\ Range(c) \subseteq PageNumber
  BY PageFields DEF PageOK, At
<1>2. i \in 1 .. Len(q) /\ q[i] = s /\ c[i] = a /\ c[i + 1] = b
  BY DEF Adjacent
<1> HIDE DEF q, c, C
<1>3. Len(q) \in Nat /\ i \in Nat /\ i \in 1 .. Len(c) /\ i + 1 \in 1 .. Len(c)
  BY <1>1, <1>2, KeysAreNat
<1>4. WithoutKey(q, s) = RemoveAt(q, i)
  BY <1>1, <1>2, WithoutKeyIs DEF Ascends
<1>5. TakenAt(q, i, RemoveAt(q, i)) /\ TakenAt(c, i + 1, RemoveAt(c, i + 1))
  BY <1>1, <1>2, <1>3, TakenPlaces
<1>6. \A j \in 1 .. Len(c) : c[j] \in PageNumber /\ (j # i => c[j] # a)
  <2>1. \A j \in 1 .. Len(c) : c[j] = c[i] => j = i
    BY <1>1, <1>3, Injective
  <2> QED BY <1>1, <1>2, <2>1, InRange
<1>7. \A j \in 1 .. Len(c) : high[c[j]] = IF j = i THEN hi[b] ELSE hi[c[j]]
  BY <1>2, <1>6 DEF Widened
<1> HIDE DEF high
<1>8. JoinsChild(c, i, lo, hi, lo, high)
  BY <1>2, <1>3, <1>7 DEF JoinsChild
<1>9. Ascends(RemoveAt(q, i), lo[P] + 1, hi[P])
  BY <1>1, <1>2, <1>5, AscendsTaken
<1>10. Parts(RemoveAt(q, i), RemoveAt(c, i + 1), lo[P], hi[P], lo, high)
  BY <1>1, <1>2, <1>5, <1>8, PartsTaken
<1> QED BY <1>4, <1>9, <1>10 DEF q, c, high

\* The pages q are those of p, but the page a has what b had, and their parent P, which
\* loses b.
JoinedInOrder(p, q, U, a, b, P, g, lo, hi) ==
  /\ q \in [PageNumber -> Page] /\ MergedInOrder(p, a, b, g, lo, hi)
  /\ Twin(g, q[a]) /\ Range(g.children) = Range(p[a].children) \union Range(p[b].children)
  /\ \A m \in U : m \notin {a, b, P} => Twin(p[m], q[m])
  /\ ~q[P].leaf /\ Ascends(q[P].keys, lo[P] + 1, hi[P])
  /\ Parts(q[P].keys, q[P].children, lo[P], hi[P], lo, Widened(hi, a, b))

\* Two neighbours in a tree in order.
NeighborsInOrder(d, lev, a, b, s, i, lo, hi, R) ==
  /\ Beside(d, lev, a, b, s) /\ Adjacent(d.page, d.page[a].parent, a, b, s, i)
  /\ Orders(d.page, d.root, Used(d.free), lo, hi, hi, R)

\* What that says of the pages.
NeighborFacts(d, lev, a, b, s, P, lo, hi, R) ==
  /\ Tree(d.page, d.root, d.free, lev, {}, {d.n})
  /\ Ordered(d.page, d.root, Used(d.free), lo, hi, hi) /\ Chain(d.page, Used(d.free), lo, hi)
  /\ Records(d.page, Used(d.free)) = R
  /\ a \in Used(d.free) /\ b \in Used(d.free) /\ P \in Used(d.free) /\ a # b /\ P # a /\ P # b
  /\ a # d.root /\ b # d.root /\ P = d.page[a].parent /\ P = d.page[b].parent
  /\ d.page[a].leaf = d.page[b].leaf /\ ~d.page[P].leaf
  /\ d.page[a] \in Page /\ d.page[b] \in Page /\ d.page[P] \in Page
  /\ PageOK(d.page[a]) /\ PageOK(d.page[b]) /\ PageOK(d.page[P])
  /\ At(d.page, a, lo, hi, hi) /\ At(d.page, b, lo, hi, hi) /\ At(d.page, P, lo, hi, hi)
  /\ Meets(lo, hi, a, b, s) /\ s \in Key
  /\ \A m \in Used(d.free) : \A x \in Range(d.page[m].children) :
       x \in Used(d.free) /\ x \in PageNumber /\ d.page[x].parent = m
  /\ Used(d.free) \subseteq PageNumber /\ d.page \in [PageNumber -> Page]

LEMMA NeighborsAre ==
  ASSUME NEW d, NEW lev, NEW a, NEW b, NEW s, NEW i, NEW lo, NEW hi, NEW R,
         NeighborsInOrder(d, lev, a, b, s, i, lo, hi, R), NEW P, P = d.page[a].parent
  PROVE  NeighborFacts(d, lev, a, b, s, P, lo, hi, R)
<1> DEFINE p == d.page
           U == Used(d.free)
<1>1. /\ Beside(d, lev, a, b, s) /\ Adjacent(p, P, a, b, s, i) /\ Orders(p, d.root, U, lo, hi, hi, R)
  BY DEF NeighborsInOrder
<1>2. /\ Tree(p, d.root, d.free, lev, {}, {d.n}) /\ a \in U /\ b \in U /\ a # b
      /\ a # d.root /\ b # d.root
  BY <1>1 DEF Beside
<1>3. /\ P \in U /\ P # a /\ P # b /\ p[a] \in Page /\ p[b] \in Page /\ p[P] \in Page
      /\ PageOK(p[a]) /\ PageOK(p[b]) /\ PageOK(p[P]) /\ ~p[P].leaf
      /\ p[a].leaf = p[b].leaf /\ p[b].parent = P
  BY <1>1, BesidePages
<1>4. Ordered(p, d.root, U, lo, hi, hi) /\ Chain(p, U, lo, hi) /\ Records(p, U) = R
  BY <1>1 DEF Orders
<1>5. At(p, a, lo, hi, hi) /\ At(p, b, lo, hi, hi) /\ At(p, P, lo, hi, hi)
  BY <1>2, <1>3, <1>4 DEF Ordered
<1>6. Meets(lo, hi, a, b, s)
  <2>1. Len(p[P].children) = Len(p[P].keys) + 1
    BY <1>3 DEF PageOK
  <2> HIDE DEF p
  <2> QED BY <1>1, <1>3, <1>5, <2>1, NeighborsMeet
<1>7. s \in Key
  <2>1. p[P].keys \in Seq(Key)
    BY <1>3, PageFields
  <2> QED BY <1>1, <2>1 DEF Adjacent
<1>8. U \subseteq PageNumber /\ p \in [PageNumber -> Page]
  BY <1>2 DEF Tree, Used
<1>9. \A m \in U : \A x \in Range(p[m].children) : x \in U /\ x \in PageNumber /\ p[x].parent = m
  BY <1>2, <1>8, TreePage
<1> QED BY <1>2, <1>3, <1>4, <1>5, <1>6, <1>7, <1>8, <1>9 DEF NeighborFacts

LEMMA JoinedOrders ==
  ASSUME NEW d, NEW lev, NEW a, NEW b, NEW s, NEW P, NEW lo, NEW hi, NEW R,
         NeighborFacts(d, lev, a, b, s, P, lo, hi, R),
         NEW q, NEW g, JoinedInOrder(d.page, q, Used(d.free), a, b, P, g, lo, hi)
  PROVE  Orders(q, d.root, Used(d.free) \ {b}, lo, Widened(hi, a, b), Widened(hi, a, b), R)
<1> DEFINE p == d.page
           U == Used(d.free)
           V == U \ {b}
           high == Widened(hi, a, b)
           r == d.root
<1>1. /\ Tree(p, r, d.free, lev, {}, {d.n}) /\ Ordered(p, r, U, lo, hi, hi) /\ Chain(p, U, lo, hi)
      /\ Records(p, U) = R /\ a \in U /\ b \in U /\ P \in U /\ a # b /\ P # a /\ P # b
      /\ a # r /\ P = p[a].parent /\ p[a].leaf = p[b].leaf /\ ~p[P].leaf
      /\ U \subseteq PageNumber /\ p \in [PageNumber -> Page]
  BY DEF NeighborFacts
<1>2. \A m \in U : \A x \in Range(p[m].children) : x \in U /\ x \in PageNumber /\ p[x].parent = m
  BY DEF NeighborFacts
<1>3. /\ At(p, a, lo, hi, hi) /\ At(p, b, lo, hi, hi) /\ At(p, P, lo, hi, hi)
      /\ PageOK(p[a]) /\ PageOK(p[b]) /\ p[b].parent = P
  BY DEF NeighborFacts
<1>4. Meets(lo, hi, a, b, s) /\ s \in Key
  BY DEF NeighborFacts
<1>5. /\ MergedInOrder(p, a, b, g, lo, hi) /\ Twin(g, q[a])
      /\ \A m \in U : m \notin {a, b, P} => Twin(p[m], q[m])
      /\ ~q[P].leaf /\ Ascends(q[P].keys, lo[P] + 1, hi[P])
      /\ Parts(q[P].keys, q[P].children, lo[P], hi[P], lo, high)
      /\ q \in [PageNumber -> Page]
      /\ Range(g.children) = Range(p[a].children) \union Range(p[b].children)
  BY DEF JoinedInOrder
<1>6. high[a] = hi[b] /\ \A m \in U : m # a => high[m] = hi[m]
  BY <1>1 DEF Widened
<1>7. \A m \in U : m # P /\ ~p[m].leaf =>
        \A j \in 1 .. Len(p[m].children) : high[p[m].children[j]] = hi[p[m].children[j]]
  <2> SUFFICES ASSUME NEW m \in U, m # P, ~p[m].leaf, NEW j \in 1 .. Len(p[m].children)
               PROVE  high[p[m].children[j]] = hi[p[m].children[j]]
    OBVIOUS
  <2> DEFINE c == p[m].children
  <2>1. c \in Seq(Nat \ {0})
    BY <1>1, PageFields
  <2>2. c[j] \in Range(c)
    <3>1. j \in 1 .. Len(c)
      OBVIOUS
    <3> HIDE DEF c
    <3> QED BY <2>1, <3>1, InRange
  <2>3. c[j] \in U /\ p[c[j]].parent = m
    BY <1>2, <2>2
  <2> QED BY <1>1, <1>6, <2>3
<1> HIDE DEF high, p, U
<1>8. ASSUME NEW m \in V PROVE At(q, m, lo, high, high)
  <2>1. CASE m = a
    <3>1. /\ lo[a] \in Nat /\ hi[b] \in Nat /\ Below(lo[a], hi[b])
      BY <1>3, <1>4 DEF At, Meets, Below
    <3>2. CASE g.leaf
      <4>1. q[a].leaf /\ Ascends(q[a].keys, lo[a], hi[b])
        BY <1>5, <3>2 DEF MergedInOrder, Twin
      <4> QED BY <1>6, <2>1, <3>1, <4>1 DEF At
    <3>3. CASE ~g.leaf
      <4>1. /\ ~q[a].leaf /\ Ascends(q[a].keys, lo[a] + 1, hi[b])
            /\ Parts(q[a].keys, q[a].children, lo[a], hi[b], lo, hi)
            /\ ~p[a].leaf
        BY <1>5, <3>3 DEF MergedInOrder, Twin
      <4>2. Parts(q[a].keys, q[a].children, lo[a], hi[b], lo, high)
        <5> DEFINE c == q[a].children
        <5>1. c \in Seq(Nat \ {0}) /\ Range(c) = Range(p[a].children) \union Range(p[b].children)
          <6>1. q[a] \in Page
            BY <1>1, <1>5
          <6> QED BY <1>5, <6>1, PageFields DEF Twin
        <5> HIDE DEF c
        <5>2. \A j \in 1 .. Len(c) : c[j] \in U /\ p[c[j]].parent \in {a, b}
          BY <1>1, <1>2, <5>1, InRange
        <5>3. \A j \in 1 .. Len(c) : c[j] # a
          BY <1>1, <5>2
        <5>4. \A j \in 1 .. Len(c) : high[c[j]] = hi[c[j]]
          BY <1>6, <5>2, <5>3, SMTT(30)
        <5> QED BY <4>1, <5>4, PartsSame DEF c
      <4> QED BY <1>6, <2>1, <3>1, <4>1, <4>2 DEF At
    <3> QED BY <3>2, <3>3
  <2>2. CASE m = P
    BY <1>1, <1>3, <1>5, <1>6, <2>2 DEF At
  <2>3. CASE m # a /\ m # P
    <3>1. Twin(p[m], q[m]) /\ At(p, m, lo, hi, hi) /\ m \in U
      BY <1>1, <1>5, <2>3 DEF Ordered
    <3>2. AtStays(p, m, lo, hi, hi, q, lo, high, high)
      BY <1>6, <1>7, <2>3, <3>1 DEF AtStays, Twin
    <3> QED BY <3>2, AtSame
  <2> QED BY <2>1, <2>2, <2>3
<1>9. Ordered(q, r, V, lo, high, high)
  BY <1>1, <1>6, <1>8, PageNumbers, TreePage DEF Ordered, p, U
<1>10. Orders(p, r, U, lo, hi, hi, R)
  BY <1>1 DEF Orders
<1>11. CASE p[a].leaf
  <2>1. /\ p[b].leaf /\ q[a].leaf /\ q[a].right = p[b].right
        /\ Range(q[a].keys) = Range(p[a].keys) \union Range(p[b].keys)
    BY <1>1, <1>5, <1>11 DEF MergedInOrder, Twin
  <2>2. hi[a] = s /\ lo[b] = s /\ s # 0 /\ Below(s, hi[b])
    BY <1>4 DEF Meets
  <2>3. \A x \in U : p[x].leaf /\ x # a => p[x].right # b
    BY <1>1, <1>10, <1>11, <2>1, <2>2, NextLeaf DEF U
  <2>4. \A m \in V : q[m].leaf <=> p[m].leaf
    BY <1>1, <1>5, <1>11, <2>1 DEF Twin
  <2>5. \A m \in V : m # a /\ p[m].leaf =>
          /\ q[m].keys = p[m].keys /\ q[m].right = p[m].right
    BY <1>1, <1>5 DEF Twin
  <2>6. ASSUME NEW m \in V, q[m].leaf PROVE Follows(q, V, lo, high, m)
    <3>1. CASE m = a
      <4>1. Follows(p, U, lo, hi, b)
        BY <1>1, <2>1 DEF Chain
      <4>2. CASE p[b].right = 0
        BY <1>6, <2>1, <3>1, <4>1, <4>2 DEF Follows
      <4>3. CASE p[b].right # 0
        <5> DEFINE x == p[b].right
        <5>1. x \in U /\ p[x].leaf /\ hi[b] # 0 /\ lo[x] = hi[b]
          BY <4>1, <4>3 DEF Follows
        <5>2. s < hi[b] /\ s \in Nat
          BY <1>4, <2>2, <5>1 DEF Below, Meets
        <5>3. x # b
          BY <2>2, <5>1, <5>2
        <5>4. x \in V /\ q[x].leaf
          BY <2>4, <5>1, <5>3
        <5> QED BY <1>6, <2>1, <3>1, <4>3, <5>1, <5>4 DEF Follows
      <4> QED BY <4>2, <4>3
    <3>2. CASE m # a
      <4>1. p[m].leaf /\ q[m].right = p[m].right /\ Follows(p, U, lo, hi, m) /\ high[m] = hi[m]
        BY <1>1, <1>6, <2>4, <2>5, <2>6, <3>2 DEF Chain
      <4>2. p[m].right # b
        BY <2>3, <2>6, <3>2, <4>1
      <4> QED BY <2>4, <4>1, <4>2 DEF Follows
    <3> QED BY <3>1, <3>2
  <2>7. Records(q, V) = Records(p, U)
    <3>1. \A m \in V : q[m].leaf =>
            Range(q[m].keys) = IF m = a THEN Range(p[a].keys) \union Range(p[b].keys) ELSE Range(p[m].keys)
      BY <2>1, <2>4, <2>5
    <3> HIDE DEF V
    <3>2. V \subseteq U /\ U \subseteq V \union {b} /\ a \in V /\ b \in U
      BY <1>1 DEF V
    <3>3. \A k \in Key : (\E m \in V : q[m].leaf /\ k \in Range(q[m].keys))
                         <=> \E m \in U : p[m].leaf /\ k \in Range(p[m].keys)
      <4> SUFFICES ASSUME NEW k \in Key
                   PROVE (\E m \in V : q[m].leaf /\ k \in Range(q[m].keys))
                         <=> \E m \in U : p[m].leaf /\ k \in Range(p[m].keys)
        OBVIOUS
      <4>1. ASSUME NEW m \in V, q[m].leaf, k \in Range(q[m].keys)
            PROVE  \E n \in U : p[n].leaf /\ k \in Range(p[n].keys)
        BY <1>11, <2>1, <2>4, <3>1, <3>2, <4>1
      <4>2. ASSUME NEW m \in U, p[m].leaf, k \in Range(p[m].keys)
            PROVE  \E n \in V : q[n].leaf /\ k \in Range(q[n].keys)
        <5>1. CASE m \in {a, b}
          BY <2>1, <3>1, <3>2, <4>2, <5>1
        <5>2. CASE m \notin {a, b}
          BY <2>4, <3>1, <3>2, <4>2, <5>2
        <5> QED BY <5>1, <5>2
      <4> QED BY <4>1, <4>2
    <3> QED BY <3>3 DEF Records
  <2>8. Orders(q, r, V, lo, high, high, R)
    BY <1>1, <1>9, <2>6, <2>7 DEF Orders, Chain
  <2> QED BY <2>8 DEF high, U
<1>12. CASE ~p[a].leaf
  <2>1. ~p[b].leaf /\ ~q[a].leaf
    BY <1>1, <1>5, <1>12 DEF MergedInOrder, Twin
  <2>2. \A m \in V : q[m].leaf <=> p[m].leaf
    BY <1>1, <1>5, <1>12, <2>1 DEF Twin
  <2>3. \A m \in U : p[m].leaf => /\ m \in V /\ m \notin {a, b, P}
    BY <1>1, <1>12, <2>1
  <2>4. SameLeaves(p, U, lo, hi, q, V, lo, high)
    BY <1>5, <1>6, <2>2, <2>3 DEF SameLeaves, Twin
  <2>5. Chain(q, V, lo, high) /\ Records(q, V) = Records(p, U)
    BY <1>1, <2>4, LeavesStay
  <2>6. Orders(q, r, V, lo, high, high, R)
    BY <1>1, <1>9, <2>5 DEF Orders
  <2> QED BY <2>6 DEF high, U
<1> QED BY <1>11, <1>12 DEF p

\* What the merging of two pages leaves of each page.
LEMMA MergedTwins ==
  ASSUME NEW p \in [PageNumber -> Page], NEW a \in PageNumber, NEW b, NEW s,
         MergedPage(p[a], p[b], s) \in Page
  PROVE  /\ Twin(MergedPage(p[a], p[b], s), MergedPages(p, a, b, s)[a])
         /\ \A m \in PageNumber : m # a => Twin(p[m], MergedPages(p, a, b, s)[m])
<1> DEFINE g == MergedPage(p[a], p[b], s)
           u == [p EXCEPT ![a] = g]
           t == MergedPages(p, a, b, s)
<1>1. t = IF p[a].leaf THEN u ELSE WithParent(u, Range(g.children), a)
  BY DEF MergedPages
<1> HIDE DEF g, t
<1>2. g \in Page
  BY DEF g
<1>3. u \in [PageNumber -> Page] /\ u[a] = g /\ \A m \in PageNumber : m # a => u[m] = p[m]
  BY <1>2
<1> HIDE DEF u
<1>4. CASE p[a].leaf
  BY <1>1, <1>3, <1>4 DEF Twin, g, t
<1>5. CASE ~p[a].leaf
  <2>1. \A m \in PageNumber : Twin(u[m], t[m])
    BY <1>1, <1>3, <1>5, NewParentTwin
  <2> QED BY <1>3, <2>1 DEF Twin, g, t
<1> QED BY <1>4, <1>5

LEMMA MergedIsInOrder ==
  ASSUME NEW d, NEW lev, NEW a, NEW b, NEW s, NEW P, NEW lo, NEW hi, NEW R,
         NeighborFacts(d, lev, a, b, s, P, lo, hi, R)
  PROVE  MergedInOrder(d.page, a, b, MergedPage(d.page[a], d.page[b], s), lo, hi)
<1> DEFINE p == d.page
<1>1. /\ p[a] \in Page /\ p[b] \in Page /\ PageOK(p[a]) /\ PageOK(p[b]) /\ p[a].leaf = p[b].leaf
      /\ At(p, a, lo, hi, hi) /\ At(p, b, lo, hi, hi) /\ Meets(lo, hi, a, b, s) /\ s \in Key
  BY DEF NeighborFacts
<1> HIDE DEF p
<1>2. CASE p[a].leaf
  <2>1. MergedInOrder(p, a, b, MergedLeaf(p[a], p[b]), lo, hi)
    BY <1>1, <1>2, LeavesMergeInOrder
  <2> QED BY <1>2, <2>1 DEF MergedPage, p
<1>3. CASE ~p[a].leaf
  BY <1>1, <1>3, InternalsMergeInOrder DEF p
<1> QED BY <1>2, <1>3

\* Two neighbours become one page in order, and their parent loses the entry of the right
\* one, unless another one is taken for it.
LEMMA CoalesceOrders ==
  ASSUME NEW d, NEW lev, NEW a, NEW b, NEW s, NEW i, NEW lo, NEW hi, NEW R,
         NeighborsInOrder(d, lev, a, b, s, i, lo, hi, R), Fits(d.page[a], d.page[b])
  PROVE  DueInOrder(Coalesce(d, a, b, s), R)
<1> DEFINE p == d.page
           U == Used(d.free)
           P == p[a].parent
           g == MergedPage(p[a], p[b], s)
           t == MergedPages(p, a, b, s)
           fr == <<b>> \o d.free
           c == Coalesce(d, a, b, s)
           e == RemoveEntry(c)
           K == t[P].children
           j == PointerIndex(K, b)
           h == Regrouped(t[P], WithoutKey(t[P].keys, s), RemoveAt(t[P].children, j))
           q == [t EXCEPT ![P] = h]
<1>1. /\ Beside(d, lev, a, b, s) /\ IsDelete(d) /\ d.damaged = FALSE
      /\ Adjacent(p, P, a, b, s, i)
  BY DEF Beside, NeighborsInOrder
<1>2. NeighborFacts(d, lev, a, b, s, P, lo, hi, R)
  BY NeighborsAre
<1>3. /\ a \in U /\ b \in U /\ P \in U /\ a # b /\ P # a /\ P # b
      /\ U \subseteq PageNumber /\ p \in [PageNumber -> Page] /\ s \in Key
      /\ p[P] \in Page /\ PageOK(p[P]) /\ ~p[P].leaf /\ At(p, P, lo, hi, hi)
      /\ Tree(p, d.root, d.free, lev, {}, {d.n})
  BY <1>2 DEF NeighborFacts
<1>4. \A x \in Range(p[P].children) : x \in PageNumber
  BY <1>2, <1>3 DEF NeighborFacts
<1>5. Merges(d, t, a, b, g)
  BY <1>1, MergesHolds
<1>6. /\ t \in [PageNumber -> Page] /\ g \in Page
      /\ Range(g.children) = Range(p[a].children) \union Range(p[b].children)
  BY <1>5 DEF Merges
<1>7. MergedInOrder(p, a, b, g, lo, hi)
  BY <1>2, MergedIsInOrder
<1>8. Twin(g, t[a]) /\ \A m \in PageNumber : m # a => Twin(p[m], t[m])
  <2> HIDE DEF p
  <2> QED BY <1>3, <1>6, MergedTwins
<1>9. d.free \in Seq(PageNumber) /\ IsInjective(d.free)
  BY <1>3 DEF Tree
<1>10. fr \in Seq(PageNumber) /\ Used(fr) = U \ {b}
  BY <1>3, <1>9, Pushed
<1>11. c = [d EXCEPT !.page = t, !.free = fr, !.n = P, !.key = s, !.pointer = b]
  BY CoalesceIs
<1> HIDE DEF c, t, g, fr, U
<1>12. /\ IsDelete(c) /\ c.damaged = FALSE /\ c.page = t /\ c.root = d.root /\ c.free = fr
      /\ c.n = P /\ c.key = s /\ c.pointer = b
  <2>1. P \in Nat /\ b \in Nat
    BY <1>3, PageNumbers
  <2> HIDE DEF P
  <2> QED BY <1>1, <1>3, <1>6, <1>10, <1>11, <2>1 DEF IsDelete
<1> HIDE DEF P
<1>13. t[P].leaf = FALSE /\ t[P].keys = p[P].keys /\ K = p[P].children /\ t[P] \in Page /\ P # 0
  <2>1. p[P].leaf = FALSE /\ P \in PageNumber
    BY <1>3, PageFields
  <2> QED BY <1>3, <1>6, <1>8, <2>1, PageNumbers DEF Twin
<1>14. /\ K \in Seq(Nat \ {0}) /\ Len(K) > 0 /\ IsInjective(K)
  <2>1. K \in Seq(Nat \ {0}) /\ IsInjective(K) /\ Len(K) = Len(p[P].keys) + 1 /\ p[P].keys \in Seq(Key)
    BY <1>3, <1>13, PageFields DEF PageOK
  <2>2. Len(p[P].keys) \in Nat
    BY <2>1
  <2> QED BY <2>1, <2>2
<1>15. j \in 1 .. Len(K)
  <2> HIDE DEF K
  <2> QED BY <1>14, PointerFound, SMTT(30)
<1>16. e = [c EXCEPT !.page = EntryRemoved(c), !.damaged = c.damaged \/ K[j] # b]
  <2>1. e = RemoveFromInternal(c)
    BY <1>12, <1>13 DEF RemoveEntry
  <2>2. c.page[c.n].children[Pointed(c)] = K[j] /\ c.pointer = b
    BY <1>12 DEF Pointed
  <2> HIDE DEF e, K, j
  <2> QED BY <2>1, <2>2, RemovedIs
<1>17. EntryRemoved(c) = q
  BY <1>12 DEF EntryRemoved, Pointed
<1>18. CASE K[j] # b
  <2>1. Hurt(e)
    <3> HIDE DEF K, j, e
    <3>1. e.damaged = TRUE /\ "damaged" \in DOMAIN e
      BY <1>12, <1>16, <1>18 DEF IsDelete
    <3> QED BY <3>1 DEF Hurt
  <2> HIDE DEF e
  <2> QED BY <1>12, <1>13, <2>1 DEF DueInOrder, c, e
<1>19. CASE K[j] = b
  <2>1. j = i + 1
    <3>1. i \in 1 .. Len(p[P].keys) /\ p[P].children[i + 1] = b
      BY <1>1 DEF Adjacent
    <3>2. p[P].keys \in Seq(Key) /\ Len(p[P].children) = Len(p[P].keys) + 1
      BY <1>3, PageFields DEF PageOK
    <3>3. i + 1 \in 1 .. Len(K) /\ K[i + 1] = b
      BY <1>13, <3>1, <3>2
    <3> HIDE DEF K, j
    <3> QED BY <1>14, <1>15, <1>19, <3>3, Injective
  <2>2. h.leaf = FALSE /\ h.keys = WithoutKey(p[P].keys, s) /\ h.children = RemoveAt(p[P].children, i + 1)
    <3> HIDE DEF j, p
    <3> QED BY <1>13, <2>1, PageFields DEF Regrouped, Page
  <2>3. /\ Ascends(h.keys, lo[P] + 1, hi[P])
        /\ Parts(h.keys, h.children, lo[P], hi[P], lo, Widened(hi, a, b))
    <3>1. Range(p[P].children) \subseteq PageNumber
      BY <1>4
    <3> HIDE DEF h, p, j
    <3> QED BY <1>1, <1>3, <2>2, <3>1, ParentTorn
  <2>4. h \in Page
    <3> HIDE DEF h
    <3>1. Without(d, t, a, b, s, P, j, h)
      BY <1>15, <1>19 DEF Without, h, P
    <3> HIDE DEF K
    <3>2. JoinedBy(d, t, a, b, P, g, h)
      BY <1>1, <1>5, <3>1, EntryGone
    <3> QED BY <3>2 DEF JoinedBy
  <2> HIDE DEF h, p
  <2>5. /\ q \in [PageNumber -> Page] /\ q[P] = h /\ q[a] = t[a]
        /\ \A m \in U : m \notin {a, b, P} => q[m] = t[m]
    BY <1>3, <1>6, <2>4
  <2> HIDE DEF q
  <2>6. JoinedInOrder(p, q, U, a, b, P, g, lo, hi)
    BY <1>3, <1>6, <1>7, <1>8, <2>2, <2>3, <2>5 DEF JoinedInOrder
  <2>7. Orders(q, d.root, Used(fr), lo, Widened(hi, a, b), Widened(hi, a, b), R)
    BY <1>2, <1>10, <2>6, JoinedOrders DEF p, U
  <2>8. e.page = q /\ e.root = d.root /\ e.free = fr
    <3> HIDE DEF K, j, e
    <3> QED BY <1>12, <1>16, <1>17 DEF IsDelete
  <2> HIDE DEF e
  <2> QED BY <1>12, <1>13, <2>7, <2>8 DEF DueInOrder, InOrder, c, e
<1> QED BY <1>18, <1>19

-----------------------------------------------------------------------------
(* An entry changes over, in order.                                        *)

\* One of the keys is replaced by another between its neighbours.
LEMMA AscendsRekeyed ==
  ASSUME NEW q \in Seq(Key), NEW l \in Nat, NEW h \in Nat, Ascends(q, l, h),
         NEW i \in 1 .. Len(q), NEW k \in Key, l <= k, Below(k, h),
         i > 1 => q[i - 1] < k, i < Len(q) => k < q[i + 1]
  PROVE  Ascends([q EXCEPT ![i] = k], l, h)
<1> DEFINE r == [q EXCEPT ![i] = k]
<1>1. /\ Len(q) \in Nat /\ \A j \in 1 .. Len(q) : q[j] \in Nat
      /\ k \in Nat
  BY KeysAreNat, BPlusTreeAssumption
<1>2. Len(r) = Len(q) /\ r[i] = k /\ \A j \in 1 .. Len(q) : j # i => r[j] = q[j]
  OBVIOUS
<1>3. \A m, j \in 1 .. Len(q) : m < j => q[m] < q[j]
  BY DEF Ascends, Sorted
<1> HIDE DEF r
<1>4. ASSUME NEW m \in 1 .. Len(q), NEW j \in 1 .. Len(q), m < j PROVE r[m] < r[j]
  <2>1. CASE m # i /\ j # i
    BY <1>2, <1>3, <1>4, <2>1
  <2>2. CASE m = i
    <3>1. i < Len(q) /\ i + 1 \in 1 .. Len(q) /\ j # i /\ (j = i + 1 \/ i + 1 < j)
      BY <1>1, <1>4, <2>2
    <3>2. k < q[i + 1] /\ q[i + 1] <= q[j]
      BY <1>1, <1>3, <3>1
    <3>3. k < q[j]
      BY <1>1, <3>1, <3>2
    <3> QED BY <1>2, <2>2, <3>1, <3>3
  <2>3. CASE j = i
    <3>1. i > 1 /\ i - 1 \in 1 .. Len(q) /\ m # i /\ (m = i - 1 \/ m < i - 1)
      BY <1>1, <1>4, <2>3
    <3>2. q[i - 1] < k /\ q[m] <= q[i - 1]
      BY <1>1, <1>3, <3>1
    <3>3. q[m] < k
      BY <1>1, <3>1, <3>2, SMTT(30)
    <3> QED BY <1>2, <2>3, <3>1, <3>3
  <2> QED BY <2>1, <2>2, <2>3
<1>5. ASSUME NEW j \in 1 .. Len(q) PROVE l <= r[j] /\ Below(r[j], h)
  <2>1. l <= q[j] /\ Below(q[j], h)
    BY DEF Ascends
  <2> QED BY <1>2, <2>1
<1> QED BY <1>2, <1>4, <1>5 DEF Ascends, Sorted, r

\* The interval of a ends and that of b begins at k now.
LowerAt(lo, b, k) == [m \in PageNumber |-> IF m = b THEN k ELSE lo[m]]

UpperAt(hi, a, k) == [m \in PageNumber |-> IF m = a THEN k ELSE hi[m]]

\* The key between the children a and b of P is replaced.
LEMMA ParentRekeyed ==
  ASSUME NEW p, NEW P, NEW lo, NEW hi, At(p, P, lo, hi, hi), p[P] \in Page, ~p[P].leaf, PageOK(p[P]),
         Range(p[P].children) \subseteq PageNumber,
         NEW a, NEW b, NEW s, NEW i, Adjacent(p, P, a, b, s, i), Meets(lo, hi, a, b, s),
         NEW k \in Key, lo[a] < k, Below(k, hi[b])
  PROVE  /\ Ascends([p[P].keys EXCEPT ![i] = k], lo[P] + 1, hi[P])
         /\ Parts([p[P].keys EXCEPT ![i] = k], p[P].children, lo[P], hi[P],
                  LowerAt(lo, b, k), UpperAt(hi, a, k))
<1> DEFINE q == p[P].keys
           c == p[P].children
           l == lo[P]
           h == hi[P]
           low == LowerAt(lo, b, k)
           high == UpperAt(hi, a, k)
           C == Nat \ {0}
<1>1. /\ q \in Seq(Key) /\ c \in Seq(C) /\ Len(c) = Len(q) + 1 /\ IsInjective(c)
      /\ Ascends(q, l + 1, h) /\ Parts(q, c, l, h, lo, hi)
      /\ Range(c) \subseteq PageNumber /\ l \in Nat /\ h \in Nat
  BY PageFields DEF PageOK, At
<1>2. i \in 1 .. Len(q) /\ q[i] = s /\ c[i] = a /\ c[i + 1] = b
  BY DEF Adjacent
<1> HIDE DEF q, c, C, l, h
<1>3. /\ Len(q) \in Nat /\ i \in Nat /\ i \in 1 .. Len(c) /\ i + 1 \in 1 .. Len(c)
      /\ \A j \in 1 .. Len(q) : q[j] \in Nat
  BY <1>1, <1>2, KeysAreNat
<1>4. lo[a] = Low(q, l, i) /\ hi[b] = High(q, h, i + 1) /\ k \in Nat
  BY <1>1, <1>2, <1>3, BPlusTreeAssumption DEF Parts
<1>5. i > 1 => q[i - 1] < k
  BY <1>3, <1>4 DEF Low
<1>6. i < Len(q) => k < q[i + 1]
  <2>1. ASSUME i < Len(q) PROVE k < q[i + 1]
    <3>1. i + 1 \in 1 .. Len(q)
      BY <1>3, <2>1
    <3>2. hi[b] = q[i + 1]
      BY <1>3, <1>4, <2>1, <3>1 DEF High
    <3>3. q[i + 1] > q[i] /\ q[i] \in Nat /\ q[i + 1] \in Nat
      BY <1>1, <1>2, <1>3, <3>1 DEF Ascends, Sorted
    <3> QED BY <3>2, <3>3 DEF Below
  <2> QED BY <2>1
<1>7. l + 1 <= k
  <2>1. CASE i = 1
    BY <1>1, <1>4, <2>1 DEF Low
  <2>2. CASE i # 1
    <3>1. i - 1 \in 1 .. Len(q) /\ i > 1
      BY <1>3, <1>2, <2>2
    <3>2. l + 1 <= q[i - 1] /\ q[i - 1] < k /\ q[i - 1] \in Nat
      BY <1>1, <1>3, <1>5, <3>1 DEF Ascends
    <3> QED BY <1>1, <1>4, <3>2
  <2> QED BY <2>1, <2>2
<1>8. Below(k, h)
  <2>1. CASE i + 1 > Len(q)
    BY <1>4, <2>1 DEF High
  <2>2. CASE ~(i + 1 > Len(q))
    <3>1. i + 1 \in 1 .. Len(q) /\ i < Len(q)
      BY <1>2, <1>3, <2>2
    <3>2. k < q[i + 1] /\ Below(q[i + 1], h) /\ q[i + 1] \in Nat
      BY <1>1, <1>3, <1>6, <3>1 DEF Ascends
    <3> QED BY <1>1, <1>4, <3>2 DEF Below
  <2> QED BY <2>1, <2>2
<1>9. Ascends([q EXCEPT ![i] = k], l + 1, h)
  <2>1. l + 1 \in Nat
    BY <1>1
  <2> QED BY <1>1, <1>2, <1>5, <1>6, <1>7, <1>8, <2>1, AscendsRekeyed
<1>10. \A j \in 1 .. Len(c) : c[j] \in PageNumber /\ (c[j] = a <=> j = i) /\ (c[j] = b <=> j = i + 1)
  <2>1. \A j, m \in 1 .. Len(c) : c[j] = c[m] => j = m
    BY <1>1, Injective
  <2> QED BY <1>1, <1>2, <1>3, <2>1, InRange
<1>11. /\ \A j \in 1 .. Len(c) : low[c[j]] = IF j = i + 1 THEN k ELSE lo[c[j]]
       /\ \A j \in 1 .. Len(c) : high[c[j]] = IF j = i THEN k ELSE hi[c[j]]
  BY <1>10 DEF LowerAt, UpperAt
<1> HIDE DEF low, high
<1>12. Parts([q EXCEPT ![i] = k], c, l, h, low, high)
  <2>1. TurnsAt(c, i, k, lo, hi, low, high)
    BY <1>11 DEF TurnsAt
  <2>2. q \in Seq(Key) /\ Len(c) = Len(q) + 1 /\ Parts(q, c, l, h, lo, hi) /\ i \in 1 .. Len(q)
    BY <1>1, <1>2
  <2> DEFINE t == [q EXCEPT ![i] = k]
  <2>3. t = [q EXCEPT ![i] = k]
    OBVIOUS
  <2> HIDE DEF t
  <2>4. Parts(t, c, l, h, low, high)
    BY <2>1, <2>2, <2>3, PartsRekeyed
  <2> QED BY <2>4 DEF t
<1> QED BY <1>9, <1>12 DEF q, c, l, h, low, high

\* The entries of one page of two neighbours, with its new interval.
ShareInOrder(p, q, n, l, h, lo, hi) ==
  /\ q[n].leaf = p[n].leaf
  /\ q[n].leaf => Ascends(q[n].keys, l, h) /\ q[n].right = p[n].right
  /\ ~q[n].leaf => Ascends(q[n].keys, l + 1, h) /\ Parts(q[n].keys, q[n].children, l, h, lo, hi)

\* The pages q are those of p, but the pages a and b have shared what they had, and k is the
\* key between them.
SharedInOrder(p, q, U, a, b, P, i, k, lo, hi) ==
  /\ q \in [PageNumber -> Page] /\ k \in Key /\ lo[a] < k /\ Below(k, hi[b])
  /\ q[P].leaf = p[P].leaf /\ q[P].children = p[P].children
  /\ q[P].keys = [p[P].keys EXCEPT ![i] = k]
  /\ \A m \in U : m \notin {a, b, P} => Twin(p[m], q[m])
  /\ ShareInOrder(p, q, a, lo[a], k, lo, hi) /\ ShareInOrder(p, q, b, k, hi[b], lo, hi)
  /\ Range(q[a].children) \union Range(q[b].children)
       \subseteq Range(p[a].children) \union Range(p[b].children)
  /\ p[a].leaf => Range(q[a].keys) \union Range(q[b].keys) = Range(p[a].keys) \union Range(p[b].keys)

LEMMA ShareAt ==
  ASSUME NEW p, NEW q, NEW n, NEW l, NEW h, NEW lo, NEW hi, ShareInOrder(p, q, n, l, h, lo, hi),
         q[n] \in Page, l \in Nat, h \in Nat, Below(l, h),
         NEW low, NEW high, low[n] = l, high[n] = h,
         \A x \in Range(q[n].children) : low[x] = lo[x] /\ high[x] = hi[x]
  PROVE  At(q, n, low, high, high)
<1>1. CASE q[n].leaf
  BY <1>1 DEF ShareInOrder, At
<1>2. CASE ~q[n].leaf
  <2> DEFINE c == q[n].children
             s == q[n].keys
  <2>1. c \in Seq(Nat \ {0})
    BY PageFields
  <2>2. Parts(s, c, l, h, lo, hi) /\ Ascends(s, l + 1, h)
    BY <1>2 DEF ShareInOrder
  <2> HIDE DEF c, s
  <2>3. \A j \in 1 .. Len(c) : c[j] \in Range(c)
    BY <2>1, InRange
  <2>4. \A j \in 1 .. Len(c) : low[c[j]] = lo[c[j]] /\ high[c[j]] = hi[c[j]]
    BY <2>3 DEF c
  <2>5. Parts(s, c, l, h, low, high)
    BY <2>2, <2>4, PartsSame
  <2> QED BY <1>2, <2>2, <2>5 DEF At, c, s
<1> QED BY <1>1, <1>2

LEMMA SharedOrders ==
  ASSUME NEW d, NEW lev, NEW a, NEW b, NEW s, NEW P, NEW lo, NEW hi, NEW R,
         NeighborFacts(d, lev, a, b, s, P, lo, hi, R), NEW i, Adjacent(d.page, P, a, b, s, i),
         NEW q, NEW k, SharedInOrder(d.page, q, Used(d.free), a, b, P, i, k, lo, hi)
  PROVE  Orders(q, d.root, Used(d.free), LowerAt(lo, b, k), UpperAt(hi, a, k), UpperAt(hi, a, k), R)
<1> DEFINE p == d.page
           U == Used(d.free)
           low == LowerAt(lo, b, k)
           high == UpperAt(hi, a, k)
           r == d.root
<1>1. /\ Tree(p, r, d.free, lev, {}, {d.n}) /\ Ordered(p, r, U, lo, hi, hi) /\ Chain(p, U, lo, hi)
      /\ Records(p, U) = R /\ a \in U /\ b \in U /\ P \in U /\ a # b /\ P # a /\ P # b
      /\ a # r /\ b # r /\ P = p[a].parent /\ P = p[b].parent /\ p[a].leaf = p[b].leaf /\ ~p[P].leaf
      /\ U \subseteq PageNumber /\ p \in [PageNumber -> Page]
  BY DEF NeighborFacts
<1>2. \A m \in U : \A x \in Range(p[m].children) : x \in U /\ x \in PageNumber /\ p[x].parent = m
  BY DEF NeighborFacts
<1>3. /\ At(p, a, lo, hi, hi) /\ At(p, b, lo, hi, hi) /\ At(p, P, lo, hi, hi)
      /\ p[P] \in Page /\ PageOK(p[P])
  BY DEF NeighborFacts
<1>4. Meets(lo, hi, a, b, s) /\ s \in Key
  BY DEF NeighborFacts
<1>5. /\ q \in [PageNumber -> Page] /\ k \in Key /\ lo[a] < k /\ Below(k, hi[b])
      /\ q[P].leaf = p[P].leaf /\ q[P].children = p[P].children
      /\ q[P].keys = [p[P].keys EXCEPT ![i] = k]
      /\ \A m \in U : m \notin {a, b, P} => Twin(p[m], q[m])
      /\ ShareInOrder(p, q, a, lo[a], k, lo, hi) /\ ShareInOrder(p, q, b, k, hi[b], lo, hi)
      /\ Range(q[a].children) \union Range(q[b].children)
           \subseteq Range(p[a].children) \union Range(p[b].children)
      /\ (p[a].leaf => Range(q[a].keys) \union Range(q[b].keys) = Range(p[a].keys) \union Range(p[b].keys))
  BY DEF SharedInOrder
<1>6. /\ high[a] = k /\ \A m \in PageNumber : m # a => high[m] = hi[m]
      /\ low[b] = k /\ \A m \in PageNumber : m # b => low[m] = lo[m]
  BY <1>1 DEF LowerAt, UpperAt
<1>7. k \in Nat \ {0} /\ lo[a] \in Nat /\ hi[b] \in Nat
  <2>1. k \in Nat /\ lo[a] \in Nat /\ hi[b] \in Nat
    BY <1>3, <1>5, BPlusTreeAssumption DEF At
  <2> QED BY <1>5, <2>1
<1>8. /\ Ascends(q[P].keys, lo[P] + 1, hi[P])
      /\ Parts(q[P].keys, q[P].children, lo[P], hi[P], low, high)
  <2>1. Range(p[P].children) \subseteq PageNumber
    BY <1>1, <1>2, SMTT(30)
  <2>2. ~p[P].leaf /\ k \in Key /\ lo[a] < k /\ Below(k, hi[b]) /\ Adjacent(p, P, a, b, s, i)
    BY <1>1, <1>5
  <2> HIDE DEF p, low, high
  <2>3. /\ Ascends([p[P].keys EXCEPT ![i] = k], lo[P] + 1, hi[P])
        /\ Parts([p[P].keys EXCEPT ![i] = k], p[P].children, lo[P], hi[P],
                 LowerAt(lo, b, k), UpperAt(hi, a, k))
    BY <1>3, <1>4, <2>1, <2>2, ParentRekeyed
  <2>4. q[P].keys = [p[P].keys EXCEPT ![i] = k] /\ q[P].children = p[P].children
    BY <1>5
  <2> QED BY <2>3, <2>4 DEF low, high
<1> HIDE DEF low, high, p, U
<1>9. \A m \in U : m # P => \A x \in Range(p[m].children) : low[x] = lo[x] /\ high[x] = hi[x]
  <2> SUFFICES ASSUME NEW m \in U, m # P, NEW x \in Range(p[m].children)
               PROVE  low[x] = lo[x] /\ high[x] = hi[x]
    OBVIOUS
  <2>1. x \in PageNumber /\ p[x].parent = m
    BY <1>2 DEF p, U
  <2>2. x # a /\ x # b
    BY <1>1, <2>1 DEF p
  <2> QED BY <1>6, <2>1, <2>2
<1>10. ASSUME NEW m \in U PROVE At(q, m, low, high, high)
  <2>1. ASSUME NEW x \in Range(q[a].children) \union Range(q[b].children)
        PROVE  low[x] = lo[x] /\ high[x] = hi[x]
    BY <1>1, <1>5, <1>9, <2>1
  <2>2. CASE m = a
    <3>1. q[a] \in Page /\ low[a] = lo[a] /\ Below(lo[a], k)
      BY <1>1, <1>5, <1>6 DEF Below
    <3> QED BY <1>5, <1>6, <1>7, <2>1, <2>2, <3>1, ShareAt
  <2>3. CASE m = b
    <3>1. q[b] \in Page /\ high[b] = hi[b]
      BY <1>1, <1>5, <1>6, SMTT(30)
    <3> QED BY <1>5, <1>6, <1>7, <2>1, <2>3, <3>1, ShareAt
  <2>4. CASE m = P
    BY <1>1, <1>3, <1>5, <1>6, <1>8, <2>4 DEF At
  <2>5. CASE m \notin {a, b, P}
    <3>1. Twin(p[m], q[m]) /\ At(p, m, lo, hi, hi)
      BY <1>1, <1>5, <2>5 DEF Ordered
    <3>2. ~p[m].leaf => \A j \in 1 .. Len(p[m].children) :
                          /\ low[p[m].children[j]] = lo[p[m].children[j]]
                          /\ high[p[m].children[j]] = hi[p[m].children[j]]
      <4> DEFINE c == p[m].children
      <4>1. c \in Seq(Nat \ {0})
        BY <1>1, PageFields
      <4> HIDE DEF c
      <4>2. \A j \in 1 .. Len(c) : c[j] \in Range(c)
        BY <4>1, InRange
      <4> QED BY <1>9, <2>5, <4>2 DEF c
    <3>3. AtStays(p, m, lo, hi, hi, q, low, high, high)
      BY <1>1, <1>6, <2>5, <3>1, <3>2 DEF AtStays, Twin
    <3> QED BY <3>3, AtSame
  <2> QED BY <2>2, <2>3, <2>4, <2>5
<1>11. Ordered(q, r, U, low, high, high)
  <2>1. r \in PageNumber
    BY <1>1, TreePage DEF p, U
  <2> QED BY <1>1, <1>6, <1>10, <2>1 DEF Ordered
<1>12. Orders(p, r, U, lo, hi, hi, R)
  BY <1>1 DEF Orders
<1>13. CASE p[a].leaf
  <2>1. p[b].leaf /\ q[a].leaf /\ q[b].leaf /\ q[a].right = p[a].right /\ q[b].right = p[b].right
    BY <1>1, <1>5, <1>13 DEF ShareInOrder
  <2>2. hi[a] = s /\ lo[b] = s /\ s # 0 /\ Below(s, hi[b])
    BY <1>4 DEF Meets
  <2>3. p[a].right = b /\ b # 0 /\ \A x \in U : p[x].leaf /\ x # a => p[x].right # b
    BY <1>1, <1>12, <1>13, <2>1, <2>2, NextLeaf DEF U
  <2>4. \A m \in U : q[m].leaf <=> p[m].leaf
    BY <1>1, <1>5, <1>13, <2>1 DEF Twin
  <2>5. \A m \in U : p[m].leaf => q[m].right = p[m].right
    BY <1>1, <1>5, <1>13, <2>1 DEF Twin
  <2>6. ASSUME NEW m \in U, q[m].leaf PROVE Follows(q, U, low, high, m)
    <3>1. CASE m = a
      BY <1>1, <1>6, <1>7, <2>1, <2>3, <3>1 DEF Follows
    <3>2. CASE m # a
      <4>1. p[m].leaf /\ q[m].right = p[m].right /\ Follows(p, U, lo, hi, m) /\ high[m] = hi[m]
        BY <1>1, <1>6, <2>4, <2>5, <2>6, <3>2 DEF Chain
      <4>2. p[m].right # b
        BY <2>3, <3>2, <4>1
      <4>3. p[m].right \in U => low[p[m].right] = lo[p[m].right]
        BY <1>1, <1>6, <4>2
      <4> QED BY <2>4, <4>1, <4>3 DEF Follows
    <3> QED BY <3>1, <3>2
  <2>7. Records(q, U) = Records(p, U)
    <3>1. \A m \in U : m \notin {a, b} /\ p[m].leaf => q[m].keys = p[m].keys
      BY <1>1, <1>5 DEF Twin
    <3>2. \A x \in Key : (\E m \in U : q[m].leaf /\ x \in Range(q[m].keys))
                         <=> \E m \in U : p[m].leaf /\ x \in Range(p[m].keys)
      <4> SUFFICES ASSUME NEW x \in Key
                   PROVE (\E m \in U : q[m].leaf /\ x \in Range(q[m].keys))
                         <=> \E m \in U : p[m].leaf /\ x \in Range(p[m].keys)
        OBVIOUS
      <4>0. x \in Range(q[a].keys) \/ x \in Range(q[b].keys)
            <=> x \in Range(p[a].keys) \/ x \in Range(p[b].keys)
        BY <1>5, <1>13
      <4>1. ASSUME NEW m \in U, q[m].leaf, x \in Range(q[m].keys)
            PROVE  \E n \in U : p[n].leaf /\ x \in Range(p[n].keys)
        <5>1. CASE m \in {a, b}
          BY <1>1, <1>13, <2>1, <4>0, <4>1, <5>1
        <5>2. CASE m \notin {a, b}
          BY <2>4, <3>1, <4>1, <5>2
        <5> QED BY <5>1, <5>2
      <4>2. ASSUME NEW m \in U, p[m].leaf, x \in Range(p[m].keys)
            PROVE  \E n \in U : q[n].leaf /\ x \in Range(q[n].keys)
        <5>1. CASE m \in {a, b}
          BY <1>1, <2>1, <4>0, <4>2, <5>1
        <5>2. CASE m \notin {a, b}
          BY <2>4, <3>1, <4>2, <5>2
        <5> QED BY <5>1, <5>2
      <4> QED BY <4>1, <4>2
    <3> QED BY <3>2 DEF Records
  <2>8. Orders(q, r, U, low, high, high, R)
    BY <1>1, <1>11, <2>6, <2>7 DEF Orders, Chain
  <2> QED BY <2>8 DEF low, high, U
<1>14. CASE ~p[a].leaf
  <2>1. ~p[b].leaf /\ ~q[a].leaf /\ ~q[b].leaf
    BY <1>1, <1>5, <1>14 DEF ShareInOrder
  <2>2. \A m \in U : q[m].leaf <=> p[m].leaf
    BY <1>1, <1>5, <1>14, <2>1 DEF Twin
  <2>3. \A m \in U : p[m].leaf => m \notin {a, b, P} /\ m \in PageNumber
    BY <1>1, <1>14, <2>1
  <2>4. SameLeaves(p, U, lo, hi, q, U, low, high)
    BY <1>5, <1>6, <2>2, <2>3 DEF SameLeaves, Twin
  <2>5. Chain(q, U, low, high) /\ Records(q, U) = Records(p, U)
    BY <1>1, <2>4, LeavesStay
  <2>6. Orders(q, r, U, low, high, high, R)
    BY <1>1, <1>11, <2>5 DEF Orders
  <2> QED BY <2>6 DEF low, high, U
<1> QED BY <1>13, <1>14 DEF p

\* What the entries that turn leave of each page.
TurnedPages(p, q, a, b, P, u, v, y, z, i, k) ==
  /\ q \in [PageNumber -> Page]
  /\ q[a].leaf = p[a].leaf /\ q[a].keys = u /\ q[a].children = v
  /\ q[b].leaf = p[b].leaf /\ q[b].keys = y /\ q[b].children = z
  /\ q[P].leaf = p[P].leaf /\ q[P].keys = [p[P].keys EXCEPT ![i] = k] /\ q[P].children = p[P].children
  /\ \A m \in PageNumber : m \notin {a, b, P} => Twin(p[m], q[m])

LEMMA TurnedAre ==
  ASSUME NEW p \in [PageNumber -> Page], NEW a \in PageNumber, NEW b \in PageNumber,
         NEW P \in PageNumber, a # b, P # a, P # b,
         NEW u \in Seq(Key), NEW v \in Seq(Nat \ {0}), NEW y \in Seq(Key), NEW z \in Seq(Nat \ {0}),
         NEW i \in 1 .. Len(p[P].keys), NEW k \in Key, NEW x
  PROVE  TurnedPages(p, WithParent(Turned(p, a, b, P, u, v, y, z, i, k), {x}, a),
                     a, b, P, u, v, y, z, i, k)
<1> DEFINE f == Regrouped(p[a], u, v)
           g == Regrouped(p[b], y, z)
           h == Rekeyed(p[P], i, k)
           w == Turned(p, a, b, P, u, v, y, z, i, k)
           q == WithParent(w, {x}, a)
<1>1. f \in Page /\ f.leaf = p[a].leaf /\ f.keys = u /\ f.children = v
  <2> DEFINE e == p[a]
  <2>1. e \in Page
    OBVIOUS
  <2> HIDE DEF e
  <2>2. Regrouped(e, u, v) \in Page /\ Regrouped(e, u, v).leaf = e.leaf
        /\ Regrouped(e, u, v).keys = u /\ Regrouped(e, u, v).children = v
    BY <2>1 DEF Regrouped, Page
  <2> QED BY <2>2 DEF e
<1>2. g \in Page /\ g.leaf = p[b].leaf /\ g.keys = y /\ g.children = z
  <2> DEFINE e == p[b]
  <2>1. e \in Page
    OBVIOUS
  <2> HIDE DEF e
  <2>2. Regrouped(e, y, z) \in Page /\ Regrouped(e, y, z).leaf = e.leaf
        /\ Regrouped(e, y, z).keys = y /\ Regrouped(e, y, z).children = z
    BY <2>1 DEF Regrouped, Page
  <2> QED BY <2>2 DEF e
<1>3. h \in Page /\ h.leaf = p[P].leaf /\ h.keys = [p[P].keys EXCEPT ![i] = k]
      /\ h.children = p[P].children
  <2> DEFINE e == p[P]
             s == [e.keys EXCEPT ![i] = k]
  <2>1. e \in Page /\ e.keys \in Seq(Key)
    BY PageFields
  <2>2. s \in Seq(Key)
    BY <2>1
  <2> HIDE DEF e, s
  <2>3. Rekeyed(e, i, k) = [e EXCEPT !.keys = s]
    BY DEF Rekeyed, s
  <2>4. [e EXCEPT !.keys = s] \in Page /\ [e EXCEPT !.keys = s].leaf = e.leaf
        /\ [e EXCEPT !.keys = s].keys = s /\ [e EXCEPT !.keys = s].children = e.children
    BY <2>1, <2>2 DEF Page
  <2> QED BY <2>3, <2>4 DEF e, s
<1> HIDE DEF f, g, h
<1>4. w = ThreePages(p, a, f, b, g, P, h)
  BY DEF Turned, f, g, h
<1> HIDE DEF w
<1>5. Changed(p, w, a, f, b, g, P, h)
  BY <1>1, <1>2, <1>3, <1>4, ThreeAre
<1>6. /\ w \in [PageNumber -> Page] /\ w[a] = f /\ w[b] = g /\ w[P] = h
      /\ \A m \in PageNumber : m \notin {a, b, P} => w[m] = p[m]
  BY <1>5 DEF Changed
<1>7. \A m \in PageNumber : Twin(w[m], q[m])
  BY <1>6, NewParentTwin
<1>8. q \in [PageNumber -> Page]
  BY <1>6, NewParent, PageNumbers
<1> HIDE DEF q
<1>9. \A m \in PageNumber : m \notin {a, b, P} => Twin(p[m], q[m])
  BY <1>6, <1>7
<1>10. Twin(f, q[a]) /\ Twin(g, q[b]) /\ Twin(h, q[P])
  BY <1>6, <1>7
<1> QED BY <1>1, <1>2, <1>3, <1>8, <1>9, <1>10 DEF TurnedPages, Twin, q, w

\* The pages of two internal neighbours that turn are in order, and the deletion ends.
LEMMA EndsInOrder ==
  ASSUME NEW d, IsDelete(d), NEW q \in [PageNumber -> Page], NEW lev,
         Tree(q, d.root, d.free, lev, {}, {}), NEW lo, NEW hi, NEW R,
         Orders(q, d.root, Used(d.free), lo, hi, hi, R)
  PROVE  DueInOrder([d EXCEPT !.page = q, !.n = 0], R)
<1> DEFINE e == [d EXCEPT !.page = q, !.n = 0]
<1>1. e.n = 0 /\ e.page = q /\ e.root = d.root /\ e.free = d.free
  BY DEF IsDelete
<1>2. d.root # 0
  BY PageNumbers DEF Tree, Linked
<1> HIDE DEF e
<1> QED BY <1>1, <1>2 DEF DueInOrder, Holding, InOrder, e

\* The last key of a page goes, or the first one.
LEMMA LastAscends ==
  ASSUME NEW q \in Seq(Key), Len(q) >= 1, NEW l \in Nat, NEW h \in Nat, Ascends(q, l, h)
  PROVE  Ascends(Front(q), l, Last(q)) /\ Last(q) \in Key /\ l <= Last(q) /\ Below(Last(q), h)
<1>1. Len(q) \in 1 .. Len(q) /\ Last(q) = q[Len(q)] /\ Last(q) \in Key
  BY KeysAreNat, LastAway
<1>2. Ascends(SubSeq(q, 1, Len(q) - 1), l, q[Len(q)])
  BY <1>1, AscendsCut
<1>3. Front(q) = SubSeq(q, 1, Len(q) - 1)
  BY DEF Front
<1>4. l <= q[Len(q)] /\ Below(q[Len(q)], h)
  BY <1>1 DEF Ascends
<1> QED BY <1>1, <1>2, <1>3, <1>4

LEMMA FirstAscends ==
  ASSUME NEW q \in Seq(Key), Len(q) >= 1, NEW l \in Nat, NEW h \in Nat, Ascends(q, l, h)
  PROVE  Ascends(Tail(q), Head(q) + 1, h) /\ Head(q) \in Key /\ l <= Head(q) /\ Below(Head(q), h)
<1>1. 1 \in 1 .. Len(q) /\ Head(q) = q[1] /\ Head(q) \in Key
  BY KeysAreNat, FirstAway
<1>2. Ascends(SubSeq(q, 1 + 1, Len(q)), q[1] + 1, h)
  BY <1>1, AscendsCut
<1>3. Tail(q) = SubSeq(q, 1 + 1, Len(q))
  OBVIOUS
<1>4. l <= q[1] /\ Below(q[1], h)
  BY <1>1 DEF Ascends
<1> QED BY <1>1, <1>2, <1>3, <1>4

\* The last child of a page goes, with the separator before it.
LEMMA PartsLast ==
  ASSUME NEW S, NEW s \in Seq(S), NEW C, NEW c \in Seq(C), Len(c) = Len(s) + 1, Len(s) >= 1,
         NEW l, NEW h, NEW lo, NEW hi, Parts(s, c, l, h, lo, hi)
  PROVE  /\ Parts(Front(s), Front(c), l, Last(s), lo, hi)
         /\ lo[Last(c)] = Last(s) /\ hi[Last(c)] = h
<1>1. Len(s) \in Nat /\ Len(s) \in 1 .. Len(s) /\ Len(c) \in 1 .. Len(c) /\ Len(c) - 1 = Len(s)
  OBVIOUS
<1>2. Last(s) = s[Len(s)] /\ Last(c) = c[Len(c)]
  BY DEF Last
<1>3. Front(s) = SubSeq(s, 1, Len(s) - 1) /\ Front(c) = SubSeq(c, 1, Len(s))
  BY <1>1 DEF Front
<1>4. Parts(SubSeq(s, 1, Len(s) - 1), SubSeq(c, 1, Len(s)), l, s[Len(s)], lo, hi)
  BY <1>1, PartsCut
<1>5. lo[c[Len(c)]] = Low(s, l, Len(c)) /\ hi[c[Len(c)]] = High(s, h, Len(c))
  BY <1>1 DEF Parts
<1>6. Low(s, l, Len(c)) = s[Len(s)] /\ High(s, h, Len(c)) = h
  BY <1>1 DEF Low, High
<1> QED BY <1>2, <1>3, <1>4, <1>5, <1>6

\* There are separators, and one child more.
Parted(S, s, C, c, l, h, lo, hi) ==
  s \in Seq(S) /\ c \in Seq(C) /\ Len(c) = Len(s) + 1 /\ Len(s) >= 1 /\ Parts(s, c, l, h, lo, hi)

\* The first one goes, with the separator behind it.
LEMMA PartsFirst ==
  ASSUME NEW S, NEW s, NEW C, NEW c, NEW l, NEW h, NEW lo, NEW hi, Parted(S, s, C, c, l, h, lo, hi)
  PROVE  /\ Parts(Tail(s), Tail(c), Head(s), h, lo, hi)
         /\ lo[Head(c)] = l /\ hi[Head(c)] = Head(s)
<1>0. s \in Seq(S) /\ c \in Seq(C) /\ Len(c) = Len(s) + 1 /\ Len(s) >= 1 /\ Parts(s, c, l, h, lo, hi)
  BY DEF Parted
<1>1. Len(s) \in Nat /\ 1 \in 1 .. Len(s) /\ 1 \in 1 .. Len(c)
  BY <1>0
<1>2. Head(s) = s[1] /\ Head(c) = c[1]
  BY <1>0
<1>3. Tail(s) = SubSeq(s, 1 + 1, Len(s)) /\ Tail(c) = SubSeq(c, 1 + 1, Len(c))
  BY <1>0
<1>4. Parts(SubSeq(s, 1 + 1, Len(s)), SubSeq(c, 1 + 1, Len(c)), s[1], h, lo, hi)
  BY <1>0, <1>1, PartsCut
<1>5. lo[c[1]] = Low(s, l, 1) /\ hi[c[1]] = High(s, h, 1)
  BY <1>0, <1>1 DEF Parts
<1>6. Low(s, l, 1) = l /\ High(s, h, 1) = s[1]
  BY <1>1 DEF Low, High
<1> QED BY <1>2, <1>3, <1>4, <1>5, <1>6

\* A child is put in front, or behind.
LEMMA PartsPrefixed ==
  ASSUME NEW S, NEW s \in Seq(S), NEW C, NEW c \in Seq(C), Len(c) = Len(s) + 1, NEW k \in S, NEW x \in C,
         NEW l, NEW h, NEW lo, NEW hi, Parts(s, c, k, h, lo, hi), lo[x] = l, hi[x] = k
  PROVE  Parts(<<k>> \o s, <<x>> \o c, l, h, lo, hi)
<1> DEFINE a == << >>
           d == <<x>>
<1>1. a \in Seq(S) /\ Len(a) = 0
  OBVIOUS
<1>2. d \in Seq(C) /\ Len(d) = 1 /\ d[1] = x
  BY Single
<1>3. a \o <<k>> = <<k>>
  OBVIOUS
<1> HIDE DEF a, d
<1>4. Parts(a, d, l, k, lo, hi)
  BY <1>1, <1>2 DEF Parts, Low, High
<1>5. Parts((a \o <<k>>) \o s, d \o c, l, h, lo, hi)
  <2>1. Len(d) = Len(a) + 1
    BY <1>1, <1>2
  <2> QED BY <1>1, <1>2, <1>4, <2>1, PartsJoined
<1> QED BY <1>3, <1>5 DEF d

LEMMA PartsAppended ==
  ASSUME NEW S, NEW s \in Seq(S), NEW C, NEW c \in Seq(C), Len(c) = Len(s) + 1, NEW k \in S, NEW x \in C,
         NEW l, NEW h, NEW lo, NEW hi, Parts(s, c, l, k, lo, hi), lo[x] = k, hi[x] = h
  PROVE  Parts(Append(s, k), Append(c, x), l, h, lo, hi)
<1> DEFINE b == << >>
           d == <<x>>
<1>1. b \in Seq(S) /\ Len(b) = 0
  OBVIOUS
<1>2. d \in Seq(C) /\ Len(d) = 1 /\ d[1] = x
  BY Single
<1>3. Append(s, k) = s \o <<k>> /\ Append(c, x) = c \o d /\ Append(s, k) \in Seq(S)
  <2>1. Append(s, k) = s \o <<k>>
    OBVIOUS
  <2>2. Append(c, x) = c \o d
    OBVIOUS
  <2>3. Append(s, k) \in Seq(S)
    OBVIOUS
  <2> QED BY <2>1, <2>2, <2>3
<1>4. Append(s, k) \o b = Append(s, k)
  BY <1>3
<1> HIDE DEF b, d
<1>5. Parts(b, d, k, h, lo, hi)
  BY <1>1, <1>2 DEF Parts, Low, High
<1>6. Parts((s \o <<k>>) \o b, c \o d, l, h, lo, hi)
  <2>1. Len(d) = Len(b) + 1
    BY <1>1, <1>2
  <2> QED BY <1>1, <1>2, <1>5, <2>1, PartsJoined
<1> QED BY <1>3, <1>4, <1>6

\* u is the elements of q and the element e behind them.
PutsLast(T, q, e, u) == q \in Seq(T) /\ e \in T /\ u = Append(q, e)

\* An element is put behind others.
LEMMA WithLast ==
  ASSUME NEW T, NEW q, NEW e, NEW u, PutsLast(T, q, e, u)
  PROVE  u \in Seq(T) /\ Range(u) = Range(q) \union {e}
<1>0. q \in Seq(T) /\ e \in T /\ u = Append(q, e)
  BY DEF PutsLast
<1>1. /\ Len(q) \in Nat /\ u \in Seq(T) /\ Len(u) = Len(q) + 1 /\ u[Len(q) + 1] = e
      /\ \A j \in 1 .. Len(q) : u[j] = q[j]
  BY <1>0
<1>2. \A j \in 1 .. Len(u) : j \in 1 .. Len(q) \/ j = Len(q) + 1
  BY <1>1
<1>3. \A j \in 1 .. Len(q) : j \in 1 .. Len(u)
  BY <1>1
<1>4. Len(q) + 1 \in 1 .. Len(u)
  BY <1>1
<1>5. ASSUME NEW x PROVE x \in Range(u) <=> x \in Range(q) \/ x = e
  <2>1. x \in Range(u) <=> \E j \in 1 .. Len(u) : u[j] = x
    BY <1>1, InRange
  <2>2. x \in Range(q) <=> \E j \in 1 .. Len(q) : q[j] = x
    BY <1>0, InRange
  <2>3. ASSUME NEW j \in 1 .. Len(u), u[j] = x PROVE (\E g \in 1 .. Len(q) : q[g] = x) \/ x = e
    BY <1>1, <1>2, <2>3
  <2>4. ASSUME NEW j \in 1 .. Len(q), q[j] = x PROVE \E g \in 1 .. Len(u) : u[g] = x
    BY <1>1, <1>3, <2>4
  <2>5. ASSUME x = e PROVE \E g \in 1 .. Len(u) : u[g] = x
    BY <1>1, <1>4, <2>5
  <2> QED BY <2>1, <2>2, <2>3, <2>4, <2>5
<1>6. Range(u) = Range(q) \union {e}
  BY <1>5
<1> QED BY <1>1, <1>6

\* The last child of the left neighbour changes over.
LEMMA TakeLastOrders ==
  ASSUME NEW d, NEW lev, NEW n, NEW b, NEW s, NEW P, NEW i, Apart(d, lev, n, b, s, P, i),
         ~d.page[n].leaf, NEW lo, NEW hi, NEW R,
         NeighborFacts(d, lev, b, n, s, P, lo, hi, R), Adjacent(d.page, P, b, n, s, i)
  PROVE  DueInOrder(TakeLastChild(d, b, n, i), R)
<1> DEFINE p == d.page
           U == Used(d.free)
           F == p[n].keys
           V == p[n].children
           H == p[b].keys
           W == p[b].children
           k == Last(H)
           x == Last(W)
           u == <<s>> \o F
           v == <<x>> \o V
           y == Front(H)
           z == Front(W)
           q == LastPassed(p, n, b, P, i)
           C == Nat \ {0}
<1>1. /\ n \in U /\ b \in U /\ P \in U /\ b # n /\ P # n /\ P # b /\ p[n].leaf = p[b].leaf
      /\ p[n] \in Page /\ p[b] \in Page /\ p[P] \in Page /\ PageOK(p[n]) /\ PageOK(p[b])
      /\ At(p, n, lo, hi, hi) /\ At(p, b, lo, hi, hi) /\ Meets(lo, hi, b, n, s) /\ s \in Key
      /\ U \subseteq PageNumber /\ p \in [PageNumber -> Page]
      /\ IsDelete(d)
  BY DEF NeighborFacts, Apart, Beside
<1>2. p[P].keys[i] = s /\ i \in 1 .. Len(p[P].keys)
  BY DEF Adjacent
<1>3. /\ TakeLastChild(d, b, n, i) = [d EXCEPT !.page = q, !.n = 0]
      /\ Tree(q, d.root, d.free, lev, {}, {})
  BY TakeLastIs
<1>4. /\ F \in Seq(Key) /\ V \in Seq(C) /\ H \in Seq(Key) /\ W \in Seq(C)
      /\ Len(V) = Len(F) + 1 /\ Len(W) = Len(H) + 1 /\ Len(H) >= 1 /\ Len(W) >= 1
      /\ IsInjective(W)
  BY <1>1, ApartInternal, PageFields DEF PageOK
<1>5. /\ Ascends(F, s + 1, hi[n]) /\ Parts(F, V, s, hi[n], lo, hi)
      /\ Ascends(H, lo[b] + 1, s) /\ Parts(H, W, lo[b], s, lo, hi)
      /\ lo[b] \in Nat /\ hi[n] \in Nat /\ s \in Nat \ {0} /\ Below(s, hi[n])
      /\ lo[b] + 1 \in Nat
  <2>1. hi[b] = s /\ lo[n] = s /\ s \in Nat \ {0} /\ Below(s, hi[n])
    BY <1>1 DEF Meets
  <2>2. lo[b] \in Nat /\ hi[n] \in Nat
    BY <1>1 DEF At
  <2> QED BY <1>1, <2>1, <2>2 DEF At
<1>6. q = WithParent(Turned(p, n, b, P, u, v, y, z, i, k), {x}, n)
  BY <1>2 DEF LastPassed
<1> HIDE DEF p, F, V, H, W, C
<1>7. Ascends(y, lo[b] + 1, k) /\ k \in Key /\ lo[b] + 1 <= k /\ Below(k, s)
  BY <1>4, <1>5, LastAscends
<1>8. Parts(y, z, lo[b], k, lo, hi) /\ lo[x] = k /\ hi[x] = s
  BY <1>4, <1>5, PartsLast
<1>9. x \in C /\ x \in Range(W) /\ y \in Seq(Key) /\ z \in Seq(C) /\ Range(z) \subseteq Range(W)
  BY <1>4, LastAway
<1> HIDE DEF k, x, y, z
<1>10. k \in Nat /\ lo[b] < k /\ k + 1 <= s /\ Below(k, hi[n])
  <2>1. k \in Nat
    BY <1>7, BPlusTreeAssumption
  <2> QED BY <1>5, <1>7, <2>1 DEF Below
<1>11. Ascends(u, k + 1, hi[n]) /\ u \in Seq(Key)
  <2>1. k + 1 \in Nat
    BY <1>10
  <2>2. u \in Seq(Key)
    BY <1>1, <1>4, PutFirst
  <2> QED BY <1>1, <1>4, <1>5, <1>10, <2>1, <2>2, AscendsPrefixed
<1>12. v \in Seq(C) /\ Range(v) = Range(V) \union {x}
  BY <1>4, <1>9, PutFirst
<1>13. Parts(u, v, k, hi[n], lo, hi)
  BY <1>1, <1>4, <1>5, <1>8, <1>9, PartsPrefixed
<1> HIDE DEF u, v, q
<1>14. TurnedPages(p, q, n, b, P, u, v, y, z, i, k)
  <2>1. /\ n \in PageNumber /\ b \in PageNumber /\ P \in PageNumber /\ i \in 1 .. Len(p[P].keys)
        /\ v \in Seq(Nat \ {0}) /\ z \in Seq(Nat \ {0})
    BY <1>1, <1>2, <1>9, <1>12 DEF C, p
  <2> QED BY <1>1, <1>6, <1>7, <1>9, <1>11, <2>1, TurnedAre
<1>15. /\ q \in [PageNumber -> Page]
       /\ q[n].leaf = p[n].leaf /\ q[n].keys = u /\ q[n].children = v
       /\ q[b].leaf = p[b].leaf /\ q[b].keys = y /\ q[b].children = z
       /\ q[P].leaf = p[P].leaf /\ q[P].keys = [p[P].keys EXCEPT ![i] = k]
       /\ q[P].children = p[P].children
       /\ \A m \in PageNumber : m \notin {n, b, P} => Twin(p[m], q[m])
  BY <1>14 DEF TurnedPages
<1>16. ~p[n].leaf /\ ~p[b].leaf
  BY <1>1 DEF p
<1>17. ShareInOrder(p, q, b, lo[b], k, lo, hi) /\ ShareInOrder(p, q, n, k, hi[n], lo, hi)
  BY <1>7, <1>8, <1>11, <1>13, <1>15, <1>16 DEF ShareInOrder
<1>18. Range(q[b].children) \union Range(q[n].children) \subseteq Range(p[b].children) \union Range(p[n].children)
  BY <1>9, <1>12, <1>15 DEF W, V
<1>19. SharedInOrder(p, q, U, b, n, P, i, k, lo, hi)
  BY <1>1, <1>7, <1>10, <1>15, <1>16, <1>17, <1>18 DEF SharedInOrder
<1>20. Orders(q, d.root, U, LowerAt(lo, n, k), UpperAt(hi, b, k), UpperAt(hi, b, k), R)
  BY <1>19, SharedOrders DEF p
<1>21. DueInOrder([d EXCEPT !.page = q, !.n = 0], R)
  <2> DEFINE low == LowerAt(lo, n, k)
             high == UpperAt(hi, b, k)
  <2>1. IsDelete(d) /\ q \in [PageNumber -> Page] /\ Tree(q, d.root, d.free, lev, {}, {})
    BY <1>1, <1>3, <1>15
  <2>2. Orders(q, d.root, Used(d.free), low, high, high, R)
    BY <1>20
  <2> HIDE DEF low, high
  <2> QED BY <2>1, <2>2, EndsInOrder
<1> QED BY <1>3, <1>21

\* The first child of the right neighbour changes over.
LEMMA TakeFirstOrders ==
  ASSUME NEW d, NEW lev, NEW n, NEW b, NEW s, NEW P, NEW i, Apart(d, lev, n, b, s, P, i),
         ~d.page[n].leaf, NEW lo, NEW hi, NEW R,
         NeighborFacts(d, lev, n, b, s, P, lo, hi, R), Adjacent(d.page, P, n, b, s, i)
  PROVE  DueInOrder(TakeFirstChild(d, n, b, i), R)
<1> DEFINE p == d.page
           U == Used(d.free)
           F == p[n].keys
           V == p[n].children
           H == p[b].keys
           W == p[b].children
           k == Head(H)
           x == Head(W)
           u == Append(F, s)
           v == Append(V, x)
           y == Tail(H)
           z == Tail(W)
           q == FirstPassed(p, n, b, P, i)
           C == Nat \ {0}
<1>1. /\ n \in U /\ b \in U /\ P \in U /\ b # n /\ P # n /\ P # b /\ p[n].leaf = p[b].leaf
      /\ p[n] \in Page /\ p[b] \in Page /\ p[P] \in Page /\ PageOK(p[n]) /\ PageOK(p[b])
      /\ At(p, n, lo, hi, hi) /\ At(p, b, lo, hi, hi) /\ Meets(lo, hi, n, b, s) /\ s \in Key
      /\ U \subseteq PageNumber /\ p \in [PageNumber -> Page]
      /\ IsDelete(d)
  BY DEF NeighborFacts, Apart, Beside
<1>2. p[P].keys[i] = s /\ i \in 1 .. Len(p[P].keys)
  BY DEF Adjacent
<1>3. /\ TakeFirstChild(d, n, b, i) = [d EXCEPT !.page = q, !.n = 0]
      /\ Tree(q, d.root, d.free, lev, {}, {})
  BY TakeFirstIs
<1>4. /\ F \in Seq(Key) /\ V \in Seq(C) /\ H \in Seq(Key) /\ W \in Seq(C)
      /\ Len(V) = Len(F) + 1 /\ Len(W) = Len(H) + 1 /\ Len(H) >= 1 /\ Len(W) >= 1
      /\ IsInjective(W)
  BY <1>1, ApartInternal, PageFields DEF PageOK
<1>5. /\ Ascends(F, lo[n] + 1, s) /\ Parts(F, V, lo[n], s, lo, hi)
      /\ Ascends(H, s + 1, hi[b]) /\ Parts(H, W, s, hi[b], lo, hi)
      /\ lo[n] \in Nat /\ hi[b] \in Nat /\ s \in Nat \ {0} /\ lo[n] < s
      /\ lo[n] + 1 \in Nat /\ s + 1 \in Nat
  <2>1. hi[n] = s /\ lo[b] = s /\ s \in Nat \ {0} /\ lo[n] < s
    BY <1>1 DEF Meets
  <2>2. lo[n] \in Nat /\ hi[b] \in Nat
    BY <1>1 DEF At
  <2> QED BY <1>1, <2>1, <2>2 DEF At
<1>6. q = WithParent(Turned(p, n, b, P, u, v, y, z, i, k), {x}, n)
  <2>1. q = WithParent(Turned(p, n, b, P, Append(F, p[P].keys[i]), v, y, z, i, k), {x}, n)
    BY DEF FirstPassed
  <2>2. Append(F, p[P].keys[i]) = u
    BY <1>2
  <2> HIDE DEF q, u, v, y, z, k, x, F, p
  <2> QED BY <2>1, <2>2
<1> HIDE DEF p, F, V, H, W, C
<1>7. Ascends(y, k + 1, hi[b]) /\ k \in Key /\ s + 1 <= k /\ Below(k, hi[b])
  BY <1>4, <1>5, FirstAscends
<1>8. Parts(y, z, k, hi[b], lo, hi) /\ lo[x] = s /\ hi[x] = k
  <2>1. Parted(Key, H, C, W, s, hi[b], lo, hi)
    BY <1>4, <1>5 DEF Parted
  <2> QED BY <2>1, PartsFirst
<1>9. x \in C /\ x \in Range(W) /\ y \in Seq(Key) /\ z \in Seq(C) /\ Range(z) \subseteq Range(W)
  BY <1>4, FirstAway
<1> HIDE DEF k, x, y, z
<1>10. k \in Nat /\ lo[n] < k /\ lo[n] + 1 <= s /\ Below(s, k)
  <2>1. k \in Nat
    BY <1>7, BPlusTreeAssumption
  <2> QED BY <1>5, <1>7, <2>1 DEF Below
<1>11. Ascends(u, lo[n] + 1, k) /\ u \in Seq(Key)
  <2>1. u \in Seq(Key)
    BY <1>1, <1>4, PutLast
  <2> QED BY <1>1, <1>4, <1>5, <1>10, <2>1, AscendsAppended
<1>12. v \in Seq(C) /\ Range(v) = Range(V) \union {x}
  <2>1. V \in Seq(C) /\ x \in C
    BY <1>4, <1>9
  <2>2. PutsLast(C, V, x, v)
    BY <2>1 DEF PutsLast
  <2> HIDE DEF v
  <2> QED BY <2>2, WithLast
<1>13. Parts(u, v, lo[n], k, lo, hi)
  BY <1>1, <1>4, <1>5, <1>8, <1>9, PartsAppended
<1> HIDE DEF u, v, q
<1>14. TurnedPages(p, q, n, b, P, u, v, y, z, i, k)
  <2>1. /\ n \in PageNumber /\ b \in PageNumber /\ P \in PageNumber /\ i \in 1 .. Len(p[P].keys)
        /\ v \in Seq(Nat \ {0}) /\ z \in Seq(Nat \ {0})
    BY <1>1, <1>2, <1>9, <1>12 DEF C, p
  <2> QED BY <1>1, <1>6, <1>7, <1>9, <1>11, <2>1, TurnedAre
<1>15. /\ q \in [PageNumber -> Page]
       /\ q[n].leaf = p[n].leaf /\ q[n].keys = u /\ q[n].children = v
       /\ q[b].leaf = p[b].leaf /\ q[b].keys = y /\ q[b].children = z
       /\ q[P].leaf = p[P].leaf /\ q[P].keys = [p[P].keys EXCEPT ![i] = k]
       /\ q[P].children = p[P].children
       /\ \A m \in PageNumber : m \notin {n, b, P} => Twin(p[m], q[m])
  BY <1>14 DEF TurnedPages
<1>16. ~p[n].leaf /\ ~p[b].leaf
  BY <1>1 DEF p
<1>17. ShareInOrder(p, q, n, lo[n], k, lo, hi) /\ ShareInOrder(p, q, b, k, hi[b], lo, hi)
  BY <1>7, <1>8, <1>11, <1>13, <1>15, <1>16 DEF ShareInOrder
<1>18. Range(q[n].children) \union Range(q[b].children) \subseteq Range(p[n].children) \union Range(p[b].children)
  BY <1>9, <1>12, <1>15 DEF W, V
<1>19. SharedInOrder(p, q, U, n, b, P, i, k, lo, hi)
  BY <1>1, <1>7, <1>10, <1>15, <1>16, <1>17, <1>18 DEF SharedInOrder
<1>20. Orders(q, d.root, U, LowerAt(lo, b, k), UpperAt(hi, n, k), UpperAt(hi, n, k), R)
  BY <1>19, SharedOrders DEF p
<1>21. DueInOrder([d EXCEPT !.page = q, !.n = 0], R)
  <2> DEFINE low == LowerAt(lo, b, k)
             high == UpperAt(hi, n, k)
  <2>1. IsDelete(d) /\ q \in [PageNumber -> Page] /\ Tree(q, d.root, d.free, lev, {}, {})
    BY <1>1, <1>3, <1>15
  <2>2. Orders(q, d.root, Used(d.free), low, high, high, R)
    BY <1>20
  <2> HIDE DEF low, high
  <2> QED BY <2>1, <2>2, EndsInOrder
<1> QED BY <1>3, <1>21

\* The records of two leaves that shift, and the key of their parent.
ShiftedPages(p, q, a, b, P, u, y, i, k) ==
  /\ q \in [PageNumber -> Page]
  /\ q[a].leaf = p[a].leaf /\ q[a].keys = u /\ q[a].children = p[a].children /\ q[a].right = p[a].right
  /\ q[b].leaf = p[b].leaf /\ q[b].keys = y /\ q[b].children = p[b].children /\ q[b].right = p[b].right
  /\ q[P].leaf = p[P].leaf /\ q[P].keys = [p[P].keys EXCEPT ![i] = k] /\ q[P].children = p[P].children
  /\ \A m \in PageNumber : m \notin {a, b, P} => Twin(p[m], q[m])

LEMMA ShiftedAre ==
  ASSUME NEW p \in [PageNumber -> Page], NEW a \in PageNumber, NEW b \in PageNumber,
         NEW P \in PageNumber, a # b, P # a, P # b,
         NEW u \in Seq(Key), NEW v \in Nat, NEW y \in Seq(Key), NEW z \in Nat,
         NEW i \in 1 .. Len(p[P].keys), NEW k \in Key
  PROVE  ShiftedPages(p, Shifted(p, a, b, P, u, v, y, z, i, k), a, b, P, u, y, i, k)
<1> DEFINE f == Refilled(p[a], u, v)
           g == Refilled(p[b], y, z)
           h == Rekeyed(p[P], i, k)
           q == Shifted(p, a, b, P, u, v, y, z, i, k)
<1>0. ASSUME NEW e \in Page, NEW w \in Seq(Key), NEW t \in Nat
      PROVE  /\ Refilled(e, w, t) \in Page /\ Refilled(e, w, t).leaf = e.leaf
             /\ Refilled(e, w, t).keys = w /\ Refilled(e, w, t).children = e.children
             /\ Refilled(e, w, t).right = e.right
  BY DEF Refilled, Page
<1>1. f \in Page /\ f.leaf = p[a].leaf /\ f.keys = u /\ f.children = p[a].children
      /\ f.right = p[a].right
  <2> DEFINE o == p[a]
  <2>1. o \in Page
    OBVIOUS
  <2> HIDE DEF o
  <2>2. /\ Refilled(o, u, v) \in Page /\ Refilled(o, u, v).leaf = o.leaf
        /\ Refilled(o, u, v).keys = u /\ Refilled(o, u, v).children = o.children
        /\ Refilled(o, u, v).right = o.right
    BY <1>0, <2>1
  <2> QED BY <2>2 DEF o
<1>2. g \in Page /\ g.leaf = p[b].leaf /\ g.keys = y /\ g.children = p[b].children
      /\ g.right = p[b].right
  <2> DEFINE o == p[b]
  <2>1. o \in Page
    OBVIOUS
  <2> HIDE DEF o
  <2>2. /\ Refilled(o, y, z) \in Page /\ Refilled(o, y, z).leaf = o.leaf
        /\ Refilled(o, y, z).keys = y /\ Refilled(o, y, z).children = o.children
        /\ Refilled(o, y, z).right = o.right
    BY <1>0, <2>1
  <2> QED BY <2>2 DEF o
<1>3. h \in Page /\ h.leaf = p[P].leaf /\ h.keys = [p[P].keys EXCEPT ![i] = k]
      /\ h.children = p[P].children
  <2> DEFINE e == p[P]
             s == [e.keys EXCEPT ![i] = k]
  <2>1. e \in Page /\ e.keys \in Seq(Key)
    BY PageFields
  <2>2. s \in Seq(Key)
    BY <2>1
  <2> HIDE DEF e, s
  <2>3. Rekeyed(e, i, k) = [e EXCEPT !.keys = s]
    BY DEF Rekeyed, s
  <2>4. [e EXCEPT !.keys = s] \in Page /\ [e EXCEPT !.keys = s].leaf = e.leaf
        /\ [e EXCEPT !.keys = s].keys = s /\ [e EXCEPT !.keys = s].children = e.children
    BY <2>1, <2>2 DEF Page
  <2> QED BY <2>3, <2>4 DEF e, s
<1> HIDE DEF f, g, h
<1>4. q = ThreePages(p, a, f, b, g, P, h)
  BY DEF Shifted, f, g, h
<1> HIDE DEF q
<1>5. Changed(p, q, a, f, b, g, P, h)
  BY <1>1, <1>2, <1>3, <1>4, ThreeAre
<1>6. /\ q \in [PageNumber -> Page] /\ q[a] = f /\ q[b] = g /\ q[P] = h
      /\ \A m \in PageNumber : m \notin {a, b, P} => q[m] = p[m]
  BY <1>5 DEF Changed
<1> QED BY <1>1, <1>2, <1>3, <1>6 DEF ShiftedPages, Twin, q

\* The records of the right neighbour without the first one, and the key that separates.
LEMMA SlotsAscend ==
  ASSUME NEW q \in Seq(Key), Len(q) >= 1, Len(Tail(q)) >= 1, NEW l \in Nat, NEW h \in Nat,
         Ascends(q, l, h)
  PROVE  LET e == Head(Slots(q, 1))
         IN Ascends(Tail(q), e, h) /\ e \in Key /\ Head(q) < e /\ Below(e, h)
<1> DEFINE y == Tail(q)
           e == Head(y)
<1>1. /\ Len(q) \in Nat /\ Len(y) = Len(q) - 1 /\ Len(q) >= 2 /\ y \in Seq(Key)
      /\ \A j \in 1 .. Len(y) : y[j] = q[j + 1]
  BY KeysAreNat
<1>2. Head(Slots(q, 1)) = e
  <2>1. Min({1 + 1, Len(q)}) = 2
    BY <1>1 DEF Min
  <2>2. Slots(q, 1) \in Seq(Key) /\ Len(Slots(q, 1)) = Len(q) /\ Slots(q, 1)[1] = q[2]
    <3>1. DOMAIN q = 1 .. Len(q) /\ 1 \in DOMAIN q
      BY <1>1
    <3>2. Slots(q, 1)[1] = q[Min({1 + 1, Len(q)})] /\ DOMAIN Slots(q, 1) = 1 .. Len(q)
      BY <3>1 DEF Slots
    <3>3. \A j \in 1 .. Len(q) : Min({j + 1, Len(q)}) \in 1 .. Len(q)
      BY <1>1 DEF Min
    <3>4. \A j \in 1 .. Len(q) : Slots(q, 1)[j] \in Key
      <4>1. \A j \in 1 .. Len(q) : q[j] \in Key
        BY KeysAreNat
      <4> QED BY <3>1, <3>3, <4>1 DEF Slots
    <3> DEFINE w == Slots(q, 1)
    <3>5. w = [j \in 1 .. Len(q) |-> w[j]]
      BY <3>1 DEF Slots
    <3> HIDE DEF w
    <3>6. w \in Seq(Key) /\ Len(w) = Len(q)
      BY <1>1, <3>4, <3>5 DEF w
    <3> QED BY <2>1, <3>2, <3>6 DEF w
  <2>3. Head(Slots(q, 1)) = q[2]
    <3> DEFINE w == Slots(q, 1)
    <3>1. w \in Seq(Key) /\ Len(w) >= 1 /\ w[1] = q[2]
      BY <1>1, <2>2
    <3> HIDE DEF w
    <3>2. Head(w) = w[1]
      BY <3>1
    <3> QED BY <3>1, <3>2 DEF w
  <2> QED BY <1>1, <2>3
<1>3. Ascends(y, Head(q) + 1, h) /\ Head(q) \in Key
  BY FirstAscends
<1>4. Head(q) \in Nat /\ Head(q) + 1 \in Nat
  <2> DEFINE x == Head(q)
  <2>1. x \in Key
    BY <1>3
  <2> HIDE DEF x
  <2>2. x \in Nat /\ x + 1 \in Nat
    BY <2>1, KeyIsNat
  <2> QED BY <2>2 DEF x
<1>5. e \in Key /\ Head(q) + 1 <= e /\ Below(e, h)
  BY <1>1, <1>3, <1>4, FirstAscends
<1>6. e \in Nat /\ e = y[1] /\ 1 \in 1 .. Len(y)
  BY <1>1, <1>5, KeyIsNat
<1>7. \A j \in 1 .. Len(y) : e <= y[j]
  <2> HIDE DEF y, e
  <2>1. \A j \in 1 .. Len(y) : y[j] \in Nat
    BY <1>1, KeysAreNat
  <2>2. \A j \in 1 .. Len(y) : 1 < j => y[1] < y[j]
    BY <1>3, <1>6 DEF Ascends, Sorted
  <2>3. \A j \in 1 .. Len(y) : j = 1 \/ 1 < j
    OBVIOUS
  <2> QED BY <1>6, <2>1, <2>2, <2>3
<1> HIDE DEF y, e
<1>8. Ascends(y, e, h)
  BY <1>3, <1>7 DEF Ascends
<1>9. Head(q) < e
  BY <1>4, <1>5, <1>6
<1> QED BY <1>2, <1>5, <1>8, <1>9 DEF y

LEMMA AscendsWider ==
  ASSUME NEW q \in Seq(Key), NEW l, NEW h \in Nat \ {0}, Ascends(q, l, h), NEW g \in Nat, h <= g
  PROVE  Ascends(q, l, g)
<1>1. \A i \in 1 .. Len(q) : q[i] \in Nat /\ q[i] < h /\ l <= q[i]
  BY KeysAreNat DEF Ascends, Below
<1>2. \A i \in 1 .. Len(q) : Below(q[i], g)
  BY <1>1 DEF Below
<1> QED BY <1>1, <1>2 DEF Ascends

\* The first record of the right neighbour changes over, or more than one is lost.
LEMMA TakeRightOrders ==
  ASSUME NEW d, NEW lev, NEW n, NEW b, NEW s, NEW P, NEW i, Apart(d, lev, n, b, s, P, i),
         d.page[n].leaf, NEW lo, NEW hi, NEW R,
         NeighborFacts(d, lev, n, b, s, P, lo, hi, R), Adjacent(d.page, P, n, b, s, i)
  PROVE  DueInOrder(TakeFromRight(d, n, b, i), R)
<1> DEFINE p == d.page
           U == Used(d.free)
           F == p[n].keys
           H == p[b].keys
           k == Head(H)
           u == Append(F, k)
           v == p[n].space - Size[k]
           y == Tail(H)
           z == p[b].space + Size[k]
           e == Head(Slots(H, 1))
           q == RightShifted(p, n, b, P, i)
           c == TakeFromRight(d, n, b, i)
<1>1. /\ n \in U /\ b \in U /\ P \in U /\ b # n /\ P # n /\ P # b /\ p[n].leaf = p[b].leaf
      /\ p[n] \in Page /\ p[b] \in Page /\ p[P] \in Page /\ PageOK(p[n]) /\ PageOK(p[b])
      /\ At(p, n, lo, hi, hi) /\ At(p, b, lo, hi, hi) /\ Meets(lo, hi, n, b, s) /\ s \in Key
      /\ U \subseteq PageNumber /\ p \in [PageNumber -> Page]
      /\ IsDelete(d)
  BY DEF NeighborFacts, Apart, Beside
<1>2. p[P].keys[i] = s /\ i \in 1 .. Len(p[P].keys)
  BY DEF Adjacent
<1>3. CASE Hurt(c)
  BY <1>3 DEF DueInOrder
<1>4. CASE ~Hurt(c)
  <2>1. /\ c = [d EXCEPT !.page = q, !.n = 0]
        /\ Tree(q, d.root, d.free, lev, {}, {})
        /\ p[n].space < THRESHOLD + Size[k]
    BY <1>4, TakeRightIs
  <2>2. Len(H) >= 1 /\ Shifts(d, n, b, P, u, v, y, z, i, e)
    BY <2>1, OneShifts
  <2>3. /\ u \in Seq(Key) /\ v \in Nat /\ y \in Seq(Key) /\ z \in Nat /\ e \in Key
        /\ z + SpaceFor(y) = MAX_FREE_SPACE /\ z < THRESHOLD
    BY <2>2 DEF Shifts
  <2>4. q = Shifted(p, n, b, P, u, v, y, z, i, e)
    BY DEF RightShifted
  <2>5. F \in Seq(Key) /\ H \in Seq(Key)
    BY <1>1, PageFields
  <2>6. /\ Ascends(F, lo[n], s) /\ Ascends(H, s, hi[b])
        /\ lo[n] \in Nat /\ hi[b] \in Nat /\ s \in Nat \ {0} /\ lo[n] < s
    <3>1. hi[n] = s /\ lo[b] = s /\ s \in Nat \ {0} /\ lo[n] < s
      BY <1>1 DEF Meets
    <3>2. lo[n] \in Nat /\ hi[b] \in Nat
      BY <1>1 DEF At
    <3> QED BY <1>1, <3>1, <3>2 DEF At
  <2> HIDE DEF v, z
  <2>7. Len(y) >= 1
    <3> DEFINE w == y
    <3>1. w \in Seq(Key) /\ z + SpaceFor(w) = MAX_FREE_SPACE
      BY <2>3
    <3> HIDE DEF w
    <3>2. ASSUME ~(Len(w) >= 1) PROVE FALSE
      <4>1. w = << >>
        BY <3>1, <3>2
      <4>2. \A x \in Key : SpaceFor(<< >>) = 0
        BY SpaceSingle
      <4>3. SpaceFor(w) = 0
        BY <2>3, <4>1, <4>2
      <4> QED BY <2>3, <3>1, <4>3, Constants
    <3> QED BY <3>2 DEF w
  <2> HIDE DEF F, H, p
  <2>8. Ascends(y, e, hi[b]) /\ e \in Key /\ k < e /\ Below(e, hi[b])
    BY <2>2, <2>5, <2>6, <2>7, SlotsAscend
  <2>9. k \in Key /\ s <= k /\ Range(H) = {k} \union Range(y)
    <3>1. Head(H) \in Key /\ s <= Head(H)
      BY <2>2, <2>5, <2>6, FirstAscends
    <3>2. H = <<k>> \o y /\ y \in Seq(Key)
      BY <2>2, <2>5, FirstAway
    <3> HIDE DEF k, y
    <3>3. Range(<<k>> \o y) = Range(y) \union {k}
      BY <3>1, <3>2, PutFirst DEF k
    <3> QED BY <3>1, <3>2, <3>3 DEF k
  <2> HIDE DEF k, y, e
  <2>10. k \in Nat /\ e \in Nat /\ lo[n] <= k /\ lo[n] < e
    <3>1. k \in Nat /\ e \in Nat
      BY <2>8, <2>9, BPlusTreeAssumption
    <3> QED BY <2>6, <2>8, <2>9, <3>1
  <2>11. Ascends(F, lo[n], k)
    BY <2>5, <2>6, <2>9, <2>10, AscendsWider
  <2>12. Ascends(u, lo[n], e)
    <3>1. Below(k, e)
      BY <2>8 DEF Below
    <3> QED BY <2>5, <2>6, <2>9, <2>10, <2>11, <3>1, AscendsAppended
  <2>13. Range(u) = Range(F) \union {k}
    <3>1. F \in Seq(Key) /\ k \in Key
      BY <2>5, <2>9
    <3>2. PutsLast(Key, F, k, u)
      BY <3>1 DEF PutsLast
    <3> HIDE DEF u
    <3> QED BY <3>2, WithLast
  <2> HIDE DEF u, q
  <2>14. ShiftedPages(p, q, n, b, P, u, y, i, e)
    <3>1. n \in PageNumber /\ b \in PageNumber /\ P \in PageNumber /\ i \in 1 .. Len(p[P].keys)
      BY <1>1, <1>2 DEF p
    <3> QED BY <1>1, <2>3, <2>4, <3>1, ShiftedAre DEF p
  <2>15. /\ q \in [PageNumber -> Page]
         /\ q[n].leaf = p[n].leaf /\ q[n].keys = u /\ q[n].children = p[n].children
         /\ q[n].right = p[n].right
         /\ q[b].leaf = p[b].leaf /\ q[b].keys = y /\ q[b].children = p[b].children
         /\ q[b].right = p[b].right
         /\ q[P].leaf = p[P].leaf /\ q[P].keys = [p[P].keys EXCEPT ![i] = e]
         /\ q[P].children = p[P].children
         /\ \A m \in PageNumber : m \notin {n, b, P} => Twin(p[m], q[m])
    BY <2>14 DEF ShiftedPages
  <2>16. p[n].leaf /\ p[b].leaf
    BY <1>1 DEF p
  <2>17. ShareInOrder(p, q, n, lo[n], e, lo, hi) /\ ShareInOrder(p, q, b, e, hi[b], lo, hi)
    BY <2>8, <2>12, <2>15, <2>16 DEF ShareInOrder
  <2>18. Range(q[n].keys) \union Range(q[b].keys) = Range(p[n].keys) \union Range(p[b].keys)
    BY <2>9, <2>13, <2>15 DEF F, H
  <2>19. SharedInOrder(p, q, U, n, b, P, i, e, lo, hi)
    BY <1>1, <2>8, <2>10, <2>15, <2>16, <2>17, <2>18 DEF SharedInOrder
  <2>20. Orders(q, d.root, U, LowerAt(lo, b, e), UpperAt(hi, n, e), UpperAt(hi, n, e), R)
    BY <2>19, SharedOrders DEF p
  <2>21. DueInOrder([d EXCEPT !.page = q, !.n = 0], R)
    <3> DEFINE low == LowerAt(lo, b, e)
               high == UpperAt(hi, n, e)
    <3>1. IsDelete(d) /\ q \in [PageNumber -> Page] /\ Tree(q, d.root, d.free, lev, {}, {})
      BY <1>1, <2>1, <2>15
    <3>2. Orders(q, d.root, Used(d.free), low, high, high, R)
      BY <2>20
    <3> HIDE DEF low, high
    <3> QED BY <3>1, <3>2, EndsInOrder
  <2> QED BY <2>1, <2>21, SMTT(30)
<1> QED BY <1>3, <1>4

-----------------------------------------------------------------------------
(* A page that is too empty, in order.                                     *)

LEMMA RefillOrders ==
  ASSUME NEW d, NEW i, Leans(d, i), NEW lev, Lean(d, lev, i), d.n # d.root,
         ~Filled(d.page, d.n), NEW R, InOrder(d.page, d.root, d.free, R)
  PROVE  DueInOrder(Refill(d), R)
<1> DEFINE p == d.page
           n == d.n
           P == p[n].parent
           j == NeighborIndex(p, n)
           m == p[P].children[BesideAt(j)]
           s == p[P].keys[KeyAt(j)]
<1>1. Chooses(d, P, j, m, s)
  BY DEF Chooses
<1> HIDE DEF j, m, s
<1>2. /\ j \in Nat /\ KeyAt(j) \in 1 .. Len(p[P].keys)
      /\ Beside(d, lev, n, m, s) /\ Beside(d, lev, m, n, s)
  BY <1>1, BesideHolds
<1>3. p[n] \in Page /\ p[m] \in Page /\ p[n].leaf = p[m].leaf /\ p[m].parent = P
  BY <1>2, BesidePages
<1>4. Refill(d) = IF Fits(p[m], p[n])
                  THEN IF j = 0 THEN Coalesce(d, n, m, s) ELSE Coalesce(d, m, n, s)
                  ELSE Redistribute(d, m, n, j)
  BY <1>1, RefillIs
<1>5. IF j = 0 THEN Adjacent(p, P, n, m, s, 1) ELSE Adjacent(p, P, m, n, s, j)
  BY <1>1, NeighborsAdjacent
<1>6. PICK lo, hi : Orders(p, d.root, Used(d.free), lo, hi, hi, R)
  BY DEF InOrder
<1>7. j = 0 => /\ NeighborsInOrder(d, lev, n, m, s, 1, lo, hi, R) /\ KeyAt(j) = 1
               /\ Adjacent(p, P, n, m, s, 1)
  BY <1>2, <1>5, <1>6 DEF NeighborsInOrder, KeyAt
<1>8. j # 0 => /\ NeighborsInOrder(d, lev, m, n, s, j, lo, hi, R) /\ KeyAt(j) = j
               /\ Adjacent(p, P, m, n, s, j)
  BY <1>2, <1>3, <1>5, <1>6 DEF NeighborsInOrder, KeyAt
<1>9. CASE Fits(p[m], p[n])
  <2>1. Fits(p[n], p[m])
    BY <1>3, <1>9, FitsEitherWay
  <2>2. CASE j = 0
    BY <1>4, <1>7, <1>9, <2>1, <2>2, CoalesceOrders
  <2>3. CASE j # 0
    BY <1>4, <1>8, <1>9, <2>3, CoalesceOrders
  <2> QED BY <2>2, <2>3
<1>10. CASE ~Fits(p[m], p[n])
  <2>1. Refill(d) = Redistribute(d, m, n, j)
    BY <1>4, <1>10
  <2>2. Apart(d, lev, n, m, s, P, KeyAt(j))
    BY <1>2, <1>10 DEF Apart
  <2>3. CASE j > 0 /\ p[n].leaf
    <3> DEFINE c == TakeFromLeft(d, m, n, j)
    <3>1. Redistribute(d, m, n, j) = c
      BY <2>3 DEF Redistribute
    <3>2. "damaged" \in DOMAIN d
      BY <1>2, SMTT(30) DEF Beside, IsDelete
    <3>3. "damaged" \in DOMAIN c /\ c.damaged = TRUE
      BY <3>2 DEF TakeFromLeft
    <3> HIDE DEF c
    <3> QED BY <2>1, <3>1, <3>3 DEF DueInOrder, Hurt
  <2>4. CASE j > 0 /\ ~p[n].leaf
    <3>1. Redistribute(d, m, n, j) = TakeLastChild(d, m, n, j)
      BY <2>4 DEF Redistribute
    <3>2. NeighborsInOrder(d, lev, m, n, s, j, lo, hi, R) /\ KeyAt(j) = j /\ Adjacent(p, P, m, n, s, j)
      BY <1>8, <2>4
    <3>3. NeighborFacts(d, lev, m, n, s, P, lo, hi, R)
      BY <1>3, <3>2, NeighborsAre
    <3> QED BY <2>1, <2>2, <2>4, <3>1, <3>2, <3>3, TakeLastOrders
  <2>5. CASE ~(j > 0) /\ p[n].leaf
    <3>1. Redistribute(d, m, n, j) = TakeFromRight(d, n, m, 1)
      BY <2>5 DEF Redistribute
    <3>2. NeighborsInOrder(d, lev, n, m, s, 1, lo, hi, R) /\ KeyAt(j) = 1 /\ Adjacent(p, P, n, m, s, 1)
      BY <1>2, <1>7, <2>5
    <3>3. NeighborFacts(d, lev, n, m, s, P, lo, hi, R)
      BY <3>2, NeighborsAre
    <3> QED BY <2>1, <2>2, <2>5, <3>1, <3>2, <3>3, TakeRightOrders
  <2>6. CASE ~(j > 0) /\ ~p[n].leaf
    <3>1. Redistribute(d, m, n, j) = TakeFirstChild(d, n, m, 1)
      BY <2>6 DEF Redistribute
    <3>2. NeighborsInOrder(d, lev, n, m, s, 1, lo, hi, R) /\ KeyAt(j) = 1 /\ Adjacent(p, P, n, m, s, 1)
      BY <1>2, <1>7, <2>6
    <3>3. NeighborFacts(d, lev, n, m, s, P, lo, hi, R)
      BY <3>2, NeighborsAre
    <3> QED BY <2>1, <2>2, <2>6, <3>1, <3>2, <3>3, TakeFirstOrders
  <2> QED BY <2>3, <2>4, <2>5, <2>6
<1> QED BY <1>9, <1>10

LEMMA ContinueOrders ==
  ASSUME NEW d, NEW i, Leans(d, i), NEW R, InOrder(d.page, d.root, d.free, R)
  PROVE  DueInOrder(Continue(d), R)
<1>1. PICK lev : Lean(d, lev, i)
  BY DEF Leans
<1>2. CASE d.n = d.root
  BY <1>1, <1>2, RootOrders
<1>3. CASE d.n # d.root /\ Filled(d.page, d.n)
  <2>1. Continue(d) = [d EXCEPT !.n = 0]
    BY <1>3 DEF Continue
  <2>2. IsDelete(d) /\ Tree(d.page, d.root, d.free, lev, {}, {d.n})
    BY <1>1 DEF Leans, Lean
  <2> QED BY <2>1, <2>2, EndOrders
<1>4. CASE d.n # d.root /\ ~Filled(d.page, d.n)
  <2>1. Continue(d) = Refill(d)
    BY <1>4 DEF Continue
  <2> QED BY <1>1, <1>4, <2>1, RefillOrders
<1> QED BY <1>2, <1>3, <1>4

\* One round of the climb.
LEMMA DueStepOrders ==
  ASSUME NEW c, NEW i, Due(c, i), NEW R, DueInOrder(c, R)
  PROVE  DueInOrder(DeleteStep(c), R)
<1> DEFINE e == RemoveEntry(c)
<1>1. CASE Hurt(c)
  <2>1. Hurt(Continue(e))
    BY <1>1, HurtRemoved, HurtContinued
  <2> HIDE DEF e
  <2>2. Hurt(DeleteStep(c))
    BY <1>1, <2>1, DeleteEntryIs DEF DeleteStep, e
  <2> QED BY <2>2 DEF DueInOrder
<1>2. CASE ~Hurt(c) /\ c.n = 0
  BY <1>2 DEF DeleteStep
<1>3. CASE ~Hurt(c) /\ c.n # 0
  <2>1. DeleteStep(c) = Continue(e)
    BY <1>3, DeleteEntryIs DEF DeleteStep
  <2>2. /\ Hurt(e) \/ Leans(e, i)
        /\ Hurt(e) \/ InOrder(e.page, e.root, e.free, R)
    BY <1>3 DEF Due, DueInOrder
  <2> HIDE DEF e
  <2>3. CASE Hurt(e)
    <3>1. Hurt(Continue(e))
      BY <2>3, HurtContinued
    <3> QED BY <2>1, <3>1 DEF DueInOrder
  <2>4. CASE ~Hurt(e)
    BY <2>1, <2>2, <2>4, ContinueOrders
  <2> QED BY <2>3, <2>4
<1> QED BY <1>1, <1>2, <1>3

\* When the climb has ended, the tree is in order.
LEMMA DeleteUpOrders ==
  ASSUME NEW c, Due(c, 0), NEW R, DueInOrder(c, R)
  PROVE  LET e == DeleteUp(c) IN Hurt(e) \/ Holding(e.page, e.root, e.free, R)
<1> DEFINE N == P_NUMBER - 1
           e == DeleteUp(c)
<1>1. N \in Nat
  BY PageNumbers
<1>2. PICK w : /\ w[0] = c /\ \A i \in 1 .. N : w[i] = DeleteStep(w[i - 1])
               /\ e = w[N]
  BY DeleteUpSteps
<1> HIDE DEF e, N
<1> DEFINE Good == {i \in Nat : i <= N => Due(w[i], i) /\ DueInOrder(w[i], R)}
<1>3. 0 \in Good
  BY <1>2
<1>4. ASSUME NEW i \in Nat, i \in Good PROVE i + 1 \in Good
  <2> SUFFICES ASSUME i + 1 <= N PROVE Due(w[i + 1], i + 1) /\ DueInOrder(w[i + 1], R)
    OBVIOUS
  <2>1. i <= N /\ i + 1 \in 1 .. N /\ (i + 1) - 1 = i
    BY <1>1
  <2>2. w[i + 1] = DeleteStep(w[i])
    BY <1>2, <2>1
  <2>3. Due(w[i], i) /\ DueInOrder(w[i], R)
    BY <1>4, <2>1
  <2> QED BY <2>2, <2>3, DueStep, DueStepOrders
<1> HIDE DEF Good
<1>5. N \in Good
  BY <1>1, <1>3, <1>4, Counting
<1>6. Due(e, N) /\ DueInOrder(e, R)
  BY <1>1, <1>2, <1>5 DEF Good
<1>7. ~(N + 1 <= N)
  BY <1>1
<1>8. Hurt(e) \/ e.n = 0
  BY <1>6, <1>7 DEF Due, N
<1> QED BY <1>6, <1>8 DEF DueInOrder, e

-----------------------------------------------------------------------------
(* Deletion.                                                               *)

\* What freed pages are left with makes no difference.
LEMMA OrderForgotten ==
  ASSUME NEW p, NEW r, NEW fr, Whole(p, r, fr), NEW R, Holding(p, r, fr, R)
  PROVE  Holding([n \in PageNumber |-> IF n \in Range(fr) THEN FreePage ELSE p[n]], r, fr, R)
<1> DEFINE q == [n \in PageNumber |-> IF n \in Range(fr) THEN FreePage ELSE p[n]]
           U == Used(fr)
<1>1. CASE r = 0
  BY <1>1 DEF Holding
<1>2. CASE r # 0
  <2>1. PICK lev : Tree(p, r, fr, lev, {}, {})
    BY <1>2 DEF Whole
  <2>2. PICK lo, hi : Orders(p, r, U, lo, hi, hi, R)
    BY <1>2 DEF Holding, InOrder
  <2>3. \A m \in U : q[m] = p[m]
    BY DEF Used
  <2> HIDE DEF q
  <2>4. /\ Ordered(p, r, U, lo, hi, hi) /\ Chain(p, U, lo, hi) /\ Records(p, U) = R
    BY <2>2 DEF Orders
  <2>5. ASSUME NEW m \in U PROVE At(q, m, lo, hi, hi)
    <3>1. AtStays(p, m, lo, hi, hi, q, lo, hi, hi)
      BY <2>3, <2>4 DEF AtStays, Ordered
    <3> QED BY <3>1, AtSame
  <2>6. SameLeaves(p, U, lo, hi, q, U, lo, hi)
    BY <2>3 DEF SameLeaves
  <2>7. Chain(q, U, lo, hi) /\ Records(q, U) = R
    BY <2>4, <2>6, LeavesStay
  <2>8. Orders(q, r, U, lo, hi, hi, R)
    BY <2>4, <2>5, <2>7 DEF Orders, Ordered
  <2> QED BY <1>2, <2>8 DEF Holding, InOrder, q
<1> QED BY <1>1, <1>2

\* db_delete takes the record out, or damages the tree.
LEMMA DeleteOrders ==
  ASSUME KeysFit, Whole(page, root, free), NEW R, Holding(page, root, free, R),
         NEW k \in Key, DeleteRecord(k)
  PROVE  damaged' \/ (k \in R /\ Holding(page', root', free', R \ {k}))
<1> DEFINE c == DeleteUp(Deleting(k))
           S == R \ {k}
<1>1. Found(k) /\ root # 0
  BY DEF DeleteRecord, Found
<1>2. PICK lev : Grown(lev)
  BY <1>1 DEF Whole, Grown
<1>3. PICK lo, hi : Orders(page, root, Used(free), lo, hi, hi, R)
  BY <1>1 DEF Holding, InOrder
<1>4. k \in R
  BY <1>1, <1>2, <1>3, FoundIs
<1>5. Due(Deleting(k), 0) /\ DueInOrder(Deleting(k), S)
  BY <1>1, <1>2, <1>3, StartHolds, StartOrders
<1>6. /\ Hurt(c) \/ Whole(c.page, c.root, c.free)
      /\ Hurt(c) \/ Holding(c.page, c.root, c.free, S)
      /\ Hurt(c) \/ c.damaged = FALSE
  <2> HIDE DEF S
  <2> QED BY <1>5, DeleteUpHolds, DeleteUpOrders
<1>7. /\ page' = IF c.damaged THEN c.page
                 ELSE [n \in PageNumber |-> IF n \in Range(c.free) THEN FreePage ELSE c.page[n]]
      /\ root' = c.root /\ free' = c.free /\ damaged' = c.damaged
  BY DEF DeleteRecord
<1> HIDE DEF c, S
<1>8. CASE Hurt(c)
  BY <1>7, <1>8 DEF Hurt
<1>9. CASE ~Hurt(c)
  <2> DEFINE q == [n \in PageNumber |-> IF n \in Range(c.free) THEN FreePage ELSE c.page[n]]
  <2>1. Holding(q, c.root, c.free, S)
    BY <1>6, <1>9, OrderForgotten
  <2>2. page' = q
    BY <1>6, <1>7, <1>9
  <2> HIDE DEF q
  <2>3. Holding(page', root', free', S)
    BY <1>7, <2>1, <2>2
  <2> QED BY <1>4, <2>3 DEF S
<1> QED BY <1>8, <1>9

-----------------------------------------------------------------------------
(* The inductive invariant.                                                *)

\* Until the tree is damaged, it holds some records in order.
OrderInv == TreeInv /\ (damaged \/ \E R : Holding(page, root, free, R))

\* A call that does not damage the tree leaves its records, adds one or takes one out.
LEMMA CallOrders ==
  ASSUME KeysFit, Whole(page, root, free), NEW R, Holding(page, root, free, R),
         NEW k \in Key, InsertOrDelete(k), ~damaged'
  PROVE  \/ UNCHANGED deletionVars
         \/ k \notin R /\ Holding(page', root', free', R \union {k})
         \/ k \in R /\ Holding(page', root', free', R \ {k})
<1>1. CASE Insert(k) /\ UNCHANGED damaged
  BY <1>1, InsertOrders DEF vars, deletionVars
<1>2. CASE DeleteAbsent(k)
  BY <1>2 DEF DeleteAbsent
<1>3. CASE DeleteRecord(k)
  BY <1>3, DeleteOrders
<1> QED BY <1>1, <1>2, <1>3 DEF InsertOrDelete

\* Every call keeps the order, if no key is changed by being taken as an int.
THEOREM OrderInvariant == ASSUME KeysFit PROVE DeletionSpec => []OrderInv
<1>1. DeletionInit => OrderInv
  <2> SUFFICES ASSUME DeletionInit PROVE OrderInv
    OBVIOUS
  <2>1. Bare(page, free) /\ root = 0 /\ damaged = FALSE
    BY InitIsBare DEF DeletionInit
  <2>2. Holding(page, root, free, {})
    BY <2>1 DEF Holding
  <2> QED BY <2>1, <2>2 DEF OrderInv, TreeInv, Whole
<1>2. OrderInv /\ TreeInv' /\ [DeletionNext]_deletionVars => OrderInv'
  <2> SUFFICES ASSUME OrderInv, TreeInv', [DeletionNext]_deletionVars, ~damaged'
               PROVE  \E R : Holding(page', root', free', R)
    BY DEF OrderInv
  <2>1. CASE UNCHANGED deletionVars
    BY <2>1 DEF deletionVars, OrderInv
  <2>2. ASSUME NEW k \in Key, InsertOrDelete(k) PROVE \E R : Holding(page', root', free', R)
    <3>1. Whole(page, root, free) /\ \E R : Holding(page, root, free, R)
      BY <2>2 DEF OrderInv, TreeInv, InsertOrDelete
    <3>2. PICK R : Holding(page, root, free, R)
      BY <3>1
    <3>3. \/ UNCHANGED deletionVars
          \/ Holding(page', root', free', R \union {k})
          \/ Holding(page', root', free', R \ {k})
      BY <2>2, <3>1, <3>2, CallOrders
    <3>4. CASE UNCHANGED deletionVars
      BY <3>2, <3>4 DEF deletionVars
    <3> QED BY <3>3, <3>4
  <2> QED BY <2>1, <2>2 DEF DeletionNext
<1> QED BY <1>1, <1>2, TreeInvariant, PTL DEF DeletionSpec

\* What db_find finds in a tree that is not damaged are the records it holds.
LEMMA HoldsStored ==
  ASSUME KeysFit
  PROVE  OrderInv /\ ~damaged => Holding(page, root, free, Stored)
<1> SUFFICES ASSUME OrderInv, ~damaged PROVE Holding(page, root, free, Stored)
  OBVIOUS
<1>1. Whole(page, root, free) /\ \E R : Holding(page, root, free, R)
  BY DEF OrderInv, TreeInv
<1>2. PICK R : Holding(page, root, free, R)
  BY <1>1
<1>3. Stored = R
  BY <1>1, <1>2, StoredIs
<1> QED BY <1>2, <1>3

LEMMA OrderInvLeaves == OrderInv => OrderKept
<1> SUFFICES ASSUME OrderInv, ~damaged PROVE LeavesInOrder
  BY DEF OrderKept
<1>1. Whole(page, root, free) /\ \E R : Holding(page, root, free, R)
  BY DEF OrderInv, TreeInv
<1>2. CASE root = 0
  <2>1. InUse = {}
    BY <1>1, <1>2, UsedIsInUse DEF Whole, Bare
  <2> QED BY <1>2, <2>1 DEF LeavesInOrder, IsInjective
<1>3. CASE root # 0
  <2>1. PICK lev : Grown(lev)
    BY <1>1, <1>3 DEF Whole, Grown
  <2>2. PICK R, lo, hi : Orders(page, root, Used(free), lo, hi, hi, R)
    BY <1>1, <1>3 DEF Holding, InOrder
  <2> QED BY <2>1, <2>2, OrdersLeaves
<1> QED BY <1>2, <1>3

\* A table that gains or loses one record has taken a step of its specification.
LEMMA OneRecord ==
  ASSUME NEW R, NEW S, NEW k,
         \/ k \notin R /\ S = R \union {k}
         \/ k \in R /\ S = R \ {k}
  PROVE  \/ R \subseteq S /\ Cardinality(S \ R) = 1
         \/ S \subseteq R /\ Cardinality(R \ S) = 1
<1>1. Cardinality({k}) = 1
  BY FS_Singleton
<1>2. CASE k \notin R /\ S = R \union {k}
  <2>1. S \ R = {k}
    BY <1>2
  <2> QED BY <1>1, <1>2, <2>1
<1>3. CASE k \in R /\ S = R \ {k}
  <2>1. R \ S = {k}
    BY <1>3
  <2> QED BY <1>1, <1>3, <2>1
<1> QED BY <1>2, <1>3

\* Until a deletion damages the tree, the sibling words of the leaves lead from the
\* smallest key to the greatest, and to no page that was freed, however many pages and
\* keys there are, if no key is changed by being taken as an int (newbpt.cc:656).
THEOREM OrderKeptHolds == ASSUME KeysFit PROVE DeletionSpec => []OrderKept
BY OrderInvariant, OrderInvLeaves, PTL

\* Until a deletion damages the tree, db_insert makes one record findable, db_delete one
\* not findable any more, and neither changes what is found of any other, whatever they
\* split, merge and move on the way, if no key is changed by being taken as an int.
THEOREM ImplementsTableUndamagedHolds ==
  ASSUME KeysFit PROVE DeletionSpec => ImplementsTableUndamaged
<1>1. OrderInv' /\ ~damaged' => Holding(page, root, free, Stored)'
  BY HoldsStored, PTL
<1>2. OrderInv /\ OrderInv' /\ [DeletionNext]_deletionVars
        => [damaged' \/ [Contents!Next]_Stored]_deletionVars
  <2> SUFFICES ASSUME OrderInv, OrderInv', NEW k \in Key, InsertOrDelete(k), ~damaged',
                      ~UNCHANGED deletionVars
               PROVE  [Contents!Next]_Stored
    BY DEF DeletionNext
  <2>1. Whole(page, root, free) /\ Holding(page, root, free, Stored)
    BY HoldsStored DEF OrderInv, TreeInv, InsertOrDelete
  <2>2. Holding(page', root', free', Stored')
    BY <1>1
  <2>3. \/ k \notin Stored /\ Holding(page', root', free', Stored \union {k})
        \/ k \in Stored /\ Holding(page', root', free', Stored \ {k})
    BY <2>1, CallOrders
  <2>4. \/ k \notin Stored /\ Stored' = Stored \union {k}
        \/ k \in Stored /\ Stored' = Stored \ {k}
    BY <2>2, <2>3, HeldOnce
  <2>5. Stored' \subseteq Key
    BY <2>2, HeldOnce
  <2>6. \/ Stored \subseteq Stored' /\ Cardinality(Stored' \ Stored) = 1
        \/ Stored' \subseteq Stored /\ Cardinality(Stored \ Stored') = 1
    BY <2>4, OneRecord
  <2> QED BY <2>5, <2>6 DEF Contents!Next, Contents!Insert, Contents!Delete, Contents!Cardinality, Cardinality
<1> QED BY <1>2, OrderInvariant, PTL DEF DeletionSpec, ImplementsTableUndamaged

\* Until a deletion damages the tree, the record a call makes findable, or takes away, is
\* the one it was called for: db_insert(k) and db_delete(k) change what db_find finds of k and
\* of no other key, unless they refuse and change nothing.
THEOREM CallsKeepToTheirKey ==
  ASSUME KeysFit
  PROVE  DeletionSpec =>
           [][\A k \in Key : ~damaged' =>
                /\ Insert(k) /\ ~damaged /\ UNCHANGED damaged =>
                     k \notin Stored /\ Stored' = Stored \union {k}
                /\ DeleteRecord(k) /\ ~damaged => k \in Stored /\ Stored' = Stored \ {k}]_deletionVars
<1>1. OrderInv' /\ ~damaged' => Holding(page, root, free, Stored)'
  BY HoldsStored, PTL
<1>2. OrderInv /\ OrderInv' /\ [DeletionNext]_deletionVars
        => [\A k \in Key : ~damaged' =>
              /\ Insert(k) /\ ~damaged /\ UNCHANGED damaged =>
                   k \notin Stored /\ Stored' = Stored \union {k}
              /\ DeleteRecord(k) /\ ~damaged => k \in Stored /\ Stored' = Stored \ {k}]_deletionVars
  <2> SUFFICES ASSUME OrderInv, OrderInv', NEW k \in Key, ~damaged, ~damaged',
                      ~UNCHANGED deletionVars
               PROVE  /\ Insert(k) /\ UNCHANGED damaged => k \notin Stored /\ Stored' = Stored \union {k}
                      /\ DeleteRecord(k) => k \in Stored /\ Stored' = Stored \ {k}
    OBVIOUS
  <2>1. Whole(page, root, free) /\ Holding(page, root, free, Stored)
    BY HoldsStored DEF OrderInv, TreeInv
  <2>2. Holding(page', root', free', Stored')
    BY <1>1
  <2>3. ASSUME Insert(k), UNCHANGED damaged PROVE k \notin Stored /\ Stored' = Stored \union {k}
    <3>1. ~UNCHANGED vars
      BY <2>3 DEF vars, deletionVars
    <3>2. k \notin Stored /\ Holding(page', root', free', Stored \union {k})
      BY <2>1, <2>3, <3>1, InsertOrders
    <3> QED BY <2>2, <3>2, HeldOnce
  <2>4. ASSUME DeleteRecord(k) PROVE k \in Stored /\ Stored' = Stored \ {k}
    <3>1. k \in Stored /\ Holding(page', root', free', Stored \ {k})
      BY <2>1, <2>4, DeleteOrders
    <3> QED BY <2>2, <3>1, HeldOnce
  <2> QED BY <2>3, <2>4
<1> QED BY <1>2, OrderInvariant, PTL DEF DeletionSpec
=============================================================================
