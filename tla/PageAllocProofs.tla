---------------------------- MODULE PageAllocProofs ----------------------------
(***************************************************************************)
(* The header page in the file and the one in the pool, and the free lists *)
(* they begin, for any number of pages and any number of frames.           *)
(***************************************************************************)
EXTENDS PageAlloc, TLAPS

\* What was proved of the writes to a file and of the free lists in one.
Space == INSTANCE DiskSpaceProofs WITH file <- disk, exists <- TRUE, lost <- {},
                                       process <- "up"

Content == [first : Pages, second : 0 .. MaxPages]

LEMMA SpaceAssumption == Space!DiskSpaceAssumption
  BY PageAllocAssumption DEF Space!DiskSpaceAssumption

LEMMA Numbers ==
  /\ P_NUMBER \in Nat /\ 2 <= P_NUMBER /\ MaxPages \in Nat /\ P_NUMBER <= MaxPages
  /\ NumFrames \in Nat /\ 2 <= NumFrames
  /\ 0 \in Pages /\ Nothing \in Content
  BY PageAllocAssumption DEF Pages, Content, Nothing

LEMMA SameTerms ==
  /\ Disk!Pages = Pages /\ Disk!Content = Content
  /\ Space!Pages = Pages /\ Space!Content = Content
  BY DEF Disk!Pages, Disk!Content, Space!Pages, Space!Content, Pages, Content

LEMMA SameAfter == ASSUME NEW f, NEW w PROVE Disk!After(f, w) = Space!After(f, w)
  BY DEF Disk!After, Space!After, Disk!Pages, Space!Pages

-----------------------------------------------------------------------------
(* The order of use.                                                       *)

\* The sequence q has the pages R, each of them once.
Orders(q, R) == q \in Seq(Pages) /\ IsInjective(q) /\ Range(q) = R

LEMMA InRange ==
  ASSUME NEW q \in Seq(Pages)
  PROVE  /\ DOMAIN q = 1 .. Len(q) /\ Len(q) \in Nat
         /\ \A p : p \in Range(q) <=> \E k \in 1 .. Len(q) : q[k] = p
         /\ Range(q) \subseteq Pages
  BY DEF Range

\* A page that is not in the order comes first in it.
LEMMA FrontAdded ==
  ASSUME NEW q, NEW R, Orders(q, R), NEW n \in Pages, n \notin R
  PROVE  /\ Orders(<<n>> \o q, R \union {n})
         /\ Len(<<n>> \o q) = Len(q) + 1 /\ (<<n>> \o q)[1] = n
<1> DEFINE r == <<n>> \o q
<1>1. q \in Seq(Pages) /\ Len(q) \in Nat
  BY DEF Orders
<1>2. /\ r \in Seq(Pages) /\ Len(r) = Len(q) + 1 /\ r[1] = n
      /\ \A k \in 1 .. Len(q) : r[k + 1] = q[k]
      /\ \A k \in 2 .. Len(q) + 1 : r[k] = q[k - 1] /\ k - 1 \in 1 .. Len(q)
  BY <1>1
<1> HIDE DEF r
<1>3. \A k \in 1 .. Len(q) : q[k] # n
  BY <1>1, InRange DEF Orders
<1>4. IsInjective(r)
  <2> SUFFICES ASSUME NEW i \in 1 .. Len(q) + 1, NEW j \in 1 .. Len(q) + 1, r[i] = r[j]
               PROVE  i = j
    BY <1>2, InRange DEF IsInjective
  <2>1. \A k \in 1 .. Len(q) + 1 : k # 1 => k \in 2 .. Len(q) + 1
    BY <1>1
  <2>2. CASE i = 1 \/ j = 1
    BY <1>2, <1>3, <2>1, <2>2
  <2>3. CASE i # 1 /\ j # 1
    <3>1. q[i - 1] = q[j - 1] /\ i - 1 \in 1 .. Len(q) /\ j - 1 \in 1 .. Len(q)
      BY <1>2, <2>1, <2>3
    <3>2. i - 1 = j - 1
      BY <1>1, <3>1, InRange DEF Orders, IsInjective
    <3> QED BY <3>2
  <2> QED BY <2>2, <2>3
<1>5. Range(r) = R \union {n}
  <2>1. ASSUME NEW p \in Range(r) PROVE p \in R \union {n}
    <3>1. PICK k \in 1 .. Len(q) + 1 : r[k] = p
      BY <1>2, InRange
    <3>2. k # 1 => k \in 2 .. Len(q) + 1
      BY <1>1
    <3>3. k # 1 => p \in Range(q)
      BY <1>1, <1>2, <3>1, <3>2, InRange
    <3> QED BY <1>2, <3>1, <3>3 DEF Orders
  <2>2. n \in Range(r)
    <3>1. 1 \in 1 .. Len(q) + 1
      BY <1>1
    <3> QED BY <1>2, <3>1, InRange
  <2>3. ASSUME NEW p \in R PROVE p \in Range(r)
    <3>1. PICK k \in 1 .. Len(q) : q[k] = p
      BY <1>1, InRange DEF Orders
    <3>2. r[k + 1] = p /\ k + 1 \in 1 .. Len(q) + 1
      BY <1>1, <1>2, <3>1
    <3> QED BY <1>2, <3>2, InRange
  <2> QED BY <2>1, <2>2, <2>3
<1> QED BY <1>2, <1>4, <1>5 DEF r, Orders

\* The page at one place of the order is left out.
LEMMA LeftOut ==
  ASSUME NEW q, NEW R, Orders(q, R), NEW k \in 1 .. Len(q), NEW r \in Seq(Pages),
         Len(r) = Len(q) - 1,
         \A i \in 1 .. Len(q) - 1 : r[i] = IF i < k THEN q[i] ELSE q[i + 1]
  PROVE  Orders(r, R \ {q[k]})
<1>1. q \in Seq(Pages) /\ Len(q) \in Nat /\ Len(r) \in Nat
  BY DEF Orders
<1> DEFINE from(i) == IF i < k THEN i ELSE i + 1
<1>2. /\ \A i \in 1 .. Len(r) : from(i) \in 1 .. Len(q) /\ r[i] = q[from(i)] /\ from(i) # k
      /\ \A i, j \in 1 .. Len(r) : from(i) = from(j) => i = j
      /\ \A j \in 1 .. Len(q) : j # k => \E i \in 1 .. Len(r) : from(i) = j
  <2>1. ASSUME NEW i \in 1 .. Len(r)
        PROVE  from(i) \in 1 .. Len(q) /\ r[i] = q[from(i)] /\ from(i) # k
    BY <1>1
  <2>2. ASSUME NEW j \in 1 .. Len(q), j # k PROVE \E i \in 1 .. Len(r) : from(i) = j
    <3>1. CASE j < k
      <4>1. j \in 1 .. Len(r) /\ from(j) = j
        BY <1>1, <3>1
      <4> QED BY <4>1
    <3>2. CASE k < j
      <4>1. j - 1 \in 1 .. Len(r) /\ from(j - 1) = j
        BY <1>1, <3>2
      <4> QED BY <4>1
    <3> QED BY <1>1, <2>2, <3>1, <3>2
  <2>3. \A i, j \in 1 .. Len(r) : from(i) = from(j) => i = j
    BY <1>1
  <2> QED BY <2>1, <2>2, <2>3
<1> HIDE DEF from
<1>3. \A i, j \in 1 .. Len(q) : q[i] = q[j] => i = j
  BY <1>1, InRange DEF Orders, IsInjective
<1>4. IsInjective(r)
  <2> SUFFICES ASSUME NEW i \in 1 .. Len(r), NEW j \in 1 .. Len(r), r[i] = r[j] PROVE i = j
    BY InRange DEF IsInjective
  <2>1. from(i) \in 1 .. Len(q) /\ from(j) \in 1 .. Len(q) /\ q[from(i)] = q[from(j)]
    BY <1>2
  <2>2. from(i) = from(j)
    BY <1>3, <2>1
  <2> QED BY <1>2, <2>2
<1>5. ASSUME NEW p PROVE p \in Range(r) <=> p \in R \ {q[k]}
  <2>1. p \in Range(r) <=> \E i \in 1 .. Len(r) : r[i] = p
    BY InRange
  <2>2. p \in R <=> \E j \in 1 .. Len(q) : q[j] = p
    BY <1>1, InRange DEF Orders
  <2>3. ASSUME NEW i \in 1 .. Len(r), r[i] = p PROVE p \in R /\ p # q[k]
    <3>1. from(i) \in 1 .. Len(q) /\ from(i) # k /\ q[from(i)] = p
      BY <1>2, <2>3
    <3> QED BY <1>3, <2>2, <3>1
  <2>4. ASSUME NEW j \in 1 .. Len(q), q[j] = p, p # q[k] PROVE \E i \in 1 .. Len(r) : r[i] = p
    <3>1. PICK i \in 1 .. Len(r) : from(i) = j
      BY <1>2, <2>4
    <3> QED BY <1>2, <2>4, <3>1
  <2> QED BY <2>1, <2>2, <2>3, <2>4
<1> QED BY <1>4, <1>5 DEF Orders

\* The page at the end of the order leaves.
LEMMA LastOut ==
  ASSUME NEW q, NEW R, Orders(q, R), Len(q) # 0
  PROVE  /\ Orders(Front(q), R \ {Last(q)}) /\ Len(Front(q)) = Len(q) - 1
         /\ Last(q) \in R
         /\ 2 <= Len(q) => q[1] # Last(q)
<1>1. q \in Seq(Pages) /\ Len(q) \in Nat \ {0} /\ Len(q) \in 1 .. Len(q)
  BY DEF Orders
<1>2. /\ Front(q) \in Seq(Pages) /\ Len(Front(q)) = Len(q) - 1
      /\ \A i \in 1 .. Len(q) - 1 : Front(q)[i] = q[i]
  <2>1. \A l \in Nat \ {0} : l - 1 \in 0 .. l /\ \A i \in 1 .. l - 1 : i \in 1 .. l /\ i < l
    OBVIOUS
  <2>2. Len(q) - 1 \in 0 .. Len(q) /\ \A i \in 1 .. Len(q) - 1 : i \in 1 .. Len(q) /\ i < Len(q)
    BY <1>1, <2>1
  <2>3. SubSeq(q, 1, Len(q) - 1) \in Seq(Pages) /\ Len(SubSeq(q, 1, Len(q) - 1)) = Len(q) - 1
    <3> DEFINE d == Len(q) - 1
    <3>1. d \in 0 .. Len(q)
      BY <2>2
    <3> HIDE DEF d
    <3>2. SubSeq(q, 1, d) \in Seq(Pages)
      <4>1. \A i \in 1 .. d : i \in 1 .. Len(q)
        BY <1>1, <3>1
      <4> QED BY <1>1, <3>1, <4>1
    <3>3. Len(SubSeq(q, 1, d)) = d
      BY <1>1, <3>1
    <3> QED BY <3>2, <3>3 DEF d
  <2>4. \A i \in 1 .. Len(q) - 1 : SubSeq(q, 1, Len(q) - 1)[i] = q[i]
    BY <1>1, <2>2
  <2> QED BY <2>3, <2>4 DEF Front
<1>3. \A i \in 1 .. Len(q) - 1 : i < Len(q)
  BY <1>1
<1>4. Orders(Front(q), R \ {q[Len(q)]})
  BY <1>1, <1>2, <1>3, LeftOut
<1>5. Last(q) = q[Len(q)] /\ Last(q) \in R
  BY <1>1, InRange DEF Last, Orders
<1>6. 2 <= Len(q) => q[1] # q[Len(q)]
  <2>1. \A l \in Nat : 2 <= l => 1 \in 1 .. l /\ 1 # l
    OBVIOUS
  <2>2. 2 <= Len(q) => 1 \in 1 .. Len(q) /\ 1 # Len(q)
    BY <1>1, <2>1
  <2> QED BY <1>1, <2>2, InRange DEF Orders, IsInjective
<1> QED BY <1>2, <1>4, <1>5, <1>6

\* A page of the order becomes the first one.
LEMMA MovedToFront ==
  ASSUME NEW q, NEW R, Orders(q, R), NEW n \in R
  PROVE  /\ Orders(<<n>> \o RemoveAt(q, Place(q, n)), R)
         /\ Len(<<n>> \o RemoveAt(q, Place(q, n))) = Len(q)
         /\ (<<n>> \o RemoveAt(q, Place(q, n)))[1] = n
<1> DEFINE k == Place(q, n)
           r == RemoveAt(q, k)
<1>1. q \in Seq(Pages) /\ Len(q) \in Nat /\ n \in Pages
  BY InRange DEF Orders
<1>2. k \in 1 .. Len(q) /\ q[k] = n
  <2>1. \E i \in DOMAIN q : q[i] = n
    BY <1>1, InRange DEF Orders
  <2> QED BY <1>1, <2>1, InRange DEF Place
<1> HIDE DEF k
<1>3. /\ r \in Seq(Pages) /\ Len(r) = Len(q) - 1
      /\ \A i \in 1 .. Len(q) - 1 : r[i] = IF i < k THEN q[i] ELSE q[i + 1]
  <2> DEFINE a == SubSeq(q, 1, k - 1)
             b == SubSeq(q, k + 1, Len(q))
  <2>1. a \in Seq(Pages) /\ Len(a) = k - 1 /\ \A i \in 1 .. k - 1 : a[i] = q[i]
    BY <1>1, <1>2
  <2>2. b \in Seq(Pages) /\ Len(b) = Len(q) - k /\ \A i \in 1 .. Len(q) - k : b[i] = q[k + i]
    BY <1>1, <1>2
  <2>3. r = a \o b
    BY DEF RemoveAt
  <2> HIDE DEF a, b, r
  <2>4. /\ r \in Seq(Pages) /\ Len(r) = Len(q) - 1
        /\ \A i \in 1 .. Len(q) - 1 : r[i] = IF i < k THEN a[i] ELSE b[i - (k - 1)]
    <3>1. k \in Nat /\ (k - 1) + (Len(q) - k) = Len(q) - 1
      BY <1>1, <1>2
    <3>2. a \in Seq(Pages) /\ b \in Seq(Pages)
      BY <2>1, <2>2
    <3>3. a \o b \in Seq(Pages) /\ Len(a \o b) = Len(a) + Len(b)
      BY <3>2
    <3>4. \A i \in 1 .. Len(a) + Len(b) :
            (a \o b)[i] = IF i <= Len(a) THEN a[i] ELSE b[i - Len(a)]
      BY <3>2
    <3> QED BY <1>1, <1>2, <2>1, <2>2, <2>3, <3>1, <3>3, <3>4
  <2>5. \A i \in 1 .. Len(q) - 1 : r[i] = IF i < k THEN q[i] ELSE q[i + 1]
    <3> SUFFICES ASSUME NEW i \in 1 .. Len(q) - 1 PROVE r[i] = IF i < k THEN q[i] ELSE q[i + 1]
      OBVIOUS
    <3>1. CASE i < k
      BY <1>2, <2>1, <2>4, <3>1
    <3>2. CASE ~(i < k)
      <4>1. i - (k - 1) \in 1 .. Len(q) - k /\ k + (i - (k - 1)) = i + 1
        BY <1>1, <1>2, <3>2
      <4> QED BY <2>2, <2>4, <3>2, <4>1
    <3> QED BY <3>1, <3>2
  <2> QED BY <2>4, <2>5
<1> HIDE DEF r
<1>4. Orders(r, R \ {n})
  BY <1>2, <1>3, LeftOut
<1>5. /\ Orders(<<n>> \o r, (R \ {n}) \union {n})
      /\ Len(<<n>> \o r) = Len(r) + 1 /\ (<<n>> \o r)[1] = n
  BY <1>1, <1>4, FrontAdded
<1>6. (R \ {n}) \union {n} = R /\ Len(r) + 1 = Len(q)
  BY <1>1, <1>3
<1> QED BY <1>5, <1>6 DEF r, k

-----------------------------------------------------------------------------
(* The pool.                                                               *)

PoolState == [disk : [Pages -> Content], order : Seq(Pages), copy : [Pages -> Content],
              dirty : SUBSET Pages, replaced : BOOLEAN]

Pool(s) == /\ s \in PoolState
           /\ Len(s.order) <= NumFrames /\ IsInjective(s.order)
           /\ s.dirty \subseteq Range(s.order)

\* All page numbers in the file and in the pool are below num.
Below(s, num) == \A p \in Pages : s.disk[p].first < num /\ s.copy[p].first < num

\* The pool t is s after the pages `read` were read, and the pages `out` replaced.
Serves(s, t, out, read) ==
  /\ Pool(t)
  /\ Range(s.order) \ out \subseteq Range(t.order)
  /\ read \subseteq Range(t.order) /\ Range(t.order) \subseteq Range(s.order) \union read
  /\ \A p \in Pages : t.disk[p] = IF p \in out /\ p \in s.dirty THEN s.copy[p] ELSE s.disk[p]
  /\ \A p \in Range(t.order) :
       t.copy[p] = IF p \in Range(s.order) /\ p \notin out THEN s.copy[p] ELSE t.disk[p]
  /\ \A num \in Nat \ {0} : Below(s, num) => Below(t, num)
  /\ t.dirty = s.dirty \ out
  /\ t.replaced = (s.replaced \/ 0 \in out)

LEMMA PoolFields ==
  ASSUME NEW s, Pool(s)
  PROVE  /\ s.disk \in [Pages -> Content] /\ s.order \in Seq(Pages)
         /\ s.copy \in [Pages -> Content] /\ s.dirty \subseteq Pages
         /\ s.replaced \in BOOLEAN /\ Len(s.order) \in Nat /\ Len(s.order) <= NumFrames
         /\ Orders(s.order, Range(s.order))
         /\ s.dirty \subseteq Range(s.order) /\ Range(s.order) \subseteq Pages
<1>1. s \in PoolState /\ s.order \in Seq(Pages)
  BY DEF Pool, PoolState
<1> QED BY <1>1, InRange DEF Pool, PoolState, Orders

\* A page that is in the pool is read.
LEMMA HitServes ==
  ASSUME NEW s, Pool(s), NEW n \in Range(s.order)
  PROVE  Serves(s, Fetch(s, n), {}, {n}) /\ Fetch(s, n).order[1] = n
<1> DEFINE q == <<n>> \o RemoveAt(s.order, Place(s.order, n))
           t == [s EXCEPT !.order = q]
<1>1. Orders(s.order, Range(s.order)) /\ Len(s.order) <= NumFrames /\ s \in PoolState
  BY PoolFields DEF Pool
<1>2. Orders(q, Range(s.order)) /\ Len(q) = Len(s.order) /\ q[1] = n
  BY <1>1, MovedToFront
<1>3. Fetch(s, n) = t
  BY DEF Fetch
<1> HIDE DEF q
<1>4. q \in Seq(Pages) /\ IsInjective(q) /\ Range(q) = Range(s.order)
  BY <1>2 DEF Orders
<1>5. /\ t \in PoolState /\ t.order = q /\ t.disk = s.disk /\ t.copy = s.copy /\ t.dirty = s.dirty
      /\ t.replaced = s.replaced
  BY <1>1, <1>4 DEF PoolState
<1> HIDE DEF t
<1>6. Pool(t)
  BY <1>1, <1>2, <1>4, <1>5 DEF Pool
<1>7. \A num : Below(s, num) => Below(t, num)
  BY <1>5 DEF Below
<1>8. s.replaced \in BOOLEAN
  BY PoolFields
<1> QED BY <1>2, <1>3, <1>4, <1>5, <1>6, <1>7, <1>8 DEF Serves

\* The page used last leaves the pool.
LEMMA ReplaceFields ==
  ASSUME NEW s, Pool(s), Len(s.order) # 0, NEW v, v = Last(s.order)
  PROVE  /\ Replace(s) \in PoolState
         /\ Orders(Replace(s).order, Range(s.order) \ {v})
         /\ Len(Replace(s).order) = Len(s.order) - 1
         /\ Replace(s).disk = IF v \in s.dirty THEN [s.disk EXCEPT ![v] = s.copy[v]] ELSE s.disk
         /\ Replace(s).copy = [s.copy EXCEPT ![v] = Nothing]
         /\ Replace(s).dirty = s.dirty \ {v}
         /\ Replace(s).replaced = (s.replaced \/ v = 0)
<1> DEFINE q == Front(s.order)
           d == IF v \in s.dirty THEN [s.disk EXCEPT ![v] = s.copy[v]] ELSE s.disk
           t == [s EXCEPT !.order = q, !.disk = d, !.copy = [s.copy EXCEPT ![v] = Nothing],
                          !.dirty = s.dirty \ {v}, !.replaced = s.replaced \/ v = 0]
<1>1. s \in PoolState /\ Orders(s.order, Range(s.order))
  BY PoolFields DEF Pool
<1>2. Orders(q, Range(s.order) \ {v}) /\ Len(q) = Len(s.order) - 1 /\ v \in Range(s.order)
  BY <1>1, LastOut
<1>3. q \in Seq(Pages) /\ v \in Pages
  BY <1>2, PoolFields DEF Orders
<1>4. Replace(s) = t
  BY <1>1 DEF Replace, PoolState
<1> HIDE DEF q
<1>5. d \in [Pages -> Content]
  BY <1>3, PoolFields
<1> HIDE DEF d
<1>6. /\ t \in PoolState /\ t.order = q /\ t.disk = d
      /\ t.copy = [s.copy EXCEPT ![v] = Nothing]
      /\ t.dirty = s.dirty \ {v} /\ t.replaced = (s.replaced \/ v = 0)
  BY <1>1, <1>3, <1>5, Numbers DEF PoolState
<1> QED BY <1>2, <1>4, <1>6 DEF d

\* The pool t is s without the pages `out`, and has room for one more.
Vacates(s, t, out) ==
  /\ t \in PoolState /\ out \subseteq Range(s.order)
  /\ Orders(t.order, Range(s.order) \ out) /\ Len(t.order) < NumFrames
  /\ \A p \in Pages : t.disk[p] = IF p \in out /\ p \in s.dirty THEN s.copy[p] ELSE s.disk[p]
  /\ \A p \in Pages : t.copy[p] = IF p \in out THEN Nothing ELSE s.copy[p]
  /\ t.dirty = s.dirty \ out
  /\ t.replaced = (s.replaced \/ 0 \in out)

LEMMA ReplaceVacates ==
  ASSUME NEW s, Pool(s), ~(Len(s.order) < NumFrames)
  PROVE  Vacates(s, Replace(s), {Last(s.order)}) /\ Last(s.order) # s.order[1]
<1> DEFINE v == Last(s.order)
           t == Replace(s)
<1>1. /\ Len(s.order) \in Nat /\ 2 <= Len(s.order) /\ Len(s.order) - 1 < NumFrames
      /\ Len(s.order) # 0
  BY PoolFields, Numbers
<1>2. v \in Range(s.order) /\ v # s.order[1] /\ v \in Pages
  BY <1>1, PoolFields, LastOut
<1>3. /\ t \in PoolState /\ Orders(t.order, Range(s.order) \ {v})
      /\ Len(t.order) = Len(s.order) - 1
      /\ t.disk = IF v \in s.dirty THEN [s.disk EXCEPT ![v] = s.copy[v]] ELSE s.disk
      /\ t.copy = [s.copy EXCEPT ![v] = Nothing]
      /\ t.dirty = s.dirty \ {v} /\ t.replaced = (s.replaced \/ v = 0)
  <2> HIDE DEF t
  <2> QED BY <1>1, ReplaceFields DEF t
<1> HIDE DEF v, t
<1>4. /\ \A p \in Pages : t.disk[p] = IF p \in {v} /\ p \in s.dirty THEN s.copy[p] ELSE s.disk[p]
      /\ \A p \in Pages : t.copy[p] = IF p \in {v} THEN Nothing ELSE s.copy[p]
  BY <1>2, <1>3, PoolFields
<1>5. t.replaced = (s.replaced \/ 0 \in {v})
  BY <1>3
<1>6. Vacates(s, t, {v})
  BY <1>1, <1>2, <1>3, <1>4, <1>5 DEF Vacates
<1> QED BY <1>2, <1>6 DEF v, t

\* The pool u is t with page n as it is in the file.
Loads(t, u, n) == u = [t EXCEPT !.order = <<n>> \o @, !.copy[n] = t.disk[n]]

\* A page that is not in the pool is read from the file.
LEMMA LoadServes ==
  ASSUME NEW s, Pool(s), NEW n \in Pages, n \notin Range(s.order),
         NEW t, NEW out, Vacates(s, t, out),
         NEW u, Loads(t, u, n)
  PROVE  Serves(s, u, out, {n}) /\ u.order[1] = n
<1> DEFINE q == <<n>> \o t.order
           c == [t.copy EXCEPT ![n] = t.disk[n]]
           R == Range(s.order)
<1>1. /\ t \in PoolState /\ t.order \in Seq(Pages) /\ t.disk \in [Pages -> Content]
      /\ t.copy \in [Pages -> Content] /\ Len(t.order) \in Nat
  BY DEF Vacates, PoolState
<1>2. Orders(q, (R \ out) \union {n}) /\ Len(q) = Len(t.order) + 1 /\ q[1] = n
  BY FrontAdded DEF Vacates
<1> HIDE DEF q
<1>3. q \in Seq(Pages) /\ IsInjective(q) /\ Range(q) = (R \ out) \union {n} /\ Len(q) <= NumFrames
  BY <1>1, <1>2, Numbers DEF Orders, Vacates
<1>4. c \in [Pages -> Content] /\ \A p \in Pages : c[p] = IF p = n THEN t.disk[p] ELSE t.copy[p]
  BY <1>1
<1>5. u = [t EXCEPT !.order = q, !.copy = c]
  BY <1>1 DEF PoolState, q, Loads
<1> HIDE DEF c
<1>6. /\ u \in PoolState /\ u.order = q /\ u.copy = c
      /\ u.disk = t.disk /\ u.dirty = t.dirty /\ u.replaced = t.replaced
  BY <1>1, <1>3, <1>4, <1>5 DEF PoolState
<1>7. u.dirty = s.dirty \ out /\ s.dirty \subseteq R /\ R \subseteq Pages /\ out \subseteq R
  BY <1>6, PoolFields DEF Vacates
<1>8. Pool(u)
  BY <1>3, <1>6, <1>7 DEF Pool
<1>9. \A p \in Range(u.order) :
        u.copy[p] = IF p \in R /\ p \notin out THEN s.copy[p] ELSE u.disk[p]
  <2> SUFFICES ASSUME NEW p \in (R \ out) \union {n}
               PROVE  c[p] = IF p \in R /\ p \notin out THEN s.copy[p] ELSE t.disk[p]
    BY <1>3, <1>6
  <2>1. CASE p = n
    BY <1>4, <2>1
  <2>2. CASE p # n
    <3>1. p \in R /\ p \notin out /\ p \in Pages
      BY <1>7, <2>2
    <3>2. c[p] = t.copy[p] /\ t.copy[p] = s.copy[p]
      BY <1>4, <2>2, <3>1 DEF Vacates
    <3> QED BY <3>1, <3>2
  <2> QED BY <2>1, <2>2
<1>10. \A p \in Pages : u.disk[p] = IF p \in out /\ p \in s.dirty THEN s.copy[p] ELSE s.disk[p]
  BY <1>6 DEF Vacates
<1>11. ASSUME NEW num \in Nat \ {0}, Below(s, num) PROVE Below(u, num)
  <2> SUFFICES ASSUME NEW p \in Pages PROVE u.disk[p].first < num /\ c[p].first < num
    BY <1>6 DEF Below
  <2>1. \A x \in Pages : u.disk[x].first < num
    BY <1>10, <1>11 DEF Below
  <2>2. Nothing.first < num
    BY DEF Nothing
  <2>3. t.copy[p].first < num
    <3>1. t.copy[p] = Nothing \/ t.copy[p] = s.copy[p]
      BY DEF Vacates
    <3> QED BY <1>11, <2>2, <3>1 DEF Below
  <2> QED BY <1>4, <1>6, <2>1, <2>3
<1>12. u.replaced = (s.replaced \/ 0 \in out)
  BY <1>6 DEF Vacates
<1>13. Range(u.order) = (R \ out) \union {n}
  BY <1>3, <1>6
<1> HIDE DEF R
<1>14. /\ R \ out \subseteq Range(u.order) /\ {n} \subseteq Range(u.order)
       /\ Range(u.order) \subseteq R \union {n}
  BY <1>13
<1>15. Serves(s, u, out, {n})
  BY <1>7, <1>8, <1>9, <1>10, <1>11, <1>12, <1>14 DEF Serves, R
<1> QED BY <1>2, <1>6, <1>15

\* buffer_read_page: the page is in the pool afterwards, and the page used last before
\* is not the one replaced.
LEMMA FetchServes ==
  ASSUME NEW s, Pool(s), NEW n \in Pages
  PROVE  \E out \in SUBSET Pages :
           /\ Serves(s, Fetch(s, n), out, {n}) /\ Fetch(s, n).order[1] = n
           /\ out \subseteq Range(s.order) /\ (s.order # << >> => s.order[1] \notin out)
           /\ n \notin out
<1>1. CASE n \in Range(s.order)
  <2>1. Serves(s, Fetch(s, n), {}, {n}) /\ Fetch(s, n).order[1] = n
    BY <1>1, HitServes
  <2> QED BY <2>1
<1>2. CASE n \notin Range(s.order) /\ Len(s.order) < NumFrames
  <2>1. Loads(s, Fetch(s, n), n)
    BY <1>2 DEF Fetch, Loads
  <2>2. Vacates(s, s, {})
    <3>1. s \in PoolState /\ Orders(s.order, Range(s.order) \ {})
      BY PoolFields DEF Pool
    <3>2. s.replaced = (s.replaced \/ 0 \in {})
      BY PoolFields
    <3> QED BY <1>2, <3>1, <3>2 DEF Vacates
  <2>3. Serves(s, Fetch(s, n), {}, {n}) /\ Fetch(s, n).order[1] = n
    BY <1>2, <2>1, <2>2, LoadServes
  <2> QED BY <2>3
<1>3. CASE n \notin Range(s.order) /\ ~(Len(s.order) < NumFrames)
  <2> DEFINE t == Replace(s)
             v == Last(s.order)
  <2>1. Loads(t, Fetch(s, n), n)
    BY <1>3 DEF Fetch, Loads
  <2>2. Vacates(s, t, {v}) /\ v # s.order[1]
    BY <1>3, ReplaceVacates
  <2> HIDE DEF t, v
  <2>3. Serves(s, Fetch(s, n), {v}, {n}) /\ Fetch(s, n).order[1] = n
    BY <1>3, <2>1, <2>2, LoadServes
  <2>4. {v} \subseteq Range(s.order) /\ Range(s.order) \subseteq Pages
    BY <2>2, PoolFields DEF Vacates
  <2> QED BY <1>3, <2>2, <2>3, <2>4
<1> QED BY <1>1, <1>2, <1>3

\* Two reads, the second of which keeps the pages of the first in the pool.
LEMMA ServesBoth ==
  ASSUME NEW s, Pool(s), NEW t, NEW u, NEW out, NEW more, NEW read, NEW next,
         Serves(s, t, out, read), Serves(t, u, more, next), read \intersect more = {}
  PROVE  Serves(s, u, out \union more, read \union next)
<1> DEFINE R == Range(s.order)
           all == out \union more
           P == read \union next
<1>1. /\ Pool(t) /\ Pool(u) /\ s.dirty \subseteq R /\ R \subseteq Pages
      /\ t.dirty \subseteq Range(t.order) /\ Range(t.order) \subseteq Pages
      /\ Range(u.order) \subseteq Pages
  BY PoolFields DEF Serves
<1>2. R \ all \subseteq Range(u.order) /\ P \subseteq Range(u.order) /\ Range(u.order) \subseteq R \union P
  BY DEF Serves
<1>3. t.dirty = s.dirty \ out /\ u.dirty = s.dirty \ all
  BY DEF Serves
<1>4. ASSUME NEW p \in t.dirty PROVE t.copy[p] = s.copy[p] /\ p \in s.dirty /\ p \notin out
  <2>1. p \in s.dirty /\ p \notin out /\ p \in Range(t.order) /\ p \in R
    BY <1>1, <1>3
  <2> QED BY <2>1 DEF Serves
<1>5. ASSUME NEW p \in Pages
      PROVE  u.disk[p] = IF p \in all /\ p \in s.dirty THEN s.copy[p] ELSE s.disk[p]
  <2>1. /\ t.disk[p] = IF p \in out /\ p \in s.dirty THEN s.copy[p] ELSE s.disk[p]
        /\ u.disk[p] = IF p \in more /\ p \in t.dirty THEN t.copy[p] ELSE t.disk[p]
    BY DEF Serves
  <2> QED BY <1>3, <1>4, <2>1
<1>6. ASSUME NEW p \in Range(u.order)
      PROVE  u.copy[p] = IF p \in R /\ p \notin all THEN s.copy[p] ELSE u.disk[p]
  <2>1. p \in Pages
    BY <1>1
  <2>2. u.copy[p] = IF p \in Range(t.order) /\ p \notin more THEN t.copy[p] ELSE u.disk[p]
    BY DEF Serves
  <2>3. p \in Range(t.order) => t.copy[p] = IF p \in R /\ p \notin out THEN s.copy[p] ELSE t.disk[p]
    BY DEF Serves
  <2>4. p \notin more => u.disk[p] = t.disk[p]
    BY <2>1 DEF Serves
  <2>5. p \in R /\ p \notin all => p \in Range(t.order)
    BY DEF Serves
  <2> QED BY <2>2, <2>3, <2>4, <2>5
<1>7. \A num \in Nat \ {0} : Below(s, num) => Below(u, num)
  BY DEF Serves
<1>8. u.replaced = (s.replaced \/ 0 \in all)
  BY DEF Serves
<1> HIDE DEF R, all, P
<1>9. Serves(s, u, all, P)
  BY <1>1, <1>2, <1>3, <1>5, <1>6, <1>7, <1>8 DEF Serves, R
<1> QED BY <1>9 DEF all, P

\* The header page is read and then page n: both are in the pool, and the header page
\* did not leave it.
LEMMA FetchBoth ==
  ASSUME NEW s, Pool(s), NEW n \in Pages
  PROVE  \E out \in SUBSET Pages : /\ Serves(s, Fetch(Fetch(s, 0), n), out, {0, n})
                                   /\ 0 \notin out
<1> DEFINE t == Fetch(s, 0)
           u == Fetch(t, n)
<1>1. PICK out \in SUBSET Pages : Serves(s, t, out, {0}) /\ t.order[1] = 0 /\ 0 \notin out
  BY FetchServes, Numbers
<1> HIDE DEF t
<1>2. Pool(t) /\ 0 \in Range(t.order)
  BY <1>1 DEF Serves
<1>3. t.order # << >>
  <2>1. \E k \in 1 .. Len(t.order) : t.order[k] = 0
    BY <1>2, PoolFields, InRange
  <2> QED BY <2>1
<1>4. PICK more \in SUBSET Pages : Serves(t, u, more, {n}) /\ t.order[1] \notin more
  BY <1>2, <1>3, FetchServes
<1> HIDE DEF u
<1>5. Serves(s, u, out \union more, {0} \union {n})
  <2>1. {0} \intersect more = {}
    BY <1>1, <1>4
  <2> QED BY <1>1, <1>4, <2>1, ServesBoth
<1>6. {0} \union {n} = {0, n} /\ 0 \notin out \union more /\ out \union more \in SUBSET Pages
  BY <1>1, <1>4
<1> QED BY <1>5, <1>6 DEF t, u

\* The pool t is s with content c written to page n.
Written(s, t, n, c) ==
  /\ t.disk = s.disk /\ t.order = s.order /\ t.replaced = s.replaced
  /\ t.dirty = s.dirty \union {n}
  /\ \A p \in Pages : t.copy[p] = IF p = n THEN c ELSE s.copy[p]

\* buffer_write_page of a page of the pool.
LEMMA PutWrites ==
  ASSUME NEW s, Pool(s), NEW n \in Range(s.order), NEW c \in Content
  PROVE  Pool(Put(s, n, c)) /\ Written(s, Put(s, n, c), n, c)
<1> DEFINE d == [s.copy EXCEPT ![n] = c]
           e == s.dirty \union {n}
           t == [s EXCEPT !.copy = d, !.dirty = e]
<1>1. s \in PoolState /\ n \in Pages /\ s.copy \in [Pages -> Content] /\ s.dirty \subseteq Range(s.order)
      /\ e \subseteq Pages
  BY PoolFields DEF Pool
<1>2. d \in [Pages -> Content] /\ \A p \in Pages : d[p] = IF p = n THEN c ELSE s.copy[p]
  BY <1>1
<1>3. Put(s, n, c) = t
  BY <1>1 DEF Put, PoolState
<1> HIDE DEF d
<1>4. e \subseteq Range(s.order)
  BY <1>1
<1> HIDE DEF e
<1>5. /\ t \in PoolState /\ t.disk = s.disk /\ t.order = s.order /\ t.copy = d /\ t.dirty = e
      /\ t.replaced = s.replaced
  BY <1>1, <1>2 DEF PoolState
<1> HIDE DEF t
<1>6. Pool(t)
  BY <1>4, <1>5 DEF Pool
<1>7. Written(s, t, n, c)
  BY <1>2, <1>5 DEF Written, e
<1> QED BY <1>3, <1>6, <1>7

-----------------------------------------------------------------------------
(* What file_alloc_page and file_open_table_file leave in the file.        *)

\* File g is file f of which page n was allocated.
Allocates(f, g, n) ==
  /\ g \in [Pages -> Content] /\ g[0].second \in 2 .. MaxPages
  /\ g[0].second = IF n >= f[0].second THEN 2 * f[0].second ELSE f[0].second
  /\ n \in 1 .. g[0].second - 1
  /\ \A p \in Pages : g[p].first < g[0].second
  /\ \A p \in 1 .. f[0].second - 1 : g[p] = f[p]
  /\ g[n].first = g[0].first
  /\ \A taken : Space!Sound(f, taken) =>
       n \notin taken /\ Space!Sound(g, taken \union {n})

\* File g is file f with the pages a .. b linked, the first to `next`, and header h.
Linking(f, g, a, b, next, h) ==
  /\ g \in [Pages -> Content] /\ g[0] = h
  /\ \A p \in Pages \ {0} :
       g[p] = IF p \in a .. b THEN [first |-> IF p = a THEN next ELSE p - 1, second |-> 0]
              ELSE f[p]

LEMMA ChainLinks ==
  ASSUME NEW f \in [Pages -> Content], NEW a \in 1 .. MaxPages, NEW b \in 0 .. MaxPages - 1,
         a <= b + 1, NEW next \in Pages, NEW h \in Content
  PROVE  Linking(f, Disk!After(f, Append(Disk!Chain(a, b, next), Disk!To(0, h))), a, b, next, h)
<1> DEFINE w == Append(Space!Chain(a, b, next), Space!To(0, h))
           g == Space!After(f, w)
<1>1. Append(Disk!Chain(a, b, next), Disk!To(0, h)) = w
  BY DEF Disk!Chain, Space!Chain, Disk!To, Space!To, Disk!Link, Space!Link
<1>2. Space!Chained(f, w, a, b, next, h)
  BY SpaceAssumption, SameTerms, Space!ChainFile
<1> HIDE DEF w
<1>3. /\ w \in Seq(Space!WriteCall) /\ Len(w) = b - a + 2
      /\ \A k \in 0 .. Len(w) :
           /\ Space!After(f, SubSeq(w, 1, k))[0] = IF k = Len(w) THEN h ELSE f[0]
           /\ \A p \in Pages \ {0} :
                Space!After(f, SubSeq(w, 1, k))[p] =
                  IF p \in a .. b /\ p < a + k
                    THEN Space!Link(IF p = a THEN next ELSE p - 1) ELSE f[p]
  BY <1>2, SameTerms DEF Space!Chained
<1>4. Len(w) \in 0 .. Len(w) /\ SubSeq(w, 1, Len(w)) = w
  BY <1>3
<1>5. \A p \in a .. b : p < a + Len(w)
  BY <1>3, Numbers
<1>6. g[0] = h /\ \A p \in Pages \ {0} :
        g[p] = IF p \in a .. b THEN Space!Link(IF p = a THEN next ELSE p - 1) ELSE f[p]
  <2>1. g = Space!After(f, SubSeq(w, 1, Len(w)))
    BY <1>4
  <2>2. g[0] = h
    BY <1>3, <1>4, <2>1
  <2>3. ASSUME NEW p \in Pages \ {0}
        PROVE  g[p] = IF p \in a .. b THEN Space!Link(IF p = a THEN next ELSE p - 1) ELSE f[p]
    <3>1. g[p] = IF p \in a .. b /\ p < a + Len(w)
                   THEN Space!Link(IF p = a THEN next ELSE p - 1) ELSE f[p]
      BY <1>3, <1>4, <2>1
    <3> QED BY <1>5, <3>1
  <2> QED BY <2>2, <2>3
<1>7. g \in [Pages -> Content]
  BY <1>3, SpaceAssumption, SameTerms, Space!AfterType
<1> HIDE DEF g
<1>8. Linking(f, g, a, b, next, h)
  BY <1>6, <1>7 DEF Linking, Space!Link
<1> QED BY <1>1, <1>8, SameAfter DEF g

\* The first page of the list in the file is taken ...
LEMMA PopAllocates ==
  ASSUME disk \in [Pages -> Content], disk[0].second \in 2 .. MaxPages,
         \A p \in Pages : disk[p].first < disk[0].second,
         disk[0].first # 0
  PROVE  Allocates(disk, Disk!After(disk, Disk!AllocWrites), Disk!AllocPage)
<1> DEFINE n == disk[0].first
           h == [first |-> disk[n].first, second |-> disk[0].second]
           w == <<Space!To(0, h)>>
           g == [disk EXCEPT ![0] = h]
<1>1. Disk!AllocPage = n /\ Disk!AllocWrites = w
  BY DEF Disk!AllocPage, Disk!AllocWrites, Disk!PopWrites, Disk!Header, Disk!header,
         Disk!To, Space!To
<1>2. /\ n \in Pages \ {0} /\ n \in 1 .. disk[0].second - 1 /\ disk[n] \in Content
      /\ h \in Content /\ disk[0].second \in Nat
  <2>1. disk[0] \in Content
    BY Numbers
  <2>2. n \in Pages /\ disk[0].second \in 0 .. MaxPages
    BY <2>1 DEF Content
  <2>3. disk[n] \in Content
    BY <2>2
  <2>4. disk[n].first \in Pages
    BY <2>3 DEF Content
  <2>5. h \in Content
    BY <2>2, <2>4 DEF Content
  <2>6. n < disk[0].second
    BY Numbers
  <2>7. n \in 1 .. disk[0].second - 1
    <3> HIDE DEF n
    <3> QED BY <2>2, <2>6, Numbers DEF n, Pages
  <2> QED BY <2>2, <2>3, <2>5, <2>7, Numbers
<1>3. Space!After(disk, w) = g
  <2> HIDE DEF h, n
  <2>1. Space!WritesOne(disk, <<Space!To(0, h)>>, 0, h)
    BY <1>2, SpaceAssumption, SameTerms, Numbers, Space!OneWrite
  <2> QED BY <2>1 DEF Space!WritesOne
<1>4. /\ g \in [Pages -> Content] /\ g[0] = h /\ \A p \in Pages \ {0} : g[p] = disk[p]
      /\ \A p \in 1 .. disk[0].second - 1 : p \in Pages \ {0}
  BY <1>2, Numbers DEF Pages
<1> HIDE DEF g, n
<1>5. ASSUME NEW taken, Space!Sound(disk, taken)
      PROVE  n \notin taken /\ Space!Sound(g, taken \union {n})
  <2>1. \A p \in 1 .. disk[0].second - 1 : g[p] = disk[p]
    BY <1>4
  <2>2. g[0].second = disk[0].second /\ g[0].first = disk[disk[0].first].first
    BY <1>4 DEF h, n
  <2>3. /\ disk[0].first \in 1 .. disk[0].second - 1 \ taken
        /\ Space!Sound(g, taken \union {disk[0].first})
    BY <1>5, <2>1, <2>2, SpaceAssumption, Space!ListPops
  <2> QED BY <2>3 DEF n
<1>6. ~(n >= disk[0].second)
  BY <1>2
<1>7. g[0].second = disk[0].second /\ g[0].first = disk[n].first
  BY <1>4
<1>8. \A p \in Pages : g[p].first < g[0].second
  BY <1>2, <1>4, <1>7
<1>9. Allocates(disk, g, n)
  BY <1>2, <1>4, <1>5, <1>6, <1>7, <1>8 DEF Allocates
<1> QED BY <1>1, <1>3, <1>9, SameAfter

\* ... or the last page of a file that was doubled.
LEMMA ExtendAllocates ==
  ASSUME disk \in [Pages -> Content], disk[0].second \in 2 .. MaxPages,
         \A p \in Pages : disk[p].first < disk[0].second,
         disk[0].first = 0, 2 * disk[0].second <= MaxPages
  PROVE  Allocates(disk, Disk!After(disk, Disk!AllocWrites), Disk!AllocPage)
<1> DEFINE s == disk[0].second
           h == [first |-> 2 * s - 2, second |-> 2 * s]
           w == Append(Disk!Chain(s, 2 * s - 1, 0), Disk!To(0, h))
           g == Disk!After(disk, w)
<1>1. Disk!AllocPage = 2 * s - 1 /\ Disk!AllocWrites = w
  BY DEF Disk!AllocPage, Disk!AllocWrites, Disk!ExtendWrites, Disk!Header, Disk!header
<1>2. /\ s \in Nat /\ 2 <= s /\ 2 * s <= MaxPages /\ s \in 1 .. MaxPages
      /\ 2 * s - 1 \in 0 .. MaxPages - 1 /\ s <= (2 * s - 1) + 1
      /\ 2 * s \in 2 .. MaxPages /\ 2 * s - 1 \in 1 .. 2 * s - 1 /\ 2 * s - 1 >= s
  BY Numbers
<1>3. h \in Content
  <2>1. 2 * s - 2 \in Pages /\ 2 * s \in 0 .. MaxPages
    BY <1>2, Numbers DEF Pages
  <2> QED BY <2>1 DEF Content
<1>4. Linking(disk, g, s, 2 * s - 1, 0, h)
  BY <1>2, <1>3, Numbers, ChainLinks
<1> HIDE DEF g
<1>5. /\ g \in [Pages -> Content] /\ g[0] = h
      /\ \A p \in Pages \ {0} : g[p] = IF p \in s .. 2 * s - 1
            THEN [first |-> IF p = s THEN 0 ELSE p - 1, second |-> 0] ELSE disk[p]
  BY <1>4 DEF Linking
<1>6. g[0].first = 2 * s - 2 /\ g[0].second = 2 * s
  BY <1>5
<1>7. \A p \in 1 .. s - 1 : g[p] = disk[p]
  <2>1. \A p \in 1 .. s - 1 : p \in Pages \ {0} /\ p \notin s .. 2 * s - 1
    BY <1>2, Numbers DEF Pages
  <2> QED BY <1>5, <2>1
<1>8. \A p \in s .. 2 * s - 1 : g[p].first = IF p = s THEN 0 ELSE p - 1
  <2>1. \A p \in s .. 2 * s - 1 : p \in Pages \ {0}
    BY <1>2, Numbers DEF Pages
  <2> QED BY <1>5, <2>1
<1>9. g[2 * s - 1].first = 2 * s - 2
  <2>1. 2 * s - 1 \in s .. 2 * s - 1 /\ 2 * s - 1 # s /\ (2 * s - 1) - 1 = 2 * s - 2
    BY <1>2
  <2> QED BY <1>8, <2>1
<1>10. ASSUME NEW p \in Pages PROVE g[p].first < 2 * s
  <2>1. CASE p = 0
    BY <1>2, <1>6, <2>1
  <2>2. CASE p \in s .. 2 * s - 1
    BY <1>2, <1>8, <2>2
  <2>3. CASE p # 0 /\ p \notin s .. 2 * s - 1
    <3>1. g[p] = disk[p] /\ disk[p].first < s
      BY <1>5, <2>3
    <3>2. disk[p].first \in Nat
      BY Numbers DEF Content, Pages
    <3> QED BY <1>2, <3>1, <3>2
  <2> QED BY <2>1, <2>2, <2>3
<1>11. ASSUME NEW taken, Space!Sound(disk, taken)
       PROVE  2 * s - 1 \notin taken /\ Space!Sound(g, taken \union {2 * s - 1})
  <2> DEFINE top == 2 * s - 2
             N == 2 * s
  <2>1. taken \subseteq 1 .. s - 1
    BY <1>11 DEF Space!Sound
  <2>2. 2 * s - 1 \notin taken
    BY <1>2, <2>1
  <2>3. /\ top \in Nat /\ N \in 1 .. MaxPages /\ s - 1 <= top /\ top < N
        /\ top + 1 .. N - 1 = {2 * s - 1}
        /\ top = s - 1 => top = 0 /\ ~(top = s - 1)
    BY <1>2
  <2>4. Space!Grown(disk, g, s, top, N)
    <3>1. \A p \in s .. top : p \in s .. 2 * s - 1
      BY <1>2
    <3> QED BY <1>6, <1>7, <1>8, <2>3, <3>1 DEF Space!Grown
  <2> HIDE DEF top, N
  <2>5. Space!Sound(g, taken \union top + 1 .. N - 1)
    BY <1>11, <2>3, <2>4, SpaceAssumption, Space!ListGrows
  <2> QED BY <2>2, <2>3, <2>5
<1> DEFINE n == 2 * s - 1
<1>12. /\ n >= s /\ n \in 1 .. 2 * s - 1 /\ g[n].first = 2 * s - 2
       /\ \A taken : Space!Sound(disk, taken) => n \notin taken /\ Space!Sound(g, taken \union {n})
  BY <1>2, <1>9, <1>11
<1> HIDE DEF n
<1>13. Allocates(disk, g, n)
  BY <1>2, <1>5, <1>6, <1>7, <1>10, <1>12 DEF Allocates
<1> QED BY <1>1, <1>13 DEF g, n

LEMMA AllocWrites ==
  ASSUME disk \in [Pages -> Content], disk[0].second \in 2 .. MaxPages,
         \A p \in Pages : disk[p].first < disk[0].second, Disk!MayAlloc
  PROVE  Allocates(disk, Disk!After(disk, Disk!AllocWrites), Disk!AllocPage)
  BY PopAllocates, ExtendAllocates DEF Disk!MayAlloc, Disk!header

\* A new file: all pages but the header are in the list.
LEMMA NewFileSound ==
  /\ NewFile \in [Pages -> Content] /\ NewFile[0].second \in 2 .. MaxPages
  /\ \A p \in Pages : NewFile[p].first < NewFile[0].second
  /\ Space!Sound(NewFile, {})
<1> DEFINE f == [n \in Pages |-> Nothing]
           h == [first |-> P_NUMBER - 1, second |-> P_NUMBER]
           b == P_NUMBER - 1
<1>1. /\ f \in [Pages -> Content] /\ h \in Content /\ 1 \in 1 .. MaxPages
      /\ b \in 0 .. MaxPages - 1 /\ 1 <= b + 1 /\ P_NUMBER \in 2 .. MaxPages
  BY Numbers DEF Content, Pages
<1>2. NewFile = Disk!After(f, Append(Disk!Chain(1, b, 0), Disk!To(0, h)))
  BY DEF NewFile, Disk!CreateWrites, Disk!Header
<1> HIDE DEF f
<1>3. Linking(f, NewFile, 1, b, 0, h)
  <2> HIDE DEF h, b
  <2> QED BY <1>1, <1>2, Numbers, ChainLinks
<1>4. /\ NewFile \in [Pages -> Content] /\ NewFile[0] = h
      /\ \A p \in Pages \ {0} : NewFile[p] = IF p \in 1 .. b
            THEN [first |-> IF p = 1 THEN 0 ELSE p - 1, second |-> 0] ELSE f[p]
  BY <1>3 DEF Linking
<1>5. NewFile[0].first = P_NUMBER - 1 /\ NewFile[0].second = P_NUMBER
  BY <1>4
<1>6. ASSUME NEW p \in Pages PROVE NewFile[p].first < P_NUMBER
  <2>1. CASE p = 0
    BY <1>5, <2>1, Numbers
  <2>2. CASE p \in 1 .. b
    <3>1. p # 0 /\ (p # 1 => p - 1 < P_NUMBER)
      BY <2>2, Numbers
    <3> QED BY <1>4, <2>2, <3>1, Numbers
  <2>3. CASE p # 0 /\ p \notin 1 .. b
    <3>1. NewFile[p] = Nothing
      BY <1>4, <2>3 DEF f
    <3> QED BY <3>1, Numbers DEF Nothing
  <2> QED BY <2>1, <2>2, <2>3
<1>7. Space!Sound(NewFile, {})
  <2> DEFINE w == Space!CreateWrites
  <2>1. /\ w \in Seq(Space!WriteCall) /\ Len(w) \in Nat
        /\ Space!Sound(Space!After(f, w), {})
    BY <1>1, SpaceAssumption, SameTerms, Space!CreatedFile
  <2>2. NewFile = Space!After(f, w)
    <3>1. Disk!CreateWrites = w
      BY DEF Disk!CreateWrites, Space!CreateWrites, Disk!Header, Space!Header, Disk!To, Space!To,
             Disk!Chain, Space!Chain, Disk!Link, Space!Link
    <3> QED BY <3>1, SameAfter DEF NewFile, f
  <2> QED BY <2>1, <2>2
<1> QED BY <1>1, <1>4, <1>5, <1>6, <1>7

-----------------------------------------------------------------------------
(* The invariant.                                                          *)

\* Page numbers in the file and in the pool are those of pages of the file.
Within(s) == /\ s.disk[0].second \in 2 .. MaxPages
             /\ Below(s, s.disk[0].second)
             /\ Range(s.order) \subseteq 0 .. s.disk[0].second - 1

\* The header in the pool knows of as many pages as the one in the file.
Numbered(s, use) ==
  /\ Within(s)
  /\ 0 \in Range(s.order) => s.copy[0].second = s.disk[0].second
  /\ use \subseteq 1 .. s.disk[0].second - 1

\* What a client reads: a page from the pool, and from the file when it is not there.
View(s) == [p \in Pages |-> IF p \in Range(s.order) THEN s.copy[p] ELSE s.disk[p]]

\* The list in the file has no page that is in use or in the pool; the list that a
\* client reads has no page that is in use, and a shutdown makes it that of the file.
\* Until a page is freed the headers are the same, and then only the one in the pool,
\* which it does not leave, begins with what was freed.
Consistent(s, use, free) ==
  /\ \A p \in Range(s.order) \ s.dirty : s.copy[p] = s.disk[p]
  /\ \E taken : Space!Sound(s.disk, taken) /\ use \union (Range(s.order) \ {0}) \subseteq taken
  /\ \E taken : Space!Sound(View(s), taken) /\ use \subseteq taken
  /\ ~free /\ 0 \in Range(s.order) => s.copy[0] = s.disk[0]
  /\ free => 0 \in Range(s.order)

AllocInv == /\ Pool(Now) /\ Numbered(Now, inUse) /\ freed \in BOOLEAN /\ torn \in BOOLEAN
            /\ (freed /\ replaced) \/ torn \/ Consistent(Now, inUse, freed)

LEMMA WithinFields ==
  ASSUME NEW s, Pool(s), Within(s)
  PROVE  /\ s.disk[0] \in Content /\ s.copy[0] \in Content
         /\ s.disk[0].second \in Nat \ {0} /\ s.disk[0].second \in 2 .. MaxPages
         /\ 0 .. s.disk[0].second - 1 \subseteq Pages
         /\ 0 \in 0 .. s.disk[0].second - 1
         /\ \A p \in Pages : s.disk[p].first < s.disk[0].second /\ s.copy[p].first < s.disk[0].second
<1>1. s.disk \in [Pages -> Content] /\ s.copy \in [Pages -> Content]
  BY PoolFields
<1>2. s.disk[0].second \in 2 .. MaxPages
  BY DEF Within
<1> QED BY <1>1, <1>2, Numbers DEF Within, Below, Pages

LEMMA ServesNumbered ==
  ASSUME NEW s, Pool(s), NEW use, Numbered(s, use), NEW t, NEW out, NEW read,
         Serves(s, t, out, read), read \subseteq 0 .. s.disk[0].second - 1
  PROVE  Numbered(t, use) /\ t.disk[0].second = s.disk[0].second
<1> DEFINE N == s.disk[0].second
<1>1. Within(s) /\ (0 \in Range(s.order) => s.copy[0].second = N) /\ use \subseteq 1 .. N - 1
  BY DEF Numbered
<1>2. /\ N \in Nat \ {0} /\ N \in 2 .. MaxPages /\ Below(s, N) /\ Range(s.order) \subseteq 0 .. N - 1
      /\ 0 \in Pages
  BY <1>1, WithinFields, Numbers DEF Within
<1> HIDE DEF N
<1>3. t.disk[0].second = N
  <2>1. t.disk[0] = IF 0 \in out /\ 0 \in s.dirty THEN s.copy[0] ELSE s.disk[0]
    BY <1>2 DEF Serves
  <2>2. 0 \in s.dirty => 0 \in Range(s.order)
    BY PoolFields
  <2> QED BY <1>1, <2>1, <2>2 DEF N
<1>4. Below(t, N)
  BY <1>2 DEF Serves
<1>5. read \subseteq 0 .. N - 1
  BY DEF N
<1>6. Range(t.order) \subseteq 0 .. N - 1
  BY <1>2, <1>5 DEF Serves
<1>7. 0 \in Range(t.order) => t.copy[0].second = N
  <2>1. 0 \in Range(t.order) => t.copy[0] = IF 0 \in Range(s.order) /\ 0 \notin out THEN s.copy[0] ELSE t.disk[0]
    BY DEF Serves
  <2> QED BY <1>1, <1>3, <2>1
<1>8. Within(t)
  BY <1>2, <1>3, <1>4, <1>6 DEF Within
<1> QED BY <1>1, <1>3, <1>7, <1>8 DEF Numbered, N

\* As long as the header page stays once a page was freed, reading changes nothing for
\* a client, and takes no page of the list in the file into the pool.
LEMMA ServesConsistent ==
  ASSUME NEW s, Pool(s), NEW use, Numbered(s, use), NEW t, NEW out, NEW read,
         Serves(s, t, out, read), read \subseteq use \union {0},
         NEW free, Consistent(s, use, free), ~free \/ 0 \notin out
  PROVE  Consistent(t, use, free) /\ View(t) = View(s)
<1> DEFINE R == Range(s.order)
           Q == Range(t.order)
<1>1. /\ Within(s) /\ (0 \in R => s.copy[0].second = s.disk[0].second)
      /\ use \subseteq 1 .. s.disk[0].second - 1
  BY DEF Numbered
<1>2. /\ 0 \in Pages /\ R \subseteq Pages /\ s.dirty \subseteq R /\ Q \subseteq Pages
      /\ s.disk[0] \in Content /\ s.copy[0] \in Content
      /\ 0 .. s.disk[0].second - 1 \subseteq Pages
  BY <1>1, WithinFields, PoolFields, Numbers DEF Serves
<1>3. /\ R \ out \subseteq Q /\ Q \subseteq R \union read
      /\ \A p \in Pages : t.disk[p] = IF p \in out /\ p \in s.dirty THEN s.copy[p] ELSE s.disk[p]
      /\ \A p \in Q : t.copy[p] = IF p \in R /\ p \notin out THEN s.copy[p] ELSE t.disk[p]
      /\ t.dirty = s.dirty \ out
  BY DEF Serves
<1>4. \A p \in R \ s.dirty : s.copy[p] = s.disk[p]
  BY DEF Consistent
<1>5. ASSUME NEW p \in Q \ t.dirty PROVE t.copy[p] = t.disk[p]
  BY <1>2, <1>3, <1>4
<1>6. ~free => t.disk[0] = s.disk[0]
  BY <1>2, <1>3 DEF Consistent
<1>7. t.disk[0] = s.disk[0]
  BY <1>2, <1>3, <1>6
<1>8. \E taken : Space!Sound(t.disk, taken) /\ use \union (Q \ {0}) \subseteq taken
  <2>1. PICK taken : Space!Sound(s.disk, taken) /\ use \union (R \ {0}) \subseteq taken
    BY DEF Consistent
  <2>2. \A p \in 1 .. s.disk[0].second - 1 \ taken : t.disk[p] = s.disk[p]
    <3> SUFFICES ASSUME NEW p \in 1 .. s.disk[0].second - 1, p \notin taken
                 PROVE  t.disk[p] = s.disk[p]
      OBVIOUS
    <3>1. p \in Pages /\ p # 0
      <4>1. p \in 0 .. s.disk[0].second - 1 /\ p # 0
        OBVIOUS
      <4> QED BY <1>2, <4>1
    <3>2. p \notin R
      BY <2>1, <3>1
    <3> QED BY <1>2, <1>3, <3>1, <3>2
  <2>3. Space!Sound(t.disk, taken)
    BY <1>7, <2>1, <2>2, SpaceAssumption, Space!ListStays
  <2>4. use \union (Q \ {0}) \subseteq taken
    BY <1>3, <2>1
  <2> QED BY <2>3, <2>4
<1>9. View(t) = View(s)
  <2>1. ASSUME NEW p \in Pages
        PROVE  (IF p \in Q THEN t.copy[p] ELSE t.disk[p]) = (IF p \in R THEN s.copy[p] ELSE s.disk[p])
    <3>1. CASE p \in R /\ p \notin out
      BY <1>3, <3>1
    <3>2. CASE ~(p \in R /\ p \notin out)
      <4>1. (IF p \in Q THEN t.copy[p] ELSE t.disk[p]) = t.disk[p]
        BY <1>3, <3>2
      <4>2. t.disk[p] = IF p \in R THEN s.copy[p] ELSE s.disk[p]
        BY <1>2, <1>3, <1>4, <3>2
      <4> QED BY <4>1, <4>2
    <3> QED BY <3>1, <3>2
  <2> QED BY <2>1 DEF View
<1>10. ~free /\ 0 \in Q => t.copy[0] = t.disk[0]
  <2>1. ~free /\ 0 \in R => s.copy[0] = s.disk[0]
    BY DEF Consistent
  <2> QED BY <1>3, <1>7, <2>1
<1>11. free => 0 \in Q
  BY <1>3 DEF Consistent
<1>12. \E taken : Space!Sound(View(t), taken) /\ use \subseteq taken
  BY <1>9 DEF Consistent
<1> HIDE DEF R
<1>13. Consistent(t, use, free)
  BY <1>5, <1>8, <1>10, <1>11, <1>12 DEF Consistent
<1> QED BY <1>9, <1>13

\* The pool that an operation leaves is that of the next state.
LEMMA BecomesNow ==
  ASSUME NEW s, Pool(s), Becomes(s)
  PROVE  Now' = s
<1>1. s \in PoolState
  BY DEF Pool
<1> QED BY <1>1 DEF Becomes, Now, PoolState

LEMMA NowFields ==
  /\ Now.disk = disk /\ Now.order = order /\ Now.copy = copy /\ Now.dirty = dirty
  /\ Now.replaced = replaced
  BY DEF Now

\* A client reads the header page or a page in use.
LEMMA ReadKeeps ==
  ASSUME AllocInv, NEW n \in Pages, Read(n)
  PROVE  AllocInv'
<1> DEFINE t == Fetch(Now, n)
<1>1. /\ n \in inUse \union {0} /\ Becomes(t) /\ inUse' = inUse /\ freed' = freed
      /\ torn' = torn
  BY DEF Read
<1>2. Pool(Now) /\ Numbered(Now, inUse) /\ freed \in BOOLEAN /\ torn \in BOOLEAN
  BY DEF AllocInv
<1>3. PICK out \in SUBSET Pages : Serves(Now, t, out, {n})
  BY <1>2, FetchServes
<1> HIDE DEF t
<1>4. Pool(t) /\ t.replaced = (replaced \/ 0 \in out)
  BY <1>3, NowFields DEF Serves
<1>5. {n} \subseteq 0 .. Now.disk[0].second - 1 /\ {n} \subseteq inUse \union {0}
  <2>1. inUse \subseteq 1 .. Now.disk[0].second - 1 /\ 0 \in 0 .. Now.disk[0].second - 1
    BY <1>2, WithinFields DEF Numbered
  <2>2. 1 .. Now.disk[0].second - 1 \subseteq 0 .. Now.disk[0].second - 1
    OBVIOUS
  <2> QED BY <1>1, <2>1, <2>2
<1>6. Numbered(t, inUse)
  BY <1>2, <1>3, <1>5, ServesNumbered
<1>7. (freed /\ t.replaced) \/ torn \/ Consistent(t, inUse, freed)
  <2> SUFFICES ASSUME ~(freed /\ t.replaced), ~torn PROVE Consistent(t, inUse, freed)
    BY <1>2
  <2>1. Consistent(Now, inUse, freed) /\ (~freed \/ 0 \notin out)
    BY <1>4 DEF AllocInv
  <2> QED BY <1>2, <1>3, <1>5, <2>1, ServesConsistent
<1>8. Now' = t /\ replaced' = t.replaced
  BY <1>1, <1>4, BecomesNow DEF Becomes
<1> QED BY <1>1, <1>2, <1>4, <1>6, <1>7, <1>8 DEF AllocInv

\* What may be written to page n of a file with num pages.
Fits(c, n, num) == c.first < num /\ (n = 0 => c.second = num)

\* Put is numbered when what is put is, and the header page keeps its number of pages.
LEMMA PutNumbered ==
  ASSUME NEW s, Pool(s), NEW use, Numbered(s, use), NEW n \in Range(s.order), NEW c \in Content,
         Fits(c, n, s.disk[0].second)
  PROVE  /\ Pool(Put(s, n, c)) /\ Numbered(Put(s, n, c), use)
         /\ Put(s, n, c).disk = s.disk
<1> DEFINE t == Put(s, n, c)
           N == s.disk[0].second
<1>1. /\ Pool(t) /\ t.disk = s.disk /\ t.order = s.order
      /\ \A p \in Pages : t.copy[p] = IF p = n THEN c ELSE s.copy[p]
  <2>1. Pool(t) /\ Written(s, t, n, c)
    BY PutWrites
  <2> HIDE DEF t
  <2> QED BY <2>1 DEF Written
<1> HIDE DEF t
<1>2. /\ N \in 2 .. MaxPages /\ Below(s, N) /\ Range(s.order) \subseteq 0 .. N - 1
      /\ 0 \in Range(s.order) => s.copy[0].second = N
      /\ use \subseteq 1 .. N - 1
  BY DEF Numbered, Within
<1>3. c.first < N /\ (n = 0 => c.second = N) /\ t.disk[0].second = N
  BY <1>1 DEF Fits
<1> HIDE DEF N
<1>4. Below(t, N)
  BY <1>1, <1>2, <1>3 DEF Below
<1>5. 0 \in Range(t.order) => t.copy[0].second = N
  BY <1>1, <1>2, <1>3, Numbers
<1> QED BY <1>1, <1>2, <1>3, <1>4, <1>5 DEF Numbered, Within, t

\* What is put into a page that is in use is not in a list.
LEMMA PutConsistent ==
  ASSUME NEW s, Pool(s), NEW use, Numbered(s, use), NEW n \in use, n \in Range(s.order),
         NEW c \in Content, NEW free, Consistent(s, use, free)
  PROVE  Consistent(Put(s, n, c), use, free)
<1> DEFINE t == Put(s, n, c)
           N == s.disk[0].second
<1>1. /\ Pool(t) /\ t.disk = s.disk /\ t.order = s.order /\ t.dirty = s.dirty \union {n}
      /\ \A p \in Pages : t.copy[p] = IF p = n THEN c ELSE s.copy[p]
  <2>1. Pool(t) /\ Written(s, t, n, c)
    BY PutWrites
  <2> HIDE DEF t
  <2> QED BY <2>1 DEF Written
<1> HIDE DEF t
<1>2. /\ n # 0 /\ 0 \in Pages /\ Range(s.order) \subseteq Pages /\ N \in Nat \ {0}
      /\ 0 .. N - 1 \subseteq Pages
  BY PoolFields, WithinFields, Numbers DEF Numbered
<1>3. \A p \in Range(t.order) \ t.dirty : t.copy[p] = t.disk[p]
  BY <1>1, <1>2 DEF Consistent
<1>4. \A p \in Pages : p # n => View(t)[p] = View(s)[p]
  BY <1>1 DEF View
<1>5. \E taken : Space!Sound(View(t), taken) /\ use \subseteq taken
  <2>1. PICK taken : Space!Sound(View(s), taken) /\ use \subseteq taken
    BY DEF Consistent
  <2>2. View(s)[0].second = N
    BY <1>2 DEF View, Numbered
  <2>3. \A p \in 1 .. View(s)[0].second - 1 \ taken : View(t)[p] = View(s)[p]
    <3> SUFFICES ASSUME NEW p \in 1 .. N - 1, p \notin taken PROVE View(t)[p] = View(s)[p]
      BY <2>2
    <3>1. p \in 0 .. N - 1 /\ p # n
      BY <2>1
    <3> QED BY <1>2, <1>4, <3>1
  <2>4. View(t)[0] = View(s)[0]
    BY <1>2, <1>4
  <2>5. Space!Sound(View(t), taken)
    BY <2>1, <2>3, <2>4, SpaceAssumption, Space!ListStays
  <2> QED BY <2>1, <2>5
<1>6. ~free /\ 0 \in Range(t.order) => t.copy[0] = t.disk[0]
  BY <1>1, <1>2 DEF Consistent
<1>7. Consistent(t, use, free)
  <2>1. \E taken : Space!Sound(t.disk, taken) /\ use \union (Range(t.order) \ {0}) \subseteq taken
    BY <1>1 DEF Consistent
  <2>2. free => 0 \in Range(t.order)
    BY <1>1 DEF Consistent
  <2> QED BY <1>3, <1>5, <1>6, <2>1, <2>2 DEF Consistent
<1> QED BY <1>7 DEF t

\* A client writes a page in use.
LEMMA WriteKeeps ==
  ASSUME AllocInv, NEW n \in Pages, NEW parent \in Parent, Write(n, parent)
  PROVE  AllocInv'
<1> DEFINE t == Fetch(Now, n)
           c == [first |-> parent, second |-> 0]
           u == Put(t, n, c)
<1>1. /\ n \in inUse /\ parent \in inUse \union {0} /\ Becomes(u)
      /\ inUse' = inUse /\ freed' = freed /\ torn' = torn
  BY DEF Write
<1>2. Pool(Now) /\ Numbered(Now, inUse) /\ freed \in BOOLEAN /\ torn \in BOOLEAN
  BY DEF AllocInv
<1>3. PICK out \in SUBSET Pages : Serves(Now, t, out, {n})
  BY <1>2, FetchServes
<1> HIDE DEF t
<1>4. Pool(t) /\ t.replaced = (replaced \/ 0 \in out) /\ n \in Range(t.order)
  BY <1>3, NowFields DEF Serves
<1>5. /\ inUse \subseteq 1 .. Now.disk[0].second - 1 /\ Now.disk[0].second \in Nat \ {0}
      /\ Now.disk[0].second <= MaxPages
  BY <1>2, WithinFields DEF Numbered
<1>6. {n} \subseteq 0 .. Now.disk[0].second - 1 /\ {n} \subseteq inUse \union {0}
  <2>1. 1 .. Now.disk[0].second - 1 \subseteq 0 .. Now.disk[0].second - 1
    OBVIOUS
  <2> QED BY <1>1, <1>5, <2>1
<1>7. Numbered(t, inUse) /\ t.disk[0].second = Now.disk[0].second
  BY <1>2, <1>3, <1>6, ServesNumbered
<1>8. c \in Content /\ Fits(c, n, t.disk[0].second) /\ n # 0
  <2>1. parent \in 0 .. Now.disk[0].second - 1
    BY <1>1, <1>5
  <2>2. parent \in Pages /\ parent < Now.disk[0].second /\ 0 \in 0 .. MaxPages
    BY <1>5, <2>1, Numbers DEF Pages
  <2> QED BY <1>1, <1>5, <1>7, <2>2 DEF Content, Fits
<1>9. /\ Pool(u) /\ Numbered(u, inUse) /\ u.replaced = t.replaced
  <2> HIDE DEF c
  <2>1. Written(t, u, n, c)
    BY <1>4, <1>8, PutWrites
  <2>2. Pool(u) /\ Numbered(u, inUse)
    BY <1>4, <1>7, <1>8, PutNumbered
  <2> QED BY <2>1, <2>2 DEF Written
<1>10. (freed /\ u.replaced) \/ torn \/ Consistent(u, inUse, freed)
  <2> SUFFICES ASSUME ~(freed /\ t.replaced), ~torn PROVE Consistent(u, inUse, freed)
    BY <1>2, <1>9
  <2>1. Consistent(Now, inUse, freed) /\ (~freed \/ 0 \notin out)
    BY <1>4 DEF AllocInv
  <2>2. Consistent(t, inUse, freed)
    BY <1>2, <1>3, <1>6, <2>1, ServesConsistent
  <2> HIDE DEF c
  <2> QED BY <1>1, <1>4, <1>7, <1>8, <2>2, PutConsistent
<1> HIDE DEF u
<1>11. Now' = u /\ replaced' = u.replaced
  BY <1>1, <1>9, BecomesNow DEF Becomes
<1> QED BY <1>1, <1>2, <1>9, <1>10, <1>11 DEF AllocInv

-----------------------------------------------------------------------------
(* Opening the table: an empty pool over a file.                           *)

Empty(s, g) ==
  /\ s.disk = g /\ s.order = << >> /\ s.copy = [p \in Pages |-> Nothing] /\ s.dirty = {}
  /\ s \in PoolState

LEMMA EmptyKeeps ==
  ASSUME NEW s, NEW g, Empty(s, g), g[0].second \in 2 .. MaxPages,
         \A p \in Pages : g[p].first < g[0].second,
         NEW use, use \subseteq 1 .. g[0].second - 1
  PROVE  /\ Pool(s) /\ Numbered(s, use)
         /\ (\E taken : Space!Sound(g, taken) /\ use \subseteq taken) => Consistent(s, use, FALSE)
<1>1. /\ s \in PoolState /\ s.order = << >> /\ s.dirty = {} /\ s.disk = g
      /\ \A p \in Pages : s.copy[p] = Nothing
  BY DEF Empty
<1>2. Range(s.order) = {} /\ Len(s.order) = 0 /\ IsInjective(s.order)
  BY <1>1 DEF Range, IsInjective
<1>3. Pool(s)
  BY <1>1, <1>2, Numbers DEF Pool
<1>4. Below(s, g[0].second)
  BY <1>1 DEF Below, Nothing
<1>5. Numbered(s, use)
  BY <1>1, <1>2, <1>4 DEF Numbered, Within
<1>6. View(s) = g
  <2>1. g \in [Pages -> Content]
    BY <1>1 DEF PoolState
  <2> QED BY <1>1, <1>2, <2>1 DEF View
<1>7. ASSUME NEW taken, Space!Sound(g, taken), use \subseteq taken
      PROVE  Consistent(s, use, FALSE)
  BY <1>1, <1>2, <1>6, <1>7 DEF Consistent
<1> QED BY <1>3, <1>5, <1>7

\* A table is opened with an empty pool; unless the header page had reached the file
\* before a page that was freed, nothing is left of the session before.
LEMMA EmptiedKeeps ==
  ASSUME AllocInv, Emptied, NEW g \in [Pages -> Content], disk' = g,
         g[0].second = disk[0].second, \A p \in Pages : g[p].first < disk[0].second,
         torn' \in BOOLEAN,
         \/ freed /\ replaced
         \/ torn'
         \/ \E taken : Space!Sound(g, taken) /\ inUse \subseteq taken
  PROVE  AllocInv'
<1>1. Pool(Now) /\ Numbered(Now, inUse) /\ freed \in BOOLEAN /\ replaced \in BOOLEAN
  BY NowFields, PoolFields DEF AllocInv
<1>2. g[0].second \in 2 .. MaxPages /\ inUse \subseteq 1 .. g[0].second - 1
  BY <1>1, NowFields DEF Numbered, Within
<1>3. Empty(Now', g)
  BY <1>1, Numbers DEF Emptied, Empty, Now, PoolState
<1>4. inUse' = inUse /\ freed' = (freed /\ replaced) /\ replaced' = (freed /\ replaced)
  BY DEF Emptied
<1>5. Pool(Now') /\ Numbered(Now', inUse)
  BY <1>2, <1>3, EmptyKeeps
<1>6. ~(freed /\ replaced) /\ ~torn' => Consistent(Now', inUse, FALSE)
  BY <1>2, <1>3, EmptyKeeps
<1>7. (freed' /\ replaced') \/ torn' \/ Consistent(Now', inUse', freed')
  BY <1>1, <1>4, <1>6
<1> QED BY <1>1, <1>4, <1>5, <1>7 DEF AllocInv

\* The file after some of the dirty pages were written.
LEMMA FlushedFile ==
  ASSUME Pool(Now), Numbered(Now, inUse), NEW some \in SUBSET dirty
  PROVE  /\ Flushed(some) \in [Pages -> Content]
         /\ \A p \in Pages : Flushed(some)[p] = IF p \in some THEN copy[p] ELSE disk[p]
         /\ Flushed(some)[0].second = disk[0].second
         /\ \A p \in Pages : Flushed(some)[p].first < disk[0].second
<1>1. /\ disk \in [Pages -> Content] /\ copy \in [Pages -> Content] /\ dirty \subseteq Range(order)
      /\ 0 \in Pages
      /\ \A p \in Pages : disk[p].first < disk[0].second /\ copy[p].first < disk[0].second
      /\ 0 \in Range(order) => copy[0].second = disk[0].second
  BY NowFields, PoolFields, WithinFields, Numbers DEF Numbered
<1>2. /\ Flushed(some) \in [Pages -> Content]
      /\ \A p \in Pages : Flushed(some)[p] = IF p \in some THEN copy[p] ELSE disk[p]
  BY <1>1 DEF Flushed
<1> QED BY <1>1, <1>2

\* A flush, however far it gets, leaves a list without pages in use: the old list as
\* long as the header page is not written, the one a client reads once it is, unless a
\* page that was freed is written after it.
LEMMA FlushedSound ==
  ASSUME Pool(Now), Numbered(Now, inUse), Consistent(Now, inUse, freed),
         NEW some \in SUBSET dirty, ~HeaderFirst(some)
  PROVE  \E taken : Space!Sound(Flushed(some), taken) /\ inUse \subseteq taken
<1> DEFINE g == Flushed(some)
           N == disk[0].second
<1>1. /\ \A p \in Pages : g[p] = IF p \in some THEN copy[p] ELSE disk[p]
      /\ 0 \in Pages /\ 1 .. N - 1 \subseteq Pages \ {0}
  <2>1. 0 .. N - 1 \subseteq Pages /\ 0 \in Pages
    BY NowFields, WithinFields, Numbers DEF Numbered
  <2>2. \A p \in 1 .. N - 1 : p \in 0 .. N - 1 /\ p # 0
    OBVIOUS
  <2> QED BY <2>1, <2>2, FlushedFile
<1>2. dirty \subseteq Range(order) /\ \A p \in Range(order) \ dirty : copy[p] = disk[p]
  BY NowFields, PoolFields DEF Consistent
<1> HIDE DEF g
<1>3. CASE 0 \notin some
  <2>1. PICK taken : Space!Sound(disk, taken) /\ inUse \union (Range(order) \ {0}) \subseteq taken
    BY NowFields DEF Consistent
  <2>2. g[0] = disk[0] /\ \A p \in 1 .. N - 1 \ taken : g[p] = disk[p]
    BY <1>1, <1>2, <1>3, <2>1
  <2>3. Space!Sound(g, taken)
    BY <2>1, <2>2, SpaceAssumption, Space!ListStays
  <2> QED BY <2>1, <2>3 DEF g
<1>4. CASE 0 \in some
  <2> DEFINE v == View(Now)
  <2>1. PICK taken : Space!Sound(v, taken) /\ inUse \subseteq taken
    BY DEF Consistent
  <2>2. \A p \in Pages : v[p] = IF p \in Range(order) THEN copy[p] ELSE disk[p]
    BY NowFields DEF View
  <2>3. dirty \subseteq some \union inUse
    BY <1>4 DEF HeaderFirst
  <2>4. v[0] = copy[0] /\ g[0] = copy[0] /\ v[0].second = N
    <3>1. 0 \in Range(order) /\ copy[0].second = N
      BY <1>2, <1>4, NowFields DEF Numbered
    <3> QED BY <1>1, <1>4, <2>2, <3>1
  <2>5. \A p \in 1 .. N - 1 \ taken : g[p] = v[p]
    BY <1>1, <1>2, <2>1, <2>2, <2>3
  <2> HIDE DEF v
  <2>6. Space!Sound(g, taken)
    BY <2>1, <2>4, <2>5, SpaceAssumption, Space!ListStays
  <2> QED BY <2>1, <2>6 DEF g
<1> QED BY <1>3, <1>4

LEMMA CrashKeeps ==
  ASSUME AllocInv, Crash
  PROVE  AllocInv'
<1>1. Pool(Now) /\ Numbered(Now, inUse) /\ torn \in BOOLEAN /\ Emptied
  BY DEF AllocInv, Crash
<1>2. PICK some \in SUBSET dirty : disk' = Flushed(some) /\ torn' = (torn \/ HeaderFirst(some))
  BY DEF Crash
<1>3. torn' \in BOOLEAN /\ (~torn' => ~torn /\ ~HeaderFirst(some))
  BY <1>2, Zenon
<1>4. \/ freed /\ replaced
      \/ torn'
      \/ \E taken : Space!Sound(Flushed(some), taken) /\ inUse \subseteq taken
  <2> SUFFICES ASSUME ~(freed /\ replaced), ~torn'
               PROVE  \E taken : Space!Sound(Flushed(some), taken) /\ inUse \subseteq taken
    BY <1>3
  <2>1. Consistent(Now, inUse, freed)
    BY <1>3 DEF AllocInv
  <2> QED BY <1>1, <1>3, <2>1, FlushedSound
<1> QED BY <1>1, <1>2, <1>3, <1>4, FlushedFile, EmptiedKeeps

LEMMA ShutdownKeeps ==
  ASSUME AllocInv, Shutdown
  PROVE  AllocInv'
<1>1. /\ Pool(Now) /\ Numbered(Now, inUse) /\ disk' = Flushed(dirty) /\ Emptied
      /\ torn' = torn /\ torn \in BOOLEAN
  BY DEF AllocInv, Shutdown
<1>2. \/ freed /\ replaced
      \/ torn
      \/ \E taken : Space!Sound(Flushed(dirty), taken) /\ inUse \subseteq taken
  <2> SUFFICES ASSUME ~(freed /\ replaced), ~torn
               PROVE  \E taken : Space!Sound(Flushed(dirty), taken) /\ inUse \subseteq taken
    BY <1>1
  <2>1. Consistent(Now, inUse, freed) /\ ~HeaderFirst(dirty)
    BY DEF AllocInv, HeaderFirst
  <2> QED BY <1>1, <2>1, FlushedSound
<1> QED BY <1>1, <1>2, FlushedFile, EmptiedKeeps

LEMMA InitKeeps == Init => AllocInv
<1> SUFFICES ASSUME Init PROVE AllocInv
  OBVIOUS
<1>1. /\ NewFile \in [Pages -> Content] /\ NewFile[0].second \in 2 .. MaxPages
      /\ \A p \in Pages : NewFile[p].first < NewFile[0].second
      /\ Space!Sound(NewFile, {})
  BY NewFileSound
<1>2. Empty(Now, NewFile)
  <2>1. Now.copy = [n \in Pages |-> Nothing] /\ Now.copy \in [Pages -> Content]
    BY NowFields, Numbers DEF Init
  <2>2. /\ Now.disk = NewFile /\ Now.order = << >> /\ Now.dirty = {} /\ Now.replaced = FALSE
        /\ Now.order \in Seq(Pages)
    BY NowFields DEF Init
  <2>3. Now = [disk |-> Now.disk, order |-> Now.order, copy |-> Now.copy, dirty |-> Now.dirty,
               replaced |-> Now.replaced]
    BY DEF Now
  <2>4. Now \in PoolState
    BY <1>1, <2>1, <2>2, <2>3 DEF PoolState
  <2> QED BY <2>1, <2>2, <2>4 DEF Empty
<1>3. inUse = {} /\ freed = FALSE /\ torn = FALSE
  BY DEF Init
<1>4. Pool(Now) /\ Numbered(Now, inUse) /\ Consistent(Now, inUse, FALSE)
  <2>1. inUse \subseteq 1 .. NewFile[0].second - 1 /\ inUse \subseteq {}
    BY <1>3
  <2> QED BY <1>1, <1>2, <2>1, EmptyKeeps
<1> QED BY <1>3, <1>4 DEF AllocInv

-----------------------------------------------------------------------------
(* Allocating and freeing.                                                 *)

\* The pool over another file.
Over(s, g, t) == /\ t \in PoolState /\ t.disk = g /\ t.order = s.order /\ t.copy = s.copy
                 /\ t.dirty = s.dirty /\ t.replaced = s.replaced

LEMMA OverFile ==
  ASSUME Pool(Now), NEW g \in [Pages -> Content]
  PROVE  Over(Now, g, [Now EXCEPT !.disk = g]) /\ Pool([Now EXCEPT !.disk = g])
<1> DEFINE t == [Now EXCEPT !.disk = g]
<1>1. Now \in PoolState
  BY DEF Pool
<1>2. Over(Now, g, t)
  BY <1>1 DEF PoolState, Over
<1> HIDE DEF t
<1>3. Pool(t)
  BY <1>2 DEF Pool, Over
<1> QED BY <1>2, <1>3 DEF t

\* The header of the pool after an allocation.
LEMMA AllocatedIs ==
  ASSUME NEW t, NEW n, NEW N, N = IF n >= t.copy[0].second THEN 2 * t.copy[0].second
                                  ELSE t.copy[0].second
  PROVE  Allocated(t, n) = Put(t, 0, [first |-> t.copy[n].first, second |-> N])
  BY DEF Allocated, Grows

\* The list in the file goes on without the page taken, the pages read before are not in
\* it, and the header in the pool begins the same list.
LEMMA AllocConsistent ==
  ASSUME Pool(Now), Numbered(Now, inUse), NEW free, Consistent(Now, inUse, free),
         NEW n \in Pages \ {0}, NEW g, Allocates(disk, g, n),
         NEW s, Over(Now, g, s), Pool(s),
         NEW t, NEW out, Serves(s, t, out, {0, n}), 0 \notin out,
         NEW u, Pool(u), u.disk = t.disk, u.order = t.order, u.dirty = t.dirty \union {0},
         \A p \in Pages : p # 0 => u.copy[p] = t.copy[p],
         u.copy[0] = [first |-> t.copy[n].first, second |-> g[0].second]
  PROVE  Consistent(u, inUse \union {n}, free)
<1> DEFINE R == Range(order)
           Q == Range(u.order)
           N == g[0].second
<1>1. /\ g \in [Pages -> Content] /\ N \in 2 .. MaxPages /\ n \in 1 .. N - 1
      /\ \A p \in 1 .. disk[0].second - 1 : g[p] = disk[p]
      /\ g[n].first = g[0].first
      /\ N = IF n >= disk[0].second THEN 2 * disk[0].second ELSE disk[0].second
  BY DEF Allocates
<1>2. /\ s.disk = g /\ s.copy = copy /\ s.dirty = dirty /\ Range(s.order) = R
  BY NowFields DEF Over
<1>3. /\ R \ out \subseteq Q /\ Q \subseteq R \union {0, n} /\ {0, n} \subseteq Q
      /\ \A p \in Pages : u.disk[p] = IF p \in out /\ p \in dirty THEN copy[p] ELSE g[p]
      /\ \A p \in Q : t.copy[p] = IF p \in R /\ p \notin out THEN copy[p] ELSE u.disk[p]
      /\ u.dirty = (dirty \ out) \union {0}
  BY <1>2 DEF Serves
<1>4. /\ R \subseteq Pages /\ dirty \subseteq R /\ 0 \in Pages /\ Q \subseteq Pages
      /\ inUse \subseteq 1 .. disk[0].second - 1 /\ R \subseteq 0 .. disk[0].second - 1
      /\ disk[0].second \in Nat \ {0} /\ disk[0].second <= N
  <2>1. /\ inUse \subseteq 1 .. disk[0].second - 1 /\ R \subseteq 0 .. disk[0].second - 1
        /\ disk[0].second \in Nat \ {0}
    BY NowFields, WithinFields DEF Numbered, Within
  <2>2. disk[0].second <= N
    BY <1>1, <2>1
  <2> QED BY <2>1, <2>2, NowFields, PoolFields, Numbers
<1>5. PICK taken : Space!Sound(disk, taken) /\ inUse \union (R \ {0}) \subseteq taken
  BY NowFields DEF Consistent
<1>6. n \notin taken /\ Space!Sound(g, taken \union {n})
  BY <1>5 DEF Allocates
<1>7. n \notin R
  BY <1>5, <1>6
<1>8. u.disk[0] = g[0] /\ u.disk[n] = g[n]
  BY <1>3, <1>4, <1>7
<1>9. \A p \in 1 .. N - 1 : p \in Pages \ {0}
  BY <1>1, Numbers DEF Pages
<1>10. \A p \in 1 .. N - 1 \ (taken \union {n}) : p \notin Q /\ u.disk[p] = g[p]
  <2> SUFFICES ASSUME NEW p \in 1 .. N - 1, p \notin taken, p # n
               PROVE  p \notin Q /\ u.disk[p] = g[p]
    OBVIOUS
  <2>1. p \in Pages \ {0} /\ p \notin R
    BY <1>5, <1>9
  <2> QED BY <1>3, <1>4, <2>1
<1>11. Space!Sound(u.disk, taken \union {n})
  BY <1>6, <1>8, <1>10, SpaceAssumption, Space!ListStays
<1>12. \E all : Space!Sound(u.disk, all) /\ (inUse \union {n}) \union (Q \ {0}) \subseteq all
  <2>1. (inUse \union {n}) \union (Q \ {0}) \subseteq taken \union {n}
    BY <1>3, <1>5
  <2> QED BY <1>11, <2>1
<1>13. u.copy[0] = u.disk[0]
  <2>1. t.copy[n] = g[n]
    BY <1>3, <1>7, <1>8
  <2>2. g[0] \in Content
    BY <1>1, <1>4
  <2>3. u.copy[0] = [first |-> g[0].first, second |-> g[0].second]
    BY <1>1, <2>1
  <2>4. g[0] = [first |-> g[0].first, second |-> g[0].second]
    BY <2>2 DEF Content
  <2> QED BY <1>8, <2>3, <2>4
<1>14. \E all : Space!Sound(View(u), all) /\ inUse \union {n} \subseteq all
  <2>1. View(u)[0] = u.disk[0]
    BY <1>3, <1>4, <1>13 DEF View
  <2>2. \A p \in 1 .. N - 1 \ (taken \union {n}) : View(u)[p] = u.disk[p]
    BY <1>9, <1>10 DEF View
  <2>3. Space!Sound(View(u), taken \union {n})
    <3>1. u.disk[0].second = N
      BY <1>8
    <3> HIDE DEF N
    <3> QED BY <1>11, <2>1, <2>2, <3>1, SpaceAssumption, Space!ListStays
  <2> QED BY <1>5, <2>3
<1>15. ASSUME NEW p \in Q \ u.dirty PROVE u.copy[p] = u.disk[p]
  <2>1. p # 0 /\ p \in Pages /\ u.copy[p] = t.copy[p]
    BY <1>3, <1>4
  <2>2. CASE p \in R /\ p \notin out
    <3>1. p \notin dirty /\ copy[p] = disk[p]
      BY <1>3, <2>2, NowFields DEF Consistent
    <3>2. u.disk[p] = g[p]
      BY <1>3, <2>1, <2>2
    <3>3. p \in 1 .. disk[0].second - 1
      <4>1. p \in 0 .. disk[0].second - 1
        BY <1>4, <2>2
      <4> QED BY <1>4, <2>1, <4>1
    <3> QED BY <1>1, <1>3, <2>1, <2>2, <3>1, <3>2, <3>3
  <2>3. CASE ~(p \in R /\ p \notin out)
    BY <1>3, <2>1, <2>3
  <2> QED BY <2>2, <2>3
<1>16. free => 0 \in Q
  BY <1>3
<1> HIDE DEF R, N
<1> QED BY <1>12, <1>13, <1>14, <1>15, <1>16 DEF Consistent

\* buffer_alloc_page.
LEMMA AllocKeeps ==
  ASSUME AllocInv, Alloc
  PROVE  AllocInv'
<1> DEFINE n == Disk!AllocPage
           g == Disk!After(disk, Disk!AllocWrites)
           s == [Now EXCEPT !.disk = g]
           t == Fetch(Fetch(s, 0), n)
           u == Allocated(t, n)
<1>1. /\ Disk!MayAlloc /\ Becomes(u) /\ inUse' = inUse \union {n} /\ freed' = freed
      /\ torn' = torn
  BY DEF Alloc
<1>2. Pool(Now) /\ Numbered(Now, inUse) /\ freed \in BOOLEAN /\ torn \in BOOLEAN
  BY DEF AllocInv
<1>3. /\ disk \in [Pages -> Content] /\ disk[0].second \in 2 .. MaxPages
      /\ \A p \in Pages : disk[p].first < disk[0].second /\ copy[p].first < disk[0].second
      /\ inUse \subseteq 1 .. disk[0].second - 1 /\ Range(order) \subseteq 0 .. disk[0].second - 1
      /\ 0 \in Range(order) => copy[0].second = disk[0].second
      /\ copy \in [Pages -> Content] /\ disk[0].second \in Nat \ {0}
  BY <1>2, NowFields, PoolFields, WithinFields DEF Numbered, Within
<1>4. Allocates(disk, g, n)
  BY <1>1, <1>3, AllocWrites
<1> HIDE DEF n, g
<1> DEFINE N == g[0].second
<1>5. /\ g \in [Pages -> Content] /\ N \in 2 .. MaxPages /\ n \in 1 .. N - 1
      /\ N = IF n >= disk[0].second THEN 2 * disk[0].second ELSE disk[0].second
      /\ \A p \in Pages : g[p].first < N
  BY <1>4 DEF Allocates
<1>6. /\ N \in Nat \ {0} /\ disk[0].second <= N /\ n \in Nat \ {0} /\ n < N
      /\ n \in Pages \ {0} /\ 0 \in Pages
      /\ \A p \in 1 .. N - 1 : p \in Pages /\ p # 0
  BY <1>3, <1>5, Numbers DEF Pages
<1>7. Over(Now, g, s) /\ Pool(s)
  BY <1>2, <1>5, OverFile
<1> HIDE DEF s
<1>8. /\ s.disk = g /\ s.copy = copy /\ s.order = order /\ s.replaced = replaced
      /\ s.dirty = dirty
  BY <1>7, NowFields DEF Over
<1>9. PICK out \in SUBSET Pages : Serves(s, t, out, {0, n}) /\ 0 \notin out
  BY <1>6, <1>7, FetchBoth
<1> HIDE DEF t
<1>10. /\ Pool(t) /\ {0, n} \subseteq Range(t.order) /\ Range(t.order) \subseteq Range(order) \union {0, n}
       /\ t.disk[0] = g[0] /\ t.replaced = replaced
       /\ t.copy[0] = IF 0 \in Range(order) THEN copy[0] ELSE g[0]
  <2>1. t.disk[0] = g[0]
    BY <1>6, <1>8, <1>9 DEF Serves
  <2>2. {0, n} \subseteq Range(t.order) /\ Range(t.order) \subseteq Range(order) \union {0, n}
    BY <1>8, <1>9 DEF Serves
  <2>3. t.copy[0] = IF 0 \in Range(order) THEN copy[0] ELSE t.disk[0]
    BY <1>8, <1>9, <2>2 DEF Serves
  <2>4. t.replaced = replaced
    <3>1. replaced \in BOOLEAN
      BY <1>2, NowFields, PoolFields
    <3> QED BY <1>8, <1>9, <3>1 DEF Serves
  <2> QED BY <1>9, <2>1, <2>2, <2>3, <2>4 DEF Serves
<1>11. Below(t, N)
  <2>1. Below(s, N)
    <3> SUFFICES ASSUME NEW p \in Pages PROVE g[p].first < N /\ copy[p].first < N
      BY <1>8 DEF Below
    <3>1. copy[p].first \in Nat /\ copy[p].first < disk[0].second
      <4>1. copy[p] \in Content
        BY <1>3
      <4>2. copy[p].first \in 0 .. MaxPages - 1
        BY <4>1 DEF Content, Pages
      <4> QED BY <1>3, <4>2
    <3> QED BY <1>3, <1>5, <1>6, <3>1
  <2> HIDE DEF N
  <2> QED BY <1>6, <1>9, <2>1 DEF Serves
<1> DEFINE c == [first |-> t.copy[n].first, second |-> N]
<1>12. u = Put(t, 0, c)
  <2>1. N = IF n >= t.copy[0].second THEN 2 * t.copy[0].second ELSE t.copy[0].second
    <3>1. CASE 0 \in Range(order)
      BY <1>3, <1>5, <1>10, <3>1
    <3>2. CASE 0 \notin Range(order)
      <4>1. t.copy[0].second = N
        BY <1>10, <3>2
      <4>2. ~(n >= N)
        BY <1>6
      <4> HIDE DEF N
      <4> QED BY <4>1, <4>2
    <3> QED BY <3>1, <3>2
  <2> HIDE DEF N
  <2> QED BY <2>1, AllocatedIs
<1> HIDE DEF N
<1>13. c \in Content /\ c.first < N /\ c.second = N
  <2>1. t.copy[n] \in Content /\ t.copy[n].first < N
    BY <1>6, <1>10, <1>11, PoolFields DEF Below
  <2>2. t.copy[n].first \in Pages /\ N \in 0 .. MaxPages
    BY <1>5, <2>1 DEF Content
  <2> QED BY <2>1, <2>2 DEF Content
<1> HIDE DEF c
<1>14. /\ Pool(u) /\ u.disk = t.disk /\ u.order = t.order /\ u.replaced = replaced
       /\ u.dirty = t.dirty \union {0}
       /\ \A p \in Pages : u.copy[p] = IF p = 0 THEN c ELSE t.copy[p]
  <2> HIDE DEF u
  <2>1. Pool(t) /\ 0 \in Range(t.order) /\ c \in Content /\ t.replaced = replaced
    BY <1>10, <1>13
  <2>2. Pool(Put(t, 0, c)) /\ Written(t, Put(t, 0, c), 0, c)
    BY <2>1, PutWrites
  <2>3. Pool(u) /\ Written(t, u, 0, c)
    BY <1>12, <2>2
  <2> QED BY <2>1, <2>3 DEF Written
<1> HIDE DEF u
<1>15. Numbered(u, inUse \union {n})
  <2>1. u.disk[0].second = N
    BY <1>10, <1>14 DEF N
  <2>2. Below(u, N)
    BY <1>11, <1>13, <1>14 DEF Below
  <2>3. inUse \union {n} \subseteq 1 .. N - 1 /\ Range(u.order) \subseteq 0 .. N - 1
    <3>1. /\ \A p \in 1 .. disk[0].second - 1 : p \in 1 .. N - 1
          /\ \A p \in 0 .. disk[0].second - 1 : p \in 0 .. N - 1
          /\ n \in 1 .. N - 1 /\ n \in 0 .. N - 1 /\ 0 \in 0 .. N - 1
      BY <1>3, <1>6
    <3> QED BY <1>3, <1>10, <1>14, <3>1
  <2>4. u.copy[0].second = N
    BY <1>6, <1>13, <1>14
  <2> QED BY <1>5, <2>1, <2>2, <2>3, <2>4 DEF Numbered, Within
<1>16. (freed /\ u.replaced) \/ torn \/ Consistent(u, inUse \union {n}, freed)
  <2> SUFFICES ASSUME ~(freed /\ replaced), ~torn PROVE Consistent(u, inUse \union {n}, freed)
    BY <1>2, <1>14
  <2>1. Consistent(Now, inUse, freed)
    BY DEF AllocInv
  <2>2. u.copy[0] = [first |-> t.copy[n].first, second |-> g[0].second]
    BY <1>6, <1>14 DEF c, N
  <2>3. \A p \in Pages : p # 0 => u.copy[p] = t.copy[p]
    BY <1>14
  <2> QED BY <1>2, <1>4, <1>6, <1>7, <1>9, <1>14, <2>1, <2>2, <2>3, AllocConsistent
<1>17. Now' = u /\ replaced' = u.replaced
  BY <1>1, <1>14, BecomesNow DEF Becomes
<1> QED BY <1>1, <1>2, <1>14, <1>15, <1>16, <1>17 DEF AllocInv

\* What file_free_page leaves when it comes first.
LEMMA FreeingFile ==
  ASSUME Pool(Now), Numbered(Now, inUse), NEW n \in inUse
  PROVE  /\ Disk!After(disk, Disk!FreeWrites(n)) \in [Pages -> Content]
         /\ Disk!After(disk, Disk!FreeWrites(n))[0].second = disk[0].second
         /\ \A p \in Pages : Disk!After(disk, Disk!FreeWrites(n))[p].first < disk[0].second
<1> DEFINE h == [first |-> n, second |-> disk[0].second]
           c == [first |-> disk[0].first, second |-> 0]
           w == <<Space!To(0, h), Space!To(n, c)>>
           g == Space!After(disk, w)
<1>1. Disk!FreeWrites(n) = w
  BY DEF Disk!FreeWrites, Disk!Header, Disk!Link, Disk!header, Disk!To, Space!To
<1>2. /\ disk \in [Pages -> Content] /\ 0 \in Pages /\ disk[0] \in Content
      /\ inUse \subseteq 1 .. disk[0].second - 1 /\ 0 .. disk[0].second - 1 \subseteq Pages
      /\ \A p \in Pages : disk[p].first < disk[0].second
      /\ disk[0].second \in Nat \ {0}
  BY NowFields, PoolFields, WithinFields, Numbers DEF Numbered
<1>3. n \in 1 .. disk[0].second - 1 /\ n \in Pages /\ n # 0 /\ n < disk[0].second
  <2>1. n \in 1 .. disk[0].second - 1
    BY <1>2
  <2>2. n \in 0 .. disk[0].second - 1 /\ n # 0 /\ n < disk[0].second
    BY <1>2, <2>1
  <2> QED BY <1>2, <2>1, <2>2
<1>4. h \in Content /\ c \in Content
  <2>1. disk[0].first \in Pages /\ disk[0].second \in 0 .. MaxPages /\ 0 \in 0 .. MaxPages
    BY <1>2, Numbers DEF Content
  <2> QED BY <1>3, <2>1 DEF Content
<1>5. g = [disk EXCEPT ![0] = h, ![n] = c]
  <2> HIDE DEF h, c
  <2>1. Space!WritesTwo(disk, <<Space!To(0, h), Space!To(n, c)>>, 0, h, n, c)
    BY <1>2, <1>3, <1>4, SpaceAssumption, SameTerms, Space!TwoWrites
  <2> QED BY <2>1 DEF Space!WritesTwo
<1> HIDE DEF g
<1>6. /\ g \in [Pages -> Content] /\ g[0] = h /\ g[n] = c
      /\ \A p \in Pages : p # 0 /\ p # n => g[p] = disk[p]
  BY <1>2, <1>3, <1>4, <1>5
<1>7. h.first < disk[0].second /\ h.second = disk[0].second /\ c.first < disk[0].second
  BY <1>2, <1>3
<1> HIDE DEF h, c
<1>8. \A p \in Pages : g[p].first < disk[0].second
  BY <1>2, <1>6, <1>7
<1> QED BY <1>1, <1>6, <1>7, <1>8, SameAfter DEF g

\* The pool u is t with page n put before the free list.
Pushes(t, u, n) ==
  /\ {0, n} \subseteq Range(t.order)
  /\ u.disk = t.disk /\ u.order = t.order /\ u.dirty = t.dirty \union {0, n}
  /\ \A p \in Pages : p # 0 /\ p # n => u.copy[p] = t.copy[p]
  /\ u.copy[0].first = n /\ u.copy[0].second = t.copy[0].second
  /\ u.copy[n].first = t.copy[0].first

\* The page freed comes first in the list of the pool.
LEMMA FreeConsistent ==
  ASSUME NEW t, Pool(t), NEW use, Numbered(t, use), NEW free, Consistent(t, use, free),
         NEW n \in use, NEW u, Pushes(t, u, n)
  PROVE  Consistent(u, use \ {n}, TRUE)
<1> DEFINE R == Range(t.order)
           N == t.disk[0].second
<1>1. /\ R \subseteq Pages /\ n \in Pages /\ n # 0 /\ 0 \in Pages
      /\ t.copy[0].second = N /\ \A p \in 1 .. N - 1 : p \in Pages /\ p # 0
  <2>1. use \subseteq 1 .. N - 1 /\ 0 .. N - 1 \subseteq Pages
    BY WithinFields DEF Numbered
  <2>2. \A p \in 1 .. N - 1 : p \in 0 .. N - 1 /\ p # 0
    OBVIOUS
  <2>3. t.copy[0].second = N
    BY DEF Numbered, Pushes
  <2> QED BY <2>1, <2>2, <2>3, PoolFields, Numbers
<1>2. \A p \in R \ u.dirty : u.copy[p] = u.disk[p]
  BY <1>1 DEF Consistent, Pushes
<1>3. \E taken : /\ Space!Sound(u.disk, taken)
                 /\ (use \ {n}) \union (Range(u.order) \ {0}) \subseteq taken
  BY DEF Consistent, Pushes
<1>4. \E taken : Space!Sound(View(u), taken) /\ use \ {n} \subseteq taken
  <2> DEFINE f == View(t)
             g == View(u)
  <2>1. PICK taken : Space!Sound(f, taken) /\ use \subseteq taken
    BY DEF Consistent
  <2>2. f[0] = t.copy[0] /\ g[0] = u.copy[0] /\ g[n] = u.copy[n]
    BY <1>1 DEF View, Pushes
  <2>3. \A p \in Pages : p # 0 /\ p # n => g[p] = f[p]
    BY DEF View, Pushes
  <2>4. \A p \in 1 .. f[0].second - 1 \ {n} : g[p] = f[p]
    BY <1>1, <2>2, <2>3
  <2>5. g[0].second = f[0].second /\ g[0].first = n /\ g[n].first = f[0].first
    BY <2>2 DEF Pushes
  <2> HIDE DEF f, g
  <2>6. Space!Sound(g, taken \ {n})
    <3>1. n \in taken
      BY <2>1
    <3> QED BY <2>1, <2>4, <2>5, <3>1, SpaceAssumption, Space!ListPushes
  <2> QED BY <2>1, <2>6 DEF g
<1>5. 0 \in Range(u.order) /\ Range(u.order) = R
  BY DEF Pushes
<1> HIDE DEF R
<1> QED BY <1>2, <1>3, <1>4, <1>5 DEF Consistent

\* buffer_free_page.
LEMMA FreeKeeps ==
  ASSUME AllocInv, NEW n \in Pages, Free(n)
  PROVE  AllocInv'
<1> DEFINE g == IF 0 \notin Range(order) THEN Disk!After(disk, Disk!FreeWrites(n)) ELSE disk
           s == [Now EXCEPT !.disk = g]
           t == Fetch(Fetch(s, 0), n)
           c == [t.copy[0] EXCEPT !.first = n]
           v == Put(t, 0, c)
           d == [t.copy[n] EXCEPT !.first = t.copy[0].first]
           u == Put(v, n, d)
<1>1. /\ n \in inUse /\ (0 \in Range(order) \/ replaced) /\ Becomes(u)
      /\ inUse' = inUse \ {n} /\ freed' = TRUE /\ torn' = torn
  BY DEF Free
<1>2. /\ Pool(Now) /\ Numbered(Now, inUse) /\ freed \in BOOLEAN /\ replaced \in BOOLEAN
      /\ torn \in BOOLEAN
  BY NowFields, PoolFields DEF AllocInv
<1>3. /\ disk \in [Pages -> Content] /\ disk[0].second \in 2 .. MaxPages
      /\ \A p \in Pages : disk[p].first < disk[0].second /\ copy[p].first < disk[0].second
      /\ inUse \subseteq 1 .. disk[0].second - 1 /\ Range(order) \subseteq 0 .. disk[0].second - 1
      /\ 0 \in Range(order) => copy[0].second = disk[0].second
      /\ 0 \in 0 .. disk[0].second - 1
      /\ disk[0].second \in Nat \ {0}
  BY <1>2, NowFields, PoolFields, WithinFields DEF Numbered, Within
<1>4. /\ g \in [Pages -> Content] /\ g[0].second = disk[0].second
      /\ \A p \in Pages : g[p].first < disk[0].second
  BY <1>1, <1>2, <1>3, FreeingFile
<1>5. 0 \in Range(order) => g = disk
  OBVIOUS
<1> HIDE DEF g
<1>6. Over(Now, g, s) /\ Pool(s)
  BY <1>2, <1>4, OverFile
<1>7. ASSUME 0 \in Range(order) PROVE s = Now
  BY <1>2, <1>5, <1>7, NowFields DEF Pool, PoolState
<1> HIDE DEF s
<1>8. Numbered(s, inUse) /\ s.disk[0].second = disk[0].second
  <2>1. s.disk = g /\ s.order = order /\ s.copy = copy
    BY <1>6, NowFields DEF Over
  <2> QED BY <1>3, <1>4, <2>1 DEF Numbered, Within, Below
<1>9. n \in Pages /\ n # 0 /\ 0 \in Pages /\ n < disk[0].second
      /\ {0, n} \subseteq 0 .. s.disk[0].second - 1
  <2>1. n \in 1 .. disk[0].second - 1
    BY <1>1, <1>3
  <2>2. n \in 0 .. disk[0].second - 1 /\ n # 0 /\ n < disk[0].second
    BY <1>3, <2>1
  <2> QED BY <1>3, <1>8, <2>2, Numbers
<1>10. PICK out \in SUBSET Pages : Serves(s, t, out, {0, n}) /\ 0 \notin out
  BY <1>6, <1>9, FetchBoth
<1> HIDE DEF t
<1>11. /\ Numbered(t, inUse) /\ t.disk[0].second = disk[0].second
  BY <1>6, <1>8, <1>9, <1>10, ServesNumbered
<1>12. /\ Pool(t) /\ 0 \in Range(t.order) /\ n \in Range(t.order) /\ t.replaced = replaced
  <2>1. s.replaced = replaced
    BY <1>6, NowFields DEF Over
  <2> QED BY <1>2, <1>10, <2>1 DEF Serves
<1>13. /\ t.copy[0] \in Content /\ t.copy[n] \in Content
       /\ t.copy[0].first < disk[0].second /\ t.copy[0].second = disk[0].second
  BY <1>9, <1>11, <1>12, PoolFields, WithinFields DEF Numbered
<1>14. /\ c \in Content /\ c.first = n /\ c.second = disk[0].second
       /\ d \in Content /\ d.first = t.copy[0].first
  BY <1>9, <1>13 DEF Content
<1> HIDE DEF c, d
<1>15. Fits(c, 0, t.disk[0].second) /\ Fits(d, n, t.disk[0].second)
  BY <1>9, <1>11, <1>13, <1>14 DEF Fits
<1>16. /\ Pool(v) /\ Numbered(v, inUse) /\ v.disk = t.disk /\ v.order = t.order
       /\ v.dirty = t.dirty \union {0} /\ v.replaced = replaced
       /\ \A p \in Pages : v.copy[p] = IF p = 0 THEN c ELSE t.copy[p]
  <2> HIDE DEF v
  <2>1. Pool(v) /\ Numbered(v, inUse)
    BY <1>11, <1>12, <1>14, <1>15, PutNumbered DEF v
  <2>2. Written(t, v, 0, c)
    BY <1>12, <1>14, PutWrites DEF v
  <2> QED BY <1>12, <2>1, <2>2 DEF Written
<1> HIDE DEF v
<1>17. /\ Pool(u) /\ Numbered(u, inUse) /\ u.disk = t.disk /\ u.order = t.order
       /\ u.dirty = t.dirty \union {0, n} /\ u.replaced = replaced
       /\ \A p \in Pages : u.copy[p] = IF p = n THEN d ELSE v.copy[p]
  <2> HIDE DEF u
  <2>1. n \in Range(v.order) /\ Fits(d, n, v.disk[0].second)
    BY <1>12, <1>15, <1>16
  <2>2. Pool(u) /\ Numbered(u, inUse)
    BY <1>14, <1>16, <2>1, PutNumbered DEF u
  <2>3. Written(v, u, n, d)
    BY <1>14, <1>16, <2>1, PutWrites DEF u
  <2>4. u.dirty = t.dirty \union {0, n}
    BY <1>16, <2>3 DEF Written
  <2> QED BY <1>16, <2>2, <2>3, <2>4 DEF Written
<1> HIDE DEF u
<1>18. Numbered(u, inUse \ {n})
  BY <1>17 DEF Numbered
<1>19. u.replaced \/ torn \/ Consistent(u, inUse \ {n}, TRUE)
  <2> SUFFICES ASSUME ~replaced, ~torn PROVE Consistent(u, inUse \ {n}, TRUE)
    BY <1>2, <1>17
  <2>1. s = Now /\ Consistent(Now, inUse, freed)
    BY <1>1, <1>2, <1>7 DEF AllocInv
  <2>2. {0, n} \subseteq inUse \union {0}
    BY <1>1
  <2>3. Consistent(t, inUse, freed)
    BY <1>6, <1>8, <1>10, <2>1, <2>2, ServesConsistent
  <2>4. /\ \A p \in Pages : p # 0 /\ p # n => u.copy[p] = t.copy[p]
        /\ u.copy[0].first = n /\ u.copy[0].second = t.copy[0].second
        /\ u.copy[n].first = t.copy[0].first
    BY <1>9, <1>13, <1>14, <1>16, <1>17
  <2>5. Pushes(t, u, n)
    BY <1>12, <1>17, <2>4 DEF Pushes
  <2> QED BY <1>1, <1>11, <1>12, <2>3, <2>5, FreeConsistent
<1>20. Now' = u /\ replaced' = u.replaced
  BY <1>1, <1>17, BecomesNow DEF Becomes
<1> QED BY <1>1, <1>17, <1>18, <1>19, <1>20 DEF AllocInv

-----------------------------------------------------------------------------
(* The theorems.                                                           *)

LEMMA NextKeeps == AllocInv /\ [Next]_vars => AllocInv'
<1> SUFFICES ASSUME AllocInv, [Next]_vars PROVE AllocInv'
  OBVIOUS
<1>1. CASE Alloc
  BY <1>1, AllocKeeps
<1>2. CASE Shutdown
  BY <1>2, ShutdownKeeps
<1>3. CASE Crash
  BY <1>3, CrashKeeps
<1>4. ASSUME NEW n \in Pages, Free(n) PROVE AllocInv'
  BY <1>4, FreeKeeps
<1>5. ASSUME NEW n \in Pages, Read(n) PROVE AllocInv'
  BY <1>5, ReadKeeps
<1>6. ASSUME NEW n \in Pages, NEW parent \in Parent, Write(n, parent) PROVE AllocInv'
  BY <1>6, WriteKeeps
<1>7. CASE UNCHANGED vars
  <2>1. /\ Now' = Now /\ inUse' = inUse /\ freed' = freed /\ replaced' = replaced
        /\ torn' = torn
    BY <1>7 DEF vars, Now
  <2> QED BY <2>1 DEF AllocInv
<1> QED BY <1>1, <1>2, <1>3, <1>4, <1>5, <1>6, <1>7 DEF Next

\* The invariant of allocation through the pool: what the file and the pool hold stays
\* within the file, the two headers know of as many pages, and their free lists have no
\* page that is in use as long as the header page does not reach the file before a page
\* that was freed, by leaving the pool or in a flush that is killed.
THEOREM AllocInvariant == Spec => []AllocInv
  BY InitKeeps, NextKeeps, PTL DEF Spec

\* Type correctness of allocation through the pool.
THEOREM AllocTypeCorrect == Spec => []TypeOK
<1>1. AllocInv => TypeOK
  <2> SUFFICES ASSUME AllocInv PROVE TypeOK
    OBVIOUS
  <2>1. Pool(Now) /\ Numbered(Now, inUse) /\ freed \in BOOLEAN /\ torn \in BOOLEAN
    BY DEF AllocInv
  <2>2. inUse \subseteq Pages \ {0}
    <3>1. inUse \subseteq 1 .. disk[0].second - 1 /\ 0 .. disk[0].second - 1 \subseteq Pages
      BY <2>1, NowFields, WithinFields DEF Numbered
    <3>2. \A p \in 1 .. disk[0].second - 1 : p \in 0 .. disk[0].second - 1 /\ p # 0
      OBVIOUS
    <3> QED BY <3>1, <3>2
  <2>3. IsInjective(order) /\ Len(order) <= NumFrames
    BY <2>1, NowFields DEF Pool
  <2> QED BY <2>1, <2>2, <2>3, NowFields, PoolFields, SameTerms DEF TypeOK
<1> QED BY <1>1, AllocInvariant, PTL

\* The header page in the pool knows of as many pages as the one in the file, in every
\* session, and as long as nothing was freed, and no flush torn, it begins the same list: what
\* buffer_alloc_page makes of it is what file_alloc_page made of the other.
THEOREM HeadersAgreeHolds == Spec => []HeadersAgree
<1>1. AllocInv => HeadersAgree
  <2> SUFFICES ASSUME AllocInv, 0 \in Range(order)
               PROVE  /\ copy[0].second = disk[0].second
                      /\ ~freed /\ ~torn => copy[0].first = disk[0].first
    BY DEF HeadersAgree
  <2>1. copy[0].second = disk[0].second
    BY NowFields DEF AllocInv, Numbered
  <2>2. ~freed /\ ~torn => copy[0] = disk[0]
    BY NowFields DEF AllocInv, Consistent
  <2> QED BY <2>1, <2>2
<1> QED BY <1>1, AllocInvariant, PTL

LEMMA SameList ==
  /\ Disk!FreeAt[MaxPages] = Space!FreeAt[MaxPages]
  /\ Disk!FreePages = Space!FreePages
  BY DEF Disk!FreeAt, Space!FreeAt, Disk!FreePages, Space!FreePages, Disk!header, Space!header

\* No page is handed out twice: the list that file_alloc_page walks ends and has no page
\* in use, unless the header page left the pool in a session that frees pages, or was
\* written, in a flush that was killed, before a page that was freed.
THEOREM NeverTwiceHolds == Spec => []NeverTwice
<1>1. AllocInv => NeverTwice
  <2> SUFFICES ASSUME AllocInv, ~(freed /\ replaced), ~torn
               PROVE  Disk!FreeAt[MaxPages] = 0 /\ Disk!FreePages \intersect inUse = {}
    BY DEF NeverTwice
  <2>1. PICK taken : Space!Sound(disk, taken) /\ inUse \subseteq taken
    BY NowFields DEF AllocInv, Consistent
  <2>2. /\ Space!FreeAt[MaxPages] = 0
        /\ Space!FreePages = 1 .. Space!header.second - 1 \ taken
    BY <2>1, SpaceAssumption, Space!SoundList
  <2> QED BY <2>1, <2>2, SameList
<1> QED BY <1>1, AllocInvariant, PTL

=============================================================================
