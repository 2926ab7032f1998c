--------------------------- MODULE DiskSpaceProofs ---------------------------
(***************************************************************************)
(* Proofs about the disk space manager, for table files of any size and    *)
(* any bound on their growth.                                              *)
(***************************************************************************)
EXTENDS DiskSpace, FiniteSetTheorems, SequenceTheorems, TLAPS

\* Any set of numbers has a smallest one.
LEMMA Smallest ==
  ASSUME NEW T, T \subseteq Nat, T # {}
  PROVE  \E k \in T : \A h \in T : k <= h
<1> DEFINE R == OpToRel(<, Nat)
<1>1. \A x, y \in Nat : x < y => <<x, y>> \in R
  BY DEF OpToRel
<1>2. IsWellFoundedOn(R, Nat)
  BY NatLessThanWellFounded
<1> HIDE DEF R
<1>3. PICK k \in T : \A h \in T : <<h, k>> \notin R
  BY <1>2, WFMin
<1>4. \A h \in T : ~(h < k)
  BY <1>1, <1>3
<1>5. \A h \in T : h \in Nat /\ k \in Nat
  OBVIOUS
<1> QED BY <1>3, <1>4, <1>5

-----------------------------------------------------------------------------
(* What a file holds after some writes.                                    *)

WriteCall == [page : Pages, content : Content]

\* The k-th of some writes is the last one of page p.
IsLast(w, k, p) == /\ k \in 1 .. Len(w) /\ w[k].page = p
                   /\ \A j \in 1 .. Len(w) : k < j => w[j].page # p

\* The last write of a page is the one that counts.
LEMMA LastWrite ==
  ASSUME NEW f, NEW w \in Seq(WriteCall), NEW p \in Pages, NEW k, IsLast(w, k, p)
  PROVE  After(f, w)[p] = w[k].content
<1> DEFINE to == {j \in DOMAIN w : w[j].page = p}
           Latest(i) == i \in to /\ \A j \in to : j <= i
<1>1. Latest(k)
  BY DEF IsLast
<1>2. \A i : Latest(i) => i = k
  <2>1. to \subseteq 1 .. Len(w)
    OBVIOUS
  <2> HIDE DEF to
  <2> QED BY <1>1, <2>1
<1>3. (CHOOSE i \in to : \A j \in to : j <= i) = k
  <2> HIDE DEF to
  <2> QED BY <1>1, <1>2
<1>4. to # {}
  BY <1>1
<1> QED BY <1>3, <1>4 DEF After

\* A page nothing is written to stays.
LEMMA NoWrite ==
  ASSUME NEW f, NEW w, NEW p \in Pages, \A j \in DOMAIN w : w[j].page # p
  PROVE  After(f, w)[p] = f[p]
  BY DEF After

\* A page that is written to is written to for the last time.
LEMMA WrittenLast ==
  \A w \in Seq(WriteCall) : \A p : \A i \in 1 .. Len(w) :
    w[i].page = p => \E k : IsLast(w, k, p)
<1> TAKE w \in Seq(WriteCall)
<1> TAKE p
<1> TAKE i \in 1 .. Len(w)
<1> HAVE w[i].page = p
<1> DEFINE n == Len(w)
<1> n \in Nat /\ i \in 1 .. n
  OBVIOUS
<1> HIDE DEF n
<1> DEFINE T == {c \in 0 .. n : n - c \in 1 .. n /\ w[n - c].page = p}
<1>1. n - i \in T
  <2>1. n - (n - i) = i /\ n - i \in 0 .. n
    OBVIOUS
  <2> QED BY <2>1
<1>2. T \subseteq Nat
  OBVIOUS
<1>3. PICK c \in T : \A d \in T : c <= d
  BY <1>1, <1>2, Smallest
<1>4. ASSUME NEW j \in 1 .. n, n - c < j, w[j].page = p PROVE FALSE
  <2>1. n - (n - j) = j /\ n - j \in 0 .. n
    OBVIOUS
  <2>2. n - j \in T
    BY <1>4, <2>1
  <2>3. c \in 0 .. n
    OBVIOUS
  <2> HIDE DEF T
  <2> QED BY <1>3, <1>4, <2>2, <2>3
<1>5. n - c \in 1 .. n /\ w[n - c].page = p
  OBVIOUS
<1> QED BY <1>4, <1>5 DEF n, IsLast

\* Writes of words in pages leave words in pages.
LEMMA AfterType ==
  ASSUME NEW f \in [Pages -> Content], NEW w \in Seq(WriteCall)
  PROVE  After(f, w) \in [Pages -> Content]
<1>1. Len(w) \in Nat /\ DOMAIN w = 1 .. Len(w)
  OBVIOUS
<1>2. \A p : \A i \in 1 .. Len(w) : w[i].page = p => \E k : IsLast(w, k, p)
  BY WrittenLast
<1>3. ASSUME NEW p \in Pages PROVE After(f, w)[p] \in Content
  <2>1. CASE \A j \in DOMAIN w : w[j].page # p
    BY <2>1, NoWrite
  <2>2. CASE \E j \in 1 .. Len(w) : w[j].page = p
    <3> PICK i \in 1 .. Len(w) : w[i].page = p
      BY <2>2
    <3>1. PICK k : IsLast(w, k, p)
      BY <1>2
    <3>2. w[k] \in WriteCall
      BY <1>1, <3>1 DEF IsLast
    <3>3. After(f, w)[p] = w[k].content
      BY <3>1, LastWrite
    <3> QED BY <3>2, <3>3 DEF WriteCall
  <2> QED BY <1>1, <2>1, <2>2
<1>4. After(f, w) = [p \in Pages |-> After(f, w)[p]]
  BY DEF After
<1> QED BY <1>3, <1>4

\* No write changes nothing.
LEMMA AfterNothing == ASSUME NEW f \in [Pages -> Content] PROVE After(f, << >>) = f
<1>1. \A p \in Pages : After(f, << >>)[p] = f[p]
  BY NoWrite
<1>2. After(f, << >>) = [p \in Pages |-> After(f, << >>)[p]]
  BY DEF After
<1> QED BY <1>1, <1>2

\* Writes can be made in two parts.
LEMMA AfterBoth ==
  ASSUME NEW f, NEW u \in Seq(WriteCall), NEW v \in Seq(WriteCall)
  PROVE  After(f, u \o v) = After(After(f, u), v)
<1>1. \A p : \A i \in 1 .. Len(u) : u[i].page = p => \E k : IsLast(u, k, p)
  BY WrittenLast
<1>2. \A p : \A i \in 1 .. Len(v) : v[i].page = p => \E k : IsLast(v, k, p)
  BY WrittenLast
<1> DEFINE both == u \o v
<1> both \in Seq(WriteCall)
  OBVIOUS
<1>3. /\ Len(u) \in Nat /\ Len(v) \in Nat /\ Len(both) = Len(u) + Len(v)
      /\ DOMAIN u = 1 .. Len(u) /\ DOMAIN v = 1 .. Len(v) /\ DOMAIN both = 1 .. Len(both)
      /\ \A i \in 1 .. Len(u) : i \in 1 .. Len(both) /\ both[i] = u[i]
      /\ \A i \in 1 .. Len(v) : Len(u) + i \in 1 .. Len(both) /\ both[Len(u) + i] = v[i]
      /\ \A i \in 1 .. Len(both) : i > Len(u) => i - Len(u) \in 1 .. Len(v) /\ both[i] = v[i - Len(u)]
      /\ \A i \in 1 .. Len(both) : i <= Len(u) => i \in 1 .. Len(u)
  OBVIOUS
<1> HIDE DEF both
<1>4. ASSUME NEW p \in Pages PROVE After(f, both)[p] = After(After(f, u), v)[p]
  <2>1. CASE \E j \in 1 .. Len(v) : v[j].page = p
    <3>1. PICK i \in 1 .. Len(v) : v[i].page = p
      BY <2>1
    <3>2. PICK k : IsLast(v, k, p)
      BY <1>2, <3>1
    <3> DEFINE h == Len(u) + k
    <3>3. h \in 1 .. Len(both) /\ both[h] = v[k] /\ both[h].page = p
      BY <1>3, <3>2 DEF IsLast
    <3>4. ASSUME NEW j \in 1 .. Len(both), h < j PROVE both[j].page # p
      <4>1. j > Len(u) /\ k < j - Len(u) /\ k \in 1 .. Len(v)
        BY <1>3, <3>2, <3>4 DEF IsLast
      <4>2. j - Len(u) \in 1 .. Len(v) /\ both[j] = v[j - Len(u)]
        BY <1>3, <4>1
      <4> QED BY <3>2, <4>1, <4>2 DEF IsLast
    <3> HIDE DEF h
    <3>5. IsLast(both, h, p)
      BY <3>3, <3>4 DEF IsLast
    <3>6. After(f, both)[p] = both[h].content
      BY <3>5, LastWrite
    <3> DEFINE g == After(f, u)
    <3> HIDE DEF g
    <3>7. After(g, v)[p] = v[k].content
      BY <3>2, LastWrite
    <3> QED BY <3>3, <3>6, <3>7 DEF g
  <2>2. CASE (\A j \in 1 .. Len(v) : v[j].page # p) /\ \E j \in 1 .. Len(u) : u[j].page = p
    <3>1. PICK i \in 1 .. Len(u) : u[i].page = p
      BY <2>2
    <3>2. PICK k : IsLast(u, k, p)
      BY <1>1, <3>1
    <3>3. k \in 1 .. Len(both) /\ both[k] = u[k] /\ both[k].page = p
      BY <1>3, <3>2 DEF IsLast
    <3>4. ASSUME NEW j \in 1 .. Len(both), k < j PROVE both[j].page # p
      <4>1. CASE j <= Len(u)
        BY <1>3, <3>2, <3>4, <4>1 DEF IsLast
      <4>2. CASE j > Len(u)
        BY <1>3, <2>2, <4>2
      <4> QED BY <1>3, <4>1, <4>2
    <3>5. After(f, both)[p] = both[k].content
      <4>1. IsLast(both, k, p)
        BY <3>3, <3>4 DEF IsLast
      <4> QED BY <4>1, LastWrite
    <3>6. After(f, u)[p] = u[k].content
      BY <3>2, LastWrite
    <3> DEFINE g == After(f, u)
    <3>7. \A j \in DOMAIN v : v[j].page # p
      BY <1>3, <2>2
    <3>8. After(g, v)[p] = g[p]
      BY <3>7, NoWrite
    <3> QED BY <3>3, <3>5, <3>6, <3>8 DEF g
  <2>3. CASE (\A j \in 1 .. Len(v) : v[j].page # p) /\ \A j \in 1 .. Len(u) : u[j].page # p
    <3>1. ASSUME NEW j \in 1 .. Len(both) PROVE both[j].page # p
      <4>1. CASE j <= Len(u)
        BY <1>3, <2>3, <4>1
      <4>2. CASE j > Len(u)
        BY <1>3, <2>3, <4>2
      <4> QED BY <1>3, <4>1, <4>2
    <3>2. After(f, both)[p] = f[p]
      <4>1. \A j \in DOMAIN both : both[j].page # p
        BY <1>3, <3>1
      <4> QED BY <4>1, NoWrite, Zenon
    <3>3. After(f, u)[p] = f[p]
      <4>1. \A j \in DOMAIN u : u[j].page # p
        BY <1>3, <2>3
      <4> QED BY <4>1, NoWrite, Zenon
    <3> DEFINE g == After(f, u)
    <3> HIDE DEF g
    <3>4. After(g, v)[p] = g[p]
      <4>1. \A j \in DOMAIN v : v[j].page # p
        BY <1>3, <2>3
      <4> QED BY <4>1, NoWrite, Zenon
    <3> QED BY <3>2, <3>3, <3>4 DEF g
  <2> QED BY <2>1, <2>2, <2>3
<1>5. After(f, both) = [p \in Pages |-> After(f, both)[p]]
      /\ After(After(f, u), v) = [p \in Pages |-> After(After(f, u), v)[p]]
  BY DEF After
<1> QED BY <1>4, <1>5 DEF both

-----------------------------------------------------------------------------
(* What the writes of the operations leave.                                *)

Chained(f, w, a, b, next, h) ==
  /\ w \in Seq(WriteCall) /\ Len(w) = b - a + 2
  /\ \A k \in 0 .. Len(w) :
       /\ After(f, SubSeq(w, 1, k))[0] = IF k = Len(w) THEN h ELSE f[0]
       /\ \A p \in Pages \ {0} :
            After(f, SubSeq(w, 1, k))[p] =
              IF p \in a .. b /\ p < a + k
                THEN Link(IF p = a THEN next ELSE p - 1) ELSE f[p]

\* The file after some of the writes that link the pages a .. b and then write the
\* header h: the pages come first, each with the number of the one before it.
LEMMA ChainFile ==
  ASSUME NEW f \in [Pages -> Content], NEW a \in 1 .. MaxPages, NEW b \in 0 .. MaxPages - 1,
         a <= b + 1, NEW next \in Pages, NEW h \in Content,
         NEW w, w = Append(Chain(a, b, next), To(0, h))
  PROVE  Chained(f, w, a, b, next, h)
<1> DEFINE d == b - a + 1
           c == Chain(a, b, next)
<1>1. /\ MaxPages \in Nat \ {0} /\ a \in Nat \ {0} /\ b \in Nat /\ d \in Nat
      /\ 0 \in Pages /\ b = a + d - 1
  BY DiskSpaceAssumption DEF Pages
<1>2. \A i \in 1 .. d : /\ c[i] = To(a + i - 1, Link(IF i = 1 THEN next ELSE a + i - 2))
                        /\ c[i] \in WriteCall
  <2>1. \A i \in 1 .. d : c[i] = To(a + i - 1, Link(IF i = 1 THEN next ELSE a + i - 2))
    BY DEF Chain
  <2>2. \A i \in 1 .. d : /\ a + i - 1 \in Pages
                          /\ i # 1 => a + i - 2 \in Pages
    BY <1>1 DEF Pages
  <2>3. 0 \in 0 .. MaxPages
    BY <1>1
  <2> HIDE DEF c, d
  <2>4. \A q \in Pages, r \in Pages : To(q, Link(r)) \in WriteCall
    BY <2>3 DEF To, Link, WriteCall, Content
  <2>5. ASSUME NEW i \in 1 .. d PROVE c[i] \in WriteCall
    BY <2>1, <2>2, <2>4
  <2> QED BY <2>1, <2>5
<1>3. c = [i \in 1 .. d |-> c[i]]
  BY DEF Chain
<1>4. c \in Seq(WriteCall) /\ Len(c) = d
  <2> HIDE DEF c, d
  <2>1. c \in [1 .. d -> WriteCall]
    BY <1>2, <1>3
  <2> QED BY <1>1, <2>1
<1>5. To(0, h) \in WriteCall
  BY <1>1 DEF To, WriteCall
<1> HIDE DEF c, d
<1>6. /\ w \in Seq(WriteCall) /\ Len(w) = d + 1 /\ w[d + 1] = To(0, h)
      /\ \A i \in 1 .. d : w[i] = c[i]
  BY <1>1, <1>4, <1>5 DEF c
<1>7. ASSUME NEW k \in 0 .. d + 1
      PROVE  /\ After(f, SubSeq(w, 1, k))[0] = IF k = d + 1 THEN h ELSE f[0]
             /\ \A p \in Pages \ {0} :
                   After(f, SubSeq(w, 1, k))[p] =
                     IF p \in a .. b /\ p < a + k
                       THEN Link(IF p = a THEN next ELSE p - 1) ELSE f[p]
  <2> DEFINE v == SubSeq(w, 1, k)
  <2>1. v \in Seq(WriteCall) /\ Len(v) = k /\ \A i \in 1 .. k : v[i] = w[i]
    BY <1>1, <1>6
  <2> HIDE DEF v
  <2>2. DOMAIN v = 1 .. k /\ k \in Nat
    BY <1>1, <2>1
  <2>3. ASSUME NEW i \in 1 .. d, i \in 1 .. k
        PROVE  /\ v[i].page = a + i - 1
               /\ v[i].content = Link(IF i = 1 THEN next ELSE a + i - 2)
    <3>1. v[i] = To(a + i - 1, Link(IF i = 1 THEN next ELSE a + i - 2))
      BY <1>2, <1>6, <2>1, <2>3
    <3> QED BY <3>1 DEF To
  <2>4. ASSUME d + 1 \in 1 .. k PROVE v[d + 1].page = 0 /\ v[d + 1].content = h
    <3>1. v[d + 1] = To(0, h)
      BY <1>6, <2>1, <2>4
    <3> QED BY <3>1 DEF To
  <2>5. \A i \in 1 .. k : i \in 1 .. d \/ i = d + 1
    BY <1>1
  <2>6. ASSUME k = d + 1 PROVE After(f, v)[0] = h
    <3>1. /\ d + 1 \in 1 .. Len(v) /\ d + 1 \in 1 .. k
          /\ \A j \in 1 .. Len(v) : ~(d + 1 < j)
      BY <1>1, <2>1, <2>6
    <3>2. v[d + 1].page = 0 /\ v[d + 1].content = h
      BY <2>4, <3>1
    <3>3. IsLast(v, d + 1, 0)
      BY <3>1, <3>2 DEF IsLast
    <3>4. After(f, v)[0] = v[d + 1].content
      BY <1>1, <2>1, <3>3, LastWrite
    <3> QED BY <3>2, <3>4
  <2>7. ASSUME k # d + 1 PROVE After(f, v)[0] = f[0]
    <3>1. ASSUME NEW j \in 1 .. k PROVE v[j].page # 0
      <4>1. j \in 1 .. d
        BY <1>1, <2>5, <2>7
      <4>2. v[j].page = a + j - 1
        BY <2>3, <4>1
      <4> QED BY <1>1, <2>2, <4>2
    <3>2. \A j \in DOMAIN v : v[j].page # 0
      BY <2>2, <3>1
    <3>3. 0 \in Pages
      BY <1>1
    <3> QED BY <3>2, <3>3, NoWrite
  <2>8. ASSUME NEW p \in Pages \ {0}, p \in a .. b, p < a + k
        PROVE  After(f, v)[p] = Link(IF p = a THEN next ELSE p - 1)
    <3> DEFINE i == p - a + 1
    <3>1. /\ i \in 1 .. d /\ i \in 1 .. k /\ a + i - 1 = p /\ a + i - 2 = p - 1
          /\ i = 1 <=> p = a
      BY <1>1, <2>2, <2>8
    <3> HIDE DEF i
    <3>2. v[i].page = p
      BY <2>3, <3>1
    <3>3. ASSUME NEW j \in 1 .. k, i < j PROVE v[j].page # p
      <4>1. CASE j \in 1 .. d
        <5>1. v[j].page = a + j - 1
          BY <2>3, <4>1
        <5> QED BY <1>1, <2>2, <3>1, <3>3, <5>1
      <4>2. CASE j = d + 1
        BY <1>1, <2>4, <2>8, <4>2
      <4> QED BY <2>5, <4>1, <4>2
    <3>4. i \in 1 .. Len(v) /\ \A j \in 1 .. Len(v) : i < j => v[j].page # p
      BY <2>1, <3>1, <3>3
    <3>5. After(f, v)[p] = v[i].content
      <4>1. IsLast(v, i, p)
        BY <3>2, <3>4 DEF IsLast
      <4> QED BY <2>1, <4>1, LastWrite
    <3> QED BY <2>3, <3>1, <3>5
  <2>9. ASSUME NEW p \in Pages \ {0}, ~(p \in a .. b /\ p < a + k)
        PROVE  After(f, v)[p] = f[p]
    <3>1. ASSUME NEW j \in 1 .. k PROVE v[j].page # p
      <4>1. CASE j \in 1 .. d
        <5>1. v[j].page = a + j - 1
          BY <2>3, <4>1
        <5> QED BY <1>1, <2>2, <2>9, <4>1, <5>1
      <4>2. CASE j = d + 1
        BY <1>1, <2>4, <2>9, <4>2
      <4> QED BY <2>5, <4>1, <4>2
    <3> QED BY <2>2, <3>1, NoWrite
  <2> QED BY <2>6, <2>7, <2>8, <2>9 DEF v
<1> QED BY <1>1, <1>6, <1>7 DEF d, Chained

WritesOne(f, w, p, c) == w \in Seq(WriteCall) /\ After(f, w) = [f EXCEPT ![p] = c]

\* One write changes one page.
LEMMA OneWrite ==
  ASSUME NEW f \in [Pages -> Content], NEW p \in Pages, NEW c \in Content
  PROVE  WritesOne(f, <<To(p, c)>>, p, c)
<1> DEFINE w == <<To(p, c)>>
<1>1. /\ w \in Seq(WriteCall) /\ Len(w) = 1 /\ DOMAIN w = 1 .. 1
      /\ w[1].page = p /\ w[1].content = c
  BY DEF To, WriteCall
<1> HIDE DEF w
<1>2. IsLast(w, 1, p)
  BY <1>1 DEF IsLast
<1>3. After(f, w)[p] = w[1].content
  BY <1>1, <1>2, LastWrite
<1>4. After(f, w)[p] = c
  BY <1>1, <1>3
<1>5. ASSUME NEW q \in Pages, q # p PROVE After(f, w)[q] = f[q]
  <2>1. \A j \in DOMAIN w : w[j].page # q
    BY <1>1, <1>5
  <2> QED BY <2>1, NoWrite
<1>6. After(f, w) = [q \in Pages |-> After(f, w)[q]]
  BY DEF After
<1> QED BY <1>1, <1>4, <1>5, <1>6 DEF w, WritesOne

WritesTwo(f, w, p, c, q, d) ==
  w \in Seq(WriteCall) /\ After(f, w) = [f EXCEPT ![p] = c, ![q] = d]

\* Two writes change two pages.
LEMMA TwoWrites ==
  ASSUME NEW f \in [Pages -> Content], NEW p \in Pages, NEW c \in Content,
         NEW q \in Pages, NEW d \in Content
  PROVE  WritesTwo(f, <<To(p, c), To(q, d)>>, p, c, q, d)
<1> DEFINE u == <<To(p, c)>>
           v == <<To(q, d)>>
           g == [f EXCEPT ![p] = c]
<1>1. <<To(p, c), To(q, d)>> = u \o v /\ <<To(p, c), To(q, d)>> \in Seq(WriteCall)
  BY DEF To, WriteCall
<1>2. g \in [Pages -> Content] /\ [f EXCEPT ![p] = c, ![q] = d] = [g EXCEPT ![q] = d]
  OBVIOUS
<1> HIDE DEF g
<1>3. u \in Seq(WriteCall) /\ v \in Seq(WriteCall) /\ After(g, v) = [g EXCEPT ![q] = d]
  BY <1>2, OneWrite DEF WritesOne
<1>4. After(f, u) = g
  BY OneWrite DEF g, WritesOne
<1> HIDE DEF u, v
<1>5. After(f, u \o v) = After(After(f, u), v)
  BY <1>3, AfterBoth
<1> QED BY <1>1, <1>2, <1>3, <1>4, <1>5 DEF WritesTwo

-----------------------------------------------------------------------------
(* The free list.                                                          *)

\* s has m elements, those of S, each of them once.
Lists(s, m, S) == /\ s \in [1 .. m -> S]
                  /\ \A p \in S : \E k \in 1 .. m : s[k] = p
                  /\ \A i, j \in 1 .. m : s[i] = s[j] => i = j

\* The header of file f begins the list s, each page has the next one, the last has 0.
Linked(f, s, m) ==
  /\ f[0].first = IF m = 0 THEN 0 ELSE s[1]
  /\ \A k \in 1 .. m : f[s[k]].first = IF k = m THEN 0 ELSE s[k + 1]

\* The list of file f is that of the pages which are not taken.
Sound(f, taken) ==
  /\ f[0].second \in 1 .. MaxPages
  /\ taken \subseteq 1 .. f[0].second - 1
  /\ \E m \in Nat : \E s \in [1 .. m -> 1 .. f[0].second - 1 \ taken] :
       Lists(s, m, 1 .. f[0].second - 1 \ taken) /\ Linked(f, s, m)

\* What is written to pages that are taken, or not in the file yet, leaves the list.
LEMMA ListStays ==
  ASSUME NEW f, NEW g, NEW taken, Sound(f, taken), g[0] = f[0],
         \A p \in 1 .. f[0].second - 1 \ taken : g[p] = f[p]
  PROVE  Sound(g, taken)
<1> DEFINE free == 1 .. f[0].second - 1 \ taken
<1>1. PICK m \in Nat : \E s \in [1 .. m -> free] : Lists(s, m, free) /\ Linked(f, s, m)
  BY DEF Sound
<1>2. PICK s \in [1 .. m -> free] : Lists(s, m, free) /\ Linked(f, s, m)
  BY <1>1
<1>3. \A k \in 1 .. m : g[s[k]] = f[s[k]]
  BY <1>2
<1>4. Linked(g, s, m)
  BY <1>2, <1>3 DEF Linked
<1> QED BY <1>2, <1>4 DEF Sound

\* The first page of the list is taken.
LEMMA ListPops ==
  ASSUME NEW f, NEW g, NEW taken, Sound(f, taken), f[0].first # 0,
         g[0].second = f[0].second, g[0].first = f[f[0].first].first,
         \A p \in 1 .. f[0].second - 1 : g[p] = f[p]
  PROVE  /\ f[0].first \in 1 .. f[0].second - 1 \ taken
         /\ Sound(g, taken \union {f[0].first})
<1> DEFINE N == f[0].second
           top == f[0].first
           free == 1 .. N - 1 \ taken
           left == 1 .. N - 1 \ (taken \union {top})
<1>1. PICK m \in Nat : \E s \in [1 .. m -> free] : Lists(s, m, free) /\ Linked(f, s, m)
  BY DEF Sound
<1>2. PICK s \in [1 .. m -> free] : Lists(s, m, free) /\ Linked(f, s, m)
  BY <1>1
<1>3. m # 0 /\ top = s[1] /\ 1 \in 1 .. m
  BY <1>2 DEF Linked
<1>4. top \in free
  BY <1>2, <1>3
<1>5. N \in 1 .. MaxPages /\ taken \subseteq 1 .. N - 1 /\ MaxPages \in Nat
  BY DiskSpaceAssumption DEF Sound
<1> DEFINE t == [k \in 1 .. m - 1 |-> s[k + 1]]
<1>6. \A k \in 1 .. m - 1 : k + 1 \in 1 .. m /\ t[k] = s[k + 1] /\ k + 1 # 1
  OBVIOUS
<1>7. ASSUME NEW k \in 1 .. m - 1 PROVE t[k] \in left
  <2>1. s[k + 1] \in free /\ s[k + 1] # s[1]
    BY <1>2, <1>3, <1>6 DEF Lists
  <2> QED BY <1>3, <1>6, <2>1
<1>8. t \in [1 .. m - 1 -> left]
  BY <1>7
<1>9. ASSUME NEW p \in left PROVE \E k \in 1 .. m - 1 : t[k] = p
  <2>1. p \in free /\ p # top
    OBVIOUS
  <2>2. PICK k \in 1 .. m : s[k] = p
    BY <1>2, <2>1 DEF Lists
  <2>3. k # 1
    BY <1>3, <2>1, <2>2
  <2>4. k - 1 \in 1 .. m - 1 /\ (k - 1) + 1 = k
    BY <2>3
  <2> QED BY <1>6, <2>2, <2>4
<1>10. ASSUME NEW i \in 1 .. m - 1, NEW j \in 1 .. m - 1, t[i] = t[j] PROVE i = j
  <2>1. i + 1 = j + 1
    BY <1>2, <1>6, <1>10 DEF Lists
  <2> QED BY <2>1
<1>11. Lists(t, m - 1, left)
  BY <1>8, <1>9, <1>10 DEF Lists
<1>12. Linked(g, t, m - 1)
  <2>1. g[0].first = IF m - 1 = 0 THEN 0 ELSE t[1]
    <3>1. f[s[1]].first = IF 1 = m THEN 0 ELSE s[1 + 1]
      BY <1>2, <1>3 DEF Linked
    <3>2. m # 1 => 1 \in 1 .. m - 1
      BY <1>3
    <3> QED BY <1>3, <1>6, <3>1, <3>2
  <2>2. ASSUME NEW k \in 1 .. m - 1
        PROVE  g[t[k]].first = IF k = m - 1 THEN 0 ELSE t[k + 1]
    <3>1. g[t[k]] = f[s[k + 1]]
      BY <1>6, <1>7
    <3>2. f[s[k + 1]].first = IF k + 1 = m THEN 0 ELSE s[(k + 1) + 1]
      BY <1>2, <1>6 DEF Linked
    <3>3. k # m - 1 => k + 1 \in 1 .. m - 1
      OBVIOUS
    <3>4. k + 1 = m <=> k = m - 1
      OBVIOUS
    <3> QED BY <1>6, <3>1, <3>2, <3>3, <3>4
  <2> QED BY <2>1, <2>2 DEF Linked
<1>13. m - 1 \in Nat /\ taken \union {top} \subseteq 1 .. N - 1
  <2>1. m - 1 \in Nat
    BY <1>3
  <2> HIDE DEF N, top
  <2> QED BY <1>4, <1>5, <2>1
<1> HIDE DEF t
<1> QED BY <1>4, <1>5, <1>8, <1>11, <1>12, <1>13 DEF Sound

\* A page is given back, and comes first in the list.
LEMMA ListPushes ==
  ASSUME NEW f, NEW g, NEW taken, Sound(f, taken), NEW n \in taken,
         g[0].second = f[0].second, g[0].first = n, g[n].first = f[0].first,
         \A p \in 1 .. f[0].second - 1 \ {n} : g[p] = f[p]
  PROVE  Sound(g, taken \ {n})
<1> DEFINE N == f[0].second
           free == 1 .. N - 1 \ taken
           more == 1 .. N - 1 \ (taken \ {n})
<1>1. PICK m \in Nat : \E s \in [1 .. m -> free] : Lists(s, m, free) /\ Linked(f, s, m)
  BY DEF Sound
<1>2. PICK s \in [1 .. m -> free] : Lists(s, m, free) /\ Linked(f, s, m)
  BY <1>1
<1>3. N \in 1 .. MaxPages /\ taken \subseteq 1 .. N - 1 /\ MaxPages \in Nat
  BY DiskSpaceAssumption DEF Sound
<1> DEFINE t == [k \in 1 .. m + 1 |-> IF k = 1 THEN n ELSE s[k - 1]]
<1>4. /\ 1 \in 1 .. m + 1 /\ t[1] = n
      /\ \A k \in 1 .. m + 1 : k # 1 => k - 1 \in 1 .. m /\ t[k] = s[k - 1] /\ t[k] \in free
      /\ \A k \in 1 .. m : k + 1 \in 1 .. m + 1 /\ k + 1 # 1 /\ t[k + 1] = s[k]
  OBVIOUS
<1>5. n \notin free /\ n \in more /\ \A p : p \in more <=> p \in free \/ p = n
  BY <1>3
<1>6. t \in [1 .. m + 1 -> more]
  BY <1>4, <1>5
<1> HIDE DEF t
<1>7. Lists(t, m + 1, more)
  <2>1. ASSUME NEW p \in more PROVE \E k \in 1 .. m + 1 : t[k] = p
    <3>1. CASE p = n
      BY <1>4, <3>1
    <3>2. CASE p \in free
      <4>1. PICK k \in 1 .. m : s[k] = p
        BY <1>2, <3>2 DEF Lists
      <4> QED BY <1>4, <4>1
    <3> QED BY <1>5, <3>1, <3>2
  <2>2. ASSUME NEW i \in 1 .. m + 1, NEW j \in 1 .. m + 1, t[i] = t[j] PROVE i = j
    <3>1. CASE i = 1 \/ j = 1
      BY <1>4, <1>5, <2>2, <3>1
    <3>2. CASE i # 1 /\ j # 1
      <4>1. i - 1 \in 1 .. m /\ j - 1 \in 1 .. m /\ s[i - 1] = s[j - 1]
        BY <1>4, <2>2, <3>2
      <4>2. i - 1 = j - 1
        BY <1>2, <4>1 DEF Lists
      <4> QED BY <4>2
    <3> QED BY <3>1, <3>2
  <2> QED BY <1>6, <2>1, <2>2 DEF Lists
<1>8. Linked(g, t, m + 1)
  <2>1. g[t[1]].first = IF 1 = m + 1 THEN 0 ELSE t[1 + 1]
    <3>1. f[0].first = IF m = 0 THEN 0 ELSE s[1]
      BY <1>2 DEF Linked
    <3>2. m # 0 => 1 \in 1 .. m /\ t[1 + 1] = s[1]
      BY <1>4
    <3>3. 1 = m + 1 <=> m = 0
      OBVIOUS
    <3> QED BY <1>4, <3>1, <3>2, <3>3
  <2>2. ASSUME NEW k \in 1 .. m + 1, k # 1
        PROVE  g[t[k]].first = IF k = m + 1 THEN 0 ELSE t[k + 1]
    <3>1. g[t[k]] = f[s[k - 1]]
      <4>1. t[k] = s[k - 1] /\ t[k] \in free
        BY <1>4, <2>2
      <4>2. t[k] \in 1 .. N - 1 \ {n}
        BY <1>5, <4>1
      <4> QED BY <4>1, <4>2
    <3>2. f[s[k - 1]].first = IF k - 1 = m THEN 0 ELSE s[(k - 1) + 1]
      BY <1>2, <1>4, <2>2 DEF Linked
    <3>3. (k - 1) + 1 = k /\ (k - 1 = m <=> k = m + 1) /\ (k # m + 1 => k \in 1 .. m)
      BY <2>2
    <3> QED BY <1>4, <3>1, <3>2, <3>3
  <2>3. m + 1 # 0 /\ g[0].first = t[1]
    BY <1>4
  <2> QED BY <2>1, <2>2, <2>3 DEF Linked
<1>9. m + 1 \in Nat /\ taken \ {n} \subseteq 1 .. N - 1
  BY <1>3
<1> QED BY <1>3, <1>6, <1>7, <1>8, <1>9 DEF Sound

\* t lists the new pages n .. top, the last one first, and then what s lists.
Joined(t, s, m, S, n, d, top) ==
  /\ \A k \in 1 .. m + d :
       \/ k \in 1 .. d /\ t[k] = top + 1 - k /\ t[k] \in n .. top
       \/ k > d /\ k - d \in 1 .. m /\ t[k] = s[k - d] /\ t[k] \in S
  /\ \A k \in 1 .. d : t[k] = top + 1 - k
  /\ \A k \in 1 .. m : t[k + d] = s[k]
  /\ Lists(t, m + d, S \union n .. top)

\* There is such a list when the new pages are not in the old one.
LEMMA JoinedList ==
  ASSUME NEW S, NEW m \in Nat, NEW s, Lists(s, m, S),
         NEW n \in Nat, NEW d \in Nat, NEW top, top = n + d - 1,
         \A p \in S : p \notin n .. top
  PROVE  \E t : Joined(t, s, m, S, n, d, top)
<1> DEFINE both == S \union n .. top
           t == [k \in 1 .. m + d |-> IF k <= d THEN top + 1 - k ELSE s[k - d]]
<1>1. \A k \in 1 .. m : s[k] \in S
  BY DEF Lists
<1>2. ASSUME NEW k \in 1 .. m + d, k <= d
      PROVE  k \in 1 .. d /\ t[k] = top + 1 - k /\ t[k] \in n .. top
  <2>1. k \in 1 .. d /\ top + 1 - k \in n .. top
    BY <1>2
  <2> QED BY <1>2, <2>1
<1>3. ASSUME NEW k \in 1 .. m + d, k > d
      PROVE  k - d \in 1 .. m /\ t[k] = s[k - d] /\ t[k] \in S
  <2>1. k - d \in 1 .. m /\ ~(k <= d)
    BY <1>3
  <2> QED BY <1>1, <2>1
<1>4. \A k \in 1 .. m + d :
        \/ k \in 1 .. d /\ t[k] = top + 1 - k /\ t[k] \in n .. top
        \/ k > d /\ k - d \in 1 .. m /\ t[k] = s[k - d] /\ t[k] \in S
  <2> TAKE k \in 1 .. m + d
  <2>1. k <= d \/ k > d
    OBVIOUS
  <2> QED BY <1>2, <1>3, <2>1
<1>5. ASSUME NEW k \in 1 .. d PROVE k \in 1 .. m + d /\ t[k] = top + 1 - k
  <2>1. k \in 1 .. m + d /\ k <= d
    OBVIOUS
  <2> QED BY <1>2, <2>1
<1>6. ASSUME NEW k \in 1 .. m PROVE k + d \in 1 .. m + d /\ t[k + d] = s[k]
  <2>1. k + d \in 1 .. m + d /\ k + d > d /\ (k + d) - d = k
    OBVIOUS
  <2>2. t[k + d] = s[(k + d) - d]
    BY <1>3, <2>1
  <2> QED BY <2>1, <2>2
<1>7. DOMAIN t = 1 .. m + d /\ t = [k \in 1 .. m + d |-> t[k]]
  OBVIOUS
<1>8. t \in [1 .. m + d -> both]
  <2>1. \A k \in 1 .. m + d : t[k] \in both
    BY <1>4
  <2> HIDE DEF both
  <2> QED BY <1>7, <2>1
<1>9. ASSUME NEW p \in both PROVE \E k \in 1 .. m + d : t[k] = p
  <2>1. CASE p \in n .. top
    <3>1. top + 1 - p \in 1 .. d /\ top + 1 - (top + 1 - p) = p
      BY <2>1
    <3> QED BY <1>5, <3>1
  <2>2. CASE p \in S
    <3>1. PICK k \in 1 .. m : s[k] = p
      BY <2>2 DEF Lists
    <3> QED BY <1>6, <3>1
  <2> QED BY <2>1, <2>2
<1>10. ASSUME NEW i \in 1 .. m + d, NEW j \in 1 .. m + d, t[i] = t[j] PROVE i = j
  <2>1. CASE i <= d /\ j <= d
    <3>1. top + 1 - i = top + 1 - j
      BY <1>2, <1>10, <2>1
    <3> QED BY <3>1
  <2>2. CASE i > d /\ j > d
    <3>1. i - d \in 1 .. m /\ j - d \in 1 .. m /\ s[i - d] = s[j - d]
      BY <1>3, <1>10, <2>2
    <3>2. i - d = j - d
      BY <3>1 DEF Lists
    <3> QED BY <3>2
  <2>3. CASE (i <= d /\ j > d) \/ (i > d /\ j <= d)
    BY <1>2, <1>3, <1>10, <2>3
  <2>4. (i <= d \/ i > d) /\ (j <= d \/ j > d)
    OBVIOUS
  <2> QED BY <2>1, <2>2, <2>3, <2>4
<1>11. Lists(t, m + d, both)
  BY <1>8, <1>9, <1>10 DEF Lists
<1>12. Joined(t, s, m, S, n, d, top)
  BY <1>4, <1>5, <1>6, <1>11 DEF Joined
<1> QED BY <1>12

\* File g is file f of n pages grown to N, with the new pages up to top linked.
Grown(f, g, n, top, N) ==
  /\ top = n - 1 => f[0].first = top
  /\ g[0].first = top /\ g[0].second = N
  /\ \A p \in 1 .. n - 1 : g[p] = f[p]
  /\ \A p \in n .. top : g[p].first = IF p = n THEN f[0].first ELSE p - 1

\* The file grows: the new pages up to top, the last one first, are put before the
\* list, and those above top are taken.
LEMMA ListGrows ==
  ASSUME NEW f, NEW g, NEW taken, Sound(f, taken),
         NEW n, n = f[0].second, NEW top \in Nat, NEW N \in 1 .. MaxPages,
         n - 1 <= top, top < N, Grown(f, g, n, top, N)
  PROVE  Sound(g, taken \union top + 1 .. N - 1)
<1> DEFINE free == 1 .. n - 1 \ taken
           more == 1 .. N - 1 \ (taken \union top + 1 .. N - 1)
<1>1. PICK m \in Nat : \E s \in [1 .. m -> free] : Lists(s, m, free) /\ Linked(f, s, m)
  BY DEF Sound
<1>2. PICK s \in [1 .. m -> free] : Lists(s, m, free) /\ Linked(f, s, m)
  BY <1>1
<1>3. n \in 1 .. MaxPages /\ taken \subseteq 1 .. n - 1 /\ MaxPages \in Nat
  BY DiskSpaceAssumption DEF Sound
<1>4. PICK d \in Nat : top = n + d - 1
  <2>1. top - n + 1 \in Nat /\ top = n + (top - n + 1) - 1
    BY <1>3
  <2> QED BY <2>1
<1>5. more = free \union n .. top /\ \A p \in free : p \notin n .. top
  <2>1. \A p \in taken : p \in 1 .. n - 1
    BY <1>3
  <2>2. ASSUME NEW p \in Int PROVE p \in more <=> p \in free \union n .. top
    <3>1. n \in Int /\ top \in Int /\ N \in Int /\ 1 <= n /\ n - 1 <= top /\ top < N
      BY <1>3
    <3>2. p \in 1 .. n - 1 <=> 1 <= p /\ p < n
      BY <3>1
    <3>3. p \in n .. top <=> n <= p /\ p <= top
      BY <3>1
    <3>4. p \in 1 .. N - 1 /\ p \notin top + 1 .. N - 1 <=> 1 <= p /\ p <= top
      BY <3>1
    <3>5. p \in taken => 1 <= p /\ p < n
      BY <2>1, <3>2
    <3> QED BY <3>1, <3>2, <3>3, <3>4, <3>5
  <2>3. \A p : p \in more \/ p \in free \union n .. top => p \in Int
    OBVIOUS
  <2>4. \A p \in free : p \notin n .. top
    BY <1>3
  <2> HIDE DEF more, free
  <2> QED BY <2>2, <2>3, <2>4
<1> HIDE DEF more, free
<1>6. PICK t : Joined(t, s, m, free, n, d, top)
  <2>1. n \in Nat
    BY <1>3
  <2>2. Lists(s, m, free) /\ top = n + d - 1 /\ \A p \in free : p \notin n .. top
    BY <1>2, <1>4, <1>5
  <2> QED BY <2>1, <2>2, JoinedList
<1>7. /\ \A k \in 1 .. m + d :
           \/ k \in 1 .. d /\ t[k] = top + 1 - k /\ t[k] \in n .. top
           \/ k > d /\ k - d \in 1 .. m /\ t[k] = s[k - d] /\ t[k] \in free
      /\ \A k \in 1 .. d : t[k] = top + 1 - k
      /\ \A k \in 1 .. m : t[k + d] = s[k]
      /\ Lists(t, m + d, more)
  BY <1>5, <1>6 DEF Joined
<1>8. t \in [1 .. m + d -> more]
  BY <1>7 DEF Lists
<1>9. n \in Int /\ top \in Int
  BY <1>3
<1>10. f[0].first = IF m = 0 THEN 0 ELSE s[1]
  BY <1>2 DEF Linked
<1>11. g[0].first = IF m + d = 0 THEN 0 ELSE t[1]
  <2>1. CASE d = 0
    <3>1. m # 0 => 1 \in 1 .. m /\ t[1 + d] = s[1] /\ 1 + d = 1
      BY <1>7, <2>1
    <3> QED BY <1>4, <1>9, <1>10, <2>1, <3>1 DEF Grown
  <2>2. CASE d # 0
    <3>1. 1 \in 1 .. d /\ t[1] = top + 1 - 1
      BY <1>4, <1>7, <2>2
    <3> QED BY <1>4, <1>9, <2>2, <3>1 DEF Grown
  <2> QED BY <2>1, <2>2
<1>12. ASSUME NEW k \in 1 .. m + d
       PROVE  g[t[k]].first = IF k = m + d THEN 0 ELSE t[k + 1]
  <2>1. CASE k \in 1 .. d
    <3>1. ~(k > d)
      BY <2>1
    <3>2. t[k] = top + 1 - k /\ t[k] \in n .. top
      BY <1>7, <3>1
    <3>3. /\ g[t[k]].first = IF t[k] = n THEN f[0].first ELSE t[k] - 1
          /\ t[k] = top + 1 - k
      BY <3>2 DEF Grown
    <3>4. CASE k # d
      <4>1. k + 1 \in 1 .. d /\ k # m + d /\ t[k] # n
        BY <1>4, <2>1, <3>3, <3>4
      <4>2. t[k + 1] = top + 1 - (k + 1)
        BY <1>7, <4>1
      <4>3. t[k] - 1 = top + 1 - (k + 1)
        BY <1>4, <2>1, <3>3
      <4> QED BY <3>3, <4>1, <4>2, <4>3
    <3>5. CASE k = d
      <4>1. t[k] = n
        BY <1>4, <1>9, <3>3, <3>5
      <4>2. m # 0 => 1 \in 1 .. m /\ t[1 + d] = s[1] /\ 1 + d = k + 1
        BY <1>4, <1>7, <3>5
      <4>3. k = m + d <=> m = 0
        BY <1>4, <3>5
      <4> QED BY <1>10, <3>3, <4>1, <4>2, <4>3
    <3> QED BY <3>4, <3>5
  <2>2. CASE k > d /\ k - d \in 1 .. m /\ t[k] = s[k - d] /\ t[k] \in free
    <3>1. g[t[k]] = f[s[k - d]]
      BY <2>2 DEF free, Grown
    <3>2. f[s[k - d]].first = IF k - d = m THEN 0 ELSE s[(k - d) + 1]
      BY <1>2, <2>2 DEF Linked
    <3>3. /\ k - d = m <=> k = m + d
          /\ k # m + d => (k - d) + 1 \in 1 .. m /\ ((k - d) + 1) + d = k + 1
      BY <1>4, <2>2
    <3>4. k # m + d => t[k + 1] = s[(k - d) + 1]
      BY <1>7, <3>3
    <3> QED BY <3>1, <3>2, <3>3, <3>4
  <2> QED BY <1>7, <2>1, <2>2
<1>13. Linked(g, t, m + d)
  BY <1>11, <1>12 DEF Linked
<1>14. m + d \in Nat
  OBVIOUS
<1>15. taken \union top + 1 .. N - 1 \subseteq 1 .. N - 1
  <2>1. \A p \in taken : p \in 1 .. N - 1
    <3>1. \A p \in 1 .. n - 1 : p \in 1 .. N - 1
      BY <1>9
    <3> QED BY <1>3, <3>1
  <2>2. \A p \in top + 1 .. N - 1 : p \in 1 .. N - 1
    BY <1>9
  <2> QED BY <2>1, <2>2
<1> QED BY <1>7, <1>8, <1>13, <1>14, <1>15 DEF Sound, more, Grown

-----------------------------------------------------------------------------
(* Growing the file.                                                       *)

\* Writes that make a file of n pages one of N, whose new pages above top are taken.
Grows(f, w, taken, n, top, N) ==
  /\ w \in Seq(WriteCall) /\ Len(w) = N - n + 1
  /\ \A k \in 0 .. Len(w) - 1 : Sound(After(f, SubSeq(w, 1, k)), taken)
  /\ \A k \in 0 .. Len(w) : After(f, SubSeq(w, 1, k)) \in [Pages -> Content]
  /\ Sound(After(f, w), taken \union top + 1 .. N - 1)
  /\ After(f, w)[0] = [first |-> top, second |-> N]

\* The new pages and the header make one write more than there are new pages.
LEMMA ChainLength ==
  \A n, N \in Nat : \A l : n < N /\ l = (N - 1) - n + 2 => l = N - n + 1 /\ l \in Nat
  OBVIOUS

\* All pages of a file from n on are linked, and the header is written last: until it
\* is, the list is the old one.
LEMMA GrownFile ==
  ASSUME NEW f \in [Pages -> Content], NEW taken, Sound(f, taken),
         NEW n, n = f[0].second, NEW N \in 1 .. MaxPages, n < N,
         NEW top \in 0 .. N - 1, n - 1 <= top, top = n - 1 => f[0].first = top,
         NEW w, w = Append(Chain(n, N - 1, f[0].first), Header(top, N))
  PROVE  Grows(f, w, taken, n, top, N)
<1> DEFINE h == [first |-> top, second |-> N]
<1>1. /\ n \in 1 .. MaxPages /\ MaxPages \in Nat /\ N - 1 \in 0 .. MaxPages - 1 /\ n <= (N - 1) + 1
      /\ taken \subseteq 1 .. n - 1
  BY DiskSpaceAssumption DEF Sound
<1>2. h \in Content /\ 0 \in Pages
  BY <1>1 DEF Content, Pages
<1>3. f[0] \in Content /\ f[0].first \in Pages
  BY <1>2 DEF Content
<1>4. w = Append(Chain(n, N - 1, f[0].first), To(0, h))
  BY DEF Header
<1> HIDE DEF h
<1>5. /\ w \in Seq(WriteCall) /\ Len(w) = (N - 1) - n + 2
      /\ \A k \in 0 .. Len(w) :
           /\ After(f, SubSeq(w, 1, k))[0] = IF k = Len(w) THEN h ELSE f[0]
           /\ \A p \in Pages \ {0} :
                After(f, SubSeq(w, 1, k))[p] =
                  IF p \in n .. N - 1 /\ p < n + k
                    THEN Link(IF p = n THEN f[0].first ELSE p - 1) ELSE f[p]
  <2>1. Chained(f, w, n, N - 1, f[0].first, h)
    BY <1>1, <1>2, <1>3, <1>4, ChainFile
  <2> QED BY <2>1 DEF Chained
<1>6. Len(w) = N - n + 1 /\ Len(w) \in Nat
  <2> DEFINE l == Len(w)
  <2>1. l = (N - 1) - n + 2
    BY <1>5
  <2> HIDE DEF l
  <2>2. n \in Nat /\ N \in Nat /\ n < N
    BY <1>1
  <2>3. l = N - n + 1 /\ l \in Nat
    BY <2>1, <2>2, ChainLength
  <2> QED BY <2>3 DEF l
<1>7. /\ n \in Nat \ {0} /\ N \in Nat /\ top \in Nat /\ top <= N - 1
       /\ N <= MaxPages /\ MaxPages \in Nat /\ N - 1 < n + Len(w)
  <2>1. n \in Nat \ {0} /\ N \in Nat /\ top \in Nat /\ top <= N - 1
    BY <1>1
  <2>2. N <= MaxPages /\ MaxPages \in Nat
    BY <1>1
  <2>3. N - 1 < n + Len(w)
    <3> DEFINE l == Len(w)
    <3>1. l = N - n + 1
      BY <1>6
    <3> HIDE DEF l
    <3>2. N - 1 < n + l
      BY <2>1, <3>1
    <3> QED BY <3>2 DEF l
  <2> QED BY <2>1, <2>2, <2>3
<1>8. \A p \in 1 .. n - 1 : p \in Pages \ {0} /\ p \notin n .. N - 1
  BY <1>1 DEF Pages
<1>9. ASSUME NEW k \in 0 .. Len(w) - 1 PROVE Sound(After(f, SubSeq(w, 1, k)), taken)
  <2>1. k \in 0 .. Len(w) /\ k # Len(w)
    BY <1>6
  <2> DEFINE g == After(f, SubSeq(w, 1, k))
  <2>2. g[0] = f[0] /\ \A p \in 1 .. n - 1 : g[p] = f[p]
    BY <1>5, <1>8, <2>1
  <2> HIDE DEF g
  <2>3. Sound(g, taken)
    BY <2>2, ListStays
  <2> QED BY <2>3 DEF g
<1>10. ASSUME NEW k \in 0 .. Len(w) PROVE After(f, SubSeq(w, 1, k)) \in [Pages -> Content]
  <2>1. SubSeq(w, 1, k) \in Seq(WriteCall)
    BY <1>5, <1>6
  <2> QED BY <2>1, AfterType
<1>11. SubSeq(w, 1, Len(w)) = w /\ Len(w) \in 0 .. Len(w)
  BY <1>5, <1>6
<1> DEFINE g == After(f, w)
<1>12. /\ g[0] = h
       /\ \A p \in Pages \ {0} :
            g[p] = IF p \in n .. N - 1 /\ p < n + Len(w)
                     THEN Link(IF p = n THEN f[0].first ELSE p - 1) ELSE f[p]
  <2> DEFINE all == SubSeq(w, 1, Len(w))
  <2>1. /\ After(f, all)[0] = h
        /\ \A p \in Pages \ {0} :
             After(f, all)[p] = IF p \in n .. N - 1 /\ p < n + Len(w)
                                  THEN Link(IF p = n THEN f[0].first ELSE p - 1) ELSE f[p]
    BY <1>5, <1>11
  <2>2. all = w
    BY <1>11
  <2> HIDE DEF all
  <2> QED BY <2>1, <2>2
<1>13. g[0] = h
  BY <1>12
<1>14. Grown(f, g, n, top, N)
  <2>1. \A p \in 1 .. n - 1 : g[p] = f[p]
    BY <1>8, <1>12
  <2>2. ASSUME NEW p \in n .. top
        PROVE  g[p].first = IF p = n THEN f[0].first ELSE p - 1
    <3>1. p \in Pages \ {0} /\ p \in n .. N - 1 /\ p < n + Len(w)
      BY <1>1, <1>7 DEF Pages
    <3>2. g[p] = Link(IF p = n THEN f[0].first ELSE p - 1)
      BY <1>12, <3>1
    <3> QED BY <3>2 DEF Link
  <2> HIDE DEF g
  <2> QED BY <1>13, <2>1, <2>2 DEF Grown, h
<1>15. Sound(g, taken \union top + 1 .. N - 1)
  <2>1. top \in Nat /\ top < N
    BY <1>1
  <2> HIDE DEF g
  <2> QED BY <1>14, <2>1, ListGrows
<1> QED BY <1>5, <1>6, <1>9, <1>10, <1>13, <1>15 DEF h, Grows

\* A read and a write double the file, and all new pages are free.
LEMMA DoubledFile ==
  ASSUME NEW f \in [Pages -> Content], NEW taken, Sound(f, taken),
         f[0] \in Headers, 2 * f[0].second <= MaxPages, NEW w, w = DoubleWrites(f[0])
  PROVE  /\ w \in Seq(WriteCall) /\ Doubled(f[0]) \in Headers
         /\ \A k \in 0 .. Len(w) : Sound(After(f, SubSeq(w, 1, k)), taken)
         /\ After(f, w) \in [Pages -> Content]
         /\ After(f, w)[0] = Doubled(f[0])
<1> DEFINE n == f[0].second
           N == 2 * n
           top == 2 * n - 1
<1>1. /\ n \in 1 .. MaxPages /\ MaxPages \in Nat /\ N \in 1 .. MaxPages /\ n < N
      /\ top \in 0 .. N - 1 /\ n - 1 <= top /\ top # n - 1 /\ N - 1 = top
      /\ top + 1 .. N - 1 = {}
  BY DiskSpaceAssumption DEF Headers
<1>2. w = Append(Chain(n, N - 1, f[0].first), Header(top, N))
  BY DEF DoubleWrites, Doubled, Header
<1>3. Doubled(f[0]) = [first |-> top, second |-> N] /\ Doubled(f[0]) \in Headers
  <2>1. top \in Pages
    BY <1>1 DEF Pages
  <2> QED BY <1>1, <2>1 DEF Doubled, Headers
<1> HIDE DEF N, top
<1>4. /\ w \in Seq(WriteCall) /\ Len(w) = N - n + 1
      /\ \A k \in 0 .. Len(w) - 1 : Sound(After(f, SubSeq(w, 1, k)), taken)
      /\ \A k \in 0 .. Len(w) : After(f, SubSeq(w, 1, k)) \in [Pages -> Content]
      /\ Sound(After(f, w), taken \union top + 1 .. N - 1)
      /\ After(f, w)[0] = [first |-> top, second |-> N]
  <2>1. Grows(f, w, taken, n, top, N)
    BY <1>1, <1>2, GrownFile
  <2> QED BY <2>1 DEF Grows
<1>5. taken \union top + 1 .. N - 1 = taken
  BY <1>1
<1>6. SubSeq(w, 1, Len(w)) = w /\ Len(w) \in Nat /\ Len(w) \in 0 .. Len(w)
  BY <1>4
<1>7. ASSUME NEW k \in 0 .. Len(w) PROVE Sound(After(f, SubSeq(w, 1, k)), taken)
  <2>1. CASE k = Len(w)
    BY <1>4, <1>5, <1>6, <2>1
  <2>2. CASE k # Len(w)
    BY <1>4, <1>6, <2>2
  <2> QED BY <2>1, <2>2
<1> QED BY <1>3, <1>4, <1>6, <1>7

\* file_alloc_page extends a file without free pages, and takes the last one.
LEMMA ExtendedFile ==
  ASSUME NEW taken, file \in [Pages -> Content], Sound(file, taken),
         header.first = 0, 2 * header.second <= MaxPages, NEW w, w = ExtendWrites
  PROVE  /\ w \in Seq(WriteCall)
         /\ \A k \in 0 .. Len(w) - 1 : Sound(After(file, SubSeq(w, 1, k)), taken)
         /\ Sound(After(file, w), taken \union {2 * header.second - 1})
<1> DEFINE n == header.second
           N == 2 * n
           top == 2 * n - 2
<1>1. n \in 1 .. MaxPages /\ MaxPages \in Nat
  BY DiskSpaceAssumption DEF Sound, header
<1>2. /\ N \in 1 .. MaxPages /\ n < N /\ top \in 0 .. N - 1 /\ n - 1 <= top
      /\ top = n - 1 => top = 0
      /\ top + 1 .. N - 1 = {2 * n - 1}
  BY <1>1
<1>3. w = Append(Chain(n, N - 1, header.first), Header(top, N))
  BY DEF ExtendWrites
<1> HIDE DEF N, top, n
<1>4. /\ w \in Seq(WriteCall) /\ Len(w) = N - n + 1
      /\ \A k \in 0 .. Len(w) - 1 : Sound(After(file, SubSeq(w, 1, k)), taken)
      /\ Sound(After(file, w), taken \union top + 1 .. N - 1)
  <2>1. n = file[0].second /\ header.first = file[0].first
    BY DEF n, header
  <2>2. Grows(file, w, taken, n, top, N)
    BY <1>2, <1>3, <2>1, GrownFile
  <2> QED BY <2>2 DEF Grows
<1> QED BY <1>2, <1>4 DEF n

\* A new file: nothing is in use, and nothing is lost.
LEMMA CreatedFile ==
  ASSUME NEW f \in [Pages -> Content], NEW w, w = CreateWrites
  PROVE  /\ w \in Seq(WriteCall) /\ Len(w) \in Nat
         /\ Sound(After(f, w), {})
<1> DEFINE h == [first |-> P_NUMBER - 1, second |-> P_NUMBER]
           new == [f EXCEPT ![0] = [first |-> 0, second |-> 1]]
<1>1. /\ MaxPages \in Nat \ {0} /\ P_NUMBER \in 1 .. MaxPages
      /\ 1 \in 1 .. MaxPages /\ P_NUMBER - 1 \in 0 .. MaxPages - 1 /\ 1 <= (P_NUMBER - 1) + 1
  BY DiskSpaceAssumption
<1>2. h \in Content /\ 0 \in Pages
  BY <1>1 DEF Content, Pages
<1>3. w = Append(Chain(1, P_NUMBER - 1, 0), To(0, h))
  BY DEF CreateWrites, Header
<1> HIDE DEF h
<1>4. /\ w \in Seq(WriteCall) /\ Len(w) = (P_NUMBER - 1) - 1 + 2
      /\ \A k \in 0 .. Len(w) :
           /\ After(f, SubSeq(w, 1, k))[0] = IF k = Len(w) THEN h ELSE f[0]
           /\ \A p \in Pages \ {0} :
                After(f, SubSeq(w, 1, k))[p] =
                  IF p \in 1 .. P_NUMBER - 1 /\ p < 1 + k
                    THEN Link(IF p = 1 THEN 0 ELSE p - 1) ELSE f[p]
  <2>1. Chained(f, w, 1, P_NUMBER - 1, 0, h)
    BY <1>1, <1>2, <1>3, ChainFile
  <2> QED BY <2>1 DEF Chained
<1>5. Len(w) = P_NUMBER /\ Len(w) \in 0 .. Len(w) /\ SubSeq(w, 1, Len(w)) = w
  BY <1>1, <1>4
<1> DEFINE g == After(f, w)
<1>6. g[0] = h
  BY <1>4, <1>5
<1>7. ASSUME NEW p \in 1 .. P_NUMBER - 1
      PROVE  g[p].first = IF p = 1 THEN 0 ELSE p - 1
  <2>1. p \in Pages \ {0} /\ p < 1 + Len(w)
    BY <1>1, <1>5 DEF Pages
  <2>2. g[p] = Link(IF p = 1 THEN 0 ELSE p - 1)
    BY <1>4, <1>5, <2>1
  <2> QED BY <2>2 DEF Link
<1>8. new[0] = [first |-> 0, second |-> 1]
  BY <1>2
<1> HIDE DEF g, new
<1>9. Sound(new, {})
  <2>1. /\ << >> \in [1 .. 0 -> {}] /\ new[0].second = 1 /\ new[0].first = 0
        /\ 1 .. new[0].second - 1 = {} /\ 1 .. 0 = {} /\ {} \ {} = {}
    BY <1>8
  <2>2. Lists(<< >>, 0, {}) /\ Linked(new, << >>, 0)
    BY <2>1 DEF Lists, Linked
  <2>3. << >> \in [1 .. 0 -> 1 .. new[0].second - 1 \ {}]
    BY <2>1
  <2>4. Lists(<< >>, 0, 1 .. new[0].second - 1 \ {})
    BY <2>1, <2>2
  <2>5. 0 \in Nat /\ new[0].second \in 1 .. MaxPages /\ {} \subseteq 1 .. new[0].second - 1
    BY <1>1, <2>1
  <2> QED BY <2>2, <2>3, <2>4, <2>5 DEF Sound
<1>10. Grown(new, g, 1, P_NUMBER - 1, P_NUMBER)
  <2>1. new[0].first = 0 /\ 1 .. 1 - 1 = {}
    BY <1>8
  <2>2. g[0].first = P_NUMBER - 1 /\ g[0].second = P_NUMBER
    BY <1>6 DEF h
  <2>3. P_NUMBER - 1 = 1 - 1 => P_NUMBER - 1 = 0
    BY <1>1
  <2> QED BY <1>7, <2>1, <2>2, <2>3 DEF Grown
<1>11. Sound(g, {} \union (P_NUMBER - 1) + 1 .. P_NUMBER - 1)
  <2>1. /\ P_NUMBER - 1 \in Nat /\ 1 - 1 <= P_NUMBER - 1 /\ P_NUMBER - 1 < P_NUMBER
        /\ 1 = new[0].second
    BY <1>1, <1>8
  <2> QED BY <1>1, <1>9, <1>10, <2>1, ListGrows
<1>12. {} \union (P_NUMBER - 1) + 1 .. P_NUMBER - 1 = {}
  BY <1>1
<1> QED BY <1>1, <1>4, <1>5, <1>11, <1>12 DEF g

-----------------------------------------------------------------------------
(* The rounds of file_read_page.                                           *)

\* w is, for each header, what the rounds write until page n is in the file.
Rounds(w, n) ==
  w = [h \in Headers |->
         IF n < h.second THEN << >> ELSE DoubleWrites(h) \o w[Doubled(h)]]

\* A round goes on from a header with more pages.
LEMMA DoubledMore ==
  ASSUME NEW n \in Nat, 2 * n <= MaxPages, NEW h \in Headers, ~(n < h.second)
  PROVE  /\ Doubled(h) \in Headers /\ Doubled(h).second > h.second
         /\ 2 * h.second <= MaxPages
<1>1. MaxPages \in Nat /\ h.second \in 1 .. MaxPages
  BY DiskSpaceAssumption DEF Headers
<1>2. 2 * h.second <= MaxPages /\ 2 * h.second - 1 \in Pages /\ 2 * h.second > h.second
  BY <1>1 DEF Pages
<1>3. 2 * h.second \in 1 .. MaxPages
  BY <1>1, <1>2
<1> HIDE DEF Pages
<1> QED BY <1>2, <1>3 DEF Doubled, Headers

\* The rounds end: from the largest headers down, what they write is defined.
LEMMA RoundsExist ==
  ASSUME NEW n \in Nat, 2 * n <= MaxPages
  PROVE  \E w : Rounds(w, n)
<1> DEFINE Upper(m) == {h \in Headers : h.second + m >= MaxPages}
           Partial(w, m) == w = [h \in Upper(m) |->
             IF n < h.second THEN << >> ELSE DoubleWrites(h) \o w[Doubled(h)]]
           T == {m \in 0 .. MaxPages : ~ \E w : Partial(w, m)}
<1>1. MaxPages \in Nat \ {0} /\ T \subseteq Nat
  BY DiskSpaceAssumption
<1>2. \A h \in Headers : h.second \in 1 .. MaxPages
  BY DEF Headers
<1>3. Partial([h \in Upper(0) |-> << >>], 0)
  <2>1. ASSUME NEW h \in Upper(0) PROVE n < h.second
    BY <1>1, <1>2
  <2> QED BY <2>1
<1>4. ASSUME NEW m \in 1 .. MaxPages, NEW v, Partial(v, m - 1) PROVE \E w : Partial(w, m)
  <2> DEFINE w == [h \in Upper(m) |->
        IF h \in Upper(m - 1) THEN v[h]
        ELSE IF n < h.second THEN << >> ELSE DoubleWrites(h) \o v[Doubled(h)]]
  <2>1. \A h \in Upper(m - 1) : h \in Upper(m)
    BY <1>1, <1>2
  <2>2. ASSUME NEW h \in Upper(m), ~(n < h.second)
        PROVE  Doubled(h) \in Upper(m - 1)
    <3>1. Doubled(h) \in Headers /\ Doubled(h).second > h.second
      BY <2>2, DoubledMore
    <3>2. h.second \in 1 .. MaxPages /\ Doubled(h).second \in 1 .. MaxPages /\ h.second + m >= MaxPages
      BY <1>2, <3>1
    <3>3. Doubled(h).second + (m - 1) >= MaxPages
      BY <1>1, <3>1, <3>2
    <3> QED BY <3>1, <3>3
  <2>3. ASSUME NEW h \in Upper(m - 1)
        PROVE  v[h] = IF n < h.second THEN << >> ELSE DoubleWrites(h) \o v[Doubled(h)]
    BY <1>4
  <2> HIDE DEF Upper
  <2>4. \A h \in Upper(m) :
          w[h] = IF n < h.second THEN << >> ELSE DoubleWrites(h) \o v[Doubled(h)]
    BY <2>3
  <2>5. \A h \in Upper(m) : ~(n < h.second) => w[Doubled(h)] = v[Doubled(h)]
    BY <2>1, <2>2
  <2>6. w = [h \in Upper(m) |-> w[h]]
    OBVIOUS
  <2> HIDE DEF w
  <2>7. \A h \in Upper(m) :
          w[h] = IF n < h.second THEN << >> ELSE DoubleWrites(h) \o w[Doubled(h)]
    BY <2>4, <2>5
  <2>8. Partial(w, m)
    BY <2>6, <2>7
  <2> QED BY <2>8
<1> HIDE DEF Partial
<1>5. T = {}
  <2> SUFFICES ASSUME T # {} PROVE FALSE
    OBVIOUS
  <2>1. PICK m \in T : \A k \in T : m <= k
    BY <1>1, Smallest
  <2>2. m # 0
    BY <1>3
  <2>3. m \in 1 .. MaxPages /\ m - 1 \in 0 .. MaxPages /\ ~(m <= m - 1)
    BY <1>1, <2>2
  <2>4. m - 1 \notin T
    BY <2>1, <2>3
  <2>5. PICK v : Partial(v, m - 1)
    BY <2>3, <2>4
  <2>6. \E w : Partial(w, m)
    BY <1>4, <2>3, <2>5
  <2> QED BY <2>6
<1>6. \E w : Partial(w, MaxPages)
  <2>1. MaxPages \in 0 .. MaxPages
    BY <1>1
  <2> QED BY <1>5, <2>1
<1>7. Upper(MaxPages) = Headers
  BY <1>1, <1>2
<1> QED BY <1>6, <1>7 DEF Partial, Rounds

LEMMA RoundsAre ==
  ASSUME NEW n \in Nat, 2 * n <= MaxPages
  PROVE  \E w : Rounds(w, n) /\ ReadWrites(n) = w[header]
<1> DEFINE W == CHOOSE w : Rounds(w, n)
<1>1. Rounds(W, n)
  BY RoundsExist
<1>2. ReadWrites(n) = W[header]
  BY DEF ReadWrites, Rounds
<1> QED BY <1>1, <1>2

\* Whatever the number of rounds, and wherever they are cut off, the list stays that of
\* the pages which are not taken.
LEMMA RoundsKeepList ==
  ASSUME NEW n \in Nat, 2 * n <= MaxPages, NEW w, Rounds(w, n)
  PROVE  \A f \in [Pages -> Content] : \A taken : Sound(f, taken) /\ f[0] \in Headers =>
           /\ w[f[0]] \in Seq(WriteCall)
           /\ \A k \in 0 .. Len(w[f[0]]) : Sound(After(f, SubSeq(w[f[0]], 1, k)), taken)
<1> DEFINE Kept(h) == \A f \in [Pages -> Content] : \A taken : Sound(f, taken) /\ f[0] = h =>
             /\ w[h] \in Seq(WriteCall)
             /\ \A k \in 0 .. Len(w[h]) : Sound(After(f, SubSeq(w[h], 1, k)), taken)
           T == {m \in 0 .. MaxPages : \E h \in Headers : m = MaxPages - h.second /\ ~Kept(h)}
<1>1. MaxPages \in Nat /\ \A h \in Headers : h.second \in 1 .. MaxPages
  BY DiskSpaceAssumption DEF Headers
<1>2. \A h \in Headers :
        w[h] = IF n < h.second THEN << >> ELSE DoubleWrites(h) \o w[Doubled(h)]
  BY DEF Rounds
<1>3. ASSUME NEW h \in Headers, n < h.second PROVE Kept(h)
  <2>1. w[h] = << >>
    BY <1>2, <1>3
  <2>2. /\ << >> \in Seq(WriteCall) /\ Len(<< >>) = 0 /\ 0 .. 0 = {0}
        /\ SubSeq(<< >>, 1, 0) = << >>
    OBVIOUS
  <2>3. \A f \in [Pages -> Content] : After(f, << >>) = f
    BY AfterNothing
  <2> QED BY <2>1, <2>2, <2>3
<1>4. ASSUME NEW h \in Headers, ~(n < h.second), Kept(Doubled(h)) PROVE Kept(h)
  <2> DEFINE u == DoubleWrites(h)
             v == w[Doubled(h)]
  <2> SUFFICES ASSUME NEW f \in [Pages -> Content], NEW taken, Sound(f, taken), f[0] = h
               PROVE  /\ w[h] \in Seq(WriteCall)
                      /\ \A k \in 0 .. Len(w[h]) : Sound(After(f, SubSeq(w[h], 1, k)), taken)
    OBVIOUS
  <2>1. Doubled(h) \in Headers /\ 2 * h.second <= MaxPages
    BY <1>4, DoubledMore
  <2>2. w[h] = u \o v
    BY <1>2, <1>4
  <2>3. /\ u \in Seq(WriteCall)
        /\ \A k \in 0 .. Len(u) : Sound(After(f, SubSeq(u, 1, k)), taken)
        /\ After(f, u) \in [Pages -> Content]
        /\ After(f, u)[0] = Doubled(h)
    BY <2>1, DoubledFile
  <2> DEFINE g == After(f, u)
  <2>4. SubSeq(u, 1, Len(u)) = u /\ Len(u) \in 0 .. Len(u) /\ Len(u) \in Nat
    BY <2>3
  <2>5. Sound(g, taken)
    BY <2>3, <2>4
  <2>6. /\ v \in Seq(WriteCall)
        /\ \A k \in 0 .. Len(v) : Sound(After(g, SubSeq(v, 1, k)), taken)
    BY <1>4, <2>3, <2>5
  <2> HIDE DEF u, v, g
  <2>7. w[h] \in Seq(WriteCall) /\ Len(w[h]) = Len(u) + Len(v) /\ Len(v) \in Nat
    BY <2>2, <2>3, <2>6
  <2>8. ASSUME NEW k \in 0 .. Len(w[h]) PROVE Sound(After(f, SubSeq(w[h], 1, k)), taken)
    <3>1. CASE k <= Len(u)
      <4>1. SubSeq(u \o v, 1, k) = SubSeq(u, 1, k) /\ k \in 0 .. Len(u)
        BY <2>3, <2>4, <2>6, <2>7, <3>1, SubSeqOfConcat1
      <4> QED BY <2>2, <2>3, <4>1 DEF u
    <3>2. CASE k > Len(u)
      <4> DEFINE j == k - Len(u)
      <4>1. j \in 0 .. Len(v) /\ k = Len(u) + j
        BY <2>4, <2>7, <3>2
      <4> HIDE DEF j
      <4>2. SubSeq(v, 1, j) \in Seq(WriteCall)
        BY <2>6, <2>7, <4>1
      <4>3. SubSeq(u \o v, 1, k) = u \o SubSeq(v, 1, j)
        BY <2>3, <2>4, <2>6, <2>7, <4>1
      <4>4. After(f, u \o SubSeq(v, 1, j)) = After(g, SubSeq(v, 1, j))
        BY <2>3, <4>2, AfterBoth DEF g, u
      <4> QED BY <2>2, <2>6, <4>1, <4>3, <4>4
    <3> QED BY <2>4, <2>7, <3>1, <3>2
  <2> QED BY <2>7, <2>8
<1> HIDE DEF Kept
<1>5. T \subseteq Nat
  BY <1>1
<1>6. T = {}
  <2> SUFFICES ASSUME T # {} PROVE FALSE
    OBVIOUS
  <2>1. PICK m \in T : \A k \in T : m <= k
    BY <1>5, Smallest
  <2>2. PICK h \in Headers : m = MaxPages - h.second /\ ~Kept(h)
    BY <2>1
  <2>3. ~(n < h.second)
    BY <1>3, <2>2
  <2>4. Doubled(h) \in Headers /\ Doubled(h).second > h.second
    BY <2>3, DoubledMore
  <2> DEFINE k == MaxPages - Doubled(h).second
  <2>5. k \in 0 .. MaxPages /\ ~(m <= k)
    BY <1>1, <2>2, <2>4
  <2>6. k \notin T
    BY <2>1, <2>5
  <2>7. Kept(Doubled(h))
    BY <2>4, <2>5, <2>6
  <2> QED BY <1>4, <2>2, <2>3, <2>7
<1>7. ASSUME NEW h \in Headers PROVE Kept(h)
  <2>1. MaxPages - h.second \in 0 .. MaxPages
    BY <1>1
  <2> QED BY <1>6, <2>1
<1> QED BY <1>7 DEF Kept

-----------------------------------------------------------------------------
(* The invariant.                                                          *)

\* A file that exists and was created whole has the list of the pages that are neither
\* in use nor lost, whether the process runs or not.
DiskInv ==
  /\ TypeOK
  /\ ~exists => process = "down" /\ inUse = {} /\ lost = {}
  /\ exists /\ process # "broken" =>
       Sound(file, inUse \union lost) /\ inUse \intersect lost = {}

\* What there is to know of the header of such a file.
LEMMA SoundHeader ==
  ASSUME DiskInv, exists, process # "broken"
  PROVE  /\ file \in [Pages -> Content] /\ 0 \in Pages /\ header \in Content /\ header \in Headers
         /\ Sound(file, inUse \union lost)
         /\ header.second \in 1 .. MaxPages /\ MaxPages \in Nat
         /\ inUse \union lost \subseteq 1 .. header.second - 1
         /\ \A p \in 1 .. header.second - 1 : p \in Pages \ {0}
<1>1. 0 \in Pages /\ MaxPages \in Nat
  BY DiskSpaceAssumption DEF Pages
<1>2. file \in [Pages -> Content] /\ Sound(file, inUse \union lost)
  BY DEF DiskInv, TypeOK
<1>3. header \in Content /\ header.second \in 1 .. MaxPages
      /\ inUse \union lost \subseteq 1 .. header.second - 1
  BY <1>1, <1>2 DEF header, Sound
<1>4. header \in Headers
  BY <1>3 DEF Content, Headers
<1>5. \A p \in 1 .. header.second - 1 : p \in Pages \ {0}
  BY <1>1, <1>3 DEF Pages
<1> QED BY <1>1, <1>2, <1>3, <1>4, <1>5

\* The parts of a sequence of calls.
LEMMA Parts ==
  ASSUME NEW w \in Seq(WriteCall)
  PROVE  /\ Len(w) \in Nat /\ SubSeq(w, 1, Len(w)) = w /\ SubSeq(w, 1, 0) = << >>
         /\ \A k \in 0 .. Len(w) : SubSeq(w, 1, k) \in Seq(WriteCall)
  OBVIOUS

\* What an allocation writes, all of it or a part, and which page it takes.
LEMMA AllocFile ==
  ASSUME DiskInv, exists, MayAlloc, NEW w, w = AllocWrites
  PROVE  /\ w \in Seq(WriteCall)
         /\ AllocPage \in Pages \ {0} /\ AllocPage \notin inUse \union lost
         /\ \A k \in 0 .. Len(w) - 1 : Sound(After(file, SubSeq(w, 1, k)), inUse \union lost)
         /\ Sound(After(file, w), (inUse \union lost) \union {AllocPage})
<1> DEFINE taken == inUse \union lost
<1>1. process # "broken"
  BY DEF MayAlloc
<1>2. /\ file \in [Pages -> Content] /\ 0 \in Pages /\ header \in Content
      /\ Sound(file, taken) /\ header.second \in 1 .. MaxPages /\ MaxPages \in Nat
      /\ taken \subseteq 1 .. header.second - 1
      /\ \A p \in 1 .. header.second - 1 : p \in Pages \ {0}
  BY <1>1, SoundHeader
<1> HIDE DEF taken
<1>3. CASE header.first # 0
  <2> DEFINE top == header.first
             h == [first |-> file[top].first, second |-> header.second]
             g == [file EXCEPT ![0] = h]
  <2>1. top \in Pages /\ top # 0 /\ file[top] \in Content /\ AllocPage = top
    BY <1>2, <1>3 DEF Content, AllocPage
  <2>2. h \in Content /\ w = <<To(0, h)>>
    BY <1>2, <1>3, <2>1 DEF Content, AllocWrites, PopWrites, Header
  <2> HIDE DEF h
  <2>3. w \in Seq(WriteCall) /\ After(file, w) = g
    <3>1. WritesOne(file, <<To(0, h)>>, 0, h)
      BY <1>2, <2>2, OneWrite
    <3> QED BY <2>2, <3>1 DEF WritesOne
  <2>4. g[0] = h /\ \A p \in 1 .. header.second - 1 : g[p] = file[p]
    BY <1>2
  <2> HIDE DEF g
  <2>5. top \in 1 .. header.second - 1 \ taken /\ Sound(g, taken \union {top})
    BY <1>2, <1>3, <2>4, ListPops DEF header, h
  <2>6. Len(w) = 1 /\ 0 .. Len(w) - 1 = {0}
    BY <2>2
  <2>7. After(file, SubSeq(w, 1, 0)) = file
    BY <1>2, <2>3, Parts, AfterNothing
  <2> QED BY <1>2, <2>1, <2>3, <2>5, <2>6, <2>7 DEF taken
<1>4. CASE header.first = 0
  <2>1. 2 * header.second <= MaxPages /\ w = ExtendWrites /\ AllocPage = 2 * header.second - 1
    BY <1>4 DEF MayAlloc, AllocWrites, AllocPage
  <2>2. AllocPage \in Pages \ {0} /\ AllocPage \notin taken
    BY <1>2, <2>1 DEF Pages
  <2>3. /\ w \in Seq(WriteCall)
        /\ \A k \in 0 .. Len(w) - 1 : Sound(After(file, SubSeq(w, 1, k)), taken)
        /\ Sound(After(file, w), taken \union {2 * header.second - 1})
    BY <1>2, <1>4, <2>1, ExtendedFile
  <2> QED BY <2>1, <2>2, <2>3 DEF taken
<1> QED BY <1>3, <1>4

\* What giving a page back writes.
LEMMA FreeFile ==
  ASSUME DiskInv, exists, process # "broken", NEW n \in inUse, NEW w, w = FreeWrites(n)
  PROVE  /\ w \in Seq(WriteCall) /\ Len(w) = 2
         /\ Sound(After(file, w), (inUse \union lost) \ {n})
<1> DEFINE taken == inUse \union lost
           h == [first |-> n, second |-> header.second]
           c == Link(header.first)
           g == [file EXCEPT ![0] = h, ![n] = c]
<1>1. /\ file \in [Pages -> Content] /\ 0 \in Pages /\ header \in Content
      /\ Sound(file, taken) /\ header.second \in 1 .. MaxPages /\ MaxPages \in Nat
      /\ n \in taken /\ n \in Pages \ {0}
      /\ \A p \in 1 .. header.second - 1 : p \in Pages \ {0}
  <2>1. n \in 1 .. header.second - 1
    BY SoundHeader
  <2> QED BY <2>1, SoundHeader
<1> HIDE DEF taken
<1>2. h \in Content /\ c \in Content /\ c.first = header.first
  BY <1>1 DEF Content, Link
<1>3. w = <<To(0, h), To(n, c)>>
  BY DEF FreeWrites, Header
<1> HIDE DEF h, c
<1>4. w \in Seq(WriteCall) /\ After(file, w) = g
  <2>1. file \in [Pages -> Content] /\ 0 \in Pages /\ n \in Pages
    BY <1>1
  <2>2. WritesTwo(file, <<To(0, h), To(n, c)>>, 0, h, n, c)
    BY <1>2, <2>1, TwoWrites
  <2> QED BY <1>3, <2>2 DEF WritesTwo
<1>5. Len(w) = 2
  BY <1>3
<1>6. g[0] = h /\ g[n] = c /\ \A p \in 1 .. header.second - 1 \ {n} : g[p] = file[p]
  BY <1>1
<1> HIDE DEF g
<1>7. /\ g[0].second = file[0].second /\ g[0].first = n /\ g[n].first = file[0].first
      /\ \A p \in 1 .. file[0].second - 1 \ {n} : g[p] = file[p]
  BY <1>2, <1>6 DEF h, header
<1>8. Sound(g, taken \ {n})
  BY <1>1, <1>7, ListPushes
<1> QED BY <1>4, <1>5, <1>8 DEF taken

\* A page that is in use is written to with its parent's number.
LEMMA WriteFile ==
  ASSUME DiskInv, exists, process # "broken", NEW n \in inUse, NEW p \in inUse \union {0},
         NEW w, w = <<To(n, Link(p))>>
  PROVE  w \in Seq(WriteCall) /\ Sound(After(file, w), inUse \union lost)
<1>1. /\ file \in [Pages -> Content] /\ 0 \in Pages /\ Sound(file, inUse \union lost)
      /\ n \in Pages \ {0} /\ p \in Pages /\ MaxPages \in Nat /\ header \in Content
  BY SoundHeader DEF DiskInv, TypeOK
<1> DEFINE c == Link(p)
           g == [file EXCEPT ![n] = c]
<1>2. c \in Content
  BY <1>1 DEF Link, Content
<1> HIDE DEF c
<1>3. w \in Seq(WriteCall) /\ After(file, w) = g
  <2>1. WritesOne(file, <<To(n, c)>>, n, c)
    BY <1>1, <1>2, OneWrite
  <2> QED BY <2>1 DEF c, WritesOne
<1>4. g[0] = file[0] /\ \A q \in 1 .. file[0].second - 1 \ (inUse \union lost) : g[q] = file[q]
  <2>1. \A q \in 1 .. file[0].second - 1 : q \in Pages
    BY SoundHeader DEF header
  <2> QED BY <1>1, <2>1
<1> HIDE DEF g
<1>5. Sound(g, inUse \union lost)
  BY <1>1, <1>4, ListStays
<1> QED BY <1>3, <1>5

\* What a read writes that takes the file as far as page n, all of it or a part.
LEMMA ReadFile ==
  ASSUME DiskInv, exists, process # "broken", NEW n \in Pages, MayReach(n),
         NEW w, w = ReadWrites(n)
  PROVE  /\ w \in Seq(WriteCall)
         /\ \A k \in 0 .. Len(w) : Sound(After(file, SubSeq(w, 1, k)), inUse \union lost)
<1>1. n \in Nat /\ 2 * n <= MaxPages
  BY DiskSpaceAssumption DEF Pages, MayReach
<1>2. PICK v : Rounds(v, n) /\ ReadWrites(n) = v[header]
  BY <1>1, RoundsAre
<1>3. file \in [Pages -> Content] /\ Sound(file, inUse \union lost) /\ file[0] \in Headers
  BY SoundHeader DEF header
<1>4. /\ v[file[0]] \in Seq(WriteCall)
      /\ \A k \in 0 .. Len(v[file[0]]) :
           Sound(After(file, SubSeq(v[file[0]], 1, k)), inUse \union lost)
  BY <1>1, <1>2, <1>3, RoundsKeepList
<1>5. w = v[file[0]]
  BY <1>2 DEF header
<1> QED BY <1>4, <1>5

\* After the operation: the file is whole, its list is that of the pages which are
\* neither in use nor lost afterwards.
LEMMA FileKept ==
  ASSUME file' \in [Pages -> Content], exists' \in BOOLEAN,
         inUse' \subseteq Pages \ {0}, lost' \subseteq Pages \ {0},
         process' \in {"up", "down"}, exists',
         Sound(file', inUse' \union lost'), inUse' \intersect lost' = {}
  PROVE  DiskInv'
  BY DEF DiskInv, TypeOK

\* Of a file that is broken only its words are known.
LEMMA FileBroken ==
  ASSUME file' \in [Pages -> Content], exists' = TRUE,
         inUse' \subseteq Pages \ {0}, lost' \subseteq Pages \ {0}, process' = "broken"
  PROVE  DiskInv'
  BY DEF DiskInv, TypeOK

\* What an operation does when it is killed after k of its writes.
LEMMA KilledType ==
  ASSUME file \in [Pages -> Content], NEW w \in Seq(WriteCall), NEW k \in 0 .. Len(w), Killed(w, k)
  PROVE  file' \in [Pages -> Content]
  BY Parts, AfterType DEF Killed

\* Creating the file, to its end or not.
LEMMA CreateKeeps == ASSUME DiskInv, Create PROVE DiskInv'
<1>1. file \in [Pages -> Content] /\ inUse = {} /\ lost = {} /\ exists' = TRUE
      /\ process' = "up" /\ inUse' = {} /\ lost' = {} /\ file' = After(file, CreateWrites)
  BY DEF DiskInv, TypeOK, Create
<1>2. CreateWrites \in Seq(WriteCall) /\ Sound(file', {})
  BY <1>1, CreatedFile
<1>3. file' \in [Pages -> Content]
  BY <1>1, <1>2, AfterType
<1> QED BY <1>1, <1>2, <1>3, FileKept

LEMMA KilledCreateKeeps == ASSUME DiskInv, KilledCreate PROVE DiskInv'
<1>1. file \in [Pages -> Content] /\ inUse = {} /\ lost = {} /\ exists' = TRUE
      /\ inUse' = {} /\ lost' = {}
  BY DEF DiskInv, TypeOK, KilledCreate
<1>2. PICK k \in 0 .. Len(CreateWrites) :
        /\ Killed(CreateWrites, k)
        /\ process' = IF k = Len(CreateWrites) THEN "down" ELSE "broken"
  BY DEF KilledCreate
<1>3. CreateWrites \in Seq(WriteCall) /\ Sound(After(file, CreateWrites), {})
  BY <1>1, CreatedFile
<1>4. file' \in [Pages -> Content]
  BY <1>1, <1>2, <1>3, KilledType
<1>5. CASE k = Len(CreateWrites)
  <2>1. Sound(file', {}) /\ process' = "down"
    BY <1>2, <1>3, <1>5, Parts DEF Killed
  <2> QED BY <1>1, <1>4, <2>1, FileKept
<1>6. CASE k # Len(CreateWrites)
  BY <1>1, <1>2, <1>4, <1>6, FileBroken
<1> QED BY <1>5, <1>6

\* The operations of a process that runs find a table file.
LEMMA Running ==
  ASSUME DiskInv, process = "up"
  PROVE  /\ exists /\ process # "broken" /\ file \in [Pages -> Content]
         /\ Sound(file, inUse \union lost) /\ inUse \intersect lost = {}
         /\ inUse \subseteq Pages \ {0} /\ lost \subseteq Pages \ {0} /\ exists \in BOOLEAN
  BY DEF DiskInv, TypeOK

\* Allocating a page, to its end or not.
LEMMA AllocKeeps == ASSUME DiskInv, Alloc PROVE DiskInv'
<1>1. /\ process = "up" /\ MayAlloc /\ file' = After(file, AllocWrites)
      /\ inUse' = inUse \union {AllocPage} /\ exists' = exists /\ lost' = lost /\ process' = process
  BY DEF Alloc, MayAlloc
<1>2. /\ AllocWrites \in Seq(WriteCall)
      /\ AllocPage \in Pages \ {0} /\ AllocPage \notin inUse \union lost
      /\ Sound(file', (inUse \union lost) \union {AllocPage})
  BY <1>1, Running, AllocFile
<1>3. file' \in [Pages -> Content]
  BY <1>1, <1>2, Running, AfterType
<1>4. (inUse \union lost) \union {AllocPage} = inUse' \union lost'
  BY <1>1
<1>5. inUse' \intersect lost' = {} /\ inUse' \subseteq Pages \ {0} /\ lost' \subseteq Pages \ {0}
  BY <1>1, <1>2, Running
<1> QED BY <1>1, <1>2, <1>3, <1>4, <1>5, Running, FileKept

LEMMA KilledAllocKeeps == ASSUME DiskInv, KilledAlloc PROVE DiskInv'
<1> DEFINE w == AllocWrites
<1>1. process = "up" /\ MayAlloc /\ process' = "down" /\ exists' = exists /\ inUse' = inUse
  BY DEF KilledAlloc, MayAlloc
<1>2. PICK k \in 0 .. Len(w) :
        Killed(w, k) /\ lost' = IF k = Len(w) THEN lost \union {AllocPage} ELSE lost
  BY DEF KilledAlloc
<1>3. /\ w \in Seq(WriteCall)
      /\ AllocPage \in Pages \ {0} /\ AllocPage \notin inUse \union lost
      /\ \A j \in 0 .. Len(w) - 1 : Sound(After(file, SubSeq(w, 1, j)), inUse \union lost)
      /\ Sound(After(file, w), (inUse \union lost) \union {AllocPage})
  BY <1>1, Running, AllocFile
<1> HIDE DEF w
<1>4. file' \in [Pages -> Content]
  BY <1>1, <1>2, <1>3, Running, KilledType
<1>5. inUse' \intersect lost' = {} /\ inUse' \subseteq Pages \ {0} /\ lost' \subseteq Pages \ {0}
  BY <1>1, <1>2, <1>3, Running
<1>6. Sound(file', inUse' \union lost')
  <2>1. CASE k = Len(w)
    <3>1. file' = After(file, w)
      BY <1>2, <1>3, <2>1, Parts DEF Killed
    <3>2. inUse' \union lost' = (inUse \union lost) \union {AllocPage}
      BY <1>1, <1>2, <2>1
    <3> QED BY <1>3, <3>1, <3>2
  <2>2. CASE k # Len(w)
    <3>1. k \in 0 .. Len(w) - 1
      BY <1>3, <2>2, Parts
    <3> QED BY <1>1, <1>2, <1>3, <2>2, <3>1 DEF Killed
  <2> QED BY <2>1, <2>2
<1> QED BY <1>1, <1>4, <1>5, <1>6, Running, FileKept

\* Giving a page back, to its end or not.
LEMMA FreeKeeps == ASSUME DiskInv, NEW n \in Pages, Free(n) PROVE DiskInv'
<1>1. /\ process = "up" /\ n \in inUse /\ file' = After(file, FreeWrites(n))
      /\ inUse' = inUse \ {n} /\ exists' = exists /\ lost' = lost /\ process' = process
  BY DEF Free
<1>2. FreeWrites(n) \in Seq(WriteCall) /\ Sound(file', (inUse \union lost) \ {n})
  BY <1>1, Running, FreeFile
<1>3. file' \in [Pages -> Content]
  BY <1>1, <1>2, Running, AfterType
<1>4. (inUse \union lost) \ {n} = inUse' \union lost' /\ inUse' \intersect lost' = {}
  BY <1>1, Running
<1> QED BY <1>1, <1>2, <1>3, <1>4, Running, FileKept

LEMMA KilledFreeKeeps == ASSUME DiskInv, NEW n \in Pages, KilledFree(n) PROVE DiskInv'
<1> DEFINE w == FreeWrites(n)
<1>1. process = "up" /\ n \in inUse /\ inUse' = inUse \ {n} /\ exists' = exists
  BY DEF KilledFree
<1>2. PICK k \in 0 .. 2 : /\ Killed(w, k)
                          /\ lost' = IF k = 0 THEN lost \union {n} ELSE lost
                          /\ process' = IF k = 1 THEN "broken" ELSE "down"
  BY DEF KilledFree
<1>3. w \in Seq(WriteCall) /\ Len(w) = 2 /\ Sound(After(file, w), (inUse \union lost) \ {n})
  BY <1>1, Running, FreeFile
<1> HIDE DEF w
<1>4. file' \in [Pages -> Content]
  BY <1>1, <1>2, <1>3, Running, KilledType
<1>5. inUse' \intersect lost' = {} /\ inUse' \subseteq Pages \ {0} /\ lost' \subseteq Pages \ {0}
  BY <1>1, <1>2, Running
<1>6. CASE k = 0
  <2>1. file' = file
    BY <1>2, <1>3, <1>6, Running, <1>1, Parts, AfterNothing DEF Killed
  <2>2. inUse' \union lost' = inUse \union lost
    BY <1>1, <1>2, <1>6
  <2> QED BY <1>1, <1>2, <1>4, <1>5, <1>6, <2>1, <2>2, Running, FileKept
<1>7. CASE k = 1
  BY <1>1, <1>2, <1>4, <1>5, <1>7, Running, FileBroken
<1>8. CASE k = 2
  <2>1. file' = After(file, w)
    BY <1>2, <1>3, <1>8, Parts DEF Killed
  <2>2. inUse' \union lost' = (inUse \union lost) \ {n}
    BY <1>1, <1>2, <1>8, Running
  <2>3. Sound(file', inUse' \union lost')
    BY <1>3, <2>1, <2>2
  <2>4. process' = "down"
    BY <1>2, <1>8
  <2>5. exists'
    BY <1>1, Running
  <2> QED BY <1>4, <1>5, <2>3, <2>4, <2>5, FileKept
<1> QED BY <1>6, <1>7, <1>8

\* Reading a page the file does not reach, and writing.
LEMMA ReadKeeps == ASSUME DiskInv, NEW n \in Pages, Read(n) \/ KilledRead(n) PROVE DiskInv'
<1> DEFINE w == ReadWrites(n)
<1>1. process = "up" /\ MayReach(n) /\ exists' = exists /\ inUse' = inUse /\ lost' = lost
      /\ process' \in {"up", "down"}
  BY DEF Read, KilledRead
<1>2. /\ w \in Seq(WriteCall)
      /\ \A k \in 0 .. Len(w) : Sound(After(file, SubSeq(w, 1, k)), inUse \union lost)
  BY <1>1, Running, ReadFile
<1> HIDE DEF w
<1>3. PICK k \in 0 .. Len(w) : Killed(w, k)
  <2>1. CASE Read(n)
    <3>1. file' = After(file, w) /\ SubSeq(w, 1, Len(w)) = w /\ Len(w) \in 0 .. Len(w)
      BY <1>2, <2>1, Parts DEF Read, w
    <3> QED BY <3>1 DEF Killed
  <2>2. CASE KilledRead(n)
    BY <2>2 DEF KilledRead, w
  <2> QED BY <2>1, <2>2
<1>4. file' \in [Pages -> Content]
  BY <1>1, <1>2, <1>3, Running, KilledType
<1>5. Sound(file', inUse' \union lost')
  BY <1>1, <1>2, <1>3 DEF Killed
<1> QED BY <1>1, <1>4, <1>5, Running, FileKept

LEMMA WriteKeeps == ASSUME DiskInv, NEW n \in Pages, NEW p \in Parent, Write(n, p) PROVE DiskInv'
<1> DEFINE w == <<To(n, Link(p))>>
<1>1. /\ process = "up" /\ n \in inUse /\ p \in inUse \union {0} /\ file' = After(file, w)
      /\ exists' = exists /\ inUse' = inUse /\ lost' = lost /\ process' = process
  BY DEF Write
<1>2. w \in Seq(WriteCall) /\ Sound(After(file, w), inUse \union lost)
  BY <1>1, Running, WriteFile
<1> HIDE DEF w
<1>3. file' \in [Pages -> Content]
  BY <1>1, <1>2, Running, AfterType
<1> QED BY <1>1, <1>2, <1>3, Running, FileKept

LEMMA WriteBeyondKeeps == ASSUME DiskInv, NEW n \in Pages, WriteBeyond(n) PROVE DiskInv'
<1>1. /\ process = "up" /\ 2 * header.second <= MaxPages /\ file' = After(file, DoubleWrites(header))
      /\ exists' = exists /\ inUse' = inUse /\ lost' = lost /\ process' = "broken"
  BY DEF WriteBeyond
<1>2. file \in [Pages -> Content] /\ Sound(file, inUse \union lost) /\ file[0] \in Headers
  BY <1>1, Running, SoundHeader DEF header
<1>3. file' \in [Pages -> Content]
  BY <1>1, <1>2, DoubledFile DEF header
<1> QED BY <1>1, <1>3, Running, FileBroken

\* The invariant holds at first, and every step keeps it.
LEMMA InitDiskInv == Init => DiskInv
<1> SUFFICES ASSUME Init PROVE DiskInv
  OBVIOUS
<1>1. 0 \in Pages /\ 0 \in 0 .. MaxPages
  BY DiskSpaceAssumption DEF Pages
<1>2. [first |-> 0, second |-> 0] \in Content
  BY <1>1 DEF Content
<1> QED BY <1>2 DEF Init, DiskInv, TypeOK

LEMMA NextDiskInv == DiskInv /\ [Next]_vars => DiskInv'
<1> SUFFICES ASSUME DiskInv, [Next]_vars PROVE DiskInv'
  OBVIOUS
<1>1. CASE Create
  BY <1>1, CreateKeeps
<1>2. CASE Open
  BY <1>2 DEF Open, DiskInv, TypeOK
<1>3. CASE Alloc
  BY <1>3, AllocKeeps
<1>4. CASE Close
  BY <1>4, Running DEF Close, DiskInv, TypeOK
<1>5. CASE KilledCreate
  BY <1>5, KilledCreateKeeps
<1>6. CASE KilledAlloc
  BY <1>6, KilledAllocKeeps
<1>7. ASSUME NEW n \in Pages, Free(n) \/ Read(n) \/ WriteBeyond(n) \/ KilledFree(n) \/ KilledRead(n)
      PROVE  DiskInv'
  BY <1>7, FreeKeeps, ReadKeeps, WriteBeyondKeeps, KilledFreeKeeps
<1>8. ASSUME NEW n \in Pages, NEW p \in Parent, Write(n, p) PROVE DiskInv'
  BY <1>8, WriteKeeps
<1>9. CASE UNCHANGED vars
  BY <1>9 DEF vars, DiskInv, TypeOK
<1> QED BY <1>1, <1>2, <1>3, <1>4, <1>5, <1>6, <1>7, <1>8, <1>9 DEF Next

\* Whatever is allocated, freed, read and killed, the file keeps the list of the pages
\* that are neither in use nor lost.
THEOREM DiskInvariant == Spec => []DiskInv
  BY InitDiskInv, NextDiskInv, PTL DEF Spec

\* Type correctness of the disk space manager.
THEOREM DiskTypeCorrect == Spec => []TypeOK
<1>1. DiskInv => TypeOK
  BY DEF DiskInv
<1> QED BY <1>1, DiskInvariant, PTL

-----------------------------------------------------------------------------
(* The list that FreeListExact follows in the file is the one of DiskInv.  *)

\* A list without a page in it twice is no longer than the file.
LEMMA ListFits ==
  ASSUME NEW N \in Nat \ {0}, NEW S, S \subseteq 1 .. N - 1,
         NEW m \in Nat, NEW s, Lists(s, m, S)
  PROVE  m < N
<1>1. s \in Injection(1 .. m, 1 .. N - 1)
  BY DEF Lists, Injection, IsInjective
<1>2. /\ IsFiniteSet(1 .. m) /\ Cardinality(1 .. m) = m
      /\ IsFiniteSet(1 .. N - 1) /\ Cardinality(1 .. N - 1) = N - 1
  BY FS_Interval
<1>3. Cardinality(1 .. m) <= Cardinality(1 .. N - 1)
  BY <1>1, <1>2, FS_Injection
<1> QED BY <1>2, <1>3

ListAt(s, m, k) == IF k < m THEN s[k + 1] ELSE 0

\* One page after the other, FreeAt gives the list, and 0 after its end.
LEMMA FreeAtIs ==
  ASSUME NEW m \in Nat, NEW s, Linked(file, s, m), \A k \in 1 .. m : s[k] # 0
  PROVE  \A k \in 0 .. MaxPages : FreeAt[k] = ListAt(s, m, k)
<1> DEFINE Successor(n) == IF n = 0 THEN 0 ELSE file[n].first
           Follows(w) == w = [k \in 0 .. MaxPages |->
                                IF k = 0 THEN header.first ELSE Successor(w[k - 1])]
           w == [k \in 0 .. MaxPages |-> ListAt(s, m, k)]
<1>1. MaxPages \in Nat
  BY DiskSpaceAssumption
<1>2. ListAt(s, m, 0) = header.first
  BY DEF ListAt, Linked, header
<1>3. ASSUME NEW k \in 0 .. MaxPages, k # 0
      PROVE  ListAt(s, m, k) = Successor(ListAt(s, m, k - 1))
  <2>1. k \in Nat \ {0} /\ k - 1 \in Nat /\ (k - 1) + 1 = k
    BY <1>1, <1>3
  <2>2. CASE k <= m
    <3>1. k \in 1 .. m /\ k - 1 < m
      BY <2>1, <2>2
    <3>2. ListAt(s, m, k - 1) = s[k]
      BY <2>1, <3>1 DEF ListAt
    <3>3. s[k] # 0
      BY <3>1
    <3>4. file[s[k]].first = IF k = m THEN 0 ELSE s[k + 1]
      BY <3>1 DEF Linked
    <3> QED BY <2>1, <2>2, <3>2, <3>3, <3>4 DEF ListAt
  <2>3. CASE m < k
    <3>1. ~(k < m) /\ ~(k - 1 < m)
      BY <2>1, <2>3
    <3> QED BY <3>1 DEF ListAt
  <2> QED BY <2>1, <2>2, <2>3
<1>4. ASSUME NEW k \in 0 .. MaxPages PROVE k # 0 => k - 1 \in 0 .. MaxPages
  BY <1>1
<1> HIDE DEF Successor
<1>5. Follows(w)
  BY <1>2, <1>3, <1>4
<1>6. Follows(FreeAt)
  <2>1. FreeAt = CHOOSE u : Follows(u)
    BY DEF FreeAt, Successor
  <2> HIDE DEF Follows, w
  <2> QED BY <1>5, <2>1
<1>7. /\ FreeAt[0] = header.first
      /\ \A k \in 0 .. MaxPages : k # 0 => FreeAt[k] = Successor(FreeAt[k - 1])
  BY <1>1, <1>6
<1> HIDE DEF w, Follows
<1> DEFINE T == {k \in 0 .. MaxPages : FreeAt[k] # ListAt(s, m, k)}
<1>8. ASSUME T # {} PROVE FALSE
  <2>1. T \subseteq Nat
    BY <1>1
  <2>2. PICK k \in T : \A h \in T : k <= h
    <3> HIDE DEF T
    <3> QED BY <1>8, <2>1, Smallest
  <2>3. k \in 0 .. MaxPages /\ FreeAt[k] # ListAt(s, m, k)
    OBVIOUS
  <2>4. k # 0
    BY <1>2, <1>7, <2>3
  <2>5. k - 1 \notin T
    <3> HIDE DEF T
    <3>1. ~(k <= k - 1)
      BY <1>1, <2>3
    <3> QED BY <2>2, <3>1
  <2>6. FreeAt[k - 1] = ListAt(s, m, k - 1)
    BY <1>4, <2>3, <2>4, <2>5
  <2>7. FreeAt[k] = Successor(FreeAt[k - 1]) /\ ListAt(s, m, k) = Successor(ListAt(s, m, k - 1))
    BY <1>3, <1>7, <2>3, <2>4
  <2> QED BY <2>3, <2>6, <2>7
<1> QED BY <1>8

\* The list that FreeAt follows in a file has the pages that are not taken, and ends.
LEMMA SoundList ==
  ASSUME NEW taken, Sound(file, taken)
  PROVE  FreeAt[MaxPages] = 0 /\ FreePages = 1 .. header.second - 1 \ taken
<1> DEFINE N == header.second
           S == 1 .. N - 1 \ taken
<1>1. N \in 1 .. MaxPages /\ MaxPages \in Nat
  BY DiskSpaceAssumption DEF Sound, header
<1>2. \E m \in Nat : \E s \in [1 .. m -> S] : Lists(s, m, S) /\ Linked(file, s, m)
  BY DEF Sound, header
<1>3. S \subseteq 1 .. N - 1 /\ 0 \notin S
  BY <1>1
<1> HIDE DEF S
<1>4. PICK m \in Nat : \E s \in [1 .. m -> S] : Lists(s, m, S) /\ Linked(file, s, m)
  BY <1>2
<1>5. PICK s \in [1 .. m -> S] : Lists(s, m, S) /\ Linked(file, s, m)
  BY <1>4
<1> HIDE DEF N
<1>6. N \in Nat \ {0} /\ N <= MaxPages
  BY <1>1
<1>7. m < N
  BY <1>3, <1>5, <1>6, ListFits
<1>8. \A k \in 0 .. MaxPages : FreeAt[k] = ListAt(s, m, k)
  <2>1. \A k \in 1 .. m : s[k] # 0
    BY <1>3, <1>5
  <2> QED BY <1>5, <2>1, FreeAtIs
<1>9. FreeAt[MaxPages] = 0
  BY <1>1, <1>6, <1>7, <1>8 DEF ListAt
<1>10. ASSUME NEW p \in S PROVE p \in FreePages
  <2>1. PICK k \in 1 .. m : s[k] = p
    BY <1>5 DEF Lists
  <2>2. k - 1 \in 0 .. MaxPages /\ k - 1 < m /\ (k - 1) + 1 = k
    BY <1>1, <1>6, <1>7
  <2>3. FreeAt[k - 1] = p
    BY <1>8, <2>1, <2>2 DEF ListAt
  <2> QED BY <1>3, <2>2, <2>3 DEF FreePages
<1>11. ASSUME NEW p \in FreePages PROVE p \in S
  <2>1. PICK k \in 0 .. MaxPages : p = FreeAt[k]
    BY DEF FreePages
  <2>2. p # 0
    BY DEF FreePages
  <2>3. k < m /\ p = s[k + 1]
    BY <1>8, <2>1, <2>2 DEF ListAt
  <2>4. k + 1 \in 1 .. m
    BY <1>1, <2>3
  <2> QED BY <1>5, <2>3, <2>4
<1>12. FreePages = S
  BY <1>10, <1>11
<1> QED BY <1>9, <1>12 DEF S, N

\* What the invariant says of the list is what FreeListExact says of the file.
LEMMA DiskInvList == DiskInv => FreeListExact
<1> SUFFICES ASSUME DiskInv, exists, process # "broken"
             PROVE  /\ FreeAt[MaxPages] = 0
                    /\ FreePages = 1 .. header.second - 1 \ (inUse \union lost)
                    /\ inUse \union lost \subseteq 1 .. header.second - 1
                    /\ inUse \intersect lost = {}
  BY DEF FreeListExact
<1>1. Sound(file, inUse \union lost) /\ inUse \intersect lost = {}
  BY DEF DiskInv
<1>2. inUse \union lost \subseteq 1 .. header.second - 1
  BY <1>1 DEF Sound, header
<1> QED BY <1>1, <1>2, SoundList

\* Every page of a table file is in one place: handed out, or on the free list once,
\* or lost in a kill; so file_alloc_page never hands out a page that is in use.
THEOREM FreeListExactHolds == Spec => []FreeListExact
  BY DiskInvList, DiskInvariant, PTL

=============================================================================
