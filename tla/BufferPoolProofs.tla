--------------------------- MODULE BufferPoolProofs ---------------------------
(***************************************************************************)
(* Proofs about the buffer manager, for any number of frames and pages:    *)
(* its invariant and what follows from it, then the number of pins, which  *)
(* is kept whatever the users do, and that the pool implements the page    *)
(* cache.                                                                  *)
(***************************************************************************)
EXTENDS BufferPoolCache, FiniteSetTheorems, Sequences, TLAPS

\* Any set of numbers has a smallest one: the first hit of a walk, the oldest frame
\* that is not pinned.
LEMMA Smallest ==
  ASSUME NEW T, T \subseteq Nat, T # {}
  PROVE  \E k \in T : \A h \in T : k <= h
<1> DEFINE R == OpToRel(<, Nat)
<1>1. \A x, y \in Nat : x < y => <<x, y>> \in R
  BY DEF OpToRel
<1>2. IsWellFoundedOn(R, Nat)
  BY NatLessThanWellFounded
<1> HIDE DEF R
<1>3. PICK k \in T : \A h \in T : <<h, k>> \notin R
  BY <1>2, WFMin
<1>4. \A h \in T : ~(h < k)
  BY <1>1, <1>3
<1>5. \A h \in T : h \in Nat /\ k \in Nat
  OBVIOUS
<1> QED BY <1>3, <1>4, <1>5

\* What holds at the start of a walk and after every step holds all along it.
LEMMA Counting ==
  ASSUME NEW S, 0 \in S, \A n \in Nat : n \in S => n + 1 \in S
  PROVE  Nat \subseteq S
<1> SUFFICES ASSUME Nat \ S # {} PROVE FALSE
  OBVIOUS
<1>1. PICK k \in Nat \ S : \A h \in Nat \ S : k <= h
  BY Smallest
<1>2. k # 0 /\ k - 1 \in Nat
  BY <1>1
<1>3. k - 1 \in S
  BY <1>1, <1>2
<1> QED BY <1>1, <1>2, <1>3

-----------------------------------------------------------------------------
(* Walks.                                                                  *)

\* What a list of n frames is when it is a walk.
Follows(s, step, first, n) ==
  s = [k \in 0 .. n - 1 |-> IF k = 0 THEN first ELSE step[s[k - 1]]]

\* There is one walk from a frame.
LEMMA OneWalk ==
  ASSUME NEW n \in Nat, NEW step, NEW first, NEW s, NEW t,
         Follows(s, step, first, n), Follows(t, step, first, n)
  PROVE  s = t
<1> DEFINE S == {k \in Nat : k \in 0 .. n - 1 => s[k] = t[k]}
<1>1. 0 \in S
  BY DEF Follows
<1>2. ASSUME NEW k \in Nat, k \in S PROVE k + 1 \in S
  <2> SUFFICES ASSUME k + 1 \in 0 .. n - 1 PROVE s[k + 1] = t[k + 1]
    OBVIOUS
  <2>1. k \in 0 .. n - 1 /\ k + 1 # 0 /\ (k + 1) - 1 = k
    OBVIOUS
  <2>2. s[k] = t[k]
    BY <1>2, <2>1
  <2>3. s[k + 1] = step[s[k]] /\ t[k + 1] = step[t[k]]
    BY <2>1 DEF Follows
  <2> QED BY <2>2, <2>3
<1> HIDE DEF S
<1>3. Nat \subseteq S
  BY <1>1, <1>2, Counting
<1>4. \A k \in 0 .. n - 1 : s[k] = t[k]
  BY <1>3 DEF S
<1>5. DOMAIN s = 0 .. n - 1 /\ DOMAIN t = 0 .. n - 1
      /\ s = [k \in DOMAIN s |-> s[k]] /\ t = [k \in DOMAIN t |-> t[k]]
  BY DEF Follows
<1> QED BY <1>4, <1>5

\* A list of frames that is a walk is what Walk computes.
LEMMA WalkIs ==
  ASSUME NEW n \in Nat, NEW step, NEW first, NEW s, Follows(s, step, first, n)
  PROVE  Walk(step, first, n) = s
<1> DEFINE w == CHOOSE at : at = [k \in 0 .. n - 1 |-> IF k = 0 THEN first
                                                       ELSE step[at[k - 1]]]
<1>1. Walk(step, first, n) = w
  BY DEF Walk
<1>2. \E at : at = [k \in 0 .. n - 1 |-> IF k = 0 THEN first ELSE step[at[k - 1]]]
  BY DEF Follows
<1>3. w = [k \in 0 .. n - 1 |-> IF k = 0 THEN first ELSE step[w[k - 1]]]
  BY <1>2
<1>4. Follows(w, step, first, n)
  BY <1>3, Zenon DEF Follows
<1> HIDE DEF w
<1> QED BY <1>1, <1>4, OneWalk

\* A walk whose steps stay among some frames can be made, whatever its shape.
LEMMA WalkStays ==
  ASSUME NEW S, NEW n \in Nat, NEW step \in [S -> S], NEW first \in S
  PROVE  /\ Walk(step, first, n) \in [0 .. n - 1 -> S]
         /\ Follows(Walk(step, first, n), step, first, n)
<1> DEFINE Walks(m) == {s \in [0 .. m - 1 -> S] : Follows(s, step, first, m)}
           T == {m \in Nat : Walks(m) # {}}
<1>1. 0 \in T
  <2> DEFINE s == [k \in 0 .. 0 - 1 |-> first]
  <2>1. s \in [0 .. 0 - 1 -> S] /\ \A k \in 0 .. 0 - 1 : FALSE
    OBVIOUS
  <2>2. Follows(s, step, first, 0)
    BY <2>1 DEF Follows
  <2> QED BY <2>1, <2>2
<1>2. ASSUME NEW m \in Nat, m \in T PROVE m + 1 \in T
  <2>1. PICK s \in [0 .. m - 1 -> S] : Follows(s, step, first, m)
    BY <1>2
  <2> DEFINE last == IF m = 0 THEN first ELSE step[s[m - 1]]
             t == [k \in 0 .. (m + 1) - 1 |-> IF k = m THEN last ELSE s[k]]
  <2>2. last \in S
    BY <2>1
  <2>3. t \in [0 .. (m + 1) - 1 -> S]
    BY <2>1, <2>2
  <2>4. ASSUME NEW k \in 0 .. (m + 1) - 1
        PROVE  t[k] = IF k = 0 THEN first ELSE step[t[k - 1]]
    <3>1. CASE k = m
      BY <3>1
    <3>2. CASE k # m
      <4>1. k \in 0 .. m - 1 /\ t[k] = s[k]
        BY <3>2
      <4>2. s[k] = IF k = 0 THEN first ELSE step[s[k - 1]]
        BY <2>1, <4>1 DEF Follows
      <4>3. k # 0 => t[k - 1] = s[k - 1]
        BY <4>1
      <4> QED BY <4>1, <4>2, <4>3
    <3> QED BY <3>1, <3>2
  <2>5. Follows(t, step, first, m + 1)
    BY <2>4 DEF Follows
  <2> HIDE DEF t
  <2> QED BY <2>3, <2>5
<1> HIDE DEF T
<1>3. Nat \subseteq T
  BY <1>1, <1>2, Counting
<1>4. PICK s \in [0 .. n - 1 -> S] : Follows(s, step, first, n)
  BY <1>3 DEF T
<1>5. Walk(step, first, n) = s
  BY <1>4, WalkIs
<1> QED BY <1>4, <1>5

-----------------------------------------------------------------------------
(* The search for a page.                                                  *)

\* The two walks of the search stay among the frames.
LEMMA SearchStays ==
  ASSUME NEW c \in [Frame -> Block], NEW e \in Frame, NEW n \in Nat
  PROVE  /\ Oldest(c, e, n) \in [0 .. n - 1 -> Frame]
         /\ Newest(c, e, n) \in [0 .. n - 1 -> Frame]
<1>1. /\ [f \in Frame |-> c[f].next] \in [Frame -> Frame]
      /\ [f \in Frame |-> c[f].prev] \in [Frame -> Frame]
      /\ c[e].next \in Frame
  BY DEF Block
<1> QED BY <1>1, WalkStays DEF Oldest, Newest

\* The search ends at a frame with the page, or at -1 when no frame of the two walks
\* has it.
LEMMA Search ==
  ASSUME NEW c, NEW e, NEW n \in Nat, NEW p
  PROVE  LET old == Oldest(c, e, n)
             new == Newest(c, e, n)
             f == FindIndex(c, e, n, p)
         IN \/ /\ f = -1
               /\ \A k \in 0 .. n - 1 : c[old[k]].page # p /\ c[new[k]].page # p
            \/ /\ c[f].page = p
               /\ \E k \in 0 .. n - 1 : f = old[k] \/ f = new[k]
<1> DEFINE old == Oldest(c, e, n)
           new == Newest(c, e, n)
           hits == {k \in 0 .. n - 1 : c[old[k]].page = p \/ c[new[k]].page = p}
           k == CHOOSE h \in hits : \A g \in hits : h <= g
<1>1. FindIndex(c, e, n, p) = IF hits = {} THEN -1
                              ELSE IF c[old[k]].page = p THEN old[k] ELSE new[k]
  BY DEF FindIndex
<1>2. CASE hits = {}
  BY <1>1, <1>2
<1>3. CASE hits # {}
  <2>1. hits \subseteq Nat
    OBVIOUS
  <2>2. \E h \in hits : \A g \in hits : h <= g
    BY <1>3, <2>1, Smallest
  <2>3. k \in hits
    BY <2>2
  <2> HIDE DEF k
  <2> QED BY <1>1, <1>3, <2>3
<1> QED BY <1>2, <1>3

\* The search finds a frame or nothing, whatever the shape of the ring.
LEMMA SearchType ==
  ASSUME NEW c \in [Frame -> Block], NEW e \in Frame, NEW n \in Nat, NEW p
  PROVE  /\ FindIndex(c, e, n, p) \in Frame \union {-1}
         /\ FindIndex(c, e, n, p) # -1 => c[FindIndex(c, e, n, p)].page = p
<1> DEFINE old == Oldest(c, e, n)
           new == Newest(c, e, n)
           f == FindIndex(c, e, n, p)
<1>1. old \in [0 .. n - 1 -> Frame] /\ new \in [0 .. n - 1 -> Frame]
  BY SearchStays
<1>2. \/ f = -1
      \/ c[f].page = p /\ \E k \in 0 .. n - 1 : f = old[k] \/ f = new[k]
  BY Search
<1> HIDE DEF old, new, f
<1>3. f \in Frame \union {-1} /\ (f # -1 => c[f].page = p)
  BY <1>1, <1>2
<1> QED BY <1>3 DEF f

-----------------------------------------------------------------------------
(* The ring in order.                                                      *)

\* In a ring in order s, one walk of the search is s and the other s backwards.
LEMMA WalksInOrder ==
  ASSUME NEW c \in [Frame -> Block], NEW e, NEW n \in 1 .. NumFrames, NEW s,
         InOrder(c, e, n, s)
  PROVE  /\ Oldest(c, e, n) = s
         /\ Newest(c, e, n) = [k \in 0 .. n - 1 |-> s[n - 1 - k]]
<1> DEFINE next == [f \in Frame |-> c[f].next]
           prev == [f \in Frame |-> c[f].prev]
           r == [k \in 0 .. n - 1 |-> s[n - 1 - k]]
<1>1. n \in Nat /\ n > 0 /\ 0 .. n - 1 \subseteq Frame
  BY BufferPoolAssumption DEF Frame
<1>2. s \in [0 .. n - 1 -> 0 .. n - 1] /\ s[n - 1] = e /\ c[e].next = s[0]
  BY DEF InOrder, Lists
<1>3. ASSUME NEW k \in 0 .. n - 1
      PROVE  s[k] = IF k = 0 THEN c[e].next ELSE next[s[k - 1]]
  <2>1. CASE k = 0
    BY <1>2, <2>1
  <2>2. CASE k # 0
    <3>1. k \in 1 .. n - 1 /\ k - 1 \in 0 .. n - 1
      BY <1>1, <2>2
    <3>2. s[k - 1] \in Frame /\ c[s[k - 1]].next = s[k]
      BY <1>1, <1>2, <3>1 DEF InOrder, Lists
    <3> QED BY <2>2, <3>2
  <2> QED BY <2>1, <2>2
<1>4. Follows(s, next, c[e].next, n)
  BY <1>2, <1>3 DEF Follows
<1>5. ASSUME NEW k \in 0 .. n - 1
      PROVE  r[k] = IF k = 0 THEN e ELSE prev[r[k - 1]]
  <2>1. CASE k = 0
    BY <1>1, <1>2, <2>1
  <2>2. CASE k # 0
    <3>1. /\ n - k \in 1 .. n - 1 /\ k - 1 \in 0 .. n - 1
          /\ n - 1 - (k - 1) = n - k /\ (n - k) - 1 = n - 1 - k
      BY <1>1, <2>2
    <3>2. r[k - 1] = s[n - k] /\ r[k] = s[(n - k) - 1]
      BY <3>1
    <3>3. \A j \in 1 .. n - 1 : c[s[j]].prev = s[j - 1]
      BY DEF InOrder, Lists
    <3>4. n - k \in 0 .. n - 1
      BY <3>1
    <3>5. s[n - k] \in Frame
      BY <1>1, <1>2, <3>4
    <3>6. prev[s[n - k]] = s[(n - k) - 1]
      BY <3>1, <3>3, <3>5
    <3> QED BY <2>2, <3>2, <3>6
  <2> QED BY <2>1, <2>2
<1>6. Follows(r, prev, e, n)
  BY <1>5 DEF Follows
<1> HIDE DEF next, prev, r
<1>7. Walk(next, c[e].next, n) = s /\ Walk(prev, e, n) = r
  BY <1>1, <1>4, <1>6, WalkIs
<1> QED BY <1>7 DEF Oldest, Newest, next, prev, r

\* In a ring in order, the search finds exactly the pages the frames hold.
LEMMA SearchInOrder ==
  ASSUME NEW c \in [Frame -> Block], NEW e, NEW n \in 1 .. NumFrames, NEW s,
         InOrder(c, e, n, s), NEW p
  PROVE  /\ FindIndex(c, e, n, p) = -1 => \A f \in 0 .. n - 1 : c[f].page # p
         /\ FindIndex(c, e, n, p) # -1 => /\ FindIndex(c, e, n, p) \in 0 .. n - 1
                                          /\ c[FindIndex(c, e, n, p)].page = p
<1> DEFINE r == [k \in 0 .. n - 1 |-> s[n - 1 - k]]
           f == FindIndex(c, e, n, p)
<1>1. Oldest(c, e, n) = s /\ Newest(c, e, n) = r
  BY WalksInOrder
<1>2. \/ f = -1 /\ \A k \in 0 .. n - 1 : c[s[k]].page # p /\ c[r[k]].page # p
      \/ c[f].page = p /\ \E k \in 0 .. n - 1 : f = s[k] \/ f = r[k]
  BY <1>1, Search
<1>3. /\ s \in [0 .. n - 1 -> 0 .. n - 1] /\ r \in [0 .. n - 1 -> 0 .. n - 1]
      /\ \A g \in 0 .. n - 1 : \E k \in 0 .. n - 1 : s[k] = g
  <2>1. s \in [0 .. n - 1 -> 0 .. n - 1] /\ \A g \in 0 .. n - 1 : \E k \in 0 .. n - 1 : s[k] = g
    BY DEF InOrder, Lists
  <2>2. n \in Nat
    BY BufferPoolAssumption
  <2>3. \A k \in 0 .. n - 1 : n - 1 - k \in 0 .. n - 1
    BY <2>2
  <2> QED BY <2>1, <2>3
<1> HIDE DEF r, f
<1>4. CASE f = -1 /\ \A k \in 0 .. n - 1 : c[s[k]].page # p
  BY <1>3, <1>4 DEF f
<1>5. CASE c[f].page = p /\ \E k \in 0 .. n - 1 : f = s[k] \/ f = r[k]
  <2>1. f \in 0 .. n - 1
    BY <1>3, <1>5
  <2> QED BY <1>5, <2>1 DEF f
<1> QED BY <1>2, <1>4, <1>5

\* When the frames hold different pages, the search finds the frame that holds p.
LEMMA SearchHits ==
  ASSUME NEW c \in [Frame -> Block], NEW e, NEW n \in 1 .. NumFrames, NEW s,
         InOrder(c, e, n, s), NEW f \in 0 .. n - 1,
         \A g, h \in 0 .. n - 1 : c[g].page = c[h].page => g = h
  PROVE  FindIndex(c, e, n, c[f].page) = f
BY SearchInOrder

\* In a ring in order, next and prev undo each other.
LEMMA BothWays ==
  ASSUME NEW c, NEW e, NEW n \in Nat \ {0}, NEW s, InOrder(c, e, n, s),
         NEW f \in 0 .. n - 1
  PROVE  /\ c[f].next \in 0 .. n - 1 /\ c[f].prev \in 0 .. n - 1
         /\ c[c[f].next].prev = f /\ c[c[f].prev].next = f
<1>1. s \in [0 .. n - 1 -> 0 .. n - 1] /\ s[n - 1] = e /\ c[e].next = s[0] /\ c[s[0]].prev = e
  BY DEF InOrder, Lists
<1>2. PICK k \in 0 .. n - 1 : s[k] = f
  BY DEF InOrder, Lists
<1>3. /\ c[f].next \in 0 .. n - 1 /\ c[c[f].next].prev = f
  <2>1. CASE k = n - 1
    BY <1>1, <1>2, <2>1
  <2>2. CASE k # n - 1
    <3>1. k + 1 \in 1 .. n - 1 /\ (k + 1) - 1 = k
      BY <2>2
    <3>2. c[s[k]].next = s[k + 1] /\ c[s[k + 1]].prev = s[k]
      BY <3>1 DEF InOrder, Lists
    <3> QED BY <1>1, <1>2, <3>1, <3>2
  <2> QED BY <2>1, <2>2
<1>4. /\ c[f].prev \in 0 .. n - 1 /\ c[c[f].prev].next = f
  <2>1. CASE k = 0
    BY <1>1, <1>2, <2>1
  <2>2. CASE k # 0
    <3>1. k \in 1 .. n - 1
      BY <2>2
    <3>2. c[s[k - 1]].next = s[k] /\ c[s[k]].prev = s[k - 1]
      BY <3>1 DEF InOrder, Lists
    <3> QED BY <1>1, <1>2, <3>1, <3>2
  <2> QED BY <2>1, <2>2
<1> QED BY <1>3, <1>4

\* Nothing but next and prev makes the order.
LEMMA SamePointers ==
  ASSUME NEW c, NEW d, NEW e, NEW n \in Nat \ {0}, NEW s, InOrder(c, e, n, s),
         \A f \in 0 .. n - 1 : d[f].next = c[f].next /\ d[f].prev = c[f].prev
  PROVE  InOrder(d, e, n, s)
<1>1. s \in [0 .. n - 1 -> 0 .. n - 1] /\ e \in 0 .. n - 1 /\ s[0] \in 0 .. n - 1
  <2>1. 0 \in 0 .. n - 1 /\ n - 1 \in 0 .. n - 1
    OBVIOUS
  <2>2. s \in [0 .. n - 1 -> 0 .. n - 1] /\ s[n - 1] = e
    BY DEF InOrder, Lists
  <2> QED BY <2>1, <2>2
<1>2. ASSUME NEW k \in 1 .. n - 1
      PROVE  d[s[k - 1]].next = s[k] /\ d[s[k]].prev = s[k - 1]
  <2>1. k \in 0 .. n - 1 /\ k - 1 \in 0 .. n - 1
    OBVIOUS
  <2>2. s[k] \in 0 .. n - 1 /\ s[k - 1] \in 0 .. n - 1
    BY <1>1, <2>1
  <2> QED BY <2>2 DEF InOrder, Lists
<1> QED BY <1>1, <1>2 DEF InOrder, Lists

-----------------------------------------------------------------------------
(* The ring relinked.                                                      *)

\* Two control blocks that differ in their place in the ring only.
SameContent(b, d) == /\ d.page = b.page /\ d.data = b.data
                     /\ d.dirty = b.dirty /\ d.pins = b.pins

\* The next of one frame changed.
LEMMA SetNext ==
  ASSUME NEW c \in [Frame -> Block], NEW x \in Frame, NEW y \in Frame
  PROVE  LET d == [c EXCEPT ![x].next = y]
         IN /\ d \in [Frame -> Block]
            /\ \A g \in Frame : /\ SameContent(c[g], d[g])
                                /\ d[g].next = IF g = x THEN y ELSE c[g].next
                                /\ d[g].prev = c[g].prev
BY DEF Block, SameContent

\* The prev of one frame changed.
LEMMA SetPrev ==
  ASSUME NEW c \in [Frame -> Block], NEW x \in Frame, NEW y \in Frame
  PROVE  LET d == [c EXCEPT ![x].prev = y]
         IN /\ d \in [Frame -> Block]
            /\ \A g \in Frame : /\ SameContent(c[g], d[g])
                                /\ d[g].prev = IF g = x THEN y ELSE c[g].prev
                                /\ d[g].next = c[g].next
BY DEF Block, SameContent

\* What Relink leaves in every frame, also when frames coincide.
LEMMA RelinkFields ==
  ASSUME NEW c \in [Frame -> Block], NEW e \in Frame, NEW f \in Frame
  PROVE  LET d == Relink(c, e, f)
             p == c[f].prev
             q == c[f].next
             m == IF e = p THEN q ELSE c[e].next
         IN /\ d \in [Frame -> Block]
            /\ \A g \in Frame :
                 /\ SameContent(c[g], d[g])
                 /\ d[g].next = IF g = f THEN m ELSE IF g = e THEN f
                                ELSE IF g = p THEN q ELSE c[g].next
                 /\ d[g].prev = IF g = f THEN e ELSE IF g = m THEN f
                                ELSE IF g = q THEN p ELSE c[g].prev
<1> DEFINE p == c[f].prev
           q == c[f].next
           o1 == [c EXCEPT ![p].next = q]
           out == [o1 EXCEPT ![q].prev = p]
           m == out[e].next
           i1 == [out EXCEPT ![e].next = f]
           in == [i1 EXCEPT ![m].prev = f]
           i3 == [in EXCEPT ![f].next = m]
           d == [i3 EXCEPT ![f].prev = e]
<1>1. Relink(c, e, f) = d
  BY DEF Relink
<1>2. p \in Frame /\ q \in Frame
  BY DEF Block
<1> HIDE DEF p, q
<1>3. /\ o1 \in [Frame -> Block]
      /\ \A g \in Frame : /\ SameContent(c[g], o1[g])
                          /\ o1[g].next = IF g = p THEN q ELSE c[g].next
                          /\ o1[g].prev = c[g].prev
  BY <1>2, SetNext
<1> HIDE DEF o1
<1>4. /\ out \in [Frame -> Block]
      /\ \A g \in Frame : /\ SameContent(o1[g], out[g])
                          /\ out[g].prev = IF g = q THEN p ELSE o1[g].prev
                          /\ out[g].next = o1[g].next
  BY <1>2, <1>3, SetPrev
<1> HIDE DEF out
<1>5. m \in Frame /\ m = IF e = p THEN q ELSE c[e].next
  BY <1>3, <1>4 DEF Block
<1> HIDE DEF m
<1>6. /\ i1 \in [Frame -> Block]
      /\ \A g \in Frame : /\ SameContent(out[g], i1[g])
                          /\ i1[g].next = IF g = e THEN f ELSE out[g].next
                          /\ i1[g].prev = out[g].prev
  BY <1>4, SetNext, SMTT(30)
<1> HIDE DEF i1
<1>7. /\ in \in [Frame -> Block]
      /\ \A g \in Frame : /\ SameContent(i1[g], in[g])
                          /\ in[g].prev = IF g = m THEN f ELSE i1[g].prev
                          /\ in[g].next = i1[g].next
  BY <1>5, <1>6, SetPrev, SMTT(30)
<1> HIDE DEF in
<1>8. /\ i3 \in [Frame -> Block]
      /\ \A g \in Frame : /\ SameContent(in[g], i3[g])
                          /\ i3[g].next = IF g = f THEN m ELSE in[g].next
                          /\ i3[g].prev = in[g].prev
  BY <1>5, <1>7, SetNext
<1> HIDE DEF i3
<1>9. /\ d \in [Frame -> Block]
      /\ \A g \in Frame : /\ SameContent(i3[g], d[g])
                          /\ d[g].prev = IF g = f THEN e ELSE i3[g].prev
                          /\ d[g].next = i3[g].next
  BY <1>8, SetPrev
<1> HIDE DEF d
<1>10. ASSUME NEW g \in Frame
      PROVE  /\ SameContent(c[g], d[g])
             /\ d[g].next = IF g = f THEN m ELSE IF g = e THEN f
                            ELSE IF g = p THEN q ELSE c[g].next
             /\ d[g].prev = IF g = f THEN e ELSE IF g = m THEN f
                            ELSE IF g = q THEN p ELSE c[g].prev
  <2>1. SameContent(c[g], d[g])
    BY <1>3, <1>4, <1>6, <1>7, <1>8, <1>9 DEF SameContent
  <2> QED BY <1>3, <1>4, <1>6, <1>7, <1>8, <1>9, <2>1
<1> QED BY <1>1, <1>5, <1>9, <1>10 DEF p, q


\* Where the list with position j moved to the end takes its k-th element from.
From(k, n, j) == IF k < j THEN k ELSE IF k < n - 1 THEN k + 1 ELSE j

\* Moving a position to the end is one-to-one.
LEMMA FromOnce ==
  ASSUME NEW n \in Nat \ {0}, NEW j \in 0 .. n - 1
  PROVE  /\ \A k \in 0 .. n - 1 : From(k, n, j) \in 0 .. n - 1
         /\ \A i \in 0 .. n - 1 : \E k \in 0 .. n - 1 : From(k, n, j) = i
         /\ \A a, b \in 0 .. n - 1 : From(a, n, j) = From(b, n, j) => a = b
<1>1. \A k \in 0 .. n - 1 : From(k, n, j) \in 0 .. n - 1
  BY DEF From
<1>2. ASSUME NEW i \in 0 .. n - 1 PROVE \E k \in 0 .. n - 1 : From(k, n, j) = i
  <2>1. CASE i < j
    <3>1. From(i, n, j) = i
      BY <2>1 DEF From
    <3> QED BY <3>1
  <2>2. CASE i = j
    <3>1. From(n - 1, n, j) = i /\ n - 1 \in 0 .. n - 1
      BY <2>2 DEF From
    <3> QED BY <3>1
  <2>3. CASE i > j
    <3>1. From(i - 1, n, j) = i /\ i - 1 \in 0 .. n - 1
      BY <2>3 DEF From
    <3> QED BY <3>1
  <2> QED BY <2>1, <2>2, <2>3
<1>3. \A a, b \in 0 .. n - 1 : From(a, n, j) = From(b, n, j) => a = b
  BY DEF From
<1> QED BY <1>1, <1>2, <1>3

\* The list s with the frame at position j taken out and put at the end.
Moved(s, n, j) == [k \in 0 .. n - 1 |-> s[From(k, n, j)]]

\* A list of all frames is still one when a frame is moved to its end.
LEMMA MovedList ==
  ASSUME NEW n \in Nat \ {0}, NEW s, Lists(s, n), NEW j \in 0 .. n - 1
  PROVE  Lists(Moved(s, n, j), n)
<1> DEFINE t == Moved(s, n, j)
<1>1. \A k \in 0 .. n - 1 : From(k, n, j) \in 0 .. n - 1
  BY FromOnce
<1>2. s \in [0 .. n - 1 -> 0 .. n - 1]
  BY DEF Lists
<1>3. t \in [0 .. n - 1 -> 0 .. n - 1] /\ \A k \in 0 .. n - 1 : t[k] = s[From(k, n, j)]
  BY <1>1, <1>2 DEF Moved
<1> HIDE DEF t
<1>4. ASSUME NEW f \in 0 .. n - 1 PROVE \E k \in 0 .. n - 1 : t[k] = f
  <2>1. PICK i \in 0 .. n - 1 : s[i] = f
    BY DEF Lists
  <2>2. PICK k \in 0 .. n - 1 : From(k, n, j) = i
    BY FromOnce
  <2> QED BY <1>3, <2>1, <2>2
<1>5. ASSUME NEW a \in 0 .. n - 1, NEW b \in 0 .. n - 1, t[a] = t[b] PROVE a = b
  <2>1. s[From(a, n, j)] = s[From(b, n, j)]
    BY <1>3, <1>5
  <2>2. From(a, n, j) = From(b, n, j)
    BY <1>1, <2>1 DEF Lists
  <2> QED BY <2>2, FromOnce
<1> QED BY <1>3, <1>4, <1>5 DEF Lists, t

\* A frame that is not the one used last becomes the one used last, and the others
\* keep their order.
LEMMA RelinkOrder ==
  ASSUME NEW c \in [Frame -> Block], NEW e, NEW n \in 1 .. NumFrames, NEW s,
         InOrder(c, e, n, s), NEW j \in 0 .. n - 1, s[j] # e
  PROVE  InOrder(Relink(c, e, s[j]), s[j], n, Moved(s, n, j))
<1> DEFINE f == s[j]
           d == Relink(c, e, f)
           t == Moved(s, n, j)
           p == c[f].prev
           q == c[f].next
           m == IF e = p THEN q ELSE c[e].next
<1>1. n \in Nat \ {0} /\ 0 .. n - 1 \subseteq Frame
  BY BufferPoolAssumption DEF Frame
<1>2. s \in [0 .. n - 1 -> 0 .. n - 1] /\ \A a, b \in 0 .. n - 1 : s[a] = s[b] => a = b
  BY DEF InOrder, Lists
<1>3. s[n - 1] = e /\ c[e].next = s[0] /\ c[s[0]].prev = e
  BY DEF InOrder
<1>4. \A k \in 1 .. n - 1 : c[s[k - 1]].next = s[k] /\ c[s[k]].prev = s[k - 1]
  BY DEF InOrder
<1>5. j \in 0 .. n - 2 /\ n - 1 \in 0 .. n - 1 /\ j + 1 \in 1 .. n - 1 /\ j + 1 \in 0 .. n - 1 /\ 0 \in 0 .. n - 1
  BY <1>1, <1>3
<1>6. f \in Frame /\ e \in Frame /\ f # e
  BY <1>1, <1>2, <1>3, <1>5
<1>7. q = s[j + 1]
  BY <1>4, <1>5
<1>8. p = IF j = 0 THEN e ELSE s[j - 1]
  BY <1>1, <1>3, <1>4, <1>5
<1>9. e = p <=> j = 0
  <2>1. CASE j = 0
    BY <1>8, <2>1
  <2>2. CASE j # 0
    <3>1. j - 1 \in 0 .. n - 1 /\ j - 1 # n - 1
      BY <1>1, <1>5, <2>2
    <3>2. s[j - 1] # s[n - 1]
      BY <1>2, <1>5, <3>1
    <3> QED BY <1>3, <1>8, <2>2, <3>2
  <2> QED BY <2>1, <2>2
<1>10. m = IF j = 0 THEN s[1] ELSE s[0]
  BY <1>3, <1>7, <1>9
<1>11. \A g \in Frame :
         /\ d[g].next = IF g = f THEN m ELSE IF g = e THEN f
                        ELSE IF g = p THEN q ELSE c[g].next
         /\ d[g].prev = IF g = f THEN e ELSE IF g = m THEN f
                        ELSE IF g = q THEN p ELSE c[g].prev
  BY <1>6, RelinkFields
<1>12. Lists(t, n)
  BY <1>1, MovedList DEF InOrder
<1>13. \A k \in 0 .. n - 1 : t[k] = IF k < j THEN s[k] ELSE IF k < n - 1 THEN s[k + 1] ELSE f
  BY <1>1 DEF Moved, From
<1> HIDE DEF d, t, p, q, m, f
<1>14. t[n - 1] = f /\ t[0] = m
  BY <1>1, <1>5, <1>10, <1>13
<1>15. m # f /\ m \in Frame
  BY <1>1, <1>2, <1>5, <1>10, SMTT(30) DEF f
<1>16. d[f].next = t[0] /\ d[t[0]].prev = f
  BY <1>6, <1>11, <1>14, <1>15
<1>17. ASSUME NEW k \in 1 .. n - 1
       PROVE  d[t[k - 1]].next = t[k] /\ d[t[k]].prev = t[k - 1]
  <2>1. k \in 0 .. n - 1 /\ k - 1 \in 0 .. n - 1 /\ k # 0
    BY <1>1
  <2>2. CASE k = n - 1
    <3>1. t[k] = f /\ t[k - 1] = e
      BY <1>1, <1>3, <1>5, <1>13, <2>1, <2>2
    <3> QED BY <1>6, <1>11, <3>1
  <2>3. CASE k < j
    <3>1. t[k] = s[k] /\ t[k - 1] = s[k - 1]
      BY <1>1, <1>5, <1>13, <2>1, <2>3
    <3>2. s[k - 1] \notin {f, e, p} /\ s[k] \notin {f, m, q}
      <4>1. j - 1 \in 0 .. n - 1 /\ k - 1 # j - 1 /\ j # 0 /\ k # j + 1 /\ k - 1 # n - 1 /\ k - 1 # j
        BY <1>1, <1>5, <2>1, <2>3
      <4> QED BY <1>2, <1>3, <1>5, <1>7, <1>8, <1>10, <2>1, <2>3, <4>1 DEF f
    <3>3. s[k - 1] \in Frame /\ s[k] \in Frame
      BY <1>1, <1>2, <2>1
    <3> QED BY <1>4, <1>11, <3>1, <3>2, <3>3
  <2>4. CASE k = j
    <3>1. t[k] = q /\ t[k - 1] = p
      BY <1>1, <1>5, <1>7, <1>8, <1>13, <2>1, <2>4
    <3>2. p \notin {f, e} /\ q \notin {f, m}
      <4>1. j - 1 \in 0 .. n - 1 /\ j - 1 # j /\ j + 1 # 0 /\ j # 0 /\ j + 1 # j
        BY <1>1, <1>5, <2>1, <2>4
      <4> QED BY <1>2, <1>5, <1>7, <1>8, <1>9, <1>10, <4>1 DEF f
    <3>3. p \in Frame /\ q \in Frame
      BY <1>1, <1>2, <1>5, <1>7, <1>8, <1>6, <2>1, <2>4
    <3> QED BY <1>11, <3>1, <3>2, <3>3
  <2>5. CASE k > j /\ k < n - 1
    <3>1. t[k] = s[k + 1] /\ t[k - 1] = s[k]
      BY <1>1, <1>5, <1>13, <2>1, <2>5
    <3>2. k + 1 \in 1 .. n - 1 /\ k + 1 \in 0 .. n - 1 /\ (k + 1) - 1 = k
      BY <1>1, <2>1, <2>5
    <3>3. s[k] \notin {f, e, p} /\ s[k + 1] \notin {f, m, q}
      <4>1. /\ k # j /\ k # n - 1 /\ k + 1 # j /\ k + 1 # j + 1 /\ k + 1 # 0 /\ (j = 0 => k + 1 # 1)
            /\ (j # 0 => j - 1 \in 0 .. n - 1 /\ k # j - 1)
        BY <1>1, <1>5, <2>1, <2>5
      <4>2. s[k] # f /\ s[k] # e /\ s[k + 1] # f /\ s[k + 1] # q
        BY <1>2, <1>3, <1>5, <1>7, <2>1, <3>2, <4>1 DEF f
      <4>3. s[k] # p
        BY <1>2, <1>5, <1>8, <2>1, <4>1, <4>2
      <4>4. 1 \in 0 .. n - 1
        BY <1>1, <1>5
      <4>5. s[k + 1] # m
        BY <1>2, <1>5, <1>10, <3>2, <4>1, <4>4
      <4> QED BY <4>2, <4>3, <4>5
    <3>4. s[k] \in Frame /\ s[k + 1] \in Frame
      BY <1>1, <1>2, <2>1, <3>2
    <3>5. c[s[k]].next = s[k + 1] /\ c[s[k + 1]].prev = s[k]
      BY <1>4, <3>2
    <3> QED BY <1>11, <3>1, <3>3, <3>4, <3>5
  <2> QED BY <1>1, <1>5, <2>2, <2>3, <2>4, <2>5
<1> QED BY <1>12, <1>14, <1>16, <1>17 DEF InOrder, d, t, f

\* What LinkNew leaves in every frame.
LEMMA LinkFields ==
  ASSUME NEW c \in [Frame -> Block], NEW e \in Frame, NEW f \in Frame
  PROVE  LET d == LinkNew(c, e, f)
             q == c[e].next
         IN /\ d \in [Frame -> Block]
            /\ \A g \in Frame :
                 /\ SameContent(c[g], d[g])
                 /\ d[g].next = IF g = e THEN f ELSE IF g = f THEN q ELSE c[g].next
                 /\ d[g].prev = IF g = q THEN f ELSE IF g = f THEN e ELSE c[g].prev
<1> DEFINE q == c[e].next
           d1 == [c EXCEPT ![f].next = q]
           d2 == [d1 EXCEPT ![f].prev = e]
           d3 == [d2 EXCEPT ![e].next = f]
           d == [d3 EXCEPT ![q].prev = f]
<1>1. LinkNew(c, e, f) = d
  BY DEF LinkNew
<1>2. q \in Frame
  BY DEF Block
<1> HIDE DEF q
<1>3. /\ d1 \in [Frame -> Block]
      /\ \A g \in Frame : /\ SameContent(c[g], d1[g])
                          /\ d1[g].next = IF g = f THEN q ELSE c[g].next
                          /\ d1[g].prev = c[g].prev
  BY <1>2, SetNext
<1> HIDE DEF d1
<1>4. /\ d2 \in [Frame -> Block]
      /\ \A g \in Frame : /\ SameContent(d1[g], d2[g])
                          /\ d2[g].prev = IF g = f THEN e ELSE d1[g].prev
                          /\ d2[g].next = d1[g].next
  <2>1. d1 \in [Frame -> Block]
    BY <1>3
  <2> QED BY <2>1, SetPrev
<1> HIDE DEF d2
<1>5. /\ d3 \in [Frame -> Block]
      /\ \A g \in Frame : /\ SameContent(d2[g], d3[g])
                          /\ d3[g].next = IF g = e THEN f ELSE d2[g].next
                          /\ d3[g].prev = d2[g].prev
  BY <1>4, SetNext
<1> HIDE DEF d3
<1>6. /\ d \in [Frame -> Block]
      /\ \A g \in Frame : /\ SameContent(d3[g], d[g])
                          /\ d[g].prev = IF g = q THEN f ELSE d3[g].prev
                          /\ d[g].next = d3[g].next
  BY <1>2, <1>5, SetPrev, SMTT(30)
<1> HIDE DEF d
<1>7. ASSUME NEW g \in Frame
      PROVE  /\ SameContent(c[g], d[g])
             /\ d[g].next = IF g = e THEN f ELSE IF g = f THEN q ELSE c[g].next
             /\ d[g].prev = IF g = q THEN f ELSE IF g = f THEN e ELSE c[g].prev
  <2>1. SameContent(c[g], d[g])
    BY <1>3, <1>4, <1>5, <1>6 DEF SameContent
  <2> QED BY <1>3, <1>4, <1>5, <1>6, <2>1
<1> QED BY <1>1, <1>6, <1>7 DEF q

\* The list s with one more frame, n, at its end.
Added(s, n) == [k \in 0 .. n |-> IF k < n THEN s[k] ELSE n]

\* A list of the frames and the next one is a list of one frame more.
LEMMA AddedList ==
  ASSUME NEW n \in Nat, NEW s, Lists(s, n)
  PROVE  Lists(Added(s, n), n + 1)
<1> DEFINE t == Added(s, n)
<1>1. s \in [0 .. n - 1 -> 0 .. n - 1] /\ \A a, b \in 0 .. n - 1 : s[a] = s[b] => a = b
  BY DEF Lists
<1>2. \A k \in 0 .. n : t[k] = IF k < n THEN s[k] ELSE n
  BY DEF Added
<1>3. t \in [0 .. (n + 1) - 1 -> 0 .. (n + 1) - 1]
  BY <1>1 DEF Added
<1> HIDE DEF t
<1>4. ASSUME NEW f \in 0 .. (n + 1) - 1 PROVE \E k \in 0 .. (n + 1) - 1 : t[k] = f
  <2>1. CASE f = n
    <3>1. n \in 0 .. (n + 1) - 1 /\ t[n] = n
      BY <1>2
    <3> QED BY <2>1, <3>1
  <2>2. CASE f # n
    <3>1. f \in 0 .. n - 1
      BY <2>2
    <3>2. PICK k \in 0 .. n - 1 : s[k] = f
      BY <3>1 DEF Lists
    <3>3. k \in 0 .. (n + 1) - 1 /\ t[k] = s[k]
      BY <1>2
    <3> QED BY <3>2, <3>3
  <2> QED BY <2>1, <2>2
<1>5. ASSUME NEW a \in 0 .. (n + 1) - 1, NEW b \in 0 .. (n + 1) - 1, t[a] = t[b] PROVE a = b
  <2>1. /\ a = n \/ (a \in 0 .. n - 1 /\ t[a] = s[a] /\ s[a] \in 0 .. n - 1)
        /\ b = n \/ (b \in 0 .. n - 1 /\ t[b] = s[b] /\ s[b] \in 0 .. n - 1)
        /\ t[n] = n /\ n \notin 0 .. n - 1
    BY <1>1, <1>2
  <2> QED BY <1>1, <1>5, <2>1
<1> QED BY <1>3, <1>4, <1>5 DEF Lists, t

\* A frame not used before becomes the one used last.
LEMMA LinkOrder ==
  ASSUME NEW c \in [Frame -> Block], NEW e, NEW n \in 1 .. NumFrames - 1, NEW s,
         InOrder(c, e, n, s)
  PROVE  InOrder(LinkNew(c, e, n), n, n + 1, Added(s, n))
<1> DEFINE d == LinkNew(c, e, n)
           t == Added(s, n)
           q == c[e].next
<1>1. n \in Nat \ {0} /\ 0 .. n - 1 \subseteq Frame /\ n \in Frame /\ n \notin 0 .. n - 1
      /\ n - 1 \in 0 .. n - 1 /\ 0 \in 0 .. n - 1
  BY BufferPoolAssumption DEF Frame
<1>2. s \in [0 .. n - 1 -> 0 .. n - 1] /\ \A a, b \in 0 .. n - 1 : s[a] = s[b] => a = b
  BY DEF InOrder, Lists
<1>3. s[n - 1] = e /\ q = s[0] /\ c[s[0]].prev = e
  BY DEF InOrder
<1>4. \A k \in 1 .. n - 1 : c[s[k - 1]].next = s[k] /\ c[s[k]].prev = s[k - 1]
  BY DEF InOrder
<1>5. e \in Frame /\ e # n /\ q \in Frame /\ q # n
  BY <1>1, <1>2, <1>3
<1>6. \A g \in Frame :
        /\ d[g].next = IF g = e THEN n ELSE IF g = n THEN q ELSE c[g].next
        /\ d[g].prev = IF g = q THEN n ELSE IF g = n THEN e ELSE c[g].prev
  BY <1>1, <1>5, LinkFields
<1>7. Lists(t, n + 1)
  BY <1>1, AddedList DEF InOrder
<1>8. \A k \in 0 .. n : t[k] = IF k < n THEN s[k] ELSE n
  BY DEF Added
<1> HIDE DEF d, t, q
<1>9. t[(n + 1) - 1] = n /\ t[0] = q /\ d[n].next = t[0] /\ d[t[0]].prev = n
  BY <1>1, <1>3, <1>5, <1>6, <1>8
<1>10. ASSUME NEW k \in 1 .. (n + 1) - 1
       PROVE  d[t[k - 1]].next = t[k] /\ d[t[k]].prev = t[k - 1]
  <2>1. CASE k = n
    <3>1. t[k] = n /\ t[k - 1] = e
      BY <1>1, <1>3, <1>8, <2>1
    <3> QED BY <1>1, <1>5, <1>6, <3>1
  <2>2. CASE k # n
    <3>1. k \in 1 .. n - 1 /\ k \in 0 .. n - 1 /\ k - 1 \in 0 .. n - 1 /\ k - 1 # n - 1 /\ k # 0
      BY <1>1, <2>2
    <3>2. t[k] = s[k] /\ t[k - 1] = s[k - 1]
      BY <1>1, <1>8, <3>1
    <3>3. s[k - 1] # e /\ s[k] # q
      BY <1>1, <1>2, <1>3, <3>1
    <3>4. /\ s[k - 1] \in Frame /\ s[k] \in Frame /\ s[k - 1] # n /\ s[k] # n
      <4>1. s[k] \in 0 .. n - 1 /\ s[k - 1] \in 0 .. n - 1
        BY <1>2, <3>1
      <4> QED BY <1>1, <4>1
    <3> QED BY <1>4, <1>6, <3>1, <3>2, <3>3, <3>4
  <2> QED BY <2>1, <2>2
<1> QED BY <1>7, <1>9, <1>10 DEF InOrder, d, t

\* The first frame used is a ring of its own.
LEMMA FirstOrder ==
  ASSUME NEW c, c[0].next = 0, c[0].prev = 0, NEW s
  PROVE  InOrder(c, 0, 1, Added(s, 0))
<1>1. Lists(Added(s, 0), 1)
  BY DEF Lists, Added
<1>2. Added(s, 0)[0] = 0
  BY DEF Added
<1>3. 1 - 1 = 0 /\ \A k \in 1 .. 1 - 1 : FALSE
  OBVIOUS
<1> QED BY <1>1, <1>2, <1>3 DEF InOrder

-----------------------------------------------------------------------------
(* The frame that is replaced.                                             *)

\* The victim is the first frame without pins on the walk from the oldest frame on.
LEMMA VictimFound ==
  ASSUME TypeOK, used > 0, entry # -1, Victims # {}
  PROVE  \E k \in 0 .. used - 1 :
           LET old == Oldest(cb, entry, used)
           IN /\ Victim = old[k] /\ old[k] \in Frame /\ cb[old[k]].pins = 0
              /\ \A h \in 0 .. used - 1 : cb[old[h]].pins = 0 => k <= h
<1> DEFINE old == Oldest(cb, entry, used)
           k == CHOOSE i \in Victims : \A h \in Victims : i <= h
<1>1. cb \in [Frame -> Block] /\ entry \in Frame /\ used \in Nat
  BY BufferPoolAssumption DEF TypeOK, Frame
<1>2. old \in [0 .. used - 1 -> Frame]
  BY <1>1, SearchStays
<1>3. Victims = {i \in 0 .. used - 1 : cb[old[i]].pins = 0} /\ Victim = old[k]
  BY DEF Victims, Victim
<1> HIDE DEF old
<1>4. Victims \subseteq Nat
  BY <1>1, <1>3
<1>5. \E i \in Victims : \A h \in Victims : i <= h
  BY <1>4, Smallest
<1>6. k \in Victims /\ \A h \in Victims : k <= h
  BY <1>5
<1> HIDE DEF k
<1> QED BY <1>2, <1>3, <1>6 DEF old

\* As long as users leave a frame unpinned, a page that comes new into a full pool
\* finds a frame without pins other than any given one: every pinned frame holds
\* a page of its own.
LEMMA SomeUnpinned ==
  ASSUME TypeOK, PagesInPlace, ~raced, used = NumFrames,
         NEW p \in Page, \A f \in Frame : cb[f].page # p,
         IsFiniteSet(Pinned \union {p}), Cardinality(Pinned \union {p}) < NumFrames,
         NEW e \in Frame
  PROVE  \E f \in Frame : f # e /\ cb[f].pins = 0
<1> SUFFICES ASSUME \A f \in Frame : f # e => cb[f].pins # 0 PROVE FALSE
  OBVIOUS
<1> DEFINE g == [f \in Frame |-> IF f = e THEN p ELSE cb[f].page]
<1>1. /\ Frame = 0 .. used - 1
      /\ \A f \in Frame : cb[f].page \in Page
      /\ \A f, h \in Frame : cb[f].page = cb[h].page => f = h
      /\ \A f \in Frame : cb[f].pins = held[cb[f].page]
  BY DEF PagesInPlace, Frame
<1>2. held \in [Page -> 0 .. MaxPins]
  BY DEF TypeOK
<1>3. \A f \in Frame : f # e => cb[f].page \in Pinned
  BY <1>1, <1>2, BufferPoolAssumption DEF Pinned
<1>4. g \in [Frame -> Pinned \union {p}]
  BY <1>3
<1>5. \A f, h \in Frame : g[f] = g[h] => f = h
  BY <1>1
<1>6. IsFiniteSet(Frame) /\ Cardinality(Frame) = NumFrames
  <2>1. NumFrames - 1 \in Int /\ ~(0 > NumFrames - 1) /\ (NumFrames - 1) - 0 + 1 = NumFrames
    BY BufferPoolAssumption
  <2> QED BY <2>1, FS_Interval DEF Frame
<1> HIDE DEF g
<1>7. \E x, y \in Frame : x # y /\ g[x] = g[y]
  BY <1>4, <1>6, FS_PigeonHole
<1> QED BY <1>5, <1>7

\* In that case the victim is found and it is not the frame used last, so taking it out
\* of the ring leaves a ring.
LEMMA VictimNotLast ==
  ASSUME TypeOK, PagesInPlace, ~raced, used = NumFrames, entry # -1,
         NEW s, InOrder(cb, entry, used, s),
         NEW p \in Page, Index(p) = -1,
         IsFiniteSet(Pinned \union {p}), Cardinality(Pinned \union {p}) < NumFrames
  PROVE  /\ Victims # {}
         /\ Victim # entry
         /\ \E k \in 0 .. used - 1 : Victim = s[k]
<1>1. /\ cb \in [Frame -> Block] /\ entry \in Frame
      /\ used \in 1 .. NumFrames /\ Frame = 0 .. used - 1 /\ used > 0
  BY BufferPoolAssumption DEF TypeOK, Frame
<1>2. \A f \in Frame : cb[f].page # p
  BY <1>1, SearchInOrder DEF Index
<1>3. PICK f \in Frame : f # entry /\ cb[f].pins = 0
  BY <1>1, <1>2, SomeUnpinned
<1>4. Oldest(cb, entry, used) = s
  BY <1>1, WalksInOrder
<1>5. PICK h \in 0 .. used - 1 : s[h] = f
  BY <1>1 DEF InOrder, Lists
<1>6. Victims # {}
  BY <1>3, <1>4, <1>5 DEF Victims
<1>7. PICK k \in 0 .. used - 1 :
        /\ Victim = s[k]
        /\ \A i \in 0 .. used - 1 : cb[s[i]].pins = 0 => k <= i
  BY <1>1, <1>4, <1>6, VictimFound
<1>8. s[used - 1] = entry /\ \A a, b \in 0 .. used - 1 : s[a] = s[b] => a = b
  BY DEF InOrder, Lists
<1>9. k <= h /\ h # used - 1
  BY <1>3, <1>5, <1>7, <1>8
<1>10. k # used - 1 /\ used - 1 \in 0 .. used - 1
  BY <1>1, <1>9
<1> QED BY <1>6, <1>7, <1>8, <1>10

-----------------------------------------------------------------------------
(* A page loaded.                                                          *)

\* The frame a page is loaded into.
Into == IF used < NumFrames THEN used ELSE Victim

\* What Fill leaves in every frame.
LEMMA FillFields ==
  ASSUME TypeOK, NEW f \in Frame, NEW q \in Page
  PROVE  LET d == Fill(cb, f, q)
         IN /\ d \in [Frame -> Block]
            /\ d[f].page = q /\ d[f].data = disk[q] /\ ~d[f].dirty /\ d[f].pins = 0
            /\ \A g \in Frame : /\ g # f => d[g] = cb[g]
                                /\ d[g].next = cb[g].next /\ d[g].prev = cb[g].prev
<1> DEFINE d == Fill(cb, f, q)
           b == [page |-> q, data |-> disk[q], dirty |-> FALSE, pins |-> 0,
                 next |-> cb[f].next, prev |-> cb[f].prev]
<1>1. cb \in [Frame -> Block] /\ disk[q] \in Value
  BY DEF TypeOK
<1>2. b \in Block
  BY <1>1 DEF Block
<1>3. d = [cb EXCEPT ![f] = b]
  BY <1>1 DEF Fill
<1>4. /\ b.page = q /\ b.data = disk[q] /\ b.dirty = FALSE /\ b.pins = 0
      /\ b.next = cb[f].next /\ b.prev = cb[f].prev
  OBVIOUS
<1> HIDE DEF d, b
<1>5. d \in [Frame -> Block] /\ \A g \in Frame : d[g] = IF g = f THEN b ELSE cb[g]
  BY <1>1, <1>2, <1>3
<1> QED BY <1>4, <1>5 DEF d

\* What a load leaves, whatever the shape of the ring: the page in its frame, the
\* content of the other frames, and the file of the same type.
LEMMA LoadedFields ==
  ASSUME TypeOK, used > 0 => entry # -1, ~NoVictim, NEW q \in Page
  PROVE  LET new == Loaded(q)
             b == new.cb[Into]
         IN /\ Into \in Frame /\ new.entry = Into
            /\ new.cb \in [Frame -> Block]
            /\ b.page = q /\ b.data = disk[q] /\ ~b.dirty /\ b.pins = 0
            /\ \A g \in Frame : g # Into => SameContent(cb[g], new.cb[g])
            /\ new.used = UsedAfter /\ new.used \in 1 .. NumFrames
            /\ new.disk \in [Page -> Value]
<1> DEFINE c == Fill(cb, Into, q)
           d == CASE used = 0 -> [c EXCEPT ![Into].next = 0, ![Into].prev = 0]
                  [] used > 0 /\ used < NumFrames -> LinkNew(c, entry, Into)
                  [] used = NumFrames -> Relink(c, entry, Into)
           new == Loaded(q)
<1>1. /\ cb \in [Frame -> Block] /\ used \in 0 .. NumFrames /\ NumFrames \in Nat \ {0}
      /\ entry \in -1 .. NumFrames - 1 /\ disk \in [Page -> Value]
  BY BufferPoolAssumption DEF TypeOK
<1>2. /\ new.cb = d /\ new.used = UsedAfter /\ new.entry = Into
      /\ new.disk = IF used < NumFrames THEN disk ELSE WriteBack(disk, cb[Into])
  BY DEF Loaded, Into
<1>3. Into \in Frame
  <2>1. CASE used < NumFrames
    BY <1>1, <2>1 DEF Into, Frame
  <2>2. CASE ~(used < NumFrames)
    <3>1. used = NumFrames /\ used > 0 /\ Victims # {}
      BY <1>1, <2>2 DEF NoVictim
    <3> QED BY <2>2, <3>1, VictimFound DEF Into
  <2> QED BY <2>1, <2>2
<1>4. /\ c \in [Frame -> Block]
      /\ c[Into].page = q /\ c[Into].data = disk[q] /\ ~c[Into].dirty /\ c[Into].pins = 0
      /\ \A g \in Frame : g # Into => c[g] = cb[g]
  BY <1>3, FillFields
<1> HIDE DEF c
<1>5. d \in [Frame -> Block] /\ \A g \in Frame : SameContent(c[g], d[g])
  <2>1. CASE used = 0
    <3>1. d = [[c EXCEPT ![Into].next = 0] EXCEPT ![Into].prev = 0]
      BY <1>1, <1>3, <1>4, <2>1
    <3> DEFINE c1 == [c EXCEPT ![Into].next = 0]
    <3>2. 0 \in Frame
      BY <1>1 DEF Frame
    <3>3. c1 \in [Frame -> Block] /\ \A g \in Frame : SameContent(c[g], c1[g])
      BY <1>3, <1>4, <3>2, SetNext
    <3>4. d = [c1 EXCEPT ![Into].prev = 0]
      BY <3>1
    <3> HIDE DEF c1, d
    <3>5. d \in [Frame -> Block] /\ \A g \in Frame : SameContent(c1[g], d[g])
      BY <1>3, <3>2, <3>3, <3>4, SetPrev
    <3> QED BY <3>3, <3>5 DEF SameContent
  <2>2. CASE used > 0 /\ used < NumFrames
    <3>1. d = LinkNew(c, entry, Into)
      BY <1>1, <2>2
    <3>2. entry \in Frame
      BY <1>1, <2>2 DEF Frame
    <3> HIDE DEF d
    <3> QED BY <1>3, <1>4, <3>1, <3>2, LinkFields
  <2>3. CASE used = NumFrames
    <3>1. d = Relink(c, entry, Into)
      BY <1>1, <2>3
    <3>2. entry \in Frame
      BY <1>1, <2>3 DEF Frame
    <3> HIDE DEF d
    <3> QED BY <1>3, <1>4, <3>1, <3>2, RelinkFields
  <2> QED BY <1>1, <2>1, <2>2, <2>3, SMTT(30)
<1> HIDE DEF d
<1>6. ASSUME NEW g \in Frame, g # Into PROVE SameContent(cb[g], d[g])
  BY <1>4, <1>5, <1>6
<1>7. d[Into].page = q /\ d[Into].data = disk[q] /\ ~d[Into].dirty /\ d[Into].pins = 0
  BY <1>3, <1>4, <1>5 DEF SameContent
<1>8. UsedAfter \in 1 .. NumFrames
  BY <1>1 DEF UsedAfter
<1>9. WriteBack(disk, cb[Into]) \in [Page -> Value]
  <2>1. cb[Into].data \in Value
    BY <1>1, <1>3 DEF Block
  <2> QED BY <1>1, <2>1 DEF WriteBack
<1>10. new.disk \in [Page -> Value]
  BY <1>1, <1>2, <1>9
<1> HIDE DEF new
<1>11. \A g \in Frame : g # Into => SameContent(cb[g], new.cb[g])
  BY <1>2, <1>6
<1>12. /\ new.cb[Into].page = q /\ new.cb[Into].data = disk[q]
       /\ ~new.cb[Into].dirty /\ new.cb[Into].pins = 0
  BY <1>2, <1>7
<1>13. new.cb \in [Frame -> Block] /\ new.used = UsedAfter /\ new.used \in 1 .. NumFrames
  BY <1>2, <1>5, <1>8
<1> QED BY <1>2, <1>3, <1>10, <1>11, <1>12, <1>13 DEF new

\* The order of the frames after a load: the frame loaded is the newest, and the others
\* are in the order they were in.
LEMMA LoadedOrder ==
  ASSUME TypeOK, ~NoVictim, NEW q \in Page,
         NEW s, used > 0 => InOrder(cb, entry, used, s),
         NEW j, used = NumFrames => j \in 0 .. used - 1 /\ s[j] = Victim /\ s[j] # entry
  PROVE  InOrder(Loaded(q).cb, Into, UsedAfter,
                 IF used < NumFrames THEN Added(s, used) ELSE Moved(s, used, j))
<1> DEFINE c == Fill(cb, Into, q)
           d == CASE used = 0 -> [c EXCEPT ![Into].next = 0, ![Into].prev = 0]
                  [] used > 0 /\ used < NumFrames -> LinkNew(c, entry, Into)
                  [] used = NumFrames -> Relink(c, entry, Into)
<1>1. /\ cb \in [Frame -> Block] /\ used \in 0 .. NumFrames /\ NumFrames \in Nat \ {0}
  BY BufferPoolAssumption DEF TypeOK
<1>2. Loaded(q).cb = d
  BY DEF Loaded, Into
<1>3. used > 0 => entry \in 0 .. used - 1 /\ 0 .. used - 1 \subseteq Frame
  <2> SUFFICES ASSUME used > 0 PROVE entry \in 0 .. used - 1 /\ 0 .. used - 1 \subseteq Frame
    OBVIOUS
  <2>1. s \in [0 .. used - 1 -> 0 .. used - 1] /\ s[used - 1] = entry
    BY DEF InOrder, Lists
  <2>2. used - 1 \in 0 .. used - 1 /\ 0 .. used - 1 \subseteq Frame
    BY <1>1 DEF Frame
  <2> QED BY <2>1, <2>2
<1>4. Into \in Frame
  <2>1. CASE used < NumFrames
    BY <1>1, <2>1 DEF Into, Frame
  <2>2. CASE ~(used < NumFrames)
    <3>1. used = NumFrames /\ used > 0 /\ j \in 0 .. used - 1 /\ Into = s[j]
      BY <1>1, <2>2 DEF Into
    <3>2. s \in [0 .. used - 1 -> 0 .. used - 1]
      BY <3>1 DEF InOrder, Lists
    <3> QED BY <1>3, <3>1, <3>2
  <2> QED BY <2>1, <2>2
<1>5. /\ c \in [Frame -> Block]
      /\ \A g \in Frame : c[g].next = cb[g].next /\ c[g].prev = cb[g].prev
  BY <1>4, FillFields
<1> HIDE DEF c
<1>6. used > 0 => InOrder(c, entry, used, s)
  <2> SUFFICES ASSUME used > 0 PROVE InOrder(c, entry, used, s)
    OBVIOUS
  <2>1. \A f \in 0 .. used - 1 : c[f].next = cb[f].next /\ c[f].prev = cb[f].prev
    BY <1>3, <1>5
  <2>2. used \in Nat \ {0}
    BY <1>1
  <2> QED BY <2>1, <2>2, SamePointers
<1>7. CASE used = 0
  <2>1. Into = 0 /\ UsedAfter = 1 /\ used < NumFrames
    BY <1>1, <1>7 DEF Into, UsedAfter
  <2> DEFINE c1 == [c EXCEPT ![0].next = 0]
             c2 == [c1 EXCEPT ![0].prev = 0]
  <2>2. d = c2
    BY <1>1, <1>5, <1>7, <2>1
  <2>3. 0 \in Frame
    BY <1>4, <2>1
  <2>4. c1 \in [Frame -> Block] /\ c1[0].next = 0
    BY <1>5, <2>3, SetNext
  <2> HIDE DEF c1
  <2>5. c2[0].next = 0 /\ c2[0].prev = 0
    BY <2>3, <2>4, SetPrev
  <2> HIDE DEF c2
  <2>6. InOrder(c2, 0, 1, Added(s, 0))
    BY <2>5, FirstOrder
  <2> QED BY <1>2, <1>7, <2>1, <2>2, <2>6
<1>8. CASE used > 0 /\ used < NumFrames
  <2>1. Into = used /\ UsedAfter = used + 1 /\ d = LinkNew(c, entry, used)
    BY <1>1, <1>8 DEF Into, UsedAfter
  <2>2. used \in 1 .. NumFrames - 1
    BY <1>1, <1>8
  <2>3. InOrder(LinkNew(c, entry, used), used, used + 1, Added(s, used))
    BY <1>5, <1>6, <1>8, <2>2, LinkOrder
  <2> QED BY <1>2, <1>8, <2>1, <2>3
<1>9. CASE used = NumFrames
  <2>1. Into = s[j] /\ UsedAfter = used /\ d = Relink(c, entry, s[j]) /\ ~(used < NumFrames)
    BY <1>1, <1>9 DEF Into, UsedAfter
  <2>2. used \in 1 .. NumFrames /\ used > 0
    BY <1>1, <1>9
  <2>3. InOrder(Relink(c, entry, s[j]), s[j], used, Moved(s, used, j))
    BY <1>5, <1>6, <1>9, <2>2, RelinkOrder
  <2> QED BY <1>2, <2>1, <2>3
<1> QED BY <1>1, <1>7, <1>8, <1>9

-----------------------------------------------------------------------------
(* The pins of the users.                                                  *)

\* A user takes a pin: one more page may be pinned, and as long as the pool is not
\* strained by it a frame is left for others.
LEMMA PinTaken ==
  ASSUME TypeOK, IsFiniteSet(Pinned), NEW p \in Page, MayPin(p), TakePin(p)
  PROVE  /\ held' \in [Page -> 0 .. MaxPins]
         /\ held'[p] = held[p] + 1
         /\ \A q \in Page : q # p => held'[q] = held[q]
         /\ Pinned' = Pinned \union {p}
         /\ IsFiniteSet(Pinned')
<1>1. held \in [Page -> 0 .. MaxPins] /\ MaxPins \in Nat
  BY BufferPoolAssumption DEF TypeOK
<1>2. held' = [held EXCEPT ![p] = held[p] + 1] /\ held[p] < MaxPins
  BY DEF TakePin, MayPin
<1>3. held[p] + 1 \in 0 .. MaxPins
  BY <1>1, <1>2
<1>4. /\ held' \in [Page -> 0 .. MaxPins] /\ held'[p] = held[p] + 1
      /\ \A q \in Page : q # p => held'[q] = held[q]
  BY <1>1, <1>2, <1>3
<1>5. Pinned' = Pinned \union {p}
  BY <1>1, <1>4 DEF Pinned
<1>6. IsFiniteSet(Pinned \union {p})
  BY FS_AddElement
<1> QED BY <1>4, <1>5, <1>6

\* The pins asked for leave a frame, unless the pool is strained by them.
LEMMA PinsLeaveOne ==
  ASSUME TypeOK, IsFiniteSet(Pinned), NEW p \in Page, MayPin(p)
  PROVE  /\ strained' \in BOOLEAN
         /\ IsFiniteSet(Pinned \union {p})
         /\ ~strained' => /\ ~strained /\ Cut(p) = p
                          /\ Cardinality(Pinned \union {p}) < NumFrames
<1>1. IsFiniteSet(Pinned \union {p})
  BY FS_AddElement
<1>2. Cardinality(Pinned \union {p}) \in Nat /\ NumFrames \in Nat
  BY <1>1, FS_CardinalityType, BufferPoolAssumption
<1>3. strained' = \/ strained
                  \/ Cardinality(Pinned \union {p}) >= NumFrames
                  \/ Cut(p) # p
  BY DEF MayPin
<1>4. strained' \in BOOLEAN
  BY <1>3, Zenon
<1>5. ~strained' => ~strained /\ Cut(p) = p /\ ~(Cardinality(Pinned \union {p}) >= NumFrames)
  BY <1>3, Zenon
<1> QED BY <1>1, <1>2, <1>4, <1>5

-----------------------------------------------------------------------------
(* The steps of the pool keep RingInv.                                     *)

Inv == TypeOK /\ RingInv

\* An empty pool has no page.
LEMMA EmptySearch ==
  ASSUME NEW c, NEW e, NEW p
  PROVE  FindIndex(c, e, 0, p) = -1
<1>1. \A k \in 0 .. 0 - 1 : FALSE
  OBVIOUS
<1> QED BY <1>1, Search

\* What Pin leaves in every frame.
LEMMA PinFields ==
  ASSUME NEW c \in [Frame -> Block], NEW f \in Frame
  PROVE  LET d == Pin(c, f)
         IN /\ d \in [Frame -> Block]
            /\ \A g \in Frame :
                 /\ d[g].page = c[g].page /\ d[g].data = c[g].data /\ d[g].dirty = c[g].dirty
                 /\ d[g].pins = IF g = f THEN c[g].pins + 1 ELSE c[g].pins
                 /\ d[g].next = c[g].next /\ d[g].prev = c[g].prev
BY DEF Pin, Block

\* A hit: the page is found in a frame, whose content stays, with one pin more.
LEMMA HitFields ==
  ASSUME Inv, NEW p \in Page, ReadHit(p)
  PROVE  LET f == Index(p)
         IN /\ used > 0 /\ entry \in Frame /\ f \in Frame /\ cb[f].page = p
            /\ cb' \in [Frame -> Block]
            /\ \A g \in Frame :
                 /\ cb'[g].page = cb[g].page /\ cb'[g].data = cb[g].data
                 /\ cb'[g].dirty = cb[g].dirty
                 /\ cb'[g].pins = IF g = f THEN cb[g].pins + 1 ELSE cb[g].pins
<1> DEFINE f == Index(p)
           c == Pin(cb, f)
<1>1. /\ cb \in [Frame -> Block] /\ used \in Nat /\ f # -1
      /\ cb' = IF f = entry THEN c ELSE Relink(c, entry, f)
  BY BufferPoolAssumption DEF Inv, TypeOK, ReadHit
<1>2. used > 0
  BY <1>1, EmptySearch DEF Index
<1>3. entry \in Frame
  BY <1>2 DEF Inv, TypeOK, RingInv, Frame
<1>4. f \in Frame /\ cb[f].page = p
  BY <1>1, <1>3, SearchType DEF Index
<1> HIDE DEF f
<1>5. /\ c \in [Frame -> Block]
      /\ \A g \in Frame :
           /\ c[g].page = cb[g].page /\ c[g].data = cb[g].data /\ c[g].dirty = cb[g].dirty
           /\ c[g].pins = IF g = f THEN cb[g].pins + 1 ELSE cb[g].pins
  BY <1>1, <1>4, PinFields
<1> HIDE DEF c
<1>6. cb' \in [Frame -> Block] /\ \A g \in Frame : SameContent(c[g], cb'[g])
  <2>1. CASE f = entry
    BY <1>1, <1>5, <2>1 DEF SameContent
  <2>2. CASE f # entry
    BY <1>1, <1>3, <1>4, <1>5, <2>2, RelinkFields
  <2> QED BY <2>1, <2>2
<1>7. \A g \in Frame :
        /\ cb'[g].page = cb[g].page /\ cb'[g].data = cb[g].data
        /\ cb'[g].dirty = cb[g].dirty
        /\ cb'[g].pins = IF g = f THEN cb[g].pins + 1 ELSE cb[g].pins
  BY <1>5, <1>6 DEF SameContent
<1> QED BY <1>2, <1>3, <1>4, <1>6, <1>7 DEF f

\* The order of the frames after a hit.
LEMMA HitOrder ==
  ASSUME Inv, NEW p \in Page, ReadHit(p), NEW s, InOrder(cb, entry, used, s)
  PROVE  \E j \in 0 .. used - 1 :
           /\ s[j] = Index(p)
           /\ entry = s[used - 1]
           /\ InOrder(cb', Index(p), used, IF j = used - 1 THEN s ELSE Moved(s, used, j))
<1> DEFINE f == Index(p)
           c == Pin(cb, f)
<1>1. /\ cb \in [Frame -> Block] /\ f # -1
      /\ cb' = IF f = entry THEN c ELSE Relink(c, entry, f)
  BY DEF Inv, TypeOK, ReadHit
<1>2. used \in 1 .. NumFrames /\ 0 .. used - 1 \subseteq Frame /\ used \in Nat \ {0}
  BY HitFields, BufferPoolAssumption DEF Inv, TypeOK, Frame
<1>3. f \in 0 .. used - 1
  BY <1>1, <1>2, SearchInOrder DEF Index
<1> HIDE DEF f
<1>4. /\ s[used - 1] = entry
      /\ \A a, b \in 0 .. used - 1 : s[a] = s[b] => a = b
  BY DEF InOrder, Lists
<1>5. PICK j \in 0 .. used - 1 : s[j] = f
  BY <1>3 DEF InOrder, Lists
<1>6. /\ c \in [Frame -> Block]
      /\ \A g \in 0 .. used - 1 : c[g].next = cb[g].next /\ c[g].prev = cb[g].prev
  BY <1>1, <1>2, <1>3, PinFields
<1> HIDE DEF c
<1>7. InOrder(c, entry, used, s)
  BY <1>2, <1>6, SamePointers
<1>8. CASE f = entry
  <2>1. j = used - 1 /\ cb' = c
    BY <1>1, <1>2, <1>4, <1>5, <1>8
  <2> QED BY <1>4, <1>5, <1>7, <1>8, <2>1 DEF f
<1>9. CASE f # entry
  <2>1. j # used - 1 /\ cb' = Relink(c, entry, s[j])
    BY <1>1, <1>4, <1>5, <1>9
  <2>2. InOrder(Relink(c, entry, s[j]), s[j], used, Moved(s, used, j))
    BY <1>2, <1>5, <1>6, <1>7, <1>9, RelinkOrder
  <2> QED BY <1>4, <1>5, <2>1, <2>2 DEF f
<1> QED BY <1>8, <1>9

\* A hit keeps the invariant.
LEMMA HitKeeps ==
  ASSUME Inv, ~raced, process = "up", NEW p \in Page, ReadHit(p)
  PROVE  Inv'
<1> DEFINE f == Index(p)
<1>1. /\ used > 0 /\ entry \in Frame /\ f \in Frame /\ cb[f].page = p
      /\ cb' \in [Frame -> Block]
      /\ \A g \in Frame :
           /\ cb'[g].page = cb[g].page
           /\ cb'[g].pins = IF g = f THEN cb[g].pins + 1 ELSE cb[g].pins
  BY HitFields
<1>2. /\ MayPin(p) /\ TakePin(p) /\ entry' = f
      /\ used' = used /\ disk' = disk /\ found' = found /\ raced' = raced /\ process' = process
  BY DEF ReadHit
<1>3. /\ held' \in [Page -> 0 .. MaxPins] /\ held'[p] = held[p] + 1
      /\ \A q \in Page : q # p => held'[q] = held[q]
      /\ Pinned' = Pinned \union {p} /\ IsFiniteSet(Pinned')
  BY <1>2, PinTaken DEF Inv, RingInv
<1>4. /\ strained' \in BOOLEAN
      /\ ~strained' => ~strained /\ Cardinality(Pinned') < NumFrames
  BY <1>2, <1>3, PinsLeaveOne DEF Inv, RingInv
<1>5. \A c \in found : c.page \in Page
  BY DEF Inv, TypeOK
<1>6. TypeOK'
  BY <1>1, <1>2, <1>3, <1>4 DEF Inv, TypeOK, Frame
<1>7. \A c \in found' : held'[c.page] > 0
  <2> SUFFICES ASSUME NEW c \in found PROVE held'[c.page] > 0
    BY <1>2
  <2>1. c.page \in Page /\ held[c.page] > 0 /\ held[c.page] \in Nat
    BY <1>5, BufferPoolAssumption DEF Inv, RingInv, TypeOK
  <2> QED BY <1>3, <2>1
<1>8. ASSUME ~strained'
      PROVE  /\ \E s \in [0 .. used - 1 -> 0 .. used - 1] : InOrder(cb', f, used, s)
             /\ PagesInPlace'
  <2>1. PagesInPlace /\ \E s : InOrder(cb, entry, used, s)
    BY <1>1, <1>4, <1>8 DEF Inv, RingInv
  <2>2. PICK s : InOrder(cb, entry, used, s)
    BY <2>1
  <2>3. \E t : InOrder(cb', f, used, t)
    BY <2>2, HitOrder
  <2>4. \E t \in [0 .. used - 1 -> 0 .. used - 1] : InOrder(cb', f, used, t)
    BY <2>3 DEF InOrder, Lists
  <2>5. used \in 1 .. NumFrames /\ 0 .. used - 1 \subseteq Frame /\ f # -1
    BY <1>1, BufferPoolAssumption DEF Inv, TypeOK, Frame
  <2>6. f \in 0 .. used - 1
    BY <2>2, <2>5, SearchInOrder DEF Index, Inv, TypeOK
  <2>7. /\ \A g \in 0 .. used - 1 : cb[g].page \in Page /\ cb[g].pins = held[cb[g].page]
        /\ \A g, h \in 0 .. used - 1 : cb[g].page = cb[h].page => g = h
        /\ \A q \in Pinned : \E g \in 0 .. used - 1 : cb[g].page = q
        /\ \A c \in found : c.frame \in 0 .. used - 1 /\ cb[c.frame].page = c.page
    BY <2>1 DEF PagesInPlace
  <2> HIDE DEF f
  <2>8. \A g \in 0 .. used - 1 : cb'[g].page \in Page /\ cb'[g].pins = held'[cb'[g].page]
    BY <1>1, <1>3, <2>5, <2>6, <2>7
  <2>9. \A g, h \in 0 .. used - 1 : cb'[g].page = cb'[h].page => g = h
    BY <1>1, <2>5, <2>7
  <2>10. \A q \in Pinned' : \E g \in 0 .. used - 1 : cb'[g].page = q
    BY <1>1, <1>3, <2>5, <2>6, <2>7
  <2>11. \A c \in found' : c.frame \in 0 .. used - 1 /\ cb'[c.frame].page = c.page
    BY <1>1, <1>2, <2>5, <2>7
  <2>12. PagesInPlace'
    BY <1>2, <2>8, <2>9, <2>10, <2>11 DEF PagesInPlace
  <2> QED BY <2>4, <2>12
<1>9. RingInv'
  <2>1. entry' # -1 /\ process' = "up"
    BY <1>1, <1>2 DEF Frame
  <2> QED BY <1>2, <1>3, <1>4, <1>7, <1>8, <2>1 DEF RingInv
<1> QED BY <1>6, <1>9 DEF Inv

\* A page that is not found is in no frame, as long as users leave a frame unpinned,
\* and nobody has it pinned.
LEMMA MissedPage ==
  ASSUME Inv, ~strained, ~raced, NEW p \in Page, Index(p) = -1
  PROVE  held[p] = 0 /\ \A g \in 0 .. used - 1 : cb[g].page # p
<1>1. \A g \in 0 .. used - 1 : cb[g].page # p
  <2>1. CASE used > 0
    <3>1. used \in 1 .. NumFrames /\ cb \in [Frame -> Block]
      BY <2>1, BufferPoolAssumption DEF Inv, TypeOK
    <3>2. PICK s : InOrder(cb, entry, used, s)
      BY <2>1 DEF Inv, RingInv
    <3> QED BY <3>1, <3>2, SearchInOrder DEF Index
  <2>2. CASE ~(used > 0)
    <3>1. used = 0
      BY <2>2, BufferPoolAssumption DEF Inv, TypeOK
    <3> QED BY <3>1
  <2> QED BY <2>1, <2>2
<1>2. p \notin Pinned
  BY <1>1 DEF Inv, RingInv, PagesInPlace
<1>3. held[p] \in Nat
  BY BufferPoolAssumption DEF Inv, TypeOK
<1> QED BY <1>1, <1>2, <1>3 DEF Pinned

\* The ring and the pages after a load, as long as users leave a frame unpinned: the
\* page goes to a frame without pins that was not used last, and it is found there.
LEMMA LoadedWell ==
  ASSUME Inv, ~strained, ~raced, NEW p \in Page, Index(p) = -1, ~NoVictim,
         IsFiniteSet(Pinned \union {p}), Cardinality(Pinned \union {p}) < NumFrames
  PROVE  LET new == Loaded(p)
             U == 0 .. new.used - 1
         IN /\ \E s : InOrder(new.cb, Into, new.used, s)
            /\ U = (0 .. used - 1) \union {Into} /\ U \subseteq Frame
            /\ used = NumFrames => Into \in 0 .. used - 1 /\ cb[Into].pins = 0
            /\ used < NumFrames => Into \notin 0 .. used - 1
            /\ \A g, h \in U : new.cb[g].page = new.cb[h].page => g = h
            /\ FindIndex(new.cb, new.entry, new.used, p) = Into
<1> DEFINE new == Loaded(p)
           U == 0 .. new.used - 1
<1>1. /\ TypeOK /\ (used > 0 => entry # -1) /\ PagesInPlace
      /\ used \in 0 .. NumFrames /\ NumFrames \in Nat \ {0}
      /\ used > 0 => \E s : InOrder(cb, entry, used, s)
  BY BufferPoolAssumption DEF Inv, RingInv, TypeOK
<1>2. /\ Into \in Frame /\ new.entry = Into
      /\ new.cb \in [Frame -> Block] /\ new.cb[Into].page = p
      /\ \A g \in Frame : g # Into => SameContent(cb[g], new.cb[g])
      /\ new.used = UsedAfter /\ new.used \in 1 .. NumFrames
  BY <1>1, LoadedFields
<1>3. PICK s : used > 0 => InOrder(cb, entry, used, s)
  BY <1>1
<1>4. \E j : used = NumFrames => /\ j \in 0 .. used - 1 /\ s[j] = Victim /\ s[j] # entry
                                 /\ Victims # {}
  <2>1. CASE used = NumFrames
    <3>1. used > 0
      BY <1>1, <2>1
    <3> QED BY <1>1, <1>3, <2>1, <3>1, VictimNotLast
  <2>2. CASE used # NumFrames
    BY <2>2
  <2> QED BY <2>1, <2>2
<1>5. PICK j : used = NumFrames => /\ j \in 0 .. used - 1 /\ s[j] = Victim /\ s[j] # entry
                                   /\ Victims # {}
  BY <1>4
<1>6. InOrder(new.cb, Into, new.used,
              IF used < NumFrames THEN Added(s, used) ELSE Moved(s, used, j))
  BY <1>1, <1>2, <1>3, <1>5, LoadedOrder
<1> HIDE DEF new
<1>7. used = NumFrames => Into \in 0 .. used - 1 /\ cb[Into].pins = 0
  <2> SUFFICES ASSUME used = NumFrames PROVE Into \in 0 .. used - 1 /\ cb[Into].pins = 0
    OBVIOUS
  <2>1. used > 0 /\ ~(used < NumFrames)
    BY <1>1
  <2>2. cb[Victim].pins = 0
    BY <1>1, <1>5, <2>1, VictimFound
  <2>3. s \in [0 .. used - 1 -> 0 .. used - 1]
    BY <1>3, <2>1 DEF InOrder, Lists
  <2> QED BY <1>5, <2>1, <2>2, <2>3 DEF Into
<1>8. used < NumFrames => Into = used /\ Into \notin 0 .. used - 1
  BY <1>1 DEF Into
<1>9. U = (0 .. used - 1) \union {Into} /\ U \subseteq Frame
  <2>1. CASE used < NumFrames
    BY <1>1, <1>2, <1>8, <2>1 DEF UsedAfter, Frame
  <2>2. CASE used = NumFrames
    BY <1>1, <1>2, <1>7, <2>2 DEF UsedAfter, Frame
  <2> QED BY <1>1, <2>1, <2>2
<1>10. \A g \in 0 .. used - 1 : cb[g].page # p
  BY MissedPage
<1>11. \A g \in U : g # Into => g \in 0 .. used - 1 /\ new.cb[g].page = cb[g].page
  BY <1>2, <1>9 DEF SameContent
<1>12. \A g, h \in 0 .. used - 1 : cb[g].page = cb[h].page => g = h
  BY <1>1 DEF PagesInPlace
<1>13. \A g, h \in U : new.cb[g].page = new.cb[h].page => g = h
  BY <1>2, <1>10, <1>11, <1>12
<1>14. \E t : InOrder(new.cb, Into, new.used, t)
  BY <1>6
<1>15. FindIndex(new.cb, new.entry, new.used, p) = Into
  <2>1. Into \in U
    BY <1>9
  <2>2. PICK t : InOrder(new.cb, Into, new.used, t)
    BY <1>14
  <2> QED BY <1>2, <1>13, <2>1, <2>2, SearchHits
<1> QED BY <1>7, <1>8, <1>9, <1>13, <1>14, <1>15 DEF new

\* A miss keeps the invariant.
LEMMA MissKeeps ==
  ASSUME Inv, ~raced, process = "up", NEW p \in Page, ReadMiss(p)
  PROVE  Inv'
<1> DEFINE new == Loaded(Cut(p))
           f == FindIndex(new.cb, new.entry, new.used, p)
<1>1. /\ MayPin(p) /\ Index(p) = -1 /\ ~NoVictim
      /\ used' = new.used /\ entry' = new.entry /\ disk' = new.disk
      /\ found' = found /\ raced' = raced
      /\ \/ f # -1 /\ cb' = Pin(new.cb, f) /\ TakePin(p) /\ process' = process
         \/ f = -1 /\ cb' = new.cb /\ process' = "exit" /\ held' = held
  BY DEF ReadMiss
<1>2. Cut(p) \in Page
  BY BufferPoolAssumption
<1>3. /\ Into \in Frame /\ new.entry = Into
      /\ new.cb \in [Frame -> Block]
      /\ new.cb[Into].page = Cut(p) /\ new.cb[Into].pins = 0
      /\ \A g \in Frame : g # Into => SameContent(cb[g], new.cb[g])
      /\ new.used \in 1 .. NumFrames
      /\ new.disk \in [Page -> Value]
  BY <1>1, <1>2, LoadedFields DEF Inv, RingInv
<1>4. f \in Frame \union {-1}
  <2>1. new.used \in Nat
    BY <1>3, BufferPoolAssumption
  <2> HIDE DEF new
  <2> QED BY <1>3, <2>1, SearchType
<1>5. /\ strained' \in BOOLEAN
      /\ IsFiniteSet(Pinned \union {p})
      /\ ~strained' => ~strained /\ Cut(p) = p /\ Cardinality(Pinned \union {p}) < NumFrames
  BY <1>1, PinsLeaveOne DEF Inv, RingInv
<1>6. CASE f # -1 /\ cb' = Pin(new.cb, f) /\ TakePin(p) /\ process' = process
  <2>1. /\ held' \in [Page -> 0 .. MaxPins] /\ held'[p] = held[p] + 1
        /\ \A q \in Page : q # p => held'[q] = held[q]
        /\ Pinned' = Pinned \union {p} /\ IsFiniteSet(Pinned')
    BY <1>1, <1>6, PinTaken DEF Inv, RingInv
  <2> HIDE DEF f
  <2>2. f \in Frame
    BY <1>4, <1>6
  <2>3. /\ cb' \in [Frame -> Block]
        /\ \A g \in Frame :
             /\ cb'[g].page = new.cb[g].page
             /\ cb'[g].pins = IF g = f THEN new.cb[g].pins + 1 ELSE new.cb[g].pins
             /\ cb'[g].next = new.cb[g].next /\ cb'[g].prev = new.cb[g].prev
    <3> HIDE DEF new
    <3> QED BY <1>3, <1>6, <2>2, PinFields
  <2> HIDE DEF new
  <2>4. TypeOK'
    BY <1>1, <1>3, <1>5, <1>6, <2>1, <2>3, BufferPoolAssumption, SMTT(30) DEF Inv, TypeOK, Frame
  <2>5. \A c \in found : c.page \in Page /\ held[c.page] > 0 /\ held[c.page] \in Nat
    BY BufferPoolAssumption DEF Inv, RingInv, TypeOK
  <2>6. \A c \in found' : held'[c.page] > 0
    <3> SUFFICES ASSUME NEW c \in found PROVE held'[c.page] > 0
      BY <1>1
    <3> QED BY <2>1, <2>5
  <2>7. ASSUME ~strained'
        PROVE  /\ Cardinality(Pinned') < NumFrames
               /\ \E s \in [0 .. new.used - 1 -> 0 .. new.used - 1] :
                    InOrder(cb', Into, new.used, s)
               /\ PagesInPlace'
    <3> DEFINE U == 0 .. new.used - 1
    <3>1. ~strained /\ Cut(p) = p /\ Cardinality(Pinned \union {p}) < NumFrames
      BY <1>5, <2>7
    <3>2. /\ \E s : InOrder(new.cb, Into, new.used, s)
          /\ U = (0 .. used - 1) \union {Into} /\ U \subseteq Frame
          /\ used = NumFrames => Into \in 0 .. used - 1 /\ cb[Into].pins = 0
          /\ used < NumFrames => Into \notin 0 .. used - 1
          /\ \A g, h \in U : new.cb[g].page = new.cb[h].page => g = h
          /\ f = Into
      BY <1>1, <1>5, <3>1, LoadedWell DEF new, f
    <3>3. /\ \A g \in 0 .. used - 1 : cb[g].page \in Page /\ cb[g].pins = held[cb[g].page]
          /\ \A q \in Pinned : \E g \in 0 .. used - 1 : cb[g].page = q
          /\ \A c \in found : c.frame \in 0 .. used - 1 /\ cb[c.frame].page = c.page
      BY <3>1 DEF Inv, RingInv, PagesInPlace
    <3>4. held[p] = 0 /\ \A g \in 0 .. used - 1 : cb[g].page # p
      BY <1>1, <3>1, MissedPage
    <3>5. \E s : InOrder(cb', Into, new.used, s)
      <4>1. PICK s : InOrder(new.cb, Into, new.used, s)
        BY <3>2
      <4>2. new.used \in Nat \ {0}
        BY <1>3, BufferPoolAssumption
      <4>3. \A g \in U : cb'[g].next = new.cb[g].next /\ cb'[g].prev = new.cb[g].prev
        BY <2>3, <3>2
      <4> QED BY <4>1, <4>2, <4>3, SamePointers
    <3>6. \E s \in [U -> U] : InOrder(cb', Into, new.used, s)
      BY <3>5 DEF InOrder, Lists
    <3>7. cb'[Into].page = p /\ cb'[Into].pins = held'[p]
      BY <1>3, <2>1, <2>3, <3>1, <3>2, <3>4
    <3>8. \A g \in U : g # Into => /\ g \in 0 .. used - 1
                                   /\ cb'[g].page = cb[g].page /\ cb'[g].pins = cb[g].pins
      BY <1>3, <2>3, <3>2 DEF SameContent
    <3> HIDE DEF U
    <3>9. \A g \in U : cb'[g].page \in Page /\ cb'[g].pins = held'[cb'[g].page]
      <4> SUFFICES ASSUME NEW g \in U PROVE cb'[g].page \in Page /\ cb'[g].pins = held'[cb'[g].page]
        OBVIOUS
      <4>1. CASE g = Into
        BY <3>7, <4>1
      <4>2. CASE g # Into
        <5>1. cb[g].page \in Page /\ cb[g].page # p /\ cb[g].pins = held[cb[g].page]
          BY <3>3, <3>4, <3>8, <4>2
        <5> QED BY <2>1, <3>8, <4>2, <5>1
      <4> QED BY <4>1, <4>2
    <3>10. \A g, h \in U : cb'[g].page = cb'[h].page => g = h
      BY <2>3, <3>2
    <3>11. \A g \in 0 .. used - 1 : held[cb[g].page] > 0 => g \in U /\ g # Into
      BY <3>2, <3>3, BufferPoolAssumption, SMTT(30) DEF Inv, TypeOK
    <3>12. \A q \in Pinned' : \E g \in U : cb'[g].page = q
      <4> SUFFICES ASSUME NEW q \in Pinned \union {p} PROVE \E g \in U : cb'[g].page = q
        BY <2>1
      <4>1. CASE q = p
        BY <3>2, <3>7, <4>1
      <4>2. CASE q # p
        <5>1. q \in Pinned /\ held[q] > 0
          BY <4>2 DEF Pinned
        <5>2. PICK g \in 0 .. used - 1 : cb[g].page = q
          BY <3>3, <5>1
        <5> QED BY <3>8, <3>11, <5>1, <5>2
      <4> QED BY <4>1, <4>2
    <3>13. \A c \in found' : c.frame \in U /\ cb'[c.frame].page = c.page
      <4> SUFFICES ASSUME NEW c \in found PROVE c.frame \in U /\ cb'[c.frame].page = c.page
        BY <1>1
      <4>1. c.frame \in U /\ c.frame # Into
        BY <2>5, <3>3, <3>11
      <4> QED BY <3>3, <3>8, <4>1
    <3>14. PagesInPlace'
      BY <1>1, <3>9, <3>10, <3>12, <3>13 DEF PagesInPlace, U
    <3> QED BY <2>1, <3>1, <3>6, <3>14 DEF U
  <2>8. RingInv'
    <3>1. entry' = Into /\ entry' # -1 /\ process' = "up" /\ used' = new.used
      BY <1>1, <1>3, <1>6 DEF Frame
    <3> QED BY <2>1, <2>6, <2>7, <3>1 DEF RingInv
  <2> QED BY <2>4, <2>8 DEF Inv
<1>7. CASE f = -1 /\ cb' = new.cb /\ process' = "exit" /\ held' = held
  <2>1. strained'
    <3> SUFFICES ASSUME ~strained' PROVE FALSE
      OBVIOUS
    <3>1. ~strained /\ Cut(p) = p /\ Cardinality(Pinned \union {p}) < NumFrames
      BY <1>5
    <3>2. f = Into
      BY <1>1, <1>5, <3>1, LoadedWell
    <3>3. Into # -1
      BY <1>3 DEF Frame
    <3> QED BY <1>7, <3>2, <3>3
  <2> HIDE DEF new, f
  <2>2. TypeOK'
    BY <1>1, <1>3, <1>5, <1>7, BufferPoolAssumption, SMTT(30) DEF Inv, TypeOK, Frame
  <2>3. RingInv'
    <3>1. entry' # -1 /\ Pinned' = Pinned
      BY <1>1, <1>3, <1>7 DEF Frame, Pinned
    <3> QED BY <1>1, <1>7, <2>1, <3>1 DEF Inv, RingInv
  <2> QED BY <2>2, <2>3 DEF Inv
<1> QED BY <1>1, <1>6, <1>7

\* A read that finds every frame pinned ends the process, which takes users that have
\* strained the pool.
LEMMA NoBufferKeeps ==
  ASSUME Inv, ~raced, process = "up", NEW p \in Page, ReadNoBuffer(p)
  PROVE  Inv'
<1>1. /\ MayPin(p) /\ Index(p) = -1 /\ NoVictim /\ process' = "exit"
      /\ cb' = cb /\ used' = used /\ entry' = entry /\ disk' = disk /\ held' = held
      /\ found' = found /\ raced' = raced
  BY DEF ReadNoBuffer
<1>2. /\ strained' \in BOOLEAN
      /\ IsFiniteSet(Pinned \union {p})
      /\ ~strained' => ~strained /\ Cardinality(Pinned \union {p}) < NumFrames
  BY <1>1, PinsLeaveOne DEF Inv, RingInv
<1>3. strained'
  <2> SUFFICES ASSUME ~strained' PROVE FALSE
    OBVIOUS
  <2>1. ~strained /\ Cardinality(Pinned \union {p}) < NumFrames
    BY <1>2
  <2>2. used = NumFrames /\ used > 0 /\ entry # -1 /\ TypeOK /\ PagesInPlace
    BY <1>1, <2>1, BufferPoolAssumption DEF NoVictim, Inv, RingInv
  <2>3. PICK s : InOrder(cb, entry, used, s)
    BY <2>1, <2>2 DEF Inv, RingInv
  <2>4. Victims # {}
    BY <1>1, <1>2, <2>1, <2>2, <2>3, VictimNotLast
  <2> QED BY <1>1, <2>4 DEF NoVictim
<1>4. TypeOK'
  BY <1>1, <1>2 DEF Inv, TypeOK
<1>5. Pinned' = Pinned
  BY <1>1 DEF Pinned
<1> QED BY <1>1, <1>3, <1>4, <1>5 DEF Inv, RingInv

\* A read that ends with the search of an empty pool leaves it empty.
LEMMA ReadEmptyKeeps ==
  ASSUME Inv, ~raced, process = "up", NEW p \in Page, ReadEmpty(p)
  PROVE  Inv'
<1>1. /\ MayPin(p) /\ used = 0 /\ process' = "crash"
      /\ cb' = cb /\ used' = used /\ entry' = entry /\ disk' = disk /\ held' = held
      /\ found' = found /\ raced' = raced
  BY DEF ReadEmpty
<1>2. strained' \in BOOLEAN /\ (~strained' => ~strained)
  BY <1>1, PinsLeaveOne DEF Inv, RingInv
<1>3. TypeOK'
  BY <1>1, <1>2 DEF Inv, TypeOK
<1>4. Pinned' = Pinned
  BY <1>1 DEF Pinned
<1>5. ~strained' => PagesInPlace'
  BY <1>1, <1>2, <1>4 DEF Inv, RingInv, PagesInPlace
<1> QED BY <1>1, <1>2, <1>3, <1>4, <1>5 DEF Inv, RingInv

\* What a look-up finds.
LEMMA LookUpFinds ==
  ASSUME Inv, NEW p \in Page, LookUp(p)
  PROVE  \E c : /\ found = {} /\ found' = {c} /\ held[p] > 0 /\ c.frame = Index(p)
                /\ c \in [page : Page, frame : Frame \union {-1},
                          entry : Frame \union {-1}, pins : Int]
                /\ c.page = p
<1> DEFINE f == Index(p)
           c == [page |-> p, frame |-> f, entry |-> entry,
                 pins |-> IF f = -1 THEN 0 ELSE cb[f].pins]
<1>1. /\ cb \in [Frame -> Block] /\ used \in Nat /\ (used > 0 => entry # -1)
      /\ entry \in Frame \union {-1}
  BY BufferPoolAssumption DEF Inv, TypeOK, RingInv, Frame
<1>2. f \in Frame \union {-1}
  <2>1. CASE used = 0
    BY <2>1, EmptySearch DEF Index
  <2>2. CASE used # 0
    BY <1>1, <2>2, SearchType DEF Index
  <2> QED BY <2>1, <2>2
<1>3. found = {} /\ found' = {c} /\ held[p] > 0
  BY DEF LookUp
<1> HIDE DEF f
<1>4. (IF f = -1 THEN 0 ELSE cb[f].pins) \in Int
  BY <1>1, <1>2 DEF Block
<1>5. c \in [page : Page, frame : Frame \union {-1}, entry : Frame \union {-1}, pins : Int]
  BY <1>1, <1>2, <1>4
<1>6. c.frame = f /\ c.page = p
  OBVIOUS
<1> HIDE DEF c
<1> QED BY <1>3, <1>5, <1>6 DEF f

\* A look-up keeps the invariant: a pinned page is found in its frame.
LEMMA LookUpKeeps ==
  ASSUME Inv, ~raced, process = "up", NEW p \in Page, LookUp(p)
  PROVE  Inv'
<1>1. PICK c : /\ found = {} /\ found' = {c} /\ held[p] > 0 /\ c.frame = Index(p)
               /\ c \in [page : Page, frame : Frame \union {-1},
                         entry : Frame \union {-1}, pins : Int]
               /\ c.page = p
  BY LookUpFinds
<1>2. /\ cb' = cb /\ used' = used /\ entry' = entry /\ disk' = disk /\ held' = held
      /\ strained' = strained /\ raced' = raced /\ process' = process
  BY DEF LookUp
<1>3. TypeOK'
  BY <1>1, <1>2 DEF Inv, TypeOK
<1>4. Pinned' = Pinned
  BY <1>2 DEF Pinned
<1>5. \A d \in found' : held'[d.page] > 0
  BY <1>1, <1>2
<1>6. ASSUME ~strained PROVE PagesInPlace'
  <2>1. Index(p) # -1
    <3>1. CASE Index(p) = -1
      BY <1>1, <1>6, <3>1, MissedPage
    <3> QED BY <3>1
  <2>2. Index(p) \in 0 .. used - 1 /\ cb[Index(p)].page = p
    <3>1. used > 0
      <4>1. CASE used = 0
        BY <2>1, <4>1, EmptySearch DEF Index
      <4> QED BY <4>1, BufferPoolAssumption DEF Inv, TypeOK
    <3>2. used \in 1 .. NumFrames /\ cb \in [Frame -> Block]
      BY <3>1, BufferPoolAssumption DEF Inv, TypeOK
    <3>3. PICK s : InOrder(cb, entry, used, s)
      BY <1>6, <3>1 DEF Inv, RingInv
    <3> QED BY <2>1, <3>2, <3>3, SearchInOrder DEF Index
  <2>3. PagesInPlace
    BY <1>6 DEF Inv, RingInv
  <2> QED BY <1>1, <1>2, <1>4, <2>2, <2>3 DEF PagesInPlace
<1>7. RingInv'
  BY <1>2, <1>4, <1>5, <1>6 DEF Inv, RingInv
<1> QED BY <1>3, <1>7 DEF Inv

\* What a write leaves in every frame.
LEMMA WriteFields ==
  ASSUME NEW c \in [Frame -> Block], NEW f \in Frame, NEW v \in Value,
         NEW d, d = Put(c, f, v)
  PROVE  /\ d \in [Frame -> Block]
         /\ \A g \in Frame :
              /\ d[g].page = c[g].page /\ d[g].pins = c[g].pins
              /\ d[g].next = c[g].next /\ d[g].prev = c[g].prev
              /\ d[g].data = IF g = f THEN v ELSE c[g].data
              /\ g # f => d[g] = c[g]
         /\ d[f].dirty
<1> DEFINE b1 == [c[f] EXCEPT !.dirty = TRUE]
           b == [b1 EXCEPT !.data = v]
<1>1. c[f] \in Block
  OBVIOUS
<1>2. b1 \in Block /\ b1.dirty = TRUE /\ b1.page = c[f].page /\ b1.pins = c[f].pins
      /\ b1.next = c[f].next /\ b1.prev = c[f].prev
  BY <1>1 DEF Block
<1>3. d = [c EXCEPT ![f] = b]
  BY DEF Put
<1> HIDE DEF b1
<1>4. b \in Block /\ b.dirty = TRUE /\ b.page = b1.page /\ b.pins = b1.pins
      /\ b.next = b1.next /\ b.prev = b1.prev /\ b.data = v
  BY <1>2 DEF Block
<1> HIDE DEF b
<1>5. d \in [Frame -> Block] /\ \A g \in Frame : d[g] = IF g = f THEN b ELSE c[g]
  BY <1>3, <1>4
<1> QED BY <1>2, <1>4, <1>5

\* The frames a call under way may use.
LEMMA CallFrames ==
  ASSUME Inv, NEW c \in found, NEW f \in FramesOf(c)
  PROVE  /\ c \in [page : Page, frame : Frame \union {-1},
                   entry : Frame \union {-1}, pins : Int]
         /\ f \in Frame \union {-1} /\ (f # -1 => f = c.frame)
         /\ held[c.page] \in 1 .. MaxPins
<1>1. /\ c \in [page : Page, frame : Frame \union {-1},
                entry : Frame \union {-1}, pins : Int]
      /\ held[c.page] > 0 /\ held \in [Page -> 0 .. MaxPins] /\ MaxPins \in Nat
  BY BufferPoolAssumption DEF Inv, TypeOK, RingInv
<1>2. f = c.frame \/ f = -1
  BY DEF FramesOf
<1>3. c.page \in Page /\ c.frame \in Frame \union {-1}
  BY <1>1
<1>4. held[c.page] \in 1 .. MaxPins
  BY <1>1, <1>3
<1> QED BY <1>1, <1>2, <1>3, <1>4

\* A write keeps the invariant: the page it is for is in its frame, and pinned.
LEMMA WriteKeeps ==
  ASSUME Inv, ~raced, process = "up", NEW v \in Value, Write(v)
  PROVE  Inv'
<1> DEFINE writable(f) == f # -1 /\ cb[f].pins # 0
           Rest(c, f) ==
             /\ found' = {}
             /\ cb' = IF writable(f) THEN Put(cb, f, v) ELSE cb
             /\ process' = IF f = -1 THEN "crash" ELSE IF writable(f) THEN process ELSE "exit"
             /\ raced' = (f # c.frame)
             /\ UNCHANGED <<used, entry, disk, held, strained>>
<1>a. PICK c \in found : \E f \in FramesOf(c) : Rest(c, f)
  BY DEF Write
<1>1. PICK f \in FramesOf(c) : Rest(c, f)
  BY <1>a
<1>2. /\ f \in Frame \union {-1} /\ (f # -1 => f = c.frame)
      /\ held[c.page] \in 1 .. MaxPins
  BY CallFrames
<1>3. cb \in [Frame -> Block]
  BY DEF Inv, TypeOK
<1>4. /\ cb' \in [Frame -> Block]
      /\ \A g \in Frame : /\ cb'[g].page = cb[g].page /\ cb'[g].pins = cb[g].pins
                          /\ cb'[g].next = cb[g].next /\ cb'[g].prev = cb[g].prev
  <2>1. CASE writable(f)
    <3>1. f \in Frame /\ cb' = Put(cb, f, v)
      BY <1>1, <1>2, <2>1
    <3>2. f \in Frame
      BY <3>1
    <3> QED BY <1>3, <3>1, <3>2, WriteFields
  <2>2. CASE ~writable(f)
    <3>1. cb' = cb
      BY <1>1, <2>2
    <3> QED BY <1>3, <3>1
  <2> QED BY <2>1, <2>2
<1>5. TypeOK'
  BY <1>1, <1>4 DEF Inv, TypeOK
<1>6. Pinned' = Pinned
  BY <1>1 DEF Pinned
<1>7. ASSUME ~strained
      PROVE  /\ used > 0 => \E s \in [0 .. used - 1 -> 0 .. used - 1] : InOrder(cb', entry, used, s)
             /\ PagesInPlace'
             /\ process' # "up" => raced'
  <2>1. /\ PagesInPlace
        /\ used > 0 => \E s \in [0 .. used - 1 -> 0 .. used - 1] : InOrder(cb, entry, used, s)
    BY <1>7 DEF Inv, RingInv
  <2>2. 0 .. used - 1 \subseteq Frame /\ used \in Nat
    BY BufferPoolAssumption DEF Inv, TypeOK, Frame
  <2>3. used > 0 => \E s \in [0 .. used - 1 -> 0 .. used - 1] : InOrder(cb', entry, used, s)
    <3> SUFFICES ASSUME used > 0
                 PROVE \E s \in [0 .. used - 1 -> 0 .. used - 1] : InOrder(cb', entry, used, s)
      OBVIOUS
    <3>1. PICK s \in [0 .. used - 1 -> 0 .. used - 1] : InOrder(cb, entry, used, s)
      BY <2>1
    <3>2. \A g \in 0 .. used - 1 : cb'[g].next = cb[g].next /\ cb'[g].prev = cb[g].prev
      BY <1>4, <2>2
    <3>3. used \in Nat \ {0}
      BY <2>2
    <3>4. InOrder(cb', entry, used, s)
      BY <3>1, <3>2, <3>3, SamePointers
    <3> QED BY <3>4
  <2>4. PagesInPlace'
    <3>1. \A g \in 0 .. used - 1 : cb'[g].page = cb[g].page /\ cb'[g].pins = cb[g].pins
      BY <1>4, <2>2
    <3>2. used' = used /\ held' = held /\ found' = {}
      BY <1>1
    <3> QED BY <1>6, <2>1, <3>1, <3>2 DEF PagesInPlace
  <2>5. process' # "up" => raced'
    <3>1. cb[c.frame].pins = held[c.page] /\ c.frame \in Frame
      BY <2>1, <2>2 DEF PagesInPlace
    <3>2. held[c.page] # 0 /\ c.frame # -1
      BY <1>2, <3>1, BufferPoolAssumption DEF Frame
    <3>3. f = c.frame => process' = "up"
      BY <1>1, <3>1, <3>2
    <3> QED BY <1>1, <3>3
  <2> QED BY <2>3, <2>4, <2>5
<1>8. RingInv'
  <2>1. /\ used' = used /\ entry' = entry /\ found' = {} /\ strained' = strained
    BY <1>1
  <2>2. IsFiniteSet(Pinned) /\ (used > 0 => entry # -1)
        /\ (~strained => Cardinality(Pinned) < NumFrames)
    BY DEF Inv, RingInv
  <2> QED BY <1>6, <1>7, <2>1, <2>2 DEF RingInv
<1> QED BY <1>5, <1>8 DEF Inv

\* An unpin keeps the invariant, but in a data race: the pin goes to the frame of the
\* page it was taken on.
LEMMA UnpinKeeps ==
  ASSUME Inv, ~raced, process = "up", Unpin
  PROVE  Inv'
<1> DEFINE Rest(c, f) ==
             \/ /\ f = -1
                /\ process' = "crash" /\ raced' = (c.frame # -1)
                /\ UNCHANGED cb
             \/ /\ f # -1
                /\ \E n \in PinsLeft(c, f) : /\ cb' = [cb EXCEPT ![f].pins = n]
                                            /\ raced' = (n # cb[f].pins - 1)
                /\ UNCHANGED process
<1>1. PICK c \in found : \E f \in FramesOf(c) :
        /\ found' = {}
        /\ held' = [held EXCEPT ![c.page] = @ - 1]
        /\ UNCHANGED <<used, entry, disk, strained>>
        /\ Rest(c, f)
  BY DEF Unpin
<1>2. PICK f \in FramesOf(c) : Rest(c, f)
  BY <1>1
<1>3. /\ c \in [page : Page, frame : Frame \union {-1}, entry : Frame \union {-1}, pins : Int]
      /\ f \in Frame \union {-1} /\ (f # -1 => f = c.frame)
      /\ held[c.page] \in 1 .. MaxPins
  BY CallFrames
<1>4. cb \in [Frame -> Block] /\ held \in [Page -> 0 .. MaxPins] /\ MaxPins \in Nat
  BY BufferPoolAssumption DEF Inv, TypeOK
<1>5. /\ held' \in [Page -> 0 .. MaxPins] /\ held'[c.page] = held[c.page] - 1
      /\ \A q \in Page : q # c.page => held'[q] = held[q]
  BY <1>1, <1>3, <1>4
<1>6. Pinned' \subseteq Pinned
  BY <1>3, <1>4, <1>5 DEF Pinned
<1>7. IsFiniteSet(Pinned') /\ (~strained => Cardinality(Pinned') < NumFrames)
  <2>1. IsFiniteSet(Pinned) /\ (~strained => Cardinality(Pinned) < NumFrames)
    BY DEF Inv, RingInv
  <2>2. IsFiniteSet(Pinned') /\ Cardinality(Pinned') <= Cardinality(Pinned)
    BY <1>6, <2>1, FS_Subset
  <2>3. Cardinality(Pinned') \in Nat /\ Cardinality(Pinned) \in Nat /\ NumFrames \in Nat
    BY <2>1, <2>2, FS_CardinalityType, BufferPoolAssumption
  <2> QED BY <2>1, <2>2, <2>3
<1>8. /\ cb' \in [Frame -> Block]
      /\ \A g \in Frame : /\ cb'[g].page = cb[g].page
                          /\ g # c.frame => cb'[g].pins = cb[g].pins
                          /\ cb'[g].next = cb[g].next /\ cb'[g].prev = cb[g].prev
      /\ ~raced' /\ c.frame \in Frame => cb'[c.frame].pins = cb[c.frame].pins - 1
      /\ raced' \in BOOLEAN
      /\ process' \in {"up", "crash"} /\ (c.frame # -1 => (process' # "up" => raced'))
  <2>1. CASE f = -1
    <3>1. cb' = cb /\ process' = "crash" /\ raced' = (c.frame # -1)
      BY <1>2, <2>1
    <3>2. raced' \in BOOLEAN /\ (c.frame # -1 => raced')
      BY <3>1, Zenon
    <3>3. c.frame \in Frame => c.frame # -1
      BY DEF Frame
    <3> QED BY <1>4, <3>1, <3>2, <3>3
  <2>2. CASE f # -1
    <3>1. PICK n \in PinsLeft(c, f) : /\ cb' = [cb EXCEPT ![f].pins = n]
                                      /\ raced' = (n # cb[f].pins - 1)
      BY <1>2, <2>2
    <3>2. f \in Frame /\ f = c.frame /\ process' = "up"
      BY <1>2, <1>3, <2>2
    <3>3. n \in Int
      BY <1>3, <1>4, <3>2 DEF PinsLeft, Block
    <3>4. /\ cb' \in [Frame -> Block]
          /\ \A g \in Frame : /\ cb'[g].page = cb[g].page
                              /\ cb'[g].pins = IF g = f THEN n ELSE cb[g].pins
                              /\ cb'[g].next = cb[g].next /\ cb'[g].prev = cb[g].prev
      BY <1>4, <3>1, <3>2, <3>3 DEF Block
    <3> QED BY <3>1, <3>2, <3>4
  <2> QED BY <2>1, <2>2
<1>9. TypeOK'
  BY <1>1, <1>5, <1>8 DEF Inv, TypeOK
<1>10. ASSUME ~strained
       PROVE  /\ used > 0 => \E s \in [0 .. used - 1 -> 0 .. used - 1] : InOrder(cb', entry, used, s)
              /\ PagesInPlace'
              /\ process' # "up" => raced'
  <2>1. /\ PagesInPlace
        /\ used > 0 => \E s \in [0 .. used - 1 -> 0 .. used - 1] : InOrder(cb, entry, used, s)
    BY <1>10 DEF Inv, RingInv
  <2>2. 0 .. used - 1 \subseteq Frame /\ used \in Nat
    BY BufferPoolAssumption DEF Inv, TypeOK, Frame
  <2>3. used > 0 => \E s \in [0 .. used - 1 -> 0 .. used - 1] : InOrder(cb', entry, used, s)
    <3> SUFFICES ASSUME used > 0
                 PROVE \E s \in [0 .. used - 1 -> 0 .. used - 1] : InOrder(cb', entry, used, s)
      OBVIOUS
    <3>1. PICK s \in [0 .. used - 1 -> 0 .. used - 1] : InOrder(cb, entry, used, s)
      BY <2>1
    <3>2. \A g \in 0 .. used - 1 : cb'[g].next = cb[g].next /\ cb'[g].prev = cb[g].prev
      BY <1>8, <2>2
    <3>3. used \in Nat \ {0}
      BY <2>2
    <3>4. InOrder(cb', entry, used, s)
      BY <3>1, <3>2, <3>3, SamePointers
    <3> QED BY <3>4
  <2>4. /\ c.frame \in 0 .. used - 1 /\ cb[c.frame].page = c.page
        /\ \A g \in 0 .. used - 1 : cb[g].page \in Page /\ cb[g].pins = held[cb[g].page]
        /\ \A g, h \in 0 .. used - 1 : cb[g].page = cb[h].page => g = h
        /\ \A q \in Pinned : \E g \in 0 .. used - 1 : cb[g].page = q
    BY <2>1 DEF PagesInPlace
  <2>5. c.frame \in Frame /\ c.frame # -1
    BY <2>2, <2>4 DEF Frame
  <2>6. \A g \in 0 .. used - 1 : cb'[g].page = cb[g].page
    BY <1>8, <2>2
  <2>7. ~raced' => \A g \in 0 .. used - 1 : cb'[g].pins = held'[cb'[g].page]
    <3> SUFFICES ASSUME ~raced', NEW g \in 0 .. used - 1 PROVE cb'[g].pins = held'[cb'[g].page]
      OBVIOUS
    <3>1. CASE g = c.frame
      BY <1>5, <1>8, <2>4, <2>5, <2>6, <3>1
    <3>2. CASE g # c.frame
      <4>1. cb[g].page # c.page /\ cb[g].page \in Page /\ g \in Frame
        BY <2>2, <2>4, <3>2
      <4>2. cb'[g].pins = cb[g].pins
        BY <1>8, <3>2, <4>1
      <4> QED BY <1>5, <2>4, <2>6, <4>1, <4>2
    <3> QED BY <3>1, <3>2
  <2>8. PagesInPlace'
    BY <1>1, <1>6, <2>4, <2>6, <2>7 DEF PagesInPlace
  <2> QED BY <1>8, <2>3, <2>5, <2>8
<1>11. RingInv'
  <2>1. used' = used /\ entry' = entry /\ found' = {} /\ strained' = strained
    BY <1>1
  <2>2. used > 0 => entry # -1
    BY DEF Inv, RingInv
  <2> QED BY <1>7, <1>10, <2>1, <2>2 DEF RingInv
<1> QED BY <1>9, <1>11 DEF Inv

\* What a flush has written after n frames is what some frame holds.
LEMMA FlushedType ==
  ASSUME TypeOK, NEW n \in 0 .. used
  PROVE  Flushed(n) \in [Page -> Value]
<1> DEFINE dirty(p) == {f \in 0 .. n - 1 : cb[f].dirty /\ cb[f].page = p}
<1>1. /\ cb \in [Frame -> Block] /\ disk \in [Page -> Value] /\ n \in Nat
      /\ 0 .. n - 1 \subseteq Frame
  BY BufferPoolAssumption DEF TypeOK, Frame
<1>2. ASSUME NEW p \in Page, dirty(p) # {}
      PROVE  cb[CHOOSE f \in dirty(p) : \A g \in dirty(p) : g <= f].data \in Value
  <2> DEFINE T == {n - f : f \in dirty(p)}
  <2>1. T \subseteq Nat /\ T # {}
    BY <1>1, <1>2
  <2>2. PICK k \in T : \A h \in T : k <= h
    BY <2>1, Smallest
  <2>3. PICK f \in dirty(p) : k = n - f
    BY <2>2
  <2>4. \A g \in dirty(p) : n - f <= n - g
    BY <2>2, <2>3
  <2>5. \A g \in dirty(p) : g <= f
    BY <1>1, <2>4
  <2>6. \E g \in dirty(p) : \A h \in dirty(p) : h <= g
    BY <2>5
  <2>7. (CHOOSE g \in dirty(p) : \A h \in dirty(p) : h <= g) \in dirty(p)
    BY <2>6
  <2> DEFINE last == CHOOSE g \in dirty(p) : \A h \in dirty(p) : h <= g
  <2>8. last \in Frame
    BY <1>1, <2>7
  <2> HIDE DEF last
  <2>9. cb[last].data \in Value
    BY <1>1, <2>8 DEF Block
  <2> QED BY <2>9 DEF last
<1>3. Flushed(n) = [p \in Page |->
                   IF dirty(p) = {} THEN disk[p]
                   ELSE cb[CHOOSE f \in dirty(p) : \A g \in dirty(p) : g <= f].data]
  BY DEF Flushed
<1> HIDE DEF dirty
<1> QED BY <1>1, <1>2, <1>3

\* A pool that is opened satisfies the invariant.
LEMMA ReopenedKeeps ==
  ASSUME Inv, Reopened, process = "up", process' = process, disk' \in [Page -> Value]
  PROVE  Inv'
<1>1. EmptyBlock \in Block
  <2>1. AnyValue \in Value
    BY BufferPoolAssumption DEF AnyValue
  <2> QED BY <2>1, BufferPoolAssumption DEF EmptyBlock, Block, Frame
<1>2. TypeOK'
  <2>1. /\ cb' \in [Frame -> Block] /\ used' \in 0 .. NumFrames
        /\ entry' \in -1 .. NumFrames - 1
    BY <1>1, BufferPoolAssumption DEF Reopened
  <2>2. held' \in [Page -> 0 .. MaxPins]
    BY BufferPoolAssumption DEF Reopened
  <2>3. found' = {} /\ strained' = FALSE /\ raced' = FALSE /\ process' = "up"
    BY DEF Reopened
  <2> QED BY <2>1, <2>2, <2>3 DEF TypeOK
<1>3. Pinned' = {}
  BY DEF Reopened, Pinned
<1>4. IsFiniteSet({}) /\ Cardinality({}) = 0
  BY FS_EmptySet
<1>5. PagesInPlace'
  <2>1. \A f \in 0 .. 0 - 1 : FALSE
    OBVIOUS
  <2> QED BY <1>3, <2>1 DEF PagesInPlace, Reopened
<1>6. RingInv'
  BY <1>3, <1>4, <1>5, BufferPoolAssumption DEF RingInv, Reopened
<1> QED BY <1>2, <1>6 DEF Inv

\* A pool never used satisfies the invariant.
LEMMA InitKeeps ==
  ASSUME Init
  PROVE  Inv
<1>1. AnyValue \in Value
  BY BufferPoolAssumption DEF AnyValue
<1>2. EmptyBlock \in Block
  BY <1>1, BufferPoolAssumption DEF EmptyBlock, Block, Frame
<1>3. TypeOK
  <2>1. /\ cb \in [Frame -> Block] /\ used \in 0 .. NumFrames
        /\ entry \in -1 .. NumFrames - 1 /\ disk \in [Page -> Value]
    BY <1>1, <1>2, BufferPoolAssumption DEF Init
  <2>2. held \in [Page -> 0 .. MaxPins]
    BY BufferPoolAssumption DEF Init
  <2> QED BY <2>1, <2>2 DEF TypeOK, Init
<1>4. Pinned = {}
  BY DEF Init, Pinned
<1>5. IsFiniteSet({}) /\ Cardinality({}) = 0
  BY FS_EmptySet
<1>6. PagesInPlace
  <2>1. \A f \in 0 .. 0 - 1 : FALSE
    OBVIOUS
  <2> QED BY <1>4, <2>1 DEF PagesInPlace, Init
<1>7. RingInv
  BY <1>4, <1>5, <1>6, BufferPoolAssumption DEF RingInv, Init
<1> QED BY <1>3, <1>7 DEF Inv

\* Every step of the pool keeps the invariant.
LEMMA NextKeeps ==
  ASSUME Inv, Next
  PROVE  Inv'
<1>1. process = "up" /\ ~raced
  BY DEF Next
<1>2. ASSUME NEW p \in Page, ReadHit(p) PROVE Inv'
  BY <1>1, <1>2, HitKeeps
<1>3. ASSUME NEW p \in Page, ReadMiss(p) PROVE Inv'
  BY <1>1, <1>3, MissKeeps
<1>4. ASSUME NEW p \in Page, ReadNoBuffer(p) PROVE Inv'
  BY <1>1, <1>4, NoBufferKeeps
<1>5. ASSUME NEW p \in Page, LookUp(p) PROVE Inv'
  BY <1>1, <1>5, LookUpKeeps
<1>10. ASSUME NEW p \in Page, ReadEmpty(p) PROVE Inv'
  BY <1>1, <1>10, ReadEmptyKeeps
<1>6. ASSUME NEW v \in Value, Write(v) PROVE Inv'
  BY <1>1, <1>6, WriteKeeps
<1>7. CASE Unpin
  BY <1>1, <1>7, UnpinKeeps
<1>8. CASE Shutdown
  <2>1. used \in 0 .. used
    BY BufferPoolAssumption DEF Inv, TypeOK
  <2>2. Reopened /\ process' = process /\ disk' \in [Page -> Value]
    BY <1>8, <2>1, FlushedType DEF Shutdown, Inv
  <2> QED BY <1>1, <2>2, ReopenedKeeps
<1>9. CASE Crash
  <2>1. Reopened /\ process' = process /\ disk' \in [Page -> Value]
    BY <1>9, FlushedType DEF Crash, Inv
  <2> QED BY <1>1, <2>1, ReopenedKeeps
<1> QED BY <1>2, <1>3, <1>4, <1>5, <1>6, <1>7, <1>8, <1>9, <1>10 DEF Next

\* The state of the pool keeps its type and the conditions its steps rely on, for any
\* number of frames and pages.
THEOREM PoolInvariant == Spec => []Inv
<1>1. Init => Inv
  BY InitKeeps
<1>2. Inv /\ [Next]_vars => Inv'
  <2> SUFFICES ASSUME Inv, UNCHANGED vars PROVE Inv'
    BY NextKeeps
  <2>1. TypeOK'
    BY DEF Inv, TypeOK, vars
  <2>2. RingInv'
    BY DEF Inv, RingInv, PagesInPlace, Pinned, vars
  <2> QED BY <2>1, <2>2 DEF Inv
<1> QED BY <1>1, <1>2, PTL DEF Spec

\* The control blocks, the ring's indices and the counters keep their types, also in a
\* pool whose users have strained it.
THEOREM TypeCorrect == Spec => []TypeOK
<1>1. Inv => TypeOK
  BY DEF Inv
<1> QED BY <1>1, PoolInvariant, PTL

\* The frames in use form one ring as long as users leave a frame unpinned.
THEOREM RingIntactHolds == Spec => []RingIntact
<1>1. ASSUME Inv PROVE RingIntact
  <2> SUFFICES ASSUME used > 0, ~strained
               PROVE  LET old == Oldest(cb, entry, used)
                      IN /\ {old[k] : k \in 0 .. used - 1} = 0 .. used - 1
                         /\ old[used - 1] = entry
                         /\ \A f \in 0 .. used - 1 : cb[cb[f].next].prev = f
    BY DEF RingIntact
  <2>1. used \in 1 .. NumFrames /\ used \in Nat \ {0} /\ cb \in [Frame -> Block]
    BY <1>1, BufferPoolAssumption DEF Inv, TypeOK
  <2>2. PICK s : InOrder(cb, entry, used, s)
    BY <1>1 DEF Inv, RingInv
  <2>3. Oldest(cb, entry, used) = s
    BY <2>1, <2>2, WalksInOrder
  <2>4. /\ s \in [0 .. used - 1 -> 0 .. used - 1] /\ s[used - 1] = entry
        /\ \A f \in 0 .. used - 1 : \E k \in 0 .. used - 1 : s[k] = f
    BY <2>2 DEF InOrder, Lists
  <2>5. {s[k] : k \in 0 .. used - 1} = 0 .. used - 1
    BY <2>4
  <2>6. ASSUME NEW f \in 0 .. used - 1 PROVE cb[cb[f].next].prev = f
    <3>1. used \in Nat \ {0}
      BY <2>1
    <3> QED BY <2>2, <3>1, BothWays
  <2> QED BY <2>3, <2>4, <2>5, <2>6
<1> QED BY <1>1, PoolInvariant, PTL

\* A page is in one frame at most, which has the pins its users hold.
THEOREM PinsAgreeHolds == Spec => []PinsAgree
<1>1. ASSUME Inv PROVE PinsAgree
  <2> SUFFICES ASSUME ~strained, ~raced, NEW p \in Page
               PROVE  LET fs == {f \in 0 .. used - 1 : cb[f].page = p}
                      IN /\ Cardinality(fs) <= 1
                         /\ held[p] = IF fs = {} THEN 0 ELSE cb[CHOOSE f \in fs : TRUE].pins
    BY DEF PinsAgree
  <2> DEFINE fs == {f \in 0 .. used - 1 : cb[f].page = p}
  <2>1. /\ \A f, g \in 0 .. used - 1 : cb[f].page = cb[g].page => f = g
        /\ \A f \in 0 .. used - 1 : cb[f].pins = held[cb[f].page]
        /\ \A q \in Pinned : \E f \in 0 .. used - 1 : cb[f].page = q
    BY <1>1 DEF Inv, RingInv, PagesInPlace
  <2>2. held[p] \in Nat
    BY <1>1, BufferPoolAssumption DEF Inv, TypeOK
  <2>3. CASE fs = {}
    <3>1. p \notin Pinned
      BY <2>1, <2>3
    <3>2. held[p] = 0
      BY <2>2, <3>1 DEF Pinned
    <3> QED BY <2>3, <3>2, FS_EmptySet
  <2>4. CASE fs # {}
    <3>1. PICK f : f \in fs
      BY <2>4
    <3>2. fs = {f}
      BY <2>1, <3>1
    <3>3. (CHOOSE g \in fs : TRUE) = f
      BY <3>2
    <3>4. Cardinality(fs) = 1
      BY <3>2, FS_Singleton
    <3> QED BY <2>1, <2>4, <3>1, <3>3, <3>4
  <2> QED BY <2>3, <2>4
<1> QED BY <1>1, PoolInvariant, PTL

\* The pool does not give up on users that leave a frame unpinned, and the control block
\* before the first, read in an empty pool, is the only one it reads that is not there,
\* but in a data race.
THEOREM StaysUpHolds == Spec => []StaysUp
<1>1. Inv => StaysUp
  BY DEF Inv, RingInv, StaysUp
<1> QED BY <1>1, PoolInvariant, PTL

\* A step leaves a page that is pinned before and after it in its frame.
LEMMA PinnedFrame ==
  ASSUME Inv, ~raced, Next, ~strained', NEW p \in Page, held[p] > 0, held'[p] > 0
  PROVE  ~strained /\ \E f \in 0 .. used - 1 : /\ cb[f].page = p
                                              /\ f \in 0 .. used' - 1 /\ cb'[f].page = p
<1> DEFINE Goal == ~strained /\ \E f \in 0 .. used - 1 : /\ cb[f].page = p
                                                         /\ f \in 0 .. used' - 1
                                                         /\ cb'[f].page = p
<1>1. /\ cb \in [Frame -> Block] /\ used \in 0 .. NumFrames /\ NumFrames \in Nat \ {0}
      /\ 0 .. used - 1 \subseteq Frame
  BY BufferPoolAssumption DEF Inv, TypeOK, Frame
<1>2. ~strained => \E f \in 0 .. used - 1 : cb[f].page = p /\ cb[f].pins = held[p]
  BY DEF Inv, RingInv, PagesInPlace, Pinned
<1>3. ASSUME used' = used, strained' = strained, \A f \in Frame : cb'[f].page = cb[f].page
      PROVE  Goal
  BY <1>1, <1>2, <1>3
<1>4. ASSUME NEW q \in Page, ReadHit(q) PROVE Goal
  <2>1. ~strained
    BY <1>4, PinsLeaveOne DEF ReadHit, Inv, RingInv
  <2>2. used' = used /\ \A f \in Frame : cb'[f].page = cb[f].page
    BY <1>4, HitFields DEF ReadHit
  <2> QED BY <1>1, <1>2, <2>1, <2>2
<1>5. ASSUME NEW q \in Page, ReadMiss(q) PROVE Goal
  <2> DEFINE new == Loaded(q)
  <2>1. /\ ~strained /\ Cut(q) = q /\ IsFiniteSet(Pinned \union {q})
        /\ Cardinality(Pinned \union {q}) < NumFrames
        /\ Index(q) = -1 /\ ~NoVictim
    BY <1>5, PinsLeaveOne DEF ReadMiss, Inv, RingInv
  <2>2. /\ used' = new.used
        /\ \/ cb' = Pin(new.cb, FindIndex(new.cb, new.entry, new.used, q))
           \/ cb' = new.cb
    BY <1>5, <2>1 DEF ReadMiss
  <2>3. /\ Into \in Frame /\ new.cb \in [Frame -> Block]
        /\ \A g \in Frame : g # Into => SameContent(cb[g], new.cb[g])
    BY <2>1, LoadedFields DEF Inv, RingInv
  <2>4. /\ 0 .. new.used - 1 = (0 .. used - 1) \union {Into}
        /\ used = NumFrames => cb[Into].pins = 0
        /\ used < NumFrames => Into \notin 0 .. used - 1
        /\ FindIndex(new.cb, new.entry, new.used, q) = Into
    BY <2>1, LoadedWell
  <2> HIDE DEF new
  <2>5. \A g \in Frame : cb'[g].page = new.cb[g].page
    <3>1. \A g \in Frame : Pin(new.cb, Into)[g].page = new.cb[g].page
      BY <2>3, PinFields
    <3> QED BY <2>2, <2>4, <3>1
  <2>6. PICK f \in 0 .. used - 1 : cb[f].page = p /\ cb[f].pins = held[p]
    BY <1>2, <2>1
  <2>7. f # Into
    BY <1>1, <2>4, <2>6
  <2>8. cb'[f].page = p
    BY <1>1, <2>3, <2>5, <2>6, <2>7 DEF SameContent
  <2> QED BY <2>1, <2>2, <2>4, <2>6, <2>8
<1>6. ASSUME NEW q \in Page, ReadNoBuffer(q) PROVE Goal
  <2>1. ~strained
    BY <1>6, PinsLeaveOne DEF ReadNoBuffer, Inv, RingInv
  <2>2. used' = used /\ cb' = cb
    BY <1>6 DEF ReadNoBuffer
  <2> QED BY <1>1, <1>2, <2>1, <2>2
<1>13. ASSUME NEW q \in Page, ReadEmpty(q) PROVE Goal
  <2>1. ~strained
    BY <1>13, PinsLeaveOne DEF ReadEmpty, Inv, RingInv
  <2>2. used' = used /\ cb' = cb
    BY <1>13 DEF ReadEmpty
  <2> QED BY <1>1, <1>2, <2>1, <2>2
<1>7. ASSUME NEW q \in Page, LookUp(q) PROVE Goal
  BY <1>3, <1>7 DEF LookUp
<1>8. ASSUME NEW v \in Value, Write(v) PROVE Goal
  <2>1. PICK c \in found : \E f \in FramesOf(c) :
          /\ cb' = IF f # -1 /\ cb[f].pins # 0 THEN Put(cb, f, v) ELSE cb
          /\ UNCHANGED <<used, strained>>
    BY <1>8 DEF Write
  <2>2. PICK f \in FramesOf(c) :
          /\ cb' = IF f # -1 /\ cb[f].pins # 0 THEN Put(cb, f, v) ELSE cb
          /\ UNCHANGED <<used, strained>>
    BY <2>1
  <2>3. f \in Frame \union {-1}
    BY CallFrames
  <2>4. \A g \in Frame : cb'[g].page = cb[g].page
    <3>1. CASE f # -1 /\ cb[f].pins # 0
      <4>1. f \in Frame /\ cb' = Put(cb, f, v)
        BY <2>2, <2>3, <3>1
      <4> QED BY <1>1, <4>1, WriteFields
    <3>2. CASE ~(f # -1 /\ cb[f].pins # 0)
      BY <2>2, <3>2
    <3> QED BY <3>1, <3>2
  <2> QED BY <1>3, <2>2, <2>4
<1>9. CASE Unpin
  <2>1. PICK c \in found : \E f \in FramesOf(c) :
          /\ UNCHANGED <<used, strained>>
          /\ \/ cb' = cb
             \/ f # -1 /\ \E n \in PinsLeft(c, f) : cb' = [cb EXCEPT ![f].pins = n]
    BY <1>9 DEF Unpin
  <2>2. PICK f \in FramesOf(c) :
          /\ UNCHANGED <<used, strained>>
          /\ \/ cb' = cb
             \/ f # -1 /\ \E n \in PinsLeft(c, f) : cb' = [cb EXCEPT ![f].pins = n]
    BY <2>1
  <2>3. f \in Frame \union {-1}
    BY CallFrames
  <2>4. \A g \in Frame : cb'[g].page = cb[g].page
    <3>1. CASE cb' = cb
      BY <3>1
    <3>2. CASE f # -1 /\ \E n \in PinsLeft(c, f) : cb' = [cb EXCEPT ![f].pins = n]
      <4>1. PICK n : cb' = [cb EXCEPT ![f].pins = n]
        BY <3>2
      <4>2. f \in Frame
        BY <2>3, <3>2
      <4> QED BY <1>1, <4>1, <4>2 DEF Block
    <3> QED BY <2>2, <3>1, <3>2
  <2> QED BY <1>3, <2>2, <2>4
<1>10. CASE Reopened
  BY <1>10 DEF Reopened
<1> QED BY <1>4, <1>5, <1>6, <1>7, <1>8, <1>9, <1>10, <1>13 DEF Next, Shutdown, Crash

\* Where a frame is in use, there are frames in use.
LEMMA SomeInUse ==
  ASSUME NEW n \in 0 .. NumFrames, NEW f \in 0 .. n - 1
  PROVE  n # 0
  BY BufferPoolAssumption

\* The search for the page of a frame in use ends at that frame.
LEMMA PageFound ==
  ASSUME Inv, ~strained, NEW f \in 0 .. used - 1
  PROVE  Index(cb[f].page) = f
<1>1. used > 0 /\ used \in 1 .. NumFrames /\ cb \in [Frame -> Block]
  BY BufferPoolAssumption DEF Inv, TypeOK
<1>2. PICK s : InOrder(cb, entry, used, s)
  BY <1>1 DEF Inv, RingInv
<1>3. \A g, h \in 0 .. used - 1 : cb[g].page = cb[h].page => g = h
  BY DEF Inv, RingInv, PagesInPlace
<1> QED BY <1>1, <1>2, <1>3, SearchHits DEF Index

\* A pinned page stays in its frame until its last pin is given back.
THEOREM PinnedStaysPutHolds == Spec => PinnedStaysPut
<1> DEFINE Stays == \A p \in Page : held[p] > 0 /\ held'[p] > 0 /\ ~strained' => Index(p)' = Index(p)
<1>1. Inv /\ Inv' /\ [Next]_vars => [Stays]_vars
  <2> SUFFICES ASSUME Inv, Inv', Next, NEW p \in Page, held[p] > 0, held'[p] > 0, ~strained'
               PROVE  Index(p)' = Index(p)
    BY DEF vars
  <2>1. ~raced
    BY DEF Next
  <2>2. ~strained /\ \E f \in 0 .. used - 1 : /\ cb[f].page = p
                                             /\ f \in 0 .. used' - 1 /\ cb'[f].page = p
    BY <2>1, PinnedFrame
  <2>3. PICK f \in 0 .. used - 1 : /\ cb[f].page = p
                                   /\ f \in 0 .. used' - 1 /\ cb'[f].page = p
    BY <2>2
  <2>4. Index(p) = f
    BY <2>2, <2>3, PageFound
  <2>5. Index(p)' = f
    <3>1. used' > 0 /\ used' \in 1 .. NumFrames /\ cb' \in [Frame -> Block]
      <4>1. used' \in 0 .. NumFrames /\ cb' \in [Frame -> Block]
        BY DEF Inv, TypeOK
      <4>2. f \in 0 .. used' - 1
        BY <2>3
      <4>3. used' # 0
        BY <4>1, <4>2, SomeInUse
      <4> QED BY <4>1, <4>3, BufferPoolAssumption
    <3>2. PICK s : InOrder(cb', entry', used', s)
      BY <3>1 DEF Inv, RingInv
    <3>3. \A g, h \in 0 .. used' - 1 : cb'[g].page = cb'[h].page => g = h
      BY DEF Inv, RingInv, PagesInPlace
    <3>4. f \in 0 .. used' - 1
      BY <2>3
    <3>5. FindIndex(cb', entry', used', cb'[f].page) = f
      BY <3>1, <3>2, <3>3, <3>4, SearchHits
    <3> QED BY <2>3, <3>5 DEF Index
  <2> QED BY <2>4, <2>5
<1>2. Spec => [][Stays]_vars
  BY <1>1, PoolInvariant, PTL DEF Spec
<1> QED BY <1>2 DEF PinnedStaysPut

-----------------------------------------------------------------------------
(* Sums over finite sets, as FoldFunctionOnSet computes them.              *)

Pick(s) == CHOOSE x \in s : TRUE

\* One round of the recursion: the sums g over smaller sets give those over the subsets
\* of S.
Round(fun, S, g) ==
  [s \in SUBSET S |-> IF s = {} THEN 0 ELSE fun[Pick(s)] + g[s \ {Pick(s)}]]

Total(fun, S) == FoldFunctionOnSet(+, 0, fun, S)

LEMMA TotalIsStep ==
  ASSUME NEW fun, NEW S
  PROVE  Total(fun, S) = (CHOOSE g : g = Round(fun, S, g))[S]
BY DEF Total, FoldFunctionOnSet, MapThenFoldSet, Round, Pick

\* What one element less leaves.
LEMMA OneLess ==
  ASSUME NEW T, IsFiniteSet(T), NEW x \in T
  PROVE  /\ IsFiniteSet(T \ {x}) /\ Cardinality(T) \in Nat /\ Cardinality(T \ {x}) \in Nat
         /\ Cardinality(T) = Cardinality(T \ {x}) + 1
<1>1. IsFiniteSet(T \ {x}) /\ Cardinality(T \ {x}) = Cardinality(T) - 1
  BY FS_RemoveElement
<1>2. Cardinality(T) \in Nat /\ Cardinality(T \ {x}) \in Nat
  BY <1>1, FS_CardinalityType
<1> QED BY <1>1, <1>2

\* Every non-empty finite set has an element that Pick takes.
LEMMA Picked ==
  ASSUME NEW T, T # {}
  PROVE  Pick(T) \in T
BY DEF Pick

\* A sum depends on the values that are added only.
LEMMA SameSums ==
  ASSUME NEW f, NEW A, NEW g, g = Round(f, A, g), NEW e, NEW B, NEW h, h = Round(e, B, h),
         NEW U, U \subseteq A, U \subseteq B, IsFiniteSet(U), \A x \in U : f[x] = e[x]
  PROVE  g[U] = h[U]
<1> DEFINE Good == {n \in Nat : \A T \in SUBSET U : Cardinality(T) = n => g[T] = h[T]}
<1>1. \A T \in SUBSET A : g[T] = IF T = {} THEN 0 ELSE f[Pick(T)] + g[T \ {Pick(T)}]
  BY DEF Round
<1>2. \A T \in SUBSET B : h[T] = IF T = {} THEN 0 ELSE e[Pick(T)] + h[T \ {Pick(T)}]
  BY DEF Round
<1>3. \A T \in SUBSET U : IsFiniteSet(T) /\ Cardinality(T) \in Nat
  BY FS_Subset, FS_CardinalityType
<1>4. g[{}] = 0 /\ h[{}] = 0
  BY <1>1, <1>2
<1>5. 0 \in Good
  <2> SUFFICES ASSUME NEW T \in SUBSET U, Cardinality(T) = 0 PROVE g[T] = h[T]
    OBVIOUS
  <2>1. T = {}
    BY <1>3, FS_EmptySet
  <2> QED BY <1>4, <2>1
<1>6. ASSUME NEW n \in Nat, n \in Good PROVE n + 1 \in Good
  <2> SUFFICES ASSUME NEW T \in SUBSET U, Cardinality(T) = n + 1 PROVE g[T] = h[T]
    OBVIOUS
  <2>1. CASE T = {}
    BY <1>4, <2>1
  <2>2. CASE T # {}
    <3> DEFINE y == Pick(T)
    <3>1. y \in T
      BY <2>2, Picked
    <3>2. Cardinality(T \ {y}) = n
      BY <1>3, <3>1, OneLess
    <3>3. g[T \ {y}] = h[T \ {y}] /\ f[y] = e[y]
      BY <1>6, <3>1, <3>2
    <3>4. g[T] = f[y] + g[T \ {y}] /\ h[T] = e[y] + h[T \ {y}]
      BY <1>1, <1>2, <2>2
    <3> QED BY <3>3, <3>4
  <2> QED BY <2>1, <2>2
<1> HIDE DEF Good
<1>7. Nat \subseteq Good
  BY <1>5, <1>6, Counting
<1>8. Cardinality(U) \in Good /\ U \in SUBSET U
  BY <1>3, <1>7
<1> QED BY <1>8 DEF Good

\* The recursion has a solution, in numbers.
LEMMA SumsExist ==
  ASSUME NEW S, IsFiniteSet(S), NEW f, \A x \in S : f[x] \in Int
  PROVE  \E g : g = Round(f, S, g) /\ \A T \in SUBSET S : g[T] \in Int
<1> DEFINE Part(n) == {T \in SUBSET S : Cardinality(T) <= n}
           Next1(g, T) == IF T = {} THEN 0 ELSE f[Pick(T)] + g[T \ {Pick(T)}]
           Upto(g, n) == /\ g \in [Part(n) -> Int]
                         /\ \A T \in Part(n) : g[T] = Next1(g, T)
           Good == {n \in Nat : \E g : Upto(g, n)}
<1>1. \A T \in SUBSET S : IsFiniteSet(T) /\ Cardinality(T) \in Nat
  BY FS_Subset, FS_CardinalityType
<1>2. 0 \in Good
  <2> DEFINE g == [T \in Part(0) |-> 0]
  <2>1. \A T \in Part(0) : T = {}
    BY <1>1, FS_EmptySet
  <2>2. Upto(g, 0)
    BY <2>1
  <2> QED BY <2>2
<1>3. ASSUME NEW n \in Nat, n \in Good PROVE n + 1 \in Good
  <2>1. PICK g : Upto(g, n)
    BY <1>3
  <2> DEFINE h == [T \in Part(n + 1) |-> Next1(g, T)]
  <2>2. ASSUME NEW T \in Part(n + 1), T # {}
        PROVE  Pick(T) \in T /\ T \ {Pick(T)} \in Part(n) /\ T \ {Pick(T)} \in Part(n + 1)
    <3>1. Pick(T) \in T
      BY <2>2, Picked
    <3>2. Cardinality(T) = Cardinality(T \ {Pick(T)}) + 1 /\ Cardinality(T \ {Pick(T)}) \in Nat
      BY <1>1, <3>1, OneLess
    <3> QED BY <3>1, <3>2
  <2>3. \A T \in Part(n) : h[T] = g[T]
    <3> SUFFICES ASSUME NEW T \in Part(n) PROVE h[T] = g[T]
      OBVIOUS
    <3>1. T \in Part(n + 1)
      BY <1>1
    <3>2. g[T] = Next1(g, T)
      BY <2>1
    <3> HIDE DEF Part, Next1
    <3> QED BY <3>1, <3>2
  <2>4. ASSUME NEW T \in Part(n + 1) PROVE h[T] \in Int /\ h[T] = Next1(h, T)
    <3>1. h[T] = Next1(g, T)
      BY <2>4
    <3>2. CASE T = {}
      BY <3>1, <3>2
    <3>3. CASE T # {}
      <4>1. g[T \ {Pick(T)}] \in Int /\ h[T \ {Pick(T)}] = g[T \ {Pick(T)}]
        BY <2>1, <2>2, <2>3, <3>3
      <4>2. f[Pick(T)] \in Int
        BY <2>2, <3>3
      <4> QED BY <3>1, <3>3, <4>1, <4>2
    <3> QED BY <3>2, <3>3
  <2>5. h \in [Part(n + 1) -> Int]
    <3>1. \A T \in Part(n + 1) : Next1(g, T) \in Int
      BY <2>4
    <3> HIDE DEF Part, Next1
    <3> QED BY <3>1
  <2> HIDE DEF h
  <2>6. Upto(h, n + 1)
    BY <2>4, <2>5
  <2> HIDE DEF Upto
  <2> QED BY <2>6
<1> HIDE DEF Good
<1>4. Nat \subseteq Good
  BY <1>2, <1>3, Counting
<1>5. Cardinality(S) \in Good
  BY <1>1, <1>4
<1>6. PICK g : Upto(g, Cardinality(S))
  BY <1>5 DEF Good
<1>7. Part(Cardinality(S)) = SUBSET S
  BY FS_Subset
<1>8. g = Round(f, S, g)
  BY <1>6, <1>7 DEF Round
<1> QED BY <1>6, <1>7, <1>8

\* What FoldFunctionOnSet computes solves the recursion, in numbers.
LEMMA TotalSolves ==
  ASSUME NEW S, IsFiniteSet(S), NEW f, \A x \in S : f[x] \in Int
  PROVE  \E g : /\ g = Round(f, S, g) /\ \A T \in SUBSET S : g[T] \in Int
                /\ Total(f, S) = g[S]
<1>1. PICK h : h = Round(f, S, h) /\ \A T \in SUBSET S : h[T] \in Int
  BY SumsExist
<1> DEFINE g == CHOOSE g : g = Round(f, S, g)
<1>2. g = Round(f, S, g)
  BY <1>1
<1>3. Total(f, S) = g[S]
  BY TotalIsStep
<1> HIDE DEF g
<1>4. ASSUME NEW T \in SUBSET S PROVE g[T] \in Int
  <2>1. IsFiniteSet(T) /\ T \subseteq S /\ \A x \in T : f[x] = f[x]
    BY FS_Subset
  <2>2. g[T] = h[T]
    BY <1>1, <1>2, <2>1, SameSums
  <2> QED BY <1>1, <2>2
<1> QED BY <1>2, <1>3, <1>4

\* Sums of the same values are the same.
LEMMA TotalSame ==
  ASSUME NEW S, IsFiniteSet(S), NEW f, NEW e, \A x \in S : f[x] \in Int /\ e[x] = f[x]
  PROVE  Total(f, S) = Total(e, S)
<1>1. PICK g : g = Round(f, S, g) /\ Total(f, S) = g[S]
  BY TotalSolves
<1>2. PICK h : h = Round(e, S, h) /\ Total(e, S) = h[S]
  BY TotalSolves
<1>3. g[S] = h[S]
  BY <1>1, <1>2, SameSums
<1> QED BY <1>1, <1>2, <1>3

\* Any element may be added last.
LEMMA TotalSplit ==
  ASSUME NEW S, IsFiniteSet(S), NEW f, \A x \in S : f[x] \in Int, NEW x \in S
  PROVE  /\ Total(f, S) \in Int /\ Total(f, S \ {x}) \in Int
         /\ Total(f, S) = f[x] + Total(f, S \ {x})
<1>1. PICK g : /\ g = Round(f, S, g) /\ \A T \in SUBSET S : g[T] \in Int
               /\ Total(f, S) = g[S]
  BY TotalSolves
<1>2. IsFiniteSet(S \ {x})
  BY OneLess
<1>3. PICK h : h = Round(f, S \ {x}, h) /\ Total(f, S \ {x}) = h[S \ {x}]
  BY <1>2, TotalSolves
<1>4. g[S \ {x}] = h[S \ {x}]
  BY <1>1, <1>2, <1>3, SameSums
<1> DEFINE Good == {n \in Nat : \A T \in SUBSET S : Cardinality(T) = n =>
                                  \A y \in T : g[T] = f[y] + g[T \ {y}]}
<1>5. \A T \in SUBSET S : IsFiniteSet(T) /\ Cardinality(T) \in Nat
  BY FS_Subset, FS_CardinalityType
<1>6. \A T \in SUBSET S : g[T] = IF T = {} THEN 0 ELSE f[Pick(T)] + g[T \ {Pick(T)}]
  BY <1>1 DEF Round
<1>7. 0 \in Good
  BY <1>5, FS_EmptySet
<1>8. ASSUME NEW n \in Nat, n \in Good PROVE n + 1 \in Good
  <2> SUFFICES ASSUME NEW T \in SUBSET S, Cardinality(T) = n + 1, NEW y \in T
               PROVE  g[T] = f[y] + g[T \ {y}]
    OBVIOUS
  <2> DEFINE z == Pick(T)
  <2>1. z \in T
    BY Picked
  <2>2. g[T] = f[z] + g[T \ {z}]
    BY <1>6
  <2> HIDE DEF z
  <2>3. CASE y = z
    BY <2>2, <2>3
  <2>4. CASE y # z
    <3>1. Cardinality(T \ {y}) = n /\ Cardinality(T \ {z}) = n
      BY <1>5, <2>1, OneLess
    <3>2. T \ {y} \in SUBSET S /\ T \ {z} \in SUBSET S /\ z \in T \ {y} /\ y \in T \ {z}
      BY <2>1, <2>4
    <3>3. g[T \ {y}] = f[z] + g[(T \ {y}) \ {z}] /\ g[T \ {z}] = f[y] + g[(T \ {z}) \ {y}]
      BY <1>8, <3>1, <3>2
    <3>4. (T \ {y}) \ {z} = (T \ {z}) \ {y} /\ (T \ {y}) \ {z} \in SUBSET S
      OBVIOUS
    <3>5. f[y] \in Int /\ f[z] \in Int /\ g[(T \ {y}) \ {z}] \in Int
      BY <1>1, <2>1, <3>4
    <3>6. g[T \ {y}] = f[z] + g[(T \ {y}) \ {z}] /\ g[T \ {z}] = f[y] + g[(T \ {y}) \ {z}]
      BY <3>3, <3>4
    <3> QED BY <2>2, <3>5, <3>6
  <2> QED BY <2>3, <2>4
<1> HIDE DEF Good
<1>9. Nat \subseteq Good
  BY <1>7, <1>8, Counting
<1>10. Cardinality(S) \in Good /\ S \in SUBSET S
  BY <1>5, <1>9
<1>11. g[S] = f[x] + g[S \ {x}]
  BY <1>10 DEF Good
<1>12. g[S] \in Int /\ g[S \ {x}] \in Int
  BY <1>1
<1> QED BY <1>1, <1>3, <1>4, <1>11, <1>12

\* A sum of zeros is zero.
LEMMA TotalZero ==
  ASSUME NEW S, IsFiniteSet(S), NEW f, \A x \in S : f[x] = 0
  PROVE  Total(f, S) = 0
<1>1. PICK g : g = Round(f, S, g) /\ Total(f, S) = g[S]
  BY TotalSolves
<1> DEFINE h == [T \in SUBSET S |-> 0]
           e == [x \in S |-> 0]
<1>2. h = Round(e, S, h)
  <2>1. ASSUME NEW T \in SUBSET S
        PROVE  0 = IF T = {} THEN 0 ELSE e[Pick(T)] + h[T \ {Pick(T)}]
    <3>1. CASE T # {}
      <4>1. Pick(T) \in S /\ T \ {Pick(T)} \in SUBSET S
        BY <3>1, Picked
      <4> QED BY <3>1, <4>1
    <3> QED BY <3>1
  <2> QED BY <2>1 DEF Round
<1>3. \A x \in S : f[x] = e[x]
  OBVIOUS
<1> HIDE DEF h, e
<1>4. g[S] = h[S]
  BY <1>1, <1>2, <1>3, SameSums
<1> QED BY <1>1, <1>4 DEF h

\* The sum of e over S is that of f with the value of x changed.
Shifted(f, e, S, x) == /\ Total(f, S) \in Int /\ Total(e, S) \in Int
                       /\ Total(e, S) = Total(f, S) - f[x] + e[x]

\* One value of a sum changes.
LEMMA TotalChanges ==
  ASSUME NEW S, IsFiniteSet(S), NEW f, NEW e, NEW x \in S, \A y \in S : f[y] \in Int,
         e[x] \in Int, \A y \in S \ {x} : e[y] = f[y]
  PROVE  Shifted(f, e, S, x)
<1>1. \A y \in S : e[y] \in Int
  OBVIOUS
<1>2. /\ Total(f, S) \in Int /\ Total(f, S \ {x}) \in Int
      /\ Total(f, S) = f[x] + Total(f, S \ {x})
  BY TotalSplit
<1>3. Total(e, S) \in Int /\ Total(e, S) = e[x] + Total(e, S \ {x})
  BY <1>1, TotalSplit
<1>4. Total(f, S \ {x}) = Total(e, S \ {x})
  <2>1. IsFiniteSet(S \ {x}) /\ \A y \in S \ {x} : f[y] \in Int /\ e[y] = f[y]
    BY OneLess
  <2> QED BY <2>1, TotalSame
<1>5. f[x] \in Int /\ e[x] \in Int
  OBVIOUS
<1> QED BY <1>2, <1>3, <1>4, <1>5 DEF Shifted

-----------------------------------------------------------------------------
(* No pin is lost, also in a pool that has been strained.                  *)

\* The pins of the frames 0 .. n - 1.
Pins(c, n) == Total([f \in Frame |-> c[f].pins], 0 .. n - 1)

\* Frames not in use have no page, so that no call comes upon one, and all pins are
\* those of users.
Counted ==
  /\ \A f \in Frame : used <= f => cb[f].page = NoPage
  /\ \A c \in found : c.frame < used
  /\ process = "up" /\ ~raced => Pins(cb, used) = Total(held, Page)

LEMMA FramesUpTo ==
  ASSUME NEW n \in 0 .. NumFrames
  PROVE  /\ IsFiniteSet(0 .. n - 1) /\ 0 .. n - 1 \subseteq Frame /\ n \in Nat
         /\ 0 .. (n + 1) - 1 = (0 .. n - 1) \union {n}
         /\ \A f \in Frame : f \in 0 .. n - 1 <=> ~(n <= f)
<1>1. n \in Nat /\ NumFrames \in Nat /\ n <= NumFrames
  BY BufferPoolAssumption
<1>2. IsFiniteSet(0 .. n - 1)
  BY <1>1, FS_Interval
<1> QED BY <1>1, <1>2 DEF Frame

\* The pins of frames that keep theirs are the same.
LEMMA SamePins ==
  ASSUME NEW c \in [Frame -> Block], NEW d \in [Frame -> Block], NEW n \in 0 .. NumFrames,
         \A f \in 0 .. n - 1 : d[f].pins = c[f].pins
  PROVE  Pins(d, n) = Pins(c, n)
<1>1. IsFiniteSet(0 .. n - 1) /\ 0 .. n - 1 \subseteq Frame
  BY FramesUpTo
<1> DEFINE x == [f \in Frame |-> c[f].pins]
           y == [f \in Frame |-> d[f].pins]
<1>2. \A f \in 0 .. n - 1 : x[f] \in Int /\ y[f] = x[f]
  BY <1>1 DEF Block
<1> HIDE DEF x, y
<1>3. Total(x, 0 .. n - 1) = Total(y, 0 .. n - 1)
  BY <1>1, <1>2, TotalSame
<1> QED BY <1>3 DEF Pins, x, y

\* One frame's pins change.
LEMMA OtherPins ==
  ASSUME NEW c \in [Frame -> Block], NEW d \in [Frame -> Block], NEW n \in 0 .. NumFrames,
         NEW f \in 0 .. n - 1, \A g \in Frame \ {f} : d[g].pins = c[g].pins
  PROVE  /\ Pins(c, n) \in Int
         /\ Pins(d, n) = Pins(c, n) - c[f].pins + d[f].pins
<1>1. IsFiniteSet(0 .. n - 1) /\ 0 .. n - 1 \subseteq Frame
  BY FramesUpTo
<1> DEFINE old == [g \in Frame |-> c[g].pins]
           new == [g \in Frame |-> d[g].pins]
           U == 0 .. n - 1
<1>2. /\ IsFiniteSet(U) /\ f \in U /\ \A g \in U : old[g] \in Int
      /\ new[f] \in Int /\ old[f] = c[f].pins /\ new[f] = d[f].pins
  BY <1>1 DEF Block
<1>3. \A g \in U \ {f} : new[g] = old[g]
  BY <1>1
<1> HIDE DEF old, new, U
<1>4. /\ Total(old, U) \in Int
      /\ Total(new, U) = Total(old, U) - old[f] + new[f]
  <2>1. IsFiniteSet(U)
    BY <1>2
  <2>2. f \in U
    BY <1>2
  <2>3. \A g \in U : old[g] \in Int
    BY <1>2
  <2>4. new[f] \in Int
    BY <1>2
  <2>5. Shifted(old, new, U, f)
    BY <2>1, <2>2, <2>3, <2>4, <1>3, TotalChanges
  <2> QED BY <2>5 DEF Shifted
<1> QED BY <1>2, <1>4 DEF Pins, old, new, U

\* A frame without pins comes into use.
LEMMA MorePins ==
  ASSUME NEW c \in [Frame -> Block], NEW n \in 0 .. NumFrames, n < NumFrames, c[n].pins = 0
  PROVE  Pins(c, n + 1) = Pins(c, n)
<1> DEFINE x == [g \in Frame |-> c[g].pins]
           U == 0 .. (n + 1) - 1
<1>1. n \in Frame /\ n + 1 \in 0 .. NumFrames
  BY BufferPoolAssumption DEF Frame
<1>2. IsFiniteSet(U) /\ U \subseteq Frame /\ n \in U /\ U \ {n} = 0 .. n - 1
  <2>1. IsFiniteSet(U) /\ U \subseteq Frame
    BY <1>1, FramesUpTo
  <2>2. U = (0 .. n - 1) \union {n} /\ n \notin 0 .. n - 1
    BY FramesUpTo
  <2> QED BY <2>1, <2>2
<1>3. x[n] = 0 /\ \A g \in U : x[g] \in Int
  BY <1>1, <1>2 DEF Block
<1> HIDE DEF x, U
<1>4. /\ Total(x, U) = x[n] + Total(x, U \ {n}) /\ Total(x, U \ {n}) \in Int
  BY <1>2, <1>3, TotalSplit
<1>5. Total(x, U) = Total(x, U \ {n})
  BY <1>3, <1>4
<1>6. Total(x, U) = Total(x, 0 .. n - 1)
  BY <1>2, <1>5
<1> QED BY <1>6 DEF Pins, x, U

\* A pin taken or given back changes the sum of the pins of users by one.
LEMMA OtherHeld ==
  ASSUME IsFiniteSet(Page), held \in [Page -> 0 .. MaxPins], held' \in [Page -> 0 .. MaxPins],
         NEW p \in Page, \A q \in Page : q # p => held'[q] = held[q]
  PROVE  /\ Total(held, Page) \in Int
         /\ Total(held', Page) = Total(held, Page) - held[p] + held'[p]
<1>1. \A q \in Page : held[q] \in Int /\ held'[q] \in Int
  BY BufferPoolAssumption
<1>2. \A q \in Page \ {p} : held'[q] = held[q]
  OBVIOUS
<1> QED BY <1>1, <1>2, TotalChanges DEF Shifted

\* A frame that has a page is in use.
LEMMA PageInUse ==
  ASSUME NEW c, NEW n \in 0 .. NumFrames, \A g \in Frame : n <= g => c[g].page = NoPage,
         NEW p \in Page, NEW f \in Frame, c[f].page = p
  PROVE  f \in 0 .. n - 1 /\ f < n
<1>1. ~(n <= f)
  BY NoPageAssumption
<1> QED BY <1>1, FramesUpTo, BufferPoolAssumption DEF Frame

\* A pin on a frame in use, and one held by a user.
LEMMA PinCounts ==
  ASSUME IsFiniteSet(Page), TypeOK, NEW p \in Page, held' \in [Page -> 0 .. MaxPins],
         held'[p] = held[p] + 1, \A q \in Page : q # p => held'[q] = held[q],
         NEW c \in [Frame -> Block], cb' \in [Frame -> Block], NEW n \in 0 .. NumFrames,
         NEW f \in 0 .. n - 1,
         \A g \in Frame : cb'[g].pins = IF g = f THEN c[g].pins + 1 ELSE c[g].pins,
         Pins(c, n) = Total(held, Page)
  PROVE  Pins(cb', n) = Total(held', Page)
<1>1. f \in Frame /\ c[f].pins \in Int /\ held[p] \in Int
  BY FramesUpTo, BufferPoolAssumption DEF Block, TypeOK
<1>2. /\ Pins(c, n) \in Int
      /\ Pins(cb', n) = Pins(c, n) - c[f].pins + cb'[f].pins
  BY OtherPins
<1>3. Total(held', Page) = Total(held, Page) - held[p] + held'[p]
  BY OtherHeld DEF TypeOK
<1>4. cb'[f].pins = c[f].pins + 1
  BY <1>1
<1> QED BY <1>1, <1>2, <1>3, <1>4

LEMMA HitCounts ==
  ASSUME IsFiniteSet(Page), Inv, Counted, ~raced, process = "up", NEW p \in Page, ReadHit(p)
  PROVE  Counted'
<1> DEFINE f == Index(p)
<1>1. /\ f \in Frame /\ cb[f].page = p /\ cb' \in [Frame -> Block]
      /\ \A g \in Frame :
           /\ cb'[g].page = cb[g].page
           /\ cb'[g].pins = IF g = f THEN cb[g].pins + 1 ELSE cb[g].pins
  BY HitFields
<1>2. TakePin(p) /\ MayPin(p) /\ used' = used /\ found' = found
  BY DEF ReadHit
<1>3. /\ held' \in [Page -> 0 .. MaxPins] /\ held'[p] = held[p] + 1
      /\ \A q \in Page : q # p => held'[q] = held[q]
  BY <1>2, PinTaken DEF Inv, RingInv
<1>4. TypeOK /\ used \in 0 .. NumFrames /\ cb \in [Frame -> Block]
  BY DEF Inv, TypeOK
<1> HIDE DEF f
<1>5. f \in 0 .. used - 1
  BY <1>1, <1>4, PageInUse DEF Counted
<1>6. Pins(cb, used) = Total(held, Page)
  BY DEF Counted
<1>7. Pins(cb', used) = Total(held', Page)
  BY <1>1, <1>3, <1>4, <1>5, <1>6, PinCounts
<1> QED BY <1>1, <1>2, <1>7 DEF Counted

\* What a page that is read in leaves of pages and pins.
LEMMA LoadedCounts ==
  ASSUME Inv, Counted, ~raced, process = "up", ~NoVictim, NEW q \in Page
  PROVE  LET new == Loaded(q)
         IN /\ new.cb \in [Frame -> Block] /\ new.used \in 0 .. NumFrames
            /\ new.entry \in Frame /\ used <= new.used
            /\ \A f \in Frame : new.used <= f => new.cb[f].page = NoPage
            /\ Pins(new.cb, new.used) = Total(held, Page)
<1> DEFINE new == Loaded(q)
<1>1. /\ Into \in Frame /\ new.entry = Into
      /\ new.cb \in [Frame -> Block]
      /\ new.cb[Into].pins = 0
      /\ \A g \in Frame : g # Into => SameContent(cb[g], new.cb[g])
      /\ new.used = UsedAfter /\ new.used \in 1 .. NumFrames
  BY LoadedFields DEF Inv, RingInv
<1>2. /\ used \in 0 .. NumFrames /\ NumFrames \in Nat \ {0} /\ cb \in [Frame -> Block]
      /\ TypeOK /\ (used > 0 => entry # -1)
  BY BufferPoolAssumption DEF Inv, TypeOK, RingInv
<1>3. Pins(cb, used) = Total(held, Page)
  BY DEF Counted
<1>4. \A g \in Frame : g # Into => new.cb[g].page = cb[g].page /\ new.cb[g].pins = cb[g].pins
  BY <1>1 DEF SameContent
<1> HIDE DEF new
<1>5. CASE used < NumFrames
  <2>1. Into = used /\ new.used = used + 1
    BY <1>1, <1>5 DEF Into, UsedAfter
  <2>2. \A g \in 0 .. used - 1 : new.cb[g].pins = cb[g].pins
    <3> SUFFICES ASSUME NEW g \in 0 .. used - 1 PROVE new.cb[g].pins = cb[g].pins
      OBVIOUS
    <3>1. g \in Frame /\ g # used
      BY <1>2, FramesUpTo
    <3> QED BY <1>4, <2>1, <3>1
  <2>3. Pins(new.cb, used) = Pins(cb, used)
    BY <1>1, <1>2, <2>2, SamePins
  <2>4. Pins(new.cb, used + 1) = Pins(new.cb, used)
    BY <1>1, <1>2, <1>5, <2>1, MorePins
  <2>5. ASSUME NEW f \in Frame, new.used <= f PROVE new.cb[f].page = NoPage
    <3>1. used <= f /\ f # Into
      BY <1>2, <2>1, <2>5 DEF Frame
    <3> QED BY <1>4, <3>1 DEF Counted
  <2> QED BY <1>1, <1>2, <1>3, <2>1, <2>3, <2>4, <2>5 DEF new
<1>6. CASE used = NumFrames
  <2>1. Into = Victim /\ new.used = used /\ Victims # {}
    BY <1>1, <1>2, <1>6 DEF Into, UsedAfter, NoVictim
  <2>2. cb[Into].pins = 0
    BY <1>2, <1>6, <2>1, VictimFound
  <2>3. \A g \in 0 .. used - 1 : new.cb[g].pins = cb[g].pins
    <3> SUFFICES ASSUME NEW g \in 0 .. used - 1 PROVE new.cb[g].pins = cb[g].pins
      OBVIOUS
    <3>1. g \in Frame
      BY <1>2, FramesUpTo
    <3> QED BY <1>1, <1>4, <2>2, <3>1
  <2>4. Pins(new.cb, used) = Pins(cb, used)
    BY <1>1, <1>2, <2>3, SamePins
  <2>5. \A f \in Frame : ~(new.used <= f)
    BY <1>2, <1>6, <2>1 DEF Frame
  <2> QED BY <1>1, <1>2, <1>3, <2>1, <2>4, <2>5 DEF new
<1> QED BY <1>2, <1>5, <1>6

LEMMA MissCounts ==
  ASSUME IsFiniteSet(Page), Inv, Counted, ~raced, process = "up", NEW p \in Page, ReadMiss(p)
  PROVE  Counted'
<1> DEFINE new == Loaded(Cut(p))
           f == FindIndex(new.cb, new.entry, new.used, p)
<1>1. /\ MayPin(p) /\ ~NoVictim /\ used' = new.used /\ found' = found
      /\ \/ f # -1 /\ cb' = Pin(new.cb, f) /\ TakePin(p)
         \/ f = -1 /\ cb' = new.cb /\ process' = "exit"
  BY DEF ReadMiss
<1>2. Cut(p) \in Page
  BY BufferPoolAssumption
<1>3. /\ new.cb \in [Frame -> Block] /\ new.used \in 0 .. NumFrames
      /\ new.entry \in Frame /\ used <= new.used
      /\ \A g \in Frame : new.used <= g => new.cb[g].page = NoPage
      /\ Pins(new.cb, new.used) = Total(held, Page)
  BY <1>1, <1>2, LoadedCounts
<1> HIDE DEF new
<1>4. f \in Frame \union {-1} /\ (f # -1 => new.cb[f].page = p)
  <2>1. new.used \in Nat
    BY <1>3, FramesUpTo
  <2> QED BY <1>3, <2>1, SearchType
<1> HIDE DEF f
<1>5. \A c \in found' : c.frame < used'
  <2> SUFFICES ASSUME NEW c \in found PROVE c.frame < new.used
    BY <1>1
  <2>1. c.frame < used /\ c.frame \in Int
    BY DEF Counted, Inv, TypeOK, Frame
  <2>2. used \in Int /\ new.used \in Int
    BY <1>3 DEF Inv, TypeOK
  <2> QED BY <1>3, <2>1, <2>2
<1>6. CASE f = -1 /\ cb' = new.cb /\ process' = "exit"
  BY <1>1, <1>3, <1>5, <1>6 DEF Counted
<1>7. CASE f # -1 /\ cb' = Pin(new.cb, f) /\ TakePin(p)
  <2>1. f \in Frame
    BY <1>4, <1>7
  <2>2. /\ cb' \in [Frame -> Block]
        /\ \A g \in Frame :
             /\ cb'[g].page = new.cb[g].page
             /\ cb'[g].pins = IF g = f THEN new.cb[g].pins + 1 ELSE new.cb[g].pins
    BY <1>3, <1>7, <2>1, PinFields
  <2>3. /\ held' \in [Page -> 0 .. MaxPins] /\ held'[p] = held[p] + 1
        /\ \A q \in Page : q # p => held'[q] = held[q]
    BY <1>1, <1>7, PinTaken DEF Inv, RingInv
  <2>4. f \in 0 .. new.used - 1
    BY <1>3, <1>4, <1>7, <2>1, PageInUse
  <2>5. TypeOK
    BY DEF Inv
  <2>6. Pins(cb', new.used) = Total(held', Page)
    BY <1>3, <2>2, <2>3, <2>4, <2>5, PinCounts
  <2> QED BY <1>1, <1>3, <1>5, <2>2, <2>6 DEF Counted
<1> QED BY <1>1, <1>6, <1>7

LEMMA LookUpCounts ==
  ASSUME Inv, Counted, NEW p \in Page, LookUp(p)
  PROVE  Counted'
<1>1. /\ cb' = cb /\ used' = used /\ held' = held /\ raced' = raced /\ process' = process
  BY DEF LookUp
<1>2. PICK c : found' = {c} /\ c.frame = Index(p)
  BY LookUpFinds
<1>3. c.frame < used
  <2>1. /\ cb \in [Frame -> Block] /\ used \in 0 .. NumFrames /\ used \in Nat
        /\ (used > 0 => entry \in Frame)
    BY BufferPoolAssumption DEF Inv, TypeOK, RingInv, Frame
  <2>2. CASE used > 0
    <3>1. Index(p) \in Frame \union {-1} /\ (Index(p) # -1 => cb[Index(p)].page = p)
      BY <2>1, <2>2, SearchType DEF Index
    <3>2. CASE Index(p) # -1
      BY <1>2, <2>1, <3>1, <3>2, PageInUse DEF Counted
    <3> QED BY <1>2, <2>1, <2>2, <3>2
  <2>3. CASE used = 0
    BY <1>2, <2>1, <2>3, EmptySearch DEF Index
  <2> QED BY <2>1, <2>2, <2>3
<1> QED BY <1>1, <1>2, <1>3 DEF Counted

LEMMA WriteCounts ==
  ASSUME Inv, Counted, ~raced, process = "up", NEW v \in Value, Write(v)
  PROVE  Counted'
<1> DEFINE Rest(f) == /\ found' = {} /\ used' = used /\ held' = held
                      /\ cb' = IF f # -1 /\ cb[f].pins # 0 THEN Put(cb, f, v) ELSE cb
<1>a. PICK c \in found : \E f \in FramesOf(c) : Rest(f)
  BY DEF Write
<1>1. PICK f \in FramesOf(c) : Rest(f)
  BY <1>a
<1>2. cb \in [Frame -> Block] /\ used \in 0 .. NumFrames
  BY DEF Inv, TypeOK
<1>3. /\ cb' \in [Frame -> Block]
      /\ \A g \in Frame : cb'[g].page = cb[g].page /\ cb'[g].pins = cb[g].pins
  <2>1. CASE f # -1 /\ cb[f].pins # 0
    <3>1. f \in Frame
      BY <2>1, CallFrames
    <3> QED BY <1>1, <1>2, <2>1, <3>1, WriteFields
  <2>2. CASE ~(f # -1 /\ cb[f].pins # 0)
    BY <1>1, <1>2, <2>2
  <2> QED BY <2>1, <2>2
<1>4. Pins(cb', used) = Pins(cb, used)
  BY <1>2, <1>3, SamePins, FramesUpTo
<1> QED BY <1>1, <1>3, <1>4 DEF Counted

\* What is left in every frame when the pins of one are set.
LEMMA PinsSet ==
  ASSUME NEW c \in [Frame -> Block], NEW f \in Frame, NEW n \in Int,
         NEW d, d = [c EXCEPT ![f].pins = n]
  PROVE  /\ d \in [Frame -> Block]
         /\ \A g \in Frame : /\ d[g].page = c[g].page /\ d[g].prev = c[g].prev
                             /\ d[g].data = c[g].data /\ d[g].dirty = c[g].dirty
<1> DEFINE b == [c[f] EXCEPT !.pins = n]
<1>1. c[f] \in Block
  OBVIOUS
<1>2. /\ b \in Block /\ b.page = c[f].page /\ b.prev = c[f].prev
      /\ b.data = c[f].data /\ b.dirty = c[f].dirty
  BY <1>1 DEF Block
<1>3. d = [c EXCEPT ![f] = b]
  OBVIOUS
<1> HIDE DEF b
<1>4. d \in [Frame -> Block] /\ \A g \in Frame : d[g] = IF g = f THEN b ELSE c[g]
  BY <1>2, <1>3
<1> QED BY <1>2, <1>4

LEMMA UnpinCounts ==
  ASSUME IsFiniteSet(Page), Inv, Counted, ~raced, process = "up", Unpin
  PROVE  Counted'
<1> DEFINE Rest(c, f) ==
             /\ found' = {} /\ used' = used
             /\ held' = [held EXCEPT ![c.page] = @ - 1]
             /\ \/ f = -1 /\ process' = "crash" /\ cb' = cb
                \/ f # -1 /\ \E n \in PinsLeft(c, f) : /\ cb' = [cb EXCEPT ![f].pins = n]
                                                       /\ raced' = (n # cb[f].pins - 1)
<1>a. PICK c \in found : \E f \in FramesOf(c) : Rest(c, f)
  BY DEF Unpin
<1>1. PICK f \in FramesOf(c) : Rest(c, f)
  BY <1>a
<1>2. /\ cb \in [Frame -> Block] /\ used \in 0 .. NumFrames
      /\ held \in [Page -> 0 .. MaxPins] /\ MaxPins \in Nat
  BY BufferPoolAssumption DEF Inv, TypeOK
<1>3. /\ c.page \in Page /\ c.pins \in Int
      /\ f \in Frame \union {-1} /\ (f # -1 => f = c.frame)
      /\ held[c.page] \in 1 .. MaxPins
  BY CallFrames
<1>4. CASE f = -1 /\ process' = "crash" /\ cb' = cb
  BY <1>1, <1>4 DEF Counted
<1>5. CASE f # -1 /\ \E n \in PinsLeft(c, f) : /\ cb' = [cb EXCEPT ![f].pins = n]
                                               /\ raced' = (n # cb[f].pins - 1)
  <2>1. PICK n \in PinsLeft(c, f) : /\ cb' = [cb EXCEPT ![f].pins = n]
                                    /\ raced' = (n # cb[f].pins - 1)
    BY <1>5
  <2>2. f \in Frame /\ cb[f].pins \in Int /\ f = c.frame
    BY <1>2, <1>3, <1>5 DEF Block
  <2>3. n \in Int
    BY <1>3, <2>2 DEF PinsLeft
  <2>4. f \in 0 .. used - 1
    BY <1>2, <2>2, FramesUpTo DEF Counted, Frame
  <2>5. /\ cb' \in [Frame -> Block]
        /\ \A g \in Frame : cb'[g].page = cb[g].page
    BY <1>2, <2>1, <2>2, <2>3, PinsSet
  <2>6. cb'[f].pins = n /\ \A g \in Frame \ {f} : cb'[g].pins = cb[g].pins
    BY <1>2, <2>1, <2>2 DEF Block
  <2>7. /\ held' \in [Page -> 0 .. MaxPins] /\ held'[c.page] = held[c.page] - 1
        /\ \A q \in Page : q # c.page => held'[q] = held[q]
    BY <1>1, <1>2, <1>3
  <2>8. ASSUME ~raced' PROVE Pins(cb', used) = Total(held', Page)
    <3>1. n = cb[f].pins - 1
      BY <2>1, <2>8
    <3>2. /\ Pins(cb, used) \in Int
          /\ Pins(cb', used) = Pins(cb, used) - cb[f].pins + cb'[f].pins
      BY <1>2, <2>4, <2>5, <2>6, OtherPins
    <3>3. Total(held', Page) = Total(held, Page) - held[c.page] + held'[c.page]
      BY <1>2, <1>3, <2>7, OtherHeld
    <3>4. Pins(cb, used) = Total(held, Page)
      BY DEF Counted
    <3> QED BY <1>3, <2>2, <2>6, <2>7, <3>1, <3>2, <3>3, <3>4
  <2> QED BY <1>1, <2>5, <2>8 DEF Counted
<1> QED BY <1>1, <1>4, <1>5

\* In an empty pool nothing is pinned.
LEMMA NothingCounted ==
  ASSUME IsFiniteSet(Page)
  PROVE  Pins([f \in Frame |-> EmptyBlock], 0) = Total([p \in Page |-> 0], Page)
<1> DEFINE x == [g \in Frame |-> [f \in Frame |-> EmptyBlock][g].pins]
           y == [p \in Page |-> 0]
<1>1. IsFiniteSet({}) /\ 0 .. 0 - 1 = {}
  BY FS_EmptySet
<1>2. \A p \in Page : y[p] = 0
  OBVIOUS
<1> HIDE DEF x, y
<1>3. Total(x, {}) = 0
  BY <1>1, TotalZero
<1>4. Total(y, Page) = 0
  BY <1>2, TotalZero
<1> QED BY <1>1, <1>3, <1>4 DEF Pins, x, y

\* The pins on the frames are those the users have not given back, also in a pool they
\* have strained, until one is lost in a data race.  Page numbers are finitely many: the
\* sum over them is not defined otherwise.
THEOREM PinsConservedHolds ==
  ASSUME IsFiniteSet(Page)
  PROVE  Spec => []PinsConserved
<1>1. Init => Counted
  <2> SUFFICES ASSUME Init PROVE Counted
    OBVIOUS
  <2>1. Pins(cb, used) = Total(held, Page)
    BY NothingCounted DEF Init
  <2> QED BY <2>1 DEF Init, Counted, EmptyBlock
<1>2. Inv /\ Counted /\ [Next]_vars => Counted'
  <2> SUFFICES ASSUME Inv, Counted, [Next]_vars PROVE Counted'
    OBVIOUS
  <2>1. CASE UNCHANGED vars
    BY <2>1 DEF Counted, Pins, vars
  <2>2. CASE Next
    <3>1. process = "up" /\ ~raced
      BY <2>2 DEF Next
    <3>2. ASSUME NEW p \in Page, ReadHit(p) PROVE Counted'
      BY <3>1, <3>2, HitCounts
    <3>3. ASSUME NEW p \in Page, ReadMiss(p) PROVE Counted'
      BY <3>1, <3>3, MissCounts
    <3>4. ASSUME NEW p \in Page, ReadNoBuffer(p) PROVE Counted'
      BY <3>4 DEF ReadNoBuffer, Counted
    <3>9. ASSUME NEW p \in Page, ReadEmpty(p) PROVE Counted'
      BY <3>9 DEF ReadEmpty, Counted
    <3>5. ASSUME NEW p \in Page, LookUp(p) PROVE Counted'
      BY <3>5, LookUpCounts
    <3>6. ASSUME NEW v \in Value, Write(v) PROVE Counted'
      BY <3>1, <3>6, WriteCounts
    <3>7. CASE Unpin
      BY <3>1, <3>7, UnpinCounts
    <3>8. CASE Reopened
      <4>1. Pins(cb', used') = Total(held', Page)
        BY <3>8, NothingCounted DEF Reopened
      <4> QED BY <3>8, <4>1 DEF Reopened, Counted, EmptyBlock
    <3> QED BY <2>2, <3>2, <3>3, <3>4, <3>5, <3>6, <3>7, <3>8, <3>9 DEF Next, Shutdown, Crash
  <2> QED BY <2>1, <2>2
<1>3. Counted => PinsConserved
  BY DEF Counted, PinsConserved, Pins, Total
<1> QED BY <1>1, <1>2, <1>3, PoolInvariant, PTL DEF Spec

-----------------------------------------------------------------------------
(* The pool implements the page cache.  Initial states map to initial      *)
(* states; a hit maps to Touch, a miss to Load or Replace, and looking a   *)
(* frame up to no step.                                                    *)

\* The pages of the frames s lists, from the one used last on.
UseOrder(c, n, s) == [k \in 1 .. n |-> c[s[n - k]].page]

\* What is at each place of a sequence with one element moved or put in front.
LEMMA PromoteIs ==
  ASSUME NEW S, NEW q \in Seq(S), NEW k \in 1 .. Len(q), NEW p \in S
  PROVE  /\ Cache!Promote(q, k, p) \in Seq(S)
         /\ Len(Cache!Promote(q, k, p)) = Len(q)
         /\ \A i \in 1 .. Len(q) : Cache!Promote(q, k, p)[i] =
              IF i = 1 THEN p ELSE IF i <= k THEN q[i - 1] ELSE q[i]
<1> DEFINE a == SubSeq(q, 1, k - 1)
           b == SubSeq(q, k + 1, Len(q))
           d == <<p>> \o a
           r == d \o b
           t(i) == IF i = 1 THEN p ELSE IF i <= k THEN q[i - 1] ELSE q[i]
<1>1. a \in Seq(S) /\ Len(a) = k - 1 /\ \A i \in 1 .. k - 1 : a[i] = q[i]
  OBVIOUS
<1>2. b \in Seq(S) /\ Len(b) = Len(q) - k /\ \A i \in 1 .. Len(q) - k : b[i] = q[k + i]
  OBVIOUS
<1> HIDE DEF a, b
<1>3. d \in Seq(S) /\ Len(d) = k /\ \A i \in 1 .. k : d[i] = IF i = 1 THEN p ELSE q[i - 1]
  BY <1>1
<1> HIDE DEF d
<1>4. r \in Seq(S) /\ Len(r) = Len(q)
      /\ \A i \in 1 .. Len(q) : r[i] = IF i <= k THEN d[i] ELSE b[i - k]
  BY <1>2, <1>3
<1>5. \A i \in 1 .. Len(q) : r[i] = t(i)
  <2> SUFFICES ASSUME NEW i \in 1 .. Len(q) PROVE r[i] = t(i)
    OBVIOUS
  <2>1. CASE i <= k
    BY <1>3, <1>4, <2>1
  <2>2. CASE ~(i <= k)
    <3>1. i - k \in 1 .. Len(q) - k /\ i # 1 /\ k + (i - k) = i
      BY <2>2
    <3> QED BY <1>2, <1>4, <2>2, <3>1
  <2> QED BY <2>1, <2>2
<1>6. Cache!Promote(q, k, p) = r
  BY DEF Cache!Promote, r, d, a, b
<1> HIDE DEF r
<1> QED BY <1>4, <1>5, <1>6

LEMMA InFront ==
  ASSUME NEW S, NEW q \in Seq(S), NEW p \in S
  PROVE  <<p>> \o q = [i \in 1 .. Len(q) + 1 |-> IF i = 1 THEN p ELSE q[i - 1]]
OBVIOUS

\* The order of use is a sequence.
LEMMA UseOrderSeq ==
  ASSUME NEW c, NEW n \in Nat, NEW s, NEW S,
         \A k \in 0 .. n - 1 : c[s[k]].page \in S
  PROVE  UseOrder(c, n, s) \in Seq(S) /\ Len(UseOrder(c, n, s)) = n
<1> DEFINE q == UseOrder(c, n, s)
<1>1. \A k \in 1 .. n : n - k \in 0 .. n - 1
  OBVIOUS
<1>2. q = [k \in 1 .. n |-> c[s[n - k]].page]
  BY DEF UseOrder
<1>3. \A k \in 1 .. n : c[s[n - k]].page \in S
  BY <1>1
<1> HIDE DEF q
<1>4. q \in [1 .. n -> S]
  BY <1>2, <1>3
<1>5. q \in Seq(S)
  BY <1>4
<1>6. Len(q) = n
  BY <1>4, <1>5
<1> QED BY <1>5, <1>6 DEF q

\* Moving the frame used last to the end of the list changes nothing.
LEMMA MovedLast ==
  ASSUME NEW n \in Nat \ {0}, NEW s, Lists(s, n)
  PROVE  Moved(s, n, n - 1) = s
<1>1. s = [k \in 0 .. n - 1 |-> s[k]]
  BY DEF Lists
<1>2. \A k \in 0 .. n - 1 : From(k, n, n - 1) = k
  BY DEF From
<1>3. Moved(s, n, n - 1) = [k \in 0 .. n - 1 |-> s[k]]
  BY <1>2 DEF Moved
<1> QED BY <1>1, <1>3

\* Frames whose pages are those of c, but for page p in frame f.
NewPage(c, d, n, f, p) == \A g \in 0 .. n - 1 : d[g].page = IF g = f THEN p ELSE c[g].page

\* A frame moved to the end of the list puts its page, which may be another one now,
\* in front of the order of use.
LEMMA MovedUse ==
  ASSUME NEW n \in Nat \ {0}, NEW s, Lists(s, n), NEW j \in 0 .. n - 1,
         NEW k \in 1 .. n, j + k = n,
         NEW p \in Page, NEW c, NEW d,
         \A g \in 0 .. n - 1 : c[g].page \in Page,
         NewPage(c, d, n, s[j], p)
  PROVE  UseOrder(d, n, Moved(s, n, j)) = Cache!Promote(UseOrder(c, n, s), k, p)
<1> DEFINE t == Moved(s, n, j)
           at(i) == IF i = 1 THEN p
                    ELSE IF i <= k THEN c[s[n - (i - 1)]].page
                    ELSE c[s[n - i]].page
<1>1. s \in [0 .. n - 1 -> 0 .. n - 1]
  BY DEF Lists
<1>2. \A a, b \in 0 .. n - 1 : s[a] = s[b] => a = b
  BY DEF Lists
<1> DEFINE q == UseOrder(c, n, s)
           r == Cache!Promote(q, k, p)
<1>3. r = [i \in 1 .. n |-> r[i]] /\ \A i \in 1 .. n : r[i] = at(i)
  <2>1. \A i \in 0 .. n - 1 : c[s[i]].page \in Page
    BY <1>1
  <2>2. q \in Seq(Page) /\ Len(q) = n
    BY <2>1, UseOrderSeq
  <2>3. \A i \in 1 .. n : q[i] = c[s[n - i]].page
    BY DEF UseOrder
  <2> HIDE DEF q
  <2>4. q \in Seq(Page) /\ k \in 1 .. Len(q)
    BY <2>2
  <2>5. /\ r \in Seq(Page) /\ Len(r) = Len(q)
        /\ \A i \in 1 .. Len(q) : r[i] = IF i = 1 THEN p ELSE IF i <= k THEN q[i - 1] ELSE q[i]
    BY <2>4, PromoteIs
  <2> HIDE DEF r
  <2>6. \A i \in 1 .. n : i # 1 => q[i - 1] = c[s[n - (i - 1)]].page
    BY <2>3
  <2>7. \A i \in 1 .. n : r[i] = at(i)
    BY <2>2, <2>3, <2>5, <2>6
  <2> QED BY <2>2, <2>5, <2>7
<1> HIDE DEF r
<1>4. ASSUME NEW i \in 1 .. n PROVE d[t[n - i]].page = at(i)
  <2>1. \A g \in 0 .. n - 1 : d[g].page = IF g = s[j] THEN p ELSE c[g].page
    BY DEF NewPage
  <2>2. n - i \in 0 .. n - 1 /\ t[n - i] = s[From(n - i, n, j)]
    BY DEF Moved
  <2>3. CASE i = 1
    <3>1. From(n - i, n, j) = j /\ s[j] \in 0 .. n - 1
      BY <1>1, <2>3 DEF From
    <3> QED BY <2>1, <2>2, <2>3, <3>1
  <2>4. CASE i # 1 /\ i <= k
    <3>1. From(n - i, n, j) = n - (i - 1) /\ n - (i - 1) # j /\ n - (i - 1) \in 0 .. n - 1
      BY <2>4 DEF From
    <3>2. s[n - (i - 1)] \in 0 .. n - 1 /\ s[n - (i - 1)] # s[j]
      BY <1>1, <1>2, <3>1
    <3>3. d[s[n - (i - 1)]].page = c[s[n - (i - 1)]].page
      BY <2>1, <3>2
    <3> QED BY <2>2, <2>4, <3>1, <3>3
  <2>5. CASE i # 1 /\ ~(i <= k)
    <3>1. From(n - i, n, j) = n - i /\ n - i # j
      BY <2>5 DEF From
    <3>2. s[n - i] \in 0 .. n - 1 /\ s[n - i] # s[j]
      BY <1>1, <1>2, <2>2, <3>1
    <3> QED BY <2>1, <2>2, <2>5, <3>1, <3>2
  <2> QED BY <2>3, <2>4, <2>5
<1>5. UseOrder(d, n, t) = [i \in 1 .. n |-> d[t[n - i]].page]
  BY DEF UseOrder
<1> HIDE DEF t, at
<1>6. \A i \in 1 .. n : r[i] = d[t[n - i]].page
  BY <1>3, <1>4
<1>7. UseOrder(d, n, t) = r
  BY <1>3, <1>5, <1>6
<1> QED BY <1>7 DEF t, r, q

\* A new frame puts its page in front of the order of use.
LEMMA AddedUse ==
  ASSUME NEW n \in Nat, NEW m, m = n + 1, NEW s, Lists(s, n), NEW p \in Page, NEW c, NEW d,
         \A g \in 0 .. n - 1 : c[g].page \in Page,
         \A g \in 0 .. n : d[g].page = IF g = n THEN p ELSE c[g].page
  PROVE  UseOrder(d, m, Added(s, n)) = <<p>> \o UseOrder(c, n, s)
<1> DEFINE q == UseOrder(c, n, s)
           t == Added(s, n)
<1>1. \A k \in 0 .. n - 1 : s[k] \in 0 .. n - 1
  BY DEF Lists
<1>2. /\ q \in Seq(Page) /\ Len(q) = n
      /\ \A k \in 1 .. n : q[k] = c[s[n - k]].page
  <2>1. q \in Seq(Page) /\ Len(q) = n
    BY <1>1, UseOrderSeq
  <2>2. \A k \in 1 .. n : q[k] = c[s[n - k]].page
    BY DEF UseOrder
  <2> QED BY <2>1, <2>2
<1> HIDE DEF q
<1>3. <<p>> \o q = [i \in 1 .. n + 1 |-> IF i = 1 THEN p ELSE q[i - 1]]
  BY <1>2, InFront
<1>4. ASSUME NEW i \in 1 .. n + 1
      PROVE  d[t[(n + 1) - i]].page = IF i = 1 THEN p ELSE q[i - 1]
  <2>1. (n + 1) - i \in 0 .. n
    OBVIOUS
  <2>2. t[(n + 1) - i] = IF i = 1 THEN n ELSE s[n - (i - 1)]
    BY <2>1 DEF Added
  <2>3. CASE i = 1
    BY <2>2, <2>3
  <2>4. CASE i # 1
    <3>1. i - 1 \in 1 .. n /\ n - (i - 1) \in 0 .. n - 1
      BY <2>4
    <3>2. s[n - (i - 1)] \in 0 .. n - 1
      BY <1>1, <3>1
    <3>3. d[s[n - (i - 1)]].page = c[s[n - (i - 1)]].page
      BY <3>2
    <3> QED BY <1>2, <2>2, <2>4, <3>1, <3>3
  <2> QED BY <2>3, <2>4
<1>5. UseOrder(d, m, t) = [i \in 1 .. n + 1 |-> d[t[(n + 1) - i]].page]
  BY DEF UseOrder
<1> HIDE DEF t
<1> QED BY <1>3, <1>4, <1>5 DEF q, t

\* The walk back from entry_point meets the pages in the order of use.
LEMMA BackwardsInOrder ==
  ASSUME NEW c \in [Frame -> Block], NEW e, NEW n \in 1 .. NumFrames, NEW s,
         InOrder(c, e, n, s)
  PROVE  [k \in 1 .. n |-> c[Newest(c, e, n)[k - 1]].page] = UseOrder(c, n, s)
<1> DEFINE new == Newest(c, e, n)
<1>1. new = [k \in 0 .. n - 1 |-> s[n - 1 - k]]
  BY WalksInOrder
<1> HIDE DEF new
<1>2. ASSUME NEW k \in 1 .. n PROVE new[k - 1] = s[n - k]
  <2>1. n \in Nat
    BY BufferPoolAssumption
  <2>2. k - 1 \in 0 .. n - 1 /\ n - 1 - (k - 1) = n - k
    BY <2>1
  <2> QED BY <1>1, <2>2
<1>3. [k \in 1 .. n |-> c[new[k - 1]].page] = UseOrder(c, n, s)
  BY <1>2 DEF UseOrder
<1> QED BY <1>3 DEF new

-----------------------------------------------------------------------------
(* The contents of the pages.                                              *)

\* volBar of the frames c, n of them in use, and the file d.
Contents(c, n, d) ==
  [p \in Page |->
     LET fs == {f \in 0 .. n - 1 : c[f].page = p}
     IN IF fs = {} THEN d[p] ELSE c[CHOOSE f \in fs : TRUE].data]

\* Where the frames hold different pages, the content of a page is in its frame, or in
\* the file when it has none.
LEMMA ContentsAre ==
  ASSUME NEW c, NEW n, NEW d,
         \A f, g \in 0 .. n - 1 : c[f].page = c[g].page => f = g
  PROVE  /\ \A f \in 0 .. n - 1 : c[f].page \in Page =>
              Contents(c, n, d)[c[f].page] = c[f].data
         /\ \A p \in Page : (\A f \in 0 .. n - 1 : c[f].page # p) =>
              Contents(c, n, d)[p] = d[p]
<1>1. ASSUME NEW f \in 0 .. n - 1, c[f].page \in Page
      PROVE  Contents(c, n, d)[c[f].page] = c[f].data
  <2> DEFINE fs == {g \in 0 .. n - 1 : c[g].page = c[f].page}
  <2>1. fs = {f}
    OBVIOUS
  <2>2. Contents(c, n, d)[c[f].page] =
          IF fs = {} THEN d[c[f].page] ELSE c[CHOOSE g \in fs : TRUE].data
    BY <1>1 DEF Contents
  <2> HIDE DEF fs
  <2> QED BY <2>1, <2>2
<1>2. ASSUME NEW p \in Page, \A f \in 0 .. n - 1 : c[f].page # p
      PROVE  Contents(c, n, d)[p] = d[p]
  <2>1. {f \in 0 .. n - 1 : c[f].page = p} = {}
    BY <1>2
  <2> QED BY <2>1 DEF Contents
<1> QED BY <1>1, <1>2

\* Frames with the same pages and data, in front of the same file, have the same contents.
LEMMA SameContents ==
  ASSUME NEW c, NEW d, NEW n, NEW x,
         \A f \in 0 .. n - 1 : d[f].page = c[f].page /\ d[f].data = c[f].data
  PROVE  Contents(d, n, x) = Contents(c, n, x)
<1> DEFINE of(b, p) == {f \in 0 .. n - 1 : b[f].page = p}
           in(b, p) == IF of(b, p) = {} THEN x[p] ELSE b[CHOOSE f \in of(b, p) : TRUE].data
<1>1. ASSUME NEW p \in Page PROVE in(d, p) = in(c, p)
  <2>1. of(d, p) = of(c, p)
    OBVIOUS
  <2>2. of(c, p) # {} => (CHOOSE f \in of(c, p) : TRUE) \in of(c, p)
    OBVIOUS
  <2>3. \A f \in of(c, p) : d[f].data = c[f].data
    OBVIOUS
  <2> HIDE DEF of
  <2> QED BY <2>1, <2>2, <2>3
<1>2. Contents(d, n, x) = [p \in Page |-> in(d, p)] /\ Contents(c, n, x) = [p \in Page |-> in(c, p)]
  BY DEF Contents
<1> HIDE DEF in
<1> QED BY <1>1, <1>2

\* What is read of a page whose frame is known, and of one without a frame.
LEMMA VolBarIs ==
  ASSUME ~strained, Inv
  PROVE  /\ volBar = Contents(cb, used, disk)
         /\ \A f \in 0 .. used - 1 : volBar[cb[f].page] = cb[f].data
         /\ \A p \in Page : (\A f \in 0 .. used - 1 : cb[f].page # p) => volBar[p] = disk[p]
<1>1. volBar = Contents(cb, used, disk)
  BY DEF volBar, Contents
<1>2. /\ \A f, g \in 0 .. used - 1 : cb[f].page = cb[g].page => f = g
      /\ \A f \in 0 .. used - 1 : cb[f].page \in Page
  BY DEF Inv, RingInv, PagesInPlace
<1> QED BY <1>1, <1>2, ContentsAre

\* The order of use, as the list the ring is in.
LEMMA OrderBarIs ==
  ASSUME ~strained, Inv
  PROVE  \E s : /\ Lists(s, used)
                /\ used > 0 => InOrder(cb, entry, used, s)
                /\ orderBar = UseOrder(cb, used, s)
<1>1. cb \in [Frame -> Block] /\ used \in Nat /\ used \in 0 .. NumFrames
  BY BufferPoolAssumption DEF Inv, TypeOK
<1>2. orderBar = [k \in 1 .. used |-> cb[Newest(cb, entry, used)[k - 1]].page]
  BY DEF orderBar
<1>3. CASE used = 0
  <2> DEFINE s == [k \in 0 .. used - 1 |-> k]
  <2>1. 0 .. used - 1 = {} /\ 1 .. used = {}
    BY <1>3
  <2>2. Lists(s, used)
    BY <2>1 DEF Lists
  <2>3. orderBar = UseOrder(cb, used, s)
    BY <1>2, <2>1 DEF UseOrder
  <2> QED BY <1>3, <2>2, <2>3
<1>4. CASE used > 0
  <2>1. PICK s : InOrder(cb, entry, used, s)
    BY <1>4 DEF Inv, RingInv
  <2>2. used \in 1 .. NumFrames
    BY <1>1, <1>4
  <2>3. orderBar = UseOrder(cb, used, s)
    BY <1>1, <1>2, <2>1, <2>2, BackwardsInOrder
  <2> QED BY <2>1, <2>3 DEF InOrder
<1> QED BY <1>1, <1>3, <1>4

\* The order of use after a step.
LEMMA OrderBarNext ==
  ASSUME cb' \in [Frame -> Block], used' \in 1 .. NumFrames, NEW t,
         InOrder(cb', entry', used', t)
  PROVE  orderBar' = UseOrder(cb', used', t)
<1>1. orderBar' = [k \in 1 .. used' |-> cb'[Newest(cb', entry', used')[k - 1]].page]
  BY DEF orderBar
<1>2. [k \in 1 .. used' |-> cb'[Newest(cb', entry', used')[k - 1]].page] = UseOrder(cb', used', t)
  BY BackwardsInOrder
<1> QED BY <1>1, <1>2

\* A step that leaves the pages and the ring alone leaves the order of use alone.
LEMMA OrderBarStays ==
  ASSUME Inv, cb' \in [Frame -> Block], used' = used, entry' = entry,
         \A g \in Frame : cb'[g].page = cb[g].page /\ cb'[g].prev = cb[g].prev
  PROVE  orderBar' = orderBar
<1> DEFINE new == Newest(cb, entry, used)
<1>1. cb \in [Frame -> Block] /\ used \in Nat /\ (used > 0 => entry \in Frame)
  BY BufferPoolAssumption DEF Inv, TypeOK, RingInv, Frame
<1>2. [f \in Frame |-> cb'[f].prev] = [f \in Frame |-> cb[f].prev]
  OBVIOUS
<1>3. Newest(cb', entry, used) = new
  BY <1>2 DEF Newest
<1>4. \A k \in 1 .. used : new[k - 1] \in Frame
  <2> SUFFICES ASSUME NEW k \in 1 .. used PROVE new[k - 1] \in Frame
    OBVIOUS
  <2>1. entry \in Frame /\ k - 1 \in 0 .. used - 1
    BY <1>1
  <2>2. new \in [0 .. used - 1 -> Frame]
    BY <1>1, <2>1, SearchStays
  <2> QED BY <2>1, <2>2
<1> HIDE DEF new
<1>5. [k \in 1 .. used |-> cb'[new[k - 1]].page] = [k \in 1 .. used |-> cb[new[k - 1]].page]
  BY <1>4
<1>6. /\ orderBar = [k \in 1 .. used |-> cb[new[k - 1]].page]
      /\ orderBar' = [k \in 1 .. used |-> cb'[Newest(cb', entry, used)[k - 1]].page]
  BY DEF orderBar, new
<1> QED BY <1>3, <1>5, <1>6

-----------------------------------------------------------------------------
(* The steps.                                                              *)

\* A hit is a touch of the page.
LEMMA HitImplements ==
  ASSUME Inv, NEW p \in Page, ReadHit(p), ~strained'
  PROVE  Cache!Touch(p)
<1>1. ~strained
  BY PinsLeaveOne DEF ReadHit, Inv, RingInv
<1>2. /\ used > 0 /\ entry \in Frame /\ Index(p) \in Frame /\ cb[Index(p)].page = p
      /\ cb' \in [Frame -> Block]
      /\ \A g \in Frame : cb'[g].page = cb[g].page /\ cb'[g].data = cb[g].data
  BY HitFields
<1>3. /\ used' = used /\ disk' = disk /\ entry' = Index(p)
      /\ held' = [held EXCEPT ![p] = @ + 1]
  BY DEF ReadHit, TakePin
<1>4. used \in 1 .. NumFrames /\ 0 .. used - 1 \subseteq Frame /\ used \in Nat \ {0}
  BY <1>2, BufferPoolAssumption DEF Inv, TypeOK, Frame
<1>5. PICK s : /\ Lists(s, used) /\ InOrder(cb, entry, used, s)
               /\ orderBar = UseOrder(cb, used, s)
  BY <1>1, <1>2, OrderBarIs
<1>6. PICK j \in 0 .. used - 1 :
        /\ s[j] = Index(p)
        /\ InOrder(cb', Index(p), used, IF j = used - 1 THEN s ELSE Moved(s, used, j))
  BY <1>5, HitOrder
<1>7. InOrder(cb', Index(p), used, Moved(s, used, j))
  <2>1. CASE j = used - 1
    <3>1. Moved(s, used, used - 1) = s
      BY <1>4, <1>5, MovedLast
    <3> QED BY <1>6, <2>1, <3>1
  <2>2. CASE j # used - 1
    BY <1>6, <2>2
  <2> QED BY <2>1, <2>2
<1>8. orderBar' = UseOrder(cb', used, Moved(s, used, j))
  BY <1>2, <1>3, <1>4, <1>7, OrderBarNext
<1>9. PICK k \in 1 .. used : j + k = used
  <2>1. used - j \in 1 .. used /\ j + (used - j) = used
    BY <1>4
  <2> QED BY <2>1
<1>10. /\ \A g \in 0 .. used - 1 : cb[g].page \in Page
       /\ NewPage(cb, cb', used, s[j], p)
  <2>1. \A g \in 0 .. used - 1 : cb[g].page \in Page
    BY <1>1 DEF Inv, RingInv, PagesInPlace
  <2>2. NewPage(cb, cb', used, s[j], p)
    BY <1>2, <1>4, <1>6 DEF NewPage
  <2> QED BY <2>1, <2>2
<1>11. orderBar' = Cache!Promote(orderBar, k, p)
  <2>1. UseOrder(cb', used, Moved(s, used, j)) = Cache!Promote(UseOrder(cb, used, s), k, p)
    <3>1. used \in Nat \ {0} /\ Lists(s, used) /\ j + k = used
      BY <1>4, <1>5, <1>9
    <3> QED BY <1>10, <3>1, MovedUse
  <2> QED BY <1>5, <1>8, <2>1
<1>12. k \in DOMAIN orderBar /\ orderBar[k] = p
  <2>1. used - k = j
    BY <1>4, <1>9
  <2> QED BY <1>2, <1>5, <1>6, <2>1 DEF UseOrder
<1>13. volBar' = volBar
  <2>1. Contents(cb', used, disk) = Contents(cb, used, disk)
    BY <1>2, <1>4, SameContents
  <2>2. volBar = Contents(cb, used, disk)
    BY DEF volBar, Contents
  <2>3. volBar' = Contents(cb', used', disk')
    BY DEF volBar, Contents
  <2> QED BY <1>3, <2>1, <2>2, <2>3
<1> QED BY <1>3, <1>11, <1>12, <1>13 DEF Cache!Touch

\* What a miss leaves in every frame and in the file.
LEMMA MissFields ==
  ASSUME Inv, ~raced, NEW p \in Page, ReadMiss(p), ~strained'
  PROVE  /\ ~strained /\ ~NoVictim /\ Index(p) = -1
         /\ IsFiniteSet(Pinned \union {p}) /\ Cardinality(Pinned \union {p}) < NumFrames
         /\ cb' \in [Frame -> Block] /\ Into \in Frame /\ entry' = Into
         /\ used' = UsedAfter /\ used' \in 1 .. NumFrames
         /\ 0 .. used' - 1 = (0 .. used - 1) \union {Into} /\ 0 .. used' - 1 \subseteq Frame
         /\ \A g \in Frame : /\ cb'[g].next = Loaded(p).cb[g].next
                             /\ cb'[g].prev = Loaded(p).cb[g].prev
         /\ cb'[Into].page = p /\ cb'[Into].data = disk[p]
         /\ \A g \in 0 .. used' - 1 : g # Into =>
              /\ g \in 0 .. used - 1
              /\ cb'[g].page = cb[g].page /\ cb'[g].data = cb[g].data
              /\ cb'[g].dirty = cb[g].dirty
         /\ disk' = IF used < NumFrames THEN disk ELSE WriteBack(disk, cb[Into])
         /\ held' = [held EXCEPT ![p] = @ + 1]
         /\ \A g \in 0 .. used - 1 : cb[g].page # p
<1> DEFINE new == Loaded(p)
           f == FindIndex(new.cb, new.entry, new.used, p)
<1>1. MayPin(p) /\ Index(p) = -1 /\ ~NoVictim
  BY DEF ReadMiss
<1>2. /\ ~strained /\ Cut(p) = p
      /\ IsFiniteSet(Pinned \union {p}) /\ Cardinality(Pinned \union {p}) < NumFrames
  BY <1>1, PinsLeaveOne DEF Inv, RingInv
<1>3. /\ used' = new.used /\ entry' = new.entry /\ disk' = new.disk
      /\ \/ f # -1 /\ cb' = Pin(new.cb, f) /\ TakePin(p)
         \/ f = -1
  BY <1>2 DEF ReadMiss
<1>4. /\ Into \in Frame /\ new.entry = Into
      /\ new.cb \in [Frame -> Block]
      /\ new.cb[Into].page = p /\ new.cb[Into].data = disk[p]
      /\ \A g \in Frame : g # Into => SameContent(cb[g], new.cb[g])
      /\ new.used = UsedAfter /\ new.used \in 1 .. NumFrames
  BY <1>1, LoadedFields DEF Inv, RingInv
<1>5. new.disk = IF used < NumFrames THEN disk ELSE WriteBack(disk, cb[Into])
  BY DEF Loaded, Into
<1>6. /\ 0 .. new.used - 1 = (0 .. used - 1) \union {Into} /\ 0 .. new.used - 1 \subseteq Frame
      /\ f = Into
  BY <1>1, <1>2, LoadedWell
<1>7. \A g \in 0 .. used - 1 : cb[g].page # p
  BY <1>1, <1>2, MissedPage
<1> HIDE DEF f
<1>8. cb' = Pin(new.cb, Into) /\ TakePin(p)
  BY <1>3, <1>4, <1>6 DEF Frame
<1> HIDE DEF new
<1>9. /\ cb' \in [Frame -> Block]
      /\ \A g \in Frame :
           /\ cb'[g].page = new.cb[g].page /\ cb'[g].data = new.cb[g].data
           /\ cb'[g].dirty = new.cb[g].dirty
           /\ cb'[g].next = new.cb[g].next /\ cb'[g].prev = new.cb[g].prev
  BY <1>4, <1>8, PinFields
<1>10. cb'[Into].page = p /\ cb'[Into].data = disk[p]
  BY <1>4, <1>9
<1>11. ASSUME NEW g \in 0 .. used' - 1, g # Into
       PROVE  /\ g \in 0 .. used - 1
              /\ cb'[g].page = cb[g].page /\ cb'[g].data = cb[g].data
              /\ cb'[g].dirty = cb[g].dirty
  <2>1. g \in 0 .. used - 1 /\ g \in Frame
    BY <1>3, <1>6, <1>11
  <2> QED BY <1>4, <1>9, <1>11, <2>1 DEF SameContent
<1>12. held' = [held EXCEPT ![p] = @ + 1]
  BY <1>8 DEF TakePin
<1>13. /\ entry' = Into /\ used' = UsedAfter /\ used' \in 1 .. NumFrames
       /\ 0 .. used' - 1 = (0 .. used - 1) \union {Into} /\ 0 .. used' - 1 \subseteq Frame
       /\ disk' = IF used < NumFrames THEN disk ELSE WriteBack(disk, cb[Into])
  BY <1>3, <1>4, <1>5, <1>6
<1> QED BY <1>1, <1>2, <1>4, <1>7, <1>9, <1>10, <1>11, <1>12, <1>13 DEF new

\* The order of the frames before and after a miss: the page goes to a new frame, or to
\* the oldest frame without pins.
LEMMA MissOrder ==
  ASSUME Inv, ~raced, NEW p \in Page, ReadMiss(p), ~strained'
  PROVE  \E s, j :
           /\ Lists(s, used) /\ orderBar = UseOrder(cb, used, s)
           /\ used = NumFrames => /\ j \in 0 .. used - 1 /\ s[j] = Into /\ cb[s[j]].pins = 0
                                  /\ \A h \in 0 .. used - 1 : cb[s[h]].pins = 0 => j <= h
           /\ orderBar' = UseOrder(cb', used', IF used < NumFrames THEN Added(s, used)
                                               ELSE Moved(s, used, j))
<1>1. /\ ~strained /\ ~NoVictim /\ Index(p) = -1
      /\ IsFiniteSet(Pinned \union {p}) /\ Cardinality(Pinned \union {p}) < NumFrames
      /\ cb' \in [Frame -> Block] /\ Into \in Frame /\ entry' = Into
      /\ used' = UsedAfter /\ used' \in 1 .. NumFrames /\ 0 .. used' - 1 \subseteq Frame
      /\ \A g \in Frame : /\ cb'[g].next = Loaded(p).cb[g].next
                          /\ cb'[g].prev = Loaded(p).cb[g].prev
  BY MissFields
<1>2. /\ cb \in [Frame -> Block] /\ TypeOK /\ PagesInPlace
      /\ used \in 0 .. NumFrames /\ NumFrames \in Nat \ {0}
      /\ used > 0 => entry # -1
  BY <1>1, BufferPoolAssumption DEF Inv, TypeOK, RingInv
<1>3. PICK s : /\ Lists(s, used)
               /\ used > 0 => InOrder(cb, entry, used, s)
               /\ orderBar = UseOrder(cb, used, s)
  BY <1>1, OrderBarIs
<1>4. \E j : used = NumFrames =>
        /\ j \in 0 .. used - 1 /\ s[j] = Victim /\ cb[s[j]].pins = 0 /\ s[j] # entry
        /\ \A h \in 0 .. used - 1 : cb[s[h]].pins = 0 => j <= h
  <2>1. CASE used = NumFrames
    <3>1. used > 0 /\ used \in 1 .. NumFrames /\ InOrder(cb, entry, used, s)
      BY <1>2, <1>3, <2>1
    <3>2. Victims # {} /\ Victim # entry
      BY <1>1, <1>2, <2>1, <3>1, VictimNotLast
    <3>3. Oldest(cb, entry, used) = s
      BY <1>2, <3>1, WalksInOrder
    <3>4. PICK j \in 0 .. used - 1 :
            /\ Victim = s[j] /\ cb[s[j]].pins = 0
            /\ \A h \in 0 .. used - 1 : cb[s[h]].pins = 0 => j <= h
      BY <1>2, <3>1, <3>2, <3>3, VictimFound
    <3> QED BY <3>2, <3>4
  <2>2. CASE used # NumFrames
    BY <2>2
  <2> QED BY <2>1, <2>2
<1>5. PICK j : used = NumFrames =>
        /\ j \in 0 .. used - 1 /\ s[j] = Victim /\ cb[s[j]].pins = 0 /\ s[j] # entry
        /\ \A h \in 0 .. used - 1 : cb[s[h]].pins = 0 => j <= h
  BY <1>4
<1> DEFINE t == IF used < NumFrames THEN Added(s, used) ELSE Moved(s, used, j)
<1>6. InOrder(Loaded(p).cb, Into, UsedAfter, t)
  BY <1>1, <1>2, <1>3, <1>5, LoadedOrder
<1> HIDE DEF t
<1>7. InOrder(cb', entry', used', t)
  <2>1. UsedAfter \in Nat \ {0} /\ 0 .. UsedAfter - 1 \subseteq Frame
    BY <1>1, BufferPoolAssumption
  <2>2. \A g \in 0 .. UsedAfter - 1 : /\ cb'[g].next = Loaded(p).cb[g].next
                                     /\ cb'[g].prev = Loaded(p).cb[g].prev
    BY <1>1, <2>1
  <2>3. InOrder(cb', Into, UsedAfter, t)
    BY <1>6, <2>1, <2>2, SamePointers
  <2> QED BY <1>1, <2>3
<1>8. orderBar' = UseOrder(cb', used', t)
  BY <1>1, <1>7, OrderBarNext
<1>9. used = NumFrames => s[j] = Into
  BY <1>2, <1>5 DEF Into
<1> QED BY <1>3, <1>5, <1>8, <1>9 DEF t

\* A miss changes no content: the page comes from the file, and the one that leaves its
\* frame goes there when the file has not got it.
LEMMA MissContents ==
  ASSUME Inv, CleanOnDisk, ~raced, NEW p \in Page, ReadMiss(p), ~strained', Inv'
  PROVE  /\ volBar' = volBar
         /\ used < NumFrames => disk' = disk
         /\ used = NumFrames => /\ Into \in 0 .. used - 1
                                /\ disk' = [disk EXCEPT ![cb[Into].page] = volBar[cb[Into].page]]
<1>1. /\ ~strained /\ Into \in Frame
      /\ used' = UsedAfter /\ used' \in 1 .. NumFrames
      /\ 0 .. used' - 1 = (0 .. used - 1) \union {Into}
      /\ cb'[Into].page = p /\ cb'[Into].data = disk[p]
      /\ \A g \in 0 .. used' - 1 : g # Into =>
           /\ g \in 0 .. used - 1
           /\ cb'[g].page = cb[g].page /\ cb'[g].data = cb[g].data
      /\ disk' = IF used < NumFrames THEN disk ELSE WriteBack(disk, cb[Into])
      /\ \A g \in 0 .. used - 1 : cb[g].page # p
  BY MissFields
<1>2. /\ cb \in [Frame -> Block] /\ disk \in [Page -> Value]
      /\ used \in 0 .. NumFrames /\ NumFrames \in Nat \ {0}
  BY BufferPoolAssumption DEF Inv, TypeOK
<1>3. /\ \A g \in 0 .. used - 1 : cb[g].page \in Page
      /\ \A g, h \in 0 .. used - 1 : cb[g].page = cb[h].page => g = h
  BY <1>1 DEF Inv, RingInv, PagesInPlace
<1>4. /\ \A g \in 0 .. used - 1 : volBar[cb[g].page] = cb[g].data
      /\ \A q \in Page : (\A g \in 0 .. used - 1 : cb[g].page # q) => volBar[q] = disk[q]
  BY <1>1, VolBarIs
<1>5. /\ volBar' = Contents(cb', used', disk')
      /\ \A g, h \in 0 .. used' - 1 : cb'[g].page = cb'[h].page => g = h
  <2>1. volBar' = Contents(cb', used', disk')
    BY DEF volBar, Contents
  <2> QED BY <2>1 DEF Inv, RingInv, PagesInPlace
<1>6. /\ \A g \in 0 .. used' - 1 : cb'[g].page \in Page => volBar'[cb'[g].page] = cb'[g].data
      /\ \A q \in Page : (\A g \in 0 .. used' - 1 : cb'[g].page # q) => volBar'[q] = disk'[q]
  BY <1>5, ContentsAre
<1>7. used < NumFrames => disk' = disk /\ Into \notin 0 .. used - 1
  BY <1>1, <1>2 DEF Into
<1>8. ASSUME used = NumFrames
      PROVE  /\ Into \in 0 .. used - 1
             /\ disk' = [disk EXCEPT ![cb[Into].page] = volBar[cb[Into].page]]
             /\ disk'[cb[Into].page] = cb[Into].data
             /\ \A q \in Page : q # cb[Into].page => disk'[q] = disk[q]
  <2>1. Into \in 0 .. used - 1
    BY <1>1, <1>8 DEF Frame
  <2> DEFINE b == cb[Into]
  <2>2. b.page \in Page /\ volBar[b.page] = b.data /\ (b.dirty \/ b.data = disk[b.page])
    BY <1>3, <1>4, <2>1 DEF CleanOnDisk
  <2>3. disk' = WriteBack(disk, b)
    BY <1>1, <1>2, <1>8
  <2> HIDE DEF b
  <2>4. disk' = [disk EXCEPT ![b.page] = b.data]
    <3>1. CASE b.dirty
      BY <2>3, <3>1 DEF WriteBack
    <3>2. CASE ~b.dirty
      BY <1>2, <2>2, <2>3, <3>2 DEF WriteBack
    <3> QED BY <3>1, <3>2
  <2> QED BY <1>2, <2>1, <2>2, <2>4 DEF b
<1>9. ASSUME NEW q \in Page PROVE volBar'[q] = volBar[q]
  <2>1. CASE q = p
    <3>1. volBar'[p] = disk[p]
      BY <1>1, <1>6
    <3>2. volBar[p] = disk[p]
      BY <1>1, <1>4
    <3> QED BY <2>1, <3>1, <3>2
  <2>2. CASE \E g \in 0 .. used - 1 : g # Into /\ cb[g].page = q
    <3>1. PICK g \in 0 .. used - 1 : g # Into /\ cb[g].page = q
      BY <2>2
    <3>2. g \in 0 .. used' - 1 /\ cb'[g].page = q /\ cb'[g].data = cb[g].data
      BY <1>1, <3>1
    <3> QED BY <1>4, <1>6, <3>1, <3>2
  <2>3. CASE q # p /\ \A g \in 0 .. used - 1 : g # Into => cb[g].page # q
    <3>1. \A g \in 0 .. used' - 1 : cb'[g].page # q
      BY <1>1, <2>3
    <3>2. volBar'[q] = disk'[q]
      BY <1>6, <3>1
    <3>3. CASE used = NumFrames /\ cb[Into].page = q
      BY <1>4, <1>8, <3>2, <3>3
    <3>4. CASE ~(used = NumFrames /\ cb[Into].page = q)
      <4>1. disk'[q] = disk[q]
        BY <1>2, <1>7, <1>8, <3>4
      <4>2. \A g \in 0 .. used - 1 : cb[g].page # q
        BY <1>2, <1>7, <2>3, <3>4
      <4> QED BY <1>4, <3>2, <4>1, <4>2
    <3> QED BY <3>3, <3>4
  <2> QED BY <2>1, <2>2, <2>3
<1>10. volBar' = volBar
  <2>1. volBar = [q \in Page |-> volBar[q]] /\ volBar' = [q \in Page |-> volBar'[q]]
    BY DEF volBar
  <2> QED BY <1>9, <2>1
<1> QED BY <1>7, <1>8, <1>10

\* A miss is a load, or a replacement of the page unused for longest of those not pinned.
LEMMA MissImplements ==
  ASSUME Inv, CleanOnDisk, ~raced, NEW p \in Page, ReadMiss(p), ~strained', Inv'
  PROVE  Cache!Load(p) \/ Cache!Replace(p)
<1>1. /\ ~strained /\ Into \in Frame
      /\ used' = UsedAfter /\ used' \in 1 .. NumFrames
      /\ 0 .. used' - 1 = (0 .. used - 1) \union {Into}
      /\ cb'[Into].page = p
      /\ \A g \in 0 .. used' - 1 : g # Into => cb'[g].page = cb[g].page
      /\ held' = [held EXCEPT ![p] = @ + 1]
      /\ \A g \in 0 .. used - 1 : cb[g].page # p
  BY MissFields
<1>2. /\ used \in 0 .. NumFrames /\ NumFrames \in Nat \ {0} /\ used \in Nat
      /\ \A g \in 0 .. used - 1 : cb[g].page \in Page /\ cb[g].pins = held[cb[g].page]
      /\ held \in [Page -> 0 .. MaxPins] /\ MaxPins \in Nat
  <2>1. /\ used \in 0 .. NumFrames /\ NumFrames \in Nat \ {0} /\ used \in Nat
        /\ held \in [Page -> 0 .. MaxPins] /\ MaxPins \in Nat
    BY BufferPoolAssumption DEF Inv, TypeOK
  <2>2. \A g \in 0 .. used - 1 : cb[g].page \in Page /\ cb[g].pins = held[cb[g].page]
    BY <1>1 DEF Inv, RingInv, PagesInPlace
  <2> QED BY <2>1, <2>2
<1>3. /\ volBar' = volBar
      /\ used < NumFrames => disk' = disk
      /\ used = NumFrames => /\ Into \in 0 .. used - 1
                             /\ disk' = [disk EXCEPT ![cb[Into].page] = volBar[cb[Into].page]]
  BY MissContents
<1>4. PICK s, j :
        /\ Lists(s, used) /\ orderBar = UseOrder(cb, used, s)
        /\ used = NumFrames => /\ j \in 0 .. used - 1 /\ s[j] = Into /\ cb[s[j]].pins = 0
                               /\ \A h \in 0 .. used - 1 : cb[s[h]].pins = 0 => j <= h
        /\ orderBar' = UseOrder(cb', used', IF used < NumFrames THEN Added(s, used)
                                            ELSE Moved(s, used, j))
  BY MissOrder
<1>5. \A k \in 0 .. used - 1 : s[k] \in 0 .. used - 1
  BY <1>4 DEF Lists
<1>6. /\ DOMAIN orderBar = 1 .. used
      /\ \A k \in 1 .. used : orderBar[k] = cb[s[used - k]].page /\ used - k \in 0 .. used - 1
  BY <1>2, <1>4 DEF UseOrder
<1>7. Len(orderBar) = used
  <2>1. \A k \in 0 .. used - 1 : cb[s[k]].page \in Page
    BY <1>2, <1>5
  <2>2. Len(UseOrder(cb, used, s)) = used
    BY <1>2, <2>1, UseOrderSeq
  <2> QED BY <1>4, <2>2
<1>8. ~Cache!Cached(p)
  <2> SUFFICES ASSUME NEW k \in 1 .. used PROVE orderBar[k] # p
    BY <1>6 DEF Cache!Cached
  <2> QED BY <1>1, <1>5, <1>6
<1>9. CASE used < NumFrames
  <2>1. Into = used /\ used' = used + 1
    BY <1>1, <1>9 DEF Into, UsedAfter
  <2>2. \A g \in 0 .. used : cb'[g].page = IF g = used THEN p ELSE cb[g].page
    BY <1>1, <1>2, <2>1
  <2>3. UseOrder(cb', used', Added(s, used)) = <<p>> \o UseOrder(cb, used, s)
    BY <1>2, <1>4, <2>1, <2>2, AddedUse, SMTT(30)
  <2>4. orderBar' = <<p>> \o orderBar
    BY <1>4, <1>9, <2>3
  <2> QED BY <1>1, <1>3, <1>7, <1>8, <1>9, <2>4 DEF Cache!Load
<1>10. CASE used = NumFrames
  <2>1. /\ used' = used /\ used \in Nat \ {0} /\ ~(used < NumFrames) /\ Into \in 0 .. used - 1
        /\ j \in 0 .. used - 1 /\ s[j] = Into /\ cb[s[j]].pins = 0
    BY <1>1, <1>2, <1>3, <1>4, <1>10 DEF UsedAfter
  <2>2. PICK k \in 1 .. used : j + k = used
    <3>1. used - j \in 1 .. used /\ j + (used - j) = used
      BY <2>1
    <3> QED BY <3>1
  <2>3. NewPage(cb, cb', used, s[j], p)
    BY <1>1, <2>1 DEF NewPage
  <2>4. UseOrder(cb', used, Moved(s, used, j)) = Cache!Promote(UseOrder(cb, used, s), k, p)
    <3>1. \A g \in 0 .. used - 1 : cb[g].page \in Page
      BY <1>2
    <3>2. used \in Nat \ {0} /\ Lists(s, used) /\ j + k = used /\ j \in 0 .. used - 1
      BY <1>4, <2>1, <2>2
    <3> QED BY <2>3, <3>1, <3>2, MovedUse
  <2>5. orderBar' = Cache!Promote(orderBar, k, p)
    BY <1>4, <2>1, <2>4
  <2>6. used - k = j
    BY <2>1, <2>2
  <2>7. k \in DOMAIN orderBar /\ orderBar[k] = cb[Into].page
    BY <1>6, <2>1, <2>6
  <2>8. held[orderBar[k]] = 0
    BY <1>2, <2>1, <2>7
  <2>9. ASSUME NEW i \in k + 1 .. Len(orderBar) PROVE held[orderBar[i]] > 0
    <3>1. i \in 1 .. used /\ used - i < j /\ used - i \in 0 .. used - 1
      BY <1>2, <1>7, <2>6
    <3>2. cb[s[used - i]].pins # 0
      BY <1>4, <1>10, <2>1, <3>1
    <3>3. s[used - i] \in 0 .. used - 1
      BY <1>5, <3>1
    <3>4. orderBar[i] = cb[s[used - i]].page
      BY <1>6, <3>1
    <3>5. held[orderBar[i]] # 0 /\ held[orderBar[i]] \in 0 .. MaxPins
      BY <1>2, <3>2, <3>3, <3>4
    <3> QED BY <1>2, <3>5
  <2>10. disk' = [disk EXCEPT ![orderBar[k]] = volBar[orderBar[k]]]
    BY <1>3, <1>10, <2>7
  <2> QED BY <1>1, <1>3, <1>7, <1>8, <1>10, <2>5, <2>7, <2>8, <2>9, <2>10 DEF Cache!Replace
<1> QED BY <1>2, <1>9, <1>10

\* What a write or an unpin under way has in hand: its page, in its frame, with a pin.
LEMMA CallInPlace ==
  ASSUME Inv, ~raced, ~strained, NEW c \in found
  PROVE  /\ c.frame \in 0 .. used - 1 /\ c.frame \in Frame /\ c.frame # -1
         /\ cb[c.frame].page = c.page /\ c.page \in Page
         /\ held[c.page] > 0 /\ cb[c.frame].pins = held[c.page] /\ held[c.page] # 0
<1>1. c.frame \in 0 .. used - 1 /\ cb[c.frame].page = c.page
  BY DEF Inv, RingInv, PagesInPlace
<1>2. cb[c.frame].page \in Page /\ cb[c.frame].pins = held[cb[c.frame].page]
  BY <1>1 DEF Inv, RingInv, PagesInPlace
<1>3. held[c.page] > 0 /\ held \in [Page -> 0 .. MaxPins] /\ MaxPins \in Nat
  BY BufferPoolAssumption DEF Inv, TypeOK, RingInv
<1>4. used \in 0 .. NumFrames /\ NumFrames \in Nat
  BY BufferPoolAssumption DEF Inv, TypeOK
<1>5. c.frame \in Frame /\ c.frame # -1
  BY <1>1, <1>4 DEF Frame
<1>6. held[c.page] # 0
  BY <1>1, <1>2, <1>3
<1> QED BY <1>1, <1>2, <1>3, <1>5, <1>6

\* What the rest of a write does: the page it had found is written, but in a data race,
\* where nothing is.
LEMMA WriteEffect ==
  ASSUME Inv, ~raced, ~strained, NEW v \in Value, Write(v)
  PROVE  /\ UNCHANGED <<used, entry, disk, held, strained>>
         /\ \/ \E c \in found : cb' = Put(cb, c.frame, v)
            \/ cb' = cb /\ raced'
<1> DEFINE Rest(c, f) ==
             /\ cb' = IF f # -1 /\ cb[f].pins # 0 THEN Put(cb, f, v) ELSE cb
             /\ raced' = (f # c.frame)
             /\ UNCHANGED <<used, entry, disk, held, strained>>
<1>1. PICK c \in found : \E f \in FramesOf(c) : Rest(c, f)
  BY DEF Write
<1>2. PICK f \in FramesOf(c) : Rest(c, f)
  BY <1>1
<1>3. f = c.frame \/ f = -1
  BY DEF FramesOf
<1>4. c.frame # -1 /\ cb[c.frame].pins # 0
  BY CallInPlace
<1>5. CASE f = c.frame
  <2>1. cb' = Put(cb, c.frame, v)
    BY <1>2, <1>4, <1>5
  <2> QED BY <1>2, <2>1
<1>6. CASE f # c.frame
  <2>1. cb' = cb
    BY <1>2, <1>3, <1>6
  <2>2. raced'
    BY <1>2, <1>6, Zenon
  <2> QED BY <1>2, <2>1, <2>2
<1> QED BY <1>5, <1>6

\* A write is a write of the page.
LEMMA WriteImplements ==
  ASSUME Inv, ~raced, ~strained, NEW v \in Value, Write(v), ~raced', Inv'
  PROVE  \E p \in Page : Cache!Write(p, v)
<1>1. PICK c \in found : cb' = Put(cb, c.frame, v)
  BY WriteEffect
<1>2. used' = used /\ entry' = entry /\ disk' = disk /\ held' = held /\ strained' = strained
  BY WriteEffect
<1>3. /\ c.frame \in 0 .. used - 1 /\ c.frame \in Frame
      /\ cb[c.frame].page = c.page /\ c.page \in Page /\ held[c.page] > 0
  BY CallInPlace
<1>4. cb \in [Frame -> Block] /\ 0 .. used - 1 \subseteq Frame
  BY BufferPoolAssumption DEF Inv, TypeOK, Frame
<1>5. /\ cb' \in [Frame -> Block]
      /\ \A g \in Frame : /\ cb'[g].page = cb[g].page /\ cb'[g].prev = cb[g].prev
                          /\ cb'[g].data = IF g = c.frame THEN v ELSE cb[g].data
  BY <1>1, <1>3, <1>4, WriteFields
<1>6. orderBar' = orderBar
  BY <1>2, <1>5, OrderBarStays
<1>7. /\ \A f \in 0 .. used - 1 : volBar[cb[f].page] = cb[f].data
      /\ \A p \in Page : (\A f \in 0 .. used - 1 : cb[f].page # p) => volBar[p] = disk[p]
      /\ \A f, g \in 0 .. used - 1 : cb[f].page = cb[g].page => f = g
      /\ \A f \in 0 .. used - 1 : cb[f].page \in Page
  BY VolBarIs DEF Inv, RingInv, PagesInPlace
<1>8. \A f, g \in 0 .. used - 1 : cb'[f].page = cb'[g].page => f = g
  BY <1>4, <1>5, <1>7
<1>9. volBar' = Contents(cb', used, disk)
  BY <1>2 DEF volBar, Contents
<1>10. /\ \A f \in 0 .. used - 1 : cb'[f].page \in Page => volBar'[cb'[f].page] = cb'[f].data
       /\ \A p \in Page : (\A f \in 0 .. used - 1 : cb'[f].page # p) => volBar'[p] = disk[p]
  BY <1>8, <1>9, ContentsAre
<1>11. ASSUME NEW q \in Page PROVE volBar'[q] = IF q = c.page THEN v ELSE volBar[q]
  <2>1. CASE \E f \in 0 .. used - 1 : cb[f].page = q
    <3>1. PICK f \in 0 .. used - 1 : cb[f].page = q
      BY <2>1
    <3>2. volBar'[q] = cb'[f].data /\ volBar[q] = cb[f].data
      BY <1>4, <1>5, <1>7, <1>10, <3>1
    <3>3. q = c.page <=> f = c.frame
      BY <1>3, <1>7, <3>1
    <3> QED BY <1>4, <1>5, <3>2, <3>3
  <2>2. CASE \A f \in 0 .. used - 1 : cb[f].page # q
    <3>1. volBar'[q] = disk[q] /\ volBar[q] = disk[q]
      BY <1>4, <1>5, <1>7, <1>10, <2>2
    <3> QED BY <1>3, <2>2, <3>1
  <2> QED BY <2>1, <2>2
<1>12. volBar' = [volBar EXCEPT ![c.page] = v]
  <2>1. volBar = [q \in Page |-> volBar[q]] /\ volBar' = [q \in Page |-> volBar'[q]]
    BY DEF volBar
  <2> QED BY <1>11, <2>1
<1> QED BY <1>2, <1>3, <1>6, <1>12 DEF Cache!Write

\* What the rest of an unpin does: the pin goes from the frame of its page, but in a data
\* race, where another number of pins is left, or none is taken off.
LEMMA UnpinEffect ==
  ASSUME Inv, ~raced, ~strained, Unpin
  PROVE  /\ UNCHANGED <<used, entry, disk, strained>>
         /\ \E c \in found : /\ held' = [held EXCEPT ![c.page] = @ - 1]
                             /\ \/ \E n : cb' = [cb EXCEPT ![c.frame].pins = n] /\ n \in Int
                                \/ cb' = cb
<1> DEFINE Rest(c, f) ==
             \/ f = -1 /\ UNCHANGED cb
             \/ f # -1 /\ \E n \in PinsLeft(c, f) : cb' = [cb EXCEPT ![f].pins = n]
<1>1. PICK c \in found : \E f \in FramesOf(c) :
        /\ held' = [held EXCEPT ![c.page] = @ - 1]
        /\ UNCHANGED <<used, entry, disk, strained>>
        /\ Rest(c, f)
  BY DEF Unpin
<1>2. PICK f \in FramesOf(c) : Rest(c, f)
  BY <1>1
<1>3. f = c.frame \/ f = -1
  BY DEF FramesOf
<1>4. CASE f = -1
  BY <1>1, <1>2, <1>4
<1>5. CASE f # -1
  <2>1. PICK n \in PinsLeft(c, f) : cb' = [cb EXCEPT ![f].pins = n]
    BY <1>2, <1>5
  <2>2. cb \in [Frame -> Block] /\ c.frame \in Frame /\ c.pins \in Int
    BY CallInPlace DEF Inv, TypeOK
  <2>3. cb[c.frame].pins \in Int
    BY <2>2 DEF Block
  <2>4. n \in Int
    BY <1>3, <1>5, <2>1, <2>2, <2>3 DEF PinsLeft
  <2> QED BY <1>1, <1>3, <1>5, <2>1, <2>4
<1> QED BY <1>4, <1>5

\* An unpin leaves every frame but for its pins.
LEMMA UnpinFields ==
  ASSUME Inv, ~raced, ~strained, Unpin
  PROVE  /\ cb' \in [Frame -> Block]
         /\ \A g \in Frame : /\ cb'[g].page = cb[g].page /\ cb'[g].prev = cb[g].prev
                             /\ cb'[g].data = cb[g].data /\ cb'[g].dirty = cb[g].dirty
<1>1. PICK c \in found : \/ \E n : cb' = [cb EXCEPT ![c.frame].pins = n] /\ n \in Int
                         \/ cb' = cb
  BY UnpinEffect
<1>2. cb \in [Frame -> Block] /\ c.frame \in Frame
  BY CallInPlace DEF Inv, TypeOK
<1>3. CASE cb' = cb
  BY <1>2, <1>3
<1>4. CASE \E n : cb' = [cb EXCEPT ![c.frame].pins = n] /\ n \in Int
  <2>1. PICK n \in Int : cb' = [cb EXCEPT ![c.frame].pins = n]
    BY <1>4
  <2> QED BY <1>2, <2>1, PinsSet
<1> QED BY <1>1, <1>3, <1>4

\* An unpin is an unpin of the page.
LEMMA UnpinImplements ==
  ASSUME Inv, ~raced, ~strained, Unpin
  PROVE  \E p \in Page : Cache!Unpin(p)
<1>1. used' = used /\ entry' = entry /\ disk' = disk
  BY UnpinEffect
<1>2. PICK c \in found : held' = [held EXCEPT ![c.page] = @ - 1]
  BY UnpinEffect
<1>3. c.page \in Page /\ held[c.page] > 0
  BY CallInPlace
<1>4. /\ cb' \in [Frame -> Block]
      /\ \A g \in Frame : /\ cb'[g].page = cb[g].page /\ cb'[g].prev = cb[g].prev
                          /\ cb'[g].data = cb[g].data
  BY UnpinFields
<1>5. orderBar' = orderBar
  BY <1>1, <1>4, OrderBarStays
<1>6. volBar' = volBar
  <2>1. 0 .. used - 1 \subseteq Frame
    BY BufferPoolAssumption DEF Inv, TypeOK, Frame
  <2>2. Contents(cb', used, disk) = Contents(cb, used, disk)
    BY <1>4, <2>1, SameContents
  <2>3. volBar = Contents(cb, used, disk) /\ volBar' = Contents(cb', used', disk')
    BY DEF volBar, Contents
  <2> QED BY <1>1, <2>2, <2>3
<1> QED BY <1>1, <1>2, <1>3, <1>5, <1>6 DEF Cache!Unpin

\* What a flush has written after n frames is what the pages are in the cache, or the
\* file as it was.
LEMMA FlushedPages ==
  ASSUME Inv, ~strained, NEW n \in 0 .. used, NEW p \in Page
  PROVE  Flushed(n)[p] = IF \E f \in 0 .. n - 1 : cb[f].dirty /\ cb[f].page = p
                         THEN volBar[p] ELSE disk[p]
<1> DEFINE dirty == {f \in 0 .. n - 1 : cb[f].dirty /\ cb[f].page = p}
           last == CHOOSE f \in dirty : \A g \in dirty : g <= f
<1>1. Flushed(n)[p] = IF dirty = {} THEN disk[p] ELSE cb[last].data
  BY DEF Flushed
<1>2. CASE dirty = {}
  BY <1>1, <1>2
<1>3. CASE dirty # {}
  <2>1. PICK f \in 0 .. n - 1 : f \in dirty
    BY <1>3
  <2>2. n \in Nat /\ 0 .. n - 1 \subseteq 0 .. used - 1
    BY BufferPoolAssumption DEF Inv, TypeOK
  <2>3. /\ volBar[cb[f].page] = cb[f].data /\ cb[f].page = p
        /\ \A g \in 0 .. used - 1 : cb[f].page = cb[g].page => f = g
    BY <2>1, <2>2, VolBarIs DEF Inv, RingInv, PagesInPlace
  <2>4. dirty = {f} /\ f <= f
    BY <2>1, <2>2, <2>3
  <2>5. \E g \in 0 .. n - 1 : cb[g].dirty /\ cb[g].page = p
    BY <2>1
  <2> HIDE DEF dirty
  <2>6. last = f
    BY <2>4
  <2> HIDE DEF last
  <2> QED BY <1>1, <1>3, <2>3, <2>5, <2>6
<1> QED BY <1>2, <1>3

\* A flush that gets to its end leaves in the file what the cache holds.
LEMMA FlushedIs ==
  ASSUME Inv, ~strained, CleanOnDisk
  PROVE  Flushed(used) = volBar
<1>1. /\ \A f \in 0 .. used - 1 : volBar[cb[f].page] = cb[f].data
      /\ \A p \in Page : (\A f \in 0 .. used - 1 : cb[f].page # p) => volBar[p] = disk[p]
  BY VolBarIs DEF Inv, RingInv, PagesInPlace
<1>2. used \in 0 .. used
  BY BufferPoolAssumption DEF Inv, TypeOK
<1>3. ASSUME NEW p \in Page PROVE Flushed(used)[p] = volBar[p]
  <2>1. CASE \E f \in 0 .. used - 1 : cb[f].dirty /\ cb[f].page = p
    BY <1>2, <2>1, FlushedPages
  <2>2. CASE ~\E f \in 0 .. used - 1 : cb[f].dirty /\ cb[f].page = p
    <3>1. volBar[p] = disk[p]
      BY <1>1, <2>2 DEF CleanOnDisk
    <3> QED BY <1>2, <2>2, <3>1, FlushedPages
  <2> QED BY <2>1, <2>2
<1>4. volBar = [p \in Page |-> volBar[p]] /\ Flushed(used) = [p \in Page |-> Flushed(used)[p]]
  BY DEF volBar, Flushed
<1> QED BY <1>3, <1>4

\* A pool that starts over is an empty cache in front of the file.
LEMMA ReopenedBars ==
  ASSUME Reopened, disk' \in [Page -> Value]
  PROVE  orderBar' = << >> /\ volBar' = disk' /\ held' = [p \in Page |-> 0]
<1>1. used' = 0 /\ held' = [p \in Page |-> 0]
  BY DEF Reopened
<1>2. orderBar' = << >>
  <2>1. orderBar' = [k \in 1 .. used' |-> cb'[Newest(cb', entry', used')[k - 1]].page]
    BY DEF orderBar
  <2>2. 1 .. used' = {}
    BY <1>1
  <2> QED BY <2>1, <2>2
<1>3. volBar' = disk'
  <2>1. volBar' = Contents(cb', used', disk')
    BY DEF volBar, Contents
  <2>2. \A f \in 0 .. used' - 1 : FALSE
    BY <1>1
  <2>3. \A p \in Page : Contents(cb', used', disk')[p] = disk'[p]
    BY <2>2, ContentsAre
  <2>4. Contents(cb', used', disk') = [p \in Page |-> Contents(cb', used', disk')[p]]
    BY DEF Contents
  <2> QED BY <2>1, <2>3, <2>4
<1> QED BY <1>1, <1>2, <1>3

\* Shutting down is closing the cache.
LEMMA ShutdownImplements ==
  ASSUME Inv, ~strained, CleanOnDisk, Shutdown
  PROVE  Cache!Close
<1>1. Reopened /\ disk' = Flushed(used)
  BY DEF Shutdown
<1>2. disk' \in [Page -> Value]
  <2>1. used \in 0 .. used
    BY BufferPoolAssumption DEF Inv, TypeOK
  <2> QED BY <1>1, <2>1, FlushedType DEF Inv
<1>3. disk' = volBar
  BY <1>1, FlushedIs
<1> QED BY <1>1, <1>2, <1>3, ReopenedBars DEF Cache!Close

\* A crash of the process, in a flush or not, is a crash of the cache.
LEMMA CrashImplements ==
  ASSUME Inv, ~strained, Crash
  PROVE  Cache!Crash
<1>1. PICK n \in 0 .. used : Reopened /\ disk' = Flushed(n)
  BY DEF Crash
<1>2. disk' \in [Page -> Value]
  BY <1>1, FlushedType DEF Inv
<1>3. \A p \in Page : disk'[p] \in {disk[p], volBar[p]}
  BY <1>1, FlushedPages
<1> QED BY <1>1, <1>2, <1>3, ReopenedBars DEF Cache!Crash

-----------------------------------------------------------------------------
(* Clean frames.                                                           *)

\* A miss leaves only dirty frames that differ from the file: the page that comes is
\* the one in the file, and the one that goes is in no other frame.
LEMMA MissClean ==
  ASSUME Inv, CleanOnDisk, ~raced, NEW p \in Page, ReadMiss(p), ~strained', Inv'
  PROVE  CleanOnDisk'
<1>1. /\ ~strained
      /\ used' = UsedAfter /\ used' \in 1 .. NumFrames
      /\ cb'[Into].page = p /\ cb'[Into].data = disk[p]
      /\ \A g \in 0 .. used' - 1 : g # Into =>
           /\ g \in 0 .. used - 1
           /\ cb'[g].page = cb[g].page /\ cb'[g].data = cb[g].data
           /\ cb'[g].dirty = cb[g].dirty
      /\ \A g \in 0 .. used - 1 : cb[g].page # p
  BY MissFields
<1>2. /\ used < NumFrames => disk' = disk
      /\ used = NumFrames => /\ Into \in 0 .. used - 1
                             /\ disk' = [disk EXCEPT ![cb[Into].page] = volBar[cb[Into].page]]
  BY MissContents
<1>3. disk \in [Page -> Value] /\ used \in 0 .. NumFrames /\ NumFrames \in Nat
  BY BufferPoolAssumption DEF Inv, TypeOK
<1>4. /\ \A g \in 0 .. used - 1 : cb[g].page \in Page
      /\ \A g, h \in 0 .. used - 1 : cb[g].page = cb[h].page => g = h
  BY <1>1 DEF Inv, RingInv, PagesInPlace
<1>5. disk'[p] = disk[p]
  BY <1>1, <1>2, <1>3
<1>6. ASSUME NEW g \in 0 .. used - 1, g # Into PROVE disk'[cb[g].page] = disk[cb[g].page]
  BY <1>2, <1>3, <1>4, <1>6
<1>7. ASSUME NEW g \in 0 .. used' - 1, ~cb'[g].dirty PROVE cb'[g].data = disk'[cb'[g].page]
  <2>1. CASE g = Into
    BY <1>1, <1>5, <2>1
  <2>2. CASE g # Into
    <3>1. cb[g].data = disk[cb[g].page]
      BY <1>1, <1>7, <2>2 DEF CleanOnDisk
    <3> QED BY <1>1, <1>6, <2>2, <3>1
  <2> QED BY <2>1, <2>2
<1> QED BY <1>7 DEF CleanOnDisk

\* Every step leaves only dirty frames that differ from the file.
LEMMA CleanKeeps ==
  ASSUME Inv, Inv', [Next]_vars, ~strained => CleanOnDisk, ~strained'
  PROVE  CleanOnDisk'
<1> DEFINE Same == /\ used' = used /\ disk' = disk
                   /\ \A g \in Frame : /\ cb'[g].page = cb[g].page
                                       /\ cb'[g].data = cb[g].data
                                       /\ cb'[g].dirty = cb[g].dirty
<1>1. 0 .. used - 1 \subseteq Frame
  BY BufferPoolAssumption DEF Inv, TypeOK, Frame
<1>2. ASSUME Same, ~strained PROVE CleanOnDisk'
  BY <1>1, <1>2 DEF CleanOnDisk
<1>3. CASE UNCHANGED vars
  <2>1. ~strained /\ Same
    BY <1>3 DEF vars
  <2> QED BY <1>2, <2>1
<1>4. ASSUME NEW p \in Page, ReadHit(p), ~raced PROVE CleanOnDisk'
  <2>1. ~strained
    BY <1>4, PinsLeaveOne DEF ReadHit, Inv, RingInv
  <2>2. Same
    <3>1. used' = used /\ disk' = disk
      BY <1>4 DEF ReadHit
    <3> QED BY <1>4, <3>1, HitFields
  <2> QED BY <1>2, <2>1, <2>2
<1>5. ASSUME NEW p \in Page, ReadMiss(p), ~raced PROVE CleanOnDisk'
  <2>1. ~strained
    BY <1>5, MissFields
  <2> QED BY <1>5, <2>1, MissClean
<1>6. ASSUME NEW p \in Page, ReadNoBuffer(p) PROVE CleanOnDisk'
  <2>1. ~strained
    BY <1>6, PinsLeaveOne DEF ReadNoBuffer, Inv, RingInv
  <2>2. Same
    BY <1>6 DEF ReadNoBuffer
  <2> QED BY <1>2, <2>1, <2>2
<1>12. ASSUME NEW p \in Page, ReadEmpty(p) PROVE CleanOnDisk'
  <2>1. ~strained
    BY <1>12, PinsLeaveOne DEF ReadEmpty, Inv, RingInv
  <2>2. Same
    BY <1>12 DEF ReadEmpty
  <2> QED BY <1>2, <2>1, <2>2
<1>7. ASSUME NEW p \in Page, LookUp(p) PROVE CleanOnDisk'
  <2>1. ~strained /\ Same
    BY <1>7 DEF LookUp
  <2> QED BY <1>2, <2>1
<1>8. ASSUME NEW v \in Value, Write(v), ~raced PROVE CleanOnDisk'
  <2>1. ~strained
    BY <1>8 DEF Write
  <2>2. used' = used /\ disk' = disk
    BY <1>8, <2>1, WriteEffect
  <2>3. CASE cb' = cb
    BY <1>2, <2>1, <2>2, <2>3
  <2>4. CASE \E c \in found : cb' = Put(cb, c.frame, v)
    <3>1. PICK c \in found : cb' = Put(cb, c.frame, v)
      BY <2>4
    <3>2. c.frame \in Frame /\ cb \in [Frame -> Block]
      BY <1>8, <2>1, CallInPlace DEF Inv, TypeOK
    <3>3. /\ cb'[c.frame].dirty
          /\ \A g \in Frame : g # c.frame => cb'[g] = cb[g]
      BY <3>1, <3>2, WriteFields
    <3> QED BY <1>1, <2>1, <2>2, <3>3 DEF CleanOnDisk
  <2> QED BY <1>8, <2>1, <2>3, <2>4, WriteEffect
<1>9. ASSUME Unpin, ~raced PROVE CleanOnDisk'
  <2>1. ~strained
    BY <1>9 DEF Unpin
  <2>2. Same
    BY <1>9, <2>1, UnpinEffect, UnpinFields
  <2> QED BY <1>2, <2>1, <2>2
<1>10. CASE Reopened
  <2>1. \A g \in 0 .. used' - 1 : FALSE
    BY <1>10 DEF Reopened
  <2> QED BY <2>1 DEF CleanOnDisk
<1>11. CASE Next
  <2>1. ~raced
    BY <1>11 DEF Next
  <2> QED BY <1>4, <1>5, <1>6, <1>7, <1>8, <1>9, <1>10, <1>11, <1>12, <2>1 DEF Next, Shutdown, Crash
<1> QED BY <1>3, <1>11

\* What the steps of the pool keep, for any number of frames: the ring, the pages in it,
\* their pins, and the contents of the frames that are not dirty.
THEOREM PoolInvHolds == Spec => []PoolInv
<1>1. Init => PoolInv
  <2> SUFFICES ASSUME Init PROVE PoolInv
    OBVIOUS
  <2>1. RingInv
    BY InitKeeps DEF Inv
  <2>2. \A g \in 0 .. used - 1 : FALSE
    BY DEF Init
  <2> QED BY <2>1, <2>2 DEF PoolInv, CleanOnDisk
<1>2. Inv /\ Inv' /\ PoolInv /\ [Next]_vars => PoolInv'
  BY CleanKeeps DEF PoolInv, Inv
<1> QED BY <1>1, <1>2, PoolInvariant, PTL DEF Spec

-----------------------------------------------------------------------------
(* The pool as a cache.                                                    *)

\* The pool starts as an empty cache whose contents are those of the file.
LEMMA InitImplements ==
  ASSUME Init
  PROVE  Cache!Init
<1>1. used = 0 /\ held = [p \in Page |-> 0] /\ disk = [p \in Page |-> AnyValue]
  BY DEF Init
<1>2. AnyValue \in Value
  BY BufferPoolAssumption DEF AnyValue
<1>3. orderBar = << >>
  <2>1. orderBar = [k \in 1 .. used |-> cb[Newest(cb, entry, used)[k - 1]].page]
    BY DEF orderBar
  <2>2. 1 .. used = {}
    BY <1>1
  <2> QED BY <2>1, <2>2
<1>4. volBar = disk
  <2>1. volBar = Contents(cb, used, disk)
    BY DEF volBar, Contents
  <2>2. \A f \in 0 .. used - 1 : FALSE
    BY <1>1
  <2>3. \A p \in Page : Contents(cb, used, disk)[p] = disk[p]
    BY <2>2, ContentsAre
  <2>4. Contents(cb, used, disk) = [p \in Page |-> Contents(cb, used, disk)[p]]
    BY DEF Contents
  <2> QED BY <1>1, <2>1, <2>3, <2>4
<1> QED BY <1>1, <1>2, <1>3, <1>4 DEF Cache!Init

LEMMA NextImplements ==
  ASSUME Inv, Inv', PoolInv, [Next]_vars, ~strained, ~strained', ~raced'
  PROVE  [Cache!Next]_(Cache!vars)
<1>1. CleanOnDisk
  BY DEF PoolInv
<1>2. CASE UNCHANGED vars
  <2>1. orderBar' = orderBar /\ volBar' = volBar /\ held' = held /\ disk' = disk
    BY <1>2 DEF vars, orderBar, volBar
  <2> QED BY <2>1 DEF Cache!vars
<1>3. ASSUME NEW p \in Page, ReadHit(p) PROVE Cache!Next
  BY <1>3, HitImplements DEF Cache!Next
<1>4. ASSUME NEW p \in Page, ReadMiss(p), ~raced PROVE Cache!Next
  BY <1>1, <1>4, MissImplements DEF Cache!Next
<1>5. ASSUME NEW p \in Page, ReadNoBuffer(p) PROVE FALSE
  BY <1>5 DEF ReadNoBuffer, Inv, RingInv
<1>12. ASSUME NEW p \in Page, ReadEmpty(p) PROVE UNCHANGED Cache!vars
  <2>1. cb' = cb /\ used' = used /\ entry' = entry /\ disk' = disk /\ held' = held
    BY <1>12 DEF ReadEmpty
  <2>2. orderBar' = orderBar /\ volBar' = volBar
    BY <2>1 DEF orderBar, volBar
  <2> QED BY <2>1, <2>2 DEF Cache!vars
<1>6. ASSUME NEW p \in Page, LookUp(p) PROVE UNCHANGED Cache!vars
  <2>1. cb' = cb /\ used' = used /\ entry' = entry /\ disk' = disk /\ held' = held
    BY <1>6 DEF LookUp
  <2>2. orderBar' = orderBar /\ volBar' = volBar
    BY <2>1 DEF orderBar, volBar
  <2> QED BY <2>1, <2>2 DEF Cache!vars
<1>7. ASSUME NEW v \in Value, Write(v), ~raced PROVE Cache!Next
  BY <1>7, WriteImplements DEF Cache!Next
<1>8. ASSUME Unpin, ~raced PROVE Cache!Next
  BY <1>8, UnpinImplements DEF Cache!Next
<1>9. ASSUME Shutdown PROVE Cache!Next
  BY <1>1, <1>9, ShutdownImplements DEF Cache!Next
<1>10. ASSUME Crash PROVE Cache!Next
  BY <1>10, CrashImplements DEF Cache!Next
<1>11. CASE Next
  <2>1. ~raced
    BY <1>11 DEF Next
  <2> QED BY <1>3, <1>4, <1>5, <1>6, <1>7, <1>8, <1>9, <1>10, <1>11, <1>12, <2>1 DEF Next
<1> QED BY <1>2, <1>11

\* The buffer pool is a cache in front of the file that replaces the page unused for
\* longest of those not pinned, and whose readers see what was written last: every
\* behaviour of it, as long as its users leave a frame unpinned and no pin is lost in a
\* data race, is one of the page cache.
THEOREM PoolImplementsCache == Spec => ImplementsPageCache
<1> DEFINE Step == strained \/ strained' \/ raced' \/ [Cache!Next]_(Cache!vars)
<1>1. Init => Cache!Init
  BY InitImplements
<1>2. Inv /\ Inv' /\ PoolInv /\ [Next]_vars => [Step]_vars
  BY NextImplements
<1>3. Spec => [][Step]_vars
  BY <1>2, PoolInvariant, PoolInvHolds, PTL DEF Spec
<1> QED BY <1>1, <1>3, PTL DEF Spec, ImplementsPageCache
=============================================================================
