------------------------------ MODULE BPlusTree ------------------------------
(***************************************************************************)
(* The index manager (newbpt.cc): db_insert and db_find without a          *)
(* transaction, on one table.  The pages of the tree are what the buffer   *)
(* manager returns for their numbers; buffer_alloc_page takes the first    *)
(* page of the free list.  One client at a time; BPlusTreeDeletion adds    *)
(* db_delete and holds the specification.                                  *)
(*                                                                         *)
(* The slots, values and offsets of a leaf are the sequence of its keys:   *)
(* a record's value moves with its slot.  Binary searches are counts of    *)
(* the keys before the one searched, which is the same in sorted pages.    *)
(***************************************************************************)
EXTENDS Naturals, FiniteSets, SequencesExt

CONSTANTS Key,               \* keys of records
          Size,              \* Size[k]: bytes of the slot and value of key k
          MAX_FREE_SPACE,    \* bytes of an empty leaf page
          MAX_KEY_NUMBER,    \* keys of a full internal page
          P_NUMBER,          \* bound: pages of the file, which is not extended
          Int32(_)           \* a key as db_find_leaf_page_number takes it

\* A value is at most 112 of 3968 bytes, so half a page takes two and more.
ASSUME BPlusTreeAssumption ==
  /\ Key \subseteq Nat
  /\ MAX_FREE_SPACE \in Nat
  /\ \A k \in Key : Size[k] \in Nat \ {0} /\ 2 * Size[k] <= MAX_FREE_SPACE \div 2
  /\ MAX_KEY_NUMBER \in Nat /\ MAX_KEY_NUMBER >= 4
  /\ P_NUMBER \in Nat \ {0, 1}

VARIABLES page,    \* page[n]: page number n
          root,    \* root page number in the header page, 0 for none
          free     \* the free list of the table

vars == <<page, root, free>>

PageNumber == 1 .. P_NUMBER - 1
InUse == PageNumber \ Range(free)

\* The words of a page: internal pages use children, leaves right and space.
Page == [leaf : BOOLEAN, parent : Nat, keys : Seq(Key), children : Seq(Nat \ {0}),
         right : Nat, space : Nat]

TypeOK == /\ page \in [PageNumber -> Page]
          /\ root \in {0} \union PageNumber
          /\ free \in Seq(PageNumber)
          /\ \A n \in PageNumber :
               Len(page[n].keys) <= IF page[n].leaf THEN MAX_FREE_SPACE ELSE MAX_KEY_NUMBER

\* A page that holds nothing.  Its first word, where a page of the tree has its
\* parent, is the next free page; it is read off the list here.
FreePage == [leaf |-> FALSE, parent |-> 0, keys |-> << >>, children |-> << >>,
             right |-> 0, space |-> 0]

\* The free list of a new file begins with its last page.
Init == /\ page = [n \in PageNumber |-> FreePage]
        /\ root = 0
        /\ free = [i \in PageNumber |-> P_NUMBER - i]

-----------------------------------------------------------------------------
(* Pages.                                                                  *)

SpaceFor(keys) == FoldLeft(LAMBDA sum, k : sum + Size[k], 0, keys)

LeafPage(parent, keys, right) ==
  [leaf |-> TRUE, parent |-> parent, keys |-> keys, children |-> << >>,
   right |-> right, space |-> MAX_FREE_SPACE - SpaceFor(keys)]

InternalPage(parent, keys, children) ==
  [leaf |-> FALSE, parent |-> parent, keys |-> keys, children |-> children,
   right |-> 0, space |-> 0]

\* The child an internal page sends a key to: right of the separators up to it.
Route(keys, k) == Cardinality({i \in DOMAIN keys : keys[i] <= k}) + 1

\* db_find_leaf_page_number.  There are fewer levels than pages; down[i] is where a
\* search gets that goes down i levels.
FindLeaf(k) ==
  LET child(n) == page[n].children[Route(page[n].keys, Int32(k))]
      down[i \in 0 .. P_NUMBER - 1] ==
        [n \in PageNumber |-> IF i = 0 \/ page[n].leaf THEN n ELSE down[i - 1][child(n)]]
  IN down[P_NUMBER - 1][root]

\* db_find
Found(k) == root # 0 /\ k \in Range(page[FindLeaf(k)].keys)

\* How far a page is from the root.
Depth == LET depth[n \in InUse] ==
               IF page[n].parent = 0 THEN 0 ELSE depth[page[n].parent] + 1
         IN depth

\* The keys of a leaf with k put in its place.
WithKey(keys, k) == InsertAt(keys, Cardinality({i \in DOMAIN keys : keys[i] < k}) + 1, k)

-----------------------------------------------------------------------------
(* The climb from a page that was split, as the state it works on: the     *)
(* pages, the root, the free list, the two pages and the key that          *)
(* separates them; left is 0 when it has ended.                            *)

Climbing(p, left, key, right) ==
  [page |-> p, root |-> root, free |-> Tail(free),
   left |-> left, key |-> key, right |-> right]

WithParent(p, ns, parent) ==
  [n \in DOMAIN p |-> IF n \in ns THEN [p[n] EXCEPT !.parent = parent] ELSE p[n]]

\* get_left_index, counted from 1
LeftIndex(p, parent, left) ==
  CHOOSE i \in DOMAIN p[parent].children : p[parent].children[i] = left

\* db_insert_into_new_root
IntoNewRoot(c) ==
  LET new == Head(c.free)
      p == WithParent(c.page, {c.left, c.right}, new)
  IN [c EXCEPT !.page = [p EXCEPT ![new] = InternalPage(0, <<c.key>>, <<c.left, c.right>>)],
               !.root = new, !.free = Tail(@), !.left = 0]

\* db_insert_into_internal
IntoInternal(c, n) ==
  LET i == LeftIndex(c.page, n, c.left)
  IN [c EXCEPT !.page[n].keys = InsertAt(@, i, c.key),
               !.page[n].children = InsertAt(@, i + 1, c.right),
               !.left = 0]

\* Faulty: the children that move to another page keep their parent.
Stay(p, ns, parent) == p

\* The children that move to another page learn its number.
Move(p, ns, parent) == WithParent(p, ns, parent)

\* insert_into_node_after_splitting
SplitInternal(c, n) ==
  LET i == LeftIndex(c.page, n, c.left)
      keys == InsertAt(c.page[n].keys, i, c.key)
      children == InsertAt(c.page[n].children, i + 1, c.right)
      split == MAX_KEY_NUMBER \div 2
      new == Head(c.free)
      moved == SubSeq(children, split + 1, Len(children))
      p == [c.page EXCEPT
              ![n].keys = SubSeq(keys, 1, split - 1),
              ![n].children = SubSeq(children, 1, split),
              ![new] = InternalPage(c.page[n].parent, SubSeq(keys, split + 1, Len(keys)), moved)]
  IN [c EXCEPT !.page = Move(p, Range(moved), new), !.free = Tail(@),
               !.left = n, !.key = keys[split], !.right = new]

HasRoom(n) == Len(n.keys) < MAX_KEY_NUMBER

\* db_insert_into_parent
IntoParent(c) ==
  LET parent == c.page[c.left].parent
  IN IF parent = 0 THEN IntoNewRoot(c)
     ELSE IF HasRoom(c.page[parent]) THEN IntoInternal(c, parent)
     ELSE SplitInternal(c, parent)

\* db_insert_into_parent calls itself through the split of the parent, once a
\* level, and there are fewer levels than pages.
Climb(c) ==
  FoldLeft(LAMBDA d, n : IF d.left = 0 THEN d ELSE IntoParent(d), c,
           [n \in PageNumber |-> n])

-----------------------------------------------------------------------------
(* Leaves.                                                                 *)

\* db_insert_into_leaf
IntoLeaf(n, k) ==
  [page EXCEPT ![n].keys = WithKey(@, k), ![n].space = @ - Size[k]]

\* How many of the keys stay in a leaf that is split: those that take less than
\* half of it.
Kept(keys) ==
  Max({m \in 0 .. Len(keys) : SpaceFor(SubSeq(keys, 1, m)) < MAX_FREE_SPACE \div 2})

\* Faulty: the page that is split keeps its right sibling.
SplitUnlinked(n, k) ==
  LET keys == WithKey(page[n].keys, k)
      m == Kept(keys)
      half(some) == LeafPage(page[n].parent, some, page[n].right)
  IN Climbing([page EXCEPT ![n] = half(SubSeq(keys, 1, m)),
                           ![Head(free)] = half(SubSeq(keys, m + 1, Len(keys)))],
              n, keys[m + 1], Head(free))

\* db_insert_into_leaf_page_after_splitting, up to the climb
SplitLeaf(n, k) ==
  LET keys == WithKey(page[n].keys, k)
      m == Kept(keys)
      new == Head(free)
      left == LeafPage(page[n].parent, SubSeq(keys, 1, m), new)
      right == LeafPage(page[n].parent, SubSeq(keys, m + 1, Len(keys)), page[n].right)
  IN Climbing([page EXCEPT ![n] = left, ![new] = right], n, keys[m + 1], new)

-----------------------------------------------------------------------------
(* db_insert.                                                              *)

\* The first record of a table makes the root.
InsertFirst(k) == /\ root = 0
                  /\ root' = Head(free)
                  /\ free' = Tail(free)
                  /\ page' = [page EXCEPT ![Head(free)] = LeafPage(0, <<k>>, 0)]

\* Bound: a split that might need more pages than are free, one a level and a new
\* root, is not followed.
EnoughPages(n) == Len(free) >= Depth[n] + 2

\* A key that is there is refused.
InsertPresent(k) == Found(k) /\ UNCHANGED vars

InsertIntoLeaf(k) ==
  /\ root # 0 /\ ~Found(k)
  /\ page[FindLeaf(k)].space >= Size[k]
  /\ page' = IntoLeaf(FindLeaf(k), k)
  /\ UNCHANGED <<root, free>>

InsertSplitting(k) ==
  /\ root # 0 /\ ~Found(k)
  /\ page[FindLeaf(k)].space < Size[k]
  /\ EnoughPages(FindLeaf(k))
  /\ LET c == Climb(SplitLeaf(FindLeaf(k), k))
     IN page' = c.page /\ root' = c.root /\ free' = c.free

Insert(k) == \/ InsertFirst(k) \/ InsertPresent(k)
             \/ InsertIntoLeaf(k) \/ InsertSplitting(k)

-----------------------------------------------------------------------------
(* Correctness.                                                            *)

Stored == {k \in Key : Found(k)}

Contents == INSTANCE Table WITH stored <- Stored

Children(n) == Range(page[n].children)

\* The tree is one and holds every page that is in use: the parent word of a page,
\* which the climb of a split follows, names the only page that has it as a child,
\* and all leaves are equally far from the root.
TreeShape ==
  IF root = 0 THEN InUse = {}
  ELSE
    /\ root \in InUse /\ page[root].parent = 0
    /\ \A n \in InUse \ {root} :
         {m \in InUse : n \in Children(m)} = {page[n].parent}
    /\ \A n \in InUse :
         ~page[n].leaf => /\ Len(page[n].children) = Len(page[n].keys) + 1
                          /\ Cardinality(Children(n)) = Len(page[n].children)
    /\ \A m, n \in InUse : page[m].leaf /\ page[n].leaf => Depth[m] = Depth[n]

\* The right siblings lead from the leaf of the smallest keys through all leaves:
\* no two leaves have the same right sibling, exactly one has none, and the keys
\* met on the way are in order.
LeavesInOrder ==
  LET leaves == {n \in InUse : page[n].leaf}
      next == [n \in leaves |-> page[n].right]
  IN /\ IsInjective(next)
     /\ root # 0 => \E n \in leaves : next[n] = 0
     /\ \A n \in leaves :
          /\ \A i, j \in DOMAIN page[n].keys : i < j => page[n].keys[i] < page[n].keys[j]
          /\ next[n] # 0 =>
               /\ next[n] \in leaves
               /\ Last(page[n].keys) < Head(page[next[n]].keys)

\* The amount of free space of a leaf, which decides whether a record goes into
\* it, is what its records leave; it never wraps around below zero.
SpaceAgrees ==
  \A n \in InUse :
    page[n].leaf => page[n].space + SpaceFor(page[n].keys) = MAX_FREE_SPACE
=============================================================================
