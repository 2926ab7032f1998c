-------------------------- MODULE BPlusTreeDeletion --------------------------
(***************************************************************************)
(* The index manager with db_delete (newbpt.cc).  A deletion that leaves a *)
(* page too empty merges it with a neighbour, and then deletes from their  *)
(* parent, or takes an entry of the neighbour; pages that are not needed   *)
(* any more go to the front of the free list.                              *)
(*                                                                         *)
(* Three steps on the way lose records of the tree.  They are modelled as  *)
(* they are, and the history variable damaged says that one was taken.     *)
(* What is claimed is claimed of trees that are not damaged, and a damaged *)
(* tree is not followed: a search in it may meet a page that was freed.    *)
(***************************************************************************)
EXTENDS BPlusTree

CONSTANT THRESHOLD         \* free bytes with which a leaf page is too empty

\* Neither page of a leaf that was split is too empty.
ASSUME DeletionAssumption ==
  /\ THRESHOLD \in Nat /\ THRESHOLD <= MAX_FREE_SPACE
  /\ \A k \in Key : MAX_FREE_SPACE - MAX_FREE_SPACE \div 2 + Size[k] < THRESHOLD

VARIABLE damaged

deletionVars == <<page, root, free, damaged>>

DeletionTypeOK == TypeOK /\ damaged \in BOOLEAN

DeletionInit == Init /\ damaged = FALSE

-----------------------------------------------------------------------------
(* Removing an entry from a page.  The state of a deletion on its way up:  *)
(* the tree, the page n an entry is to be removed from, and the entry, a   *)
(* key and, in an internal page, the child right of it; n is 0 at the end. *)

Deleting(k) ==
  [page |-> page, root |-> root, free |-> free, damaged |-> FALSE,
   n |-> FindLeaf(k), key |-> k, pointer |-> 0]

\* The search for a page number among the children of an internal page: a binary
\* search, although they are not sorted.  It does not look at the last child, and
\* ends at the first one when it does not find the number.
PointerIndex(children, pointer) ==
  LET search[w \in (1 .. Len(children)) \X (0 .. Len(children) - 1)] ==
        LET l == w[1]
            r == w[2]
            m == (l + r) \div 2
        IN IF l > r THEN 1
           ELSE IF children[m] = pointer THEN m
           ELSE IF children[m] < pointer THEN search[<<m + 1, r>>]
           ELSE search[<<l, m - 1>>]
  IN search[<<1, Len(children) - 1>>]

\* The keys of a page without k.
WithoutKey(keys, k) == RemoveAt(keys, CHOOSE i \in DOMAIN keys : keys[i] = k)

\* db_remove_entry_from_node, of a leaf page.
RemoveFromLeaf(c) ==
  [c EXCEPT !.page[c.n].keys = WithoutKey(@, c.key),
            !.page[c.n].space = @ + Size[c.key]]

\* db_remove_entry_from_node, of an internal page.
RemoveFromInternal(c) ==
  LET children == c.page[c.n].children
      i == PointerIndex(children, c.pointer)
  IN [c EXCEPT !.page[c.n].keys = WithoutKey(@, c.key),
               !.page[c.n].children = RemoveAt(@, i),
               !.damaged = @ \/ children[i] # c.pointer]

RemoveEntry(c) == IF c.page[c.n].leaf THEN RemoveFromLeaf(c) ELSE RemoveFromInternal(c)

\* adjust_root, of a root that has no key left.
AdjustRoot(c) ==
  LET old == c.page[c.root]
      new == IF old.leaf THEN 0 ELSE Head(old.children)
  IN [c EXCEPT !.page = IF old.leaf THEN @ ELSE WithParent(@, {new}, 0),
               !.root = new, !.free = <<c.root>> \o @, !.n = 0]

-----------------------------------------------------------------------------
(* Merging and redistributing.                                             *)

\* Faulty: leaves are left alone until they are empty.
FilledAtAll(p, n) == Len(p[n].keys) > 0

\* A page whose entries are enough.
Filled(p, n) == IF p[n].leaf THEN p[n].space < THRESHOLD
                ELSE Len(p[n].keys) >= MAX_KEY_NUMBER \div 2

\* get_neighbor_index, counted from 1: the left neighbour, 0 for a leftmost page.
NeighborIndex(p, n) == LeftIndex(p, p[n].parent, n) - 1

\* Faulty: the key between two internal pages is not counted.
FitsExactly(a, b) == IF a.leaf THEN a.space + b.space >= MAX_FREE_SPACE
                     ELSE Len(a.keys) + Len(b.keys) <= MAX_KEY_NUMBER

\* The entries of two pages fit into one.
Fits(a, b) == IF a.leaf THEN a.space + b.space >= MAX_FREE_SPACE
              ELSE Len(a.keys) + Len(b.keys) < MAX_KEY_NUMBER

\* A leaf with the records of its right neighbour, which is to be freed.
MergedLeaf(a, b) == LeafPage(a.parent, a.keys \o b.keys, b.right)

\* coalesce_nodes: the right page goes into the left one and is freed, and its
\* entry is to be removed from their parent.  A child of the merged page may be a
\* page that a damage has freed; its first word is overwritten even so.
Coalesce(c, left, right, separator) ==
  LET a == c.page[left]
      b == c.page[right]
      merged == InternalPage(a.parent, Append(a.keys, separator) \o b.keys, a.children \o b.children)
  IN [c EXCEPT !.page = IF a.leaf THEN [@ EXCEPT ![left] = MergedLeaf(a, b)]
                        ELSE Move([@ EXCEPT ![left] = merged], Range(merged.children), left),
               !.free = <<right>> \o @,
               !.n = a.parent, !.key = separator, !.pointer = right]

\* redistribute_nodes, internal pages: the last child of the left neighbour, or the
\* first one of the right neighbour, changes over, and the separator turns.
TakeLastChild(c, left, n, i) ==
  LET a == c.page[left]
      b == c.page[n]
      parent == b.parent
      p == [c.page EXCEPT
              ![n].keys = <<c.page[parent].keys[i]>> \o b.keys,
              ![n].children = <<Last(a.children)>> \o b.children,
              ![left].keys = Front(a.keys), ![left].children = Front(a.children),
              ![parent].keys[i] = Last(a.keys)]
  IN [c EXCEPT !.page = Move(p, {Last(a.children)}, n), !.n = 0]

\* Faulty: the separator stays.
TakeFirstBelow(c, n, right, i) ==
  LET a == c.page[n]
      b == c.page[right]
      p == [c.page EXCEPT
              ![n].keys = Append(a.keys, Head(b.keys)),
              ![n].children = Append(a.children, Head(b.children)),
              ![right].keys = Tail(b.keys), ![right].children = Tail(b.children)]
  IN [c EXCEPT !.page = Move(p, {Head(b.children)}, n), !.n = 0]

TakeFirstChild(c, n, right, i) ==
  LET a == c.page[n]
      b == c.page[right]
      parent == b.parent
      p == [c.page EXCEPT
              ![n].keys = Append(a.keys, c.page[parent].keys[i]),
              ![n].children = Append(a.children, Head(b.children)),
              ![right].keys = Tail(b.keys), ![right].children = Tail(b.children),
              ![parent].keys[i] = Head(b.keys)]
  IN [c EXCEPT !.page = Move(p, {Head(b.children)}, n), !.n = 0]

\* How many of the keys offered a leaf takes, one a round, until it is filled.
Rounds(n, offered) ==
  Min({r \in DOMAIN offered : n.space < THRESHOLD + SpaceFor(SubSeq(offered, 1, r))})

\* redistribute_nodes, leaf pages, from the left neighbour: each round puts the
\* neighbour's first record in front, and drops its last one.  Both numbers of
\* keys are those from before the first round.
TakeFromLeft(c, left, n, i) ==
  LET a == c.page[left]
      b == c.page[n]
      offered == [j \in 1 .. MAX_FREE_SPACE |-> Head(a.keys)]
      taken == SubSeq(offered, 1, Rounds(b, offered))
  IN [c EXCEPT !.page[n].keys = SubSeq(taken \o b.keys, 1, Len(b.keys) + 1),
               !.page[n].space = @ - SpaceFor(taken),
               !.page[left].keys = Front(@),
               !.page[left].space = @ + SpaceFor(taken),
               !.page[b.parent].keys[i] = Head(a.keys),
               !.damaged = TRUE, !.n = 0]

\* redistribute_nodes, leaf pages, from the right neighbour: each round puts the
\* neighbour's first record at the same place, the end of the leaf as it was before
\* the first round, and moves the others down, the last slot keeping its record.
TakeFromRight(c, n, right, i) ==
  LET a == c.page[n]
      b == c.page[right]
      r == Rounds(a, b.keys)
      taken == SubSeq(b.keys, 1, r)
      slots == [j \in DOMAIN b.keys |-> b.keys[Min({j + r, Len(b.keys)})]]
      p == [c.page EXCEPT
              ![n].keys = Append(a.keys, Last(taken)), ![n].space = a.space - SpaceFor(taken),
              ![right].keys = Front(slots), ![right].space = b.space + SpaceFor(taken),
              ![a.parent].keys[i] = Head(slots)]
  IN [c EXCEPT !.page = p, !.damaged = @ \/ r > 1, !.n = 0]

\* redistribute_nodes
Redistribute(c, neighbor, n, i) ==
  IF i > 0
  THEN IF c.page[n].leaf THEN TakeFromLeft(c, neighbor, n, i)
       ELSE TakeLastChild(c, neighbor, n, i)
  ELSE IF c.page[n].leaf THEN TakeFromRight(c, n, neighbor, 1)
       ELSE TakeFirstChild(c, n, neighbor, 1)

-----------------------------------------------------------------------------
(* db_delete.                                                              *)

\* A page that has become too empty, with the neighbour it has.
Refill(c) ==
  LET i == NeighborIndex(c.page, c.n)
      parent == c.page[c.page[c.n].parent]
      neighbor == parent.children[IF i = 0 THEN 2 ELSE i]
      separator == parent.keys[IF i = 0 THEN 1 ELSE i]
  IN IF Fits(c.page[neighbor], c.page[c.n])
     THEN IF i = 0 THEN Coalesce(c, c.n, neighbor, separator)
          ELSE Coalesce(c, neighbor, c.n, separator)
     ELSE Redistribute(c, neighbor, c.n, i)

\* db_delete_entry
DeleteEntry(c) ==
  LET d == RemoveEntry(c)
  IN IF d.n = d.root
     THEN IF Len(d.page[d.root].keys) > 0 THEN [d EXCEPT !.n = 0] ELSE AdjustRoot(d)
     ELSE IF Filled(d.page, d.n) THEN [d EXCEPT !.n = 0]
     ELSE Refill(d)

\* db_delete_entry calls itself through the merging of two pages, once a level.
DeleteUp(c) ==
  FoldLeft(LAMBDA d, n : IF d.n = 0 THEN d ELSE DeleteEntry(d), c,
           [n \in PageNumber |-> n])

\* A key that is not there is refused.
DeleteAbsent(k) == ~Found(k) /\ UNCHANGED deletionVars

\* What is left in a page that was freed is overwritten before it is read again,
\* as long as the tree is not damaged, and forgotten here.
DeleteRecord(k) ==
  /\ Found(k)
  /\ LET c == DeleteUp(Deleting(k))
     IN /\ page' = IF c.damaged THEN c.page
                   ELSE [n \in PageNumber |-> IF n \in Range(c.free) THEN FreePage
                                              ELSE c.page[n]]
        /\ root' = c.root
        /\ free' = c.free
        /\ damaged' = c.damaged

InsertOrDelete(k) ==
  /\ ~damaged
  /\ \/ Insert(k) /\ UNCHANGED damaged
     \/ DeleteAbsent(k) \/ DeleteRecord(k)

DeletionNext == \E k \in Key : InsertOrDelete(k)

DeletionSpec == DeletionInit /\ [][DeletionNext]_deletionVars

-----------------------------------------------------------------------------
(* Correctness.                                                            *)

\* Until the tree is damaged, every call is an operation on a table of records: it
\* makes one record findable, or one not findable any more, and whatever is split,
\* merged and moved on the way, no separator, child or sibling hides another.
ImplementsTableUndamaged == [][damaged' \/ [Contents!Next]_Stored]_deletionVars

\* Until the tree is damaged, merging and redistributing leave one balanced tree
\* whose parent words are right, and every page is in it or on the free list.
ShapeKept == damaged \/ (TreeShape /\ IsInjective(free))

\* Until the tree is damaged, the leaves left by merging are linked in the order of
\* their keys, and no sibling word leads to a page that was freed.
OrderKept == damaged \/ LeavesInOrder

\* Until the tree is damaged, the free space of leaves is what their records leave,
\* and no page but the root is too empty: a leaf has less than THRESHOLD free, an
\* internal page one key less than db_delete_entry asks for, which is what
\* insert_into_node_after_splitting leaves on the left.
FillKept ==
  damaged \/ /\ SpaceAgrees
             /\ \A n \in InUse \ {root} :
                  IF page[n].leaf THEN page[n].space < THRESHOLD
                  ELSE Len(page[n].keys) + 1 >= MAX_KEY_NUMBER \div 2

\* Every call is an operation on a table of records.  Not so: db_delete loses other
\* records in the steps that set damaged.
ImplementsTable == Contents!Spec
=============================================================================
