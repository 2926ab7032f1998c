----------------------------- MODULE MCBPlusTree -----------------------------
(* BPlusTreeDeletion with pages of a few records.  A behaviour first inserts  *)
(* the records of one of the tables below, one after the other, and then      *)
(* inserts and deletes a few keys in every order.                             *)
EXTENDS BPlusTreeDeletion

MCKey == 1 .. 36

\* Every fifth record is half as long as the others.
MCSize == [k \in Key |-> IF k % 5 = 0 THEN 1 ELSE 2]

\* Keys below 2^31 are what they were.
SmallKey(k) == k

Ascending(first, last) == [i \in 1 .. last - first + 1 |-> first + i - 1]

Tables == {
  [records |-> << >>, keys |-> 1 .. 8],
  \* A full root: it is split, and its halves give each other children.
  [records |-> <<1, 2>> \o Ascending(7, 14) \o Ascending(19, 24),
   keys |-> (3 .. 6) \union (15 .. 18)],
  \* Four internal pages.  The first one goes on with the second one, having become
  \* too empty itself ...
  [records |-> <<2>> \o Ascending(6, 16) \o Ascending(18, 36) \o <<17, 3>>,
   keys |-> {1, 3, 4, 5}],
  \* ... or taking in the second one.
  [records |-> Ascending(1, 10) \o <<12>> \o Ascending(18, 36) \o <<13, 15, 14>>,
   keys |-> {1, 2, 9, 11, 17}]}

VARIABLES ahead,   \* records of the table that are still to be inserted
          moving   \* keys that are inserted and deleted then

MCInit == /\ DeletionInit
          /\ \E t \in Tables : ahead = t.records /\ moving = t.keys

InsertNext == /\ ahead # << >>
              /\ Insert(Head(ahead))
              /\ ahead' = Tail(ahead)
              /\ UNCHANGED <<damaged, moving>>

InsertAndDelete == /\ ahead = << >>
                   /\ \E k \in moving : InsertOrDelete(k)
                   /\ UNCHANGED <<ahead, moving>>

MCNext == InsertNext \/ InsertAndDelete

MCSpec == MCInit /\ [][MCNext]_<<page, root, free, damaged, ahead, moving>>
=============================================================================
