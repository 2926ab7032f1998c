---------------------------- MODULE MCRecordAccess ----------------------------
(* RecordAccess on small instances: records of one leaf page, or of two. *)
EXTENDS RecordAccess, TLC

OnePage == [r \in Rec |-> 1]
OwnPages == [r \in Rec |-> r]

Symmetry == Permutations(Trx)
=============================================================================
