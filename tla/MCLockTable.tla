----------------------------- MODULE MCLockTable -----------------------------
(* LockTable and its refinement of LockService on a small instance: every     *)
(* client behaviour, upgrades included.                                       *)
EXTENDS LockTableService, TLC

Symmetry == Permutations(Trx) \union Permutations(Rec)
=============================================================================
