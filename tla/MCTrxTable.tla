------------------------------ MODULE MCTrxTable ------------------------------
(* TrxTable on a small instance. *)
EXTENDS TrxTable, TLC

Symmetry == Permutations(Session)
=============================================================================
