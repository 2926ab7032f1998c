-------------------------------- MODULE Table --------------------------------
(***************************************************************************)
(* What the index manager promises: a table of records with distinct keys. *)
(* An insertion adds one record and touches no other; a deletion takes one *)
(* out and touches no other; what is refused changes nothing.              *)
(***************************************************************************)
EXTENDS FiniteSets

CONSTANT Key

VARIABLE stored   \* the keys that db_find finds

Init == stored = {}

Insert == stored \subseteq stored' /\ Cardinality(stored' \ stored) = 1

Delete == stored' \subseteq stored /\ Cardinality(stored \ stored') = 1

Next == stored' \subseteq Key /\ (Insert \/ Delete)

Spec == Init /\ [][Next]_stored
=============================================================================
