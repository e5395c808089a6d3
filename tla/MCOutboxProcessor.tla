------------------------- MODULE MCOutboxProcessor -------------------------
(***************************************************************************)
(* Instances of OutboxProcessor for TLC.  Batches are interchangeable, and  *)
(* so are retry passes; events are not, they are ordered by createdAt.      *)
(***************************************************************************)
EXTENDS OutboxProcessor, TLC

Symmetry == Permutations(Batches) \cup Permutations(Retriers)

============================================================================
