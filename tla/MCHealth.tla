------------------------------ MODULE MCHealth ------------------------------
(***************************************************************************)
(* The instance of Health for TLC, with three events and batches of one, so *)
(* that a report that is off by two shows.  Batches are interchangeable.    *)
(***************************************************************************)
EXTENDS Health, TLC

Symmetry == Permutations(Batches)

============================================================================
