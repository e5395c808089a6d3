---------------------------- MODULE MCPipeline ----------------------------
(***************************************************************************)
(* Instances of Pipeline for TLC.  Batches are interchangeable, and so are  *)
(* retry passes; events are not, they are ordered by createdAt.             *)
(***************************************************************************)
EXTENDS Pipeline, TLC

Symmetry == Permutations(Batches) \cup Permutations(Retriers)

============================================================================
