---------------------------- MODULE MCTokenStore ----------------------------
(***************************************************************************)
(* The instance of TokenStore for TLC.  Tokens are interchangeable, and so  *)
(* are symbols.                                                             *)
(***************************************************************************)
EXTENDS TokenStore, TLC

Symmetry == Permutations(Symbols) \cup Permutations(Tokens)

============================================================================
