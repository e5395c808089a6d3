--------------------------- MODULE MCPriceUpdate ---------------------------
(***************************************************************************)
(* The instance of PriceUpdate for TLC.  From 100 to 101 is no significant  *)
(* change, from 100 or 101 to 110 is, and from no price at all any is.      *)
(* Liveness is checked, so there is no symmetry.                            *)
(***************************************************************************)
EXTENDS PriceUpdate

ByPriority == 1..2
Quotes == {100, 101, 110}

============================================================================
