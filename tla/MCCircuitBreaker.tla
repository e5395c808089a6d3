-------------------------- MODULE MCCircuitBreaker --------------------------
(***************************************************************************)
(* The instance of CircuitBreaker for TLC: the default thresholds, as many  *)
(* overlapping calls as a batch of prices has by default, and a timeout     *)
(* longer than the recovery time, which the validation allows.  Liveness is *)
(* checked, so there is no symmetry.                                        *)
(***************************************************************************)
EXTENDS CircuitBreaker

PriceBatch == 1..5

============================================================================
