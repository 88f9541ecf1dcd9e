-------------------------- MODULE MCCircuitBreaker --------------------------
(***************************************************************************)
(* An instance of CircuitBreaker for TLC: three calls that overlap.         *)
(***************************************************************************)
EXTENDS CircuitBreaker

CONSTANTS c1, c2, c3

ThreeCalls == {c1, c2, c3}
=============================================================================
