-------------------------- MODULE MCPricingService --------------------------
(***************************************************************************)
(* Instances of PricingService for TLC: requests and sagas are              *)
(* interchangeable.                                                         *)
(***************************************************************************)
EXTENDS PricingService, TLC

CONSTANTS r1, r2, r3, s1, s2

Symmetry == Permutations(Requests) \union Permutations(Sagas)
=============================================================================
