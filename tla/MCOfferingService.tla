------------------------- MODULE MCOfferingService -------------------------
(***************************************************************************)
(* Instances of OfferingService for TLC: requests are interchangeable in    *)
(* runs without a liveness property.                                        *)
(***************************************************************************)
EXTENDS OfferingService, TLC

CONSTANTS r1, r2, r3, r4

Symmetry == Permutations(Requests)
=============================================================================
