-------------------------- MODULE MCEventDelivery --------------------------
(***************************************************************************)
(* Instances of EventDelivery for TLC.                                     *)
(***************************************************************************)
EXTENDS EventDelivery

CONSTANTS r1, r2, a, b

AllFaults == FaultKinds
=============================================================================
