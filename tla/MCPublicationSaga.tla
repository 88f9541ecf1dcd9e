------------------------- MODULE MCPublicationSaga -------------------------
(***************************************************************************)
(* Instances of PublicationSaga for TLC.                                   *)
(***************************************************************************)
EXTENDS PublicationSaga, TLC

CONSTANTS o1, o2, p1, p2, p3

\* Two offerings that share a price, locked in opposite orders.
SharedPrice == (o1 :> <<p1, p2>>) @@ (o2 :> <<p2, p3>>)

\* One offering, published again after a failure.
OneOffering == (o1 :> <<p1, p2>>)

=============================================================================
