---------------------------- MODULE MCCheckout -----------------------------
(***************************************************************************)
(* An instance of Checkout: two listings of two sellers.                   *)
(***************************************************************************)
EXTENDS Checkout, TLC

CONSTANTS rose, fern, north, south

TwoSellers == rose :> north @@ fern :> south
=============================================================================
