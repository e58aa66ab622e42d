--------------------------- MODULE MCCheckoutFlow ---------------------------
(* TLC instance of CheckoutFlow.                                           *)
EXTENDS CheckoutFlow

CONSTANTS t1, t2, p1, p2
=============================================================================
