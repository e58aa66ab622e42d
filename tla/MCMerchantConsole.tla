-------------------------- MODULE MCMerchantConsole --------------------------
(* A TLC instance of MerchantConsole.                                      *)
EXTENDS MerchantConsole

CONSTANTS w1, w2, s1, s2
=============================================================================
