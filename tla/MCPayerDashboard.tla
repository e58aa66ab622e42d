-------------------------- MODULE MCPayerDashboard --------------------------
(* TLC instance of PayerDashboard.                                         *)
EXTENDS PayerDashboard

CONSTANTS ann, bob, m1, m2, l1, l2

MCPayerOf == [m \in Mandate |-> IF m = m1 THEN ann ELSE bob]
=============================================================================
