------------------------ MODULE MCMerchantRequests ------------------------
(* TLC instance of MerchantRequests.                                       *)
EXTENDS MerchantRequests

CONSTANTS a1, a2, c1, c2, g1, g2, l1, l2

Charge(merchant, target, body) ==
  [ merchant |-> merchant, key |-> "k1", op |-> "authorization",
    target |-> target, body |-> body ]

\* One charge; the same with another amount, for another mandate, and of
\* another merchant who chose the same key; a refund that reuses the key and
\* the amount; and a checkout session with a key of its own.
MCCall ==
  { Charge("shop", "m1", "10"), Charge("shop", "m1", "20"),
    Charge("shop", "m2", "10"), Charge("store", "m3", "10"),
    [Charge("shop", "p1", "10") EXCEPT !.op = "refund"],
    [Charge("shop", "prod1", "none") EXCEPT !.op = "checkout_session", !.key = "k2"] }

\* Logins and requests about keys meet in every order, and writes meet one of
\* the two: they share only the credentials that are read as a write arrives.
Focus ==
  \/ \A a \in Attempt : attempt[a].pc = "new"
  \/ /\ Cardinality({c \in Challenge : challenges[c] # None}) <= 1
     /\ \/ \A l \in Login : logins[l].pc = "idle"
        \/ \A g \in Manager : managers[g].pc = "idle"
=============================================================================
