--------------------------- MODULE MCEventIndexer ---------------------------
(* TLC instances of EventIndexer.                                          *)
EXTENDS EventIndexer

CONSTANTS m1, t1, t2, a1
=============================================================================
