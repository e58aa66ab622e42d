-------------------------- MODULE MCChargePipeline --------------------------
(* TLC instances of ChargePipeline.                                        *)
EXTENDS ChargePipeline, TLC

CONSTANTS s1, s2, w1, w2, r1, r2, m1

MCMandateOf == [r \in Request |-> m1]
NoLimit == [m \in Mandate |-> 0]
LimitTwo == [m \in Mandate |-> 2]
AllAtOnce == [r \in Request |-> 0]
\* A schedule of one retry (retry-schedule.ts has three), and none.
OneDelay == <<6>>
NoDelay == <<>>

ProcessSymmetry == Permutations(Worker) \cup Permutations(Scheduler)
AllSymmetry ==
  Permutations(Worker) \cup Permutations(Request) \cup Permutations(Scheduler)
=============================================================================
