---------------------------- MODULE PreemptionMC ----------------------------
(* Instances of Preemption for TLC.                                        *)
EXTENDS Preemption, TLC

CONSTANTS h, k, l, jh, jl, rh, rl, rm, u1, u2, w1, w2

\* The urgent stage h is a job of its own, of user u1; the others are low
\* stages of one job of user u2.
Jobs  == [n \in Stage |-> IF n = h THEN jh ELSE jl]
Prios == [n \in Stage |-> IF n = h THEN "high" ELSE "low"]
Users == [j \in Job |-> IF j = jl THEN u2 ELSE u1]

\* A low stage runs anywhere, the urgent one only on w1.
OnFirst == [n \in Stage |-> IF n = h THEN {w1} ELSE Worker]
RunnerJobs == [r \in Runner |-> IF r = rh THEN jh ELSE jl]
OneMachine == [r \in Runner |-> w1]
TwoMachines == [r \in Runner |-> IF r = rm THEN w2 ELSE w1]
OneSlot == [w \in Worker |-> 1]

\* The low stages k and l differ in nothing but their names.
LowStages == Permutations({k, l})
=============================================================================
