--------------------------- MODULE JobLifecycleMC ---------------------------
(* Instances of JobLifecycle for TLC.                                      *)
EXTENDS JobLifecycle, TLC

CONSTANTS j1, j2, j3, m, w1, w2, t1, t2

\* Each job on a branch of its own, or all on one.
OwnBranch == [j \in Job |-> j]
OneBranch == [j \in Job |-> j1]
Everywhere == [j \in Compute |-> Worker]
\* The second job needs what only the first machine has.
Picky == [j \in Compute |-> IF j = j2 THEN {w1} ELSE Worker]
=============================================================================
