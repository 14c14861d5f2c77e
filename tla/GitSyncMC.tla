----------------------------- MODULE GitSyncMC -----------------------------
(* Instances of GitSync for TLC.                                           *)
EXTENDS GitSync, TLC

CONSTANTS a, b, c, x, r1, r2

\* b stands alone, c reads a.
ChainAndOne == (a :> {}) @@ (b :> {}) @@ (c :> {a})
Flat == (a :> {}) @@ (b :> {})
Chain == (a :> {}) @@ (c :> {a})
\* A pipeline whose dvc.lock holds another stage than those of the job.
OtherRan == x :> 1
=============================================================================
