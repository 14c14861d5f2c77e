---------------------------- MODULE StagePlanMC ----------------------------
(* Instances of StagePlan for TLC.                                         *)
EXTENDS StagePlan, TLC

CONSTANTS prep, train, noise, report, base, code, data, param

\* report reads train, a file of the directory prep writes, and noise.
MCUp == (prep :> {}) @@ (train :> {prep, base}) @@ (noise :> {}) @@ (base :> {})
          @@ (report :> {train, prep, noise})
MCPart == {<<report, prep>>}
MCReads == (prep :> {code, data}) @@ (train :> {param}) @@ (noise :> {}) @@ (base :> {data})
             @@ (report :> {code})
=============================================================================
