------------------------ MODULE GarbageCollectionMC ------------------------
(* Instances of GarbageCollection for TLC.                                 *)
EXTENDS GarbageCollection, TLC

CONSTANTS lab, draft, r1, r2, r3, base

\* A repository and its _local workspace.
MCBaseOf == (lab :> base) @@ (draft :> base)
\* Two runs share a workspace.
MCKeyOf == (r1 :> lab) @@ (r2 :> lab) @@ (r3 :> draft)
=============================================================================
