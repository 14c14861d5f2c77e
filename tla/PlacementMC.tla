---------------------------- MODULE PlacementMC ----------------------------
(* Two machines.  Stage f of job p fits only the big one, and stage h of    *)
(* the urgent job q only the other, that has two devices; no machine can    *)
(* ever hold the stage of r.  Classic job c1 is on the branch of q, and c2  *)
(* in the repository of p.                                                  *)
EXTENDS Placement, TLC

CONSTANTS p, q, r, c1, c2, a, f, e, h, g, w1, w2

MCParallel == {p, q, r}
MCClassic == {c1, c2}
MCStage == {a, f, e, h, g}
MCJobOf == a :> p @@ f :> p @@ e :> q @@ h :> q @@ g :> r
MCParent == a :> {} @@ f :> {} @@ e :> {} @@ h :> {e} @@ g :> {}
MCNeed ==
  a :> [mem |-> 1, gpus |-> 1, vram |-> 1] @@ f :> [mem |-> 3, gpus |-> 1, vram |-> 0]
  @@ e :> [mem |-> 1, gpus |-> 1, vram |-> 1] @@ h :> [mem |-> 1, gpus |-> 2, vram |-> 0]
  @@ g :> [mem |-> 9, gpus |-> 0, vram |-> 0] @@ c1 :> [mem |-> 1, gpus |-> 1, vram |-> 4]
  @@ c2 :> [mem |-> 1, gpus |-> 1, vram |-> 4]
MCPrio == p :> 1 @@ q :> 0 @@ r :> 2 @@ c1 :> 0 @@ c2 :> 1 @@ a :> 1 @@ f :> 1 @@ e :> 0 @@ h :> 0 @@ g :> 2
MCUser == p :> "ann" @@ q :> "bob" @@ r :> "ann" @@ c1 :> "bob" @@ c2 :> "bob"
MCCreated == p :> 2 @@ q :> 1 @@ r :> 5 @@ c1 :> 3 @@ c2 :> 4
MCRepo == p :> "x" @@ q :> "y" @@ r :> "y" @@ c1 :> "y" @@ c2 :> "x"
MCBranch == p :> "main" @@ q :> "main" @@ r :> "main" @@ c1 :> "main" @@ c2 :> "next"
MCWorker == {w1, w2}
MCCap ==
  w1 :> [mem |-> 2, unified |-> FALSE, vram |-> <<4, 1>>] @@ w2 :> [mem |-> 4, unified |-> TRUE, vram |-> <<4>>]
MCRank == w1 :> 0 @@ w2 :> 0
=============================================================================
