--------------------------- MODULE NodeDispatchMC ---------------------------
(* Instances of NodeDispatch for TLC.                                      *)
EXTENDS NodeDispatch, TLC

CONSTANTS a, b, c, r1, r2, r3, w1, w2

\* A join: c needs a and b; the rows of the table come children first.
JoinDeps == (a :> {}) @@ (b :> {}) @@ (c :> {a, b})
ChildrenFirst == (a :> 3) @@ (b :> 2) @@ (c :> 1)
ParentsFirst  == (a :> 1) @@ (b :> 2) @@ (c :> 3)
\* A fork: b and c need a.
ForkDeps == (a :> {}) @@ (b :> {a}) @@ (c :> {a})
\* A chain.
ChainDeps == (a :> {}) @@ (b :> {a}) @@ (c :> {b})
FlatDeps == (a :> {}) @@ (b :> {})
PairDeps == (a :> {}) @@ (b :> {a})
PairRows == (a :> 1) @@ (b :> 2)
\* Machines.
TwoHomes  == (r1 :> w1) @@ (r2 :> w2)
PackedOnHome == (r1 :> w1) @@ (r2 :> w1)
ThreeRunners == (r1 :> w1) @@ (r2 :> w2) @@ (r3 :> w2)
OneEach == (w1 :> 1) @@ (w2 :> 1)
TwoOnHome == (w1 :> 2) @@ (w2 :> 1)
=============================================================================
