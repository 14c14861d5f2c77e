----------------------------- MODULE LockMerge -----------------------------
(***************************************************************************)
(* The three-way merge of dvc.lock files (dvc_lock_merge.py).  A file is a *)
(* set of named entries: a function from the names it holds, stages or     *)
(* top-level keys, to their contents.  o is the common ancestor, a ours    *)
(* and b theirs.  A run of the code raises MergeConflictError at the first *)
(* conflict it meets; here Conflicts is the set of all of them.            *)
(*                                                                         *)
(* Left out: comments and formatting, the type check of 'stages'.          *)
(***************************************************************************)
EXTENDS Naturals

\* The stages of ours: kept, replaced by theirs, dropped, or in conflict.
OursInConflict(o, a, b) ==
  {n \in DOMAIN a :
     IF n \in DOMAIN o
     THEN IF n \in DOMAIN b THEN a[n] # o[n] /\ b[n] # o[n] /\ a[n] # b[n]
                            ELSE a[n] # o[n]
     ELSE n \in DOMAIN b /\ a[n] # b[n]}

\* The stages only theirs has: added by them, or removed by us.
TheirsInConflict(o, a, b) ==
  {n \in DOMAIN b \ DOMAIN a : n \in DOMAIN o /\ b[n] # o[n]}

Conflicts(o, a, b) == OursInConflict(o, a, b) \cup TheirsInConflict(o, a, b)

MergedNames(o, a, b) ==
  {n \in DOMAIN a : n \notin DOMAIN o \/ n \in DOMAIN b} \cup (DOMAIN b \ (DOMAIN a \cup DOMAIN o))

BugKeepsOurs(o, a, b) == [n \in MergedNames(o, a, b) |-> IF n \in DOMAIN a THEN a[n] ELSE b[n]]

\* The merged entries, when nothing is in conflict.
MergedEntries(o, a, b) ==
  [n \in MergedNames(o, a, b) |->
     IF n \in DOMAIN a /\ ~(n \in DOMAIN o /\ n \in DOMAIN b /\ a[n] = o[n]) THEN a[n] ELSE b[n]]

-----------------------------------------------------------------------------
\* What a three-way merge means: a name is judged alone, its absence is a
\* content like another, and a side that did not change it yields.
Content(f, n) == IF n \in DOMAIN f THEN <<f[n]>> ELSE <<>>
Clash(o, a, b, n) ==
  /\ Content(a, n) # Content(o, n)
  /\ Content(b, n) # Content(o, n)
  /\ Content(a, n) # Content(b, n)
ThreeWay(o, a, b, n) == IF Content(a, n) # Content(o, n) THEN Content(a, n) ELSE Content(b, n)
=============================================================================
