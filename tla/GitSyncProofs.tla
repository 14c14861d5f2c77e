--------------------------- MODULE GitSyncProofs ---------------------------
(***************************************************************************)
(* Proofs about LockMerge, the three-way merge of dvc.lock, and about      *)
(* GitSync, for every pipeline, every number of executors, retries, faults *)
(* and commits of people, in both modes.                                   *)
(*                                                                         *)
(* The latter rest on an order (Within): the branch only ever grows, a     *)
(* synchronised worktree lies below it, and what an executor publishes     *)
(* differs from it by the result of one stage.  Two things make it         *)
(* inductive: a push is accepted only on the tip it was built on           *)
(* (FormerTip), and HEAD lies below the files of its worktree, so that     *)
(* SyncBeforeNode may compare the remote with HEAD and not with them.      *)
(*                                                                         *)
(* They are about a job whose start commit has a dvc.lock without its      *)
(* stages (FreshJob).  TLC refutes ResultsKept and OutsMatchLock without   *)
(* either half: where the code merges nothing, the last push wins.         *)
(***************************************************************************)
EXTENDS GitSync, TLAPS

-----------------------------------------------------------------------------
(* The merge of dvc.lock, which goes case by case over who holds a stage,  *)
(* is the three-way merge of version control, for any files.               *)

\* The presence of a name is part of its content.
LEMMA SameContent ==
  ASSUME NEW f, NEW g, NEW n
  PROVE  Content(f, n) = Content(g, n)
           <=> (n \in DOMAIN f <=> n \in DOMAIN g) /\ (n \in DOMAIN f => f[n] = g[n])
<1>1. CASE n \in DOMAIN f /\ n \in DOMAIN g
  <2>1. Content(f, n) = <<f[n]>> /\ Content(g, n) = <<g[n]>> BY <1>1 DEF Content
  <2>2. <<f[n]>> = <<g[n]>> <=> f[n] = g[n] OBVIOUS
  <2> QED BY <1>1, <2>1, <2>2
<1>2. CASE n \in DOMAIN f /\ n \notin DOMAIN g
  <2>1. Content(f, n) = <<f[n]>> /\ Content(g, n) = << >> BY <1>2 DEF Content
  <2>2. <<f[n]>> # << >> OBVIOUS
  <2> QED BY <1>2, <2>1, <2>2
<1>3. CASE n \notin DOMAIN f /\ n \in DOMAIN g
  <2>1. Content(f, n) = << >> /\ Content(g, n) = <<g[n]>> BY <1>3 DEF Content
  <2>2. <<g[n]>> # << >> OBVIOUS
  <2> QED BY <1>3, <2>1, <2>2
<1>4. CASE n \notin DOMAIN f /\ n \notin DOMAIN g
  BY <1>4 DEF Content
<1> QED BY <1>1, <1>2, <1>3, <1>4

\* merge_dvc_lock_data refuses exactly the stages that both sides changed, in
\* different ways: it never overwrites a change, and never refuses a merge
\* that has none to overwrite.
THEOREM ConflictsAreClashes ==
  ASSUME NEW o, NEW a, NEW b, NEW n
  PROVE  n \in Conflicts(o, a, b) <=> Clash(o, a, b, n)
<1>1. Clash(o, a, b, n) <=>
        /\ ~((n \in DOMAIN a <=> n \in DOMAIN o) /\ (n \in DOMAIN a => a[n] = o[n]))
        /\ ~((n \in DOMAIN b <=> n \in DOMAIN o) /\ (n \in DOMAIN b => b[n] = o[n]))
        /\ ~((n \in DOMAIN a <=> n \in DOMAIN b) /\ (n \in DOMAIN a => a[n] = b[n]))
  BY SameContent DEF Clash
<1>2. CASE n \in DOMAIN a
  BY <1>1, <1>2 DEF Conflicts, OursInConflict, TheirsInConflict
<1>3. CASE n \notin DOMAIN a
  BY <1>1, <1>3 DEF Conflicts, OursInConflict, TheirsInConflict
<1> QED BY <1>2, <1>3

\* What it writes when it refuses nothing: each stage as the side that changed
\* it left it, whether it was added, run again or removed.
THEOREM MergeIsThreeWay ==
  ASSUME NEW o, NEW a, NEW b, Conflicts(o, a, b) = {}, NEW n
  PROVE  Content(MergedEntries(o, a, b), n) = ThreeWay(o, a, b, n)
<1> DEFINE M == MergedEntries(o, a, b)
           Kept == n \in DOMAIN a /\ ~(n \in DOMAIN o /\ n \in DOMAIN b /\ a[n] = o[n])
<1>1. ~Clash(o, a, b, n) BY ConflictsAreClashes
<1>2. n \in DOMAIN M <=> \/ n \in DOMAIN a /\ (n \notin DOMAIN o \/ n \in DOMAIN b)
                         \/ n \in DOMAIN b /\ n \notin DOMAIN a /\ n \notin DOMAIN o
  BY DEF MergedEntries, MergedNames
<1>3. n \in DOMAIN M => M[n] = IF Kept THEN a[n] ELSE b[n]
  BY DEF MergedEntries
<1>4. Content(a, n) = Content(o, n)
        <=> (n \in DOMAIN a <=> n \in DOMAIN o) /\ (n \in DOMAIN a => a[n] = o[n])
  BY SameContent
<1>5. Content(b, n) = Content(o, n)
        <=> (n \in DOMAIN b <=> n \in DOMAIN o) /\ (n \in DOMAIN b => b[n] = o[n])
  BY SameContent
<1>6. Content(a, n) = Content(b, n)
        <=> (n \in DOMAIN a <=> n \in DOMAIN b) /\ (n \in DOMAIN a => a[n] = b[n])
  BY SameContent
<1>7. Content(M, n) = Content(a, n)
        <=> (n \in DOMAIN M <=> n \in DOMAIN a) /\ (n \in DOMAIN M => M[n] = a[n])
  BY SameContent
<1>8. Content(M, n) = Content(b, n)
        <=> (n \in DOMAIN M <=> n \in DOMAIN b) /\ (n \in DOMAIN M => M[n] = b[n])
  BY SameContent
<1>9. CASE Content(a, n) # Content(o, n)
  <2>1. Content(b, n) = Content(o, n) \/ Content(a, n) = Content(b, n) BY <1>1, <1>9 DEF Clash
  <2>2. (n \in DOMAIN M <=> n \in DOMAIN a) /\ (n \in DOMAIN M => M[n] = a[n])
    BY <1>2, <1>3, <1>4, <1>5, <1>6, <1>9, <2>1
  <2> QED BY <1>7, <1>9, <2>2 DEF ThreeWay
<1>10. CASE Content(a, n) = Content(o, n)
  <2>1. (n \in DOMAIN M <=> n \in DOMAIN b) /\ (n \in DOMAIN M => M[n] = b[n])
    BY <1>2, <1>3, <1>4, <1>10
  <2> QED BY <1>8, <1>10, <2>1 DEF ThreeWay
<1> QED BY <1>9, <1>10

-----------------------------------------------------------------------------
(* The branch.                                                             *)

\* There is a dvc.lock to start from, and no stage of the job is in it.
FreshJob == StartLock # NoFile /\ Planned \cap DOMAIN StartLock = {}

\* The results a dvc.lock records, 0 for a stage without one.
Held(lock) == [s \in Stage |-> IF s \in DOMAIN lock THEN lock[s] ELSE 0]

\* g has all that f has: a stage of the job is recorded once, another one may
\* be recorded again, with a higher version.
WithinAt(f, g, s) == (s \in Planned => f[s] \in {0, g[s]}) /\ (s \in Others => f[s] <= g[s])
Within(f, g) == \A s \in Stage : WithinAt(f, g, s)

\* The types of the parts.
Tips == [n : Nat, code : 0..MaxCommits, lock : AnyLock, outs : Outs]
Worktrees == [at : {"idle", "sync", "run", "fetch", "push", "report"},
              stage : Planned \cup {None}, lock : AnyLock, outs : Outs,
              head : [lock : AnyLock, outs : Outs], seen : Tips, tries : 0..MaxTries]
Clones == [at : {"run", "sync", "push", "rebase", "over"}, ran : SUBSET Planned,
           lock : AnyLock, outs : Outs, base : Tips, failed : BOOLEAN,
           commit : AnyLock, tries : 0..MaxTries]

\* A tip of the branch; one that was the tip when t or an earlier one was; how
\* one push changes it.
TipOK(t) == t \in Tips /\ t.lock # NoFile /\ t.outs = Held(t.lock) /\ Within(StartOuts, t.outs)
FormerTip(b, t) == TipOK(b) /\ b.n <= t.n /\ (b.n = t.n => b = t) /\ Within(b.outs, t.outs)
Grows(t, u) == t = u \/ (u.n = t.n + 1 /\ Within(t.outs, u.outs))

\* The result a worktree is about to push.
Unpublished(w, s) == w.at \in {"fetch", "push"} /\ s = w.stage

\* A worktree, against the tip.
WorktreeOK(w, t) ==
  /\ w \in Worktrees /\ (w.at # "idle" <=> w.stage # None)
  /\ w.lock # NoFile /\ w.head.lock # NoFile
  /\ Within(StartOuts, Held(w.lock))
  /\ Within(Held(w.head.lock), Held(w.lock)) /\ Within(w.head.outs, w.outs)
  /\ \A s \in Stage : Unpublished(w, s) \/ (WithinAt(Held(w.lock), t.outs, s) /\ WithinAt(w.outs, t.outs, s))
  /\ w.at \in {"fetch", "push", "report"} => Held(w.lock)[w.stage] = w.outs[w.stage] /\ w.outs[w.stage] # 0
  /\ w.at = "push" =>
       /\ FormerTip(w.seen, t)
       /\ \A s \in Stage : IF s = w.stage THEN w.seen.outs[s] \in {0, w.outs[s]}
                                         ELSE w.seen.outs[s] = Held(w.lock)[s]
  /\ w.at = "run" => \A d \in Dep[w.stage] : Held(w.lock)[d] # 0 /\ w.outs[d] # 0

\* The clone of a classic job: its commits add results to a former tip.
CloneOK(c, t) ==
  /\ c \in Clones /\ c.lock # NoFile /\ c.outs = Held(c.lock)
  /\ FormerTip(c.base, t)
  /\ \A s \in Planned : c.base.outs[s] \in {0, c.outs[s]} /\ (c.outs[s] # 0 => s \in c.ran)
  /\ \A s \in Others : c.base.outs[s] = c.outs[s]

WorktreesOK == wt \in [Runner -> Worktrees] /\ \A r \in Runner : WorktreeOK(wt[r], tip)

\* The headnode was told of results that are on the branch, and hands out a
\* stage when its inputs are among them.
RowsOK ==
  /\ row \in [Planned -> [st : {"waiting", "running", "done"}, by : Runner \cup {None}]]
  /\ result \in [Planned -> 0..MaxVersion]
  /\ \A s \in Planned : /\ row[s].st = "done" => result[s] # 0
                        /\ result[s] \in {0, tip.outs[s]}
  /\ \A r \in Runner : wt[r].at \in {"sync", "run"} => \A d \in Dep[wt[r].stage] : result[d] # 0

\* A job has executors or a clone; alone, the clone knows what it has run.
ModeOK ==
  /\ mode \in Modes /\ faults \in 0..MaxFaults
  /\ mode = "classic" => /\ \A s \in Planned : tip.outs[s] # 0 => s \in clone.ran
                         /\ \A r \in Runner : wt[r].at = "idle"

IInv == TipOK(tip) /\ WorktreesOK /\ CloneOK(clone, tip) /\ RowsOK /\ ModeOK

-----------------------------------------------------------------------------
\* What a lock file holds.
LEMMA HeldType ==
  ASSUME NEW l \in Locks
  PROVE  /\ Held(l) \in Outs /\ DOMAIN l \subseteq Stage
         /\ \A s \in Stage : /\ s \in DOMAIN l <=> Held(l)[s] # 0
                             /\ s \in DOMAIN l => l[s] = Held(l)[s] /\ l[s] \in Version
<1>1. PICK D \in SUBSET Stage : l \in [D -> Version]
  BY DEF Locks
<1> QED
  BY <1>1, GitSyncAssumption DEF Held, Outs, Version

\* A file is known by what it holds.
LEMMA HeldInjective ==
  ASSUME NEW l \in Locks, NEW m \in Locks, Held(l) = Held(m)
  PROVE  l = m
<1>1. PICK D \in SUBSET Stage : l \in [D -> Version]
  BY DEF Locks
<1>2. PICK E \in SUBSET Stage : m \in [E -> Version]
  BY DEF Locks
<1>3. D = E
  BY <1>1, <1>2, HeldType
<1>4. \A s \in D : l[s] = m[s]
  BY <1>1, <1>2, <1>3, HeldType
<1> QED
  BY <1>1, <1>2, <1>3, <1>4

\* A run of a stage writes one entry.
LEMMA SetHeld ==
  ASSUME NEW l \in Locks, NEW s \in Stage, NEW v \in Version
  PROVE  Set(l, s, v) \in Locks /\ Held(Set(l, s, v)) = [Held(l) EXCEPT ![s] = v]
<1>1. PICK D \in SUBSET Stage : l \in [D -> Version]
  BY DEF Locks
<1>2. Set(l, s, v) \in [D \cup {s} -> Version]
  BY <1>1 DEF Set
<1>3. Set(l, s, v) \in Locks
  BY <1>2 DEF Locks
<1>4. \A x \in Stage : Held(Set(l, s, v))[x] = IF x = s THEN v ELSE Held(l)[x]
  BY <1>1, <1>2 DEF Set, Held
<1> QED
  BY <1>3, <1>4 DEF Held

\* What a lock records of a stage is the content the merge compares.
LEMMA HeldContent ==
  ASSUME NEW l \in Locks, NEW m \in Locks, NEW s \in Stage
  PROVE  Content(l, s) = Content(m, s) <=> Held(l)[s] = Held(m)[s]
<1>1. Content(l, s) = Content(m, s)
        <=> (s \in DOMAIN l <=> s \in DOMAIN m) /\ (s \in DOMAIN l => l[s] = m[s])
  BY SameContent
<1>2. (s \in DOMAIN l <=> Held(l)[s] # 0) /\ (s \in DOMAIN l => l[s] = Held(l)[s])
  BY HeldType
<1>3. (s \in DOMAIN m <=> Held(m)[s] # 0) /\ (s \in DOMAIN m => m[s] = Held(m)[s])
  BY HeldType
<1> QED
  BY <1>1, <1>2, <1>3

\* The merge, stage by stage.
LEMMA MergeHeld ==
  ASSUME NEW o \in Locks, NEW a \in Locks, NEW b \in Locks, Conflicts(o, a, b) = {}
  PROVE  /\ MergedEntries(o, a, b) \in Locks
         /\ \A s \in Stage :
              /\ Held(MergedEntries(o, a, b))[s] =
                   IF Held(a)[s] # Held(o)[s] THEN Held(a)[s] ELSE Held(b)[s]
              /\ \/ Held(a)[s] = Held(o)[s]
                 \/ Held(b)[s] = Held(o)[s]
                 \/ Held(a)[s] = Held(b)[s]
<1> DEFINE M == MergedEntries(o, a, b)
<1>1. M \in Locks
  <2>1. MergedNames(o, a, b) \in SUBSET Stage
    BY HeldType DEF MergedNames
  <2>2. M \in [MergedNames(o, a, b) -> Version]
    BY HeldType DEF MergedEntries, MergedNames
  <2> QED
    BY <2>1, <2>2 DEF Locks
<1> HIDE DEF M
<1>2. ASSUME NEW s \in Stage
      PROVE  Held(M)[s] = IF Held(a)[s] # Held(o)[s] THEN Held(a)[s] ELSE Held(b)[s]
  <2>1. Content(M, s) = IF Content(a, s) # Content(o, s) THEN Content(a, s) ELSE Content(b, s)
    BY MergeIsThreeWay DEF ThreeWay, M
  <2> QED
    BY <1>1, <2>1, HeldContent
<1>3. ASSUME NEW s \in Stage
      PROVE  Held(a)[s] = Held(o)[s] \/ Held(b)[s] = Held(o)[s] \/ Held(a)[s] = Held(b)[s]
  BY ConflictsAreClashes, HeldContent DEF Clash
<1> QED
  BY <1>1, <1>2, <1>3 DEF M

\* Within is a partial order.
LEMMA WithinOrder ==
  ASSUME NEW f \in Outs, NEW g \in Outs, NEW h \in Outs, NEW s \in Stage
  PROVE  /\ WithinAt(f, f, s)
         /\ WithinAt(f, g, s) /\ WithinAt(g, h, s) => WithinAt(f, h, s)
         /\ WithinAt(f, g, s) /\ WithinAt(g, h, s) /\ f[s] = h[s] => f[s] = g[s]
BY GitSyncAssumption DEF WithinAt, Outs, Stage

\* The start of a fresh job.
LEMMA StartHeld ==
  ASSUME FreshJob
  PROVE  /\ StartLock \in Locks /\ StartOuts = Held(StartLock) /\ StartOuts \in Outs
         /\ \A s \in Planned : StartOuts[s] = 0
<1>1. StartLock \in Locks /\ Entries(StartLock) = StartLock
  BY GitSyncAssumption DEF FreshJob, AnyLock, Entries
<1> QED
  BY <1>1, HeldType DEF StartOuts, Held, FreshJob, Stage

\* A lock with one result of its own on top of what the remote has.
LEMMA PushedHeld ==
  ASSUME FreshJob, NEW a \in Locks, NEW b \in Locks, NEW k \in Planned,
         ~LockConflict(a, b), Within(StartOuts, Held(a)), Held(a)[k] # 0,
         \A s \in Stage \ {k} : WithinAt(Held(a), Held(b), s)
  PROVE  /\ PushedLock(a, b) \in Locks
         /\ \A s \in Stage : Held(PushedLock(a, b))[s] = IF s = k THEN Held(a)[s] ELSE Held(b)[s]
         /\ Held(b)[k] \in {0, Held(a)[k]}
<1>1. StartLock \in Locks /\ StartOuts = Held(StartLock) /\ StartOuts \in Outs
      /\ (\A s \in Planned : StartOuts[s] = 0) /\ Held(a) \in Outs /\ Held(b) \in Outs
  BY StartHeld, HeldType
<1>2. a # StartLock /\ a # NoFile /\ b # NoFile /\ StartLock # NoFile /\ k \in Stage
  BY <1>1, GitSyncAssumption DEF FreshJob, Stage
<1>3. CASE b = StartLock
  <2>1. PushedLock(a, b) = a
    BY <1>3 DEF PushedLock, BothChanged
  <2>2. ASSUME NEW s \in Stage \ {k} PROVE Held(a)[s] = Held(b)[s]
    BY <1>1, <1>3, <2>2, WithinOrder DEF Within
  <2> QED
    BY <1>1, <1>3, <2>1, <2>2
<1>4. CASE b # StartLock
  <2>1. Conflicts(StartLock, a, b) = {} /\ PushedLock(a, b) = MergedEntries(StartLock, a, b)
    BY <1>2, <1>4 DEF LockConflict, BothChanged, PushedLock
  <2>2. /\ PushedLock(a, b) \in Locks
        /\ \A s \in Stage :
             /\ Held(PushedLock(a, b))[s] = IF Held(a)[s] # StartOuts[s] THEN Held(a)[s] ELSE Held(b)[s]
             /\ Held(a)[s] = StartOuts[s] \/ Held(b)[s] = StartOuts[s] \/ Held(a)[s] = Held(b)[s]
    BY <1>1, <2>1, MergeHeld
  <2>3. ASSUME NEW s \in Stage \ {k} PROVE Held(PushedLock(a, b))[s] = Held(b)[s]
    BY <1>1, <2>2, WithinOrder DEF Within
  <2>4. Held(PushedLock(a, b))[k] = Held(a)[k] /\ Held(b)[k] \in {0, Held(a)[k]}
    BY <1>1, <1>2, <2>2
  <2> QED
    BY <2>2, <2>3, <2>4
<1> QED
  BY <1>3, <1>4

-----------------------------------------------------------------------------
\* What a state is made of.
LEMMA TipParts ==
  ASSUME NEW t, TipOK(t)
  PROVE  t.n \in Nat /\ t.code \in 0..MaxCommits /\ t.lock \in Locks /\ t.outs \in Outs /\ Held(t.lock) = t.outs
BY DEF TipOK, Tips, AnyLock

\* The same of a worktree.
LEMMA WorktreeParts ==
  ASSUME NEW t, NEW w, WorktreeOK(w, t)
  PROVE  /\ w.lock \in Locks /\ Held(w.lock) \in Outs /\ w.outs \in Outs
         /\ w.head.lock \in Locks /\ Held(w.head.lock) \in Outs /\ w.head.outs \in Outs
         /\ w.at # "idle" => w.stage \in Planned /\ w.stage \in Stage
BY HeldType DEF WorktreeOK, Worktrees, AnyLock, Stage

\* The branch moves on: a former tip stays one.
LEMMA FormerTipStays ==
  ASSUME NEW t, NEW u, NEW b, TipOK(t), TipOK(u), Grows(t, u), FormerTip(b, t)
  PROVE  FormerTip(b, u)
BY WithinOrder, TipParts DEF FormerTip, Grows, Within

\* A push of somebody else leaves a worktree below the tip.
LEMMA WorktreeStays ==
  ASSUME NEW t, NEW u, NEW w, TipOK(t), TipOK(u), Grows(t, u), WorktreeOK(w, t)
  PROVE  WorktreeOK(w, u)
<1>1. ASSUME NEW s \in Stage, ~Unpublished(w, s)
      PROVE  WithinAt(Held(w.lock), u.outs, s) /\ WithinAt(w.outs, u.outs, s)
  <2>1. WithinAt(Held(w.lock), t.outs, s) /\ WithinAt(w.outs, t.outs, s)
    BY <1>1 DEF WorktreeOK
  <2>2. WithinAt(t.outs, u.outs, s)
    BY WithinOrder, TipParts DEF Grows, Within
  <2> QED
    BY <2>1, <2>2, WithinOrder, TipParts, WorktreeParts
<1>2. w.at = "push" => FormerTip(w.seen, u)
  BY FormerTipStays DEF WorktreeOK
<1> QED
  BY <1>1, <1>2 DEF WorktreeOK

\* So it does the clone of a classic job.
LEMMA CloneStays ==
  ASSUME NEW t, NEW u, NEW c, TipOK(t), TipOK(u), Grows(t, u), CloneOK(c, t)
  PROVE  CloneOK(c, u)
BY FormerTipStays DEF CloneOK

\* A step of one executor, with or without a push.
LEMMA RunnerStep ==
  ASSUME IInv, NEW r \in Runner, NEW w, wt' = [wt EXCEPT ![r] = w], WorktreeOK(w, tip'),
         TipOK(tip'), Grows(tip, tip'), UNCHANGED clone
  PROVE  WorktreesOK' /\ CloneOK(clone, tip)'
<1>1. wt' \in [Runner -> Worktrees]
  BY DEF IInv, WorktreesOK, WorktreeOK
<1>2. ASSUME NEW q \in Runner PROVE WorktreeOK(wt'[q], tip')
  BY WorktreeStays DEF IInv, WorktreesOK
<1>3. CloneOK(clone', tip')
  BY CloneStays DEF IInv
<1> QED
  BY <1>1, <1>2, <1>3 DEF WorktreesOK

-----------------------------------------------------------------------------
\* An executor that died is replaced by a worktree at the start commit.
LEMMA FreshOK ==
  ASSUME FreshJob, NEW t, TipOK(t)
  PROVE  WorktreeOK(FreshWorktree, t)
<1>1. FreshWorktree \in Worktrees
  BY StartHeld, GitSyncAssumption DEF FreshWorktree, Worktrees, AnyLock, StartTip, Tips
<1> QED
  BY <1>1, StartHeld, WithinOrder, GitSyncAssumption
     DEF FreshWorktree, WorktreeOK, TipOK, Within, Unpublished, FreshJob

\* A worktree is kept from one stage to the next.
LEMMA IdleOK ==
  ASSUME FreshJob, NEW t, TipOK(t), NEW w, WorktreeOK(w, t), w.at \in {"run", "report"}
  PROVE  WorktreeOK(Idle(w), t)
<1>1. StartTip \in Tips
  BY StartHeld, GitSyncAssumption DEF AnyLock, StartTip, Tips
<1>2. Idle(w) \in Worktrees
  <2>1. w \in Worktrees /\ 0 \in 0..MaxTries
    BY GitSyncAssumption DEF WorktreeOK
  <2> QED
    BY <1>1, <2>1 DEF Worktrees, Idle
<1> QED
  BY <1>2 DEF WorktreeOK, Worktrees, Idle, Unpublished

\* Before a stage, a worktree becomes the remote's.
LEMMA SyncedIsTip ==
  ASSUME FreshJob, TipOK(tip), NEW w, WorktreeOK(w, tip), w.at = "sync",
         ~(w.head.lock # tip.lock /\ LockConflict(w.lock, tip.lock))
  PROVE  SyncedLock(w) = tip.lock /\ SyncedOuts(w) = tip.outs
<1>1. /\ tip.lock \in Locks /\ Held(tip.lock) = tip.outs /\ tip.outs \in Outs
      /\ w.lock \in Locks /\ Held(w.lock) \in Outs /\ w.outs \in Outs
      /\ w.head.lock \in Locks /\ Held(w.head.lock) \in Outs /\ w.head.outs \in Outs
  BY TipParts, WorktreeParts
<1>2. \A s \in Stage : WithinAt(Held(w.lock), tip.outs, s) /\ WithinAt(w.outs, tip.outs, s)
  BY DEF WorktreeOK, Unpublished
<1>3. SyncedOuts(w) = tip.outs
  <2>1. ASSUME NEW s \in Stage, w.head.outs[s] = tip.outs[s] PROVE w.outs[s] = tip.outs[s]
    <3>1. WithinAt(w.head.outs, w.outs, s)
      BY DEF WorktreeOK, Within
    <3> QED
      BY <1>1, <1>2, <2>1, <3>1, WithinOrder
  <2> QED
    BY <1>1, <2>1 DEF SyncedOuts, Outs
<1>4. CASE w.head.lock = tip.lock
  <2>1. ASSUME NEW s \in Stage PROVE Held(w.lock)[s] = Held(tip.lock)[s]
    <3>1. WithinAt(Held(w.head.lock), Held(w.lock), s)
      BY DEF WorktreeOK, Within
    <3> QED
      BY <1>1, <1>2, <1>4, <3>1, WithinOrder
  <2>2. Held(w.lock) = Held(tip.lock)
    BY <1>1, <2>1 DEF Held
  <2> QED
    BY <1>1, <1>3, <1>4, <2>2, HeldInjective DEF SyncedLock
<1>5. CASE w.head.lock # tip.lock /\ BothChanged(w.lock, tip.lock)
  <2> DEFINE M == MergedEntries(StartLock, w.lock, tip.lock)
  <2>1. StartLock \in Locks /\ Conflicts(StartLock, w.lock, tip.lock) = {}
        /\ StartOuts = Held(StartLock) /\ StartOuts \in Outs
    BY <1>5, StartHeld DEF LockConflict
  <2>2. M \in Locks
    BY <1>1, <2>1, MergeHeld
  <2>3. ASSUME NEW s \in Stage PROVE Held(M)[s] = Held(tip.lock)[s]
    <3>1. WithinAt(StartOuts, Held(w.lock), s) /\ WithinAt(Held(w.lock), Held(tip.lock), s)
      BY <1>1, <1>2 DEF WorktreeOK, Within
    <3>2. /\ Held(M)[s] = IF Held(w.lock)[s] # StartOuts[s] THEN Held(w.lock)[s] ELSE Held(tip.lock)[s]
          /\ \/ Held(w.lock)[s] = StartOuts[s]
             \/ Held(tip.lock)[s] = StartOuts[s]
             \/ Held(w.lock)[s] = Held(tip.lock)[s]
      BY <1>1, <2>1, MergeHeld
    <3> QED
      BY <1>1, <2>1, <3>1, <3>2, WithinOrder
  <2>4. Held(M) = Held(tip.lock)
    BY <2>3 DEF Held
  <2> QED
    BY <1>1, <1>3, <1>5, <2>2, <2>4, HeldInjective DEF SyncedLock
<1>6. CASE w.head.lock # tip.lock /\ ~BothChanged(w.lock, tip.lock)
  BY <1>3, <1>6 DEF SyncedLock
<1> QED
  BY <1>4, <1>5, <1>6

\* Two sides that agree wherever both changed do not conflict.
LEMMA NoConflict ==
  ASSUME NEW o \in Locks, NEW a \in Locks, NEW b \in Locks,
         \A s \in Stage : Held(a)[s] = Held(o)[s] \/ Held(b)[s] = Held(o)[s] \/ Held(a)[s] = Held(b)[s]
  PROVE  Conflicts(o, a, b) = {}
<1>1. ASSUME NEW n \in Conflicts(o, a, b) PROVE FALSE
  <2>1. n \in Stage
    BY HeldType DEF Conflicts, OursInConflict, TheirsInConflict
  <2>2. Clash(o, a, b, n)
    BY ConflictsAreClashes
  <2> QED
    BY <2>1, <2>2, HeldContent DEF Clash
<1> QED
  BY <1>1

\* A push the remote takes adds the result of one stage to the tip.
LEMMA PushAccepted ==
  ASSUME FreshJob, IInv, NEW r \in Runner, wt[r].at = "push",
         Accepts(wt[r].seen), Advance(Built(wt[r]))
  PROVE  /\ TipOK(tip') /\ Grows(tip, tip') /\ tip'.code = tip.code
         /\ \A s \in Stage : s # wt[r].stage => tip'.outs[s] = tip.outs[s]
         /\ tip'.outs[wt[r].stage] = wt[r].outs[wt[r].stage]
<1> DEFINE w == wt[r]
           k == w.stage
<1>1. WorktreeOK(w, tip) /\ TipOK(tip)
  BY DEF IInv, WorktreesOK
<1>2. /\ tip.n \in Nat /\ tip.code \in 0..MaxCommits /\ tip.lock \in Locks
      /\ tip.outs \in Outs /\ Held(tip.lock) = tip.outs
      /\ w.lock \in Locks /\ Held(w.lock) \in Outs /\ w.outs \in Outs /\ k \in Planned /\ k \in Stage
  BY <1>1, TipParts, WorktreeParts
<1>3. w.seen = tip
  BY <1>1 DEF WorktreeOK, FormerTip, Accepts
<1>4. /\ Held(w.lock)[k] = w.outs[k] /\ w.outs[k] # 0 /\ tip.outs[k] \in {0, w.outs[k]}
      /\ \A s \in Stage : s # k => tip.outs[s] = Held(w.lock)[s]
      /\ Within(StartOuts, Held(w.lock))
  BY <1>1, <1>2, <1>3 DEF WorktreeOK
<1>5. /\ StartLock \in Locks /\ StartOuts = Held(StartLock) /\ StartOuts \in Outs
      /\ StartOuts[k] = 0
  BY <1>2, StartHeld
<1> HIDE DEF w, k
<1>6. Conflicts(StartLock, w.lock, tip.lock) = {}
  BY <1>2, <1>4, <1>5, NoConflict
<1>7. \A s \in Stage \ {k} : WithinAt(Held(w.lock), Held(tip.lock), s)
  BY <1>2, <1>4, WithinOrder DEF WithinAt
<1>8. /\ PushedLock(w.lock, tip.lock) \in Locks
      /\ \A s \in Stage : Held(PushedLock(w.lock, tip.lock))[s] = IF s = k THEN w.outs[k] ELSE tip.outs[s]
  BY <1>2, <1>4, <1>6, <1>7, PushedHeld DEF LockConflict
<1>9. /\ tip'.n = tip.n + 1 /\ tip'.code = tip.code /\ tip'.lock = PushedLock(w.lock, tip.lock)
      /\ tip'.outs = [tip.outs EXCEPT ![k] = w.outs[k]]
      /\ tip' = [n |-> tip'.n, code |-> tip'.code, lock |-> tip'.lock, outs |-> tip'.outs]
  BY <1>3 DEF Advance, Built, w, k
<1>10. tip'.outs \in Outs /\ \A s \in Stage : tip'.outs[s] = IF s = k THEN w.outs[k] ELSE tip.outs[s]
  BY <1>2, <1>9 DEF Outs
<1>11. tip' \in Tips /\ tip'.lock # NoFile
  BY <1>2, <1>8, <1>9, <1>10, GitSyncAssumption DEF Tips, AnyLock
<1>12. tip'.outs = Held(tip'.lock)
  BY <1>8, <1>9, <1>10, HeldType DEF Outs
<1>13. Within(tip.outs, tip'.outs)
  BY <1>2, <1>4, <1>10, GitSyncAssumption DEF Within, WithinAt, Outs
<1>14. Within(StartOuts, tip'.outs)
  BY <1>1, <1>2, <1>5, <1>10, <1>13, WithinOrder DEF TipOK, Within
<1> QED
  BY <1>2, <1>9, <1>10, <1>11, <1>12, <1>13, <1>14 DEF TipOK, Grows, w, k

-----------------------------------------------------------------------------
\* What an executor does between two answers of the headnode.
LEMMA RunnerMoves ==
  ASSUME IInv, NEW r \in Runner, wt[r].at # "idle", NEW w, wt' = [wt EXCEPT ![r] = w],
         WorktreeOK(w, tip'), TipOK(tip'), Grows(tip, tip'), UNCHANGED <<mode, clone, result>>,
         faults' \in 0..MaxFaults,
         row' \in [Planned -> [st : {"waiting", "running", "done"}, by : Runner \cup {None}]],
         \A s \in Planned : row'[s].st = "done" => row[s].st = "done",
         w.at \in {"sync", "run"} => wt[r].at \in {"sync", "run"} /\ w.stage = wt[r].stage
  PROVE  IInv'
<1>1. WorktreesOK' /\ CloneOK(clone, tip)'
  BY RunnerStep
<1>2. \A s \in Planned : result'[s] \in {0, tip'.outs[s]}
  BY TipParts DEF IInv, RowsOK, Grows, Within, WithinAt, Stage
<1>3. \A q \in Runner : wt'[q].at \in {"sync", "run"} => \A d \in Dep[wt'[q].stage] : result'[d] # 0
  BY DEF IInv, RowsOK, WorktreesOK
<1>4. RowsOK'
  BY <1>2, <1>3 DEF IInv, RowsOK
<1>5. ModeOK'
  BY DEF IInv, ModeOK
<1> QED
  BY <1>1, <1>4, <1>5 DEF IInv

\* A requeued row is no longer done.
LEMMA RequeuedType ==
  ASSUME IInv, NEW r \in Runner
  PROVE  /\ Requeued(row, r) \in [Planned -> [st : {"waiting", "running", "done"}, by : Runner \cup {None}]]
         /\ \A s \in Planned : Requeued(row, r)[s].st = "done" => row[s].st = "done"
BY DEF Requeued, IInv, RowsOK

\* An executor may die at any point.
LEMMA DiesStep ==
  ASSUME FreshJob, IInv, NEW r \in Runner, wt[r].at # "idle", Dies(r), TipOK(tip'), Grows(tip, tip'),
         UNCHANGED <<mode, clone, result>>, faults' \in 0..MaxFaults
  PROVE  IInv'
<1>1. WorktreeOK(FreshWorktree, tip')
  BY FreshOK
<1>2. FreshWorktree.at = "idle"
  BY DEF FreshWorktree
<1> QED
  BY <1>1, <1>2, RequeuedType, RunnerMoves DEF Dies

\* What holds of an executor.
LEMMA Facts ==
  ASSUME IInv, NEW r \in Runner
  PROVE  /\ TipOK(tip) /\ Grows(tip, tip) /\ WorktreeOK(wt[r], tip) /\ faults \in 0..MaxFaults
         /\ wt \in [Runner -> Worktrees]
         /\ row \in [Planned -> [st : {"waiting", "running", "done"}, by : Runner \cup {None}]]
BY DEF IInv, WorktreesOK, RowsOK, ModeOK, Grows

\* A fault stays within the budget of faults.
LEMMA FaultBounded ==
  ASSUME faults \in 0..MaxFaults, NEW kind, Fault(kind) PROVE faults' \in 0..MaxFaults
BY GitSyncAssumption DEF Fault

\* sync_before_node leaves the worktree of the tip, or ends the executor.
LEMMA SyncStep ==
  ASSUME FreshJob, IInv, NEW r \in Runner, SyncBeforeNode(r)
  PROVE  IInv'
<1>1. wt[r].at = "sync" /\ wt[r].at # "idle" /\ UNCHANGED <<mode, tip, result, clone, faults>>
  BY DEF SyncBeforeNode
<1>2. CASE wt[r].head.lock # tip.lock /\ LockConflict(wt[r].lock, tip.lock)
  BY <1>1, <1>2, Facts, DiesStep DEF SyncBeforeNode
<1>3. CASE ~(wt[r].head.lock # tip.lock /\ LockConflict(wt[r].lock, tip.lock))
  <2> DEFINE w == [wt[r] EXCEPT !.at = "run", !.lock = tip.lock, !.outs = tip.outs]
  <2>1. wt' = [wt EXCEPT ![r] = w] /\ UNCHANGED row
    <3>1. SyncedLock(wt[r]) = tip.lock /\ SyncedOuts(wt[r]) = tip.outs
      BY <1>1, <1>3, Facts, SyncedIsTip
    <3> QED
      BY <1>3, <3>1, Facts DEF SyncBeforeNode
  <2>2. WorktreeOK(w, tip)
    <3>1. WorktreeOK(wt[r], tip) /\ TipOK(tip)
      BY Facts
    <3>2. w \in Worktrees /\ (w.at # "idle" <=> w.stage # None)
      <4>1. wt[r] \in Worktrees /\ wt[r].stage # None
        BY <1>1, <3>1 DEF WorktreeOK
      <4>2. tip.lock \in AnyLock /\ tip.outs \in Outs
        BY <3>1, TipParts DEF AnyLock
      <4> QED
        BY <4>1, <4>2 DEF Worktrees
    <3>3. /\ tip.lock # NoFile /\ Within(StartOuts, Held(tip.lock)) /\ Held(tip.lock) = tip.outs
          /\ wt[r].head.lock # NoFile
      BY <3>1 DEF TipOK, WorktreeOK
    <3>4. ASSUME NEW s \in Stage
          PROVE  /\ WithinAt(Held(wt[r].head.lock), Held(tip.lock), s)
                 /\ WithinAt(wt[r].head.outs, tip.outs, s) /\ WithinAt(tip.outs, tip.outs, s)
      <4>1. /\ WithinAt(Held(wt[r].head.lock), Held(wt[r].lock), s) /\ WithinAt(Held(wt[r].lock), tip.outs, s)
            /\ WithinAt(wt[r].head.outs, wt[r].outs, s) /\ WithinAt(wt[r].outs, tip.outs, s)
        BY <1>1, <3>1 DEF WorktreeOK, Within, Unpublished
      <4> QED
        BY <3>1, <4>1, WithinOrder, TipParts, WorktreeParts
    <3>5. ASSUME NEW d \in Dep[wt[r].stage] PROVE tip.outs[d] # 0
      <4>1. wt[r].stage \in Planned /\ d \in Planned
        BY <1>1, <3>1, WorktreeParts, GitSyncAssumption
      <4>2. result[d] # 0 /\ result[d] \in {0, tip.outs[d]}
        BY <1>1, <4>1 DEF IInv, RowsOK
      <4> QED
        BY <4>2
    <3> QED
      BY <3>2, <3>3, <3>4, <3>5 DEF WorktreeOK, Within, Unpublished
  <2>3. w.at = "run" /\ w.stage = wt[r].stage
    OBVIOUS
  <2> HIDE DEF w
  <2> QED
    BY <1>1, <2>1, <2>2, <2>3, Facts, RunnerMoves
<1> QED
  BY <1>2, <1>3

\* An executor that misses an input, or whose stage fails, keeps its worktree.
LEMMA MissingDepsStep ==
  ASSUME FreshJob, IInv, NEW r \in Runner, NEW d \in Planned, MissingDeps(r, d)
  PROVE  IInv'
<1>1. wt[r].at = "run" /\ Fault("stage") /\ UNCHANGED <<mode, tip, result, clone>>
  BY DEF MissingDeps
<1>2. wt' = [wt EXCEPT ![r] = Idle(wt[r])] /\ WorktreeOK(Idle(wt[r]), tip)
  BY <1>1, Facts, IdleOK DEF MissingDeps
<1>3. Idle(wt[r]).at = "idle"
  BY Facts DEF Idle, Worktrees
<1>4. /\ row' \in [Planned -> [st : {"waiting", "running", "done"}, by : Runner \cup {None}]]
      /\ \A s \in Planned : row'[s].st = "done" => row[s].st = "done"
  BY Facts DEF MissingDeps
<1> QED
  BY <1>1, <1>2, <1>3, <1>4, Facts, FaultBounded, RunnerMoves

\* The same for a failed stage.
LEMMA StageFailsStep ==
  ASSUME FreshJob, IInv, NEW r \in Runner, StageFails(r)
  PROVE  IInv'
<1>1. wt[r].at = "run" /\ Fault("stage") /\ UNCHANGED <<mode, tip, result, clone>>
  BY DEF StageFails
<1>2. wt' = [wt EXCEPT ![r] = Idle(wt[r])] /\ WorktreeOK(Idle(wt[r]), tip)
  BY <1>1, Facts, IdleOK DEF StageFails
<1>3. Idle(wt[r]).at = "idle"
  BY Facts DEF Idle, Worktrees
<1>4. /\ row' \in [Planned -> [st : {"waiting", "running", "done"}, by : Runner \cup {None}]]
      /\ \A s \in Planned : row'[s].st = "done" => row[s].st = "done"
  BY RequeuedType DEF StageFails
<1> QED
  BY <1>1, <1>2, <1>3, <1>4, Facts, FaultBounded, RunnerMoves

\* A run adds one result, not published yet.
LEMMA RunNodeStep ==
  ASSUME FreshJob, IInv, NEW r \in Runner, NEW v \in Version, RunNode(r, v)
  PROVE  IInv'
<1> DEFINE k == wt[r].stage
           lock == Set(wt[r].lock, k, v)
           outs == [wt[r].outs EXCEPT ![k] = v]
           w == [wt[r] EXCEPT !.at = "fetch", !.tries = 1, !.lock = lock, !.outs = outs,
                              !.head = [lock |-> lock, outs |-> outs]]
<1>1. wt[r].at = "run" /\ WorktreeOK(wt[r], tip) /\ UNCHANGED <<mode, tip, row, result, clone, faults>>
  BY Facts DEF RunNode
<1>2. /\ wt[r].lock \in Locks /\ Held(wt[r].lock) \in Outs /\ wt[r].outs \in Outs
      /\ k \in Planned /\ k \in Stage /\ wt[r].lock # NoFile
  BY <1>1, WorktreeParts DEF WorktreeOK
<1>3. wt' = [wt EXCEPT ![r] = w]
  BY <1>2, Facts DEF RunNode, Entries, Work
<1>4. /\ lock \in Locks /\ lock # NoFile /\ Held(lock) = [Held(wt[r].lock) EXCEPT ![k] = v]
  BY <1>2, SetHeld, GitSyncAssumption
<1>5. outs \in Outs /\ Held(lock) \in Outs /\ v # 0
  BY <1>2, <1>4, HeldType DEF Outs, Version
<1>6. w \in Worktrees /\ w.at = "fetch" /\ w.stage = k /\ w.stage # None
      /\ w.lock = lock /\ w.outs = outs /\ w.head.lock = lock /\ w.head.outs = outs
  <2>1. wt[r] \in Worktrees /\ 1 \in 0..MaxTries
    BY <1>1, GitSyncAssumption DEF WorktreeOK
  <2>2. k # None
    BY <1>2, GitSyncAssumption
  <2> HIDE DEF lock, outs
  <2> QED
    BY <1>4, <1>5, <2>1, <2>2 DEF Worktrees, AnyLock
<1>7. ASSUME NEW s \in Stage
      PROVE  /\ WithinAt(StartOuts, Held(lock), s)
             /\ WithinAt(Held(lock), Held(lock), s) /\ WithinAt(outs, outs, s)
             /\ s # k => WithinAt(Held(lock), tip.outs, s) /\ WithinAt(outs, tip.outs, s)
  <2>1. WithinAt(Held(lock), Held(lock), s) /\ WithinAt(outs, outs, s)
    BY <1>5, WithinOrder
  <2>2. WithinAt(StartOuts, Held(wt[r].lock), s)
        /\ WithinAt(Held(wt[r].lock), tip.outs, s) /\ WithinAt(wt[r].outs, tip.outs, s)
    BY <1>1 DEF WorktreeOK, Within, Unpublished
  <2>3. StartOuts[k] = 0 /\ StartOuts \in Outs
    BY <1>2, StartHeld
  <2>4. Held(lock)[s] = (IF s = k THEN v ELSE Held(wt[r].lock)[s])
        /\ outs[s] = (IF s = k THEN v ELSE wt[r].outs[s])
    BY <1>2, <1>4 DEF Outs
  <2> HIDE DEF k, lock, outs
  <2> QED
    BY <1>2, <2>1, <2>2, <2>3, <2>4, GitSyncAssumption DEF WithinAt
<1>8. Held(lock)[k] = outs[k] /\ outs[k] # 0
  BY <1>2, <1>4, <1>5 DEF Outs
<1> HIDE DEF k, lock, outs, w
<1>9. WorktreeOK(w, tip)
  BY <1>4, <1>6, <1>7, <1>8 DEF WorktreeOK, Within, Unpublished
<1> QED
  BY <1>1, <1>3, <1>6, <1>9, Facts, RunnerMoves

\* Another attempt.
LEMMA AgainStep ==
  ASSUME FreshJob, IInv, NEW r \in Runner, wt[r].at \in {"fetch", "push"}, Again(r),
         UNCHANGED <<mode, tip, clone, result>>, faults' \in 0..MaxFaults
  PROVE  IInv'
<1>1. CASE wt[r].tries = MaxTries
  BY <1>1, Facts, DiesStep DEF Again
<1>2. CASE wt[r].tries # MaxTries
  <2> DEFINE w == [wt[r] EXCEPT !.at = "fetch", !.tries = @ + 1, !.seen = StartTip]
  <2>1. wt' = [wt EXCEPT ![r] = w] /\ UNCHANGED row
    BY <1>2, Facts DEF Again
  <2>2. wt[r] \in Worktrees /\ wt[r].stage # None /\ WorktreeOK(wt[r], tip)
    BY Facts DEF WorktreeOK
  <2>3. wt[r].tries + 1 \in 0..MaxTries
    BY <1>2, <2>2, GitSyncAssumption DEF Worktrees
  <2>4. StartTip \in Tips
    BY StartHeld, GitSyncAssumption DEF AnyLock, StartTip, Tips
  <2>5. w \in Worktrees /\ w.at = "fetch" /\ w.stage = wt[r].stage
        /\ w.lock = wt[r].lock /\ w.outs = wt[r].outs /\ w.head = wt[r].head
    BY <2>2, <2>3, <2>4 DEF Worktrees
  <2> HIDE DEF w
  <2>6. WorktreeOK(w, tip)
    BY <2>2, <2>5 DEF WorktreeOK, Unpublished
  <2> QED
    BY <2>1, <2>5, <2>6, Facts, RunnerMoves
<1> QED
  BY <1>1, <1>2

\* A failed fetch is another attempt, or the last.
LEMMA FetchFailsStep ==
  ASSUME FreshJob, IInv, NEW r \in Runner, FetchFails(r)
  PROVE  IInv'
BY Facts, FaultBounded, AgainStep DEF FetchFails

\* A fetch merges the tip into the worktree's lock.
LEMMA FetchStep ==
  ASSUME FreshJob, IInv, NEW r \in Runner, FetchToPush(r)
  PROVE  IInv'
<1> DEFINE k == wt[r].stage
           merged == PushedLock(wt[r].lock, tip.lock)
<1>1. wt[r].at = "fetch" /\ wt[r].at # "idle" /\ UNCHANGED <<mode, tip, result, clone, faults>>
  BY DEF FetchToPush
<1>2. CASE LockConflict(wt[r].lock, tip.lock)
  BY <1>1, <1>2, Facts, DiesStep DEF FetchToPush
<1>3. CASE ~LockConflict(wt[r].lock, tip.lock)
  <2>1. WorktreeOK(wt[r], tip) /\ TipOK(tip) /\ wt[r] \in Worktrees /\ k # None
    BY <1>1, Facts DEF WorktreeOK
  <2>2. /\ wt[r].lock \in Locks /\ Held(wt[r].lock) \in Outs /\ wt[r].outs \in Outs
        /\ k \in Planned /\ k \in Stage
        /\ wt[r].head.lock \in Locks /\ Held(wt[r].head.lock) \in Outs
        /\ tip.lock \in Locks /\ tip.outs \in Outs /\ Held(tip.lock) = tip.outs
    BY <1>1, <2>1, TipParts, WorktreeParts
  <2>3. /\ Held(wt[r].lock)[k] = wt[r].outs[k] /\ wt[r].outs[k] # 0
        /\ Within(StartOuts, Held(wt[r].lock)) /\ Within(StartOuts, tip.outs)
        /\ Within(Held(wt[r].head.lock), Held(wt[r].lock))
        /\ \A s \in Stage : s # k => WithinAt(Held(wt[r].lock), tip.outs, s) /\ WithinAt(wt[r].outs, tip.outs, s)
    BY <1>1, <2>1 DEF WorktreeOK, TipOK, Unpublished
  <2>4. /\ merged \in Locks /\ merged # NoFile
        /\ \A s \in Stage : Held(merged)[s] = IF s = k THEN wt[r].outs[k] ELSE tip.outs[s]
        /\ tip.outs[k] \in {0, wt[r].outs[k]}
    <3> HIDE DEF k
    <3> QED
      BY <1>3, <2>2, <2>3, PushedHeld, GitSyncAssumption
  <2>5. Held(merged) \in Outs
    BY <2>4, HeldType
  <2>6. ASSUME NEW s \in Stage
        PROVE  WithinAt(StartOuts, Held(merged), s) /\ WithinAt(Held(wt[r].head.lock), Held(merged), s)
    <3>1. WithinAt(StartOuts, tip.outs, s) /\ WithinAt(Held(wt[r].head.lock), Held(wt[r].lock), s)
          /\ StartOuts[k] = 0 /\ StartOuts \in Outs
      BY <2>2, <2>3, StartHeld DEF Within
    <3> HIDE DEF k, merged
    <3>2. CASE s = k
      BY <2>2, <2>3, <2>4, <3>1, <3>2, GitSyncAssumption DEF WithinAt
    <3>3. CASE s # k
      <4>1. Held(merged)[s] = tip.outs[s] /\ WithinAt(Held(wt[r].lock), tip.outs, s)
        BY <2>3, <2>4, <3>3
      <4>2. WithinAt(Held(wt[r].head.lock), tip.outs, s)
        BY <2>2, <3>1, <4>1, WithinOrder
      <4> QED
        BY <3>1, <4>1, <4>2 DEF WithinAt
    <3> QED
      BY <3>2, <3>3
  <2>7. CASE Built([wt[r] EXCEPT !.seen = tip]) = Tree(tip)
    <3> DEFINE w == [wt[r] EXCEPT !.seen = StartTip, !.lock = merged, !.at = "report"]
    <3>1. wt' = [wt EXCEPT ![r] = w] /\ UNCHANGED row
      BY <1>3, <2>7, Facts DEF FetchToPush
    <3>2. StartTip \in Tips
      BY StartHeld, GitSyncAssumption DEF AnyLock, StartTip, Tips
    <3>3. w \in Worktrees /\ w.at = "report" /\ w.stage = k /\ w.lock = merged
          /\ w.outs = wt[r].outs /\ w.head = wt[r].head
      <4> HIDE DEF merged
      <4> QED
        BY <2>1, <2>4, <3>2 DEF Worktrees, AnyLock
    <3>4. merged = tip.lock /\ tip.outs[k] = wt[r].outs[k]
      <4>1. [wt[r] EXCEPT !.seen = tip].seen = tip /\ [wt[r] EXCEPT !.seen = tip].lock = wt[r].lock
            /\ [wt[r] EXCEPT !.seen = tip].outs = wt[r].outs /\ [wt[r] EXCEPT !.seen = tip].stage = k
        BY <2>1 DEF Worktrees
      <4>2. merged = tip.lock /\ [tip.outs EXCEPT ![k] = wt[r].outs[k]] = tip.outs
        BY <2>7, <4>1 DEF Built, Tree
      <4> QED
        BY <2>2, <4>2 DEF Outs
    <3> HIDE DEF w, merged, k
    <3>5. ASSUME NEW s \in Stage
          PROVE  WithinAt(Held(merged), tip.outs, s) /\ WithinAt(wt[r].outs, tip.outs, s)
      BY <2>2, <2>3, <3>4, WithinOrder, GitSyncAssumption DEF WithinAt
    <3>6. Held(merged)[k] = wt[r].outs[k]
      BY <2>2, <3>4
    <3>7. WorktreeOK(w, tip)
      BY <2>1, <2>3, <2>4, <2>6, <3>3, <3>5, <3>6 DEF WorktreeOK, Within, Unpublished
    <3> QED
      BY <1>1, <3>1, <3>3, <3>7, Facts, RunnerMoves
  <2>8. CASE Built([wt[r] EXCEPT !.seen = tip]) # Tree(tip)
    <3> DEFINE w == [wt[r] EXCEPT !.seen = tip, !.lock = merged, !.at = "push"]
    <3>1. wt' = [wt EXCEPT ![r] = w] /\ UNCHANGED row
      BY <1>3, <2>8, Facts DEF FetchToPush
    <3>2. tip \in Tips
      BY <2>1 DEF TipOK
    <3>3. w \in Worktrees /\ w.at = "push" /\ w.stage = k /\ w.lock = merged
          /\ w.outs = wt[r].outs /\ w.head = wt[r].head /\ w.seen = tip
      <4> HIDE DEF merged
      <4> QED
        BY <2>1, <2>4, <3>2 DEF Worktrees, AnyLock
    <3> HIDE DEF w, merged, k
    <3>4. FormerTip(tip, tip)
      BY <2>1, <2>2, TipParts, WithinOrder DEF FormerTip, Within
    <3>5. \A s \in Stage : s # k => WithinAt(Held(merged), tip.outs, s)
      <4>1. \A s \in Stage : WithinAt(tip.outs, tip.outs, s)
        BY <2>2, WithinOrder
      <4> QED
        BY <2>4, <4>1 DEF WithinAt
    <3>6. Held(merged)[k] = wt[r].outs[k]
      BY <2>2, <2>4
    <3>7. WorktreeOK(w, tip)
      BY <2>1, <2>3, <2>4, <2>6, <3>3, <3>4, <3>5, <3>6 DEF WorktreeOK, Within, Unpublished
    <3> QED
      BY <1>1, <3>1, <3>3, <3>7, Facts, RunnerMoves
  <2> QED
    BY <2>7, <2>8
<1> QED
  BY <1>2, <1>3

\* A push, accepted or refused.
LEMMA PushStep ==
  ASSUME FreshJob, IInv, NEW r \in Runner, Push(r)
  PROVE  IInv'
<1>1. wt[r].at = "push" /\ wt[r].at # "idle" /\ UNCHANGED <<mode, result, clone, faults>>
  BY DEF Push
<1>2. CASE Accepts(wt[r].seen)
  <2> DEFINE w == [wt[r] EXCEPT !.at = "report", !.seen = StartTip]
             k == wt[r].stage
  <2>1. wt' = [wt EXCEPT ![r] = w] /\ UNCHANGED row /\ Advance(Built(wt[r]))
    BY <1>2, Facts DEF Push
  <2>2. /\ TipOK(tip') /\ Grows(tip, tip') /\ tip'.outs[k] = wt[r].outs[k]
        /\ \A s \in Stage : s # k => tip'.outs[s] = tip.outs[s]
    BY <1>1, <1>2, <2>1, PushAccepted
  <2>3. WorktreeOK(wt[r], tip) /\ wt[r] \in Worktrees /\ k # None
    BY <1>1, Facts DEF WorktreeOK
  <2>4. StartTip \in Tips
    BY StartHeld, GitSyncAssumption DEF AnyLock, StartTip, Tips
  <2>5. w \in Worktrees /\ w.at = "report" /\ w.stage = k /\ w.lock = wt[r].lock
        /\ w.outs = wt[r].outs /\ w.head = wt[r].head
    BY <2>3, <2>4 DEF Worktrees
  <2>6. k \in Planned /\ k \in Stage /\ Held(wt[r].lock) \in Outs /\ wt[r].outs \in Outs
    BY <1>1, <2>3, WorktreeParts
  <2>7. Held(wt[r].lock)[k] = wt[r].outs[k] /\ wt[r].outs[k] # 0
        /\ \A s \in Stage : s # k => WithinAt(Held(wt[r].lock), tip.outs, s) /\ WithinAt(wt[r].outs, tip.outs, s)
    BY <1>1, <2>3 DEF WorktreeOK, Unpublished
  <2> HIDE DEF w, k
  <2>8. ASSUME NEW s \in Stage
        PROVE  WithinAt(Held(wt[r].lock), tip'.outs, s) /\ WithinAt(wt[r].outs, tip'.outs, s)
    BY <2>2, <2>6, <2>7, GitSyncAssumption DEF WithinAt
  <2>9. WorktreeOK(w, tip')
    BY <2>3, <2>5, <2>7, <2>8 DEF WorktreeOK, Unpublished
  <2> QED
    BY <1>1, <2>1, <2>2, <2>5, <2>9, Facts, RunnerMoves
<1>3. CASE ~Accepts(wt[r].seen)
  BY <1>1, <1>3, Facts, AgainStep DEF Push
<1> QED
  BY <1>2, <1>3

\* An unanswered push ends the executor; the remote may have taken it.
LEMMA PushTimesOutStep ==
  ASSUME FreshJob, IInv, NEW r \in Runner, PushTimesOut(r)
  PROVE  IInv'
<1>1. wt[r].at = "push" /\ wt[r].at # "idle" /\ Fault("timeout") /\ Dies(r)
      /\ UNCHANGED <<mode, result, clone>>
  BY DEF PushTimesOut
<1>2. TipOK(tip') /\ Grows(tip, tip')
  BY <1>1, Facts, PushAccepted DEF PushTimesOut
<1> QED
  BY <1>1, <1>2, Facts, FaultBounded, DiesStep

\* A crash ends the executor.
LEMMA CrashStep ==
  ASSUME FreshJob, IInv, NEW r \in Runner, Crash(r)
  PROVE  IInv'
BY Facts, FaultBounded, DiesStep DEF Crash

\* What is reported is on the branch.
LEMMA ReportStep ==
  ASSUME FreshJob, IInv, NEW r \in Runner, ReportDone(r)
  PROVE  IInv'
<1>1. wt[r].at = "report" /\ wt[r].at # "idle" /\ UNCHANGED <<mode, tip, clone, faults>>
  BY DEF ReportDone
<1>2. CASE row[wt[r].stage] # [st |-> "running", by |-> r]
  <2>1. wt' = [wt EXCEPT ![r] = FreshWorktree] /\ UNCHANGED <<row, result>>
    BY <1>2 DEF ReportDone, Work
  <2>2. WorktreeOK(FreshWorktree, tip) /\ FreshWorktree.at = "idle"
    BY Facts, FreshOK DEF FreshWorktree
  <2> QED
    BY <1>1, <2>1, <2>2, Facts, RunnerMoves
<1>3. CASE row[wt[r].stage] = [st |-> "running", by |-> r]
  <2> DEFINE k == wt[r].stage
  <2>1. /\ row' = [row EXCEPT ![k] = [st |-> "done", by |-> None]]
        /\ result' = [result EXCEPT ![k] = wt[r].lock[k]]
        /\ wt' = [wt EXCEPT ![r] = Idle(wt[r])]
    BY <1>3, Facts DEF ReportDone, Work
  <2>2. WorktreeOK(wt[r], tip) /\ TipOK(tip) /\ k \in Planned /\ k \in Stage
        /\ wt[r].lock \in Locks /\ tip.outs \in Outs
    BY <1>1, Facts, WorktreeParts, TipParts
  <2>3. Held(wt[r].lock)[k] # 0 /\ WithinAt(Held(wt[r].lock), tip.outs, k)
    BY <1>1, <2>2 DEF WorktreeOK, Unpublished
  <2>4. wt[r].lock[k] = Held(wt[r].lock)[k] /\ wt[r].lock[k] = tip.outs[k]
        /\ wt[r].lock[k] \in 0..MaxVersion /\ wt[r].lock[k] # 0
    BY <2>2, <2>3, HeldType DEF WithinAt, Version
  <2>5. Idle(wt[r]).at = "idle" /\ WorktreeOK(Idle(wt[r]), tip)
    BY <1>1, <2>2, Facts, IdleOK DEF Idle, Worktrees
  <2> HIDE DEF k
  <2>6. RowsOK'
    <3>1. row' \in [Planned -> [st : {"waiting", "running", "done"}, by : Runner \cup {None}]]
          /\ result' \in [Planned -> 0..MaxVersion]
      BY <2>1, <2>2, <2>4 DEF IInv, RowsOK
    <3>2. \A s \in Planned : (row'[s].st = "done" => result'[s] # 0) /\ result'[s] \in {0, tip'.outs[s]}
      BY <1>1, <2>1, <2>2, <2>4 DEF IInv, RowsOK
    <3>3. \A s \in Planned : result[s] # 0 => result'[s] # 0
      BY <2>1, <2>4 DEF IInv, RowsOK
    <3>4. ASSUME NEW q \in Runner, wt'[q].at \in {"sync", "run"}
          PROVE  \A d \in Dep[wt'[q].stage] : result'[d] # 0
      <4>1. wt'[q] = wt[q]
        BY <2>1, <2>5, <3>4, Facts
      <4>2. WorktreeOK(wt[q], tip) /\ wt[q].at # "idle"
        BY <3>4, <4>1, Facts
      <4>3. Dep[wt[q].stage] \subseteq Planned
        BY <4>2, WorktreeParts, GitSyncAssumption
      <4> QED
        BY <3>3, <3>4, <4>1, <4>3 DEF IInv, RowsOK
    <3> QED
      BY <3>1, <3>2, <3>4 DEF RowsOK
  <2>7. WorktreesOK' /\ CloneOK(clone, tip)'
    BY <1>1, <2>1, <2>5, Facts, RunnerStep
  <2>8. TipOK(tip') /\ ModeOK'
    BY <1>1, <2>2 DEF IInv, ModeOK
  <2> QED
    BY <2>6, <2>7, <2>8 DEF IInv
<1> QED
  BY <1>2, <1>3

\* A stage is handed out when its inputs were reported.
LEMMA NextNodeStep ==
  ASSUME FreshJob, IInv, NEW r \in Runner, NEW s \in Planned, NextNode(r, s)
  PROVE  IInv'
<1> DEFINE w == [wt[r] EXCEPT !.at = "sync", !.stage = s]
<1>1. /\ mode = "parallel" /\ wt[r].at = "idle" /\ \A d \in Dep[s] : row[d].st = "done"
      /\ row' = [row EXCEPT ![s] = [st |-> "running", by |-> r]]
      /\ UNCHANGED <<mode, tip, result, clone, faults>>
  BY DEF NextNode
<1>2. wt' = [wt EXCEPT ![r] = w]
  BY Facts DEF NextNode
<1>3. WorktreeOK(wt[r], tip) /\ wt[r] \in Worktrees /\ s # None
  BY Facts, GitSyncAssumption DEF WorktreeOK, Stage
<1>4. w \in Worktrees /\ w.at = "sync" /\ w.stage = s /\ w.lock = wt[r].lock
      /\ w.outs = wt[r].outs /\ w.head = wt[r].head
  BY <1>3 DEF Worktrees
<1> HIDE DEF w
<1>5. WorktreeOK(w, tip)
  BY <1>1, <1>3, <1>4 DEF WorktreeOK, Unpublished
<1>6. WorktreesOK' /\ CloneOK(clone, tip)'
  BY <1>1, <1>2, <1>5, Facts, RunnerStep
<1>7. RowsOK'
  <2>1. row' \in [Planned -> [st : {"waiting", "running", "done"}, by : Runner \cup {None}]]
        /\ \A x \in Planned : row'[x].st = "done" => row[x].st = "done"
    BY <1>1, Facts
  <2>2. \A d \in Dep[s] : result[d] # 0
    BY <1>1, GitSyncAssumption DEF IInv, RowsOK
  <2>3. \A q \in Runner : wt'[q].at \in {"sync", "run"} => \A d \in Dep[wt'[q].stage] : result'[d] # 0
    BY <1>1, <1>2, <1>4, <2>2, Facts DEF IInv, RowsOK
  <2> QED
    BY <1>1, <2>1, <2>3 DEF IInv, RowsOK
<1>8. ModeOK' /\ TipOK(tip')
  BY <1>1, Facts DEF IInv, ModeOK
<1> QED
  BY <1>6, <1>7, <1>8 DEF IInv

\* A partition requeues the row; the executor goes on.
LEMMA LoseExecutorStep ==
  ASSUME FreshJob, IInv, NEW r \in Runner, LoseExecutor(r)
  PROVE  IInv'
<1>1. row' = Requeued(row, r) /\ Fault("lost") /\ UNCHANGED <<mode, tip, result, wt, clone>>
  BY DEF LoseExecutor
<1>2. RowsOK'
  BY <1>1, RequeuedType DEF IInv, RowsOK
<1>3. ModeOK'
  BY <1>1, FaultBounded DEF IInv, ModeOK
<1>4. WorktreesOK' /\ CloneOK(clone, tip)' /\ TipOK(tip)'
  BY <1>1 DEF IInv, WorktreesOK
<1> QED
  BY <1>2, <1>3, <1>4 DEF IInv

-----------------------------------------------------------------------------
\* Steps of the clone and of people.
LEMMA TipMoves ==
  ASSUME IInv, TipOK(tip'), Grows(tip, tip'), UNCHANGED <<mode, row, result, wt>>,
         faults' \in 0..MaxFaults, CloneOK(clone', tip'),
         mode = "classic" => \A s \in Planned : tip'.outs[s] # 0 => s \in clone'.ran
  PROVE  IInv'
<1>1. WorktreesOK'
  BY WorktreeStays DEF IInv, WorktreesOK
<1>2. \A s \in Planned : result'[s] \in {0, tip'.outs[s]}
  BY TipParts DEF IInv, RowsOK, Grows, Within, WithinAt, Stage
<1>3. RowsOK'
  BY <1>2 DEF IInv, RowsOK
<1>4. ModeOK'
  BY DEF IInv, ModeOK
<1> QED
  BY <1>1, <1>3, <1>4 DEF IInv

\* What holds of the clone.
LEMMA CloneFacts ==
  ASSUME IInv
  PROVE  /\ TipOK(tip) /\ Grows(tip, tip) /\ CloneOK(clone, tip) /\ clone \in Clones
         /\ faults \in 0..MaxFaults /\ clone.lock \in Locks /\ clone.outs \in Outs
         /\ Entries(clone.lock) = clone.lock /\ Entries(clone.base.lock) = clone.base.lock
         /\ Entries(tip.lock) = tip.lock
         /\ TipOK(clone.base)
         /\ mode = "classic" => \A s \in Planned : tip.outs[s] # 0 => s \in clone.ran
BY HeldType DEF IInv, ModeOK, Grows, CloneOK, Clones, AnyLock, Entries, TipOK, FormerTip

\* The end of a sync changes nothing of the clone.
LEMMA DoneOK ==
  ASSUME NEW c, NEW t, CloneOK(c, t)
  PROVE  CloneOK(Done(c), t) /\ Done(c).ran = c.ran
<1>1. c \in Clones /\ 0 \in 0..MaxTries
  BY GitSyncAssumption DEF CloneOK
<1>2. Done(c) \in Clones /\ Done(c).ran = c.ran /\ Done(c).lock = c.lock
      /\ Done(c).outs = c.outs /\ Done(c).base = c.base
  BY <1>1 DEF Done, Clones
<1> QED
  BY <1>2 DEF CloneOK

\* A classic job runs each stage once.
LEMMA RunStageStep ==
  ASSUME FreshJob, IInv, NEW s \in Planned, NEW v \in Version, RunStage(s, v)
  PROVE  IInv'
<1> DEFINE lock == Set(clone.lock, s, v)
<1>1. mode = "classic" /\ s \notin clone.ran /\ UNCHANGED <<mode, tip, row, result, wt, faults>>
  BY DEF RunStage
<1>2. clone \in Clones /\ s \in Stage /\ clone.lock \in Locks /\ clone.outs \in Outs
  BY CloneFacts DEF Stage
<1>3. lock \in Locks /\ lock # NoFile /\ Held(lock) = [clone.outs EXCEPT ![s] = v]
      /\ Held(lock) \in Outs
  <2>1. Held(clone.lock) = clone.outs /\ NoFile \notin Locks
    BY CloneFacts, GitSyncAssumption DEF CloneOK
  <2>2. lock \in Locks /\ Held(lock) = [clone.outs EXCEPT ![s] = v]
    BY <1>2, <2>1, SetHeld
  <2> QED
    BY <2>1, <2>2, HeldType
<1>4. clone' = [clone EXCEPT !.at = "sync", !.ran = clone.ran \cup {s},
                             !.lock = lock, !.outs = Held(lock)]
  BY <1>2, <1>3, CloneFacts DEF RunStage, Clones
<1> HIDE DEF lock
<1>5. clone' \in Clones /\ clone'.lock = lock /\ clone'.outs = Held(lock) /\ clone'.base = clone.base
      /\ clone'.ran = clone.ran \cup {s}
  BY <1>2, <1>3, <1>4 DEF Clones, AnyLock
<1>6. CloneOK(clone, tip)
  BY CloneFacts
<1>7. clone.outs[s] = 0 /\ clone.base.outs[s] = 0
  BY <1>1, <1>6 DEF CloneOK
<1>8. \A x \in Stage : clone'.outs[x] = IF x = s THEN v ELSE clone.outs[x]
  BY <1>2, <1>3, <1>5 DEF Outs
<1>9. CloneOK(clone', tip)
  <2>1. \A x \in Planned : clone'.base.outs[x] \in {0, clone'.outs[x]} /\ (clone'.outs[x] # 0 => x \in clone'.ran)
    BY <1>5, <1>6, <1>7, <1>8 DEF CloneOK, Stage
  <2>2. \A x \in Others : clone'.base.outs[x] = clone'.outs[x]
    BY <1>5, <1>6, <1>8, GitSyncAssumption DEF CloneOK, Stage
  <2> QED
    BY <1>3, <1>5, <1>6, <2>1, <2>2 DEF CloneOK
<1> QED
  BY <1>1, <1>5, <1>9, CloneFacts, TipMoves

\* An accepted push of HEAD adds the results the clone has.
LEMMA HeadPushed ==
  ASSUME FreshJob, IInv, Accepts(clone.base),
         Advance([lock |-> clone.lock, outs |-> clone.outs, code |-> clone.base.code])
  PROVE  /\ TipOK(tip') /\ Grows(tip, tip') /\ tip'.code = tip.code /\ tip'.outs = clone.outs
         /\ \A s \in Others : tip'.outs[s] = tip.outs[s]
<1>1. CloneOK(clone, tip) /\ clone.base = tip
  BY CloneFacts DEF CloneOK, FormerTip, Accepts
<1>2. tip.n \in Nat /\ tip.code \in 0..MaxCommits /\ tip.outs \in Outs
  BY CloneFacts, TipParts
<1>3. /\ tip'.n = tip.n + 1 /\ tip'.code = tip.code /\ tip'.lock = clone.lock /\ tip'.outs = clone.outs
      /\ tip' = [n |-> tip'.n, code |-> tip'.code, lock |-> tip'.lock, outs |-> tip'.outs]
  BY <1>1 DEF Advance
<1>4. tip' \in Tips /\ tip'.lock # NoFile /\ tip'.outs = Held(tip'.lock)
  BY <1>1, <1>2, <1>3, CloneFacts DEF Tips, AnyLock, CloneOK
<1>5. Within(tip.outs, tip'.outs) /\ \A s \in Others : tip'.outs[s] = tip.outs[s]
  BY <1>1, <1>2, <1>3, CloneFacts, GitSyncAssumption DEF Within, WithinAt, CloneOK, Outs, Stage
<1>6. Within(StartOuts, tip'.outs)
  BY <1>2, <1>3, <1>5, CloneFacts, StartHeld, WithinOrder DEF TipOK, Within
<1> QED
  BY <1>3, <1>4, <1>5, <1>6 DEF TipOK, Grows

\* The push after a failed stage.
LEMMA FailStageStep ==
  ASSUME FreshJob, IInv, FailStage
  PROVE  IInv'
<1> DEFINE c == [clone EXCEPT !.at = "over", !.failed = TRUE]
<1>1. /\ clone' = c /\ Fault("stage") /\ mode = "classic"
      /\ UNCHANGED <<mode, row, result, wt>>
  BY DEF FailStage
<1>2. TipOK(tip') /\ Grows(tip, tip') /\ (tip' = tip \/ tip'.outs = clone.outs)
  BY CloneFacts, HeadPushed DEF FailStage
<1>3. clone \in Clones /\ CloneOK(clone, tip')
  BY <1>2, CloneFacts, CloneStays
<1>4. c \in Clones /\ c.lock = clone.lock /\ c.outs = clone.outs /\ c.base = clone.base /\ c.ran = clone.ran
  BY <1>3 DEF Clones
<1> HIDE DEF c
<1>5. CloneOK(c, tip')
  BY <1>3, <1>4 DEF CloneOK
<1>6. \A s \in Planned : tip'.outs[s] # 0 => s \in c.ran
  BY <1>1, <1>2, <1>3, <1>4, CloneFacts DEF CloneOK
<1> QED
  BY <1>1, <1>2, <1>5, <1>6, CloneFacts, FaultBounded, TipMoves

\* A commit of the clone.
LEMMA SyncMetricsStep ==
  ASSUME FreshJob, IInv, SyncMetrics
  PROVE  IInv'
<1>1. UNCHANGED <<mode, tip, row, result, wt, faults>>
  BY DEF SyncMetrics
<1>2. CloneOK(clone', tip) /\ clone'.ran = clone.ran
  <2>1. CASE clone.lock = clone.commit
    BY <2>1, CloneFacts, DoneOK DEF SyncMetrics
  <2>2. CASE clone.lock # clone.commit
    <3>1. clone' = [clone EXCEPT !.at = "push", !.commit = clone.lock, !.tries = 1] /\ clone \in Clones
      BY <2>2, CloneFacts DEF SyncMetrics
    <3>2. 1 \in 0..MaxTries
      BY GitSyncAssumption
    <3>3. clone' \in Clones /\ clone'.lock = clone.lock /\ clone'.outs = clone.outs
          /\ clone'.base = clone.base /\ clone'.ran = clone.ran
      BY <3>1, <3>2 DEF Clones
    <3> QED
      BY <3>3, CloneFacts DEF CloneOK
  <2> QED
    BY <2>1, <2>2
<1> QED
  BY <1>1, <1>2, CloneFacts, TipMoves

\* A push of HEAD, accepted or not.
LEMMA PushHeadStep ==
  ASSUME FreshJob, IInv, PushHead
  PROVE  IInv'
<1>1. mode = "classic" /\ UNCHANGED <<mode, row, result, wt, faults>>
  BY DEF PushHead
<1>2. CASE Accepts(clone.base)
  <2> DEFINE c == [clone EXCEPT !.base = tip']
  <2>1. clone' = Done(c) /\ Advance([lock |-> clone.lock, outs |-> clone.outs, code |-> clone.base.code])
    BY <1>2 DEF PushHead
  <2>2. TipOK(tip') /\ Grows(tip, tip') /\ tip'.outs = clone.outs
    BY <1>2, <2>1, HeadPushed
  <2>3. tip' \in Tips /\ clone \in Clones
    BY <2>2, CloneFacts DEF TipOK
  <2>4. c \in Clones /\ c.lock = clone.lock /\ c.outs = clone.outs /\ c.base = tip' /\ c.ran = clone.ran
    BY <2>3 DEF Clones
  <2> HIDE DEF c
  <2>5. FormerTip(tip', tip')
    BY <2>2, TipParts, WithinOrder DEF FormerTip, Within
  <2>6. CloneOK(c, tip')
    BY <2>2, <2>4, <2>5, CloneFacts DEF CloneOK
  <2> QED
    BY <1>1, <2>1, <2>2, <2>4, <2>6, CloneFacts, DoneOK, TipMoves DEF CloneOK
<1>3. CASE ~Accepts(clone.base)
  <2>1. UNCHANGED tip
    BY <1>3 DEF PushHead
  <2>2. CloneOK(clone', tip) /\ clone'.ran = clone.ran
    <3>1. CASE clone.tries = MaxTries
      BY <1>3, <3>1, CloneFacts, DoneOK DEF PushHead
    <3>2. CASE clone.tries # MaxTries
      <4>1. clone' = [clone EXCEPT !.at = "rebase", !.tries = @ + 1] /\ clone \in Clones
        BY <1>3, <3>2, CloneFacts DEF PushHead
      <4>2. clone.tries + 1 \in 0..MaxTries
        BY <3>2, <4>1, GitSyncAssumption DEF Clones
      <4>3. clone' \in Clones /\ clone'.lock = clone.lock /\ clone'.outs = clone.outs
            /\ clone'.base = clone.base /\ clone'.ran = clone.ran
        BY <4>1, <4>2 DEF Clones
      <4> QED
        BY <4>3, CloneFacts DEF CloneOK
    <3> QED
      BY <3>1, <3>2
  <2> QED
    BY <1>1, <2>1, <2>2, CloneFacts, TipMoves
<1> QED
  BY <1>2, <1>3

\* A rebase: the clone holds what it held on top of the tip.
LEMMA PullRebaseStep ==
  ASSUME FreshJob, IInv, PullRebase
  PROVE  IInv'
<1> DEFINE o == clone.base.lock
           lock == MergedEntries(o, clone.lock, tip.lock)
<1>1. mode = "classic" /\ UNCHANGED <<mode, tip, row, result, wt, faults>>
  BY DEF PullRebase
<1>2. CASE Conflicts(o, clone.lock, tip.lock) # {}
  <2>1. clone' = Done(clone)
    BY <1>2, CloneFacts DEF PullRebase
  <2> QED
    BY <1>1, <2>1, CloneFacts, DoneOK, TipMoves
<1>3. CASE Conflicts(o, clone.lock, tip.lock) = {}
  <2>1. /\ o \in Locks /\ clone.lock \in Locks /\ tip.lock \in Locks
        /\ Held(o) = clone.base.outs /\ Held(clone.lock) = clone.outs /\ Held(tip.lock) = tip.outs
        /\ clone.base.outs \in Outs /\ clone.outs \in Outs /\ tip.outs \in Outs
    BY CloneFacts, TipParts DEF CloneOK
  <2>2. clone' = [Rebased(clone) EXCEPT !.at = "push"]
    BY <1>3, CloneFacts DEF PullRebase
  <2>3. /\ lock \in Locks /\ lock # NoFile
        /\ \A s \in Stage :
             /\ Held(lock)[s] = IF clone.outs[s] # clone.base.outs[s] THEN clone.outs[s] ELSE tip.outs[s]
             /\ \/ clone.outs[s] = clone.base.outs[s]
                \/ tip.outs[s] = clone.base.outs[s]
                \/ clone.outs[s] = tip.outs[s]
    BY <1>3, <2>1, MergeHeld, GitSyncAssumption
  <2>4. Held(lock) = [s \in Stage |-> IF clone.outs[s] # clone.base.outs[s] THEN clone.outs[s] ELSE tip.outs[s]]
    BY <2>3 DEF Held
  <2>5. clone' = [clone EXCEPT !.base = tip, !.lock = lock, !.commit = lock, !.outs = Held(lock), !.at = "push"]
    BY <2>2, <2>4, CloneFacts DEF Rebased
  <2>6. tip \in Tips /\ Held(lock) \in Outs
    BY <2>3, CloneFacts, HeldType DEF TipOK
  <2> HIDE DEF lock, o
  <2>7. clone' \in Clones /\ clone'.lock = lock /\ clone'.outs = Held(lock)
        /\ clone'.base = tip /\ clone'.ran = clone.ran
    BY <2>3, <2>5, <2>6, CloneFacts DEF Clones, AnyLock
  <2>8. FormerTip(tip, tip)
    BY <2>1, CloneFacts, TipParts, WithinOrder DEF FormerTip, Within
  <2>9. CloneOK(clone, tip) /\ Within(clone.base.outs, tip.outs)
    BY CloneFacts DEF CloneOK, FormerTip
  <2>10. \A s \in Planned : tip.outs[s] \in {0, Held(lock)[s]} /\ (Held(lock)[s] # 0 => s \in clone.ran)
    <3>1. ASSUME NEW s \in Planned
          PROVE  tip.outs[s] \in {0, Held(lock)[s]} /\ (Held(lock)[s] # 0 => s \in clone.ran)
      <4>1. /\ s \in Stage /\ clone.base.outs[s] \in {0, clone.outs[s]} /\ clone.base.outs[s] \in {0, tip.outs[s]}
            /\ (clone.outs[s] # 0 => s \in clone.ran) /\ (tip.outs[s] # 0 => s \in clone.ran)
        BY <1>1, <2>9, CloneFacts DEF CloneOK, Within, WithinAt, Stage
      <4> QED
        BY <2>3, <4>1
    <3> QED
      BY <3>1
  <2>11. \A s \in Others : tip.outs[s] = Held(lock)[s]
    BY <2>3, <2>9 DEF CloneOK, Stage
  <2>12. CloneOK(clone', tip)
    BY <2>3, <2>7, <2>8, <2>10, <2>11 DEF CloneOK
  <2> QED
    BY <1>1, <2>7, <2>12, CloneFacts, TipMoves
<1> QED
  BY <1>2, <1>3

\* People change no result of a stage of the job.
LEMMA HumanPushed ==
  ASSUME FreshJob, IInv, Human
  PROVE  /\ TipOK(tip') /\ Grows(tip, tip') /\ tip'.code = tip.code + 1
         /\ \A s \in Planned : tip'.outs[s] = tip.outs[s]
<1>1. /\ tip.n \in Nat /\ tip.code \in 0..MaxCommits /\ tip.code < MaxCommits /\ tip.lock \in Locks
      /\ tip.outs \in Outs /\ Held(tip.lock) = tip.outs /\ Entries(tip.lock) = tip.lock
      /\ Within(StartOuts, tip.outs) /\ StartOuts \in Outs /\ tip.lock # NoFile
  BY CloneFacts, TipParts, StartHeld DEF Human, TipOK
<1>2. CASE Advance([Tree(tip) EXCEPT !.code = @ + 1])
  <2>1. tip' = [n |-> tip.n + 1, code |-> tip.code + 1, lock |-> tip.lock, outs |-> tip.outs]
    BY <1>2 DEF Advance, Tree
  <2>2. \A s \in Stage : WithinAt(tip.outs, tip.outs, s)
    BY <1>1, WithinOrder
  <2>3. tip' \in Tips
    BY <1>1, <2>1, GitSyncAssumption DEF Tips, AnyLock
  <2> QED
    BY <1>1, <2>1, <2>2, <2>3 DEF TipOK, Grows, Within
<1>3. ASSUME NEW s \in Others, NEW v \in Version,
             s \in DOMAIN Entries(tip.lock) => v > Entries(tip.lock)[s],
             Advance([Tree(tip) EXCEPT !.code = @ + 1, !.lock = Set(Entries(@), s, v), !.outs[s] = v])
      PROVE  /\ TipOK(tip') /\ Grows(tip, tip') /\ tip'.code = tip.code + 1
             /\ \A x \in Planned : tip'.outs[x] = tip.outs[x]
  <2> DEFINE lock == Set(tip.lock, s, v)
             outs == [tip.outs EXCEPT ![s] = v]
  <2>1. tip' = [n |-> tip.n + 1, code |-> tip.code + 1, lock |-> lock, outs |-> outs]
    BY <1>1, <1>3 DEF Advance, Tree
  <2>2. s \in Stage /\ lock \in Locks /\ lock # NoFile /\ Held(lock) = outs
    BY <1>1, SetHeld, GitSyncAssumption DEF Stage
  <2>3. outs \in Outs /\ \A x \in Stage : outs[x] = IF x = s THEN v ELSE tip.outs[x]
    BY <1>1, <2>2, HeldType DEF Outs
  <2>4. tip.outs[s] <= v
    BY <1>1, <1>3, <2>2, HeldType, GitSyncAssumption DEF Version, Outs
  <2> HIDE DEF lock, outs
  <2>5. Within(tip.outs, outs) /\ \A x \in Planned : outs[x] = tip.outs[x]
    BY <1>1, <2>3, <2>4, GitSyncAssumption DEF Within, WithinAt, Outs, Stage
  <2>6. Within(StartOuts, outs)
    BY <1>1, <2>3, <2>5, WithinOrder DEF Within
  <2>7. tip' \in Tips
    BY <1>1, <2>1, <2>2, <2>3, GitSyncAssumption DEF Tips, AnyLock
  <2> QED
    BY <1>1, <2>1, <2>2, <2>5, <2>6, <2>7 DEF TipOK, Grows
<1> QED
  BY <1>2, <1>3 DEF Human

\* A push of a person.
LEMMA HumanStep ==
  ASSUME FreshJob, IInv, Human
  PROVE  IInv'
<1>1. UNCHANGED <<mode, row, result, wt, clone, faults>>
  BY DEF Human
<1>2. TipOK(tip') /\ Grows(tip, tip') /\ \A s \in Planned : tip'.outs[s] = tip.outs[s]
  BY HumanPushed
<1> QED
  BY <1>1, <1>2, CloneFacts, CloneStays, TipMoves

-----------------------------------------------------------------------------
\* The invariant at the start,
LEMMA InitOK ==
  ASSUME FreshJob, Init
  PROVE  IInv
<1>1. /\ StartLock \in Locks /\ StartLock # NoFile /\ StartOuts = Held(StartLock) /\ StartOuts \in Outs
      /\ \A s \in Planned : StartOuts[s] = 0
      /\ \A s \in Stage : WithinAt(StartOuts, StartOuts, s)
  BY StartHeld, WithinOrder, GitSyncAssumption
<1>2. StartTip \in Tips /\ TipOK(StartTip) /\ FormerTip(StartTip, StartTip)
  BY <1>1, GitSyncAssumption DEF StartTip, Tips, AnyLock, TipOK, FormerTip, Within
<1>3. WorktreesOK
  <2>1. WorktreeOK(FreshWorktree, StartTip)
    BY <1>2, FreshOK
  <2> QED
    BY <2>1 DEF Init, WorktreesOK, WorktreeOK
<1>4. CloneOK(clone, tip)
  <2>1. clone \in Clones
    BY <1>1, <1>2, GitSyncAssumption DEF Init, Clones, AnyLock
  <2> QED
    BY <1>1, <1>2, <2>1 DEF Init, CloneOK, StartTip
<1>5. RowsOK
  BY GitSyncAssumption DEF Init, RowsOK, FreshWorktree
<1>6. ModeOK
  BY <1>1, GitSyncAssumption DEF Init, ModeOK, StartTip, FreshWorktree
<1> QED
  BY <1>2, <1>3, <1>4, <1>5, <1>6 DEF Init, IInv

\* preserved by every step,
LEMMA NextOK ==
  ASSUME FreshJob, IInv, [Next]_vars
  PROVE  IInv'
<1>1. ASSUME NEW r \in Runner, Executor(r) PROVE IInv'
  BY <1>1, NextNodeStep, SyncStep, RunNodeStep, FetchStep, PushStep, ReportStep DEF Executor
<1>2. CASE Classic
  BY <1>2, RunStageStep, SyncMetricsStep, PushHeadStep, PullRebaseStep DEF Classic
<1>3. CASE Faults
  BY <1>3, MissingDepsStep, StageFailsStep, FetchFailsStep, PushTimesOutStep, CrashStep,
     LoseExecutorStep, FailStageStep DEF Faults
<1>4. CASE Human
  BY <1>4, HumanStep
<1>5. CASE UNCHANGED vars
  BY <1>5 DEF vars, IInv, WorktreesOK, RowsOK, ModeOK
<1> QED
  BY <1>1, <1>2, <1>3, <1>4, <1>5 DEF Next

\* and always.
LEMMA Inductive == ASSUME FreshJob PROVE Spec => []IInv
<1>1. Init => IInv
  BY InitOK
<1>2. IInv /\ [Next]_vars => IInv'
  BY NextOK
<1> QED
  BY <1>1, <1>2, PTL DEF Spec

\* The types of the state, of every executor and of the clone.
THEOREM GitSyncTypeOK == ASSUME FreshJob PROVE Spec => []TypeOK
<1>1. IInv => TypeOK
  BY DEF IInv, TypeOK, TipOK, Tips, WorktreesOK, WorktreeOK, Worktrees, CloneOK, Clones, RowsOK, ModeOK
<1> QED
  BY <1>1, Inductive, PTL

\* A result the headnode was told of is the one dvc.lock records on the branch,
\* whatever is pushed after it (push_with_retries, merge_dvc_lock_data).
THEOREM ReportedResultsKept == ASSUME FreshJob PROVE Spec => []ResultsKept
<1>1. IInv => ResultsKept
  <2> SUFFICES ASSUME IInv, NEW s \in Planned, result[s] # 0
               PROVE  s \in DOMAIN Entries(tip.lock) /\ tip.lock[s] = result[s]
    BY DEF ResultsKept
  <2>1. tip.lock \in Locks /\ Entries(tip.lock) = tip.lock /\ Held(tip.lock) = tip.outs
    BY CloneFacts, TipParts
  <2>2. s \in Stage /\ tip.outs[s] = result[s]
    BY DEF IInv, RowsOK, Stage
  <2> QED
    BY <2>1, <2>2, HeldType
<1> QED
  BY <1>1, Inductive, PTL

\* The outputs of a stage on the branch and its entry in dvc.lock are of the same
\* run: the merge of the lock and the choice of files to push never part.
THEOREM BranchIsConsistent == ASSUME FreshJob PROVE Spec => []OutsMatchLock
<1>1. IInv => OutsMatchLock
  <2> SUFFICES ASSUME IInv PROVE OutsMatchLock
    OBVIOUS
  <2>1. tip.lock \in Locks /\ Entries(tip.lock) = tip.lock /\ Held(tip.lock) = tip.outs
    BY CloneFacts, TipParts
  <2> QED
    BY <2>1, HeldType DEF OutsMatchLock
<1> QED
  BY <1>1, Inductive, PTL

\* A stage reads what its producers reported, in dvc.lock and in the outputs, on
\* any worktree that sync_before_node prepared.
THEOREM StagesReadWhatWasReported == ASSUME FreshJob PROVE Spec => []ReadsReported
<1>1. IInv => ReadsReported
  <2> SUFFICES ASSUME IInv, NEW r \in Runner, wt[r].at = "run", NEW d \in Dep[Work(r)]
               PROVE  wt[r].lock[d] = result[d] /\ wt[r].outs[d] = result[d]
    BY DEF ReadsReported
  <2>1. WorktreeOK(wt[r], tip) /\ wt[r].lock \in Locks /\ Work(r) \in Planned
    BY Facts, WorktreeParts DEF Work
  <2>2. d \in Planned /\ d \in Stage
    BY <2>1, GitSyncAssumption DEF Stage
  <2>3. result[d] # 0 /\ result[d] = tip.outs[d]
    BY <2>2 DEF IInv, RowsOK, Work
  <2>4. /\ Held(wt[r].lock)[d] # 0 /\ wt[r].outs[d] # 0
        /\ WithinAt(Held(wt[r].lock), tip.outs, d) /\ WithinAt(wt[r].outs, tip.outs, d)
    BY <2>1, <2>2 DEF WorktreeOK, Work, Unpublished
  <2> QED
    BY <2>1, <2>2, <2>3, <2>4, HeldType DEF WithinAt
<1> QED
  BY <1>1, Inductive, PTL

-----------------------------------------------------------------------------
(* The branch implements ResultStore.                                      *)

\* A push of the job is a Record of the abstract store, whatever it adds;
LEMMA Recorded ==
  ASSUME TipOK(tip), TipOK(tip'), Grows(tip, tip'), tip'.code = tip.code,
         \A s \in Others : tip'.outs[s] = tip.outs[s]
  PROVE  Store!Record
<1> DEFINE D == {s \in Planned : tip.outs[s] = 0 /\ tip'.outs[s] # 0}
           new == [s \in D |-> tip'.lock[s]]
<1>1. /\ tip.lock \in Locks /\ Held(tip.lock) = tip.outs /\ tip.outs \in Outs
      /\ tip'.lock \in Locks /\ Held(tip'.lock) = tip'.outs /\ tip'.outs \in Outs
      /\ Entries(tip.lock) = tip.lock /\ Entries(tip'.lock) = tip'.lock
  BY TipParts DEF TipOK, Entries
<1>2. \A s \in Stage : /\ s \in DOMAIN tip.lock <=> tip.outs[s] # 0
                       /\ s \in DOMAIN tip'.lock <=> tip'.outs[s] # 0
                       /\ s \in DOMAIN tip.lock => tip.lock[s] = tip.outs[s]
                       /\ s \in DOMAIN tip'.lock => tip'.lock[s] = tip'.outs[s] /\ tip'.lock[s] \in Version
  BY <1>1, HeldType
<1>3. DOMAIN tip.lock \subseteq Stage /\ DOMAIN tip'.lock \subseteq Stage
  BY <1>1, HeldType
<1>4. \A s \in Stage : tip'.outs[s] = IF s \in D THEN tip'.outs[s] ELSE tip.outs[s]
  BY <1>1, WithinOrder DEF Grows, Within, WithinAt, Stage
<1>5. D \in SUBSET (Planned \ DOMAIN tip.lock) /\ new \in [D -> Version]
  BY <1>2 DEF Stage
<1> DEFINE joined == [s \in DOMAIN tip.lock \cup DOMAIN new |->
                        IF s \in DOMAIN new THEN new[s] ELSE tip.lock[s]]
<1>6. DOMAIN tip'.lock = DOMAIN tip.lock \cup D
  BY <1>2, <1>3, <1>4 DEF Stage
<1>7. \A s \in DOMAIN tip'.lock : tip'.lock[s] = IF s \in D THEN new[s] ELSE tip.lock[s]
  BY <1>2, <1>3, <1>4, <1>6
<1>8. tip'.lock = joined
  <2>1. tip'.lock = [s \in DOMAIN tip'.lock |-> tip'.lock[s]]
    BY <1>1 DEF Locks
  <2> QED
    BY <1>6, <1>7, <2>1
<1> HIDE DEF D, new
<1> QED
  BY <1>1, <1>5, <1>8 DEF Store!Record

\* one of a person is a Commit;
LEMMA Committed ==
  ASSUME TipOK(tip), TipOK(tip'), tip'.code = tip.code + 1,
         \A s \in Planned : tip'.outs[s] = tip.outs[s]
  PROVE  Store!Commit
<1>1. /\ tip.lock \in Locks /\ Held(tip.lock) = tip.outs
      /\ tip'.lock \in Locks /\ Held(tip'.lock) = tip'.outs
      /\ Entries(tip.lock) = tip.lock /\ Entries(tip'.lock) = tip'.lock
  BY TipParts DEF TipOK, Entries
<1>2. DOMAIN tip.lock \subseteq Stage /\ DOMAIN tip'.lock \subseteq Stage
  BY <1>1, HeldType
<1>3. \A s \in Stage \ Others : /\ s \in DOMAIN tip'.lock <=> s \in DOMAIN tip.lock
                                /\ s \in DOMAIN tip.lock => tip'.lock[s] = tip.lock[s]
  BY <1>1, HeldType DEF Stage
<1>4. DOMAIN tip'.lock \ Others = DOMAIN tip.lock \ Others
  BY <1>2, <1>3
<1>5. Restrict(tip'.lock, DOMAIN tip'.lock \ Others) = Restrict(tip.lock, DOMAIN tip.lock \ Others)
  BY <1>2, <1>3, <1>4 DEF Restrict
<1> QED
  BY <1>1, <1>5 DEF Store!Commit, Store!Restrict, Restrict

\* and nothing else touches the branch.
LEMMA StepOfStore ==
  ASSUME FreshJob, IInv, [Next]_vars
  PROVE  [Store!Next]_(Store!vars)
<1>1. TipOK(tip) /\ TipOK(tip')
  BY NextOK DEF IInv
<1>2. ASSUME UNCHANGED tip PROVE UNCHANGED Store!vars
  BY <1>2 DEF Store!vars
<1>3. ASSUME NEW r \in Runner, wt[r].at = "push", Accepts(wt[r].seen), Advance(Built(wt[r]))
      PROVE  Store!Record
  <2>1. wt[r].stage \notin Others
    BY <1>3, Facts, WorktreeParts, GitSyncAssumption
  <2> QED
    BY <1>1, <1>3, <2>1, PushAccepted, Recorded DEF Stage
<1>4. ASSUME Accepts(clone.base),
             Advance([lock |-> clone.lock, outs |-> clone.outs, code |-> clone.base.code])
      PROVE  Store!Record
  BY <1>1, <1>4, HeadPushed, Recorded
<1>5. CASE Human
  BY <1>1, <1>5, HumanPushed, Committed DEF Store!Next
<1>6. ASSUME NEW r \in Runner, Executor(r) PROVE UNCHANGED tip \/ Store!Record
  BY <1>3, <1>6 DEF Executor, NextNode, SyncBeforeNode, RunNode, FetchToPush, Push, ReportDone
<1>7. CASE Classic
  BY <1>2, <1>4, <1>7 DEF Classic, RunStage, SyncMetrics, PushHead, PullRebase, Store!Next
<1>8. CASE Faults
  BY <1>2, <1>3, <1>4, <1>8 DEF Faults, MissingDeps, StageFails, FetchFails, PushTimesOut, Crash,
     LoseExecutor, FailStage, Store!Next
<1>9. CASE UNCHANGED vars
  BY <1>2, <1>9 DEF vars
<1> QED
  BY <1>2, <1>5, <1>6, <1>7, <1>8, <1>9 DEF Next, Store!Next

\* The branch, with executors that race, die and retry, a clone that rebases and
\* people who push, is a store of results that only grows and that records each
\* stage of the job once.
THEOREM BranchIsAStore == ASSUME FreshJob PROVE Spec => ImplementsStore
<1>1. Init => Store!Init
  BY DEF Init, StartTip, Store!Init
<1>2. IInv /\ [Next]_vars => [Store!Next]_(Store!vars)
  BY StepOfStore
<1> QED
  BY <1>1, <1>2, Inductive, PTL DEF Spec, ImplementsStore, Store!Spec
=============================================================================
