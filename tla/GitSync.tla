------------------------------ MODULE GitSync ------------------------------
(***************************************************************************)
(* How the results of a job reach its Git branch (dvc_git_helper.py and    *)
(* its callers).  In parallel mode each branch executor has a worktree     *)
(* detached at the commit the job started from; before a stage it fetches  *)
(* the branch and restores dvc.lock and the outputs, after it the executor *)
(* commits locally and pushes, on top of the remote tip, the lock and the  *)
(* outputs of its stage.  In classic mode one clone runs every stage in    *)
(* turn, commits, pushes its HEAD and rebases when refused.  People push   *)
(* to the same branch.                                                     *)
(*                                                                         *)
(* A fetch with the local work that follows it is one step, a push is      *)
(* another: the remote accepts it only if its tip did not move.  Contents  *)
(* are versions; lock and outputs of a stage carry the version of the run  *)
(* that wrote them.  Left out: the branch that does not exist yet, the     *)
(* local mode (no Git), what a failed stage leaves in the worktree, the    *)
(* watchdog that syncs a classic clone while its pipeline runs, backoff.   *)
(*                                                                         *)
(* Bug... operators are planted mistakes; nothing uses them.               *)
(***************************************************************************)
EXTENDS Naturals, FiniteSets, Functions, LockMerge

CONSTANTS
  Planned, Others,   \* stages of the job; other stages of the pipeline
  Dep,               \* Dep[s]: stages whose outputs stage s reads
  Runner,
  Modes,             \* subset of {"parallel", "classic"}
  StartLock,         \* dvc.lock at the start commit, NoFile if there is none
  NoFile, None,
  MaxVersion,        \* bound on the different results of a stage
  MaxTries,          \* max_retries of push_with_retries
  FaultKinds, MaxFaults, MaxCommits

Stage == Planned \cup Others
Version == 1..MaxVersion
Locks == UNION {[D -> Version] : D \in SUBSET Stage}
AnyLock == Locks \cup {NoFile}

ASSUME GitSyncAssumption ==
  /\ Planned \cap Others = {} /\ IsFiniteSet(Stage)
  /\ Dep \in [Planned -> SUBSET Planned]
  /\ Modes \subseteq {"parallel", "classic"}
  /\ NoFile \notin Locks /\ StartLock \in AnyLock
  /\ None \notin Stage \cup Runner
  /\ MaxVersion \in Nat /\ MaxTries \in Nat \ {0}
  /\ FaultKinds \subseteq {"crash", "timeout", "lost", "stage"}
  /\ MaxFaults \in Nat /\ MaxCommits \in Nat

VARIABLES
  mode,     \* how the job runs
  tip,      \* the remote branch: commits pushed, and its tree
  row,      \* the headnode's row of each stage: status and executor
  result,   \* outputs_for_req of the last executor that reported a stage done
  wt,       \* each branch executor with its worktree
  clone,    \* the classic job's clone
  faults

vars == <<mode, tip, row, result, wt, clone, faults>>

Entries(lock) == IF lock = NoFile THEN [s \in {} |-> 1] ELSE lock
Outs == [Stage -> 0..MaxVersion]
StartOuts == [s \in Stage |-> IF s \in DOMAIN Entries(StartLock) THEN Entries(StartLock)[s] ELSE 0]
StartTip == [n |-> 0, code |-> 0, lock |-> StartLock, outs |-> StartOuts]
Set(f, s, v) == [x \in DOMAIN f \cup {s} |-> IF x = s THEN v ELSE f[x]]

\* A worktree just added at the start commit, HEAD detached.
FreshWorktree ==
  [at |-> "idle", stage |-> None, lock |-> StartLock, outs |-> StartOuts,
   head |-> [lock |-> StartLock, outs |-> StartOuts], seen |-> StartTip, tries |-> 0]

TypeOK ==
  LET Tips == [n : Nat, code : 0..MaxCommits, lock : AnyLock, outs : Outs] IN
  /\ mode \in Modes
  /\ tip \in Tips
  /\ row \in [Planned -> [st : {"waiting", "running", "done"}, by : Runner \cup {None}]]
  /\ result \in [Planned -> 0..MaxVersion]
  /\ wt \in [Runner -> [at : {"idle", "sync", "run", "fetch", "push", "report"},
                        stage : Planned \cup {None}, lock : AnyLock, outs : Outs,
                        head : [lock : AnyLock, outs : Outs], seen : Tips, tries : 0..MaxTries]]
  /\ \A r \in Runner : wt[r].at # "idle" <=> wt[r].stage # None
  /\ clone \in [at : {"run", "sync", "push", "rebase", "over"}, ran : SUBSET Planned,
                lock : AnyLock, outs : Outs, base : Tips, failed : BOOLEAN,
                commit : AnyLock, tries : 0..MaxTries]
  /\ faults \in 0..MaxFaults

Init ==
  /\ mode \in Modes
  /\ tip = StartTip
  /\ row = [s \in Planned |-> [st |-> "waiting", by |-> None]]
  /\ result = [s \in Planned |-> 0]
  /\ wt = [r \in Runner |-> FreshWorktree]
  /\ clone = [at |-> "run", ran |-> {}, lock |-> StartLock, outs |-> StartOuts,
              base |-> StartTip, failed |-> FALSE, commit |-> StartLock, tries |-> 0]
  /\ faults = 0

Fault(kind) == kind \in FaultKinds /\ faults < MaxFaults /\ faults' = faults + 1

-----------------------------------------------------------------------------
(* dvc.lock against the remote's.  The common ancestor is always the start *)
(* commit: HEAD's own commits are never pushed, new ones are built on the  *)
(* remote tip.  Without a dvc.lock there, nothing is ever merged.          *)

BothChanged(local, remote) ==
  /\ StartLock # NoFile /\ local # NoFile /\ remote # NoFile
  /\ local # StartLock /\ remote # StartLock

LockConflict(local, remote) == BothChanged(local, remote) /\ Conflicts(StartLock, local, remote) # {}

BugPushedLock(local, remote) == local

\* The lock to push over a remote tip, and the lock a sync leaves.
PushedLock(local, remote) ==
  IF BothChanged(local, remote) THEN MergedEntries(StartLock, local, remote) ELSE local
SyncedLock(w) ==
  IF w.head.lock = tip.lock THEN w.lock
  ELSE IF BothChanged(w.lock, tip.lock) THEN MergedEntries(StartLock, w.lock, tip.lock)
  ELSE tip.lock

BugSyncedOuts(w) == w.outs

\* Outputs that differ between HEAD and the remote are taken from the remote.
SyncedOuts(w) == [s \in Stage |-> IF w.head.outs[s] = tip.outs[s] THEN w.outs[s] ELSE tip.outs[s]]

\* The tree to push over the tip that was fetched: the lock and the outputs
\* of the stage that ran, the rest as on the remote.
Built(w) ==
  [lock |-> PushedLock(w.lock, w.seen.lock),
   outs |-> [w.seen.outs EXCEPT ![w.stage] = w.outs[w.stage]],
   code |-> w.seen.code]

Tree(t) == [lock |-> t.lock, outs |-> t.outs, code |-> t.code]
Accepts(seen) == tip.n = seen.n
Advance(tree) == tip' = [n |-> tip.n + 1, code |-> tree.code, lock |-> tree.lock, outs |-> tree.outs]

-----------------------------------------------------------------------------
(* Parallel mode.                                                          *)

Work(r) == wt[r].stage
Idle(w) == [w EXCEPT !.at = "idle", !.stage = None, !.seen = StartTip, !.tries = 0]

BugRequeued(rows, r) == rows

\* The row returns to the queue when its executor dies, if it still has it.
Requeued(rows, r) ==
  [s \in Planned |-> IF rows[s] = [st |-> "running", by |-> r] THEN [st |-> "waiting", by |-> None]
                                                              ELSE rows[s]]
Dies(r) ==
  /\ wt' = [wt EXCEPT ![r] = FreshWorktree]
  /\ row' = Requeued(row, r)

\* The headnode hands out a stage whose inputs are done.
NextNode(r, s) ==
  /\ mode = "parallel" /\ wt[r].at = "idle"
  /\ row[s].st = "waiting" /\ \A d \in Dep[s] : row[d].st = "done"
  /\ row' = [row EXCEPT ![s] = [st |-> "running", by |-> r]]
  /\ wt' = [wt EXCEPT ![r].at = "sync", ![r].stage = s]
  /\ UNCHANGED <<mode, tip, result, clone, faults>>

SyncBeforeNode(r) ==
  /\ wt[r].at = "sync"
  /\ IF wt[r].head.lock # tip.lock /\ LockConflict(wt[r].lock, tip.lock)
     THEN Dies(r)
     ELSE /\ wt' = [wt EXCEPT ![r].at = "run", ![r].lock = SyncedLock(wt[r]), ![r].outs = SyncedOuts(wt[r])]
          /\ UNCHANGED row
  /\ UNCHANGED <<mode, tip, result, clone, faults>>

\* An input is nowhere to be found: its producer runs again, then the stage.
MissingDeps(r, d) ==
  /\ wt[r].at = "run" /\ d \in Dep[Work(r)]
  /\ Fault("stage")
  /\ row' = [s \in Planned |->
               IF s = Work(r) /\ row[s].by = r THEN [st |-> "waiting", by |-> None]
               ELSE IF s = d /\ row[s].st = "done" /\ row[Work(r)].by = r THEN [st |-> "waiting", by |-> None]
               ELSE row[s]]
  /\ wt' = [wt EXCEPT ![r] = Idle(@)]
  /\ UNCHANGED <<mode, tip, result, clone>>

StageFails(r) ==
  /\ wt[r].at = "run"
  /\ Fault("stage")
  /\ row' = Requeued(row, r)
  /\ wt' = [wt EXCEPT ![r] = Idle(@)]
  /\ UNCHANGED <<mode, tip, result, clone>>

\* dvc repro -s leaves a result, perhaps that of an earlier run; then the
\* local commit takes the lock and everything the sync restored.
RunNode(r, v) ==
  LET s == Work(r)
      lock == Set(Entries(wt[r].lock), s, v)
      outs == [wt[r].outs EXCEPT ![s] = v] IN
  /\ wt[r].at = "run"
  /\ wt' = [wt EXCEPT ![r] = [@ EXCEPT !.at = "fetch", !.tries = 1, !.lock = lock, !.outs = outs,
                                       !.head = [lock |-> lock, outs |-> outs]]]
  /\ UNCHANGED <<mode, tip, row, result, clone, faults>>

\* A refused push or a failed fetch is tried again, max_retries times in all.
Again(r) ==
  IF wt[r].tries = MaxTries
  THEN Dies(r)
  ELSE /\ wt' = [wt EXCEPT ![r].at = "fetch", ![r].tries = @ + 1, ![r].seen = StartTip]
       /\ UNCHANGED row

\* The merged lock also replaces the working file; a tree that is already
\* the remote's needs no push.
FetchToPush(r) ==
  LET w == [wt[r] EXCEPT !.seen = tip, !.lock = PushedLock(@, tip.lock)] IN
  /\ wt[r].at = "fetch"
  /\ IF LockConflict(wt[r].lock, tip.lock)
     THEN Dies(r)
     ELSE /\ wt' = [wt EXCEPT ![r] =
                      IF Built([wt[r] EXCEPT !.seen = tip]) = Tree(tip)
                      THEN [w EXCEPT !.at = "report", !.seen = StartTip]
                      ELSE [w EXCEPT !.at = "push"]]
          /\ UNCHANGED row
  /\ UNCHANGED <<mode, tip, result, clone, faults>>

FetchFails(r) ==
  /\ wt[r].at = "fetch"
  /\ Fault("timeout")
  /\ Again(r)
  /\ UNCHANGED <<mode, tip, result, clone>>

Push(r) ==
  /\ wt[r].at = "push"
  /\ IF Accepts(wt[r].seen)
     THEN /\ Advance(Built(wt[r]))
          /\ wt' = [wt EXCEPT ![r].at = "report", ![r].seen = StartTip]
          /\ UNCHANGED row
     ELSE Again(r) /\ UNCHANGED tip
  /\ UNCHANGED <<mode, result, clone, faults>>

\* No answer within 60 s: the exception ends the executor, whether the
\* remote took the push or not.
PushTimesOut(r) ==
  /\ wt[r].at = "push"
  /\ Fault("timeout")
  /\ Dies(r)
  /\ IF Accepts(wt[r].seen) THEN Advance(Built(wt[r])) \/ UNCHANGED tip ELSE UNCHANGED tip
  /\ UNCHANGED <<mode, result, clone>>

\* An executor the headnode gave up on is told to stop when it reports.
ReportDone(r) ==
  LET s == Work(r) IN
  /\ wt[r].at = "report"
  /\ IF row[s] = [st |-> "running", by |-> r]
     THEN /\ row' = [row EXCEPT ![s] = [st |-> "done", by |-> None]]
          /\ result' = [result EXCEPT ![s] = wt[r].lock[s]]
          /\ wt' = [wt EXCEPT ![r] = Idle(@)]
     ELSE /\ wt' = [wt EXCEPT ![r] = FreshWorktree]
          /\ UNCHANGED <<row, result>>
  /\ UNCHANGED <<mode, tip, clone, faults>>

Crash(r) ==
  /\ wt[r].at # "idle"
  /\ Fault("crash")
  /\ Dies(r)
  /\ UNCHANGED <<mode, tip, result, clone>>

\* A partition: the row is requeued and the executor goes on.
LoseExecutor(r) ==
  /\ Fault("lost")
  /\ row' = Requeued(row, r)
  /\ row' # row
  /\ UNCHANGED <<mode, tip, result, wt, clone>>

-----------------------------------------------------------------------------
(* Classic mode.                                                           *)

AllRan == clone.ran = Planned
Done(c) == [c EXCEPT !.at = IF AllRan \/ c.failed THEN "over" ELSE "run", !.tries = 0]

\* Each stage is followed by a sync; so is the end of the pipeline.
RunStage(s, v) ==
  /\ mode = "classic" /\ clone.at = "run"
  /\ s \in Planned \ clone.ran /\ Dep[s] \subseteq clone.ran
  /\ clone' = [clone EXCEPT !.at = "sync", !.ran = @ \cup {s},
                            !.lock = Set(Entries(@), s, v), !.outs[s] = v]
  /\ UNCHANGED <<mode, tip, row, result, wt, faults>>

\* A failed stage: what is there is committed and pushed once, and the job
\* ends after a last sync, which finds nothing new to commit.
FailStage ==
  /\ mode = "classic" /\ clone.at = "run"
  /\ Fault("stage")
  /\ clone' = [clone EXCEPT !.at = "over", !.failed = TRUE]
  /\ IF clone.commit # clone.base.lock /\ Accepts(clone.base)
     THEN Advance([lock |-> clone.lock, outs |-> clone.outs, code |-> clone.base.code])
     ELSE UNCHANGED tip
  /\ UNCHANGED <<mode, row, result, wt>>

\* Only a lock that differs from the last commit leads to a commit and a
\* push; a commit whose push failed earlier goes out with the next one.
SyncMetrics ==
  /\ mode = "classic" /\ clone.at = "sync"
  /\ clone' = IF clone.lock = clone.commit THEN Done(clone)
              ELSE [clone EXCEPT !.at = "push", !.commit = clone.lock, !.tries = 1]
  /\ UNCHANGED <<mode, tip, row, result, wt, faults>>

\* HEAD is pushed; a refusal leads to a rebase, the last one is given up.
PushHead ==
  /\ mode = "classic" /\ clone.at = "push"
  /\ IF Accepts(clone.base)
     THEN /\ Advance([lock |-> clone.lock, outs |-> clone.outs, code |-> clone.base.code])
          /\ clone' = Done([clone EXCEPT !.base = tip'])
     ELSE /\ clone' = IF clone.tries = MaxTries THEN Done(clone)
                      ELSE [clone EXCEPT !.at = "rebase", !.tries = @ + 1]
          /\ UNCHANGED tip
  /\ UNCHANGED <<mode, row, result, wt, faults>>

BugRebased(c) == [c EXCEPT !.base = tip]

\* The local commits move onto the tip, code included: the merge driver
\* merges the lock, git takes each output from the side that changed it.
Rebased(c) ==
  LET lock == MergedEntries(Entries(c.base.lock), Entries(c.lock), Entries(tip.lock)) IN
  [c EXCEPT !.base = tip, !.lock = lock, !.commit = lock,
            !.outs = [s \in Stage |-> IF c.outs[s] # c.base.outs[s] THEN c.outs[s] ELSE tip.outs[s]]]

PullRebase ==
  /\ mode = "classic" /\ clone.at = "rebase"
  /\ clone' = IF Conflicts(Entries(clone.base.lock), Entries(clone.lock), Entries(tip.lock)) # {}
              THEN Done(clone)
              ELSE [Rebased(clone) EXCEPT !.at = "push"]
  /\ UNCHANGED <<mode, tip, row, result, wt, faults>>

-----------------------------------------------------------------------------
\* People push code, and the results of stages outside the job: a version
\* that was not there before.
Human ==
  /\ tip.code < MaxCommits
  /\ \/ Advance([Tree(tip) EXCEPT !.code = @ + 1])
     \/ \E s \in Others, v \in Version :
          /\ s \in DOMAIN Entries(tip.lock) => v > Entries(tip.lock)[s]
          /\ Advance([Tree(tip) EXCEPT !.code = @ + 1, !.lock = Set(Entries(@), s, v), !.outs[s] = v])
  /\ UNCHANGED <<mode, row, result, wt, clone, faults>>

Executor(r) ==
  \/ \E s \in Planned : NextNode(r, s)
  \/ SyncBeforeNode(r) \/ \E v \in Version : RunNode(r, v)
  \/ FetchToPush(r) \/ Push(r) \/ ReportDone(r)
Classic ==
  \/ \E s \in Planned, v \in Version : RunStage(s, v)
  \/ SyncMetrics \/ PushHead \/ PullRebase
Faults ==
  \/ \E r \in Runner : \/ \E d \in Planned : MissingDeps(r, d)
                       \/ StageFails(r) \/ FetchFails(r) \/ PushTimesOut(r)
                       \/ Crash(r) \/ LoseExecutor(r)
  \/ FailStage

Next == (\E r \in Runner : Executor(r)) \/ Classic \/ Faults \/ Human

Spec == Init /\ [][Next]_vars
\* Executors and the classic job are running processes; a fault or a person
\* is never bound to act.
LiveSpec == Spec /\ (\A r \in Runner : WF_vars(Executor(r))) /\ WF_vars(Classic)

-----------------------------------------------------------------------------
(* Properties.                                                             *)

\* A result the headnode was told of is the one dvc.lock records on the
\* branch: no later push, of another stage, of a stage that ran again or of
\* a person, takes it away (push_with_retries, merge_dvc_lock_data).
ResultsKept == \A s \in Planned : result[s] # 0 => s \in DOMAIN Entries(tip.lock) /\ tip.lock[s] = result[s]

\* On the branch, the tracked outputs of a stage and its entry in dvc.lock
\* come from the same run, however pushes interleave.
OutsMatchLock ==
  \A s \in Stage : tip.outs[s] = IF s \in DOMAIN Entries(tip.lock) THEN tip.lock[s] ELSE 0

\* What a stage is about to read is what its producers reported, in dvc.lock
\* as in the outputs (sync_before_node), also on a worktree that has synced
\* and run stages before.
ReadsReported ==
  \A r \in Runner : wt[r].at = "run" =>
    \A d \in Dep[Work(r)] : wt[r].lock[d] = result[d] /\ wt[r].outs[d] = result[d]

\* Every push adds results that were not there and undoes no commit of a
\* person, or is a person's: the branch is a ResultStore.
Store == INSTANCE ResultStore WITH
  store <- Entries(tip.lock), code <- tip.code, Start <- Entries(StartLock)
ImplementsStore == Store!Spec

\* Every stage of the job ends up on the branch: refusals, crashes, timeouts
\* and reruns only delay it, except that in classic mode a failed stage ends
\* the job and that in parallel mode a stage which ran twice with different
\* results conflicts with itself, at each try.
Inconsistent(r) == wt[r].at = "fetch" /\ LockConflict(wt[r].lock, tip.lock)
EveryResultPublished ==
  \/ <>[](clone.failed \/ Planned \subseteq DOMAIN Entries(tip.lock))
  \/ []<>(\E r \in Runner : Inconsistent(r))
=============================================================================
