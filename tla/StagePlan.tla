----------------------------- MODULE StagePlan -----------------------------
(***************************************************************************)
(* The planner (stage_plan.py) over the life of a pipeline: people edit    *)
(* code, parameters and data, realign dvc.lock for code-only changes       *)
(* (dvc_realign.py), and submit jobs; a job runs the stages the planner    *)
(* found stale, on the files of its start commit, and records them.        *)
(*                                                                         *)
(* A file, an input or an output is its version; 0 means absent.  A stage  *)
(* has one output; Part says who reads only a part of a directory output.  *)
(* Left out: foreach names, resources, the order of the checks of a stage  *)
(* (only whether its reason is always_changed matters), the local cache of *)
(* directory listings, stages that appear or change in dvc.yaml, the       *)
(* refusal to realign a stage that reads a whole directory.                *)
(*                                                                         *)
(* Bug... operators are planted mistakes; nothing uses them.               *)
(***************************************************************************)
EXTENDS Naturals, FiniteSets

CONSTANTS
  Stage,
  Up,             \* Up[s]: stages whose output s reads
  Part,           \* pairs <<s, u>>: u writes a directory and s reads a file of it
  Code, Data, Param,   \* files in Git, files behind a .dvc file, parameters
  Reads,          \* Reads[s]: files s depends on
  Frozen, Always, \* frozen stages; always_changed stages
  MaxVersion, MaxEdits, MaxJobs, MaxClears

File == Code \cup Data \cup Param
Version == 1..MaxVersion
Inputs(s) == Reads[s] \cup Up[s]

Ancestors[s \in Stage] == Up[s] \cup UNION {Ancestors[u] : u \in Up[s]}

ASSUME StagePlanAssumption ==
  /\ IsFiniteSet(Stage) /\ File \cap Stage = {} /\ Code \cap (Data \cup Param) = {}
  /\ Up \in [Stage -> SUBSET Stage] /\ \A s \in Stage : s \notin Ancestors[s]
  /\ \A p \in Part : p \in Stage \X Stage /\ p[2] \in Up[p[1]]
  /\ Reads \in [Stage -> SUBSET File]
  /\ Frozen \subseteq Stage /\ Always \subseteq Stage \ Frozen
  /\ MaxVersion # 0 /\ {MaxVersion, MaxEdits, MaxJobs, MaxClears} \subseteq Nat

VARIABLES
  now,     \* the files at the branch tip (a .dvc file stands for its data)
  disk,    \* files and outputs present in the planner's workspace
  lock,    \* dvc.lock: the stages recorded, with their inputs and output
  plan,    \* the last plan: which stages are stale
  job,     \* the job that runs it
  edits, jobs, clears

vars == <<now, disk, lock, plan, job, edits, jobs, clears>>

Entry(s) == [dep : [Inputs(s) -> 0..MaxVersion], out : Version]
NoPlan == [s \in Stage |-> FALSE]
NoJob == [on |-> FALSE, files |-> [f \in File |-> 1], goal |-> {}, left |-> {}]

TypeOK ==
  /\ now \in [File -> 0..MaxVersion] /\ \A f \in Data \cup Param : now[f] # 0
  /\ disk \in [Data \cup Stage -> 0..MaxVersion]
  /\ DOMAIN lock \subseteq Stage
  /\ \A s \in DOMAIN lock : lock[s] \in Entry(s)
  /\ plan \in [Stage -> BOOLEAN]
  /\ job \in [on : BOOLEAN, files : [File -> 0..MaxVersion], goal : SUBSET Stage, left : SUBSET Stage]
  /\ edits \in 0..MaxEdits /\ jobs \in 0..MaxJobs /\ clears \in 0..MaxClears

\* The pipeline starts reproduced as far as dvc.lock goes: any set of stages
\* with all they read, the frozen ones among them.
Init ==
  /\ now = [f \in File |-> 1]
  /\ \E D \in SUBSET Stage :
       /\ Frozen \subseteq D /\ \A s \in D : Up[s] \subseteq D
       /\ lock = [s \in D |-> [dep |-> [i \in Inputs(s) |-> 1], out |-> 1]]
       /\ disk = [x \in Data \cup Stage |-> IF x \in Data \cup D THEN 1 ELSE 0]
  /\ plan = NoPlan /\ job = NoJob
  /\ edits = 0 /\ jobs = 0 /\ clears = 0

-----------------------------------------------------------------------------
(* The planner.                                                            *)

\* The dependency of s on the output of u, which the lock must know.  The
\* copy on disk, if there is one, must be the one recorded; a part of a
\* directory whose copy is absent is not compared with anything.
UpstreamDiffers(s, u) ==
  \/ u \notin DOMAIN lock
  \/ disk[u] # 0 /\ disk[u] # lock[s].dep[u]
  \/ <<s, u>> \notin Part /\ lock[s].dep[u] # lock[u].out

FileDiffers(s, f) == now[f] = 0 \/ lock[s].dep[f] # now[f]

BugIntrinsic(s) == s \notin Frozen /\ (s \in Always \/ s \notin DOMAIN lock \/ \E f \in Reads[s] : FileDiffers(s, f))

\* Stale by itself.
Intrinsic(s) ==
  /\ s \notin Frozen
  /\ \/ s \in Always
     \/ s \notin DOMAIN lock
     \/ \E f \in Reads[s] : FileDiffers(s, f)
     \/ \E u \in Up[s] : UpstreamDiffers(s, u)

BugSpreads(u) == TRUE

\* A stale stage makes its consumers stale, except one that is always_changed.
Spreads(u) == u \notin Always

\* A frozen stage is never stale.
Stale[s \in Stage] ==
  \/ Intrinsic(s)
  \/ s \notin Frozen /\ \E u \in Up[s] : Stale[u] /\ Spreads(u)

\* The targets with all they need.
Closure(targets) == targets \cup UNION {Ancestors[t] : t \in targets}

\* compute_stage_plan, then init_job_nodes_from_plan: stale stages of the
\* closure run, the others are skipped.
Submit(targets) ==
  LET goal == Closure(targets) IN
  /\ ~job.on /\ jobs < MaxJobs /\ jobs' = jobs + 1
  /\ plan' = [s \in Stage |-> s \in goal /\ Stale[s]]
  /\ job' = [on |-> TRUE, files |-> now, goal |-> goal, left |-> {s \in goal : Stale[s]}]
  /\ UNCHANGED <<now, disk, lock, edits, clears>>

-----------------------------------------------------------------------------
(* The job and the people.                                                 *)

\* The input i of a stage as the job sees it.
Seen(i) == IF i \in Stage THEN lock[i].out ELSE job.files[i]

\* The entry of dvc.lock a run of s that wrote v leaves.
Recorded(s, v) == [dep |-> [i \in Inputs(s) |-> Seen(i)], out |-> v]

\* A stage runs once its planned inputs ran, on the job's files.
RunStage(s, v) ==
  /\ job.on /\ s \in job.left /\ Up[s] \cap job.left = {}
  /\ \A f \in Reads[s] : job.files[f] # 0
  /\ Up[s] \subseteq DOMAIN lock
  /\ lock' = [t \in DOMAIN lock \cup {s} |-> IF t = s THEN Recorded(s, v) ELSE lock[t]]
  /\ job' = [job EXCEPT !.left = @ \ {s}]
  /\ UNCHANGED <<now, disk, plan, edits, jobs, clears>>

\* A stage fails, or the job is cancelled: what ran is recorded.
JobFails ==
  /\ job.on /\ job.left # {}
  /\ job' = NoJob /\ plan' = NoPlan
  /\ UNCHANGED <<now, disk, lock, edits, jobs, clears>>

JobEnds ==
  /\ job.on /\ job.left = {}
  /\ job' = NoJob /\ plan' = NoPlan
  /\ UNCHANGED <<now, disk, lock, edits, jobs, clears>>

\* A file changes, at any moment; a code file may also disappear.
Edit(f, v) ==
  /\ edits < MaxEdits /\ edits' = edits + 1
  /\ v # now[f] /\ (v = 0 => f \in Code)
  /\ now' = [now EXCEPT ![f] = v]
  /\ disk' = IF f \in Data /\ disk[f] # 0 THEN [disk EXCEPT ![f] = v] ELSE disk
  /\ UNCHANGED <<lock, plan, job, jobs, clears>>

\* The workspace of the next plan: a fresh clone has neither data nor
\* outputs; dvc checkout brings the recorded ones.
Clear ==
  /\ ~job.on /\ clears < MaxClears /\ clears' = clears + 1
  /\ \/ disk' = [x \in DOMAIN disk |-> 0]
     \/ disk' = [x \in DOMAIN disk |-> IF x \in Data THEN now[x]
                                       ELSE IF x \in DOMAIN lock THEN lock[x].out ELSE disk[x]]
  /\ UNCHANGED <<now, lock, plan, job, edits, jobs>>

\* realign_dvc_lock refuses a stage whose parameters changed, or whose data
\* changed on disk, inputs from other stages included.
Realignable(s) ==
  /\ \A f \in Reads[s] \cap Param : lock[s].dep[f] = now[f]
  /\ \A f \in Reads[s] \cap Code : now[f] # 0
  /\ \A x \in (Reads[s] \cap Data) \cup Up[s] : disk[x] # 0 => disk[x] = lock[s].dep[x]

BugRealigned == Code \cup Data

\* The inputs it takes from the files as they are, the outputs untouched.
Realigned == Code

\* Either every stage it covers passes, or nothing is written.
Realign(targets) ==
  /\ ~job.on /\ targets \subseteq DOMAIN lock
  /\ \A s \in targets : Realignable(s)
  /\ lock' = [s \in DOMAIN lock |->
                IF s \in targets
                THEN [lock[s] EXCEPT !.dep = [i \in Inputs(s) |-> IF i \in Realigned THEN now[i] ELSE @[i]]]
                ELSE lock[s]]
  /\ lock' # lock
  /\ UNCHANGED <<now, disk, plan, job, edits, jobs, clears>>

Next ==
  \/ \E targets \in SUBSET Stage \ {{}} : Submit(targets) \/ Realign(targets)
  \/ \E s \in Stage, v \in Version : RunStage(s, v)
  \/ JobFails \/ JobEnds \/ Clear
  \/ \E f \in File, v \in 0..MaxVersion : Edit(f, v)

Spec == Init /\ [][Next]_vars

-----------------------------------------------------------------------------
(* Properties.                                                             *)

\* A job whose stages all ran leaves every stage it was asked for recorded
\* on the files of its start commit and on the recorded outputs of the
\* others, skipped ones included.  Exceptions of compute_stage_plan: frozen
\* stages, consumers of an always_changed stage (no replan follows its run)
\* and readers of a part of a directory that the job did not make.
JobReproduces ==
  job.on /\ job.left = {} =>
    \A s \in job.goal \ Frozen :
      /\ s \in DOMAIN lock
      /\ \A i \in Inputs(s) : \/ lock[s].dep[i] = Seen(i)
                              \/ i \in Always
                              \/ <<s, i>> \in Part /\ ~plan[i]

\* After such a job, if nothing changed meanwhile and no copy of an output
\* on the planner's disk is out of date, the same plan is empty: only the
\* always_changed stages run again, and what their new outputs changed.
Idempotent ==
  job.on /\ job.left = {} /\ now = job.files
    /\ (\A u \in DOMAIN lock : disk[u] \in {0, lock[u].out}) =>
    \A s \in job.goal :
      Stale[s] => \/ s \in Always
                  \/ \E t \in {s} \cup Ancestors[s] : \E u \in Up[t] \cap Always : lock[t].dep[u] # lock[u].out

\* What makes s stale besides its code, by itself or through the plan.
NotCode(s) ==
  /\ s \in DOMAIN lock \ Frozen
  /\ \/ \E f \in Reads[s] \ Code : lock[s].dep[f] # now[f]
     \/ \E u \in Up[s] : UpstreamDiffers(s, u)

NotCodeOnly[s \in Stage] ==
  \/ NotCode(s)
  \/ s \notin Frozen /\ \E u \in Up[s] : NotCodeOnly[u] /\ Spreads(u)

\* Realigning dvc.lock never takes from the plan a stage that data, a
\* parameter or another stage's output makes stale, directly or through the
\* stages between.
RealignHidesOnlyCode ==
  [][~job.on /\ lock' # lock => \A s \in Stage : NotCodeOnly[s] => Stale'[s]]_vars
=============================================================================
