# Verification of cluster-ci

cluster-ci runs DVC pipelines of research repositories on a small cluster. A
*headnode* (one Flask service over SQLite, and one scheduler process) queues jobs,
gives them machines, and hands the stages of a parallel job one by one to *runners*;
a *worker agent* on every machine polls for jobs and starts the runners; a *runner*
(branch executor) runs one stage after the other and publishes what it produced, by Git
and DVC or, for a run of the working copy, as archives; the *command line* plans,
submits, follows and stops jobs.

This directory holds TLA+ models of the parts where those processes meet, the TLC
configurations that check them on small instances, and TLAPS proofs of what matters
most, for every instance. Every definition is translated from the source;
`PROJECT.json` maps each to its lines, and lists the hazards of the code with the
property that covers each.

## Inventory

| component | state it keeps | operations | hard because | module |
|---|---|---|---|---|
| node table (`scheduler/persistence.py`) | `job_nodes`: status, runner, retry and preemption counters | init from a plan, DAG walk, mark, fail-or-retry, missing inputs, heartbeat timeout, aggregate | every function is a transaction of its own; several read first and write later without looking again | `DagStore`, `NodeDispatch` |
| stage dispatch (`scheduler_loop.handle_next_node`, `headnode_service.update_job_status`) | the node table, `jobs.status`, `active_workers` | record a result, choose a stage, claim, give a machine back, exit report | reports late, lost, repeated, from runners already replaced | `NodeDispatch`, `Placement` |
| branch executor (`runner/branch_executor.py`) | its stage, worktree, heartbeats | ask, synchronise, run, push, report | may die between any two of these | `NodeDispatch`, `GitSync`, `LocalRun` |
| worker agent (`scheduler/worker_agent.py`) | executor threads, preemption entries and flags | poll, execute, report, stop a runner, destroy, heal itself | several threads wait for the end of the same process | `NodeDispatch`, `Preemption`, `JobLifecycle` |
| preemption (`scheduler_loop.check_and_preempt...`, worker, headnode) | preempting nodes and jobs | choose, mark, ask, stop, preserve, acknowledge, settle | asynchronous over two machines and three threads | `Preemption`, `JobLifecycle`, `LocalRun` |
| job lifecycle (`headnode_service`, `scheduler_loop`) | `jobs`, `workers` | submit, assign, poll, report, cancel, orphan sweep, watchdog, ghosts, maintenance | multi-step read-then-write on shared rows | `JobLifecycle` |
| placement and GPUs (`scheduler_loop`) | allocations derived from rows | homes, classic jobs, additional machines, claims, `allocate_gpus` | the iteration decides on a snapshot while runners claim | `Placement` |
| fair order (`scheduler/scheduling_order.py`) | none | sort the queue | pure | `Placement` |
| local runs (`runner/local_workspace.py`, `cluster/cluster_run.py`, transfers of `headnode_service`) | archives on workers and headnode, pending marks, the client's state file | archive, upload, restore, fetch, delete, stop | the only copy of a result moves over three machines | `LocalRun` |
| dvc.lock merge, Git synchronisation (`runner/dvc_lock_merge.py`, `dvc_git_helper.py`) | the branch, worktrees | fetch, merge, commit, push, retry | several runners and people push to one branch | `LockMerge`, `GitSync`, `ResultStore` |
| stage planner, realignment (`planner/stage_plan.py`, `runner/dvc_realign.py`) | dvc.lock | staleness along the DAG, closure, realign | what is skipped is trusted for ever | `StagePlan` |
| garbage collection (`runner/gc_orchestrator.py`, `run_research_pipeline.sh`) | `registry.json`, disk | mark, list, push, evict, prune | decides from a look taken before the lock | `GarbageCollection` |
| artifact registry, CAS fetch; retention of rows; guards; sanitizer; dashboard, logs | holders of artefacts; - | register, evict, fetch; - | stale holders; I/O of one process | not modelled |

What makes each of them correct:

* *node table, dispatch*: a stage is offered only when its inputs exist; one executor
  per stage; failures are retried up to the limit and not beyond; a job is completed or
  failed only when it is; every job ends.
* *preemption*: the slot of a victim is kept until the victim is physically gone; a
  preemption counts once and costs no retry; the urgent stage gets the slot; every
  preemption ends.
* *job lifecycle*: an outcome is final; a job runs on one machine; a branch has one
  active job; a failed job leaves nothing running; maintenance runs alone; jobs end.
* *placement*: what is allocated never exceeds the machine, device by device; checkouts
  of one repository stay apart; every job ends unless it is cornered.
* *Git*: no stage's result is lost by another's push, files and dvc.lock agree.
* *planner*: what is skipped is what a run from scratch would reproduce.
* *collection*: nothing a running container uses is removed.
* *local runs*: what is reported done has arrived; unsent work is kept; both sides end.

## Modules

| module | models |
|---|---|
| `DagStore` | the node table as pure operators: one row of the walk, a whole walk as a relation, the plan (without a cycle, as `validate_plan` demands), the aggregated status |
| `NodeDispatch` (extends `DagStore`) | one parallel job, its runners, the headnode's handlers, the scheduler's sweeps, faults |
| `Preemption` | several jobs competing for slots, victims, the worker's cleanup and waiting threads, the headnode's acknowledgement |
| `JobLifecycle` | classic and maintenance jobs from submission to their end, over headnode, scheduler and agents |
| `Placement` | one iteration of the scheduler over its snapshot, beside runners that claim and give back |
| `LockMerge` | the merge of dvc.lock, and what a three-way merge means |
| `GitSync` (extends `LockMerge`) | the runners of a parallel job, or the clone of a classic one, pushing to a branch people also push to |
| `ResultStore` | what that branch promises; `GitSync` implements it |
| `StagePlan` | the planner over the life of a repository: edits, checkouts, realignments, jobs |
| `GarbageCollection` | the runs of a machine, their marks, and the collections they start |
| `LocalRun` | a run of the working copy: client, headnode, workers, archives |
| `...MC` | constants for TLC |
| `NodeDispatchProofs`, `PreemptionProofs`, `JobLifecycleProofs`, `PlacementProofs`, `GitSyncProofs`, `StagePlanProofs`, `GarbageCollectionProofs`, `LocalRunProofs` | theorems about the module they are named after, with their proofs; `GitSyncProofs` also those about `LockMerge` |

Each of the modules from `JobLifecycle` on is about processes of its own and sees the
others as an environment that may do anything they do: a stage is one step in
`Placement` and `LocalRun`, a slot is one number in `JobLifecycle`, rows requeue and
repeat in `GitSync` without saying why. `GitSync` composes with `ResultStore` by
refinement (`Store == INSTANCE ResultStore WITH ...`), `NodeDispatch` and `GitSync`
with the pure modules they extend.

Operators named `Bug...` are the operator after them with a plausible mistake. No
specification uses them; they are there to see each property fail. `TypeOK` states the
types of every module; it is part of two runs, and holds on the instances of the others.

### NodeDispatch and the code

* `st`, `own`, `rc`, `md` are columns of `job_nodes`; `job` is `jobs.status`, `extra`
  the additional machines in `active_workers`; `phase`, `cur`, `res` follow a runner
  from `execute_job` through the loop of `BranchExecutor.run` to the exit report;
  `pushed` is what `commit_and_push_node` has published.
* `next_node` is served as two transactions: `ReportDone`, `ReportFailed`,
  `ReportMissing` record the previous stage, `DispatchStage`, `DispatchFinish`,
  `DispatchGiveBack`, `DispatchJobOver` decide what comes next. They are separate
  actions because another request can be served in between. "wait" changes nothing
  and is no action.
* A result ends with `update_dag_ready_states`. With `Interleaving = FALSE` the walk is
  part of the action; with `TRUE` it is a later transaction (`Walk`), and each sweep of
  the scheduler is a read and a write (`TimeoutRead`/`TimeoutWrite`,
  `RefreshRead`/`RefreshWrite`).
* SQLite returns the rows of the walk in no promised order, and each row sees the ones
  rewritten before it; `RowPos` is that order, and one walk need not reach a fixpoint.
* Faults: a runner dies (`RunnerCrash`), an answer or a report is lost (second disjuncts
  of `DispatchStage` and `ReportSent`, `ExitLost`), a live runner's heartbeats do not
  arrive (`Silent`), a machine restarts (`WorkerCrash`).
* Abstracted: resources are uniform slots; which admissible stage is chosen (affinity,
  fair order) is free; competing jobs are an environment that may ask an additional
  machine back at any stage boundary; a runner id is used again once the table forgot
  it, where the code draws a fresh one. A runner reports a missing input only if its
  stage has an input, and names any of its parents or data from outside.

### Preemption and the code

* Rows as above with `preempt_count` (`pc`), `preempted_by` (`by`) and `exit_code`
  (`ec`). `flag` and `kept` are `preempted_runner_ids` and `preemption_executors` of the
  worker, `stop` the program counter of its cleanup thread; `phase` goes from the
  runner's process to the `execute_job` thread that waits for the same process.
* The engine chooses and marks (`Preempt`, or `PreemptRead`/`PreemptWrite`), asks again
  at every iteration (`PreemptPost`, and `PreemptPostLate` for the moment before
  `main_loop` forgets an ended runner), the worker stops (`StopRunner`) and acknowledges
  (`Ack`, `AckAnswerLost`) or fails to (`StopUnconfirmed`), the waiting thread looks at
  the flag (`Look`) and reports (`ExitIntercepted`, `ExitReported`). A report the
  headnode answers 409, because only other runners' stages of the job are being
  preempted, or whose attempts are all lost, is given up (`ExitRefused`, `ExitLost`);
  the exception of a completion makes the thread report a failure instead.
* Abstracted: parents of stages, the status and assignment of jobs, classic jobs (in
  `JobLifecycle`), the order among equally eligible victims; executors started while
  nothing is ready.

### JobLifecycle and the code

* `job[j]` is the row of `jobs`; `sched` is where `schedule_iteration` stands; `th` are
  the executor threads of every agent, from the poll's answer over `Popen` to the exit
  report; `submits` the submissions the service handles at the moment.
* A cancellation is `cancel_job_cleanly` cut where other requests come in: it reads the
  job and posts `/cancel`, and `FinishCancel` later writes `failed` whatever happened
  since. It is started by the stop button, by a later submission for the branch or the
  user (`SubmitCancels`), by ghost cleaning and by a negative exit code.
* The worker's side: poll, spawn (a moment during which a stop finds no process,
  `SlowSpawn`), the end of a program, the report, preemption of a classic process and its
  acknowledgement, and self-healing, which destroys the process of a job the headnode
  calls failed.
* Faults: an agent crashes and is restarted by systemd, which may leave its processes
  behind; a machine is partitioned and heals; the scheduler is restarted in the middle of
  an iteration or of a maintenance.
* Abstracted: resources are one slot per job, the queue is served in any order, a
  process and its container are one, the update of the machines is one step.

### Placement and the code

* `row` holds, for every task (a stage, or a whole classic job), its status, machine and
  devices; `job` the home and `active_workers`; `assigned` the column
  `workers.assigned_job_id`; `runner` the pairs of a job and a machine that have a runner.
* `it` is what an iteration remembers: the jobs still to serve with the keys they are
  sorted by (`First` picks the next one) and, for every machine, what it held, which repositories were there, who had it. `Look` reads all of it; the actions
  that follow decide from `it` alone, exactly where the code uses `allocated_map` and
  not the database. Runners act between any two of these steps on the rows themselves.
* `job[j].act` holds the home and the additional machines. `MaxWorkersPerJob` bounds the
  expansion only: a home comes on top, as `_add_active_worker` adds it without counting.
* `Cornered` names when a job may wait for ever. All that can hold its ready stages is
  another job's home, which is never given up before the end, or a machine asked back
  each time for a classic job of the same branch, which cannot start before this job ends.
* Abstracted: memory stands for CPU and disk as well; cost, affinity and load choose
  freely among machines of one rank; machines stay online; one runner per job and
  machine; a stage ends in one step.

### GitSync, LockMerge, ResultStore and the code

* `tip` is the remote branch (commits, dvc.lock, outputs, commits of people), `wt` a
  worktree with its HEAD, its files and where its runner stands; `clone` the clone of a
  classic job; `result` what the headnode was told of a stage.
* A fetch and the local work after it are one step, the push another, which the remote
  accepts only if its tip did not move (`Accepts`). `PushedLock` and `SyncedLock` are the
  merges before a push and before a stage. The merge base is the dvc.lock of the start
  commit for the whole life of the job, as in the code.
* `ResultStore` says: results are only added, once per stage of the job, and commits of
  people stay. `ImplementsStore` is the refinement: every push of `GitSync` is a `Record`,
  every push of a person a `Commit`, all else a stutter.
* Faults: a runner dies, a push is cut off, its answer is lost, a stage fails.
* Abstracted: contents are versions; the watchdog that synchronises a classic clone in
  the middle of a stage; creation of a missing branch; leftovers of a failed stage.

### StagePlan and the code

* `now` are the files in Git and behind `.dvc` files, `lock` is dvc.lock, `disk` the
  copies of outputs the planner sees, `job` the job that runs with the plan it was given.
  A history starts from a dvc.lock that records any set of stages with all they read.
* `Intrinsic` is why a stage is stale by itself, `Spreads` whether an upstream stage makes
  it stale, `Stale` the fixpoint, `Closure` the stages a partial request needs.
  `Realign` rewrites dvc.lock for changes of code only. `NotCodeOnly` is what it may not
  hide: a stage that data, a parameter or an output makes stale, by itself or through
  stages whose staleness spreads. A stage that is stale only because its producer's code
  changed does leave the plan with it.
* `Recorded` and `Seen` model `dvc repro -s`, as `dvc_iterative_repro.py` uses it.

### GarbageCollection and the code

* `reg` is `registry.json`, `disk` what is left of a workspace, its cache and its volume,
  `holder` who has the lock; `run[r].pc` follows `run_research_pipeline.sh`: mark, collect,
  prepare, work, mark idle, collect again.
* `run[r].seen` is `docker ps`, taken before the lock: a collection decides about another
  run from a look that may be old.

### LocalRun and the code

* `arch` and `pend` are the archives and `.pending` marks of a worker, `hub` the archives
  on the headnode, `project` the files of the user, `snap` the workers that unpacked the
  source; `run[r]` is a runner with its worktree and the record that outlives it; `client`
  is the command with its state file.
* An archive is how far the work in it got and who wrote it. That is enough to tell a
  finished output from a checkpoint, and a copy from a newer one.
* A record (`run[r].rec`) outlives its runner. Whoever boots on the machine sends what is
  marked under any record that names the stage, also under the record of a runner at work,
  which then finds none and reports without saving (`PreserveSave`).
* Faults (one budget): uploads that fail or succeed with the answer lost, crashes,
  preemptions, stop requests that do not arrive, answers that come too late, and a
  scheduler that walks the stages in the middle of a cancellation.

## Runs

| run | instance | shows | states |
|---|---|---|---|
| `dispatch_faults` | three stages (join), two machines, one fault of any kind | `InputsProduced`, `CompletedIsComplete`, `FailedIsHopeless`, `FailuresAreRetried`, types | 596k |
| `dispatch_crash` | three stages (fork), two machines, crashes and losses | `OneExecutorPerStage`, `RunnerKeepsItsStage` | 1.07M |
| `dispatch_live` | two stages, two machines, transactions interleaved, one fault, fairness | `JobEnds` | 410k |
| `preempt_safe` | two interchangeable low stages (symmetry), one urgent one, two machines, victims chosen and marked in two steps, one fault | `NoOverload`, `HeldUntilStopped`, `CountedOnce`, `PreemptionCostsNoRetry`, types | 1.8M |
| `preempt_live` | an urgent and a low stage, one slot, fairness | `HighRuns`, `PreemptionEnds`, `StagesEnd` | 11k |
| `jobs_safe` | two jobs of one branch, one of low priority and linked to a workflow, two machines, one fault | `SingleWorker`, `BranchExclusive`, `OutcomeIsFinal` | 1.45M |
| `jobs_live` | a draft job and a maintenance job, one machine, a stop, one fault, fairness | `MaintenanceAlone`, `FailedJobsStop`, `EveryJobEnds` | 42k |
| `gitsync` | a stage and its consumer, one apart, one outside the job; two runners or one clone; a person's commit, one fault, fairness | `ResultsKept`, `OutsMatchLock`, `ReadsReported`, `ImplementsStore`, `EveryResultPublished` | 472k |
| `placement` | three parallel and two classic jobs, two unlike machines, fairness | `StageHasMachine`, `NoOvercommit`, `RepoApart`, `EveryJobEnds` | 292k |
| `planning` | five stages (one frozen, one always changed, one read in part), code, data and a parameter, two edits, two jobs, every dvc.lock to start from | `JobReproduces`, `Idempotent`, `RealignHidesOnlyCode` | 1.1M |
| `gc` | a repository and its local workspace, three runs, one killed, fairness | `WorkIsKept`, `EveryRunEnds` | 73k |
| `localrun` | a stage and its consumer, two workers, three runners, one fault, fairness | `OutputsArrive`, `InputsAreFinished`, `UnsentIsKept`, `BothSidesEnd` | 268k |

**Bounds.** Two machines are needed for races between machines and one with two slots
for packing; three stages give a join (a parent that fails while the other succeeds) and
a fork (two consumers of one output); one retry tells "retried" from "exhausted", and
one preemption "preempted" from "immune"; one fault of any kind is enough for each
scenario above, because every handler deals with one report at a time (in
`localrun`, `OutputsArrive` also holds with three, 8.4M states). Two versions tell a result from the one of
a second run; one commit of a person is one the job has not seen. In `Placement` the
stages and machines are chosen so that each rule decides something: a stage that fits only
one machine, one that needs both devices, one that fits nowhere, a classic job on the branch
and one in the repository of a parallel job; that the rules of fairness, the expansion and
both ways to be cornered are reached was checked by negating them. Three runs of the
pipeline script let one hold the lock, one work and one start. Restrictions that hide a
divergence are part of the instance: `dispatch_crash` places one runner per machine and
injects no partition (a stage wrongly believed dead does run twice, by design of
heartbeats), `preempt_safe` gives each low stage its own machine, `preempt_live` marks a
victim atomically and lets no stage be killed for memory, `jobs_safe` gives an agent one
executor thread, `gitsync` starts from a commit that has a dvc.lock, `localrun` has no
two stages apart. Deadlock is not
checked: when the jobs have ended, nothing is left to do.

**Fairness.** Weak, per runner, since runners are threads and processes of their own
(`WF_vars(RunnerStep(r))`; in `Preemption` also the cleanup and the waiting thread), and
per sweep, since `schedule_jobs` repeats `schedule_iteration` for ever
(`scheduler_loop.py:2242-2256`). In `JobLifecycle` every handler that was entered goes on,
agents poll, send heartbeats and are restarted by systemd, and networks heal. Strong
fairness is assumed only there, of what the iteration does when it comes round
(`Watchdog`, `PostPreempt`): the step is enabled in one phase of an iteration that is
repeated for ever, hence not continuously. In `GitSync` every runner and the classic loop
go on; in `Placement` the scheduler, each runner, and each task, which ends at its time
limit at the latest; in `GarbageCollection` every script, whose container is stopped at
`max_runtime`; in `LocalRun` the headnode, the client and each runner. Faults, results of
stages, submissions, stops, signals and additional machines are owed to nobody.

## What the code does that its documents deny

Met while modelling. Each is a property stated in its module, or one of the above, which TLC
refutes on the instance named; the instances of the runs avoid them, and say so above.

| property | instance | what happens | what is said |
|---|---|---|---|
| `RunnerKeepsItsStage` | `dispatch_crash` with two stages without parents and one machine with two slots that is home to two runners (`PackedOnHome`, `TwoOnHome`), crashes only | the exit report of one runner releases every running stage of the job on the machine (`headnode_service.py:1790`), also the one of its neighbour | comment at `headnode_service.py:1749-1750`; `docs/user/parallel_execution.md:97` |
| `WalkMovesOnlyWaitingStages` | `dispatch_live` without outside data and faults | a walk that read a stage as waiting writes over the claim of the meantime (`persistence.py:450`) | docstring, `persistence.py:418-419` |
| `RerunIsAwaited` | `dispatch_faults` with `ForkDeps`, `ParentsFirst`, no outside data, no fault | the second consumer of a lost output is failed before the producer ran again (`persistence.py:616`) | `docs/user/parallel_execution.md:175` |
| `JobEnds` | `dispatch_live`, transactions not interleaved, `FaultKinds = {"worker"}`, `Crashable = {w1}` | the home machine restarts before the first poll: the job is pending with a home, and nobody hands it out (`headnode_service.py:706`) | comment, `headnode_service.py:696-697` |
| `DoneIsReal` | `preempt_safe` with one low stage on one machine and two preemptions, no fault | a victim that failed by itself is recorded done (`headnode_service.py:1675`) | `docs/user/local-workspaces.md:127-128` |
| `PreemptionCostsNoRetry` | the same with a spare runner | the late exit report of a preempted runner costs the restarted stage a retry (`worker_agent.py:1242`) | `docs/user/ci_queue.md:132` |
| `StagesEnd` | `preempt_live` with `Ends = {"oom"}`, no fault | a stage preempted once and then killed for memory restarts for ever (`scheduler_loop.py:928`) | `persistence.py:799` |
| `OneDraft` | `jobs_live` with two draft jobs, no maintenance, two submissions at once | both stay active (`headnode_service.py:937`) | comment, `headnode_service.py:936-937` |
| `ResultsKept` | `gitsync`, parallel, `StartLock <- NoFile`, one version, no fault | without a dvc.lock in the start commit nothing is merged, the second push drops the first's entry (`dvc_git_helper.py:1234-1237`) | `docs/user/parallel_execution.md:156`, `README.md:29` |
| `ResultsKept`, `OutsMatchLock`, `ReadsReported` | `gitsync`, parallel, with a `StartLock` that also holds a planned stage | a stage that runs again and reproduces the dvc.lock of the start commit counts as no change, so nothing is merged and the local file is pushed over the remote's (`dvc_git_helper.py:1234-1237`) | the same |
| `NoOverload` | `preempt_safe` with all runners on one machine of two slots, crashes only | the exit report of one runner releases the stage of its neighbour, whose process goes on, and the slot is claimed again (`headnode_service.py:1790`) | comment at `headnode_service.py:1749-1750` |
| `SingleWorker` | `jobs_safe` with three jobs on branches of their own, one of them low and free to go anywhere, two slots and up to two executors per agent, no fault | an agent polls a job twice before its first thread has registered (`worker_agent.py:2639`); the first is preempted and acknowledged, the second's "running" is ignored, and it starts although the job goes elsewhere | the check at `worker_agent.py:2639-2646` is there to skip such a job |
| `Cardinality(job[j].act) <= MaxWorkersPerJob` | `placement` with one parallel job and three older classic ones, one of them of its repository, two machines, a ceiling of 1 | a pending job gets an additional machine first and its home on top of it: the ceiling is only looked at by the expansion (`scheduler_loop.py:2000-2001`, `:2177-2179`) | comment, `tests/test_h4_multi_machine_fairness.py:97` |
| `HandedOff` | `localrun` with two stages apart, one worker, `Interleaving = FALSE` | a runner that boots sends the marked archive of a dead runner under the record of a live runner of the same stage and removes it; the live one then archives and uploads nothing and reports the stage done (`local_workspace.py:143-144`, `:174`) | `docs/user/local-workspaces.md:81-83`, `:89-91` |

Read in the code, and built into the models as what they are (exceptions of a property, or
behaviour no property depends on):

* Placement: a classic job may be given a device that a stage claimed after the snapshot
  (`scheduler_loop.py:2120`); homes are never given up, so two jobs can corner each other
  (`:2146-2170`); a machine given back comes back into `active_workers` with the next write
  of the snapshot (`:2236`). `check_resource_impossibility` looks at online machines, its
  docstring says registered ones (`:1321-1322`).
* Local runs: a cancellation kills at once and preserves nothing (`worker_agent.py:1481-1533`
  against `docs/user/local-workspaces.md:89-91`); an archive that arrives between the
  client's GET and DELETE is deleted unread; an older archive uploaded later replaces a newer
  one; a client that gives up clears its state file, after which nobody can stop the job.
* Git: a stage that runs twice with different results conflicts with itself at each try,
  because the merge base never advances; a revert by a person to the start value is not seen.
* Planner: `replan()`, on which the comment at `stage_plan.py:432-433` counts, is never
  called; a part of a directory output that is neither on disk nor in the cache is never compared.
* Collection: the collection after a run marks its own project running again
  (`run_research_pipeline.sh:299-301`), so that it is not eligible (against
  `docs/admin/infrastructure_internals.md:27`); an emergency removes a whole cache, results
  that were not pushed included (against `:36`).
* Lifecycle: `worker_agent.py:226` uses a name that is not defined there, so that the purge of
  orphans spares every host process; it destroys their containers, which is what
  `JobLifecycle` models.

## Proofs

The theorems hold for every value of the constants that the ASSUMEs of the modules admit:
any number of machines, runners, threads, stages, jobs, faults and retries, any plan and
any order of its rows, functions of the headnode interleaved or not. Those assumptions give
the constants their types, and say twice more than that: `AcyclicAssumption` and
`StagePlanAssumption`, that a plan has no cycle, because `validate_plan` refuses one
(`scheduler_loop.py:852-868`), as DVC does. Where a property
is false in general, its theorem has a hypothesis, and TLC refutes it without:

| hypothesis | theorems | why it is needed |
|---|---|---|
| `FreshJob`: the start commit has a dvc.lock, without a stage of the job | all of `GitSyncProofs` | both halves: the two `gitsync` rows of the table above |
| `OneAtATime`: one executor thread per agent, registered when its process starts | `OneMachinePerJob` | the `SingleWorker` row |
| `OneRunnerPerMachine`: a machine has one executor of a job at a time | `DispatchFailuresAreRetried`, `DispatchOneExecutorPerStage`, `DispatchRunnerKeepsItsStage`, `PreemptionNoOverload`, `PreemptionSparesRetries` | an exit report is charged by machine: the rows `RunnerKeepsItsStage` and `NoOverload` |
| `~Interleaving`: no function of the headnode runs inside another | `DispatchCompletedIsComplete`, `DispatchFailedIsHopeless`, `DispatchOneExecutorPerStage`, `DispatchRunnerKeepsItsStage` | a decision is written over what happened since it was taken: the row `WalkMovesOnlyWaitingStages` |
| `~Interleaving`, in `LocalRun`: the scheduler does not walk between the last two writes of a cancellation | all of `LocalRunProofs` | the walk puts blocked stages back in the queue, so a runner whose report was ignored runs its stage a second time while a checkpoint of its first try waits elsewhere, and that may be uploaded last: `OutputsArrive` fails with two stages apart, two machines, three runners, two faults |
| no partition | `DispatchOneExecutorPerStage`, `DispatchRunnerKeepsItsStage` | a stage believed dead runs twice, by design of heartbeats |
| the home machine does not restart | `DispatchFailedIsHopeless` | its restart fails the job on the spot |

`OneRunnerPerMachine` is not what every cluster does. An agent with one GPU accepts one
executor at a time (`worker_agent.py:2627-2628`), but it may start the next while the
thread of the last is still reporting; the hypothesis excludes that too.

**NodeDispatch.**

* `DispatchTypeOK`, `DispatchInputsProduced`. A stage may be put back in the queue by a
  late report, by a sweep that decided long ago, or by a consumer that misses an output,
  so `InputsProduced` alone is not inductive. `IInv` adds that a success in the table, or
  on its way to it, was pushed (`SoundTable`, `SuccessWasPushed`), that the stage in a
  runner's hand and every stage ever pushed had their inputs (`StageInHand`,
  `PushedWasFed`), and that unwritten decisions had them too (`DecisionsAreFed`). Since
  inputs once produced stay produced, a stale decision is harmless here, which is the
  heart of the argument. `WalkMoves` and `WalkSound` are the lemmas about the DAG walk.
* `DispatchCompletedIsComplete`: only an exit report completes a job, from the table it
  wrote (`CompletedByExit`), and that table is final (`CompletedIsFinal`).
* `DispatchFailedIsHopeless`. `FInv` adds that after every walk a waiting stage has a
  parent that did not succeed (`Blockers`), whatever the order of the rows (`WalkBlocks`):
  one walk need not reach the fixpoint, but a row it leaves waiting it has looked at. So a
  table in which nothing runs and nothing is ready, and not all succeeded, contains a
  stage that failed: follow the parents that did not succeed, which ends for want of a cycle.
* `DispatchFailuresAreRetried`: a case analysis of the steps, with what the stage in a
  runner's hand is.
* `DispatchOneExecutorPerStage`, `DispatchRunnerKeepsItsStage`. `EInv` says that the runner
  at work owns its stage in the table (`Holds`), and that a stage that was offered has a
  parent that is not done only after that parent was sent back, which happens once
  (`ParentsDone`). So the producer a consumer sends back was done, not running again, and
  the sweep takes back only stages of runners that ended.

**Preemption.**

* `PreemptionTypeOK`: a victim chosen and not marked yet is still below the limit when it
  is marked (`VictimBelowLimit`), because only an acknowledgement counts and only a
  marked stage is acknowledged.
* `PreemptionHeldUntilStopped`, `PreemptionCountedOnce`: a preempting stage is settled
  only on the word of its own runner (`SettledByItsRunner`), and that word is given after
  the process ended (`CleanupTracksProcess`).
* `PreemptionNoOverload`, `PreemptionSparesRetries`. `HInv` says that a runner at work holds
  the reservation of its stage (`HoldsItsStage`). So the runners at work on a machine inject
  into the stages that reserve a slot there (`AtWorkReserve`), and a claim, which finds fewer
  reservations than slots, finds fewer runners. The reservations themselves may exceed the
  slots: a victim marked after it ended is one without a process. A retry is spent by the
  runner that holds the stage (`ChargedItsOwn`), and it is past it.

**JobLifecycle.** `IInv` ties each executor thread to the row of its job: a thread never
runs ahead of its row, and one that runs for the row's own runner is on the row's machine
(`ThreadsOK`). So a late "running" revives no job that went back to the queue, and the
conditional assignment is the only step that makes a compute job active.

* `OneJobPerBranch`: the count and the assignment are two steps, but nobody else makes a job
  of the branch active in between. `UpdatesRunAlone`: likewise for the maintenance flag.
* `OutcomesAreFinal`: every write to a row is one of a few changes (`Keeps`), and none of
  them revives an outcome, except the cancellation that read the job before.
* `OneMachinePerJob`: a job is requeued only when its thread has stopped (`Owned`).
* `JobTypeOK` and `JobInvariant` are the same invariant.

**Placement.** An iteration gives away what it saw, while tasks end and stages are claimed.
The invariant compares its memory with the tables: its list of a job's machines holds at
least the machines of the row (`Seen`), and it knows the repositories and devices of every
classic job, since it alone starts one (`ReposSeen`, `HeldSeen`).

* `StagesStayOnTheirMachines`: who may run a stage on a machine is in the row
  (`Belongs`, `Served`), and what the iteration writes back is no less than the row.
* `NoSharedCheckout`: what it saw of repositories is no less than what is there.
* `NoDeviceTwice`: the device part of `NoOvercommit`. The memory part is a sum over a set,
  hence an induction, and stays with TLC.
* `PlacementTypeOK`: also, that a job never has more than `MaxWorkersPerJob` machines beside its home.

**LockMerge, GitSync** (both in `GitSyncProofs`)**.**

* `ConflictsAreClashes`, `MergeIsThreeWay`: the case analysis of `merge_dvc_lock_data`
  is the three-way merge, for any files. It refuses a stage exactly when both sides
  changed it in different ways, and otherwise takes each from the side that changed it.
  The lemma `SameContent` turns contents, absence included, into membership and values.
* The results about the branch rest on an order (`Within`): the branch only grows, a
  synchronised worktree lies below it, and what is published differs from it by the result
  of one stage. It is inductive because a push is accepted only on the tip it was built on
  (`FormerTip`), and because HEAD lies below the files of its worktree, so that
  `sync_before_node` may compare the remote with HEAD and not with them.
  `ReportedResultsKept`, `BranchIsConsistent`, `StagesReadWhatWasReported` follow, and
  `GitSyncTypeOK` with them.
* `BranchIsAStore` is the refinement: every push of a runner or of the clone is a `Record`
  of `ResultStore`, every push of a person a `Commit`, all else a stutter.

**GarbageCollection.** `CollectionKeepsWork`: between its mark and its work the mark of a
run is recent (`MarkIsRecent`), and a run that works is recent or was in the look of whoever
collects (`Noticed`), since six hours do not pass between a look and its collection. So it
is on no list of candidates (`NotListed`). `CollectionTypeOK` adds that the lock is held by
the run that collects, whoever is killed.

**StagePlan.** `Stale` and `Ancestors` are recursive functions, so what they compute is an
induction over the plan. The theorem on induction takes an operator as parameter; the proofs
use the fact behind it instead, that a set of stages with a member has one none of whose
producers is in it (`FirstStage`, from `WFMin`). That the recursive functions satisfy their
equations (`AncestorsEq`, `StaleEq`, `NotCodeOnlyEq`) is proved from an intersection of closed
sets (`WalkExists`); each property then reasons from a first counterexample.

* `PlanJobReproduces`. The invariant follows the job: its stages are there with all they read
  (`JobIsClosed`), who is skipped reads nothing that is planned and who ran nothing that is left
  (`InOrder`), and each stage that ran, or never had to, is recorded on what it reads
  (`Reproduced`).
* `PlanIdempotent`: in such a state no stage is stale by itself but those the property names,
  and a first stale one would be.
* `PlanRealignHidesOnlyCode`: one step, along the plan. An earlier form of the property, about
  every stage stale through another, was false, which the proof showed and TLC confirmed:
  realigning a producer rightly takes its consumers from the plan.
* `PlanTypeOK`.

**LocalRun.** Archives are copied between working copies, workers, the headnode and the
user, so the invariant speaks of a copy wherever it is (`Good`). An unfinished one is there
only while its runner will not report the stage done any more (`Spent`), it is the last that
runner wrote (`LastWord`), and the headnode has an archive of the stage unless the runner
still owes its own (`Held`). `TabInv`, `RunnerOK`, `ClientInv` keep table, runners and client
to their sides of it. A step moves one runner and one stage with what follows from it
(`Move`), which is what `StepOK` puts together.

* `LocalOutputsArrive`: what is done is not spent, so a copy by its runner is whole; a copy of
  another's is the exception the property names.
* `LocalInputsAreFinished`: the restore prefers the headnode's copy to one that is not marked.
  The proof needed the exception that the producer is being run again.
* `LocalUnsentIsKept`: a mark goes only with its upload (`Recorded`, `AnswersFor`), and a
  preempted runner's own work is its last word, so a later archive under its name is no older.
  The proof needed the case of the removed record (`HandedOff` above), which the first model
  of `PreserveSave` lacked.
* `LocalTypeOK`: also, that each mark has a record to send it.

**Only model-checked.** The memory part of `NoOvercommit`, a sum over a set. All liveness
properties, since liveness under fairness and ENABLED are beyond the prover. What the
hypotheses above leave out, on the instances of the runs: interleaved functions of the headnode
(`dispatch_live`), a walk within a cancellation (`localrun`). None of the modules has a
RECURSIVE operator.

## Not modelled

* The artifact registry and the CAS fetch: holders, eviction and the order of peers decide
  how long a fetch takes and whether it succeeds; `NodeDispatch` has both outcomes.
* What happens inside one transfer of the local mode (chunks, markers, hashes): a
  transfer is refused or complete.
* `db_retention.py` (rows of jobs that ended), zombie containers, `drain_pending_syncs`
  (reads the registry without the lock and pushes), directories of results that expire.
* Host and GPU guards, the sanitizer, the package verifier: measurements and file checks of
  one process; their verdicts are a failed stage or a crash.
* The GitHub mode of the command line, `cluster_update`'s SSH steps, terminal output,
  dashboard and log streaming: nothing another component decides from.
* A restart of a worker in the middle of a stage preemption, which the documents leave to
  the operator (`docs/user/local-workspaces.md:129`).
* The product of `NodeDispatch` and `Preemption`: beyond the size of a run, and each hazard
  but one needs only one of them (the aggregation inside an uncommitted settlement,
  `headnode_service.py:1692`).

## Plan

Every safety property of a run is stated by a theorem, but for the memory of `NoOvercommit`.
What is left, in the order of what it would say:

1. `Preemption` and `NodeDispatch`: weaker hypotheses than `OneRunnerPerMachine`, if the
   code comes to charge an exit to its runner.
2. `LocalRun`: `HandedOff`, and `OutputsArrive` without its exception, if a record comes to be
   removed only by its own runner or after its runner's end.
3. The artifact registry, with holders that evict what another machine is about to fetch.
