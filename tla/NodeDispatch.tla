---------------------------- MODULE NodeDispatch ----------------------------
(***************************************************************************)
(* Dispatch of the stages of ONE parallel job to its branch executors.     *)
(*                                                                         *)
(*   headnode   handle_next_node (scheduler_loop.py) and the DAG branch of *)
(*              update_job_status (headnode_service.py), over the node     *)
(*              table of DagStore                                          *)
(*   scheduler  the two sweeps that open schedule_iteration: runner        *)
(*              heartbeat timeouts, then the walk over the DAG; and the    *)
(*              assignment of additional machines                          *)
(*   worker     poll_for_job / execute_job (worker_agent.py) around        *)
(*   runner     BranchExecutor.run (branch_executor.py)                    *)
(*                                                                         *)
(* next_node is one HTTP call that the headnode serves as two transactions *)
(* in a row: it records the result of the previous stage (Report...), then *)
(* chooses what the runner does next (Dispatch...).  They are two actions, *)
(* because another runner's call may be served in between.                 *)
(*                                                                         *)
(* Preemption is absent here (see Preemption): no node is ever marked      *)
(* preempting.  Resources are slots: a worker admits a stage while it has  *)
(* a free one.  Competing jobs are an environment that may ask an          *)
(* additional machine back at any stage boundary (DispatchGiveBack).       *)
(*                                                                         *)
(* Bug... operators are planted mistakes, as in DagStore; nothing uses     *)
(* them.                                                                   *)
(***************************************************************************)
EXTENDS DagStore

CONSTANTS
  Runner,          \* runner ids; one is used again only once the table forgot it
  Worker,
  WorkerOf,        \* WorkerOf[r]: the machine runner r is started on
  Home,            \* jobs.home_worker
  Slots,           \* Slots[w]: stages w admits at the same time
  MaxRunners,      \* MaxRunners[w]: executors w hosts (MAX_CONCURRENT_RUNNERS)
  MaxNodeRetries,  \* CLUSTER_CI_MAX_NODE_RETRIES
  External,        \* the stages that also read data no stage of the plan produces
  Interleaving,    \* TRUE: transactions of one function may be interleaved
  FaultKinds,      \* the faults the environment may inject
  MaxFaults,       \* how many
  Crashable,       \* the workers that may crash
  None

AllFaults == {"crash", "loss", "partition", "worker"}

ASSUME DispatchAssumption ==
  /\ WorkerOf \in [Runner -> Worker] /\ Home \in Worker
  /\ Slots \in [Worker -> Nat] /\ MaxRunners \in [Worker -> Nat]
  /\ MaxNodeRetries \in Nat /\ MaxFaults \in Nat
  /\ External \subseteq Node /\ Interleaving \in BOOLEAN
  /\ FaultKinds \subseteq AllFaults /\ Crashable \subseteq Worker
  /\ None \notin Runner \cup Node

VARIABLES
  job,     \* jobs.status
  extra,   \* jobs.active_workers without the home worker
  st,      \* job_nodes.status
  own,     \* job_nodes.runner_id
  rc,      \* job_nodes.retry_count
  md,      \* job_nodes.missing_deps_retried
  phase,   \* where the executor thread and its runner process are
  cur,     \* the stage the runner works on or reports
  res,     \* the result it has to report
  pushed,  \* stages whose outputs were committed and pushed at least once
  snapT,   \* a node the timeout sweep selected and has not rewritten yet
  snapR,   \* the rewrites the DAG walk decided and has not written yet
  faults   \* faults injected so far

table   == <<st, own, rc, md>>
runners == <<phase, cur, res>>
vars == <<job, extra, table, runners, pushed, snapT, snapR, faults>>

Terminal == {"completed", "failed"}
Phase == {"off",    \* no executor
          "ask",    \* calling next_node, nothing left to report
          "stage",  \* dvc repro of cur is running
          "out",    \* stage over, result not reported yet
          "walk",   \* result recorded, the walk over the DAG still to come
          "quit",   \* runner process exited with code 0
          "dead"}   \* it exited with an error, was killed, or its success could not be
                    \* reported: a failure will be
Alive   == {"ask", "stage", "out", "walk"}
Outcome == {"done", "failed", "fatal", "missing"}

\* Literals of handle_missing_deps.
MaxFetchRetries == 2
MaxProducerReruns == 1

NoRewrite == [n \in Node |-> "keep"]

TypeOK ==
  /\ job \in {"pending", "assigned", "running"} \cup Terminal
  /\ extra \subseteq Worker \ {Home}
  /\ st \in [Node -> Status]
  /\ own \in [Node -> Runner \cup {None}]
  /\ rc \in [Node -> 0..MaxNodeRetries]
  /\ md \in [Node -> 0..MaxFetchRetries]
  /\ phase \in [Runner -> Phase]
  /\ cur \in [Runner -> Node \cup {None}]
  /\ res \in [Runner -> Outcome \cup {None}]
  /\ pushed \subseteq Node
  /\ snapT \in Node \cup {None}
  /\ snapR \in [Node -> Waiting \cup {"keep"}]
  /\ faults \in 0..MaxFaults

Init ==
  /\ job = "assigned"
  /\ extra = {}
  /\ st \in RefreshResults(PlannedStatus)
  /\ \E n \in Node : st[n] # "skipped"
  /\ own = [n \in Node |-> None]
  /\ rc = [n \in Node |-> 0]
  /\ md = [n \in Node |-> 0]
  /\ phase = [r \in Runner |-> "off"]
  /\ cur = [r \in Runner |-> None]
  /\ res = [r \in Runner |-> None]
  /\ pushed = {}
  /\ snapT = None
  /\ snapR = NoRewrite
  /\ faults = 0

Fault(kind) ==
  /\ kind \in FaultKinds
  /\ faults < MaxFaults
  /\ faults' = faults + 1

-----------------------------------------------------------------------------
(* The machine: polling, and the life of a runner process.                 *)

Running(w)   == {r \in Runner : WorkerOf[r] = w /\ phase[r] \in Alive}
Executors(w) == {r \in Runner : WorkerOf[r] = w /\ phase[r] # "off"}

\* poll_for_job finds the job (worker_poll) and execute_job announces it as
\* running.  main_loop counts the runners whose process is not over; a machine
\* that still has the job in hand gets it again only if a stage is ready (packing).
Poll(r) ==
  LET w == WorkerOf[r] IN
  /\ phase[r] = "off"
  /\ \A n \in Node : st[n] = "running" => own[n] # r
  /\ job \in {"assigned", "running"}
  /\ w = Home \/ w \in extra
  /\ Cardinality(Running(w)) < MaxRunners[w]
  /\ Executors(w) # {} => \E n \in Node : st[n] = "ready"
  /\ job' = "running"
  /\ phase' = [phase EXCEPT ![r] = "ask"]
  /\ UNCHANGED <<extra, table, cur, res, pushed, snapT, snapR, faults>>

\* The stage ran to success: commit_and_push_node, then report "done".
StageSucceeds(r) ==
  /\ phase[r] = "stage"
  /\ pushed' = pushed \cup {cur[r]}
  /\ phase' = [phase EXCEPT ![r] = "out"]
  /\ res' = [res EXCEPT ![r] = "done"]
  /\ UNCHANGED <<job, extra, table, cur, snapT, snapR, faults>>

\* Who may have failed to supply an input of n; None is data from outside.
Suppliers(n) == Deps[n] \cup (IF n \in External THEN {None} ELSE {})

\* The stage exits with an error, is refused for good (packages, host memory
\* guard), or cannot fetch one of its inputs.
StageFails(r) ==
  /\ phase[r] = "stage"
  /\ \E o \in {"failed", "fatal", "missing"} :
       /\ o = "missing" => Suppliers(cur[r]) # {}
       /\ res' = [res EXCEPT ![r] = o]
  /\ phase' = [phase EXCEPT ![r] = "out"]
  /\ UNCHANGED <<job, extra, table, cur, pushed, snapT, snapR, faults>>

\* The runner process dies (OOM kill, exception in sync_before_node, ...).  A
\* walk its last call had started is then left to the next sweep.
RunnerCrash(r) ==
  /\ Fault("crash")
  /\ phase[r] \in Alive
  /\ phase' = [phase EXCEPT ![r] = "dead"]
  /\ cur' = [cur EXCEPT ![r] = None]
  /\ res' = [res EXCEPT ![r] = None]
  /\ UNCHANGED <<job, extra, table, pushed, snapT, snapR>>

\* The machine restarts: its executors vanish without a word and
\* register_worker(is_startup) rewrites the job if this was its machine.
WorkerCrash(w) ==
  /\ Fault("worker")
  /\ w \in Crashable
  /\ job' = IF w # Home THEN job
            ELSE CASE job = "running" -> "failed"
                   [] job = "assigned" -> "pending"
                   [] OTHER -> job
  /\ phase' = [r \in Runner |-> IF WorkerOf[r] = w THEN "off" ELSE phase[r]]
  /\ cur' = [r \in Runner |-> IF WorkerOf[r] = w THEN None ELSE cur[r]]
  /\ res' = [r \in Runner |-> IF WorkerOf[r] = w THEN None ELSE res[r]]
  /\ UNCHANGED <<extra, table, pushed, snapT, snapR>>

-----------------------------------------------------------------------------
(* Headnode, first half of next_node: the result of the previous stage.    *)

\* The runner has reported and now waits for an order.
Reported(r) ==
  /\ phase' = [phase EXCEPT ![r] = IF Interleaving THEN "walk" ELSE "ask"]
  /\ cur' = [cur EXCEPT ![r] = None]
  /\ res' = [res EXCEPT ![r] = None]
  /\ UNCHANGED <<job, extra, pushed, snapT, snapR, faults>>

Reporting(r, o) == phase[r] = "out" /\ res[r] = o /\ job \notin Terminal

\* Every report ends with update_dag_ready_states on the table it wrote, in a
\* transaction of its own (Walk).
WriteAndRefresh(tab) ==
  IF Interleaving THEN st' = tab ELSE st' \in RefreshResults(tab)

Walk(r) ==
  /\ phase[r] = "walk"
  /\ st' \in RefreshResults(st)
  /\ phase' = [phase EXCEPT ![r] = "ask"]
  /\ UNCHANGED <<job, extra, own, rc, md, cur, res, pushed, snapT, snapR, faults>>

\* mark_node_status(done): whoever reports it, success prevails.
ReportDone(r) ==
  /\ Reporting(r, "done")
  /\ WriteAndRefresh([st EXCEPT ![cur[r]] = "done"])
  /\ own' = [own EXCEPT ![cur[r]] = r]
  /\ UNCHANGED <<rc, md>>
  /\ Reported(r)

\* retry_count <= max_retries, and retry_count + 1 < max_retries.
BugOneRetryTooMany(S, retryable) == {n \in S : retryable /\ rc[n] <= MaxNodeRetries}
BugOneRetryTooFew(S, retryable) == {n \in S : retryable /\ rc[n] + 1 < MaxNodeRetries}

\* handle_node_failure_or_retry, for each node of S.
Retried(S, retryable) == {n \in S : retryable /\ rc[n] < MaxNodeRetries}

FailedTable(S, retryable) ==
  [n \in Node |-> IF n \in Retried(S, retryable) THEN "ready"
                  ELSE IF n \in S THEN "failed" ELSE st[n]]

FailOrRetry(S, retryable) ==
  LET again == Retried(S, retryable) IN
  /\ rc' = [n \in Node |-> IF n \in again THEN rc[n] + 1 ELSE rc[n]]
  /\ own' = [n \in Node |-> IF n \in S THEN None ELSE own[n]]
  /\ UNCHANGED md

ReportFailed(r) ==
  /\ Reporting(r, "failed") \/ Reporting(r, "fatal")
  /\ WriteAndRefresh(FailedTable({cur[r]}, res[r] = "failed"))
  /\ FailOrRetry({cur[r]}, res[r] = "failed")
  /\ Reported(r)

\* handle_missing_deps, its four ways out.
ConsumerFails(n) ==
  /\ WriteAndRefresh([st EXCEPT ![n] = "failed"])
  /\ UNCHANGED <<own, md>>

ConsumerFetchesAgain(n) ==
  /\ WriteAndRefresh([st EXCEPT ![n] = "ready"])
  /\ own' = [own EXCEPT ![n] = None]
  /\ md' = [md EXCEPT ![n] = @ + 1]

ProducerRunsAgain(n, p) ==
  /\ WriteAndRefresh([st EXCEPT ![p] = "ready", ![n] = "pending"])
  /\ own' = [own EXCEPT ![p] = None, ![n] = None]
  /\ md' = [md EXCEPT ![p] = @ + 1]

\* peers: an online worker still holds the missing artefact.
MissingDeps(n, p, peers) ==
  IF p = None THEN ConsumerFails(n)
  ELSE IF peers /\ md[n] < MaxFetchRetries THEN ConsumerFetchesAgain(n)
  ELSE IF md[p] >= MaxProducerReruns THEN ConsumerFails(n)
  ELSE ProducerRunsAgain(n, p)

ReportMissing(r) ==
  /\ Reporting(r, "missing")
  /\ \E p \in Suppliers(cur[r]), peers \in BOOLEAN :
       MissingDeps(cur[r], p, peers)
  /\ UNCHANGED rc
  /\ Reported(r)

-----------------------------------------------------------------------------
(* Headnode, second half of next_node: what the runner does now.           *)

\* "finish", "yield": the runner process ends with code 0.
Leaves(r) ==
  /\ phase' = [phase EXCEPT ![r] = "quit"]
  /\ cur' = [cur EXCEPT ![r] = None]
  /\ res' = [res EXCEPT ![r] = None]
  /\ UNCHANGED <<job, table, pushed, snapT, snapR, faults>>

\* A terminated job takes no report any more and hands out no stage.
DispatchJobOver(r) ==
  /\ phase[r] \in {"ask", "out"}
  /\ job \in Terminal
  /\ Leaves(r)
  /\ UNCHANGED extra

Occupied(w) ==
  {n \in Node : st[n] \in Reserving /\ own[n] # None /\ WorkerOf[own[n]] = w}
Admits(w) == Cardinality(Occupied(w)) < Slots[w]

\* The UPDATE of the claim without AND status = 'ready'.
BugClaimsTwice == {n \in Node : st[n] \in {"ready", "running"}}
Claimable == {n \in Node : st[n] = "ready"}

\* The claim, under BEGIN IMMEDIATE.  The answer may be lost on the way back:
\* then the runner dies on the exception while the headnode holds a claim.
DispatchStage(r, n) ==
  /\ phase[r] = "ask"
  /\ job \notin Terminal
  /\ n \in Claimable /\ Admits(WorkerOf[r])
  /\ st' = [st EXCEPT ![n] = "running"]
  /\ own' = [own EXCEPT ![n] = r]
  /\ job' = IF job \in {"pending", "assigned"} THEN "running" ELSE job
  /\ \/ /\ phase' = [phase EXCEPT ![r] = "stage"]
        /\ cur' = [cur EXCEPT ![r] = n]
        /\ UNCHANGED faults
     \/ /\ Fault("loss")
        /\ phase' = [phase EXCEPT ![r] = "dead"]
        /\ UNCHANGED cur
  /\ UNCHANGED <<extra, rc, md, res, pushed, snapT, snapR>>

\* Home machine, nothing left to wait for ("wait" changes nothing).
DispatchFinish(r) ==
  /\ phase[r] = "ask"
  /\ job \notin Terminal
  /\ WorkerOf[r] = Home
  /\ \A n \in Node : st[n] \notin {"pending", "ready", "running"}
  /\ Leaves(r)
  /\ UNCHANGED extra

\* Additional machine: nothing admissible, or a competing job wants it back
\* (rules A1 and A2).  _release_worker_from_job.
DispatchGiveBack(r) ==
  /\ phase[r] = "ask"
  /\ job \notin Terminal
  /\ WorkerOf[r] # Home
  /\ Leaves(r)
  /\ extra' = extra \ {WorkerOf[r]}

-----------------------------------------------------------------------------
(* The worker reports the end of the runner process: update_job_status.    *)

\* The report reaches the headnode; the answer may be lost, and the report is
\* then sent again.
Forget(r) == phase' = [phase EXCEPT ![r] = "off"] /\ UNCHANGED faults
ReportSent(r) == Forget(r) \/ (Fault("loss") /\ UNCHANGED phase)

Consolidate(tab) ==
  job' = IF Aggregate(tab) \in Terminal THEN Aggregate(tab) ELSE "running"

ExitIgnored(r) ==
  /\ phase[r] \in {"quit", "dead"}
  /\ job \in Terminal
  /\ Forget(r)
  /\ UNCHANGED <<job, extra, table, cur, res, pushed, snapT, snapR>>

ExitCompleted(r) ==
  /\ phase[r] = "quit"
  /\ job \notin Terminal
  /\ Consolidate(st)
  /\ ReportSent(r)
  /\ UNCHANGED <<extra, table, cur, res, pushed, snapT, snapR>>

\* A failed exit charged to every running node of the job.
BugChargesTheJob(r) == {n \in Node : st[n] = "running"}

\* The nodes a failed exit is charged to: worker_id = ? OR runner_id = ?.
ChargedTo(r) ==
  {n \in Node : st[n] = "running"
                /\ \/ own[n] = r
                   \/ own[n] # None /\ WorkerOf[own[n]] = WorkerOf[r]}

ExitFailed(r) ==
  /\ phase[r] = "dead"
  /\ job \notin Terminal
  /\ \E retryable \in BOOLEAN :
       /\ st' \in RefreshResults(FailedTable(ChargedTo(r), retryable))
       /\ FailOrRetry(ChargedTo(r), retryable)
  /\ Consolidate(st')
  /\ ReportSent(r)
  /\ UNCHANGED <<extra, cur, res, pushed, snapT, snapR>>

\* All attempts failed.  The exception of a completion that could not be
\* reported makes the thread report a failure instead.
ExitLost(r) ==
  /\ phase[r] \in {"quit", "dead"}
  /\ Fault("loss")
  /\ phase' = [phase EXCEPT ![r] = IF @ = "quit" THEN "dead" ELSE "off"]
  /\ UNCHANGED <<job, extra, table, cur, res, pushed, snapT, snapR>>

-----------------------------------------------------------------------------
(* The scheduler's sweeps.  Each selects rows, then rewrites them without   *)
(* looking at them again.                                                   *)

\* No heartbeat for RUNNER_HEARTBEAT_TIMEOUT_S: the runner's process ended,
\* or its messages do not get through (a partition).
Silent(n) ==
  /\ st[n] = "running" /\ own[n] # None
  /\ IF phase[own[n]] \in Alive THEN Fault("partition") ELSE UNCHANGED faults

Recover(n) ==
  /\ st' = [st EXCEPT ![n] = "ready"]
  /\ own' = [own EXCEPT ![n] = None]

TimeoutSweep(n) ==
  /\ ~Interleaving
  /\ Silent(n)
  /\ Recover(n)
  /\ UNCHANGED <<job, extra, rc, md, runners, pushed, snapT, snapR>>

TimeoutRead(n) ==
  /\ Interleaving /\ snapT = None
  /\ Silent(n)
  /\ snapT' = n
  /\ UNCHANGED <<job, extra, table, runners, pushed, snapR>>

TimeoutWrite ==
  /\ snapT # None
  /\ Recover(snapT)
  /\ snapT' = None
  /\ UNCHANGED <<job, extra, rc, md, runners, pushed, snapR, faults>>

RefreshSweep ==
  /\ ~Interleaving
  /\ job \notin Terminal
  /\ st' \in RefreshResults(st)
  /\ UNCHANGED <<job, extra, own, rc, md, runners, pushed, snapT, snapR, faults>>

RefreshRead ==
  /\ Interleaving /\ snapR = NoRewrite
  /\ job \notin Terminal
  /\ \E new \in RefreshResults(st) :
       snapR' = [n \in Node |-> IF new[n] = st[n] THEN "keep" ELSE new[n]]
  /\ UNCHANGED <<job, extra, table, runners, pushed, snapT, faults>>

RefreshWrite ==
  /\ snapR # NoRewrite
  /\ st' = [n \in Node |-> IF snapR[n] = "keep" THEN st[n] ELSE snapR[n]]
  /\ snapR' = NoRewrite
  /\ UNCHANGED <<job, extra, own, rc, md, runners, pushed, snapT, faults>>

\* A free machine joins the job while there is more to run than machines.
AddExtraWorker(w) ==
  /\ job \notin Terminal
  /\ w # Home /\ w \notin extra
  /\ Claimable # {} /\ Admits(w)
  /\ Cardinality(extra) + 1 < Cardinality({n \in Node : st[n] \in {"ready", "running"}})
  /\ extra' = extra \cup {w}
  /\ UNCHANGED <<job, table, runners, pushed, snapT, snapR, faults>>

-----------------------------------------------------------------------------
RunnerStep(r) ==
  \/ Poll(r) \/ StageSucceeds(r) \/ StageFails(r)
  \/ ReportDone(r) \/ ReportFailed(r) \/ ReportMissing(r) \/ Walk(r)
  \/ DispatchJobOver(r) \/ DispatchFinish(r) \/ DispatchGiveBack(r)
  \/ \E n \in Node : DispatchStage(r, n)
  \/ ExitIgnored(r) \/ ExitCompleted(r) \/ ExitFailed(r)

SchedulerStep ==
  \/ \E n \in Node : TimeoutSweep(n) \/ TimeoutRead(n)
  \/ TimeoutWrite \/ RefreshSweep \/ RefreshRead \/ RefreshWrite

FaultStep ==
  \/ \E r \in Runner : RunnerCrash(r) \/ ExitLost(r)
  \/ \E w \in Worker : WorkerCrash(w)

Next ==
  \/ \E r \in Runner : RunnerStep(r)
  \/ SchedulerStep
  \/ \E w \in Worker : AddExtraWorker(w)
  \/ FaultStep

Spec == Init /\ [][Next]_vars

\* Runners are threads and processes of their own and the scheduler loops for
\* ever; faults and additional machines are owed to nobody.
Fairness ==
  /\ \A r \in Runner : WF_vars(RunnerStep(r))
  /\ WF_vars(\E n \in Node : TimeoutSweep(n) \/ TimeoutRead(n))
  /\ WF_vars(TimeoutWrite)
  /\ WF_vars(RefreshSweep \/ RefreshRead)
  /\ WF_vars(RefreshWrite)

FairSpec == Spec /\ Fairness

-----------------------------------------------------------------------------
(* Safety.                                                                  *)

\* A stage is offered, run or finished only if every input it depends on has
\* been produced at least once: whatever reports arrive late, whatever sweep
\* writes a stale decision and however often producers are sent back.
InputsProduced ==
  \A n \in Node : st[n] \in {"ready", "running", "done"}
                    => Deps[n] \subseteq pushed \cup UpToDate

\* A job is declared completed only when each of its stages succeeded, and
\* the outputs of each were really pushed or up to date from the start.
CompletedIsComplete ==
  job = "completed" =>
    \A n \in Node : st[n] \in Succeeded /\ n \in pushed \cup UpToDate

\* A job is declared failed only when a stage failed for good and nothing
\* more could run: no stage is ready, running, or waits for parents that all
\* succeeded ("plus aucun noeud ne peut s'executer").
FailedIsHopeless ==
  job = "failed" =>
    /\ \E n \in Node : st[n] = "failed"
    /\ \A n \in Node : st[n] \notin {"ready", "running"}
    /\ \A n \in Node : st[n] \in {"pending", "blocked"}
                         => \E d \in Deps[n] : st[d] \notin Succeeded

\* Two machines never run the same stage at the same time.
OneExecutorPerStage ==
  \A r, q \in Runner : phase[r] = "stage" /\ phase[q] = "stage" /\ r # q
                         => cur[r] # cur[q]

\* A stage becomes failed only after its retries were used up, or for a
\* reason that is never retried: a fatal report or an input nobody can supply.
FailuresAreRetried ==
  [][\A n \in Node : st[n] # "failed" /\ st'[n] = "failed" =>
       \/ rc[n] = MaxNodeRetries
       \/ \E r \in Runner : cur[r] = n /\ res[r] \in {"fatal", "missing"}
       \/ \E r \in Runner : own[n] = r /\ phase[r] = "dead"]_vars

\* As long as a runner works on the stage it holds, the table keeps that stage
\* running: no other runner's report and no sweep takes it away.
RunnerKeepsItsStage ==
  [][\A r \in Runner, n \in Node :
       /\ st[n] = "running" /\ own[n] = r
       /\ phase[r] = "stage" /\ phase'[r] = "stage" /\ cur[r] = n
       => st'[n] = "running"]_vars

\* A consumer that misses an input of the plan is given up only after the
\* producer was run again: not while that second run is still to come.
RerunIsAwaited ==
  [][\A r \in Runner :
       /\ phase[r] = "out" /\ res[r] = "missing" /\ cur[r] \notin External
       /\ st[cur[r]] = "running" /\ st'[cur[r]] = "failed"
       => \E p \in Deps[cur[r]] : md[p] = MaxProducerReruns /\ st[p] = "done"]_vars

\* The walk over the DAG moves only stages that wait (pending, ready, blocked).
WalkMovesOnlyWaitingStages ==
  [][snapR # NoRewrite /\ snapR' = NoRewrite
       => \A n \in Node : st[n] \notin Waiting => st'[n] = st[n]]_vars

\* Every job ends: completed or failed, never waiting for ever.
JobEnds == <>(job \in Terminal)
=============================================================================
