----------------------------- MODULE Preemption -----------------------------
(***************************************************************************)
(* Preemption of a running low-priority stage for a high-priority one, as  *)
(* the headnode and a worker carry it out together:                        *)
(*                                                                         *)
(*   scheduler  check_and_preempt_for_high_priority_nodes marks a victim   *)
(*              preempting, then asks its worker again and again to stop   *)
(*              the runner                                                 *)
(*   worker     preempt_runner starts a cleanup thread that stops the      *)
(*              runner physically and then acknowledges; the thread of     *)
(*              execute_job that waits for the same process goes on beside *)
(*              it (worker_agent.py)                                       *)
(*   headnode   update_job_status receives acknowledgements and ordinary   *)
(*              exit reports, handle_next_node the results of stages       *)
(*                                                                         *)
(* Every stage asks for one slot of a machine.  Stages have no parents     *)
(* here (NodeDispatch has the DAG), and the status of jobs, the assignment *)
(* of machines to jobs and classic jobs are left out: the runners of a job *)
(* are given with their machines.  Stages are chosen freely among those    *)
(* the code ranks by start time or image.                                  *)
(*                                                                         *)
(* Bug... operators are planted mistakes; nothing uses them.               *)
(***************************************************************************)
EXTENDS Naturals, FiniteSets

CONSTANTS
  Stage, Job, JobOf, User, Prio, Fits,
  Runner, RunnerJob, Worker, WorkerOf,
  Capacity,        \* Capacity[w]: stages w runs at the same time
  MaxNodeRetries,  \* CLUSTER_CI_MAX_NODE_RETRIES
  MaxPreempt,      \* a stage preempted this often is immune (5 in the code)
  Ends,            \* the ways a stage may end in this instance
  Interleaving,    \* TRUE: a victim may be chosen and marked in two steps
  FaultKinds, MaxFaults,
  None

Outcome == {"done", "failed", "oom"}
AllFaults == {"crash", "loss", "stop"}

ASSUME PreemptionAssumption ==
  /\ IsFiniteSet(Stage) /\ IsFiniteSet(Runner)
  /\ JobOf \in [Stage -> Job] /\ Prio \in [Stage -> {"high", "normal", "low"}]
  /\ Fits \in [Stage -> SUBSET Worker]
  /\ RunnerJob \in [Runner -> Job] /\ WorkerOf \in [Runner -> Worker]
  /\ Capacity \in [Worker -> Nat]
  /\ MaxNodeRetries \in Nat /\ MaxPreempt \in Nat /\ MaxFaults \in Nat
  /\ Ends \subseteq Outcome /\ Interleaving \in BOOLEAN
  /\ FaultKinds \subseteq AllFaults
  /\ None \notin Stage \cup Runner

VARIABLES
  st,      \* job_nodes.status ("new": the job is not submitted yet)
  own,     \* job_nodes.runner_id, and with it worker_id
  rc,      \* job_nodes.retry_count
  pc,      \* job_nodes.preempt_count
  by,      \* job_nodes.preempted_by
  ec,      \* job_nodes.exit_code of a preempting node
  phase,   \* the runner process, then the execute_job thread that waited for it
  cur,     \* the stage the runner works on or reports
  res,     \* how that stage ended
  flag,    \* runners in preempted_runner_ids
  kept,    \* runners in preemption_executors
  stop,    \* where the cleanup thread of the runner is
  snap,    \* a victim chosen for a requester and not marked yet
  won,     \* stages that really ran to success
  faults

table  == <<st, own, rc, pc, by, ec>>
runner == <<phase, cur, res>>
worker == <<flag, kept, stop>>
vars   == <<table, runner, worker, snap, won, faults>>

Alive == {"ask", "stage", "out"}
Phase == Alive \cup
  {"off",         \* unknown to the worker
   "quit",        \* process over with code 0, the thread has not looked yet
   "dead",        \* process over with an error or killed, likewise
   "completed",   \* the thread reports success
   "failed",      \* the thread reports a failure, or that it cannot report success
   "kept"}        \* the thread is over, preemption_executors keeps the entry
Reserving == {"running", "preempting"}

TypeOK ==
  /\ st \in [Stage -> {"new", "ready", "running", "preempting", "done", "failed"}]
  /\ own \in [Stage -> Runner \cup {None}]
  /\ rc \in [Stage -> 0..MaxNodeRetries]
  /\ pc \in [Stage -> 0..MaxPreempt]
  /\ by \in [Stage -> Stage \cup {None}]
  /\ ec \in [Stage -> Outcome \cup {None}]
  /\ phase \in [Runner -> Phase]
  /\ cur \in [Runner -> Stage \cup {None}]
  /\ res \in [Runner -> Outcome \cup {None}]
  /\ flag \subseteq Runner /\ kept \subseteq Runner
  /\ stop \in [Runner -> {"idle", "kill", "ack"}]
  /\ snap \in (Stage \X Stage) \cup {None}
  /\ won \subseteq Stage
  /\ faults \in 0..MaxFaults

Init ==
  /\ st = [n \in Stage |-> "new"]
  /\ own = [n \in Stage |-> None]
  /\ rc = [n \in Stage |-> 0] /\ pc = [n \in Stage |-> 0]
  /\ by = [n \in Stage |-> None] /\ ec = [n \in Stage |-> None]
  /\ phase = [r \in Runner |-> "off"]
  /\ cur = [r \in Runner |-> None] /\ res = [r \in Runner |-> None]
  /\ flag = {} /\ kept = {} /\ stop = [r \in Runner |-> "idle"]
  /\ snap = None /\ won = {} /\ faults = 0

Fault(kind) == kind \in FaultKinds /\ faults < MaxFaults /\ faults' = faults + 1

-----------------------------------------------------------------------------
(* Allocation.                                                             *)

\* Only running stages occupy a slot; a finished one still does.
BugForgetsPreempting(w) == {n \in Stage : st[n] = "running" /\ WorkerOf[own[n]] = w}
BugKeepsFinished(w) ==
  {n \in Stage : st[n] \in Reserving \cup {"done"} /\ own[n] # None /\ WorkerOf[own[n]] = w}
Used(w) == {n \in Stage : st[n] \in Reserving /\ own[n] # None /\ WorkerOf[own[n]] = w}
Admits(w, n) == w \in Fits[n] /\ Cardinality(Used(w)) < Capacity[w]

Rank(n) == CASE Prio[n] = "high" -> 0 [] Prio[n] = "normal" -> 1 [] OTHER -> 2

\* higher_priority_stage_awaits_launch: on a machine of its own job.
HigherWaits(w, n) ==
  \E m \in Stage : /\ st[m] = "ready" /\ JobOf[m] # JobOf[n] /\ Rank(m) < Rank(n)
                   /\ \E q \in Runner : RunnerJob[q] = JobOf[m] /\ WorkerOf[q] = w
                   /\ Admits(w, m)

Claimable(r) ==
  {n \in Stage : /\ JobOf[n] = RunnerJob[r] /\ st[n] = "ready"
                 /\ Admits(WorkerOf[r], n) /\ ~HigherWaits(WorkerOf[r], n)}

-----------------------------------------------------------------------------
(* Runner processes.                                                       *)

Moves(r, p, c, o) ==
  /\ phase' = [phase EXCEPT ![r] = p]
  /\ cur' = [cur EXCEPT ![r] = c]
  /\ res' = [res EXCEPT ![r] = o]

\* The stages of job j enter the table (none has a parent to wait for).
Submit(j) ==
  /\ \E n \in Stage : JobOf[n] = j
  /\ \A n \in Stage : JobOf[n] = j => st[n] = "new"
  /\ st' = [n \in Stage |-> IF JobOf[n] = j THEN "ready" ELSE st[n]]
  /\ UNCHANGED <<own, rc, pc, by, ec, runner, worker, snap, won, faults>>

\* The worker polls, gets the job and starts an executor under a fresh id (an
\* id is used again here once the table forgot it).  Executors started while
\* nothing is ready only leave again and are left out.
Start(r) ==
  /\ phase[r] = "off"
  /\ \A n \in Stage : st[n] \in Reserving => own[n] # r
  /\ \E n \in Stage : JobOf[n] = RunnerJob[r] /\ st[n] = "ready"
  /\ Moves(r, "ask", None, None)
  /\ UNCHANGED <<table, worker, snap, won, faults>>

Claim(r, n) ==
  /\ phase[r] = "ask" /\ n \in Claimable(r)
  /\ st' = [st EXCEPT ![n] = "running"]
  /\ own' = [own EXCEPT ![n] = r]
  /\ Moves(r, "stage", n, None)
  /\ UNCHANGED <<rc, pc, by, ec, worker, snap, won, faults>>

\* finish, or yield of an additional machine.
Leave(r) ==
  /\ phase[r] = "ask" /\ Claimable(r) = {}
  /\ Moves(r, "quit", None, None)
  /\ UNCHANGED <<table, worker, snap, won, faults>>

StageEnds(r) ==
  /\ phase[r] = "stage"
  /\ \E o \in Ends :
       /\ Moves(r, "out", cur[r], o)
       /\ won' = IF o = "done" THEN won \cup {cur[r]} ELSE won
  /\ UNCHANGED <<table, worker, snap, faults>>

RunnerCrash(r) ==
  /\ phase[r] \in Alive /\ Fault("crash")
  /\ Moves(r, "dead", None, None)
  /\ UNCHANGED <<table, worker, snap, won>>

-----------------------------------------------------------------------------
(* handle_next_node: the result of the stage that just ended.               *)

Yields(r) == Moves(r, "quit", None, None)

\* The stage was marked meanwhile: keep the reservation, note the exit code.
ReportPreempting(r) ==
  /\ phase[r] = "out" /\ st[cur[r]] = "preempting"
  /\ ec' = [ec EXCEPT ![cur[r]] = res[r]]
  /\ Yields(r)
  /\ UNCHANGED <<st, own, rc, pc, by, worker, snap, won, faults>>

\* The stage was chosen by the engine once, and exits like a killed one: taken
\* for the echo of that preemption, nothing is recorded.
BugEchoOfAnyFailure(r) == by[cur[r]] # None /\ res[r] # "done"
EchoOfPreemption(r) == by[cur[r]] # None /\ res[r] = "oom"

ReportEcho(r) ==
  /\ phase[r] = "out" /\ st[cur[r]] # "preempting" /\ EchoOfPreemption(r)
  /\ Yields(r)
  /\ UNCHANGED <<table, worker, snap, won, faults>>

ReportDone(r) ==
  /\ phase[r] = "out" /\ st[cur[r]] # "preempting" /\ res[r] = "done"
  /\ st' = [st EXCEPT ![cur[r]] = "done"]
  /\ own' = [own EXCEPT ![cur[r]] = r]
  /\ Moves(r, "ask", None, None)
  /\ UNCHANGED <<rc, pc, by, ec, worker, snap, won, faults>>

\* retry_count <= max_retries.
BugOneRetryTooMany(S) == {n \in S : rc[n] <= MaxNodeRetries}
Retried(S) == {n \in S : rc[n] < MaxNodeRetries}

\* handle_node_failure_or_retry without preemption, on the nodes of S.
FailOrRetry(S) ==
  LET again == Retried(S) IN
  /\ st' = [n \in Stage |-> IF n \in again THEN "ready" ELSE IF n \in S THEN "failed" ELSE st[n]]
  /\ rc' = [n \in Stage |-> IF n \in again THEN rc[n] + 1 ELSE rc[n]]
  /\ own' = [n \in Stage |-> IF n \in S THEN None ELSE own[n]]
  /\ UNCHANGED <<pc, by, ec>>

ReportFailed(r) ==
  /\ phase[r] = "out" /\ st[cur[r]] # "preempting"
  /\ res[r] \in {"failed", "oom"} /\ ~EchoOfPreemption(r)
  /\ FailOrRetry({cur[r]})
  /\ Moves(r, "ask", None, None)
  /\ UNCHANGED <<worker, snap, won, faults>>

-----------------------------------------------------------------------------
(* The scheduler's preemption engine.                                      *)

CanRunNow(q) == \E w \in Worker : Admits(w, q)
Waited(q) == \E n \in Stage : st[n] = "preempting" /\ by[n] = q

\* Removing the victim's reservation lets its machine take the requester.
MakesRoom(v, q) ==
  LET w == WorkerOf[own[v]] IN
  w \in Fits[q] /\ Cardinality(Used(w) \ {v}) < Capacity[w]

Victim(v, q) ==
  /\ st[v] = "running" /\ own[v] # None /\ Prio[v] = "low"
  /\ pc[v] < MaxPreempt
  /\ User[JobOf[v]] # User[JobOf[q]]
  /\ MakesRoom(v, q)

Chosen(q, v) ==
  /\ st[q] = "ready" /\ Prio[q] = "high"
  /\ ~Waited(q) /\ ~CanRunNow(q)
  /\ Victim(v, q)

\* The preemption is counted when it is asked for.
BugCountsTheRequest(q, v) ==
  /\ st' = [st EXCEPT ![v] = "preempting"]
  /\ by' = [by EXCEPT ![v] = q]
  /\ ec' = [ec EXCEPT ![v] = None]
  /\ pc' = [pc EXCEPT ![v] = @ + 1]
  /\ UNCHANGED <<own, rc, runner, worker, won, faults>>

Mark(q, v) ==
  /\ st' = [st EXCEPT ![v] = "preempting"]
  /\ by' = [by EXCEPT ![v] = q]
  /\ ec' = [ec EXCEPT ![v] = None]
  /\ UNCHANGED <<own, rc, pc, runner, worker, won, faults>>

Preempt(q, v) == ~Interleaving /\ Chosen(q, v) /\ Mark(q, v) /\ UNCHANGED snap

\* The victim is selected, then marked whatever became of it.
PreemptRead(q, v) ==
  /\ Interleaving /\ snap = None /\ Chosen(q, v)
  /\ snap' = <<q, v>>
  /\ UNCHANGED <<table, runner, worker, won, faults>>

PreemptWrite == snap # None /\ Mark(snap[1], snap[2]) /\ snap' = None

\* Every iteration asks the worker of every preempting node; a worker that
\* does not know the runner answers 404, one already stopping it changes
\* nothing.  main_loop forgets a runner as soon as it sees its process over.
Asked(r) ==
  /\ \E n \in Stage : st[n] = "preempting" /\ own[n] = r
  /\ stop[r] = "idle"
  /\ flag' = flag \cup {r} /\ kept' = kept \cup {r}
  /\ stop' = [stop EXCEPT ![r] = "kill"]
  /\ UNCHANGED <<table, runner, snap, won, faults>>

\* A stop once asked for is not asked for again.
BugAsksOnce(r) == phase[r] \in Alive /\ r \notin kept /\ Asked(r)
PreemptPost(r) == (phase[r] \in Alive \/ r \in kept) /\ Asked(r)

\* Just before main_loop forgets the runner.
PreemptPostLate(r) == phase[r] \notin Alive \cup {"off"} /\ r \notin kept /\ Asked(r)

-----------------------------------------------------------------------------
(* The worker's cleanup thread.                                            *)

\* The cleanup acknowledges without having waited for the processes.
BugAcksAtOnce(r) == UNCHANGED runner

\* SIGTERM, then SIGKILL, and the containers removed: whatever ran is over.
Terminates(r) ==
  IF phase[r] \in Alive THEN Moves(r, "dead", None, None) ELSE UNCHANGED runner

StopRunner(r) ==
  /\ stop[r] = "kill"
  /\ Terminates(r)
  /\ stop' = [stop EXCEPT ![r] = "ack"]
  /\ UNCHANGED <<table, flag, kept, snap, won, faults>>

\* The stop is not confirmed (docker fails, archive not handed over), or all
\* attempts to acknowledge failed: the next request starts it again.
StopUnconfirmed(r) ==
  /\ stop[r] # "idle" /\ Fault("stop")
  /\ stop' = [stop EXCEPT ![r] = "idle"]
  /\ UNCHANGED <<table, runner, flag, kept, snap, won>>

Preempting(j) == {n \in Stage : JobOf[n] = j /\ st[n] = "preempting"}
Matched(r) == {n \in Preempting(RunnerJob[r]) : own[n] = r}

\* update_job_status, the preempting nodes of this runner; success tells
\* whether the report itself is a completion.
Settle(r, success) ==
  LET kind(n) == IF ec[n] = "done" \/ success THEN "done" ELSE "ready" IN
  /\ st' = [n \in Stage |-> IF n \in Matched(r) THEN kind(n) ELSE st[n]]
  /\ own' = [n \in Stage |-> IF n \in Matched(r) /\ kind(n) = "ready" THEN None ELSE own[n]]
  /\ pc' = [n \in Stage |-> IF n \in Matched(r) /\ kind(n) = "ready" THEN pc[n] + 1 ELSE pc[n]]
  /\ UNCHANGED <<rc, by, ec>>

\* failure_reason = JobPreempted.  Answered 409 while other runners' nodes are
\* preempting and none of this runner is; ignored if no node is preempting.
AckAccepted(r) == Preempting(RunnerJob[r]) = {} \/ Matched(r) # {}

Ack(r) ==
  /\ stop[r] = "ack" /\ AckAccepted(r)
  /\ Settle(r, FALSE)
  /\ flag' = flag \ {r} /\ kept' = kept \ {r}
  /\ stop' = [stop EXCEPT ![r] = "idle"]
  /\ phase' = [phase EXCEPT ![r] = IF @ = "kept" THEN "off" ELSE @]
  /\ UNCHANGED <<cur, res, snap, won, faults>>

\* The headnode settles it, the answer is lost, the worker will send it again.
AckAnswerLost(r) ==
  /\ stop[r] = "ack" /\ AckAccepted(r) /\ Fault("loss")
  /\ Settle(r, FALSE)
  /\ UNCHANGED <<runner, worker, snap, won>>

-----------------------------------------------------------------------------
(* The execute_job thread, once the process it waited for is over.          *)

ThreadEnds(r) == phase' = [phase EXCEPT ![r] = IF r \in kept THEN "kept" ELSE "off"]

Look(r) ==
  /\ phase[r] \in {"quit", "dead"}
  /\ IF r \in flag
     THEN flag' = flag \ {r} /\ ThreadEnds(r)
     ELSE /\ phase' = [phase EXCEPT ![r] = IF @ = "quit" THEN "completed" ELSE "failed"]
          /\ UNCHANGED flag
  /\ UNCHANGED <<table, cur, res, kept, stop, snap, won, faults>>

\* Ordinary exit reports are intercepted the same way while a node of the job
\* is preempting.
ExitIntercepted(r) ==
  /\ phase[r] \in {"completed", "failed"} /\ Matched(r) # {}
  /\ Settle(r, phase[r] = "completed")
  /\ ThreadEnds(r)
  /\ UNCHANGED <<cur, res, worker, snap, won, faults>>

\* A failed exit charged to every running stage of the job.
BugChargesTheJob(r) == {n \in Stage : JobOf[n] = RunnerJob[r] /\ st[n] = "running"}
ChargedTo(r) ==
  {n \in Stage : /\ JobOf[n] = RunnerJob[r] /\ st[n] = "running"
                 /\ own[n] # None /\ WorkerOf[own[n]] = WorkerOf[r]}

ExitReported(r) ==
  /\ phase[r] \in {"completed", "failed"} /\ Preempting(RunnerJob[r]) = {}
  /\ IF phase[r] = "failed" THEN FailOrRetry(ChargedTo(r)) ELSE UNCHANGED table
  /\ ThreadEnds(r)
  /\ UNCHANGED <<cur, res, worker, snap, won, faults>>

\* All attempts to report fail, because they are answered 409 or do not get
\* through.  The exception of a completion that could not be reported makes the
\* thread report a failure instead.
GivesUp(r) ==
  /\ IF phase[r] = "completed" THEN phase' = [phase EXCEPT ![r] = "failed"]
     ELSE phase[r] = "failed" /\ ThreadEnds(r)
  /\ UNCHANGED <<table, cur, res, worker, snap, won>>

ExitRefused(r) ==
  /\ Preempting(RunnerJob[r]) # {} /\ Matched(r) = {}
  /\ GivesUp(r) /\ UNCHANGED faults

ExitLost(r) == Fault("loss") /\ GivesUp(r)

\* check_runner_heartbeat_timeouts: only for running nodes.
Timeout(n) ==
  /\ st[n] = "running" /\ own[n] # None /\ phase[own[n]] \notin Alive
  /\ st' = [st EXCEPT ![n] = "ready"]
  /\ own' = [own EXCEPT ![n] = None]
  /\ UNCHANGED <<rc, pc, by, ec, runner, worker, snap, won, faults>>

-----------------------------------------------------------------------------
ProcessStep(r) ==
  \/ Start(r) \/ (\E n \in Stage : Claim(r, n)) \/ Leave(r) \/ StageEnds(r)
  \/ ReportPreempting(r) \/ ReportEcho(r) \/ ReportDone(r) \/ ReportFailed(r)
CleanupStep(r) == StopRunner(r) \/ Ack(r)
ThreadStep(r) == Look(r) \/ ExitIntercepted(r) \/ ExitReported(r) \/ ExitRefused(r)
EngineStep == \E q, v \in Stage : Preempt(q, v) \/ PreemptRead(q, v)
FaultStep(r) == RunnerCrash(r) \/ StopUnconfirmed(r) \/ AckAnswerLost(r) \/ ExitLost(r)

Next ==
  \/ \E j \in Job : Submit(j)
  \/ \E r \in Runner : ProcessStep(r) \/ PreemptPost(r) \/ PreemptPostLate(r)
                       \/ CleanupStep(r) \/ ThreadStep(r) \/ FaultStep(r)
  \/ EngineStep \/ PreemptWrite
  \/ \E n \in Stage : Timeout(n)

Spec == Init /\ [][Next]_vars

\* Processes, threads and the scheduler's loop each go on by themselves.
Fairness ==
  /\ \A r \in Runner : /\ WF_vars(ProcessStep(r)) /\ WF_vars(PreemptPost(r))
                       /\ WF_vars(CleanupStep(r)) /\ WF_vars(ThreadStep(r))
  /\ WF_vars(EngineStep) /\ WF_vars(PreemptWrite)
  /\ \A n \in Stage : WF_vars(Timeout(n))

FairSpec == Spec /\ Fairness

-----------------------------------------------------------------------------
\* A machine never runs more stages than it has slots, although the runner of
\* a preempted stage goes on for a while after the stage was chosen.
NoOverload ==
  \A w \in Worker :
    Cardinality({r \in Runner : WorkerOf[r] = w /\ phase[r] = "stage"}) <= Capacity[w]

\* The reservation of a preempting stage is given up only once the process of
\* its runner is over: neither a request accepted, nor a failed one, nor a
\* heartbeat timeout or the report of another runner is taken for it.
HeldUntilStopped ==
  [][\A n \in Stage : st[n] = "preempting" /\ st'[n] # "preempting"
       => own[n] # None /\ phase[own[n]] \notin Alive]_vars

\* A confirmed preemption counts once, however often it is asked for and
\* acknowledged, and leaves the retries alone.
CountedOnce ==
  [][\A n \in Stage : pc'[n] # pc[n] =>
       /\ pc'[n] = pc[n] + 1 /\ rc'[n] = rc[n]
       /\ st[n] = "preempting" /\ st'[n] = "ready"]_vars

\* Retries are spent only on stages that failed, or whose runner died, by
\* themselves: preemption costs none (Zero Penalty Guarantee).
PreemptionCostsNoRetry ==
  [][\A n \in Stage : rc'[n] > rc[n] =>
       \E r \in Runner : own[n] = r /\ phase[r] \notin {"stage", "ask"}]_vars

\* A stage is recorded done only if it ran to success.
DoneIsReal == \A n \in Stage : st[n] = "done" => n \in won

\* A stage of high priority that is ready gets a slot.
HighRuns == \A n \in Stage : Prio[n] = "high" /\ st[n] = "ready" ~> st[n] # "ready"

\* A preemption that was begun comes to an end.
PreemptionEnds == \A n \in Stage : st[n] = "preempting" ~> st[n] # "preempting"

\* Every stage that is submitted ends, done or failed: retries are exhausted some day.
StagesEnd == \A n \in Stage : st[n] = "ready" ~> st[n] \in {"done", "failed"}
=============================================================================
