---------------------------- MODULE JobLifecycle ----------------------------
(***************************************************************************)
(* The life of a job that is not split into stages (a classic job) and of  *)
(* a maintenance job: submission with its automatic cancellations, the     *)
(* scheduler's iteration (sweeps, watchdog, maintenance barrier,           *)
(* placement, preemption), the worker that polls, runs and reports, the    *)
(* four ways to cancel (stop button, new submission, ghost cleaning,       *)
(* negative exit code), and crashes and partitions of a worker.            *)
(*                                                                         *)
(* A cancellation is two steps as in cancel_job_cleanly: it reads the job  *)
(* and posts /cancel to its worker, and later writes failed whatever       *)
(* happened in between.  Every other handler is one step.  Resources are   *)
(* one slot per job (Placement has the rest), the queue is served in any   *)
(* order, a process and its container are one.                             *)
(*                                                                         *)
(* Bug... operators are planted mistakes; nothing uses them.               *)
(***************************************************************************)
EXTENDS Naturals, FiniteSets

CONSTANTS
  Job, Maintenance,   \* all jobs; the maintenance jobs among them
  BranchOf,           \* BranchOf[j]: repository and branch
  Draft,              \* jobs on a draft branch, all of one user
  Linked,             \* jobs submitted from a GitHub workflow
  Low,                \* low-priority jobs, which may be preempted
  Worker, Thread,     \* Thread: executor threads a worker may have at once
  Fits,               \* Fits[j]: workers with the hardware j asks for
  Slots,              \* classic jobs a worker may hold (resources)
  MaxConcurrent,      \* MAX_CONCURRENT_RUNNERS
  MaxSubmits,         \* submissions the headnode handles at the same time
  MaxRunners,         \* bound on the assignments of one job
  SlowSpawn,          \* TRUE: a thread registers and starts its process in two steps
  Timed,              \* jobs whose time limit may pass in this instance
  MaxStops,           \* bound on cancellations by the user
  FaultKinds, MaxFaults,
  None

Compute == Job \ Maintenance
Active == {"assigned", "running"}
Over == {"completed", "failed"}
Status == {"none", "pending"} \cup Active \cup Over

ASSUME JobLifecycleAssumption ==
  /\ Maintenance \subseteq Job /\ Draft \subseteq Compute
  /\ Timed \subseteq Job /\ Linked \subseteq Compute /\ Low \subseteq Compute
  /\ SlowSpawn \in BOOLEAN /\ Fits \in [Compute -> SUBSET Worker]
  /\ Slots \in Nat /\ MaxConcurrent \in Nat /\ MaxSubmits \in Nat
  /\ MaxRunners \in Nat /\ MaxStops \in Nat /\ MaxFaults \in Nat
  /\ FaultKinds \subseteq {"agent", "partition", "scheduler"}
  /\ None \notin Job \cup Worker \cup Thread

VARIABLES
  job,      \* the row of each job
  agent,    \* what a worker agent keeps outside its threads
  th,       \* the executor threads of each worker
  cleanup,  \* _async_job_cleanup threads: job to kill, and a thread's process
  doomed,   \* cancellations that have read a job and not written failed yet
  sched,    \* where the scheduler's iteration is
  submits,  \* submissions in progress
  expired,  \* jobs past their maximal run time
  linked,   \* jobs whose row names a live GitHub run (gh_run_id)
  gone,     \* jobs whose GitHub run is over
  ghosts,   \* jobs the ghost cleaner still has to look up
  stops, faults

github == <<linked, gone, ghosts>>
vars == <<job, agent, th, cleanup, doomed, sched, submits, expired, github, stops, faults>>

NoThread == [job |-> None, runner |-> 0, pc |-> "free", reg |-> FALSE,
             stop |-> "no", out |-> "none"]
NoRow == [st |-> "none", worker |-> None, runner |-> 0, preempting |-> FALSE,
          preempted |-> FALSE]

ThreadState ==
  [job: Job \cup {None}, runner: 0..MaxRunners,
   pc: {"free", "starting", "spawning", "running", "exited", "kept"},
   reg: BOOLEAN,                         \* in active_executors
   stop: {"no", "kill", "ack", "held"},  \* the preemption cleanup thread
   out: {"none", "ok", "bad", "killed", "error", "routed"}]

TypeOK ==
  /\ job \in [Job -> [st: Status, worker: Worker \cup {None}, runner: 0..MaxRunners,
                      preempting: BOOLEAN, preempted: BOOLEAN]]
  /\ agent \in [Worker -> [up: BOOLEAN, cut: BOOLEAN, online: BOOLEAN, fresh: BOOLEAN,
                           current: Job \cup {None}, proc: Thread \cup {None}]]
  /\ th \in [Worker -> [Thread -> ThreadState]]
  /\ cleanup \subseteq [worker: Worker, job: Job, proc: Thread \cup {None}]
  /\ doomed \subseteq [job: Job, by: {"api", "scheduler"}]
  /\ sched.pc \in {"idle", "placing", "cancelling", "maintaining"}
  /\ sched.queue \subseteq Job /\ sched.workers \subseteq Worker
  /\ submits \subseteq [job: Job, todo: SUBSET Job, wait: SUBSET Job]
  /\ expired \subseteq Job /\ linked \subseteq Job /\ gone \subseteq Job
  /\ ghosts \subseteq Job
  /\ stops \in 0..MaxStops /\ faults \in 0..MaxFaults

Idle == [pc |-> "idle", queue |-> {}, workers |-> {}]

Init ==
  /\ job = [j \in Job |-> NoRow]
  /\ agent = [w \in Worker |-> [up |-> TRUE, cut |-> FALSE, online |-> TRUE, fresh |-> FALSE,
                                current |-> None, proc |-> None]]
  /\ th = [w \in Worker |-> [t \in Thread |-> NoThread]]
  /\ cleanup = {} /\ doomed = {} /\ sched = Idle /\ submits = {}
  /\ expired = {} /\ linked = {} /\ gone = {} /\ ghosts = {}
  /\ stops = 0 /\ faults = 0

Fault(kind) == kind \in FaultKinds /\ faults < MaxFaults /\ faults' = faults + 1
Reaches(w) == agent[w].up /\ ~agent[w].cut

\* Jobs with a live process on w.
Live(w) == {th[w][t].job : t \in {u \in Thread : th[w][u].pc = "running"}}
Registered(w) == {t \in Thread : th[w][t].reg}

-----------------------------------------------------------------------------
(* Cancelling.                                                             *)

\* cancel_job of the worker: which threads lose their registration, and
\* which processes the cleanup thread will kill.
Named(w, j) == {t \in Registered(w) : th[w][t].job = j}
ToKill(w, j) ==
  IF Named(w, j) # {}
  THEN {[worker |-> w, job |-> j, proc |-> t] : t \in Named(w, j)}
  ELSE IF agent[w].current = j
  THEN {[worker |-> w, job |-> j, proc |-> agent[w].proc]}
  ELSE IF j \in Live(w) THEN {[worker |-> w, job |-> j, proc |-> None]} ELSE {}

\* The first of the remaining executors becomes the current one.
Refocus(w, rest) ==
  IF rest = {} THEN [agent[w] EXCEPT !.current = None, !.proc = None]
  ELSE LET t == CHOOSE u \in rest : TRUE
       IN [agent[w] EXCEPT !.current = th[w][t].job,
                           !.proc = IF th[w][t].pc = "spawning" THEN None ELSE t]

Cancellable(j) == job[j].st \in {"pending"} \cup Active
Posts(j) == job[j].st \in Active /\ job[j].worker # None /\ Reaches(job[j].worker)

\* The threads T, and the agent, after the worker of j answered /cancel.
Unregister(T, j) ==
  [w \in Worker |-> [t \in Thread |->
     IF Posts(j) /\ w = job[j].worker /\ t \in Named(w, j)
     THEN [T[w][t] EXCEPT !.reg = FALSE] ELSE T[w][t]]]
AgentAfter(j) ==
  IF ~Posts(j) THEN agent
  ELSE LET w == job[j].worker
       IN [agent EXCEPT ![w] = Refocus(w, Registered(w) \ Named(w, j))]

\* cancel_job_cleanly up to its HTTP call; the caller adds the threads.
Doom(j, by) == [job |-> j, by |-> by]
Doomed(j) == \E d \in doomed : d.job = j

BeginCancel(j, by) ==
  /\ Cancellable(j)
  /\ doomed' = doomed \cup {Doom(j, by)}
  /\ cleanup' = cleanup \cup (IF Posts(j) THEN ToKill(job[j].worker, j) ELSE {})
  /\ agent' = AgentAfter(j)

FailedRow(j) == [job[j] EXCEPT !.st = "failed"]

FinishCancel(d) ==
  /\ d \in doomed
  /\ job' = [job EXCEPT ![d.job] = FailedRow(d.job)]
  /\ doomed' = doomed \ {d}
  /\ UNCHANGED <<agent, th, cleanup, sched, submits, expired, github, stops, faults>>

\* The stop button or POST /api/jobs/<id>/stop.
StopJob(j) ==
  /\ stops < MaxStops /\ stops' = stops + 1
  /\ ~Doomed(j) /\ BeginCancel(j, "api") /\ th' = Unregister(th, j)
  /\ UNCHANGED <<job, sched, submits, expired, github, faults>>

-----------------------------------------------------------------------------
(* Submission.                                                             *)

\* The active jobs a submission replaces.
Replaced(j) ==
  IF j \in Maintenance THEN {}
  ELSE IF j \in Draft THEN {k \in Draft : Cancellable(k)}
  ELSE {k \in Compute : BranchOf[k] = BranchOf[j] /\ job[k].st = "pending"}

Submit(j) ==
  /\ job[j].st = "none" /\ Cardinality(submits) < MaxSubmits
  /\ ~ \E s \in submits : s.job = j
  /\ submits' = submits \cup {[job |-> j, todo |-> Replaced(j), wait |-> {}]}
  /\ UNCHANGED <<job, agent, th, cleanup, doomed, sched, expired, github, stops, faults>>

Waits(s) == \E k \in s.wait : Doom(k, "api") \in doomed

\* One cancel_job_cleanly after the other; a job that is over is skipped.
SubmitCancels(s) ==
  /\ ~Waits(s)
  /\ \E k \in s.todo :
       /\ submits' = (submits \ {s}) \cup {[s EXCEPT !.todo = @ \ {k}, !.wait = {k}]}
       /\ IF Cancellable(k) THEN BeginCancel(k, "api") /\ th' = Unregister(th, k)
          ELSE UNCHANGED <<doomed, cleanup, th, agent>>
  /\ UNCHANGED <<job, sched, expired, github, stops, faults>>

SubmitInserts(s) ==
  /\ s.todo = {} /\ ~Waits(s)
  /\ submits' = submits \ {s}
  /\ job' = [job EXCEPT ![s.job] = [NoRow EXCEPT !.st = "pending"]]
  /\ linked' = linked \cup ({s.job} \cap Linked)
  /\ UNCHANGED <<agent, th, cleanup, doomed, sched, expired, gone, ghosts, stops, faults>>

-----------------------------------------------------------------------------
(* GitHub workflows and the ghost cleaner.                                 *)

\* A newer workflow replaces the one that watches j: its client detaches
\* (update_job_status with detach_gha) before its run ends.
Detach(j) ==
  /\ j \in linked \ (gone \cup Draft)
  /\ linked' = linked \ {j}
  /\ UNCHANGED <<job, agent, th, cleanup, doomed, sched, submits, expired, gone, ghosts, stops, faults>>

\* The GitHub run of j ends, watched or not.
RunEnds(j) ==
  /\ j \in Linked /\ job[j].st # "none" /\ j \notin gone
  /\ gone' = gone \cup {j}
  /\ UNCHANGED <<job, agent, th, cleanup, doomed, sched, submits, expired, linked, ghosts, stops, faults>>

\* clean_ghosts reads its candidates once, then asks GitHub for each.
Candidates == {j \in linked : Cancellable(j)}

GhostRead ==
  /\ ghosts = {} /\ ghosts' = Candidates
  /\ UNCHANGED <<job, agent, th, cleanup, doomed, sched, submits, expired, linked, gone, stops, faults>>

GhostCheck(j) ==
  /\ j \in ghosts /\ ghosts' = ghosts \ {j}
  /\ IF j \in gone /\ Cancellable(j) THEN BeginCancel(j, "api") /\ th' = Unregister(th, j)
     ELSE UNCHANGED <<doomed, cleanup, th, agent>>
  /\ UNCHANGED <<job, sched, submits, expired, linked, gone, stops, faults>>

-----------------------------------------------------------------------------
(* The scheduler's iteration.                                              *)

SchedulerKeeps == UNCHANGED <<th, cleanup, submits, expired, github, stops>>

\* A worker silent for 120 s.
MarkOffline(w) ==
  /\ sched.pc = "idle" /\ ~Reaches(w) /\ agent[w].online
  /\ agent' = [agent EXCEPT ![w].online = FALSE]
  /\ UNCHANGED <<job, doomed, sched, faults>> /\ SchedulerKeeps

\* The orphan sweep: active jobs of offline workers fail.
Swept ==
  [j \in Job |-> IF job[j].st \in Active /\ job[j].worker # None /\ ~agent[job[j].worker].online
                 THEN FailedRow(j) ELSE job[j]]

Iterate ==
  /\ sched.pc = "idle" /\ job' = Swept
  /\ LET waiting == {j \in Job : Swept[j].st = "pending"} IN
     IF \/ \E m \in Maintenance : Swept[m].st = "running"
        \/ waiting = {} /\ \A j \in Job : ~job[j].preempting
     THEN sched' = Idle
     ELSE \E W \in SUBSET {w \in Worker : agent[w].online} :
            /\ \A w \in Worker : agent[w].online /\ Reaches(w) => w \in W
            /\ sched' = [pc |-> "placing", queue |-> waiting, workers |-> W]
  /\ UNCHANGED <<agent, doomed, faults>> /\ SchedulerKeeps

\* Time passes: an active job reaches its limit and the watchdog cancels it.
Expire(j) ==
  /\ job[j].st \in Active /\ j \in Timed \ expired
  /\ expired' = expired \cup {j}
  /\ UNCHANGED <<job, agent, th, cleanup, doomed, sched, submits, github, stops, faults>>

BugLate == {j \in Compute \cap expired : job[j].st \in Active}
Late == {j \in expired : job[j].st \in Active}

Watchdog(j) ==
  /\ sched.pc = "idle" /\ j \in Late
  /\ BeginCancel(j, "scheduler") /\ th' = Unregister(th, j)
  /\ sched' = [Idle EXCEPT !.pc = "cancelling", !.queue = {j}]
  /\ UNCHANGED <<job, submits, expired, github, stops, faults>>

WatchdogDone ==
  /\ sched.pc = "cancelling" /\ \A d \in doomed : d.by # "scheduler"
  /\ sched' = Idle
  /\ UNCHANGED <<job, agent, doomed, faults>> /\ SchedulerKeeps

ActiveCompute == {j \in Compute : job[j].st \in Active}

\* The maintenance barrier: a maintenance job at the head of the queue waits
\* for every compute job, and nothing else is scheduled meanwhile.
BugBarrier(m) == \E j \in Compute : job[j].st = "running"
BarrierClosed(m) == ActiveCompute # {}

Barrier(m) ==
  /\ sched.pc = "placing" /\ m \in sched.queue \cap Maintenance
  /\ IF BarrierClosed(m) THEN sched' = Idle /\ UNCHANGED job
     ELSE /\ job' = [job EXCEPT ![m].st = "running"]
          /\ sched' = [Idle EXCEPT !.pc = "maintaining", !.queue = {m}]
  /\ UNCHANGED <<agent, doomed, faults>> /\ SchedulerKeeps

MaintenanceEnds(m, s) ==
  /\ sched.pc = "maintaining" /\ m \in sched.queue
  /\ job' = [job EXCEPT ![m].st = s]
  /\ sched' = Idle
  /\ UNCHANGED <<agent, doomed, faults>> /\ SchedulerKeeps

SchedulerCrash ==
  /\ sched # Idle /\ Fault("scheduler") /\ sched' = Idle
  /\ doomed' = {d \in doomed : d.by # "scheduler"}
  /\ UNCHANGED <<job, agent>> /\ SchedulerKeeps

Held(w) == {j \in Compute : job[j].st \in Active /\ job[j].worker = w}
BugBranchFree(j) == \A k \in Compute \ {j} : BranchOf[k] = BranchOf[j] => job[k].st # "running"
BranchFree(j) == \A k \in Compute \ {j} : BranchOf[k] = BranchOf[j] => job[k].st \notin Active
Admits(w) == Cardinality(Held(w)) < Slots
Hosts(j) == IF BranchFree(j) /\ job[j].runner < MaxRunners
            THEN {w \in sched.workers \cap Fits[j] : Admits(w)} ELSE {}

\* Every compute job of the snapshot is considered once; the assignment is
\* conditional on the row being pending still, and names a new runner.
BugAssigned(j, w) == [job[j] EXCEPT !.st = "assigned", !.worker = w, !.runner = @ + 1]
Assigned(j, w) ==
  IF job[j].st = "pending"
  THEN [job[j] EXCEPT !.st = "assigned", !.worker = w, !.runner = @ + 1]
  ELSE job[j]

Consider(j) ==
  /\ sched.pc = "placing" /\ sched.queue \cap Maintenance = {} /\ j \in sched.queue
  /\ sched.workers # {}
  /\ sched' = [sched EXCEPT !.queue = @ \ {j}]
  /\ IF Hosts(j) = {} THEN UNCHANGED job
     ELSE \E w \in Hosts(j) : job' = [job EXCEPT ![j] = Assigned(j, w)]
  /\ UNCHANGED <<agent, doomed, faults>> /\ SchedulerKeeps

EndIteration ==
  /\ sched.pc = "placing" /\ (sched.queue = {} \/ sched.workers = {}) /\ sched' = Idle
  /\ UNCHANGED <<job, agent, doomed, faults>> /\ SchedulerKeeps

\* A low job is marked for preemption when a job of the queue that is not
\* low finds no machine and the victim's machine would do.
MarkPreempting(j) ==
  /\ sched.pc = "placing" /\ sched.queue \cap Maintenance = {}
  /\ \E k \in sched.queue \ Low : /\ ~ \E w \in sched.workers \cap Fits[k] : Admits(w)
                                /\ job[j].worker \in Fits[k]
                                /\ \A i \in Compute \ {j, k} :
                                     BranchOf[i] = BranchOf[k] => job[i].st \notin Active
  /\ j \in Low /\ job[j].st = "running" /\ ~job[j].preempting /\ ~job[j].preempted
  /\ job[j].worker \in sched.workers
  /\ job' = [job EXCEPT ![j].preempting = TRUE]
  /\ UNCHANGED <<agent, doomed, sched, faults>> /\ SchedulerKeeps

\* preempt_runner of the worker: a registered executor of that runner gets a
\* cleanup thread; an unknown runner is answered 404.
PostPreempt(j) ==
  /\ sched.pc = "placing" /\ sched.workers # {}
  /\ job[j].preempting /\ job[j].st = "running"
  /\ LET w == job[j].worker IN
     /\ w # None /\ Reaches(w)
     /\ \E t \in Registered(w) :
          /\ th[w][t].job = j /\ th[w][t].runner = job[j].runner
          /\ th[w][t].stop \in {"no", "held"}
          /\ th' = [th EXCEPT ![w][t].stop = "kill"]
  /\ UNCHANGED <<job, agent, cleanup, doomed, sched, submits, expired, github, stops, faults>>

-----------------------------------------------------------------------------
(* update_job_status, for a job without stages.  r = 0: no runner named.   *)

\* The guards are tried in this order.
Answer(j, w, r, kind) ==
  LET row == job[j] IN
  IF row.st \in Over \/ (row.st = "pending" /\ row.preempted) THEN "ignored"
  ELSE IF row.preempting
  THEN IF r # row.runner \/ w # row.worker THEN "conflict"
       ELSE IF kind = "ok" THEN "accepted"
       ELSE IF kind = "preempted" THEN "requeued" ELSE "ignored"
  ELSE IF kind = "preempted" THEN "ignored"
  ELSE IF r # 0 /\ row.runner # 0 /\ r # row.runner THEN "conflict"
  ELSE IF kind \in {"killed", "error"} /\ row.st \in Active THEN "cancel" ELSE "accepted"

Accepted(j, kind) ==
  [job[j] EXCEPT !.st = CASE kind = "running" -> "running" [] kind = "ok" -> "completed"
                          [] OTHER -> "failed",
                 !.preempting = IF kind = "ok" THEN FALSE ELSE @]
Requeued(j) ==
  [job[j] EXCEPT !.st = "pending", !.worker = None, !.preempting = FALSE, !.preempted = TRUE]

-----------------------------------------------------------------------------
(* The worker agent.                                                       *)

WorkerKeeps == UNCHANGED <<sched, submits, expired, github, stops>>

\* The first heartbeat after a start resets the jobs of the worker.
StartupReset(w) ==
  [j \in Job |-> IF job[j].worker # w THEN job[j]
     ELSE IF job[j].st = "running" THEN FailedRow(j)
     ELSE IF job[j].st = "assigned" THEN [job[j] EXCEPT !.st = "pending", !.worker = None]
     ELSE job[j]]

Heartbeat(w) ==
  /\ Reaches(w) /\ (agent[w].fresh \/ ~agent[w].online)
  /\ job' = IF agent[w].fresh THEN StartupReset(w) ELSE job
  /\ agent' = [agent EXCEPT ![w].online = TRUE, ![w].fresh = FALSE]
  /\ UNCHANGED <<th, cleanup, doomed, faults>> /\ WorkerKeeps

\* active_jobs of poll_for_job.
ActiveJobs(w) == {th[w][t].job : t \in Registered(w)} \cup {agent[w].current}
Pollable(w) == {j \in Compute : /\ job[j].worker = w /\ job[j].st \in Active
                                /\ ~job[j].preempting /\ j \notin ActiveJobs(w)}
FreeThreads(w) == {t \in Thread : /\ th[w][t].pc = "free"
                                  /\ \A c \in cleanup : c.worker = w => c.proc # t}

\* main_loop polls when fewer than MaxConcurrent executors are registered and
\* starts a thread, which registers itself only later.
Poll(w) ==
  /\ Reaches(w) /\ ~agent[w].fresh
  /\ Cardinality(Registered(w)) < MaxConcurrent /\ FreeThreads(w) # {}
  /\ \E j \in Pollable(w) :
       LET t == CHOOSE u \in FreeThreads(w) : TRUE IN
       /\ th' = [th EXCEPT ![w][t] = [NoThread EXCEPT !.job = j, !.runner = job[j].runner,
                                                     !.pc = "starting"]]
       /\ agent' = [agent EXCEPT ![w].current = j]
  /\ UNCHANGED <<job, cleanup, doomed, faults>> /\ WorkerKeeps

Killed(u) == [u EXCEPT !.pc = "exited", !.out = "killed"]

\* purge_orphan_runners_and_containers: everything on w that belongs neither
\* to this job nor to a registered executor's job.
Protected(w, j) == {j} \cup {th[w][u].job : u \in Registered(w)}
Purged(w, j) ==
  [u \in Thread |-> IF th[w][u].pc = "running" /\ th[w][u].job \notin Protected(w, j)
                    THEN Killed(th[w][u]) ELSE th[w][u]]

\* The thread purges, reports running, and registers when the report was
\* answered; a conflict or an unreachable headnode ends it before that, and
\* the agent goes on naming its job as the current one.
MayStart(a) == a # "conflict"

StartThread(w, t) ==
  LET j == th[w][t].job
      a == Answer(j, w, th[w][t].runner, "running")
      registered == [th[w][t] EXCEPT !.pc = IF SlowSpawn THEN "spawning" ELSE "running",
                                     !.reg = TRUE] IN
  /\ agent[w].up /\ th[w][t].pc = "starting"
  /\ \/ /\ Reaches(w) /\ MayStart(a)
        /\ job' = IF a = "accepted" THEN [job EXCEPT ![j] = Accepted(j, "running")] ELSE job
        /\ th' = [th EXCEPT ![w] = [Purged(w, j) EXCEPT ![t] = registered]]
        /\ agent' = [agent EXCEPT ![w].current = j,
                                  ![w].proc = IF SlowSpawn THEN @ ELSE t]
     \/ /\ agent[w].cut \/ ~MayStart(a)
        /\ th' = [th EXCEPT ![w] = [Purged(w, j) EXCEPT ![t] = NoThread]]
        /\ UNCHANGED <<job, agent>>
  /\ UNCHANGED <<cleanup, doomed, faults>> /\ WorkerKeeps

\* Popen; the process becomes the current one even when a cancellation has
\* taken the registration away meanwhile.
Spawn(w, t) ==
  /\ agent[w].up /\ th[w][t].pc = "spawning"
  /\ th' = [th EXCEPT ![w][t].pc = "running"]
  /\ agent' = [agent EXCEPT ![w].proc = t]
  /\ UNCHANGED <<job, cleanup, doomed, faults>> /\ WorkerKeeps

\* The program ends by itself, or the thread kills it at its time limit.
Exit(w, t, o) ==
  /\ agent[w].up /\ th[w][t].pc = "running"
  /\ th' = [th EXCEPT ![w][t].pc = "exited", ![w][t].out = o]
  /\ UNCHANGED <<job, agent, cleanup, doomed, faults>> /\ WorkerKeeps

\* Every 10 s the thread asks for the job's status and destroys the process
\* of a job that is neither active nor completed.
BugCondemned(j) == job[j].st = "none"
Condemned(j) == job[j].st \notin Active \cup {"completed"}

SelfHeal(w, t) ==
  /\ Reaches(w) /\ th[w][t].pc = "running" /\ Condemned(th[w][t].job)
  /\ th' = [th EXCEPT ![w][t] = Killed(th[w][t])]
  /\ UNCHANGED <<job, agent, cleanup, doomed, faults>> /\ WorkerKeeps

\* _async_job_cleanup: kills the process it was given and the containers of
\* its job, then reports a failure without naming a runner.
Struck(c) ==
  [u \in Thread |-> IF /\ th[c.worker][u].pc = "running"
                       /\ (u = c.proc \/ th[c.worker][u].job = c.job)
                    THEN Killed(th[c.worker][u]) ELSE th[c.worker][u]]

Cleanup(c) ==
  LET a == IF agent[c.worker].cut THEN "lost" ELSE Answer(c.job, c.worker, 0, "killed")
      struck == [th EXCEPT ![c.worker] = Struck(c)] IN
  /\ agent[c.worker].up
  /\ IF a = "cancel"
     THEN /\ doomed' = doomed \cup {Doom(c.job, "api")} /\ agent' = AgentAfter(c.job)
          /\ th' = Unregister(struck, c.job)
          /\ cleanup' = (cleanup \ {c})
                         \cup (IF Posts(c.job) THEN ToKill(job[c.job].worker, c.job) ELSE {})
     ELSE th' = struck /\ cleanup' = cleanup \ {c} /\ UNCHANGED <<doomed, agent>>
  /\ job' = IF a = "accepted" THEN [job EXCEPT ![c.job] = Accepted(c.job, "killed")] ELSE job
  /\ UNCHANGED faults /\ WorkerKeeps

-----------------------------------------------------------------------------
(* The end of an executor thread.                                          *)

\* The finally block: registrations go by runner id, containers by job.
LetGo(w, t) ==
  [u \in Thread |->
     IF u = t THEN NoThread
     ELSE IF th[w][u].job # th[w][t].job THEN th[w][u]
     ELSE [(IF th[w][u].pc = "running" THEN Killed(th[w][u]) ELSE th[w][u])
             EXCEPT !.reg = @ /\ (th[w][u].stop # "no" \/ th[w][u].runner # th[w][t].runner)]]
Rest(w, t) == {u \in Thread : LetGo(w, t)[u].reg}

EndThread(w, t) ==
  /\ th' = [th EXCEPT ![w] = LetGo(w, t)]
  /\ agent' = [agent EXCEPT ![w] = Refocus(w, Rest(w, t))]

\* The exit report; a conflict or no answer makes the thread report an error
\* instead (exit code -1), and after that it gives up.
ReportExit(w, t) ==
  LET u == th[w][t]
      a == IF agent[w].cut \/ u.out = "routed" THEN "lost"
           ELSE Answer(u.job, w, u.runner, u.out) IN
  /\ agent[w].up /\ u.pc = "exited" /\ u.stop = "no"
  /\ \/ /\ a = "accepted" /\ job' = [job EXCEPT ![u.job] = Accepted(u.job, u.out)]
        /\ EndThread(w, t) /\ UNCHANGED <<cleanup, doomed>>
     \/ /\ a = "cancel" /\ BeginCancel(u.job, "api")
        /\ th' = [Unregister(th, u.job) EXCEPT ![w][t].out = "routed"]
        /\ UNCHANGED job
     \/ /\ a = "ignored" \/ (a \in {"conflict", "lost"} /\ u.out \in {"error", "routed"})
        /\ EndThread(w, t) /\ UNCHANGED <<job, cleanup, doomed>>
     \/ /\ a \in {"conflict", "lost"} /\ u.out \notin {"error", "routed"}
        /\ th' = [th EXCEPT ![w][t].out = "error"]
        /\ UNCHANGED <<job, agent, cleanup, doomed>>
  /\ UNCHANGED faults /\ WorkerKeeps

\* A preempted executor ends without a report; its entry is kept.
KeepEntry(w, t) ==
  /\ agent[w].up /\ th[w][t].pc = "exited" /\ th[w][t].stop # "no"
  /\ th' = [th EXCEPT ![w][t].pc = "kept"]
  /\ UNCHANGED <<job, agent, cleanup, doomed, faults>> /\ WorkerKeeps

\* main_loop drops executors whose process is over.
DropEnded(w, t) ==
  /\ agent[w].up /\ th[w][t].pc = "exited" /\ th[w][t].reg /\ th[w][t].stop = "no"
  /\ th' = [th EXCEPT ![w][t].reg = FALSE]
  /\ UNCHANGED <<job, agent, cleanup, doomed, faults>> /\ WorkerKeeps

\* The preemption cleanup: stop the process, then acknowledge.
BugStopped(w, t) == th[w]
Stopped(w, t) ==
  [u \in Thread |-> IF /\ th[w][u].pc = "running" /\ th[w][u].job = th[w][t].job
                       /\ th[w][u].runner = th[w][t].runner
                    THEN Killed(th[w][u]) ELSE th[w][u]]

StopKill(w, t) ==
  /\ agent[w].up /\ th[w][t].stop = "kill"
  /\ th' = [th EXCEPT ![w] = [Stopped(w, t) EXCEPT ![t].stop = "ack"]]
  /\ UNCHANGED <<job, agent, cleanup, doomed, faults>> /\ WorkerKeeps

StopAck(w, t) ==
  LET u == th[w][t]
      a == IF agent[w].cut THEN "conflict" ELSE Answer(u.job, w, u.runner, "preempted")
      rest == Registered(w) \ {t} IN
  /\ agent[w].up /\ u.stop = "ack"
  /\ IF a = "conflict"
     THEN /\ th' = [th EXCEPT ![w][t].stop = "held"]
          /\ UNCHANGED <<job, agent>>
     ELSE /\ job' = IF a = "requeued" THEN [job EXCEPT ![u.job] = Requeued(u.job)] ELSE job
          /\ th' = [th EXCEPT ![w][t] = IF u.pc = "kept" THEN NoThread
                                        ELSE [u EXCEPT !.stop = "no", !.reg = FALSE]]
          /\ agent' = [agent EXCEPT ![w] = Refocus(w, rest)]
  /\ UNCHANGED <<cleanup, doomed, faults>> /\ WorkerKeeps

-----------------------------------------------------------------------------
(* Faults.                                                                 *)

\* The agent dies; its processes live on until a restart purges them.
AgentCrash(w) ==
  /\ agent[w].up /\ Fault("agent")
  /\ th' = [th EXCEPT ![w] = [t \in Thread |-> IF th[w][t].pc = "running"
               THEN [th[w][t] EXCEPT !.reg = FALSE, !.stop = "no"] ELSE NoThread]]
  /\ cleanup' = {c \in cleanup : c.worker # w}
  /\ agent' = [agent EXCEPT ![w].up = FALSE, ![w].current = None, ![w].proc = None]
  /\ UNCHANGED <<job, doomed>> /\ WorkerKeeps

\* SIGTERM: every executor is destroyed and reported failed first.
AgentStops(w) ==
  /\ Reaches(w) /\ Fault("agent")
  /\ th' = [th EXCEPT ![w] = [t \in Thread |-> NoThread]]
  /\ cleanup' = {c \in cleanup : c.worker # w}
  /\ agent' = [agent EXCEPT ![w].up = FALSE, ![w].current = None, ![w].proc = None]
  /\ doomed' = doomed \cup {Doom(j, "api") : j \in {i \in ActiveJobs(w) \ {None} :
                                                   Answer(i, w, 0, "killed") = "cancel"}}
  /\ UNCHANGED job /\ WorkerKeeps

AgentRestart(w) ==
  /\ ~agent[w].up
  /\ th' = [th EXCEPT ![w] = [t \in Thread |-> NoThread]]
  /\ agent' = [agent EXCEPT ![w].up = TRUE, ![w].fresh = TRUE]
  /\ UNCHANGED <<job, cleanup, doomed, faults>> /\ WorkerKeeps

Partition(w) ==
  /\ ~agent[w].cut /\ Fault("partition")
  /\ agent' = [agent EXCEPT ![w].cut = TRUE]
  /\ UNCHANGED <<job, th, cleanup, doomed>> /\ WorkerKeeps

Heal(w) ==
  /\ agent[w].cut /\ agent' = [agent EXCEPT ![w].cut = FALSE]
  /\ UNCHANGED <<job, th, cleanup, doomed, faults>> /\ WorkerKeeps

-----------------------------------------------------------------------------
Headnode ==
  \/ \E j \in Job : Submit(j) \/ StopJob(j) \/ GhostCheck(j)
  \/ \E s \in submits : SubmitCancels(s) \/ SubmitInserts(s)
  \/ \E d \in doomed : FinishCancel(d)
  \/ GhostRead

GitHub == \E j \in Job : Detach(j) \/ RunEnds(j)

SchedulerStep ==
  \/ Iterate \/ EndIteration \/ WatchdogDone
  \/ \E j \in Job : Consider(j) \/ Watchdog(j) \/ MarkPreempting(j) \/ PostPreempt(j)
  \/ \E m \in Maintenance : Barrier(m) \/ \E s \in Over : MaintenanceEnds(m, s)
  \/ \E w \in Worker : MarkOffline(w)

ThreadStep(w, t) ==
  \/ StartThread(w, t) \/ Spawn(w, t) \/ SelfHeal(w, t) \/ ReportExit(w, t)
  \/ KeepEntry(w, t) \/ DropEnded(w, t) \/ StopKill(w, t) \/ StopAck(w, t)
  \/ \E o \in {"ok", "bad"} : Exit(w, t, o)

AgentStep(w) ==
  \/ Heartbeat(w) \/ Poll(w) \/ AgentRestart(w) \/ Heal(w)
  \/ \E t \in Thread : ThreadStep(w, t)

Next ==
  \/ Headnode \/ GitHub \/ SchedulerStep
  \/ \E w \in Worker : AgentStep(w)
  \/ \E c \in cleanup : Cleanup(c)
  \/ \E j \in Job : Expire(j)
  \/ SchedulerCrash
  \/ \E w \in Worker : AgentCrash(w) \/ AgentStops(w) \/ Partition(w)

Spec == Init /\ [][Next]_vars

\* Handlers answer, loops go on, threads run to their end, time passes,
\* systemd restarts an agent and networks heal.  Nobody has to submit, stop
\* or detach anything, and a job's program need not end by itself.
Fairness ==
  /\ \A d \in [job: Job, by: {"api", "scheduler"}] : WF_vars(FinishCancel(d))
  /\ \A j \in Job : WF_vars(Expire(j))
  /\ WF_vars(\E s \in submits : SubmitCancels(s) \/ SubmitInserts(s))
  /\ WF_vars(Iterate) /\ WF_vars(EndIteration) /\ WF_vars(WatchdogDone)
  /\ \A j \in Job : WF_vars(Consider(j)) /\ SF_vars(Watchdog(j)) /\ SF_vars(PostPreempt(j))
  /\ \A m \in Maintenance :
       WF_vars(Barrier(m)) /\ WF_vars(\E s \in Over : MaintenanceEnds(m, s))
  /\ \A w \in Worker :
       /\ WF_vars(Heartbeat(w)) /\ WF_vars(Poll(w)) /\ WF_vars(AgentRestart(w)) /\ WF_vars(Heal(w))
       /\ \A t \in Thread :
            /\ WF_vars(StartThread(w, t)) /\ WF_vars(Spawn(w, t)) /\ WF_vars(SelfHeal(w, t))
            /\ WF_vars(ReportExit(w, t)) /\ WF_vars(KeepEntry(w, t))
            /\ WF_vars(StopKill(w, t)) /\ WF_vars(StopAck(w, t))
  /\ WF_vars(\E c \in cleanup : Cleanup(c))

LiveSpec == Spec /\ Fairness

-----------------------------------------------------------------------------
(* Properties.                                                             *)

\* A job never has live processes on two machines, although preemption and
\* restarts of agents put jobs back into the queue and cancellations, dying
\* processes and late reports cross those moves.
SingleWorker ==
  \A j \in Job, w, x \in Worker : j \in Live(w) /\ j \in Live(x) => w = x

\* Two jobs of one branch are never assigned or running together
\* (the COUNT of schedule_iteration), through requeues and late reports.
BranchExclusive ==
  \A j, k \in ActiveCompute : BranchOf[j] = BranchOf[k] => j = k

\* While the cluster is being updated no compute job is assigned or running:
\* none slips in between the count of the barrier and the end of the update.
MaintenanceAlone == sched.pc = "maintaining" => ActiveCompute = {}

\* "One active draft run per user at a time" (the comment of submit_job): two
\* submissions that read the table before either inserts its row break it.
OneDraft == Cardinality({j \in Draft : Cancellable(j)}) <= 1

\* A failed compute job stays failed, whatever reports, requeues and resets
\* arrive late; a completed one is lost only to a cancellation that read the
\* job before it completed.
OutcomeIsFinal ==
  [][\A j \in Compute :
       /\ job[j].st = "failed" => job'[j].st = "failed"
       /\ job[j].st = "completed" =>
            job'[j].st = "completed" \/ (job'[j].st = "failed" /\ Doomed(j))]_vars

\* The process of a failed job does not survive it, even when the request
\* to cancel it was lost or found nothing: self-healing destroys it.
FailedJobsStop ==
  \A j \in Compute, w \in Worker :
    (job[j].st = "failed" /\ j \in Live(w)) ~> (j \notin Live(w) \/ job[j].st # "failed")

\* A submitted job ends, and a maintenance job that a crash of the scheduler
\* left running does not close the queue for ever: the watchdog ends it.
EveryJobEnds == \A j \in Job : job[j].st = "pending" ~> job[j].st \in Over
=============================================================================
