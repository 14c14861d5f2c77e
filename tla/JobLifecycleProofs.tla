------------------------- MODULE JobLifecycleProofs -------------------------
(***************************************************************************)
(* Proofs about JobLifecycle, for every set of jobs, branches, workers and *)
(* threads and every number of submissions, assignments, stops and faults. *)
(*                                                                         *)
(* The invariant ties each executor thread to the row of its job: a thread *)
(* never runs ahead of the row (runner), and one that runs for the row's   *)
(* own runner is on the row's machine.  That is what keeps a late report   *)
(* "running" from reviving a job that went back to the queue, so that the  *)
(* conditional assignment is the only step that makes a compute job active.*)
(***************************************************************************)
EXTENDS JobLifecycle, TLAPS

Row == [st: Status, worker: Worker \cup {None}, runner: 0..MaxRunners,
        preempting: BOOLEAN, preempted: BOOLEAN]
AgentState == [up: BOOLEAN, cut: BOOLEAN, online: BOOLEAN, fresh: BOOLEAN,
               current: Job \cup {None}, proc: Thread \cup {None}]
\* Only a thread that has registered can be stopped; it does not run on after
\* the stop, unless its process starts later than its registration.
Busy(u) == u.pc # "free"
Executor == {u \in ThreadState : /\ u.pc \in {"free", "starting"} => ~u.reg /\ u.stop = "no"
                                 /\ u.pc = "spawning" => SlowSpawn
                                 /\ u.pc = "running" /\ u.stop = "ack" => SlowSpawn}
Kill == [worker: Worker, job: Job, proc: Thread \cup {None}]
Cancellation == [job: Job, by: {"api", "scheduler"}]
Submission == [job: Job, todo: SUBSET Job, wait: SUBSET Job]
SchedState == [pc: {"idle", "placing", "cancelling", "maintaining"},
               queue: SUBSET Job, workers: SUBSET Worker]

Types ==
  /\ job \in [Job -> Row] /\ agent \in [Worker -> AgentState]
  /\ th \in [Worker -> [Thread -> Executor]]
  /\ cleanup \subseteq Kill /\ doomed \subseteq Cancellation
  /\ sched \in SchedState /\ submits \subseteq Submission
  /\ expired \subseteq Job /\ linked \subseteq Job /\ gone \subseteq Job /\ ghosts \subseteq Job
  /\ stops \in 0..MaxStops /\ faults \in 0..MaxFaults

\* A row that was never submitted is blank; an active job was assigned.
RowOK(j, r) ==
  /\ r.st = "none" => r = NoRow
  /\ j \in Compute /\ r.st \in Active => r.runner # 0

\* A thread u of worker w, against the row r of its job.
ThreadOK(w, u, r) ==
  /\ u.job \in Compute /\ u.runner # 0 /\ u.runner <= r.runner
  /\ u.runner = r.runner => /\ r.st \in Active => r.worker = w
                            /\ r.st = "pending" => r.preempted

ThreadsOK == \A w \in Worker, t \in Thread :
               Busy(th[w][t]) => ThreadOK(w, th[w][t], job[th[w][t].job])

\* A worker with one executor thread, which registers when its process starts.
OneAtATime == ~SlowSpawn /\ \E t \in Thread : Thread = {t}

\* A thread with a process, or about to have one.  On such workers it is the
\* one the row of its job names, until it has stopped.
Alive(u) == u.pc \in {"starting", "spawning", "running"}
Owns(w, u, r) == r.worker = w /\ r.runner = u.runner /\ r.st \in Active \cup Over
Owned == OneAtATime => \A w \in Worker, t \in Thread :
           Alive(th[w][t]) => Owns(w, th[w][t], job[th[w][t].job])

Submitted(j) == job[j].st # "none"

\* Cancellations and the queue name submitted jobs; a submission in progress
\* is the only one of its job.
Known ==
  /\ \A d \in doomed : Submitted(d.job)
  /\ \A c \in cleanup : Submitted(c.job)
  /\ \A j \in sched.queue : Submitted(j)
  /\ \A s \in submits : ~Submitted(s.job)
  /\ \A s, q \in submits : s.job = q.job => s = q

\* An agent that has not sent its first heartbeat has no threads.
FreshIsEmpty == \A w \in Worker : agent[w].fresh => \A t \in Thread : ~Busy(th[w][t])

Updating == sched.pc = "maintaining" => sched.queue \subseteq Maintenance /\ ActiveCompute = {}

IInv == /\ Types /\ \A j \in Job : RowOK(j, job[j])
        /\ ThreadsOK /\ Owned /\ Known /\ FreshIsEmpty /\ Updating /\ BranchExclusive

-----------------------------------------------------------------------------
(* What a step may do to a row, to a thread, and to the rest.              *)

\* The row of j goes from r to s and does not start the job; if that puts it
\* back into the queue, it is marked, and its thread has stopped.
Retired(j) == \A w \in Worker, t \in Thread : th[w][t].job = j => ~Alive(th[w][t])
Keeps(j, r, s) ==
  /\ r.st # "none" /\ s.st # "none" /\ s.runner = r.runner
  /\ j \in Compute => /\ s.st \in Active => r.st \in Active
                      /\ s.st # "pending" => s.worker = r.worker
                      /\ s.st = "pending" => s.preempted /\ (OneAtATime => Retired(j))

\* The job goes back to the queue and none of its threads is left.
Unstarted(j) == \A w \in Worker, t \in Thread :
                  Busy(th[w][t]) /\ th[w][t].job = j => th[w][t].runner # job[j].runner
Reset(j) == /\ job[j].st \in Active /\ job'[j].st = "pending"
            /\ job'[j].runner = job[j].runner /\ Unstarted(j)

Insert(j) == /\ ~Submitted(j) /\ job'[j] = [NoRow EXCEPT !.st = "pending"]
             /\ \A s \in submits' : s.job # j

Assign(j) == /\ j \in Compute /\ BranchFree(j) /\ sched'.pc = "placing"
             /\ job[j].st = "pending" /\ job'[j].st = "assigned"
             /\ job'[j].runner = job[j].runner + 1
             /\ \A k \in Job \ {j} : job'[k] = job[k]

Changes(j) == job'[j] = job[j] \/ Keeps(j, job[j], job'[j]) \/ Reset(j) \/ Insert(j) \/ Assign(j)

\* What OutcomeIsFinal asks of one job.
Final(j) == /\ job[j].st = "failed" => job'[j].st = "failed"
            /\ job[j].st = "completed" =>
                 job'[j].st = "completed" \/ (job'[j].st = "failed" /\ Doomed(j))

RowsStep == job' \in [Job -> Row] /\ (\A j \in Job : Changes(j)) /\ (\A j \in Compute : Final(j))

\* u, or what is left of it.
Follows(v, u) == /\ Busy(v) => Busy(u) /\ v.job = u.job /\ v.runner = u.runner
                 /\ Alive(v) => Alive(u)

\* A new thread of worker w for a job that is assigned to w.
Begins(w, u) == /\ UNCHANGED job /\ ~agent'[w].fresh
                /\ u.job \in Compute /\ job[u.job].st \in Active /\ job[u.job].worker = w
                /\ u.runner = job[u.job].runner

ThreadsFollow(T) == /\ T \in [Worker -> [Thread -> Executor]]
                    /\ \A w \in Worker, t \in Thread : Follows(T[w][t], th[w][t])

ThreadsStep == /\ th' \in [Worker -> [Thread -> Executor]]
               /\ \A w \in Worker, t \in Thread :
                    Follows(th'[w][t], th[w][t]) \/ Begins(w, th'[w][t])

AgentsKeep(A) == A \in [Worker -> AgentState] /\ \A w \in Worker : A[w].fresh => agent[w].fresh

AgentsStep == /\ agent' \in [Worker -> AgentState]
              /\ \A w \in Worker : agent'[w].fresh =>
                   agent[w].fresh \/ \A t \in Thread : ~Busy(th'[w][t])

DoomedStep == doomed' \subseteq Cancellation /\ \A d \in doomed' : Submitted(d.job)
CleanupStep == cleanup' \subseteq Kill /\ \A c \in cleanup' : Submitted(c.job)

SchedStep == /\ sched' \in SchedState /\ \A j \in sched'.queue : Submitted(j)
             /\ sched'.pc = "maintaining" => sched'.queue \subseteq Maintenance /\ ActiveCompute = {}

SubmitsStep == /\ submits' \subseteq Submission
               /\ \A s \in submits' : ~Submitted(s.job)
               /\ \A s, q \in submits' : s.job = q.job => s = q

RestStep == /\ expired' \subseteq Job /\ linked' \subseteq Job /\ gone' \subseteq Job
            /\ ghosts' \subseteq Job /\ stops' \in 0..MaxStops /\ faults' \in 0..MaxFaults

Step == RowsStep /\ ThreadsStep /\ AgentsStep /\ DoomedStep /\ CleanupStep
        /\ SchedStep /\ SubmitsStep /\ RestStep

-----------------------------------------------------------------------------
\* The types are those the runs check.
LEMMA TypesOK == Types => TypeOK
<1> SUFFICES ASSUME Types PROVE TypeOK
  OBVIOUS
<1>1. th \in [Worker -> [Thread -> ThreadState]]
  BY DEF Types, Executor
<1> QED
  BY <1>1 DEF Types, TypeOK, Row, AgentState, Kill, Cancellation, Submission, SchedState

\* Everything is in order at the start.
LEMMA InitIInv == Init => IInv
<1> SUFFICES ASSUME Init PROVE IInv
  OBVIOUS
<1>1. NoRow \in Row /\ NoThread \in Executor
  <2>1. 0 \in 0..MaxRunners
    BY JobLifecycleAssumption
  <2> QED
    BY <2>1 DEF NoRow, Row, NoThread, Executor, ThreadState, Status
<1>2. agent \in [Worker -> AgentState] /\ sched \in SchedState
  BY DEF Init, AgentState, SchedState, Idle
<1>3. Types
  <2>1. job \in [Job -> Row] /\ th \in [Worker -> [Thread -> Executor]]
    BY <1>1 DEF Init
  <2>2. stops \in 0..MaxStops /\ faults \in 0..MaxFaults
    BY JobLifecycleAssumption DEF Init
  <2>3. cleanup = {} /\ doomed = {} /\ submits = {}
        /\ expired = {} /\ linked = {} /\ gone = {} /\ ghosts = {}
    BY DEF Init
  <2>4. /\ cleanup \subseteq Kill /\ doomed \subseteq Cancellation /\ submits \subseteq Submission
        /\ expired \subseteq Job /\ linked \subseteq Job /\ gone \subseteq Job /\ ghosts \subseteq Job
    BY <2>3
  <2> QED
    BY <1>2, <2>1, <2>2, <2>4 DEF Types
<1>4. \A j \in Job : job[j] = NoRow
  BY DEF Init
<1>5. \A j \in Job : RowOK(j, job[j]) /\ job[j].st \notin Active
  <2>1. NoRow.st = "none"
    BY DEF NoRow
  <2> QED
    BY <1>4, <2>1 DEF RowOK, Active
<1>6. ThreadsOK /\ FreshIsEmpty /\ Owned
  BY DEF ThreadsOK, FreshIsEmpty, Owned, Init, Busy, Alive, NoThread
<1>7. Known /\ Updating
  BY DEF Known, Updating, Init, Idle
<1>8. BranchExclusive
  BY <1>5 DEF BranchExclusive, ActiveCompute, Compute
<1> QED
  BY <1>3, <1>5, <1>6, <1>7, <1>8 DEF IInv

\* A submitted job stays submitted.
LEMMA StaysSubmitted ==
  ASSUME Step, NEW j \in Job, Submitted(j)
  PROVE  job'[j].st # "none"
BY DEF Step, RowsStep, Changes, Keeps, Reset, Insert, Assign, Submitted, Active

\* Only the conditional assignment makes a compute job active.
LEMMA BecomesActive ==
  ASSUME Step, NEW j \in Compute, job'[j].st \in Active
  PROVE  job[j].st \in Active \/ Assign(j)
<1>1. j \in Job /\ Changes(j)
  BY DEF Step, RowsStep, Compute
<1> QED
  BY <1>1 DEF Changes, Keeps, Reset, Insert, Active, NoRow

\* A row in order stays in order.
LEMMA RowKept ==
  ASSUME IInv, Step, NEW j \in Job
  PROVE  RowOK(j, job'[j])
<1>1. job[j] \in Row /\ job'[j] \in Row /\ Changes(j) /\ RowOK(j, job[j])
  BY DEF IInv, Types, Step, RowsStep
<1>2. CASE job'[j] = job[j]
  BY <1>1, <1>2
<1>3. CASE Keeps(j, job[j], job'[j])
  BY <1>1, <1>3 DEF RowOK, Keeps
<1>4. CASE Reset(j) \/ Insert(j)
  BY <1>4 DEF RowOK, Reset, Insert, NoRow, Active
<1>5. CASE Assign(j)
  <2>1. job'[j].runner # 0
    BY <1>1, <1>5, JobLifecycleAssumption DEF Assign, Row
  <2> QED
    BY <2>1, <1>5 DEF RowOK, Assign
<1> QED
  BY <1>1, <1>2, <1>3, <1>4, <1>5 DEF Changes

\* A thread in order stays in order, whatever happens to its job's row.
LEMMA ThreadKept ==
  ASSUME IInv, Step, NEW w \in Worker, NEW t \in Thread, Busy(th'[w][t])
  PROVE  ThreadOK(w, th'[w][t], job'[th'[w][t].job])
<1> DEFINE u == th[w][t]  v == th'[w][t]
<1>1. v \in Executor /\ u \in Executor /\ (Follows(v, u) \/ Begins(w, v))
  BY DEF Step, ThreadsStep, IInv, Types
<1>2. CASE Begins(w, v)
  <2>1. job' = job /\ v.job \in Job
    BY <1>2 DEF Begins, Compute
  <2>2. job[v.job].runner # 0 /\ job[v.job].runner \in Nat
    BY <2>1, <1>2, JobLifecycleAssumption DEF IInv, Types, Row, RowOK, Begins
  <2> QED
    BY <2>1, <2>2, <1>2 DEF ThreadOK, Begins, Active
<1>3. CASE Follows(v, u)
  <2> DEFINE j == u.job  r == job[j]  s == job'[j]
  <2>1. Busy(u) /\ v.job = u.job /\ v.runner = u.runner
    BY <1>3 DEF Follows
  <2>2. ThreadOK(w, u, r) /\ j \in Compute /\ j \in Job
    BY <2>1 DEF IInv, ThreadsOK, ThreadOK, Compute
  <2>3. r \in Row /\ s \in Row /\ Changes(j) /\ RowOK(j, r)
    BY <2>2 DEF IInv, Types, Step, RowsStep
  <2>4. r.runner \in Nat /\ s.runner \in Nat /\ u.runner \in Nat
    BY <2>3, <1>1, JobLifecycleAssumption DEF Row, Executor, ThreadState
  <2>5. ThreadOK(w, u, s)
    <3>1. CASE s = r
      BY <2>2, <3>1
    <3>2. CASE Keeps(j, r, s)
      BY <2>2, <2>4, <3>2 DEF Keeps, ThreadOK, Active
    <3>3. CASE Reset(j)
      BY <2>1, <2>2, <2>4, <3>3 DEF Reset, Unstarted, ThreadOK, Active
    <3>4. CASE Insert(j)
      BY <2>2, <2>3, <2>4, <3>4 DEF Insert, Submitted, RowOK, ThreadOK, NoRow
    <3>5. CASE Assign(j)
      BY <2>2, <2>4, <3>5 DEF Assign, ThreadOK
    <3> QED
      BY <2>3, <3>1, <3>2, <3>3, <3>4, <3>5 DEF Changes
  <2> QED
    BY <2>1, <2>5 DEF ThreadOK
<1> QED
  BY <1>1, <1>2, <1>3

\* On workers with one thread, what is alive stays what the row names.
LEMMA OwnedKept ==
  ASSUME IInv, Step, OneAtATime, NEW w \in Worker, NEW t \in Thread, Alive(th'[w][t])
  PROVE  Owns(w, th'[w][t], job'[th'[w][t].job])
<1> DEFINE u == th[w][t]  v == th'[w][t]
<1>1. Follows(v, u) \/ Begins(w, v)
  BY DEF Step, ThreadsStep
<1>2. CASE Begins(w, v)
  BY <1>2 DEF Begins, Owns
<1>3. CASE Follows(v, u)
  <2> DEFINE j == u.job  r == job[j]  s == job'[j]
  <2>1. Alive(u) /\ Busy(u) /\ v.job = u.job /\ v.runner = u.runner
    BY <1>3 DEF Follows, Alive, Busy
  <2>2. ThreadOK(w, u, r) /\ Owns(w, u, r) /\ j \in Compute /\ j \in Job
    BY <2>1 DEF IInv, ThreadsOK, Owned, ThreadOK, Compute
  <2>3. s \in Row /\ Changes(j)
    BY <2>2 DEF Step, RowsStep
  <2>4. CASE s = r
    BY <2>1, <2>2, <2>4 DEF Owns
  <2>5. CASE Keeps(j, r, s)
    <3>1. ~Retired(j)
      BY <2>1 DEF Retired
    <3> QED
      BY <2>1, <2>2, <2>3, <2>5, <3>1 DEF Keeps, Owns, Row, Status
  <2>6. CASE Reset(j)
    BY <2>1, <2>2, <2>6 DEF Reset, Unstarted, Owns
  <2>7. CASE Insert(j) \/ Assign(j)
    BY <2>2, <2>7 DEF Insert, Assign, Submitted, Owns, Active, Over
  <2> QED
    BY <2>3, <2>4, <2>5, <2>6, <2>7 DEF Changes
<1> QED
  BY <1>1, <1>2, <1>3

\* The active jobs stay on different branches.
LEMMA BranchKept ==
  ASSUME IInv, Step
  PROVE  BranchExclusive'
<1> SUFFICES ASSUME NEW j \in Compute, NEW k \in Compute, j # k, BranchOf[j] = BranchOf[k],
                    job'[j].st \in Active, job'[k].st \in Active
             PROVE  FALSE
  BY DEF BranchExclusive, ActiveCompute
<1>1. job[j].st \in Active \/ Assign(j)
  BY BecomesActive
<1>2. job[k].st \in Active \/ Assign(k)
  BY BecomesActive
<1>3. CASE Assign(j)
  BY <1>3 DEF Assign, BranchFree, Compute
<1>4. CASE Assign(k)
  BY <1>4 DEF Assign, BranchFree, Compute
<1>5. CASE job[j].st \in Active /\ job[k].st \in Active
  BY <1>5 DEF IInv, BranchExclusive, ActiveCompute
<1> QED
  BY <1>1, <1>2, <1>3, <1>4, <1>5

\* The invariant follows from what a step may do.
LEMMA StepKeeps ==
  ASSUME IInv, Step
  PROVE  IInv' /\ \A j \in Compute : Final(j)
<1>1. Types'
  BY DEF Step, RowsStep, ThreadsStep, AgentsStep, DoomedStep, CleanupStep, SchedStep, SubmitsStep,
         RestStep, Types
<1>2. (\A j \in Job : RowOK(j, job[j]))'
  BY RowKept
<1>3. ThreadsOK'
  BY ThreadKept DEF ThreadsOK
<1>4. Known'
  <2>1. \A d \in doomed' : d.job \in Job /\ job'[d.job].st # "none"
    BY StaysSubmitted DEF Step, DoomedStep, Cancellation
  <2>2. \A c \in cleanup' : c.job \in Job /\ job'[c.job].st # "none"
    BY StaysSubmitted DEF Step, CleanupStep, Kill
  <2>3. \A j \in sched'.queue : job'[j].st # "none"
    BY StaysSubmitted DEF Step, SchedStep, SchedState
  <2>4. ASSUME NEW s \in submits' PROVE job'[s.job].st = "none"
    <3>1. s.job \in Job /\ ~Submitted(s.job)
      BY DEF Step, SubmitsStep, Submission
    <3>2. Changes(s.job)
      BY <3>1 DEF Step, RowsStep
    <3> QED
      BY <3>1, <3>2 DEF Changes, Keeps, Reset, Insert, Assign, Submitted, Active
  <2>5. \A s, q \in submits' : s.job = q.job => s = q
    BY DEF Step, SubmitsStep
  <2> QED
    BY <2>1, <2>2, <2>3, <2>4, <2>5 DEF Known, Submitted
<1>5. FreshIsEmpty'
  <2> SUFFICES ASSUME NEW w \in Worker, agent'[w].fresh, NEW t \in Thread, Busy(th'[w][t])
               PROVE  FALSE
    BY DEF FreshIsEmpty
  <2>1. agent[w].fresh
    BY DEF Step, AgentsStep
  <2>2. Follows(th'[w][t], th[w][t])
    BY DEF Step, ThreadsStep, Begins
  <2> QED
    BY <2>1, <2>2 DEF IInv, FreshIsEmpty, Follows
<1>6. Updating'
  <2> SUFFICES ASSUME sched'.pc = "maintaining"
               PROVE  sched'.queue \subseteq Maintenance
                      /\ \A j \in Compute : job'[j].st \notin Active
    BY DEF Updating, ActiveCompute
  <2>1. sched'.queue \subseteq Maintenance /\ \A j \in Compute : job[j].st \notin Active
    BY DEF Step, SchedStep, ActiveCompute
  <2>2. \A j \in Compute : ~Assign(j)
    BY DEF Assign
  <2> QED
    BY <2>1, <2>2, BecomesActive
<1>7. BranchExclusive'
  BY BranchKept
<1>8. Owned'
  BY OwnedKept DEF Owned
<1>9. \A j \in Compute : Final(j)
  BY DEF Step, RowsStep
<1> QED
  BY <1>1, <1>2, <1>3, <1>4, <1>5, <1>6, <1>7, <1>8, <1>9 DEF IInv
-----------------------------------------------------------------------------
(* What the operators of the model return.                                 *)

\* The parts of the invariant, by type.
LEMMA Facts ==
  ASSUME IInv
  PROVE  /\ job \in [Job -> Row] /\ agent \in [Worker -> AgentState]
         /\ th \in [Worker -> [Thread -> Executor]]
         /\ cleanup \subseteq Kill /\ doomed \subseteq Cancellation
         /\ sched \in SchedState /\ submits \subseteq Submission
         /\ expired \subseteq Job /\ linked \subseteq Job /\ gone \subseteq Job /\ ghosts \subseteq Job
         /\ stops \in 0..MaxStops /\ faults \in 0..MaxFaults
         /\ \A j \in Job : RowOK(j, job[j])
         /\ ThreadsOK /\ Owned /\ Known /\ FreshIsEmpty /\ Updating /\ BranchExclusive
BY DEF IInv, Types

\* A step that leaves a part alone.
LEMMA JobUnchanged == ASSUME IInv, job' = job PROVE RowsStep
BY DEF IInv, Types, RowsStep, Changes, Final

LEMMA ThUnchanged == ASSUME IInv PROVE ThreadsFollow(th)
BY DEF IInv, Types, ThreadsFollow, Follows

LEMMA ThreadsAre == ASSUME ThreadsFollow(th') PROVE ThreadsStep
BY DEF ThreadsFollow, ThreadsStep

LEMMA AgentUnchanged == ASSUME IInv PROVE AgentsKeep(agent)
BY DEF IInv, Types, AgentsKeep

LEMMA AgentsAre == ASSUME AgentsKeep(agent') PROVE AgentsStep
BY DEF AgentsKeep, AgentsStep

LEMMA DoomedUnchanged == ASSUME IInv, doomed' \subseteq doomed PROVE DoomedStep
BY DEF IInv, Types, Known, DoomedStep

LEMMA CleanupUnchanged == ASSUME IInv, cleanup' \subseteq cleanup PROVE CleanupStep
BY DEF IInv, Types, Known, CleanupStep

LEMMA SchedUnchanged == ASSUME IInv, sched' = sched PROVE SchedStep
BY DEF IInv, Types, Known, Updating, SchedStep

LEMMA SchedIdle == ASSUME sched' = Idle PROVE SchedStep
BY DEF SchedStep, SchedState, Idle

LEMMA SubmitsUnchanged == ASSUME IInv, submits' = submits PROVE SubmitsStep
BY DEF IInv, Types, Known, SubmitsStep

LEMMA RestUnchanged ==
  ASSUME IInv, UNCHANGED <<expired, github, stops>>, faults' \in 0..MaxFaults
  PROVE  RestStep
BY DEF IInv, Types, RestStep, github

\* A fault within the bound.
LEMMA FaultBound ==
  ASSUME IInv, NEW kind, Fault(kind)
  PROVE  faults' \in 0..MaxFaults
<1>1. faults \in 0..MaxFaults /\ MaxFaults \in Nat
  BY JobLifecycleAssumption, Facts
<1> QED
  BY <1>1 DEF Fault

\* One row changes, and neither starts nor resumes its job.
LEMMA OneRow ==
  ASSUME IInv, NEW j \in Job, NEW s \in Row, job' = [job EXCEPT ![j] = s],
         s = job[j] \/ Keeps(j, job[j], s),
         j \in Compute => /\ job[j].st = "failed" => s.st = "failed"
                          /\ job[j].st = "completed" =>
                               s.st = "completed" \/ (s.st = "failed" /\ Doomed(j))
  PROVE  RowsStep
<1>1. job \in [Job -> Row]
  BY Facts
<1>2. job' \in [Job -> Row] /\ job'[j] = s /\ \A k \in Job \ {j} : job'[k] = job[k]
  BY <1>1
<1>3. \A k \in Job : Changes(k)
  BY <1>2 DEF Changes
<1>4. \A k \in Compute : Final(k)
  BY <1>2 DEF Final, Compute
<1> QED
  BY <1>2, <1>3, <1>4 DEF RowsStep

\* A failed row, for a job that is not over already or was doomed.
LEMMA FailsRow ==
  ASSUME IInv, NEW j \in Job, Submitted(j)
  PROVE  /\ [job[j] EXCEPT !.st = "failed"] \in Row
         /\ Keeps(j, job[j], [job[j] EXCEPT !.st = "failed"])
<1>1. job[j] \in Row
  BY Facts
<1> DEFINE s == [job[j] EXCEPT !.st = "failed"]
<1>2. s \in Row /\ s.st = "failed" /\ s.runner = job[j].runner
  BY <1>1 DEF Row, Status, Over
<1> QED
  BY <1>2 DEF Keeps, Submitted, Active

\* What a kill leaves is the thread, exited.
LEMMA KilledFollows ==
  ASSUME NEW u \in Executor, Busy(u)
  PROVE  Killed(u) \in Executor /\ Follows(Killed(u), u)
BY DEF Executor, ThreadState, Killed, Follows, Busy, Alive

\* A free thread.
LEMMA FreeThread == NoThread \in Executor /\ ~Busy(NoThread) /\ ~Alive(NoThread)
<1>1. 0 \in 0..MaxRunners
  BY JobLifecycleAssumption
<1> QED
  BY <1>1 DEF NoThread, Executor, ThreadState, Busy, Alive

\* One thread, or all threads of one worker, change.
LEMMA OneThread ==
  ASSUME IInv, NEW w \in Worker, NEW t \in Thread, NEW v \in Executor, Follows(v, th[w][t])
  PROVE  ThreadsFollow([th EXCEPT ![w][t] = v])
BY Facts DEF ThreadsFollow, Follows

LEMMA WorkerThreads ==
  ASSUME IInv, NEW w \in Worker, NEW f \in [Thread -> Executor],
         \A t \in Thread : Follows(f[t], th[w][t])
  PROVE  ThreadsFollow([th EXCEPT ![w] = f])
BY Facts DEF ThreadsFollow, Follows

\* Losing a registration changes neither the job nor the process.
LEMMA UnregisterFollows ==
  ASSUME IInv, NEW T, ThreadsFollow(T), NEW j \in Job
  PROVE  ThreadsFollow(Unregister(T, j))
<1> DEFINE U(w, t) == [T[w][t] EXCEPT !.reg = FALSE]
<1>1. \A w \in Worker, t \in Thread : T[w][t] \in Executor /\ Follows(T[w][t], th[w][t])
  BY DEF ThreadsFollow
<1>2. \A w \in Worker, t \in Thread : U(w, t) \in Executor /\ Follows(U(w, t), th[w][t])
  <2>1. ASSUME NEW u \in Executor, NEW v, Follows(u, v)
        PROVE  [u EXCEPT !.reg = FALSE] \in Executor /\ Follows([u EXCEPT !.reg = FALSE], v)
    BY <2>1 DEF Executor, ThreadState, Follows, Busy, Alive
  <2> QED
    BY <1>1, <2>1
<1> QED
  BY <1>1, <1>2 DEF Unregister, ThreadsFollow

\* The agent goes on with a thread it has registered, or with none.
LEMMA RefocusType ==
  ASSUME IInv, NEW w \in Worker, NEW R \in SUBSET Thread
  PROVE  Refocus(w, R) \in AgentState /\ Refocus(w, R).fresh = agent[w].fresh
<1>1. agent[w] \in AgentState /\ th[w] \in [Thread -> Executor]
  BY Facts
<1>2. CASE R = {}
  BY <1>1, <1>2 DEF Refocus, AgentState
<1>3. CASE R # {}
  <2> DEFINE t == CHOOSE u \in R : TRUE
  <2>1. t \in R /\ t \in Thread
    BY <1>3
  <2>2. th[w][t].job \in Job \cup {None}
    BY <1>1, <2>1 DEF Executor, ThreadState
  <2> HIDE DEF t
  <2>3. /\ [agent[w] EXCEPT !.current = th[w][t].job,
                            !.proc = IF th[w][t].pc = "spawning" THEN None ELSE t] \in AgentState
        /\ [agent[w] EXCEPT !.current = th[w][t].job,
                            !.proc = IF th[w][t].pc = "spawning" THEN None ELSE t].fresh = agent[w].fresh
    BY <1>1, <2>1, <2>2 DEF AgentState
  <2> QED
    BY <1>3, <2>3 DEF Refocus, t
<1> QED
  BY <1>2, <1>3

\* One agent changes and gets no younger.
LEMMA OneAgent ==
  ASSUME IInv, NEW w \in Worker, NEW a \in AgentState, a.fresh => agent[w].fresh
  PROVE  AgentsKeep([agent EXCEPT ![w] = a])
BY Facts DEF AgentsKeep

\* cancel_job on the worker, up to the threads.
LEMMA CancelParts ==
  ASSUME IInv, NEW j \in Job
  PROVE  /\ AgentsKeep(AgentAfter(j))
         /\ Posts(j) => ToKill(job[j].worker, j) \subseteq Kill
                        /\ \A c \in ToKill(job[j].worker, j) : c.job = j
<1>1. job[j] \in Row
  BY Facts
<1>2. CASE ~Posts(j)
  BY <1>2, AgentUnchanged DEF AgentAfter
<1>3. CASE Posts(j)
  <2> DEFINE w == job[j].worker
  <2>1. w \in Worker
    BY <1>1, <1>3 DEF Posts, Row
  <2>2. Named(w, j) \subseteq Thread /\ Registered(w) \subseteq Thread
    BY DEF Named, Registered
  <2>3. agent[w].proc \in Thread \cup {None}
    BY <2>1, Facts DEF AgentState
  <2>4. AgentsKeep(AgentAfter(j))
    BY <1>3, <2>1, <2>2, RefocusType, OneAgent DEF AgentAfter
  <2> HIDE DEF w
  <2>5. ToKill(w, j) \subseteq Kill /\ \A c \in ToKill(w, j) : c.job = j
    BY <2>1, <2>2, <2>3 DEF ToKill, Kill
  <2> QED
    BY <2>4, <2>5 DEF w
<1> QED
  BY <1>2, <1>3

\* cancel_job_cleanly up to its HTTP call.
LEMMA Cancels ==
  ASSUME IInv, NEW j \in Job, NEW by \in {"api", "scheduler"}, BeginCancel(j, by)
  PROVE  Submitted(j) /\ DoomedStep /\ CleanupStep /\ AgentsKeep(agent')
<1>1. Submitted(j)
  BY DEF BeginCancel, Cancellable, Submitted, Active
<1>2. DoomedStep
  BY <1>1, Facts DEF BeginCancel, DoomedStep, Doom, Known, Cancellation
<1>3. CleanupStep
  BY <1>1, CancelParts, Facts DEF BeginCancel, CleanupStep, Known
<1>4. AgentsKeep(agent')
  BY CancelParts DEF BeginCancel
<1> QED
  BY <1>1, <1>2, <1>3, <1>4

\* A cancellation, or nothing, and no row changes.
LEMMA CancelStep ==
  ASSUME IInv, NEW j \in Job, job' = job,
         \/ BeginCancel(j, "api") /\ th' = Unregister(th, j)
         \/ UNCHANGED <<doomed, cleanup, th, agent>>
  PROVE  RowsStep /\ ThreadsStep /\ AgentsStep /\ DoomedStep /\ CleanupStep
<1>1. RowsStep
  BY JobUnchanged
<1>2. ThreadsStep
  BY UnregisterFollows, ThUnchanged, ThreadsAre
<1>3. AgentsStep /\ DoomedStep /\ CleanupStep
  BY Cancels, AgentsAre, AgentUnchanged, DoomedUnchanged, CleanupUnchanged
<1> QED
  BY <1>1, <1>2, <1>3

-----------------------------------------------------------------------------
(* The headnode and GitHub.                                                *)

\* The parts a handler of the headnode or a sweep leaves alone.
LEMMA Quiet ==
  ASSUME IInv, RowsStep, ThreadsStep, AgentsStep, DoomedStep, CleanupStep, SubmitsStep, RestStep,
         sched' = sched
  PROVE  Step
BY SchedUnchanged DEF Step

\* Nothing but the outside of the invariant changes.
LEMMA Idles ==
  ASSUME IInv, UNCHANGED <<job, agent, th, cleanup, doomed>>
  PROVE  RowsStep /\ ThreadsStep /\ AgentsStep /\ DoomedStep /\ CleanupStep
BY JobUnchanged, ThUnchanged, ThreadsAre, AgentUnchanged, AgentsAre, DoomedUnchanged,
   CleanupUnchanged

\* The last step of cancel_job_cleanly fails a row that it has read.
LEMMA FinishCancelStep ==
  ASSUME IInv, NEW d \in doomed, FinishCancel(d)
  PROVE  Step
<1>1. d.job \in Job /\ Submitted(d.job) /\ Doomed(d.job)
  BY Facts DEF Cancellation, Known, Doomed
<1>2. RowsStep
  <2> DEFINE s == [job[d.job] EXCEPT !.st = "failed"]
  <2>1. s \in Row /\ Keeps(d.job, job[d.job], s)
    BY <1>1, FailsRow
  <2>2. s.st = "failed"
    BY <1>1, Facts DEF Row
  <2> HIDE DEF s
  <2>3. job' = [job EXCEPT ![d.job] = s]
    BY DEF FinishCancel, FailedRow, s
  <2> QED
    BY <1>1, <2>1, <2>2, <2>3, OneRow
<1>3. ThreadsStep /\ AgentsStep /\ CleanupStep
  BY ThUnchanged, ThreadsAre, AgentUnchanged, AgentsAre, CleanupUnchanged DEF FinishCancel
<1>4. DoomedStep /\ SubmitsStep
  BY DoomedUnchanged, SubmitsUnchanged DEF FinishCancel
<1>5. RestStep
  BY RestUnchanged, Facts DEF FinishCancel
<1> QED
  BY <1>2, <1>3, <1>4, <1>5, Quiet DEF FinishCancel

\* The stop button.
LEMMA StopJobStep ==
  ASSUME IInv, NEW j \in Job, StopJob(j)
  PROVE  Step
<1>1. RowsStep /\ ThreadsStep /\ AgentsStep /\ DoomedStep /\ CleanupStep
  BY CancelStep DEF StopJob
<1>2. SubmitsStep
  BY SubmitsUnchanged DEF StopJob
<1>3. stops' \in 0..MaxStops
  BY Facts, JobLifecycleAssumption DEF StopJob
<1>4. RestStep
  BY <1>3, Facts DEF StopJob, RestStep, github
<1> QED
  BY <1>1, <1>2, <1>4, Quiet DEF StopJob

\* A submission starts: it reads the jobs to replace.
LEMMA SubmitStep ==
  ASSUME IInv, NEW j \in Job, Submit(j)
  PROVE  Step
<1>1. RowsStep /\ ThreadsStep /\ AgentsStep /\ DoomedStep /\ CleanupStep
  BY Idles DEF Submit
<1>2. Replaced(j) \subseteq Job
  BY JobLifecycleAssumption DEF Replaced, Compute
<1>3. SubmitsStep
  <2>1. submits' \subseteq Submission
    BY <1>2, Facts DEF Submit, Submission
  <2>2. \A s \in submits : ~Submitted(s.job) /\ \A q \in submits : s.job = q.job => s = q
    BY Facts DEF Known
  <2> QED
    BY <2>1, <2>2 DEF Submit, SubmitsStep, Submitted
<1>4. RestStep
  BY RestUnchanged, Facts DEF Submit
<1> QED
  BY <1>1, <1>3, <1>4, Quiet DEF Submit

\* It cancels them one after the other.
LEMMA SubmitCancelsStep ==
  ASSUME IInv, NEW s \in submits, SubmitCancels(s)
  PROVE  Step
<1>1. s \in Submission
  BY Facts
<1>2. PICK k \in s.todo :
        /\ submits' = (submits \ {s}) \cup {[s EXCEPT !.todo = @ \ {k}, !.wait = {k}]}
        /\ \/ BeginCancel(k, "api") /\ th' = Unregister(th, k)
           \/ UNCHANGED <<doomed, cleanup, th, agent>>
  BY DEF SubmitCancels
<1>3. k \in Job
  BY <1>1 DEF Submission
<1>4. RowsStep /\ ThreadsStep /\ AgentsStep /\ DoomedStep /\ CleanupStep
  BY <1>2, <1>3, CancelStep DEF SubmitCancels
<1>5. SubmitsStep
  <2> DEFINE q == [s EXCEPT !.todo = @ \ {k}, !.wait = {k}]
  <2>1. q \in Submission /\ q.job = s.job
    BY <1>1, <1>3 DEF Submission
  <2> HIDE DEF q
  <2>2. submits' = (submits \ {s}) \cup {q}
    BY <1>2 DEF q
  <2>3. submits \subseteq Submission
    BY Facts
  <2>4. \A x \in submits : ~Submitted(x.job) /\ \A y \in submits : x.job = y.job => x = y
    BY Facts DEF Known
  <2> QED
    BY <2>1, <2>2, <2>3, <2>4 DEF SubmitsStep
<1>6. RestStep
  BY RestUnchanged, Facts DEF SubmitCancels
<1> QED
  BY <1>4, <1>5, <1>6, Quiet DEF SubmitCancels

\* It inserts its row, which nobody has inserted before.
LEMMA SubmitInsertsStep ==
  ASSUME IInv, NEW s \in submits, SubmitInserts(s)
  PROVE  Step
<1>1. s.job \in Job /\ ~Submitted(s.job)
  BY Facts DEF Submission, Known
<1> DEFINE r == [NoRow EXCEPT !.st = "pending"]
<1>2. r \in Row
  <2>1. 0 \in 0..MaxRunners
    BY JobLifecycleAssumption
  <2> QED
    BY <2>1 DEF Row, NoRow, Status
<1>3. RowsStep
  <2> HIDE DEF r
  <2>1. job' = [job EXCEPT ![s.job] = r]
    BY DEF SubmitInserts, r
  <2>2. job \in [Job -> Row]
    BY Facts
  <2>3. job' \in [Job -> Row] /\ job'[s.job] = r /\ \A k \in Job \ {s.job} : job'[k] = job[k]
    BY <1>1, <1>2, <2>1, <2>2
  <2>4. \A q \in submits' : q.job # s.job
    BY Facts DEF SubmitInserts, Known
  <2>5. Insert(s.job)
    BY <1>1, <2>3, <2>4 DEF Insert, r
  <2>6. \A k \in Job : Changes(k)
    BY <2>3, <2>5 DEF Changes
  <2>7. \A k \in Compute : Final(k)
    BY <1>1, <2>3 DEF Final, Submitted, Compute
  <2> QED
    BY <2>3, <2>6, <2>7 DEF RowsStep
<1>4. ThreadsStep /\ AgentsStep /\ DoomedStep /\ CleanupStep
  BY ThUnchanged, ThreadsAre, AgentUnchanged, AgentsAre, DoomedUnchanged, CleanupUnchanged
     DEF SubmitInserts
<1>5. SubmitsStep
  BY Facts DEF SubmitInserts, SubmitsStep, Known
<1>6. RestStep
  BY <1>1, Facts DEF SubmitInserts, RestStep
<1> QED
  BY <1>3, <1>4, <1>5, <1>6, Quiet DEF SubmitInserts

\* A newer workflow takes over, or the GitHub run ends; the ghost cleaner
\* reads its candidates; time passes.
LEMMA OutsideStep ==
  ASSUME IInv, NEW j \in Job, Detach(j) \/ RunEnds(j) \/ GhostRead \/ Expire(j)
  PROVE  Step
<1>1. UNCHANGED <<job, agent, th, cleanup, doomed>> /\ sched' = sched /\ submits' = submits
  BY DEF Detach, RunEnds, GhostRead, Expire
<1>2. RowsStep /\ ThreadsStep /\ AgentsStep /\ DoomedStep /\ CleanupStep /\ SubmitsStep
  BY <1>1, Idles, SubmitsUnchanged
<1>3. RestStep
  BY Facts DEF Detach, RunEnds, GhostRead, Expire, RestStep, Candidates, github
<1> QED
  BY <1>1, <1>2, <1>3, Quiet

\* The ghost cleaner cancels a job whose run is over.
LEMMA GhostCheckStep ==
  ASSUME IInv, NEW j \in Job, GhostCheck(j)
  PROVE  Step
<1>1. RowsStep /\ ThreadsStep /\ AgentsStep /\ DoomedStep /\ CleanupStep
  BY CancelStep DEF GhostCheck
<1>2. SubmitsStep /\ RestStep
  BY SubmitsUnchanged, Facts DEF GhostCheck, RestStep
<1> QED
  BY <1>1, <1>2, Quiet DEF GhostCheck

-----------------------------------------------------------------------------
(* The scheduler.                                                          *)

\* A step of the scheduler keeps what SchedulerKeeps says.
LEMMA SchedulerRest ==
  ASSUME IInv, SchedulerKeeps, faults' \in 0..MaxFaults
  PROVE  ThreadsStep /\ CleanupStep /\ SubmitsStep /\ RestStep
BY ThUnchanged, ThreadsAre, CleanupUnchanged, SubmitsUnchanged, RestUnchanged DEF SchedulerKeeps

\* A silent worker goes offline.
LEMMA MarkOfflineStep ==
  ASSUME IInv, NEW w \in Worker, MarkOffline(w)
  PROVE  Step
<1> DEFINE a == [agent[w] EXCEPT !.online = FALSE]
<1>1. a \in AgentState /\ a.fresh = agent[w].fresh
  BY Facts DEF AgentState
<1> HIDE DEF a
<1>2. agent' = [agent EXCEPT ![w] = a]
  BY DEF MarkOffline, a
<1>3. AgentsStep
  BY <1>1, <1>2, OneAgent, AgentsAre
<1>4. ThreadsStep /\ CleanupStep /\ SubmitsStep /\ RestStep
  BY SchedulerRest, Facts DEF MarkOffline
<1>5. RowsStep /\ DoomedStep
  BY JobUnchanged, DoomedUnchanged DEF MarkOffline
<1> QED
  BY <1>3, <1>4, <1>5, Quiet DEF MarkOffline

\* The orphan sweep fails active jobs only.
LEMMA SweptRows ==
  ASSUME IInv, NEW j \in Job
  PROVE  /\ Swept[j] \in Row
         /\ \/ Swept[j] = job[j]
            \/ job[j].st \in Active /\ Swept[j].st = "failed" /\ Keeps(j, job[j], Swept[j])
<1>1. job[j] \in Row /\ [job[j] EXCEPT !.st = "failed"].st = "failed"
  BY Facts DEF Row
<1>2. job[j].st \in Active => Submitted(j)
  BY DEF Active, Submitted
<1>3. Swept[j] = job[j] \/ (job[j].st \in Active /\ Swept[j] = [job[j] EXCEPT !.st = "failed"])
  BY DEF Swept, FailedRow
<1> DEFINE s == [job[j] EXCEPT !.st = "failed"]
<1>4. Submitted(j) => s \in Row /\ Keeps(j, job[j], s)
  BY FailsRow
<1>5. s.st = "failed"
  BY <1>1
<1> HIDE DEF s
<1>6. Swept[j] = job[j] \/ (job[j].st \in Active /\ Swept[j] = s)
  BY <1>3 DEF s
<1> QED
  BY <1>1, <1>2, <1>4, <1>5, <1>6

\* An iteration starts: it sweeps, and takes the pending jobs.
LEMMA IterateStep ==
  ASSUME IInv, Iterate
  PROVE  Step
<1>1. RowsStep
  <2>1. job' = Swept /\ Swept \in [Job -> Row]
    BY SweptRows DEF Iterate, Swept
  <2>2. \A j \in Job : Changes(j)
    BY <2>1, SweptRows DEF Changes
  <2>3. \A j \in Compute : Final(j)
    BY <2>1, SweptRows DEF Final, Compute, Active
  <2> QED
    BY <2>1, <2>2, <2>3 DEF RowsStep
<1>2. SchedStep
  <2> DEFINE Q == {j \in Job : Swept[j].st = "pending"}
  <2>1. sched' = Idle \/ \E W \in SUBSET Worker : sched' = [pc |-> "placing", queue |-> Q, workers |-> W]
    BY DEF Iterate
  <2>2. \A j \in Q : Submitted(j)
    BY SweptRows DEF Submitted
  <2>3. Q \subseteq Job
    OBVIOUS
  <2> HIDE DEF Q
  <2>4. CASE sched' = Idle
    BY <2>4, SchedIdle
  <2>5. CASE \E W \in SUBSET Worker : sched' = [pc |-> "placing", queue |-> Q, workers |-> W]
    BY <2>5, <2>2, <2>3 DEF SchedStep, SchedState
  <2> QED
    BY <2>1, <2>4, <2>5
<1>3. AgentsStep /\ DoomedStep
  BY AgentUnchanged, AgentsAre, DoomedUnchanged DEF Iterate
<1>4. ThreadsStep /\ CleanupStep /\ SubmitsStep /\ RestStep
  BY SchedulerRest, Facts DEF Iterate
<1> QED
  BY <1>1, <1>2, <1>3, <1>4 DEF Step

\* The watchdog cancels a job past its time limit.
LEMMA WatchdogStep ==
  ASSUME IInv, NEW j \in Job, Watchdog(j)
  PROVE  Step
<1>1. RowsStep
  BY JobUnchanged DEF Watchdog
<1>2. ThreadsStep
  BY UnregisterFollows, ThUnchanged, ThreadsAre DEF Watchdog
<1>3. Submitted(j) /\ DoomedStep /\ CleanupStep /\ AgentsStep
  BY Cancels, AgentsAre DEF Watchdog
<1>4. SchedStep
  BY <1>3 DEF Watchdog, SchedStep, SchedState, Idle
<1>5. SubmitsStep /\ RestStep
  BY SubmitsUnchanged, RestUnchanged, Facts DEF Watchdog
<1> QED
  BY <1>1, <1>2, <1>3, <1>4, <1>5 DEF Step

\* The iteration ends.
LEMMA EndsStep ==
  ASSUME IInv, WatchdogDone \/ EndIteration
  PROVE  Step
<1>1. RowsStep /\ AgentsStep /\ DoomedStep
  BY JobUnchanged, AgentUnchanged, AgentsAre, DoomedUnchanged DEF WatchdogDone, EndIteration
<1>2. ThreadsStep /\ CleanupStep /\ SubmitsStep /\ RestStep
  BY SchedulerRest, Facts DEF WatchdogDone, EndIteration
<1>3. SchedStep
  BY SchedIdle DEF WatchdogDone, EndIteration
<1> QED
  BY <1>1, <1>2, <1>3 DEF Step

\* The scheduler dies, and its cancellations with it.
LEMMA SchedulerCrashStep ==
  ASSUME IInv, SchedulerCrash
  PROVE  Step
<1>1. RowsStep /\ AgentsStep /\ DoomedStep
  BY JobUnchanged, AgentUnchanged, AgentsAre, DoomedUnchanged DEF SchedulerCrash
<1>2. ThreadsStep /\ CleanupStep /\ SubmitsStep /\ RestStep
  BY SchedulerRest, FaultBound DEF SchedulerCrash
<1>3. SchedStep
  BY SchedIdle DEF SchedulerCrash
<1> QED
  BY <1>1, <1>2, <1>3 DEF Step

\* The barrier: an update starts when no compute job is active, and waits
\* otherwise.
LEMMA BarrierStep ==
  ASSUME IInv, NEW m \in Maintenance, Barrier(m)
  PROVE  Step
<1>1. m \in Job /\ m \notin Compute /\ Submitted(m)
  BY JobLifecycleAssumption, Facts DEF Barrier, Compute, Known
<1>2. AgentsStep /\ DoomedStep
  BY AgentUnchanged, AgentsAre, DoomedUnchanged DEF Barrier
<1>3. ThreadsStep /\ CleanupStep /\ SubmitsStep /\ RestStep
  BY SchedulerRest, Facts DEF Barrier
<1>4. CASE BarrierClosed(m)
  BY <1>2, <1>3, <1>4, SchedIdle, JobUnchanged DEF Barrier, Step
<1>5. CASE ~BarrierClosed(m)
  <2> DEFINE s == [job[m] EXCEPT !.st = "running"]
  <2>1. job[m] \in Row
    BY <1>1, Facts
  <2>2. s \in Row /\ s.st = "running" /\ s.runner = job[m].runner
    BY <2>1 DEF Row, Status, Active
  <2> HIDE DEF s
  <2>3. job' = [job EXCEPT ![m] = s] /\ sched' = [Idle EXCEPT !.pc = "maintaining", !.queue = {m}]
    BY <1>5 DEF Barrier, s
  <2>4. Keeps(m, job[m], s)
    BY <1>1, <2>2 DEF Keeps, Submitted
  <2>5. RowsStep
    BY <1>1, <2>2, <2>3, <2>4, OneRow
  <2>6. SchedStep
    BY <1>1, <1>5, <2>3 DEF SchedStep, SchedState, Idle, BarrierClosed
  <2> QED
    BY <1>2, <1>3, <2>5, <2>6 DEF Step
<1> QED
  BY <1>4, <1>5

\* The update ends.
LEMMA MaintenanceEndsStep ==
  ASSUME IInv, NEW m \in Maintenance, NEW o \in Over, MaintenanceEnds(m, o)
  PROVE  Step
<1>1. m \in Job /\ m \notin Compute /\ Submitted(m)
  BY JobLifecycleAssumption, Facts DEF MaintenanceEnds, Compute, Known
<1>2. RowsStep
  <2> DEFINE s == [job[m] EXCEPT !.st = o]
  <2>1. job[m] \in Row
    BY <1>1, Facts
  <2>2. s \in Row /\ s.st = o /\ s.runner = job[m].runner
    BY <2>1 DEF Row, Status
  <2> HIDE DEF s
  <2>3. job' = [job EXCEPT ![m] = s]
    BY DEF MaintenanceEnds, s
  <2>4. Keeps(m, job[m], s)
    BY <1>1, <2>2 DEF Keeps, Submitted, Over
  <2> QED
    BY <1>1, <2>2, <2>3, <2>4, OneRow
<1>3. AgentsStep /\ DoomedStep
  BY AgentUnchanged, AgentsAre, DoomedUnchanged DEF MaintenanceEnds
<1>4. ThreadsStep /\ CleanupStep /\ SubmitsStep /\ RestStep
  BY SchedulerRest, Facts DEF MaintenanceEnds
<1> QED
  BY <1>2, <1>3, <1>4, SchedIdle DEF Step, MaintenanceEnds

\* The scheduler considers a job: it assigns it to a machine of its list when
\* its branch is free and it is pending still.
LEMMA ConsiderStep ==
  ASSUME IInv, NEW j \in Job, Consider(j)
  PROVE  Step
<1>1. sched \in SchedState /\ sched.pc = "placing" /\ j \in Compute
      /\ sched' = [sched EXCEPT !.queue = @ \ {j}]
  BY Facts DEF Consider, Compute
<1>2. sched' \in SchedState /\ sched'.pc = "placing" /\ sched'.queue \subseteq sched.queue
  BY <1>1 DEF SchedState
<1>3. SchedStep
  BY <1>2, Facts DEF SchedStep, Known
<1>4. AgentsStep /\ DoomedStep
  BY AgentUnchanged, AgentsAre, DoomedUnchanged DEF Consider
<1>5. ThreadsStep /\ CleanupStep /\ SubmitsStep /\ RestStep
  BY SchedulerRest, Facts DEF Consider
<1>6. RowsStep
  <2>1. CASE job' = job
    BY <2>1, JobUnchanged
  <2>2. CASE \E w \in Hosts(j) : job' = [job EXCEPT ![j] = Assigned(j, w)]
    <3>1. PICK w \in Hosts(j) : job' = [job EXCEPT ![j] = Assigned(j, w)]
      BY <2>2
    <3>2. w \in Worker /\ BranchFree(j) /\ job[j].runner < MaxRunners
      BY <1>1 DEF Hosts, SchedState
    <3>3. CASE job[j].st # "pending"
      <4>1. job' = job
        BY <3>1, <3>3, Facts DEF Assigned
      <4> QED
        BY <4>1, JobUnchanged
    <3>4. CASE job[j].st = "pending"
      <4> DEFINE s == [job[j] EXCEPT !.st = "assigned", !.worker = w, !.runner = @ + 1]
      <4>1. job[j] \in Row /\ job \in [Job -> Row]
        BY Facts
      <4>2. job[j].runner + 1 \in 0..MaxRunners
        BY <4>1, <3>2, JobLifecycleAssumption DEF Row
      <4>3. s \in Row /\ s.st = "assigned" /\ s.runner = job[j].runner + 1
        BY <4>1, <4>2, <3>2 DEF Row, Status, Active
      <4> HIDE DEF s
      <4>4. job' = [job EXCEPT ![j] = s]
        BY <3>1, <3>4 DEF Assigned, s
      <4>5. job' \in [Job -> Row] /\ job'[j] = s /\ \A k \in Job \ {j} : job'[k] = job[k]
        BY <4>1, <4>3, <4>4
      <4>6. Assign(j)
        BY <1>1, <1>2, <3>2, <3>4, <4>3, <4>5 DEF Assign
      <4>7. \A k \in Job : Changes(k)
        BY <4>5, <4>6 DEF Changes
      <4>8. \A k \in Compute : Final(k)
        BY <3>4, <4>5 DEF Final, Compute
      <4> QED
        BY <4>5, <4>7, <4>8 DEF RowsStep
    <3> QED
      BY <3>3, <3>4
  <2> QED
    BY <2>1, <2>2 DEF Consider
<1> QED
  BY <1>3, <1>4, <1>5, <1>6 DEF Step

\* A victim is marked.
LEMMA MarkPreemptingStep ==
  ASSUME IInv, NEW j \in Job, MarkPreempting(j)
  PROVE  Step
<1> DEFINE s == [job[j] EXCEPT !.preempting = TRUE]
<1>1. job[j] \in Row /\ job[j].st = "running"
  BY Facts DEF MarkPreempting
<1>2. s \in Row /\ s.st = "running" /\ s.runner = job[j].runner /\ s.worker = job[j].worker
  BY <1>1 DEF Row
<1> HIDE DEF s
<1>3. job' = [job EXCEPT ![j] = s]
  BY DEF MarkPreempting, s
<1>4. Keeps(j, job[j], s)
  BY <1>1, <1>2 DEF Keeps, Active
<1>5. RowsStep
  BY <1>1, <1>2, <1>3, <1>4, OneRow
<1>6. AgentsStep /\ DoomedStep
  BY AgentUnchanged, AgentsAre, DoomedUnchanged DEF MarkPreempting
<1>7. ThreadsStep /\ CleanupStep /\ SubmitsStep /\ RestStep
  BY SchedulerRest, Facts DEF MarkPreempting
<1> QED
  BY <1>5, <1>6, <1>7, Quiet DEF MarkPreempting

\* A registered executor gets its cleanup thread.
LEMMA PostPreemptStep ==
  ASSUME IInv, NEW j \in Job, PostPreempt(j)
  PROVE  Step
<1> DEFINE w == job[j].worker
<1>1. w \in Worker
  BY Facts DEF PostPreempt, Row
<1>2. PICK t \in Registered(w) : th' = [th EXCEPT ![w][t].stop = "kill"]
  BY DEF PostPreempt
<1> HIDE DEF w
<1>3. ThreadsStep
  <2> DEFINE v == [th[w][t] EXCEPT !.stop = "kill"]
  <2>1. t \in Thread /\ th[w][t] \in Executor /\ th[w][t].reg
    BY <1>1, Facts DEF Registered
  <2>2. th[w][t].pc \notin {"free", "starting"}
    BY <2>1 DEF Executor
  <2>3. v \in Executor /\ Follows(v, th[w][t])
    BY <2>1, <2>2 DEF Executor, ThreadState, Follows, Busy, Alive
  <2>4. th' = [th EXCEPT ![w][t] = v]
    BY <1>2
  <2> QED
    BY <1>1, <2>1, <2>3, <2>4, OneThread, ThreadsAre
<1>4. RowsStep /\ AgentsStep /\ DoomedStep /\ CleanupStep
  BY JobUnchanged, AgentUnchanged, AgentsAre, DoomedUnchanged, CleanupUnchanged DEF PostPreempt
<1>5. SubmitsStep /\ RestStep
  BY SubmitsUnchanged, RestUnchanged, Facts DEF PostPreempt
<1> QED
  BY <1>3, <1>4, <1>5, Quiet DEF PostPreempt

-----------------------------------------------------------------------------
(* The workers.                                                            *)

\* A step of a worker keeps what WorkerKeeps says.
LEMMA WorkerRest ==
  ASSUME IInv, WorkerKeeps, faults' \in 0..MaxFaults
  PROVE  SchedStep /\ SubmitsStep /\ RestStep
BY SchedUnchanged, SubmitsUnchanged, RestUnchanged DEF WorkerKeeps

\* A thread changes, and nothing else.
LEMMA ThreadOnly ==
  ASSUME IInv, NEW w \in Worker, NEW f \in [Thread -> Executor],
         \A t \in Thread : Follows(f[t], th[w][t]), th' = [th EXCEPT ![w] = f],
         UNCHANGED <<job, agent, cleanup, doomed, faults>>, WorkerKeeps
  PROVE  Step
<1>1. RowsStep /\ AgentsStep /\ DoomedStep /\ CleanupStep
  BY JobUnchanged, AgentUnchanged, AgentsAre, DoomedUnchanged, CleanupUnchanged
<1>2. ThreadsStep
  BY WorkerThreads, ThreadsAre
<1>3. SchedStep /\ SubmitsStep /\ RestStep
  BY WorkerRest, Facts
<1> QED
  BY <1>1, <1>2, <1>3 DEF Step

LEMMA OneThreadOnly ==
  ASSUME IInv, NEW w \in Worker, NEW t \in Thread, NEW v \in Executor, Follows(v, th[w][t]),
         th' = [th EXCEPT ![w][t] = v],
         UNCHANGED <<job, agent, cleanup, doomed, faults>>, WorkerKeeps
  PROVE  Step
<1>1. RowsStep /\ AgentsStep /\ DoomedStep /\ CleanupStep
  BY JobUnchanged, AgentUnchanged, AgentsAre, DoomedUnchanged, CleanupUnchanged
<1>2. ThreadsStep
  BY OneThread, ThreadsAre
<1>3. SchedStep /\ SubmitsStep /\ RestStep
  BY WorkerRest, Facts
<1> QED
  BY <1>1, <1>2, <1>3 DEF Step

\* A busy thread's job was submitted, and the thread does not run ahead of it.
LEMMA BusyThread ==
  ASSUME IInv, NEW w \in Worker, NEW t \in Thread, Busy(th[w][t])
  PROVE  LET u == th[w][t] IN
         /\ u \in Executor /\ u.job \in Compute /\ u.job \in Job /\ Submitted(u.job)
         /\ u.runner # 0 /\ job[u.job].runner # 0 /\ ThreadOK(w, u, job[u.job])
<1> DEFINE u == th[w][t]
<1>1. u \in Executor /\ ThreadOK(w, u, job[u.job])
  BY Facts DEF ThreadsOK
<1>2. u.job \in Compute /\ u.job \in Job /\ u.runner # 0 /\ u.runner \in Nat
  BY <1>1, JobLifecycleAssumption DEF ThreadOK, Compute, Executor, ThreadState
<1>3. job[u.job].runner # 0
  BY <1>1, <1>2, Facts, JobLifecycleAssumption DEF ThreadOK, Row
<1>4. Submitted(u.job)
  BY <1>2, <1>3, Facts DEF RowOK, NoRow, Submitted
<1> QED
  BY <1>1, <1>2, <1>3, <1>4

\* What update_job_status answers says of the row it found.
LEMMA AnswerMeans ==
  ASSUME NEW j, NEW w, NEW r, NEW kind, NEW a, a = Answer(j, w, r, kind)
  PROVE  /\ a \in {"accepted", "requeued"} => job[j].st \notin Over
         /\ a = "accepted" =>
              /\ job[j].st = "pending" => ~job[j].preempted
              /\ kind \in {"killed", "error"} => job[j].st \notin Active
              /\ kind # "ok" => r = 0 \/ job[j].runner = 0 \/ r = job[j].runner
         /\ a = "requeued" => job[j].preempting /\ kind = "preempted" /\ w = job[j].worker
         /\ a = "cancel" => job[j].st \in Active
BY DEF Answer

\* What a report writes when it is accepted.
LEMMA AcceptedRow ==
  ASSUME IInv, NEW j \in Job, NEW kind,
         NEW s, s = Accepted(j, kind)
  PROVE  /\ s \in Row /\ s.runner = job[j].runner /\ s.worker = job[j].worker
         /\ s.st = IF kind = "running" THEN "running" ELSE IF kind = "ok" THEN "completed"
                   ELSE "failed"
<1> DEFINE st == IF kind = "running" THEN "running" ELSE IF kind = "ok" THEN "completed"
                 ELSE "failed"
           p == IF kind = "ok" THEN FALSE ELSE job[j].preempting
<1>1. job[j] \in Row
  BY Facts
<1>2. st \in Status /\ p \in BOOLEAN
  BY <1>1 DEF Status, Active, Over, Row
<1>3. s = [job[j] EXCEPT !.st = st, !.preempting = p]
  BY DEF Accepted
<1> HIDE DEF st, p
<1>4. s \in Row /\ s.runner = job[j].runner /\ s.worker = job[j].worker /\ s.st = st
  BY <1>1, <1>2, <1>3 DEF Row
<1> QED
  BY <1>4 DEF st

\* A report of an end that is accepted finds a row that is not over.
LEMMA EndAccepted ==
  ASSUME IInv, NEW j \in Job, Submitted(j), NEW w, NEW r, NEW kind, kind # "running",
         Answer(j, w, r, kind) = "accepted", job' = [job EXCEPT ![j] = Accepted(j, kind)]
  PROVE  RowsStep
<1> DEFINE s == Accepted(j, kind)
<1>1. s \in Row /\ s.runner = job[j].runner /\ s.worker = job[j].worker /\ s.st \in Over
  BY AcceptedRow DEF Over
<1>2. job[j].st \notin Over
  BY AnswerMeans
<1> HIDE DEF s
<1>3. Keeps(j, job[j], s)
  BY <1>1 DEF Keeps, Submitted, Over, Active
<1>4. job' = [job EXCEPT ![j] = s]
  BY DEF s
<1> QED
  BY <1>1, <1>2, <1>3, <1>4, OneRow DEF Over

\* The first heartbeat after a start resets the jobs of the worker: nothing
\* runs on it, and what runs elsewhere belongs to earlier assignments.
LEMMA HeartbeatStep ==
  ASSUME IInv, NEW w \in Worker, Heartbeat(w)
  PROVE  Step
<1>1. RowsStep
  <2>1. CASE ~agent[w].fresh
    BY <2>1, JobUnchanged DEF Heartbeat
  <2>2. CASE agent[w].fresh
    <3>1. job' = StartupReset(w)
      BY <2>2 DEF Heartbeat
    <3>2. ASSUME NEW j \in Job
          PROVE  /\ job'[j] \in Row /\ Changes(j)
                 /\ job[j].st \in Over => job'[j] = job[j]
      <4>1. job[j] \in Row
        BY Facts
      <4>2. CASE job[j].worker # w \/ job[j].st \notin Active
        <5>1. job'[j] = job[j]
          BY <3>1, <4>2 DEF StartupReset, Active
        <5> QED
          BY <4>1, <5>1 DEF Changes
      <4>3. CASE job[j].worker = w /\ job[j].st = "running"
        <5> DEFINE s == [job[j] EXCEPT !.st = "failed"]
        <5>1. s \in Row /\ Keeps(j, job[j], s)
          BY <4>3, FailsRow DEF Submitted
        <5>2. job'[j] = s
          BY <3>1, <4>3 DEF StartupReset, FailedRow
        <5> QED
          BY <4>3, <5>1, <5>2 DEF Changes, Over
      <4>4. CASE job[j].worker = w /\ job[j].st = "assigned"
        <5> DEFINE s == [job[j] EXCEPT !.st = "pending", !.worker = None]
        <5>1. s \in Row /\ s.st = "pending" /\ s.runner = job[j].runner
          BY <4>1 DEF Row, Status
        <5> HIDE DEF s
        <5>2. job'[j] = s
          BY <3>1, <4>4 DEF StartupReset, s
        <5>3. Unstarted(j)
          <6> SUFFICES ASSUME NEW x \in Worker, NEW t \in Thread, Busy(th[x][t]), th[x][t].job = j,
                              th[x][t].runner = job[j].runner
                       PROVE  FALSE
            BY DEF Unstarted
          <6>1. x # w
            BY <2>2, Facts DEF FreshIsEmpty
          <6>2. ThreadOK(x, th[x][t], job[j])
            BY Facts DEF ThreadsOK
          <6> QED
            BY <4>4, <6>1, <6>2 DEF ThreadOK, Active
        <5>4. Reset(j)
          BY <4>4, <5>1, <5>2, <5>3 DEF Reset, Active
        <5> QED
          BY <4>4, <5>1, <5>2, <5>4 DEF Changes, Over
      <4> QED
        BY <4>2, <4>3, <4>4 DEF Active
    <3>3. job' \in [Job -> Row]
      BY <3>1, <3>2 DEF StartupReset
    <3>4. \A j \in Compute : Final(j)
      BY <3>2 DEF Final, Compute, Over
    <3> QED
      BY <3>2, <3>3, <3>4 DEF RowsStep
  <2> QED
    BY <2>1, <2>2
<1>2. AgentsStep
  <2> DEFINE a == [agent[w] EXCEPT !.online = TRUE, !.fresh = FALSE]
  <2>1. agent[w] \in AgentState
    BY Facts
  <2>2. a \in AgentState /\ ~a.fresh
    BY <2>1 DEF AgentState
  <2>3. agent' = [agent EXCEPT ![w] = a]
    BY DEF Heartbeat
  <2> QED
    BY <2>2, <2>3, OneAgent, AgentsAre
<1>3. ThreadsStep /\ DoomedStep /\ CleanupStep
  BY ThUnchanged, ThreadsAre, DoomedUnchanged, CleanupUnchanged DEF Heartbeat
<1>4. SchedStep /\ SubmitsStep /\ RestStep
  BY WorkerRest, Facts DEF Heartbeat
<1> QED
  BY <1>1, <1>2, <1>3, <1>4 DEF Step

\* A poll starts a thread for the runner the row names.
LEMMA PollStep ==
  ASSUME IInv, NEW w \in Worker, Poll(w)
  PROVE  Step
<1> DEFINE t == CHOOSE u \in FreeThreads(w) : TRUE
<1>1. PICK j \in Pollable(w) :
        /\ th' = [th EXCEPT ![w][t] = [NoThread EXCEPT !.job = j, !.runner = job[j].runner,
                                                     !.pc = "starting"]]
        /\ agent' = [agent EXCEPT ![w].current = j]
  BY DEF Poll
<1>2. t \in Thread
  BY DEF Poll, FreeThreads
<1> HIDE DEF t
<1>3. j \in Compute /\ j \in Job /\ job[j].worker = w /\ job[j].st \in Active
  BY <1>1 DEF Pollable, Compute
<1> DEFINE v == [NoThread EXCEPT !.job = j, !.runner = job[j].runner, !.pc = "starting"]
           a == [agent[w] EXCEPT !.current = j]
<1>4. v \in Executor /\ v.job = j /\ v.runner = job[j].runner
  <2>1. job[j].runner \in 0..MaxRunners
    BY <1>3, Facts DEF Row
  <2> QED
    BY <1>3, <2>1 DEF NoThread, Executor, ThreadState, Busy
<1>5. a \in AgentState /\ a.fresh = agent[w].fresh /\ ~a.fresh
  BY <1>3, Facts DEF AgentState, Poll
<1> HIDE DEF v, a
<1>6. agent' = [agent EXCEPT ![w] = a] /\ agent'[w] = a
  BY <1>1, <1>5, Facts DEF a
<1>7. ThreadsStep
  <2>1. th' = [th EXCEPT ![w][t] = v]
    BY <1>1 DEF v
  <2>2. th \in [Worker -> [Thread -> Executor]]
    BY Facts
  <2>3. th' \in [Worker -> [Thread -> Executor]] /\ th'[w][t] = v
    BY <1>2, <1>4, <2>1, <2>2
  <2>4. ASSUME NEW x \in Worker, NEW y \in Thread
        PROVE  th'[x][y] = th[x][y] \/ (x = w /\ th'[x][y] = v)
    BY <1>2, <2>1, <2>2
  <2>5. Begins(w, v)
    BY <1>3, <1>4, <1>5, <1>6 DEF Begins, Poll
  <2> QED
    BY <2>3, <2>4, <2>5 DEF ThreadsStep, Follows
<1>8. RowsStep /\ DoomedStep /\ CleanupStep
  BY JobUnchanged, DoomedUnchanged, CleanupUnchanged DEF Poll
<1>9. AgentsStep
  BY <1>5, <1>6, OneAgent, AgentsAre
<1>10. SchedStep /\ SubmitsStep /\ RestStep
  BY WorkerRest, Facts DEF Poll
<1> QED
  BY <1>7, <1>8, <1>9, <1>10 DEF Step

\* The purge kills, and starts nothing.
LEMMA PurgedFollows ==
  ASSUME IInv, NEW w \in Worker, NEW j
  PROVE  /\ Purged(w, j) \in [Thread -> Executor]
         /\ \A u \in Thread : Follows(Purged(w, j)[u], th[w][u])
<1>1. \A u \in Thread : th[w][u] \in Executor
  BY Facts
<1>2. \A u \in Thread : th[w][u].pc = "running" => Busy(th[w][u])
  BY DEF Busy
<1>3. \A u \in Thread : Follows(th[w][u], th[w][u])
  BY DEF Follows
<1> QED
  BY <1>1, <1>2, <1>3, KilledFollows DEF Purged

\* A thread starts: its report "running" is accepted only for a row that is
\* active still.
LEMMA StartThreadStep ==
  ASSUME IInv, NEW w \in Worker, NEW t \in Thread, StartThread(w, t)
  PROVE  Step
<1> DEFINE u == th[w][t]  j == u.job  r == job[j]
           a == Answer(j, w, u.runner, "running")
           pc == IF SlowSpawn THEN "spawning" ELSE "running"
           registered == [u EXCEPT !.pc = pc, !.reg = TRUE]
<1>1. Busy(u)
  BY DEF StartThread, Busy
<1>2. /\ u \in Executor /\ j \in Compute /\ j \in Job /\ Submitted(j)
      /\ u.runner # 0 /\ r.runner # 0 /\ ThreadOK(w, u, r)
  BY <1>1, BusyThread
<1>3. registered \in Executor /\ Follows(registered, u)
  <2>1. u.pc = "starting" /\ u.stop = "no"
    BY <1>2 DEF StartThread, Executor
  <2>2. pc \in {"spawning", "running"} /\ (pc = "spawning" => SlowSpawn)
    OBVIOUS
  <2> HIDE DEF pc
  <2> QED
    BY <1>2, <2>1, <2>2 DEF Executor, ThreadState, Follows, Busy, Alive
<1>4. Purged(w, j) \in [Thread -> Executor] /\ \A y \in Thread : Follows(Purged(w, j)[y], th[w][y])
  BY PurgedFollows
<1>5. DoomedStep /\ CleanupStep /\ SchedStep /\ SubmitsStep /\ RestStep
  BY DoomedUnchanged, CleanupUnchanged, WorkerRest, Facts DEF StartThread
<1>6. CASE /\ job' = IF a = "accepted" THEN [job EXCEPT ![j] = Accepted(j, "running")] ELSE job
           /\ th' = [th EXCEPT ![w] = [Purged(w, j) EXCEPT ![t] = registered]]
           /\ agent' = [agent EXCEPT ![w].current = j, ![w].proc = IF SlowSpawn THEN @ ELSE t]
  <2>1. ThreadsStep
    <3> DEFINE f == [Purged(w, j) EXCEPT ![t] = registered]
    <3> HIDE DEF registered
    <3>1. f \in [Thread -> Executor] /\ \A y \in Thread : Follows(f[y], th[w][y])
      BY <1>3, <1>4
    <3> QED
      BY <1>6, <3>1, WorkerThreads, ThreadsAre
  <2>2. AgentsStep
    <3> DEFINE p == IF SlowSpawn THEN agent[w].proc ELSE t
               b == [agent[w] EXCEPT !.current = j, !.proc = p]
    <3>1. agent[w] \in AgentState
      BY Facts
    <3>2. p \in Thread \cup {None}
      BY <3>1 DEF AgentState
    <3>3. agent' = [agent EXCEPT ![w] = b]
      BY <1>6, Facts
    <3> HIDE DEF p
    <3>4. b \in AgentState /\ b.fresh = agent[w].fresh
      BY <1>2, <3>1, <3>2 DEF AgentState
    <3> QED
      BY <3>3, <3>4, OneAgent, AgentsAre
  <2>3. RowsStep
    <3>1. CASE a # "accepted"
      BY <1>6, <3>1, JobUnchanged
    <3>2. CASE a = "accepted"
      <4> DEFINE s == Accepted(j, "running")
      <4>1. s \in Row /\ s.runner = r.runner /\ s.worker = r.worker /\ s.st = "running"
        BY <1>2, AcceptedRow
      <4>2. r.st \notin Over /\ (r.st = "pending" => ~r.preempted) /\ u.runner = r.runner
        <5> HIDE DEF j, r, u
        <5>1. a = "accepted" => /\ job[j].st \notin Over
                                /\ job[j].st = "pending" => ~job[j].preempted
                                /\ u.runner = 0 \/ job[j].runner = 0 \/ u.runner = job[j].runner
          BY AnswerMeans
        <5> QED
          BY <1>2, <3>2, <5>1 DEF r
      <4>3. r \in Row
        BY <1>2, Facts
      <4>4. r.st \in Active
        BY <1>2, <4>2, <4>3 DEF ThreadOK, Row, Status, Submitted
      <4> HIDE DEF s
      <4>5. Keeps(j, r, s)
        BY <1>2, <4>1, <4>4 DEF Keeps, Active
      <4>6. job' = [job EXCEPT ![j] = s]
        BY <1>6, <3>2 DEF s
      <4> QED
        BY <1>2, <4>1, <4>4, <4>5, <4>6, OneRow DEF Active
    <3> QED
      BY <3>1, <3>2
  <2> QED
    BY <1>5, <2>1, <2>2, <2>3 DEF Step
<1>7. CASE /\ th' = [th EXCEPT ![w] = [Purged(w, j) EXCEPT ![t] = NoThread]]
           /\ UNCHANGED <<job, agent>>
  <2>1. ThreadsStep
    <3> DEFINE f == [Purged(w, j) EXCEPT ![t] = NoThread]
    <3>1. f \in [Thread -> Executor] /\ \A y \in Thread : Follows(f[y], th[w][y])
      BY <1>4, FreeThread DEF Follows
    <3> QED
      BY <1>7, <3>1, WorkerThreads, ThreadsAre
  <2> QED
    BY <1>5, <1>7, <2>1, JobUnchanged, AgentUnchanged, AgentsAre DEF Step
<1> QED
  BY <1>6, <1>7 DEF StartThread

\* Popen.
LEMMA SpawnStep ==
  ASSUME IInv, NEW w \in Worker, NEW t \in Thread, Spawn(w, t)
  PROVE  Step
<1> DEFINE v == [th[w][t] EXCEPT !.pc = "running"]  a == [agent[w] EXCEPT !.proc = t]
<1>1. th[w][t] \in Executor /\ agent[w] \in AgentState /\ th[w][t].pc = "spawning"
  BY Facts DEF Spawn
<1>2. v \in Executor /\ Follows(v, th[w][t])
  BY <1>1 DEF Executor, ThreadState, Follows, Busy, Alive
<1>3. a \in AgentState /\ a.fresh = agent[w].fresh
  BY <1>1 DEF AgentState
<1>4. th' = [th EXCEPT ![w][t] = v] /\ agent' = [agent EXCEPT ![w] = a]
  BY DEF Spawn
<1> HIDE DEF v, a
<1>5. ThreadsStep /\ AgentsStep
  BY <1>2, <1>3, <1>4, OneThread, ThreadsAre, OneAgent, AgentsAre
<1>6. RowsStep /\ DoomedStep /\ CleanupStep
  BY JobUnchanged, DoomedUnchanged, CleanupUnchanged DEF Spawn
<1>7. SchedStep /\ SubmitsStep /\ RestStep
  BY WorkerRest, Facts DEF Spawn
<1> QED
  BY <1>5, <1>6, <1>7 DEF Step

\* A process ends, is destroyed, is left by its preempted executor, or is
\* dropped from the list of executors.
LEMMA OneThreadSteps ==
  ASSUME IInv, NEW w \in Worker, NEW t \in Thread,
         \/ \E o \in {"ok", "bad"} : Exit(w, t, o)
         \/ SelfHeal(w, t) \/ KeepEntry(w, t) \/ DropEnded(w, t)
  PROVE  Step
<1> DEFINE u == th[w][t]
<1>1. u \in Executor /\ Busy(u)
  BY Facts DEF Exit, SelfHeal, KeepEntry, DropEnded, Busy
<1>2. ASSUME NEW o \in {"ok", "bad"}, Exit(w, t, o)
      PROVE  Step
  <2> DEFINE v == [u EXCEPT !.pc = "exited", !.out = o]
  <2>1. v \in Executor /\ Follows(v, u)
    BY <1>1 DEF Executor, ThreadState, Follows, Busy, Alive
  <2>2. th' = [th EXCEPT ![w][t] = v]
    BY <1>2, Facts DEF Exit
  <2> QED
    BY <1>2, <2>1, <2>2, OneThreadOnly DEF Exit
<1>3. CASE SelfHeal(w, t)
  BY <1>1, <1>3, KilledFollows, OneThreadOnly DEF SelfHeal
<1>4. CASE KeepEntry(w, t)
  <2> DEFINE v == [u EXCEPT !.pc = "kept"]
  <2>1. v \in Executor /\ Follows(v, u)
    BY <1>1 DEF Executor, ThreadState, Follows, Busy, Alive
  <2>2. th' = [th EXCEPT ![w][t] = v]
    BY <1>4 DEF KeepEntry
  <2> QED
    BY <1>4, <2>1, <2>2, OneThreadOnly DEF KeepEntry
<1>5. CASE DropEnded(w, t)
  <2> DEFINE v == [u EXCEPT !.reg = FALSE]
  <2>1. v \in Executor /\ Follows(v, u)
    BY <1>1 DEF Executor, ThreadState, Follows, Busy, Alive
  <2>2. th' = [th EXCEPT ![w][t] = v]
    BY <1>5 DEF DropEnded
  <2> QED
    BY <1>5, <2>1, <2>2, OneThreadOnly DEF DropEnded
<1> QED
  BY <1>2, <1>3, <1>4, <1>5

\* The cleanup thread of a preemption stops the process.
LEMMA StopKillStep ==
  ASSUME IInv, NEW w \in Worker, NEW t \in Thread, StopKill(w, t)
  PROVE  Step
<1> DEFINE S == Stopped(w, t)  v == [S[t] EXCEPT !.stop = "ack"]  f == [S EXCEPT ![t] = v]
<1>1. \A y \in Thread : th[w][y] \in Executor
  BY Facts
<1>2. \A y \in Thread : th[w][y].pc = "running" => Busy(th[w][y])
  BY DEF Busy
<1>3. Busy(th[w][t])
  BY <1>1 DEF StopKill, Executor, Busy
<1>4. S \in [Thread -> Executor] /\ \A y \in Thread : Follows(S[y], th[w][y])
  BY <1>1, <1>2, KilledFollows DEF Stopped, Follows
<1>5. S[t].pc \notin {"free", "starting", "running"}
  <2>1. th[w][t] \in Executor /\ th[w][t].stop = "kill"
    BY <1>1 DEF StopKill
  <2> QED
    BY <2>1 DEF Stopped, Killed, Executor, ThreadState
<1> HIDE DEF S
<1>6. v \in Executor /\ Follows(v, th[w][t])
  <2>1. S[t] \in Executor /\ Follows(S[t], th[w][t])
    BY <1>4
  <2> QED
    BY <1>5, <2>1 DEF Executor, ThreadState, Follows, Busy, Alive
<1> HIDE DEF v
<1>7. f \in [Thread -> Executor] /\ \A y \in Thread : Follows(f[y], th[w][y])
  BY <1>4, <1>6
<1>8. th' = [th EXCEPT ![w] = f]
  BY DEF StopKill, S, v
<1> QED
  BY <1>7, <1>8, ThreadOnly DEF StopKill

\* It acknowledges; the headnode puts the job back into the queue, marked.
LEMMA StopAckStep ==
  ASSUME IInv, NEW w \in Worker, NEW t \in Thread, StopAck(w, t)
  PROVE  Step
<1> DEFINE u == th[w][t]
           a == IF agent[w].cut THEN "conflict" ELSE Answer(u.job, w, u.runner, "preempted")
<1>1. u \in Executor /\ Busy(u) /\ u.pc # "starting"
  <2>1. u \in Executor /\ u.stop = "ack"
    BY Facts DEF StopAck
  <2> QED
    BY <2>1 DEF Executor, Busy
<1>2. u.job \in Job /\ u.job \in Compute /\ Submitted(u.job)
  BY <1>1, BusyThread
<1>3. DoomedStep /\ CleanupStep /\ SchedStep /\ SubmitsStep /\ RestStep
  BY DoomedUnchanged, CleanupUnchanged, WorkerRest, Facts DEF StopAck
<1>4. CASE a = "conflict"
  <2> DEFINE v == [u EXCEPT !.stop = "held"]
  <2>1. v \in Executor /\ Follows(v, u)
    BY <1>1 DEF Executor, ThreadState, Follows, Busy, Alive
  <2>2. th' = [th EXCEPT ![w][t] = v] /\ UNCHANGED <<job, agent>>
    BY <1>4 DEF StopAck
  <2> QED
    BY <1>3, <2>1, <2>2, OneThread, ThreadsAre, JobUnchanged, AgentUnchanged, AgentsAre DEF Step
<1>5. CASE a # "conflict"
  <2> DEFINE v == IF u.pc = "kept" THEN NoThread ELSE [u EXCEPT !.stop = "no", !.reg = FALSE]
  <2>1. /\ job' = IF a = "requeued" THEN [job EXCEPT ![u.job] = Requeued(u.job)] ELSE job
        /\ th' = [th EXCEPT ![w][t] = v]
        /\ agent' = [agent EXCEPT ![w] = Refocus(w, Registered(w) \ {t})]
    BY <1>5 DEF StopAck
  <2>2. v \in Executor /\ Follows(v, u)
    <3>1. CASE u.pc = "kept"
      BY <3>1, FreeThread DEF Follows
    <3>2. CASE u.pc # "kept"
      BY <1>1, <3>2 DEF Executor, ThreadState, Follows, Busy, Alive
    <3> QED
      BY <3>1, <3>2
  <2>3. ThreadsStep /\ AgentsStep
    <3> HIDE DEF v
    <3>1. Registered(w) \ {t} \in SUBSET Thread
      BY DEF Registered
    <3> QED
      BY <2>1, <2>2, <3>1, OneThread, ThreadsAre, RefocusType, OneAgent, AgentsAre
  <2>4. RowsStep
    <3>1. CASE a # "requeued"
      BY <2>1, <3>1, JobUnchanged
    <3>2. CASE a = "requeued"
      <4> DEFINE j == u.job  s == Requeued(j)
      <4>1. job[j] \in Row /\ job[j].st \notin Over /\ job[j].worker = w
        <5> HIDE DEF u, j
        <5>1. Answer(u.job, w, u.runner, "preempted") = "requeued"
                => job[u.job].st \notin Over /\ job[u.job].worker = w
          BY AnswerMeans
        <5> QED
          BY <1>2, <3>2, <5>1, Facts DEF j
      <4>2. s \in Row /\ s.st = "pending" /\ s.preempted /\ s.runner = job[j].runner
        BY <4>1 DEF Requeued, Row, Status
      <4>3. job' = [job EXCEPT ![j] = s]
        BY <2>1, <3>2
      <4> HIDE DEF s
      <4>4. ASSUME OneAtATime
            PROVE  Retired(j)
        <5> SUFFICES ASSUME NEW x \in Worker, NEW y \in Thread, th[x][y].job = j, Alive(th[x][y])
                     PROVE  FALSE
          BY DEF Retired
        <5>1. x = w
          BY <4>1, <4>4, Facts DEF Owned, Owns
        <5>2. y = t
          BY <4>4 DEF OneAtATime
        <5>3. u.pc \notin {"starting", "spawning", "running"}
          BY <1>1, <4>4 DEF StopAck, Executor, OneAtATime
        <5> QED
          BY <5>1, <5>2, <5>3 DEF Alive
      <4>5. Keeps(j, job[j], s)
        BY <1>2, <4>2, <4>4 DEF Keeps, Submitted, Active
      <4> QED
        BY <1>2, <4>1, <4>2, <4>3, <4>5, OneRow DEF Over
    <3> QED
      BY <3>1, <3>2
  <2> QED
    BY <1>3, <2>3, <2>4 DEF Step
<1> QED
  BY <1>4, <1>5

\* The finally block of a thread frees it and kills what is left of its job.
LEMMA EndThreadParts ==
  ASSUME IInv, NEW w \in Worker, NEW t \in Thread, EndThread(w, t)
  PROVE  ThreadsStep /\ AgentsStep
<1> DEFINE K(y) == IF th[w][y].pc = "running" THEN Killed(th[w][y]) ELSE th[w][y]
           V(y) == [K(y) EXCEPT !.reg = @ /\ (th[w][y].stop # "no" \/ th[w][y].runner # th[w][t].runner)]
<1>1. ASSUME NEW y \in Thread
      PROVE  LetGo(w, t)[y] \in Executor /\ Follows(LetGo(w, t)[y], th[w][y])
  <2>1. th[w][y] \in Executor
    BY Facts
  <2>2. CASE y = t
    BY <2>2, FreeThread DEF LetGo, Follows
  <2>3. CASE y # t /\ th[w][y].job # th[w][t].job
    BY <2>1, <2>3 DEF LetGo, Follows
  <2>4. CASE y # t /\ th[w][y].job = th[w][t].job
    <3>1. LetGo(w, t)[y] = V(y)
      BY <2>4 DEF LetGo
    <3>2. K(y) \in Executor /\ Follows(K(y), th[w][y])
      BY <2>1, KilledFollows DEF Busy, Follows, Alive
    <3> DEFINE b == th[w][y].stop # "no" \/ th[w][y].runner # th[w][t].runner
    <3>3. b \in BOOLEAN
      OBVIOUS
    <3>4. ASSUME NEW k \in Executor, Follows(k, th[w][y]), NEW c \in BOOLEAN
          PROVE  LET v == [k EXCEPT !.reg = @ /\ c] IN v \in Executor /\ Follows(v, th[w][y])
      BY <3>4 DEF Executor, ThreadState, Follows, Busy, Alive
    <3> HIDE DEF K, b
    <3>5. V(y) = [K(y) EXCEPT !.reg = @ /\ b]
      BY DEF b
    <3> HIDE DEF V
    <3> QED
      BY <3>1, <3>2, <3>3, <3>4, <3>5
  <2> QED
    BY <2>2, <2>3, <2>4
<1>2. LetGo(w, t) \in [Thread -> Executor]
  BY <1>1 DEF LetGo
<1>3. ThreadsStep
  BY <1>1, <1>2, WorkerThreads, ThreadsAre DEF EndThread
<1>4. Rest(w, t) \in SUBSET Thread
  BY DEF Rest
<1>5. AgentsStep
  BY <1>4, RefocusType, OneAgent, AgentsAre DEF EndThread
<1> QED
  BY <1>3, <1>5

\* The exit report.
LEMMA ReportExitStep ==
  ASSUME IInv, NEW w \in Worker, NEW t \in Thread, ReportExit(w, t)
  PROVE  Step
<1> DEFINE u == th[w][t]
           a == IF agent[w].cut \/ u.out = "routed" THEN "lost"
                ELSE Answer(u.job, w, u.runner, u.out)
<1>1. u \in Executor /\ Busy(u)
  BY Facts DEF ReportExit, Busy
<1>2. u.job \in Job /\ Submitted(u.job)
  BY <1>1, BusyThread
<1>3. SchedStep /\ SubmitsStep /\ RestStep
  BY WorkerRest, Facts DEF ReportExit
<1>4. \/ /\ a = "accepted" /\ job' = [job EXCEPT ![u.job] = Accepted(u.job, u.out)]
         /\ EndThread(w, t) /\ UNCHANGED <<cleanup, doomed>>
      \/ /\ BeginCancel(u.job, "api") /\ UNCHANGED job
         /\ th' = [Unregister(th, u.job) EXCEPT ![w][t].out = "routed"]
      \/ EndThread(w, t) /\ UNCHANGED <<job, cleanup, doomed>>
      \/ th' = [th EXCEPT ![w][t].out = "error"] /\ UNCHANGED <<job, agent, cleanup, doomed>>
  BY DEF ReportExit
<1>5. CASE /\ a = "accepted" /\ job' = [job EXCEPT ![u.job] = Accepted(u.job, u.out)]
           /\ EndThread(w, t) /\ UNCHANGED <<cleanup, doomed>>
  <2>1. u.out # "running"
    BY <1>1 DEF Executor, ThreadState
  <2>2. Answer(u.job, w, u.runner, u.out) = "accepted"
    BY <1>5
  <2> HIDE DEF u
  <2>3. RowsStep
    BY <1>2, <1>5, <2>1, <2>2, EndAccepted
  <2> QED
    BY <1>3, <1>5, <2>3, EndThreadParts, DoomedUnchanged, CleanupUnchanged DEF Step
<1>6. CASE /\ BeginCancel(u.job, "api") /\ UNCHANGED job
           /\ th' = [Unregister(th, u.job) EXCEPT ![w][t].out = "routed"]
  <2> DEFINE T == Unregister(th, u.job)  v == [T[w][t] EXCEPT !.out = "routed"]
  <2>1. ThreadsFollow(T)
    BY <1>2, UnregisterFollows, ThUnchanged
  <2>2. T[w][t].pc = "exited"
    <3>1. u.pc = "exited"
      BY DEF ReportExit
    <3>2. T[w][t] = u \/ T[w][t] = [u EXCEPT !.reg = FALSE]
      BY DEF Unregister
    <3> QED
      BY <1>1, <3>1, <3>2 DEF Executor, ThreadState
  <2> HIDE DEF T
  <2>3. T \in [Worker -> [Thread -> Executor]] /\ \A x \in Worker, y \in Thread : Follows(T[x][y], th[x][y])
    BY <2>1 DEF ThreadsFollow
  <2>4. v \in Executor /\ Follows(v, u)
    <3>1. T[w][t] \in Executor /\ Follows(T[w][t], u)
      BY <2>3
    <3> HIDE DEF u
    <3> QED
      BY <2>2, <3>1 DEF Executor, ThreadState, Follows, Busy, Alive
  <2>5. th' = [T EXCEPT ![w][t] = v]
    BY <1>6 DEF T
  <2> HIDE DEF v
  <2>6. ThreadsFollow(th')
    BY <2>3, <2>4, <2>5 DEF ThreadsFollow
  <2> QED
    BY <1>2, <1>3, <1>6, <2>6, ThreadsAre, Cancels, AgentsAre, JobUnchanged DEF Step
<1>7. CASE EndThread(w, t) /\ UNCHANGED <<job, cleanup, doomed>>
  BY <1>3, <1>7, EndThreadParts, JobUnchanged, DoomedUnchanged, CleanupUnchanged DEF Step
<1>8. CASE th' = [th EXCEPT ![w][t].out = "error"] /\ UNCHANGED <<job, agent, cleanup, doomed>>
  <2> DEFINE v == [u EXCEPT !.out = "error"]
  <2>1. v \in Executor /\ Follows(v, u)
    <3> HIDE DEF u
    <3> QED
      BY <1>1 DEF Executor, ThreadState, Follows, Busy, Alive
  <2>2. th' = [th EXCEPT ![w][t] = v]
    BY <1>8
  <2> HIDE DEF v
  <2>3. ThreadsStep
    BY <2>1, <2>2, OneThread, ThreadsAre
  <2>4. RowsStep /\ AgentsStep
    BY <1>8, JobUnchanged, AgentUnchanged, AgentsAre
  <2>5. DoomedStep /\ CleanupStep
    BY <1>8, DoomedUnchanged, CleanupUnchanged
  <2> QED
    BY <1>3, <2>3, <2>4, <2>5 DEF Step
<1> QED
  BY <1>4, <1>5, <1>6, <1>7, <1>8

\* _async_job_cleanup kills, and reports a failure of the job.
LEMMA CleanupThreadStep ==
  ASSUME IInv, NEW c \in cleanup, Cleanup(c)
  PROVE  Step
<1> DEFINE a == IF agent[c.worker].cut THEN "lost" ELSE Answer(c.job, c.worker, 0, "killed")
           struck == [th EXCEPT ![c.worker] = Struck(c)]
<1>1. c.worker \in Worker /\ c.job \in Job /\ Submitted(c.job)
  BY Facts DEF Kill, Known
<1>2. ThreadsFollow(struck)
  <2>1. \A y \in Thread : th[c.worker][y] \in Executor
    BY <1>1, Facts
  <2>2. \A y \in Thread : th[c.worker][y].pc = "running" => Busy(th[c.worker][y])
    BY DEF Busy
  <2>3. Struck(c) \in [Thread -> Executor] /\ \A y \in Thread : Follows(Struck(c)[y], th[c.worker][y])
    BY <2>1, <2>2, KilledFollows DEF Struck, Follows
  <2> QED
    BY <1>1, <2>3, WorkerThreads
<1> HIDE DEF struck
<1>3. ThreadsFollow(th')
  BY <1>1, <1>2, UnregisterFollows DEF Cleanup, struck
<1>4. RowsStep
  <2>1. CASE a = "accepted"
    <3>1. Answer(c.job, c.worker, 0, "killed") = "accepted"
      BY <2>1
    <3>2. job' = [job EXCEPT ![c.job] = Accepted(c.job, "killed")]
      BY <2>1 DEF Cleanup
    <3> QED
      BY <1>1, <3>1, <3>2, EndAccepted
  <2>2. CASE a # "accepted"
    <3>1. job' = job
      BY <2>2 DEF Cleanup
    <3> QED
      BY <3>1, JobUnchanged
  <2> QED
    BY <2>1, <2>2
<1>5. DoomedStep
  BY <1>1, Facts DEF Cleanup, DoomedStep, Doom, Known, Cancellation
<1>6. CleanupStep
  <2>1. cleanup' \subseteq cleanup \cup (IF Posts(c.job) THEN ToKill(job[c.job].worker, c.job) ELSE {})
    BY DEF Cleanup
  <2> QED
    BY <1>1, <2>1, CancelParts, Facts DEF CleanupStep, Known
<1>7. AgentsStep
  BY <1>1, CancelParts, AgentUnchanged, AgentsAre DEF Cleanup
<1>8. SchedStep /\ SubmitsStep /\ RestStep
  BY WorkerRest, Facts DEF Cleanup
<1> QED
  BY <1>3, <1>4, <1>5, <1>6, <1>7, <1>8, ThreadsAre DEF Step

\* An agent dies, or is stopped: its executors are gone or lose their entries.
LEMMA AgentEndStep ==
  ASSUME IInv, NEW w \in Worker, AgentCrash(w) \/ AgentStops(w)
  PROVE  Step
<1> DEFINE a == [agent[w] EXCEPT !.up = FALSE, !.current = None, !.proc = None]
<1>1. agent[w] \in AgentState
  BY Facts
<1>2. a \in AgentState /\ a.fresh = agent[w].fresh
  BY <1>1 DEF AgentState
<1>3. agent' = [agent EXCEPT ![w] = a]
  BY Facts DEF AgentCrash, AgentStops
<1> HIDE DEF a
<1>4. AgentsStep
  BY <1>2, <1>3, OneAgent, AgentsAre
<1>5. RowsStep /\ CleanupStep
  BY JobUnchanged, CleanupUnchanged DEF AgentCrash, AgentStops
<1>6. SchedStep /\ SubmitsStep /\ RestStep
  BY WorkerRest, FaultBound DEF AgentCrash, AgentStops
<1>7. ThreadsStep
  <2> DEFINE f == [t \in Thread |-> IF th[w][t].pc = "running"
                   THEN [th[w][t] EXCEPT !.reg = FALSE, !.stop = "no"] ELSE NoThread]
             g == [t \in Thread |-> NoThread]
  <2>1. ASSUME NEW t \in Thread
        PROVE  f[t] \in Executor /\ Follows(f[t], th[w][t])
    <3>1. th[w][t] \in Executor
      BY Facts
    <3>2. CASE th[w][t].pc = "running"
      BY <3>1, <3>2 DEF Executor, ThreadState, Follows, Busy, Alive
    <3>3. CASE th[w][t].pc # "running"
      BY <3>3, FreeThread DEF Follows
    <3> QED
      BY <3>2, <3>3
  <2>2. g \in [Thread -> Executor] /\ \A t \in Thread : Follows(g[t], th[w][t])
    BY FreeThread DEF Follows
  <2>3. f \in [Thread -> Executor]
    BY <2>1
  <2>4. th' = [th EXCEPT ![w] = f] \/ th' = [th EXCEPT ![w] = g]
    BY DEF AgentCrash, AgentStops
  <2> HIDE DEF f, g
  <2> QED
    BY <2>1, <2>2, <2>3, <2>4, WorkerThreads, ThreadsAre
<1>8. DoomedStep
  <2>1. CASE AgentCrash(w)
    BY <2>1, DoomedUnchanged DEF AgentCrash
  <2>2. CASE AgentStops(w)
    <3> DEFINE J == {i \in ActiveJobs(w) \ {None} : Answer(i, w, 0, "killed") = "cancel"}
    <3>1. J \subseteq Job
      <4>1. \A t \in Thread : th[w][t].job \in Job \cup {None}
        BY Facts DEF Executor, ThreadState
      <4>2. agent[w].current \in Job \cup {None}
        BY <1>1 DEF AgentState
      <4> QED
        BY <4>1, <4>2 DEF ActiveJobs, Registered
    <3>2. \A i \in J : Submitted(i)
      BY AnswerMeans DEF Submitted, Active
    <3>3. doomed' = doomed \cup {Doom(i, "api") : i \in J}
      BY <2>2 DEF AgentStops
    <3> HIDE DEF J
    <3> QED
      BY <3>1, <3>2, <3>3, Facts DEF DoomedStep, Doom, Known, Cancellation
  <2> QED
    BY <2>1, <2>2
<1> QED
  BY <1>4, <1>5, <1>6, <1>7, <1>8 DEF Step

\* An agent restarts: its machine is purged first.
LEMMA AgentRestartStep ==
  ASSUME IInv, NEW w \in Worker, AgentRestart(w)
  PROVE  Step
<1> DEFINE a == [agent[w] EXCEPT !.up = TRUE, !.fresh = TRUE]
           g == [t \in Thread |-> NoThread]
<1>1. agent[w] \in AgentState /\ agent \in [Worker -> AgentState]
      /\ th \in [Worker -> [Thread -> Executor]]
  BY Facts
<1>2. a \in AgentState
  BY <1>1 DEF AgentState
<1>3. agent' = [agent EXCEPT ![w] = a] /\ th' = [th EXCEPT ![w] = g]
  BY <1>1 DEF AgentRestart
<1>4. g \in [Thread -> Executor] /\ \A t \in Thread : ~Busy(g[t]) /\ ~Alive(g[t])
  BY FreeThread
<1> HIDE DEF a, g
<1>5. ThreadsStep
  BY <1>3, <1>4, WorkerThreads, ThreadsAre DEF Follows
<1>6. AgentsStep
  BY <1>1, <1>2, <1>3, <1>4 DEF AgentsStep
<1>7. RowsStep /\ DoomedStep /\ CleanupStep
  BY JobUnchanged, DoomedUnchanged, CleanupUnchanged DEF AgentRestart
<1>8. SchedStep /\ SubmitsStep /\ RestStep
  BY WorkerRest, Facts DEF AgentRestart
<1> QED
  BY <1>5, <1>6, <1>7, <1>8 DEF Step

\* A network breaks or heals.
LEMMA NetworkStep ==
  ASSUME IInv, NEW w \in Worker, Partition(w) \/ Heal(w)
  PROVE  Step
<1>1. PICK b \in BOOLEAN : agent' = [agent EXCEPT ![w].cut = b]
  BY DEF Partition, Heal
<1> DEFINE a == [agent[w] EXCEPT !.cut = b]
<1>2. agent[w] \in AgentState
  BY Facts
<1>3. a \in AgentState /\ a.fresh = agent[w].fresh
  BY <1>2 DEF AgentState
<1>4. agent' = [agent EXCEPT ![w] = a]
  BY <1>1
<1> HIDE DEF a
<1>5. AgentsStep
  BY <1>3, <1>4, OneAgent, AgentsAre
<1>6. RowsStep /\ ThreadsStep /\ DoomedStep /\ CleanupStep
  BY JobUnchanged, ThUnchanged, ThreadsAre, DoomedUnchanged, CleanupUnchanged DEF Partition, Heal
<1>7. faults' \in 0..MaxFaults
  BY FaultBound, Facts DEF Partition, Heal
<1>8. SchedStep /\ SubmitsStep /\ RestStep
  BY <1>7, WorkerRest DEF Partition, Heal
<1> QED
  BY <1>5, <1>6, <1>8 DEF Step

-----------------------------------------------------------------------------
\* Every step of the system is one of these.
LEMMA NextStep ==
  ASSUME IInv, Next
  PROVE  Step
<1>1. CASE Headnode
  <2>1. ASSUME NEW j \in Job, Submit(j) \/ StopJob(j) \/ GhostCheck(j)
        PROVE  Step
    BY <2>1, SubmitStep, StopJobStep, GhostCheckStep
  <2>2. ASSUME NEW s \in submits, SubmitCancels(s) \/ SubmitInserts(s)
        PROVE  Step
    BY <2>2, SubmitCancelsStep, SubmitInsertsStep
  <2>3. ASSUME NEW d \in doomed, FinishCancel(d)
        PROVE  Step
    BY <2>3, FinishCancelStep
  <2>4. CASE GhostRead
    <3>1. RowsStep /\ ThreadsStep /\ AgentsStep /\ DoomedStep /\ CleanupStep
      BY <2>4, Idles DEF GhostRead
    <3>2. SubmitsStep /\ RestStep
      BY <2>4, SubmitsUnchanged, Facts DEF GhostRead, RestStep, Candidates
    <3> QED
      BY <2>4, <3>1, <3>2, Quiet DEF GhostRead
  <2> QED
    BY <1>1, <2>1, <2>2, <2>3, <2>4 DEF Headnode
<1>2. CASE GitHub
  BY <1>2, OutsideStep DEF GitHub
<1>3. CASE SchedulerStep
  <2>1. CASE Iterate \/ EndIteration \/ WatchdogDone
    BY <2>1, IterateStep, EndsStep
  <2>2. ASSUME NEW j \in Job, Consider(j) \/ Watchdog(j) \/ MarkPreempting(j) \/ PostPreempt(j)
        PROVE  Step
    BY <2>2, ConsiderStep, WatchdogStep, MarkPreemptingStep, PostPreemptStep
  <2>3. ASSUME NEW m \in Maintenance, Barrier(m) \/ \E s \in Over : MaintenanceEnds(m, s)
        PROVE  Step
    BY <2>3, BarrierStep, MaintenanceEndsStep
  <2>4. ASSUME NEW w \in Worker, MarkOffline(w)
        PROVE  Step
    BY <2>4, MarkOfflineStep
  <2> QED
    BY <1>3, <2>1, <2>2, <2>3, <2>4 DEF SchedulerStep
<1>4. ASSUME NEW w \in Worker, AgentStep(w)
      PROVE  Step
  <2>1. CASE Heartbeat(w) \/ Poll(w) \/ AgentRestart(w) \/ Heal(w)
    BY <2>1, HeartbeatStep, PollStep, AgentRestartStep, NetworkStep
  <2>2. ASSUME NEW t \in Thread, ThreadStep(w, t)
        PROVE  Step
    BY <2>2, StartThreadStep, SpawnStep, ReportExitStep, StopKillStep, StopAckStep, OneThreadSteps
       DEF ThreadStep
  <2> QED
    BY <1>4, <2>1, <2>2 DEF AgentStep
<1>5. ASSUME NEW c \in cleanup, Cleanup(c)
      PROVE  Step
  BY <1>5, CleanupThreadStep
<1>6. ASSUME NEW j \in Job, Expire(j)
      PROVE  Step
  BY <1>6, OutsideStep
<1>7. ASSUME NEW w \in Worker, AgentCrash(w) \/ AgentStops(w) \/ Partition(w)
      PROVE  Step
  BY <1>7, AgentEndStep, NetworkStep
<1> QED
  BY <1>1, <1>2, <1>3, <1>4, <1>5, <1>6, <1>7, SchedulerCrashStep DEF Next

\* A step that changes nothing keeps the invariant.
LEMMA Stutters ==
  ASSUME IInv, UNCHANGED vars
  PROVE  IInv' /\ \A j \in Compute : Final(j)
<1>1. RowsStep /\ ThreadsStep /\ AgentsStep /\ DoomedStep /\ CleanupStep
  BY Idles DEF vars
<1>2. SchedStep /\ SubmitsStep /\ RestStep
  BY SchedUnchanged, SubmitsUnchanged, RestUnchanged, Facts DEF vars
<1> QED
  BY <1>1, <1>2, StepKeeps DEF Step

\* The invariant holds in every reachable state.
THEOREM JobInvariant == Spec => []IInv
<1>1. IInv /\ [Next]_vars => IInv'
  BY NextStep, StepKeeps, Stutters
<1> QED
  BY InitIInv, <1>1, PTL DEF Spec

\* Every row, thread, cancellation and submission keeps its type, so a runner
\* never passes its bound and a report never names an unknown job.
THEOREM JobTypeOK == Spec => []TypeOK
<1>1. IInv => TypeOK
  BY TypesOK DEF IInv, Types
<1> QED
  BY <1>1, JobInvariant, PTL

\* Two jobs of one branch are never active together, whatever reports,
\* requeues, resets and cancellations cross the scheduler's count.
THEOREM OneJobPerBranch == Spec => []BranchExclusive
<1>1. IInv => BranchExclusive
  BY DEF IInv
<1> QED
  BY <1>1, JobInvariant, PTL

\* On workers with one executor thread, which registers when its process
\* starts, a job never has processes on two machines.  (With more threads TLC
\* finds a job polled twice before the first thread has registered.)
THEOREM OneMachinePerJob ==
  ASSUME OneAtATime
  PROVE  Spec => []SingleWorker
<1>1. IInv => SingleWorker
  BY DEF IInv, Owned, Owns, Alive, SingleWorker, Live
<1> QED
  BY <1>1, JobInvariant, PTL

\* No compute job is active while the cluster is updated.
THEOREM UpdatesRunAlone == Spec => []MaintenanceAlone
<1>1. IInv => MaintenanceAlone
  BY DEF IInv, Updating, MaintenanceAlone
<1> QED
  BY <1>1, JobInvariant, PTL

\* A failed compute job stays failed, and a completed one is lost only to a
\* cancellation under way.
THEOREM OutcomesAreFinal == Spec => OutcomeIsFinal
<1>1. IInv /\ [Next]_vars =>
        [\A j \in Compute :
           /\ job[j].st = "failed" => job'[j].st = "failed"
           /\ job[j].st = "completed" =>
                job'[j].st = "completed" \/ (job'[j].st = "failed" /\ Doomed(j))]_vars
  BY NextStep, StepKeeps DEF Final
<1> QED
  BY <1>1, JobInvariant, PTL DEF Spec, OutcomeIsFinal
=============================================================================
