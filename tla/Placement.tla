----------------------------- MODULE Placement -----------------------------
(***************************************************************************)
(* Which machine a job or a stage gets: schedule_iteration of              *)
(* scheduler_loop.py, which looks once at all machines and then gives them *)
(* away job by job, beside the runners that ask for stages                 *)
(* (handle_next_node) in transactions of their own.                        *)
(*                                                                         *)
(* A task is a stage of a parallel job or a whole classic job.  Memory is  *)
(* one quantity (CPUs and disk are bounded in the same way), devices are   *)
(* taken one by one.  Preemption and reports are in the modules Preemption *)
(* and NodeDispatch: a stage ends here in one step, done or failed.        *)
(***************************************************************************)
EXTENDS Integers, Sequences, FiniteSetsExt

CONSTANTS
  Parallel, Classic, Stage, \* jobs of both kinds, stages of the parallel ones
  JobOf, Parent,            \* of each stage: its job, the stages it reads
  Need,                     \* of each task: memory, devices, memory of a device
  Prio, User, Created, Repo, Branch, \* of each job; Prio of each stage too
  Worker, Cap, Rank,        \* machines, what they have, placement priority
  MaxWorkersPerJob

Job == Parallel \cup Classic
Task == Stage \cup Classic
None == "none"

ASSUME PlacementAssumption ==
  /\ Parallel \cap Classic = {} /\ Stage \cap Job = {} /\ None \notin Job \cup Worker
  /\ JobOf \in [Stage -> Parallel] /\ Parent \in [Stage -> SUBSET Stage]
  /\ \A s \in Stage, p \in Stage : p \in Parent[s] => JobOf[p] = JobOf[s] /\ p # s
  /\ Need \in [Task -> [mem : Nat, gpus : Nat, vram : Nat]]
  /\ \A t \in Task : Need[t].vram > 0 => Need[t].gpus > 0
  /\ Prio \in [Job \cup Stage -> 0..2] /\ Created \in [Job -> Nat]
  /\ \A w \in Worker : Cap[w].mem \in Nat /\ Cap[w].unified \in BOOLEAN /\ Cap[w].vram \in Seq(Nat)
  /\ \A c \in Classic : Need[c].gpus = IF Need[c].vram > 0 THEN 1 ELSE 0
  /\ Rank \in [Worker -> Nat] /\ IsFiniteSet(Worker) /\ MaxWorkersPerJob \in Nat \ {0}

VARIABLES
  row,      \* of each task: status, machine, devices
  job,      \* of each parallel job: status, home_worker, active_workers
  assigned, \* workers.assigned_job_id
  runner,   \* the executors that live: a job on a machine
  it        \* the iteration of the scheduler: what it looked at, what is left

vars == <<row, job, assigned, runner, it>>

Device(w) == 0..Len(Cap[w].vram) - 1
Devices == UNION {Device(w) : w \in Worker}
Hold == [task : Task, gpus : SUBSET Devices]
StagesOf(j) == {s \in Stage : JobOf[s] = j}
Ready(j) == {s \in StagesOf(j) : row[s].st = "ready"}
Running(j) == {s \in StagesOf(j) : row[s].st = "running"}
Active == {j \in Parallel : job[j].st = "active"}
Over(j) == IF j \in Classic THEN row[j].st \in {"done", "failed"} ELSE job[j].st \in {"completed", "failed"}

Repos == {Repo[j] : j \in Job}
Row == [st : {"waiting", "ready", "running", "done", "failed", "blocked"},
        at : Worker \cup {None}, gpus : SUBSET Devices]
Record == [st : {"pending", "active", "completed", "failed"}, home : Worker \cup {None}, act : SUBSET Worker]
Iteration ==
  [at : {"off", "queue", "classic", "extra"}, queue : SUBSET Job, key : [Job -> Nat \X Nat \X Nat],
   held : [Worker -> SUBSET Hold], repos : [Worker -> SUBSET Repos], classic : [Worker -> SUBSET Repos],
   act : [Parallel -> SUBSET Worker], homeless : SUBSET Parallel, users : [Job -> Nat],
   jobs : SUBSET Parallel, left : SUBSET Worker, job : Classic \cup {None}, pick : Worker \cup {None}]

\* The home comes on top of the additional machines, so that only these are bounded.
TypeOK ==
  /\ row \in [Task -> Row]
  /\ \A t \in Task : IF row[t].st = "running" THEN row[t].at # None /\ row[t].gpus \subseteq Device(row[t].at)
                                              ELSE row[t].at = None
  /\ job \in [Parallel -> Record]
  /\ \A j \in Parallel : Cardinality(job[j].act \ {job[j].home}) <= MaxWorkersPerJob
  /\ assigned \in [Worker -> Parallel \cup {None}]
  /\ runner \subseteq Parallel \X Worker
  /\ it \in Iteration
  /\ it.at = "classic" => it.job # None /\ it.pick # None

Rest == [at |-> "off", queue |-> {}, key |-> [j \in Job |-> <<0, 0, 0>>], held |-> [w \in Worker |-> {}], repos |-> [w \in Worker |-> {}],
         classic |-> [w \in Worker |-> {}], act |-> [j \in Parallel |-> {}], homeless |-> {},
         users |-> [j \in Job |-> 0], jobs |-> {}, left |-> {}, job |-> None, pick |-> None]

Init ==
  /\ row = [t \in Task |-> [st |-> IF t \in Stage /\ Parent[t] # {} THEN "waiting" ELSE "ready",
                            at |-> None, gpus |-> {}]]
  /\ job = [j \in Parallel |-> [st |-> "pending", home |-> None, act |-> {}]]
  /\ assigned = [w \in Worker |-> None]
  /\ runner = {} /\ it = Rest

-----------------------------------------------------------------------------
(* Admission and devices.                                                  *)

\* get_worker_allocated_resources: stages and classic jobs that hold w.
Held(w) == {[task |-> t, gpus |-> row[t].gpus] : t \in {u \in Task : row[u].st = "running" /\ row[u].at = w}}

\* active_repos: of what holds w, and of the parallel jobs that are at home there.
BugReposOn(w) == {Repo[IF h.task \in Stage THEN JobOf[h.task] ELSE h.task] : h \in Held(w)}
ReposOn(w) ==
  {Repo[IF h.task \in Stage THEN JobOf[h.task] ELSE h.task] : h \in Held(w)}
  \cup {Repo[j] : j \in {k \in Active : job[k].home = w}}

Mem(w, t) == Need[t].mem + IF Cap[w].unified THEN Need[t].vram ELSE 0
UsedMem(w, held) == FoldSet(LAMBDA h, sum : sum + Mem(w, h.task), 0, held)
Taken(held) == UNION {h.gpus : h \in held}

\* allocate_gpus takes the free devices with the least memory that suffice; in
\* unified memory there is one device.  It returns a set of devices, or fails.
Suits(w, t, held) ==
  {g \in Device(w) \ Taken(held) :
     Cap[w].unified \/ Need[t].vram = 0 \/ Cap[w].vram[g + 1] >= Need[t].vram}
Before(w, t, g, h) ==
  IF Need[t].vram = 0 \/ Cap[w].vram[g + 1] = Cap[w].vram[h + 1] THEN g < h
  ELSE Cap[w].vram[g + 1] < Cap[w].vram[h + 1]
Allocations(w, t, held) ==
  IF Cap[w].unified /\ Need[t].gpus > 1 THEN {}
  ELSE {G \in SUBSET Suits(w, t, held) :
          /\ Cardinality(G) = Need[t].gpus
          /\ \A g \in G, h \in Suits(w, t, held) \ G : Before(w, t, g, h)}

\* is_worker_admissible_for_node
Admits(w, t, held) == UsedMem(w, held) + Mem(w, t) <= Cap[w].mem /\ Allocations(w, t, held) # {}

\* What an empty machine can hold.
Fitting == {wt \in Worker \X Task : Admits(wt[1], wt[2], {})}
Fits(w, t) == <<w, t>> \in Fitting
Possible(t) == \E w \in Worker : Fits(w, t)

\* higher_priority_stage_awaits_launch: of another job that holds w.
HigherAwaits(w, prio, j) ==
  \E k \in Active \ {j} : /\ w \in job[k].act \cup {job[k].home}
                          /\ \E s \in Ready(k) : Prio[s] < prio /\ Admits(w, s, Held(w))

-----------------------------------------------------------------------------
(* The order of the queue: scheduling_order.py.                            *)

\* get_user_machine_counts: the machines a user's stages and jobs hold.
MachinesOf(u) ==
  {row[t].at : t \in {x \in Task : row[x].st = "running" /\ User[IF x \in Stage THEN JobOf[x] ELSE x] = u}}
  \cup UNION {job[j].act \cup {job[j].home} : j \in {k \in Active : User[k] = u}}

\* job_sort_key, then what a job's ready stages make of its priority.
Ahead(p, q) == \E i \in 1..Len(p) : p[i] < q[i] /\ \A k \in 1..i - 1 : p[k] = q[k]
Urgency(j) ==
  IF j \in Classic \/ Ready(j) = {} THEN Prio[j]
  ELSE CHOOSE p \in {Prio[s] : s \in Ready(j)} : \A s \in Ready(j) : p <= Prio[s]
Key(j) == <<Urgency(j), Cardinality(MachinesOf(User[j])), Created[j]>>

\* The head of the queue: nobody left in it is ahead.
First == {j \in it.queue : \A k \in it.queue : ~Ahead(it.key[k], it.key[j])}

\* extra_worker_sort_key: priority, machines of the job, machines of its user.
ExtraKey(j) == <<Prio[j], Cardinality(it.act[j]), it.users[j], Created[j]>>

-----------------------------------------------------------------------------
(* The rows.                                                               *)

\* update_dag_ready_states: no stage is run again here, so that only the rows
\* that wait can move.
Walk(r) ==
  LET Lost(s) == \E p \in Parent[s] : r[p].st \in {"failed", "blocked"}
      Fed(s)  == \A p \in Parent[s] : r[p].st = "done" IN
  [t \in Task |-> IF t \notin Stage \/ r[t].st # "waiting" THEN r[t]
                  ELSE [r[t] EXCEPT !.st = IF Lost(t) THEN "blocked" ELSE IF Fed(t) THEN "ready" ELSE @]]

\* get_aggregated_job_status of a job that was not ended explicitly.
Aggregated(j) ==
  LET St == {row[s].st : s \in StagesOf(j)} IN
  IF St \subseteq {"done"} THEN "completed"
  ELSE IF St \cap {"running", "ready"} # {} THEN "active"
  ELSE IF St \cap {"failed", "blocked"} # {} THEN "failed" ELSE "active"

-----------------------------------------------------------------------------
(* One iteration of the scheduler.                                         *)

Waiting == {j \in Parallel : job[j].st \in {"pending", "active"}} \cup {c \in Classic : row[c].st = "ready"}

\* It looks at everything once, and sorts who may get a first machine.
Look ==
  /\ it.at = "off" /\ Waiting # {}
  /\ row' = Walk(row)
  /\ it' = [at |-> "queue",
            queue |-> Waiting, key |-> [j \in Job |-> Key(j)],
            held |-> [w \in Worker |-> Held(w)],
            repos |-> [w \in Worker |-> ReposOn(w)],
            classic |-> [w \in Worker |-> {Repo[h.task] : h \in {x \in Held(w) : x.task \in Classic}}],
            act |-> [j \in Parallel |-> IF Over(j) THEN {} ELSE job[j].act \cup ({job[j].home} \ {None})],
            homeless |-> {j \in Parallel : job[j].home = None},
            users |-> [j \in Job |-> Cardinality(MachinesOf(User[j]))],
            jobs |-> Waiting \cap Parallel, left |-> {}, job |-> None, pick |-> None]
  /\ UNCHANGED <<job, assigned, runner>>

\* check_job_impossible_nodes: a stage that no machine can hold, even empty,
\* fails its job at once.
FailImpossible(j) ==
  /\ \E s \in StagesOf(j) :
       /\ row[s].st \in {"waiting", "ready"} /\ ~Possible(s)
       /\ row' = [row EXCEPT ![s].st = "failed"]
  /\ job' = [job EXCEPT ![j].st = "failed"]
  /\ it' = [it EXCEPT !.queue = @ \ {j}, !.jobs = @ \ {j}, !.act[j] = {}]
  /\ UNCHANGED assigned

\* The best machine that admits a ready stage becomes the home; cost and load
\* decide among equals.  The stage is counted there, but holds no device.
Homes(j) ==
  {w \in Worker : /\ Repo[j] \notin it.classic[w] \/ Prio[j] = 0
                  /\ \E s \in Ready(j) : Admits(w, s, it.held[w])}
Best(W) == {w \in W : \A v \in W : Rank[v] <= Rank[w]}

\* A job may have been given additional machines before it has a home.
Housed(j, w) == [job EXCEPT ![j] = [st |-> "active", home |-> w, act |-> it.act[j] \cup {w}]]

GiveHome(j) ==
  /\ \E w \in Best(Homes(j)) :
       /\ job' = Housed(j, w)
       /\ assigned' = [assigned EXCEPT ![w] = j]
       /\ \E s \in Ready(j) :
            /\ Admits(w, s, it.held[w])
            /\ \A x \in Ready(j) : Admits(w, x, it.held[w]) => Prio[s] <= Prio[x]
            /\ it' = [it EXCEPT !.queue = @ \ {j}, !.act[j] = @ \cup {w}, !.repos[w] = @ \cup {Repo[j]},
                               !.held[w] = @ \cup {[task |-> s, gpus |-> {}]}]
  /\ UNCHANGED row

Hopeless(j) == \E s \in StagesOf(j) : row[s].st \in {"waiting", "ready"} /\ ~Possible(s)

PlaceParallel ==
  /\ it.at = "queue"
  /\ \E j \in First \cap Parallel :
       IF Hopeless(j) THEN FailImpossible(j)
       ELSE IF j \in it.homeless /\ Homes(j) # {} THEN GiveHome(j)
       ELSE it' = [it EXCEPT !.queue = @ \ {j}] /\ UNCHANGED <<row, job, assigned>>
  /\ UNCHANGED runner

\* A classic job: not beside its branch, nor on a machine of its repository.
BranchBusy(c) ==
  \E j \in Active \cup {d \in Classic : row[d].st = "running"} :
    j # c /\ Repo[j] = Repo[c] /\ Branch[j] = Branch[c]
Machines(c) ==
  {w \in Worker : ~HigherAwaits(w, Prio[c], c) /\ Admits(w, c, it.held[w]) /\ Repo[c] \notin it.repos[w]}

PickMachine ==
  /\ it.at = "queue"
  /\ \E c \in First \cap Classic :
       IF BranchBusy(c) \/ Machines(c) = {}
       THEN /\ it' = [it EXCEPT !.queue = @ \ {c}]
            /\ row' = IF BranchBusy(c) \/ Possible(c) THEN row ELSE [row EXCEPT ![c].st = "failed"]
       ELSE /\ \E w \in Best(Machines(c)) :
                 it' = [it EXCEPT !.at = "classic", !.queue = @ \ {c}, !.job = c, !.pick = w]
            /\ UNCHANGED row
  /\ UNCHANGED <<job, assigned, runner>>

\* After it asked the workers for their caches: devices are chosen from what
\* the iteration saw when it looked.
BugGiven(c, w, G) == [it EXCEPT !.at = "queue", !.job = None, !.pick = None]
Given(c, w, G) ==
  [it EXCEPT !.at = "queue", !.job = None, !.pick = None, !.repos[w] = @ \cup {Repo[c]},
             !.held[w] = @ \cup {[task |-> c, gpus |-> G]}]
PlaceClassic ==
  /\ it.at = "classic"
  /\ \E G \in Allocations(it.pick, it.job, it.held[it.pick]) :
       /\ row' = [row EXCEPT ![it.job] = [st |-> "running", at |-> it.pick, gpus |-> G]]
       /\ it' = Given(it.job, it.pick, G)
  /\ UNCHANGED <<job, assigned, runner>>

\* The machines that are nobody's home, carry no classic job and belong to no
\* job are additional ones.
FirstPlaced ==
  /\ it.at = "queue" /\ it.queue = {}
  /\ it' = [it EXCEPT !.at = "extra",
              !.left = Worker \ ({job[j].home : j \in Active} \cup {row[c].at : c \in Classic}
                                 \cup UNION {it.act[j] : j \in it.jobs})]
  /\ UNCHANGED <<row, job, assigned, runner>>

\* Jobs with more stages to run than machines, or with a stage that none of
\* their machines can hold.
BugUses(j, w) ==
  {s \in Ready(j) : Admits(w, s, it.held[w]) /\ Cardinality(it.act[j]) < Cardinality(Ready(j) \cup Running(j))}
Uses(j, w) ==
  {s \in Ready(j) :
     /\ Admits(w, s, it.held[w])
     /\ \/ Cardinality(it.act[j]) < Cardinality(Ready(j) \cup Running(j))
        \/ \A v \in it.act[j] : ~Fits(v, s)}
Eligible(w) == {j \in it.jobs : Cardinality(it.act[j]) < MaxWorkersPerJob /\ Uses(j, w) # {}}

\* The row of the job is written from what the iteration saw.
BugExpanded(j, w) == [job EXCEPT ![j].act = it.act[j]]
Expanded(j, w) == [job EXCEPT ![j].act = it.act[j] \cup {w}]

GiveExtra ==
  /\ it.at = "extra"
  /\ \E w \in Best(it.left) :
       \/ /\ Eligible(w) = {}
          /\ it' = [it EXCEPT !.left = @ \ {w}] /\ UNCHANGED <<job, assigned>>
       \/ \E j \in Eligible(w) :
            /\ \A k \in Eligible(w) : ~Ahead(ExtraKey(k), ExtraKey(j))
            /\ job' = Expanded(j, w) /\ assigned' = [assigned EXCEPT ![w] = j]
            /\ it' = [it EXCEPT !.left = @ \ {w}, !.act[j] = @ \cup {w}]
  /\ UNCHANGED <<row, runner>>

EndIteration ==
  /\ it.at = "extra" /\ it.left = {} /\ it' = Rest
  /\ UNCHANGED <<row, job, assigned, runner>>

-----------------------------------------------------------------------------
(* Machines and runners.                                                   *)

\* worker_poll hands a machine the jobs it belongs to.
Poll(j, w) ==
  /\ j \in Active /\ <<j, w>> \notin runner
  /\ w \in job[j].act \cup {job[j].home} \/ assigned[w] = j
  /\ runner' = runner \cup {<<j, w>>}
  /\ UNCHANGED <<row, job, assigned, it>>

\* The end of a runner and its exit report.
Leaves(j, w, jobs, machines) ==
  /\ runner' = runner \ {<<j, w>>}
  /\ job' = IF j \in Active THEN [jobs EXCEPT ![j].st = Aggregated(j)] ELSE jobs
  /\ assigned' = [v \in Worker |-> IF machines[v] = j /\ (v = w \/ job'[j].st \in {"completed", "failed"})
                                   THEN None ELSE machines[v]]
  /\ UNCHANGED <<row, it>>

\* _release_worker_from_job
Released(j, w) == [job EXCEPT ![j].act = @ \ {w}]
GivesBack(j, w) == Leaves(j, w, Released(j, w), [assigned EXCEPT ![w] = None])

Idle(w) ==
  {v \in Worker \ {w} : /\ assigned[v] = None /\ Held(v) = {}
                         /\ \A k \in Active : v \notin job[k].act \cup {job[k].home}}

\* Fairness when a stage has ended: an additional machine goes to a classic
\* job that waits, or to a job that holds at least two machines less.
WantedByClassic(j, w) ==
  \E c \in Classic : /\ row[c].st = "ready" /\ Prio[c] <= Urgency(j) /\ Fits(w, c)
                      /\ \A v \in Idle(w) : ~Fits(v, c)
WantedByParallel(j, w) ==
  \E k \in Parallel \ {j} :
    /\ job[k].st \in {"pending", "active"} /\ Prio[k] <= Urgency(j)
    /\ Prio[k] < Urgency(j) \/ Cardinality(job[k].act) + 1 < Cardinality(job[j].act)
    /\ \E s \in Ready(k) : Fits(w, s)
    /\ \A v \in Idle(w), s \in Ready(k) : ~Fits(v, s)
Wanted(j, w) == w # job[j].home /\ (WantedByClassic(j, w) \/ WantedByParallel(j, w))

Claimable(j, w) ==
  LET held == Held(w) IN {s \in Ready(j) : Admits(w, s, held) /\ ~HigherAwaits(w, Prio[s], j)}

Between(j, w) == <<j, w>> \in runner /\ \A s \in Running(j) : row[s].at # w

\* next_node: the stage is claimed under a lock, on what holds w by then.
Claim(j, w) ==
  /\ Between(j, w) /\ j \in Active
  /\ UNCHANGED <<job, assigned, runner, it>>
  /\ ~Wanted(j, w)
  /\ LET C == Claimable(j, w) IN
     \E s \in C :
       /\ \A x \in C : Prio[s] <= Prio[x]
       /\ \E G \in Allocations(w, s, Held(w)) : row' = [row EXCEPT ![s] = [st |-> "running", at |-> w, gpus |-> G]]

GiveBack(j, w) ==
  /\ Between(j, w) /\ j \in Active /\ w # job[j].home
  /\ GivesBack(j, w)
  /\ Wanted(j, w) \/ Claimable(j, w) = {}

Finish(j, w) ==
  /\ Between(j, w)
  /\ \/ j \notin Active
     \/ w = job[j].home /\ \A s \in StagesOf(j) : row[s].st \notin {"waiting", "ready", "running"}
  /\ Leaves(j, w, job, assigned)

TaskEnds(t) ==
  /\ row[t].st = "running"
  /\ \E st \in {"done", "failed"} : row' = Walk([row EXCEPT ![t] = [st |-> st, at |-> None, gpus |-> {}]])
  /\ UNCHANGED <<job, assigned, runner, it>>

-----------------------------------------------------------------------------
Scheduler == Look \/ PlaceParallel \/ PickMachine \/ PlaceClassic \/ FirstPlaced \/ GiveExtra \/ EndIteration
RunnerStep(j, w) == Poll(j, w) \/ Claim(j, w) \/ GiveBack(j, w) \/ Finish(j, w)

Next ==
  \/ Scheduler
  \/ \E j \in Parallel, w \in Worker : RunnerStep(j, w)
  \/ \E t \in Task : TaskEnds(t)

Spec == Init /\ [][Next]_vars

\* The scheduler repeats its iteration, the machines poll, the runners ask, and
\* tasks end by themselves or at their time limit: each once, so that what is
\* owed to all of them together is owed to each.
LiveSpec ==
  /\ Spec /\ WF_vars(Scheduler)
  /\ \A j \in Parallel, w \in Worker : WF_vars(RunnerStep(j, w))
  /\ WF_vars(\E t \in Task : TaskEnds(t))

-----------------------------------------------------------------------------
(* Properties.                                                             *)

Starts(t) == row[t].st # "running" /\ row'[t].st = "running"

\* No memory and no device is given twice, whatever the runners claim while the
\* scheduler works through its queue: only a classic job may start beside a
\* stage that was claimed after the iteration had looked.
NoOvercommit ==
  [][\A t \in Task : Starts(t) =>
       LET w == row'[t].at
           Unseen == {h \in Held(w) : h.task \in Stage /\ h \notin it.held[w]}
           Others == IF t \in Classic THEN Held(w) \ Unseen ELSE Held(w) IN
       /\ UsedMem(w, Others) + Mem(w, t) <= Cap[w].mem
       /\ row'[t].gpus \cap Taken(Others) = {}
       /\ Cardinality(row'[t].gpus) = Need[t].gpus]_vars

\* A classic job never starts where another classic job of its repository runs,
\* nor on the home of a parallel one: they would share a checkout.
RepoApart ==
  [][\A c \in Classic : Starts(c) =>
       LET w == row'[c].at IN
       /\ \A d \in Classic : Repo[d] = Repo[c] => row[d].at # w
       /\ \A j \in Active : Repo[j] = Repo[c] => job[j].home # w]_vars

\* The machine a stage runs on belongs to its job, although the list of its
\* machines is rewritten from what an iteration saw earlier.
StageHasMachine ==
  \A s \in Stage : row[s].st = "running" /\ JobOf[s] \in Active => row[s].at \in job[JobOf[s]].act

\* A job is cornered when none of its machines can hold a ready stage, and each
\* machine that could is the home of another job, or asked back for a classic
\* job that waits for the end of this one.
Cornered(j) ==
  /\ j \in Active /\ Ready(j) # {} /\ Running(j) = {}
  /\ \A s \in Ready(j), w \in Worker : Fits(w, s) =>
       /\ w # job[j].home
       /\ \/ \E k \in Active \ {j} : job[k].home = w
          \/ \E c \in Classic : row[c].st = "ready" /\ Fits(w, c) /\ Repo[c] = Repo[j] /\ Branch[c] = Branch[j]

\* Every job ends, completed or failed, unless some job stays cornered.
EveryJobEnds == <>[](\A j \in Job : Over(j)) \/ <>[](\E j \in Parallel : Cornered(j))
=============================================================================
