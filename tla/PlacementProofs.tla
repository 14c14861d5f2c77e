-------------------------- MODULE PlacementProofs --------------------------
(***************************************************************************)
(* What is proved of Placement for every number of jobs, machines, devices *)
(* and stages: an iteration of the scheduler gives away what it saw when   *)
(* it looked, while tasks end and runners claim stages, and still a stage  *)
(* runs only on a machine of its job, two jobs never share a checkout and  *)
(* no device is given twice.                                               *)
(*                                                                         *)
(* The argument compares what the iteration remembers with the tables: its *)
(* list of a job's machines holds at least the machines of the row, since  *)
(* between its writes the rows only lose machines (Seen); it knows the     *)
(* repositories and the devices of every classic job, since only itself    *)
(* starts one (ReposSeen, HeldSeen); and whoever may fetch or run a stage  *)
(* on a machine is in the row (Belongs, Served).  The memory part of       *)
(* NoOvercommit is a sum over a set, which needs an induction, and is left *)
(* to TLC.                                                                 *)
(***************************************************************************)
EXTENDS Placement, FiniteSetTheorems, TLAPS

\* A job that waits has no home and no runner; the home of one that runs is
\* among its machines.
Homed ==
  \A j \in Parallel :
    /\ job[j].st = "pending" => job[j].home = None /\ \A w \in Worker : <<j, w>> \notin runner
    /\ job[j].st = "active" => job[j].home \in job[j].act

\* Whoever polls for a job or runs it is in the list of its machines.
Belongs ==
  \A j \in Parallel, w \in Worker :
    job[j].st \in {"pending", "active"} /\ (assigned[w] = j \/ <<j, w>> \in runner) => w \in job[j].act

\* A stage runs in a runner of its job.
Served == \A s \in Stage : row[s].st = "running" => <<JobOf[s], row[s].at>> \in runner

\* What the iteration remembers of a job: at least the machines of its row, and
\* of what it has not placed yet, that it still waits.
Seen ==
  it.at # "off" =>
    /\ it.queue \cap Parallel \subseteq it.jobs
    /\ \A j \in it.queue \cap it.homeless : job[j].st = "pending"
    /\ \A c \in it.queue \cap Classic : row[c].st # "running"
    /\ \A j \in it.jobs :
         /\ job[j].st \in {"pending", "active"} => job[j].act \subseteq it.act[j]
         /\ Cardinality(it.act[j] \ {job[j].home}) <= MaxWorkersPerJob

\* The iteration knows the repository of everything that a classic job must avoid.
ReposSeen ==
  it.at # "off" =>
    /\ \A d \in Classic : row[d].st = "running" => Repo[d] \in it.repos[row[d].at]
    /\ \A j \in Parallel : job[j].st = "active" => Repo[j] \in it.repos[job[j].home]

\* The iteration knows the devices of every classic job that runs.
HeldSeen ==
  it.at # "off" =>
    \A d \in Classic : row[d].st = "running" => [task |-> d, gpus |-> row[d].gpus] \in it.held[row[d].at]

\* The machine that was picked for a classic job is free of its repository.
Chosen == it.at = "classic" => Repo[it.job] \notin it.repos[it.pick] /\ it.job \notin it.queue

\* The inductive invariant.
IInv == TypeOK /\ Homed /\ Belongs /\ Served /\ Seen /\ ReposSeen /\ HeldSeen /\ Chosen

\* A step that starts nothing: what runs afterwards ran before, where it was.
RowsEnd ==
  /\ row' \in [Task -> Row]
  /\ \A t \in Task : IF row'[t].st = "running"
                     THEN row[t].st = "running" /\ row'[t].at = row[t].at /\ row'[t].gpus = row[t].gpus
                     ELSE row'[t].at = None

\* A set of machines is finite, and no subset of it is larger.
LEMMA Sizes ==
  ASSUME NEW S \in SUBSET Worker, NEW T \in SUBSET S
  PROVE  Cardinality(S) \in Nat /\ Cardinality(T) \in Nat /\ Cardinality(T) <= Cardinality(S) /\ IsFiniteSet(S)
  <1>1. IsFiniteSet(Worker)
    BY PlacementAssumption
  <1>2. IsFiniteSet(S)
    BY <1>1, FS_Subset
  <1> QED BY <1>2, FS_Subset, FS_CardinalityType

\* A job below the ceiling may get one more machine.
LEMMA OneMore ==
  ASSUME NEW S \in SUBSET Worker, NEW w \in Worker, NEW h \in Worker \cup {None},
         Cardinality(S) < MaxWorkersPerJob
  PROVE  Cardinality((S \cup {w}) \ {h}) <= MaxWorkersPerJob
  <1>1. IsFiniteSet(S) /\ Cardinality(S) \in Nat
    BY Sizes
  <1>2. Cardinality(S \cup {w}) <= Cardinality(S) + 1
    <2>1. Cardinality(S \cup {w}) = Cardinality(S) \/ Cardinality(S \cup {w}) = Cardinality(S) + 1
      BY <1>1, FS_AddElement
    <2> QED BY <1>1, <2>1
  <1>3. /\ Cardinality((S \cup {w}) \ {h}) <= Cardinality(S \cup {w})
        /\ Cardinality((S \cup {w}) \ {h}) \in Nat /\ Cardinality(S \cup {w}) \in Nat
    BY Sizes, S \cup {w} \in SUBSET Worker, (S \cup {w}) \ {h} \in SUBSET (S \cup {w})
  <1> QED BY <1>1, <1>2, <1>3, PlacementAssumption

\* update_dag_ready_states starts and ends nothing and moves no stage.
LEMMA WalkKeeps ==
  ASSUME NEW r \in [Task -> Row]
  PROVE  /\ Walk(r) \in [Task -> Row]
         /\ \A t \in Task : /\ Walk(r)[t].at = r[t].at /\ Walk(r)[t].gpus = r[t].gpus
                            /\ Walk(r)[t].st = "running" <=> r[t].st = "running"
  <1> DEFINE L(s) == \E p \in Parent[s] : r[p].st \in {"failed", "blocked"}
             F(s) == \A p \in Parent[s] : r[p].st = "done"
             St(t) == IF L(t) THEN "blocked" ELSE IF F(t) THEN "ready" ELSE r[t].st
             W(t) == IF t \notin Stage \/ r[t].st # "waiting" THEN r[t] ELSE [r[t] EXCEPT !.st = St(t)]
  <1>1. Walk(r) = [t \in Task |-> W(t)]
    BY DEF Walk
  <1>2. ASSUME NEW t \in Task
        PROVE  /\ W(t) \in Row /\ W(t).at = r[t].at /\ W(t).gpus = r[t].gpus
               /\ W(t).st = "running" <=> r[t].st = "running"
    <2> HIDE DEF L, F
    <2>1. r[t] \in Row
      OBVIOUS
    <2>2. r[t].st = "waiting" => St(t) \in {"waiting", "ready", "blocked"}
      OBVIOUS
    <2> HIDE DEF St
    <2> QED BY <2>1, <2>2 DEF Row
  <1> HIDE DEF W
  <1> QED BY <1>1, <1>2

\* The priority a job is sorted by is one of the priorities.
LEMMA UrgencyType ==
  ASSUME row \in [Task -> Row], NEW j \in Job
  PROVE  Urgency(j) \in Nat
  <1> DEFINE P == {Prio[s] : s \in Ready(j)}
             Least(p) == \A s \in Ready(j) : p <= Prio[s]
  <1>1. P \subseteq 0..2 /\ Prio[j] \in 0..2
    BY PlacementAssumption DEF Ready, StagesOf
  <1>2. CASE Ready(j) = {} \/ j \in Classic
    BY <1>1, <1>2 DEF Urgency
  <1>3. CASE Ready(j) # {} /\ j \notin Classic
    <2>1. \A s \in Ready(j) : Prio[s] \in P
      OBVIOUS
    <2>2. \E p \in P : Least(p)
      <3>1. CASE 0 \in P
        <4>1. \A s \in Ready(j) : Prio[s] \in 0..2
          BY <2>1, <1>1
        <4>2. Least(0)
          BY <4>1
        <4> HIDE DEF P, Least
        <4> QED BY <3>1, <4>2
      <3>2. CASE 0 \notin P /\ 1 \in P
        <4>1. \A s \in Ready(j) : Prio[s] \in 0..2 /\ Prio[s] # 0
          BY <3>2, <2>1, <1>1
        <4>2. Least(1)
          BY <4>1
        <4> HIDE DEF P, Least
        <4> QED BY <3>2, <4>2
      <3>3. CASE 0 \notin P /\ 1 \notin P
        <4>1. \A p \in P : p = 2
          BY <1>1, <3>3
        <4>2. 2 \in P
          BY <1>3, <2>1, <4>1
        <4>3. Least(2)
          BY <4>1, <2>1
        <4> HIDE DEF P, Least
        <4> QED BY <4>2, <4>3
      <3> QED BY <3>1, <3>2, <3>3
    <2>3. (CHOOSE p \in P : Least(p)) \in P
      BY <2>2
    <2> QED BY <2>3, <1>1, <1>3 DEF Urgency
  <1> QED BY <1>2, <1>3

\* A user holds finitely many machines.
LEMMA MachinesType ==
  ASSUME TypeOK, NEW j \in Job
  PROVE  Cardinality(MachinesOf(User[j])) \in Nat
  <1>1. MachinesOf(User[j]) \subseteq Worker \cup {None}
    BY DEF MachinesOf, TypeOK, Row, Record, Active
  <1>2. IsFiniteSet(Worker \cup {None})
    BY PlacementAssumption, FS_AddElement
  <1> QED BY <1>1, <1>2, FS_Subset, FS_CardinalityType

\* What the iteration looks at has the shape of its memory.
LEMMA LookType ==
  ASSUME TypeOK, Look
  PROVE  it' \in Iteration
  <1>1. [j \in Job |-> Key(j)] \in [Job -> Nat \X Nat \X Nat]
    BY UrgencyType, MachinesType, PlacementAssumption DEF Key, TypeOK
  <1>2. [w \in Worker |-> Held(w)] \in [Worker -> SUBSET Hold]
    BY DEF Held, Hold, TypeOK, Row
  <1>3. ASSUME NEW w \in Worker
        PROVE  ReposOn(w) \in SUBSET Repos
    <2>1. \A h \in Held(w) : h.task \in Task
      BY DEF Held
    <2>2. \A t \in Task : (IF t \in Stage THEN JobOf[t] ELSE t) \in Job
      BY PlacementAssumption DEF Task, Job
    <2> QED BY <2>1, <2>2 DEF ReposOn, Repos, Active, Job
  <1>4. [w \in Worker |-> {Repo[h.task] : h \in {x \in Held(w) : x.task \in Classic}}] \in [Worker -> SUBSET Repos]
    BY DEF Repos, Job
  <1>5. [j \in Parallel |-> IF Over(j) THEN {} ELSE job[j].act \cup ({job[j].home} \ {None})] \in [Parallel -> SUBSET Worker]
    BY DEF TypeOK, Record
  <1>6. [j \in Job |-> Cardinality(MachinesOf(User[j]))] \in [Job -> Nat]
    BY MachinesType
  <1>7. [w \in Worker |-> ReposOn(w)] \in [Worker -> SUBSET Repos]
    BY <1>3
  <1>8. Waiting \subseteq Job
    BY DEF Waiting, Job
  <1> HIDE DEF Key, Held, ReposOn, Over, MachinesOf, Waiting
  <1> QED BY <1>1, <1>2, <1>4, <1>5, <1>6, <1>7, <1>8 DEF Look, Iteration

\* A walk over the rows starts nothing.
LEMMA WalkEnds ==
  ASSUME TypeOK, row' = Walk(row)
  PROVE  RowsEnd
  BY WalkKeeps DEF RowsEnd, TypeOK

\* The end of a task starts nothing.
LEMMA TaskEndsRows ==
  ASSUME TypeOK, NEW t \in Task, TaskEnds(t)
  PROVE  RowsEnd
  <1>1. PICK st \in {"done", "failed"} : row' = Walk([row EXCEPT ![t] = [st |-> st, at |-> None, gpus |-> {}]])
    BY DEF TaskEnds
  <1> DEFINE e == [st |-> st, at |-> None, gpus |-> {}]
             r == [row EXCEPT ![t] = e]
  <1>2. e \in Row /\ e.st # "running" /\ e.at = None
    BY DEF Row
  <1> HIDE DEF e
  <1>3. /\ r \in [Task -> Row]
        /\ \A u \in Task : r[u] = IF u = t THEN e ELSE row[u]
    BY <1>2 DEF TypeOK
  <1>4. row' = Walk(r)
    BY <1>1 DEF e
  <1> HIDE DEF r
  <1> QED BY <1>2, <1>3, <1>4, WalkKeeps DEF RowsEnd, TypeOK

\* To fail a row that does not run starts nothing.
LEMMA FailRow ==
  ASSUME TypeOK, NEW t \in Task, row[t].st # "running", row' = [row EXCEPT ![t].st = "failed"]
  PROVE  RowsEnd
  <1>1. row[t] \in Row
    BY DEF TypeOK
  <1> QED BY <1>1 DEF RowsEnd, TypeOK, Row

\* To start a task changes its row and no other.
LEMMA StartsRow ==
  ASSUME TypeOK, NEW t \in Task, NEW w \in Worker, NEW G \in SUBSET Device(w),
         row' = [row EXCEPT ![t] = [st |-> "running", at |-> w, gpus |-> G]]
  PROVE  /\ row' \in [Task -> Row]
         /\ row'[t].st = "running" /\ row'[t].at = w /\ row'[t].gpus = G
         /\ \A u \in Task \ {t} : row'[u] = row[u]
  <1> DEFINE e == [st |-> "running", at |-> w, gpus |-> G]
  <1>1. e \in Row /\ e.st = "running" /\ e.at = w /\ e.gpus = G
    BY DEF Row, Devices
  <1> HIDE DEF e
  <1>2. row' = [row EXCEPT ![t] = e]
    BY DEF e
  <1> QED BY <1>1, <1>2 DEF TypeOK

\* allocate_gpus returns devices of the machine.
LEMMA AllocationsAreDevices ==
  ASSUME NEW w \in Worker, NEW t \in Task, NEW held, NEW G \in Allocations(w, t, held)
  PROVE  G \in SUBSET Device(w)
  BY DEF Allocations, Suits

\* The invariant holds before the first iteration.
LEMMA InitHolds ==
  ASSUME Init
  PROVE  IInv
  <1>1. Cardinality({} \ {None}) <= MaxWorkersPerJob
    BY FS_EmptySet, PlacementAssumption, {} \ {None} = {}
  <1>2. \A t \in Task : row[t].st # "running" /\ row[t].at = None
    BY DEF Init
  <1>3. row \in [Task -> Row]
    BY DEF Init, Row
  <1>4. job \in [Parallel -> Record] /\ \A j \in Parallel : job[j].act = {} /\ job[j].home = None /\ job[j].st = "pending"
    BY DEF Init, Record
  <1>5. assigned \in [Worker -> Parallel \cup {None}] /\ runner = {} /\ \A w \in Worker : assigned[w] = None
    BY DEF Init
  <1>6. it \in Iteration /\ it.at = "off"
    BY DEF Init, Rest, Iteration
  <1>7. TypeOK
    BY <1>1, <1>2, <1>3, <1>4, <1>5, <1>6 DEF TypeOK
  <1> QED BY <1>2, <1>4, <1>5, <1>6, <1>7, PlacementAssumption
         DEF IInv, Homed, Belongs, Served, Seen, ReposSeen, HeldSeen, Chosen, Job, Task

\* Looking: what is remembered is what the tables hold at that moment.
LEMMA LookKeeps ==
  ASSUME IInv, Look
  PROVE  IInv'
  <1> USE DEF IInv
  <1>1. RowsEnd /\ UNCHANGED <<job, assigned, runner>> /\ it' \in Iteration
    BY WalkEnds, LookType DEF Look
  <1>2. /\ it'.at = "queue" /\ it'.queue = Waiting /\ it'.jobs = Waiting \cap Parallel
        /\ it'.homeless = {j \in Parallel : job[j].home = None}
        /\ \A w \in Worker : it'.repos[w] = ReposOn(w) /\ it'.held[w] = Held(w)
        /\ \A j \in Parallel : it'.act[j] = IF Over(j) THEN {} ELSE job[j].act \cup ({job[j].home} \ {None})
    BY DEF Look
  <1>3. TypeOK'
    BY <1>1, <1>2 DEF TypeOK, RowsEnd
  <1>4. Homed' /\ Belongs' /\ Served' /\ Chosen'
    BY <1>1, <1>2, PlacementAssumption DEF Homed, Belongs, Served, Chosen, RowsEnd, Task
  <1>5. Seen'
    <2>0. \A c \in it'.queue \cap Classic : row'[c].st # "running"
      BY <1>1, <1>2, PlacementAssumption DEF Waiting, RowsEnd, Task
    <2>1. \A j \in it'.queue \cap it'.homeless : job'[j].st = "pending"
      BY <1>1, <1>2, PlacementAssumption DEF Waiting, Homed, TypeOK, Record, Job
    <2>2. ASSUME NEW j \in it'.jobs
          PROVE  /\ job'[j].act \subseteq it'.act[j]
                 /\ Cardinality(it'.act[j] \ {job'[j].home}) <= MaxWorkersPerJob
      <3>1. j \in Parallel /\ it'.act[j] = job[j].act \cup ({job[j].home} \ {None})
        BY <1>2, PlacementAssumption DEF Waiting, Over
      <3>2. it'.act[j] \ {job'[j].home} = job[j].act \ {job[j].home}
        BY <3>1, <1>1
      <3> QED BY <3>1, <3>2, <1>1 DEF TypeOK
    <2> QED BY <2>0, <2>1, <2>2, <1>2 DEF Seen
  <1>6. ReposSeen' /\ HeldSeen'
    <2>1. ASSUME NEW d \in Classic, row'[d].st = "running"
          PROVE  /\ Repo[d] \in it'.repos[row'[d].at]
                 /\ [task |-> d, gpus |-> row'[d].gpus] \in it'.held[row'[d].at]
      <3>1. row[d].st = "running" /\ row'[d].at = row[d].at /\ row[d].at \in Worker /\ row'[d].gpus = row[d].gpus
        BY <2>1, <1>1 DEF RowsEnd, TypeOK, Row, Task
      <3>2. [task |-> d, gpus |-> row[d].gpus] \in Held(row[d].at)
        BY <3>1 DEF Held, Task
      <3>3. Repo[d] \in ReposOn(row[d].at)
        BY <3>2, PlacementAssumption DEF ReposOn, Job
      <3> QED BY <3>1, <3>2, <3>3, <1>2
    <2>2. ASSUME NEW j \in Parallel, job'[j].st = "active"
          PROVE  Repo[j] \in it'.repos[job'[j].home]
      <3>1. j \in Active /\ job'[j].home = job[j].home /\ job[j].home \in Worker
        BY <2>2, <1>1 DEF Active, Homed, TypeOK, Record
      <3> QED BY <3>1, <1>2 DEF ReposOn
    <2> QED BY <2>1, <2>2 DEF ReposSeen, HeldSeen
  <1> QED BY <1>3, <1>4, <1>5, <1>6

\* A job that failed at once leaves the queue and the list of jobs.
LEMMA FailImpossibleKeeps ==
  ASSUME IInv, NEW j \in Parallel, it.at = "queue", FailImpossible(j), UNCHANGED runner
  PROVE  IInv'
  <1> USE DEF IInv
  <1>1. RowsEnd
    BY FailRow DEF FailImpossible, StagesOf, Task
  <1>2. /\ job' \in [Parallel -> Record]
        /\ \A k \in Parallel : /\ job'[k].home = job[k].home /\ job'[k].act = job[k].act
                              /\ job'[k].st = IF k = j THEN "failed" ELSE job[k].st
    BY DEF FailImpossible, TypeOK, Record
  <1>3. /\ it' \in Iteration /\ it'.at = it.at /\ it'.queue = it.queue \ {j} /\ it'.jobs = it.jobs \ {j}
        /\ it'.homeless = it.homeless /\ it'.repos = it.repos /\ it'.held = it.held
        /\ \A k \in Parallel \ {j} : it'.act[k] = it.act[k]
    BY DEF FailImpossible, TypeOK, Iteration
  <1>4. assigned' = assigned /\ runner' = runner
    BY DEF FailImpossible
  <1>5. TypeOK'
    <2>1. \A t \in Task : IF row'[t].st = "running"
                        THEN row'[t].at # None /\ row'[t].gpus \subseteq Device(row'[t].at) ELSE row'[t].at = None
      BY <1>1 DEF TypeOK, RowsEnd
    <2>2. \A k \in Parallel : Cardinality(job'[k].act \ {job'[k].home}) <= MaxWorkersPerJob
      BY <1>2 DEF TypeOK
    <2>3. row' \in [Task -> Row] /\ (it'.at = "classic" => it'.job # None /\ it'.pick # None)
      BY <1>1, <1>3 DEF RowsEnd
    <2>4. assigned' \in [Worker -> Parallel \cup {None}] /\ runner' \subseteq Parallel \X Worker
      BY <1>4 DEF TypeOK
    <2>5. job' \in [Parallel -> Record] /\ it' \in Iteration
      BY <1>2, <1>3
    <2> HIDE DEF IInv
    <2> QED BY <2>1, <2>2, <2>3, <2>4, <2>5 DEF TypeOK
  <1>6. Homed' /\ Belongs' /\ Served' /\ Chosen'
    <2>1. Homed' /\ Belongs'
      BY <1>2, <1>4 DEF Homed, Belongs
    <2>2. Served'
      BY <1>1, <1>4 DEF Served, RowsEnd, Task
    <2>3. Chosen'
      BY <1>3 DEF Chosen
    <2> QED BY <2>1, <2>2, <2>3
  <1>7. Seen'
    <2>1. it.jobs \subseteq Parallel /\ it.homeless \subseteq Parallel
      BY DEF TypeOK, Iteration
    <2>2. it'.queue \cap Parallel \subseteq it'.jobs
      BY <1>3 DEF Seen
    <2>3. \A k \in it'.queue \cap it'.homeless : job'[k].st = "pending"
      BY <2>1, <1>2, <1>3 DEF Seen
    <2>4. \A c \in it'.queue \cap Classic : row'[c].st # "running"
      BY <1>1, <1>3 DEF Seen, RowsEnd, Task
    <2>5. \A k \in it'.jobs : /\ job'[k].st \in {"pending", "active"} => job'[k].act \subseteq it'.act[k]
                             /\ Cardinality(it'.act[k] \ {job'[k].home}) <= MaxWorkersPerJob
      BY <2>1, <1>2, <1>3 DEF Seen
    <2> QED BY <2>2, <2>3, <2>4, <2>5 DEF Seen
  <1>8. ReposSeen' /\ HeldSeen'
    BY <1>1, <1>2, <1>3 DEF ReposSeen, HeldSeen, RowsEnd, Task
  <1> QED BY <1>5, <1>6, <1>7, <1>8

\* A home is written from what the iteration remembers of the job's machines.
LEMMA GiveHomeKeeps ==
  ASSUME IInv, NEW j \in Parallel, it.at = "queue", j \in it.queue \cap it.homeless,
         GiveHome(j), UNCHANGED runner
  PROVE  IInv'
  <1> USE DEF IInv
  <1>1. PICK w \in Worker, s \in Task :
          /\ job' = Housed(j, w) /\ assigned' = [assigned EXCEPT ![w] = j] /\ row' = row
          /\ it' = [it EXCEPT !.queue = @ \ {j}, !.act[j] = @ \cup {w}, !.repos[w] = @ \cup {Repo[j]},
                               !.held[w] = @ \cup {[task |-> s, gpus |-> {}]}]
    BY DEF GiveHome, Best, Homes, Ready, StagesOf, Task
  <1>2. job[j].st = "pending" /\ job[j].home = None /\ j \in it.jobs
    BY DEF Seen, Homed
  <1>3. [task |-> s, gpus |-> {}] \in Hold /\ Repo[j] \in Repos
    BY DEF Hold, Repos, Job
  <1>4. /\ it' \in Iteration /\ it'.at = it.at /\ it'.queue = it.queue \ {j} /\ it'.jobs = it.jobs
        /\ it'.homeless = it.homeless
        /\ \A v \in Worker : it'.repos[v] = IF v = w THEN it.repos[v] \cup {Repo[j]} ELSE it.repos[v]
        /\ \A v \in Worker : it.held[v] \subseteq it'.held[v]
        /\ \A k \in Parallel : it'.act[k] = IF k = j THEN it.act[k] \cup {w} ELSE it.act[k]
    <2> DEFINE A == [it.act EXCEPT ![j] = @ \cup {w}]
               R == [it.repos EXCEPT ![w] = @ \cup {Repo[j]}]
               H == [it.held EXCEPT ![w] = @ \cup {[task |-> s, gpus |-> {}]}]
    <2>1. it' = [it EXCEPT !.queue = @ \ {j}, !.act = A, !.repos = R, !.held = H]
      BY <1>1
    <2>2. /\ A \in [Parallel -> SUBSET Worker] /\ R \in [Worker -> SUBSET Repos] /\ H \in [Worker -> SUBSET Hold]
          /\ \A v \in Worker : R[v] = IF v = w THEN it.repos[v] \cup {Repo[j]} ELSE it.repos[v]
          /\ \A v \in Worker : it.held[v] \subseteq H[v]
          /\ \A k \in Parallel : A[k] = IF k = j THEN it.act[k] \cup {w} ELSE it.act[k]
      BY <1>3 DEF TypeOK, Iteration
    <2> HIDE DEF A, R, H
    <2> QED BY <2>1, <2>2 DEF TypeOK, Iteration
  <1>5. /\ job' \in [Parallel -> Record]
        /\ job'[j].st = "active" /\ job'[j].home = w /\ job'[j].act = it.act[j] \cup {w}
        /\ \A k \in Parallel \ {j} : job'[k] = job[k]
    BY <1>1 DEF Housed, TypeOK, Record, Iteration
  <1>6. /\ assigned' \in [Worker -> Parallel \cup {None}]
        /\ \A v \in Worker : assigned'[v] = IF v = w THEN j ELSE assigned[v]
        /\ runner' = runner /\ row' = row
    BY <1>1 DEF TypeOK
  <1>7. /\ Cardinality((it.act[j] \cup {w}) \ {w}) <= MaxWorkersPerJob
        /\ job[j].act \subseteq it.act[j]
    <2>1. it.act[j] \in SUBSET Worker /\ None \notin Worker
      BY PlacementAssumption DEF TypeOK, Iteration
    <2>2. it.act[j] \ {job[j].home} = it.act[j]
      BY <2>1, <1>2
    <2>3. Cardinality(it.act[j]) <= MaxWorkersPerJob /\ job[j].act \subseteq it.act[j]
      BY <2>2, <1>2 DEF Seen
    <2> DEFINE S == it.act[j]
               T == (S \cup {w}) \ {w}
    <2>4. S \in SUBSET Worker /\ T \in SUBSET S
      BY <2>1
    <2>5. Cardinality(S) <= MaxWorkersPerJob /\ MaxWorkersPerJob \in Nat
      BY <2>3, PlacementAssumption
    <2> HIDE DEF S, T
    <2>6. Cardinality(T) <= MaxWorkersPerJob
      BY <2>4, <2>5, Sizes
    <2> QED BY <2>3, <2>6 DEF S, T
  <1>8. TypeOK'
    <2>1. \A k \in Parallel : Cardinality(job'[k].act \ {job'[k].home}) <= MaxWorkersPerJob
      BY <1>5, <1>7 DEF TypeOK
    <2> QED BY <2>1, <1>4, <1>5, <1>6 DEF TypeOK
  <1>9. Homed' /\ Chosen' /\ Served'
    <2>1. Homed'
      BY <1>5, <1>6 DEF Homed
    <2>2. Served'
      BY <1>6 DEF Served
    <2>3. Chosen'
      BY <1>4 DEF Chosen
    <2> QED BY <2>1, <2>2, <2>3
  <1>10. Belongs'
    <2>1. ASSUME NEW k \in Parallel, NEW v \in Worker, job'[k].st \in {"pending", "active"},
                 assigned'[v] = k \/ <<k, v>> \in runner'
          PROVE  v \in job'[k].act
      <3>1. CASE k # j
        BY <3>1, <2>1, <1>5, <1>6 DEF Belongs
      <3>2. CASE k = j
        <4>1. job[j].st = "pending" /\ <<j, v>> \notin runner
          BY <1>2 DEF Homed
        <4>2. v = w \/ assigned[v] = j
          BY <4>1, <3>2, <2>1, <1>6
        <4>3. v = w \/ v \in job[j].act
          BY <4>1, <4>2 DEF Belongs
        <4> QED BY <4>3, <3>2, <1>5, <1>7
      <3> QED BY <3>1, <3>2
    <2> QED BY <2>1 DEF Belongs
  <1>11. Seen'
    <2>1. it.jobs \subseteq Parallel /\ it.homeless \subseteq Parallel
      BY DEF TypeOK, Iteration
    <2>2. it'.queue \cap Parallel \subseteq it'.jobs
      BY <1>4 DEF Seen
    <2>3. \A k \in it'.queue \cap it'.homeless : job'[k].st = "pending"
      BY <2>1, <1>4, <1>5 DEF Seen
    <2>4. \A c \in it'.queue \cap Classic : row'[c].st # "running"
      BY <1>4, <1>6 DEF Seen
    <2>5. ASSUME NEW k \in it'.jobs
          PROVE  /\ job'[k].st \in {"pending", "active"} => job'[k].act \subseteq it'.act[k]
                 /\ Cardinality(it'.act[k] \ {job'[k].home}) <= MaxWorkersPerJob
      <3>1. CASE k = j
        <4>1. it'.act[j] = it.act[j] \cup {w} /\ job'[j].act = it.act[j] \cup {w} /\ job'[j].home = w
          BY <1>4, <1>5
        <4> HIDE DEF IInv
        <4> QED BY <3>1, <4>1, <1>7
      <3>2. CASE k # j
        <4>1. k \in Parallel /\ k \in it.jobs
          BY <2>1, <2>5, <1>4
        <4>2. job'[k] = job[k] /\ it'.act[k] = it.act[k]
          BY <3>2, <4>1, <1>4, <1>5
        <4> QED BY <4>1, <4>2, <1>4 DEF Seen
      <3> QED BY <3>1, <3>2
    <2> QED BY <2>2, <2>3, <2>4, <2>5 DEF Seen
  <1>12. ReposSeen' /\ HeldSeen'
    <2>1. ASSUME NEW d \in Classic, row'[d].st = "running"
          PROVE  /\ Repo[d] \in it'.repos[row'[d].at]
                 /\ [task |-> d, gpus |-> row'[d].gpus] \in it'.held[row'[d].at]
      <3>1. /\ row[d].at \in Worker /\ Repo[d] \in it.repos[row[d].at]
            /\ [task |-> d, gpus |-> row[d].gpus] \in it.held[row[d].at]
        BY <2>1, <1>6 DEF ReposSeen, HeldSeen, TypeOK, Row, Task
      <3> QED BY <3>1, <1>4, <1>6
    <2>0. \A v \in Worker : it'.repos[v] = IF v = w THEN it.repos[v] \cup {Repo[j]} ELSE it.repos[v]
      BY <1>4
    <2>2. ASSUME NEW k \in Parallel, job'[k].st = "active"
          PROVE  Repo[k] \in it'.repos[job'[k].home]
      <3>1. CASE k = j
        BY <3>1, <2>0, <1>5
      <3>2. CASE k # j
        <4>1. job'[k] = job[k] /\ job[k].home \in Worker /\ Repo[k] \in it.repos[job[k].home]
          BY <3>2, <2>2, <1>5, PlacementAssumption DEF ReposSeen, Homed, TypeOK, Record
        <4> QED BY <4>1, <2>0
      <3> QED BY <3>1, <3>2
    <2> QED BY <2>1, <2>2 DEF ReposSeen, HeldSeen
  <1> QED BY <1>8, <1>9, <1>10, <1>11, <1>12

\* One parallel job of the queue.
LEMMA PlaceParallelKeeps ==
  ASSUME IInv, PlaceParallel
  PROVE  IInv'
  <1>1. PICK j \in First \cap Parallel :
          /\ UNCHANGED runner
          /\ \/ FailImpossible(j)
             \/ j \in it.homeless /\ GiveHome(j)
             \/ it' = [it EXCEPT !.queue = @ \ {j}] /\ UNCHANGED <<row, job, assigned>>
    BY DEF PlaceParallel
  <1>2. it.at = "queue" /\ j \in it.queue
    BY DEF PlaceParallel, First
  <1>3. CASE it' = [it EXCEPT !.queue = @ \ {j}] /\ UNCHANGED <<row, job, assigned>>
    <2>1. /\ it' \in Iteration /\ it'.at = it.at /\ it'.queue = it.queue \ {j} /\ it'.jobs = it.jobs
          /\ it'.homeless = it.homeless /\ it'.repos = it.repos /\ it'.act = it.act /\ it'.held = it.held
      BY <1>3 DEF IInv, TypeOK, Iteration
    <2> QED BY <1>1, <1>2, <1>3, <2>1
            DEF IInv, TypeOK, Homed, Belongs, Served, Seen, ReposSeen, HeldSeen, Chosen
  <1> QED BY <1>1, <1>2, <1>3, FailImpossibleKeeps, GiveHomeKeeps

\* One classic job of the queue: it is dropped, failed, or a machine is picked.
LEMMA PickMachineKeeps ==
  ASSUME IInv, PickMachine
  PROVE  IInv'
  <1> USE DEF IInv
  <1>1. PICK c \in First \cap Classic :
          \/ /\ it' = [it EXCEPT !.queue = @ \ {c}]
             /\ row' = row \/ row' = [row EXCEPT ![c].st = "failed"]
          \/ /\ \E w \in Best(Machines(c)) :
                   it' = [it EXCEPT !.at = "classic", !.queue = @ \ {c}, !.job = c, !.pick = w]
             /\ row' = row
    BY DEF PickMachine
  <1>2. it.at = "queue" /\ UNCHANGED <<job, assigned, runner>> /\ c \in Classic
    BY DEF PickMachine
  <1>3. /\ it' \in Iteration /\ it'.at \in {"queue", "classic"} /\ it'.queue = it.queue \ {c} /\ it'.jobs = it.jobs
        /\ it'.homeless = it.homeless /\ it'.repos = it.repos /\ it'.act = it.act /\ it'.held = it.held
        /\ it'.at = "classic" => it'.job = c /\ it'.pick \in Worker /\ Repo[it'.job] \notin it.repos[it'.pick]
    <2>1. CASE it' = [it EXCEPT !.queue = @ \ {c}]
      BY <2>1, <1>2 DEF TypeOK, Iteration
    <2>2. CASE \E w \in Best(Machines(c)) :
                 it' = [it EXCEPT !.at = "classic", !.queue = @ \ {c}, !.job = c, !.pick = w]
      <3>1. PICK w \in Worker : /\ it' = [it EXCEPT !.at = "classic", !.queue = @ \ {c}, !.job = c, !.pick = w]
                               /\ Repo[c] \notin it.repos[w]
        BY <2>2 DEF Best, Machines
      <3> QED BY <3>1, <1>2 DEF TypeOK, Iteration
    <2> QED BY <2>1, <2>2, <1>1
  <1>4. row[c].st # "running" /\ c \in Task
    BY <1>1, <1>2 DEF First, Seen, Task
  <1>5. RowsEnd
    <2>1. CASE row' = row
      BY <2>1 DEF TypeOK, RowsEnd
    <2>2. CASE row' = [row EXCEPT ![c].st = "failed"]
      BY <2>2, <1>4, FailRow
    <2>3. row' = row \/ row' = [row EXCEPT ![c].st = "failed"]
      BY <1>1
    <2> QED BY <2>1, <2>2, <2>3
  <1>6. TypeOK'
    <2>1. /\ row' \in [Task -> Row]
          /\ \A t \in Task : IF row'[t].st = "running"
                             THEN row'[t].at # None /\ row'[t].gpus \subseteq Device(row'[t].at)
                             ELSE row'[t].at = None
      BY <1>5 DEF TypeOK, RowsEnd
    <2>2. /\ job' \in [Parallel -> Record]
          /\ \A j \in Parallel : Cardinality(job'[j].act \ {job'[j].home}) <= MaxWorkersPerJob
          /\ assigned' \in [Worker -> Parallel \cup {None}] /\ runner' \subseteq Parallel \X Worker
      BY <1>2 DEF TypeOK
    <2>3. it'.at = "classic" => it'.job # None /\ it'.pick # None
      BY <1>2, <1>3, PlacementAssumption DEF Job
    <2> HIDE DEF IInv
    <2> QED BY <1>3, <2>1, <2>2, <2>3 DEF TypeOK
  <1>7. Homed' /\ Belongs' /\ Served' /\ Chosen'
    <2>1. Homed' /\ Belongs' /\ Served'
      BY <1>2, <1>5 DEF Homed, Belongs, Served, RowsEnd, Task
    <2>2. Chosen'
      BY <1>3 DEF Chosen
    <2> QED BY <2>1, <2>2
  <1>8. Seen' /\ ReposSeen' /\ HeldSeen'
    BY <1>2, <1>3, <1>5 DEF Seen, ReposSeen, HeldSeen, RowsEnd, Task
  <1> QED BY <1>6, <1>7, <1>8

\* The classic job starts where it was picked for, and is remembered there.
LEMMA PlaceClassicKeeps ==
  ASSUME IInv, PlaceClassic
  PROVE  IInv'
  <1> USE DEF IInv
  <1> DEFINE c == it.job
             w == it.pick
  <1>1. /\ it.at = "classic" /\ c \in Classic /\ w \in Worker /\ c \in Task /\ c \notin it.queue
        /\ UNCHANGED <<job, assigned, runner>> /\ c \notin Stage /\ Repo[c] \in Repos
    BY PlacementAssumption DEF PlaceClassic, TypeOK, Iteration, Chosen, Task, Job, Repos
  <1>2. PICK G \in SUBSET Device(w) :
          row' = [row EXCEPT ![c] = [st |-> "running", at |-> w, gpus |-> G]] /\ it' = Given(c, w, G)
    <2>1. PICK G \in Allocations(w, c, it.held[w]) :
            row' = [row EXCEPT ![c] = [st |-> "running", at |-> w, gpus |-> G]] /\ it' = Given(c, w, G)
      BY DEF PlaceClassic
    <2>2. G \in SUBSET Device(w)
      BY <1>1, AllocationsAreDevices
    <2> QED BY <2>1, <2>2
  <1>3. /\ row' \in [Task -> Row]
        /\ row'[c].st = "running" /\ row'[c].at = w /\ row'[c].gpus = G
        /\ \A u \in Task \ {c} : row'[u] = row[u]
    BY <1>1, <1>2, StartsRow
  <1>4. [task |-> c, gpus |-> G] \in Hold
    BY <1>1 DEF Hold, Devices
  <1>5. /\ it' \in Iteration /\ it'.at = "queue" /\ it'.queue = it.queue /\ it'.jobs = it.jobs
        /\ it'.homeless = it.homeless /\ it'.act = it.act
        /\ \A v \in Worker : it'.repos[v] = IF v = w THEN it.repos[v] \cup {Repo[c]} ELSE it.repos[v]
        /\ \A v \in Worker : it.held[v] \subseteq it'.held[v]
        /\ [task |-> c, gpus |-> G] \in it'.held[w]
    <2> DEFINE R == [it.repos EXCEPT ![w] = @ \cup {Repo[c]}]
               H == [it.held EXCEPT ![w] = @ \cup {[task |-> c, gpus |-> G]}]
    <2>1. it' = [it EXCEPT !.at = "queue", !.job = None, !.pick = None, !.repos = R, !.held = H]
      BY <1>2 DEF Given
    <2>2. /\ R \in [Worker -> SUBSET Repos] /\ H \in [Worker -> SUBSET Hold]
          /\ \A v \in Worker : R[v] = IF v = w THEN it.repos[v] \cup {Repo[c]} ELSE it.repos[v]
          /\ \A v \in Worker : it.held[v] \subseteq H[v]
          /\ [task |-> c, gpus |-> G] \in H[w]
      BY <1>1, <1>4 DEF TypeOK, Iteration
    <2> HIDE DEF R, H, c, w
    <2> QED BY <2>1, <2>2 DEF TypeOK, Iteration
  <1> HIDE DEF c, w
  <1>6. TypeOK'
    <2>1. ASSUME NEW t \in Task
          PROVE  IF row'[t].st = "running"
                 THEN row'[t].at # None /\ row'[t].gpus \subseteq Device(row'[t].at) ELSE row'[t].at = None
      <3>1. CASE t = c
        BY <3>1, <1>1, <1>2, <1>3, PlacementAssumption
      <3>2. CASE t # c
        BY <3>2, <1>3 DEF TypeOK
      <3> QED BY <3>1, <3>2
    <2> QED BY <2>1, <1>1, <1>3, <1>5 DEF TypeOK
  <1>7. Homed' /\ Belongs' /\ Chosen'
    BY <1>1, <1>5 DEF Homed, Belongs, Chosen
  <1>8. Served'
    BY <1>1, <1>3 DEF Served, Task
  <1>9. Seen'
    <2>1. \A d \in it'.queue \cap Classic : row'[d].st # "running"
      BY <1>1, <1>3, <1>5 DEF Seen, Task
    <2> QED BY <2>1, <1>1, <1>5 DEF Seen
  <1>10. ReposSeen' /\ HeldSeen'
    <2>1. ASSUME NEW d \in Classic, row'[d].st = "running"
          PROVE  /\ Repo[d] \in it'.repos[row'[d].at]
                 /\ [task |-> d, gpus |-> row'[d].gpus] \in it'.held[row'[d].at]
      <3>1. d \in Task /\ (d # c => /\ row'[d] = row[d] /\ row[d].at \in Worker /\ Repo[d] \in it.repos[row[d].at]
                                   /\ [task |-> d, gpus |-> row[d].gpus] \in it.held[row[d].at])
        <4>1. d \in Task /\ (d # c => row'[d] = row[d])
          BY <1>3 DEF Task
        <4>2. row[d].st = "running" => row[d].at \in Worker
          BY <4>1 DEF TypeOK, Row
        <4> QED BY <2>1, <1>1, <4>1, <4>2 DEF ReposSeen, HeldSeen
      <3>2. CASE d = c
        <4> HIDE DEF IInv
        <4> QED BY <3>2, <1>1, <1>3, <1>5
      <3>3. CASE d # c
        <4> HIDE DEF IInv
        <4>1. /\ row'[d] = row[d] /\ row[d].at \in Worker /\ Repo[d] \in it.repos[row[d].at]
              /\ [task |-> d, gpus |-> row[d].gpus] \in it.held[row[d].at]
          BY <3>1, <3>3
        <4>2. Repo[d] \in it'.repos[row[d].at] /\ it.held[row[d].at] \subseteq it'.held[row[d].at]
          BY <4>1, <1>5
        <4> QED BY <4>1, <4>2
      <3> QED BY <3>2, <3>3
    <2>2. ASSUME NEW k \in Parallel, job'[k].st = "active"
          PROVE  Repo[k] \in it'.repos[job'[k].home]
      <3>1. job[k].home \in Worker /\ Repo[k] \in it.repos[job[k].home]
        BY <2>2, <1>1 DEF ReposSeen, Homed, TypeOK, Record
      <3> QED BY <3>1, <1>1, <1>5
    <2> QED BY <2>1, <2>2 DEF ReposSeen, HeldSeen
  <1> QED BY <1>6, <1>7, <1>8, <1>9, <1>10

\* From the queue to the additional machines.
LEMMA FirstPlacedKeeps ==
  ASSUME IInv, FirstPlaced
  PROVE  IInv'
  <1>1. /\ UNCHANGED <<row, job, assigned, runner>> /\ it.at = "queue"
        /\ \E W \in SUBSET Worker : it' = [it EXCEPT !.at = "extra", !.left = W]
    BY DEF FirstPlaced
  <1>2. /\ it' \in Iteration /\ it'.at = "extra" /\ it'.queue = it.queue /\ it'.jobs = it.jobs
        /\ it'.homeless = it.homeless /\ it'.act = it.act /\ it'.repos = it.repos /\ it'.held = it.held
    BY <1>1 DEF IInv, TypeOK, Iteration
  <1> QED BY <1>1, <1>2 DEF IInv, TypeOK, Homed, Belongs, Served, Seen, ReposSeen, HeldSeen, Chosen

\* The iteration forgets what it saw.
LEMMA EndIterationKeeps ==
  ASSUME IInv, EndIteration
  PROVE  IInv'
  <1>1. UNCHANGED <<row, job, assigned, runner>> /\ it' \in Iteration /\ it'.at = "off"
    BY DEF EndIteration, Rest, Iteration
  <1> QED BY <1>1 DEF IInv, TypeOK, Homed, Belongs, Served, Seen, ReposSeen, HeldSeen, Chosen

\* An additional machine: the row is rewritten from the iteration's memory, which
\* loses none of the machines the job has now.
LEMMA GiveExtraKeeps ==
  ASSUME IInv, GiveExtra
  PROVE  IInv'
  <1>1. PICK w \in Worker :
          \/ it' = [it EXCEPT !.left = @ \ {w}] /\ UNCHANGED <<job, assigned>>
          \/ \E j \in Eligible(w) :
               /\ job' = Expanded(j, w) /\ assigned' = [assigned EXCEPT ![w] = j]
               /\ it' = [it EXCEPT !.left = @ \ {w}, !.act[j] = @ \cup {w}]
    BY DEF GiveExtra, Best, IInv, TypeOK, Iteration
  <1>2. it.at = "extra" /\ UNCHANGED <<row, runner>>
    BY DEF GiveExtra
  <1>3. CASE it' = [it EXCEPT !.left = @ \ {w}] /\ UNCHANGED <<job, assigned>>
    <2>1. /\ it' \in Iteration /\ it'.at = it.at /\ it'.queue = it.queue /\ it'.jobs = it.jobs
          /\ it'.homeless = it.homeless /\ it'.act = it.act /\ it'.repos = it.repos /\ it'.held = it.held
      BY <1>3 DEF IInv, TypeOK, Iteration
    <2> QED BY <1>2, <1>3, <2>1 DEF IInv, TypeOK, Homed, Belongs, Served, Seen, ReposSeen, HeldSeen, Chosen
  <1>4. ASSUME NEW j \in Eligible(w),
               job' = Expanded(j, w), assigned' = [assigned EXCEPT ![w] = j],
               it' = [it EXCEPT !.left = @ \ {w}, !.act[j] = @ \cup {w}]
        PROVE  IInv'
    <2> USE DEF IInv
    <2>1. j \in it.jobs /\ j \in Parallel /\ Cardinality(it.act[j]) < MaxWorkersPerJob
      BY DEF Eligible, TypeOK, Iteration
    <2>2. /\ it' \in Iteration /\ it'.at = it.at /\ it'.queue = it.queue /\ it'.jobs = it.jobs
          /\ it'.homeless = it.homeless /\ it'.repos = it.repos /\ it'.held = it.held
          /\ \A k \in Parallel : it'.act[k] = IF k = j THEN it.act[k] \cup {w} ELSE it.act[k]
      <3> DEFINE A == [it.act EXCEPT ![j] = @ \cup {w}]
      <3>1. it' = [it EXCEPT !.left = @ \ {w}, !.act = A]
        BY <1>4
      <3>2. /\ A \in [Parallel -> SUBSET Worker]
            /\ \A k \in Parallel : A[k] = IF k = j THEN it.act[k] \cup {w} ELSE it.act[k]
        BY <2>1 DEF TypeOK, Iteration
      <3> HIDE DEF A
      <3> QED BY <3>1, <3>2 DEF TypeOK, Iteration
    <2>3. /\ job' \in [Parallel -> Record]
          /\ job'[j].st = job[j].st /\ job'[j].home = job[j].home /\ job'[j].act = it.act[j] \cup {w}
          /\ \A k \in Parallel \ {j} : job'[k] = job[k]
      BY <1>4, <2>1 DEF Expanded, TypeOK, Record, Iteration
    <2>4. /\ assigned' \in [Worker -> Parallel \cup {None}]
          /\ \A v \in Worker : assigned'[v] = IF v = w THEN j ELSE assigned[v]
      BY <1>4, <2>1 DEF TypeOK
    <2>5. Cardinality((it.act[j] \cup {w}) \ {job[j].home}) <= MaxWorkersPerJob
      <3>1. it.act[j] \in SUBSET Worker /\ job[j].home \in Worker \cup {None}
        BY <2>1 DEF TypeOK, Iteration, Record
      <3> QED BY <2>1, <3>1, OneMore
    <2>6. job[j].st \in {"pending", "active"} => job[j].act \subseteq it.act[j]
      BY <2>1, <1>2 DEF Seen
    <2>7. TypeOK'
      <3>1. \A k \in Parallel : Cardinality(job'[k].act \ {job'[k].home}) <= MaxWorkersPerJob
        BY <2>3, <2>5 DEF TypeOK
      <3> QED BY <1>2, <2>2, <2>3, <2>4, <3>1 DEF TypeOK
    <2>8. Homed' /\ Served' /\ Chosen'
      <3>1. Homed'
        BY <1>2, <2>3, <2>6 DEF Homed
      <3>2. Served' /\ Chosen'
        BY <1>2, <2>2 DEF Served, Chosen
      <3> QED BY <3>1, <3>2
    <2>9. Belongs'
      <3>1. ASSUME NEW k \in Parallel, NEW v \in Worker, job'[k].st \in {"pending", "active"},
                   assigned'[v] = k \/ <<k, v>> \in runner'
            PROVE  v \in job'[k].act
        <4>1. CASE k # j
          BY <4>1, <3>1, <1>2, <2>3, <2>4 DEF Belongs
        <4>2. CASE k = j
          <5>1. v = w \/ v \in job[j].act
            BY <4>2, <3>1, <1>2, <2>3, <2>4 DEF Belongs
          <5> QED BY <5>1, <4>2, <3>1, <2>3, <2>6
        <4> QED BY <4>1, <4>2
      <3> QED BY <3>1 DEF Belongs
    <2>10. Seen'
      <3>1. it.jobs \subseteq Parallel /\ it.homeless \subseteq Parallel
        BY DEF TypeOK, Iteration
      <3>2. it'.queue \cap Parallel \subseteq it'.jobs
        BY <1>2, <2>2 DEF Seen
      <3>3. \A k \in it'.queue \cap it'.homeless : job'[k].st = "pending"
        BY <3>1, <1>2, <2>2, <2>3 DEF Seen
      <3>4. \A c \in it'.queue \cap Classic : row'[c].st # "running"
        BY <1>2, <2>2 DEF Seen
      <3>5. ASSUME NEW k \in it'.jobs
            PROVE  /\ job'[k].st \in {"pending", "active"} => job'[k].act \subseteq it'.act[k]
                   /\ Cardinality(it'.act[k] \ {job'[k].home}) <= MaxWorkersPerJob
        BY <3>1, <1>2, <2>1, <2>2, <2>3, <2>5 DEF Seen
      <3> QED BY <3>2, <3>3, <3>4, <3>5 DEF Seen
    <2>11. ReposSeen' /\ HeldSeen'
      BY <1>2, <2>2, <2>3 DEF ReposSeen, HeldSeen
    <2> QED BY <2>7, <2>8, <2>9, <2>10, <2>11
  <1> QED BY <1>1, <1>3, <1>4

\* A machine that polls starts a runner of a job it belongs to.
LEMMA PollKeeps ==
  ASSUME IInv, NEW j \in Parallel, NEW w \in Worker, Poll(j, w)
  PROVE  IInv'
  <1> USE DEF IInv
  <1>1. UNCHANGED <<row, job, assigned, it>> /\ runner' = runner \cup {<<j, w>>} /\ job[j].st = "active"
    BY DEF Poll, Active
  <1>2. w \in job[j].act
    BY DEF Poll, Active, Homed, Belongs
  <1>3. TypeOK' /\ Served' /\ Seen' /\ ReposSeen' /\ HeldSeen' /\ Chosen'
    <2>1. TypeOK'
      BY <1>1 DEF TypeOK
    <2>2. Served'
      BY <1>1 DEF Served
    <2>3. Seen' /\ ReposSeen' /\ HeldSeen' /\ Chosen'
      BY <1>1 DEF Seen, ReposSeen, HeldSeen, Chosen
    <2> QED BY <2>1, <2>2, <2>3
  <1>4. Homed' /\ Belongs'
    BY <1>1, <1>2 DEF Homed, Belongs
  <1> QED BY <1>3, <1>4

\* next_node starts a stage in the runner that asked.
LEMMA ClaimKeeps ==
  ASSUME IInv, NEW j \in Parallel, NEW w \in Worker, Claim(j, w)
  PROVE  IInv'
  <1> USE DEF IInv
  <1>1. UNCHANGED <<job, assigned, runner, it>> /\ <<j, w>> \in runner
    BY DEF Claim, Between
  <1>2. PICK s \in Claimable(j, w) : \E G \in Allocations(w, s, Held(w)) :
          row' = [row EXCEPT ![s] = [st |-> "running", at |-> w, gpus |-> G]]
    BY DEF Claim
  <1>3. PICK G \in Allocations(w, s, Held(w)) : row' = [row EXCEPT ![s] = [st |-> "running", at |-> w, gpus |-> G]]
    BY <1>2
  <1>4. s \in Stage /\ JobOf[s] = j /\ s \in Task /\ s \notin Classic /\ G \in SUBSET Device(w)
    BY AllocationsAreDevices, PlacementAssumption DEF Claimable, Ready, StagesOf, Task, Job
  <1>5. /\ row' \in [Task -> Row]
        /\ row'[s].st = "running" /\ row'[s].at = w /\ row'[s].gpus = G
        /\ \A u \in Task \ {s} : row'[u] = row[u]
    BY <1>3, <1>4, StartsRow
  <1>6. TypeOK'
    <2>1. \A t \in Task : IF row'[t].st = "running"
                        THEN row'[t].at # None /\ row'[t].gpus \subseteq Device(row'[t].at) ELSE row'[t].at = None
      <3>1. row'[s].at # None
        BY <1>5, PlacementAssumption
      <3>2. ASSUME NEW t \in Task, t # s PROVE row'[t] = row[t]
        BY <3>2, <1>5
      <3> QED BY <1>4, <1>5, <3>1, <3>2 DEF TypeOK
    <2> QED BY <2>1, <1>1, <1>5 DEF TypeOK
  <1>7. \A d \in Classic : d \in Task /\ row'[d] = row[d]
    BY <1>4, <1>5 DEF Task
  <1>8. Homed' /\ Belongs' /\ Chosen' /\ Seen' /\ ReposSeen' /\ HeldSeen'
    BY <1>1, <1>7 DEF Homed, Belongs, Chosen, Seen, ReposSeen, HeldSeen
  <1>9. Served'
    BY <1>1, <1>4, <1>5 DEF Served, Task
  <1> QED BY <1>6, <1>8, <1>9

\* get_aggregated_job_status never returns a job to the queue.
LEMMA AggregatedIsStatus ==
  ASSUME NEW j
  PROVE  Aggregated(j) \in {"active", "completed", "failed"}
  BY DEF Aggregated

\* A runner leaves between two stages, with or without its machine.
LEMMA LeavesKeeps ==
  ASSUME IInv, NEW j \in Parallel, NEW w \in Worker, Between(j, w),
         \/ Leaves(j, w, job, assigned)
         \/ w # job[j].home /\ GivesBack(j, w)
  PROVE  IInv'
  <1> USE DEF IInv
  <1>1. PICK jobs \in [Parallel -> Record], machines \in [Worker -> Parallel \cup {None}] :
          /\ Leaves(j, w, jobs, machines)
          /\ jobs[j].st = job[j].st /\ jobs[j].home = job[j].home
          /\ \A k \in Parallel \ {j} : jobs[k] = job[k]
          /\ jobs[j].act \subseteq job[j].act
          /\ job[j].act \ {w} \subseteq jobs[j].act
          /\ job[j].st = "active" /\ w = job[j].home => w \in jobs[j].act
          /\ \A v \in Worker : machines[v] \in {assigned[v], None}
    <2>1. CASE Leaves(j, w, job, assigned)
      <3>1. job \in [Parallel -> Record] /\ assigned \in [Worker -> Parallel \cup {None}]
        BY DEF TypeOK
      <3> QED BY <2>1, <3>1 DEF Homed
    <2>2. CASE w # job[j].home /\ GivesBack(j, w)
      <3> DEFINE jobs == Released(j, w)
                 machines == [assigned EXCEPT ![w] = None]
      <3>1. /\ jobs \in [Parallel -> Record]
            /\ jobs[j].st = job[j].st /\ jobs[j].home = job[j].home
            /\ \A k \in Parallel \ {j} : jobs[k] = job[k]
            /\ jobs[j].act = job[j].act \ {w}
        BY DEF Released, TypeOK, Record
      <3>2. machines \in [Worker -> Parallel \cup {None}] /\ \A v \in Worker : machines[v] \in {assigned[v], None}
        BY DEF TypeOK
      <3>3. Leaves(j, w, jobs, machines)
        BY <2>2 DEF GivesBack
      <3> HIDE DEF jobs, machines
      <3> QED BY <2>2, <3>1, <3>2, <3>3
    <2> QED BY <2>1, <2>2
  <1>2. UNCHANGED <<row, it>> /\ runner' = runner \ {<<j, w>>}
    BY <1>1 DEF Leaves
  <1>3. /\ job' \in [Parallel -> Record]
        /\ \A k \in Parallel \ {j} : job'[k] = job[k]
        /\ job'[j].home = job[j].home /\ job'[j].act \subseteq job[j].act /\ job[j].act \ {w} \subseteq job'[j].act
        /\ job[j].st = "active" /\ w = job[j].home => w \in job'[j].act
        /\ \/ job'[j].st = job[j].st
           \/ job[j].st = "active" /\ job'[j].st \in {"active", "completed", "failed"}
    <2>1. CASE job' = jobs
      <3>1. job' \in [Parallel -> Record] /\ \A k \in Parallel : job'[k] = jobs[k]
        BY <2>1
      <3> QED BY <3>1, <1>1
    <2>2. CASE j \in Active /\ job' = [jobs EXCEPT ![j].st = Aggregated(j)]
      <3> DEFINE st == Aggregated(j)
      <3>1. st \in {"active", "completed", "failed"} /\ job' = [jobs EXCEPT ![j].st = st] /\ job[j].st = "active"
        BY <2>2, AggregatedIsStatus DEF Active
      <3> HIDE DEF st
      <3>2. /\ job' \in [Parallel -> Record] /\ job'[j].home = jobs[j].home /\ job'[j].act = jobs[j].act
            /\ job'[j].st = st /\ \A k \in Parallel \ {j} : job'[k] = jobs[k]
        BY <3>1 DEF Record
      <3> QED BY <3>1, <3>2, <1>1
    <2> QED BY <2>1, <2>2, <1>1 DEF Leaves
  <1>4. /\ assigned' \in [Worker -> Parallel \cup {None}]
        /\ \A v \in Worker : assigned'[v] \in {assigned[v], None}
        /\ assigned'[w] # j
    BY <1>1, PlacementAssumption DEF Leaves, Job
  <1>5. TypeOK'
    <2>1. ASSUME NEW k \in Parallel
          PROVE  Cardinality(job'[k].act \ {job'[k].home}) <= MaxWorkersPerJob
      <3> DEFINE S == job[k].act \ {job[k].home}
                 T == job'[k].act \ {job'[k].home}
      <3>1. T \subseteq S
        BY <1>3
      <3>2. S \in SUBSET Worker /\ Cardinality(S) <= MaxWorkersPerJob /\ MaxWorkersPerJob \in Nat
        BY PlacementAssumption DEF TypeOK, Record
      <3> HIDE DEF S, T
      <3>3. Cardinality(T) <= MaxWorkersPerJob
        BY <3>1, <3>2, Sizes
      <3> QED BY <3>3 DEF T
    <2> QED BY <2>1, <1>2, <1>3, <1>4 DEF TypeOK
  <1>6. Homed'
    <2>1. ASSUME NEW k \in Parallel
          PROVE  /\ job'[k].st = "pending" => job'[k].home = None /\ \A v \in Worker : <<k, v>> \notin runner'
                 /\ job'[k].st = "active" => job'[k].home \in job'[k].act
      <3>1. CASE k = j
        BY <3>1, <1>2, <1>3 DEF Homed
      <3>2. CASE k # j
        BY <3>2, <1>2, <1>3 DEF Homed
      <3> QED BY <3>1, <3>2
    <2> QED BY <2>1 DEF Homed
  <1>7. Belongs'
    <2>1. ASSUME NEW k \in Parallel, NEW v \in Worker, job'[k].st \in {"pending", "active"},
                 assigned'[v] = k \/ <<k, v>> \in runner'
          PROVE  v \in job'[k].act
      <3>1. job[k].st \in {"pending", "active"}
        BY <2>1, <1>3
      <3>2. (assigned[v] = k \/ <<k, v>> \in runner) /\ (k = j => v # w)
        BY <2>1, <1>2, <1>4, PlacementAssumption DEF Job
      <3>3. v \in job[k].act
        BY <3>1, <3>2 DEF Belongs
      <3> QED BY <3>2, <3>3, <1>3
    <2> QED BY <2>1 DEF Belongs
  <1>8. Served'
    BY <1>2 DEF Served, Between, Running, StagesOf
  <1>9. Seen'
    <2>1. it.jobs \subseteq Parallel /\ it.homeless \subseteq Parallel
      BY DEF TypeOK, Iteration
    <2>2. ASSUME NEW k \in Parallel
          PROVE  /\ job'[k].act \subseteq job[k].act /\ job'[k].home = job[k].home
                 /\ job'[k].st \in {"pending", "active"} => job[k].st \in {"pending", "active"}
                 /\ job[k].st = "pending" => job'[k].st = "pending"
      BY <1>3
    <2> QED BY <1>2, <2>1, <2>2 DEF Seen
  <1>10. ReposSeen' /\ HeldSeen' /\ Chosen'
    <2>1. \A k \in Parallel : job'[k].home = job[k].home /\ (job'[k].st = "active" => job[k].st = "active")
      BY <1>3
    <2> QED BY <1>2, <2>1 DEF ReposSeen, HeldSeen, Chosen
  <1> QED BY <1>5, <1>6, <1>7, <1>8, <1>9, <1>10

\* The end of a task.
LEMMA TaskEndsKeeps ==
  ASSUME IInv, NEW t \in Task, TaskEnds(t)
  PROVE  IInv'
  <1> USE DEF IInv
  <1>1. RowsEnd /\ UNCHANGED <<job, assigned, runner, it>>
    BY TaskEndsRows DEF TaskEnds
  <1>2. TypeOK'
    BY <1>1 DEF TypeOK, RowsEnd
  <1>3. Homed' /\ Belongs' /\ Served' /\ Chosen'
    BY <1>1 DEF Homed, Belongs, Served, Chosen, RowsEnd, Task
  <1>4. Seen' /\ ReposSeen' /\ HeldSeen'
    BY <1>1 DEF Seen, ReposSeen, HeldSeen, RowsEnd, Task
  <1> QED BY <1>2, <1>3, <1>4

\* Every reachable state satisfies the inductive invariant.
THEOREM PlacementInvariant == Spec => []IInv
  <1>1. IInv /\ [Next]_vars => IInv'
    <2> SUFFICES ASSUME IInv, [Next]_vars PROVE IInv'
      OBVIOUS
    <2>1. CASE Scheduler
      BY <2>1, LookKeeps, PlaceParallelKeeps, PickMachineKeeps, PlaceClassicKeeps, FirstPlacedKeeps,
         GiveExtraKeeps, EndIterationKeeps DEF Scheduler
    <2>2. ASSUME NEW j \in Parallel, NEW w \in Worker, RunnerStep(j, w) PROVE IInv'
      <3>1. CASE Poll(j, w)
        BY <3>1, PollKeeps
      <3>2. CASE Claim(j, w)
        BY <3>2, ClaimKeeps
      <3>3. CASE GiveBack(j, w)
        BY <3>3, LeavesKeeps DEF GiveBack
      <3>4. CASE Finish(j, w)
        BY <3>4, LeavesKeeps DEF Finish
      <3> QED BY <2>2, <3>1, <3>2, <3>3, <3>4 DEF RunnerStep
    <2>3. ASSUME NEW t \in Task, TaskEnds(t) PROVE IInv'
      BY <2>3, TaskEndsKeeps
    <2>4. CASE UNCHANGED vars
      BY <2>4 DEF vars, IInv, TypeOK, Homed, Belongs, Served, Seen, ReposSeen, HeldSeen, Chosen
    <2> QED BY <2>1, <2>2, <2>3, <2>4 DEF Next
  <1> QED BY InitHolds, <1>1, PTL DEF Spec

\* The tables and the iteration keep their types, and beside its home a job never
\* has more machines than MAX_WORKERS_PER_JOB.
THEOREM PlacementTypeOK == Spec => []TypeOK
  BY PlacementInvariant, PTL DEF IInv

\* The machine a stage of a live job runs on is in the job's active_workers,
\* however often the scheduler rewrites that list from an older reading.
THEOREM StagesStayOnTheirMachines == Spec => []StageHasMachine
  <1>1. IInv => StageHasMachine
    BY PlacementAssumption DEF IInv, StageHasMachine, Served, Belongs, Active, TypeOK, Row, Task
  <1> QED BY PlacementInvariant, <1>1, PTL

\* Two steps start a task: the iteration starts the classic job it picked, with
\* devices that were free when it looked, and next_node a stage, with devices
\* that are free now.
LEMMA StartSteps ==
  ASSUME IInv, [Next]_vars, NEW t \in Task, Starts(t)
  PROVE  \/ /\ it.at = "classic" /\ t = it.job /\ t \in Classic
            /\ it.pick \in Worker /\ row'[t].at = it.pick
            /\ row'[t].gpus \in Allocations(it.pick, t, it.held[it.pick])
         \/ /\ t \in Stage /\ t \notin Classic /\ row'[t].at \in Worker
            /\ row'[t].gpus \in Allocations(row'[t].at, t, Held(row'[t].at))
  <1>1. ~RowsEnd /\ row' # row
    BY DEF Starts, RowsEnd
  <1>2. CASE \E j \in Parallel, w \in Worker : Claim(j, w)
    <2>1. PICK j \in Parallel, w \in Worker : Claim(j, w)
      BY <1>2
    <2>2. PICK s \in Claimable(j, w) :
            \E G \in Allocations(w, s, Held(w)) : row' = [row EXCEPT ![s] = [st |-> "running", at |-> w, gpus |-> G]]
      BY <2>1 DEF Claim
    <2>3. PICK G \in Allocations(w, s, Held(w)) : row' = [row EXCEPT ![s] = [st |-> "running", at |-> w, gpus |-> G]]
      BY <2>2
    <2>4. s \in Stage /\ s \in Task /\ s \notin Classic /\ G \in SUBSET Device(w)
      BY AllocationsAreDevices, PlacementAssumption DEF Claimable, Ready, StagesOf, Task, Job
    <2>5. row'[s].at = w /\ row'[s].gpus = G /\ \A u \in Task \ {s} : row'[u] = row[u]
      BY <2>3, <2>4, StartsRow DEF IInv
    <2>6. t = s
      BY <2>5 DEF Starts
    <2> QED BY <2>4, <2>5, <2>6
  <1>3. CASE PlaceClassic
    <2> DEFINE c == it.job
               w == it.pick
    <2>1. it.at = "classic" /\ c \in Classic /\ w \in Worker /\ c \in Task
      BY <1>3, PlacementAssumption DEF PlaceClassic, IInv, TypeOK, Iteration, Task, Job
    <2>2. PICK G \in Allocations(w, c, it.held[w]) : row' = [row EXCEPT ![c] = [st |-> "running", at |-> w, gpus |-> G]]
      BY <1>3 DEF PlaceClassic
    <2>3. G \in SUBSET Device(w)
      BY <2>1, AllocationsAreDevices
    <2> HIDE DEF c, w
    <2>4. row'[c].at = w /\ row'[c].gpus = G /\ \A u \in Task \ {c} : row'[u] = row[u]
      BY <2>1, <2>2, <2>3, StartsRow DEF IInv
    <2>5. t = c
      BY <2>4 DEF Starts
    <2> QED BY <2>1, <2>2, <2>4, <2>5 DEF c, w
  <1>4. \A u \in Task : ~TaskEnds(u)
    BY <1>1, TaskEndsRows DEF IInv
  <1>5. ~Look
    BY <1>1, WalkEnds DEF IInv, Look
  <1>6. ~PlaceParallel
    <2> SUFFICES ASSUME PlaceParallel PROVE FALSE
      OBVIOUS
    <2>1. PICK j \in Parallel : FailImpossible(j)
      BY <1>1 DEF PlaceParallel, GiveHome
    <2> QED BY <1>1, <2>1, FailRow DEF FailImpossible, StagesOf, Task, IInv
  <1>7. ~PickMachine
    <2> SUFFICES ASSUME PickMachine PROVE FALSE
      OBVIOUS
    <2>1. PICK d \in First \cap Classic : row' = [row EXCEPT ![d].st = "failed"]
      BY <1>1 DEF PickMachine
    <2>2. d \in Task /\ row[d].st # "running"
      BY DEF PickMachine, First, Seen, IInv, Task
    <2> QED BY <1>1, <2>1, <2>2, FailRow DEF IInv
  <1> QED
    BY <1>1, <1>2, <1>3, <1>4, <1>5, <1>6, <1>7
       DEF Next, Scheduler, FirstPlaced, GiveExtra, EndIteration, RunnerStep, Poll, GiveBack, GivesBack, Finish, Leaves, vars

\* A classic job that starts finds no other user of its repository.
LEMMA RepositoriesStayApart ==
  ASSUME IInv, [Next]_vars, NEW c \in Classic, Starts(c)
  PROVE  LET w == row'[c].at IN
         /\ \A d \in Classic : Repo[d] = Repo[c] => row[d].at # w
         /\ \A j \in Active : Repo[j] = Repo[c] => job[j].home # w
  <1>1. c \in Task /\ c \notin Stage
    BY PlacementAssumption DEF Task, Job
  <1>2. c = it.job /\ row'[c].at = it.pick /\ it.pick \in Worker /\ it.at = "classic"
    BY <1>1, StartSteps
  <1>3. Repo[c] \notin it.repos[it.pick]
    BY <1>2 DEF IInv, Chosen
  <1>4. \A d \in Classic : row[d].at = it.pick => Repo[d] \in it.repos[it.pick]
    BY <1>2, PlacementAssumption DEF IInv, ReposSeen, TypeOK, Task
  <1>5. \A j \in Active : job[j].home = it.pick => Repo[j] \in it.repos[it.pick]
    BY <1>2 DEF IInv, ReposSeen, Active
  <1> QED BY <1>2, <1>3, <1>4, <1>5

\* A classic job never starts on a machine where another classic job of its
\* repository runs or that is the home of a parallel one, whatever ended, polled
\* or claimed between the look and the start.
THEOREM NoSharedCheckout == Spec => RepoApart
  <1>1. IInv /\ [Next]_vars =>
          [\A c \in Classic : Starts(c) =>
             LET w == row'[c].at IN
             /\ \A d \in Classic : Repo[d] = Repo[c] => row[d].at # w
             /\ \A j \in Active : Repo[j] = Repo[c] => job[j].home # w]_vars
    BY RepositoriesStayApart
  <1> QED BY PlacementInvariant, <1>1, PTL DEF Spec, RepoApart

\* allocate_gpus returns as many devices as were asked for, none of them held.
LEMMA DevicesAreFree ==
  ASSUME NEW w \in Worker, NEW t \in Task, NEW held, NEW G \in Allocations(w, t, held)
  PROVE  G \cap Taken(held) = {} /\ Cardinality(G) = Need[t].gpus
  BY DEF Allocations, Suits

\* The stages that were claimed on w after the iteration had looked.
Unseen(w) == {h \in Held(w) : h.task \in Stage /\ h \notin it.held[w]}

\* The part of NoOvercommit about devices: a task that starts gets exactly the
\* number it needs, and none that is held, except, for a classic job, by a stage
\* that was claimed after the iteration had looked.
DevicesApart ==
  [][\A t \in Task : Starts(t) =>
       LET w == row'[t].at IN
       /\ row'[t].gpus \cap Taken(IF t \in Classic THEN Held(w) \ Unseen(w) ELSE Held(w)) = {}
       /\ Cardinality(row'[t].gpus) = Need[t].gpus]_vars

\* Each of the two steps that start a task takes free devices.
LEMMA StartsOnFreeDevices ==
  ASSUME IInv, [Next]_vars, NEW t \in Task, Starts(t)
  PROVE  LET w == row'[t].at IN
         /\ row'[t].gpus \cap Taken(IF t \in Classic THEN Held(w) \ Unseen(w) ELSE Held(w)) = {}
         /\ Cardinality(row'[t].gpus) = Need[t].gpus
  <1>1. CASE t \in Classic
    <2> DEFINE w == it.pick
               Others == Held(w) \ Unseen(w)
    <2>1. t \notin Stage
      BY <1>1, PlacementAssumption DEF Job
    <2>2. /\ it.at = "classic" /\ w \in Worker /\ row'[t].at = w
          /\ row'[t].gpus \in Allocations(w, t, it.held[w])
      BY <2>1, StartSteps
    <2>3. Others \subseteq it.held[w]
      <3>1. ASSUME NEW h \in Others
            PROVE  h \in it.held[w]
        <4>1. CASE h.task \in Stage
          BY <4>1 DEF Unseen
        <4>2. CASE h.task \notin Stage
          <5>1. PICK d \in Task : row[d].st = "running" /\ row[d].at = w /\ h = [task |-> d, gpus |-> row[d].gpus]
            BY DEF Held
          <5>2. d \in Classic
            BY <5>1, <4>2 DEF Task
          <5> QED BY <5>1, <5>2, <2>2 DEF IInv, HeldSeen
        <4> QED BY <4>1, <4>2
      <3> QED BY <3>1
    <2>4. row'[t].gpus \cap Taken(it.held[w]) = {} /\ Cardinality(row'[t].gpus) = Need[t].gpus
      BY <2>2, DevicesAreFree
    <2>5. Taken(Others) \subseteq Taken(it.held[w])
      BY <2>3 DEF Taken
    <2> HIDE DEF Others
    <2>6. row'[t].gpus \cap Taken(Others) = {}
      BY <2>4, <2>5
    <2> QED BY <1>1, <2>2, <2>4, <2>6 DEF Others
  <1>2. CASE t \notin Classic
    <2>1. row'[t].at \in Worker /\ row'[t].gpus \in Allocations(row'[t].at, t, Held(row'[t].at))
      BY <1>2, StartSteps
    <2> QED BY <1>2, <2>1, DevicesAreFree
  <1> QED BY <1>1, <1>2

\* No device is given twice by allocate_gpus, although the scheduler allocates
\* from what it saw before and next_node from what it sees now.
THEOREM NoDeviceTwice == Spec => DevicesApart
  <1>1. IInv /\ [Next]_vars =>
          [\A t \in Task : Starts(t) =>
             LET w == row'[t].at IN
             /\ row'[t].gpus \cap Taken(IF t \in Classic THEN Held(w) \ Unseen(w) ELSE Held(w)) = {}
             /\ Cardinality(row'[t].gpus) = Need[t].gpus]_vars
    BY StartsOnFreeDevices
  <1> QED BY PlacementInvariant, <1>1, PTL DEF Spec, DevicesApart
=============================================================================
