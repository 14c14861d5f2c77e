-------------------------- MODULE StagePlanProofs --------------------------
(***************************************************************************)
(* What the planner promises, for every pipeline and every history.        *)
(***************************************************************************)
EXTENDS StagePlan, FiniteSetTheorems, TLAPS

-----------------------------------------------------------------------------
(* The recursive functions satisfy their equations, and the plan has no    *)
(* cycle.                                                                  *)

\* A walk over the plan has a result: what starts at base and follows the
\* edges is the intersection of all sets closed under both.
LEMMA WalkExists ==
  ASSUME NEW base \in [Stage -> BOOLEAN], NEW from \in [Stage -> SUBSET Stage]
  PROVE  \E f \in [Stage -> BOOLEAN] : \A s \in Stage : f[s] <=> base[s] \/ \E u \in from[s] : f[u]
<1> DEFINE Closed(X) == \A s \in Stage : base[s] \/ (\E u \in from[s] : u \in X) => s \in X
           f == [s \in Stage |-> \A X \in SUBSET Stage : Closed(X) => s \in X]
           F == {s \in Stage : f[s]}
           G == {s \in Stage : base[s] \/ \E u \in from[s] : u \in F}
<1>1. ASSUME NEW X \in SUBSET Stage, Closed(X) PROVE F \subseteq X
  BY <1>1
<1>2. Closed(F)
  <2> SUFFICES ASSUME NEW s \in Stage, base[s] \/ \E u \in from[s] : u \in F, NEW X \in SUBSET Stage, Closed(X)
               PROVE  s \in X
    OBVIOUS
  <2> QED
    BY <1>1
<1>3. Closed(G)
  <2>1. G \subseteq F
    BY <1>2
  <2> QED
    BY <2>1
<1>4. F \subseteq G
  BY <1>1, <1>3
<1>5. \A s \in Stage : f[s] <=> base[s] \/ \E u \in from[s] : f[u]
  <2>1. \A s \in Stage : f[s] <=> s \in F
    OBVIOUS
  <2>2. \A s \in Stage : s \in F <=> s \in G
    BY <1>2, <1>4
  <2>3. \A s \in Stage : from[s] \subseteq Stage
    OBVIOUS
  <2> HIDE DEF f, F
  <2> QED
    BY <2>1, <2>2, <2>3
<1>6. f \in [Stage -> BOOLEAN]
  OBVIOUS
<1> QED
  BY <1>5, <1>6

\* The same for sets of stages: there is a function that collects what is
\* reachable.
LEMMA ReachExists ==
  ASSUME NEW from \in [Stage -> SUBSET Stage]
  PROVE  \E f \in [Stage -> SUBSET Stage] : \A s \in Stage : f[s] = from[s] \cup UNION {f[u] : u \in from[s]}
<1> DEFINE Closed(X) == \A s \in Stage : \A u \in from[s] : <<s, u>> \in X /\ \A v \in Stage : <<u, v>> \in X => <<s, v>> \in X
           P == {p \in Stage \X Stage : \A X \in SUBSET (Stage \X Stage) : Closed(X) => p \in X}
           G == {p \in Stage \X Stage : p[2] \in from[p[1]] \/ \E u \in from[p[1]] : <<u, p[2]>> \in P}
           f == [s \in Stage |-> {t \in Stage : <<s, t>> \in P}]
<1>1. ASSUME NEW X \in SUBSET (Stage \X Stage), Closed(X) PROVE P \subseteq X
  BY <1>1
<1>2. Closed(P)
  <2> SUFFICES ASSUME NEW s \in Stage, NEW u \in from[s], NEW v \in Stage, NEW X \in SUBSET (Stage \X Stage), Closed(X)
               PROVE  <<s, u>> \in X /\ (<<u, v>> \in P => <<s, v>> \in X)
    OBVIOUS
  <2> QED
    BY <1>1
<1>3. G \subseteq P
  <2> SUFFICES ASSUME NEW p \in G PROVE p \in P
    OBVIOUS
  <2>1. p[1] \in Stage /\ p[2] \in Stage /\ p = <<p[1], p[2]>>
    OBVIOUS
  <2> HIDE DEF P
  <2> QED
    BY <1>2, <2>1
<1>4. Closed(G)
  <2> SUFFICES ASSUME NEW s \in Stage, NEW u \in from[s]
               PROVE  <<s, u>> \in G /\ \A v \in Stage : <<u, v>> \in G => <<s, v>> \in G
    OBVIOUS
  <2>1. u \in Stage
    OBVIOUS
  <2>2. \A v \in Stage : <<u, v>> \in G => <<u, v>> \in P
    BY <1>3
  <2> HIDE DEF P
  <2> QED
    BY <2>1, <2>2
<1>5. P \subseteq G
  BY <1>1, <1>4
<1>6. ASSUME NEW s \in Stage PROVE f[s] = from[s] \cup UNION {f[u] : u \in from[s]}
  <2>1. \A t \in Stage : t \in f[s] <=> t \in from[s] \/ \E u \in from[s] : <<u, t>> \in P
    <3>1. \A t \in Stage : t \in f[s] <=> <<s, t>> \in P
      OBVIOUS
    <3>2. \A t \in Stage : <<s, t>> \in P <=> <<s, t>> \in G
      BY <1>3, <1>5
    <3> HIDE DEF P, f
    <3> QED
      BY <3>1, <3>2
  <2>2. \A t \in Stage, u \in from[s] : <<u, t>> \in P <=> t \in f[u]
    OBVIOUS
  <2>3. f \in [Stage -> SUBSET Stage]
    OBVIOUS
  <2> HIDE DEF P, f
  <2> QED
    BY <2>1, <2>2, <2>3
<1>7. f \in [Stage -> SUBSET Stage]
  OBVIOUS
<1> QED
  BY <1>6, <1>7

\* The ancestors of a stage are what it reads and their ancestors.
LEMMA AncestorsEq ==
  \A s \in Stage : Ancestors[s] = Up[s] \cup UNION {Ancestors[u] : u \in Up[s]}
<1>1. PICK f \in [Stage -> SUBSET Stage] : \A s \in Stage : f[s] = Up[s] \cup UNION {f[u] : u \in Up[s]}
  BY ReachExists, StagePlanAssumption
<1>2. f = [s \in Stage |-> Up[s] \cup UNION {f[u] : u \in Up[s]}]
  BY <1>1
<1>3. Ancestors = [s \in Stage |-> Up[s] \cup UNION {Ancestors[u] : u \in Up[s]}]
  BY <1>2, Zenon DEF Ancestors
<1> QED
  BY <1>3, Zenon

\* No stage is its own ancestor, so every set of stages has one that reads
\* none of the others.
LEMMA FirstStage ==
  ASSUME NEW T \in SUBSET Stage, T # {}
  PROVE  \E s \in T : Up[s] \cap T = {}
<1> DEFINE A(s) == Ancestors[s] \cap Stage
           Family == {A(s) : s \in T}
           R == StrictSubsetOrdering(Stage)
<1>1. IsWellFoundedOn(R, FiniteSubsetsOf(Stage))
  BY FS_StrictSubsetOrderingWellFounded
<1>2. Family \subseteq FiniteSubsetsOf(Stage) /\ Family # {}
  <2>1. \A X \in SUBSET Stage : IsFiniteSet(X)
    BY StagePlanAssumption, FS_Subset
  <2>2. \A s \in T : A(s) \in FiniteSubsetsOf(Stage)
    BY <2>1 DEF FiniteSubsetsOf
  <2> QED
    BY <2>2
<1> HIDE DEF R
<1>3. \E S \in Family : \A Q \in Family : ~(<<Q, S>> \in R)
  BY <1>1, <1>2, WFMin
<1>4. PICK s \in T : \A t \in T : <<A(t), A(s)>> \notin R
  BY <1>3
<1>5. ASSUME NEW u \in Up[s] \cap T PROVE FALSE
  <2>1. u \in Up[s] /\ s \in Stage /\ u \in Stage
    OBVIOUS
  <2>2. u \in A(s) /\ A(u) \subseteq A(s)
    BY <2>1, AncestorsEq
  <2>3. u \notin A(u)
    BY <2>1, StagePlanAssumption
  <2>4. <<A(u), A(s)>> \in R
    BY <2>2, <2>3 DEF R, StrictSubsetOrdering
  <2> QED
    BY <1>4, <1>5, <2>4
<1> QED
  BY <1>5

\* Induction along the plan.
LEMMA AlongThePlan ==
  ASSUME NEW T, \A s \in Stage : Up[s] \subseteq T => s \in T
  PROVE  Stage \subseteq T
<1>1. Stage \ T = {}
  <2> SUFFICES ASSUME Stage \ T # {} PROVE FALSE
    OBVIOUS
  <2>1. PICK s \in Stage \ T : Up[s] \cap (Stage \ T) = {}
    BY FirstStage
  <2>2. Up[s] \subseteq Stage
    BY StagePlanAssumption
  <2> QED
    BY <2>1, <2>2
<1> QED
  BY <1>1

\* The ancestors of a stage are stages, and an ancestor's are among them.
LEMMA AncestorsType ==
  ASSUME NEW s \in Stage
  PROVE  Ancestors[s] \subseteq Stage /\ \A t \in Ancestors[s] : Ancestors[t] \subseteq Ancestors[s]
<1> DEFINE T == {t \in Stage : Ancestors[t] \subseteq Stage /\ \A a \in Ancestors[t] : Ancestors[a] \subseteq Ancestors[t]}
<1>1. ASSUME NEW t \in Stage, Up[t] \subseteq T PROVE t \in T
  <2>1. Ancestors[t] = Up[t] \cup UNION {Ancestors[u] : u \in Up[t]}
    BY AncestorsEq
  <2> QED
    BY <1>1, <2>1
<1> HIDE DEF T
<1>2. Stage \subseteq T
  BY <1>1, AlongThePlan
<1> QED
  BY <1>2 DEF T

\* What a target needs is closed under needs.
LEMMA ClosureType ==
  ASSUME NEW targets \in SUBSET Stage
  PROVE  Closure(targets) \subseteq Stage /\ \A s \in Closure(targets) : Up[s] \subseteq Closure(targets)
<1>1. \A t \in targets : Ancestors[t] \subseteq Closure(targets) /\ t \in Closure(targets)
  BY DEF Closure
<1>2. \A s \in Stage : Up[s] \subseteq Ancestors[s]
  BY AncestorsEq
<1>3. Closure(targets) \subseteq Stage
  BY AncestorsType DEF Closure
<1>4. ASSUME NEW t \in targets, NEW s \in Ancestors[t] PROVE Up[s] \subseteq Closure(targets)
  BY <1>1, <1>2, AncestorsType
<1>5. ASSUME NEW t \in targets PROVE Up[t] \subseteq Closure(targets)
  BY <1>1, <1>2
<1> QED
  BY <1>3, <1>4, <1>5 DEF Closure

\* A stage is in the plan for a reason of its own, or because one it reads
\* is.
LEMMA StaleEq ==
  \A s \in Stage : Stale[s] <=> Intrinsic(s) \/ (s \notin Frozen /\ \E u \in Up[s] : Stale[u] /\ Spreads(u))
<1> DEFINE base == [s \in Stage |-> Intrinsic(s)]
           from == [s \in Stage |-> IF s \in Frozen THEN {} ELSE {u \in Up[s] : Spreads(u)}]
<1>1. base \in [Stage -> BOOLEAN] /\ from \in [Stage -> SUBSET Stage]
  BY StagePlanAssumption DEF Intrinsic
<1>2. PICK f \in [Stage -> BOOLEAN] : \A s \in Stage : f[s] <=> base[s] \/ \E u \in from[s] : f[u]
  <2> HIDE DEF base, from
  <2> QED BY <1>1, WalkExists
<1>3. \A s \in Stage : f[s] = (Intrinsic(s) \/ (s \notin Frozen /\ \E u \in Up[s] : f[u] /\ Spreads(u)))
  <2> SUFFICES ASSUME NEW s \in Stage
               PROVE  f[s] = (Intrinsic(s) \/ (s \notin Frozen /\ \E u \in Up[s] : f[u] /\ Spreads(u)))
    OBVIOUS
  <2>1. f[s] \in BOOLEAN /\ Intrinsic(s) \in BOOLEAN
    BY DEF Intrinsic
  <2>2. f[s] <=> Intrinsic(s) \/ \E u \in from[s] : f[u]
    BY <1>2
  <2>3. \A u : u \in from[s] <=> s \notin Frozen /\ u \in Up[s] /\ Spreads(u)
    OBVIOUS
  <2> HIDE DEF from
  <2> QED
    BY <2>1, <2>2, <2>3, Zenon
<1>4. f = [s \in Stage |-> Intrinsic(s) \/ (s \notin Frozen /\ \E u \in Up[s] : f[u] /\ Spreads(u))]
  BY <1>3
<1>5. Stale = [s \in Stage |-> Intrinsic(s) \/ (s \notin Frozen /\ \E u \in Up[s] : Stale[u] /\ Spreads(u))]
  BY <1>4, Zenon DEF Stale
<1> QED
  BY <1>5, Zenon

\* The same for what data, parameters and outputs make stale.
LEMMA NotCodeOnlyEq ==
  \A s \in Stage : NotCodeOnly[s] <=> NotCode(s) \/ (s \notin Frozen /\ \E u \in Up[s] : NotCodeOnly[u] /\ Spreads(u))
<1> DEFINE base == [s \in Stage |-> NotCode(s)]
           from == [s \in Stage |-> IF s \in Frozen THEN {} ELSE {u \in Up[s] : Spreads(u)}]
<1>1. base \in [Stage -> BOOLEAN] /\ from \in [Stage -> SUBSET Stage]
  BY StagePlanAssumption DEF NotCode
<1>2. PICK f \in [Stage -> BOOLEAN] : \A s \in Stage : f[s] <=> base[s] \/ \E u \in from[s] : f[u]
  <2> HIDE DEF base, from
  <2> QED BY <1>1, WalkExists
<1>3. \A s \in Stage : f[s] = (NotCode(s) \/ (s \notin Frozen /\ \E u \in Up[s] : f[u] /\ Spreads(u)))
  <2> SUFFICES ASSUME NEW s \in Stage
               PROVE  f[s] = (NotCode(s) \/ (s \notin Frozen /\ \E u \in Up[s] : f[u] /\ Spreads(u)))
    OBVIOUS
  <2>1. f[s] \in BOOLEAN /\ NotCode(s) \in BOOLEAN
    BY DEF NotCode
  <2>2. f[s] <=> NotCode(s) \/ \E u \in from[s] : f[u]
    BY <1>2
  <2>3. \A u : u \in from[s] <=> s \notin Frozen /\ u \in Up[s] /\ Spreads(u)
    OBVIOUS
  <2> HIDE DEF from
  <2> QED
    BY <2>1, <2>2, <2>3, Zenon
<1>4. f = [s \in Stage |-> NotCode(s) \/ (s \notin Frozen /\ \E u \in Up[s] : f[u] /\ Spreads(u))]
  BY <1>3
<1>5. NotCodeOnly = [s \in Stage |-> NotCode(s) \/ (s \notin Frozen /\ \E u \in Up[s] : NotCodeOnly[u] /\ Spreads(u))]
  BY <1>4, Zenon DEF NotCodeOnly
<1> QED
  BY <1>5, Zenon

-----------------------------------------------------------------------------
(* The invariant.                                                          *)

\* A stage of a running job that does not run any more, and is not frozen:
\* dvc.lock has it on the job's files and on the recorded outputs of what it
\* reads.  A part of a directory that was skipped too may differ, when the
\* planner had nothing on disk to compare it with.
Reproduced(s) ==
  /\ s \in DOMAIN lock
  /\ \A f \in Reads[s] : job.files[f] # 0 /\ lock[s].dep[f] = job.files[f]
  /\ \A u \in Up[s] :
       /\ u \in DOMAIN lock
       /\ \/ lock[s].dep[u] = lock[u].out
          \/ u \in Always
          \/ <<s, u>> \in Part /\ ~plan[u] /\ disk[u] \in {0, lock[s].dep[u]}

\* A job contains all its stages need, and what it has left is planned.
JobIsClosed ==
  /\ \A s \in job.goal : Up[s] \subseteq job.goal
  /\ \A s \in job.left : s \in job.goal /\ plan[s]
  /\ \A s \in Frozen : ~plan[s]

\* Who is skipped reads nothing that is planned; who ran, nothing that is left.
InOrder ==
  \A s \in job.goal \ Frozen : \A u \in Up[s] :
    /\ ~plan[s] => ~plan[u] \/ u \in Always
    /\ plan[s] /\ s \notin job.left => u \notin job.left

JobInv == job.on => JobIsClosed /\ InOrder /\ \A s \in job.goal \ (job.left \cup Frozen) : Reproduced(s)

IInv == TypeOK /\ JobInv

\* dvc.lock after the step is a table of entries.
LockOK(l) == DOMAIN l \subseteq Stage /\ \A s \in DOMAIN l : l[s] \in Entry(s)

\* Inputs are files or stages, not both; what a stage reads is in its entry.
LEMMA InputsType ==
  ASSUME NEW s \in Stage
  PROVE  /\ Inputs(s) \subseteq File \cup Stage /\ Reads[s] \subseteq File /\ Up[s] \subseteq Stage /\ s \notin Up[s]
         /\ Reads[s] \subseteq Inputs(s) /\ Up[s] \subseteq Inputs(s)
<1>1. Up[s] \subseteq Ancestors[s]
  BY AncestorsEq
<1> QED
  BY <1>1, StagePlanAssumption DEF Inputs

LEMMA InitHolds == Init => IInv
<1> SUFFICES ASSUME Init PROVE IInv
  OBVIOUS
<1>1. 1 \in 0..MaxVersion /\ 0 \in 0..MaxVersion /\ 1 \in Version
  BY StagePlanAssumption DEF Version
<1>2. now \in [File -> 0..MaxVersion] /\ \A f \in Data \cup Param : now[f] # 0
  BY <1>1 DEF Init, File
<1>3. PICK D \in SUBSET Stage :
        /\ lock = [s \in D |-> [dep |-> [i \in Inputs(s) |-> 1], out |-> 1]]
        /\ disk = [x \in Data \cup Stage |-> IF x \in Data \cup D THEN 1 ELSE 0]
  BY DEF Init
<1>4. LockOK(lock)
  BY <1>1, <1>3 DEF LockOK, Entry
<1>5. disk \in [Data \cup Stage -> 0..MaxVersion]
  BY <1>1, <1>3
<1>6. job \in [on : BOOLEAN, files : [File -> 0..MaxVersion], goal : SUBSET Stage, left : SUBSET Stage] /\ ~job.on
  BY <1>1 DEF Init, NoJob
<1>7. plan \in [Stage -> BOOLEAN] /\ edits \in 0..MaxEdits /\ jobs \in 0..MaxJobs /\ clears \in 0..MaxClears
  BY StagePlanAssumption DEF Init, NoPlan
<1> QED
  BY <1>2, <1>4, <1>5, <1>6, <1>7 DEF IInv, TypeOK, JobInv, LockOK

\* A job starts with what the plan leaves out already reproduced.
LEMMA SubmitKeeps ==
  ASSUME IInv, NEW targets \in SUBSET Stage, Submit(targets)
  PROVE  IInv'
<1> DEFINE goal == Closure(targets)
           left == {s \in goal : Stale[s]}
<1>1. /\ plan' = [s \in Stage |-> s \in goal /\ Stale[s]]
      /\ job' = [on |-> TRUE, files |-> now, goal |-> goal, left |-> left]
      /\ jobs < MaxJobs /\ jobs' = jobs + 1 /\ UNCHANGED <<now, disk, lock, edits, clears>>
  BY DEF Submit
<1>2. goal \subseteq Stage /\ \A s \in goal : Up[s] \subseteq goal
  BY ClosureType
<1>3. \A s \in Frozen : ~Stale[s]
  BY StaleEq, StagePlanAssumption DEF Intrinsic
<1> HIDE DEF goal
<1>4. job'.on /\ job'.files = now /\ job'.goal = goal /\ job'.left = left
  BY <1>1
<1>5. plan' \in [Stage -> BOOLEAN] /\ \A s \in goal : plan'[s] <=> Stale[s]
  BY <1>1, <1>2
<1>6. TypeOK'
  <2>1. job' \in [on : BOOLEAN, files : [File -> 0..MaxVersion], goal : SUBSET Stage, left : SUBSET Stage]
    BY <1>1, <1>2 DEF IInv, TypeOK
  <2>2. jobs' \in 0..MaxJobs
    BY <1>1, StagePlanAssumption DEF IInv, TypeOK
  <2> HIDE DEF left
  <2> QED
    BY <1>1, <1>5, <2>1, <2>2 DEF IInv, TypeOK
<1>7. JobIsClosed'
  BY <1>1, <1>2, <1>3, <1>4, <1>5, StagePlanAssumption DEF JobIsClosed
<1>8. ASSUME NEW s \in goal, s \notin Frozen, ~Stale[s], NEW u \in Up[s]
      PROVE  ~plan'[u] \/ u \in Always
  <2>1. u \in goal /\ s \in Stage
    BY <1>2, <1>8
  <2>2. ~(Stale[u] /\ Spreads(u))
    BY <1>8, <2>1, StaleEq
  <2> QED
    BY <1>5, <2>1, <2>2 DEF Spreads
<1>9. InOrder'
  BY <1>4, <1>5, <1>8 DEF InOrder
<1>10. ASSUME NEW s \in goal, s \notin left, s \notin Frozen PROVE Reproduced(s)'
  <2>1. ~Stale[s] /\ s \in Stage
    BY <1>2, <1>10
  <2>2. ~Intrinsic(s)
    BY <2>1, StaleEq
  <2>3. s \in DOMAIN lock /\ \A f \in Reads[s] : now[f] # 0 /\ lock[s].dep[f] = now[f]
    BY <1>10, <2>2 DEF Intrinsic, FileDiffers
  <2>4. ASSUME NEW u \in Up[s]
        PROVE  /\ u \in DOMAIN lock
               /\ \/ lock[s].dep[u] = lock[u].out
                  \/ u \in Always
                  \/ <<s, u>> \in Part /\ ~plan'[u] /\ disk[u] \in {0, lock[s].dep[u]}
    BY <1>8, <1>10, <2>1, <2>2 DEF Intrinsic, UpstreamDiffers
  <2> QED
    BY <1>1, <1>4, <2>3, <2>4 DEF Reproduced
<1> QED
  BY <1>4, <1>6, <1>7, <1>9, <1>10 DEF IInv, JobInv

\* The entry a run leaves, and the entries of the others.
LEMMA RecordedIn ==
  ASSUME IInv, job.on, NEW s \in job.left, NEW v \in Version, Up[s] \subseteq DOMAIN lock,
         lock' = [t \in DOMAIN lock \cup {s} |-> IF t = s THEN Recorded(s, v) ELSE lock[t]]
  PROVE  /\ s \in Stage /\ LockOK(lock') /\ DOMAIN lock' = DOMAIN lock \cup {s}
         /\ \A t \in DOMAIN lock : t # s => lock'[t] = lock[t]
         /\ lock'[s].out = v
         /\ \A f \in Reads[s] : lock'[s].dep[f] = job.files[f]
         /\ \A u \in Up[s] : lock'[s].dep[u] = lock[u].out
<1>1. s \in Stage
  BY DEF IInv, TypeOK
<1>2. DOMAIN lock' = DOMAIN lock \cup {s} /\ lock'[s] = Recorded(s, v) /\ \A t \in DOMAIN lock : t # s => lock'[t] = lock[t]
  OBVIOUS
<1>3. \A f \in Reads[s] : Seen(f) = job.files[f] /\ Seen(f) \in 0..MaxVersion
  <2>1. \A f \in Reads[s] : f \in File /\ f \notin Stage
    BY <1>1, InputsType, StagePlanAssumption
  <2> QED
    BY <2>1 DEF Seen, IInv, TypeOK
<1>4. \A u \in Up[s] : Seen(u) = lock[u].out /\ Seen(u) \in 0..MaxVersion
  <2>1. \A u \in Up[s] : u \in Stage /\ lock[u] \in Entry(u)
    BY <1>1, InputsType DEF IInv, TypeOK
  <2>2. Version \subseteq 0..MaxVersion
    BY StagePlanAssumption DEF Version
  <2> QED
    BY <2>1, <2>2 DEF Seen, Entry
<1>5. Recorded(s, v) \in Entry(s)
  <2>1. \A i \in Inputs(s) : Seen(i) \in 0..MaxVersion
    BY <1>3, <1>4 DEF Inputs
  <2> QED
    BY <2>1 DEF Recorded, Entry
<1>6. LockOK(lock')
  BY <1>1, <1>2, <1>5 DEF LockOK, IInv, TypeOK
<1>7. lock'[s].out = v /\ \A i \in Inputs(s) : lock'[s].dep[i] = Seen(i)
  BY <1>2 DEF Recorded
<1> QED
  BY <1>1, <1>2, <1>3, <1>4, <1>6, <1>7, InputsType

\* A run changes the output of no stage that a finished one still relies on.
LEMMA RunStageKeeps ==
  ASSUME IInv, NEW s \in Stage, NEW v \in Version, RunStage(s, v)
  PROVE  IInv'
<1>1. /\ job.on /\ s \in job.left /\ Up[s] \cap job.left = {} /\ Up[s] \subseteq DOMAIN lock
      /\ \A f \in Reads[s] : job.files[f] # 0
      /\ lock' = [t \in DOMAIN lock \cup {s} |-> IF t = s THEN Recorded(s, v) ELSE lock[t]]
      /\ job' = [job EXCEPT !.left = @ \ {s}] /\ UNCHANGED <<now, disk, plan, edits, jobs, clears>>
  BY DEF RunStage
<1>2. /\ LockOK(lock') /\ DOMAIN lock' = DOMAIN lock \cup {s}
      /\ \A t \in DOMAIN lock : t # s => lock'[t] = lock[t]
      /\ \A f \in Reads[s] : lock'[s].dep[f] = job.files[f]
      /\ \A u \in Up[s] : lock'[s].dep[u] = lock[u].out
  BY <1>1, RecordedIn
<1>3. job'.on /\ job'.files = job.files /\ job'.goal = job.goal /\ job'.left = job.left \ {s}
  BY <1>1 DEF IInv, TypeOK
<1>4. JobIsClosed /\ InOrder /\ \A t \in job.goal \ (job.left \cup Frozen) : Reproduced(t)
  BY <1>1 DEF IInv, JobInv
<1>5. TypeOK'
  <2>1. job' \in [on : BOOLEAN, files : [File -> 0..MaxVersion], goal : SUBSET Stage, left : SUBSET Stage]
    BY <1>1 DEF IInv, TypeOK
  <2> QED
    BY <1>1, <1>2, <2>1 DEF IInv, TypeOK, LockOK
<1>6. JobIsClosed'
  BY <1>1, <1>3, <1>4 DEF JobIsClosed
<1>7. InOrder'
  BY <1>1, <1>3, <1>4 DEF InOrder
<1>8. Reproduced(s)'
  <2>1. \A u \in Up[s] : u \in DOMAIN lock /\ u # s
    BY <1>1, InputsType
  <2> QED
    BY <1>1, <1>2, <1>3, <2>1 DEF Reproduced
<1>9. ASSUME NEW t \in job.goal, t \notin job.left, t \notin Frozen PROVE Reproduced(t)'
  <2>1. Reproduced(t) /\ t # s
    BY <1>1, <1>4, <1>9
  <2>2. t \in DOMAIN lock /\ lock'[t] = lock[t]
    BY <1>2, <2>1 DEF Reproduced
  <2>3. \A f \in Reads[t] : job'.files[f] # 0 /\ lock'[t].dep[f] = job'.files[f]
    BY <1>3, <2>1, <2>2 DEF Reproduced
  <2>4. ASSUME NEW u \in Up[t]
        PROVE  /\ u \in DOMAIN lock'
               /\ \/ lock'[t].dep[u] = lock'[u].out
                  \/ u \in Always
                  \/ <<t, u>> \in Part /\ ~plan'[u] /\ disk'[u] \in {0, lock'[t].dep[u]}
    <3>1. CASE u = s
      <4>1. plan[s] /\ ~plan[t]
        BY <1>1, <1>4, <1>9, <3>1 DEF JobIsClosed, InOrder
      <4> QED
        BY <1>2, <1>4, <1>9, <3>1, <4>1 DEF InOrder
    <3>2. CASE u # s
      BY <1>1, <1>2, <2>1, <2>2, <3>2 DEF Reproduced
    <3> QED
      BY <3>1, <3>2
  <2> QED
    BY <1>2, <2>2, <2>3, <2>4 DEF Reproduced
<1>10. \A t \in job'.goal \ (job'.left \cup Frozen) : Reproduced(t)'
  BY <1>3, <1>8, <1>9
<1> QED
  BY <1>3, <1>5, <1>6, <1>7, <1>10 DEF IInv, JobInv

\* Who edits during a job changes neither its files nor an output on disk.
LEMMA EditKeeps ==
  ASSUME IInv, NEW f \in File, NEW v \in 0..MaxVersion, Edit(f, v)
  PROVE  IInv'
<1>1. /\ edits < MaxEdits /\ edits' = edits + 1 /\ (v = 0 => f \in Code)
      /\ now' = [now EXCEPT ![f] = v]
      /\ disk' = IF f \in Data /\ disk[f] # 0 THEN [disk EXCEPT ![f] = v] ELSE disk
      /\ UNCHANGED <<lock, plan, job, jobs, clears>>
  BY DEF Edit
<1>2. now' \in [File -> 0..MaxVersion] /\ \A g \in Data \cup Param : now'[g] # 0
  BY <1>1, StagePlanAssumption DEF IInv, TypeOK, File
<1>3. disk' \in [Data \cup Stage -> 0..MaxVersion] /\ \A u \in Stage : disk'[u] = disk[u]
  BY <1>1, StagePlanAssumption DEF IInv, TypeOK, File
<1>4. TypeOK'
  <2>1. edits' \in 0..MaxEdits
    BY <1>1, StagePlanAssumption DEF IInv, TypeOK
  <2> QED
    BY <1>1, <1>2, <1>3, <2>1 DEF IInv, TypeOK
<1>5. ASSUME NEW s \in job.goal, Reproduced(s) PROVE Reproduced(s)'
  <2>1. s \in Stage /\ Up[s] \subseteq Stage
    BY InputsType DEF IInv, TypeOK
  <2> QED
    BY <1>1, <1>3, <1>5, <2>1 DEF Reproduced
<1>6. JobInv'
  BY <1>1, <1>5 DEF IInv, JobInv, JobIsClosed, InOrder
<1> QED
  BY <1>4, <1>6 DEF IInv

\* What realigning writes: entries of the same stages, with the same outputs
\* and the same inputs except code.
LEMMA Realigns ==
  ASSUME TypeOK, NEW targets \in SUBSET Stage, Realign(targets)
  PROVE  /\ LockOK(lock') /\ DOMAIN lock' = DOMAIN lock
         /\ \A s \in DOMAIN lock : /\ lock'[s].out = lock[s].out
                                   /\ \A i \in Inputs(s) \ Code : lock'[s].dep[i] = lock[s].dep[i]
<1> DEFINE dep(s) == [i \in Inputs(s) |-> IF i \in Realigned THEN now[i] ELSE lock[s].dep[i]]
<1>1. lock' = [s \in DOMAIN lock |-> IF s \in targets THEN [lock[s] EXCEPT !.dep = dep(s)] ELSE lock[s]]
  BY DEF Realign
<1>2. ASSUME NEW s \in DOMAIN lock
      PROVE  /\ lock'[s] \in Entry(s) /\ lock'[s].out = lock[s].out
             /\ \A i \in Inputs(s) \ Code : lock'[s].dep[i] = lock[s].dep[i]
  <2>1. lock[s] \in Entry(s) /\ s \in Stage
    BY DEF TypeOK
  <2>2. dep(s) \in [Inputs(s) -> 0..MaxVersion]
    BY <2>1, InputsType DEF Entry, Realigned, TypeOK, File
  <2>3. \A i \in Inputs(s) \ Code : dep(s)[i] = lock[s].dep[i]
    BY DEF Realigned
  <2> HIDE DEF dep
  <2>4. CASE s \in targets
    <3>1. lock'[s] = [lock[s] EXCEPT !.dep = dep(s)]
      BY <1>1, <2>4
    <3> QED
      BY <2>1, <2>2, <2>3, <3>1 DEF Entry
  <2>5. CASE s \notin targets
    BY <1>1, <2>1, <2>5
  <2> QED
    BY <2>4, <2>5
<1>3. DOMAIN lock' = DOMAIN lock
  BY <1>1
<1> QED
  BY <1>2, <1>3 DEF LockOK, TypeOK

\* Between jobs.
LEMMA IdleKeeps ==
  ASSUME IInv, JobFails \/ JobEnds \/ Clear \/ \E targets \in SUBSET Stage : Realign(targets)
  PROVE  IInv'
<1>1. CASE JobFails \/ JobEnds
  <2>1. job' = NoJob /\ plan' = NoPlan /\ UNCHANGED <<now, disk, lock, edits, jobs, clears>>
    BY <1>1 DEF JobFails, JobEnds
  <2>2. 1 \in 0..MaxVersion
    BY StagePlanAssumption
  <2> QED
    BY <2>1, <2>2 DEF IInv, TypeOK, JobInv, NoJob, NoPlan
<1>2. CASE Clear
  <2>1. /\ ~job.on /\ clears < MaxClears /\ clears' = clears + 1 /\ UNCHANGED <<now, lock, plan, job, edits, jobs>>
        /\ \/ disk' = [x \in DOMAIN disk |-> 0]
           \/ disk' = [x \in DOMAIN disk |-> IF x \in Data THEN now[x]
                                             ELSE IF x \in DOMAIN lock THEN lock[x].out ELSE disk[x]]
    BY <1>2 DEF Clear
  <2>2. \A x \in DOMAIN lock : lock[x].out \in 0..MaxVersion
    BY StagePlanAssumption DEF IInv, TypeOK, Entry, Version
  <2>3. \A x \in Data : now[x] \in 0..MaxVersion
    BY DEF IInv, TypeOK, File
  <2>4. disk \in [Data \cup Stage -> 0..MaxVersion]
    BY DEF IInv, TypeOK
  <2>5. disk' \in [Data \cup Stage -> 0..MaxVersion]
    BY <2>1, <2>2, <2>3, <2>4, StagePlanAssumption
  <2>6. clears' \in 0..MaxClears
    BY <2>1, StagePlanAssumption DEF IInv, TypeOK
  <2>7. TypeOK'
    BY <2>1, <2>5, <2>6 DEF IInv, TypeOK
  <2> QED
    BY <2>1, <2>7 DEF IInv, JobInv
<1>3. ASSUME NEW targets \in SUBSET Stage, Realign(targets) PROVE IInv'
  <2>1. ~job.on /\ UNCHANGED <<now, disk, plan, job, edits, jobs, clears>>
    BY <1>3 DEF Realign
  <2>2. LockOK(lock')
    BY <1>3, Realigns DEF IInv
  <2>3. TypeOK'
    BY <2>1, <2>2 DEF IInv, TypeOK, LockOK
  <2> QED
    BY <2>1, <2>3 DEF IInv, JobInv
<1> QED
  BY <1>1, <1>2, <1>3

LEMMA NextKeeps == IInv /\ [Next]_vars => IInv'
<1> SUFFICES ASSUME IInv, [Next]_vars PROVE IInv'
  OBVIOUS
<1>1. CASE \E targets \in SUBSET Stage \ {{}} : Submit(targets)
  BY <1>1, SubmitKeeps
<1>2. CASE \E targets \in SUBSET Stage \ {{}} : Realign(targets)
  BY <1>2, IdleKeeps
<1>3. CASE \E s \in Stage, v \in Version : RunStage(s, v)
  BY <1>3, RunStageKeeps
<1>4. CASE JobFails \/ JobEnds \/ Clear
  BY <1>4, IdleKeeps
<1>5. CASE \E f \in File, v \in 0..MaxVersion : Edit(f, v)
  BY <1>5, EditKeeps
<1>6. CASE UNCHANGED vars
  BY <1>6 DEF vars, IInv, TypeOK, JobInv, JobIsClosed, InOrder, Reproduced
<1> QED
  BY <1>1, <1>2, <1>3, <1>4, <1>5, <1>6 DEF Next

LEMMA Invariance == Spec => []IInv
BY InitHolds, NextKeeps, PTL DEF Spec

-----------------------------------------------------------------------------
(* The theorems.                                                           *)

\* Types: in particular dvc.lock keeps an entry for every input of a stage it
\* records.
THEOREM PlanTypeOK == Spec => []TypeOK
<1>1. IInv => TypeOK
  BY DEF IInv
<1> QED
  BY <1>1, Invariance, PTL

\* A finished job leaves every stage it was asked for recorded on its files
\* and on the recorded outputs of the others, skipped ones included.
THEOREM PlanJobReproduces == Spec => []JobReproduces
<1>1. ASSUME IInv PROVE JobReproduces
  <2> SUFFICES ASSUME job.on, job.left = {}, NEW s \in job.goal \ Frozen
               PROVE  /\ s \in DOMAIN lock
                      /\ \A i \in Inputs(s) : \/ lock[s].dep[i] = Seen(i)
                                              \/ i \in Always
                                              \/ <<s, i>> \in Part /\ ~plan[i]
    BY DEF JobReproduces
  <2>1. Reproduced(s) /\ s \in Stage
    BY <1>1 DEF IInv, JobInv, TypeOK
  <2>2. \A f \in Reads[s] : lock[s].dep[f] = Seen(f)
    <3>1. \A f \in Reads[s] : f \notin Stage
      BY <2>1, InputsType, StagePlanAssumption
    <3> QED
      BY <2>1, <3>1 DEF Reproduced, Seen
  <2>3. \A u \in Up[s] : lock[s].dep[u] = Seen(u) \/ u \in Always \/ (<<s, u>> \in Part /\ ~plan[u])
    <3>1. \A u \in Up[s] : u \in Stage
      BY <2>1, InputsType
    <3> QED
      BY <2>1, <3>1 DEF Reproduced, Seen
  <2> QED
    BY <2>1, <2>2, <2>3 DEF Reproduced, Inputs
<1> QED
  BY <1>1, Invariance, PTL

\* Right after a finished job the same plan is empty, but for always_changed
\* stages and what their new outputs changed.
THEOREM PlanIdempotent == Spec => []Idempotent
<1>1. ASSUME IInv PROVE Idempotent
  <2> SUFFICES ASSUME job.on, job.left = {}, now = job.files,
                      \A u \in DOMAIN lock : disk[u] \in {0, lock[u].out}
               PROVE  \A s \in job.goal : Stale[s] =>
                        \/ s \in Always
                        \/ \E t \in {s} \cup Ancestors[s] : \E u \in Up[t] \cap Always : lock[t].dep[u] # lock[u].out
    BY DEF Idempotent
  <2> DEFINE Excused(s) == \/ s \in Always
                           \/ \E t \in {s} \cup Ancestors[s] : \E u \in Up[t] \cap Always : lock[t].dep[u] # lock[u].out
             T == {s \in Stage : s \in job.goal /\ Stale[s] => Excused(s)}
  <2>1. ASSUME NEW s \in Stage, Up[s] \subseteq T, s \in job.goal, Stale[s] PROVE Excused(s)
    <3>1. CASE Intrinsic(s)
      <4>1. s \notin Frozen
        BY <3>1 DEF Intrinsic
      <4>2. Reproduced(s)
        BY <1>1, <2>1, <4>1 DEF IInv, JobInv
      <4>3. \A f \in Reads[s] : ~FileDiffers(s, f)
        BY <4>2 DEF Reproduced, FileDiffers
      <4>4. s \in Always \/ \E u \in Up[s] : UpstreamDiffers(s, u)
        BY <3>1, <4>2, <4>3 DEF Intrinsic, Reproduced
      <4>5. ASSUME NEW u \in Up[s], UpstreamDiffers(s, u) PROVE u \in Always /\ lock[s].dep[u] # lock[u].out
        BY <4>2, <4>5 DEF Reproduced, UpstreamDiffers
      <4> QED
        BY <4>4, <4>5
    <3>2. CASE \E u \in Up[s] : Stale[u] /\ Spreads(u)
      <4>1. PICK u \in Up[s] : Stale[u] /\ u \notin Always
        BY <3>2 DEF Spreads
      <4>2. u \in job.goal
        BY <1>1, <2>1 DEF IInv, JobInv, JobIsClosed
      <4>3. Excused(u)
        BY <2>1, <4>1, <4>2
      <4>4. {u} \cup Ancestors[u] \subseteq Ancestors[s]
        BY AncestorsEq
      <4> QED
        BY <4>1, <4>3, <4>4
    <3> QED
      BY <2>1, <3>1, <3>2, StaleEq
  <2>2. \A s \in Stage : Up[s] \subseteq T => s \in T
    BY <2>1
  <2> HIDE DEF T
  <2>3. Stage \subseteq T
    BY <2>2, AlongThePlan
  <2>4. job.goal \subseteq Stage
    BY <1>1 DEF IInv, TypeOK
  <2> QED
    BY <2>3, <2>4 DEF T
<1> QED
  BY <1>1, Invariance, PTL

\* Realigning dvc.lock hides only changes of code: what data, a parameter or
\* an output makes stale stays in the plan.
THEOREM PlanRealignHidesOnlyCode == Spec => RealignHidesOnlyCode
<1>1. ASSUME IInv, [Next]_vars, ~job.on, lock' # lock PROVE \A s \in Stage : NotCodeOnly[s] => Stale'[s]
  <2>1. PICK targets \in SUBSET Stage : Realign(targets)
    BY <1>1 DEF Next, vars, Submit, RunStage, JobFails, JobEnds, Clear, Edit
  <2>2. UNCHANGED <<now, disk>>
    BY <2>1 DEF Realign
  <2>3. ASSUME NEW s \in Stage, NotCode(s) PROVE Intrinsic(s)'
    <3>1. s \in DOMAIN lock /\ s \notin Frozen
      BY <2>3 DEF NotCode
    <3>2. s \in DOMAIN lock' /\ \A i \in Inputs(s) \ Code : lock'[s].dep[i] = lock[s].dep[i]
      BY <1>1, <2>1, <3>1, Realigns DEF IInv
    <3>3. ASSUME NEW f \in Reads[s] \ Code, lock[s].dep[f] # now[f] PROVE FileDiffers(s, f)'
      BY <2>2, <3>2, <3>3, InputsType DEF FileDiffers
    <3>4. ASSUME NEW u \in Up[s], UpstreamDiffers(s, u) PROVE UpstreamDiffers(s, u)'
      <4>1. u \in Inputs(s) \ Code
        BY InputsType, StagePlanAssumption DEF File
      <4>2. lock'[s].dep[u] = lock[s].dep[u]
        BY <3>2, <4>1
      <4>3. DOMAIN lock' = DOMAIN lock /\ (u \in DOMAIN lock => lock'[u].out = lock[u].out)
        BY <1>1, <2>1, Realigns DEF IInv
      <4> QED
        BY <2>2, <3>4, <4>2, <4>3 DEF UpstreamDiffers
    <3> QED
      BY <2>3, <3>1, <3>3, <3>4 DEF NotCode, Intrinsic
  <2> DEFINE T == {s \in Stage : NotCodeOnly[s] => Stale'[s]}
  <2>4. \A s \in Stage : Stale'[s] <=> Intrinsic(s)' \/ (s \notin Frozen /\ \E u \in Up[s] : Stale'[u] /\ Spreads(u))
    <3>1. (\A s \in Stage : Stale[s] <=> Intrinsic(s) \/ (s \notin Frozen /\ \E u \in Up[s] : Stale[u] /\ Spreads(u)))'
      BY StaleEq, PTL
    <3> QED
      BY <3>1
  <2>5. ASSUME NEW s \in Stage, Up[s] \subseteq T, NotCodeOnly[s] PROVE Stale'[s]
    <3>1. CASE NotCode(s)
      BY <2>3, <2>4, <3>1
    <3>2. CASE s \notin Frozen /\ \E u \in Up[s] : NotCodeOnly[u] /\ Spreads(u)
      <4>1. PICK u \in Up[s] : NotCodeOnly[u] /\ Spreads(u)
        BY <3>2
      <4>2. Stale'[u]
        BY <2>5, <4>1
      <4> QED
        BY <2>4, <3>2, <4>1, <4>2
    <3> QED
      BY <2>5, <3>1, <3>2, NotCodeOnlyEq
  <2>6. \A s \in Stage : Up[s] \subseteq T => s \in T
    BY <2>5
  <2> HIDE DEF T
  <2>7. Stage \subseteq T
    BY <2>6, AlongThePlan
  <2> QED
    BY <2>7 DEF T
<1>2. IInv /\ [Next]_vars => (~job.on /\ lock' # lock => \A s \in Stage : NotCodeOnly[s] => Stale'[s])
  BY <1>1
<1> QED
  BY <1>2, Invariance, PTL DEF Spec, RealignHidesOnlyCode
=============================================================================
