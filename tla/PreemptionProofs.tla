-------------------------- MODULE PreemptionProofs --------------------------
(***************************************************************************)
(* Proofs about Preemption, for every set of stages, jobs, machines and    *)
(* runners, every number of faults and both ways of choosing a victim.     *)
(*                                                                         *)
(* That a reservation outlives the runner is not inductive.  The headnode  *)
(* settles a preemption on the word of the worker, so IInv says what that  *)
(* word is worth (CleanupTracksProcess).  The bound on preemptions needs   *)
(* to know that a victim chosen and not marked yet is still below it when  *)
(* it is marked (VictimBelowLimit).                                        *)
(*                                                                         *)
(* That no machine is overloaded rests on the reservations of the table:   *)
(* HInv says that a runner at work holds the one of its stage, so that as  *)
(* many runners work on a machine at most as stages reserve a slot there.  *)
(***************************************************************************)
EXTENDS Preemption, FiniteSetTheorems, TLAPS

\* A runner that works on a stage knows which.
StageInHand == \A r \in Runner : phase[r] \in {"stage", "out"} => cur[r] \in Stage

\* A cleanup belongs to a runner the worker still keeps an entry for, such an
\* entry to a runner it knows, and only the end of the process is acknowledged.
CleanupTracksProcess ==
  \A r \in Runner : /\ stop[r] # "idle" => r \in kept
                    /\ r \in kept => phase[r] # "off"
                    /\ stop[r] = "ack" => phase[r] \notin Alive

\* A stage that is being preempted, or is chosen for it, may still be.
VictimBelowLimit ==
  /\ \A n \in Stage : st[n] = "preempting" => pc[n] < MaxPreempt
  /\ snap # None => /\ Interleaving
                    /\ st[snap[2]] # "preempting" /\ pc[snap[2]] < MaxPreempt

IInv == TypeOK /\ StageInHand /\ CleanupTracksProcess /\ VictimBelowLimit

-----------------------------------------------------------------------------
(* What steps have in common.                                              *)

TableOK ==
  /\ st \in [Stage -> {"new", "ready", "running", "preempting", "done", "failed"}]
  /\ own \in [Stage -> Runner \cup {None}]
  /\ rc \in [Stage -> 0..MaxNodeRetries] /\ pc \in [Stage -> 0..MaxPreempt]
  /\ by \in [Stage -> Stage \cup {None}] /\ ec \in [Stage -> Outcome \cup {None}]

RunnerOK ==
  /\ phase \in [Runner -> Phase]
  /\ cur \in [Runner -> Stage \cup {None}] /\ res \in [Runner -> Outcome \cup {None}]

WorkerOK ==
  /\ flag \subseteq Runner /\ kept \subseteq Runner
  /\ stop \in [Runner -> {"idle", "kill", "ack"}]

RestOK == snap \in (Stage \X Stage) \cup {None} /\ won \subseteq Stage /\ faults \in 0..MaxFaults

\* The parts of TypeOK.
LEMMA TypeParts == TypeOK <=> TableOK /\ RunnerOK /\ WorkerOK /\ RestOK
BY DEF TypeOK, TableOK, RunnerOK, WorkerOK, RestOK

\* A fault stays within the budget of faults.
LEMMA FaultBounded ==
  ASSUME faults \in 0..MaxFaults, NEW kind, Fault(kind) PROVE faults' \in 0..MaxFaults
BY PreemptionAssumption DEF Fault

\* The preemption bound survives every step that starts no preemption and
\* counts none for a stage that is not being preempted.
LEMMA NoNewVictim ==
  ASSUME IInv, UNCHANGED snap,
         \A n \in Stage : st'[n] = "preempting" => st[n] = "preempting" /\ pc'[n] = pc[n],
         \A n \in Stage : st[n] # "preempting" => pc'[n] = pc[n]
  PROVE  VictimBelowLimit'
<1>1. snap # None => snap[2] \in Stage
  BY DEF IInv, TypeOK
<1> QED
  BY <1>1 DEF IInv, VictimBelowLimit

\* A runner process may go on in any way, the worker keeps track of it.
LEMMA ProcessMoves ==
  ASSUME IInv, NEW r \in Runner, NEW p \in Phase \ {"off"},
         NEW c \in Stage \cup {None}, NEW o \in Outcome \cup {None},
         Moves(r, p, c, o), UNCHANGED worker,
         phase[r] \in Alive \cup {"off"}, p \in {"stage", "out"} => c \in Stage
  PROVE  RunnerOK' /\ WorkerOK' /\ StageInHand' /\ CleanupTracksProcess'
<1>1. RunnerOK' /\ WorkerOK'
  BY DEF IInv, TypeOK, RunnerOK, WorkerOK, Moves, worker
<1>2. StageInHand'
  BY DEF IInv, TypeOK, StageInHand, Moves
<1>3. stop[r] # "ack" /\ (phase[r] = "off" => stop[r] = "idle" /\ r \notin kept)
  BY DEF IInv, CleanupTracksProcess, Alive
<1>4. CleanupTracksProcess'
  BY <1>3 DEF IInv, TypeOK, CleanupTracksProcess, Moves, worker, Alive
<1> QED
  BY <1>1, <1>2, <1>4

\* A step of the headnode alone disturbs no machine.
LEMMA MachinesUntouched ==
  ASSUME IInv, UNCHANGED <<runner, worker>>
  PROVE  RunnerOK' /\ WorkerOK' /\ StageInHand' /\ CleanupTracksProcess'
BY DEF IInv, TypeOK, RunnerOK, WorkerOK, StageInHand, CleanupTracksProcess, runner, worker

\* A step that leaves the table alone disturbs no victim.
LEMMA TableUntouched ==
  ASSUME IInv, UNCHANGED <<table, snap>>
  PROVE  TableOK' /\ VictimBelowLimit'
BY NoNewVictim DEF IInv, TypeOK, TableOK, table

-----------------------------------------------------------------------------
(* What the headnode may do to the table.                                  *)

\* A failure is retried or final, within the retries; no preemption begins.
LEMMA FailOrRetryStep ==
  ASSUME IInv, NEW S \in SUBSET Stage, FailOrRetry(S), UNCHANGED snap
  PROVE  TableOK' /\ VictimBelowLimit'
<1>1. TableOK'
  <2>1. rc' \in [Stage -> 0..MaxNodeRetries]
    BY PreemptionAssumption DEF FailOrRetry, Retried, IInv, TypeOK
  <2> QED
    BY <2>1 DEF FailOrRetry, Retried, IInv, TypeOK, TableOK
<1>2. VictimBelowLimit'
  BY NoNewVictim DEF FailOrRetry, Retried, IInv, TypeOK
<1> QED
  BY <1>1, <1>2

\* Settling a preemption counts it within the bound.
LEMMA SettleStep ==
  ASSUME IInv, NEW r \in Runner, NEW success \in BOOLEAN, Settle(r, success), UNCHANGED snap
  PROVE  TableOK' /\ VictimBelowLimit'
<1>1. \A n \in Matched(r) : n \in Stage /\ st[n] = "preempting" /\ pc[n] < MaxPreempt
  BY DEF Matched, Preempting, IInv, VictimBelowLimit
<1>2. pc' \in [Stage -> 0..MaxPreempt]
  BY <1>1, PreemptionAssumption DEF Settle, IInv, TypeOK
<1>3. TableOK'
  BY <1>2 DEF Settle, IInv, TypeOK, TableOK
<1>4. VictimBelowLimit'
  BY <1>1, NoNewVictim DEF Settle, IInv, TypeOK
<1> QED
  BY <1>3, <1>4

\* The thread of execute_job lets go of a runner, or looks at its process.
LEMMA ThreadLetsGo ==
  ASSUME IInv, NEW r \in Runner, phase[r] \notin Alive \cup {"off"}, ThreadEnds(r),
         UNCHANGED <<cur, res, kept, stop>>, flag' \subseteq Runner
  PROVE  RunnerOK' /\ WorkerOK' /\ StageInHand' /\ CleanupTracksProcess'
<1>1. RunnerOK' /\ WorkerOK'
  BY DEF ThreadEnds, IInv, TypeOK, RunnerOK, WorkerOK, Phase
<1>2. StageInHand'
  BY DEF ThreadEnds, IInv, TypeOK, StageInHand
<1>3. r \notin kept => stop[r] = "idle"
  BY DEF IInv, CleanupTracksProcess
<1>4. CleanupTracksProcess'
  BY <1>3 DEF ThreadEnds, IInv, TypeOK, CleanupTracksProcess, Alive
<1> QED
  BY <1>1, <1>2, <1>4

-----------------------------------------------------------------------------
(* One lemma per kind of action.                                           *)

LEMMA InitSound ==
  ASSUME Init PROVE IInv
<1>1. TypeOK
  BY PreemptionAssumption DEF Init, TypeOK, Phase
<1> QED
  BY <1>1 DEF Init, IInv, StageInHand, CleanupTracksProcess, VictimBelowLimit

\* Whole steps from their parts.
LEMMA Whole ==
  ASSUME TableOK', VictimBelowLimit', RunnerOK', WorkerOK', RestOK',
         StageInHand', CleanupTracksProcess'
  PROVE  IInv'
BY DEF IInv, TypeOK, TableOK, RunnerOK, WorkerOK, RestOK

\* Submission, claims and reports of a runner process.
LEMMA ProcessSteps ==
  ASSUME IInv, NEW r \in Runner, ProcessStep(r) \/ RunnerCrash(r)
  PROVE  IInv'
<1> USE DEF Phase, Alive, Outcome
<1>1. CASE Start(r)
  <2>1. TableOK' /\ VictimBelowLimit' /\ RestOK'
    BY <1>1, TableUntouched DEF Start, IInv, TypeOK, RestOK
  <2> QED
    BY <1>1, <2>1, ProcessMoves, Whole DEF Start
<1>2. ASSUME NEW n \in Stage, Claim(r, n) PROVE IInv'
  <2>1. TableOK'
    BY <1>2 DEF Claim, IInv, TypeOK, TableOK
  <2>2. VictimBelowLimit'
    BY <1>2, NoNewVictim DEF Claim, Claimable, IInv, TypeOK
  <2>3. RestOK'
    BY <1>2 DEF Claim, IInv, TypeOK, RestOK
  <2> QED
    BY <1>2, <2>1, <2>2, <2>3, ProcessMoves, Whole DEF Claim
<1>3. CASE Leave(r)
  <2>1. TableOK' /\ VictimBelowLimit' /\ RestOK'
    BY <1>3, TableUntouched DEF Leave, IInv, TypeOK, RestOK
  <2> QED
    BY <1>3, <2>1, ProcessMoves, Whole DEF Leave
<1>4. CASE StageEnds(r)
  <2>1. cur[r] \in Stage
    BY <1>4 DEF StageEnds, IInv, StageInHand
  <2>2. TableOK' /\ VictimBelowLimit'
    BY <1>4, TableUntouched DEF StageEnds
  <2>3. RestOK'
    BY <1>4, <2>1 DEF StageEnds, IInv, TypeOK, RestOK
  <2>4. PICK o \in Outcome : Moves(r, "out", cur[r], o)
    BY <1>4, PreemptionAssumption DEF StageEnds
  <2> QED
    BY <1>4, <2>1, <2>2, <2>3, <2>4, ProcessMoves, Whole DEF StageEnds
<1>5. CASE ReportPreempting(r)
  <2>1. TableOK'
    BY <1>5 DEF ReportPreempting, IInv, TypeOK, TableOK
  <2>2. VictimBelowLimit'
    BY <1>5, NoNewVictim DEF ReportPreempting
  <2>3. RestOK'
    BY <1>5 DEF ReportPreempting, IInv, TypeOK, RestOK
  <2> QED
    BY <1>5, <2>1, <2>2, <2>3, ProcessMoves, Whole DEF ReportPreempting, Yields
<1>6. CASE ReportEcho(r)
  <2>1. TableOK' /\ VictimBelowLimit' /\ RestOK'
    BY <1>6, TableUntouched DEF ReportEcho, IInv, TypeOK, RestOK
  <2> QED
    BY <1>6, <2>1, ProcessMoves, Whole DEF ReportEcho, Yields
<1>7. CASE ReportDone(r)
  <2>1. TableOK'
    BY <1>7 DEF ReportDone, IInv, TypeOK, TableOK
  <2>2. VictimBelowLimit'
    BY <1>7, NoNewVictim DEF ReportDone, IInv, TypeOK
  <2>3. RestOK'
    BY <1>7 DEF ReportDone, IInv, TypeOK, RestOK
  <2> QED
    BY <1>7, <2>1, <2>2, <2>3, ProcessMoves, Whole DEF ReportDone
<1>8. CASE ReportFailed(r)
  <2>1. {cur[r]} \in SUBSET Stage
    BY <1>8 DEF ReportFailed, IInv, StageInHand
  <2>2. TableOK' /\ VictimBelowLimit'
    BY <1>8, <2>1, FailOrRetryStep DEF ReportFailed
  <2>3. RestOK'
    BY <1>8 DEF ReportFailed, IInv, TypeOK, RestOK
  <2> QED
    BY <1>8, <2>2, <2>3, ProcessMoves, Whole DEF ReportFailed
<1>9. CASE RunnerCrash(r)
  <2>1. TableOK' /\ VictimBelowLimit'
    BY <1>9, TableUntouched DEF RunnerCrash
  <2>2. RestOK'
    BY <1>9, FaultBounded DEF RunnerCrash, IInv, TypeOK, RestOK
  <2> QED
    BY <1>9, <2>1, <2>2, ProcessMoves, Whole DEF RunnerCrash
<1> QED
  BY <1>1, <1>2, <1>3, <1>4, <1>5, <1>6, <1>7, <1>8, <1>9 DEF ProcessStep

\* Submission, timeouts and the preemption engine: the headnode alone.
LEMMA HeadnodeSteps ==
  ASSUME IInv,
         \/ \E j \in Job : Submit(j)
         \/ \E n \in Stage : Timeout(n)
         \/ EngineStep \/ PreemptWrite
  PROVE  IInv'
<1>1. UNCHANGED <<runner, worker>>
  BY DEF Submit, Timeout, EngineStep, Preempt, PreemptRead, PreemptWrite, Mark
<1>2. UNCHANGED <<won, faults>>
  BY DEF Submit, Timeout, EngineStep, Preempt, PreemptRead, PreemptWrite, Mark
<1>3. SUFFICES TableOK' /\ VictimBelowLimit' /\ snap' \in (Stage \X Stage) \cup {None}
  BY <1>1, <1>2, MachinesUntouched, Whole DEF IInv, TypeOK, RestOK
<1>4. ASSUME NEW j \in Job, Submit(j)
      PROVE  TableOK' /\ VictimBelowLimit' /\ UNCHANGED snap
  BY <1>4, NoNewVictim DEF Submit, IInv, TypeOK, TableOK
<1>5. ASSUME NEW n \in Stage, Timeout(n)
      PROVE  TableOK' /\ VictimBelowLimit' /\ UNCHANGED snap
  BY <1>5, NoNewVictim DEF Timeout, IInv, TypeOK, TableOK
<1>6. ASSUME NEW q \in Stage, NEW v \in Stage, Preempt(q, v)
      PROVE  TableOK' /\ VictimBelowLimit' /\ UNCHANGED snap
  <2>1. pc[v] < MaxPreempt
    BY <1>6 DEF Preempt, Chosen, Victim
  <2>2. snap = None
    BY <1>6 DEF Preempt, IInv, VictimBelowLimit
  <2> QED
    BY <1>6, <2>1, <2>2 DEF Preempt, Mark, IInv, TypeOK, TableOK, VictimBelowLimit
<1>7. ASSUME NEW q \in Stage, NEW v \in Stage, PreemptRead(q, v)
      PROVE  TableOK' /\ VictimBelowLimit' /\ snap' \in (Stage \X Stage) \cup {None}
  BY <1>7 DEF PreemptRead, Chosen, Victim, table, IInv, TypeOK, TableOK, VictimBelowLimit
<1>8. ASSUME PreemptWrite
      PROVE  TableOK' /\ VictimBelowLimit' /\ snap' \in (Stage \X Stage) \cup {None}
  <2>1. snap[1] \in Stage /\ snap[2] \in Stage /\ pc[snap[2]] < MaxPreempt
    BY <1>8 DEF PreemptWrite, IInv, TypeOK, VictimBelowLimit
  <2> QED
    BY <1>8, <2>1 DEF PreemptWrite, Mark, IInv, TypeOK, TableOK, VictimBelowLimit
<1> QED
  BY <1>4, <1>5, <1>6, <1>7, <1>8 DEF EngineStep, IInv, TypeOK

\* The cleanup thread of the worker, from the request to the acknowledgement.
LEMMA CleanupSteps ==
  ASSUME IInv, NEW r \in Runner,
         \/ PreemptPost(r) \/ PreemptPostLate(r) \/ CleanupStep(r)
         \/ StopUnconfirmed(r) \/ AckAnswerLost(r)
  PROVE  IInv'
<1>1. ASSUME Asked(r), phase[r] # "off" PROVE IInv'
  <2>1. TableOK' /\ VictimBelowLimit' /\ RestOK'
    BY <1>1, TableUntouched DEF Asked, IInv, TypeOK, RestOK
  <2>2. RunnerOK' /\ WorkerOK' /\ StageInHand'
    BY <1>1 DEF Asked, runner, IInv, TypeOK, RunnerOK, WorkerOK, StageInHand
  <2>3. CleanupTracksProcess'
    BY <1>1 DEF Asked, runner, IInv, TypeOK, CleanupTracksProcess
  <2> QED
    BY <2>1, <2>2, <2>3, Whole
<1>2. CASE PreemptPost(r) \/ PreemptPostLate(r)
  BY <1>1, <1>2 DEF PreemptPost, PreemptPostLate, IInv, CleanupTracksProcess, Alive
<1>3. CASE StopRunner(r)
  <2>1. TableOK' /\ VictimBelowLimit' /\ RestOK'
    BY <1>3, TableUntouched DEF StopRunner, IInv, TypeOK, RestOK
  <2>2. phase'[r] \notin Alive \cup {"off"} /\ \A q \in Runner \ {r} : phase'[q] = phase[q]
    BY <1>3 DEF StopRunner, Terminates, Moves, runner, IInv, TypeOK, CleanupTracksProcess, Alive
  <2>3. RunnerOK' /\ WorkerOK' /\ StageInHand'
    BY <1>3 DEF StopRunner, Terminates, Moves, runner, IInv, TypeOK, RunnerOK, WorkerOK,
                StageInHand, Phase
  <2>4. CleanupTracksProcess'
    BY <1>3, <2>2 DEF StopRunner, IInv, TypeOK, CleanupTracksProcess
  <2> QED
    BY <2>1, <2>3, <2>4, Whole
<1>4. CASE StopUnconfirmed(r)
  <2>1. TableOK' /\ VictimBelowLimit'
    BY <1>4, TableUntouched DEF StopUnconfirmed
  <2>2. RestOK'
    BY <1>4, FaultBounded DEF StopUnconfirmed, IInv, TypeOK, RestOK
  <2>3. RunnerOK' /\ WorkerOK' /\ StageInHand' /\ CleanupTracksProcess'
    BY <1>4 DEF StopUnconfirmed, runner, IInv, TypeOK, RunnerOK, WorkerOK, StageInHand,
                CleanupTracksProcess
  <2> QED
    BY <2>1, <2>2, <2>3, Whole
<1>5. CASE Ack(r)
  <2>1. TableOK' /\ VictimBelowLimit' /\ RestOK'
    BY <1>5, SettleStep DEF Ack, IInv, TypeOK, RestOK
  <2>2. RunnerOK' /\ WorkerOK' /\ StageInHand'
    BY <1>5 DEF Ack, IInv, TypeOK, RunnerOK, WorkerOK, StageInHand, Phase
  <2>3. CleanupTracksProcess'
    BY <1>5 DEF Ack, IInv, TypeOK, CleanupTracksProcess, Alive
  <2> QED
    BY <2>1, <2>2, <2>3, Whole
<1>6. CASE AckAnswerLost(r)
  <2>1. TableOK' /\ VictimBelowLimit'
    BY <1>6, SettleStep DEF AckAnswerLost
  <2>2. RestOK'
    BY <1>6, FaultBounded DEF AckAnswerLost, IInv, TypeOK, RestOK
  <2> QED
    BY <1>6, <2>1, <2>2, MachinesUntouched, Whole DEF AckAnswerLost
<1> QED
  BY <1>2, <1>3, <1>4, <1>5, <1>6 DEF CleanupStep

\* The thread of execute_job after the end of the process.
LEMMA ThreadSteps ==
  ASSUME IInv, NEW r \in Runner, ThreadStep(r) \/ ExitLost(r)
  PROVE  IInv'
<1>1. CASE Look(r)
  <2>1. TableOK' /\ VictimBelowLimit' /\ RestOK'
    BY <1>1, TableUntouched DEF Look, IInv, TypeOK, RestOK
  <2>2. CASE r \in flag
    BY <1>1, <2>1, <2>2, ThreadLetsGo, Whole DEF Look, Alive, IInv, TypeOK
  <2>3. CASE r \notin flag
    <3>1. RunnerOK' /\ WorkerOK' /\ StageInHand'
      BY <1>1, <2>3 DEF Look, IInv, TypeOK, RunnerOK, WorkerOK, StageInHand, Phase
    <3>2. CleanupTracksProcess'
      BY <1>1, <2>3 DEF Look, IInv, TypeOK, CleanupTracksProcess, Alive
    <3> QED
      BY <2>1, <3>1, <3>2, Whole
  <2> QED
    BY <2>2, <2>3
<1>2. CASE ExitIntercepted(r)
  <2>1. (phase[r] = "completed") \in BOOLEAN
    OBVIOUS
  <2>2. TableOK' /\ VictimBelowLimit' /\ RestOK'
    BY <1>2, <2>1, SettleStep DEF ExitIntercepted, IInv, TypeOK, RestOK
  <2> QED
    BY <1>2, <2>2, ThreadLetsGo, Whole DEF ExitIntercepted, worker, Alive, IInv, TypeOK
<1>3. CASE ExitReported(r)
  <2>1. ChargedTo(r) \in SUBSET Stage
    BY DEF ChargedTo
  <2>2. TableOK' /\ VictimBelowLimit'
    BY <1>3, <2>1, FailOrRetryStep, TableUntouched DEF ExitReported
  <2>3. RestOK'
    BY <1>3 DEF ExitReported, IInv, TypeOK, RestOK
  <2> QED
    BY <1>3, <2>2, <2>3, ThreadLetsGo, Whole DEF ExitReported, worker, Alive, IInv, TypeOK
<1>4. CASE ExitRefused(r) \/ ExitLost(r)
  <2>1. GivesUp(r) /\ faults' \in 0..MaxFaults
    BY <1>4, FaultBounded DEF ExitRefused, ExitLost, IInv, TypeOK
  <2>2. TableOK' /\ VictimBelowLimit' /\ RestOK'
    BY <2>1, TableUntouched DEF GivesUp, IInv, TypeOK, RestOK
  <2>3. CASE phase[r] = "failed"
    BY <2>1, <2>2, <2>3, ThreadLetsGo, Whole DEF GivesUp, worker, Alive, IInv, TypeOK
  <2>4. CASE phase[r] = "completed"
    <3>1. RunnerOK' /\ WorkerOK' /\ StageInHand'
      BY <2>1, <2>4 DEF GivesUp, worker, IInv, TypeOK, RunnerOK, WorkerOK, StageInHand, Phase
    <3>2. CleanupTracksProcess'
      BY <2>1, <2>4 DEF GivesUp, worker, IInv, TypeOK, CleanupTracksProcess, Alive
    <3> QED
      BY <2>2, <3>1, <3>2, Whole
  <2> QED
    BY <2>1, <2>3, <2>4 DEF GivesUp
<1> QED
  BY <1>1, <1>2, <1>3, <1>4 DEF ThreadStep

LEMMA NextSound ==
  ASSUME IInv, [Next]_vars PROVE IInv'
<1>1. CASE UNCHANGED vars
  BY <1>1 DEF vars, table, runner, worker, IInv, TypeOK, StageInHand, CleanupTracksProcess,
              VictimBelowLimit
<1> QED
  BY <1>1, ProcessSteps, HeadnodeSteps, CleanupSteps, ThreadSteps DEF Next, FaultStep

LEMMA Invariance == Spec => []IInv
<1>1. Init => IInv
  BY InitSound
<1>2. IInv /\ [Next]_vars => IInv'
  BY NextSound
<1> QED
  BY <1>1, <1>2, PTL DEF Spec

-----------------------------------------------------------------------------
(* Leaving "preempting".                                                   *)

\* A preempting stage is given up only by an acknowledgement of its own runner,
\* or by the exit report of its own runner.
LEMMA SettledByItsRunner ==
  ASSUME IInv, Next, NEW n \in Stage, st[n] = "preempting", st'[n] # st[n]
  PROVE  \E r \in Runner : /\ own[n] = r
                           /\ \/ stop[r] = "ack"
                              \/ phase[r] \in {"completed", "failed"}
<1> DEFINE Given(r) == /\ own[n] = r
                       /\ \/ stop[r] = "ack"
                          \/ phase[r] \in {"completed", "failed"}
<1>1. ASSUME NEW r \in Runner, ProcessStep(r) \/ RunnerCrash(r) PROVE FALSE
  BY <1>1 DEF ProcessStep, Start, Claim, Claimable, Leave, StageEnds, ReportPreempting,
              ReportEcho, ReportDone, ReportFailed, FailOrRetry, Retried, RunnerCrash, table,
              IInv, TypeOK
<1>2. ~ \/ \E j \in Job : Submit(j)
        \/ \E m \in Stage : Timeout(m)
        \/ EngineStep \/ PreemptWrite
  BY DEF Submit, Timeout, EngineStep, Preempt, PreemptRead, PreemptWrite, Mark, table,
         IInv, TypeOK
<1>3. ASSUME NEW r \in Runner,
             PreemptPost(r) \/ PreemptPostLate(r) \/ StopRunner(r) \/ StopUnconfirmed(r)
      PROVE  FALSE
  BY <1>3 DEF PreemptPost, PreemptPostLate, Asked, StopRunner, StopUnconfirmed, table
<1>4. ASSUME NEW r \in Runner, NEW success \in BOOLEAN, Settle(r, success)
      PROVE  own[n] = r
  BY <1>4 DEF Settle, Matched, IInv, TypeOK
<1>5. ASSUME NEW r \in Runner, Ack(r) \/ AckAnswerLost(r) PROVE Given(r)
  BY <1>4, <1>5 DEF Ack, AckAnswerLost
<1>6. ASSUME NEW r \in Runner PROVE ~ExitRefused(r) /\ ~ExitLost(r)
  BY DEF ExitRefused, ExitLost, GivesUp, table
<1>7. ASSUME NEW r \in Runner, ThreadStep(r) PROVE Given(r)
  <2>1. CASE Look(r)
    BY <2>1 DEF Look, table
  <2>2. CASE ExitIntercepted(r)
    BY <2>2, <1>4 DEF ExitIntercepted
  <2>3. CASE ExitReported(r)
    BY <2>3 DEF ExitReported, FailOrRetry, Retried, ChargedTo, table, IInv, TypeOK
  <2> QED
    BY <1>7, <1>6, <2>1, <2>2, <2>3 DEF ThreadStep
<1> QED
  BY <1>1, <1>2, <1>3, <1>5, <1>6, <1>7 DEF Next, CleanupStep, FaultStep

-----------------------------------------------------------------------------
\* Every variable keeps its type: in particular no stage is preempted more than
\* MaxPreempt times, although a victim may be marked long after it was chosen.
THEOREM PreemptionTypeOK == Spec => []TypeOK
<1>1. IInv => TypeOK
  BY DEF IInv
<1> QED
  BY <1>1, Invariance, PTL

\* The slot of a preempting stage is given up only when the process of its own
\* runner is over, under every fault and every order of acknowledgements, exit
\* reports, results, timeouts and repeated requests.
THEOREM PreemptionHeldUntilStopped == Spec => HeldUntilStopped
<1> DEFINE Held == \A n \in Stage : st[n] = "preempting" /\ st'[n] # "preempting"
                     => own[n] # None /\ phase[own[n]] \notin Alive
<1>1. ASSUME IInv, [Next]_vars PROVE [Held]_vars
  <2> SUFFICES ASSUME Next, NEW n \in Stage, st[n] = "preempting", st'[n] # "preempting"
               PROVE  own[n] # None /\ phase[own[n]] \notin Alive
    BY <1>1
  <2>1. PICK r \in Runner : /\ own[n] = r
                            /\ \/ stop[r] = "ack"
                               \/ phase[r] \in {"completed", "failed"}
    BY <1>1, SettledByItsRunner
  <2> QED
    BY <1>1, <2>1, PreemptionAssumption DEF IInv, CleanupTracksProcess, Alive
<1> QED
  BY <1>1, Invariance, PTL DEF Spec, HeldUntilStopped

\* A preemption is counted exactly when it is settled without a result, once,
\* and it never costs the stage a retry in the same step.
THEOREM PreemptionCountedOnce == Spec => CountedOnce
<1> DEFINE Once == \A n \in Stage : pc'[n] # pc[n] =>
                     /\ pc'[n] = pc[n] + 1 /\ rc'[n] = rc[n]
                     /\ st[n] = "preempting" /\ st'[n] = "ready"
<1>1. ASSUME NEW r \in Runner, NEW success \in BOOLEAN, IInv, Settle(r, success) PROVE Once
  BY <1>1 DEF Settle, Matched, Preempting, IInv, TypeOK
<1>2. ASSUME IInv, [Next]_vars PROVE [Once]_vars
  <2> SUFFICES ASSUME Next, pc' # pc PROVE Once
    BY <1>2
  <2>1. ~ \E r \in Runner : ProcessStep(r) \/ RunnerCrash(r)
    BY DEF ProcessStep, Start, Claim, Leave, StageEnds, ReportPreempting, ReportEcho,
           ReportDone, ReportFailed, FailOrRetry, Retried, RunnerCrash, table
  <2>2. ~ \/ \E j \in Job : Submit(j)
          \/ \E n \in Stage : Timeout(n)
          \/ EngineStep \/ PreemptWrite
    BY DEF Submit, Timeout, EngineStep, Preempt, PreemptRead, PreemptWrite, Mark, table
  <2>3. ASSUME NEW r \in Runner
        PROVE  ~ \/ PreemptPost(r) \/ PreemptPostLate(r) \/ StopRunner(r)
                 \/ StopUnconfirmed(r) \/ Look(r) \/ ExitReported(r)
                 \/ ExitRefused(r) \/ ExitLost(r)
    BY DEF PreemptPost, PreemptPostLate, Asked, StopRunner, StopUnconfirmed, Look,
           ExitReported, FailOrRetry, ExitRefused, ExitLost, GivesUp, table
  <2>4. PICK r \in Runner : Ack(r) \/ AckAnswerLost(r) \/ ExitIntercepted(r)
    BY <2>1, <2>2, <2>3 DEF Next, CleanupStep, ThreadStep, FaultStep
  <2>5. PICK success \in BOOLEAN : Settle(r, success)
    BY <2>4 DEF Ack, AckAnswerLost, ExitIntercepted
  <2> QED
    BY <1>1, <1>2, <2>5
<1> QED
  BY <1>2, Invariance, PTL DEF Spec, CountedOnce

-----------------------------------------------------------------------------
(* One executor of a job on a machine.                                     *)

\* Hypothesis: of one job a machine runs one executor at a time, as an agent with
\* one GPU does.  With two, the exit report of the one is charged to the stages of
\* the other, whose processes then go on without a reservation.
OneRunnerPerMachine ==
  \A r, q \in Runner : RunnerJob[r] = RunnerJob[q] /\ WorkerOf[r] = WorkerOf[q] => r = q

\* A runner owns stages of its job only.
OwnsItsJob == \A n \in Stage : own[n] # None => RunnerJob[own[n]] = JobOf[n]

\* A runner at work, or about to report, holds the reservation of its stage.
HoldsItsStage ==
  \A r \in Runner : phase[r] \in {"stage", "out"} =>
    st[cur[r]] \in Reserving /\ own[cur[r]] = r

HInv == IInv /\ OwnsItsJob /\ HoldsItsStage /\ NoOverload

AtWork(w) == {r \in Runner : WorkerOf[r] = w /\ phase[r] = "stage"}

\* As many runners work on a machine at most as stages reserve a slot of it.
LEMMA AtWorkReserve ==
  ASSUME HInv, NEW w \in Worker
  PROVE  /\ IsFiniteSet(AtWork(w)) /\ IsFiniteSet(Used(w))
         /\ Cardinality(AtWork(w)) \in Nat /\ Cardinality(Used(w)) \in Nat
         /\ Cardinality(AtWork(w)) <= Cardinality(Used(w))
<1> DEFINE f == [r \in AtWork(w) |-> cur[r]]
<1>1. IsFiniteSet(Used(w))
  BY PreemptionAssumption, FS_Subset, Used(w) \in SUBSET Stage DEF Used
<1>2. f \in Injection(AtWork(w), Used(w))
  <2>1. \A r \in AtWork(w) : cur[r] \in Used(w) /\ own[cur[r]] = r
    BY PreemptionAssumption DEF AtWork, Used, HInv, HoldsItsStage, IInv, StageInHand
  <2>2. f \in [AtWork(w) -> Used(w)]
    BY <2>1
  <2>3. \A a, b \in AtWork(w) : f[a] = f[b] => a = b
    BY <2>1
  <2> HIDE DEF f
  <2> QED
    BY <2>2, <2>3 DEF Injection, IsInjective
<1>3. IsFiniteSet(AtWork(w)) /\ Cardinality(AtWork(w)) <= Cardinality(Used(w))
  <2> HIDE DEF f
  <2> QED
    BY <1>1, <1>2, FS_Injection
<1> QED
  BY <1>1, <1>3, FS_CardinalityType

\* A machine is not overloaded by a step after which no runner works there
\* that did not before.
LEMMA NoNewWork ==
  ASSUME HInv, \A r \in Runner : phase'[r] = "stage" => phase[r] = "stage"
  PROVE  NoOverload'
<1> SUFFICES ASSUME NEW w \in Worker PROVE Cardinality(AtWork(w)') <= Capacity[w]
  BY DEF NoOverload, AtWork
<1>1. AtWork(w)' \in SUBSET AtWork(w)
  BY DEF AtWork
<1>2. IsFiniteSet(AtWork(w)) /\ Cardinality(AtWork(w)) \in Nat
  BY AtWorkReserve
<1>3. Cardinality(AtWork(w)) <= Capacity[w]
  BY DEF HInv, NoOverload, AtWork
<1>4. IsFiniteSet(AtWork(w)') /\ Cardinality(AtWork(w)') <= Cardinality(AtWork(w))
  BY <1>1, <1>2, FS_Subset
<1>5. Cardinality(AtWork(w)') \in Nat
  BY <1>4, FS_CardinalityType
<1> QED
  BY <1>2, <1>3, <1>4, <1>5, PreemptionAssumption

\* A claim finds a slot free, so that one more runner may work.
LEMMA ClaimFits ==
  ASSUME HInv, NEW r \in Runner, NEW n \in Stage, Claim(r, n)
  PROVE  NoOverload'
<1> SUFFICES ASSUME NEW w \in Worker PROVE Cardinality(AtWork(w)') <= Capacity[w]
  BY DEF NoOverload, AtWork
<1>1. /\ IsFiniteSet(AtWork(w)) /\ Cardinality(AtWork(w)) \in Nat
      /\ Cardinality(Used(w)) \in Nat /\ Cardinality(AtWork(w)) <= Cardinality(Used(w))
  BY AtWorkReserve
<1>2. Cardinality(AtWork(w)) <= Capacity[w] /\ Capacity[w] \in Nat
  BY PreemptionAssumption DEF HInv, NoOverload, AtWork
<1>3. CASE WorkerOf[r] # w
  <2>1. AtWork(w)' = AtWork(w)
    BY <1>3 DEF AtWork, Claim, Moves, HInv, IInv, TypeOK
  <2> QED
    BY <2>1, <1>2
<1>4. CASE WorkerOf[r] = w
  <2>1. AtWork(w)' = AtWork(w) \cup {r} /\ r \notin AtWork(w)
    BY <1>4 DEF AtWork, Claim, Moves, HInv, IInv, TypeOK
  <2>2. Cardinality(Used(w)) < Capacity[w]
    BY <1>4 DEF Claim, Claimable, Admits
  <2>3. Cardinality(AtWork(w)') = Cardinality(AtWork(w)) + 1
    BY <2>1, <1>1, FS_AddElement
  <2> QED
    BY <2>2, <2>3, <1>1, <1>2
<1> QED
  BY <1>3, <1>4

\* What the headnode does to a stage whose runner is past it takes nothing from
\* the runners at work.
LEMMA OthersHold ==
  ASSUME HInv,
         \A q \in Runner : phase'[q] \in {"stage", "out"} =>
           phase[q] \in {"stage", "out"} /\ cur'[q] = cur[q],
         \A n \in Stage : \/ own'[n] = own[n] /\ (st[n] \in Reserving => st'[n] \in Reserving)
                          \/ /\ own'[n] \in {None, own[n]}
                             /\ own[n] # None => phase'[own[n]] \notin {"stage", "out"}
  PROVE  OwnsItsJob' /\ HoldsItsStage'
<1>1. OwnsItsJob'
  BY DEF HInv, OwnsItsJob, IInv, TypeOK
<1>2. HoldsItsStage'
  <2> SUFFICES ASSUME NEW q \in Runner, phase'[q] \in {"stage", "out"}
               PROVE  st'[cur'[q]] \in Reserving /\ own'[cur'[q]] = q
    BY DEF HoldsItsStage, Reserving
  <2>1. cur'[q] = cur[q] /\ cur[q] \in Stage /\ st[cur[q]] \in Reserving /\ own[cur[q]] = q
    BY DEF HInv, HoldsItsStage, IInv, StageInHand
  <2> QED
    BY <2>1, PreemptionAssumption
<1> QED
  BY <1>1, <1>2

\* The stages a failed exit is charged with belong to the runner that exits.
LEMMA ChargedItsOwn ==
  ASSUME HInv, OneRunnerPerMachine, NEW r \in Runner, NEW n \in ChargedTo(r)
  PROVE  n \in Stage /\ own[n] = r
<1>1. n \in Stage /\ own[n] \in Runner /\ JobOf[n] = RunnerJob[r] /\ WorkerOf[own[n]] = WorkerOf[r]
  BY DEF ChargedTo, HInv, IInv, TypeOK
<1>2. RunnerJob[own[n]] = RunnerJob[r]
  BY <1>1, PreemptionAssumption DEF HInv, OwnsItsJob
<1> QED
  BY <1>1, <1>2 DEF OneRunnerPerMachine

\* Steps of the runner process.
LEMMA ProcessHolds ==
  ASSUME HInv, NEW r \in Runner, ProcessStep(r) \/ RunnerCrash(r)
  PROVE  OwnsItsJob' /\ HoldsItsStage' /\ NoOverload'
<1>0. TypeOK /\ StageInHand
  BY DEF HInv, IInv
<1>1. ASSUME NEW n \in Stage, Claim(r, n)
      PROVE  OwnsItsJob' /\ HoldsItsStage' /\ NoOverload'
  <2>1. OwnsItsJob'
    BY <1>0, <1>1 DEF HInv, OwnsItsJob, Claim, Claimable, TypeOK
  <2>2. HoldsItsStage'
    BY <1>0, <1>1 DEF HInv, HoldsItsStage, Claim, Claimable, Moves, TypeOK, StageInHand, Reserving
  <2> QED
    BY <1>1, <2>1, <2>2, ClaimFits
<1>2. CASE Start(r) \/ Leave(r) \/ StageEnds(r) \/ ReportEcho(r) \/ RunnerCrash(r)
  <2>1. UNCHANGED table
    BY <1>2 DEF Start, Leave, StageEnds, ReportEcho, RunnerCrash
  <2>2. \A q \in Runner : phase'[q] \in {"stage", "out"} =>
          phase[q] \in {"stage", "out"} /\ cur'[q] = cur[q]
    BY <1>0, <1>2 DEF Start, Leave, StageEnds, ReportEcho, RunnerCrash, Yields, Moves, TypeOK
  <2>3. \A q \in Runner : phase'[q] = "stage" => phase[q] = "stage"
    BY <1>0, <1>2 DEF Start, Leave, StageEnds, ReportEcho, RunnerCrash, Yields, Moves, TypeOK
  <2> QED
    BY <2>1, <2>2, <2>3, OthersHold, NoNewWork DEF table
<1>3. ASSUME NEW p \in {"ask", "quit"}, phase[r] = "out", Moves(r, p, None, None),
             \A n \in Stage \ {cur[r]} : st'[n] = st[n] /\ own'[n] = own[n],
             own'[cur[r]] \in {None, r}
      PROVE  OwnsItsJob' /\ HoldsItsStage' /\ NoOverload'
  <2>1. cur[r] \in Stage /\ own[cur[r]] = r
    BY <1>0, <1>3 DEF HInv, HoldsItsStage, StageInHand
  <2>2. phase'[r] = p /\ \A q \in Runner \ {r} : phase'[q] = phase[q] /\ cur'[q] = cur[q]
    BY <1>0, <1>3 DEF Moves, TypeOK
  <2>3. NoOverload'
    BY <1>3, <2>2, NoNewWork
  <2> QED
    BY <1>3, <2>1, <2>2, <2>3, OthersHold
<1>4. CASE ReportPreempting(r)
  BY <1>3, <1>4, <1>0 DEF ReportPreempting, Yields, HInv, HoldsItsStage
<1>5. CASE ReportDone(r)
  BY <1>3, <1>5, <1>0 DEF ReportDone, TypeOK, StageInHand
<1>6. CASE ReportFailed(r)
  BY <1>3, <1>6, <1>0 DEF ReportFailed, FailOrRetry, Retried, TypeOK, StageInHand
<1> QED
  BY <1>1, <1>2, <1>4, <1>5, <1>6 DEF ProcessStep

\* Submission, timeouts and the preemption engine.
LEMMA HeadnodeHolds ==
  ASSUME HInv,
         \/ \E j \in Job : Submit(j)
         \/ \E n \in Stage : Timeout(n)
         \/ EngineStep \/ PreemptWrite
  PROVE  OwnsItsJob' /\ HoldsItsStage' /\ NoOverload'
<1>0. TypeOK
  BY DEF HInv, IInv
<1>1. UNCHANGED <<runner, worker>>
  BY DEF Submit, Timeout, EngineStep, Preempt, PreemptRead, PreemptWrite, Mark
<1>2. NoOverload'
  BY <1>1, NoNewWork DEF runner
<1>3. \A n \in Stage : \/ own'[n] = own[n] /\ (st[n] \in Reserving => st'[n] \in Reserving)
                       \/ /\ own'[n] \in {None, own[n]}
                          /\ own[n] # None => phase'[own[n]] \notin {"stage", "out"}
  <2>1. ASSUME NEW j \in Job, Submit(j)
        PROVE  \A n \in Stage : own'[n] = own[n] /\ (st[n] \in Reserving => st'[n] \in Reserving)
    BY <1>0, <2>1 DEF Submit, TypeOK, Reserving
  <2>2. ASSUME NEW m \in Stage, Timeout(m), NEW n \in Stage
        PROVE  \/ own'[n] = own[n] /\ st'[n] = st[n]
               \/ /\ own'[n] \in {None, own[n]}
                  /\ own[n] # None => phase'[own[n]] \notin {"stage", "out"}
    BY <1>0, <2>2 DEF Timeout, TypeOK, Alive, runner
  <2>3. ASSUME NEW q \in Stage, NEW v \in Stage, Preempt(q, v) \/ PreemptRead(q, v)
        PROVE  \A n \in Stage : own'[n] = own[n] /\ (st[n] \in Reserving => st'[n] \in Reserving)
    BY <1>0, <2>3 DEF Preempt, PreemptRead, Mark, table, TypeOK, Reserving
  <2>4. ASSUME PreemptWrite
        PROVE  \A n \in Stage : own'[n] = own[n] /\ (st[n] \in Reserving => st'[n] \in Reserving)
    BY <1>0, <2>4 DEF PreemptWrite, Mark, TypeOK, Reserving
  <2> QED
    BY <2>1, <2>2, <2>3, <2>4 DEF EngineStep
<1> QED
  BY <1>1, <1>2, <1>3, OthersHold DEF runner

\* Cleanup and execute_job threads: what they settle is over.
LEMMA WorkerHolds ==
  ASSUME HInv, OneRunnerPerMachine, NEW r \in Runner,
         \/ PreemptPost(r) \/ PreemptPostLate(r) \/ CleanupStep(r) \/ ThreadStep(r)
         \/ StopUnconfirmed(r) \/ AckAnswerLost(r) \/ ExitLost(r)
  PROVE  OwnsItsJob' /\ HoldsItsStage' /\ NoOverload'
<1>0. TypeOK /\ CleanupTracksProcess
  BY DEF HInv, IInv
<1> DEFINE Kept == \A n \in Stage :
                     \/ own'[n] = own[n] /\ (st[n] \in Reserving => st'[n] \in Reserving)
                     \/ own[n] = r /\ own'[n] \in {None, r}
           Moved == \A q \in Runner : phase'[q] # phase[q] =>
                      q = r /\ phase'[q] \notin {"stage", "out"}
           Same  == \A q \in Runner : phase'[q] \in {"stage", "out"} => cur'[q] = cur[q]
<1>1. SUFFICES /\ Kept /\ Moved /\ Same
               /\ UNCHANGED <<st, own>> \/ phase'[r] \notin {"stage", "out"}
  <2>1. \A q \in Runner : phase'[q] \in {"stage", "out"} =>
          phase[q] = phase'[q] /\ cur'[q] = cur[q]
    BY <1>1
  <2>2. \A n \in Stage : \/ own'[n] = own[n] /\ (st[n] \in Reserving => st'[n] \in Reserving)
                         \/ /\ own'[n] \in {None, own[n]}
                            /\ own[n] # None => phase'[own[n]] \notin {"stage", "out"}
    BY <1>1
  <2> QED
    BY <2>1, <2>2, OthersHold, NoNewWork
<1>2. ASSUME NEW success \in BOOLEAN, Settle(r, success) PROVE Kept
  BY <1>0, <1>2 DEF Settle, Matched, TypeOK
<1>3. CASE PreemptPost(r) \/ PreemptPostLate(r) \/ StopUnconfirmed(r)
  BY <1>3 DEF PreemptPost, PreemptPostLate, Asked, StopUnconfirmed, table, runner
<1>4. CASE StopRunner(r)
  BY <1>0, <1>4 DEF StopRunner, Terminates, Moves, table, runner, TypeOK
<1>5. CASE Ack(r) \/ AckAnswerLost(r)
  <2>1. phase[r] \notin Alive /\ Kept
    BY <1>0, <1>2, <1>5 DEF Ack, AckAnswerLost, CleanupTracksProcess
  <2>2. Moved /\ Same /\ phase'[r] \notin {"stage", "out"}
    BY <1>0, <1>5, <2>1 DEF Ack, AckAnswerLost, runner, TypeOK, Alive
  <2> QED
    BY <2>1, <2>2
<1>6. CASE ThreadStep(r) \/ ExitLost(r)
  <2>1. /\ UNCHANGED cur /\ Moved
        /\ phase'[r] \notin {"stage", "out"}
    BY <1>0, <1>6 DEF ThreadStep, Look, ExitIntercepted, ExitReported, ExitRefused, ExitLost,
                      GivesUp, ThreadEnds, TypeOK
  <2>2. Kept
    <3>1. CASE ExitIntercepted(r)
      BY <1>2, <3>1 DEF ExitIntercepted
    <3>2. CASE ExitReported(r)
      BY <1>0, <3>2, ChargedItsOwn DEF ExitReported, FailOrRetry, Retried, table, TypeOK
    <3>3. CASE Look(r) \/ ExitRefused(r) \/ ExitLost(r)
      BY <3>3 DEF Look, ExitRefused, ExitLost, GivesUp, table
    <3> QED
      BY <1>6, <3>1, <3>2, <3>3 DEF ThreadStep
  <2> QED
    BY <2>1, <2>2
<1> QED
  BY <1>3, <1>4, <1>5, <1>6 DEF CleanupStep

LEMMA HoldInvariance ==
  ASSUME OneRunnerPerMachine PROVE Spec => []HInv
<1>1. Init => HInv
  <2> SUFFICES ASSUME Init PROVE HInv
    OBVIOUS
  <2>1. IInv
    BY InitSound
  <2>2. OwnsItsJob /\ HoldsItsStage
    BY DEF Init, OwnsItsJob, HoldsItsStage
  <2>3. \A w \in Worker : {r \in Runner : WorkerOf[r] = w /\ phase[r] = "stage"} = {}
    BY DEF Init
  <2>4. NoOverload
    <3> SUFFICES ASSUME NEW w \in Worker
                 PROVE  Cardinality({r \in Runner : WorkerOf[r] = w /\ phase[r] = "stage"}) <= Capacity[w]
      BY DEF NoOverload
    <3>1. Cardinality({}) = 0 /\ Capacity[w] \in Nat
      BY FS_EmptySet, PreemptionAssumption
    <3> QED
      BY <2>3, <3>1
  <2> QED
    BY <2>1, <2>2, <2>4 DEF HInv
<1>2. HInv /\ [Next]_vars => HInv'
  <2> SUFFICES ASSUME HInv, [Next]_vars PROVE HInv'
    OBVIOUS
  <2>1. IInv'
    BY NextSound DEF HInv
  <2>2. CASE UNCHANGED vars
    <3>1. UNCHANGED <<st, own, phase, cur>>
      BY <2>2 DEF vars, table, runner
    <3>2. OwnsItsJob' /\ HoldsItsStage' /\ NoOverload'
      BY <3>1 DEF HInv, OwnsItsJob, HoldsItsStage, NoOverload
    <3> QED
      BY <2>1, <3>2 DEF HInv
  <2> QED
    BY <2>1, <2>2, ProcessHolds, HeadnodeHolds, WorkerHolds DEF HInv, Next, FaultStep, CleanupStep,
       ThreadStep
<1> QED
  BY <1>1, <1>2, PTL DEF Spec

\* A machine never runs more stages than it has slots, whatever fails and
\* however long the runner of a preempted stage goes on, with one executor of a
\* job on a machine.
THEOREM PreemptionNoOverload ==
  ASSUME OneRunnerPerMachine PROVE Spec => []NoOverload
<1>1. HInv => NoOverload
  BY DEF HInv
<1> QED
  BY <1>1, HoldInvariance, PTL

\* A retry is only spent on a stage whose own runner has ended it or is over:
\* no preemption, and no report of another runner, costs one.
THEOREM PreemptionSparesRetries ==
  ASSUME OneRunnerPerMachine PROVE Spec => PreemptionCostsNoRetry
<1> DEFINE Spared == \A n \in Stage : rc'[n] > rc[n] =>
                       \E r \in Runner : own[n] = r /\ phase[r] \notin {"stage", "ask"}
<1>1. ASSUME HInv, [Next]_vars PROVE [Spared]_vars
  <2>0. TypeOK
    BY <1>1 DEF HInv, IInv
  <2> SUFFICES ASSUME Next, NEW n \in Stage, rc'[n] > rc[n]
               PROVE  \E r \in Runner : own[n] = r /\ phase[r] \notin {"stage", "ask"}
    BY <1>1
  <2>1. rc' # rc
    BY <2>0 DEF TypeOK
  <2>2. PICK r \in Runner : ReportFailed(r) \/ (ExitReported(r) /\ phase[r] = "failed")
    <3>1. ~ \/ \E j \in Job : Submit(j)
            \/ \E m \in Stage : Timeout(m)
            \/ EngineStep \/ PreemptWrite
      BY <2>1 DEF Submit, Timeout, EngineStep, Preempt, PreemptRead, PreemptWrite, Mark, table
    <3>2. ASSUME NEW r \in Runner
          PROVE  ~ \/ PreemptPost(r) \/ PreemptPostLate(r) \/ CleanupStep(r) \/ FaultStep(r)
                   \/ Look(r) \/ ExitIntercepted(r) \/ ExitRefused(r)
      BY <2>1 DEF PreemptPost, PreemptPostLate, Asked, CleanupStep, StopRunner, Ack, FaultStep,
                  RunnerCrash, StopUnconfirmed, AckAnswerLost, ExitLost, Settle, Look,
                  ExitIntercepted, ExitRefused, GivesUp, table
    <3>3. ASSUME NEW r \in Runner, ProcessStep(r) PROVE ReportFailed(r)
      BY <2>1, <3>3 DEF ProcessStep, Start, Claim, Leave, StageEnds, ReportPreempting, ReportEcho,
                        ReportDone, table
    <3>4. ASSUME NEW r \in Runner, ThreadStep(r) PROVE ExitReported(r) /\ phase[r] = "failed"
      BY <2>1, <3>2, <3>4 DEF ThreadStep, ExitReported, table
    <3> QED
      BY <3>1, <3>2, <3>3, <3>4 DEF Next
  <2>3. CASE ReportFailed(r)
    <3>1. n = cur[r]
      BY <2>0, <2>3, <2>1 DEF ReportFailed, FailOrRetry, Retried, TypeOK
    <3> QED
      BY <1>1, <2>3, <3>1 DEF ReportFailed, HInv, HoldsItsStage
  <2>4. CASE ExitReported(r) /\ phase[r] = "failed"
    <3>1. n \in ChargedTo(r)
      BY <2>0, <2>4 DEF ExitReported, FailOrRetry, Retried, TypeOK
    <3> QED
      BY <1>1, <2>4, <3>1, ChargedItsOwn
  <2> QED
    BY <2>2, <2>3, <2>4
<1> QED
  BY <1>1, HoldInvariance, PTL DEF Spec, PreemptionCostsNoRetry
=============================================================================
