------------------------- MODULE NodeDispatchProofs -------------------------
(***************************************************************************)
(* Proofs about NodeDispatch, for every plan, set of machines and runners, *)
(* number of faults and interleaving of transactions.                      *)
(*                                                                         *)
(* InputsProduced is not inductive: a stage can be put back in the queue   *)
(* by a late report, by a sweep that decided long ago, or because a        *)
(* consumer misses its output.  IInv adds what makes each of these sound:  *)
(* the stage a runner holds, the decisions not written yet and every stage *)
(* ever pushed had their inputs, and a success in the table or on its way  *)
(* to it was pushed.                                                       *)
(*                                                                         *)
(* Two more invariants serve the theorems with hypotheses.  FInv: a        *)
(* waiting stage has a parent that did not succeed (FailedIsHopeless).     *)
(* EInv: a runner at work owns its stage, and only a producer that was     *)
(* done is sent back (OneExecutorPerStage, RunnerKeepsItsStage).           *)
(***************************************************************************)
EXTENDS NodeDispatch, TLAPS

\* Every input of n was produced at least once.
Fed(n) == Deps[n] \subseteq pushed \cup UpToDate

SoundTable(tab) ==
  \A n \in Node :
    /\ tab[n] \in {"ready", "running", "done"} => Fed(n)
    /\ tab[n] = "done" => n \in pushed
    /\ tab[n] = "skipped" => n \in UpToDate

StageInHand ==
  \A r \in Runner : phase[r] \in {"stage", "out"} => cur[r] \in Node /\ Fed(cur[r])

SuccessWasPushed ==
  \A r \in Runner : phase[r] = "out" /\ res[r] = "done" => cur[r] \in pushed

PushedWasFed == \A n \in pushed : Fed(n)

DecisionsAreFed ==
  /\ snapT # None => Fed(snapT)
  /\ \A n \in Node : snapR[n] = "ready" => Fed(n)

IInv ==
  /\ TypeOK /\ SoundTable(st) /\ StageInHand
  /\ SuccessWasPushed /\ PushedWasFed /\ DecisionsAreFed

-----------------------------------------------------------------------------
(* The walk over the node table.                                           *)

\* What one walk may do to a row: nothing, or move a waiting node; and it calls
\* a node ready only when the parents had all succeeded before the walk.
LEMMA WalkMoves ==
  ASSUME NEW old \in [Node -> Status], NEW new \in RefreshResults(old),
         NEW n \in Node, new[n] # old[n]
  PROVE  /\ old[n] \in Waiting /\ new[n] \in Waiting
         /\ new[n] = "ready" => \A d \in Deps[n] : old[d] \in Succeeded
<1>1. PICK part \in [{m \in Node : old[m] \in Waiting} -> Waiting] :
         new = Overlay(old, part)
  BY DEF RefreshResults
<1>2. IsPass(old, new)
  BY DEF RefreshResults
<1>3. ASSUME NEW m \in Node
      PROVE  IF old[m] \in Waiting THEN new[m] \in Waiting ELSE new[m] = old[m]
  BY <1>1, <1>3 DEF Overlay
<1>4. old[n] \in Waiting /\ new[n] \in Waiting
  BY <1>3
<1>5. ASSUME new[n] = "ready"
      PROVE  \A d \in Deps[n] : old[d] \in Succeeded
  <2> DEFINE seen == [d \in Node |-> IF RowPos[d] < RowPos[n] THEN new[d] ELSE old[d]]
  <2>1. new[n] = RefreshRow(n, old[n], seen)
    BY <1>2, <1>4 DEF IsPass
  <2>2. \A d \in Deps[n] : seen[d] \in Succeeded
    BY <2>1, <1>5 DEF RefreshRow
  <2>3. ASSUME NEW d \in Deps[n]
        PROVE  old[d] \in Succeeded
    <3>1. d \in Node
      BY DagAssumption
    <3>2. seen[d] = new[d] \/ seen[d] = old[d]
      BY <3>1
    <3>3. new[d] \in Succeeded => old[d] \in Succeeded
      BY <1>3, <3>1 DEF Waiting, Succeeded
    <3> HIDE DEF seen
    <3> QED
      BY <2>2, <3>2, <3>3
  <2> QED
    BY <2>3
<1> QED
  BY <1>4, <1>5

\* A walk over a table gives a table.
LEMMA WalkType ==
  ASSUME NEW old \in [Node -> Status], NEW new \in RefreshResults(old)
  PROVE  new \in [Node -> Status]
<1>1. PICK part \in [{m \in Node : old[m] \in Waiting} -> Waiting] :
         new = Overlay(old, part)
  BY DEF RefreshResults
<1>2. ASSUME NEW m \in Node
      PROVE  (IF m \in DOMAIN part THEN part[m] ELSE old[m]) \in Status
  BY <1>1 DEF Waiting, Status
<1> QED
  BY <1>1, <1>2 DEF Overlay

\* A walk over a sound table gives a sound table.
LEMMA WalkSound ==
  ASSUME NEW old \in [Node -> Status], NEW new \in RefreshResults(old),
         SoundTable(old)
  PROVE  SoundTable(new)
<1> SUFFICES ASSUME NEW n \in Node
             PROVE  /\ new[n] \in {"ready", "running", "done"} => Fed(n)
                    /\ new[n] = "done" => n \in pushed
                    /\ new[n] = "skipped" => n \in UpToDate
  BY DEF SoundTable
<1>1. CASE new[n] = old[n]
  BY <1>1 DEF SoundTable
<1>2. CASE new[n] # old[n]
  <2>1. /\ new[n] \in Waiting
        /\ new[n] = "ready" => \A d \in Deps[n] : old[d] \in Succeeded
    BY <1>2, WalkMoves
  <2>2. ASSUME new[n] = "ready" PROVE Fed(n)
    <3>1. \A d \in Deps[n] : d \in Node /\ old[d] \in Succeeded
      BY <2>1, <2>2, DagAssumption
    <3> QED
      BY <3>1 DEF Fed, SoundTable, Succeeded
  <2> QED
    BY <2>1, <2>2 DEF Waiting
<1> QED
  BY <1>1, <1>2

\* The same for a report, which leaves the walk to Walk when interleaved.
LEMMA WriteSound ==
  ASSUME NEW tab \in [Node -> Status], SoundTable(tab), WriteAndRefresh(tab)
  PROVE  st' \in [Node -> Status] /\ SoundTable(st')
BY WalkType, WalkSound DEF WriteAndRefresh

-----------------------------------------------------------------------------
(* The tables the headnode writes are sound if the stages they put back in  *)
(* the queue had their inputs.                                             *)

LEMMA RewriteSound ==
  ASSUME IInv, NEW n \in Node, NEW s \in Status,
         s \in {"ready", "running", "done"} => Fed(n),
         s = "done" => n \in pushed, s # "skipped"
  PROVE  /\ [st EXCEPT ![n] = s] \in [Node -> Status]
         /\ SoundTable([st EXCEPT ![n] = s])
BY DEF IInv, TypeOK, SoundTable

LEMMA RerunSound ==
  ASSUME IInv, NEW n \in Node, NEW p \in Node, Fed(p)
  PROVE  /\ [st EXCEPT ![p] = "ready", ![n] = "pending"] \in [Node -> Status]
         /\ SoundTable([st EXCEPT ![p] = "ready", ![n] = "pending"])
BY DEF IInv, TypeOK, SoundTable, Status

LEMMA FailedTableSound ==
  ASSUME IInv, NEW S \in SUBSET Node, \A n \in S : Fed(n), NEW retryable \in BOOLEAN
  PROVE  /\ FailedTable(S, retryable) \in [Node -> Status]
         /\ SoundTable(FailedTable(S, retryable))
BY DEF IInv, TypeOK, SoundTable, FailedTable, Retried, Status

LEMMA FailOrRetryType ==
  ASSUME TypeOK, NEW S \in SUBSET Node, NEW retryable \in BOOLEAN,
         FailOrRetry(S, retryable)
  PROVE  /\ own' \in [Node -> Runner \cup {None}]
         /\ rc' \in [Node -> 0..MaxNodeRetries]
         /\ md' = md
<1>1. \A n \in Retried(S, retryable) : rc[n] < MaxNodeRetries
  BY DEF Retried
<1>2. MaxNodeRetries \in Nat
  BY DispatchAssumption
<1> QED
  BY <1>1, <1>2 DEF TypeOK, FailOrRetry

LEMMA MoreRetries ==
  ASSUME TypeOK, NEW n \in Node, md[n] < MaxFetchRetries
  PROVE  [md EXCEPT ![n] = @ + 1] \in [Node -> 0..MaxFetchRetries]
<1>1. ASSUME NEW k \in 0..2, k < 2 PROVE k + 1 \in 0..2
  BY <1>1
<1>2. md[n] + 1 \in 0..MaxFetchRetries
  BY <1>1 DEF TypeOK, MaxFetchRetries
<1> QED
  BY <1>2 DEF TypeOK

\* A step that pushes nothing, decides nothing, takes no stage in hand and
\* finishes none preserves the invariant if the table stays sound.
LEMMA TableStep ==
  ASSUME IInv, TypeOK', SoundTable(st'), UNCHANGED <<pushed, snapT, snapR>>,
         \A r \in Runner : phase'[r] \in {"stage", "out"} =>
           phase[r] \in {"stage", "out"} /\ cur'[r] = cur[r],
         \A r \in Runner : phase'[r] = "out" /\ res'[r] = "done" =>
           phase[r] = "out" /\ res[r] = "done"
  PROVE  IInv'
BY DEF IInv, SoundTable, StageInHand, SuccessWasPushed, PushedWasFed,
       DecisionsAreFed, Fed

-----------------------------------------------------------------------------
(* One lemma per group of actions.                                         *)

LEMMA MachineSteps ==
  ASSUME IInv, NEW r \in Runner,
         \/ Poll(r) \/ RunnerCrash(r) \/ DispatchJobOver(r) \/ DispatchFinish(r)
         \/ DispatchGiveBack(r) \/ ExitIgnored(r) \/ ExitCompleted(r) \/ ExitLost(r)
  PROVE  IInv'
<1> USE DEF Phase, Alive, Terminal
<1>1. CASE Poll(r)
  <2>1. TypeOK'
    BY <1>1 DEF IInv, TypeOK, Poll, table
  <2> QED
    BY <1>1, <2>1, TableStep DEF Poll, table, IInv, TypeOK
<1>2. CASE RunnerCrash(r)
  <2>1. TypeOK'
    BY <1>2, DispatchAssumption DEF IInv, TypeOK, RunnerCrash, Fault, table
  <2> QED
    BY <1>2, <2>1, TableStep DEF RunnerCrash, table, IInv, TypeOK
<1>3. CASE DispatchJobOver(r) \/ DispatchFinish(r) \/ DispatchGiveBack(r)
  <2>1. TypeOK'
    BY <1>3 DEF IInv, TypeOK, DispatchJobOver, DispatchFinish, DispatchGiveBack, Leaves, table
  <2> QED
    BY <1>3, <2>1, TableStep
    DEF DispatchJobOver, DispatchFinish, DispatchGiveBack, Leaves, table, IInv, TypeOK
<1>4. CASE ExitIgnored(r) \/ ExitLost(r)
  <2>1. TypeOK'
    BY <1>4, DispatchAssumption DEF IInv, TypeOK, ExitIgnored, ExitLost, Forget, Fault, table
  <2> QED
    BY <1>4, <2>1, TableStep DEF ExitIgnored, ExitLost, Forget, table, IInv, TypeOK
<1>5. CASE ExitCompleted(r)
  <2>1. TypeOK'
    BY <1>5, DispatchAssumption
    DEF IInv, TypeOK, ExitCompleted, Consolidate, ReportSent, Forget, Fault, table
  <2> QED
    BY <1>5, <2>1, TableStep DEF ExitCompleted, ReportSent, Forget, table, IInv, TypeOK
<1> QED
  BY <1>1, <1>2, <1>3, <1>4, <1>5

LEMMA StageSteps ==
  ASSUME IInv, NEW r \in Runner, StageSucceeds(r) \/ StageFails(r)
  PROVE  IInv'
<1> USE DEF Phase
<1>1. CASE StageSucceeds(r)
  <2>1. cur[r] \in Node /\ Fed(cur[r])
    BY <1>1 DEF StageSucceeds, IInv, StageInHand
  <2>2. TypeOK'
    BY <1>1, <2>1 DEF StageSucceeds, IInv, TypeOK, Outcome, table
  <2>3. \A n \in Node : Fed(n) => Fed(n)'
    BY <1>1 DEF StageSucceeds, Fed
  <2>4. SoundTable(st)'
    BY <1>1, <2>3 DEF StageSucceeds, IInv, SoundTable, table
  <2>5. StageInHand' /\ SuccessWasPushed'
    BY <1>1, <2>3 DEF StageSucceeds, IInv, TypeOK, StageInHand, SuccessWasPushed
  <2>6. PushedWasFed'
    BY <1>1, <2>1, <2>3 DEF StageSucceeds, IInv, TypeOK, PushedWasFed
  <2>7. DecisionsAreFed'
    BY <1>1, <2>3 DEF StageSucceeds, IInv, TypeOK, DecisionsAreFed
  <2> QED
    BY <2>2, <2>4, <2>5, <2>6, <2>7 DEF IInv
<1>2. CASE StageFails(r)
  <2>1. TypeOK'
    BY <1>2 DEF StageFails, IInv, TypeOK, Outcome, table
  <2> QED
    BY <1>2, <2>1, TableStep DEF StageFails, IInv, TypeOK, table
<1> QED
  BY <1>1, <1>2

LEMMA WorkerCrashStep ==
  ASSUME IInv, NEW w \in Worker, WorkerCrash(w)
  PROVE  IInv'
<1>1. TypeOK'
  BY DispatchAssumption DEF WorkerCrash, IInv, TypeOK, Fault, Phase, Terminal, table
<1> QED
  BY <1>1, TableStep DEF WorkerCrash, IInv, TypeOK, table

LEMMA ReportSteps ==
  ASSUME IInv, NEW r \in Runner, ReportDone(r) \/ ReportFailed(r) \/ ReportMissing(r)
  PROVE  IInv'
<1> DEFINE n == cur[r]
<1>1. n \in Node /\ Fed(n) /\ (res[r] = "done" => n \in pushed)
  BY DEF ReportDone, ReportFailed, ReportMissing, Reporting, IInv, StageInHand, SuccessWasPushed
<1>2. Reported(r)
  BY DEF ReportDone, ReportFailed, ReportMissing
<1>3. /\ st' \in [Node -> Status] /\ SoundTable(st')
      /\ own' \in [Node -> Runner \cup {None}]
      /\ rc' \in [Node -> 0..MaxNodeRetries]
      /\ md' \in [Node -> 0..MaxFetchRetries]
  <2>1. CASE ReportDone(r)
    <3>1. /\ [st EXCEPT ![n] = "done"] \in [Node -> Status]
          /\ SoundTable([st EXCEPT ![n] = "done"])
      BY <2>1, <1>1, RewriteSound DEF ReportDone, Reporting, Status
    <3> QED
      BY <2>1, <3>1, WriteSound DEF ReportDone, IInv, TypeOK
  <2>2. CASE ReportFailed(r)
    <3> DEFINE retryable == res[r] = "failed"
    <3>1. /\ FailedTable({n}, retryable) \in [Node -> Status]
          /\ SoundTable(FailedTable({n}, retryable))
      BY <1>1, FailedTableSound
    <3>2. WriteAndRefresh(FailedTable({n}, retryable)) /\ FailOrRetry({n}, retryable)
      BY <2>2 DEF ReportFailed
    <3>3. st' \in [Node -> Status] /\ SoundTable(st')
      BY <3>1, <3>2, WriteSound
    <3> QED
      BY <1>1, <3>2, <3>3, FailOrRetryType DEF IInv, TypeOK
  <2>3. CASE ReportMissing(r)
    <3>1. rc' = rc
      BY <2>3 DEF ReportMissing
    <3>2. PICK p \in Suppliers(n), peers \in BOOLEAN : MissingDeps(n, p, peers)
      BY <2>3 DEF ReportMissing
    <3>3. CASE ConsumerFails(n)
      <4>1. /\ [st EXCEPT ![n] = "failed"] \in [Node -> Status]
            /\ SoundTable([st EXCEPT ![n] = "failed"])
        BY <1>1, RewriteSound DEF Status
      <4> QED
        BY <3>1, <3>3, <4>1, WriteSound DEF ConsumerFails, IInv, TypeOK
    <3>4. CASE ConsumerFetchesAgain(n) /\ md[n] < MaxFetchRetries
      <4>1. /\ [st EXCEPT ![n] = "ready"] \in [Node -> Status]
            /\ SoundTable([st EXCEPT ![n] = "ready"])
        BY <1>1, RewriteSound DEF Status
      <4>2. md' \in [Node -> 0..MaxFetchRetries]
        BY <1>1, <3>4, MoreRetries DEF ConsumerFetchesAgain, IInv
      <4> QED
        BY <3>1, <3>4, <4>1, <4>2, WriteSound DEF ConsumerFetchesAgain, IInv, TypeOK
    <3>5. CASE ProducerRunsAgain(n, p) /\ p # None /\ ~(md[p] >= MaxProducerReruns)
      <4>1. p \in Node /\ p \in Deps[n]
        BY <1>1, <3>5, DagAssumption DEF Suppliers
      <4>2. p \in pushed \cup UpToDate
        BY <1>1, <4>1 DEF Fed
      <4>3. Fed(p)
        BY <4>2, DagAssumption DEF IInv, PushedWasFed, Fed
      <4>4. /\ [st EXCEPT ![p] = "ready", ![n] = "pending"] \in [Node -> Status]
            /\ SoundTable([st EXCEPT ![p] = "ready", ![n] = "pending"])
        BY <1>1, <4>1, <4>3, RerunSound
      <4>5. st' \in [Node -> Status] /\ SoundTable(st')
        BY <3>5, <4>4, WriteSound DEF ProducerRunsAgain
      <4>6. md[p] < MaxFetchRetries
        BY <3>5, <4>1 DEF IInv, TypeOK, MaxProducerReruns, MaxFetchRetries
      <4>7. md' \in [Node -> 0..MaxFetchRetries]
        BY <3>5, <4>1, <4>6, MoreRetries DEF ProducerRunsAgain, IInv
      <4> QED
        BY <3>1, <3>5, <4>5, <4>7 DEF ProducerRunsAgain, IInv, TypeOK
    <3> QED
      BY <3>2, <3>3, <3>4, <3>5 DEF MissingDeps
  <2> QED
    BY <2>1, <2>2, <2>3
<1>4. TypeOK'
  BY <1>2, <1>3 DEF Reported, IInv, TypeOK, Phase
<1> QED
  BY <1>2, <1>3, <1>4, TableStep DEF Reported, IInv, TypeOK

LEMMA DispatchStageStep ==
  ASSUME IInv, NEW r \in Runner, NEW n \in Node, DispatchStage(r, n)
  PROVE  IInv'
<1>1. st[n] = "ready" /\ Fed(n)
  BY DEF DispatchStage, Claimable, IInv, SoundTable
<1>2. st' \in [Node -> Status] /\ SoundTable(st')
  BY <1>1, RewriteSound DEF DispatchStage, Status
<1>3. UNCHANGED <<pushed, snapT, snapR, res>>
  BY DEF DispatchStage
<1>4. TypeOK'
  BY <1>2, DispatchAssumption DEF DispatchStage, IInv, TypeOK, Fault, Phase
<1>5. \A m \in Node : Fed(m) <=> Fed(m)'
  BY <1>3 DEF Fed
<1>6. SoundTable(st)'
  BY <1>2, <1>3 DEF SoundTable, Fed
<1>7. StageInHand'
  BY <1>1, <1>5 DEF DispatchStage, IInv, TypeOK, StageInHand
<1>8. SuccessWasPushed'
  BY <1>3 DEF DispatchStage, IInv, TypeOK, SuccessWasPushed
<1>9. PushedWasFed' /\ DecisionsAreFed'
  BY <1>3, <1>5 DEF IInv, TypeOK, PushedWasFed, DecisionsAreFed
<1> QED
  BY <1>4, <1>6, <1>7, <1>8, <1>9 DEF IInv

LEMMA ExitFailedStep ==
  ASSUME IInv, NEW r \in Runner, ExitFailed(r)
  PROVE  IInv'
<1>1. PICK retryable \in BOOLEAN :
        /\ st' \in RefreshResults(FailedTable(ChargedTo(r), retryable))
        /\ FailOrRetry(ChargedTo(r), retryable)
  BY DEF ExitFailed
<1>2. ChargedTo(r) \in SUBSET Node /\ \A n \in ChargedTo(r) : Fed(n)
  BY DEF ChargedTo, IInv, SoundTable
<1>3. /\ FailedTable(ChargedTo(r), retryable) \in [Node -> Status]
      /\ SoundTable(FailedTable(ChargedTo(r), retryable))
  BY <1>2, FailedTableSound
<1>4. st' \in [Node -> Status] /\ SoundTable(st')
  BY <1>1, <1>3, WalkType, WalkSound
<1>5. /\ own' \in [Node -> Runner \cup {None}]
      /\ rc' \in [Node -> 0..MaxNodeRetries]
      /\ md' = md
  BY <1>1, <1>2, FailOrRetryType DEF IInv
<1>6. TypeOK'
  BY <1>4, <1>5, DispatchAssumption
  DEF ExitFailed, Consolidate, ReportSent, Forget, Fault, IInv, TypeOK, Phase, Terminal
<1> QED
  BY <1>4, <1>6, TableStep DEF ExitFailed, ReportSent, Forget, IInv, TypeOK

LEMMA WalkStep ==
  ASSUME IInv, (\E r \in Runner : Walk(r)) \/ RefreshSweep
  PROVE  IInv'
<1>1. st' \in [Node -> Status] /\ SoundTable(st')
  BY WalkType, WalkSound DEF Walk, RefreshSweep, IInv, TypeOK
<1>2. TypeOK'
  BY <1>1 DEF Walk, RefreshSweep, IInv, TypeOK, Phase, runners
<1> QED
  BY <1>1, <1>2, TableStep DEF Walk, RefreshSweep, IInv, TypeOK, runners

LEMMA TimeoutSteps ==
  ASSUME IInv, (\E n \in Node : TimeoutSweep(n) \/ TimeoutRead(n)) \/ TimeoutWrite
  PROVE  IInv'
<1>1. ASSUME NEW n \in Node, Fed(n), Recover(n)
      PROVE  /\ st' \in [Node -> Status] /\ SoundTable(st')
             /\ own' \in [Node -> Runner \cup {None}]
  BY <1>1, RewriteSound DEF Recover, Status, IInv, TypeOK
<1>2. CASE \E n \in Node : TimeoutSweep(n)
  <2>1. PICK n \in Node : TimeoutSweep(n)
    BY <1>2
  <2>2. Fed(n) /\ Recover(n)
    BY <2>1 DEF TimeoutSweep, Silent, IInv, SoundTable
  <2>3. TypeOK'
    BY <1>1, <2>1, <2>2, DispatchAssumption
    DEF TimeoutSweep, Silent, Fault, IInv, TypeOK, runners
  <2> QED
    BY <1>1, <2>1, <2>2, <2>3, TableStep DEF TimeoutSweep, runners
<1>3. CASE \E n \in Node : TimeoutRead(n)
  <2>1. PICK n \in Node : TimeoutRead(n)
    BY <1>3
  <2>2. Fed(n)
    BY <2>1 DEF TimeoutRead, Silent, IInv, SoundTable
  <2>3. TypeOK'
    BY <2>1, DispatchAssumption
    DEF TimeoutRead, Silent, Fault, IInv, TypeOK, runners, table
  <2>4. Fed(n)' /\ \A m \in Node : Fed(m) => Fed(m)'
    BY <2>1, <2>2 DEF TimeoutRead, Fed
  <2> QED
    BY <2>1, <2>3, <2>4
    DEF TimeoutRead, IInv, TypeOK, SoundTable, StageInHand, SuccessWasPushed,
        PushedWasFed, DecisionsAreFed, runners, table
<1>4. CASE TimeoutWrite
  <2>1. snapT \in Node /\ Fed(snapT) /\ Recover(snapT)
    BY <1>4 DEF TimeoutWrite, IInv, TypeOK, DecisionsAreFed
  <2>2. st' \in [Node -> Status] /\ SoundTable(st') /\ own' \in [Node -> Runner \cup {None}]
    BY <1>1, <2>1
  <2>3. TypeOK'
    BY <1>4, <2>2 DEF TimeoutWrite, IInv, TypeOK, runners
  <2> QED
    BY <1>4, <2>2, <2>3
    DEF TimeoutWrite, IInv, TypeOK, SoundTable, StageInHand, SuccessWasPushed,
        PushedWasFed, DecisionsAreFed, Fed, runners
<1> QED
  BY <1>2, <1>3, <1>4

LEMMA RefreshSteps ==
  ASSUME IInv, RefreshRead \/ RefreshWrite
  PROVE  IInv'
<1>1. CASE RefreshRead
  <2>1. PICK new \in RefreshResults(st) :
          snapR' = [n \in Node |-> IF new[n] = st[n] THEN "keep" ELSE new[n]]
    BY <1>1 DEF RefreshRead
  <2>2. st \in [Node -> Status] /\ SoundTable(new)
    BY WalkSound DEF IInv, TypeOK
  <2>3. \A n \in Node : snapR'[n] \in Waiting \cup {"keep"}
    BY <2>1, <2>2, WalkMoves
  <2>4. TypeOK'
    BY <1>1, <2>1, <2>3 DEF RefreshRead, IInv, TypeOK, runners, table
  <2>5. \A n \in Node : snapR'[n] = "ready" => Fed(n)
    BY <2>1, <2>2 DEF SoundTable
  <2> QED
    BY <1>1, <2>4, <2>5
    DEF RefreshRead, IInv, TypeOK, SoundTable, StageInHand, SuccessWasPushed,
        PushedWasFed, DecisionsAreFed, Fed, runners, table
<1>2. CASE RefreshWrite
  <2>1. ASSUME NEW n \in Node
        PROVE  (IF snapR[n] = "keep" THEN st[n] ELSE snapR[n]) \in Status
    BY DEF IInv, TypeOK, Waiting, Status
  <2>2. st' \in [Node -> Status]
    BY <1>2, <2>1 DEF RefreshWrite
  <2>3. SoundTable(st')
    BY <1>2 DEF RefreshWrite, IInv, TypeOK, SoundTable, DecisionsAreFed, Waiting
  <2>4. TypeOK'
    BY <1>2, <2>2 DEF RefreshWrite, NoRewrite, IInv, TypeOK, runners
  <2>5. DecisionsAreFed'
    BY <1>2 DEF RefreshWrite, NoRewrite, IInv, DecisionsAreFed, Fed
  <2> QED
    BY <1>2, <2>3, <2>4, <2>5
    DEF RefreshWrite, IInv, SoundTable, StageInHand, SuccessWasPushed,
        PushedWasFed, Fed, runners
<1> QED
  BY <1>1, <1>2

LEMMA AddExtraWorkerStep ==
  ASSUME IInv, NEW w \in Worker, AddExtraWorker(w)
  PROVE  IInv'
<1>1. TypeOK'
  BY DEF AddExtraWorker, IInv, TypeOK, runners, table
<1> QED
  BY <1>1, TableStep DEF AddExtraWorker, IInv, TypeOK, runners, table
-----------------------------------------------------------------------------
LEMMA InitSound ==
  ASSUME Init PROVE IInv
<1>1. PlannedStatus \in [Node -> Status]
  BY DEF PlannedStatus, Status
<1>2. SoundTable(PlannedStatus)
  BY DEF PlannedStatus, SoundTable, Fed
<1>3. st \in [Node -> Status] /\ SoundTable(st)
  BY <1>1, <1>2, WalkType, WalkSound DEF Init
<1>4. TypeOK
  BY <1>3, DispatchAssumption DEF Init, TypeOK, NoRewrite, Phase, MaxFetchRetries
<1> QED
  BY <1>3, <1>4
  DEF Init, IInv, StageInHand, SuccessWasPushed, PushedWasFed, DecisionsAreFed, NoRewrite

LEMMA NextSound ==
  ASSUME IInv, [Next]_vars PROVE IInv'
<1>1. ASSUME NEW r \in Runner, RunnerStep(r) PROVE IInv'
  BY <1>1, MachineSteps, StageSteps, ReportSteps, WalkStep, DispatchStageStep, ExitFailedStep
  DEF RunnerStep
<1>2. CASE SchedulerStep
  BY <1>2, TimeoutSteps, WalkStep, RefreshSteps DEF SchedulerStep
<1>3. CASE \E w \in Worker : AddExtraWorker(w)
  BY <1>3, AddExtraWorkerStep
<1>4. CASE FaultStep
  BY <1>4, MachineSteps, WorkerCrashStep DEF FaultStep
<1>5. CASE UNCHANGED vars
  BY <1>5 DEF vars, table, runners, IInv, TypeOK, SoundTable, StageInHand,
     SuccessWasPushed, PushedWasFed, DecisionsAreFed, Fed
<1> QED
  BY <1>1, <1>2, <1>3, <1>4, <1>5 DEF Next

LEMMA Invariance == Spec => []IInv
<1>1. Init => IInv
  BY InitSound
<1>2. IInv /\ [Next]_vars => IInv'
  BY NextSound
<1> QED
  BY <1>1, <1>2, PTL DEF Spec

\* Every variable keeps its type: in particular no node is retried more than
\* MaxNodeRetries times and no producer or fetch is repeated beyond its literal.
THEOREM DispatchTypeOK == Spec => []TypeOK
<1>1. IInv => TypeOK
  BY DEF IInv
<1> QED
  BY <1>1, Invariance, PTL

\* No stage is offered, run or finished before each of its inputs was produced,
\* under every fault, every late report and every interleaving of the sweeps
\* of the scheduler with the reports of the runners.
THEOREM DispatchInputsProduced == Spec => []InputsProduced
<1>1. IInv => InputsProduced
  BY DEF IInv, SoundTable, InputsProduced, Fed
<1> QED
  BY <1>1, Invariance, PTL

-----------------------------------------------------------------------------
(* Completion, when each function of the headnode is one transaction.      *)

AllSucceeded == job = "completed" => \A n \in Node : st[n] \in Succeeded
NothingStale == snapT = None /\ snapR = NoRewrite
CInv == IInv /\ NothingStale /\ AllSucceeded

\* Only the exit report of a runner completes a job, from the table it wrote.
LEMMA CompletedByExit ==
  ASSUME Next, job # "completed", job' = "completed"
  PROVE  Aggregate(st') = "completed"
<1>1. ASSUME NEW r \in Runner, RunnerStep(r) PROVE Aggregate(st') = "completed"
  <2>1. CASE ExitCompleted(r) \/ ExitFailed(r)
    BY <2>1 DEF ExitCompleted, ExitFailed, Consolidate, Terminal, table
  <2>2. ASSUME NEW n \in Node, DispatchStage(r, n) PROVE FALSE
    BY <2>2 DEF DispatchStage
  <2>3. ~ \/ Poll(r) \/ StageSucceeds(r) \/ StageFails(r) \/ Walk(r)
          \/ ReportDone(r) \/ ReportFailed(r) \/ ReportMissing(r)
          \/ DispatchJobOver(r) \/ DispatchFinish(r) \/ DispatchGiveBack(r) \/ ExitIgnored(r)
    BY DEF Poll, StageSucceeds, StageFails, Walk, ReportDone, ReportFailed, ReportMissing,
           Reported, DispatchJobOver, DispatchFinish, DispatchGiveBack, Leaves, ExitIgnored
  <2> QED
    BY <1>1, <2>1, <2>2, <2>3 DEF RunnerStep
<1>2. ~SchedulerStep
  BY DEF SchedulerStep, TimeoutSweep, TimeoutRead, TimeoutWrite, RefreshSweep, RefreshRead,
         RefreshWrite
<1>3. ~ \E w \in Worker : AddExtraWorker(w)
  BY DEF AddExtraWorker
<1>4. ~FaultStep
  BY DEF FaultStep, RunnerCrash, ExitLost, WorkerCrash
<1> QED
  BY <1>1, <1>2, <1>3, <1>4 DEF Next

\* The table of a completed job does not change any more.
LEMMA CompletedIsFinal ==
  ASSUME CInv, Next, job = "completed"
  PROVE  st' = st
<1>1. \A n \in Node : st[n] \in Succeeded
  BY DEF CInv, AllSucceeded
<1>2. ASSUME NEW new \in RefreshResults(st) PROVE new = st
  <2>1. \A n \in Node : new[n] = st[n]
    BY <1>1, <1>2, WalkMoves DEF CInv, IInv, TypeOK, Waiting, Succeeded
  <2> QED
    BY <1>2, <2>1, WalkType DEF CInv, IInv, TypeOK
<1>3. ASSUME NEW r \in Runner, RunnerStep(r) PROVE st' = st
  BY <1>2, <1>3 DEF RunnerStep, Poll, StageSucceeds, StageFails, Walk, Reporting, Terminal,
     ReportDone, ReportFailed, ReportMissing, DispatchStage, DispatchJobOver, DispatchFinish,
     DispatchGiveBack, Leaves, ExitIgnored, ExitCompleted, ExitFailed, table
<1>4. ASSUME SchedulerStep PROVE st' = st
  BY <1>1, <1>4 DEF SchedulerStep, TimeoutSweep, TimeoutRead, TimeoutWrite, RefreshSweep,
     RefreshRead, RefreshWrite, Silent, Terminal, Succeeded, CInv, NothingStale, table
<1>5. ASSUME FaultStep PROVE st' = st
  BY <1>5 DEF FaultStep, RunnerCrash, ExitLost, WorkerCrash, table
<1> QED
  BY <1>3, <1>4, <1>5 DEF Next, AddExtraWorker, table

\* No step remembers a decision unless transactions are interleaved.
LEMMA StaysFresh ==
  ASSUME ~Interleaving, NothingStale, Next
  PROVE  NothingStale'
<1>1. ASSUME NEW r \in Runner, RunnerStep(r) PROVE UNCHANGED <<snapT, snapR>>
  BY <1>1 DEF RunnerStep, Poll, StageSucceeds, StageFails, Walk, ReportDone, ReportFailed,
     ReportMissing, Reported, DispatchStage, DispatchJobOver, DispatchFinish,
     DispatchGiveBack, Leaves, ExitIgnored, ExitCompleted, ExitFailed
<1>2. ASSUME SchedulerStep PROVE UNCHANGED <<snapT, snapR>>
  BY <1>2 DEF SchedulerStep, TimeoutSweep, TimeoutRead, TimeoutWrite, RefreshSweep,
     RefreshRead, RefreshWrite, NothingStale
<1> QED
  BY <1>1, <1>2 DEF Next, FaultStep, RunnerCrash, ExitLost, WorkerCrash, AddExtraWorker,
     NothingStale, NoRewrite

\* A job is declared completed only when every stage succeeded and its outputs
\* were pushed or up to date, and it stays so: provided no function of the
\* headnode is interleaved with another one.
THEOREM DispatchCompletedIsComplete ==
  ASSUME ~Interleaving
  PROVE  Spec => []CompletedIsComplete
<1>1. Init => CInv
  BY InitSound DEF Init, CInv, NothingStale, AllSucceeded
<1>2. CInv /\ [Next]_vars => CInv'
  <2> SUFFICES ASSUME CInv, [Next]_vars PROVE CInv'
    OBVIOUS
  <2>1. IInv'
    BY NextSound DEF CInv
  <2>2. CASE UNCHANGED vars
    BY <2>1, <2>2 DEF CInv, vars, table, NothingStale, NoRewrite, AllSucceeded
  <2>3. CASE Next
    <3>1. NothingStale'
      BY <2>3, StaysFresh DEF CInv
    <3>2. AllSucceeded'
      <4>1. CASE job = "completed"
        BY <2>3, <4>1, CompletedIsFinal DEF CInv, AllSucceeded
      <4>2. CASE job # "completed" /\ job' = "completed"
        BY <2>3, <4>2, CompletedByExit DEF Aggregate, AllSucceeded
      <4> QED
        BY <4>1, <4>2 DEF AllSucceeded
    <3> QED
      BY <2>1, <3>1, <3>2 DEF CInv
  <2> QED
    BY <2>2, <2>3
<1>3. CInv => CompletedIsComplete
  BY DEF CInv, IInv, SoundTable, AllSucceeded, CompletedIsComplete, Succeeded
<1> QED
  BY <1>1, <1>2, <1>3, PTL DEF Spec

-----------------------------------------------------------------------------
(* Failure, when each function of the headnode is one transaction.  The     *)
(* walk leaves no stage waiting for parents that all succeeded, and what    *)
(* happens between two walks only moves stages between ready and running:   *)
(* Blockers says so.  A job that fails therefore has nothing left to run,   *)
(* and, since a plan has no cycle, a stage that failed itself.              *)

\* A stage that waits for its parents has one that did not succeed.
Blockers(tab) ==
  \A n \in Node : tab[n] \in {"pending", "blocked"} =>
    \E d \in Deps[n] : tab[d] \notin Succeeded

NothingRuns ==
  job = "failed" =>
    (\E n \in Node : st[n] = "failed") /\ (\A n \in Node : st[n] \notin {"ready", "running"})

\* No report leaves its walk for later.
NoWalkLeft == \A r \in Runner : phase[r] # "walk"

FInv == IInv /\ NothingStale /\ NoWalkLeft /\ Blockers(st) /\ NothingRuns

\* Whatever the table was, after a walk over it every waiting stage has a parent
\* that did not succeed.
LEMMA WalkBlocks ==
  ASSUME NEW old \in [Node -> Status], NEW new \in RefreshResults(old)
  PROVE  Blockers(new)
<1> SUFFICES ASSUME NEW n \in Node, new[n] \in {"pending", "blocked"}
             PROVE  \E d \in Deps[n] : new[d] \notin Succeeded
  BY DEF Blockers
<1> DEFINE seen == [d \in Node |-> IF RowPos[d] < RowPos[n] THEN new[d] ELSE old[d]]
<1>1. IsPass(old, new)
  BY DEF RefreshResults
<1>2. old[n] \in Waiting
  BY <1>1 DEF IsPass, Waiting
<1>3. new[n] = RefreshRow(n, old[n], seen)
  BY <1>1, <1>2 DEF IsPass
<1>4. \E d \in Deps[n] : seen[d] \notin Succeeded
  <2> HIDE DEF seen
  <2>1. CASE \E d \in Deps[n] : seen[d] \in Broken
    BY <2>1 DEF Broken, Succeeded
  <2>2. CASE ~ \E d \in Deps[n] : seen[d] \in Broken
    BY <1>3, <2>2 DEF RefreshRow
  <2> QED
    BY <2>1, <2>2
<1>5. ASSUME NEW d \in Deps[n] PROVE new[d] \in Succeeded => seen[d] \in Succeeded
  <2>1. d \in Node
    BY DagAssumption
  <2>2. new[d] = old[d] \/ new[d] \in Waiting
    BY <2>1, WalkMoves
  <2>3. seen[d] = new[d] \/ seen[d] = old[d]
    BY <2>1
  <2> HIDE DEF seen
  <2> QED
    BY <2>2, <2>3 DEF Waiting, Succeeded
<1> HIDE DEF seen
<1> QED
  BY <1>4, <1>5

\* Moving one stage between ready and running unblocks nothing.
LEMMA MoveBlocks ==
  ASSUME st \in [Node -> Status], Blockers(st), NEW n \in Node, NEW s \in {"ready", "running"},
         st[n] \in {"ready", "running"}, st' = [st EXCEPT ![n] = s]
  PROVE  Blockers(st')
<1>1. \A m \in Node : st'[m] = IF m = n THEN s ELSE st[m]
  OBVIOUS
<1>2. \A m \in Node : Deps[m] \subseteq Node
  BY DagAssumption
<1> QED
  BY <1>1, <1>2 DEF Blockers, Succeeded

\* What a step may do to the table when transactions are not interleaved.
LEMMA TableMoves ==
  ASSUME IInv, NothingStale, ~Interleaving, Next
  PROVE  \/ st' = st
         \/ \E tab \in [Node -> Status] : st' \in RefreshResults(tab)
         \/ \E n \in Node, s \in {"ready", "running"} :
              st[n] \in {"ready", "running"} /\ st' = [st EXCEPT ![n] = s]
<1>1. ASSUME NEW r \in Runner, ReportDone(r) \/ ReportFailed(r) \/ ReportMissing(r)
      PROVE  \E tab \in [Node -> Status] : st' \in RefreshResults(tab)
  <2> DEFINE n == cur[r]
  <2>1. n \in Node
    BY <1>1 DEF ReportDone, ReportFailed, ReportMissing, Reporting, IInv, StageInHand
  <2>2. ASSUME NEW s \in Status PROVE [st EXCEPT ![n] = s] \in [Node -> Status]
    BY <2>2 DEF IInv, TypeOK
  <2>3. CASE ReportDone(r)
    <3>1. "done" \in Status
      BY DEF Status
    <3> QED
      BY <2>2, <2>3, <3>1 DEF ReportDone, WriteAndRefresh
  <2>4. CASE ReportFailed(r)
    <3>1. FailedTable({n}, res[r] = "failed") \in [Node -> Status]
      BY <2>1 DEF FailedTable, Retried, Status, IInv, TypeOK
    <3> QED
      BY <2>4, <3>1 DEF ReportFailed, WriteAndRefresh
  <2>5. CASE ReportMissing(r)
    <3>1. PICK p \in Suppliers(n), peers \in BOOLEAN : MissingDeps(n, p, peers)
      BY <2>5 DEF ReportMissing
    <3>2. {"failed", "ready", "pending"} \subseteq Status
      BY DEF Status
    <3>3. CASE ConsumerFails(n)
      BY <2>2, <3>2, <3>3 DEF ConsumerFails, WriteAndRefresh
    <3>4. CASE ConsumerFetchesAgain(n)
      BY <2>2, <3>2, <3>4 DEF ConsumerFetchesAgain, WriteAndRefresh
    <3>5. CASE ProducerRunsAgain(n, p) /\ p # None
      <4>1. [st EXCEPT ![p] = "ready", ![n] = "pending"] \in [Node -> Status]
        BY <2>1, <3>2, <3>5 DEF IInv, TypeOK
      <4> QED
        BY <3>5, <4>1 DEF ProducerRunsAgain, WriteAndRefresh
    <3> QED
      BY <3>1, <3>3, <3>4, <3>5 DEF MissingDeps
  <2> QED
    BY <1>1, <2>3, <2>4, <2>5
<1>2. ASSUME NEW r \in Runner, ExitFailed(r)
      PROVE  \E tab \in [Node -> Status] : st' \in RefreshResults(tab)
  <2>1. PICK retryable \in BOOLEAN : st' \in RefreshResults(FailedTable(ChargedTo(r), retryable))
    BY <1>2 DEF ExitFailed
  <2>2. FailedTable(ChargedTo(r), retryable) \in [Node -> Status]
    BY DEF FailedTable, Retried, Status, IInv, TypeOK
  <2> QED
    BY <2>1, <2>2
<1>3. ASSUME NEW r \in Runner, NEW n \in Node, DispatchStage(r, n)
      PROVE  st[n] \in {"ready", "running"} /\ st' = [st EXCEPT ![n] = "running"]
  BY <1>3 DEF DispatchStage, Claimable
<1>4. ASSUME NEW n \in Node, TimeoutSweep(n)
      PROVE  st[n] \in {"ready", "running"} /\ st' = [st EXCEPT ![n] = "ready"]
  BY <1>4 DEF TimeoutSweep, Silent, Recover
<1>5. ASSUME RefreshSweep \/ \E r \in Runner : Walk(r)
      PROVE  \E tab \in [Node -> Status] : st' \in RefreshResults(tab)
  BY <1>5 DEF RefreshSweep, Walk, IInv, TypeOK
<1>6. ASSUME NEW r \in Runner,
             \/ Poll(r) \/ StageSucceeds(r) \/ StageFails(r) \/ DispatchJobOver(r)
             \/ DispatchFinish(r) \/ DispatchGiveBack(r) \/ ExitIgnored(r) \/ ExitCompleted(r)
             \/ RunnerCrash(r) \/ ExitLost(r)
      PROVE  st' = st
  BY <1>6 DEF Poll, StageSucceeds, StageFails, DispatchJobOver, DispatchFinish,
     DispatchGiveBack, Leaves, ExitIgnored, ExitCompleted, RunnerCrash, ExitLost, table
<1>7. ASSUME NEW w \in Worker, AddExtraWorker(w) \/ WorkerCrash(w)
      PROVE  st' = st
  BY <1>7 DEF AddExtraWorker, WorkerCrash, table
<1>8. ~TimeoutWrite /\ ~RefreshRead /\ ~RefreshWrite /\ \A n \in Node : ~TimeoutRead(n)
  BY DEF TimeoutWrite, RefreshRead, RefreshWrite, TimeoutRead, NothingStale
<1>9. ASSUME NEW r \in Runner, RunnerStep(r)
      PROVE  \/ st' = st
             \/ \E tab \in [Node -> Status] : st' \in RefreshResults(tab)
             \/ \E n \in Node, s \in {"ready", "running"} :
                  st[n] \in {"ready", "running"} /\ st' = [st EXCEPT ![n] = s]
  BY <1>1, <1>2, <1>3, <1>5, <1>6, <1>9 DEF RunnerStep
<1>10. ASSUME SchedulerStep
       PROVE  \/ \E tab \in [Node -> Status] : st' \in RefreshResults(tab)
              \/ \E n \in Node, s \in {"ready", "running"} :
                   st[n] \in {"ready", "running"} /\ st' = [st EXCEPT ![n] = s]
  BY <1>4, <1>5, <1>8, <1>10 DEF SchedulerStep
<1>11. ASSUME FaultStep PROVE st' = st
  BY <1>6, <1>7, <1>11 DEF FaultStep
<1> QED
  BY <1>7, <1>9, <1>10, <1>11 DEF Next

\* Only the exit report of a runner fails a job, from the table it wrote, as
\* long as the home machine does not restart.
LEMMA FailedByExit ==
  ASSUME Next, Home \notin Crashable, job # "failed", job' = "failed"
  PROVE  Aggregate(st') = "failed"
<1>1. ASSUME NEW r \in Runner, RunnerStep(r) PROVE Aggregate(st') = "failed"
  <2>1. CASE ExitCompleted(r) \/ ExitFailed(r)
    BY <2>1 DEF ExitCompleted, ExitFailed, Consolidate, Terminal, table
  <2>2. ASSUME NEW n \in Node, DispatchStage(r, n) PROVE FALSE
    BY <2>2 DEF DispatchStage
  <2>3. ~ \/ Poll(r) \/ StageSucceeds(r) \/ StageFails(r) \/ Walk(r)
          \/ ReportDone(r) \/ ReportFailed(r) \/ ReportMissing(r)
          \/ DispatchJobOver(r) \/ DispatchFinish(r) \/ DispatchGiveBack(r) \/ ExitIgnored(r)
    BY DEF Poll, StageSucceeds, StageFails, Walk, ReportDone, ReportFailed, ReportMissing,
           Reported, DispatchJobOver, DispatchFinish, DispatchGiveBack, Leaves, ExitIgnored
  <2> QED
    BY <1>1, <2>1, <2>2, <2>3 DEF RunnerStep
<1>2. ~SchedulerStep
  BY DEF SchedulerStep, TimeoutSweep, TimeoutRead, TimeoutWrite, RefreshSweep, RefreshRead,
         RefreshWrite
<1>3. ~ \E w \in Worker : AddExtraWorker(w)
  BY DEF AddExtraWorker
<1>4. ~FaultStep
  BY DEF FaultStep, RunnerCrash, ExitLost, WorkerCrash
<1> QED
  BY <1>1, <1>2, <1>3, <1>4 DEF Next

\* A failed job stays failed and its table does not change any more.
LEMMA FailedIsFinal ==
  ASSUME FInv, Next, ~Interleaving, job = "failed"
  PROVE  st' = st
<1>1. \A n \in Node : st[n] \notin {"ready", "running"}
  BY DEF FInv, NothingRuns
<1>2. job \in Terminal
  BY DEF Terminal
<1>3. ASSUME NEW r \in Runner, RunnerStep(r) PROVE st' = st
  <2>1. ~Walk(r)
    BY DEF Walk, FInv, NoWalkLeft
  <2> QED
    BY <1>2, <1>3, <2>1 DEF RunnerStep, Poll, StageSucceeds, StageFails, Reporting,
     ReportDone, ReportFailed, ReportMissing, DispatchStage, DispatchJobOver, DispatchFinish,
     DispatchGiveBack, Leaves, ExitIgnored, ExitCompleted, ExitFailed, table
<1>4. ASSUME SchedulerStep PROVE st' = st
  BY <1>1, <1>2, <1>4 DEF SchedulerStep, TimeoutSweep, TimeoutRead, TimeoutWrite, RefreshSweep,
     RefreshRead, RefreshWrite, Silent, FInv, NothingStale, table
<1>5. ASSUME FaultStep PROVE st' = st
  BY <1>5 DEF FaultStep, RunnerCrash, ExitLost, WorkerCrash, table
<1> QED
  BY <1>3, <1>4, <1>5 DEF Next, AddExtraWorker, table

LEMMA WalksStayOver ==
  ASSUME ~Interleaving, TypeOK, NoWalkLeft, Next
  PROVE  NoWalkLeft'
<1>1. ASSUME NEW r \in Runner, RunnerStep(r) PROVE NoWalkLeft'
  <2>1. CASE \E n \in Node : DispatchStage(r, n)
    BY <2>1 DEF DispatchStage, NoWalkLeft, TypeOK
  <2>2. CASE ExitCompleted(r) \/ ExitFailed(r) \/ ExitIgnored(r)
    BY <2>2 DEF ExitCompleted, ExitFailed, ExitIgnored, ReportSent, Forget, NoWalkLeft, TypeOK
  <2>3. CASE ReportDone(r) \/ ReportFailed(r) \/ ReportMissing(r)
    <3>1. Reported(r)
      BY <2>3 DEF ReportDone, ReportFailed, ReportMissing
    <3> QED
      BY <3>1 DEF Reported, NoWalkLeft, TypeOK
  <2>4. CASE Poll(r) \/ StageSucceeds(r) \/ StageFails(r) \/ Walk(r)
    BY <2>4 DEF Poll, StageSucceeds, StageFails, Walk, NoWalkLeft, TypeOK
  <2>5. CASE DispatchJobOver(r) \/ DispatchFinish(r) \/ DispatchGiveBack(r)
    BY <2>5 DEF DispatchJobOver, DispatchFinish, DispatchGiveBack, Leaves, NoWalkLeft, TypeOK
  <2> QED
    BY <1>1, <2>1, <2>2, <2>3, <2>4, <2>5 DEF RunnerStep
<1>2. ASSUME SchedulerStep PROVE NoWalkLeft'
  BY <1>2 DEF SchedulerStep, TimeoutSweep, TimeoutRead, TimeoutWrite, RefreshSweep,
     RefreshRead, RefreshWrite, NoWalkLeft, runners
<1>3. ASSUME FaultStep PROVE NoWalkLeft'
  BY <1>3 DEF FaultStep, RunnerCrash, ExitLost, WorkerCrash, NoWalkLeft, TypeOK
<1>4. ASSUME NEW w \in Worker, AddExtraWorker(w) PROVE NoWalkLeft'
  BY <1>4 DEF AddExtraWorker, NoWalkLeft, runners
<1> QED
  BY <1>1, <1>2, <1>3, <1>4 DEF Next

\* In a table where nothing can run any more and not every stage succeeded, one
\* of the stages failed itself: the plan has no cycle.
LEMMA SomethingFailed ==
  ASSUME NEW tab \in [Node -> Status], Blockers(tab), Aggregate(tab) = "failed"
  PROVE  /\ \E n \in Node : tab[n] = "failed"
         /\ \A n \in Node : tab[n] \notin {"ready", "running"}
<1>1. /\ \E n \in Node : tab[n] \in Broken
      /\ \A n \in Node : tab[n] \notin {"running", "ready", "preempting"}
  BY DEF Aggregate
<1>2. \E n \in Node : tab[n] = "failed"
  <2> DEFINE S == {n \in Node : tab[n] \in {"pending", "blocked"}}
  <2>1. CASE S = {}
    BY <1>1, <2>1 DEF Broken
  <2>2. CASE S # {}
    <3>1. PICK n \in S : Deps[n] \cap S = {}
      BY <2>2, AcyclicAssumption
    <3>2. PICK d \in Deps[n] : tab[d] \notin Succeeded
      BY <3>1 DEF Blockers
    <3>3. d \in Node
      BY <3>1, DagAssumption
    <3>4. tab[d] \in Status /\ tab[d] \notin {"pending", "blocked"}
      BY <3>1, <3>2, <3>3
    <3> QED
      BY <1>1, <3>2, <3>3, <3>4 DEF Status, Succeeded
  <2> QED
    BY <2>1, <2>2
<1> QED
  BY <1>1, <1>2

\* A job is declared failed only when a stage failed for good and nothing is
\* running, can run, or waits for parents that all succeeded: provided no
\* function of the headnode is interleaved with another one, and the home
\* machine does not restart (its restart fails the job on the spot).
THEOREM DispatchFailedIsHopeless ==
  ASSUME ~Interleaving, Home \notin Crashable
  PROVE  Spec => []FailedIsHopeless
<1>1. Init => FInv
  <2> SUFFICES ASSUME Init PROVE FInv
    OBVIOUS
  <2>1. IInv
    BY InitSound
  <2>2. PlannedStatus \in [Node -> Status]
    BY DEF PlannedStatus, Status
  <2>3. Blockers(st)
    BY <2>2, WalkBlocks DEF Init
  <2> QED
    BY <2>1, <2>3 DEF Init, FInv, NothingStale, NoWalkLeft, NothingRuns
<1>2. FInv /\ [Next]_vars => FInv'
  <2> SUFFICES ASSUME FInv, [Next]_vars PROVE FInv'
    OBVIOUS
  <2>1. IInv'
    BY NextSound DEF FInv
  <2>2. CASE UNCHANGED vars
    BY <2>1, <2>2 DEF FInv, vars, table, runners, NothingStale, NoRewrite, NoWalkLeft, Blockers,
       NothingRuns
  <2>3. CASE Next
    <3>1. NothingStale' /\ NoWalkLeft'
      BY <2>3, StaysFresh, WalksStayOver DEF FInv, IInv
    <3>2. Blockers(st')
      <4>1. CASE st' = st
        BY <4>1 DEF FInv
      <4>2. CASE \E tab \in [Node -> Status] : st' \in RefreshResults(tab)
        BY <4>2, WalkBlocks
      <4>3. CASE \E n \in Node, s \in {"ready", "running"} :
                   st[n] \in {"ready", "running"} /\ st' = [st EXCEPT ![n] = s]
        BY <4>3, MoveBlocks DEF FInv, IInv, TypeOK
      <4> QED
        BY <2>3, <4>1, <4>2, <4>3, TableMoves DEF FInv
    <3>3. NothingRuns'
      <4>1. CASE job = "failed"
        BY <2>3, <4>1, FailedIsFinal DEF FInv, NothingRuns
      <4>2. CASE job # "failed" /\ job' = "failed"
        <5>1. Aggregate(st') = "failed"
          BY <2>3, <4>2, FailedByExit
        <5>2. st' \in [Node -> Status]
          BY <2>1 DEF IInv, TypeOK
        <5> QED
          BY <3>2, <5>1, <5>2, SomethingFailed DEF NothingRuns
      <4> QED
        BY <4>1, <4>2 DEF NothingRuns
    <3>4. Blockers(st)'
      BY <3>2 DEF Blockers
    <3> QED
      BY <2>1, <3>1, <3>3, <3>4 DEF FInv
  <2> QED
    BY <2>2, <2>3
<1>3. FInv => FailedIsHopeless
  BY DEF FInv, Blockers, NothingRuns, FailedIsHopeless
<1> QED
  BY <1>1, <1>2, <1>3, PTL DEF Spec

-----------------------------------------------------------------------------
(* Who executes a stage.                                                    *)

\* Hypothesis: a machine has one runner of the job.  Two on one machine share the
\* fate of their stages, since an exit report is charged by machine.
OneRunnerPerMachine == \A r, q \in Runner : WorkerOf[r] = WorkerOf[q] => r = q

\* A stage becomes failed only after its retries were used up, or for a reason
\* that is never retried: a fatal report, an input nobody can supply, or an exit
\* of the runner that had it.
THEOREM DispatchFailuresAreRetried ==
  ASSUME OneRunnerPerMachine
  PROVE  Spec => FailuresAreRetried
<1> DEFINE Excused(n) ==
      \/ rc[n] = MaxNodeRetries
      \/ \E r \in Runner : cur[r] = n /\ res[r] \in {"fatal", "missing"}
      \/ \E r \in Runner : own[n] = r /\ phase[r] = "dead"
    Kept == \A n \in Node : st[n] # "failed" /\ st'[n] = "failed" => Excused(n)
<1>1. IInv /\ [Next]_vars => Kept
  <2> SUFFICES ASSUME IInv, [Next]_vars, NEW n \in Node, st[n] # "failed", st'[n] = "failed"
               PROVE  Excused(n)
    OBVIOUS
  <2>1. ASSUME NEW tab \in [Node -> Status], tab[n] # "failed", WriteAndRefresh(tab)
        PROVE  FALSE
    <3>1. CASE st' = tab
      BY <2>1, <3>1
    <3>2. CASE st' \in RefreshResults(tab)
      BY <2>1, <3>2, WalkMoves DEF Waiting
    <3> QED
      BY <2>1, <3>1, <3>2 DEF WriteAndRefresh
  <2>2. st \in [Node -> Status] /\ st[n] # "failed"
    BY DEF IInv, TypeOK
  <2>3. ASSUME NEW S \in SUBSET Node, NEW retryable \in BOOLEAN,
               FailedTable(S, retryable)[n] = "failed"
        PROVE  n \in S /\ (retryable => rc[n] = MaxNodeRetries)
    <3>1. rc[n] \in 0..MaxNodeRetries /\ MaxNodeRetries \in Nat
      BY DispatchAssumption DEF IInv, TypeOK
    <3> QED
      BY <2>2, <2>3, <3>1 DEF FailedTable, Retried
  <2>4. ASSUME NEW S \in SUBSET Node, NEW retryable \in BOOLEAN
        PROVE  FailedTable(S, retryable) \in [Node -> Status]
    BY <2>2 DEF FailedTable, Retried, Status
  <2>5. ASSUME NEW r \in Runner, RunnerStep(r) PROVE Excused(n)
    <3>1. CASE ReportFailed(r)
      <4> DEFINE retryable == res[r] = "failed"
                 tab == FailedTable({cur[r]}, retryable)
      <4>0. {cur[r]} \in SUBSET Node /\ retryable \in BOOLEAN
        BY <3>1 DEF ReportFailed, Reporting, IInv, StageInHand
      <4>1. tab[n] = "failed"
        <5>1. WriteAndRefresh(tab)
          BY <3>1 DEF ReportFailed
        <5>2. tab \in [Node -> Status]
          BY <2>4, <4>0
        <5> HIDE DEF tab
        <5> QED
          BY <2>1, <5>1, <5>2
      <4>2. n \in {cur[r]} /\ (retryable => rc[n] = MaxNodeRetries)
        <5> HIDE DEF retryable
        <5> QED
          BY <2>3, <4>0, <4>1
      <4> QED
        BY <3>1, <4>2 DEF ReportFailed, Reporting
    <3>2. CASE ReportMissing(r)
      <4>1. cur[r] \in Node /\ res[r] = "missing"
        BY <3>2 DEF ReportMissing, Reporting, IInv, StageInHand
      <4>2. CASE cur[r] = n
        BY <4>1, <4>2
      <4>3. CASE cur[r] # n
        <5>1. PICK p \in Suppliers(cur[r]), peers \in BOOLEAN : MissingDeps(cur[r], p, peers)
          BY <3>2 DEF ReportMissing
        <5>2. ASSUME NEW s \in Status PROVE [st EXCEPT ![cur[r]] = s] \in [Node -> Status]
          BY <2>2, <5>2
        <5>3. {"failed", "ready", "pending"} \subseteq Status
          BY DEF Status
        <5>4. ~ConsumerFails(cur[r])
          BY <2>1, <2>2, <4>3, <5>2, <5>3 DEF ConsumerFails
        <5>5. ~ConsumerFetchesAgain(cur[r])
          BY <2>1, <2>2, <4>3, <5>2, <5>3 DEF ConsumerFetchesAgain
        <5>6. ASSUME p # None, ProducerRunsAgain(cur[r], p) PROVE FALSE
          <6>1. [st EXCEPT ![p] = "ready", ![cur[r]] = "pending"] \in [Node -> Status]
            BY <2>2, <4>1, <5>3
          <6>2. [st EXCEPT ![p] = "ready", ![cur[r]] = "pending"][n] # "failed"
            BY <2>2, <4>1, <4>3
          <6> QED
            BY <2>1, <5>6, <6>1, <6>2 DEF ProducerRunsAgain
        <5> QED
          BY <5>1, <5>4, <5>5, <5>6 DEF MissingDeps
      <4> QED
        BY <4>2, <4>3
    <3>3. CASE ReportDone(r)
      <4>1. [st EXCEPT ![cur[r]] = "done"] \in [Node -> Status]
        BY <2>2 DEF Status
      <4> QED
        BY <2>1, <2>2, <3>3, <4>1 DEF ReportDone
    <3>4. CASE ExitFailed(r)
      <4>1. PICK retryable \in BOOLEAN : st' \in RefreshResults(FailedTable(ChargedTo(r), retryable))
        BY <3>4 DEF ExitFailed
      <4>2. FailedTable(ChargedTo(r), retryable)[n] = "failed"
        <5>1. FailedTable(ChargedTo(r), retryable) \in [Node -> Status]
          BY <2>4 DEF ChargedTo
        <5> QED
          BY <4>1, <5>1, WalkMoves DEF Waiting
      <4>3. n \in ChargedTo(r)
        BY <2>3, <4>2 DEF ChargedTo
      <4>4. own[n] \in Runner
        BY <4>3, DispatchAssumption DEF ChargedTo, IInv, TypeOK
      <4>5. own[n] = r
        BY <4>3, <4>4 DEF ChargedTo, OneRunnerPerMachine
      <4> QED
        BY <3>4, <4>5 DEF ExitFailed
    <3>5. CASE Walk(r)
      BY <2>2, <3>5, WalkMoves DEF Walk, Waiting
    <3>6. ASSUME NEW m \in Node, DispatchStage(r, m) PROVE FALSE
      BY <2>2, <3>6 DEF DispatchStage
    <3>7. CASE \/ Poll(r) \/ StageSucceeds(r) \/ StageFails(r) \/ DispatchJobOver(r)
               \/ DispatchFinish(r) \/ DispatchGiveBack(r) \/ ExitIgnored(r) \/ ExitCompleted(r)
      <4>1. st' = st
        BY <3>7 DEF Poll, StageSucceeds, StageFails, DispatchJobOver,
           DispatchFinish, DispatchGiveBack, Leaves, ExitIgnored, ExitCompleted, table
      <4> QED
        BY <4>1
    <3> QED
      BY <2>5, <3>1, <3>2, <3>3, <3>4, <3>5, <3>6, <3>7 DEF RunnerStep
  <2>6. ASSUME SchedulerStep PROVE FALSE
    <3>1. ASSUME NEW m \in Node, Recover(m) PROVE FALSE
      BY <2>2, <3>1 DEF Recover
    <3>2. ASSUME RefreshSweep PROVE FALSE
      BY <2>2, <3>2, WalkMoves DEF RefreshSweep, Waiting
    <3>3. ASSUME RefreshWrite PROVE FALSE
      BY <2>2, <3>3 DEF RefreshWrite, IInv, TypeOK, Waiting
    <3>4. ASSUME RefreshRead \/ \E m \in Node : TimeoutRead(m) PROVE FALSE
      BY <2>2, <3>4 DEF RefreshRead, TimeoutRead, table
    <3>5. ASSUME TimeoutWrite PROVE FALSE
      BY <3>1, <3>5 DEF TimeoutWrite, IInv, TypeOK
    <3> QED
      BY <2>6, <3>1, <3>2, <3>3, <3>4, <3>5 DEF SchedulerStep, TimeoutSweep
  <2>7. ASSUME FaultStep \/ (\E w \in Worker : AddExtraWorker(w)) \/ UNCHANGED vars PROVE FALSE
    <3>1. st' = st
      BY <2>7 DEF FaultStep, RunnerCrash, ExitLost, WorkerCrash, AddExtraWorker, vars, table
    <3> QED
      BY <2>2, <3>1
  <2> QED
    BY <2>5, <2>6, <2>7 DEF Next
<1>2. Kept => [\A n \in Node : st[n] # "failed" /\ st'[n] = "failed" =>
       \/ rc[n] = MaxNodeRetries
       \/ \E r \in Runner : cur[r] = n /\ res[r] \in {"fatal", "missing"}
       \/ \E r \in Runner : own[n] = r /\ phase[r] = "dead"]_vars
  OBVIOUS
<1> QED
  BY <1>1, <1>2, Invariance, PTL DEF Spec, FailuresAreRetried

-----------------------------------------------------------------------------
(* One executor per stage.  The table and the runners agree as long as what *)
(* is taken back was given up: the sweep takes back only stages of runners  *)
(* that ended, and a producer sent back for a consumer that misses its      *)
(* output was done, not running again.  ParentsDone is the reason of the    *)
(* latter: a stage that was offered has a parent that is not done only      *)
(* after that parent was sent back, and a parent is sent back once.         *)

Busy(r) == phase[r] \in {"stage", "out"}

Holds == \A r \in Runner : Busy(r) => st[cur[r]] = "running" /\ own[cur[r]] = r

ParentsDone(tab, reruns) ==
  \A n \in Node : tab[n] \notin {"pending", "blocked"} =>
    \A p \in Deps[n] : reruns[p] < MaxProducerReruns => tab[p] \in Succeeded

EInv == IInv /\ NothingStale /\ NoWalkLeft /\ Holds /\ ParentsDone(st, md)

\* A step rewrites rows of stages that were offered; it takes a success back
\* only when it counts a rerun of that stage, and no count goes down.
Rewrites(tab, reruns) ==
  /\ \A n \in Node : reruns[n] < MaxProducerReruns => md[n] < MaxProducerReruns
  /\ \A n \in Node :
       \/ tab[n] = st[n]
       \/ /\ st[n] \notin {"pending", "blocked"}
          /\ st[n] \in Succeeded => ~(reruns[n] < MaxProducerReruns)

\* Whoever is busy after a step has its stage running in table tab, the same
\* stage if it was busy before.
Holders(tab) ==
  \A r \in Runner : phase'[r] \in {"stage", "out"} =>
    /\ cur'[r] \in Node /\ tab[cur'[r]] = "running" /\ own'[cur'[r]] = r
    /\ Busy(r) => cur'[r] = cur[r]

\* A step rewrites the table, then may walk over it.
Written(tab) ==
  /\ tab \in [Node -> Status] /\ Rewrites(tab, md') /\ Holders(tab)
  /\ st' = tab \/ st' \in RefreshResults(tab)

LEMMA RewriteKeepsParents ==
  ASSUME ParentsDone(st, md), NEW tab, NEW reruns, Rewrites(tab, reruns)
  PROVE  ParentsDone(tab, reruns)
<1> SUFFICES ASSUME NEW n \in Node, tab[n] \notin {"pending", "blocked"},
                    NEW p \in Deps[n], reruns[p] < MaxProducerReruns
             PROVE  tab[p] \in Succeeded
  BY DEF ParentsDone
<1>1. p \in Node
  BY DagAssumption
<1>2. md[p] < MaxProducerReruns
  BY <1>1 DEF Rewrites
<1>3. st[n] \notin {"pending", "blocked"}
  BY DEF Rewrites
<1>4. st[p] \in Succeeded
  BY <1>2, <1>3 DEF ParentsDone
<1> QED
  BY <1>1, <1>4 DEF Rewrites

LEMMA WalkKeepsParents ==
  ASSUME NEW old \in [Node -> Status], NEW new \in RefreshResults(old),
         NEW reruns, ParentsDone(old, reruns)
  PROVE  ParentsDone(new, reruns)
<1> SUFFICES ASSUME NEW n \in Node, new[n] \notin {"pending", "blocked"},
                    NEW p \in Deps[n], reruns[p] < MaxProducerReruns
             PROVE  new[p] \in Succeeded
  BY DEF ParentsDone
<1>1. p \in Node
  BY DagAssumption
<1>2. old[p] \in Succeeded
  <2>1. CASE new[n] = old[n]
    BY <2>1 DEF ParentsDone
  <2>2. CASE new[n] # old[n]
    BY <2>2, WalkMoves DEF Waiting
  <2> QED
    BY <2>1, <2>2
<1>3. new[p] = old[p]
  BY <1>1, <1>2, WalkMoves DEF Waiting, Succeeded
<1> QED
  BY <1>2, <1>3

\* Giving up or finishing a stage that runs takes no success back.
LEMMA RunningRewrites ==
  ASSUME TypeOK, NEW S \in SUBSET Node, \A n \in S : st[n] = "running", NEW tab,
         \A n \in Node \ S : tab[n] = st[n]
  PROVE  Rewrites(tab, md)
BY DEF Rewrites, Succeeded

\* Nor does counting one more fetch.
LEMMA CountedRewrites ==
  ASSUME TypeOK, NEW tab, Rewrites(tab, md), NEW n \in Node, md' = [md EXCEPT ![n] = @ + 1]
  PROVE  Rewrites(tab, md')
<1>1. \A m \in Node : md[m] \in Nat /\ md'[m] \in {md[m], md[m] + 1}
  BY DEF TypeOK, MaxFetchRetries
<1> QED
  BY <1>1 DEF Rewrites, MaxProducerReruns

\* A report gives up the stage of the runner that makes it, and no other.
LEMMA ReportWrites ==
  ASSUME EInv, ~Interleaving, NEW r \in Runner,
         ReportDone(r) \/ ReportFailed(r) \/ ReportMissing(r)
  PROVE  \E tab : Written(tab)
<1> DEFINE n == cur[r]
<1>1. n \in Node /\ Busy(r)
  BY DEF ReportDone, ReportFailed, ReportMissing, Reporting, EInv, IInv, StageInHand, Busy
<1>2. st[n] = "running" /\ own[n] = r
  BY <1>1 DEF EInv, Holds
<1>3. /\ \A q \in Runner : phase'[q] \in {"stage", "out"} => q # r /\ Busy(q) /\ cur'[q] = cur[q]
      /\ \A q \in Runner : Busy(q) /\ q # r => cur[q] \in Node /\ cur[q] # n
      /\ \A q \in Runner : Busy(q) => st[cur[q]] = "running" /\ own[cur[q]] = q
  <2>1. Reported(r)
    BY DEF ReportDone, ReportFailed, ReportMissing
  <2> QED
    BY <1>2, <2>1 DEF Reported, Busy, EInv, Holds, IInv, TypeOK, StageInHand
<1>4. TypeOK
  BY DEF EInv, IInv
<1>5. ASSUME NEW s \in {"done", "failed", "ready"}
      PROVE  /\ [st EXCEPT ![n] = s] \in [Node -> Status]
             /\ Rewrites([st EXCEPT ![n] = s], md)
  <2> DEFINE tab == [st EXCEPT ![n] = s]
  <2>1. tab \in [Node -> Status] /\ \A m \in Node \ {n} : tab[m] = st[m]
    BY <1>4, <1>5 DEF TypeOK, Status
  <2> HIDE DEF tab
  <2>2. Rewrites(tab, md)
    BY <1>1, <1>2, <1>4, <2>1, RunningRewrites
  <2> QED
    BY <2>1, <2>2 DEF tab
<1>6. ASSUME NEW s \in {"done", "failed", "ready"}, WriteAndRefresh([st EXCEPT ![n] = s]),
             Rewrites([st EXCEPT ![n] = s], md'),
             \A m \in Node \ {n} : own'[m] = own[m]
      PROVE  \E tab : Written(tab)
  <2> DEFINE tab == [st EXCEPT ![n] = s]
  <2>1. tab \in [Node -> Status] /\ \A m \in Node \ {n} : tab[m] = st[m]
    BY <1>4, <1>5 DEF TypeOK
  <2>2. st' \in RefreshResults(tab)
    BY <1>6 DEF WriteAndRefresh
  <2>3. Rewrites(tab, md')
    BY <1>6
  <2> HIDE DEF tab
  <2>4. Holders(tab)
    BY <1>3, <1>6, <2>1 DEF Holders
  <2> QED
    BY <2>1, <2>2, <2>3, <2>4 DEF Written
<1>7. CASE ReportDone(r)
  <2>1. md' = md /\ \A m \in Node \ {n} : own'[m] = own[m]
    BY <1>4, <1>7 DEF ReportDone, TypeOK
  <2>2. WriteAndRefresh([st EXCEPT ![n] = "done"])
    BY <1>7 DEF ReportDone
  <2>3. Rewrites([st EXCEPT ![n] = "done"], md')
    BY <1>5, <2>1
  <2> QED
    BY <1>6, <2>1, <2>2, <2>3
<1>8. CASE ReportFailed(r)
  <2> DEFINE retryable == res[r] = "failed"
             tab == FailedTable({n}, retryable)
  <2>1. retryable \in BOOLEAN
    OBVIOUS
  <2>2. st' \in RefreshResults(tab) /\ FailOrRetry({n}, retryable)
    BY <1>8 DEF ReportFailed, WriteAndRefresh
  <2> HIDE DEF retryable
  <2>3. tab \in [Node -> Status] /\ \A m \in Node \ {n} : tab[m] = st[m]
    BY <1>4 DEF FailedTable, Retried, TypeOK, Status
  <2>4. md' = md /\ \A m \in Node \ {n} : own'[m] = own[m]
    BY <2>2 DEF FailOrRetry
  <2> HIDE DEF tab
  <2>5. Rewrites(tab, md')
    BY <1>1, <1>2, <1>4, <2>3, <2>4, RunningRewrites
  <2>6. Holders(tab)
    BY <1>3, <2>3, <2>4 DEF Holders
  <2> QED
    BY <2>2, <2>3, <2>5, <2>6 DEF Written
<1>9. CASE ReportMissing(r)
  <2>1. PICK p \in Suppliers(n), peers \in BOOLEAN : MissingDeps(n, p, peers)
    BY <1>9 DEF ReportMissing
  <2>2. CASE ConsumerFails(n)
    <3>1. Rewrites([st EXCEPT ![n] = "failed"], md')
      BY <1>5, <2>2 DEF ConsumerFails
    <3> QED
      BY <1>6, <2>2, <3>1 DEF ConsumerFails
  <2>3. CASE ConsumerFetchesAgain(n)
    <3>1. Rewrites([st EXCEPT ![n] = "ready"], md)
      BY <1>5
    <3>2. Rewrites([st EXCEPT ![n] = "ready"], md')
      BY <1>1, <1>4, <2>3, <3>1, CountedRewrites DEF ConsumerFetchesAgain
    <3>3. \A m \in Node \ {n} : own'[m] = own[m]
      BY <1>4, <2>3 DEF ConsumerFetchesAgain, TypeOK
    <3> QED
      BY <1>6, <2>3, <3>2, <3>3 DEF ConsumerFetchesAgain
  <2>4. CASE ProducerRunsAgain(n, p) /\ p # None /\ ~(md[p] >= MaxProducerReruns)
    <3> DEFINE tab == [st EXCEPT ![p] = "ready", ![n] = "pending"]
    <3>1. p \in Deps[n] /\ p \in Node
      BY <1>1, <2>4, DagAssumption DEF Suppliers
    <3>2. md[p] < MaxProducerReruns /\ \A m \in Node : md[m] \in Nat
      BY <1>4, <2>4, <3>1 DEF TypeOK, MaxFetchRetries, MaxProducerReruns
    <3>3. st[p] \in Succeeded
      BY <1>1, <1>2, <3>1, <3>2 DEF EInv, ParentsDone
    <3>4. /\ tab \in [Node -> Status]
          /\ \A m \in Node \ {n, p} : tab[m] = st[m]
      BY <1>1, <1>4, <3>1 DEF TypeOK, Status
    <3>5. st' \in RefreshResults(tab)
      BY <2>4 DEF ProducerRunsAgain, WriteAndRefresh
    <3>6. \A m \in Node \ {n, p} : own'[m] = own[m]
      BY <1>4, <2>4 DEF ProducerRunsAgain, TypeOK
    <3> HIDE DEF tab
    <3>7. /\ \A m \in Node : md'[m] = IF m = p THEN md[m] + 1 ELSE md[m]
      BY <1>4, <2>4 DEF ProducerRunsAgain, TypeOK
    <3>8. Rewrites(tab, md')
      <4>1. \A m \in Node : md'[m] < MaxProducerReruns => md[m] < MaxProducerReruns /\ m # p
        BY <3>2, <3>7 DEF MaxProducerReruns
      <4> QED
        BY <1>2, <3>3, <3>4, <4>1 DEF Rewrites, Succeeded
    <3>9. Holders(tab)
      <4>1. \A q \in Runner : Busy(q) => cur[q] # p
        BY <1>3, <3>3 DEF Succeeded
      <4> QED
        BY <1>3, <3>4, <3>6, <4>1 DEF Holders
    <3> QED
      BY <3>4, <3>5, <3>8, <3>9 DEF Written
  <2> QED
    BY <2>1, <2>2, <2>3, <2>4 DEF MissingDeps
<1> QED
  BY <1>7, <1>8, <1>9

\* A step that leaves the table alone and takes no stage in hand.
LEMMA TableKept ==
  ASSUME EInv, UNCHANGED table,
         \A r \in Runner : phase'[r] \in {"stage", "out"} => Busy(r) /\ cur'[r] = cur[r]
  PROVE  Written(st)
<1>1. st \in [Node -> Status]
  BY DEF EInv, IInv, TypeOK
<1>2. Rewrites(st, md')
  BY DEF table, Rewrites
<1>3. Holders(st)
  BY DEF table, Holders, EInv, Holds, IInv, StageInHand, Busy
<1> QED
  BY <1>1, <1>2, <1>3 DEF Written, table

LEMMA RunnerWrites ==
  ASSUME EInv, ~Interleaving, OneRunnerPerMachine, NEW r \in Runner, RunnerStep(r)
  PROVE  \E tab : Written(tab)
<1>0. TypeOK
  BY DEF EInv, IInv
<1>1. CASE ReportDone(r) \/ ReportFailed(r) \/ ReportMissing(r)
  BY <1>1, ReportWrites
<1>2. CASE \/ Poll(r) \/ StageSucceeds(r) \/ StageFails(r) \/ DispatchJobOver(r)
           \/ DispatchFinish(r) \/ DispatchGiveBack(r) \/ ExitIgnored(r) \/ ExitCompleted(r)
  <2>1. UNCHANGED table
    BY <1>2 DEF Poll, StageSucceeds, StageFails, DispatchJobOver, DispatchFinish,
       DispatchGiveBack, Leaves, ExitIgnored, ExitCompleted
  <2>2. \A q \in Runner : phase'[q] \in {"stage", "out"} => Busy(q) /\ cur'[q] = cur[q]
    BY <1>0, <1>2 DEF Poll, StageSucceeds, StageFails, DispatchJobOver, DispatchFinish,
       DispatchGiveBack, Leaves, ExitIgnored, ExitCompleted, ReportSent, Forget, Busy, TypeOK
  <2> QED
    BY <2>1, <2>2, TableKept
<1>3. CASE Walk(r)
  BY <1>3 DEF Walk, EInv, NoWalkLeft
<1>4. CASE \E n \in Node : DispatchStage(r, n)
  <2>1. PICK n \in Node : DispatchStage(r, n)
    BY <1>4
  <2>2. st[n] = "ready" /\ phase[r] = "ask" /\ md' = md
    BY <2>1 DEF DispatchStage, Claimable
  <2>3. /\ st' \in [Node -> Status] /\ st'[n] = "running"
        /\ \A m \in Node \ {n} : st'[m] = st[m]
        /\ own'[n] = r /\ \A m \in Node \ {n} : own'[m] = own[m]
    BY <1>0, <2>1 DEF DispatchStage, TypeOK, Status
  <2>4. \A q \in Runner : q # r => phase'[q] = phase[q] /\ cur'[q] = cur[q]
    BY <1>0, <2>1 DEF DispatchStage, TypeOK
  <2>5. phase'[r] \in {"stage", "out"} => cur'[r] = n
    BY <1>0, <2>1 DEF DispatchStage, TypeOK
  <2>6. \A q \in Runner : Busy(q) => cur[q] \in Node \ {n} /\ st[cur[q]] = "running" /\ own[cur[q]] = q
    BY <2>2 DEF EInv, IInv, StageInHand, Holds, Busy
  <2>7. ~Busy(r)
    BY <2>2 DEF Busy
  <2>8. Holders(st')
    BY <2>3, <2>4, <2>5, <2>6, <2>7 DEF Holders, Busy
  <2>9. Rewrites(st', md')
    BY <2>2, <2>3 DEF Rewrites, Succeeded
  <2> QED
    BY <2>3, <2>8, <2>9 DEF Written
<1>5. CASE ExitFailed(r)
  <2>1. PICK retryable \in BOOLEAN :
          /\ st' \in RefreshResults(FailedTable(ChargedTo(r), retryable))
          /\ FailOrRetry(ChargedTo(r), retryable)
    BY <1>5 DEF ExitFailed
  <2> DEFINE S == ChargedTo(r)
             tab == FailedTable(S, retryable)
  <2>2. S \in SUBSET Node /\ \A n \in S : st[n] = "running" /\ own[n] = r
    BY <1>0, DispatchAssumption DEF ChargedTo, OneRunnerPerMachine, TypeOK
  <2> HIDE DEF S
  <2>3. tab \in [Node -> Status] /\ \A n \in Node \ S : tab[n] = st[n]
    BY <1>0, <2>2 DEF FailedTable, Retried, TypeOK, Status
  <2>4. md' = md /\ \A n \in Node \ S : own'[n] = own[n]
    BY <2>1 DEF FailOrRetry, S
  <2>5. st' \in RefreshResults(tab)
    BY <2>1 DEF S
  <2> HIDE DEF tab
  <2>6. Rewrites(tab, md')
    BY <1>0, <2>2, <2>3, <2>4, RunningRewrites
  <2>7. \A q \in Runner : phase'[q] \in {"stage", "out"} => Busy(q) /\ cur'[q] = cur[q] /\ q # r
    BY <1>0, <1>5 DEF ExitFailed, ReportSent, Forget, TypeOK, Busy
  <2>8. \A q \in Runner : Busy(q) => cur[q] \in Node /\ st[cur[q]] = "running" /\ own[cur[q]] = q
    BY DEF EInv, IInv, StageInHand, Holds, Busy
  <2>9. Holders(tab)
    BY <2>2, <2>3, <2>4, <2>7, <2>8 DEF Holders
  <2> QED
    BY <2>3, <2>5, <2>6, <2>9 DEF Written
<1> QED
  BY <1>1, <1>2, <1>3, <1>4, <1>5 DEF RunnerStep

LEMMA StepWrites ==
  ASSUME EInv, ~Interleaving, "partition" \notin FaultKinds, OneRunnerPerMachine, Next
  PROVE  \E tab : Written(tab)
<1>0. TypeOK
  BY DEF EInv, IInv
<1>1. ASSUME NEW n \in Node, TimeoutSweep(n) PROVE \E tab : Written(tab)
  <2>1. st[n] = "running" /\ own[n] \in Runner /\ phase[own[n]] \notin Alive
    BY <1>0, <1>1 DEF TimeoutSweep, Silent, Fault, TypeOK
  <2>2. /\ st' \in [Node -> Status] /\ \A m \in Node \ {n} : st'[m] = st[m]
        /\ \A m \in Node \ {n} : own'[m] = own[m]
        /\ md' = md /\ UNCHANGED runners
    BY <1>0, <1>1 DEF TimeoutSweep, Recover, TypeOK, Status
  <2>3. Rewrites(st', md')
    BY <2>1, <2>2 DEF Rewrites, Succeeded
  <2>4. \A q \in Runner : Busy(q) => cur[q] \in Node \ {n} /\ st[cur[q]] = "running" /\ own[cur[q]] = q
    BY <2>1 DEF EInv, IInv, StageInHand, Holds, Busy, Alive
  <2>5. Holders(st')
    BY <2>2, <2>4 DEF Holders, Busy, runners
  <2> QED
    BY <2>2, <2>3, <2>5 DEF Written
<1>2. ASSUME RefreshSweep PROVE \E tab : Written(tab)
  <2>1. st' \in RefreshResults(st) /\ st \in [Node -> Status]
    BY <1>0, <1>2 DEF RefreshSweep, TypeOK
  <2>2. Rewrites(st, md')
    BY <1>2 DEF RefreshSweep, Rewrites
  <2>3. Holders(st)
    BY <1>2 DEF RefreshSweep, runners, Holders, EInv, IInv, StageInHand, Holds, Busy
  <2> QED
    BY <2>1, <2>2, <2>3 DEF Written
<1>3. ~TimeoutWrite /\ ~RefreshRead /\ ~RefreshWrite /\ \A n \in Node : ~TimeoutRead(n)
  BY DEF TimeoutWrite, RefreshRead, RefreshWrite, TimeoutRead, EInv, NothingStale
<1>4. ASSUME FaultStep \/ \E w \in Worker : AddExtraWorker(w) PROVE Written(st)
  <2>1. UNCHANGED table
    BY <1>4 DEF FaultStep, RunnerCrash, ExitLost, WorkerCrash, AddExtraWorker
  <2>2. \A q \in Runner : phase'[q] \in {"stage", "out"} => Busy(q) /\ cur'[q] = cur[q]
    <3>1. ASSUME NEW r \in Runner, RunnerCrash(r) \/ ExitLost(r)
          PROVE  \A q \in Runner : phase'[q] \in {"stage", "out"} => Busy(q) /\ cur'[q] = cur[q]
      <4>1. \A q \in Runner \ {r} : phase'[q] = phase[q] /\ cur'[q] = cur[q]
        BY <1>0, <3>1 DEF RunnerCrash, ExitLost, TypeOK
      <4>2. phase'[r] \in {"dead", "off"}
        BY <1>0, <3>1 DEF RunnerCrash, ExitLost, TypeOK
      <4> QED
        BY <4>1, <4>2 DEF Busy
    <3>2. ASSUME NEW w \in Worker, WorkerCrash(w)
          PROVE  \A q \in Runner : phase'[q] \in {"stage", "out"} => Busy(q) /\ cur'[q] = cur[q]
      BY <3>2 DEF WorkerCrash, Busy
    <3>3. ASSUME NEW w \in Worker, AddExtraWorker(w) PROVE UNCHANGED <<phase, cur>>
      BY <3>3 DEF AddExtraWorker, runners
    <3> QED
      BY <1>4, <3>1, <3>2, <3>3 DEF FaultStep, Busy
  <2> QED
    BY <2>1, <2>2, TableKept
<1> QED
  BY <1>1, <1>2, <1>3, <1>4, RunnerWrites DEF Next, SchedulerStep

LEMMA ExecutorInit ==
  ASSUME Init PROVE EInv
<1>1. IInv /\ NothingStale /\ NoWalkLeft
  BY InitSound DEF Init, NothingStale, NoWalkLeft
<1>2. Holds
  BY DEF Init, Holds, Busy
<1>3. PlannedStatus \in [Node -> Status] /\ ParentsDone(PlannedStatus, md)
  BY DagAssumption DEF PlannedStatus, ParentsDone, Status, Succeeded
<1>4. ParentsDone(st, md)
  BY <1>3, WalkKeepsParents DEF Init
<1> QED
  BY <1>1, <1>2, <1>4 DEF EInv

LEMMA ExecutorNext ==
  ASSUME EInv, ~Interleaving, "partition" \notin FaultKinds, OneRunnerPerMachine, [Next]_vars
  PROVE  /\ EInv'
         /\ \A r \in Runner : Busy(r) /\ phase'[r] \in {"stage", "out"} => cur'[r] = cur[r]
<1>1. IInv'
  BY NextSound DEF EInv
<1>2. CASE UNCHANGED vars
  BY <1>1, <1>2 DEF vars, table, runners, EInv, NothingStale, NoRewrite, NoWalkLeft, Holds, Busy,
     ParentsDone
<1>3. CASE Next
  <2>1. NothingStale' /\ NoWalkLeft'
    BY <1>3, StaysFresh, WalksStayOver DEF EInv, IInv
  <2>2. PICK tab : Written(tab)
    BY <1>3, StepWrites
  <2>3. tab \in [Node -> Status] /\ ParentsDone(tab, md')
    BY <2>2, RewriteKeepsParents DEF Written, EInv
  <2>4. ParentsDone(st', md')
    BY <2>2, <2>3, WalkKeepsParents DEF Written
  <2>5. ParentsDone(st, md)'
    BY <2>4 DEF ParentsDone
  <2>6. \A n \in Node : tab[n] = "running" => st'[n] = "running"
    BY <2>2, <2>3, WalkMoves DEF Written, Waiting
  <2>7. Holds'
    BY <2>2, <2>6 DEF Written, Holders, Holds, Busy
  <2> QED
    BY <1>1, <2>1, <2>2, <2>5, <2>7 DEF EInv, Written, Holders
<1> QED
  BY <1>2, <1>3

\* Two machines never run the same stage at the same time: provided no runner
\* that lives is believed dead (a partition), a machine starts one runner for
\* the job, and no function of the headnode is interleaved with another one.
\* Restarts, crashes and lost answers are allowed.
THEOREM DispatchOneExecutorPerStage ==
  ASSUME ~Interleaving, "partition" \notin FaultKinds, OneRunnerPerMachine
  PROVE  Spec => []OneExecutorPerStage
<1>1. Init => EInv
  BY ExecutorInit
<1>2. EInv /\ [Next]_vars => EInv'
  BY ExecutorNext
<1>3. EInv => OneExecutorPerStage
  BY DEF EInv, Holds, Busy, OneExecutorPerStage
<1> QED
  BY <1>1, <1>2, <1>3, PTL DEF Spec

\* As long as a runner works on a stage, the table keeps that stage running,
\* under the same conditions: no report of another runner, no sweep and no rerun
\* of a producer takes it away.
THEOREM DispatchRunnerKeepsItsStage ==
  ASSUME ~Interleaving, "partition" \notin FaultKinds, OneRunnerPerMachine
  PROVE  Spec => RunnerKeepsItsStage
<1> DEFINE Kept == \A r \in Runner, n \in Node :
       /\ st[n] = "running" /\ own[n] = r
       /\ phase[r] = "stage" /\ phase'[r] = "stage" /\ cur[r] = n
       => st'[n] = "running"
<1>1. Init => EInv
  BY ExecutorInit
<1>2. EInv /\ [Next]_vars => EInv' /\ Kept
  BY ExecutorNext DEF EInv, Holds, Busy
<1>3. Kept => [Kept]_vars
  OBVIOUS
<1> QED
  BY <1>1, <1>2, <1>3, PTL DEF Spec, RunnerKeepsItsStage
=============================================================================
