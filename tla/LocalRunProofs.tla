--------------------------- MODULE LocalRunProofs ---------------------------
(***************************************************************************)
(* Proofs about LocalRun, for any pipeline, any number of workers, runners *)
(* and faults, in which the scheduler does not walk in the middle of a     *)
(* cancel.                                                                 *)
(*                                                                         *)
(* Archives are copied about, from working copies to workers, to the       *)
(* headnode, to other workers and to the user, so the invariant is stated  *)
(* for a copy wherever it is (Good): an unfinished one is there only while *)
(* its runner cannot report the stage done any more (Spent), it is that    *)
(* runner's last word, and the headnode has an archive of the stage unless *)
(* the runner still owes its own (Held).  The table keeps its side of this *)
(* in TabInv, the runners theirs in RunnerOK, the client in ClientInv.     *)
(*                                                                         *)
(* A step moves one runner, and one stage in the table with what follows   *)
(* from it (Move); StepOK puts together what both leave alone.             *)
(***************************************************************************)
EXTENDS LocalRun, TLAPS

Busy == {"restoring", "working", "saving", "sending", "reporting"}

\* A cancel has written the stages; from then on they are done or blocked.
Barred == cancel \in {"write", "over"}
Shut(n) == node[n].status = "failed" \/ (Barred /\ node[n].status = "blocked")
AllDone == \A n \in Node : node[n].status = "done"
DoneBy(r, n) == node[n].status = "done" /\ node[n].owner = r
Occupied(r, n) == Runs(r, n) \/ (Barred /\ node[n].status = "blocked")

\* The stages in the table.
TabInv ==
  /\ \A n \in Node : node[n].status \in {"ready", "running", "done"} =>
                       \A p \in Producer[n] : node[p].status = "done" \/ node[p].again
  /\ Barred => \A n \in Node : node[n].status \in {"done", "blocked"}
  /\ job.status = "completed" => AllDone

\* r will not report n done: it is on its way out, or its container failed.
Ending(r) == run[r].pc \in {"closing", "parting", "stopped", "rescuing", "dead"}
BadTry(r, n) == run[r].node = n /\ run[r].exit = "bad" /\ run[r].pc \in {"saving", "sending", "reporting"}
Spent(r, n) == Shut(n) \/ (~DoneBy(r, n) /\ (Ending(r) \/ BadTry(r, n)))
LastWord(r, n, a) == run[r].pc = "dead" \/ Shut(n) \/ (run[r].ws[n].by = r => run[r].ws[n] = a)

\* r owes n its archive, or the headnode has one of the stage.
Backed(n) == hub[n].by # None \/ client.fetched
Owes(r, n) == run[r].rec = n /\ run[r].pc \in {"saving", "sending", "closing", "parting", "stopped", "rescuing"}
Held(r, n) == Backed(n) \/ run[r].pc = "dead" \/ Owes(r, n)

\* What is true of an archive of n, wherever it is.
Good(a, n) ==
  /\ a.by = None => a = Nothing
  /\ \A r \in Runner : a.by = r =>
       /\ Held(r, n)
       /\ a.level < Whole => Spent(r, n) /\ LastWord(r, n, a)

Copy(a, n) ==
  \/ a = hub[n] \/ a = project[n]
  \/ \E w \in Worker : a = arch[w][n]
  \/ \E r \in Runner : a = run[r].ws[n]

AllGood == \A n \in Node : \A a \in Archive : Copy(a, n) => Good(a, n)

\* A runner, what it holds and what the table and the headnode hold for it.
RunnerOK(r) ==
  /\ run[r].pc # "off" => run[r].host \in Worker
  /\ run[r].pc = "sending" => run[r].rec = run[r].node
  /\ run[r].pc \in {"sending", "parting", "rescuing"} =>
       run[r].rec # None /\ arch[run[r].host][run[r].rec].by # None
  /\ run[r].pc \in Busy => run[r].node # None /\ Occupied(r, run[r].node)
  /\ run[r].pc \in {"working", "saving"} =>
       run[r].rec = run[r].node \/ (run[r].rec = None /\ Backed(run[r].node))
  /\ run[r].pc \in {"saving", "sending"} => run[r].exit \in {"ok", "bad"}
  /\ run[r].pc = "reporting" => run[r].exit # "none"
  /\ run[r].pc \in {"saving", "sending", "reporting"} /\ run[r].exit \in {"ok", "bad"} =>
       run[r].ws[run[r].node].by # None
  /\ run[r].pc = "reporting" /\ run[r].exit \in {"ok", "bad"} => Backed(run[r].node)
  /\ \A n \in Node : /\ node[n].owner = r => run[r].pc # "off"
                     /\ DoneBy(r, n) /\ run[r].pc # "dead" => run[r].ws[n].by # None

\* A stage that runs or is done has an owner; the outputs of a done one are in.
Owned ==
  \A n \in Node : /\ node[n].status \in {"running", "done"} => node[n].owner # None
                  /\ node[n].status = "done" => Backed(n)

\* A mark is on an archive of somebody.
Marked == \A w \in Worker : \A n \in pend[w] : arch[w][n].by # None

ClientInv ==
  /\ At("new") \/ At("accepted") \/ At("watching") => ~client.fetched
  /\ At("deleting") => client.fetched
  /\ client.result = "success" =>
       /\ client.at \in {"fetching", "deleting", "clearing", "killed", "ended"} /\ AllDone
       /\ At("fetching") => ~client.fetched
       /\ client.fetched => \A n \in Node : project[n].by # None

IInv == TypeOK /\ TabInv /\ AllGood /\ (\A r \in Runner : RunnerOK(r)) /\ Owned /\ Marked /\ ClientInv

-----------------------------------------------------------------------------
(* The table.                                                              *)

JobRow == [status : {"none", "active", "completed", "failed"}, source : BOOLEAN]
CancelStep == {"idle", "notify", "block", "write", "over"}

\* A runner that has a success to report, and one that has no stage after a step.
Succeeds(r, n) == run[r].pc = "reporting" /\ run[r].node = n /\ run[r].exit = "ok"
Leaves(r) == run'[r].pc \notin Busy

\* What every step does to the table: nothing is reopened, stages are done by
\* those who report them, and who has a stage has it until it leaves.
TableMoves ==
  /\ node' \in [Node -> Row] /\ job' \in JobRow /\ cancel' \in CancelStep
  /\ TabInv' /\ (AllDone => AllDone')
  /\ \A n \in Node :
       /\ Shut(n) => Shut(n)'
       /\ node'[n].status \in {"running", "done"} => node'[n].owner # None
       /\ \A r \in Runner :
            /\ DoneBy(r, n)' => DoneBy(r, n) \/ Succeeds(r, n)
            /\ Occupied(r, n) => Occupied(r, n)' \/ Leaves(r)
            /\ node'[n].owner = r => node[n].owner = r \/ run'[r].pc # "off"

\* A step of the table itself: n stops running, and a producer of it that was
\* done may have to run a second time.
Move(n, new) ==
  /\ node[n].status = "running"
  /\ new \in [Node -> Row]
  /\ new[n].owner = node[n].owner /\ new[n].status \in {"done", "failed", "waiting", "ready"}
  /\ new[n].again = node[n].again
  /\ \A m \in Node \ {n} :
       \/ new[m] = node[m]
       \/ /\ node[m].status = "done"
          /\ new[m].status = "ready" /\ new[m].owner = node[m].owner /\ new[m].again

\* The walk changes nothing but stages that wait, are ready or are blocked, and
\* makes one ready when its producers are done.
LEMMA SpreadKeeps ==
  ASSUME NEW new \in [Node -> Row]
  PROVE  /\ Spread(new) \in [Node -> Row]
         /\ \A n \in Node :
              /\ Spread(new)[n].owner = new[n].owner /\ Spread(new)[n].again = new[n].again
              /\ new[n].status \in {"running", "done", "failed"} => Spread(new)[n] = new[n]
              /\ Spread(new)[n].status \in {"running", "done", "failed"} => Spread(new)[n] = new[n]
              /\ Spread(new)[n].status = "ready" =>
                   new[n].status = "ready" \/ \A p \in Producer[n] : new[p].status = "done"
<1> DEFINE Lost(n) == \E p \in Producer[n] : new[p].status \in {"failed", "blocked"}
           Fed(n) == \A p \in Producer[n] : new[p].status = "done"
           next(n) == IF Lost(n) THEN "blocked" ELSE IF Fed(n) THEN "ready"
                      ELSE IF new[n].status = "blocked" THEN "waiting" ELSE new[n].status
           walked(n) == IF new[n].status \notin {"waiting", "ready", "blocked"} THEN new[n]
                        ELSE [new[n] EXCEPT !.status = next(n)]
<1>1. Spread(new) = [n \in Node |-> walked(n)]
  BY DEF Spread
<1>2. ASSUME NEW n \in Node
      PROVE  /\ walked(n) \in Row
             /\ walked(n).owner = new[n].owner /\ walked(n).again = new[n].again
             /\ new[n].status \in {"running", "done", "failed"} => walked(n) = new[n]
             /\ walked(n).status \in {"running", "done", "failed"} => walked(n) = new[n]
             /\ walked(n).status = "ready" => new[n].status = "ready" \/ Fed(n)
  <2>1. new[n] \in Row
    OBVIOUS
  <2>2. CASE new[n].status \notin {"waiting", "ready", "blocked"}
    BY <2>1, <2>2 DEF Row
  <2>3. CASE new[n].status \in {"waiting", "ready", "blocked"}
    <3>1. next(n) \in {"waiting", "ready", "blocked"} /\ (next(n) = "ready" => new[n].status = "ready" \/ Fed(n))
      BY <2>3
    <3> HIDE DEF next
    <3> QED
      BY <2>1, <2>3, <3>1 DEF Row
  <2> QED
    BY <2>2, <2>3
<1> HIDE DEF walked
<1> QED
  BY <1>1, <1>2

\* What a step of the table does.
LEMMA MoveKeeps ==
  ASSUME TypeOK, TabInv, NEW n \in Node, NEW new, Move(n, new), Change(new)
  PROVE  /\ node' \in [Node -> Row] /\ TabInv' /\ ~AllDone /\ Barred' = Barred
         /\ job' \in JobRow /\ cancel' = cancel
         /\ \A m \in Node :
              /\ node'[m].owner = node[m].owner
              /\ Shut(m) => Shut(m)'
              /\ node'[m].status = "running" => node[m].status = "running"
              /\ node'[m].status = "done" => node[m].status = "done" \/ (m = n /\ new[n].status = "done")
              /\ m # n /\ node[m].status = "running" => node'[m].status = "running"
              /\ Barred => m # n
<1>0. /\ node \in [Node -> Row] /\ Producer \in [Node -> SUBSET Node]
      /\ job \in JobRow
  BY LocalRunAssumption DEF TypeOK, JobRow
<1>1. new \in [Node -> Row] /\ node' = Spread(new) /\ cancel' = cancel
  BY DEF Move, Change
<1>2. /\ node' \in [Node -> Row]
      /\ \A m \in Node :
           /\ node'[m].owner = new[m].owner /\ node'[m].again = new[m].again
           /\ new[m].status \in {"running", "done", "failed"} => node'[m] = new[m]
           /\ node'[m].status \in {"running", "done", "failed"} => node'[m] = new[m]
           /\ node'[m].status = "ready" =>
                new[m].status = "ready" \/ \A p \in Producer[m] : new[p].status = "done"
  BY <1>1, SpreadKeeps
<1>3. ~Barred /\ ~Barred' /\ Barred' = Barred /\ ~AllDone
  BY <1>1 DEF TabInv, Barred, Move, AllDone
<1>4. ASSUME NEW m \in Node, node'[m].status \in {"ready", "running", "done"}, NEW p \in Producer[m]
      PROVE  node'[p].status = "done" \/ node'[p].again
  <2>0. p \in Node
    BY <1>0
  <2>1. new[p].status = "done" => node'[p].status = "done"
    BY <1>2, <2>0
  <2>2. CASE \A q \in Producer[m] : new[q].status = "done"
    BY <2>1, <2>2
  <2>3. CASE new[m].status \in {"ready", "running", "done"}
    <3>1. node[m].status \in {"ready", "running", "done"}
      BY <2>3 DEF Move
    <3>2. node[p].status = "done" \/ node[p].again
      BY <3>1, <2>0 DEF TabInv
    <3>3. new[p].status = "done" \/ new[p].again
      BY <2>0, <3>2 DEF Move
    <3> QED
      BY <2>0, <2>1, <3>3, <1>2
  <2> QED
    BY <1>2, <1>4, <2>2, <2>3
<1>5. /\ job' \in JobRow
      /\ job'.status = "completed" => AllDone'
  <2>1. Settled(node')
    BY <1>1 DEF Change
  <2>2. CASE ~Active
    BY <2>1, <2>2, <1>0, <1>3 DEF Settled, TabInv
  <2>3. CASE Active /\ \A m \in Node : node'[m].status = "done"
    <3>1. job' = [status |-> "completed", source |-> FALSE]
      BY <2>1, <2>3 DEF Settled
    <3> QED
      BY <2>3, <3>1 DEF AllDone, JobRow
  <2>4. CASE Active /\ ~\A m \in Node : node'[m].status = "done"
    <3>1. job' = [status |-> "failed", source |-> FALSE] \/ job' = job
      BY <2>1, <2>4 DEF Settled
    <3>2. job.status = "active"
      BY <2>4 DEF Active
    <3>3. job'.status # "completed"
      BY <3>1, <3>2
    <3>4. job' \in JobRow
      <4>1. [status |-> "failed", source |-> FALSE] \in JobRow
        BY DEF JobRow
      <4> QED
        BY <3>1, <4>1, <1>0
    <3> QED
      BY <3>3, <3>4
  <2> QED
    BY <2>2, <2>3, <2>4
<1>6. TabInv'
  BY <1>3, <1>4, <1>5 DEF TabInv
<1>7. ASSUME NEW m \in Node
      PROVE  /\ node'[m].owner = node[m].owner
             /\ Shut(m) => Shut(m)'
             /\ node'[m].status = "running" => node[m].status = "running"
             /\ node'[m].status = "done" => node[m].status = "done" \/ (m = n /\ new[n].status = "done")
             /\ m # n /\ node[m].status = "running" => node'[m].status = "running"
             /\ Barred => m # n
  BY <1>2, <1>3 DEF Move, Shut
<1> QED
  BY <1>1, <1>2, <1>3, <1>5, <1>6, <1>7

\* A step of the table that its runner takes, or the headnode for it.
LEMMA MoveIsMoves ==
  ASSUME TypeOK, TabInv, Owned, NEW r \in Runner, Leaves(r), NEW n \in Node, node[n].owner = r,
         NEW new, Move(n, new), Change(new), new[n].status = "done" => Succeeds(r, n)
  PROVE  TableMoves
<1>1. AllDone => AllDone'
  BY MoveKeeps
<1>2. node' \in [Node -> Row] /\ TabInv' /\ job' \in JobRow /\ cancel' \in CancelStep
  BY MoveKeeps DEF TypeOK, CancelStep
<1>3. ASSUME NEW m \in Node
      PROVE  /\ Shut(m) => Shut(m)'
             /\ node'[m].status \in {"running", "done"} => node'[m].owner # None
             /\ \A q \in Runner :
                  /\ DoneBy(q, m)' => DoneBy(q, m) \/ Succeeds(q, m)
                  /\ Occupied(q, m) => Occupied(q, m)' \/ Leaves(q)
                  /\ node'[m].owner = q => node[m].owner = q \/ run'[q].pc # "off"
  <2>1. /\ node'[m].owner = node[m].owner /\ Barred' = Barred
        /\ Shut(m) => Shut(m)'
        /\ node'[m].status = "running" => node[m].status = "running"
        /\ node'[m].status = "done" => node[m].status = "done" \/ (m = n /\ new[n].status = "done")
        /\ m # n /\ node[m].status = "running" => node'[m].status = "running"
        /\ Barred => m # n
    BY MoveKeeps
  <2>2. ~Barred
    BY <2>1, MoveKeeps DEF TabInv, Barred, Move
  <2>3. node'[m].status \in {"running", "done"} => node'[m].owner # None
    BY <2>1 DEF Owned, Move
  <2>4. ASSUME NEW q \in Runner
        PROVE  /\ DoneBy(q, m)' => DoneBy(q, m) \/ Succeeds(q, m)
               /\ Occupied(q, m) => Occupied(q, m)' \/ Leaves(q)
               /\ node'[m].owner = q => node[m].owner = q \/ run'[q].pc # "off"
    <3>1. DoneBy(q, m)' => DoneBy(q, m) \/ Succeeds(q, m)
      BY <2>1 DEF DoneBy
    <3>2. Occupied(q, m) => Occupied(q, m)' \/ Leaves(q)
      BY <2>1, <2>2 DEF Occupied, Runs
    <3> QED
      BY <2>1, <3>1, <3>2
  <2> QED
    BY <2>1, <2>3, <2>4
<1> QED
  BY <1>1, <1>2, <1>3 DEF TableMoves

\* A step that leaves the stages alone.
LEMMA TableStays ==
  ASSUME TypeOK, TabInv, Owned, node' = node, Barred' <=> Barred, job' \in JobRow, cancel' \in CancelStep,
         job'.status = "completed" => job.status = "completed"
  PROVE  TableMoves
<1>1. TabInv'
  BY DEF TabInv, AllDone
<1> QED
  BY <1>1 DEF TableMoves, TypeOK, Owned, AllDone, Shut, DoneBy, Occupied, Runs

\* A step that leaves the whole table alone.
LEMMA TableSame ==
  ASSUME TypeOK, TabInv, Owned, UNCHANGED table
  PROVE  TableMoves
<1>1. node' = node /\ job' = job /\ cancel' = cancel
  BY DEF table
<1>2. (Barred' <=> Barred) /\ job' \in JobRow /\ cancel' \in CancelStep
  BY <1>1 DEF Barred, TypeOK, JobRow, CancelStep
<1> QED
  BY <1>1, <1>2, TableStays

\* The stage of a runner that is gone goes back to the queue.
LEMMA RequeueMoves ==
  ASSUME TypeOK, TabInv, Owned, NEW r \in Runner, Requeued(r), Leaves(r)
  PROVE  TableMoves
<1>1. CASE run[r].node # None /\ Runs(r, run[r].node)
  <2> DEFINE n == run[r].node
             new == [node EXCEPT ![n].status = "ready"]
  <2>1. n \in Node /\ node \in [Node -> Row] /\ Runs(r, n)
    BY <1>1 DEF TypeOK, RunnerState
  <2>2. Change(new)
    BY <1>1 DEF Requeued
  <2>3. Move(n, new) /\ new[n].status = "ready"
    BY <2>1 DEF Move, Row, Runs
  <2>4. node[n].owner = r
    BY <2>1 DEF Runs
  <2> HIDE DEF new, n
  <2> QED
    BY <2>1, <2>2, <2>3, <2>4, MoveIsMoves
<1>2. CASE ~(run[r].node # None /\ Runs(r, run[r].node))
  <2>1. UNCHANGED table
    BY <1>2 DEF Requeued
  <2> QED
    BY <2>1, TableSame
<1> QED
  BY <1>1, <1>2

\* A row that is sent back.
LEMMA ReadyAgain ==
  ASSUME NEW x \in Row
  PROVE  LET y == [x EXCEPT !.status = "ready", !.again = TRUE]
         IN  y \in Row /\ y.owner = x.owner /\ y.status = "ready" /\ y.again
<1> DEFINE y == [x EXCEPT !.status = "ready", !.again = TRUE]
<1>1. y \in Row
  BY DEF Row
<1>2. y.owner = x.owner /\ y.status = "ready"
  BY DEF Row
<1>3. y.again
  BY DEF Row
<1> QED
  BY <1>1, <1>2, <1>3

\* The outcomes of a stage: a producer it sends back was done.
LEMMA OutcomeMoves ==
  ASSUME TypeOK, TabInv, NEW r \in Runner, NEW n \in Node, run[r].node = n, Runs(r, n), run[r].exit # "none",
         NEW new \in Outcomes(r)
  PROVE  Move(n, new) /\ (new[n].status = "done" => run[r].exit = "ok")
<1>1. /\ node \in [Node -> Row] /\ node[n].status = "running"
      /\ Producer \in [Node -> SUBSET Node] /\ n \notin Producer[n]
  BY LocalRunAssumption DEF TypeOK, Runs
<1>2. CASE run[r].exit = "ok"
  <2>1. new = [node EXCEPT ![n].status = "done"]
    BY <1>2 DEF Outcomes
  <2> QED
    BY <1>1, <1>2, <2>1 DEF Move, Row
<1>3. CASE run[r].exit = "bad"
  <2>1. new = [node EXCEPT ![n].status = "failed"]
    BY <1>3 DEF Outcomes
  <2> QED
    BY <1>1, <2>1 DEF Move, Row
<1>4. CASE run[r].exit \notin {"ok", "bad"}
  <2>1. PICK p \in Producer[n] :
          new = IF node[p].again THEN [node EXCEPT ![n].status = "failed"]
                ELSE [node EXCEPT ![n].status = "waiting", ![p].status = "ready", ![p].again = TRUE]
    BY <1>4 DEF Outcomes
  <2>2. p \in Node /\ p # n
    BY <1>1
  <2>3. CASE node[p].again
    <3>1. new = [node EXCEPT ![n].status = "failed"]
      BY <2>1, <2>3
    <3> QED
      BY <1>1, <1>4, <3>1 DEF Move, Row
  <2>4. CASE ~node[p].again
    <3>1. node[p].status = "done"
      BY <1>1, <2>2, <2>4 DEF TabInv
    <3>2. new = [node EXCEPT ![n].status = "waiting", ![p].status = "ready", ![p].again = TRUE]
      BY <2>1, <2>4
    <3>3. /\ new \in [Node -> Row]
          /\ new[n].owner = node[n].owner /\ new[n].status = "waiting" /\ new[n].again = node[n].again
          /\ new[p].owner = node[p].owner /\ new[p].status = "ready" /\ new[p].again
          /\ \A m \in Node \ {n, p} : new[m] = node[m]
      <4> DEFINE a == [node[n] EXCEPT !.status = "waiting"]
                 b == [node[p] EXCEPT !.status = "ready", !.again = TRUE]
      <4>1. a \in Row /\ a.owner = node[n].owner /\ a.status = "waiting" /\ a.again = node[n].again
        BY <1>1 DEF Row
      <4>2. b \in Row /\ b.owner = node[p].owner /\ b.status = "ready" /\ b.again
        BY <1>1, <2>2, ReadyAgain
      <4>3. /\ new = [m \in Node |-> new[m]]
            /\ \A m \in Node \ {n, p} : new[m] = node[m]
        <5> HIDE DEF a, b
        <5> QED
          BY <1>1, <2>2, <3>2
      <4>4. new[n] = a
        BY <1>1, <2>2, <3>2 DEF Row
      <4>5. new[p] = b
        BY <1>1, <2>2, <3>2 DEF Row
      <4> HIDE DEF a, b
      <4> QED
        BY <1>1, <2>2, <4>1, <4>2, <4>3, <4>5, <4>4
    <3>4. Move(n, new)
      BY <1>1, <2>2, <3>1, <3>3 DEF Move
    <3> QED
      BY <3>3, <3>4
  <2> QED
    BY <2>3, <2>4
<1> QED
  BY <1>2, <1>3, <1>4

\* A report, and the end of a process the headnode finds.
LEMMA ReportMoves ==
  ASSUME TypeOK, TabInv, Owned, NEW r \in Runner, RunnerOK(r), Report(r)
  PROVE  TableMoves
<1>0. run[r] \in RunnerState /\ run \in [Runner -> RunnerState]
  BY DEF TypeOK
<1>1. Leaves(r) /\ run[r].pc = "reporting" /\ run[r].node \in Node /\ run[r].exit # "none"
  BY <1>0 DEF Report, Leaves, RunnerOK, Busy, RunnerState
<1>2. CASE Runs(r, run[r].node)
  <2>1. PICK new \in Outcomes(r) : Change(new)
    BY <1>2 DEF Report
  <2>2. Move(run[r].node, new) /\ (new[run[r].node].status = "done" => run[r].exit = "ok")
    BY <1>1, <1>2, <2>1, OutcomeMoves
  <2>3. node[run[r].node].owner = r
    BY <1>2 DEF Runs
  <2>4. new[run[r].node].status = "done" => Succeeds(r, run[r].node)
    BY <1>1, <2>2 DEF Succeeds
  <2> QED
    BY <1>1, <2>1, <2>2, <2>3, <2>4, MoveIsMoves
<1>3. CASE ~Runs(r, run[r].node)
  <2>1. UNCHANGED table
    BY <1>3 DEF Report
  <2> QED
    BY <2>1, TableSame
<1> QED
  BY <1>2, <1>3

\* The headnode takes a stage back from a process that is gone.
LEMMA ReapMoves ==
  ASSUME TypeOK, TabInv, Owned, NEW n \in Node, Reap(n)
  PROVE  TableMoves
<1>1. /\ node \in [Node -> Row] /\ node[n].status = "running" /\ node[n].owner \in Runner
      /\ run[node[n].owner].pc = "dead" /\ run' = run
  BY DEF Reap, Owned, TypeOK, Row
<1>2. PICK new \in Freed(n) : Change(new)
  BY DEF Reap
<1>3. Move(n, new) /\ new[n].status # "done"
  BY <1>1, <1>2 DEF Freed, Move, Row
<1>4. Leaves(node[n].owner)
  BY <1>1 DEF Leaves, Busy
<1> QED
  BY <1>1, <1>2, <1>3, <1>4, MoveIsMoves

\* A ready stage is given to a runner.
LEMMA AskMoves ==
  ASSUME TypeOK, TabInv, Owned, NEW r \in Runner, Ask(r)
  PROVE  TableMoves
<1>0. node \in [Node -> Row] /\ run \in [Runner -> RunnerState] /\ r # None
  BY LocalRunAssumption DEF TypeOK
<1>1. CASE node' = node
  BY <1>1, TableSame DEF Ask, table
<1>2. ASSUME NEW n \in Node, node[n].status = "ready",
             node' = [node EXCEPT ![n] = [@ EXCEPT !.status = "running", !.owner = r]],
             run' = [run EXCEPT ![r] = [@ EXCEPT !.pc = "restoring", !.node = n]]
      PROVE  TableMoves
  <2>1. /\ ~Barred /\ ~Barred' /\ ~AllDone /\ job' = job
        /\ job' \in JobRow /\ cancel' \in CancelStep
    BY <1>2 DEF TabInv, Barred, AllDone, Ask, TypeOK, JobRow, CancelStep
  <2>2. /\ node' \in [Node -> Row] /\ node'[n].status = "running" /\ node'[n].owner = r
        /\ node'[n].again = node[n].again /\ \A m \in Node \ {n} : node'[m] = node[m]
    BY <1>0, <1>2 DEF Row
  <2>3. run'[r].pc = "restoring"
    BY <1>0, <1>2 DEF RunnerState
  <2>4. TabInv'
    <3>1. ASSUME NEW m \in Node, node'[m].status \in {"ready", "running", "done"}, NEW p \in Producer[m]
          PROVE  node'[p].status = "done" \/ node'[p].again
      <4>1. p \in Node
        BY LocalRunAssumption
      <4>2. node[p].status = "done" \/ node[p].again
        BY <1>2, <2>2, <3>1 DEF TabInv
      <4> QED
        BY <1>2, <2>2, <4>1, <4>2
    <3>2. job'.status # "completed"
      BY <2>1 DEF TabInv
    <3> QED
      BY <2>1, <3>1, <3>2 DEF TabInv
  <2>5. ASSUME NEW m \in Node
        PROVE  /\ Shut(m) => Shut(m)'
               /\ node'[m].status \in {"running", "done"} => node'[m].owner # None
    BY <1>0, <1>2, <2>1, <2>2 DEF Shut, Owned
  <2>6. ASSUME NEW m \in Node, NEW q \in Runner
        PROVE  /\ DoneBy(q, m)' => DoneBy(q, m) \/ Succeeds(q, m)
               /\ Occupied(q, m) => Occupied(q, m)' \/ Leaves(q)
               /\ node'[m].owner = q => node[m].owner = q \/ run'[q].pc # "off"
    BY <1>2, <2>1, <2>2, <2>3 DEF DoneBy, Occupied, Runs
  <2> QED
    BY <2>1, <2>2, <2>4, <2>5, <2>6 DEF TableMoves
<1> QED
  BY <1>1, <1>2 DEF Ask

\* A cancel blocks every stage that is not done.
LEMMA BlockMoves ==
  ASSUME TypeOK, TabInv, Owned, CancelBlock
  PROVE  TableMoves
<1>0. node \in [Node -> Row]
  BY DEF TypeOK
<1>1. /\ Barred' /\ job' = job /\ job' \in JobRow /\ cancel' \in CancelStep
      /\ node' = [n \in Node |-> IF node[n].status = "done" THEN node[n] ELSE [node[n] EXCEPT !.status = "blocked"]]
  BY DEF CancelBlock, Barred, TypeOK, JobRow, CancelStep
<1>2. /\ node' \in [Node -> Row]
      /\ \A n \in Node : /\ node[n].status = "done" => node'[n] = node[n]
                         /\ node[n].status # "done" => node'[n].status = "blocked"
                         /\ node'[n].owner = node[n].owner /\ node'[n].again = node[n].again
  BY <1>0, <1>1 DEF Row
<1>3. AllDone => AllDone'
  BY <1>2 DEF AllDone
<1>4. TabInv'
  <2>1. ASSUME NEW m \in Node, node'[m].status \in {"ready", "running", "done"}, NEW p \in Producer[m]
        PROVE  node'[p].status = "done" \/ node'[p].again
    <3>1. p \in Node
      BY LocalRunAssumption
    <3> QED
      BY <1>2, <2>1, <3>1 DEF TabInv
  <2>2. \A n \in Node : node'[n].status \in {"done", "blocked"}
    BY <1>2
  <2>3. job'.status = "completed" => AllDone'
    BY <1>1, <1>3 DEF TabInv
  <2> QED
    BY <2>1, <2>2, <2>3 DEF TabInv
<1>5. ASSUME NEW m \in Node
      PROVE  /\ Shut(m) => Shut(m)'
             /\ node'[m].status \in {"running", "done"} => node'[m].owner # None
  BY <1>1, <1>2 DEF Shut, Owned
<1>6. ASSUME NEW m \in Node, NEW q \in Runner
      PROVE  /\ DoneBy(q, m)' => DoneBy(q, m) \/ Succeeds(q, m)
             /\ Occupied(q, m) => Occupied(q, m)' \/ Leaves(q)
             /\ node'[m].owner = q => node[m].owner = q \/ run'[q].pc # "off"
  BY <1>1, <1>2 DEF DoneBy, Occupied, Runs
<1> QED
  BY <1>1, <1>2, <1>3, <1>4, <1>5, <1>6 DEF TableMoves

-----------------------------------------------------------------------------
(* What steps have in common.                                              *)

\* r does not move; a worker may have been told to kill it.
Same(r) ==
  /\ run'[r].pc = run[r].pc /\ run'[r].host = run[r].host /\ run'[r].node = run[r].node
  /\ run'[r].ws = run[r].ws /\ run'[r].exit = run[r].exit /\ run'[r].rec = run[r].rec

\* No archive disappears from where it is, but for the results of a job that
\* the client has fetched.
StoreMoves ==
  /\ \A n \in Node : Backed(n) => Backed(n)'
  /\ \A w \in Worker, n \in Node : arch[w][n].by # None => arch'[w][n].by # None

\* What a move of r leaves true of the archives it wrote of n.
Keeps(r, n) ==
  /\ Ending(r) => Ending(r)'
  /\ run[r].pc = "dead" => run'[r].pc = "dead"
  /\ BadTry(r, n) => BadTry(r, n)' \/ Ending(r)' \/ Shut(n)'
  /\ Held(r, n) => Held(r, n)'
  /\ \/ run'[r].ws[n] = run[r].ws[n] \/ run'[r].ws[n].by # r
     \/ run'[r].pc = "dead" \/ ~(Ending(r) \/ BadTry(r, n))

\* The empty archive of nobody.
LEMMA NothingIsGood ==
  ASSUME NEW n \in Node
  PROVE  Good(Nothing, n)
BY LocalRunAssumption DEF Nothing, Good

\* A good archive stays good when every runner keeps what it has to: one that
\* could not report its stage any more cannot report it afterwards either.
LEMMA GoodKept ==
  ASSUME TableMoves, NEW n \in Node, \A r \in Runner : Keeps(r, n), NEW a, Good(a, n)
  PROVE  Good(a, n)'
<1>1. ASSUME NEW r \in Runner, a.by = r
      PROVE  /\ Held(r, n)'
             /\ a.level < Whole => Spent(r, n)' /\ LastWord(r, n, a)'
  <2>1. Held(r, n) /\ (a.level < Whole => Spent(r, n) /\ LastWord(r, n, a))
    BY <1>1 DEF Good
  <2>2. Keeps(r, n)
    OBVIOUS
  <2>3. Held(r, n)'
    BY <2>1, <2>2 DEF Keeps
  <2>4. ASSUME a.level < Whole
        PROVE  Spent(r, n)' /\ LastWord(r, n, a)'
    <3>0. Spent(r, n) /\ LastWord(r, n, a)
      BY <2>1, <2>4
    <3>1. CASE Shut(n)
      BY <3>1 DEF TableMoves, Spent, LastWord
    <3>2. CASE ~Shut(n)
      <4>1. ~DoneBy(r, n) /\ (Ending(r) \/ BadTry(r, n))
        BY <3>0, <3>2 DEF Spent
      <4>2. ~DoneBy(r, n)'
        <5>1. ~Succeeds(r, n)
          BY <4>1 DEF Succeeds, Ending, BadTry
        <5> QED
          BY <4>1, <5>1 DEF TableMoves
      <4>3. Ending(r)' \/ BadTry(r, n)' \/ Shut(n)'
        BY <4>1, <2>2 DEF Keeps
      <4>4. Spent(r, n)'
        BY <4>2, <4>3 DEF Spent
      <4>5. run[r].pc = "dead" \/ (run[r].ws[n].by = r => run[r].ws[n] = a)
        BY <3>0, <3>2 DEF LastWord
      <4>6. /\ run[r].pc = "dead" => run'[r].pc = "dead"
            /\ run'[r].ws[n] = run[r].ws[n] \/ run'[r].ws[n].by # r \/ run'[r].pc = "dead"
        BY <4>1, <2>2 DEF Keeps
      <4>7. LastWord(r, n, a)'
        BY <4>5, <4>6 DEF LastWord
      <4> QED
        BY <4>4, <4>7
    <3> QED
      BY <3>1, <3>2
  <2> QED
    BY <2>3, <2>4
<1>2. a.by = None => a = Nothing
  BY DEF Good
<1> QED
  BY <1>1, <1>2 DEF Good

\* A runner that does not move keeps what it has to.
LEMMA SameKeeps ==
  ASSUME StoreMoves, NEW r \in Runner, Same(r), NEW n \in Node
  PROVE  Keeps(r, n)
<1>1. Ending(r)' = Ending(r) /\ BadTry(r, n)' = BadTry(r, n) /\ Owes(r, n)' = Owes(r, n)
  BY DEF Same, Ending, BadTry, Owes
<1>2. Backed(n) => Backed(n)'
  BY DEF StoreMoves
<1> QED
  BY <1>1, <1>2 DEF Keeps, Held, Same

\* It stays as it has to be, whatever the others do.
LEMMA SameOK ==
  ASSUME TypeOK, TableMoves, StoreMoves, NEW r \in Runner, RunnerOK(r), Same(r)
  PROVE  RunnerOK(r)'
<1>0. run[r] \in RunnerState /\ r # None
  BY LocalRunAssumption DEF TypeOK
<1>1. run[r].pc # "off" => run[r].host \in Worker
  BY DEF RunnerOK
<1>2. /\ run'[r].pc # "off" => run'[r].host \in Worker
      /\ run'[r].pc = "sending" => run'[r].rec = run'[r].node
      /\ run'[r].pc \in {"saving", "sending"} => run'[r].exit \in {"ok", "bad"}
      /\ run'[r].pc = "reporting" => run'[r].exit # "none"
      /\ run'[r].pc \in {"saving", "sending", "reporting"} /\ run'[r].exit \in {"ok", "bad"} =>
           run'[r].ws[run'[r].node].by # None
  BY DEF Same, RunnerOK
<1>3. run'[r].pc \in {"sending", "parting", "rescuing"} =>
        run'[r].rec # None /\ arch'[run'[r].host][run'[r].rec].by # None
  <2>1. ASSUME run[r].pc \in {"sending", "parting", "rescuing"}
        PROVE  run[r].rec # None /\ arch'[run[r].host][run[r].rec].by # None
    <3>1. run[r].rec \in Node /\ arch[run[r].host][run[r].rec].by # None /\ run[r].host \in Worker
      BY <1>0, <1>1, <2>1 DEF RunnerOK, RunnerState
    <3> QED
      BY <3>1, LocalRunAssumption DEF StoreMoves
  <2> QED
    BY <2>1 DEF Same
<1>4. run'[r].pc \in Busy => run'[r].node # None /\ Occupied(r, run[r].node)'
  <2>1. ASSUME run[r].pc \in Busy, NEW n \in Node, n = run[r].node
        PROVE  Occupied(r, n)'
    <3>1. Occupied(r, n)
      BY <2>1 DEF RunnerOK
    <3>2. ~Leaves(r)
      BY <2>1 DEF Leaves, Same
    <3> QED
      BY <3>1, <3>2 DEF TableMoves
  <2>2. run[r].pc \in Busy => run[r].node \in Node
    BY <1>0 DEF RunnerOK, RunnerState
  <2> QED
    BY <2>1, <2>2, LocalRunAssumption DEF Same, Occupied, Runs
<1>5. /\ run'[r].pc \in {"working", "saving"} =>
           run'[r].rec = run'[r].node \/ (run'[r].rec = None /\ Backed(run[r].node)')
      /\ run'[r].pc = "reporting" /\ run'[r].exit \in {"ok", "bad"} => Backed(run[r].node)'
  <2>1. run[r].pc \in {"working", "saving", "reporting"} => run[r].node \in Node
    BY <1>0 DEF RunnerOK, RunnerState, Busy
  <2>2. ASSUME NEW n \in Node, run[r].node = n, Backed(n)
        PROVE  Backed(n)'
    BY <2>2 DEF StoreMoves
  <2> QED
    BY <2>1, <2>2 DEF Same, Backed, RunnerOK
<1>6. ASSUME NEW n \in Node
      PROVE  /\ node'[n].owner = r => run'[r].pc # "off"
             /\ DoneBy(r, n)' /\ run'[r].pc # "dead" => run'[r].ws[n].by # None
  <2>1. node'[n].owner = r => run'[r].pc # "off"
    BY DEF TableMoves, RunnerOK, Same
  <2>2. DoneBy(r, n)' => DoneBy(r, n) \/ Succeeds(r, n)
    BY DEF TableMoves
  <2>3. Succeeds(r, n) => run[r].ws[n].by # None
    BY DEF Succeeds, RunnerOK
  <2> QED
    BY <2>1, <2>2, <2>3 DEF RunnerOK, Same
<1> QED
  BY <1>2, <1>3, <1>4, <1>5, <1>6 DEF RunnerOK, Occupied, Runs, Backed, Barred

\* A stage that becomes done was reported by a runner whose outputs are in.
LEMMA OwnedKept ==
  ASSUME TypeOK, Owned, \A r \in Runner : RunnerOK(r), TableMoves, StoreMoves
  PROVE  Owned'
<1> SUFFICES ASSUME NEW n \in Node
             PROVE  /\ node'[n].status \in {"running", "done"} => node'[n].owner # None
                    /\ node'[n].status = "done" => Backed(n)'
  BY DEF Owned
<1>1. node'[n].status \in {"running", "done"} => node'[n].owner # None
  BY DEF TableMoves
<1>2. ASSUME node'[n].status = "done"
      PROVE  Backed(n)
  <2>1. PICK r \in Runner : node'[n].owner = r
    BY <1>1, <1>2 DEF TableMoves, Row
  <2>2. DoneBy(r, n) \/ Succeeds(r, n)
    BY <1>2, <2>1 DEF TableMoves, DoneBy
  <2> QED
    BY <2>2 DEF DoneBy, Owned, Succeeds, RunnerOK
<1> QED
  BY <1>1, <1>2 DEF StoreMoves

\* A step of the headnode or of runners: those that move keep what they have
\* to, and what is not a copy of an archive is good.
LEMMA StepOK ==
  ASSUME IInv, TypeOK', TableMoves, StoreMoves, Marked', client' = client, project' = project,
         \A r \in Runner : Same(r) \/ (RunnerOK(r)' /\ \A n \in Node : Keeps(r, n)),
         \A n \in Node : \A a \in Archive : Copy(a, n)' => Copy(a, n) \/ Good(a, n)'
  PROVE  IInv'
<1> USE DEF IInv
<1>1. \A n \in Node, r \in Runner : Keeps(r, n)
  BY SameKeeps
<1>2. AllGood'
  <2> SUFFICES ASSUME NEW n \in Node, NEW a \in Archive, Copy(a, n)'
               PROVE  Good(a, n)'
    BY DEF AllGood
  <2>1. CASE Copy(a, n)
    <3>1. Good(a, n)
      BY <2>1 DEF AllGood
    <3> QED
      BY <1>1, <3>1, GoodKept
  <2> QED
    BY <2>1
<1>3. \A r \in Runner : RunnerOK(r)'
  BY SameOK
<1>4. Owned'
  BY OwnedKept
<1>5. ClientInv'
  BY DEF ClientInv, TableMoves, At
<1>6. TabInv'
  BY DEF TableMoves
<1> QED
  BY <1>2, <1>3, <1>4, <1>5, <1>6

\* r answers for a mark on w: it has saved the archive, and has not sent it.
AnswersFor(r, w, n) ==
  /\ run[r].host = w /\ run[r].rec = n
  /\ run[r].pc \in {"sending", "closing", "parting", "stopped", "rescuing", "dead"}

\* The headnode's archives: uploads of what a worker has.
HubMoves ==
  /\ hub' \in [Node -> Archive]
  /\ \A n \in Node : hub'[n] = hub[n] \/ \E w \in Worker : hub'[n] = arch[w][n] /\ arch[w][n].by # None

\* Every mark has its record, as long as those who answer for it go on to.
LEMMA RecordedKept ==
  ASSUME Recorded,
         \A w \in Worker : \A n \in pend'[w] :
           \/ n \in pend[w] /\ \A r \in Runner : AnswersFor(r, w, n) => AnswersFor(r, w, n)'
           \/ \E r \in Runner : AnswersFor(r, w, n)'
  PROVE  Recorded'
BY DEF Recorded, AnswersFor

\* A step of one runner that saves no archive.
LEMMA RunStep ==
  ASSUME IInv, NEW r \in Runner, NEW u \in RunnerState, run' = [run EXCEPT ![r] = u],
         TableMoves, HubMoves, arch' = arch,
         pend' \in [Worker -> SUBSET Node], \A w \in Worker : pend'[w] \subseteq pend[w],
         snap' \subseteq Worker, client' = client, project' = project, file' = file, faults' \in 0..MaxFaults,
         \A w \in Worker : \A n \in pend'[w] : AnswersFor(r, w, n) => AnswersFor(r, w, n)',
         RunnerOK(r)',
         \A n \in Node : Keeps(r, n) /\ (u.ws[n] = run[r].ws[n] \/ Good(u.ws[n], n)')
  PROVE  IInv'
<1> USE DEF IInv
<1>0. run \in [Runner -> RunnerState] /\ run' \in [Runner -> RunnerState]
  BY DEF TypeOK
<1>1. run'[r] = u /\ \A s \in Runner \ {r} : run'[s] = run[s]
  BY <1>0
<1>2. StoreMoves
  BY DEF StoreMoves, HubMoves, Backed
<1>3. Recorded'
  <2>1. ASSUME NEW w \in Worker, NEW n \in pend'[w], NEW s \in Runner, AnswersFor(s, w, n)
        PROVE  AnswersFor(s, w, n)'
    <3>1. CASE s = r
      BY <2>1, <3>1
    <3>2. CASE s # r
      BY <1>1, <2>1, <3>2 DEF AnswersFor
    <3> QED
      BY <3>1, <3>2
  <2>2. Recorded
    BY DEF TypeOK
  <2> QED
    BY <2>1, <2>2, RecordedKept
<1>4. TypeOK'
  BY <1>0, <1>3 DEF TypeOK, TableMoves, HubMoves, JobRow, CancelStep
<1>5. Marked'
  BY DEF Marked
<1>6. \A s \in Runner : Same(s) \/ (RunnerOK(s)' /\ \A n \in Node : Keeps(s, n))
  BY <1>1 DEF Same
<1>7. ASSUME NEW n \in Node, NEW a \in Archive, Copy(a, n)'
      PROVE  Copy(a, n) \/ Good(a, n)'
  BY <1>1, <1>7 DEF Copy, HubMoves
<1> QED
  BY <1>2, <1>4, <1>5, <1>6, <1>7, StepOK

\* A runner that holds nothing.
LEMMA IdleType ==
  /\ Idle \in RunnerState
  /\ Idle.ws = [n \in Node |-> Nothing] /\ Idle.node = None /\ Idle.exit = "none" /\ Idle.rec = None
<1>1. Nothing \in Archive
  BY DEF Nothing, Archive, Whole
<1>2. [n \in Node |-> Nothing] \in [Node -> Archive]
  BY <1>1
<1> QED
  BY <1>2 DEF Idle, RunnerState, Pc

\* The end of a runner's process.  It leaves its record, or has no mark left.
LEMMA DeathStep ==
  ASSUME IInv, NEW r \in Runner, run[r].pc # "off", NEW x, run' = Over(r, x),
         \/ x = run[r].rec
         \/ x = None /\ (run[r].rec # None => run[r].rec \notin pend'[run[r].host]),
         TableMoves, HubMoves, arch' = arch,
         pend' \in [Worker -> SUBSET Node], \A w \in Worker : pend'[w] \subseteq pend[w],
         snap' \subseteq Worker, client' = client, project' = project, file' = file, faults' \in 0..MaxFaults
  PROVE  IInv'
<1> USE DEF IInv
<1>0. run \in [Runner -> RunnerState] /\ run[r] \in RunnerState /\ run[r].host \in Worker /\ r # None
  BY LocalRunAssumption DEF TypeOK, RunnerOK
<1>1. PICK u : u = [Idle EXCEPT !.pc = "dead", !.host = run[r].host, !.rec = x] /\ run' = [run EXCEPT ![r] = u]
  BY DEF Over
<1>2. u \in RunnerState
  <2>1. x \in Node \cup {None}
    BY <1>0 DEF RunnerState
  <2> QED
    BY <1>0, <1>1, <2>1, IdleType DEF RunnerState, Pc
<1>3. u.pc = "dead" /\ u.host = run[r].host /\ u.rec = x /\ u.ws = [n \in Node |-> Nothing]
  BY <1>1, IdleType DEF RunnerState
<1>4. run'[r] = u
  BY <1>0, <1>1
<1>5. RunnerOK(r)'
  BY <1>0, <1>3, <1>4 DEF RunnerOK, Busy
<1>6. ASSUME NEW n \in Node
      PROVE  Keeps(r, n) /\ (u.ws[n] = run[r].ws[n] \/ Good(u.ws[n], n)')
  <2>1. Good(u.ws[n], n)'
    <3>1. u.ws[n] = Nothing
      BY <1>3
    <3>2. Good(Nothing, n)'
      BY LocalRunAssumption DEF Nothing, Good
    <3> QED
      BY <3>1, <3>2
  <2>2. Keeps(r, n)
    BY <1>3, <1>4 DEF Keeps, Ending, Held
  <2> QED
    BY <2>1, <2>2
<1>7. ASSUME NEW w \in Worker, NEW n \in pend'[w], AnswersFor(r, w, n)
      PROVE  AnswersFor(r, w, n)'
  BY <1>0, <1>3, <1>4, <1>7, LocalRunAssumption DEF AnswersFor
<1> HIDE DEF IInv
<1> QED
  BY <1>1, <1>2, <1>5, <1>6, <1>7, RunStep

-----------------------------------------------------------------------------
(* The steps, one by one: first those of the headnode and of runners.      *)

\* Faults are counted.
LEMMA FaultBound ==
  ASSUME TypeOK, Fault
  PROVE  faults' \in 0..MaxFaults
BY LocalRunAssumption DEF TypeOK, Fault

\* The headnode's archives when none is uploaded.
LEMMA HubSame ==
  ASSUME TypeOK, hub' = hub
  PROVE  HubMoves
BY DEF TypeOK, HubMoves

\* What an upload leaves on the headnode.
LEMMA HubReceived ==
  ASSUME TypeOK, NEW w \in Worker, NEW n \in Node, arch[w][n].by # None, Received(w, n)
  PROVE  HubMoves /\ hub'[n] = arch[w][n] /\ Backed(n)'
BY DEF TypeOK, HubMoves, Received, Backed

\* An upload of q's archive, when there is one.
LEMMA SentMoves ==
  ASSUME TypeOK, NEW q \in Runner, run[q].host \in Worker, run[q].rec \in Node,
         arch[run[q].host][run[q].rec].by # None, Sent(q)
  PROVE  /\ HubMoves /\ arch' = arch /\ snap' = snap /\ faults' = faults
         /\ hub'[run[q].rec] = arch[run[q].host][run[q].rec] /\ hub'[run[q].rec].by # None
         /\ pend' = [pend EXCEPT ![run[q].host] = @ \ {run[q].rec}]
         /\ pend' \in [Worker -> SUBSET Node] /\ \A w \in Worker : pend'[w] \subseteq pend[w]
         /\ run[q].rec \notin pend'[run[q].host]
<1>1. HubMoves /\ hub'[run[q].rec] = arch[run[q].host][run[q].rec]
  BY HubReceived DEF Sent
<1>2. pend' = [pend EXCEPT ![run[q].host] = @ \ {run[q].rec}] /\ pend \in [Worker -> SUBSET Node]
  BY DEF Sent, TypeOK
<1> QED
  BY <1>1, <1>2 DEF Sent

\* An upload that fails, before the headnode has the archive or after.
LEMMA NotSentMoves ==
  ASSUME TypeOK, NEW q \in Runner, run[q].host \in Worker, run[q].rec \in Node,
         arch[run[q].host][run[q].rec].by # None, NotSent(q)
  PROVE  /\ HubMoves /\ arch' = arch /\ snap' = snap /\ faults' \in 0..MaxFaults
         /\ pend' = pend /\ pend' \in [Worker -> SUBSET Node]
BY HubSame, HubReceived, FaultBound DEF NotSent, shelf, TypeOK

\* What is locked for an upload has been archived.
LEMMA Archived1 ==
  ASSUME IInv, NEW r \in Runner, run[r].pc \in {"sending", "parting", "rescuing"}
  PROVE  run[r].host \in Worker /\ run[r].rec \in Node /\ arch[run[r].host][run[r].rec].by # None
BY DEF IInv, RunnerOK, TypeOK, RunnerState

\* The same for a record whose mark a booting runner finds.
LEMMA Archived2 ==
  ASSUME IInv, NEW r \in Runner, run[r].pc # "off", NEW q \in Unsent(r)
  PROVE  /\ q \in Runner /\ run[q].host = run[r].host
         /\ run[q].host \in Worker /\ run[q].rec \in Node /\ arch[run[q].host][run[q].rec].by # None
BY DEF IInv, RunnerOK, TypeOK, RunnerState, Unsent, Marked

\* A runner is killed and leaves its record.
LEMMA KilledStep ==
  ASSUME IInv, NEW r \in Runner, run[r].pc # "off", run' = Dead(r), UNCHANGED <<table, hub, shelf, user>>,
         faults' \in 0..MaxFaults
  PROVE  IInv'
<1>1. PICK x : x = run[r].rec /\ run' = Over(r, x)
  BY DEF Dead
<1>2. TableMoves /\ HubMoves
  BY TableSame, HubSame DEF IInv
<1> QED
  BY <1>1, <1>2, DeathStep DEF shelf, user, IInv, TypeOK

\* A runner is killed for memory, or its machine drops it.
LEMMA CrashOK ==
  ASSUME IInv, NEW r \in Runner, Crash(r)
  PROVE  IInv'
BY KilledStep, FaultBound DEF Crash, Alive, Gone, IInv

\* The kill that follows a cancel preserves nothing either.
LEMMA CancelKillOK ==
  ASSUME IInv, NEW r \in Runner, CancelKill(r)
  PROVE  IInv'
<1>1. faults' \in 0..MaxFaults
  BY DEF CancelKill, IInv, TypeOK
<1> QED
  BY <1>1, KilledStep DEF CancelKill, Gone

\* The uploads of a runner that leaves, and its end.
LEMMA PartOK ==
  ASSUME IInv, NEW r \in Runner, Part(r)
  PROVE  IInv'
<1>1. /\ run[r].pc = "parting" /\ TypeOK /\ TableMoves /\ client' = client /\ project' = project /\ file' = file
      /\ snap \subseteq Worker /\ faults \in 0..MaxFaults
  BY TableSame DEF Part, user, IInv, TypeOK
<1>2. run[r].host \in Worker /\ run[r].rec \in Node /\ arch[run[r].host][run[r].rec].by # None
  BY <1>1, Archived1
<1>3. CASE Sent(r) /\ run' = Parted(r)
  BY <1>1, <1>2, <1>3, SentMoves, DeathStep DEF Parted
<1>4. CASE NotSent(r) /\ run' = Dead(r)
  <2>1. PICK x : x = run[r].rec /\ run' = Over(r, x)
    BY <1>4 DEF Dead
  <2> QED
    BY <1>1, <1>2, <1>4, <2>1, NotSentMoves, DeathStep
<1> QED
  BY <1>3, <1>4 DEF Part

\* A step of the headnode: at most a worker is told to kill a runner.
LEMMA CancelSteps ==
  ASSUME IInv, TableMoves, UNCHANGED <<hub, shelf, user>>, faults' \in 0..MaxFaults,
         run' \in [Runner -> RunnerState], \A r \in Runner : Same(r)
  PROVE  IInv'
<1> USE DEF IInv
<1>1. arch' = arch /\ pend' = pend /\ snap' = snap /\ client' = client /\ project' = project /\ file' = file /\ hub' = hub
  BY DEF shelf, user
<1>2. Recorded'
  BY <1>1, RecordedKept DEF TypeOK, AnswersFor, Same
<1>3. TypeOK'
  BY <1>1, <1>2 DEF TypeOK, TableMoves, JobRow, CancelStep
<1>4. StoreMoves /\ Marked'
  BY <1>1 DEF StoreMoves, Marked, Backed
<1>5. ASSUME NEW n \in Node, NEW a \in Archive, Copy(a, n)'
      PROVE  Copy(a, n) \/ Good(a, n)'
  BY <1>1, <1>5 DEF Copy, Same
<1> QED
  BY <1>1, <1>3, <1>4, <1>5, StepOK

\* The steps of a cancel, the end of a job that has used up its runners, and the
\* end of a process the headnode finds.
LEMMA HeadnodeOK ==
  ASSUME IInv, Headnode
  PROVE  IInv'
<1> USE DEF IInv
<1>0. run \in [Runner -> RunnerState] /\ faults \in 0..MaxFaults
  BY DEF TypeOK
<1>1. CASE CancelNotify
  <2>1. PICK told \in SUBSET Worker :
          /\ run' = [r \in Runner |-> IF Alive(r) /\ run[r].host \in told THEN [run[r] EXCEPT !.doomed = TRUE] ELSE run[r]]
          /\ IF told = Worker THEN UNCHANGED faults ELSE Fault
    BY <1>1 DEF CancelNotify
  <2>2. ASSUME NEW r \in Runner
        PROVE  run'[r] \in RunnerState /\ Same(r)
    BY <1>0, <2>1 DEF RunnerState, Same
  <2>3. faults' \in 0..MaxFaults
    BY <1>0, <2>1, FaultBound
  <2>4. node' = node /\ job' = job /\ cancel = "notify" /\ cancel' = "block" /\ UNCHANGED <<hub, shelf, user>>
    BY <1>1 DEF CancelNotify, user
  <2>5. (Barred' <=> Barred) /\ job' \in JobRow /\ cancel' \in CancelStep
    BY <2>4 DEF Barred, TypeOK, JobRow, CancelStep
  <2>6. TableMoves
    BY <2>4, <2>5, TableStays
  <2>7. run' \in [Runner -> RunnerState]
    BY <2>1, <2>2
  <2> HIDE DEF IInv
  <2> QED
    BY <2>2, <2>3, <2>4, <2>6, <2>7, CancelSteps
<1>2. ASSUME run' = run
      PROVE  run' \in [Runner -> RunnerState] /\ \A r \in Runner : Same(r)
  BY <1>0, <1>2 DEF Same
<1>3. CASE CancelBlock
  <2>1. UNCHANGED <<hub, shelf, user>> /\ faults' \in 0..MaxFaults /\ run' = run
    BY <1>0, <1>3 DEF CancelBlock
  <2>2. TableMoves
    BY <1>3, BlockMoves
  <2> HIDE DEF IInv
  <2> QED
    BY <1>2, <2>1, <2>2, CancelSteps
<1>4. CASE CancelWrite \/ RunOut
  <2>1. UNCHANGED <<hub, shelf, user>> /\ faults' \in 0..MaxFaults /\ run' = run
    BY <1>0, <1>4 DEF CancelWrite, RunOut
  <2>2. node' = node /\ job' = [status |-> "failed", source |-> FALSE]
    BY <1>4 DEF CancelWrite, RunOut
  <2>3. (Barred' <=> Barred) /\ cancel' \in CancelStep
    BY <1>4 DEF CancelWrite, RunOut, Barred, CancelStep, TypeOK
  <2>4. job' \in JobRow /\ job'.status # "completed"
    BY <2>2 DEF JobRow
  <2>5. TableMoves
    BY <2>2, <2>3, <2>4, TableStays
  <2> HIDE DEF IInv
  <2> QED
    BY <1>2, <2>1, <2>5, CancelSteps
<1>5. ASSUME NEW n \in Node, Reap(n)
      PROVE  IInv'
  <2>1. UNCHANGED <<hub, shelf, user>> /\ faults' \in 0..MaxFaults /\ run' = run
    BY <1>0, <1>5 DEF Reap
  <2>2. TableMoves
    BY <1>5, ReapMoves
  <2> HIDE DEF IInv
  <2> QED
    BY <1>2, <2>1, <2>2, CancelSteps
<1> QED
  BY <1>1, <1>3, <1>4, <1>5 DEF Headnode

\* A runner has the outputs of a stage as long as the stage is done by it.
LEMMA OwnerPart ==
  ASSUME IInv, TableMoves, NEW r \in Runner, run[r].pc \notin {"off", "dead"}, run'[r].pc # "off",
         \A n \in Node : run[r].ws[n].by # None => run'[r].ws[n].by # None
  PROVE  \A n \in Node : /\ node'[n].owner = r => run'[r].pc # "off"
                         /\ DoneBy(r, n)' /\ run'[r].pc # "dead" => run'[r].ws[n].by # None
<1> SUFFICES ASSUME NEW n \in Node, DoneBy(r, n)', run'[r].pc # "dead"
             PROVE  run[r].ws[n].by # None
  OBVIOUS
<1>1. CASE DoneBy(r, n)
  BY <1>1 DEF IInv, RunnerOK
<1>2. CASE Succeeds(r, n)
  BY <1>2 DEF Succeeds, IInv, RunnerOK
<1> QED
  BY <1>1, <1>2 DEF TableMoves

\* A runner starts with an empty working copy.
LEMMA StartOK ==
  ASSUME IInv, NEW r \in Runner, NEW w \in Worker, Start(r, w)
  PROVE  IInv'
<1>0. /\ TableMoves /\ HubMoves /\ run[r].pc = "off" /\ UNCHANGED <<hub, shelf, user, faults>>
      /\ run \in [Runner -> RunnerState]
  BY TableSame, HubSame DEF Start, IInv, TypeOK
<1>1. PICK u : u = [Idle EXCEPT !.pc = "booting", !.host = w] /\ run' = [run EXCEPT ![r] = u]
  BY DEF Start
<1>2. u \in RunnerState /\ u.pc = "booting" /\ u.host = w /\ u.ws = [n \in Node |-> Nothing] /\ run'[r] = u
  BY <1>0, <1>1, IdleType DEF RunnerState, Pc
<1>3. RunnerOK(r)'
  <2>1. \A n \in Node : node[n].owner # r
    BY <1>0 DEF IInv, RunnerOK
  <2>2. \A n \in Node : ~DoneBy(r, n)'
    BY <1>0, <2>1 DEF TableMoves, DoneBy, Succeeds
  <2> QED
    BY <1>2, <2>2 DEF RunnerOK, Busy
<1>4. ASSUME NEW n \in Node
      PROVE  Keeps(r, n) /\ Good(u.ws[n], n)'
  <2>1. Keeps(r, n)
    BY <1>0 DEF Keeps, Ending, BadTry, Held, Owes, shelf, user, Backed
  <2>2. Good(Nothing, n)'
    BY LocalRunAssumption DEF Nothing, Good
  <2> QED
    BY <1>2, <2>1, <2>2
<1> QED
  BY <1>0, <1>1, <1>2, <1>3, <1>4, RunStep DEF shelf, user, AnswersFor, IInv, TypeOK

\* A step of a runner that leaves its archives and the marks alone: it changes
\* its pc, the stage it has, what it has to report.
LEMMA TurnStep ==
  ASSUME IInv, NEW r \in Runner, run[r].pc \notin {"off", "dead"},
         NEW u \in RunnerState, run' = [run EXCEPT ![r] = u],
         u.host = run[r].host, u.rec = run[r].rec, u.ws = run[r].ws, u.pc \notin {"off", "dead"},
         TableMoves, HubMoves, arch' = arch, pend' = pend, snap' \subseteq Worker, UNCHANGED user,
         faults' \in 0..MaxFaults,
         Ending(r) \/ run[r].pc = "sending" => u.pc \in {"closing", "parting", "stopped", "rescuing"},
         \A n \in Node : /\ BadTry(r, n) => BadTry(r, n)' \/ Ending(r)' \/ Shut(n)'
                         /\ Owes(r, n) => Owes(r, n)' \/ Backed(n),
         u.pc \notin Busy \cup {"parting", "rescuing"} \/ RunnerOK(r)'
  PROVE  IInv'
<1>0. run \in [Runner -> RunnerState] /\ run'[r] = u /\ TypeOK /\ client' = client /\ project' = project /\ file' = file
  BY DEF IInv, TypeOK, user
<1>2. RunnerOK(r)'
  <2>1. CASE u.pc \notin Busy \cup {"parting", "rescuing"}
    <3>1. run[r].host \in Worker
      BY DEF IInv, RunnerOK
    <3>2. \A n \in Node : /\ node'[n].owner = r => run'[r].pc # "off"
                          /\ DoneBy(r, n)' /\ run'[r].pc # "dead" => run'[r].ws[n].by # None
      BY <1>0, OwnerPart
    <3> QED
      BY <1>0, <2>1, <3>1, <3>2 DEF RunnerOK, Busy
  <2> QED
    BY <2>1
<1>3. ASSUME NEW n \in Node
      PROVE  Keeps(r, n)
  <2>1. Backed(n) => Backed(n)'
    BY <1>0 DEF Backed, HubMoves
  <2> QED
    BY <1>0, <2>1 DEF Keeps, Ending, Held
<1>4. ASSUME NEW w \in Worker, NEW n \in pend'[w], AnswersFor(r, w, n)
      PROVE  AnswersFor(r, w, n)'
  BY <1>0, <1>4 DEF AnswersFor, Ending, IInv, RunnerOK
<1>5. pend' \in [Worker -> SUBSET Node]
  BY <1>0 DEF TypeOK
<1> QED
  BY <1>0, <1>2, <1>3, <1>4, <1>5, RunStep

\* A runner has sent what its worker still had, or gives up.
LEMMA BootedOK ==
  ASSUME IInv, NEW r \in Runner, Booted(r)
  PROVE  IInv'
<1> DEFINE w == run[r].host
<1>0. /\ run[r].pc = "booting" /\ TypeOK /\ TableMoves /\ HubMoves /\ UNCHANGED <<hub, arch, pend, user, faults>>
      /\ snap \subseteq Worker /\ faults' \in 0..MaxFaults
  BY TableSame, HubSame DEF Booted, IInv, TypeOK
<1>1. CASE run' = Dead(r) /\ UNCHANGED snap
  <2>1. UNCHANGED <<table, hub, shelf, user>>
    BY <1>1 DEF Booted, shelf
  <2> QED
    BY <1>0, <1>1, <2>1, KilledStep
<1>2. CASE run' = [run EXCEPT ![r].pc = "asking"] /\ snap' = snap \cup {w}
  <2>1. PICK u : u = [run[r] EXCEPT !.pc = "asking"]
    OBVIOUS
  <2>2. run[r] \in RunnerState /\ run[r].host \in Worker
    BY <1>0 DEF IInv, TypeOK, RunnerOK
  <2>3. /\ u \in RunnerState /\ u.host = run[r].host /\ u.rec = run[r].rec /\ u.ws = run[r].ws /\ u.pc = "asking"
        /\ run' = [run EXCEPT ![r] = u]
    BY <1>2, <2>1, <2>2 DEF RunnerState, Pc
  <2>4. snap' \subseteq Worker
    BY <1>0, <1>2, <2>2
  <2>5. \A n \in Node : ~BadTry(r, n) /\ ~Owes(r, n)
    BY <1>0 DEF BadTry, Owes
  <2>6. ~Ending(r)
    BY <1>0 DEF Ending
  <2> QED
    BY <1>0, <2>3, <2>4, <2>5, <2>6, TurnStep DEF Busy
<1> QED
  BY <1>1, <1>2 DEF Booted

\* A runner gets a stage, or none.
LEMMA AskOK ==
  ASSUME IInv, NEW r \in Runner, Ask(r)
  PROVE  IInv'
<1>0. /\ run[r].pc = "asking" /\ TypeOK /\ TableMoves /\ HubMoves /\ UNCHANGED <<hub, shelf, user, faults>>
      /\ snap' \subseteq Worker /\ faults' \in 0..MaxFaults /\ arch' = arch /\ pend' = pend
      /\ run \in [Runner -> RunnerState] /\ node \in [Node -> Row]
  BY AskMoves, HubSame DEF Ask, IInv, TypeOK, shelf
<1>1. ~Ending(r) /\ \A n \in Node : ~BadTry(r, n) /\ ~Owes(r, n)
  BY <1>0 DEF BadTry, Owes, Ending
<1>2. CASE run' = [run EXCEPT ![r].pc = "closing"]
  <2>1. PICK u : u = [run[r] EXCEPT !.pc = "closing"]
    OBVIOUS
  <2>2. /\ u \in RunnerState /\ u.host = run[r].host /\ u.rec = run[r].rec /\ u.ws = run[r].ws /\ u.pc = "closing"
        /\ run' = [run EXCEPT ![r] = u]
    BY <1>0, <1>2, <2>1 DEF RunnerState, Pc
  <2> QED
    BY <1>0, <1>1, <2>2, TurnStep DEF Busy
<1>3. ASSUME NEW n \in Node,
             node' = [node EXCEPT ![n] = [@ EXCEPT !.status = "running", !.owner = r]],
             run' = [run EXCEPT ![r] = [@ EXCEPT !.pc = "restoring", !.node = n]]
      PROVE  IInv'
  <2>1. PICK u : u = [run[r] EXCEPT !.pc = "restoring", !.node = n]
    OBVIOUS
  <2>2. /\ u \in RunnerState /\ u.host = run[r].host /\ u.rec = run[r].rec /\ u.ws = run[r].ws /\ u.pc = "restoring"
        /\ u.node = n
    BY <1>0, <2>1 DEF RunnerState, Pc
  <2>3. run' = [run EXCEPT ![r] = u] /\ run'[r] = u
    BY <1>0, <1>3, <2>1
  <2>4. RunnerOK(r)'
    <3>1. \A m \in Node : /\ node'[m].owner = r => run'[r].pc # "off"
                          /\ DoneBy(r, m)' /\ run'[r].pc # "dead" => run'[r].ws[m].by # None
      BY <1>0, <2>2, <2>3, OwnerPart
    <3>2. Runs(r, n)'
      BY <1>0, <1>3 DEF Runs, Row
    <3>3. run'[r].host \in Worker
      BY <1>0, <2>2, <2>3 DEF IInv, RunnerOK
    <3> QED
      BY <2>2, <2>3, <3>1, <3>2, <3>3, LocalRunAssumption DEF RunnerOK, Occupied, Runs, Busy
  <2> QED
    BY <1>0, <1>1, <2>2, <2>3, <2>4, TurnStep
<1> QED
  BY <1>2, <1>3 DEF Ask

\* A runner reports its stage: a bad try shuts it.
LEMMA ReportOK ==
  ASSUME IInv, NEW r \in Runner, Report(r)
  PROVE  IInv'
<1>0. /\ run[r].pc = "reporting" /\ TypeOK /\ TableMoves /\ HubMoves /\ UNCHANGED <<hub, shelf, user, faults>>
      /\ snap' \subseteq Worker /\ faults' \in 0..MaxFaults /\ arch' = arch /\ pend' = pend
      /\ run \in [Runner -> RunnerState] /\ node \in [Node -> Row]
  BY ReportMoves, HubSame DEF Report, IInv, TypeOK, shelf
<1>1. PICK u : u = [run[r] EXCEPT !.pc = "asking", !.node = None, !.exit = "none"]
  OBVIOUS
<1>2. /\ u \in RunnerState /\ u.host = run[r].host /\ u.rec = run[r].rec /\ u.ws = run[r].ws /\ u.pc = "asking"
      /\ run' = [run EXCEPT ![r] = u]
  BY <1>0, <1>1 DEF RunnerState, Pc, Report
<1>3. ~Ending(r) /\ \A n \in Node : ~Owes(r, n)
  BY <1>0 DEF Owes, Ending
<1>4. ASSUME NEW n \in Node, BadTry(r, n)
      PROVE  Shut(n)'
  <2>1. run[r].node = n /\ run[r].exit = "bad" /\ Occupied(r, n)
    BY <1>0, <1>4 DEF BadTry, IInv, RunnerOK, Busy
  <2>2. CASE Runs(r, n)
    <3>1. PICK new \in Outcomes(r) : Change(new)
      BY <2>1, <2>2 DEF Report
    <3>2. new = [node EXCEPT ![n].status = "failed"]
      BY <2>1, <3>1 DEF Outcomes
    <3>3. new \in [Node -> Row] /\ new[n].status = "failed"
      BY <1>0, <3>2 DEF Row
    <3>4. node' = Spread(new)
      BY <3>1 DEF Change
    <3> QED
      BY <3>3, <3>4, SpreadKeeps DEF Shut
  <2>3. CASE ~Runs(r, n)
    <3>1. Shut(n)
      BY <2>1, <2>3 DEF Occupied, Shut
    <3> QED
      BY <1>0, <3>1 DEF TableMoves
  <2> QED
    BY <2>2, <2>3
<1> QED
  BY <1>0, <1>2, <1>3, <1>4, TurnStep DEF Busy

\* The inputs could not be fetched.
LEMMA RestoreFailsOK ==
  ASSUME IInv, NEW r \in Runner, run[r].pc = "restoring", Fault, run' = [run EXCEPT ![r].pc = "closing"],
         UNCHANGED <<table, hub, shelf, user>>
  PROVE  IInv'
<1>0. /\ TypeOK /\ TableMoves /\ HubMoves /\ snap' \subseteq Worker /\ faults' \in 0..MaxFaults
      /\ arch' = arch /\ pend' = pend /\ run[r] \in RunnerState
  BY TableSame, HubSame, FaultBound DEF IInv, TypeOK, shelf
<1>1. ~Ending(r) /\ \A n \in Node : ~BadTry(r, n) /\ ~Owes(r, n)
  BY DEF BadTry, Owes, Ending
<1>2. PICK u : u = [run[r] EXCEPT !.pc = "closing"]
  OBVIOUS
<1>3. /\ u \in RunnerState /\ u.host = run[r].host /\ u.rec = run[r].rec /\ u.ws = run[r].ws /\ u.pc = "closing"
      /\ run' = [run EXCEPT ![r] = u]
  BY <1>0, <1>2 DEF RunnerState, Pc
<1> QED
  BY <1>0, <1>1, <1>3, TurnStep DEF Busy

\* What becomes of the row of a runner whose container ends or is stopped.
LEMMA RunnerType ==
  ASSUME NEW x \in RunnerState, NEW pc \in Pc, NEW ws \in [Node -> Archive],
         NEW e \in {"none", "ok", "bad", "missing"}
  PROVE  /\ [x EXCEPT !.pc = pc, !.ws = ws] \in RunnerState
         /\ [x EXCEPT !.pc = pc, !.ws = ws, !.exit = e] \in RunnerState
<1>1. [x EXCEPT !.pc = pc, !.ws = ws] \in RunnerState
  BY DEF RunnerState
<1>2. [x EXCEPT !.pc = pc, !.ws = ws, !.exit = e] \in RunnerState
  BY DEF RunnerState
<1> QED
  BY <1>1, <1>2

\* What a container writes is its runner's, which owes it and has not failed
\* to report it; what it leaves unfinished is the runner's last word.
LEMMA WrittenIsGood ==
  ASSUME IInv, NEW r \in Runner, run[r].pc = "working", NEW n \in Node, n = run[r].node,
         NEW a \in Archive, a.by = r, a.level < Whole => run'[r].pc = "stopped" \/ run'[r].exit = "bad",
         node' = node, hub' = hub, client' = client, run'[r].rec = run[r].rec, run'[r].node = n,
         run'[r].pc \in {"saving", "stopped"}, run'[r].ws[n] = a
  PROVE  Good(a, n)'
<1>0. r # None
  BY LocalRunAssumption
<1>1. Held(r, n)'
  <2>1. run[r].rec = n \/ Backed(n)
    BY DEF IInv, RunnerOK
  <2> QED
    BY <2>1 DEF Held, Owes, Backed
<1>2. ASSUME a.level < Whole
      PROVE  Spent(r, n)' /\ LastWord(r, n, a)'
  <2>1. ~DoneBy(r, n)
    BY DEF IInv, RunnerOK, Busy, Occupied, Runs, DoneBy
  <2>2. ~DoneBy(r, n)'
    BY <2>1 DEF DoneBy
  <2>3. Ending(r)' \/ BadTry(r, n)'
    BY <1>2 DEF Ending, BadTry
  <2>4. LastWord(r, n, a)'
    BY DEF LastWord
  <2> QED
    BY <2>2, <2>3, <2>4 DEF Spent
<1> QED
  BY <1>0, <1>1, <1>2 DEF Good

\* The container ends: with all outputs, or with a checkpoint and a failure.
LEMMA WorkOK ==
  ASSUME IInv, NEW r \in Runner, Work(r)
  PROVE  IInv'
<1>0. /\ run[r].pc = "working" /\ TypeOK /\ TableMoves /\ HubMoves /\ UNCHANGED <<table, hub, shelf, user, faults>>
      /\ snap' \subseteq Worker /\ faults' \in 0..MaxFaults /\ arch' = arch /\ pend' = pend
      /\ run \in [Runner -> RunnerState] /\ pend' \in [Worker -> SUBSET Node] /\ r # None
      /\ client' = client /\ project' = project /\ file' = file /\ node' = node /\ cancel' = cancel
  BY TableSame, HubSame, LocalRunAssumption DEF Work, IInv, TypeOK, shelf, user, table
<1>1. PICK l \in {1, Whole} :
        run' = [run EXCEPT ![r] = [@ EXCEPT !.pc = "saving", !.ws = Wrote(r, l), !.exit = IF l = Whole THEN "ok" ELSE "bad"]]
  BY DEF Work
<1>2. PICK e : e = IF l = Whole THEN "ok" ELSE "bad"
  OBVIOUS
<1>3. PICK u : u = [run[r] EXCEPT !.pc = "saving", !.ws = Wrote(r, l), !.exit = e]
  OBVIOUS
<1>4. /\ u.pc = "saving" /\ u.host = run[r].host /\ u.rec = run[r].rec /\ u.node = run[r].node /\ u.exit = e
      /\ u.ws = Wrote(r, l)
  BY <1>0, <1>3 DEF RunnerState
<1>5. run' = [run EXCEPT ![r] = u] /\ run'[r] = u
  BY <1>0, <1>1, <1>2, <1>3
<1>6. PICK n \in Node : n = run[r].node
  BY <1>0 DEF IInv, RunnerOK, TypeOK, RunnerState, Busy
<1>7. l = 1 => e = "bad"
  BY <1>2 DEF Whole
<1>8. PICK a : a = [level |-> l, by |-> r]
  OBVIOUS
<1>9. a \in Archive /\ a.by = r /\ a.level = l
  BY <1>8 DEF Archive, Whole
<1>10. u.ws = [run[r].ws EXCEPT ![n] = a]
  BY <1>4, <1>6, <1>8 DEF Wrote
<1>11. /\ u.ws \in [Node -> Archive] /\ u.ws[n] = a /\ \A m \in Node \ {n} : u.ws[m] = run[r].ws[m]
      /\ u.ws[n].by = r
  BY <1>0, <1>6, <1>9, <1>10 DEF RunnerState
<1>12. Good(a, n)'
  <2>1. a.level < Whole => e = "bad"
    BY <1>1, <1>7, <1>9 DEF Whole
  <2> QED
    BY <1>0, <1>4, <1>5, <1>6, <1>11, <1>9, <2>1, WrittenIsGood
<1>13. u \in RunnerState
  <2>1. e \in {"none", "ok", "bad", "missing"} /\ "saving" \in Pc
    BY <1>2 DEF Pc
  <2>2. Wrote(r, l) \in [Node -> Archive] /\ run[r] \in RunnerState
    BY <1>0, <1>4, <1>11
  <2> QED
    BY <1>3, <2>1, <2>2, RunnerType
<1>14. RunnerOK(r)'
  <2>1. \A m \in Node : run[r].ws[m].by # None => u.ws[m].by # None
    BY <1>0, <1>11
  <2>2. \A m \in Node : /\ node'[m].owner = r => run'[r].pc # "off"
                        /\ DoneBy(r, m)' /\ run'[r].pc # "dead" => run'[r].ws[m].by # None
    BY <1>0, <1>4, <1>5, <2>1, OwnerPart
  <2>3. run[r].host \in Worker /\ Occupied(r, n) /\ (run[r].rec = n \/ (run[r].rec = None /\ Backed(n)))
    BY <1>0, <1>6 DEF IInv, RunnerOK, Busy
  <2>4. Occupied(r, n)' /\ (Backed(n) => Backed(n)')
    BY <1>0, <2>3 DEF Occupied, Runs, Barred, Backed
  <2>5. u.ws[u.node].by # None /\ u.exit \in {"ok", "bad"} /\ u.node # None
    BY <1>0, <1>2, <1>4, <1>6, <1>11, LocalRunAssumption
  <2> QED
    BY <1>4, <1>5, <1>6, <2>2, <2>3, <2>4, <2>5 DEF RunnerOK, Occupied, Runs, Backed
<1>15. ASSUME NEW m \in Node
       PROVE  Keeps(r, m) /\ (u.ws[m] = run[r].ws[m] \/ Good(u.ws[m], m)')
  <2>1. Keeps(r, m)
    BY <1>0, <1>5 DEF Keeps, Ending, BadTry, Held, Owes, Backed
  <2>2. CASE m = n
    BY <1>11, <1>12, <2>1, <2>2
  <2> QED
    BY <1>11, <2>1, <2>2
<1>16. ASSUME NEW w \in Worker, NEW m \in pend'[w], AnswersFor(r, w, m)
       PROVE  AnswersFor(r, w, m)'
  BY <1>0, <1>16 DEF AnswersFor
<1> QED
  BY <1>0, <1>5, <1>13, <1>14, <1>15, <1>16, RunStep

\* A runner is stopped, maybe with a checkpoint.
LEMMA PreemptOK ==
  ASSUME IInv, NEW r \in Runner, Preempt(r)
  PROVE  IInv'
<1>0. /\ TypeOK /\ TableMoves /\ HubMoves /\ UNCHANGED user
      /\ run[r].pc \notin {"off", "dead", "stopped", "rescuing"}
      /\ snap' \subseteq Worker /\ faults' \in 0..MaxFaults /\ arch' = arch /\ pend' = pend
      /\ run \in [Runner -> RunnerState] /\ pend' \in [Worker -> SUBSET Node] /\ r # None
      /\ client' = client /\ project' = project /\ file' = file /\ node' = node /\ hub' = hub
  BY TableSame, HubSame, FaultBound, LocalRunAssumption DEF Preempt, Alive, Gone, IInv, TypeOK, shelf, user, table
<1>1. PICK ws \in {run[r].ws} \cup IF run[r].pc = "working" THEN {Wrote(r, 1)} ELSE {} :
        run' = [run EXCEPT ![r] = [@ EXCEPT !.pc = "stopped", !.ws = ws]]
  BY DEF Preempt
<1>2. PICK u : u = [run[r] EXCEPT !.pc = "stopped", !.ws = ws]
  OBVIOUS
<1>3. /\ u.pc = "stopped" /\ u.host = run[r].host /\ u.rec = run[r].rec /\ u.node = run[r].node /\ u.ws = ws
      /\ run' = [run EXCEPT ![r] = u] /\ run'[r] = u
  BY <1>0, <1>1, <1>2 DEF RunnerState
<1>4. CASE ws = run[r].ws
  <2>1. u \in RunnerState
    <3>1. run[r] \in RunnerState /\ ws \in [Node -> Archive] /\ "stopped" \in Pc
      BY <1>0, <1>4 DEF RunnerState, Pc
    <3> QED
      BY <1>2, <3>1, RunnerType
  <2>2. \A n \in Node : /\ BadTry(r, n) => Ending(r)'
                        /\ Owes(r, n) => Owes(r, n)'
    BY <1>3 DEF Ending, Owes
  <2> QED
    BY <1>0, <1>3, <1>4, <2>1, <2>2, TurnStep DEF Busy
<1>5. CASE run[r].pc = "working" /\ ws = Wrote(r, 1)
  <2>1. PICK n \in Node : n = run[r].node
    BY <1>0, <1>5 DEF IInv, RunnerOK, TypeOK, RunnerState, Busy
  <2>2. PICK a : a = [level |-> 1, by |-> r]
    OBVIOUS
  <2>3. a \in Archive /\ a.by = r
    BY <2>2 DEF Archive, Whole
  <2>4. u.ws = [run[r].ws EXCEPT ![n] = a]
    BY <1>3, <1>5, <2>1, <2>2 DEF Wrote
  <2>5. /\ u.ws \in [Node -> Archive] /\ u.ws[n] = a /\ \A m \in Node \ {n} : u.ws[m] = run[r].ws[m]
    BY <1>0, <2>1, <2>3, <2>4 DEF RunnerState
  <2>6. Good(a, n)'
    BY <1>0, <1>3, <1>5, <2>1, <2>3, <2>5, WrittenIsGood
  <2>7. u \in RunnerState
    <3>1. run[r] \in RunnerState /\ ws \in [Node -> Archive] /\ "stopped" \in Pc
      BY <1>0, <1>3, <2>5 DEF Pc
    <3> QED
      BY <1>2, <3>1, RunnerType
  <2>8. RunnerOK(r)'
    <3>1. \A m \in Node : run[r].ws[m].by # None => u.ws[m].by # None
      BY <1>0, <2>3, <2>5
    <3>2. \A m \in Node : /\ node'[m].owner = r => run'[r].pc # "off"
                          /\ DoneBy(r, m)' /\ run'[r].pc # "dead" => run'[r].ws[m].by # None
      BY <1>0, <1>3, <3>1, OwnerPart
    <3>3. run'[r].host \in Worker
      BY <1>0, <1>3 DEF IInv, RunnerOK
    <3> QED
      BY <1>3, <3>2, <3>3 DEF RunnerOK, Busy
  <2>9. ASSUME NEW m \in Node
        PROVE  Keeps(r, m) /\ (u.ws[m] = run[r].ws[m] \/ Good(u.ws[m], m)')
    <3>1. Keeps(r, m)
      BY <1>0, <1>3, <1>5 DEF Keeps, Ending, BadTry, Held, Owes, Backed
    <3>2. CASE m = n
      BY <2>5, <2>6, <3>1, <3>2
    <3> QED
      BY <2>5, <3>1, <3>2
  <2>10. ASSUME NEW w \in Worker, NEW m \in pend'[w], AnswersFor(r, w, m)
         PROVE  AnswersFor(r, w, m)'
    BY <1>5, <2>10 DEF AnswersFor
  <2> QED
    BY <1>0, <1>3, <2>7, <2>8, <2>9, <2>10, RunStep
<1> QED
  BY <1>1, <1>4, <1>5

\* Saving the outputs: the archive is a copy of them or, when there are none,
\* the empty one of a runner on its way out.
LEMMA SaveStep ==
  ASSUME IInv, NEW r \in Runner, run[r].rec # None, UNCHANGED <<table, hub, user, faults>>,
         NEW next, \/ run[r].pc = "saving" /\ next = "sending"
                   \/ run[r].pc = "closing" /\ next = "parting"
                   \/ run[r].pc = "stopped" /\ next = "rescuing",
         Archived(r, next)
  PROVE  IInv'
<1> USE DEF IInv
<1>0. /\ TypeOK /\ TableMoves /\ run \in [Runner -> RunnerState]
      /\ node' = node /\ cancel' = cancel /\ hub' = hub /\ client' = client /\ project' = project /\ file' = file
      /\ snap' = snap /\ faults' = faults
  BY TableSame DEF TypeOK, table, user, Archived, Save
<1>1. /\ run[r].pc \in {"saving", "closing", "stopped"} /\ next \in {"sending", "parting", "rescuing"}
      /\ run[r].pc = "saving" <=> next = "sending"
      /\ run[r].pc \notin {"off", "dead"}
  OBVIOUS
<1>2. PICK n, w : n = run[r].rec /\ w = run[r].host
  OBVIOUS
<1>3. n \in Node /\ w \in Worker /\ n # None
  BY <1>0, <1>1, <1>2 DEF RunnerState, RunnerOK
<1>4. PICK u : u = [run[r] EXCEPT !.pc = next]
  OBVIOUS
<1>5. /\ u \in RunnerState /\ u.pc = next /\ u.host = w /\ u.rec = n /\ u.node = run[r].node
      /\ u.ws = run[r].ws /\ u.exit = run[r].exit
      /\ run' = [run EXCEPT ![r] = u] /\ run'[r] = u /\ \A s \in Runner \ {r} : run'[s] = run[s]
  BY <1>0, <1>1, <1>2, <1>4 DEF RunnerState, Pc, Archived
<1>6. PICK a : a = Outputs(r)
  OBVIOUS
<1>7. /\ a \in Archive /\ a.by # None
      /\ a = run[r].ws[n] \/ (a.by = r /\ run[r].ws[n].by = None)
  BY <1>0, <1>2, <1>3, <1>6, LocalRunAssumption DEF Outputs, RunnerState, Archive, Whole
<1>8. /\ arch' \in [Worker -> [Node -> Archive]] /\ arch'[w][n] = a
      /\ \A v \in Worker, m \in Node : arch'[v][m] = arch[v][m] \/ (v = w /\ m = n)
  <2>1. arch' = [arch EXCEPT ![w][n] = a] /\ arch \in [Worker -> [Node -> Archive]]
    BY <1>0, <1>2, <1>6 DEF Archived, Save, TypeOK
  <2> QED
    BY <2>1, <1>3, <1>7
<1>9. /\ pend' \in [Worker -> SUBSET Node]
      /\ \A v \in Worker : \A m \in pend'[v] : m \in pend[v] \/ (v = w /\ m = n)
  <2>1. pend' = [pend EXCEPT ![w] = @ \cup {n}] /\ pend \in [Worker -> SUBSET Node]
    BY <1>0, <1>2 DEF Archived, Save, TypeOK
  <2> QED
    BY <2>1, <1>3
<1>10. StoreMoves
  BY <1>0, <1>7, <1>8 DEF StoreMoves, Backed
<1>11. Marked'
  BY <1>3, <1>7, <1>8, <1>9 DEF Marked, TypeOK
<1>12. TypeOK'
  <2>2. AnswersFor(r, w, n)'
    BY <1>1, <1>5 DEF AnswersFor
  <2>3. ASSUME NEW v \in Worker, NEW m \in pend'[v]
        PROVE  \/ m \in pend[v] /\ \A s \in Runner : AnswersFor(s, v, m) => AnswersFor(s, v, m)'
               \/ \E s \in Runner : AnswersFor(s, v, m)'
    <3>1. CASE v = w /\ m = n
      BY <2>2, <3>1
    <3>2. CASE m \in pend[v]
      <4>1. ASSUME NEW s \in Runner, AnswersFor(s, v, m)
            PROVE  AnswersFor(s, v, m)'
        <5>1. CASE s = r
          BY <1>1, <1>2, <1>5, <4>1, <5>1 DEF AnswersFor
        <5>2. CASE s # r
          BY <1>5, <4>1, <5>2 DEF AnswersFor
        <5> QED
          BY <5>1, <5>2
      <4> QED
        BY <3>2, <4>1
    <3> QED
      BY <1>9, <3>1, <3>2
  <2>4. Recorded'
    BY <2>3, RecordedKept DEF TypeOK
  <2>5. run' \in [Runner -> RunnerState]
    BY <1>0, <1>5
  <2> QED
    BY <1>0, <1>8, <1>9, <2>4, <2>5 DEF TypeOK, TableMoves, JobRow, CancelStep
<1>13. ASSUME NEW m \in Node
       PROVE  Keeps(r, m)
  <2>1. Ending(r) => Ending(r)'
    BY <1>1, <1>5 DEF Ending
  <2>2. BadTry(r, m) => BadTry(r, m)'
    BY <1>1, <1>5 DEF BadTry
  <2>3. Owes(r, m) => Owes(r, m)'
    BY <1>1, <1>2, <1>5 DEF Owes
  <2>4. Backed(m) => Backed(m)'
    BY <1>0 DEF Backed
  <2> QED
    BY <1>1, <1>5, <2>1, <2>2, <2>3, <2>4 DEF Keeps, Held
<1>14. RunnerOK(r)'
  <2>1. \A m \in Node : /\ node'[m].owner = r => run'[r].pc # "off"
                        /\ DoneBy(r, m)' /\ run'[r].pc # "dead" => run'[r].ws[m].by # None
    BY <1>0, <1>1, <1>5, OwnerPart
  <2>2. CASE next = "sending"
    <3>1. /\ run[r].pc = "saving" /\ run[r].node = n /\ Occupied(r, n)
          /\ run[r].exit \in {"ok", "bad"} /\ run[r].ws[n].by # None
      BY <1>1, <1>2, <2>2 DEF RunnerOK, Busy
    <3>2. Occupied(r, n)'
      BY <1>0, <1>5, <3>1 DEF Occupied, Runs, Barred
    <3> QED
      BY <1>3, <1>5, <1>7, <1>8, <2>1, <2>2, <3>1, <3>2 DEF RunnerOK, Occupied, Runs
  <2>3. CASE next # "sending"
    BY <1>1, <1>3, <1>5, <1>7, <1>8, <2>1, <2>3 DEF RunnerOK, Busy
  <2> QED
    BY <2>2, <2>3
<1>15. a = run[r].ws[n] \/ Good(a, n)'
  <2>1. SUFFICES ASSUME a.by = r, run[r].ws[n].by = None
                 PROVE  Good(a, n)'
    BY <1>7
  <2>2. run[r].pc # "saving"
    BY <1>1, <1>2, <1>3, <2>1 DEF RunnerOK
  <2>3. Ending(r)' /\ Owes(r, n)'
    BY <1>1, <1>5, <2>2 DEF Ending, Owes
  <2>4. ~DoneBy(r, n)'
    <3>1. ~DoneBy(r, n)
      BY <1>1, <1>3, <2>1 DEF RunnerOK
    <3> QED
      BY <1>0, <3>1 DEF DoneBy
  <2>5. Spent(r, n)'
    BY <2>3, <2>4 DEF Spent
  <2>6. LastWord(r, n, a)'
    BY <1>5, <2>1, LocalRunAssumption DEF LastWord
  <2>7. Held(r, n)'
    BY <2>3 DEF Held
  <2> QED
    BY <2>1, <2>5, <2>6, <2>7, LocalRunAssumption DEF Good
<1>16. ASSUME NEW m \in Node, NEW b \in Archive, Copy(b, m)'
       PROVE  Copy(b, m) \/ Good(b, m)'
  <2>1. CASE m = n /\ b = a
    BY <1>15, <2>1 DEF Copy
  <2>2. CASE ~(m = n /\ b = a)
    BY <1>0, <1>5, <1>8, <1>16, <2>2 DEF Copy
  <2> QED
    BY <2>1, <2>2
<1>17. \A s \in Runner : Same(s) \/ (RunnerOK(s)' /\ \A m \in Node : Keeps(s, m))
  BY <1>5, <1>13, <1>14 DEF Same
<1> HIDE DEF IInv
<1> QED
  BY <1>0, <1>10, <1>11, <1>12, <1>16, <1>17, StepOK


\* The outputs are archived before the report.  When the record is gone, the
\* headnode has an archive of the stage from the runner that sent it.
LEMMA PreserveSaveOK ==
  ASSUME IInv, NEW r \in Runner, PreserveSave(r)
  PROVE  IInv'
<1>0. /\ run[r].pc = "saving" /\ UNCHANGED <<table, hub, user, faults>> /\ TypeOK /\ RunnerOK(r)
      /\ run \in [Runner -> RunnerState]
  BY DEF PreserveSave, IInv, TypeOK
<1>1. CASE run[r].rec # None
  BY <1>0, <1>1, SaveStep DEF PreserveSave
<1>2. CASE run[r].rec = None
  <2>1. /\ TableMoves /\ HubMoves /\ arch' = arch /\ pend' = pend /\ snap' \subseteq Worker
        /\ faults' \in 0..MaxFaults /\ node' = node /\ cancel' = cancel /\ hub' = hub /\ client' = client
    BY <1>0, <1>2, TableSame, HubSame DEF PreserveSave, IInv, TypeOK, shelf, table, user
  <2>2. PICK u : u = [run[r] EXCEPT !.pc = "reporting"]
    OBVIOUS
  <2>3. /\ u \in RunnerState /\ u.pc = "reporting" /\ u.host = run[r].host /\ u.rec = run[r].rec
        /\ u.ws = run[r].ws /\ u.node = run[r].node /\ u.exit = run[r].exit
        /\ run' = [run EXCEPT ![r] = u] /\ run'[r] = u
    BY <1>0, <1>2, <2>2 DEF RunnerState, Pc, PreserveSave
  <2>4. PICK n : n = run[r].node
    OBVIOUS
  <2>5. n # None /\ Occupied(r, n) /\ Backed(n) /\ run[r].exit \in {"ok", "bad"} /\ run[r].ws[n].by # None
    BY <1>0, <1>2, <2>4 DEF RunnerOK, Busy
  <2>6. Occupied(r, n)' /\ Backed(n)'
    BY <2>1, <2>5 DEF Occupied, Runs, Barred, Backed
  <2>7. \A m \in Node : /\ node'[m].owner = r => run'[r].pc # "off"
                        /\ DoneBy(r, m)' /\ run'[r].pc # "dead" => run'[r].ws[m].by # None
    BY <1>0, <2>1, <2>3, OwnerPart
  <2>8. run[r].host \in Worker
    BY <1>0 DEF RunnerOK
  <2>9. RunnerOK(r)'
    BY <2>3, <2>4, <2>5, <2>6, <2>7, <2>8 DEF RunnerOK, Occupied, Runs, Backed
  <2>10. \A m \in Node : (BadTry(r, m) => BadTry(r, m)') /\ ~Owes(r, m)
    BY <1>0, <1>2, <2>3, LocalRunAssumption DEF BadTry, Owes
  <2>11. ~Ending(r)
    BY <1>0 DEF Ending
  <2> QED
    BY <1>0, <2>1, <2>3, <2>9, <2>10, <2>11, TurnStep
<1> QED
  BY <1>1, <1>2

\* A runner that leaves archives what it has.
LEMMA CloseOK ==
  ASSUME IInv, NEW r \in Runner, Close(r)
  PROVE  IInv'
<1>0. /\ run[r].pc = "closing" /\ UNCHANGED <<table, hub, user, faults>> /\ faults' \in 0..MaxFaults
  BY DEF Close, IInv, TypeOK
<1>1. CASE run[r].rec # None
  BY <1>0, <1>1, SaveStep DEF Close
<1>2. CASE run[r].rec = None
  BY <1>0, <1>2, KilledStep DEF Close
<1> QED
  BY <1>1, <1>2

\* The worker archives what a runner it has stopped leaves.
LEMMA PreserveOK ==
  ASSUME IInv, NEW r \in Runner, Preserve(r)
  PROVE  IInv'
<1>0. /\ run[r].pc = "stopped" /\ UNCHANGED <<hub, user, faults>> /\ faults' \in 0..MaxFaults /\ HubMoves
      /\ TypeOK /\ TabInv /\ Owned /\ run \in [Runner -> RunnerState]
  BY HubSame DEF Preserve, IInv, TypeOK
<1>1. CASE run[r].rec # None
  BY <1>0, <1>1, SaveStep DEF Preserve
<1>2. CASE run[r].rec = None
  <2>1. PICK x : x = run[r].rec /\ run' = Over(r, x)
    BY <1>2 DEF Preserve, Dead
  <2>2. Leaves(r)
    BY <1>0, <2>1, IdleType DEF Over, Leaves, Busy, RunnerState
  <2>3. TableMoves
    BY <1>0, <1>2, <2>2, RequeueMoves DEF Preserve
  <2>4. /\ arch' = arch /\ pend' \in [Worker -> SUBSET Node] /\ \A w \in Worker : pend'[w] \subseteq pend[w]
        /\ snap' \subseteq Worker /\ client' = client /\ project' = project /\ file' = file
    BY <1>0, <1>2 DEF Preserve, shelf, user, TypeOK
  <2> QED
    BY <1>0, <2>1, <2>3, <2>4, DeathStep
<1> QED
  BY <1>1, <1>2

\* The upload before the report: when it succeeds the headnode has the outputs,
\* when it fails the runner leaves the loop without a report.
LEMMA PreserveSendOK ==
  ASSUME IInv, NEW r \in Runner, PreserveSend(r)
  PROVE  IInv'
<1>0. /\ run[r].pc = "sending" /\ TypeOK /\ TableMoves /\ RunnerOK(r) /\ UNCHANGED <<table, user>>
      /\ run \in [Runner -> RunnerState] /\ snap \subseteq Worker /\ faults \in 0..MaxFaults
      /\ node' = node /\ cancel' = cancel /\ client' = client /\ project' = project /\ file' = file
  BY TableSame DEF PreserveSend, IInv, TypeOK, table, user
<1>1. PICK n, w : n = run[r].rec /\ w = run[r].host
  OBVIOUS
<1>2. n \in Node /\ w \in Worker /\ arch[w][n].by # None /\ n # None /\ run[r].node = n
  BY <1>0, <1>1, Archived1, LocalRunAssumption DEF RunnerOK
<1>3. CASE Sent(r) /\ run' = [run EXCEPT ![r] = [@ EXCEPT !.pc = "reporting", !.rec = None]]
  <2>1. /\ HubMoves /\ arch' = arch /\ snap' = snap /\ faults' = faults /\ hub'[n].by # None
        /\ pend' \in [Worker -> SUBSET Node] /\ (\A v \in Worker : pend'[v] \subseteq pend[v]) /\ n \notin pend'[w]
    BY <1>0, <1>1, <1>2, <1>3, SentMoves
  <2>2. PICK u : u = [run[r] EXCEPT !.pc = "reporting", !.rec = None]
    OBVIOUS
  <2>3. /\ u \in RunnerState /\ u.pc = "reporting" /\ u.host = run[r].host /\ u.rec = None
        /\ u.ws = run[r].ws /\ u.node = run[r].node /\ u.exit = run[r].exit
        /\ run' = [run EXCEPT ![r] = u] /\ run'[r] = u
    BY <1>0, <1>3, <2>2 DEF RunnerState, Pc
  <2>4. /\ Occupied(r, n) /\ run[r].exit \in {"ok", "bad"} /\ run[r].ws[n].by # None
        /\ run[r].host \in Worker
    BY <1>0, <1>2 DEF RunnerOK, Busy
  <2>5. Occupied(r, n)' /\ Backed(n)'
    BY <1>0, <2>1, <2>4 DEF Occupied, Runs, Barred, Backed
  <2>6. \A m \in Node : /\ node'[m].owner = r => run'[r].pc # "off"
                        /\ DoneBy(r, m)' /\ run'[r].pc # "dead" => run'[r].ws[m].by # None
    BY <1>0, <2>3, OwnerPart
  <2>7. RunnerOK(r)'
    BY <1>2, <2>3, <2>4, <2>5, <2>6 DEF RunnerOK, Occupied, Runs, Backed
  <2>8. ASSUME NEW m \in Node
        PROVE  Keeps(r, m)
    <3>1. ~Ending(r) /\ (BadTry(r, m) => BadTry(r, m)')
      BY <1>0, <2>3 DEF Ending, BadTry
    <3>2. Held(r, m) => Held(r, m)'
      <4>1. CASE m = n
        BY <2>5, <4>1 DEF Held
      <4>2. CASE m # n
        <5>1. ~Owes(r, m)
          BY <1>1, <4>2 DEF Owes
        <5> QED
          BY <1>0, <2>1, <5>1 DEF Held, HubMoves, Backed
      <4> QED
        BY <4>1, <4>2
    <3> QED
      BY <1>0, <2>3, <3>1, <3>2 DEF Keeps
  <2>9. ASSUME NEW v \in Worker, NEW m \in pend'[v], AnswersFor(r, v, m)
        PROVE  AnswersFor(r, v, m)'
    BY <1>1, <2>1, <2>9 DEF AnswersFor
  <2> QED
    BY <1>0, <2>1, <2>3, <2>7, <2>8, <2>9, RunStep
<1>4. CASE NotSent(r) /\ run' = [run EXCEPT ![r].pc = "closing"]
  <2>1. /\ HubMoves /\ arch' = arch /\ pend' = pend /\ snap' \subseteq Worker /\ faults' \in 0..MaxFaults
    BY <1>0, <1>1, <1>2, <1>4, NotSentMoves
  <2>2. PICK u : u = [run[r] EXCEPT !.pc = "closing"]
    OBVIOUS
  <2>3. /\ u \in RunnerState /\ u.pc = "closing" /\ u.host = run[r].host /\ u.rec = run[r].rec
        /\ u.ws = run[r].ws /\ run' = [run EXCEPT ![r] = u] /\ run'[r] = u
    BY <1>0, <1>4, <2>2 DEF RunnerState, Pc
  <2>4. Ending(r)' /\ \A m \in Node : Owes(r, m) => Owes(r, m)'
    BY <2>3 DEF Ending, Owes
  <2> QED
    BY <1>0, <2>1, <2>3, <2>4, TurnStep DEF Busy
<1> QED
  BY <1>3, <1>4 DEF PreserveSend

\* The upload for a stopped runner, and its stage goes back to the queue.
LEMMA RescueOK ==
  ASSUME IInv, NEW r \in Runner, Rescue(r)
  PROVE  IInv'
<1>0. /\ run[r].pc = "rescuing" /\ TypeOK /\ TabInv /\ Owned /\ UNCHANGED user
      /\ run \in [Runner -> RunnerState] /\ snap \subseteq Worker /\ faults \in 0..MaxFaults
      /\ client' = client /\ project' = project /\ file' = file
  BY DEF Rescue, IInv, TypeOK, user
<1>1. run[r].host \in Worker /\ run[r].rec \in Node /\ arch[run[r].host][run[r].rec].by # None
  BY <1>0, Archived1
<1>2. CASE Sent(r) /\ Requeued(r) /\ run' = Parted(r)
  <2>1. Leaves(r)
    BY <1>0, <1>2, IdleType DEF Parted, Over, Leaves, Busy, RunnerState
  <2>2. TableMoves
    BY <1>0, <1>2, <2>1, RequeueMoves
  <2> QED
    BY <1>0, <1>1, <1>2, <2>2, SentMoves, DeathStep DEF Parted
<1>3. CASE NotSent(r) /\ run' = [run EXCEPT ![r].pc = "stopped"] /\ UNCHANGED table
  <2>1. /\ HubMoves /\ arch' = arch /\ pend' = pend /\ snap' \subseteq Worker /\ faults' \in 0..MaxFaults /\ TableMoves
    BY <1>0, <1>1, <1>3, NotSentMoves, TableSame
  <2>2. PICK u : u = [run[r] EXCEPT !.pc = "stopped"]
    OBVIOUS
  <2>3. /\ u \in RunnerState /\ u.pc = "stopped" /\ u.host = run[r].host /\ u.rec = run[r].rec
        /\ u.ws = run[r].ws /\ run' = [run EXCEPT ![r] = u] /\ run'[r] = u
    BY <1>0, <1>3, <2>2 DEF RunnerState, Pc
  <2>4. Ending(r)' /\ \A m \in Node : Owes(r, m) => Owes(r, m)'
    BY <2>3 DEF Ending, Owes
  <2> QED
    BY <1>0, <2>1, <2>3, <2>4, TurnStep DEF Busy
<1> QED
  BY <1>2, <1>3 DEF Rescue

\* The upload of what an earlier runner left, under the record that names the
\* stage: it may be that of a runner at work, which then has none.
LEMMA BootSendOK ==
  ASSUME IInv, NEW r \in Runner, BootSend(r)
  PROVE  IInv'
<1>0. /\ run[r].pc = "booting" /\ TypeOK /\ TableMoves /\ UNCHANGED <<table, user>>
      /\ run \in [Runner -> RunnerState] /\ snap \subseteq Worker /\ faults \in 0..MaxFaults
      /\ node' = node /\ cancel' = cancel /\ client' = client /\ project' = project /\ file' = file
  BY TableSame DEF BootSend, IInv, TypeOK, table, user
<1>1. PICK q \in Unsent(r) :
        /\ Unlocked(q)
        /\ \/ Sent(q) /\ run' = [run EXCEPT ![q].rec = None]
           \/ NotSent(q) /\ run' = Dead(r)
  BY DEF BootSend
<1>2. PICK n, w : n = run[q].rec /\ w = run[q].host
  OBVIOUS
<1>3. q \in Runner /\ n \in Node /\ w \in Worker /\ arch[w][n].by # None /\ n # None
  BY <1>0, <1>1, <1>2, Archived2, LocalRunAssumption
<1>4. CASE Sent(q) /\ run' = [run EXCEPT ![q].rec = None]
  <2>1. /\ HubMoves /\ arch' = arch /\ snap' = snap /\ faults' = faults /\ hub'[n].by # None
        /\ pend' \in [Worker -> SUBSET Node] /\ (\A v \in Worker : pend'[v] \subseteq pend[v]) /\ n \notin pend'[w]
    BY <1>0, <1>2, <1>3, <1>4, SentMoves
  <2>2. PICK u : u = [run[q] EXCEPT !.rec = None]
    OBVIOUS
  <2>3. /\ u \in RunnerState /\ u.pc = run[q].pc /\ u.host = w /\ u.rec = None
        /\ u.ws = run[q].ws /\ u.node = run[q].node /\ u.exit = run[q].exit
        /\ run' = [run EXCEPT ![q] = u] /\ run'[q] = u
    BY <1>0, <1>2, <1>3, <1>4, <2>2 DEF RunnerState
  <2>4. Backed(n)' /\ \A m \in Node : Backed(m) => Backed(m)'
    BY <1>0, <1>3, <2>1 DEF HubMoves, Backed
  <2>5. RunnerOK(q)'
    <3>1. RunnerOK(q) /\ u.pc \notin {"sending", "parting", "rescuing"}
      BY <1>1, <1>3, <2>3 DEF IInv, Unlocked
    <3>2. ASSUME u.pc \in Busy, NEW m, m = u.node
          PROVE  m \in Node /\ m # None /\ Occupied(q, m)'
      <4>1. Occupied(q, m) /\ m \in Node /\ m # None
        BY <1>0, <1>3, <2>3, <3>1, <3>2 DEF RunnerOK, RunnerState
      <4> QED
        BY <1>0, <4>1 DEF Occupied, Runs, Barred
    <3>3. ASSUME u.pc \in {"working", "saving"}, NEW m, m = u.node
          PROVE  Backed(m)'
      <4>1. m \in Node /\ (m = n \/ Backed(m))
        BY <1>2, <1>3, <2>3, <3>1, <3>2, <3>3 DEF RunnerOK, Busy
      <4> QED
        BY <2>4, <4>1
    <3>4. ASSUME u.pc = "reporting", u.exit \in {"ok", "bad"}, NEW m, m = u.node
          PROVE  Backed(m)'
      BY <2>3, <2>4, <3>1, <3>2, <3>4 DEF RunnerOK, Busy
    <3>5. \A m \in Node : /\ node'[m].owner = q => u.pc # "off"
                          /\ DoneBy(q, m)' /\ u.pc # "dead" => u.ws[m].by # None
      BY <1>0, <2>3, <3>1 DEF RunnerOK, DoneBy
    <3>6. PICK m : m = u.node
      OBVIOUS
    <3>7. /\ u.pc # "off" => u.host \in Worker
          /\ u.pc \in {"saving", "sending"} => u.exit \in {"ok", "bad"}
          /\ u.pc = "reporting" => u.exit # "none"
          /\ u.pc \in {"saving", "sending", "reporting"} /\ u.exit \in {"ok", "bad"} => u.ws[m].by # None
      BY <1>3, <2>3, <3>1, <3>6 DEF RunnerOK
    <3>8. /\ u.pc \in Busy => m # None /\ Occupied(q, m)'
          /\ u.pc \in {"working", "saving"} => Backed(m)'
          /\ u.pc = "reporting" /\ u.exit \in {"ok", "bad"} => Backed(m)'
      BY <3>2, <3>3, <3>4, <3>6
    <3> QED
      BY <2>3, <3>1, <3>5, <3>6, <3>7, <3>8 DEF RunnerOK, Occupied, Runs, Backed
  <2>6. ASSUME NEW m \in Node
        PROVE  Keeps(q, m)
    <3>1. (Ending(q) => Ending(q)') /\ (BadTry(q, m) => BadTry(q, m)')
      BY <2>3 DEF Ending, BadTry
    <3>2. Held(q, m) => Held(q, m)'
      <4>1. CASE m = n
        BY <2>4, <4>1 DEF Held
      <4>2. CASE m # n
        <5>1. ~Owes(q, m)
          BY <1>2, <4>2 DEF Owes
        <5> QED
          BY <2>3, <2>4, <5>1 DEF Held
      <4> QED
        BY <4>1, <4>2
    <3> QED
      BY <2>3, <3>1, <3>2 DEF Keeps
  <2>7. ASSUME NEW v \in Worker, NEW m \in pend'[v], AnswersFor(q, v, m)
        PROVE  AnswersFor(q, v, m)'
    BY <1>2, <2>1, <2>7 DEF AnswersFor
  <2> QED
    BY <1>0, <1>3, <2>1, <2>3, <2>5, <2>6, <2>7, RunStep
<1>5. CASE NotSent(q) /\ run' = Dead(r)
  <2>1. PICK x : x = run[r].rec /\ run' = Over(r, x)
    BY <1>5 DEF Dead
  <2>2. /\ HubMoves /\ arch' = arch /\ snap' = snap /\ faults' \in 0..MaxFaults
        /\ pend' = pend /\ pend' \in [Worker -> SUBSET Node]
    BY <1>0, <1>2, <1>3, <1>5, NotSentMoves
  <2> QED
    BY <1>0, <2>1, <2>2, DeathStep
<1> QED
  BY <1>1, <1>4, <1>5

\* What a restore brings is a copy of what the worker or the headnode has, and
\* an archive of somebody wherever the worker had one.
LEMMA CopiedOf ==
  ASSUME IInv, NEW w \in Worker, NEW m \in Node
  PROVE  /\ CopyOf(w, m) \in Archive /\ Copy(CopyOf(w, m), m)
         /\ CopyOf(w, m) # Nothing => CopyOf(w, m).by # None
         /\ arch[w][m].by # None => CopyOf(w, m).by # None
<1>1. /\ hub[m] \in Archive /\ arch[w][m] \in Archive
      /\ Copy(hub[m], m) /\ Copy(arch[w][m], m)
  BY DEF IInv, TypeOK, Copy
<1>2. /\ hub[m] # Nothing => hub[m].by # None
      /\ arch[w][m] # Nothing => arch[w][m].by # None
  BY <1>1 DEF IInv, AllGood, Good
<1>3. (CopyOf(w, m) = hub[m] /\ hub[m] # Nothing) \/ CopyOf(w, m) = arch[w][m]
  BY DEF CopyOf
<1> QED
  BY <1>1, <1>2, <1>3

\* A restored working copy holds archives that were there.
LEMMA RestoredOK ==
  ASSUME IInv, NEW r \in Runner, run[r].pc = "restoring", Restored(r), UNCHANGED <<table, hub, user>>
  PROVE  IInv'
<1>0. /\ TypeOK /\ TableMoves /\ run \in [Runner -> RunnerState] /\ RunnerOK(r) /\ r # None
      /\ node' = node /\ cancel' = cancel /\ hub' = hub /\ client' = client /\ project' = project /\ file' = file
      /\ pend' = pend /\ snap' = snap /\ faults' = faults
  BY TableSame, LocalRunAssumption DEF IInv, TypeOK, table, user, Restored
<1>1. PICK n, w : n = run[r].node /\ w = run[r].host
  OBVIOUS
<1>2. n \in Node /\ n # None /\ w \in Worker /\ Occupied(r, n)
  BY <1>0, <1>1 DEF RunnerOK, RunnerState, Busy
<1>3. PICK From : From = Producer[n] \cup {n}
  OBVIOUS
<1>4. arch' = [arch EXCEPT ![w] = [m \in Node |-> IF m \in From THEN CopyOf(w, m) ELSE arch[w][m]]]
  BY <1>1, <1>3 DEF Restored
<1>5. PICK ws : ws = [m \in Node |-> IF m \in From /\ CopyOf(w, m) # Nothing THEN CopyOf(w, m) ELSE run[r].ws[m]]
  OBVIOUS
<1>6. PICK pc \in {"working", "reporting"} :
        run' = [run EXCEPT ![r] = [@ EXCEPT !.pc = pc, !.rec = n,
                  !.exit = IF pc = "reporting" THEN "missing" ELSE "none", !.ws = ws]]
  BY <1>1, <1>3, <1>5 DEF Restored
<1>7. PICK e : e = IF pc = "reporting" THEN "missing" ELSE "none"
  OBVIOUS
<1>8. PICK u : u = [run[r] EXCEPT !.pc = pc, !.rec = n, !.exit = e, !.ws = ws]
  OBVIOUS
<1>9. run' = [run EXCEPT ![r] = u] /\ run'[r] = u /\ \A s \in Runner \ {r} : run'[s] = run[s]
  <2>1. run'[r] = u
    BY <1>0, <1>6, <1>7, <1>8
  <2> QED
    BY <1>0, <1>6, <2>1
<1>10. /\ u.pc = pc /\ u.host = w /\ u.node = n /\ u.rec = n /\ u.exit = e /\ u.ws = ws
       /\ e \in {"missing", "none"} /\ (pc = "reporting" => e = "missing")
  BY <1>0, <1>1, <1>7, <1>8 DEF RunnerState
<1>11. /\ ws \in [Node -> Archive]
       /\ \A m \in Node : ws[m] = run[r].ws[m] \/ ws[m] = CopyOf(w, m)
       /\ \A m \in Node : run[r].ws[m].by # None => ws[m].by # None
  <2>1. ASSUME NEW m \in Node
        PROVE  ws[m] \in Archive /\ (ws[m] = run[r].ws[m] \/ ws[m] = CopyOf(w, m))
               /\ (run[r].ws[m].by # None => ws[m].by # None)
    BY <1>0, <1>2, <1>5, CopiedOf DEF RunnerState
  <2> QED
    BY <1>5, <2>1
<1>12. u \in RunnerState
  BY <1>0, <1>2, <1>8, <1>10, <1>11 DEF RunnerState, Pc
<1>13. /\ arch' \in [Worker -> [Node -> Archive]]
       /\ \A v \in Worker, m \in Node : /\ arch'[v][m] = arch[v][m] \/ (v = w /\ arch'[v][m] = CopyOf(w, m))
                                        /\ arch[v][m].by # None => arch'[v][m].by # None
  <2>1. PICK row : row = [m \in Node |-> IF m \in From THEN CopyOf(w, m) ELSE arch[w][m]]
    OBVIOUS
  <2>2. arch' = [arch EXCEPT ![w] = row] /\ arch \in [Worker -> [Node -> Archive]]
    BY <1>0, <1>2, <1>4, <2>1 DEF TypeOK
  <2>3. row \in [Node -> Archive] /\ \A m \in Node : /\ row[m] = arch[w][m] \/ row[m] = CopyOf(w, m)
                                                     /\ arch[w][m].by # None => row[m].by # None
    <3>1. \A m \in Node : CopyOf(w, m) \in Archive /\ (arch[w][m].by # None => CopyOf(w, m).by # None)
      BY <1>2, CopiedOf
    <3>2. arch[w] \in [Node -> Archive]
      BY <1>2, <2>2
    <3> QED
      BY <2>1, <3>1, <3>2
  <2> QED
    BY <1>2, <2>2, <2>3
<1>14. StoreMoves /\ Marked'
  <2>1. StoreMoves
    BY <1>0, <1>13 DEF StoreMoves, Backed
  <2> QED
    BY <1>0, <2>1 DEF StoreMoves, Marked, IInv, TypeOK
<1>15. TypeOK'
  <2>1. ASSUME NEW v \in Worker, NEW m \in pend'[v], NEW s \in Runner, AnswersFor(s, v, m)
        PROVE  AnswersFor(s, v, m)'
    <3>1. s # r
      BY <2>1 DEF AnswersFor
    <3> QED
      BY <1>9, <2>1, <3>1 DEF AnswersFor
  <2>2. Recorded'
    BY <1>0, <2>1, RecordedKept DEF TypeOK
  <2>3. run' \in [Runner -> RunnerState]
    BY <1>0, <1>9, <1>12
  <2> QED
    BY <1>0, <1>13, <2>2, <2>3 DEF TypeOK, TableMoves, JobRow, CancelStep
<1>16. RunnerOK(r)'
  <2>1. \A m \in Node : /\ node'[m].owner = r => run'[r].pc # "off"
                        /\ DoneBy(r, m)' /\ run'[r].pc # "dead" => run'[r].ws[m].by # None
    <3>1. run'[r].pc # "off" /\ run'[r].ws = ws
      BY <1>6, <1>9, <1>10
    <3>2. \A m \in Node : run[r].ws[m].by # None => run'[r].ws[m].by # None
      BY <1>11, <3>1
    <3> QED
      BY <1>0, <3>1, <3>2, OwnerPart
  <2>2. Occupied(r, n)'
    BY <1>0, <1>2 DEF Occupied, Runs, Barred
  <2> QED
    BY <1>2, <1>6, <1>9, <1>10, <2>1, <2>2 DEF RunnerOK, Occupied, Runs
<1>17. ASSUME NEW m \in Node
       PROVE  Keeps(r, m)
  BY <1>0, <1>9, <1>10 DEF Keeps, Ending, BadTry, Held, Owes, Backed
<1>18. ASSUME NEW m \in Node, NEW a \in Archive, Copy(a, m)'
       PROVE  Copy(a, m)
  <2>1. Copy(CopyOf(w, m), m)
    BY <1>2, CopiedOf
  <2>2. CASE \E v \in Worker : a = arch'[v][m]
    BY <1>13, <2>1, <2>2 DEF Copy
  <2>3. CASE \E s \in Runner : a = run'[s].ws[m]
    <3>1. PICK s \in Runner : a = run'[s].ws[m]
      BY <2>3
    <3>2. CASE s = r
      <4>1. a = ws[m]
        BY <1>9, <1>10, <3>1, <3>2
      <4>2. a = run[r].ws[m] \/ a = CopyOf(w, m)
        BY <1>11, <4>1
      <4> QED
        BY <2>1, <4>2 DEF Copy
    <3> QED
      BY <1>9, <3>1, <3>2 DEF Copy
  <2> QED
    BY <1>0, <1>18, <2>2, <2>3 DEF Copy
<1>19. \A s \in Runner : Same(s) \/ (RunnerOK(s)' /\ \A m \in Node : Keeps(s, m))
  BY <1>9, <1>16, <1>17 DEF Same
<1> QED
  BY <1>0, <1>14, <1>15, <1>18, <1>19, StepOK

\* A restore succeeds or fails.
LEMMA RestoreOK ==
  ASSUME IInv, NEW r \in Runner, Restore(r)
  PROVE  IInv'
<1>1. run[r].pc = "restoring" /\ UNCHANGED <<table, hub, user>>
  BY DEF Restore
<1>2. CASE Restored(r)
  BY <1>1, <1>2, RestoredOK
<1>3. CASE Fault /\ run' = [run EXCEPT ![r].pc = "closing"] /\ UNCHANGED shelf
  BY <1>1, <1>3, RestoreFailsOK
<1> QED
  BY <1>2, <1>3 DEF Restore

-----------------------------------------------------------------------------
(* The client, and the invariant.                                          *)

Result == {"none", "success", "failure", "gaveup", "stopped"}
ClientRow == [at : Phase, stops : BOOLEAN, told : BOOLEAN, result : Result, fetched : BOOLEAN]

\* A step of the client leaves the stages and the runners alone.  It takes
\* archives from the headnode, and removes them only when it has fetched them.
LEMMA ClientStep ==
  ASSUME IInv, UNCHANGED <<node, run, shelf>>, Barred' <=> Barred, job' \in JobRow, cancel' \in CancelStep,
         job'.status = "completed" => job.status = "completed",
         client' \in ClientRow, file' \in BOOLEAN, faults' \in 0..MaxFaults,
         project' \in [Node -> Archive], \A n \in Node : project'[n] \in {project[n], hub[n]},
         hub' \in [Node -> Archive], \A n \in Node : hub'[n] = hub[n] \/ (hub'[n] = Nothing /\ client'.fetched),
         client.fetched => client'.fetched, ClientInv'
  PROVE  IInv'
<1> USE DEF IInv
<1>0. node' = node /\ run' = run /\ arch' = arch /\ pend' = pend /\ snap' = snap
  BY DEF shelf
<1>1. TableMoves
  BY <1>0, TableStays
<1>2. StoreMoves
  BY <1>0 DEF StoreMoves, Backed
<1>3. \A r \in Runner : Same(r)
  BY <1>0 DEF Same
<1>4. \A r \in Runner, n \in Node : Keeps(r, n)
  BY <1>2, <1>3, SameKeeps
<1>5. AllGood'
  <2> SUFFICES ASSUME NEW n \in Node, NEW a \in Archive, Copy(a, n)'
               PROVE  Good(a, n)'
    BY DEF AllGood
  <2>1. Copy(a, n) \/ a = Nothing
    BY <1>0 DEF Copy
  <2>2. CASE Copy(a, n)
    <3>1. Good(a, n)
      BY <2>2 DEF AllGood
    <3> QED
      BY <1>1, <1>4, <3>1, GoodKept
  <2>3. CASE a = Nothing
    BY <2>3, LocalRunAssumption DEF Nothing, Good
  <2> QED
    BY <2>1, <2>2, <2>3
<1>6. \A r \in Runner : RunnerOK(r)'
  BY <1>1, <1>2, <1>3, SameOK
<1>7. Owned'
  BY <1>1, <1>2, OwnedKept
<1>8. Marked'
  BY <1>0 DEF Marked
<1>9. Recorded'
  BY <1>0 DEF TypeOK, Recorded
<1>10. TypeOK'
  BY <1>0, <1>1, <1>9 DEF TypeOK, TableMoves, JobRow, CancelStep, ClientRow, Result
<1>11. TabInv'
  BY <1>1 DEF TableMoves
<1> QED
  BY <1>5, <1>6, <1>7, <1>8, <1>10, <1>11

\* A client that only goes on: it touches no archive and no row.
LEMMA QuietStep ==
  ASSUME IInv, Quiet, UNCHANGED <<node, project>>, job' = job \/ job' = [status |-> "active", source |-> TRUE],
         cancel' = cancel \/ (cancel = "idle" /\ cancel' = "notify"),
         client' \in ClientRow, file' \in BOOLEAN, faults' \in 0..MaxFaults,
         client'.fetched = client.fetched, ClientInv'
  PROVE  IInv'
<1>0. node' = node /\ run' = run /\ shelf' = shelf /\ hub' = hub /\ project' = project
  BY DEF Quiet
<1>1. (Barred' <=> Barred) /\ cancel' \in CancelStep
  BY DEF Barred, CancelStep, IInv, TypeOK
<1>2. job' \in JobRow /\ (job'.status = "completed" => job.status = "completed")
  <2>1. job \in JobRow
    BY DEF JobRow, IInv, TypeOK
  <2>2. CASE job' = job
    BY <2>1, <2>2
  <2>3. CASE job' = [status |-> "active", source |-> TRUE]
    BY <2>3 DEF JobRow
  <2> QED
    BY <2>2, <2>3
<1>3. hub \in [Node -> Archive] /\ project \in [Node -> Archive]
  BY DEF IInv, TypeOK
<1> QED
  BY <1>0, <1>1, <1>2, <1>3, ClientStep

\* The steps of the client.
LEMMA ClientOK ==
  ASSUME IInv, Client \/ Submit \/ Signal \/ KillClient
  PROVE  IInv'
<1>0. /\ TypeOK /\ client \in ClientRow /\ faults \in 0..MaxFaults /\ file \in BOOLEAN
      /\ hub \in [Node -> Archive] /\ project \in [Node -> Archive] /\ ClientInv /\ TabInv /\ Owned
  BY DEF IInv, TypeOK, ClientRow, Result
<1>1. Fault => faults' \in 0..MaxFaults
  BY <1>0, FaultBound
<1>2. ASSUME NEW p \in Phase, client' = [client EXCEPT !.at = p]
      PROVE  /\ client' \in ClientRow /\ client'.at = p /\ client'.result = client.result
             /\ client'.fetched = client.fetched
  <2>1. client \in ClientRow
    BY <1>0
  <2>2. client' \in ClientRow
    BY <1>2, <2>1 DEF ClientRow
  <2>3. client'.at = p /\ client'.result = client.result
    BY <1>2, <2>1 DEF ClientRow
  <2>4. client'.fetched = client.fetched
    BY <1>2, <2>1 DEF ClientRow
  <2> QED
    BY <2>2, <2>3, <2>4
<1>3. ASSUME NEW p \in Phase, NEW x \in Result,
             \/ client' = [client EXCEPT !.at = p, !.result = x]
             \/ client' = [client EXCEPT !.at = p, !.stops = TRUE, !.result = x]
      PROVE  /\ client' \in ClientRow /\ client'.at = p /\ client'.result = x
             /\ client'.fetched = client.fetched
  <2>1. client \in ClientRow
    BY <1>0
  <2>2. client' \in ClientRow
    BY <1>3, <2>1 DEF ClientRow
  <2>3. client'.at = p /\ client'.result = x
    BY <1>3, <2>1 DEF ClientRow
  <2>4. client'.fetched = client.fetched
    BY <1>3, <2>1 DEF ClientRow
  <2> QED
    BY <2>2, <2>3, <2>4
<1>4. ASSUME node' = node, project' = project
      PROVE  AllDone' = AllDone
  BY <1>4 DEF AllDone
<1>5. CASE Submit
  <2>1. CASE client' = [client EXCEPT !.at = "accepted"] /\ UNCHANGED faults
    <3>1. /\ client' \in ClientRow /\ client'.at = "accepted" /\ client'.result = client.result
          /\ client'.fetched = client.fetched
      BY <1>2, <2>1 DEF Phase
    <3>2. ClientInv'
      BY <1>0, <1>5, <3>1 DEF Submit, ClientInv, At
    <3> QED
      BY <1>0, <1>5, <2>1, <3>1, <3>2, QuietStep DEF Submit
  <2>2. CASE Fault /\ client' = [client EXCEPT !.at = "ended", !.result = "gaveup"]
    <3>1. /\ client' \in ClientRow /\ client'.at = "ended" /\ client'.result = "gaveup"
          /\ client'.fetched = client.fetched
      BY <1>3, <2>2 DEF Phase, Result
    <3>2. ClientInv'
      BY <3>1 DEF ClientInv, At
    <3> QED
      BY <1>0, <1>1, <1>5, <2>2, <3>1, <3>2, QuietStep DEF Submit
  <2> QED
    BY <1>5, <2>1, <2>2 DEF Submit
<1>6. CASE SaveRunState
  <2>1. /\ client' \in ClientRow /\ client'.at = "watching" /\ client'.result = client.result
        /\ client'.fetched = client.fetched
    BY <1>2, <1>6 DEF Phase, SaveRunState
  <2>2. ClientInv'
    BY <1>0, <1>6, <2>1 DEF SaveRunState, ClientInv, At
  <2> QED
    BY <1>0, <1>6, <2>1, <2>2, QuietStep DEF SaveRunState, table
<1>7. CASE Poll
  <2>1. PICK x : x = IF job.status = "completed" THEN "success" ELSE "failure"
    OBVIOUS
  <2>2. /\ client' \in ClientRow /\ client'.at = "fetching" /\ client'.result = x
        /\ client'.fetched = client.fetched
    BY <1>3, <1>7, <2>1 DEF Phase, Result, Poll
  <2>3. node' = node /\ ~client.fetched /\ (x = "success" => AllDone)
    BY <1>0, <1>7, <2>1 DEF Poll, TabInv, ClientInv, At, table
  <2>4. ClientInv'
    BY <2>2, <2>3 DEF ClientInv, At, AllDone
  <2> QED
    BY <1>0, <1>7, <2>2, <2>4, QuietStep DEF Poll, table
<1>8. CASE GiveUp
  <2>1. /\ client' \in ClientRow /\ client'.at = "clearing" /\ client'.result = "gaveup"
        /\ client'.fetched = client.fetched
    BY <1>3, <1>8 DEF Phase, Result, GiveUp
  <2>2. ClientInv'
    BY <2>1 DEF ClientInv, At
  <2> QED
    BY <1>0, <1>1, <1>8, <2>1, <2>2, QuietStep DEF GiveUp, table
<1>9. CASE Signal \/ Recover
  <2>1. PICK p \in {"stopping", "clearing", "ended"} :
          client' = [client EXCEPT !.at = p, !.stops = TRUE, !.result = "stopped"]
    BY <1>9 DEF Signal, Recover
  <2>2. client' \in ClientRow /\ client'.at = p /\ client'.result = "stopped" /\ client'.fetched = client.fetched
    BY <1>3, <2>1 DEF Phase, Result
  <2>3. ClientInv'
    BY <2>1, <2>2 DEF ClientInv, At
  <2> QED
    BY <1>0, <1>9, <2>2, <2>3, QuietStep DEF Signal, Recover, table
<1>10. CASE KillClient
  <2>1. /\ client' \in ClientRow /\ client'.at = "killed" /\ client'.result = client.result
        /\ client'.fetched = client.fetched
    BY <1>2, <1>10 DEF Phase, KillClient
  <2>2. node' = node /\ project' = project
    BY <1>10 DEF KillClient, table
  <2>3. ClientInv'
    BY <1>0, <2>1, <2>2 DEF ClientInv, At, AllDone
  <2> QED
    BY <1>0, <1>10, <2>1, <2>2, <2>3, QuietStep DEF KillClient, table
<1>11. CASE Stop \/ Answered
  <2>1. client.result # "success"
    BY <1>0, <1>11 DEF Stop, Answered, ClientInv, At
  <2>2. PICK p \in {"calling", "fetching"} :
          client' = [client EXCEPT !.at = p] \/ client' = [client EXCEPT !.at = p, !.told = TRUE]
    BY <1>11 DEF Stop, Answered
  <2>3. /\ client' \in ClientRow /\ client'.at = p /\ client'.result = client.result
        /\ client'.fetched = client.fetched
    <3>0. p \in Phase
      BY DEF Phase
    <3>1. client \in ClientRow
      BY <1>0
    <3>2. client' \in ClientRow
      BY <2>2, <3>0, <3>1 DEF ClientRow
    <3>3. client'.at = p /\ client'.result = client.result
      BY <2>2, <3>0, <3>1 DEF ClientRow
    <3>4. client'.fetched = client.fetched
      BY <2>2, <3>0, <3>1 DEF ClientRow
    <3> QED
      BY <3>2, <3>3, <3>4
  <2>4. ClientInv'
    BY <2>1, <2>2, <2>3 DEF ClientInv, At
  <2>5. /\ cancel' = cancel \/ (cancel = "idle" /\ cancel' = "notify")
        /\ faults' \in 0..MaxFaults
    BY <1>0, <1>1, <1>11 DEF Stop, Answered, table
  <2> QED
    BY <1>0, <1>11, <2>3, <2>4, <2>5, QuietStep DEF Stop, Answered, table
<1>12. CASE Fetch
  <2>0. node' = node /\ UNCHANGED <<table, file>> /\ Quiet /\ client.at = "fetching"
    BY <1>12 DEF Fetch, table, At
  <2>1. CASE /\ project' = [n \in Node |-> IF hub[n] # Nothing THEN hub[n] ELSE project[n]]
             /\ client' = [client EXCEPT !.at = "deleting", !.fetched = TRUE] /\ UNCHANGED faults
    <3>1. /\ client' \in ClientRow /\ client'.at = "deleting" /\ client'.result = client.result
          /\ client'.fetched
      <4>0. "deleting" \in Phase
        BY DEF Phase
      <4>1. client \in ClientRow
        BY <1>0
      <4>2. client' \in ClientRow
        BY <2>1, <4>0, <4>1 DEF ClientRow
      <4>3. client'.at = "deleting" /\ client'.result = client.result
        BY <2>1, <4>0, <4>1 DEF ClientRow
      <4>4. client'.fetched
        BY <2>1, <4>0, <4>1 DEF ClientRow
      <4> QED
        BY <4>2, <4>3, <4>4
    <3>2. /\ project' \in [Node -> Archive] /\ \A n \in Node : project'[n] \in {project[n], hub[n]}
          /\ \A n \in Node : hub[n].by # None => project'[n] = hub[n]
      BY <1>0, <2>1 DEF Nothing
    <3>3. client.result = "success" => AllDone' /\ \A n \in Node : project'[n].by # None
      <4>1. client.result = "success" => AllDone /\ ~client.fetched
        BY <1>0, <2>0 DEF ClientInv, At
      <4>2. client.result = "success" => \A n \in Node : hub[n].by # None
        BY <1>0, <4>1 DEF Owned, AllDone, Backed
      <4> QED
        BY <2>0, <3>2, <4>1, <4>2 DEF AllDone
    <3>4. ClientInv'
      BY <3>1, <3>3 DEF ClientInv, At
    <3>5. /\ UNCHANGED <<node, run, shelf>> /\ (Barred' <=> Barred) /\ job' = job /\ job' \in JobRow
          /\ cancel' \in CancelStep /\ hub' = hub /\ file' = file /\ faults' = faults
      BY <1>0, <2>0, <2>1 DEF Quiet, table, Barred, TypeOK, JobRow, CancelStep
    <3> QED
      BY <1>0, <3>1, <3>2, <3>4, <3>5, ClientStep
  <2>2. CASE /\ client' = [client EXCEPT !.at = "clearing"] /\ UNCHANGED project
             /\ UNCHANGED faults \/ Fault
    <3>1. /\ client' \in ClientRow /\ client'.at = "clearing" /\ client'.result = client.result
          /\ client'.fetched = client.fetched
      BY <1>2, <2>2 DEF Phase
    <3>2. ClientInv'
      BY <1>0, <2>0, <2>2, <3>1 DEF ClientInv, At, AllDone
    <3> QED
      BY <1>0, <1>1, <2>0, <2>2, <3>1, <3>2, QuietStep DEF table
  <2> QED
    BY <1>12, <2>1, <2>2 DEF Fetch
<1>13. CASE Delete
  <2>1. /\ client' \in ClientRow /\ client'.at = "clearing" /\ client'.result = client.result
        /\ client'.fetched = client.fetched
    BY <1>2, <1>13 DEF Phase, Delete
  <2>2. node' = node /\ project' = project /\ client.fetched /\ UNCHANGED <<table, shelf, run, project, file>>
    BY <1>0, <1>13 DEF Delete, table, ClientInv, At
  <2>3. ClientInv'
    BY <1>0, <1>13, <2>1, <2>2 DEF Delete, ClientInv, At, AllDone
  <2>4. hub' \in [Node -> Archive] /\ \A n \in Node : hub'[n] = hub[n] \/ hub'[n] = Nothing
    <3>1. Nothing \in Archive
      BY DEF Nothing, Archive, Whole
    <3> QED
      BY <1>0, <1>13, <3>1 DEF Delete
  <2>5. /\ UNCHANGED <<node, run, shelf>> /\ (Barred' <=> Barred) /\ job' = job /\ job' \in JobRow
        /\ cancel' \in CancelStep /\ file' = file /\ faults' \in 0..MaxFaults
    BY <1>0, <1>1, <1>13, <2>2 DEF Delete, table, Barred, TypeOK, JobRow, CancelStep
  <2> QED
    BY <1>0, <2>1, <2>2, <2>3, <2>4, <2>5, ClientStep
<1>14. CASE ClearRunState
  <2>1. /\ client' \in ClientRow /\ client'.at = "ended" /\ client'.result = client.result
        /\ client'.fetched = client.fetched
    BY <1>2, <1>14 DEF Phase, ClearRunState
  <2>2. node' = node /\ project' = project
    BY <1>14 DEF ClearRunState, table
  <2>3. ClientInv'
    BY <1>0, <1>14, <2>1, <2>2 DEF ClearRunState, ClientInv, At, AllDone
  <2> QED
    BY <1>0, <1>14, <2>1, <2>2, <2>3, QuietStep DEF ClearRunState, table
<1> QED
  BY <1>5, <1>6, <1>7, <1>8, <1>9, <1>10, <1>11, <1>12, <1>13, <1>14 DEF Client

\* A pipeline that waits for its first run.
LEMMA InitOK ==
  Init => IInv
<1> SUFFICES ASSUME Init
             PROVE  IInv
  OBVIOUS
<1>1. \A r \in Runner : run[r] = Idle /\ run[r].pc = "off" /\ run[r].ws = [n \in Node |-> Nothing]
  BY DEF Init, Idle
<1>2. Nothing \in Archive /\ Nothing.by = None /\ Nothing.level = 0
  BY DEF Nothing, Archive, Whole
<1>3. /\ node \in [Node -> Row]
      /\ \A n \in Node : /\ node[n].status = "ready" => Producer[n] = {}
                         /\ node[n].status \in {"ready", "waiting"} /\ node[n].owner = None
  <2>1. \A n \in Node : [status |-> IF Producer[n] = {} THEN "ready" ELSE "waiting", owner |-> None, again |-> FALSE] \in Row
    BY DEF Row
  <2> QED
    BY <2>1 DEF Init
<1>4. TypeOK
  <2>1. run \in [Runner -> RunnerState]
    BY IdleType DEF Init
  <2>2. Recorded
    BY DEF Recorded, Init
  <2>3. /\ hub \in [Node -> Archive] /\ project \in [Node -> Archive] /\ arch \in [Worker -> [Node -> Archive]]
        /\ pend \in [Worker -> SUBSET Node] /\ snap \subseteq Worker /\ file \in BOOLEAN
    BY <1>2 DEF Init
  <2>4. faults \in 0..MaxFaults
    BY LocalRunAssumption DEF Init
  <2>5. job \in JobRow /\ cancel \in CancelStep
    BY DEF Init, JobRow, CancelStep
  <2>6. client \in ClientRow
    BY DEF Init, ClientRow, Phase, Result
  <2> QED
    BY <1>3, <2>1, <2>2, <2>3, <2>4, <2>5, <2>6 DEF TypeOK, JobRow, CancelStep, ClientRow, Result
<1>5. TabInv
  BY <1>3 DEF TabInv, Init, Barred
<1>6. AllGood
  <2>1. ASSUME NEW n \in Node, NEW a \in Archive, Copy(a, n)
        PROVE  a = Nothing
    BY <1>1, <2>1 DEF Copy, Init
  <2> QED
    BY <2>1, NothingIsGood DEF AllGood
<1>7. \A r \in Runner : RunnerOK(r)
  BY <1>1, <1>3, LocalRunAssumption DEF RunnerOK, Busy, DoneBy
<1>8. Owned /\ Marked
  BY <1>3 DEF Owned, Marked, Init
<1>9. ClientInv
  BY DEF ClientInv, Init, At
<1> QED
  BY <1>4, <1>5, <1>6, <1>7, <1>8, <1>9 DEF IInv

\* Every step keeps the invariant, so it holds in every state.
LEMMA NextOK ==
  ASSUME IInv, ~Interleaving, [Next]_vars
  PROVE  IInv'
<1>1. CASE UNCHANGED vars
  <2>1. UNCHANGED <<table, hub, shelf, user>> /\ run' = run /\ faults' = faults
    BY <1>1 DEF vars
  <2>2. TableMoves /\ faults' \in 0..MaxFaults /\ run' \in [Runner -> RunnerState]
    BY <2>1, TableSame DEF IInv, TypeOK
  <2>3. \A r \in Runner : Same(r)
    BY <2>1 DEF Same
  <2> QED
    BY <2>1, <2>2, <2>3, CancelSteps
<1>2. ASSUME NEW r \in Runner, Moves(r)
      PROVE  IInv'
  BY <1>2, BootSendOK, BootedOK, AskOK, RestoreOK, PreserveSaveOK, PreserveSendOK, ReportOK, CloseOK, PartOK,
     CancelKillOK, PreserveOK, RescueOK DEF Moves
<1>3. ASSUME NEW r \in Runner, Work(r) \/ Crash(r) \/ Preempt(r) \/ \E w \in Worker : Start(r, w)
      PROVE  IInv'
  BY <1>3, WorkOK, CrashOK, PreemptOK, StartOK
<1>4. CASE Headnode
  BY <1>4, HeadnodeOK
<1>5. CASE Client \/ Submit \/ Signal \/ KillClient
  BY <1>5, ClientOK
<1>6. ~Refresh
  BY DEF Refresh
<1> QED
  BY <1>1, <1>2, <1>3, <1>4, <1>5, <1>6 DEF Next

-----------------------------------------------------------------------------
(* What follows.                                                           *)

\* The invariant of the runs in which the scheduler does not walk mid-cancel.
LEMMA Invariance ==
  ASSUME ~Interleaving
  PROVE  Spec => []IInv
BY InitOK, NextOK, PTL DEF Spec

\* Types, and every archive that waits on a worker for its upload has the
\* record of a runner, alive or dead, which will send it.
THEOREM LocalTypeOK ==
  ASSUME ~Interleaving
  PROVE  Spec => []TypeOK
<1>1. IInv => TypeOK
  BY DEF IInv
<1> QED
  BY <1>1, Invariance, PTL

\* A copy of a done stage which is its owner's holds all of its outputs.
LEMMA DoneIsWhole ==
  ASSUME IInv, NEW n \in Node, node[n].status = "done", NEW a \in Archive, Copy(a, n), a.by = node[n].owner
  PROVE  a.by \in Runner /\ a.level = Whole
<1>1. PICK r \in Runner : node[n].owner = r
  BY DEF IInv, Owned, TypeOK, Row
<1>2. Good(a, n)
  BY DEF IInv, AllGood
<1>3. ~Spent(r, n)
  BY <1>1 DEF Spent, Shut, DoneBy
<1>4. ~(a.level < Whole)
  BY <1>1, <1>2, <1>3 DEF Good
<1>5. a.level \in 0..Whole
  BY DEF Archive
<1> QED
  BY <1>1, <1>4, <1>5 DEF Whole

\* Whoever runs and wherever uploads overtake each other, the headnode has all
\* outputs of a done stage until the client has fetched them, and the client of
\* a successful run brings back those of every stage (complete_local_transfer
\* and fetch_local_results: the last upload wins).
THEOREM LocalOutputsArrive ==
  ASSUME ~Interleaving
  PROVE  Spec => []OutputsArrive
<1>1. ASSUME IInv
      PROVE  OutputsArrive
  <2> SUFFICES ASSUME NEW n \in Node
               PROVE  /\ node[n].status = "done" /\ ~client.fetched => Arrived(n, hub[n])
                      /\ At("ended") /\ client.result = "success" /\ client.fetched => Arrived(n, project[n])
    BY DEF OutputsArrive
  <2>1. /\ hub[n] \in Archive /\ project[n] \in Archive
        /\ Copy(hub[n], n) /\ Copy(project[n], n)
    BY <1>1 DEF IInv, TypeOK, Copy
  <2>2. ASSUME node[n].status = "done", ~client.fetched
        PROVE  Arrived(n, hub[n])
    <3>1. hub[n].by # None
      BY <1>1, <2>2 DEF IInv, Owned, Backed
    <3> QED
      BY <1>1, <2>1, <2>2, <3>1, DoneIsWhole DEF Arrived
  <2>3. ASSUME At("ended"), client.result = "success", client.fetched
        PROVE  Arrived(n, project[n])
    <3>1. node[n].status = "done" /\ project[n].by # None
      BY <1>1, <2>3 DEF IInv, ClientInv, AllDone
    <3> QED
      BY <1>1, <2>1, <3>1, DoneIsWhole DEF Arrived
  <2> QED
    BY <2>2, <2>3
<1> QED
  BY <1>1, Invariance, PTL

\* Nobody starts a container but the runner that has just restored the inputs.
LEMMA OnlyRestored ==
  ASSUME TypeOK, Next, NEW r \in Runner, run[r].pc = "restoring", run'[r].pc = "working"
  PROVE  Restored(r)
<1>0. run \in [Runner -> RunnerState]
  BY DEF TypeOK
<1>1. ASSUME NEW s \in Runner, NEW x, run' = Over(s, x)
      PROVE  FALSE
  <2>1. run'[s].pc = "dead" \/ s # r
    BY <1>0, <1>1, IdleType DEF Over, RunnerState
  <2> QED
    BY <1>0, <1>1, <2>1 DEF Over
<1>2. ASSUME NEW s \in Runner, run' = Dead(s) \/ run' = Parted(s)
      PROVE  FALSE
  <2>1. PICK x : run' = Over(s, x)
    BY <1>2 DEF Dead, Parted
  <2> QED
    BY <1>1, <2>1
<1>3. ASSUME NEW s \in Runner, NEW pc, pc # "working", run' = [run EXCEPT ![s].pc = pc]
      PROVE  FALSE
  BY <1>0, <1>3 DEF RunnerState
<1>4. ASSUME run' = run
      PROVE  FALSE
  BY <1>4
<1>5. ASSUME NEW s \in Runner, Moves(s)
      PROVE  Restored(r)
  <2>1. ~(BootSend(s) /\ \E q \in Runner : run' = [run EXCEPT ![q].rec = None])
    BY <1>0 DEF RunnerState
  <2>2. ~BootSend(s)
    BY <1>2, <2>1 DEF BootSend, Unsent
  <2>3. ~Booted(s) /\ ~PreserveSave(s) /\ ~Close(s) /\ ~Part(s) /\ ~CancelKill(s) /\ ~Preserve(s) /\ ~Rescue(s)
    BY <1>2, <1>3 DEF Booted, PreserveSave, Close, Part, CancelKill, Preserve, Rescue, Archived
  <2>4. ~Ask(s) /\ ~PreserveSend(s) /\ ~Report(s)
    BY <1>0, <1>3 DEF Ask, PreserveSend, Report, RunnerState
  <2>5. CASE Restore(s)
    <3>1. Restored(s) /\ s = r
      <4>1. Restored(s)
        BY <1>3, <2>5 DEF Restore
      <4> QED
        BY <1>0, <4>1 DEF Restored
    <3> QED
      BY <3>1
  <2> QED
    BY <1>5, <2>2, <2>3, <2>4, <2>5 DEF Moves
<1>6. ASSUME NEW s \in Runner, Work(s) \/ Crash(s) \/ Preempt(s) \/ \E w \in Worker : Start(s, w)
      PROVE  FALSE
  <2>1. ~Work(s) /\ ~Preempt(s)
    BY <1>0 DEF Work, Preempt, RunnerState, Alive
  <2>2. ~\E w \in Worker : Start(s, w)
    BY <1>0, IdleType DEF Start, RunnerState
  <2> QED
    BY <1>2, <1>6, <2>1, <2>2 DEF Crash
<1>7. ~Headnode
  <2>1. ~CancelNotify
    <3>1. \A x : [run[r] EXCEPT !.doomed = x].pc = run[r].pc
      BY <1>0 DEF RunnerState
    <3> QED
      BY <3>1 DEF CancelNotify
  <2> QED
    BY <1>4, <2>1 DEF Headnode, CancelBlock, CancelWrite, RunOut, Reap
<1>8. ~(Refresh \/ Client \/ Submit \/ Signal \/ KillClient)
  BY <1>4 DEF Refresh, Client, Submit, Signal, KillClient, SaveRunState, Poll, GiveUp, Recover, Stop, Answered, Fetch,
              Delete, ClearRunState, Quiet
<1> QED
  BY <1>5, <1>6, <1>7, <1>8 DEF Next

\* A container starts on finished outputs of its producers (restore_remote_node
\* prefers the headnode's copy, and that of a done stage is whole).
THEOREM LocalInputsAreFinished ==
  ASSUME ~Interleaving
  PROVE  Spec => InputsAreFinished
<1>1. ASSUME IInv, [Next]_vars, NEW r \in Runner, run[r].pc = "restoring", run'[r].pc = "working",
             NEW p \in Producer[run[r].node], node[p].status = "done", hub[p].by = node[p].owner,
             p \notin pend[run[r].host]
      PROVE  run'[r].ws[p].level = Whole
  <2>0. TypeOK /\ run \in [Runner -> RunnerState] /\ Next
    BY <1>1 DEF IInv, TypeOK, vars
  <2>1. PICK n, w : n = run[r].node /\ w = run[r].host
    OBVIOUS
  <2>2. n \in Node /\ p \in Node
    BY <1>1, <2>0, <2>1, LocalRunAssumption DEF IInv, RunnerOK, RunnerState, Busy
  <2>3. hub[p].level = Whole /\ hub[p] # Nothing
    <3>1. hub[p] \in Archive /\ Copy(hub[p], p)
      BY <2>0, <2>2 DEF TypeOK, Copy
    <3>2. hub[p].by \in Runner /\ hub[p].level = Whole
      BY <1>1, <2>2, <3>1, DoneIsWhole
    <3> QED
      BY <3>2 DEF Nothing, Whole
  <2>4. CopyOf(w, p) = hub[p]
    BY <1>1, <2>1, <2>3 DEF CopyOf
  <2>5. Restored(r)
    BY <1>1, <2>0, OnlyRestored
  <2>6. PICK From : From = Producer[n] \cup {n}
    OBVIOUS
  <2>7. PICK ws : ws = [m \in Node |-> IF m \in From /\ CopyOf(w, m) # Nothing THEN CopyOf(w, m) ELSE run[r].ws[m]]
    OBVIOUS
  <2>8. PICK pc \in {"working", "reporting"} :
          run' = [run EXCEPT ![r] = [@ EXCEPT !.pc = pc, !.rec = n,
                    !.exit = IF pc = "reporting" THEN "missing" ELSE "none", !.ws = ws]]
    BY <2>1, <2>5, <2>6, <2>7 DEF Restored
  <2>9. run'[r].ws = ws
    BY <2>0, <2>8 DEF RunnerState
  <2>10. ws[p] = hub[p]
    BY <1>1, <2>1, <2>2, <2>3, <2>4, <2>6, <2>7
  <2> QED
    BY <2>3, <2>9, <2>10
<1>2. IInv /\ [Next]_vars =>
        [\A r \in Runner : run[r].pc = "restoring" /\ run'[r].pc = "working" =>
           \A p \in Producer[run[r].node] :
             \/ run'[r].ws[p].level = Whole
             \/ node[p].status # "done" \/ hub[p].by # node[p].owner \/ p \in pend[run[r].host]]_vars
  BY <1>1
<1> QED
  BY <1>2, Invariance, PTL DEF Spec, InputsAreFinished

\* The steps that touch what a worker keeps: an archive is saved, sent or
\* restored.
LEMMA ShelfMoves ==
  ASSUME Next
  PROVE  \/ arch' = arch /\ pend' = pend
         \/ \E q \in Runner : Sent(q)
         \/ \E q \in Runner : Save(q)
         \/ \E q \in Runner : run[q].pc = "restoring" /\ Restored(q)
<1> DEFINE Kept == arch' = arch /\ pend' = pend
           Touched == \E q \in Runner : Sent(q) \/ Save(q) \/ (run[q].pc = "restoring" /\ Restored(q))
<1>1. ASSUME NEW r \in Runner, Moves(r)
      PROVE  Kept \/ Touched
  <2>1. BootSend(r) \/ PreserveSend(r) \/ Part(r) \/ Rescue(r) => Kept \/ Touched
    BY DEF BootSend, PreserveSend, Part, Rescue, NotSent, shelf, Unsent
  <2>2. PreserveSave(r) \/ Close(r) \/ Preserve(r) => Kept \/ Touched
    BY DEF PreserveSave, Close, Preserve, Archived, shelf
  <2>3. Booted(r) \/ Ask(r) \/ Report(r) \/ CancelKill(r) => Kept
    BY DEF Booted, Ask, Report, CancelKill, shelf
  <2>4. Restore(r) => Kept \/ Touched
    BY DEF Restore, shelf
  <2> HIDE DEF Kept, Touched
  <2> QED
    BY <1>1, <2>1, <2>2, <2>3, <2>4 DEF Moves
<1>2. ASSUME NEW r \in Runner, Work(r) \/ Crash(r) \/ Preempt(r) \/ \E w \in Worker : Start(r, w)
      PROVE  Kept
  BY <1>2 DEF Work, Crash, Preempt, Start, shelf
<1>3. Headnode \/ Refresh => Kept
  BY DEF Headnode, Refresh, CancelNotify, CancelBlock, CancelWrite, RunOut, Reap, shelf
<1>4. Client \/ Submit \/ Signal \/ KillClient => Kept
  BY DEF Client, Submit, Signal, KillClient, SaveRunState, Poll, GiveUp, Recover, Stop, Answered, Fetch, Delete,
         ClearRunState, Quiet, shelf
<1>5. Kept \/ Touched
  <2> HIDE DEF Kept, Touched
  <2> QED
    BY <1>1, <1>2, <1>3, <1>4 DEF Next
<1> QED
  BY <1>5

\* Whatever the step, what waits on a worker for its upload is sent or stays.
LEMMA UnsentKept ==
  ASSUME TypeOK, [Next]_vars, NEW w \in Worker, NEW n \in Node
  PROVE  KeptUnsent(w, n)
<1> SUFFICES ASSUME n \in pend[w]
             PROVE  KeptUnsent(w, n)
  BY DEF KeptUnsent
<1>0. /\ pend \in [Worker -> SUBSET Node] /\ arch \in [Worker -> [Node -> Archive]]
      /\ hub \in [Node -> Archive]
  BY DEF TypeOK
<1>1. CASE arch' = arch /\ pend' = pend
  BY <1>1 DEF KeptUnsent
<1>2. ASSUME NEW q \in Runner, Sent(q)
      PROVE  KeptUnsent(w, n)
  <2>1. PICK m, v : m = run[q].rec /\ v = run[q].host
    OBVIOUS
  <2>2. /\ hub' = [hub EXCEPT ![m] = arch[v][m]] /\ arch' = arch
        /\ pend' = [pend EXCEPT ![v] = @ \ {m}]
    BY <1>2, <2>1 DEF Sent, Received
  <2>3. CASE w = v /\ n = m
    BY <1>0, <2>2, <2>3 DEF KeptUnsent
  <2>4. CASE ~(w = v /\ n = m)
    BY <1>0, <2>2, <2>4 DEF KeptUnsent
  <2> QED
    BY <2>3, <2>4
<1>3. ASSUME NEW q \in Runner, Save(q)
      PROVE  KeptUnsent(w, n)
  <2>1. PICK m, v, a : m = run[q].rec /\ v = run[q].host /\ a = Outputs(q)
    OBVIOUS
  <2>2. arch' = [arch EXCEPT ![v][m] = a] /\ pend' = [pend EXCEPT ![v] = @ \cup {m}]
    BY <1>3, <2>1 DEF Save
  <2>3. n \in pend'[w]
    BY <1>0, <2>2
  <2>4. arch'[w][n] = arch[w][n] \/ (v = w /\ m = n /\ arch'[w][n] = a)
    BY <1>0, <2>2
  <2> QED
    BY <2>1, <2>3, <2>4 DEF KeptUnsent
<1>4. ASSUME NEW q \in Runner, Restored(q)
      PROVE  KeptUnsent(w, n)
  <2>1. PICK v, row : /\ v = run[q].host
                      /\ row = [m \in Node |-> IF m \in Producer[run[q].node] \cup {run[q].node}
                                              THEN CopyOf(v, m) ELSE arch[v][m]]
    OBVIOUS
  <2>2. arch' = [arch EXCEPT ![v] = row] /\ pend' = pend
    BY <1>4, <2>1 DEF Restored
  <2>3. CopyOf(w, n) = arch[w][n]
    BY DEF CopyOf
  <2>4. arch'[w][n] = arch[w][n]
    BY <1>0, <2>1, <2>2, <2>3
  <2> QED
    BY <2>2, <2>4 DEF KeptUnsent
<1> QED
  BY <1>1, <1>2, <1>3, <1>4, ShelfMoves DEF vars, shelf

\* The archives of n which r wrote last are no older than what it has.
LEMMA LastWins ==
  ASSUME IInv, NEW n \in Node, NEW r \in Runner, ~Shut(n), run[r].pc # "dead", run[r].ws[n].by = r,
         NEW a \in Archive, Copy(a, n)
  PROVE  a.by = r => a.level >= run[r].ws[n].level
<1>1. run[r].ws[n] \in Archive
  BY DEF IInv, TypeOK, RunnerState
<1>2. a.level \in 0..Whole /\ run[r].ws[n].level \in 0..Whole
  BY <1>1 DEF Archive
<1>3. Good(a, n)
  BY DEF IInv, AllGood
<1>4. ASSUME a.by = r, a.level < Whole
      PROVE  run[r].ws[n] = a
  BY <1>3, <1>4 DEF Good, LastWord
<1> QED
  BY <1>2, <1>4 DEF Whole

\* The stage of a stopped runner is taken from it only when the worker has
\* preserved its record.
LEMMA OnlyRescued ==
  ASSUME IInv, ~Interleaving, Next, NEW r \in Runner, NEW n \in Node, Runs(r, n),
         run[r].pc \in {"stopped", "rescuing"}, node'[n].status = "ready"
  PROVE  \/ Preserve(r) /\ run[r].rec = None
         \/ Rescue(r) /\ Sent(r)
<1>0. TypeOK /\ TabInv /\ node \in [Node -> Row] /\ run \in [Runner -> RunnerState]
  BY DEF IInv, TypeOK
<1>1. node'[n].status # "running" /\ node[n].status = "running" /\ node[n].owner = r /\ node' # node
  BY DEF Runs
<1>2. ASSUME NEW m \in Node, NEW new, Move(m, new), Change(new)
      PROVE  m = n
  BY <1>0, <1>1, <1>2, MoveKeeps
<1>3. ASSUME NEW s \in Runner, Requeued(s)
      PROVE  s = r
  <2>1. run[s].node # None /\ Runs(s, run[s].node)
    BY <1>1, <1>3 DEF Requeued, table
  <2>2. PICK m, new : m = run[s].node /\ new = [node EXCEPT ![m].status = "ready"]
    OBVIOUS
  <2>3. Change(new) /\ m \in Node /\ node[m].status = "running" /\ node[m].owner = s
    BY <1>0, <1>3, <2>1, <2>2 DEF Requeued, RunnerState, Runs
  <2>4. Move(m, new)
    BY <1>0, <2>2, <2>3 DEF Move, Row
  <2> QED
    BY <1>1, <1>2, <2>3, <2>4
<1>4. ASSUME NEW s \in Runner, Moves(s)
      PROVE  (Preserve(r) /\ run[r].rec = None) \/ (Rescue(r) /\ Sent(r))
  <2>1. ~(\/ BootSend(s) \/ Booted(s) \/ Restore(s) \/ PreserveSave(s) \/ PreserveSend(s)
          \/ Close(s) \/ Part(s) \/ CancelKill(s))
    BY <1>1 DEF BootSend, Booted, Restore, PreserveSave, PreserveSend, Close, Part, CancelKill, table
  <2>2. ~Ask(s)
    <3>1. ASSUME NEW m \in Node, node[m].status = "ready",
                 node' = [node EXCEPT ![m] = [@ EXCEPT !.status = "running", !.owner = s]]
          PROVE  FALSE
      BY <1>0, <1>1, <3>1
    <3> QED
      BY <1>1, <3>1 DEF Ask
  <2>3. ~Report(s)
    <3> SUFFICES ASSUME Report(s)
                 PROVE  FALSE
      OBVIOUS
    <3>1. PICK m : m = run[s].node
      OBVIOUS
    <3>2. Runs(s, m) /\ run[s].pc = "reporting"
      BY <1>1, <3>1 DEF Report, table
    <3>3. PICK new \in Outcomes(s) : Change(new)
      BY <3>1, <3>2 DEF Report
    <3>4. m \in Node /\ run[s].exit # "none"
      BY <1>0, <3>1, <3>2 DEF IInv, RunnerOK, Busy, RunnerState
    <3>5. Move(m, new)
      BY <1>0, <3>1, <3>2, <3>3, <3>4, OutcomeMoves
    <3>6. m = n
      BY <1>2, <3>3, <3>4, <3>5
    <3> QED
      BY <1>1, <3>2, <3>6 DEF Runs
  <2>4. CASE Preserve(s)
    <3>1. run[s].rec = None /\ Requeued(s)
      BY <1>1, <2>4 DEF Preserve, table
    <3> QED
      BY <1>3, <2>4, <3>1
  <2>5. CASE Rescue(s)
    <3>1. Sent(s) /\ Requeued(s)
      BY <1>1, <2>5 DEF Rescue, table
    <3> QED
      BY <1>3, <2>5, <3>1
  <2> QED
    BY <1>4, <2>1, <2>2, <2>3, <2>4, <2>5 DEF Moves
<1>5. ASSUME NEW s \in Runner
      PROVE  ~(Work(s) \/ Crash(s) \/ Preempt(s) \/ \E w \in Worker : Start(s, w))
  BY <1>1 DEF Work, Crash, Preempt, Start, table
<1>6. ~Headnode
  <2>1. ~CancelBlock
    BY <1>0, <1>1 DEF CancelBlock, Row
  <2>2. ASSUME NEW m \in Node, Reap(m)
        PROVE  FALSE
    <3>1. PICK new \in Freed(m) : Change(new)
      BY <2>2 DEF Reap
    <3>2. Move(m, new)
      BY <1>0, <2>2, <3>1 DEF Reap, Freed, Move, Row
    <3>3. m = n
      BY <1>2, <3>1, <3>2
    <3> QED
      BY <1>1, <2>2, <3>3 DEF Reap
  <2> QED
    BY <1>1, <2>1, <2>2 DEF Headnode, CancelNotify, CancelWrite, RunOut
<1>7. ~(Refresh \/ Client \/ Submit \/ Signal \/ KillClient)
  BY <1>1 DEF Refresh, Client, Submit, Signal, KillClient, SaveRunState, Poll, GiveUp, Recover, Stop, Answered, Fetch,
              Delete, ClearRunState, table
<1> QED
  BY <1>4, <1>5, <1>6, <1>7 DEF Next

\* A preempted stage is queued again with the work of its runner.
LEMMA RescuedKept ==
  ASSUME IInv, ~Interleaving, [Next]_vars, NEW r \in Runner, NEW n \in Node
  PROVE  Rescued(r, n)
<1> SUFFICES ASSUME Runs(r, n), node'[n].status = "ready", run[r].pc \in {"stopped", "rescuing"},
                    run[r].ws[n].by = r, ~client.fetched
             PROVE  hub'[n].by # None /\ (hub'[n].by = r => hub'[n].level >= run[r].ws[n].level)
  BY DEF Rescued
<1>0. /\ TypeOK /\ hub \in [Node -> Archive] /\ arch \in [Worker -> [Node -> Archive]] /\ run \in [Runner -> RunnerState]
      /\ ~Shut(n) /\ run[r].pc # "dead" /\ Next
  BY DEF IInv, TypeOK, Runs, Shut, vars, table
<1>1. Held(r, n)
  <2>1. run[r].ws[n] \in Archive /\ Copy(run[r].ws[n], n)
    BY <1>0 DEF RunnerState, Copy
  <2> QED
    BY <2>1 DEF IInv, AllGood, Good
<1>2. ASSUME hub'[n] = hub[n], ~Owes(r, n)
      PROVE  hub'[n].by # None /\ (hub'[n].by = r => hub'[n].level >= run[r].ws[n].level)
  <2>1. hub[n] \in Archive /\ Copy(hub[n], n) /\ hub[n].by # None
    BY <1>0, <1>1, <1>2 DEF Held, Backed, Copy
  <2> QED
    BY <1>0, <1>2, <2>1, LastWins
<1>3. CASE Preserve(r) /\ run[r].rec = None
  <2>1. hub'[n] = hub[n] /\ ~Owes(r, n)
    BY <1>3, LocalRunAssumption DEF Preserve, Owes
  <2> QED
    BY <1>2, <2>1
<1>4. CASE Rescue(r) /\ Sent(r)
  <2>1. PICK m, w : m = run[r].rec /\ w = run[r].host
    OBVIOUS
  <2>2. w \in Worker /\ m \in Node /\ arch[w][m].by # None
    BY <1>0, <1>4, <2>1, Archived1 DEF Rescue
  <2>3. hub' = [hub EXCEPT ![m] = arch[w][m]]
    BY <1>4, <2>1 DEF Sent, Received
  <2>4. CASE m = n
    <3>1. hub'[n] = arch[w][n] /\ arch[w][n] \in Archive /\ Copy(arch[w][n], n)
      BY <1>0, <2>2, <2>3, <2>4 DEF Copy
    <3> QED
      BY <1>0, <2>2, <2>4, <3>1, LastWins
  <2>5. CASE m # n
    <3>1. hub'[n] = hub[n] /\ ~Owes(r, n)
      BY <1>0, <2>1, <2>3, <2>5 DEF Owes
    <3> QED
      BY <1>2, <3>1
  <2> QED
    BY <2>4, <2>5
<1> QED
  BY <1>0, <1>3, <1>4, OnlyRescued

\* No step loses work: what waits on a worker for its upload stays or is sent
\* (restore_remote_node, preserve_pending_runners), and a preempted stage is
\* queued again with what its runner had written (_stop_runner_and_preserve).
THEOREM LocalUnsentIsKept ==
  ASSUME ~Interleaving
  PROVE  Spec => UnsentIsKept
<1>1. IInv /\ [Next]_vars =>
        [\A n \in Node : (\A w \in Worker : KeptUnsent(w, n)) /\ (\A r \in Runner : Rescued(r, n))]_vars
  BY UnsentKept, RescuedKept DEF IInv
<1> QED
  BY <1>1, Invariance, PTL DEF Spec, UnsentIsKept
=============================================================================
