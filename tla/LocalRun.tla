------------------------------ MODULE LocalRun ------------------------------
(***************************************************************************)
(* A run of the working copy (`cluster-run --local`, parallel stages) from *)
(* the command line to the workers and back.  No Git remote takes part:    *)
(* the results of a stage travel as archives.  A runner archives the       *)
(* outputs of its stage on its worker, uploads the archive to the headnode *)
(* and only then reports; the next runner restores the archives of its     *)
(* producers and of its own stage; the client fetches all of them, then    *)
(* deletes them on the headnode (local_workspace.py, branch_executor.py,   *)
(* headnode_service.py, cluster_run.py, worker_agent.py).                  *)
(*                                                                         *)
(* One job.  An archive is how far the work in it got and whose it is.     *)
(* Left out: which files an archive holds, the classic (one container)     *)
(* local run, fetching objects of the DVC cache, the expiry of results     *)
(* after 24 hours, placement and heartbeats: a stage is taken back only    *)
(* from a runner that is really gone.  A GET and the os.replace after it   *)
(* are one step.                                                           *)
(*                                                                         *)
(* Bug... operators are planted mistakes; nothing uses them.               *)
(***************************************************************************)
EXTENDS Naturals, FiniteSets

CONSTANTS
  Node, Producer,  \* the stages, and the producers of each
  Worker, Home,    \* the job's first runner starts on its home worker
  None,
  MaxRunners,      \* a runner id is used once
  MaxFaults,       \* messages lost or answered too late, runners killed for
                   \* memory or preempted
  Interleaving     \* whether the scheduler may walk in the middle of a cancel

Runner == 1..MaxRunners
Whole == 2         \* an archive holds nothing, a checkpoint or all outputs
Nothing == [level |-> 0, by |-> None]

ASSUME LocalRunAssumption ==
  /\ Producer \in [Node -> SUBSET Node] /\ \A n \in Node : n \notin Producer[n]
  /\ None \notin Worker \cup Node \cup Runner /\ Home \in Worker
  /\ {MaxRunners, MaxFaults} \subseteq Nat /\ Interleaving \in BOOLEAN

VARIABLES
  job,      \* the row of the job, and its source archive on the headnode
  cancel,   \* how far cancel_job_cleanly got
  node,     \* rows of the stages: status and runner
  hub,      \* the headnode's archive of each stage
  arch, pend, snap, \* of each worker: node archives, .pending marks, snapshot
  run,      \* the runners
  client,   \* the cluster-run process
  project,  \* what the user's directory holds of each stage
  file,     \* .cluster-ci-run.json names the job
  faults

table == <<job, cancel, node>>
shelf == <<arch, pend, snap>>
user == <<client, project, file>>
vars == <<table, hub, shelf, run, user, faults>>

Archive == [level : 0..Whole, by : Runner \cup {None}]
Pc == {"off", "booting", "asking", "restoring", "working", "saving", "sending", "reporting",
       "closing", "parting", "stopped", "rescuing", "dead"}
Gone == {"off", "dead"}
Phase == {"new", "accepted", "watching", "stopping", "calling", "fetching", "deleting", "clearing", "killed", "ended"}

Row == [status : {"waiting", "ready", "running", "done", "failed", "blocked"},
        owner : Runner \cup {None}, again : BOOLEAN]
RunnerState == [pc : Pc, host : Worker \cup {None}, node : Node \cup {None}, ws : [Node -> Archive],
                exit : {"none", "ok", "bad", "missing"}, rec : Node \cup {None}, doomed : BOOLEAN]

\* A mark has its record: that of a runner which has saved its archive and not
\* sent it yet, alive or not.
Recorded ==
  \A w \in Worker : \A n \in pend[w] : \E r \in Runner :
    /\ run[r].host = w /\ run[r].rec = n
    /\ run[r].pc \in {"sending", "closing", "parting", "stopped", "rescuing", "dead"}

\* Types, and every archive that waits for its upload has a record to send it.
TypeOK ==
  /\ job \in [status : {"none", "active", "completed", "failed"}, source : BOOLEAN]
  /\ cancel \in {"idle", "notify", "block", "write", "over"}
  /\ node \in [Node -> Row]
  /\ hub \in [Node -> Archive] /\ project \in [Node -> Archive]
  /\ arch \in [Worker -> [Node -> Archive]]
  /\ pend \in [Worker -> SUBSET Node] /\ snap \subseteq Worker
  /\ run \in [Runner -> RunnerState]
  /\ client \in [at : Phase, stops : BOOLEAN, told : BOOLEAN,
                 result : {"none", "success", "failure", "gaveup", "stopped"}, fetched : BOOLEAN]
  /\ file \in BOOLEAN
  /\ faults \in 0..MaxFaults
  /\ Recorded

Idle == [pc |-> "off", host |-> None, node |-> None, ws |-> [n \in Node |-> Nothing],
         exit |-> "none", rec |-> None, doomed |-> FALSE]

Init ==
  /\ job = [status |-> "none", source |-> FALSE] /\ cancel = "idle"
  /\ node = [n \in Node |-> [status |-> IF Producer[n] = {} THEN "ready" ELSE "waiting",
                         owner |-> None, again |-> FALSE]]
  /\ hub = [n \in Node |-> Nothing] /\ project = [n \in Node |-> Nothing]
  /\ arch = [w \in Worker |-> [n \in Node |-> Nothing]]
  /\ pend = [w \in Worker |-> {}] /\ snap = {}
  /\ run = [r \in Runner |-> Idle]
  /\ client = [at |-> "new", stops |-> FALSE, told |-> FALSE, result |-> "none", fetched |-> FALSE]
  /\ file = FALSE
  /\ faults = 0

Fault == faults < MaxFaults /\ faults' = faults + 1
Active == job.status = "active"
Alive(r) == run[r].pc \notin Gone \cup {"stopped", "rescuing"}

-----------------------------------------------------------------------------
(* Archives: local_workspace.py and the transfers of the headnode.         *)

\* What q's record would archive from its worktree, maybe no output at all.
Outputs(q) == IF run[q].ws[run[q].rec].by = None THEN [level |-> 0, by |-> q] ELSE run[q].ws[run[q].rec]

\* save_node_archive and the .pending mark: the runner's copy on its worker.
Save(r) ==
  /\ arch' = [arch EXCEPT ![run[r].host][run[r].rec] = Outputs(r)]
  /\ pend' = [pend EXCEPT ![run[r].host] = @ \cup {run[r].rec}]
  /\ UNCHANGED snap

\* complete_local_transfer: whoever uploads last wins.
Received(w, n) == hub' = [hub EXCEPT ![n] = arch[w][n]]

\* The upload of q's archive, then the end of its mark and of its record.
Sent(q) ==
  /\ Received(run[q].host, run[q].rec)
  /\ pend' = [pend EXCEPT ![run[q].host] = @ \ {run[q].rec}]
  /\ UNCHANGED <<arch, snap, faults>>

\* It fails before the headnode has it, or after: only the answer is lost.
NotSent(q) ==
  /\ Fault
  /\ UNCHANGED shelf
  /\ UNCHANGED hub \/ Received(run[q].host, run[q].rec)

\* restore_remote_node: an archive that still waits for its upload comes
\* first, else the headnode's copy, else the worker's.
BugCopyOf(w, m) == IF arch[w][m] # Nothing THEN arch[w][m] ELSE hub[m]
CopyOf(w, m) == IF m \notin pend[w] /\ hub[m] # Nothing THEN hub[m] ELSE arch[w][m]

-----------------------------------------------------------------------------
(* The headnode's side of a job: dispatch, reports, cancel.                *)

\* All stages are done, or one failed and none can go on.
Settled(new) ==
  IF ~Active THEN UNCHANGED job
  ELSE IF \A n \in Node : new[n].status = "done" THEN job' = [status |-> "completed", source |-> FALSE]
  ELSE IF \A n \in Node : new[n].status \in {"done", "failed", "blocked"}
       THEN job' = [status |-> "failed", source |-> FALSE]
       ELSE UNCHANGED job

\* The walk looks at every stage that waits or is blocked, also one a cancel
\* has just blocked.
Spread(new) ==
  LET Lost(n) == \E p \in Producer[n] : new[p].status \in {"failed", "blocked"}
      Fed(n)  == \A p \in Producer[n] : new[p].status = "done" IN
  [n \in Node |->
     IF new[n].status \notin {"waiting", "ready", "blocked"} THEN new[n]
     ELSE [new[n] EXCEPT !.status = IF Lost(n) THEN "blocked" ELSE IF Fed(n) THEN "ready"
                                    ELSE IF @ = "blocked" THEN "waiting" ELSE @]]

Change(new) == node' = Spread(new) /\ Settled(Spread(new)) /\ UNCHANGED cancel

\* A runner is started for a ready stage; its script unpacks the source.
Start(r, w) ==
  /\ Active /\ run[r].pc = "off" /\ \A q \in Runner : q < r => run[q].pc # "off"
  /\ r = 1 => w = Home
  /\ Cardinality({q \in Runner : run[q].pc \notin Gone}) < Cardinality({n \in Node : node[n].status \in {"ready", "running"}})
  /\ run' = [run EXCEPT ![r] = [Idle EXCEPT !.pc = "booting", !.host = w]]
  /\ UNCHANGED <<table, hub, shelf, user, faults>>

\* The reply of next_node: the walk has no stage, or r gets one.
BugAsk(r) ==
  /\ run[r].pc = "asking" /\ Active
  /\ \/ /\ \A n \in Node : node[n].status # "ready"
        /\ run' = [run EXCEPT ![r].pc = "closing"] /\ UNCHANGED node
     \/ \E n \in Node :
          /\ node[n].status = "ready"
          /\ node' = [node EXCEPT ![n] = [@ EXCEPT !.status = "running", !.owner = r]]
          /\ run' = [run EXCEPT ![r] = [@ EXCEPT !.pc = "restoring", !.node = n]]
  /\ UNCHANGED <<job, cancel, hub, shelf, user, faults>>
Ask(r) ==
  /\ run[r].pc = "asking"
  /\ \/ /\ ~Active \/ ~\E n \in Node : node[n].status = "ready"
        /\ run' = [run EXCEPT ![r].pc = "closing"] /\ UNCHANGED node
     \/ \E n \in Node :
          /\ Active /\ node[n].status = "ready"
          /\ node' = [node EXCEPT ![n] = [@ EXCEPT !.status = "running", !.owner = r]]
          /\ run' = [run EXCEPT ![r] = [@ EXCEPT !.pc = "restoring", !.node = n]]
  /\ UNCHANGED <<job, cancel, hub, shelf, user, faults>>

\* The report of a stage: only its runner's counts.  When an input is missing
\* the stage waits for a second run of the producer; there is no third.
Outcomes(r) ==
  LET n == run[r].node IN
  CASE run[r].exit = "ok"  -> {[node EXCEPT ![n].status = "done"]}
    [] run[r].exit = "bad" -> {[node EXCEPT ![n].status = "failed"]}
    [] OTHER -> {IF node[p].again THEN [node EXCEPT ![n].status = "failed"]
                 ELSE [node EXCEPT ![n].status = "waiting", ![p].status = "ready", ![p].again = TRUE] :
                   p \in {q \in Producer[n] : run[r].ws[q].level < Whole}}

Runs(r, n) == node[n].status = "running" /\ node[n].owner = r

Report(r) ==
  /\ run[r].pc = "reporting"
  /\ IF Runs(r, run[r].node) THEN \E new \in Outcomes(r) : Change(new) ELSE UNCHANGED table
  /\ run' = [run EXCEPT ![r] = [@ EXCEPT !.pc = "asking", !.node = None, !.exit = "none"]]
  /\ UNCHANGED <<hub, shelf, user, faults>>

\* The end of a runner's process: its stage goes back to the queue, or fails
\* when its attempts are used up (any number of them here).
Freed(n) == {[node EXCEPT ![n].status = "ready"], [node EXCEPT ![n].status = "failed"]}

Reap(n) ==
  /\ node[n].status = "running" /\ run[node[n].owner].pc = "dead"
  /\ \E new \in Freed(n) : Change(new)
  /\ UNCHANGED <<hub, shelf, run, user, faults>>

\* Every iteration of the scheduler walks the stages of the active jobs.  It
\* finds something to do only between the last two steps of a cancel, which is
\* counted as a fault.
Refresh ==
  /\ Interleaving /\ Active /\ cancel = "write" /\ Fault
  /\ node' = Spread(node)
  /\ UNCHANGED <<job, cancel, hub, shelf, run, user>>

\* No runner id is left: the bound stands for the retry caps.
RunOut ==
  /\ Active /\ \A r \in Runner : run[r].pc = "dead"
  /\ job' = [status |-> "failed", source |-> FALSE]
  /\ UNCHANGED <<cancel, node, hub, shelf, run, user, faults>>

\* cancel_job_cleanly reads the job, then calls its workers; a call may fail.
\* Each worker answers at once and kills the process trees in a thread.
CancelNotify ==
  /\ cancel = "notify"
  /\ \E told \in SUBSET Worker :
       /\ run' = [r \in Runner |-> IF Alive(r) /\ run[r].host \in told THEN [run[r] EXCEPT !.doomed = TRUE] ELSE run[r]]
       /\ IF told = Worker THEN UNCHANGED faults ELSE Fault
  /\ cancel' = "block"
  /\ UNCHANGED <<job, node, hub, shelf, user>>

CancelBlock ==
  /\ cancel = "block" /\ cancel' = "write"
  /\ node' = [n \in Node |-> IF node[n].status = "done" THEN node[n] ELSE [node[n] EXCEPT !.status = "blocked"]]
  /\ UNCHANGED <<job, hub, shelf, run, user, faults>>

\* The last write has no condition: a job that completed meanwhile fails.
CancelWrite ==
  /\ cancel = "write" /\ cancel' = "over"
  /\ job' = [status |-> "failed", source |-> FALSE]
  /\ UNCHANGED <<node, hub, shelf, run, user, faults>>

-----------------------------------------------------------------------------
(* A runner: branch_executor.py, and the worker agent that stops it.       *)

\* The records on r's worker whose archive waits for its upload.
Unsent(r) == {q \in Runner : run[q].host = run[r].host /\ run[q].rec \in pend[run[r].host]}
\* r is gone; its record, if it is left, names its stage.
Over(r, rec) == [run EXCEPT ![r] = [Idle EXCEPT !.pc = "dead", !.host = run[r].host, !.rec = rec]]
Dead(r) == Over(r, run[r].rec)
Parted(r) == Over(r, None)

Unlocked(q) == run[q].pc \notin {"sending", "parting", "rescuing"}

\* preserve_pending_runners: uploads what earlier runners of the worker left.
BootSend(r) ==
  /\ run[r].pc = "booting"
  /\ \E q \in Unsent(r) :
       /\ Unlocked(q)
       /\ \/ Sent(q) /\ run' = [run EXCEPT ![q].rec = None]
          \/ NotSent(q) /\ run' = Dead(r)
  /\ UNCHANGED <<table, user>>

\* Its last check: a mark that appeared after the scan ends r.  So does a
\* worker that never unpacked the source (prepare_submission), once the end
\* of the job has removed it.
Booted(r) ==
  LET w == run[r].host IN
  /\ run[r].pc = "booting"
  /\ \A q \in Unsent(r) : ~Unlocked(q)
  /\ IF pend[w] = {} /\ (w \in snap \/ job.source)
     THEN run' = [run EXCEPT ![r].pc = "asking"] /\ snap' = snap \cup {w}
     ELSE run' = Dead(r) /\ UNCHANGED snap
  /\ UNCHANGED <<table, hub, arch, pend, user, faults>>

\* Restores the producers' archives and the stage's own, then writes the record.
Restored(r) ==
  LET n == run[r].node
      w == run[r].host
      From == Producer[n] \cup {n} IN
  /\ arch' = [arch EXCEPT ![w] = [m \in Node |-> IF m \in From THEN CopyOf(w, m) ELSE arch[w][m]]]
  /\ \E pc \in {"working", "reporting"} :
       /\ pc = "working"   => \A p \in Producer[n] : CopyOf(w, p).level > 0
       /\ pc = "reporting" => \E p \in Producer[n] : CopyOf(w, p).level < Whole
       /\ run' = [run EXCEPT ![r] = [@ EXCEPT !.pc = pc, !.rec = n,
                    !.exit = IF pc = "reporting" THEN "missing" ELSE "none",
                    !.ws = [m \in Node |-> IF m \in From /\ CopyOf(w, m) # Nothing THEN CopyOf(w, m) ELSE run[r].ws[m]]]]
  /\ UNCHANGED <<pend, snap, faults>>

Restore(r) ==
  /\ run[r].pc = "restoring"
  /\ \/ Restored(r)
     \/ Fault /\ run' = [run EXCEPT ![r].pc = "closing"] /\ UNCHANGED shelf
  /\ UNCHANGED <<table, hub, user>>

\* The container finishes, or fails and leaves a checkpoint.
Wrote(r, l) == [run[r].ws EXCEPT ![run[r].node] = [level |-> l, by |-> r]]

Work(r) ==
  /\ run[r].pc = "working"
  /\ \E l \in {1, Whole} :
       run' = [run EXCEPT ![r] = [@ EXCEPT !.pc = "saving", !.ws = Wrote(r, l), !.exit = IF l = Whole THEN "ok" ELSE "bad"]]
  /\ UNCHANGED <<table, hub, shelf, user, faults>>

\* preserve_runner_record under the lock of the record: archive, then upload.
Archived(r, next) == Save(r) /\ run' = [run EXCEPT ![r].pc = next]

\* After the container, before the report: a failure leaves the loop.  When a
\* runner that booted meanwhile sent the mark of an older runner under r's
\* record, which names the same stage, the record is gone: nothing is archived.
PreserveSave(r) ==
  /\ run[r].pc = "saving"
  /\ IF run[r].rec # None THEN Archived(r, "sending")
     ELSE run' = [run EXCEPT ![r].pc = "reporting"] /\ UNCHANGED shelf
  /\ UNCHANGED <<table, hub, user, faults>>

BugPreserveSend(r) ==
  /\ run[r].pc = "sending"
  /\ Sent(r) \/ NotSent(r)
  /\ run' = [run EXCEPT ![r].pc = "reporting"]
  /\ UNCHANGED <<table, user>>
PreserveSend(r) ==
  /\ run[r].pc = "sending"
  /\ \/ Sent(r) /\ run' = [run EXCEPT ![r] = [@ EXCEPT !.pc = "reporting", !.rec = None]]
     \/ NotSent(r) /\ run' = [run EXCEPT ![r].pc = "closing"]
  /\ UNCHANGED <<table, user>>

\* The finally of the loop preserves what is left; the worktree goes only
\* if that succeeds.
Close(r) ==
  /\ run[r].pc = "closing"
  /\ IF run[r].rec # None THEN Archived(r, "parting")
     ELSE run' = Dead(r) /\ UNCHANGED shelf
  /\ UNCHANGED <<table, hub, user, faults>>

Part(r) ==
  /\ run[r].pc = "parting"
  /\ \/ Sent(r) /\ run' = Parted(r)
     \/ NotSent(r) /\ run' = Dead(r)
  /\ UNCHANGED <<table, user>>

\* The kernel kills a runner for memory, or its machine drops it.
Crash(r) ==
  /\ Alive(r) /\ Fault
  /\ run' = Dead(r)
  /\ UNCHANGED <<table, hub, shelf, user>>

\* _async_job_cleanup: SIGKILL to the process tree, nothing is preserved.
CancelKill(r) ==
  /\ run[r].doomed /\ run[r].pc \notin Gone
  /\ run' = Dead(r)
  /\ UNCHANGED <<table, hub, shelf, user, faults>>

\* _stop_runner_and_preserve: stops the processes of a preempted runner, then
\* preserves in its place.  The stage is queued again only after both.
Preempt(r) ==
  /\ Alive(r) /\ run[r].node # None /\ Fault
  /\ Runs(r, run[r].node)
  /\ \E ws \in {run[r].ws} \cup IF run[r].pc = "working" THEN {Wrote(r, 1)} ELSE {} :
       run' = [run EXCEPT ![r] = [@ EXCEPT !.pc = "stopped", !.ws = ws]]
  /\ UNCHANGED <<table, hub, shelf, user>>

Requeued(r) ==
  IF run[r].node # None /\ Runs(r, run[r].node)
  THEN Change([node EXCEPT ![run[r].node].status = "ready"]) ELSE UNCHANGED table

BugPreserve(r) ==
  /\ run[r].pc = "stopped"
  /\ Requeued(r) /\ run' = Dead(r) /\ UNCHANGED <<shelf, hub, user, faults>>
Preserve(r) ==
  /\ run[r].pc = "stopped"
  /\ IF run[r].rec # None THEN Archived(r, "rescuing") /\ UNCHANGED table
     ELSE Requeued(r) /\ run' = Dead(r) /\ UNCHANGED shelf
  /\ UNCHANGED <<hub, user, faults>>

\* A failed upload leaves the reservation; a later preemption tries again.
Rescue(r) ==
  /\ run[r].pc = "rescuing"
  /\ \/ Sent(r) /\ Requeued(r) /\ run' = Parted(r)
     \/ NotSent(r) /\ run' = [run EXCEPT ![r].pc = "stopped"] /\ UNCHANGED table
  /\ UNCHANGED user

-----------------------------------------------------------------------------
(* The client: cluster_run.py.                                             *)

At(p) == client.at = p
Quiet == UNCHANGED <<hub, shelf, run>>

\* local_run uploads the source and submits; the headnode keeps the archive.
\* An answer that comes too late ends the client: the job runs all the same.
Submit ==
  /\ At("new")
  /\ job' = [status |-> "active", source |-> TRUE]
  /\ \/ client' = [client EXCEPT !.at = "accepted"] /\ UNCHANGED faults
     \/ Fault /\ client' = [client EXCEPT !.at = "ended", !.result = "gaveup"]
  /\ UNCHANGED <<cancel, node, project, file>> /\ Quiet

SaveRunState ==
  /\ At("accepted")
  /\ client' = [client EXCEPT !.at = "watching"] /\ file' = TRUE
  /\ UNCHANGED <<table, project, faults>> /\ Quiet

\* stream_local_job_logs_and_wait polls until the job ends.
Poll ==
  /\ At("watching") /\ job.status \in {"completed", "failed"}
  /\ client' = [client EXCEPT !.at = "fetching", !.result = IF job.status = "completed" THEN "success" ELSE "failure"]
  /\ UNCHANGED <<table, project, file, faults>> /\ Quiet

\* NetworkRetryTracker: ten errors or fifteen minutes without an answer.  The
\* job goes on, and its results stay on the headnode.
GiveUp ==
  /\ At("watching") /\ Fault
  /\ client' = [client EXCEPT !.at = "clearing", !.result = "gaveup"]
  /\ UNCHANGED <<table, project, file>> /\ Quiet

Following == client.at \in {"accepted", "watching", "fetching", "deleting", "clearing"} /\ ~client.stops

\* Ctrl+C or SIGTERM: cleanup() reads the job from the state file, stops it,
\* fetches, clears.
Signal ==
  /\ Following
  /\ client' = [client EXCEPT !.at = IF file THEN "stopping" ELSE "clearing", !.stops = TRUE, !.result = "stopped"]
  /\ UNCHANGED <<table, project, file, faults>> /\ Quiet

\* SIGKILL.  recover_orphaned_run of the next start does for a dead client
\* what its own cleanup would have done.
KillClient ==
  /\ Following
  /\ client' = [client EXCEPT !.at = "killed"]
  /\ UNCHANGED <<table, project, file, faults>> /\ Quiet

Recover ==
  /\ At("killed")
  /\ client' = [client EXCEPT !.at = IF file THEN "stopping" ELSE "ended", !.stops = TRUE, !.result = "stopped"]
  /\ UNCHANGED <<table, project, file, faults>> /\ Quiet

\* _headnode_stop_job: the headnode starts to cancel, unless it is lost.
Stop ==
  /\ At("stopping")
  /\ \/ /\ cancel' = IF Active /\ cancel = "idle" THEN "notify" ELSE cancel
        /\ client' = [client EXCEPT !.at = "calling", !.told = TRUE] /\ UNCHANGED faults
     \/ Fault /\ client' = [client EXCEPT !.at = "fetching"] /\ UNCHANGED cancel
  /\ UNCHANGED <<job, node, project, file>> /\ Quiet

\* The client waits 10 seconds for the answer, which waits for the workers.
Answered ==
  /\ At("calling") /\ client' = [client EXCEPT !.at = "fetching"]
  /\ IF cancel \in {"idle", "over"} THEN UNCHANGED faults ELSE Fault
  /\ UNCHANGED <<table, project, file>> /\ Quiet

\* fetch_local_results: GET and extract; no results or an error end it.
Fetch ==
  /\ At("fetching")
  /\ \/ /\ \E n \in Node : hub[n] # Nothing
        /\ project' = [n \in Node |-> IF hub[n] # Nothing THEN hub[n] ELSE project[n]]
        /\ client' = [client EXCEPT !.at = "deleting", !.fetched = TRUE] /\ UNCHANGED faults
     \/ /\ \A n \in Node : hub[n] = Nothing
        /\ client' = [client EXCEPT !.at = "clearing"] /\ UNCHANGED <<project, faults>>
     \/ Fault /\ client' = [client EXCEPT !.at = "clearing"] /\ UNCHANGED project
  /\ UNCHANGED <<table, file>> /\ Quiet

\* DELETE removes the headnode's archives of the job, whatever they are now.
Delete ==
  /\ At("deleting") /\ client' = [client EXCEPT !.at = "clearing"]
  /\ \/ hub' = [n \in Node |-> Nothing] /\ UNCHANGED faults
     \/ Fault /\ UNCHANGED hub
  /\ UNCHANGED <<table, shelf, run, project, file>>

ClearRunState ==
  /\ At("clearing") /\ client' = [client EXCEPT !.at = "ended"] /\ file' = FALSE
  /\ UNCHANGED <<table, project, faults>> /\ Quiet

-----------------------------------------------------------------------------
Moves(r) ==
  \/ BootSend(r) \/ Booted(r) \/ Ask(r) \/ Restore(r) \/ PreserveSave(r) \/ PreserveSend(r)
  \/ Report(r) \/ Close(r) \/ Part(r) \/ CancelKill(r) \/ Preserve(r) \/ Rescue(r)

Headnode == CancelNotify \/ CancelBlock \/ CancelWrite \/ RunOut \/ \E n \in Node : Reap(n)

Client == SaveRunState \/ Poll \/ GiveUp \/ Recover \/ Stop \/ Answered \/ Fetch \/ Delete \/ ClearRunState

Next ==
  \/ \E r \in Runner : Moves(r) \/ Work(r) \/ Crash(r) \/ Preempt(r) \/ \E w \in Worker : Start(r, w)
  \/ Headnode \/ Refresh \/ Client \/ Submit \/ Signal \/ KillClient

Spec == Init /\ [][Next]_vars

\* The loops of the programs go on and a container ends, by itself or at
\* max_runtime; the scheduler starts runners.  Nobody has to submit, stop or
\* kill anything.  A killed client is started again.
LiveSpec ==
  /\ Spec /\ WF_vars(Headnode) /\ WF_vars(Client)
  /\ \A r \in Runner : WF_vars(Moves(r)) /\ WF_vars(Work(r)) /\ WF_vars(\E w \in Worker : Start(r, w))

-----------------------------------------------------------------------------
(* Properties.                                                             *)

\* Outputs arrive: until the client has fetched them, all outputs of a done
\* stage are on the headnode, and a command that ends with success after it
\* fetched them has brought them back, for every stage.  The exception is an
\* archive of the stage that another runner left on a worker, when it was
\* uploaded over them.
Arrived(n, a) == a.by # None /\ (a.level = Whole \/ a.by # node[n].owner)
OutputsArrive ==
  \A n \in Node :
    /\ node[n].status = "done" /\ ~client.fetched => Arrived(n, hub[n])
    /\ At("ended") /\ client.result = "success" /\ client.fetched => Arrived(n, project[n])

\* A stage starts on finished outputs of its producers, through two workers
\* and the headnode, unless an older archive has replaced them there or still
\* waits on this worker for its upload, or the producer is run a second time.
InputsAreFinished ==
  [][\A r \in Runner : run[r].pc = "restoring" /\ run'[r].pc = "working" =>
       \A p \in Producer[run[r].node] :
         \/ run'[r].ws[p].level = Whole
         \/ node[p].status # "done" \/ hub[p].by # node[p].owner \/ p \in pend[run[r].host]]_vars

\* What a worker has not handed off stays there until the headnode has it: no
\* restore, no other runner replaces it by a copy of an older run.
KeptUnsent(w, n) ==
  n \in pend[w] =>
    \/ hub'[n] = arch[w][n]
    \/ /\ n \in pend'[w]
       /\ \/ arch'[w][n] = arch[w][n]
          \/ \E r \in Runner : run[r].host = w /\ run[r].rec = n /\ arch'[w][n] = Outputs(r)

\* A preempted stage goes back to the queue with its work: what its runner had
\* written is on the headnode, where only an archive of another runner or a
\* later one may stand in its place.  That ends when a client fetches and
\* deletes the results of a run it could not stop.
Rescued(r, n) ==
  (/\ Runs(r, n) /\ node'[n].status = "ready"
   /\ run[r].pc \in {"stopped", "rescuing"} /\ run[r].ws[n].by = r)
    => \/ client.fetched
       \/ hub'[n].by # None /\ (hub'[n].by = r => hub'[n].level >= run[r].ws[n].level)

\* No step loses work: neither what waits on a worker for its upload, nor what
\* a preempted runner had written.
UnsentIsKept ==
  [][\A n \in Node : (\A w \in Worker : KeptUnsent(w, n)) /\ (\A r \in Runner : Rescued(r, n))]_vars

\* A runner reports a stage when the headnode has what it wrote.
HandedOff ==
  [][\A r \in Runner : run[r].pc \in {"saving", "sending"} /\ run'[r].pc = "reporting" =>
       hub'[run[r].node] = run[r].ws[run[r].node]]_vars

\* Both sides end: the client comes back once its request was accepted, and a
\* stop that reached the headnode, from Ctrl+C or from the start after a
\* killed client, ends the job and every process of it.
BothSidesEnd ==
  /\ At("accepted") ~> At("ended")
  /\ client.told ~> (~Active /\ \A r \in Runner : run[r].pc \in Gone)
=============================================================================
