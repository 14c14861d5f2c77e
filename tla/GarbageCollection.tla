-------------------------- MODULE GarbageCollection --------------------------
(***************************************************************************)
(* The garbage collector of a worker (gc_orchestrator.py) and the runs     *)
(* that call it (run_research_pipeline.sh).  Every run marks its project   *)
(* running, collects in an emergency, works in a container, marks the      *)
(* project idle and collects again for maintenance.  Several runs of the   *)
(* machine do so at once, also on one project; only registry.json is       *)
(* locked, from the moment a collection lists its candidates to its end.   *)
(*                                                                         *)
(* Sizes are a count of free units.  Left out: which files a tier deletes  *)
(* inside a project, the order of the candidates (any order here), names,  *)
(* a torn or corrupt registry, dry runs, sync_status and its drain.        *)
(* `docker ps` is taken to name every project whose container runs.        *)
(*                                                                         *)
(* Bug... operators are planted mistakes; nothing uses them.               *)
(***************************************************************************)
EXTENDS Naturals

CONSTANTS
  Project,        \* workspace keys: <repo>, _local/<repo>
  BaseOf,         \* the repository of a workspace
  Local, Remote,  \* _local workspaces; those whose .dvc/config has a remote
  Run, KeyOf,     \* runs of the script, and the workspace of each
  None,
  OldIdle,        \* workspaces idle for long at the start
  Panic, Lazy,    \* free space the two collections want
  MaxFree, MaxRuns, MaxKills

Modes == {"emergency", "maintenance"}

ASSUME GarbageCollectionAssumption ==
  /\ Local \subseteq Project /\ Remote \subseteq Project /\ OldIdle \subseteq Project
  /\ DOMAIN BaseOf = Project /\ KeyOf \in [Run -> Project] /\ None \notin Run
  /\ {Panic, Lazy, MaxFree, MaxRuns, MaxKills} \subseteq Nat
  /\ Panic <= Lazy /\ Lazy <= MaxFree

VARIABLES
  reg,      \* registry.json: status; recent: executed within the last 6 hours
  disk,     \* of each workspace: here, its DVC cache, its home volume, and
            \* fresh: its results are in no other place
  free,     \* free space
  holder,   \* who holds the lock of the registry
  run,      \* the runs
  runs, kills

vars == <<reg, disk, free, holder, run, runs, kills>>

Step == {"off", "mark", "gcMark", "gcLook", "gcLock", "gc", "prepare", "work", "idle"}
Away == [here |-> FALSE, cache |-> FALSE, volume |-> FALSE, fresh |-> FALSE]
Off == [pc |-> "off", mode |-> "emergency", seen |-> {}, elig |-> {}, left |-> {}, tier |-> 1, pushed |-> None, gone |-> {}]

TypeOK ==
  /\ reg \in [Project -> [status : {"none", "running", "idle", "deleted"}, recent : BOOLEAN]]
  /\ disk \in [Project -> [here : BOOLEAN, cache : BOOLEAN, volume : BOOLEAN, fresh : BOOLEAN]]
  /\ free \in 0..MaxFree /\ holder \in Run \cup {None}
  /\ run \in [Run -> [pc : Step, mode : Modes, seen : SUBSET Project, elig : SUBSET Project,
                      left : SUBSET Project, tier : 1..5, pushed : Project \cup {None}, gone : SUBSET Project]]
  /\ \A r \in Run : holder = r <=> run[r].pc = "gc"
  /\ \A p \in Project : disk[p].cache \/ disk[p].fresh => disk[p].here
  /\ runs \in 0..MaxRuns /\ kills \in 0..MaxKills

\* Workspaces of the past: those left idle hold a cache with results.
Init ==
  /\ reg = [p \in Project |-> IF p \in OldIdle THEN [status |-> "idle", recent |-> FALSE]
                                               ELSE [status |-> "none", recent |-> FALSE]]
  /\ disk = [p \in Project |-> IF p \in OldIdle THEN [here |-> TRUE, cache |-> TRUE, volume |-> TRUE, fresh |-> TRUE]
                                                ELSE Away]
  /\ free \in 0..MaxFree
  /\ holder = None /\ run = [r \in Run |-> Off] /\ runs = 0 /\ kills = 0

Goes(r, pc) == run' = [run EXCEPT ![r].pc = pc]
\* After the collection before the work, the work; after the other, nothing.
AfterGc(r) == [run EXCEPT ![r] = [Off EXCEPT !.pc = IF run[r].mode = "emergency" THEN "prepare" ELSE "off"]]
Target(r) == IF run[r].mode = "emergency" THEN Panic ELSE Lazy
Reached(r) == free >= Target(r)
\* What a deletion may free.
Freed == {f \in {free, free + 1} : f <= MaxFree}

-----------------------------------------------------------------------------
(* The script.                                                             *)

Start(r) ==
  /\ run[r].pc = "off" /\ runs < MaxRuns
  /\ run' = [run EXCEPT ![r] = [Off EXCEPT !.pc = "mark"]]
  /\ runs' = runs + 1
  /\ UNCHANGED <<reg, disk, free, holder, kills>>

MarkedRunning(p) == [reg EXCEPT ![p].status = "running", ![p].recent = TRUE]

\* update_running waits for the lock.
MarkRunning(r) ==
  /\ run[r].pc = "mark" /\ holder = None
  /\ reg' = MarkedRunning(KeyOf[r]) /\ Goes(r, "gcMark")
  /\ UNCHANGED <<disk, free, holder, runs, kills>>

\* Clone or reuse the workspace, create the volume, start the container.
Prepare(r) ==
  /\ run[r].pc = "prepare" /\ Goes(r, "work")
  /\ disk' = [disk EXCEPT ![KeyOf[r]].here = TRUE, ![KeyOf[r]].volume = TRUE]
  /\ UNCHANGED <<reg, free, holder, runs, kills>>

\* The work writes results into the cache.
Work(r) ==
  /\ run[r].pc = "work" /\ ~(disk[KeyOf[r]].fresh /\ free = 0)
  /\ disk' = [disk EXCEPT ![KeyOf[r]].cache = TRUE, ![KeyOf[r]].fresh = TRUE]
  /\ free' = IF free = 0 THEN 0 ELSE free - 1
  /\ UNCHANGED <<reg, holder, run, runs, kills>>

\* cleanup_job_resources: first the container goes.
StopContainer(r) ==
  /\ run[r].pc = "work" /\ Goes(r, "idle")
  /\ UNCHANGED <<reg, disk, free, holder, runs, kills>>

\* update_idle, then the maintenance collection.
MarkIdle(r) ==
  /\ run[r].pc = "idle" /\ holder = None
  /\ reg' = [reg EXCEPT ![KeyOf[r]].status = "idle", ![KeyOf[r]].recent = TRUE]
  /\ run' = [run EXCEPT ![r] = [Off EXCEPT !.pc = "gcMark", !.mode = "maintenance"]]
  /\ UNCHANGED <<disk, free, holder, runs, kills>>

\* A killed run: its container goes too, and the system drops its lock.
Kill(r) ==
  /\ run[r].pc # "off" /\ kills < MaxKills /\ kills' = kills + 1
  /\ run' = [run EXCEPT ![r] = Off]
  /\ holder' = IF holder = r THEN None ELSE holder
  /\ UNCHANGED <<reg, disk, free, runs>>

\* Six hours pass since the last execution of p.  A collection, or the
\* preparation of a run, takes less.
TimePasses(p) ==
  /\ reg[p].recent /\ \A r \in Run : run[r].pc \in {"off", "work"}
  /\ reg' = [reg EXCEPT ![p].recent = FALSE]
  /\ UNCHANGED <<disk, free, holder, run, runs, kills>>

-----------------------------------------------------------------------------
(* A collection: run_tiered_gc.                                            *)

BugGcMark(r) ==
  /\ run[r].pc = "gcMark" /\ holder = None
  /\ holder' = r /\ reg' = reg /\ Goes(r, "gcLook")
  /\ UNCHANGED <<disk, free, runs, kills>>

\* It marks the project of the run running, also after the run.
GcMark(r) ==
  /\ run[r].pc = "gcMark" /\ holder = None
  /\ reg' = MarkedRunning(KeyOf[r]) /\ Goes(r, "gcLook")
  /\ UNCHANGED <<disk, free, holder, runs, kills>>

\* The projects whose container runs now.
Containers == {KeyOf[r] : r \in {q \in Run : run[q].pc = "work"}}

\* docker ps fails: the collection stops, and with it the script if it has
\* not started to work.
DockerFails(r) ==
  /\ run[r].pc = "gcLook" /\ Goes(r, "off")
  /\ UNCHANGED <<reg, disk, free, holder, runs, kills>>

\* Look at the containers and the free space; in an emergency, prune docker.
GcLook(r) ==
  /\ run[r].pc = "gcLook"
  /\ IF Reached(r) THEN free' = free
     ELSE free' \in (IF run[r].mode = "emergency" THEN Freed ELSE {free})
  /\ run' = IF free' >= Target(r) THEN AfterGc(r)
            ELSE [run EXCEPT ![r].pc = "gcLock", ![r].seen = Containers]
  /\ UNCHANGED <<reg, disk, holder, runs, kills>>


\* is_project_protected, with the containers of the look.
Protected(r, p) == reg[p].status = "running" \/ p \in run[r].seen \/ reg[p].recent

Eligible(r) == {p \in Project : reg[p].status = "idle" /\ ~Protected(r, p)}

\* Take the lock and list the candidates; none: nothing more to do.
GcLock(r) ==
  /\ run[r].pc = "gcLock" /\ holder = None
  /\ IF Eligible(r) = {} THEN run' = AfterGc(r) /\ holder' = None
     ELSE /\ run' = [run EXCEPT ![r].pc = "gc", ![r].elig = Eligible(r), ![r].left = Eligible(r)]
          /\ holder' = r
  /\ UNCHANGED <<reg, disk, free, runs, kills>>

BugActiveExecutor(r, p) == Protected(r, p)

\* has_active_executor_for_repo: some workspace of the repository of p.
ActiveExecutor(r, p) == \E q \in Project : BaseOf[q] = BaseOf[p] /\ reg[q].status # "none" /\ Protected(r, q)

Pushes(p) == p \in Remote \ Local

\* In maintenance, results with a remote must have been pushed.
MayEvict(r, p) == run[r].mode = "emergency" \/ ~Pushes(p) \/ run[r].pushed = p

\* A tier passes over workspaces that are gone, and over a cache that is
\* gone or that an executor of the repository may use.
PassedOver(r, p) ==
  \/ run[r].tier = 4
  \/ run[r].tier \in {1, 3, 5} /\ ~disk[p].here
  \/ run[r].tier = 3 /\ (~disk[p].cache \/ ActiveExecutor(r, p))

Collecting(r, p) == run[r].pc = "gc" /\ ~Reached(r) /\ p \in run[r].left

Skip(r, p) ==
  /\ Collecting(r, p) /\ PassedOver(r, p)
  /\ run' = [run EXCEPT ![r].left = @ \ {p}]
  /\ UNCHANGED <<reg, disk, free, holder, runs, kills>>

\* handle_transfer_push: dvc push of p; p stays if the headnode is full or
\* unreachable, or the push fails.
Push(r, p) ==
  /\ Collecting(r, p) /\ ~PassedOver(r, p) /\ run[r].tier \in {3, 5}
  /\ run[r].mode = "maintenance" /\ Pushes(p) /\ run[r].pushed # p
  /\ \/ run' = [run EXCEPT ![r].pushed = p] /\ disk' = [disk EXCEPT ![p].fresh = FALSE]
     \/ run' = [run EXCEPT ![r].left = @ \ {p}] /\ disk' = disk
  /\ UNCHANGED <<reg, free, holder, runs, kills>>

\* Tier 1 takes old history and temporary files of a workspace, tier 2 its
\* home volume, tier 3 its DVC cache, tier 5 all the rest.
Trimmed(d) == d
WithoutVolume(d) == [d EXCEPT !.volume = FALSE]
WithoutCache(d) == [d EXCEPT !.cache = FALSE, !.fresh = FALSE]

Removed(d) == [Away EXCEPT !.volume = d.volume]

Remains(d, t) == CASE t = 1 -> Trimmed(d) [] t = 2 -> WithoutVolume(d) [] t = 3 -> WithoutCache(d) [] t = 5 -> Removed(d)

Collect(r, p) ==
  /\ Collecting(r, p) /\ ~PassedOver(r, p)
  /\ run[r].tier \in {3, 5} => MayEvict(r, p)
  /\ disk' = [disk EXCEPT ![p] = Remains(@, run[r].tier)] /\ free' \in Freed
  /\ run' = [run EXCEPT ![r].left = @ \ {p}, ![r].pushed = None,
                        ![r].gone = IF run[r].tier = 5 THEN @ \cup {p} ELSE @]
  /\ UNCHANGED <<reg, holder, runs, kills>>

\* What removing the images no container uses frees.
ImagesFreed == Freed

\* On to the next tier; tier 4 is the images.
NextTier(r) ==
  /\ run[r].pc = "gc" /\ ~Reached(r) /\ run[r].left = {} /\ run[r].tier < 5
  /\ free' \in (IF run[r].tier = 4 THEN ImagesFreed ELSE {free})
  /\ run' = [run EXCEPT ![r].tier = @ + 1, ![r].left = run[r].elig]
  /\ UNCHANGED <<reg, disk, holder, runs, kills>>

\* Done or enough: write the registry, release the lock.
GcSave(r) ==
  /\ run[r].pc = "gc" /\ (Reached(r) \/ (run[r].tier = 5 /\ run[r].left = {}))
  /\ reg' = [p \in Project |-> IF p \in run[r].gone THEN [reg[p] EXCEPT !.status = "deleted"] ELSE reg[p]]
  /\ holder' = None /\ run' = AfterGc(r)
  /\ UNCHANGED <<disk, free, runs, kills>>

Next ==
  \/ \E r \in Run :
       \/ Start(r) \/ MarkRunning(r) \/ Prepare(r) \/ Work(r) \/ StopContainer(r) \/ MarkIdle(r) \/ Kill(r)
       \/ GcMark(r) \/ DockerFails(r) \/ GcLook(r) \/ GcLock(r) \/ NextTier(r) \/ GcSave(r)
       \/ \E p \in Project : Skip(r, p) \/ Push(r, p) \/ Collect(r, p)
  \/ \E p \in Project : TimePasses(p)

Spec == Init /\ [][Next]_vars

\* A run whose script is alive goes on; the collections end because flock
\* is free again when its holder is done or dead.
Steps(r) ==
  \/ MarkRunning(r) \/ Prepare(r) \/ StopContainer(r) \/ MarkIdle(r)
  \/ GcMark(r) \/ GcLook(r) \/ GcLock(r) \/ NextTier(r) \/ GcSave(r)
  \/ \E p \in Project : Skip(r, p) \/ Push(r, p) \/ Collect(r, p)

LiveSpec == Spec /\ \A r \in Run : WF_vars(Steps(r))

-----------------------------------------------------------------------------
(* Properties.                                                             *)

\* A collection never takes the workspace, the cache or the home volume from
\* under a run that works, though the list of candidates is made from a look
\* at the containers taken before the lock, and a run of the same workspace
\* that ends, or is killed, marks it idle.  Nor does it remove the cache of
\* another workspace of the same repository, unless that goes as a whole.
WorkIsKept ==
  [][\A r \in Run : run[r].pc = "work" /\ run'[r].pc = "work" =>
       LET k == KeyOf[r] IN
       /\ disk'[k].here /\ disk'[k].volume
       /\ \A p \in Project : BaseOf[p] = BaseOf[k] /\ disk[p].cache /\ disk'[p].here => disk'[p].cache]_vars

\* No run waits for ever for the registry, whoever is killed while holding
\* it: every run of the script ends.
EveryRunEnds == \A r \in Run : run[r].pc # "off" ~> run[r].pc = "off"
=============================================================================
