------------------------------ MODULE DagStore ------------------------------
(***************************************************************************)
(* The node table of one parallel job (table job_nodes), as the functions  *)
(* of src/scheduler/persistence.py read and rewrite it.  A node table is a *)
(* function from nodes to statuses; the other columns that matter are      *)
(* carried by the modules that use this one.                               *)
(*                                                                         *)
(* update_dag_ready_states walks the rows once and each row already sees   *)
(* the new status of the rows before it.  SQLite gives no row order        *)
(* (the SELECT has no ORDER BY), so the order is a parameter, RowPos.      *)
(* A walk is the relation IsPass; RefreshResults is the set of tables it   *)
(* can produce, one table as soon as no two rows have the same position.   *)
(*                                                                         *)
(* An operator whose name starts with Bug is the operator that follows it  *)
(* with a plausible mistake in it; nothing uses it, it serves to show that *)
(* a property would notice the mistake.                                    *)
(***************************************************************************)
EXTENDS Naturals, FiniteSets

CONSTANTS
  Node,      \* the stages of the plan
  Deps,      \* Deps[n]: the parents of stage n
  RowPos,    \* RowPos[n]: position of n in the walk over the rows
  UpToDate   \* the stages the planner found not stale (stale = 0)

ASSUME DagAssumption ==
  /\ IsFiniteSet(Node)
  /\ Deps \in [Node -> SUBSET Node]
  /\ RowPos \in [Node -> Nat]
  /\ UpToDate \subseteq Node
  /\ \A n \in UpToDate : Deps[n] \subseteq UpToDate

\* The headnode refuses a plan with a cycle (validate_plan): among any
\* stages there is one that needs none of the others.
ASSUME AcyclicAssumption ==
  \A S \in SUBSET Node : S # {} => \E n \in S : Deps[n] \cap S = {}

Status == {"pending", "ready", "running", "preempting",
           "done", "failed", "blocked", "skipped"}

\* The statuses update_dag_ready_states may rewrite, and the only ones it writes.
Waiting   == {"pending", "ready", "blocked"}
Succeeded == {"done", "skipped"}
Broken    == {"failed", "blocked"}
Reserving == {"running", "preempting"}

\* "any" for "all": one finished parent is enough.
BugAnyParent(n, s, seen) ==
  IF \E d \in Deps[n] : seen[d] \in Broken THEN "blocked"
  ELSE IF \E d \in Deps[n] : seen[d] \in Succeeded THEN "ready"
  ELSE s

\* A failed parent is not passed on to its descendants.
BugNeverBlocks(n, s, seen) ==
  IF \A d \in Deps[n] : seen[d] \in Succeeded THEN "ready" ELSE s

\* One row of the walk: own status s, `seen' the statuses of the parents.
RefreshRow(n, s, seen) ==
  IF \E d \in Deps[n] : seen[d] \in Broken THEN "blocked"
  ELSE IF \A d \in Deps[n] : seen[d] \in Succeeded THEN "ready"
  ELSE IF s = "blocked" THEN "pending"
  ELSE s

\* `new' is what the walk over table `old' leaves behind.
IsPass(old, new) ==
  \A n \in Node :
    new[n] = IF old[n] \in Waiting
             THEN RefreshRow(n, old[n],
                    [d \in Node |-> IF RowPos[d] < RowPos[n]
                                    THEN new[d] ELSE old[d]])
             ELSE old[n]

Overlay(old, part) ==
  [n \in Node |-> IF n \in DOMAIN part THEN part[n] ELSE old[n]]

RefreshResults(old) ==
  {new \in {Overlay(old, part) :
              part \in [{n \in Node : old[n] \in Waiting} -> Waiting]} :
     IsPass(old, new)}

\* init_job_nodes_from_plan, before its own walk over the rows.
PlannedStatus ==
  [n \in Node |-> IF n \in UpToDate THEN "skipped"
                  ELSE IF Deps[n] = {} THEN "ready" ELSE "pending"]

\* Completed as soon as no node can run any more.
BugEndedIsCompleted(tab) ==
  IF \A n \in Node : tab[n] \in Succeeded \cup Broken THEN "completed" ELSE "running"

\* The failure is looked for before the activity.
BugFailsAtOnce(tab) ==
  IF \A n \in Node : tab[n] \in Succeeded THEN "completed"
  ELSE IF \E n \in Node : tab[n] \in Broken THEN "failed" ELSE "running"

\* get_aggregated_job_status for a job that is not terminated yet.
Aggregate(tab) ==
  IF \A n \in Node : tab[n] \in Succeeded THEN "completed"
  ELSE IF \E n \in Node : tab[n] \in {"running", "ready", "preempting"} THEN "running"
  ELSE IF \E n \in Node : tab[n] \in Broken THEN "failed"
  ELSE IF \E n \in Node : tab[n] = "done" THEN "running" ELSE "pending"
=============================================================================
