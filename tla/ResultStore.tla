---------------------------- MODULE ResultStore ----------------------------
(***************************************************************************)
(* What a branch promises to the stages of a job and to the people who     *)
(* push to it while the job runs: the results recorded in dvc.lock only    *)
(* accumulate, each stage of the job being recorded once, and a person's   *)
(* commit stays.  GitSync is shown to implement this module.               *)
(***************************************************************************)
EXTENDS Naturals, Functions

CONSTANTS Planned, Others, Version, Start

VARIABLES
  store,    \* recorded results: a function from the stages that have one
  code      \* how many commits of people the branch holds

vars == <<store, code>>

Init == store = Start /\ code = 0

\* A result of one stage or of several, none of which had one.
Record ==
  /\ \E new \in UNION {[D -> Version] : D \in SUBSET (Planned \ DOMAIN store)} :
       store' = [s \in DOMAIN store \cup DOMAIN new |-> IF s \in DOMAIN new THEN new[s] ELSE store[s]]
  /\ UNCHANGED code

\* A person pushes code, and possibly results of stages outside the job.
Commit ==
  /\ code' = code + 1
  /\ Restrict(store', DOMAIN store' \ Others) = Restrict(store, DOMAIN store \ Others)

Next == Record \/ Commit
Spec == Init /\ [][Next]_vars
=============================================================================
