---------------------- MODULE GarbageCollectionProofs ----------------------
(***************************************************************************)
(* Proofs about GarbageCollection, for every set of workspaces, runs and   *)
(* repositories, and every number of kills.                                *)
(*                                                                         *)
(* A collection decides from a look at the containers taken before it has  *)
(* the lock, and a workspace at work may be marked idle by another run of  *)
(* it.  The invariant says what protects it all the same: while a run is   *)
(* on its way from its mark to its work, the mark is recent; a run that    *)
(* works is recent or was in the look of whoever collects (Noticed), since *)
(* six hours do not pass between a look and its collection; so it is on no *)
(* list of candidates (NotListed).                                         *)
(***************************************************************************)
EXTENDS GarbageCollection, TLAPS

RegState  == [status : {"none", "running", "idle", "deleted"}, recent : BOOLEAN]
DiskState == [here : BOOLEAN, cache : BOOLEAN, volume : BOOLEAN, fresh : BOOLEAN]
RunState  == [pc : Step, mode : Modes, seen : SUBSET Project, elig : SUBSET Project,
              left : SUBSET Project, tier : 1..5, pushed : Project \cup {None}, gone : SUBSET Project]

\* On its way from the mark to the work, and from the mark to the end of it.
Claimed(r) == run[r].pc \in {"gcMark", "gcLook", "gcLock", "gc", "prepare"} /\ run[r].mode = "emergency"
Holding(r) == Claimed(r) \/ run[r].pc = "work"

MarkIsRecent == \A r \in Run : Claimed(r) => reg[KeyOf[r]].recent
MarkIsKnown == \A r \in Run : Holding(r) => reg[KeyOf[r]].status # "none"
Noticed ==
  \A r, c \in Run : run[r].pc = "work" /\ run[c].pc \in {"gcLock", "gc"} =>
    reg[KeyOf[r]].recent \/ KeyOf[r] \in run[c].seen
NotListed == \A r, c \in Run : Holding(r) /\ run[c].pc = "gc" => KeyOf[r] \notin run[c].elig
LeftIsListed == \A c \in Run : run[c].left \subseteq run[c].elig
Mounted == \A r \in Run : run[r].pc = "work" => disk[KeyOf[r]].here /\ disk[KeyOf[r]].volume

BeforeWork == \A r \in Run : run[r].pc = "prepare" => run[r].mode = "emergency"

IInv ==
  /\ TypeOK /\ BeforeWork /\ MarkIsRecent /\ MarkIsKnown
  /\ Noticed /\ NotListed /\ LeftIsListed /\ Mounted

-----------------------------------------------------------------------------
(* What steps do to the parts of the state.                                *)

LEMMA Assumed == KeyOf \in [Run -> Project] /\ None \notin Run /\ MaxFree \in Nat
BY GarbageCollectionAssumption

\* The script of r goes on, and nothing else of it changes.
LEMMA GoesOn ==
  ASSUME TypeOK, NEW r \in Run, NEW pc \in Step, Goes(r, pc)
  PROVE  /\ run' \in [Run -> RunState] /\ run'[r] = [run[r] EXCEPT !.pc = pc]
         /\ \A q \in Run : q # r => run'[q] = run[q]
<1> DEFINE next == [run[r] EXCEPT !.pc = pc]
<1>1. run[r] \in RunState
  BY DEF TypeOK, RunState
<1>2. next \in RunState
  BY <1>1 DEF RunState
<1>3. run' = [run EXCEPT ![r] = next]
  BY DEF Goes
<1> HIDE DEF next
<1>4. run \in [Run -> RunState]
  BY DEF TypeOK, RunState
<1>5. run' \in [Run -> RunState] /\ run'[r] = next /\ \A q \in Run : q # r => run'[q] = run[q]
  BY <1>2, <1>3, <1>4
<1> QED
  BY <1>5 DEF next

\* A collection that ends.
LEMMA Leaving ==
  ASSUME TypeOK, NEW r \in Run, NEW next, next = AfterGc(r)
  PROVE  /\ next \in [Run -> RunState]
         /\ next[r].pc \in {"prepare", "off"} /\ next[r].mode = "emergency" /\ next[r].left = {}
         /\ next[r].pc = "prepare" => run[r].mode = "emergency"
         /\ \A q \in Run : q # r => next[q] = run[q]
<1> DEFINE new == [Off EXCEPT !.pc = IF run[r].mode = "emergency" THEN "prepare" ELSE "off"]
<1>1. /\ new \in RunState /\ new.pc \in {"prepare", "off"} /\ new.mode = "emergency" /\ new.left = {}
      /\ new.pc = "prepare" => run[r].mode = "emergency"
  BY DEF Off, RunState, Step, Modes
<1>2. run \in [Run -> RunState]
  BY DEF TypeOK, RunState
<1>3. next = [run EXCEPT ![r] = new]
  BY DEF AfterGc
<1> HIDE DEF new
<1> QED
  BY <1>1, <1>2, <1>3

\* The registry with the project of a run marked.
LEMMA Marked ==
  ASSUME TypeOK, NEW p \in Project, NEW next, next = MarkedRunning(p)
  PROVE  /\ next \in [Project -> RegState]
         /\ next[p].status = "running" /\ next[p].recent
         /\ \A q \in Project : q # p => next[q] = reg[q]
<1>1. reg \in [Project -> RegState] /\ reg[p] \in RegState
  BY DEF TypeOK, RegState
<1>2. next = [reg EXCEPT ![p] = [[@ EXCEPT !.status = "running"] EXCEPT !.recent = TRUE]]
  BY <1>1 DEF MarkedRunning
<1> DEFINE new == [[reg[p] EXCEPT !.status = "running"] EXCEPT !.recent = TRUE]
<1>3. new \in RegState /\ new.status = "running" /\ new.recent
  BY <1>1 DEF RegState
<1>4. next = [reg EXCEPT ![p] = new]
  BY <1>2
<1> HIDE DEF new
<1> QED
  BY <1>1, <1>3, <1>4

-----------------------------------------------------------------------------
(* What a step of one run must respect.                                    *)

Kept == \A p \in Project :
  /\ reg[p].recent => reg'[p].recent
  /\ reg[p].status # "none" => reg'[p].status # "none"

\* A run is on its way to its work because it was, or because it marks its
\* project while nobody collects.
ClaimsAfterMark(r) ==
  Claimed(r)' => \/ Claimed(r)
                 \/ /\ reg'[KeyOf[r]].recent /\ reg'[KeyOf[r]].status # "none"
                    /\ \A c \in Run : run'[c].pc # "gc"

\* Who is about to collect has looked: at this step, or before.
LooksFirst(r) ==
  run'[r].pc \in {"gcLock", "gc"} =>
    \/ run[r].pc \in {"gcLock", "gc"} /\ run'[r].seen = run[r].seen
    \/ run'[r].pc = "gcLock" /\ \A q \in Run : run[q].pc = "work" => KeyOf[q] \in run'[r].seen

\* The list of candidates is made once, and has nothing protected on it.
ListsUnprotected(r) ==
  run'[r].pc = "gc" =>
    \/ run[r].pc = "gc" /\ run'[r].elig = run[r].elig
    \/ run[r].pc = "gcLock" /\ \A p \in run'[r].elig : ~Protected(r, p)

LEMMA OneRunMoves ==
  ASSUME IInv, TypeOK', NEW r \in Run, \A q \in Run : q # r => run'[q] = run[q],
         Kept, ClaimsAfterMark(r), LooksFirst(r), ListsUnprotected(r),
         run'[r].pc = "prepare" => run'[r].mode = "emergency",
         run'[r].pc = "work" => Claimed(r) \/ run[r].pc = "work",
         run'[r].left \subseteq run'[r].elig,
         Mounted'
  PROVE  IInv'
<1>1. KeyOf \in [Run -> Project]
  BY Assumed
<1>2. MarkIsRecent'
  BY <1>1 DEF IInv, MarkIsRecent, Claimed, Kept, ClaimsAfterMark
<1>3. MarkIsKnown'
  BY <1>1 DEF IInv, MarkIsKnown, Holding, Claimed, Kept, ClaimsAfterMark
<1>4. Noticed'
  <2> SUFFICES ASSUME NEW q \in Run, NEW c \in Run,
                      run'[q].pc = "work", run'[c].pc \in {"gcLock", "gc"}
               PROVE  reg'[KeyOf[q]].recent \/ KeyOf[q] \in run'[c].seen
    BY DEF Noticed
  <2>1. CASE run[q].pc # "work"
    BY <1>1, <2>1 DEF IInv, MarkIsRecent, Kept
  <2>2. CASE run[q].pc = "work"
    <3>1. CASE run[c].pc \in {"gcLock", "gc"} /\ run'[c].seen = run[c].seen
      BY <1>1, <2>2, <3>1 DEF IInv, Noticed, Kept
    <3>2. CASE ~(run[c].pc \in {"gcLock", "gc"} /\ run'[c].seen = run[c].seen)
      BY <2>2, <3>2 DEF LooksFirst
    <3> QED
      BY <3>1, <3>2
  <2> QED
    BY <2>1, <2>2
<1>5. NotListed'
  <2> SUFFICES ASSUME NEW q \in Run, NEW c \in Run, Holding(q)', run'[c].pc = "gc"
               PROVE  KeyOf[q] \notin run'[c].elig
    BY DEF NotListed
  <2>1. Holding(q)
    BY DEF Holding, Claimed, ClaimsAfterMark
  <2>2. CASE run[c].pc = "gc" /\ run'[c].elig = run[c].elig
    BY <2>1, <2>2 DEF IInv, NotListed
  <2>3. CASE ~(run[c].pc = "gc" /\ run'[c].elig = run[c].elig)
    <3>1. run[c].pc = "gcLock" /\ \A p \in run'[c].elig : ~Protected(c, p)
      BY <2>3 DEF ListsUnprotected
    <3>2. Protected(c, KeyOf[q])
      BY <1>1, <2>1, <3>1 DEF IInv, MarkIsRecent, Noticed, Holding, Protected
    <3> QED
      BY <3>1, <3>2
  <2> QED
    BY <2>2, <2>3
<1>6. LeftIsListed'
  BY DEF IInv, LeftIsListed
<1>7. BeforeWork'
  BY DEF IInv, BeforeWork
<1> QED
  BY <1>2, <1>3, <1>4, <1>5, <1>6, <1>7 DEF IInv

\* Types, part by part.
LEMMA TypesAfter ==
  ASSUME reg' \in [Project -> RegState], disk' \in [Project -> DiskState], free' \in 0..MaxFree,
         holder' \in Run \cup {None}, run' \in [Run -> RunState],
         \A r \in Run : holder' = r <=> run'[r].pc = "gc",
         \A p \in Project : disk'[p].cache \/ disk'[p].fresh => disk'[p].here,
         runs' \in 0..MaxRuns, kills' \in 0..MaxKills
  PROVE  TypeOK'
BY DEF TypeOK, RegState, DiskState, RunState

LEMMA TypesBefore ==
  ASSUME IInv
  PROVE  /\ reg \in [Project -> RegState] /\ disk \in [Project -> DiskState] /\ free \in 0..MaxFree
         /\ holder \in Run \cup {None} /\ run \in [Run -> RunState]
         /\ \A r \in Run : holder = r <=> run[r].pc = "gc"
         /\ \A p \in Project : disk[p].cache \/ disk[p].fresh => disk[p].here
         /\ runs \in 0..MaxRuns /\ kills \in 0..MaxKills
BY DEF IInv, TypeOK, RegState, DiskState, RunState

\* The list of a collection is set to S, or its look to S, and no more.
LEMMA LeftSet ==
  ASSUME NEW u \in RunState, NEW S \in SUBSET Project
  PROVE  /\ [u EXCEPT !.left = S] \in RunState /\ [u EXCEPT !.left = S].left = S
         /\ [u EXCEPT !.left = S].pc = u.pc /\ [u EXCEPT !.left = S].mode = u.mode
         /\ [u EXCEPT !.left = S].seen = u.seen /\ [u EXCEPT !.left = S].elig = u.elig
BY DEF RunState

LEMMA SeenSet ==
  ASSUME NEW u \in RunState, NEW S \in SUBSET Project
  PROVE  /\ [u EXCEPT !.seen = S] \in RunState /\ [u EXCEPT !.seen = S].seen = S
         /\ [u EXCEPT !.seen = S].pc = u.pc /\ [u EXCEPT !.seen = S].mode = u.mode
         /\ [u EXCEPT !.seen = S].left = u.left /\ [u EXCEPT !.seen = S].elig = u.elig
BY DEF RunState

-----------------------------------------------------------------------------
(* The script.                                                             *)

LEMMA StartKeeps ==
  ASSUME IInv, NEW r \in Run, Start(r)
  PROVE  IInv'
<1> DEFINE new == [Off EXCEPT !.pc = "mark"]
<1>1. new \in RunState /\ new.pc = "mark" /\ new.left = {}
  BY DEF Off, RunState, Step, Modes
<1>2. run' = [run EXCEPT ![r] = new]
  BY DEF Start
<1> HIDE DEF new
<1>3. run' \in [Run -> RunState] /\ run'[r] = new /\ \A q \in Run : q # r => run'[q] = run[q]
  BY <1>1, <1>2, TypesBefore
<1>4. runs' \in 0..MaxRuns
  BY GarbageCollectionAssumption, TypesBefore DEF Start
<1>5. TypeOK'
  BY <1>1, <1>3, <1>4, TypesBefore, TypesAfter DEF Start
<1>6. Mounted'
  BY <1>1, <1>3 DEF Start, IInv, Mounted
<1> QED
  BY <1>1, <1>3, <1>5, <1>6, OneRunMoves
  DEF Start, Kept, ClaimsAfterMark, LooksFirst, ListsUnprotected, Claimed

LEMMA MarkKeeps ==
  ASSUME IInv, NEW r \in Run, MarkRunning(r) \/ GcMark(r)
  PROVE  IInv'
<1> DEFINE pc == IF MarkRunning(r) THEN "gcMark" ELSE "gcLook"
<1>1. /\ holder = None /\ reg' = MarkedRunning(KeyOf[r]) /\ Goes(r, pc) /\ pc \in Step
      /\ UNCHANGED <<disk, free, holder, runs, kills>>
      /\ pc \in {"gcMark", "gcLook"} /\ run[r].pc \in {"mark", "gcMark"}
  BY DEF MarkRunning, GcMark, Step
<1> HIDE DEF pc
<1>2. /\ run' \in [Run -> RunState] /\ run'[r] = [run[r] EXCEPT !.pc = pc]
      /\ \A q \in Run : q # r => run'[q] = run[q]
  BY <1>1, GoesOn DEF IInv
<1>3. run'[r].pc = pc /\ run'[r].left = run[r].left /\ run'[r].elig = run[r].elig /\ run'[r].mode = run[r].mode
  BY <1>2, TypesBefore DEF RunState
<1>4. /\ reg' \in [Project -> RegState] /\ reg'[KeyOf[r]].status = "running" /\ reg'[KeyOf[r]].recent
      /\ \A q \in Project : q # KeyOf[r] => reg'[q] = reg[q]
  BY <1>1, Marked, Assumed DEF IInv
<1>5. \A c \in Run : run[c].pc # "gc" /\ run'[c].pc # "gc"
  <2>1. \A c \in Run : run[c].pc # "gc"
    BY <1>1, TypesBefore, Assumed
  <2> QED
    BY <1>1, <1>2, <1>3, <2>1
<1>6. TypeOK'
  <2>1. \A c \in Run : holder' = c <=> run'[c].pc = "gc"
    BY <1>1, <1>5, Assumed
  <2>2. /\ disk' \in [Project -> DiskState] /\ free' \in 0..MaxFree /\ holder' \in Run \cup {None}
        /\ runs' \in 0..MaxRuns /\ kills' \in 0..MaxKills
    BY <1>1, TypesBefore
  <2>3. \A p \in Project : disk'[p].cache \/ disk'[p].fresh => disk'[p].here
    BY <1>1, TypesBefore
  <2> QED
    BY <1>2, <1>4, <2>1, <2>2, <2>3, TypesAfter
<1>7. Mounted'
  BY <1>1, <1>2, <1>3 DEF IInv, Mounted
<1>8. Kept
  BY <1>4 DEF Kept
<1>9. ClaimsAfterMark(r) /\ LooksFirst(r) /\ ListsUnprotected(r)
  BY <1>1, <1>3, <1>4, <1>5 DEF ClaimsAfterMark, LooksFirst, ListsUnprotected
<1> QED
  BY <1>1, <1>2, <1>3, <1>6, <1>7, <1>8, <1>9, OneRunMoves DEF IInv, LeftIsListed

LEMMA PrepareKeeps ==
  ASSUME IInv, NEW r \in Run, Prepare(r)
  PROVE  IInv'
<1> DEFINE k == KeyOf[r]
           d == [[disk[k] EXCEPT !.here = TRUE] EXCEPT !.volume = TRUE]
<1>0. k \in Project
  BY Assumed
<1>1. /\ run' \in [Run -> RunState] /\ run'[r] = [run[r] EXCEPT !.pc = "work"]
      /\ \A q \in Run : q # r => run'[q] = run[q]
  BY GoesOn DEF IInv, Prepare, Step
<1>2. run'[r].pc = "work" /\ run'[r].left = run[r].left /\ run'[r].elig = run[r].elig
  BY <1>1, TypesBefore DEF RunState
<1>3. d \in DiskState /\ d.here /\ d.volume
  BY <1>0, TypesBefore DEF DiskState
<1>4. disk' = [disk EXCEPT ![k] = d]
  <2>1. disk' = [disk EXCEPT ![k] = [[@ EXCEPT !.here = TRUE] EXCEPT !.volume = TRUE]]
    BY <1>0, TypesBefore DEF Prepare
  <2> QED
    BY <2>1
<1> HIDE DEF d
<1>5. disk' \in [Project -> DiskState] /\ disk'[k] = d /\ \A p \in Project : p # k => disk'[p] = disk[p]
  BY <1>0, <1>3, <1>4, TypesBefore
<1>6. TypeOK'
  <2>1. /\ reg' \in [Project -> RegState] /\ free' \in 0..MaxFree /\ holder' \in Run \cup {None}
        /\ runs' \in 0..MaxRuns /\ kills' \in 0..MaxKills
    BY TypesBefore DEF Prepare
  <2>2. \A c \in Run : holder' = c <=> run'[c].pc = "gc"
    <3>1. holder' = holder /\ run[r].pc = "prepare"
      BY DEF Prepare
    <3> QED
      BY <1>1, <1>2, <3>1, TypesBefore
  <2>3. \A p \in Project : disk'[p].cache \/ disk'[p].fresh => disk'[p].here
    BY <1>3, <1>5, TypesBefore
  <2> QED
    BY <1>1, <1>5, <2>1, <2>2, <2>3, TypesAfter
<1>7. Mounted'
  <2> SUFFICES ASSUME NEW q \in Run, run'[q].pc = "work"
               PROVE  disk'[KeyOf[q]].here /\ disk'[KeyOf[q]].volume
    BY DEF Mounted
  <2>1. CASE KeyOf[q] = k
    BY <1>3, <1>5, <2>1
  <2>2. CASE KeyOf[q] # k
    <3>1. q # r /\ KeyOf[q] \in Project
      BY <2>2, Assumed
    <3> QED
      BY <1>1, <1>5, <2>2, <3>1 DEF IInv, Mounted
  <2> QED
    BY <2>1, <2>2
<1>8. Claimed(r)
  BY DEF Prepare, IInv, BeforeWork, Claimed
<1> QED
  BY <1>1, <1>2, <1>6, <1>7, <1>8, OneRunMoves
  DEF Prepare, Kept, ClaimsAfterMark, LooksFirst, ListsUnprotected, Claimed, IInv, LeftIsListed

\* The work fills a cache of a workspace that is there.
LEMMA WorkKeeps ==
  ASSUME IInv, NEW r \in Run, Work(r)
  PROVE  IInv'
<1> DEFINE k == KeyOf[r]
           d == [[disk[k] EXCEPT !.cache = TRUE] EXCEPT !.fresh = TRUE]
<1>0. k \in Project /\ disk[k] \in DiskState
  BY Assumed, TypesBefore
<1>1. d \in DiskState /\ d.here = disk[k].here /\ d.volume = disk[k].volume
  BY <1>0 DEF DiskState
<1>2. disk' = [disk EXCEPT ![k] = d]
  <2>1. disk' = [disk EXCEPT ![k] = [[@ EXCEPT !.cache = TRUE] EXCEPT !.fresh = TRUE]]
    BY <1>0, TypesBefore DEF Work
  <2> QED
    BY <2>1
<1>3. disk[k].here
  BY DEF Work, IInv, Mounted
<1> HIDE DEF d
<1>4. disk' \in [Project -> DiskState] /\ disk'[k] = d /\ \A p \in Project : p # k => disk'[p] = disk[p]
  BY <1>0, <1>1, <1>2, TypesBefore
<1>5. free' \in 0..MaxFree /\ UNCHANGED <<reg, holder, run, runs, kills>>
  <2>1. free' = (IF free = 0 THEN 0 ELSE free - 1) /\ UNCHANGED <<reg, holder, run, runs, kills>>
    BY DEF Work
  <2>2. free \in 0..MaxFree /\ MaxFree \in Nat
    BY Assumed, TypesBefore
  <2> QED
    BY <2>1, <2>2
<1>6. \A p \in Project : disk'[p].cache \/ disk'[p].fresh => disk'[p].here
  BY <1>1, <1>3, <1>4, TypesBefore
<1>7. TypeOK'
  BY <1>4, <1>5, <1>6, TypesBefore, TypesAfter
<1>8. Mounted'
  BY <1>1, <1>4, <1>5, Assumed DEF IInv, Mounted
<1> QED
  BY <1>5, <1>7, <1>8, OneRunMoves
  DEF Kept, ClaimsAfterMark, LooksFirst, ListsUnprotected, Claimed, IInv, LeftIsListed, BeforeWork

\* The container stops; or docker ps fails.
LEMMA StopKeeps ==
  ASSUME IInv, NEW r \in Run, StopContainer(r) \/ DockerFails(r)
  PROVE  IInv'
<1> DEFINE pc == IF StopContainer(r) THEN "idle" ELSE "off"
<1>1. /\ pc \in {"idle", "off"} /\ pc \in Step /\ run[r].pc \in {"work", "gcLook"} /\ Goes(r, pc)
      /\ UNCHANGED <<reg, disk, free, holder, runs, kills>>
  BY DEF StopContainer, DockerFails, Step
<1> HIDE DEF pc
<1>2. /\ run' \in [Run -> RunState] /\ run'[r] = [run[r] EXCEPT !.pc = pc]
      /\ \A q \in Run : q # r => run'[q] = run[q]
  BY <1>1, GoesOn DEF IInv
<1>3. run'[r].pc = pc /\ run'[r].left = run[r].left /\ run'[r].elig = run[r].elig
  BY <1>2, TypesBefore DEF RunState
<1>6. \A q \in Run : holder' = q <=> run'[q].pc = "gc"
  BY <1>1, <1>2, <1>3, TypesBefore
<1>4. TypeOK'
  BY <1>1, <1>2, <1>6, TypesBefore, TypesAfter
<1>5. Mounted'
  BY <1>1, <1>2, <1>3 DEF IInv, Mounted
<1> QED
  BY <1>1, <1>2, <1>3, <1>4, <1>5, OneRunMoves
  DEF Kept, ClaimsAfterMark, LooksFirst, ListsUnprotected, Claimed, IInv, LeftIsListed

LEMMA MarkIdleKeeps ==
  ASSUME IInv, NEW r \in Run, MarkIdle(r)
  PROVE  IInv'
<1> DEFINE k == KeyOf[r]
           mark == [[reg[k] EXCEPT !.status = "idle"] EXCEPT !.recent = TRUE]
           new == [[Off EXCEPT !.pc = "gcMark"] EXCEPT !.mode = "maintenance"]
<1>0. k \in Project /\ reg[k] \in RegState
  BY Assumed, TypesBefore
<1>1. new \in RunState /\ new.pc = "gcMark" /\ new.mode = "maintenance" /\ new.left = {}
  <2>1. Off \in RunState /\ Off.left = {}
    BY DEF Off, RunState, Step, Modes
  <2>2. "gcMark" \in Step /\ "maintenance" \in Modes
    BY DEF Step, Modes
  <2> QED
    BY <2>1, <2>2 DEF RunState
<1>2. run' = [run EXCEPT ![r] = new]
  BY DEF MarkIdle
<1>3. mark \in RegState /\ mark.recent /\ mark.status = "idle"
  BY <1>0 DEF RegState
<1>4. reg' = [reg EXCEPT ![k] = mark]
  <2>1. reg' = [reg EXCEPT ![k] = [[@ EXCEPT !.status = "idle"] EXCEPT !.recent = TRUE]]
    BY <1>0, TypesBefore DEF MarkIdle
  <2> QED
    BY <2>1
<1> HIDE DEF new, mark
<1>5. run' \in [Run -> RunState] /\ run'[r] = new /\ \A q \in Run : q # r => run'[q] = run[q]
  BY <1>1, <1>2, TypesBefore
<1>6. reg' \in [Project -> RegState] /\ reg'[k] = mark /\ \A p \in Project : p # k => reg'[p] = reg[p]
  BY <1>0, <1>3, <1>4, TypesBefore
<1>7. TypeOK'
  BY <1>1, <1>5, <1>6, TypesBefore, TypesAfter DEF MarkIdle
<1>8. Mounted'
  BY <1>1, <1>5 DEF MarkIdle, IInv, Mounted
<1>9. Kept
  BY <1>3, <1>6 DEF Kept
<1> QED
  BY <1>1, <1>5, <1>7, <1>8, <1>9, OneRunMoves
  DEF ClaimsAfterMark, LooksFirst, ListsUnprotected, Claimed

LEMMA KillKeeps ==
  ASSUME IInv, NEW r \in Run, Kill(r)
  PROVE  IInv'
<1>1. Off \in RunState /\ Off.pc = "off" /\ Off.left = {}
  BY DEF Off, RunState, Step, Modes
<1>2. run' \in [Run -> RunState] /\ run'[r] = Off /\ \A q \in Run : q # r => run'[q] = run[q]
  BY <1>1, TypesBefore DEF Kill
<1>3. kills' \in 0..MaxKills
  BY GarbageCollectionAssumption, TypesBefore DEF Kill
<1>4. \A q \in Run : holder' = q <=> run'[q].pc = "gc"
  BY <1>1, <1>2, TypesBefore, Assumed DEF Kill
<1>5. TypeOK'
  BY <1>2, <1>3, <1>4, TypesBefore, TypesAfter DEF Kill
<1>6. Mounted'
  BY <1>1, <1>2 DEF Kill, IInv, Mounted
<1> QED
  BY <1>1, <1>2, <1>5, <1>6, OneRunMoves
  DEF Kill, Kept, ClaimsAfterMark, LooksFirst, ListsUnprotected, Claimed

\* Six hours pass only while every run is over or at work, so before any
\* collection has looked.
LEMMA TimeKeeps ==
  ASSUME IInv, NEW p \in Project, TimePasses(p)
  PROVE  IInv'
<1> DEFINE mark == [reg[p] EXCEPT !.recent = FALSE]
<1>1. mark \in RegState /\ mark.status = reg[p].status
  BY TypesBefore DEF RegState
<1>2. reg' = [reg EXCEPT ![p] = mark]
  BY TypesBefore DEF TimePasses
<1> HIDE DEF mark
<1>3. reg' \in [Project -> RegState] /\ \A q \in Project : reg'[q].status = reg[q].status
  BY <1>1, <1>2, TypesBefore
<1>4. TypeOK'
  BY <1>3, TypesBefore, TypesAfter DEF TimePasses
<1>5. run' = run /\ disk' = disk /\ \A r \in Run : run[r].pc \in {"off", "work"}
  BY DEF TimePasses
<1>6. MarkIsRecent' /\ Noticed' /\ NotListed'
  BY <1>5 DEF MarkIsRecent, Noticed, NotListed, Claimed
<1>7. MarkIsKnown'
  BY <1>3, <1>5, Assumed DEF IInv, MarkIsKnown, Holding, Claimed
<1> QED
  BY <1>4, <1>5, <1>6, <1>7 DEF IInv, BeforeWork, LeftIsListed, Mounted

-----------------------------------------------------------------------------
(* A collection.                                                           *)

LEMMA LookKeeps ==
  ASSUME IInv, NEW r \in Run, GcLook(r)
  PROVE  IInv'
<1>1. run[r].pc = "gcLook" /\ UNCHANGED <<reg, disk, holder, runs, kills>>
  BY DEF GcLook
<1>2. free' \in 0..MaxFree
  BY TypesBefore, Assumed DEF GcLook, Freed
<1>3. CASE run' = AfterGc(r)
  <2>1. /\ run' \in [Run -> RunState]
        /\ run'[r].pc \in {"prepare", "off"} /\ run'[r].mode = "emergency" /\ run'[r].left = {}
        /\ run'[r].pc = "prepare" => run[r].mode = "emergency"
        /\ \A q \in Run : q # r => run'[q] = run[q]
    BY <1>3, Leaving DEF IInv
  <2>2. TypeOK'
    BY <1>1, <1>2, <2>1, TypesBefore, TypesAfter
  <2>3. Mounted'
    BY <1>1, <2>1 DEF IInv, Mounted
  <2> QED
    BY <1>1, <2>1, <2>2, <2>3, OneRunMoves
    DEF Kept, ClaimsAfterMark, LooksFirst, ListsUnprotected, Claimed
<1>4. CASE run' = [run EXCEPT ![r].pc = "gcLock", ![r].seen = Containers]
  <2> DEFINE new == [[run[r] EXCEPT !.pc = "gcLock"] EXCEPT !.seen = Containers]
  <2>1. Containers \in SUBSET Project
    BY Assumed DEF Containers
  <2>2. new \in RunState /\ new.pc = "gcLock" /\ new.seen = Containers
        /\ new.mode = run[r].mode /\ new.left = run[r].left /\ new.elig = run[r].elig
    <3> DEFINE u == [run[r] EXCEPT !.pc = "gcLock"]
    <3>1. u \in RunState /\ u.pc = "gcLock" /\ u.mode = run[r].mode /\ u.left = run[r].left
          /\ u.elig = run[r].elig
      <4>1. run[r] \in RunState
        BY TypesBefore
      <4> QED
        BY <4>1 DEF RunState, Step
    <3> HIDE DEF u
    <3>2. new = [u EXCEPT !.seen = Containers]
      BY DEF u
    <3> QED
      BY <2>1, <3>1, <3>2, SeenSet
  <2>3. run' = [run EXCEPT ![r] = new]
    <3>1. run' = [run EXCEPT ![r] = [[@ EXCEPT !.pc = "gcLock"] EXCEPT !.seen = Containers]]
      BY <1>4, TypesBefore
    <3> QED
      BY <3>1
  <2> HIDE DEF new
  <2>4. run' \in [Run -> RunState] /\ run'[r] = new /\ \A q \in Run : q # r => run'[q] = run[q]
    BY <2>2, <2>3, TypesBefore
  <2>5. TypeOK'
    BY <1>1, <1>2, <2>2, <2>4, TypesBefore, TypesAfter
  <2>6. Mounted'
    BY <1>1, <2>2, <2>4 DEF IInv, Mounted
  <2>7. \A q \in Run : run[q].pc = "work" => KeyOf[q] \in run'[r].seen
    BY <2>2, <2>4 DEF Containers
  <2> QED
    BY <1>1, <2>2, <2>4, <2>5, <2>6, <2>7, OneRunMoves
    DEF Kept, ClaimsAfterMark, LooksFirst, ListsUnprotected, Claimed, IInv, LeftIsListed
<1> QED
  BY <1>3, <1>4 DEF GcLook

LEMMA LockKeeps ==
  ASSUME IInv, NEW r \in Run, GcLock(r)
  PROVE  IInv'
<1>1. run[r].pc = "gcLock" /\ holder = None /\ UNCHANGED <<reg, disk, free, runs, kills>>
  BY DEF GcLock
<1>2. CASE run' = AfterGc(r) /\ holder' = None
  <2>1. /\ run' \in [Run -> RunState]
        /\ run'[r].pc \in {"prepare", "off"} /\ run'[r].mode = "emergency" /\ run'[r].left = {}
        /\ run'[r].pc = "prepare" => run[r].mode = "emergency"
        /\ \A q \in Run : q # r => run'[q] = run[q]
    BY <1>2, Leaving DEF IInv
  <2>2. TypeOK'
    BY <1>1, <1>2, <2>1, TypesBefore, TypesAfter
  <2>3. Mounted'
    BY <1>1, <2>1 DEF IInv, Mounted
  <2> QED
    BY <1>1, <2>1, <2>2, <2>3, OneRunMoves
    DEF Kept, ClaimsAfterMark, LooksFirst, ListsUnprotected, Claimed
<1>3. CASE /\ run' = [run EXCEPT ![r].pc = "gc", ![r].elig = Eligible(r), ![r].left = Eligible(r)]
           /\ holder' = r
  <2> DEFINE list == Eligible(r)
             new == [[[run[r] EXCEPT !.pc = "gc"] EXCEPT !.elig = list] EXCEPT !.left = list]
  <2>1. list \in SUBSET Project /\ \A p \in list : ~Protected(r, p)
    BY DEF Eligible
  <2>0. run' = [run EXCEPT ![r].pc = "gc", ![r].elig = list, ![r].left = list]
    BY <1>3
  <2> HIDE DEF list
  <2>2. new \in RunState /\ new.pc = "gc" /\ new.elig = list /\ new.left = list
        /\ new.mode = run[r].mode /\ new.seen = run[r].seen
    <3>1. run[r] \in RunState
      BY TypesBefore
    <3> QED
      BY <2>1, <3>1 DEF RunState, Step
  <2>3. run' = [run EXCEPT ![r] = new]
    <3>1. run' = [run EXCEPT ![r] = [[[@ EXCEPT !.pc = "gc"] EXCEPT !.elig = list] EXCEPT !.left = list]]
      BY <2>0, TypesBefore
    <3> QED
      BY <3>1
  <2> HIDE DEF new
  <2>4. run' \in [Run -> RunState] /\ run'[r] = new /\ \A q \in Run : q # r => run'[q] = run[q]
    BY <2>2, <2>3, TypesBefore
  <2>5. \A q \in Run : holder' = q <=> run'[q].pc = "gc"
    BY <1>1, <1>3, <2>2, <2>4, TypesBefore, Assumed
  <2>6. TypeOK'
    BY <1>1, <1>3, <2>4, <2>5, TypesBefore, TypesAfter
  <2>7. Mounted'
    BY <1>1, <2>2, <2>4 DEF IInv, Mounted
  <2> QED
    BY <1>1, <2>1, <2>2, <2>4, <2>6, <2>7, OneRunMoves
    DEF Kept, ClaimsAfterMark, LooksFirst, ListsUnprotected, Claimed
<1> QED
  BY <1>2, <1>3 DEF GcLock

\* A collection under way: its record changes, not the lists it decides from.
LEMMA CollectorMoves ==
  ASSUME IInv, NEW r \in Run, NEW new \in RunState, run[r].pc = "gc", run' = [run EXCEPT ![r] = new],
         new.pc = "gc", new.mode = run[r].mode, new.seen = run[r].seen, new.elig = run[r].elig,
         new.left \subseteq new.elig,
         UNCHANGED <<reg, holder, runs, kills>>, free' \in 0..MaxFree,
         disk' \in [Project -> DiskState],
         \A p \in Project : disk'[p].cache \/ disk'[p].fresh => disk'[p].here,
         \A p \in Project : p \notin run[r].left =>
            (disk[p].here => disk'[p].here) /\ (disk[p].volume => disk'[p].volume)
  PROVE  IInv'
<1>1. run' \in [Run -> RunState] /\ run'[r] = new /\ \A q \in Run : q # r => run'[q] = run[q]
  BY TypesBefore
<1>2. \A q \in Run : holder' = q <=> run'[q].pc = "gc"
  BY <1>1, TypesBefore
<1>3. TypeOK'
  BY <1>1, <1>2, TypesBefore, TypesAfter
<1>4. Mounted'
  <2> SUFFICES ASSUME NEW q \in Run, run'[q].pc = "work"
               PROVE  disk'[KeyOf[q]].here /\ disk'[KeyOf[q]].volume
    BY DEF Mounted
  <2>1. q # r /\ run[q].pc = "work"
    BY <1>1
  <2>2. disk[KeyOf[q]].here /\ disk[KeyOf[q]].volume /\ KeyOf[q] \in Project
    BY <2>1, Assumed DEF IInv, Mounted
  <2>3. KeyOf[q] \notin run[r].left
    BY <2>1 DEF IInv, NotListed, LeftIsListed, Holding
  <2> QED
    BY <2>2, <2>3
<1> QED
  BY <1>1, <1>3, <1>4, OneRunMoves
  DEF Kept, ClaimsAfterMark, LooksFirst, ListsUnprotected, Claimed

LEMMA SkipKeeps ==
  ASSUME IInv, NEW r \in Run, NEW p \in Project, Skip(r, p)
  PROVE  IInv'
<1> DEFINE S == run[r].left \ {p}
           new == [run[r] EXCEPT !.left = S]
<1>1. new \in RunState /\ new.pc = run[r].pc /\ new.mode = run[r].mode /\ new.seen = run[r].seen
      /\ new.elig = run[r].elig /\ new.left = S
  <2>1. run[r] \in RunState /\ S \in SUBSET Project
    BY TypesBefore DEF RunState
  <2> HIDE DEF S
  <2> QED
    BY <2>1, LeftSet
<1>2. run' = [run EXCEPT ![r] = new] /\ run[r].pc = "gc"
  BY TypesBefore DEF Skip, Collecting
<1>3. S \subseteq run[r].elig
  BY <1>2 DEF IInv, LeftIsListed
<1>4. UNCHANGED <<reg, disk, free, holder, runs, kills>>
  BY DEF Skip
<1> HIDE DEF S, new
<1>5. new.left \subseteq new.elig
  BY <1>1, <1>3
<1>6. /\ free' \in 0..MaxFree /\ disk' \in [Project -> DiskState]
      /\ \A q \in Project : disk'[q].cache \/ disk'[q].fresh => disk'[q].here
  BY <1>4, TypesBefore
<1>7. \A q \in Project : (disk[q].here => disk'[q].here) /\ (disk[q].volume => disk'[q].volume)
  BY <1>4
<1> QED
  BY <1>1, <1>2, <1>4, <1>5, <1>6, <1>7, CollectorMoves

LEMMA PushKeeps ==
  ASSUME IInv, NEW r \in Run, NEW p \in Project, Push(r, p)
  PROVE  IInv'
<1>1. run[r].pc = "gc" /\ UNCHANGED <<reg, free, holder, runs, kills>>
  BY DEF Push, Collecting
<1>2. CASE run' = [run EXCEPT ![r].left = @ \ {p}] /\ disk' = disk
  <2> DEFINE S == run[r].left \ {p}
             new == [run[r] EXCEPT !.left = S]
  <2>1. new \in RunState /\ new.pc = run[r].pc /\ new.mode = run[r].mode /\ new.seen = run[r].seen
        /\ new.elig = run[r].elig /\ new.left = S
    <3>1. run[r] \in RunState /\ S \in SUBSET Project
      BY TypesBefore DEF RunState
    <3> HIDE DEF S
    <3> QED
      BY <3>1, LeftSet
  <2>2. run' = [run EXCEPT ![r] = new]
    BY <1>2, TypesBefore
  <2>3. S \subseteq run[r].elig
    BY <1>1 DEF IInv, LeftIsListed
  <2> HIDE DEF S, new
  <2>4. new.left \subseteq new.elig
    BY <2>1, <2>3
  <2>5. /\ free' \in 0..MaxFree /\ disk' \in [Project -> DiskState]
        /\ \A q \in Project : disk'[q].cache \/ disk'[q].fresh => disk'[q].here
    BY <1>1, <1>2, TypesBefore
  <2>6. \A q \in Project : (disk[q].here => disk'[q].here) /\ (disk[q].volume => disk'[q].volume)
    BY <1>2
  <2> QED
    BY <1>1, <2>1, <2>2, <2>4, <2>5, <2>6, CollectorMoves
<1>3. CASE run' = [run EXCEPT ![r].pushed = p] /\ disk' = [disk EXCEPT ![p].fresh = FALSE]
  <2> DEFINE new == [run[r] EXCEPT !.pushed = p]
             d == [disk[p] EXCEPT !.fresh = FALSE]
  <2>1. new \in RunState /\ new.pc = run[r].pc /\ new.mode = run[r].mode /\ new.seen = run[r].seen
        /\ new.elig = run[r].elig /\ new.left = run[r].left
    BY TypesBefore DEF RunState
  <2>2. run' = [run EXCEPT ![r] = new]
    BY <1>3, TypesBefore
  <2>3. d \in DiskState /\ d.here = disk[p].here /\ d.volume = disk[p].volume
        /\ (d.cache \/ d.fresh => disk[p].cache)
    BY TypesBefore DEF DiskState
  <2>4. disk' = [disk EXCEPT ![p] = d]
    BY <1>3, TypesBefore
  <2> HIDE DEF new, d
  <2>5. disk' \in [Project -> DiskState] /\ disk'[p] = d /\ \A q \in Project : q # p => disk'[q] = disk[q]
    BY <2>3, <2>4, TypesBefore
  <2>6. \A q \in Project : disk'[q].cache \/ disk'[q].fresh => disk'[q].here
    BY <2>3, <2>5, TypesBefore
  <2>7. \A q \in Project : disk'[q].here = disk[q].here /\ disk'[q].volume = disk[q].volume
    BY <2>3, <2>5
  <2> QED
    BY <1>1, <2>1, <2>2, <2>5, <2>6, <2>7, CollectorMoves, TypesBefore DEF IInv, LeftIsListed
<1> QED
  BY <1>2, <1>3 DEF Push

\* What a tier leaves of a workspace.
LEMMA RemainsOK ==
  ASSUME NEW d \in DiskState, NEW t \in {1, 2, 3, 5}, d.cache \/ d.fresh => d.here
  PROVE  /\ Remains(d, t) \in DiskState
         /\ Remains(d, t).cache \/ Remains(d, t).fresh => Remains(d, t).here
         /\ t # 3 /\ d.cache /\ Remains(d, t).here => Remains(d, t).cache
<1>0. /\ Remains(d, 1) = Trimmed(d) /\ Remains(d, 2) = WithoutVolume(d)
      /\ Remains(d, 3) = WithoutCache(d) /\ Remains(d, 5) = Removed(d)
  BY DEF Remains
<1>1. CASE t = 1
  BY <1>0, <1>1 DEF Trimmed
<1>2. CASE t = 2
  BY <1>0, <1>2 DEF WithoutVolume, DiskState
<1>3. CASE t = 3
  BY <1>0, <1>3 DEF WithoutCache, DiskState
<1>4. CASE t = 5
  BY <1>0, <1>4 DEF Removed, Away, DiskState
<1> QED
  BY <1>1, <1>2, <1>3, <1>4

\* The workspace a collection treats, and the tier it is in.
LEMMA Collected ==
  ASSUME IInv, NEW r \in Run, NEW p \in Project, Collect(r, p)
  PROVE  /\ run[r].pc = "gc" /\ run[r].tier \in {1, 2, 3, 5} /\ p \in run[r].left
         /\ disk' = [disk EXCEPT ![p] = Remains(disk[p], run[r].tier)]
         /\ run[r].tier = 3 => ~ActiveExecutor(r, p)
<1>1. run[r].tier \in 1..5 /\ run[r].tier # 4
  BY TypesBefore DEF Collect, PassedOver, RunState
<1>2. run[r].tier \in {1, 2, 3, 5}
  BY <1>1
<1>3. disk' = [disk EXCEPT ![p] = Remains(disk[p], run[r].tier)]
  BY TypesBefore DEF Collect
<1> QED
  BY <1>2, <1>3 DEF Collect, Collecting, PassedOver

LEMMA CollectKeeps ==
  ASSUME IInv, NEW r \in Run, NEW p \in Project, Collect(r, p)
  PROVE  IInv'
<1> DEFINE gone == IF run[r].tier = 5 THEN run[r].gone \cup {p} ELSE run[r].gone
           left == run[r].left \ {p}
           new == [[[run[r] EXCEPT !.left = left] EXCEPT !.pushed = None] EXCEPT !.gone = gone]
           d == Remains(disk[p], run[r].tier)
<1>1. run[r] \in RunState /\ gone \in SUBSET Project /\ left \in SUBSET Project
  BY TypesBefore DEF RunState
<1>2. run' = [run EXCEPT ![r] = new]
  <2>1. run' = [run EXCEPT ![r].left = left, ![r].pushed = None, ![r].gone = gone]
    BY TypesBefore DEF Collect
  <2> HIDE DEF left, gone
  <2>2. run' = [run EXCEPT ![r] = [[[@ EXCEPT !.left = left] EXCEPT !.pushed = None] EXCEPT !.gone = gone]]
    BY <2>1, TypesBefore
  <2> QED
    BY <2>2
<1>3. left \subseteq run[r].left
  OBVIOUS
<1> HIDE DEF gone, left
<1>4. new \in RunState /\ new.pc = run[r].pc /\ new.mode = run[r].mode /\ new.seen = run[r].seen
      /\ new.elig = run[r].elig /\ new.left = left
  BY <1>1 DEF RunState
<1> HIDE DEF new
<1>5. d \in DiskState /\ (d.cache \/ d.fresh => d.here)
  BY Collected, RemainsOK, TypesBefore
<1>6. disk' = [disk EXCEPT ![p] = d]
  BY Collected
<1> HIDE DEF d
<1>7. disk' \in [Project -> DiskState] /\ disk'[p] = d /\ \A q \in Project : q # p => disk'[q] = disk[q]
  BY <1>5, <1>6, TypesBefore
<1>8. \A q \in Project : disk'[q].cache \/ disk'[q].fresh => disk'[q].here
  BY <1>5, <1>7, TypesBefore
<1>9. free' \in 0..MaxFree
  BY TypesBefore, Assumed DEF Collect, Freed
<1>10. run[r].pc = "gc" /\ p \in run[r].left /\ UNCHANGED <<reg, holder, runs, kills>>
  BY Collected DEF Collect
<1> QED
  BY <1>2, <1>3, <1>4, <1>7, <1>8, <1>9, <1>10, CollectorMoves DEF IInv, LeftIsListed

LEMMA TierKeeps ==
  ASSUME IInv, NEW r \in Run, NextTier(r)
  PROVE  IInv'
<1> DEFINE new == [[run[r] EXCEPT !.tier = run[r].tier + 1] EXCEPT !.left = run[r].elig]
<1>1. run[r] \in RunState /\ run[r].tier + 1 \in 1..5
  BY TypesBefore DEF NextTier, RunState
<1>2. new \in RunState /\ new.pc = run[r].pc /\ new.mode = run[r].mode /\ new.seen = run[r].seen
      /\ new.elig = run[r].elig /\ new.left = run[r].elig
  BY <1>1 DEF RunState
<1>3. run' = [run EXCEPT ![r] = new]
  <2>1. run' = [run EXCEPT ![r].tier = run[r].tier + 1, ![r].left = run[r].elig]
    BY TypesBefore DEF NextTier
  <2>2. run' = [run EXCEPT ![r] = [[@ EXCEPT !.tier = run[r].tier + 1] EXCEPT !.left = run[r].elig]]
    BY <2>1, TypesBefore
  <2> QED
    BY <2>2
<1> HIDE DEF new
<1>4. free' \in 0..MaxFree
  BY TypesBefore, Assumed DEF NextTier, Freed, ImagesFreed
<1>5. run[r].pc = "gc" /\ UNCHANGED <<reg, disk, holder, runs, kills>>
  BY DEF NextTier
<1>6. new.left \subseteq new.elig
  BY <1>2
<1> QED
  BY <1>2, <1>3, <1>4, <1>5, <1>6, CollectorMoves, TypesBefore

LEMMA SaveKeeps ==
  ASSUME IInv, NEW r \in Run, GcSave(r)
  PROVE  IInv'
<1>1. run[r].pc = "gc" /\ holder' = None /\ run' = AfterGc(r) /\ UNCHANGED <<disk, free, runs, kills>>
  BY DEF GcSave
<1>2. /\ run' \in [Run -> RunState]
      /\ run'[r].pc \in {"prepare", "off"} /\ run'[r].mode = "emergency" /\ run'[r].left = {}
      /\ run'[r].pc = "prepare" => run[r].mode = "emergency"
      /\ \A q \in Run : q # r => run'[q] = run[q]
  BY <1>1, Leaving DEF IInv
<1>3. \A q \in Run : holder' = q <=> run'[q].pc = "gc"
  BY <1>1, <1>2, TypesBefore, Assumed
<1>4. ASSUME NEW p \in Project
      PROVE  /\ reg'[p] \in RegState /\ reg'[p].recent = reg[p].recent
             /\ reg[p].status # "none" => reg'[p].status # "none"
  <2>1. reg[p] \in RegState
    BY TypesBefore
  <2>2. reg'[p] = reg[p] \/ reg'[p] = [reg[p] EXCEPT !.status = "deleted"]
    BY DEF GcSave
  <2> QED
    BY <2>1, <2>2 DEF RegState
<1>5. reg' \in [Project -> RegState] /\ Kept
  BY <1>4 DEF GcSave, Kept
<1>6. TypeOK'
  BY <1>1, <1>2, <1>3, <1>5, TypesBefore, TypesAfter
<1>7. Mounted'
  BY <1>1, <1>2 DEF IInv, Mounted
<1> QED
  BY <1>1, <1>2, <1>5, <1>6, <1>7, OneRunMoves
  DEF ClaimsAfterMark, LooksFirst, ListsUnprotected, Claimed

-----------------------------------------------------------------------------
LEMMA InitHolds == Init => IInv
<1> SUFFICES ASSUME Init PROVE IInv
  OBVIOUS
<1>1. Off \in RunState /\ Off.pc = "off" /\ Off.left = {}
  BY DEF Off, RunState, Step, Modes
<1>2. run \in [Run -> RunState] /\ \A r \in Run : run[r] = Off
  BY <1>1 DEF Init
<1>3. reg \in [Project -> RegState]
  BY DEF Init, RegState
<1>4. /\ disk \in [Project -> DiskState]
      /\ \A p \in Project : disk[p].cache \/ disk[p].fresh => disk[p].here
  BY DEF Init, DiskState, Away
<1>5. free \in 0..MaxFree /\ holder = None /\ runs \in 0..MaxRuns /\ kills \in 0..MaxKills
  BY GarbageCollectionAssumption DEF Init
<1>6. TypeOK
  BY <1>1, <1>2, <1>3, <1>4, <1>5, Assumed DEF TypeOK, RegState, DiskState, RunState
<1> QED
  BY <1>1, <1>2, <1>6
  DEF IInv, BeforeWork, MarkIsRecent, MarkIsKnown, Noticed, NotListed, LeftIsListed, Mounted,
      Holding, Claimed

LEMMA NextKeeps == IInv /\ [Next]_vars => IInv'
<1> SUFFICES ASSUME IInv, [Next]_vars PROVE IInv'
  OBVIOUS
<1>1. ASSUME NEW r \in Run,
             \/ Start(r) \/ MarkRunning(r) \/ Prepare(r) \/ Work(r) \/ StopContainer(r) \/ MarkIdle(r)
             \/ Kill(r) \/ GcMark(r) \/ DockerFails(r) \/ GcLook(r) \/ GcLock(r) \/ NextTier(r)
             \/ GcSave(r)
      PROVE  IInv'
  BY <1>1, StartKeeps, MarkKeeps, PrepareKeeps, WorkKeeps, StopKeeps, MarkIdleKeeps, KillKeeps,
     LookKeeps, LockKeeps, TierKeeps, SaveKeeps
<1>2. ASSUME NEW r \in Run, NEW p \in Project, Skip(r, p) \/ Push(r, p) \/ Collect(r, p)
      PROVE  IInv'
  BY <1>2, SkipKeeps, PushKeeps, CollectKeeps
<1>3. ASSUME NEW p \in Project, TimePasses(p) PROVE IInv'
  BY <1>3, TimeKeeps
<1>4. CASE UNCHANGED vars
  BY <1>4 DEF vars, IInv, TypeOK, BeforeWork, MarkIsRecent, MarkIsKnown, Noticed, NotListed,
     LeftIsListed, Mounted, Holding, Claimed
<1> QED
  BY <1>1, <1>2, <1>3, <1>4 DEF Next

LEMMA Invariance == Spec => []IInv
BY InitHolds, NextKeeps, PTL DEF Spec

\* The types of the registry, the disk and the runs: in particular the lock is
\* held by the one run that collects, whoever is killed.
THEOREM CollectionTypeOK == Spec => []TypeOK
<1>1. IInv => TypeOK
  BY DEF IInv
<1> QED
  BY <1>1, Invariance, PTL

\* Who evicts a cache in tier 3 has no working run of the repository.
LEMMA CacheIsKept ==
  ASSUME IInv, [Next]_vars, NEW r \in Run, run[r].pc = "work",
         NEW p \in Project, BaseOf[p] = BaseOf[KeyOf[r]], disk[p].cache, disk'[p].here
  PROVE  disk'[p].cache
<1>1. CASE disk' = disk
  BY <1>1
<1>2. ASSUME NEW q \in Run, Prepare(q) \/ Work(q)
      PROVE  disk'[p].cache
  <2>1. KeyOf[q] \in Project /\ disk[p] \in DiskState /\ disk \in [Project -> DiskState]
    BY Assumed, TypesBefore
  <2>2. CASE Prepare(q)
    BY <2>1, <2>2 DEF Prepare, DiskState
  <2>3. CASE Work(q)
    BY <2>1, <2>3 DEF Work, DiskState
  <2> QED
    BY <1>2, <2>2, <2>3
<1>3. ASSUME NEW c \in Run, NEW q \in Project, Push(c, q)
      PROVE  disk'[p].cache
  BY <1>3, TypesBefore DEF Push, DiskState
<1>4. ASSUME NEW c \in Run, NEW q \in Project, Collect(c, q)
      PROVE  disk'[p].cache
  <2>1. CASE p # q
    BY <1>4, <2>1, Collected, TypesBefore
  <2>2. CASE p = q
    <3>1. /\ disk'[p] = Remains(disk[p], run[c].tier)
          /\ run[c].pc = "gc" /\ run[c].tier \in {1, 2, 3, 5}
          /\ run[c].tier = 3 => ~ActiveExecutor(c, p)
      BY <1>4, <2>2, Collected, TypesBefore
    <3>2. ActiveExecutor(c, p)
      <4>1. KeyOf[r] \in Project /\ reg[KeyOf[r]].status # "none"
        BY Assumed DEF IInv, MarkIsKnown, Holding
      <4>2. Protected(c, KeyOf[r])
        BY <3>1 DEF IInv, Noticed, Protected
      <4> QED
        BY <4>1, <4>2 DEF ActiveExecutor
    <3>3. disk[p] \in DiskState /\ (disk[p].cache \/ disk[p].fresh => disk[p].here)
      BY TypesBefore
    <3> QED
      BY <3>1, <3>2, <3>3, RemainsOK
  <2> QED
    BY <2>1, <2>2
<1>5. ASSUME NEW c \in Run,
             \/ Start(c) \/ MarkRunning(c) \/ StopContainer(c) \/ MarkIdle(c) \/ Kill(c) \/ GcMark(c)
             \/ DockerFails(c) \/ GcLook(c) \/ GcLock(c) \/ NextTier(c) \/ GcSave(c)
             \/ \E q \in Project : Skip(c, q)
      PROVE  disk' = disk
  BY <1>5 DEF Start, MarkRunning, StopContainer, MarkIdle, Kill, GcMark, DockerFails, GcLook, GcLock,
     NextTier, GcSave, Skip
<1>6. ASSUME NEW q \in Project, TimePasses(q) PROVE disk' = disk
  BY <1>6 DEF TimePasses
<1> QED
  BY <1>1, <1>2, <1>3, <1>4, <1>5, <1>6 DEF Next, vars

\* A collection takes neither the workspace nor the home volume from under a run
\* that works, nor the cache of any workspace of its repository, although it looks
\* before it locks and other runs mark the workspace idle meanwhile.
THEOREM CollectionKeepsWork == Spec => WorkIsKept
<1> DEFINE Spared ==
      \A r \in Run : run[r].pc = "work" /\ run'[r].pc = "work" =>
        LET k == KeyOf[r] IN
        /\ disk'[k].here /\ disk'[k].volume
        /\ \A p \in Project : BaseOf[p] = BaseOf[k] /\ disk[p].cache /\ disk'[p].here => disk'[p].cache
<1>1. IInv /\ [Next]_vars => IInv' /\ Spared
  <2> SUFFICES ASSUME IInv, [Next]_vars PROVE IInv' /\ Spared
    OBVIOUS
  <2>1. IInv'
    BY NextKeeps
  <2>2. Spared
    BY <2>1, CacheIsKept DEF IInv, Mounted
  <2> QED
    BY <2>1, <2>2
<1>2. Spared => [Spared]_vars
  OBVIOUS
<1> QED
  BY InitHolds, <1>1, <1>2, PTL DEF Spec, WorkIsKept
=============================================================================
