--------------------------- MODULE Deploy_proofs ---------------------------
(***************************************************************************)
(* What comes into the home.                                               *)
(*                                                                         *)
(* Deploy: the apply for every home, every set of configurations and of    *)
(* ignored paths, every number of applies, of faults and of edits by the   *)
(* user.  What the state will name (Accounted), what the files will hold   *)
(* (Converging) and which of them an apply before this one wrote (Named)   *)
(* are the parts of one inductive invariant.                               *)
(*                                                                         *)
(* Releases: the installs of every number of goroutines, of any list of    *)
(* releases.  Every goroutine's stack of installs is right (StacksAreRight), *)
(* at most one of them is in the lookup of the token (LookupsAreOne), and  *)
(* what that lookup starts asks for none (ChildrenDoNotAsk).               *)
(***************************************************************************)
EXTENDS Deploy, Releases, WellFoundedInduction, TLAPS

Planned == pc \in {"plan", "before", "execute"}
Over == pc \in {"idle", "ok", "dry"}

(* A configuration is a tree: nothing wanted lies beneath a wanted file.   *)
IsTree == \A p \in Path : Parent[p] # Home /\ wanted[p] # Absent => wanted[Parent[p]] = Absent

DeployTypeOK ==
  /\ disk \in [Path -> Version \cup {Absent, Dir}]
  /\ saved \in [Path -> Source \cup {NoSource}]
  /\ mem \in [Path -> Source \cup {NoSource}]
  /\ wanted \in [Path -> Version \cup {Absent}] /\ IsTree
  /\ ignored \subseteq Path /\ ours \subseteq Path
  /\ act \in [Path -> {"none", "unplanned", "create", "update", "noop", "delete"}]
  /\ step \in [Path -> {"none", "queued", "found", "dir", "clear", "done", "cut", "failed"}]
  /\ pc \in {"idle", "plan", "before", "execute", "save", "ok", "dry", "failed", "crashed"}

(* What state.json should name.                                            *)
Target(p) == IF p \in Wanted \ ignored THEN SourceOf[wanted[p]] ELSE NoSource

(* The loaded state until it is patched; a dry run gets nowhere.           *)
LoadedState ==
  /\ Planned => /\ mem = Loaded(ignored)
                /\ ~dropped => \A p \in ignored : saved[p] = NoSource
  /\ pc \in {"before", "execute", "save"} => ~opts.dryRun

(* The plan: every wanted target has an action, a noop only if the state   *)
(* names it rightly, and of the others those that the state names go.      *)
PlanIsRight ==
  /\ pc = "plan" => \A p \in Path \ Wanted : act[p] = "none"
  /\ pc \in {"before", "execute"} =>
       \A p \in Path \ Wanted : act[p] = IF mem[p] # NoSource THEN "delete" ELSE "none"
  /\ Planned => \A p \in Wanted :
       /\ act[p] \in {"create", "update", "noop"} \/ (pc = "plan" /\ act[p] = "unplanned")
       /\ act[p] = "noop" => p \in ignored \/ mem[p] = SourceOf[wanted[p]]

(* The work follows the plan, and is only cut off when some of it failed.  *)
WorkFollowsPlan ==
  pc = "execute" => \A p \in Path :
    /\ step[p] = "none" <=> act[p] \in {"none", "noop"}
    /\ step[p] = "found" => act[p] = "delete"
    /\ step[p] \in {"dir", "clear"} => act[p] \in {"create", "update"}
    /\ step[p] = "cut" => Cancelled

Accounted ==
  /\ LoadedState /\ PlanIsRight /\ WorkFollowsPlan
  /\ pc = "save" => \A p \in Path : mem[p] = Target(p)
  /\ pc = "ok" => \A p \in Path : saved[p] = Target(p)

(* Targets whose files are looked at: the bundles are trusted.             *)
Strict(p) == SourceOf[wanted[p]] \notin Bundled \/ opts.noCache

Converging ==
  ~edited => \A p \in Wanted : Strict(p) =>
    /\ Planned /\ (act[p] = "noop" \/ (pc = "execute" /\ step[p] = "done")) => disk[p] = wanted[p]
    /\ pc \in {"save", "ok"} => disk[p] = wanted[p]

(* What an apply wrote and is still there the state names, or this apply   *)
(* wants it; what is deleted is gone.                                      *)
Named ==
  /\ \A p \in ours : disk[p] \in Version
  /\ Running => ours \cap ignored = {}
  /\ unbroken => \A p \in ours :
       /\ Over => saved[p] # NoSource
       /\ Running => mem[p] # NoSource \/ (pc = "execute" /\ p \in Wanted)
       /\ pc = "execute" /\ act[p] = "delete" => step[p] # "done"

ApplyInv == DeployTypeOK /\ Accounted /\ Converging /\ Named
----------------------------------------------------------------------------
(* Lemmas about the operators and the steps of an item.                    *)

LEMMA WithDirValue ==
  ASSUME DeployTypeOK, NEW q \in Path, DirCanBeMade(q)
  PROVE  /\ WithDir(q) \in [Path -> Version \cup {Absent, Dir}]
         /\ \A p \in Path : \/ WithDir(q)[p] = disk[p]
                            \/ p = Parent[q] /\ disk[p] \in {Absent, Dir} /\ WithDir(q)[p] = Dir
<1>1. disk \in [Path -> Version \cup {Absent, Dir}]
  BY DEF DeployTypeOK
<1>2. CASE Parent[q] = Home
  <2>1. WithDir(q) = disk
    BY <1>2 DEF WithDir
  <2> QED
    BY <1>1, <2>1
<1>3. CASE Parent[q] # Home
  <2>1. Parent[q] \in Path /\ disk[Parent[q]] \in {Absent, Dir}
    BY <1>3, PathsAssumption DEF DirCanBeMade
  <2>2. WithDir(q) = [disk EXCEPT ![Parent[q]] = Dir]
    BY <1>3 DEF WithDir
  <2> HIDE DEF WithDir
  <2> QED
    BY <1>1, <2>1, <2>2
<1> QED
  BY <1>2, <1>3

LEMMA WithoutValue ==
  ASSUME DeployTypeOK, NEW P
  PROVE  /\ Without(P) \in [Path -> Version \cup {Absent, Dir}]
         /\ \A p \in Path : Without(P)[p] = IF p \in P THEN Absent ELSE disk[p]
BY DEF DeployTypeOK, Without

(* What an item may do to the files: make the directory of a wanted target,*)
(* remove what it holds, give it what is wanted, or remove an orphan.      *)
MakesDir(q, p) == p = Parent[q] /\ q \in Wanted /\ disk[p] \in {Absent, Dir} /\ disk'[p] = Dir
Removes(q, p) == q \in Wanted /\ Clears(q) /\ p \in {q} \cup Beneath(q) /\ disk'[p] = Absent
Gives(q, p) == p = q /\ q \in Wanted /\ disk'[p] = wanted[p]
Deletes(q, p) == p = q /\ q \notin Wanted /\ mem[q] # NoSource /\ disk'[p] = Absent

LEMMA WorkedOn ==
  ASSUME DeployTypeOK, PlanIsRight, pc = "execute", NEW q \in Path
  PROVE  /\ act[q] = "delete" => q \notin Wanted /\ mem[q] # NoSource
         /\ act[q] \in {"create", "update"} => q \in Wanted
BY DEF PlanIsRight, Planned, DeployTypeOK

LEMMA ItemTouches ==
  ASSUME DeployTypeOK, PlanIsRight, WorkFollowsPlan, NEW q \in Path, Item(q)
  PROVE  /\ pc = "execute"
         /\ UNCHANGED <<saved, pc, wanted, ignored, opts, mem, dropped, act, edited, unbroken>>
         /\ \A p \in Path : p # q => step'[p] = step[p]
         /\ disk' \in [Path -> Version \cup {Absent, Dir}]
         /\ \A p \in Path : \/ disk'[p] = disk[p]
                            \/ MakesDir(q, p) \/ Removes(q, p) \/ Gives(q, p) \/ Deletes(q, p)
<1> USE DEF DeployTypeOK
<1>0. /\ pc = "execute"
      /\ UNCHANGED <<saved, pc, wanted, ignored, opts, mem, dropped, act, edited, unbroken>>
      /\ \A p \in Path : p # q => step'[p] = step[p]
  BY DEF Item, Cut, StartDelete, RemoveFound, StartWrite, ClearTarget, Install, Moves
<1>1. CASE Cut(q) \/ StartDelete(q)
  BY <1>0, <1>1 DEF Cut, StartDelete
<1>2. CASE RemoveFound(q)
  <2>1. act[q] = "delete"
    BY <1>0, <1>2 DEF RemoveFound, WorkFollowsPlan
  <2>2. q \notin Wanted /\ mem[q] # NoSource
    BY <1>0, <2>1, WorkedOn
  <2>3. disk' = disk \/ disk' = Without({q})
    BY <1>2 DEF RemoveFound
  <2> QED
    BY <1>0, <2>2, <2>3, WithoutValue DEF Deletes
<1>3. CASE StartWrite(q)
  <2>1. q \in Wanted
    BY <1>0, <1>3, WorkedOn DEF StartWrite
  <2>2. disk' = disk \/ (DirCanBeMade(q) /\ disk' = WithDir(q))
    BY <1>3 DEF StartWrite
  <2> QED
    BY <1>0, <2>1, <2>2, WithDirValue DEF MakesDir
<1>4. ASSUME ClearTarget(q) \/ Install(q) PROVE q \in Wanted
  BY <1>0, <1>4, WorkedOn DEF ClearTarget, Install, WorkFollowsPlan
<1>5. CASE ClearTarget(q)
  <2>1. disk' = disk \/ (Clears(q) /\ disk' = Without({q} \cup Beneath(q)))
    BY <1>5 DEF ClearTarget
  <2> QED
    BY <1>0, <1>4, <1>5, <2>1, WithoutValue DEF Removes
<1>6. CASE Install(q)
  <2>1. disk' = disk \/ (DirCanBeMade(q) /\ disk' = [WithDir(q) EXCEPT ![q] = wanted[q]])
    BY <1>6, PathsAssumption DEF Install, CanInstall, InDir, DirCanBeMade
  <2>2. CASE disk' = disk
    BY <1>0, <2>2
  <2>3. CASE DirCanBeMade(q) /\ disk' = [WithDir(q) EXCEPT ![q] = wanted[q]]
    <3>1. /\ disk' \in [Path -> Version \cup {Absent, Dir}] /\ disk'[q] = wanted[q]
          /\ \A p \in Path : p # q => disk'[p] = WithDir(q)[p]
      BY <2>3, WithDirValue
    <3> QED
      BY <1>0, <1>4, <1>6, <2>3, <3>1, WithDirValue DEF MakesDir, Gives
  <2> QED
    BY <2>1, <2>2, <2>3
<1> QED
  BY <1>1, <1>2, <1>3, <1>5, <1>6 DEF Item

(* The work on one target disturbs no other that is wanted: a directory is *)
(* made where there is none, and nothing wanted lies beneath another.      *)
LEMMA OthersAreLeft ==
  ASSUME DeployTypeOK, PlanIsRight, WorkFollowsPlan, NEW q \in Path, Item(q),
         NEW p \in Wanted, p # q, disk[p] \in Version
  PROVE  disk'[p] = disk[p]
<1>1. p \in Path /\ wanted[p] # Absent
  BY DEF Wanted
<1>2. ~MakesDir(q, p)
  BY PathsAssumption DEF MakesDir
<1>3. ~Removes(q, p)
  BY <1>1, PathsAssumption DEF Removes, Beneath, Wanted, DeployTypeOK, IsTree
<1> QED
  BY <1>1, <1>2, <1>3, ItemTouches DEF Gives, Deletes
----------------------------------------------------------------------------
(* The types, and what the state will name.                                *)

LEMMA InvInit == ApplyInit => ApplyInv
<1> SUFFICES ASSUME ApplyInit PROVE ApplyInv
  OBVIOUS
<1>1. DeployTypeOK
  BY DEF ApplyInit, DeployTypeOK, IsTree
<1>2. Accounted /\ Named /\ Converging
  BY DEF ApplyInit, Accounted, LoadedState, PlanIsRight, WorkFollowsPlan, Named, Converging,
    Planned, Over, Running, Wanted
<1> QED
  BY <1>1, <1>2 DEF ApplyInv

LEMMA BeginInv ==
  ASSUME ApplyInv, Begin
  PROVE  ApplyInv'
<1> USE DEF ApplyInv
<1>1. PICK c \in Configs, ig \in IgnoreSets :
        /\ wanted' = c /\ ignored' = ig /\ mem' = Loaded(ig)
        /\ dropped' = (\E p \in ig : saved[p] # NoSource)
        /\ act' = [p \in Path |-> IF c[p] # Absent THEN "unplanned" ELSE "none"]
        /\ ours' = ours \ ig
  BY DEF Begin
<1>2. /\ ~Running /\ pc' = "plan" /\ edited' = FALSE /\ UNCHANGED <<disk, saved>>
      /\ step' = [p \in Path |-> "none"]
      /\ unbroken' = (unbroken /\ pc \notin {"failed", "crashed"})
  BY DEF Begin
<1>3. /\ c \in [Path -> Version \cup {Absent}] /\ ig \subseteq Path
      /\ \A p \in Path : Parent[p] # Home /\ c[p] # Absent => c[Parent[p]] = Absent
  BY ConfigsAssumption
<1>4. /\ mem' \in [Path -> Source \cup {NoSource}]
      /\ \A p \in Path : mem'[p] = IF p \in ig THEN NoSource ELSE saved[p]
  BY <1>1 DEF Loaded, DeployTypeOK
<1>5. DeployTypeOK'
  BY <1>1, <1>2, <1>3, <1>4 DEF DeployTypeOK, IsTree
<1>6. \A p \in Path : act'[p] = IF p \in Wanted' THEN "unplanned" ELSE "none"
  BY <1>1 DEF Wanted
<1>7. Accounted'
  <2>1. LoadedState'
    BY <1>1, <1>2 DEF LoadedState, Loaded
  <2>2. PlanIsRight'
    BY <1>2, <1>6 DEF PlanIsRight, Planned, Wanted
  <2> QED
    BY <1>2, <2>1, <2>2 DEF Accounted, WorkFollowsPlan
<1>8. Converging'
  BY <1>2, <1>6 DEF Converging, Wanted
<1>9. Named'
  <2>1. ASSUME NEW p \in ours', unbroken' PROVE mem'[p] # NoSource
    <3>1. p \in ours /\ p \notin ig /\ p \in Path /\ unbroken /\ pc \notin {"failed", "crashed"}
      BY <1>1, <1>2, <2>1 DEF DeployTypeOK
    <3>2. saved[p] # NoSource
      BY <1>2, <3>1 DEF Named, Over, Running, DeployTypeOK
    <3> QED
      BY <1>4, <3>1, <3>2
  <2> QED
    BY <1>1, <1>2, <2>1 DEF Named, Over, Running
<1> QED
  BY <1>5, <1>7, <1>8, <1>9

LEMMA PlanOneInv ==
  ASSUME ApplyInv, NEW q \in Path, PlanOne(q)
  PROVE  ApplyInv'
<1> USE DEF ApplyInv
<1>1. /\ pc = "plan" /\ act[q] = "unplanned"
      /\ UNCHANGED <<disk, saved, wanted, ignored, opts, mem, dropped, step, ours, edited, unbroken>>
  BY DEF PlanOne, history
<1>2. q \in Wanted /\ Wanted' = Wanted
  BY <1>1 DEF Accounted, PlanIsRight, Wanted
<1>3. CASE PlanErrs(q)
  <2>1. pc' = "failed" /\ UNCHANGED act
    BY <1>3 DEF PlanOne
  <2> QED
    BY <1>1, <2>1 DEF DeployTypeOK, IsTree, Accounted, LoadedState, PlanIsRight, WorkFollowsPlan,
      Converging, Named, Planned, Running, Over, Wanted
<1>4. CASE ~PlanErrs(q)
  <2>1. pc' = "plan" /\ act' = [act EXCEPT ![q] = ActionFor(q)]
    BY <1>1, <1>4 DEF PlanOne
  <2>2. /\ ActionFor(q) \in {"create", "update", "noop"}
        /\ ActionFor(q) = "noop" => /\ q \in ignored \/ mem[q] = SourceOf[wanted[q]]
                                    /\ Strict(q) => disk[q] = wanted[q]
    BY DEF ActionFor, BundleUnchanged, Differs, NeedsAdopting, Strict
  <2>3. /\ act'[q] = ActionFor(q)
        /\ \A p \in Path : p # q => act'[p] = act[p]
    BY <2>1 DEF DeployTypeOK
  <2>4. DeployTypeOK'
    BY <1>1, <2>1, <2>2 DEF DeployTypeOK, IsTree
  <2>5. Accounted'
    <3>1. LoadedState'
      BY <1>1, <2>1 DEF Accounted, LoadedState, Planned, Loaded
    <3>2. PlanIsRight'
      BY <1>1, <1>2, <2>1, <2>2, <2>3 DEF Accounted, PlanIsRight, Planned, Wanted
    <3> QED
      BY <2>1, <3>1, <3>2 DEF Accounted, WorkFollowsPlan
  <2>6. Converging'
    BY <1>1, <1>2, <2>1, <2>2, <2>3 DEF Converging, Strict, Planned, Wanted
  <2>7. Named'
    BY <1>1, <2>1 DEF Named, Running, Over
  <2> QED
    BY <2>4, <2>5, <2>6, <2>7
<1> QED
  BY <1>3, <1>4

(* With nothing to do the loaded state is the one that should be.          *)
LEMMA PlanReturnsInv ==
  ASSUME ApplyInv, PlanReturns
  PROVE  ApplyInv'
<1> USE DEF ApplyInv
<1> DEFINE changes == Orphans # {} \/ \E p \in Wanted : act[p] # "noop"
<1>1. /\ pc = "plan" /\ \A p \in Wanted : act[p] # "unplanned"
      /\ act' = [p \in Path |-> IF p \in Orphans THEN "delete" ELSE act[p]]
      /\ pc' = IF changes THEN (IF opts.dryRun THEN "dry" ELSE "before")
               ELSE IF SavesDrop THEN "save" ELSE IF opts.dryRun THEN "dry" ELSE "ok"
      /\ UNCHANGED <<disk, saved, wanted, ignored, opts, mem, dropped, step, ours, edited, unbroken>>
  BY DEF PlanReturns, Settled, history
<1>2. /\ Planned /\ Wanted' = Wanted /\ mem = Loaded(ignored)
      /\ \A p \in Path : mem[p] = IF p \in ignored THEN NoSource ELSE saved[p]
  BY <1>1 DEF Accounted, LoadedState, Planned, Wanted, Loaded
<1>3. \A p \in Wanted : act[p] \in {"create", "update", "noop"} /\ act'[p] = act[p]
  BY <1>1 DEF Accounted, PlanIsRight, Planned, Wanted, Orphans
<1>4. \A p \in Path \ Wanted : act'[p] = IF mem[p] # NoSource THEN "delete" ELSE "none"
  BY <1>1 DEF Accounted, PlanIsRight, Orphans
<1>5. DeployTypeOK'
  <2>1. act' \in [Path -> {"none", "unplanned", "create", "update", "noop", "delete"}]
    BY <1>1 DEF DeployTypeOK
  <2>2. pc' \in {"before", "save", "ok", "dry"}
    BY <1>1
  <2> QED
    BY <1>1, <2>1, <2>2 DEF DeployTypeOK, IsTree
<1>6. ASSUME ~changes PROVE \A p \in Path : mem[p] = Target(p)
  <2>1. ASSUME NEW p \in Wanted PROVE mem[p] = Target(p)
    <3>1. p \in Path /\ act[p] = "noop"
      BY <1>6 DEF Wanted
    <3>2. p \in ignored \/ mem[p] = SourceOf[wanted[p]]
      BY <1>2, <3>1 DEF Accounted, PlanIsRight
    <3> QED
      BY <1>2, <3>1, <3>2 DEF Target
  <2>2. ASSUME NEW p \in Path \ Wanted PROVE mem[p] = Target(p)
    BY <1>6 DEF Orphans, Target
  <2> QED
    BY <2>1, <2>2
<1>7. \A p \in Path : Target(p)' = Target(p)
  BY <1>1 DEF Target, Wanted
<1>8. LoadedState' /\ PlanIsRight' /\ WorkFollowsPlan'
  <2>1. pc' \in {"before", "save"} => ~opts.dryRun
    BY <1>1 DEF SavesDrop
  <2>2. Planned' => pc' = "before"
    BY <1>1 DEF Planned
  <2>3. LoadedState'
    BY <1>1, <1>2, <2>1, <2>2 DEF Accounted, LoadedState, Loaded
  <2>4. PlanIsRight'
    BY <1>1, <1>2, <1>3, <1>4, <2>2 DEF Accounted, PlanIsRight
  <2> QED
    BY <1>1, <2>3, <2>4 DEF WorkFollowsPlan
<1>9. Accounted'
  <2>1. ASSUME pc' = "save" PROVE \A p \in Path : mem'[p] = Target(p)'
    BY <1>1, <1>6, <1>7, <2>1
  <2>2. ASSUME pc' = "ok" PROVE \A p \in Path : saved'[p] = Target(p)'
    <3>1. ~changes /\ ~dropped
      BY <1>1, <2>2 DEF SavesDrop
    <3>2. \A p \in ignored : saved[p] = NoSource
      BY <1>2, <3>1 DEF Accounted, LoadedState
    <3> QED
      BY <1>1, <1>2, <1>6, <1>7, <3>1, <3>2
  <2> QED
    BY <1>8, <2>1, <2>2 DEF Accounted
<1>10. Converging'
  <2>1. pc' \in {"save", "ok"} => \A p \in Wanted : act[p] = "noop"
    BY <1>1
  <2>2. Planned' => pc' = "before"
    BY <1>1 DEF Planned
  <2> QED
    BY <1>1, <1>2, <1>3, <2>1, <2>2 DEF Converging, Strict
<1>11. Named'
  <2>1. ASSUME unbroken, NEW p \in ours
        PROVE  mem[p] # NoSource /\ saved[p] # NoSource
    BY <1>1, <1>2, <2>1 DEF Named, Running, DeployTypeOK
  <2>2. pc' # "execute"
    BY <1>1
  <2> QED
    BY <1>1, <2>1, <2>2 DEF Named, Running
<1> QED
  BY <1>5, <1>9, <1>10, <1>11
----------------------------------------------------------------------------
(* Execution.                                                              *)

LEMMA StartExecuteInv ==
  ASSUME ApplyInv, StartExecute
  PROVE  ApplyInv'
<1> USE DEF ApplyInv
<1>1. /\ pc = "before" /\ pc' = "execute"
      /\ step' = [p \in Path |->
           IF act[p] \in {"create", "update", "delete"} THEN "queued" ELSE "none"]
      /\ UNCHANGED <<disk, saved, wanted, ignored, opts, mem, dropped, act, ours, edited, unbroken>>
  BY DEF StartExecute, history
<1>2. Wanted' = Wanted
  BY <1>1 DEF Wanted
<1>3. DeployTypeOK'
  BY <1>1 DEF DeployTypeOK, IsTree
<1>4. \A p \in Path : act[p] \in {"none", "noop", "create", "update", "delete"}
  BY <1>1 DEF Accounted, PlanIsRight, Planned, Wanted
<1>5. Accounted'
  <2>1. LoadedState' /\ PlanIsRight'
    BY <1>1, <1>2 DEF Accounted, LoadedState, PlanIsRight, Planned, Loaded
  <2>2. WorkFollowsPlan'
    BY <1>1, <1>4 DEF WorkFollowsPlan
  <2> QED
    BY <1>1, <2>1, <2>2 DEF Accounted
<1>6. Converging'
  BY <1>1, <1>2, <1>4 DEF Converging, Strict, Planned, Wanted
<1>7. Named'
  BY <1>1, <1>2 DEF Named, Running, Over, DeployTypeOK
<1> QED
  BY <1>3, <1>5, <1>6, <1>7

(* The progress of one item, by its action.                                *)
LEMMA ItemSteps ==
  ASSUME DeployTypeOK, PlanIsRight, WorkFollowsPlan, NEW q \in Path, Item(q)
  PROVE  /\ step' = [step EXCEPT ![q] = step'[q]]
         /\ step[q] \in {"queued", "found", "dir", "clear"}
         /\ act[q] \in {"create", "update", "delete"}
         /\ step'[q] \in {"found", "dir", "clear", "done", "cut", "failed"}
         /\ step'[q] = "found" => act[q] = "delete"
         /\ step'[q] \in {"dir", "clear"} => act[q] \in {"create", "update"}
         /\ step'[q] = "cut" => Cancelled
         /\ step'[q] = "done" /\ q \in Wanted => disk'[q] = wanted[q]
<1> USE DEF DeployTypeOK
<1>0. pc = "execute" /\ act[q] # "unplanned" /\ (act[q] = "delete" => q \notin Wanted)
  BY ItemTouches DEF PlanIsRight, Planned, Wanted
<1>1. CASE Cut(q)
  BY <1>0, <1>1 DEF Cut, Moves, WorkFollowsPlan
<1>2. CASE StartDelete(q)
  BY <1>0, <1>2 DEF StartDelete, TakesSlot, Moves
<1>3. CASE RemoveFound(q)
  BY <1>0, <1>3 DEF RemoveFound, Moves, WorkFollowsPlan
<1>4. CASE StartWrite(q)
  BY <1>0, <1>4 DEF StartWrite, TakesSlot, Moves
<1>5. CASE ClearTarget(q)
  BY <1>0, <1>5 DEF ClearTarget, Moves, WorkFollowsPlan
<1>6. CASE Install(q)
  <2>1. CASE CanInstall(q)
    <3>1. DirCanBeMade(q)
      BY <2>1, PathsAssumption DEF CanInstall, InDir, DirCanBeMade
    <3>2. disk' = [WithDir(q) EXCEPT ![q] = wanted[q]] /\ Moves(q, "done")
      BY <1>6, <2>1 DEF Install
    <3>3. disk'[q] = wanted[q]
      BY <3>1, <3>2, WithDirValue
    <3> QED
      BY <1>0, <1>6, <3>2, <3>3 DEF Install, Moves, WorkFollowsPlan
  <2>2. CASE ~CanInstall(q)
    BY <1>0, <1>6, <2>2 DEF Install, Moves, WorkFollowsPlan
  <2> QED
    BY <2>1, <2>2
<1> QED
  BY <1>1, <1>2, <1>3, <1>4, <1>5, <1>6 DEF Item

(* What an item adds to the targets that apply wrote, and takes away.      *)
LEMMA ItemOurs ==
  ASSUME DeployTypeOK, PlanIsRight, WorkFollowsPlan, NEW q \in Path, Item(q),
         \A p \in ours : disk[p] \in Version,
         NEW p \in ours'
  PROVE  /\ p \in Path /\ disk'[p] \in Version
         /\ p \in ours \/ (p = q /\ q \in Wanted /\ q \notin ignored)
         /\ p = q /\ act[q] = "delete" => step'[q] # "done"
<1> USE DEF DeployTypeOK
<1>0. /\ pc = "execute" /\ (act[q] = "delete" => q \notin Wanted)
      /\ act[q] \in {"create", "update"} => q \in Wanted
  BY ItemTouches, WorkedOn
<1>1. CASE Cut(q)
  BY <1>0, <1>1 DEF Cut, Moves
<1>2. CASE StartDelete(q)
  BY <1>0, <1>2, PathsAssumption DEF StartDelete, Moves, Exists
<1>3. CASE RemoveFound(q)
  <2>1. \/ disk' = Without({q}) /\ ours' = ours \ {q}
        \/ Moves(q, "failed") /\ UNCHANGED <<disk, ours>>
    BY <1>3 DEF RemoveFound
  <2> QED
    BY <1>0, <2>1, WithoutValue DEF Moves
<1>4. CASE StartWrite(q)
  <2>1. ours' = ours /\ act[q] \in {"create", "update"}
    BY <1>4 DEF StartWrite
  <2>2. disk' = disk \/ (DirCanBeMade(q) /\ disk' = WithDir(q))
    BY <1>4 DEF StartWrite
  <2>3. disk[p] \in Version /\ disk'[p] = disk[p]
    BY <2>1, <2>2, WithDirValue, PathsAssumption
  <2> QED
    BY <2>1, <2>3
<1>5. CASE ClearTarget(q)
  <2>1. act[q] \in {"create", "update"}
    BY <1>0, <1>5 DEF ClearTarget, WorkFollowsPlan
  <2>2. \/ /\ disk' = Without({q} \cup Beneath(q))
           /\ ours' = ours \ ({q} \cup Beneath(q))
        \/ UNCHANGED <<disk, ours>>
    BY <1>5 DEF ClearTarget
  <2> QED
    BY <2>1, <2>2, WithoutValue
<1>6. CASE Install(q)
  <2>1. act[q] \in {"create", "update"} /\ q \in Wanted
    BY <1>0, <1>6 DEF Install, WorkFollowsPlan
  <2>2. CASE CanInstall(q)
    <3>1. DirCanBeMade(q)
      BY <2>2, PathsAssumption DEF CanInstall, InDir, DirCanBeMade
    <3>2. /\ disk' = [WithDir(q) EXCEPT ![q] = wanted[q]]
          /\ ours' = IF q \in ignored THEN ours ELSE ours \cup {q}
      BY <1>6, <2>2 DEF Install
    <3>3. disk'[q] = wanted[q] /\ wanted[q] \in Version
      BY <2>1, <3>1, <3>2, WithDirValue DEF Wanted
    <3>4. p # q => p \in ours /\ disk'[p] = WithDir(q)[p]
      BY <3>1, <3>2, WithDirValue
    <3>5. p # q => disk'[p] \in Version
      BY <3>1, <3>4, WithDirValue, PathsAssumption
    <3> QED
      BY <2>1, <3>2, <3>3, <3>4, <3>5
  <2>3. CASE ~CanInstall(q)
    BY <1>6, <2>1, <2>3 DEF Install
  <2> QED
    BY <2>2, <2>3
<1> QED
  BY <1>1, <1>2, <1>3, <1>4, <1>5, <1>6 DEF Item

LEMMA ItemInv ==
  ASSUME ApplyInv, NEW q \in Path, Item(q)
  PROVE  ApplyInv'
<1>0. DeployTypeOK /\ LoadedState /\ PlanIsRight /\ WorkFollowsPlan /\ Converging /\ Named
  BY DEF ApplyInv, Accounted
<1>1. /\ pc = "execute"
      /\ UNCHANGED <<saved, pc, wanted, ignored, opts, mem, dropped, act, edited, unbroken>>
      /\ \A p \in Path : p # q => step'[p] = step[p]
      /\ disk' \in [Path -> Version \cup {Absent, Dir}]
  BY <1>0, ItemTouches
<1>2. Wanted' = Wanted
  BY <1>1 DEF Wanted
<1>3. DeployTypeOK'
  <2>1. step' \in [Path -> {"none", "queued", "found", "dir", "clear", "done", "cut", "failed"}]
    BY <1>0, ItemSteps DEF DeployTypeOK
  <2>2. ours' \subseteq Path
    BY <1>0, ItemOurs DEF Named
  <2> QED
    BY <1>0, <1>1, <2>1, <2>2 DEF DeployTypeOK, IsTree
<1>4. Accounted'
  <2>1. LoadedState' /\ PlanIsRight'
    BY <1>0, <1>1, <1>2 DEF LoadedState, PlanIsRight, Planned, Loaded
  <2>2. Cancelled => Cancelled'
    BY <1>0, <1>1, ItemSteps DEF Cancelled
  <2>3. ASSUME NEW p \in Path
        PROVE  /\ step'[p] = "none" <=> act[p] \in {"none", "noop"}
               /\ step'[p] = "found" => act[p] = "delete"
               /\ step'[p] \in {"dir", "clear"} => act[p] \in {"create", "update"}
               /\ step'[p] = "cut" => Cancelled
    BY <1>0, <1>1, ItemSteps DEF WorkFollowsPlan
  <2> QED
    BY <1>1, <2>1, <2>2, <2>3 DEF Accounted, WorkFollowsPlan
<1>5. Converging'
  <2>1. ASSUME ~edited, NEW p \in Wanted, Strict(p),
               act[p] = "noop" \/ step'[p] = "done"
        PROVE  disk'[p] = wanted[p]
    <3>1. p \in Path /\ wanted[p] \in Version
      BY <1>0 DEF Wanted, DeployTypeOK
    <3>2. CASE p = q
      BY <1>0, <2>1, <3>2, ItemSteps
    <3>3. CASE p # q
      <4>1. disk[p] = wanted[p]
        BY <1>0, <1>1, <2>1, <3>1, <3>3 DEF Converging, Planned
      <4> QED
        BY <1>0, <3>1, <3>3, <4>1, OthersAreLeft
    <3> QED
      BY <3>2, <3>3
  <2> QED
    BY <1>1, <1>2, <2>1 DEF Converging, Strict, Planned
<1>6. Named'
  <2>1. ASSUME NEW p \in ours'
        PROVE  /\ p \in Path /\ disk'[p] \in Version
               /\ p \in ours \/ (p = q /\ q \in Wanted /\ q \notin ignored)
               /\ p = q /\ act[q] = "delete" => step'[q] # "done"
    BY <1>0, ItemOurs DEF Named
  <2>2. \A p \in ours' : disk'[p] \in Version
    BY <2>1
  <2>3. ours' \cap ignored = {}
    BY <1>0, <1>1, <2>1 DEF Named, Running
  <2>4. ASSUME unbroken, NEW p \in ours'
        PROVE  /\ mem[p] # NoSource \/ p \in Wanted
               /\ act[p] = "delete" => step'[p] # "done"
    BY <1>0, <1>1, <2>1, <2>4 DEF Named, Running
  <2> QED
    BY <1>1, <1>2, <2>2, <2>3, <2>4 DEF Named, Running, Over
<1> QED
  BY <1>3, <1>4, <1>5, <1>6 DEF ApplyInv

LEMMA ItemFaultInv ==
  ASSUME ApplyInv, NEW q \in Path, ItemFault(q)
  PROVE  ApplyInv'
<1>0. DeployTypeOK /\ LoadedState /\ PlanIsRight /\ WorkFollowsPlan /\ Converging /\ Named
  BY DEF ApplyInv, Accounted
<1>1. /\ pc = "execute" /\ step[q] \in {"found", "dir", "clear"}
      /\ step' = [step EXCEPT ![q] = "failed"]
      /\ UNCHANGED <<disk, saved, pc, wanted, ignored, opts, mem, dropped, act, ours, edited, unbroken>>
  BY DEF ItemFault, AtWork, history
<1>2. Wanted' = Wanted
  BY <1>1 DEF Wanted
<1>3. /\ step'[q] = "failed"
      /\ \A p \in Path : p # q => step'[p] = step[p]
  BY <1>0, <1>1 DEF DeployTypeOK
<1>4. DeployTypeOK'
  BY <1>0, <1>1 DEF DeployTypeOK, IsTree
<1>5. Accounted'
  <2>1. LoadedState' /\ PlanIsRight'
    BY <1>0, <1>1, <1>2 DEF LoadedState, PlanIsRight, Planned, Loaded
  <2>2. Cancelled'
    BY <1>3 DEF Cancelled
  <2>3. WorkFollowsPlan'
    BY <1>0, <1>1, <1>3, <2>2 DEF WorkFollowsPlan
  <2> QED
    BY <1>1, <2>1, <2>3 DEF Accounted
<1>6. Converging'
  <2>1. ASSUME NEW p \in Wanted, step'[p] = "done" PROVE step[p] = "done"
    BY <1>3, <2>1 DEF Wanted
  <2> QED
    BY <1>0, <1>1, <1>2, <2>1 DEF Converging, Strict, Planned
<1>7. Named'
  <2>1. ASSUME NEW p \in ours, step'[p] = "done" PROVE step[p] = "done"
    BY <1>0, <1>3, <2>1 DEF DeployTypeOK
  <2> QED
    BY <1>0, <1>1, <1>2, <2>1 DEF Named, Running, Over
<1> QED
  BY <1>4, <1>5, <1>6, <1>7 DEF ApplyInv

(* The Map returned without an error: all its work is done, so the patches *)
(* make the loaded state the one that should be.                           *)
LEMMA ExecuteReturnsInv ==
  ASSUME ApplyInv, ExecuteReturns
  PROVE  ApplyInv'
<1>0. DeployTypeOK /\ LoadedState /\ PlanIsRight /\ WorkFollowsPlan /\ Converging /\ Named
  BY DEF ApplyInv, Accounted
<1>1. /\ pc = "execute" /\ MapOver
      /\ UNCHANGED <<disk, saved, wanted, ignored, opts, act, step, ours, edited, unbroken>>
  BY DEF ExecuteReturns, history
<1>2. Wanted' = Wanted
  BY <1>1 DEF Wanted
<1>3. CASE Cancelled
  <2>1. pc' = "failed" /\ mem' = mem
    BY <1>3 DEF ExecuteReturns
  <2> QED
    BY <1>0, <1>1, <1>2, <2>1 DEF ApplyInv, DeployTypeOK, IsTree, Accounted, LoadedState, PlanIsRight,
      WorkFollowsPlan, Converging, Named, Planned, Running, Over
<1>4. CASE ~Cancelled
  <2>1. /\ pc' = "save"
        /\ mem' = [p \in Path |-> IF step[p] = "done" THEN Patched(p) ELSE mem[p]]
    BY <1>4 DEF ExecuteReturns
  <2>2. ASSUME NEW p \in Path
        PROVE  /\ step[p] = "none" <=> act[p] \in {"none", "noop"}
               /\ step[p] \in {"none", "done"}
    BY <1>0, <1>1, <1>4 DEF WorkFollowsPlan, MapOver, Cancelled
  <2>3. ASSUME NEW p \in Path PROVE mem'[p] = Target(p)
    <3>1. CASE p \in Wanted /\ step[p] = "done"
      <4>1. act[p] # "delete"
        BY <1>0, <1>1, <3>1 DEF PlanIsRight, Planned
      <4> QED
        BY <2>1, <3>1, <4>1 DEF Patched, Target
    <3>2. CASE p \in Wanted /\ step[p] = "none"
      <4>1. act[p] = "noop"
        BY <1>0, <1>1, <2>2, <3>2 DEF PlanIsRight, Planned
      <4>2. p \in ignored \/ mem[p] = SourceOf[wanted[p]]
        BY <1>0, <1>1, <3>2, <4>1 DEF PlanIsRight, Planned
      <4>3. p \in ignored => mem[p] = NoSource
        BY <1>0, <1>1 DEF LoadedState, Planned, Loaded
      <4> QED
        BY <2>1, <3>2, <4>2, <4>3 DEF Target
    <3>3. CASE p \notin Wanted /\ step[p] = "done"
      <4>1. act[p] = "delete"
        BY <1>0, <1>1, <2>2, <3>3 DEF PlanIsRight
      <4> QED
        BY <2>1, <3>3, <4>1 DEF Patched, Target
    <3>4. CASE p \notin Wanted /\ step[p] = "none"
      <4>1. mem[p] = NoSource
        BY <1>0, <1>1, <2>2, <3>4 DEF PlanIsRight
      <4> QED
        BY <2>1, <3>4, <4>1 DEF Target
    <3> QED
      BY <2>2, <3>1, <3>2, <3>3, <3>4
  <2>4. \A p \in Path : Target(p)' = Target(p) /\ Target(p) \in Source \cup {NoSource}
    BY <1>0, <1>1 DEF Target, Wanted, Source, DeployTypeOK
  <2>5. DeployTypeOK'
    <3>1. mem' \in [Path -> Source \cup {NoSource}]
      BY <2>1, <2>3, <2>4
    <3> QED
      BY <1>0, <1>1, <2>1, <3>1 DEF DeployTypeOK, IsTree
  <2>6. Accounted'
    <3>1. opts' = opts /\ ~opts.dryRun
      BY <1>0, <1>1 DEF LoadedState, ExecuteReturns
    <3> QED
      BY <2>1, <2>3, <2>4, <3>1 DEF Accounted, LoadedState, PlanIsRight, WorkFollowsPlan, Planned
  <2>7. Converging'
    <3>1. ASSUME ~edited, NEW p \in Wanted, Strict(p) PROVE disk[p] = wanted[p]
      <4>1. p \in Path /\ (act[p] = "noop" \/ step[p] = "done")
        BY <1>0, <1>1, <2>2, <3>1 DEF PlanIsRight, Planned, Wanted
      <4> QED
        BY <1>0, <1>1, <3>1, <4>1 DEF Converging, Planned
    <3> QED
      BY <1>1, <1>2, <2>1, <3>1 DEF Converging, Strict, Planned
  <2>8. Named'
    <3>1. ASSUME unbroken, NEW p \in ours PROVE mem'[p] # NoSource
      <4>1. p \in Path /\ p \notin ignored
        BY <1>0, <1>1, <3>1 DEF DeployTypeOK, Named, Running
      <4>2. p \in Wanted
        <5>1. SUFFICES ASSUME p \notin Wanted PROVE FALSE
          OBVIOUS
        <5>2. mem[p] # NoSource /\ (act[p] = "delete" => step[p] # "done")
          BY <1>0, <1>1, <3>1, <5>1 DEF Named, Running
        <5> QED
          BY <1>0, <1>1, <2>2, <4>1, <5>1, <5>2 DEF PlanIsRight
      <4>3. wanted[p] \in Version
        BY <1>0, <4>2 DEF Wanted, DeployTypeOK
      <4> QED
        BY <2>3, <4>1, <4>2, <4>3, PathsAssumption DEF Target, Source
    <3> QED
      BY <1>0, <1>1, <2>1, <3>1 DEF Named, Running, Over
  <2> QED
    BY <2>5, <2>6, <2>7, <2>8 DEF ApplyInv
<1> QED
  BY <1>3, <1>4

LEMMA SaveInv ==
  ASSUME ApplyInv, Save
  PROVE  ApplyInv'
<1> USE DEF ApplyInv
<1>1. /\ pc = "save" /\ pc' = "ok" /\ saved' = mem
      /\ UNCHANGED <<disk, wanted, ignored, opts, mem, dropped, act, step, ours, edited, unbroken>>
  BY DEF Save, applyVars, history
<1>2. Wanted' = Wanted /\ \A p \in Path : Target(p)' = Target(p)
  BY <1>1 DEF Wanted, Target
<1>3. DeployTypeOK'
  BY <1>1 DEF DeployTypeOK, IsTree
<1>4. Accounted'
  BY <1>1, <1>2 DEF Accounted, LoadedState, PlanIsRight, WorkFollowsPlan, Planned
<1>5. Converging'
  BY <1>1, <1>2 DEF Converging, Strict, Planned
<1>6. Named'
  BY <1>1 DEF Named, Running, Over
<1> QED
  BY <1>3, <1>4, <1>5, <1>6

(* A failure or a crash leaves files and state as they are.                *)
LEMMA EndsInv ==
  ASSUME ApplyInv, StepFails \/ Crash
  PROVE  ApplyInv'
<1>1. /\ pc' \in {"failed", "crashed"}
      /\ UNCHANGED <<disk, saved, wanted, ignored, opts, mem, dropped, act, step, ours, edited, unbroken>>
  BY DEF StepFails, Crash, applyVars, history
<1> QED
  BY <1>1 DEF ApplyInv, DeployTypeOK, IsTree, Accounted, LoadedState, PlanIsRight,
    WorkFollowsPlan, Converging, Named, Planned, Running, Over, Wanted

(* What the user writes is the user's, and so is what lay beneath.         *)
LEMMA UserEditsInv ==
  ASSUME ApplyInv, NEW q \in Path, UserEdits(q)
  PROVE  ApplyInv'
<1> USE DEF ApplyInv
<1>1. /\ DirCanBeMade(q) /\ edited' = TRUE
      /\ ours' = ours \ ({q} \cup Beneath(q))
      /\ UNCHANGED <<saved, pc, wanted, ignored, opts, mem, dropped, act, step, unbroken>>
  BY DEF UserEdits, applyVars
<1>2. PICK x \in Version \cup {Absent, Dir} :
        disk' = [p \in Path |-> IF p = q THEN x
                   ELSE IF p \in Beneath(q) THEN Absent ELSE WithDir(q)[p]]
  BY DEF UserEdits
<1>3. /\ disk' \in [Path -> Version \cup {Absent, Dir}]
      /\ \A p \in Path : p \notin {q} \cup Beneath(q) => disk'[p] = WithDir(q)[p]
  BY <1>1, <1>2, WithDirValue
<1>4. Wanted' = Wanted /\ \A p \in Path : Target(p)' = Target(p)
  BY <1>1 DEF Wanted, Target
<1>5. DeployTypeOK'
  BY <1>1, <1>3 DEF DeployTypeOK, IsTree
<1>6. Accounted'
  <2>1. LoadedState' /\ PlanIsRight' /\ WorkFollowsPlan'
    BY <1>1, <1>4 DEF Accounted, LoadedState, PlanIsRight, WorkFollowsPlan, Planned, Loaded, Cancelled
  <2> QED
    BY <1>1, <1>4, <2>1 DEF Accounted
<1>7. Converging'
  BY <1>1 DEF Converging
<1>8. Named'
  <2>1. ASSUME NEW p \in ours' PROVE p \in ours /\ disk'[p] \in Version
    <3>1. p \in ours /\ p \in Path /\ p \notin {q} \cup Beneath(q) /\ disk[p] \in Version
      BY <1>1, <2>1 DEF Named, DeployTypeOK
    <3> QED
      BY <1>1, <1>3, <3>1, WithDirValue, PathsAssumption
  <2> QED
    BY <1>1, <1>4, <2>1 DEF Named, Running, Over
<1> QED
  BY <1>5, <1>6, <1>7, <1>8

LEMMA StutterInv ==
  ASSUME ApplyInv, UNCHANGED deployVars
  PROVE  ApplyInv'
<1>1. UNCHANGED <<disk, saved, pc, wanted, ignored, opts, mem, dropped, act, step, ours, edited, unbroken>>
  BY DEF deployVars, applyVars, history
<1>2. DeployTypeOK'
  BY <1>1 DEF ApplyInv, DeployTypeOK, IsTree
<1>3. Accounted'
  BY <1>1 DEF ApplyInv, Accounted, LoadedState, PlanIsRight, WorkFollowsPlan, Planned, Loaded,
    Cancelled, Wanted, Target
<1>4. Converging'
  BY <1>1 DEF ApplyInv, Converging, Planned, Strict, Wanted
<1>5. Named'
  BY <1>1 DEF ApplyInv, Named, Running, Over, Wanted
<1> QED
  BY <1>2, <1>3, <1>4, <1>5 DEF ApplyInv

LEMMA NextInv ==
  ASSUME ApplyInv, [ApplyNext]_deployVars
  PROVE  ApplyInv'
<1>1. CASE \E p \in Path : PlanOne(p) \/ Item(p)
  BY <1>1, PlanOneInv, ItemInv
<1>2. CASE PlanReturns \/ StartExecute \/ ExecuteReturns \/ Save
  BY <1>2, PlanReturnsInv, StartExecuteInv, ExecuteReturnsInv, SaveInv
<1>3. CASE Begin \/ StepFails \/ Crash
  BY <1>3, BeginInv, EndsInv
<1>4. CASE \E p \in Path : ItemFault(p) \/ UserEdits(p)
  BY <1>4, ItemFaultInv, UserEditsInv
<1>5. CASE Ended \/ UNCHANGED deployVars
  BY <1>5, StutterInv DEF Ended
<1> QED
  BY <1>1, <1>2, <1>3, <1>4, <1>5 DEF ApplyNext, Code

LEMMA Inductive == ApplySpec => []ApplyInv
<1>1. ApplyInit => ApplyInv
  BY InvInit
<1>2. ApplyInv /\ [ApplyNext]_deployVars => ApplyInv'
  BY NextInv
<1> QED
  BY <1>1, <1>2, PTL DEF ApplySpec
----------------------------------------------------------------------------
(* Every value that is on disk, in state.json or in a plan is one that the *)
(* code can put there, and the wanted configuration stays a tree.          *)
THEOREM ApplyTypeCorrect == ApplySpec => []DeployTypeOK
<1>1. ApplyInv => DeployTypeOK
  BY DEF ApplyInv
<1> QED
  BY <1>1, Inductive, PTL

(* planner.go, executor.go and ignore.go: an apply that reports success    *)
(* has made the files and state.json what the configuration wants, for any *)
(* configurations, any failed, crashed or overlapping applies before it,   *)
(* and any interleaving of its items.                                      *)
THEOREM SuccessIsTrue == ApplySpec => []SuccessMeansConverged
<1>1. ApplyInv => SuccessMeansConverged
  <2> SUFFICES ASSUME ApplyInv, pc = "ok"
               PROVE  /\ unbroken => ours \subseteq Wanted \ ignored
                      /\ ~edited =>
                           \A p \in Wanted :
                             SourceOf[wanted[p]] \notin Bundled \/ opts.noCache => disk[p] = wanted[p]
                      /\ saved = [p \in Path |-> IF p \in Wanted \ ignored THEN SourceOf[wanted[p]]
                                                ELSE NoSource]
    BY DEF SuccessMeansConverged
  <2>1. \A p \in Path : saved[p] = Target(p)
    BY DEF ApplyInv, Accounted
  <2>2. unbroken => ours \subseteq Wanted \ ignored
    BY <2>1 DEF ApplyInv, Named, Over, Target, DeployTypeOK
  <2>3. ~edited => \A p \in Wanted : Strict(p) => disk[p] = wanted[p]
    BY DEF ApplyInv, Converging
  <2>4. saved = [p \in Path |-> Target(p)]
    BY <2>1 DEF ApplyInv, DeployTypeOK
  <2> QED
    BY <2>2, <2>3, <2>4 DEF Strict, Target
<1> QED
  BY <1>1, Inductive, PTL

(* Only the items write to the files, and only Save to state.json.         *)
LEMMA WhoWrites ==
  ASSUME ApplyInv, Code
  PROVE  /\ opts.dryRun => UNCHANGED <<disk, saved>>
         /\ UNCHANGED disk \/ \E q \in Path : Item(q)
<1>1. CASE \E p \in Path : PlanOne(p)
  BY <1>1 DEF PlanOne
<1>2. CASE \E p \in Path : Item(p)
  <2>1. pc = "execute"
    BY <1>2, ItemTouches DEF ApplyInv, Accounted
  <2> QED
    BY <1>2, <2>1 DEF ApplyInv, Accounted, LoadedState
<1>3. CASE PlanReturns \/ StartExecute \/ ExecuteReturns
  BY <1>3 DEF PlanReturns, StartExecute, ExecuteReturns
<1>4. CASE Save
  BY <1>4 DEF Save, ApplyInv, Accounted, LoadedState
<1> QED
  BY <1>1, <1>2, <1>3, <1>4 DEF Code

(* executor.go and atomicfile.go: whatever fails and whatever state an     *)
(* earlier apply has left, an apply touches nothing that is not its own, a *)
(* dry run touches nothing at all, and a regular file that is replaced is  *)
(* there at every moment.                                                  *)
THEOREM FilesStaySafe == ApplySpec => FilesAreSafe
<1>1. ASSUME ApplyInv, Code, NEW p \in Path, disk'[p] # disk[p]
      PROVE  \/ p \in Wanted \/ Parent[p] \in Wanted
             \/ Beneath(p) \cap Wanted # {}
             \/ saved[p] # NoSource /\ p \notin ignored
  <2>1. PICK q \in Path : Item(q)
    BY <1>1, WhoWrites
  <2>2. pc = "execute" /\ (MakesDir(q, p) \/ Removes(q, p) \/ Gives(q, p) \/ Deletes(q, p))
    BY <1>1, <2>1, ItemTouches DEF ApplyInv, Accounted
  <2>3. CASE MakesDir(q, p)
    BY <2>3 DEF MakesDir, Beneath
  <2>4. CASE Removes(q, p)
    BY <2>4 DEF Removes, Beneath
  <2>5. CASE Gives(q, p)
    BY <2>5 DEF Gives
  <2>6. CASE Deletes(q, p)
    <3>1. mem = Loaded(ignored)
      BY <1>1, <2>2 DEF ApplyInv, Accounted, LoadedState, Planned
    <3> QED
      BY <2>6, <3>1 DEF Deletes, Loaded
  <2> QED
    BY <2>2, <2>3, <2>4, <2>5, <2>6
<1>2. ASSUME ApplyInv, Code, NEW p \in Wanted, Regular(wanted[p]), Regular(disk[p])
      PROVE  Exists(p)'
  <2>1. p \in Path /\ wanted[p] # Absent /\ disk[p] # Absent
    BY <1>2, PathsAssumption DEF Wanted, Regular
  <2>2. CASE disk'[p] = disk[p]
    BY <2>1, <2>2 DEF Exists
  <2>3. CASE disk'[p] # disk[p]
    <3>1. PICK q \in Path : Item(q)
      BY <1>2, <2>3, WhoWrites
    <3>2. MakesDir(q, p) \/ Removes(q, p) \/ Gives(q, p) \/ Deletes(q, p)
      BY <1>2, <2>1, <2>3, <3>1, ItemTouches DEF ApplyInv, Accounted
    <3>3. ~Removes(q, p)
      <4>1. ~Clears(p)
        BY <1>2 DEF Clears, Regular
      <4>2. p \notin Beneath(q) \/ q \notin Wanted
        BY <1>2, <2>1, PathsAssumption DEF ApplyInv, DeployTypeOK, IsTree, Beneath, Wanted
      <4> QED
        BY <4>1, <4>2 DEF Removes
    <3>4. ~Deletes(q, p)
      BY DEF Deletes
    <3> QED
      BY <2>1, <3>2, <3>3, <3>4, PathsAssumption DEF MakesDir, Gives, Exists
  <2> QED
    BY <2>2, <2>3
<1>3. ApplyInv /\ [ApplyNext]_deployVars =>
        /\ [Code => /\ opts.dryRun => UNCHANGED <<disk, saved>>
                    /\ \A p \in Path : disk'[p] # disk[p] =>
                         \/ p \in Wanted \/ Parent[p] \in Wanted
                         \/ Beneath(p) \cap Wanted # {}
                         \/ saved[p] # NoSource /\ p \notin ignored]_deployVars
        /\ [Code => \A p \in Wanted :
              Regular(wanted[p]) /\ Regular(disk[p]) => Exists(p)']_deployVars
  BY <1>1, <1>2, WhoWrites
<1> QED
  BY <1>3, Inductive, PTL DEF ApplySpec, FilesAreSafe, ForeignUntouched, RegularNeverVanishes

-----------------------------------------------------------------------------
(* Releases.                                                               *)

\* No two releases of the repository have one version, as "1.2" and "v1.2".
OneTagPerVersion ==
  \A i, j \in 1..Len(Release) : Bare(Release[i].tag) = Bare(Release[j].tag) => i = j

Assets == UNION {Release[i].assets : i \in 1..Len(Release)}
Waits == {"lookup", "as lazy tool", "as registry tool"}
Phases ==
  MisePhase \cup {"branch", "commit", "tarball", "sorry", "list", "hint", "v", "exact", "fetch"}
FrameRec ==
  [ask : Wish, tag : Tag \cup {Latest}, seen : Nat, asset : Assets \cup {Nothing},
   auth : {Nothing, Token}, phase : Phases,
   at : Waits \cup {"token", "once", "send", "mise"}]

PhasesOf(kind) ==
  IF kind = "source" THEN {"branch", "commit", "tarball", "sorry"}
  ELSE IF kind = "mise" THEN MisePhase
  ELSE {"list", "hint", "v", "exact", "fetch"}

\* What a list of versions, or the wish itself, says of the tag.
Newest(i, n) == i \in ReleaseTags(n) /\ \A j \in ReleaseTags(n) : j <= i
TagIsRight(ask, tag, seen) ==
  IF ask.version = Latest
  THEN /\ seen \in 1..Len(Release)
       /\ \E i \in 1..Len(Release) : /\ Newest(i, seen) /\ Bare(tag) = Bare(Release[i].tag)
                                     /\ ask.kind # "curated" => tag = Release[i].tag
  ELSE Bare(tag) = Bare(ask.version) /\ (ask.kind # "curated" => tag = ask.version)
IsOf(asset, tag) ==
  \E i \in 1..Len(Release) : Release[i].tag = tag /\ asset \in SelectArtifact(GetArtifacts(Release[i]))

FrameIsRight(f) ==
  /\ f \in FrameRec /\ f.phase \in PhasesOf(f.ask.kind)
  /\ f.at \in {"mise", "as lazy tool", "as registry tool"} => f.ask.kind = "mise"
  /\ f.phase \in {"hint", "v", "exact", "fetch"} => f.tag \in Tag /\ TagIsRight(f.ask, f.tag, f.seen)
  /\ f.phase = "fetch" => IsOf(f.asset, f.tag)
  /\ f.phase = "list" => f.ask.version = Latest
  /\ f.phase = "v" => f.ask.kind = "curated"

\* An install that a lookup made needs no token; mise is installed as any tool.
Under(f, h) ==
  /\ f.at \in Waits
  /\ IF f.at = "lookup" THEN h.ask = GhAsk /\ h.at \in {"token", "send"} ELSE h.ask = MiseAsk

StackIsRight(s) ==
  /\ s \in Seq({f \in FrameRec : FrameIsRight(f)})
  /\ \A n \in 1..Len(s) - 1 : Under(s[n], s[n + 1])

OutcomeIsRight(o) ==
  o # Nothing /\ o.ok /\ o.ask.kind \in {"github", "curated"} =>
    o.ask \in Wish /\ TagIsRight(o.ask, o.tag, o.seen) /\ IsOf(o.asset, o.tag)

RelTypeOK ==
  /\ published \in 1..Len(Release) /\ env \in {Nothing, Stop, Token}
  /\ once \in [1..(MaxDepth + 1) -> {"new", "led", "done"}]
  /\ token \in [1..(MaxDepth + 1) -> {Nothing, Token}]
  /\ probing \in [1..(MaxDepth + 1) -> BOOLEAN]
  /\ frames = [w \in Worker |-> frames[w]] /\ outcome = [w \in Worker |-> outcome[w]]

StacksAreRight == \A w \in Worker : StackIsRight(frames[w]) /\ OutcomeIsRight(outcome[w])

\* What a lookup started looks nothing up.
ChildrenDoNotAsk ==
  \A p \in Child :
    /\ ~probing[p] /\ once[p] = "new" /\ Len(frames[p]) <= 1
    /\ \A n \in DOMAIN frames[p] : frames[p][n].ask = GhAsk /\ frames[p][n].at \in {"token", "send"}

\* There is one lookup while there is one, and the process says so.
LookupsAreOne ==
  \A w \in Caller : \A n \in DOMAIN frames[w] : frames[w][n].at = "lookup" =>
    /\ once[1] = "led"
    /\ \A v \in Caller : \A m \in DOMAIN frames[v] : frames[v][m].at = "lookup" => v = w /\ m = n

RelInv == RelTypeOK /\ StacksAreRight /\ ChildrenDoNotAsk /\ LookupsAreOne

-----------------------------------------------------------------------------
(* Choosing.                                                               *)

\* A build for the host itself is worth more than all that a name may tell.
LEMMA HostIsBest ==
  ASSUME NEW as, NEW a \in SelectArtifact(as)
  PROVE  /\ a \in as /\ Eligible(a)
         /\ a.os # Host => \A b \in as : ~(HasOS(b, Host) /\ "package" \notin b.traits)
<1>1. a \in as /\ ScoreArtifact(a) > 0 /\ \A b \in as : ScoreArtifact(b) <= ScoreArtifact(a)
  BY DEF SelectArtifact
<1>2. Eligible(a)  BY <1>1 DEF ScoreArtifact
<1>3. \A b : ScoreOfName(b) \in -70..230
  <2> TAKE b
  <2> DEFINE t == Points(b, "token", 120)   h == Points(b, "hint", 60)
             r == Points(b, "archive", 10)  d == Points(b, "debug", -20)
             e == Points(b, "side", -50)    p == Points(b, "primary", 40)
  <2>1. /\ t \in Int /\ 0 <= t /\ t <= 120 /\ h \in Int /\ 0 <= h /\ h <= 60
        /\ r \in Int /\ 0 <= r /\ r <= 10 /\ d \in Int /\ -20 <= d /\ d <= 0
        /\ e \in Int /\ -50 <= e /\ e <= 0 /\ p \in Int /\ 0 <= p /\ p <= 40
    BY DEF Points
  <2>2. ScoreOfName(b) = t + h + r + d + e + p  BY DEF ScoreOfName
  <2> HIDE DEF t, h, r, d, e, p
  <2> QED BY <2>1, <2>2
<1>4. ASSUME a.os # Host, NEW b \in as, HasOS(b, Host), "package" \notin b.traits PROVE FALSE
  <2>1. Eligible(b) /\ b.os = Host  BY <1>4 DEF Eligible, HasOS
  <2>2. ScoreOfName(b) \in -70..230 /\ ScoreOfName(a) \in -70..230  BY <1>3
  <2>3. ScoreArtifact(b) >= 430  BY <2>1, <2>2 DEF ScoreArtifact
  <2>4. ScoreArtifact(a) <= 230  BY <1>2, <1>4, <2>2 DEF ScoreArtifact
  <2>5. ScoreArtifact(b) <= ScoreArtifact(a)  BY <1>1
  <2>6. ScoreArtifact(a) \in Int /\ ScoreArtifact(b) \in Int  BY <2>2 DEF ScoreArtifact
  <2> QED BY <2>3, <2>4, <2>5, <2>6
<1> QED BY <1>1, <1>2, <1>4

LEMMA MaxExists ==
  ASSUME NEW n \in Nat, NEW S \in SUBSET (1..n), S # {}
  PROVE  Max(S) \in S /\ \A x \in S : x <= Max(S)
<1> DEFINE T == {n - x : x \in S}
<1>1. T \subseteq Nat /\ T # {}  OBVIOUS
<1>2. PICK t \in T : \A u \in T : ~(<<u, t>> \in OpToRel(<, Nat))
  <2> HIDE DEF T
  <2> QED BY <1>1, NatLessThanWellFounded, WFMin
<1>3. PICK x \in S : t = n - x  BY <1>2
<1>4. \A y \in S : x >= y
  <2> SUFFICES ASSUME NEW y \in S, ~(x >= y) PROVE FALSE  OBVIOUS
  <2>1. n - y \in T /\ n - y \in Nat /\ t \in Nat /\ n - y < t  BY <1>3
  <2>2. <<n - y, t>> \in OpToRel(<, Nat)  BY <2>1 DEF OpToRel
  <2> QED BY <1>2, <2>1, <2>2
<1>5. \E m \in S : \A y \in S : m >= y  BY <1>3, <1>4
<1> QED BY <1>5 DEF Max

\* What is chosen of a published release is one of its assets.
LEMMA ChosenIsOf ==
  ASSUME published \in 1..Len(Release), NEW tag,
         NEW a \in UNION {SelectArtifact(GetArtifacts(Release[i])) : i \in Tagged(tag)}
  PROVE  IsOf(a, tag) /\ a \in Assets
<1>1. Len(Release) \in Nat  BY ReleasesAssumption
<1>2. PICK i \in Tagged(tag) : a \in SelectArtifact(GetArtifacts(Release[i]))  OBVIOUS
<1>3. i \in 1..Len(Release) /\ Release[i].tag = tag  BY <1>1, <1>2 DEF Tagged
<1>4. a \in GetArtifacts(Release[i])  BY <1>2 DEF SelectArtifact
<1> QED BY <1>2, <1>3, <1>4 DEF IsOf, Assets, GetArtifacts

-----------------------------------------------------------------------------
(* Stacks.                                                                 *)

LEMMA TopOfStack ==
  ASSUME NEW S, NEW s \in Seq(S), s # <<>>
  PROVE  /\ Len(s) \in Nat \ {0} /\ Last(s) = s[Len(s)] /\ Last(s) \in S
         /\ Front(s) \in Seq(S) /\ Len(Front(s)) = Len(s) - 1
         /\ \A n \in 1..Len(s) - 1 : Front(s)[n] = s[n]
<1>1. Len(s) \in Nat \ {0} /\ Last(s) = s[Len(s)] /\ Last(s) \in S  BY DEF Last
<1>2. \A n \in 1..Len(s) - 1 : s[n] \in S  OBVIOUS
<1>3. Front(s) = [n \in 1..Len(s) - 1 |-> s[n]]  BY <1>1 DEF Front
<1> QED BY <1>1, <1>2, <1>3

LEMMA StackReplaced ==
  ASSUME NEW s, StackIsRight(s), s # <<>>, NEW f, FrameIsRight(f), f.ask = Last(s).ask,
         Len(s) > 1 /\ s[Len(s) - 1].at = "lookup" => f.at \in {"token", "send"}
  PROVE  LET t == Append(Front(s), f)
         IN  /\ StackIsRight(t) /\ Len(t) = Len(s) /\ t # <<>> /\ Last(t) = f
             /\ \A n \in 1..Len(s) - 1 : t[n] = s[n]
<1> DEFINE R == {h \in FrameRec : FrameIsRight(h)}
           t == Append(Front(s), f)
<1>1. s \in Seq(R) /\ f \in R  BY DEF StackIsRight, FrameIsRight
<1> HIDE DEF R
<1>2. /\ Len(s) \in Nat \ {0} /\ Last(s) = s[Len(s)]
      /\ Front(s) \in Seq(R) /\ Len(Front(s)) = Len(s) - 1
      /\ \A n \in 1..Len(s) - 1 : Front(s)[n] = s[n]
  BY <1>1, TopOfStack
<1>3. t \in Seq(R) /\ Len(t) = Len(s) /\ t[Len(s)] = f /\ \A n \in 1..Len(s) - 1 : t[n] = s[n]
  BY <1>1, <1>2
<1>4. t # <<>> /\ Last(t) = f  BY <1>2, <1>3 DEF Last
<1>5. ASSUME NEW n \in 1..Len(t) - 1 PROVE Under(t[n], t[n + 1])
  <2>1. n \in 1..Len(s) - 1 /\ t[n] = s[n] /\ Under(s[n], s[n + 1])  BY <1>3 DEF StackIsRight
  <2>2. CASE n + 1 = Len(s)
    <3>1. t[n + 1] = f /\ s[n + 1] = Last(s) /\ n = Len(s) - 1 /\ Len(s) > 1
      BY <1>2, <1>3, <2>1, <2>2
    <3> QED BY <2>1, <3>1 DEF Under
  <2>3. CASE n + 1 # Len(s)
    <3>1. t[n + 1] = s[n + 1]  BY <1>2, <1>3, <2>1, <2>3
    <3> QED BY <2>1, <3>1
  <2> QED BY <2>2, <2>3
<1> QED BY <1>3, <1>4, <1>5 DEF StackIsRight, R

LEMMA StackPopped ==
  ASSUME NEW s, StackIsRight(s), s # <<>>
  PROVE  /\ StackIsRight(Front(s)) /\ Len(Front(s)) = Len(s) - 1
         /\ \A n \in 1..Len(s) - 1 : Front(s)[n] = s[n]
<1> DEFINE R == {h \in FrameRec : FrameIsRight(h)}
<1>1. s \in Seq(R)  BY DEF StackIsRight
<1> HIDE DEF R
<1>2. /\ Len(s) \in Nat \ {0}
      /\ Front(s) \in Seq(R) /\ Len(Front(s)) = Len(s) - 1
      /\ \A n \in 1..Len(s) - 1 : Front(s)[n] = s[n]
  BY <1>1, TopOfStack
<1>3. \A n \in 1..Len(Front(s)) - 1 : Under(Front(s)[n], Front(s)[n + 1])
  BY <1>2 DEF StackIsRight
<1> QED BY <1>2, <1>3 DEF StackIsRight, R

LEMMA StackPushed ==
  ASSUME NEW s, StackIsRight(s), s # <<>>, NEW h, FrameIsRight(h), Under(Last(s), h)
  PROVE  LET t == s \o <<h>>
         IN  /\ StackIsRight(t) /\ Len(t) = Len(s) + 1 /\ t[Len(s) + 1] = h
             /\ \A n \in 1..Len(s) : t[n] = s[n]
<1> DEFINE R == {f \in FrameRec : FrameIsRight(f)}
           t == s \o <<h>>
<1>1. s \in Seq(R) /\ h \in R  BY DEF StackIsRight, FrameIsRight
<1> HIDE DEF R
<1>2. Len(s) \in Nat \ {0} /\ Last(s) = s[Len(s)]  BY <1>1, TopOfStack
<1>3. t \in Seq(R) /\ Len(t) = Len(s) + 1 /\ t[Len(s) + 1] = h /\ \A n \in 1..Len(s) : t[n] = s[n]
  BY <1>1, <1>2
<1>4. ASSUME NEW n \in 1..Len(t) - 1 PROVE Under(t[n], t[n + 1])
  <2>1. CASE n = Len(s)  BY <1>2, <1>3, <2>1
  <2>2. CASE n # Len(s)
    <3>1. n \in 1..Len(s) - 1 /\ t[n] = s[n] /\ t[n + 1] = s[n + 1]  BY <1>2, <1>3, <2>2
    <3> QED BY <3>1 DEF StackIsRight
  <2> QED BY <2>1, <2>2
<1> QED BY <1>3, <1>4 DEF StackIsRight, R

\* A tool of mise, mise, and the gh of its lookup.
LEMMA StackIsLow ==
  ASSUME NEW s, StackIsRight(s)
  PROVE  Len(s) <= 3
<1> SUFFICES ASSUME ~(Len(s) <= 3) PROVE FALSE  OBVIOUS
<1>1. s \in Seq(FrameRec) /\ Len(s) \in Nat /\ \A n \in 1..Len(s) : FrameIsRight(s[n])
  BY DEF StackIsRight
<1>2. Under(s[1], s[2]) /\ Under(s[2], s[3]) /\ Under(s[3], s[4])  BY <1>1 DEF StackIsRight
<1>3. FrameIsRight(s[2]) /\ FrameIsRight(s[3])  BY <1>1
<1>4. s[1].at # "lookup"  BY <1>2 DEF Under, Waits
<1>5. s[2].ask = MiseAsk  BY <1>2, <1>4 DEF Under
<1>6. s[2].ask.kind = "curated" /\ s[2].at \in Waits  BY <1>2, <1>5 DEF Under, MiseAsk
<1>7. s[2].at = "lookup"  BY <1>3, <1>6 DEF FrameIsRight, Waits
<1>8. s[3].at \in {"token", "send"} /\ s[3].at \in Waits  BY <1>2, <1>7 DEF Under
<1> QED BY <1>8 DEF Waits

-----------------------------------------------------------------------------
(* Frames.                                                                 *)

LEMMA AsksAreWishes == GhAsk \in Wish /\ MiseAsk \in Wish
BY DEF GhAsk, MiseAsk, Wish

LEMMA TriesOne ==
  ASSUME NEW ask, NEW tag
  PROVE  Tries(ask, tag) \in {"v", "exact"} /\ (Tries(ask, tag) = "v" => ask.kind = "curated")
BY DEF Tries

LEMMA FrameBegins ==
  ASSUME NEW ask \in Wish
  PROVE  /\ FrameIsRight(Frame(ask)) /\ Frame(ask).ask = ask
         /\ Frame(ask).at = IF ask.kind = "mise" THEN "mise" ELSE "token"
<1>1. ask.kind \in {"github", "curated", "source", "mise"} /\ ask.version \in Tag \cup {Latest}
  BY DEF Wish
<1>2. Tries(ask, ask.version) \in {"v", "exact"} /\ (Tries(ask, ask.version) = "v" => ask.kind = "curated")
  BY TriesOne
<1>3. First(ask) \in PhasesOf(ask.kind)
  BY <1>1, <1>2 DEF First, PhasesOf, MisePhase
<1>4. /\ First(ask) = "list" => ask.version = Latest
      /\ First(ask) # "fetch" /\ (First(ask) = "v" => ask.kind = "curated")
      /\ First(ask) \in {"hint", "v", "exact"} => ask.version # Latest
  BY <1>1, <1>2 DEF First
<1>5. FirstStep(First(ask)) = IF ask.kind = "mise" THEN "mise" ELSE "token"
  BY <1>1, <1>3 DEF FirstStep, PhasesOf, MisePhase
<1>6. First(ask) \in Phases  BY <1>1, <1>3 DEF PhasesOf, Phases
<1>7. Frame(ask) \in FrameRec  BY <1>1, <1>5, <1>6 DEF Frame, FrameRec
<1>8. /\ Frame(ask).ask = ask /\ Frame(ask).tag = ask.version /\ Frame(ask).phase = First(ask)
      /\ Frame(ask).at = FirstStep(First(ask))
  BY DEF Frame
<1>9. First(ask) \in {"hint", "v", "exact"} =>
        ask.version \in Tag /\ TagIsRight(ask, ask.version, Frame(ask).seen)
  BY <1>1, <1>4 DEF TagIsRight
<1> QED BY <1>3, <1>4, <1>5, <1>7, <1>8, <1>9 DEF FrameIsRight

LEMMA FrameGoes ==
  ASSUME NEW f \in FrameRec, NEW phase \in PhasesOf(f.ask.kind),
         phase \in {"hint", "v", "exact", "fetch"} => f.tag \in Tag /\ TagIsRight(f.ask, f.tag, f.seen),
         phase = "fetch" => IsOf(f.asset, f.tag),
         phase = "list" => f.ask.version = Latest,
         phase = "v" => f.ask.kind = "curated"
  PROVE  LET h == [f EXCEPT !.phase = phase, !.at = FirstStep(phase)]
         IN  FrameIsRight(h) /\ h.ask = f.ask /\ h.at = IF f.ask.kind = "mise" THEN "mise" ELSE "token"
<1> DEFINE h == [f EXCEPT !.phase = phase, !.at = FirstStep(phase)]
<1>1. FirstStep(phase) = IF f.ask.kind = "mise" THEN "mise" ELSE "token"
  BY DEF FirstStep, PhasesOf, MisePhase
<1>2. phase \in Phases  BY DEF PhasesOf, Phases
<1>3. h \in FrameRec  BY <1>1, <1>2 DEF FrameRec
<1>4. /\ h.ask = f.ask /\ h.tag = f.tag /\ h.seen = f.seen /\ h.asset = f.asset
      /\ h.phase = phase /\ h.at = FirstStep(phase)
  BY DEF FrameRec
<1> QED BY <1>1, <1>3, <1>4 DEF FrameIsRight

\* A frame that stays at what it asks for.
LEMMA FrameStays ==
  ASSUME NEW f, FrameIsRight(f), NEW h \in FrameRec,
         h.ask = f.ask, h.tag = f.tag, h.seen = f.seen, h.asset = f.asset, h.phase = f.phase,
         h.at \in {"mise", "as lazy tool", "as registry tool"} => f.ask.kind = "mise"
  PROVE  FrameIsRight(h)
BY DEF FrameIsRight

-----------------------------------------------------------------------------
(* One step of one worker.                                                 *)

BelowLookup(w) == Len(frames[w]) > 1 /\ frames[w][Len(frames[w]) - 1].at = "lookup"

LEMMA TopIsRight ==
  ASSUME RelInv, NEW w \in Worker, Busy(w)
  PROVE  /\ StackIsRight(frames[w]) /\ frames[w] # <<>> /\ Top(w) = Last(frames[w])
         /\ Len(frames[w]) \in Nat \ {0} /\ Top(w) = frames[w][Len(frames[w])]
         /\ FrameIsRight(Top(w)) /\ Top(w) \in FrameRec
         /\ BelowLookup(w) \/ w \in Child => Top(w).ask = GhAsk /\ Top(w).at \in {"token", "send"}
         /\ BelowLookup(w) => w \in Caller /\ Resolving(Proc(w))
<1> DEFINE R == {h \in FrameRec : FrameIsRight(h)}
           s == frames[w]
<1>1. StackIsRight(s) /\ s # <<>> /\ s \in Seq(R)  BY DEF RelInv, StacksAreRight, StackIsRight, Busy
<1>2. Len(s) \in Nat \ {0} /\ Last(s) = s[Len(s)] /\ Last(s) \in R
  <2> HIDE DEF R
  <2> QED BY <1>1, TopOfStack
<1>3. Top(w) = Last(s)  BY DEF Top
<1>4. FrameIsRight(Top(w)) /\ Top(w) \in FrameRec  BY <1>2, <1>3
<1>5. w \in Child => Top(w).ask = GhAsk /\ Top(w).at \in {"token", "send"} /\ ~(Len(s) > 1)
  BY <1>2, <1>3 DEF RelInv, ChildrenDoNotAsk
<1>6. ASSUME BelowLookup(w)
      PROVE  Top(w).ask = GhAsk /\ Top(w).at \in {"token", "send"} /\ w \in Caller /\ Resolving(Proc(w))
  <2>1. Len(s) - 1 \in 1..Len(s) - 1 /\ s[Len(s) - 1].at = "lookup"  BY <1>2, <1>6 DEF BelowLookup
  <2>2. Under(s[Len(s) - 1], s[(Len(s) - 1) + 1])  BY <1>1, <2>1 DEF StackIsRight
  <2>3. (Len(s) - 1) + 1 = Len(s)  BY <1>2
  <2>4. Top(w).ask = GhAsk /\ Top(w).at \in {"token", "send"}  BY <1>2, <1>3, <2>1, <2>2, <2>3 DEF Under
  <2>5. w \in Caller /\ Proc(w) = 1  BY <1>5, <1>6 DEF BelowLookup, Worker, Proc
  <2>6. once[1] = "led"  BY <2>1, <2>5, <1>1 DEF RelInv, LookupsAreOne
  <2> QED BY <2>4, <2>5, <2>6 DEF Resolving
<1> QED BY <1>1, <1>2, <1>3, <1>4, <1>5, <1>6

LEMMA TopReplaced ==
  ASSUME RelInv, NEW w \in Worker, Busy(w), NEW f, FrameIsRight(f), f.ask = Top(w).ask,
         BelowLookup(w) => f.at \in {"token", "send"}
  PROVE  LET s == frames[w]  t == Append(Front(s), f)
         IN  /\ StackIsRight(t) /\ Len(t) = Len(s) /\ t # <<>> /\ Last(t) = f
             /\ \A n \in 1..Len(s) - 1 : t[n] = s[n]
<1>1. StackIsRight(frames[w]) /\ frames[w] # <<>> /\ Top(w) = Last(frames[w])  BY TopIsRight
<1> QED BY <1>1, StackReplaced DEF BelowLookup

LEMMA WorkerStep ==
  ASSUME RelInv, NEW w \in Worker, NEW s, NEW o,
         frames' = [frames EXCEPT ![w] = s], outcome' = [outcome EXCEPT ![w] = o],
         StackIsRight(s), OutcomeIsRight(o),
         w \in Child => /\ Len(s) <= 1
                        /\ \A n \in DOMAIN s : s[n].ask = GhAsk /\ s[n].at \in {"token", "send"},
         \A n \in DOMAIN s : s[n].at = "lookup" => n \in DOMAIN frames[w] /\ frames[w][n].at = "lookup",
         UNCHANGED <<published, env, once, token, probing>>
  PROVE  RelInv'
<1>1. /\ frames'[w] = s /\ outcome'[w] = o
      /\ \A v \in Worker : v # w => frames'[v] = frames[v] /\ outcome'[v] = outcome[v]
  BY DEF RelInv, RelTypeOK
<1>2. RelTypeOK'  BY DEF RelInv, RelTypeOK
<1>3. StacksAreRight'  BY <1>1 DEF RelInv, StacksAreRight
<1>4. ChildrenDoNotAsk'  BY <1>1 DEF RelInv, ChildrenDoNotAsk, Worker
<1>5. \A v \in Caller : \A n \in DOMAIN frames'[v] :
        frames'[v][n].at = "lookup" => n \in DOMAIN frames[v] /\ frames[v][n].at = "lookup"
  BY <1>1 DEF Worker
<1>6. LookupsAreOne'  BY <1>5 DEF RelInv, LookupsAreOne
<1> QED BY <1>2, <1>3, <1>4, <1>6 DEF RelInv

LEMMA TopStep ==
  ASSUME RelInv, NEW w \in Worker, Busy(w), NEW f, FrameIsRight(f), SetTop(w, f),
         f.ask = Top(w).ask, f.at \notin Waits, Top(w).at # "lookup",
         BelowLookup(w) \/ w \in Child => f.at \in {"token", "send"},
         UNCHANGED <<published, env, once, token, probing, outcome>>
  PROVE  RelInv'
<1> DEFINE s == frames[w]
           t == Append(Front(s), f)
<1>1. StackIsRight(s) /\ s # <<>> /\ Top(w) = Last(s) /\ Len(s) \in Nat \ {0}  BY TopIsRight
<1>2. /\ StackIsRight(t) /\ Len(t) = Len(s) /\ t # <<>> /\ Last(t) = f
      /\ \A n \in 1..Len(s) - 1 : t[n] = s[n]
  BY TopReplaced
<1>3. frames' = [frames EXCEPT ![w] = t]  BY DEF SetTop
<1>4. t[Len(s)] = f  BY <1>2 DEF Last
<1>5. DOMAIN t = 1..Len(s) /\ DOMAIN s = 1..Len(s)  BY <1>1, <1>2 DEF StackIsRight
<1>6. outcome' = [outcome EXCEPT ![w] = outcome[w]]  BY DEF RelInv, RelTypeOK
<1>7. OutcomeIsRight(outcome[w])  BY DEF RelInv, StacksAreRight
<1> HIDE DEF t
<1>8. w \in Child => /\ Len(t) <= 1
                     /\ \A n \in DOMAIN t : t[n].ask = GhAsk /\ t[n].at \in {"token", "send"}
  <2> SUFFICES ASSUME w \in Child
               PROVE  Len(t) <= 1 /\ \A n \in DOMAIN t : t[n].ask = GhAsk /\ t[n].at \in {"token", "send"}
    OBVIOUS
  <2>1. Len(s) <= 1 /\ Top(w).ask = GhAsk  BY TopIsRight DEF RelInv, ChildrenDoNotAsk
  <2>2. \A n \in DOMAIN t : n = Len(s)  BY <1>1, <1>5, <2>1
  <2> QED BY <1>2, <1>4, <2>1, <2>2
<1>9. \A n \in DOMAIN t : t[n].at = "lookup" => n \in DOMAIN s /\ s[n].at = "lookup"
  <2> TAKE n \in DOMAIN t
  <2>1. CASE n = Len(s)  BY <1>4, <2>1 DEF Waits
  <2>2. CASE n # Len(s)
    <3>1. n \in 1..Len(s) - 1  BY <1>1, <1>5, <2>2
    <3> QED BY <1>2, <1>5, <3>1
  <2> QED BY <2>1, <2>2
<1> QED BY <1>2, <1>3, <1>6, <1>7, <1>8, <1>9, WorkerStep

LEMMA PopStep ==
  ASSUME RelInv, NEW w \in Worker, Busy(w), NEW o, OutcomeIsRight(o), Pops(w, o),
         UNCHANGED <<published, env, once, token, probing>>
  PROVE  RelInv'
<1> DEFINE s == frames[w]
           t == Front(s)
<1>1. StackIsRight(s) /\ s # <<>> /\ Len(s) \in Nat \ {0}  BY TopIsRight
<1>2. StackIsRight(t) /\ Len(t) = Len(s) - 1 /\ \A n \in 1..Len(s) - 1 : t[n] = s[n]
  BY <1>1, StackPopped
<1>3. frames' = [frames EXCEPT ![w] = t] /\ outcome' = [outcome EXCEPT ![w] = o]  BY DEF Pops
<1>4. DOMAIN t = 1..Len(s) - 1 /\ DOMAIN s = 1..Len(s)  BY <1>1, <1>2 DEF StackIsRight
<1> HIDE DEF t
<1>5. w \in Child => Len(t) <= 1 /\ DOMAIN t = {}
  BY <1>1, <1>2, <1>4 DEF RelInv, ChildrenDoNotAsk
<1>6. \A n \in DOMAIN t : t[n] = s[n] /\ n \in DOMAIN s  BY <1>1, <1>2, <1>4
<1> QED BY <1>2, <1>3, <1>5, <1>6, WorkerStep

LEMMA GoesStep ==
  ASSUME RelInv, NEW w \in Worker, Busy(w), Top(w).at # "lookup",
         NEW f \in FrameRec, f.ask = Top(w).ask, NEW phase \in PhasesOf(f.ask.kind),
         phase \in {"hint", "v", "exact", "fetch"} => f.tag \in Tag /\ TagIsRight(f.ask, f.tag, f.seen),
         phase = "fetch" => IsOf(f.asset, f.tag),
         phase = "list" => f.ask.version = Latest,
         phase = "v" => f.ask.kind = "curated",
         GoesTo(w, f, phase), UNCHANGED <<published, env, once, token, probing, outcome>>
  PROVE  RelInv'
<1> DEFINE h == [f EXCEPT !.phase = phase, !.at = FirstStep(phase)]
<1>1. FrameIsRight(h) /\ h.ask = f.ask /\ h.at = IF f.ask.kind = "mise" THEN "mise" ELSE "token"
  BY FrameGoes
<1>2. SetTop(w, h)  BY DEF GoesTo
<1> HIDE DEF h
<1>3. BelowLookup(w) \/ w \in Child => h.at = "token"  BY <1>1, TopIsRight DEF GhAsk
<1> QED BY <1>1, <1>2, <1>3, TopStep DEF Waits

-----------------------------------------------------------------------------
(* The token.                                                              *)

LEMMA RelInitInv == RelInit => RelInv
<1> SUFFICES ASSUME RelInit PROVE RelInv  OBVIOUS
<1> USE DEF RelInit
<1>1. RelTypeOK  BY DEF RelTypeOK
<1>2. PICK ask \in Asks : frames = [w \in Worker |-> IF w \in Caller THEN <<Frame(ask[w])>> ELSE <<>>]
  OBVIOUS
<1>3. \A w \in Caller : /\ FrameIsRight(Frame(ask[w])) /\ Frame(ask[w]).at \in {"mise", "token"}
                         /\ Frame(ask[w]) \in FrameRec
  <2> TAKE w \in Caller
  <2>1. ask[w] \in Wish  BY ReleasesAssumption
  <2> QED BY <2>1, FrameBegins DEF FrameIsRight
<1>4. \A w \in Worker : /\ w \in Caller => frames[w] = <<Frame(ask[w])>>
                        /\ w \notin Caller => frames[w] = <<>>
                        /\ w \in Child => w \notin Caller
  BY <1>2, ReleasesAssumption
<1>5. StackIsRight(<<>>) /\ \A w \in Caller : StackIsRight(<<Frame(ask[w])>>)
  BY <1>3 DEF StackIsRight
<1>6. OutcomeIsRight(Nothing)  BY DEF OutcomeIsRight
<1>7. StacksAreRight  BY <1>4, <1>5, <1>6 DEF StacksAreRight
<1>8. ChildrenDoNotAsk
  <2>1. \A p \in Child : p \in Worker /\ frames[p] = <<>>  BY <1>4 DEF Worker
  <2>2. \A p \in Child : p \in 1..(MaxDepth + 1)  BY ReleasesAssumption DEF Child
  <2>3. Len(<<>>) <= 1 /\ DOMAIN <<>> = {}  OBVIOUS
  <2> QED BY <2>1, <2>2, <2>3 DEF ChildrenDoNotAsk
<1>9. LookupsAreOne
  <2>1. \A w \in Caller : \A n \in DOMAIN frames[w] : frames[w][n] = Frame(ask[w])
    <3> TAKE w \in Caller
    <3>1. frames[w] = <<Frame(ask[w])>>  BY <1>4 DEF Worker
    <3>2. DOMAIN <<Frame(ask[w])>> = {1} /\ <<Frame(ask[w])>>[1] = Frame(ask[w])  OBVIOUS
    <3> QED BY <3>1, <3>2
  <2> QED BY <1>3, <2>1 DEF LookupsAreOne
<1> QED BY <1>1, <1>7, <1>8, <1>9 DEF RelInv

LEMMA PublishInv == ASSUME RelInv, Publish PROVE RelInv'
<1> USE DEF Publish
<1>1. Len(Release) \in Nat  BY ReleasesAssumption
<1>2. RelTypeOK'  BY <1>1 DEF RelInv, RelTypeOK
<1>3. StacksAreRight' /\ ChildrenDoNotAsk' /\ LookupsAreOne'
  BY DEF RelInv, StacksAreRight, ChildrenDoNotAsk, LookupsAreOne
<1> QED BY <1>2, <1>3 DEF RelInv

LEMMA ProcIs ==
  ASSUME NEW w \in Worker
  PROVE  Proc(w) \in 1..(MaxDepth + 1) /\ (w \in Child => Proc(w) > 1) /\ (w \notin Child => Proc(w) = 1)
<1>1. 1 \in 1..(MaxDepth + 1)  BY ReleasesAssumption
<1>2. CASE w \in Caller
  <2>1. w \notin Child  BY <1>2, ReleasesAssumption
  <2> QED BY <1>1, <1>2, <2>1 DEF Proc
<1>3. CASE w \notin Caller
  <2>1. w \in 2..(MaxDepth + 1) /\ Proc(w) = w  BY <1>3 DEF Worker, Child, Proc
  <2>2. w \in 1..(MaxDepth + 1) /\ w > 1  BY <2>1, ReleasesAssumption
  <2> QED BY <1>3, <2>1, <2>2 DEF Child
<1> QED BY <1>2, <1>3

LEMMA SkipsTokenInv == ASSUME RelInv, NEW w \in Worker, SkipsToken(w) PROVE RelInv'
<1> USE DEF SkipsToken
<1> DEFINE h == [Top(w) EXCEPT !.auth = Nothing, !.at = "send"]
<1>1. FrameIsRight(Top(w)) /\ Top(w) \in FrameRec  BY TopIsRight
<1>2. h \in FrameRec /\ h.ask = Top(w).ask /\ h.tag = Top(w).tag /\ h.seen = Top(w).seen
      /\ h.asset = Top(w).asset /\ h.phase = Top(w).phase /\ h.at = "send"
  BY <1>1 DEF FrameRec
<1>3. SetTop(w, h)  OBVIOUS
<1> HIDE DEF h
<1>4. FrameIsRight(h)  BY <1>1, <1>2, FrameStays
<1> QED BY <1>2, <1>3, <1>4, TopStep DEF Waits

LEMMA PassesFlagsInv == ASSUME RelInv, NEW w \in Worker, PassesFlags(w) PROVE RelInv'
<1> USE DEF PassesFlags
<1> DEFINE h == [Top(w) EXCEPT !.at = "once"]
<1>1. FrameIsRight(Top(w)) /\ Top(w) \in FrameRec  BY TopIsRight
<1>2. h \in FrameRec /\ h.ask = Top(w).ask /\ h.tag = Top(w).tag /\ h.seen = Top(w).seen
      /\ h.asset = Top(w).asset /\ h.phase = Top(w).phase /\ h.at = "once"
  BY <1>1 DEF FrameRec
<1>3. SetTop(w, h)  OBVIOUS
<1> HIDE DEF h
<1>4. FrameIsRight(h)  BY <1>1, <1>2, FrameStays
<1>5. w \notin Child /\ ~BelowLookup(w)  BY TopIsRight, ProcIs DEF Skips, ProbeEnvActive
<1> QED BY <1>2, <1>3, <1>4, <1>5, TopStep DEF Waits

LEMMA KnowsTokenInv == ASSUME RelInv, NEW w \in Worker, KnowsToken(w) PROVE RelInv'
<1> USE DEF KnowsToken
<1> DEFINE h == [Top(w) EXCEPT !.auth = token[Proc(w)], !.at = "send"]
<1>1. FrameIsRight(Top(w)) /\ Top(w) \in FrameRec  BY TopIsRight
<1>2. token[Proc(w)] \in {Nothing, Token}  BY ProcIs DEF RelInv, RelTypeOK
<1>3. h \in FrameRec /\ h.ask = Top(w).ask /\ h.tag = Top(w).tag /\ h.seen = Top(w).seen
      /\ h.asset = Top(w).asset /\ h.phase = Top(w).phase /\ h.at = "send"
  BY <1>1, <1>2 DEF FrameRec
<1>4. SetTop(w, h)  OBVIOUS
<1> HIDE DEF h
<1>5. FrameIsRight(h)  BY <1>1, <1>3, FrameStays
<1> QED BY <1>3, <1>4, <1>5, TopStep DEF Waits

LEMMA LooksUpInv == ASSUME RelInv, NEW w \in Worker, LooksUp(w) PROVE RelInv'
<1> USE DEF LooksUp
<1> DEFINE s == frames[w]
           h == [Last(s) EXCEPT !.at = "lookup"]
           t == Append(Front(s), h)
           u == t \o IF env = Nothing /\ gh = "none" THEN <<Frame(GhAsk)>> ELSE <<>>
<1>1. StackIsRight(s) /\ s # <<>> /\ Top(w) = Last(s) /\ Len(s) \in Nat \ {0}
      /\ FrameIsRight(Top(w)) /\ Top(w) \in FrameRec
  BY TopIsRight
<1>2. w \notin Child /\ ~BelowLookup(w) /\ Proc(w) = 1 /\ w \in Caller
  BY TopIsRight, ProcIs DEF Worker
<1>3. h \in FrameRec /\ h.ask = Top(w).ask /\ h.tag = Top(w).tag /\ h.seen = Top(w).seen
      /\ h.asset = Top(w).asset /\ h.phase = Top(w).phase /\ h.at = "lookup"
  BY <1>1 DEF FrameRec, Waits
<1>4. frames' = [frames EXCEPT ![w] = u]  OBVIOUS
<1> HIDE DEF h
<1>5. FrameIsRight(h)  BY <1>1, <1>3, FrameStays
<1>6. /\ StackIsRight(t) /\ Len(t) = Len(s) /\ t # <<>> /\ Last(t) = h
      /\ \A n \in 1..Len(s) - 1 : t[n] = s[n]
  BY <1>2, <1>3, <1>5, TopReplaced
<1> HIDE DEF t
<1>7. FrameIsRight(Frame(GhAsk)) /\ Frame(GhAsk).ask = GhAsk /\ Frame(GhAsk).at = "token"
  BY AsksAreWishes, FrameBegins DEF GhAsk
<1>8. Under(Last(t), Frame(GhAsk))  BY <1>3, <1>6, <1>7 DEF Under, Waits
<1>9. /\ StackIsRight(u) /\ \A n \in 1..Len(s) : u[n] = t[n]
      /\ \A n \in DOMAIN u : n \in 1..Len(s) \/ u[n].at = "token"
  <2>1. CASE env = Nothing /\ gh = "none"
    <3>1. u = t \o <<Frame(GhAsk)>>  BY <2>1
    <3>2. /\ StackIsRight(u) /\ Len(u) = Len(t) + 1 /\ u[Len(t) + 1] = Frame(GhAsk)
          /\ \A n \in 1..Len(t) : u[n] = t[n]
      BY <1>6, <1>7, <1>8, <3>1, StackPushed
    <3>3. DOMAIN u = 1..(Len(s) + 1)  BY <1>6, <3>2 DEF StackIsRight
    <3> HIDE DEF u
    <3> QED BY <1>1, <1>6, <1>7, <3>2, <3>3
  <2>2. CASE ~(env = Nothing /\ gh = "none")
    <3>1. u = t /\ DOMAIN t = 1..Len(s)  BY <1>6, <2>2 DEF StackIsRight
    <3> QED BY <1>6, <3>1
  <2> QED BY <2>1, <2>2
<1> HIDE DEF u
<1>10. \A v \in Caller : \A n \in DOMAIN frames[v] : frames[v][n].at # "lookup"
  BY <1>2 DEF RelInv, LookupsAreOne
<1>11. DOMAIN s = 1..Len(s)  BY <1>1 DEF StackIsRight
<1>12. \A n \in DOMAIN u : u[n].at = "lookup" => n = Len(s)
  BY <1>1, <1>2, <1>6, <1>9, <1>10, <1>11
<1>13. /\ frames'[w] = u /\ \A v \in Worker : v # w => frames'[v] = frames[v]
       /\ outcome'[w] = Nothing /\ \A v \in Worker : v # w => outcome'[v] = outcome[v]
       /\ once'[1] = "led" /\ \A p \in Child : once'[p] = once[p]
  <2>1. 1 \in 1..(MaxDepth + 1) /\ \A p \in Child : p # 1 /\ p \in 1..(MaxDepth + 1)
    BY ReleasesAssumption DEF Child
  <2>2. once' = [once EXCEPT ![1] = "led"] /\ outcome' = [outcome EXCEPT ![w] = Nothing]  BY <1>2
  <2>3. /\ once \in [1..(MaxDepth + 1) -> {"new", "led", "done"}]
        /\ frames = [v \in Worker |-> frames[v]] /\ outcome = [v \in Worker |-> outcome[v]]
    BY DEF RelInv, RelTypeOK
  <2>4. frames'[w] = u /\ \A v \in Worker : v # w => frames'[v] = frames[v]  BY <1>4, <2>3
  <2> QED BY <2>1, <2>2, <2>3, <2>4
<1>14. RelTypeOK'  BY <1>2, <1>4 DEF RelInv, RelTypeOK
<1>15. StacksAreRight'  BY ZenonT(30), <1>9, <1>13 DEF RelInv, StacksAreRight, OutcomeIsRight
<1>16. ChildrenDoNotAsk'  BY <1>2, <1>13 DEF RelInv, ChildrenDoNotAsk, Worker
<1>17. \A v \in Caller : \A n \in DOMAIN frames'[v] : frames'[v][n].at = "lookup" => v = w /\ n = Len(s)
  BY ZenonT(30), <1>10, <1>12, <1>13 DEF Worker
<1>18. LookupsAreOne'
  <2> SUFFICES ASSUME NEW v \in Caller, NEW n \in DOMAIN frames'[v], frames'[v][n].at = "lookup"
               PROVE  /\ once'[1] = "led"
                      /\ \A c \in Caller : \A m \in DOMAIN frames'[c] :
                           frames'[c][m].at = "lookup" => c = v /\ m = n
    BY DEF LookupsAreOne
  <2>1. v = w /\ n = Len(s)  BY <1>17
  <2> HIDE DEF s
  <2> QED BY <1>13, <1>17, <2>1
<1> QED BY <1>14, <1>15, <1>16, <1>18 DEF RelInv

\* The lookup is over, with an answer or without one; other processes keep
\* what they are at, or are killed.
LEMMA LookupEnds ==
  ASSUME RelInv, NEW w \in Worker, InLookup(w), NEW t \in {Nothing, Token}, NEW o, OutcomeIsRight(o),
         \A v \in Worker : frames'[v] = IF v = w THEN Append(Front(frames[w]), [Top(w) EXCEPT !.at = "once"])
                                        ELSE IF v \in Child THEN frames'[v] ELSE frames[v],
         \A p \in Child : frames'[p] \in {frames[p], <<>>},
         frames' = [v \in Worker |-> frames'[v]],
         once' = [once EXCEPT ![Proc(w)] = "done"], token' = [token EXCEPT ![Proc(w)] = t],
         outcome' = [outcome EXCEPT ![w] = o], UNCHANGED <<published, env, probing>>
  PROVE  RelInv'
<1> DEFINE s == frames[w]
           h == [Top(w) EXCEPT !.at = "once"]
           r == Append(Front(s), h)
<1>1. StackIsRight(s) /\ s # <<>> /\ Top(w) = Last(s) /\ Len(s) \in Nat \ {0}
      /\ FrameIsRight(Top(w)) /\ Top(w) \in FrameRec /\ Top(w) = s[Len(s)] /\ Top(w).at = "lookup"
  BY TopIsRight DEF InLookup
<1>2. w \notin Child /\ ~BelowLookup(w) /\ Proc(w) = 1 /\ w \in Caller
  BY <1>1, TopIsRight, ProcIs DEF Worker, InLookup
<1>3. h \in FrameRec /\ h.ask = Top(w).ask /\ h.tag = Top(w).tag /\ h.seen = Top(w).seen
      /\ h.asset = Top(w).asset /\ h.phase = Top(w).phase /\ h.at = "once"
  BY <1>1 DEF FrameRec
<1>4. frames'[w] = r  OBVIOUS
<1> HIDE DEF h
<1>5. FrameIsRight(h)  BY <1>1, <1>3, FrameStays
<1>6. /\ StackIsRight(r) /\ Len(r) = Len(s) /\ r # <<>> /\ Last(r) = h
      /\ \A n \in 1..Len(s) - 1 : r[n] = s[n]
  BY <1>2, <1>3, <1>5, TopReplaced DEF InLookup
<1> HIDE DEF r
<1>7. DOMAIN s = 1..Len(s) /\ DOMAIN r = 1..Len(s) /\ r[Len(s)] = h
  BY <1>1, <1>6 DEF StackIsRight, Last
<1>8. \A v \in Caller : \A n \in DOMAIN frames[v] : frames[v][n].at = "lookup" => v = w /\ n = Len(s)
  BY <1>1, <1>2, <1>7 DEF RelInv, LookupsAreOne
<1>9. \A v \in Worker : v # w => frames'[v] \in {frames[v], <<>>}  BY <1>2 DEF Worker
<1>10. \A v \in Caller : \A n \in DOMAIN frames'[v] : frames'[v][n].at # "lookup"
  <2> TAKE v \in Caller
  <2>1. CASE v = w
    <3>1. \A n \in 1..Len(s) - 1 : s[n].at # "lookup"  BY <1>1, <1>2, <1>7, <1>8
    <3> QED BY <1>1, <1>3, <1>4, <1>6, <1>7, <2>1, <3>1
  <2>2. CASE v # w
    <3>1. frames'[v] \in {frames[v], <<>>}  BY <1>9, <2>2 DEF Worker
    <3> QED BY <1>8, <2>2, <3>1
  <2> QED BY <2>1, <2>2
<1>11. LookupsAreOne'  BY <1>10 DEF LookupsAreOne
<1>12. RelTypeOK'
  <2>1. Proc(w) \in 1..(MaxDepth + 1)  BY ProcIs
  <2> QED BY <2>1 DEF RelInv, RelTypeOK
<1>13. StackIsRight(<<>>)  BY DEF StackIsRight
<1>14. StacksAreRight'
  <2>1. outcome'[w] = o /\ \A v \in Worker : v # w => outcome'[v] = outcome[v]
    BY DEF RelInv, RelTypeOK
  <2> QED BY <1>4, <1>6, <1>9, <1>13, <2>1 DEF RelInv, StacksAreRight
<1>15. ChildrenDoNotAsk'
  <2>1. \A p \in Child : once'[p] = once[p]  BY <1>2 DEF RelInv, RelTypeOK, Child
  <2> QED BY <2>1 DEF RelInv, ChildrenDoNotAsk
<1> QED BY <1>11, <1>12, <1>14, <1>15 DEF RelInv

LEMMA ResolvedInv ==
  ASSUME RelInv, NEW w \in Worker, InLookup(w), NEW t \in {Nothing, Token}, Resolved(w, t),
         UNCHANGED <<published, env, probing>>
  PROVE  RelInv'
<1>1. \A v \in Worker : frames'[v] = IF v = w THEN Append(Front(frames[w]), [Top(w) EXCEPT !.at = "once"])
                                     ELSE frames[v]
  BY DEF Resolved, SetTop, RelInv, RelTypeOK
<1>2. frames' = [v \in Worker |-> frames'[v]]  BY DEF Resolved, SetTop, RelInv, RelTypeOK
<1>3. w \notin Child  BY TopIsRight DEF InLookup
<1>4. \A p \in Child : frames'[p] = frames[p]  BY <1>1, <1>3 DEF Worker
<1>5. OutcomeIsRight(Nothing)  BY DEF OutcomeIsRight
<1> QED BY <1>1, <1>2, <1>4, <1>5, LookupEnds DEF Resolved

LEMMA FindsTokenInv == ASSUME RelInv, NEW w \in Worker, FindsToken(w) PROVE RelInv'
<1>1. EnvToken(w) \in {Nothing, Token}  BY DEF RelInv, RelTypeOK, EnvToken
<1> QED BY <1>1, ResolvedInv DEF FindsToken

LEMMA ProbeAnswersInv == ASSUME RelInv, NEW w \in Worker, ProbeAnswers(w) PROVE RelInv'
<1> DEFINE t == IF login /\ (gh = "shim" => outcome[Proc(w) + 1] # Nothing /\ outcome[Proc(w) + 1].ok)
                THEN Token ELSE Nothing
<1>1. t \in {Nothing, Token} /\ Resolved(w, t)  BY DEF ProbeAnswers
<1> HIDE DEF t
<1> QED BY <1>1, ResolvedInv DEF ProbeAnswers

LEMMA ProbeInv == ASSUME RelInv, NEW w \in Worker, Probe(w) PROVE RelInv'
<1> USE DEF Probe
<1>1. w \notin Child /\ Proc(w) = 1 /\ w \in Caller  BY TopIsRight, ProcIs DEF Worker, InLookup
<1>2. FrameIsRight(Frame(GhAsk)) /\ Frame(GhAsk).ask = GhAsk /\ Frame(GhAsk).at = "token"
  BY AsksAreWishes, FrameBegins DEF GhAsk
<1>3. StackIsRight(<<Frame(GhAsk)>>)
  <2>1. Frame(GhAsk) \in FrameRec  BY <1>2 DEF FrameIsRight
  <2> QED BY <1>2, <2>1 DEF StackIsRight
<1>4. \A p \in Child : probing'[p] = probing[p]
  <2>1. \A p \in Child : p # 1 /\ p \in 1..(MaxDepth + 1)  BY ReleasesAssumption DEF Child
  <2>2. probing \in [1..(MaxDepth + 1) -> BOOLEAN]  BY DEF RelInv, RelTypeOK
  <2> QED BY <1>1, <2>1, <2>2
<1>5. CASE gh = "shim" /\ 2 \in Child
  <2>1. frames' = [frames EXCEPT ![2] = <<Frame(GhAsk)>>] /\ outcome' = [outcome EXCEPT ![2] = Nothing]
    BY <1>1, <1>5
  <2>2. /\ 2 \in Worker /\ frames = [v \in Worker |-> frames[v]]
        /\ outcome = [v \in Worker |-> outcome[v]]
    BY <1>5 DEF RelInv, RelTypeOK, Worker
  <2>3. /\ frames'[2] = <<Frame(GhAsk)>> /\ \A v \in Worker : v # 2 => frames'[v] = frames[v]
        /\ outcome'[2] = Nothing /\ \A v \in Worker : v # 2 => outcome'[v] = outcome[v]
    BY <2>1, <2>2
  <2>4. 2 \notin Caller  BY <1>5, ReleasesAssumption
  <2>5. StacksAreRight'  BY <1>3, <2>3 DEF RelInv, StacksAreRight, OutcomeIsRight
  <2>6. ChildrenDoNotAsk'
    <3>1. Len(<<Frame(GhAsk)>>) <= 1 /\ \A n \in DOMAIN <<Frame(GhAsk)>> : <<Frame(GhAsk)>>[n] = Frame(GhAsk)
      OBVIOUS
    <3>2. \A p \in Child : frames'[p] = <<Frame(GhAsk)>> \/ frames'[p] = frames[p]
      BY <2>3 DEF Worker
    <3>3. UNCHANGED once  OBVIOUS
    <3>4. ASSUME NEW p \in Child
          PROVE  /\ Len(frames'[p]) <= 1
                 /\ \A n \in DOMAIN frames'[p] :
                      frames'[p][n].ask = GhAsk /\ frames'[p][n].at \in {"token", "send"}
      <4>1. CASE frames'[p] = <<Frame(GhAsk)>>
        <5> DEFINE t == <<Frame(GhAsk)>>
        <5> HIDE DEF t
        <5>1. \A n \in DOMAIN t : t[n].ask = GhAsk /\ t[n].at \in {"token", "send"}
          BY <1>2, <3>1 DEF t
        <5> QED BY <3>1, <4>1, <5>1 DEF t
      <4>2. CASE frames'[p] = frames[p]  BY <4>2 DEF RelInv, ChildrenDoNotAsk
      <4> QED BY <3>2, <4>1, <4>2
    <3>5. \A p \in Child : ~probing'[p] /\ once'[p] = "new"
      BY <1>4, <3>3 DEF RelInv, ChildrenDoNotAsk
    <3> QED BY <3>4, <3>5 DEF ChildrenDoNotAsk
  <2>7. LookupsAreOne'  BY <2>3, <2>4 DEF RelInv, LookupsAreOne, Worker
  <2>8. RelTypeOK'  BY <1>1, <2>1, <2>2 DEF RelInv, RelTypeOK
  <2> QED BY <2>5, <2>6, <2>7, <2>8 DEF RelInv
<1>6. CASE ~(gh = "shim" /\ 2 \in Child)
  <2>1. UNCHANGED <<frames, outcome, once>>  BY <1>1, <1>6
  <2>2. StacksAreRight' /\ LookupsAreOne'  BY <2>1 DEF RelInv, StacksAreRight, LookupsAreOne
  <2>3. ChildrenDoNotAsk'  BY <1>4, <2>1 DEF RelInv, ChildrenDoNotAsk
  <2>4. RelTypeOK'  BY <1>1, <2>1 DEF RelInv, RelTypeOK
  <2> QED BY <2>2, <2>3, <2>4 DEF RelInv
<1> QED BY <1>5, <1>6

LEMMA ProbeTimesOutInv == ASSUME RelInv, NEW w \in Worker, ProbeTimesOut(w) PROVE RelInv'
<1> USE DEF ProbeTimesOut
<1>1. w \notin Child /\ Proc(w) = 1  BY TopIsRight, ProcIs DEF InLookup
<1>2. \A p \in Child : p > 1  BY DEF Child
<1>3. \A p \in Child : frames'[p] = <<>>  BY <1>1, <1>2 DEF Worker
<1>4. \A v \in Worker : frames'[v] = IF v = w THEN Append(Front(frames[w]), [Top(w) EXCEPT !.at = "once"])
                                     ELSE IF v \in Child THEN frames'[v] ELSE frames[v]
  BY <1>1, <1>2
<1>5. frames' = [v \in Worker |-> frames'[v]]  OBVIOUS
<1>6. token[1] \in {Nothing, Token} /\ token' = [token EXCEPT ![1] = token[1]]
  <2>1. 1 \in 1..(MaxDepth + 1)  BY ReleasesAssumption
  <2> QED BY <2>1 DEF RelInv, RelTypeOK
<1>7. OutcomeIsRight(outcome[w]) /\ outcome' = [outcome EXCEPT ![w] = outcome[w]]
  BY DEF RelInv, StacksAreRight, RelTypeOK
<1> QED BY <1>1, <1>3, <1>4, <1>5, <1>6, <1>7, LookupEnds

-----------------------------------------------------------------------------
(* Requests.                                                               *)

LEMMA GitHubPhases ==
  ASSUME NEW f, FrameIsRight(f), f.phase \in {"list", "hint", "v", "exact", "fetch"}
  PROVE  /\ f.ask.kind \in {"github", "curated"} /\ f.ask.kind \notin {"source", "mise"}
         /\ f \in FrameRec /\ f.ask \in Wish
         /\ PhasesOf(f.ask.kind) = {"list", "hint", "v", "exact", "fetch"}
<1>1. f \in FrameRec /\ f.ask \in Wish /\ f.phase \in PhasesOf(f.ask.kind)
  BY DEF FrameIsRight, FrameRec
<1>2. f.ask.kind \in {"github", "curated", "source", "mise"}  BY <1>1 DEF Wish
<1>3. f.ask.kind \notin {"source", "mise"}  BY <1>1 DEF PhasesOf, MisePhase
<1> QED BY <1>1, <1>2, <1>3 DEF PhasesOf

LEMMA FailedEnds ==
  ASSUME NEW w, NEW f PROVE OutcomeIsRight(Ends(w, f, FALSE))
BY DEF OutcomeIsRight, Ends

LEMMA ListVersionsInv == ASSUME RelInv, NEW w \in Worker, ListVersions(w) PROVE RelInv'
<1> USE DEF ListVersions, Sends, Kept
<1> DEFINE f == Top(w)
           newest == ReleaseTags(published)
           i == Max(newest)
           tag == IF f.ask.kind = "curated" THEN Bare(Release[i].tag) ELSE Release[i].tag
           h == [f EXCEPT !.tag = tag, !.seen = published]
           phase == IF f.ask.hint THEN "hint" ELSE Tries(f.ask, tag)
<1>1. FrameIsRight(f) /\ f.phase = "list" /\ f.at = "send"  BY TopIsRight
<1>2. CASE newest = {}  BY <1>2, FailedEnds, PopStep
<1>3. CASE newest # {}
  <2>1. published \in 1..Len(Release) /\ Len(Release) \in Nat  BY ReleasesAssumption DEF RelInv, RelTypeOK
  <2>2. newest \in SUBSET (1..published) /\ published \in Nat  BY <2>1 DEF ReleaseTags
  <2>3. i \in newest /\ \A j \in newest : j <= i
    <3> HIDE DEF newest
    <3> QED BY <1>3, <2>2, MaxExists
  <2>4. Newest(i, published) /\ i \in 1..Len(Release)  BY <2>1, <2>2, <2>3 DEF Newest
  <2>5. Release[i].tag \in Tag  BY <2>4, ReleasesAssumption
  <2>6. GoesTo(w, h, phase) /\ UNCHANGED outcome  BY <1>3
  <2> HIDE DEF i, newest
  <2>7. tag \in Tag /\ Bare(tag) = Bare(Release[i].tag)  BY <2>5 DEF Bare, Tag
  <2>8. f.ask.kind # "curated" => tag = Release[i].tag  OBVIOUS
  <2> HIDE DEF tag
  <2>9. f \in FrameRec /\ PhasesOf(f.ask.kind) = {"list", "hint", "v", "exact", "fetch"}
    BY <1>1, GitHubPhases
  <2>10. h \in FrameRec /\ h.ask = f.ask /\ h.tag = tag /\ h.seen = published
    <3>1. published \in Nat /\ tag \in Tag \cup {Latest}  BY <2>2, <2>7
    <3> QED BY <2>9, <3>1 DEF FrameRec
  <2>11. TagIsRight(f.ask, tag, published)
    BY <1>1, <2>1, <2>4, <2>7, <2>8 DEF TagIsRight, FrameIsRight
  <2>12. /\ phase \in PhasesOf(f.ask.kind) /\ phase # "fetch" /\ phase # "list"
         /\ phase = "v" => f.ask.kind = "curated"
    BY <2>9, TriesOne
  <2> HIDE DEF h, phase
  <2> QED BY <1>1, <2>6, <2>7, <2>10, <2>11, <2>12, GoesStep
<1> QED BY <1>2, <1>3

\* One of the tag's assets is fetched.
LEMMA ChoosesInv ==
  ASSUME RelInv, NEW w \in Worker, Busy(w), Top(w).at = "send",
         Top(w).phase \in {"hint", "v", "exact"}, NEW tag \in Tag,
         TagIsRight(Top(w).ask, tag, Top(w).seen),
         NEW a \in UNION {SelectArtifact(GetArtifacts(Release[i])) : i \in Tagged(tag)},
         GoesTo(w, [Top(w) EXCEPT !.tag = tag, !.asset = a], "fetch"),
         UNCHANGED outcome, Kept
  PROVE  RelInv'
<1> DEFINE f == Top(w)
           h == [f EXCEPT !.tag = tag, !.asset = a]
<1>1. FrameIsRight(f)  BY TopIsRight
<1>2. f \in FrameRec /\ PhasesOf(f.ask.kind) = {"list", "hint", "v", "exact", "fetch"}
  BY <1>1, GitHubPhases
<1>3. IsOf(a, tag) /\ a \in Assets  BY ChosenIsOf DEF RelInv, RelTypeOK
<1>4. h \in FrameRec /\ h.ask = f.ask /\ h.tag = tag /\ h.seen = f.seen /\ h.asset = a
  BY <1>2, <1>3 DEF FrameRec
<1>5. GoesTo(w, h, "fetch")  OBVIOUS
<1> HIDE DEF h
<1>6. "fetch" \in PhasesOf(h.ask.kind)  BY <1>2, <1>4
<1> QED BY <1>3, <1>4, <1>5, <1>6, GoesStep DEF Kept

\* The next try for the same tag.
LEMMA TriesInv ==
  ASSUME RelInv, NEW w \in Worker, Busy(w), Top(w).at = "send",
         Top(w).phase \in {"hint", "v", "exact"}, NEW phase \in {"v", "exact"},
         phase = "v" => Top(w).ask.kind = "curated",
         GoesTo(w, Top(w), phase), UNCHANGED <<published, env, once, token, probing, outcome>>
  PROVE  RelInv'
<1>1. FrameIsRight(Top(w))  BY TopIsRight
<1>2. Top(w) \in FrameRec /\ PhasesOf(Top(w).ask.kind) = {"list", "hint", "v", "exact", "fetch"}
  BY <1>1, GitHubPhases
<1>3. Top(w).tag \in Tag /\ TagIsRight(Top(w).ask, Top(w).tag, Top(w).seen)  BY <1>1 DEF FrameIsRight
<1> QED BY <1>2, <1>3, GoesStep

LEMMA TopTag ==
  ASSUME RelInv, NEW w \in Worker, Busy(w), Top(w).phase \in {"hint", "v", "exact"}
  PROVE  /\ Top(w).tag \in Tag /\ TagIsRight(Top(w).ask, Top(w).tag, Top(w).seen)
         /\ Top(w) \in FrameRec /\ (Top(w).phase = "v" => Top(w).ask.kind = "curated")
         /\ \A a : [Top(w) EXCEPT !.asset = a] = [Top(w) EXCEPT !.tag = Top(w).tag, !.asset = a]
<1>1. FrameIsRight(Top(w)) /\ Top(w) \in FrameRec  BY TopIsRight
<1>2. \A a : [Top(w) EXCEPT !.asset = a] = [Top(w) EXCEPT !.tag = Top(w).tag, !.asset = a]
  BY <1>1 DEF FrameRec
<1> QED BY <1>1, <1>2 DEF FrameIsRight

LEMMA ListArtifactsInv == ASSUME RelInv, NEW w \in Worker, ListArtifacts(w) PROVE RelInv'
<1> DEFINE f == Top(w)
           found == UNION {SelectArtifact(GetArtifacts(Release[i])) : i \in Tagged(f.tag)}
<1>1. Busy(w) /\ f.at = "send" /\ f.phase = "hint" /\ Kept /\ UNCHANGED outcome
  BY DEF ListArtifacts, Sends
<1>2. f.tag \in Tag /\ TagIsRight(f.ask, f.tag, f.seen)  BY <1>1, TopTag
<1>3. CASE found = {}
  <2>1. GoesTo(w, f, Tries(f.ask, f.tag))  BY <1>3 DEF ListArtifacts
  <2> QED BY <1>1, <2>1, TriesOne, TriesInv DEF Kept
<1>4. CASE found # {}
  <2>1. PICK a \in found : GoesTo(w, [f EXCEPT !.asset = a], "fetch")  BY <1>4 DEF ListArtifacts
  <2>2. GoesTo(w, [f EXCEPT !.tag = f.tag, !.asset = a], "fetch")  BY <1>1, <2>1, TopTag
  <2> QED BY <1>1, <1>2, <2>2, ChoosesInv
<1> QED BY <1>3, <1>4

LEMMA TryVInv == ASSUME RelInv, NEW w \in Worker, TryV(w) PROVE RelInv'
<1> DEFINE f == Top(w)
           found == UNION {SelectArtifact(GetArtifacts(Release[i])) : i \in Tagged(V(f.tag))}
<1>1. Busy(w) /\ f.at = "send" /\ f.phase = "v" /\ Kept  BY DEF TryV, Sends
<1>2. f.tag \in Tag /\ TagIsRight(f.ask, f.tag, f.seen) /\ f.ask.kind = "curated"  BY <1>1, TopTag
<1>3. V(f.tag) \in Tag /\ Bare(V(f.tag)) = Bare(f.tag)  BY <1>2 DEF V, Bare, Tag
<1>4. TagIsRight(f.ask, V(f.tag), f.seen)  BY <1>2, <1>3 DEF TagIsRight
<1>5. CASE Tagged(V(f.tag)) = {}
  <2>1. GoesTo(w, f, "exact") /\ UNCHANGED outcome  BY <1>5 DEF TryV
  <2> QED BY <1>1, <2>1, TriesInv DEF Kept
<1>6. CASE Tagged(V(f.tag)) # {} /\ found = {}
  <2>1. Pops(w, Ends(w, f, FALSE))  BY <1>6 DEF TryV
  <2> QED BY <1>1, <2>1, FailedEnds, PopStep DEF Kept
<1>7. CASE Tagged(V(f.tag)) # {} /\ found # {}
  <2>1. UNCHANGED outcome /\ \E a \in found : GoesTo(w, [f EXCEPT !.tag = V(@), !.asset = a], "fetch")
    BY <1>7 DEF TryV
  <2>2. PICK a \in found : GoesTo(w, [f EXCEPT !.tag = V(@), !.asset = a], "fetch")  BY <2>1
  <2>3. f \in FrameRec  BY <1>1, TopTag
  <2>4. [f EXCEPT !.tag = V(@), !.asset = a] = [f EXCEPT !.tag = V(f.tag), !.asset = a]
    BY <2>3 DEF FrameRec
  <2> QED BY <1>1, <1>3, <1>4, <2>1, <2>2, <2>4, ChoosesInv
<1> QED BY <1>5, <1>6, <1>7

LEMMA TryExactInv == ASSUME RelInv, NEW w \in Worker, TryExact(w) PROVE RelInv'
<1> DEFINE f == Top(w)
           found == UNION {SelectArtifact(GetArtifacts(Release[i])) : i \in Tagged(f.tag)}
<1>1. Busy(w) /\ f.at = "send" /\ f.phase = "exact" /\ Kept  BY DEF TryExact, Sends
<1>2. f.tag \in Tag /\ TagIsRight(f.ask, f.tag, f.seen)  BY <1>1, TopTag
<1>3. CASE found = {}
  <2>1. Pops(w, Ends(w, f, FALSE))  BY <1>3 DEF TryExact
  <2> QED BY <1>1, <2>1, FailedEnds, PopStep DEF Kept
<1>4. CASE found # {}
  <2>1. UNCHANGED outcome /\ \E a \in found : GoesTo(w, [f EXCEPT !.asset = a], "fetch")
    BY <1>4 DEF TryExact
  <2>2. PICK a \in found : GoesTo(w, [f EXCEPT !.asset = a], "fetch")  BY <2>1
  <2>3. GoesTo(w, [f EXCEPT !.tag = f.tag, !.asset = a], "fetch")  BY <1>1, <2>2, TopTag
  <2> QED BY <1>1, <1>2, <2>1, <2>3, ChoosesInv
<1> QED BY <1>3, <1>4

LEMMA FetchInv == ASSUME RelInv, NEW w \in Worker, Fetch(w) PROVE RelInv'
<1> DEFINE f == Top(w)
<1>1. Busy(w) /\ f.at = "send" /\ f.phase = "fetch" /\ Kept /\ Pops(w, Ends(w, f, TRUE))
  BY DEF Fetch, Sends
<1>2. FrameIsRight(f)  BY <1>1, TopIsRight
<1>3. f.ask \in Wish  BY <1>1, <1>2, GitHubPhases
<1>4. OutcomeIsRight(Ends(w, f, TRUE))  BY <1>1, <1>2, <1>3 DEF OutcomeIsRight, Ends, FrameIsRight
<1> QED BY <1>1, <1>4, PopStep DEF Kept

-----------------------------------------------------------------------------
(* Sources, and mise.                                                      *)

LEMMA SourceGoesOnInv == ASSUME RelInv, NEW w \in Worker, SourceGoesOn(w) PROVE RelInv'
<1> DEFINE f == Top(w)
<1>1. Busy(w) /\ f.ask.kind = "source" /\ f.at = "send" /\ Kept  BY DEF SourceGoesOn
<1>2. f \in FrameRec  BY <1>1, TopIsRight
<1>3. ASSUME NEW phase \in {"commit", "tarball"}, GoesTo(w, f, phase), UNCHANGED outcome
      PROVE  RelInv'
  <2>1. phase \in PhasesOf(f.ask.kind)  BY <1>1 DEF PhasesOf
  <2> QED BY <1>1, <1>2, <1>3, <2>1, GoesStep DEF Kept
<1>4. CASE Pops(w, Ends(w, f, FALSE))  BY <1>1, <1>4, FailedEnds, PopStep DEF Kept
<1> QED BY <1>3, <1>4 DEF SourceGoesOn

LEMMA FetchTarballInv == ASSUME RelInv, NEW w \in Worker, FetchTarball(w) PROVE RelInv'
<1> DEFINE f == Top(w)
<1>1. Busy(w) /\ f.at = "send" /\ f.phase = "tarball" /\ Kept /\ Pops(w, Ends(w, f, TRUE))
  BY DEF FetchTarball, Sends
<1>2. FrameIsRight(f)  BY <1>1, TopIsRight
<1>3. f.ask.kind \notin {"github", "curated"}  BY <1>1, <1>2 DEF FrameIsRight, PhasesOf
<1>4. OutcomeIsRight(Ends(w, f, TRUE))  BY <1>3 DEF OutcomeIsRight, Ends
<1> QED BY <1>1, <1>4, PopStep DEF Kept

LEMMA StackDomain == ASSUME NEW s, StackIsRight(s) PROVE DOMAIN s = 1..Len(s) /\ Len(s) \in Nat
BY DEF StackIsRight

LEMMA BelowTheTop ==
  ASSUME NEW l \in Nat, NEW n \in 1..(l + 1), n # l + 1
  PROVE  n \in 1..l /\ (n # l => n \in 1..l - 1)
OBVIOUS

\* mise is to be installed first.
LEMMA NeedsMiseInv ==
  ASSUME RelInv, NEW w \in Worker, Busy(w), Top(w).at # "lookup", Top(w).ask.kind = "mise",
         NEW at \in {"as lazy tool", "as registry tool"},
         frames' = [frames EXCEPT ![w] =
           Append(Front(@), [Top(w) EXCEPT !.at = at]) \o <<Frame(MiseAsk)>>],
         UNCHANGED <<published, env, once, token, probing, outcome>>
  PROVE  RelInv'
<1> DEFINE s == frames[w]
           h == [Top(w) EXCEPT !.at = at]
           t == Append(Front(s), h)
           u == t \o <<Frame(MiseAsk)>>
<1>1. StackIsRight(s) /\ s # <<>> /\ Len(s) \in Nat \ {0} /\ FrameIsRight(Top(w)) /\ Top(w) \in FrameRec
      /\ Top(w) = s[Len(s)]
  BY TopIsRight
<1>2. ~BelowLookup(w) /\ w \notin Child
  <2>1. GhAsk.kind = "github"  BY DEF GhAsk
  <2>2. Top(w).ask # GhAsk  BY <2>1
  <2> QED BY <2>2, TopIsRight
<1>3. h \in FrameRec /\ h.ask = Top(w).ask /\ h.tag = Top(w).tag /\ h.seen = Top(w).seen
      /\ h.asset = Top(w).asset /\ h.phase = Top(w).phase /\ h.at = at
  BY <1>1 DEF FrameRec, Waits
<1>4. frames' = [frames EXCEPT ![w] = u]  OBVIOUS
<1> HIDE DEF h
<1>5. FrameIsRight(h)  BY <1>1, <1>3, FrameStays
<1>6. /\ StackIsRight(t) /\ Len(t) = Len(s) /\ t # <<>> /\ Last(t) = h
      /\ \A n \in 1..Len(s) - 1 : t[n] = s[n]
  BY <1>2, <1>3, <1>5, TopReplaced
<1>7. FrameIsRight(Frame(MiseAsk)) /\ Frame(MiseAsk).ask = MiseAsk /\ Frame(MiseAsk).at = "token"
  BY AsksAreWishes, FrameBegins DEF MiseAsk
<1>8. Under(Last(t), Frame(MiseAsk))  BY <1>3, <1>6, <1>7 DEF Under, Waits
<1> HIDE DEF t
<1>9. /\ StackIsRight(u) /\ Len(u) = Len(t) + 1 /\ u[Len(t) + 1] = Frame(MiseAsk)
      /\ \A n \in 1..Len(t) : u[n] = t[n]
  BY ZenonT(30), <1>6, <1>7, <1>8, StackPushed
<1> HIDE DEF u
<1>10. DOMAIN u = 1..(Len(s) + 1) /\ DOMAIN s = 1..Len(s) /\ t[Len(s)] = h
  <2>1. DOMAIN u = 1..Len(u)  BY <1>9, StackDomain
  <2>2. DOMAIN s = 1..Len(s)  BY <1>1, StackDomain
  <2>3. t[Len(t)] = h  BY <1>6 DEF Last
  <2> QED BY <1>6, <1>9, <2>1, <2>2, <2>3
<1>11. ASSUME NEW n \in DOMAIN u, u[n].at = "lookup" PROVE n \in DOMAIN s /\ s[n].at = "lookup"
  <2>1. n # Len(s) + 1  BY <1>6, <1>7, <1>9, <1>11
  <2>2. n \in 1..(Len(s) + 1) /\ Len(s) \in Nat /\ Len(t) = Len(s)  BY <1>1, <1>6, <1>10
  <2>3. n \in 1..Len(s)  BY <2>1, <2>2, BelowTheTop
  <2>4. u[n] = t[n]  BY <1>9, <2>2, <2>3
  <2>5. n # Len(s)  BY <1>3, <1>10, <1>11, <2>4
  <2>6. n \in 1..Len(s) - 1  BY <2>1, <2>2, <2>5, BelowTheTop
  <2> QED BY <1>6, <1>10, <1>11, <2>3, <2>4, <2>6
<1>12. outcome' = [outcome EXCEPT ![w] = outcome[w]] /\ OutcomeIsRight(outcome[w])
  BY DEF RelInv, RelTypeOK, StacksAreRight
<1> QED BY <1>2, <1>4, <1>9, <1>11, <1>12, WorkerStep

LEMMA MisePhases ==
  ASSUME RelInv, NEW w \in Worker, Busy(w), Top(w).ask.kind = "mise", Top(w).at # "lookup",
         NEW phase \in MisePhase, GoesTo(w, Top(w), phase),
         UNCHANGED <<published, env, once, token, probing, outcome>>
  PROVE  RelInv'
<1>1. Top(w) \in FrameRec  BY TopIsRight
<1>2. phase \in PhasesOf(Top(w).ask.kind)  BY DEF PhasesOf
<1>3. phase \notin {"hint", "v", "exact", "fetch", "list"}  BY DEF MisePhase
<1> QED BY <1>1, <1>2, <1>3, GoesStep

LEMMA EnsureMiseInv == ASSUME RelInv, NEW w \in Worker, EnsureMise(w) PROVE RelInv'
<1> DEFINE f == Top(w)
<1>1. /\ Busy(w) /\ f.at \in {"mise", "as lazy tool", "as registry tool"}
      /\ UNCHANGED <<published, env, once, token, probing>>
  BY DEF EnsureMise
<1>2. FrameIsRight(f) /\ f \in FrameRec  BY <1>1, TopIsRight
<1>3. f.ask.kind = "mise" /\ f.at # "lookup"  BY <1>1, <1>2 DEF FrameIsRight
<1>4. CASE SetTop(w, [f EXCEPT !.at = "send"]) /\ UNCHANGED outcome
  <2> DEFINE h == [f EXCEPT !.at = "send"]
  <2>1. h \in FrameRec /\ h.ask = f.ask /\ h.tag = f.tag /\ h.seen = f.seen
        /\ h.asset = f.asset /\ h.phase = f.phase /\ h.at = "send"
    BY <1>2 DEF FrameRec
  <2>2. SetTop(w, h)  BY <1>4
  <2> HIDE DEF h
  <2>3. FrameIsRight(h)  BY <1>2, <2>1, FrameStays
  <2> QED BY <1>1, <1>3, <1>4, <2>1, <2>2, <2>3, TopStep DEF Waits
<1>5. CASE /\ frames' = [frames EXCEPT ![w] =
                Append(Front(@), [f EXCEPT !.at = "as lazy tool"]) \o <<Frame(MiseAsk)>>]
           /\ UNCHANGED outcome
  BY <1>1, <1>3, <1>5, NeedsMiseInv
<1>6. CASE /\ frames' = [frames EXCEPT ![w] =
                Append(Front(@), [f EXCEPT !.at = "as registry tool"]) \o <<Frame(MiseAsk)>>]
           /\ UNCHANGED outcome
  BY <1>1, <1>3, <1>6, NeedsMiseInv
<1>7. CASE GoesTo(w, f, "mise install") /\ UNCHANGED outcome
  BY <1>1, <1>3, <1>7, MisePhases DEF MisePhase
<1>8. CASE Pops(w, Ends(w, f, FALSE))  BY <1>1, <1>8, FailedEnds, PopStep
<1>9. \/ SetTop(w, [f EXCEPT !.at = "send"]) /\ UNCHANGED outcome
      \/ /\ frames' = [frames EXCEPT ![w] =
              Append(Front(@), [f EXCEPT !.at = "as lazy tool"]) \o <<Frame(MiseAsk)>>]
         /\ UNCHANGED outcome
      \/ /\ frames' = [frames EXCEPT ![w] =
              Append(Front(@), [f EXCEPT !.at = "as registry tool"]) \o <<Frame(MiseAsk)>>]
         /\ UNCHANGED outcome
      \/ GoesTo(w, f, "mise install") /\ UNCHANGED outcome
      \/ Pops(w, Ends(w, f, FALSE))
  BY <1>1 DEF EnsureMise
<1> QED BY <1>4, <1>5, <1>6, <1>7, <1>8, <1>9

LEMMA MiseGoesOnInv == ASSUME RelInv, NEW w \in Worker, MiseGoesOn(w) PROVE RelInv'
<1> DEFINE f == Top(w)
<1>1. /\ Busy(w) /\ f.ask.kind = "mise" /\ f.at = "send"
      /\ UNCHANGED <<published, env, once, token, probing>>
  BY DEF MiseGoesOn
<1>2. ASSUME NEW phase \in {"mise where", "mise install", "mise check"}, GoesTo(w, f, phase),
             UNCHANGED outcome
      PROVE  RelInv'
  BY <1>1, <1>2, MisePhases DEF MisePhase
<1>3. CASE Pops(w, Ends(w, f, mise = "tool"))
  <2>1. OutcomeIsRight(Ends(w, f, mise = "tool"))  BY <1>1 DEF OutcomeIsRight, Ends
  <2> QED BY <1>1, <1>3, <2>1, PopStep
<1>4. \/ \E phase \in {"mise where", "mise install", "mise check"} : GoesTo(w, f, phase) /\ UNCHANGED outcome
      \/ Pops(w, Ends(w, f, mise = "tool"))
  BY DEF MiseGoesOn
<1> QED BY <1>2, <1>3, <1>4

LEMMA RequestFailsInv ==
  ASSUME RelInv, NEW w \in Worker, NEW api \in BOOLEAN, RequestFails(w, api) PROVE RelInv'
<1> DEFINE f == Top(w)
<1>1. Busy(w) /\ f.at = "send" /\ UNCHANGED <<published, env, once, token, probing>>
  BY DEF RequestFails
<1>2. FrameIsRight(f) /\ f \in FrameRec  BY <1>1, TopIsRight
<1>3. CASE f.phase = "hint" /\ GoesTo(w, f, Tries(f.ask, f.tag)) /\ UNCHANGED outcome
  BY <1>1, <1>3, TriesOne, TriesInv
<1>4. CASE f.phase = "v" /\ GoesTo(w, f, "exact") /\ UNCHANGED outcome
  BY <1>1, <1>4, TriesInv
<1>5. CASE f.phase = "mise where" /\ GoesTo(w, f, "mise install") /\ UNCHANGED outcome
  <2>1. f.ask.kind = "mise"  BY <1>2, <1>5 DEF FrameIsRight, PhasesOf
  <2> QED BY <1>1, <1>5, <2>1, MisePhases DEF MisePhase
<1>6. CASE f.ask.kind = "source" /\ GoesTo(w, f, "sorry") /\ UNCHANGED outcome
  <2>1. "sorry" \in PhasesOf(f.ask.kind)  BY <1>6 DEF PhasesOf
  <2> QED BY <1>1, <1>2, <1>6, <2>1, GoesStep
<1>7. CASE Pops(w, Ends(w, f, FALSE))  BY <1>1, <1>7, FailedEnds, PopStep
<1> QED BY <1>3, <1>4, <1>5, <1>6, <1>7 DEF RequestFails

-----------------------------------------------------------------------------

LEMMA RelInvInductive == RelInv /\ [RelNext]_relVars => RelInv'
<1> SUFFICES ASSUME RelInv, [RelNext]_relVars PROVE RelInv'  OBVIOUS
<1>1. CASE Publish  BY <1>1, PublishInv
<1>2. ASSUME NEW w \in Worker, Works(w) PROVE RelInv'
  BY <1>2, SkipsTokenInv, PassesFlagsInv, KnowsTokenInv, LooksUpInv, FindsTokenInv, ProbeInv,
     ProbeAnswersInv, ListVersionsInv, ListArtifactsInv, TryVInv, TryExactInv, FetchInv,
     SourceGoesOnInv, FetchTarballInv, EnsureMiseInv, MiseGoesOnInv DEF Works
<1>3. ASSUME NEW w \in Worker, ProbeTimesOut(w) \/ \E api \in BOOLEAN : RequestFails(w, api)
      PROVE  RelInv'
  BY <1>3, ProbeTimesOutInv, RequestFailsInv
<1>4. CASE UNCHANGED relVars
  <2>1. UNCHANGED <<published, env, once, token, frames, outcome, probing>>  BY <1>4 DEF relVars
  <2>2. RelTypeOK'  BY <2>1 DEF RelInv, RelTypeOK
  <2>3. StacksAreRight'  BY <2>1 DEF RelInv, StacksAreRight
  <2>4. ChildrenDoNotAsk'  BY <2>1 DEF RelInv, ChildrenDoNotAsk
  <2>5. LookupsAreOne'  BY <2>1 DEF RelInv, LookupsAreOne
  <2> QED BY <2>2, <2>3, <2>4, <2>5 DEF RelInv
<1> QED BY <1>1, <1>2, <1>3, <1>4 DEF RelNext

LEMMA StacksAreLow == RelInv => ProbesDoNotNest
<1> SUFFICES ASSUME RelInv PROVE ProbesDoNotNest  OBVIOUS
<1>1. \A w \in Worker : Len(frames[w]) <= 3  BY StackIsLow DEF RelInv, StacksAreRight
<1>2. ASSUME NEW w \in Worker, NEW n \in 1..3, n <= Len(frames[w])
      PROVE  frames[w][n].auth \in {Nothing, Token}
  <2>1. frames[w] \in Seq({f \in FrameRec : FrameIsRight(f)})
    BY DEF RelInv, StacksAreRight, StackIsRight
  <2>2. frames[w][n] \in FrameRec  BY <1>2, <2>1
  <2> QED BY <2>2 DEF FrameRec
<1> QED BY <1>1, <1>2 DEF ProbesDoNotNest, RelInv, ChildrenDoNotAsk

LEMMA AssetsAreRight == OneTagPerVersion /\ RelInv => RightRelease
<1> SUFFICES ASSUME OneTagPerVersion, RelInv, NEW w \in Worker, Installed(w),
                    outcome[w].ask.kind \in {"github", "curated"}
             PROVE  LET o == outcome[w]  i == CHOOSE j \in 1..Len(Release) : Release[j].tag = o.tag IN
                    /\ o.asset \in Release[i].assets /\ "package" \notin o.asset.traits
                    /\ o.asset.arch = Arch
                    /\ o.asset.os = Host \/ \A a \in Release[i].assets :
                                              ~(HasOS(a, Host) /\ "package" \notin a.traits)
                    /\ IF o.ask.version = Latest
                       THEN /\ Release[i].pre => \A j \in 1..o.seen : ~Stable(j)
                            /\ \A j \in (i + 1)..o.seen : ~Stable(j)
                       ELSE /\ Bare(o.tag) = Bare(o.ask.version)
                            /\ (~o.ask.kind = "curated" => o.tag = o.ask.version)
  BY DEF RightRelease
<1> DEFINE o == outcome[w]
           i == CHOOSE j \in 1..Len(Release) : Release[j].tag = o.tag
<1>1. TagIsRight(o.ask, o.tag, o.seen) /\ IsOf(o.asset, o.tag)
  BY DEF RelInv, StacksAreRight, OutcomeIsRight, Installed
<1>2. PICK k \in 1..Len(Release) : Release[k].tag = o.tag /\ o.asset \in SelectArtifact(GetArtifacts(Release[k]))
  BY <1>1 DEF IsOf
<1>3. i \in 1..Len(Release) /\ Release[i].tag = o.tag  BY <1>2
<1> HIDE DEF i
<1>4. i = k  BY <1>2, <1>3 DEF OneTagPerVersion
<1>5. o.asset \in SelectArtifact(GetArtifacts(Release[i]))  BY <1>2, <1>4
<1>6. /\ o.asset \in GetArtifacts(Release[i]) /\ Eligible(o.asset)
      /\ o.asset.os # Host => \A b \in GetArtifacts(Release[i]) : ~(HasOS(b, Host) /\ "package" \notin b.traits)
  BY <1>5, HostIsBest
<1>7. o.asset \in Release[i].assets /\ "package" \notin o.asset.traits /\ o.asset.arch = Arch
  BY <1>6 DEF GetArtifacts, Eligible, HasOS
<1>8. o.asset.os = Host \/ \A a \in Release[i].assets : ~(HasOS(a, Host) /\ "package" \notin a.traits)
  BY <1>6, ReleasesAssumption DEF GetArtifacts, HasOS
<1>9. CASE o.ask.version = Latest
  <2>1. PICK m \in 1..Len(Release) : Newest(m, o.seen) /\ Bare(o.tag) = Bare(Release[m].tag)
    BY <1>1, <1>9 DEF TagIsRight
  <2>2. m = i  BY <1>3, <2>1 DEF OneTagPerVersion
  <2>3. o.seen \in 1..Len(Release) /\ Len(Release) \in Nat  BY <1>1, <1>9, ReleasesAssumption DEF TagIsRight
  <2>4. i \in ReleaseTags(o.seen) /\ \A j \in ReleaseTags(o.seen) : j <= i  BY <2>1, <2>2 DEF Newest
  <2>5. CASE {j \in 1..o.seen : Stable(j)} = {}
    <3>1. \A j \in 1..o.seen : ~Stable(j)  BY <2>5
    <3>2. \A j \in (i + 1)..o.seen : j \in 1..o.seen  BY <1>3, <2>3
    <3> QED BY <1>7, <1>8, <1>9, <3>1, <3>2 DEF i
  <2>6. CASE {j \in 1..o.seen : Stable(j)} # {}
    <3>1. ReleaseTags(o.seen) = {j \in 1..o.seen : Stable(j)}  BY <2>6 DEF ReleaseTags
    <3>2. ~Release[i].pre  BY <2>4, <3>1 DEF Stable
    <3>3. \A j \in (i + 1)..o.seen : ~Stable(j)  BY <1>3, <2>3, <2>4, <3>1
    <3> QED BY <1>7, <1>8, <1>9, <3>2, <3>3 DEF i
  <2> QED BY <2>5, <2>6
<1>10. CASE o.ask.version # Latest  BY <1>1, <1>7, <1>8, <1>10 DEF TagIsRight, i
<1> QED BY <1>9, <1>10

\* Whichever goroutines install what, with and without a token, gh and mise,
\* and whatever fails: a release that ends up installed is the one that was
\* asked for and fits the host, and a lookup of the token starts no other.  For
\* a repository that has no two releases of one version, as "1.2" and "v1.2".
THEOREM RightAssetsOnly == ASSUME OneTagPerVersion PROVE RelSpec => []RightAsset
<1>1. RelInit => RelInv  BY RelInitInv
<1>2. RelInv /\ [RelNext]_relVars => RelInv'  BY RelInvInductive
<1>3. RelInv => RightAsset  BY StacksAreLow, AssetsAreRight DEF RightAsset
<1> QED BY <1>1, <1>2, <1>3, PTL DEF RelSpec
=============================================================================
