------------------------------- MODULE Deploy -------------------------------
(***************************************************************************)
(* `home apply` and `codebase apply`: dotfiles.Manager.Apply with the      *)
(* planner, the executor and the state store of internal/deployer.         *)
(*                                                                         *)
(* A path holds a version (content, mode and kind of a file or a symlink), *)
(* a directory, or nothing.  A configuration is what the source pipeline   *)
(* yields.  An apply plans every wanted path on its own, does the          *)
(* filesystem work of the plan in a parallel taskgroup.Map on the IO pool, *)
(* reduces the patches into the loaded state and saves it.  It can fail or *)
(* crash between any two of these steps, and the next apply starts from    *)
(* what is then on disk.                                                   *)
(***************************************************************************)
EXTENDS Integers, FiniteSets

CONSTANTS
  Path,        \* the targets
  Parent,      \* the directory of a target: another target, or Home
  Home,        \* a directory that is always there
  Version,     \* what a target can hold as a file or a symlink
  KindOf,      \* "file", "exec" (mode 0755) or "link"
  SourceOf,    \* the SourceInfo a version is recorded with
  Bundled,     \* the SourceInfos that hold "bundle:"
  Absent, Dir, \* no file; a directory
  NoSource,    \* a target the state does not name
  Configs,     \* the configurations the user may apply
  IgnoreSets,  \* the sets of paths .gitignore may name
  Slots,       \* the capacity of the IO pool
  NoCacheUsed, DryRunUsed,
  MaxApplies, MaxFaults, MaxEdits

Source == {SourceOf[v] : v \in Version}

ASSUME PathsAssumption ==
  /\ Parent \in [Path -> Path \cup {Home}]
  /\ Home \notin Path
  /\ Absent \notin Version /\ Dir \notin Version /\ Absent # Dir
  /\ KindOf \in [Version -> {"file", "exec", "link"}]
  /\ DOMAIN SourceOf = Version
  /\ NoSource \notin Source

(* The pipeline's configuration is a tree: nothing is wanted beneath a     *)
(* wanted file.                                                            *)
ASSUME ConfigsAssumption ==
  /\ Configs \subseteq [Path -> Version \cup {Absent}]
  /\ \A c \in Configs : \A p \in Path :
       Parent[p] # Home /\ c[p] # Absent => c[Parent[p]] = Absent
  /\ IgnoreSets \subseteq SUBSET Path

ASSUME BoundsAssumption ==
  /\ Slots \in Nat \ {0}
  /\ {NoCacheUsed, DryRunUsed} \subseteq BOOLEAN
  /\ {MaxApplies, MaxFaults, MaxEdits} \subseteq Nat

VARIABLES
  disk,      \* the filesystem under the apply root
  saved,     \* state.json: the source each managed target was deployed from
  pc,        \* where Apply is, or how the last one ended
  wanted,    \* this apply's configuration; Absent where nothing is wanted
  ignored,   \* this apply's gitignored targets
  opts,      \* this apply's flags
  mem,       \* the loaded state, patched after execution
  dropped,   \* DropIgnored removed a key
  act,       \* the planned action per target
  step,      \* the progress of each action's filesystem work
  ours,      \* history: the targets apply wrote, unignored, that still stand
  edited,    \* history: the user wrote to the disk during this apply
  unbroken,  \* history: no apply before this one failed or crashed
  applies, faults, edits  \* bounded counters

applyVars == <<wanted, ignored, opts, mem, dropped, act, step>>
history == <<ours, edited, unbroken>>
counters == <<applies, faults, edits>>
deployVars == <<disk, saved, pc, applyVars, history, counters>>

Running == pc \in {"plan", "before", "execute", "save"}

Exists(p) == disk[p] # Absent
Regular(x) == x \in Version /\ KindOf[x] # "link"
Beneath(p) == {q \in Path : Parent[q] = p}
Wanted == {p \in Path : wanted[p] # Absent}
InDir(p) == Parent[p] # Home => disk[Parent[p]] = Dir

(* os.MkdirAll of the target's directory, a target itself or Home.         *)
DirCanBeMade(p) == Parent[p] # Home => disk[Parent[p]] \in {Absent, Dir}
WithDir(p) == IF Parent[p] = Home THEN disk ELSE [disk EXCEPT ![Parent[p]] = Dir]

Without(P) == [q \in Path |-> IF q \in P THEN Absent ELSE disk[q]]

ApplyInit ==
  /\ disk = [p \in Path |-> Absent]
  /\ saved = [p \in Path |-> NoSource]
  /\ pc = "idle"
  /\ wanted = [p \in Path |-> Absent]
  /\ ignored = {}
  /\ opts = [noCache |-> FALSE, dryRun |-> FALSE]
  /\ mem = [p \in Path |-> NoSource]
  /\ dropped = FALSE
  /\ act = [p \in Path |-> "none"]
  /\ step = [p \in Path |-> "none"]
  /\ ours = {}
  /\ edited = FALSE /\ unbroken = TRUE
  /\ applies = 0 /\ faults = 0 /\ edits = 0

----------------------------------------------------------------------------
(* Mutation: gitignored targets stay in the loaded state.                  *)
LoadedAsIs(ig) == saved

Loaded(ig) == [p \in Path |-> IF p \in ig THEN NoSource ELSE saved[p]]

(* Pipeline, Load and DropIgnored: nothing is locked, a new process starts *)
(* from the configuration and the files it finds.                          *)
Begin ==
  /\ ~Running
  /\ applies < MaxApplies
  /\ applies' = applies + 1
  /\ \E c \in Configs, ig \in IgnoreSets :
       /\ wanted' = c
       /\ ignored' = ig
       /\ mem' = Loaded(ig)
       /\ dropped' = (\E p \in ig : saved[p] # NoSource)
       /\ act' = [p \in Path |-> IF c[p] # Absent THEN "unplanned" ELSE "none"]
       /\ ours' = ours \ ig
  /\ \E n \in {FALSE, NoCacheUsed}, d \in {FALSE, DryRunUsed} :
       opts' = [noCache |-> n, dryRun |-> d]
  /\ pc' = "plan"
  /\ step' = [p \in Path |-> "none"]
  /\ edited' = FALSE
  /\ unbroken' = (unbroken /\ pc \notin {"failed", "crashed"})
  /\ UNCHANGED <<disk, saved, faults, edits>>

----------------------------------------------------------------------------
(* planOne.                                                                *)

BundleUnchanged(p) ==
  mem[p] = SourceOf[wanted[p]] /\ mem[p] \in Bundled

(* A directory whose mode is that of the wanted file is opened and hashed. *)
Unreadable(p) == disk[p] = Dir /\ KindOf[wanted[p]] = "exec"

Differs(p) == disk[p] # wanted[p]

NeedsAdopting(p) == p \notin ignored /\ mem[p] # SourceOf[wanted[p]]

ActionFor(p) ==
  IF ~Exists(p) THEN "create"
  ELSE IF \/ opts.noCache
          \/ ~BundleUnchanged(p) /\ (Differs(p) \/ NeedsAdopting(p))
    THEN "update"
    ELSE "noop"

PlanErrs(p) ==
  Exists(p) /\ ~opts.noCache /\ ~BundleUnchanged(p) /\ Unreadable(p)

PlanOne(p) ==
  /\ pc = "plan"
  /\ act[p] = "unplanned"
  /\ IF PlanErrs(p)
       THEN pc' = "failed" /\ UNCHANGED act
       ELSE act' = [act EXCEPT ![p] = ActionFor(p)] /\ UNCHANGED pc
  /\ UNCHANGED <<disk, saved, wanted, ignored, opts, mem, dropped, step,
                 history, counters>>

Orphans == {p \in Path \ Wanted : mem[p] # NoSource}

SavesDrop == dropped /\ ~opts.dryRun

Settled(A, changes) ==
  /\ act' = A
  /\ pc' = IF changes THEN (IF opts.dryRun THEN "dry" ELSE "before")
           ELSE IF SavesDrop THEN "save"
           ELSE IF opts.dryRun THEN "dry" ELSE "ok"

(* Plan returns and Apply counts.                                          *)
PlanReturns ==
  /\ pc = "plan"
  /\ \A p \in Wanted : act[p] # "unplanned"
  /\ Settled([p \in Path |-> IF p \in Orphans THEN "delete" ELSE act[p]],
             Orphans # {} \/ \E p \in Wanted : act[p] # "noop")
  /\ UNCHANGED <<disk, saved, wanted, ignored, opts, mem, dropped, step,
                 history, counters>>

----------------------------------------------------------------------------
(* Execute.                                                                *)

(* The Before hooks passed; the work list is every action but the noops.   *)
StartExecute ==
  /\ pc = "before"
  /\ pc' = "execute"
  /\ step' = [p \in Path |->
       IF act[p] \in {"create", "update", "delete"} THEN "queued" ELSE "none"]
  /\ UNCHANGED <<disk, saved, wanted, ignored, opts, mem, dropped, act,
                 history, counters>>

AtWork == {p \in Path : step[p] \in {"found", "dir", "clear"}}

(* The first failure ends the context of the Map.  Queued work may still   *)
(* win a slot then, or be cut off.                                         *)
Cancelled == \E p \in Path : step[p] = "failed"

TakesSlot(p) ==
  /\ step[p] = "queued"
  /\ Cardinality(AtWork) < Slots

Moves(p, s) ==
  /\ pc = "execute"
  /\ step' = [step EXCEPT ![p] = s]
  /\ UNCHANGED <<saved, pc, wanted, ignored, opts, mem, dropped, act, edited,
                 unbroken, counters>>

Cut(p) ==
  /\ step[p] = "queued"
  /\ Cancelled
  /\ Moves(p, "cut")
  /\ UNCHANGED <<disk, ours>>

StartDelete(p) ==
  /\ TakesSlot(p)
  /\ act[p] = "delete"
  /\ Moves(p, IF Exists(p) THEN "found" ELSE "done")
  /\ UNCHANGED <<disk, ours>>

(* os.Remove: of a file or an empty directory that Lstat has seen.         *)
RemoveFound(p) ==
  /\ step[p] = "found"
  /\ IF disk[p] \in Version \/ (disk[p] = Dir /\ \A q \in Beneath(p) : ~Exists(q))
       THEN Moves(p, "done") /\ disk' = Without({p}) /\ ours' = ours \ {p}
       ELSE Moves(p, "failed") /\ UNCHANGED <<disk, ours>>

StartWrite(p) ==
  /\ TakesSlot(p)
  /\ act[p] \in {"create", "update"}
  /\ IF DirCanBeMade(p)
       THEN Moves(p, "dir") /\ disk' = WithDir(p)
       ELSE Moves(p, "failed") /\ UNCHANGED disk
  /\ UNCHANGED ours

(* A symlink replaces whatever is there; a file replaces a regular file by *)
(* the rename and anything else by removing it first.                      *)
Clears(p) ==
  /\ Exists(p)
  /\ KindOf[wanted[p]] = "link" \/ ~Regular(disk[p])

ClearTarget(p) ==
  /\ step[p] = "dir"
  /\ Moves(p, "clear")
  /\ IF Clears(p)
       THEN /\ disk' = Without({p} \cup Beneath(p))
            /\ ours' = ours \ ({p} \cup Beneath(p))
       ELSE UNCHANGED <<disk, ours>>

CanInstall(p) ==
  IF KindOf[wanted[p]] = "link"
    THEN InDir(p) /\ ~Exists(p)
    ELSE DirCanBeMade(p) /\ disk[p] # Dir

(* os.Symlink, or atomicfile.Write: MkdirAll, a unique temp, a rename.     *)
Install(p) ==
  /\ step[p] = "clear"
  /\ IF CanInstall(p)
       THEN /\ Moves(p, "done")
            /\ disk' = [WithDir(p) EXCEPT ![p] = wanted[p]]
            /\ ours' = IF p \in ignored THEN ours ELSE ours \cup {p}
       ELSE Moves(p, "failed") /\ UNCHANGED <<disk, ours>>

(* Any syscall, or the file's reader, may return an error.                 *)
ItemFault(p) ==
  /\ faults < MaxFaults
  /\ pc = "execute" /\ p \in AtWork
  /\ faults' = faults + 1
  /\ step' = [step EXCEPT ![p] = "failed"]
  /\ UNCHANGED <<disk, saved, pc, wanted, ignored, opts, mem, dropped, act,
                 history, applies, edits>>

Patched(p) ==
  IF act[p] = "delete" \/ p \in ignored THEN NoSource ELSE SourceOf[wanted[p]]

MapOver == \A p \in Path : step[p] \in {"none", "done", "cut", "failed"}

(* Mutation: the error of the Map is logged and not returned.              *)
SwallowItemErrors ==
  /\ pc = "execute"
  /\ MapOver
  /\ pc' = "save"
  /\ mem' = [p \in Path |-> IF step[p] = "done" THEN Patched(p) ELSE mem[p]]
  /\ UNCHANGED <<disk, saved, wanted, ignored, opts, dropped, act, step,
                 history, counters>>

(* The patches are reduced into the state only if all the work succeeded.  *)
ExecuteReturns ==
  /\ pc = "execute"
  /\ MapOver
  /\ IF Cancelled
       THEN pc' = "failed" /\ UNCHANGED mem
       ELSE /\ pc' = "save"
            /\ mem' = [p \in Path |-> IF step[p] = "done" THEN Patched(p) ELSE mem[p]]
  /\ UNCHANGED <<disk, saved, wanted, ignored, opts, dropped, act, step,
                 history, counters>>

Save ==
  /\ pc = "save"
  /\ saved' = mem
  /\ pc' = "ok"
  /\ UNCHANGED <<disk, applyVars, history, counters>>

----------------------------------------------------------------------------
(* The surroundings.                                                       *)

(* The pipeline, Load, a reader of the planner, a Before hook or Save      *)
(* returns an error and Apply returns it.                                  *)
StepFails ==
  /\ pc \in {"plan", "before", "save"}
  /\ faults < MaxFaults
  /\ faults' = faults + 1
  /\ pc' = "failed"
  /\ UNCHANGED <<disk, saved, applyVars, history, applies, edits>>

Crash ==
  /\ Running
  /\ faults < MaxFaults
  /\ faults' = faults + 1
  /\ pc' = "crashed"
  /\ UNCHANGED <<disk, saved, applyVars, history, applies, edits>>

(* The user writes, replaces or removes something under the apply root.    *)
UserEdits(p) ==
  /\ edits < MaxEdits
  /\ edits' = edits + 1
  /\ DirCanBeMade(p)
  /\ \E x \in Version \cup {Absent, Dir} :
       disk' = [q \in Path |-> IF q = p THEN x
                  ELSE IF q \in Beneath(p) THEN Absent ELSE WithDir(p)[q]]
  /\ ours' = ours \ ({p} \cup Beneath(p))
  /\ edited' = TRUE
  /\ UNCHANGED <<saved, pc, applyVars, unbroken, applies, faults>>

Ended ==
  /\ ~Running
  /\ applies = MaxApplies
  /\ UNCHANGED deployVars

Item(p) ==
  \/ Cut(p) \/ StartDelete(p) \/ RemoveFound(p)
  \/ StartWrite(p) \/ ClearTarget(p) \/ Install(p)

Code ==
  \/ \E p \in Path : PlanOne(p) \/ Item(p)
  \/ PlanReturns \/ StartExecute \/ ExecuteReturns \/ Save

ApplyNext ==
  \/ Begin \/ Code
  \/ \E p \in Path : ItemFault(p) \/ UserEdits(p)
  \/ StepFails \/ Crash
  \/ Ended

ApplySpec == ApplyInit /\ [][ApplyNext]_deployVars

(* Apply's goroutines keep running, and its syscalls return.               *)
ApplyFairSpec ==
  /\ ApplySpec
  /\ \A p \in Path : WF_deployVars(PlanOne(p)) /\ WF_deployVars(Item(p))
  /\ WF_deployVars(PlanReturns) /\ WF_deployVars(StartExecute)
  /\ WF_deployVars(ExecuteReturns) /\ WF_deployVars(Save)
----------------------------------------------------------------------------
(* planner.go, executor.go and ignore.go together: an apply that reports   *)
(* success has left every wanted target as the configuration wants it,     *)
(* whatever an earlier apply that failed or crashed left behind (bundle    *)
(* files are trusted by the fingerprint the state holds), and state.json   *)
(* names exactly the wanted targets that are not gitignored, so the next   *)
(* configuration can prune what this one deployed; and what an apply wrote *)
(* and the user left alone is gone when the configuration no longer wants  *)
(* it, unless an apply before this one failed or crashed.                  *)
SuccessMeansConverged ==
  pc = "ok" =>
    /\ unbroken => ours \subseteq Wanted \ ignored
    /\ ~edited =>
         \A p \in Wanted :
           SourceOf[wanted[p]] \notin Bundled \/ opts.noCache => disk[p] = wanted[p]
    /\ saved = [p \in Path |-> IF p \in Wanted \ ignored THEN SourceOf[wanted[p]]
                               ELSE NoSource]

(* Apply changes a target only if the configuration wants it, or something *)
(* next to or below it, or if state.json named it and it is not ignored: a *)
(* gitignored target is never pruned, a file of the user's never removed.  *)
(* A dry run changes neither files nor state (no-cache.md, "Dry-run        *)
(* interaction").                                                          *)
ForeignUntouched ==
  [][Code => /\ opts.dryRun => UNCHANGED <<disk, saved>>
             /\ \A p \in Path : disk'[p] # disk[p] =>
                  \/ p \in Wanted \/ Parent[p] \in Wanted
                  \/ Beneath(p) \cap Wanted # {}
                  \/ saved[p] # NoSource /\ p \notin ignored]_deployVars

(* atomicfile.go: a regular file that an apply replaces by a regular file  *)
(* is there at every moment, whatever fails and wherever the crash.        *)
RegularNeverVanishes ==
  [][Code => \A p \in Wanted :
       Regular(wanted[p]) /\ Regular(disk[p]) => Exists(p)']_deployVars

(* Files are safe with apply: what is not its own it does not touch, and   *)
(* what it replaces does not vanish.                                       *)
FilesAreSafe == ForeignUntouched /\ RegularNeverVanishes

(* An apply during which nothing outside it goes wrong does not fail.      *)
FaultFreeApplySucceeds == faults = 0 /\ ~edited => pc # "failed"

(* Every apply ends: with a success, an error or a crash.                  *)
ApplyEnds == Running ~> ~Running
=============================================================================
