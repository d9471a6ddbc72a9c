---------------------------- MODULE Materialize ----------------------------
(***************************************************************************)
(* One cached directory and the callers that want it there: a source in    *)
(* sourcecache.EnsureCachedDir, or the version directory of a tool in      *)
(* Manager.EnsureInstalled.  Both fetch into the sibling dest.tmp and swap *)
(* it in with atomicfile.ReplaceDir by way of dest.old.  Sources hold an   *)
(* in-process mutex per key; tools hold nothing and check the tree before  *)
(* they trust it.  The three directories are named by path, so callers     *)
(* that do not exclude each other share them.                              *)
(*                                                                         *)
(* A tree is the set of parts written into it, so far.                     *)
(***************************************************************************)
EXTENDS Integers, FiniteSets

CONSTANTS
  Caller, ProcessOf,   \* goroutines, and the process of each
  NoCache, DryRun,     \* the callers that run with --no-cache, and --dry-run
  Part,                \* what a fetch writes
  Gone,                \* no such directory
  Nobody,
  KeyLocked,           \* sourcecache's keyLock, or a tool without a lock
  MayEnd,              \* the callers whose context may end
  MaxFaults

Process == {ProcessOf[a] : a \in Caller}

CallerAssumption ==
  /\ IsFiniteSet(Part) /\ Part # {}
  /\ \A tree \in SUBSET Part : tree # Gone
  /\ DOMAIN ProcessOf = Caller
  /\ NoCache \subseteq Caller /\ DryRun \subseteq Caller /\ MayEnd \subseteq Caller
  /\ Nobody \notin Caller
  /\ KeyLocked \in BOOLEAN
  /\ MaxFaults \in Nat

VARIABLES
  dest, tmp, old,  \* the directories: Gone, or the parts they hold
  at,              \* the program counter of each caller
  returned,        \* what its call returned: "none", "ok" or "err"
  todo,            \* the parts its fetch has not written yet
  lock,            \* the holder of the key's mutex in each process
  over,            \* the callers whose context is over
  faults, crashed, \* a bounded counter; whether a process has crashed
  lived            \* history: a complete tree was at dest

trees == <<dest, tmp, old>>
cacheVars == <<trees, at, returned, todo, lock, over, faults, crashed, lived>>

Trees == (SUBSET Part) \cup {Gone}

CacheInit ==
  /\ dest \in {Gone, Part}
  /\ tmp = Gone
  /\ old = Gone
  /\ at = [a \in Caller |-> "start"]
  /\ returned = [a \in Caller |-> "none"]
  /\ todo = [a \in Caller |-> Part]
  /\ lock = [p \in Process |-> Nobody]
  /\ over = {}
  /\ faults = 0
  /\ crashed = FALSE
  /\ lived = (dest = Part)

Goes(a, from, to) == at[a] = from /\ at' = [at EXCEPT ![a] = to]

(* The deferred Unlock runs on every return.                               *)
Unlocked(a) ==
  [lock EXCEPT ![ProcessOf[a]] = IF lock[ProcessOf[a]] = a THEN Nobody ELSE @]

Returns(a, r) ==
  /\ at' = [at EXCEPT ![a] = "returned"]
  /\ returned' = [returned EXCEPT ![a] = r]
  /\ lock' = Unlocked(a)

rest == <<todo, over, faults, crashed, lived>>
----------------------------------------------------------------------------
(* A source trusts any directory.  A tool trusts a tree that holds         *)
(* something and passes its checks.                                        *)
Warm(a) == a \notin NoCache /\ dest # Gone /\ (KeyLocked \/ dest # {})

(* With --no-cache a dry run settles for what is there, whatever it is.    *)
Settles(a) ==
  /\ a \in NoCache \cap DryRun
  /\ dest # Gone
  /\ KeyLocked \/ dest # {}

(* Of a part of a tree the checks see the files that the tool declares,    *)
(* and often it declares none.                                             *)
Sees(tree) == IF tree = Part THEN {TRUE} ELSE BOOLEAN

(* checks.Run finds nothing wrong with a whole tree unless the context is  *)
(* over.                                                                   *)
PassesChecks(a, tree) ==
  IF KeyLocked THEN {TRUE}
  ELSE IF a \in over THEN {FALSE}
  ELSE Sees(tree)

(* fixAndCheck removes the tree that fails.                                *)
FirstLook(a) ==
  /\ IF Warm(a)
       THEN \E good \in PassesChecks(a, dest) :
              IF good
                THEN /\ at[a] = "start"
                     /\ Returns(a, "ok")
                     /\ UNCHANGED dest
                ELSE /\ Goes(a, "start", "clean")
                     /\ dest' = Gone
                     /\ UNCHANGED <<lock, returned>>
       ELSE IF Settles(a) /\ ~KeyLocked
         THEN at[a] = "start" /\ Returns(a, "ok") /\ UNCHANGED dest
         ELSE /\ Goes(a, "start", IF KeyLocked THEN "lock" ELSE "clean")
              /\ UNCHANGED <<dest, lock, returned>>
  /\ UNCHANGED <<tmp, old, rest>>

TakeLock(a) ==
  /\ lock[ProcessOf[a]] = Nobody
  /\ Goes(a, "lock", "second")
  /\ lock' = [lock EXCEPT ![ProcessOf[a]] = a]
  /\ UNCHANGED <<trees, returned, rest>>

SecondLook(a) ==
  /\ IF Warm(a) \/ Settles(a)
       THEN at[a] = "second" /\ Returns(a, "ok")
       ELSE Goes(a, "second", "clean") /\ UNCHANGED <<returned, lock>>
  /\ UNCHANGED <<trees, rest>>

(* RemoveAll and MkdirAll of the temp.                                     *)
CleanTemp(a) ==
  /\ Goes(a, "clean", "make")
  /\ tmp' = Gone
  /\ UNCHANGED <<dest, old, returned, lock, rest>>

MakeTemp(a) ==
  /\ Goes(a, "make", "fetch")
  /\ tmp' = IF tmp = Gone THEN {} ELSE tmp
  /\ UNCHANGED <<dest, old, returned, lock, rest>>

FetchPart(a, part) ==
  /\ at[a] = "fetch"
  /\ part \in todo[a]
  /\ IF tmp = Gone
       THEN at' = [at EXCEPT ![a] = "cleanup"] /\ UNCHANGED <<tmp, todo>>
       ELSE /\ tmp' = tmp \cup {part}
            /\ todo' = [todo EXCEPT ![a] = @ \ {part}]
            /\ UNCHANGED at
  /\ UNCHANGED <<dest, old, returned, lock, over, faults, crashed, lived>>

(* Mutation: the fetch is trusted before it has written everything.        *)
FetchReturnsEarly(a) ==
  /\ Goes(a, "fetch", "check")
  /\ UNCHANGED <<trees, returned, lock, rest>>

FetchDone(a) ==
  /\ todo[a] = {}
  /\ Goes(a, "fetch", "check")
  /\ UNCHANGED <<trees, returned, lock, rest>>

(* The fetch fails: the network, the disk, a checksum or the context.      *)
FetchFails(a) ==
  /\ Goes(a, "fetch", "cleanup")
  /\ IF a \in over THEN UNCHANGED faults
     ELSE faults < MaxFaults /\ faults' = faults + 1
  /\ UNCHANGED <<trees, returned, todo, lock, over, crashed, lived>>

CheckTemp(a) ==
  /\ \E good \in PassesChecks(a, tmp) :
       IF good
         THEN Goes(a, "check", "replace") /\ UNCHANGED tmp
         ELSE Goes(a, "check", "cleanup") /\ tmp' = Gone
  /\ UNCHANGED <<dest, old, returned, lock, rest>>

----------------------------------------------------------------------------
(* atomicfile.ReplaceDir.                                                  *)

RemoveOld(a) ==
  /\ Goes(a, "replace", "aside")
  /\ old' = Gone
  /\ UNCHANGED <<dest, tmp, returned, lock, rest>>

(* A dest that cannot be renamed over a leftover is removed instead.       *)
MoveAside(a) ==
  /\ Goes(a, "aside", "in")
  /\ old' = IF dest # Gone /\ old \in {Gone, {}} THEN dest ELSE old
  /\ dest' = Gone
  /\ UNCHANGED <<tmp, returned, lock, rest>>

Restored == IF old # Gone /\ dest \in {Gone, {}} THEN old ELSE dest

MoveInFails(a) ==
  /\ dest' = Restored
  /\ old' = IF dest' = old THEN Gone ELSE old
  /\ Goes(a, "in", "cleanup")
  /\ UNCHANGED <<tmp, lived>>

MoveIn(a) ==
  /\ IF tmp # Gone /\ dest \in {Gone, {}}
       THEN /\ Goes(a, "in", "remove")
            /\ dest' = tmp
            /\ tmp' = Gone
            /\ lived' = (lived \/ tmp = Part)
            /\ UNCHANGED old
       ELSE MoveInFails(a)
  /\ UNCHANGED <<returned, todo, lock, over, faults, crashed>>

(* The rename itself fails.                                                *)
MoveInFault(a) ==
  /\ faults < MaxFaults
  /\ faults' = faults + 1
  /\ MoveInFails(a)
  /\ UNCHANGED <<returned, todo, lock, over, crashed>>

RemoveAside(a) ==
  /\ at[a] = "remove"
  /\ old' = Gone
  /\ Returns(a, "ok")
  /\ UNCHANGED <<dest, tmp, rest>>

(* Mutation: cleaning up removes the live directory, not the temp.         *)
CleanUpLive(a) ==
  /\ at[a] = "cleanup"
  /\ dest' = Gone
  /\ Returns(a, "err")
  /\ UNCHANGED <<tmp, old, rest>>

CleanUp(a) ==
  /\ at[a] = "cleanup"
  /\ tmp' = Gone
  /\ Returns(a, "err")
  /\ UNCHANGED <<dest, old, rest>>

----------------------------------------------------------------------------
(* A process dies with all its goroutines; it is run again.                *)
Crash(p) ==
  /\ faults < MaxFaults
  /\ faults' = faults + 1
  /\ crashed' = TRUE
  /\ at' = [a \in Caller |-> IF ProcessOf[a] = p THEN "start" ELSE at[a]]
  /\ returned' = [a \in Caller |-> IF ProcessOf[a] = p THEN "none" ELSE returned[a]]
  /\ todo' = [a \in Caller |-> IF ProcessOf[a] = p THEN Part ELSE todo[a]]
  /\ lock' = [lock EXCEPT ![p] = Nobody]
  /\ over' = {a \in over : ProcessOf[a] # p}
  /\ UNCHANGED <<trees, lived>>

(* Another task of the caller's group failed.                              *)
ContextEnds(a) ==
  /\ a \in MayEnd
  /\ over' = over \cup {a}
  /\ UNCHANGED <<trees, at, returned, todo, lock, faults, crashed, lived>>

Fetching(a) == (\E part \in Part : FetchPart(a, part)) \/ FetchDone(a)

Call(a) ==
  \/ FirstLook(a) \/ TakeLock(a) \/ SecondLook(a)
  \/ CleanTemp(a) \/ MakeTemp(a) \/ Fetching(a) \/ CheckTemp(a)
  \/ RemoveOld(a) \/ MoveAside(a) \/ MoveIn(a) \/ RemoveAside(a) \/ CleanUp(a)

AllReturned == \A a \in Caller : at[a] = "returned"

CacheNext ==
  \/ \E a \in Caller :
       Call(a) \/ FetchFails(a) \/ MoveInFault(a) \/ ContextEnds(a)
  \/ \E p \in Process : Crash(p)
  \/ AllReturned /\ UNCHANGED cacheVars

CacheSpec == CacheInit /\ [][CacheNext]_cacheVars

(* The scheduler runs every goroutine, a mutex that is freed again and     *)
(* again is eventually taken, and a fetch ends.                            *)
CacheFairSpec == CacheSpec /\ \A a \in Caller : WF_cacheVars(Call(a)) /\ SF_cacheVars(TakeLock(a))
----------------------------------------------------------------------------
(* no-cache.md, "Tools detail": no half-written tree left as the live path *)
(* after success; and atomicfile.go: a failed or interrupted write cannot  *)
(* leave a truncated final path that later readers treat as complete.      *)
LiveTreeWhole == dest \in {Gone, Part}

(* A tree that was live is missing only while a swap is under way or after *)
(* a crash in one; a failed fetch or rename keeps it or puts it back.      *)
LiveTreeKept ==
  lived /\ dest = Gone => crashed \/ \E a \in Caller : at[a] = "in"

(* An installed tool is not removed but to be replaced.                    *)
InstallKept ==
  [][dest = Part /\ dest' = Gone => \E a \in Caller : MoveAside(a)]_cacheVars

(* Once every call has returned and nothing crashed, no temp is left.      *)
NoLeftovers == AllReturned /\ ~crashed => tmp = Gone /\ old = Gone

(* Whatever fails or crashes, the cache holds a whole tree or none.        *)
CacheIsSound == LiveTreeWhole /\ LiveTreeKept /\ NoLeftovers

(* Every call returns: the mutex is released on every path.                *)
EveryCallReturns == \A a \in Caller : at[a] = "start" ~> at[a] = "returned"
=============================================================================
