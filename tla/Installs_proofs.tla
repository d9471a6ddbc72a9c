-------------------------- MODULE Installs_proofs ---------------------------
(***************************************************************************)
(* Proofs about what is installed and what it is made from.  Materialize,  *)
(* for any number of callers, parts and faults: a source's directory is    *)
(* whole or missing as long as one process fetches it, and a tool is not   *)
(* removed by a caller whose context is over.  Update, for any releases,   *)
(* crashes and failures: the binary behind the shim is whole as long as    *)
(* updates do not overlap.  Locks, for any workspaces and sources: what is *)
(* locked changes for a reason, and is what runs.  Pipeline, for any       *)
(* modules and icons: a cached theme has all its icons.  Sources, for any  *)
(* inputs and entries: a reference leads to one place.  Shims, for any     *)
(* packages and versions: what runs is what was asked for.                 *)
(***************************************************************************)
EXTENDS Materialize, Update, Locks, Pipeline, Sources, Shims, TLAPS

-----------------------------------------------------------------------------
(* Materialize.                                                            *)

(* sourcecache.keyLock excludes only the goroutines of one process.        *)
OneProcessOnly == \A a, b \in Caller : ProcessOf[a] = ProcessOf[b]

Places ==
  {"start", "lock", "second", "clean", "make", "fetch", "check", "replace", "aside", "in",
   "remove", "cleanup", "returned"}

CacheTypeOK ==
  /\ dest \in Trees /\ tmp \in Trees /\ old \in Trees
  /\ at \in [Caller -> Places]
  /\ returned \in [Caller -> {"none", "ok", "err"}]
  /\ todo \in [Caller -> SUBSET Part]
  /\ lock \in [Process -> Caller \cup {Nobody}]
  /\ over \subseteq Caller
  /\ faults \in Nat /\ crashed \in BOOLEAN /\ lived \in BOOLEAN

LEMMA InTrees ==
  /\ Gone \in Trees /\ {} \in Trees /\ Part \in Trees
  /\ \A tree \in Trees, part \in Part : tree # Gone => tree \cup {part} \in Trees
BY DEF Trees

(* FirstLook in one formula that does not branch.                          *)
LEMMA FirstLookGoes ==
  ASSUME NEW a \in Caller, FirstLook(a)
  PROVE  /\ at[a] = "start"
         /\ \/ Returns(a, "ok") /\ UNCHANGED dest
            \/ \E to \in {"lock", "clean"} :
                 /\ at' = [at EXCEPT ![a] = to]
                 /\ to = "lock" <=> KeyLocked
                 /\ dest' \in {dest, Gone}
                 /\ KeyLocked => dest' = dest
                 /\ UNCHANGED <<lock, returned>>
         /\ UNCHANGED <<tmp, old, rest>>
BY DEF FirstLook, Goes, Returns, PassesChecks, rest

(* A step of one caller leaves the others where they are.                  *)
LEMMA CacheTypeStep ==
  ASSUME CallerAssumption, CacheTypeOK, [CacheNext]_cacheVars
  PROVE  CacheTypeOK'
<1> USE InTrees DEF CacheTypeOK, Places, trees, rest
<1>1. ASSUME NEW a \in Caller, FirstLook(a) PROVE CacheTypeOK'
  <2>1. CASE Returns(a, "ok") /\ UNCHANGED <<dest, tmp, old, rest>>
    BY <2>1 DEF Returns, Unlocked
  <2>2. CASE /\ \E to \in {"lock", "clean"} : at' = [at EXCEPT ![a] = to]
             /\ dest' \in {dest, Gone}
             /\ UNCHANGED <<lock, returned, tmp, old, rest>>
    BY <2>2
  <2> QED BY <1>1, <2>1, <2>2, FirstLookGoes
<1>2. ASSUME NEW a \in Caller, TakeLock(a) PROVE CacheTypeOK'
  BY <1>2 DEF TakeLock, Goes
<1>3. ASSUME NEW a \in Caller, SecondLook(a) PROVE CacheTypeOK'
  BY <1>3 DEF SecondLook, Goes, Returns, Unlocked
<1>4. ASSUME NEW a \in Caller, CleanTemp(a) \/ MakeTemp(a) PROVE CacheTypeOK'
  BY <1>4 DEF CleanTemp, MakeTemp, Goes
<1>5. ASSUME NEW a \in Caller, NEW part \in Part, FetchPart(a, part) PROVE CacheTypeOK'
  BY <1>5 DEF FetchPart
<1>6. ASSUME NEW a \in Caller, FetchDone(a) \/ FetchFails(a) PROVE CacheTypeOK'
  BY <1>6 DEF FetchDone, FetchFails, Goes
<1>7. ASSUME NEW a \in Caller, CheckTemp(a) PROVE CacheTypeOK'
  BY <1>7 DEF CheckTemp, Goes
<1>8. ASSUME NEW a \in Caller, RemoveOld(a) \/ MoveAside(a) PROVE CacheTypeOK'
  BY <1>8 DEF RemoveOld, MoveAside, Goes
<1>9. ASSUME NEW a \in Caller, MoveIn(a) \/ MoveInFault(a) PROVE CacheTypeOK'
  <2>1. lived' \in BOOLEAN
    BY <1>9, Zenon DEF MoveIn, MoveInFault, MoveInFails
  <2> QED BY <1>9, <2>1 DEF MoveIn, MoveInFault, MoveInFails, Restored, Goes
<1>10. ASSUME NEW a \in Caller, RemoveAside(a) \/ CleanUp(a) PROVE CacheTypeOK'
  BY <1>10 DEF RemoveAside, CleanUp, Returns, Unlocked
<1>11. ASSUME NEW a \in Caller, ContextEnds(a) PROVE CacheTypeOK'
  BY <1>11 DEF ContextEnds
<1>12. ASSUME NEW p \in Process, Crash(p) PROVE CacheTypeOK'
  BY <1>12 DEF Crash
<1>13. CASE UNCHANGED cacheVars
  BY <1>13 DEF cacheVars
<1> QED
  BY <1>1, <1>2, <1>3, <1>4, <1>5, <1>6, <1>7, <1>8, <1>9, <1>10, <1>11, <1>12, <1>13
  DEF CacheNext, Call, Fetching

(* Every reachable state is made of the values the model names: what a     *)
(* caller does next, and what the directories hold.                        *)
THEOREM CacheTypeCorrect ==
  ASSUME CallerAssumption
  PROVE  CacheSpec => []CacheTypeOK
<1>1. CacheInit => CacheTypeOK
  <2>1. CacheInit => lived \in BOOLEAN /\ crashed \in BOOLEAN
    BY Zenon DEF CacheInit
  <2> QED BY InTrees, <2>1 DEF CacheInit, CacheTypeOK, Places
<1>2. CacheTypeOK /\ [CacheNext]_cacheVars => CacheTypeOK'
  BY CacheTypeStep
<1> QED BY <1>1, <1>2, PTL DEF CacheSpec

----------------------------------------------------------------------------
(* The key's mutex is held from the second look to the return, also when a *)
(* step fails, and by one goroutine of a process at a time.                *)
Inside(a) == at[a] \in Places \ {"start", "lock", "returned"}

HolderInside == \A a \in Caller : Inside(a) => lock[ProcessOf[a]] = a

LEMMA HolderInsideStep ==
  ASSUME CallerAssumption, KeyLocked, CacheTypeOK, HolderInside, [CacheNext]_cacheVars
  PROVE  HolderInside'
<1> USE DEF CacheTypeOK, HolderInside, Inside, Places, trees, rest
<1>1. \A a \in Caller : ProcessOf[a] \in Process /\ a # Nobody
  BY DEF Process, CallerAssumption
<1>2. ASSUME NEW a \in Caller, Returns(a, "ok") \/ Returns(a, "err") PROVE HolderInside'
  BY <1>1, <1>2 DEF Returns, Unlocked
<1>3. ASSUME NEW a \in Caller, FirstLook(a) PROVE HolderInside'
  <2>1. CASE Returns(a, "ok")
    BY <1>2, <2>1
  <2>2. CASE at' = [at EXCEPT ![a] = "lock"] /\ UNCHANGED lock
    BY <2>2
  <2> QED BY <1>3, <2>1, <2>2, FirstLookGoes
<1>4. ASSUME NEW a \in Caller, TakeLock(a) PROVE HolderInside'
  BY <1>1, <1>4 DEF TakeLock, Goes
<1>5. ASSUME NEW a \in Caller, SecondLook(a) PROVE HolderInside'
  <2>1. CASE Returns(a, "ok")
    BY <1>2, <2>1
  <2>2. CASE Goes(a, "second", "clean") /\ UNCHANGED lock
    BY <2>2 DEF Goes
  <2> QED BY <1>5, <2>1, <2>2 DEF SecondLook
<1>6. ASSUME NEW a \in Caller, NEW to \in Places, Inside(a), at' = [at EXCEPT ![a] = to], UNCHANGED lock
      PROVE  HolderInside'
  BY <1>6
<1>7. ASSUME NEW a \in Caller,
             \/ CleanTemp(a) \/ MakeTemp(a) \/ FetchDone(a) \/ FetchFails(a) \/ CheckTemp(a)
             \/ RemoveOld(a) \/ MoveAside(a) \/ MoveIn(a) \/ MoveInFault(a)
      PROVE  HolderInside'
  BY <1>6, <1>7
  DEF CleanTemp, MakeTemp, FetchDone, FetchFails, CheckTemp, RemoveOld, MoveAside, MoveIn,
      MoveInFault, MoveInFails, Goes
<1>8. ASSUME NEW a \in Caller, NEW part \in Part, FetchPart(a, part) PROVE HolderInside'
  BY <1>8 DEF FetchPart
<1>9. ASSUME NEW a \in Caller, RemoveAside(a) \/ CleanUp(a) PROVE HolderInside'
  BY <1>2, <1>9 DEF RemoveAside, CleanUp
<1>10. ASSUME NEW a \in Caller, ContextEnds(a) PROVE HolderInside'
  BY <1>10 DEF ContextEnds
<1>11. ASSUME NEW p \in Process, Crash(p) PROVE HolderInside'
  BY <1>11 DEF Crash
<1>12. CASE UNCHANGED cacheVars
  BY <1>12 DEF cacheVars
<1> QED
  BY <1>3, <1>4, <1>5, <1>7, <1>8, <1>9, <1>10, <1>11, <1>12 DEF CacheNext, Call, Fetching

(* keyLock excludes: of the goroutines of a process that are past the lock *)
(* of one key there is at most one.                                        *)
THEOREM KeyLockExcludes ==
  ASSUME CallerAssumption, KeyLocked
  PROVE  CacheSpec => [](\A a, b \in Caller :
                           Inside(a) /\ Inside(b) /\ ProcessOf[a] = ProcessOf[b] => a = b)
<1> DEFINE Excludes ==
      \A a, b \in Caller : Inside(a) /\ Inside(b) /\ ProcessOf[a] = ProcessOf[b] => a = b
<1>1. CacheInit => HolderInside
  BY DEF CacheInit, HolderInside, Inside
<1>2. CacheTypeOK /\ HolderInside /\ [CacheNext]_cacheVars => HolderInside'
  BY HolderInsideStep
<1>3. HolderInside => Excludes
  BY DEF HolderInside
<1> QED BY <1>1, <1>2, <1>3, CacheTypeCorrect, PTL DEF CacheSpec

----------------------------------------------------------------------------
(* What the goroutine that holds the key has done so far.                  *)

(* The fetch starts from an empty temp, and what it has not written yet is *)
(* all that is missing; what is swapped in is complete.                    *)
FetchedSoFar ==
  \A a \in Caller :
    /\ at[a] \in {"start", "lock", "second", "clean", "make"} => todo[a] = Part
    /\ at[a] = "make" => tmp = Gone
    /\ at[a] = "fetch" => tmp # Gone /\ tmp \cup todo[a] = Part
    /\ at[a] \in {"check", "replace", "aside", "in"} => tmp = Part

SwapIsWhole ==
  /\ dest \in {Gone, Part} /\ old \in {Gone, Part}
  /\ \A a \in Caller : /\ at[a] = "aside" => old = Gone
                       /\ at[a] = "in" => dest = Gone

(* While the live tree is missing it lies aside, to be put back.           *)
AsideIsLive ==
  lived /\ ~crashed =>
    /\ dest = Gone => \E a \in Caller : at[a] = "in"
    /\ \A a \in Caller : at[a] = "in" => old = Part

SiblingsOwned ==
  ~crashed =>
    /\ tmp # Gone =>
         \E a \in Caller : at[a] \in {"fetch", "check", "replace", "aside", "in", "cleanup"}
    /\ old # Gone => \E a \in Caller : at[a] \in {"in", "remove"}

SwapInv == FetchedSoFar /\ SwapIsWhole /\ AsideIsLive /\ SiblingsOwned

LEMMA SwapSound ==
  ASSUME CacheTypeOK, SwapInv
  PROVE  CacheIsSound
BY DEF CacheTypeOK, SwapInv, SwapIsWhole, AsideIsLive, SiblingsOwned, CacheIsSound,
       LiveTreeWhole, LiveTreeKept, NoLeftovers, AllReturned

(* A step that moves one goroutine between two places where nothing is     *)
(* said of it, and leaves the directories alone.                           *)
LEMMA SwapUntouched ==
  ASSUME CacheTypeOK, SwapInv, NEW a \in Caller, NEW to \in Places,
         at[a] \in {"start", "lock", "second"},
         to \in {"lock", "second", "clean", "returned"},
         at' = [at EXCEPT ![a] = to], UNCHANGED <<dest, tmp, old, todo, crashed, lived>>
  PROVE  SwapInv'
BY DEF CacheTypeOK, SwapInv, FetchedSoFar, SwapIsWhole, AsideIsLive, SiblingsOwned, Places

LEMMA SwapStep ==
  ASSUME CallerAssumption, KeyLocked, OneProcessOnly, CacheTypeOK, HolderInside, SwapInv,
         [CacheNext]_cacheVars
  PROVE  SwapInv'
<1> USE DEF CacheTypeOK, Places, Inside, trees, rest
<1>1. \A a, b \in Caller : Inside(a) /\ Inside(b) => a = b
  BY DEF HolderInside, OneProcessOnly
<1>2. Part # Gone /\ Part # {} /\ {} # Gone /\ \A tree \in SUBSET Part : tree # Gone
  BY DEF CallerAssumption
<1>3. ASSUME NEW a \in Caller, FirstLook(a) \/ TakeLock(a) \/ SecondLook(a) PROVE SwapInv'
  BY <1>3, SwapUntouched, FirstLookGoes DEF TakeLock, SecondLook, Returns, Goes
<1> USE DEF SwapInv, FetchedSoFar, SwapIsWhole, AsideIsLive, SiblingsOwned
<1>4. ASSUME NEW a \in Caller, CleanTemp(a) PROVE SwapInv'
  BY <1>1, <1>4 DEF CleanTemp, Goes
<1>5. ASSUME NEW a \in Caller, MakeTemp(a) PROVE SwapInv'
  BY <1>1, <1>2, <1>5 DEF MakeTemp, Goes
<1>6. ASSUME NEW a \in Caller, NEW part \in Part, FetchPart(a, part) PROVE SwapInv'
  BY <1>1, <1>2, <1>6 DEF FetchPart, Trees
<1>7. ASSUME NEW a \in Caller, FetchDone(a) PROVE SwapInv'
  BY <1>1, <1>7 DEF FetchDone, Goes
<1>8. ASSUME NEW a \in Caller, FetchFails(a) PROVE SwapInv'
  BY <1>1, <1>8 DEF FetchFails, Goes
<1>9. ASSUME NEW a \in Caller, CheckTemp(a) PROVE SwapInv'
  BY <1>1, <1>9 DEF CheckTemp, PassesChecks, Goes
<1>10. ASSUME NEW a \in Caller, RemoveOld(a) PROVE SwapInv'
  BY <1>1, <1>10 DEF RemoveOld, Goes
<1>11. ASSUME NEW a \in Caller, MoveAside(a) PROVE SwapInv'
  BY <1>1, <1>2, <1>11 DEF MoveAside, Goes
<1>12. ASSUME NEW a \in Caller, at[a] = "in", MoveInFails(a), UNCHANGED <<todo, crashed>>
       PROVE  SwapInv'
  BY <1>1, <1>2, <1>12 DEF MoveInFails, Restored, Goes
<1>13. ASSUME NEW a \in Caller, MoveIn(a) \/ MoveInFault(a) PROVE SwapInv'
  <2>1. CASE MoveInFails(a) /\ UNCHANGED <<todo, crashed>>
    BY <1>12, <2>1 DEF MoveInFails, Goes
  <2>2. CASE /\ Goes(a, "in", "remove")
             /\ tmp' = Gone /\ dest' = tmp /\ UNCHANGED <<old, todo, crashed>>
    BY <1>1, <1>2, <2>2 DEF Goes
  <2> QED BY <1>13, <2>1, <2>2 DEF MoveIn, MoveInFault
<1>14. ASSUME NEW a \in Caller, RemoveAside(a) \/ CleanUp(a) PROVE SwapInv'
  BY <1>1, <1>14 DEF RemoveAside, CleanUp, Returns
<1>15. ASSUME NEW a \in Caller, ContextEnds(a) PROVE SwapInv'
  BY <1>15 DEF ContextEnds
<1>16. ASSUME NEW p \in Process, Crash(p) PROVE SwapInv'
  BY <1>16 DEF Crash, Process, OneProcessOnly
<1>17. CASE UNCHANGED cacheVars
  BY <1>17 DEF cacheVars
<1> QED
  BY <1>3, <1>4, <1>5, <1>6, <1>7, <1>8, <1>9, <1>10, <1>11, <1>13, <1>14, <1>15, <1>16, <1>17
  DEF CacheNext, Call, Fetching

(* EnsureCachedDir, in one process: whatever fails or crashes, at whatever *)
(* step, the live path is a whole tree or none, a tree that was live is    *)
(* missing only during a swap or after a crash, and nothing is left beside *)
(* it when all callers have returned.                                      *)
THEOREM SourceCacheIsSound ==
  ASSUME CallerAssumption, KeyLocked, OneProcessOnly
  PROVE  CacheSpec => []CacheIsSound
<1>1. CacheInit => HolderInside /\ SwapInv
  <2> SUFFICES ASSUME CacheInit PROVE HolderInside /\ SwapInv
    OBVIOUS
  <2>1. lived => dest = Part
    BY Zenon DEF CacheInit
  <2>2. Part # Gone
    BY DEF CallerAssumption
  <2> QED
    BY <2>1, <2>2 DEF CacheInit, HolderInside, Inside, SwapInv, FetchedSoFar, SwapIsWhole,
                      AsideIsLive, SiblingsOwned
<1>2. CacheTypeOK /\ HolderInside /\ [CacheNext]_cacheVars => HolderInside'
  BY HolderInsideStep
<1>3. CacheTypeOK /\ HolderInside /\ SwapInv /\ [CacheNext]_cacheVars => SwapInv'
  BY SwapStep
<1>4. CacheTypeOK /\ SwapInv => CacheIsSound
  BY SwapSound
<1> QED BY <1>1, <1>2, <1>3, <1>4, CacheTypeCorrect, PTL DEF CacheSpec

----------------------------------------------------------------------------
(* EnsureInstalled: only ReplaceDir takes a whole tree away, to put another *)
(* in its place.  A tool's install needs that the context of a caller that *)
(* looks at the warm tree does not end; a source's is not looked into.     *)
THEOREM InstalledIsKept ==
  ASSUME CallerAssumption, KeyLocked \/ MayEnd \subseteq NoCache
  PROVE  CacheSpec => InstallKept
<1> DEFINE OverMayEnd == over \subseteq MayEnd
<1>1. CacheInit => OverMayEnd
  BY DEF CacheInit
<1>2. OverMayEnd /\ [CacheNext]_cacheVars => OverMayEnd'
  <2> SUFFICES ASSUME OverMayEnd, [CacheNext]_cacheVars PROVE OverMayEnd'
    OBVIOUS
  <2>1. ASSUME NEW a \in Caller, FirstLook(a) PROVE OverMayEnd'
    BY <2>1, FirstLookGoes DEF rest
  <2>2. ASSUME NEW a \in Caller, Call(a), ~FirstLook(a) PROVE OverMayEnd'
    BY <2>2
    DEF Call, Fetching, TakeLock, SecondLook, CleanTemp, MakeTemp, FetchPart, FetchDone, CheckTemp,
        RemoveOld, MoveAside, MoveIn, RemoveAside, CleanUp, rest
  <2>3. ASSUME NEW a \in Caller, FetchFails(a) \/ MoveInFault(a) \/ ContextEnds(a)
        PROVE  OverMayEnd'
    BY <2>3 DEF FetchFails, MoveInFault, ContextEnds
  <2>4. ASSUME NEW p \in Process, Crash(p) PROVE OverMayEnd'
    BY <2>4 DEF Crash
  <2>5. CASE UNCHANGED cacheVars
    BY <2>5 DEF cacheVars
  <2> QED BY <2>1, <2>2, <2>3, <2>4, <2>5 DEF CacheNext
<1>3. ASSUME OverMayEnd, [CacheNext]_cacheVars, dest = Part, dest' = Gone
      PROVE  \E a \in Caller : MoveAside(a)
  <2>1. Part # Gone /\ Part # {}
    BY DEF CallerAssumption
  <2>2. ASSUME NEW a \in Caller, FirstLook(a) PROVE FALSE
    <3>1. Warm(a) => a \notin over
      BY <1>3, <2>2, FirstLookGoes, <2>1 DEF Warm
    <3> QED BY <1>3, <2>1, <2>2, <3>1 DEF FirstLook, PassesChecks, Sees, Goes, Returns
  <2>3. ASSUME NEW a \in Caller, MoveIn(a) \/ MoveInFault(a) PROVE FALSE
    BY <1>3, <2>1, <2>3 DEF MoveIn, MoveInFault, MoveInFails, Restored
  <2>4. ASSUME NEW a \in Caller, NEW part \in Part, FetchPart(a, part) PROVE FALSE
    BY <1>3, <2>1, <2>4 DEF FetchPart
  <2>5. ASSUME NEW a \in Caller,
               \/ TakeLock(a) \/ SecondLook(a) \/ CleanTemp(a) \/ MakeTemp(a) \/ FetchDone(a)
               \/ CheckTemp(a) \/ RemoveOld(a) \/ RemoveAside(a) \/ CleanUp(a) \/ FetchFails(a)
               \/ ContextEnds(a)
        PROVE  FALSE
    BY <1>3, <2>1, <2>5
    DEF TakeLock, SecondLook, CleanTemp, MakeTemp, FetchDone, CheckTemp, RemoveOld, RemoveAside,
        CleanUp, FetchFails, ContextEnds, trees
  <2>6. ASSUME NEW p \in Process, Crash(p) PROVE FALSE
    BY <1>3, <2>1, <2>6 DEF Crash, trees
  <2>7. CASE UNCHANGED cacheVars
    BY <1>3, <2>1, <2>7 DEF cacheVars, trees
  <2> QED
    BY <1>3, <2>2, <2>3, <2>4, <2>5, <2>6, <2>7 DEF CacheNext, Call, Fetching
<1> QED BY <1>1, <1>2, <1>3, PTL DEF CacheSpec, InstallKept

-----------------------------------------------------------------------------
(* Update.                                                                 *)

(* Commands of several processes that update follow one another.           *)
OneAtATime == \A p, q \in Updater : p = q

Kinds == {"none", "source", "github", "install"}
Steps == {"idle", "temp", "writing", "download", "unpack", "unpacking", "move", "rename",
          "chmod", "shim", "done", "failed"}
UpdateTypeOK ==
  /\ release \in Version /\ shim \in BOOLEAN
  /\ path \in [Paths -> Inode \cup {0}] /\ opened \in [Updater -> Inode \cup {0}]
  /\ inode \in [Inode -> [ver : Version, whole : BOOLEAN, runs : BOOLEAN,
                          by : Updater \cup {"nobody"}]]
  /\ doing \in [Updater -> [kind : Kinds, at : Steps, ver : Version]]

(* No file has two names: what is written is not what another path names.  *)
OneName == \A x, y \in Paths : path[x] # 0 /\ path[x] = path[y] => x = y

BinIsWhole == path[Bin] # 0 => inode[path[Bin]].whole

(* A path names a file of the release that p brings.                       *)
Brings(p, x) == path[x] # 0 /\ inode[path[x]].ver = Ver(p)

\* A file that p writes is its temporary one, or the member it unpacks.
Writes(p) ==
  /\ opened[p] # 0 => Doing(p, "writing") \/ Doing(p, "unpacking")
  /\ Doing(p, "temp") \/ Doing(p, "writing") => Ver(p) = 0
  /\ Doing(p, "writing") =>
       /\ opened[p] # 0 /\ \A x \in Paths : path[x] # opened[p]
       /\ inode[opened[p]].by = p /\ inode[opened[p]].ver = 0 /\ inode[opened[p]].runs
  /\ Doing(p, "unpacking") =>
       /\ Brings(p, <<"extract", Ver(p)>>) /\ path[<<"extract", Ver(p)>>] = opened[p]
       /\ inode[opened[p]].by = p

\* From step to step the release moves to the fixed path.
Carries(p) ==
  /\ Doing(p, "unpack") => Brings(p, <<"download", Ver(p)>>)
  /\ Doing(p, "move") => /\ Brings(p, <<"extract", Ver(p)>>)
                         /\ inode[path[<<"extract", Ver(p)>>]].whole
  /\ Doing(p, "rename") => /\ Brings(p, <<"out", Ver(p)>>)
                           /\ inode[path[<<"out", Ver(p)>>]].whole
  /\ Doing(p, "chmod") => Brings(p, Bin)
  /\ doing[p].at \in {"shim", "done"} /\ doing[p].kind # "none" =>
       Brings(p, Bin) /\ Installed.runs
  /\ Doing(p, "done") /\ doing[p].kind # "none" => shim

UpdateInv ==
  /\ UpdateTypeOK /\ OneName /\ BinIsWhole
  /\ \A p \in Updater : Writes(p) /\ Carries(p)

LEMMA PathNames ==
  /\ Bin \in Paths
  /\ \A v \in Version, s, r \in {"download", "extract", "out"} :
       <<s, v>> \in Paths /\ <<s, v>> # Bin /\ (s # r => <<s, v>> # <<r, v>>)
BY DEF Bin, Paths, Stage, Version

LEMMA FreshIsFree ==
  ASSUME Free # {}
  PROVE  /\ Fresh \in Inode /\ Fresh # 0
         /\ \A x \in Paths : path[x] # Fresh
         /\ \A p \in Updater : opened[p] # Fresh
<1>1. Fresh \in Free
  BY DEF Fresh
<1> QED BY <1>1 DEF Free, Inode

LEMMA ClearedPaths ==
  ASSUME NEW p, NEW ns
  PROVE  /\ Cleared(p, ns) = [x \in Paths |-> Cleared(p, ns)[x]]
         /\ \A x \in Paths : Cleared(p, ns)[x] = IF x \in ns THEN 0 ELSE path[x]
BY DEF Cleared

LEMMA UpdateInvInit == UpdateInit => UpdateInv
<1> SUFFICES ASSUME UpdateInit PROVE UpdateInv
  OBVIOUS
<1> USE DEF UpdateInit
<1>1. UpdateTypeOK
  <2>1. release \in Version /\ Blank \in [ver : Version, whole : BOOLEAN, runs : BOOLEAN,
                                          by : Updater \cup {"nobody"}]
    BY UpdateAssumption DEF Version, Blank
  <2>2. Idle \in [kind : Kinds, at : Steps, ver : Version]
    BY UpdateAssumption DEF Idle, Version, Kinds, Steps
  <2> QED BY <2>1, <2>2 DEF UpdateTypeOK
<1>2. OneName /\ BinIsWhole
  BY PathNames DEF OneName, BinIsWhole
<1>3. ASSUME NEW p \in Updater PROVE Writes(p) /\ Carries(p)
  <2>1. doing[p].at = "idle" /\ opened[p] = 0
    BY DEF Idle
  <2> QED BY <2>1 DEF Writes, Carries, Doing
<1> QED BY <1>1, <1>2, <1>3 DEF UpdateInv

LEMMA UpdateTypeStep ==
  ASSUME UpdateTypeOK, [UpdateNext]_updateVars
  PROVE  UpdateTypeOK'
<1> DEFINE BinFiles == [ver : Version, whole : BOOLEAN, runs : BOOLEAN, by : Updater \cup {"nobody"}]
           Tasks == [kind : Kinds, at : Steps, ver : Version]
<1> USE DEF UpdateTypeOK
<1>1. CASE Publish
  BY <1>1, UpdateAssumption DEF Publish, Version
<1>2. ASSUME NEW p \in Updater, NEW i \in Inode, NEW f \in BinFiles, Open(p, i, f)
      PROVE  inode' \in [Inode -> BinFiles] /\ opened' \in [Updater -> Inode \cup {0}]
  BY <1>2 DEF Open
<1>3. ASSUME NEW p \in Updater
      PROVE  /\ Ver(p) \in Version /\ 0 \in Version
             /\ \A v \in Version, b \in BOOLEAN :
                  /\ NewFile(p, v, b) \in BinFiles
                  /\ [NewFile(p, v, b) EXCEPT !.whole = TRUE] \in BinFiles
             /\ \A l \in Steps : Proceeds(p, l) => doing' \in [Updater -> Tasks]
             /\ Finished(p) \in [Inode -> BinFiles]
             /\ \A ns : Cleared(p, ns) \in [Paths -> Inode \cup {0}]
  <2>1. Ver(p) \in Version /\ 0 \in Version
    BY UpdateAssumption DEF Ver, Version
  <2>2. \A v \in Version, b \in BOOLEAN :
          NewFile(p, v, b) \in BinFiles /\ [NewFile(p, v, b) EXCEPT !.whole = TRUE] \in BinFiles
    BY DEF NewFile
  <2>3. \A l \in Steps : Proceeds(p, l) => doing' \in [Updater -> Tasks]
    BY DEF Proceeds
  <2>4. Finished(p) \in [Inode -> BinFiles]
    <3>1. inode \in [Inode -> BinFiles]
      OBVIOUS
    <3>2. ASSUME NEW f \in BinFiles, NEW w \in BOOLEAN PROVE [f EXCEPT !.whole = w] \in BinFiles
      OBVIOUS
    <3> HIDE DEF UpdateTypeOK, BinFiles
    <3>3. CASE opened[p] \notin Inode
      BY <3>1, <3>3 DEF Finished
    <3>4. CASE opened[p] \in Inode
      <4> DEFINE was == inode[opened[p]]
                 now == was.whole \/ was.by = p
      <4>1. was \in BinFiles
        BY <3>1, <3>4
      <4>2. was.whole \in BOOLEAN
        BY <4>1 DEF BinFiles
      <4>3. [was EXCEPT !.whole = now] \in BinFiles
        BY <3>2, <4>1, <4>2
      <4>4. Finished(p) = [inode EXCEPT ![opened[p]] = [was EXCEPT !.whole = now]]
        BY DEF Finished
      <4> QED BY <3>1, <3>4, <4>3, <4>4
    <3> QED BY <3>3, <3>4
  <2>5. ASSUME NEW ns PROVE Cleared(p, ns) \in [Paths -> Inode \cup {0}]
    <3>1. \A x \in Paths : path[x] \in Inode \cup {0}
      OBVIOUS
    <3> HIDE DEF UpdateTypeOK
    <3>2. \A x \in Paths : Cleared(p, ns)[x] \in Inode \cup {0}
      BY <3>1, ClearedPaths
    <3> QED BY <3>2, ClearedPaths
  <2> QED BY <2>1, <2>2, <2>3, <2>4, <2>5
<1> HIDE DEF BinFiles, Tasks
<1>4. ASSUME NEW p \in Updater, Begin(p) PROVE UpdateTypeOK'
  <2>1. doing' \in [Updater -> Tasks]
    BY <1>3, <1>4 DEF Begin, Tasks, Kinds, Steps
  <2>2. UNCHANGED <<release, path, inode, shim, opened>>
    BY <1>4 DEF Begin
  <2> QED BY <2>1, <2>2 DEF Tasks
<1>5. ASSUME NEW p \in Updater, Leave(p) \/ Dies(p) PROVE UpdateTypeOK'
  <2>1. Idle \in Tasks
    BY <1>3 DEF Idle, Tasks, Kinds, Steps
  <2>2. doing' \in [Updater -> Tasks] /\ opened' \in [Updater -> Inode \cup {0}]
    BY <1>5, <2>1 DEF Leave, Dies, Tasks
  <2>3. path' \in [Paths -> Inode \cup {0}]
    BY <1>3, <1>5 DEF Leave, Dies
  <2>4. UNCHANGED <<release, inode, shim>>
    BY <1>5 DEF Leave, Dies
  <2> QED BY <2>2, <2>3, <2>4 DEF Tasks
<1>6. ASSUME NEW p \in Updater, StepFails(p) PROVE UpdateTypeOK'
  BY <1>3, <1>6 DEF StepFails, Steps, Tasks
<1>7. ASSUME NEW p \in Updater, WriteTemp(p) PROVE UpdateTypeOK'
  <2>1. Fresh \in Inode /\ Open(p, Fresh, NewFile(p, 0, TRUE))
    BY <1>7, FreshIsFree DEF WriteTemp, Create
  <2>2. inode' \in [Inode -> BinFiles] /\ opened' \in [Updater -> Inode \cup {0}]
    BY <1>2, <1>3, <2>1
  <2> QED BY <1>3, <1>7, <2>2 DEF WriteTemp, BinFiles, Tasks, Steps
<1>8. ASSUME NEW p \in Updater, RenameTemp(p) PROVE UpdateTypeOK'
  BY <1>3, <1>8 DEF RenameTemp, BinFiles, Tasks, Steps
<1>9. ASSUME NEW p \in Updater, DownloadFile(p) PROVE UpdateTypeOK'
  <2>1. Fresh \in Inode /\ [NewFile(p, Ver(p), FALSE) EXCEPT !.whole = TRUE] \in BinFiles
    BY <1>3, <1>9, FreshIsFree DEF DownloadFile
  <2>2. inode' \in [Inode -> BinFiles] /\ path' \in [Paths -> Inode \cup {0}]
    BY <1>9, <2>1 DEF DownloadFile, BinFiles
  <2> QED BY <1>3, <1>9, <2>2 DEF DownloadFile, BinFiles, Tasks, Steps
<1>10. ASSUME NEW p \in Updater, OpenMember(p) PROVE UpdateTypeOK'
  <2>1. inode[path[<<"download", Ver(p)>>]].ver \in Version
    BY <1>3, <1>10, PathNames DEF OpenMember
  <2> DEFINE from == inode[path[<<"download", Ver(p)>>]]
             member == <<"extract", Ver(p)>>
  <2>2. ASSUME NEW runs \in BOOLEAN, path[member] # 0,
               Open(p, path[member], NewFile(p, from.ver, runs)), UNCHANGED path
        PROVE  /\ inode' \in [Inode -> BinFiles] /\ opened' \in [Updater -> Inode \cup {0}]
               /\ path' \in [Paths -> Inode \cup {0}]
    <3>1. path[member] \in Inode
      BY <1>3, <2>2, PathNames
    <3> QED BY <1>2, <1>3, <2>1, <2>2, <3>1
  <2>3. ASSUME NEW runs \in BOOLEAN, Create(p, NewFile(p, from.ver, runs)),
               path' = [path EXCEPT ![member] = Fresh]
        PROVE  /\ inode' \in [Inode -> BinFiles] /\ opened' \in [Updater -> Inode \cup {0}]
               /\ path' \in [Paths -> Inode \cup {0}]
    <3>1. Fresh \in Inode /\ Open(p, Fresh, NewFile(p, from.ver, runs))
      BY <2>3, FreshIsFree DEF Create
    <3>2. inode' \in [Inode -> BinFiles] /\ opened' \in [Updater -> Inode \cup {0}]
      BY <1>2, <1>3, <2>1, <3>1
    <3> QED BY <2>3, <3>1, <3>2
  <2>4. ASSUME Free # {}, path' = [path EXCEPT ![member] = Fresh],
               inode' = [inode EXCEPT ![Fresh] = [NewFile(p, from.ver, TRUE) EXCEPT !.whole = TRUE]],
               opened' = [opened EXCEPT ![p] = Fresh]
        PROVE  /\ inode' \in [Inode -> BinFiles] /\ opened' \in [Updater -> Inode \cup {0}]
               /\ path' \in [Paths -> Inode \cup {0}]
    <3>1. Fresh \in Inode /\ [NewFile(p, from.ver, TRUE) EXCEPT !.whole = TRUE] \in BinFiles
      BY <1>3, <2>1, <2>4, FreshIsFree
    <3> QED BY <2>4, <3>1 DEF BinFiles
  <2>5. /\ inode' \in [Inode -> BinFiles] /\ opened' \in [Updater -> Inode \cup {0}]
        /\ path' \in [Paths -> Inode \cup {0}]
    BY <1>10, <2>2, <2>3, <2>4 DEF OpenMember
  <2> QED BY <1>3, <1>10, <2>5 DEF OpenMember, BinFiles, Tasks, Steps
<1>11. ASSUME NEW p \in Updater, CloseMember(p) PROVE UpdateTypeOK'
  BY <1>3, <1>11 DEF CloseMember, BinFiles, Tasks, Steps
<1>12. ASSUME NEW p \in Updater, MoveContents(p) PROVE UpdateTypeOK'
  <2>1. path' \in [Paths -> Inode \cup {0}]
    <3> DEFINE left == Cleared(p, {<<"download", Ver(p)>>, <<"extract", Ver(p)>>})
    <3>1. left \in [Paths -> Inode \cup {0}] /\ left[<<"out", Ver(p)>>] \in Inode \cup {0}
          /\ path[<<"extract", Ver(p)>>] \in Inode \cup {0} /\ <<"out", Ver(p)>> \in Paths
      BY <1>3, PathNames
    <3>2. \E i \in Inode \cup {0} : path' = [left EXCEPT ![<<"out", Ver(p)>>] = i]
      BY <1>12, <3>1 DEF MoveContents
    <3> HIDE DEF left
    <3> QED BY <3>1, <3>2
  <2> QED BY <1>3, <1>12, <2>1 DEF MoveContents, Tasks, Steps
<1>13. ASSUME NEW p \in Updater, Missing(p) PROVE UpdateTypeOK'
  BY <1>3, <1>13 DEF Missing, Tasks, Steps
<1>14. ASSUME NEW p \in Updater, RenameBinary(p) PROVE UpdateTypeOK'
  BY <1>3, <1>14, PathNames DEF RenameBinary, Tasks, Steps
<1>15. ASSUME NEW p \in Updater, Chmod(p) PROVE UpdateTypeOK'
  <2>1. inode' \in [Inode -> BinFiles]
    BY <1>15 DEF Chmod, BinFiles
  <2> QED BY <1>3, <1>15, <2>1 DEF Chmod, BinFiles, Tasks, Steps
<1>16. ASSUME NEW p \in Updater, EnsureWorkspacedShim(p) PROVE UpdateTypeOK'
  BY <1>3, <1>16 DEF EnsureWorkspacedShim, Tasks, Steps
<1>17. CASE UNCHANGED updateVars
  BY <1>17 DEF updateVars
<1> QED BY <1>1, <1>4, <1>5, <1>6, <1>7, <1>8, <1>9, <1>10, <1>11, <1>12, <1>13, <1>14, <1>15,
           <1>16, <1>17 DEF UpdateNext

(* What one process keeps, whose path names change only by its own steps.  *)
Sound(p) == OneName /\ BinIsWhole /\ Writes(p) /\ Carries(p)

LEMMA Proceeding ==
  ASSUME UpdateTypeOK, NEW p \in Updater, NEW l, Proceeds(p, l)
  PROVE  doing'[p].at = l /\ doing'[p].kind = doing[p].kind /\ Ver(p)' = Ver(p)
BY DEF Proceeds, UpdateTypeOK, Ver

(* A new name for a file that has none, and a name that goes.              *)
LEMMA NamesStay ==
  ASSUME UpdateTypeOK, OneName, NEW i, i # 0 => \A x \in Paths : path[x] # i, NEW y \in Paths,
         path' = [path EXCEPT ![y] = i]
  PROVE  OneName' /\ path'[y] = i /\ \A x \in Paths : x # y => path'[x] = path[x]
BY DEF OneName, UpdateTypeOK

LEMMA SoundWithoutWork ==
  ASSUME UpdateTypeOK, NEW p \in Updater, Sound(p),
         Begin(p) \/ Leave(p) \/ StepFails(p) \/ Dies(p)
  PROVE  Sound(p)'
<1> USE DEF Sound
<1>1. doing[p].at = "idle" => opened[p] = 0
  BY DEF Writes, Doing
<1>2. CASE Begin(p)
  <2>1. /\ doing'[p].at \in {"done", "download", "shim", "temp"}
        /\ doing'[p].at \in {"done", "shim"} => doing'[p].kind = "none"
        /\ doing'[p].at = "temp" => Ver(p)' = 0
        /\ opened'[p] = 0 /\ UNCHANGED <<path, inode>>
    BY <1>1, <1>2 DEF Begin, UpdateTypeOK, Ver, Doing
  <2>2. Writes(p)' /\ Carries(p)'
    BY <2>1 DEF Writes, Carries, Doing
  <2> QED BY <2>1, <2>2 DEF OneName, BinIsWhole
<1>3. CASE Leave(p) \/ StepFails(p) \/ Dies(p)
  <2>1. doing'[p].at \in {"idle", "failed"} /\ opened'[p] = 0 /\ inode' = inode
    BY <1>3, Proceeding DEF Leave, StepFails, Dies, UpdateTypeOK, Idle
  <2>2. Writes(p)' /\ Carries(p)'
    BY <2>1 DEF Writes, Carries, Doing
  <2>3. Ver(p) \in Version
    BY DEF UpdateTypeOK, Ver
  <2>4. \A x \in Paths : path'[x] \in {0, path[x]}
    BY <1>3, ClearedPaths DEF Leave, StepFails, Dies
  <2>5. OneName' /\ BinIsWhole'
    BY <2>1, <2>4, PathNames DEF OneName, BinIsWhole
  <2> QED BY <2>2, <2>5
<1> QED BY <1>2, <1>3

LEMMA SoundFromSource ==
  ASSUME UpdateTypeOK, NEW p \in Updater, Sound(p), WriteTemp(p) \/ RenameTemp(p)
  PROVE  Sound(p)'
<1> USE DEF Sound
<1>1. CASE WriteTemp(p)
  <2>1. /\ Fresh \in Inode /\ Fresh # 0 /\ \A x \in Paths : path[x] # Fresh
        /\ inode' = [inode EXCEPT ![Fresh] = NewFile(p, 0, TRUE)]
        /\ opened'[p] = Fresh /\ path' = path
    BY <1>1, FreshIsFree DEF WriteTemp, Create, Open, UpdateTypeOK
  <2>2. doing'[p].at = "writing" /\ Ver(p)' = 0
    BY <1>1, Proceeding DEF WriteTemp, Writes
  <2>3. /\ inode'[Fresh] = NewFile(p, 0, TRUE)
        /\ path[Bin] # 0 => inode'[path[Bin]] = inode[path[Bin]]
    BY <2>1, PathNames DEF UpdateTypeOK
  <2>4. Writes(p)' /\ Carries(p)'
    BY <2>1, <2>2, <2>3 DEF Writes, Carries, Doing, NewFile
  <2>5. OneName' /\ BinIsWhole'
    BY <2>1, <2>3, PathNames DEF OneName, BinIsWhole
  <2> QED BY <2>4, <2>5
<1>2. CASE RenameTemp(p)
  <2>1. /\ opened[p] \in Inode /\ opened[p] # 0 /\ \A x \in Paths : path[x] # opened[p]
        /\ inode[opened[p]].by = p /\ inode[opened[p]].ver = Ver(p) /\ inode[opened[p]].runs
    BY <1>2 DEF RenameTemp, Writes, UpdateTypeOK
  <2>2. /\ doing'[p].at = "shim" /\ Ver(p)' = Ver(p) /\ opened'[p] = 0
        /\ path' = [path EXCEPT ![Bin] = opened[p]]
    BY <1>2, Proceeding DEF RenameTemp, UpdateTypeOK
  <2>3. OneName' /\ path'[Bin] = opened[p]
    BY <2>1, <2>2, NamesStay, PathNames
  <2>4. /\ inode'[opened[p]].whole /\ inode'[opened[p]].runs
        /\ inode'[opened[p]].ver = Ver(p)
    BY <1>2, <2>1 DEF RenameTemp, Finished, UpdateTypeOK
  <2>5. Writes(p)' /\ Carries(p)' /\ BinIsWhole'
    BY <2>1, <2>2, <2>3, <2>4 DEF Writes, Carries, Doing, Brings, Installed, BinIsWhole
  <2> QED BY <2>3, <2>5
<1> QED BY <1>1, <1>2

LEMMA SoundDownload ==
  ASSUME UpdateTypeOK, NEW p \in Updater, Sound(p), DownloadFile(p)
  PROVE  Sound(p)'
<1> USE DEF Sound
<1> DEFINE y == <<"download", Ver(p)>>
<1>1. /\ Fresh \in Inode /\ Fresh # 0 /\ \A x \in Paths : path[x] # Fresh
      /\ path' = [path EXCEPT ![y] = Fresh] /\ y \in Paths /\ y # Bin
      /\ inode' = [inode EXCEPT ![Fresh] = [NewFile(p, Ver(p), FALSE) EXCEPT !.whole = TRUE]]
  BY FreshIsFree, PathNames DEF DownloadFile, UpdateTypeOK, Ver
<1>2. OneName' /\ path'[y] = Fresh /\ path'[Bin] = path[Bin]
  BY <1>1, NamesStay, PathNames
<1>3. /\ doing'[p].at = "unpack" /\ Ver(p)' = Ver(p) /\ opened'[p] = 0
  BY Proceeding DEF DownloadFile, Writes, Doing
<1>4. inode'[Fresh].ver = Ver(p) /\ (path[Bin] # 0 => inode'[path[Bin]] = inode[path[Bin]])
  BY <1>1, PathNames DEF UpdateTypeOK, NewFile
<1>5. BinIsWhole'
  BY <1>2, <1>4 DEF BinIsWhole
<1>6. Writes(p)' /\ Carries(p)'
  BY <1>1, <1>2, <1>3, <1>4 DEF Writes, Carries, Doing, Brings
<1> QED BY <1>2, <1>5, <1>6

LEMMA SoundMember ==
  ASSUME UpdateTypeOK, NEW p \in Updater, Sound(p), OpenMember(p)
  PROVE  Sound(p)'
<1> USE DEF Sound
<1> DEFINE from == inode[path[<<"download", Ver(p)>>]]
           y == <<"extract", Ver(p)>>
<1>0. Doing(p, "unpack") /\ Proceeds(p, "unpacking")
  BY DEF OpenMember
<1>1. /\ y \in Paths /\ y # Bin /\ Bin \in Paths
      /\ from.ver = Ver(p) /\ doing'[p].at = "unpacking" /\ Ver(p)' = Ver(p)
  <2>1. y \in Paths /\ y # Bin /\ Bin \in Paths
    BY PathNames DEF UpdateTypeOK, Ver
  <2>2. from.ver = Ver(p)
    BY <1>0 DEF Carries, Brings, Doing
  <2>3. doing'[p].at = "unpacking" /\ Ver(p)' = Ver(p)
    BY <1>0, Proceeding DEF UpdateTypeOK
  <2> QED BY <2>1, <2>2, <2>3
<1> DEFINE Opens(i) ==
      /\ i \in Inode /\ i # 0 /\ i # path[Bin] /\ opened'[p] = i
      /\ OneName' /\ path'[y] = i /\ path'[Bin] = path[Bin]
      /\ \E f \in {inode'[i]} : f.by = p /\ f.ver = Ver(p)
      /\ path[Bin] # 0 => inode'[path[Bin]] = inode[path[Bin]]
<1>2. ASSUME NEW runs \in BOOLEAN, path[y] # 0, Open(p, path[y], NewFile(p, from.ver, runs)),
             UNCHANGED path
      PROVE  Opens(path[y])
  <2>1. path[y] \in Inode /\ path[y] # path[Bin]
    BY <1>1, <1>2 DEF OneName, UpdateTypeOK
  <2>2. OneName'
    BY <1>2 DEF OneName
  <2>3. inode'[path[y]] = NewFile(p, Ver(p), runs) /\ opened'[p] = path[y]
    BY <1>1, <1>2, <2>1 DEF Open, UpdateTypeOK
  <2>4. path[Bin] # 0 => inode'[path[Bin]] = inode[path[Bin]]
    BY <1>1, <1>2, <2>1 DEF Open, UpdateTypeOK
  <2> QED BY <1>1, <1>2, <2>1, <2>2, <2>3, <2>4 DEF NewFile
<1>3. ASSUME NEW runs \in BOOLEAN, Create(p, NewFile(p, from.ver, runs)),
             path' = [path EXCEPT ![y] = Fresh]
      PROVE  Opens(Fresh)
  <2>1. Fresh \in Inode /\ Fresh # 0 /\ \A x \in Paths : path[x] # Fresh
    BY <1>3, FreshIsFree DEF Create
  <2>2. OneName' /\ path'[y] = Fresh /\ path'[Bin] = path[Bin]
    BY <1>1, <1>3, <2>1, NamesStay
  <2> QED BY <1>1, <1>3, <2>1, <2>2 DEF Create, Open, NewFile, UpdateTypeOK
<1>4. ASSUME Free # {}, path' = [path EXCEPT ![y] = Fresh],
             inode' = [inode EXCEPT ![Fresh] = [NewFile(p, from.ver, TRUE) EXCEPT !.whole = TRUE]],
             opened' = [opened EXCEPT ![p] = Fresh]
      PROVE  Opens(Fresh)
  <2>1. Fresh \in Inode /\ Fresh # 0 /\ \A x \in Paths : path[x] # Fresh
    BY <1>4, FreshIsFree
  <2>2. OneName' /\ path'[y] = Fresh /\ path'[Bin] = path[Bin]
    BY <1>1, <1>4, <2>1, NamesStay
  <2> QED BY <1>1, <1>4, <2>1, <2>2 DEF NewFile, UpdateTypeOK
<1>5. \E i : Opens(i)
  BY <1>2, <1>3, <1>4 DEF OpenMember
<1>6. PICK i : Opens(i)
  BY <1>5
<1>7. BinIsWhole'
  BY <1>6 DEF BinIsWhole
<1>8. Writes(p)' /\ Carries(p)'
  BY <1>1, <1>6 DEF Writes, Carries, Doing, Brings
<1> QED BY <1>6, <1>7, <1>8

LEMMA SoundUnpacked ==
  ASSUME UpdateTypeOK, NEW p \in Updater, Sound(p), CloseMember(p) \/ MoveContents(p)
  PROVE  Sound(p)'
<1> USE DEF Sound
<1>0. Ver(p) \in Version
  BY DEF UpdateTypeOK, Ver
<1>1. CASE CloseMember(p)
  <2>1. /\ Brings(p, <<"extract", Ver(p)>>) /\ path[<<"extract", Ver(p)>>] = opened[p]
        /\ inode[opened[p]].by = p /\ opened[p] \in Inode /\ path' = path
    BY <1>1 DEF CloseMember, Writes, Brings, UpdateTypeOK
  <2>2. doing'[p].at = "move" /\ Ver(p)' = Ver(p) /\ opened'[p] = 0
    BY <1>1, Proceeding DEF CloseMember, UpdateTypeOK
  <2>3. /\ inode'[opened[p]].whole /\ inode'[opened[p]].ver = inode[opened[p]].ver
        /\ \A i \in Inode : inode[i].whole => inode'[i].whole
    <3> DEFINE o == opened[p]
               was == inode[o]
    <3>1. o \in Inode /\ was.by = p /\ inode' = Finished(p) /\ inode = [i \in Inode |-> inode[i]]
      BY <1>1, <2>1 DEF CloseMember, UpdateTypeOK
    <3>2. was = [ver |-> was.ver, whole |-> was.whole, runs |-> was.runs, by |-> was.by]
      BY <3>1 DEF UpdateTypeOK
    <3>3. inode'[o] = [was EXCEPT !.whole = (was.whole \/ TRUE)]
      BY <3>1 DEF Finished
    <3>4. \A i \in Inode : i # o => inode'[i] = inode[i]
      BY <3>1 DEF Finished
    <3>5. inode'[o].whole /\ inode'[o].ver = was.ver
      BY <3>2, <3>3
    <3> QED BY <3>4, <3>5
  <2>4. OneName' /\ BinIsWhole'
    BY <2>1, <2>3, PathNames DEF OneName, BinIsWhole, UpdateTypeOK
  <2>5. Writes(p)' /\ Carries(p)'
    BY <2>1, <2>2, <2>3 DEF Writes, Carries, Doing, Brings
  <2> QED BY <2>4, <2>5
<1>2. CASE MoveContents(p)
  <2> DEFINE e == <<"extract", Ver(p)>>
             d == <<"download", Ver(p)>>
             o == <<"out", Ver(p)>>
             left == Cleared(p, {d, e})
  <2>1. /\ e \in Paths /\ o \in Paths /\ d \in Paths /\ Bin \in Paths
        /\ o # e /\ o # Bin /\ d # Bin /\ e # Bin
        /\ Brings(p, e) /\ inode[path[e]].whole
        /\ doing'[p].at = "rename" /\ Ver(p)' = Ver(p)
        /\ opened'[p] = 0 /\ inode' = inode
    BY <1>0, <1>2, Proceeding, PathNames DEF MoveContents, Carries, Writes, Doing
  <2>2. path' = [left EXCEPT ![o] = path[e]]
    BY <1>2, <2>1 DEF MoveContents, Brings
  <2>3. \A x \in Paths : left[x] = IF x \in {d, e} THEN 0 ELSE path[x]
    BY ClearedPaths
  <2>4. \A x \in Paths : path'[x] = IF x = o THEN path[e] ELSE IF x \in {d, e} THEN 0 ELSE path[x]
    BY <2>2, <2>3 DEF Cleared
  <2>5. OneName'
    BY <2>1, <2>4 DEF OneName
  <2>6. BinIsWhole'
    BY <2>1, <2>4 DEF BinIsWhole
  <2>7. Writes(p)' /\ Carries(p)'
    BY <2>1, <2>4 DEF Writes, Carries, Doing, Brings
  <2> QED BY <2>5, <2>6, <2>7
<1> QED BY <1>1, <1>2

LEMMA SoundInstalled ==
  ASSUME UpdateTypeOK, NEW p \in Updater, Sound(p),
         Missing(p) \/ RenameBinary(p) \/ Chmod(p) \/ EnsureWorkspacedShim(p)
  PROVE  Sound(p)'
<1> USE DEF Sound
<1>0. Ver(p) \in Version
  BY DEF UpdateTypeOK, Ver
<1>1. CASE Missing(p)
  <2>1. doing'[p].at = "failed" /\ opened'[p] = 0 /\ UNCHANGED <<path, inode>>
    BY <1>1, Proceeding DEF Missing, Writes, Doing
  <2> QED BY <2>1 DEF Writes, Carries, Doing, OneName, BinIsWhole
<1>2. CASE RenameBinary(p)
  <2> DEFINE o == <<"out", Ver(p)>>
  <2>1. /\ o \in Paths /\ o # Bin /\ Bin \in Paths /\ Brings(p, o) /\ inode[path[o]].whole
        /\ doing'[p].at = "chmod" /\ Ver(p)' = Ver(p) /\ opened'[p] = 0 /\ inode' = inode
    BY <1>0, <1>2, Proceeding, PathNames DEF RenameBinary, Carries, Writes, Doing
  <2>2. \A x \in Paths : path'[x] = IF x = Bin THEN path[o] ELSE IF x = o THEN 0 ELSE path[x]
    BY <1>2, <2>1 DEF RenameBinary, UpdateTypeOK
  <2>3. OneName'
    BY <2>1, <2>2 DEF OneName
  <2>4. BinIsWhole' /\ Writes(p)' /\ Carries(p)'
    BY <2>1, <2>2 DEF BinIsWhole, Writes, Carries, Doing, Brings
  <2> QED BY <2>3, <2>4
<1>3. CASE Chmod(p)
  <2>1. /\ Brings(p, Bin) /\ path[Bin] \in Inode /\ path' = path
        /\ doing'[p].at = "shim" /\ Ver(p)' = Ver(p) /\ opened'[p] = 0
    BY <1>3, Proceeding, PathNames DEF Chmod, Carries, Writes, Doing, UpdateTypeOK, Brings
  <2>2. /\ inode'[path[Bin]].runs /\ inode'[path[Bin]].ver = inode[path[Bin]].ver
        /\ inode'[path[Bin]].whole = inode[path[Bin]].whole
    BY <1>3, <2>1 DEF Chmod, UpdateTypeOK
  <2>3. OneName' /\ BinIsWhole'
    BY <2>1, <2>2 DEF OneName, BinIsWhole
  <2>4. Writes(p)' /\ Carries(p)'
    BY <2>1, <2>2 DEF Writes, Carries, Doing, Brings, Installed
  <2> QED BY <2>3, <2>4
<1>4. CASE EnsureWorkspacedShim(p)
  <2>1. /\ doing[p].at = "shim" /\ doing'[p].at = "done" /\ doing'[p].kind = doing[p].kind
        /\ Ver(p)' = Ver(p) /\ opened'[p] = 0 /\ shim' /\ UNCHANGED <<path, inode>>
    BY <1>4, Proceeding DEF EnsureWorkspacedShim, Writes, Doing
  <2> QED BY <2>1 DEF Writes, Carries, Doing, OneName, BinIsWhole, Brings, Installed
<1> QED BY <1>1, <1>2, <1>3, <1>4

LEMMA UpdateInvStep ==
  ASSUME OneAtATime, UpdateInv, [UpdateNext]_updateVars
  PROVE  UpdateInv'
<1>1. UpdateTypeOK /\ UpdateTypeOK'
  BY UpdateTypeStep DEF UpdateInv
<1>2. CASE Publish \/ UNCHANGED updateVars
  BY <1>1, <1>2 DEF Publish, updateVars, UpdateInv, OneName, BinIsWhole, Writes, Carries, Doing,
                    Brings, Installed, Ver
<1>3. ASSUME NEW p \in Updater,
             \/ Begin(p) \/ Leave(p) \/ StepFails(p) \/ Dies(p)
             \/ WriteTemp(p) \/ RenameTemp(p)
             \/ DownloadFile(p) \/ OpenMember(p) \/ CloseMember(p) \/ MoveContents(p)
             \/ Missing(p) \/ RenameBinary(p) \/ Chmod(p) \/ EnsureWorkspacedShim(p)
      PROVE  UpdateInv'
  <2>1. Sound(p)
    BY DEF UpdateInv, Sound
  <2>2. Sound(p)'
    BY <1>1, <1>3, <2>1, SoundWithoutWork, SoundFromSource, SoundDownload, SoundMember,
       SoundUnpacked, SoundInstalled
  <2>3. \A q \in Updater : q = p
    BY DEF OneAtATime
  <2> QED BY <1>1, <2>2, <2>3 DEF UpdateInv, Sound
<1> QED BY <1>2, <1>3 DEF UpdateNext

(* Whatever crashes, fails or is left over, the fixed path names a whole   *)
(* binary, and an update that ends well has brought its release            *)
(* (BinaryIsSound), as long as updates follow one another.                 *)
THEOREM BinaryStaysSound ==
  ASSUME OneAtATime
  PROVE  UpdateSpec => []BinaryIsSound
<1>1. UpdateInv => BinaryIsSound
  BY DEF UpdateInv, BinIsWhole, Carries, Brings, Installed, BinaryIsSound, Doing
<1>2. UpdateInv /\ [UpdateNext]_updateVars => UpdateInv'
  BY UpdateInvStep
<1> QED BY <1>1, <1>2, UpdateInvInit, PTL DEF UpdateSpec

-----------------------------------------------------------------------------
(* Locks.                                                                  *)

SourceRow == [track : Branch, pin : Commit]

IsRows(f) ==
  /\ f = [x \in DOMAIN f |-> f[x]] /\ DOMAIN f \subseteq Repo \cup Tool
  /\ \A r \in Repo \cap DOMAIN f : f[r] \in SourceRow
  /\ \A t \in Tool \cap DOMAIN f : f[t] \in Nat

LockJobs == [kind : {"modlock", "refresh"}, space : Space, asks : Configs, noCache : BOOLEAN]
ToolJobs == [kind : {"tool"}, space : Space, tool : Tool, asks : Nat \cup {Latest, None},
             from : Space, again : BOOLEAN]
Inputs(j) == {s \in Source : j.asks[s] # None}
LazyTools(j) == {t \in Tool : j.asks[t] # None}

Serves(row, ref) == Reusable(row) /\ Matches(ref, row)

\* What a job knows of the lock on disk, d, from what it read, m, and what it
\* resolved, g: all of it but the rows mw, which others changed meanwhile.
Hashing(j, d, g, mw) ==
  /\ j \in LockJobs /\ DOMAIN g \subseteq Inputs(j)
  /\ \A s \in DOMAIN g : RepoOf[s] \in Repo /\ g[s] \in SourceRow /\ Serves(g[s], j.asks[s])
  /\ j.kind = "refresh" =>
       \A s \in Inputs(j) : RepoOf[s] \notin mw /\ Pinned(d, s, j.asks[s]) =>
                              s \in DOMAIN g /\ g[s] = d[RepoOf[s]]

OneInputPerRepo ==
  \A s, u \in Source : RepoOf[s] = RepoOf[u] /\ RepoOf[s] \in Repo => s = u

Refreshed(j, d, mw) ==
  OneInputPerRepo => \A s \in Inputs(j) : RepoOf[s] \in mw \/ Pinned(d, s, j.asks[s])

Versions(j, d, g, mw) ==
  /\ DOMAIN g \subseteq LazyTools(j)
  /\ \A t \in DOMAIN g : g[t] \in Nat /\ (t \in mw \/ t \notin DOMAIN d)

Refreshing(place, j, d, g, mw) ==
  /\ place \in {"scan", "latest", "reload", "puttool", "done"} => Refreshed(j, d, mw)
  /\ place \in {"latest", "reload", "puttool"} => Versions(j, d, g, mw)
  /\ place \in {"reload", "puttool"} => LazyTools(j) \subseteq DOMAIN d \cup DOMAIN g \cup mw
  /\ place = "done" => LazyTools(j) \subseteq DOMAIN d \cup mw

Resolving(place, j, d, g, mw) ==
  /\ place = "ask" => j.tool \in mw \/ j.tool \notin DOMAIN d
  /\ place \in {"reload", "puttool", "install", "done"} => DOMAIN g = {j.tool} /\ g[j.tool] \in Nat
  /\ place \in {"reload", "puttool"} =>
       j.tool \in mw \/ (j.tool \in DOMAIN d => d[j.tool] = g[j.tool])
  /\ place \in {"install", "done"} =>
       j.tool \in mw \/ (j.tool \in DOMAIN d /\ d[j.tool] = g[j.tool])

AtWork(place, j, d, m, g, mw) ==
  /\ place # "idle" => j \in LockJobs \cup ToolJobs
  /\ place \in {"ask", "install"} => j \in ToolJobs
  /\ place = "empty" => m = NoRows
  /\ place \in {"hash", "putsources"} => Hashing(j, d, g, mw)
  /\ place = "putsources" => DOMAIN g = Inputs(j)
  /\ place \in {"empty", "putsources", "latest", "puttool"} => Differing(m, d) \subseteq mw
  /\ place # "idle" /\ j.kind = "refresh" => Refreshing(place, j, d, g, mw)
  /\ place # "idle" /\ j.kind = "tool" => Resolving(place, j, d, g, mw)
  /\ place \in {"scan", "latest"} => j.kind = "refresh"

LockPlaces == {"idle", "ensure", "create", "empty", "read", "hash", "putsources", "scan", "latest",
               "reload", "puttool", "ask", "install", "done", "failed"}

CacheTrue == \A k \in DOMAIN cache : cache[k] \in Commit /\ (k[2] \in Commit => cache[k] = k[2])

LockTypes ==
  /\ conf \in [Space -> Configs]
  /\ lockfile = [w \in Space |-> lockfile[w]]
  /\ \A w \in Space : lockfile[w] # NoFile => IsRows(lockfile[w])
  /\ CacheTrue
  /\ tip \in [Repo -> [Branch -> Commit]] /\ newest \in [Tool -> Nat]
  /\ pc \in [Locker -> LockPlaces]
  /\ job = [p \in Locker |-> job[p]] /\ got = [p \in Locker |-> got[p]]
  /\ mem = [p \in Locker |-> mem[p]] /\ \A p \in Locker : IsRows(mem[p])
  /\ meanwhile = [p \in Locker |-> meanwhile[p]]

Works(p) == AtWork(pc[p], job[p], OnDisk(job[p].space), mem[p], got[p], meanwhile[p])

LockInv == LockTypes /\ \A p \in Locker : pc[p] # "idle" => Works(p)

LEMMA RowsAreAFile == ASSUME NEW f, IsRows(f) PROVE f # NoFile
<1>1. f \in [DOMAIN f -> Nat \cup [track : Branch, pin : Commit]]
  <2>1. ASSUME NEW x \in DOMAIN f PROVE f[x] \in Nat \cup [track : Branch, pin : Commit]
    BY DEF IsRows, SourceRow
  <2>2. f = [x \in DOMAIN f |-> f[x]]  BY DEF IsRows
  <2> QED BY <2>1, <2>2
<1>2. DOMAIN f \in SUBSET (Repo \cup Tool)  BY DEF IsRows
<1> QED BY <1>1, <1>2, LocksAssumption

LEMMA NoRowsAreRows == IsRows(NoRows) /\ DOMAIN NoRows = {}
BY DEF IsRows, NoRows

LEMMA DiskIsRows ==
  ASSUME LockInv, NEW w \in Space PROVE IsRows(OnDisk(w))
BY NoRowsAreRows DEF LockInv, LockTypes, OnDisk

LEMMA LockInit == LocksInit => LockInv
<1> SUFFICES ASSUME LocksInit PROVE LockInv OBVIOUS
<1> USE DEF LocksInit
<1>1. (CHOOSE c \in Commit : TRUE) \in Commit  BY LocksAssumption
<1>2. tip \in [Repo -> [Branch -> Commit]]  BY <1>1
<1>3. \A p \in Locker : IsRows(mem[p]) /\ pc[p] = "idle"  BY NoRowsAreRows
<1>4. CacheTrue  BY DEF CacheTrue, NoRows
<1> QED BY <1>2, <1>3, <1>4 DEF LockInv, LockTypes, LockPlaces

\* What a process at work is and has.
LEMMA AtWorkNow ==
  ASSUME LockInv, NEW p \in Locker, pc[p] # "idle"
  PROVE  /\ job[p] \in LockJobs \cup ToolJobs /\ job[p].space \in Space /\ Works(p)
         /\ IsRows(OnDisk(job[p].space))
<1>1. job[p] \in LockJobs \cup ToolJobs /\ Works(p)  BY DEF LockInv, Works, AtWork
<1>2. job[p].space \in Space  BY <1>1 DEF LockJobs, ToolJobs
<1> QED BY <1>1, <1>2, DiskIsRows

-----------------------------------------------------------------------------
(* Rows that others change.                                                *)

\* A row on which two locks do not differ is the same in both.
LEMMA SameRow ==
  ASSUME NEW f, NEW h, NEW x, x \notin Differing(f, h)
  PROVE  (x \in DOMAIN f <=> x \in DOMAIN h) /\ (x \in DOMAIN f => f[x] = h[x])
BY DEF Differing

LEMMA NothingDiffers == ASSUME NEW f PROVE Differing(f, f) = {}
BY DEF Differing

LEMMA DifferingAdds ==
  ASSUME NEW f, NEW h, NEW k PROVE Differing(f, k) \subseteq Differing(f, h) \cup Differing(h, k)
BY DEF Differing

LEMMA SamePin ==
  ASSUME NEW d, NEW e, NEW s, NEW ref, RepoOf[s] \notin Differing(d, e)
  PROVE  Pinned(d, s, ref) <=> Pinned(e, s, ref)
BY SameRow DEF Pinned

\* What a job knows stands when the lock changes from d to e, but for the rows
\* that change.
LEMMA WorkStands ==
  ASSUME NEW place, NEW j, NEW d, NEW e, NEW m, NEW g, NEW mw, NEW nw,
         AtWork(place, j, d, m, g, mw), mw \cup Differing(d, e) \subseteq nw
  PROVE  AtWork(place, j, e, m, g, nw)
<1>1. \A x : x \notin nw => /\ x \notin mw /\ (x \in DOMAIN d <=> x \in DOMAIN e)
                            /\ x \in DOMAIN d => d[x] = e[x]
  BY SameRow
<1>2. \A s, ref : RepoOf[s] \notin nw => (Pinned(d, s, ref) <=> Pinned(e, s, ref))
  BY SamePin
<1>3. Hashing(j, d, g, mw) => Hashing(j, e, g, nw)
  <2> SUFFICES ASSUME Hashing(j, d, g, mw), j.kind = "refresh", NEW s \in Inputs(j),
                      RepoOf[s] \notin nw, Pinned(e, s, j.asks[s])
               PROVE  s \in DOMAIN g /\ g[s] = e[RepoOf[s]]
    BY DEF Hashing
  <2>1. Pinned(d, s, j.asks[s]) /\ RepoOf[s] \notin mw  BY <1>1, <1>2
  <2>2. s \in DOMAIN g /\ g[s] = d[RepoOf[s]]  BY <2>1 DEF Hashing
  <2>3. RepoOf[s] \in DOMAIN d  BY <2>1 DEF Pinned
  <2> QED BY <1>1, <2>2, <2>3
<1>4. Refreshed(j, d, mw) => Refreshed(j, e, nw)  BY <1>1, <1>2 DEF Refreshed
<1>5. Versions(j, d, g, mw) => Versions(j, e, g, nw)  BY <1>1 DEF Versions
<1>6. Differing(m, d) \subseteq mw => Differing(m, e) \subseteq nw  BY DifferingAdds
<1>7. Refreshing(place, j, d, g, mw) => Refreshing(place, j, e, g, nw)
  BY <1>1, <1>4, <1>5 DEF Refreshing
<1>8. Resolving(place, j, d, g, mw) => Resolving(place, j, e, g, nw)  BY <1>1 DEF Resolving
<1> QED BY <1>3, <1>6, <1>7, <1>8 DEF AtWork

\* A step of p that does not write: of the others it changes nothing.
LEMMA Reads ==
  ASSUME LockInv, NEW p \in Locker, NEW place \in LockPlaces, pc' = [pc EXCEPT ![p] = place],
         NEW j, job' = [job EXCEPT ![p] = j], NEW m, IsRows(m), mem' = [mem EXCEPT ![p] = m],
         NEW g, got' = [got EXCEPT ![p] = g], NEW mw, meanwhile' = [meanwhile EXCEPT ![p] = mw],
         CacheTrue', UNCHANGED <<conf, lockfile, tip, newest>>,
         place # "idle" => AtWork(place, j, OnDisk(j.space), m, g, mw)
  PROVE  LockInv'
<1>1. /\ pc' \in [Locker -> LockPlaces] /\ pc'[p] = place
      /\ job'[p] = j /\ got'[p] = g /\ mem'[p] = m /\ meanwhile'[p] = mw
      /\ job' = [q \in Locker |-> job'[q]] /\ got' = [q \in Locker |-> got'[q]]
      /\ mem' = [q \in Locker |-> mem'[q]] /\ meanwhile' = [q \in Locker |-> meanwhile'[q]]
  BY DEF LockInv, LockTypes
<1>2. \A q \in Locker : q # p =>
        /\ pc'[q] = pc[q] /\ job'[q] = job[q] /\ got'[q] = got[q] /\ mem'[q] = mem[q]
        /\ meanwhile'[q] = meanwhile[q]
  BY DEF LockInv, LockTypes
<1>3. LockTypes'
  <2>1. \A q \in Locker : IsRows(mem'[q])  BY <1>1, <1>2 DEF LockInv, LockTypes
  <2>2. \A w \in Space : lockfile'[w] # NoFile => IsRows(lockfile'[w])  BY DEF LockInv, LockTypes
  <2> QED BY <1>1, <2>1, <2>2 DEF LockInv, LockTypes
<1>4. \A w : OnDisk(w)' = OnDisk(w)  BY DEF OnDisk
<1>5. ASSUME NEW q \in Locker, pc'[q] # "idle" PROVE Works(q)'
  <2>1. CASE q = p  BY <1>1, <1>4, <1>5, <2>1 DEF Works
  <2>2. CASE q # p  BY <1>2, <1>4, <1>5, <2>2 DEF Works, LockInv
  <2> QED BY <2>1, <2>2
<1> QED BY <1>3, <1>5 DEF LockInv

\* Nothing is written: no row changes.
LEMMA NothingChanges == ASSUME UNCHANGED lockfile PROVE \A w \in Space : RowsKept(w)
BY DEF RowsKept

\* A step of p that writes rows, which it put together from what it read.
LEMMA WritesOver ==
  ASSUME LockInv, NEW p \in Locker, pc[p] # "idle", NEW rows, IsRows(rows),
         Write(p, rows) \/ Replace(p, rows),
         NEW place \in LockPlaces, pc' = [pc EXCEPT ![p] = place],
         NEW g, got' = [got EXCEPT ![p] = g],
         UNCHANGED <<conf, cache, tip, newest, job, mem>>,
         Differing(mem[p], OnDisk(job[p].space)) \subseteq meanwhile[p],
         AtWork(place, job[p], rows, mem[p], g, meanwhile[p])
  PROVE  LockInv'
<1> DEFINE w == job[p].space
<1>1. w \in Space  BY AtWorkNow
<1>2. CacheTrue'  BY DEF LockInv, LockTypes, CacheTrue
<1>3. CASE rows = mem[p] /\ UNCHANGED <<lockfile, meanwhile>>
  <2>1. AtWork(place, job[p], OnDisk(w), mem[p], g, meanwhile[p])  BY <1>3, WorkStands
  <2>2. /\ job' = [job EXCEPT ![p] = job[p]] /\ mem' = [mem EXCEPT ![p] = mem[p]]
        /\ meanwhile' = [meanwhile EXCEPT ![p] = meanwhile[p]] /\ IsRows(mem[p])
    BY <1>3 DEF LockInv, LockTypes
  <2> QED BY <1>2, <1>3, <2>1, <2>2, Reads
<1>4. CASE Replace(p, rows)
  <2>1. /\ pc' \in [Locker -> LockPlaces] /\ pc'[p] = place /\ got'[p] = g
        /\ got' = [q \in Locker |-> got'[q]]
        /\ \A q \in Locker : q # p => pc'[q] = pc[q] /\ got'[q] = got[q]
    BY DEF LockInv, LockTypes
  <2>2. /\ lockfile' = [v \in Space |-> lockfile'[v]] /\ lockfile'[w] = rows
        /\ \A v \in Space : v # w => lockfile'[v] = lockfile[v]
    BY <1>1, <1>4 DEF LockInv, LockTypes, Replace
  <2>3. /\ meanwhile' = [q \in Locker |-> meanwhile'[q]]
        /\ \A q \in Locker :
             meanwhile'[q] = IF q # p /\ pc[q] # "idle" /\ job[q].space = w
                             THEN meanwhile[q] \cup Differing(OnDisk(w), rows) ELSE meanwhile[q]
    BY <1>4 DEF Replace
  <2>4. LockTypes'
    <3>1. \A v \in Space : lockfile'[v] # NoFile => IsRows(lockfile'[v])
      BY <2>2 DEF LockInv, LockTypes
    <3>2. \A q \in Locker : IsRows(mem'[q])  BY DEF LockInv, LockTypes
    <3> QED BY <1>2, <2>1, <2>2, <2>3, <3>1, <3>2 DEF LockInv, LockTypes
  <2>5. OnDisk(w)' = rows /\ \A v \in Space : v # w => OnDisk(v)' = OnDisk(v)
    BY <2>2, RowsAreAFile DEF OnDisk
  <2>6. ASSUME NEW q \in Locker, pc'[q] # "idle" PROVE Works(q)'
    <3>1. CASE q = p  BY <2>1, <2>3, <2>5, <3>1 DEF Works
    <3>2. CASE q # p
      <4>1. /\ pc'[q] = pc[q] /\ got'[q] = got[q] /\ job'[q] = job[q] /\ mem'[q] = mem[q]
            /\ pc[q] # "idle"
        BY <2>1, <2>6, <3>2
      <4>2. job[q].space \in Space /\ Works(q)  BY <4>1, AtWorkNow
      <4>3. CASE job[q].space = w
        <5>1. AtWork(pc[q], job[q], OnDisk(w), mem[q], got[q], meanwhile[q])
          BY <4>2, <4>3 DEF Works
        <5>2. meanwhile'[q] = meanwhile[q] \cup Differing(OnDisk(w), rows)
          BY <2>3, <3>2, <4>1, <4>3
        <5>3. AtWork(pc[q], job[q], rows, mem[q], got[q], meanwhile'[q])
          BY <5>1, <5>2, WorkStands
        <5> QED BY <2>5, <4>1, <4>3, <5>3 DEF Works
      <4>4. CASE job[q].space # w
        <5>1. meanwhile'[q] = meanwhile[q]  BY <2>3, <4>4
        <5> QED BY <2>5, <4>1, <4>2, <4>4, <5>1 DEF Works
      <4> QED BY <4>3, <4>4
    <3> QED BY <3>1, <3>2
  <2> QED BY <2>4, <2>6 DEF LockInv
<1> QED BY <1>3, <1>4 DEF Write

LEMMA RowsStay ==
  ASSUME LockInv, NEW p \in Locker, pc[p] # "idle", pc'[p] # pc[p], NEW rows,
         Write(p, rows) \/ Replace(p, rows),
         \A x \in DOMAIN OnDisk(job[p].space) :
           \/ x \in meanwhile[p]
           \/ x \in DOMAIN rows /\ (rows[x] = OnDisk(job[p].space)[x] \/ MayChange(p, x))
  PROVE  \A w \in Space : RowsKept(w)
<1> SUFFICES ASSUME NEW w \in Space, lockfile'[w] # lockfile[w], lockfile[w] # NoFile
             PROVE  ActsIn(p, w) /\ \A x \in DOMAIN lockfile[w] :
                      \/ x \in meanwhile[p]
                      \/ /\ x \in DOMAIN lockfile'[w]
                         /\ lockfile'[w][x] = lockfile[w][x] \/ MayChange(p, x)
  BY DEF RowsKept
<1>1. lockfile' = [lockfile EXCEPT ![job[p].space] = rows]  BY DEF Write, Replace
<1>2. w = job[p].space /\ lockfile'[w] = rows  BY <1>1 DEF LockInv, LockTypes
<1>3. OnDisk(job[p].space) = lockfile[w]  BY <1>2 DEF OnDisk
<1> QED BY <1>2, <1>3 DEF ActsIn

-----------------------------------------------------------------------------
(* Every step.                                                             *)

Kept == LockInv' /\ \A w \in Space : RowsKept(w)
World4 == <<conf, lockfile, cache, tip, newest>>

LEMMA StartKeeps ==
  ASSUME LockInv, NEW p \in Locker, NEW j \in LockJobs \cup ToolJobs, Start(p, j),
         UNCHANGED World4
  PROVE  Kept
<1>1. AtWork("ensure", j, OnDisk(j.space), NoRows, NoRows, {})
  BY DEF AtWork, Refreshing, Resolving
<1>2. CacheTrue'  BY DEF LockInv, LockTypes, CacheTrue, World4
<1>3. pc' = [pc EXCEPT ![p] = "ensure"]  BY DEF Start, Goto
<1>4. "ensure" \in LockPlaces  BY DEF LockPlaces
<1>5. LockInv'  BY <1>1, <1>2, <1>3, <1>4, NoRowsAreRows, Reads DEF Start, World4
<1> QED BY <1>5, NothingChanges DEF Kept, World4

LEMMA ToolJobIs ==
  ASSUME LockInv, NEW w \in Space, NEW t \in Tool, NEW from \in Space, NEW again \in BOOLEAN
  PROVE  ToolJob(w, t, from, again) \in ToolJobs
<1>1. FindTool(w, t) \in Nat \cup {Latest, None}
  BY LocksAssumption DEF LockInv, LockTypes, FindTool
<1> QED BY <1>1 DEF ToolJob, ToolJobs

LEMMA BeginLocksKeeps ==
  ASSUME LockInv, NEW p \in Locker, NEW w \in Space, BeginLocks(p, w) PROVE Kept
<1>1. PICK k \in {"modlock", "refresh"}, fresh \in BOOLEAN :
        Start(p, [kind |-> k, space |-> w, asks |-> conf[w], noCache |-> fresh])
  BY DEF BeginLocks
<1>2. [kind |-> k, space |-> w, asks |-> conf[w], noCache |-> fresh] \in LockJobs
  BY DEF LockJobs, LockInv, LockTypes
<1>3. UNCHANGED World4  BY DEF BeginLocks, World4, Upstream
<1> QED BY <1>1, <1>2, <1>3, StartKeeps

LEMMA BeginToolKeeps ==
  ASSUME LockInv, NEW p \in Locker, NEW w \in Space, NEW t \in Tool, NEW again \in BOOLEAN,
         BeginTool(p, w, t, again)
  PROVE  Kept
<1>1. UNCHANGED World4 /\ Start(p, ToolJob(w, t, w, again))  BY DEF BeginTool, World4, Upstream
<1>2. ToolJob(w, t, w, again) \in ToolJobs  BY ToolJobIs
<1> QED BY <1>1, <1>2, StartKeeps

\* The process moves on with what it has.
LEMMA MovesOn ==
  ASSUME LockInv, NEW p \in Locker, NEW place \in LockPlaces, Goto(p, place),
         UNCHANGED World4, UNCHANGED <<job, mem, got, meanwhile>>,
         AtWork(place, job[p], OnDisk(job[p].space), mem[p], got[p], meanwhile[p])
  PROVE  Kept
<1>1. /\ job' = [job EXCEPT ![p] = job[p]] /\ mem' = [mem EXCEPT ![p] = mem[p]]
      /\ got' = [got EXCEPT ![p] = got[p]] /\ meanwhile' = [meanwhile EXCEPT ![p] = meanwhile[p]]
      /\ IsRows(mem[p])
  BY DEF LockInv, LockTypes
<1>2. CacheTrue'  BY DEF LockInv, LockTypes, CacheTrue, World4
<1>3. pc' = [pc EXCEPT ![p] = place] /\ UNCHANGED <<conf, lockfile, tip, newest>>  BY DEF Goto, World4
<1>4. LockInv'  BY <1>1, <1>2, <1>3, Reads
<1> QED BY <1>4, NothingChanges DEF Kept, World4

LEMMA FailKeeps ==
  ASSUME LockInv, NEW p \in Locker, pc[p] # "idle", Fail(p), UNCHANGED World4
  PROVE  Kept
<1>1. job[p] \in LockJobs \cup ToolJobs  BY AtWorkNow
<1>2. CASE Goto(p, "failed") /\ UNCHANGED <<job, mem, got, meanwhile>>
  <2>1. AtWork("failed", job[p], OnDisk(job[p].space), mem[p], got[p], meanwhile[p])
    BY <1>1 DEF AtWork, Refreshing, Resolving
  <2>2. "failed" \in LockPlaces  BY DEF LockPlaces
  <2> QED BY <1>2, <2>1, <2>2, MovesOn
<1>3. CASE job[p].kind = "tool" /\ ~(Goto(p, "failed") /\ UNCHANGED <<job, mem, got, meanwhile>>)
  <2>1. job[p] \in ToolJobs  BY <1>1, <1>3 DEF LockJobs
  <2>2. job[p].tool \in Tool /\ job[p].from \in Space /\ job[p].again \in BOOLEAN /\ Home \in Space
    BY <2>1, LocksAssumption DEF ToolJobs
  <2>3. /\ ToolJob(Home, job[p].tool, job[p].from, job[p].again) \in ToolJobs
        /\ ToolJob(job[p].from, job[p].tool, job[p].from, FALSE) \in ToolJobs
    BY <2>2, ToolJobIs
  <2>4. \/ Start(p, ToolJob(Home, job[p].tool, job[p].from, job[p].again))
        \/ Start(p, ToolJob(job[p].from, job[p].tool, job[p].from, FALSE))
    BY <1>3 DEF Fail
  <2> QED BY <2>3, <2>4, StartKeeps
<1> QED BY <1>2, <1>3 DEF Fail

LEMMA ReadFailsKeeps == ASSUME LockInv, NEW p \in Locker, ReadFails(p) PROVE Kept
<1>1. pc[p] # "idle" /\ Fail(p) /\ UNCHANGED World4  BY DEF ReadFails, World4, Upstream
<1> QED BY <1>1, FailKeeps

LEMMA HashRefusedKeeps ==
  ASSUME LockInv, NEW p \in Locker, NEW s \in Source, HashRefused(p, s) PROVE Kept
<1>1. pc[p] # "idle" /\ Fail(p) /\ UNCHANGED World4  BY DEF HashRefused, World4, Upstream
<1> QED BY <1>1, FailKeeps

LEMMA LeaveKeeps ==
  ASSUME LockInv, NEW p \in Locker, Crashes(p) \/ Return(p) PROVE Kept
<1>1. /\ pc' = [pc EXCEPT ![p] = "idle"] /\ job' = [job EXCEPT ![p] = NoJob]
      /\ mem' = [mem EXCEPT ![p] = NoRows] /\ got' = [got EXCEPT ![p] = NoRows]
      /\ meanwhile' = [meanwhile EXCEPT ![p] = {}]
      /\ UNCHANGED <<conf, lockfile, tip, newest>> /\ UNCHANGED cache
  BY DEF Crashes, Return, Goto, Upstream
<1>2. CacheTrue'  BY <1>1 DEF LockInv, LockTypes, CacheTrue
<1>3. "idle" \in LockPlaces  BY DEF LockPlaces
<1>4. LockInv'  BY <1>1, <1>2, <1>3, NoRowsAreRows, Reads
<1> QED BY <1>1, <1>4, NothingChanges DEF Kept

LEMMA EnsureKeeps == ASSUME LockInv, NEW p \in Locker, Ensure(p) PROVE Kept
<1>1. PICK place \in {"create", "read"} : Goto(p, place)  BY DEF Ensure
<1>2. UNCHANGED World4 /\ UNCHANGED <<job, mem, got, meanwhile>>  BY DEF Ensure, World4, Upstream
<1>3. job[p] \in LockJobs \cup ToolJobs  BY AtWorkNow DEF Ensure
<1>4. place \in LockPlaces /\ place \in {"create", "read"}  BY DEF LockPlaces
<1>5. AtWork(place, job[p], OnDisk(job[p].space), mem[p], got[p], meanwhile[p])
  BY <1>3, <1>4 DEF AtWork, Refreshing, Resolving
<1> QED BY <1>1, <1>2, <1>4, <1>5, MovesOn

\* The lock is loaded again, and what was resolved stays or is replaced by g.
LEMMA Loads ==
  ASSUME LockInv, NEW p \in Locker, pc[p] # "idle",
         NEW place \in LockPlaces, Goto(p, place), LoadInto(p),
         NEW g, got' = [got EXCEPT ![p] = g], NEW mw, meanwhile' = [meanwhile EXCEPT ![p] = mw],
         UNCHANGED World4, UNCHANGED job,
         AtWork(place, job[p], OnDisk(job[p].space), OnDisk(job[p].space), g, mw)
  PROVE  Kept
<1>1. job' = [job EXCEPT ![p] = job[p]] /\ IsRows(OnDisk(job[p].space))
  BY AtWorkNow DEF LockInv, LockTypes
<1>2. CacheTrue'  BY DEF LockInv, LockTypes, CacheTrue, World4
<1>3. /\ pc' = [pc EXCEPT ![p] = place] /\ UNCHANGED <<conf, lockfile, tip, newest>>
      /\ mem' = [mem EXCEPT ![p] = OnDisk(job[p].space)]
  BY DEF Goto, World4, LoadInto
<1>4. LockInv'  BY <1>1, <1>2, <1>3, Reads
<1> QED BY <1>4, NothingChanges DEF Kept, World4

LEMMA CreateKeeps == ASSUME LockInv, NEW p \in Locker, CreateLockFile(p) PROVE Kept
<1> DEFINE d == OnDisk(job[p].space)
<1>1. PICK place : Goto(p, place) /\ place = IF d = NoRows THEN "empty" ELSE "read"
  BY DEF CreateLockFile
<1>2. /\ UNCHANGED World4 /\ UNCHANGED job /\ LoadInto(p)
      /\ meanwhile' = [meanwhile EXCEPT ![p] = {}]
  BY DEF CreateLockFile, World4, Upstream
<1>3. job[p] \in LockJobs \cup ToolJobs /\ pc[p] # "idle"  BY AtWorkNow DEF CreateLockFile
<1>4. place \in LockPlaces  BY <1>1 DEF LockPlaces
<1>5. AtWork(place, job[p], d, d, got[p], {})
  BY <1>1, <1>3, NothingDiffers DEF AtWork, Refreshing, Resolving
<1>6. got' = [got EXCEPT ![p] = got[p]]  BY DEF CreateLockFile, LockInv, LockTypes
<1> QED BY <1>1, <1>2, <1>3, <1>4, <1>5, <1>6, Loads

LEMMA WriteEmptyKeeps == ASSUME LockInv, NEW p \in Locker, WriteEmpty(p) PROVE Kept
<1> DEFINE d == OnDisk(job[p].space)
<1>1. /\ pc[p] = "empty" /\ job[p] \in LockJobs \cup ToolJobs /\ mem[p] = NoRows
      /\ Differing(NoRows, d) \subseteq meanwhile[p]
  BY AtWorkNow DEF WriteEmpty, AtWork, Works
<1>2. Replace(p, NoRows)  BY DEF WriteEmpty
<1>3. AtWork("read", job[p], NoRows, mem[p], got[p], meanwhile[p])
  BY <1>1 DEF AtWork, Refreshing, Resolving
<1>4. /\ pc' = [pc EXCEPT ![p] = "read"] /\ got' = [got EXCEPT ![p] = got[p]]
      /\ UNCHANGED <<conf, cache, tip, newest, job, mem>>
  BY DEF WriteEmpty, Goto, Upstream, LockInv, LockTypes
<1>5. "read" \in LockPlaces /\ pc'[p] # pc[p]  BY <1>1, <1>4 DEF LockPlaces, LockInv, LockTypes
<1>6. LockInv'  BY <1>1, <1>2, <1>3, <1>4, <1>5, NoRowsAreRows, WritesOver
<1>7. \A x \in DOMAIN d : x \in meanwhile[p]  BY <1>1, NoRowsAreRows DEF Differing
<1>8. \A w \in Space : RowsKept(w)  BY <1>1, <1>2, <1>5, <1>7, RowsStay
<1> QED BY <1>6, <1>8 DEF Kept

LEMMA ReadPinsKeeps == ASSUME LockInv, NEW p \in Locker, ReadPins(p) PROVE Kept
<1> DEFINE d == OnDisk(job[p].space)
           kept == {s \in Sources(p) : job[p].kind = "refresh" /\ Pinned(d, s, AskedBy(p)[s])}
           g == [s \in kept |-> d[RepoOf[s]]]
<1>1. /\ UNCHANGED World4 /\ UNCHANGED job /\ LoadInto(p) /\ Goto(p, "hash") /\ pc[p] # "idle"
      /\ got' = [got EXCEPT ![p] = g] /\ meanwhile' = [meanwhile EXCEPT ![p] = {}]
  BY DEF ReadPins, World4, Upstream
<1>2. job[p] \in LockJobs /\ IsRows(d)  BY AtWorkNow DEF ReadPins, ToolJobs
<1>3. DOMAIN g \subseteq Inputs(job[p])  BY DEF Sources, AskedBy, Inputs
<1>4. ASSUME NEW s \in DOMAIN g
      PROVE  RepoOf[s] \in Repo /\ g[s] \in SourceRow /\ Serves(g[s], job[p].asks[s])
  <2>1. /\ s \in Source /\ RepoOf[s] \in DOMAIN d /\ g[s] = d[RepoOf[s]]
        /\ Reusable(d[RepoOf[s]]) /\ Matches(job[p].asks[s], d[RepoOf[s]])
    BY DEF Sources, AskedBy, Pinned
  <2>2. RepoOf[s] \in Repo  BY <1>2, <2>1, LocksAssumption DEF IsRows
  <2> QED BY <1>2, <2>1, <2>2 DEF IsRows, Serves
<1>5. job[p].kind = "refresh" =>
        \A s \in Inputs(job[p]) : Pinned(d, s, job[p].asks[s]) => s \in DOMAIN g /\ g[s] = d[RepoOf[s]]
  BY DEF Inputs, Sources, AskedBy
<1>6. Hashing(job[p], d, g, {})  BY <1>2, <1>3, <1>4, <1>5 DEF Hashing
<1>7. job[p].kind # "tool"  BY <1>2 DEF LockJobs
<1> HIDE DEF g, d
<1>8. AtWork("hash", job[p], d, d, g, {})  BY <1>2, <1>6, <1>7 DEF AtWork, Refreshing
<1>9. "hash" \in LockPlaces  BY DEF LockPlaces
<1> QED BY <1>1, <1>8, <1>9, Loads DEF d

\* What a fetch brings is pinned, follows a branch and is what was asked for.
LEMMA FetchServes ==
  ASSUME LockInv, NEW p \in Locker, job[p] \in LockJobs, NEW s \in Inputs(job[p]), RepoOf[s] # None
  PROVE  /\ RepoOf[s] \in Repo /\ EnsureSource(p, s) \in Commit
         /\ AskedBy(p)[s] \in Commit => EnsureSource(p, s) = AskedBy(p)[s]
         /\ LockHash(p, s) \in SourceRow /\ Serves(LockHash(p, s), job[p].asks[s])
<1> DEFINE ref == AskedBy(p)[s]
<1>1. ref \in Branch \cup Commit \cup {HEAD} /\ s \in Source /\ ref = job[p].asks[s]
  BY LocksAssumption DEF LockJobs, Inputs, AskedBy
<1>2. RepoOf[s] \in Repo  BY <1>1, LocksAssumption
<1>3. Followed(ref) \in Branch /\ (ref \in Branch => Followed(ref) = ref)
  BY LocksAssumption DEF Followed
<1>4. Fetched(RepoOf[s], ref) \in Commit /\ (ref \in Commit => Fetched(RepoOf[s], ref) = ref)
  BY <1>1, <1>2, LocksAssumption DEF Fetched, LockInv, LockTypes
<1>5. EnsureSource(p, s) \in Commit /\ (ref \in Commit => EnsureSource(p, s) = ref)
  <2>1. CacheKey(p, s)[2] = ref  BY DEF CacheKey
  <2>2. CacheKey(p, s) \in DOMAIN cache =>
          cache[CacheKey(p, s)] \in Commit /\ (ref \in Commit => cache[CacheKey(p, s)] = ref)
    BY <2>1 DEF LockInv, LockTypes, CacheTrue
  <2> QED BY <1>4, <2>2 DEF EnsureSource
<1>6. /\ LockHash(p, s) \in SourceRow /\ LockHash(p, s).track = Followed(ref)
      /\ LockHash(p, s).pin = EnsureSource(p, s)
  BY <1>3, <1>5 DEF LockHash, SourceRow, Row
<1>7. Serves(LockHash(p, s), ref)
  BY <1>1, <1>3, <1>5, <1>6, LocksAssumption DEF Serves, Reusable, Matches
<1> QED BY <1>1, <1>2, <1>5, <1>6, <1>7

LEMMA HashOneKeeps ==
  ASSUME LockInv, NEW p \in Locker, NEW s \in Source, HashOne(p, s) PROVE Kept
<1> DEFINE d == OnDisk(job[p].space)
           g == With(got[p], s, LockHash(p, s))
           mw == meanwhile[p]
<1>1. /\ pc[p] = "hash" /\ s \in Sources(p) /\ s \notin DOMAIN got[p] /\ RepoOf[s] # None
      /\ cache' = With(cache, CacheKey(p, s), EnsureSource(p, s))
      /\ UNCHANGED <<conf, lockfile, tip, newest, pc, job, mem, meanwhile>>
      /\ got' = [got EXCEPT ![p] = g]
  BY DEF HashOne, Upstream
<1>2. Hashing(job[p], d, got[p], mw)  BY <1>1, AtWorkNow DEF AtWork, Works
<1>3. job[p] \in LockJobs /\ s \in Inputs(job[p])  BY <1>1, <1>2 DEF Hashing, Sources, AskedBy, Inputs
<1>4. /\ RepoOf[s] \in Repo /\ EnsureSource(p, s) \in Commit
      /\ AskedBy(p)[s] \in Commit => EnsureSource(p, s) = AskedBy(p)[s]
      /\ LockHash(p, s) \in SourceRow /\ Serves(LockHash(p, s), job[p].asks[s])
  BY <1>1, <1>3, FetchServes
<1>5. CacheTrue'
  <2>1. CacheTrue /\ CacheKey(p, s)[2] = AskedBy(p)[s]  BY DEF LockInv, LockTypes, CacheKey
  <2> HIDE DEF CacheKey
  <2>2. /\ DOMAIN cache' = DOMAIN cache \cup {CacheKey(p, s)}
        /\ cache'[CacheKey(p, s)] = EnsureSource(p, s)
        /\ \A k \in DOMAIN cache : k # CacheKey(p, s) => cache'[k] = cache[k]
    BY <1>1 DEF With
  <2> QED BY <1>4, <2>1, <2>2 DEF CacheTrue
<1>6. /\ DOMAIN g = DOMAIN got[p] \cup {s} /\ g[s] = LockHash(p, s)
      /\ \A u \in DOMAIN got[p] : u # s => g[u] = got[p][u]
  BY DEF With
<1> HIDE DEF g
<1>7. Hashing(job[p], d, g, mw)  BY <1>1, <1>2, <1>3, <1>4, <1>6 DEF Hashing
<1>8. job[p].kind # "tool"  BY <1>3 DEF LockJobs
<1>9. AtWork("hash", job[p], d, mem[p], g, mw)  BY <1>3, <1>7, <1>8 DEF AtWork, Refreshing
<1>10. /\ "hash" \in LockPlaces /\ pc' = [pc EXCEPT ![p] = "hash"] /\ IsRows(mem[p])
       /\ job' = [job EXCEPT ![p] = job[p]] /\ mem' = [mem EXCEPT ![p] = mem[p]]
       /\ meanwhile' = [meanwhile EXCEPT ![p] = mw]
  BY <1>1 DEF LockPlaces, LockInv, LockTypes
<1>11. LockInv'  BY <1>1, <1>5, <1>9, <1>10, Reads
<1> QED BY <1>1, <1>11, NothingChanges DEF Kept

LEMMA LoadForSourcesKeeps ==
  ASSUME LockInv, NEW p \in Locker, LoadForSources(p) PROVE Kept
<1> DEFINE d == OnDisk(job[p].space)
           mw == meanwhile[p]
<1>1. /\ UNCHANGED World4 /\ UNCHANGED job /\ LoadInto(p) /\ Goto(p, "putsources") /\ pc[p] = "hash"
      /\ got' = [got EXCEPT ![p] = got[p]] /\ DOMAIN got[p] = Inputs(job[p])
      /\ meanwhile' = [meanwhile EXCEPT ![p] = mw]
  BY DEF LoadForSources, World4, Upstream, LockInv, LockTypes, Sources, AskedBy, Inputs
<1>2. Hashing(job[p], d, got[p], mw)  BY <1>1, AtWorkNow DEF AtWork, Works
<1>3. job[p] \in LockJobs /\ job[p].kind # "tool"  BY <1>2 DEF Hashing, LockJobs
<1>4. AtWork("putsources", job[p], d, d, got[p], mw)
  BY <1>1, <1>2, <1>3, NothingDiffers DEF AtWork, Refreshing
<1>5. "putsources" \in LockPlaces  BY DEF LockPlaces
<1> QED BY <1>1, <1>4, <1>5, Loads

\* The rows of the inputs take the place of those that were read.
LEMMA MergedIs ==
  ASSUME NEW rows, IsRows(rows), NEW g,
         \A s \in DOMAIN g : RepoOf[s] \in Repo /\ g[s] \in SourceRow,
         NEW all \in Merged(rows, g)
  PROVE  /\ IsRows(all) /\ DOMAIN rows \subseteq DOMAIN all
         /\ \A x \in DOMAIN rows : all[x] = rows[x] \/ \E s \in DOMAIN g : RepoOf[s] = x /\ all[x] = g[s]
         /\ \A s \in DOMAIN g :
              RepoOf[s] \in DOMAIN all /\ \E u \in DOMAIN g : RepoOf[u] = RepoOf[s] /\ all[RepoOf[s]] = g[u]
<1> DEFINE touched == {RepoOf[s] : s \in DOMAIN g}
<1>1. PICK f \in [touched -> DOMAIN g] :
        /\ \A r \in touched : RepoOf[f[r]] = r
        /\ all = [r \in touched \cup DOMAIN rows |-> IF r \in touched THEN g[f[r]] ELSE rows[r]]
  BY DEF Merged
<1>2. touched \subseteq Repo /\ \A s \in DOMAIN g : g[s] \in SourceRow  OBVIOUS
<1>3. /\ DOMAIN all = touched \cup DOMAIN rows
      /\ \A r \in touched : all[r] = g[f[r]] /\ f[r] \in DOMAIN g /\ RepoOf[f[r]] = r
      /\ \A r \in DOMAIN rows \ touched : all[r] = rows[r]
      /\ all = [x \in DOMAIN all |-> all[x]]
  BY <1>1
<1>4. IsRows(all)
  <2>1. DOMAIN all \subseteq Repo \cup Tool  BY <1>2, <1>3 DEF IsRows
  <2>2. ASSUME NEW r \in Repo \cap DOMAIN all PROVE all[r] \in SourceRow  BY <1>2, <1>3 DEF IsRows
  <2>3. ASSUME NEW t \in Tool \cap DOMAIN all PROVE all[t] \in Nat
    BY <1>2, <1>3, LocksAssumption DEF IsRows
  <2> QED BY <1>3, <2>1, <2>2, <2>3 DEF IsRows
<1>5. \A s \in DOMAIN g : RepoOf[s] \in touched  OBVIOUS
<1> HIDE DEF touched
<1> QED BY <1>3, <1>4, <1>5

LEMMA PutSourcesKeeps == ASSUME LockInv, NEW p \in Locker, PutSources(p) PROVE Kept
<1> DEFINE d == OnDisk(job[p].space)
           j == job[p]
           g == got[p]
           mw == meanwhile[p]
<1>1. pc[p] = "putsources" /\ AtWork(pc[p], j, d, mem[p], g, mw) /\ IsRows(mem[p])
  BY AtWorkNow DEF PutSources, Works, LockInv, LockTypes
<1>2. /\ Differing(mem[p], d) \subseteq mw /\ Hashing(j, d, g, mw) /\ DOMAIN g = Inputs(j)
      /\ j \in LockJobs /\ j.kind \in {"modlock", "refresh"} /\ j.space \in Space
  BY <1>1 DEF AtWork, Hashing, LockJobs
<1>3. PICK all \in Merged(mem[p], g) : Write(p, all)  BY DEF PutSources
<1>4. \A s \in DOMAIN g : RepoOf[s] \in Repo /\ g[s] \in SourceRow  BY <1>2 DEF Hashing
<1>5. /\ IsRows(all) /\ DOMAIN mem[p] \subseteq DOMAIN all
      /\ \A x \in DOMAIN mem[p] :
           all[x] = mem[p][x] \/ \E s \in DOMAIN g : RepoOf[s] = x /\ all[x] = g[s]
      /\ \A s \in DOMAIN g :
           RepoOf[s] \in DOMAIN all /\ \E u \in DOMAIN g : RepoOf[u] = RepoOf[s] /\ all[RepoOf[s]] = g[u]
  BY <1>1, <1>4, MergedIs
<1>6. /\ pc' = [pc EXCEPT ![p] = IF j.kind = "refresh" THEN "scan" ELSE "done"]
      /\ got' = [got EXCEPT ![p] = g] /\ UNCHANGED <<conf, cache, tip, newest, job, mem>>
  BY DEF PutSources, Goto, Upstream, LockInv, LockTypes
<1> DEFINE place == IF j.kind = "refresh" THEN "scan" ELSE "done"
<1>7. Refreshed(j, all, mw)
  <2> SUFFICES ASSUME OneInputPerRepo, NEW s \in Inputs(j) PROVE Pinned(all, s, j.asks[s])
    BY DEF Refreshed
  <2>1. PICK u \in DOMAIN g : RepoOf[u] = RepoOf[s] /\ all[RepoOf[s]] = g[u] /\ RepoOf[s] \in DOMAIN all
    BY <1>2, <1>5
  <2>2. u \in Source /\ s \in Source /\ RepoOf[s] \in Repo  BY <1>2, <2>1 DEF Inputs, Hashing
  <2>3. u = s  BY <2>1, <2>2 DEF OneInputPerRepo
  <2> QED BY <1>2, <2>1, <2>3 DEF Hashing, Serves, Pinned
<1>8. AtWork(place, j, all, mem[p], g, mw)
  BY <1>2, <1>7 DEF AtWork, Refreshing, LockJobs
<1>9. place \in LockPlaces /\ pc[p] # "idle" /\ pc'[p] # pc[p]
  BY <1>1, <1>6 DEF LockPlaces, LockInv, LockTypes
<1>10. LockInv'  BY <1>2, <1>3, <1>5, <1>6, <1>8, <1>9, WritesOver
<1>11. ASSUME NEW x \in DOMAIN d, x \notin mw
       PROVE  x \in DOMAIN all /\ (all[x] = d[x] \/ MayChange(p, x))
  <2>1. x \in DOMAIN mem[p] /\ mem[p][x] = d[x]  BY <1>2, <1>11, SameRow
  <2>2. ASSUME NEW s \in DOMAIN g, RepoOf[s] = x, all[x] = g[s], all[x] # d[x] PROVE MayChange(p, x)
    <3>1. s \in Inputs(j) /\ s \in Source /\ j.asks[s] # None  BY <1>2 DEF Inputs
    <3>2. CASE j.kind = "modlock"  BY <2>2, <3>1, <3>2 DEF MayChange
    <3>3. CASE j.kind = "refresh"
      <4>1. ~Pinned(d, s, j.asks[s])  BY <1>2, <1>11, <2>2, <3>1, <3>3 DEF Hashing
      <4>2. d = lockfile[j.space]  BY DEF OnDisk, NoRows
      <4> QED BY <2>2, <3>1, <3>3, <4>1, <4>2 DEF MayChange, AskedBy
    <3> QED BY <1>2, <3>2, <3>3
  <2> QED BY <1>5, <2>1, <2>2
<1>12. \A w \in Space : RowsKept(w)  BY <1>3, <1>9, <1>11, RowsStay
<1> QED BY <1>10, <1>12 DEF Kept

LEMMA ScanKeeps == ASSUME LockInv, NEW p \in Locker, Scan(p) PROVE Kept
<1> DEFINE d == OnDisk(job[p].space)
           j == job[p]
           mw == meanwhile[p]
<1>1. PICK place : /\ place = IF LazyTools(j) \ DOMAIN d = {} THEN "done" ELSE "latest"
                /\ Goto(p, place)
  BY DEF Scan, AskedBy, LazyTools
<1>2. /\ pc[p] = "scan" /\ LoadInto(p) /\ UNCHANGED World4 /\ UNCHANGED job
      /\ got' = [got EXCEPT ![p] = NoRows] /\ meanwhile' = [meanwhile EXCEPT ![p] = mw]
  BY DEF Scan, World4, Upstream, LockInv, LockTypes
<1>3. AtWork("scan", j, d, mem[p], got[p], mw)  BY <1>2, AtWorkNow DEF Works
<1>4. j \in LockJobs \cup ToolJobs /\ j.kind = "refresh" /\ Refreshed(j, d, mw)
  BY <1>3 DEF AtWork, Refreshing
<1>5. Versions(j, d, NoRows, mw)  BY NoRowsAreRows DEF Versions
<1>6. place = "done" => LazyTools(j) \subseteq DOMAIN d  BY <1>1
<1>7. place \in {"done", "latest"} /\ place \in LockPlaces  BY <1>1 DEF LockPlaces
<1>8. AtWork(place, j, d, d, NoRows, mw)
  BY <1>4, <1>5, <1>6, <1>7, NothingDiffers DEF AtWork, Refreshing
<1> QED BY <1>1, <1>2, <1>7, <1>8, Loads

LEMMA LatestOneKeeps ==
  ASSUME LockInv, NEW p \in Locker, NEW t \in Tool, LatestOne(p, t) PROVE Kept
<1> DEFINE d == OnDisk(job[p].space)
           j == job[p]
           mw == meanwhile[p]
           v == VersionOf(AskedBy(p)[t], t)
           g == With(got[p], t, v)
<1>1. /\ pc[p] = "latest" /\ t \in NeedsWork(p) /\ got' = [got EXCEPT ![p] = g]
      /\ UNCHANGED <<conf, lockfile, tip, newest, cache, pc, job, mem, meanwhile>>
  BY DEF LatestOne, Upstream
<1>2. AtWork("latest", j, d, mem[p], got[p], mw)  BY <1>1, AtWorkNow DEF Works
<1>3. /\ j \in LockJobs \cup ToolJobs /\ j.kind = "refresh" /\ Refreshed(j, d, mw)
      /\ Versions(j, d, got[p], mw) /\ Differing(mem[p], d) \subseteq mw
  BY <1>2 DEF AtWork, Refreshing
<1>4. t \in LazyTools(j) /\ (t \in mw \/ t \notin DOMAIN d)
  BY <1>1, <1>3, SameRow DEF NeedsWork, AskedBy, LazyTools
<1>5. v \in Nat
  <2>1. j \in LockJobs  BY <1>3 DEF ToolJobs
  <2>2. j.asks[t] \in Nat \cup {Latest}  BY <1>4, <2>1, LocksAssumption DEF LockJobs, LazyTools
  <2>3. newest[t] \in Nat  BY DEF LockInv, LockTypes
  <2> QED BY <2>2, <2>3 DEF VersionOf, AskedBy
<1>6. /\ DOMAIN g = DOMAIN got[p] \cup {t} /\ g[t] = v
      /\ \A u \in DOMAIN got[p] : u # t => g[u] = got[p][u]
  BY DEF With
<1> HIDE DEF g, v
<1>7. Versions(j, d, g, mw)  BY <1>3, <1>4, <1>5, <1>6 DEF Versions
<1>8. AtWork("latest", j, d, mem[p], g, mw)  BY <1>3, <1>7 DEF AtWork, Refreshing
<1>9. /\ "latest" \in LockPlaces /\ pc' = [pc EXCEPT ![p] = "latest"] /\ IsRows(mem[p])
      /\ job' = [job EXCEPT ![p] = j] /\ mem' = [mem EXCEPT ![p] = mem[p]]
      /\ meanwhile' = [meanwhile EXCEPT ![p] = mw] /\ CacheTrue'
  BY <1>1 DEF LockPlaces, LockInv, LockTypes, CacheTrue
<1>10. LockInv'  BY <1>1, <1>8, <1>9, Reads
<1> QED BY <1>1, <1>10, NothingChanges DEF Kept

LEMMA LoadForToolsKeeps ==
  ASSUME LockInv, NEW p \in Locker, LoadForTools(p) PROVE Kept
<1> DEFINE d == OnDisk(job[p].space)
           j == job[p]
           mw == meanwhile[p]
<1>1. /\ UNCHANGED World4 /\ UNCHANGED job /\ LoadInto(p) /\ Goto(p, "puttool") /\ pc[p] # "idle"
      /\ got' = [got EXCEPT ![p] = got[p]] /\ meanwhile' = [meanwhile EXCEPT ![p] = mw]
  BY DEF LoadForTools, World4, Upstream, LockInv, LockTypes
<1>2. AtWork(pc[p], j, d, mem[p], got[p], mw)  BY <1>1, AtWorkNow DEF Works
<1>3. "puttool" \in LockPlaces  BY DEF LockPlaces
<1>4. AtWork("puttool", j, d, d, got[p], mw)
  <2>1. CASE pc[p] = "latest" /\ DOMAIN got[p] = NeedsWork(p)
    <3>1. /\ j \in LockJobs \cup ToolJobs /\ j.kind = "refresh" /\ Refreshed(j, d, mw)
          /\ Versions(j, d, got[p], mw) /\ Differing(mem[p], d) \subseteq mw
      BY <1>2, <2>1 DEF AtWork, Refreshing
    <3>2. LazyTools(j) \subseteq DOMAIN mem[p] \cup DOMAIN got[p]
      BY <2>1 DEF NeedsWork, AskedBy, LazyTools
    <3>3. DOMAIN mem[p] \subseteq DOMAIN d \cup mw  BY <3>1, SameRow
    <3> QED BY <3>1, <3>2, <3>3, NothingDiffers DEF AtWork, Refreshing
  <2>2. CASE pc[p] = "reload"
    <3>1. j \in LockJobs \cup ToolJobs  BY <1>2, <2>2 DEF AtWork
    <3>2. j.kind = "refresh" => Refreshing("puttool", j, d, got[p], mw)
      BY <1>2, <2>2 DEF AtWork, Refreshing
    <3>3. j.kind = "tool" => Resolving("puttool", j, d, got[p], mw)
      BY <1>2, <2>2 DEF AtWork, Resolving
    <3> QED BY <3>1, <3>2, <3>3, NothingDiffers DEF AtWork
  <2> QED BY <2>1, <2>2 DEF LoadForTools
<1> QED BY <1>1, <1>3, <1>4, Loads

\* A tool that had no row, or had this one, is added.
LEMMA AddsATool ==
  ASSUME LockInv, NEW p \in Locker, pc[p] # "idle", pc'[p] # pc[p], NEW t \in Tool, NEW v \in Nat,
         Differing(mem[p], OnDisk(job[p].space)) \subseteq meanwhile[p],
         Write(p, With(mem[p], t, v)),
         \/ t \in meanwhile[p]
         \/ t \in DOMAIN OnDisk(job[p].space) => OnDisk(job[p].space)[t] = v
  PROVE  IsRows(With(mem[p], t, v)) /\ \A w \in Space : RowsKept(w)
<1> DEFINE rows == With(mem[p], t, v)
           d == OnDisk(job[p].space)
<1>1. /\ DOMAIN rows = DOMAIN mem[p] \cup {t} /\ rows[t] = v
      /\ \A y \in DOMAIN mem[p] : y # t => rows[y] = mem[p][y]
      /\ rows = [y \in DOMAIN rows |-> rows[y]]
  BY DEF With
<1>2. IsRows(mem[p])  BY DEF LockInv, LockTypes
<1>3. Write(p, rows)  OBVIOUS
<1> HIDE DEF rows
<1>4. IsRows(rows)  BY <1>1, <1>2, LocksAssumption DEF IsRows
<1>5. ASSUME NEW x \in DOMAIN d, x \notin meanwhile[p] PROVE x \in DOMAIN rows /\ rows[x] = d[x]
  <2>1. x \in DOMAIN mem[p] /\ mem[p][x] = d[x]  BY <1>5, SameRow
  <2> QED BY <1>1, <1>5, <2>1
<1>6. \A w \in Space : RowsKept(w)  BY <1>3, <1>5, RowsStay
<1> QED BY <1>4, <1>6 DEF rows

LEMMA PutToolKeeps == ASSUME LockInv, NEW p \in Locker, PutTool(p) PROVE Kept
<1> DEFINE d == OnDisk(job[p].space)
           j == job[p]
           g == got[p]
           mw == meanwhile[p]
<1>1. AtWork("puttool", j, d, mem[p], g, mw) /\ pc[p] = "puttool"
  BY AtWorkNow DEF PutTool, Works
<1>2. /\ j \in LockJobs \cup ToolJobs /\ j.kind = "refresh" /\ Refreshed(j, d, mw)
      /\ Versions(j, d, g, mw) /\ Differing(mem[p], d) \subseteq mw
      /\ LazyTools(j) \subseteq DOMAIN d \cup DOMAIN g \cup mw
  BY <1>1 DEF AtWork, Refreshing, PutTool
<1>3. PICK t \in Tool :
        /\ t \in DOMAIN g /\ Write(p, With(mem[p], t, g[t]))
        /\ got' = [got EXCEPT ![p] = [u \in DOMAIN g \ {t} |-> g[u]]]
        /\ Goto(p, IF DOMAIN g \ {t} = {} THEN "done" ELSE "reload")
  BY DEF PutTool, IsFirst
<1> DEFINE rows == With(mem[p], t, g[t])
           others == [u \in DOMAIN g \ {t} |-> g[u]]
           place == IF DOMAIN g \ {t} = {} THEN "done" ELSE "reload"
<1>4. g[t] \in Nat /\ (t \in mw \/ t \notin DOMAIN d)  BY <1>2, <1>3 DEF Versions
<1>5. /\ place \in {"done", "reload"} /\ place \in LockPlaces /\ pc' = [pc EXCEPT ![p] = place]
      /\ got' = [got EXCEPT ![p] = others] /\ UNCHANGED <<conf, cache, tip, newest, job, mem>>
      /\ DOMAIN others = DOMAIN g \ {t} /\ (place = "done" => DOMAIN g \subseteq {t})
      /\ \A u \in DOMAIN others : others[u] = g[u]
  BY <1>3 DEF PutTool, Goto, Upstream, LockPlaces
<1>6. pc[p] # "idle" /\ pc'[p] # pc[p]  BY <1>1, <1>5 DEF LockInv, LockTypes
<1>7. IsRows(rows) /\ \A w \in Space : RowsKept(w)
  BY <1>2, <1>3, <1>4, <1>6, AddsATool
<1>8. DOMAIN rows = DOMAIN mem[p] \cup {t} /\ \A y \in DOMAIN mem[p] : y # t => rows[y] = mem[p][y]
  BY DEF With
<1>9. Write(p, rows)  BY <1>3
<1> HIDE DEF rows, others, place
<1>10. \A x : x \notin mw /\ x # t => /\ x \in DOMAIN rows <=> x \in DOMAIN d
                                      /\ x \in DOMAIN d => rows[x] = d[x]
  BY <1>2, <1>8, SameRow
<1>11. Refreshed(j, rows, mw)
  <2> SUFFICES ASSUME OneInputPerRepo, NEW s \in Inputs(j), RepoOf[s] \notin mw
               PROVE  Pinned(rows, s, j.asks[s])
    BY DEF Refreshed
  <2>1. Pinned(d, s, j.asks[s])  BY <1>2 DEF Refreshed
  <2>2. RepoOf[s] \in DOMAIN d /\ RepoOf[s] # t  BY <1>4, <2>1 DEF Pinned
  <2> QED BY <1>10, <2>1, <2>2 DEF Pinned
<1>12. Versions(j, rows, others, mw)  BY <1>2, <1>5, <1>10 DEF Versions
<1>13. /\ place = "reload" => LazyTools(j) \subseteq DOMAIN rows \cup DOMAIN others \cup mw
       /\ place = "done" => LazyTools(j) \subseteq DOMAIN rows \cup mw
  BY <1>2, <1>5, <1>8, <1>10
<1>14. AtWork(place, j, rows, mem[p], others, mw)
  BY <1>2, <1>5, <1>11, <1>12, <1>13 DEF AtWork, Refreshing
<1>15. LockInv'  BY <1>2, <1>5, <1>6, <1>7, <1>9, <1>14, WritesOver
<1> QED BY <1>7, <1>15 DEF Kept

LEMMA LookUpKeeps == ASSUME LockInv, NEW p \in Locker, LookUp(p) PROVE Kept
<1> DEFINE d == OnDisk(job[p].space)
           j == job[p]
           t == job[p].tool
           ask == AskedBy(p)
<1>1. pc[p] # "idle" /\ IsRows(d) /\ j \in LockJobs \cup ToolJobs /\ j.kind = "tool"
  BY AtWorkNow DEF LookUp
<1>2. j \in ToolJobs /\ t \in Tool /\ ask \in Nat \cup {Latest, None}
  BY <1>1 DEF LockJobs, ToolJobs, AskedBy
<1>3. UNCHANGED World4  BY DEF LookUp, World4, Upstream
<1>4. CASE ask = None  BY <1>1, <1>3, <1>4, FailKeeps DEF LookUp
<1>5. CASE ask # None
  <2> DEFINE g == IF LockedVersion(d, t) # NoRows THEN LockedVersion(d, t)
                  ELSE IF ask # Latest THEN Only(t, ask) ELSE NoRows
             place == IF t \in DOMAIN d \/ ask # Latest THEN "reload" ELSE "ask"
  <2>1. /\ LoadInto(p) /\ got' = [got EXCEPT ![p] = g] /\ Goto(p, place) /\ UNCHANGED job
        /\ meanwhile' = [meanwhile EXCEPT ![p] = {}]
    BY <1>5 DEF LookUp
  <2>2. place \in {"ask", "reload"} /\ place \in LockPlaces /\ (place = "ask" => t \notin DOMAIN d)
    BY DEF LockPlaces
  <2>3. place = "reload" => DOMAIN g = {t} /\ g[t] \in Nat /\ (t \in DOMAIN d => d[t] = g[t])
    <3>1. CASE t \in DOMAIN d
      <4>1. d[t] \in Nat  BY <1>1, <1>2, <3>1 DEF IsRows
      <4>2. LockedVersion(d, t) = Only(t, d[t])  BY <3>1 DEF LockedVersion
      <4>3. DOMAIN Only(t, d[t]) = {t} /\ Only(t, d[t])[t] = d[t]  BY DEF Only
      <4>4. g = Only(t, d[t])  BY <4>2, <4>3, NoRowsAreRows
      <4> QED BY <4>1, <4>3, <4>4
    <3>2. CASE t \notin DOMAIN d
      <4>1. LockedVersion(d, t) = NoRows  BY <3>2 DEF LockedVersion
      <4>2. place = "reload" => ask \in Nat /\ g = Only(t, ask)  BY <1>2, <1>5, <3>2, <4>1
      <4> QED BY <3>2, <4>2 DEF Only
    <3> QED BY <3>1, <3>2
  <2> HIDE DEF g, place
  <2>4. AtWork(place, j, d, d, g, {})  BY <1>1, <1>2, <2>2, <2>3 DEF AtWork, Resolving
  <2> QED BY <1>1, <1>3, <2>1, <2>2, <2>4, Loads
<1> QED BY <1>4, <1>5

LEMMA AskLatestKeeps == ASSUME LockInv, NEW p \in Locker, AskLatest(p) PROVE Kept
<1> DEFINE d == OnDisk(job[p].space)
           j == job[p]
           mw == meanwhile[p]
           g == Only(j.tool, newest[j.tool])
<1>1. /\ pc[p] = "ask" /\ got' = [got EXCEPT ![p] = g] /\ pc' = [pc EXCEPT ![p] = "reload"]
      /\ UNCHANGED <<conf, lockfile, tip, newest, cache, job, mem, meanwhile>>
  BY DEF AskLatest, Goto, Upstream
<1>2. AtWork("ask", j, d, mem[p], got[p], mw)  BY <1>1, AtWorkNow DEF Works
<1>3. /\ j \in ToolJobs /\ j.kind = "tool" /\ j.tool \in Tool
      /\ j.tool \in mw \/ j.tool \notin DOMAIN d
  BY <1>2 DEF AtWork, Resolving, ToolJobs
<1>4. DOMAIN g = {j.tool} /\ g[j.tool] \in Nat  BY <1>3 DEF Only, LockInv, LockTypes
<1> HIDE DEF g
<1>5. AtWork("reload", j, d, mem[p], g, mw)  BY <1>3, <1>4 DEF AtWork, Resolving
<1>6. /\ "reload" \in LockPlaces /\ IsRows(mem[p]) /\ CacheTrue'
      /\ job' = [job EXCEPT ![p] = j] /\ mem' = [mem EXCEPT ![p] = mem[p]]
      /\ meanwhile' = [meanwhile EXCEPT ![p] = mw]
  BY <1>1 DEF LockPlaces, LockInv, LockTypes, CacheTrue
<1>7. LockInv'  BY <1>1, <1>5, <1>6, Reads
<1> QED BY <1>1, <1>7, NothingChanges DEF Kept

LEMMA PinToolKeeps == ASSUME LockInv, NEW p \in Locker, PinTool(p) PROVE Kept
<1> DEFINE d == OnDisk(job[p].space)
           j == job[p]
           g == got[p]
           mw == meanwhile[p]
           rows == With(mem[p], j.tool, g[j.tool])
<1>1. pc[p] = "puttool" /\ AtWork("puttool", j, d, mem[p], g, mw) /\ j.kind = "tool"
  BY AtWorkNow DEF PinTool, Works
<1>2. /\ j \in ToolJobs /\ DOMAIN g = {j.tool} /\ g[j.tool] \in Nat /\ j.tool \in Tool
      /\ Differing(mem[p], d) \subseteq mw
      /\ j.tool \in mw \/ (j.tool \in DOMAIN d => d[j.tool] = g[j.tool])
  BY <1>1 DEF AtWork, Resolving, LockJobs, ToolJobs
<1>3. /\ Write(p, rows) /\ pc' = [pc EXCEPT ![p] = "install"]
      /\ got' = [got EXCEPT ![p] = g] /\ UNCHANGED <<conf, cache, tip, newest, job, mem>>
  BY DEF PinTool, Goto, Upstream, LockInv, LockTypes
<1>4. "install" \in LockPlaces /\ pc[p] # "idle" /\ pc'[p] # pc[p]
  BY <1>1, <1>3 DEF LockPlaces, LockInv, LockTypes
<1>5. IsRows(rows) /\ \A w \in Space : RowsKept(w)  BY <1>2, <1>3, <1>4, AddsATool
<1>6. j.tool \in DOMAIN rows /\ rows[j.tool] = g[j.tool]  BY DEF With
<1> HIDE DEF rows
<1>7. AtWork("install", j, rows, mem[p], g, mw)  BY <1>1, <1>2, <1>6 DEF AtWork, Resolving
<1>8. LockInv'  BY <1>2, <1>3, <1>4, <1>5, <1>7, WritesOver
<1> QED BY <1>5, <1>8 DEF Kept

LEMMA InstallKeeps == ASSUME LockInv, NEW p \in Locker, Install(p) PROVE Kept
<1>1. pc[p] = "install" /\ Goto(p, "done") /\ UNCHANGED World4 /\ UNCHANGED <<job, mem, got, meanwhile>>
  BY DEF Install, World4, Upstream
<1>2. AtWork("install", job[p], OnDisk(job[p].space), mem[p], got[p], meanwhile[p])
  BY <1>1, AtWorkNow DEF Works
<1>3. job[p] \in ToolJobs /\ job[p].kind = "tool"  BY <1>2 DEF AtWork, ToolJobs
<1>4. AtWork("done", job[p], OnDisk(job[p].space), mem[p], got[p], meanwhile[p])
  BY <1>2, <1>3 DEF AtWork, Resolving
<1>5. "done" \in LockPlaces  BY DEF LockPlaces
<1> QED BY <1>1, <1>4, <1>5, MovesOn

\* What keeps the locks and those who use them keeps the invariant.
LEMMA OthersKeep ==
  ASSUME LockInv, UNCHANGED <<lockfile, cache, pc, job, mem, got, meanwhile>>,
         conf' \in [Space -> Configs], tip' \in [Repo -> [Branch -> Commit]], newest' \in [Tool -> Nat]
  PROVE  Kept
<1>1. LockTypes'
  <2>1. \A q \in Locker : IsRows(mem'[q])  BY DEF LockInv, LockTypes
  <2>2. \A w \in Space : lockfile'[w] # NoFile => IsRows(lockfile'[w])  BY DEF LockInv, LockTypes
  <2>3. CacheTrue'  BY DEF LockInv, LockTypes, CacheTrue
  <2> QED BY <2>1, <2>2, <2>3 DEF LockInv, LockTypes
<1>2. LockInv'  BY <1>1 DEF LockInv, Works, OnDisk
<1> QED BY <1>2, NothingChanges DEF Kept

LEMMA WorldKeeps == ASSUME LockInv, World PROVE Kept
<1>1. UNCHANGED <<lockfile, cache, pc, job, mem, got, meanwhile>>
  BY DEF World, PushCommit, Release, EditConfig, Upstream
<1>2. ASSUME NEW r \in Repo, NEW b \in Branch, NEW c \in Commit, PushCommit(r, b, c)
      PROVE  conf' = conf /\ newest' = newest /\ tip' \in [Repo -> [Branch -> Commit]]
  BY <1>2 DEF PushCommit, LockInv, LockTypes
<1>3. ASSUME NEW t \in Tool, Release(t) PROVE conf' = conf /\ tip' = tip /\ newest' \in [Tool -> Nat]
  BY <1>3 DEF Release, LockInv, LockTypes
<1>4. ASSUME NEW w \in Space, NEW c \in Configs, EditConfig(w, c)
      PROVE  newest' = newest /\ tip' = tip /\ conf' \in [Space -> Configs]
  BY <1>4 DEF EditConfig, LockInv, LockTypes, Upstream
<1>5. /\ conf' \in [Space -> Configs] /\ tip' \in [Repo -> [Branch -> Commit]]
      /\ newest' \in [Tool -> Nat]
  BY <1>2, <1>3, <1>4 DEF World, LockInv, LockTypes
<1> QED BY <1>1, <1>5, OthersKeep

LEMMA LockStepKeeps == ASSUME LockInv, NEW p \in Locker, LocksStep(p) PROVE Kept
BY BeginLocksKeeps, BeginToolKeeps, ReadFailsKeeps, LeaveKeeps, EnsureKeeps, CreateKeeps,
   WriteEmptyKeeps, ReadPinsKeeps, LoadForSourcesKeeps, PutSourcesKeeps, HashOneKeeps,
   HashRefusedKeeps, ScanKeeps, LoadForToolsKeeps, PutToolKeeps, LatestOneKeeps, LookUpKeeps,
   AskLatestKeeps, PinToolKeeps, InstallKeeps DEF LocksStep

LEMMA LockStutter == ASSUME LockInv, UNCHANGED lockVars PROVE Kept
<1>1. UNCHANGED <<conf, lockfile, cache, tip, newest, pc, job, mem, got, meanwhile>>  BY DEF lockVars
<1>2. /\ conf' \in [Space -> Configs] /\ tip' \in [Repo -> [Branch -> Commit]]
      /\ newest' \in [Tool -> Nat]
  BY <1>1 DEF LockInv, LockTypes
<1> QED BY <1>1, <1>2, OthersKeep

LEMMA LockNextKeeps == ASSUME LockInv, [LocksNext]_lockVars PROVE Kept
BY WorldKeeps, LockStepKeeps, LockStutter DEF LocksNext

LEMMA LockInvIsObeyed == ASSUME LockInv, OneInputPerRepo PROVE LockIsObeyed
<1> SUFFICES ASSUME NEW p \in Locker, pc[p] = "done"
             PROVE  /\ job[p].kind = "refresh" =>
                         /\ \A s \in Source : job[p].asks[s] # None =>
                              \/ RepoOf[s] \in meanwhile[p]
                              \/ Pinned(OnDisk(job[p].space), s, job[p].asks[s])
                         /\ \A t \in Tool : job[p].asks[t] # None =>
                              t \in meanwhile[p] \cup DOMAIN OnDisk(job[p].space)
                    /\ job[p].kind = "tool" =>
                         \/ job[p].tool \in meanwhile[p]
                         \/ /\ job[p].tool \in DOMAIN OnDisk(job[p].space)
                            /\ OnDisk(job[p].space)[job[p].tool] = got[p][job[p].tool]
  BY DEF LockIsObeyed, AskedBy
<1>1. AtWork("done", job[p], OnDisk(job[p].space), mem[p], got[p], meanwhile[p])
  BY AtWorkNow DEF Works
<1> QED BY <1>1 DEF AtWork, Refreshing, Refreshed, Resolving, Inputs, LazyTools

\* The lock file is obeyed, whatever an earlier run, a crash or another
\* configuration left there: when a refresh is done every input is pinned as the
\* configuration asks and every tool has a version, and a tool that resolves
\* runs in the version its workspace's lock names.  For any number of goroutines
\* and processes at once, of each row that nobody else has changed since; and for
\* one input to a repository (a row is keyed by it).
THEOREM ObeysTheLock ==
  ASSUME OneInputPerRepo PROVE LocksSpec => []LockIsObeyed
<1>1. LocksInit => LockInv  BY LockInit
<1>2. LockInv /\ [LocksNext]_lockVars => LockInv'  BY LockNextKeeps DEF Kept
<1>3. LockInv => LockIsObeyed  BY LockInvIsObeyed
<1> QED BY <1>1, <1>2, <1>3, PTL DEF LocksSpec

\* No row of a lock file is lost, and none changes but the row of a source, by
\* `mod lock` or by a refresh whose configuration the row no longer serves.  For
\* any number of goroutines and processes at once: who writes over what others
\* wrote after it read the lock undoes no row but those they changed.
THEOREM RowsChangeRarely == LocksSpec => RowsChangeForAReason
<1>1. LocksInit => LockInv  BY LockInit
<1>2. LockInv /\ [LocksNext]_lockVars => LockInv'  BY LockNextKeeps DEF Kept
<1>3. LockInv /\ [LocksNext]_lockVars => \A w \in Space : RowsKept(w)  BY LockNextKeeps DEF Kept
<1> QED BY <1>1, <1>2, <1>3, PTL DEF LocksSpec, RowsChangeForAReason

-----------------------------------------------------------------------------
(* Pipeline: the bundles of the icon modules.                              *)


IconModule == {m \in Module : Provider[m] = "icons"}

\* No two icon modules generate the same theme at once.
BundlesApart == \A m, n \in IconModule : Bundle[m] = Bundle[n] => m = n

ThemeDir == [icons : SUBSET Icon, index : BOOLEAN]
ThemeDirs ==
  [work : ThemeDir \cup {Vacant}, cache : ThemeDir \cup {Vacant}, old : ThemeDir \cup {Vacant}]
Whole(d) == d.icons = Icon /\ d.index = TRUE

\* What a worker has drawn is what lies in its work directory, and what it is
\* about to move, or has moved aside, is whole.
BundleInv ==
  /\ worker \in [Module -> {"none", "started", "failed", "warning", "resolved", "drawing",
                            "replacing", "moving", "listing"}]
  /\ drawn \in [Module -> SUBSET Icon]
  /\ theme \in [Fingerprint -> ThemeDirs]
  /\ \A m \in Module : /\ worker[m] = "started" => drawn[m] = {}
                       /\ worker[m] \in {"drawing", "replacing", "moving", "listing"} => m \in IconModule
  /\ \A f \in Fingerprint : /\ theme[f].cache # Vacant => Whole(theme[f].cache)
                            /\ theme[f].old # Vacant => Whole(theme[f].old)
  /\ \A m \in IconModule :
       /\ worker[m] = "drawing" => Work(m) # Vacant /\ Work(m).icons = drawn[m]
       /\ worker[m] \in {"replacing", "moving"} /\ Work(m) # Vacant => Whole(Work(m))

LEMMA BundleInit == PipelineInit => BundleInv
<1> SUFFICES ASSUME PipelineInit PROVE BundleInv OBVIOUS
<1>1. theme \in [Fingerprint -> ThemeDirs]
  BY DEF PipelineInit, ThemeDirs
<1>2. \A f \in Fingerprint : theme[f].cache = Vacant /\ theme[f].old = Vacant
  BY DEF PipelineInit
<1> QED BY <1>1, <1>2 DEF PipelineInit, BundleInv, IconModule, Fingerprint

\* A worker that goes where it draws and moves nothing.
LEMMA WorkerGoes ==
  ASSUME BundleInv, NEW m \in Module, NEW place \in {"failed", "warning", "resolved"},
         WorkerTo(m, place), UNCHANGED <<theme, drawn>>
  PROVE  BundleInv'
BY DEF BundleInv, WorkerTo, Work, IconModule, Whole, Fingerprint

LEMMA BeginApplyBundle == BundleInv /\ BeginApply => BundleInv'
BY DEF BundleInv, BeginApply, Work, IconModule, Whole, Fingerprint

LEMMA FindBundleInv ==
  ASSUME BundleInv, NEW m \in Module, FindBundle(m)
  PROVE  BundleInv'
BY DEF FindBundle, Scanning, BundleInv, WorkerTo, Work, IconModule, Whole, Fingerprint

\* What the update of one theme leaves alone, and that it is typed.
LEMMA OneTheme ==
  ASSUME BundleInv, BundlesApart, NEW m \in IconModule,
         NEW t \in ThemeDirs,
         theme' = [theme EXCEPT ![Bundle[m]] = t]
  PROVE  /\ Bundle[m] \in Fingerprint
         /\ theme' \in [Fingerprint -> ThemeDirs]
         /\ theme'[Bundle[m]] = t
         /\ \A f \in Fingerprint : f # Bundle[m] => theme'[f] = theme[f]
         /\ \A n \in IconModule : n # m => theme'[Bundle[n]] = theme[Bundle[n]]
<1>1. \A n \in IconModule : Bundle[n] \in Fingerprint  BY DEF IconModule, Fingerprint
<1>2. DOMAIN theme = Fingerprint  BY DEF BundleInv
<1>3. theme' \in [Fingerprint -> ThemeDirs]
  BY <1>1 DEF BundleInv
<1>4. theme'[Bundle[m]] = t  BY <1>1, <1>2
<1>5. \A f \in Fingerprint : f # Bundle[m] => theme'[f] = theme[f]  BY <1>1, <1>2
<1> QED BY <1>1, <1>3, <1>4, <1>5 DEF BundlesApart

\* The step of one icon worker: its theme and its own state change, and what
\* BundleInv says of these two holds again.
LEMMA OneBundle ==
  ASSUME BundleInv, BundlesApart, NEW m \in IconModule,
         NEW t \in ThemeDirs,
         theme' = [theme EXCEPT ![Bundle[m]] = t],
         NEW place \in {"failed", "drawing", "replacing", "moving", "listing"},
         worker' = [worker EXCEPT ![m] = place],
         NEW d \in SUBSET Icon, drawn' = [drawn EXCEPT ![m] = d],
         t.cache # Vacant => Whole(t.cache),
         t.old # Vacant => Whole(t.old),
         place = "drawing" => t.work # Vacant /\ t.work.icons = d,
         place \in {"replacing", "moving"} /\ t.work # Vacant => Whole(t.work)
  PROVE  BundleInv'
<1>1. /\ Bundle[m] \in Fingerprint
      /\ theme' \in [Fingerprint -> ThemeDirs]
      /\ theme'[Bundle[m]] = t
      /\ \A f \in Fingerprint : f # Bundle[m] => theme'[f] = theme[f]
      /\ \A n \in IconModule : n # m => theme'[Bundle[n]] = theme[Bundle[n]]
  BY OneTheme
<1>2. m \in Module  BY DEF IconModule
<1>3. /\ worker' \in [Module -> {"none", "started", "failed", "warning", "resolved", "drawing",
                                 "replacing", "moving", "listing"}]
      /\ worker'[m] = place /\ \A n \in Module : n # m => worker'[n] = worker[n]
  BY <1>2 DEF BundleInv
<1>4. /\ drawn' \in [Module -> SUBSET Icon]
      /\ drawn'[m] = d /\ \A n \in Module : n # m => drawn'[n] = drawn[n]
  BY <1>2 DEF BundleInv
<1>5. \A n \in Module :
        /\ worker'[n] = "started" => drawn'[n] = {}
        /\ worker'[n] \in {"drawing", "replacing", "moving", "listing"} => n \in IconModule
  BY <1>3, <1>4 DEF BundleInv
<1>6. \A f \in Fingerprint : /\ theme'[f].cache # Vacant => Whole(theme'[f].cache)
                             /\ theme'[f].old # Vacant => Whole(theme'[f].old)
  BY <1>1 DEF BundleInv
<1>7. ASSUME NEW n \in IconModule
      PROVE  LET w == theme'[Bundle[n]].work IN
               /\ worker'[n] = "drawing" => w # Vacant /\ w.icons = drawn'[n]
               /\ worker'[n] \in {"replacing", "moving"} /\ w # Vacant => Whole(w)
  <2>1. n \in Module  BY DEF IconModule
  <2> QED BY <2>1, <1>1, <1>3, <1>4 DEF BundleInv, Work
<1> QED BY <1>1, <1>3, <1>4, <1>5, <1>6, <1>7 DEF BundleInv, Work, IconModule, Fingerprint, Whole

\* What the icon workers start from.
LEMMA BundleOf ==
  ASSUME BundleInv, NEW m \in IconModule
  PROVE  /\ m \in Module /\ Bundle[m] \in Fingerprint
         /\ theme[Bundle[m]] \in ThemeDirs
         /\ Cached(m) # Vacant => Whole(Cached(m))
         /\ theme[Bundle[m]].old # Vacant => Whole(theme[Bundle[m]].old)
         /\ worker[m] = "drawing" => Work(m) # Vacant /\ Work(m).icons = drawn[m]
         /\ worker[m] \in {"replacing", "moving"} /\ Work(m) # Vacant => Whole(Work(m))
<1>1. m \in Module /\ Bundle[m] \in Fingerprint  BY DEF IconModule, Fingerprint
<1> QED BY <1>1 DEF BundleInv, Work, Cached

LEMMA WipeWorkInv ==
  ASSUME BundleInv, BundlesApart, NEW m \in Module, WipeWork(m)
  PROVE  BundleInv'
<1> DEFINE t == [theme[Bundle[m]] EXCEPT !.work = Empty]
<1>1. m \in IconModule /\ worker[m] = "started" /\ drawn[m] = {}
  BY DEF WipeWork, Scanning, IconModule, BundleInv
<1>2. Empty \in ThemeDir /\ Empty # Vacant /\ Empty.icons = {}
  <2>1. Empty \in ThemeDir  BY DEF Empty, ThemeDir
  <2>2. Vacant \notin ThemeDir  BY PipelineAssumption DEF ThemeDir
  <2> QED BY <2>1, <2>2 DEF Empty
<1>3. t \in ThemeDirs /\ t.work = Empty /\ t.cache = Cached(m) /\ t.old = theme[Bundle[m]].old
  BY <1>1, <1>2, BundleOf DEF ThemeDirs, Cached
<1>4. theme' = [theme EXCEPT ![Bundle[m]] = t]
  BY DEF WipeWork
<1>5. worker' = [worker EXCEPT ![m] = "drawing"] /\ drawn' = [drawn EXCEPT ![m] = {}]
  BY <1>1 DEF WipeWork, WorkerTo, BundleInv
<1> HIDE DEF t
<1>6. /\ t.cache # Vacant => Whole(t.cache)
      /\ t.old # Vacant => Whole(t.old)
  BY <1>1, <1>3, BundleOf
<1> QED BY <1>1, <1>2, <1>3, <1>4, <1>5, <1>6, OneBundle

LEMMA DrawIconInv ==
  ASSUME BundleInv, BundlesApart, NEW m \in Module, NEW i \in Icon, DrawIcon(m, i)
  PROVE  BundleInv'
<1> DEFINE d == [Work(m) EXCEPT !.icons = @ \cup {i}]
           t == [theme[Bundle[m]] EXCEPT !.work = d]
<1>1. m \in IconModule /\ worker[m] = "drawing"
  BY DEF DrawIcon, Scanning, IconModule, BundleInv
<1>2. Work(m) \in ThemeDir /\ Work(m) # Vacant /\ Work(m).icons = drawn[m]
  BY <1>1, BundleOf DEF ThemeDirs, Work
<1>3. d \in ThemeDir /\ d # Vacant /\ d.icons = drawn[m] \cup {i}
  BY <1>2, PipelineAssumption DEF ThemeDir
<1> HIDE DEF d
<1>4. t \in ThemeDirs /\ t.work = d /\ t.cache = Cached(m) /\ t.old = theme[Bundle[m]].old
  BY <1>1, <1>3, BundleOf DEF ThemeDirs, Cached
<1>5. theme' = [theme EXCEPT ![Bundle[m]] = t]
  BY <1>2 DEF DrawIcon, d
<1>6. worker' = [worker EXCEPT ![m] = "drawing"]
  BY <1>1 DEF DrawIcon, BundleInv
<1>7. drawn' = [drawn EXCEPT ![m] = drawn[m] \cup {i}] /\ drawn[m] \cup {i} \in SUBSET Icon
  BY <1>1 DEF DrawIcon, BundleInv
<1> HIDE DEF t
<1>8. /\ t.cache # Vacant => Whole(t.cache)
      /\ t.old # Vacant => Whole(t.old)
  BY <1>1, <1>4, BundleOf
<1> QED BY <1>1, <1>3, <1>4, <1>5, <1>6, <1>7, <1>8, OneBundle

LEMMA DrawFailsInv ==
  ASSUME BundleInv, BundlesApart, NEW m \in Module, DrawFails(m)
  PROVE  BundleInv'
<1> DEFINE t == [theme[Bundle[m]] EXCEPT !.work = Vacant]
<1>1. m \in IconModule
  BY DEF DrawFails, Scanning, IconModule, BundleInv
<1>2. t \in ThemeDirs /\ t.cache = Cached(m) /\ t.old = theme[Bundle[m]].old
  BY <1>1, BundleOf DEF ThemeDirs, Cached
<1>3. theme' = [theme EXCEPT ![Bundle[m]] = t]
  BY DEF DrawFails
<1>4. worker' = [worker EXCEPT ![m] = "failed"] /\ drawn' = [drawn EXCEPT ![m] = drawn[m]]
        /\ drawn[m] \in SUBSET Icon
  BY <1>1 DEF DrawFails, WorkerTo, BundleInv
<1> HIDE DEF t
<1>5. /\ t.cache # Vacant => Whole(t.cache)
      /\ t.old # Vacant => Whole(t.old)
  BY <1>1, <1>2, BundleOf
<1> QED BY <1>1, <1>2, <1>3, <1>4, <1>5, OneBundle

LEMMA WriteIndexInv ==
  ASSUME BundleInv, BundlesApart, NEW m \in Module, WriteIndexTheme(m)
  PROVE  BundleInv'
<1> DEFINE d == [Work(m) EXCEPT !.index = TRUE]
           t == [theme[Bundle[m]] EXCEPT !.work = d]
<1>1. m \in IconModule /\ worker[m] = "drawing"
  BY DEF WriteIndexTheme, Scanning, IconModule, BundleInv
<1>2. Work(m) \in ThemeDir /\ Work(m) # Vacant /\ Work(m).icons = Icon
  BY <1>1, BundleOf DEF ThemeDirs, Work, WriteIndexTheme
<1>3. d \in ThemeDir /\ Whole(d)
  BY <1>2 DEF ThemeDir, Whole
<1> HIDE DEF d
<1>4. t \in ThemeDirs /\ t.work = d /\ t.cache = Cached(m) /\ t.old = theme[Bundle[m]].old
  BY <1>1, <1>3, BundleOf DEF ThemeDirs, Cached
<1>5. theme' = [theme EXCEPT ![Bundle[m]] = t]
  BY <1>2 DEF WriteIndexTheme, d, Work
<1>6. worker' = [worker EXCEPT ![m] = "replacing"]
  BY <1>2 DEF WriteIndexTheme, WorkerTo
<1>7. drawn' = [drawn EXCEPT ![m] = drawn[m]] /\ drawn[m] \in SUBSET Icon
  BY <1>1 DEF WriteIndexTheme, BundleInv
<1> HIDE DEF t
<1>8. /\ t.cache # Vacant => Whole(t.cache)
      /\ t.old # Vacant => Whole(t.old)
  BY <1>1, <1>4, BundleOf
<1> QED BY <1>1, <1>3, <1>4, <1>5, <1>6, <1>7, <1>8, OneBundle

LEMMA MoveBundleAsideInv ==
  ASSUME BundleInv, BundlesApart, NEW m \in Module, MoveBundleAside(m)
  PROVE  BundleInv'
<1> DEFINE t == [theme[Bundle[m]] EXCEPT !.old = Cached(m), !.cache = Vacant]
<1>1. m \in IconModule /\ worker[m] = "replacing"
  BY DEF MoveBundleAside, Scanning, IconModule, BundleInv
<1>2. t \in ThemeDirs /\ t.work = Work(m) /\ t.cache = Vacant /\ t.old = Cached(m)
  BY <1>1, BundleOf DEF ThemeDirs, Cached, Work
<1>3. theme' = [theme EXCEPT ![Bundle[m]] = t]
  <2>1. t = [theme[Bundle[m]] EXCEPT !.old = Cached(m), !.cache = Vacant]  OBVIOUS
  <2>2. Bundle[m] \in DOMAIN theme /\ theme[Bundle[m]] \in ThemeDirs  BY <1>1, BundleOf DEF BundleInv
  <2> QED BY <2>1, <2>2 DEF MoveBundleAside, ThemeDirs
<1>4. worker' = [worker EXCEPT ![m] = "moving"] /\ drawn' = [drawn EXCEPT ![m] = drawn[m]]
        /\ drawn[m] \in SUBSET Icon
  BY <1>1 DEF MoveBundleAside, WorkerTo, BundleInv
<1> HIDE DEF t
<1>5. /\ t.old # Vacant => Whole(t.old)
      /\ t.work # Vacant => Whole(t.work)
  BY <1>1, <1>2, BundleOf
<1> QED BY <1>1, <1>2, <1>3, <1>4, <1>5, OneBundle

LEMMA MoveBundleInInv ==
  ASSUME BundleInv, BundlesApart, NEW m \in Module, MoveBundleIn(m)
  PROVE  BundleInv'
<1> DEFINE t == [work |-> Vacant, cache |-> IF Work(m) = Vacant THEN theme[Bundle[m]].old ELSE Work(m),
                 old |-> Vacant]
           place == IF Work(m) = Vacant THEN "failed" ELSE "listing"
<1>1. m \in IconModule /\ worker[m] = "moving"
  BY DEF MoveBundleIn, Scanning, IconModule, BundleInv
<1>2. t \in ThemeDirs /\ t.old = Vacant /\ (t.cache # Vacant => Whole(t.cache))
  BY <1>1, BundleOf DEF ThemeDirs, Work
<1>3. theme' = [theme EXCEPT ![Bundle[m]] = t] /\ worker' = [worker EXCEPT ![m] = place]
  BY <1>1, BundleOf DEF MoveBundleIn, WorkerTo, BundleInv
<1>4. drawn' = [drawn EXCEPT ![m] = drawn[m]] /\ drawn[m] \in SUBSET Icon
  BY <1>1 DEF MoveBundleIn, BundleInv
<1> HIDE DEF t
<1>5. place \in {"failed", "listing"}  OBVIOUS
<1> HIDE DEF place
<1> QED BY <1>1, <1>2, <1>3, <1>4, <1>5, OneBundle

\* What is left moves no theme and draws nothing.
LEMMA OtherWorkersInv ==
  ASSUME BundleInv, NEW m \in Module,
         \/ ResolveModule(m) \/ ModuleFails(m) \/ ReadSink(m) \/ AppendWarning(m) \/ ListBundle(m)
  PROVE  BundleInv'
<1>1. CASE ReadSink(m)
  BY <1>1 DEF ReadSink, BundleInv, Work, IconModule, Whole, Fingerprint
<1>2. CASE ~ReadSink(m)
  <2>1. /\ theme' = theme /\ drawn' = drawn
        /\ \E place \in {"failed", "warning", "resolved"} : WorkerTo(m, place)
    BY <1>2 DEF ResolveModule, ModuleFails, AppendWarning, ListBundle
  <2> QED BY <2>1, WorkerGoes
<1> QED BY <1>1, <1>2

LEMMA BundleStep ==
  ASSUME BundleInv, BundlesApart, [PipelineNext]_pipelineVars
  PROVE  BundleInv'
<1>1. CASE UNCHANGED <<worker, theme, drawn>>
  BY <1>1 DEF BundleInv, Work, IconModule, Whole, Fingerprint
<1>2. ASSUME NEW m \in Module,
             \/ ResolveModule(m) \/ ModuleFails(m) \/ ReadSink(m) \/ AppendWarning(m)
             \/ FindBundle(m) \/ WipeWork(m) \/ DrawFails(m) \/ WriteIndexTheme(m)
             \/ MoveBundleAside(m) \/ MoveBundleIn(m) \/ ListBundle(m)
             \/ \E i \in Icon : DrawIcon(m, i)
      PROVE  BundleInv'
  BY <1>2, OtherWorkersInv, FindBundleInv, WipeWorkInv, DrawFailsInv, WriteIndexInv,
     MoveBundleAsideInv, MoveBundleInInv, DrawIconInv
<1>3. CASE BeginApply  BY <1>3, BeginApplyBundle
<1>4. CASE Assemble  BY <1>4, <1>1 DEF Assemble
<1>5. CASE ExecuteAndHook \/ ExecuteFails \/ EndApply \/ CrashApply \/ \E s \in Setting : ChangeSetting(s)
  BY <1>5, <1>1 DEF ExecuteAndHook, ExecuteFails, EndApply, CrashApply, ChangeSetting
<1> QED BY <1>1, <1>2, <1>3, <1>4, <1>5 DEF PipelineNext, pipelineVars

\* A theme that lies in the cache under its fingerprint is whole, whichever icon
\* fails and wherever an apply dies, and stays so over any number of applies: a
\* work directory is moved in only when its worker has drawn every icon into it,
\* and what is moved aside and back was in the cache before.  The fingerprints of
\* the icon modules differ: two modules of one would draw in one directory.
THEOREM BundlesAreWhole ==
  ASSUME BundlesApart PROVE PipelineSpec => []BundleIsWhole
<1>1. PipelineInit => BundleInv  BY BundleInit
<1>2. BundleInv /\ [PipelineNext]_pipelineVars => BundleInv'  BY BundleStep
<1>3. BundleInv => BundleIsWhole  BY DEF BundleInv, BundleIsWhole, Whole
<1> QED BY <1>1, <1>2, <1>3, PTL DEF PipelineSpec

-----------------------------------------------------------------------------
(* Sources: where references lead.                                         *)

\* A configuration, and what has been found of it.
ConfigTypeOK ==
  /\ inputs \in InputSets /\ inputs["self"] = [from |-> Self, version |-> Unstated]
  /\ entry \in ModuleEntries /\ itemRef \in Item

SrcInv ==
  /\ ConfigTypeOK
  /\ phase \in {"modules", "items", "done"} =>
       Readable /\ runtime = [n \in Named |-> RuntimePath(n)] /\ schema = LocalModule
  /\ phase \in {"items", "done"} => files = ResolveEntry /\ files.kind = "at"
  /\ phase = "done" => target = ResolveRef(itemRef)

LEMMA OnlyPath ==
  ASSUME NEW S, NEW s \in Seq(S), s # <<>>, Len(s) <= 1
  PROVE  Len(s) = 1 /\ 1 \in DOMAIN s
<1>1. Len(s) # 0
  <2> SUFFICES ASSUME Len(s) = 0 PROVE FALSE  OBVIOUS
  <2>1. DOMAIN s = {}  OBVIOUS
  <2> QED BY <2>1
<1>2. Len(s) \in Nat /\ DOMAIN s = 1..Len(s)  OBVIOUS
<1> QED BY <1>1, <1>2

LEMMA InputsAre ==
  ASSUME ConfigTypeOK
  PROVE  /\ "self" \in Named /\ \A n \in Named : inputs[n].from = Self \/ inputs[n].from \in Reference
         /\ Self # Unstated
<1>2. Self # Unstated  BY SourcesAssumption
<1>3. PICK A : inputs \in [{"self"} \cup A -> [from : Reference \cup {Unstated, Self},
                                              version : InputVersion \cup {Unstated}]]
  BY DEF ConfigTypeOK, InputSets
<1>4. "self" \in Named  BY <1>2, <1>3 DEF ConfigTypeOK, Named
<1> QED BY <1>2, <1>3, <1>4 DEF Named

\* A module that says from where is found there; its schema with it.
LEMMA SelfIsHere ==
  ASSUME NEW spec, ResolveSource(spec).kind = "at", LocalSpec(DefaultPath, spec) # Unstated
  PROVE  ResolveSource(spec) = FoundAt(LocalSpec(DefaultPath, spec))
<1>1. spec.head = "self"  BY DEF LocalSpec
<1>2. Unresolved.kind # "at" /\ Foreign.kind # "at"  BY DEF Unresolved, Foreign
<1>3. ~(spec.right = <<>> \/ IsBlank(spec.right))  BY <1>2 DEF ResolveSource
<1>4. ResolveSource(spec) = Provided(Join(Workspace, spec.right), spec.right)
  BY <1>1, <1>3 DEF ResolveSource
<1>5. ResolveSource(spec) = FoundAt(Join(Workspace, spec.right))  BY <1>2, <1>4 DEF Provided
<1>6. Len(DefaultPath) = 2 /\ DefaultPath[1] = "modules"  BY DEF DefaultPath
<1>7. LocalSpec(DefaultPath, spec) = Join(Workspace, spec.right)
  BY <1>1, <1>3, <1>6 DEF LocalSpec
<1> QED BY <1>5, <1>7

\* The loader and the resolver of modules agree where a module is.
LEMMA SchemaIsFiles ==
  ASSUME ConfigTypeOK, SaysOnce, LocalModule # Unstated, ResolveEntry.kind = "at"
  PROVE  ResolveEntry = FoundAt(LocalModule)
<1> DEFINE stated == IF entry.path = Unstated THEN DefaultPath ELSE entry.path
<1>1. Unresolved.kind # "at"  BY DEF Unresolved
<1>2. entry.from = Unstated \/ entry.input = Unstated  BY DEF ConfigTypeOK, ModuleEntries
<1>3. CASE entry.from # Unstated
  <2>1. entry.path = Unstated  BY <1>3 DEF SaysOnce
  <2>2. ResolveEntry = ResolveSource(entry.from) /\ LocalModule = LocalSpec(DefaultPath, entry.from)
    BY <1>3, <2>1 DEF ResolveEntry, LocalModule
  <2> QED BY <2>2, SelfIsHere
<1>4. CASE entry.from = Unstated /\ entry.input \in {Unstated, Self}
  <2>1. ResolveEntry = FoundAt(Join(Workspace, Segment(stated)))  BY <1>4 DEF ResolveEntry
  <2>2. LocalModule = LocalSpec(stated, Self)  BY <1>4, InputsAre DEF LocalModule
  <2>3. LocalModule = Join(Workspace, Segment(stated))  BY <2>2 DEF LocalSpec, Self
  <2> QED BY <2>1, <2>3
<1>5. CASE entry.from = Unstated /\ entry.input \notin {Unstated, Self} /\ entry.input.right # <<>>
  <2>1. entry.path = Unstated  BY <1>5 DEF SaysOnce
  <2>2. ResolveEntry = ResolveSource(entry.input)  BY <1>5, <2>1 DEF ResolveEntry
  <2>3. LocalModule = LocalSpec(DefaultPath, entry.input)  BY <1>5, <2>1 DEF LocalModule
  <2> QED BY <2>2, <2>3, SelfIsHere
<1>6. CASE entry.from = Unstated /\ entry.input \notin {Unstated, Self} /\ entry.input.right = <<>>
  <2> DEFINE h == entry.input.head
             to == Under(Self, stated)
  <2>1. h \in Named /\ LocalModule = LocalSpec(stated, inputs[h].from)  BY <1>6 DEF LocalModule
  <2>2. ResolveEntry = ResolveSource(Under(inputs[h].from, stated))  BY <1>6, <2>1 DEF ResolveEntry
  <2>3. inputs[h].from.head = "self"  BY <2>1 DEF LocalSpec
  <2>4. inputs[h].from = Self  BY <1>6, <2>1, <2>3 DEF SaysOnce
  <2>5. LocalModule = Join(Workspace, Segment(stated))  BY <2>1, <2>4 DEF LocalSpec, Self
  <2>6. to.head = "self" /\ to.right = Segment(stated)
    <3>1. <<>> \o Segment(stated) = Segment(stated)  BY DEF Segment
    <3> QED BY <3>1 DEF Under, Self
  <2>7. ResolveEntry = ResolveSource(to)  BY <2>2, <2>4
  <2>8. ~HasPin(Segment(stated))  BY DEF HasPin, Segment
  <2> HIDE DEF to
  <2>9. ResolveSource(to) = Unresolved \/ ResolveSource(to) = Provided(Join(Workspace, Segment(stated)), Segment(stated))
    BY <2>6 DEF ResolveSource
  <2> QED BY <1>1, <2>5, <2>7, <2>8, <2>9 DEF Provided
<1> QED BY <1>2, <1>3, <1>4, <1>5, <1>6

\* An item lies below the path that the configuration has of its input.
LEMMA ItemIsBelow ==
  ASSUME ConfigTypeOK, Readable, NEW ref \in Item, ref.head \in Named, ResolveRef(ref).kind = "at",
         RuntimePath(ref.head) # Unstated, ~HasPin(inputs[ref.head].from.right)
  PROVE  ResolveRef(ref).place = Join(RuntimePath(ref.head), ref.right)
<1> DEFINE h == ref.head
           from == inputs[h].from
           s == ParseSource(from, inputs[h].version)
<1>1. h \in DOMAIN ModFile /\ ModFile[h] = s  BY DEF ModFile
<1>2. ~(ref.right = <<>> \/ IsBlank(ref.right))  BY DEF ResolveRef
<1>3. Unresolved.kind # "at"  BY DEF Unresolved
<1> HIDE DEF s
<1>4. ResolveRef(ref) =
        IF s.provider = "github"
        THEN IF s.repo = <<>> THEN Unresolved ELSE FoundAt(Join(Checkout(s.repo, Unstated, s.ref), ref.right))
        ELSE IF s.provider \in {"local", "self"} THEN FoundAt(Join(Base(s), ref.right))
        ELSE Unresolved
  BY <1>1, <1>2 DEF ResolveRef
<1>5. CASE h = "self" \/ from = Self
  <2>1. from = Self  BY <1>5 DEF ConfigTypeOK
  <2>2. s.provider = "self" /\ s.path = <<>>  BY <2>1 DEF s, ParseSource, Self
  <2>3. Base(s) = Workspace  BY <2>2 DEF Base
  <2>4. RuntimePath(h) = Workspace  BY <1>5 DEF RuntimePath
  <2> QED BY <1>4, <2>2, <2>3, <2>4 DEF FoundAt
<1>6. CASE ~(h = "self" \/ from = Self)
  <2>1. from \in Reference  BY <1>6, InputsAre
  <2>2. from.right # <<>> /\ ~IsBlank(from.right)  BY <1>6 DEF Readable
  <2>3. from \in Written /\ Len(from.right) <= 1  BY <2>1, SourcesAssumption
  <2>4. from.right \in Seq([at : Seq(STRING), pin : InputVersion \cup {Unstated}])  BY <2>3 DEF Written
  <2>5. Len(from.right) = 1 /\ 1 \in DOMAIN from.right  BY <2>2, <2>3, <2>4, OnlyPath
  <2>6. from.right[1].at # <<>> /\ from.right[1].pin = Unstated  BY <2>2, <2>5 DEF IsBlank, HasPin
  <2>7. CASE from.head = "github"
    <3>1. s.provider = "github" /\ s.repo = from.right[1].at /\ s.ref = inputs[h].version
      BY <2>2, <2>7 DEF s, ParseSource
    <3>2. RuntimePath(h) = Checkout(from.right[1].at, Unstated, inputs[h].version)
      BY <1>6, <2>6, <2>7 DEF RuntimePath
    <3> QED BY <1>3, <1>4, <3>1, <3>2 DEF FoundAt
  <2>8. CASE from.head = "local"
    <3>1. s.provider = "local" /\ s.path = from.right[1].at  BY <2>2, <2>8 DEF s, ParseSource
    <3>2. Base(s) = Place("workspace", from.right[1].at)  BY <2>6, <3>1 DEF Base
    <3>3. RuntimePath(h) = Place("workspace", from.right[1].at)
      BY <1>6, <2>6, <2>8 DEF RuntimePath, AsWritten
    <3> QED BY <1>4, <3>1, <3>2, <3>3 DEF FoundAt
  <2> QED BY <1>6, <2>7, <2>8 DEF RuntimePath
<1> QED BY <1>5, <1>6

\* A module and an item that state one reference mean one directory.
LEMMA SameReference ==
  ASSUME ConfigTypeOK, NEW ref \in Item, ref.head \in Named, entry.from = ref, ResolveEntry.kind = "at"
  PROVE  ResolveEntry = ResolveRef(ref)
<1> DEFINE h == ref.head
           s == ModFile[h]
<1>1. Unresolved.kind # "at" /\ Foreign.kind # "at"  BY DEF Unresolved, Foreign
<1>2. ref # Unstated  BY SourcesAssumption
<1>3. ResolveEntry = ResolveSource(ref)  BY <1>2 DEF ResolveEntry
<1>4. ~(ref.right = <<>> \/ IsBlank(ref.right))  BY <1>1, <1>3 DEF ResolveSource
<1>5. h \in DOMAIN ModFile /\ s = ParseSource(inputs[h].from, inputs[h].version)  BY DEF ModFile
<1> HIDE DEF s
<1>6. s.provider \in {"local", "self"} => ResolveRef(ref) = FoundAt(Join(Base(s), ref.right))
  BY <1>4, <1>5 DEF ResolveRef, s
<1>7. CASE h = "self"
  <2>1. s.provider = "self" /\ s.path = <<>>  BY <1>5, <1>7 DEF ParseSource, Self, ConfigTypeOK
  <2>2. Base(s) = Workspace  BY <2>1 DEF Base
  <2>3. ResolveSource(ref) = Provided(Join(Workspace, ref.right), ref.right)
    BY <1>4, <1>7 DEF ResolveSource
  <2> QED BY <1>1, <1>3, <1>6, <2>1, <2>2, <2>3 DEF Provided
<1>8. CASE h # "self"
  <2>1. s.provider \in {"self", "local"}
        /\ ResolveSource(ref) = Provided(Join(Base(Overlaid(h)), ref.right), ref.right)
    BY <1>1, <1>3, <1>4, <1>8 DEF ResolveSource, s
  <2>2. Overlaid(h).path = s.path /\ Overlaid(h).provider = s.provider
    BY <1>5 DEF Overlaid, s, ParseSource
  <2>3. Base(Overlaid(h)) = Base(s)  BY <2>2 DEF Base
  <2> QED BY <1>1, <1>3, <1>6, <2>1, <2>3 DEF Provided
<1> QED BY <1>7, <1>8

\* Nothing of the configuration changes while a plan is made.
LEMMA ConfigStays ==
  ASSUME UNCHANGED Config
  PROVE  /\ ConfigTypeOK' = ConfigTypeOK /\ Named' = Named /\ Readable' = Readable
         /\ LocalModule' = LocalModule /\ ResolveEntry' = ResolveEntry
         /\ ResolveRef(itemRef)' = ResolveRef(itemRef)
         /\ [n \in Named |-> RuntimePath(n)]' = [n \in Named |-> RuntimePath(n)]
<1> USE DEF Config
<1>1. inputs' = inputs /\ entry' = entry /\ itemRef' = itemRef /\ lockRows' = lockRows  OBVIOUS
<1>2. ConfigTypeOK' = ConfigTypeOK  BY <1>1 DEF ConfigTypeOK, ModuleEntries
<1>3. Named' = Named  BY <1>1 DEF Named
<1>4. Readable' = Readable  BY <1>1, <1>3 DEF Readable
<1>5. ModFile' = ModFile  BY <1>1, <1>3 DEF ModFile
<1>6. LocalModule' = LocalModule  BY <1>1, <1>3 DEF LocalModule
<1>7. \A spec : ResolveSource(spec)' = ResolveSource(spec)
  BY <1>1, <1>5 DEF ResolveSource, LockMismatch, Overlaid, FindSource
<1>8. ResolveEntry' = ResolveEntry  BY <1>1, <1>3, <1>7 DEF ResolveEntry
<1>9. ResolveRef(itemRef)' = ResolveRef(itemRef)  BY <1>1, <1>5 DEF ResolveRef
<1>10. [n \in Named |-> RuntimePath(n)]' = [n \in Named |-> RuntimePath(n)]
  BY <1>1, <1>3 DEF RuntimePath
<1> QED BY <1>2, <1>3, <1>4, <1>6, <1>8, <1>9, <1>10

LEMMA SrcInvInductive == SrcInv /\ [SrcNext]_srcVars => SrcInv'
<1> SUFFICES ASSUME SrcInv, [SrcNext]_srcVars PROVE SrcInv'  OBVIOUS
<1>1. UNCHANGED Config  BY DEF SrcNext, Load, ScanModule, Prepare, Config, srcVars
<1>2. ConfigTypeOK'  BY <1>1, ConfigStays DEF SrcInv
<1>3. CASE Load
  <2>1. phase' \in {"modules", "failed"}  BY <1>3 DEF Load
  <2>2. phase' = "modules" => Readable /\ runtime' = [n \in Named |-> RuntimePath(n)] /\ schema' = LocalModule
    BY <1>3 DEF Load
  <2> QED BY <1>1, <1>2, <2>1, <2>2, ConfigStays DEF SrcInv
<1>4. CASE ScanModule
  <2>1. phase = "modules" /\ phase' \in {"items", "failed"} /\ UNCHANGED <<runtime, schema>>
    BY <1>4 DEF ScanModule
  <2>2. files' = ResolveEntry /\ (phase' = "items" => files'.kind = "at")  BY <1>4 DEF ScanModule
  <2> QED BY <1>1, <1>2, <2>1, <2>2, ConfigStays DEF SrcInv
<1>5. CASE Prepare
  <2>1. phase = "items" /\ phase' \in {"done", "failed"} /\ UNCHANGED <<runtime, schema, files>>
    BY <1>5 DEF Prepare
  <2>2. target' = ResolveRef(itemRef)  BY <1>5 DEF Prepare
  <2> QED BY <1>1, <1>2, <2>1, <2>2, ConfigStays DEF SrcInv
<1>6. CASE UNCHANGED srcVars
  <2>1. UNCHANGED <<phase, runtime, schema, files, target>>  BY <1>6 DEF srcVars
  <2> QED BY <1>1, <1>2, <2>1, ConfigStays DEF SrcInv
<1> QED BY <1>3, <1>4, <1>5, <1>6 DEF SrcNext

LEMMA RoadsDoMeet == SrcInv => RoadsMeet
<1> SUFFICES ASSUME SrcInv PROVE RoadsMeet  OBVIOUS
<1>1. ASSUME phase \in {"items", "done"}, schema # Unstated, SaysOnce PROVE files = FoundAt(schema)
  BY <1>1, SchemaIsFiles DEF SrcInv
<1>2. ASSUME phase = "done", target.kind = "at", itemRef.head \in Named
      PROVE  /\ (runtime[itemRef.head] # Unstated /\ ~ HasPin(inputs[itemRef.head].from.right))
                  => target.place = Join(runtime[itemRef.head], itemRef.right)
             /\ (entry.from = itemRef => files = target)
  <2>1. itemRef \in Item /\ runtime[itemRef.head] = RuntimePath(itemRef.head)
    BY <1>2 DEF SrcInv, ConfigTypeOK
  <2>2. Readable /\ target = ResolveRef(itemRef) /\ files = ResolveEntry /\ files.kind = "at"
    BY <1>2 DEF SrcInv
  <2> QED BY <1>2, <2>1, <2>2, ItemIsBelow, SameReference DEF SrcInv
<1> QED BY <1>1, <1>2 DEF RoadsMeet

\* Wherever a module says that it is and whatever an item names, of any inputs
\* and lock file: the loader takes a module's schema from where its files are,
\* an item is found below the path that the configuration has of its input, and
\* a module and an item of one reference are in one place.
THEOREM RoadsAlwaysMeet == SrcSpec => []RoadsMeet
<1>1. SrcInit => SrcInv  BY DEF SrcInit, SrcInv, ConfigTypeOK
<1>2. SrcInv /\ [SrcNext]_srcVars => SrcInv'  BY SrcInvInductive
<1>3. SrcInv => RoadsMeet  BY RoadsDoMeet
<1> QED BY <1>1, <1>2, <1>3, PTL DEF SrcSpec

-----------------------------------------------------------------------------
(* Shims: which version is run.                                            *)

\* What a shim looks for is what the nearest file, or the environment, says.
WantIsRight ==
  /\ want = AnyVersion => var = Unasked /\ \A i \in DOMAIN lines : lines[i] = Unasked
  /\ want # AnyVersion =>
       \/ \E i \in DOMAIN lines : lines[i] = want /\ \A j \in 1 .. i - 1 : lines[j] = Unasked
       \/ var = want /\ \A i \in DOMAIN lines : lines[i] = Unasked

ShimTypeOK ==
  /\ dirs = [p \in Package |-> dirs[p]]
  /\ lines \in [1 .. Levels -> Asked \cup {Unasked, "unreadable"}] /\ var \in Asked \cup {Unasked}
  /\ shimAt \in {"version", "package", "try", "run", "notfound", "failed"}
  /\ pkg \in 1 .. Len(Packages) + 1 /\ names \subseteq Name
  /\ candidates \in Seq(Package \X Name)

\* What has been found is of the version that is looked for.
FoundIsAsked ==
  /\ shimAt = "version" => candidates = <<>> /\ pkg = 1
  /\ shimAt \in {"package", "try", "run", "notfound"} => WantIsRight
  /\ shimAt = "try" =>
       pkg <= Len(Packages) /\ \A n \in names : want = AnyVersion \/ (n.kind = "live" /\ n.of = want)
  /\ \A k \in DOMAIN candidates : want \in {AnyVersion, candidates[k][2].of}
  /\ shimAt = "run" => candidates # <<>>
  /\ shimAt = "notfound" => candidates = <<>> /\ pkg = Len(Packages) + 1

\* Nobody installing, the packages before this one are settled.
FoundIsNewest ==
  calm =>
    /\ replacing = Resting /\ ListInstalled = InstalledTools
    /\ candidates = <<>> => \A x \in Meant : \A i \in 1 .. pkg - 1 : Packages[i] # x[1]
    /\ candidates # <<>> =>
         /\ candidates[1] \in Meant
         /\ \E i \in DOMAIN Packages :
              /\ candidates[1][1] = Packages[i]
              /\ \A x \in Meant : \A j \in 1 .. i - 1 : Packages[j] # x[1]
         /\ \A x \in Meant : x[1] = candidates[1][1] => ~Less(candidates[1][2], x[2])
    /\ shimAt = "try" => \A x \in Meant : x[1] = Packages[pkg] => x[2] \in names

ShimInv == ShimTypeOK /\ FoundIsAsked /\ FoundIsNewest

-----------------------------------------------------------------------------

LEMMA PackagesAre ==
  /\ Len(Packages) \in Nat /\ DOMAIN Packages = 1 .. Len(Packages)
  /\ \A i \in 1 .. Len(Packages) : Packages[i] \in Package
  /\ \A p \in Package : \E i \in 1 .. Len(Packages) : Packages[i] = p
  /\ \A i, j \in 1 .. Len(Packages) : Packages[i] = Packages[j] => i = j
<1>1. Packages \in Seq(Package) /\ IsInjective(Packages)  BY ShimsAssumption
<1>2. Len(Packages) \in Nat /\ DOMAIN Packages = 1 .. Len(Packages)  BY <1>1
<1>3. Package = {Packages[i] : i \in DOMAIN Packages}  BY DEF Package, ToSet
<1> QED BY <1>1, <1>2, <1>3 DEF IsInjective

LEMMA LongerAtTheEnd ==
  ASSUME NEW S, NEW s \in Seq(S), NEW e \in S
  PROVE  LET t == Append(s, e)
         IN  /\ t \in Seq(S) /\ t # <<>>
             /\ s = <<>> => t[1] = e
             /\ s # <<>> => t[1] = s[1]
             /\ \A k \in DOMAIN t : t[k] = e \/ (k \in DOMAIN s /\ t[k] = s[k])
<1> DEFINE t == Append(s, e)
<1>1. /\ Len(s) \in Nat /\ DOMAIN s = 1 .. Len(s) /\ t \in Seq(S) /\ Len(t) = Len(s) + 1
      /\ DOMAIN t = 1 .. Len(s) + 1 /\ t[Len(s) + 1] = e
      /\ \A k \in 1 .. Len(s) : t[k] = s[k]
  OBVIOUS
<1>2. s = <<>> => Len(s) = 0  OBVIOUS
<1>3. s # <<>> => Len(s) # 0  OBVIOUS
<1>4. t # <<>>
  <2>1. Len(<<>>) = 0  OBVIOUS
  <2> QED BY <1>1, <2>1
<1> HIDE DEF t
<1>5. s = <<>> => t[1] = e  BY <1>1, <1>2
<1>6. s # <<>> => t[1] = s[1]
  <2>1. s # <<>> => 1 \in 1 .. Len(s)  BY <1>1, <1>3
  <2> QED BY <1>1, <2>1
<1>7. ASSUME NEW k \in DOMAIN t PROVE t[k] = e \/ (k \in DOMAIN s /\ t[k] = s[k])
  <2>1. k = Len(s) + 1 \/ k \in 1 .. Len(s)  BY <1>1, <1>7
  <2> QED BY <1>1, <2>1
<1> QED BY <1>1, <1>4, <1>5, <1>6, <1>7 DEF t

LEMMA PositionIs ==
  ASSUME NEW i \in 1 .. Len(Packages) PROVE Position(Packages[i]) = i
<1>1. \E j \in DOMAIN Packages : Packages[j] = Packages[i]  BY PackagesAre
<1> QED BY <1>1, PackagesAre DEF Position

\* Which versions are meant, and where, is the same while the directories are.
LEMMA MeantStays ==
  ASSUME UNCHANGED <<dirs, want>>
  PROVE  Meant' = Meant /\ ListInstalled' = ListInstalled /\ InstalledTools' = InstalledTools
BY DEF Meant, ListInstalled, InstalledTools, CheckBin

LEMMA ShimInitInv == ShimsInit => ShimInv
<1> SUFFICES ASSUME ShimsInit PROVE ShimInv  OBVIOUS
<1>1. PICK x \in Wants : lines = x[1] /\ var = x[2]  BY DEF ShimsInit
<1>2. lines \in [1 .. Levels -> Asked \cup {Unasked, "unreadable"}] /\ var \in Asked \cup {Unasked}
  BY <1>1, ShimsAssumption
<1>3. /\ shimAt = "version" /\ pkg = 1 /\ names = {} /\ candidates = <<>> /\ replacing = Resting
      /\ calm = (ListInstalled = InstalledTools) /\ dirs = [p \in Package |-> dirs[p]]
  BY DEF ShimsInit
<1>4. candidates \in Seq(Package \X Name) /\ DOMAIN candidates = {}  BY <1>3
<1>5. ShimTypeOK  BY <1>2, <1>3, <1>4, PackagesAre DEF ShimTypeOK
<1>6. FoundIsAsked  BY <1>3, <1>4 DEF FoundIsAsked
<1>7. FoundIsNewest
  <2>1. calm => ListInstalled = InstalledTools
    <3> SUFFICES ASSUME calm PROVE ListInstalled = InstalledTools  OBVIOUS
    <3> HIDE DEF ListInstalled
    <3> QED BY <1>3
  <2>2. 1 .. pkg - 1 = {}  BY <1>3
  <2>3. shimAt # "try"  BY <1>3
  <2> QED BY <1>3, <2>1, <2>2, <2>3 DEF FoundIsNewest
<1> QED BY <1>5, <1>6, <1>7 DEF ShimInv

-----------------------------------------------------------------------------
(* The shim.                                                               *)

LEMMA ResolveVersionInv == ShimInv /\ ResolveVersion => ShimInv'
<1> SUFFICES ASSUME ShimInv, ResolveVersion PROVE ShimInv'  OBVIOUS
<1>1. /\ shimAt = "version" /\ candidates = <<>> /\ pkg = 1 /\ shimAt' \in {"package", "failed"}
      /\ UNCHANGED <<dirs, lines, var, pkg, names, candidates, replacing, calm, installs>>
  BY DEF ResolveVersion, ShimInv, FoundIsAsked
<1>2. ASSUME shimAt' = "package" PROVE WantIsRight'
  <2>1. CASE (\A i \in DOMAIN lines : lines[i] = Unasked) /\ want' = (IF var # Unasked THEN var ELSE AnyVersion)
    <3>1. var \in Asked \cup {Unasked} /\ AnyVersion \notin Asked
      BY ShimsAssumption DEF ShimInv, ShimTypeOK
    <3>2. CASE var # Unasked  BY <1>1, <2>1, <3>1, <3>2 DEF WantIsRight
    <3>3. CASE var = Unasked  BY <1>1, <2>1, <3>3 DEF WantIsRight
    <3> QED BY <3>2, <3>3
  <2>2. ASSUME NEW i \in DOMAIN lines, lines[i] # Unasked, \A j \in 1 .. i - 1 : lines[j] = Unasked,
               want' = lines[i]
        PROVE  WantIsRight'
    <3>1. lines[i] # AnyVersion  BY <2>2, ShimsAssumption DEF ShimInv, ShimTypeOK
    <3> QED BY <1>1, <2>2, <3>1 DEF WantIsRight
  <2> QED BY <1>2, <2>1, <2>2 DEF ResolveVersion
<1>3. ShimTypeOK'  BY <1>1 DEF ShimInv, ShimTypeOK
<1>4. FoundIsAsked'
  <2>1. DOMAIN candidates = {}  BY <1>1
  <2> QED BY <1>1, <1>2, <2>1 DEF FoundIsAsked
<1>5. FoundIsNewest'
  <2>1. ListInstalled' = ListInstalled /\ InstalledTools' = InstalledTools
    BY <1>1 DEF ListInstalled, InstalledTools
  <2>2. 1 .. pkg - 1 = {}  BY <1>1
  <2> QED BY <1>1, <2>1, <2>2 DEF FoundIsNewest, ShimInv
<1> QED BY <1>3, <1>4, <1>5 DEF ShimInv

LEMMA ReadPackageInv == ShimInv /\ ReadPackage => ShimInv'
<1> SUFFICES ASSUME ShimInv, ReadPackage PROVE ShimInv'  OBVIOUS
<1>1. /\ shimAt = "package" /\ pkg <= Len(Packages) /\ shimAt' = "try"
      /\ names' = {n \in Listed(Packages[pkg]) : want = AnyVersion \/ (n.kind = "live" /\ n.of = want)}
      /\ UNCHANGED <<dirs, lines, var, want, pkg, candidates, replacing, calm, installs>>
  BY DEF ReadPackage
<1>2. ShimTypeOK'  BY <1>1 DEF ShimInv, ShimTypeOK, Listed
<1>3. WantIsRight' /\ FoundIsAsked'  BY <1>1 DEF ShimInv, FoundIsAsked, WantIsRight
<1>4. ASSUME NEW x \in Meant, x[1] = Packages[pkg] PROVE x[2] \in names'
  <2>1. /\ x \in Package \X Name /\ x[2].kind = "live" /\ dirs[x[1]][x[2]] \in {"whole", "other"}
        /\ want \in {AnyVersion, x[2].of}
    BY DEF Meant, InstalledTools
  <2>2. x[2] \in Listed(Packages[pkg])  BY <1>4, <2>1 DEF Listed
  <2> QED BY <1>1, <2>1, <2>2
<1>5. FoundIsNewest'  BY <1>1, <1>4, MeantStays DEF ShimInv, FoundIsNewest
<1> QED BY <1>2, <1>3, <1>5 DEF ShimInv

\* A name that is tried has the tool or has not.
LEMMA TryInv == ShimInv /\ Try => ShimInv'
<1> SUFFICES ASSUME ShimInv, Try PROVE ShimInv'  OBVIOUS
<1> DEFINE p == Packages[pkg]
<1>1. /\ shimAt = "try" /\ pkg \in 1 .. Len(Packages)
      /\ UNCHANGED <<dirs, lines, var, want, replacing, calm, installs>>
  BY PackagesAre DEF Try, ShimInv, FoundIsAsked, ShimTypeOK
<1>2. WantIsRight' /\ WantIsRight  BY <1>1 DEF ShimInv, FoundIsAsked, WantIsRight
<1>3. Meant' = Meant /\ ListInstalled' = ListInstalled /\ InstalledTools' = InstalledTools
  BY <1>1, MeantStays
<1>4. p \in Package /\ candidates \in Seq(Package \X Name)
  BY <1>1, PackagesAre DEF ShimInv, ShimTypeOK
<1>5. CASE names = {} /\ pkg' = pkg + 1 /\ shimAt' = "package" /\ UNCHANGED <<names, candidates>>
  <2>1. ShimTypeOK'  BY <1>1, <1>5, PackagesAre DEF ShimInv, ShimTypeOK
  <2>2. FoundIsAsked'  BY <1>1, <1>2, <1>5 DEF ShimInv, FoundIsAsked
  <2>3. ASSUME calm, NEW x \in Meant, candidates = <<>>, NEW i \in 1 .. pkg PROVE Packages[i] # x[1]
    <3>1. x[1] # p  BY <1>1, <1>5, <2>3 DEF ShimInv, FoundIsNewest
    <3>2. i = pkg \/ i \in 1 .. pkg - 1  BY <1>1, PackagesAre
    <3> QED BY <2>3, <3>1, <3>2 DEF ShimInv, FoundIsNewest
  <2>4. 1 .. pkg' - 1 = 1 .. pkg  BY <1>1, <1>5
  <2>5. FoundIsNewest'  BY <1>1, <1>3, <1>5, <2>3, <2>4 DEF ShimInv, FoundIsNewest
  <2> QED BY <2>1, <2>2, <2>5 DEF ShimInv
<1>6. ASSUME NEW n \in NewestOf(names), ~CheckBin(p, n), names' = names \ {n},
             UNCHANGED <<shimAt, pkg, candidates>>
      PROVE  ShimInv'
  <2>1. ShimTypeOK'  BY <1>1, <1>6 DEF ShimInv, ShimTypeOK
  <2>2. FoundIsAsked'  BY <1>1, <1>2, <1>6 DEF ShimInv, FoundIsAsked
  <2>3. ASSUME calm, NEW x \in Meant, x[1] = p PROVE x[2] \in names'
    <3>1. x[2] \in names  BY <1>1, <2>3 DEF ShimInv, FoundIsNewest
    <3>2. CheckBin(p, x[2])  BY <2>3 DEF Meant
    <3> QED BY <1>6, <3>1, <3>2
  <2>4. FoundIsNewest'  BY <1>1, <1>3, <1>6, <2>3 DEF ShimInv, FoundIsNewest
  <2> QED BY <2>1, <2>2, <2>4 DEF ShimInv
<1>7. ASSUME NEW n \in NewestOf(names), CheckBin(p, n), candidates' = Append(candidates, <<p, n>>),
             names' = {}, pkg' = pkg + 1, shimAt' = "package"
      PROVE  ShimInv'
  <2>1. n \in names /\ n \in Name /\ \A m \in names : ~Less(n, m)
    BY <1>7 DEF NewestOf, ShimInv, ShimTypeOK
  <2>2. <<p, n>> \in Package \X Name  BY <1>4, <2>1
  <2>3. /\ candidates' \in Seq(Package \X Name) /\ candidates' # <<>>
        /\ candidates = <<>> => candidates'[1] = <<p, n>>
        /\ candidates # <<>> => candidates'[1] = candidates[1]
        /\ \A k \in DOMAIN candidates' : candidates'[k] = <<p, n>>
             \/ (k \in DOMAIN candidates /\ candidates'[k] = candidates[k])
    BY <1>4, <1>7, <2>2, LongerAtTheEnd
  <2>4. ShimTypeOK'  BY <1>1, <1>7, <2>3, PackagesAre DEF ShimInv, ShimTypeOK
  <2>5. want \in {AnyVersion, n.of}  BY <1>1, <2>1 DEF ShimInv, FoundIsAsked
  <2>6. FoundIsAsked'
    <3>1. \A k \in DOMAIN candidates : want \in {AnyVersion, candidates[k][2].of}
      BY DEF ShimInv, FoundIsAsked
    <3>2. \A k \in DOMAIN candidates' : want' \in {AnyVersion, candidates'[k][2].of}
      BY <1>1, <2>3, <2>5, <3>1
    <3> QED BY <1>2, <1>7, <3>2 DEF FoundIsAsked
  <2>7. ASSUME calm, candidates = <<>>
        PROVE  /\ <<p, n>> \in Meant /\ \A x \in Meant : x[1] = p => ~Less(n, x[2])
               /\ \A x \in Meant : \A j \in 1 .. pkg - 1 : Packages[j] # x[1]
    <3>1. dirs[p][n] # "gone"  BY <1>7 DEF CheckBin
    <3>2. <<p, n>> \in InstalledTools
      BY <2>2, <2>7, <3>1 DEF ListInstalled, ShimInv, FoundIsNewest
    <3>3. <<p, n>> \in Meant  BY <1>7, <2>5, <3>2 DEF Meant
    <3>4. \A x \in Meant : x[1] = p => x[2] \in names  BY <1>1, <2>7 DEF ShimInv, FoundIsNewest
    <3>5. \A x \in Meant : \A j \in 1 .. pkg - 1 : Packages[j] # x[1]
      BY <2>7 DEF ShimInv, FoundIsNewest
    <3> QED BY <2>1, <3>3, <3>4, <3>5
  <2>8. FoundIsNewest'
    <3> SUFFICES ASSUME calm PROVE FoundIsNewest'  BY <1>1 DEF FoundIsNewest
    <3>1. replacing' = Resting /\ ListInstalled' = InstalledTools' /\ shimAt' # "try" /\ candidates' # <<>>
      BY <1>1, <1>3, <1>7, <2>3 DEF ShimInv, FoundIsNewest
    <3>2. CASE candidates = <<>>
      <4>1. candidates'[1] = <<p, n>> /\ pkg \in DOMAIN Packages
        BY <1>1, <2>3, <3>2, PackagesAre
      <4>2. /\ candidates'[1] \in Meant' /\ candidates'[1][1] = p
            /\ \A x \in Meant' : x[1] = candidates'[1][1] => ~Less(candidates'[1][2], x[2])
            /\ \A x \in Meant' : \A j \in 1 .. pkg - 1 : Packages[j] # x[1]
        BY <1>3, <2>7, <3>2, <4>1
      <4> QED BY <3>1, <4>1, <4>2 DEF FoundIsNewest, Less
    <3>3. CASE candidates # <<>>
      <4>1. candidates'[1] = candidates[1]  BY <2>3, <3>3
      <4> QED BY <1>3, <3>1, <3>3, <4>1 DEF ShimInv, FoundIsNewest
    <3> QED BY <3>2, <3>3
  <2> QED BY <2>4, <2>6, <2>8 DEF ShimInv
<1> QED BY <1>5, <1>6, <1>7 DEF Try

LEMMA ResolvedInv == ShimInv /\ Resolved => ShimInv'
<1> SUFFICES ASSUME ShimInv, Resolved PROVE ShimInv'  OBVIOUS
<1>1. /\ shimAt = "package" /\ pkg = Len(Packages) + 1
      /\ shimAt' = IF candidates = <<>> THEN "notfound" ELSE "run"
      /\ UNCHANGED <<dirs, lines, var, want, pkg, names, candidates, replacing, calm, installs>>
  BY PackagesAre DEF Resolved, ShimInv, ShimTypeOK
<1>2. ShimTypeOK'  BY <1>1 DEF ShimInv, ShimTypeOK
<1>3. FoundIsAsked'  BY <1>1 DEF ShimInv, FoundIsAsked, WantIsRight
<1>4. FoundIsNewest'  BY <1>1, MeantStays DEF ShimInv, FoundIsNewest
<1> QED BY <1>2, <1>3, <1>4 DEF ShimInv

-----------------------------------------------------------------------------
(* An install.                                                             *)

\* An install that is under way leaves the shim alone.
LEMMA InstallGoesOn ==
  ASSUME ShimInv, UNCHANGED <<lines, var, shimAt, want, pkg, names, candidates>>, ~calm',
         dirs' = [p \in Package |-> dirs'[p]]
  PROVE  ShimInv'
<1>1. ShimTypeOK'  BY DEF ShimInv, ShimTypeOK
<1>2. FoundIsAsked'  BY DEF ShimInv, FoundIsAsked, WantIsRight
<1> QED BY <1>1, <1>2 DEF ShimInv, FoundIsNewest

LEMMA InstallsInv ==
  ASSUME ShimInv,
         \/ \E p \in Package, v \in ToolVersion : InstallBegins(p, v)
         \/ FetchProgram \/ FetchRest \/ MovesAside \/ MovesIn
         \/ InstallEnds \/ InstallFails \/ InstallCrashes
  PROVE  ShimInv'
<1>1. dirs = [p \in Package |-> dirs[p]]  BY DEF ShimInv, ShimTypeOK
<1>2. CASE \E p \in Package, v \in ToolVersion : InstallBegins(p, v)
  <2>1. PICK p \in Package, v \in ToolVersion : InstallBegins(p, v)  BY <1>2
  <2>2. /\ UNCHANGED <<lines, var, shimAt, want, pkg, names, candidates>> /\ ~calm'
        /\ dirs' = [dirs EXCEPT ![p][[of |-> v, kind |-> "tmp"]] = "bare"]
    BY <2>1 DEF InstallBegins
  <2>3. dirs' = [q \in Package |-> dirs'[q]]  BY <1>1, <2>2
  <2> QED BY <2>2, <2>3, InstallGoesOn
<1>3. ASSUME NEW changes, Holding(changes) PROVE dirs' = [p \in Package |-> dirs'[p]]
  BY <1>1, <1>3 DEF Holding
<1>4. CASE FetchProgram \/ FetchRest \/ MovesAside \/ MovesIn \/ InstallEnds \/ InstallFails \/ InstallCrashes
  <2>1. replacing # Resting
    <3>1. Resting.step = "none"  BY DEF Resting
    <3> QED BY <1>4, <3>1 DEF FetchProgram, FetchRest, MovesAside, MovesIn, InstallEnds, InstallFails,
                              InstallCrashes, Step
  <2>2. ~calm  BY <2>1 DEF ShimInv, FoundIsNewest
  <2>3. UNCHANGED <<lines, var, shimAt, want, pkg, names, candidates, calm>>
    BY <1>4 DEF FetchProgram, FetchRest, MovesAside, MovesIn, InstallEnds, InstallFails,
                InstallCrashes, shimOnly
  <2>4. dirs' = [p \in Package |-> dirs'[p]]
    <3>1. CASE InstallCrashes  BY <1>1, <3>1 DEF InstallCrashes
    <3>2. CASE ~InstallCrashes
      <4>1. \E changes : Holding(changes)
        BY <1>4, <3>2 DEF FetchProgram, FetchRest, MovesAside, MovesIn, InstallEnds, InstallFails
      <4> QED BY <1>3, <4>1
    <3> QED BY <3>1, <3>2
  <2> QED BY <2>2, <2>3, <2>4, InstallGoesOn
<1> QED BY <1>2, <1>4

LEMMA ShimInvInductive == ShimInv /\ [ShimsNext]_svars => ShimInv'
<1> SUFFICES ASSUME ShimInv, [ShimsNext]_svars PROVE ShimInv'  OBVIOUS
<1>1. CASE UNCHANGED svars
  <2>1. UNCHANGED <<dirs, lines, var, shimAt, want, pkg, names, candidates, replacing, calm>>
    BY <1>1 DEF svars
  <2>2. ShimTypeOK'  BY <2>1 DEF ShimInv, ShimTypeOK
  <2>3. FoundIsAsked'  BY <2>1 DEF ShimInv, FoundIsAsked, WantIsRight
  <2>4. FoundIsNewest'  BY <2>1, MeantStays DEF ShimInv, FoundIsNewest
  <2> QED BY <2>2, <2>3, <2>4 DEF ShimInv
<1> QED BY <1>1, ResolveVersionInv, ReadPackageInv, TryInv, ResolvedInv, InstallsInv DEF ShimsNext

LEMMA ShimsAreRight == ShimInv => ShimIsRight
<1> SUFFICES ASSUME ShimInv PROVE ShimIsRight  OBVIOUS
<1>1. ASSUME shimAt = "run" PROVE candidates # <<>> /\ 1 \in DOMAIN candidates /\ want \in {AnyVersion, candidates[1][2].of}
  <2>1. candidates # <<>> /\ candidates \in Seq(Package \X Name)
    BY <1>1 DEF ShimInv, FoundIsAsked, ShimTypeOK
  <2>2. 1 \in DOMAIN candidates  BY <2>1
  <2> QED BY <2>1, <2>2 DEF ShimInv, FoundIsAsked
<1>2. shimAt = "run" => WantIsRight  BY DEF ShimInv, FoundIsAsked
<1>3. calm => ListInstalled = InstalledTools  BY DEF ShimInv, FoundIsNewest
<1>4. ASSUME calm, shimAt = "notfound" PROVE Meant = {}
  <2> SUFFICES ASSUME NEW x \in Meant PROVE FALSE  OBVIOUS
  <2>1. x[1] \in Package  BY DEF Meant, InstalledTools
  <2>2. PICK i \in 1 .. Len(Packages) : Packages[i] = x[1]  BY <2>1, PackagesAre
  <2>3. candidates = <<>> /\ pkg = Len(Packages) + 1  BY <1>4 DEF ShimInv, FoundIsAsked
  <2>4. i \in 1 .. pkg - 1  BY <2>3, PackagesAre
  <2> QED BY <1>4, <2>2, <2>3, <2>4 DEF ShimInv, FoundIsNewest
<1>5. ASSUME calm, shimAt = "run"
      PROVE  /\ candidates[1] \in Meant
             /\ \A x \in Meant :
                  /\ Position(candidates[1][1]) <= Position(x[1])
                  /\ x[1] = candidates[1][1] => ~Less(candidates[1][2], x[2])
  <2>1. PICK i \in DOMAIN Packages :
          /\ candidates[1][1] = Packages[i]
          /\ \A x \in Meant : \A j \in 1 .. i - 1 : Packages[j] # x[1]
    BY <1>1, <1>5 DEF ShimInv, FoundIsNewest
  <2>2. i \in 1 .. Len(Packages) /\ Len(Packages) \in Nat  BY PackagesAre
  <2>3. Position(candidates[1][1]) = i  BY <2>1, <2>2, PositionIs
  <2>4. ASSUME NEW x \in Meant PROVE i <= Position(x[1])
    <3>1. x[1] \in Package  BY DEF Meant, InstalledTools
    <3>2. PICK k \in 1 .. Len(Packages) : Packages[k] = x[1]  BY <3>1, PackagesAre
    <3>3. Position(x[1]) = k  BY <3>2, PositionIs
    <3>4. k \notin 1 .. i - 1  BY <2>1, <3>2
    <3> QED BY <2>2, <3>2, <3>3, <3>4
  <2> QED BY <1>1, <1>5, <2>3, <2>4 DEF ShimInv, FoundIsNewest
<1> QED BY <1>1, <1>2, <1>3, <1>4, <1>5 DEF ShimIsRight, WantIsRight

\* Whatever packages and versions are installed, whatever the files and the
\* environment ask for, and whatever crashes have left: a shim runs a version
\* that was asked for by the nearest file; with nobody installing, and nothing
\* left behind, it is whole, of the first package that has one, and the newest.
THEOREM ShimsRunRight == ShimsSpec => []ShimIsRight
<1>1. ShimsInit => ShimInv  BY ShimInitInv
<1>2. ShimInv /\ [ShimsNext]_svars => ShimInv'  BY ShimInvInductive
<1>3. ShimInv => ShimIsRight  BY ShimsAreRight
<1> QED BY <1>1, <1>2, <1>3, PTL DEF ShimsSpec
=============================================================================
