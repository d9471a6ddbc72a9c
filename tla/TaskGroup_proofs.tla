-------------------------- MODULE TaskGroup_proofs --------------------------
(***************************************************************************)
(* Proofs about TaskGroup for every choice of tasks, groups, pools, limits *)
(* and dependencies.                                                       *)
(***************************************************************************)
EXTENDS TaskGroup, FiniteSetTheorems, SequenceTheorems, WellFoundedInduction, TLAPS

USE GroupAssumption, TableAssumption

----------------------------------------------------------------------------
(* Every nonempty set of tasks has a newest one: CHOOSE in Latest denotes  *)
(* a member.  By minimality of the set of newer tasks.                     *)
LEMMA LatestExists ==
  ASSUME id \in [Task -> Nat], NEW S \in SUBSET Task, S # {}
  PROVE  Latest(S) \in S /\ \A v \in S : id[v] <= id[Latest(S)]
<1> DEFINE Newer(u) == {v \in S : id[u] < id[v]}
           R == StrictSubsetOrdering(S)
           F == {Newer(u) : u \in S}
<1>1. IsFiniteSet(S)
  BY FS_Subset, GroupAssumption
<1>2. F \subseteq FiniteSubsetsOf(S) /\ F # {}
  <2>1. \A u \in S : Newer(u) \in SUBSET S
    OBVIOUS
  <2>2. \A u \in S : IsFiniteSet(Newer(u))
    BY <1>1, <2>1, FS_Subset
  <2>3. \A u \in S : Newer(u) \in FiniteSubsetsOf(S)
    <3> HIDE DEF Newer
    <3> QED BY <2>1, <2>2 DEF FiniteSubsetsOf
  <2>4. F # {}
    <3>1. PICK u : u \in S
      OBVIOUS
    <3> HIDE DEF Newer
    <3> QED BY <3>1
  <2> HIDE DEF Newer
  <2> QED BY <2>3, <2>4
<1>3. PICK X \in F : \A Y \in F : <<Y, X>> \notin R
  <2>1. IsWellFoundedOn(R, FiniteSubsetsOf(S))
    BY FS_StrictSubsetOrderingWellFounded
  <2> HIDE DEF F, R
  <2> QED BY <1>2, <2>1, WFMin
<1>4. PICK u \in S : X = Newer(u)
  BY <1>3
<1>5. \A v \in S : id[v] <= id[u]
  <2> SUFFICES ASSUME NEW v \in S, ~(id[v] <= id[u]) PROVE FALSE
    OBVIOUS
  <2>1. id[u] < id[v] /\ id[u] \in Nat /\ id[v] \in Nat
    OBVIOUS
  <2>2. v \in X /\ v \notin Newer(v)
    BY <2>1, <1>4
  <2>3. Newer(v) \subseteq X
    BY <2>1, <1>4
  <2>4. <<Newer(v), X>> \in R
    BY <2>2, <2>3, <1>4 DEF StrictSubsetOrdering
  <2> QED BY <1>3, <2>4
<1> QED BY <1>5 DEF Latest
LEMMA RemoveOne ==
  ASSUME NEW S, IsFiniteSet(S), NEW x \in S
  PROVE  Cardinality(S \ {x}) = Cardinality(S) - 1
BY FS_RemoveElement, Zenon

LEMMA CountType ==
  ASSUME NEW n \in Nat, NEW S \in SUBSET (1 .. n)
  PROVE  IsFiniteSet(S) /\ Cardinality(S) \in Nat
<1>1. IsFiniteSet(1 .. n)
  BY FS_Interval
<1> QED BY <1>1, FS_Subset, FS_CardinalityType

----------------------------------------------------------------------------
(* The bookkeeping that makes TypeOK inductive: the pools and the wait     *)
(* groups count exactly the goroutines that still owe them a decrement.    *)

Unfinished(g) == {t \in Task : Home[t] = g /\ pc[t] \notin {"unborn", "gone"}}

WgExact == \A g \in Group : wg[g] = Cardinality(Unfinished(g))

Accounts == TypeOK /\ PoolAccounting /\ WgExact

LEMMA InitAccounts == Init => Accounts
<1> SUFFICES ASSUME Init PROVE Accounts
  OBVIOUS
<1>1. TypeOK
  BY EmptySeq DEF Init, TypeOK, PCs, States, Errors
<1>2. PoolAccounting
  <2>1. \A p \in Pool : Holders(p) = {}
    BY DEF Init, HoldsSlot, Holders
  <2>2. \A p \in Pool : Cardinality(Holders(p)) = 0
    BY <2>1, FS_EmptySet
  <2> QED BY <2>2 DEF Init, PoolAccounting
<1>3. WgExact
  <2>1. \A g \in Group : Unfinished(g) = {}
    BY DEF Init, Unfinished
  <2> QED BY <2>1, FS_EmptySet DEF Init, WgExact
<1> QED BY <1>1, <1>2, <1>3 DEF Accounts

(* A step that leaves holders and slots alone keeps the accounting.        *)
LEMMA PoolsUntouched ==
  ASSUME PoolAccounting, UNCHANGED slots,
         \A t \in Task : HoldsSlot(t)' = HoldsSlot(t)
  PROVE  PoolAccounting'
<1>1. \A p \in Pool : Holders(p)' = Holders(p)
  BY DEF Holders
<1> QED BY <1>1 DEF PoolAccounting

LEMMA WgUntouched ==
  ASSUME WgExact, UNCHANGED wg,
         \A t \in Task : pc'[t] \in {"unborn", "gone"} <=> pc[t] \in {"unborn", "gone"}
  PROVE  WgExact'
<1>1. \A g \in Group : Unfinished(g)' = Unfinished(g)
  BY DEF Unfinished
<1> QED BY <1>1 DEF WgExact

(* setError, wherever runTask calls it.                                    *)
LEMMA SetErrorAccounts ==
  ASSUME Accounts, NEW t \in Task, NEW e \in Errors, SetError(t, e),
         \/ pc[t] \in {"deps", "acquire"} /\ e # "fn"
         \/ pc[t] = "body" /\ e = "fn"
  PROVE  Accounts'
<1> USE DEF Accounts
<1>1. TypeOK'
  BY DEF TypeOK, SetError, PCs, States, collVars, groupVars
<1>2. PoolAccounting'
  <2>1. \A u \in Task : HoldsSlot(u)' = HoldsSlot(u)
    BY DEF HoldsSlot, Limited, SetError, TypeOK, Errors
  <2> QED BY <2>1, PoolsUntouched DEF SetError
<1>3. WgExact'
  BY WgUntouched DEF SetError, TypeOK
<1> QED BY <1>1, <1>2, <1>3
(* A goroutine that holds a slot, or has not called wg.Done, is counted.   *)
LEMMA HolderCounted ==
  ASSUME Accounts, NEW t \in Task, HoldsSlot(t)
  PROVE  slots[Kind[t]] \in Nat \ {0}
<1>1. Kind[t] \in Pool
  BY DEF HoldsSlot, Limited
<1>2. t \in Holders(Kind[t]) /\ IsFiniteSet(Holders(Kind[t]))
  BY FS_Subset DEF Holders
<1> QED BY <1>1, <1>2, FS_EmptySet, FS_CardinalityType DEF Accounts, PoolAccounting

LEMMA UnfinishedCounted ==
  ASSUME Accounts, NEW t \in Task, pc[t] \notin {"unborn", "gone"}
  PROVE  wg[Home[t]] \in Nat \ {0}
<1>1. t \in Unfinished(Home[t]) /\ IsFiniteSet(Unfinished(Home[t]))
  BY FS_Subset DEF Unfinished
<1> QED BY <1>1, FS_EmptySet, FS_CardinalityType DEF Accounts, WgExact

LEMMA AcquireAccounts ==
  ASSUME Accounts, NEW t \in Task, Acquire(t)
  PROVE  Accounts'
<1> USE DEF Accounts
<1>1. TypeOK'
  <2>1. Limited(t) => Kind[t] \in Pool
    BY DEF Limited
  <2> QED BY SMTT(20), <2>1 DEF TypeOK, Acquire, PCs, States, collVars, groupVars
<1>2. PoolAccounting'
  <2>1. CASE ~Limited(t)
    <3>1. \A u \in Task : HoldsSlot(u)' = HoldsSlot(u)
      BY <2>1 DEF HoldsSlot, Limited, Acquire, TypeOK
    <3> QED BY <2>1, <3>1, PoolsUntouched DEF Acquire
  <2>2. CASE Limited(t)
    <3>1. Kind[t] \in Pool
      BY <2>2 DEF Limited
    <3>2. t \notin Holders(Kind[t]) /\ IsFiniteSet(Holders(Kind[t]))
      BY FS_Subset DEF Holders, HoldsSlot, Acquire
    <3>3. Holders(Kind[t])' = Holders(Kind[t]) \cup {t}
      BY <2>2 DEF Holders, HoldsSlot, Limited, Acquire, TypeOK
    <3>4. \A p \in Pool \ {Kind[t]} : Holders(p)' = Holders(p)
      BY <2>2 DEF Holders, HoldsSlot, Limited, Acquire, TypeOK
    <3>5. Cardinality(Holders(Kind[t])') = Cardinality(Holders(Kind[t])) + 1
      BY <3>2, <3>3, FS_AddElement
    <3>6. slots' = [slots EXCEPT ![Kind[t]] = @ + 1] /\ slots[Kind[t]] < Limit[Kind[t]]
      BY <2>2 DEF Acquire
    <3> QED BY <3>1, <3>4, <3>5, <3>6 DEF PoolAccounting, TypeOK
  <2> QED BY <2>1, <2>2
<1>3. WgExact'
  BY WgUntouched DEF Acquire, TypeOK
<1> QED BY <1>1, <1>2, <1>3

LEMMA ReleaseSlotAccounts ==
  ASSUME Accounts, NEW t \in Task, ReleaseSlot(t)
  PROVE  Accounts'
<1> USE DEF Accounts
<1>1. Limited(t) => HoldsSlot(t) /\ Kind[t] \in Pool /\ slots[Kind[t]] \in Nat \ {0}
  BY HolderCounted DEF HoldsSlot, Limited, ReleaseSlot
<1>2. TypeOK'
  BY SMTT(20), <1>1 DEF TypeOK, ReleaseSlot, PCs, collVars, groupVars
<1>3. PoolAccounting'
  <2>1. CASE ~Limited(t)
    <3>1. \A u \in Task : HoldsSlot(u)' = HoldsSlot(u)
      BY <2>1 DEF HoldsSlot, Limited, ReleaseSlot, TypeOK
    <3> QED BY <2>1, <3>1, PoolsUntouched DEF ReleaseSlot
  <2>2. CASE Limited(t)
    <3>1. t \in Holders(Kind[t]) /\ IsFiniteSet(Holders(Kind[t]))
      BY <1>1, <2>2, FS_Subset DEF Holders
    <3>2. Holders(Kind[t])' = Holders(Kind[t]) \ {t}
      BY <2>2 DEF Holders, HoldsSlot, Limited, ReleaseSlot, TypeOK
    <3>3. \A p \in Pool \ {Kind[t]} : Holders(p)' = Holders(p)
      BY <2>2 DEF Holders, HoldsSlot, Limited, ReleaseSlot, TypeOK
    <3>4. Cardinality(Holders(Kind[t])') = Cardinality(Holders(Kind[t])) - 1
      <4>1. Cardinality(Holders(Kind[t]) \ {t}) = Cardinality(Holders(Kind[t])) - 1
        BY <3>1, RemoveOne
      <4> QED BY <3>2, <4>1
    <3>5. slots' = [slots EXCEPT ![Kind[t]] = @ - 1]
      BY <2>2 DEF ReleaseSlot
    <3> QED BY <1>1, <2>2, <3>3, <3>4, <3>5 DEF PoolAccounting, TypeOK
  <2> QED BY <2>1, <2>2
<1>4. WgExact'
  BY WgUntouched DEF ReleaseSlot, TypeOK
<1> QED BY <1>2, <1>3, <1>4

LEMMA WgDoneAccounts ==
  ASSUME Accounts, NEW t \in Task, WgDone(t)
  PROVE  Accounts'
<1> USE DEF Accounts
<1>1. wg[Home[t]] \in Nat \ {0} /\ Home[t] \in Group
  BY UnfinishedCounted DEF WgDone
<1>2. TypeOK'
  BY SMTT(20), <1>1 DEF TypeOK, WgDone, PCs, collVars, groupVars
<1>3. PoolAccounting'
  <2>1. \A u \in Task : HoldsSlot(u)' = HoldsSlot(u)
    BY DEF HoldsSlot, Limited, WgDone, TypeOK
  <2> QED BY <2>1, PoolsUntouched DEF WgDone
<1>4. WgExact'
  <2>1. t \in Unfinished(Home[t]) /\ IsFiniteSet(Unfinished(Home[t]))
    BY FS_Subset DEF Unfinished, WgDone
  <2>2. Unfinished(Home[t])' = Unfinished(Home[t]) \ {t}
    BY DEF Unfinished, WgDone, TypeOK
  <2>3. \A g \in Group \ {Home[t]} : Unfinished(g)' = Unfinished(g)
    BY DEF Unfinished, WgDone, TypeOK
  <2>4. Cardinality(Unfinished(Home[t])') = Cardinality(Unfinished(Home[t])) - 1
    <3>1. Cardinality(Unfinished(Home[t]) \ {t}) = Cardinality(Unfinished(Home[t])) - 1
      BY <2>1, RemoveOne
    <3> QED BY <2>2, <3>1
  <2> QED BY <1>1, <2>3, <2>4 DEF WgExact, TypeOK, WgDone
<1> QED BY <1>2, <1>3, <1>4
(* The steps of one goroutine that touch neither a semaphore nor a         *)
(* counter.                                                                *)
LEMMA QuietAccounts ==
  ASSUME Accounts, NEW t \in Task,
         \/ DependencyDone(t) \/ DependenciesMet(t) \/ FnReturns(t)
         \/ RecordError(t) \/ CloseDone(t)
  PROVE  Accounts'
<1> USE DEF Accounts
<1>1. TypeOK'
  <2>1. CASE DependencyDone(t)
    <3>1. dep' = [dep EXCEPT ![t] = @ + 1] /\ dep \in [Task -> Nat \ {0}]
      BY <2>1 DEF DependencyDone, TypeOK
    <3>2. dep' \in [Task -> Nat \ {0}]
      BY <3>1
    <3> QED BY <2>1, <3>2 DEF TypeOK, DependencyDone, collVars, groupVars
  <2>2. CASE DependenciesMet(t)
    BY <2>2 DEF TypeOK, DependenciesMet, PCs, collVars, groupVars
  <2>3. CASE FnReturns(t)
    BY <2>3 DEF TypeOK, FnReturns, PCs, States, collVars, groupVars
  <2>4. CASE RecordError(t)
    <3>1. gerr' \in [Group -> Task \cup {NoTask}]
      <4>1. gerr' = [gerr EXCEPT ![Home[t]] = t] \/ UNCHANGED gerr
        BY <2>4 DEF RecordError
      <4>2. gerr \in [Group -> Task \cup {NoTask}]
        BY DEF TypeOK
      <4> QED BY <4>1, <4>2
    <3>2. Below[Home[t]] \subseteq Group
      OBVIOUS
    <3>3. cancelled' \subseteq Group
      BY <2>4, <3>2 DEF TypeOK, RecordError
    <3>4. pc' \in [Task -> PCs]
      BY <2>4 DEF TypeOK, RecordError, PCs
    <3> QED BY <2>4, <3>1, <3>3, <3>4 DEF TypeOK, RecordError, collVars
  <2>5. CASE CloseDone(t)
    BY <2>5 DEF TypeOK, CloseDone, PCs, collVars, groupVars
  <2> QED BY <2>1, <2>2, <2>3, <2>4, <2>5
<1>2. \A u \in Task : HoldsSlot(u)' = HoldsSlot(u)
  BY DEF HoldsSlot, Limited, TypeOK, DependencyDone, DependenciesMet,
         FnReturns, MayReturn, RecordError, CloseDone
<1>3. UNCHANGED <<slots, wg>>
  BY DEF DependencyDone, DependenciesMet, FnReturns, RecordError, CloseDone
<1>4. \A u \in Task : pc'[u] \in {"unborn", "gone"} <=> pc[u] \in {"unborn", "gone"}
  BY DEF TypeOK, DependencyDone, DependenciesMet, FnReturns, MayReturn,
         RecordError, CloseDone
<1> QED BY <1>1, <1>2, <1>3, <1>4, PoolsUntouched, WgUntouched

(* How often a task appears among the pins of another is a number.         *)
LEMMA PinsOnType ==
  ASSUME TypeOK, NEW t \in Task, NEW u \in Task
  PROVE  PinsOn(t, u) \in Nat
<1>1. DOMAIN pins[t] = 1 .. Len(pins[t]) /\ Len(pins[t]) \in Nat
  BY LenProperties DEF TypeOK
<1>2. {i \in DOMAIN pins[t] : pins[t][i] = u} \in SUBSET (1 .. Len(pins[t]))
  BY <1>1
<1> QED BY <1>1, <1>2, CountType DEF PinsOn

LEMMA ReleaseAndPruneAccounts ==
  ASSUME Accounts, NEW t \in Task, ReleaseAndPrune(t)
  PROVE  Accounts'
<1> USE DEF Accounts
<1>1. TypeOK'
  <2>1. waiters' \in [Task -> Nat]
    <3>1. \A u \in Task : Positive(waiters[u] - PinsOn(t, u)) \in Nat
      <4> TAKE u \in Task
      <4>1. waiters[u] \in Nat /\ PinsOn(t, u) \in Nat
        BY PinsOnType DEF TypeOK
      <4> QED BY <4>1 DEF Positive
    <3> QED BY <3>1 DEF ReleaseAndPrune
  <2>2. live' \subseteq Task
    BY DEF ReleaseAndPrune, TypeOK
  <2>3. latest' \in [Group -> [Desc -> Task \cup {NoTask}]]
    <3>1. \A g \in Group, d \in Desc : Restore(g, d, live') \in Task \cup {NoTask}
      <4> TAKE g \in Group, d \in Desc
      <4>1. Labelled(live', g, d) \in SUBSET Task
        BY <2>2 DEF Labelled
      <4>2. Labelled(live', g, d) # {} => Latest(Labelled(live', g, d)) \in Task
        BY <4>1, LatestExists DEF TypeOK
      <4> QED BY <4>2 DEF Restore, TypeOK
    <3> QED BY <3>1 DEF ReleaseAndPrune
  <2> QED BY <2>1, <2>2, <2>3 DEF TypeOK, ReleaseAndPrune, PCs, groupVars
<1>2. \A u \in Task : HoldsSlot(u)' = HoldsSlot(u)
  BY DEF HoldsSlot, Limited, TypeOK, ReleaseAndPrune
<1>3. \A u \in Task : pc'[u] \in {"unborn", "gone"} <=> pc[u] \in {"unborn", "gone"}
  BY DEF TypeOK, ReleaseAndPrune
<1> QED BY <1>1, <1>2, <1>3, PoolsUntouched, WgUntouched DEF ReleaseAndPrune

(* What PinDeps stores: one entry per key, a task of the group or NoTask.  *)
LEMMA LookupType ==
  ASSUME TypeOK, NEW t \in Task, NEW k \in Task \cup Desc
  PROVE  Lookup(Home[t], k) \in Task \cup {NoTask}
BY DEF Lookup, TypeOK

LEMMA GoAccounts ==
  ASSUME Accounts, NEW t \in Task, Go(t)
  PROVE  Accounts'
<1> USE DEF Accounts
<1> DEFINE g == Home[t]
           keys == DepKeys[t]
           p == [i \in DOMAIN keys |-> Lookup(g, keys[i])]
<1>1. keys \in Seq(Task \cup Desc) /\ Len(keys) \in Nat
      /\ DOMAIN keys = 1 .. Len(keys) /\ g \in Group
  BY LenProperties
<1>2. p \in Seq(Task \cup {NoTask})
  <2>1. \A i \in 1 .. Len(keys) : Lookup(g, keys[i]) \in Task \cup {NoTask}
    BY <1>1, ElementOfSeq, LookupType
  <2>2. p \in [1 .. Len(keys) -> Task \cup {NoTask}]
    BY <1>1, <2>1
  <2> QED BY <1>1, <2>2
<1>3. pins' = [pins EXCEPT ![t] = p]
  BY DEF Go
<1>4. TypeOK'
  <2>1. waiters' \in [Task -> Nat]
    <3>1. \A u \in Task : Cardinality({i \in DOMAIN p : p[i] = u}) \in Nat
      <4> TAKE u \in Task
      <4>1. {i \in DOMAIN p : p[i] = u} \in SUBSET (1 .. Len(keys))
        BY <1>1
      <4> HIDE DEF p
      <4> QED BY <1>1, <4>1, CountType
    <3>2. waiters' = [u \in Task |->
             waiters[u] + Cardinality({i \in DOMAIN p : p[i] = u})]
      BY DEF Go
    <3> HIDE DEF p
    <3>3. \A u \in Task :
            waiters[u] + Cardinality({i \in DOMAIN p : p[i] = u}) \in Nat
      <4> TAKE u \in Task
      <4>1. waiters[u] \in Nat
        BY DEF TypeOK
      <4>2. Cardinality({i \in DOMAIN p : p[i] = u}) \in Nat
        BY <3>1
      <4> QED BY <4>1, <4>2
    <3> QED BY <3>2, <3>3
  <2>2. id' \in [Task -> Nat]
    <3>1. Cardinality({u \in Task : id[u] # 0}) \in Nat
      BY FS_Subset, FS_CardinalityType
    <3> QED BY <3>1 DEF TypeOK, Go
  <2>3. pins' \in [Task -> Seq(Task \cup {NoTask})]
    BY <1>2, <1>3 DEF TypeOK
  <2>4. latest' \in [Group -> [Desc -> Task \cup {NoTask}]]
    BY DEF TypeOK, Go
  <2>5. wg' \in [Group -> Nat]
    BY DEF TypeOK, Go
  <2> QED BY <2>1, <2>2, <2>3, <2>4, <2>5 DEF TypeOK, Go, PCs, groupVars
<1>5. PoolAccounting'
  <2>1. \A u \in Task : HoldsSlot(u)' = HoldsSlot(u)
    BY DEF HoldsSlot, Limited, TypeOK, Go
  <2> QED BY <2>1, PoolsUntouched DEF Go
<1>6. WgExact'
  <2>1. t \notin Unfinished(g) /\ IsFiniteSet(Unfinished(g))
    BY FS_Subset DEF Unfinished, Go
  <2>2. Unfinished(g)' = Unfinished(g) \cup {t}
    BY DEF Unfinished, Go, TypeOK
  <2>3. \A h \in Group \ {g} : Unfinished(h)' = Unfinished(h)
    BY DEF Unfinished, Go, TypeOK
  <2>4. Cardinality(Unfinished(g) \cup {t}) = Cardinality(Unfinished(g)) + 1
    BY <2>1, FS_AddElement
  <2>5. wg' = [wg EXCEPT ![g] = @ + 1]
    BY DEF Go
  <2> HIDE DEF g
  <2> QED BY <1>1, <2>2, <2>3, <2>4, <2>5 DEF WgExact, TypeOK
<1> QED BY <1>4, <1>5, <1>6

(* The steps of the callers: SubGroup, Wait and the end of a context.      *)
LEMMA CallerAccounts ==
  ASSUME Accounts, NEW g \in Group, SubGroup(g) \/ Wait(g) \/ ContextEnds(g)
  PROVE  Accounts'
<1> USE DEF Accounts
<1>1. UNCHANGED <<pc, state, err, dep, pins, id, waiters, live, latest, slots, wg, gerr>>
  BY DEF SubGroup, Wait, ContextEnds, taskVars, collVars
<1>2. cancelled' \subseteq Group /\ verdict' \in [Group -> {"absent", "open", "ok", "err"}]
  BY DEF SubGroup, Wait, ContextEnds, TypeOK
<1>3. TypeOK'
  BY <1>1, <1>2 DEF TypeOK
<1>4. \A u \in Task : HoldsSlot(u)' = HoldsSlot(u)
  BY <1>1 DEF HoldsSlot, Limited
<1> QED BY <1>1, <1>3, <1>4, PoolsUntouched, WgUntouched

LEMMA StutterAccounts == Accounts /\ UNCHANGED vars => Accounts'
<1> SUFFICES ASSUME Accounts, UNCHANGED vars PROVE Accounts'
  OBVIOUS
<1> USE DEF Accounts, vars, taskVars, collVars, groupVars
<1>1. TypeOK'
  BY DEF TypeOK
<1>2. \A u \in Task : HoldsSlot(u)' = HoldsSlot(u)
  BY DEF HoldsSlot, Limited
<1> QED BY <1>1, <1>2, PoolsUntouched, WgUntouched

LEMMA NextAccounts == Accounts /\ [Next]_vars => Accounts'
<1> SUFFICES ASSUME Accounts, [Next]_vars PROVE Accounts'
  OBVIOUS
<1>1. ASSUME NEW t \in Task, Go(t) PROVE Accounts'
  BY <1>1, GoAccounts
<1>2. ASSUME NEW t \in Task, Advance(t) PROVE Accounts'
  <2>1. CASE UnknownDependency(t) \/ DependencyFailed(t) \/ DependencyCancelled(t)
             \/ AcquireCancelled(t)
    <3>1. UnknownDependency(t) => pc[t] = "deps" /\ SetError(t, "unknown")
      BY DEF UnknownDependency
    <3>2. DependencyFailed(t) => pc[t] = "deps" /\ SetError(t, "dep")
      BY DEF DependencyFailed, WaitsFor
    <3>3. DependencyCancelled(t) => pc[t] = "deps" /\ SetError(t, "ctx")
      BY DEF DependencyCancelled, WaitsFor
    <3>4. AcquireCancelled(t) => pc[t] = "acquire" /\ SetError(t, "ctx")
      BY DEF AcquireCancelled
    <3>5. {"unknown", "dep", "ctx"} \subseteq Errors
      BY DEF Errors
    <3>6. ASSUME NEW e \in {"unknown", "dep", "ctx"}, SetError(t, e),
                 pc[t] \in {"deps", "acquire"}
          PROVE  Accounts'
      <4>1. e \in Errors /\ e # "fn"
        BY <3>5
      <4> QED BY <3>6, <4>1, SetErrorAccounts
    <3> QED BY <2>1, <3>1, <3>2, <3>3, <3>4, <3>6
  <2>2. CASE Acquire(t)
    BY <2>2, AcquireAccounts
  <2>3. CASE ReleaseSlot(t)
    BY <2>3, ReleaseSlotAccounts
  <2>4. CASE WgDone(t)
    BY <2>4, WgDoneAccounts
  <2>5. CASE ReleaseAndPrune(t)
    BY <2>5, ReleaseAndPruneAccounts
  <2>6. CASE DependencyDone(t) \/ DependenciesMet(t) \/ RecordError(t) \/ CloseDone(t)
    BY <2>6, QuietAccounts
  <2> QED BY <1>2, <2>1, <2>2, <2>3, <2>4, <2>5, <2>6 DEF Advance
<1>3. ASSUME NEW t \in Task, Return(t) PROVE Accounts'
  BY <1>3, QuietAccounts, SetErrorAccounts DEF Return, FnFails, MayReturn, Errors
<1>4. ASSUME NEW g \in Group, SubGroup(g) \/ Wait(g) \/ ContextEnds(g) PROVE Accounts'
  BY <1>4, CallerAccounts
<1>5. CASE CommandEnded \/ UNCHANGED vars
  BY <1>5, StutterAccounts DEF CommandEnded
<1> QED BY <1>1, <1>2, <1>3, <1>4, <1>5 DEF Next

(* The engine's variables keep their types, for any number of tasks,       *)
(* groups and pools: in particular no semaphore and no wait group is ever  *)
(* decremented below zero by a deferred call.                              *)
THEOREM TypeCorrect == Spec => []TypeOK
<1>1. Accounts => TypeOK
  BY DEF Accounts
<1> QED BY InitAccounts, NextAccounts, <1>1, PTL DEF Spec

(* Each semaphore holds one token per task between acquire and release,    *)
(* and no more than its limit, however groups nest.                        *)
THEOREM PoolsAccounted == Spec => []PoolAccounting
<1>1. Accounts => PoolAccounting
  BY DEF Accounts
<1> QED BY InitAccounts, NextAccounts, <1>1, PTL DEF Spec
----------------------------------------------------------------------------
(* Dependencies.  A dependency is met for good: once done is closed        *)
(* without an error nothing changes the task any more.                     *)

Met(u) == u \in Task /\ DoneClosed(u) /\ err[u] = "none" /\ state[u] = "Done"

(* How far the goroutine of t got with its dependencies, and what its own  *)
(* state says of its outcome.                                              *)
Progress(t) ==
  /\ pc[t] # "unborn" => DOMAIN pins[t] = DOMAIN DepKeys[t]
  /\ pc[t] = "deps" => \A i \in DOMAIN pins[t] : i < dep[t] => Met(pins[t][i])
  /\ pc[t] \in {"acquire", "body", "release"} =>
       \A i \in DOMAIN pins[t] : Met(pins[t][i])
  /\ pc[t] = "record" /\ err[t] = "fn" => \A i \in DOMAIN pins[t] : Met(pins[t][i])
  /\ pc[t] \in {"release", "close", "prune", "wgdone", "gone"} /\ err[t] = "none"
       => state[t] = "Done"
  /\ pc[t] = "record" => err[t] # "none"
  /\ pc[t] \in {"unborn", "deps"} => dep[t] \in Nat \ {0}
  /\ pc[t] = "unborn" => dep[t] = 1

DependencyInv == \A t \in Task : Progress(t)

LEMMA MetForGood ==
  ASSUME TypeOK, [Next]_vars, NEW u \in Task, Met(u)
  PROVE  Met(u)'
<1> USE DEF Met, DoneClosed
<1>1. ASSUME NEW t \in Task, Go(t) PROVE Met(u)'
  BY <1>1 DEF TypeOK, Go
<1>2. ASSUME NEW t \in Task, Advance(t) PROVE Met(u)'
  <2>1. CASE \E e \in Errors : SetError(t, e) /\ pc[t] \in {"deps", "acquire"}
    BY <2>1 DEF TypeOK, SetError
  <2>2. CASE DependencyDone(t) \/ DependenciesMet(t)
    BY <2>2 DEF TypeOK, DependencyDone, DependenciesMet
  <2>3. CASE Acquire(t)
    BY <2>3 DEF TypeOK, Acquire
  <2>4. CASE RecordError(t)
    BY <2>4 DEF TypeOK, RecordError
  <2>5. CASE ReleaseSlot(t) \/ CloseDone(t)
    BY <2>5 DEF TypeOK, ReleaseSlot, CloseDone
  <2>6. CASE ReleaseAndPrune(t) \/ WgDone(t)
    BY <2>6 DEF TypeOK, ReleaseAndPrune, WgDone
  <2> QED BY <1>2, <2>1, <2>2, <2>3, <2>4, <2>5, <2>6 DEF Advance, UnknownDependency,
      DependencyFailed, DependencyCancelled, AcquireCancelled, WaitsFor, Errors
<1>3. ASSUME NEW t \in Task, Return(t) PROVE Met(u)'
  BY <1>3 DEF TypeOK, Return, FnReturns, FnFails, MayReturn, SetError
<1>4. ASSUME NEW g \in Group, SubGroup(g) \/ Wait(g) \/ ContextEnds(g) PROVE Met(u)'
  BY <1>4 DEF SubGroup, Wait, ContextEnds, taskVars
<1>5. CASE CommandEnded \/ UNCHANGED vars
  BY <1>5 DEF CommandEnded, vars, taskVars
<1> QED BY <1>1, <1>2, <1>3, <1>4, <1>5 DEF Next

(* DependencyInv without the step's own task: its pins, index, pc, state   *)
(* and error are those of before, and what was met stays met.              *)
LEMMA OthersKeep ==
  ASSUME TypeOK, DependencyInv, [Next]_vars, NEW v \in Task,
         UNCHANGED <<pc[v], dep[v], pins[v], err[v], state[v]>>
  PROVE  Progress(v)'
<1>1. \A u : Met(u) => Met(u)'
  BY MetForGood DEF Met
<1> HIDE DEF Met
<1> QED BY <1>1 DEF DependencyInv, Progress
LEMMA NextDependencies ==
  TypeOK /\ DependencyInv /\ [Next]_vars => DependencyInv'
<1> SUFFICES ASSUME TypeOK, DependencyInv, [Next]_vars PROVE DependencyInv'
  OBVIOUS
<1> DEFINE Same(v) == UNCHANGED <<pc[v], dep[v], pins[v], err[v], state[v]>>
<1>1. \A u : Met(u) => Met(u)'
  BY MetForGood DEF Met
<1>2. \A v \in Task : Same(v) => Progress(v)'
  BY OthersKeep
<1>3. ASSUME NEW t \in Task, \A v \in Task \ {t} : Same(v), Progress(t)'
      PROVE  DependencyInv'
  BY <1>2, <1>3 DEF DependencyInv
<1> HIDE DEF Met
<1>4. ASSUME NEW t \in Task, Go(t) PROVE DependencyInv'
  <2>1. \A v \in Task \ {t} : Same(v)
    BY <1>4 DEF TypeOK, Go
  <2>2. DOMAIN pins'[t] = DOMAIN DepKeys[t]
    BY <1>4 DEF TypeOK, Go
  <2>3. pc'[t] = "deps" /\ dep'[t] = 1
    BY <1>4 DEF TypeOK, Go, DependencyInv, Progress
  <2>4. \A i \in DOMAIN DepKeys[t] : ~(i < 1)
    BY LenProperties
  <2>5. Progress(t)'
    BY <2>2, <2>3, <2>4 DEF Progress
  <2> QED BY <1>3, <2>1, <2>5
<1>5. ASSUME NEW t \in Task, Advance(t) PROVE DependencyInv'
  <2>1. Progress(t) /\ DOMAIN pins[t] = 1 .. Len(pins[t]) /\ Len(pins[t]) \in Nat
    BY LenProperties DEF DependencyInv, TypeOK
  <2>2. CASE \E e \in Errors \ {"none", "fn"} :
               SetError(t, e) /\ pc[t] \in {"deps", "acquire"}
    <3>1. \A v \in Task \ {t} : Same(v)
      BY <2>2 DEF TypeOK, SetError, collVars
    <3>2. Progress(t)'
      BY <2>1, <2>2 DEF TypeOK, SetError, collVars, Progress
    <3> QED BY <1>3, <3>1, <3>2
  <2>3. CASE DependencyDone(t)
    <3>1. \A v \in Task \ {t} : Same(v)
      BY <2>3 DEF TypeOK, DependencyDone, collVars
    <3>2. PICK u \in Task : WaitsFor(t, u) /\ DoneClosed(u) /\ err[u] = "none"
      BY <2>3 DEF DependencyDone
    <3>3. Met(u)
      BY <3>2 DEF Met, DoneClosed, DependencyInv, Progress
    <3>4. dep'[t] = dep[t] + 1 /\ u = pins[t][dep[t]] /\ dep[t] \in Nat \ {0}
      BY <2>3, <3>2 DEF DependencyDone, WaitsFor, TypeOK
    <3>5. \A i \in DOMAIN pins[t] : i < dep[t] + 1 => Met(pins[t][i])
      BY <2>1, <3>2, <3>3, <3>4 DEF Progress, WaitsFor
    <3>6. Progress(t)'
      BY <1>1, <2>1, <2>3, <3>2, <3>4, <3>5
      DEF TypeOK, DependencyDone, WaitsFor, collVars, Progress
    <3> QED BY <1>3, <3>1, <3>6
  <2>4. CASE DependenciesMet(t)
    <3>1. \A v \in Task \ {t} : Same(v)
      BY <2>4 DEF TypeOK, DependenciesMet, collVars
    <3>2. \A i \in DOMAIN pins[t] : Met(pins[t][i])
      BY <2>1, <2>4 DEF TypeOK, DependenciesMet, Progress
    <3>3. Progress(t)'
      BY <1>1, <2>1, <2>4, <3>2 DEF TypeOK, DependenciesMet, collVars, Progress
    <3> QED BY <1>3, <3>1, <3>3
  <2>5. CASE Acquire(t)
    <3>1. \A v \in Task \ {t} : Same(v)
      BY <2>5 DEF TypeOK, Acquire, collVars
    <3>2. Progress(t)'
      BY <1>1, <2>1, <2>5 DEF TypeOK, Acquire, collVars, Progress
    <3> QED BY <1>3, <3>1, <3>2
  <2>6. CASE RecordError(t)
    <3>1. \A v \in Task \ {t} : Same(v)
      BY <2>6 DEF TypeOK, RecordError, collVars
    <3>2. Progress(t)'
      BY <1>1, <2>1, <2>6 DEF TypeOK, RecordError, collVars, Progress
    <3> QED BY <1>3, <3>1, <3>2
  <2>7. CASE ReleaseSlot(t) \/ CloseDone(t)
    <3>1. \A v \in Task \ {t} : Same(v)
      BY <2>7 DEF TypeOK, ReleaseSlot, CloseDone, collVars
    <3>2. Progress(t)'
      BY <2>1, <2>7 DEF TypeOK, ReleaseSlot, CloseDone, collVars, Progress
    <3> QED BY <1>3, <3>1, <3>2
  <2>8. CASE ReleaseAndPrune(t) \/ WgDone(t)
    <3>1. \A v \in Task \ {t} : Same(v)
      BY <2>8 DEF TypeOK, ReleaseAndPrune, WgDone, collVars
    <3>2. Progress(t)'
      BY <2>1, <2>8 DEF TypeOK, ReleaseAndPrune, WgDone, collVars, Progress
    <3> QED BY <1>3, <3>1, <3>2
  <2>9. CASE UnknownDependency(t) \/ DependencyFailed(t) \/ DependencyCancelled(t)
             \/ AcquireCancelled(t)
    BY <2>2, <2>9 DEF UnknownDependency, DependencyFailed, DependencyCancelled,
       AcquireCancelled, WaitsFor, Errors
  <2> QED BY <1>5, <2>3, <2>4, <2>5, <2>6, <2>7, <2>8, <2>9 DEF Advance
<1>6. ASSUME NEW t \in Task, Return(t) PROVE DependencyInv'
  <2>1. \A v \in Task \ {t} : Same(v)
    BY <1>6 DEF TypeOK, Return, FnReturns, FnFails, SetError, collVars
  <2>2. Progress(t)'
    BY <1>1, <1>6 DEF TypeOK, Return, FnReturns, FnFails, MayReturn, SetError,
       collVars, DependencyInv, Progress
  <2> QED BY <1>3, <2>1, <2>2
<1>7. ASSUME NEW g \in Group, SubGroup(g) \/ Wait(g) \/ ContextEnds(g)
      PROVE  DependencyInv'
  <2>1. \A v \in Task : Same(v)
    BY <1>7 DEF SubGroup, Wait, ContextEnds, taskVars, collVars
  <2> QED BY <1>2, <2>1 DEF DependencyInv
<1>8. CASE CommandEnded \/ UNCHANGED vars
  <2>1. \A v \in Task : Same(v)
    BY <1>8 DEF CommandEnded, vars, taskVars, collVars
  <2> QED BY <1>2, <2>1 DEF DependencyInv
<1> QED BY <1>4, <1>5, <1>6, <1>7, <1>8 DEF Next

(* A fn runs only when every dependency key its task was given resolved    *)
(* and every task so named finished without an error: for any graph of     *)
(* tasks and groups, and also when the select chose the dependency's arm   *)
(* after the group was cancelled.                                          *)
THEOREM DependenciesFirst == Spec => []RunsAfterDependencies
<1>1. Init => DependencyInv
  BY DEF Init, DependencyInv, Progress
<1>2. TypeOK /\ DependencyInv => RunsAfterDependencies
  <2> SUFFICES ASSUME TypeOK, DependencyInv, NEW t \in Task,
                      pc[t] \in {"acquire", "body", "release"},
                      NEW i \in DOMAIN DepKeys[t]
               PROVE  /\ i \in DOMAIN pins[t]
                      /\ pins[t][i] \in Task
                      /\ DoneClosed(pins[t][i])
                      /\ state[pins[t][i]] = "Done"
    BY DEF RunsAfterDependencies
  <2>1. i \in DOMAIN pins[t] /\ Met(pins[t][i])
    BY DEF DependencyInv, Progress
  <2> QED BY <2>1 DEF Met
<1> QED BY <1>1, <1>2, TypeCorrect, NextDependencies, PTL DEF Spec
----------------------------------------------------------------------------
(* Wait joins the group: the counter it reads is exact, so at zero every   *)
(* goroutine of the group is past its last deferred call, and no task can  *)
(* be scheduled on a group whose Wait has returned.                        *)
THEOREM WaitJoins == Spec => []WaitIsAJoin
<1>1. Init => WaitIsAJoin
  BY DEF Init, WaitIsAJoin
<1>2. Accounts /\ WaitIsAJoin /\ [Next]_vars => WaitIsAJoin'
  <2> SUFFICES ASSUME Accounts, WaitIsAJoin, [Next]_vars PROVE WaitIsAJoin'
    OBVIOUS
  <2> DEFINE Settled(g) == verdict[g] \in {"ok", "err"}
  <2>1. ASSUME NEW t \in Task, pc[t] # "gone", ~Settled(Home[t]), UNCHANGED verdict,
               \A v \in Task \ {t} : pc'[v] = pc[v]
        PROVE  WaitIsAJoin'
    BY <2>1 DEF WaitIsAJoin
  <2>2. ASSUME NEW t \in Task, Go(t) PROVE WaitIsAJoin'
    <3>1. UNCHANGED verdict /\ pc[t] # "gone" /\ ~Settled(Home[t])
          /\ \A v \in Task \ {t} : pc'[v] = pc[v]
      BY <2>2 DEF Go, groupVars, Accounts, TypeOK
    <3> QED BY <2>1, <3>1
  <2>3. ASSUME NEW t \in Task, Advance(t) \/ Return(t) PROVE WaitIsAJoin'
    <3>1. pc[t] \notin {"unborn", "gone"}
      BY <2>3 DEF Advance, Return, UnknownDependency, DependencyDone, DependencyFailed,
         DependencyCancelled, DependenciesMet, Acquire, AcquireCancelled, RecordError,
         ReleaseSlot, CloseDone, ReleaseAndPrune, WgDone, WaitsFor, FnReturns, FnFails,
         MayReturn
    <3>2. ~Settled(Home[t])
      BY <3>1 DEF WaitIsAJoin
    <3>3. UNCHANGED verdict
      BY <2>3 DEF Advance, Return, UnknownDependency, DependencyDone, DependencyFailed,
         DependencyCancelled, DependenciesMet, Acquire, AcquireCancelled, RecordError,
         ReleaseSlot, CloseDone, ReleaseAndPrune, WgDone, FnReturns, FnFails, SetError,
         groupVars
    <3>4. \A v \in Task \ {t} : pc'[v] = pc[v]
      BY <2>3 DEF Advance, Return, UnknownDependency, DependencyDone, DependencyFailed,
         DependencyCancelled, DependenciesMet, Acquire, AcquireCancelled, RecordError,
         ReleaseSlot, CloseDone, ReleaseAndPrune, WgDone, FnReturns, FnFails, SetError,
         Accounts, TypeOK
    <3> QED BY <2>1, <3>1, <3>2, <3>3, <3>4
  <2>4. ASSUME NEW g \in Group, SubGroup(g) \/ ContextEnds(g) PROVE WaitIsAJoin'
    BY <2>4 DEF SubGroup, ContextEnds, WaitIsAJoin, taskVars, Accounts, TypeOK
  <2>5. ASSUME NEW g \in Group, Wait(g) PROVE WaitIsAJoin'
    <3>1. IsFiniteSet(Unfinished(g)) /\ Cardinality(Unfinished(g)) = 0
      BY <2>5, FS_Subset DEF Wait, Accounts, WgExact, Unfinished
    <3>2. Unfinished(g) = {}
      BY <3>1, FS_EmptySet
    <3>3. UNCHANGED pc /\ \A h \in Group \ {g} : verdict'[h] = verdict[h]
      BY <2>5 DEF Wait, taskVars, Accounts, TypeOK
    <3> QED BY <3>2, <3>3 DEF WaitIsAJoin, Unfinished
  <2>6. CASE CommandEnded \/ UNCHANGED vars
    BY <2>6 DEF CommandEnded, vars, taskVars, groupVars, WaitIsAJoin
  <2> QED BY <2>2, <2>3, <2>4, <2>5, <2>6 DEF Next
<1> QED BY <1>1, <1>2, InitAccounts, NextAccounts, PTL DEF Spec
----------------------------------------------------------------------------
(* Errors: what the goroutine of t has said of its own end, and where it   *)
(* left the reason.                                                        *)

Cause(t) ==
  /\ pc[t] \in {"unborn", "deps", "acquire"} => state[t] = "Pending" /\ err[t] = "none"
  /\ pc[t] = "body" => state[t] = "Running" /\ err[t] = "none"
  /\ pc[t] \notin {"unborn", "deps", "acquire", "body"} =>
       state[t] = IF err[t] = "none" THEN "Done" ELSE "Failed"
  /\ pc[t] = "record" => err[t] \in {"fn", "dep", "unknown"}
  /\ pc[t] = "release" => err[t] \in {"none", "fn"}
  /\ err[t] = "ctx" => Home[t] \in cancelled
  /\ err[t] \in {"fn", "dep", "unknown"} => pc[t] = "record" \/ gerr[Home[t]] # NoTask

Causes == \A t \in Task : Cause(t)

(* A group's error is that of one of its own tasks, and its context is     *)
(* over then.                                                              *)
Recorded ==
  \A g \in Group :
    /\ gerr[g] # NoTask => /\ gerr[g] \in Task /\ Home[gerr[g]] = g
                           /\ err[gerr[g]] \in {"fn", "dep", "unknown"}
                           /\ g \in cancelled
    /\ verdict[g] = "ok" => gerr[g] = NoTask

(* Contexts and recorded errors are never taken back.                      *)
LEMMA Growing ==
  ASSUME TypeOK, [Next]_vars
  PROVE  /\ cancelled \subseteq cancelled'
         /\ \A g \in Group : gerr[g] # NoTask => gerr'[g] = gerr[g]
<1>1. ASSUME NEW t \in Task, Go(t) \/ Return(t) PROVE UNCHANGED <<cancelled, gerr>>
  BY <1>1 DEF Go, Return, FnReturns, FnFails, SetError, groupVars
<1>2. ASSUME NEW t \in Task, Advance(t) PROVE UNCHANGED <<cancelled, gerr>> \/ RecordError(t)
  BY <1>2 DEF Advance, UnknownDependency, DependencyDone, DependencyFailed, DependencyCancelled,
    DependenciesMet, Acquire, AcquireCancelled, ReleaseSlot, CloseDone, ReleaseAndPrune, WgDone,
    SetError, groupVars
<1>3. ASSUME NEW t \in Task, RecordError(t)
      PROVE  /\ cancelled \subseteq cancelled'
             /\ \A g \in Group : gerr[g] # NoTask => gerr'[g] = gerr[g]
  BY <1>3 DEF RecordError, TypeOK
<1>4. ASSUME NEW g \in Group, SubGroup(g) \/ Wait(g) \/ ContextEnds(g)
      PROVE  cancelled \subseteq cancelled' /\ UNCHANGED gerr
  BY <1>4 DEF SubGroup, Wait, ContextEnds
<1>5. CASE CommandEnded \/ UNCHANGED vars
  BY <1>5 DEF CommandEnded, vars, groupVars
<1> QED BY <1>1, <1>2, <1>3, <1>4, <1>5 DEF Next

LEMMA NextCauses ==
  ASSUME TypeOK, Causes, [Next]_vars
  PROVE  Causes'
<1> DEFINE Same(v) == UNCHANGED <<pc[v], state[v], err[v]>>
<1>0. cancelled \subseteq cancelled' /\ \A g \in Group : gerr[g] # NoTask => gerr'[g] = gerr[g]
  BY Growing
<1>1. ASSUME NEW v \in Task, Same(v) PROVE Cause(v)'
  BY <1>0, <1>1 DEF Causes, Cause
<1>2. ASSUME NEW t \in Task, \A v \in Task \ {t} : Same(v), Cause(t)' PROVE Causes'
  BY <1>1, <1>2 DEF Causes
<1>3. ASSUME NEW t \in Task, Cause(t), NEW e \in {"fn", "dep", "unknown", "ctx"}, SetError(t, e),
             e = "ctx" => Home[t] \in cancelled
      PROVE  Causes'
  BY <1>0, <1>2, <1>3 DEF SetError, TypeOK, Cause
<1>4. ASSUME NEW t \in Task, Go(t) PROVE Causes'
  BY <1>2, <1>4 DEF Go, TypeOK, Causes, Cause
<1>5. ASSUME NEW t \in Task, Advance(t) PROVE Causes'
  <2>1. Cause(t)
    BY DEF Causes
  <2>2. CASE UnknownDependency(t)
    BY <1>3, <2>1, <2>2 DEF UnknownDependency
  <2>3. CASE DependencyFailed(t)
    BY <1>3, <2>1, <2>3 DEF DependencyFailed
  <2>4. CASE DependencyCancelled(t) \/ AcquireCancelled(t)
    BY <1>3, <2>1, <2>4 DEF DependencyCancelled, AcquireCancelled
  <2>5. CASE DependencyDone(t)
    BY <1>1, <2>5 DEF DependencyDone, Causes
  <2>6. CASE DependenciesMet(t)
    BY <1>0, <1>2, <2>1, <2>6 DEF DependenciesMet, TypeOK, Cause
  <2>7. CASE Acquire(t)
    BY <1>0, <1>2, <2>1, <2>7 DEF Acquire, TypeOK, Cause
  <2>8. CASE RecordError(t)
    <3>1. gerr'[Home[t]] # NoTask
      BY <2>8 DEF RecordError, TypeOK
    <3> QED BY <1>0, <1>2, <2>1, <2>8, <3>1 DEF RecordError, TypeOK, Cause
  <2>9. CASE ReleaseSlot(t) \/ CloseDone(t)
    BY <1>0, <1>2, <2>1, <2>9 DEF ReleaseSlot, CloseDone, TypeOK, Cause
  <2>10. CASE ReleaseAndPrune(t) \/ WgDone(t)
    BY ZenonT(30), <1>0, <1>2, <2>1, <2>10 DEF ReleaseAndPrune, WgDone, TypeOK, Cause
  <2> QED BY <1>5, <2>2, <2>3, <2>4, <2>5, <2>6, <2>7, <2>8, <2>9, <2>10 DEF Advance
<1>6. ASSUME NEW t \in Task, FnReturns(t) PROVE Causes'
  BY SMTT(20), <1>0, <1>2, <1>6 DEF FnReturns, MayReturn, TypeOK, Causes, Cause
<1>7. ASSUME NEW t \in Task, FnFails(t) PROVE Causes'
  BY <1>3, <1>7 DEF FnFails, Causes
<1>8. ASSUME NEW g \in Group, SubGroup(g) \/ Wait(g) \/ ContextEnds(g) PROVE Causes'
  BY <1>1, <1>8 DEF SubGroup, Wait, ContextEnds, taskVars, Causes
<1>9. CASE CommandEnded \/ UNCHANGED vars
  BY <1>1, <1>9 DEF CommandEnded, vars, taskVars, Causes
<1> QED BY <1>4, <1>5, <1>6, <1>7, <1>8, <1>9 DEF Next, Return

(* An error once set is never overwritten.                                 *)
LEMMA ErrorStays ==
  ASSUME TypeOK, Causes, [Next]_vars, NEW u \in Task, err[u] # "none"
  PROVE  err'[u] = err[u] /\ pins'[u] = pins[u] /\ (DoneClosed(u) => DoneClosed(u)')
<1> USE DEF DoneClosed
<1>0. pc[u] \notin {"unborn", "deps", "acquire", "body"}
  BY DEF Causes, Cause
<1>1. ASSUME NEW t \in Task, Go(t) PROVE err' = err /\ pins'[u] = pins[u] /\ pc'[u] = pc[u]
  BY <1>0, <1>1 DEF Go, TypeOK
<1>2. ASSUME NEW t \in Task, NEW e, SetError(t, e), pc[t] \in {"deps", "acquire", "body"}
      PROVE  err'[u] = err[u] /\ pins' = pins /\ pc'[u] = pc[u]
  BY <1>0, <1>2 DEF SetError, TypeOK, collVars
<1>3. ASSUME NEW t \in Task, DependencyDone(t) \/ DependenciesMet(t) \/ Acquire(t) \/ FnReturns(t)
      PROVE  err' = err /\ pins' = pins /\ pc'[u] = pc[u]
  BY <1>0, <1>3 DEF DependencyDone, DependenciesMet, Acquire, FnReturns, MayReturn, TypeOK, collVars
<1>4. ASSUME NEW t \in Task, RecordError(t) \/ ReleaseSlot(t) \/ CloseDone(t)
      PROVE  err' = err /\ pins' = pins /\ (DoneClosed(u) => DoneClosed(u)')
  BY <1>4 DEF RecordError, ReleaseSlot, CloseDone, TypeOK, collVars
<1>5. ASSUME NEW t \in Task, ReleaseAndPrune(t) \/ WgDone(t)
      PROVE  err' = err /\ pins' = pins /\ (DoneClosed(u) => DoneClosed(u)')
  BY <1>5 DEF ReleaseAndPrune, WgDone, TypeOK, collVars
<1>6. ASSUME NEW g \in Group, SubGroup(g) \/ Wait(g) \/ ContextEnds(g)
      PROVE  UNCHANGED <<err, pins, pc>>
  BY <1>6 DEF SubGroup, Wait, ContextEnds, taskVars, collVars
<1>7. CASE CommandEnded \/ UNCHANGED vars
  BY <1>7 DEF CommandEnded, vars, taskVars, collVars
<1>8. ASSUME NEW t \in Task, UnknownDependency(t) \/ DependencyFailed(t)
                \/ DependencyCancelled(t) \/ AcquireCancelled(t) \/ FnFails(t)
      PROVE  err'[u] = err[u] /\ pins' = pins /\ pc'[u] = pc[u]
  BY <1>2, <1>8 DEF UnknownDependency, DependencyFailed, DependencyCancelled, AcquireCancelled,
    FnFails, MayReturn, WaitsFor
<1> QED BY <1>1, <1>3, <1>4, <1>5, <1>6, <1>7, <1>8 DEF Next, Advance, Return

(* Only RecordError writes a group's error, only Wait and SubGroup its     *)
(* verdict.                                                                *)
LEMMA WhoRecords ==
  ASSUME [Next]_vars
  PROVE  \/ UNCHANGED <<gerr, cancelled, verdict>>
         \/ \E t \in Task : RecordError(t)
         \/ \E g \in Group : SubGroup(g) \/ Wait(g) \/ ContextEnds(g)
<1>1. ASSUME NEW t \in Task, Go(t) \/ Return(t) PROVE UNCHANGED <<gerr, cancelled, verdict>>
  BY <1>1 DEF Go, Return, FnReturns, FnFails, SetError, groupVars
<1>2. ASSUME NEW t \in Task, Advance(t)
      PROVE  UNCHANGED <<gerr, cancelled, verdict>> \/ RecordError(t)
  BY <1>2 DEF Advance, UnknownDependency, DependencyDone, DependencyFailed, DependencyCancelled,
    DependenciesMet, Acquire, AcquireCancelled, ReleaseSlot, CloseDone, ReleaseAndPrune, WgDone,
    SetError, groupVars
<1>3. CASE CommandEnded \/ UNCHANGED vars
  BY <1>3 DEF CommandEnded, vars, groupVars
<1> QED BY <1>1, <1>2, <1>3 DEF Next

LEMMA NextRecorded ==
  ASSUME TypeOK, WaitIsAJoin, Causes, Recorded, [Next]_vars
  PROVE  Recorded'
<1>1. \A u \in Task : err[u] # "none" => err'[u] = err[u]
  BY ErrorStays
<1>2. cancelled \subseteq cancelled' /\ \A g \in Group : gerr[g] # NoTask => gerr'[g] = gerr[g]
  BY Growing
<1>3. ASSUME NEW g \in Group, gerr'[g] = gerr[g], verdict'[g] = "ok" => gerr[g] = NoTask
      PROVE  /\ gerr'[g] # NoTask => /\ gerr'[g] \in Task /\ Home[gerr'[g]] = g
                                     /\ err'[gerr'[g]] \in {"fn", "dep", "unknown"}
                                     /\ g \in cancelled'
             /\ verdict'[g] = "ok" => gerr'[g] = NoTask
  <2>1. CASE gerr[g] = NoTask
    BY <1>3, <2>1
  <2>2. CASE gerr[g] # NoTask
    <3>1. /\ gerr[g] \in Task /\ Home[gerr[g]] = g /\ g \in cancelled
          /\ err[gerr[g]] \in {"fn", "dep", "unknown"}
      BY <2>2 DEF Recorded
    <3>2. err'[gerr[g]] = err[gerr[g]]
      BY <1>1, <3>1
    <3> QED BY <1>2, <1>3, <2>2, <3>1, <3>2
  <2> QED BY <2>1, <2>2
<1>4. CASE UNCHANGED <<gerr, cancelled, verdict>>
  <2>1. \A g \in Group : gerr'[g] = gerr[g] /\ (verdict'[g] = "ok" => gerr[g] = NoTask)
    BY <1>4 DEF Recorded
  <2> QED BY <1>3, <2>1 DEF Recorded
<1>5. ASSUME NEW t \in Task, RecordError(t) PROVE Recorded'
  <2>1. /\ pc[t] = "record" /\ UNCHANGED <<verdict, err>> /\ Home[t] \in Group
        /\ err[t] \in {"fn", "dep", "unknown"} /\ verdict[Home[t]] # "ok"
    BY <1>5 DEF RecordError, Causes, Cause, WaitIsAJoin
  <2>2. \A g \in Group : \/ gerr'[g] = gerr[g]
                         \/ g = Home[t] /\ gerr'[g] = t /\ g \in cancelled'
    BY <1>5, <2>1 DEF RecordError, TypeOK
  <2>3. \A g \in Group : verdict'[g] = "ok" => gerr[g] = NoTask
    BY <2>1 DEF Recorded
  <2> QED BY <1>3, <2>1, <2>2, <2>3 DEF Recorded
<1>6. ASSUME NEW h \in Group, SubGroup(h) \/ Wait(h) \/ ContextEnds(h) PROVE Recorded'
  <2>1. \A g \in Group : gerr'[g] = gerr[g] /\ (verdict'[g] = "ok" => gerr[g] = NoTask)
    BY <1>6 DEF SubGroup, Wait, ContextEnds, TypeOK, Recorded
  <2> QED BY <1>3, <2>1 DEF Recorded
<1> QED BY <1>4, <1>5, <1>6, WhoRecords

LEMMA RecordedAlways == Spec => [](TypeOK /\ WaitIsAJoin /\ Causes /\ Recorded)
<1>1. Init => Causes /\ Recorded
  BY DEF Init, Causes, Cause, Recorded
<1>2. TypeOK /\ WaitIsAJoin /\ Causes /\ Recorded /\ [Next]_vars => Causes' /\ Recorded'
  BY NextCauses, NextRecorded
<1> QED BY <1>1, <1>2, TypeCorrect, WaitJoins, PTL DEF Spec

(* Isolate and SubGroup: whatever fails, a group's context ends only       *)
(* because the group, or one that it derives from, was ended by its caller *)
(* or had a task of its own fail: a failure never reaches a sibling or a   *)
(* parent, for any tree of groups.                                         *)
THEOREM FailuresStayBelow == Spec => []FailureStaysBelow
<1>1. Init => FailureStaysBelow
  BY DEF Init, FailureStaysBelow
<1>2. TypeOK /\ WaitIsAJoin /\ Causes /\ Recorded /\ FailureStaysBelow /\ [Next]_vars
        => FailureStaysBelow'
  <2> SUFFICES ASSUME TypeOK, WaitIsAJoin, Causes, Recorded, FailureStaysBelow, [Next]_vars
               PROVE  FailureStaysBelow'
    OBVIOUS
  <2>1. Recorded' /\ \A g \in Group : gerr[g] # NoTask => gerr'[g] = gerr[g]
    BY NextRecorded, Growing
  <2>2. ASSUME NEW g \in cancelled'
        PROVE  \/ g \in cancelled
               \/ \E h \in Group : g \in Below[h] /\ (h \in MayEnd \/ gerr'[h] # NoTask)
    <3>1. CASE UNCHANGED <<gerr, cancelled, verdict>>
      BY <3>1
    <3>2. ASSUME NEW t \in Task, RecordError(t)
          PROVE  g \in cancelled \/ (g \in Below[Home[t]] /\ gerr'[Home[t]] # NoTask)
      BY <3>2 DEF RecordError, TypeOK
    <3>3. ASSUME NEW h \in Group, SubGroup(h) \/ Wait(h) \/ ContextEnds(h)
          PROVE  g \in cancelled \/ (g \in Below[h] /\ (h \in MayEnd \/ gerr'[h] # NoTask))
      BY <3>3 DEF SubGroup, Wait, ContextEnds
    <3> QED BY <3>1, <3>2, <3>3, WhoRecords
  <2> SUFFICES ASSUME NEW g \in cancelled'
               PROVE  \E h \in Group : /\ g \in Below[h]
                                       /\ h \in MayEnd \/ (gerr'[h] # NoTask /\ Home[gerr'[h]] = h)
    BY DEF FailureStaysBelow
  <2>3. CASE g \in cancelled
    <3>1. PICK h \in Group : /\ g \in Below[h]
                             /\ h \in MayEnd \/ (gerr[h] # NoTask /\ Home[gerr[h]] = h)
      BY <2>3 DEF FailureStaysBelow
    <3> QED BY <2>1, <3>1
  <2>4. CASE g \notin cancelled
    <3>1. PICK h \in Group : g \in Below[h] /\ (h \in MayEnd \/ gerr'[h] # NoTask)
      BY <2>2, <2>4
    <3>2. gerr'[h] # NoTask => Home[gerr'[h]] = h
      BY <2>1 DEF Recorded
    <3> QED BY <3>1, <3>2
  <2> QED BY <2>3, <2>4
<1> QED BY <1>1, <1>2, RecordedAlways, PTL DEF Spec
----------------------------------------------------------------------------
(* The root cause: who depends on whom, and whose failure was passed on.   *)

SameGroup ==
  /\ \A g \in Group, d \in Desc : latest[g][d] # NoTask => Home[latest[g][d]] = g
  /\ \A t \in Task : \A i \in DOMAIN pins[t] :
       pins[t][i] # NoTask => pins[t][i] \in Task /\ Home[pins[t][i]] = Home[t]

LEMMA PinsOfGo ==
  ASSUME TypeOK, SameGroup, NEW t \in Task, Go(t), NEW i \in DOMAIN pins'[t]
  PROVE  /\ i \in DOMAIN DepKeys[t] /\ pins'[t][i] = Lookup(Home[t], DepKeys[t][i])
         /\ pins'[t][i] # NoTask => pins'[t][i] \in Task /\ Home[pins'[t][i]] = Home[t]
<1>1. /\ pins' = [pins EXCEPT ![t] = [j \in DOMAIN DepKeys[t] |-> Lookup(Home[t], DepKeys[t][j])]]
      /\ DepKeys[t] \in Seq(Task \cup Desc) /\ Home[t] \in Group
  BY DEF Go
<1>2. pins'[t] = [j \in DOMAIN DepKeys[t] |-> Lookup(Home[t], DepKeys[t][j])]
  BY <1>1 DEF TypeOK
<1>3. i \in DOMAIN DepKeys[t] /\ pins'[t][i] = Lookup(Home[t], DepKeys[t][i])
  BY <1>2
<1>4. DepKeys[t][i] \in Task \cup Desc
  BY <1>1, <1>3, LenProperties, ElementOfSeq
<1> DEFINE k == DepKeys[t][i]
           pin == Lookup(Home[t], k)
<1>5. pin # NoTask => pin \in Task /\ Home[pin] = Home[t]
  <2>1. CASE k \in Task  BY <2>1 DEF Lookup
  <2>2. CASE k \notin Task
    <3>1. k \in Desc  BY <1>4, <2>2
    <3>2. pin = latest[Home[t]][k]  BY <2>2 DEF Lookup
    <3>3. latest[Home[t]][k] \in Task \cup {NoTask}  BY <1>1, <3>1 DEF TypeOK
    <3> QED BY <1>1, <3>1, <3>2, <3>3 DEF SameGroup
  <2> QED BY <2>1, <2>2
<1> QED BY <1>3, <1>5

LEMMA RestoreGroup ==
  ASSUME TypeOK, SameGroup, NEW g \in Group, NEW d \in Desc, NEW left \in SUBSET Task,
         Restore(g, d, left) # NoTask
  PROVE  Home[Restore(g, d, left)] = g
<1>1. Labelled(left, g, d) \in SUBSET Task
  BY DEF Labelled
<1>2. Labelled(left, g, d) # {} => Latest(Labelled(left, g, d)) \in Labelled(left, g, d)
  BY <1>1, LatestExists DEF TypeOK
<1> QED BY <1>2 DEF Restore, Labelled, SameGroup

(* Pins are written by Go alone, the collection by Go and ReleaseAndPrune. *)
LEMMA WhoPins ==
  ASSUME [Next]_vars
  PROVE  \/ UNCHANGED collVars
         \/ \E t \in Task : Go(t) \/ ReleaseAndPrune(t)
<1>1. ASSUME NEW t \in Task, Advance(t) \/ Return(t) PROVE UNCHANGED collVars \/ ReleaseAndPrune(t)
  BY <1>1 DEF Advance, UnknownDependency, DependencyDone, DependencyFailed, DependencyCancelled,
    DependenciesMet, Acquire, AcquireCancelled, RecordError, ReleaseSlot, CloseDone, WgDone,
    Return, FnReturns, FnFails, SetError
<1>2. ASSUME NEW g \in Group, SubGroup(g) \/ Wait(g) \/ ContextEnds(g) PROVE UNCHANGED collVars
  BY <1>2 DEF SubGroup, Wait, ContextEnds
<1>3. CASE CommandEnded \/ UNCHANGED vars
  BY <1>3 DEF CommandEnded, vars
<1> QED BY <1>1, <1>2, <1>3 DEF Next

LEMMA NextSameGroup ==
  ASSUME TypeOK, SameGroup, [Next]_vars
  PROVE  SameGroup'
<1>1. CASE UNCHANGED collVars
  BY <1>1 DEF collVars, SameGroup
<1>2. ASSUME NEW t \in Task, Go(t) PROVE SameGroup'
  <2>1. \A v \in Task \ {t} : pins'[v] = pins[v]
    BY <1>2 DEF Go, TypeOK
  <2>2. \A g \in Group, d \in Desc : latest'[g][d] = latest[g][d] \/ (latest'[g][d] = t /\ g = Home[t])
    BY <1>2 DEF Go, TypeOK
  <2>3. ASSUME NEW v \in Task, NEW i \in DOMAIN pins'[v], pins'[v][i] # NoTask
        PROVE  pins'[v][i] \in Task /\ Home[pins'[v][i]] = Home[v]
    <3>1. CASE v = t
      BY <1>2, <2>3, <3>1, PinsOfGo
    <3>2. CASE v # t
      BY <2>1, <2>3, <3>2 DEF SameGroup
    <3> QED BY <3>1, <3>2
  <2>4. ASSUME NEW g \in Group, NEW d \in Desc, latest'[g][d] # NoTask PROVE Home[latest'[g][d]] = g
    <3>1. latest'[g][d] = latest[g][d] \/ (latest'[g][d] = t /\ g = Home[t])
      BY <2>2
    <3>2. latest[g][d] # NoTask => Home[latest[g][d]] = g
      BY DEF SameGroup
    <3> QED BY <2>4, <3>1, <3>2
  <2> QED BY <2>3, <2>4 DEF SameGroup
<1>3. ASSUME NEW t \in Task, ReleaseAndPrune(t) PROVE SameGroup'
  <2>1. live' \in SUBSET Task
    BY <1>3 DEF ReleaseAndPrune, TypeOK
  <2>2. \A g \in Group, d \in Desc : latest'[g][d] = Restore(g, d, live')
    BY <1>3 DEF ReleaseAndPrune
  <2>3. pins' = pins
    BY <1>3 DEF ReleaseAndPrune
  <2> QED BY <2>1, <2>2, <2>3, RestoreGroup DEF SameGroup
<1> QED BY <1>1, <1>2, <1>3, WhoPins

(* A task that says its dependency failed has one that did.                *)
Pinned(u, v) == \E i \in DOMAIN pins[u] : pins[u][i] = v

Blame ==
  \A u \in Task : err[u] = "dep" =>
    \E v \in Task : Pinned(u, v) /\ DoneClosed(v) /\ err[v] # "none"

LEMMA NextBlame ==
  ASSUME TypeOK, Causes, Blame, [Next]_vars
  PROVE  Blame'
<1>1. ASSUME NEW u \in Task, err[u] = "dep"
      PROVE  \E v \in Task : Pinned(u, v)' /\ DoneClosed(v)' /\ err'[v] # "none"
  <2>1. PICK v \in Task : Pinned(u, v) /\ DoneClosed(v) /\ err[v] # "none"
    BY <1>1 DEF Blame
  <2>2. pins'[u] = pins[u]
    BY <1>1, ErrorStays
  <2>3. err'[v] = err[v] /\ DoneClosed(v)'
    BY <2>1, ErrorStays
  <2> QED BY <2>1, <2>2, <2>3 DEF Pinned
<1>2. ASSUME NEW u \in Task, err[u] # "dep", err'[u] = "dep" PROVE DependencyFailed(u)
  <2>1. ASSUME NEW t \in Task, NEW e, SetError(t, e), t # u \/ e # "dep" PROVE FALSE
    BY <1>2, <2>1 DEF SetError, TypeOK
  <2>2. ASSUME NEW t \in Task, Advance(t) PROVE DependencyFailed(u)
    <3>1. UNCHANGED err \/ UnknownDependency(t) \/ DependencyFailed(t) \/ DependencyCancelled(t)
             \/ AcquireCancelled(t)
      BY <2>2 DEF Advance, DependencyDone, DependenciesMet, Acquire, RecordError, ReleaseSlot,
        CloseDone, ReleaseAndPrune, WgDone
    <3> QED BY <1>2, <2>1, <3>1 DEF UnknownDependency, DependencyFailed, DependencyCancelled,
        AcquireCancelled
  <2>3. ASSUME NEW t \in Task, Go(t) \/ Return(t) PROVE FALSE
    BY <1>2, <2>1, <2>3 DEF Go, Return, FnReturns, FnFails
  <2>4. ASSUME NEW g \in Group, SubGroup(g) \/ Wait(g) \/ ContextEnds(g) PROVE FALSE
    BY <1>2, <2>4 DEF SubGroup, Wait, ContextEnds, taskVars
  <2>5. ASSUME CommandEnded \/ UNCHANGED vars PROVE FALSE
    BY <1>2, <2>5 DEF CommandEnded, vars, taskVars
  <2> QED BY <2>2, <2>3, <2>4, <2>5 DEF Next
<1>3. ASSUME NEW u \in Task, DependencyFailed(u)
      PROVE  \E v \in Task : Pinned(u, v)' /\ DoneClosed(v)' /\ err'[v] # "none"
  <2>1. PICK v \in Task : WaitsFor(u, v) /\ DoneClosed(v) /\ err[v] # "none" /\ SetError(u, "dep")
    BY <1>3 DEF DependencyFailed
  <2>2. Pinned(u, v) /\ pins' = pins
    BY <2>1 DEF WaitsFor, SetError, collVars, Pinned
  <2>3. DoneClosed(v)' /\ err'[v] # "none"
    BY <2>1, ErrorStays
  <2> QED BY <2>2, <2>3 DEF Pinned
<1> QED BY <1>1, <1>2, <1>3 DEF Blame

(* errOnce keeps the first error: if it only says that a dependency failed *)
(* then that dependency was cut off by the context, as its own error would *)
(* have been recorded before its done was closed.                          *)
RootCause ==
  \A g \in Group : gerr[g] # NoTask /\ err[gerr[g]] = "dep" =>
    \E i \in DOMAIN pins[gerr[g]] :
      pins[gerr[g]][i] \in Task /\ err[pins[gerr[g]][i]] = "ctx"

LEMMA NextRootCause ==
  ASSUME TypeOK, WaitIsAJoin, Causes, Recorded, SameGroup, Blame, RootCause, [Next]_vars
  PROVE  RootCause'
<1>1. ASSUME NEW g \in Group, NEW u \in Task, gerr[g] = u, gerr'[g] = u, err'[u] = "dep", u # NoTask
      PROVE  \E i \in DOMAIN pins'[u] : pins'[u][i] \in Task /\ err'[pins'[u][i]] = "ctx"
  <2>1. err[u] = "dep" /\ pins'[u] = pins[u]
    BY <1>1, ErrorStays DEF Recorded
  <2>2. PICK i \in DOMAIN pins[u] : pins[u][i] \in Task /\ err[pins[u][i]] = "ctx"
    BY <1>1, <2>1 DEF RootCause
  <2> DEFINE v == pins[u][i]
  <2>3. v \in Task /\ err[v] = "ctx"
    BY <2>2
  <2> HIDE DEF v
  <2>4. err'[v] = "ctx"
    BY <2>3, ErrorStays
  <2> USE DEF v
  <2> QED BY <2>1, <2>3, <2>4
<1>2. ASSUME NEW t \in Task, RecordError(t), gerr[Home[t]] = NoTask, err[t] = "dep"
      PROVE  \E i \in DOMAIN pins[t] : pins[t][i] \in Task /\ err[pins[t][i]] = "ctx"
  <2>1. PICK v \in Task : Pinned(t, v) /\ DoneClosed(v) /\ err[v] # "none"
    BY <1>2 DEF Blame
  <2>2. PICK i \in DOMAIN pins[t] : pins[t][i] = v
    BY <2>1 DEF Pinned
  <2>3. Home[v] = Home[t]
    BY <2>2 DEF SameGroup
  <2>4. pc[v] # "record" /\ err[v] \in Errors
    BY <2>1 DEF DoneClosed, TypeOK
  <2>5. err[v] = "ctx"
    BY <1>2, <2>1, <2>3, <2>4 DEF Causes, Cause, Errors
  <2> QED BY <2>2, <2>5
<1>3. ASSUME NEW g \in Group, gerr'[g] # gerr[g]
      PROVE  \E t \in Task : RecordError(t) /\ g = Home[t] /\ gerr[g] = NoTask /\ gerr'[g] = t
  <2>1. PICK t \in Task : RecordError(t)
    BY <1>3, WhoRecords DEF SubGroup, Wait, ContextEnds
  <2> QED BY <1>3, <2>1 DEF RecordError, TypeOK
<1> SUFFICES ASSUME NEW g \in Group, gerr'[g] # NoTask, err'[gerr'[g]] = "dep"
             PROVE  \E i \in DOMAIN pins'[gerr'[g]] :
                      pins'[gerr'[g]][i] \in Task /\ err'[pins'[gerr'[g]][i]] = "ctx"
  BY DEF RootCause
<1>4. CASE gerr'[g] = gerr[g]
  <2>1. gerr[g] \in Task
    BY <1>4 DEF Recorded
  <2> QED BY <1>1, <1>4, <2>1
<1>5. CASE gerr'[g] # gerr[g]
  <2>1. PICK t \in Task : RecordError(t) /\ g = Home[t] /\ gerr[g] = NoTask /\ gerr'[g] = t
    BY <1>3, <1>5
  <2>2. UNCHANGED <<err, pins>>
    BY <2>1 DEF RecordError, collVars
  <2> QED BY <1>2, <2>1, <2>2
<1> QED BY <1>4, <1>5

(* Wait neither calls a failed group good nor blames the wrong task: a nil *)
(* hides no failure but that of a context, and the error that errOnce kept *)
(* is the one that all others followed from.                               *)
THEOREM VerdictsAreTrue == Spec => []VerdictIsTrue
<1>1. Init => SameGroup /\ Blame /\ RootCause
  <2> SUFFICES ASSUME Init PROVE SameGroup /\ Blame /\ RootCause
    OBVIOUS
  <2>1. \A t \in Task : DOMAIN pins[t] = {}
    BY EmptySeq DEF Init
  <2>2. SameGroup
    BY <2>1 DEF Init, SameGroup
  <2>3. Blame
    BY DEF Init, Blame
  <2>4. RootCause
    BY DEF Init, RootCause
  <2> QED BY <2>2, <2>3, <2>4
<1>2. TypeOK /\ WaitIsAJoin /\ Causes /\ Recorded /\ SameGroup /\ Blame /\ RootCause /\ [Next]_vars
        => SameGroup' /\ Blame' /\ RootCause'
  BY NextSameGroup, NextBlame, NextRootCause
<1>3. TypeOK /\ WaitIsAJoin /\ Causes /\ Recorded /\ RootCause => VerdictIsTrue
  <2> SUFFICES ASSUME TypeOK, WaitIsAJoin, Causes, Recorded, RootCause PROVE VerdictIsTrue
    OBVIOUS
  <2>1. ASSUME NEW g \in Group, NEW t \in Task,
               verdict[g] = "ok", Home[t] = g, state[t] = "Failed"
        PROVE  err[t] = "ctx" /\ g \in cancelled
    <3>1. err[t] # "none" /\ pc[t] # "record"
      BY <2>1 DEF Causes, Cause, WaitIsAJoin
    <3>2. gerr[g] = NoTask /\ err[t] \in Errors
      BY <2>1 DEF Recorded, TypeOK
    <3> QED BY <2>1, <3>1, <3>2 DEF Causes, Cause, Errors
  <2>2. ASSUME NEW g \in Group, NEW u \in Task, gerr[g] = u, err[u] = "dep"
        PROVE  \E i \in DOMAIN pins[u] : err[pins[u][i]] = "ctx"
    BY <2>2 DEF RootCause
  <2> QED BY <2>1, <2>2 DEF VerdictIsTrue, NilVerdictJustified, RootCauseRecorded
<1> QED BY <1>1, <1>2, <1>3, RecordedAlways, PTL DEF Spec
----------------------------------------------------------------------------
(* The collection: ids are unique and increase, so a description has one   *)
(* newest holder, and waiters counts exactly the pins still owed.          *)

Ids ==
  \A t \in Task :
    /\ id[t] = 0 <=> pc[t] = "unborn"
    /\ id[t] <= Cardinality({u \in Task : id[u] # 0})
    /\ \A u \in Task : id[t] = id[u] /\ id[t] # 0 => t = u

Born == \A t \in live : pc[t] # "unborn"

(* The newest of a set is determined by ids that are unique.               *)
LEMMA NewestIs ==
  ASSUME NEW f \in [Task -> Nat], NEW S \in SUBSET Task, NEW u \in S,
         \A v \in S : f[v] <= f[u] /\ (f[v] = f[u] => v = u)
  PROVE  (CHOOSE w \in S : \A v \in S : f[v] <= f[w]) = u
<1> DEFINE top == CHOOSE w \in S : \A v \in S : f[v] <= f[w]
<1>1. top \in S /\ \A v \in S : f[v] <= f[top]
  OBVIOUS
<1> HIDE DEF top
<1>2. f[top] = f[u]
  <2>1. f[top] <= f[u] /\ f[u] <= f[top] /\ f[top] \in Nat /\ f[u] \in Nat
    BY <1>1
  <2> QED BY <2>1
<1>3. top = u
  BY <1>1, <1>2
<1> QED BY <1>3 DEF top

(* Every step but Go leaves the ids and who is unborn alone.               *)
LEMMA WhoIsBorn ==
  ASSUME TypeOK, [Next]_vars
  PROVE  \/ id' = id /\ \A u \in Task : pc'[u] = "unborn" <=> pc[u] = "unborn"
         \/ \E t \in Task : Go(t)
<1>1. ASSUME NEW t \in Task, NEW e, SetError(t, e), pc[t] # "unborn"
      PROVE  id' = id /\ \A u \in Task : pc'[u] = "unborn" <=> pc[u] = "unborn"
  BY <1>1 DEF SetError, TypeOK, collVars
<1>2. ASSUME NEW t \in Task, UnknownDependency(t) \/ DependencyFailed(t)
                \/ DependencyCancelled(t) \/ AcquireCancelled(t) \/ FnFails(t)
      PROVE  id' = id /\ \A u \in Task : pc'[u] = "unborn" <=> pc[u] = "unborn"
  BY <1>1, <1>2 DEF UnknownDependency, DependencyFailed, DependencyCancelled, AcquireCancelled,
    FnFails, MayReturn, WaitsFor
<1>3. ASSUME NEW t \in Task, DependencyDone(t) \/ DependenciesMet(t) \/ Acquire(t) \/ FnReturns(t)
      PROVE  id' = id /\ \A u \in Task : pc'[u] = "unborn" <=> pc[u] = "unborn"
  BY <1>3 DEF DependencyDone, DependenciesMet, Acquire, FnReturns, MayReturn, TypeOK, collVars
<1>4. ASSUME NEW t \in Task, RecordError(t) \/ ReleaseSlot(t) \/ CloseDone(t)
      PROVE  id' = id /\ \A u \in Task : pc'[u] = "unborn" <=> pc[u] = "unborn"
  BY <1>4 DEF RecordError, ReleaseSlot, CloseDone, TypeOK, collVars
<1>5. ASSUME NEW t \in Task, ReleaseAndPrune(t) \/ WgDone(t)
      PROVE  id' = id /\ \A u \in Task : pc'[u] = "unborn" <=> pc[u] = "unborn"
  BY <1>5 DEF ReleaseAndPrune, WgDone, TypeOK, collVars
<1>6. ASSUME NEW g \in Group, SubGroup(g) \/ Wait(g) \/ ContextEnds(g) PROVE id' = id /\ pc' = pc
  BY <1>6 DEF SubGroup, Wait, ContextEnds, taskVars, collVars
<1>7. CASE CommandEnded \/ UNCHANGED vars
  BY <1>7 DEF CommandEnded, vars, taskVars, collVars
<1> QED BY <1>2, <1>3, <1>4, <1>5, <1>6, <1>7 DEF Next, Advance, Return

(* A new id is larger than every id before it.                             *)
LEMMA FreshId ==
  ASSUME TypeOK, Ids, NEW t \in Task, Go(t)
  PROVE  /\ id' = [id EXCEPT ![t] = id'[t]] /\ id'[t] \in Nat \ {0} /\ id[t] = 0
         /\ \A u \in Task : id[u] < id'[t]
         /\ Cardinality({u \in Task : id'[u] # 0}) = id'[t]
<1> DEFINE B == {u \in Task : id[u] # 0}
<1>1. IsFiniteSet(B) /\ Cardinality(B) \in Nat
  BY FS_Subset, FS_CardinalityType
<1>2. id' = [id EXCEPT ![t] = 1 + Cardinality(B)] /\ id[t] = 0
  BY DEF Go, Ids
<1> DEFINE n == 1 + Cardinality(B)
<1>3. n \in Nat \ {0} /\ id' = [id EXCEPT ![t] = n] /\ id \in [Task -> Nat]
  BY <1>1, <1>2 DEF TypeOK
<1>4. \A u \in Task : id[u] < n
  <2>1. \A u \in Task : id[u] <= Cardinality(B)
    BY Zenon DEF Ids
  <2>2. \A u \in Task : id[u] \in Nat
    BY DEF TypeOK
  <2> HIDE DEF B
  <2> QED BY <1>1, <2>1, <2>2
<1>5. n = Cardinality(B) + 1
  BY <1>1
<1> HIDE DEF n
<1>6. id'[t] = n /\ \A u \in Task \ {t} : id'[u] = id[u]
  BY <1>3
<1>7. {u \in Task : id'[u] # 0} = B \cup {t}
  BY <1>3, <1>6
<1>8. Cardinality(B \cup {t}) = n
  <2>1. t \notin B
    BY <1>2
  <2> HIDE DEF B
  <2> QED BY <1>1, <1>5, <2>1, FS_AddElement
<1> HIDE DEF B
<1>9. Cardinality({u \in Task : id'[u] # 0}) = id'[t]
  BY <1>6, <1>7, <1>8
<1> QED BY <1>2, <1>3, <1>4, <1>6, <1>9

LEMMA NextIds ==
  ASSUME TypeOK, Ids, [Next]_vars
  PROVE  Ids'
<1>1. CASE id' = id /\ \A u \in Task : pc'[u] = "unborn" <=> pc[u] = "unborn"
  BY <1>1 DEF Ids
<1>2. ASSUME NEW t \in Task, Go(t) PROVE Ids'
  <2>1. /\ id' = [id EXCEPT ![t] = id'[t]] /\ id'[t] \in Nat \ {0} /\ id[t] = 0
        /\ \A u \in Task : id[u] < id'[t]
        /\ Cardinality({u \in Task : id'[u] # 0}) = id'[t]
    BY <1>2, FreshId
  <2>2. \A u \in Task \ {t} : id'[u] = id[u] /\ pc'[u] = pc[u]
    BY <1>2 DEF Go, TypeOK
  <2>3. pc'[t] = "deps"
    BY <1>2 DEF Go, TypeOK
  <2>4. ASSUME NEW u \in Task
        PROVE  /\ id'[u] = 0 <=> pc'[u] = "unborn"
               /\ id'[u] <= id'[t]
               /\ \A v \in Task : id'[u] = id'[v] /\ id'[u] # 0 => u = v
    <3>1. CASE u = t
      <4>1. \A v \in Task \ {t} : id'[v] # id'[t]
        BY <2>1, <2>2 DEF TypeOK
      <4> QED BY <2>1, <2>3, <3>1, <4>1
    <3>2. CASE u # t
      <4>1. id'[u] = id[u] /\ pc'[u] = pc[u] /\ id[u] < id'[t] /\ id[u] \in Nat
        BY <2>1, <2>2, <3>2 DEF TypeOK
      <4>2. ASSUME NEW v \in Task, id'[u] = id'[v], id'[u] # 0 PROVE u = v
        <5>1. v # t
          BY <4>1, <4>2
        <5>2. id[u] = id[v] /\ id[u] # 0
          BY <2>2, <4>1, <4>2, <5>1
        <5> QED BY <5>2 DEF Ids
      <4>3. id'[u] = 0 <=> pc'[u] = "unborn"
        BY <4>1 DEF Ids
      <4> QED BY <2>1, <4>1, <4>2, <4>3
    <3> QED BY <3>1, <3>2
  <2> QED BY <2>1, <2>4 DEF Ids
<1> QED BY <1>1, <1>2, WhoIsBorn

LEMMA NextBorn ==
  ASSUME TypeOK, Born, [Next]_vars
  PROVE  Born'
<1>1. ASSUME NEW t \in Task, Go(t) PROVE Born'
  BY <1>1 DEF Go, TypeOK, Born
<1>2. CASE ~\E t \in Task : Go(t)
  <2>1. \A u \in Task : pc'[u] = "unborn" <=> pc[u] = "unborn"
    BY <1>2, WhoIsBorn
  <2>2. live' \subseteq live
    BY <1>2, WhoPins DEF collVars, ReleaseAndPrune
  <2> QED BY <2>1, <2>2 DEF Born, TypeOK
<1> QED BY <1>1, <1>2

(* A description resolves to the newest live task that carries it.         *)
LEMMA NextLatest ==
  ASSUME TypeOK, TypeOK', Ids, Ids', Born, LatestIsNewest, [Next]_vars
  PROVE  LatestIsNewest'
<1> DEFINE Newest(f, S) == CHOOSE w \in S : \A v \in S : f[v] <= f[w]
<1> SUFFICES ASSUME NEW g \in Group, NEW d \in Desc
             PROVE  latest'[g][d] = IF Labelled(live', g, d) = {} THEN NoTask
                                    ELSE Newest(id', Labelled(live', g, d))
  BY DEF LatestIsNewest, Latest, Labelled
<1> DEFINE L == Labelled(live, g, d)
<1>1. /\ L \in SUBSET Task
      /\ latest[g][d] = IF L = {} THEN NoTask ELSE Latest(L)
      /\ L # {} => Latest(L) \in L /\ \A v \in L : id[v] <= id[Latest(L)]
  <2>1. L \in SUBSET Task
    BY DEF Labelled, TypeOK
  <2>2. latest[g][d] = IF L = {} THEN NoTask ELSE Latest(L)
    BY DEF LatestIsNewest
  <2> HIDE DEF L
  <2> QED BY <2>1, <2>2, LatestExists DEF TypeOK
<1>2. ASSUME NEW S \in SUBSET L, Latest(L) \in S, NEW f \in [Task -> Nat],
             \A v \in L : f[v] = id[v]
      PROVE  Newest(f, S) = Latest(L)
  <2>1. S \in SUBSET Task /\ L # {}
    BY <1>1, <1>2
  <2>2. \A v \in S : id[v] \in Nat \ {0}
    BY <1>1, <1>2 DEF Labelled, Ids, Born, TypeOK
  <2>3. \A v \in S : f[v] <= f[Latest(L)] /\ (f[v] = f[Latest(L)] => v = Latest(L))
    BY <1>1, <1>2, <2>1, <2>2 DEF Ids
  <2> HIDE DEF L
  <2> QED BY <1>2, <2>1, <2>3, NewestIs
<1>3. CASE UNCHANGED collVars
  <2>1. latest' = latest /\ live' = live /\ id' = id
    BY <1>3 DEF collVars
  <2> QED BY <1>1, <2>1 DEF Latest
<1>4. ASSUME NEW t \in Task, ReleaseAndPrune(t)
      PROVE  latest'[g][d] = IF Labelled(live', g, d) = {} THEN NoTask
                             ELSE Newest(id', Labelled(live', g, d))
  <2>1. latest'[g][d] = Restore(g, d, live') /\ id' = id /\ live' \subseteq live
    BY <1>4 DEF ReleaseAndPrune
  <2>2. Labelled(live', g, d) \in SUBSET L
    BY <2>1 DEF Labelled
  <2>3. CASE latest[g][d] = NoTask
    <3>1. L = {}
      BY <1>1, <2>3
    <3> QED BY <2>1, <2>2, <2>3, <3>1 DEF Restore
  <2>4. CASE latest[g][d] # NoTask /\ latest[g][d] \in live'
    <3>1. L # {} /\ latest[g][d] = Latest(L) /\ Latest(L) \in L
      BY <1>1, <2>4
    <3>2. Latest(L) \in Labelled(live', g, d)
      BY <2>4, <3>1 DEF Labelled
    <3>3. Newest(id, Labelled(live', g, d)) = Latest(L)
      <4>1. id \in [Task -> Nat]
        BY DEF TypeOK
      <4> HIDE DEF L, Newest
      <4> QED BY <1>2, <2>2, <3>2, <4>1
    <3>4. latest'[g][d] = Latest(L)
      BY <2>1, <2>4, <3>1 DEF Restore
    <3> QED BY <2>1, <3>2, <3>3, <3>4
  <2>5. CASE latest[g][d] # NoTask /\ latest[g][d] \notin live'
    BY <2>1, <2>5 DEF Restore, Latest
  <2> QED BY <2>3, <2>4, <2>5
<1>5. ASSUME NEW t \in Task, Go(t)
      PROVE  latest'[g][d] = IF Labelled(live', g, d) = {} THEN NoTask
                             ELSE Newest(id', Labelled(live', g, d))
  <2>1. /\ id' = [id EXCEPT ![t] = id'[t]] /\ id'[t] \in Nat \ {0}
        /\ \A u \in Task : id[u] < id'[t]
    BY <1>5, FreshId
  <2>2. live' = live \cup {t} /\ latest' = [latest EXCEPT ![Home[t]][DescOf[t]] = t] /\ t \notin live
    BY <1>5 DEF Go, Born
  <2>3. id' \in [Task -> Nat]
    BY DEF TypeOK
  <2>4. CASE g = Home[t] /\ d = DescOf[t]
    <3>1. latest'[g][d] = t
      BY <2>2, <2>4 DEF TypeOK
    <3>2. Labelled(live', g, d) = L \cup {t}
      BY <2>2, <2>4 DEF Labelled
    <3>3. L \cup {t} \in SUBSET Task
      BY <1>1
    <3>4. ASSUME NEW v \in L \cup {t} PROVE id'[v] <= id'[t] /\ (id'[v] = id'[t] => v = t)
      <4>1. CASE v = t
        BY <2>1, <4>1
      <4>2. CASE v # t
        <5>1. v \in Task /\ id'[v] = id[v] /\ id[v] < id'[t] /\ id[v] \in Nat
          BY <2>1, <3>3, <4>2 DEF TypeOK
        <5> QED BY <2>1, <5>1
      <4> QED BY <4>1, <4>2
    <3>5. Newest(id', L \cup {t}) = t
      <4> HIDE DEF L
      <4> QED BY <2>3, <3>3, <3>4, NewestIs
    <3> QED BY <3>1, <3>2, <3>5
  <2>5. CASE ~(g = Home[t] /\ d = DescOf[t])
    <3>1. latest'[g][d] = latest[g][d]
      BY <2>2, <2>5 DEF TypeOK
    <3>2. Labelled(live', g, d) = L
      BY <2>2, <2>5 DEF Labelled
    <3>3. \A v \in L : id'[v] = id[v]
      BY <2>1, <2>2 DEF Labelled, TypeOK
    <3>4. L # {} => Newest(id', L) = Latest(L)
      <4> HIDE DEF L, Newest
      <4> QED BY <1>1, <1>2, <2>3, <3>3
    <3> QED BY <1>1, <3>1, <3>2, <3>4
  <2> QED BY <2>4, <2>5
<1> QED BY <1>3, <1>4, <1>5, WhoPins

(* The pins on u of tasks that are at c and have not released them yet.    *)
Over == {"unborn", "wgdone", "gone"}
OwedOf(P, c, u) ==
  {x \in UNION {{t} \X DOMAIN P[t] : t \in Task} : P[x[1]][x[2]] = u /\ c[x[1]] \notin Over}
Owed(u) == OwedOf(pins, pc, u)
PinsTo(t, u) == {i \in DOMAIN pins[t] : pins[t][i] = u}

LEMMA InOwed ==
  ASSUME NEW P, NEW c, NEW u, NEW x
  PROVE  x \in OwedOf(P, c, u) <=>
           \E t \in Task : \E i \in DOMAIN P[t] : x = <<t, i>> /\ P[t][i] = u /\ c[t] \notin Over
<1>1. ASSUME x \in OwedOf(P, c, u)
      PROVE  \E t \in Task : \E i \in DOMAIN P[t] : x = <<t, i>> /\ P[t][i] = u /\ c[t] \notin Over
  <2>1. PICK t \in Task : x \in {t} \X DOMAIN P[t]
    BY <1>1 DEF OwedOf
  <2>2. PICK i \in DOMAIN P[t] : x = <<t, i>>
    BY <2>1
  <2>3. P[x[1]][x[2]] = u /\ c[x[1]] \notin Over
    BY <1>1 DEF OwedOf
  <2> QED BY <2>2, <2>3
<1>2. ASSUME NEW t \in Task, NEW i \in DOMAIN P[t], x = <<t, i>>, P[t][i] = u, c[t] \notin Over
      PROVE  x \in OwedOf(P, c, u)
  <2>1. x \in {t} \X DOMAIN P[t] /\ x[1] = t /\ x[2] = i
    BY <1>2
  <2>2. x \in UNION {{v} \X DOMAIN P[v] : v \in Task}
    BY <2>1
  <2> QED BY <1>2, <2>1, <2>2 DEF OwedOf
<1> QED BY <1>1, <1>2

LEMMA OwedFinite ==
  ASSUME TypeOK, NEW u \in Task
  PROVE  /\ IsFiniteSet(Owed(u)) /\ Cardinality(Owed(u)) \in Nat
         /\ \A t \in Task : IsFiniteSet(PinsTo(t, u)) /\ Cardinality(PinsTo(t, u)) \in Nat
<1>1. \A t \in Task : IsFiniteSet(DOMAIN pins[t])
  BY LenProperties, FS_Interval DEF TypeOK
<1>2. \A t \in Task : IsFiniteSet({t} \X DOMAIN pins[t])
  BY <1>1, FS_Product, FS_Singleton
<1> DEFINE F == {{t} \X DOMAIN pins[t] : t \in Task}
           f == [t \in Task |-> {t} \X DOMAIN pins[t]]
<1>3. IsFiniteSet(F)
  <2>1. f \in Surjection(Task, F)
    BY DEF Surjection
  <2> HIDE DEF f, F
  <2> QED BY <2>1, FS_Surjection
<1>4. IsFiniteSet(UNION F)
  <2>1. \A S \in F : IsFiniteSet(S)
    BY <1>2
  <2> HIDE DEF F
  <2> QED BY <1>3, <2>1, FS_UNION
<1>5. Owed(u) \in SUBSET UNION F
  BY DEF Owed, OwedOf
<1>6. \A t \in Task : PinsTo(t, u) \in SUBSET DOMAIN pins[t]
  BY DEF PinsTo
<1> HIDE DEF F
<1> QED BY <1>1, <1>4, <1>5, <1>6, FS_Subset, FS_CardinalityType

(* The pins of one task on another, as pairs.                              *)
LEMMA PairsOfOne ==
  ASSUME NEW t, NEW S, IsFiniteSet(S)
  PROVE  IsFiniteSet({t} \X S) /\ Cardinality({t} \X S) = Cardinality(S)
<1>1. IsFiniteSet({t}) /\ Cardinality({t}) = 1
  BY FS_Singleton
<1>2. IsFiniteSet({t} \X S) /\ Cardinality({t} \X S) = 1 * Cardinality(S)
  BY <1>1, FS_Product
<1>3. Cardinality(S) \in Nat
  BY FS_CardinalityType
<1> QED BY <1>2, <1>3

LEMMA WaitersAreOwed ==
  WaitersExact <=> \A u \in Task : waiters[u] = Cardinality(Owed(u)) /\ (waiters[u] > 0 => u \in live)
BY DEF WaitersExact, Owed, OwedOf, Over

(* Only Go and ReleaseAndPrune change who owes a pin and who is at work.   *)
AtWork == {"deps", "acquire", "body"}
GoesOn(u) == /\ pc'[u] \in Over <=> pc[u] \in Over
             /\ pc'[u] \in AtWork => pc[u] \in AtWork

LEMMA WhoOwes ==
  ASSUME TypeOK, [Next]_vars
  PROVE  \/ UNCHANGED collVars /\ \A u \in Task : GoesOn(u)
         \/ \E t \in Task : Go(t) \/ ReleaseAndPrune(t)
<1> USE DEF Over, AtWork, GoesOn
<1>1. ASSUME NEW t \in Task, NEW e, SetError(t, e), pc[t] \in {"deps", "acquire", "body"}
      PROVE  UNCHANGED collVars /\ \A u \in Task : GoesOn(u)
  BY <1>1 DEF SetError, TypeOK
<1>2. ASSUME NEW t \in Task, UnknownDependency(t) \/ DependencyFailed(t)
                \/ DependencyCancelled(t) \/ AcquireCancelled(t) \/ FnFails(t)
      PROVE  UNCHANGED collVars /\ \A u \in Task : GoesOn(u)
  BY <1>1, <1>2 DEF UnknownDependency, DependencyFailed, DependencyCancelled, AcquireCancelled,
    FnFails, MayReturn, WaitsFor
<1>3. ASSUME NEW t \in Task, DependencyDone(t) \/ DependenciesMet(t) \/ Acquire(t) \/ FnReturns(t)
      PROVE  UNCHANGED collVars /\ \A u \in Task : GoesOn(u)
  BY <1>3 DEF DependencyDone, DependenciesMet, Acquire, FnReturns, MayReturn, TypeOK
<1>4. ASSUME NEW t \in Task, RecordError(t) \/ ReleaseSlot(t) \/ CloseDone(t) \/ WgDone(t)
      PROVE  UNCHANGED collVars /\ \A u \in Task : GoesOn(u)
  BY <1>4 DEF RecordError, ReleaseSlot, CloseDone, WgDone, TypeOK
<1>5. ASSUME NEW g \in Group, SubGroup(g) \/ Wait(g) \/ ContextEnds(g)
      PROVE  UNCHANGED collVars /\ pc' = pc
  BY <1>5 DEF SubGroup, Wait, ContextEnds, taskVars
<1>6. CASE CommandEnded \/ UNCHANGED vars
  BY <1>6 DEF CommandEnded, vars, taskVars
<1> QED BY <1>2, <1>3, <1>4, <1>5, <1>6 DEF Next, Advance, Return

(* What Go resolves a key to is in the collection.                         *)
LEMMA PinsAreLive ==
  ASSUME TypeOK, LatestIsNewest, NEW t \in Task, Go(t), NEW u \in Task,
         NEW i \in DOMAIN DepKeys[t], Lookup(Home[t], DepKeys[t][i]) = u
  PROVE  u \in live
<1>1. DepKeys[t][i] \in Task \cup Desc
  BY LenProperties, ElementOfSeq
<1>2. CASE DepKeys[t][i] \in Task
  BY <1>2 DEF Lookup
<1>3. CASE DepKeys[t][i] \in Desc /\ DepKeys[t][i] \notin Task
  <2> DEFINE L == Labelled(live, Home[t], DepKeys[t][i])
  <2>1. latest[Home[t]][DepKeys[t][i]] = u
    BY <1>3 DEF Lookup
  <2>2. L # {} /\ u = Latest(L)
    BY <1>3, <2>1 DEF LatestIsNewest
  <2>3. L \in SUBSET Task /\ L \subseteq live
    BY DEF Labelled, TypeOK
  <2> HIDE DEF L
  <2>4. id \in [Task -> Nat]
    BY DEF TypeOK
  <2>5. Latest(L) \in L
    BY <2>2, <2>3, <2>4, LatestExists
  <2> QED BY <2>2, <2>3, <2>5
<1> QED BY <1>1, <1>2, <1>3

LEMMA GoWaiters ==
  ASSUME TypeOK, TypeOK', LatestIsNewest, WaitersExact, NEW t \in Task, Go(t)
  PROVE  /\ WaitersExact'
         /\ \A u \in Task : waiters[u] <= waiters'[u]
<1> DEFINE p == [i \in DOMAIN DepKeys[t] |-> Lookup(Home[t], DepKeys[t][i])]
           N(u) == {i \in DOMAIN p : p[i] = u}
<1>1. /\ pins' = [pins EXCEPT ![t] = p] /\ pc' = [pc EXCEPT ![t] = "deps"] /\ pc[t] = "unborn"
      /\ waiters' = [u \in Task |-> waiters[u] + Cardinality(N(u))]
      /\ live' = live \cup {t}
  BY DEF Go
<1>2. DOMAIN DepKeys[t] = 1 .. Len(DepKeys[t]) /\ Len(DepKeys[t]) \in Nat
  BY LenProperties
<1>3. \A u \in Task : IsFiniteSet(N(u)) /\ Cardinality(N(u)) \in Nat
  <2>1. \A u \in Task : N(u) \in SUBSET (1 .. Len(DepKeys[t]))
    BY <1>2
  <2> HIDE DEF N
  <2> QED BY <1>2, <2>1, CountType
<1>4. pins'[t] = p /\ pc'[t] = "deps" /\ \A v \in Task \ {t} : pins'[v] = pins[v] /\ pc'[v] = pc[v]
  BY <1>1 DEF TypeOK
<1>5. ASSUME NEW u \in Task
      PROVE  Cardinality(OwedOf(pins', pc', u)) = waiters[u] + Cardinality(N(u))
  <2>1. OwedOf(pins', pc', u) = Owed(u) \cup ({t} \X N(u))
    <3>1. ASSUME NEW x \in OwedOf(pins', pc', u) PROVE x \in Owed(u) \cup ({t} \X N(u))
      <4>1. PICK v \in Task : \E i \in DOMAIN pins'[v] :
              x = <<v, i>> /\ pins'[v][i] = u /\ pc'[v] \notin Over
        BY <3>1, InOwed
      <4>2. PICK i \in DOMAIN pins'[v] : x = <<v, i>> /\ pins'[v][i] = u /\ pc'[v] \notin Over
        BY <4>1
      <4>3. CASE v = t
        <5>1. i \in N(u)
          BY <1>4, <4>2, <4>3
        <5> HIDE DEF N
        <5> QED BY <4>2, <4>3, <5>1
      <4>4. CASE v # t
        <5>1. i \in DOMAIN pins[v] /\ pins[v][i] = u /\ pc[v] \notin Over
          BY <1>4, <4>2, <4>4
        <5>2. x \in Owed(u)
          BY <4>2, <5>1, InOwed DEF Owed
        <5> QED BY <5>2
      <4> QED BY <4>3, <4>4
    <3>2. ASSUME NEW x \in Owed(u) PROVE x \in OwedOf(pins', pc', u)
      <4>1. PICK v \in Task : \E i \in DOMAIN pins[v] :
              x = <<v, i>> /\ pins[v][i] = u /\ pc[v] \notin Over
        BY <3>2, InOwed DEF Owed
      <4>2. PICK i \in DOMAIN pins[v] : x = <<v, i>> /\ pins[v][i] = u /\ pc[v] \notin Over
        BY <4>1
      <4>3. v # t
        BY <1>1, <4>2 DEF Over
      <4>4. i \in DOMAIN pins'[v] /\ pins'[v][i] = u /\ pc'[v] \notin Over
        BY <1>4, <4>2, <4>3
      <4> QED BY <4>2, <4>4, InOwed
    <3>3. ASSUME NEW x \in {t} \X N(u) PROVE x \in OwedOf(pins', pc', u)
      <4>1. PICK i \in N(u) : x = <<t, i>>
        BY <3>3
      <4>2. i \in DOMAIN pins'[t] /\ pins'[t][i] = u /\ pc'[t] \notin Over
        BY <1>4, <4>1 DEF Over
      <4> QED BY <4>1, <4>2, InOwed
    <3> QED BY <3>1, <3>2, <3>3
  <2>2. Owed(u) \cap ({t} \X N(u)) = {}
    <3>1. ASSUME NEW x \in Owed(u), x \in {t} \X N(u) PROVE FALSE
      <4>1. PICK v \in Task : \E i \in DOMAIN pins[v] : x = <<v, i>> /\ pc[v] \notin Over
        BY <3>1, InOwed DEF Owed
      <4>2. v = t
        BY <3>1, <4>1
      <4> QED BY <1>1, <4>1, <4>2 DEF Over
    <3> QED BY <3>1
  <2>3. IsFiniteSet({t} \X N(u)) /\ Cardinality({t} \X N(u)) = Cardinality(N(u))
    <3>1. IsFiniteSet(N(u))
      BY <1>3
    <3> HIDE DEF N
    <3> QED BY <3>1, PairsOfOne
  <2>4. IsFiniteSet(Owed(u)) /\ waiters[u] = Cardinality(Owed(u)) /\ waiters[u] \in Nat
    BY OwedFinite, WaitersAreOwed DEF TypeOK
  <2>5. Cardinality(N(u)) \in Nat
    BY <1>3
  <2> HIDE DEF N
  <2>6. /\ Cardinality(Owed(u) \cup ({t} \X N(u)))
             = Cardinality(Owed(u)) + Cardinality({t} \X N(u)) - Cardinality(Owed(u) \cap ({t} \X N(u)))
    BY <2>3, <2>4, FS_Union
  <2>7. Cardinality(Owed(u) \cap ({t} \X N(u))) = 0
    BY <2>2, FS_EmptySet
  <2> QED BY <2>1, <2>3, <2>4, <2>5, <2>6, <2>7
<1>6. ASSUME NEW u \in Task, waiters'[u] > 0 PROVE u \in live'
  <2>1. CASE waiters[u] > 0
    BY <1>1, <2>1 DEF WaitersExact
  <2>2. CASE ~(waiters[u] > 0)
    <3>1. waiters[u] = 0
      BY SMTT(20), <2>2 DEF TypeOK
    <3>2. Cardinality(N(u)) # 0
      BY <1>1, <1>3, <1>6, <3>1
    <3>3. N(u) # {}
      <4> HIDE DEF N
      <4> QED BY <3>2, FS_EmptySet
    <3>4. PICK i \in DOMAIN DepKeys[t] : Lookup(Home[t], DepKeys[t][i]) = u
      BY <3>3
    <3> QED BY <1>1, <3>4, PinsAreLive
  <2> QED BY <2>1, <2>2
<1>7. ASSUME NEW u \in Task
      PROVE  /\ waiters'[u] = waiters[u] + Cardinality(N(u))
             /\ waiters[u] <= waiters[u] + Cardinality(N(u))
  <2>1. waiters[u] \in Nat /\ Cardinality(N(u)) \in Nat
    BY <1>3 DEF TypeOK
  <2>2. waiters'[u] = waiters[u] + Cardinality(N(u))
    BY <1>1
  <2> HIDE DEF N
  <2> QED BY <2>1, <2>2
<1> HIDE DEF N
<1>8. \A u \in Task : waiters'[u] = Cardinality(Owed(u)') /\ (waiters'[u] > 0 => u \in live')
  BY <1>5, <1>6, <1>7 DEF Owed
<1>9. WaitersExact'
  BY <1>8 DEF WaitersExact, Owed, OwedOf, Over
<1> QED BY <1>7, <1>9

(* The saturating decrement never saturates: the pins of a task that is    *)
(* about to release them are all counted.                                  *)
LEMMA PruneWaiters ==
  ASSUME TypeOK, WaitersExact, NEW t \in Task, ReleaseAndPrune(t)
  PROVE  /\ WaitersExact'
         /\ \A u \in Task : waiters'[u] = waiters[u] - PinsOn(t, u)
<1>1. /\ pc[t] = "prune" /\ pins' = pins /\ pc' = [pc EXCEPT ![t] = "wgdone"]
      /\ waiters' = [u \in Task |-> Positive(waiters[u] - PinsOn(t, u))]
      /\ live' = live \ Prunable(t, waiters')
  BY DEF ReleaseAndPrune
<1>2. pc'[t] = "wgdone" /\ \A v \in Task \ {t} : pc'[v] = pc[v]
  BY <1>1 DEF TypeOK
<1>3. ASSUME NEW u \in Task
      PROVE  /\ Cardinality(OwedOf(pins', pc', u)) = waiters[u] - PinsOn(t, u)
             /\ waiters'[u] = waiters[u] - PinsOn(t, u)
             /\ waiters'[u] > 0 => waiters[u] > 0
  <2> DEFINE N == PinsTo(t, u)
  <2>1. OwedOf(pins', pc', u) = Owed(u) \ ({t} \X N)
    <3>1. ASSUME NEW x \in OwedOf(pins', pc', u) PROVE x \in Owed(u) /\ x \notin {t} \X N
      <4>1. PICK v \in Task : \E i \in DOMAIN pins[v] :
              x = <<v, i>> /\ pins[v][i] = u /\ pc'[v] \notin Over
        <5>1. x \in OwedOf(pins, pc', u)
          BY <1>1, <3>1
        <5> QED BY <5>1, InOwed
      <4>2. PICK i \in DOMAIN pins[v] : x = <<v, i>> /\ pins[v][i] = u /\ pc'[v] \notin Over
        BY <4>1
      <4>3. v # t
        BY <1>2, <4>2 DEF Over
      <4>4. pc[v] \notin Over
        BY <1>2, <4>2, <4>3
      <4>5. x \in Owed(u)
        BY <4>2, <4>4, InOwed DEF Owed
      <4> QED BY <4>2, <4>3, <4>5
    <3>2. ASSUME NEW x \in Owed(u), x \notin {t} \X N PROVE x \in OwedOf(pins', pc', u)
      <4>1. PICK v \in Task : \E i \in DOMAIN pins[v] :
              x = <<v, i>> /\ pins[v][i] = u /\ pc[v] \notin Over
        BY <3>2, InOwed DEF Owed
      <4>2. PICK i \in DOMAIN pins[v] : x = <<v, i>> /\ pins[v][i] = u /\ pc[v] \notin Over
        BY <4>1
      <4>3. v # t
        BY <3>2, <4>2 DEF PinsTo
      <4>4. pc'[v] \notin Over
        BY <1>2, <4>2, <4>3
      <4> QED BY <1>1, <4>2, <4>4, InOwed
    <3> QED BY <3>1, <3>2
  <2>2. {t} \X N \in SUBSET Owed(u)
    <3>1. ASSUME NEW x \in {t} \X N PROVE x \in Owed(u)
      <4>1. PICK i \in N : x = <<t, i>>
        BY <3>1
      <4>2. i \in DOMAIN pins[t] /\ pins[t][i] = u /\ pc[t] \notin Over
        BY <1>1, <4>1 DEF PinsTo, Over
      <4> QED BY <4>1, <4>2, InOwed DEF Owed
    <3> QED BY <3>1
  <2>3. /\ IsFiniteSet(Owed(u)) /\ waiters[u] = Cardinality(Owed(u)) /\ waiters[u] \in Nat
        /\ IsFiniteSet(N) /\ Cardinality(N) \in Nat
    BY OwedFinite, WaitersAreOwed DEF TypeOK
  <2>4. Cardinality({t} \X N) = Cardinality(N)
    BY <2>3, PairsOfOne
  <2>5. Cardinality(N) <= waiters[u]
    BY <2>2, <2>3, <2>4, FS_Subset
  <2>6. Owed(u) \cap ({t} \X N) = {t} \X N
    BY <2>2
  <2>7. Cardinality(Owed(u) \ ({t} \X N)) = Cardinality(Owed(u)) - Cardinality(Owed(u) \cap ({t} \X N))
    BY <2>3, FS_Difference
  <2>8. PinsOn(t, u) = Cardinality(N)
    BY DEF PinsOn, PinsTo
  <2>9. waiters'[u] = waiters[u] - PinsOn(t, u)
    <3>1. waiters'[u] = Positive(waiters[u] - PinsOn(t, u))
      BY <1>1
    <3> HIDE DEF N
    <3> QED BY <2>3, <2>5, <2>8, <3>1 DEF Positive
  <2> HIDE DEF N
  <2>10. Cardinality(OwedOf(pins', pc', u)) = waiters[u] - PinsOn(t, u)
    BY <2>1, <2>3, <2>4, <2>6, <2>7, <2>8
  <2>11. waiters'[u] > 0 => waiters[u] > 0
    BY <2>3, <2>8, <2>9
  <2> QED BY <2>9, <2>10, <2>11
<1>4. ASSUME NEW u \in Task, waiters'[u] > 0 PROVE u \in live'
  <2>1. u \in live
    BY <1>3, <1>4 DEF WaitersExact
  <2>2. u \notin Prunable(t, waiters')
    <3>1. waiters'[u] # 0
      BY <1>4
    <3> QED BY <3>1 DEF Prunable
  <2> QED BY <1>1, <2>1, <2>2
<1>5. \A u \in Task : waiters'[u] = Cardinality(Owed(u)') /\ (waiters'[u] > 0 => u \in live')
  BY <1>3, <1>4 DEF Owed
<1>6. WaitersExact'
  BY <1>5 DEF WaitersExact, Owed, OwedOf, Over
<1> QED BY <1>3, <1>6

LEMMA NextWaiters ==
  ASSUME TypeOK, TypeOK', LatestIsNewest, WaitersExact, [Next]_vars
  PROVE  WaitersExact'
<1>1. CASE UNCHANGED collVars /\ \A u \in Task : GoesOn(u)
  <2>1. pins' = pins /\ waiters' = waiters /\ live' = live
    BY <1>1 DEF collVars
  <2>2. \A u \in Task : OwedOf(pins', pc', u) = OwedOf(pins, pc, u)
    <3> TAKE u \in Task
    <3>1. \A x : x \in OwedOf(pins', pc', u) <=> x \in OwedOf(pins, pc, u)
      <4>1. \A x : x \in OwedOf(pins', pc', u) <=>
              \E v \in Task : \E i \in DOMAIN pins[v] :
                x = <<v, i>> /\ pins[v][i] = u /\ pc'[v] \notin Over
        BY <2>1, InOwed
      <4>2. \A x : x \in OwedOf(pins, pc, u) <=>
              \E v \in Task : \E i \in DOMAIN pins[v] :
                x = <<v, i>> /\ pins[v][i] = u /\ pc[v] \notin Over
        BY InOwed
      <4>3. \A v \in Task : pc'[v] \in Over <=> pc[v] \in Over
        BY <1>1 DEF GoesOn
      <4> QED BY <4>1, <4>2, <4>3
    <3> QED BY <3>1 DEF OwedOf
  <2>3. \A u \in Task : waiters'[u] = Cardinality(Owed(u)') /\ (waiters'[u] > 0 => u \in live')
    BY <2>1, <2>2, WaitersAreOwed DEF Owed
  <2> QED BY <2>3 DEF WaitersExact, Owed, OwedOf, Over
<1>2. ASSUME NEW t \in Task, Go(t) PROVE WaitersExact'
  BY <1>2, GoWaiters
<1>3. ASSUME NEW t \in Task, ReleaseAndPrune(t) PROVE WaitersExact'
  BY <1>3, PruneWaiters
<1> QED BY <1>1, <1>2, <1>3, WhoOwes

LEMMA NextLingering ==
  ASSUME TypeOK, TypeOK', Causes, Causes', Born, LatestIsNewest, WaitersExact, NoLingeringTask,
         [Next]_vars
  PROVE  NoLingeringTask'
<1> DEFINE Unended(S) == S \in {"Pending", "Running"}
<1>1. ASSUME NEW v \in Task, pc'[v] # "unborn", Unended(state'[v]), pc[v] = pc'[v] PROVE Unended(state[v])
  BY <1>1 DEF Causes, Cause
<1>2. \A v \in Task : Unended(state[v]) <=> pc[v] \in {"unborn", "deps", "acquire", "body"}
  BY DEF Causes, Cause
<1>3. \A v \in Task : Unended(state'[v]) <=> pc'[v] \in {"unborn", "deps", "acquire", "body"}
  BY DEF Causes, Cause
<1> HIDE DEF Unended
<1>4. NoLingeringTask <=> \A v \in Task :
        /\ pc[v] \in {"wgdone", "gone"} /\ waiters[v] = 0 => v \notin live
        /\ pc[v] \in {"deps", "acquire", "body"} => v \in live
  BY <1>2 DEF NoLingeringTask, Unended
<1>5. NoLingeringTask' <=> \A v \in Task :
        /\ pc'[v] \in {"wgdone", "gone"} /\ waiters'[v] = 0 => v \notin live'
        /\ pc'[v] \in {"deps", "acquire", "body"} => v \in live'
  BY <1>3 DEF NoLingeringTask, Unended
<1>6. CASE UNCHANGED collVars /\ \A u \in Task : GoesOn(u)
  <2>1. UNCHANGED <<waiters, live, id>>
    BY <1>6 DEF collVars
  <2>2. ASSUME NEW u \in Task
        PROVE  /\ pc'[u] \in {"wgdone", "gone"} => pc[u] \in {"unborn", "wgdone", "gone"}
               /\ pc'[u] \in {"deps", "acquire", "body"} => pc[u] \in {"deps", "acquire", "body"}
    BY <1>6 DEF GoesOn, Over, AtWork
  <2> QED BY <1>4, <1>5, <2>1, <2>2 DEF Born
<1>7. ASSUME NEW t \in Task, Go(t) PROVE NoLingeringTask'
  <2>1. /\ live' = live \cup {t} /\ pc'[t] = "deps"
        /\ \A u \in Task \ {t} : pc'[u] = pc[u]
    BY <1>7 DEF Go, TypeOK
  <2>2. \A u \in Task : waiters'[u] = 0 => waiters[u] = 0
    <3> TAKE u \in Task
    <3>1. waiters[u] <= waiters'[u] /\ waiters[u] \in Nat
      BY <1>7, GoWaiters DEF TypeOK
    <3> QED BY <3>1
  <2> QED BY <1>4, <1>5, <2>1, <2>2
<1>8. ASSUME NEW t \in Task, ReleaseAndPrune(t) PROVE NoLingeringTask'
  <2>1. /\ live' = live \ Prunable(t, waiters') /\ pc[t] = "prune" /\ pc'[t] = "wgdone"
        /\ UNCHANGED state
        /\ \A u \in Task \ {t} : pc'[u] = pc[u]
    BY <1>8 DEF ReleaseAndPrune, TypeOK
  <2>2. \A u \in Task : ~Unended(state[u]) <=> state[u] \in {"Done", "Failed"}
    BY DEF TypeOK, States, Unended
  <2>3. ASSUME NEW u \in Task, pc'[u] \in {"wgdone", "gone"}, waiters'[u] = 0 PROVE u \notin live'
    <3>1. state[u] \in {"Done", "Failed"}
      BY <1>2, <2>1, <2>2, <2>3
    <3>2. CASE u = t \/ PinsOn(t, u) > 0
      BY <2>1, <2>3, <3>1, <3>2 DEF Prunable
    <3>3. CASE u # t /\ ~(PinsOn(t, u) > 0)
      <4>1. waiters[u] = 0
        <5>1. waiters'[u] = waiters[u] - PinsOn(t, u) /\ waiters[u] \in Nat /\ PinsOn(t, u) \in Nat
          BY <1>8, PruneWaiters, PinsOnType DEF TypeOK
        <5> QED BY <2>3, <3>3, <5>1
      <4> QED BY <1>4, <2>1, <2>3, <3>3, <4>1
    <3> QED BY <3>2, <3>3
  <2>4. ASSUME NEW u \in Task, pc'[u] \in {"deps", "acquire", "body"} PROVE u \in live'
    <3>1. pc[u] \in {"deps", "acquire", "body"} /\ u \in live
      BY <1>4, <2>1, <2>4
    <3>2. u \notin Prunable(t, waiters')
      BY <1>2, <2>2, <3>1 DEF Prunable
    <3> QED BY <2>1, <3>1, <3>2
  <2> QED BY <1>5, <2>3, <2>4
<1> QED BY <1>6, <1>7, <1>8, WhoOwes

LEMMA InitCollection == Init => Ids /\ Born /\ WaitersExact /\ NoLingeringTask /\ LatestIsNewest
<1> SUFFICES ASSUME Init PROVE Ids /\ Born /\ WaitersExact /\ NoLingeringTask /\ LatestIsNewest
  OBVIOUS
<1>1. TypeOK
  BY InitAccounts DEF Accounts
<1>2. Ids
  <2>1. \A u \in Task : id[u] = 0 /\ pc[u] = "unborn"
    BY DEF Init
  <2>2. {u \in Task : id[u] # 0} = {}
    BY <2>1
  <2>3. Cardinality({u \in Task : id[u] # 0}) = 0
    BY <2>2, FS_EmptySet
  <2> QED BY <2>1, <2>3 DEF Ids
<1>3. Born /\ NoLingeringTask
  BY DEF Init, Born, NoLingeringTask
<1>4. WaitersExact
  <2>1. \A u \in Task : Owed(u) = {}
    <3>1. \A u \in Task : \A x : x \notin Owed(u)
      BY InOwed DEF Owed, Init, Over
    <3> QED BY <3>1
  <2>2. \A u \in Task : waiters[u] = 0
    BY DEF Init
  <2>3. ASSUME NEW u \in Task PROVE waiters[u] = Cardinality(Owed(u)) /\ ~(waiters[u] > 0)
    <3>1. Cardinality({}) = 0
      BY FS_EmptySet
    <3>2. Owed(u) = {} /\ waiters[u] = 0
      BY <2>1, <2>2
    <3> QED BY <3>1, <3>2
  <2> QED BY <2>3, WaitersAreOwed
<1>5. LatestIsNewest
  BY DEF Init, LatestIsNewest, Labelled
<1> QED BY <1>2, <1>3, <1>4, <1>5

(* task_collection.go: whatever tasks depend on whatever keys, by id or by *)
(* description, and in whatever order they end, waiters counts the pins    *)
(* still owed, a task stays in the collection exactly as long as it may be *)
(* waited for, and a description resolves to its newest task there.        *)
THEOREM CollectionIsExact == Spec => []CollectionExact
<1> DEFINE Coll == Ids /\ Born /\ WaitersExact /\ NoLingeringTask /\ LatestIsNewest
<1>1. Init => Coll
  BY InitCollection
<1>2. (TypeOK /\ Causes) /\ (TypeOK /\ Causes)' /\ Coll /\ [Next]_vars => Coll'
  <2> SUFFICES ASSUME TypeOK, Causes, TypeOK', Causes', Coll, [Next]_vars PROVE Coll'
    OBVIOUS
  <2>1. Ids' /\ Born' /\ WaitersExact'
    BY NextIds, NextBorn, NextWaiters
  <2>2. NoLingeringTask'
    BY NextLingering
  <2>3. LatestIsNewest'
    BY <2>1, NextLatest
  <2> QED BY <2>1, <2>2, <2>3
<1>3. Coll => CollectionExact
  BY DEF CollectionExact
<1> HIDE DEF Coll
<1> QED BY <1>1, <1>2, <1>3, RecordedAlways, PTL DEF Spec
----------------------------------------------------------------------------
(* The refinement: every step of the engine is a step of the contract.     *)

PhaseOf(c, e) ==
  CASE c = "unborn" -> "idle"
    [] c \in {"deps", "acquire"} -> "pending"
    [] c \in {"body", "release"} -> "running"
    [] c = "record" /\ e = "fn" -> "running"
    [] OTHER -> IF e = "none" THEN "done" ELSE "failed"

Ended(c, e) ==
  \/ c \in {"close", "prune", "wgdone", "gone"}
  \/ c = "record" /\ e # "fn"

LEMMA PhaseValue ==
  ASSUME NEW c, NEW e
  PROVE  /\ c = "unborn" => PhaseOf(c, e) = "idle"
         /\ c \in {"deps", "acquire"} => PhaseOf(c, e) = "pending"
         /\ c \in {"body", "release"} => PhaseOf(c, e) = "running"
         /\ c = "record" /\ e = "fn" => PhaseOf(c, e) = "running"
         /\ Ended(c, e) => PhaseOf(c, e) = IF e = "none" THEN "done" ELSE "failed"
BY DEF PhaseOf, Ended

Phases == [t \in Task |-> Phase(t)]
Needs == [t \in Task |-> PinnedTasks(t)]

LEMMA PhaseIs ==
  /\ Phases = [t \in Task |-> PhaseOf(pc[t], err[t])]
  /\ Phases' = [t \in Task |-> PhaseOf(pc'[t], err'[t])]
BY DEF Phases, Phase, PhaseOf

LEMMA SubGroupRefines ==
  ASSUME NEW g \in Group, SubGroup(g)
  PROVE  Contract!Open(g)
<1>1. UNCHANGED <<Phases, Needs>>
  BY DEF SubGroup, taskVars, collVars, Phases, Phase, Needs, PinnedTasks
<1> QED BY <1>1 DEF SubGroup, Contract!Open, Phases, Needs

LEMMA QuietSteps ==
  ASSUME UNCHANGED <<pins, cancelled, verdict>>,
         \A u \in Task : PhaseOf(pc'[u], err'[u]) = PhaseOf(pc[u], err[u])
  PROVE  UNCHANGED Contract!vars
<1>1. Phases' = Phases
  BY PhaseIs
<1>2. Needs' = Needs
  BY DEF Needs, PinnedTasks
<1> QED BY <1>1, <1>2 DEF Contract!vars, Phases, Needs

LEMMA Override ==
  ASSUME NEW S, NEW t \in S, NEW f, NEW h, f = [u \in S |-> f[u]], h = [u \in S |-> h[u]],
         \A u \in S \ {t} : h[u] = f[u]
  PROVE  h = [f EXCEPT ![t] = h[t]]
OBVIOUS

(* One goroutine moves: only its phase may change.                         *)
LEMMA OnePhase ==
  ASSUME NEW t \in Task, NEW c, NEW e,
         pc' = [pc EXCEPT ![t] = c], err' = [err EXCEPT ![t] = e], TypeOK
  PROVE  /\ Phases[t] = PhaseOf(pc[t], err[t])
         /\ Phases' = [Phases EXCEPT ![t] = PhaseOf(c, e)]
<1>1. pc'[t] = c /\ err'[t] = e /\ \A u \in Task \ {t} : pc'[u] = pc[u] /\ err'[u] = err[u]
  BY DEF TypeOK
<1>2. /\ \A u \in Task : Phases[u] = PhaseOf(pc[u], err[u]) /\ Phases'[u] = PhaseOf(pc'[u], err'[u])
      /\ Phases = [u \in Task |-> Phases[u]] /\ Phases' = [u \in Task |-> Phases'[u]]
  BY PhaseIs
<1>3. Phases'[t] = PhaseOf(c, e) /\ \A u \in Task \ {t} : Phases'[u] = Phases[u]
  BY SMTT(20), <1>1, <1>2
<1>4. Phases' = [Phases EXCEPT ![t] = Phases'[t]]
  BY <1>2, <1>3, Override
<1> QED BY <1>2, <1>3, <1>4

LEMMA OneMoves ==
  ASSUME NEW t \in Task, NEW c, pc' = [pc EXCEPT ![t] = c], UNCHANGED err, TypeOK
  PROVE  /\ Phases[t] = PhaseOf(pc[t], err[t])
         /\ Phases' = [Phases EXCEPT ![t] = PhaseOf(c, err[t])]
<1>1. err' = [err EXCEPT ![t] = err[t]]
  BY DEF TypeOK
<1> QED BY <1>1, OnePhase

LEMMA GoRefines ==
  ASSUME TypeOK, SameGroup, Born, LatestIsNewest, NEW t \in Task, Go(t)
  PROVE  Contract!Schedule(t)
<1>1. /\ pc[t] = "unborn" /\ pc' = [pc EXCEPT ![t] = "deps"] /\ verdict[Home[t]] = "open"
      /\ UNCHANGED <<err, cancelled, verdict>>
  BY DEF Go, groupVars
<1>3. Phases[t] = "idle" /\ Phases' = [Phases EXCEPT ![t] = "pending"]
  <2>1. Phases[t] = PhaseOf(pc[t], err[t]) /\ Phases' = [Phases EXCEPT ![t] = PhaseOf("deps", err[t])]
    BY <1>1, OneMoves
  <2> QED BY <1>1, <2>1, PhaseValue
<1> DEFINE D == {pins'[t][i] : i \in DOMAIN pins'[t]}
<1>4. Needs' = [Needs EXCEPT ![t] = D]
  <2>1. \A v \in Task \ {t} : pins'[v] = pins[v]
    BY DEF Go, TypeOK
  <2>2. Needs' = [v \in Task |-> {pins'[v][i] : i \in DOMAIN pins'[v]}]
    BY DEF Needs, PinnedTasks
  <2>3. Needs = [v \in Task |-> {pins[v][i] : i \in DOMAIN pins[v]}]
    BY DEF Needs, PinnedTasks
  <2>4. Needs'[t] = D /\ \A v \in Task \ {t} : Needs'[v] = Needs[v]
    BY <2>1, <2>2, <2>3
  <2>5. Needs = [v \in Task |-> Needs[v]] /\ Needs' = [v \in Task |-> Needs'[v]]
    BY <2>2, <2>3
  <2>6. Needs' = [Needs EXCEPT ![t] = Needs'[t]]
    BY <2>4, <2>5, Override
  <2> HIDE DEF D
  <2> QED BY <2>4, <2>6
<1>5. ASSUME NEW i \in DOMAIN pins'[t], pins'[t][i] # NoTask
      PROVE  /\ pins'[t][i] \in Task /\ Home[pins'[t][i]] = Home[t]
             /\ Phases[pins'[t][i]] # "idle"
  <2>1. /\ i \in DOMAIN DepKeys[t] /\ pins'[t][i] = Lookup(Home[t], DepKeys[t][i])
        /\ pins'[t][i] \in Task /\ Home[pins'[t][i]] = Home[t]
    BY <1>5, PinsOfGo
  <2>2. PICK u \in Task : u = Lookup(Home[t], DepKeys[t][i])
    BY <2>1
  <2>3. u \in live
    BY <2>1, <2>2, PinsAreLive
  <2>4. pc[u] # "unborn" /\ pc[u] \in PCs
    BY <2>3 DEF Born, TypeOK
  <2>5. Phases[u] = PhaseOf(pc[u], err[u])
    BY PhaseIs
  <2>6. Phases[u] # "idle"
    BY <2>4, <2>5 DEF PhaseOf
  <2> QED BY <2>1, <2>2, <2>6
<1>6. D \in SUBSET ({u \in Task : Home[u] = Home[t] /\ Phases[u] # "idle"} \cup {NoTask})
  BY <1>5
<1> HIDE DEF D
<1> QED BY <1>1, <1>3, <1>4, <1>6 DEF Contract!Schedule, Contract!Members, Phases, Needs

(* The ways in which a task ends without having run.                       *)
LEMMA SetErrorRefines ==
  ASSUME TypeOK, NEW t \in Task, NEW e \in {"dep", "unknown", "ctx"}, SetError(t, e),
         pc[t] \in {"deps", "acquire"},
         \/ NoTask \in Needs[t]
         \/ \E u \in Needs[t] : u # NoTask /\ Phases[u] = "failed"
         \/ Home[t] \in cancelled
  PROVE  Contract!Drop(t)
<1> DEFINE c == IF e = "ctx" THEN "close" ELSE "record"
<1>1. /\ pc' = [pc EXCEPT ![t] = c] /\ err' = [err EXCEPT ![t] = e]
      /\ UNCHANGED <<pins, cancelled, verdict>>
  BY DEF SetError, collVars, groupVars
<1>2. Phases[t] = PhaseOf(pc[t], err[t]) /\ Phases' = [Phases EXCEPT ![t] = PhaseOf(c, e)]
  BY <1>1, OnePhase
<1>3. PhaseOf(pc[t], err[t]) = "pending"
  BY PhaseValue
<1>4. PhaseOf(c, e) = "failed"
  BY DEF PhaseOf
<1>5. Needs' = Needs
  BY <1>1 DEF Needs, PinnedTasks
<1> HIDE DEF c
<1> QED BY <1>1, <1>2, <1>3, <1>4, <1>5 DEF Contract!Drop, Phases, Needs

LEMMA NeedsAre ==
  ASSUME NEW t \in Task
  PROVE  Needs[t] = {pins[t][i] : i \in DOMAIN pins[t]}
BY DEF Needs, PinnedTasks

LEMMA DropRefines ==
  ASSUME TypeOK, Causes, NEW t \in Task,
         \/ UnknownDependency(t) \/ DependencyFailed(t)
         \/ DependencyCancelled(t) \/ AcquireCancelled(t)
  PROVE  Contract!Drop(t)
<1>1. CASE UnknownDependency(t)
  <2>1. NoTask \in Needs[t]
    BY <1>1, NeedsAre DEF UnknownDependency, Unresolved
  <2> QED BY <1>1, <2>1, SetErrorRefines DEF UnknownDependency
<1>2. CASE DependencyFailed(t)
  <2>1. PICK u \in Task : WaitsFor(t, u) /\ DoneClosed(u) /\ err[u] # "none" /\ SetError(t, "dep")
    BY <1>2 DEF DependencyFailed
  <2>2. u \in Needs[t] /\ u # NoTask /\ pc[t] = "deps"
    BY <2>1, NeedsAre DEF WaitsFor
  <2>3. Phases[u] = "failed"
    <3>1. Ended(pc[u], err[u])
      BY <2>1 DEF DoneClosed, Ended
    <3>2. PhaseOf(pc[u], err[u]) = "failed"
      BY <2>1, <3>1, PhaseValue
    <3> QED BY <3>2, PhaseIs
  <2> QED BY <2>1, <2>2, <2>3, SetErrorRefines
<1>3. CASE DependencyCancelled(t) \/ AcquireCancelled(t)
  BY <1>3, SetErrorRefines DEF DependencyCancelled, AcquireCancelled, WaitsFor
<1> QED BY <1>1, <1>2, <1>3

LEMMA SameCardinality == \A S : Contract!Cardinality(S) = Cardinality(S)
BY DEF Contract!Cardinality, Cardinality

(* A task that takes its slot has all its needs met, and the contract's    *)
(* running tasks of a pool are the holders of its slots.                   *)
LEMMA AcquireRefines ==
  ASSUME TypeOK, Causes, PoolAccounting, DependencyInv, NEW t \in Task, Acquire(t)
  PROVE  Contract!Start(t)
<1>1. /\ pc[t] = "acquire" /\ pc' = [pc EXCEPT ![t] = "body"]
      /\ Limited(t) => slots[Kind[t]] < Limit[Kind[t]]
      /\ UNCHANGED <<err, pins, cancelled, verdict>>
  BY DEF Acquire, collVars, groupVars
<1>3. Phases[t] = "pending" /\ Phases' = [Phases EXCEPT ![t] = "running"]
  <2>1. Phases[t] = PhaseOf(pc[t], err[t]) /\ Phases' = [Phases EXCEPT ![t] = PhaseOf("body", err[t])]
    BY <1>1, OneMoves
  <2> QED BY <1>1, <2>1, PhaseValue
<1>4. ASSUME NEW u \in Needs[t] PROVE u # NoTask /\ Phases[u] = "done"
  <2>0. u \in {pins[t][i] : i \in DOMAIN pins[t]}
    BY <1>4, NeedsAre
  <2>1. PICK i \in DOMAIN pins[t] : u = pins[t][i]
    BY <2>0
  <2>2. u \in Task /\ DoneClosed(u) /\ err[u] = "none"
    BY <1>1, <2>1 DEF DependencyInv, Progress, Met
  <2>3. PhaseOf(pc[u], err[u]) = "done"
    <3>1. Ended(pc[u], err[u])
      BY <2>2 DEF DoneClosed, Ended
    <3> QED BY <2>2, <3>1, PhaseValue
  <2> QED BY <2>2, <2>3, PhaseIs
<1>5. ASSUME Kind[t] \in Pool
      PROVE  Cardinality({u \in Task : Kind[u] = Kind[t] /\ Phases[u] = "running"}) < Limit[Kind[t]]
  <2>1. \A u \in Task : Phases[u] = "running" <=>
          pc[u] \in {"body", "release"} \/ (pc[u] = "record" /\ err[u] = "fn")
    <3> TAKE u \in Task
    <3>1. Phases[u] = PhaseOf(pc[u], err[u])
      BY PhaseIs
    <3>2. pc[u] \in PCs
      BY DEF TypeOK
    <3> QED BY <3>1, <3>2 DEF PhaseOf
  <2>2. {u \in Task : Kind[u] = Kind[t] /\ Phases[u] = "running"} = Holders(Kind[t])
    BY <1>5, <2>1 DEF Holders, HoldsSlot, Limited
  <2> QED BY <1>1, <1>5, <2>2 DEF PoolAccounting, Limited
<1>6. Needs' = Needs
  BY <1>1 DEF Needs, PinnedTasks
<1>7. Contract!InPool(Kind[t]) = {u \in Task : Kind[u] = Kind[t] /\ Phases[u] = "running"}
  BY DEF Contract!InPool, Phases
<1>8. Kind[t] \in Pool => Contract!Cardinality(Contract!InPool(Kind[t])) < Limit[Kind[t]]
  BY <1>5, <1>7, SameCardinality
<1>9. \A u \in Needs[t] : u # NoTask /\ Phases[u] = "done"
  BY <1>4
<1> QED BY <1>1, <1>3, <1>6, <1>8, <1>9 DEF Contract!Start, Phases, Needs

LEMMA ReleaseRefines ==
  ASSUME TypeOK, NEW t \in Task, ReleaseSlot(t)
  PROVE  Contract!Finish(t)
<1>1. /\ pc[t] = "release" /\ pc' = [pc EXCEPT ![t] = "close"]
      /\ UNCHANGED <<err, pins, cancelled, verdict>>
  BY DEF ReleaseSlot, collVars, groupVars
<1>3. Phases[t] = "running" /\ Phases' = [Phases EXCEPT ![t] = PhaseOf("close", err[t])]
  <2>1. /\ Phases[t] = PhaseOf(pc[t], err[t])
        /\ Phases' = [Phases EXCEPT ![t] = PhaseOf("close", err[t])]
    BY <1>1, OneMoves
  <2> QED BY <1>1, <2>1, PhaseValue
<1>4. PhaseOf("close", err[t]) \in {"done", "failed"}
  BY PhaseValue DEF Ended
<1>5. Needs' = Needs
  BY <1>1 DEF Needs, PinnedTasks
<1> QED BY <1>1, <1>3, <1>4, <1>5 DEF Contract!Finish, Phases, Needs

(* Wait answers for tasks that are all over, and no group's answer is good *)
(* while one of its tasks failed for another reason than its context.      *)
LEMMA WaitRefines ==
  ASSUME Accounts, Causes, Recorded, NEW g \in Group, Wait(g)
  PROVE  Contract!Settle(g)
<1> USE DEF Accounts
<1>1. /\ verdict[g] = "open" /\ wg[g] = 0
      /\ UNCHANGED <<pc, err, pins>>
  BY DEF Wait, taskVars, collVars
<1>2. Unfinished(g) = {}
  <2>1. IsFiniteSet(Unfinished(g)) /\ Cardinality(Unfinished(g)) = 0
    BY <1>1, FS_Subset DEF WgExact, Unfinished
  <2> QED BY <2>1, FS_EmptySet
<1> DEFINE In == {t \in Task : Home[t] = g /\ Phases[t] # "idle"}
<1>3. ASSUME NEW t \in Task, Home[t] = g, Phases[t] # "idle"
      PROVE  pc[t] = "gone" /\ Phases[t] = IF err[t] = "none" THEN "done" ELSE "failed"
  <2>1. Phases[t] = PhaseOf(pc[t], err[t])
    BY PhaseIs
  <2>2. pc[t] = "gone"
    BY <1>2, <1>3, <2>1, PhaseValue DEF Unfinished
  <2> QED BY <2>1, <2>2, PhaseValue DEF Ended
<1>4. \A t \in In : Phases[t] \in {"done", "failed"}
  BY <1>3
<1>5. CASE gerr[g] = NoTask
  <2>1. ASSUME NEW t \in In, Phases[t] # "done" PROVE g \in cancelled
    <3>1. t \in Task /\ Home[t] = g /\ pc[t] = "gone" /\ err[t] # "none" /\ err[t] \in Errors
      BY <1>3, <2>1 DEF TypeOK
    <3> QED BY <1>5, <3>1 DEF Causes, Cause, Errors
  <2>2. g \in cancelled \/ \A t \in In : Phases[t] = "done"
    BY <2>1
  <2>3. verdict' = [verdict EXCEPT ![g] = "ok"] /\ UNCHANGED cancelled
    BY <1>5 DEF Wait
  <2> QED BY <1>1, <1>4, <2>2, <2>3 DEF Contract!Settle, Contract!Members, Phases, Phase, PinnedTasks
<1>6. CASE gerr[g] # NoTask
  <2>1. PICK t \in Task : Home[t] = g /\ err[t] \in {"fn", "dep", "unknown"}
    BY <1>6 DEF Recorded
  <2>2. pc[t] # "unborn" /\ pc[t] \in PCs
    BY <2>1 DEF Causes, Cause, TypeOK
  <2>3. pc[t] = "gone"
    BY <1>2, <2>1, <2>2 DEF Unfinished
  <2>4. Phases[t] = "failed"
    <3>1. Phases[t] = PhaseOf(pc[t], err[t])
      BY PhaseIs
    <3> QED BY <2>1, <2>3, <3>1, PhaseValue DEF Ended
  <2>5. \E u \in In : Phases[u] = "failed"
    BY <2>1, <2>4
  <2>6. verdict' = [verdict EXCEPT ![g] = "err"] /\ cancelled' = cancelled \cup Below[g]
    BY <1>6 DEF Wait
  <2> QED BY <1>1, <1>4, <2>5, <2>6 DEF Contract!Settle, Contract!Members, Phases, Phase, PinnedTasks
<1> QED BY <1>5, <1>6

LEMMA ContextEndsRefines ==
  ASSUME NEW g \in Group, ContextEnds(g)
  PROVE  Contract!End(g)
<1>1. UNCHANGED <<Phases, Needs, verdict>> /\ cancelled' = cancelled \cup Below[g]
  BY DEF ContextEnds, taskVars, collVars, Phases, Phase, Needs, PinnedTasks
<1> QED BY <1>1 DEF Contract!End, Phases, Needs

(* The bookkeeping between a fn's end and wg.Done is invisible: only the   *)
(* first error of a group shows, as the end of its context.                *)
LEMMA RecordErrorRefines ==
  ASSUME TypeOK, Causes, NEW t \in Task, RecordError(t)
  PROVE  Contract!End(Home[t]) \/ UNCHANGED Contract!vars
<1> DEFINE c == IF err[t] = "fn" THEN "release" ELSE "close"
<1>1. /\ pc[t] = "record" /\ pc' = [pc EXCEPT ![t] = c] /\ UNCHANGED <<err, pins, verdict>>
      /\ \/ cancelled' = cancelled \cup Below[Home[t]]
         \/ UNCHANGED cancelled
  BY DEF RecordError, collVars
<1>2. \A u \in Task : PhaseOf(pc'[u], err'[u]) = PhaseOf(pc[u], err[u])
  <2>1. ASSUME NEW u \in Task, u # t PROVE PhaseOf(pc'[u], err'[u]) = PhaseOf(pc[u], err[u])
    BY <1>1, <2>1 DEF TypeOK
  <2>2. pc'[t] = c /\ err'[t] = err[t]
    BY <1>1 DEF TypeOK
  <2>3. PhaseOf(c, err[t]) = PhaseOf("record", err[t])
    BY DEF PhaseOf
  <2> QED BY <1>1, <2>1, <2>2, <2>3
<1>3. Phases' = Phases
  BY <1>2, PhaseIs
<1>4. Needs' = Needs
  BY <1>1 DEF Needs, PinnedTasks
<1>5. CASE UNCHANGED cancelled
  BY <1>1, <1>2, <1>5, QuietSteps
<1>6. CASE cancelled' = cancelled \cup Below[Home[t]]
  BY <1>1, <1>3, <1>4, <1>6 DEF Contract!End, Phases, Needs
<1> QED BY <1>1, <1>5, <1>6

LEMMA QuietRefines ==
  ASSUME TypeOK, Causes, NEW t \in Task,
         \/ DependencyDone(t) \/ DependenciesMet(t) \/ FnReturns(t) \/ FnFails(t)
         \/ CloseDone(t) \/ ReleaseAndPrune(t) \/ WgDone(t)
  PROVE  UNCHANGED Contract!vars
<1>1. UNCHANGED <<pins, cancelled, verdict>>
  BY DEF DependencyDone, DependenciesMet, FnReturns, FnFails, SetError, CloseDone, ReleaseAndPrune,
    WgDone, collVars, groupVars
<1>2. \A u \in Task \ {t} : pc'[u] = pc[u] /\ err'[u] = err[u]
  BY DEF DependencyDone, DependenciesMet, FnReturns, FnFails, SetError, CloseDone, ReleaseAndPrune,
    WgDone, TypeOK
<1>3. PhaseOf(pc'[t], err'[t]) = PhaseOf(pc[t], err[t])
  <2>1. CASE DependencyDone(t)
    BY <2>1 DEF DependencyDone
  <2>2. CASE DependenciesMet(t)
    BY <2>2 DEF DependenciesMet, TypeOK, PhaseOf
  <2>3. CASE FnReturns(t)
    BY <2>3 DEF FnReturns, MayReturn, TypeOK, PhaseOf
  <2>4. CASE FnFails(t)
    BY <2>4 DEF FnFails, MayReturn, SetError, TypeOK, PhaseOf
  <2>5. CASE CloseDone(t) \/ ReleaseAndPrune(t) \/ WgDone(t)
    BY <2>5 DEF CloseDone, ReleaseAndPrune, WgDone, TypeOK, PhaseOf
  <2> QED BY <2>1, <2>2, <2>3, <2>4, <2>5
<1> QED BY <1>1, <1>2, <1>3, QuietSteps

(* What the refinement needs to know of the engine's states.               *)
Ready == Accounts /\ DependencyInv /\ SameGroup /\ Born

LEMMA ReadyAlways == Spec => []Ready
<1>1. Init => Ready
  <2> SUFFICES ASSUME Init PROVE Ready
    OBVIOUS
  <2>1. \A t \in Task : DOMAIN pins[t] = {}
    BY EmptySeq DEF Init
  <2>2. SameGroup
    BY <2>1 DEF Init, SameGroup
  <2>3. DependencyInv
    BY DEF Init, DependencyInv, Progress
  <2> QED BY <2>2, <2>3, InitAccounts, InitCollection DEF Ready
<1>2. Ready /\ [Next]_vars => Ready'
  <2> SUFFICES ASSUME Ready, [Next]_vars PROVE Ready'
    OBVIOUS
  <2>1. Accounts /\ TypeOK /\ DependencyInv /\ SameGroup /\ Born
    BY DEF Ready, Accounts
  <2>2. Accounts' /\ DependencyInv'
    BY <2>1, NextAccounts, NextDependencies
  <2>3. SameGroup' /\ Born'
    BY <2>1, NextSameGroup, NextBorn
  <2> QED BY <2>2, <2>3 DEF Ready
<1> QED BY <1>1, <1>2, PTL DEF Spec

LEMMA InitRefines == Init => Contract!Init
<1> SUFFICES ASSUME Init PROVE Contract!Init
  OBVIOUS
<1>1. \A t \in Task : Phase(t) = "idle"
  BY DEF Init, Phase
<1>2. \A t \in Task : PinnedTasks(t) = {}
  <2>1. \A t \in Task : DOMAIN pins[t] = {}
    BY EmptySeq DEF Init
  <2> QED BY <2>1 DEF PinnedTasks
<1>3. [t \in Task |-> Phase(t)] = [t \in Task |-> "idle"]
  BY <1>1
<1>4. [t \in Task |-> PinnedTasks(t)] = [t \in Task |-> {}]
  BY <1>2
<1> QED BY <1>3, <1>4 DEF Init, Contract!Init

LEMMA NextRefines ==
  ASSUME Ready, Causes, Recorded, LatestIsNewest, [Next]_vars
  PROVE  [Contract!Next]_Contract!vars
<1>0. Accounts /\ TypeOK /\ PoolAccounting /\ DependencyInv /\ SameGroup /\ Born
  BY DEF Ready, Accounts
<1>1. ASSUME NEW t \in Task, Go(t) PROVE Contract!Schedule(t)
  BY <1>0, <1>1, GoRefines
<1>2. ASSUME NEW t \in Task, Advance(t)
      PROVE  \/ Contract!Start(t) \/ Contract!Finish(t) \/ Contract!Drop(t)
             \/ Contract!End(Home[t]) \/ UNCHANGED Contract!vars
  <2>1. CASE UnknownDependency(t) \/ DependencyFailed(t) \/ DependencyCancelled(t)
               \/ AcquireCancelled(t)
    BY <1>0, <2>1, DropRefines
  <2>2. CASE DependencyDone(t) \/ DependenciesMet(t) \/ CloseDone(t) \/ ReleaseAndPrune(t) \/ WgDone(t)
    BY <1>0, <2>2, QuietRefines
  <2>3. CASE Acquire(t)
    BY <1>0, <2>3, AcquireRefines
  <2>4. CASE RecordError(t)
    BY <1>0, <2>4, RecordErrorRefines
  <2>5. CASE ReleaseSlot(t)
    BY <1>0, <2>5, ReleaseRefines
  <2> QED BY <1>2, <2>1, <2>2, <2>3, <2>4, <2>5 DEF Advance
<1>3. ASSUME NEW t \in Task, Return(t) PROVE UNCHANGED Contract!vars
  BY <1>0, <1>3, QuietRefines DEF Return
<1>4. ASSUME NEW g \in Group, SubGroup(g) PROVE Contract!Open(g)
  BY <1>4, SubGroupRefines
<1>5. ASSUME NEW g \in Group, Wait(g) PROVE Contract!Settle(g)
  BY <1>0, <1>5, WaitRefines
<1>6. ASSUME NEW g \in Group, ContextEnds(g) PROVE Contract!End(g)
  BY <1>6, ContextEndsRefines
<1>7. CASE CommandEnded \/ UNCHANGED vars
  <2>1. UNCHANGED <<pc, err, pins, cancelled, verdict>>
    BY <1>7 DEF CommandEnded, vars, taskVars, collVars, groupVars
  <2> QED BY <2>1, QuietSteps
<1>8. \A t \in Task : Home[t] \in Group
  OBVIOUS
<1> QED BY <1>1, <1>2, <1>3, <1>4, <1>5, <1>6, <1>7, <1>8 DEF Next, Contract!Next

(* pkg/taskgroup keeps what it promises the code that schedules work on    *)
(* it: with goroutines, locks, channels and bookkeeping hidden, every step *)
(* of the engine is a step of the contract or none, for any number of      *)
(* tasks, nested groups, pools and keys.                                   *)
THEOREM EngineImplementsContract == Spec => ImplementsContract
<1>1. CollectionExact => LatestIsNewest
  BY DEF CollectionExact
<1>2. /\ Ready /\ (TypeOK /\ WaitIsAJoin /\ Causes /\ Recorded) /\ LatestIsNewest /\ [Next]_vars
      => [Contract!Next]_Contract!vars
  BY NextRefines
<1> QED BY <1>1, <1>2, InitRefines, ReadyAlways, RecordedAlways, CollectionIsExact,
           PTL DEF Spec, ImplementsContract, Contract!Spec
=============================================================================
