--------------------------- MODULE MapRun_proofs ---------------------------
(***************************************************************************)
(* Proofs about Map.Run for any number of items, on the invariants proved  *)
(* of the engine.                                                          *)
(***************************************************************************)
EXTENDS MapRun, TaskGroup_proofs

USE MapAssumption

SubUnused == \A u \in Task : Home[u] = Sub => pc[u] = "unborn"

(* The orchestrator's fn is never over while tasks of its SubGroup run.    *)
ReturnInv ==
  /\ orch \in {"new", "create"} => SubUnused
  /\ MapDone => verdict[Sub] # "open" \/ SubUnused

MapInv == Accounts /\ ReturnInv

LEMMA ReturnsAsEngine ==
  ASSUME MapInv, OrchestratorReturns
  PROVE  Next
<1>1. MayReturn(Orch)
  BY DEF MapInv, ReturnInv, OrchestratorReturns, SubUnused, MayReturn
<1>2. Return(Orch)
  BY <1>1 DEF OrchestratorReturns, Return, FnReturns, FnFails, MapDone
<1> QED BY <1>2 DEF Next

(* Every step of Run is a step of the engine or leaves the engine alone.   *)
LEMMA StepOfEngine ==
  ASSUME MapInv, [MapNext]_<<vars, mapVars>>
  PROVE  [Next]_vars
<1>1. CASE RunStarts
  BY <1>1 DEF RunStarts, Next
<1>2. CASE RunReturns
  BY <1>2 DEF RunReturns
<1>3. CASE CommandWaits
  BY <1>3, GroupAssumption DEF CommandWaits, Next
<1>4. CASE Orchestrate
  <2>1. CASE CreateSubGroup
    BY <2>1 DEF CreateSubGroup, Next
  <2>2. CASE ReturnEarly \/ MakeResults
    BY <2>2 DEF ReturnEarly, MakeResults
  <2>3. CASE ScheduleItem
    BY <2>3 DEF ScheduleItem, Next
  <2>4. CASE WaitForItems
    BY <2>4 DEF WaitForItems, Next
  <2>5. CASE OrchestratorReturns
    BY <2>5, ReturnsAsEngine
  <2> QED BY <1>4, <2>1, <2>2, <2>3, <2>4, <2>5 DEF Orchestrate
<1>5. ASSUME NEW t \in ItemTask, ItemSucceeds(t) \/ ItemFails(t) PROVE Next
  BY <1>5 DEF ItemTask, ItemSucceeds, ItemFails, Return, Next
<1>6. CASE EngineStep
  BY <1>6 DEF EngineStep, Next
<1>7. CASE UNCHANGED <<vars, mapVars>>
  BY <1>7
<1> QED BY <1>1, <1>2, <1>3, <1>4, <1>5, <1>6, <1>7 DEF MapNext

(* What a step of the engine that schedules nothing of Sub and opens no    *)
(* group keeps.                                                            *)
LEMMA QuietReturnInv ==
  ASSUME MapInv, UNCHANGED orch,
         \A u \in Task : Home[u] = Sub /\ pc[u] = "unborn" => pc'[u] = "unborn",
         verdict[Sub] # "open" => verdict'[Sub] # "open"
  PROVE  ReturnInv'
BY DEF MapInv, ReturnInv, SubUnused, MapDone

LEMMA EngineStepKeeps ==
  ASSUME MapInv, EngineStep
  PROVE  ReturnInv'
<1> USE DEF MapInv, Accounts
<1>1. ASSUME NEW t \in Task, Advance(t) \/ Return(t)
      PROVE  /\ UNCHANGED verdict
             /\ \A u \in Task : pc[u] = "unborn" => pc'[u] = "unborn"
  BY <1>1 DEF Advance, Return, UnknownDependency, DependencyDone, DependencyFailed,
     DependencyCancelled, DependenciesMet, Acquire, AcquireCancelled, RecordError,
     ReleaseSlot, CloseDone, ReleaseAndPrune, WgDone, FnReturns, FnFails, MayReturn,
     WaitsFor, SetError, groupVars, TypeOK
<1>2. ASSUME NEW t \in Bystander, Go(t)
      PROVE  /\ UNCHANGED verdict
             /\ \A u \in Task : Home[u] = Sub /\ pc[u] = "unborn" => pc'[u] = "unborn"
  BY <1>2 DEF Go, groupVars, TypeOK
<1>3. ASSUME NEW g \in Group, ContextEnds(g) PROVE UNCHANGED <<verdict, pc>>
  BY <1>3 DEF ContextEnds, taskVars
<1>4. CommandEnded => UNCHANGED <<verdict, pc>>
  BY DEF CommandEnded, vars, taskVars, groupVars
<1>5. UNCHANGED orch
  BY DEF EngineStep, mapVars
<1>6. Bystander \subseteq Task
  OBVIOUS
<1>7. /\ \A u \in Task : Home[u] = Sub /\ pc[u] = "unborn" => pc'[u] = "unborn"
      /\ UNCHANGED verdict
  BY <1>1, <1>2, <1>3, <1>4, <1>6 DEF EngineStep
<1> QED BY <1>5, <1>7, QuietReturnInv

LEMMA MapNextKeeps == MapInv /\ [MapNext]_<<vars, mapVars>> => MapInv'
<1> SUFFICES ASSUME MapInv, [MapNext]_<<vars, mapVars>> PROVE MapInv'
  OBVIOUS
<1>1. Accounts'
  BY StepOfEngine, NextAccounts DEF MapInv
<1>2. ReturnInv'
  <2> USE DEF MapInv, Accounts
  <2>1. CASE RunStarts
    <3>1. \A u \in Task : Home[u] = Sub /\ pc[u] = "unborn" => pc'[u] = "unborn"
      BY <2>1 DEF RunStarts, Go, TypeOK
    <3> QED BY <2>1, <3>1, QuietReturnInv DEF RunStarts, Go, groupVars
  <2>2. CASE RunReturns \/ UNCHANGED <<vars, mapVars>>
    <3>1. UNCHANGED <<orch, pc, verdict>>
      BY <2>2 DEF RunReturns, vars, taskVars, groupVars, mapVars
    <3> QED BY <3>1, QuietReturnInv
  <2>3. CASE CommandWaits
    <3>1. UNCHANGED <<orch, pc>> /\ verdict'[Sub] = verdict[Sub]
      BY <2>3 DEF CommandWaits, Wait, taskVars, mapVars, TypeOK
    <3> QED BY <3>1, QuietReturnInv
  <2>4. CASE Orchestrate
    <3>1. CASE CreateSubGroup
      BY <3>1 DEF CreateSubGroup, SubGroup, taskVars, ReturnInv, MapDone, SubUnused
    <3>2. CASE ReturnEarly \/ MakeResults
      BY <3>2 DEF ReturnEarly, MakeResults, vars, taskVars, groupVars, ReturnInv, MapDone,
         SubUnused
    <3>3. CASE ScheduleItem
      BY <3>3, <2>4 DEF ScheduleItem, mapVars, ReturnInv, MapDone
    <3>4. CASE WaitForItems
      <4>1. verdict'[Sub] \in {"ok", "err"} /\ orch' \in {"ok", "err"}
        BY <3>4 DEF WaitForItems, Wait, TypeOK
      <4> QED BY <4>1 DEF ReturnInv
    <3>5. CASE OrchestratorReturns
      <4>1. UNCHANGED <<orch, verdict>>
        BY <3>5 DEF OrchestratorReturns, SetError, groupVars, mapVars
      <4>2. \A u \in Task : pc[u] = "unborn" => pc'[u] = "unborn"
        BY <3>5 DEF OrchestratorReturns, SetError, TypeOK
      <4> QED BY <4>1, <4>2, QuietReturnInv
    <3> QED BY <2>4, <3>1, <3>2, <3>3, <3>4, <3>5 DEF Orchestrate
  <2>5. ASSUME NEW t \in ItemTask, ItemSucceeds(t) \/ ItemFails(t) PROVE ReturnInv'
    <3>1. UNCHANGED <<orch, verdict>>
      BY <2>5 DEF ItemSucceeds, ItemFails, FnReturns, FnFails, SetError, groupVars, mapVars
    <3>2. \A u \in Task : pc[u] = "unborn" => pc'[u] = "unborn"
      BY <2>5 DEF ItemSucceeds, ItemFails, FnReturns, FnFails, MayReturn, SetError, TypeOK
    <3> QED BY <3>1, <3>2, QuietReturnInv
  <2>6. CASE EngineStep
    BY <2>6, EngineStepKeeps
  <2> QED BY <2>1, <2>2, <2>3, <2>4, <2>5, <2>6 DEF MapNext
<1> QED BY <1>1, <1>2 DEF MapInv

LEMMA MapInitKeeps == MapInit => MapInv
BY InitAccounts DEF MapInit, MapInv, ReturnInv, SubUnused, MapDone, Init

(* Map.Run needs nothing of the engine but what every command may do: each *)
(* of its behaviours is a behaviour of TaskGroup, so whatever is proved of *)
(* TaskGroup holds of every map.                                           *)
THEOREM RunsOnEngine == MapSpec => Spec
<1>1. MapInit => Init
  BY DEF MapInit
<1>2. MapInv /\ [MapNext]_<<vars, mapVars>> => [Next]_vars
  BY StepOfEngine
<1> QED BY <1>1, <1>2, MapInitKeeps, MapNextKeeps, PTL DEF MapSpec, Spec
----------------------------------------------------------------------------
(* Serial.  An id given as a key is pinned as that task or not at all.     *)
KeyedPins ==
  \A t \in Task :
    pc[t] # "unborn" =>
      \A i \in DOMAIN pins[t] :
        DepKeys[t][i] \in Task => pins[t][i] \in {DepKeys[t][i], NoTask}
(* The fn of t was allowed to start and has not failed.                    *)
Ran(t) ==
  \/ pc[t] \in {"acquire", "body", "release"}
  \/ pc[t] = "record" /\ err[t] = "fn"
  \/ pc[t] \in {"close", "prune", "wgdone", "gone"} /\ err[t] \in {"none", "fn"}

SerialInv ==
  Serial => \A i, j \in DOMAIN Item : i < j /\ Ran(Item[j]) => Met(Item[i])

LEMMA NextKeyedPins == TypeOK /\ KeyedPins /\ [Next]_vars => KeyedPins'
<1> SUFFICES ASSUME TypeOK, KeyedPins, [Next]_vars PROVE KeyedPins'
  OBVIOUS
<1>1. ASSUME NEW t \in Task, Go(t) PROVE KeyedPins'
  <2>1. \A i \in DOMAIN DepKeys[t] :
          DepKeys[t][i] \in Task => Lookup(Home[t], DepKeys[t][i]) \in {DepKeys[t][i], NoTask}
    BY DEF Lookup
  <2>2. pins'[t] = [i \in DOMAIN DepKeys[t] |-> Lookup(Home[t], DepKeys[t][i])]
    BY <1>1 DEF Go, TypeOK
  <2>3. \A u \in Task \ {t} : pins'[u] = pins[u] /\ pc'[u] = pc[u]
    BY <1>1 DEF Go, TypeOK
  <2> QED BY <2>1, <2>2, <2>3 DEF KeyedPins
<1>2. ASSUME NEW t \in Task, Advance(t) \/ Return(t) PROVE KeyedPins'
  <2>1. UNCHANGED pins /\ pc[t] # "unborn" /\ \A u \in Task \ {t} : pc'[u] = pc[u]
    BY <1>2 DEF Advance, Return, UnknownDependency, DependencyDone, DependencyFailed,
       DependencyCancelled, DependenciesMet, Acquire, AcquireCancelled, RecordError,
       ReleaseSlot, CloseDone, ReleaseAndPrune, WgDone, FnReturns, FnFails, MayReturn,
       WaitsFor, SetError, collVars, TypeOK
  <2> QED BY <2>1 DEF KeyedPins
<1>3. ASSUME NEW g \in Group, SubGroup(g) \/ Wait(g) \/ ContextEnds(g) PROVE KeyedPins'
  BY <1>3 DEF SubGroup, Wait, ContextEnds, taskVars, collVars, KeyedPins
<1>4. CASE CommandEnded \/ UNCHANGED vars
  BY <1>4 DEF CommandEnded, vars, taskVars, collVars, KeyedPins
<1> QED BY <1>1, <1>2, <1>3, <1>4 DEF Next

(* A task starts only by way of DependenciesMet.                           *)
LEMMA StartsMet ==
  ASSUME TypeOK, DependencyInv, [Next]_vars, NEW t \in Task, ~Ran(t), Ran(t)'
  PROVE  /\ pc[t] = "deps"
         /\ \A i \in DOMAIN pins[t] : Met(pins[t][i])
<1>1. ASSUME NEW u \in Task, Go(u) PROVE FALSE
  BY <1>1 DEF Go, Ran, TypeOK
<1>2. ASSUME NEW u \in Task, Advance(u) PROVE DependenciesMet(t)
  <2>1. CASE \E e \in Errors \ {"none", "fn"} :
               SetError(u, e) /\ pc[u] \in {"deps", "acquire"}
    BY <2>1 DEF SetError, Ran, TypeOK
  <2>2. CASE DependencyDone(u) \/ Acquire(u)
    BY <2>2 DEF DependencyDone, Acquire, Ran, TypeOK
  <2>3. CASE DependenciesMet(u)
    BY <2>3 DEF DependenciesMet, Ran, TypeOK
  <2>4. CASE RecordError(u) \/ ReleaseSlot(u)
    BY <2>4 DEF RecordError, ReleaseSlot, Ran, TypeOK, DependencyInv, Progress
  <2>5. CASE CloseDone(u) \/ ReleaseAndPrune(u) \/ WgDone(u)
    BY <2>5 DEF CloseDone, ReleaseAndPrune, WgDone, Ran, TypeOK
  <2> QED BY <1>2, <2>1, <2>2, <2>3, <2>4, <2>5 DEF Advance, UnknownDependency,
      DependencyFailed, DependencyCancelled, AcquireCancelled, WaitsFor, Errors
<1>3. ASSUME NEW u \in Task, Return(u) PROVE FALSE
  BY <1>3 DEF Return, FnReturns, FnFails, MayReturn, SetError, Ran, TypeOK
<1>4. ASSUME NEW g \in Group, SubGroup(g) \/ Wait(g) \/ ContextEnds(g) PROVE FALSE
  BY <1>4 DEF SubGroup, Wait, ContextEnds, taskVars, Ran
<1>5. ~(CommandEnded \/ UNCHANGED vars)
  BY DEF CommandEnded, vars, taskVars, Ran
<1>6. DependenciesMet(t)
  BY <1>1, <1>2, <1>3, <1>4, <1>5 DEF Next
<1>7. DOMAIN pins[t] = 1 .. Len(pins[t]) /\ Len(pins[t]) \in Nat
  BY LenProperties DEF TypeOK
<1>8. dep[t] \in Nat \ {0} /\ Progress(t)
  BY DEF TypeOK, DependencyInv
<1>9. pc[t] = "deps" /\ dep[t] \notin DOMAIN pins[t]
  BY <1>6 DEF DependenciesMet
<1> QED BY <1>7, <1>8, <1>9 DEF Progress

LEMMA NextSerial ==
  ASSUME TypeOK, DependencyInv, KeyedPins, SerialInv, [Next]_vars
  PROVE  SerialInv'
<1> SUFFICES ASSUME Serial, NEW i \in DOMAIN Item, NEW j \in DOMAIN Item, i < j,
                    Ran(Item[j])'
             PROVE  Met(Item[i])'
  BY DEF SerialInv, Serial
<1>1. DOMAIN Item = 1 .. Len(Item) /\ Len(Item) \in Nat
  BY LenProperties
<1>2. Item[i] \in Task /\ Item[j] \in Task /\ j - 1 \in DOMAIN Item
  BY <1>1
<1>3. CASE Ran(Item[j])
  BY <1>2, <1>3, MetForGood DEF SerialInv
<1>4. CASE ~Ran(Item[j])
  <2>1. /\ pc[Item[j]] = "deps"
        /\ \A k \in DOMAIN pins[Item[j]] : Met(pins[Item[j]][k])
    BY <1>2, <1>4, StartsMet
  <2>2. DepKeys[Item[j]] = <<Item[j - 1]>>
    <3>1. j \in 2 .. Len(Item)
      BY <1>1
    <3> QED BY <3>1 DEF Serial
  <2>3. 1 \in DOMAIN pins[Item[j]] /\ DepKeys[Item[j]][1] = Item[j - 1]
    BY <1>2, <2>1, <2>2 DEF DependencyInv, Progress
  <2>4. pins[Item[j]][1] = Item[j - 1]
    <3>1. Item[j - 1] \in Task
      BY <1>2
    <3>2. pins[Item[j]][1] \in {Item[j - 1], NoTask}
      BY <1>2, <2>1, <2>3, <3>1 DEF KeyedPins
    <3>3. pins[Item[j]][1] \in Task
      BY <2>1, <2>3 DEF Met
    <3> QED BY <3>2, <3>3, GroupAssumption
  <2>5. Met(Item[j - 1])
    BY <2>1, <2>3, <2>4
  <2>6. Met(Item[i])
    <3>1. Ran(Item[j - 1])
      BY <2>5 DEF Met, DoneClosed, Ran
    <3>2. i = j - 1 \/ i < j - 1
      BY <1>1
    <3> QED BY <1>2, <2>5, <3>1, <3>2 DEF SerialInv
  <2> QED BY <1>2, <2>6, MetForGood
<1> QED BY <1>3, <1>4

(* Serial: at most one item's fn runs at a time, and items run in order:   *)
(* when the fn of an item may run, every earlier item finished without an  *)
(* error.                                                                  *)
OneItemAtATime ==
  Serial =>
    \A i, j \in DOMAIN Item :
      i < j /\ pc[Item[j]] \in {"body", "release"} =>
        DoneClosed(Item[i]) /\ state[Item[i]] = "Done"

(* Serial keeps its order for any number of items, whatever the scheduler  *)
(* does between the end of one item and the Go of the next: an item whose  *)
(* key no longer resolves fails, it never overtakes.                       *)
THEOREM SerialOrder == MapSpec => []OneItemAtATime
<1>1. Init => DependencyInv /\ KeyedPins /\ SerialInv
  BY DEF Init, DependencyInv, Progress, KeyedPins, SerialInv, Ran
<1>2. SerialInv => OneItemAtATime
  BY DEF SerialInv, OneItemAtATime, Ran, Met
<1> QED BY <1>1, <1>2, RunsOnEngine, TypeCorrect, NextDependencies, NextKeyedPins,
        NextSerial, PTL DEF Spec
----------------------------------------------------------------------------
(* What Run returns.  A map that is over joined its SubGroup or never used *)
(* it; a nil error means that every item was scheduled, or none was as the *)
(* SubGroup was born cancelled.                                            *)

Scheduled == \A t \in ItemTask : pc[t] # "unborn"

HowItEnded ==
  \/ verdict[Sub] = "ok" /\ Scheduled
  \/ verdict[Sub] = "err" /\ mapErr # "nil"
  \/ SubUnused /\ Sub \in cancelled

(* The fn of an item has returned nil.                                     *)
Succeeded(t) == pc[t] \notin {"unborn", "deps", "acquire", "body"} /\ err[t] = "none"

ResultsInv ==
  /\ caller \in {"ok", "err"} => MapDone
  /\ caller = "ok" => mapErr = "nil"
  /\ MapDone => HowItEnded
  /\ results \subseteq ItemTask
  /\ \A t \in ItemTask : Succeeded(t) => t \in results

(* Nothing is unscheduled, no answer of Wait is taken back.                *)
LEMMA ForGood ==
  ASSUME TypeOK, [Next]_vars
  PROVE  /\ \A t \in Task : pc[t] # "unborn" => pc'[t] # "unborn"
         /\ \A g \in Group : verdict[g] \in {"ok", "err"} => verdict'[g] = verdict[g]
         /\ cancelled \subseteq cancelled'
<1>1. ASSUME NEW t \in Task, Go(t) \/ Return(t)
      PROVE  UNCHANGED verdict /\ \A u \in Task : pc[u] # "unborn" => pc'[u] # "unborn"
  BY <1>1 DEF Go, Return, FnReturns, FnFails, SetError, groupVars, TypeOK
<1>2. ASSUME NEW t \in Task, Advance(t)
      PROVE  UNCHANGED verdict /\ \A u \in Task : pc[u] # "unborn" => pc'[u] # "unborn"
  BY <1>2 DEF Advance, UnknownDependency, DependencyDone, DependencyFailed, DependencyCancelled,
    DependenciesMet, Acquire, AcquireCancelled, RecordError, ReleaseSlot, CloseDone,
    ReleaseAndPrune, WgDone, SetError, groupVars, TypeOK
<1>3. ASSUME NEW h \in Group, SubGroup(h) \/ Wait(h) \/ ContextEnds(h)
      PROVE  UNCHANGED pc /\ \A g \in Group : verdict[g] \in {"ok", "err"} => verdict'[g] = verdict[g]
  BY <1>3 DEF SubGroup, Wait, ContextEnds, taskVars, TypeOK
<1>4. CASE CommandEnded \/ UNCHANGED vars
  BY <1>4 DEF CommandEnded, vars, taskVars, groupVars
<1> QED BY <1>1, <1>2, <1>3, <1>4, Growing DEF Next

(* Tasks of the SubGroup are scheduled by the loop of the orchestrator and *)
(* the fn of an item returns by storing its result or by failing.          *)
LEMMA WhoSchedules ==
  ASSUME MapInv, [MapNext]_<<vars, mapVars>>
  PROVE  \/ ScheduleItem
         \/ \A u \in Task : Home[u] = Sub /\ pc[u] = "unborn" => pc'[u] = "unborn"
<1> USE DEF MapInv, Accounts
<1>1. CASE RunStarts
  BY <1>1 DEF RunStarts, Go, TypeOK
<1>2. CASE RunReturns \/ UNCHANGED <<vars, mapVars>>
  BY <1>2 DEF RunReturns, vars, taskVars
<1>3. CASE CommandWaits
  BY <1>3 DEF CommandWaits, Wait, taskVars
<1>4. CASE Orchestrate
  BY <1>4 DEF Orchestrate, CreateSubGroup, SubGroup, ReturnEarly, MakeResults, WaitForItems, Wait,
    OrchestratorReturns, SetError, vars, taskVars, TypeOK
<1>5. ASSUME NEW t \in ItemTask, ItemSucceeds(t) \/ ItemFails(t)
      PROVE  \A u \in Task : pc[u] = "unborn" => pc'[u] = "unborn"
  BY <1>5 DEF ItemSucceeds, ItemFails, FnReturns, FnFails, MayReturn, SetError, TypeOK
<1>6. CASE EngineStep
  <2>1. ASSUME NEW t \in Task, Advance(t) \/ Return(t)
        PROVE  \A u \in Task : pc[u] = "unborn" => pc'[u] = "unborn"
    BY <2>1 DEF Advance, Return, UnknownDependency, DependencyDone, DependencyFailed,
       DependencyCancelled, DependenciesMet, Acquire, AcquireCancelled, RecordError,
       ReleaseSlot, CloseDone, ReleaseAndPrune, WgDone, FnReturns, FnFails, MayReturn,
       WaitsFor, SetError, TypeOK
  <2>2. ASSUME NEW t \in Bystander, Go(t)
        PROVE  \A u \in Task : Home[u] = Sub /\ pc[u] = "unborn" => pc'[u] = "unborn"
    BY <2>2 DEF Go, TypeOK
  <2>3. ASSUME NEW g \in Group, ContextEnds(g) PROVE UNCHANGED pc
    BY <2>3 DEF ContextEnds, taskVars
  <2>4. CommandEnded => UNCHANGED pc
    BY DEF CommandEnded, vars, taskVars
  <2>5. Bystander \subseteq Task
    OBVIOUS
  <2> QED BY <1>6, <2>1, <2>2, <2>3, <2>4, <2>5 DEF EngineStep
<1> QED BY <1>1, <1>2, <1>3, <1>4, <1>5, <1>6 DEF MapNext

LEMMA ItemsOfSub == \A t \in ItemTask : t \in Task /\ Home[t] = Sub
<1>1. \A i \in DOMAIN Item : Item[i] \in {t \in Task : Home[t] = Sub /\ Spawner[t] = Orch}
  BY LenProperties, ElementOfSeq
<1> QED BY <1>1 DEF ItemTask

LEMMA NextStored ==
  ASSUME MapInv, ResultsInv, [MapNext]_<<vars, mapVars>>
  PROVE  /\ results' \subseteq ItemTask
         /\ \A t \in ItemTask : Succeeded(t)' => t \in results'
<1> USE DEF MapInv, Accounts
<1>1. results' = results \/ \E t \in ItemTask : ItemSucceeds(t)
  BY DEF MapNext, RunStarts, RunReturns, CommandWaits, Orchestrate, CreateSubGroup, ReturnEarly,
    MakeResults, ScheduleItem, WaitForItems, OrchestratorReturns, ItemFails, EngineStep, mapVars
<1>2. results \subseteq results' /\ results' \subseteq ItemTask
  BY <1>1 DEF ItemSucceeds, ResultsInv
<1>3. ASSUME NEW t \in ItemTask, Succeeded(t)', ~Succeeded(t) PROVE ItemSucceeds(t)
  <2>0. t \in Task /\ Home[t] = Sub /\ t # Orch /\ t \notin Bystander
    BY ItemsOfSub
  <2>1. ASSUME NEW u \in Task, Advance(u) PROVE FALSE
    <3>1. CASE UnknownDependency(u) \/ DependencyFailed(u) \/ DependencyCancelled(u)
                 \/ AcquireCancelled(u)
      BY SMTT(20), <1>3, <2>0, <3>1 DEF Succeeded, UnknownDependency, DependencyFailed, DependencyCancelled,
        AcquireCancelled, SetError, TypeOK
    <3>2. CASE DependencyDone(u) \/ DependenciesMet(u) \/ Acquire(u)
      BY <1>3, <2>0, <3>2 DEF Succeeded, DependencyDone, DependenciesMet, Acquire, TypeOK
    <3>3. CASE RecordError(u) \/ ReleaseSlot(u) \/ CloseDone(u)
      BY <1>3, <2>0, <3>3 DEF Succeeded, RecordError, ReleaseSlot, CloseDone, TypeOK
    <3>4. CASE ReleaseAndPrune(u) \/ WgDone(u)
      BY <1>3, <2>0, <3>4 DEF Succeeded, ReleaseAndPrune, WgDone, TypeOK
    <3> QED BY <2>1, <3>1, <3>2, <3>3, <3>4 DEF Advance
  <2>2. ASSUME NEW u \in Task, Go(u) PROVE FALSE
    BY <1>3, <2>0, <2>2 DEF Succeeded, Go, TypeOK
  <2>3. ASSUME NEW u \in Task, u # t, Return(u) PROVE FALSE
    BY <1>3, <2>0, <2>3 DEF Succeeded, Return, FnReturns, FnFails, SetError, TypeOK
  <2>4. ASSUME UNCHANGED <<pc, err>> PROVE FALSE
    BY <1>3, <2>4 DEF Succeeded
  <2>5. ~RunStarts /\ ~RunReturns /\ ~CommandWaits /\ ~UNCHANGED <<vars, mapVars>>
    BY <2>2, <2>4 DEF RunStarts, RunReturns, CommandWaits, Wait, vars, taskVars
  <2>6. ASSUME EngineStep PROVE FALSE
    <3>1. \A u \in Bystander : u \in Task /\ u # t
      BY <2>0
    <3>2. \A g \in Group : ContextEnds(g) => UNCHANGED <<pc, err>>
      BY DEF ContextEnds, taskVars
    <3>3. CommandEnded => UNCHANGED <<pc, err>>
      BY DEF CommandEnded, vars, taskVars
    <3> QED BY <2>1, <2>2, <2>3, <2>4, <2>6, <3>1, <3>2, <3>3 DEF EngineStep
  <2>7. ASSUME Orchestrate PROVE FALSE
    <3>1. CASE CreateSubGroup \/ ReturnEarly \/ MakeResults \/ WaitForItems
      BY <2>4, <3>1 DEF CreateSubGroup, SubGroup, ReturnEarly, MakeResults, WaitForItems, Wait,
        vars, taskVars
    <3>2. CASE ScheduleItem
      <4>1. Item[NextItem] \in ItemTask
        BY <3>2 DEF ScheduleItem, ItemTask
      <4> QED BY <2>2, <3>2, <4>1, ItemsOfSub DEF ScheduleItem
    <3>3. CASE OrchestratorReturns
      BY <1>3, <2>0, <3>3 DEF Succeeded, OrchestratorReturns, SetError, TypeOK
    <3> QED BY <2>7, <3>1, <3>2, <3>3 DEF Orchestrate
  <2>8. PICK u \in ItemTask : ItemSucceeds(u) \/ ItemFails(u)
    BY <2>5, <2>6, <2>7 DEF MapNext
  <2>9. u = t
    <3>1. u \in Task
      BY ItemsOfSub
    <3> QED BY <2>3, <2>8, <3>1 DEF ItemSucceeds, ItemFails, Return
  <2>10. ~ItemFails(t)
    BY <1>3, <2>0 DEF ItemFails, FnFails, SetError, Succeeded, TypeOK
  <2> QED BY <2>8, <2>9, <2>10
<1>4. ASSUME NEW t \in ItemTask, Succeeded(t)' PROVE t \in results'
  BY <1>2, <1>3, <1>4 DEF ItemSucceeds, ResultsInv
<1> QED BY <1>2, <1>4

(* The loop is left with every item scheduled.                             *)
LEMMA LoopEnds ==
  ASSUME NextItem \notin DOMAIN Item
  PROVE  Scheduled
<1> DEFINE S == {t \in ItemTask : pc[t] # "unborn"}
<1>1. DOMAIN Item = 1 .. Len(Item) /\ Len(Item) \in Nat
  BY LenProperties
<1>2. IsFiniteSet(1 .. Len(Item)) /\ Cardinality(1 .. Len(Item)) = Len(Item)
  <2>1. PICK n \in Nat : n = Len(Item)
    BY <1>1
  <2>2. IsFiniteSet(1 .. n) /\ Cardinality(1 .. n) = IF 1 > n THEN 0 ELSE n - 1 + 1
    <3>1. 1 \in Int /\ n \in Int
      OBVIOUS
    <3> QED BY <3>1, FS_Interval, Zenon
  <2>3. Cardinality(1 .. n) = n
    BY <2>2
  <2> QED BY <2>1, <2>2, <2>3
<1>3. IsFiniteSet(ItemTask) /\ Cardinality(ItemTask) <= Len(Item)
  <2>1. Item \in Surjection(1 .. Len(Item), ItemTask)
    BY <1>1 DEF Surjection, ItemTask
  <2> QED BY <1>2, <2>1, FS_Surjection
<1>4. S \subseteq ItemTask
  OBVIOUS
<1>5. IsFiniteSet(S) /\ Cardinality(S) <= Cardinality(ItemTask)
      /\ (Cardinality(S) = Cardinality(ItemTask) => S = ItemTask)
  BY <1>3, <1>4, FS_Subset
<1>6. Cardinality(S) \in Nat /\ Cardinality(ItemTask) \in Nat
  BY <1>3, <1>5, FS_CardinalityType
<1>7. Cardinality(S) + 1 \notin 1 .. Len(Item)
  BY <1>1 DEF NextItem
<1> HIDE DEF S
<1>8. S = ItemTask
  BY <1>1, <1>3, <1>5, <1>6, <1>7
<1> QED BY <1>8 DEF S, Scheduled

LEMMA NextEnded ==
  ASSUME MapInv, ResultsInv, MapDone', [MapNext]_<<vars, mapVars>>
  PROVE  HowItEnded'
<1>0. TypeOK /\ [Next]_vars
  BY StepOfEngine DEF MapInv, Accounts
<1>1. /\ \A t \in Task : pc[t] # "unborn" => pc'[t] # "unborn"
      /\ \A g \in Group : verdict[g] \in {"ok", "err"} => verdict'[g] = verdict[g]
      /\ cancelled \subseteq cancelled'
  BY <1>0, ForGood
<1>2. CASE MapDone
  <2>1. HowItEnded
    BY <1>2 DEF ResultsInv
  <2>2. ~ScheduleItem /\ ~WaitForItems
    BY <1>2 DEF ScheduleItem, WaitForItems, MapDone
  <2>3. SubUnused => SubUnused'
    BY <2>2, WhoSchedules DEF SubUnused
  <2>4. Scheduled => Scheduled'
    BY <1>1, ItemsOfSub DEF Scheduled
  <2>5. mapErr # "nil" => mapErr' # "nil"
    BY <2>2 DEF MapNext, RunStarts, RunReturns, CommandWaits, Orchestrate, CreateSubGroup,
      ReturnEarly, MakeResults, ScheduleItem, OrchestratorReturns, ItemSucceeds, ItemFails,
      EngineStep, mapVars
  <2> QED BY <1>1, <2>1, <2>3, <2>4, <2>5 DEF HowItEnded
<1>3. CASE ~MapDone
  <2>1. ReturnEarly \/ WaitForItems
    BY <1>3 DEF MapDone, MapNext, RunStarts, RunReturns, CommandWaits, Orchestrate, CreateSubGroup,
      MakeResults, ScheduleItem, OrchestratorReturns, ItemSucceeds, ItemFails, EngineStep, mapVars
  <2>2. CASE ReturnEarly
    BY <2>2 DEF ReturnEarly, MapInv, ReturnInv, HowItEnded, SubUnused, vars, taskVars, groupVars
  <2>3. CASE WaitForItems
    <3>1. Scheduled'
      BY <1>1, <2>3, LoopEnds, ItemsOfSub DEF WaitForItems, Scheduled
    <3>2. \/ verdict'[Sub] = "ok"
          \/ verdict'[Sub] = "err" /\ mapErr' # "nil"
      BY <1>0, <2>3 DEF WaitForItems, Wait, TypeOK
    <3> QED BY <3>1, <3>2 DEF HowItEnded
  <2> QED BY <2>1, <2>2, <2>3
<1> QED BY <1>2, <1>3

LEMMA NextResults ==
  ASSUME MapInv, ResultsInv, [MapNext]_<<vars, mapVars>>
  PROVE  ResultsInv'
<1>1. MapDone => MapDone'
  BY DEF MapDone, MapNext, RunStarts, RunReturns, CommandWaits, Orchestrate, CreateSubGroup,
    ReturnEarly, MakeResults, ScheduleItem, WaitForItems, OrchestratorReturns, ItemSucceeds,
    ItemFails, EngineStep, mapVars
<1>2. caller' \in {"ok", "err"} => MapDone'
  <2>1. caller' = caller \/ RunStarts \/ RunReturns
    BY DEF MapNext, CommandWaits, Orchestrate, CreateSubGroup, ReturnEarly, MakeResults,
      ScheduleItem, WaitForItems, OrchestratorReturns, ItemSucceeds, ItemFails, EngineStep, mapVars
  <2> QED BY <1>1, <2>1 DEF RunStarts, RunReturns, ResultsInv
<1>3. caller' = "ok" => mapErr' = "nil"
  <2>1. UNCHANGED <<caller, mapErr>> \/ RunStarts \/ RunReturns \/ WaitForItems
    BY DEF MapNext, CommandWaits, Orchestrate, CreateSubGroup, ReturnEarly, MakeResults,
      ScheduleItem, OrchestratorReturns, ItemSucceeds, ItemFails, EngineStep, mapVars
  <2> QED BY <2>1 DEF RunStarts, RunReturns, WaitForItems, ResultsInv, MapDone
<1>4. MapDone' => HowItEnded'
  BY NextEnded
<1>5. results' \subseteq ItemTask /\ \A t \in ItemTask : Succeeded(t)' => t \in results'
  BY NextStored
<1> QED BY <1>2, <1>3, <1>4, <1>5 DEF ResultsInv

(* What Map.Run hands out is final and true, for any number of items and   *)
(* whatever is cancelled when: nobody writes into the results any more, no *)
(* failure of an item is hidden behind nil, and nil with a result missing  *)
(* means that the context of the map's SubGroup ended.                     *)
THEOREM ResultsTrue == MapSpec => []ResultsAreTrue
<1>1. MapInit => ResultsInv
  BY DEF MapInit, Init, ResultsInv, MapDone, Succeeded, ItemTask
<1>2. MapInv /\ ResultsInv /\ [MapNext]_<<vars, mapVars>> => MapInv' /\ ResultsInv'
  BY NextResults, MapNextKeeps
<1>3. MapInv /\ ResultsInv /\ (TypeOK /\ WaitIsAJoin /\ Causes /\ Recorded) => ResultsAreTrue
  <2> SUFFICES ASSUME MapInv, ResultsInv, TypeOK, WaitIsAJoin, Causes, Recorded
               PROVE  ResultsAreTrue
    OBVIOUS
  <2>1. ASSUME caller \in {"ok", "err"}, NEW t \in ItemTask
        PROVE  /\ pc[t] \in {"unborn", "gone"}
               /\ caller = "ok" /\ pc[t] = "unborn" => Sub \in cancelled
               /\ caller = "ok" => err[t] \in {"none", "ctx"}
               /\ err[t] = "ctx" => Sub \in cancelled
    <3>1. t \in Task /\ Home[t] = Sub /\ Cause(t) /\ err[t] \in Errors /\ HowItEnded
      BY <2>1, ItemsOfSub DEF Causes, TypeOK, ResultsInv
    <3>2. CASE SubUnused /\ Sub \in cancelled
      BY <3>1, <3>2 DEF SubUnused, Cause
    <3>3. CASE verdict[Sub] = "ok" /\ Scheduled
      <4>1. pc[t] = "gone" /\ gerr[Sub] = NoTask
        BY <3>1, <3>3 DEF WaitIsAJoin, Scheduled, Recorded
      <4> QED BY <3>1, <4>1 DEF Cause, Errors
    <3>4. CASE verdict[Sub] = "err" /\ mapErr # "nil"
      BY <3>1, <3>4 DEF WaitIsAJoin, Cause, ResultsInv
    <3> QED BY <3>1, <3>2, <3>3, <3>4 DEF HowItEnded
  <2>2. ASSUME caller = "ok", results # ItemTask PROVE Sub \in cancelled
    <3>1. PICK t \in ItemTask : t \notin results
      BY <2>2 DEF ResultsInv
    <3>2. ~Succeeded(t)
      BY <3>1 DEF ResultsInv
    <3> QED BY <2>1, <2>2, <3>2 DEF Succeeded
  <2> QED BY <2>1, <2>2 DEF ResultsAreTrue, NoWriterAfterReturn, FailedItemReported,
      MissingOnlyIfCancelled
<1> QED BY <1>1, <1>2, <1>3, MapInitKeeps, RunsOnEngine, RecordedAlways, PTL DEF MapSpec
=============================================================================
