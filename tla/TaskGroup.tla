----------------------------- MODULE TaskGroup -----------------------------
(***************************************************************************)
(* The task engine of pkg/taskgroup: groups nested in one another, the     *)
(* goroutine runTask of every task, the pools of slots all groups share,   *)
(* the live collection that resolves dependency keys and prunes finished   *)
(* tasks, first-error-wins cancellation and Wait.                          *)
(*                                                                         *)
(* One step is one critical section (Group.mu, errOnce, a channel          *)
(* operation) of one goroutine.  A task's fn is abstract: it may create    *)
(* SubGroups, schedule tasks, Wait for the groups it owns and return nil   *)
(* or an error at any time.                                                *)
(***************************************************************************)
EXTENDS Integers, Sequences, FiniteSets

CONSTANTS
  Task,      \* the tasks Go may schedule
  Group,     \* the groups; Root is the one Enter creates
  Root,
  Pool,      \* the limited pools (IO, CPU, Internet)
  Limit,     \* Limit[p]: the number of slots of pool p
  Home,      \* Home[t]: the group on which Go(t) is called
  Kind,      \* Kind[t]: a pool, or Control
  Desc,      \* descriptions
  DescOf,    \* DescOf[t]: the display label of t
  DepKeys,   \* DepKeys[t]: the keys (ids or descriptions) passed to Go
  Spawner,   \* Spawner[t]: the task whose fn calls Go(t), or Main
  Owner,     \* Owner[g]: the task whose fn creates and Waits for g, or Main
  Below,     \* Below[g]: g and the groups whose context derives from g's
  MayEnd,    \* the groups whose context a caller or a deadline may end
  Main,      \* the command goroutine
  Control,   \* the unlimited PoolKind
  NoTask

ASSUME GroupAssumption ==
  /\ IsFiniteSet(Task)
  /\ Root \in Group
  /\ NoTask \notin Task
  /\ Main \notin Task
  /\ Control \notin Pool

ASSUME TableAssumption ==
  /\ Limit \in [Pool -> Nat]
  /\ Home \in [Task -> Group]
  /\ Kind \in [Task -> Pool \cup {Control}]
  /\ DescOf \in [Task -> Desc]
  /\ DepKeys \in [Task -> Seq(Task \cup Desc)]
  /\ Spawner \in [Task -> Task \cup {Main}]
  /\ Owner \in [Group -> Task \cup {Main}]
  /\ Below \in [Group -> SUBSET Group]
  /\ \A g \in Group : g \in Below[g]
  /\ MayEnd \subseteq Group

VARIABLES
  pc,        \* where the goroutine of a task is
  state,     \* taskEntry.state
  err,       \* taskEntry.err: "none", "fn", "dep", "unknown" or "ctx"
  pins,      \* taskEntry.resolvedDeps, NoTask where a key resolved to nothing
  dep,       \* the index of the dependency the goroutine waits for
  id,        \* taskEntry.id, a UUIDv7: 0 before Go, then increasing
  waiters,   \* taskEntry.waiters
  live,      \* TaskCollection.ByID of all groups
  latest,    \* TaskCollection.LatestByDesc of each group
  slots,     \* the length of each semaphore channel
  wg,        \* Group.wg
  gerr,      \* Group.err: the task whose error was recorded, or NoTask
  cancelled, \* the groups whose context is done
  verdict    \* "absent", "open", then what Wait returned: "ok" or "err"

taskVars == <<pc, state, err, dep>>
collVars == <<pins, id, waiters, live, latest>>
groupVars == <<gerr, cancelled, verdict>>
vars == <<taskVars, collVars, slots, wg, groupVars>>

PCs == {"unborn", "deps", "acquire", "body", "record", "release", "close",
        "prune", "wgdone", "gone"}
States == {"Pending", "Running", "Done", "Failed"}
Errors == {"none", "fn", "dep", "unknown", "ctx"}

(* done is closed: other goroutines receive from it.                       *)
DoneClosed(t) == pc[t] \in {"prune", "wgdone", "gone"}

Limited(t) == Kind[t] # Control

(* Between a successful acquire and the deferred release.                  *)
HoldsSlot(t) ==
  /\ Limited(t)
  /\ \/ pc[t] \in {"body", "release"}
     \/ pc[t] = "record" /\ err[t] = "fn"

Holders(p) == {t \in Task : Kind[t] = p /\ HoldsSlot(t)}

----------------------------------------------------------------------------
(* TaskCollection: operators on a live set.                                *)

Latest(S) == CHOOSE u \in S : \A v \in S : id[v] <= id[u]

Labelled(S, g, d) == {u \in S : Home[u] = g /\ DescOf[u] = d}

(* Lookup: the exact id, else the latest live task with that description. *)
Lookup(g, key) ==
  IF key \in Task
    THEN IF key \in live /\ Home[key] = g THEN key ELSE NoTask
    ELSE latest[g][key]

(* How many of t's pins point at u.                                        *)
PinsOn(t, u) == Cardinality({i \in DOMAIN pins[t] : pins[t][i] = u})

Positive(n) == IF n > 0 THEN n ELSE 0

(* Mutation: only the finished task itself is considered for pruning.      *)
PrunableSelf(t, w) ==
  {u \in live : u = t /\ state[u] \in {"Done", "Failed"} /\ w[u] = 0}

(* What ReleaseAndPrune(t) removes once t's pins are released.             *)
Prunable(t, w) ==
  {u \in live : /\ u = t \/ PinsOn(t, u) > 0
                /\ state[u] \in {"Done", "Failed"}
                /\ w[u] = 0}

(* LatestByDesc falls back to the newest task left when the latest goes.   *)
Restore(g, d, left) ==
  IF latest[g][d] = NoTask \/ latest[g][d] \in left THEN latest[g][d]
  ELSE IF Labelled(left, g, d) = {} THEN NoTask
  ELSE Latest(Labelled(left, g, d))

----------------------------------------------------------------------------
Init ==
  /\ pc = [t \in Task |-> "unborn"]
  /\ state = [t \in Task |-> "Pending"]
  /\ err = [t \in Task |-> "none"]
  /\ pins = [t \in Task |-> <<>>]
  /\ dep = [t \in Task |-> 1]
  /\ id = [t \in Task |-> 0]
  /\ waiters = [t \in Task |-> 0]
  /\ live = {}
  /\ latest = [g \in Group |-> [d \in Desc |-> NoTask]]
  /\ slots = [p \in Pool |-> 0]
  /\ wg = [g \in Group |-> 0]
  /\ gerr = [g \in Group |-> NoTask]
  /\ cancelled = {}
  /\ verdict = [g \in Group |-> IF g = Root THEN "open" ELSE "absent"]

(* Who may act: the command before its Wait, or a task inside its fn.      *)
InBody(who) == IF who \in Task THEN pc[who] = "body" ELSE verdict[Root] = "open"

(* SubGroup: a fn derives a child group from its own context.              *)
SubGroup(g) ==
  /\ verdict[g] = "absent"
  /\ InBody(Owner[g])
  /\ verdict' = [verdict EXCEPT ![g] = "open"]
  /\ UNCHANGED <<taskVars, collVars, slots, wg, gerr, cancelled>>

(* Go: under Group.mu, a fresh id, PinDeps, Add and wg.Add; then the       *)
(* goroutine starts.  Only an id that Go returned can be named as a key.   *)
Go(t) ==
  LET g == Home[t]
      p == [i \in DOMAIN DepKeys[t] |-> Lookup(g, DepKeys[t][i])]
  IN  /\ pc[t] = "unborn"
      /\ verdict[g] = "open"
      /\ InBody(Spawner[t])
      /\ \A i \in DOMAIN DepKeys[t] :
           DepKeys[t][i] \in Task => id[DepKeys[t][i]] # 0
      /\ id' = [id EXCEPT ![t] = 1 + Cardinality({u \in Task : id[u] # 0})]
      /\ pins' = [pins EXCEPT ![t] = p]
      /\ waiters' = [u \in Task |->
           waiters[u] + Cardinality({i \in DOMAIN p : p[i] = u})]
      /\ live' = live \cup {t}
      /\ latest' = [latest EXCEPT ![g][DescOf[t]] = t]
      /\ wg' = [wg EXCEPT ![g] = @ + 1]
      /\ pc' = [pc EXCEPT ![t] = "deps"]
      /\ UNCHANGED <<state, err, dep, slots, groupVars>>

(* setError; the error is then recorded on the group unless it is the      *)
(* context's own.                                                          *)
SetError(t, e) ==
  /\ state' = [state EXCEPT ![t] = "Failed"]
  /\ err' = [err EXCEPT ![t] = e]
  /\ pc' = [pc EXCEPT ![t] = IF e = "ctx" THEN "close" ELSE "record"]
  /\ UNCHANGED <<dep, collVars, slots, wg, groupVars>>

Unresolved(t) == \E i \in DOMAIN pins[t] : pins[t][i] = NoTask

UnknownDependency(t) ==
  /\ pc[t] = "deps"
  /\ Unresolved(t)
  /\ SetError(t, "unknown")

(* The dependency waited for, once all keys resolved.                      *)
WaitsFor(t, u) ==
  /\ pc[t] = "deps"
  /\ ~Unresolved(t)
  /\ dep[t] \in DOMAIN pins[t]
  /\ u = pins[t][dep[t]]

(* Mutation: the dependency's error is not looked at.                      *)
DependencyDoneUnchecked(t) ==
  \E u \in Task :
    /\ WaitsFor(t, u)
    /\ DoneClosed(u)
    /\ dep' = [dep EXCEPT ![t] = @ + 1]
    /\ UNCHANGED <<pc, state, err, collVars, slots, wg, groupVars>>

DependencyDone(t) ==
  \E u \in Task :
    /\ WaitsFor(t, u)
    /\ DoneClosed(u)
    /\ err[u] = "none"
    /\ dep' = [dep EXCEPT ![t] = @ + 1]
    /\ UNCHANGED <<pc, state, err, collVars, slots, wg, groupVars>>

DependencyFailed(t) ==
  \E u \in Task :
    /\ WaitsFor(t, u)
    /\ DoneClosed(u)
    /\ err[u] # "none"
    /\ SetError(t, "dep")

(* The other arm of the same select: either may win when both are ready.   *)
DependencyCancelled(t) ==
  /\ \E u \in Task : WaitsFor(t, u)
  /\ Home[t] \in cancelled
  /\ SetError(t, "ctx")

DependenciesMet(t) ==
  /\ pc[t] = "deps"
  /\ ~Unresolved(t)
  /\ dep[t] \notin DOMAIN pins[t]
  /\ pc' = [pc EXCEPT ![t] = "acquire"]
  /\ UNCHANGED <<state, err, dep, collVars, slots, wg, groupVars>>

(* acquire then setState(Running).  A Control task takes no slot and does  *)
(* not look at the context; a slot may be won although the group is        *)
(* already cancelled.                                                      *)
Acquire(t) ==
  /\ pc[t] = "acquire"
  /\ Limited(t) => slots[Kind[t]] < Limit[Kind[t]]
  /\ slots' = IF Limited(t) THEN [slots EXCEPT ![Kind[t]] = @ + 1] ELSE slots
  /\ state' = [state EXCEPT ![t] = "Running"]
  /\ pc' = [pc EXCEPT ![t] = "body"]
  /\ UNCHANGED <<err, dep, collVars, wg, groupVars>>

(* Mutation: release is deferred although acquire failed.                  *)
AcquireCancelledReleases(t) ==
  /\ pc[t] = "acquire"
  /\ Limited(t)
  /\ Home[t] \in cancelled
  /\ state' = [state EXCEPT ![t] = "Failed"]
  /\ err' = [err EXCEPT ![t] = "ctx"]
  /\ pc' = [pc EXCEPT ![t] = "release"]
  /\ UNCHANGED <<dep, collVars, slots, wg, groupVars>>

AcquireCancelled(t) ==
  /\ pc[t] = "acquire"
  /\ Limited(t)
  /\ Home[t] \in cancelled
  /\ SetError(t, "ctx")

(* fn has Waited for every group on which it scheduled work (Isolate, Map; *)
(* Map may leave a SubGroup that was born cancelled unused).               *)
MayReturn(t) ==
  /\ pc[t] = "body"
  /\ \A g \in Group : Owner[g] = t /\ verdict[g] = "open" =>
       \A u \in Task : Home[u] = g => pc[u] = "unborn"

FnReturns(t) ==
  /\ MayReturn(t)
  /\ state' = [state EXCEPT ![t] = "Done"]
  /\ pc' = [pc EXCEPT ![t] = "release"]
  /\ UNCHANGED <<err, dep, collVars, slots, wg, groupVars>>

FnFails(t) == MayReturn(t) /\ SetError(t, "fn")

(* Mutation: without errOnce the last error wins.                          *)
RecordLastError(t) ==
  /\ pc[t] = "record"
  /\ gerr' = [gerr EXCEPT ![Home[t]] = t]
  /\ cancelled' = cancelled \cup Below[Home[t]]
  /\ pc' = [pc EXCEPT ![t] = IF err[t] = "fn" THEN "release" ELSE "close"]
  /\ UNCHANGED <<state, err, dep, collVars, slots, wg, verdict>>

(* Mutation: a SubGroup shares the cancel function of its parent.          *)
RecordErrorEverywhere(t) ==
  /\ pc[t] = "record"
  /\ IF gerr[Home[t]] = NoTask
       THEN gerr' = [gerr EXCEPT ![Home[t]] = t] /\ cancelled' = Group
       ELSE UNCHANGED <<gerr, cancelled>>
  /\ pc' = [pc EXCEPT ![t] = IF err[t] = "fn" THEN "release" ELSE "close"]
  /\ UNCHANGED <<state, err, dep, collVars, slots, wg, verdict>>

(* recordError: errOnce keeps the first error and cancels the context, and *)
(* with it every context derived from it.                                  *)
RecordError(t) ==
  LET g == Home[t]
  IN  /\ pc[t] = "record"
      /\ IF gerr[g] = NoTask
           THEN /\ gerr' = [gerr EXCEPT ![g] = t]
                /\ cancelled' = cancelled \cup Below[g]
           ELSE UNCHANGED <<gerr, cancelled>>
      /\ pc' = [pc EXCEPT ![t] = IF err[t] = "fn" THEN "release" ELSE "close"]
      /\ UNCHANGED <<state, err, dep, collVars, slots, wg, verdict>>

(* The deferred calls, last registered first: release, finishTask (close   *)
(* done, then prune under Group.mu), wg.Done.                              *)
ReleaseSlot(t) ==
  /\ pc[t] = "release"
  /\ slots' = IF Limited(t) THEN [slots EXCEPT ![Kind[t]] = @ - 1] ELSE slots
  /\ pc' = [pc EXCEPT ![t] = "close"]
  /\ UNCHANGED <<state, err, dep, collVars, wg, groupVars>>

(* Mutation: finishTask also calls wg.Done.                                *)
CloseDoneTwice(t) ==
  /\ pc[t] = "close"
  /\ wg' = [wg EXCEPT ![Home[t]] = @ - 1]
  /\ pc' = [pc EXCEPT ![t] = "prune"]
  /\ UNCHANGED <<state, err, dep, collVars, slots, groupVars>>

CloseDone(t) ==
  /\ pc[t] = "close"
  /\ pc' = [pc EXCEPT ![t] = "prune"]
  /\ UNCHANGED <<state, err, dep, collVars, slots, wg, groupVars>>

ReleaseAndPrune(t) ==
  LET w == [u \in Task |-> Positive(waiters[u] - PinsOn(t, u))]
      left == live \ Prunable(t, w)
  IN  /\ pc[t] = "prune"
      /\ waiters' = w
      /\ live' = left
      /\ latest' = [g \in Group |-> [d \in Desc |-> Restore(g, d, left)]]
      /\ pc' = [pc EXCEPT ![t] = "wgdone"]
      /\ UNCHANGED <<state, err, dep, pins, id, slots, wg, groupVars>>

(* Mutation: an early return skips wg.Done.                                *)
WgDoneOnSuccess(t) ==
  /\ pc[t] = "wgdone"
  /\ wg' = IF err[t] = "none" THEN [wg EXCEPT ![Home[t]] = @ - 1] ELSE wg
  /\ pc' = [pc EXCEPT ![t] = "gone"]
  /\ UNCHANGED <<state, err, dep, collVars, slots, groupVars>>

WgDone(t) ==
  /\ pc[t] = "wgdone"
  /\ wg' = [wg EXCEPT ![Home[t]] = @ - 1]
  /\ pc' = [pc EXCEPT ![t] = "gone"]
  /\ UNCHANGED <<state, err, dep, collVars, slots, groupVars>>

(* Mutation: Wait does not wait.                                           *)
WaitAtOnce(g) ==
  /\ verdict[g] = "open"
  /\ InBody(Owner[g])
  /\ verdict' = [verdict EXCEPT ![g] = IF gerr[g] = NoTask THEN "ok" ELSE "err"]
  /\ UNCHANGED <<taskVars, collVars, slots, wg, gerr, cancelled>>

(* Wait returns once the counter is zero; it cancels only after an error.  *)
(* The command Waits for the root last (Session.Close).                    *)
Wait(g) ==
  /\ verdict[g] = "open"
  /\ InBody(Owner[g])
  /\ wg[g] = 0
  /\ g = Root => \A h \in Group \ {Root} : Owner[h] = Main => verdict[h] # "open"
  /\ IF gerr[g] = NoTask
       THEN /\ verdict' = [verdict EXCEPT ![g] = "ok"]
            /\ UNCHANGED cancelled
       ELSE /\ verdict' = [verdict EXCEPT ![g] = "err"]
            /\ cancelled' = cancelled \cup Below[g]
  /\ UNCHANGED <<taskVars, collVars, slots, wg, gerr>>

(* Its creator, a deadline or an ancestor ends the context of the group.   *)
ContextEnds(g) ==
  /\ g \in MayEnd
  /\ verdict[g] = "open"
  /\ g \notin cancelled
  /\ cancelled' = cancelled \cup Below[g]
  /\ UNCHANGED <<taskVars, collVars, slots, wg, gerr, verdict>>

(* The command ended: the process may stop.                                *)
CommandEnded == verdict[Root] \notin {"absent", "open"} /\ UNCHANGED vars

(* Every step of the goroutine of t that does not depend on its fn.        *)
Advance(t) ==
  \/ UnknownDependency(t) \/ DependencyDone(t) \/ DependencyFailed(t)
  \/ DependencyCancelled(t) \/ DependenciesMet(t)
  \/ Acquire(t) \/ AcquireCancelled(t)
  \/ RecordError(t) \/ ReleaseSlot(t) \/ CloseDone(t)
  \/ ReleaseAndPrune(t) \/ WgDone(t)

Return(t) == FnReturns(t) \/ FnFails(t)

Next ==
  \/ \E t \in Task : Go(t) \/ Advance(t) \/ Return(t)
  \/ \E g \in Group : SubGroup(g) \/ Wait(g) \/ ContextEnds(g)
  \/ CommandEnded

Spec == Init /\ [][Next]_vars

(* Go's scheduler runs every runnable goroutine; a fn that is not stuck    *)
(* returns; a goroutine blocked in Wait wakes up when the counter is zero. *)
FairSpec ==
  /\ Spec
  /\ \A t \in Task : WF_vars(Advance(t)) /\ WF_vars(Return(t))
  /\ \A g \in Group : WF_vars(Wait(g))
----------------------------------------------------------------------------
(* Every variable has its type: the goroutines, the collection, the        *)
(* semaphores and the groups of taskgroup.go.                              *)
TypeOK ==
  /\ pc \in [Task -> PCs]
  /\ state \in [Task -> States]
  /\ err \in [Task -> Errors]
  /\ pins \in [Task -> Seq(Task \cup {NoTask})]
  /\ dep \in [Task -> Nat \ {0}]
  /\ id \in [Task -> Nat]
  /\ waiters \in [Task -> Nat]
  /\ live \subseteq Task
  /\ latest \in [Group -> [Desc -> Task \cup {NoTask}]]
  /\ slots \in [Pool -> Nat]
  /\ wg \in [Group -> Nat]
  /\ gerr \in [Group -> Task \cup {NoTask}]
  /\ cancelled \subseteq Group
  /\ verdict \in [Group -> {"absent", "open", "ok", "err"}]

(* A semaphore holds exactly one token per task between acquire and        *)
(* release, whatever mix of groups shares it, and never more than its      *)
(* limit: no path out of runTask leaks a slot or returns one it never had. *)
PoolAccounting ==
  \A p \in Pool :
    /\ slots[p] = Cardinality(Holders(p))
    /\ slots[p] <= Limit[p]

(* fn runs only when every dependency key resolved and every task pinned   *)
(* for it finished without an error, also when the context was cancelled   *)
(* while the select had both arms ready.                                   *)
RunsAfterDependencies ==
  \A t \in Task :
    pc[t] \in {"acquire", "body", "release"} =>
      \A i \in DOMAIN DepKeys[t] :
        /\ i \in DOMAIN pins[t]
        /\ pins[t][i] \in Task
        /\ DoneClosed(pins[t][i])
        /\ state[pins[t][i]] = "Done"

(* waiters counts the pins of tasks that have not been through             *)
(* ReleaseAndPrune, so a pinned task stays resolvable by its id as long as *)
(* a dependent may wait on it, and the saturating decrement never hides a  *)
(* lost pin.                                                               *)
WaitersExact ==
  \A u \in Task :
    /\ waiters[u] = Cardinality(
         {x \in UNION {{t} \X DOMAIN pins[t] : t \in Task} :
            pins[x[1]][x[2]] = u /\ pc[x[1]] \notin {"unborn", "wgdone", "gone"}})
    /\ waiters[u] > 0 => u \in live

(* A finished task nobody waits for leaves the collection, so at the end   *)
(* the live set is empty whatever order the tasks finished in; a task that *)
(* is not over never leaves it.  (A dependent cut off by the context may   *)
(* prune a task that is over but has not closed done yet.)                 *)
NoLingeringTask ==
  \A t \in Task :
    /\ pc[t] \in {"wgdone", "gone"} /\ waiters[t] = 0 => t \notin live
    /\ pc[t] # "unborn" /\ state[t] \in {"Pending", "Running"} => t \in live

(* A description resolves to the most recently scheduled live task that    *)
(* carries it, also after the newest ones were pruned out of order.        *)
LatestIsNewest ==
  \A g \in Group, d \in Desc :
    LET labelled == Labelled(live, g, d)
    IN  latest[g][d] = IF labelled = {} THEN NoTask ELSE Latest(labelled)

(* The collection is exact: it holds every task that may still be named    *)
(* and no other, and resolves a description as Go's caller expects.        *)
CollectionExact == WaitersExact /\ NoLingeringTask /\ LatestIsNewest

(* Once Wait returned, nothing of the group is left: every scheduled task  *)
(* ran its deferred calls, so its slot is back and its done is closed.     *)
WaitIsAJoin ==
  \A g \in Group, t \in Task :
    verdict[g] \in {"ok", "err"} /\ Home[t] = g => pc[t] \in {"unborn", "gone"}

(* Wait's nil is truthful as far as the code makes it: every task of the   *)
(* group is done, unless the group's context ended before they could run.  *)
NilVerdictJustified ==
  \A g \in Group, t \in Task :
    verdict[g] = "ok" /\ Home[t] = g /\ state[t] = "Failed" =>
      err[t] = "ctx" /\ g \in cancelled

(* First error wins means the root cause wins: if the recorded error only  *)
(* says a dependency failed, that dependency was itself cut off by the     *)
(* context; the failure of a fn is never masked by a dependent's error.    *)
RootCauseRecorded ==
  \A g \in Group, u \in Task :
    gerr[g] = u /\ err[u] = "dep" =>
      \E i \in DOMAIN pins[u] : err[pins[u][i]] = "ctx"

(* Wait neither calls a failed group good nor blames the wrong task.       *)
VerdictIsTrue == NilVerdictJustified /\ RootCauseRecorded

(* Isolate: a SubGroup's failure cancels that group and what derives from  *)
(* it; a group is cancelled only because its own context, or one it        *)
(* derives from, was ended or had an error recorded by a task of its own.  *)
FailureStaysBelow ==
  \A g \in cancelled :
    \E h \in Group : /\ g \in Below[h]
                     /\ h \in MayEnd \/ (gerr[h] # NoTask /\ Home[gerr[h]] = h)

(* Every Wait returns, the command's too, so the tasks it joins end: no    *)
(* group is left waiting on a slot held by a task that waits for that      *)
(* group.                                                                  *)
EveryWaitReturns ==
  \A g \in Group :
    verdict[g] = "open" ~> verdict[g] \in {"ok", "err"} \/ ~InBody(Owner[g])

----------------------------------------------------------------------------
(* The contract TaskGroup implements.                                      *)
Phase(t) ==
  CASE pc[t] = "unborn" -> "idle"
    [] pc[t] \in {"deps", "acquire"} -> "pending"
    [] pc[t] \in {"body", "release"} -> "running"
    [] pc[t] = "record" /\ err[t] = "fn" -> "running"
    [] OTHER -> IF err[t] = "none" THEN "done" ELSE "failed"

PinnedTasks(t) == {pins[t][i] : i \in DOMAIN pins[t]}

Contract == INSTANCE TaskContract WITH
  phase <- [t \in Task |-> Phase(t)],
  needs <- [t \in Task |-> PinnedTasks(t)],
  ended <- cancelled,
  outcome <- verdict

(* Every step of the engine is a step of the contract or a stutter.        *)
ImplementsContract == Contract!Spec
=============================================================================
