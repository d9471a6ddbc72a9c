---------------------------- MODULE TaskContract ----------------------------
(***************************************************************************)
(* What pkg/taskgroup promises the code that schedules work on it, without *)
(* locks, goroutines or bookkeeping: a task runs after every task it       *)
(* needs is done and only while its pool has room, a task is dropped only  *)
(* for a reason, and Wait's answer is justified by the tasks of the group. *)
(* TaskGroup implements this module.                                       *)
(***************************************************************************)
EXTENDS Integers, FiniteSets

CONSTANTS Task, Group, Root, Pool, Limit, Home, Kind, Below, NoTask

VARIABLES
  phase,    \* "idle", "pending", "running", "done" or "failed"
  needs,    \* the tasks a task depends on; NoTask is a need never met
  ended,    \* the groups whose context is over
  outcome   \* "absent", "open", then Wait's answer, "ok" or "err"

vars == <<phase, needs, ended, outcome>>

Members(g) == {t \in Task : Home[t] = g /\ phase[t] # "idle"}

InPool(p) == {t \in Task : Kind[t] = p /\ phase[t] = "running"}

Init ==
  /\ phase = [t \in Task |-> "idle"]
  /\ needs = [t \in Task |-> {}]
  /\ ended = {}
  /\ outcome = [g \in Group |-> IF g = Root THEN "open" ELSE "absent"]

Open(g) ==
  /\ outcome[g] = "absent"
  /\ outcome' = [outcome EXCEPT ![g] = "open"]
  /\ UNCHANGED <<phase, needs, ended>>

Schedule(t) ==
  /\ phase[t] = "idle"
  /\ outcome[Home[t]] = "open"
  /\ \E D \in SUBSET (Members(Home[t]) \cup {NoTask}) :
       needs' = [needs EXCEPT ![t] = D]
  /\ phase' = [phase EXCEPT ![t] = "pending"]
  /\ UNCHANGED <<ended, outcome>>

Start(t) ==
  /\ phase[t] = "pending"
  /\ \A u \in needs[t] : u # NoTask /\ phase[u] = "done"
  /\ Kind[t] \in Pool => Cardinality(InPool(Kind[t])) < Limit[Kind[t]]
  /\ phase' = [phase EXCEPT ![t] = "running"]
  /\ UNCHANGED <<needs, ended, outcome>>

Finish(t) ==
  /\ phase[t] = "running"
  /\ \E p \in {"done", "failed"} : phase' = [phase EXCEPT ![t] = p]
  /\ UNCHANGED <<needs, ended, outcome>>

(* Never run: a need that cannot be met any more, or a context that ended. *)
Drop(t) ==
  /\ phase[t] = "pending"
  /\ \/ NoTask \in needs[t]
     \/ \E u \in needs[t] : u # NoTask /\ phase[u] = "failed"
     \/ Home[t] \in ended
  /\ phase' = [phase EXCEPT ![t] = "failed"]
  /\ UNCHANGED <<needs, ended, outcome>>

End(g) ==
  /\ ended' = ended \cup Below[g]
  /\ UNCHANGED <<phase, needs, outcome>>

(* Wait answers once every task of the group is over: an error only if one *)
(* failed, nil only if all are done or the context ended under them.       *)
Settle(g) ==
  /\ outcome[g] = "open"
  /\ \A t \in Members(g) : phase[t] \in {"done", "failed"}
  /\ \/ /\ \E t \in Members(g) : phase[t] = "failed"
        /\ outcome' = [outcome EXCEPT ![g] = "err"]
        /\ ended' = ended \cup Below[g]
     \/ /\ g \in ended \/ \A t \in Members(g) : phase[t] = "done"
        /\ outcome' = [outcome EXCEPT ![g] = "ok"]
        /\ UNCHANGED ended
  /\ UNCHANGED <<phase, needs>>

Next ==
  \/ \E t \in Task : Schedule(t) \/ Start(t) \/ Finish(t) \/ Drop(t)
  \/ \E g \in Group : Open(g) \/ End(g) \/ Settle(g)

Spec == Init /\ [][Next]_vars
=============================================================================
