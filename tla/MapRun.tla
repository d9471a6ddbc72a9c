------------------------------- MODULE MapRun -------------------------------
(***************************************************************************)
(* Map.Run of pkg/taskgroup/map.go on the engine of TaskGroup: the caller  *)
(* schedules a Control orchestrator on its group; the orchestrator's fn    *)
(* creates a SubGroup, schedules one task per item and Waits; the caller   *)
(* waits for the orchestrator's fn and reads the results it left.          *)
(* Each.Run is Map.Run without results.                                    *)
(***************************************************************************)
EXTENDS TaskGroup

CONSTANTS
  Orch,     \* the orchestrator task, scheduled by the caller on Root
  Sub,      \* the SubGroup its fn creates
  Item,     \* Item[i]: the task of the i-th item
  Bystander \* other tasks of Root

ASSUME MapAssumption ==
  /\ Orch \in Task /\ Home[Orch] = Root /\ Kind[Orch] = Control
  /\ Sub \in Group \ {Root} /\ {g \in Group : Owner[g] = Orch} = {Sub}
  /\ Item \in Seq({t \in Task : Home[t] = Sub /\ Spawner[t] = Orch})
  /\ Bystander = {t \in Task : Home[t] = Root} \ {Orch}

VARIABLES
  orch,    \* "new", "create", "loop", "wait", then what the fn returned: "ok", "err"
  results, \* the items whose entry in the results slice was stored
  mapErr,  \* "nil", "tasks" (childGroup.Wait) or "ctx"
  caller   \* "before", "select", "ended", then what Run returned: "ok", "err"

mapVars == <<orch, results, mapErr, caller>>

ItemTask == {Item[i] : i \in DOMAIN Item}
NextItem == Cardinality({t \in ItemTask : pc[t] # "unborn"}) + 1

(* done is closed by the deferred call of the orchestrator's fn.           *)
MapDone == orch \in {"ok", "err"}

MapInit ==
  /\ Init
  /\ orch = "new" /\ results = {} /\ mapErr = "nil" /\ caller = "before"

RunStarts ==
  /\ caller = "before"
  /\ Go(Orch)
  /\ caller' = "select"
  /\ UNCHANGED <<orch, results, mapErr>>

----------------------------------------------------------------------------
(* The orchestrator's fn.                                                  *)

CreateSubGroup ==
  /\ orch = "new"
  /\ SubGroup(Sub)
  /\ orch' = "create"
  /\ UNCHANGED <<results, mapErr, caller>>

(* Mutation: done is closed at the end of fn, not by a deferred call.      *)
ReturnEarlySilently ==
  /\ orch = "create"
  /\ Sub \in cancelled
  /\ SetError(Orch, "fn")
  /\ UNCHANGED mapVars

(* childCtx.Err(): the SubGroup was born cancelled.  Nothing Waits for it. *)
ReturnEarly ==
  /\ orch = "create"
  /\ Sub \in cancelled
  /\ orch' = "err"
  /\ UNCHANGED <<vars, results, mapErr, caller>>

MakeResults ==
  /\ orch = "create"
  /\ Sub \notin cancelled
  /\ orch' = "loop"
  /\ UNCHANGED <<vars, results, mapErr, caller>>

ScheduleItem ==
  /\ orch = "loop"
  /\ NextItem \in DOMAIN Item
  /\ Go(Item[NextItem])
  /\ UNCHANGED mapVars

WaitForItems ==
  /\ orch = "loop"
  /\ NextItem \notin DOMAIN Item
  /\ Wait(Sub)
  /\ mapErr' = IF gerr[Sub] = NoTask THEN "nil" ELSE "tasks"
  /\ orch' = IF gerr[Sub] = NoTask THEN "ok" ELSE "err"
  /\ UNCHANGED <<results, caller>>

(* runTask records what the fn returned.  An early return leaves the empty *)
(* SubGroup open.                                                          *)
OrchestratorReturns ==
  /\ MapDone
  /\ pc[Orch] = "body"
  /\ IF orch = "ok"
       THEN /\ state' = [state EXCEPT ![Orch] = "Done"]
            /\ pc' = [pc EXCEPT ![Orch] = "release"]
            /\ UNCHANGED <<err, dep, collVars, slots, wg, groupVars>>
       ELSE SetError(Orch, "fn")
  /\ UNCHANGED mapVars

----------------------------------------------------------------------------
(* An item's fn stores its result, or fails.                               *)
ItemSucceeds(t) ==
  /\ FnReturns(t)
  /\ results' = results \cup {t}
  /\ UNCHANGED <<orch, mapErr, caller>>

ItemFails(t) == FnFails(t) /\ UNCHANGED mapVars

----------------------------------------------------------------------------
(* The caller's select, on done and on its own context.                    *)

(* Mutation: a done context ends Run without waiting for done.             *)
LeaveOnCancel ==
  /\ caller = "select"
  /\ \/ MapDone /\ caller' = (IF mapErr = "nil" THEN "ok" ELSE "err")
     \/ Root \in cancelled /\ caller' = "err"
  /\ UNCHANGED <<vars, orch, results, mapErr>>

RunReturns ==
  /\ caller = "select"
  /\ MapDone
  /\ \/ UNCHANGED mapErr
     \/ /\ Root \in cancelled
        /\ mapErr' = IF mapErr = "nil" THEN "ctx" ELSE mapErr
  /\ caller' = IF mapErr' = "nil" THEN "ok" ELSE "err"
  /\ UNCHANGED <<vars, orch, results>>

(* The command Waits for the root after its work.                          *)
CommandWaits ==
  /\ caller \in {"ok", "err"}
  /\ Wait(Root)
  /\ UNCHANGED mapVars

EngineStep ==
  /\ \/ \E t \in Task : Advance(t)
     \/ \E t \in Bystander : Go(t) \/ Return(t)
     \/ \E g \in Group : ContextEnds(g)
     \/ CommandEnded
  /\ UNCHANGED mapVars

Orchestrate ==
  /\ pc[Orch] = "body"
  /\ \/ CreateSubGroup \/ ReturnEarly \/ MakeResults
     \/ ScheduleItem \/ WaitForItems \/ OrchestratorReturns

MapNext ==
  \/ RunStarts \/ RunReturns \/ CommandWaits
  \/ Orchestrate
  \/ \E t \in ItemTask : ItemSucceeds(t) \/ ItemFails(t)
  \/ EngineStep

MapSpec == MapInit /\ [][MapNext]_<<vars, mapVars>>

(* Runnable goroutines run and the fn of every item returns.               *)
MapFairSpec ==
  /\ MapSpec
  /\ WF_<<vars, mapVars>>(RunReturns)
  /\ WF_<<vars, mapVars>>(Orchestrate)
  /\ \A t \in Task : WF_<<vars, mapVars>>(Advance(t) /\ UNCHANGED mapVars)
  /\ \A t \in ItemTask : WF_<<vars, mapVars>>(ItemSucceeds(t) \/ ItemFails(t))
  /\ \A t \in Bystander : WF_<<vars, mapVars>>(Return(t) /\ UNCHANGED mapVars)

----------------------------------------------------------------------------
Serial == \A i \in 2 .. Len(Item) : DepKeys[Item[i]] = <<Item[i - 1]>>

(* Run blocks until the map is over: when it returned, no item's goroutine *)
(* is left that could still write into the results it handed out.          *)
NoWriterAfterReturn ==
  caller \in {"ok", "err"} =>
    \A t \in ItemTask : pc[t] \in {"unborn", "gone"}

(* A failed item is never lost: Run returns an error.                      *)
FailedItemReported ==
  caller = "ok" => \A t \in ItemTask : err[t] \in {"none", "ctx"}

(* As far as the code makes it: nil with a result missing only happens     *)
(* when a context ended under the map.                                     *)
MissingOnlyIfCancelled ==
  caller = "ok" /\ results # ItemTask => Sub \in cancelled

(* What Run returns is final and true: nobody writes into it any more, no  *)
(* failure is hidden, nothing is missing without a reason.                 *)
ResultsAreTrue == NoWriterAfterReturn /\ FailedItemReported /\ MissingOnlyIfCancelled

(* Run returns, also when a bystander's failure cancels the group.         *)
RunEnds == caller = "select" ~> caller \in {"ok", "err"}

(* What Serial's comment says: items run one at a time, each child         *)
(* depending on the previous.  When no fn fails and no context ends, the   *)
(* map succeeds.                                                           *)
SerialMapSucceeds ==
  caller = "err" => \/ \E t \in Task : err[t] \in {"fn", "ctx"} /\ t # Orch
                    \/ MayEnd # {}
=============================================================================
