--------------------------- MODULE Session_proofs ---------------------------
(***************************************************************************)
(* Proofs about Session for any set of tasks, whatever they say, register  *)
(* and return, and however rude the user and the children are.             *)
(***************************************************************************)
EXTENDS Session, SequenceTheorems, TLAPS

Stages ==
  {"pre", "run", "wait", "restore", "drain", "abandon", "quit", "hooks", "exited"}
Ways ==
  {"unsaid", "printf", "row", "pipe", "pipe row", "copying", "shown", "dropped"}

SessTypeOK ==
  /\ main \in Stages
  /\ ui \in {"none", "on", "off"} /\ wantUI \in BOOLEAN
  /\ stderr \in {"real", "pipe"} /\ flags \in {"saved", "raw"}
  /\ task \in [Task -> {"none", "running", "done", "failed"}]
  /\ text \in [Task -> Ways]
  /\ result \in {"ok", "task", "hook", "command"}

HooksTypeOK == after \in Seq(Task) /\ ran \in Seq(Task)

(* Of the steps that touch the hooks the other variables see this much.    *)
LEMMA HooksAside ==
  /\ \A ok \in BOOLEAN :
       RunHook(ok) => /\ main = "hooks" /\ result' \in {result, IF result = "ok" THEN "hook" ELSE result}
                      /\ UNCHANGED <<main, ui, wantUI, stderr, flags, task, text, after>>
  /\ \A t \in Task :
       AfterWait(t) => UNCHANGED <<main, ui, wantUI, stderr, flags, task, text, ran, result>>
BY DEF RunHook, AfterWait

LEMMA HooksTypeStep ==
  ASSUME HooksTypeOK, [SessNext]_sessVars
  PROVE  HooksTypeOK'
<1>1. ASSUME NEW ok \in BOOLEAN, RunHook(ok) PROVE HooksTypeOK'
  <2>1. Len(ran) < Len(after) /\ ran' = Append(ran, after[Len(ran) + 1]) /\ after' = after
    BY <1>1 DEF RunHook
  <2> QED BY <2>1 DEF HooksTypeOK
<1>2. ASSUME NEW t \in Task, AfterWait(t) PROVE HooksTypeOK'
  <2>1. after' = Append(after, t) /\ ran' = ran
    BY <1>2 DEF AfterWait
  <2> QED BY <2>1 DEF HooksTypeOK
<1>3. CASE UNCHANGED <<after, ran>>
  BY <1>3 DEF HooksTypeOK
<1>4. \/ \E ok \in BOOLEAN : RunHook(ok)
      \/ \E t \in Task : AfterWait(t)
      \/ UNCHANGED <<after, ran>>
  BY DEF SessNext, Close, sessVars, Enter, CtrlC, Wait, RestoreOutput, Drained, AbandonAll, QuitUI,
         Exit, RunEReturns, Schedule, Copy, UIPrints, CloseWriter, Linger, ChildExits, Say, TaskEnds
<1> QED BY <1>1, <1>2, <1>3, <1>4

LEMMA SessTypeStep ==
  ASSUME SessTypeOK, [SessNext]_sessVars
  PROVE  SessTypeOK'
<1> USE DEF SessTypeOK, Stages, Ways
<1>1. CASE Enter \/ CtrlC
  BY <1>1 DEF Enter, CtrlC
<1>2. CASE Wait \/ RestoreOutput \/ Drained \/ AbandonAll \/ QuitUI \/ Exit
  BY <1>2 DEF Wait, RestoreOutput, Drained, AbandonAll, QuitUI, Exit
<1>3. ASSUME NEW ok \in BOOLEAN, RunHook(ok) PROVE SessTypeOK'
  BY <1>3, HooksAside
<1>4. ASSUME NEW ok \in BOOLEAN, RunEReturns(ok) PROVE SessTypeOK'
  BY <1>4 DEF RunEReturns
<1>5. ASSUME NEW t \in Task, Schedule(t) \/ AfterWait(t) \/ Copy(t) \/ UIPrints(t)
      PROVE  SessTypeOK'
  BY ZenonT(30), <1>5, HooksAside DEF Schedule, Copy, UIPrints
<1>6. ASSUME NEW t \in Task, CloseWriter(t) \/ Linger(t) \/ ChildExits(t) PROVE SessTypeOK'
  BY <1>6 DEF CloseWriter, Linger, ChildExits
<1>7. ASSUME NEW t \in Task, NEW b \in BOOLEAN, Say(t, b) \/ TaskEnds(t, b) PROVE SessTypeOK'
  BY <1>7 DEF Say, TaskEnds
<1>8. CASE UNCHANGED sessVars
  BY <1>8 DEF sessVars
<1> QED BY <1>1, <1>2, <1>3, <1>4, <1>5, <1>6, <1>7, <1>8 DEF SessNext, Close

----------------------------------------------------------------------------
(* Where a line can be depends on how far the invocation has come.         *)

(* Close has got to a stage, or the process exited at the end of Close.    *)
Reached(stages) == main \in stages \/ Closed

(* The UI is up before the first task runs, and a line waits for the UI    *)
(* only in a process that has one.                                         *)
UIFirst ==
  /\ main = "pre" => \A t \in Task : ~Live(t)
  /\ ui = "none" => /\ stderr = "real" /\ flags = "saved"
                    /\ \A t \in Task : text[t] \in {"unsaid", "shown", "dropped"}
  /\ wantUI /\ ui = "none" => \A t \in Task : ~Live(t)
  /\ \A t \in Task : /\ text[t] = "printf" => Live(t)
                     /\ text[t] = "dropped" => ~wantUI /\ t \in Partial

(* Each stage of Close has done its part for the stages after it.          *)
StagesDone ==
  /\ Reached({"restore", "drain", "abandon", "quit", "hooks"}) => \A t \in Task : ~Live(t)
  /\ Reached({"drain", "abandon", "quit", "hooks"}) => stderr = "real"
  /\ Reached({"abandon", "quit", "hooks"}) => \A t \in Task : text[t] \notin {"pipe", "copying"}
  /\ Reached({"quit", "hooks"}) => \A t \in Task : text[t] \in {"unsaid", "shown", "dropped"}
  /\ Reached({"hooks"}) => ui # "on" /\ flags = "saved"

(* The hooks that ran are the first of those registered.                   *)
HooksInOrder ==
  /\ Len(ran) <= Len(after) /\ \A i \in 1 .. Len(ran) : ran[i] = after[i]
  /\ ran # <<>> => Reached({"hooks"})
  /\ Closed => Len(ran) = Len(after)

(* A task's error is not overwritten.                                      *)
FirstErrorCounts ==
  /\ result = "command" => main = "exited"
  /\ result = "hook" => Reached({"hooks"})
  /\ (\E t \in Task : task[t] = "failed") => result \in {"task", "command"}

SessInv == SessTypeOK /\ HooksTypeOK /\ UIFirst /\ StagesDone /\ HooksInOrder /\ FirstErrorCounts

LEMMA UIFirstStep ==
  ASSUME SessTypeOK, UIFirst, [SessNext]_sessVars
  PROVE  UIFirst'
<1>0. ASSUME UNCHANGED <<ui, wantUI, stderr, flags, task, text>>, main' # "pre" PROVE UIFirst'
  BY <1>0 DEF UIFirst, Live
<1> USE DEF SessTypeOK, Stages, Ways, UIFirst, Live
<1>1. CASE Enter
  BY <1>1 DEF Enter
<1>2. CASE CtrlC
  BY <1>2 DEF CtrlC
<1>3. CASE Wait
  BY <1>3 DEF Wait
<1>4. CASE RestoreOutput
  BY <1>4 DEF RestoreOutput
<1>5. CASE Drained \/ Exit
  BY <1>0, <1>5 DEF Drained, Exit
<1>6. CASE AbandonAll
  BY <1>6 DEF AbandonAll, Rows
<1>7. CASE QuitUI
  BY <1>7 DEF QuitUI
<1>8. ASSUME NEW ok \in BOOLEAN, RunHook(ok) \/ RunEReturns(ok) PROVE UIFirst'
  BY <1>8, HooksAside DEF RunEReturns
<1>9. ASSUME NEW t \in Task, Schedule(t) PROVE UIFirst'
  BY <1>9 DEF Schedule
<1>10. ASSUME NEW t \in Task, AfterWait(t) PROVE UIFirst'
  BY <1>10, HooksAside
<1>11. ASSUME NEW t \in Task, Copy(t) PROVE UIFirst'
  BY <1>11 DEF Copy
<1>12. ASSUME NEW t \in Task, CloseWriter(t) PROVE UIFirst'
  BY <1>12 DEF CloseWriter
<1>13. ASSUME NEW t \in Task, UIPrints(t) PROVE UIFirst'
  BY <1>13 DEF UIPrints
<1>14. ASSUME NEW t \in Task, NEW b \in BOOLEAN, Say(t, b) PROVE UIFirst'
  BY <1>14 DEF Say
<1>15. ASSUME NEW t \in Task, NEW b \in BOOLEAN, TaskEnds(t, b) PROVE UIFirst'
  BY <1>15 DEF TaskEnds, Blocked
<1>16. CASE UNCHANGED <<main, ui, wantUI, stderr, flags, task, text>>
  BY <1>16
<1>17. ASSUME NEW t \in Task, Linger(t) \/ ChildExits(t) PROVE UIFirst'
  BY <1>16, <1>17 DEF Linger, ChildExits
<1> QED
  BY <1>1, <1>2, <1>3, <1>4, <1>5, <1>6, <1>7, <1>8, <1>9, <1>10, <1>11, <1>12, <1>13, <1>14, <1>15,
     <1>16, <1>17
  DEF SessNext, Close, sessVars

LEMMA StagesDoneStep ==
  ASSUME SessTypeOK, UIFirst, StagesDone, FirstErrorCounts, [SessNext]_sessVars
  PROVE  StagesDone'
<1> USE DEF SessTypeOK, Stages, Ways, UIFirst, StagesDone, Reached, Closed, Live
<1>1. CASE Enter \/ CtrlC
  BY <1>1 DEF Enter, CtrlC
<1>2. CASE Wait \/ RestoreOutput \/ Drained \/ QuitUI \/ Exit
  BY <1>2 DEF Wait, RestoreOutput, Drained, QuitUI, Exit, FirstErrorCounts
<1>3. CASE AbandonAll
  BY <1>3 DEF AbandonAll, Rows
<1>4. ASSUME NEW ok \in BOOLEAN, RunHook(ok) \/ RunEReturns(ok) PROVE StagesDone'
  BY <1>4, HooksAside DEF RunEReturns
<1>5. ASSUME NEW t \in Task, Schedule(t) PROVE StagesDone'
  BY <1>5 DEF Schedule, SessNext
<1>6. ASSUME NEW t \in Task, AfterWait(t) \/ Copy(t) \/ UIPrints(t) PROVE StagesDone'
  BY <1>6, HooksAside DEF Copy, UIPrints
<1>7. ASSUME NEW t \in Task, CloseWriter(t) \/ Linger(t) \/ ChildExits(t) PROVE StagesDone'
  BY <1>7 DEF CloseWriter, Linger, ChildExits
<1>8. ASSUME NEW t \in Task, NEW b \in BOOLEAN, Say(t, b) PROVE StagesDone'
  BY <1>8 DEF Say
<1>9. ASSUME main # "exited", NEW t \in Task, NEW b \in BOOLEAN, TaskEnds(t, b) PROVE StagesDone'
  BY <1>9 DEF TaskEnds
<1>10. CASE UNCHANGED sessVars
  BY <1>10 DEF sessVars
<1> QED
  BY <1>1, <1>2, <1>3, <1>4, <1>5, <1>6, <1>7, <1>8, <1>9, <1>10 DEF SessNext, Close

LEMMA FirstErrorStep ==
  ASSUME SessTypeOK, StagesDone, FirstErrorCounts, [SessNext]_sessVars
  PROVE  FirstErrorCounts'
<1> USE DEF SessTypeOK, FirstErrorCounts, Reached, Closed
<1>1. CASE Enter \/ CtrlC
  BY <1>1 DEF Enter, CtrlC
<1>2. CASE Wait \/ RestoreOutput \/ Drained \/ AbandonAll \/ QuitUI \/ Exit
  BY <1>2 DEF Wait, RestoreOutput, Drained, AbandonAll, QuitUI, Exit
<1>3. ASSUME NEW ok \in BOOLEAN, RunHook(ok) PROVE FirstErrorCounts'
  BY <1>3, HooksAside
<1>4. ASSUME NEW ok \in BOOLEAN, RunEReturns(ok) PROVE FirstErrorCounts'
  BY <1>4 DEF RunEReturns
<1>5. ASSUME NEW t \in Task, Schedule(t) PROVE FirstErrorCounts'
  BY <1>5 DEF Schedule
<1>6. ASSUME NEW t \in Task, AfterWait(t) \/ Copy(t) \/ UIPrints(t) PROVE FirstErrorCounts'
  BY <1>6, HooksAside DEF Copy, UIPrints
<1>7. ASSUME NEW t \in Task, CloseWriter(t) \/ Linger(t) \/ ChildExits(t) PROVE FirstErrorCounts'
  BY <1>7 DEF CloseWriter, Linger, ChildExits
<1>8. ASSUME NEW t \in Task, NEW b \in BOOLEAN, Say(t, b) PROVE FirstErrorCounts'
  BY <1>8 DEF Say
<1>9. ASSUME main # "exited", NEW t \in Task, NEW b \in BOOLEAN, TaskEnds(t, b)
      PROVE  FirstErrorCounts'
  BY <1>9 DEF TaskEnds, StagesDone, Live
<1>10. CASE UNCHANGED sessVars
  BY <1>10 DEF sessVars
<1> QED
  BY <1>1, <1>2, <1>3, <1>4, <1>5, <1>6, <1>7, <1>8, <1>9, <1>10 DEF SessNext, Close

LEMMA HooksInOrderStep ==
  ASSUME HooksTypeOK, SessTypeOK, StagesDone, FirstErrorCounts, HooksInOrder, [SessNext]_sessVars
  PROVE  HooksInOrder'
<1> USE DEF HooksInOrder
<1>1. ASSUME NEW ok \in BOOLEAN, RunHook(ok) PROVE HooksInOrder'
  <2>1. /\ main = "hooks" /\ main' = main /\ after' = after
        /\ Len(ran) < Len(after) /\ ran' = Append(ran, after[Len(ran) + 1])
    BY <1>1 DEF RunHook
  <2>2. after \in Seq(Task) /\ ran \in Seq(Task)
    BY DEF HooksTypeOK
  <2>3. /\ Len(ran') = Len(ran) + 1
        /\ \A i \in 1 .. Len(ran) : ran'[i] = ran[i]
        /\ ran'[Len(ran) + 1] = after[Len(ran) + 1]
    BY <2>1, <2>2
  <2>4. Len(ran) \in Nat /\ Len(after) \in Nat
    BY <2>2
  <2>5. Len(ran') <= Len(after') /\ \A i \in 1 .. Len(ran') : ran'[i] = after'[i]
    BY <2>1, <2>3, <2>4
  <2>6. Reached({"hooks"})' /\ ~Closed'
    BY <2>1 DEF Reached, Closed
  <2> QED BY <2>5, <2>6
<1>2. ASSUME NEW t \in Task, AfterWait(t), main # "exited" PROVE HooksInOrder'
  <2>1. UNCHANGED <<main, result, ran>> /\ after' = Append(after, t)
    BY <1>2 DEF AfterWait
  <2>2. after \in Seq(Task) /\ ran \in Seq(Task)
    BY DEF HooksTypeOK
  <2>3. Len(after') = Len(after) + 1 /\ \A i \in 1 .. Len(after) : after'[i] = after[i]
    BY <2>1, <2>2
  <2>4. Len(ran) \in Nat /\ Len(after) \in Nat
    BY <2>2
  <2>5. Len(ran') <= Len(after') /\ \A i \in 1 .. Len(ran') : ran'[i] = after'[i]
    BY <2>1, <2>3, <2>4
  <2> QED BY <1>2, <2>1, <2>5 DEF Reached, Closed
<1>3. CASE Exit
  <2>1. UNCHANGED <<after, ran, result>> /\ Len(ran) = Len(after) /\ main = "hooks" /\ main' = "exited"
    BY <1>3 DEF Exit
  <2>2. result # "command"
    BY <2>1 DEF FirstErrorCounts
  <2> QED BY <2>1, <2>2 DEF Reached, Closed
<1>4. ASSUME NEW ok \in BOOLEAN, RunEReturns(ok) PROVE HooksInOrder'
  BY <1>4 DEF RunEReturns, Reached, Closed
<1>5. ASSUME UNCHANGED <<after, ran>>, main # "exited", main = "hooks" => main' = main,
             main' # "exited"
      PROVE  HooksInOrder'
  <2>1. (Reached({"hooks"}) => Reached({"hooks"})') /\ ~Closed'
    BY <1>5 DEF Reached, Closed
  <2> QED BY <1>5, <2>1
<1>6. CASE UNCHANGED sessVars
  BY <1>6 DEF sessVars, Reached, Closed
<1>7. CASE Enter \/ Wait \/ RestoreOutput \/ Drained \/ AbandonAll \/ QuitUI \/ CtrlC
  <2>1. UNCHANGED <<after, ran>> /\ (main = "hooks" => main' = main)
    BY <1>7 DEF Enter, Wait, RestoreOutput, Drained, AbandonAll, QuitUI, CtrlC
  <2>2. main # "exited" => main' # "exited"
    BY <1>7 DEF Enter, Wait, RestoreOutput, Drained, AbandonAll, QuitUI, CtrlC
  <2>3. main # "exited"
    BY <1>7 DEF Enter, Wait, RestoreOutput, Drained, AbandonAll, QuitUI, CtrlC, SessNext, sessVars
  <2> QED BY <1>5, <2>1, <2>2, <2>3
<1>8. ASSUME NEW t \in Task, NEW b \in BOOLEAN, main # "exited",
             \/ Schedule(t) \/ Copy(t) \/ UIPrints(t) \/ CloseWriter(t) \/ Linger(t)
             \/ ChildExits(t) \/ Say(t, b) \/ TaskEnds(t, b)
      PROVE  HooksInOrder'
  <2>1. UNCHANGED <<main, after, ran>>
    BY <1>8 DEF Schedule, Copy, UIPrints, CloseWriter, Linger, ChildExits, Say, TaskEnds
  <2> QED BY <1>5, <1>8, <2>1
<1> QED BY <1>1, <1>2, <1>3, <1>4, <1>6, <1>7, <1>8 DEF SessNext, Close

----------------------------------------------------------------------------
LEMMA SessInvStep == SessInv /\ [SessNext]_sessVars => SessInv'
BY SessTypeStep, HooksTypeStep, UIFirstStep, StagesDoneStep, HooksInOrderStep, FirstErrorStep
DEF SessInv

LEMMA SessInvInit == SessInit => SessInv
<1> SUFFICES ASSUME SessInit PROVE SessInv
  OBVIOUS
<1>1. SessTypeOK
  BY DEF SessInit, SessTypeOK, Stages, Ways
<1>2. HooksTypeOK /\ HooksInOrder
  BY EmptySeq DEF SessInit, HooksTypeOK, HooksInOrder, Closed
<1>3. UIFirst /\ StagesDone /\ FirstErrorCounts
  BY DEF SessInit, UIFirst, StagesDone, FirstErrorCounts, Reached, Closed, Live
<1> QED BY <1>1, <1>2, <1>3 DEF SessInv

LEMMA SessionInvariant == SessSpec => []SessInv
BY SessInvInit, SessInvStep, PTL DEF SessSpec

(* Session.Close with the live UI: every line that was said before Close   *)
(* returned is on the terminal, whichever way it took, for any number of   *)
(* tasks; only a line without an end, said where there is no UI, is        *)
(* dropped.                                                                *)
THEOREM NoLineIsLost == SessSpec => []NoLineLost
<1>1. SessInv => NoLineLost
  BY DEF SessInv, UIFirst, StagesDone, Reached, NoLineLost, Closed
<1> QED BY <1>1, SessionInvariant, PTL

(* AfterWait and Close: all hooks run, each once and in its place, after   *)
(* the last task and with the real terminal, and the first task error is   *)
(* what Close returns.                                                     *)
THEOREM HooksAreLast == SessSpec => []HooksRunLast
<1>1. ASSUME SessInv, Closed PROVE ran = after
  <2>1. ran \in Seq(Task) /\ after \in Seq(Task) /\ Len(ran) = Len(after)
    BY <1>1 DEF SessInv, HooksTypeOK, HooksInOrder
  <2>2. \A i \in 1 .. Len(ran) : ran[i] = after[i]
    BY <1>1 DEF SessInv, HooksInOrder
  <2> QED BY <2>1, <2>2, SeqEqual
<1>2. ASSUME SessInv, Closed, \E t \in Task : task[t] = "failed" PROVE result = "task"
  BY <1>2 DEF SessInv, FirstErrorCounts, Closed
<1>3. ASSUME SessInv, ran # <<>>
      PROVE  /\ \A t \in Task : ~Live(t)
                    /\ text[t] \notin {"printf", "pipe", "copying", "row", "pipe row"}
             /\ ui # "on" /\ stderr = "real" /\ flags = "saved"
  <2>1. Reached({"hooks"})
    BY <1>3 DEF SessInv, HooksInOrder
  <2> QED BY <1>3, <2>1 DEF SessInv, StagesDone, Reached
<1>4. SessInv => HooksRunLast
  BY <1>1, <1>2, <1>3 DEF HooksRunLast
<1> QED BY <1>4, SessionInvariant, PTL
=============================================================================
