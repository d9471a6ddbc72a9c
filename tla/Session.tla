------------------------------- MODULE Session -------------------------------
(***************************************************************************)
(* One invocation of the program: main enters a Session, the command       *)
(* schedules tasks and registers hooks, and Close waits for the tasks,     *)
(* takes the progress UI down, gives the terminal back and runs the hooks. *)
(* While the UI is up os.Stderr is a pipe that a goroutine copies into one *)
(* live row; tasks may have live rows of their own.  A finished line goes  *)
(* to the UI program, which prints it; the sender waits until it is taken. *)
(***************************************************************************)
EXTENDS Naturals, Sequences, FiniteSets, SequencesExt

CONSTANTS
  Task,      \* each says one line and may register one hook
  Partial,   \* the tasks whose line is never terminated
  MaxRude    \* user's ctrl-c, children that outlive their task

VARIABLES
  main,      \* where the main goroutine is
  ui,        \* "none", "on" or "off"
  wantUI,    \* the terminal is interactive
  stderr,    \* os.Stderr: "real" or "pipe"
  flags,     \* the terminal's file flags: "saved" or "raw"
  task,      \* status of each task
  text,      \* where each task's line is
  after,     \* hooks registered
  ran,       \* hooks that ran
  result,    \* what Close returns, by its origin
  lingering, \* tasks whose child still holds the pipe
  rude

sessVars == <<main, ui, wantUI, stderr, flags, task, text, after, ran, result, lingering, rude>>

SessInit ==
  /\ main = "pre" /\ wantUI \in BOOLEAN
  /\ ui = "none" /\ stderr = "real" /\ flags = "saved"
  /\ task = [t \in Task |-> "none"] /\ text = [t \in Task |-> "unsaid"]
  /\ after = <<>> /\ ran = <<>> /\ result = "ok"
  /\ lingering = {} /\ rude = 0

Live(t) == task[t] = "running"
\* Printf waits for the program's loop; the copier has one line in hand.
Blocked(t) == text[t] = "printf"
PipeBusy == \E t \in Task : text[t] = "copying"

-----------------------------------------------------------------------------
(* main and the command.                                                   *)

Enter ==
  /\ main = "pre" /\ main' = "run"
  /\ UNCHANGED <<ui, wantUI, stderr, flags, task, text, after, ran, result, lingering, rude>>

\* Go: the first one starts the UI, before the task's goroutine.
Schedule(t) ==
  /\ main = "run" \/ \E u \in Task : Live(u)
  /\ task[t] = "none" /\ task' = [task EXCEPT ![t] = "running"]
  /\ IF wantUI /\ ui = "none"
     THEN ui' = "on" /\ stderr' = "pipe" /\ flags' = "raw"
     ELSE UNCHANGED <<ui, stderr, flags>>
  /\ UNCHANGED <<main, wantUI, text, after, ran, result, lingering, rude>>

\* AfterWait, by the command or by a task.
AfterWait(h) ==
  /\ main = "run" \/ Live(h)
  /\ h \notin ToSet(after) /\ after' = Append(after, h)
  /\ UNCHANGED <<main, ui, wantUI, stderr, flags, task, text, ran, result, lingering, rude>>

\* Cobra runs PersistentPostRunE only after a RunE without error.
RunEReturns(ok) ==
  /\ main = "run" /\ main' = (IF ok THEN "wait" ELSE "exited")
  /\ result' = IF ok THEN result ELSE "command"
  /\ UNCHANGED <<ui, wantUI, stderr, flags, task, text, after, ran, lingering, rude>>

-----------------------------------------------------------------------------
(* Output.                                                                 *)

\* The rows that a live writer holds until they are committed.
Rows == {t \in Task : text[t] \in {"row", "pipe row"}}

\* A line through os.Stderr, or through a live row of the task's own.
Say(t, own) ==
  /\ Live(t) /\ text[t] = "unsaid"
  /\ text' = [text EXCEPT ![t] =
       IF own /\ ~wantUI THEN IF t \in Partial THEN "dropped" ELSE "shown"
       ELSE IF own THEN IF t \in Partial THEN "row" ELSE "printf"
       ELSE IF stderr = "pipe" THEN "pipe" ELSE "shown"]
  /\ UNCHANGED <<main, ui, wantUI, stderr, flags, task, after, ran, result, lingering, rude>>

\* The copier hands a line on; a part of a line stays in the live row.
Copy(t) ==
  /\ text[t] = "pipe" /\ ~PipeBusy
  /\ text' = [text EXCEPT ![t] = IF t \in Partial THEN "pipe row" ELSE "copying"]
  /\ UNCHANGED <<main, ui, wantUI, stderr, flags, task, after, ran, result, lingering, rude>>

UIPrints(t) ==
  /\ ui = "on" /\ text[t] \in {"printf", "copying"}
  /\ text' = [text EXCEPT ![t] = "shown"]
  /\ UNCHANGED <<main, ui, wantUI, stderr, flags, task, after, ran, result, lingering, rude>>

\* Close of the task's own writer commits what is left of its row.
CloseWriter(t) ==
  /\ Live(t) /\ text[t] = "row"
  /\ text' = [text EXCEPT ![t] = "printf"]
  /\ UNCHANGED <<main, ui, wantUI, stderr, flags, task, after, ran, result, lingering, rude>>

TaskEnds(t, ok) ==
  /\ Live(t) /\ ~Blocked(t)
  /\ task' = [task EXCEPT ![t] = IF ok THEN "done" ELSE "failed"]
  /\ result' = IF ok \/ result # "ok" THEN result ELSE "task"
  /\ UNCHANGED <<main, ui, wantUI, stderr, flags, text, after, ran, lingering, rude>>

\* ctrl-c ends the UI program, and nothing else.
CtrlC ==
  /\ ui = "on" /\ rude < MaxRude /\ rude' = rude + 1
  /\ ui' = "off"
  /\ UNCHANGED <<main, wantUI, stderr, flags, task, text, after, ran, result, lingering>>

\* A child in the background inherited the pipe.
Linger(t) ==
  /\ Live(t) /\ stderr = "pipe" /\ rude < MaxRude /\ rude' = rude + 1
  /\ lingering' = lingering \cup {t}
  /\ UNCHANGED <<main, ui, wantUI, stderr, flags, task, text, after, ran, result>>

ChildExits(t) ==
  /\ t \in lingering /\ lingering' = lingering \ {t}
  /\ UNCHANGED <<main, ui, wantUI, stderr, flags, task, text, after, ran, result, rude>>

-----------------------------------------------------------------------------
(* Close.                                                                  *)

Wait ==
  /\ main = "wait" /\ \A t \in Task : ~Live(t)
  /\ main' = IF ui = "none" THEN "hooks" ELSE "restore"
  /\ UNCHANGED <<ui, wantUI, stderr, flags, task, text, after, ran, result, lingering, rude>>

\* Mutation: The rows are collected before the pipe has been read to its end.
RestoreFirst ==
  /\ main = "restore" /\ main' = "abandon" /\ stderr' = "real"
  /\ UNCHANGED <<ui, wantUI, flags, task, text, after, ran, result, lingering, rude>>

RestoreOutput ==
  /\ main = "restore" /\ main' = "drain" /\ stderr' = "real"
  /\ UNCHANGED <<ui, wantUI, flags, task, text, after, ran, result, lingering, rude>>

\* The pipe ends when its last writer has closed it and it is empty.
Drained ==
  /\ main = "drain" /\ main' = "abandon"
  /\ lingering = {} /\ \A t \in Task : text[t] \notin {"pipe", "copying"}
  /\ UNCHANGED <<ui, wantUI, stderr, flags, task, text, after, ran, result, lingering, rude>>

\* What is left in the rows goes to the real stderr.
AbandonAll ==
  /\ main = "abandon" /\ main' = "quit"
  /\ text' = [t \in Task |-> IF t \in Rows THEN "shown" ELSE text[t]]
  /\ UNCHANGED <<ui, wantUI, stderr, flags, task, after, ran, result, lingering, rude>>

QuitUI ==
  /\ main = "quit" /\ main' = "hooks"
  /\ ui' = "off" /\ flags' = "saved"
  /\ UNCHANGED <<wantUI, stderr, task, text, after, ran, result, lingering, rude>>

\* Mutation: The first hook that fails ends Close.
RunHookStops(ok) ==
  /\ main = "hooks" /\ Len(ran) < Len(after)
  /\ ran' = Append(ran, after[Len(ran) + 1])
  /\ result' = IF ok \/ result # "ok" THEN result ELSE "hook"
  /\ main' = IF ok THEN main ELSE "exited"
  /\ UNCHANGED <<ui, wantUI, stderr, flags, task, text, after, lingering, rude>>

\* The hooks in their order; the first failure counts if nothing failed before.
RunHook(ok) ==
  /\ main = "hooks" /\ Len(ran) < Len(after)
  /\ ran' = Append(ran, after[Len(ran) + 1])
  /\ result' = IF ok \/ result # "ok" THEN result ELSE "hook"
  /\ UNCHANGED <<main, ui, wantUI, stderr, flags, task, text, after, lingering, rude>>

Exit ==
  /\ main = "hooks" /\ Len(ran) = Len(after) /\ main' = "exited"
  /\ UNCHANGED <<ui, wantUI, stderr, flags, task, text, after, ran, result, lingering, rude>>

Close == Wait \/ RestoreOutput \/ Drained \/ AbandonAll \/ QuitUI
         \/ (\E ok \in BOOLEAN : RunHook(ok)) \/ Exit

\* A process that exited does nothing more.
SessNext ==
  /\ main # "exited"
  /\ \/ Enter \/ Close \/ CtrlC
     \/ \E ok \in BOOLEAN : RunEReturns(ok)
     \/ \E t \in Task :
          \/ Schedule(t) \/ AfterWait(t) \/ Copy(t) \/ UIPrints(t) \/ CloseWriter(t)
          \/ Linger(t) \/ ChildExits(t)
          \/ \E b \in BOOLEAN : Say(t, b) \/ TaskEnds(t, b)

\* Goroutines run, the command returns and tasks end; a child in the
\* background need not exit.
SessFairness ==
  /\ WF_sessVars(Close)
  /\ WF_sessVars(main = "run" /\ \E ok \in BOOLEAN : RunEReturns(ok))
  /\ \A t \in Task :
       /\ WF_sessVars(main # "exited" /\ Copy(t)) /\ WF_sessVars(main # "exited" /\ UIPrints(t))
       /\ WF_sessVars(main # "exited" /\ \E b \in BOOLEAN : TaskEnds(t, b))

SessSpec == SessInit /\ [][SessNext]_sessVars /\ SessFairness

-----------------------------------------------------------------------------
(* Properties.                                                             *)

Closed == main = "exited" /\ result # "command"

\* After Close every line said to a live UI was shown
\* once, a part of a line too, whichever of the two ways it took and however
\* the copier, the program's loop and the teardown interleave.
NoLineLost ==
  Closed => \A t \in Task : text[t] \in {"unsaid", "shown", "dropped"}
                            /\ (text[t] = "dropped" => ~wantUI /\ t \in Partial)

\* AfterWait: "real stdio": a hook runs when no task runs, nothing is left to
\* print, and the terminal is as the program found it.  Close: "Returns the
\* first task error, else the first AfterWait error", and no failure, of a task
\* or of an earlier hook, keeps a registered hook from running once, in its
\* place.
HooksRunLast ==
  /\ Closed => /\ ran = after
               /\ (\E t \in Task : task[t] = "failed") => result = "task"
  /\ ran # <<>> => /\ \A t \in Task :
                        ~Live(t) /\ text[t] \notin {"printf", "pipe", "copying", "row", "pipe row"}
                   /\ ui # "on" /\ stderr = "real" /\ flags = "saved"

\* A command that returns from RunE gets to the end of Close, unless the user
\* or a child in the background interferes with the UI.
SessionCloses == main = "run" ~> main = "exited" \/ rude > 0
=============================================================================
