------------------------------- MODULE Display -------------------------------
(***************************************************************************)
(* What the user sees of running tasks.  A record that a task logs is kept *)
(* with the task and given to the progress UI, or else to the logger that  *)
(* the task's group was made with: the program's own, on stderr, or that   *)
(* of the task that made the group.  Each group has its copy of the UI's   *)
(* handler and of the flag that the UI is there.  The UI walks the groups  *)
(* for the running tasks, and draws a bar for each that says how far it is.*)
(***************************************************************************)
EXTENDS Integers, Sequences, FiniteSets, SequencesExt

CONSTANTS
  Group, Root,
  Task,
  Main,   \* the command's goroutine; what it makes a group of logs to stderr
  Slack,  \* 8 in the code: how many gone bars the order of the bars may keep
  NotYet

ASSUME DisplayAssumption ==
  /\ Root \in Group /\ Main \notin Task /\ NotYet \notin Task
  /\ IsFiniteSet(Task) /\ Slack \in Nat

VARIABLES
  wantUI, \* the terminal is interactive
  ui,     \* "none", "starting", "on" or "off"
  group,  \* each group: [at, by, onLog, using]
  task,   \* each task: [at, group, onLog, total]
  shown,  \* where each task's record was written, in order
  walk,   \* groups that the UI has still to look at
  snap,   \* the tasks it found
  bars,   \* the tasks that have a bar
  order   \* their rows

dispVars == <<wantUI, ui, group, task, shown, walk, snap, bars, order>>

DispInit ==
  /\ wantUI \in BOOLEAN /\ ui = "none"
  /\ group = [g \in Group |-> [at |-> IF g = Root THEN "made" ELSE "none", by |-> Main,
                               onLog |-> FALSE, using |-> FALSE]]
  /\ task = [t \in Task |-> [at |-> "none", group |-> NotYet, onLog |-> FALSE, total |-> -1]]
  /\ shown = [t \in Task |-> NotYet]
  /\ walk = {} /\ snap = {} /\ bars = {} /\ order = <<>>

\* Not in startUI, not in SubGroup.
Running(w) ==
  /\ IF w = Main THEN ui \notin {"starting", "off"} ELSE task[w].at = "running"
  /\ \A g \in Group : group[g].at = "copied" => group[g].by # w
\* Who may schedule in a group: who made it, and its own tasks.
MayGo(w, g) == /\ Running(w) /\ group[g].at = "made"
               /\ group[g].by = w \/ (w # Main /\ task[w].group = g)
GroupOf(w) == IF w = Main THEN Root ELSE task[w].group
\* The UI is not started by what does not schedule; tasks come after it.
Ready == wantUI => ui = "on"

-----------------------------------------------------------------------------
(* Groups and tasks.                                                       *)

\* SubGroup reads the parent, unlocks, and joins its children later.
CopiesParent(w, g) ==
  /\ Running(w) /\ group[g].at = "none"
  /\ group' = [group EXCEPT ![g] = [at |-> "copied", by |-> w, onLog |-> group[GroupOf(w)].onLog,
                                    using |-> group[GroupOf(w)].using]]
  /\ UNCHANGED <<wantUI, ui, task, shown, walk, snap, bars, order>>

JoinsParent(g) ==
  /\ group[g].at = "copied" /\ group' = [group EXCEPT ![g].at = "made"]
  /\ UNCHANGED <<wantUI, ui, task, shown, walk, snap, bars, order>>

Made == {g \in Group : group[g].at = "made"}
Kids(g) == {k \in Made \ {Root} : GroupOf(group[k].by) = g}
Live(t) == task[t].at = "running" /\ task[t].group \in Made

\* startUI, from the first Go: the flag in the whole tree, then the handler.
SetsUsing ==
  /\ wantUI /\ ui = "none" /\ Running(Main)
  /\ ui' = "starting"
  /\ group' = [g \in Group |-> IF g \in Made THEN [group[g] EXCEPT !.using = TRUE] ELSE group[g]]
  /\ UNCHANGED <<wantUI, task, shown, walk, snap, bars, order>>

\* Mutation: The handler is set in the root group only.
SetsHandlerOfRoot ==
  /\ ui = "starting" /\ ui' = "on"
  /\ group' = [group EXCEPT ![Root].onLog = TRUE]
  /\ task' = [t \in Task |-> IF Live(t) /\ task[t].group = Root THEN [task[t] EXCEPT !.onLog = TRUE] ELSE task[t]]
  /\ UNCHANGED <<wantUI, shown, walk, snap, bars, order>>

SetLogHandler ==
  /\ ui = "starting" /\ ui' = "on"
  /\ group' = [g \in Group |-> IF g \in Made THEN [group[g] EXCEPT !.onLog = TRUE] ELSE group[g]]
  /\ task' = [t \in Task |-> IF Live(t) THEN [task[t] EXCEPT !.onLog = TRUE] ELSE task[t]]
  /\ UNCHANGED <<wantUI, shown, walk, snap, bars, order>>

Go(w, g, t) ==
  /\ Ready /\ MayGo(w, g) /\ task[t].at = "none"
  /\ task' = [task EXCEPT ![t] = [at |-> "running", group |-> g, onLog |-> group[g].onLog, total |-> -1]]
  /\ UNCHANGED <<wantUI, ui, group, shown, walk, snap, bars, order>>

\* Progress: from "not known" to a number, as the callers do.
Progress(t) ==
  /\ Live(t) /\ task[t].total = -1
  /\ task' = [task EXCEPT ![t].total = 1]
  /\ UNCHANGED <<wantUI, ui, group, shown, walk, snap, bars, order>>

\* Who made groups waits for their tasks.
WaitedFor(w) ==
  \A g \in Group : group[g].at # "none" /\ group[g].by = w =>
    group[g].at = "made" /\ \A t \in Task : task[t].group = g => task[t].at # "running"

Finish(t) ==
  /\ Live(t) /\ WaitedFor(t)
  /\ task' = [task EXCEPT ![t].at = "done"]
  /\ UNCHANGED <<wantUI, ui, group, shown, walk, snap, bars, order>>

TeardownUI ==
  /\ ui # "starting" /\ ui # "off" /\ WaitedFor(Main)
  /\ ui' = "off"
  /\ group' = [g \in Group |-> IF g \in Made THEN [group[g] EXCEPT !.onLog = FALSE, !.using = FALSE]
                               ELSE group[g]]
  /\ walk' = {} /\ snap' = {}
  /\ UNCHANGED <<wantUI, task, shown, bars, order>>

-----------------------------------------------------------------------------
(* Records.                                                                *)

HasHandler(t) == task[t].onLog \/ group[task[t].group].onLog

Started == {t \in Task : task[t].at # "none"}

\* logRecorder: with the UI there the record goes no further; without it to
\* the handler below, which may be another task's recorder.
WrittenTo(t) ==
  LET by[w \in Started \cup {Main}] ==
        IF w = Main THEN <<"stderr">>
        ELSE (IF HasHandler(w) THEN <<"ui">> ELSE <<>>)
             \o (IF group[task[w].group].using THEN <<>> ELSE by[group[task[w].group].by])
  IN by[t]

Log(t) ==
  /\ Live(t) /\ shown[t] = NotYet
  /\ shown' = [shown EXCEPT ![t] = WrittenTo(t)]
  /\ UNCHANGED <<wantUI, ui, group, task, walk, snap, bars, order>>

-----------------------------------------------------------------------------
(* Bars.                                                                   *)

\* A tick, or a record, makes the UI look again.
TickUI ==
  /\ ui = "on" /\ walk = {} /\ snap = {}
  /\ walk' = {Root}
  /\ UNCHANGED <<wantUI, ui, group, task, shown, snap, bars, order>>

\* One group at a time, under its lock; its children are read after its tasks.
Visit(g) ==
  /\ ui = "on" /\ g \in walk
  /\ walk' = (walk \ {g}) \cup Kids(g)
  /\ snap' = snap \cup {t \in Task : Live(t) /\ task[t].group = g /\ task[t].total > 0}
                  \cup {NotYet}
  /\ UNCHANGED <<wantUI, ui, group, task, shown, bars, order>>

\* The order keeps those that are gone, for a while, and always its order.
Compacted(o, b) ==
  LET left == {n \in 1..Len(o) : Len(o) > Cardinality(b) + Slack => o[n] \in b}
      inOrder == {f \in SetToSeqs(left) : \A m, n \in DOMAIN f : m < n => f[m] < f[n]}
  IN {[n \in DOMAIN f |-> o[f[n]]] : f \in inOrder}

Sync ==
  /\ ui = "on" /\ walk = {} /\ snap # {}
  /\ bars' = snap \ {NotYet}
  /\ \E new \in SetToSeqs(bars' \ bars) : order' \in Compacted(order \o new, bars')
  /\ snap' = {}
  /\ UNCHANGED <<wantUI, ui, group, task, shown, walk>>

Rows(t) == {n \in 1..Len(order) : order[n] = t}

DispNext ==
  \/ SetsUsing \/ SetLogHandler \/ TeardownUI \/ TickUI \/ Sync
  \/ \E g \in Group :
       JoinsParent(g) \/ Visit(g)
       \/ \E w \in Task \cup {Main} : CopiesParent(w, g) \/ \E t \in Task : Go(w, g, t)
  \/ \E t \in Task : Progress(t) \/ Finish(t) \/ Log(t)

DispSpec == DispInit /\ [][DispNext]_dispVars

-----------------------------------------------------------------------------
(* Properties.                                                             *)

\* Whatever groups were made before and after the UI was there, and by whom:
\* a record that a task logs is written once, to the UI while it is there ("to
\* avoid duplicate lines") and else to stderr; and a bar has one row, which
\* stays when others are compacted away.
ShownOnce ==
  /\ \A t \in Task : shown[t] # NotYet => shown[t] = IF wantUI THEN <<"ui">> ELSE <<"stderr">>
  /\ \A t \in bars : Cardinality(Rows(t)) = 1
=============================================================================
