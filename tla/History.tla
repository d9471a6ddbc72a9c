------------------------------ MODULE History ------------------------------
(***************************************************************************)
(* The shell history: the hook of the prompt records each command by a     *)
(* process of its own, through the daemon or into the database; an ingest  *)
(* takes over what bash or atuin kept; list and search read the newest.    *)
(***************************************************************************)
EXTENDS Integers, Sequences, FiniteSets, SequencesExt

CONSTANTS
  Command,    \* lines that can be typed
  Trimmed,    \* the line without its blanks at both ends, or Unset
  Recorder,   \* processes that record a command, one per prompt
  Old,        \* what bash kept (lines) or atuin kept (entries), by source
  PerSecond,  \* atuin's units per second, and the largest number that is
  MaxSecond,  \* taken for seconds
  Limit,      \* entries that a search asks for
  Unset, MaxClock, MaxIngests

VARIABLES
  clock,     \* seconds
  last,      \* the newest line of the shell's own history
  daemon,    \* "up" or "down"
  recording, \* by recorder: how far it is, and its event
  rows,      \* the table, in the order of the ids
  ingest,    \* the process that ingests
  ingests,
  finder,    \* the fuzzy finder: the ids it shows, of how many, and the chosen line
  output     \* what the search put on stdout; Unset before

histVars == <<clock, last, daemon, recording, rows, ingest, ingests, finder, output>>

Event(cmd, cwd, time, who) == [cmd |-> cmd, cwd |-> cwd, time |-> time, who |-> who]

ASSUME HistoryAssumption ==
  /\ {Limit, PerSecond, MaxSecond} \subseteq Nat \ {0} /\ MaxClock \in Nat
  /\ Trimmed \in [Command -> Command \cup {Unset}] /\ Unset \notin Command
  /\ Recorder \cap ((DOMAIN Old) \X Nat) = {}

HistInit ==
  /\ clock = 1 /\ last = Unset /\ daemon \in {"up", "down"} /\ rows = <<>>
  /\ recording = [r \in Recorder |-> [at |-> "none", event |-> Unset]]
  /\ ingest = [at |-> "idle", source |-> Unset, events |-> <<>>, done |-> 0] /\ ingests = 0
  /\ finder = [at |-> "closed", shown |-> <<>>, chosen |-> Unset, seen |-> 0]
  /\ output = Unset

\* A transaction with an insert holds the file's write lock until it ends.
WriteLocked == ingest.at = "insert" /\ ingest.done > 0

-----------------------------------------------------------------------------
(* The hook of the prompt, and the record command.                         *)

Tick == clock < MaxClock /\ clock' = clock + 1
        /\ UNCHANGED <<last, daemon, recording, rows, ingest, ingests, finder, output>>

\* A line is run, or the user presses enter: the hook takes the newest line of
\* the history either way, and stamps it in the background.
Prompt(r, c) ==
  /\ recording[r].at = "none"
  /\ last' = IF c = Unset THEN last ELSE c
  /\ recording' = [recording EXCEPT ![r] =
       IF last' = Unset THEN [at |-> "skipped", event |-> Unset]
       ELSE [at |-> "run", event |-> Event(last', "cwd", clock, r)]]
  /\ UNCHANGED <<clock, daemon, rows, ingest, ingests, finder, output>>

\* A command that someone records by hand gets its time from the process.
ByHand(r, c) ==
  /\ recording[r].at = "none"
  /\ recording' = [recording EXCEPT ![r] = [at |-> "run", event |-> Event(c, Unset, 0, r)]]
  /\ UNCHANGED <<clock, last, daemon, rows, ingest, ingests, finder, output>>

Complete(e) ==
  Event(e.cmd, IF e.cwd = Unset THEN "cwd" ELSE e.cwd, IF e.time = 0 THEN clock ELSE e.time, e.who)

\* The daemon takes the event, and what comes of it is not told; without a
\* daemon it is written here.
SendEvent(r) ==
  /\ recording[r].at = "run"
  /\ recording' = [recording EXCEPT ![r] =
       [at |-> IF daemon = "up" THEN "sent" ELSE "own", event |-> Complete(recording[r].event)]]
  /\ UNCHANGED <<clock, last, daemon, rows, ingest, ingests, finder, output>>

\* An insert, here or in the daemon, that meets another's lock gives up; an
\* error is shown to the one who records, or logged by the daemon.
Insert(r) ==
  /\ recording[r].at \in {"sent", "own"}
  /\ IF WriteLocked
     THEN /\ recording' = [recording EXCEPT ![r].at = IF @ = "sent" THEN "lost" ELSE "failed"]
          /\ rows' = rows
     ELSE /\ recording' = [recording EXCEPT ![r].at = "kept"]
          /\ rows' = Append(rows, recording[r].event)
  /\ UNCHANGED <<clock, last, daemon, ingest, ingests, finder, output>>

\* The daemon ends with the events that it has not read.
DaemonEnds ==
  /\ daemon = "up" /\ daemon' = "down"
  /\ recording' = [r \in Recorder |->
       IF recording[r].at = "sent" THEN [recording[r] EXCEPT !.at = "lost"] ELSE recording[r]]
  /\ UNCHANGED <<clock, last, rows, ingest, ingests, finder, output>>

-----------------------------------------------------------------------------
(* Ingest.  A line of bash is a time stamp, a command, blank, or too long  *)
(* for the scanner; an entry of atuin has a time in seconds or in parts.   *)

ScanLine(s, l) ==
  CASE l.kind = "stamp" -> [s EXCEPT !.time = l.time]
    [] l.kind = "blank" -> s
    [] l.kind = "command" ->
         [s EXCEPT !.events = Append(@, Event(l.cmd, "/dev/null", s.time, <<"bash", Len(@) + 1>>))]

ingestBash(lines) ==
  IF \E i \in DOMAIN lines : lines[i].kind = "long" THEN Unset
  ELSE FoldLeft(ScanLine, [time |-> 0, events |-> <<>>], lines).events

Seconds(t) == IF t > MaxSecond THEN t \div PerSecond ELSE t

ingestAtuin(entries) ==
  [i \in DOMAIN entries |->
    Event(entries[i].cmd, IF entries[i].cwd = Unset THEN "/dev/null" ELSE entries[i].cwd,
          Seconds(entries[i].time), <<"atuin", i>>)]

Parsed(s) == IF s = "bash" THEN ingestBash(Old[s]) ELSE ingestAtuin(Old[s])

\* Everything is read before anything is written.
Ingest(s) ==
  /\ ingest.at \in {"idle", "ok", "failed"} /\ ingests < MaxIngests /\ ingests' = ingests + 1
  /\ ingest' = [source |-> s, done |-> 0,
                at |-> IF Parsed(s) = Unset THEN "failed" ELSE IF Parsed(s) = <<>> THEN "ok" ELSE "insert",
                events |-> IF Parsed(s) = Unset THEN <<>> ELSE Parsed(s)]
  /\ UNCHANGED <<clock, last, daemon, recording, rows, finder, output>>

BatchInsert ==
  /\ ingest.at = "insert" /\ ingest.done < Len(ingest.events)
  /\ ingest' = [ingest EXCEPT !.done = @ + 1]
  /\ UNCHANGED <<clock, last, daemon, recording, rows, ingests, finder, output>>

CommitIngest ==
  /\ ingest.at = "insert" /\ ingest.done = Len(ingest.events)
  /\ ingest' = [ingest EXCEPT !.at = "ok"] /\ rows' = rows \o ingest.events
  /\ UNCHANGED <<clock, last, daemon, recording, ingests, finder, output>>

\* Mutation: The events are inserted without a transaction.
KeepInserted ==
  /\ ingest.at = "insert" /\ ingest' = [ingest EXCEPT !.at = "failed"]
  /\ rows' = rows \o SubSeq(ingest.events, 1, ingest.done)
  /\ UNCHANGED <<clock, last, daemon, recording, ingests, finder, output>>

\* An insert fails, the context or the process ends: nothing of it is kept.
Rollback ==
  /\ ingest.at = "insert" /\ ingest' = [ingest EXCEPT !.at = "failed"]
  /\ UNCHANGED <<clock, last, daemon, recording, rows, ingests, finder, output>>

-----------------------------------------------------------------------------
(* List and search.                                                        *)

\* ORDER BY timestamp DESC LIMIT n; rows of one second come in any order.
Newest(n) ==
  {s \in [1..n -> DOMAIN rows] :
    /\ \A i, j \in 1..n : i < j => s[i] # s[j] /\ rows[s[i]].time >= rows[s[j]].time
    /\ \A x \in DOMAIN rows \ ToSet(s) : \A i \in 1..n : rows[s[i]].time >= rows[x].time}

\* Nothing is written while the finder has the terminal: what it shows is what
\* the table held.
OpenFinder ==
  /\ finder.at = "closed"
  /\ \E s \in Newest(IF Len(rows) < Limit THEN Len(rows) ELSE Limit) :
       finder' = [at |-> IF s = <<>> THEN "none" ELSE "open", shown |-> s, chosen |-> Unset,
                  seen |-> Len(rows)]
  /\ UNCHANGED <<clock, last, daemon, recording, rows, ingest, ingests, output>>

Choose(i) ==
  /\ finder.at = "open" /\ i \in DOMAIN finder.shown
  /\ finder' = [finder EXCEPT !.at = "chosen", !.chosen = rows[finder.shown[i]].cmd]
  /\ UNCHANGED <<clock, last, daemon, recording, rows, ingest, ingests, output>>

Abort ==
  /\ finder.at = "open" /\ finder' = [finder EXCEPT !.at = "aborted"]
  /\ UNCHANGED <<clock, last, daemon, recording, rows, ingest, ingests, output>>

\* After the session's wait, on the real stdout; the shell puts it in its line.
AfterWait ==
  /\ finder.at = "chosen" /\ finder' = [finder EXCEPT !.at = "done"]
  /\ output' = Trimmed[finder.chosen]
  /\ UNCHANGED <<clock, last, daemon, recording, rows, ingest, ingests>>

HistNext ==
  \/ Tick \/ DaemonEnds
  \/ \E r \in Recorder : (\E c \in Command : Prompt(r, c) \/ ByHand(r, c)) \/ Prompt(r, Unset)
                         \/ SendEvent(r) \/ Insert(r)
  \/ \E s \in DOMAIN Old : Ingest(s)
  \/ BatchInsert \/ CommitIngest \/ Rollback
  \/ OpenFinder \/ Abort \/ AfterWait \/ \E i \in 1..Limit : Choose(i)

HistSpec == HistInit /\ [][HistNext]_histVars

-----------------------------------------------------------------------------
(* Properties.                                                             *)

Times(who) == Cardinality({i \in DOMAIN rows : rows[i].who = who})

\* The time of a line of bash is the one of the nearest stamp above it, or none;
\* of an entry of atuin, the second in which it was.
StampAbove(lines, i) ==
  LET S == {j \in 1..i : lines[j].kind = "stamp"}
  IN IF S = {} THEN 0 ELSE lines[CHOOSE j \in S : \A k \in S : k <= j].time
Taken(s) ==
  IF s = "atuin" THEN [i \in DOMAIN Old[s] |-> Old[s][i].second]
  ELSE LET L == {i \in DOMAIN Old[s] : Old[s][i].kind = "command"}
           Nth(k) == CHOOSE i \in L : Cardinality({j \in L : j <= i}) = k
       IN [k \in 1..Cardinality(L) |-> StampAbove(Old[s], Nth(k))]

\* What ingestBash and ingestAtuin make of a source: its commands in their
\* order, each with the time that it had there.
Dirs == {"cwd", "/dev/null"} \cup {Old["atuin"][i].cwd : i \in DOMAIN Old["atuin"]}
RowSet == [cmd : Command, cwd : Dirs, time : Int, who : Recorder \cup ((DOMAIN Old) \X Nat)]
ParsesRight ==
  \A s \in DOMAIN Old :
    /\ DOMAIN Taken(s) \subseteq Nat
    /\ Parsed(s) # Unset =>
         /\ Parsed(s) \in Seq(RowSet) /\ DOMAIN Taken(s) = DOMAIN Parsed(s)
         /\ \A k \in DOMAIN Taken(s) : Parsed(s)[k].who = <<s, k>> /\ Parsed(s)[k].time = Taken(s)[k]

\* A command that its recorder reports as kept is there once, whichever process
\* wrote it, and one that is not there was never reported otherwise than by the
\* daemon that took it.  An ingest adds everything with its own time or nothing,
\* whoever writes meanwhile.  A search shows the newest rows, newest first, also
\* if they were recorded in another order, and prints one of them.
HistoryIsKept ==
  /\ \A r \in Recorder : Times(r) = IF recording[r].at = "kept" THEN 1 ELSE 0
  /\ \A s \in DOMAIN Old : \E n \in 0..ingests :
       /\ \A k \in DOMAIN Taken(s) : Times(<<s, k>>) = n
       /\ ingest.source = s /\ ingest.at = "ok" => n > 0
  /\ \A i \in DOMAIN rows : rows[i].who \notin Recorder =>
       rows[i].time = Taken(rows[i].who[1])[rows[i].who[2]]
  /\ \A i \in DOMAIN finder.shown : \A x \in 1..finder.seen :
       x \notin {finder.shown[j] : j \in 1..i} => rows[finder.shown[i]].time >= rows[x].time
  /\ output # Unset => \E i \in DOMAIN finder.shown : output = Trimmed[rows[finder.shown[i]].cmd]
=============================================================================
