------------------------------- MODULE Checks -------------------------------
(***************************************************************************)
(* `codebase lint` and `codebase format`: the tools that the configuration *)
(* names are looked up in the tree one after the other, and those whose    *)
(* firewall lets them run become items of taskgroup.Map -- linters at      *)
(* once, formatters one after the other.  A user edits the tree meanwhile, *)
(* and may interrupt.  What a linter prints goes through its codec.        *)
(***************************************************************************)
EXTENDS Naturals, Sequences, SequencesExt

CONSTANTS
  Tools,   \* in the order of their names: enable, rules, codec, args_from_globs
  File,    \* what a rule may ask for
  NoValue, \* no path, no glob, no report
  MaxTreeEdits, MaxCheckFaults

Checker == DOMAIN Tools
Codec == {"sarif", "actionlint_json", "eslint_json", "unknown", "none"}

ASSUME ChecksAssumption ==
  /\ {MaxTreeEdits, MaxCheckFaults} \subseteq Nat
  /\ Len(Tools) \in Nat /\ DOMAIN Tools = 1..Len(Tools)
  /\ \A t \in Checker : Tools[t].codec \in Codec

VARIABLES
  mode,     \* lint or format
  tree,     \* the files that there are
  next,     \* the tool to look up
  found,    \* per tool: its firewall let it pass, and the glob it passed by
  item,     \* per item of the Map: what it is about
  argv,     \* per item: the files it was given
  printed,  \* per linter: what its process wrote, and how it ended
  run,      \* per item: what Fn returned
  told,     \* tools of which the log has an error or a warning
  ended,    \* the user interrupted
  ending,   \* of the command's task
  report,   \* what AfterWait prints and saves
  edits, mishaps

checksVars == <<mode, tree, next, found, item, argv, printed, run, told, ended,
                ending, report, edits, mishaps>>

Passed == {t \in Checker : found[t].applicable}
NotSeen == [applicable |-> FALSE, glob |-> {}]

ChecksInit ==
  /\ mode \in {"lint", "format"}
  /\ tree \in SUBSET File
  /\ next = 1
  /\ found = [t \in Checker |-> NotSeen]
  /\ item = [t \in Checker |-> "none"]
  /\ argv = [t \in Checker |-> {}]
  /\ printed = [t \in Checker |-> <<"unread", TRUE>>]
  /\ run = [t \in Checker |-> "nil"]
  /\ told = {}
  /\ ended = FALSE
  /\ ending = "none" /\ report = NoValue
  /\ edits = 0 /\ mishaps = 0

-----------------------------------------------------------------------------
(* The firewall.  A glob is the set of the files it would match, and no    *)
(* glob is the empty set.                                                  *)

\* ruleMatches: both conditions when both are given, and never without one.
ruleMatches(r) ==
  /\ r.path # NoValue \/ r.glob # {}
  /\ r.path # NoValue => r.path \in tree
  /\ r.glob # {} => r.glob \cap tree # {}

\* EvaluateDetect: the first rule that matches decides.
EvaluateDetect(t) ==
  LET rules == Tools[t].rules
      first == SelectInSeq(rules, ruleMatches)
  IN IF first = 0 THEN NotSeen
     ELSE [applicable |-> rules[first].on, glob |-> rules[first].glob]

\* A tool that is off is passed over; a linter without a codec, and a tool
\* whose files cannot be looked at, with a line in the log.  (The walk of one
\* tool's rules is one step here.)
DetectTool ==
  /\ ending = "none" /\ next \in Checker
  /\ next' = next + 1
  /\ \/ ~Tools[next].enable /\ UNCHANGED <<found, told, mishaps>>
     \/ /\ Tools[next].enable /\ mode = "lint" /\ Tools[next].codec = "none"
        /\ told' = told \cup {next} /\ UNCHANGED <<found, mishaps>>
     \/ /\ Tools[next].enable /\ (mode = "lint" => Tools[next].codec # "none")
        /\ \/ found' = [found EXCEPT ![next] = EvaluateDetect(next)] /\ UNCHANGED <<told, mishaps>>
           \/ /\ mishaps < MaxCheckFaults /\ mishaps' = mishaps + 1
              /\ told' = told \cup {next} /\ UNCHANGED found
  /\ UNCHANGED <<mode, tree, item, argv, printed, run, ended, ending, report, edits>>

\* The items are scheduled, unless there are none: then the report is empty.
Schedule ==
  /\ ending = "none" /\ next = Len(Tools) + 1
  /\ item = [t \in Checker |-> "none"]
  /\ IF Passed = {}
     THEN /\ ending' = "ok"
          /\ report' = IF mode = "lint" THEN {} ELSE NoValue
          /\ UNCHANGED item
     ELSE /\ item' = [t \in Checker |-> IF t \in Passed THEN "waits" ELSE "none"]
          /\ UNCHANGED <<ending, report>>
  /\ UNCHANGED <<mode, tree, next, found, argv, printed, run, told, ended, edits, mishaps>>

-----------------------------------------------------------------------------
(* One item.                                                               *)

\* Serial makes each item depend on the one before.
MayBegin(t) ==
  /\ item[t] = "waits"
  /\ mode = "format" => \A u \in Passed : u < t => item[u] = "done"

\* Mutation: The failure is the item's error, which cancels its siblings.
FailsHard(t) ==
  /\ run' = [run EXCEPT ![t] = "refused"]
  /\ told' = told \cup {t}
  /\ item' = [item EXCEPT ![t] = "done"]

\* What the tool's failure becomes: an item with a result, and siblings that
\* go on.
ItemFails(t) ==
  /\ run' = [run EXCEPT ![t] = IF mode = "lint" THEN "nil" ELSE "failure"]
  /\ told' = told \cup {t}
  /\ item' = [item EXCEPT ![t] = "done"]

\* BuildCmd looks the glob up again, and starts no process without a file.
BuildCmd(t) ==
  LET named == Tools[t].args /\ found[t].glob # {}
      files == IF named THEN found[t].glob \cap tree ELSE {}
  IN /\ MayBegin(t)
     /\ IF named /\ files = {}
        THEN ItemFails(t) /\ UNCHANGED <<argv, mishaps>>
        ELSE \/ /\ argv' = [argv EXCEPT ![t] = files]
                /\ item' = [item EXCEPT ![t] = "runs"]
                /\ UNCHANGED <<run, told, mishaps>>
             \/ ItemFails(t) /\ mishaps < MaxCheckFaults /\ mishaps' = mishaps + 1 /\ UNCHANGED argv
             \/ ended /\ ItemFails(t) /\ UNCHANGED <<argv, mishaps>>
     /\ UNCHANGED <<mode, tree, next, found, printed, ended, ending, report, edits>>

\* An item of a group that has ended may not be begun at all: the Map fails.
Refuse(t) ==
  /\ MayBegin(t) /\ ended
  /\ item' = [item EXCEPT ![t] = "done"]
  /\ run' = [run EXCEPT ![t] = "refused"]
  /\ UNCHANGED <<mode, tree, next, found, argv, printed, told, ended, ending, report, edits, mishaps>>

\* Decode: what becomes of the output.  Only eslint's parser takes the results
\* that precede a cut, and returns a run also when there are no results.
Decode(codec, out) ==
  CASE codec = "sarif" -> IF out \in {"findings", "clean"} THEN out ELSE "error"
    [] codec = "actionlint_json" ->
         IF out = "findings" THEN out ELSE IF out \in {"clean", "nothing"} THEN "nil" ELSE "error"
    [] codec = "eslint_json" ->
         IF out = "cut" THEN "findings" ELSE IF out \in {"findings", "clean"} THEN out ELSE "error"
    [] OTHER -> "error"

\* A linter's run: to exit with an error is a failure only without output.
LintResult(t, out, failed) ==
  IF failed /\ out = "nothing" THEN "error" ELSE Decode(Tools[t].codec, out)

\* The process ends; one that was interrupted has been killed.
Exit(t) ==
  /\ item[t] = "runs"
  /\ \E out \in {"findings", "clean", "nothing", "junk", "cut"}, failed \in BOOLEAN :
       /\ ended => failed
       /\ mode = "format" => out = "nothing"
       /\ printed' = [printed EXCEPT ![t] = <<out, failed>>]
       /\ LET result == IF mode = "lint" THEN LintResult(t, out, failed)
                        ELSE IF failed THEN "error" ELSE "nil"
          IN IF result = "error" THEN ItemFails(t)
             ELSE /\ run' = [run EXCEPT ![t] = result]
                  /\ item' = [item EXCEPT ![t] = "done"]
                  /\ UNCHANGED told
  /\ UNCHANGED <<mode, tree, next, found, argv, ended, ending, report, edits, mishaps>>

-----------------------------------------------------------------------------
(* The end.                                                                *)

\* BundleRuns: the runs there are.  (They stand in the order of their tools.)
BundleRuns == {<<t, run[t]>> : t \in {u \in Checker : run[u] # "nil"}}

\* Map returns: with an error when an item was refused, and after an interrupt
\* also when it sees that before it sees that all is done.
MapReturns ==
  /\ ending = "none" /\ Passed # {} /\ \A t \in Passed : item[t] = "done"
  /\ \/ /\ ended \/ \E t \in Checker : run[t] = "refused"
        /\ ending' = "failed" /\ UNCHANGED report
     \/ /\ \A t \in Checker : run[t] # "refused"
        /\ ending' = IF \E t \in Checker : run[t] = "failure" THEN "failed" ELSE "ok"
        /\ report' = IF mode = "lint" THEN BundleRuns ELSE NoValue
  /\ UNCHANGED <<mode, tree, next, found, item, argv, printed, run, told, ended, edits, mishaps>>

\* A file comes or goes.
EditTree ==
  /\ ending = "none" /\ edits < MaxTreeEdits /\ edits' = edits + 1
  /\ \E f \in File : tree' = IF f \in tree THEN tree \ {f} ELSE tree \cup {f}
  /\ UNCHANGED <<mode, next, found, item, argv, printed, run, told, ended, ending, report, mishaps>>

Interrupt ==
  /\ ending = "none" /\ ~ended /\ item # [t \in Checker |-> "none"]
  /\ ended' = TRUE
  /\ UNCHANGED <<mode, tree, next, found, item, argv, printed, run, told, ending, report, edits, mishaps>>

ChecksNext ==
  \/ DetectTool \/ Schedule \/ MapReturns \/ EditTree \/ Interrupt
  \/ \E t \in Checker : BuildCmd(t) \/ Refuse(t) \/ Exit(t)

ChecksSpec == ChecksInit /\ [][ChecksNext]_checksVars

-----------------------------------------------------------------------------
(* Properties.                                                             *)

\* Silence is good news: when a lint is over without an error, every linter
\* that was let through has its run in the report, or has said that it found
\* nothing, or is named in the log; when a format is over without an error,
\* every formatter has ended well, one at a time, whatever its siblings did;
\* and no tool that is to be given files runs without one.
SilenceIsGoodNews ==
  /\ ending = "ok" =>
       \A t \in Passed :
         IF mode = "format" THEN item[t] = "done" /\ ~printed[t][2]
         ELSE \/ t \in told
              \/ printed[t][1] \in {"clean", "nothing"}
              \/ <<t, "findings">> \in report
  /\ mode = "format" =>
       /\ \A t, u \in Passed : item[t] = "runs" /\ item[u] = "runs" => t = u
       /\ ending # "none" /\ ~ended => \A t \in Passed : item[t] = "done" /\ run[t] # "refused"
  /\ \A t \in Passed :
       item[t] = "runs" /\ Tools[t].args /\ found[t].glob # {} => argv[t] # {}
=============================================================================
