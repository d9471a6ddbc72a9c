---------------------------- MODULE MCCommands ----------------------------
(***************************************************************************)
(* What commands leave on disk and what they show, side by side: the lock  *)
(* file, backups, the binary, the desired state with its icon bundles, a   *)
(* tool's install; the progress UI, a child's row, the checks of a         *)
(* codebase and their review; the shell history, the queue of root         *)
(* commands, nix builds and deploys, where references lead, and what shims *)
(* run.  They share no state, so a behaviour exercises one of them, and    *)
(* the others stay at one initial state.                                   *)
(***************************************************************************)
EXTENDS Materialize, Backup, Update, Sudo, Locks, Pipeline, Checks, History, Nix, Display, Sources,
        Shims, Sequences, TLC

CONSTANTS
  ws, s1, r1, main, dev,                           \* locks
  g, x, y, d1, d2, d3,                             \* backup actions, destinations
  c1, c2,                                          \* commits, changes
  fp, i1, i2, st1, st2,                            \* a bundle, icons, dconf settings
  g1, t1, t2,                                      \* a task group, tasks
  src, sh, vendor,                                 \* files that rules ask for
  ls, cd, p1, p2,                                  \* commands, who records them
  q1, q2, q3,                                      \* who asks for root
  n1, n2,                                          \* machines
  deno, nodejs, v9, v10, beta                      \* packages, versions

VARIABLES
  part,  \* the part that a behaviour exercises
  text, read, row, committed, dropped,
  env, known, diff, lintDir, finding, base, keys, stage

\* A tool at its latest or at a fixed version, an input at HEAD, at a branch or
\* at a commit.
Asks(t, s) == [z \in {1, s1} |-> IF z = 1 THEN t ELSE s]
TheRepo == s1 :> r1
TheConfigs == {Asks(Latest, HEAD), Asks(2, dev), Asks(None, c2)}

\* Two lockers are at work at once with one move of the world, edit or fault; one
\* after the other, with two.  What is locked for a whole configuration is
\* locked in ws; Home is where tools fall back to.
OneAtWork == \A p, q \in Locker : pc[p] # "idle" /\ pc[q] # "idle" => p = q
Events == spent.moves + spent.edits + spent.faults
HomeForTools == \A p \in Locker : job[p].kind \in {"modlock", "refresh"} => job[p].space = ws
AnyLocker == Permutations(Locker)

\* Three actions on one tree, of Backup, which is extended; its two changes
\* conflict.  Of Update, which is extended, one process after the other, a newer
\* release and two mishaps; of Sudo, a cleanup, a rebuild and a command given by
\* hand under the rebuild's slug.
TheKind == (g :> "git") @@ (x :> "archive") @@ (y :> "rsync")
TheSrc == [z \in Action |-> g]
TheDst == (g :> d1) @@ (x :> d2) @@ (y :> d3)
OneWay == {<<c1, c2>>}
Wishes == (q1 :> "gc") @@ (q2 :> "rebuild") @@ (q3 :> "add")

\* A self, a place and an icon module, beside a config tree; the self module
\* may bring a file that conflicts with a file that is put together.
Produced(p, k, n, m, s) == [path |-> p, kind |-> k, part |-> n, scope |-> m, src |-> <<s>>]
Own == <<Produced(<<"rc">>, "template", 1, 1, "f1"), Produced(<<"m">>, "multi", 0, 1, "f2"),
         Produced(<<"s">>, "skip", 0, 1, "f3")>>
Entry(p, s) == [rel |-> p, src |-> <<s>>]
TheProvider == <<"self", "place", "icons">>
TheTree ==
  <<Produced(<<"rc">>, "static", 2, 0, "t1"), Produced(<<"x">>, "template", 0, 0, "t2")>>
TheFiles == [m \in 1..3 |-> {Own, Append(Own, Produced(<<"rc">>, "static", 0, 1, "f4"))}]
TheOrigin == 2 :> {Entry(<<"d", "a">>, "o1"), Entry(<<"a">>, "o2")}
TheSteps == 2 :> <<[op |-> "require", from |-> <<"a">>, to |-> <<>>, negate |-> FALSE],
                   [op |-> "move", from |-> <<"d", "a">>, to |-> <<"a">>, negate |-> FALSE]>>
TheBundle == 3 :> fp
TheNames == <<"1", "2">>

\* Three processes install one tool, one of them for a group that may end: of
\* Materialize, which is extended.
Apart == [z \in Caller |-> z]

\* Of Display, which is extended: two tasks, the second of which may be in a
\* subgroup; gone rows are removed at once.

\* A letter and three things that a child may write to its row, of each kind
\* of byte and sequence; more than the filter keeps never comes at once.
Token ==
  {<<"x">>, <<"y", "LF">>, <<"CR">>, <<"TAB">>, <<"BS">>, <<"ESC", "[", "K">>, <<"9b", "1", "K">>,
   <<"ESC", "[", "?", "2", "G">>, <<"c4", "9b">>, <<"ESC", "]", "x", "ESC", "\\">>,
   <<"ESC", "]", "BEL">>, <<"ESC", "[", "LF">>, <<"ESC", "x">>, <<"ESC", "[", "2", ";", "1", "C">>}
Texts == {<<"x">> \o i \o j \o k : i, j, k \in Token}
W == INSTANCE Row WITH MaxPending <- 20, MaxCols <- 4, Tab <- 2

\* A linter whose first rule keeps it out, one that is given the files of its
\* second rule, and one that needs two things.
Rule(p, gl, on) == [path |-> p, glob |-> gl, on |-> on]
Checked(codec, args, rules) == [enable |-> TRUE, codec |-> codec, args |-> args, rules |-> rules]
TheTools ==
  <<Checked("sarif", FALSE, <<Rule(vendor, {}, FALSE), Rule(src, {}, TRUE)>>),
    Checked("actionlint_json", TRUE, <<Rule(None, {}, TRUE), Rule(None, {sh}, TRUE)>>),
    Checked("eslint_json", FALSE, <<Rule(src, {sh}, TRUE)>>)>>

\* Two files of one name, in the root and in a directory where lint may start.
V == INSTANCE Review WITH
  File <- {<<"", "a">>, <<"sub", "a">>}, Text <- {"plain", "dashes", "pluses", "header"},
  LintDirs <- {"", "sub"},
  MaxLine <- 2, Nothing <- None

\* Two prompts; a bash file with a stamp and a blank line, an atuin database with
\* an entry that has no directory.
Typed(k, t, z) == [kind |-> k, time |-> t, cmd |-> z]
Synced(z, cwd, t, s) == [cmd |-> z, cwd |-> cwd, time |-> t, second |-> s]
TheTrimmed == (ls :> ls) @@ (cd :> None)
TheOld ==
  [bash |-> <<Typed("command", 0, ls), Typed("stamp", 2, None), Typed("blank", 0, None),
              Typed("command", 0, cd)>>,
   atuin |-> <<Synced(ls, None, 2, 2), Synced(cd, "d", 14, 1)>>]

\* A build of each kind, with another or alone; a deploy to two nodes.  The
\* second edit changes nixpkgs.
TheJobs == <<"run", "rbuild", "apply", "fresh">>
ThePkgs == (0 :> 1) @@ (1 :> 1) @@ (2 :> 2)
Together == {z \in 1..4 : work[z].at = "idle"}

\* References of each kind, with and without a pin; two inputs, one of them with
\* the name of a repository.
Ref(z, p) == [head |-> z, right |-> <<[at |-> <<p>>, pin |-> None]>>]
Pin(z, p) == [head |-> z, right |-> <<[at |-> <<p>>, pin |-> "v1"]>>]
TheReferences ==
  {Ref("github", "o"), Pin("github", "o"), Ref("local", "d"), Ref("self", "d"),
   Pin("self", "d"), Ref("a", "d"), Ref("b", "d"), Ref("gitlab", "o")}
ThePaths == {<<"d">>, <<"modules", "n">>}
TheItems == {Ref("a", "d"), Ref("self", "d"), Ref("local", "d")}
TheLocks == {<<>>, <<"o">> :> "main"}

\* Two packages that may have the tool; 1.10-beta counts as 1.10, as does
\* 1.10.tmp.  A file may name 1.9, or v1.9, which is the name of no directory.
ThePackages == <<deno, nodejs>>
TheParts == (v9 :> <<1, 9>>) @@ (v10 :> <<1, 10>>) @@ (beta :> <<1, 10>>)
TheAsked == {v9, "v1.9"}
TheToolTrees ==
  {h \in [{deno, nodejs} \X {v9, v10, beta} -> {"gone", "whole", "other"}] :
     /\ h[<<deno, v9>>] # "other" /\ h[<<deno, beta>>] # "other"
     /\ h[<<nodejs, v9>>] # "other" /\ h[<<nodejs, v10>>] = "gone" /\ h[<<nodejs, beta>>] = "gone"}
TheLeftovers == {<<deno, [of |-> beta, kind |-> "tmp"]>>}
TheWants ==
  {<<<<None, None>>, None>>, <<<<None, None>>, v9>>, <<<<None, v9>>, "v1.9">>,
   <<<<"v1.9", v9>>, None>>, <<<<None, "unreadable">>, v9>>}

ASSUME V!ReviewAssumption

\* The recursion of ingestBash, on these sources.
ASSUME ParsesRight

child == <<text, read, row, committed, dropped>>
review == <<env, known, diff, lintDir, finding, base, keys, stage>>

\* Diffs of every kind against one base, of two files if the second one's change
\* is small; and one diff in all surroundings.
OneLine == [file |-> <<"", "a">>, gone |-> FALSE, first |-> 1, dels |-> <<>>, adds |-> <<"plain">>]
Reviewed ==
  \/ /\ env = {"actions", "base"} /\ known = {"diff"}
     /\ V!Reviews(V!Diffs({s \in V!Sections : Len(s.adds) = 1 /\ s.first = 1},
                           {s \in V!Sections : Len(s.dels \o s.adds) = 1}))
  \/ V!Reviews({<<OneLine>>}) /\ lintDir = "" /\ ~finding.full

Init ==
  /\ part \in {"locks", "backup", "update", "pipeline", "install",
               "display", "child", "checks", "review", "history", "sudo", "nix", "sources",
               "shims"}
  /\ LocksInit /\ conf[Home] = Asks(2, dev) /\ (part = "locks" <=> conf[ws] # Asks(None, c2))
  /\ BackupInit
  /\ part # "backup" => ~repo[g].there /\ \A z \in {d1, d2, d3} : remote[z] = NoRef
  /\ UpdateInit
  /\ PipelineInit /\ (part # "pipeline" => dconf.wanted = st1)
  /\ CacheInit /\ (part # "install" => dest = Gone)
  /\ DispInit /\ (part # "display" => wantUI)
  /\ IF part = "child" THEN W!RowInit
     ELSE text = <<>> /\ read = 0 /\ row = W!Fresh /\ committed = <<>> /\ dropped = FALSE
  /\ ChecksInit /\ (part # "checks" => mode = "lint" /\ tree = {})
  /\ IF part = "review" THEN Reviewed
     ELSE /\ env = {} /\ known = {} /\ diff = <<>> /\ lintDir = "" /\ base = None /\ keys = {}
          /\ finding = [file |-> <<"", "a">>, line |-> 1, full |-> FALSE] /\ stage = "quiet"
  /\ HistInit /\ (part # "history" => daemon = "up")
  /\ SudoInit /\ (part # "sudo" => root)
  /\ NixInit
  /\ 3 \in Together \/ (host = "known" /\ ~inStore)
  /\ IF part # "nix" THEN Together = {} /\ deploy.at = "absent"
     ELSE /\ Together \in {{1, 2}, {1, 3}, {1, 4}, {3}, {}}
          /\ deploy.at = IF Together = {} THEN "none" ELSE "absent"
  /\ IF part = "sources" THEN SrcInit
     ELSE /\ inputs = <<>> /\ entry = None /\ itemRef = None /\ lockRows = <<>> /\ phase = "done"
          /\ runtime = None /\ schema = None /\ files = None /\ target = [kind |-> "plain"]
  /\ IF part = "shims" THEN ShimsInit
     ELSE /\ dirs = <<>> /\ lines = <<>> /\ var = None /\ shimAt = "failed" /\ want = None
          /\ pkg = 1 /\ names = {} /\ candidates = <<>> /\ replacing = Resting
          /\ calm = FALSE /\ installs = 0

stores == <<lockVars, backupVars, updateVars, pipelineVars, cacheVars>>
shows == <<dispVars, child, checksVars, review>>
others == <<histVars, sudoVars, nixVars, srcVars, svars>>

Next ==
  \/ part = "locks" /\ LocksNext /\ HomeForTools' /\ Events' <= (IF OneAtWork' THEN 2 ELSE 1)
     /\ UNCHANGED <<part, backupVars, updateVars, pipelineVars, cacheVars, shows, others>>
  \/ part = "backup" /\ BackupNext /\ UNCHANGED <<part, lockVars, updateVars, pipelineVars, cacheVars, shows, others>>
  \/ part = "update" /\ UpdateNext /\ UNCHANGED <<part, lockVars, backupVars, pipelineVars, cacheVars, shows, others>>
  \/ part = "pipeline" /\ PipelineNext /\ UNCHANGED <<part, lockVars, backupVars, updateVars, cacheVars, shows, others>>
  \/ part = "install" /\ CacheNext /\ UNCHANGED <<part, lockVars, backupVars, updateVars, pipelineVars, shows, others>>
  \/ part = "display" /\ DispNext /\ UNCHANGED <<part, stores, others, child, checksVars, review>>
  \/ part = "child" /\ W!RowNext /\ UNCHANGED <<part, stores, others, dispVars, checksVars, review>>
  \/ part = "checks" /\ ChecksNext /\ UNCHANGED <<part, stores, others, dispVars, child, review>>
  \/ part = "review" /\ V!ReviewNext /\ UNCHANGED <<part, stores, others, dispVars, child, checksVars>>
  \/ part = "history" /\ HistNext /\ UNCHANGED <<part, stores, shows, sudoVars, nixVars, srcVars, svars>>
  \/ part = "sudo" /\ SudoNext /\ UNCHANGED <<part, stores, shows, histVars, nixVars, srcVars, svars>>
  \/ part = "nix" /\ NixNext /\ UNCHANGED <<part, stores, shows, histVars, sudoVars, srcVars, svars>>
  \/ part = "sources" /\ SrcNext /\ UNCHANGED <<part, stores, shows, histVars, sudoVars, nixVars, svars>>
  \/ part = "shims" /\ ShimsNext /\ UNCHANGED <<part, stores, shows, histVars, sudoVars, nixVars, srcVars>>

Spec == Init /\ [][Next]_<<part, stores, shows, others>>

-----------------------------------------------------------------------------
(* What the run checks of the modules it extends is stated there; of the   *)
(* modules it instantiates it checks the following.                        *)

\* What is read of others does not depend on how it comes or what lies around
\* it: a child's row, and the lines that git says were added.
OutputIsRead == W!ChunksDoNotMatter /\ V!OthersDoNotMatter
=============================================================================
