------------------------------- MODULE Shims -------------------------------
(***************************************************************************)
(* Which program a shim runs (internal/tool: RunTool, resolution.Resolver, *)
(* semver): the version that the directory, the home or the environment    *)
(* asks for, then the first installed package that has it, or has the tool *)
(* in its newest version, while an install replaces one of the versions.   *)
(* Materialize has the steps of an install; here they are what a reader    *)
(* of the directories can tell apart.                                      *)
(***************************************************************************)
EXTENDS Integers, Sequences, FiniteSets, SequencesExt, Functions

CONSTANTS
  Packages,     \* the packages in the order of their directories' names
  ToolVersion,  \* versions that may be installed
  PartsOf,      \* what Parse reads of each version's name, <<>> of "latest"
  Asked,        \* versions that a .tool-versions or the environment may name
  AnyVersion, Unasked,
  Levels,       \* how many directories have a .tool-versions, with the home's
  ToolTrees, Leftovers, Wants,  \* what may be there at the start
  MaxInstalls

Package == ToSet(Packages)
DirKinds == {"live", "old", "tmp"}
Name == [of : ToolVersion, kind : DirKinds]

ASSUME ShimsAssumption ==
  /\ Packages \in Seq(Package) /\ IsInjective(Packages)
  /\ PartsOf \in [ToolVersion -> Seq(Nat)]
  /\ {AnyVersion, Unasked} \cap (Asked \cup {"unreadable"}) = {} /\ AnyVersion # Unasked
  /\ ToolTrees \subseteq [Package \X ToolVersion -> {"gone", "whole", "other"}]
  /\ Leftovers \subseteq Package \X {n \in Name : n.kind # "live"}
  /\ Levels \in Nat /\ MaxInstalls \in Nat
  /\ Wants \subseteq [1 .. Levels -> Asked \cup {Unasked, "unreadable"}] \X (Asked \cup {Unasked})

VARIABLES
  dirs,     \* what each version directory of each package holds
  lines,    \* what each .tool-versions says of the tool, the home's the last
  var,      \* WORKSPACED_<TOOL>_VERSION
  shimAt, want, \* the shim: where it is, and the version it looks for
  pkg, names, candidates,  \* its package, the names to try there, what it found
  replacing,  \* the install under way: its package, version and step
  calm,     \* history: no install since the shim began, and no leftover before
  installs  \* bounded counter

svars == <<dirs, lines, var, shimAt, want, pkg, names, candidates, replacing, calm, installs>>

\* A directory that is not there, one without the tool's program, one that has
\* the program and not all it needs, a whole one, and one of another tool.
Contents == {"gone", "bare", "half", "whole", "other"}
Resting == [pkg |-> Unasked, of |-> Unasked, step |-> "none"]
-----------------------------------------------------------------------------
(* semver.go: a part without digits counts as 0, a missing one too.        *)
Parse(n) == IF n.kind = "live" THEN PartsOf[n.of] ELSE Append(PartsOf[n.of], 0)

PartAt(v, i) == IF i \in DOMAIN v THEN v[i] ELSE 0
Less(m, n) ==
  LET v == Parse(m)  w == Parse(n)
  IN  IF v = <<>> \/ w = <<>> THEN v # <<>>
      ELSE \E i \in 1 .. Len(v) + Len(w) :
             /\ PartAt(v, i) < PartAt(w, i)
             /\ \A j \in 1 .. i - 1 : PartAt(v, j) = PartAt(w, j)

Listed(p) == {n \in Name : dirs[p][n] # "gone"}
\* Mutation: the list is read from its beginning.
OldestOf(ns) == {n \in ns : \A m \in ns : ~Less(m, n)}

\* sort.Slice leaves equal ones in any order, and the last is tried first.
NewestOf(ns) == {n \in ns : \A m \in ns : ~Less(n, m)}

InstalledTools == {x \in Package \X Name : x[2].kind = "live" /\ dirs[x[1]][x[2]] \in {"whole", "other"}}
ListInstalled == {x \in Package \X Name : dirs[x[1]][x[2]] # "gone"}
CheckBin(p, n) == dirs[p][n] \in {"half", "whole"}
-----------------------------------------------------------------------------
(* A version is whole, or of another tool; a crash may have left a temp.   *)
ShimsInit ==
  /\ \E live \in ToolTrees, left \in {{}} \cup {{x} : x \in Leftovers} :
       dirs = [p \in Package |-> [n \in Name |->
                 IF n.kind = "live" THEN live[<<p, n.of>>]
                 ELSE IF <<p, n>> \in left THEN "half" ELSE "gone"]]
  /\ \E x \in Wants : lines = x[1] /\ var = x[2]
  /\ shimAt = "version" /\ want = Unasked /\ pkg = 1 /\ names = {} /\ candidates = <<>>
  /\ replacing = Resting /\ calm = (ListInstalled = InstalledTools) /\ installs = 0

(* resolveVersion: the nearest file that names the tool, then the home's,  *)
(* then the environment.  A file that cannot be read on the way ends it.   *)
ResolveVersion ==
  /\ shimAt = "version"
  /\ \/ /\ \A i \in DOMAIN lines : lines[i] = Unasked
        /\ want' = (IF var # Unasked THEN var ELSE AnyVersion) /\ shimAt' = "package"
     \/ \E i \in DOMAIN lines :
          /\ lines[i] # Unasked /\ \A j \in 1 .. i - 1 : lines[j] = Unasked
          /\ IF lines[i] = "unreadable" THEN shimAt' = "failed" /\ UNCHANGED want
             ELSE want' = lines[i] /\ shimAt' = "package"
  /\ UNCHANGED <<dirs, lines, var, pkg, names, candidates, replacing, calm, installs>>

(* A fixed version is the directory of just that name, if it is there.     *)
ReadPackage ==
  /\ shimAt = "package" /\ pkg <= Len(Packages)
  /\ names' = {n \in Listed(Packages[pkg]) : want = AnyVersion \/ (n.kind = "live" /\ n.of = want)}
  /\ shimAt' = "try"
  /\ UNCHANGED <<dirs, lines, var, want, pkg, candidates, replacing, calm, installs>>

Try ==
  /\ shimAt = "try"
  /\ \/ /\ names = {} /\ pkg' = pkg + 1 /\ shimAt' = "package"
        /\ UNCHANGED <<names, candidates>>
     \/ \E n \in NewestOf(names) :
          IF CheckBin(Packages[pkg], n)
          THEN /\ candidates' = Append(candidates, <<Packages[pkg], n>>)
               /\ names' = {} /\ pkg' = pkg + 1 /\ shimAt' = "package"
          ELSE names' = names \ {n} /\ UNCHANGED <<shimAt, pkg, candidates>>
  /\ UNCHANGED <<dirs, lines, var, want, replacing, calm, installs>>

(* The first candidate is run.                                             *)
Resolved ==
  /\ shimAt = "package" /\ pkg > Len(Packages)
  /\ shimAt' = IF candidates = <<>> THEN "notfound" ELSE "run"
  /\ UNCHANGED <<dirs, lines, var, want, pkg, names, candidates, replacing, calm, installs>>
-----------------------------------------------------------------------------
(* Manager.installWithHint, of a version that is there or not.             *)
DirOf(kind) == [of |-> replacing.of, kind |-> kind]
Holding(changes) ==
  dirs' = [dirs EXCEPT ![replacing.pkg] = [n \in Name |-> IF n \in DOMAIN changes THEN changes[n] ELSE @[n]]]
Step(from, to) == replacing.step = from /\ replacing' = [replacing EXCEPT !.step = to]
Set(n, h) == [m \in {n} |-> h]

InstallBegins(p, v) ==
  /\ replacing = Resting /\ installs < MaxInstalls
  /\ installs' = installs + 1
  /\ replacing' = [pkg |-> p, of |-> v, step |-> "fetch"]
  /\ calm' = FALSE
  /\ dirs' = [dirs EXCEPT ![p][[of |-> v, kind |-> "tmp"]] = "bare"]
  /\ UNCHANGED <<lines, var, shimAt, want, pkg, names, candidates>>

shimOnly == <<lines, var, shimAt, want, pkg, names, candidates, calm, installs>>

FetchProgram == Step("fetch", "rest") /\ Holding(Set(DirOf("tmp"), "half")) /\ UNCHANGED shimOnly
FetchRest == Step("rest", "swap") /\ Holding(Set(DirOf("tmp"), "whole")) /\ UNCHANGED shimOnly

MovesAside ==
  /\ Step("swap", "in")
  /\ Holding([n \in {DirOf("live"), DirOf("old")} |->
       IF n.kind = "live" THEN "gone" ELSE dirs[replacing.pkg][DirOf("live")]])
  /\ UNCHANGED shimOnly

MovesIn ==
  /\ Step("in", "clean")
  /\ Holding([n \in {DirOf("live"), DirOf("tmp")} |-> IF n.kind = "live" THEN "whole" ELSE "gone"])
  /\ UNCHANGED shimOnly

InstallEnds ==
  /\ replacing.step = "clean"
  /\ Holding(Set(DirOf("old"), "gone"))
  /\ replacing' = Resting
  /\ UNCHANGED shimOnly

(* The fetch fails and its temp goes, or the process ends as it is.        *)
InstallFails ==
  /\ replacing.step \in {"fetch", "rest"}
  /\ Holding(Set(DirOf("tmp"), "gone"))
  /\ replacing' = Resting
  /\ UNCHANGED shimOnly

InstallCrashes ==
  /\ replacing # Resting
  /\ replacing' = Resting
  /\ UNCHANGED <<dirs, shimOnly>>

ShimsNext ==
  \/ ResolveVersion \/ ReadPackage \/ Try \/ Resolved
  \/ \E p \in Package, v \in ToolVersion : InstallBegins(p, v)
  \/ FetchProgram \/ FetchRest \/ MovesAside \/ MovesIn
  \/ InstallEnds \/ InstallFails \/ InstallCrashes
ShimsSpec == ShimsInit /\ [][ShimsNext]_svars
-----------------------------------------------------------------------------
(* Properties.                                                             *)

\* The installed versions that a shim may mean.
Meant == {x \in InstalledTools : CheckBin(x[1], x[2]) /\ want \in {AnyVersion, x[2].of}}
Position(p) == CHOOSE i \in DOMAIN Packages : Packages[i] = p

\* Nobody installing, a shim runs a whole installed version of what the nearest
\* file asks for, of the first package that has it, and without a file or a
\* variable the newest of them; it finds nothing only if there is nothing, and
\* tool list shows just what is installed.  With an install under way it may be
\* misled, yet never to a version other than the one asked for
\* (Resolver.Resolve, resolveVersion, sortVersions).
ShimIsRight ==
  LET found == candidates[1]
  IN  /\ shimAt = "run" => want \in {AnyVersion, found[2].of}
      /\ shimAt = "run" /\ want = AnyVersion => var = Unasked /\ \A i \in DOMAIN lines : lines[i] = Unasked
      /\ shimAt = "run" /\ want # AnyVersion =>
           \/ \E i \in DOMAIN lines : lines[i] = want /\ \A j \in 1 .. i - 1 : lines[j] = Unasked
           \/ var = want /\ \A i \in DOMAIN lines : lines[i] = Unasked
      /\ calm => ListInstalled = InstalledTools
      /\ calm /\ shimAt = "notfound" => Meant = {}
      /\ calm /\ shimAt = "run" =>
           /\ found \in Meant
           /\ \A x \in Meant :
                /\ Position(found[1]) <= Position(x[1])
                /\ x[1] = found[1] => ~Less(found[2], x[2])
=============================================================================
