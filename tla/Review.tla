------------------------------- MODULE Review -------------------------------
(***************************************************************************)
(* `codebase lint --review`: which findings become annotations of a run of *)
(* GitHub Actions.  The commit to compare with is chosen from the          *)
(* environment and from what git knows, `git diff --unified=0` is read     *)
(* line by line, and a finding is annotated if its line is among those     *)
(* that were added.                                                        *)
(***************************************************************************)
EXTENDS Naturals, Sequences, SequencesExt

CONSTANTS
  File,     \* <<directory, name>>, from the root of the repository
  Text,     \* what a changed line begins with: "dashes" are --, "pluses" ++,
            \* "header" ++ and a blank
  LintDirs, \* where lint is started
  MaxLine,  \* bound on where a hunk begins
  Nothing

Top == ""
ReviewAssumption ==
  /\ Text \subseteq {"plain", "dashes", "pluses", "header"}
  /\ MaxLine \in Nat \ {0}

VARIABLES
  env,      \* what the environment names: actions, base, branch, before
  known,    \* what git finds: origin, branch, merge base, parent, the diff
  diff,     \* the files that differ from the base, in git's order
  lintDir,  \* where lint was started
  finding,  \* a result of a linter: its file, its line, and whether the
            \* linter writes full paths
  base, keys,
  stage     \* range, diff, annotate, then quiet or annotated

reviewVars == <<env, known, diff, lintDir, finding, base, keys, stage>>

Seqs(n) == UNION {[1..k -> Text] : k \in 0..n}
\* What git has of a file: one hunk, with the line it begins at in the new
\* file, or that the file is gone.
Section(f) ==
  {s \in [file : {f}, gone : BOOLEAN, first : 1..MaxLine, dels : Seqs(1), adds : Seqs(2)] :
     /\ s.dels \o s.adds # <<>>
     /\ s.gone => s.adds = <<>>}

Sections == UNION {Section(f) : f \in File}

\* Diffs of one file, or of two: what the second one is like hardly matters.
Diffs(firsts, seconds) ==
  {<<s>> : s \in Sections} \cup
  {d \in firsts \X {s \in seconds : s.gone \/ s.dels = <<>>} : d[1].file # d[2].file}

\* What one of these diffs may come with.
Reviews(diffs) ==
  /\ env \in SUBSET {"actions", "base", "branch", "before"}
  /\ known \in SUBSET {"origin", "branch", "merge", "parent", "diff"}
  /\ diff \in diffs
  /\ lintDir \in LintDirs
  /\ finding \in [file : {f \in File : lintDir = Top \/ f[1] = lintDir},
                  line : 1..MaxLine + 1, full : BOOLEAN]
  /\ base = Nothing /\ keys = {}
  /\ stage = "range"

ReviewInit == Reviews(Diffs(Sections, Sections))

-----------------------------------------------------------------------------

\* AnnotateIfApplicable: nothing outside of Actions, and only a warning when
\* there is nothing to compare with.  resolveDiffRange: what the environment
\* names comes first; of a branch, the one at the remote, and the merge base.
DiffRange ==
  LET local == {"origin", "branch"} \cap known
  IN /\ stage = "range"
     /\ base' = CASE "base" \in env -> "base"
                  [] "base" \notin env /\ "branch" \in env /\ local # {} ->
                       IF "merge" \in known THEN "merge"
                       ELSE IF "origin" \in known THEN "origin" ELSE "branch"
                  [] "base" \notin env /\ ("branch" \notin env \/ local = {}) ->
                       IF "before" \in env THEN "before"
                       ELSE IF "parent" \in known THEN "parent" ELSE Nothing
     /\ stage' = IF "actions" \in env /\ base' # Nothing THEN "diff" ELSE "quiet"
     /\ UNCHANGED <<env, known, diff, lintDir, finding, keys>>

\* A line of the diff: its mark, the text after it, and what a header says.
Marked(mark, texts) == [i \in DOMAIN texts |-> [mark |-> mark, text |-> texts[i], says |-> Nothing]]
Header(mark, says) == <<[mark |-> mark, text |-> "plain", says |-> says]>>
Rendered(s) ==
  Header("---", Nothing) \o Header("+++", IF s.gone THEN Nothing ELSE s.file)
  \o Header("@@", s.first) \o Marked("-", s.dels) \o Marked("+", s.adds)

\* Mutation: Lines that were deleted are counted as well.
ReadLineCounts(st, l) ==
  IF l.mark = "-" THEN [st EXCEPT !.line = @ + 1]
  ELSE CASE l.mark = "+++" -> [st EXCEPT !.file = l.says]
         [] l.mark = "@@" -> [st EXCEPT !.line = l.says]
         [] l.mark = "+" -> [st EXCEPT !.line = @ + 1, !.keys = @ \cup {<<st.file, st.line>>}]
         [] OTHER -> st

\* What a line is taken for goes by its prefix: an added "++ x" is a file's
\* header, and an added "++x" or a deleted "--x" is neither added nor deleted,
\* and counts as a line that did not change.
ReadLine(st, l) ==
  LET header == l.mark = "+++" \/ (l.mark = "+" /\ l.text = "header")
      added == l.mark = "+" /\ l.text \in {"plain", "dashes"}
      deleted == l.mark = "-" /\ l.text # "dashes"
  IN CASE header -> [st EXCEPT !.file = IF l.mark = "+++" THEN l.says ELSE <<"?", "?">>]
       [] l.mark = "@@" -> [st EXCEPT !.line = l.says]
       [] added /\ st.file # Nothing ->
            [st EXCEPT !.line = @ + 1, !.keys = @ \cup {<<st.file, st.line>>}]
       [] ~header /\ ~added /\ ~deleted /\ l.mark # "@@" /\ st.file # Nothing ->
            [st EXCEPT !.line = @ + 1]
       [] OTHER -> st

parseUnifiedDiffLines(lines) ==
  FoldLeft(ReadLine, [file |-> Nothing, line |-> 0, keys |-> {}], lines).keys

\* diffLineSet: git may know nothing of the base, and a diff may add nothing.
Diff ==
  /\ stage = "diff"
  /\ IF "diff" \in known
     THEN keys' = parseUnifiedDiffLines(FlattenSeq([i \in DOMAIN diff |-> Rendered(diff[i])]))
     ELSE UNCHANGED keys
  /\ stage' = IF keys' = {} THEN "quiet" ELSE "annotate"
  /\ UNCHANGED <<env, known, diff, lintDir, finding, base>>

\* A linter runs in the directory that lint was started for and names a file
\* from there, or in full; normalizeRepoPath takes only a full path to the root
\* of the repository.
normalizeRepoPath(f) ==
  IF finding.full \/ lintDir = Top THEN f ELSE <<Top, f[2]>>

Annotate ==
  /\ stage = "annotate"
  /\ stage' = IF <<normalizeRepoPath(finding.file), finding.line>> \in keys
              THEN "annotated" ELSE "quiet"
  /\ UNCHANGED <<env, known, diff, lintDir, finding, base, keys>>

ReviewNext == DiffRange \/ Diff \/ Annotate
ReviewSpec == ReviewInit /\ [][ReviewNext]_reviewVars

-----------------------------------------------------------------------------

\* The lines that were added, by what git compared.
Added == UNION {{<<diff[i].file, diff[i].first + n - 1>> : n \in DOMAIN diff[i].adds}
                : i \in {j \in DOMAIN diff : ~diff[j].gone}}

\* What parseUnifiedDiffLines and normalizeRepoPath are for: a finding becomes
\* an annotation exactly if its line was added, whatever the lines around it
\* say and wherever lint was started; without a diff to look at there is none.
AnnotatedIsAdded ==
  /\ stage = "annotated" => <<finding.file, finding.line>> \in Added
  /\ stage = "quiet" /\ "actions" \in env /\ base # Nothing /\ "diff" \in known =>
       <<finding.file, finding.line>> \notin Added

\* A changed line that is read as something else, and a file that a linter
\* names from a subdirectory.
Misread(s) ==
  "dashes" \in ToSet(s.dels) \/ {"pluses", "header"} \cap ToSet(s.adds) # {}
Misnamed == lintDir # Top /\ ~finding.full

\* So it is with every finding that is named from the root or in full, in a
\* file none of whose own changed lines is read as something else: whatever the
\* lines of the files before it say, and whatever was removed.
OthersDoNotMatter ==
  \/ Misnamed
  \/ \E i \in DOMAIN diff : diff[i].file = finding.file /\ Misread(diff[i])
  \/ AnnotatedIsAdded
=============================================================================
