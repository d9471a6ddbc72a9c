------------------------------ MODULE MCReview ------------------------------
(***************************************************************************)
(* Reviews of a diff whose lines may begin with dashes or pluses.          *)
(***************************************************************************)
EXTENDS Naturals, Sequences

CONSTANTS Nothing

VARIABLES env, known, diff, lintDir, finding, base, keys, stage

R == INSTANCE Review WITH
  File <- {<<"", "a">>, <<"sub", "a">>}, Text <- {"plain", "dashes"},
  LintDirs <- {""}, MaxLine <- 2

Init == R!ReviewInit /\ env = {"actions", "base"} /\ known = {"diff"}
Spec == Init /\ [][R!ReviewNext]_R!reviewVars

\* Review: a finding is annotated exactly if its line was added.
AnnotatedIsAdded == R!AnnotatedIsAdded
=============================================================================
