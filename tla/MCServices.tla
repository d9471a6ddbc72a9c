----------------------------- MODULE MCServices -----------------------------
(***************************************************************************)
(* Work that others take part in, side by side: the lsp proxy between an   *)
(* editor and its servers, the routes of its requests, an apply of a home  *)
(* that its user edits, and installs of published releases.  They share no *)
(* state, so a behaviour exercises one of them, and the others stay at one *)
(* initial state.                                                          *)
(***************************************************************************)
EXTENDS LspProxy, Deploy, Releases, TLC

CONSTANTS
  ext, go, cue, gopls, lint, main, conf,
  d, inner, g, home, file1, file2, script, link, srcA, srcB,
  g1, g2

VARIABLES
  part,  \* the part that a behaviour exercises
  cfg, open, tried, bound, live, reply, opens

\* One language served by two servers, another that shares one of them, and a
\* document of each; two messages of a paced editor, and one crash.
TheLangOf == [x \in Doc |-> IF x = main THEN go ELSE cue]
TheBindings == [l \in Lang |-> IF l = go THEN <<gopls, lint>> ELSE <<lint>>]
TheCapable == [l \in Lang |-> ServersOf(l)]

\* main has an extension and conf has none.  go is served by keys 1_gopls and
\* 10_lint, or by one server under two keys; an extension may be written twice.
Entry(l, k, s, caps) == [lang |-> l, digits |-> k, server |-> s, caps |-> caps]
Blocks ==
  {[extensions |-> {<<ext, go>>}, languageIDs |-> {<<"cue", cue>>},
    attachments |-> {Entry(go, <<1>>, gopls, {}),
                     Entry(go, <<1, 0>>, lint, {"hover", "resolve"}),
                     Entry(cue, <<>>, lint, {"workspaceSymbol", "semanticTokens"})}],
   [extensions |-> {<<ext, go>>, <<ext, cue>>}, languageIDs |-> {<<"go", go>>},
    attachments |-> {Entry(go, <<0, 9>>, gopls, {"hover"}),
                     Entry(go, <<9>>, gopls, {"semanticTokens"})}]}
Q == INSTANCE LspRoutes WITH
  Ext <- {ext}, LanguageId <- {"go", "cue"}, ExtOf <- (main :> ext) @@ (conf :> NoDoc),
  Rank <- (gopls :> 11) @@ (lint :> 12), Configs <- Blocks, None <- NoDoc, MaxOpens <- 2,
  Methods <- {<<"textDocument", "hover">>, <<"textDocument", "semanticTokens", "range">>,
              <<"workspace", "symbol">>, <<"completionItem", "resolve">>},
  backends <- live

\* d is a directory or a file, inner lies in d, g is in the home; a file in d and
\* one beside it, a symlink in d alone, or a script alone.
TheParent == [p \in Path |-> IF p = inner THEN d ELSE home]
TheKindOf ==
  [v \in Version |-> IF v = script THEN "exec" ELSE IF v = link THEN "link" ELSE "file"]
TheSourceOf == [v \in Version |-> IF v = file1 THEN srcA ELSE srcB]
Holding(P, v) == [p \in Path |-> IF p \in P THEN v ELSE Absent]
Homes == {Holding({inner, g}, file1), Holding({inner}, link), Holding({g}, script)}
IgnoreNoneOrG == {{}, {g}}

\* Three releases of one repository for an Android host: a prerelease that
\* other programs' files lie beside, a release with a debug build and one for
\* another system, and a draft.
Published(n, v, pre, draft, as) ==
  [tag |-> [n |-> n, v |-> v], draft |-> draft, pre |-> pre, assets |-> as]
Asset(os, ts, l) == [os |-> os, arch |-> "arm64", traits |-> ts, len |-> l]
TheReleases ==
  <<Published(1, TRUE, TRUE, FALSE,
              {Asset("linux", {"hint", "primary", "archive"}, 2),
               Asset("android", {"side"}, 1), Asset(Nothing, {"hint"}, 1)}),
    Published(2, FALSE, FALSE, FALSE,
              {Asset("linux", {"hint"}, 2), Asset("linux", {"hint", "debug"}, 2),
               Asset("android", {"hint", "package"}, 2)}),
    Published(3, TRUE, FALSE, TRUE, {Asset("linux", {"hint"}, 2)})>>
Ask(kind, hint, version) == [kind |-> kind, hint |-> hint, version |-> version]
Both(x, y) == [w \in {g1, g2} |-> IF w = g1 THEN x ELSE y]
TheAsks ==
  {Both(Ask("curated", TRUE, Latest), Ask("curated", FALSE, [n |-> 2, v |-> FALSE])),
   Both(Ask("mise", FALSE, Latest), Ask("source", FALSE, Latest))}
ASSUME Q!RoutesAssumption

routes == <<cfg, open, tried, bound, live, reply, opens>>
\* One thing at a time is out of the ordinary: the token of the environment, a
\* gh that is missing, a shim or not logged in, and a mise that is missing.
Ordinary ==
  /\ published < 3
  /\ env # Nothing => gh = "real" /\ login /\ mise = "mise" /\ frames[g1][1].ask.kind = "curated"
  /\ env = Nothing /\ frames[g1][1].ask.kind = "curated" =>
       mise = "mise" /\ (published = 1 => gh = "real") /\ (~login => gh = "real")
  /\ frames[g1][1].ask.kind = "mise" => published = 2 /\ mise = "none" /\ gh = "none" /\ login

Init ==
  /\ part \in {"lsp", "routes", "apply", "releases"}
  /\ LspInit /\ Q!RoutesInit /\ ApplyInit
  /\ RelInit /\ Ordinary
  /\ part # "releases" => env = Token /\ published = 1

Next ==
  \/ part = "lsp" /\ LspNext /\ UNCHANGED <<part, routes, deployVars, relVars>>
  \/ part = "routes" /\ Q!RoutesNext /\ UNCHANGED <<part, lspVars, deployVars, relVars>>
  \/ part = "apply" /\ ApplyNext /\ UNCHANGED <<part, lspVars, routes, relVars>>
  \/ part = "releases" /\ RelNext /\ UNCHANGED <<part, lspVars, routes, deployVars>>

\* The editor sends and the user applies when they like; an install has begun
\* from the start.
Fairness ==
  /\ WF_lspVars(part = "lsp" /\ Loop)
  /\ \A s \in {gopls, lint} :
       /\ WF_lspVars(part = "lsp" /\ Request(s)) /\ WF_lspVars(part = "lsp" /\ Watch(s))
       /\ WF_lspVars(loop = "closing" /\ ServerAnswers(s))
  /\ \A p \in Path :
       WF_deployVars(part = "apply" /\ PlanOne(p)) /\ WF_deployVars(part = "apply" /\ Item(p))
  /\ WF_deployVars(part = "apply" /\ PlanReturns) /\ WF_deployVars(part = "apply" /\ StartExecute)
  /\ WF_deployVars(part = "apply" /\ ExecuteReturns) /\ WF_deployVars(part = "apply" /\ Save)
  /\ \A w \in Worker : WF_relVars(part = "releases" /\ Works(w))

Spec == Init /\ [][Next]_<<part, lspVars, routes, deployVars, relVars>> /\ Fairness

-----------------------------------------------------------------------------
(* What the run checks; each is stated in its module.                      *)

\* Lsp proxy: a request is put to the right servers, each answers it once,
\* whoever gives the answer, and nothing of the answers is lost.
AnswersAreWhole == PendingIsWaitedFor /\ Q!AnswerIsWhole
\* All three: the loop gets back to the editor, an apply and an install end.
WorkEnds ==
  EveryMessageHandled /\ ApplyEnds /\ (part = "releases" => EveryInstallEnds)
=============================================================================
