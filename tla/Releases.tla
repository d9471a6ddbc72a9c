------------------------------ MODULE Releases ------------------------------
(***************************************************************************)
(* What comes from GitHub.  A goroutine that installs a tool lists its     *)
(* versions, asks for the assets of a tag, chooses one for the host and    *)
(* fetches it; one that fetches a source finds the commit of a branch and  *)
(* fetches its tarball.  A tool of mise is left to mise, which is such a   *)
(* tool itself.  Before each request the process's token is asked for.     *)
(*                                                                         *)
(* The first to ask looks the token up, once for the process: in the       *)
(* environment, or from `gh auth token`.  The gh on PATH may be a shim of  *)
(* this program, that installs gh first, in a process of its own; without  *)
(* one the lookup itself installs gh.  Either way the lookup makes         *)
(* requests, which ask for a token again.                                  *)
(***************************************************************************)
EXTENDS Integers, Sequences, FiniteSets, FiniteSetsExt, SequencesExt

CONSTANTS
  Caller,     \* goroutines of the first process
  Asks,       \* what they may want: functions to [kind, hint, version];
              \* hint: a binary by its name
  Release,    \* the releases that are published in time, oldest first
  Host, Arch, \* the platform
  MaxMishaps, MaxDepth,
  Nothing, Latest

\* Processes are 1 and those that look up the token for the one before; each of
\* these has one goroutine, of the process's number.
Child == 2..(MaxDepth + 1)
Worker == Caller \cup Child
Proc(w) == IF w \in Caller THEN 1 ELSE w
Token == "token"
Stop == "STOP"  \* the legacy sentinel

Tag == [n : Nat, v : BOOLEAN]
Wish == [kind : {"github", "curated", "source", "mise"}, hint : BOOLEAN, version : Tag \cup {Latest}]

ASSUME ReleasesAssumption ==
  /\ Caller \cap Child = {} /\ MaxDepth \in Nat \ {0}
  /\ Asks \subseteq [Caller -> Wish] /\ Latest \notin Tag
  /\ Host # Nothing /\ Arch # Nothing
  /\ Len(Release) \in Nat /\ \A i \in 1..Len(Release) : Release[i].tag \in Tag

VARIABLES
  published, \* how many releases there are by now
  gh,        \* on PATH: "none", "real" or "shim"
  env,       \* GITHUB_TOKEN
  login,     \* whether gh knows a token
  once,      \* of each process: "new", "led" or "done"
  token,     \* of each process
  frames,    \* of each worker: its installs, the one in hand last
  outcome,   \* of each worker: how its install ended
  probing,   \* of each process: the lookup asked gh
  mise,      \* what there is: "none", "mise", or "tool" as well
  mishaps

relVars == <<published, gh, env, login, once, token, frames, outcome, probing, mise, mishaps>>

\* kind: "github", "curated" (a short name for a GitHub tool), "source" or "mise".
GhAsk == [kind |-> "github", hint |-> TRUE, version |-> Latest]
MiseAsk == [kind |-> "curated", hint |-> TRUE, version |-> Latest]

-----------------------------------------------------------------------------
(* Choosing.                                                               *)

HasOS(a, os) == a.os = os /\ a.arch = Arch
Eligible(a) ==
  /\ HasOS(a, Host) \/ (Host = "android" /\ HasOS(a, "linux"))
  /\ "package" \notin a.traits

Points(a, trait, n) == IF trait \in a.traits THEN n ELSE 0
ScoreOfName(a) ==
  Points(a, "token", 120) + Points(a, "hint", 60) + Points(a, "archive", 10)
  + Points(a, "debug", -20) + Points(a, "side", -50) + Points(a, "primary", 40)

\* Mutation: No preference for the host's own build.
ScoreWithoutOS(a) ==
  IF ~Eligible(a) THEN 0 ELSE IF ScoreOfName(a) <= 0 THEN 1 ELSE ScoreOfName(a)
\* For a name to look for; 0 means that it is not eligible.
ScoreArtifact(a) ==
  IF ~Eligible(a) THEN 0
  ELSE LET s == (IF a.os = Host THEN 500 ELSE 0) + ScoreOfName(a)
       IN IF s <= 0 THEN 1 ELSE s

\* Assets whose name tells no platform are left out before; of equal scores
\* the shorter URL wins, and the sort is free to order the rest.
SelectArtifact(as) ==
  LET best == {a \in as : /\ ScoreArtifact(a) > 0
                          /\ \A b \in as : ScoreArtifact(b) <= ScoreArtifact(a)}
  IN {a \in best : \A b \in best : a.len <= b.len}

GetArtifacts(r) == {a \in r.assets : a.os # Nothing /\ a.arch # Nothing}

Stable(i) == ~Release[i].draft /\ ~Release[i].pre
\* Newest first, of a prefix; prereleases only where there is nothing else.
ReleaseTags(n) ==
  LET stable == {i \in 1..n : Stable(i)}
  IN IF stable # {} THEN stable ELSE {i \in 1..n : ~Release[i].draft}

Tagged(tag) == {i \in 1..published : Release[i].tag = tag /\ ~Release[i].draft}
V(tag) == [tag EXCEPT !.v = TRUE]
Bare(tag) == [tag EXCEPT !.v = FALSE]

-----------------------------------------------------------------------------
(* Workers and their installs.                                             *)

\* After the version is known: with a name to look for the manager lists the
\* assets itself, else the tool does.
Tries(ask, tag) ==
  IF ask.kind = "curated" /\ ~tag.v THEN "v" ELSE "exact"
First(ask) ==
  CASE ask.kind = "source" -> IF ask.version = Latest THEN "branch" ELSE "commit"
    [] ask.kind = "mise" -> IF ask.version = Latest THEN "mise latest" ELSE "mise where"
    [] OTHER -> IF ask.version = Latest THEN "list"
                ELSE IF ask.hint THEN "hint" ELSE Tries(ask, ask.version)
MisePhase == {"mise latest", "mise where", "mise install", "mise check"}
\* A request begins with the token, a command of mise with mise.
FirstStep(phase) == IF phase \in MisePhase THEN "mise" ELSE "token"
Frame(ask) ==
  [ask |-> ask, tag |-> ask.version, seen |-> 0, asset |-> Nothing, auth |-> Nothing,
   phase |-> First(ask), at |-> FirstStep(First(ask))]

Busy(w) == frames[w] # <<>>
Top(w) == Last(frames[w])
SetTop(w, f) == frames' = [frames EXCEPT ![w] = Append(Front(@), f)]
\* The request in hand got what it asked for: the next one begins.
GoesTo(w, f, phase) == SetTop(w, [f EXCEPT !.phase = phase, !.at = FirstStep(phase)])

RelInit ==
  /\ published \in 1..Len(Release)
  /\ gh \in {"none", "real", "shim"} /\ env \in {Nothing, Stop, Token} /\ login \in BOOLEAN
  /\ once = [p \in 1..(MaxDepth + 1) |-> "new"] /\ token = [p \in 1..(MaxDepth + 1) |-> Nothing]
  /\ probing = [p \in 1..(MaxDepth + 1) |-> FALSE]
  /\ \E ask \in Asks :
       frames = [w \in Worker |-> IF w \in Caller THEN <<Frame(ask[w])>> ELSE <<>>]
  /\ outcome = [w \in Worker |-> Nothing] /\ mise \in {"none", "mise"} /\ mishaps = 0

Publish ==
  /\ published < Len(Release) /\ published' = published + 1
  /\ UNCHANGED <<gh, env, login, once, token, frames, outcome, probing, mise, mishaps>>

\* An install is over: of the worker's own, or of gh for the lookup.
Pops(w, result) ==
  /\ frames' = [frames EXCEPT ![w] = Front(@)]
  /\ outcome' = [outcome EXCEPT ![w] = result]

-----------------------------------------------------------------------------
(* Token.                                                                  *)

ProbeEnvActive(p) == p > 1
Resolving(p) == once[p] = "led"

\* Mutation: The process's own lookup is not known from another's.
SkipsInChild(w) == ProbeEnvActive(Proc(w))
\* Within a lookup, this process's or the one that started it, requests go
\* without a token.
Skips(w) == ProbeEnvActive(Proc(w)) \/ Resolving(Proc(w))

SkipsToken(w) ==
  /\ Busy(w) /\ Top(w).at = "token" /\ Skips(w)
  /\ SetTop(w, [Top(w) EXCEPT !.auth = Nothing, !.at = "send"])
  /\ UNCHANGED <<published, gh, env, login, once, token, outcome, probing, mise, mishaps>>

\* The flags are read, and sync.Once is entered later.
PassesFlags(w) ==
  /\ Busy(w) /\ Top(w).at = "token" /\ ~Skips(w)
  /\ SetTop(w, [Top(w) EXCEPT !.at = "once"])
  /\ UNCHANGED <<published, gh, env, login, once, token, outcome, probing, mise, mishaps>>

KnowsToken(w) ==
  /\ Busy(w) /\ Top(w).at = "once" /\ once[Proc(w)] = "done"
  /\ SetTop(w, [Top(w) EXCEPT !.auth = token[Proc(w)], !.at = "send"])
  /\ UNCHANGED <<published, gh, env, login, once, token, outcome, probing, mise, mishaps>>

\* resolveToken: without gh on PATH the locator installs it.
LooksUp(w) ==
  LET p == Proc(w) IN
  /\ Busy(w) /\ Top(w).at = "once" /\ once[p] = "new"
  /\ once' = [once EXCEPT ![p] = "led"]
  /\ frames' = [frames EXCEPT ![w] =
       Append(Front(@), [Last(@) EXCEPT !.at = "lookup"])
       \o IF env = Nothing /\ gh = "none" THEN <<Frame(GhAsk)>> ELSE <<>>]
  /\ outcome' = [outcome EXCEPT ![w] = Nothing]
  /\ UNCHANGED <<published, gh, env, login, token, probing, mise, mishaps>>

Located(w) == outcome[w] # Nothing /\ outcome[w].ok
\* Not in an install that the lookup made.
InLookup(w) == Busy(w) /\ Top(w).at = "lookup"

EnvToken(w) == IF env = Stop THEN Nothing ELSE env

Resolved(w, t) ==
  /\ SetTop(w, [Top(w) EXCEPT !.at = "once"])
  /\ once' = [once EXCEPT ![Proc(w)] = "done"]
  /\ token' = [token EXCEPT ![Proc(w)] = t]
  /\ outcome' = [outcome EXCEPT ![w] = Nothing]

\* From the environment, or without a gh to ask.
FindsToken(w) ==
  /\ InLookup(w) /\ ~probing[Proc(w)]
  /\ env # Nothing \/ (gh = "none" /\ ~Located(w))
  /\ Resolved(w, EnvToken(w))
  /\ UNCHANGED <<published, gh, env, login, probing, mise, mishaps>>

\* `gh auth token`, with the probe in its environment.
Probe(w) ==
  LET p == Proc(w) IN
  /\ InLookup(w) /\ ~probing[p] /\ env = Nothing /\ (gh # "none" \/ Located(w))
  /\ probing' = [probing EXCEPT ![p] = TRUE]
  /\ IF gh = "shim" /\ p + 1 \in Child
     THEN /\ frames' = [frames EXCEPT ![p + 1] = <<Frame(GhAsk)>>]
          /\ outcome' = [outcome EXCEPT ![p + 1] = Nothing]
     ELSE UNCHANGED <<frames, outcome>>
  /\ UNCHANGED <<published, gh, env, login, once, token, mise, mishaps>>

\* gh answers, or the shim when its install of gh is over.
ProbeAnswers(w) ==
  LET p == Proc(w) IN
  /\ InLookup(w) /\ probing[p]
  /\ gh = "shim" => p + 1 \in Child /\ frames[p + 1] = <<>>
  /\ Resolved(w, IF login /\ (gh = "shim" => outcome[p + 1] # Nothing /\ outcome[p + 1].ok)
                 THEN Token ELSE Nothing)
  /\ UNCHANGED <<published, gh, env, login, probing, mise, mishaps>>

\* Two seconds, after which the child is killed; the caller's context may end
\* as well.
ProbeTimesOut(w) ==
  LET p == Proc(w) IN
  /\ InLookup(w) /\ probing[p]
  /\ mishaps < MaxMishaps /\ mishaps' = mishaps + 1
  /\ frames' = [q \in Worker |-> IF q \in Child /\ q > p THEN <<>>
                                ELSE IF q = w THEN Append(Front(frames[w]), [Top(w) EXCEPT !.at = "once"])
                                ELSE frames[q]]
  /\ once' = [once EXCEPT ![p] = "done"]
  /\ UNCHANGED <<published, gh, env, login, token, outcome, probing, mise>>

-----------------------------------------------------------------------------
(* Requests.                                                               *)

Ends(w, f, ok) == [ok |-> ok, ask |-> f.ask, tag |-> f.tag, asset |-> f.asset, seen |-> f.seen]
Sends(w, phase) == Busy(w) /\ Top(w).at = "send" /\ Top(w).phase = phase
Kept == UNCHANGED <<published, gh, env, login, once, token, probing, mise, mishaps>>

ListVersions(w) ==
  LET f == Top(w)  newest == ReleaseTags(published) IN
  /\ Sends(w, "list") /\ Kept
  /\ IF newest = {} THEN Pops(w, Ends(w, f, FALSE))
     ELSE LET t == Release[Max(newest)].tag
              tag == IF f.ask.kind = "curated" THEN Bare(t) ELSE t
          IN /\ GoesTo(w, [f EXCEPT !.tag = tag, !.seen = published],
                     IF f.ask.hint THEN "hint" ELSE Tries(f.ask, tag))
             /\ UNCHANGED outcome

\* A release that is not there, or none of whose assets will do, leaves it to
\* the tool.
ListArtifacts(w) ==
  LET f == Top(w)  found == UNION {SelectArtifact(GetArtifacts(Release[i])) : i \in Tagged(f.tag)} IN
  /\ Sends(w, "hint") /\ Kept /\ UNCHANGED outcome
  /\ IF found = {} THEN GoesTo(w, f, Tries(f.ask, f.tag))
     ELSE \E a \in found : GoesTo(w, [f EXCEPT !.asset = a], "fetch")

\* A curated tool tries the tag with a v first; only an error of the API, not a
\* release without an asset for the host, makes it try the bare one.
TryV(w) ==
  LET f == Top(w)  there == Tagged(V(f.tag))
      found == UNION {SelectArtifact(GetArtifacts(Release[i])) : i \in there} IN
  /\ Sends(w, "v") /\ Kept
  /\ IF there = {} THEN GoesTo(w, f, "exact") /\ UNCHANGED outcome
     ELSE IF found = {} THEN Pops(w, Ends(w, f, FALSE))
     ELSE (\E a \in found : GoesTo(w, [f EXCEPT !.tag = V(@), !.asset = a], "fetch")) /\ UNCHANGED outcome

TryExact(w) ==
  LET f == Top(w)  found == UNION {SelectArtifact(GetArtifacts(Release[i])) : i \in Tagged(f.tag)} IN
  /\ Sends(w, "exact") /\ Kept
  /\ IF found = {} THEN Pops(w, Ends(w, f, FALSE))
     ELSE (\E a \in found : GoesTo(w, [f EXCEPT !.asset = a], "fetch")) /\ UNCHANGED outcome

Fetch(w) ==
  /\ Sends(w, "fetch") /\ Kept /\ Pops(w, Ends(w, Top(w), TRUE))

-----------------------------------------------------------------------------
(* Sources, and mise.                                                      *)

\* The default branch and its commit.  A refused request is followed by one
\* look for a token, to tell whether to log in.
SourceGoesOn(w) ==
  LET f == Top(w) IN
  /\ Busy(w) /\ f.ask.kind = "source" /\ f.at = "send" /\ Kept
  /\ \/ f.phase = "branch" /\ GoesTo(w, f, "commit") /\ UNCHANGED outcome
     \/ f.phase = "commit" /\ GoesTo(w, f, "tarball") /\ UNCHANGED outcome
     \/ f.phase = "sorry" /\ Pops(w, Ends(w, f, FALSE))

\* The tarball of that commit, unpacked as it comes.
FetchTarball(w) == Sends(w, "tarball") /\ Kept /\ Pops(w, Ends(w, Top(w), TRUE))

\* Each command needs mise, as the home's lazy tool or else as the registry's.
EnsureMise(w) ==
  LET f == Top(w) IN
  /\ Busy(w) /\ f.at \in {"mise", "as lazy tool", "as registry tool"}
  /\ IF mise # "none" \/ (f.at # "mise" /\ outcome[w].ok)
     THEN /\ SetTop(w, [f EXCEPT !.at = "send"])
          /\ mise' = IF mise = "none" THEN "mise" ELSE mise
          /\ UNCHANGED outcome
     ELSE /\ CASE f.at = "mise" ->
                 /\ frames' = [frames EXCEPT ![w] =
                      Append(Front(@), [f EXCEPT !.at = "as lazy tool"]) \o <<Frame(MiseAsk)>>]
                 /\ UNCHANGED outcome
            [] f.at = "as lazy tool" ->
                 /\ frames' = [frames EXCEPT ![w] =
                      Append(Front(@), [f EXCEPT !.at = "as registry tool"]) \o <<Frame(MiseAsk)>>]
                 /\ UNCHANGED outcome
            [] f.at = "as registry tool" ->
                 IF f.phase = "mise where" THEN GoesTo(w, f, "mise install") /\ UNCHANGED outcome
                 ELSE Pops(w, Ends(w, f, FALSE))
          /\ UNCHANGED mise
  /\ UNCHANGED <<published, gh, env, login, once, token, probing, mishaps>>

\* EnsureBinary: where it is, or else install it and ask again; then a link.
MiseGoesOn(w) ==
  LET f == Top(w) IN
  /\ Busy(w) /\ f.ask.kind = "mise" /\ f.at = "send"
  /\ CASE f.phase = "mise latest" -> GoesTo(w, f, "mise where") /\ UNCHANGED <<outcome, mise>>
       [] f.phase = "mise where" /\ mise # "tool" -> GoesTo(w, f, "mise install") /\ UNCHANGED <<outcome, mise>>
       [] f.phase = "mise install" -> GoesTo(w, f, "mise check") /\ mise' = "tool" /\ UNCHANGED outcome
       [] OTHER -> Pops(w, Ends(w, f, mise = "tool")) /\ UNCHANGED mise
  /\ UNCHANGED <<published, gh, env, login, once, token, probing, mishaps>>

\* The API refuses, with a rate limit for one, or nothing comes back.
RequestFails(w, api) ==
  LET f == Top(w) IN
  /\ Busy(w) /\ f.at = "send" /\ mishaps < MaxMishaps /\ mishaps' = mishaps + 1
  /\ IF f.phase = "hint" THEN GoesTo(w, f, Tries(f.ask, f.tag)) /\ UNCHANGED outcome
     ELSE IF f.phase = "v" /\ api THEN GoesTo(w, f, "exact") /\ UNCHANGED outcome
     ELSE IF f.phase = "mise where" THEN GoesTo(w, f, "mise install") /\ UNCHANGED outcome
     ELSE IF f.ask.kind = "source" /\ api THEN GoesTo(w, f, "sorry") /\ UNCHANGED outcome
     ELSE Pops(w, Ends(w, f, FALSE))
  /\ UNCHANGED <<published, gh, env, login, once, token, probing, mise>>

Works(w) ==
  \/ SkipsToken(w) \/ PassesFlags(w) \/ KnowsToken(w) \/ LooksUp(w) \/ FindsToken(w)
  \/ Probe(w) \/ ProbeAnswers(w)
  \/ ListVersions(w) \/ ListArtifacts(w) \/ TryV(w) \/ TryExact(w) \/ Fetch(w)
  \/ SourceGoesOn(w) \/ FetchTarball(w) \/ EnsureMise(w) \/ MiseGoesOn(w)

RelNext ==
  \/ Publish
  \/ \E w \in Worker :
       Works(w) \/ ProbeTimesOut(w) \/ \E api \in BOOLEAN : RequestFails(w, api)

\* Goroutines run, and requests and gh answer or fail.
RelFairness == \A w \in Worker : WF_relVars(Works(w))

RelSpec == RelInit /\ [][RelNext]_relVars /\ RelFairness

-----------------------------------------------------------------------------
(* Properties.                                                             *)

Installed(w) == w \in Worker /\ outcome[w] # Nothing /\ outcome[w].ok

\* What is installed is an asset of the release that was asked for, or of the
\* newest stable one when the versions were listed, a prerelease only when
\* there was no other; it fits the host, with a build for another system only
\* when the release has none for the host's own.
RightRelease ==
  \A w \in Worker : Installed(w) /\ outcome[w].ask.kind \in {"github", "curated"} =>
    LET o == outcome[w]  i == CHOOSE j \in 1..Len(Release) : Release[j].tag = o.tag IN
    /\ o.asset \in Release[i].assets /\ "package" \notin o.asset.traits /\ o.asset.arch = Arch
    /\ o.asset.os = Host \/ \A a \in Release[i].assets :
                              ~(HasOS(a, Host) /\ "package" \notin a.traits)
    /\ IF o.ask.version = Latest
       THEN /\ Release[i].pre => \A j \in 1..o.seen : ~Stable(j)
            /\ \A j \in (i + 1)..o.seen : ~Stable(j)
       ELSE Bare(o.tag) = Bare(o.ask.version) /\ (~o.ask.kind = "curated" => o.tag = o.ask.version)

\* The lookup of the token: once in a process, in which requests to install gh
\* are made without one; the sentinel is never sent; and a process that a
\* lookup started never starts another ("breaking the forkbomb").
ProbesDoNotNest ==
  /\ \A p \in Child : ~probing[p] /\ once[p] = "new"
  /\ \A w \in Worker : Len(frames[w]) <= 3
  /\ \A w \in Worker, n \in 1..3 : n <= Len(frames[w]) => frames[w][n].auth \in {Nothing, Token}

\* The right asset is installed, and the lookups that its requests need come to
\* no harm.
RightAsset == RightRelease /\ ProbesDoNotNest

\* Whoever installs what, with the lookup among them or before them: every
\* install comes to an end.
EveryInstallEnds == \A w \in Caller : Busy(w) ~> ~Busy(w)
=============================================================================
