-------------------------------- MODULE Sudo --------------------------------
(***************************************************************************)
(* The queue of commands that need root: a file for each slug, written by  *)
(* those who ask (by hand, a rebuild, the cleanup of old nix profiles) and *)
(* run, then removed, by who approves.  Nothing locks the directory.       *)
(***************************************************************************)
EXTENDS Naturals, FiniteSets

CONSTANTS
  Requester, KindOf,  \* "add", "rebuild" or "gc"
  Given,              \* slugs that are given by hand
  Random, Invalid,    \* slugs that are drawn; slugs that are no file name
  Approver,
  Nothing, MaxLinks, MaxApproves, MaxSlips

VARIABLES
  root,      \* the requesters run as root
  queue,     \* by slug
  req,       \* by requester: how far it is, its slug and its command
  app,       \* by approver: how far it is, the slug and what it read
  attempts,  \* by requester: how often its command was run
  rejected,  \* slugs that were rejected
  links, master,  \* generations of a profile; the one that is in use
  rolledBack,     \* the user went back to an older generation
  system,    \* the requester whose build is switched to
  approves, slips

sudoVars == <<root, queue, req, app, attempts, rejected, links, master, rolledBack, system, approves, slips>>

Slug == Given \cup Random \cup Invalid \cup {"rebuild", "nix-gc-cleanup"}

ASSUME SudoAssumption ==
  /\ KindOf \in [Requester -> {"add", "rebuild", "gc"}] /\ Nothing \notin Requester
  /\ IsFiniteSet(Approver)
  /\ {MaxLinks, MaxApproves, MaxSlips} \subseteq Nat /\ MaxLinks > 0

SudoInit ==
  /\ root \in BOOLEAN
  /\ queue = [s \in Slug |-> Nothing]
  /\ req = [r \in Requester |-> [at |-> "idle", slug |-> Nothing, files |-> {}]]
  /\ app = [a \in Approver |-> [at |-> "idle", slug |-> Nothing, by |-> Nothing]]
  /\ attempts = [r \in Requester |-> 0] /\ rejected = {}
  /\ links = {1} /\ master = 1 /\ rolledBack = FALSE /\ system = Nothing
  /\ approves = 0 /\ slips = 0

profile == <<links, master, rolledBack>>

-----------------------------------------------------------------------------
(* Those who ask.                                                          *)

\* CleanupProfiles reads the directory, then the link of each master.
ReadLinks(r) ==
  /\ req[r].at = "idle" /\ KindOf[r] = "gc"
  /\ req' = [req EXCEPT ![r].at = "listed", ![r].files = links]
  /\ UNCHANGED <<root, queue, app, attempts, rejected, profile, system, approves, slips>>

\* Mutation: The generation in use is not kept.
ReadMasterTakesAll(r) ==
  /\ req[r].at = "listed"
  /\ req' = [req EXCEPT ![r].at = IF req[r].files = {} THEN "none" ELSE "ask", ![r].slug = "nix-gc-cleanup"]
  /\ UNCHANGED <<root, queue, app, attempts, rejected, profile, system, approves, slips>>

\* The generation in use is kept; without others there is nothing to ask.
ReadMaster(r) ==
  /\ req[r].at = "listed"
  /\ LET old == req[r].files \ {master}
     IN req' = [req EXCEPT ![r] = [at |-> IF old = {} THEN "none" ELSE "ask",
                                   slug |-> "nix-gc-cleanup", files |-> old]]
  /\ UNCHANGED <<root, queue, app, attempts, rejected, profile, system, approves, slips>>

\* A rebuild has its build; without a slug one is drawn.
Ask(r) ==
  /\ req[r].at = "idle" /\ KindOf[r] # "gc"
  /\ \E s \in IF KindOf[r] = "rebuild" THEN {"rebuild"} ELSE Given \cup Random :
       req' = [req EXCEPT ![r].at = "ask", ![r].slug = s]
  /\ UNCHANGED <<root, queue, app, attempts, rejected, profile, system, approves, slips>>

\* The command of a requester takes effect.  rm goes on after a file that is
\* not there.
Runs(r) ==
  /\ attempts' = [attempts EXCEPT ![r] = @ + 1]
  /\ links' = links \ (IF KindOf[r] = "gc" THEN req[r].files ELSE {})
  /\ system' = IF KindOf[r] = "rebuild" THEN r ELSE system

RunsAsRoot(r) ==
  /\ root /\ KindOf[r] # "add" /\ req[r].at = "ask"
  /\ req' = [req EXCEPT ![r].at = "done"] /\ Runs(r)
  /\ UNCHANGED <<root, queue, app, rejected, master, rolledBack, approves, slips>>

\* The file replaces one of the same slug, or the request fails.
Enqueue(r) ==
  /\ req[r].at = "ask" /\ (root => KindOf[r] = "add")
  /\ \/ /\ req[r].slug \notin Invalid
        /\ queue' = [queue EXCEPT ![req[r].slug] = r] /\ req' = [req EXCEPT ![r].at = "queued"]
        /\ UNCHANGED slips
     \/ /\ req[r].slug \in Invalid /\ req' = [req EXCEPT ![r].at = "failed"] /\ UNCHANGED <<root, queue, slips>>
     \/ /\ slips < MaxSlips /\ slips' = slips + 1
        /\ req' = [req EXCEPT ![r].at = "failed"] /\ UNCHANGED queue
  /\ UNCHANGED <<root, app, attempts, rejected, profile, system, approves>>

-----------------------------------------------------------------------------
(* Those who decide.                                                       *)

Get(a, s) ==
  /\ app[a].at = "idle" /\ approves < MaxApproves /\ queue[s] # Nothing
  /\ approves' = approves + 1
  /\ app' = [app EXCEPT ![a] = [at |-> "run", slug |-> s, by |-> queue[s]]]
  /\ UNCHANGED <<root, queue, req, attempts, rejected, profile, system, slips>>

\* sudo runs it, for as long as it takes, or cannot: it is an attempt either way.
Run(a) ==
  /\ app[a].at = "run" /\ app' = [app EXCEPT ![a].at = "remove"]
  /\ Runs(app[a].by)
  /\ UNCHANGED <<root, queue, req, rejected, master, rolledBack, approves, slips>>

CannotRun(a) ==
  /\ app[a].at = "run" /\ slips < MaxSlips /\ slips' = slips + 1
  /\ app' = [app EXCEPT ![a].at = "remove"]
  /\ attempts' = [attempts EXCEPT ![app[a].by] = @ + 1]
  /\ UNCHANGED <<root, queue, req, rejected, profile, system, approves>>

\* Always, and whatever the slug stands for by now.
RemoveIt(a) ==
  /\ app[a].at = "remove" /\ app' = [app EXCEPT ![a].at = "idle"]
  /\ queue' = [queue EXCEPT ![app[a].slug] = Nothing]
  /\ UNCHANGED <<root, req, attempts, rejected, profile, system, approves, slips>>

\* The approve command is killed: the file stays.
Killed(a) ==
  /\ app[a].at # "idle" /\ slips < MaxSlips /\ slips' = slips + 1
  /\ app' = [app EXCEPT ![a].at = "idle"]
  /\ UNCHANGED <<root, queue, req, attempts, rejected, profile, system, approves>>

Reject(s) ==
  /\ queue[s] # Nothing /\ queue' = [queue EXCEPT ![s] = Nothing]
  /\ rejected' = rejected \cup {s}
  /\ UNCHANGED <<root, req, app, attempts, profile, system, approves, slips>>

-----------------------------------------------------------------------------
(* nix: a new generation, or one of the older again.                       *)

NewGeneration ==
  /\ \E n \in 2..MaxLinks :
       (\A l \in links : l < n) /\ n - 1 \in links /\ master' = n /\ links' = links \cup {n}
  /\ UNCHANGED <<root, queue, req, app, attempts, rejected, rolledBack, system, approves, slips>>

GoBack ==
  /\ \E l \in links : l < master /\ master' = l
  /\ rolledBack' = TRUE
  /\ UNCHANGED <<root, queue, req, app, attempts, rejected, links, system, approves, slips>>

SudoNext ==
  \/ \E r \in Requester : ReadLinks(r) \/ ReadMaster(r) \/ Ask(r) \/ RunsAsRoot(r) \/ Enqueue(r)
  \/ \E a \in Approver : (\E s \in Slug : Get(a, s)) \/ Run(a) \/ CannotRun(a) \/ RemoveIt(a) \/ Killed(a)
  \/ \E s \in Slug : Reject(s)
  \/ NewGeneration \/ GoBack

SudoSpec == SudoInit /\ [][SudoNext]_sudoVars

-----------------------------------------------------------------------------
(* Properties.                                                             *)

Shared(s) == \E q, r \in Requester : q # r /\ req[q].slug = s /\ req[r].slug = s

\* A request that was queued waits until it is run or rejected, unless another
\* has its slug: then the later one takes its place, and an approval that runs
\* the earlier one removes the later.  It is not run again when it was run,
\* except by approvals at the same time or after one was killed; as root it is
\* run at once, and once.  The cleanup of old generations, however late it is
\* approved, leaves the one in use, unless the user has gone back to an older one.
QueueIsHonest ==
  /\ \A r \in Requester :
       /\ req[r].at = "queued" /\ ~Shared(req[r].slug) /\ req[r].slug \notin rejected =>
            queue[req[r].slug] = r \/ attempts[r] > 0
       /\ req[r].at = "queued" => attempts[r] <= Cardinality(Approver) + slips
       /\ req[r].at # "queued" => attempts[r] = IF req[r].at = "done" THEN 1 ELSE 0
  /\ master \in links \/ rolledBack
=============================================================================
