-------------------------------- MODULE Nix --------------------------------
(***************************************************************************)
(* Nix builds and deploys: builds here and on the builder, whose results   *)
(* are printed, run or queued for a rebuild; and the deploy of a flake to  *)
(* nodes, one task for each.  The flake is edited meanwhile, stores are    *)
(* garbage collected and nodes reboot.  A store path is a pair: what and   *)
(* of which revision of the flake.                                         *)
(***************************************************************************)
EXTENDS Naturals, FiniteSets

CONSTANTS
  Job, JobKind,       \* "build", "fresh", "run", "rbuild", "rrun", "rebuild" or "apply"
  CopyBack,           \* the jobs that want a remote result here
  Node, Here, Builder,
  Nixpkgs,            \* by revision: the nixpkgs it is built with
  MaxRev, MaxGcs, MaxReboots, MaxHitches, NoAction

VARIABLES
  host,    \* "riverwood", another "known" host, an "unknown" one, or "plain": no NixOS
  inStore, \* the dotfiles root lies in the store
  flake,   \* revision; 0 is the one that is published
  store,   \* by machine
  ram,     \* revisions that the process has the build of in its cache
  work, node, dep,
  deploy,  \* the command: how far it is, the action it is given, and the flake as it began
  gcs, reboots, hitches

nixVars == <<host, inStore, flake, store, ram, work, node, dep, deploy, gcs, reboots, hitches>>

Rev == 0..MaxRev
Machine == Node \cup {Here, Builder}
FlakeSource(v) == <<"source", v>>
Out(v) == <<"out", v>>
Top(n, v) == <<n, v>>

ASSUME NixAssumption ==
  /\ JobKind \in [Job -> {"build", "fresh", "run", "rbuild", "rrun", "rebuild", "apply"}]
  /\ Here # Builder
  /\ CopyBack \subseteq Job /\ \A j \in Job : JobKind[j] \in {"rrun", "apply"} => j \in CopyBack
  /\ {MaxGcs, MaxReboots, MaxHitches} \subseteq Nat /\ MaxRev \in Nat \ {0} /\ DOMAIN Nixpkgs = Rev

NixInit ==
  /\ host \in {"riverwood", "known", "unknown", "plain"} /\ inStore \in BOOLEAN
  /\ flake = 1 /\ ram = {}
  /\ store = [m \in Machine |-> IF m \in Node THEN {Top(m, 1)} ELSE {}]
  /\ \E S \in SUBSET Job :
       work = [j \in Job |-> [at |-> IF j \in S THEN "idle" ELSE "absent", v |-> 0, begun |-> 0, gcs |-> 0]]
  /\ node = [n \in Node |-> [running |-> 1, boot |-> 1, from |-> 1, live |-> FALSE]]
  /\ dep = [n \in Node |-> [at |-> "idle", v |-> 0, action |-> NoAction, seen |-> 0]]
  /\ deploy \in [at : {"none", "absent"}, action : {NoAction}, begun : {0}]
  /\ gcs = 0 /\ reboots = 0 /\ hitches = 0

Holds(m, p) == p \in store[m]
Gets(m, p) == store' = [store EXCEPT ![m] = @ \cup {p}]
JobGoes(j, at) == work' = [work EXCEPT ![j].at = at]
Built(j) == work' = [work EXCEPT ![j].at = "built", ![j].gcs = gcs]
remotely == {j \in Job : JobKind[j] \in {"rbuild", "rrun"} \/ (JobKind[j] = "apply" /\ host = "riverwood")}
hostEnv == <<host, inStore>>
nodes == <<node, dep, deploy>>
bounds == <<gcs, reboots, hitches>>

-----------------------------------------------------------------------------
(* Build and RemoteBuild.                                                  *)

\* An apply does nothing without NixOS, and a rebuild nothing on other hosts
\* than it knows; an apply on riverwood builds remotely before it looks.
BeginJob(j) ==
  /\ work[j].at = "idle"
  /\ work' = [work EXCEPT ![j].begun = flake,
       ![j].at = IF JobKind[j] = "apply" /\ host = "plain" THEN "ok"
                 ELSE IF JobKind[j] \in {"apply", "rebuild"} /\ j \notin remotely /\ host \in {"unknown", "plain"}
                 THEN "failed" ELSE "archive"]
  /\ UNCHANGED <<hostEnv, flake, store, ram, nodes, bounds>>

\* The flake as it is now is copied to the store; a rebuild from a root in the
\* store takes the published one.
Archive(j) ==
  /\ work[j].at = "archive"
  /\ LET v == IF JobKind[j] \in {"rebuild", "apply"} /\ j \notin remotely /\ inStore THEN 0 ELSE flake
     IN /\ Gets(Here, FlakeSource(v))
        /\ work' = [work EXCEPT ![j].v = v, ![j].at = IF j \in remotely THEN "copy" ELSE "lookup"]
  /\ UNCHANGED <<hostEnv, flake, ram, nodes, bounds>>

\* Mutation: A result in the cache is not looked for in the store.
LookupTrusts(j) ==
  /\ work[j].at = "lookup"
  /\ IF JobKind[j] # "fresh" /\ work[j].v \in ram THEN Built(j) ELSE JobGoes(j, "build")
  /\ UNCHANGED <<hostEnv, flake, store, ram, nodes, bounds>>

\* The cache is of sources, so an edit misses it; what was collected since is
\* forgotten.
Lookup(j) ==
  /\ work[j].at = "lookup"
  /\ LET hit == JobKind[j] # "fresh" /\ work[j].v \in ram
     IN IF hit /\ Holds(Here, Out(work[j].v))
        THEN Built(j) /\ UNCHANGED ram
        ELSE JobGoes(j, "build") /\ ram' = IF hit THEN ram \ {work[j].v} ELSE ram
  /\ UNCHANGED <<hostEnv, flake, store, nodes, bounds>>

BuildHere(j) ==
  /\ work[j].at = "build" /\ Holds(Here, FlakeSource(work[j].v))
  /\ Gets(Here, Out(work[j].v)) /\ Built(j)
  /\ ram' = IF JobKind[j] = "fresh" THEN ram ELSE ram \cup {work[j].v}
  /\ UNCHANGED <<hostEnv, flake, nodes, bounds>>

CopyTo(j) ==
  /\ work[j].at = "copy" /\ Holds(Here, FlakeSource(work[j].v))
  /\ Gets(Builder, FlakeSource(work[j].v)) /\ JobGoes(j, "remote")
  /\ UNCHANGED <<hostEnv, flake, ram, nodes, bounds>>

\* The out-link, of a name of its own, keeps the result from collection.
BuildThere(j) ==
  /\ work[j].at = "remote" /\ Holds(Builder, FlakeSource(work[j].v))
  /\ Gets(Builder, Out(work[j].v))
  /\ IF j \in CopyBack THEN JobGoes(j, "back") ELSE Built(j)
  /\ UNCHANGED <<hostEnv, flake, ram, nodes, bounds>>

CopyFrom(j) ==
  /\ work[j].at = "back" /\ Gets(Here, Out(work[j].v))
  /\ work' = [work EXCEPT ![j].at = IF JobKind[j] = "apply" THEN "result" ELSE "built", ![j].gcs = gcs]
  /\ UNCHANGED <<hostEnv, flake, ram, nodes, bounds>>

\* Rebuild takes the remote result as it is, but not if the dotfiles root is in the
\* store: then it builds what is published.
Rebuild(j) ==
  /\ work[j].at = "result"
  /\ IF inStore THEN /\ Gets(Here, FlakeSource(0))
                     /\ work' = [work EXCEPT ![j].v = 0, ![j].at = "lookup"]
     ELSE JobGoes(j, "built") /\ UNCHANGED store
  /\ UNCHANGED <<hostEnv, flake, ram, nodes, bounds>>

\* Printed, queued for who approves it, or run from here.
Uses(j) ==
  /\ work[j].at = "built"
  /\ JobGoes(j, IF JobKind[j] \in {"run", "rrun"} /\ ~Holds(Here, Out(work[j].v)) THEN "failed" ELSE "ok")
  /\ UNCHANGED <<hostEnv, flake, store, ram, nodes, bounds>>

\* A source was collected, or a step failed.
JobFails(j) ==
  /\ work[j].at \in {"archive", "build", "copy", "remote", "back"}
  /\ \/ work[j].at \in {"build", "copy"} /\ ~Holds(Here, FlakeSource(work[j].v)) /\ UNCHANGED hitches
     \/ work[j].at = "remote" /\ ~Holds(Builder, FlakeSource(work[j].v)) /\ UNCHANGED hitches
     \/ hitches < MaxHitches /\ hitches' = hitches + 1
  /\ JobGoes(j, "failed")
  /\ UNCHANGED <<hostEnv, flake, store, ram, nodes, gcs, reboots>>

-----------------------------------------------------------------------------
(* Deploy.                                                                 *)

NodeSteps(n, at) == dep' = [dep EXCEPT ![n].at = at]
jobs == <<hostEnv, flake, ram, work>>

Deploy(action) ==
  /\ deploy.at = "none" /\ deploy' = [at |-> "running", action |-> action, begun |-> flake]
  /\ dep' = [n \in Node |-> [dep[n] EXCEPT !.at = "build"]]
  /\ UNCHANGED <<jobs, store, node, bounds>>

\* Each node builds the flake as it finds it.
BuildNode(n) ==
  /\ dep[n].at = "build" /\ Gets(Here, Top(n, flake))
  /\ dep' = [dep EXCEPT ![n].at = "copy", ![n].v = flake]
  /\ UNCHANGED <<jobs, node, deploy, bounds>>

CopyClosure(n) ==
  /\ dep[n].at = "copy" /\ Holds(Here, Top(n, dep[n].v)) /\ Gets(n, Top(n, dep[n].v))
  /\ dep' = [dep EXCEPT ![n].at = IF deploy.action = "auto" THEN "detect" ELSE "check",
                        ![n].action = deploy.action]
  /\ UNCHANGED <<jobs, node, deploy, bounds>>

\* A live switch only if the node runs the same nixpkgs, and is seen to do so.
Detect(n) ==
  /\ dep[n].at = "detect"
  /\ \E a \in {"boot"} \cup IF Nixpkgs[dep[n].v] = Nixpkgs[node[n].running] THEN {"switch"} ELSE {} :
       dep' = [dep EXCEPT ![n].at = "check", ![n].action = a, ![n].seen = reboots]
  /\ UNCHANGED <<jobs, store, node, deploy, bounds>>

\* What runs already is not switched to, if it can be seen.
Check(n) ==
  /\ dep[n].at = "check"
  /\ NodeSteps(n, IF node[n].running = dep[n].v THEN "ok" ELSE "switch")
  /\ UNCHANGED <<jobs, store, node, deploy, bounds>>

CheckFails(n) ==
  /\ dep[n].at = "check" /\ hitches < MaxHitches /\ hitches' = hitches + 1 /\ NodeSteps(n, "switch")
  /\ UNCHANGED <<jobs, store, node, deploy, gcs, reboots>>

Switched(n) ==
  [running |-> IF dep[n].action = "boot" THEN node[n].running ELSE dep[n].v, boot |-> dep[n].v,
   from |-> node[n].running, live |-> dep[n].action # "boot"]

Switch(n) ==
  /\ dep[n].at = "switch" /\ Holds(n, Top(n, dep[n].v))
  /\ node' = [node EXCEPT ![n] = Switched(n)] /\ NodeSteps(n, "ok")
  /\ UNCHANGED <<jobs, store, deploy, bounds>>

\* A step fails by itself, for want of a path, or because the task of another
\* node failed; an ssh that is killed may have done its work.
FailsNode(n) ==
  /\ dep[n].at \notin {"idle", "ok", "failed"}
  /\ \/ \E k \in Node : dep[k].at = "failed" /\ UNCHANGED hitches
     \/ dep[n].at = "copy" /\ ~Holds(Here, Top(n, dep[n].v)) /\ UNCHANGED hitches
     \/ dep[n].at = "switch" /\ ~Holds(n, Top(n, dep[n].v)) /\ UNCHANGED hitches
     \/ hitches < MaxHitches /\ hitches' = hitches + 1
  /\ NodeSteps(n, "failed")
  /\ \/ node' = node
     \/ dep[n].at = "switch" /\ Holds(n, Top(n, dep[n].v)) /\ node' = [node EXCEPT ![n] = Switched(n)]
  /\ UNCHANGED <<jobs, store, deploy, gcs, reboots>>

\* After all: the notification says that every node is done, or there is none.
DeployEnds ==
  /\ deploy.at = "running" /\ \A n \in Node : dep[n].at \in {"ok", "failed"}
  /\ deploy' = [deploy EXCEPT !.at = IF \A n \in Node : dep[n].at = "ok" THEN "told" ELSE "failed"]
  /\ UNCHANGED <<jobs, store, node, dep, bounds>>

-----------------------------------------------------------------------------
(* Others.                                                                 *)

EditFlake ==
  /\ flake < MaxRev /\ flake' = flake + 1
  /\ UNCHANGED <<hostEnv, store, ram, work, nodes, bounds>>

\* Out-links keep what the builder built, generations what a node runs or
\* boots; nothing keeps what was built here.
Kept(m) ==
  IF m \in Node THEN {Top(m, node[m].running), Top(m, node[m].boot)}
  ELSE IF m = Builder THEN {p \in store[m] : p[1] = "out"} ELSE {}

Collect(m) ==
  /\ gcs < MaxGcs /\ gcs' = gcs + 1 /\ store' = [store EXCEPT ![m] = @ \cap Kept(m)]
  /\ UNCHANGED <<jobs, nodes, reboots, hitches>>

Reboot(n) ==
  /\ reboots < MaxReboots /\ reboots' = reboots + 1
  /\ node' = [node EXCEPT ![n].running = node[n].boot, ![n].live = FALSE]
  /\ UNCHANGED <<jobs, store, dep, deploy, gcs, hitches>>

NixNext ==
  \/ \E j \in Job : \/ BeginJob(j) \/ Archive(j) \/ Lookup(j) \/ BuildHere(j) \/ CopyTo(j) \/ BuildThere(j)
                    \/ CopyFrom(j) \/ Rebuild(j) \/ Uses(j) \/ JobFails(j)
  \/ \E a \in {"auto", "switch", "boot"} : Deploy(a)
  \/ \E n \in Node : \/ BuildNode(n) \/ CopyClosure(n) \/ Detect(n) \/ Check(n) \/ CheckFails(n)
                     \/ Switch(n) \/ FailsNode(n) \/ Reboot(n)
  \/ DeployEnds \/ EditFlake \/ \E m \in Machine : Collect(m)

NixSpec == NixInit /\ [][NixNext]_nixVars

-----------------------------------------------------------------------------
(* Properties.                                                             *)

\* A build is of the flake as it was during the call, never of one before, from
\* whichever cache it comes (a rebuild from a root in the store is of what is
\* published), and the path that is handed out exists, here or on the builder.
\* What a node runs or boots is there as a whole.  When the deploy is told done,
\* each node runs or will boot a revision no older than the command, and no node
\* was switched live to another nixpkgs, unless it was asked for or the node
\* rebooted after it was looked at.
BuildsAreCurrent ==
  /\ \A j \in Job : work[j].at = "built" =>
       /\ work[j].v >= work[j].begun \/ (inStore /\ JobKind[j] \in {"rebuild", "apply"} /\ work[j].v = 0)
       /\ work[j].v <= flake
       /\ work[j].gcs = gcs => \E m \in {Here, Builder} :
                                Holds(m, Out(work[j].v)) /\ (m = Builder => j \in remotely \ CopyBack)
  /\ \A n \in Node :
       /\ {Top(n, node[n].running), Top(n, node[n].boot)} \subseteq store[n]
       /\ deploy.at = "told" =>
            dep[n].v >= deploy.begun /\ (dep[n].v \in {node[n].running, node[n].boot} \/ reboots > 0)
       /\ node[n].live /\ deploy.action = "auto" /\ dep[n].seen = reboots =>
            Nixpkgs[node[n].from] = Nixpkgs[node[n].running]
=============================================================================
