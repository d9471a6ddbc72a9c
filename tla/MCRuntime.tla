----------------------------- MODULE MCRuntime -----------------------------
(***************************************************************************)
(* The parts that must not get stuck, side by side: the session of an      *)
(* invocation, the requests of its tasks, the daemon and its clients, the  *)
(* configuration with the drivers, and the source cache.  They share no    *)
(* state, so a behaviour exercises one of them, and the others stay at one *)
(* initial state, in which nothing that fairness speaks of can happen.     *)
(***************************************************************************)
EXTENDS Session, HttpProgress, Daemon, Materialize, TLC

CONSTANTS
  None, Unset,
  l1, l2, w,           \* goroutines that load the configuration of w
  env, exec, shim       \* interfaces

VARIABLES
  part,  \* the part that a behaviour exercises
  registry, file, host, weights, once, load, calls, answer, edits

\* Of the extended modules the session has two tasks, one of which leaves its
\* line unterminated, and the user interrupts once or one child stays; two
\* requests want one slot; of the daemon's clients two run a command and one
\* sends an event, and a command can fill the pump's channel; and three
\* goroutines of one process want one source, one of them without the cache and
\* one in a dry run.
OneProcess == [x \in Caller |-> "p"]

\* Two env drivers, an exec driver, and the shim driver, whose check and New get
\* an exec driver; or, as no drivers of the repository do, the last two get each
\* other in their checks, or one in its New, or one gets itself.  The file gives
\* nothing, weights that turn the preludes' order round, or one out of range.
Drivers == 1..4
Getting(check, make) ==
  [check |-> [d \in Drivers |-> IF d \in DOMAIN check THEN check[d] ELSE None],
   make |-> [d \in Drivers |-> IF d \in DOMAIN make THEN make[d] ELSE None]]
TheRegistry == Getting(4 :> exec, 4 :> exec)
Circles ==
  {Getting(3 :> shim @@ 4 :> exec, <<>>), Getting(4 :> exec, 3 :> shim), Getting(3 :> exec, <<>>)}
C == INSTANCE Config WITH
  Loader <- {l1, l2}, Space <- {w}, Iface <- {env, exec, shim}, Env <- env, Driver <- Drivers,
  Provides <- [i \in {env, exec, shim} |-> IF i = env THEN {1, 2} ELSE IF i = exec THEN {3} ELSE {4}],
  Registries <- {TheRegistry} \cup Circles,
  Prelude <- [d \in Drivers |-> IF d = 2 THEN 60 ELSE Unset],
  Files <- {[d \in Drivers |-> Unset], [d \in Drivers |-> IF d = 4 THEN 101 ELSE 40]},
  MaxLoads <- 2, MaxEdits <- 1

ASSUME C!ConfigAssumption
ASSUME CallerAssumption

config == <<registry, file, host, weights, once, load, calls, answer, edits>>

Init ==
  /\ part \in {"session", "http", "daemon", "config", "source"}
  /\ SessInit /\ (part # "session" => wantUI)
  /\ HttpInit
  /\ DaemonInit /\ (part # "daemon" => process = "down")
  /\ C!ConfigInit /\ host[1] /\ host[2] /\ host[4]
  /\ registry # TheRegistry => part = "config" /\ host[3] /\ file[w][4] = Unset
  /\ part # "config" => host[3] /\ file[w][4] = 101
  /\ CacheInit /\ (part # "source" => dest = Gone)

Next ==
  \/ part = "session" /\ SessNext /\ UNCHANGED <<part, httpVars, daemonVars, config, cacheVars>>
  \/ part = "http" /\ HttpNext /\ UNCHANGED <<part, sessVars, daemonVars, config, cacheVars>>
  \/ part = "daemon" /\ DaemonNext /\ UNCHANGED <<part, sessVars, httpVars, config, cacheVars>>
  \/ part = "config" /\ C!ConfigNext /\ UNCHANGED <<part, sessVars, httpVars, daemonVars, cacheVars>>
  \/ part = "source" /\ CacheNext /\ UNCHANGED <<part, sessVars, httpVars, daemonVars, config>>

\* The callers of a source begin by themselves; the other parts' fairness
\* speaks of what has begun.
SourceFairness ==
  \A x \in Caller : /\ WF_cacheVars(part = "source" /\ Call(x))
                   /\ SF_cacheVars(part = "source" /\ TakeLock(x))

Spec == /\ Init /\ [][Next]_<<part, sessVars, httpVars, daemonVars, config, cacheVars>>
        /\ SessFairness /\ HttpFairness /\ DaemonFairness /\ C!ConfigFairness
        /\ SourceFairness

-----------------------------------------------------------------------------
(* What the run checks besides the extended modules' properties; each is   *)
(* stated in its module.                                                   *)

\* What one waits for returns: a session that closes, a client's command, a
\* task's request (and the task ends), a lookup of a driver, and a call of the
\* source cache.
CallsReturn ==
  /\ SessionCloses
  /\ EveryClientReturns /\ CallsAndTasksEnd /\ C!EveryGetReturns
  /\ part = "source" => EveryCallReturns
=============================================================================
