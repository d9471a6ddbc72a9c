------------------------------- MODULE Config -------------------------------
(***************************************************************************)
(* Configurations and drivers.  A load compiles the files of a workspace   *)
(* three times: for its inputs, for its modules, and for its result; what  *)
(* it decodes sets the driver weights of the whole process.  driver.Get    *)
(* asks the drivers of an interface in the order of those weights, and     *)
(* checks each driver once for the life of the process; a check, and the   *)
(* making of a driver, may get another interface's driver.                 *)
(*                                                                         *)
(* Drivers are numbers in the order of their ids.  A file is the weights   *)
(* it gives.                                                               *)
(***************************************************************************)
EXTENDS Naturals, Sequences, FiniteSets, Functions, SequencesExt

CONSTANTS
  Loader,            \* goroutines that load configurations and use drivers
  Space,             \* workspaces
  Iface, Env,        \* interfaces; the one every load needs
  Driver, Provides,  \* drivers of each interface
  Registries,        \* which interface each driver's check gets, and its New, or None
  Prelude,           \* the weights the preludes give, or Unset
  Files,             \* what a file may say: weights, or Unset
  None, Unset,
  MaxLoads, MaxEdits

ConfigAssumption ==
  /\ Driver \subseteq Nat /\ Env \in Iface
  /\ Provides \in [Iface -> SUBSET Driver]
  /\ Registries \subseteq [{"check", "make"} -> [Driver -> Iface \cup {None}]]
  /\ Prelude \in [Driver -> 0..100 \cup {Unset}]
  /\ {MaxLoads, MaxEdits} \subseteq Nat

VARIABLES
  registry,  \* what the drivers that were registered get
  file,      \* each workspace's files
  host,      \* what each driver's check would find
  weights,   \* driverWeights: of every driver, or <<>> before the first load
  once,      \* validationCache: "none", who is checking, "ok" or "bad"
  load,      \* each goroutine's load: where it is, and of which workspace
  calls,     \* its Gets, the innermost last: the interface, who is left to
             \* ask, and whether the first of them is asked, checked or made
  answer,    \* what its last Get returned
  edits      \* bounds: loads and edits

configVars == <<registry, file, host, weights, once, load, calls, answer, edits>>

NoLoad == [at |-> "idle", space |-> None]

ConfigInit ==
  /\ registry \in Registries
  /\ file \in [Space -> Files]
  /\ host \in [Driver -> BOOLEAN]
  /\ weights = <<>>
  /\ once = [d \in Driver |-> "none"]
  /\ load = [l \in Loader |-> NoLoad]
  /\ calls = [l \in Loader |-> <<>>]
  /\ answer = [l \in Loader |-> None]
  /\ edits = [loads |-> 0, files |-> 0]

Free(l) == calls[l] = <<>>
Loads(l, at) == load[l].at = at /\ Free(l)
World == <<registry, file, host, edits>>

-----------------------------------------------------------------------------
(* The registry.                                                           *)

Weight(d) == IF weights = <<>> THEN 0 ELSE weights[d]
\* Higher weights first, then ids.
Before(d, e) == Weight(d) > Weight(e) \/ (Weight(d) = Weight(e) /\ d < e)
Candidates(i) == SetToSortSeq(Provides[i], Before)

Frame(i, todo) == [iface |-> i, todo |-> todo, at |-> "ask"]
Top(l) == Last(calls[l])
Asked(l) == Head(Top(l).todo)
Busy(l) == ~Free(l) /\ Top(l).todo # <<>>
Asking(l) == Busy(l) /\ Top(l).at = "ask"

\* Get sorts a snapshot; the lock is not held while drivers are checked.
Asks(l, i) == calls' = [calls EXCEPT ![l] = Append(@, Frame(i, Candidates(i)))]
Pop(l) == [calls EXCEPT ![l] = Front(@)]
\* The next candidate is asked.
Skip(l) == [calls EXCEPT ![l] = Append(Front(@), Frame(Top(l).iface, Tail(Top(l).todo)))]
\* The asked driver is checked or made, which may get the driver of i first.
Enter(l, at, i) ==
  LET here == Append(Front(calls[l]), [Top(l) EXCEPT !.at = at])
  IN /\ calls' = [calls EXCEPT ![l] = IF i = None THEN here ELSE Append(here, Frame(i, Candidates(i)))]
     /\ answer' = [answer EXCEPT ![l] = None]

\* cachedCheck: the first to come holds the driver's Once and checks.  Whoever
\* comes meanwhile waits for the Once, also who holds it.
BeginCheck(l) ==
  /\ Asking(l) /\ once[Asked(l)] = "none"
  /\ once' = [once EXCEPT ![Asked(l)] = l]
  /\ Enter(l, "check", registry.check[Asked(l)])
  /\ UNCHANGED <<weights, load, World>>

Compatible(l) ==
  host[Asked(l)] /\ (registry.check[Asked(l)] # None => answer[l] # None)

\* Mutation: A check that fails does not give its Once free.
EndCheckHeld(l) ==
  /\ Busy(l) /\ Top(l).at = "check"
  /\ once' = [once EXCEPT ![Asked(l)] = IF Compatible(l) THEN "ok" ELSE @]
  /\ calls' = [calls EXCEPT ![l] = Append(Front(@), [Top(l) EXCEPT !.at = "ask"])]
  /\ UNCHANGED <<weights, load, answer, World>>

\* The check ends; its result stays.
EndCheck(l) ==
  /\ Busy(l) /\ Top(l).at = "check"
  /\ once' = [once EXCEPT ![Asked(l)] = IF Compatible(l) THEN "ok" ELSE "bad"]
  /\ calls' = [calls EXCEPT ![l] = Append(Front(@), [Top(l) EXCEPT !.at = "ask"])]
  /\ UNCHANGED <<weights, load, answer, World>>

\* A driver whose check was well is made; Doctor, which gets no interface, only
\* checks.
Makes(l) == Asking(l) /\ once[Asked(l)] = "ok" /\ Top(l).iface # None

BeginNew(l) ==
  /\ Makes(l) /\ registry.make[Asked(l)] # None
  /\ Enter(l, "make", registry.make[Asked(l)])
  /\ UNCHANGED <<weights, once, load, World>>

SelectDriver(l) ==
  /\ \/ Makes(l) /\ registry.make[Asked(l)] = None
     \/ Busy(l) /\ Top(l).at = "make" /\ answer[l] # None
  /\ answer' = [answer EXCEPT ![l] = Asked(l)]
  /\ calls' = Pop(l)
  /\ UNCHANGED <<weights, once, load, World>>

\* A driver whose check failed, or that cannot be made, is skipped.
SkipDriver(l) ==
  /\ \/ Asking(l) /\ once[Asked(l)] \in {"ok", "bad"}
     \/ Busy(l) /\ Top(l).at = "make"
  /\ calls' = Skip(l)
  /\ UNCHANGED <<weights, once, load, answer, World>>

NoDriver(l) ==
  /\ ~Free(l) /\ Top(l).todo = <<>>
  /\ answer' = [answer EXCEPT ![l] = None]
  /\ calls' = Pop(l)
  /\ UNCHANGED <<weights, once, load, World>>

-----------------------------------------------------------------------------
(* A load.                                                                 *)

\* buildDriverWeightLayer: 50 for every driver that no prelude gives a weight;
\* what the file says goes before both.
WeightsOf(f) == [d \in Driver |->
  IF f[d] # Unset THEN f[d]
  ELSE IF Prelude[d] # Unset THEN Prelude[d] ELSE 50]

\* SetWeights refuses a weight that is out of range, and leaves the old ones.
Valid(f) == \A d \in Driver : WeightsOf(f)[d] \in 0..100

BeginLoad(l, s) ==
  /\ Loads(l, "idle") /\ edits.loads < MaxLoads
  /\ edits' = [edits EXCEPT !.loads = @ + 1]
  /\ load' = [load EXCEPT ![l] = [NoLoad EXCEPT !.at = "inputs", !.space = s]]
  /\ Asks(l, Env)
  /\ UNCHANGED <<registry, file, host, weights, once, answer>>

\* The first compilation gives the inputs, from which the runtime prelude is
\* built anew.  Without an env driver there is no prelude.
ReadInputs(l) ==
  /\ Loads(l, "inputs")
  /\ IF answer[l] = None THEN load' = [load EXCEPT ![l] = NoLoad] /\ UNCHANGED calls
     ELSE load' = [load EXCEPT ![l].at = "modules"] /\ Asks(l, Env)
  /\ UNCHANGED <<weights, once, answer, World>>

\* The second one gives the modules, and the third the result; each is decoded.
Decode(l, next) ==
  LET f == file[load[l].space] IN
    IF answer[l] = None \/ ~Valid(f)
      THEN load' = [load EXCEPT ![l] = NoLoad] /\ UNCHANGED weights
      ELSE /\ weights' = WeightsOf(f)
           /\ load' = [load EXCEPT ![l].at = next]

ReadModules(l) ==
  /\ Loads(l, "modules") /\ Decode(l, "result")
  /\ UNCHANGED <<once, calls, answer, World>>

ReadResult(l) ==
  /\ Loads(l, "result") /\ Decode(l, "loaded")
  /\ UNCHANGED <<once, calls, answer, World>>

\* What was loaded is used: the command asks for a driver, and ends.
UseDriver(l, i) ==
  /\ Loads(l, "loaded")
  /\ load' = [load EXCEPT ![l].at = "using"] /\ Asks(l, i)
  /\ UNCHANGED <<weights, once, answer, World>>

\* `doctor` checks every driver, interface by interface.
Doctor(l) ==
  /\ Loads(l, "loaded")
  /\ load' = [load EXCEPT ![l].at = "using"]
  /\ calls' = [calls EXCEPT ![l] = <<Frame(None, SetToSortSeq(Driver, <))>>]
  /\ UNCHANGED <<weights, once, answer, World>>

EndLoad(l) ==
  /\ Loads(l, "using")
  /\ load' = [load EXCEPT ![l] = NoLoad]
  /\ UNCHANGED <<weights, once, calls, answer, World>>

\* The user edits a file, or installs what a driver needs.
EditFile(s, f) ==
  /\ edits.files < MaxEdits /\ f # file[s]
  /\ edits' = [edits EXCEPT !.files = @ + 1]
  /\ file' = [file EXCEPT ![s] = f]
  /\ UNCHANGED <<registry, host, weights, once, load, calls, answer>>

InstallBinary(d) ==
  /\ edits.files < MaxEdits /\ ~host[d]
  /\ edits' = [edits EXCEPT !.files = @ + 1]
  /\ host' = [host EXCEPT ![d] = TRUE]
  /\ UNCHANGED <<registry, file, weights, once, load, calls, answer>>

GetStep(l) ==
  \/ BeginCheck(l) \/ EndCheck(l) \/ BeginNew(l)
  \/ SelectDriver(l) \/ NoDriver(l) \/ SkipDriver(l)
LoadStep(l) == ReadInputs(l) \/ ReadModules(l) \/ ReadResult(l) \/ EndLoad(l)

ConfigNext ==
  \/ \E l \in Loader :
       \/ GetStep(l) \/ LoadStep(l) \/ Doctor(l)
       \/ \E s \in Space : BeginLoad(l, s)
       \/ \E i \in Iface : UseDriver(l, i)
  \/ \E s \in Space, f \in Files : EditFile(s, f)
  \/ \E d \in Driver : InstallBinary(d)

ConfigFairness == \A l \in Loader :
  WF_configVars(GetStep(l)) /\ WF_configVars(LoadStep(l))

ConfigSpec == ConfigInit /\ [][ConfigNext]_configVars /\ ConfigFairness

-----------------------------------------------------------------------------
(* Properties.                                                             *)

\* Drivers of which each gets another of them, or itself.
Gets(d) == {registry.check[d], registry.make[d]} \ {None}
CyclicNeeds ==
  \E D \in SUBSET Driver \ {{}} : \A d \in D : \E i \in Gets(d) : Provides[i] \cap D # {}

\* l waits for a Once that is held by it, or by others that wait as well.
Hangs(l) ==
  \E H \in SUBSET Loader : l \in H /\ \A x \in H : Asking(x) /\ once[Asked(x)] \in H

\* driver.go: "prevents deadlock when Doctor snapshots under RLock and checks
\* later call Get": whoever checks, and whatever a check or a New gets, a Get
\* returns, unless goroutines wait for one another's Onces; and that they only
\* do where drivers get one another in a circle, as none of the repository do.
\* (Loads are bounded, so what must end again and again ends for good.)
EveryGetReturns ==
  /\ []<>(\A l \in Loader : Free(l) \/ Hangs(l))
  /\ []((\E l \in Loader : Hangs(l)) => CyclicNeeds)
=============================================================================
