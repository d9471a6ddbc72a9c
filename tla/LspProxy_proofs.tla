-------------------------- MODULE LspProxy_proofs --------------------------
(***************************************************************************)
(* The lsp proxy for every number of documents, languages and servers, of  *)
(* messages and of crashes.  Three inductive invariants, one for each part *)
(* of the proxy's state: the processes (Published), the requests           *)
(* (OneAnswer) and what the servers were told of the documents (Following).*)
(***************************************************************************)
EXTENDS LspProxy, SequenceTheorems, TLAPS

(* The states of the loop in which the editor may still be served.         *)
Serving == loop \notin {"close", "closing", "down", "ended", "failed"}
Ensuring == loop \in {"ensure", "bind", "initialize"}

Notes ==
  [method : {"open", "change", "close"}, doc : {d \in Doc : LangOf[d] # NoLang}, version : Nat]
Writes == [server : Server, note : Notes]
InFlight == fan \cup {w.note : w \in writes}

(* What the loop keeps, the documents, the servers and what they show.     *)
RouteTypeOK ==
  /\ at \in Nat /\ messages \in Nat
  /\ job \in [kind : {"none", "open", "request", "shutdown", "exit"}, doc : Doc \cup {NoDoc}]
  /\ docs \in [Doc -> Nat]
  /\ known \in [Lang -> {"absent", "marked", "bound"}]
  /\ backends \subseteq Server
  /\ fan \subseteq Notes /\ writes \subseteq Writes
  /\ proc \in [Server -> {"off", "up", "dead"}]
  /\ view \in [Server -> [Doc -> Nat]]

(* ensureLanguage is about a document that has a language, and goes over   *)
(* that language's bindings from the first to the last.                    *)
AtWork ==
  /\ Ensuring => /\ job.doc \in Doc /\ JobLang \in Lang
                 /\ job.kind \in {"open", "request"}
  /\ loop = "bind" => at \in 1 .. Len(Bindings[JobLang]) + 1
  /\ loop = "initialize" => AtBinding

(* A server that runs is in the map, or is the one being initialized.      *)
Published ==
  /\ \A s \in Server : proc[s] = "up" => s \in backends \/ (loop = "initialize" /\ s = Here)
  /\ loop = "ended" => backends = {}

(* The requests.                                                           *)
CallTypeOK ==
  /\ call \in [Server -> {"none", "register", "write", "wait", "ok", "err"}]
  /\ pending \in [Server -> SUBSET {"this", "past"}]
  /\ chan \in [Server -> Seq({"ok", "err"})]
  /\ took \in [Server -> {"this", "past", None}]

(* Between messages nothing is asked, and one thing at a time is when a    *)
(* server is initialized or shut down.                                     *)
Asking ==
  /\ loop \notin {"initialize", "wait", "closing"} => \A s \in Server : call[s] = "none"
  /\ loop \in {"initialize", "closing"} =>
       \A s, t \in Server : call[s] # "none" /\ call[t] # "none" => s = t

(* Of a request there is one of: its entry in pending, the reader that     *)
(* took the entry out, and the message in its channel.                     *)
OneOfThree(s) ==
  /\ pending[s] \subseteq {"this"}
  /\ pending[s] # {} => call[s] \in {"write", "wait"} /\ took[s] # "this" /\ chan[s] = <<>>
  /\ took[s] = "this" => call[s] # "register" /\ chan[s] = <<>>
  /\ Len(chan[s]) <= 1

OneAnswer == Asking /\ \A s \in Server : OneOfThree(s)

(* The editor's document that the loop is opening at its servers.          *)
Opening(d) == Ensuring /\ job = [kind |-> "open", doc |-> d]

(* A note about the document that the server is still to be told.          *)
Due(s, d) ==
  \/ \E n \in fan : n.doc = d
  \/ \E w \in writes : w.server = s /\ w.note.doc = d

(* What is in flight says of a document what the editor last said of it,   *)
(* and nothing is in flight about a document that is being opened.         *)
NotesAreCurrent ==
  \A n \in InFlight :
    /\ IF n.method = "close" THEN docs[n.doc] = 0
                             ELSE n.version = docs[n.doc] /\ docs[n.doc] # 0
    /\ known[LangOf[n.doc]] # "absent"
    /\ Ensuring => job.kind = "request"
    /\ loop \in {"bind", "initialize"} => LangOf[n.doc] # JobLang

(* Of a language that was never ensured no document is open, but for the   *)
(* one being opened, and no server was told of one.                        *)
Fresh(l) == known[l] = "absent" \/ (loop \in {"bind", "initialize"} /\ JobLang = l)

FreshIsUntold ==
  \A d \in Doc : LangOf[d] \in Lang /\ Fresh(LangOf[d]) /\ ~Opening(d) =>
    docs[d] = 0 /\ \A s \in Server : view[s][d] = 0

(* A document that is being opened is open; and while a language is bound  *)
(* it is marked, and the servers of the bindings that were gone over are   *)
(* in the map.                                                             *)
BindingSoFar ==
  /\ Ensuring /\ job.kind = "open" => docs[job.doc] # 0
  /\ loop \in {"bind", "initialize"} =>
       /\ known[JobLang] = "marked"
       /\ \A i \in DOMAIN Bindings[JobLang] : i < at => Bindings[JobLang][i] \in backends

(* A running server of a bound language shows each document of it as the   *)
(* editor has it, or is still to be told; and it has been told of a        *)
(* document of which it is to be told a change.                            *)
Follows(s, d) ==
  /\ view[s][d] = docs[d] \/ Opening(d) \/ Due(s, d)
  /\ \A n \in InFlight : n.doc = d /\ n.method = "change" => view[s][d] # 0

BoundFollow ==
  \A l \in Lang : known[l] = "bound" =>
    \A s \in ServersOf(l) :
      /\ s \in backends
      /\ proc[s] = "up" => \A d \in Doc : LangOf[d] = l => Follows(s, d)

Following ==
  Serving => NotesAreCurrent /\ FreshIsUntold /\ BindingSoFar /\ BoundFollow
----------------------------------------------------------------------------
(* Lemmas about the steps.                                                 *)

(* What a request, its reader and waiter and the server that answers it    *)
(* leave alone.                                                            *)
LEMMA RequestsLeaveTheRest ==
  ASSUME NEW s \in Server, Request(s) \/ Watch(s) \/ ServerAnswers(s)
  PROVE  UNCHANGED rest
BY DEF Request, Register, Write, Receive, Timeout, Watch, TakeAnswer, Deliver, FailPending,
       ServerAnswers, rest

(* The steps of the proxy, one by one, and those that leave the rest alone.*)
Step ==
  \/ \E d \in Doc : DidOpen(d) \/ DidChange(d) \/ DidClose(d)
  \/ \E d \in Doc \cup {NoDoc} : ForwardRequest(d)
  \/ Shutdown \/ Exit \/ ReadFails
  \/ EnsureLanguage \/ BindExisting \/ StartBackend \/ StartFails \/ Bound
  \/ Initialized \/ InitializeFails
  \/ NoTarget \/ AskTargets \/ Reply
  \/ \E s \in Server : AskShutdown(s) \/ CloseBackend(s)
  \/ AllClosed
  \/ \E note \in fan : FanOut(note)
  \/ \E w \in writes : Notify(w)
  \/ \E s \in Server : ServerExits(s)

LEMMA StepsOfTheProxy ==
  ASSUME [LspNext]_lspVars
  PROVE  Step \/ UNCHANGED rest
<1>1. CASE UNCHANGED lspVars
  BY <1>1 DEF lspVars, rest
<1>2. CASE \E s \in Server : Request(s) \/ Watch(s) \/ ServerAnswers(s)
  BY <1>2, RequestsLeaveTheRest
<1> QED
  BY <1>1, <1>2 DEF LspNext, Editor, Loop, Goroutines, Step
----------------------------------------------------------------------------
(* The types.                                                              *)

LEMMA EnsuredTypes ==
  ASSUME RouteTypeOK, AtWork, Ensuring, NEW ok \in BOOLEAN, Ensured(ok)
  PROVE  /\ at' \in Nat /\ ~Ensuring'
         /\ job' \in [kind : {"none", "open", "request", "shutdown", "exit"},
                     doc : Doc \cup {NoDoc}]
         /\ fan' \subseteq Notes /\ writes' \subseteq Writes
<1>1. job.doc \in {d \in Doc : LangOf[d] # NoLang} /\ docs[job.doc] \in Nat
  BY RouteAssumption DEF RouteTypeOK, AtWork, JobLang
<1>2. [method |-> "open", doc |-> job.doc, version |-> docs[job.doc]] \in Notes
  BY <1>1 DEF Notes
<1> QED
  BY <1>2 DEF Ensured, RouteTypeOK, NoJob, Ensuring

LEMMA RouteTypes ==
  ASSUME RouteTypeOK, AtWork, [LspNext]_lspVars
  PROVE  RouteTypeOK' /\ AtWork'
<1> USE RouteAssumption
<1>a. ASSUME NEW d \in Doc, DidOpen(d) PROVE RouteTypeOK' /\ AtWork'
  BY <1>a DEF RouteTypeOK, AtWork, DidOpen, Reads, noteVars, procVars, callVars, pipeVars,
    Ensuring, JobLang, AtBinding
<1>b. ASSUME NEW d \in Doc, DidChange(d) \/ DidClose(d) PROVE RouteTypeOK' /\ AtWork'
  <2>1. /\ docs' \in [Doc -> Nat] /\ messages' \in Nat
    BY SMTT(20), <1>b DEF RouteTypeOK, DidChange, DidClose, Reads
  <2>2. fan' \subseteq Notes
    BY <1>b, <2>1 DEF RouteTypeOK, DidChange, DidClose, Note, Notes
  <2> QED
    BY <1>b, <2>1, <2>2 DEF RouteTypeOK, AtWork, DidChange, DidClose, Reads, procVars, callVars,
      pipeVars, Ensuring, JobLang, AtBinding
<1>c. ASSUME NEW d \in Doc \cup {NoDoc}, ForwardRequest(d) PROVE RouteTypeOK' /\ AtWork'
  BY <1>c DEF RouteTypeOK, AtWork, ForwardRequest, Reads, noteVars, procVars, callVars,
    pipeVars, Ensuring, JobLang, AtBinding
<1>d. CASE Shutdown \/ Exit \/ ReadFails
  BY <1>d DEF RouteTypeOK, AtWork, Shutdown, Exit, ReadFails, Goes, Reads, noteVars, routeVars,
    procVars, callVars, pipeVars, bounds, Ensuring, JobLang, AtBinding
<1>e. CASE EnsureLanguage
  <2>1. known' \in [Lang -> {"absent", "marked", "bound"}]
    BY <1>e DEF RouteTypeOK, EnsureLanguage
  <2>2. CASE Ensured(TRUE)
    BY <1>e, <2>1, <2>2, EnsuredTypes DEF RouteTypeOK, AtWork, EnsureLanguage, procVars, bounds,
      Ensuring
  <2>3. CASE ~Ensured(TRUE)
    <3>1. Bindings[JobLang] # <<>> /\ at' = 1 /\ loop' = "bind" /\ UNCHANGED <<job, noteVars>>
      BY <1>e, <2>3 DEF EnsureLanguage
    <3>2. Bindings[JobLang] \in Seq(Server)
      BY <1>e DEF EnsureLanguage, AtWork, Ensuring
    <3>3. at' \in 1 .. Len(Bindings[JobLang]) + 1
      BY <3>1, <3>2
    <3> QED
      BY <1>e, <2>1, <3>1, <3>3 DEF RouteTypeOK, AtWork, EnsureLanguage, procVars, bounds,
        noteVars, Ensuring, JobLang
  <2> QED
    BY <2>2, <2>3
<1>f. CASE BindExisting
  <2>1. Bindings[JobLang] \in Seq(Server)
    BY <1>f DEF BindExisting, AtWork, Ensuring
  <2>2. at' \in Nat /\ at' \in 1 .. Len(Bindings[JobLang]) + 1
    BY <1>f, <2>1 DEF BindExisting, AtBinding, RouteTypeOK
  <2> QED
    BY <1>f, <2>2 DEF RouteTypeOK, AtWork, BindExisting, noteVars, routeVars, procVars, bounds,
      Ensuring, JobLang
<1>g. CASE StartBackend
  BY <1>g DEF RouteTypeOK, AtWork, StartBackend, Goes, noteVars, routeVars, bounds, Ensuring,
    JobLang, AtBinding
<1>h. CASE StartFails
  BY <1>h, EnsuredTypes DEF RouteTypeOK, AtWork, StartFails, routeVars, procVars, bounds, Ensuring
<1>i. CASE Bound
  <2>1. known' \in [Lang -> {"absent", "marked", "bound"}]
    BY <1>i DEF RouteTypeOK, Bound
  <2> QED
    BY <1>i, <2>1, EnsuredTypes DEF RouteTypeOK, AtWork, Bound, procVars, bounds, Ensuring
<1>j. CASE Initialized
  <2>1. Bindings[JobLang] \in Seq(Server) /\ AtBinding
    BY <1>j DEF Initialized, Goes, AtWork, Ensuring
  <2>2. at' \in Nat /\ at' \in 1 .. Len(Bindings[JobLang]) + 1 /\ Here \in Server
    BY <1>j, <2>1 DEF Initialized, AtBinding, RouteTypeOK, Here
  <2>3. view' \in [Server -> [Doc -> Nat]]
    BY <1>j, <2>2 DEF Initialized, RouteTypeOK, Told
  <2> QED
    BY <1>j, <2>2, <2>3 DEF RouteTypeOK, AtWork, Initialized, Goes, noteVars, bounds,
      Ensuring, JobLang
<1>k. CASE InitializeFails
  BY <1>k, EnsuredTypes DEF RouteTypeOK, AtWork, InitializeFails, Discard, routeVars, bounds,
    Ensuring
<1>l. CASE NoTarget \/ AskTargets \/ Reply
  BY <1>l DEF RouteTypeOK, AtWork, NoTarget, AskTargets, Reply, Goes, NoJob, noteVars, routeVars,
    procVars, bounds, Ensuring
<1>m. ASSUME NEW s \in Server, AskShutdown(s) \/ CloseBackend(s) PROVE RouteTypeOK' /\ AtWork'
  BY <1>m DEF RouteTypeOK, AtWork, AskShutdown, CloseBackend, Discard, Goes, noteVars, routeVars,
    procVars, bounds, Ensuring
<1>n. CASE AllClosed
  BY <1>n DEF RouteTypeOK, AtWork, AllClosed, Goes, NoJob, noteVars, procVars, bounds, Ensuring
<1>o. ASSUME NEW note \in fan, FanOut(note) PROVE RouteTypeOK' /\ AtWork'
  <2>1. BoundServers(LangOf[note.doc]) \cap backends \subseteq Server /\ note \in Notes
    BY DEF RouteTypeOK
  <2>2. writes' \subseteq Writes /\ fan' \subseteq Notes
    BY <1>o, <2>1 DEF FanOut, Writes, RouteTypeOK
  <2> QED
    BY <1>o, <2>2 DEF RouteTypeOK, AtWork, FanOut, loopVars, routeVars, procVars, bounds, Ensuring,
      JobLang, AtBinding
<1>p. ASSUME NEW w \in writes, Notify(w) PROVE RouteTypeOK' /\ AtWork'
  <2>1. w.server \in Server /\ w.note.doc \in Doc /\ Shows(w.server, w.note) \in Nat
    BY DEF RouteTypeOK, Writes, Notes, Shows
  <2>2. view' \in [Server -> [Doc -> Nat]] /\ writes' \subseteq Writes
    BY <1>p, <2>1 DEF Notify, RouteTypeOK
  <2> QED
    BY <1>p, <2>2 DEF RouteTypeOK, AtWork, Notify, loopVars, routeVars, bounds, Ensuring,
      JobLang, AtBinding
<1>q. ASSUME NEW s \in Server, ServerExits(s) PROVE RouteTypeOK' /\ AtWork'
  BY <1>q DEF RouteTypeOK, AtWork, ServerExits, loopVars, noteVars, routeVars, Ensuring,
    JobLang, AtBinding
<1>r. CASE UNCHANGED rest
  BY <1>r DEF RouteTypeOK, AtWork, rest, loopVars, noteVars, routeVars, procVars, bounds, Ensuring,
    JobLang, AtBinding
<1> QED
  BY <1>a, <1>b, <1>c, <1>d, <1>e, <1>f, <1>g, <1>h, <1>i, <1>j, <1>k, <1>l, <1>m, <1>n, <1>o,
    <1>p, <1>q, <1>r, StepsOfTheProxy DEF Step

LEMMA RouteTypesInit == LspInit => RouteTypeOK /\ AtWork
  BY DEF LspInit, RouteTypeOK, AtWork, NoJob, Ensuring

(* The proxy's state has its types, and ensureLanguage is at a binding of  *)
(* the document's language whenever it looks one up.                       *)
THEOREM ProxyTypeCorrect == LspSpec => [](RouteTypeOK /\ AtWork)
BY RouteTypesInit, RouteTypes, PTL DEF LspSpec
----------------------------------------------------------------------------
(* The processes.                                                          *)

LEMMA PublishedInit == LspInit => Published
BY DEF LspInit, Published

LEMMA PublishedStep ==
  ASSUME RouteTypeOK, AtWork, Published, [LspNext]_lspVars
  PROVE  Published'
<1> DEFINE Same == UNCHANGED <<backends, proc>>
<1>1. ASSUME Same, loop # "initialize", loop' # "ended" PROVE Published'
  BY <1>1 DEF Published
<1>2. ASSUME Same, UNCHANGED loopVars PROVE Published'
  BY <1>2 DEF Published, loopVars, Here, JobLang
<1>a. ASSUME NEW d \in Doc, DidOpen(d) \/ DidChange(d) \/ DidClose(d) PROVE Published'
  BY <1>1, <1>a DEF DidOpen, DidChange, DidClose, Reads, procVars
<1>b. ASSUME NEW d \in Doc \cup {NoDoc}, ForwardRequest(d) PROVE Published'
  BY <1>1, <1>b DEF ForwardRequest, Reads, procVars
<1>c. CASE Shutdown \/ Exit \/ ReadFails
  BY <1>1, <1>c DEF Shutdown, Exit, ReadFails, Goes, Reads, routeVars, procVars
<1>d. CASE EnsureLanguage \/ StartFails \/ Bound \/ BindExisting
  BY <1>1, <1>d DEF EnsureLanguage, StartFails, Bound, BindExisting, Ensured, routeVars, procVars
<1>e. CASE StartBackend
  <2>1. loop' = "initialize" /\ UNCHANGED <<job, at>> /\ backends' = backends
    BY <1>e DEF StartBackend, Goes, routeVars
  <2>2. Here' = Here
    BY <2>1 DEF Here, JobLang
  <2>3. \A s \in Server : s # Here => proc'[s] = proc[s]
    BY <1>e DEF StartBackend, RouteTypeOK
  <2> QED
    BY <1>e, <2>1, <2>2, <2>3 DEF Published, StartBackend, Goes
<1>f. CASE Initialized
  BY <1>f DEF Published, Initialized, Goes
<1>g. CASE InitializeFails
  BY <1>g DEF Published, InitializeFails, Discard, Ensured, routeVars, RouteTypeOK
<1>h. CASE NoTarget \/ AskTargets \/ Reply
  BY <1>1, <1>h DEF NoTarget, AskTargets, Reply, Goes, routeVars, procVars
<1>i. ASSUME NEW s \in Server, AskShutdown(s) PROVE Published'
  BY <1>1, <1>i DEF AskShutdown, Goes, routeVars, procVars
<1>j. ASSUME NEW s \in Server, CloseBackend(s) PROVE Published'
  BY <1>j DEF Published, CloseBackend, Discard, Goes, RouteTypeOK
<1>k. CASE AllClosed
  BY <1>k DEF Published, AllClosed, Goes, procVars
<1>l. ASSUME NEW note \in fan, FanOut(note) PROVE Published'
  BY <1>2, <1>l DEF FanOut, routeVars, procVars
<1>m. ASSUME NEW w \in writes, Notify(w) PROVE Published'
  BY <1>2, <1>m DEF Notify, routeVars
<1>n. ASSUME NEW s \in Server, ServerExits(s) PROVE Published'
  BY <1>n DEF Published, ServerExits, loopVars, routeVars, Here, JobLang, RouteTypeOK
<1>o. CASE UNCHANGED rest
  BY <1>2, <1>o DEF rest, routeVars, procVars
<1> QED
  BY <1>a, <1>b, <1>c, <1>d, <1>e, <1>f, <1>g, <1>h, <1>i, <1>j, <1>k, <1>l, <1>m, <1>n, <1>o,
    StepsOfTheProxy DEF Step

(* workspaced lsp: when the loop is over, whether the editor sent shutdown *)
(* or went away, no language server is left running, whichever of them did *)
(* not initialize, was started for two languages or died on the way.       *)
THEOREM NoServerIsLeft == LspSpec => []NoOrphans
<1>1. Published => NoOrphans
  BY DEF Published, NoOrphans
<1> QED
  BY <1>1, ProxyTypeCorrect, PublishedInit, PublishedStep, PTL DEF LspSpec
----------------------------------------------------------------------------
(* The requests.                                                           *)

LEMMA OneMessage ==
  ASSUME NEW c \in Seq({"ok", "err"}), Len(c) <= 1, c # <<>>
  PROVE  Head(c) \in {"ok", "err"} /\ Tail(c) = <<>>
<1>1. /\ Head(c) \in {"ok", "err"} /\ Tail(c) \in Seq({"ok", "err"})
      /\ Len(Tail(c)) = Len(c) - 1 /\ Len(c) \in Nat
  BY HeadTailProperties, EmptySeq
<1>2. Tail(c) # <<>> => Len(Tail(c)) \in Nat \ {0}
  BY <1>1, EmptySeq
<1> QED
  BY <1>1, <1>2

(* Where nothing is asked a new request finds pending empty.               *)
LEMMA NewRequestsAnswer ==
  ASSUME CallTypeOK, OneAnswer, NEW S, S \subseteq Server,
         \A s \in Server : call[s] = "none",
         NewRequests(S), UNCHANGED chan
  PROVE  /\ CallTypeOK' /\ \A s \in Server : OneOfThree(s)'
         /\ \A s \in Server : call'[s] # "none" => s \in S
<1> USE DEF CallTypeOK
<1>1. \A s \in Server : pending[s] = {} /\ Past(pending[s]) = {}
  BY DEF OneAnswer, OneOfThree, Past
<1>2. /\ pending' = pending
      /\ call' = [s \in Server |-> IF s \in S THEN "register" ELSE call[s]]
      /\ took' = [s \in Server |-> IF s \in S /\ took[s] = "this" THEN "past" ELSE took[s]]
  BY <1>1 DEF NewRequests
<1>3. CallTypeOK'
  BY <1>2
<1>4. ASSUME NEW s \in Server PROVE OneOfThree(s)'
  <2>1. OneOfThree(s) /\ pending'[s] = {} /\ chan'[s] = chan[s] /\ Len(chan[s]) <= 1
    BY <1>1, <1>2 DEF OneAnswer, OneOfThree
  <2>2. CASE s \in S
    <3>1. took'[s] # "this"
      BY <1>2, <2>2
    <3> QED
      BY <2>1, <3>1 DEF OneOfThree
  <2>3. CASE s \notin S
    <3>1. took'[s] = took[s] /\ call'[s] = "none"
      BY <1>2, <2>3
    <3> QED
      BY <2>1, <3>1 DEF OneOfThree
  <2> QED
    BY <2>2, <2>3
<1> QED
  BY <1>2, <1>3, <1>4

(* What is discarded is not waited for, and nothing is left of it.         *)
LEMMA DiscardAnswers ==
  ASSUME CallTypeOK, OneAnswer, NEW t \in Server, call[t] \in {"ok", "err"},
         Discard(t), UNCHANGED pending
  PROVE  CallTypeOK' /\ \A s \in Server : OneOfThree(s)'
<1> USE DEF CallTypeOK
<1>1. CallTypeOK'
  <2>1. chan' = [chan EXCEPT ![t] = <<>>] /\ <<>> \in Seq({"ok", "err"})
    BY DEF Discard
  <2>2. chan' \in [Server -> Seq({"ok", "err"})]
    BY <2>1
  <2> QED
    BY <2>2 DEF Discard
<1>2. OneOfThree(t)'
  <2>1. pending'[t] = {} /\ took'[t] = None /\ chan'[t] = <<>> /\ Len(<<>>) = 0
    BY EmptySeq DEF Discard, OneAnswer, OneOfThree
  <2> QED
    BY <2>1 DEF OneOfThree, None
<1>3. ASSUME NEW s \in Server, s # t PROVE OneOfThree(s)'
  BY <1>3 DEF Discard, OneAnswer, OneOfThree
<1> QED
  BY <1>1, <1>2, <1>3

(* A step that asks nothing and answers nothing.                           *)
LEMMA QuietAnswers ==
  ASSUME CallTypeOK, OneAnswer, UNCHANGED <<callVars, took>>,
         \/ UNCHANGED loop
         \/ /\ loop \notin {"initialize", "wait", "closing"}
            /\ loop' \notin {"initialize", "wait", "closing"}
  PROVE  CallTypeOK' /\ OneAnswer'
BY DEF CallTypeOK, OneAnswer, Asking, OneOfThree, callVars

(* A step of one server's request, reader or waiter.                       *)
LEMMA OneAnswerAtOne ==
  ASSUME CallTypeOK, OneAnswer, NEW t \in Server, UNCHANGED loop,
         CallTypeOK', call[t] # "none" \/ UNCHANGED call, OneOfThree(t)',
         \A s \in Server : s # t =>
           /\ call'[s] = call[s] /\ pending'[s] = pending[s]
           /\ chan'[s] = chan[s] /\ took'[s] = took[s]
  PROVE  CallTypeOK' /\ OneAnswer'
<1>1. Asking'
  BY DEF OneAnswer, Asking
<1>2. ASSUME NEW s \in Server, s # t PROVE OneOfThree(s)'
  BY <1>2 DEF OneAnswer, OneOfThree
<1> QED
  BY <1>1, <1>2 DEF OneAnswer

LEMMA RequestAnswers ==
  ASSUME CallTypeOK, OneAnswer, NEW t \in Server, Request(t)
  PROVE  CallTypeOK' /\ OneAnswer'
<1> USE DEF CallTypeOK, rest, loopVars, pipeVars
<1>0. OneOfThree(t)
  BY DEF OneAnswer
<1>1. CASE Register(t)
  <2>1. chan' \in [Server -> Seq({"ok", "err"})] /\ chan'[t] = <<>>
    BY <1>1 DEF Register
  <2>2. CallTypeOK'
    BY <1>1, <2>1 DEF Register
  <2>3. OneOfThree(t)'
    BY <1>0, <1>1, <2>1 DEF Register, OneOfThree
  <2> QED
    BY <1>1, <2>2, <2>3, OneAnswerAtOne DEF Register
<1>2. CASE Write(t) \/ Timeout(t)
  <2>1. CallTypeOK'
    BY <1>2 DEF Write, Timeout
  <2>2. OneOfThree(t)'
    BY <1>0, <1>2 DEF Write, Timeout, OneOfThree
  <2> QED
    BY <1>2, <2>1, <2>2, OneAnswerAtOne DEF Write, Timeout
<1>3. CASE Receive(t)
  <2>1. Head(chan[t]) \in {"ok", "err"} /\ Tail(chan[t]) = <<>>
    BY <1>0, <1>3, OneMessage DEF Receive, OneOfThree
  <2>2. chan' \in [Server -> Seq({"ok", "err"})] /\ chan'[t] = <<>>
    BY <1>3, <2>1 DEF Receive
  <2>3. call' = [call EXCEPT ![t] = Head(chan[t])] /\ UNCHANGED <<pending, took, loop>>
    BY <1>3 DEF Receive
  <2>4. CallTypeOK'
    BY <2>1, <2>2, <2>3
  <2>5. OneOfThree(t)'
    BY <1>0, <1>3, <2>1, <2>2, <2>3 DEF Receive, OneOfThree
  <2> QED
    BY <1>3, <2>4, <2>5, OneAnswerAtOne DEF Receive
<1> QED
  BY <1>1, <1>2, <1>3 DEF Request

LEMMA IntoOne ==
  ASSUME CallTypeOK, NEW t \in Server, NEW i, NEW what \in {"ok", "err"}
  PROVE  /\ Into(chan, t, i, what) \in [Server -> Seq({"ok", "err"})]
         /\ \A s \in Server : s # t => Into(chan, t, i, what)[s] = chan[s]
         /\ i # "this" => Into(chan, t, i, what) = chan
         /\ chan[t] = <<>> => Len(Into(chan, t, i, what)[t]) <= 1
<1>1. chan[t] \in Seq({"ok", "err"}) /\ Append(chan[t], what) \in Seq({"ok", "err"})
  BY DEF CallTypeOK
<1>2. Len(Append(chan[t], what)) = Len(chan[t]) + 1
  BY <1>1
<1> QED
  BY <1>1, <1>2 DEF Into, CallTypeOK

LEMMA WatchAnswers ==
  ASSUME CallTypeOK, OneAnswer, NEW t \in Server, Watch(t)
  PROVE  CallTypeOK' /\ OneAnswer'
<1> USE DEF CallTypeOK, rest, loopVars
<1>0. OneOfThree(t)
  BY DEF OneAnswer
<1>1. CASE TakeAnswer(t)
  <2>1. PICK i \in answers[t] :
          /\ took' = [took EXCEPT ![t] = IF i \in pending[t] THEN i ELSE None]
          /\ pending' = [pending EXCEPT ![t] = @ \ {i}]
    BY <1>1 DEF TakeAnswer
  <2>2. CallTypeOK'
    BY <1>1, <2>1 DEF TakeAnswer
  <2>3. OneOfThree(t)'
    BY <1>0, <1>1, <2>1 DEF TakeAnswer, OneOfThree, None
  <2> QED
    BY <1>1, <2>1, <2>2, <2>3, OneAnswerAtOne DEF TakeAnswer
<1>2. CASE Deliver(t)
  <2>1. PICK what \in {"ok", "err"} : chan' = Into(chan, t, took[t], what)
    BY <1>2 DEF Deliver
  <2>2. CallTypeOK' /\ took'[t] = None
    BY <1>2, <2>1, IntoOne DEF Deliver
  <2>3. OneOfThree(t)'
    <3>1. CASE took[t] = "this"
      BY <1>0, <1>2, <2>1, <2>2, <3>1, IntoOne DEF Deliver, OneOfThree, None
    <3>2. CASE took[t] # "this"
      BY <1>0, <1>2, <2>1, <2>2, <3>2, IntoOne DEF Deliver, OneOfThree, None
    <3> QED BY <3>1, <3>2
  <2>4. \A s \in Server : s # t => chan'[s] = chan[s]
    BY <2>1, IntoOne
  <2> QED
    BY <1>2, <2>2, <2>3, <2>4, OneAnswerAtOne DEF Deliver
<1>3. ASSUME NEW w \in {"reader", "waiter"}, FailPending(t, w) PROVE CallTypeOK' /\ OneAnswer'
  <2>1. /\ chan' \in [Server -> Seq({"ok", "err"})]
        /\ \A s \in Server : s # t => chan'[s] = chan[s]
    BY <1>3, IntoOne DEF FailPending
  <2>2. CallTypeOK'
    BY <1>3, <2>1 DEF FailPending
  <2>3. OneOfThree(t)'
    <3>1. CASE "this" \in pending[t]
      BY <1>0, <1>3, <3>1, IntoOne DEF FailPending, OneOfThree
    <3>2. CASE "this" \notin pending[t]
      BY <1>0, <1>3, <3>2 DEF FailPending, OneOfThree
    <3> QED BY <3>1, <3>2
  <2> QED
    BY <1>3, <2>1, <2>2, <2>3, OneAnswerAtOne DEF FailPending
<1> QED
  BY <1>1, <1>2, <1>3 DEF Watch

LEMMA OneAnswerInit == LspInit => CallTypeOK /\ OneAnswer
<1> SUFFICES ASSUME LspInit PROVE CallTypeOK /\ OneAnswer
  OBVIOUS
<1>1. CallTypeOK
  BY EmptySeq DEF LspInit, CallTypeOK
<1>2. ASSUME NEW s \in Server PROVE OneOfThree(s)
  BY <1>2, EmptySeq DEF LspInit, OneOfThree, None
<1>3. Asking
  BY DEF LspInit, Asking
<1> QED
  BY <1>1, <1>2, <1>3 DEF OneAnswer

LEMMA OneAnswerStep ==
  ASSUME RouteTypeOK, AtWork, CallTypeOK, OneAnswer, [LspNext]_lspVars
  PROVE  CallTypeOK' /\ OneAnswer'
<1> DEFINE Quiet == UNCHANGED <<callVars, took>>
           Busy == {"initialize", "wait", "closing"}
<1>1. ASSUME Quiet, UNCHANGED loop \/ (loop \notin Busy /\ loop' \notin Busy)
      PROVE  CallTypeOK' /\ OneAnswer'
  BY <1>1, QuietAnswers
<1>2. ASSUME loop \notin Busy PROVE \A s \in Server : call[s] = "none"
  BY <1>2 DEF OneAnswer, Asking
<1>a. CASE UNCHANGED lspVars
  BY <1>1, <1>a DEF lspVars, loopVars, callVars, pipeVars
<1>b. ASSUME NEW t \in Server, Request(t) \/ Watch(t) \/ ServerAnswers(t)
      PROVE  CallTypeOK' /\ OneAnswer'
  BY <1>1, <1>b, RequestAnswers, WatchAnswers DEF ServerAnswers, rest, loopVars
<1>c. ASSUME NEW t \in Server, ServerExits(t) PROVE CallTypeOK' /\ OneAnswer'
  BY <1>1, <1>c DEF ServerExits, loopVars
<1>d. CASE (\E note \in fan : FanOut(note)) \/ (\E w \in writes : Notify(w))
  BY <1>1, <1>d DEF FanOut, Notify, loopVars, pipeVars
<1>e. CASE Editor
  BY <1>1, <1>e DEF Editor, DidOpen, DidChange, DidClose, ForwardRequest, Shutdown, Exit,
    ReadFails, Goes, Reads, pipeVars
<1>f. CASE EnsureLanguage \/ BindExisting \/ StartFails \/ Bound \/ NoTarget \/ AllClosed
  BY <1>1, <1>f DEF EnsureLanguage, BindExisting, StartFails, Bound, NoTarget, AllClosed, Goes,
    Ensured, pipeVars
<1>g. CASE StartBackend
  <2>1. loop \notin Busy /\ loop' = "initialize" /\ Here \in Server
    BY <1>g, RouteAssumption DEF StartBackend, Goes, AtWork, Ensuring, AtBinding, Here
  <2>2. CallTypeOK' /\ \A s \in Server : OneOfThree(s)' /\ (call'[s] # "none" => s = Here)
    BY <1>2, <1>g, <2>1, NewRequestsAnswer DEF StartBackend
  <2> QED
    BY <2>1, <2>2 DEF OneAnswer, Asking
<1>h. CASE AskTargets
  <2>1. Targets \subseteq Server /\ loop \notin Busy /\ loop' = "wait"
    BY <1>h DEF AskTargets, Goes, Targets, RouteTypeOK
  <2>2. CallTypeOK' /\ \A s \in Server : OneOfThree(s)'
    BY <1>2, <1>h, <2>1, NewRequestsAnswer DEF AskTargets
  <2> QED
    BY <2>1, <2>2 DEF OneAnswer, Asking
<1>i. ASSUME NEW t \in Server, AskShutdown(t) PROVE CallTypeOK' /\ OneAnswer'
  <2>1. loop \notin Busy /\ loop' = "closing"
    BY <1>i DEF AskShutdown, Goes
  <2>2. CallTypeOK' /\ \A s \in Server : OneOfThree(s)' /\ (call'[s] # "none" => s = t)
    BY <1>2, <1>i, <2>1, NewRequestsAnswer DEF AskShutdown
  <2> QED
    BY <2>1, <2>2 DEF OneAnswer, Asking
<1>j. ASSUME NEW t \in Server, CloseBackend(t) PROVE CallTypeOK' /\ OneAnswer'
  <2>1. CallTypeOK' /\ \A s \in Server : OneOfThree(s)'
    BY <1>j, DiscardAnswers DEF CloseBackend
  <2>2. \A s \in Server : call'[s] = "none"
    BY <1>j DEF CloseBackend, Goes, Discard, OneAnswer, Asking, CallTypeOK
  <2> QED
    BY <2>1, <2>2 DEF OneAnswer, Asking
<1>k. CASE InitializeFails
  <2>1. Here \in Server /\ call[Here] \in {"ok", "err"} /\ loop = "initialize"
    BY <1>k, RouteAssumption DEF InitializeFails, NotInitialized, AtWork, Ensuring, AtBinding, Here
  <2>2. CallTypeOK' /\ \A s \in Server : OneOfThree(s)'
    BY <1>k, <2>1, DiscardAnswers DEF InitializeFails
  <2>3. \A s \in Server : call'[s] = "none"
    BY <1>k, <2>1 DEF InitializeFails, Discard, OneAnswer, Asking, CallTypeOK
  <2> QED
    BY <2>2, <2>3 DEF OneAnswer, Asking
<1>l. CASE Initialized
  <2>1. Here \in Server /\ call[Here] = "ok" /\ loop = "initialize" /\ UNCHANGED <<pending, chan, took>>
    BY <1>l, RouteAssumption DEF Initialized, Goes, AtWork, Ensuring, AtBinding, Here, pipeVars
  <2>2. call' = [call EXCEPT ![Here] = "none"]
    BY <1>l DEF Initialized
  <2>3. \A s \in Server : call'[s] = "none"
    BY <2>1, <2>2 DEF OneAnswer, Asking, CallTypeOK
  <2>4. CallTypeOK'
    BY <2>1, <2>2 DEF CallTypeOK
  <2>5. ASSUME NEW s \in Server PROVE OneOfThree(s)'
    BY <2>1, <2>2, <2>3 DEF OneAnswer, OneOfThree, CallTypeOK
  <2> QED
    BY <2>3, <2>4, <2>5 DEF OneAnswer, Asking
<1>m. CASE Reply
  <2>1. /\ \A s \in Server : call[s] \in {"none", "ok", "err"}
        /\ call' = [s \in Server |-> "none"]
        /\ UNCHANGED <<pending, chan, took>>
    BY <1>m DEF Reply, pipeVars
  <2>2. ASSUME NEW s \in Server PROVE OneOfThree(s)'
    BY <2>1 DEF OneAnswer, OneOfThree
  <2> QED
    BY <2>1, <2>2 DEF OneAnswer, Asking, CallTypeOK
<1> QED
  BY <1>a, <1>b, <1>c, <1>d, <1>e, <1>f, <1>g, <1>h, <1>i, <1>j, <1>k, <1>l, <1>m
     DEF LspNext, Loop, Goroutines

(* Backend.Request, readLoop and failPending: whoever answers a request    *)
(* first, the server, its end, the end of the pipe or the timeout, no one  *)
(* else does: no entry of pending outlives its request, and the channel,   *)
(* which has room for one message, is never sent a second.                 *)
THEOREM EveryRequestIsAnsweredOnce == LspSpec => []PendingIsWaitedFor
<1>1. OneAnswer => PendingIsWaitedFor
  BY DEF OneAnswer, OneOfThree, PendingIsWaitedFor
<1> QED
  BY <1>1, ProxyTypeCorrect, OneAnswerInit, OneAnswerStep, PTL DEF LspSpec
----------------------------------------------------------------------------
(* What the servers were told.                                             *)

LEMMA FollowingInit == LspInit => Following
BY DEF LspInit, Following, NotesAreCurrent, InFlight, FreshIsUntold, Fresh, BindingSoFar,
       BoundFollow, Ensuring

(* The editor opens, changes or closes a document when nothing is in flight.*)
LEMMA DidOpenFollows ==
  ASSUME Paced, RouteTypeOK, Following, NEW d \in Doc, DidOpen(d)
  PROVE  Following'
<1> USE DEF RouteTypeOK
<1>1. /\ InFlight = {} /\ InFlight' = {} /\ loop = "read" /\ fan = {} /\ writes = {}
      /\ UNCHANGED <<known, backends, proc, view>>
  BY DEF DidOpen, ChangesSettled, Reads, InFlight, noteVars, procVars
<1>2. /\ docs' = [docs EXCEPT ![d] = messages'] /\ messages' # 0
      /\ \A e \in Doc : e # d => docs'[e] = docs[e]
  BY DEF DidOpen, Reads
<1>3. Serving /\ NotesAreCurrent'
  BY <1>1 DEF Serving, NotesAreCurrent
<1>4. CASE LangOf[d] = NoLang
  <2>1. loop' = "read"
    BY <1>1, <1>4 DEF DidOpen
  <2>2. FreshIsUntold'
    BY <1>1, <1>2, <1>3, <1>4, <2>1, RouteAssumption
       DEF Following, FreshIsUntold, Fresh, Opening, Ensuring
  <2>3. BoundFollow'
    BY <1>1, <1>2, <1>3, <1>4, <2>1, RouteAssumption
       DEF Following, BoundFollow, Follows, Due, Opening, Ensuring
  <2> QED
    BY <1>3, <2>1, <2>2, <2>3 DEF Following, BindingSoFar, Ensuring
<1>5. CASE LangOf[d] # NoLang
  <2>1. loop' = "ensure" /\ job' = [kind |-> "open", doc |-> d]
    BY <1>5 DEF DidOpen
  <2>2. FreshIsUntold'
    BY <1>1, <1>2, <1>3, <2>1 DEF Following, FreshIsUntold, Fresh, Opening, Ensuring
  <2>3. BoundFollow'
    BY <1>1, <1>2, <1>3, <2>1 DEF Following, BoundFollow, Follows, Due, Opening, Ensuring
  <2>4. BindingSoFar'
    BY <1>2, <2>1 DEF BindingSoFar
  <2> QED
    BY <1>3, <2>2, <2>3, <2>4 DEF Following
<1> QED
  BY <1>4, <1>5

LEMMA DidChangeFollows ==
  ASSUME Paced, RouteTypeOK, Following, NEW d \in Doc, DidChange(d) \/ DidClose(d)
  PROVE  Following'
<1> USE DEF RouteTypeOK
<1>1. /\ InFlight = {} /\ loop = "read" /\ loop' = "read" /\ fan = {} /\ writes = {}
      /\ UNCHANGED <<known, backends, proc, view, writes>>
  BY DEF DidChange, DidClose, ChangesSettled, Reads, InFlight, procVars
<1>2. /\ docs[d] # 0 /\ docs'[d] \in {0, messages'} /\ messages' # 0
      /\ \A e \in Doc : e # d => docs'[e] = docs[e]
  BY DEF DidChange, DidClose, Reads
<1>3. Serving
  BY <1>1 DEF Serving
<1>4. CASE LangOf[d] = NoLang
  <2>1. fan' = {} /\ InFlight' = {}
    BY <1>1, <1>4 DEF DidChange, DidClose, InFlight
  <2>2. NotesAreCurrent'
    BY <2>1 DEF NotesAreCurrent
  <2>3. FreshIsUntold'
    BY <1>1, <1>2, <1>3, <1>4, RouteAssumption
       DEF Following, FreshIsUntold, Fresh, Opening, Ensuring
  <2>4. BoundFollow'
    BY <1>1, <1>2, <1>3, <1>4, <2>1, RouteAssumption
       DEF Following, BoundFollow, Follows, Due, Opening, Ensuring
  <2> QED
    BY <1>1, <2>2, <2>3, <2>4 DEF Following, BindingSoFar, Ensuring
<1>5. CASE LangOf[d] # NoLang
  <2>1. PICK m \in {"change", "close"} : /\ fan' = {Note(m, d)} /\ InFlight' = {Note(m, d)}
                                        /\ docs'[d] = IF m = "close" THEN 0 ELSE messages'
    BY <1>1, <1>5 DEF DidChange, DidClose, InFlight
  <2>2. Note(m, d) = [method |-> m, doc |-> d, version |-> messages']
    BY DEF Note
  <2>3. LangOf[d] \in Lang /\ known[LangOf[d]] # "absent"
    BY <1>1, <1>2, <1>3, <1>5, RouteAssumption
       DEF Following, FreshIsUntold, Fresh, Opening, Ensuring
  <2>4. NotesAreCurrent'
    BY <1>1, <1>2, <2>1, <2>2, <2>3 DEF NotesAreCurrent, Ensuring
  <2>5. FreshIsUntold'
    BY <1>1, <1>2, <1>3, <2>3 DEF Following, FreshIsUntold, Fresh, Opening, Ensuring
  <2>6. \A s \in Server : Due(s, d)'
    BY <2>1, <2>2 DEF Due
  <2>7. BoundFollow'
    BY <1>1, <1>2, <1>3, <2>1, <2>2, <2>6
       DEF Following, BoundFollow, Follows, Due, Opening, Ensuring, ServersOf
  <2> QED
    BY <1>1, <2>4, <2>5, <2>7 DEF Following, BindingSoFar, Ensuring
<1> QED
  BY <1>4, <1>5

(* The loop goes on without having told, opened or started anything.       *)
LEMMA MovesFollow ==
  ASSUME RouteTypeOK, Following, Serving,
         UNCHANGED <<docs, known, backends, noteVars, view>>,
         \A s \in Server : proc'[s] = "up" => proc[s] = "up",
         \/ UNCHANGED loopVars
         \/ ~Ensuring /\ (Ensuring' => loop' = "ensure" /\ job'.kind = "request")
  PROVE  Following'
<1>1. /\ \A d : Opening(d)' = Opening(d)
      /\ Ensuring' => Ensuring \/ job'.kind = "request"
      /\ loop' \in {"bind", "initialize"} => loop \in {"bind", "initialize"} /\ UNCHANGED loopVars
  BY DEF Opening, Ensuring, loopVars
<1>2. NotesAreCurrent'
  BY <1>1 DEF Following, NotesAreCurrent, InFlight, Ensuring, noteVars, loopVars, JobLang
<1>3. FreshIsUntold'
  BY <1>1 DEF Following, FreshIsUntold, Fresh, loopVars, JobLang
<1>4. BindingSoFar'
  BY <1>1 DEF Following, BindingSoFar, loopVars, JobLang, Ensuring
<1>5. ASSUME NEW s \in Server, NEW d \in Doc, Follows(s, d) PROVE Follows(s, d)'
  BY <1>1, <1>5 DEF Follows, Due, InFlight, noteVars
<1>6. ASSUME NEW l \in Lang PROVE ServersOf(l) \subseteq Server
  BY RouteAssumption DEF ServersOf
<1>7. BoundFollow'
  BY <1>5, <1>6 DEF Following, BoundFollow
<1> QED
  BY <1>2, <1>3, <1>4, <1>7 DEF Following

(* ensureLanguage is over: the document that was opened is passed on, and  *)
(* of a language that was bound all servers are in the map.                *)
LEMMA EnsuredFollows ==
  ASSUME RouteTypeOK, AtWork, Following, Ensuring, NEW ok \in BOOLEAN, Ensured(ok),
         UNCHANGED <<docs, backends, view>>,
         \A l \in Lang : l # JobLang => known'[l] = known[l],
         known'[JobLang] # "absent",
         \A s \in Server : proc'[s] = "up" => proc[s] = "up",
         known'[JobLang] = "bound" =>
           ok /\ (known[JobLang] = "bound" \/ (loop = "bind" /\ ServersOf(JobLang) \subseteq backends))
  PROVE  Following'
<1> DEFINE note == [method |-> "open", doc |-> job.doc, version |-> docs[job.doc]]
<1>1. /\ Serving /\ ~Ensuring'
      /\ JobLang \in Lang /\ job.doc \in Doc /\ LangOf[job.doc] = JobLang
      /\ job \in [kind : {"open", "request"}, doc : Doc]
  BY DEF Ensured, Ensuring, Serving, AtWork, JobLang, RouteTypeOK
<1>2. /\ fan' = fan \/ (job.kind = "open" /\ fan' = fan \cup {note})
      /\ ok /\ job.kind = "open" => fan' = fan \cup {note}
      /\ writes' = writes
  BY DEF Ensured
<1>3. InFlight' = InFlight \/ (job.kind = "open" /\ InFlight' = InFlight \cup {note})
  BY <1>2 DEF InFlight
<1>4. \A d : Opening(d) <=> job.kind = "open" /\ d = job.doc
  BY <1>1 DEF Opening
<1>5. \A d : ~Opening(d)'
  BY <1>1 DEF Opening
<1>6. NotesAreCurrent'
  <2>1. ASSUME NEW n \in InFlight
        PROVE  /\ IF n.method = "close" THEN docs'[n.doc] = 0
                                        ELSE n.version = docs'[n.doc] /\ docs'[n.doc] # 0
               /\ known'[LangOf[n.doc]] # "absent"
    <3>1. n \in Notes
      BY DEF InFlight, RouteTypeOK, Writes
    <3>2. LangOf[n.doc] \in Lang
      BY <3>1, RouteAssumption DEF Notes
    <3> QED
      BY <1>1, <3>2 DEF Following, NotesAreCurrent
  <2>2. job.kind = "open" => docs'[job.doc] # 0
    BY <1>1 DEF Following, BindingSoFar
  <2>3. loop' \notin {"bind", "initialize"}
    BY <1>1 DEF Ensuring
  <2> QED
    BY <1>1, <1>3, <2>1, <2>2, <2>3 DEF NotesAreCurrent
<1>7. FreshIsUntold'
  <2>1. ASSUME NEW d \in Doc, LangOf[d] \in Lang, Fresh(LangOf[d])'
        PROVE  Fresh(LangOf[d]) /\ ~Opening(d)
    BY <1>1, <1>4, <2>1 DEF Fresh, Ensuring
  <2> QED
    BY <1>1, <2>1 DEF Following, FreshIsUntold
<1>8. BindingSoFar'
  BY <1>1 DEF BindingSoFar, Ensuring
<1>9. BoundFollow'
  <2>1. ASSUME NEW l \in Lang, known'[l] = "bound", NEW s \in ServersOf(l)
        PROVE  s \in Server /\ s \in backends'
    BY <1>1, <2>1, RouteAssumption DEF Following, BoundFollow, ServersOf
  <2>2. ASSUME NEW l \in Lang, known'[l] = "bound", NEW s \in ServersOf(l), proc'[s] = "up",
               NEW d \in Doc, LangOf[d] = l
        PROVE  Follows(s, d)'
    <3>1. s \in Server /\ proc[s] = "up"
      BY <2>1, <2>2
    <3>0. ASSUME Opening(d) PROVE Due(s, d)'
      <4>1. job.kind = "open" /\ d = job.doc
        BY <1>4, <3>0
      <4>2. l = JobLang
        BY <1>1, <2>2, <4>1
      <4>3. note \in fan' /\ note.doc = d
        BY <1>2, <2>2, <4>1, <4>2
      <4> QED
        BY <4>3 DEF Due
    <3>2. CASE known[l] = "bound"
      <4>1. Follows(s, d)
        BY <1>1, <2>2, <3>1, <3>2 DEF Following, BoundFollow
      <4>2. Due(s, d) => Due(s, d)'
        BY <1>2 DEF Due
      <4>4. \A n \in InFlight' : n.method = "change" => n \in InFlight
        BY <1>3
      <4> QED
        BY <3>0, <4>1, <4>2, <4>4 DEF Follows
    <3>3. CASE known[l] # "bound"
      <4>1. l = JobLang /\ ok /\ loop = "bind"
        BY <2>2, <3>3
      <4>2. \A n \in InFlight : n.doc # d
        BY <1>1, <2>2, <4>1 DEF Following, NotesAreCurrent
      <4>3. \A n \in InFlight' : n.doc = d => n.method # "change"
        BY <1>3, <4>2
      <4>4. CASE Opening(d)
        BY <3>0, <4>3, <4>4 DEF Follows
      <4>5. CASE ~Opening(d)
        <5>1. Fresh(l)
          BY <4>1 DEF Fresh
        <5>2. docs[d] = 0 /\ view[s][d] = 0
          BY <1>1, <2>2, <3>1, <4>5, <5>1 DEF Following, FreshIsUntold
        <5> QED
          BY <4>3, <5>2 DEF Follows
      <4> QED
        BY <4>4, <4>5
    <3> QED
      BY <3>2, <3>3
  <2> QED
    BY <2>1, <2>2 DEF BoundFollow
<1> QED
  BY <1>6, <1>7, <1>8, <1>9 DEF Following

(* A language that is bound is not yet one that is bound: what is started  *)
(* or replayed for it does not change what others were told.               *)
LEMMA BindingFollows ==
  ASSUME RouteTypeOK, AtWork, Following,
         BindExisting \/ StartBackend \/ Initialized
  PROVE  Following'
<1>1. /\ Serving /\ Serving' /\ Ensuring /\ Ensuring'
      /\ loop \in {"bind", "initialize"} /\ loop' \in {"bind", "initialize"}
      /\ UNCHANGED <<job, fan, writes, docs, known>>
      /\ JobLang \in Lang /\ Here \in Server /\ JobLang' = JobLang
  BY SMTT(20), RouteAssumption DEF BindExisting, StartBackend, Initialized, Goes, AtBinding, AtWork, Here,
    Serving, Ensuring, noteVars, routeVars, JobLang
<1>2. NotesAreCurrent'
  BY <1>1 DEF Following, NotesAreCurrent, InFlight
<1>3. \A d : Opening(d)' <=> Opening(d)
  BY <1>1 DEF Opening
<1>4. ASSUME NEW s \in Server, NEW d \in Doc
      PROVE  \/ view'[s][d] = view[s][d]
             \/ s = Here /\ Here \notin backends /\ view'[s][d] = 0
             \/ LangOf[d] = JobLang /\ view'[s][d] = docs[d]
  BY <1>1 DEF BindExisting, StartBackend, Initialized, procVars, Told, RouteTypeOK
<1>5. FreshIsUntold'
  BY <1>1, <1>3, <1>4 DEF Following, FreshIsUntold, Fresh
<1>6. BindingSoFar'
  <2>1. CASE BindExisting \/ Initialized
    <3>1. at' = at + 1 /\ Here \in backends' /\ backends \subseteq backends'
      BY <2>1 DEF BindExisting, Initialized, routeVars
    <3>2. ASSUME NEW i \in DOMAIN Bindings[JobLang], i < at' PROVE Bindings[JobLang][i] \in backends'
      <4>1. Bindings[JobLang] \in Seq(Server)
        BY <1>1, RouteAssumption
      <4>2. i < at \/ i = at
        BY <3>1, <3>2, <4>1 DEF RouteTypeOK
      <4> QED
        BY <1>1, <3>1, <3>2, <4>2 DEF Following, BindingSoFar, Here
    <3> QED
      BY <1>1, <3>2 DEF Following, BindingSoFar
  <2>2. CASE StartBackend
    BY <1>1, <2>2 DEF Following, BindingSoFar, StartBackend, routeVars
  <2> QED
    BY <2>1, <2>2
<1>7. BoundFollow'
  <2>1. ASSUME NEW l \in Lang, known'[l] = "bound", NEW s \in ServersOf(l)
        PROVE  /\ s \in Server /\ s \in backends /\ s \in backends' /\ l # JobLang
               /\ proc'[s] = proc[s]
    <3>1. s \in Server /\ s \in backends /\ l # JobLang
      BY <1>1, <2>1, RouteAssumption DEF Following, BoundFollow, BindingSoFar, ServersOf
    <3> QED
      BY <1>1, <3>1 DEF BindExisting, StartBackend, Initialized, routeVars, procVars, RouteTypeOK
  <2>2. ASSUME NEW l \in Lang, known'[l] = "bound", NEW s \in ServersOf(l), proc'[s] = "up",
               NEW d \in Doc, LangOf[d] = l
        PROVE  Follows(s, d)'
    <3>1. Follows(s, d) /\ view'[s][d] = view[s][d]
      BY <1>1, <1>4, <2>1, <2>2 DEF Following, BoundFollow
    <3> QED
      BY <1>1, <1>3, <3>1 DEF Follows, Due, InFlight
  <2> QED
    BY <2>1, <2>2 DEF BoundFollow
<1> QED
  BY <1>2, <1>5, <1>6, <1>7 DEF Following

LEMMA FanOutFollows ==
  ASSUME RouteTypeOK, Following, NEW note \in fan, FanOut(note)
  PROVE  Following'
<1>1. /\ fan' = fan \ {note}
      /\ writes' = writes \cup
           {[server |-> s, note |-> note] : s \in BoundServers(LangOf[note.doc]) \cap backends}
      /\ UNCHANGED <<loop, job, at, docs, known, backends, proc, view>>
  BY DEF FanOut, loopVars, routeVars, procVars
<1>2. InFlight' \subseteq InFlight
  BY <1>1 DEF InFlight
<1>3. NotesAreCurrent' \/ ~Serving
  BY <1>1, <1>2 DEF Following, NotesAreCurrent, Ensuring, JobLang
<1>4. FreshIsUntold' \/ ~Serving
  BY <1>1 DEF Following, FreshIsUntold, Fresh, Opening, Ensuring, JobLang
<1>5. BindingSoFar' \/ ~Serving
  BY <1>1 DEF Following, BindingSoFar, Ensuring, JobLang
<1>6. ASSUME NEW l \in Lang, known[l] = "bound", NEW s \in ServersOf(l), s \in backends,
             NEW d \in Doc, LangOf[d] = l, Follows(s, d)
      PROVE  Follows(s, d)'
  <2>1. ASSUME Due(s, d) PROVE Due(s, d)'
    <3>1. CASE note.doc = d
      <4>1. s \in BoundServers(LangOf[note.doc]) \cap backends
        BY <1>6, <3>1 DEF BoundServers
      <4>2. [server |-> s, note |-> note] \in writes'
        BY <1>1, <4>1
      <4> QED
        BY <3>1, <4>2 DEF Due
    <3>2. CASE note.doc # d
      BY <1>1, <2>1, <3>2 DEF Due
    <3> QED
      BY <3>1, <3>2
  <2>2. Opening(d)' = Opening(d)
    BY <1>1 DEF Opening, Ensuring
  <2> QED
    BY <1>1, <1>2, <1>6, <2>1, <2>2 DEF Follows
<1>7. BoundFollow' \/ ~Serving
  BY <1>1, <1>6 DEF Following, BoundFollow
<1> QED
  BY <1>1, <1>3, <1>4, <1>5, <1>7 DEF Following, Serving

(* What a running server is told makes it show the document as it is.      *)
LEMMA NotifyFollows ==
  ASSUME RouteTypeOK, Following, NEW w \in writes, Notify(w)
  PROVE  Following'
<1> DEFINE t == w.server
           e == w.note.doc
<1>1. /\ writes' = writes \ {w} /\ fan' = fan
      /\ UNCHANGED <<loop, job, at, docs, known, backends, proc>>
  BY DEF Notify, loopVars, routeVars
<1>2. t \in Server /\ e \in Doc /\ LangOf[e] \in Lang /\ w.note \in InFlight /\ w.note \in Notes
  BY RouteAssumption DEF RouteTypeOK, Writes, Notes, InFlight
<1>3. /\ \A s \in Server, d \in Doc : s # t \/ d # e => view'[s][d] = view[s][d]
      /\ proc[t] # "up" => view' = view
      /\ proc[t] = "up" => view'[t][e] = Shows(t, w.note)
  BY <1>2 DEF Notify, RouteTypeOK
<1>4. InFlight' \subseteq InFlight
  BY <1>1 DEF InFlight
<1>5. NotesAreCurrent' \/ ~Serving
  BY <1>1, <1>4 DEF Following, NotesAreCurrent, Ensuring, JobLang
<1>6. BindingSoFar' \/ ~Serving
  BY <1>1 DEF Following, BindingSoFar, Ensuring, JobLang
<1>7. FreshIsUntold' \/ ~Serving
  <2>1. Serving => ~Fresh(LangOf[e])
    BY <1>2 DEF Following, NotesAreCurrent, Fresh
  <2> QED
    BY <1>1, <1>3, <2>1 DEF Following, FreshIsUntold, Fresh, Opening, Ensuring, JobLang
<1>8. ASSUME Serving, Follows(t, e), proc[t] = "up"
      PROVE  /\ view'[t][e] = docs[e]
             /\ \A n \in InFlight : n.doc = e /\ n.method = "change" => view'[t][e] # 0
  <2>1. IF w.note.method = "close" THEN docs[e] = 0 ELSE w.note.version = docs[e] /\ docs[e] # 0
    BY <1>2, <1>8 DEF Following, NotesAreCurrent
  <2>2. w.note.method = "change" => view[t][e] # 0
    BY <1>2, <1>8 DEF Follows
  <2>3. w.note.method \in {"open", "change", "close"}
    BY <1>2 DEF Notes
  <2>4. Shows(t, w.note) = docs[e]
    <3>1. CASE w.note.method = "open"
      BY <2>1, <3>1 DEF Shows
    <3>2. CASE w.note.method = "change"
      BY <2>1, <2>2, <3>2 DEF Shows
    <3>3. CASE w.note.method = "close"
      BY <2>1, <3>3 DEF Shows
    <3> QED
      BY <2>3, <3>1, <3>2, <3>3
  <2>5. \A n \in InFlight : n.doc = e /\ n.method = "change" => docs[e] # 0
    BY <1>8 DEF Following, NotesAreCurrent
  <2> QED
    BY <1>3, <1>8, <2>4, <2>5
<1>9. ASSUME Serving, NEW s \in Server, NEW d \in Doc, proc[s] = "up", Follows(s, d)
      PROVE  Follows(s, d)'
  <2>1. CASE s = t /\ d = e
    BY <1>1, <1>4, <1>8, <1>9, <2>1 DEF Follows
  <2>2. CASE s # t \/ d # e
    <3>1. Due(s, d) => Due(s, d)'
      BY <1>1, <2>2 DEF Due
    <3>2. Opening(d)' = Opening(d)
      BY <1>1 DEF Opening, Ensuring
    <3> QED
      BY <1>1, <1>3, <1>4, <1>9, <2>2, <3>1, <3>2 DEF Follows
  <2> QED
    BY <2>1, <2>2
<1>10. ASSUME NEW l \in Lang PROVE ServersOf(l) \subseteq Server
  BY RouteAssumption DEF ServersOf
<1>11. BoundFollow' \/ ~Serving
  BY <1>1, <1>9, <1>10 DEF Following, BoundFollow
<1> QED
  BY <1>1, <1>5, <1>6, <1>7, <1>11 DEF Following, Serving

LEMMA FollowingStep ==
  ASSUME Paced, RouteTypeOK, AtWork, Following, [LspNext]_lspVars
  PROVE  Following'
<1> DEFINE Idle == UNCHANGED <<docs, known, backends, noteVars, view>>
           Down == \A s \in Server : proc'[s] = "up" => proc[s] = "up"
<1>1. ASSUME ~Serving' PROVE Following'
  BY <1>1 DEF Following
<1>a. ASSUME NEW d \in Doc, DidOpen(d) \/ DidChange(d) \/ DidClose(d) PROVE Following'
  BY <1>a, DidOpenFollows, DidChangeFollows
<1>b. ASSUME NEW d \in Doc \cup {NoDoc}, ForwardRequest(d) PROVE Following'
  <2>1. Idle /\ Down /\ loop = "read" /\ loop' \in {"ensure", "target"} /\ job'.kind = "request"
    BY <1>b DEF ForwardRequest, Reads, procVars, noteVars
  <2> QED
    BY <2>1, MovesFollow DEF Serving, Ensuring
<1>c. CASE Shutdown \/ Exit \/ ReadFails \/ AllClosed
  BY <1>1, <1>c DEF Shutdown, Exit, ReadFails, AllClosed, Goes, Serving
<1>d. ASSUME NEW s \in Server, AskShutdown(s) \/ CloseBackend(s) PROVE Following'
  BY <1>1, <1>d DEF AskShutdown, CloseBackend, Goes, Serving
<1>e. CASE EnsureLanguage
  <2>1. /\ loop = "ensure" /\ Ensuring /\ Serving /\ JobLang \in Lang
        /\ UNCHANGED <<docs, backends, proc, view>>
        /\ known' = [known EXCEPT ![JobLang] = IF @ = "absent" THEN "marked" ELSE @]
    BY <1>e DEF EnsureLanguage, AtWork, Ensuring, Serving, procVars
  <2>2. CASE Ensured(TRUE)
    <3>1. known'[JobLang] = IF known[JobLang] = "absent" THEN "marked" ELSE known[JobLang]
      BY <2>1 DEF RouteTypeOK
    <3>2. \A l \in Lang : l # JobLang => known'[l] = known[l]
      BY <2>1 DEF RouteTypeOK
    <3> QED
      <4>1. known'[JobLang] # "absent" /\ (known'[JobLang] = "bound" => known[JobLang] = "bound")
        BY <3>1
      <4>2. Down
        BY <2>1
      <4> QED
        BY <2>1, <2>2, <3>2, <4>1, <4>2, EnsuredFollows
  <2>3. CASE ~Ensured(TRUE)
    <3>1. /\ known[JobLang] = "absent" /\ loop' = "bind" /\ at' = 1
          /\ UNCHANGED <<job, fan, writes>>
      BY <1>e, <2>3 DEF EnsureLanguage, noteVars
    <3>2. /\ JobLang' = JobLang /\ Ensuring' /\ InFlight' = InFlight
          /\ \A d : Opening(d)' <=> Opening(d)
      BY <2>1, <3>1 DEF JobLang, Ensuring, InFlight, Opening
    <3>3. NotesAreCurrent'
      <4>1. \A n \in InFlight : LangOf[n.doc] \in Lang
        BY RouteAssumption DEF InFlight, RouteTypeOK, Writes, Notes
      <4>2. \A n \in InFlight : LangOf[n.doc] # JobLang
        BY <2>1, <3>1 DEF Following, NotesAreCurrent
      <4> QED
        BY <2>1, <3>1, <3>2, <4>1, <4>2 DEF Following, NotesAreCurrent, RouteTypeOK
    <3>4. FreshIsUntold'
      <4>1. ASSUME NEW l \in Lang, Fresh(l)' PROVE Fresh(l)
        BY <2>1, <3>1, <3>2, <4>1 DEF Fresh, RouteTypeOK
      <4> QED
        BY <2>1, <3>2, <4>1 DEF Following, FreshIsUntold
    <3>5. BindingSoFar'
      <4>1. Bindings[JobLang] \in Seq(Server)
        BY <2>1, RouteAssumption
      <4>2. \A i \in DOMAIN Bindings[JobLang] : ~(i < at')
        BY <3>1, <4>1
      <4> QED
        BY <2>1, <3>1, <3>2, <4>2 DEF Following, BindingSoFar, RouteTypeOK
    <3>6. BoundFollow'
      <4>1. ASSUME NEW l \in Lang, known'[l] = "bound" PROVE known[l] = "bound"
        BY <2>1, <3>1, <4>1 DEF RouteTypeOK
      <4>2. ASSUME NEW s \in Server, NEW d \in Doc, Follows(s, d) PROVE Follows(s, d)'
        BY <2>1, <3>1, <3>2, <4>2 DEF Follows, Due
      <4>3. ASSUME NEW l \in Lang PROVE ServersOf(l) \subseteq Server
        BY RouteAssumption DEF ServersOf
      <4> QED
        BY <2>1, <4>1, <4>2, <4>3 DEF Following, BoundFollow
    <3> QED
      BY <3>3, <3>4, <3>5, <3>6 DEF Following
  <2> QED
    BY <2>2, <2>3
<1>f. CASE BindExisting \/ StartBackend \/ Initialized
  BY <1>f, BindingFollows
<1>g. CASE StartFails \/ InitializeFails
  <2>1. /\ loop \in {"bind", "initialize"} /\ Ensured(FALSE)
        /\ UNCHANGED <<docs, known, backends, view>>
    BY <1>g DEF StartFails, InitializeFails, routeVars, procVars
  <2>2. Down
    BY <1>g DEF StartFails, InitializeFails, Discard, procVars, RouteTypeOK
  <2>3. known[JobLang] = "marked"
    BY <2>1 DEF Following, BindingSoFar, Serving
  <2> QED
    BY <2>1, <2>2, <2>3, EnsuredFollows DEF Ensuring
<1>h. CASE Bound
  <2>1. /\ loop = "bind" /\ Ensured(TRUE) /\ Ensuring /\ Serving
        /\ known' = [known EXCEPT ![JobLang] = "bound"]
        /\ UNCHANGED <<docs, backends, view, proc>>
    BY <1>h DEF Bound, procVars, Ensuring, Serving
  <2>2. JobLang \in Lang /\ Bindings[JobLang] \in Seq(Server)
    BY <2>1, RouteAssumption DEF AtWork
  <2>3. \A i \in DOMAIN Bindings[JobLang] : i < at
    <3>1. at \in 1 .. Len(Bindings[JobLang]) + 1 /\ at \notin DOMAIN Bindings[JobLang]
      BY <1>h, <2>1 DEF Bound, AtBinding, AtWork
    <3> QED
      BY <2>2, <3>1
  <2>4. ServersOf(JobLang) \subseteq backends
    BY <2>1, <2>3 DEF Following, BindingSoFar, ServersOf
  <2>5. known'[JobLang] = "bound" /\ \A l \in Lang : l # JobLang => known'[l] = known[l]
    BY <2>1, <2>2 DEF RouteTypeOK
  <2> QED
    BY <2>1, <2>4, <2>5, EnsuredFollows
<1>i. CASE NoTarget \/ AskTargets \/ Reply
  <2>1. Idle /\ Down /\ loop \in {"target", "wait"} /\ loop' \in {"read", "wait"}
    BY <1>i DEF NoTarget, AskTargets, Reply, Goes, routeVars, procVars, noteVars
  <2> QED
    BY <2>1, MovesFollow DEF Serving, Ensuring
<1>j. ASSUME NEW note \in fan, FanOut(note) PROVE Following'
  BY <1>j, FanOutFollows
<1>k. ASSUME NEW w \in writes, Notify(w) PROVE Following'
  BY <1>k, NotifyFollows
<1>l. CASE (\E s \in Server : ServerExits(s)) \/ UNCHANGED rest
  <2>1. Idle /\ Down /\ UNCHANGED loopVars
    BY <1>l DEF ServerExits, rest, routeVars, procVars, noteVars, RouteTypeOK
  <2>2. Serving' = Serving
    BY <2>1 DEF Serving, loopVars
  <2> QED
    BY <1>1, <2>1, <2>2, MovesFollow
<1> QED
  BY <1>a, <1>b, <1>c, <1>d, <1>e, <1>f, <1>g, <1>h, <1>i, <1>j, <1>k, <1>l, StepsOfTheProxy
     DEF Step

(* workspaced lsp: with an editor that lets one change settle before the   *)
(* next, every running server of a language shows every document as the    *)
(* editor does once the goroutines are through, whichever servers were     *)
(* there before, are shared with another language, failed or died.         *)
THEOREM ServersFollowTheEditor == ASSUME Paced PROVE LspSpec => []BackendsFollowDocs
<1>1. ASSUME RouteTypeOK, Following PROVE BackendsFollowDocs
  <2>1. ASSUME loop = "read", fan = {}, writes = {}, NEW d \in Doc, LangOf[d] # NoLang,
               NEW s \in BoundServers(LangOf[d]) \cap backends, proc[s] = "up"
        PROVE  view[s][d] = docs[d]
    <3>1. Serving /\ ~Opening(d) /\ ~Due(s, d)
      BY <2>1 DEF Serving, Opening, Ensuring, Due
    <3>2. LangOf[d] \in Lang /\ known[LangOf[d]] = "bound" /\ s \in ServersOf(LangOf[d])
      BY <2>1, RouteAssumption DEF BoundServers
    <3>3. Follows(s, d)
      BY <1>1, <2>1, <3>1, <3>2 DEF Following, BoundFollow
    <3> QED
      BY <3>1, <3>3 DEF Follows
  <2> QED
    BY <2>1 DEF BackendsFollowDocs
<1> QED
  BY <1>1, ProxyTypeCorrect, FollowingInit, FollowingStep, PTL DEF LspSpec
=============================================================================
