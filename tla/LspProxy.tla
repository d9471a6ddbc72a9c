------------------------------ MODULE LspProxy ------------------------------
(***************************************************************************)
(* workspaced lsp (internal/lsp): one loop reads the editor's messages and *)
(* handles each to the end, starting language servers, waiting for their   *)
(* answers or stopping them on the way; goroutines pass document changes   *)
(* on; each server has a reader and a waiter that answer pending requests. *)
(* Modelled from the answer to initialize on, with an editor that sends    *)
(* nothing but exit after shutdown.  Of a document only its version is     *)
(* kept, of an answer only that it came; notifications that change no      *)
(* document are left out.                                                  *)
(***************************************************************************)
EXTENDS Integers, Sequences

CONSTANTS
  Doc, Lang, Server,
  LangOf,     \* ResolveLanguage of each document: a language or NoLang
  Bindings,   \* the servers of each language, in order
  Capable,    \* those of them whose capabilities include the request's
  NoLang, NoDoc,
  Paced,      \* the editor waits for one change to settle before the next
  MaxMessages, MaxCrashes

ServersOf(l) == {Bindings[l][i] : i \in DOMAIN Bindings[l]}

ASSUME RouteAssumption ==
  /\ LangOf \in [Doc -> Lang \cup {NoLang}]
  /\ NoLang \notin Lang /\ NoDoc \notin Doc
  /\ Bindings \in [Lang -> Seq(Server)]
  /\ \A l \in Lang : Capable[l] \subseteq ServersOf(l)
  /\ Paced \in BOOLEAN
  /\ MaxMessages \in Nat /\ MaxCrashes \in Nat

VARIABLES
  loop, job, at, \* the loop: where it is, its message, the binding it is at
  docs,          \* the version of each document, 0 when it is not open
  known,         \* langServers: "absent", "marked" (nil) or "bound"
  backends,      \* the servers in the backends map
  fan, writes,   \* the goroutines of syncNotify, and the ones they start
  proc,          \* each server process: "off", "up" or "dead"
  view,          \* what each server was told of each document
  call,          \* the Request the loop makes of each server
  pending, chan, \* the ids in Backend.pending; what the call's channel holds
  took,          \* the id the reader took out of pending
  asked, answers,\* the ids a server was sent, and has answered in the pipe
  watch,         \* the reader and the waiter of each server, while they run
  messages, crashes  \* bounded counters

loopVars == <<loop, job, at>>
noteVars == <<fan, writes>>
routeVars == <<docs, known, backends>>
callVars == <<call, pending, chan>>
pipeVars == <<took, asked, answers, watch>>
procVars == <<proc, view>>
bounds == <<messages, crashes>>
lspVars == <<loopVars, noteVars, routeVars, callVars, pipeVars, procVars, bounds>>

None == "none"
NoJob == [kind |-> "none", doc |-> NoDoc]

LspInit ==
  /\ loop = "read" /\ job = NoJob /\ at = 0
  /\ docs = [d \in Doc |-> 0]
  /\ known = [l \in Lang |-> "absent"]
  /\ backends = {}
  /\ fan = {} /\ writes = {}
  /\ proc = [s \in Server |-> "off"]
  /\ view = [s \in Server |-> [d \in Doc |-> 0]]
  /\ call = [s \in Server |-> "none"]
  /\ pending = [s \in Server |-> {}]
  /\ chan = [s \in Server |-> <<>>]
  /\ took = [s \in Server |-> None]
  /\ asked = [s \in Server |-> {}]
  /\ answers = [s \in Server |-> {}]
  /\ watch = [s \in Server |-> {}]
  /\ messages = 0 /\ crashes = 0

(* nextID gives each Request an id of its own: "this" is the id of the last *)
(* one made of a server, "past" that of any before it.                     *)
Past(ids) == {"past" : i \in ids}

NewRequests(S) ==
  /\ call' = [s \in Server |-> IF s \in S THEN "register" ELSE call[s]]
  /\ pending' = [s \in Server |-> IF s \in S THEN Past(pending[s]) ELSE pending[s]]
  /\ asked' = [s \in Server |-> IF s \in S THEN Past(asked[s]) ELSE asked[s]]
  /\ answers' = [s \in Server |-> IF s \in S THEN Past(answers[s]) ELSE answers[s]]
  /\ took' = [s \in Server |-> IF s \in S /\ took[s] = "this" THEN "past" ELSE took[s]]

(* Of a Backend that is closed nothing is left to wait for.                *)
Discard(s) ==
  /\ call' = [call EXCEPT ![s] = "none"]
  /\ proc' = [proc EXCEPT ![s] = "dead"]
  /\ watch' = [watch EXCEPT ![s] = {}]
  /\ asked' = [asked EXCEPT ![s] = {}]
  /\ answers' = [answers EXCEPT ![s] = {}]
  /\ took' = [took EXCEPT ![s] = None]
  /\ chan' = [chan EXCEPT ![s] = <<>>]

Goes(from, to) == loop = from /\ loop' = to
----------------------------------------------------------------------------
(* The editor's messages.                                                  *)
Reads ==
  /\ loop = "read"
  /\ messages < MaxMessages
  /\ messages' = messages + 1
  /\ UNCHANGED <<callVars, pipeVars, procVars, backends, known, crashes, at>>

ChangesSettled == Paced => fan = {} /\ writes = {}

Note(method, d) == [method |-> method, doc |-> d, version |-> messages']

DidOpen(d) ==
  /\ docs[d] = 0 /\ ChangesSettled
  /\ Reads
  /\ docs' = [docs EXCEPT ![d] = messages']
  /\ IF LangOf[d] = NoLang THEN UNCHANGED <<loop, job>>
     ELSE loop' = "ensure" /\ job' = [kind |-> "open", doc |-> d]
  /\ UNCHANGED noteVars

DidChange(d) ==
  /\ docs[d] # 0 /\ ChangesSettled
  /\ Reads
  /\ docs' = [docs EXCEPT ![d] = messages']
  /\ fan' = IF LangOf[d] = NoLang THEN fan ELSE fan \cup {Note("change", d)}
  /\ UNCHANGED <<loop, job, writes>>

DidClose(d) ==
  /\ docs[d] # 0 /\ ChangesSettled
  /\ Reads
  /\ docs' = [docs EXCEPT ![d] = 0]
  /\ fan' = IF LangOf[d] = NoLang THEN fan ELSE fan \cup {Note("close", d)}
  /\ UNCHANGED <<loop, job, writes>>

(* A request about a document, open or not, or about the workspace.        *)
ForwardRequest(d) ==
  /\ Reads
  /\ job' = [kind |-> "request", doc |-> d]
  /\ loop' = IF d # NoDoc /\ LangOf[d] # NoLang THEN "ensure" ELSE "target"
  /\ UNCHANGED <<docs, noteVars>>

Shutdown ==
  /\ Reads
  /\ loop' = "close"
  /\ job' = [kind |-> "shutdown", doc |-> NoDoc]
  /\ UNCHANGED <<docs, noteVars>>

(* exit, or the end of the editor's stream.                                *)
Exit ==
  /\ loop \in {"read", "down"}
  /\ loop' = "close"
  /\ job' = [kind |-> "exit", doc |-> NoDoc]
  /\ UNCHANGED <<at, noteVars, routeVars, callVars, pipeVars, procVars, bounds>>

(* A message that cannot be read ends the loop as it is.                   *)
ReadFails ==
  /\ Goes("read", "failed")
  /\ UNCHANGED <<job, at, noteVars, routeVars, callVars, pipeVars, procVars, bounds>>
----------------------------------------------------------------------------
(* ensureLanguage.                                                         *)
JobLang == LangOf[job.doc]
Here == Bindings[JobLang][at]
AtBinding == at \in DOMAIN Bindings[JobLang]

(* onDidOpen sends the document on, or gives up; a request goes on anyway. *)
Ensured(ok) ==
  /\ at' = 0
  /\ IF job.kind = "open"
       THEN /\ loop' = "read"
            /\ job' = NoJob
            /\ fan' = IF ~ok THEN fan ELSE
                 fan \cup {[method |-> "open", doc |-> job.doc, version |-> docs[job.doc]]}
       ELSE loop' = "target" /\ UNCHANGED <<job, fan>>
  /\ UNCHANGED writes

EnsureLanguage ==
  /\ loop = "ensure"
  /\ IF known[JobLang] # "absent" \/ Bindings[JobLang] = <<>>
       THEN Ensured(TRUE)
       ELSE loop' = "bind" /\ at' = 1 /\ UNCHANGED <<job, noteVars>>
  /\ known' = [known EXCEPT ![JobLang] = IF @ = "absent" THEN "marked" ELSE @]
  /\ UNCHANGED <<docs, backends, callVars, pipeVars, procVars, bounds>>

BindExisting ==
  /\ loop = "bind" /\ AtBinding
  /\ Here \in backends
  /\ at' = at + 1
  /\ UNCHANGED <<loop, job, noteVars, routeVars, callVars, pipeVars, procVars, bounds>>

(* A new process and Backend; the initialize request is its first.         *)
StartBackend ==
  /\ Goes("bind", "initialize") /\ AtBinding
  /\ Here \notin backends
  /\ proc' = [proc EXCEPT ![Here] = "up"]
  /\ view' = [view EXCEPT ![Here] = [d \in Doc |-> 0]]
  /\ NewRequests({Here})
  /\ watch' = [watch EXCEPT ![Here] = {"reader", "waiter"}]
  /\ UNCHANGED <<job, at, noteVars, routeVars, chan, bounds>>

(* No such server, no tool, or exec fails: the language stays marked.      *)
StartFails ==
  /\ loop = "bind" /\ AtBinding
  /\ Here \notin backends
  /\ Ensured(FALSE)
  /\ UNCHANGED <<routeVars, callVars, pipeVars, procVars, bounds>>

Told(s) == [d \in Doc |-> IF LangOf[d] = JobLang THEN docs[d] ELSE view[s][d]]

(* initialized, the replay of the open documents, and only then published. *)
Initialized ==
  /\ Goes("initialize", "bind")
  /\ call[Here] = "ok" /\ proc[Here] = "up"
  /\ call' = [call EXCEPT ![Here] = "none"]
  /\ view' = [view EXCEPT ![Here] = Told(Here)]
  /\ backends' = backends \cup {Here}
  /\ at' = at + 1
  /\ UNCHANGED <<job, noteVars, docs, known, pending, chan, pipeVars, proc, bounds>>

(* An error answers the request, or initialized cannot be written.         *)
NotInitialized == call[Here] = "err" \/ (call[Here] = "ok" /\ proc[Here] = "dead")

(* Mutation: a server that does not initialize is left running.            *)
InitializeFailsOpen ==
  /\ loop = "initialize" /\ NotInitialized
  /\ call' = [call EXCEPT ![Here] = "none"]
  /\ Ensured(FALSE)
  /\ UNCHANGED <<routeVars, pending, chan, pipeVars, procVars, bounds>>

(* It is closed; the language stays marked and is not tried again.         *)
InitializeFails ==
  /\ loop = "initialize" /\ NotInitialized
  /\ Discard(Here)
  /\ Ensured(FALSE)
  /\ UNCHANGED <<routeVars, pending, view, bounds>>

Bound ==
  /\ loop = "bind" /\ ~AtBinding
  /\ known' = [known EXCEPT ![JobLang] = "bound"]
  /\ Ensured(TRUE)
  /\ UNCHANGED <<docs, backends, callVars, pipeVars, procVars, bounds>>
----------------------------------------------------------------------------
(* forwardRequest, once the language was ensured.                          *)
BoundServers(l) == IF known[l] = "bound" THEN ServersOf(l) ELSE {}

Targets ==
  IF job.doc # NoDoc /\ JobLang # NoLang
    THEN BoundServers(JobLang) \cap Capable[JobLang] \cap backends
    ELSE {s \in backends :
            \/ \E l \in Lang : s \in BoundServers(l) \cap Capable[l]
            \/ \A l \in Lang : known[l] = "absent"}

NoTarget ==
  /\ Goes("target", "read")
  /\ Targets = {}
  /\ job' = NoJob
  /\ UNCHANGED <<at, noteVars, routeVars, callVars, pipeVars, procVars, bounds>>

AskTargets ==
  /\ Goes("target", "wait")
  /\ Targets # {}
  /\ NewRequests(Targets)
  /\ UNCHANGED <<job, at, noteVars, routeVars, chan, watch, procVars, bounds>>

(* What answered is merged; when nothing did, an error is the answer.      *)
Reply ==
  /\ Goes("wait", "read")
  /\ \A s \in Server : call[s] \in {"none", "ok", "err"}
  /\ call' = [s \in Server |-> "none"]
  /\ job' = NoJob
  /\ UNCHANGED <<at, noteVars, routeVars, pending, chan, pipeVars, procVars, bounds>>
----------------------------------------------------------------------------
(* closeAll, with p.mu held.                                               *)
AskShutdown(s) ==
  /\ Goes("close", "closing")
  /\ s \in backends
  /\ NewRequests({s})
  /\ UNCHANGED <<job, at, noteVars, routeVars, chan, watch, procVars, bounds>>

(* exit, and Close, whatever came of shutdown.                             *)
CloseBackend(s) ==
  /\ Goes("closing", "close")
  /\ call[s] \in {"ok", "err"}
  /\ Discard(s)
  /\ backends' = backends \ {s}
  /\ UNCHANGED <<job, at, noteVars, docs, known, pending, view, bounds>>

AllClosed ==
  /\ Goes("close", IF job.kind = "shutdown" THEN "down" ELSE "ended")
  /\ backends = {}
  /\ known' = [l \in Lang |-> "absent"]
  /\ job' = NoJob
  /\ UNCHANGED <<at, noteVars, docs, backends, callVars, pipeVars, procVars, bounds>>
----------------------------------------------------------------------------
(* Backend.Request, in the loop or in a goroutine it waits for.            *)
rest == <<loopVars, noteVars, routeVars, procVars, bounds>>

Register(s) ==
  /\ call[s] = "register"
  /\ call' = [call EXCEPT ![s] = "write"]
  /\ chan' = [chan EXCEPT ![s] = <<>>]
  /\ pending' = [pending EXCEPT ![s] = @ \cup {"this"}]
  /\ UNCHANGED <<rest, pipeVars>>

Write(s) ==
  /\ call[s] = "write"
  /\ IF proc[s] = "up"
       THEN /\ call' = [call EXCEPT ![s] = "wait"]
            /\ asked' = [asked EXCEPT ![s] = @ \cup {"this"}]
            /\ UNCHANGED pending
       ELSE /\ call' = [call EXCEPT ![s] = "err"]
            /\ pending' = [pending EXCEPT ![s] = @ \ {"this"}]
            /\ UNCHANGED asked
  /\ UNCHANGED <<rest, chan, took, answers, watch>>

Receive(s) ==
  /\ call[s] = "wait" /\ chan[s] # <<>>
  /\ call' = [call EXCEPT ![s] = Head(chan[s])]
  /\ chan' = [chan EXCEPT ![s] = Tail(@)]
  /\ UNCHANGED <<rest, pending, pipeVars>>

(* Mutation: the pending entry of a request that timed out is kept.        *)
TimeoutLeaks(s) ==
  /\ call[s] = "wait" /\ loop # "closing"
  /\ call' = [call EXCEPT ![s] = "err"]
  /\ UNCHANGED <<rest, pending, chan, pipeVars>>

(* shutdown has no timeout.                                                *)
Timeout(s) ==
  /\ call[s] = "wait" /\ loop # "closing"
  /\ call' = [call EXCEPT ![s] = "err"]
  /\ pending' = [pending EXCEPT ![s] = @ \ {"this"}]
  /\ UNCHANGED <<rest, chan, pipeVars>>

Request(s) == Register(s) \/ Write(s) \/ Receive(s) \/ Timeout(s)
----------------------------------------------------------------------------
(* The reader and the waiter of a server, and the server itself.           *)
Into(c, s, i, what) == IF i = "this" THEN [c EXCEPT ![s] = Append(@, what)] ELSE c

TakeAnswer(s) ==
  /\ "reader" \in watch[s] /\ took[s] = None
  /\ \E i \in answers[s] :
       /\ answers' = [answers EXCEPT ![s] = @ \ {i}]
       /\ took' = [took EXCEPT ![s] = IF i \in pending[s] THEN i ELSE None]
       /\ pending' = [pending EXCEPT ![s] = @ \ {i}]
  /\ UNCHANGED <<rest, call, chan, asked, watch>>

(* The answer is a result or an error object.                              *)
Deliver(s) ==
  /\ took[s] # None
  /\ \E what \in {"ok", "err"} : chan' = Into(chan, s, took[s], what)
  /\ took' = [took EXCEPT ![s] = None]
  /\ UNCHANGED <<rest, call, pending, asked, answers, watch>>

(* Each calls failPending as it ends; Wait may close the reader's pipe.    *)
FailPending(s, w) ==
  /\ proc[s] = "dead" /\ w \in watch[s]
  /\ w = "reader" => took[s] = None
  /\ watch' = [watch EXCEPT ![s] = @ \ {w}]
  /\ chan' = IF "this" \in pending[s] THEN Into(chan, s, "this", "err") ELSE chan
  /\ pending' = [pending EXCEPT ![s] = {}]
  /\ answers' = IF w = "reader" THEN [answers EXCEPT ![s] = {}] ELSE answers
  /\ UNCHANGED <<rest, call, took, asked>>

ServerAnswers(s) ==
  /\ proc[s] = "up"
  /\ \E i \in asked[s] :
       /\ asked' = [asked EXCEPT ![s] = @ \ {i}]
       /\ answers' = [answers EXCEPT ![s] = @ \cup {i}]
  /\ UNCHANGED <<rest, callVars, took, watch>>

ServerExits(s) ==
  /\ proc[s] = "up"
  /\ crashes < MaxCrashes
  /\ crashes' = crashes + 1
  /\ proc' = [proc EXCEPT ![s] = "dead"]
  /\ asked' = [asked EXCEPT ![s] = {}]
  /\ UNCHANGED <<loopVars, noteVars, routeVars, callVars, took, answers, watch,
                 view, messages>>
----------------------------------------------------------------------------
(* syncNotify looks the servers up when it runs, then writes to each in a  *)
(* goroutine of its own; nothing orders the goroutines.                    *)

(* Mutation: only the first server of the language is told.                *)
FanOutFirst(note) ==
  /\ loop \notin {"close", "closing"}
  /\ fan' = fan \ {note}
  /\ LET l == LangOf[note.doc] IN
     writes' = writes \cup
       {[server |-> s, note |-> note] :
          s \in BoundServers(l) \cap backends \cap {Bindings[l][i] : i \in {1} \cap DOMAIN Bindings[l]}}
  /\ UNCHANGED <<loopVars, routeVars, callVars, pipeVars, procVars, bounds>>

FanOut(note) ==
  /\ loop \notin {"close", "closing"}
  /\ fan' = fan \ {note}
  /\ writes' = writes \cup
       {[server |-> s, note |-> note] : s \in BoundServers(LangOf[note.doc]) \cap backends}
  /\ UNCHANGED <<loopVars, routeVars, callVars, pipeVars, procVars, bounds>>

(* A server ignores a change of a document it was not told of.             *)
Shows(s, note) ==
  CASE note.method = "open" -> note.version
    [] note.method = "change" -> IF view[s][note.doc] = 0 THEN 0 ELSE note.version
    [] note.method = "close" -> 0

Notify(w) ==
  /\ writes' = writes \ {w}
  /\ view' = IF proc[w.server] = "up"
               THEN [view EXCEPT ![w.server][w.note.doc] = Shows(w.server, w.note)]
               ELSE view
  /\ UNCHANGED <<loopVars, fan, routeVars, callVars, pipeVars, proc, bounds>>
----------------------------------------------------------------------------
Editor ==
  \/ \E d \in Doc : DidOpen(d) \/ DidChange(d) \/ DidClose(d)
  \/ \E d \in Doc \cup {NoDoc} : ForwardRequest(d)
  \/ Shutdown \/ Exit \/ ReadFails

Loop ==
  \/ EnsureLanguage
  \/ loop = "bind" /\ (BindExisting \/ StartBackend \/ StartFails \/ Bound)
  \/ loop = "initialize" /\ (Initialized \/ InitializeFails)
  \/ NoTarget \/ AskTargets \/ Reply
  \/ \E s \in Server : AskShutdown(s) \/ CloseBackend(s)
  \/ AllClosed

Watch(s) == TakeAnswer(s) \/ Deliver(s) \/ \E w \in {"reader", "waiter"} : FailPending(s, w)

(* When the loop is over the process exits.                                *)
Over == loop \in {"ended", "failed"}

Goroutines ==
  \/ \E note \in fan : FanOut(note)
  \/ \E w \in writes : Notify(w)
  \/ \E s \in Server : Request(s) \/ Watch(s) \/ ServerAnswers(s) \/ ServerExits(s)

LspNext ==
  \/ Editor \/ Loop
  \/ ~Over /\ Goroutines
  \/ Over /\ UNCHANGED lspVars

LspSpec == LspInit /\ [][LspNext]_lspVars

(* Runnable goroutines run and timers fire; a server need not answer, but  *)
(* for shutdown, which is waited for without a timeout.                    *)
LspFairSpec ==
  /\ LspSpec /\ WF_lspVars(Loop)
  /\ \A s \in Server : /\ WF_lspVars(Request(s)) /\ WF_lspVars(Watch(s))
                       /\ WF_lspVars(loop = "closing" /\ ServerAnswers(s))
----------------------------------------------------------------------------
(* A request gets at most one message: Backend.pending holds no request    *)
(* that nobody waits for, and its channel, which has room for one message, *)
(* is never sent a second one by the reader or by failPending, who sends   *)
(* with the mutex held.                                                    *)
PendingIsWaitedFor ==
  \A s \in Server :
    /\ pending[s] \subseteq {i \in {"this"} : call[s] \in {"write", "wait"}}
    /\ Len(chan[s]) <= 1

(* Once the goroutines are through, every running server of a language     *)
(* shows every document of it as the editor does.                          *)
BackendsFollowDocs ==
  loop = "read" /\ fan = {} /\ writes = {} =>
    \A d \in Doc : LangOf[d] # NoLang =>
      \A s \in BoundServers(LangOf[d]) \cap backends :
        proc[s] = "up" => view[s][d] = docs[d]

(* The proxy leaves no language server running behind it.                  *)
NoOrphans == loop = "ended" => \A s \in Server : proc[s] # "up"

(* The loop gets back to the editor from every message: neither a server   *)
(* that dies nor one that does not answer stops it.                        *)
EveryMessageHandled ==
  loop \notin {"read", "down"} ~> loop \in {"read", "down", "ended", "failed"}
=============================================================================
