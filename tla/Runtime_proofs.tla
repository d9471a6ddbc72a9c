--------------------------- MODULE Runtime_proofs ---------------------------
(***************************************************************************)
(* Proofs about what an invocation waits for outside of its own tasks: the *)
(* requests of HttpProgress, for any number of requests and slots, and the *)
(* Daemon, for any clients, any length of output and any capacity of the   *)
(* channel.                                                                *)
(***************************************************************************)
EXTENDS HttpProgress, Daemon, FiniteSetTheorems, SequenceTheorems, TLAPS

-----------------------------------------------------------------------------
(* HttpProgress.                                                           *)

Callers == {"idle", "waiting", "reading", "dropped", "done", "left"}
Tasks == {"none", "queued", "running", "parked", "done", "failed"}

HttpTypeOK ==
  /\ caller \in [Request -> Callers]
  /\ promoted \in [Request -> Tasks]
  /\ resCh \in [Request -> {"empty", "response", "error"}]
  /\ body \in [Request -> {"none", "open", "closed"}]
  /\ complete \in [Request -> BOOLEAN]
  /\ groupEnded \in BOOLEAN

(* The task goes first, and its caller follows what it was handed.         *)
TaskLeads ==
  \A r \in Request :
    /\ caller[r] = "idle" => promoted[r] = "none"
    /\ promoted[r] \in {"none", "queued", "running", "failed"} => body[r] = "none"
    /\ promoted[r] \in {"none", "queued", "running"} => resCh[r] = "empty"
    /\ resCh[r] = "response" => promoted[r] \in {"parked", "done"}
    /\ resCh[r] = "error" => promoted[r] = "failed"
    /\ caller[r] = "reading" => promoted[r] \in {"parked", "done"}
    /\ caller[r] = "done" => promoted[r] \in {"parked", "done", "failed"} /\ body[r] # "open"
    /\ caller[r] = "left" => groupEnded
    /\ caller[r] = "dropped" => r \in Careless

(* A task that is not interrupted keeps its slot to the end of the body.   *)
ParkedToTheEnd ==
  \A r \in Request :
    /\ caller[r] \in {"idle", "waiting"} => ~complete[r]
    /\ promoted[r] = "done" => complete[r] \/ groupEnded

SlotsHeld == IsFiniteSet(Holding) /\ Cardinality(Holding) <= Slots

LEMMA HttpTypeStep ==
  ASSUME HttpTypeOK, [HttpNext]_httpVars
  PROVE  HttpTypeOK'
<1> USE DEF HttpTypeOK, Callers, Tasks
<1>1. CASE GroupEnds
  BY <1>1 DEF GroupEnds
<1>2. ASSUME NEW r \in Request, RoundTrip(r) PROVE HttpTypeOK'
  BY <1>2 DEF RoundTrip
<1>3. ASSUME NEW r \in Request, Promoted(r) PROVE HttpTypeOK'
  BY <1>3 DEF Promoted, Acquire, NotAcquired, Responds, Errs, Unpark
<1>4. ASSUME NEW r \in Request, CallerActs(r) PROVE HttpTypeOK'
  BY <1>4 DEF CallerActs, TakeResult, CallerLeaves, ReadToEnd, CloseBody
<1>5. CASE UNCHANGED httpVars
  BY <1>5 DEF httpVars
<1> QED BY <1>1, <1>2, <1>3, <1>4, <1>5 DEF HttpNext

LEMMA TaskLeadsStep ==
  ASSUME HttpTypeOK, TaskLeads, [HttpNext]_httpVars
  PROVE  TaskLeads'
<1> USE DEF HttpTypeOK, TaskLeads, Callers, Tasks
<1>1. CASE GroupEnds
  BY <1>1 DEF GroupEnds
<1>2. ASSUME NEW r \in Request, RoundTrip(r) PROVE TaskLeads'
  BY <1>2 DEF RoundTrip
<1>3. ASSUME NEW r \in Request, Promoted(r) PROVE TaskLeads'
  BY <1>3 DEF Promoted, Acquire, NotAcquired, Responds, Errs, Unpark
<1>4. ASSUME NEW r \in Request, CallerActs(r) PROVE TaskLeads'
  BY <1>4 DEF CallerActs, TakeResult, CallerLeaves, ReadToEnd, CloseBody
<1>5. CASE UNCHANGED httpVars
  BY <1>5 DEF httpVars
<1> QED BY <1>1, <1>2, <1>3, <1>4, <1>5 DEF HttpNext

LEMMA ParkedStep ==
  ASSUME HttpTypeOK, TaskLeads, ParkedToTheEnd, [HttpNext]_httpVars
  PROVE  ParkedToTheEnd'
<1> USE DEF HttpTypeOK, TaskLeads, ParkedToTheEnd, Callers, Tasks
<1>1. CASE GroupEnds
  BY <1>1 DEF GroupEnds
<1>2. ASSUME NEW r \in Request, RoundTrip(r) PROVE ParkedToTheEnd'
  BY <1>2 DEF RoundTrip
<1>3. ASSUME NEW r \in Request, Promoted(r) PROVE ParkedToTheEnd'
  BY <1>3 DEF Promoted, Acquire, NotAcquired, Responds, Errs, Unpark
<1>4. ASSUME NEW r \in Request, CallerActs(r) PROVE ParkedToTheEnd'
  BY <1>4 DEF CallerActs, TakeResult, CallerLeaves, ReadToEnd, CloseBody
<1>5. CASE UNCHANGED httpVars
  BY <1>5 DEF httpVars
<1> QED BY <1>1, <1>2, <1>3, <1>4, <1>5 DEF HttpNext

(* Only Acquire takes a slot, and it finds one free.                       *)
LEMMA SlotsStep ==
  ASSUME HttpTypeOK, SlotsHeld, [HttpNext]_httpVars
  PROVE  SlotsHeld'
<1> USE DEF HttpTypeOK, Tasks
<1>1. ASSUME NEW r \in Request, Acquire(r) PROVE SlotsHeld'
  <2>1. Holding' = Holding \cup {r} /\ r \notin Holding
    BY <1>1 DEF Acquire, Holding
  <2>2. Cardinality(Holding') = Cardinality(Holding) + 1 /\ IsFiniteSet(Holding')
    BY <2>1, FS_AddElement DEF SlotsHeld
  <2>3. Cardinality(Holding) \in Nat /\ Cardinality(Holding) < Slots
    BY <1>1, FS_CardinalityType DEF Acquire, SlotsHeld
  <2> QED BY <2>2, <2>3, SlotsAssumption DEF SlotsHeld
<1>2. ASSUME Holding' \subseteq Holding PROVE SlotsHeld'
  <2>1. /\ IsFiniteSet(Holding')
        /\ Cardinality(Holding') <= Cardinality(Holding)
    BY <1>2, FS_Subset DEF SlotsHeld
  <2>2. Cardinality(Holding) \in Nat /\ Cardinality(Holding') \in Nat
    BY <2>1, FS_CardinalityType DEF SlotsHeld
  <2> QED BY <2>1, <2>2, SlotsAssumption DEF SlotsHeld
<1>3. CASE GroupEnds \/ UNCHANGED httpVars
  BY <1>2, <1>3 DEF GroupEnds, httpVars, Holding
<1>4. ASSUME NEW r \in Request,
             \/ RoundTrip(r) \/ CallerActs(r)
             \/ NotAcquired(r) \/ Responds(r) \/ Errs(r) \/ Unpark(r)
      PROVE  SlotsHeld'
  <2>1. Holding' \subseteq Holding
    BY <1>4 DEF Holding, RoundTrip, CallerActs, TakeResult, CallerLeaves, ReadToEnd, CloseBody,
                NotAcquired, Responds, Errs, Unpark
  <2> QED BY <1>2, <2>1
<1> QED BY <1>1, <1>3, <1>4 DEF HttpNext, Promoted

HttpInv == HttpTypeOK /\ TaskLeads /\ ParkedToTheEnd /\ SlotsHeld

LEMMA HttpInvImplies ==
  ASSUME HttpInv
  PROVE  BodiesAccounted
<1> DEFINE Reading == {r \in Request : caller[r] = "reading" /\ ~complete[r]}
<1>1. ASSUME ~groupEnded PROVE Cardinality(Reading) <= Slots
  <2>1. Reading \subseteq Holding
    BY <1>1 DEF HttpInv, TaskLeads, ParkedToTheEnd, Holding
  <2>2. IsFiniteSet(Reading) /\ Cardinality(Reading) <= Cardinality(Holding)
    BY <2>1, FS_Subset DEF HttpInv, SlotsHeld
  <2>3. Cardinality(Reading) \in Nat /\ Cardinality(Holding) \in Nat
    BY <2>2, FS_CardinalityType DEF HttpInv, SlotsHeld
  <2> HIDE DEF Reading
  <2> QED BY <2>2, <2>3, SlotsAssumption DEF HttpInv, SlotsHeld
<1>2. ASSUME NEW r \in Request, body[r] = "open", caller[r] \in {"done", "left", "dropped"}
      PROVE  groupEnded \/ r \in Careless
  BY <1>2 DEF HttpInv, TaskLeads
<1> QED BY <1>1, <1>2 DEF BodiesAccounted

(* progressTransport: for any number of requests that share the pool, of   *)
(* which each holds its slot from before the request to the end of the     *)
(* body; a body stays open only if the group ended or its caller dropped   *)
(* it.                                                                     *)
THEOREM BodiesAreAccounted == HttpSpec => []BodiesAccounted
<1>1. HttpInit => HttpInv
  <2> SUFFICES ASSUME HttpInit PROVE HttpInv
    OBVIOUS
  <2>1. HttpTypeOK /\ TaskLeads /\ ParkedToTheEnd
    BY DEF HttpInit, HttpTypeOK, TaskLeads, ParkedToTheEnd, Callers, Tasks
  <2>2. Holding = {}
    BY DEF HttpInit, Holding
  <2> QED BY <2>1, <2>2, FS_EmptySet, SlotsAssumption DEF HttpInv, SlotsHeld
<1>2. HttpInv /\ [HttpNext]_httpVars => HttpInv'
  BY HttpTypeStep, TaskLeadsStep, ParkedStep, SlotsStep DEF HttpInv
<1>3. HttpInv => BodiesAccounted
  BY HttpInvImplies
<1> QED BY <1>1, <1>2, <1>3, PTL DEF HttpSpec

-----------------------------------------------------------------------------
(* Daemon.                                                                 *)

Packet == {"out", "result", "restarting"}

Stages ==
  /\ client \in [Client -> {"idle", "sending", "waiting", "local", "ok", "error", "gone"}]
  /\ reader \in [Client -> {"none", "read", "handle", "running", "ended"}]
  /\ pump \in [Client -> {"none", "up", "done"}]
  /\ handler \in [Client -> {"none", "waiting", "returned"}]
Traffic == outCh \in [Client -> Seq(Packet)] /\ replies \in [Client -> Seq(Packet)]
Counts ==
  /\ written \in [Client -> Nat] /\ runs \in [Client -> Nat] /\ recorded \in [Client -> Nat]
  /\ hangups \in Nat
Switches ==
  /\ cancelled \in [Client -> BOOLEAN] /\ inbox \in [Client -> BOOLEAN]
  /\ process \in {"old", "new", "down"} /\ rebuilt \in BOOLEAN /\ restart \in BOOLEAN
DaemonTypeOK == Stages /\ Traffic /\ Counts /\ Switches

\* What the daemon knows of a request: nothing of it, all, or that it refused.
Resting(c) == reader[c] \in {"none", "read", "ended"} /\ ~inbox[c]
Unbegun(c) == runs[c] = 0 /\ written[c] = 0
Silent(c) == outCh[c] = <<>> /\ replies[c] = <<>>
Answered(c) == Resting(c) /\ runs[c] = 1 /\ written[c] = Output + 1
Refused(c) == Resting(c) /\ Unbegun(c)

\* A request is with its client, on the way, or with the daemon: one at a time.
RequestIsOnce(c) ==
  /\ client[c] = "idle" => reader[c] = "none"
  /\ client[c] \in {"idle", "sending", "local"} => Refused(c) /\ Silent(c)
  /\ client[c] = "sending" => \/ handler[c] = "waiting" /\ reader[c] = "read"
                              \/ handler[c] = "returned"
  /\ inbox[c] => reader[c] = "read" /\ Unbegun(c) /\ Silent(c)
  /\ reader[c] = "handle" => Unbegun(c) /\ Silent(c)
  /\ reader[c] = "running" => runs[c] = 1 /\ written[c] <= Output
  /\ client[c] = "ok" => /\ Resting(c) /\ Silent(c) /\ runs[c] = 1
                         /\ written[c] \in {0, Output + 1}
  /\ runs[c] \in {0, 1} /\ recorded[c] = 0

\* What a packet on the way says of its request: nothing follows a result, and
\* nothing is beside a refusal.
Says(c, s, i) ==
  /\ s[i] = "out" => runs[c] = 1
  /\ s[i] = "result" => i = Len(s) /\ Answered(c)
  /\ s[i] = "restarting" => i = 1 /\ Len(s) = 1 /\ Refused(c)
PacketsAreTrue(c) ==
  /\ \A i \in 1 .. Len(outCh[c]) :
       Says(c, outCh[c], i) /\ (outCh[c][i] = "restarting" => replies[c] = <<>>)
  /\ \A i \in 1 .. Len(replies[c]) :
       Says(c, replies[c], i) /\ (replies[c][i] # "out" => outCh[c] = <<>>)

\* An event is with its sender, on the way, recorded, or lost with the daemon.
EventIsOnce(c) ==
  /\ client[c] \in {"idle", "sending", "local", "ok", "gone"}
  /\ client[c] = "idle" => handler[c] = "none"
  /\ client[c] = "sending" => handler[c] # "none"
  /\ client[c] \in {"idle", "sending", "local"} => recorded[c] = 0 /\ ~inbox[c]
  /\ inbox[c] => recorded[c] = 0 /\ handler[c] # "none"
  /\ client[c] = "ok" => recorded[c] = 1 \/ inbox[c] \/ handler[c] = "returned"
  /\ recorded[c] \in {0, 1} /\ runs[c] = 0
  /\ reader[c] \in {"none", "read", "ended"}

RequestOK(c) == RequestIsOnce(c) /\ PacketsAreTrue(c)

DaemonInv ==
  /\ DaemonTypeOK
  /\ \A c \in Client \ Sender : RequestOK(c)
  /\ \A c \in Sender : EventIsOnce(c)

LEMMA DaemonInvInit == DaemonInit => DaemonInv
<1> SUFFICES ASSUME DaemonInit PROVE DaemonInv
  OBVIOUS
<1> USE DEF DaemonInit, Each
<1>1. DaemonTypeOK
  <2>1. Stages
    BY DEF Stages
  <2>2. Traffic
    BY DEF Traffic
  <2>3. Counts
    BY DEF Counts
  <2>4. Switches
    BY DEF Switches
  <2> QED BY <2>1, <2>2, <2>3, <2>4 DEF DaemonTypeOK
<1>2. \A c \in Client : Len(outCh[c]) = 0 /\ Len(replies[c]) = 0
  OBVIOUS
<1>3. \A c \in Client \ Sender : RequestOK(c)
  <2>1. \A c \in Client \ Sender : RequestIsOnce(c)
    BY DEF RequestIsOnce, Resting, Unbegun, Silent, Refused
  <2>2. \A c \in Client \ Sender : PacketsAreTrue(c)
    <3> HIDE DEF DaemonInit, Each
    <3>1. \A c \in Client : 1 .. Len(outCh[c]) = {} /\ 1 .. Len(replies[c]) = {}
      <4>1. 1 .. 0 = {}
        OBVIOUS
      <4> QED BY <1>2, <4>1, Zenon
    <3> QED BY <3>1 DEF PacketsAreTrue
  <2> QED BY <2>1, <2>2 DEF RequestOK
<1>4. \A c \in Sender : EventIsOnce(c)
  BY DaemonAssumption DEF EventIsOnce
<1> QED BY <1>1, <1>3, <1>4 DEF DaemonInv

LEMMA StagesStep ==
  ASSUME DaemonTypeOK, [DaemonNext]_daemonVars
  PROVE  Stages'
<1> USE DEF DaemonTypeOK, Stages, Set, Each
<1>1. CASE Rebuild \/ UNCHANGED daemonVars
  BY <1>1 DEF Rebuild, daemonVars
<1>2. CASE TrayStops
  BY <1>2 DEF TrayStops, Ended
<1>3. ASSUME NEW c \in Client, Use(c) PROVE Stages'
  <2>1. CASE Dial(c)
    BY <2>1 DEF Dial
  <2>2. CASE Send(c)
    BY <2>2 DEF Send
  <2>3. CASE Receive(c)
    <3>1. Head(replies[c]) \in Packet
      BY <2>3, HeadTailProperties DEF Receive, Traffic
    <3> QED BY <2>3, <3>1 DEF Receive, Packet
  <2>4. CASE ReadError(c) \/ RunLocally(c)
    BY <2>4 DEF ReadError, RunLocally
  <2> QED BY <1>3, <2>1, <2>2, <2>3, <2>4 DEF Use
<1>4. ASSUME NEW c \in Client, HangUp(c) PROVE Stages'
  BY <1>4 DEF HangUp
<1>5. ASSUME NEW c \in Client, Serve(c) PROVE Stages'
  BY <1>5 DEF Serve, ReadPacket, ReadFails, HandleRequest, CommandWrites
<1>6. ASSUME NEW c \in Client, Pump(c) PROVE Stages'
  BY <1>6 DEF Pump
<1>7. ASSUME NEW c \in Client, HandlerEnds(c) PROVE Stages'
  BY <1>7 DEF HandlerEnds, Ended
<1> QED BY <1>1, <1>2, <1>3, <1>4, <1>5, <1>6, <1>7 DEF DaemonNext

LEMMA TrafficStep ==
  ASSUME DaemonTypeOK, [DaemonNext]_daemonVars
  PROVE  Traffic'
<1> USE DEF DaemonTypeOK, Traffic, Set, Each
<1>1. \A c \in Client, p \in Packet :
        Append(outCh[c], p) \in Seq(Packet) /\ Append(replies[c], p) \in Seq(Packet)
  OBVIOUS
<1>2. \A f \in {outCh'} : f = Each(<<>>) => f \in [Client -> Seq(Packet)]
  OBVIOUS
<1>8. CASE Rebuild \/ TrayStops \/ UNCHANGED daemonVars
  BY <1>2, <1>8 DEF Rebuild, TrayStops, daemonVars
<1>3. ASSUME NEW c \in Client, Use(c) PROVE Traffic'
  <2>1. CASE Receive(c)
    BY <2>1, HeadTailProperties DEF Receive
  <2>2. CASE ~Receive(c)
    BY <1>3, <2>2 DEF Use, Dial, Send, ReadError, RunLocally
  <2> QED BY <2>1, <2>2
<1>4. ASSUME NEW c \in Client, HangUp(c) PROVE Traffic'
  BY <1>4 DEF HangUp
<1>5. ASSUME NEW c \in Client, Serve(c) PROVE Traffic'
  <2>1. {"out", "result", "restarting"} \subseteq Packet
    BY DEF Packet
  <2> QED BY <1>1, <1>5, <2>1 DEF Serve, ReadPacket, ReadFails, HandleRequest, CommandWrites
<1>6. ASSUME NEW c \in Client, Pump(c) PROVE Traffic'
  <2>1. Tail(outCh[c]) \in Seq(Packet) /\ Head(outCh[c]) \in Packet
    BY <1>6, HeadTailProperties DEF Pump
  <2> QED BY <1>1, <1>6, <2>1 DEF Pump
<1>7. ASSUME NEW c \in Client, HandlerEnds(c) PROVE Traffic'
  BY <1>2, <1>7 DEF HandlerEnds
<1> QED BY <1>3, <1>4, <1>5, <1>6, <1>7, <1>8 DEF DaemonNext

LEMMA CountsStep ==
  ASSUME DaemonTypeOK, [DaemonNext]_daemonVars
  PROVE  Counts'
<1> USE DEF DaemonTypeOK, Counts, Set, Each
<1>1. CASE Rebuild \/ UNCHANGED daemonVars
  BY <1>1 DEF Rebuild, daemonVars
<1>2. CASE TrayStops
  BY <1>2 DEF TrayStops, Ended
<1>3. ASSUME NEW c \in Client, Use(c) PROVE Counts'
  BY <1>3 DEF Use, Dial, Send, Receive, ReadError, RunLocally
<1>4. ASSUME NEW c \in Client, HangUp(c) PROVE Counts'
  BY <1>4 DEF HangUp
<1>5. ASSUME NEW c \in Client, Serve(c) PROVE Counts'
  <2>1. CASE ReadPacket(c) \/ ReadFails(c)
    BY <2>1 DEF ReadPacket, ReadFails
  <2>2. CASE HandleRequest(c)
    BY <2>2 DEF HandleRequest
  <2>3. CASE CommandWrites(c)
    BY <2>3 DEF CommandWrites
  <2> QED BY <1>5, <2>1, <2>2, <2>3 DEF Serve
<1>6. ASSUME NEW c \in Client, Pump(c) PROVE Counts'
  BY <1>6 DEF Pump
<1>7. ASSUME NEW c \in Client, HandlerEnds(c) PROVE Counts'
  BY <1>7 DEF HandlerEnds, Ended
<1> QED BY <1>1, <1>2, <1>3, <1>4, <1>5, <1>6, <1>7 DEF DaemonNext

LEMMA SwitchesStep ==
  ASSUME DaemonTypeOK, [DaemonNext]_daemonVars
  PROVE  Switches'
<1> USE DEF DaemonTypeOK, Switches, Set, Each
<1>1. CASE Rebuild \/ UNCHANGED daemonVars
  BY <1>1 DEF Rebuild, daemonVars
<1>2. CASE TrayStops
  BY <1>2 DEF TrayStops, Ended
<1>3. ASSUME NEW c \in Client, Use(c) PROVE Switches'
  BY <1>3 DEF Use, Dial, Send, Receive, ReadError, RunLocally
<1>4. ASSUME NEW c \in Client, HangUp(c) PROVE Switches'
  BY <1>4 DEF HangUp
<1>5. ASSUME NEW c \in Client, Serve(c) PROVE Switches'
  BY <1>5 DEF Serve, ReadPacket, ReadFails, HandleRequest, CommandWrites
<1>6. ASSUME NEW c \in Client, Pump(c) PROVE Switches'
  BY <1>6 DEF Pump
<1>7. ASSUME NEW c \in Client, HandlerEnds(c) PROVE Switches'
  BY <1>7 DEF HandlerEnds, Ended
<1> QED BY <1>1, <1>2, <1>3, <1>4, <1>5, <1>6, <1>7 DEF DaemonNext

LEMMA DaemonTypeStep ==
  ASSUME DaemonTypeOK, [DaemonNext]_daemonVars
  PROVE  DaemonTypeOK'
BY StagesStep, TrafficStep, CountsStep, SwitchesStep DEF DaemonTypeOK

(* A step of another connection leaves what is said of this one.           *)
Untouched(c) ==
  /\ UNCHANGED <<client[c], reader[c], handler[c], outCh[c], written[c], inbox[c]>>
  /\ UNCHANGED <<replies[c], runs[c], recorded[c]>>

LEMMA OthersAreUntouched ==
  ASSUME DaemonTypeOK, NEW d \in Client, NEW c \in Client, c # d,
         Use(d) \/ HangUp(d) \/ Serve(d) \/ Pump(d)
  PROVE  Untouched(c)
<1> USE DEF DaemonTypeOK, Stages, Traffic, Counts, Switches, Set, Untouched
<1>1. CASE Use(d)
  BY <1>1 DEF Use, Dial, Send, Receive, ReadError, RunLocally
<1>2. CASE HangUp(d)
  BY <1>2 DEF HangUp
<1>3. CASE Serve(d)
  BY <1>3 DEF Serve, ReadPacket, ReadFails, HandleRequest, CommandWrites
<1>4. CASE Pump(d)
  BY <1>4 DEF Pump
<1> QED BY <1>1, <1>2, <1>3, <1>4

LEMMA UntouchedRequest ==
  ASSUME NEW c \in Client, RequestOK(c), Untouched(c)
  PROVE  RequestOK(c)'
BY DEF RequestOK, RequestIsOnce, PacketsAreTrue, Says, Untouched, Resting, Unbegun,
       Silent, Answered, Refused

LEMMA UntouchedEvent ==
  ASSUME NEW c \in Client, EventIsOnce(c), Untouched(c)
  PROVE  EventIsOnce(c)'
BY DEF EventIsOnce, Untouched

(* The process ends, replaced or not: what was in the daemon is lost.      *)
LEMMA ProcessEnds ==
  ASSUME DaemonTypeOK, Ended(Client), outCh' = Each(<<>>), inbox' = Each(FALSE),
         UNCHANGED <<client, written, replies, runs, recorded>>, NEW c \in Client
  PROVE  /\ RequestOK(c) => RequestOK(c)'
         /\ c \in Sender /\ EventIsOnce(c) => EventIsOnce(c)'
<1>1. /\ outCh'[c] = <<>> /\ inbox'[c] = FALSE /\ Len(outCh'[c]) = 0
      /\ reader'[c] = IF reader[c] # "none" THEN "ended" ELSE "none"
      /\ handler'[c] = IF handler[c] # "none" THEN "returned" ELSE "none"
  BY DEF Ended, Each, DaemonTypeOK, Stages, Traffic, Counts, Switches
<1>2. RequestIsOnce(c) => RequestIsOnce(c)'
  BY <1>1 DEF RequestIsOnce, Resting, Unbegun, Silent, Refused, DaemonTypeOK, Stages, Traffic, Counts, Switches
<1>3. PacketsAreTrue(c) => PacketsAreTrue(c)'
  <2>1. (Answered(c) => Answered(c)') /\ (Refused(c) => Refused(c)')
    BY <1>1 DEF Resting, Unbegun, Answered, Refused
  <2>2. \A i \in 1 .. Len(replies[c]) : Says(c, replies[c], i) => Says(c, replies[c], i)'
    BY <2>1 DEF Says
  <2> QED BY <1>1, <2>2 DEF PacketsAreTrue
<1>4. c \in Sender /\ EventIsOnce(c) => EventIsOnce(c)'
  BY <1>1 DEF EventIsOnce, DaemonTypeOK, Stages, Traffic, Counts, Switches
<1> QED BY <1>2, <1>3, <1>4 DEF RequestOK

LEMMA ClientStep ==
  ASSUME DaemonTypeOK, NEW c \in Client \ Sender, RequestOK(c),
         Use(c) \/ HangUp(c)
  PROVE  RequestOK(c)'
<1> USE DEF DaemonTypeOK, Stages, Traffic, Counts, Switches, Set, RequestIsOnce, Resting, Unbegun, Silent, Refused
<1>1. RequestIsOnce(c) /\ PacketsAreTrue(c)
  BY DEF RequestOK
<1>2. outCh'[c] = <<>> /\ replies'[c] = <<>> => PacketsAreTrue(c)'
  BY DEF PacketsAreTrue
<1>3. CASE Dial(c)
  <2>1. RequestIsOnce(c)' /\ outCh'[c] = <<>> /\ replies'[c] = <<>>
    BY <1>1, <1>3 DEF Dial
  <2> QED BY <1>2, <2>1 DEF RequestOK
<1>4. CASE Send(c)
  <2>1. /\ client[c] = "sending" /\ client'[c] \in {"waiting", "error"}
        /\ inbox'[c] => reader[c] = "read"
        /\ UNCHANGED <<reader, outCh, replies, written, runs, recorded, handler>>
    <3>1. CASE handler[c] = "returned"
      BY <1>1, <1>4, <3>1 DEF Send
    <3>2. CASE handler[c] # "returned"
      BY <1>1, <1>4, <3>2 DEF Send
    <3> QED BY <3>1, <3>2
  <2>2. RequestIsOnce(c)' /\ outCh'[c] = <<>> /\ replies'[c] = <<>>
    BY <1>1, <2>1
  <2> QED BY <1>2, <2>2 DEF RequestOK
<1>5. CASE Receive(c)
  <2>1. /\ replies[c] \in Seq(Packet) /\ replies[c] # <<>>
        /\ Tail(replies[c]) \in Seq(Packet) /\ Head(replies[c]) = replies[c][1]
        /\ Len(replies[c]) \in Nat \ {0} /\ replies[c][1] \in Packet
        /\ Len(Tail(replies[c])) = Len(replies[c]) - 1
        /\ \A i \in 1 .. Len(Tail(replies[c])) : Tail(replies[c])[i] = replies[c][i + 1]
    BY <1>5, HeadTailProperties DEF Receive
  <2>2. /\ client[c] = "waiting" /\ replies'[c] = Tail(replies[c])
        /\ UNCHANGED <<reader, outCh, written, inbox, runs, recorded>>
        /\ replies[c][1] = "out" => client'[c] = "waiting"
        /\ replies[c][1] = "result" => client'[c] = "ok"
        /\ replies[c][1] = "restarting" => client'[c] = "local"
    BY <1>5, <2>1 DEF Receive
  <2>3. Says(c, replies[c], 1) /\ (replies[c][1] # "out" => outCh[c] = <<>>)
    BY <1>1, <2>1 DEF PacketsAreTrue
  <2>4. replies[c][1] # "out" => replies'[c] = <<>>
    <3>1. replies[c][1] # "out" => Len(Tail(replies[c])) = 0
      BY <2>1, <2>3 DEF Says, Packet
    <3> QED BY <2>1, <2>2, <3>1, EmptySeq
  <2>5. RequestIsOnce(c)'
    BY <1>1, <2>1, <2>2, <2>3, <2>4 DEF Says, Answered, Packet
  <2>6. replies[c][1] = "out" => PacketsAreTrue(c)'
    <3>1. outCh'[c] = outCh[c] /\ \A i \in 1 .. Len(outCh[c]) : outCh[c][i] # "restarting"
      BY <1>1, <2>1, <2>2 DEF PacketsAreTrue
    <3>2. \A i \in 1 .. Len(replies'[c]) :
             replies'[c][i] = replies[c][i + 1] /\ i + 1 \in 1 .. Len(replies[c]) /\ i + 1 # 1
      BY <2>1, <2>2
    <3>3. \A i \in 1 .. Len(replies'[c]) : Says(c, replies[c], i)'
      <4>1. \A i \in 1 .. Len(replies'[c]) : Says(c, replies[c], i + 1)
        BY <1>1, <3>2 DEF PacketsAreTrue
      <4>2. (Answered(c) => Answered(c)') /\ (Refused(c) => Refused(c)')
        BY <2>2 DEF Answered
      <4>3. Len(replies'[c]) + 1 = Len(replies[c]) /\ Len(replies'[c]) \in Nat
        BY <2>1, <2>2
      <4> QED BY <2>2, <3>2, <4>1, <4>2, <4>3 DEF Says
    <3> QED BY <1>1, <2>2, <3>1, <3>2, <3>3 DEF PacketsAreTrue, Says, Answered
  <2> QED BY <1>2, <2>1, <2>2, <2>3, <2>4, <2>5, <2>6 DEF RequestOK, Packet
<1>6. CASE ReadError(c)
  BY <1>1, <1>6 DEF ReadError, RequestOK, PacketsAreTrue, Says, Answered
<1>7. CASE RunLocally(c)
  <2>1. RequestIsOnce(c)' /\ outCh'[c] = <<>> /\ replies'[c] = <<>>
    BY <1>1, <1>7 DEF RunLocally
  <2> QED BY <1>2, <2>1 DEF RequestOK
<1>8. CASE HangUp(c)
  BY <1>1, <1>8 DEF HangUp, Connected, RequestOK, PacketsAreTrue, Says, Answered
<1> QED BY <1>3, <1>4, <1>5, <1>6, <1>7, <1>8 DEF Use

LEMMA ReaderStep ==
  ASSUME DaemonTypeOK, NEW c \in Client \ Sender, RequestOK(c), Serve(c)
  PROVE  RequestOK(c)'
<1> USE DaemonAssumption DEF DaemonTypeOK, Stages, Traffic, Counts, Switches, Set, RequestIsOnce, Resting, Unbegun, Silent, Refused
<1>1. RequestIsOnce(c) /\ PacketsAreTrue(c)
  BY DEF RequestOK
<1>2. outCh'[c] = <<>> /\ replies'[c] = <<>> => PacketsAreTrue(c)'
  BY DEF PacketsAreTrue
<1>3. CASE ReadPacket(c)
  <2>1. RequestIsOnce(c)' /\ outCh'[c] = <<>> /\ replies'[c] = <<>>
    BY <1>1, <1>3 DEF ReadPacket
  <2> QED BY <1>2, <2>1 DEF RequestOK
<1>4. CASE ReadFails(c)
  BY <1>1, <1>4 DEF ReadFails, Connected, RequestOK, PacketsAreTrue, Says, Answered
<1>5. CASE HandleRequest(c)
  <2>1. CASE rebuilt
    <3>1. /\ outCh'[c] = Append(<<>>, "restarting") /\ replies'[c] = <<>> /\ reader'[c] = "read"
          /\ UNCHANGED <<client, written, inbox, runs, recorded>> /\ ~inbox[c] /\ Unbegun(c)
      BY <1>1, <1>5, <2>1 DEF HandleRequest
    <3>2. Len(outCh'[c]) = 1 /\ outCh'[c][1] = "restarting"
      BY <3>1
    <3>3. RequestIsOnce(c)'
      BY <1>1, <1>5, <3>1 DEF HandleRequest
    <3>4. PacketsAreTrue(c)'
      BY <3>1, <3>2 DEF PacketsAreTrue, Says
    <3> QED BY <3>3, <3>4 DEF RequestOK
  <2>2. CASE ~rebuilt
    <3>1. RequestIsOnce(c)' /\ outCh'[c] = <<>> /\ replies'[c] = <<>>
      BY <1>1, <1>5, <2>2 DEF HandleRequest
    <3> QED BY <1>2, <3>1 DEF RequestOK
  <2> QED BY <2>1, <2>2
<1>6. CASE CommandWrites(c)
  <2> DEFINE p == IF written[c] < Output THEN "out" ELSE "result"
  <2>1. /\ outCh[c] \in Seq(Packet) /\ p \in Packet /\ outCh'[c] = Append(outCh[c], p)
        /\ reader[c] = "running" /\ reader'[c] = IF p = "out" THEN "running" ELSE "read"
        /\ written'[c] = written[c] + 1
        /\ UNCHANGED <<client, replies, inbox, runs, recorded>>
    BY <1>6 DEF CommandWrites, Packet
  <2>2. /\ Len(outCh'[c]) = Len(outCh[c]) + 1 /\ outCh'[c][Len(outCh[c]) + 1] = p
        /\ \A i \in 1 .. Len(outCh[c]) : outCh'[c][i] = outCh[c][i]
        /\ Len(outCh[c]) \in Nat
    BY <2>1, AppendProperties
  <2>3. runs[c] = 1 /\ ~inbox[c] /\ written[c] <= Output
    BY <1>1, <2>1
  <2>4. /\ \A i \in 1 .. Len(outCh[c]) : outCh[c][i] = "out"
        /\ \A i \in 1 .. Len(replies[c]) : replies[c][i] = "out"
    <3>1. \A i \in 1 .. Len(outCh[c]) : outCh[c][i] \in Packet
      OBVIOUS
    <3>2. \A i \in 1 .. Len(replies[c]) : replies[c][i] \in Packet
      OBVIOUS
    <3> QED BY <1>1, <2>1, <3>1, <3>2 DEF PacketsAreTrue, Says, Answered, Packet
  <2>5. RequestIsOnce(c)'
    BY <1>1, <2>1, <2>2, <2>3
  <2>6. p = "result" => Answered(c)'
    BY <2>1, <2>3 DEF Answered
  <2>7. PacketsAreTrue(c)'
    BY <2>1, <2>2, <2>3, <2>4, <2>6 DEF PacketsAreTrue, Says
  <2> QED BY <2>5, <2>7 DEF RequestOK
<1> QED BY <1>3, <1>4, <1>5, <1>6 DEF Serve

LEMMA PumpStep ==
  ASSUME DaemonTypeOK, NEW c \in Client \ Sender, RequestOK(c), Pump(c)
  PROVE  RequestOK(c)'
<1> USE DEF DaemonTypeOK, Stages, Traffic, Counts, Switches, Set, RequestIsOnce, Resting, Unbegun, Silent, Refused
<1> DEFINE s == outCh[c]
           r == replies[c]
<1>1. RequestIsOnce(c) /\ PacketsAreTrue(c)
  BY DEF RequestOK
<1>2. /\ s \in Seq(Packet) /\ s # <<>> /\ s[1] \in Packet /\ r \in Seq(Packet)
      /\ Head(s) = s[1] /\ Len(s) \in Nat \ {0} /\ Len(r) \in Nat
      /\ UNCHANGED <<client, reader, written, inbox, runs, recorded>>
      /\ outCh'[c] = Tail(s) /\ replies'[c] \in {r, Append(r, s[1])}
  BY HeadTailProperties DEF Pump
<1>3. /\ Len(outCh'[c]) = Len(s) - 1
      /\ \A i \in 1 .. Len(s) - 1 : outCh'[c][i] = s[i + 1]
  BY <1>2, HeadTailProperties
<1>4. \A i \in 1 .. Len(r) : r[i] = "out"
  BY <1>1, <1>2 DEF PacketsAreTrue
<1>5. Says(c, s, 1) /\ (s[1] = "restarting" => r = <<>>)
  BY <1>1, <1>2 DEF PacketsAreTrue
<1>6. RequestIsOnce(c)'
  BY <1>1, <1>2
<1>7. s[1] # "out" => outCh'[c] = <<>>
  <2>1. s[1] # "out" => Len(outCh'[c]) = 0
    BY <1>2, <1>3, <1>5 DEF Says, Packet
  <2>2. outCh'[c] \in Seq(Packet)
    BY <1>2, HeadTailProperties
  <2> QED BY <2>1, <2>2, EmptySeq
<1> HIDE DEF Refused, RequestIsOnce
<1>8. (Answered(c) => Answered(c)') /\ (Refused(c) => Refused(c)')
  BY <1>2 DEF Answered, Refused
<1>9. ASSUME NEW i \in 1 .. Len(outCh'[c])
      PROVE  outCh'[c][i] # "restarting" /\ Says(c, outCh[c], i)'
  <2>1. /\ i + 1 \in 1 .. Len(s) /\ i + 1 # 1 /\ Says(c, s, i + 1)
        /\ i + 1 = Len(s) => i = Len(outCh'[c])
    BY <1>1, <1>2, <1>3 DEF PacketsAreTrue
  <2> QED BY <1>2, <1>3, <1>8, <2>1 DEF Says
<1>10. ASSUME NEW i \in 1 .. Len(replies'[c])
       PROVE  Says(c, replies[c], i)' /\ (replies'[c][i] # "out" => outCh'[c] = <<>>)
  <2>1. CASE replies'[c] = r
    BY <1>2, <1>4, <1>5, <2>1 DEF Says, PacketsAreTrue, RequestOK
  <2>2. CASE replies'[c] = Append(r, s[1])
    <3>1. /\ Len(replies'[c]) = Len(r) + 1 /\ replies'[c][Len(r) + 1] = s[1]
          /\ \A j \in 1 .. Len(r) : replies'[c][j] = "out"
      BY <1>2, <1>4, <2>2, AppendProperties
    <3>2. s[1] = "restarting" => Len(r) = 0
      BY <1>5
    <3>3. s[1] = "out" => runs[c] = 1
      BY <1>5 DEF Says
    <3>4. CASE i = Len(r) + 1
      BY <1>2, <1>5, <1>7, <1>8, <3>1, <3>2, <3>4 DEF Says
    <3>5. CASE i # Len(r) + 1
      <4>1. i \in 1 .. Len(r) /\ Says(c, r, i)
        BY <1>1, <1>2, <3>1, <3>5 DEF PacketsAreTrue
      <4> QED BY <1>2, <1>4, <3>1, <4>1 DEF Says
    <3> QED BY <3>4, <3>5
  <2> QED BY <1>2, <2>1, <2>2
<1>11. PacketsAreTrue(c)'
  BY <1>9, <1>10 DEF PacketsAreTrue
<1> QED BY <1>6, <1>11 DEF RequestOK

LEMMA EventStep ==
  ASSUME DaemonTypeOK, NEW c \in Sender, EventIsOnce(c),
         Use(c) \/ HangUp(c) \/ Serve(c) \/ Pump(c)
  PROVE  EventIsOnce(c)'
<1> USE DaemonAssumption DEF DaemonTypeOK, Stages, Traffic, Counts, Switches, Set, EventIsOnce
<1>1. CASE Use(c)
  BY <1>1 DEF Use, Dial, Send, Receive, ReadError, RunLocally
<1>2. CASE HangUp(c)
  BY <1>2 DEF HangUp
<1>3. CASE Serve(c)
  BY <1>3 DEF Serve, ReadPacket, ReadFails, HandleRequest, CommandWrites
<1>4. CASE Pump(c)
  BY <1>4 DEF Pump
<1> QED BY <1>1, <1>2, <1>3, <1>4

LEMMA DaemonInvStep == DaemonInv /\ [DaemonNext]_daemonVars => DaemonInv'
<1> SUFFICES ASSUME DaemonInv, [DaemonNext]_daemonVars PROVE DaemonInv'
  OBVIOUS
<1>1. DaemonTypeOK /\ DaemonTypeOK'
  BY DaemonTypeStep DEF DaemonInv
<1> SUFFICES ASSUME NEW c \in Client
             PROVE  IF c \in Sender THEN EventIsOnce(c)' ELSE RequestOK(c)'
  BY <1>1, DaemonAssumption DEF DaemonInv
<1>2. IF c \in Sender THEN EventIsOnce(c) ELSE RequestOK(c)
  BY DEF DaemonInv
<1>3. CASE Rebuild \/ UNCHANGED daemonVars
  <2>1. Untouched(c)
    BY <1>3 DEF Rebuild, daemonVars, Untouched
  <2> QED BY <1>2, <2>1, UntouchedRequest, UntouchedEvent
<1>4. CASE TrayStops
  BY <1>1, <1>2, <1>4, ProcessEnds DEF TrayStops
<1>5. ASSUME NEW d \in Client, HandlerEnds(d)
      PROVE  IF c \in Sender THEN EventIsOnce(c)' ELSE RequestOK(c)'
  <2>1. CASE restart
    BY <1>1, <1>2, <1>5, <2>1, ProcessEnds DEF HandlerEnds
  <2>2. CASE ~restart
    <3>1. /\ handler'[c] \in {handler[c], "returned"} /\ (handler[c] # "none" <=> handler'[c] # "none")
          /\ UNCHANGED <<client, reader, outCh, written, inbox, replies, runs, recorded>>
      BY <1>1, <1>5, <2>2 DEF HandlerEnds, DaemonTypeOK, Stages, Set
    <3>2. c \in Sender => EventIsOnce(c)'
      BY <1>2, <3>1 DEF EventIsOnce
    <3>3. c \notin Sender => RequestOK(c)'
      BY <1>2, <3>1 DEF RequestOK, RequestIsOnce, PacketsAreTrue, Says, Resting, Unbegun,
                        Silent, Answered, Refused
    <3> QED BY <3>2, <3>3
  <2> QED BY <2>1, <2>2
<1>6. ASSUME NEW d \in Client, Use(d) \/ HangUp(d) \/ Serve(d) \/ Pump(d)
      PROVE  IF c \in Sender THEN EventIsOnce(c)' ELSE RequestOK(c)'
  <2>1. CASE c = d
    BY <1>1, <1>2, <1>6, <2>1, ClientStep, ReaderStep, PumpStep, EventStep
  <2>2. CASE c # d
    <3>1. Untouched(c)
      BY <1>1, <1>6, <2>2, OthersAreUntouched
    <3> QED BY <1>2, <3>1, UntouchedRequest, UntouchedEvent
  <2> QED BY <2>1, <2>2
<1> QED BY <1>3, <1>4, <1>5, <1>6 DEF DaemonNext

(* Every interleaving of clients, daemon, restarts and lost connections:   *)
(* a command is begun at most once and an event recorded at most once, and *)
(* a client that ends well was told the truth (OnceAndAsTold).             *)
THEOREM OnceAsTold == DaemonSpec => []OnceAndAsTold
<1>1. DaemonInv => OnceAndAsTold
  <2> SUFFICES ASSUME DaemonInv, NEW c \in Client
               PROVE  /\ runs[c] <= 1 /\ recorded[c] <= 1
                      /\ client[c] = "ok" =>
                           IF c \in Sender THEN recorded[c] = 1 \/ inbox[c] \/ handler[c] = "returned"
                           ELSE /\ runs[c] = 1
                                /\ reader[c] # "none" /\ written[c] > 0 =>
                                     written[c] = Output + 1 /\ replies[c] = <<>>
    BY DEF OnceAndAsTold
  <2>1. CASE c \in Sender
    BY <2>1 DEF DaemonInv, EventIsOnce
  <2>2. CASE c \notin Sender
    BY <2>2 DEF DaemonInv, RequestOK, RequestIsOnce, Silent
  <2> QED BY <2>1, <2>2
<1> QED BY <1>1, DaemonInvInit, DaemonInvStep, PTL DEF DaemonSpec
=============================================================================
