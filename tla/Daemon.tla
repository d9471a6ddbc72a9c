------------------------------- MODULE Daemon -------------------------------
(***************************************************************************)
(* The daemon and its clients.  Each connection has three goroutines: the  *)
(* reader, which runs the requests it reads one after the other; the pump, *)
(* which writes what is in outCh; and the handler, which waits for both    *)
(* and then, if the daemon's binary is no longer the one that runs,        *)
(* replaces the process.                                                   *)
(***************************************************************************)
EXTENDS Naturals, Sequences

CONSTANTS
  Client,   \* each is one invocation of the program
  Sender,   \* the clients that send a history event; the others a request
  Output,   \* packets a command writes before its result
  OutCap,   \* capacity of outCh
  MaxHangups

ASSUME DaemonAssumption ==
  /\ Sender \subseteq Client
  /\ {Output, OutCap, MaxHangups} \subseteq Nat /\ OutCap > 0

VARIABLES
  client,   \* "idle", "sending", "waiting", "local", "ok", "error" or "gone"
  reader,   \* "none", "read", "handle", "running", "result" or "ended"
  pump,     \* "none", "up" or "done"
  handler,  \* "none", "waiting" or "returned"
  outCh, written, cancelled,
  inbox,    \* what the connection carries to the daemon
  replies,  \* what it carries to the client
  process,  \* "old" or "new": the binary that runs; "down"
  rebuilt,  \* the binary on disk is newer than the process
  restart,  \* shouldRestartDaemon
  runs,     \* how often each request's command was begun
  recorded, \* how often each event was recorded
  hangups

daemonVars == <<client, reader, pump, handler, outCh, written, cancelled, inbox,
                replies, process, rebuilt, restart, runs, recorded, hangups>>

Each(v) == [c \in Client |-> v]

DaemonInit ==
  /\ client = Each("idle") /\ reader = Each("none") /\ pump = Each("none")
  /\ handler = Each("none") /\ outCh = Each(<<>>) /\ written = Each(0)
  /\ cancelled = Each(FALSE) /\ inbox = Each(FALSE) /\ replies = Each(<<>>)
  /\ process \in {"old", "down"} /\ rebuilt = FALSE /\ restart = FALSE
  /\ runs = Each(0) /\ recorded = Each(0) /\ hangups = 0

Connected(c) == client[c] \in {"sending", "waiting"}
Set(f, c, v) == [f EXCEPT ![c] = v]
Up == process # "down"

-----------------------------------------------------------------------------
(* Clients: TryRemoteRaw and history record.                               *)

Dial(c) ==
  /\ client[c] = "idle"
  /\ IF Up
     THEN /\ client' = Set(client, c, "sending")
          /\ reader' = Set(reader, c, "read") /\ pump' = Set(pump, c, "up")
          /\ handler' = Set(handler, c, "waiting")
     ELSE client' = Set(client, c, "local") /\ UNCHANGED <<reader, pump, handler>>
  /\ UNCHANGED <<outCh, written, cancelled, inbox, replies, process, rebuilt, restart, runs, recorded, hangups>>

\* An event is written and the connection closed; a request is waited for.  A
\* write that fails sends the event to the database.
Send(c) ==
  /\ client[c] = "sending"
  /\ IF handler[c] = "returned"
     THEN client' = Set(client, c, IF c \in Sender THEN "local" ELSE "error") /\ UNCHANGED inbox
     ELSE /\ inbox' = Set(inbox, c, TRUE)
          /\ client' = Set(client, c, IF c \in Sender THEN "ok" ELSE "waiting")
  /\ UNCHANGED <<reader, pump, handler, outCh, written, cancelled, replies, process, rebuilt, restart, runs, recorded, hangups>>

Receive(c) ==
  /\ client[c] = "waiting" /\ replies[c] # <<>>
  /\ replies' = Set(replies, c, Tail(replies[c]))
  /\ client' = Set(client, c, CASE Head(replies[c]) = "out" -> "waiting"
                                [] Head(replies[c]) = "result" -> "ok"
                                [] Head(replies[c]) = "restarting" -> "local")
  /\ UNCHANGED <<reader, pump, handler, outCh, written, cancelled, inbox, process, rebuilt, restart, runs, recorded, hangups>>

\* Mutation: A client that lost the connection runs the command itself.
ReadErrorRetries(c) ==
  /\ client[c] = "waiting" /\ replies[c] = <<>> /\ handler[c] = "returned"
  /\ client' = Set(client, c, "local")
  /\ UNCHANGED <<reader, pump, handler, outCh, written, cancelled, inbox, replies, process, rebuilt, restart, runs, recorded, hangups>>

\* The connection broke: the request may have run, so it is not run again.
ReadError(c) ==
  /\ client[c] = "waiting" /\ replies[c] = <<>> /\ handler[c] = "returned"
  /\ client' = Set(client, c, "error")
  /\ UNCHANGED <<reader, pump, handler, outCh, written, cancelled, inbox, replies, process, rebuilt, restart, runs, recorded, hangups>>

\* Without a daemon the command runs here, and the event goes to the database.
RunLocally(c) ==
  /\ client[c] = "local" /\ client' = Set(client, c, "ok")
  /\ IF c \in Sender THEN recorded' = Set(recorded, c, recorded[c] + 1) /\ UNCHANGED runs
                     ELSE runs' = Set(runs, c, runs[c] + 1) /\ UNCHANGED recorded
  /\ UNCHANGED <<reader, pump, handler, outCh, written, cancelled, inbox, replies, process, rebuilt, restart, hangups>>

HangUp(c) ==
  /\ Connected(c) /\ hangups < MaxHangups /\ hangups' = hangups + 1
  /\ client' = Set(client, c, "gone")
  /\ UNCHANGED <<reader, pump, handler, outCh, written, cancelled, inbox, replies, process, rebuilt, restart, runs, recorded>>

-----------------------------------------------------------------------------
(* The reader.                                                             *)

ReadPacket(c) ==
  /\ Up /\ reader[c] = "read" /\ inbox[c]
  /\ inbox' = Set(inbox, c, FALSE)
  /\ IF c \in Sender
     THEN recorded' = Set(recorded, c, recorded[c] + 1) /\ UNCHANGED reader
     ELSE reader' = Set(reader, c, "handle") /\ UNCHANGED recorded
  /\ UNCHANGED <<client, pump, handler, outCh, written, cancelled, replies, process, rebuilt, restart, runs, hangups>>

\* The client closed: the context ends, with it the handler's first wait.
ReadFails(c) ==
  /\ Up /\ reader[c] = "read" /\ ~inbox[c] /\ ~Connected(c)
  /\ reader' = Set(reader, c, "ended") /\ cancelled' = Set(cancelled, c, TRUE)
  /\ UNCHANGED <<client, pump, handler, outCh, written, inbox, replies, process, rebuilt, restart, runs, recorded, hangups>>

\* A changed binary, or another one than the client's, refuses the request.
HandleRequest(c) ==
  /\ Up /\ reader[c] = "handle"
  /\ IF rebuilt
     THEN /\ Len(outCh[c]) < OutCap
          /\ outCh' = Set(outCh, c, Append(outCh[c], "restarting"))
          /\ restart' = TRUE /\ reader' = Set(reader, c, "read") /\ UNCHANGED runs
     ELSE /\ runs' = Set(runs, c, runs[c] + 1)
          /\ reader' = Set(reader, c, "running") /\ UNCHANGED <<outCh, restart>>
  /\ UNCHANGED <<client, pump, handler, written, cancelled, inbox, replies, process, rebuilt, recorded, hangups>>

\* A write blocks while outCh is full.
CommandWrites(c) ==
  /\ Up /\ reader[c] = "running" /\ Len(outCh[c]) < OutCap
  /\ outCh' = Set(outCh, c, Append(outCh[c], IF written[c] < Output THEN "out" ELSE "result"))
  /\ written' = Set(written, c, written[c] + 1)
  /\ reader' = IF written[c] < Output THEN reader ELSE Set(reader, c, "read")
  /\ UNCHANGED <<client, pump, handler, cancelled, inbox, replies, process, rebuilt, restart, runs, recorded, hangups>>

-----------------------------------------------------------------------------
(* The pump and the handler.                                               *)

Pump(c) ==
  /\ Up /\ pump[c] = "up" /\ outCh[c] # <<>>
  /\ outCh' = Set(outCh, c, Tail(outCh[c]))
  /\ IF Connected(c)
     THEN replies' = Set(replies, c, Append(replies[c], Head(outCh[c]))) /\ UNCHANGED <<pump, cancelled>>
     ELSE pump' = Set(pump, c, "done") /\ cancelled' = Set(cancelled, c, TRUE) /\ UNCHANGED replies
  /\ UNCHANGED <<client, reader, handler, written, inbox, process, rebuilt, restart, runs, recorded, hangups>>

Ended(S) ==
  /\ reader' = [c \in Client |-> IF c \in S /\ reader[c] # "none" THEN "ended" ELSE reader[c]]
  /\ pump' = [c \in Client |-> IF c \in S /\ pump[c] # "none" THEN "done" ELSE pump[c]]
  /\ handler' = [c \in Client |-> IF c \in S /\ handler[c] # "none" THEN "returned" ELSE handler[c]]

\* After both waits: exec replaces the process, with every other connection.
HandlerEnds(c) ==
  /\ Up /\ handler[c] = "waiting" /\ cancelled[c] /\ pump[c] = "done"
  /\ IF restart
     THEN /\ Ended(Client) /\ process' = "new" /\ restart' = FALSE /\ rebuilt' = FALSE
          /\ outCh' = Each(<<>>) /\ inbox' = Each(FALSE)
     ELSE handler' = Set(handler, c, "returned") /\ UNCHANGED <<reader, pump, process, restart, rebuilt, outCh, inbox>>
  /\ UNCHANGED <<client, written, cancelled, replies, runs, recorded, hangups>>

\* The tray: Exit, or an Apply that changed the binary, ends the server.  The
\* connections of handlers that wait are hijacked and end with the process.
TrayStops ==
  /\ Up /\ process' = "down" /\ Ended(Client)
  /\ restart' = FALSE /\ rebuilt' = FALSE /\ outCh' = Each(<<>>) /\ inbox' = Each(FALSE)
  /\ UNCHANGED <<client, written, cancelled, replies, runs, recorded, hangups>>

Rebuild ==
  /\ process = "old" /\ ~rebuilt /\ rebuilt' = TRUE
  /\ UNCHANGED <<client, reader, pump, handler, outCh, written, cancelled, inbox, replies, process, restart, runs, recorded, hangups>>

Serve(c) == ReadPacket(c) \/ ReadFails(c) \/ HandleRequest(c) \/ CommandWrites(c)
Use(c) == Dial(c) \/ Send(c) \/ Receive(c) \/ ReadError(c) \/ RunLocally(c)

DaemonNext ==
  \/ Rebuild \/ TrayStops
  \/ \E c \in Client : Use(c) \/ HangUp(c) \/ Serve(c) \/ Pump(c) \/ HandlerEnds(c)

\* Goroutines run and commands end; clients go on once they have begun.
DaemonFairness ==
  \A c \in Client :
    /\ WF_daemonVars(client[c] # "idle" /\ Use(c))
    /\ WF_daemonVars(Serve(c)) /\ WF_daemonVars(Pump(c)) /\ WF_daemonVars(HandlerEnds(c))

DaemonSpec == DaemonInit /\ [][DaemonNext]_daemonVars /\ DaemonFairness

-----------------------------------------------------------------------------
(* Properties.                                                             *)

\* A command is begun at most once, by the daemon or by the client, and an
\* event is recorded at most once, however requests, restarts and lost
\* connections interleave.  A client that ends well had its command run and has
\* all it wrote, the result last; its event was recorded, unless the daemon has
\* it still to read or ended before it did.
OnceAndAsTold ==
  \A c \in Client :
    /\ runs[c] <= 1 /\ recorded[c] <= 1
    /\ client[c] = "ok" =>
         IF c \in Sender THEN recorded[c] = 1 \/ inbox[c] \/ handler[c] = "returned"
         ELSE /\ runs[c] = 1
              /\ reader[c] # "none" /\ written[c] > 0 => written[c] = Output + 1 /\ replies[c] = <<>>

\* Every client gets an answer, an error or to run its command itself.  (A
\* client comes once, so what must end again and again ends for good.)
EveryClientReturns ==
  []<>(\A c \in Client : client[c] \in {"idle", "ok", "error", "gone"})

\* "daemon will exec itself": a daemon that told a client so does it.
DaemonRestarts == restart ~> ~restart
=============================================================================
