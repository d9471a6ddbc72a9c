---------------------------- MODULE HttpProgress ----------------------------
(***************************************************************************)
(* Requests that run as tasks of the Internet pool.  The caller of         *)
(* RoundTrip schedules the task and waits for the response or for the end  *)
(* of its context; the task makes the request, hands the response over and *)
(* keeps its slot until the caller is through with the body.  rsync's      *)
(* RunWithTaskGroup hands its result over in the same way.                 *)
(***************************************************************************)
EXTENDS Naturals, FiniteSets

CONSTANTS
  Request, Slots,
  Careless    \* requests whose caller drops the body without reading or closing it

ASSUME SlotsAssumption == Slots \in Nat

VARIABLES
  caller,     \* "idle", "waiting", "reading", "dropped", "done" or "left"
  promoted,   \* the task: "none", "queued", "running", "parked", "done" or "failed"
  resCh,      \* "empty", "response" or "error": a channel of one
  body,       \* "none", "open" or "closed"
  complete,   \* bodyComplete is closed
  groupEnded  \* the group's context is cancelled

httpVars == <<caller, promoted, resCh, body, complete, groupEnded>>

HttpInit ==
  /\ caller = [r \in Request |-> "idle"] /\ promoted = [r \in Request |-> "none"]
  /\ resCh = [r \in Request |-> "empty"] /\ body = [r \in Request |-> "none"]
  /\ complete = [r \in Request |-> FALSE] /\ groupEnded = FALSE

Holding == {r \in Request : promoted[r] \in {"running", "parked"}}

RoundTrip(r) ==
  /\ caller[r] = "idle" /\ caller' = [caller EXCEPT ![r] = "waiting"]
  /\ promoted' = [promoted EXCEPT ![r] = "queued"]
  /\ UNCHANGED <<resCh, body, complete, groupEnded>>

Acquire(r) ==
  /\ promoted[r] = "queued" /\ Cardinality(Holding) < Slots
  /\ promoted' = [promoted EXCEPT ![r] = "running"]
  /\ UNCHANGED <<caller, resCh, body, complete, groupEnded>>

\* The group ended first: the request is never made.
NotAcquired(r) ==
  /\ promoted[r] = "queued" /\ groupEnded
  /\ promoted' = [promoted EXCEPT ![r] = "failed"]
  /\ UNCHANGED <<caller, resCh, body, complete, groupEnded>>

\* Mutation: The slot is given back with the headers.
RespondsAndEnds(r) ==
  /\ promoted[r] = "running" /\ promoted' = [promoted EXCEPT ![r] = "done"]
  /\ body' = [body EXCEPT ![r] = "open"]
  /\ resCh' = [resCh EXCEPT ![r] = "response"]
  /\ UNCHANGED <<caller, complete, groupEnded>>

Responds(r) ==
  /\ promoted[r] = "running" /\ promoted' = [promoted EXCEPT ![r] = "parked"]
  /\ body' = [body EXCEPT ![r] = "open"]
  /\ resCh' = [resCh EXCEPT ![r] = "response"]
  /\ UNCHANGED <<caller, complete, groupEnded>>

\* The error goes to the caller, and to the group, whose context ends.
Errs(r) ==
  /\ promoted[r] = "running" /\ promoted' = [promoted EXCEPT ![r] = "failed"]
  /\ resCh' = [resCh EXCEPT ![r] = "error"]
  /\ groupEnded' = TRUE
  /\ UNCHANGED <<caller, body, complete>>

Unpark(r) ==
  /\ promoted[r] = "parked" /\ (complete[r] \/ groupEnded)
  /\ promoted' = [promoted EXCEPT ![r] = "done"]
  /\ UNCHANGED <<caller, resCh, body, complete, groupEnded>>

\* The caller's select.
TakeResult(r) ==
  /\ caller[r] = "waiting" /\ resCh[r] # "empty"
  /\ caller' = [caller EXCEPT ![r] =
       IF resCh[r] = "error" THEN "done" ELSE IF r \in Careless THEN "dropped" ELSE "reading"]
  /\ resCh' = [resCh EXCEPT ![r] = "empty"]
  /\ UNCHANGED <<promoted, body, complete, groupEnded>>

CallerLeaves(r) ==
  /\ caller[r] = "waiting" /\ groupEnded
  /\ caller' = [caller EXCEPT ![r] = "left"]
  /\ UNCHANGED <<promoted, resCh, body, complete, groupEnded>>

\* Read to an error or to the end: the task may go on before the close.
ReadToEnd(r) ==
  /\ caller[r] = "reading" /\ ~complete[r]
  /\ complete' = [complete EXCEPT ![r] = TRUE]
  /\ UNCHANGED <<caller, promoted, resCh, body, groupEnded>>

CloseBody(r) ==
  /\ caller[r] = "reading" /\ caller' = [caller EXCEPT ![r] = "done"]
  /\ body' = [body EXCEPT ![r] = "closed"]
  /\ complete' = [complete EXCEPT ![r] = TRUE]
  /\ UNCHANGED <<promoted, resCh, groupEnded>>

\* Another task of the group fails, or the user interrupts.
GroupEnds ==
  /\ ~groupEnded /\ groupEnded' = TRUE
  /\ UNCHANGED <<caller, promoted, resCh, body, complete>>

Promoted(r) == Acquire(r) \/ NotAcquired(r) \/ Responds(r) \/ Errs(r) \/ Unpark(r)
CallerActs(r) == TakeResult(r) \/ CallerLeaves(r) \/ ReadToEnd(r) \/ CloseBody(r)

HttpNext == GroupEnds \/ \E r \in Request : RoundTrip(r) \/ Promoted(r) \/ CallerActs(r)

\* Goroutines run and servers answer or fail; a body that is being read is
\* closed, and of those who wait for a slot each gets one.
HttpFairness ==
  \A r \in Request :
    /\ SF_httpVars(Acquire(r)) /\ WF_httpVars(Promoted(r))
    /\ WF_httpVars(CallerActs(r)) /\ WF_httpVars(CloseBody(r))

HttpSpec == HttpInit /\ [][HttpNext]_httpVars /\ HttpFairness

-----------------------------------------------------------------------------
(* Properties.                                                             *)

\* No more bodies are read at once than the pool has slots: the slot is held
\* from the request to the end of the body, not only until the headers come.
\* The body of a response that nobody can close any more is left open only
\* when the group's end met the response on its way, or by a careless caller.
BodiesAccounted ==
  /\ groupEnded \/ Cardinality({r \in Request : caller[r] = "reading" /\ ~complete[r]}) <= Slots
  /\ \A r \in Request :
       body[r] = "open" /\ caller[r] \in {"done", "left", "dropped"} => groupEnded \/ r \in Careless

\* Every call returns, also when the group ends while the task still waits for
\* its slot and will never send a result; and every task ends with its call.
\* (A request is made once, so what must end again and again ends for good.)
CallsAndTasksEnd == []<>(\A r \in Request :
  /\ caller[r] # "waiting"
  /\ r \notin Careless => promoted[r] \in {"none", "done", "failed"})
=============================================================================
