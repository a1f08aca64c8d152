------------------------------- MODULE Relay -------------------------------
(***************************************************************************)
(* The WebSocket endpoints of the backend that answer a request with a     *)
(* stream of events: /ws/lab, /ws/chaos, /ws/experiments, /ws/benchmark    *)
(* and /ws/patch (backend/api/*.py).                                       *)
(*                                                                         *)
(* Three kinds of actors meet here.                                        *)
(*  - The asyncio event loop runs every handler, one at a time.  A handler *)
(*    that calls docker_agent.ensure_container() does so synchronously and *)
(*    holds the loop until the call returns.                               *)
(*  - Each accepted request gets a daemon thread that runs the agent's     *)
(*    generator, puts what it yields on a queue.Queue made for the         *)
(*    request, then puts None.                                             *)
(*  - The handler takes the queue's items with run_in_executor(None,       *)
(*    queue.get): a job for the loop's default thread pool, whose threads  *)
(*    block inside get() until there is an item.                           *)
(***************************************************************************)
EXTENDS Naturals, Integers, Sequences, FiniteSets

CONSTANTS
  Sessions,     \* WebSocket connections
  Endpoint,     \* Sessions -> the endpoint the connection was opened on
  PoolSize,     \* threads of the loop's default executor
  MayRaise,     \* sessions whose agent may raise instead of ending
  Messages,     \* the kinds of messages clients send
  MaxRequests,  \* bound: messages a client sends
  MaxEvents,    \* bound: events an agent yields for one request
  NoSession     \* a value that is not a session

StartsContainer == {"lab", "chaos", "experiments"}
Endpoints == StartsContainer \cup {"benchmark", "patch"}

ASSUME EndpointAssumption == Endpoint \in [Sessions -> Endpoints]
ASSUME PoolAssumption == PoolSize \in Nat \ {0}
ASSUME BoundAssumption == MaxRequests \in Nat /\ MaxEvents \in Nat
ASSUME NoSessionAssumption == NoSession \notin Sessions

VARIABLES
  conn,    \* [Sessions -> "none" | "open" | "gone"]: the client's side
  inbox,   \* messages received from the client and not yet read
  asked,   \* messages the client has sent so far
  loop,    \* the session whose handler blocks the event loop, or NoSession
  hpc,     \* where the session's handler is
  wpc,     \* the agent thread of the session's current request
  queue,   \* the current request's queue.Queue: event numbers and None
  made,    \* events the agent has yielded for the current request
  held,    \* the item the executor handed to the handler, or NoItem
  sent,    \* history: the events sent for the current request
  begun,   \* history: requests for which an agent was started
  jobs,    \* queue.get calls submitted to the executor, first in first out
  busy     \* sessions whose queue.get call occupies an executor thread

vars == <<conn, inbox, asked, loop, hpc, wpc, queue, made, held, sent, begun,
          jobs, busy>>

None == 0       \* the sentinel; the n-th event of a request is the number n
NoItem == -1

(***************************************************************************)
(* What a message is to the endpoint it arrives at.                        *)
(***************************************************************************)
AllMessages == {"valid", "unknown", "blank", "malformed"}

ASSUME MessagesAssumption == Messages \subseteq AllMessages

\* A blank line is ignored and a line shlex cannot split is answered by the
\* lab; the JSON endpoints raise on text that is not JSON; benchmark and
\* patch hand whatever arrives to their agent.
Verdict(s, m) ==
  CASE Endpoint[s] \in {"benchmark", "patch"} -> "start"
    [] m = "valid" -> "start"
    [] m = "unknown" -> "reject"
    [] Endpoint[s] = "lab" /\ m = "blank" -> "ignore"
    [] Endpoint[s] = "lab" /\ m = "malformed" -> "reject"
    [] OTHER -> "raise"

Init ==
  /\ conn = [s \in Sessions |-> "none"]
  /\ inbox = [s \in Sessions |-> << >>]
  /\ asked = [s \in Sessions |-> 0]
  /\ loop = NoSession
  /\ hpc = [s \in Sessions |-> "new"]
  /\ wpc = [s \in Sessions |-> "none"]
  /\ queue = [s \in Sessions |-> << >>]
  /\ made = [s \in Sessions |-> 0]
  /\ held = [s \in Sessions |-> NoItem]
  /\ sent = [s \in Sessions |-> << >>]
  /\ begun = [s \in Sessions |-> 0]
  /\ jobs = << >>
  /\ busy = {}

client == <<conn, inbox, asked>>
stream == <<queue, made, sent, begun>>
pool == <<jobs, busy>>

(***************************************************************************)
(* The client.                                                             *)
(***************************************************************************)
Connect(s) ==
  /\ conn[s] = "none"
  /\ conn' = [conn EXCEPT ![s] = "open"]
  /\ UNCHANGED <<inbox, asked, loop, hpc, wpc, held, stream, pool>>

ClientSend(s, m) ==
  /\ conn[s] = "open"
  /\ asked[s] < MaxRequests
  /\ asked' = [asked EXCEPT ![s] = @ + 1]
  /\ inbox' = [inbox EXCEPT ![s] = Append(@, m)]
  /\ UNCHANGED <<conn, loop, hpc, wpc, held, stream, pool>>

ClientLeave(s) ==
  /\ conn[s] = "open"
  /\ conn' = [conn EXCEPT ![s] = "gone"]
  /\ UNCHANGED <<inbox, asked, loop, hpc, wpc, held, stream, pool>>

(***************************************************************************)
(* The handler, on the event loop.  A step needs the loop: no step of any  *)
(* handler happens while one of them is inside ensure_container.           *)
(***************************************************************************)
Accept(s) ==
  /\ loop = NoSession
  /\ conn[s] # "none"
  /\ hpc[s] = "new"
  /\ IF Endpoint[s] \in StartsContainer
       THEN hpc' = [hpc EXCEPT ![s] = "ensuring"] /\ loop' = s
       ELSE hpc' = [hpc EXCEPT ![s] = "receive"] /\ loop' = loop
  /\ UNCHANGED <<client, wpc, held, stream, pool>>

EnsureReturns(s) ==
  /\ hpc[s] = "ensuring"
  /\ hpc' = [hpc EXCEPT ![s] = "receive"]
  /\ loop' = NoSession
  /\ UNCHANGED <<client, wpc, held, stream, pool>>

\* A docker command of ensure_container exceeded its timeout: the call is
\* outside the handler's try, and the server drops the connection.
EnsureRaises(s) ==
  /\ hpc[s] = "ensuring"
  /\ hpc' = [hpc EXCEPT ![s] = "closed"]
  /\ conn' = [conn EXCEPT ![s] = "gone"]
  /\ loop' = NoSession
  /\ UNCHANGED <<inbox, asked, wpc, held, stream, pool>>

\* The handler is back at its receive call and a message is there.
Reading(s) ==
  /\ loop = NoSession
  /\ hpc[s] = "receive"
  /\ inbox[s] # << >>
  /\ inbox' = [inbox EXCEPT ![s] = Tail(@)]
  /\ UNCHANGED <<asked, loop, held>>

\* Make a queue, start the agent's thread, submit the first queue.get.
StartRequest(s) ==
  /\ Reading(s)
  /\ Verdict(s, Head(inbox[s])) = "start"
  /\ hpc' = [hpc EXCEPT ![s] = "waiting"]
  /\ wpc' = [wpc EXCEPT ![s] = "running"]
  /\ queue' = [queue EXCEPT ![s] = << >>]
  /\ made' = [made EXCEPT ![s] = 0]
  /\ sent' = [sent EXCEPT ![s] = << >>]
  /\ begun' = [begun EXCEPT ![s] = @ + 1]
  /\ jobs' = Append(jobs, s)
  /\ UNCHANGED <<conn, busy>>

\* The error reply; sending it to a client that left ends the handler.
RejectRequest(s) ==
  /\ Reading(s)
  /\ Verdict(s, Head(inbox[s])) = "reject"
  /\ hpc' = IF conn[s] = "gone" THEN [hpc EXCEPT ![s] = "closed"] ELSE hpc
  /\ UNCHANGED <<conn, wpc, stream, pool>>

IgnoreRequest(s) ==
  /\ Reading(s)
  /\ Verdict(s, Head(inbox[s])) = "ignore"
  /\ UNCHANGED <<conn, hpc, wpc, stream, pool>>

RaiseOnRequest(s) ==
  /\ Reading(s)
  /\ Verdict(s, Head(inbox[s])) = "raise"
  /\ hpc' = [hpc EXCEPT ![s] = "closed"]
  /\ conn' = [conn EXCEPT ![s] = "gone"]
  /\ UNCHANGED <<wpc, stream, pool>>

ReceiveDisconnect(s) ==
  /\ loop = NoSession
  /\ hpc[s] = "receive"
  /\ inbox[s] = << >>
  /\ conn[s] = "gone"
  /\ hpc' = [hpc EXCEPT ![s] = "closed"]
  /\ UNCHANGED <<client, loop, wpc, held, stream, pool>>

\* The handler resumes with an event: it sends it and asks for the next.
SendEvent(s) ==
  /\ loop = NoSession
  /\ hpc[s] = "resumed"
  /\ held[s] # None
  /\ conn[s] = "open"
  /\ sent' = [sent EXCEPT ![s] = Append(@, held[s])]
  /\ held' = [held EXCEPT ![s] = NoItem]
  /\ hpc' = [hpc EXCEPT ![s] = "waiting"]
  /\ jobs' = Append(jobs, s)
  /\ UNCHANGED <<client, loop, wpc, queue, made, begun, busy>>

\* Mutant: the handler asks for the next item before it sends the one it has.
SendFailsAfterAsking(s) ==
  /\ loop = NoSession
  /\ hpc[s] = "resumed"
  /\ held[s] # None
  /\ conn[s] = "gone"
  /\ hpc' = [hpc EXCEPT ![s] = "closed"]
  /\ jobs' = Append(jobs, s)
  /\ UNCHANGED <<client, loop, wpc, held, stream, busy>>

\* Mutant: a failed send is swallowed, and the next item asked for.
SendFailsSwallowed(s) ==
  /\ loop = NoSession
  /\ hpc[s] = "resumed"
  /\ held[s] # None
  /\ conn[s] = "gone"
  /\ held' = [held EXCEPT ![s] = NoItem]
  /\ hpc' = [hpc EXCEPT ![s] = "waiting"]
  /\ jobs' = Append(jobs, s)
  /\ UNCHANGED <<client, loop, wpc, stream, busy>>

\* WebSocketDisconnect from the send: the handler returns, the agent's
\* thread and its queue are left as they are.
SendFails(s) ==
  /\ loop = NoSession
  /\ hpc[s] = "resumed"
  /\ held[s] # None
  /\ conn[s] = "gone"
  /\ hpc' = [hpc EXCEPT ![s] = "closed"]
  /\ UNCHANGED <<client, loop, wpc, held, stream, pool>>

EndOfStream(s) ==
  /\ loop = NoSession
  /\ hpc[s] = "resumed"
  /\ held[s] = None
  /\ held' = [held EXCEPT ![s] = NoItem]
  /\ hpc' = [hpc EXCEPT ![s] = "receive"]
  /\ UNCHANGED <<client, loop, wpc, stream, pool>>

(***************************************************************************)
(* The default executor.  A thread that took a job is inside queue.get     *)
(* until the queue has an item; then the handler's future is resolved.     *)
(***************************************************************************)
RunJob ==
  /\ jobs # << >>
  /\ Cardinality(busy) < PoolSize
  /\ busy' = busy \cup {Head(jobs)}
  /\ jobs' = Tail(jobs)
  /\ UNCHANGED <<client, loop, hpc, wpc, held, stream>>

\* Mutant: a queue.LifoQueue.
GetNewest(s) ==
  /\ s \in busy
  /\ queue[s] # << >>
  /\ held' = [held EXCEPT ![s] = queue[s][Len(queue[s])]]
  /\ queue' = [queue EXCEPT ![s] = SubSeq(@, 1, Len(@) - 1)]
  /\ hpc' = [hpc EXCEPT ![s] = "resumed"]
  /\ busy' = busy \ {s}
  /\ UNCHANGED <<client, loop, wpc, made, sent, begun, jobs>>

GetItem(s) ==
  /\ s \in busy
  /\ queue[s] # << >>
  /\ held' = [held EXCEPT ![s] = Head(queue[s])]
  /\ queue' = [queue EXCEPT ![s] = Tail(@)]
  /\ hpc' = [hpc EXCEPT ![s] = "resumed"]
  /\ busy' = busy \ {s}
  /\ UNCHANGED <<client, loop, wpc, made, sent, begun, jobs>>

(***************************************************************************)
(* The agent's thread.                                                     *)
(***************************************************************************)
WorkerPut(s) ==
  /\ wpc[s] = "running"
  /\ made[s] < MaxEvents
  /\ made' = [made EXCEPT ![s] = @ + 1]
  /\ queue' = [queue EXCEPT ![s] = Append(@, made[s] + 1)]
  /\ UNCHANGED <<client, loop, hpc, wpc, held, sent, begun, pool>>

\* Mutant: the worker's last put is missing.
EndSilently(s) ==
  /\ wpc[s] = "running"
  /\ wpc' = [wpc EXCEPT ![s] = "done"]
  /\ UNCHANGED <<client, loop, hpc, held, stream, pool>>

WorkerEnd(s) ==
  /\ wpc[s] = "running"
  /\ wpc' = [wpc EXCEPT ![s] = "done"]
  /\ queue' = [queue EXCEPT ![s] = Append(@, None)]
  /\ UNCHANGED <<client, loop, hpc, held, made, sent, begun, pool>>

\* The generator raises (a docker command's TimeoutExpired, a parse error):
\* the thread dies before its put(None).
WorkerRaise(s) ==
  /\ s \in MayRaise
  /\ wpc[s] = "running"
  /\ wpc' = [wpc EXCEPT ![s] = "dead"]
  /\ UNCHANGED <<client, loop, hpc, held, stream, pool>>

(***************************************************************************)
(* The specification.                                                      *)
(***************************************************************************)
ClientStep(s) ==
  Connect(s) \/ ClientLeave(s) \/ \E m \in Messages : ClientSend(s, m)

HandlerStep(s) ==
  \/ Accept(s) \/ EnsureReturns(s) \/ EnsureRaises(s)
  \/ StartRequest(s) \/ RejectRequest(s) \/ IgnoreRequest(s)
  \/ RaiseOnRequest(s) \/ ReceiveDisconnect(s)
  \/ SendEvent(s) \/ SendFails(s) \/ EndOfStream(s)

WorkerStep(s) == WorkerPut(s) \/ WorkerEnd(s) \/ WorkerRaise(s)

Next ==
  \/ RunJob
  \/ \E s \in Sessions :
       ClientStep(s) \/ HandlerStep(s) \/ GetItem(s) \/ WorkerStep(s)

Spec == Init /\ [][Next]_vars

\* The event loop, the executor's threads and the agents' threads run; a
\* client owes nothing.  WF on WorkerStep also says that an agent that keeps
\* yielding comes to its end or raises, which MaxEvents makes it do.
Fairness ==
  /\ WF_vars(RunJob)
  /\ \A s \in Sessions :
       WF_vars(HandlerStep(s)) /\ WF_vars(GetItem(s)) /\ WF_vars(WorkerStep(s))

FairSpec == Spec /\ Fairness

(***************************************************************************)
(* Properties.                                                             *)
(***************************************************************************)
HandlerStates ==
  {"new", "ensuring", "receive", "waiting", "resumed", "closed"}

\* Every variable has the values its declaration names.
TypeOK ==
  /\ conn \in [Sessions -> {"none", "open", "gone"}]
  /\ inbox \in [Sessions -> Seq(Messages)]
  /\ asked \in [Sessions -> Nat]
  /\ loop \in Sessions \cup {NoSession}
  /\ hpc \in [Sessions -> HandlerStates]
  /\ wpc \in [Sessions -> {"none", "running", "done", "dead"}]
  /\ queue \in [Sessions -> Seq(Nat)]
  /\ made \in [Sessions -> Nat]
  /\ held \in [Sessions -> Nat \cup {NoItem}]
  /\ sent \in [Sessions -> Seq(Int)]
  /\ begun \in [Sessions -> Nat]
  /\ jobs \in Seq(Sessions)
  /\ busy \in SUBSET Sessions

\* What the client has seen of a request is the agent's events in the order
\* it yielded them, none lost, repeated or left over from the request before,
\* whatever the threads and the other sessions do in between.
InOrderExactlyOnce ==
  \A s \in Sessions :
    /\ Len(sent[s]) <= made[s]
    /\ \A i \in 1..Len(sent[s]) : sent[s][i] = i

\* A handler that is back at receive after a request has seen the agent end
\* and has sent everything it yielded: an agent never outlives its request in
\* a session that goes on, so two agents of one session never run at once.
ReadyOnlyWhenDrained ==
  \A s \in Sessions :
    hpc[s] = "receive" /\ begun[s] > 0 =>
      wpc[s] = "done" /\ Len(sent[s]) = made[s] /\ queue[s] = << >>

\* A session owns a thread of the shared executor, or a place in its queue,
\* exactly while its handler awaits an item, and never two: no handler that
\* returned leaves a thread of the pool behind in queue.get.
PoolOwnership ==
  /\ IsFiniteSet(busy) /\ Cardinality(busy) <= PoolSize
  /\ \A s \in Sessions :
       hpc[s] = "waiting" <=> s \in busy \/ \E i \in 1..Len(jobs) : jobs[i] = s
  /\ \A i \in 1..Len(jobs) :
       /\ jobs[i] \notin busy
       /\ \A j \in 1..Len(jobs) : jobs[i] = jobs[j] => i = j

\* The session in the terms of EventStream.tla.
Phase(s) ==
  CASE hpc[s] \in {"new", "ensuring", "receive"} -> "idle"
    [] hpc[s] \in {"waiting", "resumed"} -> "streaming"
    [] hpc[s] = "closed" -> "over"

Stream(s) == INSTANCE EventStream WITH
  phase <- Phase(s),
  ended <- wpc[s] \in {"none", "done"},
  produced <- made[s],
  delivered <- Len(sent[s]),
  requests <- begun[s]

\* Each session implements the abstract event stream.
SessionIsEventStream ==
  /\ \A s \in Sessions : Stream(s)!Init
  /\ [][\A s \in Sessions : [Stream(s)!Next]_(Stream(s)!vars)]_vars

\* Every request taken whose agent does not raise is answered to its end,
\* or its handler is over, and a handler whose client left comes to an end:
\* whatever the other sessions do, as long as fewer agents than the pool has
\* threads can die without their put(None).
StreamsFinish ==
  \A s \in Sessions \ MayRaise :
    /\ hpc[s] = "waiting" ~> hpc[s] \in {"receive", "closed"}
    /\ conn[s] = "gone" ~> hpc[s] = "closed"
=============================================================================
