------------------------------ MODULE Monitor ------------------------------
(***************************************************************************)
(* The kernel monitor: the two pages that show it (LiveMonitor.tsx and     *)
(* RealKernelWorkflow.tsx), the /ws/monitor handler with its worker, the   *)
(* agent ebpf_agent.stream_metrics, its docker client and the bpftrace the *)
(* client started in the container.  What the agent kills is the client;   *)
(* nobody kills bpftrace.                                                  *)
(*                                                                         *)
(* One visit of one page, with one connection.  A sample reaches the page  *)
(* in the step that sends it.  The error and the close event of a failed   *)
(* connection come in one task, so nothing is drawn between them.          *)
(***************************************************************************)
EXTENDS Naturals, Sequences, SequencesExt

CONSTANTS
  Views,     \* which of "live" and "workflow" to look at
  GraphSize, \* samples a graph keeps: 30
  PipeSize,  \* bound: lines in bpftrace's pipe
  QueueSize, \* bound: samples a slow handler lets pile up
  CanFail    \* docker commands may raise, connections be refused or lost

ConstantsOK ==
  /\ Views \subseteq {"live", "workflow"}
  /\ GraphSize \in Nat \ {0} /\ PipeSize \in Nat \ {0, 1}
  /\ QueueSize \in Nat \ {0} /\ CanFail \in BOOLEAN

VARIABLES
  view,       \* the page
  mounted,    \* it is shown
  sock,       \* its WebSocket
  fallback,   \* the workflow's two seconds are being counted
  connected,  \* what the page holds of the connection
  demo,       \* demoMode
  feeding,    \* the effect of demoMode has its interval
  history,    \* the graph: where each of its points is from
  latest,     \* where the numbers shown are from
  active,     \* the workflow's stage
  handler,    \* monitor_socket
  stop,       \* its stop_event
  worker,     \* the worker thread
  tracer,     \* the docker client of bpftrace
  bpftrace,   \* bpftrace in the container
  lines,      \* what it printed and nobody read
  pending,    \* a count of switches waits for its wakeups
  queue,      \* samples for the handler, and the end
  late        \* history: samples put after the stop

screen == <<connected, demo, feeding, history, latest, active>>
page == <<view, mounted, sock, fallback, screen>>
agent == <<worker, tracer, bpftrace, lines, pending, late>>
mvars == <<page, handler, stop, queue, agent>>

MIdle ==
  /\ view \in Views
  /\ connected = FALSE
  /\ demo = FALSE
  /\ feeding = FALSE
  /\ history = <<>>
  /\ latest = "none"
  /\ active = 0
  /\ handler = "none"
  /\ stop = FALSE
  /\ worker = "none"
  /\ tracer = "none"
  /\ bpftrace = "none"
  /\ lines = <<>>
  /\ pending = FALSE
  /\ queue = <<>>
  /\ late = 0

MInit ==
  /\ MIdle
  /\ mounted = TRUE
  /\ sock = "connecting"
  /\ fallback = (view = "workflow")

\* Neither page is open.
MAbsent == MIdle /\ mounted = FALSE /\ sock = "over" /\ fallback = FALSE

(***************************************************************************)
(* The pages.                                                              *)
(***************************************************************************)
StageCount == 6
Advance == active' = (active + 1) % StageCount
LastOf(points) ==
  IF Len(points) < GraphSize THEN points ELSE SubSeq(points, Len(points) - GraphSize + 2, Len(points))
Plot(from) ==
  /\ latest' = from
  /\ history' = Append(LastOf(history), from)

LiveOpens ==
  /\ view = "live"
  /\ connected' = TRUE /\ demo' = FALSE
  /\ UNCHANGED fallback

WorkflowOpens ==
  /\ view = "workflow"
  /\ connected' = TRUE
  /\ fallback' = FALSE
  /\ UNCHANGED demo

\* The connection is accepted.
Connect ==
  /\ mounted /\ sock = "connecting" /\ handler = "none"
  /\ sock' = "open"
  /\ handler' = "accepted"
  /\ LiveOpens \/ WorkflowOpens
  /\ UNCHANGED <<view, mounted, feeding, history, latest, active, stop, queue, agent>>

\* The error's handler sets connected, and the close's, which belongs to the
\* first render and sees no demo mode, resets it.
LiveFails ==
  /\ view = "live"
  /\ demo' = TRUE
  /\ connected' = FALSE
  /\ UNCHANGED <<fallback, latest>>

WorkflowFails ==
  /\ view = "workflow"
  /\ demo' = TRUE
  /\ connected' = FALSE
  /\ fallback' = FALSE
  /\ latest' = "sim"

\* Refused, lost, or given up by the page's own timer.
Fail ==
  /\ mounted
  /\ sock = "closing" \/ (CanFail /\ sock \in {"connecting", "open"})
  /\ sock' = "over"
  /\ LiveFails \/ WorkflowFails
  /\ UNCHANGED <<view, mounted, feeding, history, active, handler, stop, queue, agent>>

\* The handler has returned, or raised: a close event and nothing else.
CloseEvent ==
  /\ mounted /\ sock = "open" /\ handler = "done"
  /\ sock' = "over"
  /\ connected' = FALSE
  /\ UNCHANGED <<view, mounted, fallback, demo, feeding, history, latest, active,
                 handler, stop, queue, agent>>

WorkflowTimeOut ==
  /\ mounted /\ fallback
  /\ fallback' = FALSE
  /\ sock' = "closing"
  /\ demo' = TRUE /\ connected' = TRUE /\ latest' = "sim"
  /\ UNCHANGED <<view, mounted, feeding, history, active, handler, stop, queue, agent>>

\* Mutant: the simulated points follow the real ones.
LiveDemoKeepsGraph ==
  /\ view = "live"
  /\ history' = Append(LastOf(history), "sim")
  /\ latest' = "sim"

\* The effect of demoMode fills the whole graph before its first tick.
LiveDemo ==
  /\ view = "live"
  /\ history' = [i \in 1 .. GraphSize |-> "sim"]
  /\ latest' = "sim"

WorkflowDemo ==
  /\ view = "workflow"
  /\ UNCHANGED <<history, latest>>

DemoBegins ==
  /\ mounted /\ demo /\ ~ feeding
  /\ feeding' = TRUE
  /\ LiveDemo \/ WorkflowDemo
  /\ UNCHANGED <<view, mounted, sock, fallback, connected, demo, active,
                 handler, stop, queue, agent>>

LiveTick == view = "live" /\ Plot("sim") /\ UNCHANGED active
WorkflowTick == view = "workflow" /\ Advance /\ UNCHANGED <<history, latest>>

DemoTick ==
  /\ mounted /\ feeding
  /\ LiveTick \/ WorkflowTick
  /\ UNCHANGED <<view, mounted, sock, fallback, connected, demo, feeding,
                 handler, stop, queue, agent>>

LiveMessage == view = "live" /\ Plot("real") /\ UNCHANGED active
WorkflowMessage ==
  view = "workflow" /\ latest' = "real" /\ Advance /\ UNCHANGED history

\* The user leaves: the effects' cleanups stop everything.
Leave ==
  /\ mounted
  /\ mounted' = FALSE
  /\ sock' = "over"
  /\ fallback' = FALSE
  /\ feeding' = FALSE
  /\ UNCHANGED <<view, connected, demo, history, latest, active, handler, stop, queue, agent>>

(***************************************************************************)
(* The handler.                                                            *)
(***************************************************************************)
\* ensure_container, then the worker thread; what it raises ends the handler.
Prepare ==
  /\ handler = "accepted"
  /\ \/ /\ handler' = "waiting"
        /\ worker' = "starting"
     \/ /\ CanFail
        /\ handler' = "done"
        /\ UNCHANGED worker
  /\ UNCHANGED <<page, stop, queue, tracer, bpftrace, lines, pending, late>>

HandlerEnds == handler' = "done" /\ stop' = TRUE

\* The next item: the end, or a sample that is sent -- in vain when the page
\* is gone, and only then the handler learns of it.
Relay ==
  /\ handler = "waiting" /\ queue # <<>>
  /\ queue' = Tail(queue)
  /\ \/ Head(queue) = "end" /\ HandlerEnds /\ UNCHANGED page
     \/ Head(queue) = "sample" /\ sock # "open" /\ HandlerEnds /\ UNCHANGED page
     \/ /\ Head(queue) = "sample" /\ sock = "open"
        /\ LiveMessage \/ WorkflowMessage
        /\ UNCHANGED <<view, mounted, sock, fallback, connected, demo, feeding, handler, stop>>
  /\ UNCHANGED agent

(***************************************************************************)
(* The agent in its worker thread.                                         *)
(***************************************************************************)
\* bpftrace is started, unless Popen raises.  The read of /proc/stat after it
\* is above the try: when that raises nothing kills the client.
Launch ==
  /\ worker = "starting"
  /\ \/ /\ tracer' = "running" /\ bpftrace' = "running"
        /\ worker' \in {"reading"} \cup (IF CanFail THEN {"failed"} ELSE {})
     \/ /\ CanFail
        /\ worker' = "raised"
        /\ UNCHANGED <<tracer, bpftrace>>
  /\ UNCHANGED <<page, handler, stop, queue, lines, pending, late>>

\* One second: two lines.
TracerPrints ==
  /\ tracer = "running" /\ bpftrace = "running"
  /\ Len(lines) + 2 <= PipeSize
  /\ handler # "done" => Len(queue) < QueueSize
  /\ lines' = lines \o <<"switches", "wakeups">>
  /\ UNCHANGED <<page, handler, stop, queue, worker, tracer, bpftrace, pending, late>>

\* The client ends because bpftrace did, or by itself.
TracerDies ==
  /\ CanFail
  /\ tracer = "running"
  /\ tracer' = "ended"
  /\ bpftrace' \in {bpftrace, "ended"}
  /\ UNCHANGED <<page, handler, stop, queue, worker, lines, pending, late>>

\* bpftrace has a script without an end: one that outlived its client goes on
\* until the container is removed, or something else ends it.
OrphanEnds ==
  /\ CanFail
  /\ tracer = "ended" /\ bpftrace = "running"
  /\ bpftrace' = "ended"
  /\ UNCHANGED <<page, handler, stop, queue, worker, tracer, lines, pending, late>>

\* Mutant: the docker client is not killed.
AgentReturns ==
  /\ worker' = "done"
  /\ UNCHANGED tracer
  /\ queue' = Append(queue, "end")

\* The generator ends: its finally clause kills the docker client, not what the
\* client started, and the worker puts the end.
AgentEnds ==
  /\ worker' = "done"
  /\ tracer' = "ended"
  /\ queue' = Append(queue, "end")

\* What is put after the handler ended is never taken.
PutSample ==
  /\ queue' = IF handler = "done" THEN queue ELSE Append(queue, "sample")
  /\ late' = IF stop /\ late < 2 THEN late + 1 ELSE late
  /\ pending' = FALSE
  /\ worker' = "reading"
  /\ UNCHANGED tracer

\* A read of /proc raises: the client is killed, but no end is put.
AgentRaises ==
  /\ CanFail
  /\ worker' = "raised"
  /\ tracer' = "ended"
  /\ UNCHANGED <<queue, pending, late>>

\* The stop is looked at when there is a line.
StopSeen ==
  /\ worker = "reading" /\ lines # <<>> /\ stop
  /\ AgentEnds
  /\ UNCHANGED <<page, handler, stop, bpftrace, lines, pending, late>>

\* Mutant: the stop is not looked at.
TestSkipped ==
  /\ worker = "reading" /\ lines # <<>>
  /\ worker' = "parsing"
  /\ UNCHANGED <<page, handler, stop, queue, tracer, bpftrace, lines, pending, late>>

\* A stop that comes when this test is passed is seen at the next line.
TestPassed ==
  /\ worker = "reading" /\ lines # <<>> /\ ~ stop
  /\ worker' = "parsing"
  /\ UNCHANGED <<page, handler, stop, queue, tracer, bpftrace, lines, pending, late>>

Parse ==
  /\ worker = "parsing"
  /\ lines' = Tail(lines)
  /\ \/ /\ Head(lines) = "switches"
        /\ pending' = TRUE
        /\ worker' = "reading"
        /\ UNCHANGED <<queue, tracer, late>>
     \/ /\ Head(lines) = "wakeups" /\ ~ pending
        /\ worker' = "reading"
        /\ UNCHANGED <<queue, tracer, pending, late>>
     \/ Head(lines) = "wakeups" /\ pending /\ (PutSample \/ AgentRaises)
  /\ UNCHANGED <<page, handler, stop, bpftrace>>

EndOfOutput ==
  /\ worker = "reading" /\ lines = <<>> /\ tracer = "ended"
  /\ AgentEnds
  /\ UNCHANGED <<page, handler, stop, bpftrace, lines, pending, late>>

BrowserStep ==
  \/ CloseEvent \/ WorkflowTimeOut \/ DemoBegins
  \/ sock = "closing" /\ Fail
WorkerStep == StopSeen \/ TestPassed \/ Parse \/ EndOfOutput

MNext ==
  \/ Connect \/ Fail \/ BrowserStep \/ DemoTick \/ Leave
  \/ Prepare \/ Relay
  \/ Launch \/ WorkerStep
  \/ TracerPrints \/ TracerDies \/ OrphanEnds

MSpec == MInit /\ [][MNext]_mvars

\* The browser delivers its events, the event loop and the thread run, and
\* bpftrace prints every second.
MFairness ==
  /\ WF_mvars(BrowserStep)
  /\ WF_mvars(Prepare) /\ WF_mvars(Relay)
  /\ WF_mvars(Launch) /\ WF_mvars(WorkerStep)
  /\ WF_mvars(TracerPrints)

MFairSpec == MSpec /\ MFairness

(***************************************************************************)
(* What the user sees.                                                     *)
(***************************************************************************)
LiveScreen ==
  [label |-> IF demo THEN "Demo" ELSE "Live", dot |-> connected,
   graph |-> ToSet(history), numbers |-> latest]

\* Both texts of the workflow's page say "real".
WorkflowScreen ==
  IF ~ connected /\ latest = "none" THEN [shows |-> "connecting"]
  ELSE [shows |-> "stages", lit |-> active, numbers |-> latest]

(***************************************************************************)
(* Properties.                                                             *)
(***************************************************************************)
MTypeOK ==
  /\ view \in Views
  /\ {mounted, fallback, connected, demo, feeding, stop, pending} \subseteq BOOLEAN
  /\ sock \in {"connecting", "open", "closing", "over"}
  /\ history \in Seq({"real", "sim"}) /\ Len(history) <= GraphSize
  /\ latest \in {"none", "real", "sim"}
  /\ active \in 0 .. StageCount - 1
  /\ handler \in {"none", "accepted", "waiting", "done"}
  /\ worker \in {"none", "starting", "reading", "parsing", "failed", "raised", "done"}
  /\ {tracer, bpftrace} \subseteq {"none", "running", "ended"}
  /\ lines \in Seq({"switches", "wakeups"}) /\ Len(lines) <= PipeSize
  /\ queue \in Seq({"sample", "end"})
  /\ late \in 0 .. 2

VisitOver == sock = "over"

\* The worker will put nothing any more, and has not put the end: the handler
\* waits for nothing.
Stranded == handler = "waiting" /\ queue = <<>> /\ worker \in {"raised", "failed"}
HandlerOver == handler \in {"none", "done"} \/ Stranded
ClientOver == tracer # "running" \/ worker = "failed"
CleanedUp == HandlerOver /\ ClientOver

\* LiveMonitor.tsx:66-115: under the label "Live" every point and number is a
\* sample of the tracer, and in demo mode, once its effect has run, none is.
\* RealKernelWorkflow.tsx:36-60: its numbers are simulated just in demo mode.
OneSource ==
  IF view = "live"
    THEN /\ LiveScreen.label = "Live" =>
              LiveScreen.graph \subseteq {"real"} /\ LiveScreen.numbers # "sim"
         /\ feeding => LiveScreen.graph = {"sim"} /\ LiveScreen.numbers = "sim"
    ELSE WorkflowScreen.shows = "stages" => (WorkflowScreen.numbers = "sim") = demo

\* ebpf_agent.py:82-112: after the stop at most one more sample is put, the one
\* whose line had passed the test.
OneLateSample == late <= 1

\* monitor.py:40-43 and ebpf_agent.py:84, 113: when the page is gone, or its
\* connection, the handler ends and the docker client of bpftrace is killed.
\* Where a docker exec raises in the worker this is not so: the handler waits
\* for ever, and the client too goes on when it was the one before the try.
\* It is the client only: bpftrace itself may go on in the container.
VisitCleansUp == VisitOver ~> CleanedUp
=============================================================================
