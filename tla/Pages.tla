------------------------------- MODULE Pages -------------------------------
(***************************************************************************)
(* The interactive pages of the web UI.  The user has one of them open,    *)
(* and they share nothing in the browser; each keeps its initial state     *)
(* until it is the one.                                                    *)
(***************************************************************************)
EXTENDS Panel

CONSTANTS
  Parts,   \* the pages to look at
  Kinds, MaxCommands, MaxLines, CanDrop, CanRaise,  \* see Terminal.tla
  Views, GraphSize, PipeSize, QueueSize, CanFail,   \* see Monitor.tla
  Answers                                           \* see Reports.tla

VARIABLES
  part,   \* the page that is open
  asked, env, termDemo, termSock, termRunning, entries, toServer, toClient,
  command, process, killer, printed, box,           \* Terminal
  view, mounted, monSock, fallback, connected, monDemo, feeding, graph, latest,
  active, handler, stop, worker, tracer, bpftrace, lines, pending, queue,
  late,                                             \* Monitor
  compared, reported                                \* Reports

terminal == <<asked, env, termDemo, termSock, termRunning, entries, toServer,
              toClient, command, process, killer, printed, box>>
monitor == <<view, mounted, monSock, fallback, connected, monDemo, feeding, graph,
             latest, active, handler, stop, worker, tracer, bpftrace, lines, pending,
             queue, late>>
reports == <<compared, reported>>
vars == <<part, terminal, pvars, monitor, reports>>

T == INSTANCE Terminal WITH
  demo <- termDemo, sock <- termSock, running <- termRunning, history <- entries,
  timer <- killer
M == INSTANCE Monitor WITH sock <- monSock, demo <- monDemo, history <- graph
R == INSTANCE Reports

ASSUME PartsAssumption ==
  /\ Parts \subseteq {"terminal", "panel", "monitor", "reports"}
  /\ T!ConstantsOK /\ M!ConstantsOK /\ R!ConstantsOK

Init ==
  /\ part \in Parts
  /\ IF part = "terminal" THEN T!Init ELSE T!Absent
  /\ IF part = "monitor" THEN M!MInit ELSE M!MAbsent
  /\ PInit /\ R!RInit
  /\ part # "monitor" => view = CHOOSE v \in Views : TRUE
  /\ part # "panel" => panel = CHOOSE p \in Panels : TRUE

Next ==
  \/ part = "terminal" /\ T!Next /\ UNCHANGED <<part, pvars, monitor, reports>>
  \/ part = "panel" /\ PNext /\ UNCHANGED <<part, terminal, monitor, reports>>
  \/ part = "monitor" /\ M!MNext /\ UNCHANGED <<part, terminal, pvars, reports>>
  \/ part = "reports" /\ R!RNext /\ UNCHANGED <<part, terminal, pvars, monitor>>

Spec == Init /\ [][Next]_vars

\* Nothing that is fair is enabled of a page that is not open.
FairSpec == Spec /\ T!Fairness /\ PFairness /\ M!MFairness

(***************************************************************************)
(* The properties of the pages; those of Panel.tla keep their names.       *)
(***************************************************************************)
\* The declared types of all of them.
TypeOK == T!TypeOK /\ PTypeOK /\ M!MTypeOK

\* See Terminal.tla.
LinesUnderOwnCommand == T!LinesUnderOwnCommand
MarkIsLast == T!MarkIsLast
OnlyKilledLinger == T!OnlyKilledLinger
InputComesBack == T!InputComesBack

\* See Monitor.tla.
OneSource == M!OneSource
OneLateSample == M!OneLateSample
VisitCleansUp == M!VisitCleansUp

\* See Reports.tla.
PagesAgree == R!PagesAgree
=============================================================================
