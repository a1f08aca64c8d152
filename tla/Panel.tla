------------------------------- MODULE Panel -------------------------------
(***************************************************************************)
(* The four panels that run something on the backend and show its stream:  *)
(* PatchRunner, ChaosPanel, ExperimentsPanel and LiveBenchmarkRunner.      *)
(*                                                                         *)
(* A click opens a WebSocket of its own.  When the connection is not there *)
(* in two seconds, or fails, the panel plays a simulated run instead and   *)
(* shows a banner that says so.  Sockets, timers and simulated runs belong *)
(* to the run that created them and are never cancelled by a later one;    *)
(* all of them write to the same screen.                                   *)
(*                                                                         *)
(* What the server sends is any stream the endpoints may produce, see      *)
(* PipelineEvents.tla for those with stages.  The demo's timers tick in    *)
(* any order.                                                              *)
(***************************************************************************)
EXTENDS Naturals, Sequences, FiniteSets, SequencesExt, Simulated

CONSTANTS
  None,
  Panels,        \* the panels to look at
  KeysOf(_),     \* what the buttons of a panel run
  MaxRuns,       \* bound: clicks on a run button
  MaxRows,       \* bound: lines or samples a server sends in a run
  Window,        \* how many of those a panel keeps: 201 lines, 20 samples
  DemoLines,     \* lines of a simulated patch run: 15
  LinesPerStage  \* of which so many go to a stage: 4

ASSUME PanelsAssumption ==
  /\ Panels \subseteq {"patch", "chaos", "experiments", "benchmark"}
  /\ \A p \in Panels : None \notin KeysOf(p) \cup {"only"}
ASSUME PanelBoundAssumption ==
  /\ MaxRuns \in Nat /\ MaxRows \in Nat
  /\ Window \in Nat \ {0} /\ DemoLines \in Nat /\ LinesPerStage \in Nat \ {0}

VARIABLES
  panel,     \* which of the four this is
  text,      \* patch: there is something in the text area
  fetching,  \* patch: the request for the example is on its way
  running,   \* the key of the run the buttons wait for
  demo,      \* demoMode, which decides on the banner
  stages,    \* what the badges show
  rows,      \* the lines or samples shown
  results,   \* the result shown in each place
  error,     \* an error message is shown
  key,       \* what each run was asked for
  sock,      \* the socket of each run
  timer,     \* runs whose two seconds are being counted
  told,      \* how many stage events the server has sent in each run
  live,      \* simulated runs that play
  at,        \* how far they are
  timedOut   \* history: runs whose two seconds passed

text_vars == <<text, fetching>>
shown == <<running, demo, stages, rows, results, error>>
feeds == <<sock, timer, told, live, at>>
pvars == <<panel, text_vars, shown, key, feeds, timedOut>>

Runs == 1 .. MaxRuns
\* A simulated run is known by its run and by the callback that began it.
Demos == Runs \X {"error", "timeout"}
Keys == KeysOf(panel)

Stages ==
  CASE panel = "patch" -> <<"apply", "build", "boot", "compare", "report">>
    [] panel = "benchmark" -> <<"compile", "boot">>
    [] OTHER -> <<>>

\* Injections and experiments have a result per button, the others one.
KeepsResults == panel \in {"chaos", "experiments"}
Place(k) == IF KeepsResults THEN k ELSE "only"
Places == {Place(k) : k \in Keys}
Idle == [i \in DOMAIN Stages |-> "idle"]

PInit ==
  /\ panel \in Panels
  /\ text = FALSE
  /\ fetching = FALSE
  /\ running = None
  /\ demo = FALSE
  /\ stages = Idle
  /\ rows = <<>>
  /\ results = [p \in Places |-> None]
  /\ error = FALSE
  /\ key = <<>>
  /\ sock = [i \in Runs |-> "none"]
  /\ timer = {}
  /\ told = [i \in Runs |-> 0]
  /\ live = {}
  /\ at = [d \in Demos |-> 0]
  /\ timedOut = {}

(***************************************************************************)
(* The patch panel's text.                                                 *)
(***************************************************************************)
EditText ==
  /\ panel = "patch" /\ running = None
  /\ text' \in BOOLEAN
  /\ UNCHANGED <<panel, fetching, shown, key, feeds, timedOut>>

LoadExample ==
  /\ panel = "patch" /\ running = None
  /\ fetching' = TRUE
  /\ UNCHANGED <<panel, text, shown, key, feeds, timedOut>>

\* The answer, or the built-in example, replaces the text at any later time.
ExampleComes ==
  /\ fetching
  /\ fetching' = FALSE
  /\ text' = TRUE
  /\ demo' \in {demo, TRUE}
  /\ UNCHANGED <<panel, running, stages, rows, results, error, key, feeds, timedOut>>

(***************************************************************************)
(* A simulated run.                                                        *)
(***************************************************************************)
\* Ticks of its timer, the last of which brings the result.
Ticks(k) ==
  CASE panel = "patch" -> DemoLines + 1
    [] panel = "chaos" -> SimChaos(k).samples + 1
    [] panel = "experiments" -> 1
    [] panel = "benchmark" -> 2

\* Mutant: the banner is left as it is.
RunSimulatedQuietly(i, cause) ==
  /\ live' = live \cup {<<i, cause>>}
  /\ at' = [at EXCEPT ![<<i, cause>>] = 0]
  /\ demo' = demo

RunSimulated(i, cause) ==
  /\ live' = live \cup {<<i, cause>>}
  /\ at' = [at EXCEPT ![<<i, cause>>] = 0]
  /\ demo' = TRUE

\* The benchmark's simulated run moves its badges before the first tick.
StagesAtFallback(now) ==
  IF panel = "benchmark" THEN <<"running", "idle">> ELSE now

KeptRows(n) == SubSeq(rows, Len(rows) - n + 1, Len(rows))
Windowed(row) ==
  Append(IF Len(rows) < Window THEN rows ELSE KeptRows(Window - 1), row)

\* Mutant: filed under what the panel runs now.
FileUnderRunning(i, simulated) ==
  results' = [results EXCEPT
    ![IF running = None THEN Place(key[i]) ELSE Place(running)] =
      [run |-> i, sim |-> simulated]]

\* A result goes to the place of the run it is of.
File(i, simulated) ==
  results' = [results EXCEPT ![Place(key[i])] = [run |-> i, sim |-> simulated]]

\* Every so many lines the next stage starts and the one before is done.
PatchTick(d) ==
  /\ panel = "patch"
  /\ LET line == at[d]
         s == line \div LinesPerStage
         onStage == line % LinesPerStage = 0 /\ s < Len(Stages) IN
       IF line < DemoLines
         THEN /\ stages' =
                   [j \in DOMAIN stages |->
                      IF onStage /\ j = s + 1 THEN "running"
                      ELSE IF onStage /\ j = s THEN "done" ELSE stages[j]]
              /\ rows' = Append(rows, [run |-> d[1], sim |-> TRUE])
              /\ UNCHANGED <<running, results>>
         ELSE /\ stages' = [j \in DOMAIN stages |-> "done"]
              /\ File(d[1], TRUE)
              /\ running' = None
              /\ UNCHANGED rows

ChaosTick(d) ==
  /\ panel = "chaos"
  /\ IF at[d] < SimChaos(key[d[1]]).samples
       THEN /\ rows' = Windowed([run |-> d[1], sim |-> TRUE])
            /\ UNCHANGED <<running, results>>
       ELSE /\ File(d[1], TRUE)
            /\ running' = None
            /\ UNCHANGED rows
  /\ UNCHANGED stages

ExperimentTick(d) ==
  /\ panel = "experiments"
  /\ File(d[1], TRUE)
  /\ running' = None
  /\ UNCHANGED <<stages, rows>>

BenchmarkTick(d) ==
  /\ panel = "benchmark"
  /\ IF at[d] = 0
       THEN /\ stages' = <<"done", "running">>
            /\ UNCHANGED <<running, results>>
       ELSE /\ stages' = <<"done", "done">>
            /\ File(d[1], TRUE)
            /\ running' = None
  /\ UNCHANGED rows

Tick(d) ==
  /\ d \in live
  /\ PatchTick(d) \/ ChaosTick(d) \/ ExperimentTick(d) \/ BenchmarkTick(d)
  /\ at' = [at EXCEPT ![d] = @ + 1]
  /\ live' = IF at[d] + 1 = Ticks(key[d[1]]) THEN live \ {d} ELSE live
  /\ UNCHANGED <<panel, text_vars, demo, error, key, sock, timer, told, timedOut>>

(***************************************************************************)
(* A run and its socket: "connecting", "open", "closing" when the page has *)
(* closed it before it opened, "closed" when the server did so in good     *)
(* order, and "over".                                                      *)
(***************************************************************************)
\* What a click clears: the patch and the benchmark panel their result, the
\* patch and the chaos panel what they list.
PatchStart ==
  /\ panel = "patch" /\ text
  /\ rows' = <<>> /\ results' = [p \in Places |-> None]

ChaosStart ==
  /\ panel = "chaos"
  /\ rows' = <<>>
  /\ UNCHANGED results

ExperimentStart ==
  /\ panel = "experiments"
  /\ UNCHANGED <<rows, results>>

BenchmarkStart ==
  /\ panel = "benchmark"
  /\ results' = [p \in Places |-> None]
  /\ UNCHANGED rows

\* The button starts a run only when none is running.
Start(k) ==
  /\ Len(key) < MaxRuns
  /\ running = None
  /\ PatchStart \/ ChaosStart \/ ExperimentStart \/ BenchmarkStart
  /\ running' = k
  /\ error' = FALSE
  /\ key' = Append(key, k)
  /\ UNCHANGED <<panel, text_vars, told, timedOut>>

Run(k) ==
  /\ Start(k)
  /\ stages' = Idle
  /\ sock' = [sock EXCEPT ![Len(key) + 1] = "connecting"]
  /\ timer' = timer \cup {Len(key) + 1}
  /\ UNCHANGED <<demo, live, at>>

\* The browser refuses to make the socket at all.
RunThrows(k) ==
  /\ Start(k)
  /\ stages' = StagesAtFallback(Idle)
  /\ RunSimulated(Len(key) + 1, "error")
  /\ UNCHANGED <<sock, timer>>

TimeOut(i) ==
  /\ i \in timer
  /\ timer' = timer \ {i}
  /\ timedOut' = timedOut \cup {i}
  /\ sock' = [sock EXCEPT ![i] = IF @ = "connecting" THEN "closing" ELSE "over"]
  /\ stages' = StagesAtFallback(stages)
  /\ RunSimulated(i, "timeout")
  /\ UNCHANGED <<panel, text_vars, running, rows, results, error, key, told>>

Open(i) ==
  /\ sock[i] = "connecting"
  /\ sock' = [sock EXCEPT ![i] = "open"]
  /\ timer' = timer \ {i}
  /\ demo' = FALSE
  /\ UNCHANGED <<panel, text_vars, running, stages, rows, results, error, key,
                 told, live, at, timedOut>>

\* Mutant: nothing falls back.
ErrorIgnored(i) ==
  /\ sock[i] \in {"connecting", "closing", "open"}
  /\ sock' = [sock EXCEPT ![i] = "over"]
  /\ timer' = timer \ {i}
  /\ UNCHANGED <<panel, text_vars, shown, key, told, live, at, timedOut>>

\* A refused, lost or abandoned connection.
ErrorEvent(i) ==
  /\ sock[i] \in {"connecting", "closing", "open"}
  /\ sock' = [sock EXCEPT ![i] = "over"]
  /\ timer' = timer \ {i}
  /\ stages' = StagesAtFallback(stages)
  /\ RunSimulated(i, "error")
  /\ UNCHANGED <<panel, text_vars, running, rows, results, error, key, told, timedOut>>

\* No panel listens to a close event.
ServerCloses(i) ==
  /\ sock[i] = "open"
  /\ sock' = [sock EXCEPT ![i] = "closed"]
  /\ UNCHANGED <<panel, text_vars, shown, key, timer, told, live, at, timedOut>>

(***************************************************************************)
(* Messages.  An older run's may come in a newer run: they act on the same *)
(* screen.                                                                 *)
(***************************************************************************)
\* The next stage event: a start and a done for each stage in turn.
StageMessage(i, last) ==
  /\ told[i] < last
  /\ told' = [told EXCEPT ![i] = @ + 1]
  /\ stages' = [stages EXCEPT ![told[i] \div 2 + 1] =
                  IF told[i] % 2 = 0 THEN "running" ELSE "done"]
  /\ UNCHANGED <<running, rows, results, error, sock>>

RowMessage(i) ==
  /\ Cardinality({j \in DOMAIN rows : rows[j] = [run |-> i, sim |-> FALSE]}) < MaxRows
  /\ rows' = Windowed([run |-> i, sim |-> FALSE])
  /\ UNCHANGED <<running, stages, results, error, told, sock>>

\* Mutant: the socket is left open.
ResultKeepsSocket(i) ==
  /\ File(i, FALSE)
  /\ running' = None
  /\ UNCHANGED <<stages, rows, error, told, sock>>

\* The page closes the socket of a run that ended, with its result or without.
ResultMessage(i) ==
  /\ File(i, FALSE)
  /\ running' = None
  /\ sock' = [sock EXCEPT ![i] = "over"]
  /\ UNCHANGED <<stages, rows, error, told>>

ErrorMessage(i) ==
  /\ error' = TRUE
  /\ running' = None
  /\ sock' = [sock EXCEPT ![i] = "over"]
  /\ UNCHANGED <<rows, results, told>>

\* A report comes after the start of the last stage; an error may name the
\* stage that runs or that would be next.
PatchMessage(i) ==
  /\ panel = "patch"
  /\ \/ StageMessage(i, 2 * Len(Stages) - 1)
     \/ RowMessage(i)
     \/ told[i] = 2 * Len(Stages) - 1 /\ ResultMessage(i)
     \/ /\ ErrorMessage(i)
        /\ stages' \in {stages, [stages EXCEPT ![told[i] \div 2 + 1] = "error"]}

ChaosMessage(i) ==
  /\ panel = "chaos"
  /\ RowMessage(i) \/ ResultMessage(i) \/ (ErrorMessage(i) /\ UNCHANGED stages)

ExperimentMessage(i) ==
  /\ panel = "experiments"
  /\ ResultMessage(i) \/ (ErrorMessage(i) /\ UNCHANGED stages)

BenchmarkMessage(i) ==
  /\ panel = "benchmark"
  /\ \/ StageMessage(i, 2 * Len(Stages))
     \/ ResultMessage(i)
     \/ ErrorMessage(i) /\ UNCHANGED stages

Message(i) ==
  /\ sock[i] = "open"
  /\ PatchMessage(i) \/ ChaosMessage(i) \/ ExperimentMessage(i) \/ BenchmarkMessage(i)
  /\ UNCHANGED <<panel, text_vars, demo, key, timer, live, at, timedOut>>

PNext ==
  \/ EditText \/ LoadExample \/ ExampleComes
  \/ \E k \in Keys : Run(k) \/ RunThrows(k)
  \/ \E i \in Runs : TimeOut(i) \/ Open(i) \/ ErrorEvent(i) \/ ServerCloses(i) \/ Message(i)
  \/ \E d \in Demos : Tick(d)

PSpec == PInit /\ [][PNext]_pvars

\* The browser's timers fire, and a socket the page has given up fails.
PFairness ==
  /\ \A i \in Runs : WF_pvars(TimeOut(i)) /\ WF_pvars(sock[i] = "closing" /\ ErrorEvent(i))
  /\ \A d \in Demos : WF_pvars(Tick(d))

PFairSpec == PSpec /\ PFairness

(***************************************************************************)
(* What the user sees: the banner, an error, whether the buttons may be    *)
(* pressed, the colours of the badges and the data.                        *)
(***************************************************************************)
Badge(status) ==
  CASE status = "done" -> "green" [] status = "running" -> "amber"
    [] status = "error" -> "red" [] OTHER -> "grey"

Dot(status) ==
  CASE status = "done" -> "green" [] status = "running" -> "amber" [] OTHER -> "grey"

Filed == {results[p] : p \in Places} \ {None}

PatchScreen ==
  [banner |-> demo, error |-> error,
   buttons |-> IF running # None THEN {} ELSE {"load"} \cup (IF text THEN {"only"} ELSE {}),
   badges |-> [i \in DOMAIN stages |-> Badge(stages[i])],
   data |-> ToSet(rows) \cup Filed]

\* Samples are listed in the box of the injection that runs.
ChaosScreen ==
  [banner |-> demo, error |-> error,
   buttons |-> IF running # None THEN {} ELSE Keys,
   badges |-> <<>>,
   data |-> (IF running # None THEN ToSet(rows) ELSE {}) \cup Filed]

ExperimentScreen ==
  [banner |-> demo, error |-> error,
   buttons |-> IF running # None THEN {} ELSE Keys,
   badges |-> <<>>,
   data |-> Filed]

BenchmarkScreen ==
  [banner |-> demo, error |-> error,
   buttons |-> IF running # None THEN {} ELSE Keys,
   badges |-> [i \in DOMAIN stages |-> Dot(stages[i])],
   data |-> Filed]

Screen ==
  CASE panel = "patch" -> PatchScreen
    [] panel = "chaos" -> ChaosScreen
    [] panel = "experiments" -> ExperimentScreen
    [] panel = "benchmark" -> BenchmarkScreen

(***************************************************************************)
(* Properties.                                                             *)
(***************************************************************************)
Sources == [run : Runs, sim : BOOLEAN]

PTypeOK ==
  /\ panel \in Panels
  /\ text \in BOOLEAN /\ fetching \in BOOLEAN
  /\ running \in Keys \cup {None}
  /\ demo \in BOOLEAN
  /\ stages \in [DOMAIN Stages -> {"idle", "running", "done", "error"}]
  /\ rows \in Seq(Sources)
  /\ results \in [Places -> Sources \cup {None}]
  /\ error \in BOOLEAN
  /\ key \in Seq(Keys) /\ Len(key) <= MaxRuns
  /\ sock \in [Runs -> {"none", "connecting", "open", "closing", "closed", "over"}]
  /\ timer \subseteq Runs
  /\ told \in [Runs -> 0 .. 10]
  /\ live \subseteq Demos
  /\ at \in [Demos -> 0 .. DemoLines + 5]
  /\ timedOut \subseteq Runs

Running == running # None
EndedOrSilent == running = None \/ \E i \in Runs : sock[i] \in {"open", "closed"}

\* What can still write to the screen by itself.
Feeds == live \cup {<<i, "socket">> : i \in {j \in Runs : sock[j] \in {"connecting", "open"}}}

\* run and runSimulated of the four panels: until a connection first takes
\* longer than two seconds, one socket or one simulated run feeds the screen,
\* and only while the buttons are disabled.  (A time-out closes the socket,
\* whose error event begins a second simulated run.)
OneFeed ==
  timedOut = {} => /\ \A f, g \in Feeds : f = g
                   /\ Feeds # {} => Screen.buttons = {}

\* A result is shown in the place of the injection or experiment it is of,
\* even when it comes while another runs; the patch and the benchmark panel,
\* which have one place for all, show the latest run's, until a time-out.
OwnResult ==
  \A p \in Places : results[p] # None =>
    IF KeepsResults THEN key[results[p].run] = p
                    ELSE timedOut = {} => results[p].run = Len(key)

\* Until a time-out, simulated data without the banner is only the kept result
\* of an earlier injection or experiment.
SimulatedLabelled ==
  \A d \in Screen.data :
    d.sim /\ ~ Screen.banner => timedOut # {} \/ (KeepsResults /\ d.run < Len(key))

\* ExperimentsPanel.tsx:173-176, under every result: "Only Scheduler Optimization
\* has a genuine before/after", and of the others "one real measurement each";
\* the banner of line 97 marks the results that are not.
SimulatedIsLabelled == \A d \in Screen.data : d.sim => Screen.banner

\* The buttons come back, unless a connection that was made stays silent, or
\* ended in good order without a verdict: no panel listens to that.
RunEnds == Running ~> EndedOrSilent
=============================================================================
