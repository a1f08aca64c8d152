---------------------------- MODULE PanelProofs ----------------------------
(***************************************************************************)
(* Proofs about Panel for any of the four panels, any buttons, any number  *)
(* of runs and lines, whatever the backend answers:                        *)
(*                                                                         *)
(*   - until a connection first takes longer than two seconds, one socket  *)
(*     or simulated run feeds the screen (OneFeedAtATime);                 *)
(*   - a result is shown in its own place (ResultsInPlace);                *)
(*   - until a time-out, simulated data without the banner is only the     *)
(*     kept result of an earlier run (LabelsRight);                        *)
(*   - buttons that are disabled wait for a run that is fed (RunsAreFed);  *)
(*   - the types (PanelTypes).                                             *)
(***************************************************************************)
EXTENDS Panel, SequenceTheorems, TLAPS

USE PanelsAssumption, PanelBoundAssumption

(***************************************************************************)
(* Where the runs are.                                                     *)
(***************************************************************************)
SockStates == {"none", "connecting", "open", "closing", "closed", "over"}

\* A run that was not asked for has no socket and no simulated run; seconds
\* are counted while connecting; a socket that the page gave up has timed out.
RunInv ==
  /\ panel \in Panels
  /\ key \in Seq(Keys) /\ Len(key) <= MaxRuns
  /\ sock \in [Runs -> SockStates]
  /\ live \subseteq Demos
  /\ at \in [Demos -> Nat]
  /\ \A i \in Runs : i > Len(key) => sock[i] = "none"
  /\ \A d \in live : d[1] <= Len(key)
  /\ \A i \in timer : i \in Runs /\ sock[i] = "connecting"
  /\ timedOut \subseteq Runs
  /\ \A i \in Runs : sock[i] = "closing" => i \in timedOut

\* A simulated run that plays has ticks to go.
AtInv == \A d \in live : at[d] < Ticks(key[d[1]])

\* What feeds the screen is of the latest run, which the buttons wait for.
FeedInv ==
  timedOut = {} =>
    /\ \A f, g \in Feeds : f = g
    /\ \A f \in Feeds : f[1] = Len(key)
    /\ Feeds # {} => running # None

FInv == RunInv /\ AtInv /\ FeedInv

\* The four panels' screens agree on what the buttons wait for.
LEMMA ButtonsWait ==
  ASSUME panel \in Panels, running # None PROVE Screen.buttons = {}
BY DEF Screen, PatchScreen, ChaosScreen, ExperimentScreen, BenchmarkScreen

\* Every simulated run has at least one tick.
LEMMA TicksPositive ==
  ASSUME panel \in Panels, NEW k PROVE Ticks(k) \in Nat \ {0}
BY DEF Ticks, SimChaos

LEMMA KeyGrows ==
  ASSUME key \in Seq(Keys), NEW k \in Keys, key' = Append(key, k)
  PROVE  /\ key' \in Seq(Keys) /\ Len(key') = Len(key) + 1
         /\ \A i \in 1 .. Len(key) : key'[i] = key[i]
         /\ key'[Len(key) + 1] = k
         /\ Len(key) \in Nat
OBVIOUS

LEMMA FInit == PInit => FInv
<1> SUFFICES ASSUME PInit PROVE FInv
  OBVIOUS
<1>1. /\ panel \in Panels /\ key = << >> /\ live = {} /\ timer = {} /\ timedOut = {}
      /\ sock = [i \in Runs |-> "none"] /\ at = [d \in Demos |-> 0]
  BY DEF PInit
<1>2. sock \in [Runs -> SockStates] /\ \A i \in Runs : sock[i] = "none"
  BY <1>1 DEF SockStates
<1>3. at \in [Demos -> Nat]
  BY <1>1
<1>4. Feeds = {}
  BY <1>1, <1>2 DEF Feeds
<1>5. key \in Seq(Keys) /\ Len(key) = 0
  BY <1>1
<1>6. RunInv
  BY <1>1, <1>2, <1>3, <1>5 DEF RunInv
<1>7. AtInv /\ FeedInv
  BY <1>1, <1>4 DEF AtInv, FeedInv
<1> QED BY <1>6, <1>7 DEF FInv

(***************************************************************************)
(* A run begins.                                                           *)
(***************************************************************************)
\* While no run is waited for nothing feeds the screen, until a time-out.
LEMMA QuietStart ==
  ASSUME FInv, running = None PROVE timedOut = {} => Feeds = {}
BY DEF FInv, FeedInv

LEMMA StartFacts ==
  ASSUME FInv, NEW k \in Keys, Start(k)
  PROVE  /\ Len(key) + 1 \in Runs /\ Len(key) \in Nat
         /\ running = None /\ running' = k /\ k # None
         /\ panel' = panel /\ timedOut' = timedOut
         /\ key' \in Seq(Keys) /\ Len(key') = Len(key) + 1 /\ Len(key') <= MaxRuns
         /\ \A i \in 1 .. Len(key) : key'[i] = key[i]
         /\ key'[Len(key) + 1] = k
<1>1. /\ key \in Seq(Keys) /\ Len(key) < MaxRuns /\ key' = Append(key, k)
      /\ running = None /\ running' = k /\ panel' = panel /\ timedOut' = timedOut
  BY DEF Start, FInv, RunInv
<1>2. Len(key) \in Nat
  BY <1>1
<1>3. Len(key) + 1 \in Runs
  BY <1>1, <1>2 DEF Runs
<1>4. k # None
  BY DEF Keys, FInv, RunInv
<1>5. /\ key' \in Seq(Keys) /\ Len(key') = Len(key) + 1
      /\ \A i \in 1 .. Len(key) : key'[i] = key[i]
      /\ key'[Len(key) + 1] = k
  BY <1>1, KeyGrows
<1>6. Len(key') <= MaxRuns
  BY <1>1, <1>2, <1>5
<1> QED BY <1>1, <1>2, <1>3, <1>4, <1>5, <1>6

\* The runs that were there keep their ticks when another is asked for.
LEMMA AtKept ==
  ASSUME FInv, panel' = panel, NEW d \in live,
         \A i \in 1 .. Len(key) : key'[i] = key[i]
  PROVE  d[1] \in 1 .. Len(key) /\ Ticks(key[d[1]])' = Ticks(key[d[1]]) /\ at[d] < Ticks(key[d[1]])
<1>1. d \in Demos /\ d[1] <= Len(key) /\ at[d] < Ticks(key[d[1]])
  BY DEF FInv, RunInv, AtInv
<1>2. d[1] \in 1 .. Len(key)
  BY <1>1 DEF Demos, Runs, FInv, RunInv
<1>3. key'[d[1]] = key[d[1]]
  BY <1>2
<1> QED BY <1>1, <1>2, <1>3 DEF Ticks

LEMMA FRun == ASSUME FInv, NEW k \in Keys, Run(k) PROVE FInv'
<1> DEFINE n == Len(key) + 1
<1>1. /\ n \in Runs /\ Len(key) \in Nat
      /\ running = None /\ running' = k /\ k # None
      /\ panel' = panel /\ timedOut' = timedOut
      /\ key' \in Seq(Keys) /\ Len(key') = n /\ Len(key') <= MaxRuns
      /\ \A i \in 1 .. Len(key) : key'[i] = key[i]
  BY StartFacts DEF Run
<1>2. /\ sock' = [sock EXCEPT ![n] = "connecting"]
      /\ timer' = timer \cup {n} /\ live' = live /\ at' = at
  BY DEF Run
<1> HIDE DEF n
<1>3. RunInv'
  <2>1. /\ panel \in Panels /\ sock \in [Runs -> SockStates] /\ live \subseteq Demos
        /\ at \in [Demos -> Nat] /\ \A i \in Runs : i > Len(key) => sock[i] = "none"
        /\ \A d \in live : d[1] <= Len(key)
        /\ \A i \in timer : i \in Runs /\ sock[i] = "connecting"
        /\ timedOut \subseteq Runs
        /\ \A i \in Runs : sock[i] = "closing" => i \in timedOut
    BY DEF FInv, RunInv
  <2>2. sock' \in [Runs -> SockStates] /\ sock'[n] = "connecting"
        /\ \A i \in Runs : i # n => sock'[i] = sock[i]
    BY <2>1, <1>1, <1>2 DEF SockStates
  <2>3. key' \in Seq(Keys)'
    BY <1>1 DEF Keys
  <2>4. \A i \in Runs : i > Len(key') => sock'[i] = "none"
    BY <1>1, <2>1, <2>2 DEF Runs, n
  <2>5. \A d \in live' : d[1] <= Len(key')
    <3>1. \A d \in live : d[1] \in Nat /\ d[1] <= Len(key)
      BY <2>1 DEF Demos, Runs
    <3> QED BY <3>1, <1>1, <1>2 DEF n
  <2>6. \A i \in timer' : i \in Runs /\ sock'[i] = "connecting"
    BY <1>1, <1>2, <2>1, <2>2
  <2>7. \A i \in Runs : sock'[i] = "closing" => i \in timedOut'
    BY <1>1, <2>1, <2>2
  <2> QED BY <1>1, <1>2, <2>1, <2>2, <2>3, <2>4, <2>5, <2>6, <2>7 DEF RunInv
<1>4. AtInv'
  BY <1>1, <1>2, AtKept DEF AtInv
<1>5. FeedInv'
  <2>1. timedOut = {} => Feeds = {}
    BY <1>1, QuietStart
  <2>2. timedOut' = {} => \A f \in Feeds' : f = <<n, "socket">>
    BY <1>1, <1>2, <2>1 DEF Feeds, FInv, RunInv
  <2> QED BY <1>1, <2>2 DEF FeedInv
<1> QED BY <1>3, <1>4, <1>5 DEF FInv

\* A simulated run begins at its first tick, whatever else the step does.
LEMMA SimulatedBegins ==
  ASSUME FInv, NEW i \in Runs, NEW cause \in {"error", "timeout"},
         RunSimulated(i, cause), panel' = panel, i <= Len(key'),
         Len(key) <= Len(key'), Len(key') \in Nat,
         \A j \in 1 .. Len(key) : key'[j] = key[j]
  PROVE  /\ live' = live \cup {<<i, cause>>} /\ live' \subseteq Demos
         /\ \A d \in live' : d[1] <= Len(key')
         /\ at' \in [Demos -> Nat]
         /\ AtInv'
<1> DEFINE e == <<i, cause>>
<1>1. e \in Demos /\ e[1] = i
  BY DEF Demos
<1>2. live' = live \cup {e} /\ at' = [at EXCEPT ![e] = 0]
  BY DEF RunSimulated
<1>3. /\ live \subseteq Demos /\ at \in [Demos -> Nat] /\ panel \in Panels
      /\ \A d \in live : d[1] \in Nat /\ d[1] <= Len(key)
  BY DEF FInv, RunInv, Demos, Runs
<1> HIDE DEF e
<1>4. at' \in [Demos -> Nat] /\ at'[e] = 0 /\ \A d \in Demos : d # e => at'[d] = at[d]
  BY <1>1, <1>2, <1>3
<1>5. live' \subseteq Demos
  BY <1>1, <1>2, <1>3
<1>6. Len(key) \in Nat
  BY DEF FInv, RunInv
<1>7. \A d \in live' : d[1] <= Len(key')
  BY <1>1, <1>2, <1>3, <1>6
<1>8. AtInv'
  <2> SUFFICES ASSUME NEW d \in live' PROVE at'[d] < Ticks(key[d[1]])'
    BY DEF AtInv
  <2>1. CASE d = e
    <3>1. panel' \in Panels
      BY <1>3
    <3>2. Ticks(key[d[1]])' \in Nat \ {0}
      BY <3>1 DEF Ticks, SimChaos
    <3> QED BY <2>1, <1>4, <3>2
  <2>2. CASE d # e
    <3>1. d \in live /\ d \in Demos
      BY <2>2, <1>2, <1>3
    <3>2. Ticks(key[d[1]])' = Ticks(key[d[1]]) /\ at[d] < Ticks(key[d[1]])
      BY <3>1, AtKept
    <3> QED BY <2>2, <1>4, <3>1, <3>2
  <2> QED BY <2>1, <2>2
<1> QED BY <1>2, <1>4, <1>5, <1>7, <1>8 DEF e

LEMMA FRunThrows == ASSUME FInv, NEW k \in Keys, RunThrows(k) PROVE FInv'
<1> DEFINE n == Len(key) + 1
<1>1. /\ n \in Runs /\ Len(key) \in Nat
      /\ running = None /\ running' = k /\ k # None
      /\ panel' = panel /\ timedOut' = timedOut
      /\ key' \in Seq(Keys) /\ Len(key') = n /\ Len(key') <= MaxRuns
      /\ \A i \in 1 .. Len(key) : key'[i] = key[i]
  BY StartFacts DEF RunThrows
<1>2. RunSimulated(n, "error") /\ sock' = sock /\ timer' = timer
  BY DEF RunThrows
<1> HIDE DEF n
<1>3. n <= Len(key') /\ Len(key) <= Len(key') /\ Len(key') \in Nat
  BY <1>1 DEF n
<1>4. /\ live' = live \cup {<<n, "error">>} /\ live' \subseteq Demos
      /\ \A d \in live' : d[1] <= Len(key')
      /\ at' \in [Demos -> Nat]
      /\ AtInv'
  BY <1>1, <1>2, <1>3, SimulatedBegins
<1>5. RunInv'
  <2>1. /\ panel \in Panels /\ sock \in [Runs -> SockStates]
        /\ \A i \in Runs : i > Len(key) => sock[i] = "none"
        /\ \A i \in timer : i \in Runs /\ sock[i] = "connecting"
        /\ timedOut \subseteq Runs
        /\ \A i \in Runs : sock[i] = "closing" => i \in timedOut
    BY DEF FInv, RunInv
  <2>2. key' \in Seq(Keys)'
    BY <1>1 DEF Keys
  <2>3. \A i \in Runs : i > Len(key') => sock'[i] = "none"
    BY <1>1, <1>2, <2>1 DEF Runs, n
  <2> QED BY <1>1, <1>2, <1>4, <2>1, <2>2, <2>3 DEF RunInv
<1>6. FeedInv'
  <2>1. timedOut = {} => Feeds = {}
    BY <1>1, QuietStart
  <2>2. timedOut' = {} => \A f \in Feeds' : f = <<n, "error">>
    BY <1>1, <1>2, <1>4, <2>1 DEF Feeds
  <2> QED BY <1>1, <2>2 DEF FeedInv
<1> QED BY <1>4, <1>5, <1>6 DEF FInv

(***************************************************************************)
(* Its connection.                                                         *)
(***************************************************************************)
\* A run whose socket was ever made was asked for.
LEMMA AskedFor ==
  ASSUME FInv, NEW i \in Runs, sock[i] # "none"
  PROVE  i \in 1 .. Len(key) /\ Len(key) \in Nat
BY DEF FInv, RunInv, Runs

LEMMA FTimeOut == ASSUME FInv, NEW i \in Runs, TimeOut(i) PROVE FInv'
<1>1. /\ sock[i] = "connecting" /\ timer' = timer \ {i} /\ timedOut' = timedOut \cup {i}
      /\ sock' = [sock EXCEPT ![i] = "closing"]
      /\ RunSimulated(i, "timeout") /\ panel' = panel /\ key' = key
  BY DEF TimeOut, FInv, RunInv
<1>2. i \in 1 .. Len(key) /\ Len(key) \in Nat
  BY <1>1, AskedFor
<1>3. /\ live' \subseteq Demos /\ \A d \in live' : d[1] <= Len(key')
      /\ at' \in [Demos -> Nat] /\ AtInv'
  BY <1>1, <1>2, SimulatedBegins
<1>4. RunInv'
  <2>1. /\ panel \in Panels /\ key \in Seq(Keys) /\ Len(key) <= MaxRuns
        /\ sock \in [Runs -> SockStates]
        /\ \A j \in Runs : j > Len(key) => sock[j] = "none"
        /\ \A j \in timer : j \in Runs /\ sock[j] = "connecting"
        /\ timedOut \subseteq Runs
        /\ \A j \in Runs : sock[j] = "closing" => j \in timedOut
    BY DEF FInv, RunInv
  <2>2. sock' \in [Runs -> SockStates] /\ sock'[i] = "closing"
        /\ \A j \in Runs : j # i => sock'[j] = sock[j]
    BY <1>1, <2>1 DEF SockStates
  <2>3. key' \in Seq(Keys)' /\ Len(key') <= MaxRuns
    BY <1>1, <2>1 DEF Keys
  <2>4. \A j \in Runs : j > Len(key') => sock'[j] = "none"
    BY <1>1, <1>2, <2>1, <2>2
  <2>5. \A j \in timer' : j \in Runs /\ sock'[j] = "connecting"
    BY <1>1, <2>1, <2>2
  <2>6. timedOut' \subseteq Runs /\ \A j \in Runs : sock'[j] = "closing" => j \in timedOut'
    BY <1>1, <2>1, <2>2
  <2> QED BY <1>1, <1>3, <2>1, <2>2, <2>3, <2>4, <2>5, <2>6 DEF RunInv
<1>5. FeedInv'
  BY <1>1 DEF FeedInv
<1> QED BY <1>3, <1>4, <1>5 DEF FInv

\* A step that only moves sockets on, and makes no feed.
LEMMA SocketStep ==
  ASSUME FInv, NEW i \in Runs, sock[i] \notin {"none", "closing"},
         NEW s \in {"open", "closed", "over"}, sock' = [sock EXCEPT ![i] = s],
         timer' \subseteq timer \ {i}, UNCHANGED <<panel, key, live, at, timedOut>>
  PROVE  RunInv' /\ AtInv'
<1>1. /\ panel \in Panels /\ key \in Seq(Keys) /\ Len(key) <= MaxRuns
      /\ sock \in [Runs -> SockStates]
      /\ live \subseteq Demos /\ at \in [Demos -> Nat]
      /\ \A d \in live : d[1] <= Len(key)
      /\ \A j \in Runs : j > Len(key) => sock[j] = "none"
      /\ \A j \in timer : j \in Runs /\ sock[j] = "connecting"
      /\ timedOut \subseteq Runs
      /\ \A j \in Runs : sock[j] = "closing" => j \in timedOut
  BY DEF FInv, RunInv
<1>2. sock' \in [Runs -> SockStates] /\ sock'[i] = s
      /\ \A j \in Runs : j # i => sock'[j] = sock[j]
  BY <1>1 DEF SockStates
<1>3. key' \in Seq(Keys)' /\ Len(key') <= MaxRuns
  BY <1>1 DEF Keys
<1>4. i \in 1 .. Len(key) /\ Len(key) \in Nat
  BY AskedFor
<1>5. \A j \in Runs : j > Len(key') => sock'[j] = "none"
  BY <1>1, <1>2, <1>4
<1>6. \A j \in timer' : j \in Runs /\ sock'[j] = "connecting"
  BY <1>1, <1>2
<1>7. \A j \in Runs : sock'[j] = "closing" => j \in timedOut'
  BY <1>1, <1>2
<1>8. RunInv'
  BY <1>1, <1>2, <1>3, <1>5, <1>6, <1>7 DEF RunInv
<1>9. AtInv'
  BY DEF FInv, AtInv, Ticks
<1> QED BY <1>8, <1>9

LEMMA FOpen == ASSUME FInv, NEW i \in Runs, Open(i) PROVE FInv'
<1>1. /\ sock[i] = "connecting" /\ sock' = [sock EXCEPT ![i] = "open"]
      /\ timer' = timer \ {i} /\ running' = running
      /\ UNCHANGED <<panel, key, live, at, timedOut>>
  BY DEF Open
<1>2. RunInv' /\ AtInv'
  BY <1>1, SocketStep
<1>3. Feeds' = Feeds
  BY <1>1 DEF Feeds, FInv, RunInv
<1>4. FeedInv'
  BY <1>1, <1>3 DEF FInv, FeedInv
<1> QED BY <1>2, <1>4 DEF FInv

LEMMA FServerCloses == ASSUME FInv, NEW i \in Runs, ServerCloses(i) PROVE FInv'
<1>1. /\ sock[i] = "open" /\ sock' = [sock EXCEPT ![i] = "closed"]
      /\ running' = running /\ timer' = timer
      /\ UNCHANGED <<panel, key, live, at, timedOut>>
  BY DEF ServerCloses, shown
<1>2. timer' \subseteq timer \ {i}
  BY <1>1 DEF FInv, RunInv
<1>3. RunInv' /\ AtInv'
  BY <1>1, <1>2, SocketStep
<1>4. Feeds' \subseteq Feeds
  BY <1>1 DEF Feeds, FInv, RunInv
<1>5. FeedInv'
  BY <1>1, <1>4 DEF FInv, FeedInv
<1> QED BY <1>3, <1>5 DEF FInv

LEMMA FErrorEvent == ASSUME FInv, NEW i \in Runs, ErrorEvent(i) PROVE FInv'
<1>1. /\ sock[i] \in {"connecting", "closing", "open"}
      /\ sock' = [sock EXCEPT ![i] = "over"] /\ timer' = timer \ {i}
      /\ RunSimulated(i, "error") /\ running' = running
      /\ UNCHANGED <<panel, key, timedOut>>
  BY DEF ErrorEvent
<1>2. i \in 1 .. Len(key) /\ Len(key) \in Nat
  BY <1>1, AskedFor
<1>3. /\ live' = live \cup {<<i, "error">>} /\ live' \subseteq Demos
      /\ \A d \in live' : d[1] <= Len(key')
      /\ at' \in [Demos -> Nat] /\ AtInv'
  BY <1>1, <1>2, SimulatedBegins
<1>4. /\ panel \in Panels /\ key \in Seq(Keys) /\ Len(key) <= MaxRuns
      /\ sock \in [Runs -> SockStates]
      /\ \A j \in Runs : j > Len(key) => sock[j] = "none"
      /\ \A j \in timer : j \in Runs /\ sock[j] = "connecting"
      /\ timedOut \subseteq Runs
      /\ \A j \in Runs : sock[j] = "closing" => j \in timedOut
  BY DEF FInv, RunInv
<1>5. sock' \in [Runs -> SockStates] /\ sock'[i] = "over"
      /\ \A j \in Runs : j # i => sock'[j] = sock[j]
  BY <1>1, <1>4 DEF SockStates
<1>6. RunInv'
  <2>1. key' \in Seq(Keys)' /\ Len(key') <= MaxRuns
    BY <1>1, <1>4 DEF Keys
  <2>2. \A j \in Runs : j > Len(key') => sock'[j] = "none"
    BY <1>1, <1>2, <1>4, <1>5
  <2>3. \A j \in timer' : j \in Runs /\ sock'[j] = "connecting"
    BY <1>1, <1>4, <1>5
  <2>4. \A j \in Runs : sock'[j] = "closing" => j \in timedOut'
    BY <1>1, <1>4, <1>5
  <2> QED BY <1>1, <1>3, <1>4, <1>5, <2>1, <2>2, <2>3, <2>4 DEF RunInv
<1>7. FeedInv'
  <2> SUFFICES ASSUME timedOut = {}
               PROVE  /\ \A f \in Feeds' : f = <<i, "error">>
                      /\ i = Len(key) /\ running # None
    BY <1>1 DEF FeedInv
  <2>1. <<i, "socket">> \in Feeds
    BY <1>1, <1>4 DEF Feeds
  <2>2. /\ \A f \in Feeds : f = <<i, "socket">>
        /\ i = Len(key) /\ running # None
    BY <2>1 DEF FInv, FeedInv
  <2>3. \A f \in Feeds' : f \in Feeds \/ f = <<i, "error">>
    BY <1>3, <1>5 DEF Feeds
  <2>4. <<i, "socket">> \notin Feeds'
    BY <1>3, <1>5 DEF Feeds, Demos
  <2> QED BY <2>2, <2>3, <2>4
<1> QED BY <1>3, <1>6, <1>7 DEF FInv

(***************************************************************************)
(* Its messages and its ticks.                                             *)
(***************************************************************************)
\* A message leaves the socket and what the buttons wait for alone, or, when
\* it is the last one, ends both.
LEMMA MessageFacts ==
  ASSUME NEW i \in Runs, Message(i)
  PROVE  /\ sock[i] = "open" /\ UNCHANGED <<panel, demo, key, timer, live, at, timedOut>>
         /\ \/ sock' = sock /\ running' = running
            \/ sock' = [sock EXCEPT ![i] = "over"] /\ running' = None
BY DEF Message, PatchMessage, ChaosMessage, ExperimentMessage, BenchmarkMessage,
       StageMessage, RowMessage, ResultMessage, ErrorMessage

LEMMA FMessage == ASSUME FInv, NEW i \in Runs, Message(i) PROVE FInv'
<1>1. /\ sock[i] = "open" /\ UNCHANGED <<panel, key, timer, live, at, timedOut>>
      /\ \/ sock' = sock /\ running' = running
         \/ sock' = [sock EXCEPT ![i] = "over"] /\ running' = None
  BY MessageFacts
<1>2. CASE sock' = sock /\ running' = running
  <2>1. RunInv' /\ AtInv'
    BY <1>1, <1>2 DEF FInv, RunInv, AtInv, Ticks, Keys
  <2>2. FeedInv'
    BY <1>1, <1>2 DEF FInv, FeedInv, Feeds
  <2> QED BY <2>1, <2>2 DEF FInv
<1>3. CASE sock' = [sock EXCEPT ![i] = "over"] /\ running' = None
  <2>1. timer' \subseteq timer \ {i}
    BY <1>1 DEF FInv, RunInv
  <2>2. RunInv' /\ AtInv'
    BY <1>1, <1>3, <2>1, SocketStep
  <2>3. sock \in [Runs -> SockStates]
    BY DEF FInv, RunInv
  <2>4. FeedInv'
    <3> SUFFICES ASSUME timedOut = {} PROVE Feeds' = {}
      BY <1>1 DEF FeedInv
    <3>1. <<i, "socket">> \in Feeds
      BY <1>1 DEF Feeds
    <3>2. \A f \in Feeds : f = <<i, "socket">>
      BY <3>1 DEF FInv, FeedInv
    <3>3. Feeds' \subseteq Feeds /\ <<i, "socket">> \notin Feeds'
      <4>1. live' = live /\ <<i, "socket">> \notin live
        BY <1>1 DEF FInv, RunInv, Demos
      <4> QED BY <1>3, <2>3, <4>1 DEF Feeds
    <3> QED BY <3>2, <3>3
  <2> QED BY <2>2, <2>4 DEF FInv
<1> QED BY <1>1, <1>2, <1>3

\* The tick that brings the result is a simulated run's last.
LEMMA LastTick ==
  ASSUME FInv, NEW d \in Demos, Tick(d)
  PROVE  IF at[d] + 1 = Ticks(key[d[1]]) THEN running' = None ELSE running' = running
<1>1. /\ d \in live /\ at[d] \in Nat /\ at[d] < Ticks(key[d[1]])
  BY DEF Tick, FInv, RunInv, AtInv
<1>2. CASE PatchTick(d)
  <2>1. Ticks(key[d[1]]) = DemoLines + 1
    BY <1>2 DEF PatchTick, Ticks
  <2>2. IF at[d] < DemoLines THEN running' = running ELSE running' = None
    BY <1>2 DEF PatchTick
  <2> QED BY <1>1, <2>1, <2>2
<1>3. CASE ChaosTick(d)
  <2> DEFINE n == SimChaos(key[d[1]]).samples
  <2>1. panel = "chaos" /\ n \in Nat
    BY <1>3 DEF ChaosTick, SimChaos
  <2>2. Ticks(key[d[1]]) = n + 1
    BY <2>1 DEF Ticks
  <2>3. IF at[d] < n THEN running' = running ELSE running' = None
    BY <1>3 DEF ChaosTick
  <2> HIDE DEF n
  <2> QED BY <1>1, <2>1, <2>2, <2>3
<1>4. CASE ExperimentTick(d)
  <2>1. Ticks(key[d[1]]) = 1
    BY <1>4 DEF ExperimentTick, Ticks
  <2>2. running' = None
    BY <1>4 DEF ExperimentTick
  <2> QED BY <1>1, <2>1, <2>2
<1>5. CASE BenchmarkTick(d)
  <2>1. Ticks(key[d[1]]) = 2
    BY <1>5 DEF BenchmarkTick, Ticks
  <2>2. IF at[d] = 0 THEN running' = running ELSE running' = None
    BY <1>5 DEF BenchmarkTick
  <2> QED BY <1>1, <2>1, <2>2
<1> QED BY <1>2, <1>3, <1>4, <1>5 DEF Tick

LEMMA FTick == ASSUME FInv, NEW d \in Demos, Tick(d) PROVE FInv'
<1>1. /\ d \in live /\ at' = [at EXCEPT ![d] = @ + 1]
      /\ live' = IF at[d] + 1 = Ticks(key[d[1]]) THEN live \ {d} ELSE live
      /\ UNCHANGED <<panel, key, sock, timer, timedOut>>
  BY DEF Tick
<1>2. /\ live \subseteq Demos /\ at \in [Demos -> Nat] /\ panel \in Panels
      /\ \A e \in live : at[e] < Ticks(key[e[1]])
  BY DEF FInv, RunInv, AtInv
<1>3. at' \in [Demos -> Nat] /\ at'[d] = at[d] + 1 /\ \A e \in Demos : e # d => at'[e] = at[e]
  BY <1>1, <1>2
<1>4. RunInv'
  <2>1. live' \subseteq live
    BY <1>1
  <2> QED BY <1>1, <1>2, <1>3, <2>1 DEF FInv, RunInv, Keys
<1>5. AtInv'
  <2> SUFFICES ASSUME NEW e \in live' PROVE at'[e] < Ticks(key[e[1]])'
    BY DEF AtInv
  <2>1. Ticks(key[e[1]])' = Ticks(key[e[1]])
    BY <1>1 DEF Ticks
  <2>2. Ticks(key[e[1]]) \in Nat
    BY <1>2, TicksPositive
  <2>3. e \in live /\ e \in Demos
    BY <1>1, <1>2
  <2>4. CASE e = d
    <3>1. at[d] + 1 # Ticks(key[d[1]])
      BY <1>1, <2>4
    <3>2. at[d] \in Nat /\ at[d] < Ticks(key[d[1]])
      BY <1>1, <1>2, <2>3, <2>4
    <3>3. at[d] + 1 < Ticks(key[d[1]])
      BY <2>2, <2>4, <3>1, <3>2
    <3> QED BY <1>3, <2>1, <2>4, <3>3
  <2>5. CASE e # d
    BY <1>2, <1>3, <2>1, <2>3, <2>5
  <2> QED BY <2>4, <2>5
<1>6. FeedInv'
  <2> SUFFICES ASSUME timedOut = {}
               PROVE  /\ Feeds' \subseteq Feeds
                      /\ Feeds' # {} => running' # None
    BY <1>1 DEF FInv, FeedInv
  <2>1. Feeds' \subseteq Feeds
    BY <1>1 DEF Feeds
  <2>2. d \in Feeds
    BY <1>1 DEF Feeds
  <2>3. (\A f \in Feeds : f = d) /\ running # None
    BY <2>2 DEF FInv, FeedInv
  <2>4. CASE at[d] + 1 = Ticks(key[d[1]])
    <3>1. d \notin Feeds'
      <4>1. d \notin live'
        BY <1>1, <2>4
      <4>2. \A j \in Runs : d # <<j, "socket">>
        BY DEF Demos
      <4> QED BY <4>1, <4>2 DEF Feeds
    <3> QED BY <2>1, <2>3, <3>1
  <2>5. CASE at[d] + 1 # Ticks(key[d[1]])
    BY <2>1, <2>3, <2>5, LastTick
  <2> QED BY <2>4, <2>5
<1> QED BY <1>4, <1>5, <1>6 DEF FInv

\* The text area, and the steps of everything else.
LEMMA FQuiet ==
  ASSUME FInv, UNCHANGED <<panel, running, key, feeds, timedOut>>
  PROVE  FInv'
<1>1. UNCHANGED <<panel, running, key, sock, timer, live, at, timedOut>>
  BY DEF feeds
<1>2. RunInv' /\ AtInv'
  BY <1>1 DEF FInv, RunInv, AtInv, Ticks, Keys
<1>3. FeedInv'
  BY <1>1 DEF FInv, FeedInv, Feeds
<1> QED BY <1>2, <1>3 DEF FInv

LEMMA FStep == ASSUME FInv, [PNext]_pvars PROVE FInv'
<1>1. CASE EditText \/ LoadExample \/ ExampleComes \/ UNCHANGED pvars
  BY <1>1, FQuiet DEF EditText, LoadExample, ExampleComes, pvars, shown
<1>2. CASE \E k \in Keys : Run(k) \/ RunThrows(k)
  BY <1>2, FRun, FRunThrows
<1>3. CASE \E i \in Runs : TimeOut(i) \/ Open(i) \/ ErrorEvent(i) \/ ServerCloses(i) \/ Message(i)
  BY <1>3, FTimeOut, FOpen, FErrorEvent, FServerCloses, FMessage
<1>4. CASE \E d \in Demos : Tick(d)
  BY <1>4, FTick
<1> QED BY <1>1, <1>2, <1>3, <1>4 DEF PNext

\* run and runSimulated of the four panels: until a first time-out one socket
\* or simulated run feeds the screen, and only while the buttons are disabled.
THEOREM OneFeedAtATime == PSpec => []OneFeed
<1>1. FInv => OneFeed
  BY ButtonsWait DEF FInv, FeedInv, RunInv, OneFeed
<1> QED BY <1>1, FInit, FStep, PTL DEF PSpec

(***************************************************************************)
(* Results and where they are shown.                                       *)
(***************************************************************************)
\* A result is of a run there was: of the run its place is for or, where all
\* share a place, of the latest, until a time-out.
ResInv ==
  /\ results \in [Places -> Sources \cup {None}]
  /\ \A p \in Places : results[p] # None =>
       /\ results[p].run <= Len(key)
       /\ KeepsResults => key[results[p].run] = p
       /\ ~ KeepsResults /\ timedOut = {} => results[p].run = Len(key)

RInv == FInv /\ ResInv

\* What feeds the screen was asked for, and until a time-out it was the last.
LEMMA FeedRun ==
  ASSUME FInv, NEW f \in Feeds
  PROVE  /\ f[1] \in Runs /\ f[1] \in 1 .. Len(key)
         /\ timedOut = {} => f[1] = Len(key)
<1>1. CASE f \in live
  BY <1>1 DEF FInv, RunInv, FeedInv, Demos, Runs
<1>2. CASE f \notin live
  <2>1. PICK i \in Runs : f = <<i, "socket">> /\ sock[i] \in {"connecting", "open"}
    BY <1>2 DEF Feeds
  <2>2. i \in 1 .. Len(key)
    BY <2>1, AskedFor
  <2> QED BY <2>1, <2>2 DEF FInv, FeedInv
<1> QED BY <1>1, <1>2

LEMMA FileKeeps ==
  ASSUME RInv, NEW i \in Runs, i \in 1 .. Len(key), NEW b \in BOOLEAN, File(i, b),
         timedOut = {} => i = Len(key), UNCHANGED <<panel, key, timedOut>>
  PROVE  ResInv'
<1> DEFINE q == Place(key[i])
           r == [run |-> i, sim |-> b]
<1>1. key \in Seq(Keys) /\ Len(key) \in Nat /\ key[i] \in Keys
  BY DEF RInv, FInv, RunInv
<1>2. q \in Places /\ (KeepsResults => key[i] = q)
  BY <1>1 DEF Places, Place
<1>3. r \in Sources /\ r.run = i
  BY DEF Sources
<1>4. results' = [results EXCEPT ![q] = r]
  BY DEF File
<1> HIDE DEF q, r
<1>5. /\ results' \in [Places -> Sources \cup {None}] /\ results'[q] = r
      /\ \A p \in Places : p # q => results'[p] = results[p]
  BY <1>2, <1>3, <1>4 DEF RInv, ResInv
<1>6. Places' = Places /\ KeepsResults' = KeepsResults
  BY DEF Places, Place, Keys, KeepsResults
<1> QED BY <1>1, <1>2, <1>3, <1>5, <1>6 DEF RInv, ResInv

\* A step that files nothing and begins no run.
LEMMA NothingFiled ==
  ASSUME RInv, UNCHANGED <<panel, key, results>>, timedOut \subseteq timedOut'
  PROVE  ResInv'
<1>1. Places' = Places /\ KeepsResults' = KeepsResults
  BY DEF Places, Place, Keys, KeepsResults
<1>2. timedOut' = {} => timedOut = {}
  OBVIOUS
<1> QED BY <1>1, <1>2 DEF RInv, ResInv

\* Where a click keeps the results, each button has its own.
LEMMA RStart == ASSUME RInv, NEW k \in Keys, Start(k) PROVE ResInv'
<1>1. /\ panel' = panel /\ Len(key) \in Nat /\ Len(key') = Len(key) + 1
      /\ \A i \in 1 .. Len(key) : key'[i] = key[i]
  BY StartFacts DEF RInv
<1>2. Places' = Places /\ KeepsResults' = KeepsResults
  BY <1>1 DEF Places, Place, Keys, KeepsResults
<1>3. CASE results' = [p \in Places |-> None]
  BY <1>2, <1>3 DEF ResInv
<1>4. CASE KeepsResults /\ results' = results
  <2>1. /\ results \in [Places -> Sources \cup {None}]
        /\ \A p \in Places : results[p] # None =>
             results[p].run \in 1 .. Len(key) /\ key[results[p].run] = p
    BY <1>1, <1>4 DEF RInv, ResInv, Sources, Runs
  <2>2. \A p \in Places : results'[p] # None =>
          results'[p].run <= Len(key') /\ key'[results'[p].run] = p
    BY <1>1, <1>4, <2>1
  <2> QED BY <1>2, <1>4, <2>1, <2>2 DEF ResInv
<1> QED BY <1>3, <1>4
     DEF Start, PatchStart, ChaosStart, ExperimentStart, BenchmarkStart, KeepsResults

LEMMA RMessage == ASSUME RInv, NEW i \in Runs, Message(i) PROVE ResInv'
<1>1. sock[i] = "open" /\ UNCHANGED <<panel, key, timedOut>>
  BY DEF Message
<1>2. <<i, "socket">> \in Feeds
  BY <1>1 DEF Feeds
<1>3. i \in 1 .. Len(key) /\ (timedOut = {} => i = Len(key))
  BY <1>2, FeedRun DEF RInv
<1>4. results' = results \/ File(i, FALSE)
  BY DEF Message, PatchMessage, ChaosMessage, ExperimentMessage, BenchmarkMessage,
         StageMessage, RowMessage, ResultMessage, ErrorMessage
<1> QED BY <1>1, <1>3, <1>4, FileKeeps, NothingFiled

LEMMA RTick == ASSUME RInv, NEW d \in Demos, Tick(d) PROVE ResInv'
<1>1. d \in live /\ UNCHANGED <<panel, key, timedOut>>
  BY DEF Tick
<1>2. d \in Feeds
  BY <1>1 DEF Feeds
<1>3. d[1] \in Runs /\ d[1] \in 1 .. Len(key) /\ (timedOut = {} => d[1] = Len(key))
  BY <1>2, FeedRun DEF RInv
<1>4. results' = results \/ File(d[1], TRUE)
  BY DEF Tick, PatchTick, ChaosTick, ExperimentTick, BenchmarkTick
<1> QED BY <1>1, <1>3, <1>4, FileKeeps, NothingFiled

LEMMA RStep == ASSUME RInv, [PNext]_pvars PROVE RInv'
<1>1. FInv'
  BY FStep DEF RInv
<1>2. CASE EditText \/ LoadExample \/ ExampleComes \/ UNCHANGED pvars
  <2>1. UNCHANGED <<panel, key, results, timedOut>>
    BY <1>2 DEF EditText, LoadExample, ExampleComes, pvars, shown
  <2> QED BY <1>1, <2>1, NothingFiled DEF RInv
<1>3. CASE \E k \in Keys : Run(k) \/ RunThrows(k)
  BY <1>1, <1>3, RStart DEF RInv, Run, RunThrows
<1>4. CASE \E i \in Runs : TimeOut(i) \/ Open(i) \/ ErrorEvent(i) \/ ServerCloses(i)
  <2>1. UNCHANGED <<panel, key, results>> /\ timedOut \subseteq timedOut'
    BY <1>4 DEF TimeOut, Open, ErrorEvent, ServerCloses, shown
  <2> QED BY <1>1, <2>1, NothingFiled DEF RInv
<1>5. CASE \E i \in Runs : Message(i)
  BY <1>1, <1>5, RMessage DEF RInv
<1>6. CASE \E d \in Demos : Tick(d)
  BY <1>1, <1>6, RTick DEF RInv
<1> QED BY <1>2, <1>3, <1>4, <1>5, <1>6 DEF PNext

LEMMA RInit == PInit => RInv
<1> SUFFICES ASSUME PInit PROVE RInv
  OBVIOUS
<1>1. results = [p \in Places |-> None]
  BY DEF PInit
<1> QED BY <1>1, FInit DEF RInv, ResInv

\* setResults of ChaosPanel and ExperimentsPanel, setReport of PatchRunner and
\* setData of LiveBenchmarkRunner: a result is shown in its own place, even
\* when it comes while something else runs.
THEOREM ResultsInPlace == PSpec => []OwnResult
<1>1. RInv => OwnResult
  BY DEF RInv, ResInv, OwnResult
<1> QED BY <1>1, RInit, RStep, PTL DEF PSpec

(***************************************************************************)
(* The banner.                                                             *)
(***************************************************************************)
\* Data that needs no banner: the server's, and the kept result of an earlier
\* injection or experiment.
Unlabelled == {d \in Sources : d.sim => KeepsResults /\ d.run < Len(key)}

Fits ==
  /\ panel \in {"patch", "chaos"} => rows \in Seq(Unlabelled)
  /\ \A p \in Places : results[p] \in Unlabelled \cup {None}

\* What is shown fits whenever the banner is down, and while a socket, whose
\* opening takes the banner down, is waited for.
SimInv ==
  timedOut = {} =>
    /\ live # {} => demo = TRUE
    /\ demo = TRUE \/ Fits
    /\ \A i \in Runs : sock[i] = "connecting" => Fits

LInv == RInv /\ demo \in BOOLEAN /\ SimInv

LEMMA WindowedIn ==
  ASSUME NEW S, rows \in Seq(S), NEW row \in S PROVE Windowed(row) \in Seq(S)
<1>1. Len(rows) \in Nat /\ Window \in Nat \ {0}
  BY PanelBoundAssumption
<1>2. CASE Len(rows) < Window
  BY <1>2 DEF Windowed
<1>3. CASE ~ Len(rows) < Window
  <2> DEFINE m == Len(rows) - (Window - 1) + 1
  <2>1. m \in Int /\ Len(rows) \in Int /\ 1 <= m
    BY <1>1, <1>3
  <2>2. \A j \in m .. Len(rows) : rows[j] \in S
    BY <2>1
  <2> HIDE DEF m
  <2>3. SubSeq(rows, m, Len(rows)) \in Seq(S)
    BY <2>1, <2>2, SubSeqProperties
  <2>4. KeptRows(Window - 1) \in Seq(S)
    BY <2>3 DEF KeptRows, m
  <2> QED BY <1>3, <2>4 DEF Windowed
<1> QED BY <1>2, <1>3

\* A step that shows nothing new.
LEMMA StillFits ==
  ASSUME Fits, UNCHANGED <<panel, rows, results, key>> PROVE Fits'
<1>1. Unlabelled' = Unlabelled /\ Places' = Places
  BY DEF Unlabelled, KeepsResults, Places, Place, Keys, Sources, Runs
<1> QED BY <1>1 DEF Fits

\* A click leaves nothing on the screen that needs a banner.
LEMMA StartFits == ASSUME RInv, NEW k \in Keys, Start(k) PROVE Fits'
<1>1. /\ panel' = panel /\ Len(key) \in Nat /\ Len(key') = Len(key) + 1
  BY StartFacts DEF RInv
<1>2. Places' = Places /\ KeepsResults' = KeepsResults
  BY <1>1 DEF Places, Place, Keys, KeepsResults
<1>3. panel \in {"patch", "chaos"} => rows' = << >>
  BY DEF Start, PatchStart, ChaosStart, ExperimentStart, BenchmarkStart
<1>4. \A p \in Places : results'[p] \in Unlabelled' \cup {None}
  <2>1. CASE results' = [p \in Places |-> None]
    BY <2>1
  <2>2. CASE KeepsResults /\ results' = results
    <3> SUFFICES ASSUME NEW p \in Places, results[p] # None
                 PROVE results[p] \in Unlabelled'
      BY <2>2
    <3>1. results[p] \in Sources /\ results[p].run <= Len(key)
      BY DEF RInv, ResInv
    <3>2. results[p].run \in Nat
      BY <3>1 DEF Sources, Runs
    <3>3. results[p].run < Len(key')
      BY <1>1, <3>1, <3>2
    <3>4. Sources' = Sources
      BY DEF Sources
    <3> QED BY <1>2, <2>2, <3>1, <3>3, <3>4 DEF Unlabelled
  <2> QED BY <2>1, <2>2
       DEF Start, PatchStart, ChaosStart, ExperimentStart, BenchmarkStart, KeepsResults
<1>5. << >> \in Seq(Unlabelled')
  OBVIOUS
<1>6. panel' \in {"patch", "chaos"} => rows' \in Seq(Unlabelled')
  BY <1>1, <1>3, <1>5
<1>7. \A p \in Places' : results'[p] \in Unlabelled' \cup {None}
  BY <1>2, <1>4
<1> QED BY <1>6, <1>7 DEF Fits

LEMMA LStart == ASSUME LInv, NEW k \in Keys, Run(k) \/ RunThrows(k) PROVE LInv'
<1>1. RInv'
  BY RStep DEF LInv, PNext
<1>2. Fits'
  BY StartFits DEF LInv, Run, RunThrows
<1>3. timedOut' = timedOut
  BY DEF Run, RunThrows, Start
<1>4. CASE Run(k)
  <2>1. demo' = demo /\ live' = live
    BY <1>4 DEF Run
  <2> QED BY <1>1, <1>2, <1>3, <2>1 DEF LInv, SimInv
<1>5. CASE RunThrows(k)
  <2>1. demo' = TRUE
    BY <1>5 DEF RunThrows, RunSimulated
  <2> QED BY <1>1, <1>2, <1>3, <2>1 DEF LInv, SimInv
<1> QED BY <1>4, <1>5

\* While a socket is connecting no simulated run plays, until a time-out.
LEMMA ConnectingAlone ==
  ASSUME FInv, timedOut = {}, NEW i \in Runs, sock[i] = "connecting" PROVE live = {}
<1>1. <<i, "socket">> \in Feeds
  BY DEF Feeds
<1>2. \A f \in live : f = <<i, "socket">>
  BY <1>1 DEF FInv, FeedInv, Feeds
<1> QED BY <1>2 DEF FInv, RunInv, Demos

LEMMA LOpen == ASSUME LInv, NEW i \in Runs, Open(i) PROVE LInv'
<1>1. RInv'
  BY RStep DEF LInv, PNext
<1>2. /\ sock[i] = "connecting" /\ sock' = [sock EXCEPT ![i] = "open"]
      /\ demo' = FALSE
      /\ UNCHANGED <<panel, rows, results, key, live, timedOut>>
  BY DEF Open
<1>3. ASSUME timedOut = {} PROVE live' = {} /\ Fits'
  BY <1>2, <1>3, ConnectingAlone, StillFits DEF LInv, RInv, SimInv
<1> QED BY <1>1, <1>2, <1>3 DEF LInv, SimInv

\* A fall-back raises the banner.
LEMMA LErrorEvent == ASSUME LInv, NEW i \in Runs, ErrorEvent(i) PROVE LInv'
<1>1. RInv'
  BY RStep DEF LInv, PNext
<1>2. /\ sock' = [sock EXCEPT ![i] = "over"] /\ demo' = TRUE
      /\ UNCHANGED <<panel, rows, results, key, timedOut>>
  BY DEF ErrorEvent, RunSimulated
<1>3. \A j \in Runs : sock'[j] = "connecting" => sock[j] = "connecting"
  BY <1>2 DEF LInv, RInv, FInv, RunInv
<1>4. ASSUME timedOut = {}, NEW j \in Runs, sock'[j] = "connecting" PROVE Fits'
  BY <1>2, <1>3, <1>4, StillFits DEF LInv, SimInv
<1> QED BY <1>1, <1>2, <1>4 DEF LInv, SimInv

\* What the server sends needs no banner.
LEMMA ServerFits == ASSUME LInv, Fits, NEW i \in Runs, Message(i) PROVE Fits'
<1>1. sock[i] = "open" /\ UNCHANGED <<panel, key>>
  BY DEF Message
<1>2. Unlabelled' = Unlabelled /\ Places' = Places
  BY <1>1 DEF Unlabelled, KeepsResults, Places, Place, Keys, Sources, Runs
<1> DEFINE r == [run |-> i, sim |-> FALSE]
<1>3. r \in Unlabelled
  BY DEF Unlabelled, Sources
<1>4. rows' = rows \/ rows' = Windowed(r)
  BY DEF Message, PatchMessage, ChaosMessage, ExperimentMessage, BenchmarkMessage,
         StageMessage, RowMessage, ResultMessage, ErrorMessage
<1>5. results' = results \/ results' = [results EXCEPT ![Place(key[i])] = r]
  BY DEF Message, PatchMessage, ChaosMessage, ExperimentMessage, BenchmarkMessage,
         StageMessage, RowMessage, ResultMessage, ErrorMessage, File
<1> HIDE DEF r
<1>6. panel' \in {"patch", "chaos"} => rows' \in Seq(Unlabelled')
  BY <1>1, <1>2, <1>3, <1>4, WindowedIn DEF Fits
<1>7. \A p \in Places : results'[p] \in Unlabelled \cup {None}
  BY <1>3, <1>5 DEF LInv, RInv, ResInv, Fits
<1> QED BY <1>2, <1>6, <1>7 DEF Fits

LEMMA LMessage == ASSUME LInv, NEW i \in Runs, Message(i) PROVE LInv'
<1>1. RInv'
  BY RStep DEF LInv, PNext
<1>2. sock[i] = "open" /\ UNCHANGED <<demo, live, timedOut>>
  BY DEF Message
<1>3. \A j \in Runs : sock'[j] = "connecting" => sock[j] = "connecting"
  <2>1. sock \in [Runs -> SockStates] /\ (sock' = sock \/ sock' = [sock EXCEPT ![i] = "over"])
    BY MessageFacts DEF LInv, RInv, FInv, RunInv
  <2> QED BY <2>1
<1>4. Fits => Fits'
  BY ServerFits
<1> QED BY <1>1, <1>2, <1>3, <1>4 DEF LInv, SimInv

LEMMA LTick == ASSUME LInv, NEW d \in Demos, Tick(d) PROVE LInv'
<1>1. RInv'
  BY RStep DEF LInv, PNext
<1>2. d \in live /\ UNCHANGED <<demo, sock, timedOut>>
  BY DEF Tick
<1>3. ASSUME timedOut = {} PROVE demo' = TRUE /\ \A j \in Runs : sock'[j] # "connecting"
  BY <1>2, <1>3, ConnectingAlone DEF LInv, RInv, SimInv
<1> QED BY <1>1, <1>2, <1>3 DEF LInv, SimInv

LEMMA LStep == ASSUME LInv, [PNext]_pvars PROVE LInv'
<1>1. RInv'
  BY RStep DEF LInv
<1>2. CASE EditText \/ LoadExample \/ ExampleComes \/ UNCHANGED pvars
  <2>1. UNCHANGED <<panel, rows, results, key, sock, live, timedOut>>
    BY <1>2 DEF EditText, LoadExample, ExampleComes, pvars, shown, feeds
  <2>2. demo' \in {demo, TRUE}
    BY <1>2 DEF EditText, LoadExample, ExampleComes, pvars, shown
  <2>3. Fits => Fits'
    BY <2>1, StillFits
  <2> QED BY <1>1, <2>1, <2>2, <2>3 DEF LInv, SimInv
<1>3. CASE \E k \in Keys : Run(k) \/ RunThrows(k)
  BY <1>3, LStart
<1>4. CASE \E i \in Runs : TimeOut(i)
  <2>1. PICK i \in Runs : TimeOut(i)
    BY <1>4
  <2>2. timedOut' # {} /\ demo' = TRUE
    BY <2>1 DEF TimeOut, RunSimulated
  <2> QED BY <1>1, <2>2 DEF LInv, SimInv
<1>5. CASE \E i \in Runs : Open(i) \/ ErrorEvent(i) \/ Message(i)
  BY <1>5, LOpen, LErrorEvent, LMessage
<1>6. CASE \E i \in Runs : ServerCloses(i)
  <2>1. PICK i \in Runs : ServerCloses(i)
    BY <1>6
  <2>2. /\ sock' = [sock EXCEPT ![i] = "closed"]
        /\ UNCHANGED <<panel, rows, results, key, demo, live, timedOut>>
    BY <2>1 DEF ServerCloses, shown
  <2>3. \A j \in Runs : sock'[j] = "connecting" => sock[j] = "connecting"
    BY <2>2 DEF LInv, RInv, FInv, RunInv
  <2>4. Fits => Fits'
    BY <2>2, StillFits
  <2> QED BY <1>1, <2>2, <2>3, <2>4 DEF LInv, SimInv
<1>7. CASE \E d \in Demos : Tick(d)
  BY <1>7, LTick
<1> QED BY <1>2, <1>3, <1>4, <1>5, <1>6, <1>7 DEF PNext

LEMMA LInit == PInit => LInv
<1> SUFFICES ASSUME PInit PROVE LInv
  OBVIOUS
<1>1. /\ demo = FALSE /\ rows = << >> /\ live = {}
      /\ results = [p \in Places |-> None] /\ sock = [i \in Runs |-> "none"]
  BY DEF PInit
<1>2. Fits
  BY <1>1 DEF Fits
<1> QED BY <1>1, <1>2, RInit DEF LInv, SimInv

LEMMA ScreenShows ==
  ASSUME LInv
  PROVE  /\ Screen.banner = demo
         /\ \A d \in Screen.data : d \in Filed \/ (panel \in {"patch", "chaos"} /\ d \in ToSet(rows))
<1>1. panel \in Panels
  BY DEF LInv, RInv, FInv, RunInv
<1>2. CASE panel = "patch"
  BY <1>2 DEF Screen, PatchScreen
<1>3. CASE panel = "chaos"
  BY <1>3 DEF Screen, ChaosScreen
<1>4. CASE panel = "experiments"
  BY <1>4 DEF Screen, ExperimentScreen
<1>5. CASE panel = "benchmark"
  BY <1>5 DEF Screen, BenchmarkScreen
<1> QED BY <1>1, <1>2, <1>3, <1>4, <1>5

\* setDemoMode of the four panels: until a time-out, simulated data on the
\* screen has the banner, but for the kept result of an earlier run.
THEOREM LabelsRight == PSpec => []SimulatedLabelled
<1>1. LInv => SimulatedLabelled
  <2> SUFFICES ASSUME LInv, NEW d \in Screen.data, d.sim, ~ Screen.banner, timedOut = {}
               PROVE KeepsResults /\ d.run < Len(key)
    BY DEF SimulatedLabelled
  <2>1. Fits
    BY ScreenShows DEF LInv, SimInv
  <2>2. d \in Unlabelled
    <3>1. CASE d \in Filed
      BY <2>1, <3>1 DEF Fits, Filed
    <3>2. CASE panel \in {"patch", "chaos"} /\ d \in ToSet(rows)
      BY <2>1, <3>2 DEF Fits, ToSet
    <3> QED BY <3>1, <3>2, ScreenShows
  <2> QED BY <2>2 DEF Unlabelled
<1> QED BY <1>1, LInit, LStep, PTL DEF PSpec

(***************************************************************************)
(* The types.  A simulated run never ticks beyond its last tick, and the   *)
(* server's stage events are never more than there are.                    *)
(***************************************************************************)
BadgeStates == {"idle", "running", "done", "error"}
StagesOK == stages \in [DOMAIN Stages -> BadgeStates]
RowsOK == rows \in Seq(Sources)
CountsOK == told \in [Runs -> 0 .. 10] /\ at \in [Demos -> 0 .. DemoLines + 5]
FlagsOK ==
  /\ text \in BOOLEAN /\ fetching \in BOOLEAN /\ demo \in BOOLEAN /\ error \in BOOLEAN
  /\ running \in Keys \cup {None}

TInv == RInv /\ StagesOK /\ RowsOK /\ CountsOK /\ FlagsOK

LEMMA PanelStays == ASSUME [PNext]_pvars PROVE panel' = panel
BY DEF PNext, pvars, EditText, LoadExample, ExampleComes, Run, RunThrows, Start, TimeOut, Open,
       ErrorEvent, ServerCloses, Message, Tick

\* The badges of the panels that have some.
LEMMA StageDomains ==
  /\ panel = "patch" => DOMAIN Stages = 1 .. 5 /\ Len(Stages) = 5
  /\ panel = "benchmark" => DOMAIN Stages = 1 .. 2 /\ Len(Stages) = 2
  /\ Idle \in [DOMAIN Stages -> BadgeStates]
<1>1. ASSUME panel = "patch" PROVE DOMAIN Stages = 1 .. 5 /\ Len(Stages) = 5
  <2>1. Stages = <<"apply", "build", "boot", "compare", "report">>
    BY <1>1 DEF Stages
  <2> QED BY <2>1
<1>2. ASSUME panel = "benchmark" PROVE DOMAIN Stages = 1 .. 2 /\ Len(Stages) = 2
  <2>1. Stages = <<"compile", "boot">>
    BY <1>2 DEF Stages
  <2> QED BY <2>1
<1>3. Idle \in [DOMAIN Stages -> BadgeStates]
  BY DEF Idle, BadgeStates
<1> QED BY <1>1, <1>2, <1>3

\* What a simulated run makes of the benchmark panel's badges.
LEMMA PairOfBadges ==
  ASSUME NEW a \in BadgeStates, NEW b \in BadgeStates PROVE <<a, b>> \in [1 .. 2 -> BadgeStates]
OBVIOUS

LEMMA FallbackBadges ==
  ASSUME NEW now \in [DOMAIN Stages -> BadgeStates]
  PROVE  StagesAtFallback(now) \in [DOMAIN Stages -> BadgeStates]
<1>1. "running" \in BadgeStates /\ "idle" \in BadgeStates
  BY DEF BadgeStates
<1>2. <<"running", "idle">> \in [1 .. 2 -> BadgeStates]
  BY <1>1, PairOfBadges
<1> QED BY <1>2, StageDomains DEF StagesAtFallback

LEMMA StagesStep == ASSUME TInv, [PNext]_pvars PROVE StagesOK'
<1>0. /\ (DOMAIN Stages)' = DOMAIN Stages
      /\ stages \in [DOMAIN Stages -> BadgeStates]
      /\ DOMAIN stages = DOMAIN Stages
      /\ {"idle", "running", "done", "error"} = BadgeStates
  BY PanelStays DEF Stages, TInv, StagesOK, BadgeStates
<1> SUFFICES stages' \in [DOMAIN Stages -> BadgeStates]
  BY <1>0 DEF StagesOK
<1>1. CASE stages' = stages
  BY <1>0, <1>1
<1>2. CASE stages' = Idle \/ stages' = StagesAtFallback(Idle) \/ stages' = StagesAtFallback(stages)
  BY <1>0, <1>2, StageDomains, FallbackBadges
<1>3. ASSUME NEW i \in Runs, Message(i) PROVE stages' \in [DOMAIN Stages -> BadgeStates]
  <2> DEFINE j == told[i] \div 2 + 1
             s == IF told[i] % 2 = 0 THEN "running" ELSE "done"
  <2>1. stages' \in {stages, [stages EXCEPT ![j] = s], [stages EXCEPT ![j] = "error"]}
    BY <1>3 DEF Message, PatchMessage, ChaosMessage, ExperimentMessage, BenchmarkMessage,
                StageMessage, RowMessage, ResultMessage, ErrorMessage
  <2>2. s \in BadgeStates
    BY <1>0
  <2> HIDE DEF j, s
  <2> QED BY <1>0, <2>1, <2>2
<1>4. ASSUME NEW d \in Demos, Tick(d) PROVE stages' \in [DOMAIN Stages -> BadgeStates]
  <2>1. CASE PatchTick(d)
    BY <1>0, <2>1 DEF PatchTick
  <2>2. CASE ChaosTick(d) \/ ExperimentTick(d)
    BY <1>0, <2>2 DEF ChaosTick, ExperimentTick
  <2>3. CASE BenchmarkTick(d)
    <3>1. stages' \in {<<"done", "running">>, <<"done", "done">>} /\ panel = "benchmark"
      BY <2>3 DEF BenchmarkTick
    <3>2. "done" \in BadgeStates /\ "running" \in BadgeStates
      BY <1>0
    <3>3. <<"done", "running">> \in [1 .. 2 -> BadgeStates] /\ <<"done", "done">> \in [1 .. 2 -> BadgeStates]
      BY <3>2, PairOfBadges
    <3> QED BY <3>1, <3>3, StageDomains
  <2> QED BY <1>4, <2>1, <2>2, <2>3 DEF Tick
<1>5. CASE EditText \/ LoadExample \/ ExampleComes \/ UNCHANGED pvars
  BY <1>1, <1>5 DEF EditText, LoadExample, ExampleComes, pvars, shown
<1>6. CASE \E k \in Keys : Run(k) \/ RunThrows(k)
  BY <1>2, <1>6 DEF Run, RunThrows
<1>7. CASE \E i \in Runs : TimeOut(i) \/ Open(i) \/ ErrorEvent(i) \/ ServerCloses(i)
  BY <1>1, <1>2, <1>7 DEF TimeOut, Open, ErrorEvent, ServerCloses, shown
<1> QED BY <1>3, <1>4, <1>5, <1>6, <1>7 DEF PNext

LEMMA RowsStep == ASSUME TInv, [PNext]_pvars PROVE RowsOK'
<1>0. Sources' = Sources /\ rows \in Seq(Sources)
  BY DEF Sources, TInv, RowsOK
<1> SUFFICES rows' \in Seq(Sources)
  BY <1>0 DEF RowsOK
<1>1. CASE rows' = rows
  BY <1>0, <1>1
<1>2. CASE rows' = << >>
  BY <1>2
<1>3. ASSUME NEW r \in Sources, rows' = Append(rows, r) \/ rows' = Windowed(r) PROVE rows' \in Seq(Sources)
  <2>1. Append(rows, r) \in Seq(Sources)
    BY <1>0
  <2>2. Windowed(r) \in Seq(Sources)
    BY <1>0, WindowedIn
  <2> QED BY <1>3, <2>1, <2>2
<1>4. ASSUME NEW i \in Runs, Message(i) PROVE rows' \in Seq(Sources)
  <2>1. rows' = rows \/ rows' = Windowed([run |-> i, sim |-> FALSE])
    BY <1>4 DEF Message, PatchMessage, ChaosMessage, ExperimentMessage, BenchmarkMessage,
                StageMessage, RowMessage, ResultMessage, ErrorMessage
  <2>2. [run |-> i, sim |-> FALSE] \in Sources
    BY DEF Sources
  <2> QED BY <1>1, <1>3, <2>1, <2>2
<1>5. ASSUME NEW d \in Demos, Tick(d) PROVE rows' \in Seq(Sources)
  <2> DEFINE r == [run |-> d[1], sim |-> TRUE]
  <2>1. rows' = rows \/ rows' = Append(rows, r) \/ rows' = Windowed(r)
    BY <1>5 DEF Tick, PatchTick, ChaosTick, ExperimentTick, BenchmarkTick
  <2>2. r \in Sources
    BY DEF Sources, Demos
  <2> HIDE DEF r
  <2> QED BY <1>1, <1>3, <2>1, <2>2
<1>6. CASE EditText \/ LoadExample \/ ExampleComes \/ UNCHANGED pvars
  BY <1>1, <1>6 DEF EditText, LoadExample, ExampleComes, pvars, shown
<1>7. CASE \E k \in Keys : Run(k) \/ RunThrows(k)
  BY <1>1, <1>2, <1>7 DEF Run, RunThrows, Start, PatchStart, ChaosStart, ExperimentStart, BenchmarkStart
<1>8. CASE \E i \in Runs : TimeOut(i) \/ Open(i) \/ ErrorEvent(i) \/ ServerCloses(i)
  BY <1>1, <1>8 DEF TimeOut, Open, ErrorEvent, ServerCloses, shown
<1> QED BY <1>4, <1>5, <1>6, <1>7, <1>8 DEF PNext

LEMMA TicksBounded ==
  ASSUME panel \in Panels, NEW k PROVE Ticks(k) \in Nat /\ Ticks(k) <= DemoLines + 5
BY DEF Ticks, SimChaos

LEMMA CountsStep == ASSUME TInv, [PNext]_pvars PROVE CountsOK'
<1>0. /\ told \in [Runs -> 0 .. 10] /\ at \in [Demos -> 0 .. DemoLines + 5]
      /\ DemoLines \in Nat /\ panel \in Panels
      /\ Demos' = Demos
  BY DEF TInv, CountsOK, RInv, FInv, RunInv, Demos, Runs
<1> SUFFICES told' \in [Runs -> 0 .. 10] /\ at' \in [Demos -> 0 .. DemoLines + 5]
  BY <1>0 DEF CountsOK, Runs
<1>1. told' \in [Runs -> 0 .. 10]
  <2>1. told' = told \/ \E i \in Runs : Message(i)
    BY DEF PNext, pvars, feeds, EditText, LoadExample, ExampleComes, Run, RunThrows, Start, TimeOut,
           Open, ErrorEvent, ServerCloses, Tick
  <2>2. ASSUME NEW i \in Runs, Message(i) PROVE told' \in [Runs -> 0 .. 10]
    <3>1. CASE told' = told
      BY <1>0, <3>1
    <3>2. CASE \E last \in {9, 4} : told[i] < last /\ told' = [told EXCEPT ![i] = @ + 1]
      BY <1>0, <3>2
    <3>3. ASSUME panel = "patch" PROVE 2 * Len(Stages) - 1 = 9
      <4>1. Len(Stages) = 5
        BY <3>3, StageDomains, Zenon
      <4> QED BY <4>1
    <3>4. ASSUME panel = "benchmark" PROVE 2 * Len(Stages) = 4
      <4>1. Len(Stages) = 2
        BY <3>4, StageDomains, Zenon
      <4> QED BY <4>1
    <3> QED BY <2>2, <3>1, <3>2, <3>3, <3>4
         DEF Message, PatchMessage, ChaosMessage, ExperimentMessage, BenchmarkMessage,
             StageMessage, RowMessage, ResultMessage, ErrorMessage
  <2> QED BY <1>0, <2>1, <2>2
<1>2. at' \in [Demos -> 0 .. DemoLines + 5]
  <2>1. \/ at' = at
        \/ \E e \in Demos : at' = [at EXCEPT ![e] = 0]
        \/ \E d \in Demos : Tick(d)
    <3>1. CASE EditText \/ LoadExample \/ ExampleComes \/ UNCHANGED pvars
      BY <3>1 DEF EditText, LoadExample, ExampleComes, pvars, feeds
    <3>2. CASE \E k \in Keys : Run(k)
      BY <3>2 DEF Run
    <3>3. CASE \E k \in Keys : RunThrows(k)
      <4>1. Len(key) + 1 \in Runs
        BY <3>3, StartFacts DEF RunThrows, TInv, RInv
      <4>2. <<Len(key) + 1, "error">> \in Demos
        BY <4>1 DEF Demos
      <4>3. at' = [at EXCEPT ![<<Len(key) + 1, "error">>] = 0]
        BY <3>3 DEF RunThrows, RunSimulated
      <4> QED BY <4>2, <4>3
    <3>4. CASE \E i \in Runs : TimeOut(i) \/ ErrorEvent(i)
      <4>1. PICK i \in Runs, cause \in {"error", "timeout"} : RunSimulated(i, cause)
        BY <3>4 DEF TimeOut, ErrorEvent
      <4>2. <<i, cause>> \in Demos /\ at' = [at EXCEPT ![<<i, cause>>] = 0]
        BY <4>1 DEF Demos, RunSimulated
      <4> QED BY <4>2
    <3>5. CASE \E i \in Runs : Open(i) \/ ServerCloses(i) \/ Message(i)
      BY <3>5 DEF Open, ServerCloses, Message
    <3> QED BY <3>1, <3>2, <3>3, <3>4, <3>5 DEF PNext
  <2>2. CASE \E e \in Demos : at' = [at EXCEPT ![e] = 0]
    BY <1>0, <2>2
  <2>3. ASSUME NEW d \in Demos, Tick(d) PROVE at' \in [Demos -> 0 .. DemoLines + 5]
    <3>1. d \in live /\ at' = [at EXCEPT ![d] = @ + 1]
      BY <2>3 DEF Tick
    <3>2. at[d] < Ticks(key[d[1]])
      BY <3>1 DEF TInv, RInv, FInv, AtInv
    <3>3. at[d] + 1 \in 0 .. DemoLines + 5
      BY <1>0, <3>2, TicksBounded
    <3> QED BY <1>0, <3>1, <3>3
  <2> QED BY <1>0, <2>1, <2>2, <2>3
<1> QED BY <1>1, <1>2

LEMMA FlagsStep == ASSUME TInv, [PNext]_pvars PROVE FlagsOK'
<1>0. Keys' = Keys
  BY PanelStays DEF Keys
<1> USE DEF TInv, FlagsOK
<1>1. CASE EditText \/ LoadExample \/ ExampleComes \/ UNCHANGED pvars
  BY <1>0, <1>1 DEF EditText, LoadExample, ExampleComes, pvars, text_vars, shown
<1>2. CASE \E k \in Keys : Run(k) \/ RunThrows(k)
  BY <1>0, <1>2 DEF Run, RunThrows, Start, RunSimulated, text_vars
<1>3. CASE \E i \in Runs : TimeOut(i) \/ Open(i) \/ ErrorEvent(i) \/ ServerCloses(i)
  BY <1>0, <1>3 DEF TimeOut, Open, ErrorEvent, ServerCloses, RunSimulated, text_vars, shown
<1>4. CASE \E i \in Runs : Message(i)
  <2>1. /\ UNCHANGED <<text, fetching, demo>> /\ running' \in {running, None}
        /\ error' \in {error, TRUE}
    BY <1>4 DEF Message, PatchMessage, ChaosMessage, ExperimentMessage, BenchmarkMessage,
                StageMessage, RowMessage, ResultMessage, ErrorMessage, text_vars
  <2> QED BY <1>0, <2>1
<1>5. CASE \E d \in Demos : Tick(d)
  <2>1. /\ UNCHANGED <<text, fetching, demo, error>> /\ running' \in {running, None}
    BY <1>5 DEF Tick, PatchTick, ChaosTick, ExperimentTick, BenchmarkTick, text_vars
  <2> QED BY <1>0, <2>1
<1> QED BY <1>1, <1>2, <1>3, <1>4, <1>5 DEF PNext

LEMMA TInit == PInit => TInv
<1> SUFFICES ASSUME PInit PROVE TInv
  OBVIOUS
<1>1. StagesOK /\ FlagsOK
  BY StageDomains DEF PInit, StagesOK, FlagsOK
<1>2. RowsOK
  BY DEF PInit, RowsOK
<1>3. CountsOK
  BY DEF PInit, CountsOK
<1> QED BY <1>1, <1>2, <1>3, RInit DEF TInv

\* A panel keeps the types of what it holds: the badges it has, the lines and
\* results of runs there were, and counts that do not run past their ends.
THEOREM PanelTypes == PSpec => []PTypeOK
<1>1. TInv /\ [PNext]_pvars => TInv'
  BY RStep, StagesStep, RowsStep, CountsStep, FlagsStep DEF TInv
<1>2. TInv => PTypeOK
  BY DEF TInv, RInv, FInv, RunInv, ResInv, SockStates, StagesOK, BadgeStates, RowsOK, CountsOK,
         FlagsOK, PTypeOK
<1> QED BY <1>1, <1>2, TInit, PTL DEF PSpec

(***************************************************************************)
(* That the buttons come back: whatever keeps them is something the        *)
(* browser owes, or a server that stays silent.                            *)
(***************************************************************************)
\* The run the buttons wait for is the latest, and its two seconds are being
\* counted, or its connection was made, or a simulated run of it has ticks left.
NotForgotten ==
  Running =>
    \/ Len(key) \in timer
    \/ Len(key) \in Runs /\ sock[Len(key)] \in {"open", "closed"}
    \/ \E d \in live : d[1] = Len(key) /\ at[d] < Ticks(key[d[1]])

FedInv ==
  running # None =>
    \/ Len(key) \in timer
    \/ Len(key) \in Runs /\ sock[Len(key)] \in {"open", "closed"}
    \/ \E d \in live : d[1] = Len(key)

LEMMA FedStep == ASSUME FInv, FedInv, [PNext]_pvars PROVE FedInv'
<1>0. sock \in [Runs -> SockStates] /\ live \subseteq Demos
  BY DEF FInv, RunInv
<1>1. CASE EditText \/ LoadExample \/ ExampleComes \/ UNCHANGED pvars
  <2>1. UNCHANGED <<running, key, sock, timer, live>>
    BY <1>1 DEF EditText, LoadExample, ExampleComes, pvars, shown, feeds
  <2> QED BY <2>1 DEF FedInv
<1>2. ASSUME NEW k \in Keys, Run(k) PROVE FedInv'
  <2>1. Len(key') = Len(key) + 1 /\ Len(key) + 1 \in timer'
    BY <1>2, StartFacts DEF Run
  <2> QED BY <2>1 DEF FedInv
<1>3. ASSUME NEW k \in Keys, RunThrows(k) PROVE FedInv'
  <2>1. Len(key') = Len(key) + 1 /\ <<Len(key) + 1, "error">> \in live'
    BY <1>3, StartFacts DEF RunThrows, RunSimulated
  <2> QED BY <2>1 DEF FedInv
<1>4. ASSUME NEW i \in Runs, TimeOut(i) \/ ErrorEvent(i) PROVE FedInv'
  <2>1. /\ UNCHANGED <<running, key>> /\ timer' = timer \ {i} /\ live \subseteq live'
        /\ \E d \in live' : d[1] = i
        /\ \A j \in Runs : j # i => sock'[j] = sock[j]
    BY <1>0, <1>4 DEF TimeOut, ErrorEvent, RunSimulated
  <2> QED BY <2>1 DEF FedInv
<1>5. ASSUME NEW i \in Runs, Open(i) PROVE FedInv'
  <2>1. /\ UNCHANGED <<running, key, live>> /\ timer' = timer \ {i}
        /\ sock'[i] = "open" /\ \A j \in Runs : j # i => sock'[j] = sock[j]
    BY <1>0, <1>5 DEF Open
  <2> QED BY <1>5, <2>1 DEF FedInv
<1>6. ASSUME NEW i \in Runs, ServerCloses(i) PROVE FedInv'
  BY <1>0, <1>6 DEF FedInv, ServerCloses, shown
<1>7. ASSUME NEW i \in Runs, Message(i) PROVE FedInv'
  BY <1>7, MessageFacts DEF FedInv
<1>8. ASSUME NEW d \in Demos, Tick(d) PROVE FedInv'
  <2>1. UNCHANGED <<key, sock, timer>>
    BY <1>8 DEF Tick
  <2>2. CASE at[d] + 1 = Ticks(key[d[1]])
    BY <1>8, <2>2, LastTick DEF FedInv
  <2>3. CASE at[d] + 1 # Ticks(key[d[1]])
    <3>1. running' = running /\ live' = live
      BY <1>8, <2>3, LastTick DEF Tick
    <3> QED BY <2>1, <3>1 DEF FedInv
  <2> QED BY <2>2, <2>3
<1> QED BY <1>1, <1>2, <1>3, <1>4, <1>5, <1>6, <1>7, <1>8 DEF PNext

\* A panel whose buttons are disabled waits for its two seconds, for a
\* connection that was made, or for a simulated run that has ticks left, whatever
\* runs, answers and time-outs came before.
THEOREM RunsAreFed == PSpec => []NotForgotten
<1>1. FInv /\ FedInv => NotForgotten
  BY DEF FInv, AtInv, FedInv, NotForgotten, Running
<1>2. PInit => FedInv
  BY DEF PInit, FedInv
<1>3. FInv /\ FedInv /\ [PNext]_pvars => FedInv'
  BY FedStep
<1> QED BY <1>1, <1>2, <1>3, FInit, FStep, PTL DEF PSpec
=============================================================================
