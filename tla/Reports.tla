------------------------------ MODULE Reports ------------------------------
(***************************************************************************)
(* The two pages that show the captured before and after: the results page *)
(* (app/results/page.tsx) and the comparison of SchedulerCompare.tsx.      *)
(* Each asks /api/results for itself, and shows the copy that is built in  *)
(* when it gets no answer.                                                 *)
(*                                                                         *)
(* Measurements are integers, percentages are in tenths as shown.  The     *)
(* pages compute with doubles, which are far finer than the measurements:  *)
(* a percentage becomes the nearest tenth; one just half way between two   *)
(* goes either way, and two formulas for it need not go the same way.      *)
(***************************************************************************)
EXTENDS Integers, Simulated

CONSTANT Answers   \* what /api/results may contain

Measures == {"createMean", "createP99", "switches", "latencyP99"}
ConstantsOK ==
  \A a \in Answers : \A kernel \in {"baseline", "optimized"}, m \in Measures :
    a[kernel][m] \in Nat \ {0}

VARIABLES
  compared,  \* what SchedulerCompare shows, {} before there is something
  reported   \* what the results page shows

rvars == <<compared, reported>>

RInit == compared = {} /\ reported = {}

CompareLoads ==
  /\ compared = {}
  /\ compared' \in {{a} : a \in Answers \cup {SimResults}}
  /\ UNCHANGED reported

ReportLoads ==
  /\ reported = {}
  /\ reported' \in {{a} : a \in Answers \cup {SimResults}}
  /\ UNCHANGED compared

RNext == CompareLoads \/ ReportLoads

(***************************************************************************)
(* What they show.                                                         *)
(***************************************************************************)
Size(n) == IF n < 0 THEN 0 - n ELSE n

\* The tenths of a percent that toFixed(1) and Math.round may make of the
\* double nearest to change / of: two where that is half way between them.
Nearest(change, of) ==
  LET low == (1000 * change) \div of IN
    {n \in {low, low + 1} : 2 * Size(1000 * change - n * of) <= of}
HalfWay(change, of) ==
  \E n \in Nearest(change, of) : 2 * Size(1000 * change - n * of) = of

MetricPanel(before, after, higherIsBetter) ==
  [labels |-> Nearest(after - before, before),
   better |-> IF higherIsBetter THEN after > before ELSE after < before,
   bars |-> LET max == IF before > after THEN before ELSE after IN
              <<(100 * before) \div max, (100 * after) \div max>>]

CompareScreen(r) ==
  [latency |-> MetricPanel(r.baseline.latencyP99, r.optimized.latencyP99, FALSE),
   create |-> MetricPanel(r.baseline.createMean, r.optimized.createMean, FALSE),
   switches |-> MetricPanel(r.baseline.switches, r.optimized.switches, TRUE)]

KernelCard(k) == <<k.createP99, k.switches, k.latencyP99>>

\* Mutant: relative to the optimized kernel.
HeadlineOfOptimized(r) ==
  {Size(n) : n \in Nearest(r.baseline.latencyP99 - r.optimized.latencyP99, r.optimized.latencyP99)}

\* The large number, whose caption is "lower wake-up-latency tail".
Headline(r) ==
  {Size(n) : n \in Nearest(r.baseline.latencyP99 - r.optimized.latencyP99, r.baseline.latencyP99)}

ReportScreen(r) ==
  [headlines |-> Headline(r),
   cards |-> <<KernelCard(r.baseline), KernelCard(r.optimized)>>]

(***************************************************************************)
(* Properties.                                                             *)
(***************************************************************************)
\* The three simulated results that quote the same change -- a patch's report,
\* the benchmark of both kernels, the experiment -- tell one story.
DemoStory ==
  LET change(m) ==
        Nearest(SimBenchmark("optimized")[m] - SimBenchmark("baseline")[m], SimBenchmark("baseline")[m]) IN
  /\ \A m \in {"createMean", "switches", "latencyP99"} : change(m) = {SimPatchReport[m]}
  /\ SimPatchReport.data = SimBenchmark("optimized")
  /\ SimScheduler.before = SimBenchmark("baseline").latencyP99
  /\ SimScheduler.after = SimBenchmark("optimized").latencyP99
  /\ change("latencyP99") = {0 - SimScheduler.improvement}

\* results/page.tsx:97-105 and SchedulerCompare.tsx:75-78: two pages that show
\* the same data give the same size of the change of the targeted metric, to
\* the tenth, and differ by one tenth only where the percentage is just half
\* way between two.  Of the direction the headline says nothing: its caption
\* is "lower" also where the comparison says "(worse)".
PagesAgree ==
  /\ \A r \in compared \cap reported :
       LET before == r.baseline.latencyP99
           after == r.optimized.latencyP99 IN
         \A label \in CompareScreen(r).latency.labels, headline \in ReportScreen(r).headlines :
           \/ headline = Size(label)
           \/ HalfWay(after - before, before) /\ Size(headline - Size(label)) = 1
  /\ DemoStory
=============================================================================
