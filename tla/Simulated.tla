----------------------------- MODULE Simulated -----------------------------
(***************************************************************************)
(* The data of web/src/lib/simulate.ts that the pages show when the        *)
(* backend does not answer.  Numbers are in tenths of the unit shown (the  *)
(* captured results in hundredths), texts are left out.                    *)
(***************************************************************************)
EXTENDS Integers

\* The three measurements of a kernel, the 99th percentiles of two of them.
SimBenchmark(kernel) ==
  IF kernel = "optimized"
    THEN [createMean |-> 382, createP99 |-> 1124, switches |-> 148920, latencyP99 |-> 4200]
    ELSE [createMean |-> 527, createP99 |-> 1843, switches |-> 152340, latencyP99 |-> 8500]

\* A patch's measurements and the changes it claims over the baseline, in
\* tenths of a percent.
SimPatchReport ==
  [data |-> [createMean |-> 382, createP99 |-> 1124, switches |-> 148920, latencyP99 |-> 4200],
   createMean |-> -275, switches |-> -22, latencyP99 |-> -506]

\* The one experiment with a before and an after.
SimScheduler == [before |-> 8500, after |-> 4200, improvement |-> 506]

\* How many samples a simulated injection shows before its result, and
\* whether that reports a detection.
SimChaos(action) ==
  CASE action = "cpu" -> [samples |-> 4, detected |-> TRUE]
    [] action \in {"memory", "network"} -> [samples |-> 3, detected |-> TRUE]
    [] action \in {"disk", "kill"} -> [samples |-> 3, detected |-> FALSE]
    [] OTHER -> [samples |-> 1, detected |-> FALSE]

\* The captured results, as the page has them built in.
SimResults ==
  [baseline |-> [createMean |-> 283825, createP99 |-> 340262, switches |-> 558867, latencyP99 |-> 437266],
   optimized |-> [createMean |-> 289234, createP99 |-> 369092, switches |-> 546400, latencyP99 |-> 318307]]
=============================================================================
