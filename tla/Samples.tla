------------------------------ MODULE Samples ------------------------------
(***************************************************************************)
(* benchmark/process_creation.c and benchmark/scheduler_latency.c: samples *)
(* of a clock of seconds and nanoseconds, sorted, and the figures that     *)
(* patch_agent and qemu_agent parse.                                       *)
(***************************************************************************)
EXTENDS Integers, Sequences, FiniteSets

CONSTANTS
  Iterations, \* lengths of a run; the agents ask for at least 50
  Second,     \* nanoseconds in a second
  Interval,   \* interval_us * 1000
  Latest      \* bound: how late the probe wakes up, how long a fork takes

SampleConstantsOK ==
  /\ Iterations \subseteq Nat \ {0}
  /\ Second \in Nat \ {0} /\ Interval \in Nat /\ Latest \in Nat

VARIABLES
  program,     \* the program that runs
  iterations,  \* its argument
  step,        \* "start", "sampling", "reported", "failed" or "crashed"
  busy,        \* every hog was made
  begin,       \* clock at the first deadline or at the fork
  now,         \* clock
  took,        \* what really passed, in nanoseconds, per sample
  samples,     \* samples_ns
  figures      \* what is printed

sampleVars == <<iterations, step, busy, begin, now, took, samples, figures>>

Time(ns) == [sec |-> ns \div Second, nsec |-> ns % Second]
Nanoseconds(t) == t.sec * Second + t.nsec

elapsed_ns(start, end) == (end.sec - start.sec) * Second + (end.nsec - start.nsec)

\* Mutant: one second is carried at most.
CarryOnce(t, ns) ==
  IF t.nsec + ns >= Second THEN [sec |-> t.sec + 1, nsec |-> t.nsec + ns - Second]
  ELSE [t EXCEPT !.nsec = @ + ns]

\* The loop carries seconds until the nanoseconds are less than one.
ts_add_ns(t, ns) ==
  [sec |-> t.sec + (t.nsec + ns) \div Second, nsec |-> (t.nsec + ns) % Second]

\* Mutant: without the qsort.
Unsorted(s) == s

\* The ways to put s in ascending order.
Orders(s) ==
  {order \in [DOMAIN s -> DOMAIN s] :
    /\ \A i \in DOMAIN s : \E j \in DOMAIN s : order[j] = i
    /\ \A i, j \in DOMAIN s : i <= j => s[order[i]] <= s[order[j]]}

\* qsort with cmp_long.
Sorted(s) ==
  LET order == CHOOSE o \in Orders(s) : TRUE IN [i \in DOMAIN s |-> s[order[i]]]

\* Indices that count from zero; a multiple of 100 times the double 0.99 is exact.
Indices(n) == [p50 |-> n \div 2, p99 |-> (n * 99) \div 100]

Figures(s) ==
  LET n == Len(s)  sorted == Sorted(s) IN
    [min |-> sorted[1], max |-> sorted[n],
     p50 |-> sorted[Indices(n).p50 + 1], p99 |-> sorted[Indices(n).p99 + 1]]

SampleInit ==
  /\ iterations \in Iterations
  /\ step = "start"
  /\ busy = TRUE
  /\ now \in {Time(ns) : ns \in 0 .. Second - 1}
  /\ begin = now
  /\ took = <<>> /\ samples = <<>> /\ figures = <<>>

\* scheduler_latency starts its hogs, without looking whether they could be
\* made; its first deadline is an interval after this reading of the clock.
StartSampling ==
  /\ step = "start"
  /\ step' = "sampling"
  /\ busy' \in (IF program = "scheduler_latency" THEN BOOLEAN ELSE {TRUE})
  /\ begin' = now
  /\ UNCHANGED <<iterations, now, took, samples, figures>>

\* fork, _exit and waitpid between two readings of the clock.
SampleFork ==
  /\ program = "process_creation"
  /\ step = "sampling" /\ Len(samples) < iterations
  /\ \E ns \in 0 .. Latest :
       /\ now' = Time(Nanoseconds(now) + ns)
       /\ took' = Append(took, ns)
  /\ samples' = Append(samples, elapsed_ns(now, now'))
  /\ UNCHANGED <<iterations, step, busy, begin, figures>>

\* A fork fails, and nothing is reported.
ForkFails ==
  /\ program = "process_creation"
  /\ step = "sampling" /\ Len(samples) < iterations
  /\ step' = "failed"
  /\ UNCHANGED <<iterations, busy, begin, now, took, samples, figures>>

\* clock_nanosleep returns at once when its deadline is over, or is no time.
Due(target) ==
  IF target.nsec < Second /\ Nanoseconds(target) > Nanoseconds(now)
  THEN Nanoseconds(target) ELSE Nanoseconds(now)

\* The deadline moves by the interval, however late the probe is: a probe that
\* slept through several deadlines reports every one of them.
SampleLatency ==
  /\ program = "scheduler_latency"
  /\ step = "sampling" /\ Len(samples) < iterations
  /\ LET target == ts_add_ns(begin, Interval) IN
       \E ns \in 0 .. Latest :
         /\ begin' = target
         /\ now' = Time(Due(target) + ns)
         /\ took' = Append(took, Nanoseconds(now') - Nanoseconds(begin) - Interval)
         /\ samples' = Append(samples, LET over == elapsed_ns(target, now')
                                       IN IF over < 0 THEN 0 ELSE over)
  /\ UNCHANGED <<iterations, step, busy, figures>>

\* To join a hog that was never made is undefined, as in Checks.tla.
Report ==
  /\ step = "sampling" /\ Len(samples) = iterations
  /\ \/ step' = "reported" /\ figures' = Figures(samples)
     \/ ~ busy /\ step' = "crashed" /\ UNCHANGED figures
  /\ UNCHANGED <<iterations, busy, begin, now, took, samples>>

SampleStep == StartSampling \/ SampleFork \/ ForkFails \/ SampleLatency \/ Report

SampleNext ==
  /\ program \in {"process_creation", "scheduler_latency"}
  /\ SampleStep
  /\ UNCHANGED program

(***************************************************************************)
(* Properties.                                                             *)
(***************************************************************************)
\* Every variable has the values its declaration names.
SampleTypeOK ==
  /\ iterations \in Iterations
  /\ step \in {"start", "sampling", "reported", "failed", "crashed"}
  /\ busy \in BOOLEAN
  /\ now \in [sec : Nat, nsec : 0 .. Second - 1]
  /\ begin \in [sec : Nat, nsec : 0 .. Second - 1]
  /\ took \in Seq(Int) /\ samples \in Seq(Nat)

\* v is a p-percent quantile of s: no more than p percent are below it, and more
\* than p percent are not above it.
IsQuantile(v, p, s) ==
  LET Below == {i \in DOMAIN s : s[i] < v}  NotAbove == {i \in DOMAIN s : s[i] <= v} IN
    /\ 100 * Cardinality(Below) <= p * Len(s)
    /\ p * Len(s) < 100 * Cardinality(NotAbove)

\* Lengths about the ones where 99 percent is a whole number of samples.
Lengths == {1, 2, 3, 99, 100, 101, 199, 200, 201}
IndicesAreRight ==
  \A n \in Lengths :
    LET s == [i \in 1 .. n |-> i] IN
      IsQuantile(Indices(n).p50 + 1, 50, s) /\ IsQuantile(Indices(n).p99 + 1, 99, s)

\* Every sample is the time that really passed, in whatever second it began
\* and ended, and the figures reported are quantiles of all samples, whatever
\* the length of the run.
FiguresAreOfSamples ==
  /\ samples = took
  /\ program = "process_creation" /\ step = "start" => IndicesAreRight
  /\ step = "reported" =>
       /\ Len(samples) = iterations
       /\ IsQuantile(figures.p50, 50, took) /\ IsQuantile(figures.p99, 99, took)
       /\ \A i \in DOMAIN took : figures.min <= took[i] /\ took[i] <= figures.max
       /\ {figures.min, figures.max} \subseteq {took[i] : i \in DOMAIN took}
=============================================================================
