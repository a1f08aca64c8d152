----------------------------- MODULE Workloads -----------------------------
(***************************************************************************)
(* What runs in a container: a run of one of the two pipelines, or one of  *)
(* the programs of benchmark/, which the pipelines run in the guest and    *)
(* the experiments in the lab container.  The programs run one at a time,  *)
(* and a pipeline sees of them what they print: the workload is chosen     *)
(* once, and the others keep their initial states.                         *)
(***************************************************************************)
EXTENDS Pipeline

CONSTANTS
  Workloads,                              \* the workloads to look at
  Rounds, Remainders, Capacity, CanDie,   \* see PipePrograms.tla
  Threads, Cpus, MaxRounds,               \* see Checks.tla
  Iterations, Second, Interval, Latest    \* see Samples.tla

VARIABLES
  program,                                \* the workload
  remainder, place, count, ends, held,    \* PipePrograms
  at, round, thread, loaded, counter, lock, hogs, failures, faults, verdict,  \* Checks
  iterations, step, busy, begin, now, took, samples, figures                        \* Samples

pipePrograms == <<remainder, place, count, ends, held>>
checks == <<at, round, thread, loaded, counter, lock, hogs, failures, faults, verdict>>
probes == <<iterations, step, busy, begin, now, took, samples, figures>>
wvars == <<vars, program, pipePrograms, checks, probes>>

Pipe == INSTANCE PipePrograms WITH pc <- place, data <- held
Check == INSTANCE Checks
Sample == INSTANCE Samples

ASSUME WorkloadAssumption ==
  /\ Workloads \subseteq {"pipeline", "context_switch", "ipc_throughput", "stress_test",
                          "posix_validation", "process_creation", "scheduler_latency"}
  /\ Pipe!PipeConstantsOK /\ Check!CheckConstantsOK /\ Sample!SampleConstantsOK

WInit ==
  /\ program \in Workloads
  /\ Init /\ Pipe!PipeInit /\ Check!CheckInit /\ Sample!SampleInit
  /\ program # "ipc_throughput" => remainder = CHOOSE r \in Remainders : TRUE
  /\ program \notin {"process_creation", "scheduler_latency"} =>
       /\ iterations = CHOOSE n \in Iterations : TRUE
       /\ now = Sample!Time(0)

WNext ==
  \/ program = "pipeline" /\ Next /\ UNCHANGED <<program, pipePrograms, checks, probes>>
  \/ Pipe!PipeNext /\ UNCHANGED <<vars, checks, probes>>
  \/ Check!CheckNext /\ UNCHANGED <<vars, pipePrograms, probes>>
  \/ Sample!SampleNext /\ UNCHANGED <<vars, pipePrograms, checks>>

\* Only the workload has steps that are enabled for good.
WSpec ==
  /\ WInit /\ [][WNext]_wvars
  /\ WF_vars(program = "pipeline" /\ ContainerStep)
  /\ WF_vars(program = "pipeline" /\ GeneratorStep)
  /\ Pipe!PipeFairness /\ Check!CheckFairness

(***************************************************************************)
(* The properties of the programs; those of Pipeline.tla keep their names. *)
(***************************************************************************)
\* The declared types of all of them.
WTypeOK == TypeOK /\ Pipe!PipeTypeOK /\ Check!CheckTypeOK /\ Sample!SampleTypeOK

\* See PipePrograms.tla, Checks.tla and Samples.tla.
ReportIsEarned == Pipe!ReportIsEarned
VerdictIsTrue == Check!VerdictIsTrue
FiguresAreOfSamples == Sample!FiguresAreOfSamples

\* Every program that began ends: see BothEnd in PipePrograms.tla and
\* VerdictComes in Checks.tla.  The other two have nothing to wait for.
ProgramsEnd == Pipe!BothEnd /\ Check!VerdictComes
=============================================================================
