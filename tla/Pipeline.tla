------------------------------ MODULE Pipeline ------------------------------
(***************************************************************************)
(* One run of patch_agent.run_patch_pipeline or of                         *)
(* qemu_agent.run_benchmark_pipeline: a shell script in a container of its *)
(* own, which marks its stages in its output, a docker client that pipes   *)
(* the output out, and the generator that reads the pipe line by line,     *)
(* waits for the client with a time limit, and judges.                     *)
(*                                                                         *)
(* Of the output only the markers and the guest's measurements count; all  *)
(* other lines are left out.                                               *)
(***************************************************************************)
EXTENDS Naturals, Sequences

CONSTANTS
  Measurements,  \* how many benchmarks the guest runs
  PipeSize,      \* bound: lines the pipe holds
  CanHang,       \* a stage may never end
  CanCrash       \* the backend may end

ASSUME PipelineAssumption ==
  /\ Measurements \in Nat /\ PipeSize \in Nat \ {0}
  /\ CanHang \in BOOLEAN /\ CanCrash \in BOOLEAN

VARIABLES
  plan,     \* the stages of the run, or <<>> before it began
  stage,    \* which of them the script is at
  phase,    \* "start" and "done" print its markers, "work" is between
  printed,  \* measurements the guest has printed
  exit,     \* the script: "none" while it runs, "ok" or "failed"
  hung,     \* the script will never get on
  client,   \* the docker client: "none", "running", "closed" (its output has
            \* ended), "ended" or "killed"
  pipe,     \* lines written and not yet read
  pc,       \* where the generator is
  events,   \* what it has yielded
  left,     \* what is still to be yielded before it returns
  scratch   \* the patch is in its scratch directory

vars == <<plan, stage, phase, printed, exit, hung, client, pipe, pc, events, left,
          scratch>>
script == <<stage, phase, printed, exit, hung, client>>

PatchPlan == <<"apply", "build", "boot", "compare", "report">>
BenchmarkPlan == <<"compile", "boot">>
Plans == {PatchPlan, BenchmarkPlan}

IsPatch == plan = PatchPlan
\* The stages after "boot" are the generator's own.
LastStage == IF IsPatch THEN 3 ELSE 2

Marker(name, status) == [type |-> "stage", stage |-> name, status |-> status]
Output(n) == [type |-> "output", line |-> n]
Error(name) == [type |-> "error", stage |-> name]
Result(data) == [type |-> "result", data |-> data]

Yielded(event) == \E i \in DOMAIN events : events[i] = event

\* parse_benchmark_output over the full output.
Parsed == {n \in 1 .. Measurements : Yielded(Output(n))}

Init ==
  /\ plan = <<>>
  /\ stage = 1
  /\ phase = "start"
  /\ printed = 0
  /\ exit = "none"
  /\ hung = FALSE
  /\ client = "none"
  /\ pipe = <<>>
  /\ pc = "idle"
  /\ events = <<>>
  /\ left = <<>>
  /\ scratch = FALSE

(***************************************************************************)
(* The container and its client.                                           *)
(***************************************************************************)
Running == client = "running" /\ exit = "none" /\ ~ hung

Write(line) == Len(pipe) < PipeSize /\ pipe' = Append(pipe, line)

Mark ==
  /\ Running
  /\ phase \in {"start", "done"}
  /\ Write(Marker(plan[stage], phase))
  /\ \/ phase = "start" /\ phase' = "work" /\ UNCHANGED <<stage, exit>>
     \/ /\ phase = "done"
        /\ \/ stage < LastStage /\ stage' = stage + 1 /\ phase' = "start" /\ UNCHANGED exit
           \/ stage = LastStage /\ exit' = "ok" /\ UNCHANGED <<stage, phase>>
  /\ UNCHANGED <<plan, printed, hung, client, pc, events, left, scratch>>

\* The stage's commands end well.  That is also how qemu ends when the guest
\* panics half way: panic=1 reboots it and -no-reboot makes qemu exit.
Work ==
  /\ Running
  /\ phase = "work"
  /\ phase' = "done"
  /\ UNCHANGED <<plan, stage, printed, exit, hung, client, pipe, pc, events, left, scratch>>

\* set -e; before the first marker it is docker run that fails.
Fail ==
  /\ Running
  /\ phase = "work" \/ (phase = "start" /\ stage = 1)
  /\ exit' = "failed"
  /\ UNCHANGED <<plan, stage, phase, printed, hung, client, pipe, pc, events, left, scratch>>

GuestPrints ==
  /\ Running
  /\ plan[stage] = "boot" /\ phase = "work"
  /\ printed < Measurements
  /\ printed' = printed + 1
  /\ Write(Output(printed'))
  /\ UNCHANGED <<plan, stage, phase, exit, hung, client, pc, events, left, scratch>>

\* Only the boot stage has a timeout of its own.
Hang ==
  /\ CanHang
  /\ Running
  /\ plan[stage] # "boot" /\ phase = "work"
  /\ hung' = TRUE
  /\ UNCHANGED <<plan, stage, phase, printed, exit, client, pipe, pc, events, left, scratch>>

CloseOutput ==
  /\ client = "running"
  /\ exit # "none"
  /\ client' = "closed"
  /\ UNCHANGED <<plan, stage, phase, printed, exit, hung, pipe, pc, events, left, scratch>>

\* With --rm the client waits for the container's removal, which may take long.
ClientEnds ==
  /\ client = "closed"
  /\ client' = "ended"
  /\ UNCHANGED <<plan, stage, phase, printed, exit, hung, pipe, pc, events, left, scratch>>

(***************************************************************************)
(* The generator.                                                          *)
(***************************************************************************)
\* What is left to yield before a return.
Conclude(last) == pc' = "closing" /\ left' = last /\ UNCHANGED events

\* An empty or too large patch, an unknown kernel.
Refuse(p) ==
  /\ pc = "idle"
  /\ plan' = p
  /\ Conclude(<<Error("none")>>)
  /\ UNCHANGED <<script, pipe, scratch>>

\* The patch pipeline writes the patch to a scratch directory first.
Begin(p) ==
  /\ pc = "idle"
  /\ plan' = p
  /\ pc' = "reading"
  /\ client' = "running"
  /\ scratch' = (p = PatchPlan)
  /\ UNCHANGED <<stage, phase, printed, exit, hung, pipe, events, left>>

\* There is no docker to start.
LaunchFails(p) ==
  /\ pc = "idle"
  /\ plan' = p
  /\ pc' = "dead"
  /\ UNCHANGED <<script, pipe, events, left, scratch>>

ReadLine ==
  /\ pc = "reading"
  /\ pipe # <<>>
  /\ events' = Append(events, Head(pipe))
  /\ pipe' = Tail(pipe)
  /\ UNCHANGED <<script, plan, pc, left, scratch>>

\* Mutant: a loop that polls the client, and stops reading when it has ended.
EndWhenClientEnded ==
  /\ pc = "reading"
  /\ client = "ended"
  /\ pc' = "waiting"
  /\ UNCHANGED <<script, plan, pipe, events, left, scratch>>

\* Mutant: a time limit that interrupts the reading as well.
EndOrInterrupt ==
  /\ pc = "reading"
  /\ \/ /\ pipe = <<>> /\ client \in {"closed", "ended"}
        /\ pc' = "waiting"
        /\ UNCHANGED <<client, events, left, scratch>>
     \/ Conclude(<<Error("none")>>) /\ client' = "killed" /\ scratch' = FALSE
  /\ UNCHANGED <<stage, phase, printed, exit, hung, plan, pipe>>

EndOfOutput ==
  /\ pc = "reading"
  /\ pipe = <<>> /\ client \in {"closed", "ended"}
  /\ pc' = "waiting"
  /\ UNCHANGED <<script, plan, pipe, events, left, scratch>>

\* Mutant: proc.wait without a limit.
NoTimeOut == FALSE

TimeOut ==
  /\ pc = "waiting"
  /\ client = "closed"
  /\ client' = "killed"
  /\ Conclude(<<Error("none")>>)
  /\ UNCHANGED <<stage, phase, printed, exit, hung, plan, pipe, scratch>>

\* Mutant: the stage that began last is blamed, counting from the other end.
FailedStageByStart ==
  IF Yielded(Marker("apply", "start")) THEN "apply"
  ELSE IF Yielded(Marker("build", "start")) THEN "build"
  ELSE "boot"

\* The stage to blame is the first one whose end was not seen.
FailedStage ==
  IF ~ Yielded(Marker("apply", "done")) THEN "apply"
  ELSE IF ~ Yielded(Marker("build", "done")) THEN "build"
  ELSE "boot"

\* Mutant: the exit code is not looked at.
JudgeByOutput ==
  /\ pc = "waiting"
  /\ client = "ended"
  /\ Conclude(IF ~ IsPatch THEN <<Result(Parsed)>>
              ELSE <<Marker("compare", "start"), Marker("compare", "done"),
                     Marker("report", "start"), Result(Parsed), Marker("report", "done")>>)
  /\ UNCHANGED <<script, plan, pipe, scratch>>

\* proc.wait returns.  Only the patch pipeline looks at the exit code.
Judge ==
  /\ pc = "waiting"
  /\ client = "ended"
  /\ Conclude(IF ~ IsPatch THEN <<Result(Parsed)>>
              ELSE IF exit = "failed" THEN <<Error(FailedStage)>>
              ELSE <<Marker("compare", "start"), Marker("compare", "done"),
                     Marker("report", "start"), Result(Parsed), Marker("report", "done")>>)
  /\ UNCHANGED <<script, plan, pipe, scratch>>

\* The finally clause removes the scratch directory after the last yield.
Yield ==
  /\ pc = "closing"
  /\ events' = Append(events, Head(left))
  /\ left' = Tail(left)
  /\ \/ left' # <<>> /\ UNCHANGED <<pc, scratch>>
     \/ left' = <<>> /\ pc' = "ended" /\ scratch' = FALSE
  /\ UNCHANGED <<script, plan, pipe>>

\* The backend ends: its daemon threads run no finally clause.
Crash ==
  /\ CanCrash
  /\ pc \in {"reading", "waiting", "closing"}
  /\ pc' = "dead"
  /\ UNCHANGED <<script, plan, pipe, events, left, scratch>>

ContainerStep == Mark \/ Work \/ Fail \/ GuestPrints \/ CloseOutput
GeneratorStep == ReadLine \/ EndOfOutput \/ TimeOut \/ Judge \/ Yield

Next ==
  \/ \E p \in Plans : Begin(p) \/ Refuse(p) \/ LaunchFails(p)
  \/ ContainerStep \/ Hang \/ ClientEnds
  \/ GeneratorStep
  \/ Crash

Spec == Init /\ [][Next]_vars

\* The container and the agent's thread get on; whether the client ends is up
\* to the daemon, and the limit on the wait is there for that.
FairSpec == Spec /\ WF_vars(ContainerStep) /\ WF_vars(GeneratorStep)

(***************************************************************************)
(* Properties.                                                             *)
(***************************************************************************)
Event ==
       [type : {"stage"}, stage : {"apply", "build", "boot", "compare", "report", "compile"},
        status : {"start", "done"}]
  \cup [type : {"output"}, line : 1 .. Measurements]
  \cup [type : {"error"}, stage : {"none", "apply", "build", "boot"}]
  \cup [type : {"result"}, data : SUBSET (1 .. Measurements)]

TypeOK ==
  /\ plan \in Plans \cup {<<>>}
  /\ stage \in 1 .. 3
  /\ phase \in {"start", "work", "done"}
  /\ printed \in 0 .. Measurements
  /\ exit \in {"none", "ok", "failed"}
  /\ hung \in BOOLEAN
  /\ client \in {"none", "running", "closed", "ended", "killed"}
  /\ pipe \in Seq(Event) /\ Len(pipe) <= PipeSize
  /\ pc \in {"idle", "reading", "waiting", "closing", "ended", "dead"}
  /\ events \in Seq(Event)
  /\ left \in Seq(Event)
  /\ scratch \in BOOLEAN

\* The generator sees the container only through the markers that came out of
\* the pipe; still the stage an error event names is the one the script failed
\* in (or that docker run kept it from entering).
ErrorNamesStage ==
  \A name \in {"apply", "build", "boot"} :
    Yielded(Error(name)) => exit = "failed" /\ plan[stage] = name

\* A result has every measurement the guest got out, and for a patch it comes
\* only after a script that ended well.
ResultIsWhole ==
  \A data \in SUBSET (1 .. Measurements) :
    Yielded(Result(data)) => data = 1 .. printed /\ (IsPatch => exit = "ok")

\* The script finds its patch for as long as it may read it, and the scratch
\* directory does not outlive the run.
ScratchLivesWithRun ==
  /\ IsPatch /\ client # "none" /\ stage = 1 /\ exit = "none" => scratch
  /\ pc = "ended" => ~ scratch

\* What the web UI relies on: stages begin in order and only after the one
\* before is done, one verdict, nothing after an error.
Status ==
  [i \in DOMAIN plan |->
     IF Yielded(Error(plan[i])) THEN "error"
     ELSE IF Yielded(Marker(plan[i], "done")) THEN "done"
     ELSE IF Yielded(Marker(plan[i], "start")) THEN "running"
     ELSE "idle"]

Verdict ==
  IF \E i \in DOMAIN events : events[i].type = "error" THEN "error"
  ELSE IF \E i \in DOMAIN events : events[i].type = "result" THEN "result"
  ELSE "none"

AsSeen == INSTANCE PipelineEvents WITH status <- Status, verdict <- Verdict
EventsInOrder == AsSeen!Spec

\* A run whose script does not hang ends, whatever fails and however long the
\* client lingers.
EndsUnlessHung == pc = "reading" ~> pc \in {"ended", "dead"} \/ hung

\* patch_agent.py:28, on PIPELINE_TIMEOUT_SEC: "15 minutes ceiling for
\* apply+build+boot".
CeilingHolds == pc = "reading" ~> pc \in {"ended", "dead"}
=============================================================================
