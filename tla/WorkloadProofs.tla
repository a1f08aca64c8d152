--------------------------- MODULE WorkloadProofs ---------------------------
(***************************************************************************)
(* Proofs about Workloads.  About Pipeline, for any number of              *)
(* measurements, a pipe of any size, with or without hanging stages and    *)
(* crashes:                                                                *)
(*                                                                         *)
(*   - the types (TypeCorrect);                                            *)
(*   - the scratch directory is there while the script may read it, and    *)
(*     not after the run (ScratchCorrect);                                 *)
(*   - an error names the stage that failed (BlameCorrect), and a result   *)
(*     has all the guest printed (ResultCorrect), although the generator   *)
(*     sees nothing but lines that came out of a pipe;                     *)
(*   - what a client sees of the events implements PipelineEvents          *)
(*     (Refinement);                                                       *)
(*   - a run whose script does not hang never gets stuck (RunsGoOn), and   *)
(*     its steps run out (RunsRunOut);                                     *)
(*   - a pipeline among the workloads is such a run                        *)
(*     (PipelineAmongWorkloads).                                           *)
(*                                                                         *)
(* About the benchmark programs, for any volume, pipe, number of threads,  *)
(* processors and rounds, any length of a run, interval and delay:         *)
(*                                                                         *)
(*   - figures are reported of whole runs only (EarnedCorrect);            *)
(*   - a RESULT is true (VerdictCorrect);                                  *)
(*   - every sample is the time that passed, and the figures printed are   *)
(*     the least, the largest and quantiles of them (FiguresCorrect);      *)
(*   - the types (WorkloadTypes);                                          *)
(*   - the two processes over pipes never wait for each other              *)
(*     (PipesProceed), nor threads for all others (JoinsProceed), and      *)
(*     their steps run out (PipesRunOut, ChecksRunOut).                    *)
(***************************************************************************)
EXTENDS Workloads, DataLemmas, TLAPS

USE PipelineAssumption

(***************************************************************************)
(* Members of a sequence, and events.                                      *)
(***************************************************************************)
In(e, s) == \E i \in DOMAIN s : s[i] = e

LEMMA InAppend ==
  ASSUME NEW S, NEW s \in Seq(S), NEW x
  PROVE  \A e : In(e, Append(s, x)) <=> In(e, s) \/ e = x
<1>1. /\ Len(s) \in Nat /\ DOMAIN s = 1 .. Len(s)
      /\ DOMAIN Append(s, x) = 1 .. Len(s) + 1
      /\ \A i \in 1 .. Len(s) : Append(s, x)[i] = s[i]
      /\ Append(s, x)[Len(s) + 1] = x
  OBVIOUS
<1>2. \A i \in 1 .. Len(s) + 1 : i \in 1 .. Len(s) \/ i = Len(s) + 1
  BY <1>1
<1>3. 1 .. Len(s) \subseteq 1 .. Len(s) + 1 /\ Len(s) + 1 \in 1 .. Len(s) + 1
  BY <1>1
<1> QED BY <1>1, <1>2, <1>3 DEF In

LEMMA InTail ==
  ASSUME NEW S, NEW s \in Seq(S), s # << >>
  PROVE  /\ Tail(s) \in Seq(S) /\ Head(s) \in S
         /\ \A e : In(e, s) <=> e = Head(s) \/ In(e, Tail(s))
<1>1. /\ Len(s) \in Nat \ {0} /\ DOMAIN s = 1 .. Len(s) /\ Head(s) = s[1]
      /\ Tail(s) \in Seq(S) /\ DOMAIN Tail(s) = 1 .. Len(s) - 1
      /\ \A i \in 1 .. Len(s) - 1 : Tail(s)[i] = s[i + 1]
  OBVIOUS
<1>2. \A i \in 1 .. Len(s) : i = 1 \/ (i - 1 \in 1 .. Len(s) - 1 /\ (i - 1) + 1 = i)
  BY <1>1
<1>3. \A i \in 1 .. Len(s) - 1 : i + 1 \in 1 .. Len(s)
  BY <1>1
<1>4. 1 \in 1 .. Len(s) /\ Head(s) \in S
  BY <1>1
<1> QED BY <1>1, <1>2, <1>3, <1>4 DEF In

LEMMA InEmpty == \A e : ~ In(e, << >>)
BY DEF In

LEMMA EventsApart ==
  /\ \A a, b, c, d : Marker(a, b) = Marker(c, d) => a = c /\ b = d
  /\ \A a, b : Marker(a, b).type = "stage"
  /\ \A m, n : Output(m) = Output(n) => m = n
  /\ \A n : Output(n).type = "output"
  /\ \A a : Error(a).type = "error" /\ Error(a).stage = a
  /\ \A d : Result(d).type = "result" /\ Result(d).data = d
<1>1. ASSUME NEW a, NEW b, NEW c, NEW d, Marker(a, b) = Marker(c, d) PROVE a = c /\ b = d
  <2>1. Marker(a, b).stage = a /\ Marker(a, b).status = b /\ Marker(c, d).stage = c /\ Marker(c, d).status = d
    BY DEF Marker
  <2> QED BY <1>1, <2>1
<1>2. ASSUME NEW m, NEW n, Output(m) = Output(n) PROVE m = n
  <2>1. Output(m).line = m /\ Output(n).line = n
    BY DEF Output
  <2> QED BY <1>2, <2>1
<1>3. \A a, b : Marker(a, b).type = "stage"
  BY DEF Marker
<1>4. \A n : Output(n).type = "output"
  BY DEF Output
<1>5. \A a : Error(a).type = "error" /\ Error(a).stage = a
  BY DEF Error
<1>6. \A d : Result(d).type = "result" /\ Result(d).data = d
  BY DEF Result
<1> QED BY <1>1, <1>2, <1>3, <1>4, <1>5, <1>6

(***************************************************************************)
(* Where the script, its client and the generator are.                     *)
(***************************************************************************)
\* A client that was not started has no script; one that has let go of the
\* output had a script that ended; the generator waits with an empty pipe.
ControlInv ==
  /\ pc = "idle" => client = "none" /\ plan = << >> /\ events = << >>
  /\ pc \in {"idle", "reading", "waiting"} => left = << >>
  /\ pc # "idle" => plan \in Plans
  /\ stage <= LastStage
  /\ client = "none" =>
       exit = "none" /\ pipe = << >> /\ stage = 1 /\ phase = "start" /\ printed = 0
  /\ exit = "ok" => stage = LastStage
  /\ client \in {"closed", "ended", "killed"} => exit # "none"
  /\ pc = "reading" => client \in {"running", "closed", "ended"}
  /\ pc = "waiting" => client \in {"closed", "ended"} /\ pipe = << >>
  /\ pc \in {"closing", "ended"} /\ client # "none" => exit # "none"
  /\ pc = "closing" => left # << >>

IInv == TypeOK /\ ControlInv

LEMMA PlanNames ==
  /\ DOMAIN PatchPlan = 1 .. 5 /\ DOMAIN BenchmarkPlan = 1 .. 2
  /\ PatchPlan # << >> /\ BenchmarkPlan # << >> /\ PatchPlan # BenchmarkPlan
  /\ PatchPlan[1] = "apply" /\ PatchPlan[2] = "build" /\ PatchPlan[3] = "boot"
  /\ BenchmarkPlan[1] = "compile" /\ BenchmarkPlan[2] = "boot"
<1>1. Len(PatchPlan) = 5 /\ Len(BenchmarkPlan) = 2
  BY DEF PatchPlan, BenchmarkPlan
<1>2. /\ DOMAIN PatchPlan = 1 .. 5 /\ DOMAIN BenchmarkPlan = 1 .. 2
      /\ PatchPlan[1] = "apply" /\ PatchPlan[2] = "build" /\ PatchPlan[3] = "boot"
      /\ BenchmarkPlan[1] = "compile" /\ BenchmarkPlan[2] = "boot"
  BY DEF PatchPlan, BenchmarkPlan
<1> QED BY <1>1, <1>2

\* The stages of the script, and that no two have a name in common.
LEMMA StageNames ==
  ASSUME plan \in Plans
  PROVE  /\ LastStage \in {2, 3} /\ (IsPatch <=> LastStage = 3)
         /\ \A i \in 1 .. LastStage : plan[i] \in {"apply", "build", "boot", "compile"}
         /\ \A i, j \in 1 .. LastStage : plan[i] = plan[j] => i = j
         /\ IsPatch => plan[1] = "apply" /\ plan[2] = "build" /\ plan[3] = "boot"
<1>1. CASE plan = PatchPlan
  <2>1. LastStage = 3 /\ IsPatch
    BY <1>1 DEF LastStage, IsPatch
  <2>2. \A i \in 1 .. 3 : i = 1 \/ i = 2 \/ i = 3
    OBVIOUS
  <2> QED BY <1>1, <2>1, <2>2, PlanNames
<1>2. CASE plan = BenchmarkPlan
  <2>1. LastStage = 2 /\ ~ IsPatch
    BY <1>2, PlanNames DEF LastStage, IsPatch
  <2>2. \A i \in 1 .. 2 : i = 1 \/ i = 2
    OBVIOUS
  <2> QED BY <1>2, <2>1, <2>2, PlanNames
<1> QED BY <1>1, <1>2 DEF Plans

(***************************************************************************)
(* The types.                                                              *)
(***************************************************************************)
Names == {"apply", "build", "boot", "compare", "report", "compile"}

LEMMA EventTypes ==
  /\ \A n \in Names, s \in {"start", "done"} : Marker(n, s) \in Event
  /\ \A n \in 1 .. Measurements : Output(n) \in Event
  /\ \A n \in {"none", "apply", "build", "boot"} : Error(n) \in Event
  /\ \A d \in SUBSET (1 .. Measurements) : Result(d) \in Event
<1>1. \A n \in Names, s \in {"start", "done"} : Marker(n, s) \in Event
  BY DEF Marker, Event, Names
<1>2. \A n \in 1 .. Measurements : Output(n) \in Event
  BY DEF Output, Event
<1>3. \A n \in {"none", "apply", "build", "boot"} : Error(n) \in Event
  BY DEF Error, Event
<1>4. \A d \in SUBSET (1 .. Measurements) : Result(d) \in Event
  BY DEF Result, Event
<1> QED BY <1>1, <1>2, <1>3, <1>4

\* A script that gets on is in one of its stages.
LEMMA RunningFacts ==
  ASSUME IInv, Running
  PROVE  /\ client = "running" /\ exit = "none" /\ pc \in {"reading", "dead"}
         /\ plan \in Plans /\ stage \in 1 .. LastStage
<1>1. pc # "idle" /\ client = "running" /\ exit = "none"
  BY DEF Running, IInv, ControlInv
<1>2. plan \in Plans /\ stage \in 1 .. LastStage
  BY <1>1, StageNames DEF IInv, ControlInv, TypeOK
<1> QED BY <1>1, <1>2 DEF IInv, ControlInv, TypeOK

LEMMA IInit == Init => IInv
<1> SUFFICES ASSUME Init PROVE IInv
  OBVIOUS
<1>1. << >> \in Seq(Event) /\ Len(<< >>) = 0
  OBVIOUS
<1>2. TypeOK
  <2>1. /\ plan \in Plans \cup {<< >>} /\ stage \in 1 .. 3
        /\ phase \in {"start", "work", "done"} /\ printed \in 0 .. Measurements
        /\ exit \in {"none", "ok", "failed"}
        /\ client \in {"none", "running", "closed", "ended", "killed"}
        /\ pc \in {"idle", "reading", "waiting", "closing", "ended", "dead"}
    BY DEF Init
  <2>2. hung \in BOOLEAN /\ scratch \in BOOLEAN
    BY DEF Init
  <2>3. /\ pipe \in Seq(Event) /\ Len(pipe) <= PipeSize
        /\ events \in Seq(Event) /\ left \in Seq(Event)
    BY <1>1 DEF Init
  <2> QED BY <2>1, <2>2, <2>3 DEF TypeOK
<1>3. ControlInv
  BY DEF Init, ControlInv, LastStage
<1> QED BY <1>2, <1>3 DEF IInv

LEMMA IMark == ASSUME IInv, Mark PROVE IInv'
<1>1. /\ client = "running" /\ exit = "none" /\ pc \in {"reading", "dead"}
      /\ plan \in Plans /\ stage \in 1 .. LastStage
  BY RunningFacts DEF Mark
<1>2. Marker(plan[stage], phase) \in Event
  <2>1. plan[stage] \in Names
    BY <1>1, StageNames DEF Names
  <2> QED BY <2>1, EventTypes DEF Mark
<1>3. pipe' \in Seq(Event) /\ Len(pipe') <= PipeSize
  BY <1>2 DEF Mark, Write, IInv, TypeOK
<1>4. /\ stage' \in 1 .. 3 /\ stage' <= LastStage
      /\ phase' \in {"start", "work", "done"} /\ exit' \in {"none", "ok"}
  BY <1>1, StageNames DEF Mark, IInv, TypeOK
<1>5. UNCHANGED <<plan, printed, hung, client, pc, events, left, scratch>>
  BY DEF Mark
<1>6. LastStage' = LastStage
  BY <1>5 DEF LastStage, IsPatch
<1>7. TypeOK'
  BY <1>3, <1>4, <1>5 DEF IInv, TypeOK
<1>8. ControlInv'
  <2>1. exit' = "ok" => stage' = LastStage
    BY <1>1 DEF Mark
  <2> QED BY <1>1, <1>4, <1>5, <1>6, <2>1 DEF IInv, ControlInv
<1> QED BY <1>7, <1>8 DEF IInv

LEMMA IContainer ==
  ASSUME IInv, Work \/ Fail \/ GuestPrints \/ Hang \/ CloseOutput \/ ClientEnds PROVE IInv'
<1>1. UNCHANGED <<plan, stage, pc, events, left, scratch>>
  BY DEF Work, Fail, GuestPrints, Hang, CloseOutput, ClientEnds
<1>2. LastStage' = LastStage
  BY <1>1 DEF LastStage, IsPatch
<1>3. CASE Work \/ Fail \/ Hang
  <2>1. Running /\ UNCHANGED <<client, pipe, printed>>
    BY <1>3 DEF Work, Fail, Hang
  <2>2. client = "running" /\ pc \in {"reading", "dead"}
    BY <2>1, RunningFacts
  <2>3. TypeOK'
    BY <1>1, <1>3, <2>1 DEF Work, Fail, Hang, IInv, TypeOK
  <2>4. exit' # "ok"
    BY <1>3, <2>1 DEF Work, Fail, Hang, Running
  <2>5. ControlInv'
    BY <1>1, <1>2, <2>1, <2>2, <2>4 DEF IInv, ControlInv
  <2> QED BY <2>3, <2>5 DEF IInv
<1>4. CASE GuestPrints
  <2>1. client = "running" /\ pc \in {"reading", "dead"}
    BY <1>4, RunningFacts DEF GuestPrints
  <2>2. printed' \in 1 .. Measurements
    BY <1>4 DEF GuestPrints, IInv, TypeOK
  <2>3. pipe' \in Seq(Event) /\ Len(pipe') <= PipeSize
    BY <1>4, <2>2, EventTypes DEF GuestPrints, Write, IInv, TypeOK
  <2>4. TypeOK'
    BY <1>1, <1>4, <2>2, <2>3 DEF GuestPrints, IInv, TypeOK
  <2>5. ControlInv'
    BY <1>1, <1>2, <1>4, <2>1 DEF GuestPrints, IInv, ControlInv
  <2> QED BY <2>4, <2>5 DEF IInv
<1>5. CASE CloseOutput \/ ClientEnds
  <2>1. TypeOK'
    BY <1>1, <1>5 DEF CloseOutput, ClientEnds, IInv, TypeOK
  <2>2. ControlInv'
    BY <1>1, <1>2, <1>5 DEF CloseOutput, ClientEnds, IInv, ControlInv
  <2> QED BY <2>1, <2>2 DEF IInv
<1> QED BY <1>3, <1>4, <1>5

LEMMA IBegin ==
  ASSUME IInv, NEW p \in Plans, Begin(p) \/ Refuse(p) \/ LaunchFails(p) PROVE IInv'
<1>1. /\ pc = "idle" /\ client = "none" /\ exit = "none" /\ pipe = << >> /\ stage = 1
      /\ printed = 0 /\ events = << >> /\ left = << >>
  BY DEF Begin, Refuse, LaunchFails, IInv, ControlInv
<1>2. /\ plan' = p /\ UNCHANGED <<stage, phase, printed, exit, hung, pipe, events>>
      /\ client' \in {"none", "running"}
  BY <1>1 DEF Begin, Refuse, LaunchFails, Conclude, script
<1>3. /\ pc' \in {"reading", "closing", "dead"} /\ left' \in {<< >>, <<Error("none")>>}
      /\ pc' = "reading" => client' = "running" /\ left' = << >>
      /\ pc' = "closing" => left' # << >> /\ client' = "none"
  BY <1>1 DEF Begin, Refuse, LaunchFails, Conclude, script
<1>4. left' \in Seq(Event)
  <2>1. Error("none") \in Event
    BY EventTypes
  <2>2. <<Error("none")>> \in Seq(Event)
    BY <2>1
  <2>3. << >> \in Seq(Event)
    OBVIOUS
  <2> QED BY <1>3, <2>2, <2>3
<1>8. scratch' \in BOOLEAN
  <2>1. scratch' = scratch \/ scratch' = (p = PatchPlan)
    BY DEF Begin, Refuse, LaunchFails, script
  <2>2. scratch \in BOOLEAN
    BY DEF IInv, TypeOK
  <2> QED BY <2>1, <2>2
<1>5. stage' <= LastStage'
  BY <1>1, <1>2 DEF LastStage
<1>6. TypeOK'
  BY <1>2, <1>3, <1>4, <1>8 DEF IInv, TypeOK
<1>7. ControlInv'
  BY <1>1, <1>2, <1>3, <1>5 DEF IInv, ControlInv
<1> QED BY <1>6, <1>7 DEF IInv

\* What Judge leaves to be yielded.
LEMMA Verdicts ==
  ASSUME Judge
  PROVE  \/ IsPatch /\ exit = "failed" /\ left' = <<Error(FailedStage)>>
         \/ ~ IsPatch /\ left' = <<Result(Parsed)>>
         \/ /\ IsPatch /\ exit # "failed"
            /\ left' = <<Marker("compare", "start"), Marker("compare", "done"),
                         Marker("report", "start"), Result(Parsed), Marker("report", "done")>>
BY DEF Judge, Conclude

LEMMA IJudge == ASSUME IInv, Judge PROVE IInv'
<1>1. /\ pc = "waiting" /\ client = "ended" /\ pc' = "closing"
      /\ UNCHANGED <<plan, stage, phase, printed, exit, hung, client, pipe, events, scratch>>
  BY DEF Judge, Conclude, script
<1>2. left' \in Seq(Event) /\ left' # << >>
  <2>1. Error(FailedStage) \in Event
    BY EventTypes DEF FailedStage
  <2>2. Result(Parsed) \in Event
    BY EventTypes DEF Parsed
  <2>3. /\ Marker("compare", "start") \in Event /\ Marker("compare", "done") \in Event
        /\ Marker("report", "start") \in Event /\ Marker("report", "done") \in Event
    BY EventTypes DEF Names
  <2> DEFINE e == Error(FailedStage)
             r == Result(Parsed)
             a == Marker("compare", "start")
             b == Marker("compare", "done")
             c == Marker("report", "start")
             d == Marker("report", "done")
  <2>4. left' \in {<<e>>, <<r>>, <<a, b, c, r, d>>}
    BY Verdicts
  <2> HIDE DEF e, r, a, b, c, d
  <2>5. <<e>> \in Seq(Event) /\ <<r>> \in Seq(Event) /\ <<a, b, c, r, d>> \in Seq(Event)
    BY <2>1, <2>2, <2>3 DEF e, r, a, b, c, d
  <2>6. <<e>> # << >> /\ <<r>> # << >> /\ <<a, b, c, r, d>> # << >>
    OBVIOUS
  <2> QED BY <2>4, <2>5, <2>6, Zenon
<1>3. TypeOK'
  BY <1>1, <1>2 DEF IInv, TypeOK
<1>4. ControlInv'
  BY <1>1, <1>2 DEF IInv, ControlInv, LastStage, IsPatch
<1> QED BY <1>3, <1>4 DEF IInv

LEMMA IGenerator ==
  ASSUME IInv, ReadLine \/ EndOfOutput \/ TimeOut \/ Yield \/ Crash PROVE IInv'
<1>1. UNCHANGED <<plan, stage, phase, printed, exit, hung>>
  BY DEF ReadLine, EndOfOutput, TimeOut, Yield, Crash, script
<1>2. LastStage' = LastStage
  BY <1>1 DEF LastStage, IsPatch
<1>3. CASE ReadLine
  <2>1. pc = "reading" /\ pipe # << >> /\ UNCHANGED <<pc, client, left, scratch>>
    BY <1>3 DEF ReadLine, script
  <2>2. pipe \in Seq(Event) /\ events \in Seq(Event) /\ Len(pipe) <= PipeSize
    BY DEF IInv, TypeOK
  <2>3. events' \in Seq(Event) /\ pipe' \in Seq(Event) /\ Len(pipe') <= PipeSize
    <3>1. Head(pipe) \in Event /\ Tail(pipe) \in Seq(Event) /\ Len(Tail(pipe)) = Len(pipe) - 1
      BY <2>1, <2>2
    <3>2. events' = Append(events, Head(pipe)) /\ pipe' = Tail(pipe)
      BY <1>3 DEF ReadLine
    <3>3. Len(pipe) \in Nat /\ PipeSize \in Nat
      BY <2>2
    <3> QED BY <2>2, <3>1, <3>2, <3>3
  <2>4. TypeOK'
    BY <1>1, <2>1, <2>3 DEF IInv, TypeOK
  <2>5. ControlInv'
    <3>1. client # "none"
      BY <2>1 DEF IInv, ControlInv
    <3> QED BY <1>1, <1>2, <2>1, <3>1 DEF IInv, ControlInv
  <2> QED BY <2>4, <2>5 DEF IInv
<1>4. CASE EndOfOutput \/ Crash
  <2>1. TypeOK'
    BY <1>1, <1>4 DEF EndOfOutput, Crash, script, IInv, TypeOK
  <2>2. ControlInv'
    BY <1>1, <1>2, <1>4 DEF EndOfOutput, Crash, script, IInv, ControlInv
  <2> QED BY <2>1, <2>2 DEF IInv
<1>5. CASE TimeOut
  <2>1. left' \in Seq(Event) /\ left' # << >>
    BY <1>5, EventTypes DEF TimeOut, Conclude
  <2>2. TypeOK'
    BY <1>1, <1>5, <2>1 DEF TimeOut, Conclude, IInv, TypeOK
  <2>3. ControlInv'
    BY <1>1, <1>2, <1>5, <2>1 DEF TimeOut, Conclude, IInv, ControlInv
  <2> QED BY <2>2, <2>3 DEF IInv
<1>6. CASE Yield
  <2>1. left # << >> /\ pc = "closing" /\ left \in Seq(Event) /\ events \in Seq(Event)
    BY <1>6 DEF Yield, IInv, ControlInv, TypeOK
  <2>2. events' \in Seq(Event) /\ left' \in Seq(Event)
    BY <1>6, <2>1 DEF Yield
  <2>3. TypeOK'
    BY <1>1, <1>6, <2>1, <2>2 DEF Yield, script, IInv, TypeOK
  <2>4. ControlInv'
    BY <1>1, <1>2, <1>6, <2>1 DEF Yield, script, IInv, ControlInv
  <2> QED BY <2>3, <2>4 DEF IInv
<1> QED BY <1>3, <1>4, <1>5, <1>6

LEMMA IStep == IInv /\ [Next]_vars => IInv'
<1> SUFFICES ASSUME IInv, [Next]_vars PROVE IInv'
  OBVIOUS
<1>1. CASE UNCHANGED vars
  BY <1>1 DEF vars, IInv, TypeOK, ControlInv, LastStage, IsPatch
<1> QED BY <1>1, IMark, IContainer, IBegin, IJudge, IGenerator
     DEF Next, ContainerStep, GeneratorStep

\* Every reachable state of a run has the declared types.
THEOREM TypeCorrect == Spec => []TypeOK
<1>1. IInv => TypeOK
  BY DEF IInv
<1> QED BY <1>1, IInit, IStep, PTL DEF Spec

(***************************************************************************)
(* The scratch directory.                                                  *)
(***************************************************************************)
\* While the script may run the generator has not yielded its last event.
ScratchInv ==
  /\ IsPatch /\ client # "none" /\ exit = "none" => scratch
  /\ pc = "ended" => ~ scratch

\* patch_agent.py: the scratch directory is there for as long as the script may
\* still read the patch, and is gone when the run has ended.
THEOREM ScratchCorrect == Spec => []ScratchLivesWithRun
<1>1. Init => ScratchInv
  BY DEF Init, ScratchInv
<1>2. IInv /\ ScratchInv /\ [Next]_vars => ScratchInv'
  <2> SUFFICES ASSUME IInv, ScratchInv, [Next]_vars PROVE ScratchInv'
    OBVIOUS
  <2>1. CASE Mark \/ Work \/ Fail \/ GuestPrints \/ Hang \/ CloseOutput \/ ClientEnds
    BY <2>1 DEF Mark, Work, Fail, GuestPrints, Hang, CloseOutput, ClientEnds, Running,
                ScratchInv, IsPatch
  <2>2. CASE \E p \in Plans : Begin(p) \/ Refuse(p) \/ LaunchFails(p)
    BY <2>2 DEF Begin, Refuse, LaunchFails, Conclude, script, ScratchInv, IsPatch,
                IInv, ControlInv
  <2>3. CASE ReadLine \/ EndOfOutput \/ TimeOut \/ Judge \/ Crash \/ UNCHANGED vars
    BY <2>3 DEF ReadLine, EndOfOutput, TimeOut, Judge, Conclude, Crash, script, vars,
                ScratchInv, IsPatch
  <2>4. CASE Yield
    BY <2>4 DEF Yield, script, ScratchInv, IsPatch, IInv, ControlInv
  <2> QED BY <2>1, <2>2, <2>3, <2>4 DEF Next, ContainerStep, GeneratorStep
<1>3. ScratchInv => ScratchLivesWithRun
  BY DEF ScratchInv, ScratchLivesWithRun
<1> QED BY <1>1, <1>2, <1>3, IInit, IStep, PTL DEF Spec

(***************************************************************************)
(* What comes out of the pipe.                                             *)
(***************************************************************************)
Out(e) == Yielded(e) \/ In(e, pipe)

\* The script's progress can be read off what was written: a stage is past just
\* when the mark of its end is, and so for what the guest printed.
MarkInv ==
  pc \in {"reading", "waiting"} =>
    /\ \A i \in 1 .. LastStage :
         Out(Marker(plan[i], "done")) <=> i < stage \/ (i = stage /\ exit = "ok")
    /\ \A n \in 1 .. Measurements : Out(Output(n)) <=> n <= printed

\* The script writes no verdict, and the generator none that is not true.
VerdictInv ==
  /\ \A e : In(e, pipe) => e.type \in {"stage", "output"}
  /\ \A e : Yielded(e) \/ In(e, left) =>
       /\ e.type = "error" =>
            e.stage = "none" \/ (exit = "failed" /\ plan[stage] = e.stage)
       /\ e.type = "result" =>
            e.data = 1 .. printed /\ exit # "none" /\ (IsPatch => exit = "ok")

BInv == IInv /\ MarkInv /\ VerdictInv

LEMMA YieldedIn == \A e : Yielded(e) <=> In(e, events)
BY DEF Yielded, In

LEMMA BInit == Init => BInv
<1> SUFFICES ASSUME Init PROVE BInv
  OBVIOUS
<1>1. pc = "idle" /\ pipe = << >> /\ events = << >> /\ left = << >>
  BY DEF Init
<1>2. MarkInv
  BY <1>1 DEF MarkInv
<1>3. VerdictInv
  BY <1>1, InEmpty, YieldedIn DEF VerdictInv
<1> QED BY <1>2, <1>3, IInit DEF BInv

\* One more line in the pipe.
LEMMA OneMore ==
  ASSUME IInv, NEW x, Write(x), events' = events
  PROVE  /\ \A e : In(e, pipe') <=> In(e, pipe) \/ e = x
         /\ \A e : Out(e)' <=> Out(e) \/ e = x
         /\ \A e : Yielded(e)' <=> Yielded(e)
<1>1. pipe' = Append(pipe, x) /\ pipe \in Seq(Event)
  BY DEF Write, IInv, TypeOK
<1>2. \A e : In(e, pipe') <=> In(e, pipe) \/ e = x
  BY <1>1, InAppend
<1>3. \A e : Yielded(e)' <=> Yielded(e)
  BY DEF Yielded
<1> QED BY <1>2, <1>3 DEF Out

\* While the script runs nothing was said of it.
LEMMA NoVerdictYet ==
  ASSUME VerdictInv, exit = "none", UNCHANGED <<events, left>>
  PROVE  \A e : Yielded(e)' \/ In(e, left') =>
           (e.type = "error" => e.stage = "none") /\ e.type # "result"
<1>1. \A e : Yielded(e)' <=> Yielded(e)
  BY DEF Yielded
<1> QED BY <1>1 DEF VerdictInv

LEMMA BMark == ASSUME BInv, Mark PROVE BInv'
<1> DEFINE x == Marker(plan[stage], phase)
<1>1. /\ client = "running" /\ exit = "none" /\ pc \in {"reading", "dead"}
      /\ plan \in Plans /\ stage \in 1 .. LastStage
  BY RunningFacts DEF Mark, BInv
<1>2. /\ UNCHANGED <<plan, printed, pc, events, left>> /\ Write(x)
      /\ phase \in {"start", "done"}
  BY DEF Mark
<1>3. IsPatch' = IsPatch /\ LastStage' = LastStage /\ LastStage \in {2, 3}
  BY <1>1, <1>2, StageNames DEF IsPatch, LastStage
<1>4. x.type = "stage"
  BY EventsApart
<1>5. /\ \A e : In(e, pipe') <=> In(e, pipe) \/ e = x
      /\ \A e : Out(e)' <=> Out(e) \/ e = x
  BY <1>2, OneMore DEF BInv
<1>6. IInv'
  BY IMark DEF BInv
<1>7. VerdictInv'
  <2>1. \A e : Yielded(e)' \/ In(e, left') =>
          (e.type = "error" => e.stage = "none") /\ e.type # "result"
    BY <1>1, <1>2, NoVerdictYet DEF BInv
  <2>2. \A e : In(e, pipe') => e.type \in {"stage", "output"}
    BY <1>4, <1>5 DEF BInv, VerdictInv
  <2> QED BY <2>1, <2>2 DEF VerdictInv
<1>8. MarkInv'
  <2> SUFFICES ASSUME pc = "reading" PROVE MarkInv'
    BY <1>1, <1>2 DEF MarkInv
  <2>1. \A n \in 1 .. Measurements : Output(n) # x
    BY <1>4, EventsApart
  <2>2. \A n \in 1 .. Measurements : Out(Output(n))' <=> n <= printed'
    BY <1>2, <1>5, <2>1 DEF BInv, MarkInv
  <2>3. \A i \in 1 .. LastStage : Out(Marker(plan[i], "done")) <=> i < stage
    BY <1>1 DEF BInv, MarkInv
  <2>4. \A i \in 1 .. LastStage : Marker(plan[i], "done") = x <=> i = stage /\ phase = "done"
    BY <1>1, StageNames, EventsApart
  <2>5. \A i \in 1 .. LastStage :
          Out(Marker(plan[i], "done"))' <=> i < stage \/ (i = stage /\ phase = "done")
    BY <1>2, <1>5, <2>3, <2>4
  <2>6. \A i \in 1 .. LastStage :
          i < stage \/ (i = stage /\ phase = "done")
            <=> i < stage' \/ (i = stage' /\ exit' = "ok")
    <3>1. CASE phase = "start"
      BY <1>1, <3>1 DEF Mark
    <3>2. CASE phase = "done" /\ stage < LastStage /\ stage' = stage + 1 /\ exit' = exit
      BY <1>1, <1>3, <3>2
    <3>3. CASE phase = "done" /\ exit' = "ok" /\ stage' = stage
      BY <1>1, <1>3, <3>3
    <3> QED BY <1>2, <3>1, <3>2, <3>3 DEF Mark
  <2>7. \A i \in 1 .. LastStage' :
          Out(Marker(plan[i], "done"))' <=> i < stage' \/ (i = stage' /\ exit' = "ok")
    BY <1>3, <2>5, <2>6
  <2> QED BY <1>2, <2>2, <2>7 DEF MarkInv
<1> QED BY <1>6, <1>7, <1>8 DEF BInv

LEMMA BGuestPrints == ASSUME BInv, GuestPrints PROVE BInv'
<1> DEFINE x == Output(printed + 1)
<1>1. /\ client = "running" /\ exit = "none" /\ pc \in {"reading", "dead"}
      /\ plan \in Plans /\ stage \in 1 .. LastStage
  BY RunningFacts DEF GuestPrints, BInv
<1>2. /\ UNCHANGED <<plan, stage, exit, pc, events, left>> /\ Write(x)
      /\ printed' = printed + 1 /\ printed \in Nat /\ printed < Measurements
  BY DEF GuestPrints, BInv, IInv, TypeOK
<1>3. IsPatch' = IsPatch /\ LastStage' = LastStage
  BY <1>2 DEF IsPatch, LastStage
<1>4. x.type = "output"
  BY EventsApart
<1>5. /\ \A e : In(e, pipe') <=> In(e, pipe) \/ e = x
      /\ \A e : Out(e)' <=> Out(e) \/ e = x
  BY <1>2, OneMore DEF BInv
<1>6. IInv'
  BY IContainer DEF BInv
<1>7. VerdictInv'
  <2>1. \A e : Yielded(e)' \/ In(e, left') =>
          (e.type = "error" => e.stage = "none") /\ e.type # "result"
    BY <1>1, <1>2, NoVerdictYet DEF BInv
  <2>2. \A e : In(e, pipe') => e.type \in {"stage", "output"}
    BY <1>4, <1>5 DEF BInv, VerdictInv
  <2> QED BY <2>1, <2>2 DEF VerdictInv
<1>8. MarkInv'
  <2> SUFFICES ASSUME pc = "reading" PROVE MarkInv'
    BY <1>1, <1>2 DEF MarkInv
  <2>1. \A n \in 1 .. Measurements : Out(Output(n))' <=> n <= printed \/ n = printed + 1
    BY <1>5, EventsApart DEF BInv, MarkInv
  <2>2. \A n \in 1 .. Measurements : Out(Output(n))' <=> n <= printed'
    BY <1>2, <2>1
  <2>3. \A i \in 1 .. LastStage : Marker(plan[i], "done") # x
    BY <1>4, EventsApart
  <2>4. \A i \in 1 .. LastStage' :
          Out(Marker(plan[i], "done"))' <=> i < stage' \/ (i = stage' /\ exit' = "ok")
    BY <1>2, <1>3, <1>5, <2>3 DEF BInv, MarkInv
  <2> QED BY <1>2, <2>2, <2>4 DEF MarkInv
<1> QED BY <1>6, <1>7, <1>8 DEF BInv

\* What moves neither lines nor events; a stage that fails was not past.
LEMMA BStill ==
  ASSUME BInv, UNCHANGED <<plan, stage, printed, pc, events, left, pipe>>, IInv',
         exit' = exit \/ (exit = "none" /\ exit' = "failed")
  PROVE  BInv'
<1>1. IsPatch' = IsPatch /\ LastStage' = LastStage /\ \A e : (Yielded(e)' <=> Yielded(e)) /\ (Out(e)' <=> Out(e))
  BY DEF IsPatch, LastStage, Yielded, Out, In
<1>2. MarkInv'
  BY <1>1 DEF BInv, MarkInv
<1>3. VerdictInv'
  BY <1>1 DEF BInv, VerdictInv
<1> QED BY <1>2, <1>3 DEF BInv

LEMMA BBegin ==
  ASSUME BInv, NEW p \in Plans, Begin(p) \/ Refuse(p) \/ LaunchFails(p) PROVE BInv'
<1>1. /\ pc = "idle" /\ exit = "none" /\ pipe = << >> /\ stage = 1
      /\ printed = 0 /\ events = << >> /\ left = << >>
  BY DEF Begin, Refuse, LaunchFails, BInv, IInv, ControlInv
<1>2. UNCHANGED <<stage, printed, exit, pipe, events>> /\ left' \in {<< >>, <<Error("none")>>}
  BY <1>1 DEF Begin, Refuse, LaunchFails, Conclude, script
<1>3. \A e : ~ In(e, pipe') /\ ~ Yielded(e)' /\ (In(e, left') => e = Error("none"))
  BY <1>1, <1>2 DEF In, Yielded
<1>4. IInv'
  BY IBegin DEF BInv
<1>5. VerdictInv'
  BY <1>3, EventsApart DEF VerdictInv
<1>6. MarkInv'
  <2>1. \A e : ~ Out(e)'
    BY <1>3 DEF Out
  <2>2. \A i \in 1 .. LastStage' : ~ (i < stage' \/ (i = stage' /\ exit' = "ok"))
    BY <1>1, <1>2 DEF LastStage
  <2>3. \A n \in 1 .. Measurements : ~ (n <= printed')
    BY <1>1, <1>2
  <2> QED BY <2>1, <2>2, <2>3 DEF MarkInv
<1> QED BY <1>4, <1>5, <1>6 DEF BInv

LEMMA BReadLine == ASSUME BInv, ReadLine PROVE BInv'
<1>1. /\ pc = "reading" /\ pipe # << >> /\ UNCHANGED <<plan, stage, printed, exit, pc, left>>
      /\ events' = Append(events, Head(pipe)) /\ pipe' = Tail(pipe)
      /\ pipe \in Seq(Event) /\ events \in Seq(Event)
  BY DEF ReadLine, script, BInv, IInv, TypeOK
<1>2. \A e : Yielded(e)' <=> Yielded(e) \/ e = Head(pipe)
  <2>1. \A e : Yielded(e)' <=> In(e, events')
    BY DEF Yielded, In
  <2> QED BY <1>1, <2>1, InAppend, YieldedIn
<1>3. \A e : In(e, pipe) <=> e = Head(pipe) \/ In(e, pipe')
  BY <1>1, InTail
<1>4. \A e : Out(e)' <=> Out(e)
  BY <1>2, <1>3 DEF Out
<1>5. IsPatch' = IsPatch /\ LastStage' = LastStage
  BY <1>1 DEF IsPatch, LastStage
<1>6. IInv'
  BY IGenerator DEF BInv
<1>7. MarkInv'
  BY <1>1, <1>4, <1>5 DEF BInv, MarkInv
<1>8. VerdictInv'
  <2>1. Head(pipe).type \in {"stage", "output"} /\ \A e : In(e, pipe') => e.type \in {"stage", "output"}
    BY <1>3 DEF BInv, VerdictInv
  <2> QED BY <1>1, <1>2, <1>5, <2>1 DEF BInv, VerdictInv
<1> QED BY <1>6, <1>7, <1>8 DEF BInv

\* At the end of the output everything written was yielded.
LEMMA Blamed ==
  ASSUME BInv, pc = "waiting", IsPatch, exit = "failed" PROVE FailedStage = plan[stage]
<1>1. plan \in Plans /\ pipe = << >> /\ stage \in 1 .. LastStage
  <2>1. plan \in Plans /\ pipe = << >> /\ stage \in 1 .. 3 /\ stage <= LastStage
    BY DEF BInv, IInv, ControlInv, TypeOK
  <2> QED BY <2>1, StageNames
<1>2. \A x : Out(x) <=> Yielded(x)
  BY <1>1, InEmpty DEF Out
<1>3. LastStage = 3 /\ plan[1] = "apply" /\ plan[2] = "build" /\ plan[3] = "boot"
  BY <1>1, StageNames
<1>4. \A i \in 1 .. 3 : Yielded(Marker(plan[i], "done")) <=> i < stage
  BY <1>1, <1>2, <1>3 DEF BInv, MarkInv
<1>5. (Yielded(Marker("apply", "done")) <=> 1 < stage) /\ (Yielded(Marker("build", "done")) <=> 2 < stage)
  BY <1>3, <1>4
<1>6. stage = 1 \/ stage = 2 \/ stage = 3
  BY <1>1, <1>3
<1> QED BY <1>3, <1>5, <1>6 DEF FailedStage

\* The verdict is true when it is made.
LEMMA TrueVerdict ==
  ASSUME BInv, Judge, NEW e, In(e, left')
  PROVE  /\ e.type = "error" =>
              e.stage = "none" \/ (exit = "failed" /\ plan[stage] = e.stage)
         /\ e.type = "result" =>
              e.data = 1 .. printed /\ exit # "none" /\ (IsPatch => exit = "ok")
<1>1. /\ pc = "waiting" /\ client = "ended" /\ plan \in Plans /\ pipe = << >>
      /\ exit \in {"ok", "failed"} /\ stage \in 1 .. LastStage /\ printed \in 0 .. Measurements
  <2>1. /\ pc = "waiting" /\ client = "ended" /\ plan \in Plans /\ pipe = << >>
        /\ exit # "none" /\ exit \in {"none", "ok", "failed"} /\ stage \in 1 .. 3
        /\ stage <= LastStage /\ printed \in 0 .. Measurements
    BY DEF Judge, BInv, IInv, ControlInv, TypeOK
  <2> QED BY <2>1, StageNames
<1>2. \A x : Out(x) <=> Yielded(x)
  BY <1>1, InEmpty DEF Out
<1>3. Parsed = 1 .. printed
  <2>1. \A n \in 1 .. Measurements : Yielded(Output(n)) <=> n <= printed
    BY <1>1, <1>2 DEF BInv, MarkInv
  <2> QED BY <1>1, <2>1 DEF Parsed
<1>4. IsPatch /\ exit = "failed" => FailedStage = plan[stage]
  BY Blamed DEF Judge
<1>5. CASE IsPatch /\ exit = "failed" /\ left' = <<Error(FailedStage)>>
  <2>1. e = Error(FailedStage)
    BY <1>5 DEF In
  <2> QED BY <1>4, <1>5, <2>1, EventsApart
<1>6. CASE e = Result(Parsed) /\ (IsPatch => exit = "ok")
  BY <1>1, <1>3, <1>6, EventsApart
<1>7. CASE e.type = "stage"
  BY <1>7
<1>8. CASE IsPatch /\ exit # "failed"
  <2> DEFINE r == Result(Parsed)
             a == Marker("compare", "start")
             b == Marker("compare", "done")
             c == Marker("report", "start")
             d == Marker("report", "done")
  <2>1. left' = <<a, b, c, r, d>>
    BY <1>8, Verdicts
  <2>2. a.type = "stage" /\ b.type = "stage" /\ c.type = "stage" /\ d.type = "stage"
    BY EventsApart
  <2> HIDE DEF a, b, c, d, r
  <2>3. e = a \/ e = b \/ e = c \/ e = r \/ e = d
    BY <2>1 DEF In
  <2>4. e.type = "stage" \/ e = r
    BY <2>2, <2>3
  <2> QED BY <1>1, <1>6, <1>7, <1>8, <2>4 DEF r
<1>9. CASE ~ IsPatch /\ left' = <<Result(Parsed)>>
  <2>1. e = Result(Parsed)
    BY <1>9 DEF In
  <2> QED BY <1>6, <1>9, <2>1
<1> QED BY <1>5, <1>8, <1>9, Verdicts

LEMMA BConclude == ASSUME BInv, Judge \/ TimeOut PROVE BInv'
<1>1. /\ pc' = "closing" /\ UNCHANGED <<plan, stage, printed, exit, pipe, events>>
  BY DEF Judge, TimeOut, Conclude, script
<1>2. IsPatch' = IsPatch /\ \A e : Yielded(e)' <=> Yielded(e)
  BY <1>1 DEF IsPatch, Yielded
<1>3. IInv'
  BY IJudge, IGenerator DEF BInv
<1>4. MarkInv'
  BY <1>1 DEF MarkInv
<1>5. ASSUME TimeOut, NEW e, In(e, left') PROVE e = Error("none")
  BY <1>5 DEF TimeOut, Conclude, In
<1>6. \A e : In(e, left') =>
        /\ e.type = "error" =>
             e.stage = "none" \/ (exit = "failed" /\ plan[stage] = e.stage)
        /\ e.type = "result" =>
             e.data = 1 .. printed /\ exit # "none" /\ (IsPatch => exit = "ok")
  BY <1>5, TrueVerdict, EventsApart
<1>7. VerdictInv'
  BY <1>1, <1>2, <1>6 DEF BInv, VerdictInv
<1> QED BY <1>3, <1>4, <1>7 DEF BInv

LEMMA BYield == ASSUME BInv, Yield PROVE BInv'
<1>1. /\ left # << >> /\ UNCHANGED <<plan, stage, printed, exit, pipe>>
      /\ events' = Append(events, Head(left)) /\ left' = Tail(left)
      /\ left \in Seq(Event) /\ events \in Seq(Event) /\ pc' \in {"closing", "ended"}
  BY DEF Yield, script, BInv, IInv, ControlInv, TypeOK
<1>2. \A e : Yielded(e)' <=> Yielded(e) \/ e = Head(left)
  <2>1. \A e : Yielded(e)' <=> In(e, events')
    BY DEF Yielded, In
  <2> QED BY <1>1, <2>1, InAppend, YieldedIn
<1>3. \A e : In(e, left) <=> e = Head(left) \/ In(e, left')
  BY <1>1, InTail
<1>4. \A e : Yielded(e)' \/ In(e, left') => Yielded(e) \/ In(e, left)
  BY <1>2, <1>3
<1>5. IsPatch' = IsPatch
  BY <1>1 DEF IsPatch
<1>6. IInv'
  BY IGenerator DEF BInv
<1>7. MarkInv'
  BY <1>1 DEF MarkInv
<1>8. VerdictInv'
  BY <1>1, <1>4, <1>5 DEF BInv, VerdictInv
<1> QED BY <1>6, <1>7, <1>8 DEF BInv

LEMMA BLeave == ASSUME BInv, EndOfOutput \/ Crash PROVE BInv'
<1>1. UNCHANGED <<plan, stage, printed, exit, events, left, pipe>>
      /\ (pc' = "dead" \/ pc = "reading")
  BY DEF EndOfOutput, Crash, script
<1>2. IsPatch' = IsPatch /\ LastStage' = LastStage /\ \A e : (Yielded(e)' <=> Yielded(e)) /\ (Out(e)' <=> Out(e))
  BY <1>1 DEF IsPatch, LastStage, Yielded, Out, In
<1>3. IInv'
  BY IGenerator DEF BInv
<1>4. MarkInv'
  BY <1>1, <1>2 DEF BInv, MarkInv
<1>5. VerdictInv'
  BY <1>1, <1>2 DEF BInv, VerdictInv
<1> QED BY <1>3, <1>4, <1>5 DEF BInv

LEMMA BStep == BInv /\ [Next]_vars => BInv'
<1> SUFFICES ASSUME BInv, [Next]_vars PROVE BInv'
  OBVIOUS
<1>1. CASE Work \/ Fail \/ Hang \/ CloseOutput \/ ClientEnds \/ UNCHANGED vars
  <2>1. /\ UNCHANGED <<plan, stage, printed, pc, events, left, pipe>>
        /\ exit' = exit \/ (exit = "none" /\ exit' = "failed")
    BY <1>1 DEF Work, Fail, Hang, CloseOutput, ClientEnds, Running, vars
  <2>2. IInv'
    BY IStep DEF BInv
  <2> QED BY <2>1, <2>2, BStill
<1>2. CASE Mark \/ GuestPrints
  BY <1>2, BMark, BGuestPrints
<1>3. CASE \E p \in Plans : Begin(p) \/ Refuse(p) \/ LaunchFails(p)
  BY <1>3, BBegin
<1>4. CASE ReadLine \/ Judge \/ TimeOut \/ Yield \/ EndOfOutput \/ Crash
  BY <1>4, BReadLine, BConclude, BYield, BLeave
<1> QED BY <1>1, <1>2, <1>3, <1>4 DEF Next, ContainerStep, GeneratorStep

\* patch_agent.py: an error event that names a stage names the one the script
\* failed in, though the generator only has the markers it read.
THEOREM BlameCorrect == Spec => []ErrorNamesStage
<1>1. BInv => ErrorNamesStage
  <2> SUFFICES ASSUME BInv, NEW name \in {"apply", "build", "boot"}, Yielded(Error(name))
               PROVE exit = "failed" /\ plan[stage] = name
    BY DEF ErrorNamesStage
  <2> QED BY EventsApart DEF BInv, VerdictInv
<1> QED BY <1>1, BInit, BStep, PTL DEF Spec

\* parse_benchmark_output: a result has every measurement the guest printed,
\* and a patch has one only when its script ended well.
THEOREM ResultCorrect == Spec => []ResultIsWhole
<1>1. BInv => ResultIsWhole
  <2> SUFFICES ASSUME BInv, NEW data \in SUBSET (1 .. Measurements), Yielded(Result(data))
               PROVE data = 1 .. printed /\ (IsPatch => exit = "ok")
    BY DEF ResultIsWhole
  <2> QED BY EventsApart DEF BInv, VerdictInv
<1> QED BY <1>1, BInit, BStep, PTL DEF Spec

(***************************************************************************)
(* The order of the events.                                                *)
(***************************************************************************)
S(i) == Marker(plan[i], "start")
D(i) == Marker(plan[i], "done")

\* No verdict was yielded yet.
Quiet == \A e : Yielded(e) => e.type \in {"stage", "output"}

\* y is in the pipe at most once, and then was not yielded before.
Once(y) ==
  \A j \in DOMAIN pipe : pipe[j] = y =>
    ~ Yielded(y) /\ \A k \in 1 .. j - 1 : pipe[k] # y

\* y comes after x.
Follows(y, x) ==
  \A j \in DOMAIN pipe : pipe[j] = y => Yielded(x) \/ \E k \in 1 .. j - 1 : pipe[k] = x

ReadingInv ==
  /\ Quiet
  /\ \A e : Out(e) /\ e.type = "stage" => \E i \in 1 .. LastStage : e = S(i) \/ e = D(i)
  /\ \A i \in 1 .. LastStage :
       /\ Out(S(i)) <=> i < stage \/ (i = stage /\ phase # "start")
       /\ Once(S(i)) /\ Once(D(i)) /\ Follows(D(i), S(i))
       /\ i > 1 => Follows(S(i), D(i - 1))
       /\ Yielded(D(i)) => Yielded(S(i))

\* What is left to yield fits what was: an error blames a stage that did not
\* end, after one that did; the generator's own stages begin and end in turn.
ClosingInv ==
  \/ Quiet /\ left = <<Error("none")>>
  \/ \E i \in 1 .. LastStage :
       /\ Quiet /\ left = <<Error(plan[i])>>
       /\ ~ Yielded(D(i)) /\ (i > 1 => Yielded(D(i - 1)))
  \/ \E d : Quiet /\ left = <<Result(d)>>
  \/ \E d : /\ IsPatch /\ Quiet /\ left = <<S(4), D(4), S(5), Result(d), D(5)>>
            /\ Yielded(D(3)) /\ ~ Yielded(S(4)) /\ ~ Yielded(D(4)) /\ ~ Yielded(S(5)) /\ ~ Yielded(D(5))
  \/ \E d : /\ IsPatch /\ Quiet /\ left = <<D(4), S(5), Result(d), D(5)>>
            /\ Yielded(S(4)) /\ ~ Yielded(D(4)) /\ ~ Yielded(S(5)) /\ ~ Yielded(D(5))
  \/ \E d : /\ IsPatch /\ Quiet /\ left = <<S(5), Result(d), D(5)>>
            /\ Yielded(D(4)) /\ ~ Yielded(S(5)) /\ ~ Yielded(D(5))
  \/ \E d : /\ IsPatch /\ Quiet /\ left = <<Result(d), D(5)>>
            /\ Yielded(S(5)) /\ ~ Yielded(D(5))
  \/ /\ IsPatch /\ left = <<D(5)>> /\ \A e : Yielded(e) => e.type # "error"
     /\ Yielded(S(5)) /\ ~ Yielded(D(5))

OrderInv ==
  /\ pc \in {"reading", "waiting"} => ReadingInv
  /\ pc = "closing" => ClosingInv

OInv == BInv /\ OrderInv

LEMMA AllNames ==
  ASSUME plan \in Plans
  PROVE  /\ DOMAIN plan = 1 .. Len(plan) /\ Len(plan) \in {2, 5} /\ LastStage <= Len(plan)
         /\ LastStage \in {2, 3} /\ (IsPatch => LastStage = 3 /\ Len(plan) = 5)
         /\ \A i \in DOMAIN plan : plan[i] # "none"
         /\ \A i, j \in DOMAIN plan : plan[i] = plan[j] => i = j
         /\ IsPatch => plan[4] = "compare" /\ plan[5] = "report"
<1>1. CASE plan = PatchPlan
  <2>1. LastStage = 3 /\ IsPatch
    BY <1>1 DEF LastStage, IsPatch
  <2>2. /\ Len(PatchPlan) = 5 /\ DOMAIN PatchPlan = 1 .. 5
        /\ PatchPlan[1] = "apply" /\ PatchPlan[2] = "build" /\ PatchPlan[3] = "boot"
        /\ PatchPlan[4] = "compare" /\ PatchPlan[5] = "report"
    BY DEF PatchPlan
  <2>3. \A i \in 1 .. 5 : i = 1 \/ i = 2 \/ i = 3 \/ i = 4 \/ i = 5
    OBVIOUS
  <2> QED BY <1>1, <2>1, <2>2, <2>3
<1>2. CASE plan = BenchmarkPlan
  <2>1. LastStage = 2 /\ ~ IsPatch
    BY <1>2, PlanNames DEF LastStage, IsPatch
  <2>2. /\ Len(BenchmarkPlan) = 2 /\ DOMAIN BenchmarkPlan = 1 .. 2
        /\ BenchmarkPlan[1] = "compile" /\ BenchmarkPlan[2] = "boot"
    BY DEF BenchmarkPlan
  <2>3. \A i \in 1 .. 2 : i = 1 \/ i = 2
    OBVIOUS
  <2> QED BY <1>2, <2>1, <2>2, <2>3
<1> QED BY <1>1, <1>2 DEF Plans

(***************************************************************************)
(* What each event does to the client's view.                              *)
(***************************************************************************)
Added(x) == \A e : Yielded(e)' <=> Yielded(e) \/ e = x

LEMMA VerdictBy ==
  Verdict = IF \E e : Yielded(e) /\ e.type = "error" THEN "error"
            ELSE IF \E e : Yielded(e) /\ e.type = "result" THEN "result" ELSE "none"
<1>1. \A t : (\E i \in DOMAIN events : events[i].type = t) <=> \E e : Yielded(e) /\ e.type = t
  BY DEF Yielded
<1> QED BY <1>1 DEF Verdict

LEMMA VerdictThen ==
  ASSUME NEW x, Added(x)
  PROVE  Verdict' = IF (\E e : Yielded(e) /\ e.type = "error") \/ x.type = "error" THEN "error"
                    ELSE IF (\E e : Yielded(e) /\ e.type = "result") \/ x.type = "result" THEN "result"
                    ELSE "none"
<1>1. \A t : (\E i \in DOMAIN events' : events'[i].type = t) <=> \E e : Yielded(e)' /\ e.type = t
  BY DEF Yielded
<1>2. \A t : (\E e : Yielded(e)' /\ e.type = t) <=> (\E e : Yielded(e) /\ e.type = t) \/ x.type = t
  BY DEF Added
<1> QED BY <1>1, <1>2 DEF Verdict

\* One badge changes.
LEMMA OneBadge ==
  ASSUME plan' = plan, NEW i \in DOMAIN plan, NEW v, Status'[i] = v,
         \A j \in DOMAIN plan : j # i => Status'[j] = Status[j]
  PROVE  Status' = [Status EXCEPT ![i] = v]
<1>1. Status = [j \in DOMAIN plan |-> Status[j]] /\ Status' = [j \in DOMAIN plan |-> Status'[j]]
  BY DEF Status
<1> QED BY <1>1

LEMMA SeesStart ==
  ASSUME plan \in Plans, plan' = plan, Quiet, NEW i \in DOMAIN plan, Added(S(i)),
         ~ Yielded(S(i)), ~ Yielded(D(i)), i > 1 => Yielded(D(i - 1))
  PROVE  AsSeen!Start(i)
<1>1. Verdict = "none" /\ Verdict' = "none"
  BY VerdictBy, VerdictThen, EventsApart DEF Quiet, S
<1>2. \A j \in DOMAIN plan : ~ Yielded(Error(plan[j])) /\ Error(plan[j]) # S(i)
  BY EventsApart DEF Quiet, S
<1>3. \A j \in DOMAIN plan : D(j) # S(i) /\ (S(j) = S(i) => j = i)
  BY EventsApart, AllNames DEF S, D
<1>4. \A j \in DOMAIN plan :
        /\ ~ Yielded(Error(plan[j]))'
        /\ Yielded(Marker(plan[j], "done"))' <=> Yielded(D(j))
        /\ Yielded(Marker(plan[j], "start"))' <=> Yielded(S(j)) \/ j = i
  BY <1>2, <1>3 DEF Added, S, D
<1>5. Status'[i] = "running" /\ \A j \in DOMAIN plan : j # i => Status'[j] = Status[j]
  BY <1>2, <1>4 DEF Status, S, D
<1>6. Status[i] = "idle"
  BY <1>2 DEF Status, S, D
<1>7. i > 1 => Status[i - 1] = "done"
  BY <1>2, AllNames DEF Status, D
<1> QED BY <1>1, <1>5, <1>6, <1>7, OneBadge DEF AsSeen!Start

LEMMA SeesFinish ==
  ASSUME plan \in Plans, plan' = plan, \A e : Yielded(e) => e.type # "error",
         NEW i \in DOMAIN plan, Added(D(i)), Yielded(S(i)), ~ Yielded(D(i))
  PROVE  AsSeen!Finish(i)
<1>1. Verdict # "error" /\ Verdict' = Verdict
  BY VerdictBy, VerdictThen, EventsApart DEF D
<1>2. \A j \in DOMAIN plan : ~ Yielded(Error(plan[j])) /\ Error(plan[j]) # D(i)
  BY EventsApart DEF D
<1>3. \A j \in DOMAIN plan : S(j) # D(i) /\ (D(j) = D(i) => j = i)
  BY EventsApart, AllNames DEF S, D
<1>4. \A j \in DOMAIN plan :
        /\ ~ Yielded(Error(plan[j]))'
        /\ Yielded(Marker(plan[j], "done"))' <=> Yielded(D(j)) \/ j = i
        /\ Yielded(Marker(plan[j], "start"))' <=> Yielded(S(j))
  BY <1>2, <1>3 DEF Added, S, D
<1>5. Status'[i] = "done" /\ \A j \in DOMAIN plan : j # i => Status'[j] = Status[j]
  BY <1>2, <1>4 DEF Status, S, D
<1>6. Status[i] = "running"
  BY <1>2 DEF Status, S, D
<1> QED BY <1>1, <1>5, <1>6, OneBadge DEF AsSeen!Finish

\* An event that is no stage's leaves the badges.
LEMMA SameBadges ==
  ASSUME plan' = plan, NEW x, Added(x), x.type # "stage",
         \A j \in DOMAIN plan : x # Error(plan[j])
  PROVE  Status' = Status
<1>1. \A j \in DOMAIN plan : x # S(j) /\ x # D(j)
  BY EventsApart DEF S, D
<1>2. \A j \in DOMAIN plan :
        /\ Yielded(Error(plan[j]))' <=> Yielded(Error(plan[j]))
        /\ Yielded(Marker(plan[j], "done"))' <=> Yielded(Marker(plan[j], "done"))
        /\ Yielded(Marker(plan[j], "start"))' <=> Yielded(Marker(plan[j], "start"))
  BY <1>1 DEF Added, S, D
<1> QED BY <1>2 DEF Status

LEMMA SeesOutput ==
  ASSUME plan' = plan, NEW x, Added(x), x.type = "output"
  PROVE  Status' = Status /\ Verdict' = Verdict
BY SameBadges, VerdictBy, VerdictThen, EventsApart

LEMMA SeesResult ==
  ASSUME plan' = plan, Quiet, NEW d, Added(Result(d)) PROVE AsSeen!Conclude("result")
<1>1. Verdict = "none" /\ Verdict' = "result"
  BY VerdictBy, VerdictThen, EventsApart DEF Quiet
<1>2. Status' = Status
  BY SameBadges, EventsApart
<1> QED BY <1>1, <1>2 DEF AsSeen!Conclude

LEMMA SeesRefusal ==
  ASSUME plan \in Plans, plan' = plan, Quiet, Added(Error("none")) PROVE AsSeen!Conclude("error")
<1>1. Verdict = "none" /\ Verdict' = "error"
  BY VerdictBy, VerdictThen, EventsApart DEF Quiet
<1>2. Error("none").type # "stage" /\ \A j \in DOMAIN plan : Error("none") # Error(plan[j])
  BY EventsApart, AllNames
<1>3. Status' = Status
  BY <1>2, SameBadges
<1> QED BY <1>1, <1>3 DEF AsSeen!Conclude

LEMMA SeesBlame ==
  ASSUME plan \in Plans, plan' = plan, Quiet, NEW i \in DOMAIN plan, Added(Error(plan[i])),
         ~ Yielded(D(i)), i > 1 => Yielded(D(i - 1))
  PROVE  AsSeen!Conclude("error")
<1> DEFINE x == Error(plan[i])
<1>1. Verdict = "none" /\ Verdict' = "error"
  BY VerdictBy, VerdictThen, EventsApart DEF Quiet
<1>2. \A j \in DOMAIN plan : ~ Yielded(Error(plan[j])) /\ S(j) # x /\ D(j) # x
  BY EventsApart DEF Quiet, S, D
<1>3. \A j \in DOMAIN plan : Error(plan[j]) = x => j = i
  BY EventsApart, AllNames
<1>4. \A j \in DOMAIN plan :
        /\ Yielded(Error(plan[j]))' <=> j = i
        /\ Yielded(Marker(plan[j], "done"))' <=> Yielded(D(j))
        /\ Yielded(Marker(plan[j], "start"))' <=> Yielded(S(j))
  BY <1>2, <1>3 DEF Added, S, D
<1>5. Status'[i] = "error" /\ \A j \in DOMAIN plan : j # i => Status'[j] = Status[j]
  BY <1>2, <1>4 DEF Status, S, D
<1>6. Status' = [Status EXCEPT ![i] = "error"]
  BY <1>5, OneBadge
<1>7. Status[i] # "done" /\ i \in DOMAIN Status
  BY <1>2 DEF Status, D
<1>8. i > 1 => Status[i - 1] = "done"
  BY <1>2, AllNames DEF Status, D
<1> QED BY <1>1, <1>6, <1>7, <1>8 DEF AsSeen!Conclude

(***************************************************************************)
(* The order is kept.                                                      *)
(***************************************************************************)
LEMMA OInit == Init => OInv
<1>1. Init => OrderInv
  BY DEF Init, OrderInv
<1> QED BY <1>1, BInit DEF OInv

\* A line is written after all that is in the pipe.
LEMMA OnceWritten ==
  ASSUME IInv, NEW x, Write(x), events' = events, NEW y, Once(y), x = y => ~ Out(y)
  PROVE  Once(y)'
<1>1. pipe \in Seq(Event) /\ pipe' = Append(pipe, x)
  BY DEF Write, IInv, TypeOK
<1>2. /\ Len(pipe) \in Nat /\ DOMAIN pipe = 1 .. Len(pipe) /\ DOMAIN pipe' = 1 .. Len(pipe) + 1
      /\ pipe'[Len(pipe) + 1] = x /\ \A j \in 1 .. Len(pipe) : pipe'[j] = pipe[j]
  BY <1>1
<1>3. Yielded(y)' <=> Yielded(y)
  BY DEF Yielded
<1> SUFFICES ASSUME NEW j \in DOMAIN pipe', pipe'[j] = y
             PROVE ~ Yielded(y) /\ \A k \in 1 .. j - 1 : pipe'[k] # y
  BY <1>3 DEF Once
<1>4. CASE j \in 1 .. Len(pipe)
  BY <1>2, <1>4 DEF Once
<1>5. CASE j = Len(pipe) + 1
  <2>1. ~ Out(y)
    BY <1>2, <1>5
  <2> QED BY <1>2, <1>5, <2>1 DEF Out, In
<1> QED BY <1>2, <1>4, <1>5

LEMMA FollowsWritten ==
  ASSUME IInv, NEW z, Write(z), events' = events, NEW y, NEW x, Follows(y, x), z = y => Out(x)
  PROVE  Follows(y, x)'
<1>1. pipe \in Seq(Event) /\ pipe' = Append(pipe, z)
  BY DEF Write, IInv, TypeOK
<1>2. /\ Len(pipe) \in Nat /\ DOMAIN pipe = 1 .. Len(pipe) /\ DOMAIN pipe' = 1 .. Len(pipe) + 1
      /\ pipe'[Len(pipe) + 1] = z /\ \A j \in 1 .. Len(pipe) : pipe'[j] = pipe[j]
  BY <1>1
<1>3. Yielded(x)' <=> Yielded(x)
  BY DEF Yielded
<1> SUFFICES ASSUME NEW j \in DOMAIN pipe', pipe'[j] = y, ~ Yielded(x)
             PROVE \E k \in 1 .. j - 1 : pipe'[k] = x
  BY <1>3 DEF Follows
<1>4. CASE j \in 1 .. Len(pipe)
  <2>1. PICK k \in 1 .. j - 1 : pipe[k] = x
    BY <1>2, <1>4 DEF Follows
  <2> QED BY <1>2, <1>4, <2>1
<1>5. CASE j = Len(pipe) + 1
  <2>1. Out(x)
    BY <1>2, <1>5
  <2>2. PICK k \in DOMAIN pipe : pipe[k] = x
    BY <2>1 DEF Out, In
  <2> QED BY <1>2, <1>5, <2>2
<1> QED BY <1>2, <1>4, <1>5

\* Reading takes the first line.
LEMMA ReadFacts ==
  ASSUME IInv, ReadLine
  PROVE  /\ Added(Head(pipe)) /\ Head(pipe) = pipe[1] /\ 1 \in DOMAIN pipe
         /\ \A j \in DOMAIN pipe' : j \in Nat /\ j + 1 \in DOMAIN pipe /\ pipe'[j] = pipe[j + 1]
         /\ \A j \in DOMAIN pipe' : \A k \in 1 .. j : k = 1 \/ (k - 1 \in 1 .. j - 1 /\ pipe'[k - 1] = pipe[k])
         /\ UNCHANGED <<plan, stage, phase, exit, pc, left>>
<1>1. /\ pipe # << >> /\ UNCHANGED <<plan, stage, phase, exit, pc, left>>
      /\ events' = Append(events, Head(pipe)) /\ pipe' = Tail(pipe)
      /\ pipe \in Seq(Event) /\ events \in Seq(Event)
  BY DEF ReadLine, script, IInv, TypeOK
<1>2. Added(Head(pipe))
  <2>1. \A e : Yielded(e)' <=> In(e, events')
    BY DEF Yielded, In
  <2> QED BY <1>1, <2>1, InAppend, YieldedIn DEF Added
<1>3. /\ Len(pipe) \in Nat \ {0} /\ DOMAIN pipe = 1 .. Len(pipe) /\ Head(pipe) = pipe[1]
      /\ DOMAIN pipe' = 1 .. Len(pipe) - 1
      /\ \A j \in 1 .. Len(pipe) - 1 : pipe'[j] = pipe[j + 1]
  BY <1>1
<1>4. \A j \in DOMAIN pipe' : j \in Nat /\ j + 1 \in DOMAIN pipe /\ pipe'[j] = pipe[j + 1]
  BY <1>3
<1>5. ASSUME NEW j \in DOMAIN pipe', NEW k \in 1 .. j, k # 1
      PROVE k - 1 \in 1 .. j - 1 /\ pipe'[k - 1] = pipe[k]
  <2>1. k - 1 \in 1 .. Len(pipe) - 1 /\ k - 1 \in 1 .. j - 1 /\ (k - 1) + 1 = k
    BY <1>3, <1>5
  <2> QED BY <1>3, <2>1
<1> QED BY <1>1, <1>2, <1>3, <1>4, <1>5

LEMMA OnceRead == ASSUME IInv, ReadLine, NEW y, Once(y) PROVE Once(y)'
<1>1. /\ Added(pipe[1]) /\ \A j \in DOMAIN pipe' : j \in Nat /\ j + 1 \in DOMAIN pipe /\ pipe'[j] = pipe[j + 1]
  BY ReadFacts
<1> SUFFICES ASSUME NEW j \in DOMAIN pipe', pipe'[j] = y
             PROVE ~ Yielded(y)' /\ \A k \in 1 .. j - 1 : pipe'[k] # y
  BY DEF Once
<1>2. j \in Nat /\ j + 1 \in DOMAIN pipe /\ pipe[j + 1] = y
  BY <1>1
<1>3. ~ Yielded(y) /\ \A k \in 1 .. j : pipe[k] # y
  BY <1>2 DEF Once
<1>4. j \in 1 .. Len(pipe')
  BY DEF ReadLine, IInv, TypeOK
<1>5. ~ Yielded(y)'
  BY <1>1, <1>3, <1>4 DEF Added
<1>6. \A k \in 1 .. j - 1 : k \in DOMAIN pipe' /\ k + 1 \in 1 .. j
  BY <1>4 DEF ReadLine, IInv, TypeOK
<1> QED BY <1>1, <1>3, <1>5, <1>6

LEMMA FollowsRead == ASSUME IInv, ReadLine, NEW y, NEW x, Follows(y, x) PROVE Follows(y, x)'
<1> SUFFICES ASSUME NEW j \in DOMAIN pipe', pipe'[j] = y, ~ Yielded(x)'
             PROVE \E k \in 1 .. j - 1 : pipe'[k] = x
  BY DEF Follows
<1>1. /\ Added(pipe[1]) /\ j \in Nat /\ j + 1 \in DOMAIN pipe /\ pipe[j + 1] = y
      /\ \A k \in 1 .. j : k = 1 \/ (k - 1 \in 1 .. j - 1 /\ pipe'[k - 1] = pipe[k])
  BY ReadFacts
<1>2. ~ Yielded(x) /\ x # pipe[1]
  BY <1>1 DEF Added
<1>3. PICK k \in 1 .. (j + 1) - 1 : pipe[k] = x
  BY <1>1, <1>2 DEF Follows
<1>4. k \in 1 .. j /\ k # 1
  BY <1>1, <1>2, <1>3
<1> QED BY <1>1, <1>3, <1>4

\* While the script runs, the mark it writes next is the next in order.
LEMMA OMark == ASSUME OInv, Mark PROVE OInv'
<1> DEFINE x == Marker(plan[stage], phase)
<1>1. /\ exit = "none" /\ pc \in {"reading", "dead"}
      /\ plan \in Plans /\ stage \in 1 .. LastStage /\ LastStage \in {2, 3}
  BY RunningFacts, StageNames DEF Mark, OInv, BInv
<1>2. /\ UNCHANGED <<plan, pc, events, left>> /\ Write(x) /\ phase \in {"start", "done"}
  BY DEF Mark
<1>3. BInv'
  BY BMark DEF OInv
<1> SUFFICES ASSUME pc = "reading" PROVE ReadingInv'
  BY <1>1, <1>2, <1>3 DEF OInv, OrderInv
<1>4. IInv /\ ReadingInv
  BY DEF OInv, BInv, OrderInv
<1>5. LastStage' = LastStage /\ \A i : S(i)' = S(i) /\ D(i)' = D(i)
  BY <1>2 DEF LastStage, IsPatch, S, D
<1>6. /\ \A e : Out(e)' <=> Out(e) \/ e = x
      /\ \A e : Yielded(e)' <=> Yielded(e)
  BY <1>2, <1>4, OneMore
<1>7. \A i \in 1 .. LastStage :
        /\ S(i) = x <=> i = stage /\ phase = "start"
        /\ D(i) = x <=> i = stage /\ phase = "done"
  BY <1>1, <1>2, StageNames, EventsApart DEF S, D
<1>8. \A i \in 1 .. LastStage : Out(D(i)) <=> i < stage
  BY <1>1 DEF OInv, BInv, MarkInv, D
<1>9. \A i \in 1 .. LastStage : Out(S(i)) <=> i < stage \/ (i = stage /\ phase # "start")
  BY <1>4 DEF ReadingInv
<1>10. Quiet'
  BY <1>4, <1>6 DEF ReadingInv, Quiet
<1>11. \A e : Out(e)' /\ e.type = "stage" => \E i \in 1 .. LastStage' : e = S(i)' \/ e = D(i)'
  BY <1>1, <1>2, <1>4, <1>5, <1>6, <1>7 DEF ReadingInv
<1>12. \A i \in 1 .. LastStage : Out(S(i))' <=> i < stage' \/ (i = stage' /\ phase' # "start")
  <2>1. \A i \in 1 .. LastStage : Out(S(i))' <=> Out(S(i)) \/ (i = stage /\ phase = "start")
    BY <1>5, <1>6, <1>7
  <2>2. CASE phase = "start"
    <3>1. stage' = stage /\ phase' = "work"
      BY <2>2 DEF Mark
    <3> QED BY <1>9, <2>1, <2>2, <3>1
  <2>3. CASE phase = "done"
    <3>1. (stage' = stage + 1 /\ phase' = "start") \/ (stage' = stage /\ phase' = phase)
      BY <2>3 DEF Mark
    <3> QED BY <1>1, <1>9, <2>1, <2>3, <3>1
  <2> QED BY <1>2, <2>2, <2>3
<1>13. ASSUME NEW i \in 1 .. LastStage PROVE Once(S(i))' /\ Once(D(i))' /\ Follows(D(i), S(i))'
  <2>1. x = S(i) => ~ Out(S(i))
    BY <1>7, <1>9
  <2>2. x = D(i) => ~ Out(D(i)) /\ Out(S(i))
    BY <1>7, <1>8, <1>9
  <2>3. Once(S(i)) /\ Once(D(i)) /\ Follows(D(i), S(i))
    BY <1>4 DEF ReadingInv
  <2>4. Once(S(i))'
    BY <1>2, <1>4, <1>5, <2>1, <2>3, OnceWritten DEF S, Once, Yielded
  <2>5. Once(D(i))'
    BY <1>2, <1>4, <1>5, <2>2, <2>3, OnceWritten DEF D, Once, Yielded
  <2>6. Follows(D(i), S(i))'
    <3>1. PICK y, w : y = D(i) /\ w = S(i)
      OBVIOUS
    <3>2. Follows(y, w)'
      BY <1>2, <1>4, <2>2, <2>3, <3>1, FollowsWritten
    <3>3. D(i)' = y /\ S(i)' = w
      BY <1>5, <3>1
    <3> QED BY <3>2, <3>3 DEF Follows, Yielded
  <2> QED BY <2>4, <2>5, <2>6
<1>14. ASSUME NEW i \in 1 .. LastStage, i > 1 PROVE Follows(S(i), D(i - 1))'
  <2>1. x = S(i) => Out(D(i - 1))
    BY <1>1, <1>7, <1>8, <1>14
  <2>2. Follows(S(i), D(i - 1))
    BY <1>4, <1>14 DEF ReadingInv
  <2>3. PICK y, w : y = S(i) /\ w = D(i - 1)
    OBVIOUS
  <2>4. Follows(y, w)'
    BY <1>2, <1>4, <2>1, <2>2, <2>3, FollowsWritten
  <2>5. S(i)' = y /\ D(i - 1)' = w
    BY <1>5, <2>3
  <2> QED BY <2>4, <2>5 DEF Follows, Yielded
<1>15. \A i \in 1 .. LastStage : Yielded(D(i))' => Yielded(S(i))'
  BY <1>4, <1>5, <1>6 DEF ReadingInv
<1> QED BY <1>5, <1>10, <1>11, <1>12, <1>13, <1>14, <1>15 DEF ReadingInv

LEMMA OGuestPrints == ASSUME OInv, GuestPrints PROVE OInv'
<1> DEFINE x == Output(printed + 1)
<1>1. /\ pc \in {"reading", "dead"} /\ plan \in Plans /\ stage \in 1 .. LastStage
  BY RunningFacts DEF GuestPrints, OInv, BInv
<1>2. UNCHANGED <<plan, stage, phase, pc, events, left>> /\ Write(x)
  BY DEF GuestPrints
<1>3. BInv'
  BY BGuestPrints DEF OInv
<1> SUFFICES ASSUME pc = "reading" PROVE ReadingInv'
  BY <1>1, <1>2, <1>3 DEF OInv, OrderInv
<1>4. IInv /\ ReadingInv
  BY DEF OInv, BInv, OrderInv
<1>5. LastStage' = LastStage /\ \A i : S(i)' = S(i) /\ D(i)' = D(i)
  BY <1>2 DEF LastStage, IsPatch, S, D
<1>6. /\ \A e : Out(e)' <=> Out(e) \/ e = x
      /\ \A e : Yielded(e)' <=> Yielded(e)
  BY <1>2, <1>4, OneMore
<1>7. x.type = "output" /\ \A i : S(i) # x /\ D(i) # x
  BY EventsApart DEF S, D
<1>8. Quiet'
  BY <1>4, <1>6 DEF ReadingInv, Quiet
<1>9. \A e : Out(e)' /\ e.type = "stage" => \E i \in 1 .. LastStage' : e = S(i)' \/ e = D(i)'
  BY <1>4, <1>5, <1>6, <1>7 DEF ReadingInv
<1>10. \A i \in 1 .. LastStage : Out(S(i))' <=> i < stage' \/ (i = stage' /\ phase' # "start")
  BY <1>2, <1>4, <1>5, <1>6, <1>7 DEF ReadingInv
<1>11. ASSUME NEW i \in 1 .. LastStage PROVE Once(S(i))' /\ Once(D(i))' /\ Follows(D(i), S(i))'
  <2>1. Once(S(i)) /\ Once(D(i)) /\ Follows(D(i), S(i))
    BY <1>4 DEF ReadingInv
  <2>2. Once(S(i))'
    BY <1>2, <1>4, <1>5, <1>7, <2>1, OnceWritten DEF S, Once, Yielded
  <2>3. Once(D(i))'
    BY <1>2, <1>4, <1>5, <1>7, <2>1, OnceWritten DEF D, Once, Yielded
  <2>4. Follows(D(i), S(i))'
    <3>1. PICK y, w : y = D(i) /\ w = S(i)
      OBVIOUS
    <3>2. Follows(y, w)'
      BY <1>2, <1>4, <1>7, <2>1, <3>1, FollowsWritten
    <3>3. D(i)' = y /\ S(i)' = w
      BY <1>5, <3>1
    <3> QED BY <3>2, <3>3 DEF Follows, Yielded
  <2> QED BY <2>2, <2>3, <2>4
<1>12. ASSUME NEW i \in 1 .. LastStage, i > 1 PROVE Follows(S(i), D(i - 1))'
  <2>1. Follows(S(i), D(i - 1))
    BY <1>4, <1>12 DEF ReadingInv
  <2>2. PICK y, w : y = S(i) /\ w = D(i - 1)
    OBVIOUS
  <2>3. Follows(y, w)'
    BY <1>2, <1>4, <1>7, <2>1, <2>2, FollowsWritten
  <2>4. S(i)' = y /\ D(i - 1)' = w
    BY <1>5, <2>2
  <2> QED BY <2>3, <2>4 DEF Follows, Yielded
<1>13. \A i \in 1 .. LastStage : Yielded(D(i))' => Yielded(S(i))'
  BY <1>4, <1>5, <1>6 DEF ReadingInv
<1> QED BY <1>5, <1>8, <1>9, <1>10, <1>11, <1>12, <1>13 DEF ReadingInv

\* What moves neither lines nor events.
LEMMA OStill ==
  ASSUME OInv, UNCHANGED <<plan, stage, events, left, pipe>>, BInv',
         phase' = phase \/ (phase = "work" /\ phase' = "done"),
         pc' \in {pc, "dead"} \/ (pc = "reading" /\ pc' = "waiting")
  PROVE  OInv'
<1>1. /\ IsPatch' = IsPatch /\ LastStage' = LastStage /\ Quiet' = Quiet
      /\ \A i : S(i)' = S(i) /\ D(i)' = D(i)
  BY DEF IsPatch, LastStage, S, D, Quiet, Yielded
<1>2. \A e : (Yielded(e)' <=> Yielded(e)) /\ (Out(e)' <=> Out(e))
  BY DEF Yielded, Out, In
<1>3. \A i : (Once(S(i))' <=> Once(S(i))) /\ (Once(D(i))' <=> Once(D(i)))
  BY DEF S, D, Once, Yielded
<1>4. \A i, j : (Follows(S(i), D(j))' <=> Follows(S(i), D(j))) /\ (Follows(D(i), S(j))' <=> Follows(D(i), S(j)))
  BY DEF S, D, Follows, Yielded
<1>5. ReadingInv => ReadingInv'
  BY <1>1, <1>2, <1>3, <1>4 DEF ReadingInv
<1>6. ClosingInv => ClosingInv'
  BY <1>1, <1>2 DEF ClosingInv, S, D
<1> QED BY <1>5, <1>6 DEF OInv, OrderInv

LEMMA OBegin ==
  ASSUME OInv, NEW p \in Plans, Begin(p) \/ Refuse(p) \/ LaunchFails(p)
  PROVE  OInv' /\ AsSeen!Begin
<1>1. /\ pc = "idle" /\ client = "none" /\ plan = << >> /\ events = << >> /\ pipe = << >>
      /\ left = << >> /\ stage = 1 /\ phase = "start"
  BY DEF Begin, Refuse, LaunchFails, OInv, BInv, IInv, ControlInv
<1>2. /\ plan' = p /\ UNCHANGED <<events, pipe, stage, phase>>
      /\ \/ pc' \in {"reading", "dead"}
         \/ pc' = "closing" /\ left' = <<Error("none")>>
  BY DEF Begin, Refuse, LaunchFails, Conclude, script
<1>3. \A e : ~ Yielded(e)' /\ ~ In(e, pipe') /\ ~ Out(e)'
  BY <1>1, <1>2 DEF Yielded, In, Out
<1>4. Quiet'
  BY <1>3 DEF Quiet
<1>5. ReadingInv'
  <2>1. DOMAIN pipe' = {}
    BY <1>1, <1>2
  <2>2. \A x, y : Once(y)' /\ Follows(y, x)'
    BY <2>1 DEF Once, Follows
  <2>3. \A i \in 1 .. LastStage' : ~ (i < stage') /\ ~ (i = stage' /\ phase' # "start")
    BY <1>1, <1>2 DEF LastStage
  <2>4. \A i \in 1 .. LastStage' :
          /\ Once(S(i))' /\ Once(D(i))' /\ Follows(D(i), S(i))' /\ Follows(S(i), D(i - 1))'
    BY <2>1 DEF Once, Follows
  <2> QED BY <1>3, <1>4, <2>3, <2>4 DEF ReadingInv
<1>6. pc' = "closing" => ClosingInv'
  BY <1>2, <1>4 DEF ClosingInv
<1>7. OInv'
  BY <1>5, <1>6, BBegin DEF OInv, OrderInv
<1>8. Status = << >> /\ Status' = [i \in DOMAIN plan' |-> "idle"]
  BY <1>1, <1>3 DEF Status
<1>9. Verdict = "none" /\ Verdict' = "none"
  BY <1>1, <1>2 DEF Verdict
<1> QED BY <1>1, <1>2, <1>7, <1>8, <1>9 DEF AsSeen!Begin

LEMMA OReadLine ==
  ASSUME OInv, ReadLine
  PROVE  OInv' /\ (AsSeen!Next \/ UNCHANGED <<plan, Status, Verdict>>)
<1> DEFINE x == Head(pipe)
<1>1. /\ pc = "reading" /\ IInv /\ ReadingInv /\ plan \in Plans
  BY DEF ReadLine, OInv, BInv, IInv, ControlInv, OrderInv
<1>2. /\ Added(x) /\ x = pipe[1] /\ 1 \in DOMAIN pipe
      /\ UNCHANGED <<plan, stage, phase, exit, pc, left>>
  BY <1>1, ReadFacts
<1>3. x.type \in {"stage", "output"} /\ Out(x)
  BY <1>2 DEF OInv, BInv, VerdictInv, Out, In
<1>4. LastStage' = LastStage /\ \A i : S(i)' = S(i) /\ D(i)' = D(i)
  BY <1>2 DEF LastStage, IsPatch, S, D
<1>5. \A e : Out(e)' <=> Out(e)
  <2>1. \A e : In(e, pipe) <=> e = x \/ In(e, pipe')
    BY <1>1, InTail DEF ReadLine, IInv, TypeOK
  <2> QED BY <1>2, <2>1 DEF Out, Added
<1>6. \A y : y = x /\ Once(y) => ~ Yielded(y)
  BY <1>2 DEF Once
<1>7. \A y, w : y = x /\ Follows(y, w) => Yielded(w)
  BY <1>2 DEF Follows
<1>8. Quiet'
  BY <1>1, <1>2, <1>3 DEF Quiet, Added, ReadingInv
<1>9. ASSUME NEW i \in 1 .. LastStage PROVE Once(S(i))' /\ Once(D(i))' /\ Follows(D(i), S(i))'
  <2>1. Once(S(i)) /\ Once(D(i)) /\ Follows(D(i), S(i))
    BY <1>1 DEF ReadingInv
  <2>2. PICK y, w : y = D(i) /\ w = S(i)
    OBVIOUS
  <2>3. Once(y)' /\ Once(w)' /\ Follows(y, w)'
    BY <1>1, <2>1, <2>2, OnceRead, FollowsRead
  <2>4. D(i)' = y /\ S(i)' = w
    BY <1>4, <2>2
  <2> QED BY <2>3, <2>4 DEF Once, Follows, Yielded
<1>10. ASSUME NEW i \in 1 .. LastStage, i > 1 PROVE Follows(S(i), D(i - 1))'
  <2>1. Follows(S(i), D(i - 1))
    BY <1>1, <1>10 DEF ReadingInv
  <2>2. PICK y, w : y = S(i) /\ w = D(i - 1)
    OBVIOUS
  <2>3. Follows(y, w)'
    BY <1>1, <2>1, <2>2, FollowsRead
  <2>4. S(i)' = y /\ D(i - 1)' = w
    BY <1>4, <2>2
  <2> QED BY <2>3, <2>4 DEF Follows, Yielded
<1>11. ASSUME NEW i \in 1 .. LastStage, Yielded(D(i))' PROVE Yielded(S(i))'
  <2>1. Yielded(D(i)) \/ D(i) = x
    BY <1>2, <1>4, <1>11 DEF Added, D
  <2>2. Yielded(S(i))
    BY <1>1, <1>7, <2>1 DEF ReadingInv
  <2> QED BY <1>2, <1>4, <2>2 DEF Added, S
<1>12. ReadingInv'
  <2>1. \A e : Out(e)' /\ e.type = "stage" => \E i \in 1 .. LastStage' : e = S(i)' \/ e = D(i)'
    BY <1>1, <1>4, <1>5 DEF ReadingInv
  <2>2. \A i \in 1 .. LastStage : Out(S(i))' <=> i < stage' \/ (i = stage' /\ phase' # "start")
    BY <1>1, <1>2, <1>4, <1>5 DEF ReadingInv
  <2> QED BY <1>4, <1>8, <1>9, <1>10, <1>11, <2>1, <2>2 DEF ReadingInv
<1>13. OInv'
  BY <1>1, <1>2, <1>12, BReadLine DEF OInv, OrderInv
<1>14. CASE x.type = "output"
  BY <1>2, <1>13, <1>14, SeesOutput
<1>15. CASE x.type = "stage"
  <2>1. PICK i \in 1 .. LastStage : x = S(i) \/ x = D(i)
    BY <1>1, <1>3, <1>15 DEF ReadingInv
  <2>2. i \in DOMAIN plan /\ DOMAIN Status = DOMAIN plan
    BY <1>1, AllNames DEF Status
  <2>3. Quiet /\ Once(S(i)) /\ Once(D(i)) /\ Follows(D(i), S(i))
        /\ (i > 1 => Follows(S(i), D(i - 1))) /\ (Yielded(D(i)) => Yielded(S(i)))
    BY <1>1 DEF ReadingInv
  <2>4. CASE x = S(i)
    <3>1. ~ Yielded(S(i)) /\ ~ Yielded(D(i)) /\ (i > 1 => Yielded(D(i - 1)))
      BY <1>6, <1>7, <2>3, <2>4
    <3>2. AsSeen!Start(i)
      BY <1>1, <1>2, <2>2, <2>3, <2>4, <3>1, SeesStart
    <3> QED BY <1>13, <2>2, <3>2 DEF AsSeen!Next
  <2>5. CASE x = D(i)
    <3>1. ~ Yielded(D(i)) /\ Yielded(S(i))
      BY <1>6, <1>7, <2>3, <2>5
    <3>2. \A e : Yielded(e) => e.type # "error"
      BY <2>3 DEF Quiet
    <3>3. AsSeen!Finish(i)
      BY <1>1, <1>2, <2>2, <2>5, <3>1, <3>2, SeesFinish
    <3> QED BY <1>13, <2>2, <3>3 DEF AsSeen!Next
  <2> QED BY <2>1, <2>4, <2>5
<1> QED BY <1>3, <1>14, <1>15

\* The judgement leaves events in order: the stages before the blamed one have
\* ended, and the generator's own have not begun.
LEMMA OConclude ==
  ASSUME OInv, Judge \/ TimeOut
  PROVE  OInv' /\ UNCHANGED <<plan, Status, Verdict>>
<1>1. /\ pc = "waiting" /\ pc' = "closing" /\ UNCHANGED <<plan, stage, exit, events, pipe>>
      /\ pipe = << >> /\ plan \in Plans /\ ReadingInv
  BY DEF Judge, TimeOut, Conclude, script, OInv, BInv, IInv, ControlInv, OrderInv
<1>2. /\ IsPatch' = IsPatch /\ LastStage' = LastStage /\ Quiet /\ Quiet'
      /\ \A i : S(i)' = S(i) /\ D(i)' = D(i)
  BY <1>1 DEF ReadingInv, IsPatch, LastStage, Quiet, Yielded, S, D
<1>3. \A e : (Yielded(e)' <=> Yielded(e)) /\ (Out(e) <=> Yielded(e))
  BY <1>1, InEmpty DEF Yielded, Out
<1>4. UNCHANGED <<Status, Verdict>>
  BY <1>1, <1>3 DEF Status, Verdict
<1>5. stage \in 1 .. LastStage /\ LastStage \in {2, 3} /\ exit \in {"ok", "failed"}
  <2>1. stage \in 1 .. 3 /\ stage <= LastStage /\ exit # "none" /\ exit \in {"none", "ok", "failed"}
    BY <1>1 DEF OInv, BInv, IInv, TypeOK, ControlInv
  <2> QED BY <1>1, <2>1, StageNames
<1>6. \A i \in 1 .. LastStage : Yielded(D(i)) <=> i < stage \/ (i = stage /\ exit = "ok")
  BY <1>1, <1>3 DEF OInv, BInv, MarkInv, D
<1> SUFFICES ClosingInv'
  BY <1>1, <1>4, BConclude DEF OInv, OrderInv
<1>7. CASE left' = <<Error("none")>>
  BY <1>2, <1>7 DEF ClosingInv
<1>8. CASE ~ IsPatch /\ left' = <<Result(Parsed)>>
  BY <1>2, <1>8 DEF ClosingInv
<1>9. CASE IsPatch /\ exit = "failed" /\ left' = <<Error(FailedStage)>>
  <2>1. left' = <<Error(plan[stage])>>
    BY <1>1, <1>9, Blamed DEF OInv
  <2>2. stage \in 1 .. LastStage' /\ left' = <<Error(plan'[stage])>>
    BY <1>1, <1>2, <1>5, <2>1
  <2>3. ~ Yielded(D(stage)) /\ (stage > 1 => Yielded(D(stage - 1)))
    <3>1. stage > 1 => stage - 1 \in 1 .. LastStage /\ stage - 1 < stage
      BY <1>5
    <3>2. ~ (stage < stage)
      BY <1>5
    <3> QED BY <1>5, <1>6, <1>9, <3>1, <3>2
  <2>4. \E i \in 1 .. LastStage' :
          /\ Quiet' /\ left' = <<Error(plan'[i])>>
          /\ ~ Yielded(D(i))' /\ (i > 1 => Yielded(D(i - 1))')
    BY <1>2, <1>3, <2>2, <2>3 DEF D
  <2> QED BY <2>4 DEF ClosingInv, D
<1>10. CASE IsPatch /\ exit # "failed"
            /\ left' = <<Marker("compare", "start"), Marker("compare", "done"),
                         Marker("report", "start"), Result(Parsed), Marker("report", "done")>>
  <2>1. /\ LastStage = 3 /\ plan[4] = "compare" /\ plan[5] = "report" /\ DOMAIN plan = 1 .. 5
        /\ \A i, j \in DOMAIN plan : plan[i] = plan[j] => i = j
    BY <1>1, <1>10, AllNames
  <2>2. left' = <<S(4), D(4), S(5), Result(Parsed), D(5)>>
    BY <1>10, <2>1 DEF S, D
  <2>3. Yielded(D(3))
    <3>1. stage = 3
      BY <1>5, <1>10, <2>1 DEF OInv, BInv, IInv, ControlInv
    <3> QED BY <1>5, <1>6, <1>10, <2>1, <3>1
  <2>4. ASSUME NEW i \in {4, 5} PROVE ~ Yielded(S(i)) /\ ~ Yielded(D(i))
    <3>1. \A j \in 1 .. 3 : j \in DOMAIN plan /\ i \in DOMAIN plan /\ j # i
      BY <2>1
    <3>2. \A j \in 1 .. 3 : S(i) # S(j) /\ S(i) # D(j) /\ D(i) # S(j) /\ D(i) # D(j)
      BY <2>1, <3>1, EventsApart DEF S, D
    <3>3. S(i).type = "stage" /\ D(i).type = "stage"
      BY EventsApart DEF S, D
    <3> QED BY <1>1, <1>3, <2>1, <3>2, <3>3 DEF ReadingInv
  <2>5. left' = <<S(4)', D(4)', S(5)', Result(Parsed), D(5)'>>
    BY <1>2, <2>2
  <2>6. /\ Yielded(D(3))' /\ ~ Yielded(S(4))' /\ ~ Yielded(D(4))'
        /\ ~ Yielded(S(5))' /\ ~ Yielded(D(5))'
    BY <1>2, <1>3, <2>3, <2>4 DEF S, D
  <2>7. \E d : left' = <<S(4)', D(4)', S(5)', Result(d), D(5)'>>
    BY <2>5
  <2> QED BY <1>2, <1>10, <2>6, <2>7 DEF ClosingInv
<1> QED BY <1>7, <1>8, <1>9, <1>10, Verdicts DEF TimeOut, Conclude

LEMMA Tails ==
  ASSUME NEW a, NEW b, NEW c, NEW d, NEW e
  PROVE  /\ Head(<<a>>) = a /\ Tail(<<a>>) = << >>
         /\ Head(<<a, b>>) = a /\ Tail(<<a, b>>) = <<b>>
         /\ Head(<<a, b, c>>) = a /\ Tail(<<a, b, c>>) = <<b, c>>
         /\ Head(<<a, b, c, d>>) = a /\ Tail(<<a, b, c, d>>) = <<b, c, d>>
         /\ Head(<<a, b, c, d, e>>) = a /\ Tail(<<a, b, c, d, e>>) = <<b, c, d, e>>
OBVIOUS

LEMMA OYield == ASSUME OInv, Yield PROVE OInv' /\ AsSeen!Next
<1>1. /\ pc = "closing" /\ ClosingInv /\ plan \in Plans /\ plan' = plan
      /\ left' = Tail(left) /\ pc' \in {"closing", "ended"}
      /\ left' = << >> => pc' = "ended"
  BY DEF Yield, script, OInv, BInv, IInv, ControlInv, OrderInv
<1>2. Added(Head(left))
  <2>1. events' = Append(events, Head(left)) /\ events \in Seq(Event)
    BY DEF Yield, OInv, BInv, IInv, TypeOK
  <2>2. \A e : Yielded(e)' <=> In(e, events')
    BY DEF Yielded, In
  <2> QED BY <2>1, <2>2, InAppend, YieldedIn DEF Added
<1>3. BInv' /\ (left' = << >> => OInv')
  BY <1>1, BYield DEF OInv, OrderInv
<1>4. IsPatch' = IsPatch /\ \A i : S(i)' = S(i) /\ D(i)' = D(i)
  BY <1>1 DEF IsPatch, S, D
<1>5. DOMAIN Status = DOMAIN plan /\ DOMAIN plan = 1 .. Len(plan) /\ LastStage <= Len(plan)
      /\ LastStage \in {2, 3} /\ (IsPatch => DOMAIN plan = 1 .. 5 /\ 3 + 1 = 4 /\ 4 + 1 = 5)
  BY <1>1, AllNames DEF Status
<1>6. ClosingInv' => OInv'
  BY <1>1, <1>3 DEF OInv, OrderInv
<1>7. /\ Quiet => Quiet' \/ Head(left).type \notin {"stage", "output"}
      /\ Quiet => \A e : Yielded(e) => e.type # "error"
  BY <1>2 DEF Quiet, Added
<1>8. \A i : /\ Yielded(S(i))' <=> Yielded(S(i)) \/ S(i) = Head(left)
             /\ Yielded(D(i))' <=> Yielded(D(i)) \/ D(i) = Head(left)
  BY <1>2, <1>4 DEF Added, S, D
<1>9. /\ \A i : S(i).type = "stage" /\ D(i).type = "stage" /\ S(i) # D(i)
      /\ \A i, j : S(i) # D(j)
      /\ IsPatch => S(4) # S(5) /\ D(4) # D(5)
  BY <1>1, EventsApart, AllNames DEF S, D
<1>10. ASSUME Quiet, left = <<Error("none")>> PROVE OInv' /\ AsSeen!Next
  <2>1. Head(left) = Error("none") /\ left' = << >>
    BY <1>1, <1>10, Tails
  <2>2. AsSeen!Conclude("error")
    BY <1>1, <1>2, <1>10, <2>1, SeesRefusal
  <2> QED BY <1>3, <2>1, <2>2 DEF AsSeen!Next
<1>11. ASSUME NEW i \in 1 .. LastStage, Quiet, left = <<Error(plan[i])>>,
              ~ Yielded(D(i)), i > 1 => Yielded(D(i - 1))
       PROVE  OInv' /\ AsSeen!Next
  <2>1. Head(left) = Error(plan[i]) /\ left' = << >>
    BY <1>1, <1>11, Tails
  <2>2. i \in DOMAIN plan
    BY <1>1, <1>5, AllNames
  <2>3. AsSeen!Conclude("error")
    BY <1>1, <1>2, <1>11, <2>1, <2>2, SeesBlame
  <2> QED BY <1>3, <2>1, <2>3 DEF AsSeen!Next
<1>12. ASSUME NEW d, Quiet, left = <<Result(d)>> PROVE OInv' /\ AsSeen!Next
  <2>1. Head(left) = Result(d) /\ left' = << >>
    BY <1>1, <1>12, Tails
  <2>2. AsSeen!Conclude("result")
    BY <1>1, <1>2, <1>12, <2>1, SeesResult
  <2> QED BY <1>3, <2>1, <2>2 DEF AsSeen!Next
<1>13. ASSUME NEW d, IsPatch, Quiet, left = <<S(4), D(4), S(5), Result(d), D(5)>>,
              Yielded(D(3)), ~ Yielded(S(4)), ~ Yielded(D(4)), ~ Yielded(S(5)), ~ Yielded(D(5))
       PROVE  OInv' /\ AsSeen!Next
  <2>1. Head(left) = S(4) /\ left' = <<D(4), S(5), Result(d), D(5)>>
    BY <1>1, <1>13, Tails
  <2>2. Quiet' /\ Yielded(S(4))' /\ ~ Yielded(D(4))' /\ ~ Yielded(S(5))' /\ ~ Yielded(D(5))'
    BY <1>7, <1>8, <1>9, <1>13, <2>1
  <2>3. IsPatch' /\ left' = <<D(4)', S(5)', Result(d), D(5)'>>
    BY <1>4, <1>13, <2>1
  <2>4. ClosingInv'
    BY <2>2, <2>3 DEF ClosingInv
  <2>5. 4 \in DOMAIN plan /\ 4 - 1 = 3
    BY <1>5, <1>13
  <2>6. AsSeen!Start(4)
    BY <1>1, <1>2, <1>13, <2>1, <2>5, SeesStart
  <2> QED BY <1>5, <1>6, <2>4, <2>5, <2>6 DEF AsSeen!Next
<1>14. ASSUME NEW d, IsPatch, Quiet, left = <<D(4), S(5), Result(d), D(5)>>,
              Yielded(S(4)), ~ Yielded(D(4)), ~ Yielded(S(5)), ~ Yielded(D(5))
       PROVE  OInv' /\ AsSeen!Next
  <2>1. Head(left) = D(4) /\ left' = <<S(5), Result(d), D(5)>>
    BY <1>1, <1>14, Tails
  <2>2. Quiet' /\ Yielded(D(4))' /\ ~ Yielded(S(5))' /\ ~ Yielded(D(5))'
    BY <1>7, <1>8, <1>9, <1>14, <2>1
  <2>3. IsPatch' /\ left' = <<S(5)', Result(d), D(5)'>>
    BY <1>4, <1>14, <2>1
  <2>4. ClosingInv'
    BY <2>2, <2>3 DEF ClosingInv
  <2>5. 4 \in DOMAIN plan
    BY <1>5, <1>14
  <2>6. AsSeen!Finish(4)
    BY <1>1, <1>2, <1>7, <1>14, <2>1, <2>5, SeesFinish
  <2> QED BY <1>5, <1>6, <2>4, <2>5, <2>6 DEF AsSeen!Next
<1>15. ASSUME NEW d, IsPatch, Quiet, left = <<S(5), Result(d), D(5)>>,
              Yielded(D(4)), ~ Yielded(S(5)), ~ Yielded(D(5))
       PROVE  OInv' /\ AsSeen!Next
  <2>1. Head(left) = S(5) /\ left' = <<Result(d), D(5)>>
    BY <1>1, <1>15, Tails
  <2>2. Quiet' /\ Yielded(S(5))' /\ ~ Yielded(D(5))'
    BY <1>7, <1>8, <1>9, <1>15, <2>1
  <2>3. IsPatch' /\ left' = <<Result(d), D(5)'>>
    BY <1>4, <1>15, <2>1
  <2>4. ClosingInv'
    BY <2>2, <2>3 DEF ClosingInv
  <2>5. 5 \in DOMAIN plan /\ 5 - 1 = 4
    BY <1>5, <1>15
  <2>6. AsSeen!Start(5)
    BY <1>1, <1>2, <1>15, <2>1, <2>5, SeesStart
  <2> QED BY <1>5, <1>6, <2>4, <2>5, <2>6 DEF AsSeen!Next
<1>16. ASSUME NEW d, IsPatch, Quiet, left = <<Result(d), D(5)>>, Yielded(S(5)), ~ Yielded(D(5))
       PROVE  OInv' /\ AsSeen!Next
  <2>1. Head(left) = Result(d) /\ left' = <<D(5)>>
    BY <1>1, <1>16, Tails
  <2>2. Result(d).type = "result"
    BY EventsApart
  <2>3. Yielded(S(5))' /\ ~ Yielded(D(5))' /\ \A e : Yielded(e)' => e.type # "error"
    BY <1>2, <1>7, <1>8, <1>9, <1>16, <2>1, <2>2 DEF Added
  <2>4. IsPatch' /\ left' = <<D(5)'>>
    BY <1>4, <1>16, <2>1
  <2>5. ClosingInv'
    BY <2>3, <2>4 DEF ClosingInv
  <2>6. AsSeen!Conclude("result")
    BY <1>1, <1>2, <1>16, <2>1, SeesResult
  <2> QED BY <1>6, <2>5, <2>6 DEF AsSeen!Next
<1>17. ASSUME IsPatch, left = <<D(5)>>, \A e : Yielded(e) => e.type # "error",
              Yielded(S(5)), ~ Yielded(D(5))
       PROVE  OInv' /\ AsSeen!Next
  <2>1. Head(left) = D(5) /\ left' = << >>
    BY <1>1, <1>17, Tails
  <2>2. 5 \in DOMAIN plan
    BY <1>5, <1>17
  <2>3. AsSeen!Finish(5)
    BY <1>1, <1>2, <1>17, <2>1, <2>2, SeesFinish
  <2> QED BY <1>3, <1>5, <2>1, <2>2, <2>3 DEF AsSeen!Next
<1> QED BY <1>1, <1>10, <1>11, <1>12, <1>13, <1>14, <1>15, <1>16, <1>17 DEF ClosingInv

\* Every step keeps the order, and the client sees a step of the stages or none.
LEMMA OStep ==
  ASSUME OInv, [Next]_vars
  PROVE  OInv' /\ [AsSeen!Next]_<<plan, Status, Verdict>>
<1>1. BInv'
  BY BStep DEF OInv
<1>2. CASE Work \/ Fail \/ Hang \/ CloseOutput \/ ClientEnds \/ EndOfOutput \/ Crash \/ UNCHANGED vars
  <2>1. /\ UNCHANGED <<plan, stage, events, left, pipe>>
        /\ phase' = phase \/ (phase = "work" /\ phase' = "done")
        /\ pc' \in {pc, "dead"} \/ (pc = "reading" /\ pc' = "waiting")
    BY <1>2 DEF Work, Fail, Hang, CloseOutput, ClientEnds, EndOfOutput, Crash, vars, script
  <2>2. UNCHANGED <<plan, Status, Verdict>>
    BY <2>1 DEF Status, Verdict, Yielded
  <2> QED BY <1>1, <2>1, <2>2, OStill
<1>3. CASE Mark \/ GuestPrints
  <2>1. UNCHANGED <<plan, events>>
    BY <1>3 DEF Mark, GuestPrints
  <2>2. UNCHANGED <<plan, Status, Verdict>>
    BY <2>1 DEF Status, Verdict, Yielded
  <2> QED BY <1>3, <2>2, OMark, OGuestPrints
<1>4. CASE \E p \in Plans : Begin(p) \/ Refuse(p) \/ LaunchFails(p)
  BY <1>4, OBegin DEF AsSeen!Next
<1>5. CASE ReadLine
  BY <1>5, OReadLine
<1>6. CASE Judge \/ TimeOut
  BY <1>6, OConclude
<1>7. CASE Yield
  BY <1>7, OYield
<1> QED BY <1>2, <1>3, <1>4, <1>5, <1>6, <1>7 DEF Next, ContainerStep, GeneratorStep

\* The events of a run, whichever pipeline and however it goes, are in the order
\* PatchRunner.tsx shows them in: what a client sees is a run of PipelineEvents.
THEOREM Refinement == Spec => EventsInOrder
<1>1. Init => AsSeen!Init
  <2> SUFFICES ASSUME Init PROVE AsSeen!Init
    OBVIOUS
  <2>1. plan = << >> /\ events = << >>
    BY DEF Init
  <2>2. Status = << >> /\ Verdict = "none"
    BY <2>1 DEF Status, Verdict
  <2> QED BY <2>1, <2>2 DEF AsSeen!Init
<1>2. OInv /\ [Next]_vars => OInv' /\ [AsSeen!Next]_<<plan, Status, Verdict>>
  BY OStep
<1> QED BY <1>1, <1>2, OInit, PTL DEF Spec, EventsInOrder, AsSeen!Spec

(***************************************************************************)
(* That a run ends.  The provers know nothing of fairness; what they can   *)
(* show is that a run whose script does not hang is never stuck, and that  *)
(* its steps run out.                                                      *)
(***************************************************************************)
\* The guards of the steps of the script, of its client and of the generator
\* that are not the daemon's to take.
ScriptGoesOn ==
  \/ Running /\ (phase = "work" \/ Len(pipe) < PipeSize)
  \/ client = "running" /\ exit # "none"
GeneratorGoesOn ==
  \/ pc = "reading" /\ (pipe # << >> \/ client \in {"closed", "ended"})
  \/ pc = "waiting" /\ client \in {"closed", "ended"}
  \/ pc = "closing" /\ left # << >>
RunGoesOn ==
  pc \in {"reading", "waiting", "closing"} /\ ~ hung => ScriptGoesOn \/ GeneratorGoesOn

\* A full pipe is read, an empty one written or closed, and the generator that
\* waits finds a client that ends, or its time limit (patch_agent.py:113-120,
\* qemu_agent.py:110-117): no run, with a pipe of any size, waits for itself.
THEOREM RunsGoOn == Spec => []RunGoesOn
<1>1. ASSUME IInv PROVE RunGoesOn
  <2> SUFFICES ASSUME pc \in {"reading", "waiting", "closing"}, ~ hung
               PROVE  ScriptGoesOn \/ GeneratorGoesOn
    BY DEF RunGoesOn
  <2>1. CASE pc \in {"waiting", "closing"}
    BY <1>1, <2>1 DEF IInv, ControlInv, GeneratorGoesOn
  <2>2. CASE pc = "reading"
    <3>1. client \in {"running", "closed", "ended"} /\ Len(pipe) \in Nat /\ PipeSize \in Nat \ {0}
      BY <1>1, <2>2, PipelineAssumption DEF IInv, ControlInv, TypeOK
    <3>2. CASE pipe # << >> \/ client \in {"closed", "ended"}
      BY <2>2, <3>2 DEF GeneratorGoesOn
    <3>3. CASE pipe = << >> /\ client = "running"
      <4>1. Len(pipe) = 0
        BY <3>3
      <4>2. Len(pipe) < PipeSize
        BY <3>1, <4>1
      <4> QED BY <3>3, <4>2 DEF ScriptGoesOn, Running
    <3> QED BY <3>1, <3>2, <3>3
  <2> QED BY <2>1, <2>2
<1>2. Spec => []IInv
  BY IInit, IStep, PTL DEF Spec
<1> QED BY <1>1, <1>2, PTL

\* How far the script, its client and the generator are from their end.  A line
\* that is printed has still to be read, so the script counts twice.
ScriptAhead(ended, s, p) ==
  IF ended # "none" THEN 0
  ELSE 1 + 3 * (3 - s) + (IF p = "start" THEN 3 ELSE IF p = "work" THEN 2 ELSE 1)
ClientAhead(c) ==
  IF c = "none" THEN 3 ELSE IF c = "running" THEN 2 ELSE IF c = "closed" THEN 1 ELSE 0
GeneratorAhead(g, n) ==
  IF g = "idle" THEN 8 ELSE IF g = "reading" THEN 7 ELSE IF g = "waiting" THEN 6
  ELSE IF g = "closing" THEN n ELSE 0
HangAhead == IF hung THEN 0 ELSE 1
RunAhead ==
  2 * ScriptAhead(exit, stage, phase) + 2 * (Measurements - printed) + Len(pipe)
    + (HangAhead + ClientAhead(client) + GeneratorAhead(pc, Len(left)))

LEMMA ScriptAheadValues ==
  \A s \in 1 .. 3 :
    /\ \A e : e # "none" => \A p : ScriptAhead(e, s, p) = 0
    /\ ScriptAhead("none", s, "start") = 13 - 3 * s
    /\ ScriptAhead("none", s, "work") = 12 - 3 * s
    /\ ScriptAhead("none", s, "done") = 11 - 3 * s
BY DEF ScriptAhead

LEMMA ClientAheadValues ==
  /\ ClientAhead("none") = 3 /\ ClientAhead("running") = 2 /\ ClientAhead("closed") = 1
  /\ ClientAhead("ended") = 0 /\ ClientAhead("killed") = 0
BY DEF ClientAhead

LEMMA GeneratorAheadValues ==
  \A n : /\ GeneratorAhead("idle", n) = 8 /\ GeneratorAhead("reading", n) = 7
         /\ GeneratorAhead("waiting", n) = 6 /\ GeneratorAhead("closing", n) = n
         /\ GeneratorAhead("ended", n) = 0 /\ GeneratorAhead("dead", n) = 0
BY DEF GeneratorAhead

LEMMA AheadNatural ==
  /\ \A e \in {"none", "ok", "failed"}, s \in 1 .. 3, p \in {"start", "work", "done"} :
       ScriptAhead(e, s, p) \in Nat
  /\ \A c \in {"none", "running", "closed", "ended", "killed"} : ClientAhead(c) \in Nat
  /\ \A g \in {"idle", "reading", "waiting", "closing", "ended", "dead"}, n \in Nat :
       GeneratorAhead(g, n) \in Nat
<1>1. ASSUME NEW e \in {"none", "ok", "failed"}, NEW s \in 1 .. 3, NEW p \in {"start", "work", "done"}
      PROVE  ScriptAhead(e, s, p) \in Nat
  <2>1. 13 - 3 * s \in Nat /\ 12 - 3 * s \in Nat /\ 11 - 3 * s \in Nat
    OBVIOUS
  <2>2. ScriptAhead(e, s, p) \in {0, 13 - 3 * s, 12 - 3 * s, 11 - 3 * s}
    BY ScriptAheadValues
  <2> QED BY <2>1, <2>2
<1> QED BY <1>1, ClientAheadValues, GeneratorAheadValues

LEMMA Remaining ==
  \A n \in 0 .. Measurements : Measurements - n \in Nat /\ n \in Nat /\ Measurements \in Nat
BY PipelineAssumption

LEMMA Measured ==
  ASSUME TypeOK
  PROVE  /\ ScriptAhead(exit, stage, phase) \in Nat /\ ClientAhead(client) \in Nat
         /\ GeneratorAhead(pc, Len(left)) \in Nat /\ Len(pipe) \in Nat /\ HangAhead \in 0 .. 1
         /\ Measurements - printed \in Nat /\ printed \in Nat /\ Measurements \in Nat
<1>1. /\ stage \in 1 .. 3 /\ phase \in {"start", "work", "done"} /\ exit \in {"none", "ok", "failed"}
      /\ client \in {"none", "running", "closed", "ended", "killed"}
      /\ pc \in {"idle", "reading", "waiting", "closing", "ended", "dead"}
      /\ Len(pipe) \in Nat /\ Len(left) \in Nat /\ printed \in 0 .. Measurements
  BY DEF TypeOK
<1>2. HangAhead \in 0 .. 1
  BY DEF HangAhead
<1>3. ScriptAhead(exit, stage, phase) \in Nat
  BY <1>1, AheadNatural
<1>4. ClientAhead(client) \in Nat
  BY <1>1, AheadNatural
<1>5. GeneratorAhead(pc, Len(left)) \in Nat
  BY <1>1, AheadNatural
<1>6. Measurements - printed \in Nat /\ printed \in Nat /\ Measurements \in Nat
  <2>1. printed \in 0 .. Measurements
    BY <1>1
  <2> QED BY <2>1, Remaining
<1> QED BY <1>1, <1>2, <1>3, <1>4, <1>5, <1>6

LEMMA MeasuredNext ==
  ASSUME TypeOK'
  PROVE  /\ ScriptAhead(exit', stage', phase') \in Nat /\ ClientAhead(client') \in Nat
         /\ GeneratorAhead(pc', Len(left')) \in Nat /\ Len(pipe') \in Nat /\ HangAhead' \in 0 .. 1
         /\ Measurements - printed' \in Nat /\ printed' \in Nat /\ Measurements \in Nat
<1>1. /\ stage' \in 1 .. 3 /\ phase' \in {"start", "work", "done"} /\ exit' \in {"none", "ok", "failed"}
      /\ client' \in {"none", "running", "closed", "ended", "killed"}
      /\ pc' \in {"idle", "reading", "waiting", "closing", "ended", "dead"}
      /\ Len(pipe') \in Nat /\ Len(left') \in Nat /\ printed' \in 0 .. Measurements
  BY DEF TypeOK
<1>2. HangAhead' \in 0 .. 1
  BY DEF HangAhead
<1>3. ScriptAhead(exit', stage', phase') \in Nat
  BY <1>1, AheadNatural
<1>4. ClientAhead(client') \in Nat
  BY <1>1, AheadNatural
<1>5. GeneratorAhead(pc', Len(left')) \in Nat
  BY <1>1, AheadNatural
<1>6. Measurements - printed' \in Nat /\ printed' \in Nat /\ Measurements \in Nat
  <2>1. printed' \in 0 .. Measurements
    BY <1>1
  <2> QED BY <2>1, Remaining
<1> QED BY <1>1, <1>2, <1>3, <1>4, <1>5, <1>6

\* Sums with smaller parts.
LEMMA SmallerSum ==
  ASSUME NEW a \in Nat, NEW b \in Nat, NEW x \in Nat, NEW y \in Nat, NEW k \in Nat, NEW n \in Nat,
         NEW r \in Nat, NEW q \in Nat,
         \/ a < b /\ x = y /\ k <= n + 1 /\ r = q
         \/ a = b /\ x < y /\ k <= n + 1 /\ r = q
         \/ a = b /\ x = y /\ k = n /\ r < q
  PROVE  (a + a) + (x + x) + k + r < (b + b) + (y + y) + n + q
OBVIOUS

LEMMA SmallerRest ==
  \A h, c, g, d \in Nat : d < c => h + d + g < h + c + g
OBVIOUS

LEMMA ScriptShortens ==
  ASSUME IInv, IInv', ContainerStep \/ Hang \/ ClientEnds
  PROVE  RunAhead' < RunAhead
<1> DEFINE s == ScriptAhead(exit, stage, phase)
           c == ClientAhead(client)
           g == GeneratorAhead(pc, Len(left))
           h == HangAhead
           m == Measurements - printed
           l == Len(pipe)
<1>0. /\ s \in Nat /\ c \in Nat /\ g \in Nat /\ h \in 0 .. 1 /\ Len(pipe) \in Nat
      /\ printed \in Nat /\ Measurements \in Nat
      /\ s' \in Nat /\ c' \in Nat /\ m \in Nat /\ m' \in Nat /\ h' \in 0 .. 1 /\ Len(pipe') \in Nat /\ printed' \in Nat
  <2>1. TypeOK /\ TypeOK'
    BY DEF IInv
  <2> QED BY <2>1, Measured, MeasuredNext, Zenon
<1>1. UNCHANGED <<pc, left>> /\ g' = g
  BY DEF ContainerStep, Hang, ClientEnds, Mark, Work, Fail, GuestPrints, CloseOutput
<1>a. stage \in 1 .. 3 /\ stage' \in 1 .. 3
  BY DEF IInv, TypeOK
<1>b. /\ RunAhead = (s + s) + (m + m) + l + (h + c + g)
      /\ RunAhead' = (s' + s') + (m' + m') + l' + (h' + c' + g')
  <2>1. /\ RunAhead = 2 * s + 2 * m + l + (h + c + g)
        /\ RunAhead' = 2 * s' + 2 * m' + l' + (h' + c' + g')
    BY DEF RunAhead
  <2>2. \A n \in Nat : 2 * n = n + n
    OBVIOUS
  <2> QED BY <1>0, <2>1, <2>2, Zenon
<1>d. h + c + g \in Nat /\ h' + c' + g' \in Nat
  <2> HIDE DEF s, c, g, h, m
  <2>1. h \in Nat /\ c \in Nat /\ g \in Nat
    BY <1>0
  <2>2. h' \in Nat /\ c' \in Nat /\ g' \in Nat
    BY <1>0, <1>1
  <2>3. \A i, j, k \in Nat : i + j + k \in Nat
    OBVIOUS
  <2> QED BY <2>1, <2>2, <2>3, Zenon
<1>c. /\ m \in Nat /\ l \in Nat /\ m' \in Nat /\ l' \in Nat
      /\ printed' = printed => m' = m
      /\ pipe' = pipe => l' = l
  BY <1>0
<1>2. CASE Mark
  <2>1. UNCHANGED <<printed, hung, client>> /\ l' = l + 1 /\ c' = c /\ h' = h
    BY <1>2 DEF HangAhead, Mark, Write, IInv, TypeOK
  <2>2. /\ exit = "none"
        /\ \/ phase = "start" /\ phase' = "work" /\ UNCHANGED <<stage, exit>>
           \/ phase = "done" /\ stage' = stage + 1 /\ phase' = "start" /\ exit' = exit
           \/ phase = "done" /\ exit' = "ok" /\ UNCHANGED stage
    BY <1>2 DEF Mark, Running
  <2>3. s' < s
    <3>1. CASE phase = "start" /\ phase' = "work" /\ UNCHANGED <<stage, exit>>
      BY <1>a, <2>2, <3>1, ScriptAheadValues
    <3>2. CASE phase = "done" /\ stage' = stage + 1 /\ phase' = "start" /\ exit' = exit
      BY <1>a, <2>2, <3>2, ScriptAheadValues
    <3>3. CASE phase = "done" /\ exit' = "ok" /\ UNCHANGED stage
      BY <1>a, <2>2, <3>3, ScriptAheadValues
    <3> QED BY <2>2, <3>1, <3>2, <3>3
  <2>4. h' + c' + g' = h + c + g
    BY <1>1, <2>1
  <2>5. m' = m /\ l' <= l + 1
    BY <1>0, <1>c, <2>1
  <2> HIDE DEF s, c, g, h, m, l
  <2> QED BY <1>0, <1>b, <1>c, <1>d, <2>1, <2>3, <2>4, <2>5, SmallerSum
<1>3. CASE Work \/ Fail
  <2>1. UNCHANGED <<printed, hung, client, pipe, stage>> /\ c' = c /\ h' = h
    BY <1>3 DEF HangAhead, Work, Fail
  <2>2. /\ exit = "none" /\ phase \in {"start", "work", "done"}
        /\ \/ phase = "work" /\ phase' = "done" /\ exit' = exit
           \/ exit' = "failed"
    BY <1>3 DEF Work, Fail, Running, IInv, TypeOK
  <2>3. s' < s
    BY <1>a, <2>1, <2>2, ScriptAheadValues
  <2>4. h' + c' + g' = h + c + g
    BY <1>1, <2>1
  <2>5. m' = m /\ l' <= l + 1
    BY <1>0, <1>c, <2>1
  <2> HIDE DEF s, c, g, h, m, l
  <2> QED BY <1>0, <1>b, <1>c, <1>d, <2>1, <2>3, <2>4, <2>5, SmallerSum
<1>4. CASE GuestPrints
  <2>1. /\ UNCHANGED <<stage, phase, exit, hung, client>> /\ l' = l + 1
        /\ printed' = printed + 1 /\ c' = c /\ h' = h /\ s' = s
    BY <1>4 DEF HangAhead, GuestPrints, Write, IInv, TypeOK
  <2>2. m' = m - 1
    BY <1>0, <2>1
  <2>4. h' + c' + g' = h + c + g
    BY <1>1, <2>1
  <2>5. m' < m /\ l' <= l + 1
    BY <1>0, <1>c, <2>1
  <2> HIDE DEF s, c, g, h, m, l
  <2> QED BY <1>0, <1>b, <1>c, <1>d, <2>1, <2>2, <2>4, <2>5, SmallerSum
<1>5. CASE Hang
  <2>1. UNCHANGED <<stage, phase, exit, client, printed, pipe>> /\ h = 1 /\ h' = 0 /\ c' = c /\ s' = s
    BY <1>5 DEF HangAhead, Hang, Running
  <2> HIDE DEF s, c, g, h, m, l
  <2> QED BY <1>0, <1>1, <1>b, <1>c, <2>1
<1>6. CASE CloseOutput \/ ClientEnds
  <2>1. UNCHANGED <<stage, phase, exit, hung, printed, pipe>> /\ h' = h /\ s' = s
    BY <1>6 DEF HangAhead, CloseOutput, ClientEnds
  <2>2. c' < c
    BY <1>6, ClientAheadValues DEF CloseOutput, ClientEnds
  <2> HIDE DEF s, c, g, h, m, l
  <2>3. h' + c' + g' < h + c + g
    <3>1. h \in Nat /\ c \in Nat /\ g \in Nat /\ c' \in Nat
      BY <1>0
    <3>2. h' = h /\ g' = g
      BY <1>1, <2>1
    <3> QED BY <2>2, <3>1, <3>2, SmallerRest, Zenon
  <2>4. m' = m /\ l' = l
    BY <1>0, <1>c, <2>1
  <2> QED BY <1>0, <1>b, <1>c, <1>d, <2>1, <2>3, <2>4, SmallerSum
<1> QED BY <1>2, <1>3, <1>4, <1>5, <1>6 DEF ContainerStep

\* Reading, judging and yielding: the generator reads a line, or is a place
\* further, whatever it has left to say.
LEMMA GeneratorShortens ==
  ASSUME IInv, IInv', GeneratorStep \/ Crash \/ \E p \in Plans : Begin(p) \/ Refuse(p) \/ LaunchFails(p)
  PROVE  RunAhead' < RunAhead
<1> DEFINE s == ScriptAhead(exit, stage, phase)
           c == ClientAhead(client)
           g == GeneratorAhead(pc, Len(left))
           h == HangAhead
           m == Measurements - printed
           l == Len(pipe)
<1>0. /\ s \in Nat /\ c \in Nat /\ g \in Nat /\ h \in 0 .. 1 /\ l \in Nat /\ m \in Nat
      /\ s' \in Nat /\ c' \in Nat /\ g' \in Nat /\ h' \in 0 .. 1 /\ l' \in Nat /\ m' \in Nat
  <2>1. TypeOK /\ TypeOK'
    BY DEF IInv
  <2> QED BY <2>1, Measured, MeasuredNext, Zenon
<1>1. UNCHANGED <<stage, phase, printed, exit, hung>>
  BY DEF GeneratorStep, ReadLine, EndOfOutput, TimeOut, Judge, Yield, Crash, Begin, Refuse,
         LaunchFails, script
<1>2. s' = s /\ m' = m /\ h' = h
  BY <1>1 DEF HangAhead
<1>b. /\ RunAhead = (s + s) + (m + m) + l + (h + c + g)
      /\ RunAhead' = (s' + s') + (m' + m') + l' + (h' + c' + g')
  <2>1. /\ RunAhead = 2 * s + 2 * m + l + (h + c + g)
        /\ RunAhead' = 2 * s' + 2 * m' + l' + (h' + c' + g')
    BY DEF RunAhead
  <2>2. \A n \in Nat : 2 * n = n + n
    OBVIOUS
  <2> QED BY <1>0, <2>1, <2>2, Zenon
<1>3. CASE ReadLine
  <2>1. UNCHANGED <<client, pc, left>> /\ c' = c /\ g' = g
    BY <1>3 DEF ReadLine, script
  <2>2. l' = l - 1
    BY <1>3 DEF ReadLine, IInv, TypeOK
  <2> HIDE DEF s, c, g, h, m, l
  <2>3. \A a, b, r, n, k \in Nat : k = n - 1 => (a + a) + (b + b) + k + r < (a + a) + (b + b) + n + r
    OBVIOUS
  <2>4. h + c + g \in Nat
    BY <1>0
  <2> QED BY <1>0, <1>2, <1>b, <2>1, <2>2, <2>3, <2>4, Zenon
<1>4. ASSUME c' + g' < c + g, l' = l PROVE RunAhead' < RunAhead
  <2> HIDE DEF s, c, g, h, m, l
  <2>1. \A a, b, n, i, x, y, u, v \in Nat :
          u + v < x + y => (a + a) + (b + b) + n + (i + u + v) < (a + a) + (b + b) + n + (i + x + y)
    OBVIOUS
  <2>2. h \in Nat
    BY <1>0
  <2> QED BY <1>0, <1>2, <1>4, <1>b, <2>1, <2>2, Zenon
<1>5. CASE EndOfOutput \/ Crash
  <2>1. UNCHANGED <<client, left, pipe>>
    BY <1>5 DEF EndOfOutput, Crash, script
  <2>2. c' = c /\ l' = l
    BY <2>1
  <2>3. g' < g
    <3>1. Len(left) \in Nat /\ Len(left') = Len(left) /\ (pc = "closing" => Len(left) > 0)
      <4>1. left \in Seq(Event) /\ (pc = "closing" => left # << >>)
        BY DEF IInv, TypeOK, ControlInv
      <4> QED BY <2>1, <4>1
    <3>2. CASE pc = "reading" /\ pc' = "waiting"
      BY <3>2, GeneratorAheadValues
    <3>3. CASE pc \in {"reading", "waiting", "closing"} /\ pc' = "dead"
      BY <3>1, <3>3, GeneratorAheadValues
    <3> QED BY <1>5, <3>2, <3>3 DEF EndOfOutput, Crash
  <2>4. c' + g' < c + g
    BY <1>0, <2>2, <2>3
  <2> QED BY <1>4, <2>2, <2>4
<1>6. CASE TimeOut \/ Judge \/ \E p \in Plans : Refuse(p) \/ LaunchFails(p)
  <2>1. /\ UNCHANGED pipe /\ client' \in {client, "killed"} /\ pc \in {"waiting", "idle"}
        /\ \/ pc' = "closing" /\ Len(left') \in 1 .. 5
           \/ pc' = "dead"
    BY <1>6 DEF TimeOut, Judge, Refuse, LaunchFails, Conclude, script
  <2>2. c' <= c
    BY <1>0, <2>1, ClientAheadValues
  <2>3. g' < g
    <3>1. g \in {6, 8}
      BY <2>1, GeneratorAheadValues
    <3>2. g' \in 0 .. 5
      <4>1. CASE pc' = "closing" /\ Len(left') \in 1 .. 5
        <5>1. g' = Len(left')
          BY <4>1, GeneratorAheadValues
        <5> QED BY <4>1, <5>1
      <4>2. CASE pc' = "dead"
        BY <4>2, GeneratorAheadValues
      <4> QED BY <2>1, <4>1, <4>2
    <3> QED BY <3>1, <3>2
  <2>4. c' + g' < c + g /\ l' = l
    BY <1>0, <2>1, <2>2, <2>3
  <2> QED BY <1>4, <2>4
<1>7. CASE \E p \in Plans : Begin(p)
  <2>1. pc = "idle" /\ pc' = "reading" /\ client = "none" /\ client' = "running" /\ pipe' = pipe
    BY <1>7 DEF Begin, IInv, ControlInv
  <2>2. c' + g' < c + g /\ l' = l
    BY <2>1, ClientAheadValues, GeneratorAheadValues
  <2> QED BY <1>4, <2>2
<1>8. CASE Yield
  <2>1. UNCHANGED <<client, pipe>> /\ pc = "closing" /\ pc' \in {"closing", "ended"}
        /\ left' = Tail(left) /\ left \in Seq(Event) /\ left # << >>
    BY <1>8 DEF Yield, script, IInv, TypeOK, ControlInv
  <2>2. Len(left) \in Nat \ {0} /\ Len(left') = Len(left) - 1
    BY <2>1
  <2>3. g' < g
    BY <2>1, <2>2, GeneratorAheadValues
  <2>4. c' + g' < c + g /\ l' = l
    BY <1>0, <2>1, <2>3
  <2> QED BY <1>4, <2>4
<1> QED BY <1>3, <1>5, <1>6, <1>7, <1>8 DEF GeneratorStep

\* A run's steps run out, whatever fails and however long the daemon takes: with
\* RunsGoOn, a run ends unless its script hangs, the case in which the ceiling
\* of patch_agent.py:28 does not hold.
THEOREM RunsRunOut == Spec => [](RunAhead \in Nat) /\ [][RunAhead' < RunAhead]_vars
<1>1. IInv => RunAhead \in Nat
  <2> SUFFICES ASSUME IInv PROVE RunAhead \in Nat
    OBVIOUS
  <2>1. TypeOK
    BY DEF IInv
  <2> DEFINE s == ScriptAhead(exit, stage, phase)
             c == ClientAhead(client)
             g == GeneratorAhead(pc, Len(left))
             m == Measurements - printed
             l == Len(pipe)
  <2>2. s \in Nat /\ c \in Nat /\ g \in Nat /\ m \in Nat /\ l \in Nat /\ HangAhead \in Nat
    BY <2>1, Measured
  <2>3. RunAhead = 2 * s + 2 * m + l + (HangAhead + c + g)
    BY DEF RunAhead
  <2> HIDE DEF s, c, g, m, l
  <2>4. \A a, b, n, i, x, y \in Nat : 2 * a + 2 * b + n + (i + x + y) \in Nat
    OBVIOUS
  <2> QED BY <2>2, <2>3, <2>4, Zenon
<1>2. IInv /\ IInv' /\ [Next]_vars => [RunAhead' < RunAhead]_vars
  BY ScriptShortens, GeneratorShortens DEF Next
<1>3. Spec => []IInv
  BY IInit, IStep, PTL DEF Spec
<1> QED BY <1>1, <1>2, <1>3, PTL DEF Spec

(***************************************************************************)
(* The programs over pipes.                                                *)
(***************************************************************************)
IsPP == program = "context_switch"
Loop == {"closing", "writing"}

\* What was sent is what was taken and what is in the pipe; the parent's end of
\* ping is open until it has written everything.
PipeInv ==
  /\ place \in [Pipe!Processes -> {"start", "none", "closing", "writing", "reading",
                                   "waiting", "returned", "failed", "killed", "reported"}]
  /\ count \in [Pipe!Processes -> Nat] /\ held \in [Pipe!Pipes -> Nat]
  /\ IsPP => /\ count["child"] = count["parent"] + held["pong"]
             /\ count["child"] <= Rounds
             /\ place["child"] = "writing" => count["child"] < Rounds
  /\ ~ IsPP => /\ count["parent"] = count["child"] + held["ping"]
               /\ place["parent"] \in Loop => <<"parent", "ping", "w">> \in ends
               /\ place["parent"] # "reading"
               /\ place["child"] \notin {"writing", "failed", "reported"}
               /\ place["child"] = "returned" =>
                    count["child"] >= Rounds \/ (held["ping"] = 0 /\ place["parent"] \notin Loop)
  /\ place["parent"] = "start" => place["child"] = "none"
  /\ place["child"] # "start"
  /\ place["parent"] # "none"
  /\ place["parent"] \in {"waiting", "reported"} => count["parent"] = Rounds
  /\ place["parent"] = "reported" => Pipe!Ended("child")

LEMMA PipeStart == WInit => PipeInv
BY WorkloadAssumption DEF WInit, Pipe!PipeInit, PipeInv, Pipe!Processes, Pipe!Pipes, Loop,
  Pipe!PipeConstantsOK

LEMMA PipeStep == PipeInv /\ [WNext]_wvars => PipeInv'
<1> SUFFICES ASSUME PipeInv, [WNext]_wvars PROVE PipeInv'
  OBVIOUS
<1> USE WorkloadAssumption DEF Pipe!PipeConstantsOK, Pipe!IsPingPong, IsPP
<1> DEFINE steady == UNCHANGED <<program, pipePrograms>>
<1>1. CASE steady
  BY <1>1 DEF PipeInv, pipePrograms, Pipe!Ended
<1>2. CASE Pipe!PipeNext
  <2> USE DEF Pipe!Goto, Pipe!Exit, Pipe!Keep, Pipe!Counted, Pipe!Processes, Pipe!Pipes,
              Pipe!Ended, Loop
  <2>0. program' = program
    BY <1>2 DEF Pipe!PipeNext
  <2>1. CASE Pipe!Fork
    BY <2>0, <2>1 DEF PipeInv, Pipe!Fork, Pipe!UsedPipes
  <2>2. CASE Pipe!ParentCloses
    BY <2>0, <2>2 DEF PipeInv, Pipe!ParentCloses
  <2>3. CASE Pipe!ParentWrites
    BY <2>0, <2>3 DEF PipeInv, Pipe!ParentWrites, Pipe!Write
  <2>4. CASE Pipe!ParentReads
    BY <2>0, <2>4 DEF PipeInv, Pipe!ParentReads, Pipe!Read
  <2>5. CASE Pipe!ParentStops
    BY <2>0, <2>5 DEF PipeInv, Pipe!ParentStops
  <2>6. CASE Pipe!ParentReports
    BY <2>0, <2>6 DEF PipeInv, Pipe!ParentReports
  <2>7. CASE Pipe!ChildCloses
    BY <2>0, <2>7 DEF PipeInv, Pipe!ChildCloses
  <2>8. CASE Pipe!ChildReads
    BY <2>0, <2>8 DEF PipeInv, Pipe!ChildReads, Pipe!Read, Pipe!Wants, Pipe!HasWriter
  <2>9. CASE Pipe!ChildWrites
    BY <2>0, <2>9 DEF PipeInv, Pipe!ChildWrites, Pipe!Write
  <2>10. CASE Pipe!ChildStops
    BY <2>0, <2>10 DEF PipeInv, Pipe!ChildStops, Pipe!Wants
  <2>11. CASE \E x \in Pipe!Processes : Pipe!Die(x)
    BY <2>0, <2>11 DEF PipeInv, Pipe!Die
  <2> QED
    BY <1>2, <2>1, <2>2, <2>3, <2>4, <2>5, <2>6, <2>7, <2>8, <2>9, <2>10, <2>11
    DEF Pipe!PipeNext, Pipe!ParentStep, Pipe!ChildStep
<1>3. steady \/ Pipe!PipeNext
  BY DEF WNext, wvars, Check!CheckNext, Sample!SampleNext
<1> QED BY <1>1, <1>2, <1>3

\* A throughput or a switching time is reported only of a run whose child took
\* everything, or was killed, for any volume and a pipe of any size.
THEOREM EarnedCorrect == WSpec => []ReportIsEarned
<1>1. PipeInv => ReportIsEarned
  BY WorkloadAssumption DEF PipeInv, ReportIsEarned, Pipe!ReportIsEarned, Pipe!Ended, Loop,
    Pipe!IsPingPong, IsPP, Pipe!PipeConstantsOK, Pipe!Processes, Pipe!Pipes
<1> QED BY <1>1, PipeStart, PipeStep, PTL DEF WSpec

\* A pipe is never fuller than it can be, and nobody counts beyond the volume,
\* although a child that expects a remainder reads on after it.
RoomInv ==
  /\ remainder \in BOOLEAN
  /\ count["parent"] <= Rounds
  /\ place["parent"] = "reading" => count["parent"] < Rounds
  /\ \A p \in Pipe!Pipes : held[p] <= Capacity
  /\ ends \subseteq Pipe!Processes \X Pipe!Pipes \X {"r", "w"}

LEMMA RoomStart == WInit => RoomInv
BY WorkloadAssumption DEF WInit, Pipe!PipeInit, RoomInv, Pipe!Processes, Pipe!Pipes, Pipe!PipeConstantsOK

LEMMA RoomStep == PipeInv /\ RoomInv /\ [WNext]_wvars => RoomInv'
<1> SUFFICES ASSUME PipeInv, RoomInv, [WNext]_wvars PROVE RoomInv'
  OBVIOUS
<1> USE WorkloadAssumption DEF Pipe!PipeConstantsOK, Pipe!IsPingPong, IsPP
<1> DEFINE steady == UNCHANGED <<program, pipePrograms>>
<1>1. CASE steady
  BY <1>1 DEF RoomInv, pipePrograms
<1>2. CASE Pipe!PipeNext
  <2> USE DEF Pipe!Goto, Pipe!Exit, Pipe!Keep, Pipe!Counted, Pipe!Processes, Pipe!Pipes, Pipe!Ended
  <2>0. program' = program /\ remainder' = remainder
    BY <1>2 DEF Pipe!PipeNext
  <2>1. CASE Pipe!Fork
    BY <2>0, <2>1 DEF PipeInv, RoomInv, Pipe!Fork, Pipe!UsedPipes
  <2>2. CASE Pipe!ParentCloses
    BY <2>0, <2>2 DEF PipeInv, RoomInv, Pipe!ParentCloses
  <2>3. CASE Pipe!ParentWrites
    BY <2>0, <2>3 DEF PipeInv, RoomInv, Pipe!ParentWrites, Pipe!Write
  <2>4. CASE Pipe!ParentReads
    BY <2>0, <2>4 DEF PipeInv, RoomInv, Pipe!ParentReads, Pipe!Read
  <2>5. CASE Pipe!ParentStops
    BY <2>0, <2>5 DEF PipeInv, RoomInv, Pipe!ParentStops
  <2>6. CASE Pipe!ParentReports
    BY <2>0, <2>6 DEF PipeInv, RoomInv, Pipe!ParentReports
  <2>7. CASE Pipe!ChildCloses
    BY <2>0, <2>7 DEF PipeInv, RoomInv, Pipe!ChildCloses
  <2>8. CASE Pipe!ChildReads
    BY <2>0, <2>8 DEF PipeInv, RoomInv, Pipe!ChildReads, Pipe!Read
  <2>9. CASE Pipe!ChildWrites
    BY <2>0, <2>9 DEF PipeInv, RoomInv, Pipe!ChildWrites, Pipe!Write
  <2>10. CASE Pipe!ChildStops
    BY <2>0, <2>10 DEF PipeInv, RoomInv, Pipe!ChildStops
  <2>11. CASE \E x \in Pipe!Processes : Pipe!Die(x)
    BY <2>0, <2>11 DEF PipeInv, RoomInv, Pipe!Die
  <2> QED
    BY <1>2, <2>1, <2>2, <2>3, <2>4, <2>5, <2>6, <2>7, <2>8, <2>9, <2>10, <2>11
    DEF Pipe!PipeNext, Pipe!ParentStep, Pipe!ChildStep
<1>3. steady \/ Pipe!PipeNext
  BY DEF WNext, wvars, Check!CheckNext, Sample!SampleNext
<1> QED BY <1>1, <1>2, <1>3

LEMMA PipeTypes == PipeInv /\ RoomInv => Pipe!PipeTypeOK
<1> SUFFICES ASSUME PipeInv, RoomInv PROVE Pipe!PipeTypeOK
  OBVIOUS
<1>1. count["parent"] \in 0 .. Rounds /\ count["child"] \in 0 .. Rounds
  BY WorkloadAssumption DEF PipeInv, RoomInv, Pipe!PipeConstantsOK, Pipe!Processes, Pipe!Pipes
<1>2. count \in [Pipe!Processes -> 0 .. Rounds]
  BY <1>1 DEF PipeInv, Pipe!Processes
<1>3. held \in [Pipe!Pipes -> 0 .. Capacity]
  BY WorkloadAssumption DEF PipeInv, RoomInv, Pipe!PipeConstantsOK
<1> QED BY <1>2, <1>3 DEF PipeInv, RoomInv, Pipe!PipeTypeOK

(***************************************************************************)
(* The programs that give a verdict.                                       *)
(***************************************************************************)
Busy(w) == thread[w] \in {"ready", "inside"}
Through == {j \in 1 .. Threads : thread[<<round, j>>] = "ended"}

\* While nothing has gone wrong only the threads of this round are on their way,
\* one at a time has the counter, and the counter is how many are through.
Tidy ==
  /\ at \notin {"start", "testing", "waiting", "ended"} => round \in 1 .. MaxRounds
  /\ \A w \in Check!Worker : w[1] > round \/ (at = "forking" /\ w[1] = round) => thread[w] = "none"
  /\ \A w \in Check!Worker : Busy(w) => at = "creating" /\ w[1] = round
  /\ lock = {w \in Check!Worker : thread[w] = "inside"}
  /\ \A v, w \in Check!Worker : thread[v] = "inside" /\ thread[w] = "inside" => v = w
  /\ \A w \in Check!Worker : thread[w] = "inside" => loaded[w] = counter
  /\ at = "creating" => counter = Cardinality(Through)

Counts ==
  /\ at \in {"start", "forking", "creating", "clock", "stopping", "testing", "waiting",
             "ended", "crashed"}
  /\ program = "stress_test" /\ at = "start" => round = 0
  /\ program = "posix_validation" => at \in {"start", "testing", "waiting", "ended"}
  /\ round \in Nat
  /\ thread \in [Check!Worker -> {"none", "ready", "inside", "ended"}]
  /\ loaded \in [Check!Worker -> Nat]
  /\ counter \in Nat /\ failures \in Nat

Told ==
  /\ failures > 0 => faults # {}
  /\ failures = 0 /\ at # "waiting" => faults \subseteq Check!Unseen
  /\ verdict # "none" => at = "ended"
  /\ verdict = "FAIL" => failures > 0
  /\ verdict = "PASS" => failures = 0

CheckInv == Counts /\ Told /\ (faults = {} => Tidy)

LEMMA CheckStart == WInit => CheckInv
<1> SUFFICES ASSUME WInit PROVE CheckInv
  OBVIOUS
<1> USE DEF WInit, Check!CheckInit
<1>1. Counts
  BY WorkloadAssumption DEF Counts
<1>2. Told
  BY DEF Told
<1>3. Tidy
  BY DEF Tidy, Busy
<1> QED BY <1>1, <1>2, <1>3 DEF CheckInv

Outcomes == {"right", "wrong", "no child"}

LEMMA FailedChecksFacts ==
  ASSUME NEW test \in {"fork", "wait", "exec", "SIGTERM", "SIGKILL"}, NEW outcome \in Outcomes,
         NEW n \in Check!FailedChecks(test, outcome)
  PROVE  /\ n \in {0, 1, 2}
         /\ outcome = "right" => n = 0
         /\ outcome # "right" /\ n = 0 => <<test, outcome>> \in Check!Unseen
<1>1. CASE outcome = "right"
  BY <1>1 DEF Check!FailedChecks
<1>2. CASE outcome = "no child"
  <2>1. n \in IF test \in {"fork", "wait"} THEN {1} ELSE {0, 1}
    BY <1>2 DEF Check!FailedChecks
  <2>2. n = 0 => test \in {"exec", "SIGTERM", "SIGKILL"}
    BY <2>1
  <2>3. test \in {"exec", "SIGTERM", "SIGKILL"} => <<test, outcome>> \in Check!Unseen
    BY <1>2 DEF Check!Unseen
  <2> QED BY <1>2, <2>1, <2>2, <2>3
<1>3. CASE outcome = "wrong"
  <2>1. n \in IF test = "fork" THEN {0} ELSE IF test = "wait" THEN {1, 2} ELSE {1}
    BY <1>3 DEF Check!FailedChecks
  <2>2. n = 0 => test = "fork"
    BY <2>1
  <2>3. test = "fork" => <<test, outcome>> \in Check!Unseen
    BY <1>3 DEF Check!Unseen
  <2> QED BY <1>3, <2>1, <2>2, <2>3
<1> QED BY <1>1, <1>2, <1>3 DEF Outcomes

\* A POSIX test adds to the failures, or to the faults that cannot be seen.
LEMMA PosixEffect ==
  ASSUME Counts, Check!PosixTest
  PROVE  /\ at \in {"start", "testing"} /\ at' = "testing"
         /\ program = "posix_validation" /\ round' = round + 1
         /\ UNCHANGED <<thread, loaded, counter, verdict>>
         /\ \E n \in {0, 1, 2} :
              /\ failures' = failures + n
              /\ n = 0 => faults' \subseteq faults \cup Check!Unseen
              /\ n > 0 => faults' # {}
              /\ faults \subseteq faults'
<1>1. /\ at \in {"start", "testing"} /\ at' = "testing"
      /\ program = "posix_validation" /\ round' = round + 1
      /\ UNCHANGED <<thread, loaded, counter, verdict>> /\ round < Len(Check!PosixTests)
  BY DEF Check!PosixTest, Check!BeginTest, Check!workers
<1>2. Len(Check!PosixTests) = 5
  BY DEF Check!PosixTests
<1>3. round' \in 1 .. 5
  BY <1>1, <1>2 DEF Counts
<1>4. Check!PosixTests[round'] \in {"fork", "wait", "exec", "SIGTERM", "SIGKILL"}
  BY <1>3 DEF Check!PosixTests
<1>5. PICK outcome \in Outcomes :
        /\ \E n \in Check!FailedChecks(Check!PosixTests[round'], outcome) : failures' = failures + n
        /\ faults' = IF outcome = "right" THEN faults
                     ELSE faults \cup {<<Check!PosixTests[round'], outcome>>}
  BY DEF Check!PosixTest, Check!Fail, Outcomes
<1>6. PICK n \in Check!FailedChecks(Check!PosixTests[round'], outcome) : failures' = failures + n
  BY <1>5
<1>7. /\ n \in {0, 1, 2}
      /\ outcome = "right" => n = 0
      /\ outcome # "right" /\ n = 0 => <<Check!PosixTests[round'], outcome>> \in Check!Unseen
  BY <1>4, <1>6, FailedChecksFacts
<1>8. CASE outcome = "right"
  <2>1. faults' = faults /\ n = 0
    BY <1>5, <1>7, <1>8
  <2> QED BY <1>1, <1>6, <2>1
<1>9. CASE outcome # "right"
  <2>1. faults' = faults \cup {<<Check!PosixTests[round'], outcome>>}
    BY <1>5, <1>9
  <2>2. n = 0 => faults' \subseteq faults \cup Check!Unseen
    BY <1>7, <1>9, <2>1
  <2>3. faults' # {} /\ faults \subseteq faults'
    BY <2>1
  <2> QED BY <1>1, <1>6, <1>7, <2>2, <2>3
<1> QED BY <1>8, <1>9

LEMMA CountsStep == CheckInv /\ Check!CheckNext => Counts'
<1> SUFFICES ASSUME CheckInv, Check!CheckNext PROVE Counts'
  OBVIOUS
<1> USE DEF CheckInv, Counts
<1>0. program' = program /\ MaxRounds \in Nat \ {0}
  BY WorkloadAssumption DEF Check!CheckNext, Check!CheckConstantsOK
<1>1. CASE Check!StartHogs
  BY <1>0, <1>1 DEF Check!StartHogs, Check!workers
<1>2. CASE Check!ForkStress
  BY <1>0, <1>2 DEF Check!ForkStress, Check!Fail
<1>3. CASE Check!CreateThread
  BY <1>0, <1>3 DEF Check!CreateThread
<1>4. CASE Check!CreateFails
  BY <1>0, <1>4 DEF Check!CreateFails, Check!workers, Check!Fail
<1>5. CASE Check!JoinThreads
  BY <1>0, <1>5 DEF Check!JoinThreads, Check!workers, Check!Fail
<1>6. CASE Check!NextRound
  BY <1>0, <1>6 DEF Check!NextRound, Check!workers
<1>7. CASE Check!JoinHogs
  BY <1>0, <1>7 DEF Check!JoinHogs, Check!workers, Check!Fail, Check!Conclude
<1>8. CASE Check!PosixTest
  <2>1. PICK n \in {0, 1, 2} : failures' = failures + n
    BY <1>8, PosixEffect
  <2>2. /\ at' = "testing" /\ program = "posix_validation" /\ round' = round + 1
        /\ UNCHANGED <<thread, loaded, counter>>
    BY <1>8, PosixEffect
  <2>3. failures' \in Nat
    BY <2>1
  <2> QED BY <1>0, <2>2, <2>3
<1>11. CASE Check!SignalIgnored
  BY <1>0, <1>11 DEF Check!SignalIgnored, Check!BeginTest, Check!workers
<1>9. CASE Check!PosixResult
  BY <1>0, <1>9 DEF Check!PosixResult, Check!workers, Check!Fail, Check!Conclude
<1>10. ASSUME NEW w \in Check!Worker, Check!WorkerStep(w) PROVE Counts'
  <2>1. CASE Check!Lock(w)
    BY <1>0, <2>1 DEF Check!Lock
  <2>2. CASE Check!Increment(w)
    BY <1>0, <2>2 DEF Check!Increment
  <2> QED BY <1>10, <2>1, <2>2 DEF Check!WorkerStep
<1> QED
  BY <1>1, <1>2, <1>3, <1>4, <1>5, <1>6, <1>7, <1>8, <1>9, <1>10, <1>11
  DEF Check!CheckNext, Check!MainStep

LEMMA ToldStep == CheckInv /\ Check!CheckNext => Told'
<1> SUFFICES ASSUME CheckInv, Check!CheckNext PROVE Told'
  OBVIOUS
<1> USE DEF CheckInv, Told, Check!Fail
<1>0. failures \in Nat
  BY DEF Counts
<1>1. CASE Check!StartHogs
  BY <1>1 DEF Check!StartHogs
<1>2. CASE Check!ForkStress
  <2>1. at = "forking" /\ verdict' = verdict
    BY <1>2 DEF Check!ForkStress
  <2>2. \/ failures' = failures + 0 /\ faults' = faults
        \/ failures' = failures + 1 /\ faults' # {}
    BY <1>2 DEF Check!ForkStress
  <2> QED BY <1>0, <2>1, <2>2
<1>3. CASE Check!CreateThread
  BY <1>3 DEF Check!CreateThread
<1>4. CASE Check!CreateFails
  <2>1. at = "creating" /\ verdict' = verdict /\ failures' = failures + 1
    BY <1>4 DEF Check!CreateFails
  <2>2. faults' # {}
    BY <1>4 DEF Check!CreateFails
  <2> QED BY <1>0, <2>1, <2>2
<1>5. CASE Check!JoinThreads
  <2>1. CASE counter = Threads
    BY <1>0, <1>5, <2>1 DEF Check!JoinThreads
  <2>2. CASE counter # Threads
    \* With no fault all threads of the round are through, and counted.
    <3>1. ASSUME faults = {} PROVE FALSE
      <4>1. Tidy /\ at = "creating" /\ Threads \in Nat /\ round \in 1 .. MaxRounds
        BY <1>5, <3>1, WorkloadAssumption DEF Check!JoinThreads, Tidy, Check!CheckConstantsOK
      <4>2. \A j \in 1 .. Threads : thread[<<round, j>>] = "ended"
        BY <1>5, <4>1 DEF Check!JoinThreads, Check!Mine, Check!Worker
      <4>3. Through = 1 .. Threads
        BY <4>2 DEF Through
      <4>4. Cardinality(1 .. Threads) = Threads
        BY <4>1, FS_Interval
      <4> QED BY <2>2, <4>1, <4>3, <4>4 DEF Tidy
    <3> QED BY <1>0, <1>5, <2>2, <3>1 DEF Check!JoinThreads
  <2> QED BY <2>1, <2>2
<1>6. CASE Check!NextRound
  BY <1>6 DEF Check!NextRound
<1>7. CASE Check!JoinHogs
  BY <1>0, <1>7 DEF Check!JoinHogs, Check!Conclude
<1>8. CASE Check!PosixTest
  <2>1. PICK n \in {0, 1, 2} :
          /\ failures' = failures + n
          /\ n = 0 => faults' \subseteq faults \cup Check!Unseen
          /\ n > 0 => faults' # {}
          /\ faults \subseteq faults'
    BY <1>8, PosixEffect
  <2>2. at \in {"start", "testing"} /\ at' = "testing" /\ UNCHANGED verdict
    BY <1>8, PosixEffect
  <2>3. CASE n = 0
    <3>1. failures' = failures
      BY <1>0, <2>1, <2>3
    <3> QED BY <2>1, <2>2, <2>3, <3>1
  <2>4. CASE n > 0
    <3>1. failures' > 0
      BY <1>0, <2>1, <2>4
    <3> QED BY <2>1, <2>2, <2>4, <3>1
  <2> QED BY <2>1, <2>3, <2>4
<1>11. CASE Check!SignalIgnored
  <2>1. /\ at \in {"start", "testing"} /\ at' = "waiting"
        /\ faults' # {} /\ UNCHANGED <<failures, verdict>>
    BY <1>11 DEF Check!SignalIgnored, Check!BeginTest
  <2> QED BY <1>0, <2>1
<1>9. CASE Check!PosixResult
  BY <1>0, <1>9 DEF Check!PosixResult, Check!Conclude
<1>10. ASSUME NEW w \in Check!Worker, Check!WorkerStep(w) PROVE Told'
  BY <1>10 DEF Check!WorkerStep, Check!Lock, Check!Increment
<1> QED
  BY <1>1, <1>2, <1>3, <1>4, <1>5, <1>6, <1>7, <1>8, <1>9, <1>10, <1>11
  DEF Check!CheckNext, Check!MainStep

\* A Tidy step, when the step itself brings no fault.
LEMMA TidyStep ==
  CheckInv /\ Check!CheckNext /\ faults' = {} => Tidy'
<1> SUFFICES ASSUME CheckInv, Check!CheckNext, faults' = {} PROVE Tidy'
  OBVIOUS
<1> USE DEF CheckInv
<1>0. Counts /\ Tidy /\ faults = {}
  BY DEF Check!CheckNext, Check!MainStep, Check!StartHogs, Check!ForkStress,
    Check!CreateThread, Check!CreateFails, Check!JoinThreads, Check!NextRound, Check!JoinHogs,
    Check!PosixTest, Check!SignalIgnored, Check!PosixResult, Check!WorkerStep, Check!Lock,
    Check!Increment
<1>c. MaxRounds \in Nat \ {0} /\ Threads \in Nat \ {0}
  BY WorkloadAssumption DEF Check!CheckConstantsOK
<1>w. \A w \in Check!Worker : w[1] \in 1 .. MaxRounds /\ w[2] \in 1 .. Threads /\ w = <<w[1], w[2]>>
  BY DEF Check!Worker
<1>1. CASE Check!StartHogs
  BY <1>0, <1>c, <1>w, <1>1 DEF Check!StartHogs, Check!workers, Tidy, Counts, Busy
<1>2. CASE Check!ForkStress
  <2>1. /\ at = "forking" /\ at' = "creating" /\ counter' = 0
        /\ UNCHANGED <<round, thread, loaded, lock>>
    BY <1>2 DEF Check!ForkStress
  <2>2. \A w \in Check!Worker : ~ Busy(w)
    BY <1>0, <2>1 DEF Tidy
  <2>3. \A j \in 1 .. Threads : thread[<<round, j>>] = "none"
    BY <1>0, <1>w, <2>1 DEF Tidy, Check!Worker
  <2>4. Cardinality(Through') = 0
    BY <2>1, <2>3, FS_EmptySet DEF Through
  <2> QED BY <1>0, <2>1, <2>2, <2>4 DEF Tidy, Busy
<1>3. CASE Check!CreateThread
  <2>1. PICK w \in Check!Mine \ Check!Created :
          /\ thread' = [thread EXCEPT ![w] = "ready"]
          /\ at = "creating"
          /\ UNCHANGED <<at, round, loaded, counter, lock>>
    BY <1>3 DEF Check!CreateThread
  <2>2. w \in Check!Worker /\ w[1] = round /\ thread[w] = "none"
    BY <2>1 DEF Check!Mine, Check!Created
  <2>3. \A v \in Check!Worker : thread'[v] = IF v = w THEN "ready" ELSE thread[v]
    BY <1>0, <2>1, <2>2 DEF Counts
  <2>4. \A j \in 1 .. Threads : <<round, j>> \in Check!Worker
    BY <1>0, <2>1 DEF Tidy, Check!Worker
  <2>5. Through' = Through
    BY <2>1, <2>2, <2>3, <2>4 DEF Through
  <2> QED BY <1>0, <2>1, <2>2, <2>3, <2>5 DEF Tidy, Busy
<1>4. CASE Check!CreateFails
  BY <1>4 DEF Check!CreateFails
<1>5. CASE Check!JoinThreads
  <2>1. /\ at = "creating" /\ at' = "clock" /\ UNCHANGED <<round, thread, loaded, counter, lock>>
        /\ \A w \in Check!Worker : w[1] = round => thread[w] = "ended"
    BY <1>5 DEF Check!JoinThreads, Check!workers, Check!Mine
  <2> QED BY <1>0, <2>1 DEF Tidy, Busy
<1>6. CASE Check!NextRound
  <2>1. at = "clock" /\ UNCHANGED <<thread, loaded, counter, lock>>
    BY <1>6 DEF Check!NextRound, Check!workers
  <2>2. \A w \in Check!Worker : ~ Busy(w) /\ (w[1] > round => thread[w] = "none")
    BY <1>0, <2>1 DEF Tidy
  <2>3. round \in 1 .. MaxRounds
    BY <1>0, <2>1 DEF Tidy
  <2>4. CASE at' = "forking" /\ round' = round + 1 /\ round < MaxRounds
    <3>1. \A w \in Check!Worker :
            w[1] > round' \/ (at' = "forking" /\ w[1] = round') => w[1] > round
      BY <1>w, <1>c, <2>3, <2>4
    <3>2. round' \in 1 .. MaxRounds
      BY <1>c, <2>3, <2>4
    <3> QED BY <1>0, <2>1, <2>2, <2>4, <3>1, <3>2 DEF Tidy, Busy
  <2>5. CASE at' = "stopping" /\ round' = round
    BY <1>0, <2>1, <2>2, <2>3, <2>5 DEF Tidy, Busy
  <2> QED BY <1>6, <2>4, <2>5 DEF Check!NextRound
<1>7. CASE Check!JoinHogs
  BY <1>0, <1>7 DEF Check!JoinHogs, Check!workers, Check!Conclude, Tidy, Busy
<1>8. CASE Check!PosixTest \/ Check!PosixResult
  <2>1. at \in {"start", "testing"} /\ round' \in {round, round + 1}
    BY <1>8 DEF Check!PosixTest, Check!BeginTest, Check!PosixResult
  <2>2. at' \in {"testing", "ended"} /\ UNCHANGED <<thread, loaded, counter, lock>>
    BY <1>8 DEF Check!PosixTest, Check!BeginTest, Check!PosixResult, Check!workers, Check!Conclude
  <2> QED BY <1>0, <1>w, <2>1, <2>2 DEF Tidy, Busy, Counts
<1>11. CASE Check!SignalIgnored
  BY <1>11 DEF Check!SignalIgnored
<1>9. ASSUME NEW w \in Check!Worker, Check!Lock(w) PROVE Tidy'
  <2>1. /\ thread[w] = "ready" /\ lock = {}
        /\ thread' = [thread EXCEPT ![w] = "inside"]
        /\ loaded' = [loaded EXCEPT ![w] = counter]
        /\ lock' = lock \cup {w}
        /\ UNCHANGED <<at, round, counter>>
    BY <1>9 DEF Check!Lock, Check!CanLock
  <2>2. /\ \A v \in Check!Worker : thread'[v] = IF v = w THEN "inside" ELSE thread[v]
        /\ \A v \in Check!Worker : loaded'[v] = IF v = w THEN counter ELSE loaded[v]
    BY <1>0, <2>1 DEF Counts
  <2>3. \A v \in Check!Worker : thread[v] # "inside"
    BY <1>0, <2>1 DEF Tidy
  <2>4. at = "creating" /\ w[1] = round
    BY <1>0, <2>1 DEF Tidy, Busy
  <2>5. \A j \in 1 .. Threads : <<round, j>> \in Check!Worker
    BY <1>0, <2>4 DEF Tidy, Check!Worker
  <2>6. Through' = Through
    BY <2>1, <2>2, <2>5 DEF Through
  <2>7. lock' = {v \in Check!Worker : thread'[v] = "inside"}
    BY <2>1, <2>2, <2>3
  <2>8. \A v \in Check!Worker : Busy(v)' => at = "creating" /\ v[1] = round
    BY <1>0, <2>2, <2>4 DEF Tidy, Busy
  <2> QED BY <1>0, <2>1, <2>2, <2>3, <2>4, <2>6, <2>7, <2>8 DEF Tidy
<1>10. ASSUME NEW w \in Check!Worker, Check!Increment(w) PROVE Tidy'
  <2>1. /\ thread[w] = "inside"
        /\ thread' = [thread EXCEPT ![w] = "ended"]
        /\ counter' = loaded[w] + 1
        /\ lock' = lock \ {w}
        /\ UNCHANGED <<at, round, loaded>>
    BY <1>10 DEF Check!Increment
  <2>2. \A v \in Check!Worker : thread'[v] = IF v = w THEN "ended" ELSE thread[v]
    BY <1>0, <2>1 DEF Counts
  <2>3. at = "creating" /\ w[1] = round /\ loaded[w] = counter
    BY <1>0, <2>1 DEF Tidy, Busy
  <2>4. \A v \in Check!Worker : thread'[v] # "inside"
    BY <1>0, <2>1, <2>2 DEF Tidy
  <2>5. w[2] \in 1 .. Threads /\ w = <<round, w[2]>> /\ w[2] \notin Through
    BY <1>w, <2>1, <2>3 DEF Through
  <2>6. \A j \in 1 .. Threads : <<round, j>> \in Check!Worker
    BY <1>0, <2>3 DEF Tidy, Check!Worker
  <2>7. Through' = Through \cup {w[2]}
    BY <2>1, <2>2, <2>5, <2>6 DEF Through
  <2>8. IsFiniteSet(Through)
    <3>1. IsFiniteSet(1 .. Threads)
      BY <1>c, FS_Interval
    <3>2. Through \subseteq 1 .. Threads
      BY DEF Through
    <3> QED BY <3>1, <3>2, FS_Subset
  <2>9. Cardinality(Through') = counter + 1
    <3>1. Cardinality(Through) = counter
      BY <1>0, <2>3 DEF Tidy
    <3>2. Cardinality(Through \cup {w[2]}) = Cardinality(Through) + 1
      BY <2>5, <2>8, FS_AddElement
    <3> QED BY <2>7, <3>1, <3>2
  <2>10. lock' = {}
    BY <1>0, <2>1 DEF Tidy
  <2> QED BY <1>0, <2>1, <2>2, <2>3, <2>4, <2>9, <2>10 DEF Tidy, Busy
<1> QED
  BY <1>1, <1>2, <1>3, <1>4, <1>5, <1>6, <1>7, <1>8, <1>9, <1>10, <1>11
  DEF Check!CheckNext, Check!MainStep, Check!WorkerStep

LEMMA CheckStep == CheckInv /\ [WNext]_wvars => CheckInv'
<1> SUFFICES ASSUME CheckInv, [WNext]_wvars PROVE CheckInv'
  OBVIOUS
<1>1. CASE UNCHANGED <<program, checks>>
  BY <1>1 DEF checks, CheckInv, Counts, Told, Tidy, Busy, Through
<1>2. CASE Check!CheckNext
  BY <1>2, CountsStep, ToldStep, TidyStep DEF CheckInv
<1>3. UNCHANGED <<program, checks>> \/ Check!CheckNext
  BY DEF WNext, wvars, Pipe!PipeNext, Sample!SampleNext
<1> QED BY <1>1, <1>2, <1>3

\* The RESULT of the two checking programs is true, for any number of threads,
\* processors and rounds.
THEOREM VerdictCorrect == WSpec => []VerdictIsTrue
<1>1. CheckInv => VerdictIsTrue
  BY DEF CheckInv, Told, VerdictIsTrue, Check!VerdictIsTrue
<1> QED BY <1>1, CheckStart, CheckStep, PTL DEF WSpec

\* The rounds are counted to their bound, and a lock is held by a worker.
HeldInv ==
  /\ round \in 0 .. MaxRounds \cup 0 .. Len(Check!PosixTests)
  /\ lock \subseteq Check!Worker
  /\ hogs \subseteq 1 .. Cpus
  /\ verdict \in {"none", "PASS", "FAIL"}

LEMMA HeldStart == WInit => HeldInv
BY WorkloadAssumption DEF WInit, Check!CheckInit, HeldInv, Check!CheckConstantsOK

LEMMA HeldStep == HeldInv /\ [WNext]_wvars => HeldInv'
<1> SUFFICES ASSUME HeldInv, [WNext]_wvars PROVE HeldInv'
  OBVIOUS
<1> USE DEF HeldInv
<1>0. MaxRounds \in Nat \ {0} /\ Len(Check!PosixTests) \in Nat
  BY WorkloadAssumption DEF Check!CheckConstantsOK, Check!PosixTests
<1>1. CASE UNCHANGED <<program, checks>>
  BY <1>1 DEF checks
<1>2. CASE Check!StartHogs
  BY <1>0, <1>2 DEF Check!StartHogs, Check!workers
<1>3. CASE Check!ForkStress \/ Check!CreateThread \/ Check!CreateFails \/ Check!JoinThreads
  BY <1>3 DEF Check!ForkStress, Check!CreateThread, Check!CreateFails, Check!JoinThreads, Check!workers
<1>4. CASE Check!NextRound
  BY <1>0, <1>4 DEF Check!NextRound, Check!workers
<1>5. CASE Check!JoinHogs \/ Check!PosixResult
  BY <1>5 DEF Check!JoinHogs, Check!PosixResult, Check!workers, Check!Conclude
<1>6. CASE Check!PosixTest \/ Check!SignalIgnored
  <2>1. /\ round' = round + 1 /\ round < Len(Check!PosixTests)
        /\ UNCHANGED <<lock, hogs, verdict>>
    BY <1>6 DEF Check!PosixTest, Check!SignalIgnored, Check!BeginTest, Check!workers
  <2>2. round \in Nat
    BY <1>0
  <2> QED BY <1>0, <2>1, <2>2
<1>7. ASSUME NEW w \in Check!Worker, Check!WorkerStep(w) PROVE HeldInv'
  BY <1>7 DEF Check!WorkerStep, Check!Lock, Check!Increment
<1>8. UNCHANGED <<program, checks>> \/ Check!CheckNext
  BY DEF WNext, wvars, Pipe!PipeNext, Sample!SampleNext
<1> QED BY <1>1, <1>2, <1>3, <1>4, <1>5, <1>6, <1>7, <1>8 DEF Check!CheckNext, Check!MainStep

LEMMA CheckTypes == CheckInv /\ HeldInv => Check!CheckTypeOK
BY DEF CheckInv, Counts, HeldInv, Check!CheckTypeOK

(***************************************************************************)
(* Clocks of seconds and nanoseconds.                                      *)
(***************************************************************************)
\* x in units of d, and what is left.
LEMMA Carried ==
  ASSUME NEW d \in Nat \ {0}, NEW x \in Nat
  PROVE  /\ (x \div d) \in Nat /\ (x % d) \in 0 .. d - 1
         /\ (x \div d) * d + (x % d) = x
OBVIOUS

LEMMA MoreSeconds ==
  ASSUME NEW d \in Nat, NEW a \in Int, NEW b \in Int PROVE (a + b) * d = a * d + b * d
OBVIOUS

LEMMA Later ==
  ASSUME NEW d \in Nat, NEW a \in Int, NEW b \in Int PROVE (a - b) * d = a * d - b * d
OBVIOUS

LEMMA Products ==
  ASSUME NEW d \in Nat, NEW a \in Int PROVE a * d \in Int
OBVIOUS

Instants == [sec : Nat, nsec : 0 .. Second - 1]

LEMMA SampleConstants ==
  /\ Second \in Nat \ {0} /\ Interval \in Nat /\ Latest \in Nat
  /\ Iterations \subseteq Nat \ {0}
BY WorkloadAssumption DEF Sample!SampleConstantsOK

LEMMA TimeIsRight ==
  ASSUME NEW ns \in Nat
  PROVE  Sample!Time(ns) \in Instants /\ Sample!Nanoseconds(Sample!Time(ns)) = ns
BY SampleConstants, Carried DEF Sample!Time, Sample!Nanoseconds, Instants

LEMMA NanosecondsType ==
  ASSUME NEW t \in Instants
  PROVE  /\ t.sec \in Nat /\ t.nsec \in Nat /\ t.nsec < Second
         /\ t.sec * Second \in Nat /\ Sample!Nanoseconds(t) \in Nat
<1>1. t.sec \in Nat /\ t.nsec \in Nat /\ t.nsec < Second
  BY SampleConstants DEF Instants
<1>2. t.sec * Second \in Nat
  BY <1>1, SampleConstants
<1> QED BY <1>1, <1>2 DEF Sample!Nanoseconds

\* The seconds that are carried are the ones the nanoseconds are too many by.
LEMMA AddIsRight ==
  ASSUME NEW t \in Instants, NEW ns \in Nat
  PROVE  /\ Sample!ts_add_ns(t, ns) \in Instants
         /\ Sample!Nanoseconds(Sample!ts_add_ns(t, ns)) = Sample!Nanoseconds(t) + ns
<1> DEFINE x == t.nsec + ns
           carry == x \div Second
           rest == x % Second
<1>1. t.sec \in Nat /\ t.nsec \in Nat /\ x \in Nat
  BY NanosecondsType
<1>2. carry \in Nat /\ rest \in 0 .. Second - 1 /\ carry * Second + rest = x
  BY <1>1, SampleConstants, Carried
<1>3. Sample!ts_add_ns(t, ns) = [sec |-> t.sec + carry, nsec |-> rest]
  BY DEF Sample!ts_add_ns
<1>4. Sample!Nanoseconds(Sample!ts_add_ns(t, ns)) = (t.sec + carry) * Second + rest
  BY <1>3 DEF Sample!Nanoseconds
<1>5. Sample!Nanoseconds(t) = t.sec * Second + t.nsec
  BY DEF Sample!Nanoseconds
<1>6. Sample!ts_add_ns(t, ns) \in Instants
  <2> HIDE DEF carry, rest
  <2> QED BY <1>1, <1>2, <1>3 DEF Instants
<1>7. x = t.nsec + ns
  OBVIOUS
<1> HIDE DEF carry, rest, x
<1>8. (t.sec + carry) * Second = t.sec * Second + carry * Second
  BY <1>1, <1>2, SampleConstants, MoreSeconds
<1>9. t.sec * Second \in Int /\ carry * Second \in Int
  BY <1>1, <1>2, SampleConstants, Products
<1>10. (t.sec + carry) * Second + rest = t.sec * Second + t.nsec + ns
  BY <1>1, <1>2, <1>7, <1>8, <1>9
<1>11. (t.sec + carry) * Second + rest = Sample!Nanoseconds(t) + ns
  BY <1>1, <1>5, <1>9, <1>10
<1> QED BY <1>4, <1>6, <1>11

LEMMA ElapsedIsRight ==
  ASSUME NEW s \in Instants, NEW e \in Instants
  PROVE  Sample!elapsed_ns(s, e) = Sample!Nanoseconds(e) - Sample!Nanoseconds(s)
<1>1. /\ s.sec \in Nat /\ s.nsec \in Nat /\ e.sec \in Nat /\ e.nsec \in Nat
      /\ s.sec * Second \in Nat /\ e.sec * Second \in Nat
  BY NanosecondsType
<1>2. (e.sec - s.sec) * Second = e.sec * Second - s.sec * Second
  BY <1>1, SampleConstants, Later
<1>3. Sample!elapsed_ns(s, e) = (e.sec - s.sec) * Second + (e.nsec - s.nsec)
  BY DEF Sample!elapsed_ns
<1> QED BY <1>1, <1>2, <1>3 DEF Sample!Nanoseconds

(***************************************************************************)
(* Figures of samples.                                                     *)
(***************************************************************************)
\* Half of them, and 99 percent of them, counted from zero and rounded down.
LEMMA IndexBounds ==
  ASSUME NEW n \in Nat \ {0}
  PROVE  LET h == Sample!Indices(n).p50  q == Sample!Indices(n).p99 IN
           /\ h \in 0 .. n - 1 /\ 100 * h <= 50 * n /\ 50 * n < 100 * (h + 1)
           /\ q \in 0 .. n - 1 /\ 100 * q <= 99 * n /\ 99 * n < 100 * (q + 1)
<1> DEFINE h == n \div 2
           q == (n * 99) \div 100
<1>1. h \in Nat /\ 2 * h <= n /\ n < 2 * (h + 1)
  OBVIOUS
<1>2. q \in Nat /\ 100 * q <= 99 * n /\ 99 * n < 100 * (q + 1)
  OBVIOUS
<1>3. Sample!Indices(n).p50 = h /\ Sample!Indices(n).p99 = q
  BY DEF Sample!Indices
<1> HIDE DEF h, q
<1>4. h \in 0 .. n - 1 /\ 100 * h <= 50 * n /\ 50 * n < 100 * (h + 1)
  BY <1>1
<1>5. q \in 0 .. n - 1 /\ 100 * q <= 99 * n /\ 99 * n < 100 * (q + 1)
  BY <1>2
<1> QED BY <1>3, <1>4, <1>5

\* The instance's name for the operator of the standard library.
LEMMA SameCardinality == \A set : Sample!Cardinality(set) = Cardinality(set)
BY DEF Sample!Cardinality, Cardinality

LEMMA QuantileByRank ==
  ASSUME NEW n \in Nat, NEW s, DOMAIN s = 1 .. n, Len(s) = n,
         NEW v, NEW p \in Nat, NEW k \in Nat,
         Cardinality(Smaller(s, n, v)) \in Nat, Cardinality(NotLarger(s, n, v)) \in Nat,
         Cardinality(Smaller(s, n, v)) <= k, Cardinality(NotLarger(s, n, v)) >= k + 1,
         100 * k <= p * n, p * n < 100 * (k + 1)
  PROVE  Sample!IsQuantile(v, p, s)
<1> DEFINE few == Smaller(s, n, v)
           many == NotLarger(s, n, v)
<1>1. few = {i \in DOMAIN s : s[i] < v} /\ many = {i \in DOMAIN s : s[i] <= v}
  BY DEF Smaller, NotLarger
<1> DEFINE a == Cardinality(few)
           b == Cardinality(many)
           pn == p * n
<1>2. a \in Nat /\ b \in Nat /\ a <= k /\ b >= k + 1
  OBVIOUS
<1>3. pn \in Nat /\ 100 * k <= pn /\ pn < 100 * (k + 1)
  OBVIOUS
<1> HIDE DEF a, b, pn
<1>4. 100 * a <= pn /\ pn < 100 * b
  BY <1>2, <1>3
<1> HIDE DEF few, many
<1>5. 100 * Cardinality(few) <= p * Len(s) /\ p * Len(s) < 100 * Cardinality(many)
  BY <1>4 DEF a, b, pn
<1> QED BY <1>1, <1>5, SameCardinality DEF Sample!IsQuantile

\* What libc's qsort puts in order is in order.
LEMMA SortedIsOrdered ==
  ASSUME NEW n \in Nat, NEW s \in Seq(Int), Len(s) = n
  PROVE  \E o : IsOrder(o, n, s) /\ Sample!Sorted(s) = [i \in 1 .. n |-> s[o[i]]]
<1>1. DOMAIN s = 1 .. n /\ s \in [1 .. n -> Int]
  OBVIOUS
<1>2. \A o : o \in Sample!Orders(s) <=> IsOrder(o, n, s)
  BY <1>1 DEF Sample!Orders, IsOrder
<1>3. \E o : o \in Sample!Orders(s)
  BY <1>1, <1>2, OrderExists
<1> DEFINE order == CHOOSE o \in Sample!Orders(s) : TRUE
<1>4. order \in Sample!Orders(s)
  BY <1>3
<1>5. Sample!Sorted(s) = [i \in 1 .. n |-> s[order[i]]]
  BY <1>1 DEF Sample!Sorted
<1> HIDE DEF order
<1> QED BY <1>2, <1>4, <1>5

AreFiguresOf(f, s) ==
  /\ Sample!IsQuantile(f.p50, 50, s) /\ Sample!IsQuantile(f.p99, 99, s)
  /\ \A i \in DOMAIN s : f.min <= s[i] /\ s[i] <= f.max
  /\ {f.min, f.max} \subseteq {s[i] : i \in DOMAIN s}

LEMMA FiguresAreRight ==
  ASSUME NEW n \in Nat \ {0}, NEW s \in Seq(Int), Len(s) = n
  PROVE  AreFiguresOf(Sample!Figures(s), s)
<1>1. DOMAIN s = 1 .. n /\ s \in [1 .. n -> Int]
  OBVIOUS
<1>2. PICK o : IsOrder(o, n, s) /\ Sample!Sorted(s) = [i \in 1 .. n |-> s[o[i]]]
  BY SortedIsOrdered
<1> DEFINE h == Sample!Indices(n).p50
           q == Sample!Indices(n).p99
           f == Sample!Figures(s)
<1>3. /\ h \in 0 .. n - 1 /\ 100 * h <= 50 * n /\ 50 * n < 100 * (h + 1)
      /\ q \in 0 .. n - 1 /\ 100 * q <= 99 * n /\ 99 * n < 100 * (q + 1)
  BY IndexBounds
<1> HIDE DEF h, q
<1>4. 1 \in 1 .. n /\ n \in 1 .. n /\ h + 1 \in 1 .. n /\ q + 1 \in 1 .. n
  BY <1>3
<1>5. f.min = s[o[1]] /\ f.max = s[o[n]] /\ f.p50 = s[o[h + 1]] /\ f.p99 = s[o[q + 1]]
  BY <1>2, <1>4 DEF Sample!Figures, h, q
<1> HIDE DEF f
<1>6. Sample!IsQuantile(f.p50, 50, s)
  <2> DEFINE v == s[o[h + 1]]
  <2>1. /\ Cardinality(Smaller(s, n, v)) \in Nat /\ Cardinality(Smaller(s, n, v)) <= h
        /\ Cardinality(NotLarger(s, n, v)) \in Nat /\ Cardinality(NotLarger(s, n, v)) >= h + 1
    BY <1>1, <1>2, <1>3, RankInOrder
  <2> DEFINE p == 50
  <2>2. p \in Nat /\ 100 * h <= p * n /\ p * n < 100 * (h + 1) /\ h \in Nat
    BY <1>3
  <2> HIDE DEF v, p
  <2>3. Sample!IsQuantile(v, p, s)
    BY <1>1, <2>1, <2>2, QuantileByRank
  <2> QED BY <1>5, <2>3 DEF v, p
<1>7. Sample!IsQuantile(f.p99, 99, s)
  <2> DEFINE v == s[o[q + 1]]
  <2>1. /\ Cardinality(Smaller(s, n, v)) \in Nat /\ Cardinality(Smaller(s, n, v)) <= q
        /\ Cardinality(NotLarger(s, n, v)) \in Nat /\ Cardinality(NotLarger(s, n, v)) >= q + 1
    BY <1>1, <1>2, <1>3, RankInOrder
  <2> DEFINE p == 99
  <2>2. p \in Nat /\ 100 * q <= p * n /\ p * n < 100 * (q + 1) /\ q \in Nat
    BY <1>3
  <2> HIDE DEF v, p
  <2>3. Sample!IsQuantile(v, p, s)
    BY <1>1, <2>1, <2>2, QuantileByRank
  <2> QED BY <1>5, <2>3 DEF v, p
<1>8. ASSUME NEW i \in DOMAIN s PROVE f.min <= s[i] /\ s[i] <= f.max
  <2>1. PICK j \in 1 .. n : o[j] = i
    BY <1>1, <1>2 DEF IsOrder
  <2>2. 1 <= j /\ j <= n
    BY <2>1
  <2> QED BY <1>2, <1>4, <1>5, <2>1, <2>2 DEF IsOrder
<1>9. {f.min, f.max} \subseteq {s[i] : i \in DOMAIN s}
  <2>1. o[1] \in DOMAIN s /\ o[n] \in DOMAIN s
    BY <1>1, <1>2, <1>4 DEF IsOrder
  <2> QED BY <1>5, <2>1
<1> QED BY <1>6, <1>7, <1>8, <1>9 DEF AreFiguresOf, f

LEMMA IndicesOfCounts == Sample!IndicesAreRight
<1> SUFFICES ASSUME NEW n \in Nat \ {0}
             PROVE  LET s == [i \in 1 .. n |-> i] IN
                      /\ Sample!IsQuantile(Sample!Indices(n).p50 + 1, 50, s)
                      /\ Sample!IsQuantile(Sample!Indices(n).p99 + 1, 99, s)
  <2>1. Sample!Lengths \subseteq Nat \ {0}
    BY DEF Sample!Lengths
  <2> QED BY <2>1 DEF Sample!IndicesAreRight
<1> DEFINE s == [i \in 1 .. n |-> i]
           h == Sample!Indices(n).p50
           q == Sample!Indices(n).p99
<1>1. s \in Seq(Int) /\ Len(s) = n /\ DOMAIN s = 1 .. n /\ s \in [1 .. n -> Int]
  OBVIOUS
<1>2. \A i \in 1 .. n : s[i] = i /\ s[s[i]] = i
  OBVIOUS
<1> HIDE DEF s
<1>3. IsOrder(s, n, s)
  <2>1. s \in [1 .. n -> 1 .. n]
    BY <1>1, <1>2
  <2> QED BY <1>2, <2>1 DEF IsOrder
<1>4. /\ h \in 0 .. n - 1 /\ 100 * h <= 50 * n /\ 50 * n < 100 * (h + 1)
      /\ q \in 0 .. n - 1 /\ 100 * q <= 99 * n /\ 99 * n < 100 * (q + 1)
  BY IndexBounds
<1> HIDE DEF h, q
<1>5. s[s[h + 1]] = h + 1 /\ s[s[q + 1]] = q + 1
  BY <1>2, <1>4
<1>6. Sample!IsQuantile(h + 1, 50, s)
  <2> DEFINE v == s[s[h + 1]]
  <2>1. /\ Cardinality(Smaller(s, n, v)) \in Nat /\ Cardinality(Smaller(s, n, v)) <= h
        /\ Cardinality(NotLarger(s, n, v)) \in Nat /\ Cardinality(NotLarger(s, n, v)) >= h + 1
    BY <1>1, <1>3, <1>4, RankInOrder
  <2> DEFINE p == 50
  <2>2. p \in Nat /\ 100 * h <= p * n /\ p * n < 100 * (h + 1) /\ h \in Nat
    BY <1>4
  <2> HIDE DEF v, p
  <2>3. Sample!IsQuantile(v, p, s)
    BY <1>1, <2>1, <2>2, QuantileByRank
  <2> QED BY <1>5, <2>3 DEF v, p
<1>7. Sample!IsQuantile(q + 1, 99, s)
  <2> DEFINE v == s[s[q + 1]]
  <2>1. /\ Cardinality(Smaller(s, n, v)) \in Nat /\ Cardinality(Smaller(s, n, v)) <= q
        /\ Cardinality(NotLarger(s, n, v)) \in Nat /\ Cardinality(NotLarger(s, n, v)) >= q + 1
    BY <1>1, <1>3, <1>4, RankInOrder
  <2> DEFINE p == 99
  <2>2. p \in Nat /\ 100 * q <= p * n /\ p * n < 100 * (q + 1) /\ q \in Nat
    BY <1>4
  <2> HIDE DEF v, p
  <2>3. Sample!IsQuantile(v, p, s)
    BY <1>1, <2>1, <2>2, QuantileByRank
  <2> QED BY <1>5, <2>3 DEF v, p
<1> QED BY <1>6, <1>7 DEF s, h, q

(***************************************************************************)
(* The programs that time what they do.                                    *)
(***************************************************************************)
SampleInv ==
  /\ iterations \in Iterations
  /\ step \in {"start", "sampling", "reported", "failed", "crashed"}
  /\ busy \in BOOLEAN
  /\ now \in Instants /\ begin \in Instants
  /\ samples \in Seq(Nat) /\ samples = took
  /\ step = "reported" => Len(samples) = iterations /\ AreFiguresOf(figures, samples)

LEMMA SampleStart == WInit => SampleInv
<1> SUFFICES ASSUME Sample!SampleInit PROVE SampleInv
  BY DEF WInit
<1>1. now \in Instants
  BY SampleConstants, TimeIsRight DEF Sample!SampleInit
<1>2. << >> \in Seq(Nat)
  OBVIOUS
<1> QED BY <1>1, <1>2 DEF Sample!SampleInit, SampleInv

\* A sample is what really passed, in whatever second it began and ended.
LEMMA ForkSample ==
  ASSUME SampleInv, Sample!SampleFork
  PROVE  \E ns \in Nat : /\ now' \in Instants
                         /\ took' = Append(took, ns) /\ samples' = Append(samples, ns)
<1>1. PICK ns \in 0 .. Latest : /\ now' = Sample!Time(Sample!Nanoseconds(now) + ns)
                                /\ took' = Append(took, ns)
  BY DEF Sample!SampleFork
<1>2. now \in Instants /\ Sample!Nanoseconds(now) \in Nat /\ ns \in Nat
  BY SampleConstants, NanosecondsType DEF SampleInv
<1>3. now' \in Instants /\ Sample!Nanoseconds(now') = Sample!Nanoseconds(now) + ns
  BY <1>1, <1>2, TimeIsRight
<1>4. Sample!elapsed_ns(now, now') = Sample!Nanoseconds(now') - Sample!Nanoseconds(now)
  BY <1>2, <1>3, ElapsedIsRight
<1>5. Sample!elapsed_ns(now, now') = ns
  BY <1>2, <1>3, <1>4
<1>6. samples' = Append(samples, ns)
  BY <1>5 DEF Sample!SampleFork
<1> QED BY <1>1, <1>2, <1>3, <1>6

\* The probe never wakes up before its deadline, and the deadline is an interval
\* after the one before.
LEMMA LatencySample ==
  ASSUME SampleInv, Sample!SampleLatency
  PROVE  \E ns \in Nat : /\ now' \in Instants /\ begin' \in Instants
                         /\ took' = Append(took, ns) /\ samples' = Append(samples, ns)
<1> DEFINE target == Sample!ts_add_ns(begin, Interval)
           late == Sample!Nanoseconds(now') - Sample!Nanoseconds(begin) - Interval
           over == Sample!elapsed_ns(target, now')
<1>1. PICK ns \in 0 .. Latest :
        /\ begin' = target /\ now' = Sample!Time(Sample!Due(target) + ns)
        /\ took' = Append(took, late)
        /\ samples' = Append(samples, IF over < 0 THEN 0 ELSE over)
  BY DEF Sample!SampleLatency
<1>2. /\ begin \in Instants /\ now \in Instants
      /\ Sample!Nanoseconds(begin) \in Nat /\ Sample!Nanoseconds(now) \in Nat
      /\ Interval \in Nat /\ ns \in Nat
  BY SampleConstants, NanosecondsType DEF SampleInv
<1>3. target \in Instants /\ Sample!Nanoseconds(target) = Sample!Nanoseconds(begin) + Interval
  BY <1>2, AddIsRight
<1> HIDE DEF target
<1>4. Sample!Due(target) \in Nat /\ Sample!Due(target) >= Sample!Nanoseconds(target)
  <2>1. target.nsec < Second
    BY <1>3, NanosecondsType
  <2> QED BY <1>2, <1>3, <2>1 DEF Sample!Due
<1>5. now' \in Instants /\ Sample!Nanoseconds(now') = Sample!Due(target) + ns
  BY <1>1, <1>2, <1>4, TimeIsRight
<1>6. over = Sample!Nanoseconds(now') - Sample!Nanoseconds(target)
  BY <1>3, <1>5, ElapsedIsRight
<1>7. over = late /\ late \in Nat
  BY <1>2, <1>3, <1>4, <1>5, <1>6
<1> HIDE DEF over, late
<1>8. samples' = Append(samples, late)
  BY <1>1, <1>7
<1> QED BY <1>1, <1>3, <1>5, <1>7, <1>8

LEMMA SampleAdded ==
  ASSUME SampleInv, NEW ns \in Nat,
         took' = Append(took, ns), samples' = Append(samples, ns)
  PROVE  samples' \in Seq(Nat) /\ samples' = took'
BY DEF SampleInv

LEMMA SampleStep == SampleInv /\ [WNext]_wvars => SampleInv'
<1> SUFFICES ASSUME SampleInv, [WNext]_wvars PROVE SampleInv'
  OBVIOUS
<1>1. CASE UNCHANGED probes
  BY <1>1 DEF probes, SampleInv, AreFiguresOf
<1>2. CASE Sample!StartSampling
  BY <1>2 DEF Sample!StartSampling, SampleInv
<1>3. CASE Sample!SampleFork
  <2>1. now' \in Instants /\ samples' \in Seq(Nat) /\ samples' = took'
    BY <1>3, ForkSample, SampleAdded
  <2> QED BY <1>3, <2>1 DEF Sample!SampleFork, SampleInv
<1>4. CASE Sample!ForkFails
  BY <1>4 DEF Sample!ForkFails, SampleInv
<1>5. CASE Sample!SampleLatency
  <2>1. /\ now' \in Instants /\ begin' \in Instants
        /\ samples' \in Seq(Nat) /\ samples' = took'
    BY <1>5, LatencySample, SampleAdded
  <2> QED BY <1>5, <2>1 DEF Sample!SampleLatency, SampleInv
<1>6. CASE Sample!Report
  <2>1. /\ Len(samples) = iterations /\ step' \in {"reported", "crashed"}
        /\ step' = "reported" => figures' = Sample!Figures(samples)
        /\ UNCHANGED <<iterations, busy, begin, now, took, samples>>
    BY <1>6 DEF Sample!Report
  <2>2. /\ samples \in Seq(Nat) /\ Len(samples) \in Nat \ {0}
    BY <2>1, SampleConstants DEF SampleInv
  <2>3. samples \in Seq(Int)
    BY <2>2
  <2>4. AreFiguresOf(Sample!Figures(samples), samples)
    BY <2>2, <2>3, FiguresAreRight
  <2>5. step' = "reported" => AreFiguresOf(figures', samples')
    BY <2>1, <2>4
  <2>6. step' = "reported" => AreFiguresOf(figures, samples)'
    BY <2>5 DEF AreFiguresOf
  <2> QED BY <2>1, <2>6 DEF SampleInv
<1>7. UNCHANGED probes \/ Sample!SampleNext
  BY DEF WNext, wvars, Pipe!PipeNext, Check!CheckNext
<1> QED BY <1>1, <1>2, <1>3, <1>4, <1>5, <1>6, <1>7 DEF Sample!SampleNext, Sample!SampleStep

\* process_creation.c and scheduler_latency.c: for any length of a run, any
\* interval and however late the probe wakes up, every sample is the time that
\* passed, and what is printed are the least, the largest and two quantiles of
\* all samples.
THEOREM FiguresCorrect == WSpec => []FiguresAreOfSamples
<1>1. SampleInv => FiguresAreOfSamples
  BY IndicesOfCounts DEF SampleInv, AreFiguresOf, FiguresAreOfSamples, Sample!FiguresAreOfSamples
<1> QED BY <1>1, SampleStart, SampleStep, PTL DEF WSpec

(***************************************************************************)
(* All of them together.                                                   *)
(***************************************************************************)
\* A pipeline among the workloads is a run of Pipeline, so that its theorems
\* hold of it.
THEOREM PipelineAmongWorkloads == WSpec => Spec
<1>1. WInit => Init
  BY DEF WInit
<1>2. [WNext]_wvars => [Next]_vars
  BY DEF WNext, wvars
<1> QED BY <1>1, <1>2, PTL DEF WSpec, Spec

\* The programs have the declared types, for every value of the constants: no
\* pipe is fuller than it can be, no clock has a second's worth of nanoseconds,
\* and no sample is negative.
THEOREM WorkloadTypes == WSpec => []WTypeOK
<1>1. SampleInv => Sample!SampleTypeOK
  <2> SUFFICES ASSUME SampleInv PROVE took \in Seq(Int)
    BY DEF SampleInv, Instants, Sample!SampleTypeOK
  <2>1. took \in Seq(Nat)
    BY DEF SampleInv
  <2> QED BY <2>1
<1>2. WSpec => []TypeOK
  BY PipelineAmongWorkloads, TypeCorrect
<1>3. WSpec => [](PipeInv /\ RoomInv)
  BY PipeStart, PipeStep, RoomStart, RoomStep, PTL DEF WSpec
<1>4. WSpec => [](CheckInv /\ HeldInv)
  BY CheckStart, CheckStep, HeldStart, HeldStep, PTL DEF WSpec
<1>5. WSpec => []SampleInv
  BY SampleStart, SampleStep, PTL DEF WSpec
<1>6. TypeOK /\ PipeInv /\ RoomInv /\ CheckInv /\ HeldInv /\ SampleInv => WTypeOK
  BY <1>1, PipeTypes, CheckTypes DEF WTypeOK
<1> QED BY <1>2, <1>3, <1>4, <1>5, <1>6, PTL

(***************************************************************************)
(* That the programs end.  The provers know nothing of fairness; what they *)
(* can show is that nothing but the scheduler keeps a program from its end: *)
(* its processes never wait for one another, and its steps run out.        *)
(***************************************************************************)
\* The writes and reads that block, and the waitpid of a child that goes on.
FullPipe(p) == Pipe!HasReader(p) /\ held[p] >= Capacity
EmptyPipe(p) == held[p] = 0 /\ Pipe!HasWriter(p)
ParentBlocked ==
  \/ place["parent"] = "writing" /\ count["parent"] < Rounds /\ FullPipe("ping")
  \/ place["parent"] = "reading" /\ EmptyPipe("pong")
  \/ place["parent"] = "waiting" /\ ~ Pipe!Ended("child")
ChildBlocked ==
  \/ place["child"] = "reading" /\ Pipe!Wants /\ EmptyPipe("ping")
  \/ place["child"] = "writing" /\ FullPipe("pong")
NeverBothBlocked ==
  /\ ~ (ParentBlocked /\ ChildBlocked)
  /\ Pipe!Ended("child") => ~ ParentBlocked
  /\ Pipe!Ended("parent") => ~ ChildBlocked

\* Who still has which end.
EndsInv ==
  /\ \A x \in Pipe!Processes, p \in Pipe!Pipes, s \in {"r", "w"} :
       <<x, p, s>> \in ends => place[x] \in {"closing", "reading", "writing", "waiting"}
  /\ place["parent"] # "closing" =>
       <<"parent", "ping", "r">> \notin ends /\ <<"parent", "pong", "w">> \notin ends
  /\ place["child"] # "closing" =>
       <<"child", "ping", "w">> \notin ends /\ <<"child", "pong", "r">> \notin ends
  /\ ~ IsPP /\ place["parent"] = "waiting" => <<"parent", "ping", "w">> \notin ends
  /\ place["child"] # "waiting"

\* The byte that is handed to and fro is in a pipe or with the child.
Tokens == held["ping"] + held["pong"] + (IF place["child"] = "writing" THEN 1 ELSE 0)
TokenInv ==
  IsPP =>
    /\ Tokens <= 1
    /\ place["parent"] \in {"start", "closing", "writing", "waiting"} => Tokens = 0
    /\ place["parent"] = "reading" /\ ~ Pipe!Ended("child") => Tokens = 1

LEMMA EndsStart == WInit => EndsInv /\ TokenInv
BY WorkloadAssumption DEF WInit, Pipe!PipeInit, EndsInv, TokenInv, Tokens, Pipe!Processes, Pipe!Pipes

LEMMA EndsStep == PipeInv /\ RoomInv /\ EndsInv /\ [WNext]_wvars => EndsInv'
<1> SUFFICES ASSUME PipeInv, RoomInv, EndsInv, [WNext]_wvars PROVE EndsInv'
  OBVIOUS
<1> USE WorkloadAssumption DEF Pipe!PipeConstantsOK, Pipe!IsPingPong, IsPP
<1> DEFINE steady == UNCHANGED <<program, pipePrograms>>
<1>1. CASE steady
  BY <1>1 DEF EndsInv, pipePrograms
<1>2. CASE Pipe!PipeNext
  <2> USE DEF Pipe!Goto, Pipe!Exit, Pipe!Keep, Pipe!Processes, Pipe!Pipes, Pipe!Ended
  <2>0. program' = program
    BY <1>2 DEF Pipe!PipeNext
  <2>1. CASE Pipe!Fork
    BY <2>0, <2>1 DEF PipeInv, EndsInv, Pipe!Fork, Pipe!UsedPipes
  <2>2. CASE Pipe!ParentCloses
    BY <2>0, <2>2 DEF PipeInv, EndsInv, Pipe!ParentCloses
  <2>3. CASE Pipe!ParentWrites
    BY <2>0, <2>3 DEF PipeInv, EndsInv, Pipe!ParentWrites, Pipe!Write
  <2>4. CASE Pipe!ParentReads
    BY <2>0, <2>4 DEF PipeInv, EndsInv, Pipe!ParentReads, Pipe!Read
  <2>5. CASE Pipe!ParentStops
    BY <2>0, <2>5 DEF PipeInv, EndsInv, Pipe!ParentStops
  <2>6. CASE Pipe!ParentReports
    BY <2>0, <2>6 DEF PipeInv, EndsInv, Pipe!ParentReports
  <2>7. CASE Pipe!ChildCloses
    BY <2>0, <2>7 DEF PipeInv, EndsInv, Pipe!ChildCloses
  <2>8. CASE Pipe!ChildReads
    BY <2>0, <2>8 DEF PipeInv, EndsInv, Pipe!ChildReads, Pipe!Read
  <2>9. CASE Pipe!ChildWrites
    BY <2>0, <2>9 DEF PipeInv, EndsInv, Pipe!ChildWrites, Pipe!Write
  <2>10. CASE Pipe!ChildStops
    BY <2>0, <2>10 DEF PipeInv, EndsInv, Pipe!ChildStops
  <2>11. CASE \E x \in Pipe!Processes : Pipe!Die(x)
    BY <2>0, <2>11 DEF PipeInv, EndsInv, Pipe!Die
  <2> QED
    BY <1>2, <2>1, <2>2, <2>3, <2>4, <2>5, <2>6, <2>7, <2>8, <2>9, <2>10, <2>11
    DEF Pipe!PipeNext, Pipe!ParentStep, Pipe!ChildStep
<1>3. steady \/ Pipe!PipeNext
  BY DEF WNext, wvars, Check!CheckNext, Sample!SampleNext
<1> QED BY <1>1, <1>2, <1>3

LEMMA TokenStep == PipeInv /\ RoomInv /\ TokenInv /\ [WNext]_wvars => TokenInv'
<1> SUFFICES ASSUME PipeInv, RoomInv, TokenInv, [WNext]_wvars PROVE TokenInv'
  OBVIOUS
<1> USE WorkloadAssumption DEF Pipe!PipeConstantsOK, Pipe!IsPingPong, IsPP
<1> DEFINE steady == UNCHANGED <<program, pipePrograms>>
<1>1. CASE steady
  BY <1>1 DEF TokenInv, Tokens, pipePrograms, Pipe!Ended
<1>2. CASE Pipe!PipeNext
  <2> USE DEF Pipe!Goto, Pipe!Exit, Pipe!Processes, Pipe!Pipes, Pipe!Ended, Tokens
  <2>0. program' = program
    BY <1>2 DEF Pipe!PipeNext
  <2>1. CASE Pipe!Fork
    BY <2>0, <2>1 DEF PipeInv, TokenInv, Pipe!Fork
  <2>2. CASE Pipe!ParentCloses
    BY <2>0, <2>2 DEF PipeInv, TokenInv, Pipe!ParentCloses
  <2>3. CASE Pipe!ParentWrites
    BY <2>0, <2>3 DEF PipeInv, TokenInv, Pipe!ParentWrites, Pipe!Write
  <2>4. CASE Pipe!ParentReads
    BY <2>0, <2>4 DEF PipeInv, TokenInv, Pipe!ParentReads, Pipe!Read
  <2>5. CASE Pipe!ParentStops
    BY <2>0, <2>5 DEF PipeInv, TokenInv, Pipe!ParentStops
  <2>6. CASE Pipe!ParentReports
    BY <2>0, <2>6 DEF PipeInv, TokenInv, Pipe!ParentReports
  <2>7. CASE Pipe!ChildCloses
    BY <2>0, <2>7 DEF PipeInv, TokenInv, Pipe!ChildCloses
  <2>8. CASE Pipe!ChildReads
    BY <2>0, <2>8 DEF PipeInv, TokenInv, Pipe!ChildReads, Pipe!Read
  <2>9. CASE Pipe!ChildWrites
    BY <2>0, <2>9 DEF PipeInv, TokenInv, Pipe!ChildWrites, Pipe!Write
  <2>10. CASE Pipe!ChildStops
    BY <2>0, <2>10 DEF PipeInv, TokenInv, Pipe!ChildStops
  <2>11. CASE \E x \in Pipe!Processes : Pipe!Die(x)
    BY <2>0, <2>11 DEF PipeInv, TokenInv, Pipe!Die
  <2> QED
    BY <1>2, <2>1, <2>2, <2>3, <2>4, <2>5, <2>6, <2>7, <2>8, <2>9, <2>10, <2>11
    DEF Pipe!PipeNext, Pipe!ParentStep, Pipe!ChildStep
<1>3. steady \/ Pipe!PipeNext
  BY DEF WNext, wvars, Check!CheckNext, Sample!SampleNext
<1> QED BY <1>1, <1>2, <1>3

\* Neither process of context_switch or ipc_throughput ever waits for one that
\* waits for it, or for one that has ended: any volume, with or without a
\* remainder, a pipe of any size, whichever process is killed and wherever.
THEOREM PipesProceed == WSpec => []NeverBothBlocked
<1>1. PipeInv /\ RoomInv /\ EndsInv /\ TokenInv => NeverBothBlocked
  <2> SUFFICES ASSUME PipeInv, RoomInv, EndsInv, TokenInv PROVE NeverBothBlocked
    OBVIOUS
  <2> USE WorkloadAssumption
      DEF Pipe!PipeConstantsOK, Pipe!IsPingPong, IsPP, Pipe!Processes, Pipe!Pipes, Pipe!Ended,
          FullPipe, EmptyPipe, Pipe!HasReader, Pipe!HasWriter, Loop
  <2>0. /\ Pipe!Ended("child") => <<"child", "ping", "r">> \notin ends /\ <<"child", "pong", "w">> \notin ends
        /\ Pipe!Ended("parent") => <<"parent", "ping", "w">> \notin ends /\ <<"parent", "pong", "r">> \notin ends
    BY DEF EndsInv
  <2>1. Pipe!Ended("child") => ~ ParentBlocked
    BY <2>0 DEF EndsInv, ParentBlocked
  <2>2. Pipe!Ended("parent") => ~ ChildBlocked
    BY <2>0 DEF EndsInv, ChildBlocked
  <2>3. ASSUME ParentBlocked, ChildBlocked PROVE FALSE
    <3>1. /\ held["ping"] \in Nat /\ held["pong"] \in Nat
          /\ count["parent"] \in Nat /\ count["child"] \in Nat
      BY DEF PipeInv
    <3>2. ~ Pipe!Ended("child") /\ ~ Pipe!Ended("parent")
      BY <2>1, <2>2, <2>3
    <3>3. CASE IsPP
      <4>1. place["parent"] # "writing"
        BY <2>3, <3>1, <3>3 DEF TokenInv, Tokens, ParentBlocked
      <4>2. CASE place["parent"] = "reading"
        BY <2>3, <3>1, <3>2, <3>3, <4>2 DEF TokenInv, Tokens, ParentBlocked, ChildBlocked
      <4>3. CASE place["parent"] = "waiting"
        BY <2>3, <3>1, <3>3, <4>3 DEF TokenInv, Tokens, PipeInv, ChildBlocked, Pipe!Wants
      <4> QED BY <2>3, <4>1, <4>2, <4>3 DEF ParentBlocked
    <3>4. CASE ~ IsPP
      <4>1. place["child"] = "reading" /\ held["ping"] = 0 /\ Pipe!HasWriter("ping")
        BY <2>3, <3>4 DEF PipeInv, ChildBlocked
      <4>2. place["parent"] = "waiting"
        BY <2>3, <3>4, <4>1 DEF PipeInv, ParentBlocked
      <4> QED BY <3>4, <4>1, <4>2 DEF EndsInv
    <3> QED BY <3>3, <3>4
  <2> QED BY <2>1, <2>2, <2>3 DEF NeverBothBlocked
<1> QED
  BY <1>1, PipeStart, PipeStep, RoomStart, RoomStep, EndsStart, EndsStep, TokenStep, PTL DEF WSpec

\* How many steps each has before it at most; Fork begins with those of both.
ParentAhead(here, counted) ==
  CASE here = "start" -> 4 * Rounds + 10
    [] here = "closing" -> 2 * (Rounds - counted) + 3
    [] here = "writing" -> 2 * (Rounds - counted) + 2
    [] here = "reading" -> 2 * (Rounds - counted) + 1
    [] here = "waiting" -> 1
    [] OTHER -> 0
ChildAhead(here, counted) ==
  CASE here = "closing" -> 2 * (Rounds - counted) + 2
    [] here = "reading" -> 2 * (Rounds - counted) + 1
    [] here = "writing" -> 2 * (Rounds - counted)
    [] OTHER -> 0
StepsLeft ==
  ParentAhead(place["parent"], count["parent"]) + ChildAhead(place["child"], count["child"])

Places == {"start", "none", "closing", "writing", "reading", "waiting",
           "returned", "failed", "killed", "reported"}
Over == {"returned", "failed", "killed", "reported"}

LEMMA AheadIsNat ==
  ASSUME NEW c \in 0 .. Rounds
  PROVE  \A here \in Places : ParentAhead(here, c) \in Nat /\ ChildAhead(here, c) \in Nat
BY WorkloadAssumption DEF Pipe!PipeConstantsOK, ParentAhead, ChildAhead, Places

LEMMA ParentAheadValues ==
  ASSUME NEW c \in 0 .. Rounds
  PROVE  /\ ParentAhead("start", c) = 4 * Rounds + 10
         /\ ParentAhead("closing", c) = 2 * (Rounds - c) + 3
         /\ ParentAhead("writing", c) = 2 * (Rounds - c) + 2
         /\ ParentAhead("reading", c) = 2 * (Rounds - c) + 1
         /\ ParentAhead("waiting", c) = 1
         /\ \A how \in Over : ParentAhead(how, c) = 0
BY WorkloadAssumption DEF Pipe!PipeConstantsOK, ParentAhead, Over

LEMMA ChildAheadValues ==
  ASSUME NEW c \in 0 .. Rounds
  PROVE  /\ ChildAhead("none", c) = 0
         /\ ChildAhead("closing", c) = 2 * (Rounds - c) + 2
         /\ ChildAhead("reading", c) = 2 * (Rounds - c) + 1
         /\ ChildAhead("writing", c) = 2 * (Rounds - c)
         /\ \A how \in Over : ChildAhead(how, c) = 0
BY WorkloadAssumption DEF Pipe!PipeConstantsOK, ChildAhead, Over

LEMMA CountsBounded ==
  ASSUME PipeInv, RoomInv
  PROVE  count["parent"] \in 0 .. Rounds /\ count["child"] \in 0 .. Rounds
BY WorkloadAssumption DEF PipeInv, RoomInv, Pipe!PipeConstantsOK, Pipe!Processes, Pipe!Pipes

\* What each step does to the place and the count of the process that takes it.
LEMMA ParentMoves ==
  ASSUME PipeInv, Pipe!ParentStep
  PROVE  /\ UNCHANGED <<place["child"], count["child"]>>
         /\ \/ /\ UNCHANGED count["parent"]
               /\ \/ place["parent"] = "closing" /\ place'["parent"] = "writing"
                  \/ place["parent"] = "writing" /\ place'["parent"] = "reading"
                  \/ place["parent"] = "writing" /\ place'["parent"] = "waiting" /\ count["parent"] = Rounds
                  \/ place["parent"] \in {"writing", "reading", "waiting"} /\ place'["parent"] \in Over
            \/ /\ count'["parent"] = count["parent"] + 1
               /\ place["parent"] \in {"writing", "reading"} /\ place'["parent"] = "writing"
BY DEF PipeInv, Pipe!ParentStep, Pipe!ParentCloses, Pipe!ParentWrites, Pipe!ParentReads,
  Pipe!ParentStops, Pipe!ParentReports, Pipe!Write, Pipe!Read, Pipe!Goto, Pipe!Exit, Pipe!Counted,
  Pipe!Processes, Over

LEMMA ChildMoves ==
  ASSUME PipeInv, Pipe!ChildStep
  PROVE  /\ UNCHANGED <<place["parent"], count["parent"]>>
         /\ \/ /\ UNCHANGED count["child"]
               /\ \/ place["child"] = "closing" /\ place'["child"] = "reading"
                  \/ place["child"] = "reading" /\ place'["child"] = "writing"
                  \/ place["child"] = "reading" /\ place'["child"] \in Over
                  \/ place["child"] = "writing" /\ place'["child"] \in Over /\ count["child"] < Rounds
            \/ /\ count'["child"] = count["child"] + 1
               /\ place["child"] \in {"writing", "reading"} /\ place'["child"] = "reading"
BY DEF PipeInv, Pipe!ChildStep, Pipe!ChildCloses, Pipe!ChildReads, Pipe!ChildWrites,
  Pipe!ChildStops, Pipe!Write, Pipe!Read, Pipe!Goto, Pipe!Exit, Pipe!Counted,
  Pipe!Processes, Pipe!IsPingPong, IsPP, Over

LEMMA DeathMoves ==
  ASSUME PipeInv, EndsInv, NEW x \in Pipe!Processes, Pipe!Die(x)
  PROVE  /\ UNCHANGED count
         /\ place[x] \in {"closing", "writing", "reading", "waiting"} /\ place'[x] \in Over
         /\ \A y \in Pipe!Processes : y # x => place'[y] = place[y]
         /\ place["child"] = "writing" => count["child"] < Rounds
         /\ place["child"] # "waiting"
BY DEF PipeInv, EndsInv, Pipe!Die, Pipe!Goto, Pipe!Exit, Pipe!Ended, Pipe!Processes, Pipe!IsPingPong, IsPP, Over

LEMMA StepsRunOutStep ==
  ASSUME PipeInv, RoomInv, EndsInv, PipeInv', RoomInv', Pipe!PipeNext PROVE StepsLeft' < StepsLeft
<1> DEFINE pp == place["parent"]  cp == count["parent"]  cplace == place["child"]  cc == count["child"]
<1>1. /\ cp \in 0 .. Rounds /\ cc \in 0 .. Rounds /\ cp' \in 0 .. Rounds /\ cc' \in 0 .. Rounds
      /\ Rounds \in Nat
  BY WorkloadAssumption DEF PipeInv, RoomInv, Pipe!PipeConstantsOK, Pipe!Processes, Pipe!Pipes
<1>2. pp \in Places /\ cplace \in Places /\ pp' \in Places /\ cplace' \in Places
  BY DEF PipeInv, Places, Pipe!Processes
<1>3. CASE Pipe!Fork
  <2>1. /\ pp = "start" /\ cplace = "none" /\ UNCHANGED <<cp, cc>>
        /\ \/ pp' = "closing" /\ cplace' = "closing"
           \/ pp' \in Over /\ cplace' = "none"
    BY <1>3 DEF PipeInv, Pipe!Fork, Pipe!Exit, Pipe!Goto, Pipe!Processes, Over
  <2> QED BY <1>1, <2>1, ParentAheadValues, ChildAheadValues DEF StepsLeft
<1>4. CASE Pipe!ParentStep
  <2>1. ParentAhead(pp', cp') < ParentAhead(pp, cp)
    BY <1>1, <1>4, ParentMoves, ParentAheadValues
  <2> QED BY <1>1, <1>2, <1>4, <2>1, ParentMoves, AheadIsNat DEF StepsLeft
<1>5. CASE Pipe!ChildStep
  <2>1. ChildAhead(cplace', cc') < ChildAhead(cplace, cc)
    BY <1>1, <1>5, ChildMoves, ChildAheadValues
  <2> QED BY <1>1, <1>2, <1>5, <2>1, ChildMoves, AheadIsNat DEF StepsLeft
<1>6. ASSUME NEW x \in Pipe!Processes, Pipe!Die(x) PROVE StepsLeft' < StepsLeft
  <2>1. CASE x = "parent"
    <3>1. ParentAhead(pp', cp') < ParentAhead(pp, cp)
      BY <1>1, <1>6, <2>1, DeathMoves, ParentAheadValues
    <3>2. ChildAhead(cplace', cc') = ChildAhead(cplace, cc)
      BY <1>6, <2>1, DeathMoves DEF Pipe!Processes
    <3> QED BY <1>1, <1>2, <3>1, <3>2, AheadIsNat DEF StepsLeft
  <2>2. CASE x = "child"
    <3>1. ChildAhead(cplace', cc') < ChildAhead(cplace, cc)
      BY <1>1, <1>6, <2>2, DeathMoves, ChildAheadValues
    <3>2. ParentAhead(pp', cp') = ParentAhead(pp, cp)
      BY <1>6, <2>2, DeathMoves DEF Pipe!Processes
    <3> QED BY <1>1, <1>2, <3>1, <3>2, AheadIsNat DEF StepsLeft
  <2> QED BY <2>1, <2>2 DEF Pipe!Processes
<1> QED BY <1>3, <1>4, <1>5, <1>6 DEF Pipe!PipeNext

\* Every step of the two brings them closer to their end: with PipesProceed,
\* they end if the kernel schedules them.
THEOREM PipesRunOut ==
  WSpec => [](StepsLeft \in Nat) /\ [][Pipe!PipeNext => StepsLeft' < StepsLeft]_wvars
<1>1. PipeInv /\ RoomInv => StepsLeft \in Nat
  <2> SUFFICES ASSUME PipeInv, RoomInv PROVE StepsLeft \in Nat
    OBVIOUS
  <2>1. place["parent"] \in Places /\ place["child"] \in Places
    BY DEF PipeInv, Places, Pipe!Processes
  <2> QED BY <2>1, CountsBounded, AheadIsNat DEF StepsLeft
<1>2. PipeInv /\ RoomInv /\ EndsInv /\ PipeInv' /\ RoomInv' => (Pipe!PipeNext => StepsLeft' < StepsLeft)
  BY StepsRunOutStep
<1> QED
  BY <1>1, <1>2, PipeStart, PipeStep, RoomStart, RoomStep, EndsStart, EndsStep, PTL DEF WSpec

\* pthread_join of a thread that goes on, and the workers that need not wait for
\* the mutex.
JoinWaits ==
  at = "creating" /\ Check!Created = Check!Mine /\ \E w \in Check!Mine : thread[w] # "ended"
GoesOn(w) == thread[w] = "inside" \/ (thread[w] = "ready" /\ lock = {})
JoinedThreadsGoOn == JoinWaits => \E w \in Check!Worker : GoesOn(w)

\* Who is inside holds the mutex, and nobody else, also of the threads an earlier
\* round left behind; the rounds are within their bound.
LockInv ==
  /\ lock = {w \in Check!Worker : thread[w] = "inside"}
  /\ at \in {"forking", "creating", "clock", "stopping"} => round <= MaxRounds
  /\ at \in {"start", "testing"} => round <= Len(Check!PosixTests)

LEMMA LockStart == WInit => LockInv
BY WorkloadAssumption DEF WInit, Check!CheckInit, LockInv, Check!CheckConstantsOK, Check!PosixTests

LEMMA LockStep == CheckInv /\ LockInv /\ [WNext]_wvars => LockInv'
<1> SUFFICES ASSUME CheckInv, LockInv, [WNext]_wvars PROVE LockInv'
  OBVIOUS
<1> USE DEF LockInv, CheckInv, Counts, Check!workers
<1>0. /\ MaxRounds \in Nat \ {0} /\ Len(Check!PosixTests) = 5
  BY WorkloadAssumption DEF Check!CheckConstantsOK, Check!PosixTests
<1>1. CASE UNCHANGED <<program, checks>>
  BY <1>1 DEF checks
<1>2. CASE Check!CheckNext
  <2>0. program' = program
    BY <1>2 DEF Check!CheckNext
  <2>1. CASE Check!StartHogs
    BY <1>0, <2>0, <2>1 DEF Check!StartHogs
  <2>2. CASE Check!ForkStress \/ Check!CreateFails \/ Check!JoinThreads
    BY <2>0, <2>2 DEF Check!ForkStress, Check!CreateFails, Check!JoinThreads
  <2>3. CASE Check!CreateThread
    BY <2>0, <2>3 DEF Check!CreateThread, Check!Created, Check!Mine
  <2>4. CASE Check!NextRound
    BY <1>0, <2>0, <2>4 DEF Check!NextRound
  <2>5. CASE Check!JoinHogs \/ Check!PosixResult
    BY <2>0, <2>5 DEF Check!JoinHogs, Check!PosixResult, Check!Conclude
  <2>6. CASE Check!PosixTest \/ Check!SignalIgnored
    <3>1. round' = round + 1 /\ round < Len(Check!PosixTests) /\ UNCHANGED <<thread, lock>>
      BY <2>6 DEF Check!PosixTest, Check!SignalIgnored, Check!BeginTest
    <3>2. at' \in {"testing", "waiting"} /\ round \in Nat
      BY <2>6 DEF Check!PosixTest, Check!SignalIgnored
    <3> QED BY <1>0, <3>1, <3>2
  <2>7. ASSUME NEW w \in Check!Worker, Check!WorkerStep(w) PROVE LockInv'
    <3>1. CASE Check!Lock(w)
      BY <2>0, <2>7, <3>1 DEF Check!Lock
    <3>2. CASE Check!Increment(w)
      BY <2>0, <2>7, <3>2 DEF Check!Increment
    <3> QED BY <2>7, <3>1, <3>2 DEF Check!WorkerStep
  <2> QED
    BY <1>2, <2>1, <2>2, <2>3, <2>4, <2>5, <2>6, <2>7 DEF Check!CheckNext, Check!MainStep
<1>3. UNCHANGED <<program, checks>> \/ Check!CheckNext
  BY DEF WNext, wvars, Pipe!PipeNext, Sample!SampleNext
<1> QED BY <1>1, <1>2, <1>3

\* The stress test never joins threads that all wait: any number of threads and
\* rounds, whatever of an earlier round is still on its way.
THEOREM JoinsProceed == WSpec => []JoinedThreadsGoOn
<1>1. CheckInv /\ LockInv => JoinedThreadsGoOn
  <2> SUFFICES ASSUME CheckInv, LockInv, JoinWaits PROVE \E w \in Check!Worker : GoesOn(w)
    BY DEF JoinedThreadsGoOn
  <2>1. PICK w \in Check!Mine : thread[w] # "ended"
    BY DEF JoinWaits
  <2>2. w \in Check!Worker /\ thread[w] \in {"ready", "inside"}
    BY <2>1 DEF JoinWaits, Check!Mine, Check!Created, CheckInv, Counts
  <2>3. CASE lock = {}
    BY <2>2, <2>3 DEF GoesOn
  <2>4. CASE lock # {}
    BY <2>4 DEF LockInv, GoesOn
  <2> QED BY <2>3, <2>4
<1> QED BY <1>1, CheckStart, CheckStep, LockStart, LockStep, PTL DEF WSpec

\* The steps the main thread has before it, and those of the workers.
MainAhead ==
  CASE at = "start" -> 3 * MaxRounds + 10 - round
    [] at = "testing" -> 10 - round
    [] at = "forking" -> 3 * (MaxRounds - round) + 4
    [] at = "creating" -> 3 * (MaxRounds - round) + 3
    [] at = "clock" -> 3 * (MaxRounds - round) + 2
    [] at = "stopping" -> 1
    [] OTHER -> 0
Stage(state) == CASE state = "none" -> 0 [] state = "ready" -> 1 [] state = "inside" -> 2 [] OTHER -> 3
Moves == Check!Worker \X (1 .. 3)
WorkersAhead == {m \in Moves : m[2] > Stage(thread[m[1]])}

LEMMA WorkersFinite == IsFiniteSet(Moves)
<1>1. MaxRounds \in Int /\ Threads \in Int
  BY WorkloadAssumption DEF Check!CheckConstantsOK
<1> DEFINE one == 1
           three == 3
<1>2. one \in Int /\ three \in Int
  OBVIOUS
<1> HIDE DEF one, three
<1>3. IsFiniteSet(one .. MaxRounds) /\ IsFiniteSet(one .. Threads) /\ IsFiniteSet(one .. three)
  BY <1>1, <1>2, FS_Interval
<1>4. IsFiniteSet((one .. MaxRounds) \X (one .. Threads))
  BY <1>3, FS_Product
<1>5. IsFiniteSet(((one .. MaxRounds) \X (one .. Threads)) \X (one .. three))
  BY <1>3, <1>4, FS_Product
<1> QED BY <1>5 DEF Moves, Check!Worker, one, three

LEMMA AheadShrinks ==
  ASSUME CheckInv, NEW w \in Check!Worker, NEW to,
         \/ thread[w] = "none" /\ to = "ready"
         \/ thread[w] = "ready" /\ to = "inside"
         \/ thread[w] = "inside" /\ to = "ended",
         thread' = [thread EXCEPT ![w] = to]
  PROVE  WorkersAhead' \subseteq WorkersAhead /\ WorkersAhead' # WorkersAhead
<1>1. thread \in [Check!Worker -> {"none", "ready", "inside", "ended"}]
  BY DEF CheckInv, Counts
<1>2. Stage(to) \in 1 .. 3 /\ Stage(thread[w]) = Stage(to) - 1
  BY DEF Stage
<1>3. thread'[w] = to /\ \A v \in Check!Worker : v # w => thread'[v] = thread[v]
  BY <1>1
<1>4. \A v \in Check!Worker : Stage(thread[v]) \in 0 .. 3
  BY <1>1 DEF Stage
<1>5. <<w, Stage(to)>> \in Moves
  BY <1>2 DEF Moves
<1>6. <<w, Stage(to)>> \in WorkersAhead /\ <<w, Stage(to)>> \notin WorkersAhead'
  BY <1>2, <1>3, <1>5 DEF WorkersAhead
<1>7. WorkersAhead' \subseteq WorkersAhead
  <2> SUFFICES ASSUME NEW m \in Moves, m[2] > Stage(thread'[m[1]]) PROVE m[2] > Stage(thread[m[1]])
    BY DEF WorkersAhead
  <2>1. m[1] \in Check!Worker /\ m[2] \in 1 .. 3
    BY DEF Moves
  <2>2. CASE m[1] = w
    BY <1>2, <1>3, <2>1, <2>2
  <2>3. CASE m[1] # w
    BY <1>3, <2>1, <2>3
  <2> QED BY <2>2, <2>3
<1> QED BY <1>6, <1>7

ChecksLeft == MainAhead + Cardinality(WorkersAhead)

LEMMA MainAheadIsNat == CheckInv /\ LockInv => MainAhead \in Nat
<1> SUFFICES ASSUME CheckInv, LockInv PROVE MainAhead \in Nat
  OBVIOUS
<1>1. MaxRounds \in Nat /\ round \in Nat /\ Len(Check!PosixTests) = 5
  BY WorkloadAssumption DEF Check!CheckConstantsOK, Check!PosixTests, CheckInv, Counts
<1>2. at \in {"start", "testing"} => round <= 5
  BY <1>1 DEF CheckInv, Counts, LockInv
<1> QED BY <1>1, <1>2 DEF LockInv, MainAhead

LEMMA ChecksLeftIsNat == CheckInv /\ LockInv => ChecksLeft \in Nat
<1>1. Cardinality(WorkersAhead) \in Nat
  BY WorkersFinite, FS_Subset, FS_CardinalityType DEF WorkersAhead
<1> QED BY <1>1, MainAheadIsNat DEF ChecksLeft

\* Each step of the stress test or of the POSIX checks brings its end closer, of the main
\* thread or of a worker: with JoinsProceed, the program ends if the kernel
\* schedules its threads.
THEOREM ChecksRunOut ==
  WSpec => [](ChecksLeft \in Nat) /\ [][Check!CheckNext => ChecksLeft' < ChecksLeft]_wvars
<1>1. ASSUME CheckInv, LockInv, CheckInv', LockInv', Check!CheckNext
      PROVE  ChecksLeft' < ChecksLeft
  <2> DEFINE m == MainAhead  n == Cardinality(WorkersAhead)
  <2>1. m \in Nat /\ m' \in Nat
    <3>1. MaxRounds \in Nat /\ round' \in Nat /\ Len(Check!PosixTests) = 5
      BY <1>1, WorkloadAssumption DEF Check!CheckConstantsOK, Check!PosixTests, CheckInv, Counts
    <3>2. at' \in {"start", "testing"} => round' <= 5
      BY <1>1, <3>1 DEF LockInv
    <3>3. m' \in Nat
      BY <1>1, <3>1, <3>2 DEF LockInv, MainAhead
    <3> QED BY <1>1, <3>3, MainAheadIsNat
  <2>2. /\ IsFiniteSet(WorkersAhead) /\ IsFiniteSet(WorkersAhead')
        /\ n \in Nat /\ n' \in Nat
    BY WorkersFinite, FS_Subset, FS_CardinalityType DEF WorkersAhead
  <2>3. CASE /\ UNCHANGED MainAhead
             /\ WorkersAhead' \subseteq WorkersAhead /\ WorkersAhead' # WorkersAhead
    <3>1. n' <= n /\ n' # n
      BY <2>2, <2>3, FS_Subset
    <3> QED BY <2>1, <2>2, <2>3, <3>1 DEF ChecksLeft
  <2>4. CASE UNCHANGED thread /\ m' < m
    <3>1. WorkersAhead' = WorkersAhead
      BY <2>4 DEF WorkersAhead
    <3> QED BY <2>1, <2>2, <2>4, <3>1 DEF ChecksLeft
  <2>5. /\ MaxRounds \in Nat \ {0} /\ round \in Nat /\ round' \in Nat /\ Len(Check!PosixTests) = 5
        /\ at \in {"forking", "creating", "clock", "stopping"} => round <= MaxRounds
        /\ at \in {"start", "testing"} => round <= 5
    BY <1>1, WorkloadAssumption
    DEF Check!CheckConstantsOK, Check!PosixTests, CheckInv, Counts, LockInv
  <2>6. CASE Check!StartHogs
    BY <1>1, <2>4, <2>5, <2>6 DEF Check!StartHogs, Check!workers, MainAhead
  <2>7. CASE Check!ForkStress
    BY <2>4, <2>5, <2>7 DEF Check!ForkStress, MainAhead
  <2>8. CASE Check!CreateThread
    <3>1. PICK w \in Check!Mine \ Check!Created : thread' = [thread EXCEPT ![w] = "ready"]
      BY <2>8 DEF Check!CreateThread
    <3>2. w \in Check!Worker /\ thread[w] = "none"
      BY <3>1 DEF Check!Mine, Check!Created
    <3>3. UNCHANGED MainAhead
      BY <2>8 DEF Check!CreateThread, MainAhead
    <3> QED BY <1>1, <2>3, <3>1, <3>2, <3>3, AheadShrinks
  <2>9. CASE Check!CreateFails \/ Check!JoinThreads
    BY <2>4, <2>5, <2>9 DEF Check!CreateFails, Check!JoinThreads, Check!workers, MainAhead
  <2>10. CASE Check!NextRound
    BY <2>4, <2>5, <2>10 DEF Check!NextRound, Check!workers, MainAhead
  <2>11. CASE Check!JoinHogs
    <3>1. at = "stopping" /\ at' \in {"ended", "crashed"} /\ UNCHANGED <<thread, round>>
      BY <2>11 DEF Check!JoinHogs, Check!Conclude, Check!workers
    <3> QED BY <2>4, <3>1 DEF MainAhead
  <2>12. CASE Check!PosixTest \/ Check!SignalIgnored
    <3>1. /\ at \in {"start", "testing"} /\ at' \in {"testing", "waiting"}
          /\ round' = round + 1 /\ UNCHANGED thread
      BY <2>12 DEF Check!PosixTest, Check!SignalIgnored, Check!BeginTest, Check!workers
    <3> QED BY <2>4, <2>5, <3>1 DEF MainAhead
  <2>13. CASE Check!PosixResult
    <3>1. at = "testing" /\ at' = "ended" /\ UNCHANGED <<thread, round>>
      BY <2>13 DEF Check!PosixResult, Check!Conclude, Check!workers
    <3> QED BY <2>4, <2>5, <3>1 DEF MainAhead
  <2>14. ASSUME NEW w \in Check!Worker, Check!WorkerStep(w) PROVE ChecksLeft' < ChecksLeft
    <3>1. UNCHANGED <<at, round>>
      BY <2>14 DEF Check!WorkerStep, Check!Lock, Check!Increment
    <3>2. UNCHANGED MainAhead
      BY <3>1 DEF MainAhead
    <3>3. \/ thread[w] = "ready" /\ thread' = [thread EXCEPT ![w] = "inside"]
          \/ thread[w] = "inside" /\ thread' = [thread EXCEPT ![w] = "ended"]
      BY <2>14 DEF Check!WorkerStep, Check!Lock, Check!Increment
    <3> QED BY <1>1, <2>3, <3>2, <3>3, AheadShrinks
  <2> QED
    BY <1>1, <2>6, <2>7, <2>8, <2>9, <2>10, <2>11, <2>12, <2>13, <2>14
    DEF Check!CheckNext, Check!MainStep
<1>2. CheckInv /\ LockInv /\ CheckInv' /\ LockInv' => (Check!CheckNext => ChecksLeft' < ChecksLeft)
  BY <1>1
<1> QED
  BY <1>2, ChecksLeftIsNat, CheckStart, CheckStep, LockStart, LockStep, PTL DEF WSpec
=============================================================================
