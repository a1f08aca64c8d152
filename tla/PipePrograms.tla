---------------------------- MODULE PipePrograms ----------------------------
(***************************************************************************)
(* benchmark/context_switch.c and benchmark/ipc_throughput.c: a parent and *)
(* the child it forks, over the pipes they inherit both ends of.  The      *)
(* first hands a byte to and fro, the second streams a volume in chunks.   *)
(***************************************************************************)
EXTENDS Naturals

CONSTANTS
  Rounds,     \* round_trips, and the whole chunks of the volume
  Remainders, \* may the volume be more than its whole chunks
  Capacity,   \* what a pipe holds
  CanDie      \* one of the processes may be killed from outside

PipeConstantsOK ==
  /\ Rounds \in Nat /\ Capacity \in Nat \ {0}
  /\ Remainders \subseteq BOOLEAN /\ CanDie \in BOOLEAN

VARIABLES
  program,    \* the program that runs
  remainder,  \* total_bytes is no multiple of chunk_bytes
  pc,         \* where each of the two processes is
  count,      \* rounds each has behind it
  ends,       \* pipe ends that are open: <<process, pipe, "r" or "w">>
  data        \* bytes or chunks in each pipe

pipeVars == <<remainder, pc, count, ends, data>>

Processes == {"parent", "child"}
Pipes == {"ping", "pong"}
IsPingPong == program = "context_switch"
UsedPipes == IF IsPingPong THEN Pipes ELSE {"ping"}

Ended(x) == pc[x] \in {"returned", "failed", "killed", "reported"}

PipeInit ==
  /\ remainder \in Remainders
  /\ pc = [parent |-> "start", child |-> "none"]
  /\ count = [x \in Processes |-> 0]
  /\ ends = {}
  /\ data = [p \in Pipes |-> 0]

Goto(x, place) == pc' = [pc EXCEPT ![x] = place]
Keep(x, side) == {e \in ends : e[1] # x \/ e \in {<<x, p, s>> : p \in Pipes, s \in side}}

\* The kernel closes what a process had open.
Exit(x, how) == Goto(x, how) /\ ends' = Keep(x, {})

HasReader(p) == \E x \in Processes : <<x, p, "r">> \in ends
HasWriter(p) == \E x \in Processes : <<x, p, "w">> \in ends

Counted(x) == count' = [count EXCEPT ![x] = @ + 1]

\* A process that writes where nobody can read gets SIGPIPE.
Write(x, p, next, counts) ==
  \/ /\ ~ HasReader(p)
     /\ Exit(x, "killed")
     /\ UNCHANGED <<count, data>>
  \/ /\ HasReader(p) /\ data[p] < Capacity
     /\ data' = [data EXCEPT ![p] = @ + 1]
     /\ Goto(x, next)
     /\ IF counts THEN Counted(x) ELSE UNCHANGED count
     /\ UNCHANGED ends

\* A read blocks while the pipe is empty and somebody may still write.
Read(x, p, next, counts, atEnd) ==
  \/ /\ data[p] > 0
     /\ data' = [data EXCEPT ![p] = @ - 1]
     /\ Goto(x, next)
     /\ IF counts THEN Counted(x) ELSE UNCHANGED count
     /\ UNCHANGED ends
  \/ /\ data[p] = 0 /\ ~ HasWriter(p)
     /\ Exit(x, atEnd)
     /\ UNCHANGED <<count, data>>

(***************************************************************************)
(* The parent.                                                             *)
(***************************************************************************)
Fork ==
  /\ pc["parent"] = "start"
  /\ \/ /\ pc' = [parent |-> "closing", child |-> "closing"]
        /\ ends' = Processes \X UsedPipes \X {"r", "w"}
     \/ Exit("parent", "failed")
  /\ UNCHANGED <<count, data>>

\* Mutant: the parent keeps the end of pong its child writes to.
ParentKeepsPong ==
  /\ pc["parent"] = "closing"
  /\ Goto("parent", "writing")
  /\ ends' = ends \ {<<"parent", "ping", "r">>}
  /\ UNCHANGED <<count, data>>

ParentCloses ==
  /\ pc["parent"] = "closing"
  /\ Goto("parent", "writing")
  /\ ends' = ends \ {<<"parent", "ping", "r">>, <<"parent", "pong", "w">>}
  /\ UNCHANGED <<count, data>>

ParentWrites ==
  /\ pc["parent"] = "writing" /\ count["parent"] < Rounds
  /\ IF IsPingPong THEN Write("parent", "ping", "reading", FALSE)
     ELSE Write("parent", "ping", "writing", TRUE)

ParentReads ==
  /\ pc["parent"] = "reading"
  /\ Read("parent", "pong", "writing", TRUE, "failed")

\* ipc_throughput closes its end before it waits, or a child that expects a
\* remainder would never see the end of the volume.
ParentStops ==
  /\ pc["parent"] = "writing" /\ count["parent"] = Rounds
  /\ Goto("parent", "waiting")
  /\ ends' = IF IsPingPong THEN ends ELSE Keep("parent", {})
  /\ UNCHANGED <<count, data>>

\* Mutant: without the waitpid.
ReportAtOnce ==
  /\ pc["parent"] = "waiting"
  /\ Exit("parent", "reported")
  /\ UNCHANGED <<count, data>>

\* waitpid, whose status nobody looks at, and the two lines of figures.
ParentReports ==
  /\ pc["parent"] = "waiting" /\ Ended("child")
  /\ Exit("parent", "reported")
  /\ UNCHANGED <<count, data>>

(***************************************************************************)
(* The child.                                                              *)
(***************************************************************************)
ChildCloses ==
  /\ pc["child"] = "closing"
  /\ Goto("child", "reading")
  /\ ends' = ends \ {<<"child", "ping", "w">>, <<"child", "pong", "r">>}
  /\ UNCHANGED <<count, data>>

Wants == count["child"] < Rounds \/ (remainder /\ ~ IsPingPong)

ChildReads ==
  /\ pc["child"] = "reading" /\ Wants
  /\ IF IsPingPong THEN Read("child", "ping", "writing", FALSE, "failed")
     ELSE Read("child", "ping", "reading", TRUE, "returned")

ChildWrites ==
  /\ pc["child"] = "writing"
  /\ Write("child", "pong", "reading", TRUE)

ChildStops ==
  /\ pc["child"] = "reading" /\ ~ Wants
  /\ Exit("child", "returned")
  /\ UNCHANGED <<count, data>>

\* The kernel or somebody else kills one of the two.
Die(x) ==
  /\ CanDie
  /\ pc[x] \notin {"start", "none"} /\ ~ Ended(x)
  /\ \A y \in Processes : pc[y] # "killed"
  /\ Exit(x, "killed")
  /\ UNCHANGED <<count, data>>

ParentStep == ParentCloses \/ ParentWrites \/ ParentReads \/ ParentStops \/ ParentReports
ChildStep == ChildCloses \/ ChildReads \/ ChildWrites \/ ChildStops

PipeNext ==
  /\ program \in {"context_switch", "ipc_throughput"}
  /\ Fork \/ ParentStep \/ ChildStep \/ \E x \in Processes : Die(x)
  /\ UNCHANGED <<program, remainder>>

\* The kernel schedules both.
PipeFairness ==
  /\ WF_pipeVars(ParentStep /\ UNCHANGED <<program, remainder>>)
  /\ WF_pipeVars(ChildStep /\ UNCHANGED <<program, remainder>>)

(***************************************************************************)
(* Properties.                                                             *)
(***************************************************************************)
\* Every variable has the values its declaration names.
PipeTypeOK ==
  /\ remainder \in BOOLEAN
  /\ pc \in [Processes -> {"start", "none", "closing", "writing", "reading", "waiting",
                           "returned", "failed", "killed", "reported"}]
  /\ count \in [Processes -> 0 .. Rounds]
  /\ ends \subseteq Processes \X Pipes \X {"r", "w"}
  /\ data \in [Pipes -> 0 .. Capacity]

\* The figures are those of a whole run: every byte was bounced, every chunk
\* taken out of the pipe.  That the child was killed is noticed by
\* context_switch.c, whose next read finds the end of pong; ipc_throughput.c
\* reports its throughput all the same if everything was written.
ReportIsEarned ==
  pc["parent"] = "reported" =>
    /\ count["parent"] = Rounds
    /\ count["child"] = Rounds \/ (~ IsPingPong /\ pc["child"] = "killed")

\* Neither process waits for the other for ever, whichever of them is killed
\* and wherever: a pipe whose other side is gone ends.
BothEnd == pc["child"] = "closing" ~> Ended("parent") /\ Ended("child")
=============================================================================
