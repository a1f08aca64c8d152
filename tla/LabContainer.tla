--------------------------- MODULE LabContainer ---------------------------
(***************************************************************************)
(* The life of the lab's Docker container kernel-sprint-lab under the      *)
(* calls of docker_agent.ensure_container().                               *)
(*                                                                         *)
(* ensure_container is a check followed by up to five docker commands, and *)
(* nothing but its caller's thread orders them.  The WebSocket handlers    *)
(* call it on the event loop, so that their calls exclude each other; the  *)
(* endpoint /api/environment is a plain function, which FastAPI runs in a  *)
(* worker thread, so that its calls overlap with everyone's.               *)
(*                                                                         *)
(* Exit codes are ignored by the code, all but the one of inspect: a       *)
(* command that failed is followed by the next one.  A command that ran    *)
(* into its timeout raises, whether or not the Docker daemon did the work. *)
(***************************************************************************)
EXTENDS Naturals, FiniteSets

CONSTANTS
  LoopCallers,    \* WebSocket handlers: they hold the event loop
  ThreadCallers,  \* requests to /api/environment: each in a thread
  MaxFaults,      \* bound: docker commands that fail or time out
  MaxStops,       \* bound: times somebody else stops the container
  MaxCalls,       \* bound: ensure_container calls begun
  Free            \* the event loop is not held by a call

Callers == LoopCallers \cup ThreadCallers

ASSUME CallerAssumption == LoopCallers \cap ThreadCallers = {}
ASSUME FreeAssumption == Free \notin Callers
ASSUME BoundAssumption == MaxFaults \in Nat /\ MaxStops \in Nat /\ MaxCalls \in Nat

VARIABLES
  box,       \* "absent", "stopped" or "running": what docker inspect sees
  gen,       \* containers created so far; the current one is number gen
  equipped,  \* what the current container was given after it was created
  pc,        \* where each caller is
  sawGen,    \* history: gen when the caller's inspect ran
  report,    \* the last answer of /api/environment to the caller
  loop,      \* the caller that holds the event loop, or Free
  calls,     \* calls begun so far
  faults,    \* failed or timed out commands so far
  stops      \* outside stops so far

vars == <<box, gen, equipped, pc, sawGen, report, loop, calls, faults, stops>>
container == <<box, gen, equipped>>

Equipment == {"debugfs", "tracefs", "iproute2"}
\* Mutant: tracefs is not mounted.
AfterWithoutTracefs ==
  [debugfs |-> "iproute2", tracefs |-> "iproute2", iproute2 |-> "ready"]

After == [debugfs |-> "tracefs", tracefs |-> "iproute2", iproute2 |-> "ready"]

Inside == {"inspect", "rm", "run"} \cup Equipment   \* inside ensure_container
Asking == {"check", "read"}                         \* in get_environment_info

\* A freshly started backend finds no container, or one that an earlier run
\* of it left: complete, then running or stopped by a reboot.
Init ==
  /\ box \in {"absent", "stopped", "running"}
  /\ gen = 0
  /\ equipped = IF box = "running" THEN Equipment ELSE {}
  /\ pc = [c \in Callers |-> "idle"]
  /\ sawGen = [c \in Callers |-> 0]
  /\ report = [c \in Callers |-> "none"]
  /\ loop = Free
  /\ calls = 0
  /\ faults = 0
  /\ stops = 0

\* How a docker command can go: did the daemon do it, and does the call
\* raise; all but the first are faults.
Outcomes ==
  {[done |-> TRUE, raised |-> FALSE]} \cup
  (IF faults < MaxFaults
     THEN {[done |-> FALSE, raised |-> FALSE],
           [done |-> TRUE, raised |-> TRUE],
           [done |-> FALSE, raised |-> TRUE]}
     ELSE {})

IsFault(o) == ~ o.done \/ o.raised

\* The caller's next step; a handler that leaves ensure_container, returning
\* or raising, gives the event loop back.
Goto(c, step) ==
  /\ pc' = [pc EXCEPT ![c] = step]
  /\ loop' = IF c \in LoopCallers /\ step \notin Inside THEN Free ELSE loop

\* A command with outcome o: on to the next step, or out with the exception.
Proceed(c, o, step) ==
  /\ Goto(c, IF o.raised THEN "raised" ELSE step)
  /\ faults' = IF IsFault(o) THEN faults + 1 ELSE faults

(***************************************************************************)
(* ensure_container.                                                       *)
(***************************************************************************)
\* Mutant: handlers, too, call ensure_container in a thread.
CallInThread(c) ==
  /\ pc[c] \notin Inside \cup Asking
  /\ calls < MaxCalls
  /\ pc' = [pc EXCEPT ![c] = "inspect"]
  /\ calls' = calls + 1
  /\ UNCHANGED <<container, sawGen, report, loop, faults, stops>>

Call(c) ==
  /\ pc[c] \notin Inside \cup Asking
  /\ calls < MaxCalls
  /\ c \in LoopCallers => loop = Free
  /\ pc' = [pc EXCEPT ![c] = "inspect"]
  /\ loop' = IF c \in LoopCallers THEN c ELSE loop
  /\ calls' = calls + 1
  /\ UNCHANGED <<container, sawGen, report, faults, stops>>

\* Mutant: the state that inspect reports is not looked at.
InspectAlwaysRecreates(c) ==
  /\ pc[c] = "inspect"
  /\ \E o \in Outcomes : Proceed(c, o, "rm")
  /\ sawGen' = [sawGen EXCEPT ![c] = gen]
  /\ UNCHANGED <<container, report, calls, stops>>

\* A command that does not reach the daemon reports no running container.
Inspect(c) ==
  /\ pc[c] = "inspect"
  /\ \E o \in Outcomes :
       Proceed(c, o, IF o.done /\ box = "running" THEN "ready" ELSE "rm")
  /\ sawGen' = [sawGen EXCEPT ![c] = gen]
  /\ UNCHANGED <<container, report, calls, stops>>

\* docker rm -f: whatever is there, running or not.
Remove(c) ==
  /\ pc[c] = "rm"
  /\ \E o \in Outcomes :
       /\ Proceed(c, o, "run")
       /\ box' = IF o.done THEN "absent" ELSE box
       /\ equipped' = IF o.done THEN {} ELSE equipped
  /\ UNCHANGED <<gen, sawGen, report, calls, stops>>

\* Mutant: docker create, which does not start what it creates.
RunWithoutStart(c) ==
  /\ pc[c] = "run"
  /\ \E o \in Outcomes :
       /\ Proceed(c, o, "debugfs")
       /\ IF o.done /\ box = "absent"
            THEN box' = "stopped" /\ gen' = gen + 1 /\ equipped' = {}
            ELSE UNCHANGED container
  /\ UNCHANGED <<sawGen, report, calls, stops>>

\* docker run: does nothing when the name is taken.
Run(c) ==
  /\ pc[c] = "run"
  /\ \E o \in Outcomes :
       /\ Proceed(c, o, "debugfs")
       /\ IF o.done /\ box = "absent"
            THEN box' = "running" /\ gen' = gen + 1 /\ equipped' = {}
            ELSE UNCHANGED container
  /\ UNCHANGED <<sawGen, report, calls, stops>>

\* The two mounts and the installation of iproute2, by docker exec in
\* whatever container runs under the name now.
Equip(c) ==
  /\ pc[c] \in Equipment
  /\ \E o \in Outcomes :
       /\ Proceed(c, o, After[pc[c]])
       /\ equipped' = IF o.done /\ box = "running"
                        THEN equipped \cup {pc[c]} ELSE equipped
  /\ UNCHANGED <<box, gen, sawGen, report, calls, stops>>

(***************************************************************************)
(* get_environment_info, called by /api/environment after                  *)
(* ensure_container returned: is_connected, then the commands that read    *)
(* the answer, taken as one.                                               *)
(***************************************************************************)
Check(c) ==
  /\ c \in ThreadCallers
  /\ pc[c] = "ready"
  /\ \E o \in Outcomes :
       LET up == o.done /\ box = "running" IN
       /\ Proceed(c, o, IF up THEN "read" ELSE "answered")
       /\ report' = IF ~ up /\ ~ o.raised
                      THEN [report EXCEPT ![c] = "disconnected"] ELSE report
  /\ UNCHANGED <<container, sawGen, calls, stops>>

\* An exec that fails leaves "unknown" in the answer.
Read(c) ==
  /\ c \in ThreadCallers
  /\ pc[c] = "read"
  /\ \E o \in Outcomes :
       /\ Proceed(c, o, "answered")
       /\ report' =
            CASE o.raised -> report
              [] ~ o.raised /\ o.done /\ box = "running" ->
                   [report EXCEPT ![c] = "connected"]
              [] OTHER -> [report EXCEPT ![c] = "unknown"]
  /\ UNCHANGED <<container, sawGen, calls, stops>>

\* Somebody else stops the container: a reboot, docker stop, the OOM killer.
StopOutside ==
  /\ box = "running"
  /\ stops < MaxStops
  /\ box' = "stopped"
  /\ equipped' = equipped \ {"debugfs", "tracefs"}   \* mounts do not survive
  /\ stops' = stops + 1
  /\ UNCHANGED <<gen, pc, sawGen, report, loop, calls, faults>>

Step(c) == Inspect(c) \/ Remove(c) \/ Run(c) \/ Equip(c) \/ Check(c) \/ Read(c)

Next == StopOutside \/ \E c \in Callers : Call(c) \/ Step(c)

Spec == Init /\ [][Next]_vars

(***************************************************************************)
(* Properties.                                                             *)
(***************************************************************************)
TypeOK ==
  /\ box \in {"absent", "stopped", "running"}
  /\ gen \in Nat
  /\ equipped \in SUBSET Equipment
  /\ pc \in [Callers -> Inside \cup {"idle", "ready", "read", "answered", "raised"}]
  /\ sawGen \in [Callers -> Nat]
  /\ report \in [Callers -> {"none", "disconnected", "connected", "unknown"}]
  /\ loop \in Callers \cup {Free}
  /\ calls \in Nat
  /\ faults \in Nat
  /\ stops \in Nat

NoThreadCalled == \A c \in ThreadCallers : pc[c] = "idle"

\* docker_agent.py:37 says of the rm that follows the check: "container exists
\* but stopped, or doesn't exist".  As long as /api/environment has never been
\* asked, the event loop keeps the two together and it is true, however the
\* handlers' calls follow one another; one call from a thread ends that.
LoopCallsRemoveOnlyDown ==
  [][\A c \in Callers :
       Remove(c) /\ faults = 0 /\ NoThreadCalled => box # "running"]_vars

\* The damage is bounded: a running container is only ever removed by a call
\* whose inspect is older than that container, never by one that looked at it,
\* unless the inspect itself went wrong.
OnlyStaleChecksRemove ==
  faults = 0 =>
    \A c \in Callers : pc[c] = "rm" /\ box = "running" => sawGen[c] < gen

\* Once any call has got past docker run, and nothing failed or stopped, the
\* container is up, or the call that removed it is about to create it again.
UpOnceCreated ==
  faults = 0 /\ stops = 0
  /\ (\E c \in Callers : pc[c] \in Equipment \cup {"ready", "read", "answered"})
    => box = "running" \/ \E c \in Callers : pc[c] = "run"

\* With no call in progress and no command failed, a running container has
\* its mounts and iproute2, though calls may have removed each other's
\* containers and equipped one they did not create.
EquippedWhenQuiet ==
  faults = 0 /\ box = "running" /\ (\A c \in Callers : pc[c] \notin Inside)
    => equipped = Equipment

\* /api/environment, which has just made sure of the container, answers
\* "disconnected" or "unknown" only while another call is recreating it.
DownOnlyDuringRecreation ==
  [][\A c \in Callers :
       (Check(c) \/ Read(c)) /\ faults' = 0 /\ stops = 0
         /\ report'[c] \in {"disconnected", "unknown"}
         /\ pc'[c] = "answered"
       => \E d \in Callers : pc[d] = "run"]_vars
=============================================================================
