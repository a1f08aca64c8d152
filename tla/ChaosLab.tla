------------------------------ MODULE ChaosLab ------------------------------
(***************************************************************************)
(* The failure injections of chaos_agent.py in the lab container: a netem  *)
(* delay on its eth0, processes spawned to be killed, and stress-ng under  *)
(* load or disk pressure.  Every run is an agent thread of its own         *)
(* WebSocket session; the runs share the container's network device and    *)
(* its process table, and the container may be recreated under them.       *)
(*                                                                         *)
(* A docker exec answers, answers with an error without having reached the *)
(* container, or runs into its timeout.  In the last case the agent gets   *)
(* an exception, and the command may have taken effect, may do so later,   *)
(* or never.                                                               *)
(***************************************************************************)
EXTENDS Naturals, FiniteSets

CONSTANTS
  Runs,            \* WebSocket sessions: each has at most one run at a time
  Actions,         \* which of the injections the clients ask for
  MaxBegun,        \* bound: runs begun
  MaxFaults,       \* bound: docker execs that fail or time out
  MaxRecreations,  \* bound: times the container is recreated
  MaxCrashes,      \* bound: times the backend process ends
  Nobody           \* not a run

ASSUME ActionsAssumption == Actions \subseteq {"network", "kill", "load", "disk"}
ASSUME NobodyAssumption == Nobody \notin Runs
ASSUME BoundAssumption ==
  /\ MaxBegun \in Nat /\ MaxFaults \in Nat
  /\ MaxRecreations \in Nat /\ MaxCrashes \in Nat

VARIABLES
  netem,    \* whose netem qdisc is at the root of eth0, or Nobody
  alive,    \* processes of the container: pairs of a pid and the run it is of
  nextPid,  \* the pid the container gives next
  gen,      \* which container it is
  late,     \* timed out tc commands that may still take effect
  pc,       \* the step each run is at
  pid,      \* the process of each run
  bornIn,   \* history: the container the run's process was started in
  disturbed, \* history: a container was recreated while a run delayed in it
  report,   \* what the run's result event says
  begun,    \* runs begun so far
  faults,   \* failed or timed out execs so far
  crashes   \* times the backend ended

vars == <<netem, alive, nextPid, gen, late, pc, pid, bornIn, disturbed, report,
          begun, faults, crashes>>
network == <<netem, late>>
processes == <<alive, nextPid, pid, bornIn>>
world == <<gen, disturbed, begun, crashes>>

Ended == {"idle", "result", "dead"}
Delaying == {"sleep", "del"}

FirstStep == [network |-> "add", kill |-> "spawn", load |-> "launch", disk |-> "write"]
Steps == {"add", "sleep", "del", "spawn", "kill", "check", "launch", "write",
          "sample", "wait"}

Init ==
  /\ netem = Nobody
  /\ alive = {}
  /\ nextPid = 1
  /\ gen = 1
  /\ late = {}
  /\ pc = [r \in Runs |-> "idle"]
  /\ pid = [r \in Runs |-> 0]
  /\ bornIn = [r \in Runs |-> 0]
  /\ disturbed = FALSE
  /\ report = [r \in Runs |-> "none"]
  /\ begun = 0
  /\ faults = 0
  /\ crashes = 0

Goto(r, step) == pc' = [pc EXCEPT ![r] = step]

\* The result event, after which the generator returns.
Answer(r, what) == Goto(r, "result") /\ report' = [report EXCEPT ![r] = what]

Fault == faults < MaxFaults /\ faults' = faults + 1

\* The exec's timeout: an exception that no agent catches.
Raise(r) == Fault /\ Goto(r, "dead") /\ UNCHANGED report

Begin(r, action) ==
  /\ pc[r] \in Ended
  /\ begun < MaxBegun
  /\ begun' = begun + 1
  /\ Goto(r, FirstStep[action])
  /\ report' = [report EXCEPT ![r] = "none"]
  /\ UNCHANGED <<network, processes, gen, disturbed, faults, crashes>>

(***************************************************************************)
(* network_delay.                                                          *)
(***************************************************************************)
\* Mutant: tc qdisc replace, which succeeds over a delay that is there.
AddByReplacing(r) ==
  /\ pc[r] = "add"
  /\ netem' = r
  /\ Goto(r, "sleep")
  /\ UNCHANGED <<late, report, faults, processes, world>>

\* tc qdisc add fails when the root qdisc is already a netem.
Add(r) ==
  /\ pc[r] = "add"
  /\ \/ /\ netem = Nobody
        /\ netem' = r
        /\ Goto(r, "sleep")
        /\ UNCHANGED <<late, report, faults>>
     \/ /\ (netem # Nobody /\ UNCHANGED faults) \/ Fault
        /\ Answer(r, "failed")
        /\ UNCHANGED network
     \/ /\ Raise(r)
        /\ \/ netem = Nobody /\ netem' = r /\ UNCHANGED late
           \/ late' = late \cup {<<"add", r>>} /\ UNCHANGED netem
           \/ UNCHANGED network
  /\ UNCHANGED <<processes, world>>

Sleep(r) ==
  /\ pc[r] = "sleep"
  /\ Goto(r, "del")
  /\ UNCHANGED <<network, processes, report, faults, world>>

\* Mutant: a run whose sleep is over reports it and leaves the delay there.
DelForgotten(r) ==
  /\ pc[r] = "del"
  /\ Answer(r, "applied")
  /\ UNCHANGED <<network, processes, faults, world>>

\* The finally clause; the exit code is not looked at.
Del(r) ==
  /\ pc[r] = "del"
  /\ \/ netem' = Nobody /\ Answer(r, "applied") /\ UNCHANGED <<late, faults>>
     \/ Fault /\ Answer(r, "applied") /\ UNCHANGED network
     \/ /\ Raise(r)
        /\ \/ netem' = Nobody /\ UNCHANGED late
           \/ late' = late \cup {<<"del", r>>} /\ UNCHANGED netem
           \/ UNCHANGED network
  /\ UNCHANGED <<processes, world>>

\* A timed out tc command takes effect after all.
TakeEffect(command, r) ==
  /\ <<command, r>> \in late
  /\ late' = late \ {<<command, r>>}
  /\ netem' = IF command = "del" THEN Nobody
              ELSE IF netem = Nobody THEN r ELSE netem
  /\ UNCHANGED <<processes, pc, report, faults, world>>

(***************************************************************************)
(* kill_process_demo.                                                      *)
(***************************************************************************)
\* A process of run r appears in the container.
Spawned(r) ==
  /\ alive' = alive \cup {<<nextPid, r>>}
  /\ nextPid' = nextPid + 1

Spawn(r) ==
  /\ pc[r] = "spawn"
  /\ \/ /\ Spawned(r)
        /\ pid' = [pid EXCEPT ![r] = nextPid]
        /\ bornIn' = [bornIn EXCEPT ![r] = gen]
        /\ Goto(r, "kill")
        /\ UNCHANGED <<report, faults>>
     \/ Fault /\ Answer(r, "failed") /\ UNCHANGED processes
     \/ /\ Raise(r)
        /\ Spawned(r) \/ UNCHANGED <<alive, nextPid>>
        /\ UNCHANGED <<pid, bornIn>>
  /\ UNCHANGED <<network, world>>

\* Mutant: pkill, which kills all the demo's processes.
KilledByName(r) == alive' = {}

\* kill -9 goes by the pid, whosever process has it now.
Killed(r) == alive' = {p \in alive : p[1] # pid[r]}

Kill(r) ==
  /\ pc[r] = "kill"
  /\ \/ Killed(r) /\ Goto(r, "check") /\ UNCHANGED <<report, faults>>
     \/ Fault /\ Goto(r, "check") /\ UNCHANGED <<alive, report>>
     \/ Raise(r) /\ (Killed(r) \/ UNCHANGED alive)
  /\ UNCHANGED <<network, nextPid, pid, bornIn, world>>

\* Mutant: the state that ps prints is not looked at.
CheckNothing(r) ==
  /\ pc[r] = "check"
  /\ Answer(r, "killed")
  /\ UNCHANGED <<network, processes, faults, world>>

\* A zombie counts as killed; an exec that failed printed nothing, which
\* counts as alive.
Check(r) ==
  /\ pc[r] = "check"
  /\ \/ /\ Answer(r, IF \E p \in alive : p[1] = pid[r] THEN "survived" ELSE "killed")
        /\ UNCHANGED faults
     \/ Fault /\ Answer(r, "survived")
     \/ Raise(r)
  /\ UNCHANGED <<network, processes, world>>

(***************************************************************************)
(* cpu_stress, memory_stress ("load") and disk_stress ("disk").            *)
(***************************************************************************)
\* stress-ng is started, and "load" does not wait for it; before that the
\* CPU stress asks for nproc.  A docker exec that cannot reach the container
\* ends at once, with no process.
Launch(r) ==
  /\ pc[r] \in {"launch", "write"}
  /\ \/ /\ \/ /\ Spawned(r)
              /\ pid' = [pid EXCEPT ![r] = nextPid]
              /\ UNCHANGED faults
           \/ /\ Fault
              /\ pid' = [pid EXCEPT ![r] = 0]
              /\ UNCHANGED <<alive, nextPid>>
        /\ bornIn' = [bornIn EXCEPT ![r] = gen]
        /\ Goto(r, IF pc[r] = "launch" THEN "sample" ELSE "wait")
        /\ UNCHANGED report
     \/ Raise(r) /\ UNCHANGED processes
  /\ UNCHANGED <<network, world>>

Stressing(r) == <<pid[r], r>> \in alive /\ bornIn[r] = gen

\* A reading of /proc; the loop goes on until the process has ended or the
\* time is up.
Sample(r) ==
  /\ pc[r] = "sample"
  /\ \/ Goto(r, "wait") /\ UNCHANGED <<report, faults>>
     \/ Raise(r)
  /\ UNCHANGED <<network, processes, world>>

\* proc.wait, or the end of subprocess.run: with a timeout either way.
Wait(r) ==
  /\ pc[r] = "wait"
  /\ \/ ~ Stressing(r) /\ Answer(r, "measured") /\ UNCHANGED faults
     \/ Raise(r)
  /\ UNCHANGED <<network, processes, world>>

\* sleep 120 and stress-ng --timeout end by themselves.
Expire(p) ==
  /\ p \in alive
  /\ alive' = alive \ {p}
  /\ UNCHANGED <<network, nextPid, pid, bornIn, pc, report, faults, world>>

(***************************************************************************)
(* The world around the runs.                                              *)
(***************************************************************************)
\* ensure_container removes the container with all that is in it, and makes
\* another one.
Recreate ==
  /\ gen <= MaxRecreations
  /\ gen' = gen + 1
  /\ netem' = Nobody
  /\ alive' = {}
  /\ nextPid' = 1
  /\ late' = {}
  /\ disturbed' = (disturbed \/ \E r \in Runs : pc[r] \in Delaying)
  /\ UNCHANGED <<pid, pc, bornIn, report, begun, faults, crashes>>

\* The backend ends and its agents' daemon threads with it, finally or not.
Crash ==
  /\ crashes < MaxCrashes
  /\ crashes' = crashes + 1
  /\ pc' = [r \in Runs |-> IF pc[r] \in Steps THEN "dead" ELSE pc[r]]
  /\ UNCHANGED <<network, processes, gen, disturbed, report, begun, faults>>

RunStep(r) ==
  \/ Add(r) \/ Sleep(r) \/ Del(r)
  \/ Spawn(r) \/ Kill(r) \/ Check(r)
  \/ Launch(r) \/ Sample(r) \/ Wait(r)

Next ==
  \/ Recreate \/ Crash
  \/ \E p \in alive : Expire(p)
  \/ \E r \in Runs :
       \/ RunStep(r)
       \/ \E action \in Actions : Begin(r, action)
       \/ \E command \in {"add", "del"} : TakeEffect(command, r)

Spec == Init /\ [][Next]_vars

\* The agents' threads run, and processes with a timeout of their own end.
FairSpec ==
  /\ Spec
  /\ \A r \in Runs : WF_vars(RunStep(r))
  /\ WF_vars(\E p \in alive : Expire(p))

(***************************************************************************)
(* Properties.                                                             *)
(***************************************************************************)
TypeOK ==
  /\ netem \in Runs \cup {Nobody}
  /\ alive \subseteq Nat \X Runs
  /\ nextPid \in Nat
  /\ gen \in Nat
  /\ late \subseteq {"add", "del"} \X Runs
  /\ pc \in [Runs -> Steps \cup Ended]
  /\ pid \in [Runs -> Nat]
  /\ bornIn \in [Runs -> Nat]
  /\ disturbed \in BOOLEAN
  /\ report \in [Runs -> {"none", "failed", "applied", "killed", "survived", "measured"}]
  /\ begun \in Nat
  /\ faults \in Nat
  /\ crashes \in Nat

\* tc's refusal of a second netem keeps the runs apart: from its add to its
\* del a run has its own delay in place, whatever the others do, whatever
\* fails, takes effect late or crashes.  The one exception: a run whose
\* container was recreated removes the delay of another in the new container.
DelayKept ==
  ~ disturbed => \A r \in Runs : pc[r] \in Delaying => netem = r

\* chaos_agent.py:153-154, on the finally clause: "always remove, even if
\* something above raised -- never leave the container's network permanently
\* degraded".  The add is above the try, and the del may raise as well.
AlwaysRemoved ==
  \A r \in Runs : pc[r] = "dead" /\ crashes = 0 => netem # r

\* Without failed execs and crashes the promise is kept: a delay on the device
\* is the delay of a run that is going to remove it ...
DelayHasOwner ==
  faults = 0 /\ crashes = 0 /\ netem # Nobody => pc[netem] \in Delaying

\* ... and does, however the runs, and a recreation of the container, come
\* together.
DelayEnds == netem # Nobody ~> netem = Nobody \/ faults > 0 \/ crashes > 0

\* kill -9 never hits the process of another run, unless the container was
\* recreated between spawn and kill and gave the pid to somebody else.
KillsOwnOnly ==
  [][\A r \in Runs : Kill(r) /\ bornIn[r] = gen
       => \A p \in alive \ alive' : p[2] = r]_vars

\* A result that says the process was killed, or that the stress was measured,
\* comes when the process of that run is gone.
GoneWhenReported ==
  \A r \in Runs :
    report[r] \in {"killed", "measured"} /\ bornIn[r] = gen => <<pid[r], r>> \notin alive
=============================================================================
