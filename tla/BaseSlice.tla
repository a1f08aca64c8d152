----------------------------- MODULE BaseSlice -----------------------------
(***************************************************************************)
(* The scheduler-optimization experiment                                   *)
(* (experiments_agent.scheduler_optimization_test) and the one piece of    *)
(* state it changes: the kernel's base_slice_ns, read and written through  *)
(* the lab container's debugfs but global to the machine.  A run reads the *)
(* knob, measures, writes a third of what it read, measures again and      *)
(* writes back what it read.  Every run is an agent thread of its own      *)
(* WebSocket session; nothing keeps two runs apart.                        *)
(*                                                                         *)
(* A docker exec that runs into its timeout kills the docker client only:  *)
(* the agent gets an exception, and the command in the container may have  *)
(* written the knob, may do so later, whatever runs then, or never.        *)
(*                                                                         *)
(* The knob outlives the container and the backend; a run outlives         *)
(* neither.                                                                *)
(***************************************************************************)
EXTENDS Integers

CONSTANTS
  Sessions,     \* WebSocket sessions: each has at most one run at a time
  Default,      \* base_slice_ns as the machine booted
  TimesOut,     \* steps whose docker exec may run into its timeout
  MaxRuns,      \* bound: runs begun
  MaxOutages,   \* bound: times the container becomes unusable
  MaxCrashes    \* bound: times the backend process ends

ASSUME DefaultAssumption == Default \in Nat
ASSUME BoundAssumption == MaxRuns \in Nat /\ MaxOutages \in Nat /\ MaxCrashes \in Nat

VARIABLES
  slice,      \* base_slice_ns
  late,       \* how many timed out writes of each value may still be done
  usable,     \* docker exec reaches a container with debugfs
  pc,         \* the step each session's run is at
  original,   \* what the run read
  raising,    \* the run's try block was left by an exception
  ranAt,      \* history: the knob at the run's "after" measurement, or None
  begun,      \* runs begun so far
  disturbed,  \* history: during the session's run another was at work, a late
              \* write was done or the container could not be reached
  tainted,    \* history: some run read a knob that was not Default
  astray,     \* history: some write was done late, or a restoring one was lost
  outages,    \* times the container became unusable
  crashes     \* times the backend ended

vars == <<slice, late, usable, pc, original, raising, ranAt, begun, disturbed,
          tainted, astray, outages, crashes>>
history == <<ranAt, begun, disturbed, tainted, astray>>
world == <<usable, outages, crashes>>

None == -1

\* Mutant: a ninth instead of a third.
ReducedTwice(value) == value \div 9

Reduced(value) == value \div 3

Steps == {"compile", "read", "before", "write", "after", "restore"}
Ended == {"result", "error", "dead", "killed"}   \* and may begin another run

NoneLate == [v \in 0..Default |-> 0]

Init ==
  /\ slice = Default
  /\ late = NoneLate
  /\ usable = TRUE
  /\ pc = [r \in Sessions |-> "idle"]
  /\ original = [r \in Sessions |-> 0]
  /\ raising = [r \in Sessions |-> FALSE]
  /\ ranAt = [r \in Sessions |-> None]
  /\ begun = 0
  /\ disturbed = [r \in Sessions |-> FALSE]
  /\ tainted = FALSE
  /\ astray = FALSE
  /\ outages = 0
  /\ crashes = 0

Goto(r, step) == pc' = [pc EXCEPT ![r] = step]

\* The docker exec of the step session r is at runs into its timeout.
TimeOut(r) == pc[r] \in TimesOut

AtWork(r) == pc[r] \in Steps

\* Runs that may have the knob reduced.
Reducing == {r \in Sessions : pc[r] \in {"after", "restore"}}

\* What happens now concerns every run at work.
DisturbAll == disturbed' = [s \in Sessions |-> disturbed[s] \/ AtWork(s)]

(***************************************************************************)
(* The steps of the run of session r.                                      *)
(***************************************************************************)
Begin(r) ==
  /\ pc[r] \in Ended \cup {"idle"}
  /\ begun < MaxRuns
  /\ begun' = begun + 1
  /\ Goto(r, "compile")
  /\ raising' = [raising EXCEPT ![r] = FALSE]
  /\ ranAt' = [ranAt EXCEPT ![r] = None]
  /\ disturbed' = [s \in Sessions |->
                     IF s = r THEN ~ usable \/ \E t \in Sessions \ {r} : AtWork(t)
                              ELSE disturbed[s] \/ AtWork(s)]
  /\ UNCHANGED <<slice, late, original, tainted, astray, world>>

\* gcc in the container; a failure is reported as an "error" event.
Compile(r) ==
  /\ pc[r] = "compile"
  /\ \/ Goto(r, IF usable THEN "read" ELSE "error")
     \/ TimeOut(r) /\ Goto(r, "dead")
  /\ UNCHANGED <<slice, late, original, raising, history, world>>

\* int("") raises when cat printed nothing; the try block is not entered yet.
Read(r) ==
  /\ pc[r] = "read"
  /\ \/ /\ usable
        /\ Goto(r, "before")
        /\ original' = [original EXCEPT ![r] = slice]
        /\ tainted' = (tainted \/ slice # Default)
     \/ /\ ~ usable \/ TimeOut(r)
        /\ Goto(r, "dead")
        /\ UNCHANGED <<original, tainted>>
  /\ UNCHANGED <<slice, late, raising, ranAt, begun, disturbed, astray, world>>

\* Mutant: except instead of finally, for another exception.
RaisePastFinally(r) ==
  /\ TimeOut(r)
  /\ Goto(r, "dead")
  /\ raising' = [raising EXCEPT ![r] = TRUE]

\* From here on an exception goes through the finally clause.
Raise(r) ==
  /\ TimeOut(r)
  /\ Goto(r, "restore")
  /\ raising' = [raising EXCEPT ![r] = TRUE]

\* Mutant: the "after" measurement comes before the write.
BeforeSkipsWrite(r) ==
  /\ pc[r] = "before"
  /\ \/ Goto(r, "after") /\ UNCHANGED raising
     \/ Raise(r)
  /\ UNCHANGED <<slice, late, original, history, world>>

Before(r) ==
  /\ pc[r] = "before"
  /\ \/ Goto(r, "write") /\ UNCHANGED raising
     \/ Raise(r)
  /\ UNCHANGED <<slice, late, original, history, world>>

\* Writing the knob: the exit code is ignored, so that an exec that cannot
\* reach the container writes nothing and says nothing.
Put(value) == slice' = (IF usable THEN value ELSE slice) /\ UNCHANGED late

\* The exec ran into its timeout: the write is done at once, later or never.
PutSometime(value) ==
  \/ Put(value)
  \/ UNCHANGED <<slice, late>>
  \/ usable /\ late' = [late EXCEPT ![value] = @ + 1] /\ UNCHANGED slice

Write(r) ==
  /\ pc[r] = "write"
  /\ \/ Put(Reduced(original[r])) /\ Goto(r, "after") /\ UNCHANGED raising
     \/ PutSometime(Reduced(original[r])) /\ Raise(r)
  /\ UNCHANGED <<original, history, world>>

After(r) ==
  /\ pc[r] = "after"
  /\ \/ /\ Goto(r, "restore")
        /\ ranAt' = [ranAt EXCEPT ![r] = slice]
        /\ UNCHANGED raising
     \/ Raise(r) /\ UNCHANGED ranAt
  /\ UNCHANGED <<slice, late, original, begun, disturbed, tainted, astray, world>>

\* The finally clause.
Restore(r) ==
  /\ pc[r] = "restore"
  /\ \/ /\ Put(original[r])
        /\ Goto(r, IF raising[r] THEN "dead" ELSE "result")
        /\ astray' = (astray \/ ~ usable)
     \/ /\ TimeOut(r)
        /\ PutSometime(original[r])
        /\ Goto(r, "dead")
        /\ astray' = TRUE
  /\ UNCHANGED <<original, raising, ranAt, begun, disturbed, tainted, world>>

RunStep(r) ==
  Compile(r) \/ Read(r) \/ Before(r) \/ Write(r) \/ After(r) \/ Restore(r)

(***************************************************************************)
(* The world around the runs.                                              *)
(***************************************************************************)
\* A timed out write of the knob is done after all, whether its run still lasts,
\* another one has begun or the backend has ended.
LateWrite(v) ==
  /\ late[v] > 0
  /\ slice' = v
  /\ late' = [late EXCEPT ![v] = @ - 1]
  /\ astray' = TRUE
  /\ DisturbAll
  /\ UNCHANGED <<pc, original, raising, ranAt, begun, tainted, world>>

\* The container is stopped, or removed by a call of ensure_container, and what
\* was still to run in it with it.
Outage ==
  /\ usable
  /\ outages < MaxOutages
  /\ usable' = FALSE
  /\ outages' = outages + 1
  /\ late' = NoneLate
  /\ DisturbAll
  /\ UNCHANGED <<slice, pc, original, raising, ranAt, begun, tainted, astray, crashes>>

\* It has been recreated and its debugfs mounted.
Recover ==
  /\ ~ usable
  /\ usable' = TRUE
  /\ UNCHANGED <<slice, late, pc, original, raising, history, outages, crashes>>

\* The backend ends: its agents are daemon threads, which die where they are,
\* their finally clauses with them.
Crash ==
  /\ crashes < MaxCrashes
  /\ crashes' = crashes + 1
  /\ pc' = [r \in Sessions |-> IF AtWork(r) THEN "killed" ELSE pc[r]]
  /\ astray' = (astray \/ Reducing # {})
  /\ UNCHANGED <<slice, late, usable, original, raising, ranAt, begun, disturbed,
                 tainted, outages>>

Next ==
  \/ Outage \/ Recover \/ Crash
  \/ \E v \in 0..Default : LateWrite(v)
  \/ \E r \in Sessions : Begin(r) \/ RunStep(r)

Spec == Init /\ [][Next]_vars

(***************************************************************************)
(* Properties.                                                             *)
(***************************************************************************)
TypeOK ==
  /\ slice \in Nat
  /\ late \in [0..Default -> Nat]
  /\ usable \in BOOLEAN
  /\ pc \in [Sessions -> Steps \cup Ended \cup {"idle"}]
  /\ original \in [Sessions -> Nat]
  /\ raising \in [Sessions -> BOOLEAN]
  /\ ranAt \in [Sessions -> Nat \cup {None}]
  /\ begun \in Nat
  /\ disturbed \in [Sessions -> BOOLEAN]
  /\ tainted \in BOOLEAN
  /\ astray \in BOOLEAN
  /\ outages \in Nat
  /\ crashes \in Nat

\* experiments_agent.py:67, on the finally clause: "always restore -- never
\* leave the sandbox's live kernel mutated".  When no run is at work the knob
\* is what it was at boot.
AlwaysRestored == (\A r \in Sessions : ~ AtWork(r)) => slice = Default

\* What it takes to lose the knob: a run that read it while it was reduced, a
\* timed out write that is done late, or a restoring write that was lost (it
\* timed out, it could not reach the container, or the backend ended before
\* it).  As long as none of these happened, whatever else overlaps, times out,
\* stops or ends, the knob is off its default only during a run that is going
\* to restore it.
LostOnlyByTaintedRead ==
  ~ tainted /\ ~ astray /\ slice # Default => Reducing # {}

\* experiments_agent.py:80-81, the note of the result: "base_slice_ns
\* temporarily reduced {original} -> {reduced} on this container's live kernel
\* for the 'after' run".  A run during which no other run was at work, no late
\* write was done and the container stayed usable measured "after" under the
\* knob its note names, whatever earlier runs, outages and crashes had left
\* there and whatever of theirs may still be done after it.
MeasuredReduced ==
  \A r \in Sessions :
    pc[r] = "result" /\ ~ disturbed[r] => ranAt[r] = Reduced(original[r])

\* Whatever overlaps, stops or crashes, the knob never exceeds its default,
\* and neither does what a run is going to restore.
NeverAboveDefault ==
  slice <= Default /\ \A r \in Sessions : original[r] <= Default

Pow3[n \in Nat] == IF n = 0 THEN 1 ELSE 3 * Pow3[n - 1]

\* Each run costs at most one factor of three, even if it dies half way, and
\* none adds anything.
DriftBounded == NeverAboveDefault /\ (slice + 1) * Pow3[begun] > Default
=============================================================================
