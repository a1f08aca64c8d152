--------------------------- MODULE ChaosLabProofs ---------------------------
(***************************************************************************)
(* Proofs about ChaosLab, for any sessions and any bounds.                 *)
(***************************************************************************)
EXTENDS ChaosLab, TLAPS

(***************************************************************************)
(* Types.                                                                  *)
(***************************************************************************)
Reports == {"none", "failed", "applied", "killed", "survived", "measured"}

\* A run's step goes to a step or an end; it reports, and counts a fault.
LEMMA MovesTyped ==
  ASSUME TypeOK, NEW r \in Runs, NEW step \in Steps \cup Ended, NEW what \in Reports
  PROVE  /\ Goto(r, step) => pc' \in [Runs -> Steps \cup Ended]
         /\ Answer(r, what) => /\ pc' \in [Runs -> Steps \cup Ended]
                               /\ report' \in [Runs -> Reports]
         /\ Fault => faults' \in Nat
         /\ Raise(r) => /\ pc' \in [Runs -> Steps \cup Ended]
                        /\ report' \in [Runs -> Reports]
                        /\ faults' \in Nat
BY DEF TypeOK, Goto, Answer, Fault, Raise, Steps, Ended, Reports

LEMMA SpawnedTyped ==
  ASSUME TypeOK, NEW r \in Runs, Spawned(r)
  PROVE  alive' \subseteq Nat \X Runs /\ nextPid' \in Nat
BY DEF TypeOK, Spawned

LEMMA BeginTyped ==
  ASSUME TypeOK, NEW r \in Runs, NEW action \in Actions, Begin(r, action)
  PROVE  TypeOK'
<1>1. FirstStep[action] \in Steps \cup Ended
  BY ActionsAssumption DEF FirstStep, Steps
<1>2. pc' \in [Runs -> Steps \cup Ended]
  BY <1>1, MovesTyped DEF Begin, Reports
<1>3. report' \in [Runs -> Reports] /\ begun' \in Nat
  BY DEF TypeOK, Begin, Reports
<1>4. UNCHANGED <<network, processes, gen, disturbed, faults, crashes>>
  BY DEF Begin
<1> QED
  BY <1>2, <1>3, <1>4 DEF TypeOK, network, processes, Reports

LEMMA NetworkTyped ==
  ASSUME TypeOK, NEW r \in Runs, Add(r) \/ Sleep(r) \/ Del(r)
  PROVE  TypeOK'
<1>1. /\ netem' \in Runs \cup {Nobody}
      /\ late' \subseteq {"add", "del"} \X Runs
  BY DEF TypeOK, Add, Sleep, Del, network
<1>2. /\ pc' \in [Runs -> Steps \cup Ended]
      /\ report' \in [Runs -> Reports]
      /\ faults' \in Nat
  <2>1. CASE Add(r)
    BY <2>1, MovesTyped DEF TypeOK, Add, Steps, Ended, Reports
  <2>2. CASE Sleep(r)
    BY <2>2, MovesTyped DEF TypeOK, Sleep, Steps, Ended, Reports
  <2>3. CASE Del(r)
    BY <2>3, MovesTyped DEF TypeOK, Del, Steps, Ended, Reports
  <2> QED
    BY <2>1, <2>2, <2>3
<1>3. UNCHANGED <<processes, world>>
  BY DEF Add, Sleep, Del
<1> QED
  BY <1>1, <1>2, <1>3 DEF TypeOK, processes, world, Reports

LEMMA KillTyped ==
  ASSUME TypeOK, NEW r \in Runs, Spawn(r) \/ Kill(r) \/ Check(r)
  PROVE  TypeOK'
<1>1. /\ alive' \subseteq Nat \X Runs
      /\ nextPid' \in Nat
      /\ pid' \in [Runs -> Nat]
      /\ bornIn' \in [Runs -> Nat]
  <2>1. CASE Spawn(r)
    BY <2>1, SpawnedTyped DEF TypeOK, Spawn, processes
  <2>2. CASE Kill(r)
    BY <2>2 DEF TypeOK, Kill, Killed
  <2>3. CASE Check(r)
    BY <2>3 DEF TypeOK, Check, processes
  <2> QED
    BY <2>1, <2>2, <2>3
<1>2. /\ pc' \in [Runs -> Steps \cup Ended]
      /\ report' \in [Runs -> Reports]
      /\ faults' \in Nat
  <2>1. CASE Spawn(r)
    BY <2>1, MovesTyped DEF TypeOK, Spawn, Steps, Ended, Reports
  <2>2. CASE Kill(r)
    BY <2>2, MovesTyped DEF TypeOK, Kill, Steps, Ended, Reports
  <2>3. CASE Check(r)
    BY <2>3, MovesTyped DEF TypeOK, Check, Steps, Ended, Reports
  <2> QED
    BY <2>1, <2>2, <2>3
<1>3. UNCHANGED <<network, world>>
  BY DEF Spawn, Kill, Check
<1> QED
  BY <1>1, <1>2, <1>3 DEF TypeOK, network, world, Reports

LEMMA StressTyped ==
  ASSUME TypeOK, NEW r \in Runs, Launch(r) \/ Sample(r) \/ Wait(r)
  PROVE  TypeOK'
<1>1. /\ alive' \subseteq Nat \X Runs
      /\ nextPid' \in Nat
      /\ pid' \in [Runs -> Nat]
      /\ bornIn' \in [Runs -> Nat]
  <2>1. CASE Launch(r)
    BY <2>1, SpawnedTyped DEF TypeOK, Launch, processes
  <2>2. CASE Sample(r) \/ Wait(r)
    BY <2>2 DEF TypeOK, Sample, Wait, processes
  <2> QED
    BY <2>1, <2>2
<1>2. /\ pc' \in [Runs -> Steps \cup Ended]
      /\ report' \in [Runs -> Reports]
      /\ faults' \in Nat
  <2>1. CASE Launch(r)
    BY <2>1, MovesTyped DEF TypeOK, Launch, Steps, Ended, Reports
  <2>2. CASE Sample(r)
    BY <2>2, MovesTyped DEF TypeOK, Sample, Steps, Ended, Reports
  <2>3. CASE Wait(r)
    BY <2>3, MovesTyped DEF TypeOK, Wait, Steps, Ended, Reports
  <2> QED
    BY <2>1, <2>2, <2>3
<1>3. UNCHANGED <<network, world>>
  BY DEF Launch, Sample, Wait
<1> QED
  BY <1>1, <1>2, <1>3 DEF TypeOK, network, world, Reports

LEMMA WorldTyped ==
  ASSUME TypeOK
  PROVE  /\ Recreate \/ Crash => TypeOK'
         /\ \A p \in alive : Expire(p) => TypeOK'
         /\ \A r \in Runs : \A command \in {"add", "del"} :
              TakeEffect(command, r) => TypeOK'
<1>1. Recreate => TypeOK'
  BY DEF TypeOK, Recreate
<1>2. Crash => TypeOK'
  BY DEF TypeOK, Crash, network, processes, Ended
<1>3. ASSUME NEW p \in alive, Expire(p)
      PROVE  TypeOK'
  BY <1>3 DEF TypeOK, Expire, network, world
<1>4. ASSUME NEW r \in Runs, NEW command \in {"add", "del"}, TakeEffect(command, r)
      PROVE  TypeOK'
  BY <1>4 DEF TypeOK, TakeEffect, processes, world
<1> QED
  BY <1>1, <1>2, <1>3, <1>4

LEMMA TypeStep == TypeOK /\ [Next]_vars => TypeOK'
<1> SUFFICES ASSUME TypeOK, [Next]_vars
             PROVE  TypeOK'
  OBVIOUS
<1>1. CASE UNCHANGED vars
  BY <1>1 DEF TypeOK, vars
<1>2. CASE Next
  BY <1>2, BeginTyped, NetworkTyped, KillTyped, StressTyped, WorldTyped DEF Next, RunStep
<1> QED
  BY <1>1, <1>2

\* Every reachable state has the declared types, whatever the runs do.
THEOREM TypeCorrect == Spec => []TypeOK
<1>1. ASSUME Init
      PROVE  TypeOK
  <2>1. /\ nextPid \in Nat /\ gen \in Nat /\ begun \in Nat
        /\ faults \in Nat /\ crashes \in Nat /\ pid \in [Runs -> Nat]
        /\ bornIn \in [Runs -> Nat]
    BY <1>1 DEF Init
  <2>2. pc \in [Runs -> Steps \cup Ended] /\ report \in [Runs -> Reports]
    BY <1>1 DEF Init, Ended, Reports
  <2>3. /\ netem \in Runs \cup {Nobody} /\ disturbed \in BOOLEAN
        /\ alive \subseteq Nat \X Runs /\ late \subseteq {"add", "del"} \X Runs
    BY <1>1 DEF Init
  <2> QED
    BY <2>1, <2>2, <2>3 DEF TypeOK, Reports
<1> QED
  BY <1>1, TypeStep, PTL DEF Spec

(***************************************************************************)
(* The network delay.  A run that delays owns the netem, and so does a del *)
(* that may still take effect -- whose run does not delay any more.        *)
(***************************************************************************)
DelayInv ==
  ~ disturbed =>
    /\ \A r \in Runs : pc[r] \in Delaying => netem = r
    /\ \A q \in Runs : <<"del", q>> \in late => netem = q /\ pc[q] \notin Delaying

\* What leaves the network alone and brings no run to its sleep keeps it.
LEMMA UntouchedDelay ==
  ASSUME DelayInv, UNCHANGED <<netem, late, disturbed>>,
         \A q \in Runs : pc'[q] \in Delaying => pc[q] \in Delaying
  PROVE  DelayInv'
BY DEF DelayInv

LEMMA QuietSteps ==
  ASSUME TypeOK, NEW r \in Runs,
         \/ Sleep(r) \/ Spawn(r) \/ Kill(r) \/ Check(r)
         \/ Launch(r) \/ Sample(r) \/ Wait(r)
         \/ \E action \in Actions : Begin(r, action)
  PROVE  /\ UNCHANGED <<netem, late, disturbed>>
         /\ \A q \in Runs : pc'[q] \in Delaying => pc[q] \in Delaying
<1>1. UNCHANGED <<netem, late, disturbed>>
  BY DEF Sleep, Spawn, Kill, Check, Launch, Sample, Wait, Begin, network, world
<1>2. \A q \in Runs : q # r => pc'[q] = pc[q]
  BY DEF TypeOK, Sleep, Spawn, Kill, Check, Launch, Sample, Wait, Begin, Goto, Answer,
         Raise
<1>3. pc'[r] \in Delaying => pc[r] \in Delaying
  <2>1. CASE Sleep(r)
    BY <2>1 DEF Sleep, Delaying
  <2>2. CASE Spawn(r) \/ Kill(r) \/ Check(r)
    BY <2>2 DEF TypeOK, Spawn, Kill, Check, Goto, Answer, Raise, Delaying
  <2>3. CASE Launch(r) \/ Sample(r) \/ Wait(r)
    BY <2>3 DEF TypeOK, Launch, Sample, Wait, Goto, Answer, Raise, Delaying
  <2>4. CASE \E action \in Actions : Begin(r, action)
    BY <2>4, ActionsAssumption DEF TypeOK, Begin, Goto, FirstStep, Delaying
  <2> QED
    BY <2>1, <2>2, <2>3, <2>4
<1> QED
  BY <1>1, <1>2, <1>3

LEMMA AddKeepsDelay ==
  ASSUME TypeOK, DelayInv, NEW r \in Runs, Add(r)
  PROVE  DelayInv'
<1>1. disturbed' = disturbed
  BY DEF Add, world
<1>2. pc[r] \notin Delaying /\ \A q \in Runs : q # r => pc'[q] = pc[q]
  BY DEF TypeOK, Add, Goto, Answer, Raise, Delaying
<1>3. CASE UNCHANGED netem
  <2>1. pc'[r] \notin Delaying
    BY <1>3, NobodyAssumption DEF TypeOK, Add, Goto, Answer, Raise, Delaying
  <2>2. \A q \in Runs : <<"del", q>> \in late' => <<"del", q>> \in late
    BY DEF Add, network
  <2> QED
    BY <1>1, <1>2, <1>3, <2>1, <2>2 DEF DelayInv
<1>4. CASE netem = Nobody /\ netem' = r
  <2>1. late' = late
    BY <1>4, NobodyAssumption DEF Add, network
  <2>2. ~ disturbed => /\ \A q \in Runs : pc[q] \notin Delaying
                       /\ \A q \in Runs : <<"del", q>> \notin late
    BY <1>4, NobodyAssumption DEF DelayInv
  <2> QED
    BY <1>1, <1>2, <1>4, <2>1, <2>2 DEF DelayInv
<1> QED
  BY <1>3, <1>4 DEF Add, network

LEMMA DelKeepsDelay ==
  ASSUME TypeOK, DelayInv, NEW r \in Runs, Del(r)
  PROVE  DelayInv'
<1>1. disturbed' = disturbed
  BY DEF Del, world
<1>2. /\ pc[r] \in Delaying /\ pc'[r] \notin Delaying
      /\ \A q \in Runs : q # r => pc'[q] = pc[q]
  BY DEF TypeOK, Del, Goto, Answer, Raise, Delaying
<1>3. /\ netem' = netem \/ netem' = Nobody
      /\ \A q \in Runs : <<"del", q>> \in late' => <<"del", q>> \in late \/ q = r
      /\ late' # late => netem' = netem
  BY DEF Del, network
<1>4. ~ disturbed => /\ netem = r
                     /\ \A q \in Runs : q # r => pc[q] \notin Delaying
                     /\ \A q \in Runs : <<"del", q>> \notin late
  BY <1>2 DEF DelayInv
<1>5. ~ disturbed => /\ \A q \in Runs : pc'[q] \notin Delaying
                     /\ \A q \in Runs : <<"del", q>> \in late' => netem' = q
  BY <1>2, <1>3, <1>4
<1> QED
  BY <1>1, <1>5 DEF DelayInv

LEMMA EffectKeepsDelay ==
  ASSUME TypeOK, DelayInv, NEW r \in Runs, NEW command \in {"add", "del"},
         TakeEffect(command, r)
  PROVE  DelayInv'
<1>1. /\ UNCHANGED <<pc, disturbed>>
      /\ late' = late \ {<<command, r>>} /\ <<command, r>> \in late
  BY DEF TakeEffect, world
<1>2. CASE command = "del"
  <2>1. netem' = Nobody
    BY <1>2 DEF TakeEffect
  <2>2. ~ disturbed => /\ \A q \in Runs : pc[q] \notin Delaying
                       /\ \A q \in Runs : <<"del", q>> \in late => q = r
    BY <1>1, <1>2 DEF DelayInv
  <2>3. \A q \in Runs : <<"del", q>> \in late' => <<"del", q>> \in late /\ q # r
    BY <1>1, <1>2
  <2> QED
    BY <1>1, <2>1, <2>2, <2>3 DEF DelayInv
<1>3. CASE command = "add"
  <2>1. netem' = netem \/ netem = Nobody
    BY <1>3 DEF TakeEffect
  <2>2. CASE netem = Nobody
    <3>1. ~ disturbed => /\ \A q \in Runs : pc[q] \notin Delaying
                         /\ \A q \in Runs : <<"del", q>> \notin late
      BY <2>2, NobodyAssumption DEF DelayInv
    <3> QED
      BY <1>1, <3>1 DEF DelayInv
  <2>3. CASE netem' = netem
    BY <1>1, <2>3 DEF DelayInv
  <2> QED
    BY <2>1, <2>2, <2>3
<1> QED
  BY <1>2, <1>3

LEMMA DelayStep == TypeOK /\ DelayInv /\ [Next]_vars => DelayInv'
<1> SUFFICES ASSUME TypeOK, DelayInv, [Next]_vars
             PROVE  DelayInv'
  OBVIOUS
<1>1. CASE UNCHANGED vars
  BY <1>1 DEF DelayInv, vars
<1>2. CASE Recreate
  BY <1>2 DEF Recreate, DelayInv
<1>3. CASE Crash
  <2>1. UNCHANGED <<netem, late, disturbed>>
    BY <1>3 DEF Crash, network
  <2>2. \A q \in Runs : pc'[q] \in Delaying => pc[q] \in Delaying
    BY <1>3 DEF Crash, Delaying
  <2> QED
    BY <2>1, <2>2, UntouchedDelay
<1>4. ASSUME NEW p \in alive, Expire(p)
      PROVE  DelayInv'
  BY <1>4 DEF Expire, DelayInv, network, world
<1>5. ASSUME NEW r \in Runs, RunStep(r)
      PROVE  DelayInv'
  <2>1. CASE Add(r)
    BY <2>1, AddKeepsDelay
  <2>2. CASE Del(r)
    BY <2>2, DelKeepsDelay
  <2> QED
    BY <1>5, <2>1, <2>2, QuietSteps, UntouchedDelay DEF RunStep
<1>6. ASSUME NEW r \in Runs, NEW action \in Actions, Begin(r, action)
      PROVE  DelayInv'
  BY <1>6, QuietSteps, UntouchedDelay
<1>7. ASSUME NEW r \in Runs, NEW command \in {"add", "del"}, TakeEffect(command, r)
      PROVE  DelayInv'
  BY <1>7, EffectKeepsDelay
<1> QED
  BY <1>1, <1>2, <1>3, <1>4, <1>5, <1>6, <1>7 DEF Next

\* A run has its own delay in place from its add to its del, in any number of
\* overlapping runs, with any faults, late effects and crashes, unless the
\* container was recreated under one of them.
THEOREM OwnDelay == Spec => []DelayKept
<1>1. Init => DelayInv
  BY DEF Init, DelayInv, Delaying
<1>2. DelayInv => DelayKept
  BY DEF DelayInv, DelayKept
<1> QED
  BY <1>1, <1>2, DelayStep, TypeCorrect, PTL DEF Spec

(***************************************************************************)
(* Who removes the delay.  Until an exec fails or the backend ends, no     *)
(* command takes effect late and the netem is that of a run still delaying. *)
(***************************************************************************)
OwnerInv ==
  faults = 0 /\ crashes = 0 =>
    late = {} /\ (netem # Nobody => pc[netem] \in Delaying)

LEMMA RunKeepsOwner ==
  ASSUME TypeOK, OwnerInv, NEW r \in Runs, RunStep(r)
  PROVE  OwnerInv'
<1> SUFFICES ASSUME faults' = 0, crashes' = 0
             PROVE  late' = {} /\ (netem' # Nobody => pc'[netem'] \in Delaying)
  BY DEF OwnerInv
<1>1. crashes = 0
  BY DEF RunStep, Add, Sleep, Del, Spawn, Kill, Check, Launch, Sample, Wait, world
<1>2. ~ Fault
  BY DEF TypeOK, Fault
<1>3. faults' = faults
  BY <1>2 DEF RunStep, Add, Sleep, Del, Spawn, Kill, Check, Launch, Sample, Wait, Raise
<1>4. late = {} /\ (netem # Nobody => netem \in Runs /\ pc[netem] \in Delaying)
  BY <1>1, <1>3 DEF OwnerInv, TypeOK
<1>5. CASE Add(r)
  <2>1. CASE netem = Nobody /\ netem' = r /\ Goto(r, "sleep") /\ UNCHANGED late
    BY <2>1, <1>4 DEF TypeOK, Goto, Delaying
  <2>2. CASE netem # Nobody /\ Answer(r, "failed") /\ UNCHANGED network
    BY <2>2, <1>4, <1>5 DEF TypeOK, Add, Answer, Goto, network, Delaying
  <2> QED
    BY <1>5, <1>2, <2>1, <2>2 DEF Add, Raise
<1>6. CASE Del(r)
  BY <1>6, <1>2, <1>4 DEF Del, Raise
<1>7. CASE Sleep(r)
  BY <1>7, <1>4 DEF TypeOK, Sleep, Goto, network, Delaying
<1>8. ASSUME Spawn(r) \/ Kill(r) \/ Check(r) \/ Launch(r) \/ Sample(r) \/ Wait(r)
      PROVE  late' = {} /\ (netem' # Nobody => pc'[netem'] \in Delaying)
  <2>1. UNCHANGED network /\ pc[r] \notin Delaying
    BY <1>8 DEF Spawn, Kill, Check, Launch, Sample, Wait, Delaying
  <2>2. \A q \in Runs : q # r => pc'[q] = pc[q]
    BY <1>8 DEF TypeOK, Spawn, Kill, Check, Launch, Sample, Wait, Goto, Answer, Raise
  <2> QED
    BY <2>1, <2>2, <1>4 DEF network
<1> QED
  BY <1>5, <1>6, <1>7, <1>8 DEF RunStep

LEMMA OwnerStep == TypeOK /\ OwnerInv /\ [Next]_vars => OwnerInv'
<1> SUFFICES ASSUME TypeOK, OwnerInv, [Next]_vars
             PROVE  OwnerInv'
  OBVIOUS
<1>1. CASE UNCHANGED vars
  BY <1>1 DEF OwnerInv, vars
<1>2. CASE Recreate
  BY <1>2 DEF Recreate, OwnerInv
<1>3. CASE Crash
  BY <1>3 DEF Crash, OwnerInv, TypeOK
<1>4. ASSUME NEW p \in alive, Expire(p)
      PROVE  OwnerInv'
  BY <1>4 DEF Expire, OwnerInv, network, world
<1>5. ASSUME NEW r \in Runs, NEW action \in Actions, Begin(r, action)
      PROVE  OwnerInv'
  <2>1. /\ UNCHANGED <<network, faults, crashes>> /\ pc[r] \notin Delaying
        /\ \A q \in Runs : q # r => pc'[q] = pc[q]
    BY <1>5 DEF TypeOK, Begin, Goto, Ended, Delaying
  <2> QED
    BY <2>1 DEF OwnerInv, TypeOK, network
<1>6. ASSUME NEW r \in Runs, NEW command \in {"add", "del"}, TakeEffect(command, r)
      PROVE  OwnerInv'
  BY <1>6 DEF TakeEffect, OwnerInv, world
<1> QED
  BY <1>1, <1>2, <1>3, <1>4, <1>5, <1>6, RunKeepsOwner DEF Next

\* As long as no exec fails and the backend runs, a delay on the device is the
\* delay of a run that has its removal ahead of it.
THEOREM OwnedDelay == Spec => []DelayHasOwner
<1>1. Init => OwnerInv
  BY DEF Init, OwnerInv
<1>2. OwnerInv => DelayHasOwner
  BY DEF OwnerInv, DelayHasOwner
<1> QED
  BY <1>1, <1>2, OwnerStep, TypeCorrect, PTL DEF Spec

(***************************************************************************)
(* Pids.  Of the processes of this container, the one with the pid that a  *)
(* run holds is its own.                                                   *)
(***************************************************************************)
PidInv ==
  /\ nextPid >= 1
  /\ \A p \in alive : p[1] >= 1 /\ p[1] < nextPid
  /\ \A r \in Runs : bornIn[r] <= gen
  /\ \A r \in Runs : bornIn[r] = gen =>
       pid[r] < nextPid /\ \A p \in alive : p[1] = pid[r] => p[2] = r

\* Fewer processes, the pids as they were.
LEMMA FewerKeepPids ==
  ASSUME PidInv, alive' \subseteq alive, UNCHANGED <<nextPid, pid, bornIn, gen>>
  PROVE  PidInv'
BY DEF PidInv

\* One process more, whose run takes the pid, or has timed out and does not.
LEMMA SpawnKeepsPids ==
  ASSUME TypeOK, PidInv, NEW r \in Runs, Spawned(r), gen' = gen,
         \/ /\ pid' = [pid EXCEPT ![r] = nextPid]
            /\ bornIn' = [bornIn EXCEPT ![r] = gen]
         \/ UNCHANGED <<pid, bornIn>>
  PROVE  PidInv'
<1>1. /\ nextPid' = nextPid + 1 /\ nextPid \in Nat
      /\ \A p \in alive' : p \in alive \/ (p[1] = nextPid /\ p[2] = r)
      /\ \A p \in alive : p[1] \in Nat
      /\ pid \in [Runs -> Nat] /\ bornIn \in [Runs -> Nat] /\ gen \in Nat
  BY DEF TypeOK, Spawned
<1>2. nextPid' >= 1 /\ \A p \in alive' : p[1] >= 1 /\ p[1] < nextPid'
  BY <1>1 DEF PidInv
<1>3. \A q \in Runs : \/ pid'[q] = pid[q] /\ bornIn'[q] = bornIn[q]
                      \/ q = r /\ pid'[q] = nextPid /\ bornIn'[q] = gen
  BY <1>1
<1>4. ASSUME NEW q \in Runs
      PROVE  /\ bornIn'[q] <= gen'
             /\ bornIn'[q] = gen' =>
                  pid'[q] < nextPid' /\ \A p \in alive' : p[1] = pid'[q] => p[2] = q
  <2>1. CASE pid'[q] = pid[q] /\ bornIn'[q] = bornIn[q]
    BY <2>1, <1>1 DEF PidInv
  <2>2. CASE q = r /\ pid'[q] = nextPid /\ bornIn'[q] = gen
    BY <2>2, <1>1 DEF PidInv
  <2> QED
    BY <2>1, <2>2, <1>3
<1> QED
  BY <1>2, <1>4 DEF PidInv

LEMMA LaunchKeepsPids ==
  ASSUME TypeOK, PidInv, NEW r \in Runs, Launch(r)
  PROVE  PidInv'
<1>1. gen' = gen
  BY DEF Launch, world
<1>2. CASE /\ Spawned(r) /\ pid' = [pid EXCEPT ![r] = nextPid]
           /\ bornIn' = [bornIn EXCEPT ![r] = gen]
  BY <1>1, <1>2, SpawnKeepsPids
<1>3. CASE /\ UNCHANGED <<alive, nextPid>> /\ pid' = [pid EXCEPT ![r] = 0]
           /\ bornIn' = [bornIn EXCEPT ![r] = gen]
  <2>1. \A q \in Runs : \/ pid'[q] = pid[q] /\ bornIn'[q] = bornIn[q]
                        \/ q = r /\ pid'[q] = 0 /\ bornIn'[q] = gen
    BY <1>3 DEF TypeOK
  <2>2. gen \in Nat /\ nextPid \in Nat /\ \A p \in alive : p[1] \in Nat
    BY DEF TypeOK
  <2> QED
    BY <1>1, <1>3, <2>1, <2>2 DEF PidInv
<1>4. CASE UNCHANGED processes
  BY <1>1, <1>4 DEF processes, PidInv
<1> QED
  BY <1>2, <1>3, <1>4 DEF Launch

LEMMA RunKeepsPids ==
  ASSUME TypeOK, PidInv, NEW r \in Runs, RunStep(r)
  PROVE  PidInv'
<1>1. CASE Add(r) \/ Sleep(r) \/ Del(r) \/ Check(r) \/ Sample(r) \/ Wait(r)
  BY <1>1 DEF Add, Sleep, Del, Check, Sample, Wait, processes, world, PidInv
<1>2. CASE Spawn(r)
  <2>1. gen' = gen
    BY <1>2 DEF Spawn, world
  <2>2. CASE Spawned(r)
    BY <1>2, <2>1, <2>2, SpawnKeepsPids DEF Spawn, processes
  <2>3. CASE UNCHANGED processes
    BY <2>1, <2>3 DEF processes, PidInv
  <2> QED
    BY <1>2, <2>2, <2>3 DEF Spawn, processes
<1>3. CASE Kill(r)
  BY <1>3, FewerKeepPids DEF Kill, Killed, world
<1>4. CASE Launch(r)
  BY <1>4, LaunchKeepsPids
<1> QED
  BY <1>1, <1>2, <1>3, <1>4 DEF RunStep

LEMMA PidStep == TypeOK /\ PidInv /\ [Next]_vars => PidInv'
<1> SUFFICES ASSUME TypeOK, PidInv, [Next]_vars
             PROVE  PidInv'
  OBVIOUS
<1>1. CASE UNCHANGED vars
  BY <1>1 DEF PidInv, vars
<1>2. CASE Recreate
  <2>1. alive' = {} /\ nextPid' = 1 /\ gen' = gen + 1 /\ UNCHANGED <<pid, bornIn>>
    BY <1>2 DEF Recreate
  <2>2. gen \in Nat /\ \A r \in Runs : bornIn[r] \in Nat
    BY DEF TypeOK
  <2> QED
    BY <2>1, <2>2 DEF PidInv
<1>3. CASE Crash
  BY <1>3 DEF Crash, processes, PidInv
<1>4. ASSUME NEW p \in alive, Expire(p)
      PROVE  PidInv'
  BY <1>4, FewerKeepPids DEF Expire, world
<1>5. ASSUME NEW r \in Runs, NEW action \in Actions, Begin(r, action)
      PROVE  PidInv'
  BY <1>5 DEF Begin, processes, PidInv
<1>6. ASSUME NEW r \in Runs, NEW command \in {"add", "del"}, TakeEffect(command, r)
      PROVE  PidInv'
  BY <1>6 DEF TakeEffect, processes, world, PidInv
<1> QED
  BY <1>1, <1>2, <1>3, <1>4, <1>5, <1>6, RunKeepsPids DEF Next

LEMMA PidsCorrect == Spec => []PidInv
<1>1. Init => PidInv
  BY DEF Init, PidInv
<1> QED
  BY <1>1, PidStep, TypeCorrect, PTL DEF Spec

\* A kill -9 takes away processes of its own run only, unless it is carried
\* out in another container than the one that gave the pid.
THEOREM OwnVictim == Spec => KillsOwnOnly
<1>1. ASSUME PidInv, [Next]_vars
      PROVE  [\A r \in Runs : Kill(r) /\ bornIn[r] = gen
                => \A p \in alive \ alive' : p[2] = r]_vars
  <2>1. ASSUME NEW r \in Runs, Kill(r), bornIn[r] = gen, NEW p \in alive \ alive'
        PROVE  p[2] = r
    <3>1. p[1] = pid[r]
      BY <2>1 DEF Kill, Killed
    <3> QED
      BY <1>1, <2>1, <3>1 DEF PidInv
  <2> QED
    BY <2>1
<1> QED
  BY <1>1, PidsCorrect, PTL DEF Spec, KillsOwnOnly

(***************************************************************************)
(* Reports.  A run on its way has reported nothing; one that reported its  *)
(* process gone starts no other before it begins anew.                     *)
(***************************************************************************)
ReportInv ==
  \A r \in Runs : pc[r] \in Steps => report[r] = "none"

LEMMA ReportStep == TypeOK /\ ReportInv /\ [Next]_vars => ReportInv'
<1> SUFFICES ASSUME TypeOK, ReportInv, [Next]_vars
             PROVE  ReportInv'
  OBVIOUS
<1>1. CASE UNCHANGED vars
  BY <1>1 DEF ReportInv, vars
<1>2. CASE Recreate
  BY <1>2 DEF Recreate, ReportInv
<1>3. CASE Crash
  BY <1>3 DEF Crash, ReportInv, Steps
<1>4. ASSUME NEW p \in alive, Expire(p)
      PROVE  ReportInv'
  BY <1>4 DEF Expire, ReportInv
<1>5. ASSUME NEW r \in Runs, RunStep(r)
      PROVE  ReportInv'
  <2>1. pc[r] \in Steps /\ report[r] = "none"
    BY <1>5 DEF RunStep, Add, Sleep, Del, Spawn, Kill, Check, Launch, Sample, Wait,
                Steps, ReportInv
  <2>2. \A q \in Runs : q # r => pc'[q] = pc[q] /\ report'[q] = report[q]
    BY <1>5 DEF TypeOK, RunStep, Add, Sleep, Del, Spawn, Kill, Check, Launch, Sample,
                Wait, Goto, Answer, Raise
  <2>3. pc'[r] = "result" \/ UNCHANGED report
    BY <1>5 DEF TypeOK, RunStep, Add, Sleep, Del, Spawn, Kill, Check, Launch, Sample,
                Wait, Goto, Answer, Raise
  <2> QED
    BY <2>1, <2>2, <2>3 DEF ReportInv, Steps
<1>6. ASSUME NEW r \in Runs, NEW action \in Actions, Begin(r, action)
      PROVE  ReportInv'
  BY <1>6 DEF TypeOK, Begin, Goto, ReportInv
<1>7. ASSUME NEW r \in Runs, NEW command \in {"add", "del"}, TakeEffect(command, r)
      PROVE  ReportInv'
  BY <1>7 DEF TakeEffect, ReportInv
<1> QED
  BY <1>1, <1>2, <1>3, <1>4, <1>5, <1>6, <1>7 DEF Next

\* Of a run's step: it says its process gone when it is, and not before.
LEMMA RunKeepsGone ==
  ASSUME TypeOK, ReportInv, GoneWhenReported, NEW r \in Runs, RunStep(r)
  PROVE  GoneWhenReported'
<1>1. gen' = gen
  BY DEF RunStep, Add, Sleep, Del, Spawn, Kill, Check, Launch, Sample, Wait, world
<1>2. pc[r] \in Steps /\ report[r] = "none"
  BY DEF RunStep, Add, Sleep, Del, Spawn, Kill, Check, Launch, Sample, Wait,
         Steps, ReportInv
<1>3. ASSUME NEW q \in Runs, q # r
      PROVE  /\ report'[q] = report[q] /\ pid'[q] = pid[q] /\ bornIn'[q] = bornIn[q]
             /\ <<pid[q], q>> \in alive' => <<pid[q], q>> \in alive
  <2>1. report'[q] = report[q] /\ pid'[q] = pid[q] /\ bornIn'[q] = bornIn[q]
    BY <1>3 DEF TypeOK, RunStep, Add, Sleep, Del, Spawn, Kill, Check, Launch, Sample,
                Wait, Goto, Answer, Raise, processes
  <2>2. \A p \in alive' : p \in alive \/ p = <<nextPid, r>>
    BY DEF RunStep, Add, Sleep, Del, Spawn, Kill, Check, Launch, Sample,
           Wait, Spawned, Killed, processes
  <2> QED
    BY <2>1, <2>2, <1>3
<1>4. ASSUME report'[r] \in {"killed", "measured"}, bornIn'[r] = gen'
      PROVE  <<pid'[r], r>> \notin alive'
  <2>1. Check(r) \/ Wait(r)
    BY <1>2, <1>4 DEF TypeOK, RunStep, Add, Sleep, Del, Spawn, Kill, Launch, Sample,
                      Answer, Raise
  <2>2. UNCHANGED processes
    BY <2>1 DEF Check, Wait
  <2>3. CASE Check(r)
    <3>1. ~ \E p \in alive : p[1] = pid[r]
      BY <2>3, <1>2, <1>4 DEF TypeOK, Check, Answer, Raise
    <3> QED
      BY <3>1, <2>2 DEF processes
  <2>4. CASE Wait(r)
    <3>1. ~ Stressing(r)
      BY <2>4, <1>2, <1>4 DEF TypeOK, Wait, Answer, Raise
    <3> QED
      BY <3>1, <1>1, <1>4, <2>2 DEF Stressing, processes
  <2> QED
    BY <2>1, <2>3, <2>4
<1> QED
  BY <1>1, <1>3, <1>4 DEF GoneWhenReported

LEMMA GoneStep ==
  TypeOK /\ PidInv /\ ReportInv /\ GoneWhenReported /\ [Next]_vars => GoneWhenReported'
<1> SUFFICES ASSUME TypeOK, PidInv, ReportInv, GoneWhenReported, [Next]_vars
             PROVE  GoneWhenReported'
  OBVIOUS
<1>1. CASE UNCHANGED vars
  BY <1>1 DEF GoneWhenReported, vars
<1>2. CASE Recreate
  BY <1>2 DEF Recreate, GoneWhenReported
<1>3. CASE Crash
  BY <1>3 DEF Crash, GoneWhenReported, processes
<1>4. ASSUME NEW p \in alive, Expire(p)
      PROVE  GoneWhenReported'
  BY <1>4 DEF Expire, GoneWhenReported, world
<1>5. ASSUME NEW r \in Runs, NEW action \in Actions, Begin(r, action)
      PROVE  GoneWhenReported'
  BY <1>5 DEF TypeOK, Begin, GoneWhenReported, processes
<1>6. ASSUME NEW r \in Runs, NEW command \in {"add", "del"}, TakeEffect(command, r)
      PROVE  GoneWhenReported'
  BY <1>6 DEF TakeEffect, GoneWhenReported, processes, world
<1> QED
  BY <1>1, <1>2, <1>3, <1>4, <1>5, <1>6, RunKeepsGone DEF Next

\* A result that says the process was killed, or the stress measured, is never
\* there beside that run's process in the container the run was begun in.
THEOREM GoneCorrect == Spec => []GoneWhenReported
<1>1. Init => ReportInv /\ GoneWhenReported
  BY DEF Init, ReportInv, GoneWhenReported, Steps
<1> QED
  BY <1>1, ReportStep, GoneStep, TypeCorrect, PidsCorrect, PTL DEF Spec
=============================================================================
