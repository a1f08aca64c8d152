-------------------------- MODULE BaseSliceProofs --------------------------
(***************************************************************************)
(* Proofs about BaseSlice for any number of sessions, runs, outages and    *)
(* crashes, and any default of the knob:                                   *)
(*                                                                         *)
(*   - the knob never exceeds its default (NeverAbove);                    *)
(*   - the knob is lost only by a run that read it reduced, by a write     *)
(*     done late or by a restoring write that was lost (LossNeedsTaint);   *)
(*   - a run that nothing disturbed measures what it reports, whatever     *)
(*     came before it (UnsharedMeasures);                                  *)
(*   - one session whose writes do not time out always restores the knob   *)
(*     (AloneRestores);                                                    *)
(*   - each run costs at most a factor of three (DriftCorrect).            *)
(***************************************************************************)
EXTENDS BaseSlice, DataLemmas, TLAPS

USE DefaultAssumption, BoundAssumption DEF None

\* The knob and all that can be written back to it stay below the default.
Bounded == NeverAboveDefault

\* A third of a number is a number no larger.
LEMMA ReducedBelow ==
  ASSUME NEW v \in Nat PROVE Reduced(v) \in Nat /\ Reduced(v) <= v
BY DEF Reduced

\* A write of the knob, done at once or later, writes no more than it is given.
LEMMA PutBelow ==
  ASSUME TypeOK, Bounded, NEW v \in Nat, v <= Default, Put(v) \/ PutSometime(v)
  PROVE  slice' \in Nat /\ slice' <= Default /\ late' \in [0..Default -> Nat]
<1>1. v \in 0..Default
  OBVIOUS
<1>2. slice' = slice \/ slice' = v
  BY DEF Put, PutSometime
<1>3. late' = late \/ late' = [late EXCEPT ![v] = @ + 1]
  BY DEF Put, PutSometime
<1>4. late' \in [0..Default -> Nat]
  BY <1>1, <1>3 DEF TypeOK
<1> QED BY <1>2, <1>4 DEF TypeOK, Bounded, NeverAboveDefault

\* What the runs at work have seen is a Boolean of each session.
LEMMA DisturbedType ==
  ASSUME TypeOK, DisturbAll PROVE disturbed' \in [Sessions -> BOOLEAN]
<1>1. \A s \in Sessions : (disturbed[s] \/ AtWork(s)) \in BOOLEAN
  OBVIOUS
<1> QED BY <1>1 DEF DisturbAll

\* The type invariant and the bound are inductive together.
LEMMA BoundedInvariant == Spec => [](TypeOK /\ Bounded)
<1>1. Init => TypeOK /\ Bounded
  <2>1. Init => TypeOK
    <3> SUFFICES ASSUME Init PROVE TypeOK
      OBVIOUS
    <3>1. /\ slice \in Nat /\ late \in [0..Default -> Nat]
          /\ begun \in Nat /\ outages \in Nat /\ crashes \in Nat
      BY DEF Init, NoneLate
    <3>2. usable \in BOOLEAN /\ tainted \in BOOLEAN /\ astray \in BOOLEAN
      BY DEF Init
    <3>3. raising \in [Sessions -> BOOLEAN] /\ disturbed \in [Sessions -> BOOLEAN]
      BY DEF Init
    <3>4. /\ pc \in [Sessions -> Steps \cup Ended \cup {"idle"}]
          /\ original \in [Sessions -> Nat]
          /\ ranAt \in [Sessions -> Nat \cup {None}]
      BY DEF Init
    <3> QED BY <3>1, <3>2, <3>3, <3>4, Zenon DEF TypeOK
  <2>2. Init => Bounded
    BY DEF Init, Bounded, NeverAboveDefault
  <2> QED BY <2>1, <2>2
<1>2. TypeOK /\ Bounded /\ [Next]_vars => (TypeOK /\ Bounded)'
  <2> SUFFICES ASSUME TypeOK, Bounded, [Next]_vars PROVE (TypeOK /\ Bounded)'
    OBVIOUS
  <2> USE DEF TypeOK, Bounded, NeverAboveDefault, history, world, Goto, Steps, Ended
  <2>1. CASE UNCHANGED vars
    BY <2>1 DEF vars
  <2>2. CASE Outage
    <3>1. usable' \in BOOLEAN
      BY <2>2 DEF Outage
    <3>3. outages' \in Nat
      BY <2>2 DEF Outage
    <3>4. late' \in [0..Default -> Nat]
      BY <2>2 DEF Outage, NoneLate
    <3>2. disturbed' \in [Sessions -> BOOLEAN]
      BY <2>2, DisturbedType DEF Outage
    <3> QED BY <2>2, <3>1, <3>2, <3>3, <3>4 DEF Outage
  <2>3. CASE Recover
    BY <2>3 DEF Recover
  <2>4. CASE Crash
    <3>1. pc' \in [Sessions -> Steps \cup Ended \cup {"idle"}] /\ crashes' \in Nat
      BY <2>4 DEF Crash
    <3>2. astray' \in BOOLEAN
      BY <2>4, Zenon DEF Crash
    <3> QED BY <2>4, <3>1, <3>2 DEF Crash
  <2>12. ASSUME NEW v \in 0..Default, LateWrite(v) PROVE (TypeOK /\ Bounded)'
    <3>1. slice' \in Nat /\ slice' <= Default /\ late' \in [0..Default -> Nat]
      BY <2>12 DEF LateWrite
    <3>2. disturbed' \in [Sessions -> BOOLEAN] /\ astray' \in BOOLEAN
      BY <2>12, DisturbedType DEF LateWrite
    <3> QED BY <2>12, <3>1, <3>2 DEF LateWrite
  <2>5. ASSUME NEW r \in Sessions, Begin(r) PROVE (TypeOK /\ Bounded)'
    <3> DEFINE seen(s) == IF s = r THEN ~ usable \/ \E t \in Sessions \ {r} : AtWork(t)
                                   ELSE disturbed[s] \/ AtWork(s)
    <3>1. \A s \in Sessions : seen(s) \in BOOLEAN
      <4>1. ASSUME NEW s \in Sessions, s = r PROVE seen(s) \in BOOLEAN
        <5>1. (~ usable \/ \E t \in Sessions \ {r} : AtWork(t)) \in BOOLEAN
          OBVIOUS
        <5> QED BY <5>1, <4>1
      <4>2. ASSUME NEW s \in Sessions, s # r PROVE seen(s) \in BOOLEAN
        <5>1. (disturbed[s] \/ AtWork(s)) \in BOOLEAN
          OBVIOUS
        <5> QED BY <5>1, <4>2
      <4> QED BY <4>1, <4>2
    <3>2. disturbed' = [s \in Sessions |-> seen(s)]
      BY <2>5 DEF Begin
    <3> HIDE DEF seen
    <3>3. disturbed' \in [Sessions -> BOOLEAN]
      BY <3>1, <3>2
    <3>4. /\ pc' \in [Sessions -> Steps \cup Ended \cup {"idle"}]
          /\ raising' \in [Sessions -> BOOLEAN]
          /\ ranAt' \in [Sessions -> Nat \cup {None}]
          /\ begun' \in Nat
      BY <2>5 DEF Begin
    <3>5. UNCHANGED <<slice, late, usable, original, tainted, astray, outages, crashes>>
      BY <2>5 DEF Begin
    <3> QED BY <3>3, <3>4, <3>5
  <2>6. ASSUME NEW r \in Sessions, Compile(r) PROVE (TypeOK /\ Bounded)'
    BY <2>6 DEF Compile
  <2>7. ASSUME NEW r \in Sessions, Read(r) PROVE (TypeOK /\ Bounded)'
    BY <2>7 DEF Read
  <2>8. ASSUME NEW r \in Sessions, Before(r) PROVE (TypeOK /\ Bounded)'
    BY <2>8 DEF Before, Raise
  <2>9. ASSUME NEW r \in Sessions, Write(r) PROVE (TypeOK /\ Bounded)'
    <3>1. original[r] \in Nat /\ original[r] <= Default
      OBVIOUS
    <3>2. Reduced(original[r]) \in Nat /\ Reduced(original[r]) <= original[r]
      BY <3>1, ReducedBelow
    <3>3. Reduced(original[r]) <= Default
      BY <3>1, <3>2
    <3>4. slice' \in Nat /\ slice' <= Default /\ late' \in [0..Default -> Nat]
      BY <2>9, <3>2, <3>3, PutBelow DEF Write
    <3> QED BY <2>9, <3>4 DEF Write, Raise
  <2>10. ASSUME NEW r \in Sessions, After(r) PROVE (TypeOK /\ Bounded)'
    BY <2>10 DEF After, Raise
  <2>11. ASSUME NEW r \in Sessions, Restore(r) PROVE (TypeOK /\ Bounded)'
    <3>1. original[r] \in Nat /\ original[r] <= Default
      OBVIOUS
    <3>2. slice' \in Nat /\ slice' <= Default /\ late' \in [0..Default -> Nat]
      BY <2>11, <3>1, PutBelow DEF Restore
    <3>3. astray' \in BOOLEAN
      BY <2>11, Zenon DEF Restore
    <3>4. pc' \in [Sessions -> Steps \cup Ended \cup {"idle"}]
      BY <2>11 DEF Restore
    <3> QED BY <2>11, <3>2, <3>3, <3>4 DEF Restore
  <2> QED BY <2>1, <2>2, <2>3, <2>4, <2>5, <2>6, <2>7, <2>8, <2>9, <2>10, <2>11,
          <2>12 DEF Next, RunStep
<1> QED BY <1>1, <1>2, PTL DEF Spec

\* Every state has the types the model declares.
THEOREM TypeCorrect == Spec => []TypeOK
BY BoundedInvariant, PTL

\* Whatever overlaps, stops or crashes, no write of
\* scheduler_optimization_test leaves base_slice_ns above its default.
THEOREM NeverAbove == Spec => []NeverAboveDefault
BY BoundedInvariant, PTL DEF Bounded

(***************************************************************************)
(* While nobody read a reduced knob and no write went astray, every run    *)
(* that has read the knob has read the default.                            *)
(***************************************************************************)
Clean == ~ tainted /\ ~ astray

Holding == {"before", "write", "after", "restore"}

\* The runs that hold what they read hold the default, and one of them reduces.
Kept ==
  /\ \A r \in Sessions : pc[r] \in Holding => original[r] = Default
  /\ slice # Default => Reducing # {}

CleanInv == Clean => Kept

\* CleanInv is inductive on its own.
LEMMA CleanInvariant == Spec => []CleanInv
<1>1. Init => CleanInv
  BY DEF Init, CleanInv, Kept, Holding
<1>2. TypeOK /\ CleanInv /\ [Next]_vars => CleanInv'
  <2> SUFFICES ASSUME TypeOK, CleanInv, [Next]_vars, Clean' PROVE Kept'
    BY DEF CleanInv
  <2> USE DEF TypeOK, Holding, Kept, Reducing, history, world, Goto, Steps, Ended
  <2>0. Clean
    <3>1. CASE UNCHANGED vars
      BY <3>1 DEF Clean, vars
    <3>2. CASE Outage \/ Recover \/ Crash
      BY <3>2 DEF Clean, Outage, Recover, Crash
    <3>3. ASSUME NEW r \in Sessions, Begin(r) \/ RunStep(r) PROVE Clean
      BY <3>3 DEF Clean, Begin, RunStep, Compile, Read, Before, Write, After, Restore
    <3>4. ASSUME NEW v \in 0..Default, LateWrite(v) PROVE Clean
      BY <3>4 DEF Clean, LateWrite
    <3> QED BY <3>1, <3>2, <3>3, <3>4 DEF Next
  <2>a. Kept
    BY <2>0 DEF CleanInv
  <2>1. CASE UNCHANGED vars
    BY <2>1, <2>a DEF vars
  <2>2. CASE Outage \/ Recover
    BY <2>2, <2>a DEF Outage, Recover
  <2>3. CASE Crash
    <3>1. Reducing = {}
      BY <2>3 DEF Crash, Clean
    <3>2. slice' = Default
      BY <2>3, <2>a, <3>1 DEF Crash
    <3>3. \A r \in Sessions : pc'[r] \in Holding => pc[r] \in Holding
      BY <2>3 DEF Crash
    <3> QED BY <2>3, <2>a, <3>2, <3>3 DEF Crash
  <2>4. ASSUME NEW v \in 0..Default, LateWrite(v) PROVE Kept'
    BY <2>4 DEF LateWrite, Clean
  <2>5. ASSUME NEW r \in Sessions, Begin(r) \/ Compile(r) \/ Before(r) \/ After(r)
        PROVE  Kept'
    <3>1. original' = original /\ slice' = slice
      BY <2>5 DEF Begin, Compile, Before, After
    <3>2. \A s \in Sessions : pc'[s] \in Holding => pc[s] \in Holding
      BY <2>5 DEF Begin, Compile, Before, After, Raise
    <3>3. \A s \in Sessions : pc[s] \in {"after", "restore"}
                                => pc'[s] \in {"after", "restore"}
      BY <2>5 DEF Begin, Compile, Before, After, Raise
    <3> QED BY <2>a, <3>1, <3>2, <3>3
  <2>6. ASSUME NEW r \in Sessions, Read(r) PROVE Kept'
    <3>1. slice' = slice
      BY <2>6 DEF Read
    <3>2. \A s \in Sessions : pc'[s] \in Holding => original'[s] = Default
      BY <2>6, <2>a DEF Read, Clean
    <3>3. \A s \in Sessions : pc[s] \in {"after", "restore"}
                                => pc'[s] \in {"after", "restore"}
      BY <2>6 DEF Read
    <3> QED BY <2>a, <3>1, <3>2, <3>3
  <2>7. ASSUME NEW r \in Sessions, Write(r) PROVE Kept'
    <3>1. pc'[r] \in {"after", "restore"} /\ original' = original
      BY <2>7 DEF Write, Raise
    <3>2. \A s \in Sessions : pc'[s] \in Holding => pc[s] \in Holding
      BY <2>7 DEF Write, Raise
    <3> QED BY <2>a, <3>1, <3>2
  <2>8. ASSUME NEW r \in Sessions, Restore(r) PROVE Kept'
    <3>1. slice' = original[r] /\ original[r] = Default /\ original' = original
      BY <2>8, <2>a DEF Restore, Put, Clean
    <3>2. \A s \in Sessions : pc'[s] \in Holding => pc[s] \in Holding
      BY <2>8 DEF Restore
    <3> QED BY <2>a, <3>1, <3>2
  <2> QED BY <2>1, <2>2, <2>3, <2>4, <2>5, <2>6, <2>7, <2>8 DEF Next, RunStep
<1> QED BY <1>1, <1>2, TypeCorrect, PTL DEF Spec

\* A base_slice_ns off its default with no run about to restore it means that
\* some run read it while it was reduced, that a timed out write was done
\* late, or that a restoring write was lost to a time-out, an unreachable
\* container or the end of the backend.
THEOREM LossNeedsTaint == Spec => []LostOnlyByTaintedRead
<1>1. CleanInv => LostOnlyByTaintedRead
  BY DEF CleanInv, Clean, Kept, LostOnlyByTaintedRead
<1> QED BY <1>1, CleanInvariant, PTL

(***************************************************************************)
(* What the others do concerns a run only while they are at work.          *)
(***************************************************************************)
\* Session r is at work, no other is, the container is usable, and the step it
\* is at finds the knob the run left there.
Undisturbed(r) ==
  /\ usable
  /\ \A s \in Sessions \ {r} : ~ AtWork(s)
  /\ pc[r] = "after" => slice = Reduced(original[r])
  /\ pc[r] = "restore" /\ ~ raising[r] => ranAt[r] = Reduced(original[r])

UnsharedInv ==
  \A r \in Sessions :
    ~ disturbed[r] =>
      /\ AtWork(r) => Undisturbed(r)
      /\ pc[r] = "result" => ranAt[r] = Reduced(original[r])

\* UnsharedInv is inductive on its own.
LEMMA UnsharedInvariant == Spec => []UnsharedInv
<1>1. Init => UnsharedInv
  BY DEF Init, UnsharedInv, AtWork, Steps
<1>2. TypeOK /\ UnsharedInv /\ [Next]_vars => UnsharedInv'
  <2> SUFFICES ASSUME TypeOK, UnsharedInv, [Next]_vars PROVE UnsharedInv'
    OBVIOUS
  <2> USE DEF TypeOK, UnsharedInv, Undisturbed, AtWork, Steps, history, world, Goto
  <2>1. CASE UNCHANGED vars
    BY <2>1 DEF vars
  <2>2. CASE Outage
    BY <2>2 DEF Outage, DisturbAll
  <2>3. CASE Recover
    BY <2>3 DEF Recover
  <2>4. CASE Crash
    BY <2>4 DEF Crash
  <2>5. ASSUME NEW r \in Sessions, Begin(r) PROVE UnsharedInv'
    BY <2>5 DEF Begin, Ended
  <2>6. ASSUME NEW r \in Sessions, Compile(r) PROVE UnsharedInv'
    BY <2>6 DEF Compile
  <2>7. ASSUME NEW r \in Sessions, Read(r) PROVE UnsharedInv'
    BY <2>7 DEF Read
  <2>8. ASSUME NEW r \in Sessions, Before(r) PROVE UnsharedInv'
    BY <2>8 DEF Before, Raise
  <2>9. ASSUME NEW r \in Sessions, Write(r) PROVE UnsharedInv'
    BY <2>9 DEF Write, Raise, Put
  <2>10. ASSUME NEW r \in Sessions, After(r) PROVE UnsharedInv'
    BY <2>10 DEF After, Raise
  <2>11. ASSUME NEW r \in Sessions, Restore(r) PROVE UnsharedInv'
    BY <2>11 DEF Restore
  <2>12. ASSUME NEW v \in 0..Default, LateWrite(v) PROVE UnsharedInv'
    BY <2>12 DEF LateWrite, DisturbAll
  <2> QED BY <2>1, <2>2, <2>3, <2>4, <2>5, <2>6, <2>7, <2>8, <2>9, <2>10, <2>11,
          <2>12 DEF Next, RunStep
<1> QED BY <1>1, <1>2, TypeCorrect, PTL DEF Spec

\* A run during which no other run was at work, no late write was done and the
\* container stayed usable measured "after" under the knob its result names,
\* whatever earlier runs, outages and crashes had left there.
THEOREM UnsharedMeasures == Spec => []MeasuredReduced
<1>1. UnsharedInv => MeasuredReduced
  BY DEF UnsharedInv, MeasuredReduced
<1> QED BY <1>1, UnsharedInvariant, PTL

(***************************************************************************)
(* One session, on a container and a backend that stay up.                 *)
(***************************************************************************)
Alone == \A r, s \in Sessions : r = s

AloneInv ==
  /\ outages = 0 /\ crashes = 0 /\ usable
  /\ late = NoneLate
  /\ (\A r \in Sessions : pc[r] \notin {"after", "restore"}) => slice = Default
  /\ \A r \in Sessions : pc[r] \in Holding => original[r] = Default

\* AloneInv is inductive under the assumptions of the theorem below.
LEMMA AloneInvariant ==
  ASSUME Alone, "write" \notin TimesOut, "restore" \notin TimesOut,
         MaxOutages = 0, MaxCrashes = 0
  PROVE  Spec => []AloneInv
<1>1. Init => AloneInv
  BY DEF Init, AloneInv, Holding
<1>2. TypeOK /\ AloneInv /\ [Next]_vars => AloneInv'
  <2> SUFFICES ASSUME TypeOK, AloneInv, [Next]_vars PROVE AloneInv'
    OBVIOUS
  <2> USE DEF TypeOK, AloneInv, Alone, Holding, history, world, Goto
  <2>1. CASE UNCHANGED vars
    BY <2>1 DEF vars
  <2>2. ~ Outage
    BY DEF Outage
  <2>3. ~ Recover
    BY DEF Recover
  <2>4. ~ Crash
    BY DEF Crash
  <2>5. ASSUME NEW r \in Sessions, Begin(r) PROVE AloneInv'
    BY <2>5 DEF Begin, Ended
  <2>6. ASSUME NEW r \in Sessions, Compile(r) PROVE AloneInv'
    BY <2>6 DEF Compile
  <2>7. ASSUME NEW r \in Sessions, Read(r) PROVE AloneInv'
    BY <2>7 DEF Read
  <2>8. ASSUME NEW r \in Sessions, Before(r) PROVE AloneInv'
    BY <2>8 DEF Before, Raise
  <2>9. ASSUME NEW r \in Sessions, Write(r) PROVE AloneInv'
    BY <2>9 DEF Write, Raise, Put, TimeOut
  <2>10. ASSUME NEW r \in Sessions, After(r) PROVE AloneInv'
    BY <2>10 DEF After, Raise
  <2>11. ASSUME NEW r \in Sessions, Restore(r) PROVE AloneInv'
    BY <2>11 DEF Restore, Put, TimeOut
  <2>12. ASSUME NEW v \in 0..Default, LateWrite(v) PROVE AloneInv'
    BY <2>12 DEF LateWrite, NoneLate
  <2> QED BY <2>1, <2>2, <2>3, <2>4, <2>5, <2>6, <2>7, <2>8, <2>9, <2>10, <2>11,
          <2>12 DEF Next, RunStep
<1> QED BY <1>1, <1>2, TypeCorrect, PTL DEF Spec

\* One session at a time, on a container and a backend that stay up, and whose
\* writes of the knob do not time out, keeps the promise of
\* experiments_agent.py:67: between its runs the knob is what it was at boot,
\* whichever of its compilations, reads and measurements time out.
THEOREM AloneRestores ==
  ASSUME Alone, "write" \notin TimesOut, "restore" \notin TimesOut,
         MaxOutages = 0, MaxCrashes = 0
  PROVE  Spec => []AlwaysRestored
<1>1. AloneInv => AlwaysRestored
  BY DEF AlwaysRestored, AloneInv, AtWork, Steps
<1> QED BY <1>1, AloneInvariant, PTL

(***************************************************************************)
(* How far the knob can drift.                                             *)
(***************************************************************************)
Power(n) == Pow3[n]

LEMMA PowerOfThree ==
  /\ Power(0) = 1
  /\ \A n \in Nat : Power(n) \in Nat /\ Power(n) > 0 /\ Power(n + 1) = 3 * Power(n)
<1> DEFINE Positive == Nat \ {0}
           one == 1
           triple == [v \in Positive |-> 3 * v]
           Equation(f) == f = [n \in Nat |-> IF n = 0 THEN 1 ELSE 3 * f[n - 1]]
<1>1. one \in Positive /\ triple \in [Positive -> Positive]
  OBVIOUS
<1> HIDE DEF Positive, one, triple
<1>2. PICK f \in [Nat -> Positive] : f[0] = one /\ \A n \in Nat : f[n + 1] = triple[f[n]]
  BY <1>1, Iteration
<1> USE DEF Positive, one, triple
<1>3. ASSUME NEW n \in Nat PROVE f[n] = IF n = 0 THEN 1 ELSE 3 * f[n - 1]
  <2>1. CASE n = 0
    BY <1>2, <2>1
  <2>2. CASE n # 0
    <3>1. n - 1 \in Nat /\ (n - 1) + 1 = n
      BY <2>2
    <3>2. f[(n - 1) + 1] = triple[f[n - 1]] /\ f[n - 1] \in Positive
      BY <1>2, <3>1
    <3> QED BY <2>2, <3>1, <3>2
  <2> QED BY <2>1, <2>2
<1>4. f = [n \in Nat |-> f[n]]
  BY <1>2
<1>5. Equation(f)
  BY <1>3, <1>4
<1>6. Equation(Pow3)
  <2>1. Pow3 = CHOOSE g : Equation(g)
    BY DEF Pow3
  <2> HIDE DEF Equation
  <2> QED BY <1>5, <2>1
<1>7. Pow3[0] = 1 /\ \A n \in Nat : Pow3[n + 1] = 3 * Pow3[n]
  <2>1. \A n \in Nat : Pow3[n] = IF n = 0 THEN 1 ELSE 3 * Pow3[n - 1]
    BY <1>6, Zenon
  <2> QED BY <2>1
<1> DEFINE S == {n \in Nat : Pow3[n] \in Positive}
<1>8. Nat \subseteq S
  <2>1. 0 \in S
    BY <1>7
  <2>2. ASSUME NEW n \in Nat, n \in S PROVE n + 1 \in S
    BY <1>7, <2>2
  <2> HIDE DEF S
  <2> QED BY <2>1, <2>2, SetInduction
<1> QED BY <1>7, <1>8 DEF Power

LEMMA PowerGrows ==
  ASSUME NEW m \in Nat, NEW n \in Nat, m <= n PROVE Power(m) <= Power(n)
<1> DEFINE S == {d \in Nat : Power(m) <= Power(m + d)}
<1>1. 0 \in S
  BY PowerOfThree
<1>2. ASSUME NEW d \in Nat, d \in S PROVE d + 1 \in S
  <2>1. /\ m + d \in Nat /\ Power(m + d) \in Nat /\ Power(m) \in Nat
        /\ Power((m + d) + 1) = 3 * Power(m + d)
    BY PowerOfThree
  <2>2. (m + d) + 1 = m + (d + 1)
    OBVIOUS
  <2> QED BY <1>2, <2>1, <2>2
<1> HIDE DEF S
<1>3. Nat \subseteq S
  BY <1>1, <1>2, SetInduction
<1>4. n - m \in Nat /\ m + (n - m) = n
  OBVIOUS
<1> QED BY <1>3, <1>4 DEF S

\* Runs that have not tried to reduce the knob yet, and how often the others
\* may have reduced it together.
Unwritten == {r \in Sessions : pc[r] \in {"compile", "read", "before", "write"}}
Reductions == begun - Cardinality(Unwritten)

\* A value that so many reductions lead to, or fewer.
Covered(v) == (v + 1) * Power(Reductions) > Default

DriftInv ==
  /\ IsFiniteSet(Unwritten) /\ Cardinality(Unwritten) <= begun
  /\ Covered(slice)
  /\ \A v \in 0..Default : late[v] > 0 => Covered(v)
  /\ \A r \in Sessions : pc[r] \in Holding => Covered(original[r])

\* While no run begins, and none is forgotten, what was covered stays so.
LEMMA CoverStays ==
  ASSUME TypeOK, DriftInv, begun' \in Nat, UNCHANGED begun, Unwritten' \subseteq Unwritten
  PROVE  /\ IsFiniteSet(Unwritten') /\ Cardinality(Unwritten') <= begun'
         /\ Reductions \in Nat /\ Reductions' \in Nat /\ Reductions <= Reductions'
         /\ \A v \in Nat : Covered(v) => (v + 1) * Power(Reductions') > Default
<1>1. IsFiniteSet(Unwritten') /\ Cardinality(Unwritten') <= Cardinality(Unwritten)
  BY FS_Subset DEF DriftInv
<1>2. Cardinality(Unwritten) \in Nat /\ Cardinality(Unwritten') \in Nat
  BY <1>1, FS_CardinalityType DEF DriftInv
<1>3. Reductions \in Nat /\ Reductions' \in Nat /\ Reductions <= Reductions'
  BY <1>1, <1>2 DEF DriftInv, Reductions, TypeOK
<1>4. Power(Reductions) <= Power(Reductions') /\ Power(Reductions) \in Nat /\ Power(Reductions') \in Nat
  BY <1>3, PowerGrows, PowerOfThree
<1>5. ASSUME NEW v \in Nat, Covered(v) PROVE (v + 1) * Power(Reductions') > Default
  <2> DEFINE a == Power(Reductions)
             b == Power(Reductions')
  <2>1. a \in Nat /\ b \in Nat /\ a <= b /\ (v + 1) * a > Default
    BY <1>4, <1>5 DEF Covered
  <2> HIDE DEF a, b
  <2>2. (v + 1) * a <= (v + 1) * b
    BY <2>1
  <2>3. (v + 1) * a \in Nat /\ (v + 1) * b \in Nat
    BY <2>1
  <2> QED BY <2>1, <2>2, <2>3 DEF b
<1> QED BY <1>1, <1>2, <1>3, <1>5 DEF DriftInv, TypeOK

\* One reduction more, and the third of what was covered is.
LEMMA ThirdCovered ==
  ASSUME TypeOK, DriftInv, UNCHANGED begun, NEW r \in Sessions, pc[r] = "write",
         Unwritten' = Unwritten \ {r}
  PROVE  (Reduced(original[r]) + 1) * Power(Reductions') > Default
<1> DEFINE v == original[r]
           t == Reduced(original[r])
           a == Power(Reductions)
           b == Power(Reductions')
<1>1. v \in Nat /\ t \in Nat /\ v + 1 <= 3 * (t + 1)
  BY DEF TypeOK, Reduced
<1>2. Covered(v)
  BY DEF DriftInv, Holding
<1>3. r \in Unwritten
  BY DEF Unwritten
<1>4. Cardinality(Unwritten') = Cardinality(Unwritten) - 1 /\ Cardinality(Unwritten) \in Nat
  BY <1>3, FS_RemoveElement, FS_CardinalityType DEF DriftInv
<1>0. begun \in Nat /\ Cardinality(Unwritten) <= begun
  BY DEF DriftInv, TypeOK
<1>5. Reductions \in Nat /\ Reductions' = Reductions + 1
  BY <1>0, <1>4 DEF Reductions
<1>6. a \in Nat /\ b = 3 * a
  BY <1>5, PowerOfThree
<1>7. (v + 1) * a > Default
  BY <1>2 DEF Covered
<1> HIDE DEF v, t, a, b
<1>8. (v + 1) * a <= (3 * (t + 1)) * a
  BY <1>1, <1>6
<1>9. (3 * (t + 1)) * a = (t + 1) * b
  BY <1>1, <1>6
<1>10. (v + 1) * a \in Nat /\ (t + 1) * b \in Nat
  BY <1>1, <1>6
<1> QED BY <1>7, <1>8, <1>9, <1>10 DEF t, b

LEMMA DriftInvariant == Spec => []DriftInv
<1>1. Init => DriftInv
  <2> SUFFICES ASSUME Init PROVE DriftInv
    OBVIOUS
  <2>1. Unwritten = {}
    BY DEF Init, Unwritten
  <2>2. IsFiniteSet(Unwritten) /\ Cardinality(Unwritten) = 0
    BY <2>1, FS_EmptySet
  <2>3. Covered(slice)
    BY <2>2, PowerOfThree DEF Init, Covered, Reductions
  <2>4. \A v \in 0..Default : ~ (late[v] > 0)
    BY DEF Init, NoneLate
  <2> QED BY <2>2, <2>3, <2>4 DEF Init, DriftInv, Holding
<1>2. TypeOK /\ TypeOK' /\ DriftInv /\ [Next]_vars => DriftInv'
  <2> SUFFICES ASSUME TypeOK, TypeOK', DriftInv, [Next]_vars PROVE DriftInv'
    OBVIOUS
  <2> USE DEF history, world, Goto
  <2>1. ASSUME UNCHANGED begun, Unwritten' \subseteq Unwritten,
               \/ slice' = slice
               \/ \E r \in Sessions : pc[r] \in Holding /\ slice' = original[r]
               \/ slice' \in 0..Default /\ late[slice'] > 0
               \/ (slice' + 1) * Power(Reductions') > Default,
               \A v \in 0..Default : late'[v] > 0 =>
                 \/ late[v] > 0
                 \/ \E r \in Sessions : pc[r] \in Holding /\ v = original[r]
                 \/ (v + 1) * Power(Reductions') > Default,
               \A r \in Sessions : pc'[r] \in Holding =>
                 \/ pc[r] \in Holding /\ original'[r] = original[r]
                 \/ original'[r] = slice
        PROVE  DriftInv'
    <3>1. /\ IsFiniteSet(Unwritten') /\ Cardinality(Unwritten') <= begun'
          /\ \A v \in Nat : Covered(v) => (v + 1) * Power(Reductions') > Default
      BY <2>1, CoverStays DEF TypeOK
    <3>2. slice \in Nat /\ (\A r \in Sessions : original[r] \in Nat)
          /\ \A v \in 0..Default : v \in Nat
      BY DEF TypeOK
    <3>3. (slice' + 1) * Power(Reductions') > Default
      BY <2>1, <3>1, <3>2 DEF DriftInv
    <3>4. ASSUME NEW r \in Sessions, pc'[r] \in Holding
          PROVE  (original'[r] + 1) * Power(Reductions') > Default
      BY <2>1, <3>1, <3>2, <3>4 DEF DriftInv
    <3>5. ASSUME NEW v \in 0..Default, late'[v] > 0
          PROVE  (v + 1) * Power(Reductions') > Default
      BY <2>1, <3>1, <3>2, <3>5 DEF DriftInv
    <3> QED BY <3>1, <3>3, <3>4, <3>5 DEF DriftInv, Covered
  <2>2. CASE UNCHANGED vars
    BY <2>1, <2>2 DEF vars, Unwritten
  <2>3. CASE Outage \/ Recover
    <3>1. \A v \in 0..Default : late'[v] > 0 => late[v] > 0
      BY <2>3 DEF Outage, Recover, NoneLate
    <3> QED BY <2>1, <2>3, <3>1 DEF Outage, Recover, Unwritten
  <2>12. ASSUME NEW v \in 0..Default, LateWrite(v) PROVE DriftInv'
    <3>1. \A w \in 0..Default : late'[w] > 0 => late[w] > 0
      BY <2>12 DEF LateWrite, TypeOK
    <3>2. slice' \in 0..Default /\ late[slice'] > 0
      BY <2>12 DEF LateWrite
    <3> QED BY <2>1, <2>12, <3>1, <3>2 DEF LateWrite, Unwritten
  <2>4. CASE Crash
    <3>1. \A r \in Sessions : pc'[r] = IF AtWork(r) THEN "killed" ELSE pc[r]
      BY <2>4 DEF Crash
    <3>2. Unwritten' \subseteq Unwritten
      BY <3>1 DEF Unwritten
    <3>3. \A r \in Sessions : pc'[r] \in Holding => pc[r] \in Holding
      BY <3>1 DEF Holding
    <3> QED BY <2>1, <2>4, <3>2, <3>3 DEF Crash
  <2>5. ASSUME NEW r \in Sessions, Begin(r) PROVE DriftInv'
    <3>1. /\ pc[r] \in Ended \cup {"idle"}
          /\ pc' = [pc EXCEPT ![r] = "compile"]
          /\ UNCHANGED <<slice, late, original>> /\ begun' = begun + 1
      BY <2>5 DEF Begin
    <3>2. r \notin Unwritten
      BY <3>1 DEF Unwritten, Ended
    <3>3. Unwritten' = Unwritten \cup {r}
      BY <3>1 DEF Unwritten, TypeOK
    <3>4. /\ IsFiniteSet(Unwritten') /\ Cardinality(Unwritten) \in Nat
          /\ Cardinality(Unwritten') = Cardinality(Unwritten) + 1
      BY <3>2, <3>3, FS_AddElement, FS_CardinalityType DEF DriftInv
    <3>0. begun \in Nat /\ Cardinality(Unwritten) <= begun
      BY DEF DriftInv, TypeOK
    <3>5. Reductions' = Reductions /\ Cardinality(Unwritten') <= begun'
      <4>1. begun' = begun + 1
        BY <3>1
      <4> QED BY <3>0, <3>4, <4>1 DEF Reductions
    <3>6. \A s \in Sessions : pc'[s] \in Holding => pc[s] \in Holding
      BY <3>1 DEF TypeOK, Holding
    <3> QED BY <3>1, <3>4, <3>5, <3>6 DEF DriftInv, Covered
  <2>6. ASSUME NEW r \in Sessions, Compile(r) PROVE DriftInv'
    BY <2>1, <2>6 DEF Compile, Unwritten, Holding, TypeOK
  <2>7. ASSUME NEW r \in Sessions, Read(r) PROVE DriftInv'
    BY <2>1, <2>7 DEF Read, Unwritten, Holding, TypeOK
  <2>8. ASSUME NEW r \in Sessions, Before(r) PROVE DriftInv'
    BY <2>1, <2>8 DEF Before, Raise, Unwritten, Holding, TypeOK
  <2>9. ASSUME NEW r \in Sessions, Write(r) PROVE DriftInv'
    <3> DEFINE t == Reduced(original[r])
    <3>1. /\ pc[r] = "write" /\ UNCHANGED <<begun, original>>
          /\ slice' = slice \/ slice' = t
          /\ late' = late \/ late' = [late EXCEPT ![t] = @ + 1]
          /\ \E s \in {"after", "restore"} : pc' = [pc EXCEPT ![r] = s]
      BY <2>9 DEF Write, Raise, Put, PutSometime
    <3>5. \A v \in 0..Default : late'[v] > 0 => late[v] > 0 \/ v = t
      BY <3>1 DEF TypeOK
    <3>2. Unwritten' = Unwritten \ {r}
      BY <3>1 DEF Unwritten, TypeOK
    <3>3. \A s \in Sessions : pc'[s] \in Holding => pc[s] \in Holding
      BY <3>1 DEF TypeOK, Holding
    <3>4. (Reduced(original[r]) + 1) * Power(Reductions') > Default
      BY <3>1, <3>2, ThirdCovered
    <3> QED BY <2>1, <3>1, <3>2, <3>3, <3>4, <3>5
  <2>10. ASSUME NEW r \in Sessions, After(r) PROVE DriftInv'
    BY <2>1, <2>10 DEF After, Raise, Unwritten, Holding, TypeOK
  <2>11. ASSUME NEW r \in Sessions, Restore(r) PROVE DriftInv'
    <3> DEFINE o == original[r]
    <3>1. /\ pc[r] = "restore" /\ UNCHANGED <<begun, original>>
          /\ slice' = slice \/ slice' = o
          /\ late' = late \/ late' = [late EXCEPT ![o] = @ + 1]
          /\ \E s \in {"result", "dead"} : pc' = [pc EXCEPT ![r] = s]
      BY <2>11 DEF Restore, Put, PutSometime
    <3>2. Unwritten' \subseteq Unwritten /\ pc[r] \in Holding
      BY <3>1 DEF Unwritten, Holding, TypeOK
    <3>3. \A s \in Sessions : pc'[s] \in Holding => pc[s] \in Holding
      BY <3>1 DEF TypeOK, Holding
    <3>4. \A v \in 0..Default : late'[v] > 0 => late[v] > 0 \/ v = o
      BY <3>1 DEF TypeOK
    <3> QED BY <2>1, <3>1, <3>2, <3>3, <3>4
  <2> QED BY <2>2, <2>3, <2>4, <2>5, <2>6, <2>7, <2>8, <2>9, <2>10, <2>11, <2>12
          DEF Next, RunStep
<1> QED BY <1>1, <1>2, TypeCorrect, PTL DEF Spec

\* Whatever overlaps, times out, stops or crashes: each run of the experiment
\* costs the kernel's base_slice_ns at most one factor of three, and none adds
\* anything.
THEOREM DriftCorrect == Spec => []DriftBounded
<1>1. TypeOK /\ NeverAboveDefault /\ DriftInv => DriftBounded
  <2> SUFFICES ASSUME TypeOK, NeverAboveDefault, DriftInv PROVE DriftBounded
    OBVIOUS
  <2> DEFINE a == Power(Reductions)
             b == Power(begun)
  <2>1. Cardinality(Unwritten) \in Nat
    BY FS_CardinalityType DEF DriftInv
  <2>2. Reductions \in Nat /\ begun \in Nat /\ Reductions <= begun
    BY <2>1 DEF Reductions, DriftInv, TypeOK
  <2>3. a \in Nat /\ b \in Nat /\ a <= b
    BY <2>2, PowerOfThree, PowerGrows
  <2>4. slice \in Nat /\ (slice + 1) * a > Default
    BY DEF DriftInv, Covered, TypeOK
  <2> HIDE DEF a, b
  <2>5. (slice + 1) * a <= (slice + 1) * b /\ (slice + 1) * a \in Nat /\ (slice + 1) * b \in Nat
    BY <2>3, <2>4
  <2>6. (slice + 1) * b > Default
    BY <2>4, <2>5
  <2> QED BY <2>6 DEF b, Power, DriftBounded
<1> QED BY <1>1, TypeCorrect, NeverAbove, DriftInvariant, PTL
=============================================================================
