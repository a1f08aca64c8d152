------------------------ MODULE LabContainerProofs ------------------------
(***************************************************************************)
(* Proofs about LabContainer.tla for any number of callers of both kinds   *)
(* and any bounds on calls, faults and outside stops.                      *)
(***************************************************************************)
EXTENDS LabContainer, TLAPS

(***************************************************************************)
(* The inductive invariant, in parts.                                      *)
(***************************************************************************)
\* A handler is inside ensure_container exactly when it holds the loop.
LoopInv ==
  /\ \A c \in LoopCallers : pc[c] \in Inside <=> loop = c
  /\ loop \in LoopCallers \cup {Free}

\* Without faults: who is about to remove has not seen the container that
\* runs now.
StaleInv ==
  /\ \A c \in Callers : sawGen[c] <= gen
  /\ OnlyStaleChecksRemove

NotYetRun(c) == pc[c] \in {"idle", "inspect", "rm", "raised"}

\* Without faults and stops: while the container is not running, either
\* nobody has got to docker run, or somebody is just about to do it.
UpInv ==
  faults = 0 /\ stops = 0 =>
    /\ box = "stopped" => \A c \in Callers : NotYetRun(c)
    /\ box = "absent" => (\E c \in Callers : pc[c] = "run") \/ \A c \in Callers : NotYetRun(c)

\* What a caller at an equipment step is still going to add.
Ahead(c) ==
  CASE pc[c] = "debugfs" -> Equipment
    [] pc[c] = "tracefs" -> {"tracefs", "iproute2"}
    [] pc[c] = "iproute2" -> {"iproute2"}
    [] OTHER -> {}

\* Without faults: a running container has everything, or some caller will
\* add all it lacks.
EquipInv ==
  faults = 0 /\ box = "running" =>
    equipped = Equipment \/ \E c \in Callers : Equipment = equipped \cup Ahead(c)

IInv == TypeOK /\ LoopInv /\ StaleInv /\ UpInv /\ EquipInv

(***************************************************************************)
(* What one caller's step does, whatever the outcome of its command.       *)
(***************************************************************************)
\* An outcome without a fault is the command done and no exception.
LEMMA CleanOutcome ==
  ASSUME TypeOK, NEW o \in Outcomes
  PROVE  /\ o.done \in BOOLEAN /\ o.raised \in BOOLEAN
         /\ IsFault(o) \in BOOLEAN
         /\ ~ IsFault(o) <=> (o.done /\ ~ o.raised)
<1>1. o \in {[done |-> TRUE, raised |-> FALSE], [done |-> FALSE, raised |-> FALSE],
             [done |-> TRUE, raised |-> TRUE], [done |-> FALSE, raised |-> TRUE]}
  BY DEF Outcomes
<1>2. (o.done = TRUE \/ o.done = FALSE) /\ (o.raised = TRUE \/ o.raised = FALSE)
  <2>1. CASE o = [done |-> TRUE, raised |-> FALSE]
    BY <2>1
  <2>2. CASE o = [done |-> FALSE, raised |-> FALSE]
    BY <2>2
  <2>3. CASE o = [done |-> TRUE, raised |-> TRUE]
    BY <2>3
  <2>4. CASE o = [done |-> FALSE, raised |-> TRUE]
    BY <2>4
  <2> QED BY <1>1, <2>1, <2>2, <2>3, <2>4
<1> QED BY <1>2 DEF IsFault

\* The fault counter never falls, and stays only if the outcome is clean.
LEMMA ProceedEffect ==
  ASSUME TypeOK, NEW c \in Callers, NEW o \in Outcomes, NEW step, Proceed(c, o, step)
  PROVE  /\ pc' = [pc EXCEPT ![c] = IF o.raised THEN "raised" ELSE step]
         /\ faults' \in Nat
         /\ faults' = 0 => faults = 0 /\ o.done /\ ~ o.raised
         /\ loop' = IF c \in LoopCallers /\ pc'[c] \notin Inside THEN Free ELSE loop
<1>1. faults \in Nat /\ pc' = [pc EXCEPT ![c] = IF o.raised THEN "raised" ELSE step]
  BY DEF TypeOK, Proceed, Goto
<1>2. faults' = IF IsFault(o) THEN faults + 1 ELSE faults
  BY DEF Proceed
<1>3. pc'[c] = IF o.raised THEN "raised" ELSE step
  BY <1>1 DEF TypeOK
<1>4. CASE IsFault(o)
  <2>1. faults' = faults + 1
    BY <1>2, <1>4
  <2> QED BY <1>1, <1>3, <2>1 DEF Proceed, Goto
<1>5. CASE ~ IsFault(o)
  BY <1>1, <1>2, <1>3, <1>5, CleanOutcome DEF Proceed, Goto
<1> QED BY <1>4, <1>5, CleanOutcome

\* The initial state satisfies the invariant.
LEMMA InitInv == Init => IInv
BY FreeAssumption
   DEF Init, IInv, TypeOK, LoopInv, StaleInv, OnlyStaleChecksRemove, UpInv, NotYetRun,
       EquipInv, Callers, Inside, Equipment

\* Inspect changes nothing of the container; it sends the caller on to rm,
\* unless it saw the container run.
LEMMA InspectEffect ==
  ASSUME TypeOK, NEW c \in Callers, Inspect(c)
  PROVE  /\ pc[c] = "inspect" /\ UNCHANGED <<container, report, calls, stops>>
         /\ sawGen' = [sawGen EXCEPT ![c] = gen] /\ faults' \in Nat
         /\ loop' = IF c \in LoopCallers /\ pc'[c] \notin Inside THEN Free ELSE loop
         /\ \E step \in {"ready", "rm", "raised"} :
              /\ pc' = [pc EXCEPT ![c] = step]
              /\ step = "ready" => box = "running"
              /\ faults' = 0 => faults = 0 /\ (step = "ready" <=> box = "running") /\ step # "raised"
<1>1. PICK o \in Outcomes : Proceed(c, o, IF o.done /\ box = "running" THEN "ready" ELSE "rm")
  BY DEF Inspect
<1>2. pc[c] = "inspect" /\ UNCHANGED <<container, report, calls, stops>>
      /\ sawGen' = [sawGen EXCEPT ![c] = gen]
  BY DEF Inspect
<1>3. CASE o.raised
  BY <1>1, <1>2, <1>3, ProceedEffect
<1>4. CASE ~ o.raised /\ o.done /\ box = "running"
  BY <1>1, <1>2, <1>4, ProceedEffect
<1>5. CASE ~ o.raised /\ ~ (o.done /\ box = "running")
  BY <1>1, <1>2, <1>5, ProceedEffect
<1> QED BY <1>3, <1>4, <1>5

\* Remove deletes the container or, at fault, leaves it.
LEMMA RemoveEffect ==
  ASSUME TypeOK, NEW c \in Callers, Remove(c)
  PROVE  /\ pc[c] = "rm" /\ UNCHANGED <<gen, sawGen, report, calls, stops>> /\ faults' \in Nat
         /\ loop' = IF c \in LoopCallers /\ pc'[c] \notin Inside THEN Free ELSE loop
         /\ \/ box' = "absent" /\ equipped' = {}
            \/ box' = box /\ equipped' = equipped
         /\ \E step \in {"run", "raised"} :
              /\ pc' = [pc EXCEPT ![c] = step]
              /\ faults' = 0 => faults = 0 /\ step = "run" /\ box' = "absent"
<1>1. PICK o \in Outcomes :
        /\ Proceed(c, o, "run")
        /\ box' = IF o.done THEN "absent" ELSE box
        /\ equipped' = IF o.done THEN {} ELSE equipped
  BY DEF Remove
<1>2. pc[c] = "rm" /\ UNCHANGED <<gen, sawGen, report, calls, stops>>
  BY DEF Remove
<1>3. CASE o.raised
  BY <1>1, <1>2, <1>3, ProceedEffect
<1>4. CASE ~ o.raised
  BY <1>1, <1>2, <1>4, ProceedEffect
<1> QED BY <1>3, <1>4

\* Run creates a container where there is none.
LEMMA RunEffect ==
  ASSUME TypeOK, NEW c \in Callers, Run(c)
  PROVE  /\ pc[c] = "run" /\ UNCHANGED <<sawGen, report, calls, stops>> /\ faults' \in Nat
         /\ loop' = IF c \in LoopCallers /\ pc'[c] \notin Inside THEN Free ELSE loop
         /\ \/ box = "absent" /\ box' = "running" /\ gen' = gen + 1 /\ equipped' = {}
            \/ UNCHANGED container
         /\ \E step \in {"debugfs", "raised"} :
              /\ pc' = [pc EXCEPT ![c] = step]
              /\ faults' = 0 => faults = 0 /\ step = "debugfs" /\ box' # "absent"
<1>1. PICK o \in Outcomes :
        /\ Proceed(c, o, "debugfs")
        /\ IF o.done /\ box = "absent"
             THEN box' = "running" /\ gen' = gen + 1 /\ equipped' = {}
             ELSE UNCHANGED container
  BY DEF Run
<1>2. pc[c] = "run" /\ UNCHANGED <<sawGen, report, calls, stops>>
  BY DEF Run
<1>3. (o.done /\ box' # "absent") \/ ~ o.done
  BY <1>1 DEF container
<1>4. CASE o.raised
  BY <1>1, <1>2, <1>3, <1>4, ProceedEffect
<1>5. CASE ~ o.raised
  BY <1>1, <1>2, <1>3, <1>5, ProceedEffect
<1> QED BY <1>4, <1>5

\* Equip adds its piece to a running container.
LEMMA EquipEffect ==
  ASSUME TypeOK, NEW c \in Callers, Equip(c)
  PROVE  /\ pc[c] \in Equipment /\ UNCHANGED <<box, gen, sawGen, report, calls, stops>>
         /\ faults' \in Nat
         /\ loop' = IF c \in LoopCallers /\ pc'[c] \notin Inside THEN Free ELSE loop
         /\ equipped' \in {equipped, equipped \cup {pc[c]}}
         /\ \E step \in {After[pc[c]], "raised"} :
              /\ pc' = [pc EXCEPT ![c] = step]
              /\ faults' = 0 =>
                   /\ faults = 0 /\ step = After[pc[c]]
                   /\ box = "running" => equipped' = equipped \cup {pc[c]}
<1>1. PICK o \in Outcomes :
        /\ Proceed(c, o, After[pc[c]])
        /\ equipped' = IF o.done /\ box = "running" THEN equipped \cup {pc[c]} ELSE equipped
  BY DEF Equip
<1>2. pc[c] \in Equipment /\ UNCHANGED <<box, gen, sawGen, report, calls, stops>>
  BY DEF Equip
<1>3. CASE o.raised
  BY <1>1, <1>2, <1>3, ProceedEffect
<1>4. CASE ~ o.raised
  BY <1>1, <1>2, <1>4, ProceedEffect
<1> QED BY <1>3, <1>4

\* The two steps of get_environment_info change nothing of the container.
LEMMA AskEffect ==
  ASSUME TypeOK, NEW c \in Callers, Check(c) \/ Read(c)
  PROVE  /\ pc[c] \in {"ready", "read"} /\ UNCHANGED <<container, sawGen, calls, stops>>
         /\ faults' \in Nat /\ (faults' = 0 => faults = 0)
         /\ c \in ThreadCallers /\ loop' = loop
         /\ \E step \in {"read", "answered", "raised"} :
              /\ pc' = [pc EXCEPT ![c] = step]
              /\ faults' = 0 => step # "raised"
         /\ \E answer \in {report[c], "disconnected", "connected", "unknown"} :
              /\ report' = [report EXCEPT ![c] = answer]
              /\ faults' = 0 /\ pc'[c] = "answered" /\ answer \in {"disconnected", "unknown"}
                   => box # "running"
<1>1. CASE Check(c)
  <2>1. PICK o \in Outcomes :
          /\ Proceed(c, o, IF o.done /\ box = "running" THEN "read" ELSE "answered")
          /\ report' = IF ~ (o.done /\ box = "running") /\ ~ o.raised
                         THEN [report EXCEPT ![c] = "disconnected"] ELSE report
    BY <1>1 DEF Check
  <2>2. /\ pc[c] = "ready" /\ UNCHANGED <<container, sawGen, calls, stops>>
        /\ c \in ThreadCallers /\ c \notin LoopCallers
    BY <1>1, CallerAssumption DEF Check
  <2>3. CASE o.raised
    BY <2>1, <2>2, <2>3, ProceedEffect DEF TypeOK
  <2>4. CASE ~ o.raised /\ o.done /\ box = "running"
    BY <2>1, <2>2, <2>4, ProceedEffect DEF TypeOK
  <2>5. CASE ~ o.raised /\ ~ (o.done /\ box = "running")
    BY <2>1, <2>2, <2>5, ProceedEffect DEF TypeOK
  <2> QED BY <2>3, <2>4, <2>5
<1>2. CASE Read(c)
  <2>1. PICK o \in Outcomes :
          /\ Proceed(c, o, "answered")
          /\ report' = CASE o.raised -> report
                         [] ~ o.raised /\ o.done /\ box = "running" ->
                              [report EXCEPT ![c] = "connected"]
                         [] OTHER -> [report EXCEPT ![c] = "unknown"]
    BY <1>2 DEF Read
  <2>2. /\ pc[c] = "read" /\ UNCHANGED <<container, sawGen, calls, stops>>
        /\ c \in ThreadCallers /\ c \notin LoopCallers
    BY <1>2, CallerAssumption DEF Read
  <2>3. CASE o.raised
    BY <2>1, <2>2, <2>3, ProceedEffect DEF TypeOK
  <2>4. CASE ~ o.raised /\ o.done /\ box = "running"
    BY <2>1, <2>2, <2>4, ProceedEffect DEF TypeOK
  <2>5. CASE ~ o.raised /\ ~ (o.done /\ box = "running")
    BY <2>1, <2>2, <2>5, ProceedEffect DEF TypeOK
  <2> QED BY <2>3, <2>4, <2>5
<1> QED BY <1>1, <1>2

\* A step of c moves no other caller and gives the loop back or keeps it.
LEMMA StepFrame ==
  ASSUME TypeOK, NEW c \in Callers, Step(c)
  PROVE  /\ \A d \in Callers \ {c} : pc'[d] = pc[d]
         /\ c \in ThreadCallers => loop' = loop
         /\ stops' = stops
         /\ faults' = 0 => faults = 0
<1>1. CASE Inspect(c)
  BY <1>1, InspectEffect, CallerAssumption DEF TypeOK
<1>2. CASE Remove(c)
  BY <1>2, RemoveEffect, CallerAssumption DEF TypeOK
<1>3. CASE Run(c)
  BY <1>3, RunEffect, CallerAssumption DEF TypeOK
<1>4. CASE Equip(c)
  BY <1>4, EquipEffect, CallerAssumption DEF TypeOK
<1>5. CASE Check(c) \/ Read(c)
  BY <1>5, AskEffect DEF TypeOK
<1> QED BY <1>1, <1>2, <1>3, <1>4, <1>5 DEF Step

(***************************************************************************)
(* The parts of the invariant.                                             *)
(***************************************************************************)
\* Every step keeps the types.
LEMMA TypeStep ==
  ASSUME TypeOK, [Next]_vars
  PROVE  TypeOK'
<1> USE DEF container, Inside, Equipment, Asking
<1>1. CASE UNCHANGED vars
  BY <1>1 DEF vars, TypeOK
<1>2. CASE StopOutside
  BY <1>2 DEF StopOutside, TypeOK
<1>3. ASSUME NEW c \in Callers, Call(c)
      PROVE  TypeOK'
  BY <1>3 DEF Call, Callers, TypeOK
<1>4. ASSUME NEW c \in Callers, Inspect(c)
      PROVE  TypeOK'
  <2>1. PICK step \in {"ready", "rm", "raised"} : pc' = [pc EXCEPT ![c] = step]
    BY <1>4, InspectEffect
  <2>2. pc' \in [Callers -> Inside \cup {"idle", "ready", "read", "answered", "raised"}]
    BY <2>1 DEF TypeOK
  <2>3. /\ UNCHANGED <<box, gen, equipped, report, calls, stops>> /\ faults' \in Nat
        /\ sawGen' = [sawGen EXCEPT ![c] = gen] /\ loop' \in {Free, loop}
    BY <1>4, InspectEffect
  <2> QED BY <2>2, <2>3 DEF TypeOK
<1>5. ASSUME NEW c \in Callers, Remove(c)
      PROVE  TypeOK'
  BY <1>5, RemoveEffect DEF TypeOK
<1>6. ASSUME NEW c \in Callers, Run(c)
      PROVE  TypeOK'
  <2>1. PICK step \in {"debugfs", "raised"} : pc' = [pc EXCEPT ![c] = step]
    BY <1>6, RunEffect
  <2>2. pc' \in [Callers -> Inside \cup {"idle", "ready", "read", "answered", "raised"}]
    BY <2>1 DEF TypeOK
  <2>3. /\ UNCHANGED <<sawGen, report, calls, stops>> /\ faults' \in Nat /\ loop' \in {Free, loop}
        /\ box' \in {"running", box} /\ gen' \in {gen, gen + 1} /\ equipped' \in {equipped, {}}
    BY <1>6, RunEffect
  <2> QED BY <2>2, <2>3 DEF TypeOK
<1>7. ASSUME NEW c \in Callers, Equip(c)
      PROVE  TypeOK'
  <2>1. PICK step \in {After[pc[c]], "raised"} : pc' = [pc EXCEPT ![c] = step]
    BY <1>7, EquipEffect
  <2>2. After[pc[c]] \in {"tracefs", "iproute2", "ready"}
    BY <1>7, EquipEffect DEF After
  <2>3. pc' \in [Callers -> Inside \cup {"idle", "ready", "read", "answered", "raised"}]
    BY <2>1, <2>2 DEF TypeOK
  <2>4. equipped' \in SUBSET Equipment
    <3>1. equipped' \in {equipped, equipped \cup {pc[c]}} /\ pc[c] \in Equipment
      BY <1>7, EquipEffect
    <3> QED BY <3>1 DEF TypeOK
  <2>5. /\ UNCHANGED <<box, gen, sawGen, report, calls, stops>>
        /\ faults' \in Nat /\ loop' \in {Free, loop}
    BY <1>7, EquipEffect
  <2> QED BY <2>3, <2>4, <2>5 DEF TypeOK
<1>8. ASSUME NEW c \in Callers, Check(c) \/ Read(c)
      PROVE  TypeOK'
  BY <1>8, AskEffect DEF TypeOK
<1> QED BY <1>1, <1>2, <1>3, <1>4, <1>5, <1>6, <1>7, <1>8 DEF Next, Step

\* A step takes the loop only when it is free, and gives it back on leaving.
LEMMA LoopStep ==
  ASSUME TypeOK, LoopInv, [Next]_vars
  PROVE  LoopInv'
<1> USE DEF Inside, Equipment, Asking, container
<1>1. CASE UNCHANGED vars \/ StopOutside
  BY <1>1 DEF vars, StopOutside, LoopInv
<1>2. ASSUME NEW c \in Callers, Call(c)
      PROVE  LoopInv'
  BY <1>2, FreeAssumption DEF Call, LoopInv, TypeOK, Callers
<1>3. ASSUME NEW c \in Callers, Step(c)
      PROVE  LoopInv'
  <2>1. CASE c \in ThreadCallers
    <3>1. \A d \in LoopCallers : pc'[d] = pc[d]
      BY <1>3, <2>1, CallerAssumption, StepFrame DEF Callers
    <3>2. loop' = loop
      BY <1>3, <2>1, StepFrame
    <3> QED BY <3>1, <3>2 DEF LoopInv
  <2>2. CASE c \in LoopCallers
    <3>1. Inspect(c) \/ Remove(c) \/ Run(c) \/ Equip(c)
      BY <1>3, <2>2, CallerAssumption DEF Step, Check, Read
    <3>2. /\ pc[c] \in Inside
          /\ \A d \in LoopCallers \ {c} : pc'[d] = pc[d]
          /\ loop' = IF pc'[c] \notin Inside THEN Free ELSE loop
      BY <2>2, <3>1, InspectEffect, RemoveEffect, RunEffect, EquipEffect DEF TypeOK, Callers
    <3>3. loop = c /\ c # Free
      BY <2>2, <3>2, FreeAssumption DEF LoopInv, Callers
    <3>4. Free \notin LoopCallers
      BY FreeAssumption DEF Callers
    <3> QED BY <2>2, <3>2, <3>3, <3>4 DEF LoopInv
  <2> QED BY <2>1, <2>2 DEF Callers
<1> QED BY <1>1, <1>2, <1>3 DEF Next

\* Only docker run makes a container run, and it makes a new one.
LEMMA StaleStep ==
  ASSUME TypeOK, StaleInv, [Next]_vars
  PROVE  StaleInv'
<1> USE DEF container
<1>1. CASE UNCHANGED vars \/ StopOutside
  BY <1>1 DEF vars, StopOutside, StaleInv, OnlyStaleChecksRemove
<1>2. ASSUME NEW c \in Callers, Call(c)
      PROVE  StaleInv'
  BY <1>2 DEF Call, StaleInv, OnlyStaleChecksRemove, TypeOK
<1>3. ASSUME NEW c \in Callers, Inspect(c)
      PROVE  StaleInv'
  <2>1. PICK step \in {"ready", "rm", "raised"} :
          /\ pc' = [pc EXCEPT ![c] = step]
          /\ faults' = 0 => faults = 0 /\ (step = "ready" <=> box = "running") /\ step # "raised"
    BY <1>3, InspectEffect
  <2>2. UNCHANGED <<box, gen>> /\ sawGen' = [sawGen EXCEPT ![c] = gen]
    BY <1>3, InspectEffect
  <2> QED BY <2>1, <2>2 DEF StaleInv, OnlyStaleChecksRemove, TypeOK
<1>4. ASSUME NEW c \in Callers, Remove(c)
      PROVE  StaleInv'
  <2>1. PICK step \in {"run", "raised"} : pc' = [pc EXCEPT ![c] = step]
    BY <1>4, RemoveEffect
  <2>2. UNCHANGED <<gen, sawGen>> /\ box' \in {box, "absent"} /\ (faults' = 0 => faults = 0)
    BY <1>4, RemoveEffect
  <2> QED BY <2>1, <2>2 DEF StaleInv, OnlyStaleChecksRemove, TypeOK
<1>5. ASSUME NEW c \in Callers, Run(c)
      PROVE  StaleInv'
  <2>1. PICK step \in {"debugfs", "raised"} : pc' = [pc EXCEPT ![c] = step]
    BY <1>5, RunEffect
  <2>2. /\ sawGen' = sawGen /\ (faults' = 0 => faults = 0)
        /\ gen' = gen + 1 \/ UNCHANGED <<box, gen>>
    BY <1>5, RunEffect
  <2> QED BY <2>1, <2>2 DEF StaleInv, OnlyStaleChecksRemove, TypeOK
<1>6. ASSUME NEW c \in Callers, Equip(c)
      PROVE  StaleInv'
  <2>1. PICK step \in {After[pc[c]], "raised"} : pc' = [pc EXCEPT ![c] = step]
    BY <1>6, EquipEffect
  <2>2. UNCHANGED <<box, gen, sawGen>> /\ (faults' = 0 => faults = 0) /\ step # "rm"
    <3>1. pc[c] \in {"debugfs", "tracefs", "iproute2"}
      BY <1>6, EquipEffect DEF Equipment
    <3>2. After[pc[c]] # "rm"
      BY <3>1 DEF After
    <3> QED BY <1>6, <2>1, <3>2, EquipEffect
  <2> QED BY <2>1, <2>2 DEF StaleInv, OnlyStaleChecksRemove, TypeOK
<1>7. ASSUME NEW c \in Callers, Check(c) \/ Read(c)
      PROVE  StaleInv'
  <2>1. PICK step \in {"read", "answered", "raised"} : pc' = [pc EXCEPT ![c] = step]
    BY <1>7, AskEffect
  <2>2. UNCHANGED <<box, gen, sawGen>> /\ (faults' = 0 => faults = 0)
    BY <1>7, AskEffect
  <2> QED BY <2>1, <2>2 DEF StaleInv, OnlyStaleChecksRemove, TypeOK
<1> QED BY <1>1, <1>2, <1>3, <1>4, <1>5, <1>6, <1>7 DEF Next, Step

\* The caller that removes the container is the one that creates it again,
\* or finds that another has.
LEMMA UpStep ==
  ASSUME TypeOK, UpInv, [Next]_vars
  PROVE  UpInv'
<1> USE DEF container
<1>0. SUFFICES ASSUME faults' = 0, stops' = 0
               PROVE  /\ box' = "stopped" => \A c \in Callers : NotYetRun(c)'
                      /\ box' = "absent" => \/ \E c \in Callers : pc'[c] = "run"
                                           \/ \A c \in Callers : NotYetRun(c)'
  BY DEF UpInv
<1>1. CASE UNCHANGED vars
  BY <1>0, <1>1 DEF vars, UpInv, NotYetRun
<1>2. CASE StopOutside
  BY <1>0, <1>2 DEF StopOutside, TypeOK
<1>3. ASSUME NEW c \in Callers, Call(c)
      PROVE  UpInv'
  <2>1. /\ pc' = [pc EXCEPT ![c] = "inspect"] /\ box' = box /\ faults = 0 /\ stops = 0
        /\ pc[c] # "run"
    BY <1>0, <1>3 DEF Call, Inside
  <2> QED BY <2>1 DEF UpInv, NotYetRun, TypeOK
<1>4. ASSUME NEW c \in Callers, Inspect(c)
      PROVE  UpInv'
  <2>1. PICK step \in {"ready", "rm", "raised"} :
          /\ pc' = [pc EXCEPT ![c] = step]
          /\ faults = 0 /\ (step = "ready" <=> box = "running")
    BY <1>0, <1>4, InspectEffect
  <2>2. box' = box /\ stops = 0 /\ pc[c] = "inspect"
    BY <1>0, <1>4, InspectEffect
  <2> QED BY <2>1, <2>2 DEF UpInv, NotYetRun, TypeOK
<1>5. ASSUME NEW c \in Callers, Remove(c)
      PROVE  UpInv'
  <2>1. pc' = [pc EXCEPT ![c] = "run"] /\ box' = "absent"
    BY <1>0, <1>5, RemoveEffect
  <2> QED BY <2>1 DEF UpInv, TypeOK
<1>6. ASSUME NEW c \in Callers, Run(c)
      PROVE  UpInv'
  <2>1. /\ pc[c] = "run" /\ faults = 0 /\ stops = 0 /\ box' # "absent"
        /\ box' = "running" \/ box' = box
    BY <1>0, <1>6, RunEffect
  <2>2. box # "stopped"
    BY <2>1 DEF UpInv, NotYetRun
  <2> QED BY <2>1, <2>2 DEF UpInv
<1>7. ASSUME NEW c \in Callers, Equip(c)
      PROVE  UpInv'
  <2>1. PICK step \in {After[pc[c]], "raised"} : pc' = [pc EXCEPT ![c] = step]
    BY <1>7, EquipEffect
  <2>2. box' = box /\ faults = 0 /\ stops = 0 /\ pc[c] \in Equipment
    BY <1>0, <1>7, EquipEffect
  <2>3. ~ NotYetRun(c) /\ pc[c] # "run"
    BY <2>2 DEF NotYetRun, Equipment
  <2> QED BY <2>1, <2>2, <2>3 DEF UpInv, TypeOK
<1>8. ASSUME NEW c \in Callers, Check(c) \/ Read(c)
      PROVE  UpInv'
  <2>1. PICK step \in {"read", "answered", "raised"} : pc' = [pc EXCEPT ![c] = step]
    BY <1>8, AskEffect
  <2>2. box' = box /\ faults = 0 /\ stops = 0 /\ pc[c] \in {"ready", "read"}
    BY <1>0, <1>8, AskEffect
  <2>3. ~ NotYetRun(c) /\ pc[c] # "run"
    BY <2>2 DEF NotYetRun
  <2> QED BY <2>1, <2>2, <2>3 DEF UpInv, TypeOK
<1> QED BY <1>0, <1>1, <1>2, <1>3, <1>4, <1>5, <1>6, <1>7, <1>8 DEF Next, Step, UpInv

\* The caller that created the container goes through all equipment steps;
\* others can only add to what it does.
LEMMA EquipStep ==
  ASSUME TypeOK, EquipInv, [Next]_vars
  PROVE  EquipInv'
<1> USE DEF container
<1>0. SUFFICES ASSUME faults' = 0, box' = "running"
               PROVE  equipped' = Equipment \/ \E c \in Callers : Equipment = equipped' \cup Ahead(c)'
  BY DEF EquipInv
\* Steps that leave the container and every caller at an equipment step be.
<1>a. ASSUME UNCHANGED <<box, equipped>>, faults = 0,
             \A d \in Callers : pc[d] \in Equipment => pc'[d] = pc[d]
      PROVE  EquipInv'
  <2>1. \A d \in Callers : Ahead(d) # {} => Ahead(d)' = Ahead(d)
    BY <1>a DEF Ahead, Equipment
  <2> QED BY <1>0, <1>a, <2>1 DEF EquipInv
<1>1. CASE UNCHANGED vars
  <2>1. UNCHANGED <<box, equipped>> /\ faults = 0
    BY <1>0, <1>1 DEF vars
  <2>2. \A d \in Callers : pc[d] \in Equipment => pc'[d] = pc[d]
    BY <1>1 DEF vars
  <2> QED BY <1>0, <1>a, <2>1, <2>2 DEF EquipInv
<1>2. CASE StopOutside
  BY <1>0, <1>2 DEF StopOutside
<1>3. ASSUME NEW c \in Callers, Call(c)
      PROVE  EquipInv'
  BY <1>0, <1>3, <1>a DEF Call, Inside, TypeOK
<1>4. ASSUME NEW c \in Callers, Inspect(c)
      PROVE  EquipInv'
  <2>1. \A d \in Callers : pc[d] \in Equipment => pc'[d] = pc[d]
    BY <1>4, StepFrame, InspectEffect DEF Step, Equipment
  <2>2. UNCHANGED <<box, equipped>> /\ faults = 0
    BY <1>0, <1>4, InspectEffect
  <2> QED BY <1>a, <2>1, <2>2
<1>5. ASSUME NEW c \in Callers, Remove(c)
      PROVE  EquipInv'
  BY <1>0, <1>5, RemoveEffect
<1>6. ASSUME NEW c \in Callers, Run(c)
      PROVE  EquipInv'
  <2>1. /\ pc' = [pc EXCEPT ![c] = "debugfs"] /\ faults = 0 /\ pc[c] = "run"
        /\ equipped' = {} \/ UNCHANGED <<box, equipped>>
    BY <1>0, <1>6, RunEffect
  <2>2. pc'[c] = "debugfs" /\ Ahead(c)' = Equipment
    BY <2>1 DEF TypeOK, Ahead
  <2>3. equipped' \cup Equipment = Equipment
    BY <2>1 DEF TypeOK
  <2> QED BY <2>2, <2>3 DEF EquipInv
<1>7. ASSUME NEW c \in Callers, Equip(c)
      PROVE  EquipInv'
  <2>1. /\ pc' = [pc EXCEPT ![c] = After[pc[c]]] /\ faults = 0 /\ box = "running"
        /\ equipped' = equipped \cup {pc[c]} /\ pc[c] \in {"debugfs", "tracefs", "iproute2"}
    BY <1>0, <1>7, EquipEffect DEF Equipment
  <2>2. equipped \subseteq Equipment /\ pc[c] \in Equipment
    BY <2>1 DEF TypeOK, Equipment
  <2>3. CASE equipped = Equipment
    BY <2>1, <2>2, <2>3 DEF EquipInv
  <2>4. ASSUME NEW d \in Callers, d # c, Equipment = equipped \cup Ahead(d)
        PROVE  EquipInv'
    <3>1. Ahead(d)' = Ahead(d)
      BY <2>1, <2>4 DEF Ahead, TypeOK
    <3> QED BY <2>1, <2>2, <2>4, <3>1 DEF EquipInv
  <2>5. CASE Equipment = equipped \cup Ahead(c)
    <3>1. Ahead(c) \subseteq {pc[c]} \cup Ahead(c)'
      <4>1. pc'[c] = After[pc[c]]
        BY <2>1 DEF TypeOK
      <4>2. CASE pc[c] = "debugfs"
        BY <4>1, <4>2 DEF Ahead, After, Equipment
      <4>3. CASE pc[c] = "tracefs"
        BY <4>1, <4>3 DEF Ahead, After, Equipment
      <4>4. CASE pc[c] = "iproute2"
        BY <4>1, <4>4 DEF Ahead, After, Equipment
      <4> QED BY <2>1, <4>2, <4>3, <4>4
    <3>2. Ahead(c)' \subseteq Equipment
      BY DEF Ahead, Equipment
    <3>3. Equipment = equipped' \cup Ahead(c)'
      BY <2>1, <2>2, <2>5, <3>1, <3>2
    <3> QED BY <3>3 DEF EquipInv
  <2> QED BY <2>1, <2>3, <2>4, <2>5 DEF EquipInv
<1>8. ASSUME NEW c \in Callers, Check(c) \/ Read(c)
      PROVE  EquipInv'
  <2>1. \A d \in Callers : pc[d] \in Equipment => pc'[d] = pc[d]
    BY <1>8, StepFrame, AskEffect DEF Step, Equipment
  <2>2. UNCHANGED <<box, equipped>> /\ faults = 0
    BY <1>0, <1>8, AskEffect
  <2> QED BY <1>a, <2>1, <2>2
<1> QED BY <1>0, <1>1, <1>2, <1>3, <1>4, <1>5, <1>6, <1>7, <1>8 DEF Next, Step, EquipInv

(***************************************************************************)
(* Theorems.                                                               *)
(***************************************************************************)
\* The invariant holds in every reachable state.
THEOREM Invariance == Spec => []IInv
<1>1. IInv /\ [Next]_vars => IInv'
  BY TypeStep, LoopStep, StaleStep, UpStep, EquipStep DEF IInv
<1> QED BY InitInv, <1>1, PTL DEF Spec

\* Every variable has the values its declaration names.
THEOREM TypeCorrect == Spec => []TypeOK
BY Invariance, PTL DEF IInv

\* However the calls of ensure_container interleave, a running container is
\* removed only by a call whose inspect is older than the container.
THEOREM StaleChecksOnly == Spec => []OnlyStaleChecksRemove
<1>1. IInv => OnlyStaleChecksRemove
  BY DEF IInv, StaleInv
<1> QED BY Invariance, <1>1, PTL

\* Once a call got past docker run, the container is up or about to be
\* created again, for any number of callers.
THEOREM StaysUp == Spec => []UpOnceCreated
<1>1. IInv => UpOnceCreated
  BY DEF IInv, TypeOK, UpInv, UpOnceCreated, NotYetRun, Equipment
<1> QED BY Invariance, <1>1, PTL

\* When no call is in progress a running container is fully equipped.
THEOREM QuietMeansEquipped == Spec => []EquippedWhenQuiet
<1>1. IInv => EquippedWhenQuiet
  <2> SUFFICES ASSUME IInv, faults = 0, box = "running", \A c \in Callers : pc[c] \notin Inside
               PROVE  equipped = Equipment
    BY DEF EquippedWhenQuiet
  <2>1. \A c \in Callers : Ahead(c) = {}
    BY DEF Ahead, Inside, Equipment
  <2> QED BY <2>1 DEF IInv, EquipInv
<1> QED BY Invariance, <1>1, PTL

\* /api/environment reports the container down only while it is recreated.
THEOREM DownReportsExplained == Spec => DownOnlyDuringRecreation
<1>1. IInv /\ [Next]_vars =>
        [\A c \in Callers :
           (Check(c) \/ Read(c)) /\ faults' = 0 /\ stops = 0
             /\ report'[c] \in {"disconnected", "unknown"} /\ pc'[c] = "answered"
           => \E d \in Callers : pc[d] = "run"]_vars
  <2> SUFFICES ASSUME IInv, NEW c \in Callers, Check(c) \/ Read(c), faults' = 0, stops = 0,
                      report'[c] \in {"disconnected", "unknown"}, pc'[c] = "answered"
               PROVE  \E d \in Callers : pc[d] = "run"
    OBVIOUS
  <2>0. TypeOK /\ UpInv
    BY DEF IInv
  <2>1. faults = 0 /\ pc[c] \in {"ready", "read"}
    BY <2>0, AskEffect
  <2>2. PICK answer \in {report[c], "disconnected", "connected", "unknown"} :
          /\ report' = [report EXCEPT ![c] = answer]
          /\ answer \in {"disconnected", "unknown"} => box # "running"
    BY <2>0, AskEffect
  <2>3. answer \in {"disconnected", "unknown"}
    BY <2>0, <2>2 DEF TypeOK
  <2> QED BY <2>0, <2>1, <2>2, <2>3 DEF UpInv, NotYetRun, TypeOK
<1> QED BY Invariance, <1>1, PTL DEF Spec, DownOnlyDuringRecreation

(***************************************************************************)
(* The event loop's handlers alone.                                        *)
(***************************************************************************)
\* While only handlers have called and nothing failed, a caller about to
\* remove still finds the container down.
SoloInv ==
  NoThreadCalled /\ faults = 0 => \A c \in Callers : pc[c] = "rm" => box # "running"

\* A caller that took a step is never idle again: if no thread has called
\* afterwards, none had before, and the step was a handler's.
LEMMA HandlerMoved ==
  ASSUME TypeOK, NEW c \in Callers, Call(c) \/ Step(c), NoThreadCalled'
  PROVE  NoThreadCalled /\ c \in LoopCallers
<1>1. \A d \in Callers \ {c} : pc'[d] = pc[d]
  BY StepFrame DEF Call, TypeOK
<1>2. pc'[c] # "idle"
  <2>1. CASE Call(c)
    BY <2>1 DEF Call, TypeOK
  <2>2. CASE Inspect(c)
    BY <2>2, InspectEffect DEF TypeOK
  <2>3. CASE Remove(c)
    BY <2>3, RemoveEffect DEF TypeOK
  <2>4. CASE Run(c)
    BY <2>4, RunEffect DEF TypeOK
  <2>5. CASE Equip(c)
    <3>1. pc[c] \in {"debugfs", "tracefs", "iproute2"}
      BY <2>5, EquipEffect DEF Equipment
    <3>2. After[pc[c]] # "idle"
      BY <3>1 DEF After
    <3> QED BY <2>5, <3>2, EquipEffect DEF TypeOK
  <2>6. CASE Check(c) \/ Read(c)
    BY <2>6, AskEffect DEF TypeOK
  <2> QED BY <2>1, <2>2, <2>3, <2>4, <2>5, <2>6 DEF Step
<1>3. c \notin ThreadCallers
  BY <1>2 DEF NoThreadCalled
<1> QED BY <1>1, <1>3 DEF NoThreadCalled, Callers

\* A handler's check and its rm have no other handler's step between them.
LEMMA SoloStep ==
  ASSUME TypeOK, LoopInv, SoloInv, [Next]_vars
  PROVE  SoloInv'
<1> SUFFICES ASSUME NoThreadCalled', faults' = 0
             PROVE  \A c \in Callers : pc'[c] = "rm" => box' # "running"
  BY DEF SoloInv
<1> USE DEF container
<1>1. CASE UNCHANGED vars \/ StopOutside
  BY <1>1 DEF vars, StopOutside, SoloInv, NoThreadCalled
<1>2. ASSUME NEW c \in Callers, Call(c)
      PROVE  \A d \in Callers : pc'[d] = "rm" => box' # "running"
  BY <1>2, HandlerMoved DEF Call, SoloInv, TypeOK
<1>3. ASSUME NEW c \in Callers, Inspect(c)
      PROVE  \A d \in Callers : pc'[d] = "rm" => box' # "running"
  <2>1. PICK step \in {"ready", "rm", "raised"} :
          /\ pc' = [pc EXCEPT ![c] = step]
          /\ faults' = 0 => faults = 0 /\ (step = "ready" <=> box = "running") /\ step # "raised"
    BY <1>3, InspectEffect
  <2>2. box' = box
    BY <1>3, InspectEffect
  <2>3. NoThreadCalled
    BY <1>3, HandlerMoved DEF Step
  <2> QED BY <2>1, <2>2, <2>3 DEF SoloInv, TypeOK
<1>4. ASSUME NEW c \in Callers, Remove(c)
      PROVE  \A d \in Callers : pc'[d] = "rm" => box' # "running"
  BY <1>4, RemoveEffect
<1>5. ASSUME NEW c \in Callers, Run(c)
      PROVE  \A d \in Callers : pc'[d] = "rm" => box' # "running"
  <2>1. pc[c] = "run" /\ \A d \in Callers \ {c} : pc'[d] = pc[d]
    BY <1>5, RunEffect, StepFrame DEF Step
  <2>2. c \in LoopCallers /\ NoThreadCalled
    BY <1>5, HandlerMoved DEF Step
  <2>3. \A d \in Callers \ {c} : pc[d] # "rm"
    BY <2>1, <2>2 DEF LoopInv, Inside, Callers, NoThreadCalled
  <2>4. pc'[c] # "rm"
    BY <1>5, RunEffect DEF TypeOK
  <2> QED BY <2>1, <2>3, <2>4
<1>6. ASSUME NEW c \in Callers, Equip(c)
      PROVE  \A d \in Callers : pc'[d] = "rm" => box' # "running"
  <2>1. box' = box /\ (faults' = 0 => faults = 0) /\ \A d \in Callers \ {c} : pc'[d] = pc[d]
    BY <1>6, EquipEffect, StepFrame DEF Step
  <2>2. pc'[c] # "rm"
    <3>1. pc[c] \in {"debugfs", "tracefs", "iproute2"}
      BY <1>6, EquipEffect DEF Equipment
    <3>2. After[pc[c]] # "rm"
      BY <3>1 DEF After
    <3> QED BY <1>6, <3>2, EquipEffect DEF TypeOK
  <2>3. NoThreadCalled
    BY <1>6, HandlerMoved DEF Step
  <2> QED BY <2>1, <2>2, <2>3 DEF SoloInv
<1>7. ASSUME NEW c \in Callers, Check(c) \/ Read(c)
      PROVE  \A d \in Callers : pc'[d] = "rm" => box' # "running"
  <2>1. c \in ThreadCallers
    BY <1>7, AskEffect
  <2>2. c \in LoopCallers
    BY <1>7, HandlerMoved DEF Step
  <2> QED BY <2>1, <2>2, CallerAssumption
<1> QED BY <1>1, <1>2, <1>3, <1>4, <1>5, <1>6, <1>7 DEF Next, Step

\* The calls made on the event loop never remove a running container, as
\* docker_agent.py:37 has it, until the first call of /api/environment: the
\* race needs that endpoint's threads.
THEOREM LoopCallsAreSafe == Spec => LoopCallsRemoveOnlyDown
<1>1. Init => SoloInv
  BY DEF Init, SoloInv
<1>2. IInv /\ SoloInv /\ [Next]_vars => SoloInv'
  BY SoloStep DEF IInv
<1>3. SoloInv /\ [Next]_vars
        => [\A c \in Callers :
              Remove(c) /\ faults = 0 /\ NoThreadCalled => box # "running"]_vars
  BY DEF SoloInv, Remove
<1> QED BY Invariance, <1>1, <1>2, <1>3, PTL DEF Spec, LoopCallsRemoveOnlyDown
=============================================================================
