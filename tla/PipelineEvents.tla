--------------------------- MODULE PipelineEvents ---------------------------
(***************************************************************************)
(* What a client may make of the events of one pipeline run, whichever     *)
(* pipeline it is: the stages begin one after the other, a stage begins    *)
(* only when the one before it is done, at most one fails and is the last, *)
(* and the run ends with one verdict.                                      *)
(***************************************************************************)
EXTENDS Naturals, Sequences

CONSTANT Plans   \* the sequences of stages a run may have

VARIABLES
  plan,     \* the stages of this run, or <<>> before it begins
  status,   \* how each of them stands, as PatchRunner.tsx shows it
  verdict   \* "none", "result" or "error"

Init ==
  /\ plan = <<>>
  /\ status = <<>>
  /\ verdict = "none"

Begin ==
  /\ plan = <<>>
  /\ plan' \in Plans
  /\ status' = [i \in DOMAIN plan' |-> "idle"]
  /\ UNCHANGED verdict

Start(i) ==
  /\ status[i] = "idle"
  /\ i > 1 => status[i - 1] = "done"
  /\ verdict = "none"
  /\ status' = [status EXCEPT ![i] = "running"]
  /\ UNCHANGED <<plan, verdict>>

Finish(i) ==
  /\ status[i] = "running"
  /\ verdict # "error"
  /\ status' = [status EXCEPT ![i] = "done"]
  /\ UNCHANGED <<plan, verdict>>

\* The verdict, with or without a stage that failed: one that runs, or the
\* next one to run.
Conclude(what) ==
  /\ verdict = "none"
  /\ verdict' = what
  /\ \/ UNCHANGED status
     \/ \E i \in DOMAIN status :
          /\ what = "error"
          /\ status[i] # "done"
          /\ i > 1 => status[i - 1] = "done"
          /\ status' = [status EXCEPT ![i] = "error"]
  /\ UNCHANGED plan

Next ==
  \/ Begin
  \/ \E i \in DOMAIN status : Start(i) \/ Finish(i)
  \/ \E what \in {"result", "error"} : Conclude(what)

Spec == Init /\ [][Next]_<<plan, status, verdict>>
=============================================================================
