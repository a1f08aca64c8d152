------------------------------ MODULE MCPages ------------------------------
(***************************************************************************)
(* Constants of Pages for model checking.                                  *)
(***************************************************************************)
EXTENDS Pages

\* Two buttons where results are kept apart, and where one of them may be the
\* experiment with a before and an after.
MCKeys(p) ==
  CASE p = "patch" -> {"only"}
    [] p = "chaos" -> {"cpu", "disk"}
    [] p = "experiments" -> {"scheduler_optimization", "ipc_performance"}
    [] p = "benchmark" -> {"baseline", "optimized"}

\* Better, worse, unchanged, and both kinds of half.
MCAnswers ==
  {[baseline |-> [createMean |-> 400, createP99 |-> 500, switches |-> 300, latencyP99 |-> 400],
    optimized |-> [createMean |-> 402, createP99 |-> 497, switches |-> s, latencyP99 |-> l]] :
      s \in {291, 305}, l \in {1, 289, 399, 400, 401, 801}}
=============================================================================
