-------------------------- MODULE MCLabContainer --------------------------
(* LabContainer with model values for the callers. *)
EXTENDS LabContainer, TLC

CONSTANTS w1, w2, e1, e2

\* Calls of one kind are interchangeable.
Interchangeable == Permutations(LoopCallers) \cup Permutations(ThreadCallers)
=============================================================================
