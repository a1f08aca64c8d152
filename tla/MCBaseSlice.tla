---------------------------- MODULE MCBaseSlice ----------------------------
(* BaseSlice with model values for the sessions. *)
EXTENDS BaseSlice, TLC

CONSTANTS s1, s2, s3

AnySession == Permutations(Sessions)
=============================================================================
