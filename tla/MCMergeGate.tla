---------------------------- MODULE MCMergeGate ----------------------------
(* Small instances of MergeGate: two pull requests, the guard, its test and   *)
(* one more file that only the second version of the guard protects.         *)
EXTENDS MergeGate, TLC

CONSTANTS guard, test, doc, v1, v2

MCFiles       == {guard, test, doc}
MCProtectedIn == [c \in {v1, v2} |-> IF c = v1 THEN {guard} ELSE {guard, doc}]
MCSymmetry    == Permutations(PRs)
=============================================================================
