---------------------------- MODULE MCRunHistory ----------------------------
(* Processes, hold keys and readers are interchangeable.                   *)
EXTENDS RunHistory, TLC

MCSymmetry == Permutations(Processes) \cup Permutations(HoldKeys) \cup Permutations(Readers)
=============================================================================
