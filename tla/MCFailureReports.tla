-------------------------- MODULE MCFailureReports --------------------------
(***************************************************************************)
(* Three runs, one goal class that is called "unclassified" and one that   *)
(* is not, and a clock of two seconds.                                     *)
(***************************************************************************)
EXTENDS FailureReports, TLC

Symmetry == Permutations(Agent)
=============================================================================
