---------------------------- MODULE MCCallBudget ----------------------------
(* Instances of CallBudget for TLC. *)
EXTENDS CallBudget

OneThread == {1}
TwoThreads == {1, 2}
=============================================================================
