----------------------------- MODULE MCSimShrink -----------------------------
(* Six faults, one of them a crash restarted after a delay. *)
EXTENDS SimShrink, TLC

ThreeFaults == <<1, 2, 3>>
SixFaults == <<1, 2, 3, 4, 5, 6>>
OneNode == <<"c3">>
OneDelay == [f \in Range(Faults) |-> IF f = 2 THEN 8 ELSE 0]
FourSticks == <<4, 3, 2, 1>>
OneAndTwo == <<1, 2>>
OneTwoThree == <<1, 2, 3>>
=============================================================================
