--------------------------- MODULE MCStallDetector ---------------------------
(* Instances of StallDetector for TLC. *)
EXTENDS StallDetector, TLC

CONSTANTS main, s1, s2, s3, c1

TwoThreads == {main, s1}
ThreeThreads == {main, s1, s2}
FourThreads == {main, s1, s2, s3}
OneChannel == {c1}
Symmetry == Permutations(Threads \ {Main}) \cup Permutations(Channels)
=============================================================================
