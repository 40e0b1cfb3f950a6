-------------------------- MODULE MCSpawnRegistry --------------------------
(* Instances of SpawnRegistry for TLC. *)
EXTENDS SpawnRegistry, TLC

CONSTANTS k1, k2, u1, u2, u3, c1, c2

OneTask == {k1}
TwoTasks == {k1, k2}
TwoUsers == {u1, u2}
ThreeUsers == {u1, u2, u3}
OneChannel == {c1}
Symmetry == Permutations(Users) \cup Permutations(Watchable)
=============================================================================
