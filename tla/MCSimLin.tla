------------------------------ MODULE MCSimLin ------------------------------
(* Two processes and up to three operations on two keys. *)
EXTENDS SimLin, TLC

CONSTANTS p1, p2

TwoKeys == {1, 2}
Op(f, k, arg) == [f |-> f, key |-> k, arg |-> arg]
SomeOperations ==
  {Op("put", 1, <<1>>), Op("get", 1, <<>>), Op("add", 1, <<1>>), Op("cas", 1, <<<<1>>, <<2>>>>),
   Op("add", 2, <<1>>)}
SomeOutputs(op) ==
  CASE op.f = "put" -> {op.arg}
    [] op.f = "get" -> {Absent, <<1>>}
    [] op.f = "add" -> IF op.key = 1 THEN {<<1>>, <<2>>} ELSE {Absent, <<1>>}
    [] op.f = "cas" -> {No, Yes}
Symmetry == Permutations(Processes)
=============================================================================
