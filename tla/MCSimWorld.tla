----------------------------- MODULE MCSimWorld -----------------------------
(* A program node and a client that stops and restarts it. *)
EXTENDS SimWorld, TLC

CONSTANTS store, client

OneProgram == {store}
OneClient == {client}
NoHook == {}
OneTick == {1}
AtOnceOrLater == {0, 1}
InOrder == store :> 1 @@ client :> 2
=============================================================================
