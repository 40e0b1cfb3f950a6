------------------------------ MODULE MCSimWire ------------------------------
(* One server of a queue of one, and the clients that ask it. *)
EXTENDS SimWire

CONSTANTS api, c1, c2, w1

OneClient == {c1}
TwoClients == {c1, c2}
OneServer == {api}
OneWorker == {w1}
OneTick == {1}
=============================================================================
