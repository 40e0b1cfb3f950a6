------------------------------- MODULE MCChan -------------------------------
(* The instance of Chan for TLC: a rendezvous channel, a channel of one    *)
(* and an unbounded one, each with three threads and two messages.         *)
EXTENDS Chan

CONSTANTS t1, t2, t3, m1, m2

ThreeThreads == {t1, t2, t3}
TwoMessages == {m1, m2}
ThreeKinds == {0, 1, Unbounded}
=============================================================================
