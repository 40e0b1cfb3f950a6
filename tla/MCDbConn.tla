------------------------------ MODULE MCDbConn ------------------------------
(* Threads that share one connection, and a cursor on it. *)
EXTENDS DbConn

CONSTANTS t1, t2, t3, c1

TwoThreads == {t1, t2}
ThreeThreads == {t1, t2, t3}
OneCursor == {c1}
NoneOfThem == {}
=============================================================================
