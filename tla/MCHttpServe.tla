------------------------------ MODULE MCHttpServe ------------------------------
(* Instances of HttpServe for TLC. *)
EXTENDS HttpServe

CONSTANTS a, k1, k2, p1, n1

OneServer == {a}
OneConn == {k1}
TwoConns == {k1, k2}
OneTopic == {p1}
OneNotifier == {n1}
================================================================================
