---------------------------- MODULE MCReplServe ----------------------------
(* A session of a few requests, every operation in every order. *)
EXTENDS ReplServe

(* ping is an interrupt that asks for nothing, ask a shutdown that ends    *)
(* nothing, and render a command that is not asked whether it was stopped. *)
Telling == AllOps \ {"ping", "ask", "render"}
Evaluating == {"eval", "reload", "interrupt"}
SecondIsLong == {2}
NoneIsLong == {}
=============================================================================
