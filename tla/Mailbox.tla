------------------------------ MODULE Mailbox ------------------------------
(***************************************************************************)
(* What an olang channel promises, without its threads (docs/stdlib.md,    *)
(* "chan - channels"): a first-in first-out queue that closes on its       *)
(* sending side.  A send is admitted while the channel is open, an         *)
(* admitted message may still enter the queue after the close, queued      *)
(* messages are received before the close is reported, and nothing is      *)
(* received after that report.                                             *)
(***************************************************************************)
EXTENDS Sequences

CONSTANT Messages

VARIABLES
  open,       \* the sending side is not closed
  admitted,   \* messages whose send was let in but not yet accepted
  queue,      \* messages accepted and not yet received
  received,   \* messages received, in order
  ended       \* some receiver has been told that the channel is closed

vars == <<open, admitted, queue, received, ended>>

Init ==
  /\ open = TRUE
  /\ admitted = {}
  /\ queue = <<>>
  /\ received = <<>>
  /\ ended = FALSE

Admit(m) ==
  /\ open
  /\ admitted' = admitted \cup {m}
  /\ UNCHANGED <<open, queue, received, ended>>

Accept(m) ==
  /\ m \in admitted
  /\ admitted' = admitted \ {m}
  /\ queue' = Append(queue, m)
  /\ UNCHANGED <<open, received, ended>>

Deliver ==
  /\ queue # <<>>
  /\ received' = Append(received, Head(queue))
  /\ queue' = Tail(queue)
  /\ UNCHANGED <<open, admitted, ended>>

(* A rendezvous: the message never rests in the queue. *)
HandOver(m) ==
  /\ m \in admitted
  /\ queue = <<>>
  /\ admitted' = admitted \ {m}
  /\ received' = Append(received, m)
  /\ UNCHANGED <<open, queue, ended>>

Close ==
  /\ open' = FALSE
  /\ UNCHANGED <<admitted, queue, received, ended>>

End ==
  /\ ~open
  /\ admitted = {}
  /\ queue = <<>>
  /\ ended' = TRUE
  /\ UNCHANGED <<open, admitted, queue, received>>

Next ==
  \/ \E m \in Messages : Admit(m) \/ Accept(m) \/ HandOver(m)
  \/ Deliver
  \/ Close
  \/ End

Spec == Init /\ [][Next]_vars
=============================================================================
