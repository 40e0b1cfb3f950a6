-------------------------------- MODULE Chan --------------------------------
(***************************************************************************)
(* One olang channel and the threads that use it (src/stdlib/chan.rs).     *)
(*                                                                         *)
(* The channel is a crossbeam queue, a slot that holds the sending end     *)
(* until the channel is closed, and three advisory counters.  An operation *)
(* is several steps: the sender is cloned out of its lock, the queue is    *)
(* tried, the depth is counted, the park entry is dropped.  Every step     *)
(* that another thread can come between is an action of its own.  What a   *)
(* parked thread does on its quarter-second tick is in StallDetector; here *)
(* a tick that finds nothing is a stutter.                                 *)
(***************************************************************************)
EXTENDS Integers, Sequences, FiniteSets

CONSTANTS
  Threads,     \* the threads that hold a handle to the channel
  Messages,    \* the values sent, each at most once, so that they can be told apart
  Capacities,  \* the capacities a channel may be made with: Unbounded, 0 for a
               \* rendezvous channel, or a positive bound
  Unbounded,
  NoMessage

ASSUME ThreadsAssumption == IsFiniteSet(Threads)
ASSUME CapAssumption == Unbounded \notin Nat /\ Capacities \subseteq Nat \cup {Unbounded}

ASSUME MessagesAssumption == NoMessage \notin Messages

VARIABLES
  cap,           \* the capacity it was made with
  open,          \* chan.tx holds the sending end
  buf,           \* the crossbeam queue
  depth,         \* chan.depth
  recvWaiting,   \* chan.recv_waiting
  sendWaiting,   \* chan.send_waiting
  parked,        \* threads with an entry in the parked set
  op,            \* the operation a thread is inside
  pc,            \* how far it has got
  val,           \* the value it is sending or has received
  accepted,      \* history: messages in the order the queue took them
  received,      \* history: messages in the order the queue gave them
  told           \* history: a receiver has been answered "channel is closed"

queueVars == <<cap, open, buf, accepted, received>>
countVars == <<depth, recvWaiting, sendWaiting>>
vars == <<cap, open, buf, depth, recvWaiting, sendWaiting, parked, op, pc, val,
          accepted, received, told>>

Receives == {"recv", "ask", "timed"}     \* operations that wait to receive
Ops == Receives \cup {"none", "send", "try"}

Init ==
  /\ cap \in Capacities                  \* chan.new and chan.bounded
  /\ open = TRUE
  /\ buf = <<>>
  /\ depth = 0
  /\ recvWaiting = 0
  /\ sendWaiting = 0
  /\ parked = {}
  /\ op = [t \in Threads |-> "none"]
  /\ pc = [t \in Threads |-> "idle"]
  /\ val = [t \in Threads |-> NoMessage]
  /\ accepted = <<>>
  /\ received = <<>>
  /\ told = FALSE

At(t, operation, label) == op[t] = operation /\ pc[t] = label

Goto(t, operation, label, v) ==
  /\ op' = [op EXCEPT ![t] = operation]
  /\ pc' = [pc EXCEPT ![t] = label]
  /\ val' = [val EXCEPT ![t] = v]

Return(t) == Goto(t, "none", "idle", NoMessage)

(* An operation ends here unless it parked: then the entry goes first. *)
Finish(t) ==
  IF t \in parked THEN Goto(t, op[t], "leave", val[t]) ELSE Return(t)

(* The clone of the sending end lives until chan_send returns. *)
HoldsSender(t) == op[t] = "send"

(* Mutant: a waiting receive keeps a sending end of its own alive. *)
DisconnectedMutant == ~open /\ \A t \in Threads : op[t] \in {"none", "try"}

(* crossbeam reports a disconnect once no sending end is left anywhere. *)
Disconnected == ~open /\ \A t \in Threads : ~HoldsSender(t)

HasRoom == cap # Unbounded => Len(buf) < cap

Fresh(m) ==
  /\ \A i \in 1..Len(accepted) : accepted[i] # m
  /\ \A t \in Threads : val[t] # m

-----------------------------------------------------------------------------
(* Sending *)

(* chan_send: the sending end is cloned out of its lock.  On a closed      *)
(* channel there is none to clone, and the call answers Err at once.       *)
SendStart(t, m) ==
  /\ At(t, "none", "idle")
  /\ Fresh(m)
  /\ open
  /\ Goto(t, "send", "push", m)
  /\ UNCHANGED <<queueVars, countVars, parked, told>>

(* try_send finds room. *)
Push(t) ==
  /\ op[t] = "send" /\ pc[t] \in {"push", "wait"}
  /\ HasRoom
  /\ buf' = Append(buf, val[t])
  /\ accepted' = Append(accepted, val[t])
  /\ Goto(t, "send", "sent", val[t])
  /\ UNCHANGED <<cap, open, received, countVars, parked, told>>

(* The first try_send that finds the queue full parks the sender; from     *)
(* then on it tries again every millisecond.                               *)
ParkSender(t) ==
  /\ At(t, "send", "push")
  /\ ~HasRoom
  /\ parked' = parked \cup {t}
  /\ Goto(t, "send", "enter", val[t])
  /\ UNCHANGED <<queueVars, countVars, told>>

CountSendWaiting(t) ==
  /\ At(t, "send", "enter")
  /\ sendWaiting' = sendWaiting + 1
  /\ Goto(t, "send", "wait", val[t])
  /\ UNCHANGED <<queueVars, depth, recvWaiting, parked, told>>

(* try_send on a rendezvous channel succeeds only against a receiver that  *)
(* is inside crossbeam's waiting receive, and the pair meets in one step.  *)
Rendezvous(t, r) ==
  /\ cap = 0
  /\ op[t] = "send" /\ pc[t] \in {"push", "wait"}
  /\ op[r] \in Receives /\ pc[r] = "wait"
  /\ accepted' = Append(accepted, val[t])
  /\ received' = Append(received, val[t])
  /\ pc' = [pc EXCEPT ![t] = "sent", ![r] = "taken"]
  /\ val' = [val EXCEPT ![r] = val[t]]
  /\ UNCHANGED <<cap, open, buf, countVars, parked, op, told>>

(* The depth is counted after the queue took the message. *)
CountSent(t) ==
  /\ At(t, "send", "sent")
  /\ depth' = depth + 1
  /\ Finish(t)
  /\ UNCHANGED <<queueVars, recvWaiting, sendWaiting, parked, told>>

UncountSendWaiting(t) ==
  /\ At(t, "send", "left")
  /\ sendWaiting' = sendWaiting - 1
  /\ Return(t)
  /\ UNCHANGED <<queueVars, depth, recvWaiting, parked, told>>

-----------------------------------------------------------------------------
(* Receiving *)

RecvStart(t) ==
  /\ At(t, "none", "idle")
  /\ parked' = parked \cup {t}
  /\ Goto(t, "recv", "enter", NoMessage)
  /\ UNCHANGED <<queueVars, countVars, told>>

CountRecvWaiting(t) ==
  /\ At(t, "recv", "enter")
  /\ recvWaiting' = recvWaiting + 1
  /\ Goto(t, "recv", "wait", NoMessage)
  /\ UNCHANGED <<queueVars, depth, sendWaiting, parked, told>>

(* chan.ask waits on its own fresh, unbounded reply channel, which is      *)
(* parked but not counted in recv_waiting.                                 *)
AskStart(t) ==
  /\ cap = Unbounded
  /\ At(t, "none", "idle")
  /\ parked' = parked \cup {t}
  /\ Goto(t, "ask", "wait", NoMessage)
  /\ UNCHANGED <<queueVars, countVars, told>>

(* chan.recv_timeout is a bounded wait, so it does not park. *)
TimedStart(t) ==
  /\ At(t, "none", "idle")
  /\ Goto(t, "timed", "wait", NoMessage)
  /\ UNCHANGED <<queueVars, countVars, parked, told>>

Take(t) ==
  /\ op[t] \in Receives /\ pc[t] = "wait"
  /\ buf # <<>>
  /\ buf' = Tail(buf)
  /\ received' = Append(received, Head(buf))
  /\ Goto(t, op[t], "taken", Head(buf))
  /\ UNCHANGED <<cap, open, accepted, countVars, parked, told>>

(* chan.try_recv with a message queued; with none it answers Ok(()) and    *)
(* changes nothing.  The spin of chan.ask is the same call.                *)
TryTake(t) ==
  /\ At(t, "none", "idle")
  /\ buf # <<>>
  /\ buf' = Tail(buf)
  /\ received' = Append(received, Head(buf))
  /\ Goto(t, "try", "taken", Head(buf))
  /\ UNCHANGED <<cap, open, accepted, countVars, parked, told>>

(* Mutant: the bounded receive forgets to count its message. *)
CountTakenMissing(t) ==
  /\ pc[t] = "taken"
  /\ depth' = IF op[t] = "timed" THEN depth ELSE depth - 1
  /\ Finish(t)
  /\ UNCHANGED <<queueVars, recvWaiting, sendWaiting, parked, told>>

CountTaken(t) ==
  /\ pc[t] = "taken"
  /\ depth' = depth - 1
  /\ Finish(t)
  /\ UNCHANGED <<queueVars, recvWaiting, sendWaiting, parked, told>>

(* A waiting receive is answered "channel is closed". *)
ReportClosed(t) ==
  /\ op[t] \in Receives /\ pc[t] = "wait"
  /\ buf = <<>>
  /\ Disconnected
  /\ told' = TRUE
  /\ Finish(t)
  /\ UNCHANGED <<queueVars, countVars, parked>>

TryReportClosed(t) ==
  /\ At(t, "none", "idle")
  /\ buf = <<>>
  /\ Disconnected
  /\ told' = TRUE
  /\ UNCHANGED <<queueVars, countVars, parked, op, pc, val>>

TimedOut(t) ==
  /\ At(t, "timed", "wait")
  /\ buf = <<>>
  /\ Finish(t)
  /\ UNCHANGED <<queueVars, countVars, parked, told>>

(* unpark; chan.ask has nothing to uncount and returns. *)
Unpark(t) ==
  /\ pc[t] = "leave"
  /\ parked' = parked \ {t}
  /\ IF op[t] = "ask" THEN Return(t) ELSE Goto(t, op[t], "left", val[t])
  /\ UNCHANGED <<queueVars, countVars, told>>

UncountRecvWaiting(t) ==
  /\ At(t, "recv", "left")
  /\ recvWaiting' = recvWaiting - 1
  /\ Return(t)
  /\ UNCHANGED <<queueVars, depth, sendWaiting, parked, told>>

-----------------------------------------------------------------------------
(* Mutant: the close throws away what is queued. *)
CloseDiscards ==
  /\ open' = FALSE
  /\ buf' = <<>>
  /\ UNCHANGED <<cap, countVars, parked, op, pc, val, accepted, received, told>>

(* chan.close, ChannelSender::close and close_value: the slot is emptied.  *)
(* Any thread may do it, at any time, any number of times.                 *)
Close ==
  /\ open' = FALSE
  /\ UNCHANGED <<cap, buf, countVars, parked, op, pc, val, accepted, received, told>>

(* The steps a thread takes inside an operation it has begun. *)
Advance(t) ==
  \/ Push(t) \/ ParkSender(t) \/ CountSendWaiting(t) \/ CountSent(t)
  \/ Unpark(t) \/ UncountSendWaiting(t)
  \/ \E r \in Threads : Rendezvous(t, r)
  \/ CountRecvWaiting(t) \/ Take(t) \/ CountTaken(t) \/ ReportClosed(t)
  \/ TimedOut(t) \/ UncountRecvWaiting(t)

Begin(t) ==
  \/ \E m \in Messages : SendStart(t, m)
  \/ RecvStart(t) \/ AskStart(t) \/ TimedStart(t)
  \/ TryTake(t) \/ TryReportClosed(t)

Next == Close \/ \E t \in Threads : Advance(t) \/ Begin(t)

Spec == Init /\ [][Next]_vars

(* A thread that is inside an operation keeps being scheduled; whether it  *)
(* starts another one is up to the program.                                *)
FairSpec == Spec /\ \A t \in Threads : WF_vars(Advance(t))

-----------------------------------------------------------------------------
(* Properties *)

(* Every variable has its type, and a thread inside chan_send carries the  *)
(* message it has not been able to push yet.                               *)
TypeOK ==
  /\ cap \in Capacities
  /\ open \in BOOLEAN
  /\ buf \in Seq(Messages)
  /\ depth \in Int
  /\ recvWaiting \in Int
  /\ sendWaiting \in Int
  /\ parked \subseteq Threads
  /\ op \in [Threads -> Ops]
  /\ pc \in [Threads -> {"idle", "push", "enter", "wait", "sent", "taken",
                       "leave", "left"}]
  /\ val \in [Threads -> Messages \cup {NoMessage}]
  /\ \A t \in Threads : op[t] = "send" => val[t] \in Messages
  /\ accepted \in Seq(Messages)
  /\ received \in Seq(Messages)
  /\ told \in BOOLEAN

(* Every message the queue took was received, in the order it was taken,   *)
(* or is still queued: what the step-by-step properties below rest on.     *)
Fifo == accepted = received \o buf

(* The report of the close is final: when some receiver has been told, the *)
(* queue is drained and no sender that slipped in before the close is left *)
(* that could still queue a message behind the report.                     *)
ClosedIsFinal ==
  told => /\ ~open
          /\ buf = <<>>
          /\ \A t \in Threads : op[t] # "send"

(* chan.depth is behind the queue by exactly the operations that moved a   *)
(* message and have not counted it yet.                                    *)
DepthAccounted ==
  depth = Len(buf) - Cardinality({t \in Threads : pc[t] = "sent"})
                   + Cardinality({t \in Threads : pc[t] = "taken"})

(* chan.stat's waiting counters count the senders and the receivers that   *)
(* wait in the queue, chan.ask's wait apart: whatever ended the wait, it   *)
(* is uncounted, and only after the park entry is gone.                    *)
Waiters(operation) == {t \in parked : op[t] = operation /\ pc[t] # "enter"}
Leavers(operation) == {t \in Threads : At(t, operation, "left")}
WaitersAccounted ==
  /\ recvWaiting = Cardinality(Waiters("recv")) + Cardinality(Leavers("recv"))
  /\ sendWaiting = Cardinality(Waiters("send")) + Cardinality(Leavers("send"))
  /\ \A t \in parked : pc[t] \in {"enter", "wait", "sent", "taken", "leave"}

(* chan.stat adds up at every step of every operation. *)
StatsAccounted == DepthAccounted /\ WaitersAccounted

(* Every receive waiting on a channel that is closed returns: with what is *)
(* left in the queue, or with the close.                                   *)
ClosedWaitsEnd ==
  \A t \in Threads :
    (op[t] \in Receives /\ pc[t] = "wait" /\ ~open) ~> (pc[t] = "idle")

(* The messages whose senders were let in and still try. *)
Trying == {"push", "enter", "wait"}
Senders == {t \in Threads : op[t] = "send" /\ pc[t] \in Trying}
Admitted == {val[t] : t \in Senders}

(* The channel with all its threads implements the mailbox: what a program *)
(* sees of a channel is a queue with one closing end.                      *)
Promise == INSTANCE Mailbox WITH
  admitted <- Admitted, queue <- buf, ended <- told
MailboxSpec == Promise!Spec
=============================================================================
