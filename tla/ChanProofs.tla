----------------------------- MODULE ChanProofs -----------------------------
(***************************************************************************)
(* Proofs about Chan, for every set of threads and messages and every      *)
(* capacity.                                                               *)
(***************************************************************************)
EXTENDS Chan, SequenceTheorems, FiniteSetTheorems, TLAPS

(* Every initial state is well typed. *)
LEMMA TypeInit == Init => TypeOK
<1> USE DEF TypeOK, Ops, Receives
<1> SUFFICES ASSUME Init PROVE TypeOK
  OBVIOUS
<1> USE DEF Init
<1>1. buf \in Seq(Messages) /\ accepted \in Seq(Messages) /\ received \in Seq(Messages)
  OBVIOUS
<1>2. op \in [Threads -> Ops]
  OBVIOUS
<1>3. pc \in [Threads -> {"idle", "push", "enter", "wait", "sent", "taken", "leave", "left"}]
  OBVIOUS
<1>4. val \in [Threads -> Messages \cup {NoMessage}]
  OBVIOUS
<1>5. \A t \in Threads : op[t] = "send" => val[t] \in Messages
  OBVIOUS
<1>6. open \in BOOLEAN /\ told \in BOOLEAN
  OBVIOUS
<1>7. depth \in Int /\ recvWaiting \in Int /\ sendWaiting \in Int
  OBVIOUS
<1>8. parked \subseteq Threads
  OBVIOUS
<1> QED
  BY <1>1, <1>2, <1>3, <1>4, <1>5, <1>6, <1>7, <1>8

(* Every step keeps the types: one case for each operation step. *)
LEMMA TypeStep == TypeOK /\ [Next]_vars => TypeOK'
<1> USE DEF TypeOK, Ops, Receives
<1> SUFFICES ASSUME TypeOK, [Next]_vars PROVE TypeOK'
  OBVIOUS
<1> USE DEF queueVars, countVars, Goto, Return, Finish, At
<1>1. CASE Close
  BY <1>1 DEF Close
<1>2. ASSUME NEW t \in Threads, NEW m \in Messages, SendStart(t, m) PROVE TypeOK'
  BY <1>2 DEF SendStart
<1>3. ASSUME NEW t \in Threads, Push(t) PROVE TypeOK'
  BY <1>3 DEF Push
<1>4. ASSUME NEW t \in Threads, ParkSender(t) PROVE TypeOK'
  BY <1>4 DEF ParkSender
<1>5. ASSUME NEW t \in Threads, CountSent(t) PROVE TypeOK'
  <2>1. pc' \in [Threads -> {"idle", "push", "enter", "wait", "sent", "taken",
                            "leave", "left"}]
    BY <1>5 DEF CountSent
  <2>2. op' \in [Threads -> Ops] /\ val' \in [Threads -> Messages \cup {NoMessage}]
    BY <1>5 DEF CountSent
  <2>3. \A u \in Threads : op'[u] = "send" => val'[u] \in Messages
    BY <1>5 DEF CountSent
  <2>4. depth' \in Int
    BY <1>5 DEF CountSent
  <2>5. UNCHANGED <<cap, open, buf, recvWaiting, sendWaiting, parked, accepted, received, told>>
    BY <1>5 DEF CountSent
  <2> QED
    BY <2>1, <2>2, <2>3, <2>4, <2>5
<1>6. ASSUME NEW t \in Threads, CountSendWaiting(t) PROVE TypeOK'
  BY <1>6 DEF CountSendWaiting
<1>7. ASSUME NEW t \in Threads, NEW r \in Threads, Rendezvous(t, r) PROVE TypeOK'
  <2>1. val[t] \in Messages
    BY <1>7 DEF Rendezvous
  <2>2. accepted' \in Seq(Messages) /\ received' \in Seq(Messages)
    BY <1>7, <2>1, AppendProperties DEF Rendezvous
  <2>3. val' \in [Threads -> Messages \cup {NoMessage}]
    BY <1>7, <2>1 DEF Rendezvous
  <2>4. \A u \in Threads : op'[u] = "send" => val'[u] \in Messages
    BY <1>7, <2>1 DEF Rendezvous
  <2>5. pc' \in [Threads -> {"idle", "push", "enter", "wait", "sent", "taken",
                            "leave", "left"}]
    BY <1>7 DEF Rendezvous
  <2>6. UNCHANGED <<cap, open, buf, depth, recvWaiting, sendWaiting, parked, op, told>>
    BY <1>7 DEF Rendezvous
  <2> QED
    BY <2>2, <2>3, <2>4, <2>5, <2>6
<1>8. ASSUME NEW t \in Threads, Take(t) PROVE TypeOK'
  BY <1>8 DEF Take
<1>9. ASSUME NEW t \in Threads, CountTaken(t) PROVE TypeOK'
  BY <1>9 DEF CountTaken
<1>10. ASSUME NEW t \in Threads, ReportClosed(t) PROVE TypeOK'
  BY <1>10 DEF ReportClosed
<1>11. ASSUME NEW t \in Threads, TimedOut(t) PROVE TypeOK'
  BY <1>11 DEF TimedOut
<1>12. ASSUME NEW t \in Threads, Unpark(t) PROVE TypeOK'
  <2>1. CASE op[t] = "ask"
    BY <1>12, <2>1 DEF Unpark
  <2>2. CASE op[t] # "ask"
    BY <1>12, <2>2 DEF Unpark
  <2> QED
    BY <2>1, <2>2
<1>13. ASSUME NEW t \in Threads, RecvStart(t) PROVE TypeOK'
  BY <1>13 DEF RecvStart
<1>14. ASSUME NEW t \in Threads, AskStart(t) PROVE TypeOK'
  BY <1>14 DEF AskStart
<1>15. ASSUME NEW t \in Threads, TimedStart(t) PROVE TypeOK'
  BY <1>15 DEF TimedStart
<1>16. ASSUME NEW t \in Threads, TryTake(t) PROVE TypeOK'
  BY <1>16 DEF TryTake
<1>17. ASSUME NEW t \in Threads, TryReportClosed(t) PROVE TypeOK'
  BY <1>17 DEF TryReportClosed
<1>18. CASE UNCHANGED vars
  BY <1>18 DEF vars
<1>19. ASSUME NEW t \in Threads, UncountSendWaiting(t) PROVE TypeOK'
  BY <1>19 DEF UncountSendWaiting
<1>20. ASSUME NEW t \in Threads, CountRecvWaiting(t) PROVE TypeOK'
  BY <1>20 DEF CountRecvWaiting
<1>21. ASSUME NEW t \in Threads, UncountRecvWaiting(t) PROVE TypeOK'
  BY <1>21 DEF UncountRecvWaiting
<1> QED
  BY <1>1, <1>2, <1>3, <1>4, <1>5, <1>6, <1>7, <1>8, <1>9, <1>10, <1>11,
     <1>12, <1>13, <1>14, <1>15, <1>16, <1>17, <1>18, <1>19, <1>20, <1>21
  DEF Next, Advance, Begin

(* Type correctness: the value a thread carries, its place in its          *)
(* operation and the counters always have the types chan.rs gives them.    *)
THEOREM TypeCorrect == Spec => []TypeOK
  BY TypeInit, TypeStep, PTL DEF Spec

-----------------------------------------------------------------------------
(* A queue of capacity zero never holds a message: try_send refuses, and a *)
(* rendezvous passes it by.                                                *)
NothingRests == cap = 0 => buf = <<>>

(* No two sends carry the same message.                                    *)
OwnMessages ==
  \A t, u \in Threads :
    t # u /\ op[t] = "send" /\ op[u] = "send" => val[t] # val[u]

(* What makes the order, the close and the refinement inductive. *)
Invariant == TypeOK /\ Fifo /\ NothingRests /\ ClosedIsFinal /\ OwnMessages

(* The steps that leave the queue and its history alone. *)
Quiet(t) ==
  \/ \E m \in Messages : SendStart(t, m)
  \/ ParkSender(t) \/ CountSendWaiting(t) \/ CountSent(t)
  \/ UncountSendWaiting(t)
  \/ RecvStart(t) \/ CountRecvWaiting(t) \/ AskStart(t) \/ TimedStart(t)
  \/ CountTaken(t) \/ ReportClosed(t) \/ TryReportClosed(t) \/ TimedOut(t)
  \/ Unpark(t) \/ UncountRecvWaiting(t)

(* A quiet step moves no message. *)
LEMMA QuietStep ==
  ASSUME NEW t \in Threads, Quiet(t)
  PROVE  UNCHANGED queueVars
  BY DEF Quiet, queueVars, SendStart, ParkSender, CountSendWaiting, CountSent,
         UncountSendWaiting, RecvStart, CountRecvWaiting, AskStart, TimedStart,
         CountTaken, ReportClosed, TryReportClosed, TimedOut, Unpark,
         UncountRecvWaiting

(* Every step is a close, a quiet step or one that moves a message. *)
LEMMA StepKinds ==
  ASSUME Next
  PROVE  \/ Close
         \/ \E t \in Threads :
              Quiet(t) \/ Push(t) \/ Take(t) \/ TryTake(t)
                \/ \E r \in Threads : Rendezvous(t, r)
  BY DEF Next, Advance, Begin, Quiet

(* A message moved from the queue's head to the history's end, or from a   *)
(* sender to the queue's end, keeps what was accepted the concatenation of *)
(* what was received and what is queued.                                   *)
LEMMA TakeKeepsOrder ==
  ASSUME NEW r \in Seq(Messages), NEW q \in Seq(Messages), q # <<>>
  PROVE  r \o q = Append(r, Head(q)) \o Tail(q)
<1>1. /\ Head(q) \in Messages /\ Tail(q) \in Seq(Messages)
      /\ <<Head(q)>> \in Seq(Messages)
  BY HeadTailProperties
<1>2. q = <<Head(q)>> \o Tail(q)
  <2>1. <<Head(q)>> \o Tail(q) \in Seq(Messages)
    BY <1>1, ConcatProperties
  <2>2. Len(<<Head(q)>> \o Tail(q)) = Len(q)
    BY <1>1, HeadTailProperties, ConcatProperties
  <2>3. \A i \in 1..Len(q) : (<<Head(q)>> \o Tail(q))[i] = q[i]
    <3> TAKE i \in 1..Len(q)
    <3>1. CASE i = 1
      BY <1>1, <3>1, ConcatProperties, HeadTailProperties
    <3>2. CASE i # 1
      BY <1>1, <3>2, ConcatProperties, HeadTailProperties, LenProperties
    <3> QED
      BY <3>1, <3>2
  <2> QED
    BY <2>1, <2>2, <2>3, SeqEqual
<1>3. Append(r, Head(q)) = r \o <<Head(q)>>
  BY <1>1, AppendIsConcat
<1> QED
  BY <1>1, <1>2, <1>3, ConcatAssociative

LEMMA PushKeepsOrder ==
  ASSUME NEW r \in Seq(Messages), NEW q \in Seq(Messages), NEW m \in Messages
  PROVE  Append(r \o q, m) = r \o Append(q, m)
<1>1. Append(r \o q, m) = (r \o q) \o <<m>>
  BY AppendIsConcat, ConcatProperties
<1>2. Append(q, m) = q \o <<m>>
  BY AppendIsConcat
<1> QED
  BY <1>1, <1>2, ConcatAssociative

(* The queue's invariants hold at the start. *)
LEMMA InvariantInit == Init => Invariant
<1>1. Init => TypeOK
  BY TypeInit
<1>2. Init => Fifo /\ NothingRests /\ ClosedIsFinal
  BY DEF Init, Fifo, NothingRests, ClosedIsFinal
<1>3. Init => OwnMessages
  BY DEF Init, OwnMessages
<1> QED
  BY <1>1, <1>2, <1>3 DEF Invariant

(* No step breaks the order or leaves a message in a rendezvous channel. *)
LEMMA FifoStep ==
  TypeOK /\ Fifo /\ NothingRests /\ [Next]_vars => Fifo' /\ NothingRests'
<1> SUFFICES ASSUME TypeOK, Fifo, NothingRests, [Next]_vars
             PROVE  Fifo' /\ NothingRests'
  OBVIOUS
<1> USE DEF Fifo, NothingRests
<1>1. buf \in Seq(Messages) /\ received \in Seq(Messages)
  BY DEF TypeOK
<1>2. CASE UNCHANGED queueVars
  BY <1>2 DEF queueVars
<1>3. CASE Close
  BY <1>3 DEF Close
<1>4. ASSUME NEW t \in Threads, Push(t) PROVE Fifo' /\ NothingRests'
  <2>1. val[t] \in Messages
    BY <1>4 DEF TypeOK, Push
  <2>2. /\ accepted' = Append(accepted, val[t])
        /\ buf' = Append(buf, val[t]) /\ received' = received /\ cap' = cap
    BY <1>4 DEF Push
  <2>3. Append(accepted, val[t]) = received \o Append(buf, val[t])
    BY <1>1, <2>1, PushKeepsOrder
  <2>4. cap # 0
    BY <1>1, <1>4, CapAssumption, LenProperties DEF Push, HasRoom
  <2> QED
    BY <2>2, <2>3, <2>4
<1>5. ASSUME NEW t \in Threads, Take(t) \/ TryTake(t) PROVE Fifo' /\ NothingRests'
  <2>1. buf # <<>> /\ buf' = Tail(buf) /\ received' = Append(received, Head(buf))
        /\ accepted' = accepted /\ cap' = cap
    BY <1>5 DEF Take, TryTake
  <2>2. Fifo'
    BY <1>1, <2>1, TakeKeepsOrder
  <2>3. NothingRests'
    BY <2>1
  <2> QED
    BY <2>2, <2>3
<1>6. ASSUME NEW t \in Threads, NEW r \in Threads, Rendezvous(t, r)
      PROVE  Fifo' /\ NothingRests'
  <2>1. buf = <<>> /\ accepted = received
    BY <1>1, <1>6, ConcatEmptySeq DEF Rendezvous
  <2>2. val[t] \in Messages
    BY <1>6 DEF TypeOK, Rendezvous
  <2>3. accepted' = received' /\ buf' = <<>> /\ received' \in Seq(Messages)
    BY <1>1, <1>6, <2>1, <2>2, AppendProperties DEF Rendezvous
  <2> QED
    BY <2>3, ConcatEmptySeq
<1>7. CASE UNCHANGED vars
  BY <1>2, <1>7 DEF vars, queueVars
<1> QED
  BY <1>2, <1>3, <1>4, <1>5, <1>6, <1>7, StepKinds, QuietStep

-----------------------------------------------------------------------------
(* After the report no step opens the channel, queues a message or lets a  *)
(* sender in, and the report itself waits for the last sender.             *)
LEMMA ClosedStep == TypeOK /\ ClosedIsFinal /\ [Next]_vars => ClosedIsFinal'
<1> SUFFICES ASSUME TypeOK, ClosedIsFinal, [Next]_vars PROVE ClosedIsFinal'
  OBVIOUS
<1> USE DEF ClosedIsFinal, queueVars, countVars, Goto, Return, Finish, At
<1>1. /\ op \in [Threads -> Ops] /\ pc \in [Threads -> {"idle", "push", "enter",
                                      "wait", "sent", "taken", "leave", "left"}]
      /\ buf \in Seq(Messages)
  BY DEF TypeOK
<1>2. CASE Close
  BY <1>2 DEF Close
<1>3. ASSUME NEW t \in Threads, NEW m \in Messages, SendStart(t, m)
      PROVE  ClosedIsFinal'
  BY <1>3 DEF SendStart
<1>4. ASSUME NEW t \in Threads,
             \/ ParkSender(t) \/ CountSendWaiting(t) \/ UncountSendWaiting(t)
             \/ Push(t)
      PROVE  ClosedIsFinal'
  BY <1>4 DEF ParkSender, CountSendWaiting, UncountSendWaiting, Push
<1>5. ASSUME NEW t \in Threads, NEW r \in Threads, Rendezvous(t, r)
      PROVE  ClosedIsFinal'
  BY <1>5 DEF Rendezvous
<1>6. ASSUME NEW t \in Threads, Take(t) \/ TryTake(t) PROVE ClosedIsFinal'
  BY <1>6 DEF Take, TryTake
<1>7. ASSUME NEW t \in Threads, CountSent(t) \/ CountTaken(t) \/ TimedOut(t) \/ Unpark(t)
      PROVE  ClosedIsFinal'
  <2>1. \A u \in Threads : op'[u] \in {op[u], "none"}
    BY <1>1, <1>7 DEF CountSent, CountTaken, TimedOut, Unpark
  <2>2. UNCHANGED <<open, buf, told>>
    BY <1>7 DEF CountSent, CountTaken, TimedOut, Unpark
  <2> QED
    BY <2>1, <2>2
<1>8. ASSUME NEW t \in Threads, RecvStart(t) \/ AskStart(t) \/ TimedStart(t)
      PROVE  ClosedIsFinal'
  BY <1>1, <1>8 DEF RecvStart, AskStart, TimedStart
<1>9. ASSUME NEW t \in Threads, CountRecvWaiting(t) \/ UncountRecvWaiting(t)
      PROVE  ClosedIsFinal'
  BY <1>1, <1>9 DEF CountRecvWaiting, UncountRecvWaiting
<1>10. ASSUME NEW t \in Threads, ReportClosed(t) \/ TryReportClosed(t)
       PROVE  ClosedIsFinal'
  <2>1. ~open /\ buf = <<>> /\ UNCHANGED <<open, buf>>
    BY <1>10 DEF ReportClosed, TryReportClosed, Disconnected
  <2>2. \A u \in Threads : op[u] # "send"
    BY <1>10 DEF ReportClosed, TryReportClosed, Disconnected, HoldsSender
  <2>3. \A u \in Threads : op'[u] \in {op[u], "none"}
    BY <1>1, <1>10 DEF ReportClosed, TryReportClosed
  <2> QED
    BY <2>1, <2>2, <2>3
<1>11. CASE UNCHANGED vars
  BY <1>11 DEF vars
<1> QED
  BY <1>2, <1>3, <1>4, <1>5, <1>6, <1>7, <1>8, <1>9, <1>10, <1>11
  DEF Next, Advance, Begin

(* Once some receiver has been told that the channel is closed, the queue  *)
(* stays drained and no sender is left, for any number of threads.         *)
THEOREM CloseReportIsFinal == Spec => []ClosedIsFinal
<1>1. Init => TypeOK /\ ClosedIsFinal
  BY InvariantInit DEF Invariant
<1>2. TypeOK /\ ClosedIsFinal /\ [Next]_vars => TypeOK' /\ ClosedIsFinal'
  BY TypeStep, ClosedStep
<1> QED
  BY <1>1, <1>2, PTL DEF Spec

-----------------------------------------------------------------------------
(* A step of a thread outside a send keeps it outside, and no step changes *)
(* the message a send carries, so no message gets a second sender.         *)
LEMMA OwnStep == TypeOK /\ OwnMessages /\ [Next]_vars => OwnMessages'
<1> SUFFICES ASSUME TypeOK, OwnMessages, [Next]_vars PROVE OwnMessages'
  OBVIOUS
<1> USE DEF OwnMessages, queueVars, countVars, Goto, Return, Finish, At
<1>1. /\ op \in [Threads -> Ops] /\ pc \in [Threads -> {"idle", "push", "enter",
                                      "wait", "sent", "taken", "leave", "left"}]
      /\ val \in [Threads -> Messages \cup {NoMessage}]
  BY DEF TypeOK
<1>2. CASE Close
  BY <1>2 DEF Close
<1>3. ASSUME NEW t \in Threads, NEW m \in Messages, SendStart(t, m)
      PROVE  OwnMessages'
  <2>1. \A u \in Threads : val[u] # m
    BY <1>3 DEF SendStart, Fresh
  <2>2. \A u \in Threads : u # t => op'[u] = op[u] /\ val'[u] = val[u]
    BY <1>1, <1>3 DEF SendStart
  <2>3. val'[t] = m
    BY <1>1, <1>3 DEF SendStart
  <2> QED
    BY <2>1, <2>2, <2>3
<1>4. ASSUME NEW t \in Threads, op[t] = "send" => val'[t] = val[t],
             op'[t] = "send" => op[t] = "send",
             \A u \in Threads : u # t => op'[u] = op[u] /\ val'[u] = val[u]
      PROVE  OwnMessages'
  BY <1>4
<1>5. ASSUME NEW t \in Threads,
             \/ ParkSender(t) \/ CountSendWaiting(t) \/ Push(t)
             \/ UncountSendWaiting(t)
      PROVE  OwnMessages'
  BY <1>1, <1>4, <1>5 DEF ParkSender, CountSendWaiting, Push, UncountSendWaiting
<1>6. ASSUME NEW t \in Threads, NEW r \in Threads, Rendezvous(t, r)
      PROVE  OwnMessages'
  <2>1. op' = op /\ op[r] # "send"
    BY <1>6 DEF Rendezvous, Receives
  <2>2. \A u \in Threads : u # r => val'[u] = val[u]
    BY <1>1, <1>6 DEF Rendezvous
  <2> QED
    BY <2>1, <2>2
<1>7. ASSUME NEW t \in Threads, Take(t) \/ TryTake(t) PROVE OwnMessages'
  BY <1>1, <1>4, <1>7 DEF Take, TryTake, Receives
<1>8. ASSUME NEW t \in Threads, CountSent(t) \/ CountTaken(t) \/ TimedOut(t)
                                  \/ Unpark(t) \/ ReportClosed(t)
      PROVE  OwnMessages'
  <2>1. op'[t] \in {op[t], "none"} /\ (op'[t] = op[t] => val'[t] = val[t] \/ op[t] = "none")
    BY <1>1, <1>8 DEF CountSent, CountTaken, TimedOut, Unpark, ReportClosed
  <2>2. \A u \in Threads : u # t => op'[u] = op[u] /\ val'[u] = val[u]
    BY <1>1, <1>8 DEF CountSent, CountTaken, TimedOut, Unpark, ReportClosed
  <2> QED
    BY <2>1, <2>2
<1>9. ASSUME NEW t \in Threads, \/ RecvStart(t) \/ AskStart(t) \/ TimedStart(t)
                                \/ CountRecvWaiting(t) \/ UncountRecvWaiting(t)
      PROVE  OwnMessages'
  BY <1>1, <1>4, <1>9 DEF RecvStart, AskStart, TimedStart, CountRecvWaiting,
                          UncountRecvWaiting
<1>10. ASSUME NEW t \in Threads, TryReportClosed(t) PROVE OwnMessages'
  BY <1>10 DEF TryReportClosed
<1>11. CASE UNCHANGED vars
  BY <1>11 DEF vars
<1> QED
  BY <1>2, <1>3, <1>5, <1>6, <1>7, <1>8, <1>9, <1>10, <1>11
  DEF Next, Advance, Begin

(* A step that leaves every other thread's place in its send alone changes *)
(* the admitted messages by its own thread's at most.                      *)
LEMMA AdmittedByOne ==
  ASSUME TypeOK, OwnMessages, NEW t \in Threads,
         \A u \in Threads : u # t =>
           op'[u] = op[u] /\ pc'[u] = pc[u] /\ val'[u] = val[u]
  PROVE  /\ t \in Senders /\ t \notin Senders'
              => val[t] \in Admitted /\ Admitted' = Admitted \ {val[t]}
         /\ t \notin Senders /\ t \in Senders' => Admitted' = Admitted \cup {val'[t]}
         /\ (t \in Senders <=> t \in Senders') /\ (t \in Senders => val'[t] = val[t])
              => Admitted' = Admitted
<1>1. \A u \in Threads : u # t => (u \in Senders <=> u \in Senders')
  BY DEF Senders
<1>2. \A u \in Senders : u # t /\ t \in Senders => val[u] # val[t]
  BY DEF Senders, OwnMessages
<1>3. Senders \subseteq Threads /\ Senders' \subseteq Threads
  BY DEF Senders
<1> QED
  BY <1>1, <1>2, <1>3 DEF Admitted

(* Every step of the channel is a step of the mailbox or none of it.       *)
LEMMA MailboxStep ==
  TypeOK /\ Fifo /\ NothingRests /\ OwnMessages /\ [Next]_vars
    => [Promise!Next]_(Promise!vars)
<1> SUFFICES ASSUME TypeOK, Fifo, NothingRests, OwnMessages, [Next]_vars
             PROVE  [Promise!Next]_(Promise!vars)
  OBVIOUS
<1> USE DEF queueVars, countVars, Goto, Return, Finish, At
<1>1. /\ op \in [Threads -> Ops] /\ pc \in [Threads -> {"idle", "push", "enter",
                                      "wait", "sent", "taken", "leave", "left"}]
      /\ val \in [Threads -> Messages \cup {NoMessage}]
      /\ buf \in Seq(Messages) /\ received \in Seq(Messages)
      /\ \A t \in Threads : op[t] = "send" => val[t] \in Messages
  BY DEF TypeOK
<1>2. ASSUME UNCHANGED <<open, buf, received, told, Admitted>>
      PROVE  [Promise!Next]_(Promise!vars)
  BY <1>2 DEF Promise!vars
<1>3. CASE Close
  <2>1. Admitted' = Admitted
    BY <1>3 DEF Close, Admitted, Senders
  <2> QED
    BY <1>3, <2>1 DEF Close, Promise!Close, Promise!Next
<1>4. ASSUME NEW t \in Threads, NEW m \in Messages, SendStart(t, m)
      PROVE  [Promise!Next]_(Promise!vars)
  <2>1. t \notin Senders /\ t \in Senders' /\ val'[t] = m
    BY <1>1, <1>4 DEF SendStart, Senders, Trying
  <2>2. \A u \in Threads : u # t =>
          op'[u] = op[u] /\ pc'[u] = pc[u] /\ val'[u] = val[u]
    BY <1>1, <1>4 DEF SendStart
  <2>3. Admitted' = Admitted \cup {m}
    BY <2>1, <2>2, AdmittedByOne
  <2>4. open /\ UNCHANGED <<open, buf, received, told>>
    BY <1>4 DEF SendStart
  <2> QED
    BY <2>3, <2>4 DEF Promise!Admit, Promise!Next
<1>5. ASSUME NEW t \in Threads, Push(t) PROVE [Promise!Next]_(Promise!vars)
  <2>1. t \in Senders /\ t \notin Senders'
    BY <1>1, <1>5 DEF Push, Senders, Trying
  <2>2. \A u \in Threads : u # t =>
          op'[u] = op[u] /\ pc'[u] = pc[u] /\ val'[u] = val[u]
    BY <1>1, <1>5 DEF Push
  <2>3. val[t] \in Admitted /\ Admitted' = Admitted \ {val[t]}
    BY <2>1, <2>2, AdmittedByOne
  <2>4. val[t] \in Messages /\ buf' = Append(buf, val[t])
        /\ UNCHANGED <<open, received, told>>
    BY <1>1, <1>5 DEF Push
  <2> QED
    BY <2>3, <2>4 DEF Promise!Accept, Promise!Next
<1>6. ASSUME NEW t \in Threads, NEW r \in Threads, Rendezvous(t, r)
      PROVE  [Promise!Next]_(Promise!vars)
  <2>1. t # r /\ val[t] \in Messages /\ r \notin Senders /\ r \notin Senders'
        /\ t \in Senders /\ t \notin Senders'
    BY <1>1, <1>6 DEF Rendezvous, Senders, Trying, Receives
  <2>2. \A u \in Threads : u \notin {t, r} =>
          op'[u] = op[u] /\ pc'[u] = pc[u] /\ val'[u] = val[u]
    BY <1>1, <1>6 DEF Rendezvous
  <2>3. \A u \in Senders : u # t => u \in Senders' /\ val'[u] = val[u]
    BY <2>1, <2>2 DEF Senders
  <2>4. \A u \in Senders' : u # t /\ u \in Senders /\ val'[u] = val[u]
    BY <2>1, <2>2 DEF Senders
  <2>5. \A u \in Senders : u # t => val[u] # val[t]
    BY <2>1 DEF Senders, OwnMessages
  <2>6. val[t] \in Admitted /\ Admitted' = Admitted \ {val[t]}
    BY <2>1, <2>3, <2>4, <2>5 DEF Admitted
  <2>7. buf = <<>> /\ received' = Append(received, val[t])
        /\ UNCHANGED <<open, buf, told>>
    BY <1>6 DEF Rendezvous, NothingRests
  <2> QED
    BY <2>1, <2>6, <2>7 DEF Promise!HandOver, Promise!Next
<1>7. ASSUME NEW t \in Threads, Take(t) \/ TryTake(t)
      PROVE  [Promise!Next]_(Promise!vars)
  <2>1. t \notin Senders /\ t \notin Senders'
    BY <1>1, <1>7 DEF Take, TryTake, Senders, Receives
  <2>2. \A u \in Threads : u # t =>
          op'[u] = op[u] /\ pc'[u] = pc[u] /\ val'[u] = val[u]
    BY <1>1, <1>7 DEF Take, TryTake
  <2>3. Admitted' = Admitted
    BY <2>1, <2>2, AdmittedByOne
  <2>4. buf # <<>> /\ buf' = Tail(buf) /\ received' = Append(received, Head(buf))
        /\ UNCHANGED <<open, told>>
    BY <1>7 DEF Take, TryTake
  <2> QED
    BY <2>3, <2>4 DEF Promise!Deliver, Promise!Next
<1>8. ASSUME NEW t \in Threads, ReportClosed(t) \/ TryReportClosed(t)
      PROVE  [Promise!Next]_(Promise!vars)
  <2>1. ~open /\ \A u \in Threads : op[u] # "send"
    BY <1>8 DEF ReportClosed, TryReportClosed, Disconnected, HoldsSender
  <2>2. \A u \in Threads : op'[u] \in {op[u], "none"}
    BY <1>1, <1>8 DEF ReportClosed, TryReportClosed
  <2>3. Admitted = {} /\ Admitted' = {}
    BY <2>1, <2>2 DEF Admitted, Senders
  <2>4. buf = <<>> /\ told' = TRUE /\ UNCHANGED <<open, buf, received>>
    BY <1>8 DEF ReportClosed, TryReportClosed
  <2> QED
    BY <2>1, <2>3, <2>4 DEF Promise!End, Promise!Next
<1>9. ASSUME NEW t \in Threads, ParkSender(t) \/ CountSendWaiting(t)
      PROVE  [Promise!Next]_(Promise!vars)
  <2>1. t \in Senders /\ t \in Senders' /\ val'[t] = val[t]
    BY <1>1, <1>9 DEF ParkSender, CountSendWaiting, Senders, Trying
  <2>2. \A u \in Threads : u # t =>
          op'[u] = op[u] /\ pc'[u] = pc[u] /\ val'[u] = val[u]
    BY <1>1, <1>9 DEF ParkSender, CountSendWaiting
  <2>3. UNCHANGED <<open, buf, received, told>>
    BY <1>9 DEF ParkSender, CountSendWaiting
  <2> QED
    BY <1>2, <2>1, <2>2, <2>3, AdmittedByOne
<1>10. ASSUME NEW t \in Threads,
              \/ CountSent(t) \/ CountTaken(t) \/ TimedOut(t) \/ Unpark(t)
              \/ UncountSendWaiting(t) \/ UncountRecvWaiting(t)
              \/ RecvStart(t) \/ AskStart(t) \/ TimedStart(t) \/ CountRecvWaiting(t)
       PROVE  [Promise!Next]_(Promise!vars)
  <2>1. t \notin Senders /\ t \notin Senders'
    BY <1>1, <1>10 DEF CountSent, CountTaken, TimedOut, Unpark,
       UncountSendWaiting, UncountRecvWaiting, RecvStart, AskStart, TimedStart,
       CountRecvWaiting, Senders, Trying
  <2>2. \A u \in Threads : u # t =>
          op'[u] = op[u] /\ pc'[u] = pc[u] /\ val'[u] = val[u]
    BY <1>1, <1>10 DEF CountSent, CountTaken, TimedOut, Unpark,
       UncountSendWaiting, UncountRecvWaiting, RecvStart, AskStart, TimedStart,
       CountRecvWaiting
  <2>3. UNCHANGED <<open, buf, received, told>>
    BY <1>10 DEF CountSent, CountTaken, TimedOut, Unpark, UncountSendWaiting,
       UncountRecvWaiting, RecvStart, AskStart, TimedStart, CountRecvWaiting
  <2> QED
    BY <1>2, <2>1, <2>2, <2>3, AdmittedByOne
<1>11. CASE UNCHANGED vars
  BY <1>2, <1>11 DEF vars, Admitted, Senders
<1> QED
  BY <1>3, <1>4, <1>5, <1>6, <1>7, <1>8, <1>9, <1>10, <1>11
  DEF Next, Advance, Begin

(* The channel with its threads, its parking and its counters implements   *)
(* the mailbox of docs/stdlib.md, whatever its capacity.                   *)
THEOREM ImplementsMailbox == Spec => MailboxSpec
<1>1. Init => Promise!Init
  BY DEF Init, Promise!Init, Admitted, Senders
<1>2. Init => TypeOK /\ Fifo /\ NothingRests /\ OwnMessages
  BY InvariantInit DEF Invariant
<1>3. TypeOK /\ Fifo /\ NothingRests /\ OwnMessages /\ [Next]_vars
        => TypeOK' /\ Fifo' /\ NothingRests' /\ OwnMessages'
  BY TypeStep, FifoStep, OwnStep
<1> QED
  BY <1>1, <1>2, <1>3, MailboxStep, PTL DEF Spec, MailboxSpec, Promise!Spec


-----------------------------------------------------------------------------
(* chan.stat's counters.  A thread counts in one of six sets, by the step  *)
(* it is at, and every step moves it by itself between them.               *)

Sent == {t \in Threads : pc[t] = "sent"}
Taken == {t \in Threads : pc[t] = "taken"}

(* A thread about to count itself, or to leave, has its park entry; one    *)
(* that has one is inside its wait.                                        *)
Entered == \A t \in Threads : pc[t] \in {"enter", "leave"} => t \in parked
Placed == \A t \in parked : pc[t] \in {"enter", "wait", "sent", "taken", "leave"}

Counts == TypeOK /\ Entered /\ Placed

LEMMA SetsAreFinite ==
  /\ IsFiniteSet(Sent) /\ IsFiniteSet(Taken)
  /\ \A o \in {"recv", "send"} : IsFiniteSet(Leavers(o))
  /\ TypeOK => \A o \in {"recv", "send"} : IsFiniteSet(Waiters(o))
  BY ThreadsAssumption, FS_Subset DEF Sent, Taken, Leavers, Waiters, TypeOK

(* One thread more in a set, or less. *)
LEMMA OneMore ==
  ASSUME NEW S, IsFiniteSet(S), NEW t, t \notin S
  PROVE  Cardinality(S) \in Nat /\ Cardinality(S \cup {t}) = Cardinality(S) + 1
  BY FS_AddElement, FS_CardinalityType

LEMMA OneLess ==
  ASSUME NEW S, IsFiniteSet(S), NEW t, t \in S
  PROVE  Cardinality(S) \in Nat /\ Cardinality(S \ {t}) = Cardinality(S) - 1
  BY FS_RemoveElement, FS_CardinalityType

LEMMA QueueLengths ==
  ASSUME NEW q \in Seq(Messages)
  PROVE  /\ Len(q) \in Nat
         /\ \A m \in Messages : Len(Append(q, m)) = Len(q) + 1
         /\ q # <<>> => Len(Tail(q)) = Len(q) - 1
  OBVIOUS

LEMMA EntryStep == Counts /\ [Next]_vars => Entered' /\ Placed'
<1> SUFFICES ASSUME Counts, [Next]_vars PROVE Entered' /\ Placed'
  OBVIOUS
<1> USE DEF Goto, Return, Finish, At, Entered, Placed, Counts, TypeOK, Ops, Receives
<1>1. CASE Close \/ UNCHANGED vars
  BY <1>1 DEF Close, vars
<1>2. ASSUME NEW t \in Threads, NEW m \in Messages, SendStart(t, m) PROVE Entered' /\ Placed'
  BY <1>2 DEF SendStart
<1>3. ASSUME NEW t \in Threads, Push(t) PROVE Entered' /\ Placed'
  BY <1>3 DEF Push
<1>4. ASSUME NEW t \in Threads, ParkSender(t) PROVE Entered' /\ Placed'
  BY <1>4 DEF ParkSender
<1>5. ASSUME NEW t \in Threads, CountSendWaiting(t) PROVE Entered' /\ Placed'
  BY <1>5 DEF CountSendWaiting
<1>6. ASSUME NEW t \in Threads, CountSent(t) PROVE Entered' /\ Placed'
  BY <1>6 DEF CountSent
<1>7. ASSUME NEW t \in Threads, Unpark(t) PROVE Entered' /\ Placed'
  BY <1>7 DEF Unpark
<1>8. ASSUME NEW t \in Threads, UncountSendWaiting(t) PROVE Entered' /\ Placed'
  BY <1>8 DEF UncountSendWaiting
<1>9. ASSUME NEW t \in Threads, CountRecvWaiting(t) PROVE Entered' /\ Placed'
  BY <1>9 DEF CountRecvWaiting
<1>10. ASSUME NEW t \in Threads, Take(t) PROVE Entered' /\ Placed'
  BY <1>10 DEF Take
<1>11. ASSUME NEW t \in Threads, CountTaken(t) PROVE Entered' /\ Placed'
  BY <1>11 DEF CountTaken
<1>12. ASSUME NEW t \in Threads, ReportClosed(t) PROVE Entered' /\ Placed'
  BY <1>12 DEF ReportClosed
<1>13. ASSUME NEW t \in Threads, TimedOut(t) PROVE Entered' /\ Placed'
  BY <1>13 DEF TimedOut
<1>14. ASSUME NEW t \in Threads, UncountRecvWaiting(t) PROVE Entered' /\ Placed'
  BY <1>14 DEF UncountRecvWaiting
<1>15. ASSUME NEW t \in Threads, RecvStart(t) PROVE Entered' /\ Placed'
  BY <1>15 DEF RecvStart
<1>16. ASSUME NEW t \in Threads, AskStart(t) PROVE Entered' /\ Placed'
  BY <1>16 DEF AskStart
<1>17. ASSUME NEW t \in Threads, TimedStart(t) PROVE Entered' /\ Placed'
  BY <1>17 DEF TimedStart
<1>18. ASSUME NEW t \in Threads, TryTake(t) PROVE Entered' /\ Placed'
  BY <1>18 DEF TryTake
<1>19. ASSUME NEW t \in Threads, TryReportClosed(t) PROVE Entered' /\ Placed'
  BY <1>19 DEF TryReportClosed
<1>20. ASSUME NEW t \in Threads, NEW r \in Threads, Rendezvous(t, r) PROVE Entered' /\ Placed'
  BY <1>20 DEF Rendezvous
<1> QED
  BY <1>1, <1>2, <1>3, <1>4, <1>5, <1>6, <1>7, <1>8, <1>9, <1>10, <1>11, <1>12, <1>13, <1>14, <1>15, <1>16, <1>17, <1>18, <1>19, <1>20 DEF Next, Advance, Begin

(* The steps that count no message and move none. *)
Beside(t) ==
  \/ \E m \in Messages : SendStart(t, m)
  \/ ParkSender(t) \/ CountSendWaiting(t) \/ Unpark(t) \/ UncountSendWaiting(t)
  \/ RecvStart(t) \/ CountRecvWaiting(t) \/ AskStart(t) \/ TimedStart(t)
  \/ ReportClosed(t) \/ TryReportClosed(t) \/ TimedOut(t) \/ UncountRecvWaiting(t)

LEMMA BesideKeeps ==
  ASSUME Counts, NEW t \in Threads, Beside(t)
  PROVE  Sent' = Sent /\ Taken' = Taken /\ UNCHANGED <<buf, depth>>
<1> USE DEF Goto, Return, Finish, At, Sent, Taken, Counts, TypeOK, queueVars, countVars
<1>1. ASSUME NEW m \in Messages, SendStart(t, m) PROVE Sent' = Sent /\ Taken' = Taken /\ UNCHANGED <<buf, depth>>
  BY <1>1 DEF SendStart
<1>2. ASSUME ParkSender(t) PROVE Sent' = Sent /\ Taken' = Taken /\ UNCHANGED <<buf, depth>>
  BY <1>2 DEF ParkSender
<1>3. ASSUME CountSendWaiting(t) PROVE Sent' = Sent /\ Taken' = Taken /\ UNCHANGED <<buf, depth>>
  BY <1>3 DEF CountSendWaiting
<1>4. ASSUME Unpark(t) PROVE Sent' = Sent /\ Taken' = Taken /\ UNCHANGED <<buf, depth>>
  BY <1>4 DEF Unpark
<1>5. ASSUME UncountSendWaiting(t) PROVE Sent' = Sent /\ Taken' = Taken /\ UNCHANGED <<buf, depth>>
  BY <1>5 DEF UncountSendWaiting
<1>6. ASSUME CountRecvWaiting(t) PROVE Sent' = Sent /\ Taken' = Taken /\ UNCHANGED <<buf, depth>>
  BY <1>6 DEF CountRecvWaiting
<1>7. ASSUME ReportClosed(t) PROVE Sent' = Sent /\ Taken' = Taken /\ UNCHANGED <<buf, depth>>
  BY <1>7 DEF ReportClosed
<1>8. ASSUME TimedOut(t) PROVE Sent' = Sent /\ Taken' = Taken /\ UNCHANGED <<buf, depth>>
  BY <1>8 DEF TimedOut
<1>9. ASSUME UncountRecvWaiting(t) PROVE Sent' = Sent /\ Taken' = Taken /\ UNCHANGED <<buf, depth>>
  BY <1>9 DEF UncountRecvWaiting
<1>10. ASSUME RecvStart(t) PROVE Sent' = Sent /\ Taken' = Taken /\ UNCHANGED <<buf, depth>>
  BY <1>10 DEF RecvStart
<1>11. ASSUME AskStart(t) PROVE Sent' = Sent /\ Taken' = Taken /\ UNCHANGED <<buf, depth>>
  BY <1>11 DEF AskStart
<1>12. ASSUME TimedStart(t) PROVE Sent' = Sent /\ Taken' = Taken /\ UNCHANGED <<buf, depth>>
  BY <1>12 DEF TimedStart
<1>13. ASSUME TryReportClosed(t) PROVE Sent' = Sent /\ Taken' = Taken /\ UNCHANGED <<buf, depth>>
  BY <1>13 DEF TryReportClosed
<1> QED
  BY <1>1, <1>2, <1>3, <1>4, <1>5, <1>6, <1>7, <1>8, <1>9, <1>10, <1>11, <1>12, <1>13 DEF Beside

LEMMA DepthStep == Counts /\ DepthAccounted /\ [Next]_vars => DepthAccounted'
<1> SUFFICES ASSUME Counts, DepthAccounted, [Next]_vars PROVE DepthAccounted'
  OBVIOUS
<1>1. depth = Len(buf) - Cardinality(Sent) + Cardinality(Taken)
  BY DEF DepthAccounted, Sent, Taken
<1>2. SUFFICES depth' = Len(buf') - Cardinality(Sent') + Cardinality(Taken')
  BY DEF DepthAccounted, Sent, Taken
<1>3. /\ IsFiniteSet(Sent) /\ IsFiniteSet(Taken)
      /\ Cardinality(Sent) \in Nat /\ Cardinality(Taken) \in Nat
      /\ buf \in Seq(Messages) /\ Len(buf) \in Nat /\ depth \in Int
  BY SetsAreFinite, FS_CardinalityType DEF Counts, TypeOK
<1>4. CASE Close \/ UNCHANGED vars
  BY <1>1, <1>4 DEF Close, vars, Sent, Taken, countVars
<1>5. ASSUME NEW t \in Threads, Beside(t) PROVE depth' = Len(buf') - Cardinality(Sent') + Cardinality(Taken')
  BY <1>1, <1>5, BesideKeeps
<1>6. ASSUME NEW t \in Threads, Push(t) PROVE depth' = Len(buf') - Cardinality(Sent') + Cardinality(Taken')
  <2>1. t \notin Sent /\ Sent' = Sent \cup {t} /\ Taken' = Taken
    BY <1>6 DEF Push, Goto, Sent, Taken, Counts, TypeOK
  <2>2. depth' = depth /\ val[t] \in Messages /\ buf' = Append(buf, val[t])
    BY <1>6 DEF Push, countVars, Counts, TypeOK
  <2>3. Cardinality(Sent') = Cardinality(Sent) + 1
    BY <1>3, <2>1, OneMore
  <2>4. Len(buf') = Len(buf) + 1
    BY <1>3, <2>2, QueueLengths
  <2> QED
    BY <1>1, <1>3, <2>1, <2>2, <2>3, <2>4
<1>7. ASSUME NEW t \in Threads, NEW r \in Threads, Rendezvous(t, r)
      PROVE  depth' = Len(buf') - Cardinality(Sent') + Cardinality(Taken')
  <2>1. t # r /\ pc' = [pc EXCEPT ![t] = "sent", ![r] = "taken"]
    BY <1>7 DEF Rendezvous, Receives
  <2>2. t \notin Sent /\ Sent' = Sent \cup {t} /\ r \notin Taken /\ Taken' = Taken \cup {r}
    BY <1>7, <2>1 DEF Rendezvous, Sent, Taken, Counts, TypeOK
  <2>3. depth' = depth /\ buf' = buf
    BY <1>7 DEF Rendezvous, countVars
  <2>4. Cardinality(Sent') = Cardinality(Sent) + 1 /\ Cardinality(Taken') = Cardinality(Taken) + 1
    BY <1>3, <2>2, OneMore
  <2> QED
    BY <1>1, <1>3, <2>3, <2>4
<1>8. ASSUME NEW t \in Threads, CountSent(t) PROVE depth' = Len(buf') - Cardinality(Sent') + Cardinality(Taken')
  <2>1. t \in Sent /\ Sent' = Sent \ {t} /\ Taken' = Taken
    BY <1>8 DEF CountSent, Finish, Return, Goto, At, Sent, Taken, Counts, TypeOK
  <2>2. depth' = depth + 1 /\ buf' = buf
    BY <1>8 DEF CountSent, queueVars
  <2>3. Cardinality(Sent') = Cardinality(Sent) - 1
    BY <1>3, <2>1, OneLess
  <2> QED
    BY <1>1, <1>3, <2>1, <2>2, <2>3
<1>9. ASSUME NEW t \in Threads, Take(t) \/ TryTake(t)
      PROVE  depth' = Len(buf') - Cardinality(Sent') + Cardinality(Taken')
  <2>1. t \notin Taken /\ Taken' = Taken \cup {t} /\ Sent' = Sent
    BY <1>9 DEF Take, TryTake, Goto, At, Sent, Taken, Counts, TypeOK
  <2>2. depth' = depth /\ buf # <<>> /\ buf' = Tail(buf)
    BY <1>9 DEF Take, TryTake, countVars
  <2>3. Cardinality(Taken') = Cardinality(Taken) + 1 /\ Len(buf') = Len(buf) - 1
    BY <1>3, <2>1, <2>2, OneMore, QueueLengths
  <2> QED
    BY <1>1, <1>3, <2>1, <2>2, <2>3
<1>10. ASSUME NEW t \in Threads, CountTaken(t) PROVE depth' = Len(buf') - Cardinality(Sent') + Cardinality(Taken')
  <2>1. t \in Taken /\ Taken' = Taken \ {t} /\ Sent' = Sent
    BY <1>10 DEF CountTaken, Finish, Return, Goto, Sent, Taken, Counts, TypeOK
  <2>2. depth' = depth - 1 /\ buf' = buf
    BY <1>10 DEF CountTaken, queueVars
  <2>3. Cardinality(Taken') = Cardinality(Taken) - 1
    BY <1>3, <2>1, OneLess
  <2> QED
    BY <1>1, <1>3, <2>1, <2>2, <2>3
<1> QED
  BY <1>4, <1>5, <1>6, <1>7, <1>8, <1>9, <1>10 DEF Next, Advance, Begin, Beside

(* The steps that leave the waits counted as they are: a thread that has   *)
(* counted itself goes on inside its wait. *)
Inside(t) ==
  \/ \E m \in Messages : SendStart(t, m)
  \/ Push(t) \/ ParkSender(t) \/ CountSent(t)
  \/ RecvStart(t) \/ AskStart(t) \/ TimedStart(t) \/ Take(t) \/ TryTake(t) \/ CountTaken(t)
  \/ ReportClosed(t) \/ TryReportClosed(t) \/ TimedOut(t)
  \/ \E r \in Threads : Rendezvous(t, r)

SameWaits ==
  /\ \A o \in {"recv", "send"} : Waiters(o)' = Waiters(o) /\ Leavers(o)' = Leavers(o)
  /\ UNCHANGED <<recvWaiting, sendWaiting>>

LEMMA InsideKeeps ==
  ASSUME Counts, NEW t \in Threads, Inside(t)
  PROVE  SameWaits
<1> USE DEF Goto, Return, Finish, At, Waiters, Leavers, SameWaits, Counts, Placed, TypeOK,
            Ops, Receives, countVars
<1>1. ASSUME NEW m \in Messages, SendStart(t, m) PROVE SameWaits
  BY <1>1 DEF SendStart
<1>2. ASSUME Push(t) PROVE SameWaits
  BY <1>2 DEF Push
<1>3. ASSUME ParkSender(t) PROVE SameWaits
  BY <1>3 DEF ParkSender
<1>4. ASSUME CountSent(t) PROVE SameWaits
  BY <1>4 DEF CountSent
<1>5. ASSUME Take(t) PROVE SameWaits
  BY <1>5 DEF Take
<1>6. ASSUME CountTaken(t) PROVE SameWaits
  BY <1>6 DEF CountTaken
<1>7. ASSUME ReportClosed(t) PROVE SameWaits
  BY <1>7 DEF ReportClosed
<1>8. ASSUME TimedOut(t) PROVE SameWaits
  BY <1>8 DEF TimedOut
<1>9. ASSUME RecvStart(t) PROVE SameWaits
  BY <1>9 DEF RecvStart
<1>10. ASSUME AskStart(t) PROVE SameWaits
  BY <1>10 DEF AskStart
<1>11. ASSUME TimedStart(t) PROVE SameWaits
  BY <1>11 DEF TimedStart
<1>12. ASSUME TryTake(t) PROVE SameWaits
  BY <1>12 DEF TryTake
<1>13. ASSUME TryReportClosed(t) PROVE SameWaits
  BY <1>13 DEF TryReportClosed
<1>14. ASSUME NEW r \in Threads, Rendezvous(t, r) PROVE SameWaits
  BY <1>14 DEF Rendezvous
<1> QED
  BY <1>1, <1>2, <1>3, <1>4, <1>5, <1>6, <1>7, <1>8, <1>9, <1>10, <1>11, <1>12, <1>13, <1>14 DEF Inside

(* The counters and the sets they count. *)
Balance ==
  /\ recvWaiting = Cardinality(Waiters("recv")) + Cardinality(Leavers("recv"))
  /\ sendWaiting = Cardinality(Waiters("send")) + Cardinality(Leavers("send"))

LEMMA WaitersStep == Counts /\ Balance /\ [Next]_vars => Balance'
<1> SUFFICES ASSUME Counts, Balance, [Next]_vars PROVE Balance'
  OBVIOUS
<1>1. \A o \in {"recv", "send"} :
        /\ IsFiniteSet(Waiters(o)) /\ Cardinality(Waiters(o)) \in Nat
        /\ IsFiniteSet(Leavers(o)) /\ Cardinality(Leavers(o)) \in Nat
  BY SetsAreFinite, FS_CardinalityType DEF Counts
<1>2. CASE Close \/ UNCHANGED vars
  BY <1>2 DEF Close, vars, countVars, Balance, Waiters, Leavers, At
<1>3. ASSUME NEW t \in Threads, Inside(t) PROVE Balance'
  BY <1>3, InsideKeeps DEF SameWaits, Balance
<1>4. ASSUME NEW t \in Threads, CountSendWaiting(t) PROVE Balance'
  <2>1. /\ t \notin Waiters("send") /\ Waiters("send")' = Waiters("send") \cup {t}
        /\ Leavers("send")' = Leavers("send")
        /\ Waiters("recv")' = Waiters("recv") /\ Leavers("recv")' = Leavers("recv")
    BY <1>4 DEF CountSendWaiting, Goto, At, Waiters, Leavers, Counts, Entered, TypeOK
  <2>2. sendWaiting' = sendWaiting + 1 /\ recvWaiting' = recvWaiting
    BY <1>4 DEF CountSendWaiting
  <2>3. Cardinality(Waiters("send")') = Cardinality(Waiters("send")) + 1
    BY <1>1, <2>1, OneMore
  <2> QED
    BY <1>1, <2>1, <2>2, <2>3 DEF Balance
<1>5. ASSUME NEW t \in Threads, CountRecvWaiting(t) PROVE Balance'
  <2>1. /\ t \notin Waiters("recv") /\ Waiters("recv")' = Waiters("recv") \cup {t}
        /\ Leavers("recv")' = Leavers("recv")
        /\ Waiters("send")' = Waiters("send") /\ Leavers("send")' = Leavers("send")
    BY <1>5 DEF CountRecvWaiting, Goto, At, Waiters, Leavers, Counts, Entered, TypeOK
  <2>2. recvWaiting' = recvWaiting + 1 /\ sendWaiting' = sendWaiting
    BY <1>5 DEF CountRecvWaiting
  <2>3. Cardinality(Waiters("recv")') = Cardinality(Waiters("recv")) + 1
    BY <1>1, <2>1, OneMore
  <2> QED
    BY <1>1, <2>1, <2>2, <2>3 DEF Balance
<1>6. ASSUME NEW t \in Threads, UncountSendWaiting(t) PROVE Balance'
  <2>1. /\ t \in Leavers("send") /\ Leavers("send")' = Leavers("send") \ {t}
        /\ Waiters("send")' = Waiters("send")
        /\ Waiters("recv")' = Waiters("recv") /\ Leavers("recv")' = Leavers("recv")
    BY <1>6 DEF UncountSendWaiting, Return, Goto, At, Waiters, Leavers, Counts, Placed, TypeOK
  <2>2. sendWaiting' = sendWaiting - 1 /\ recvWaiting' = recvWaiting
    BY <1>6 DEF UncountSendWaiting
  <2>3. Cardinality(Leavers("send")') = Cardinality(Leavers("send")) - 1
    BY <1>1, <2>1, OneLess
  <2> QED
    BY <1>1, <2>1, <2>2, <2>3 DEF Balance
<1>7. ASSUME NEW t \in Threads, UncountRecvWaiting(t) PROVE Balance'
  <2>1. /\ t \in Leavers("recv") /\ Leavers("recv")' = Leavers("recv") \ {t}
        /\ Waiters("recv")' = Waiters("recv")
        /\ Waiters("send")' = Waiters("send") /\ Leavers("send")' = Leavers("send")
    BY <1>7 DEF UncountRecvWaiting, Return, Goto, At, Waiters, Leavers, Counts, Placed, TypeOK
  <2>2. recvWaiting' = recvWaiting - 1 /\ sendWaiting' = sendWaiting
    BY <1>7 DEF UncountRecvWaiting
  <2>3. Cardinality(Leavers("recv")') = Cardinality(Leavers("recv")) - 1
    BY <1>1, <2>1, OneLess
  <2> QED
    BY <1>1, <2>1, <2>2, <2>3 DEF Balance
<1>8. ASSUME NEW t \in Threads, Unpark(t) PROVE Balance'
  <2>1. t \in parked /\ pc[t] = "leave" /\ parked' = parked \ {t} /\ UNCHANGED countVars
    BY <1>8 DEF Unpark, Counts, Entered
  <2>2. ASSUME NEW o \in {"recv", "send"}, op[t] # o
        PROVE  Waiters(o)' = Waiters(o) /\ Leavers(o)' = Leavers(o)
    BY <1>8, <2>1, <2>2 DEF Unpark, Goto, Return, At, Waiters, Leavers, Counts, TypeOK
  <2>3. ASSUME NEW o \in {"recv", "send"}, op[t] = o
        PROVE  /\ t \in Waiters(o) /\ Waiters(o)' = Waiters(o) \ {t}
               /\ t \notin Leavers(o) /\ Leavers(o)' = Leavers(o) \cup {t}
    BY <1>8, <2>1, <2>3 DEF Unpark, Goto, Return, At, Waiters, Leavers, Counts, TypeOK
  <2>4. ASSUME NEW o \in {"recv", "send"}
        PROVE  Cardinality(Waiters(o)') + Cardinality(Leavers(o)')
                 = Cardinality(Waiters(o)) + Cardinality(Leavers(o))
    <3>1. CASE op[t] # o
      BY <2>2, <3>1
    <3>2. CASE op[t] = o
      <4>1. /\ Cardinality(Waiters(o)') = Cardinality(Waiters(o)) - 1
            /\ Cardinality(Leavers(o)') = Cardinality(Leavers(o)) + 1
        BY <1>1, <2>3, <3>2, OneMore, OneLess
      <4> QED
        BY <1>1, <4>1
    <3> QED
      BY <3>1, <3>2
  <2> QED
    BY <2>1, <2>4 DEF Balance, countVars
<1> QED
  BY <1>2, <1>3, <1>4, <1>5, <1>6, <1>7, <1>8 DEF Next, Advance, Begin, Inside

(* chan.stat adds up, whatever operation each thread is in the middle of:  *)
(* the depth is the queue's, up to the messages whose thread has not       *)
(* counted them yet, and the waiting counters count the waits.             *)
THEOREM StatsAlwaysAccounted == Spec => []StatsAccounted
<1>1. Init => Counts /\ DepthAccounted /\ Balance
  <2> SUFFICES ASSUME Init PROVE Counts /\ DepthAccounted /\ Balance
    OBVIOUS
  <2>1. Counts
    BY TypeInit DEF Init, Counts, Entered, Placed
  <2>2. /\ Sent = {} /\ Taken = {}
        /\ Waiters("recv") = {} /\ Leavers("recv") = {}
        /\ Waiters("send") = {} /\ Leavers("send") = {}
    BY DEF Init, Sent, Taken, Waiters, Leavers, At
  <2>3. Len(buf) = 0 /\ depth = 0 /\ recvWaiting = 0 /\ sendWaiting = 0
    BY DEF Init
  <2>4. Cardinality({}) = 0
    BY FS_EmptySet
  <2>5. depth = Len(buf) - Cardinality(Sent) + Cardinality(Taken)
    BY <2>2, <2>3, <2>4
  <2>6. DepthAccounted
    BY <2>5 DEF DepthAccounted, Sent, Taken
  <2>7. /\ Cardinality(Waiters("recv")) = 0 /\ Cardinality(Leavers("recv")) = 0
        /\ Cardinality(Waiters("send")) = 0 /\ Cardinality(Leavers("send")) = 0
    BY <2>2, <2>4
  <2>8. Balance
    BY <2>3, <2>7 DEF Balance
  <2> QED
    BY <2>1, <2>6, <2>8
<1>2. Counts /\ DepthAccounted /\ Balance /\ [Next]_vars
        => Counts' /\ DepthAccounted' /\ Balance'
  BY TypeStep, EntryStep, DepthStep, WaitersStep DEF Counts
<1>3. Counts /\ DepthAccounted /\ Balance => StatsAccounted
  BY DEF Counts, Placed, Balance, StatsAccounted, WaitersAccounted
<1> QED
  BY <1>1, <1>2, <1>3, PTL DEF Spec
=============================================================================
