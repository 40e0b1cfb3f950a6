-------------------------- MODULE ReplServeProofs --------------------------
(***************************************************************************)
(* Proofs about ReplServe, for every number of requests and threads: what  *)
(* is answered as interrupted was sent before the interrupt, and the       *)
(* output of an evaluation is its own.                                     *)
(***************************************************************************)
EXTENDS ReplServe, SequenceTheorems, TLAPS

Handling == session.is = "handling"
Telling == reader.at \in {"interrupt", "ping", "answering"}

(* The session handles the requests in the order in which they were read,  *)
(* each once, and what the reader answers itself is never among them.      *)
Order ==
  /\ \A i \in DOMAIN queue :
       /\ queue[i] \in 1..Last /\ asked[queue[i]] \notin Atomic /\ reply[queue[i]] = "none"
       /\ session.req < queue[i]
  /\ \A i, j \in DOMAIN queue : i < j => queue[i] < queue[j]
  /\ session.is = "waiting" => session = Waiting
  /\ Handling =>
       /\ session.req \in 1..Last /\ Op \notin Atomic /\ reply[session.req] = "none"
       /\ session.at \in 1..Len(Stages[Op])
  /\ Telling =>
       /\ Last \in 1..MaxRequests /\ asked[Last] \in Atomic /\ reply[Last] = "none"
       /\ reader.at # "ping" => asked[Last] = "interrupt"
  /\ reader.busy => Telling
  /\ \A r \in Requests : r > Last => reply[r] = "none"

(* An interrupt was read after r, and told that something runs. *)
Heard(r) ==
  \E i \in r + 1 .. Last :
    asked[i] = "interrupt" /\ (reply[i] = "running" \/ (i = Last /\ reader.busy))

(* The session has forgotten the requests from before this one. *)
Cleared == \E k \in 1..(session.at - 1) : Stages[Op][k] = "clear"

Cause ==
  /\ InterruptStopsWhatWasSent
  /\ Handling /\ Op # "set" =>
       /\ Cleared /\ requested => Heard(session.req)
       /\ session.outcome = "stopped" \/ session.interrupted => Heard(session.req)

(* The tap and the collected output are the evaluation's. *)
Window == Handling /\ Op = "eval" /\ session.at \in 4..9
Fresh(r) == Own(r) \notin out[r] /\ Own(r) \notin streamed[r]

Output ==
  /\ \A r, s \in Requests : Own(r) \in out[s] \cup streamed[s] => r = s
  /\ \A i \in DOMAIN queue : Fresh(queue[i])
  /\ \A r \in Requests : r > Last => Fresh(r)
  /\ Handling /\ ~(Op = "eval" /\ session.at >= 4) => Fresh(session.req)
  /\ Window =>
       /\ tap.of = session.req /\ Own(session.req) \notin out[session.req]
       /\ session.req \notin full =>
            (Own(session.req) \in collected
               <=> Own(session.req) \in tap.pending \cup streamed[session.req])
       /\ \A r \in Requests : Own(r) \in collected \cup tap.pending => r = session.req
  /\ ~Window => tap.of = 0 /\ tap.pending = {} /\ \A r \in Requests : Own(r) \notin collected
  /\ \A r \in Requests \ full : ~(Window /\ r = session.req) =>
       (Own(r) \in out[r] <=> Own(r) \in streamed[r])

-----------------------------------------------------------------------------
(* The stages: an evaluation forgets earlier requests before it runs, and  *)
(* prints between its opening of the tap and the close.                    *)
LEMMA StagesOrder ==
  ASSUME NEW op \in AllOps \ Atomic
  PROVE  /\ Len(Stages[op]) \in 1..10
         /\ \A k \in 1..Len(Stages[op]) :
              /\ Stages[op][k] # "none"
              /\ Stages[op][k] # "reply" => k + 1 \in 1..Len(Stages[op])
              /\ Stages[op][k] \in {"run", "look"} /\ op # "set"
                   => \E j \in 1..(k - 1) : Stages[op][j] = "clear"
              /\ Stages[op][k] = "open" <=> op = "eval" /\ k = 3
              /\ Stages[op][k] = "close" <=> op = "eval" /\ k = 9
              /\ op = "eval" => (Stages[op][k] = "run" <=> k = 5)
              /\ op = "eval" => (Stages[op][k] = "reply" <=> k = 10)
              /\ Stages[op][k] = "drop" => op # "eval"
<1> USE DEF Stages, Evaluation
<1>1. CASE op = "eval"
  BY <1>1
<1>2. CASE op = "command"
  BY <1>2
<1>3. CASE op = "reload"
  BY <1>3
<1>4. CASE op = "render"
  BY <1>4
<1>5. CASE op = "set"
  BY <1>5
<1>6. CASE op = "ask"
  BY <1>6
<1>7. CASE op = "shutdown"
  BY <1>7
<1> QED
  BY <1>1, <1>2, <1>3, <1>4, <1>5, <1>6, <1>7 DEF AllOps, Atomic

LEMMA PrintsDiffer ==
  /\ \A r, s \in Requests : Own(r) = Own(s) => r = s
  /\ \A r, s \in Requests : Own(r) # Late(s)
  /\ \A r \in Requests : Own(r) \in Prints /\ Late(r) \in Prints
<1>1. \A r \in Requests : Own(r).by = r /\ Own(r).from = "evaluation" /\ Late(r).from = "task"
  BY DEF Own, Late
<1> QED
  BY <1>1 DEF Own, Late, Prints

(* The session's next stage. *)
LEMMA StageFacts ==
  ASSUME TypeOK, Order, Stage # "none"
  PROVE  /\ Handling /\ Stage = Stages[Op][session.at] /\ session.req \in Requests
         /\ session.req \in 1..Last /\ Op \in AllOps \ Atomic /\ session.at \in 1..Len(Stages[Op])
         /\ Stage # "reply" => session.at + 1 \in 1..Len(Stages[Op]) /\ session.at + 1 \in 0..10
<1>1. Handling /\ Stage = Stages[Op][session.at] /\ session.req \in 1..Last
      /\ session.at \in 1..Len(Stages[Op]) /\ Op \notin Atomic
  BY DEF Stage, Handling, Order
<1>2. session.req \in Requests /\ Op \in AllOps
  BY <1>1, BoundsAssumption, OpsAssumption DEF TypeOK, Last, Requests, Op
<1>3. /\ Len(Stages[Op]) \in 1..10
      /\ \A k \in 1..Len(Stages[Op]) :
           Stages[Op][k] # "reply" => k + 1 \in 1..Len(Stages[Op])
  BY <1>1, <1>2, StagesOrder
<1>4. Stage # "reply" => session.at + 1 \in 1..Len(Stages[Op])
  BY <1>1, <1>3
<1>5. \A k \in 1..Len(Stages[Op]) : k \in 0..10
  BY <1>3
<1> QED
  BY <1>1, <1>2, <1>4, <1>5

LEMMA InitHolds == Init => TypeOK /\ Order /\ Cause /\ Output
<1> SUFFICES ASSUME Init PROVE TypeOK /\ Order /\ Cause /\ Output
  OBVIOUS
<1> USE BoundsAssumption DEF Init, Requests
<1>1. asked = <<>> /\ queue = <<>> /\ Last = 0 /\ asked \in Seq(Ops) /\ queue \in Seq(Requests)
  BY DEF Last
<1>2. TypeOK
  <2>1. session \in [is : {"waiting", "handling", "ended"}, req : Requests \cup {0}, at : 0..10,
                     outcome : {"none", "ok", "failed", "stopped"}, interrupted : BOOLEAN, polls : BOOLEAN]
    BY DEF Waiting
  <2>2. tap \in [of : Requests \cup {0}, pending : SUBSET Prints]
    BY DEF Closed
  <2>3. reader \in [at : {"reading", "interrupt", "ping", "answering", "gone"}, busy : BOOLEAN]
    OBVIOUS
  <2>4. Len(asked) <= MaxRequests
    BY <1>1 DEF Last
  <2> QED
    BY <1>1, <2>1, <2>2, <2>3, <2>4 DEF TypeOK
<1>3. Order
  BY <1>1 DEF Order, Handling, Telling, Waiting
<1>4. Cause
  BY DEF Cause, InterruptStopsWhatWasSent, Handling, Waiting
<1>5. Output
  BY <1>1 DEF Output, Handling, Window, Waiting, Fresh, Closed
<1> QED
  BY <1>2, <1>3, <1>4, <1>5

-----------------------------------------------------------------------------
LEMMA ReadTypes ==
  ASSUME TypeOK, NEW op \in Ops, Read(op)
  PROVE  /\ asked' = Append(asked, op) /\ asked' \in Seq(Ops) /\ Last' = Last + 1
         /\ Last + 1 \in Requests /\ Last \in Nat /\ asked'[Last + 1] = op
         /\ \A i \in 1..Last : asked'[i] = asked[i] /\ i # Last + 1 /\ i \in 1..(Last + 1)
         /\ queue' \in Seq(Requests)
<1>1. asked \in Seq(Ops) /\ queue \in Seq(Requests) /\ Len(asked) < MaxRequests
      /\ asked' = Append(asked, op) /\ queue' \in {queue, Append(queue, Last + 1)}
  BY DEF TypeOK, Read, Last
<1>2. Last \in Nat /\ Last + 1 \in Requests
  BY <1>1, BoundsAssumption DEF Last, Requests
<1>3. /\ asked' \in Seq(Ops) /\ Len(asked') = Len(asked) + 1 /\ asked'[Len(asked) + 1] = op
      /\ \A i \in 1..Len(asked) : asked'[i] = asked[i]
  BY <1>1
<1>4. queue' \in Seq(Requests)
  <2>1. Append(queue, Last + 1) \in Seq(Requests)
    BY <1>1, <1>2
  <2> QED
    BY <1>1, <2>1
<1> QED
  BY <1>1, <1>2, <1>3, <1>4 DEF Last

LEMMA TakeTypes ==
  ASSUME TypeOK, Take
  PROVE  /\ queue # <<>> /\ queue \in Seq(Requests) /\ queue' = Tail(queue) /\ queue' \in Seq(Requests)
         /\ 1 \in DOMAIN queue /\ Head(queue) = queue[1] /\ Head(queue) \in Requests
         /\ \A i \in DOMAIN queue' : i + 1 \in DOMAIN queue /\ queue'[i] = queue[i + 1] /\ i \in Nat
                                     /\ i >= 1
         /\ session' = Handled(queue[1])
         /\ session'.is = "handling" /\ session'.req = queue[1] /\ session'.at = 1
         /\ session'.outcome = "none" /\ session'.interrupted = FALSE
<1>1. /\ queue # <<>> /\ queue \in Seq(Requests) /\ queue' = Tail(queue)
      /\ session' = Handled(Head(queue))
  BY DEF TypeOK, Take
<1>2. /\ Head(queue) = queue[1] /\ 1 \in DOMAIN queue /\ queue[1] \in Requests
      /\ Tail(queue) \in Seq(Requests) /\ Len(Tail(queue)) = Len(queue) - 1
      /\ \A i \in 1..Len(Tail(queue)) : Tail(queue)[i] = queue[i + 1]
  BY <1>1, HeadTailProperties
<1>3. \A i \in DOMAIN Tail(queue) : i \in 1..Len(Tail(queue)) /\ i + 1 \in DOMAIN queue
  BY <1>1, <1>2
<1> QED
  BY <1>1, <1>2, <1>3 DEF Handled

(* A step into or out of a builtin that waits. *)
LEMMA WaitingSteps ==
  ASSUME TypeOK, Order, RunWaits \/ RunGoesOn
  PROVE  /\ Handling /\ Handling' /\ session'.is = session.is /\ session'.req = session.req
         /\ session'.at = session.at /\ session'.outcome = session.outcome
         /\ session'.interrupted = session.interrupted /\ session'.polls \in BOOLEAN
         /\ session' = [session EXCEPT !.polls = session'.polls]
         /\ UNCHANGED <<asked, reader, queue, running, requested, reply, collected, tap, streamed,
                       out, full, task>>
         /\ Op' = Op
<1>1. /\ Stage = "run"
      /\ session' = [session EXCEPT !.polls = FALSE] \/ session' = [session EXCEPT !.polls = TRUE]
      /\ UNCHANGED <<asked, reader, queue, running, requested, reply, collected, tap, streamed,
                    out, full, task>>
  BY DEF RunWaits, RunGoesOn, Runs, readVars, flagVars, outputVars
<1>2. Handling
  BY <1>1 DEF Stage, Handling
<1> QED
  BY <1>1, <1>2 DEF TypeOK, Handling, Op

(* A request that is refused is handled, and has not opened the tap. *)
LEMMA RefuseFacts ==
  ASSUME TypeOK, Order, Refuse
  PROVE  /\ Handling /\ Stage # "none" /\ session.req \in Requests
         /\ Op = "eval" => session.at = 2
<1>1. Handling /\ <<Op, session.at>> \in Refusable
  BY DEF Refuse, Handling
<1>2. session.at \in 1..Len(Stages[Op]) /\ Op \notin Atomic /\ session.req \in 1..Last
  BY <1>1 DEF Order
<1>3. session.req \in Requests /\ Op \in AllOps
  BY <1>2, BoundsAssumption, OpsAssumption DEF TypeOK, Last, Requests, Op
<1>4. Stages[Op][session.at] # "none"
  BY <1>2, <1>3, StagesOrder
<1> QED
  BY <1>1, <1>3, <1>4 DEF Stage, Handling, Refusable

LEMMA TypeStep == TypeOK /\ Order /\ [Next]_vars => TypeOK'
<1> SUFFICES ASSUME TypeOK, Order, [Next]_vars PROVE TypeOK'
  OBVIOUS
<1> USE DEF readVars, flagVars, outputVars, histVars
<1>1. CASE UNCHANGED vars
  BY <1>1 DEF TypeOK, vars, Last
<1>2. ASSUME NEW op \in Ops, Read(op) PROVE TypeOK'
  <2>1. reader' \in [at : {"reading", "interrupt", "ping", "answering", "gone"}, busy : BOOLEAN]
    BY <1>2 DEF TypeOK, Read, Atomic
  <2>2. Len(asked') <= MaxRequests
    BY <1>2, ReadTypes DEF Requests, Last
  <2> QED
    BY <1>2, <2>1, <2>2, ReadTypes DEF TypeOK, Read
<1>3. CASE Interrupt \/ StdinCloses
  <2>1. CASE Interrupt
    BY <2>1 DEF TypeOK, Interrupt, Last
  <2>2. CASE StdinCloses
    BY <2>2 DEF TypeOK, StdinCloses, Last
  <2> QED
    BY <1>3, <2>1, <2>2
<1>4. CASE AnswerAtOnce
  BY <1>4 DEF TypeOK, AnswerAtOnce, Last
<1>5. CASE Take
  <2>1. session' \in [is : {"waiting", "handling", "ended"}, req : Requests \cup {0}, at : 0..10,
                      outcome : {"none", "ok", "failed", "stopped"}, interrupted : BOOLEAN, polls : BOOLEAN]
    <3>1. session' = Handled(queue[1]) /\ queue[1] \in Requests
      BY <1>5, TakeTypes
    <3> QED
      BY <3>1 DEF Handled
  <2> QED
    BY <1>5, <2>1, TakeTypes DEF TypeOK, Take, Last
<1>6. CASE End
  BY <1>6 DEF TypeOK, End, Last
<1>7. CASE Declare \/ Clear \/ Mark \/ Stopped \/ Look \/ \E o \in {"ok", "failed"} : RunEnds(o)
  <2>1. Stage # "none" /\ Stage # "reply"
    BY <1>7 DEF Declare, Clear, Mark, Stopped, Look, RunEnds, Runs
  <2>2. session.at + 1 \in 0..10
    BY <2>1, StageFacts
  <2>3. CASE Declare
    BY <2>2, <2>3 DEF TypeOK, Declare, Last, Onward
  <2>4. CASE Clear
    BY <2>2, <2>4 DEF TypeOK, Clear, Last, Onward
  <2>5. CASE Mark
    BY <2>2, <2>5 DEF TypeOK, Mark, Last, Onward
  <2>6. CASE Stopped
    BY <2>2, <2>6 DEF TypeOK, Stopped, Runs, Last, Onward
  <2>7. CASE Look
    BY <2>2, <2>7 DEF TypeOK, Look, Last, Onward
  <2>8. CASE \E o \in {"ok", "failed"} : RunEnds(o)
    <3>1. PICK o \in {"ok", "failed"} : RunEnds(o)
      BY <2>8
    <3>2. session' \in [is : {"waiting", "handling", "ended"}, req : Requests \cup {0}, at : 0..10,
                        outcome : {"none", "ok", "failed", "stopped"}, interrupted : BOOLEAN, polls : BOOLEAN]
      BY <2>2, <3>1 DEF TypeOK, RunEnds, Runs, Onward
    <3>3. UNCHANGED <<asked, reader, queue, running, requested, reply, collected, tap, streamed, out, full, task>>
      BY <3>1 DEF RunEnds, readVars, flagVars, outputVars
    <3> QED
      BY <3>2, <3>3 DEF TypeOK, Last
  <2> QED
    BY <1>7, <2>3, <2>4, <2>5, <2>6, <2>7, <2>8
<1>8. CASE Reply
  <2>1. session' \in [is : {"waiting", "handling", "ended"}, req : Requests \cup {0}, at : 0..10,
                      outcome : {"none", "ok", "failed", "stopped"}, interrupted : BOOLEAN, polls : BOOLEAN]
    <3>1. Waiting \in [is : {"waiting", "handling", "ended"}, req : Requests \cup {0}, at : 0..10,
                       outcome : {"none", "ok", "failed", "stopped"}, interrupted : BOOLEAN, polls : BOOLEAN]
      BY DEF Waiting
    <3> QED
      BY <1>8, <3>1 DEF TypeOK, Reply
  <2>2. reply' \in [Requests -> {"none", "ok", "error", "interrupted", "running", "idle"}]
    BY <1>8 DEF TypeOK, Reply
  <2> QED
    BY <1>8, <2>1, <2>2 DEF TypeOK, Reply, Last
<1>15. CASE Refuse
  <2>1. Waiting \in [is : {"waiting", "handling", "ended"}, req : Requests \cup {0}, at : 0..10,
                     outcome : {"none", "ok", "failed", "stopped"}, interrupted : BOOLEAN,
                     polls : BOOLEAN]
    BY DEF Waiting
  <2>2. reply' \in [Requests -> {"none", "ok", "error", "interrupted", "running", "idle"}]
    BY <1>15 DEF TypeOK, Refuse
  <2> QED
    BY <1>15, <2>1, <2>2 DEF TypeOK, Refuse, Last
<1>16. CASE RunWaits \/ RunGoesOn
  BY <1>16, WaitingSteps DEF TypeOK, Last
<1>9. CASE Drop \/ Open \/ Close
  <2>1. Stage # "none" /\ Stage # "reply"
    BY <1>9 DEF Drop, Open, Close
  <2>2. session.at + 1 \in 0..10 /\ session.req \in Requests
    BY <2>1, StageFacts
  <2>3. CASE Drop
    BY <2>2, <2>3 DEF TypeOK, Drop, Last, Onward
  <2>4. CASE Open
    BY <2>2, <2>4 DEF TypeOK, Open, Last, Onward
  <2>5. CASE Close
    <3>1. PICK sent \in Part(tap.of, tap.pending), kept \in Part(tap.of, collected) :
            /\ Send(sent) /\ out' = [out EXCEPT ![session.req] = kept]
            /\ full' = IF sent = tap.pending /\ kept = collected THEN full
                                                              ELSE full \cup {session.req}
      BY <2>5 DEF Close
    <3>2. sent \subseteq Prints /\ kept \subseteq Prints
      BY <3>1 DEF Part, TypeOK
    <3>3. /\ streamed' \in [Requests -> SUBSET Prints] /\ out' \in [Requests -> SUBSET Prints]
          /\ full' \subseteq Requests
      BY <2>2, <3>1, <3>2 DEF TypeOK, Send
    <3> QED
      BY <2>2, <2>5, <3>3 DEF TypeOK, Close, Last, Onward, Closed
  <2> QED
    BY <1>9, <2>3, <2>4, <2>5
<1>10. CASE WriteStdout
  <2>1. session.req \in Requests
    BY <1>10, StageFacts DEF WriteStdout, Runs
  <2> QED
    <3>1. Own(session.req) \in Prints
      BY <2>1, PrintsDiffer
    <3>2. tap' \in [of : Requests \cup {0}, pending : SUBSET Prints] /\ collected' \subseteq Prints
      BY <1>10, <3>1 DEF TypeOK, WriteStdout
    <3>3. UNCHANGED <<asked, reader, queue, session, running, requested, reply, streamed, out, full, task>>
      BY <1>10 DEF WriteStdout, readVars, flagVars
    <3> QED
      BY <3>2, <3>3 DEF TypeOK, Last
<1>11. CASE Spawn
  <2>1. task' \in [Requests -> {"none", "runs", "taps", "done"}]
    BY <1>11 DEF TypeOK, Spawn
  <2>2. UNCHANGED <<asked, reader, queue, session, running, requested, reply, collected, tap, streamed, out, full>>
    BY <1>11 DEF Spawn, readVars, flagVars
  <2> QED
    BY <2>1, <2>2 DEF TypeOK, Last
<1>12. CASE Tick
  <2>1. PICK sent \in Part(tap.of, tap.pending) :
          Send(sent) /\ full' = IF sent = tap.pending THEN full ELSE full \cup {tap.of}
    BY <1>12 DEF Tick
  <2>2. sent \subseteq Prints /\ tap.of \in Requests
    BY <1>12, <2>1 DEF Tick, Part, TypeOK
  <2>3. streamed' \in [Requests -> SUBSET Prints] /\ full' \subseteq Requests
    BY <2>1, <2>2 DEF TypeOK, Send
  <2> QED
    BY <1>12, <2>3 DEF TypeOK, Tick, Last
<1>13. ASSUME NEW r \in Requests, TaskPrints(r) PROVE TypeOK'
  <2>1. Late(r) \in Prints
    BY PrintsDiffer
  <2>2. task' \in [Requests -> {"none", "runs", "taps", "done"}]
    BY <1>13 DEF TypeOK, TaskPrints
  <2>3. collected' \subseteq Prints
    BY <1>13, <2>1 DEF TypeOK, TaskPrints
  <2>4. UNCHANGED <<asked, reader, queue, session, running, requested, reply, tap, streamed, out, full>>
    BY <1>13 DEF TaskPrints, readVars, flagVars
  <2> QED
    BY <2>2, <2>3, <2>4 DEF TypeOK, Last
<1>14. ASSUME NEW r \in Requests, TaskTaps(r) PROVE TypeOK'
  <2>1. Late(r) \in Prints
    BY PrintsDiffer
  <2>2. task' \in [Requests -> {"none", "runs", "taps", "done"}]
    BY <1>14 DEF TypeOK, TaskTaps
  <2>3. tap' \in [of : Requests \cup {0}, pending : SUBSET Prints]
    BY <1>14, <2>1 DEF TypeOK, TaskTaps
  <2>4. UNCHANGED <<asked, reader, queue, session, running, requested, reply, collected, streamed, out, full>>
    BY <1>14 DEF TaskTaps, readVars, flagVars
  <2> QED
    BY <2>2, <2>3, <2>4 DEF TypeOK, Last
<1> QED
  BY <1>1, <1>2, <1>3, <1>4, <1>5, <1>6, <1>7, <1>8, <1>9, <1>10, <1>11, <1>12, <1>13, <1>14,
     <1>15, <1>16
     DEF Next, SessionStep
-----------------------------------------------------------------------------
(* The session's stages but the last: it goes on with the same request. *)
LEMMA Goes ==
  ASSUME TypeOK, Order, Stage # "none", Stage # "reply",
         session' = Onward \/ \E o \in {"ok", "failed", "stopped"} : session' = [Onward EXCEPT !.outcome = o]
           \/ session' = [Onward EXCEPT !.interrupted = requested],
         UNCHANGED readVars
  PROVE  /\ Handling /\ Handling' /\ session'.req = session.req /\ session'.at = session.at + 1
         /\ session'.is = session.is /\ Op' = Op
         /\ Op \in AllOps \ Atomic /\ session.at \in 1..Len(Stages[Op])
         /\ session.at + 1 \in 1..Len(Stages[Op]) /\ session.req \in Requests
         /\ Stage = Stages[Op][session.at]
<1>1. /\ Handling /\ session.at \in 1..Len(Stages[Op]) /\ session.at + 1 \in 1..Len(Stages[Op])
      /\ Op \in AllOps \ Atomic /\ session.req \in Requests /\ Stage = Stages[Op][session.at]
  BY StageFacts
<1>2. session'.req = session.req /\ session'.is = session.is /\ session'.at = session.at + 1
  BY DEF Onward, TypeOK
<1> QED
  BY <1>1, <1>2 DEF Handling, Op, readVars

LEMMA GoingSteps ==
  ASSUME TypeOK, Order,
         Declare \/ Clear \/ Mark \/ Stopped \/ Look \/ Drop \/ Open \/ Close
           \/ \E o \in {"ok", "failed"} : RunEnds(o)
  PROVE  /\ Stage # "none" /\ Stage # "reply" /\ UNCHANGED readVars /\ UNCHANGED <<queue, reply>>
         /\ \/ session' = Onward
            \/ \E o \in {"ok", "failed", "stopped"} : session' = [Onward EXCEPT !.outcome = o]
            \/ session' = [Onward EXCEPT !.interrupted = requested]
<1> USE DEF readVars
<1>1. CASE Declare \/ Clear \/ Mark
  BY <1>1 DEF Declare, Clear, Mark
<1>2. CASE Stopped
  BY <1>2 DEF Stopped, Runs
<1>3. CASE Look
  BY <1>3 DEF Look
<1>4. CASE Drop \/ Open \/ Close
  BY <1>4 DEF Drop, Open, Close
<1>5. CASE \E o \in {"ok", "failed"} : RunEnds(o)
  BY <1>5 DEF RunEnds, Runs
<1> QED
  BY <1>1, <1>2, <1>3, <1>4, <1>5

LEMMA OrderStep == TypeOK /\ Order /\ [Next]_vars => Order'
<1> SUFFICES ASSUME TypeOK, Order, [Next]_vars PROVE Order'
  OBVIOUS
<1> USE DEF readVars, flagVars, outputVars, histVars
<1>1. CASE UNCHANGED <<asked, reader, queue, session, reply>>
  BY <1>1 DEF Order, Handling, Telling, Last, Op
<1>2. ASSUME NEW op \in Ops, Read(op), session.is # "ended" PROVE Order'
  <2>1. /\ UNCHANGED <<session, reply>> /\ reader.at = "reading" /\ ~reader.busy
        /\ queue \in Seq(Requests)
    BY <1>2 DEF Read, Order, Telling, TypeOK
  <2>2. /\ Last' = Last + 1 /\ Last \in Nat /\ Last + 1 \in Requests /\ asked'[Last + 1] = op
        /\ \A i \in 1..Last : asked'[i] = asked[i] /\ i # Last + 1 /\ i \in 1..(Last + 1)
    BY <1>2, ReadTypes
  <2>3. Handling => session.req \in 1..Last
    BY DEF Order
  <2>4. Handling => Op' = Op
    BY <2>1, <2>2, <2>3 DEF Op
  <2>5. session.req < Last + 1
    <3>1. session.req = 0 \/ session.req \in 1..Last
      BY <1>2, <2>3 DEF Order, TypeOK, Waiting, Handling
    <3> QED
      BY <2>2, <3>1
  <2>6. reply[Last + 1] = "none" /\ \A r \in Requests : r > Last + 1 => reply[r] = "none"
    <3>1. \A r \in Requests : r > Last + 1 => r > Last
      BY <2>2 DEF Requests
    <3> QED
      BY <2>2, <3>1 DEF Order
  <2>7. Last + 1 \in 1..MaxRequests
    BY <2>2 DEF Requests
  <2>8. CASE op \in Atomic
    <3>1. reader' = [at |-> op, busy |-> running] /\ queue' = queue
      BY <1>2, <2>8 DEF Read
    <3>2. \A i \in DOMAIN queue :
            /\ queue[i] \in 1..(Last + 1) /\ asked'[queue[i]] \notin Atomic
            /\ reply[queue[i]] = "none" /\ session.req < queue[i]
      BY <2>2 DEF Order
    <3>3. Telling' /\ (op # "ping" => op = "interrupt")
      BY <2>8, <3>1 DEF Telling, Atomic
    <3>4. Handling => session.req \in 1..(Last + 1)
      BY <2>2, <2>3
    <3>5. Handling' = Handling
      BY <2>1 DEF Handling
    <3> QED
      BY <2>1, <2>2, <2>4, <2>6, <2>7, <2>8, <3>1, <3>2, <3>3, <3>4, <3>5 DEF Order
  <2>9. CASE op \notin Atomic
    <3>1. reader' = reader /\ queue' = Append(queue, Last + 1)
      BY <1>2, <2>9 DEF Read
    <3>2. /\ DOMAIN queue' = 1..(Len(queue) + 1) /\ queue'[Len(queue) + 1] = Last + 1
          /\ \A i \in DOMAIN queue : queue'[i] = queue[i] /\ i < Len(queue) + 1
          /\ \A i \in DOMAIN queue' : i \in DOMAIN queue \/ i = Len(queue) + 1
          /\ \A i \in DOMAIN queue' : i \in Nat /\ i <= Len(queue) + 1
          /\ Len(queue) \in Nat
      BY <2>1, <3>1
    <3>3. \A i \in DOMAIN queue' :
            /\ queue'[i] \in 1..(Last + 1) /\ asked'[queue'[i]] \notin Atomic
            /\ reply[queue'[i]] = "none" /\ session.req < queue'[i]
      <4> SUFFICES ASSUME NEW i \in DOMAIN queue'
                   PROVE  /\ queue'[i] \in 1..(Last + 1) /\ asked'[queue'[i]] \notin Atomic
                          /\ reply[queue'[i]] = "none" /\ session.req < queue'[i]
        OBVIOUS
      <4>1. CASE i \in DOMAIN queue
        BY <2>2, <3>2, <4>1 DEF Order
      <4>2. CASE i = Len(queue) + 1
        BY <2>2, <2>5, <2>6, <2>9, <3>2, <4>2
      <4> QED
        BY <3>2, <4>1, <4>2
    <3>4. \A i, j \in DOMAIN queue' : i < j => queue'[i] < queue'[j]
      <4> SUFFICES ASSUME NEW i \in DOMAIN queue', NEW j \in DOMAIN queue', i < j
                   PROVE  queue'[i] < queue'[j]
        OBVIOUS
      <4>1. i \in DOMAIN queue
        BY <3>2
      <4>2. CASE j \in DOMAIN queue
        BY <3>2, <4>1, <4>2 DEF Order
      <4>3. CASE j = Len(queue) + 1
        <5>1. queue[i] \in 1..Last
          BY <4>1 DEF Order
        <5> QED
          BY <2>2, <3>2, <4>1, <4>3, <5>1
      <4> QED
        BY <3>2, <4>2, <4>3
    <3>5. ~Telling' /\ ~reader'.busy /\ Handling' = Handling
      BY <2>1, <3>1 DEF Telling, Handling
    <3>6. Handling => session.req \in 1..(Last + 1)
      BY <2>2, <2>3
    <3> QED
      BY <2>1, <2>2, <2>4, <2>6, <3>3, <3>4, <3>5, <3>6 DEF Order
  <2> QED
    BY <2>8, <2>9
<1>3. CASE Interrupt
  <2>1. /\ UNCHANGED <<asked, queue, session, reply>> /\ reader' = [reader EXCEPT !.at = "answering"]
        /\ reader.at = "interrupt"
    BY <1>3 DEF Interrupt
  <2>2. reader'.at = "answering" /\ reader'.busy = reader.busy
    BY <2>1 DEF TypeOK
  <2> QED
    BY <2>1, <2>2 DEF Order, Handling, Telling, Last, Op
<1>4. CASE StdinCloses
  <2>1. /\ UNCHANGED <<asked, queue, session, reply>> /\ reader' = [reader EXCEPT !.at = "gone"]
        /\ reader.at = "reading"
    BY <1>4 DEF StdinCloses
  <2>2. reader'.at = "gone" /\ reader'.busy = reader.busy
    BY <2>1 DEF TypeOK
  <2> QED
    BY <2>1, <2>2 DEF Order, Handling, Telling, Last, Op
<1>5. CASE AnswerAtOnce
  <2>1. /\ UNCHANGED <<asked, queue, session>> /\ reader' = [at |-> "reading", busy |-> FALSE]
        /\ reply' = [reply EXCEPT ![Last] = IF reader.busy THEN "running" ELSE "idle"]
        /\ Telling
    BY <1>5 DEF AnswerAtOnce, Telling
  <2>2. Last \in 1..MaxRequests /\ asked[Last] \in Atomic
    BY <2>1 DEF Order
  <2>3. \A r \in Requests : r # Last => reply'[r] = reply[r]
    BY <2>1 DEF TypeOK
  <2>4. /\ \A i \in DOMAIN queue : queue[i] # Last /\ queue[i] \in Requests
        /\ Handling => session.req # Last /\ session.req \in Requests
    <3>1. \A r \in 1..Last : r \in Requests
      BY <2>2, BoundsAssumption DEF Requests
    <3>2. \A i \in DOMAIN queue : queue[i] \in 1..Last /\ asked[queue[i]] \notin Atomic
      BY DEF Order
    <3>3. Handling => session.req \in 1..Last /\ asked[session.req] \notin Atomic
      BY DEF Order, Op
    <3> QED
      BY <2>2, <3>1, <3>2, <3>3
  <2>5. \A r \in Requests : r > Last => reply'[r] = "none"
    BY <2>2, <2>3 DEF Order, Requests
  <2>6. ~Telling' /\ ~reader'.busy /\ Last' = Last /\ Handling' = Handling /\ Op' = Op
    BY <2>1 DEF Telling, Last, Handling, Op
  <2>7. \A i \in DOMAIN queue : reply'[queue[i]] = "none"
    BY <2>3, <2>4 DEF Order
  <2>8. Handling => reply'[session.req] = "none"
    BY <2>3, <2>4 DEF Order
  <2> QED
    BY <2>1, <2>5, <2>6, <2>7, <2>8 DEF Order
<1>6. CASE Take
  <2>1. /\ queue' = Tail(queue) /\ 1 \in DOMAIN queue
        /\ \A i \in DOMAIN queue' : i + 1 \in DOMAIN queue /\ queue'[i] = queue[i + 1] /\ i \in Nat
                                    /\ i >= 1
        /\ session'.is = "handling" /\ session'.req = queue[1] /\ session'.at = 1
    BY <1>6, TakeTypes
  <2>2. UNCHANGED <<asked, reader, reply>> /\ Last' = Last
    BY <1>6 DEF Take, Last
  <2>3. queue[1] \in 1..Last /\ asked[queue[1]] \notin Atomic /\ reply[queue[1]] = "none"
    BY <2>1 DEF Order
  <2>4. Op' = asked[queue[1]] /\ Op' \in AllOps
    BY <2>1, <2>2, <2>3, OpsAssumption DEF Op, TypeOK, Last
  <2>5. 1 \in 1..Len(Stages[Op'])
    <3>1. Op' \in AllOps \ Atomic
      BY <2>3, <2>4
    <3>2. Len(Stages[Op']) \in 1..10
      BY <3>1, StagesOrder
    <3> QED
      BY <3>2
  <2>6. \A i \in DOMAIN queue' : queue[1] < queue'[i]
    <3>1. \A i \in DOMAIN queue' : 1 < i + 1
      BY <2>1
    <3> QED
      BY <2>1, <3>1 DEF Order
  <2>7. \A i, j \in DOMAIN queue' : i < j => queue'[i] < queue'[j]
    <3>1. \A i, j \in DOMAIN queue' : i < j => i + 1 < j + 1
      BY <2>1
    <3> QED
      BY <2>1, <3>1 DEF Order
  <2>8. Handling' /\ Telling' = Telling /\ session'.is # "waiting"
    BY <2>1, <2>2 DEF Handling, Telling
  <2>9. \A i \in DOMAIN queue' : /\ queue'[i] \in 1..Last /\ asked[queue'[i]] \notin Atomic
                                 /\ reply[queue'[i]] = "none"
    BY <2>1 DEF Order
  <2> QED
    BY <2>1, <2>2, <2>3, <2>4, <2>5, <2>6, <2>7, <2>8, <2>9 DEF Order
<1>7. CASE End
  <2>1. /\ session = Waiting /\ session' = [session EXCEPT !.is = "ended"] /\ queue = <<>>
        /\ UNCHANGED <<asked, reader, reply, queue>>
    BY <1>7 DEF End
  <2>2. session'.is = "ended" /\ ~Handling' /\ DOMAIN queue' = {}
    BY <2>1 DEF TypeOK, Handling
  <2> QED
    BY <2>1, <2>2 DEF Order, Telling, Last
<1>8. CASE Declare \/ Clear \/ Mark \/ Stopped \/ Look \/ Drop \/ Open \/ Close
             \/ \E o \in {"ok", "failed"} : RunEnds(o)
  <2>1. /\ Handling /\ Handling' /\ session'.req = session.req /\ session'.at = session.at + 1
        /\ session'.is = session.is /\ Op' = Op /\ session.at + 1 \in 1..Len(Stages[Op])
        /\ UNCHANGED <<asked, reader, queue, reply>>
    BY <1>8, GoingSteps, Goes
  <2> QED
    BY <2>1 DEF Order, Telling, Last, Handling
<1>9. CASE Reply \/ Refuse
  <2>1. /\ Handling /\ session.req \in 1..Last /\ session.req \in Requests /\ asked[session.req] \notin Atomic
    BY <1>9, StageFacts, RefuseFacts DEF Reply, Order, Op
  <2>2. /\ \A r \in Requests : r # session.req => reply'[r] = reply[r]
        /\ UNCHANGED <<asked, reader, queue>>
        /\ session' = Waiting \/ session' = [session EXCEPT !.is = "ended"]
    BY <1>9 DEF Reply, Refuse, TypeOK
  <2>3. /\ session'.is = "waiting" => session' = Waiting
        /\ ~Handling'
        /\ session'.req = 0 \/ session'.req = session.req
    BY <2>2 DEF Waiting, TypeOK, Handling
  <2>4. \A i \in DOMAIN queue : /\ queue[i] # session.req /\ queue[i] \in Requests
                                /\ 0 < queue[i] /\ session.req < queue[i]
    <3>1. \A i \in DOMAIN queue : queue[i] \in 1..Last /\ session.req < queue[i]
      BY DEF Order
    <3>2. Last \in Nat /\ Last <= MaxRequests
      BY DEF TypeOK, Last
    <3> QED
      BY <2>1, <3>1, <3>2, BoundsAssumption DEF Requests
  <2>5. Telling => Last # session.req /\ Last \in Requests
    BY <2>1 DEF Order, Requests
  <2>6. \A r \in Requests : r > Last => r # session.req
    BY <2>1 DEF Requests, TypeOK, Last
  <2>7. Last' = Last /\ Telling' = Telling
    BY <2>2 DEF Last, Telling
  <2>8. /\ \A i \in DOMAIN queue : reply'[queue[i]] = "none" /\ session'.req < queue[i]
        /\ Telling => reply'[Last] = "none"
        /\ \A r \in Requests : r > Last => reply'[r] = "none"
    BY <2>2, <2>3, <2>4, <2>5, <2>6 DEF Order
  <2> QED
    BY <2>2, <2>3, <2>7, <2>8 DEF Order
<1>12. CASE RunWaits \/ RunGoesOn
  <2>1. Handling /\ Handling' /\ Last' = Last /\ Telling' = Telling
    BY <1>12, WaitingSteps DEF Last, Telling
  <2>2. session'.is # "waiting"
    BY <2>1 DEF Handling
  <2> QED
    BY <1>12, <2>1, <2>2, WaitingSteps DEF Order
<1>10. CASE WriteStdout \/ Spawn \/ Tick \/ \E r \in Requests : TaskPrints(r) \/ TaskTaps(r)
  BY <1>1, <1>10 DEF WriteStdout, Spawn, Tick, TaskPrints, TaskTaps
<1>11. CASE UNCHANGED vars
  BY <1>1, <1>11 DEF vars
<1> QED
  BY <1>2, <1>3, <1>4, <1>5, <1>6, <1>7, <1>8, <1>9, <1>10, <1>11, <1>12 DEF Next, SessionStep
-----------------------------------------------------------------------------
(* What was heard stays heard. *)
LEMMA HeardStays ==
  ASSUME TypeOK, Order, [Next]_vars, NEW r \in Nat, Heard(r)
  PROVE  Heard(r)'
<1> USE DEF readVars, flagVars, outputVars, histVars
<1>1. PICK i \in r + 1 .. Last :
        asked[i] = "interrupt" /\ (reply[i] = "running" \/ (i = Last /\ reader.busy))
  BY DEF Heard
<1>2. Last \in Nat /\ i \in 1..Last /\ i \in Requests /\ "interrupt" \in Atomic
  BY <1>1, BoundsAssumption DEF TypeOK, Last, Requests, Atomic
<1>3. CASE UNCHANGED <<asked, reply>> /\ reader'.busy = reader.busy
  BY <1>1, <1>3 DEF Heard, Last
<1>4. ASSUME NEW op \in Ops, Read(op) PROVE Heard(r)'
  <2>1. /\ Last' = Last + 1 /\ \A j \in 1..Last : asked'[j] = asked[j]
    BY <1>4, ReadTypes
  <2>2. ~reader.busy /\ reply' = reply
    BY <1>4 DEF Read, Order, Telling
  <2>3. i \in r + 1 .. Last + 1
    BY <1>1, <1>2
  <2> QED
    BY <1>1, <1>2, <2>1, <2>2, <2>3 DEF Heard
<1>5. CASE Interrupt \/ StdinCloses
  BY <1>3, <1>5 DEF Interrupt, StdinCloses, TypeOK
<1>6. CASE AnswerAtOnce
  <2>1. /\ asked' = asked /\ Last' = Last /\ reply[Last] = "none"
        /\ reply' = [reply EXCEPT ![Last] = IF reader.busy THEN "running" ELSE "idle"]
    BY <1>6 DEF AnswerAtOnce, Order, Telling, Last
  <2>2. reply'[i] = "running"
    BY <1>1, <1>2, <2>1 DEF TypeOK
  <2> QED
    BY <1>1, <2>1, <2>2 DEF Heard
<1>7. CASE Reply \/ Refuse
  <2>1. /\ UNCHANGED <<asked, reader>> /\ Last' = Last
        /\ \A s \in Requests : s # session.req => reply'[s] = reply[s]
    BY <1>7 DEF Reply, Refuse, TypeOK, Last
  <2>3. asked[session.req] \notin Atomic
    BY <1>7, StageFacts, RefuseFacts DEF Reply, Order, Op
  <2>2. reply'[i] = reply[i]
    BY <1>1, <1>2, <2>1, <2>3
  <2> QED
    BY <1>1, <2>1, <2>2 DEF Heard
<1>8. CASE Declare \/ Clear \/ Mark \/ Stopped \/ Look \/ Drop \/ Open \/ Close
             \/ \E o \in {"ok", "failed"} : RunEnds(o)
  BY <1>3, <1>8, GoingSteps
<1>9. CASE Take \/ End \/ RunWaits \/ RunGoesOn
  BY <1>3, <1>9, WaitingSteps DEF Take, End
<1>10. CASE WriteStdout \/ Spawn \/ Tick \/ \E t \in Requests : TaskPrints(t) \/ TaskTaps(t)
  BY <1>3, <1>10 DEF WriteStdout, Spawn, Tick, TaskPrints, TaskTaps
<1>11. CASE UNCHANGED vars
  BY <1>3, <1>11 DEF vars
<1> QED
  BY <1>4, <1>5, <1>6, <1>7, <1>8, <1>9, <1>10, <1>11 DEF Next, SessionStep

(* Answers given before stay as they were caused. *)
LEMMA AnswersStay ==
  ASSUME TypeOK, Order, Cause, [Next]_vars, NEW r \in Requests,
         reply[r] = "interrupted", asked'[r] # "set"
  PROVE  Heard(r)'
<1>1. r \in 1..Last /\ r \in Nat
  <2>1. ~(r > Last)
    BY DEF Order
  <2> QED
    BY <2>1 DEF Requests, TypeOK, Last
<1>2. asked'[r] = asked[r]
  <2>1. ASSUME NEW op \in Ops, Read(op) PROVE asked'[r] = asked[r]
    BY <1>1, <2>1, ReadTypes
  <2>2. CASE asked' = asked
    BY <2>2
  <2> QED
    BY <2>1, <2>2, GoingSteps, WaitingSteps
       DEF Next, SessionStep, vars, readVars, Interrupt, StdinCloses, AnswerAtOnce, Take, End, Reply, Refuse,
           WriteStdout, Spawn, Tick, TaskPrints, TaskTaps
<1>3. Heard(r)
  BY <1>2 DEF Cause, InterruptStopsWhatWasSent, Heard
<1> QED
  BY <1>1, <1>3, HeardStays

LEMMA CauseStep == TypeOK /\ Order /\ Cause /\ [Next]_vars => Cause'
<1> SUFFICES ASSUME TypeOK, Order, Cause, [Next]_vars PROVE Cause'
  OBVIOUS
<1> USE DEF readVars, flagVars, outputVars, histVars
<1> DEFINE Rest == Handling /\ Op # "set" =>
                     /\ Cleared /\ requested => Heard(session.req)
                     /\ session.outcome = "stopped" \/ session.interrupted => Heard(session.req)
<1>1. Rest
  BY DEF Cause
<1>2. ASSUME \A r \in Requests : reply'[r] = "interrupted" => reply[r] = "interrupted"
      PROVE  InterruptStopsWhatWasSent'
  <2>1. \A r \in Requests : reply'[r] = "interrupted" /\ asked'[r] # "set" => Heard(r)'
    BY <1>2, AnswersStay
  <2> QED
    BY <2>1 DEF InterruptStopsWhatWasSent, Heard
<1>3. Handling => session.req \in Nat /\ session.req \in 1..Last
  BY DEF Order
<1>4. ASSUME session'.is = session.is, session'.req = session.req, session'.at = session.at,
             session'.outcome = session.outcome, session'.interrupted = session.interrupted,
             requested' => requested, Handling => Op' = Op
      PROVE  Rest'
  <2>1. Handling' = Handling /\ (Handling => Cleared' = Cleared)
    BY <1>4 DEF Handling, Cleared
  <2>2. Handling /\ Heard(session.req) => Heard(session.req)'
    BY <1>3, <1>4, HeardStays DEF Heard
  <2> QED
    BY <1>1, <1>4, <2>1, <2>2
<1>5. ASSUME NEW op \in Ops, Read(op) PROVE Cause'
  <2>1. \A j \in 1..Last : asked'[j] = asked[j]
    BY <1>5, ReadTypes
  <2>2. UNCHANGED <<session, requested, reply>>
    BY <1>5 DEF Read
  <2>3. Handling => Op' = Op
    BY <1>3, <2>1, <2>2 DEF Op
  <2> HIDE DEF Rest
  <2>4. Rest' /\ InterruptStopsWhatWasSent'
    BY <1>2, <1>4, <2>2, <2>3
  <2> QED
    BY <2>4 DEF Cause, Rest
<1>6. CASE Interrupt
  <2>1. /\ UNCHANGED <<asked, session, reply>> /\ reader'.busy = reader.busy /\ Telling
        /\ reader.at = "interrupt" /\ requested' = (requested \/ reader.busy)
    BY <1>6 DEF Interrupt, TypeOK, Telling
  <2>2. asked[Last] = "interrupt" /\ Last \in Nat /\ asked[Last] \in Atomic
    BY <2>1 DEF Order, TypeOK, Last
  <2>3. Handling => session.req < Last
    BY <1>3, <2>2 DEF Order, Op
  <2>4. Handling /\ reader.busy => Heard(session.req)'
    <3>1. Handling => Last \in session.req + 1 .. Last
      BY <1>3, <2>2, <2>3
    <3> QED
      BY <2>1, <2>2, <3>1 DEF Heard, Last
  <2>5. Handling /\ Heard(session.req) => Heard(session.req)'
    <3>1. session' = session
      BY <2>1
    <3> QED
      BY <1>3, <3>1, HeardStays DEF Heard
  <2>6. Handling' = Handling /\ Op' = Op /\ Cleared' = Cleared
    BY <2>1 DEF Handling, Op, Cleared
  <2>7. Rest'
    BY <1>1, <2>1, <2>4, <2>5, <2>6
  <2> HIDE DEF Rest
  <2>8. InterruptStopsWhatWasSent'
    BY <1>2, <2>1
  <2> QED
    BY <2>7, <2>8 DEF Cause, Rest
<1>7. CASE AnswerAtOnce
  <2>1. UNCHANGED <<asked, session, requested>> /\ Op' = Op
    BY <1>7 DEF AnswerAtOnce, Op
  <2>2. \A r \in Requests : reply'[r] = "interrupted" => reply[r] = "interrupted"
    BY <1>7 DEF AnswerAtOnce, TypeOK
  <2> HIDE DEF Rest
  <2>3. Rest' /\ InterruptStopsWhatWasSent'
    BY <1>2, <1>4, <2>1, <2>2
  <2> QED
    BY <2>3 DEF Cause, Rest
<1>8. CASE Take
  <2>1. /\ session'.at = 1 /\ session'.outcome = "none" /\ session'.interrupted = FALSE
        /\ UNCHANGED reply
    BY <1>8, TakeTypes DEF Take
  <2>2. ~Cleared'
    BY <2>1 DEF Cleared
  <2>3. InterruptStopsWhatWasSent'
    BY <1>2, <2>1
  <2> QED
    BY <2>1, <2>2, <2>3 DEF Cause
<1>9. CASE End
  <2>1. ~Handling' /\ UNCHANGED reply
    BY <1>9 DEF End, TypeOK, Handling
  <2> QED
    BY <1>2, <2>1 DEF Cause
<1>10. CASE Declare \/ Clear \/ Mark \/ Stopped \/ Look \/ Drop \/ Open \/ Close
              \/ \E o \in {"ok", "failed"} : RunEnds(o)
  <2>1. /\ Handling /\ Handling' /\ session'.req = session.req /\ session'.at = session.at + 1
        /\ Op' = Op /\ Op \in AllOps \ Atomic /\ session.at \in 1..Len(Stages[Op])
        /\ Stage = Stages[Op][session.at] /\ UNCHANGED reply
    BY <1>10, GoingSteps, Goes
  <2>2. Stage \in {"run", "look"} /\ Op # "set" => Cleared
    BY <2>1, StagesOrder DEF Cleared
  <2>3. Cleared' <=> Cleared \/ Stage = "clear"
    <3>1. \A k : k \in 1..(session'.at - 1) <=> k \in 1..(session.at - 1) \/ k = session.at
      BY <2>1 DEF TypeOK
    <3> QED
      BY <2>1, <3>1 DEF Cleared
  <2>4. Heard(session.req) => Heard(session.req)'
    <3>1. Heard(session.req) => \E i \in session.req + 1 .. Last' :
             asked'[i] = "interrupt" /\ (reply'[i] = "running" \/ (i = Last' /\ reader'.busy))
      BY <1>3, <2>1, HeardStays DEF Heard
    <3> QED
      BY <2>1, <3>1 DEF Heard
  <2>5. /\ requested' => requested
        /\ Stage = "clear" => ~requested'
        /\ session'.outcome = "stopped" => session.outcome = "stopped" \/ (Stage = "run" /\ requested)
        /\ session'.interrupted => session.interrupted \/ (Stage = "look" /\ requested)
    <3>1. CASE Declare
      BY <3>1 DEF Declare, Onward, TypeOK
    <3>2. CASE Clear
      BY <3>2 DEF Clear, Onward, TypeOK
    <3>3. CASE Mark
      BY <3>3 DEF Mark, Onward, TypeOK
    <3>4. CASE Stopped
      BY <3>4 DEF Stopped, Runs, Onward, TypeOK
    <3>5. CASE Look
      BY <3>5 DEF Look, Onward, TypeOK
    <3>6. CASE Drop \/ Open
      BY <3>6 DEF Drop, Open, Onward, TypeOK
    <3>7. CASE Close
      BY <3>7 DEF Close, Onward, TypeOK
    <3>8. CASE \E o \in {"ok", "failed"} : RunEnds(o)
      BY <3>8 DEF RunEnds, Runs, Onward, TypeOK
    <3> QED
      BY <1>10, <3>1, <3>2, <3>3, <3>4, <3>5, <3>6, <3>7, <3>8
  <2>6. Rest'
    BY <1>1, <2>1, <2>2, <2>3, <2>4, <2>5
  <2> HIDE DEF Rest
  <2>7. InterruptStopsWhatWasSent'
    BY <1>2, <2>1
  <2> QED
    BY <2>6, <2>7 DEF Cause, Rest
<1>13. CASE Refuse
  <2>1. ~Handling'
    BY <1>13 DEF Refuse, Waiting, Handling
  <2>2. \A r \in Requests : reply'[r] = "interrupted" => reply[r] = "interrupted"
    BY <1>13 DEF Refuse, TypeOK
  <2> HIDE DEF Rest
  <2>3. InterruptStopsWhatWasSent'
    BY <1>2, <2>2
  <2> QED
    BY <2>1, <2>3 DEF Cause
<1>14. CASE RunWaits \/ RunGoesOn
  <2> HIDE DEF Rest
  <2>1. Rest' /\ InterruptStopsWhatWasSent'
    BY <1>2, <1>4, <1>14, WaitingSteps
  <2> QED
    BY <2>1 DEF Cause, Rest
<1>11. CASE Reply
  <2>1. /\ session.req \in Requests /\ Handling /\ session.req \in Nat
        /\ asked' = asked
        /\ \A r \in Requests : r # session.req => reply'[r] = reply[r]
        /\ reply'[session.req] = "interrupted" => session.outcome = "stopped" \/ session.interrupted
    BY <1>3, <1>11, StageFacts DEF Reply, TypeOK
  <2>2. ~Handling'
    BY <1>11 DEF Reply, Waiting, Handling, TypeOK
  <2>3. ASSUME NEW r \in Requests, reply'[r] = "interrupted", asked'[r] # "set"
        PROVE  Heard(r)'
    <3>1. CASE r = session.req
      <4>1. Heard(r)
        BY <1>1, <2>1, <2>3, <3>1 DEF Op
      <4> QED
        BY <2>1, <3>1, <4>1, HeardStays
    <3>2. CASE r # session.req
      BY <2>1, <2>3, <3>2, AnswersStay
    <3> QED
      BY <3>1, <3>2
  <2>4. InterruptStopsWhatWasSent'
    BY <2>3 DEF InterruptStopsWhatWasSent, Heard
  <2> QED
    BY <2>2, <2>4 DEF Cause
<1>12. CASE WriteStdout \/ Spawn \/ Tick \/ (\E t \in Requests : TaskPrints(t) \/ TaskTaps(t))
              \/ StdinCloses \/ UNCHANGED vars
  <2>1. UNCHANGED <<asked, session, requested, reply>> /\ Op' = Op
    BY <1>12 DEF WriteStdout, Spawn, Tick, TaskPrints, TaskTaps, StdinCloses, vars, Op
  <2> HIDE DEF Rest
  <2>2. Rest' /\ InterruptStopsWhatWasSent'
    BY <1>2, <1>4, <2>1
  <2> QED
    BY <2>2 DEF Cause, Rest
<1> QED
  BY <1>5, <1>6, <1>7, <1>8, <1>9, <1>10, <1>11, <1>12, <1>13, <1>14 DEF Next, SessionStep
-----------------------------------------------------------------------------
(* A step that moves no output of an evaluation's own, and neither opens   *)
(* nor closes its tap.                                                     *)
LEMMA QuietStep ==
  ASSUME Output, UNCHANGED <<out, streamed, full>>, tap'.of = tap.of,
         Window => session.req \in Requests,
         \A r \in Requests : /\ Own(r) \in collected' <=> Own(r) \in collected
                             /\ Own(r) \in tap'.pending <=> Own(r) \in tap.pending,
         ~Window => tap'.pending = {},
         Window' <=> Window, Window => session'.req = session.req,
         \A i \in DOMAIN queue' : Fresh(queue'[i]),
         \A r \in Requests : r > Last' => r > Last,
         Handling' /\ ~(Op' = "eval" /\ session'.at >= 4) => Fresh(session'.req)
  PROVE  Output'
<1>1. \A r, s \in Requests : Own(r) \in out'[s] \cup streamed'[s] => r = s
  BY DEF Output
<1> DEFINE Out(r) == Own(r) \in out'[r] \/ Own(r) \in streamed'[r]
<1>2. /\ \A i \in DOMAIN queue' : ~Out(queue'[i])
      /\ \A r \in Requests : r > Last' => ~Out(r)
      /\ Handling' /\ ~(Op' = "eval" /\ session'.at >= 4) => ~Out(session'.req)
  BY DEF Output, Fresh
<1>3. Window' =>
       /\ tap'.of = session'.req /\ Own(session'.req) \notin out'[session'.req]
       /\ session'.req \notin full' =>
            (Own(session'.req) \in collected'
               <=> Own(session'.req) \in tap'.pending \cup streamed'[session'.req])
       /\ \A r \in Requests : Own(r) \in collected' \cup tap'.pending => r = session'.req
  BY DEF Output
<1>4. ~Window' => tap'.of = 0 /\ tap'.pending = {} /\ \A r \in Requests : Own(r) \notin collected'
  BY DEF Output
<1>5. \A r \in Requests \ full' : ~(Window' /\ r = session'.req) =>
       (Own(r) \in out'[r] <=> Own(r) \in streamed'[r])
  BY DEF Output
<1> QED
  BY <1>1, <1>2, <1>3, <1>4, <1>5 DEF Output, Fresh

(* The session is in the same stage of the same request, and what was read *)
(* is the same or one line more.                                           *)
LEMMA StillStep ==
  ASSUME TypeOK, Order, Output, UNCHANGED <<out, streamed, full>>, tap'.of = tap.of,
         session'.is = session.is, session'.req = session.req, session'.at = session.at,
         \A r \in Requests : /\ Own(r) \in collected' <=> Own(r) \in collected
                             /\ Own(r) \in tap'.pending <=> Own(r) \in tap.pending,
         ~Window => tap'.pending = tap.pending,
         UNCHANGED <<asked, queue>> \/ \E op \in Ops : Read(op)
  PROVE  Output'
<1>1. Handling => session.req \in 1..Last /\ session.req \in Requests
  BY BoundsAssumption DEF Order, TypeOK, Last, Requests
<1>2. Handling' = Handling
  BY DEF Handling
<1>3. /\ Handling => Op' = Op
      /\ \A i \in DOMAIN queue' : Fresh(queue'[i])
      /\ \A r \in Requests : r > Last' => r > Last
  <2>1. CASE UNCHANGED <<asked, queue>>
    BY <2>1 DEF Op, Last, Output
  <2>2. ASSUME NEW op \in Ops, Read(op)
        PROVE  /\ Handling => Op' = Op
               /\ \A i \in DOMAIN queue' : Fresh(queue'[i])
               /\ \A r \in Requests : r > Last' => r > Last
    <3>1. /\ Last' = Last + 1 /\ Last \in Nat /\ Last + 1 \in Requests
          /\ \A i \in 1..Last : asked'[i] = asked[i]
      BY <2>2, ReadTypes
    <3>2. Fresh(Last + 1) /\ \A i \in DOMAIN queue : Fresh(queue[i])
      BY <3>1 DEF Output
    <3>3. \A i \in DOMAIN queue' : Fresh(queue'[i])
      <4>1. CASE queue' = queue
        BY <3>2, <4>1
      <4>2. CASE queue' = Append(queue, Last + 1)
        <5>1. queue \in Seq(Requests)
          BY DEF TypeOK
        <5>2. \A i \in DOMAIN queue' : \/ i \in DOMAIN queue /\ queue'[i] = queue[i]
                                       \/ queue'[i] = Last + 1
          BY <3>1, <4>2, <5>1
        <5> QED
          BY <3>2, <5>2
      <4> QED
        BY <2>2, <4>1, <4>2 DEF Read
    <3>4. Handling => Op' = Op
      BY <1>1, <3>1 DEF Op
    <3>5. \A r \in Requests : r > Last' => r > Last
      BY <3>1 DEF Requests
    <3> QED
      BY <3>3, <3>4, <3>5
  <2> QED
    BY <2>1, <2>2
<1>4. Window' <=> Window
  BY <1>2, <1>3 DEF Window
<1>5. ~Window => tap'.pending = {}
  BY DEF Output
<1>6. Handling' /\ ~(Op' = "eval" /\ session'.at >= 4) => Fresh(session'.req)
  BY <1>2, <1>3 DEF Output
<1>7. Window => session.req \in Requests /\ session'.req = session.req
  BY <1>1 DEF Window
<1> QED
  BY <1>3, <1>4, <1>5, <1>6, <1>7, QuietStep

(* The requests still to come are not the one handled. *)
LEMMA OthersAhead ==
  ASSUME TypeOK, Order, Handling
  PROVE  /\ \A i \in DOMAIN queue : queue[i] \in Requests /\ queue[i] # session.req
         /\ \A r \in Requests : r > Last => r # session.req
<1>1. Last \in Nat /\ session.req \in 1..Last
  BY DEF TypeOK, Last, Order
<1>2. \A i \in DOMAIN queue : queue[i] \in 1..Last /\ session.req < queue[i]
  BY DEF Order
<1>3. \A i \in DOMAIN queue : queue[i] \in Requests
  BY DEF TypeOK
<1> QED
  BY <1>1, <1>2, <1>3 DEF Requests

LEMMA OutputStep == TypeOK /\ Order /\ Output /\ [Next]_vars => Output'
<1> SUFFICES ASSUME TypeOK, Order, Output, [Next]_vars PROVE Output'
  OBVIOUS
<1> USE DEF readVars, flagVars, outputVars, histVars
<1>1. ~Window => tap.of = 0 /\ tap.pending = {} /\ \A r \in Requests : Own(r) \notin collected
  BY DEF Output
<1>2. Window => /\ tap.of = session.req /\ session.req \in Requests /\ session.req # 0
                /\ Own(session.req) \notin out[session.req]
                /\ session.req \notin full =>
                     (Own(session.req) \in collected
                        <=> Own(session.req) \in tap.pending \cup streamed[session.req])
                /\ \A r \in Requests : Own(r) \in collected \cup tap.pending => r = session.req
  BY BoundsAssumption DEF Output, Order, Window, TypeOK, Last, Requests
<1>3. CASE UNCHANGED <<session, out, streamed, full, collected, tap>>
             /\ (UNCHANGED <<asked, queue>> \/ \E op \in Ops : Read(op))
  BY <1>3, StillStep
<1>4. CASE (\E op \in Ops : Read(op)) \/ Interrupt \/ AnswerAtOnce \/ StdinCloses \/ Spawn
             \/ UNCHANGED vars
  BY <1>3, <1>4 DEF Read, Interrupt, AnswerAtOnce, StdinCloses, Spawn, vars
<1>5. CASE Take
  <2>1. /\ 1 \in DOMAIN queue /\ queue[1] \in Requests
        /\ \A i \in DOMAIN queue' : i + 1 \in DOMAIN queue /\ queue'[i] = queue[i + 1]
        /\ session'.is = "handling" /\ session'.req = queue[1] /\ session'.at = 1
    BY <1>5, TakeTypes
  <2>2. UNCHANGED <<asked, out, streamed, full, collected, tap>> /\ session = Waiting
    BY <1>5 DEF Take
  <2>3. ~Window /\ ~Window'
    BY <2>1, <2>2 DEF Window, Handling, Waiting
  <2>4. Fresh(session'.req) /\ \A i \in DOMAIN queue' : Fresh(queue'[i])
    BY <2>1 DEF Output
  <2> QED
    BY <1>1, <2>2, <2>3, <2>4, QuietStep DEF Last
<1>6. CASE End \/ Reply \/ Refuse
  <2>1. /\ UNCHANGED <<asked, queue, out, streamed, full, collected, tap>>
        /\ session'.is \in {"waiting", "ended"}
    BY <1>6 DEF End, Reply, Refuse, Waiting, TypeOK
  <2>2. ~Window
    <3>1. CASE End
      BY <3>1 DEF End, Window, Handling, Waiting
    <3>2. CASE Reply
      BY <3>2, StageFacts, StagesOrder DEF Reply, Window
    <3>3. CASE Refuse
      BY <3>3, RefuseFacts DEF Window
    <3> QED
      BY <1>6, <3>1, <3>2, <3>3
  <2>3. ~Handling' /\ ~Window'
    BY <2>1 DEF Window, Handling
  <2>4. \A i \in DOMAIN queue' : Fresh(queue'[i])
    BY <2>1 DEF Output
  <2> QED
    BY <1>1, <2>1, <2>2, <2>3, <2>4, QuietStep DEF Last
<1>7. CASE Declare \/ Clear \/ Mark \/ Stopped \/ Look \/ Drop \/ Open \/ Close
             \/ \E o \in {"ok", "failed"} : RunEnds(o)
  <2>1. /\ Handling /\ Handling' /\ session'.req = session.req /\ session'.at = session.at + 1
        /\ Op' = Op /\ Op \in AllOps \ Atomic /\ session.at \in 1..Len(Stages[Op])
        /\ Stage = Stages[Op][session.at] /\ UNCHANGED <<asked, queue>> /\ session.req \in Requests
        /\ Last' = Last
    BY <1>7, GoingSteps, Goes DEF Last
  <2>2. /\ Stage = "open" <=> Op = "eval" /\ session.at = 3
        /\ Stage = "close" <=> Op = "eval" /\ session.at = 9
        /\ Stage = "drop" => Op # "eval"
    BY <2>1, StagesOrder
  <2>3. session.at \in Nat
    BY DEF TypeOK
  <2>4. /\ Window <=> Op = "eval" /\ session.at \in 4..9
        /\ Window' <=> Op = "eval" /\ session.at + 1 \in 4..9
    BY <2>1 DEF Window
  <2>5. \A i \in DOMAIN queue' : Fresh(queue'[i])
    BY <2>1 DEF Output
  <2>6. ~(Op = "eval" /\ session.at >= 4) => Fresh(session.req)
    BY <2>1 DEF Output
  <2>7. CASE Declare \/ Clear \/ Mark \/ Stopped \/ Look \/ \E o \in {"ok", "failed"} : RunEnds(o)
    <3>1. UNCHANGED <<out, streamed, full, collected, tap>> /\ Stage \notin {"open", "close"}
      BY <2>7 DEF Declare, Clear, Mark, Stopped, Look, RunEnds, Runs
    <3>2. Window' <=> Window
      BY <2>2, <2>3, <2>4, <3>1
    <3>3. ~(Op' = "eval" /\ session'.at >= 4) => Fresh(session'.req)
      BY <2>1, <2>2, <2>3, <2>6, <3>1
    <3> QED
      BY <1>1, <2>1, <2>5, <3>1, <3>2, <3>3, QuietStep
  <2>8. CASE Drop
    <3>1. UNCHANGED <<out, streamed, full, tap>> /\ collected' = {} /\ Op # "eval"
      BY <2>2, <2>8 DEF Drop
    <3>2. ~Window /\ ~Window'
      BY <2>4, <3>1
    <3> QED
      BY <1>1, <2>1, <2>5, <2>6, <3>1, <3>2, QuietStep
  <2>9. CASE Open
    <3>1. /\ UNCHANGED <<out, streamed, full>> /\ collected' = {} /\ tap'.of = session.req
          /\ tap'.pending = {} /\ Op = "eval" /\ session.at = 3
      BY <2>2, <2>9 DEF Open
    <3>2. Window' /\ Handling' /\ Op' = "eval" /\ session'.at >= 4 /\ ~Window
      BY <2>1, <2>4, <3>1
    <3>3. Fresh(session.req)
      BY <2>6, <3>1
    <3>4. \A r \in Requests \ full : Own(r) \in out[r] <=> Own(r) \in streamed[r]
      BY <3>2 DEF Output
    <3>5. /\ \A r, s \in Requests : Own(r) \in out[s] \cup streamed[s] => r = s
          /\ \A r \in Requests : r > Last => Fresh(r)
      BY DEF Output
    <3> QED
      BY <2>1, <2>5, <3>1, <3>2, <3>3, <3>4, <3>5 DEF Output, Fresh
  <2>10. CASE Close
    <3>1. Window /\ ~Window' /\ Op = "eval" /\ session.at = 9
      BY <2>2, <2>4, <2>10 DEF Close
    <3>2. PICK sent \in Part(tap.of, tap.pending), kept \in Part(tap.of, collected) :
             /\ out' = [out EXCEPT ![session.req] = kept]
             /\ streamed' = [streamed EXCEPT ![session.req] = @ \cup sent]
             /\ full' = IF sent = tap.pending /\ kept = collected THEN full
                                                               ELSE full \cup {session.req}
      BY <1>2, <2>10, <3>1 DEF Close, Send
    <3>13. tap' = Closed /\ collected' = {}
      BY <2>10 DEF Close
    <3>14. sent \subseteq tap.pending /\ kept \subseteq collected
      BY DEF Part
    <3>3. /\ out'[session.req] = kept
          /\ streamed'[session.req] = streamed[session.req] \cup sent
          /\ \A r \in Requests : r # session.req => out'[r] = out[r] /\ streamed'[r] = streamed[r]
      BY <2>1, <3>2 DEF TypeOK
    <3>4. \A r, s \in Requests : Own(r) \in out[s] \cup streamed[s] => r = s
      BY DEF Output
    <3>5. \A r, s \in Requests : Own(r) \in out'[s] \cup streamed'[s] => r = s
      BY <1>2, <2>1, <3>1, <3>3, <3>4, <3>14
    <3>6. \A r \in Requests : Fresh(r) /\ r # session.req => Fresh(r)'
      BY <3>3 DEF Fresh
    <3>7. /\ \A i \in DOMAIN queue : queue[i] \in Requests /\ queue[i] # session.req
          /\ \A r \in Requests : r > Last => r # session.req
      BY <2>1, OthersAhead
    <3>8. /\ \A i \in DOMAIN queue' : Fresh(queue[i])'
          /\ \A r \in Requests : r > Last => Fresh(r)'
      BY <2>1, <3>6, <3>7 DEF Output
    <3>9. session.req \notin full' =>
            (Own(session.req) \in out'[session.req] <=> Own(session.req) \in streamed'[session.req])
      BY <1>2, <3>1, <3>2, <3>3
    <3>10. \A r \in Requests \ full : r # session.req => (Own(r) \in out[r] <=> Own(r) \in streamed[r])
      BY DEF Output
    <3>11. \A r \in Requests \ full' : Own(r) \in out'[r] <=> Own(r) \in streamed'[r]
      BY <3>2, <3>3, <3>9, <3>10
    <3>12. tap'.of = 0 /\ tap'.pending = {} /\ Op' = "eval" /\ session'.at >= 4
      BY <2>1, <3>1, <3>13 DEF Closed
    <3> QED
      BY <2>1, <3>1, <3>13, <3>5, <3>8, <3>11, <3>12 DEF Output, Fresh
  <2> QED
    BY <1>7, <2>7, <2>8, <2>9, <2>10
<1>8. CASE WriteStdout
  <2>1. /\ UNCHANGED <<asked, queue, session, out, streamed, full>> /\ Op = "eval" /\ Stage = "run"
        /\ collected' = collected \cup {Own(session.req)}
        /\ tap'.of = tap.of /\ tap'.pending = tap.pending \cup {Own(session.req)}
    BY <1>8 DEF WriteStdout, Runs, TypeOK
  <2>2. Handling /\ session.at = 5
    BY <2>1, StageFacts, StagesOrder
  <2>3. Window /\ Window'
    BY <2>1, <2>2 DEF Window, Handling, Op
  <2>4. \A r \in Requests : Own(r) = Own(session.req) => r = session.req
    BY <1>2, <2>3, PrintsDiffer
  <2>5. /\ Own(session.req) \in collected' /\ Own(session.req) \in tap'.pending
        /\ \A r \in Requests : Own(r) \in collected' \cup tap'.pending => r = session.req
    BY <1>2, <2>1, <2>3, <2>4
  <2> QED
    BY <1>2, <2>1, <2>3, <2>5 DEF Output, Fresh, Handling, Op, Last
<1>9. CASE Tick
  <2>1. /\ UNCHANGED <<asked, queue, session, out, collected>> /\ tap.of # 0
        /\ tap'.of = tap.of /\ tap'.pending = {}
    BY <1>9 DEF Tick, TypeOK
  <2>12. PICK sent \in Part(tap.of, tap.pending) :
           /\ streamed' = [streamed EXCEPT ![tap.of] = @ \cup sent]
           /\ full' = IF sent = tap.pending THEN full ELSE full \cup {tap.of}
    BY <1>9 DEF Tick, Send
  <2>13. sent \subseteq tap.pending
    BY DEF Part
  <2>2. Window /\ Window'
    BY <1>1, <2>1 DEF Window, Handling, Op
  <2>3. /\ streamed'[session.req] = streamed[session.req] \cup sent
        /\ \A r \in Requests : r # session.req => streamed'[r] = streamed[r]
    BY <1>2, <2>12, <2>2 DEF TypeOK
  <2>4. \A r, s \in Requests : Own(r) \in out[s] \cup streamed[s] => r = s
    BY DEF Output
  <2>5. \A r, s \in Requests : Own(r) \in out'[s] \cup streamed'[s] => r = s
    BY <1>2, <2>1, <2>2, <2>3, <2>4, <2>13
  <2>6. \A r \in Requests : Fresh(r) /\ r # session.req => Fresh(r)'
    BY <2>1, <2>3 DEF Fresh
  <2>7. /\ \A i \in DOMAIN queue : queue[i] \in Requests /\ queue[i] # session.req
        /\ \A r \in Requests : r > Last => r # session.req
    BY <2>2, OthersAhead DEF Window
  <2>8. /\ \A i \in DOMAIN queue' : Fresh(queue[i])'
        /\ \A r \in Requests : r > Last' => Fresh(r)'
    BY <2>1, <2>6, <2>7 DEF Output, Last
  <2>9. \A r \in Requests \ full' : r # session.req => (Own(r) \in out'[r] <=> Own(r) \in streamed'[r])
    BY <2>1, <2>2, <2>3, <2>12 DEF Output
  <2>10. /\ Own(session.req) \notin out'[session.req]
         /\ session.req \notin full' =>
              (Own(session.req) \in collected'
                 <=> Own(session.req) \in tap'.pending \cup streamed'[session.req])
         /\ \A r \in Requests : Own(r) \in collected' \cup tap'.pending => r = session.req
    BY <1>2, <2>1, <2>2, <2>3, <2>12
  <2>11. session'.at >= 4 /\ Op' = "eval"
    BY <2>2 DEF Window
  <2> QED
    BY <1>2, <2>1, <2>2, <2>5, <2>8, <2>9, <2>10, <2>11 DEF Output, Fresh
<1>10. ASSUME NEW t \in Requests, TaskPrints(t) PROVE Output'
  <2>1. /\ UNCHANGED <<asked, queue, session, out, streamed, full, tap>>
        /\ collected' = collected \cup {Late(t)}
    BY <1>10 DEF TaskPrints
  <2>2. \A r \in Requests : Own(r) \in collected' <=> Own(r) \in collected
    BY <2>1, PrintsDiffer
  <2> QED
    BY <2>1, <2>2, StillStep
<1>11. ASSUME NEW t \in Requests, TaskTaps(t) PROVE Output'
  <2>1. /\ UNCHANGED <<asked, queue, session, out, streamed, full, collected>> /\ tap'.of = tap.of
        /\ tap'.pending = tap.pending \/ (tap.of # 0 /\ tap'.pending = tap.pending \cup {Late(t)})
    BY <1>11 DEF TaskTaps, TypeOK
  <2>2. \A r \in Requests : Own(r) \in tap'.pending <=> Own(r) \in tap.pending
    BY <2>1, PrintsDiffer
  <2>3. ~Window => tap'.pending = tap.pending
    BY <1>1, <2>1
  <2> QED
    BY <2>1, <2>2, <2>3, StillStep
<1>12. CASE RunWaits \/ RunGoesOn
  BY <1>12, WaitingSteps, StillStep
<1> QED
  BY <1>4, <1>5, <1>6, <1>7, <1>8, <1>9, <1>10, <1>11, <1>12 DEF Next, SessionStep

-----------------------------------------------------------------------------
(* The variables keep their types. *)
THEOREM TypeCorrect == Spec => []TypeOK
<1>1. Init => TypeOK /\ Order
  BY InitHolds
<1>2. TypeOK /\ Order /\ [Next]_vars => (TypeOK /\ Order)'
  BY TypeStep, OrderStep
<1> QED
  BY <1>1, <1>2, PTL DEF Spec

(* A request answered as interrupted was read before the interrupt. *)
THEOREM InterruptStopsWhatWasSentAlways == Spec => []InterruptStopsWhatWasSent
<1>1. Init => TypeOK /\ Order /\ Cause
  BY InitHolds
<1>2. TypeOK /\ Order /\ Cause /\ [Next]_vars => (TypeOK /\ Order /\ Cause)'
  BY TypeStep, OrderStep, CauseStep
<1>3. Cause => InterruptStopsWhatWasSent
  BY DEF Cause
<1> QED
  BY <1>1, <1>2, <1>3, PTL DEF Spec

(* The output of an evaluation is in its own reply and stream. *)
THEOREM OutputIsItsEvaluationsAlways == Spec => []OutputIsItsEvaluations
<1>1. Init => TypeOK /\ Order /\ Output
  BY InitHolds
<1>2. TypeOK /\ Order /\ Output /\ [Next]_vars => (TypeOK /\ Order /\ Output)'
  BY TypeStep, OrderStep, OutputStep
<1>3. TypeOK /\ Order /\ Output => OutputIsItsEvaluations
  <2> SUFFICES ASSUME TypeOK, Order, Output PROVE OutputIsItsEvaluations
    OBVIOUS
  <2>1. Window => reply[session.req] = "none" /\ tap.of = session.req
    BY DEF Output, Order, Window
  <2>2. tap.of # 0 => reply[tap.of] = "none"
    BY <2>1 DEF Output
  <2>3. \A r \in Requests \ full : reply[r] # "none" => (Own(r) \in out[r] <=> Own(r) \in streamed[r])
    BY <2>1 DEF Output
  <2>4. \A r, s \in Requests : Own(r) \in out[s] \cup streamed[s] => r = s
    BY DEF Output
  <2> QED
    BY <2>2, <2>3, <2>4 DEF OutputIsItsEvaluations
<1> QED
  BY <1>1, <1>2, <1>3, PTL DEF Spec
=============================================================================
