----------------------------- MODULE ReplServe -----------------------------
(***************************************************************************)
(* The REPL as a protocol, `olang repl --serve` (src/repl_serve.rs), with  *)
(* the interrupt flag (src/interrupt.rs) and the collected output          *)
(* (src/output.rs) it shares with what it evaluates.                       *)
(*                                                                         *)
(* A reader thread takes the lines.  It answers a ping and an interrupt    *)
(* itself, looking at `running`; everything else it queues for the         *)
(* session, which handles one request at a time in the stages listed in    *)
(* Stages.  Threads an evaluation started go on after it, and print.       *)
(* Requests are numbered as they are read.                                 *)
(***************************************************************************)
EXTENDS Naturals, Sequences, FiniteSets

CONSTANTS
  Ops,                   \* the operations a client asks for
  MaxRequests,           \* bound: lines read
  MaxTasks,              \* bound: threads that outlive their evaluation
  Long                   \* requests that may print more than is held of it

AllOps == {"interrupt", "ping", "eval", "command", "reload", "render", "set", "ask", "shutdown"}

ASSUME OpsAssumption == Ops \subseteq AllOps
ASSUME BoundsAssumption == MaxRequests \in Nat \ {0} /\ MaxTasks \in Nat
ASSUME LongAssumption == Long \subseteq 1..MaxRequests

Requests == 1..MaxRequests

(* A bug: an evaluation is marked before it forgets, as a reload is. *)
MarkedFirst ==
  <<"declare", "open", "mark", "clear", "run", "unmark", "look", "forget", "close", "reply">>
Evaluation ==
  <<"declare", "clear", "open", "mark", "run", "unmark", "look", "forget", "close", "reply">>

(* What the session does for a request, up to its reply.  "ask" stands for *)
(* the operations that evaluate nothing.                                   *)
Stages == [
  eval    |-> Evaluation,
  command |-> <<"declare", "clear", "drop", "mark", "run", "unmark", "look", "forget", "drop", "reply">>,
  reload  |-> <<"mark", "clear", "run", "unmark", "drop", "reply">>,
  render  |-> <<"declare", "clear", "mark", "run", "unmark", "drop", "reply">>,
  set     |-> <<"declare", "run", "drop", "reply">>,
  ask     |-> <<"reply">>,
  shutdown |-> <<"reply">>]

(* Where a request is refused before anything of it runs: a snippet that   *)
(* does not parse, a file that cannot be read or does not parse, a view no *)
(* longer held, a control that is not there.                               *)
Refusable == {<<"eval", 2>>, <<"reload", 1>>, <<"render", 1>>, <<"set", 1>>}

Atomic == {"interrupt", "ping"}      \* what the reader answers

VARIABLES
  asked,                 \* the operations of the lines read
  reader,                \* the reader thread: what it does, and `busy`
  queue,                 \* the mpsc queue to the session
  session,               \* the request handled, its stage, outcome, `interrupted`, and
                         \* whether what it evaluates is at code that polls
  running, requested,    \* the AtomicBools
  reply,                 \* the reply to each request, "none" before it
  collected, tap,        \* COLLECTED; TAP: whose it is (0: none), what waits in it
  streamed, out,         \* the `out` events and the `out` of the reply of each request
  full,                  \* requests whose stream or reply did not hold all (HEAD_MAX, TAIL_MAX)
  task,                  \* threads that outlive the evaluation that started them
  unheard,               \* history: requests whose declarations were interrupted
  struck                 \* history: requests marked running as the flag was set

flagVars == <<running, requested>>
outputVars == <<collected, tap, streamed, out, full, task>>
readVars == <<asked, reader>>
histVars == <<unheard, struck>>
vars == <<readVars, queue, session, flagVars, reply, outputVars, histVars>>

Closed == [of |-> 0, pending |-> {}]
Waiting == [is |-> "waiting", req |-> 0, at |-> 0, outcome |-> "none", interrupted |-> FALSE,
            polls |-> TRUE]
Handled(r) == [is |-> "handling", req |-> r, at |-> 1, outcome |-> "none", interrupted |-> FALSE,
               polls |-> TRUE]

Init ==
  /\ asked = <<>> /\ reader = [at |-> "reading", busy |-> FALSE]
  /\ queue = <<>> /\ session = Waiting
  /\ running = FALSE /\ requested = FALSE
  /\ reply = [r \in Requests |-> "none"]
  /\ collected = {} /\ tap = Closed
  /\ streamed = [r \in Requests |-> {}] /\ out = [r \in Requests |-> {}]
  /\ full = {} /\ task = [r \in Requests |-> "none"]
  /\ unheard = {} /\ struck = {}

-----------------------------------------------------------------------------
(* The reader thread: one line after another, until stdin closes *)

Last == Len(asked)

Read(op) ==
  /\ reader.at = "reading" /\ Last < MaxRequests
  /\ asked' = Append(asked, op)
  /\ IF op \in Atomic
     THEN /\ reader' = [at |-> op, busy |-> running]
          /\ UNCHANGED queue
     ELSE /\ queue' = Append(queue, Last + 1)
          /\ UNCHANGED reader
  /\ UNCHANGED <<session, flagVars, reply, outputVars, histVars>>

(* An interrupt sets the flag when it read `running` TRUE, however long ago. *)
Interrupt ==
  /\ reader.at = "interrupt"
  /\ requested' = (requested \/ reader.busy)
  /\ struck' = IF reader.busy /\ running THEN struck \cup {session.req} ELSE struck
  /\ reader' = [reader EXCEPT !.at = "answering"]
  /\ UNCHANGED <<asked, queue, session, running, reply, outputVars, unheard>>

AnswerAtOnce ==
  /\ reader.at \in {"ping", "answering"}
  /\ reply' = [reply EXCEPT ![Last] = IF reader.busy THEN "running" ELSE "idle"]
  /\ reader' = [at |-> "reading", busy |-> FALSE]
  /\ UNCHANGED <<asked, queue, session, flagVars, outputVars, histVars>>

StdinCloses ==
  /\ reader.at = "reading"
  /\ reader' = [reader EXCEPT !.at = "gone"]
  /\ UNCHANGED <<asked, queue, session, flagVars, reply, outputVars, histVars>>

-----------------------------------------------------------------------------
(* The session: `for msg in rx`, and the stages of handle *)

Op == asked[session.req]
Stage == IF session.is = "handling" THEN Stages[Op][session.at] ELSE "none"
Onward == [session EXCEPT !.at = @ + 1]
Runs == Stage = "run" /\ session.polls

Take ==
  /\ session = Waiting /\ queue # <<>>
  /\ session' = Handled(Head(queue))
  /\ queue' = Tail(queue)
  /\ UNCHANGED <<readVars, flagVars, reply, outputVars, histVars>>

(* A bug: the loop ends with the reader, whatever is queued. *)
EndAtOnce ==
  /\ session = Waiting /\ reader.at = "gone"
  /\ session' = [session EXCEPT !.is = "ended"]
  /\ UNCHANGED <<readVars, queue, flagVars, reply, outputVars, histVars>>

(* The reader is gone and the queue empty: the loop over rx ends. *)
End ==
  /\ session = Waiting /\ queue = <<>> /\ reader.at = "gone"
  /\ session' = [session EXCEPT !.is = "ended"]
  /\ UNCHANGED <<readVars, queue, flagVars, reply, outputVars, histVars>>

(* take_scope: a scope made now evaluates its file's declarations, or its  *)
(* notebook's parameters, and what is evaluated polls the flag; one made   *)
(* before evaluates nothing.                                               *)
Declare ==
  /\ Stage = "declare"
  /\ unheard' \in {unheard, IF requested THEN unheard \cup {session.req} ELSE unheard}
  /\ session' = Onward
  /\ UNCHANGED <<readVars, queue, flagVars, reply, outputVars, struck>>

(* A bug: only the end of an evaluation forgets a request. *)
ClearAtEnd ==
  /\ Stage \in {"clear", "forget"}
  /\ requested' = (requested /\ Stage = "clear")
  /\ session' = Onward
  /\ UNCHANGED <<readVars, queue, running, reply, outputVars, histVars>>

Clear ==
  /\ Stage \in {"clear", "forget"}
  /\ requested' = FALSE
  /\ session' = Onward
  /\ UNCHANGED <<readVars, queue, running, reply, outputVars, histVars>>

Mark ==
  /\ Stage \in {"mark", "unmark"}
  /\ running' = (Stage = "mark")
  /\ session' = Onward
  /\ UNCHANGED <<readVars, queue, requested, reply, outputVars, histVars>>

(* What runs goes into a builtin that waits (chan.recv, os.exec), where    *)
(* nothing looks at the flag, and comes back if the builtin does.          *)
RunWaits ==
  /\ Runs
  /\ session' = [session EXCEPT !.polls = FALSE]
  /\ UNCHANGED <<readVars, queue, flagVars, reply, outputVars, histVars>>

RunGoesOn ==
  /\ Stage = "run" /\ ~session.polls
  /\ session' = [session EXCEPT !.polls = TRUE]
  /\ UNCHANGED <<readVars, queue, flagVars, reply, outputVars, histVars>>

(* Every tier polls the flag; only a standing request stops what runs. *)
Stopped ==
  /\ Runs /\ requested
  /\ session' = [Onward EXCEPT !.outcome = "stopped"]
  /\ UNCHANGED <<readVars, queue, flagVars, reply, outputVars, histVars>>

RunEnds(outcome) ==
  /\ Runs
  /\ session' = [Onward EXCEPT !.outcome = outcome]
  /\ UNCHANGED <<readVars, queue, flagVars, reply, outputVars, histVars>>

Look ==
  /\ Stage = "look"
  /\ session' = [Onward EXCEPT !.interrupted = requested]
  /\ UNCHANGED <<readVars, queue, flagVars, reply, outputVars, histVars>>

Reply ==
  /\ Stage = "reply"
  /\ reply' = [reply EXCEPT ![session.req] =
       IF session.outcome \in {"none", "ok"} THEN "ok"
       ELSE IF session.outcome = "stopped" \/ session.interrupted THEN "interrupted"
       ELSE "error"]
  /\ session' = IF Op = "shutdown" THEN [session EXCEPT !.is = "ended"] ELSE Waiting
  /\ UNCHANGED <<readVars, queue, flagVars, outputVars, histVars>>

Refuse ==
  /\ session.is = "handling" /\ <<Op, session.at>> \in Refusable
  /\ reply' = [reply EXCEPT ![session.req] = "error"]
  /\ session' = Waiting
  /\ UNCHANGED <<readVars, queue, flagVars, outputVars, histVars>>

-----------------------------------------------------------------------------
(* What is printed: collected for the reply, and streamed as it comes *)

Own(r) == [by |-> r, from |-> "evaluation"]
Late(r) == [by |-> r, from |-> "task"]

WriteStdout ==
  /\ Runs /\ Op = "eval" /\ Own(session.req) \notin collected
  /\ collected' = collected \cup {Own(session.req)}
  /\ tap' = [tap EXCEPT !.pending = @ \cup {Own(session.req)}]
  /\ UNCHANGED <<readVars, queue, session, flagVars, reply, streamed, out, full, task, histVars>>

Spawn ==
  /\ Runs /\ Op = "eval" /\ task[session.req] = "none"
  /\ Cardinality({r \in Requests : task[r] # "none"}) < MaxTasks
  /\ task' = [task EXCEPT ![session.req] = "runs"]
  /\ UNCHANGED <<readVars, queue, session, flagVars, reply, collected, tap, streamed, out, full, histVars>>

(* A thread collects what it prints, then hands it to the tap it finds. *)
TaskPrints(r) ==
  /\ task[r] = "runs"
  /\ collected' = collected \cup {Late(r)}
  /\ task' = [task EXCEPT ![r] = IF tap.of = 0 THEN "done" ELSE "taps"]
  /\ UNCHANGED <<readVars, queue, session, flagVars, reply, tap, streamed, out, full, histVars>>

TaskTaps(r) ==
  /\ task[r] = "taps"
  /\ task' = [task EXCEPT ![r] = "done"]
  /\ tap' = IF tap.of = 0 THEN tap ELSE [tap EXCEPT !.pending = @ \cup {Late(r)}]
  /\ UNCHANGED <<readVars, queue, session, flagVars, reply, collected, streamed, out, full, histVars>>

(* What is held of what is printed: all of it, or of a long one a part. *)
Part(r, whole) == IF r \in Long THEN SUBSET whole ELSE {whole}

(* A stream holds HEAD_MAX bytes: what does not fit is dropped, and        *)
(* everything after it.                                                    *)
Send(sent) ==
  /\ tap.of \in full => sent = {}
  /\ streamed' = [streamed EXCEPT ![tap.of] = @ \cup sent]

(* The ticker, or a print that finds TAP_EVERY gone by. *)
Tick ==
  /\ tap.of # 0 /\ tap.pending # {}
  /\ \E sent \in Part(tap.of, tap.pending) :
       /\ Send(sent)
       /\ full' = IF sent = tap.pending THEN full ELSE full \cup {tap.of}
  /\ tap' = [tap EXCEPT !.pending = {}]
  /\ UNCHANGED <<readVars, queue, session, flagVars, reply, collected, out, task, histVars>>

Drop ==
  /\ Stage = "drop"
  /\ collected' = {}
  /\ session' = Onward
  /\ UNCHANGED <<readVars, queue, flagVars, reply, tap, streamed, out, full, task, histVars>>

Open ==
  /\ Stage = "open"
  /\ collected' = {}
  /\ tap' = [of |-> session.req, pending |-> {}]
  /\ session' = Onward
  /\ UNCHANGED <<readVars, queue, flagVars, reply, streamed, out, full, task, histVars>>

(* A bug: what waits in the tap goes with it. *)
CloseUnsent ==
  /\ Stage = "close"
  /\ tap' = Closed
  /\ out' = [out EXCEPT ![session.req] = collected]
  /\ collected' = {}
  /\ session' = Onward
  /\ UNCHANGED <<readVars, queue, flagVars, reply, streamed, full, task, histVars>>

(* The reply holds the first HEAD_MAX bytes of what was printed and the    *)
(* last TAIL_MAX.                                                          *)
Close ==
  /\ Stage = "close"
  /\ \E sent \in Part(tap.of, tap.pending), kept \in Part(tap.of, collected) :
       /\ Send(sent)
       /\ out' = [out EXCEPT ![session.req] = kept]
       /\ full' = IF sent = tap.pending /\ kept = collected THEN full ELSE full \cup {session.req}
  /\ tap' = Closed
  /\ collected' = {}
  /\ session' = Onward
  /\ UNCHANGED <<readVars, queue, flagVars, reply, task, histVars>>

-----------------------------------------------------------------------------
(* The whole *)

SessionStep ==
  \/ Take \/ End \/ Clear \/ Mark \/ Look \/ Reply \/ Refuse
  \/ Drop \/ Open \/ Close

(* The process ends with the session's loop. *)
Next ==
  /\ session.is # "ended"
  /\ \/ \E op \in Ops : Read(op)
     \/ Interrupt \/ AnswerAtOnce \/ StdinCloses
     \/ SessionStep \/ Declare \/ Stopped \/ RunWaits \/ RunGoesOn
     \/ \E outcome \in {"ok", "failed"} : RunEnds(outcome)
     \/ WriteStdout \/ Spawn \/ Tick
     \/ \E r \in Requests : TaskPrints(r) \/ TaskTaps(r)

Spec == Init /\ [][Next]_vars

(* The threads go on; what is evaluated may run for ever, the declarations *)
(* of a file too, and no line has to come.  Code that is again and again   *)
(* out of its waiting builtins comes to a poll there (every statement and  *)
(* every turn of a loop has one), so Stopped is strongly fair; nothing     *)
(* makes a builtin come back.                                              *)
ReaderStep == session.is # "ended" /\ (Interrupt \/ AnswerAtOnce)
Fairness == WF_vars(ReaderStep) /\ WF_vars(SessionStep) /\ SF_vars(Stopped)

FairSpec == Spec /\ Fairness

-----------------------------------------------------------------------------
(* Properties *)

IsRead(r) == r \in DOMAIN asked
Prints == [by : Requests, from : {"evaluation", "task"}]

(* The variables have their types. *)
TypeOK ==
  /\ asked \in Seq(Ops) /\ Len(asked) <= MaxRequests
  /\ reader \in [at : {"reading", "interrupt", "ping", "answering", "gone"}, busy : BOOLEAN]
  /\ queue \in Seq(Requests)
  /\ session \in [is : {"waiting", "handling", "ended"}, req : Requests \cup {0}, at : 0..10,
                  outcome : {"none", "ok", "failed", "stopped"}, interrupted : BOOLEAN,
                  polls : BOOLEAN]
  /\ running \in BOOLEAN /\ requested \in BOOLEAN
  /\ reply \in [Requests -> {"none", "ok", "error", "interrupted", "running", "idle"}]
  /\ collected \subseteq Prints /\ tap \in [of : Requests \cup {0}, pending : SUBSET Prints]
  /\ streamed \in [Requests -> SUBSET Prints] /\ out \in [Requests -> SUBSET Prints]
  /\ full \subseteq Requests
  /\ task \in [Requests -> {"none", "runs", "taps", "done"}]

(* A request is answered as interrupted only when an interrupt was read    *)
(* after it and was told that something runs: one that comes late for its  *)
(* own evaluation stops a request already sent, never one still to come.   *)
(* Of `set` it says nothing: it neither marks nor clears, and a flag left  *)
(* standing does fail it.                                                  *)
InterruptStopsWhatWasSent ==
  \A r \in Requests : reply[r] = "interrupted" /\ asked[r] # "set" =>
    \E i \in r + 1 .. Last :
      /\ asked[i] = "interrupt"
      /\ reply[i] = "running" \/ (i = Last /\ reader.busy)

(* What an evaluation prints itself is in its own reply and in its own     *)
(* stream, in no other's, and its stream is over before its reply.  The    *)
(* two hold the same, unless there was more than one of them holds.        *)
OutputIsItsEvaluations ==
  /\ tap.of # 0 => reply[tap.of] = "none"
  /\ \A r, s \in Requests : Own(r) \in out[s] \cup streamed[s] => r = s
  /\ \A r \in Requests \ full :
       reply[r] # "none" => (Own(r) \in out[r] <=> Own(r) \in streamed[r])

(* Every request read before stdin closes is answered, in whatever order   *)
(* the threads go on, unless a shutdown ends the session before it or an   *)
(* evaluation is never left.                                               *)
RequestsAreAnswered ==
  \A r \in Requests :
    []<>(Stage \notin {"run", "declare"}) =>
      (IsRead(r) ~> (reply[r] # "none" \/ \E s \in DOMAIN asked : s < r /\ asked[s] = "shutdown"))

(* An interrupt that sets the flag while an evaluation or a command is     *)
(* marked running is not lost: the request is answered, and the session    *)
(* goes on, unless what runs stays for ever in a builtin that waits.       *)
InterruptEndsIt ==
  LET struckNow == /\ session.is = "handling" /\ session.req \in struck
                   /\ Op \in {"eval", "command", "render"}
  IN struckNow ~> ~struckNow \/ [](~session.polls)

(* Declarations are stopped only by an interrupt sent after their request  *)
(* (src/interrupt.rs: clear forgets a request "at the start of an          *)
(* evaluation"; tests/repl_serve_test.rs: "an interrupt with nothing       *)
(* running is a no-op").                                                   *)
DeclarationsAreHeard ==
  \A r \in unheard : \E i \in r + 1 .. Last : asked[i] = "interrupt"
=============================================================================
