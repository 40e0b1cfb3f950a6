------------------------------ MODULE HttpServe ------------------------------
(***************************************************************************)
(* http.serve and what a program can do to it from outside the handler     *)
(* (src/stdlib/http.rs): one accept loop and a bounded queue of            *)
(* connections per server, a fixed pool of workers, the process-wide       *)
(* SHUTDOWN flag, and the two process-wide tables of deferred connections  *)
(* (DEFERRED, by ticket) and of tickets held under a topic (HELD).         *)
(*                                                                         *)
(* Handlers, and the spawned tasks and other requests that answer a        *)
(* deferred connection, are the program's: they may do what the API lets   *)
(* them do at any time.  Requests are bytes on a socket and stay abstract: *)
(* a request is its number on its connection.                              *)
(***************************************************************************)
EXTENDS Integers, Sequences, FiniteSets

CONSTANTS
  Servers,
  PoolSize,      \* workers of each server
  QueueCap,      \* queue_capacity
  MaxRequests,   \* max_requests_per_connection
  Conns,         \* the connections clients open, each to one server
  Topics,
  Notifiers      \* threads of the program that call http.notify

ASSUME PoolAssumption == PoolSize \in Nat \ {0} /\ QueueCap \in Nat \ {0}
ASSUME RequestsAssumption == MaxRequests \in Nat \ {0}

NoConn == "none"
ASSUME ConnsAssumption == IsFiniteSet(Conns) /\ IsFiniteSet(Servers) /\ NoConn \notin Conns

VARIABLES
  shutdown,      \* SHUTDOWN
  server,        \* how far each serve_blocking has got
  backlog,       \* connections in the listener's backlog
  queue,         \* connections between the accept loop and the workers
  worker,        \* how far each worker has got
  holding,       \* the connection in a worker's hands
  keep,          \* keep_alive of the request being handled
  reads,         \* requests read off each connection
  answers,       \* answers written to each connection
  closed,        \* connections the server is done with
  deferred,      \* DEFERRED
  held,          \* HELD
  answering,     \* tickets a notifier has taken out of HELD and not answered yet
  opened,        \* history: connections the clients have opened
  issued,        \* history: tickets handlers were given
  everHeld,      \* history: those given by http.hold
  asked,         \* history: servers running when a shutdown was asked
  cut,           \* history: servers that returned at the drain deadline
  overlooked     \* history: tickets a notify came to while their handler still ran

serverVars == <<shutdown, server, backlog, queue, opened, asked, cut>>
workerVars == <<worker, holding, keep, reads>>
tableVars == <<deferred, held, answering>>
history == <<issued, everHeld, overlooked>>
vars == <<shutdown, server, backlog, queue, worker, holding, keep, reads,
          answers, closed, deferred, held, answering, opened, issued, everHeld,
          asked, cut, overlooked>>

Pool(s) == {s} \X (1..PoolSize)
Workers == Servers \X (1..PoolSize)

(* A ticket names a request: CONN_SEQ moves on with every request. *)
Tickets == Conns \X (1..MaxRequests)
TicketOf(w) == <<holding[w], reads[holding[w]]>>
Handled(tk) == \E w \in Workers : worker[w] = "handling" /\ TicketOf(w) = tk

Init ==
  /\ shutdown = FALSE
  /\ server = [s \in Servers |-> "off"]
  /\ backlog = [s \in Servers |-> {}]
  /\ queue = [s \in Servers |-> <<>>]
  /\ worker = [w \in Workers |-> "off"]
  /\ holding = [w \in Workers |-> NoConn]
  /\ keep = [w \in Workers |-> FALSE]
  /\ reads = [c \in Conns |-> 0]
  /\ answers = [c \in Conns |-> 0]
  /\ closed = {}
  /\ deferred = {}
  /\ held = [t \in Topics |-> {}]
  /\ answering = [n \in Notifiers |-> {}]
  /\ opened = {}
  /\ issued = {}
  /\ everHeld = {}
  /\ asked = {}
  /\ cut = {}
  /\ overlooked = {}

-----------------------------------------------------------------------------
(* The accept loop: serve_blocking *)

Phase(s, label) == server' = [server EXCEPT ![s] = label]

Running(s) == server[s] \in {"starting", "accepting", "polling"}

(* Bind, then start the pool.  From here on clients can connect. *)
Start(s) ==
  /\ server[s] = "off"
  /\ Phase(s, "starting")
  /\ worker' = [w \in Workers |-> IF w \in Pool(s) THEN "idle" ELSE worker[w]]
  /\ UNCHANGED <<shutdown, backlog, queue, holding, keep, reads, answers,
                 closed, tableVars, opened, asked, cut, history>>

(* The flag of an earlier drain is cleared before the loop begins. *)
ClearShutdown(s) ==
  /\ server[s] = "starting"
  /\ shutdown' = FALSE
  /\ Phase(s, "accepting")
  /\ UNCHANGED <<backlog, queue, workerVars, answers, closed, tableVars,
                 opened, asked, cut, history>>

(* The top of the loop. *)
CheckShutdown(s) ==
  /\ server[s] = "accepting"
  /\ Phase(s, IF shutdown THEN "draining" ELSE "polling")
  /\ UNCHANGED <<shutdown, backlog, queue, workerVars, answers, closed,
                 tableVars, opened, asked, cut, history>>

NothingToAccept(s) ==
  /\ server[s] = "polling" /\ backlog[s] = {}
  /\ Phase(s, "accepting")
  /\ UNCHANGED <<shutdown, backlog, queue, workerVars, answers, closed,
                 tableVars, opened, asked, cut, history>>

Leave(s, c) == backlog' = [backlog EXCEPT ![s] = @ \ {c}]

(* try_send: into the queue, or refused with a 503 when it is full.        *)
Accept(s, c) ==
  /\ server[s] = "polling" /\ c \in backlog[s]
  /\ Leave(s, c)
  /\ IF Len(queue[s]) < QueueCap
       THEN queue' = [queue EXCEPT ![s] = Append(@, c)] /\ UNCHANGED closed
       ELSE closed' = closed \cup {c} /\ UNCHANGED queue
  /\ Phase(s, "accepting")
  /\ UNCHANGED <<shutdown, workerVars, answers, tableVars, opened, asked, cut,
                 history>>

(* The connections nobody will look at any more are closed with the socket.*)
Abandon(s) ==
  /\ backlog' = [backlog EXCEPT ![s] = {}]
  /\ closed' = closed \cup backlog[s]

Drained(s) == \A w \in Pool(s) : worker[w] = "exited"

Return(s) ==
  /\ server[s] = "draining" /\ Drained(s)
  /\ Phase(s, "returned")
  /\ Abandon(s)
  /\ UNCHANGED <<shutdown, queue, workerVars, answers, tableVars, opened,
                 asked, cut, history>>

(* Mutant: the deadline does not count against a handler that runs. *)
CutIfIdle(s) ==
  /\ server[s] = "draining" /\ ~Drained(s)
  /\ \A w \in Pool(s) : worker[w] # "handling"
  /\ Phase(s, "returned")
  /\ cut' = cut \cup {s}
  /\ Abandon(s)
  /\ UNCHANGED <<shutdown, queue, workerVars, answers, tableVars, opened,
                 asked, history>>

(* drain_ms is over: the requests still in flight are cut. *)
Cut(s) ==
  /\ server[s] = "draining" /\ ~Drained(s)
  /\ Phase(s, "returned")
  /\ cut' = cut \cup {s}
  /\ Abandon(s)
  /\ UNCHANGED <<shutdown, queue, workerVars, answers, tableVars, opened,
                 asked, history>>

-----------------------------------------------------------------------------
(* A worker: serve_connection *)

Step(w, label) ==
  /\ worker' = [worker EXCEPT ![w] = label]
  /\ UNCHANGED <<holding, keep, reads>>

LetGo(w) ==
  /\ worker' = [worker EXCEPT ![w] = "idle"]
  /\ holding' = [holding EXCEPT ![w] = NoConn]
  /\ keep' = [keep EXCEPT ![w] = FALSE]
  /\ UNCHANGED reads

TakeConn(w) ==
  /\ worker[w] = "idle" /\ queue[w[1]] # <<>>
  /\ holding' = [holding EXCEPT ![w] = Head(queue[w[1]])]
  /\ queue' = [queue EXCEPT ![w[1]] = Tail(@)]
  /\ worker' = [worker EXCEPT ![w] = "top"]
  /\ UNCHANGED <<shutdown, server, backlog, keep, reads, answers, closed,
                 tableVars, opened, asked, cut, history>>

(* Mutant: the queue is dropped with its sender. *)
ExitAtOnce(w) ==
  /\ worker[w] = "idle"
  /\ ~Running(w[1])
  /\ Step(w, "exited")
  /\ UNCHANGED <<serverVars, answers, closed, tableVars, history>>

(* The queue is disconnected and drained. *)
ExitWorker(w) ==
  /\ worker[w] = "idle"
  /\ ~Running(w[1]) /\ queue[w[1]] = <<>>
  /\ Step(w, "exited")
  /\ UNCHANGED <<serverVars, answers, closed, tableVars, history>>

(* The loop over the connection's requests: it ends at the cap, and a      *)
(* kept-alive connection is not read again once the server drains.         *)
NextRequest(w) ==
  /\ worker[w] = "top"
  /\ IF reads[holding[w]] > 0 /\ (shutdown \/ reads[holding[w]] = MaxRequests)
       THEN closed' = closed \cup {holding[w]} /\ LetGo(w)
       ELSE Step(w, "reading") /\ UNCHANGED closed
  /\ UNCHANGED <<serverVars, answers, tableVars, history>>

(* No request comes: the client is gone, idle too long or malformed. *)
NoRequest(w) ==
  /\ worker[w] = "reading"
  /\ closed' = closed \cup {holding[w]}
  /\ LetGo(w)
  /\ UNCHANGED <<serverVars, answers, tableVars, history>>

(* A request is read whole; whether the connection is kept is decided      *)
(* before the handler runs.                                                *)
ReadRequest(w) ==
  LET c == holding[w] IN
  /\ worker[w] = "reading"
  /\ reads' = [reads EXCEPT ![c] = @ + 1]
  /\ \E clientWantsClose \in BOOLEAN :
       keep' = [keep EXCEPT ![w] =
                  /\ ~clientWantsClose
                  /\ ~shutdown
                  /\ reads[c] + 1 < MaxRequests]
  /\ worker' = [worker EXCEPT ![w] = "handling"]
  /\ UNCHANGED <<serverVars, holding, answers, closed, tableVars, history>>

(* Mutant: a connection that is not kept is read again all the same. *)
AnswerAndGoOn(w) ==
  LET c == holding[w] IN
  /\ worker[w] = "handling"
  /\ answers' = [answers EXCEPT ![c] = @ + 1]
  /\ Step(w, "top")
  /\ closed' = IF keep[w] THEN closed ELSE closed \cup {c}
  /\ UNCHANGED <<serverVars, tableVars, history>>

(* The handler returned a response, or raised and is answered 500.  A      *)
(* client that cannot be written to ends the connection.                   *)
Answer(w) ==
  LET c == holding[w] IN
  /\ worker[w] = "handling"
  /\ answers' = [answers EXCEPT ![c] = @ + 1]
  /\ \E written \in BOOLEAN :
       IF keep[w] /\ written
         THEN Step(w, "top") /\ UNCHANGED closed
         ELSE LetGo(w) /\ closed' = closed \cup {c}
  /\ UNCHANGED <<serverVars, tableVars, history>>

-----------------------------------------------------------------------------
(* Deferral, inside the handler *)

(* http.defer *)
Defer(w) ==
  /\ worker[w] = "handling"
  /\ issued' = issued \cup {TicketOf(w)}
  /\ UNCHANGED <<serverVars, workerVars, answers, closed, tableVars, everHeld,
                 overlooked>>

(* http.hold *)
Hold(w, t) ==
  /\ worker[w] = "handling"
  /\ issued' = issued \cup {TicketOf(w)}
  /\ everHeld' = everHeld \cup {TicketOf(w)}
  /\ held' = [held EXCEPT ![t] = @ \cup {TicketOf(w)}]
  /\ UNCHANGED <<serverVars, workerVars, answers, closed, deferred, answering,
                 overlooked>>

(* The handler returned its own ticket: the connection parks, and the      *)
(* worker is free.                                                         *)
Park(w) ==
  /\ worker[w] = "handling" /\ TicketOf(w) \in issued
  /\ deferred' = deferred \cup {TicketOf(w)}
  /\ LetGo(w)
  /\ UNCHANGED <<serverVars, answers, closed, held, answering, history>>

-----------------------------------------------------------------------------
(* Completion, from any thread *)

(* Mutant: the connection is read out of the table and left there. *)
CompleteAndLeave(tk) ==
  /\ answers' = [answers EXCEPT ![tk[1]] = @ + 1]
  /\ closed' = closed \cup {tk[1]}
  /\ UNCHANGED deferred

(* http.respond: the ticket's connection is taken out of the table,        *)
(* answered and closed.                                                    *)
Complete(tk) ==
  /\ deferred' = deferred \ {tk}
  /\ answers' = [answers EXCEPT ![tk[1]] = @ + 1]
  /\ closed' = closed \cup {tk[1]}

Respond(tk) ==
  /\ tk \in issued
  /\ IF tk \in deferred
       THEN Complete(tk)
       ELSE UNCHANGED <<deferred, answers, closed>>     \* Err: nothing holds it
  /\ UNCHANGED <<serverVars, workerVars, held, answering, history>>

(* Mutant: the first ticket is answered and the rest are dropped. *)
NotifyFirst(n, topics) ==
  LET tickets == UNION {held[t] : t \in topics} IN
  /\ answering[n] = {}
  /\ answering' = [answering EXCEPT ![n] =
                     IF tickets = {} THEN {} ELSE {CHOOSE tk \in tickets : TRUE}]
  /\ held' = [t \in Topics |-> IF t \in topics THEN {} ELSE held[t]]
  /\ UNCHANGED <<serverVars, workerVars, answers, closed, deferred, history>>

(* http.notify takes the topic's tickets, http.notify_all every topic's,   *)
(* and answers them one after another.                                     *)
Notify(n, topics) ==
  /\ answering[n] = {}
  /\ answering' = [answering EXCEPT ![n] = UNION {held[t] : t \in topics}]
  /\ held' = [t \in Topics |-> IF t \in topics THEN {} ELSE held[t]]
  /\ UNCHANGED <<serverVars, workerVars, answers, closed, deferred, history>>

(* A ticket that is not parked is passed over: it was answered by somebody *)
(* else, or its handler has not returned it yet.                           *)
AnswerHeld(n, tk) ==
  /\ tk \in answering[n]
  /\ answering' = [answering EXCEPT ![n] = @ \ {tk}]
  /\ IF tk \in deferred
       THEN Complete(tk) /\ UNCHANGED overlooked
       ELSE /\ overlooked' = IF Handled(tk) THEN overlooked \cup {tk}
                                            ELSE overlooked
            /\ UNCHANGED <<deferred, answers, closed>>
  /\ UNCHANGED <<serverVars, workerVars, held, issued, everHeld>>

-----------------------------------------------------------------------------
(* Clients and the rest of the program *)

Connect(s, c) ==
  /\ c \notin opened
  /\ Running(s) \/ server[s] = "draining"
  /\ opened' = opened \cup {c}
  /\ backlog' = [backlog EXCEPT ![s] = @ \cup {c}]
  /\ UNCHANGED <<shutdown, server, queue, workerVars, answers, closed,
                 tableVars, asked, cut, history>>

(* http.shutdown *)
Shutdown ==
  /\ shutdown' = TRUE
  /\ asked' = asked \cup {s \in Servers : Running(s)}
  /\ UNCHANGED <<server, backlog, queue, workerVars, answers, closed,
                 tableVars, opened, cut, history>>

-----------------------------------------------------------------------------
Loop(s) ==
  \/ ClearShutdown(s) \/ CheckShutdown(s) \/ NothingToAccept(s)
  \/ \E c \in Conns : Accept(s, c)
  \/ Return(s) \/ Cut(s)

Serve(w) == TakeConn(w) \/ ExitWorker(w) \/ NextRequest(w)

Handle(w) ==
  \/ NoRequest(w) \/ ReadRequest(w) \/ Answer(w)
  \/ Defer(w) \/ Park(w) \/ \E t \in Topics : Hold(w, t)

Next ==
  \/ \E s \in Servers : Start(s) \/ Loop(s) \/ \E c \in Conns : Connect(s, c)
  \/ \E w \in Workers : Serve(w) \/ Handle(w)
  \/ \E tk \in Tickets : Respond(tk)
  \/ \E n \in Notifiers : \/ \E t \in Topics : Notify(n, {t})
                          \/ Notify(n, Topics)
                          \/ \E tk \in Tickets : AnswerHeld(n, tk)
  \/ Shutdown

Spec == Init /\ [][Next]_vars

(* The accept loop and the workers' own code run on, and the drain's       *)
(* deadline passes.  A handler may never return, a client never send.      *)
FairSpec ==
  /\ Spec
  /\ \A s \in Servers : WF_vars(Loop(s))
  /\ \A w \in Workers : WF_vars(Serve(w))

-----------------------------------------------------------------------------
(* Properties *)

(* Every variable has its type: no connection is read or answered past     *)
(* max_requests_per_connection (serve_connection), and what is deferred or *)
(* held is a ticket (DEFERRED, HELD).                                      *)
TypeOK ==
  /\ shutdown \in BOOLEAN
  /\ server \in [Servers -> {"off", "starting", "accepting", "polling",
                             "draining", "returned"}]
  /\ backlog \in [Servers -> SUBSET Conns]
  /\ queue \in [Servers -> Seq(Conns)]
  /\ worker \in [Workers -> {"off", "idle", "top", "reading", "handling", "exited"}]
  /\ holding \in [Workers -> Conns \cup {NoConn}]
  /\ keep \in [Workers -> BOOLEAN]
  /\ reads \in [Conns -> 0..MaxRequests]
  /\ answers \in [Conns -> 0..MaxRequests]
  /\ closed \subseteq Conns
  /\ deferred \subseteq Tickets
  /\ held \in [Topics -> SUBSET Tickets]
  /\ answering \in [Notifiers -> SUBSET Tickets]
  /\ opened \subseteq Conns
  /\ issued \subseteq Tickets
  /\ everHeld \subseteq issued
  /\ asked \subseteq Servers
  /\ cut \subseteq Servers
  /\ overlooked \subseteq Tickets

(* A connection has one owner from its first byte to its last: the         *)
(* listener, the queue, one worker or the table of deferred connections,   *)
(* until it is closed, and nobody touches it after that.                   *)
InQueues(c) ==
  UNION {{s} \X {i \in 1..Len(queue[s]) : queue[s][i] = c} : s \in Servers}
Owners(c) ==
  Cardinality({s \in Servers : c \in backlog[s]})
  + Cardinality(InQueues(c))
  + Cardinality({w \in Workers : holding[w] = c})
  + Cardinality({tk \in deferred : tk[1] = c})
OneOwner ==
  \A c \in Conns :
    Owners(c) = IF c \in opened \ closed THEN 1 ELSE 0

(* Every request is answered exactly once: by the handler, or by whoever   *)
(* completes it, however many threads respond to the ticket or notify its  *)
(* topic.  Only a request being handled or parked is not answered yet.     *)
AnsweredOnce ==
  \A c \in Conns :
    reads[c] - answers[c] =
      Cardinality({w \in Workers : worker[w] = "handling" /\ holding[w] = c})
      + Cardinality({tk \in deferred : tk[1] = c})

(* A drain that was not cut has left nothing behind: every connection that *)
(* was queued has been served, and every worker has exited.                *)
DrainIsComplete ==
  \A s \in Servers : server[s] = "returned" /\ s \notin cut =>
    /\ queue[s] = <<>>
    /\ \A w \in Pool(s) : holding[w] = NoConn

(* A connection parked by http.hold can be found under its topic until a   *)
(* notify takes it, and from then on by that notify until it is answered,  *)
(* whatever responds, notifies and returning handlers race for it.  One    *)
(* case is excepted, and it is the only one: a notify that comes to a      *)
(* ticket while its handler still runs passes it over, and the connection  *)
(* the handler then parks is under no topic (answer_all).                  *)
Reachable(tk) ==
  \/ \E t \in Topics : tk \in held[t]
  \/ \E n \in Notifiers : tk \in answering[n]
OnlyEarlyNotifyLoses ==
  \A tk \in (deferred \cap everHeld) \ overlooked : Reachable(tk)

(* A shutdown that stands ends every server: at the latest at the drain's  *)
(* deadline serve returns, whatever its handlers and clients do, unless    *)
(* another server's start forgets the request first.                       *)
ShutdownEndsServe ==
  \A s \in Servers :
    (shutdown /\ Running(s)) ~> (server[s] = "returned" \/ ~shutdown)

(* http.shutdown "asks every running http.serve to drain": a server that   *)
(* was asked is draining or will see the flag.                             *)
ShutdownIsHeard ==
  \A s \in asked : Running(s) => shutdown

(* http.notify answers "every connection held under topic": no connection  *)
(* that is held and parked is out of every notify's reach.                 *)
NotifyAnswersHeld == \A tk \in deferred \cap everHeld : Reachable(tk)
=============================================================================
