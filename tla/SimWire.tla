------------------------------ MODULE SimWire ------------------------------
(***************************************************************************)
(* The network of a simulated world (src/sim/wire.rs, net.rs, http.rs):    *)
(* requests and answers in flight, which a link may lose or duplicate and  *)
(* a partition cuts, servers with a queue and workers, answers deferred    *)
(* until later, clients that wait for an answer until their time is up,    *)
(* and nodes that stop under all of it.                                    *)
(*                                                                         *)
(* One task runs at a time (SimWorld), and each step is what one does      *)
(* between two points at which it may lose the baton.  Times are kept as   *)
(* what is left of them: the clock takes the earliest from all.  A reply   *)
(* mailbox is its request's; a queue, a control mailbox and the workers on *)
(* them are their listener's, listeners being numbered as they are made.   *)
(***************************************************************************)
EXTENDS Integers, Sequences, SequencesExt, FiniteSets

CONSTANTS
  Askers, Servers,      \* the nodes; a client node runs one client
  Workers,               \* the slots of a server's pool
  Capacity,              \* queue_capacity
  Latencies, Timeout,    \* in ticks
  MaxRequests,           \* bound: requests sent
  MaxServes,             \* bound: calls of http.serve
  MaxFaults              \* bound: losses, duplicates, partitions, stops

ASSUME TimesAssumption == Latencies \subseteq Nat \ {0} /\ Timeout \in Nat \ {0}
ASSUME WireBoundsAssumption ==
  /\ Capacity \in Nat \ {0} /\ Workers # {} /\ MaxFaults \in Nat
  /\ MaxRequests \in Nat \ {0} /\ MaxServes \in Nat \ {0}
ASSUME WireNodesAssumption == Askers \cap Servers = {} /\ "none" \notin Servers

Requests == 1..MaxRequests
Serves == 1..MaxServes

(* A request, or one whose body is above max_body; a handler's answer, a   *)
(* 413 or 503, and a refused connection.                                   *)
RequestKinds == {"request", "oversized"}
ReplyKinds == {"answer", "rejected", "refused"}
MessageKinds == RequestKinds \cup ReplyKinds

VARIABLES
  nodeUp, severed,       \* nodes that run; pairs a partition separates
  flight,                \* the messages in flight, in the order they were sent
  asker, target,         \* Req.from and the node it goes to, for those sent
  outcome,               \* History.outcome
  got,                   \* the reply mailboxes
  client,                \* its task: idle, ready or blocked; its request, time left
  listener,              \* the port's listener on each node, 0 for none
  program,               \* the server's main task
  queue, host, worker,   \* a listener's mailbox, node and workers
  parked, held,          \* Wire.parked and Wire.held, of one topic
  faults,                \* bound: faults so far
  vanished               \* history: of those pending, lost by the network or a process

clientVars == <<asker, target, outcome, got, client>>
serverVars == <<listener, program, queue, host, worker>>
laterVars == <<parked, held>>
netVars == <<severed, flight, faults, vanished>>
wireVars == <<nodeUp, clientVars, serverVars, laterVars, netVars>>

Idle == [is |-> "idle", req |-> 0, left |-> 0]
NoWork == [is |-> "none", req |-> 0]

WireInit ==
  /\ nodeUp = [n \in Askers \cup Servers |-> TRUE]
  /\ severed = {} /\ flight = <<>> /\ faults = 0 /\ vanished = {}
  /\ asker = <<>> /\ target = <<>> /\ outcome = <<>>
  /\ got = [r \in Requests |-> <<>>]
  /\ client = [c \in Askers |-> Idle]
  /\ listener = [n \in Servers |-> 0]
  /\ program = [n \in Servers |-> "new"]
  /\ queue = <<>> /\ host = <<>>
  /\ worker = [l \in Serves |-> [w \in Workers |-> NoWork]]
  /\ parked = [r \in Requests |-> "none"]
  /\ held = [n \in Servers |-> <<>>]

-----------------------------------------------------------------------------
(* The link: transmit, and the order in which what it carries is due *)

Sent == 1..Len(asker)
Link(r) == {asker[r], target[r]}

(* What a link may do with a message: it is cut, arrives, is lost, or      *)
(* arrives twice.  A fault of the link counts as one.                      *)
Fates(pair) ==
  IF pair \in severed THEN {<<>>}
  ELSE {<<d>> : d \in Latencies} \cup
       (IF faults < MaxFaults THEN {<<>>} \cup {<<d, e>> : d, e \in Latencies} ELSE {})

AnyFate == {<<>>} \cup {<<d>> : d \in Latencies} \cup {<<d, e>> : d, e \in Latencies}

(* What is lost of a request nobody waits for any more is not counted. *)
AllSettled == {r \in Sent : outcome[r] # "pending"}
Lost(rs) == vanished \cup (rs \ AllSettled)

Carry(rest, kind, r, pair, fate) ==
  /\ flight' = rest \o [i \in 1..Len(fate) |-> [kind |-> kind, req |-> r, at |-> fate[i]]]
  /\ faults' = IF Len(fate) = 1 \/ pair \in severed THEN faults ELSE faults + 1
  /\ vanished' = IF fate = <<>> THEN Lost({r}) ELSE vanished
  /\ severed' = severed

Arrived == {i \in DOMAIN flight : flight[i].at = 0}
First(i) == i \in Arrived /\ \A j \in Arrived : i <= j

(* The scheduler hands out everything that is due before it picks a task. *)
NothingDue == Arrived = {}

-----------------------------------------------------------------------------
(* A client: open_box, send_request, await_box, close_box, settle_request *)

Send(c, n, kind, fate) ==
  LET r == Len(asker) + 1 IN
  /\ NothingDue /\ nodeUp[c] /\ client[c] = Idle
  /\ r \in Requests
  /\ asker' = Append(asker, c) /\ target' = Append(target, n)
  /\ outcome' = Append(outcome, "pending")
  /\ client' = [client EXCEPT ![c] = [is |-> "blocked", req |-> r, left |-> Timeout]]
  /\ fate \in Fates({c, n})
  /\ kind \in RequestKinds
  /\ Carry(flight, kind, r, {c, n}, fate)
  /\ UNCHANGED <<nodeUp, got, serverVars, laterVars>>

(* The mailbox is closed and the request settled: what is in it is gone.   *)
Settle(c, how) ==
  LET r == client[c].req IN
  /\ outcome' = [outcome EXCEPT ![r] = how]
  /\ client' = [client EXCEPT ![c] = Idle]
  /\ got' = [got EXCEPT ![r] = <<>>]
  /\ vanished' = vanished \ {r}
  /\ UNCHANGED <<nodeUp, asker, target, serverVars, laterVars, severed, flight, faults>>

Woken(c) == NothingDue /\ client[c].is = "ready"

TakeAnswer(c) ==
  /\ Woken(c) /\ got[client[c].req] # <<>>
  /\ Settle(c, Head(got[client[c].req]))

(* A bug: now > until. *)
GiveUpLater(c) ==
  /\ Woken(c) /\ got[client[c].req] = <<>> /\ client[c].left < 0
  /\ Settle(c, "timeout")

GiveUp(c) ==
  /\ Woken(c) /\ got[client[c].req] = <<>> /\ client[c].left = 0
  /\ Settle(c, "timeout")

-----------------------------------------------------------------------------
(* A server: listen, next_request, serve_wait, work, shutdown *)

Listening(l) == listener[host[l]] = l

(* Every worker of l waiting on its queue may run again. *)
WokenWorkers(l) ==
  [w \in Workers |-> IF worker[l][w].is = "blocked"
                     THEN [worker[l][w] EXCEPT !.is = "ready"] ELSE worker[l][w]]

Serve(n) ==
  LET l == Len(host) + 1 IN
  /\ NothingDue /\ program[n] \in {"new", "free"} /\ listener[n] = 0 /\ l \in Serves
  /\ listener' = [listener EXCEPT ![n] = l]
  /\ host' = Append(host, n) /\ queue' = Append(queue, <<>>)
  /\ worker' = [worker EXCEPT ![l] = [w \in Workers |-> [is |-> "ready", req |-> 0]]]
  /\ program' = [program EXCEPT ![n] = "blocked"]
  /\ UNCHANGED <<nodeUp, clientVars, laterVars, netVars>>

ServeReturns(n) ==
  /\ NothingDue /\ program[n] = "ready"
  /\ program' = [program EXCEPT ![n] = "free"]
  /\ UNCHANGED <<nodeUp, clientVars, listener, queue, host, worker, laterVars, netVars>>

Ready(l, w) == NothingDue /\ worker[l][w].is = "ready"
Goes(l, w, to) ==
  /\ worker' = [worker EXCEPT ![l][w] = to]
  /\ UNCHANGED <<nodeUp, clientVars, listener, program, host>>

NextRequest(l, w) ==
  /\ Ready(l, w) /\ queue[l] # <<>>
  /\ Goes(l, w, [is |-> "handling", req |-> Head(queue[l])])
  /\ queue' = [queue EXCEPT ![l] = Tail(@)]
  /\ UNCHANGED <<laterVars, netVars>>

Wait(l, w) ==
  /\ Ready(l, w) /\ queue[l] = <<>> /\ Listening(l)
  /\ Goes(l, w, [is |-> "blocked", req |-> 0])
  /\ UNCHANGED <<queue, laterVars, netVars>>

(* A bug: a worker ends with its server, whatever is queued. *)
EndWorkAtOnce(l, w) ==
  /\ Ready(l, w) /\ ~Listening(l)
  /\ Goes(l, w, [is |-> "done", req |-> 0])
  /\ queue' = [queue EXCEPT ![l] = <<>>]
  /\ UNCHANGED <<laterVars, netVars>>

EndWork(l, w) ==
  /\ Ready(l, w) /\ queue[l] = <<>> /\ ~Listening(l)
  /\ Goes(l, w, [is |-> "done", req |-> 0])
  /\ UNCHANGED <<queue, laterVars, netVars>>

(* What a handler does may take any time.  bound: it holds its ticket once. *)
InHandler(l, w) == NothingDue /\ worker[l][w].is \in {"handling", "holding"}

Answer(l, w, fate) ==
  LET r == worker[l][w].req IN
  /\ InHandler(l, w)
  /\ Goes(l, w, [is |-> "ready", req |-> 0])
  /\ fate \in Fates(Link(r))
  /\ Carry(flight, "answer", r, Link(r), fate)
  /\ UNCHANGED <<queue, laterVars>>

Hold(l, w) ==
  LET r == worker[l][w].req  n == host[l] IN
  /\ InHandler(l, w) /\ worker[l][w].is = "handling"
  /\ Goes(l, w, [is |-> "holding", req |-> r])
  /\ held' = [held EXCEPT ![n] = Append(@, r)]
  /\ UNCHANGED <<queue, parked, netVars>>

Park(l, w) ==
  LET r == worker[l][w].req IN
  /\ InHandler(l, w)
  /\ Goes(l, w, [is |-> "ready", req |-> 0])
  /\ parked' = [parked EXCEPT ![r] = host[l]]
  /\ UNCHANGED <<queue, held, netVars>>

(* Any task may answer a ticket, of its node or of another. *)
Respond(r, fate) ==
  /\ NothingDue /\ parked[r] # "none"
  /\ parked' = [parked EXCEPT ![r] = "none"]
  /\ fate \in Fates(Link(r))
  /\ Carry(flight, "answer", r, Link(r), fate)
  /\ UNCHANGED <<nodeUp, clientVars, serverVars, held>>

(* The topic's tickets, answered one after another without a pause, each   *)
(* as by Respond: its answer has a fate of its own.  Those that are not    *)
(* parked, or not any more, are passed over.  A place is a ticket's in the *)
(* list and one of the copies of its answer.                               *)
Precedes(p, q) == p[1] < q[1] \/ (p[1] = q[1] /\ p[2] < q[2])
InOrder(places) ==
  {s \in [1..Cardinality(places) -> places] :
     \A j, k \in DOMAIN s : j < k => Precedes(s[j], s[k])}

Notify(n) ==
  LET first == {i \in DOMAIN held[n] : \A j \in 1..(i - 1) : held[n][j] # held[n][i]}
      there == {i \in first : parked[held[n][i]] # "none"}
  IN
  /\ NothingDue /\ nodeUp[n] /\ held[n] # <<>>
  /\ held' = [held EXCEPT ![n] = <<>>]
  /\ parked' = [r \in Requests |-> IF Contains(held[n], r) THEN "none" ELSE parked[r]]
  /\ \E fate \in [there -> AnyFate] :
       LET faulted == {i \in there : Len(fate[i]) # 1 /\ Link(held[n][i]) \notin severed}
           places == UNION {{i} \X DOMAIN fate[i] : i \in there}
       IN
       /\ \A i \in there : fate[i] \in Fates(Link(held[n][i]))
       /\ faults' = faults + Cardinality(faulted) /\ faults' <= MaxFaults
       /\ \E s \in InOrder(places) :
            flight' = flight \o
              [k \in DOMAIN s |-> [kind |-> "answer", req |-> held[n][s[k][1]],
                                  at |-> fate[s[k][1]][s[k][2]]]]
       /\ vanished' = Lost({held[n][i] : i \in {j \in there : fate[j] = <<>>}})
  /\ UNCHANGED <<nodeUp, clientVars, serverVars, severed>>

(* A bug: the workers are not told. *)
ShutdownUnheard(n) ==
  /\ NothingDue /\ nodeUp[n] /\ listener[n] # 0
  /\ listener' = [listener EXCEPT ![n] = 0]
  /\ program' = [program EXCEPT ![n] = "ready"]
  /\ UNCHANGED <<nodeUp, clientVars, queue, host, worker, laterVars, netVars>>

Shutdown(n) ==
  LET l == listener[n] IN
  /\ NothingDue /\ nodeUp[n] /\ l # 0
  /\ listener' = [listener EXCEPT ![n] = 0]
  /\ worker' = [worker EXCEPT ![l] = WokenWorkers(l)]
  /\ program' = [program EXCEPT ![n] = "ready"]
  /\ UNCHANGED <<nodeUp, clientVars, queue, host, laterVars, netVars>>

-----------------------------------------------------------------------------
(* deliver: what becomes of a message whose time has come *)

Arrives(r, n) == Link(r) \notin severed /\ nodeUp[n]

(* Cut by a partition that began meanwhile, or its node is down. *)
DeliverNowhere(i) ==
  LET m == flight[i]
      n == IF m.kind \in RequestKinds THEN target[m.req] ELSE asker[m.req] IN
  /\ First(i) /\ ~Arrives(m.req, n)
  /\ flight' = RemoveAt(flight, i)
  /\ vanished' = Lost({m.req})
  /\ UNCHANGED <<nodeUp, clientVars, serverVars, laterVars, severed, faults>>

(* Nothing listens, the body is too large or the queue full: an answer     *)
(* goes back.                                                              *)
DeliverRefused(i, fate) ==
  LET r == flight[i].req  l == listener[target[r]]
      rejected == l # 0 /\ (flight[i].kind = "oversized" \/ Len(queue[l]) >= Capacity)
  IN
  /\ First(i) /\ flight[i].kind \in RequestKinds /\ Arrives(r, target[r])
  /\ l = 0 \/ rejected
  /\ fate \in Fates(Link(r))
  /\ Carry(RemoveAt(flight, i), IF rejected THEN "rejected" ELSE "refused", r, Link(r), fate)
  /\ UNCHANGED <<nodeUp, clientVars, serverVars, laterVars>>

DeliverRequest(i) ==
  LET r == flight[i].req  l == listener[target[r]] IN
  /\ First(i) /\ flight[i].kind = "request" /\ Arrives(r, target[r])
  /\ l # 0 /\ Len(queue[l]) < Capacity
  /\ flight' = RemoveAt(flight, i)
  /\ queue' = [queue EXCEPT ![l] = Append(@, r)]
  /\ worker' = [worker EXCEPT ![l] = WokenWorkers(l)]
  /\ UNCHANGED <<nodeUp, clientVars, listener, program, host, laterVars, severed, faults, vanished>>

(* An answer is put in its mailbox; without one it is late. *)
DeliverAnswer(i) ==
  LET m == flight[i]  r == m.req  c == asker[r]
      awaited == client[c].req = r
  IN
  /\ First(i) /\ m.kind \in ReplyKinds /\ Arrives(r, c)
  /\ flight' = RemoveAt(flight, i)
  /\ got' = IF awaited THEN [got EXCEPT ![r] = Append(@, m.kind)] ELSE got
  /\ client' = IF awaited THEN [client EXCEPT ![c].is = "ready"] ELSE client
  /\ UNCHANGED <<nodeUp, asker, target, outcome, serverVars, laterVars, severed, faults, vanished>>

-----------------------------------------------------------------------------
(* What the world does: the clock, partitions, nodes that stop and restart *)

SomeoneRuns ==
  \/ \E c \in Askers : client[c].is = "ready"
  \/ \E n \in Servers : program[n] = "ready"
  \/ \E l \in Serves, w \in Workers : worker[l][w].is = "ready"

Asking == {c \in Askers : client[c].is = "blocked"}
Timers == {flight[i].at : i \in DOMAIN flight} \cup {client[c].left : c \in Asking}

ClockAdvances(d) ==
  /\ NothingDue /\ ~SomeoneRuns
  /\ d \in Timers /\ \A e \in Timers : d <= e
  /\ flight' = [i \in DOMAIN flight |-> [flight[i] EXCEPT !.at = @ - d]]
  /\ client' = [c \in Askers |->
       IF c \notin Asking THEN client[c]
       ELSE [client[c] EXCEPT !.left = @ - d, !.is = IF client[c].left = d THEN "ready" ELSE @]]
  /\ UNCHANGED <<nodeUp, asker, target, outcome, got, serverVars, laterVars>>
  /\ UNCHANGED <<severed, faults, vanished>>

Fault == NothingDue /\ faults < MaxFaults /\ faults' = faults + 1

Partition(c, n) ==
  /\ Fault /\ {c, n} \notin severed
  /\ severed' = severed \cup {{c, n}}
  /\ UNCHANGED <<nodeUp, clientVars, serverVars, laterVars, flight, vanished>>

Heal ==
  /\ NothingDue /\ severed # {}
  /\ severed' = {}
  /\ UNCHANGED <<nodeUp, clientVars, serverVars, laterVars, flight, faults, vanished>>

(* The node's tasks unwind (SimWorld); its listener and the queue, what it *)
(* deferred and held go with it (drop_listeners).                          *)
StopNode(n) ==
  LET mine == {l \in DOMAIN host : host[l] = n}
      queued == UNION {ToSet(queue[l]) : l \in mine}
      busy == {worker[l][w].req : l \in mine, w \in Workers} \ {0}
  IN
  /\ nodeUp[n]
  /\ nodeUp' = [nodeUp EXCEPT ![n] = FALSE]
  /\ listener' = [listener EXCEPT ![n] = 0]
  /\ program' = [program EXCEPT ![n] = "down"]
  /\ queue' = [l \in DOMAIN queue |-> IF l \in mine THEN <<>> ELSE queue[l]]
  /\ worker' = [l \in Serves |->
                 IF l \in mine THEN [w \in Workers |-> [is |-> "done", req |-> 0]]
                               ELSE worker[l]]
  /\ parked' = [r \in Requests |-> IF parked[r] = n THEN "none" ELSE parked[r]]
  /\ held' = [held EXCEPT ![n] = <<>>]
  /\ vanished' = Lost(queued \cup busy \cup {r \in Requests : parked[r] = n})
  /\ UNCHANGED <<clientVars, host, severed, flight>>

CrashServer(n) == Fault /\ StopNode(n)

(* bound: a program serves once before it returns. *)
ProgramEnds(n) == NothingDue /\ program[n] = "free" /\ StopNode(n) /\ faults' = faults

RestartServer(n) ==
  /\ NothingDue /\ ~nodeUp[n] /\ Len(host) < MaxServes
  /\ nodeUp' = [nodeUp EXCEPT ![n] = TRUE]
  /\ program' = [program EXCEPT ![n] = "new"]
  /\ UNCHANGED <<clientVars, listener, queue, host, worker, laterVars, netVars>>

(* A client's node stops: as its task unwinds its mailbox is closed. *)
CrashClient(c) ==
  /\ Fault /\ nodeUp[c] /\ client[c].req # 0
  /\ nodeUp' = [nodeUp EXCEPT ![c] = FALSE]
  /\ got' = [got EXCEPT ![client[c].req] = <<>>]
  /\ client' = [client EXCEPT ![c] = Idle]
  /\ UNCHANGED <<asker, target, outcome, serverVars, laterVars, severed, flight, vanished>>

-----------------------------------------------------------------------------
ClientSteps ==
  \E c \in Askers :
    \/ TakeAnswer(c) \/ GiveUp(c) \/ CrashClient(c)
    \/ \E n \in Servers :
         \/ Partition(c, n)
         \/ \E kind \in RequestKinds, fate \in AnyFate : Send(c, n, kind, fate)

ServerSteps ==
  \/ \E n \in Servers :
       \/ Serve(n) \/ ServeReturns(n) \/ Shutdown(n) \/ Notify(n)
       \/ CrashServer(n) \/ ProgramEnds(n) \/ RestartServer(n)
  \/ \E l \in DOMAIN host, w \in Workers :
       \/ NextRequest(l, w) \/ Wait(l, w) \/ EndWork(l, w) \/ Hold(l, w) \/ Park(l, w)
       \/ \E fate \in AnyFate : Answer(l, w, fate)
  \/ \E r \in Requests, fate \in AnyFate : Respond(r, fate)

NetworkSteps ==
  \/ Heal
  \/ \E d \in Timers : ClockAdvances(d)
  \/ \E i \in Arrived :
       \/ DeliverNowhere(i) \/ DeliverRequest(i) \/ DeliverAnswer(i)
       \/ \E fate \in AnyFate : DeliverRefused(i, fate)

WireNext == ClientSteps \/ ServerSteps \/ NetworkSteps

WireSpec == WireInit /\ [][WireNext]_wireVars

(* The baton is always with some task or with the scheduler, and runs on. *)
WireFairSpec == WireSpec /\ WF_wireVars(WireNext)

-----------------------------------------------------------------------------
TaskStates == {"none", "ready", "blocked", "handling", "holding", "done"}

WireTypeOK ==
  /\ nodeUp \in [Askers \cup Servers -> BOOLEAN]
  /\ severed \subseteq {{c, n} : c \in Askers, n \in Servers}
  /\ flight \in Seq([kind : MessageKinds, req : Sent, at : Nat])
  /\ asker \in Seq(Askers) /\ target \in Seq(Servers)
  /\ outcome \in Seq({"pending", "timeout"} \cup ReplyKinds)
  /\ Len(asker) <= MaxRequests /\ Len(target) = Len(asker) /\ Len(outcome) = Len(asker)
  /\ got \in [Requests -> Seq(ReplyKinds)]
  /\ client \in [Askers -> [is : {"idle", "ready", "blocked"}, req : {0} \cup Sent,
                             left : 0..Timeout]]
  /\ listener \in [Servers -> 0..Len(host)]
  /\ program \in [Servers -> {"new", "free", "ready", "blocked", "down"}]
  /\ host \in Seq(Servers) /\ Len(host) <= MaxServes
  /\ queue \in Seq(Seq(Sent)) /\ Len(queue) = Len(host)
  /\ worker \in [Serves -> [Workers -> [is : TaskStates, req : {0} \cup Sent]]]
  /\ parked \in [Requests -> Servers \cup {"none"}]
  /\ held \in [Servers -> Seq(Sent)]
  /\ faults \in 0..MaxFaults /\ vanished \subseteq Sent

(* Every wait is for something that is still to come: a worker's queue is  *)
(* empty and its server listens, http.serve's server listens, and a        *)
(* client has neither an answer nor used up its time.  A queue that is not *)
(* empty has a worker that will look at it.                                *)
NoWaitIsLost ==
  /\ \A l \in DOMAIN host :
       /\ \A w \in Workers : worker[l][w].is = "blocked" => queue[l] = <<>> /\ Listening(l)
       /\ queue[l] # <<>> => \E w \in Workers : worker[l][w].is \in {"ready", "handling", "holding"}
  /\ \A n \in Servers : program[n] = "blocked" => listener[n] # 0
  /\ \A c \in Asking : got[client[c].req] = <<>> /\ client[c].left > 0

Somewhere(r) ==
  \/ \E i \in DOMAIN flight : flight[i].req = r
  \/ \E l \in DOMAIN host :
       Contains(queue[l], r) \/ \E w \in Workers : worker[l][w].req = r
  \/ parked[r] # "none" \/ got[r] # <<>>

(* A request whose client still waits is on its way, with a server that    *)
(* has not answered it, or answered; otherwise the network lost a message  *)
(* of it or its server's process ended.  Nothing else loses one: not a     *)
(* shutdown that meets a queue, a duplicate, nor a ticket in two tables.   *)
NoneVanishes ==
  \A r \in Sent : outcome[r] = "pending" /\ nodeUp[asker[r]] => r \in vanished \/ Somewhere(r)

(* What a process deferred or held ends with it: a restarted node has no   *)
(* ticket of the process before it, whose clients it cannot know.          *)
TicketsAreTheProcess ==
  \A n \in Servers : program[n] \in {"down", "new"} =>
    held[n] = <<>> /\ \A r \in Requests : parked[r] # n

(* Both: a request that waits has a place, and its place is in a process   *)
(* that runs.                                                              *)
RequestsKeepTheirPlace == NoneVanishes /\ TicketsAreTheProcess

(* Whatever the network and the server do, a request ends: with an answer, *)
(* a refusal or a timeout, as long as its client's node runs.              *)
EveryRequestEnds ==
  \A r \in Requests :
    (r \in Sent /\ outcome[r] = "pending") ~>
      (r \in Sent /\ (outcome[r] # "pending" \/ ~nodeUp[asker[r]]))

(* http.shutdown: "what is queued is still answered" (wire.rs, shutdown):  *)
(* a queued request leaves the queue for a worker, unless its node is      *)
(* crashed or killed.                                                      *)
QueuedIsTaken ==
  [][\A l \in DOMAIN host : \A r \in ToSet(queue[l]) :
       Contains(queue'[l], r) \/ (\E w \in Workers : worker'[l][w].req = r)
       \/ faults' > faults]_wireVars

=============================================================================
