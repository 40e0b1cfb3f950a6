-------------------------- MODULE HttpServeProofs --------------------------
(***************************************************************************)
(* Proofs about HttpServe, for every number of servers, workers,           *)
(* connections and requests: types, that a connection has one owner, and   *)
(* that a request is answered once.                                        *)
(***************************************************************************)
EXTENDS HttpServe, FiniteSetTheorems, TLAPS

Live == opened \ closed
At(s) == 1..Len(queue[s])

(* Whoever has a connection has one that is open. *)
OwnersLive ==
  /\ closed \subseteq opened
  /\ \A s \in Servers : backlog[s] \subseteq Live
  /\ \A s \in Servers : \A i \in At(s) : queue[s][i] \in Live
  /\ \A w \in Workers : holding[w] \in Live \cup {NoConn}
  /\ \A tk \in deferred : tk[1] \in Live

(* No two have the same one. *)
BacklogApart ==
  /\ \A s, r \in Servers : s # r => backlog[s] \cap backlog[r] = {}
  /\ \A s, r \in Servers : \A i \in At(s) : queue[s][i] \notin backlog[r]
  /\ \A w \in Workers, s \in Servers : holding[w] \notin backlog[s]
  /\ \A tk \in deferred, s \in Servers : tk[1] \notin backlog[s]
QueueApart ==
  /\ \A s, r \in Servers : \A i \in At(s), j \in At(r) :
       queue[s][i] = queue[r][j] => s = r /\ i = j
  /\ \A w \in Workers, s \in Servers : \A i \in At(s) : queue[s][i] # holding[w]
  /\ \A tk \in deferred, s \in Servers : \A i \in At(s) : queue[s][i] # tk[1]
HandsApart ==
  /\ \A w, v \in Workers : holding[w] = holding[v] /\ holding[w] # NoConn => w = v
  /\ \A tk \in deferred, w \in Workers : tk[1] # holding[w]
  /\ \A tk, uk \in deferred : tk[1] = uk[1] => tk = uk

(* Every open connection is somebody's. *)
SomeOwner ==
  \A c \in Live :
    \/ \E s \in Servers : c \in backlog[s]
    \/ \E s \in Servers : \E i \in At(s) : queue[s][i] = c
    \/ \E w \in Workers : holding[w] = c
    \/ \E tk \in deferred : tk[1] = c

(* What a worker is doing agrees with what it holds. *)
Hands ==
  \A w \in Workers :
    /\ worker[w] \in {"top", "reading", "handling"} <=> holding[w] # NoConn
    /\ worker[w] = "reading" => reads[holding[w]] < MaxRequests
    /\ server[w[1]] = "off" => worker[w] = "off"

(* A request read is answered, or pending in a handler or in the table. *)
Pending(c) ==
  \/ \E w \in Workers : worker[w] = "handling" /\ holding[w] = c
  \/ \E tk \in deferred : tk[1] = c
Counted ==
  \A c \in Conns : reads[c] = answers[c] + (IF Pending(c) THEN 1 ELSE 0)

Custody ==
  /\ TypeOK /\ OwnersLive /\ BacklogApart /\ QueueApart /\ HandsApart
  /\ SomeOwner /\ Hands /\ Counted

LEMMA CustodyInit == Init => Custody
<1> SUFFICES ASSUME Init PROVE Custody
  OBVIOUS
<1>1. <<>> \in Seq(Conns) /\ Len(<<>>) = 0
  OBVIOUS
<1>2. \A s \in Servers : At(s) = {}
  BY <1>1 DEF Init, At
<1>3. TypeOK
  <2>1. /\ server \in [Servers -> {"off"}] /\ backlog \in [Servers -> SUBSET Conns]
        /\ queue \in [Servers -> Seq(Conns)]
    BY <1>1 DEF Init
  <2>2. /\ worker \in [Workers -> {"off"}] /\ holding \in [Workers -> {NoConn}]
        /\ keep \in [Workers -> BOOLEAN]
    BY DEF Init
  <2>3. 0 \in 0..MaxRequests
    BY RequestsAssumption
  <2>4. reads \in [Conns -> 0..MaxRequests] /\ answers \in [Conns -> 0..MaxRequests]
    BY <2>3 DEF Init
  <2>5. held \in [Topics -> SUBSET Tickets] /\ answering \in [Notifiers -> SUBSET Tickets]
    BY DEF Init
  <2> QED
    BY <2>1, <2>2, <2>4, <2>5 DEF Init, TypeOK
<1>4. OwnersLive /\ BacklogApart /\ QueueApart /\ HandsApart
  BY <1>2, ConnsAssumption
     DEF Init, OwnersLive, BacklogApart, QueueApart, HandsApart
<1>5. SomeOwner /\ Hands /\ Counted
  BY <1>2 DEF Init, Live, SomeOwner, Hands, Counted, Pending, Workers
<1> QED
  BY <1>3, <1>4, <1>5 DEF Custody

(* A step that moves no connection and no request. *)
LEMMA Quiet ==
  ASSUME Custody, TypeOK',
         UNCHANGED <<backlog, queue, worker, holding, reads, answers, deferred,
                     opened, closed>>,
         \A s \in Servers : server'[s] = "off" => server[s] = "off"
  PROVE  Custody'
<1> USE DEF Custody, Live, At
<1>1. OwnersLive'
  BY DEF OwnersLive
<1>2. BacklogApart'
  BY DEF BacklogApart
<1>3. QueueApart'
  BY DEF QueueApart
<1>4. HandsApart'
  BY DEF HandsApart
<1>5. SomeOwner'
  BY DEF SomeOwner
<1>6. Hands'
  BY DEF Hands, Workers
<1>7. Counted'
  BY DEF Counted, Pending
<1> QED
  BY <1>1, <1>2, <1>3, <1>4, <1>5, <1>6, <1>7

LEMMA StartKeeps ==
  ASSUME Custody, NEW s \in Servers, Start(s)
  PROVE  Custody'
<1> USE DEF Custody, Live, At, Start, Phase, tableVars, history
<1>1. TypeOK'
  BY DEF TypeOK, Workers
<1>2. \A w \in Pool(s) : w \in Workers /\ worker[w] = "off" /\ holding[w] = NoConn
  BY DEF Hands, TypeOK, Workers, Pool
<1>3. OwnersLive'
  BY DEF OwnersLive
<1>4. BacklogApart'
  BY DEF BacklogApart
<1>5. QueueApart'
  BY DEF QueueApart
<1>6. HandsApart'
  BY DEF HandsApart
<1>7. SomeOwner'
  BY DEF SomeOwner
<1>8. Hands'
  <2> SUFFICES ASSUME NEW w \in Workers
               PROVE  /\ worker'[w] \in {"top", "reading", "handling"} <=> holding'[w] # NoConn
                      /\ worker'[w] = "reading" => reads'[holding'[w]] < MaxRequests
                      /\ server'[w[1]] = "off" => worker'[w] = "off"
    BY DEF Hands
  <2>1. CASE w \in Pool(s)
    BY <1>2, <2>1 DEF TypeOK, Pool
  <2>2. CASE w \notin Pool(s)
    BY <2>2 DEF Hands, TypeOK, Workers, Pool
  <2> QED
    BY <2>1, <2>2
<1>9. Counted'
  <2>1. \A w \in Workers : worker'[w] = "handling" <=> worker[w] = "handling"
    BY <1>2 DEF TypeOK
  <2>2. \A c \in Conns : Pending(c)' <=> Pending(c)
    BY <2>1 DEF Pending
  <2> QED
    BY <2>2 DEF Counted
<1> QED
  BY <1>1, <1>3, <1>4, <1>5, <1>6, <1>7, <1>8, <1>9

LEMMA ConnectKeeps ==
  ASSUME Custody, NEW s \in Servers, NEW c \in Conns, Connect(s, c)
  PROVE  Custody'
<1> USE DEF Custody, Live, At, Connect, workerVars, tableVars, history
<1>1. TypeOK'
  BY DEF TypeOK
<1>2. /\ \A r \in Servers : c \notin backlog[r]
      /\ \A r \in Servers : \A i \in At(r) : queue[r][i] # c
      /\ \A w \in Workers : holding[w] # c
      /\ \A tk \in deferred : tk[1] # c
  BY ConnsAssumption DEF OwnersLive
<1>3. backlog' = [backlog EXCEPT ![s] = backlog[s] \cup {c}] /\ backlog \in [Servers -> SUBSET Conns]
  BY DEF TypeOK
<1>4. OwnersLive'
  <2>1. c \notin closed /\ closed \subseteq opened
    BY DEF OwnersLive
  <2> QED
    BY <1>3, <2>1 DEF OwnersLive
<1>5. BacklogApart'
  BY <1>2, <1>3 DEF BacklogApart
<1>6. QueueApart'
  BY DEF QueueApart
<1>7. HandsApart'
  BY DEF HandsApart
<1>8. SomeOwner'
  BY <1>3 DEF SomeOwner
<1>9. Hands'
  BY DEF Hands
<1>10. Counted'
  BY DEF Counted, Pending
<1> QED
  BY <1>1, <1>4, <1>5, <1>6, <1>7, <1>8, <1>9, <1>10

LEMMA AcceptKeeps ==
  ASSUME Custody, NEW s \in Servers, NEW c \in Conns, Accept(s, c)
  PROVE  Custody'
<1> USE DEF Custody, Live, Accept, Leave, Phase, workerVars, tableVars, history
<1>1. /\ backlog' = [backlog EXCEPT ![s] = backlog[s] \ {c}]
      /\ backlog \in [Servers -> SUBSET Conns] /\ queue \in [Servers -> Seq(Conns)]
      /\ c \in backlog[s] /\ c \in Live
  BY DEF TypeOK, OwnersLive
<1>2. TypeOK'
  <2>1. server' \in [Servers -> {"off", "starting", "accepting", "polling",
                                "draining", "returned"}]
    BY DEF TypeOK
  <2>2. backlog' \in [Servers -> SUBSET Conns] /\ closed' \subseteq Conns
    BY <1>1 DEF TypeOK
  <2>3. queue' \in [Servers -> Seq(Conns)]
    <3>1. Append(queue[s], c) \in Seq(Conns)
      BY <1>1
    <3> QED
      BY <1>1, <3>1
  <2> QED
    BY <2>1, <2>2, <2>3 DEF TypeOK
<1>3. /\ \A r \in Servers : r # s => c \notin backlog[r]
      /\ \A r \in Servers : \A i \in At(r) : queue[r][i] # c
      /\ \A w \in Workers : holding[w] # c
      /\ \A tk \in deferred : tk[1] # c
  BY <1>1 DEF BacklogApart
<1>4. Hands'
  BY DEF Hands, TypeOK, Workers
<1>5. Counted'
  BY DEF Counted, Pending
<1>6. HandsApart'
  BY DEF HandsApart
<1>7. CASE Len(queue[s]) < QueueCap
  <2>1. queue' = [queue EXCEPT ![s] = Append(queue[s], c)] /\ closed' = closed
    BY <1>7
  <2>2. /\ \A r \in Servers : r # s => queue'[r] = queue[r]
        /\ queue'[s] = Append(queue[s], c)
    BY <1>1, <2>1
  <2>3. /\ Len(queue'[s]) = Len(queue[s]) + 1 /\ Len(queue[s]) \in Nat
        /\ queue'[s][Len(queue[s]) + 1] = c
        /\ \A i \in 1..Len(queue[s]) : queue'[s][i] = queue[s][i]
    BY <1>1, <2>2
  <2>4. \A r \in Servers : \A i \in At(r)' :
          \/ i \in At(r) /\ queue'[r][i] = queue[r][i]
          \/ r = s /\ i = Len(queue[s]) + 1 /\ queue'[r][i] = c
    <3> HIDE DEF Custody, Live, Accept, Leave, Phase, workerVars, tableVars, history
    <3>1. ASSUME NEW r \in Servers, NEW i \in At(r)', r # s
          PROVE  i \in At(r) /\ queue'[r][i] = queue[r][i]
      BY <2>2, <3>1 DEF At
    <3>2. ASSUME NEW i \in At(s)'
          PROVE  \/ i \in At(s) /\ queue'[s][i] = queue[s][i]
                 \/ i = Len(queue[s]) + 1 /\ queue'[s][i] = c
      <4>1. i \in 1..(Len(queue[s]) + 1)
        BY <2>3 DEF At
      <4> QED
        BY <2>3, <4>1 DEF At
    <3> QED
      BY <3>1, <3>2
  <2>5. \A r \in Servers : \A i \in At(r) : i \in At(r)' /\ queue'[r][i] = queue[r][i]
    BY <2>2, <2>3 DEF At
  <2>6. Len(queue[s]) + 1 \in At(s)'
    BY <2>3 DEF At
  <2>7. OwnersLive'
    <3>1. Live' = Live
      BY <2>1
    <3>2. \A r \in Servers : backlog'[r] \subseteq Live'
      BY <1>1, <3>1 DEF OwnersLive
    <3>3. \A r \in Servers : \A i \in At(r)' : queue'[r][i] \in Live'
      <4>1. \A r \in Servers : \A i \in At(r) : queue[r][i] \in Live
        BY DEF OwnersLive
      <4> HIDE DEF Custody, Live, Accept, Leave, Phase, workerVars, tableVars, history
      <4> QED
        BY <1>1, <2>4, <3>1, <4>1
    <3> QED
      BY <2>1, <3>1, <3>2, <3>3 DEF OwnersLive
  <2>8. BacklogApart'
    <3>1. \A r \in Servers : backlog'[r] \subseteq backlog[r] /\ c \notin backlog'[r]
      BY <1>1, <1>3
    <3>2. \A r, q \in Servers : \A i \in At(r)' : queue'[r][i] \notin backlog'[q]
      <4> SUFFICES ASSUME NEW r \in Servers, NEW q \in Servers, NEW i \in At(r)'
                   PROVE  queue'[r][i] \notin backlog'[q]
        OBVIOUS
      <4>1. CASE i \in At(r) /\ queue'[r][i] = queue[r][i]
        BY <3>1, <4>1 DEF BacklogApart
      <4>2. CASE queue'[r][i] = c
        BY <3>1, <4>2
      <4> QED
        BY <2>4, <4>1, <4>2
    <3> QED
      BY <3>1, <3>2 DEF BacklogApart
  <2>9. QueueApart'
    BY <1>3, <2>4 DEF QueueApart
  <2>10. SomeOwner'
    <3> SUFFICES ASSUME NEW d \in Live'
                 PROVE  \/ \E r \in Servers : d \in backlog'[r]
                        \/ \E r \in Servers : \E i \in At(r)' : queue'[r][i] = d
                        \/ \E w \in Workers : holding[w] = d
                        \/ \E tk \in deferred : tk[1] = d
      BY DEF SomeOwner
    <3>1. CASE d = c
      BY <2>3, <2>6, <3>1
    <3>2. CASE d # c
      <4>1. \A r \in Servers : d \in backlog[r] => d \in backlog'[r]
        BY <1>1, <3>2
      <4>2. d \in Live
        BY <2>1
      <4> QED
        BY <2>5, <4>1, <4>2 DEF SomeOwner
    <3> QED
      BY <3>1, <3>2
  <2> QED
    BY <1>2, <1>4, <1>5, <1>6, <2>7, <2>8, <2>9, <2>10
<1>8. CASE ~(Len(queue[s]) < QueueCap)
  <2>1. queue' = queue /\ closed' = closed \cup {c}
    BY <1>8
  <2>2. OwnersLive'
    <3>1. \A r \in Servers : backlog'[r] \subseteq Live'
      BY <1>1, <1>3, <2>1 DEF OwnersLive
    <3>2. \A r \in Servers : \A i \in At(r)' : queue'[r][i] \in Live'
      BY <1>3, <2>1 DEF OwnersLive, At
    <3>3. \A w \in Workers : holding'[w] \in Live' \cup {NoConn}
      BY <1>3, <2>1 DEF OwnersLive
    <3>4. \A tk \in deferred' : tk[1] \in Live'
      BY <1>3, <2>1 DEF OwnersLive
    <3>5. closed' \subseteq opened'
      BY <1>1, <2>1 DEF OwnersLive
    <3> QED
      BY <3>1, <3>2, <3>3, <3>4, <3>5 DEF OwnersLive
  <2>3. BacklogApart'
    BY <1>1, <2>1 DEF BacklogApart, At
  <2>4. QueueApart'
    BY <2>1 DEF QueueApart, At
  <2>5. SomeOwner'
    BY <1>1, <2>1 DEF SomeOwner, At
  <2> QED
    BY <1>2, <1>4, <1>5, <1>6, <2>2, <2>3, <2>4, <2>5
<1> QED
  BY <1>7, <1>8

(* The listener's socket goes: what is in its backlog is closed. *)
LEMMA AbandonKeeps ==
  ASSUME Custody, NEW s \in Servers, Return(s) \/ Cut(s)
  PROVE  Custody'
<1> USE DEF Custody, Live, At, Return, Cut, Abandon, Phase, workerVars, tableVars, history
<1>1. /\ backlog' = [backlog EXCEPT ![s] = {}] /\ closed' = closed \cup backlog[s]
      /\ backlog \in [Servers -> SUBSET Conns]
      /\ UNCHANGED <<queue, worker, holding, reads, answers, deferred, opened>>
  BY DEF TypeOK
<1>2. TypeOK'
  BY <1>1 DEF TypeOK
<1>3. /\ \A r \in Servers : r # s => backlog[r] \cap backlog[s] = {}
      /\ \A r \in Servers : \A i \in At(r) : queue[r][i] \notin backlog[s]
      /\ \A w \in Workers : holding[w] \notin backlog[s]
      /\ \A tk \in deferred : tk[1] \notin backlog[s]
  BY DEF BacklogApart
<1>4. OwnersLive'
  <2>1. \A r \in Servers : backlog'[r] \subseteq Live'
    BY <1>1, <1>3 DEF OwnersLive
  <2>2. \A r \in Servers : \A i \in At(r)' : queue'[r][i] \in Live'
    BY <1>1, <1>3 DEF OwnersLive
  <2>3. \A w \in Workers : holding'[w] \in Live' \cup {NoConn}
    BY <1>1, <1>3 DEF OwnersLive
  <2>4. \A tk \in deferred' : tk[1] \in Live'
    BY <1>1, <1>3 DEF OwnersLive
  <2>5. closed' \subseteq opened'
    BY <1>1 DEF OwnersLive
  <2> QED
    BY <2>1, <2>2, <2>3, <2>4, <2>5 DEF OwnersLive
<1>5. BacklogApart'
  BY <1>1 DEF BacklogApart
<1>6. QueueApart'
  BY <1>1 DEF QueueApart
<1>7. HandsApart'
  BY <1>1 DEF HandsApart
<1>8. SomeOwner'
  BY <1>1 DEF SomeOwner
<1>9. Hands'
  BY <1>1 DEF Hands, TypeOK, Workers
<1>10. Counted'
  BY <1>1 DEF Counted, Pending
<1> QED
  BY <1>2, <1>4, <1>5, <1>6, <1>7, <1>8, <1>9, <1>10

LEMMA TakeConnKeeps ==
  ASSUME Custody, NEW w \in Workers, TakeConn(w)
  PROVE  Custody'
<1> USE DEF Custody, Live, TakeConn, tableVars, history
<1> DEFINE s == w[1]
           c == Head(queue[s])
<1>1. s \in Servers /\ queue[s] \in Seq(Conns) /\ queue[s] # <<>> /\ DOMAIN queue = Servers
  BY DEF Workers, TypeOK
<1>2. c \in Conns /\ Tail(queue[s]) \in Seq(Conns) /\ c = queue[s][1] /\ 1 \in At(s)
      /\ Len(queue[s]) \in Nat
  BY <1>1 DEF At
<1>3. /\ queue' = [queue EXCEPT ![s] = Tail(queue[s])]
      /\ holding' = [holding EXCEPT ![w] = c]
      /\ worker' = [worker EXCEPT ![w] = "top"] /\ worker[w] = "idle"
      /\ UNCHANGED <<shutdown, server, backlog, keep, reads, answers, closed, deferred,
                     held, answering, opened, issued, everHeld, asked, cut, overlooked>>
  OBVIOUS
<1> HIDE DEF s, c, TakeConn
<1>4. TypeOK'
  BY <1>1, <1>2, <1>3 DEF TypeOK
<1>5. holding[w] = NoConn /\ DOMAIN holding = Workers /\ DOMAIN worker = Workers
  BY <1>3 DEF Hands, TypeOK
<1>6. /\ \A r \in Servers : r # s => queue'[r] = queue[r]
      /\ Len(queue'[s]) = Len(queue[s]) - 1
      /\ \A i \in 1..Len(queue[s]) - 1 : queue'[s][i] = queue[s][i + 1]
  BY <1>1, <1>2, <1>3
<1>7. \A r \in Servers : \A i \in At(r)' :
        \/ r # s /\ i \in At(r) /\ queue'[r][i] = queue[r][i]
        \/ r = s /\ i + 1 \in At(s) /\ i \in Nat \ {0} /\ queue'[s][i] = queue[s][i + 1]
  BY <1>2, <1>6 DEF At
<1>8. \A v \in Workers : holding'[v] = IF v = w THEN c ELSE holding[v]
  BY <1>3, <1>5
<1>9. c \in Live /\ c # NoConn
  BY <1>1, <1>2, ConnsAssumption DEF OwnersLive
<1>10. \A r \in Servers : \A i \in At(r) : queue[r][i] = c => r = s /\ i = 1
  BY <1>1, <1>2 DEF QueueApart
<1>11. \A r \in Servers : \A i \in At(r)' : queue'[r][i] # c
  <2> SUFFICES ASSUME NEW r \in Servers, NEW i \in At(r)', queue'[r][i] = c
               PROVE  FALSE
    OBVIOUS
  <2>1. CASE r # s /\ i \in At(r) /\ queue'[r][i] = queue[r][i]
    BY <1>10, <2>1
  <2>2. CASE r = s /\ i + 1 \in At(s) /\ i \in Nat \ {0} /\ queue'[s][i] = queue[s][i + 1]
    <3>1. i + 1 = 1
      BY <1>1, <1>10, <2>2
    <3> QED
      BY <2>2, <3>1
  <2> QED
    BY <1>7, <2>1, <2>2
<1>12. \A r \in Servers : \A i \in At(r)' : \E j \in At(r) : queue'[r][i] = queue[r][j]
  BY <1>1, <1>7
<1>13. OwnersLive'
  <2>1. \A r \in Servers : \A i \in At(r)' : queue'[r][i] \in Live
    BY <1>12 DEF OwnersLive
  <2>2. \A v \in Workers : holding'[v] \in Live \cup {NoConn}
    BY <1>8, <1>9 DEF OwnersLive
  <2> QED
    BY <1>3, <2>1, <2>2 DEF OwnersLive
<1>14. BacklogApart'
  <2>1. \A r \in Servers : c \notin backlog[r]
    BY <1>1, <1>2 DEF BacklogApart
  <2>2. \A r, q \in Servers : \A i \in At(r)' : queue'[r][i] \notin backlog[q]
    BY <1>12 DEF BacklogApart
  <2>3. \A v \in Workers, r \in Servers : holding'[v] \notin backlog[r]
    BY <1>8, <2>1 DEF BacklogApart
  <2> QED
    BY <1>3, <2>2, <2>3 DEF BacklogApart
<1>15. QueueApart'
  <2>1. \A r, q \in Servers : \A i \in At(r)', j \in At(q)' :
           queue'[r][i] = queue'[q][j] => r = q /\ i = j
    <3> SUFFICES ASSUME NEW r \in Servers, NEW q \in Servers, NEW i \in At(r)',
                        NEW j \in At(q)', queue'[r][i] = queue'[q][j]
                 PROVE  r = q /\ i = j
      OBVIOUS
    <3> DEFINE k == IF r = s THEN i + 1 ELSE i
               l == IF q = s THEN j + 1 ELSE j
    <3>1. k \in At(r) /\ queue'[r][i] = queue[r][k]
      BY <1>1, <1>7
    <3>2. l \in At(q) /\ queue'[q][j] = queue[q][l]
      BY <1>1, <1>7
    <3>3. queue[r][k] = queue[q][l]
      BY <3>1, <3>2
    <3> HIDE DEF k, l
    <3>4. r = q /\ k = l
      BY <3>1, <3>2, <3>3 DEF QueueApart
    <3>5. i \in Int /\ j \in Int
      BY DEF At
    <3> QED
      BY <3>4, <3>5 DEF k, l
  <2>2. \A v \in Workers, r \in Servers : \A i \in At(r)' : queue'[r][i] # holding'[v]
    BY <1>8, <1>11, <1>12 DEF QueueApart
  <2>3. \A tk \in deferred, r \in Servers : \A i \in At(r)' : queue'[r][i] # tk[1]
    BY <1>12 DEF QueueApart
  <2>4. deferred' = deferred
    BY <1>3
  <2> QED
    BY <2>1, <2>2, <2>3, <2>4 DEF QueueApart
<1>16. HandsApart'
  <2>1. \A v \in Workers : holding[v] # c
    BY <1>1, <1>2 DEF QueueApart
  <2>2. \A tk \in deferred : tk[1] # c
    BY <1>1, <1>2 DEF QueueApart
  <2> QED
    BY <1>3, <1>8, <2>1, <2>2 DEF HandsApart
<1>17. SomeOwner'
  <2> SUFFICES ASSUME NEW d \in Live
               PROVE  \/ \E r \in Servers : d \in backlog'[r]
                      \/ \E r \in Servers : \E i \in At(r)' : queue'[r][i] = d
                      \/ \E v \in Workers : holding'[v] = d
                      \/ \E tk \in deferred' : tk[1] = d
    BY <1>3 DEF SomeOwner
  <2>1. CASE d = c
    BY <1>8, <2>1
  <2>2. CASE d # c /\ \E r \in Servers : \E i \in At(r) : queue[r][i] = d
    <3>1. PICK r \in Servers : \E i \in At(r) : queue[r][i] = d
      BY <2>2
    <3>2. PICK i \in At(r) : queue[r][i] = d
      BY <3>1
    <3>3. CASE r # s
      BY <1>6, <3>2, <3>3 DEF At
    <3>4. CASE r = s
      <4>1. i # 1 /\ i \in 1..Len(queue[s])
        BY <1>2, <2>2, <3>2, <3>4 DEF At
      <4>2. i - 1 \in 1..Len(queue[s]) - 1
        BY <1>2, <4>1
      <4>3. queue'[s][i - 1] = d /\ i - 1 \in At(s)'
        BY <1>2, <1>6, <3>2, <3>4, <4>1, <4>2 DEF At
      <4> QED
        BY <1>1, <4>3
    <3> QED
      BY <3>3, <3>4
  <2>3. CASE d # c /\ ~(\E r \in Servers : \E i \in At(r) : queue[r][i] = d)
    <3>1. \A v \in Workers : holding[v] = d => v # w
      BY <1>5, <1>9, ConnsAssumption, <2>3 DEF TypeOK
    <3> QED
      BY <1>3, <1>8, <2>3, <3>1 DEF SomeOwner
  <2> QED
    BY <2>1, <2>2, <2>3
<1>18. Hands'
  BY <1>3, <1>5, <1>8, <1>9 DEF Hands, TypeOK
<1>19. Counted'
  <2>1. \A v \in Workers, d \in Conns :
          worker'[v] = "handling" /\ holding'[v] = d <=> worker[v] = "handling" /\ holding[v] = d
    BY <1>3, <1>5, <1>8
  <2>2. \A d \in Conns : Pending(d)' <=> Pending(d)
    BY <1>3, <2>1 DEF Pending
  <2> QED
    BY <1>3, <2>2 DEF Counted
<1> QED
  BY <1>4, <1>13, <1>14, <1>15, <1>16, <1>17, <1>18, <1>19

(* A worker goes on with what it holds, if anything. *)
LEMMA GoingOnKeeps ==
  ASSUME Custody, TypeOK', Hands', Counted',
         UNCHANGED <<backlog, queue, holding, deferred, opened, closed>>
  PROVE  Custody'
<1> USE DEF Custody, Live, At
<1>1. OwnersLive'
  BY DEF OwnersLive
<1>2. BacklogApart'
  BY DEF BacklogApart
<1>3. QueueApart'
  BY DEF QueueApart
<1>4. HandsApart'
  BY DEF HandsApart
<1>5. SomeOwner'
  BY DEF SomeOwner
<1> QED
  BY <1>1, <1>2, <1>3, <1>4, <1>5

(* A worker lets go of a connection and closes it. *)
LEMMA DropKeeps ==
  ASSUME Custody, TypeOK', Counted', NEW w \in Workers,
         worker[w] \in {"top", "reading", "handling"},
         worker' = [worker EXCEPT ![w] = "idle"],
         holding' = [holding EXCEPT ![w] = NoConn],
         closed' = closed \cup {holding[w]},
         UNCHANGED <<server, backlog, queue, reads, deferred, opened>>
  PROVE  Custody'
<1> USE DEF Custody
<1> DEFINE c == holding[w]
<1>1. /\ c \in Live /\ c # NoConn /\ c \in Conns
      /\ DOMAIN holding = Workers /\ DOMAIN worker = Workers
  BY DEF Hands, OwnersLive, TypeOK
<1>2. \A v \in Workers : holding'[v] = IF v = w THEN NoConn ELSE holding[v]
  BY <1>1
<1>3. Live' = Live \ {c}
  BY DEF Live
<1>4. \A v \in Workers : v # w => holding[v] # c
  BY <1>1 DEF HandsApart
<1>5. OwnersLive'
  <2>1. \A s \in Servers : c \notin backlog[s]
    BY DEF BacklogApart
  <2>2. \A s \in Servers : \A i \in At(s) : queue[s][i] # c
    BY DEF QueueApart
  <2>3. \A tk \in deferred : tk[1] # c
    BY DEF HandsApart
  <2>4. closed' \subseteq opened
    BY <1>1 DEF OwnersLive, Live
  <2>5. \A v \in Workers : holding'[v] \in Live' \cup {NoConn}
    BY <1>2, <1>3, <1>4 DEF OwnersLive
  <2>6. \A s \in Servers : backlog[s] \subseteq Live'
    BY <1>3, <2>1 DEF OwnersLive
  <2>7. \A s \in Servers : \A i \in At(s) : queue[s][i] \in Live'
    BY <1>3, <2>2 DEF OwnersLive
  <2>8. \A tk \in deferred : tk[1] \in Live'
    BY <1>3, <2>3 DEF OwnersLive
  <2> QED
    BY <2>4, <2>5, <2>6, <2>7, <2>8 DEF OwnersLive, At
<1>6. BacklogApart'
  <2>1. \A s \in Servers : NoConn \notin backlog[s]
    BY ConnsAssumption DEF TypeOK
  <2> QED
    BY <1>2, <2>1 DEF BacklogApart, At
<1>7. QueueApart'
  <2>1. \A s \in Servers : \A i \in At(s) : queue[s][i] # NoConn
    BY ConnsAssumption DEF TypeOK, At
  <2>2. \A v \in Workers, s \in Servers : \A i \in At(s) : queue[s][i] # holding'[v]
    BY <1>2, <2>1 DEF QueueApart
  <2> QED
    BY <2>2 DEF QueueApart, At
<1>8. HandsApart'
  <2>1. \A tk \in deferred : tk[1] # NoConn
    BY ConnsAssumption DEF TypeOK, Tickets
  <2> QED
    BY <1>2, <2>1 DEF HandsApart
<1>9. SomeOwner'
  BY <1>2, <1>3 DEF SomeOwner, At
<1>10. Hands'
  BY <1>1, <1>2 DEF Hands
<1> QED
  BY <1>5, <1>6, <1>7, <1>8, <1>9, <1>10

(* What a worker handles is pending nowhere else. *)
LEMMA HandlingPends ==
  ASSUME Custody, NEW w \in Workers, worker[w] = "handling"
  PROVE  /\ holding[w] \in Conns
         /\ reads[holding[w]] = answers[holding[w]] + 1
         /\ \A v \in Workers : v # w => holding[v] # holding[w]
         /\ \A tk \in deferred : tk[1] # holding[w]
<1>1. holding[w] # NoConn /\ holding[w] \in Conns
  BY DEF Custody, Hands, TypeOK
<1>2. Pending(holding[w])
  BY DEF Pending
<1>3. reads[holding[w]] = answers[holding[w]] + 1
  BY <1>1, <1>2 DEF Custody, Counted
<1>4. \A v \in Workers : v # w => holding[v] # holding[w]
  BY <1>1 DEF Custody, HandsApart
<1> QED
  BY <1>1, <1>3, <1>4 DEF Custody, HandsApart

LEMMA WorkerKeeps ==
  ASSUME Custody, NEW w \in Workers, ExitWorker(w) \/ NextRequest(w) \/ NoRequest(w)
  PROVE  Custody'
<1> USE DEF serverVars, tableVars, history, Step, LetGo
<1>1. /\ worker \in [Workers -> {"off", "idle", "top", "reading", "handling", "exited"}]
      /\ holding \in [Workers -> Conns \cup {NoConn}] /\ DOMAIN worker = Workers
  BY DEF Custody, TypeOK
<1>2. TypeOK'
  <2>1. worker[w] \in {"top", "reading"} => holding[w] \in Conns
    BY <1>1 DEF Custody, Hands
  <2> QED
    BY <1>1, <2>1 DEF Custody, TypeOK, ExitWorker, NextRequest, NoRequest
<1>3. worker[w] # "handling"
  BY DEF ExitWorker, NextRequest, NoRequest
<1>4. \A v \in Workers, c \in Conns :
         worker'[v] = "handling" /\ holding'[v] = c
         <=> worker[v] = "handling" /\ holding[v] = c
  BY <1>1, <1>3 DEF ExitWorker, NextRequest, NoRequest
<1>5. Counted'
  <2>1. UNCHANGED <<reads, answers, deferred>>
    BY DEF ExitWorker, NextRequest, NoRequest
  <2>2. \A c \in Conns : Pending(c)' <=> Pending(c)
    BY <1>4, <2>1 DEF Pending
  <2> QED
    BY <2>1, <2>2 DEF Custody, Counted
<1>6. CASE ExitWorker(w)
  <2>1. Hands'
    BY <1>1, <1>6 DEF ExitWorker, Custody, Hands, Running
  <2> QED
    BY <1>2, <1>5, <1>6, <2>1, GoingOnKeeps DEF ExitWorker
<1>7. CASE NoRequest(w)
  BY <1>2, <1>5, <1>7, DropKeeps DEF NoRequest
<1>8. CASE NextRequest(w) /\ reads[holding[w]] > 0 /\ (shutdown \/ reads[holding[w]] = MaxRequests)
  BY <1>2, <1>5, <1>8, DropKeeps DEF NextRequest
<1>9. CASE NextRequest(w) /\ ~(reads[holding[w]] > 0 /\ (shutdown \/ reads[holding[w]] = MaxRequests))
  <2>1. holding[w] \in Conns
    BY <1>1, <1>9 DEF NextRequest, Custody, Hands
  <2>2. reads[holding[w]] < MaxRequests
    BY <1>9, <2>1, RequestsAssumption DEF Custody, TypeOK
  <2>3. Hands'
    BY <1>1, <1>9, <2>2 DEF NextRequest, Custody, Hands
  <2> QED
    BY <1>2, <1>5, <1>9, <2>3, GoingOnKeeps DEF NextRequest
<1> QED
  BY <1>6, <1>7, <1>8, <1>9

LEMMA ReadKeeps ==
  ASSUME Custody, NEW w \in Workers, ReadRequest(w)
  PROVE  Custody'
<1> DEFINE c == holding[w]
<1> USE DEF serverVars, tableVars, history
<1>1. /\ worker \in [Workers -> {"off", "idle", "top", "reading", "handling", "exited"}]
      /\ holding \in [Workers -> Conns \cup {NoConn}] /\ DOMAIN worker = Workers
      /\ reads \in [Conns -> 0..MaxRequests] /\ answers \in [Conns -> 0..MaxRequests]
  BY DEF Custody, TypeOK
<1>2. worker[w] = "reading" /\ c \in Conns /\ c # NoConn /\ reads[c] < MaxRequests
  BY <1>1 DEF ReadRequest, Custody, Hands
<1>3. /\ reads' = [reads EXCEPT ![c] = reads[c] + 1]
      /\ worker' = [worker EXCEPT ![w] = "handling"]
      /\ UNCHANGED <<serverVars, holding, answers, closed, tableVars, history>>
      /\ \E b \in BOOLEAN : keep' = [keep EXCEPT ![w] = b]
  BY DEF ReadRequest
<1>4. TypeOK'
  <2>1. reads[c] + 1 \in 0..MaxRequests
    BY <1>1, <1>2, RequestsAssumption
  <2> QED
    BY <1>1, <1>3, <2>1 DEF Custody, TypeOK
<1>5. /\ \A v \in Workers : v # w => holding[v] # c
      /\ \A tk \in deferred : tk[1] # c
  BY <1>2 DEF Custody, HandsApart
<1>6. Hands'
  BY <1>1, <1>2, <1>3, <1>5 DEF Custody, Hands, TypeOK
<1>7. Counted'
  <2> SUFFICES ASSUME NEW d \in Conns
               PROVE  reads'[d] = answers'[d] + (IF Pending(d)' THEN 1 ELSE 0)
    BY DEF Counted
  <2>1. CASE d = c
    <3>1. ~Pending(c)
      BY <1>2, <1>5 DEF Pending
    <3>2. Pending(c)'
      BY <1>1, <1>3 DEF Pending
    <3> QED
      BY <1>1, <1>2, <1>3, <2>1, <3>1, <3>2 DEF Custody, Counted
  <2>2. CASE d # c
    <3>1. Pending(d)' <=> Pending(d)
      BY <1>1, <1>3, <2>2 DEF Pending
    <3> QED
      BY <1>1, <1>2, <1>3, <2>2, <3>1 DEF Custody, Counted
  <2> QED
    BY <2>1, <2>2
<1> QED
  BY <1>3, <1>4, <1>6, <1>7, GoingOnKeeps

LEMMA AnswerKeeps ==
  ASSUME Custody, NEW w \in Workers, Answer(w)
  PROVE  Custody'
<1> DEFINE c == holding[w]
<1> USE DEF serverVars, tableVars, history, Step, LetGo
<1>1. /\ worker \in [Workers -> {"off", "idle", "top", "reading", "handling", "exited"}]
      /\ holding \in [Workers -> Conns \cup {NoConn}] /\ DOMAIN worker = Workers
      /\ reads \in [Conns -> 0..MaxRequests] /\ answers \in [Conns -> 0..MaxRequests]
  BY DEF Custody, TypeOK
<1>2. /\ worker[w] = "handling" /\ answers' = [answers EXCEPT ![c] = answers[c] + 1]
      /\ UNCHANGED <<shutdown, server, backlog, queue, opened, asked, cut, reads, deferred,
                     held, answering, issued, everHeld, overlooked>>
      /\ \/ /\ worker' = [worker EXCEPT ![w] = "top"]
            /\ UNCHANGED <<holding, keep, closed>>
         \/ /\ worker' = [worker EXCEPT ![w] = "idle"]
            /\ holding' = [holding EXCEPT ![w] = NoConn]
            /\ keep' = [keep EXCEPT ![w] = FALSE]
            /\ closed' = closed \cup {c}
  BY DEF Answer
<1>3. /\ c \in Conns /\ reads[c] = answers[c] + 1
      /\ \A v \in Workers : v # w => holding[v] # c
      /\ \A tk \in deferred : tk[1] # c
  BY <1>2, HandlingPends
<1>4. TypeOK'
  <2>1. answers[c] + 1 \in 0..MaxRequests
    BY <1>1, <1>3
  <2>2. answers' \in [Conns -> 0..MaxRequests]
    BY <1>1, <1>2, <2>1
  <2>3. /\ worker' \in [Workers -> {"off", "idle", "top", "reading", "handling", "exited"}]
        /\ holding' \in [Workers -> Conns \cup {NoConn}]
        /\ keep' \in [Workers -> BOOLEAN] /\ closed' \subseteq Conns
    BY <1>1, <1>2, <1>3 DEF Custody, TypeOK
  <2> QED
    BY <1>2, <2>2, <2>3 DEF Custody, TypeOK
<1>5. Counted'
  <2> SUFFICES ASSUME NEW d \in Conns
               PROVE  reads'[d] = answers'[d] + (IF Pending(d)' THEN 1 ELSE 0)
    BY DEF Counted
  <2>1. CASE d = c
    <3>1. ~Pending(d)'
      BY <1>1, <1>2, <1>3, <2>1 DEF Pending
    <3> QED
      BY <1>1, <1>2, <1>3, <2>1, <3>1
  <2>2. CASE d # c
    <3>1. \A v \in Workers : worker'[v] = "handling" /\ holding'[v] = d
                             <=> worker[v] = "handling" /\ holding[v] = d
      BY <1>1, <1>2, <1>3, <2>2, ConnsAssumption
    <3>2. Pending(d)' <=> Pending(d)
      BY <1>2, <3>1 DEF Pending
    <3> QED
      BY <1>1, <1>2, <2>2, <3>2 DEF Custody, Counted
  <2> QED
    BY <2>1, <2>2
<1>6. CASE worker' = [worker EXCEPT ![w] = "top"] /\ UNCHANGED <<holding, keep, closed>>
  <2>1. Hands'
    BY <1>1, <1>2, <1>6 DEF Custody, Hands
  <2> QED
    BY <1>2, <1>4, <1>5, <1>6, <2>1, GoingOnKeeps
<1>7. CASE /\ worker' = [worker EXCEPT ![w] = "idle"]
           /\ holding' = [holding EXCEPT ![w] = NoConn]
           /\ closed' = closed \cup {c}
  BY <1>2, <1>4, <1>5, <1>7, DropKeeps
<1> QED
  BY <1>2, <1>6, <1>7

LEMMA ParkKeeps ==
  ASSUME Custody, NEW w \in Workers, Park(w)
  PROVE  Custody'
<1> DEFINE c == holding[w]
           tk == <<c, reads[c]>>
<1>1. /\ worker \in [Workers -> {"off", "idle", "top", "reading", "handling", "exited"}]
      /\ holding \in [Workers -> Conns \cup {NoConn}] /\ DOMAIN worker = Workers
      /\ DOMAIN holding = Workers
      /\ reads \in [Conns -> 0..MaxRequests] /\ answers \in [Conns -> 0..MaxRequests]
  BY DEF Custody, TypeOK
<1>2. /\ worker[w] = "handling"
      /\ worker' = [worker EXCEPT ![w] = "idle"]
      /\ holding' = [holding EXCEPT ![w] = NoConn]
      /\ keep' = [keep EXCEPT ![w] = FALSE]
      /\ deferred' = deferred \cup {tk}
      /\ UNCHANGED <<shutdown, server, backlog, queue, opened, asked, cut, reads, answers,
                     closed, held, answering, issued, everHeld, overlooked>>
  BY DEF Park, LetGo, TicketOf, serverVars, history
<1>3. /\ c \in Conns /\ reads[c] = answers[c] + 1
      /\ \A v \in Workers : v # w => holding[v] # c
      /\ \A uk \in deferred : uk[1] # c
  BY <1>2, HandlingPends
<1>4. tk \in Tickets /\ tk[1] = c
  <2>1. reads[c] \in 1..MaxRequests
    BY <1>1, <1>3
  <2> QED
    BY <1>3, <2>1 DEF Tickets
<1>5. c # NoConn /\ c \in Live
  BY <1>3, ConnsAssumption DEF Custody, OwnersLive
<1> HIDE DEF c, tk
<1>6. \A v \in Workers : holding'[v] = IF v = w THEN NoConn ELSE holding[v]
  BY <1>1, <1>2
<1>7. TypeOK'
  <2>1. /\ worker' \in [Workers -> {"off", "idle", "top", "reading", "handling", "exited"}]
        /\ holding' \in [Workers -> Conns \cup {NoConn}]
        /\ keep' \in [Workers -> BOOLEAN] /\ deferred' \subseteq Tickets
    BY <1>1, <1>2, <1>4 DEF Custody, TypeOK
  <2> QED
    BY <1>2, <2>1 DEF Custody, TypeOK
<1>8. /\ \A s \in Servers : c \notin backlog[s] /\ NoConn \notin backlog[s]
      /\ \A s \in Servers : \A i \in At(s) : queue[s][i] # c /\ queue[s][i] # NoConn
      /\ \A uk \in deferred : uk[1] # NoConn
  <2>1. \A s \in Servers : c \notin backlog[s]
    BY DEF Custody, BacklogApart, c
  <2>2. \A s \in Servers : \A i \in At(s) : queue[s][i] # c
    BY DEF Custody, QueueApart, c
  <2>3. NoConn \notin Live
    BY ConnsAssumption DEF Custody, TypeOK, Live
  <2> QED
    BY <2>1, <2>2, <2>3 DEF Custody, OwnersLive
<1>9. OwnersLive'
  BY <1>2, <1>4, <1>5, <1>6 DEF Custody, OwnersLive, Live, At
<1>10. BacklogApart'
  BY <1>2, <1>4, <1>6, <1>8 DEF Custody, BacklogApart, At
<1>11. QueueApart'
  <2>1. \A v \in Workers, s \in Servers : \A i \in At(s) : queue[s][i] # holding'[v]
    BY <1>6, <1>8 DEF Custody, QueueApart
  <2>2. \A uk \in deferred', s \in Servers : \A i \in At(s) : queue[s][i] # uk[1]
    BY <1>2, <1>4, <1>8 DEF Custody, QueueApart
  <2> QED
    BY <1>2, <2>1, <2>2 DEF Custody, QueueApart, At
<1>12. HandsApart'
  <2>1. \A v, u \in Workers : holding'[v] = holding'[u] /\ holding'[v] # NoConn => v = u
    BY <1>6 DEF Custody, HandsApart
  <2>2. \A uk \in deferred', v \in Workers : uk[1] # holding'[v]
    BY <1>2, <1>3, <1>4, <1>5, <1>6, <1>8 DEF Custody, HandsApart
  <2>3. \A uk, xk \in deferred' : uk[1] = xk[1] => uk = xk
    BY <1>2, <1>3, <1>4 DEF Custody, HandsApart
  <2> QED
    BY <2>1, <2>2, <2>3 DEF HandsApart
<1>13. SomeOwner'
  <2> SUFFICES ASSUME NEW d \in Live
               PROVE  \/ \E s \in Servers : d \in backlog[s]
                      \/ \E s \in Servers : \E i \in At(s) : queue[s][i] = d
                      \/ \E v \in Workers : holding'[v] = d
                      \/ \E uk \in deferred' : uk[1] = d
    BY <1>2 DEF SomeOwner, Live, At
  <2>1. CASE d = c
    BY <1>2, <1>4, <2>1
  <2>2. CASE d # c
    <3>1. \A v \in Workers : holding[v] = d => holding'[v] = d
      BY <1>6, <2>2 DEF c
    <3> QED
      BY <1>2, <3>1 DEF Custody, SomeOwner
  <2> QED
    BY <2>1, <2>2
<1>14. Hands'
  BY <1>1, <1>2, <1>6 DEF Custody, Hands
<1>15. Counted'
  <2>1. \A d \in Conns : Pending(d)' <=> Pending(d)
    <3> SUFFICES ASSUME NEW d \in Conns PROVE Pending(d)' <=> Pending(d)
      OBVIOUS
    <3>1. CASE d = c
      <4>1. Pending(d)
        BY <1>2, <3>1 DEF Pending, c
      <4>2. Pending(d)'
        BY <1>2, <1>4, <3>1 DEF Pending
      <4> QED
        BY <4>1, <4>2
    <3>2. CASE d # c
      <4>1. \A v \in Workers : worker'[v] = "handling" /\ holding'[v] = d
                               <=> worker[v] = "handling" /\ holding[v] = d
        BY <1>1, <1>2, <1>6, <3>2 DEF c
      <4> QED
        BY <1>2, <1>4, <3>2, <4>1 DEF Pending
    <3> QED
      BY <3>1, <3>2
  <2> QED
    BY <1>2, <2>1 DEF Custody, Counted
<1> QED
  BY <1>7, <1>9, <1>10, <1>11, <1>12, <1>13, <1>14, <1>15 DEF Custody

(* Respond or a notify finds the ticket's connection in the table. *)
LEMMA CompleteKeeps ==
  ASSUME Custody, NEW tk \in deferred, Complete(tk),
         UNCHANGED <<serverVars, workerVars>>,
         held' \in [Topics -> SUBSET Tickets], answering' \in [Notifiers -> SUBSET Tickets],
         issued' \subseteq Tickets, everHeld' \subseteq issued', overlooked' \subseteq Tickets
  PROVE  Custody'
<1> DEFINE c == tk[1]
<1> USE DEF serverVars, workerVars
<1>1. /\ c \in Conns /\ c \in Live
      /\ reads \in [Conns -> 0..MaxRequests] /\ answers \in [Conns -> 0..MaxRequests]
  BY DEF Custody, TypeOK, OwnersLive, Tickets
<1>2. /\ deferred' = deferred \ {tk} /\ answers' = [answers EXCEPT ![c] = answers[c] + 1]
      /\ closed' = closed \cup {c} /\ Live' = Live \ {c}
  BY DEF Complete, Live
<1>3. reads[c] = answers[c] + 1
  <2>1. Pending(c)
    BY DEF Pending
  <2> QED
    BY <1>1, <2>1 DEF Custody, Counted
<1>4. TypeOK'
  <2>1. answers[c] + 1 \in 0..MaxRequests
    BY <1>1, <1>3
  <2>2. answers' \in [Conns -> 0..MaxRequests] /\ closed' \subseteq Conns
    BY <1>1, <1>2, <2>1 DEF Custody, TypeOK
  <2> QED
    BY <1>2, <2>2 DEF Custody, TypeOK
<1>5. /\ \A s \in Servers : c \notin backlog[s]
      /\ \A s \in Servers : \A i \in At(s) : queue[s][i] # c
      /\ \A w \in Workers : holding[w] # c
      /\ \A uk \in deferred : uk # tk => uk[1] # c
  BY DEF Custody, BacklogApart, QueueApart, HandsApart
<1>6. OwnersLive'
  <2>1. \A s \in Servers : backlog[s] \subseteq Live'
    BY <1>2, <1>5 DEF Custody, OwnersLive
  <2>2. \A s \in Servers : \A i \in At(s) : queue[s][i] \in Live'
    BY <1>2, <1>5 DEF Custody, OwnersLive
  <2>3. \A w \in Workers : holding[w] \in Live' \cup {NoConn}
    BY <1>2, <1>5 DEF Custody, OwnersLive
  <2>4. \A uk \in deferred' : uk[1] \in Live'
    BY <1>2, <1>5 DEF Custody, OwnersLive
  <2>5. closed' \subseteq opened
    BY <1>1, <1>2 DEF Custody, OwnersLive, Live
  <2> QED
    BY <2>1, <2>2, <2>3, <2>4, <2>5 DEF OwnersLive, At
<1>7. BacklogApart'
  BY <1>2 DEF Custody, BacklogApart, At
<1>8. QueueApart'
  BY <1>2 DEF Custody, QueueApart, At
<1>9. HandsApart'
  BY <1>2 DEF Custody, HandsApart
<1>10. SomeOwner'
  BY <1>2 DEF Custody, SomeOwner, At
<1>11. Hands'
  BY DEF Custody, Hands
<1>12. Counted'
  <2> SUFFICES ASSUME NEW d \in Conns
               PROVE  reads'[d] = answers'[d] + (IF Pending(d)' THEN 1 ELSE 0)
    BY DEF Counted
  <2>1. CASE d = c
    <3>1. ~Pending(d)'
      BY <1>2, <1>5, <2>1 DEF Pending
    <3> QED
      BY <1>1, <1>2, <1>3, <2>1, <3>1
  <2>2. CASE d # c
    <3>1. Pending(d)' <=> Pending(d)
      BY <1>2, <2>2 DEF Pending
    <3> QED
      BY <1>1, <1>2, <2>2, <3>1 DEF Custody, Counted
  <2> QED
    BY <2>1, <2>2
<1> QED
  BY <1>4, <1>6, <1>7, <1>8, <1>9, <1>10, <1>11, <1>12 DEF Custody

LEMMA CustodyStep == Custody /\ [Next]_vars => Custody'
<1> SUFFICES ASSUME Custody, [Next]_vars PROVE Custody'
  OBVIOUS
<1> USE DEF serverVars, workerVars, tableVars, history
<1>1. TypeOK
  BY DEF Custody
<1>2. CASE UNCHANGED vars
  <2>1. TypeOK'
    BY <1>1, <1>2 DEF TypeOK, vars
  <2> QED
    BY <1>2, <2>1, Quiet DEF vars
<1>3. ASSUME NEW s \in Servers, ClearShutdown(s) \/ CheckShutdown(s) \/ NothingToAccept(s)
      PROVE  Custody'
  <2>1. TypeOK'
    BY <1>1, <1>3 DEF TypeOK, ClearShutdown, CheckShutdown, NothingToAccept, Phase
  <2>2. \A r \in Servers : server'[r] = "off" => server[r] = "off"
    BY <1>1, <1>3 DEF TypeOK, ClearShutdown, CheckShutdown, NothingToAccept, Phase
  <2> QED
    BY <1>3, <2>1, <2>2, Quiet DEF ClearShutdown, CheckShutdown, NothingToAccept
<1>4. ASSUME NEW w \in Workers, Defer(w) \/ \E t \in Topics : Hold(w, t)
      PROVE  Custody'
  <2>1. TicketOf(w) \in Tickets
    <3>1. worker[w] = "handling"
      BY <1>4 DEF Defer, Hold
    <3>2. holding[w] \in Conns /\ reads[holding[w]] = answers[holding[w]] + 1
      BY <3>1, HandlingPends
    <3>3. reads[holding[w]] \in 1..MaxRequests
      BY <1>1, <3>2 DEF TypeOK
    <3> QED
      BY <3>2, <3>3 DEF TicketOf, Tickets
  <2>2. TypeOK'
    <3>1. CASE Defer(w)
      BY <1>1, <2>1, <3>1 DEF TypeOK, Defer
    <3>2. ASSUME NEW t \in Topics, Hold(w, t) PROVE TypeOK'
      BY <1>1, <2>1, <3>2 DEF TypeOK, Hold
    <3> QED
      BY <1>4, <3>1, <3>2
  <2> QED
    BY <1>4, <2>2, Quiet DEF Defer, Hold
<1>5. ASSUME NEW tk \in Tickets, Respond(tk) PROVE Custody'
  <2>1. CASE tk \in deferred
    BY <1>1, <1>5, <2>1, CompleteKeeps DEF Respond, TypeOK
  <2>2. CASE tk \notin deferred
    <3>1. TypeOK'
      BY <1>1, <1>5, <2>2 DEF Respond, TypeOK
    <3> QED
      BY <1>5, <2>2, <3>1, Quiet DEF Respond
  <2> QED
    BY <2>1, <2>2
<1>6. ASSUME NEW n \in Notifiers, NEW topics \in SUBSET Topics, Notify(n, topics)
      PROVE  Custody'
  <2>1. UNION {held[t] : t \in topics} \subseteq Tickets
    BY <1>1 DEF TypeOK
  <2>2. TypeOK'
    BY <1>1, <1>6, <2>1 DEF TypeOK, Notify
  <2> QED
    BY <1>6, <2>2, Quiet DEF Notify
<1>7. ASSUME NEW n \in Notifiers, NEW tk \in Tickets, AnswerHeld(n, tk)
      PROVE  Custody'
  <2>1. answering' \in [Notifiers -> SUBSET Tickets]
    BY <1>1, <1>7 DEF AnswerHeld, TypeOK
  <2>2. CASE tk \in deferred
    BY <1>1, <1>7, <2>1, <2>2, CompleteKeeps DEF AnswerHeld, TypeOK
  <2>3. CASE tk \notin deferred
    <3>1. TypeOK'
      BY <1>1, <1>7, <2>1, <2>3 DEF AnswerHeld, TypeOK
    <3> QED
      BY <1>7, <2>3, <3>1, Quiet DEF AnswerHeld
  <2> QED
    BY <2>2, <2>3
<1>8. CASE Shutdown
  <2>1. TypeOK'
    BY <1>1, <1>8 DEF TypeOK, Shutdown
  <2> QED
    BY <1>8, <2>1, Quiet DEF Shutdown
<1>9. ASSUME NEW s \in Servers, Start(s) \/ Loop(s) \/ \E c \in Conns : Connect(s, c)
      PROVE  Custody'
  BY <1>3, <1>9, StartKeeps, AcceptKeeps, AbandonKeeps, ConnectKeeps DEF Loop
<1>10. ASSUME NEW w \in Workers, Serve(w) \/ Handle(w) PROVE Custody'
  BY <1>4, <1>10, TakeConnKeeps, WorkerKeeps, ReadKeeps, AnswerKeeps, ParkKeeps
     DEF Serve, Handle
<1>11. ASSUME NEW n \in Notifiers,
              \/ \E t \in Topics : Notify(n, {t})
              \/ Notify(n, Topics)
              \/ \E tk \in Tickets : AnswerHeld(n, tk)
       PROVE  Custody'
  <2>1. \A t \in Topics : {t} \in SUBSET Topics
    OBVIOUS
  <2>2. Topics \in SUBSET Topics
    OBVIOUS
  <2> QED
    BY <1>6, <1>7, <1>11, <2>1, <2>2
<1> QED
  BY <1>2, <1>5, <1>8, <1>9, <1>10, <1>11 DEF Next

(* Who has a connection, counted. *)
LEMMA CountOne ==
  ASSUME NEW S, NEW x \in S, \A y \in S : y = x
  PROVE  Cardinality(S) = 1
<1>1. S = {x}
  OBVIOUS
<1> QED
  BY <1>1, FS_Singleton

LEMMA CountNone ==
  ASSUME NEW S, \A y \in S : FALSE
  PROVE  Cardinality(S) = 0
<1>1. S = {}
  OBVIOUS
<1> QED
  BY <1>1, FS_EmptySet

LEMMA CustodyIsOneOwner == Custody => OneOwner
<1> SUFFICES ASSUME Custody, NEW c \in Conns
             PROVE  Owners(c) = IF c \in opened \ closed THEN 1 ELSE 0
  BY DEF OneOwner
<1> DEFINE B == {s \in Servers : c \in backlog[s]}
           H == {w \in Workers : holding[w] = c}
           D == {tk \in deferred : tk[1] = c}
<1>1. Owners(c) = Cardinality(B) + Cardinality(InQueues(c)) + Cardinality(H) + Cardinality(D)
  BY DEF Owners
<1>2. \A p : p \in InQueues(c) <=>
             \E s \in Servers : \E i \in At(s) : queue[s][i] = c /\ p = <<s, i>>
  BY DEF InQueues, At
<1> HIDE DEF InQueues
<1>3. CASE c \notin Live
  <2>1. Cardinality(B) = 0
    <3>1. \A s \in B : FALSE
      BY <1>3 DEF Custody, OwnersLive
    <3> QED
      BY <3>1, CountNone
  <2>2. Cardinality(InQueues(c)) = 0
    <3>1. \A p \in InQueues(c) : FALSE
      BY <1>2, <1>3 DEF Custody, OwnersLive
    <3> QED
      BY <3>1, CountNone
  <2>3. Cardinality(H) = 0
    <3>1. \A w \in H : FALSE
      BY <1>3, ConnsAssumption DEF Custody, OwnersLive
    <3> QED
      BY <3>1, CountNone
  <2>4. Cardinality(D) = 0
    <3>1. \A tk \in D : FALSE
      BY <1>3 DEF Custody, OwnersLive
    <3> QED
      BY <3>1, CountNone
  <2> QED
    BY <1>1, <1>3, <2>1, <2>2, <2>3, <2>4 DEF Live
<1>4. ASSUME c \in Live, NEW s \in Servers, c \in backlog[s] PROVE Owners(c) = 1
  <2>1. Cardinality(B) = 1
    <3>1. s \in B /\ \A r \in B : r = s
      BY <1>4 DEF Custody, BacklogApart
    <3> QED
      BY <3>1, CountOne
  <2>2. Cardinality(InQueues(c)) = 0
    <3>1. \A p \in InQueues(c) : FALSE
      BY <1>2, <1>4 DEF Custody, BacklogApart
    <3> QED
      BY <3>1, CountNone
  <2>3. Cardinality(H) = 0
    <3>1. \A w \in H : FALSE
      BY <1>4 DEF Custody, BacklogApart
    <3> QED
      BY <3>1, CountNone
  <2>4. Cardinality(D) = 0
    <3>1. \A tk \in D : FALSE
      BY <1>4 DEF Custody, BacklogApart
    <3> QED
      BY <3>1, CountNone
  <2> QED
    BY <1>1, <2>1, <2>2, <2>3, <2>4
<1>5. ASSUME c \in Live, NEW s \in Servers, NEW i \in At(s), queue[s][i] = c
      PROVE  Owners(c) = 1
  <2>1. Cardinality(B) = 0
    <3>1. \A r \in B : FALSE
      BY <1>5 DEF Custody, BacklogApart
    <3> QED
      BY <3>1, CountNone
  <2>2. Cardinality(InQueues(c)) = 1
    <3>1. <<s, i>> \in InQueues(c)
      BY <1>2, <1>5
    <3>2. \A p \in InQueues(c) : p = <<s, i>>
      BY <1>2, <1>5 DEF Custody, QueueApart
    <3> QED
      BY <3>1, <3>2, CountOne
  <2>3. Cardinality(H) = 0
    <3>1. \A w \in H : FALSE
      BY <1>5 DEF Custody, QueueApart
    <3> QED
      BY <3>1, CountNone
  <2>4. Cardinality(D) = 0
    <3>1. \A tk \in D : FALSE
      BY <1>5 DEF Custody, QueueApart
    <3> QED
      BY <3>1, CountNone
  <2> QED
    BY <1>1, <2>1, <2>2, <2>3, <2>4
<1>6. ASSUME c \in Live, NEW w \in Workers, holding[w] = c PROVE Owners(c) = 1
  <2>1. Cardinality(B) = 0
    <3>1. \A r \in B : FALSE
      BY <1>6 DEF Custody, BacklogApart
    <3> QED
      BY <3>1, CountNone
  <2>2. Cardinality(InQueues(c)) = 0
    <3>1. \A p \in InQueues(c) : FALSE
      BY <1>2, <1>6 DEF Custody, QueueApart
    <3> QED
      BY <3>1, CountNone
  <2>3. Cardinality(H) = 1
    <3>1. w \in H /\ \A v \in H : v = w
      BY <1>6, ConnsAssumption DEF Custody, HandsApart
    <3> QED
      BY <3>1, CountOne
  <2>4. Cardinality(D) = 0
    <3>1. \A tk \in D : FALSE
      BY <1>6 DEF Custody, HandsApart
    <3> QED
      BY <3>1, CountNone
  <2> QED
    BY <1>1, <2>1, <2>2, <2>3, <2>4
<1>7. ASSUME c \in Live, NEW tk \in deferred, tk[1] = c PROVE Owners(c) = 1
  <2>1. Cardinality(B) = 0
    <3>1. \A r \in B : FALSE
      BY <1>7 DEF Custody, BacklogApart
    <3> QED
      BY <3>1, CountNone
  <2>2. Cardinality(InQueues(c)) = 0
    <3>1. \A p \in InQueues(c) : FALSE
      BY <1>2, <1>7 DEF Custody, QueueApart
    <3> QED
      BY <3>1, CountNone
  <2>3. Cardinality(H) = 0
    <3>1. \A w \in H : FALSE
      BY <1>7 DEF Custody, HandsApart
    <3> QED
      BY <3>1, CountNone
  <2>4. Cardinality(D) = 1
    <3>1. tk \in D /\ \A uk \in D : uk = tk
      BY <1>7 DEF Custody, HandsApart
    <3> QED
      BY <3>1, CountOne
  <2> QED
    BY <1>1, <2>1, <2>2, <2>3, <2>4
<1> QED
  BY <1>3, <1>4, <1>5, <1>6, <1>7 DEF Custody, SomeOwner, Live

LEMMA CustodyIsAnsweredOnce == Custody => AnsweredOnce
<1> SUFFICES ASSUME Custody, NEW c \in Conns
             PROVE  reads[c] - answers[c] =
                      Cardinality({w \in Workers : worker[w] = "handling" /\ holding[w] = c})
                      + Cardinality({tk \in deferred : tk[1] = c})
  BY DEF AnsweredOnce
<1> DEFINE H == {w \in Workers : worker[w] = "handling" /\ holding[w] = c}
           D == {tk \in deferred : tk[1] = c}
<1>1. reads[c] \in Nat /\ answers[c] \in Nat
  BY DEF Custody, TypeOK
<1>2. reads[c] = answers[c] + (IF Pending(c) THEN 1 ELSE 0)
  BY DEF Custody, Counted
<1>3. CASE ~Pending(c)
  <2>1. Cardinality(H) = 0
    <3>1. \A w \in H : FALSE
      BY <1>3 DEF Pending
    <3> QED
      BY <3>1, CountNone
  <2>2. Cardinality(D) = 0
    <3>1. \A tk \in D : FALSE
      BY <1>3 DEF Pending
    <3> QED
      BY <3>1, CountNone
  <2> QED
    BY <1>1, <1>2, <1>3, <2>1, <2>2
<1>4. ASSUME NEW w \in Workers, worker[w] = "handling", holding[w] = c
      PROVE  reads[c] - answers[c] = Cardinality(H) + Cardinality(D)
  <2>1. Cardinality(H) = 1
    <3>1. w \in H /\ \A v \in H : v = w
      BY <1>4, ConnsAssumption DEF Custody, HandsApart
    <3> QED
      BY <3>1, CountOne
  <2>2. Cardinality(D) = 0
    <3>1. \A tk \in D : FALSE
      BY <1>4 DEF Custody, HandsApart
    <3> QED
      BY <3>1, CountNone
  <2>3. Pending(c)
    BY <1>4 DEF Pending
  <2> QED
    BY <1>1, <1>2, <2>1, <2>2, <2>3
<1>5. ASSUME NEW tk \in deferred, tk[1] = c
      PROVE  reads[c] - answers[c] = Cardinality(H) + Cardinality(D)
  <2>1. Cardinality(H) = 0
    <3>1. \A w \in H : FALSE
      BY <1>5 DEF Custody, HandsApart
    <3> QED
      BY <3>1, CountNone
  <2>2. Cardinality(D) = 1
    <3>1. tk \in D /\ \A uk \in D : uk = tk
      BY <1>5 DEF Custody, HandsApart
    <3> QED
      BY <3>1, CountOne
  <2>3. Pending(c)
    BY <1>5 DEF Pending
  <2> QED
    BY <1>1, <1>2, <2>1, <2>2, <2>3
<1> QED
  BY <1>3, <1>4, <1>5 DEF Pending

(* Every variable keeps its type, and no connection is read or answered    *)
(* past max_requests_per_connection (serve_connection).                    *)
THEOREM TypeCorrect == Spec => []TypeOK
<1>1. Custody => TypeOK
  BY DEF Custody
<1> QED
  BY <1>1, CustodyInit, CustodyStep, PTL DEF Spec

(* A connection has one owner from its first byte to its last, whatever    *)
(* handlers, notifiers and a drain do with it.                             *)
THEOREM OneOwnerAlways == Spec => []OneOwner
BY CustodyIsOneOwner, CustodyInit, CustodyStep, PTL DEF Spec

(* A request is answered once, by its handler or by whoever takes its      *)
(* ticket out of the table (take_deferred), however many try.              *)
THEOREM AnsweredOnceAlways == Spec => []AnsweredOnce
BY CustodyIsAnsweredOnce, CustodyInit, CustodyStep, PTL DEF Spec

(***************************************************************************)
(* The drain.  A worker exits only when its server accepts no more and     *)
(* its queue is empty, and neither is undone.                              *)
(***************************************************************************)
Exits ==
  /\ \A w \in Workers : worker[w] = "exited" =>
       server[w[1]] \in {"draining", "returned"} /\ queue[w[1]] = <<>>
  /\ \A s \in Servers : server[s] = "returned" /\ s \notin cut => Drained(s)

LEMMA ExitsInit == Init => Exits
BY DEF Init, Exits

LEMMA ExitsStep == Custody /\ Exits /\ [Next]_vars => Exits'
<1> SUFFICES ASSUME Custody, Exits, [Next]_vars PROVE Exits'
  OBVIOUS
<1> USE DEF serverVars, workerVars, tableVars, history, Pool, Workers, Drained, Phase
<1>1. /\ server \in [Servers -> {"off", "starting", "accepting", "polling",
                                  "draining", "returned"}]
      /\ queue \in [Servers -> Seq(Conns)]
      /\ worker \in [Workers -> {"off", "idle", "top", "reading", "handling", "exited"}]
  BY DEF Custody, TypeOK
<1>2. CASE UNCHANGED <<server, queue, worker, cut>>
  BY <1>2 DEF Exits
<1>3. ASSUME NEW s \in Servers, Start(s) PROVE Exits'
  BY <1>1, <1>3 DEF Start, Exits
<1>4. ASSUME NEW s \in Servers, ClearShutdown(s) \/ CheckShutdown(s) \/ NothingToAccept(s)
      PROVE  Exits'
  <2>1. /\ server[s] \notin {"draining", "returned"}
        /\ \E l \in {"accepting", "draining", "polling"} : server' = [server EXCEPT ![s] = l]
        /\ UNCHANGED <<queue, worker, cut>>
    BY <1>4 DEF ClearShutdown, CheckShutdown, NothingToAccept
  <2> QED
    BY <1>1, <2>1 DEF Exits
<1>5. ASSUME NEW s \in Servers, NEW c \in Conns, Accept(s, c) PROVE Exits'
  <2>1. /\ server[s] = "polling" /\ server' = [server EXCEPT ![s] = "accepting"]
        /\ \A r \in Servers : r # s => queue'[r] = queue[r]
        /\ UNCHANGED <<worker, cut>>
    BY <1>1, <1>5 DEF Accept
  <2> QED
    BY <1>1, <2>1 DEF Exits
<1>6. ASSUME NEW s \in Servers, Return(s) PROVE Exits'
  BY <1>1, <1>6 DEF Return, Exits
<1>7. ASSUME NEW s \in Servers, Cut(s) PROVE Exits'
  BY <1>1, <1>7 DEF Cut, Exits
<1>8. ASSUME NEW w \in Workers, TakeConn(w) PROVE Exits'
  <2>1. /\ worker[w] = "idle" /\ queue[w[1]] # <<>>
        /\ worker' = [worker EXCEPT ![w] = "top"]
        /\ queue' = [queue EXCEPT ![w[1]] = Tail(queue[w[1]])]
        /\ UNCHANGED <<server, cut>>
    BY <1>8 DEF TakeConn
  <2>2. \A v \in Workers : worker'[v] = "exited" => worker[v] = "exited"
    BY <1>1, <2>1
  <2>3. \A v \in Workers : worker[v] = "exited" => queue'[v[1]] = queue[v[1]] /\ worker'[v] = "exited"
    BY <1>1, <2>1 DEF Exits
  <2> QED
    BY <2>1, <2>2, <2>3 DEF Exits
<1>9. ASSUME NEW w \in Workers, ExitWorker(w) PROVE Exits'
  <2>1. server[w[1]] # "off"
    BY <1>9 DEF ExitWorker, Custody, Hands
  <2> QED
    BY <1>1, <1>9, <2>1 DEF ExitWorker, Step, Running, Exits
<1>10. ASSUME NEW w \in Workers,
              NextRequest(w) \/ NoRequest(w) \/ ReadRequest(w) \/ Answer(w) \/ Park(w)
       PROVE  Exits'
  <2>1. /\ worker[w] # "exited" /\ UNCHANGED <<server, queue, cut>>
        /\ \E l \in {"idle", "top", "reading", "handling"} : worker' = [worker EXCEPT ![w] = l]
    BY <1>10 DEF NextRequest, NoRequest, ReadRequest, Answer, Park, Step, LetGo
  <2> QED
    BY <1>1, <2>1 DEF Exits
<1>11. ASSUME NEW s \in Servers, NEW c \in Conns, Connect(s, c) PROVE Exits'
  BY <1>2, <1>11 DEF Connect
<1>12. ASSUME NEW w \in Workers, Defer(w) \/ \E t \in Topics : Hold(w, t) PROVE Exits'
  BY <1>2, <1>12 DEF Defer, Hold
<1>13. ASSUME NEW tk \in Tickets, Respond(tk) PROVE Exits'
  BY <1>2, <1>13 DEF Respond
<1>14. ASSUME NEW n \in Notifiers,
              \/ \E t \in Topics : Notify(n, {t})
              \/ Notify(n, Topics)
              \/ \E tk \in Tickets : AnswerHeld(n, tk)
       PROVE  Exits'
  BY <1>2, <1>14 DEF Notify, AnswerHeld
<1>15. CASE Shutdown
  BY <1>2, <1>15 DEF Shutdown
<1> QED
  <2>1. CASE UNCHANGED vars
    BY <1>2, <2>1 DEF vars
  <2> QED
    BY <2>1, <1>3, <1>4, <1>5, <1>6, <1>7, <1>8, <1>9, <1>10, <1>11, <1>12, <1>13, <1>14,
       <1>15 DEF Next, Loop, Serve, Handle

(* A drain that was not cut at its deadline has served what was queued,    *)
(* and its workers hold nothing (serve_blocking, the worker's loop).       *)
THEOREM DrainIsCompleteAlways == Spec => []DrainIsComplete
<1>1. Custody /\ Exits => DrainIsComplete
  <2> SUFFICES ASSUME Custody, Exits, NEW s \in Servers, server[s] = "returned", s \notin cut
               PROVE  queue[s] = <<>> /\ \A w \in Pool(s) : holding[w] = NoConn
    BY DEF DrainIsComplete
  <2>1. \A w \in Pool(s) : w \in Workers /\ w[1] = s /\ worker[w] = "exited"
    BY DEF Exits, Drained, Pool, Workers
  <2>2. <<s, 1>> \in Pool(s)
    BY PoolAssumption DEF Pool
  <2> QED
    BY <2>1, <2>2 DEF Exits, Custody, Hands
<1> QED
  BY <1>1, CustodyInit, CustodyStep, ExitsInit, ExitsStep, PTL DEF Spec

(***************************************************************************)
(* Held connections.  A ticket given by http.hold stays under its topic,   *)
(* or with the notify that took it, until its request is answered.         *)
(***************************************************************************)
IsAnswered(tk) == answers[tk[1]] >= tk[2]

Reach ==
  /\ \A tk \in deferred : tk[2] = reads[tk[1]]
  /\ \A tk \in everHeld : tk[2] <= reads[tk[1]]
  /\ \A tk \in everHeld :
       \/ IsAnswered(tk)
       \/ \E t \in Topics : tk \in held[t]
       \/ \E n \in Notifiers : tk \in answering[n]
       \/ tk \in overlooked

LEMMA ReachInit == Init => Reach
BY DEF Init, Reach

LEMMA ReachStep == Custody /\ Reach /\ [Next]_vars => Reach'
<1> SUFFICES ASSUME Custody, Reach, [Next]_vars PROVE Reach'
  OBVIOUS
<1> USE DEF serverVars, workerVars, tableVars, history
<1>1. /\ reads \in [Conns -> 0..MaxRequests] /\ answers \in [Conns -> 0..MaxRequests]
      /\ holding \in [Workers -> Conns \cup {NoConn}] /\ deferred \subseteq Tickets
      /\ everHeld \subseteq Tickets /\ held \in [Topics -> SUBSET Tickets]
      /\ answering \in [Notifiers -> SUBSET Tickets]
  BY DEF Custody, TypeOK
<1>2. \A tk \in Tickets : tk[1] \in Conns /\ tk[2] \in Nat
  BY DEF Tickets
<1>3. CASE UNCHANGED <<reads, answers, deferred, held, answering, everHeld, overlooked>>
  BY <1>3 DEF Reach, IsAnswered
<1>4. ASSUME NEW s \in Servers, Start(s) \/ Loop(s) \/ \E c \in Conns : Connect(s, c)
      PROVE  Reach'
  BY <1>3, <1>4 DEF Start, Loop, ClearShutdown, CheckShutdown, NothingToAccept, Accept,
                    Return, Cut, Connect
<1>5. ASSUME NEW w \in Workers, Serve(w) \/ NoRequest(w) \/ Defer(w) PROVE Reach'
  BY <1>3, <1>5 DEF Serve, TakeConn, ExitWorker, NextRequest, NoRequest, Defer, Step, LetGo
<1>6. ASSUME NEW w \in Workers, ReadRequest(w) PROVE Reach'
  <2>1. \A tk \in deferred : tk[1] # holding[w]
    BY DEF Custody, HandsApart
  <2>2. \A tk \in deferred : reads'[tk[1]] = reads[tk[1]]
    BY <1>1, <1>2, <1>6, <2>1 DEF ReadRequest
  <2>3. \A tk \in everHeld : tk[2] <= reads'[tk[1]]
    BY <1>1, <1>2, <1>6 DEF ReadRequest, Reach
  <2> QED
    BY <1>6, <2>2, <2>3 DEF ReadRequest, Reach, IsAnswered
<1>7. ASSUME NEW w \in Workers, Answer(w) PROVE Reach'
  <2>1. \A tk \in everHeld : IsAnswered(tk) => IsAnswered(tk)'
    BY <1>1, <1>2, <1>7 DEF Answer, IsAnswered
  <2>2. UNCHANGED <<reads, deferred, held, answering, everHeld, overlooked>>
    BY <1>7 DEF Answer, Step, LetGo
  <2> QED
    BY <2>1, <2>2 DEF Reach
<1>8. ASSUME NEW w \in Workers, Park(w) PROVE Reach'
  <2>1. deferred' = deferred \cup {<<holding[w], reads[holding[w]]>>}
    BY <1>8 DEF Park, TicketOf
  <2>2. UNCHANGED <<reads, answers, held, answering, everHeld, overlooked>>
    BY <1>8 DEF Park, LetGo
  <2> QED
    BY <2>1, <2>2 DEF Reach, IsAnswered
<1>9. ASSUME NEW w \in Workers, NEW t \in Topics, Hold(w, t) PROVE Reach'
  <2>1. /\ everHeld' = everHeld \cup {TicketOf(w)}
        /\ held' = [held EXCEPT ![t] = held[t] \cup {TicketOf(w)}]
        /\ UNCHANGED <<reads, answers, deferred, answering, overlooked>>
    BY <1>9 DEF Hold
  <2>2. TicketOf(w) \in held'[t] /\ \A u \in Topics : held[u] \subseteq held'[u]
    BY <1>1, <2>1
  <2>3. TicketOf(w)[2] <= reads[TicketOf(w)[1]]
    <3>1. holding[w] \in Conns
      BY <1>9, HandlingPends DEF Hold
    <3>2. reads[holding[w]] \in Nat
      BY <1>1, <3>1
    <3> QED
      BY <3>2 DEF TicketOf
  <2> HIDE DEF TicketOf
  <2> QED
    BY <2>1, <2>2, <2>3 DEF Reach, IsAnswered
<1>10. ASSUME NEW tk \in deferred, Complete(tk)
       PROVE  /\ IsAnswered(tk)'
              /\ \A uk \in everHeld : IsAnswered(uk) => IsAnswered(uk)'
  <2>1. reads[tk[1]] = answers[tk[1]] + 1
    <3>1. Pending(tk[1])
      BY DEF Pending
    <3> QED
      BY <1>1, <1>2, <3>1 DEF Custody, Counted
  <2>2. answers'[tk[1]] = tk[2]
    BY <1>1, <1>2, <1>10, <2>1 DEF Complete, Reach
  <2>3. \A uk \in everHeld : IsAnswered(uk) => IsAnswered(uk)'
    BY <1>1, <1>2, <1>10 DEF Complete, IsAnswered
  <2>4. IsAnswered(tk)'
    BY <1>1, <1>2, <2>2 DEF IsAnswered
  <2> QED
    BY <2>3, <2>4
<1>11. ASSUME NEW tk \in Tickets, Respond(tk) PROVE Reach'
  <2>1. UNCHANGED <<reads, held, answering, everHeld, overlooked>>
    BY <1>11 DEF Respond
  <2>2. CASE tk \in deferred
    <3>1. Complete(tk) /\ deferred' \subseteq deferred
      BY <1>11, <2>2 DEF Respond, Complete
    <3> QED
      BY <1>10, <2>1, <2>2, <3>1 DEF Reach
  <2>3. CASE tk \notin deferred
    BY <1>3, <1>11, <2>1, <2>3 DEF Respond
  <2> QED
    BY <2>2, <2>3
<1>12. ASSUME NEW n \in Notifiers, NEW topics \in SUBSET Topics, Notify(n, topics)
       PROVE  Reach'
  <2>1. /\ answering' = [answering EXCEPT ![n] = UNION {held[t] : t \in topics}]
        /\ answering[n] = {}
        /\ held' = [t \in Topics |-> IF t \in topics THEN {} ELSE held[t]]
        /\ UNCHANGED <<reads, answers, deferred, everHeld, overlooked>>
    BY <1>12 DEF Notify
  <2>2. \A tk \in everHeld : (\E t \in Topics : tk \in held[t]) =>
           (\E t \in Topics : tk \in held'[t]) \/ tk \in answering'[n]
    BY <1>1, <2>1
  <2>3. \A m \in Notifiers : answering[m] \subseteq answering'[m]
    BY <1>1, <2>1
  <2>4. \A tk \in everHeld :
          \/ IsAnswered(tk)
          \/ \E t \in Topics : tk \in held'[t]
          \/ \E m \in Notifiers : tk \in answering'[m]
          \/ tk \in overlooked
    BY <2>2, <2>3 DEF Reach
  <2> QED
    BY <2>1, <2>4 DEF Reach, IsAnswered
<1>13. ASSUME NEW n \in Notifiers, NEW tk \in Tickets, AnswerHeld(n, tk) PROVE Reach'
  <2>1. /\ answering' = [answering EXCEPT ![n] = answering[n] \ {tk}]
        /\ UNCHANGED <<reads, held, everHeld>>
    BY <1>13 DEF AnswerHeld
  <2>2. \A m \in Notifiers : \A uk \in answering[m] : uk = tk \/ uk \in answering'[m]
    BY <1>1, <2>1
  <2>3. tk \in everHeld => IsAnswered(tk)' \/ tk \in overlooked'
    <3>1. CASE tk \in deferred
      BY <1>10, <1>13, <3>1 DEF AnswerHeld
    <3>2. CASE tk \notin deferred /\ ~Handled(tk)
      <4> SUFFICES ASSUME tk \in everHeld PROVE IsAnswered(tk)
        BY <1>13, <3>2 DEF AnswerHeld, IsAnswered
      <4>1. tk[2] \in Nat /\ tk[1] \in Conns /\ tk = <<tk[1], tk[2]>> /\ tk[2] <= reads[tk[1]]
        BY <1>2, <1>13 DEF Reach, Tickets
      <4>2. answers[tk[1]] \in Nat /\ reads[tk[1]] \in Nat
        BY <1>1, <4>1
      <4>3. reads[tk[1]] = answers[tk[1]] + (IF Pending(tk[1]) THEN 1 ELSE 0)
        BY <4>1 DEF Custody, Counted
      <4>4. Pending(tk[1]) => tk[2] # reads[tk[1]]
        <5>1. ASSUME NEW w \in Workers, worker[w] = "handling", holding[w] = tk[1]
              PROVE  tk[2] # reads[tk[1]]
          BY <3>2, <4>1, <5>1 DEF Handled, TicketOf
        <5>2. ASSUME NEW uk \in deferred, uk[1] = tk[1] PROVE tk[2] # reads[tk[1]]
          <6>1. uk \in Tickets /\ uk = <<uk[1], uk[2]>> /\ uk[2] = reads[uk[1]] /\ uk # tk
            BY <1>1, <3>2 DEF Reach, Tickets
          <6> QED
            BY <4>1, <5>2, <6>1
        <5> QED
          BY <5>1, <5>2 DEF Pending
      <4> QED
        BY <4>1, <4>2, <4>3, <4>4 DEF IsAnswered
    <3>3. CASE tk \notin deferred /\ Handled(tk)
      BY <1>13, <3>3 DEF AnswerHeld
    <3> QED
      BY <3>1, <3>2, <3>3
  <2>4. \A uk \in everHeld : IsAnswered(uk) => IsAnswered(uk)'
    BY <1>10, <1>13 DEF AnswerHeld, IsAnswered
  <2>5. overlooked \subseteq overlooked' /\ deferred' \subseteq deferred
    BY <1>13 DEF AnswerHeld, Complete
  <2>6. \A uk \in everHeld :
          \/ IsAnswered(uk)'
          \/ \E t \in Topics : uk \in held[t]
          \/ \E m \in Notifiers : uk \in answering'[m]
          \/ uk \in overlooked'
    BY <2>2, <2>3, <2>4, <2>5 DEF Reach
  <2> QED
    BY <2>1, <2>5, <2>6 DEF Reach
<1>14. CASE Shutdown
  BY <1>3, <1>14 DEF Shutdown
<1>15. ASSUME NEW n \in Notifiers,
              \/ \E t \in Topics : Notify(n, {t})
              \/ Notify(n, Topics)
              \/ \E tk \in Tickets : AnswerHeld(n, tk)
       PROVE  Reach'
  <2>1. \A t \in Topics : {t} \in SUBSET Topics
    OBVIOUS
  <2>2. Topics \in SUBSET Topics
    OBVIOUS
  <2> QED
    BY <1>12, <1>13, <1>15, <2>1, <2>2
<1>16. ASSUME NEW w \in Workers, Serve(w) \/ Handle(w) PROVE Reach'
  BY <1>5, <1>6, <1>7, <1>8, <1>9, <1>16 DEF Handle
<1> QED
  <2>1. CASE UNCHANGED vars
    BY <1>3, <2>1 DEF vars
  <2> QED
    BY <2>1, <1>4, <1>11, <1>14, <1>15, <1>16 DEF Next

(* A parked, held connection is under its topic or with a notify that took *)
(* it there, unless a notify came to it while its handler still ran.       *)
THEOREM OnlyEarlyNotifyLosesAlways == Spec => []OnlyEarlyNotifyLoses
<1>1. Custody /\ Reach => OnlyEarlyNotifyLoses
  <2> SUFFICES ASSUME Custody, Reach, NEW tk \in deferred \cap everHeld
               PROVE  ~IsAnswered(tk)
    BY DEF OnlyEarlyNotifyLoses, Reachable, Reach
  <2>1. tk[1] \in Conns /\ tk[2] \in Nat /\ Pending(tk[1])
    BY DEF Custody, TypeOK, Tickets, Pending
  <2>2. reads[tk[1]] = answers[tk[1]] + 1 /\ answers[tk[1]] \in Nat
    BY <2>1 DEF Custody, Counted, TypeOK
  <2> QED
    BY <2>1, <2>2 DEF Reach, IsAnswered
<1> QED
  BY <1>1, CustodyInit, CustodyStep, ReachInit, ReachStep, PTL DEF Spec
=============================================================================
