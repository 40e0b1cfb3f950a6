------------------------- MODULE SimWireLinProofs -------------------------
(***************************************************************************)
(* Proofs about the network of the simulator and the checker of what is    *)
(* recorded over it.  About SimWire, for every set of nodes and workers,   *)
(* every capacity, latency, timeout and number of faults: nothing waits    *)
(* for something that is past, and a request its client waits for has a    *)
(* place, unless the network or a process that ended lost it.  About       *)
(* SimLin, for every history of any processes, keys and operations: the    *)
(* verdict of the checker is right.                                        *)
(***************************************************************************)
EXTENDS SimWire, SimLin, FiniteSetTheorems, FunctionTheorems, SequenceTheorems,
        WellFoundedInduction, TLAPS

(* A set of numbers that is not empty has a least one. *)
LEMMA Least ==
  ASSUME NEW S \in SUBSET Nat, S # {}
  PROVE  \E n \in S : \A m \in S : n <= m
<1> DEFINE R == {ss \in Nat \X Nat : ss[1] < ss[2]}
<1>1. IsWellFoundedOn(R, Nat)
  BY NatLessThanWellFounded DEF OpToRel
<1> HIDE DEF R
<1>2. PICK x \in S : \A y \in S : ~(<<y, x>> \in R)
  BY <1>1, WFMin
<1>3. \A y \in S : ~(y < x)
  BY <1>2 DEF R
<1> QED
  BY <1>3

-----------------------------------------------------------------------------
(* What sequences keep *)

(* What is taken from a sequence leaves the others in it. *)
LEMMA RemoveAtKeeps ==
  ASSUME NEW S, NEW s \in Seq(S), NEW i \in DOMAIN s
  PROVE  /\ RemoveAt(s, i) \in Seq(S)
         /\ \A x : Contains(s, x) => x = s[i] \/ Contains(RemoveAt(s, i), x)
<1> DEFINE n == Len(s)
           a == SubSeq(s, 1, i - 1)
           b == SubSeq(s, i + 1, n)
           t == RemoveAt(s, i)
<1>1. n \in Nat /\ DOMAIN s = 1..n /\ i \in 1..n
  BY LenProperties
<1>2. \A j \in 1..n : s[j] \in S
  BY ElementOfSeq
<1>3. a \in Seq(S) /\ Len(a) = i - 1 /\ \A j \in 1..(i - 1) : a[j] = s[j]
  <2>1. \A j \in 1..(i - 1) : s[j] \in S
    BY <1>1, <1>2
  <2>2. 1 \in Int /\ i - 1 \in Int
    BY <1>1
  <2>3. /\ SubSeq(s, 1, i - 1) \in Seq(S)
        /\ Len(SubSeq(s, 1, i - 1)) = IF 1 <= i - 1 THEN (i - 1) - 1 + 1 ELSE 0
        /\ \A j \in 1..((i - 1) - 1 + 1) : SubSeq(s, 1, i - 1)[j] = s[1 + j - 1]
    BY <2>1, <2>2, SubSeqProperties
  <2> QED BY <1>1, <2>3
<1>4. b \in Seq(S) /\ Len(b) = n - i /\ \A j \in 1..(n - i) : b[j] = s[i + j]
  <2>1. \A j \in (i + 1)..n : s[j] \in S
    BY <1>1, <1>2
  <2>2. i + 1 \in Int /\ n \in Int
    BY <1>1
  <2>3. /\ SubSeq(s, i + 1, n) \in Seq(S)
        /\ Len(SubSeq(s, i + 1, n)) = IF i + 1 <= n THEN n - (i + 1) + 1 ELSE 0
        /\ \A j \in 1..(n - (i + 1) + 1) : SubSeq(s, i + 1, n)[j] = s[(i + 1) + j - 1]
    BY <2>1, <2>2, SubSeqProperties
  <2> QED BY <1>1, <2>3
<1>5. t = a \o b
  BY DEF RemoveAt
<1> HIDE DEF n, a, b, t
<1>6. /\ t \in Seq(S) /\ Len(t) = n - 1 /\ DOMAIN t = 1..(n - 1)
      /\ \A j \in 1..(n - 1) : t[j] = IF j <= i - 1 THEN a[j] ELSE b[j - (i - 1)]
  <2>1. /\ t \in Seq(S) /\ Len(t) = Len(a) + Len(b)
        /\ \A j \in 1..(Len(a) + Len(b)) :
             t[j] = IF j <= Len(a) THEN a[j] ELSE b[j - Len(a)]
    BY <1>3, <1>4, <1>5, ConcatProperties
  <2>2. Len(a) + Len(b) = n - 1
    BY <1>1, <1>3, <1>4
  <2>3. DOMAIN t = 1..Len(t)
    BY <2>1, LenProperties
  <2> QED BY <1>3, <2>1, <2>2, <2>3
<1>7. ASSUME NEW j \in 1..n, j # i
      PROVE  \E k \in 1..(n - 1) : t[k] = s[j]
  <2>1. CASE j < i
    <3>1. j \in 1..(n - 1) /\ j \in 1..(i - 1) /\ j <= i - 1
      BY <1>1, <2>1
    <3> QED BY <3>1, <1>3, <1>6
  <2>2. CASE j > i
    <3>1. j - 1 \in 1..(n - 1) /\ ~(j - 1 <= i - 1) /\ j - i \in 1..(n - i)
          /\ (j - 1) - (i - 1) = j - i /\ i + (j - i) = j
      BY <1>1, <2>2
    <3> QED BY <3>1, <1>4, <1>6
  <2> QED BY <1>1, <1>7, <2>1, <2>2
<1>8. \A x : Contains(s, x) => x = s[i] \/ Contains(t, x)
  BY <1>6, <1>7 DEF Contains, n
<1> QED BY <1>6, <1>8 DEF t

(* Sequences joined hold what each of them holds. *)
LEMMA ConcatKeeps ==
  ASSUME NEW S, NEW s \in Seq(S), NEW t \in Seq(S)
  PROVE  /\ s \o t \in Seq(S)
         /\ \A x : Contains(s, x) \/ Contains(t, x) => Contains(s \o t, x)
<1> DEFINE n == Len(s)
           m == Len(t)
           u == s \o t
<1>1. n \in Nat /\ m \in Nat
  BY LenProperties
<1>2. /\ u \in Seq(S) /\ Len(u) = n + m
      /\ \A j \in 1..(n + m) : u[j] = IF j <= n THEN s[j] ELSE t[j - n]
  BY ConcatProperties
<1> HIDE DEF n, m, u
<1>3. ASSUME NEW j \in 1..n PROVE j \in 1..(n + m) /\ u[j] = s[j]
  BY <1>1, <1>2
<1>4. ASSUME NEW j \in 1..m PROVE n + j \in 1..(n + m) /\ u[n + j] = t[j]
  <2>1. n + j \in 1..(n + m) /\ ~(n + j <= n) /\ (n + j) - n = j
    BY <1>1
  <2> QED BY <2>1, <1>2
<1>5. \A x : (\E j \in 1..n : s[j] = x) \/ (\E j \in 1..m : t[j] = x)
             => \E k \in 1..(n + m) : u[k] = x
  BY <1>3, <1>4
<1>6. \A x : Contains(s, x) \/ Contains(t, x) => Contains(u, x)
  BY <1>2, <1>5 DEF Contains, n, m
<1> QED BY <1>2, <1>6 DEF u

(* One more at the end of a sequence. *)
LEMMA AppendKeeps ==
  ASSUME NEW S, NEW s \in Seq(S), NEW e \in S
  PROVE  /\ Append(s, e) \in Seq(S) /\ Append(s, e) # <<>>
         /\ Len(Append(s, e)) = Len(s) + 1
         /\ DOMAIN Append(s, e) = DOMAIN s \cup {Len(s) + 1}
         /\ \A j \in DOMAIN s : Append(s, e)[j] = s[j]
         /\ Append(s, e)[Len(s) + 1] = e
         /\ \A x : Contains(s, x) => Contains(Append(s, e), x)
         /\ Contains(Append(s, e), e)
<1> DEFINE n == Len(s)
           t == Append(s, e)
<1>1. n \in Nat /\ DOMAIN s = 1..n
  BY LenProperties
<1>2. /\ t \in Seq(S) /\ t # <<>> /\ Len(t) = n + 1
      /\ \A i \in 1..n : t[i] = s[i]
      /\ t[n + 1] = e
  BY AppendProperties
<1>3. DOMAIN t = 1..(n + 1)
  BY <1>2, LenProperties
<1> HIDE DEF n, t
<1>4. 1..(n + 1) = 1..n \cup {n + 1}
  BY <1>1
<1>5. \A x : (\E i \in 1..n : s[i] = x) => \E i \in 1..(n + 1) : t[i] = x
  BY <1>2, <1>4
<1>6. \E i \in 1..(n + 1) : t[i] = e
  BY <1>2, <1>4
<1> QED BY <1>1, <1>2, <1>3, <1>4, <1>5, <1>6 DEF Contains, n, t

(* What is not the first of a sequence is in the rest of it. *)
LEMMA TailKeeps ==
  ASSUME NEW S, NEW s \in Seq(S), s # <<>>
  PROVE  /\ Head(s) \in S /\ Tail(s) \in Seq(S)
         /\ Contains(s, Head(s))
         /\ \A x : Contains(s, x) => x = Head(s) \/ Contains(Tail(s), x)
<1> DEFINE n == Len(s)
           t == Tail(s)
           h == Head(s)
<1>1. n \in Nat \ {0} /\ DOMAIN s = 1..n
  BY LenProperties, EmptySeq
<1>2. h \in S /\ t \in Seq(S) /\ Len(t) = n - 1 /\ \A i \in 1..(n - 1) : t[i] = s[i + 1]
  BY HeadTailProperties
<1>3. h = s[1]
  OBVIOUS
<1> HIDE DEF n, t, h
<1>4. \E i \in 1..n : s[i] = h
  BY <1>1, <1>3
<1>5. ASSUME NEW i \in 1..n
      PROVE  s[i] = h \/ \E k \in 1..(n - 1) : t[k] = s[i]
  <2>1. CASE i = 1
    BY <2>1, <1>3
  <2>2. CASE i # 1
    <3>1. i - 1 \in 1..(n - 1) /\ (i - 1) + 1 = i
      BY <1>1, <2>2
    <3> QED BY <3>1, <1>2
  <2> QED BY <2>1, <2>2
<1>6. h \in S /\ t \in Seq(S) /\ Contains(s, h)
  BY <1>2, <1>4 DEF Contains, n
<1>7. \A x : Contains(s, x) => x = h \/ Contains(t, x)
  BY <1>2, <1>5 DEF Contains, n
<1> QED BY <1>6, <1>7 DEF h, t

(* The places of a list and their copies, in their order, are all of them. *)
LEMMA InOrderAll ==
  ASSUME NEW P, IsFiniteSet(P), P \subseteq Nat \X Nat, NEW s \in InOrder(P)
  PROVE  /\ s \in [1..Cardinality(P) -> P] /\ Cardinality(P) \in Nat
         /\ DOMAIN s = 1..Cardinality(P)
         /\ \A x \in P : \E k \in DOMAIN s : s[k] = x
<1> DEFINE n == Cardinality(P)
<1>1. n \in Nat
  BY FS_CardinalityType
<1>2. s \in [1..n -> P] /\ \A j, k \in DOMAIN s : j < k => Precedes(s[j], s[k])
  BY DEF InOrder
<1>3. \A x \in Nat \X Nat : ~Precedes(x, x)
  BY DEF Precedes
<1>4. ASSUME NEW j \in 1..n, NEW k \in 1..n, s[j] = s[k] PROVE j = k
  <2>1. s[j] \in Nat \X Nat /\ DOMAIN s = 1..n
    BY <1>2
  <2>2. ~(j < k) /\ ~(k < j)
    BY <2>1, <1>2, <1>3, <1>4
  <2> QED BY <1>1, <2>2
<1>5. s \in Injection(1..n, P)
  BY <1>2, <1>4, Fun_IsInj
<1>6. IsFiniteSet(1..n) /\ Cardinality(1..n) = n
  BY <1>1, FS_Interval
<1>7. s \in Surjection(1..n, P)
  BY <1>5, <1>6, FS_Injection
<1>8. \A x \in P : \E k \in 1..n : s[k] = x
  BY <1>7 DEF Surjection
<1> QED BY <1>1, <1>2, <1>8
-----------------------------------------------------------------------------
(* The network of a simulated world: no wait is lost, and a request keeps  *)
(* its place                                                               *)

Message(ids) == [kind : MessageKinds, req : ids, at : Nat]
Pairs == {{c, n} : c \in Askers, n \in Servers}
Task == [is : TaskStates, req : {0} \cup Sent]
Asker == [is : {"idle", "ready", "blocked"}, req : {0} \cup Sent, left : 0..Timeout]

(* The types, by who keeps what. *)
NetTyped ==
  /\ severed \subseteq Pairs
  /\ flight \in Seq(Message(Sent)) /\ faults \in 0..MaxFaults /\ vanished \subseteq Sent

AskTyped ==
  /\ asker \in Seq(Askers) /\ target \in Seq(Servers)
  /\ outcome \in Seq({"pending", "timeout"} \cup ReplyKinds)
  /\ Len(asker) <= MaxRequests /\ Len(target) = Len(asker) /\ Len(outcome) = Len(asker)
  /\ got \in [Requests -> Seq(ReplyKinds)]
  /\ client \in [Askers -> Asker]

ServeTyped ==
  /\ listener \in [Servers -> 0..Len(host)]
  /\ program \in [Servers -> {"new", "free", "ready", "blocked", "down"}]
  /\ host \in Seq(Servers) /\ Len(host) <= MaxServes
  /\ queue \in Seq(Seq(Sent)) /\ Len(queue) = Len(host)
  /\ worker \in [Serves -> [Workers -> Task]]

LaterTyped ==
  /\ parked \in [Requests -> Servers \cup {"none"}]
  /\ held \in [Servers -> Seq(Sent)]

NodesTyped == nodeUp \in [Askers \cup Servers -> BOOLEAN]

(* A worker has a request while it handles one, and is there from when its *)
(* listener is made; it has ended when its node's process has.             *)
WorkersStand ==
  \A l \in Serves, w \in Workers :
    /\ worker[l][w].is \in {"handling", "holding"} <=> worker[l][w].req # 0
    /\ worker[l][w].is = "none" <=> l \notin DOMAIN host
    /\ l \in DOMAIN host /\ worker[l][w].is # "done" => program[host[l]] \notin {"new", "down"}

(* A node's listener is a running process's, and its workers work. *)
ServersStand ==
  \A n \in Servers :
    /\ program[n] = "down" <=> ~nodeUp[n]
    /\ listener[n] # 0 =>
         /\ nodeUp[n] /\ host[listener[n]] = n
         /\ \A w \in Workers : worker[listener[n]][w].is # "done"

(* A request is pending exactly as long as its client, which runs, is at it. *)
AskersStand ==
  /\ \A c \in Askers :
       /\ client[c].is = "idle" <=> client[c].req = 0
       /\ client[c].req # 0 =>
            asker[client[c].req] = c /\ outcome[client[c].req] = "pending" /\ nodeUp[c]
  /\ \A r \in Sent : outcome[r] = "pending" /\ nodeUp[asker[r]] => client[asker[r]].req = r

(* Only what was sent is answered or put aside. *)
BoxesAreSent == \A r \in Requests : got[r] # <<>> \/ parked[r] # "none" => r \in Sent

WireSound ==
  /\ WireTypeOK /\ WorkersStand /\ ServersStand /\ AskersStand /\ BoxesAreSent
  /\ NoWaitIsLost /\ NoneVanishes /\ TicketsAreTheProcess

LEMMA WireTyped ==
  WireTypeOK <=> NodesTyped /\ NetTyped /\ AskTyped /\ ServeTyped /\ LaterTyped
BY DEF WireTypeOK, NodesTyped, NetTyped, AskTyped, ServeTyped, LaterTyped, Message, Task, Asker, Pairs

(* Who waits, on either side. *)
WorkersWait ==
  /\ \A l \in DOMAIN host :
       /\ \A w \in Workers : worker[l][w].is = "blocked" => queue[l] = <<>> /\ Listening(l)
       /\ queue[l] # <<>> => \E w \in Workers : worker[l][w].is \in {"ready", "handling", "holding"}
  /\ \A n \in Servers : program[n] = "blocked" => listener[n] # 0
AskersWait == \A c \in Asking : got[client[c].req] = <<>> /\ client[c].left > 0

LEMMA WaitsSplit == NoWaitIsLost <=> WorkersWait /\ AskersWait
BY DEF NoWaitIsLost, WorkersWait, AskersWait

LEMMA WaitsNext ==
  ASSUME WorkersWait', AskersWait' PROVE NoWaitIsLost'
BY DEF NoWaitIsLost, WorkersWait, AskersWait

(* The same of the next state, for what a step leaves behind. *)
LEMMA SoundNext ==
  ASSUME NodesTyped', NetTyped', AskTyped', ServeTyped', LaterTyped',
         WorkersStand', ServersStand', AskersStand', BoxesAreSent',
         NoWaitIsLost', NoneVanishes', TicketsAreTheProcess'
  PROVE  WireSound'
<1>1. WireTypeOK'
  BY DEF WireTypeOK, NodesTyped, NetTyped, AskTyped, ServeTyped, LaterTyped,
         Message, Task, Asker, Pairs
<1> QED BY <1>1 DEF WireSound

(* What the types say of the places in the sequences. *)
LEMMA AskSays ==
  ASSUME AskTyped
  PROVE  /\ DOMAIN asker = Sent /\ DOMAIN target = Sent /\ DOMAIN outcome = Sent
         /\ Sent \subseteq Requests /\ 0 \notin Sent
         /\ \A r \in Sent : asker[r] \in Askers /\ target[r] \in Servers
<1> DEFINE n == Len(asker)
<1>1. n \in Nat /\ n <= MaxRequests /\ Len(target) = n /\ Len(outcome) = n
  BY LenProperties DEF AskTyped
<1>2. DOMAIN asker = 1..n /\ DOMAIN target = 1..n /\ DOMAIN outcome = 1..n
  BY <1>1, LenProperties DEF AskTyped
<1>3. \A r \in 1..n : asker[r] \in Askers /\ target[r] \in Servers
  BY <1>1, ElementOfSeq DEF AskTyped
<1> HIDE DEF n
<1>4. 1..n \subseteq 1..MaxRequests /\ 0 \notin 1..n
  BY <1>1, WireBoundsAssumption
<1> QED BY <1>2, <1>3, <1>4 DEF Sent, Requests, n

LEMMA ServeSays ==
  ASSUME ServeTyped
  PROVE  /\ DOMAIN queue = DOMAIN host
         /\ DOMAIN host \subseteq Serves /\ 0 \notin DOMAIN host
         /\ \A l \in DOMAIN host : host[l] \in Servers /\ queue[l] \in Seq(Sent)
         /\ \A n \in Servers : listener[n] # 0 => listener[n] \in DOMAIN host
<1> DEFINE n == Len(host)
<1>1. n \in Nat /\ n <= MaxServes /\ Len(queue) = n
  BY LenProperties DEF ServeTyped
<1>2. DOMAIN host = 1..n /\ DOMAIN queue = 1..n
  BY <1>1, LenProperties DEF ServeTyped
<1>3. \A l \in 1..n : host[l] \in Servers
  BY ElementOfSeq DEF ServeTyped
<1>4. \A l \in 1..n : queue[l] \in Seq(Sent)
  BY <1>1, ElementOfSeq DEF ServeTyped
<1>5. \A m \in Servers : listener[m] \in 0..n
  BY DEF ServeTyped
<1> HIDE DEF n
<1>6. 1..n \subseteq 1..MaxServes /\ 0 \notin 1..n
  BY <1>1, WireBoundsAssumption
<1>7. \A m \in Servers : listener[m] # 0 => listener[m] \in 1..n
  BY <1>1, <1>5
<1> QED BY <1>2, <1>3, <1>4, <1>6, <1>7 DEF Serves

LEMMA FlightSays ==
  ASSUME NetTyped, NEW i \in DOMAIN flight
  PROVE  /\ flight[i] \in Message(Sent)
         /\ flight[i].kind \in MessageKinds /\ flight[i].req \in Sent /\ flight[i].at \in Nat
<1>1. DOMAIN flight = 1..Len(flight)
  BY LenProperties DEF NetTyped
<1>2. flight[i] \in Message(Sent)
  BY <1>1, ElementOfSeq DEF NetTyped
<1> QED BY <1>2 DEF Message

(* Where a request may be. *)
InFlight(r) == \E i \in DOMAIN flight : flight[i].req = r
Queued(r) == \E l \in DOMAIN host : Contains(queue[l], r)
AtWork(r) == \E l \in DOMAIN host, w \in Workers : worker[l][w].req = r

LEMMA Places ==
  ASSUME NEW r
  PROVE  Somewhere(r) <=>
           InFlight(r) \/ Queued(r) \/ AtWork(r) \/ parked[r] # "none" \/ got[r] # <<>>
BY DEF Somewhere, InFlight, Queued, AtWork

LEMMA FlightHolds ==
  ASSUME NetTyped
  PROVE  \A q : InFlight(q) <=> \E m : Contains(flight, m) /\ m.req = q
<1>1. DOMAIN flight = 1..Len(flight)
  BY LenProperties DEF NetTyped
<1> QED BY <1>1 DEF InFlight, Contains

(* What joins a flight is in it, with what was. *)
LEMMA FlightGrows ==
  ASSUME NEW ids, NEW rest \in Seq(Message(ids)), NEW more \in Seq(Message(ids)),
         flight' = rest \o more
  PROVE  /\ flight' \in Seq(Message(ids))
         /\ \A q : (\E m : (Contains(rest, m) \/ Contains(more, m)) /\ m.req = q) => InFlight(q)'
<1> DEFINE all == rest \o more
<1>1. all \in Seq(Message(ids)) /\ \A m : Contains(rest, m) \/ Contains(more, m) => Contains(all, m)
  BY ConcatKeeps
<1>2. DOMAIN all = 1..Len(all)
  BY <1>1, LenProperties
<1>3. flight' = all
  OBVIOUS
<1> HIDE DEF all
<1> QED BY <1>1, <1>2, <1>3 DEF InFlight, Contains

(* A request keeps its place if it stays where it was, or goes to another. *)
StaysPut(r) == r \in vanished' \/ InFlight(r)' \/ Queued(r)' \/ AtWork(r)'
             \/ parked'[r] # "none" \/ got'[r] # <<>>

(* The clients' part of a step that leaves their requests alone. *)
LEMMA NoneVanishesStep ==
  ASSUME WireSound, asker' = asker, outcome' = outcome,
         \A r \in Sent : nodeUp'[asker[r]] => nodeUp[asker[r]],
         \A r \in Sent : r \in vanished => StaysPut(r),
         \A r \in Sent : outcome[r] = "pending" /\
           (InFlight(r) \/ Queued(r) \/ AtWork(r) \/ parked[r] # "none" \/ got[r] # <<>>) => StaysPut(r)
  PROVE  NoneVanishes'
<1>1. SUFFICES ASSUME NEW r \in Sent, outcome[r] = "pending", nodeUp'[asker[r]]
               PROVE  r \in vanished' \/ Somewhere(r)'
  BY <1>1 DEF NoneVanishes, Sent
<1>2. r \in vanished \/ Somewhere(r)
  BY <1>1 DEF WireSound, NoneVanishes
<1>3. StaysPut(r)
  BY <1>1, <1>2, Places
<1>4. Somewhere(r)' <=>
        (InFlight(r)' \/ Queued(r)' \/ AtWork(r)' \/ parked'[r] # "none" \/ got'[r] # <<>>)
  BY DEF Somewhere, InFlight, Queued, AtWork
<1> QED BY <1>3, <1>4 DEF StaysPut

(* What a link does with a message: it is in flight, or counted as lost.   *)
LEMMA CarryKeeps ==
  ASSUME NetTyped, NEW rest, rest \in Seq(Message(Sent')), NEW kind \in MessageKinds,
         NEW r, r \in Sent', NEW pair, NEW fate \in Fates(pair),
         Sent \subseteq Sent',
         Carry(rest, kind, r, pair, fate)
  PROVE  /\ NetTyped' /\ vanished \subseteq vanished'
         /\ \A q : (\E m : Contains(rest, m) /\ m.req = q) => InFlight(q)'
         /\ InFlight(r)' \/ r \in vanished' \/ r \in AllSettled
<1> DEFINE more == [i \in 1..Len(fate) |-> [kind |-> kind, req |-> r, at |-> fate[i]]]
<1>1. /\ fate \in Seq(Latencies) /\ Len(fate) \in Nat
      /\ fate = <<>> \/ (fate # <<>> /\ 1 \in 1..Len(fate))
  <2>1. \A d, e \in Latencies : <<d>> \in Seq(Latencies) /\ <<d, e>> \in Seq(Latencies)
    OBVIOUS
  <2>2. fate \in Seq(Latencies)
    <3>1. <<>> \in Seq(Latencies)
      BY EmptySeq
    <3>2. CASE pair \in severed
      BY <3>1, <3>2 DEF Fates
    <3>3. CASE fate \in {<<d>> : d \in Latencies}
      BY <2>1, <3>3
    <3>4. CASE fate \in {<<>>} \cup {<<d, e>> : d, e \in Latencies}
      <4>1. CASE fate = <<>>
        BY <3>1, <4>1
      <4>2. ASSUME NEW d \in Latencies, NEW e \in Latencies, fate = <<d, e>>
            PROVE  fate \in Seq(Latencies)
        BY <2>1, <4>2
      <4> QED BY <3>4, <4>1, <4>2
    <3> QED BY <3>2, <3>3, <3>4 DEF Fates
  <2>3. fate # <<>> => Len(fate) \in Nat \ {0}
    BY <2>2, EmptySeq
  <2>4. fate # <<>> => 1 \in 1..Len(fate)
    BY <2>3
  <2> QED BY <2>2, <2>4, LenProperties
<1>2. \A i \in 1..Len(fate) : fate[i] \in Nat
  BY <1>1, ElementOfSeq, TimesAssumption
<1>3. more \in Seq(Message(Sent'))
  <2>1. \A i \in 1..Len(fate) : [kind |-> kind, req |-> r, at |-> fate[i]] \in Message(Sent')
    BY <1>2 DEF Message
  <2> HIDE DEF Message
  <2> QED BY <1>1, <2>1, IsASeq
<1>4. flight' = rest \o more
  BY DEF Carry, more
<1> HIDE DEF more
<1>5. /\ flight' \in Seq(Message(Sent'))
      /\ \A q : (\E m : (Contains(rest, m) \/ Contains(more, m)) /\ m.req = q) => InFlight(q)'
  BY <1>3, <1>4, FlightGrows
<1>6. faults' \in 0..MaxFaults
  <2>1. faults \in 0..MaxFaults /\ MaxFaults \in Nat
    BY WireBoundsAssumption DEF NetTyped
  <2>2. CASE Len(fate) = 1 \/ pair \in severed
    BY <2>1, <2>2 DEF Carry
  <2>3. CASE ~(Len(fate) = 1 \/ pair \in severed)
    <3>1. \A d : Len(<<d>>) = 1
      OBVIOUS
    <3>2. faults < MaxFaults
      BY <2>3, <3>1 DEF Fates
    <3>3. faults' = faults + 1
      BY <2>3 DEF Carry
    <3> QED BY <2>1, <3>2, <3>3
  <2> QED BY <2>2, <2>3
<1>7. vanished' \subseteq Sent' /\ vanished \subseteq vanished'
      /\ (fate = <<>> => r \in vanished' \/ r \in AllSettled)
  BY DEF Carry, Lost, NetTyped
<1>8. fate # <<>> => InFlight(r)'
  <2>1. SUFFICES ASSUME fate # <<>> PROVE InFlight(r)'
    OBVIOUS
  <2>2. Len(more) = Len(fate) /\ 1 \in 1..Len(fate) /\ more[1].req = r
    BY <1>1, <2>1 DEF more
  <2>3. Contains(more, more[1])
    BY <2>2 DEF Contains
  <2> QED BY <1>5, <2>2, <2>3
<1>9. \A q : (\E m : Contains(rest, m) /\ m.req = q) => InFlight(q)'
  BY <1>5
<1>10. NetTyped'
  <2>1. severed' = severed
    BY DEF Carry
  <2> QED BY <1>5, <1>6, <1>7, <2>1 DEF NetTyped
<1> QED BY <1>7, <1>8, <1>9, <1>10

(* One worker goes on; the others stay as they were. *)
LEMMA GoesKeeps ==
  ASSUME ServeTyped, NEW l \in DOMAIN host, NEW w \in Workers, NEW to \in Task, Goes(l, w, to)
  PROVE  /\ worker' \in [Serves -> [Workers -> Task]]
         /\ worker'[l][w] = to
         /\ \A k \in Serves, v \in Workers : k # l \/ v # w => worker'[k][v] = worker[k][v]
<1>1. l \in Serves /\ worker \in [Serves -> [Workers -> Task]]
  BY ServeSays DEF ServeTyped
<1>2. worker' = [worker EXCEPT ![l] = [worker[l] EXCEPT ![w] = to]]
  BY <1>1 DEF Goes
<1> QED BY <1>1, <1>2
-----------------------------------------------------------------------------
(* A worker's steps *)

(* What every step of a worker leaves as it was, or keeps. *)
LEMMA GoesStands ==
  ASSUME WireSound, NEW l \in DOMAIN host, NEW w \in Workers, NEW to \in Task, Goes(l, w, to),
         worker[l][w].is \in {"ready", "handling", "holding"}, to.is # "none",
         to.is \in {"handling", "holding"} <=> to.req # 0,
         to.is = "done" => ~Listening(l)
  PROVE  /\ NodesTyped' /\ AskTyped' /\ WorkersStand' /\ ServersStand' /\ AskersStand'
         /\ program[host[l]] \notin {"new", "down"}
<1>1. /\ NodesTyped /\ AskTyped /\ ServeTyped
      /\ WorkersStand /\ ServersStand /\ AskersStand
  BY WireTyped DEF WireSound
<1>2. /\ nodeUp' = nodeUp /\ listener' = listener /\ program' = program /\ host' = host
      /\ asker' = asker /\ target' = target /\ outcome' = outcome /\ got' = got /\ client' = client
  BY DEF Goes, clientVars
<1>3. /\ worker'[l][w] = to
      /\ \A k \in Serves, v \in Workers : k # l \/ v # w => worker'[k][v] = worker[k][v]
  BY <1>1, GoesKeeps
<1>4. /\ DOMAIN host \subseteq Serves
      /\ \A n \in Servers : listener[n] # 0 => listener[n] \in DOMAIN host
  BY <1>1, ServeSays
<1>5. NodesTyped' /\ AskTyped'
  BY <1>1, <1>2 DEF NodesTyped, AskTyped, Asker, Sent
<1>6. program[host[l]] \notin {"new", "down"}
  BY <1>1, <1>4 DEF WorkersStand
<1>7. WorkersStand'
  BY <1>1, <1>2, <1>3, <1>4, <1>6 DEF WorkersStand
<1>8. ServersStand'
  <2>1. ASSUME NEW n \in Servers, listener[n] # 0, NEW v \in Workers
        PROVE  worker'[listener[n]][v].is # "done"
    <3>1. worker[listener[n]][v].is # "done" /\ host[listener[n]] = n
      BY <1>1, <2>1 DEF ServersStand
    <3>2. CASE listener[n] = l /\ v = w
      BY <1>3, <3>1, <3>2 DEF Listening
    <3>3. CASE ~(listener[n] = l /\ v = w)
      BY <1>3, <1>4, <2>1, <3>1, <3>3
    <3> QED BY <3>2, <3>3
  <2> QED BY <1>1, <1>2, <2>1 DEF ServersStand
<1>9. AskersStand'
  BY <1>1, <1>2 DEF AskersStand, Sent
<1> QED BY <1>5, <1>6, <1>7, <1>8, <1>9

(* The steps that leave the queues alone: who waits does so rightly. *)
LEMMA GoesWaits ==
  ASSUME WireSound, NEW l \in DOMAIN host, NEW w \in Workers, NEW to \in Task, Goes(l, w, to),
         queue' = queue, to.is = "blocked" => queue[l] = <<>> /\ Listening(l),
         to.is \in {"blocked", "done"} => queue[l] = <<>>,
         to.is \in TaskStates \ {"none"}
  PROVE  NoWaitIsLost'
<1>1. ServeTyped /\ NoWaitIsLost
  BY WireTyped DEF WireSound
<1>2. /\ listener' = listener /\ program' = program /\ host' = host
      /\ got' = got /\ client' = client
  BY DEF Goes, clientVars
<1>3. /\ worker'[l][w] = to
      /\ \A k \in Serves, v \in Workers : k # l \/ v # w => worker'[k][v] = worker[k][v]
  BY <1>1, GoesKeeps
<1>4. DOMAIN host \subseteq Serves
  BY <1>1, ServeSays
<1>5. ASSUME NEW k \in DOMAIN host
      PROVE  /\ \A v \in Workers : worker'[k][v].is = "blocked" => queue[k] = <<>> /\ Listening(k)
             /\ queue[k] # <<>> =>
                  \E v \in Workers : worker'[k][v].is \in {"ready", "handling", "holding"}
  <2>1. ASSUME NEW v \in Workers, worker'[k][v].is = "blocked"
        PROVE  queue[k] = <<>> /\ Listening(k)
    <3>1. CASE k = l /\ v = w
      BY <1>3, <2>1, <3>1
    <3>2. CASE ~(k = l /\ v = w)
      BY <1>1, <1>3, <1>4, <2>1, <3>2 DEF NoWaitIsLost
    <3> QED BY <3>1, <3>2
  <2>2. ASSUME queue[k] # <<>>
        PROVE  \E v \in Workers : worker'[k][v].is \in {"ready", "handling", "holding"}
    <3>1. PICK v \in Workers : worker[k][v].is \in {"ready", "handling", "holding"}
      BY <1>1, <2>2 DEF NoWaitIsLost
    <3>2. CASE k = l /\ v = w
      <4>1. to.is \in {"ready", "handling", "holding"}
        BY <2>2, <3>2 DEF TaskStates
      <4> QED BY <1>3, <3>2, <4>1
    <3>3. CASE ~(k = l /\ v = w)
      BY <1>3, <1>4, <3>1, <3>3
    <3> QED BY <3>2, <3>3
  <2> QED BY <2>1, <2>2
<1> QED BY <1>1, <1>2, <1>5 DEF NoWaitIsLost, Listening, Asking

LEMMA NextRequestKeeps ==
  ASSUME WireSound, NEW l \in DOMAIN host, NEW w \in Workers, NextRequest(l, w)
  PROVE  WireSound'
<1> DEFINE r == Head(queue[l])
           to == [is |-> "handling", req |-> r]
<1>1. /\ NetTyped /\ ServeTyped /\ LaterTyped /\ AskTyped /\ WorkersStand /\ BoxesAreSent
      /\ NoWaitIsLost /\ TicketsAreTheProcess
  BY WireTyped DEF WireSound
<1>2. /\ worker[l][w].is = "ready" /\ queue[l] # <<>>
      /\ Goes(l, w, to) /\ queue' = [queue EXCEPT ![l] = Tail(@)]
      /\ parked' = parked /\ held' = held
      /\ severed' = severed /\ flight' = flight /\ faults' = faults /\ vanished' = vanished
  BY DEF NextRequest, Ready, laterVars, netVars
<1>3. /\ nodeUp' = nodeUp /\ listener' = listener /\ program' = program /\ host' = host
      /\ asker' = asker /\ outcome' = outcome /\ got' = got /\ client' = client /\ Sent' = Sent
  BY <1>2 DEF Goes, clientVars, Sent
<1>4. /\ DOMAIN queue = DOMAIN host /\ DOMAIN host \subseteq Serves
      /\ queue[l] \in Seq(Sent) /\ 0 \notin Sent
  BY <1>1, ServeSays, AskSays
<1>5. /\ r \in Sent /\ Tail(queue[l]) \in Seq(Sent)
      /\ \A x : Contains(queue[l], x) => x = r \/ Contains(Tail(queue[l]), x)
  BY <1>2, <1>4, TailKeeps
<1>6. to \in Task
  BY <1>5 DEF Task, TaskStates
<1>7. /\ worker' \in [Serves -> [Workers -> Task]] /\ worker'[l][w] = to
      /\ \A k \in Serves, v \in Workers : k # l \/ v # w => worker'[k][v] = worker[k][v]
  BY <1>1, <1>2, <1>6, GoesKeeps
<1>8. /\ queue' \in Seq(Seq(Sent)) /\ Len(queue') = Len(queue)
      /\ \A k \in DOMAIN host : queue'[k] = IF k = l THEN Tail(queue[l]) ELSE queue[k]
  <2>1. queue \in Seq(Seq(Sent)) /\ DOMAIN queue = 1..Len(queue)
    BY <1>1, LenProperties DEF ServeTyped
  <2>2. l \in 1..Len(queue) /\ queue' = [queue EXCEPT ![l] = Tail(queue[l])]
    BY <1>2, <1>4, <2>1
  <2> HIDE DEF r
  <2> QED BY <1>4, <1>5, <2>1, <2>2, ExceptSeq
<1> HIDE DEF r
<1>9. /\ NodesTyped' /\ AskTyped' /\ WorkersStand' /\ ServersStand' /\ AskersStand'
  <2>1. r # 0
    BY <1>4, <1>5
  <2> QED BY <1>2, <1>6, <2>1, GoesStands
<1>10. ServeTyped'
  BY <1>1, <1>3, <1>7, <1>8 DEF ServeTyped, Task
<1>11. NetTyped' /\ LaterTyped' /\ BoxesAreSent' /\ TicketsAreTheProcess'
  BY <1>1, <1>2, <1>3 DEF NetTyped, LaterTyped, BoxesAreSent, TicketsAreTheProcess
<1>12. NoWaitIsLost'
  <2>1. ASSUME NEW k \in DOMAIN host
        PROVE  /\ \A v \in Workers : worker'[k][v].is = "blocked" => queue'[k] = <<>> /\ Listening(k)
               /\ queue'[k] # <<>> =>
                    \E v \in Workers : worker'[k][v].is \in {"ready", "handling", "holding"}
    <3>1. CASE k = l
      <4>1. worker'[k][w].is = "handling"
        BY <1>7, <3>1
      <4>2. \A v \in Workers : worker'[k][v].is # "blocked"
        BY <1>1, <1>2, <1>4, <1>7, <3>1 DEF NoWaitIsLost
      <4> QED BY <4>1, <4>2
    <3>2. CASE k # l
      <4>1. queue'[k] = queue[k] /\ \A v \in Workers : worker'[k][v] = worker[k][v]
        BY <1>4, <1>7, <1>8, <3>2
      <4> QED BY <1>1, <4>1 DEF NoWaitIsLost
    <3> QED BY <3>1, <3>2
  <2> QED BY <1>1, <1>3, <2>1 DEF NoWaitIsLost, Listening, Asking
<1>13. NoneVanishes'
  <2>1. ASSUME NEW q \in Sent, Queued(q) PROVE StaysPut(q)
    <3>1. PICK k \in DOMAIN host : Contains(queue[k], q)
      BY <2>1 DEF Queued
    <3>2. CASE k # l \/ Contains(Tail(queue[l]), q)
      BY <1>3, <1>8, <3>1, <3>2 DEF StaysPut, Queued
    <3>3. CASE q = r
      BY <1>3, <1>7, <3>3 DEF StaysPut, AtWork
    <3> QED BY <1>5, <3>1, <3>2, <3>3
  <2>2. ASSUME NEW q \in Sent, AtWork(q) PROVE StaysPut(q)
    <3>1. PICK k \in DOMAIN host, v \in Workers : worker[k][v].req = q
      BY <2>2 DEF AtWork
    <3>2. ~(k = l /\ v = w)
      BY <1>1, <1>2, <1>4, <3>1 DEF WorkersStand
    <3> QED BY <1>3, <1>4, <1>7, <3>1, <3>2 DEF StaysPut, AtWork
  <2>3. ASSUME NEW q \in Sent, q \in vanished \/ InFlight(q) \/ parked[q] # "none" \/ got[q] # <<>>
        PROVE  StaysPut(q)
    BY <1>2, <1>3, <2>3 DEF StaysPut, InFlight
  <2> QED BY <1>3, <2>1, <2>2, <2>3, NoneVanishesStep
<1> QED BY <1>9, <1>10, <1>11, <1>12, <1>13, SoundNext

(* A worker that goes on without a queue or a network: what else it keeps. *)
LEMMA GoesOn ==
  ASSUME WireSound, NEW l \in DOMAIN host, NEW w \in Workers, NEW to \in Task, Goes(l, w, to),
         queue' = queue
  PROVE  /\ ServeTyped'
         /\ UNCHANGED <<severed, flight, faults, vanished>> => NetTyped'
         /\ parked' = parked => BoxesAreSent'
         /\ \A q \in Sent : Queued(q) => StaysPut(q)
         /\ \A q \in Sent : AtWork(q) => q = worker[l][w].req \/ StaysPut(q)
         /\ \A q \in Sent : got[q] # <<>> => StaysPut(q)
<1>1. NetTyped /\ ServeTyped /\ BoxesAreSent /\ DOMAIN host \subseteq Serves
  BY WireTyped, ServeSays DEF WireSound
<1>2. /\ listener' = listener /\ program' = program /\ host' = host
      /\ asker' = asker /\ got' = got /\ Sent' = Sent
  BY DEF Goes, clientVars, Sent
<1>3. /\ worker' \in [Serves -> [Workers -> Task]]
      /\ \A k \in Serves, v \in Workers : k # l \/ v # w => worker'[k][v] = worker[k][v]
  BY <1>1, GoesKeeps
<1>4. ServeTyped'
  BY <1>1, <1>2, <1>3 DEF ServeTyped, Task
<1>5. UNCHANGED <<severed, flight, faults, vanished>> => NetTyped'
  BY <1>1, <1>2 DEF NetTyped
<1>6. parked' = parked => BoxesAreSent'
  BY <1>1, <1>2 DEF BoxesAreSent
<1>7. ASSUME NEW q \in Sent, AtWork(q), q # worker[l][w].req PROVE StaysPut(q)
  <2>1. PICK k \in DOMAIN host, v \in Workers : worker[k][v].req = q
    BY <1>7 DEF AtWork
  <2>2. k # l \/ v # w
    BY <1>7, <2>1
  <2>3. worker'[k][v] = worker[k][v]
    BY <1>1, <1>3, <2>2
  <2> QED BY <1>2, <2>1, <2>3 DEF StaysPut, AtWork
<1>8. \A q \in Sent : Queued(q) \/ got[q] # <<>> => StaysPut(q)
  BY <1>2 DEF StaysPut, Queued
<1> QED BY <1>4, <1>5, <1>6, <1>7, <1>8

(* Waiting and ending leave everything but the worker alone. *)
LEMMA RestsKeeps ==
  ASSUME WireSound, NEW l \in DOMAIN host, NEW w \in Workers, Wait(l, w) \/ EndWork(l, w)
  PROVE  WireSound'
<1> DEFINE to == [is |-> IF Wait(l, w) THEN "blocked" ELSE "done", req |-> 0]
<1>1. /\ worker[l][w].is = "ready" /\ queue[l] = <<>> /\ Goes(l, w, to) /\ queue' = queue
      /\ to.is = "blocked" => Listening(l)
      /\ to.is = "done" => ~Listening(l)
      /\ parked' = parked /\ held' = held
      /\ severed' = severed /\ flight' = flight /\ faults' = faults /\ vanished' = vanished
  BY DEF Wait, EndWork, Ready, laterVars, netVars
<1>2. /\ to \in Task /\ to.is \in {"blocked", "done"} /\ to.req = 0
      /\ to.is \in TaskStates \ {"none"}
  BY DEF Task, TaskStates
<1> HIDE DEF to
<1>3. /\ LaterTyped /\ WorkersStand /\ TicketsAreTheProcess /\ 0 \notin Sent
      /\ l \in Serves
  BY WireTyped, AskSays, ServeSays DEF WireSound
<1>4. /\ asker' = asker /\ outcome' = outcome /\ nodeUp' = nodeUp /\ program' = program
      /\ Sent' = Sent
  BY <1>1 DEF Goes, clientVars, Sent
<1>5. NodesTyped' /\ AskTyped' /\ WorkersStand' /\ ServersStand' /\ AskersStand'
  BY <1>1, <1>2, GoesStands
<1>6. NoWaitIsLost'
  BY <1>1, <1>2, GoesWaits
<1>7. ServeTyped' /\ NetTyped' /\ BoxesAreSent'
  BY <1>1, <1>2, GoesOn
<1>8. LaterTyped' /\ TicketsAreTheProcess'
  BY <1>1, <1>3, <1>4 DEF LaterTyped, TicketsAreTheProcess
<1>9. NoneVanishes'
  <2>1. worker[l][w].req = 0
    BY <1>1, <1>3 DEF WorkersStand
  <2>2. \A q \in Sent : Queued(q) \/ AtWork(q) \/ got[q] # <<>> => StaysPut(q)
    BY <1>1, <1>2, <1>3, <2>1, GoesOn
  <2>3. \A q \in Sent : q \in vanished \/ InFlight(q) \/ parked[q] # "none" => StaysPut(q)
    BY <1>1 DEF StaysPut, InFlight
  <2> QED BY <1>4, <2>2, <2>3, NoneVanishesStep
<1> QED BY <1>5, <1>6, <1>7, <1>8, <1>9, SoundNext

(* A request in a handler was sent, and its node runs. *)
LEMMA HandledIsSent ==
  ASSUME WireSound, NEW l \in DOMAIN host, NEW w \in Workers, InHandler(l, w)
  PROVE  /\ worker[l][w].req \in Sent /\ worker[l][w].is \in {"handling", "holding"}
         /\ host[l] \in Servers /\ program[host[l]] \notin {"new", "down"}
<1>1. ServeTyped /\ WorkersStand /\ l \in Serves /\ host[l] \in Servers
  BY WireTyped, ServeSays DEF WireSound
<1>2. worker[l][w] \in Task
  BY <1>1 DEF ServeTyped
<1>3. worker[l][w].is \in {"handling", "holding"}
  BY DEF InHandler
<1> QED BY <1>1, <1>2, <1>3 DEF WorkersStand, Task

LEMMA HoldKeeps ==
  ASSUME WireSound, NEW l \in DOMAIN host, NEW w \in Workers, Hold(l, w)
  PROVE  WireSound'
<1> DEFINE r == worker[l][w].req
           n == host[l]
           to == [is |-> "holding", req |-> r]
<1>1. /\ InHandler(l, w) /\ Goes(l, w, to) /\ queue' = queue /\ parked' = parked
      /\ held' = [held EXCEPT ![n] = Append(@, r)]
      /\ severed' = severed /\ flight' = flight /\ faults' = faults /\ vanished' = vanished
  BY DEF Hold, netVars
<1>2. /\ r \in Sent /\ worker[l][w].is \in {"handling", "holding"}
      /\ n \in Servers /\ program[n] \notin {"new", "down"}
  BY <1>1, HandledIsSent
<1>3. /\ LaterTyped /\ AskTyped /\ TicketsAreTheProcess /\ 0 \notin Sent /\ l \in Serves
  BY WireTyped, AskSays, ServeSays DEF WireSound
<1>4. /\ to \in Task /\ to.is = "holding" /\ to.req = r /\ r # 0
      /\ to.is \in TaskStates \ {"none"}
  BY <1>2, <1>3 DEF Task, TaskStates
<1>5. worker'[l][w] = to
  BY <1>1, <1>4, GoesKeeps, WireTyped DEF WireSound
<1> HIDE DEF to, r
<1>6. /\ asker' = asker /\ outcome' = outcome /\ nodeUp' = nodeUp /\ program' = program
      /\ host' = host /\ Sent' = Sent
  BY <1>1 DEF Goes, clientVars, Sent
<1>7. NodesTyped' /\ AskTyped' /\ WorkersStand' /\ ServersStand' /\ AskersStand'
  BY <1>1, <1>2, <1>4, GoesStands
<1>8. NoWaitIsLost'
  BY <1>1, <1>4, GoesWaits
<1>9. ServeTyped' /\ NetTyped' /\ BoxesAreSent'
  BY <1>1, <1>4, GoesOn
<1>10. LaterTyped'
  <2>1. held[n] \in Seq(Sent)
    BY <1>2, <1>3 DEF LaterTyped
  <2>2. Append(held[n], r) \in Seq(Sent)
    BY <1>2, <2>1, AppendKeeps
  <2> QED BY <1>1, <1>3, <1>6, <2>2 DEF LaterTyped
<1>11. TicketsAreTheProcess'
  BY <1>1, <1>2, <1>3, <1>6 DEF TicketsAreTheProcess, LaterTyped
<1>12. NoneVanishes'
  <2>1. \A q \in Sent : Queued(q) \/ got[q] # <<>> => StaysPut(q)
    BY <1>1, <1>4, GoesOn
  <2>2. \A q \in Sent : AtWork(q) => q = r \/ StaysPut(q)
    BY <1>1, <1>4, GoesOn DEF r
  <2>3. \A q \in Sent : q = r => StaysPut(q)
    BY <1>4, <1>5, <1>6 DEF StaysPut, AtWork
  <2>4. \A q \in Sent : q \in vanished \/ InFlight(q) \/ parked[q] # "none" => StaysPut(q)
    BY <1>1 DEF StaysPut, InFlight
  <2> QED BY <1>6, <2>1, <2>2, <2>3, <2>4, NoneVanishesStep
<1> QED BY <1>7, <1>8, <1>9, <1>10, <1>11, <1>12, SoundNext

LEMMA ParkKeeps ==
  ASSUME WireSound, NEW l \in DOMAIN host, NEW w \in Workers, Park(l, w)
  PROVE  WireSound'
<1> DEFINE r == worker[l][w].req
           n == host[l]
           to == [is |-> "ready", req |-> 0]
<1>1. /\ InHandler(l, w) /\ Goes(l, w, to) /\ queue' = queue /\ held' = held
      /\ parked' = [parked EXCEPT ![r] = n]
      /\ severed' = severed /\ flight' = flight /\ faults' = faults /\ vanished' = vanished
  BY DEF Park, netVars
<1>2. /\ r \in Sent /\ worker[l][w].is \in {"handling", "holding"}
      /\ n \in Servers /\ program[n] \notin {"new", "down"} /\ n # "none"
  BY <1>1, HandledIsSent, WireNodesAssumption
<1>3. /\ LaterTyped /\ AskTyped /\ TicketsAreTheProcess /\ BoxesAreSent
      /\ Sent \subseteq Requests
  BY WireTyped, AskSays DEF WireSound
<1>4. /\ to \in Task /\ to.is = "ready" /\ to.req = 0 /\ to.is \in TaskStates \ {"none"}
  BY DEF Task, TaskStates
<1> HIDE DEF to, r
<1>5. /\ asker' = asker /\ outcome' = outcome /\ nodeUp' = nodeUp /\ program' = program
      /\ host' = host /\ got' = got /\ Sent' = Sent
  BY <1>1 DEF Goes, clientVars, Sent
<1>6. NodesTyped' /\ AskTyped' /\ WorkersStand' /\ ServersStand' /\ AskersStand'
  BY <1>1, <1>2, <1>4, GoesStands
<1>7. NoWaitIsLost'
  BY <1>1, <1>4, GoesWaits
<1>8. ServeTyped' /\ NetTyped'
  BY <1>1, <1>4, GoesOn
<1>9. \A q \in Requests : parked'[q] = IF q = r THEN n ELSE parked[q]
  BY <1>1, <1>3 DEF LaterTyped
<1>10. LaterTyped' /\ BoxesAreSent' /\ TicketsAreTheProcess'
  <2>1. LaterTyped'
    BY <1>1, <1>2, <1>3, <1>5 DEF LaterTyped
  <2>2. BoxesAreSent'
    BY <1>2, <1>3, <1>5, <1>9 DEF BoxesAreSent
  <2>3. TicketsAreTheProcess'
    BY <1>1, <1>2, <1>3, <1>5, <1>9 DEF TicketsAreTheProcess
  <2> QED BY <2>1, <2>2, <2>3
<1>11. NoneVanishes'
  <2>1. \A q \in Sent : Queued(q) \/ got[q] # <<>> => StaysPut(q)
    BY <1>1, <1>4, GoesOn
  <2>2. \A q \in Sent : AtWork(q) => q = r \/ StaysPut(q)
    BY <1>1, <1>4, GoesOn DEF r
  <2>3. \A q \in Sent : q = r \/ parked[q] # "none" => StaysPut(q)
    BY <1>2, <1>3, <1>9 DEF StaysPut
  <2>4. \A q \in Sent : q \in vanished \/ InFlight(q) => StaysPut(q)
    BY <1>1 DEF StaysPut, InFlight
  <2> QED BY <1>5, <2>1, <2>2, <2>3, <2>4, NoneVanishesStep
<1> QED BY <1>6, <1>7, <1>8, <1>10, <1>11, SoundNext

(* An answer leaves a worker, or a table, for the link. *)
LEMMA AnswerKeeps ==
  ASSUME WireSound, NEW l \in DOMAIN host, NEW w \in Workers, NEW fate, Answer(l, w, fate)
  PROVE  WireSound'
<1> DEFINE to == [is |-> "ready", req |-> 0]
<1>1. /\ InHandler(l, w) /\ Goes(l, w, to) /\ queue' = queue /\ held' = held /\ parked' = parked
  BY DEF Answer, laterVars
<1>2. PICK r \in Sent : r = worker[l][w].req
  BY <1>1, HandledIsSent
<1>3. /\ fate \in Fates(Link(r)) /\ Carry(flight, "answer", r, Link(r), fate)
      /\ worker[l][w].is \in {"handling", "holding"}
  BY <1>1, <1>2, HandledIsSent DEF Answer
<1>4. /\ NetTyped /\ LaterTyped /\ AskTyped /\ TicketsAreTheProcess
  BY WireTyped DEF WireSound
<1>5. /\ to \in Task /\ to.is = "ready" /\ to.req = 0 /\ to.is \in TaskStates \ {"none"}
  BY DEF Task, TaskStates
<1> HIDE DEF to
<1>6. /\ asker' = asker /\ outcome' = outcome /\ nodeUp' = nodeUp /\ program' = program
      /\ Sent' = Sent
  BY <1>1 DEF Goes, clientVars, Sent
<1>7. NodesTyped' /\ AskTyped' /\ WorkersStand' /\ ServersStand' /\ AskersStand'
  BY <1>1, <1>3, <1>5, GoesStands
<1>8. NoWaitIsLost'
  BY <1>1, <1>5, GoesWaits
<1>9. ServeTyped' /\ BoxesAreSent'
  BY <1>1, <1>5, GoesOn
<1>10. LaterTyped' /\ TicketsAreTheProcess'
  BY <1>1, <1>4, <1>6 DEF LaterTyped, TicketsAreTheProcess
<1>11. /\ NetTyped' /\ vanished \subseteq vanished'
       /\ \A q : InFlight(q) => InFlight(q)'
       /\ InFlight(r)' \/ r \in vanished' \/ r \in AllSettled
  <2>1. flight \in Seq(Message(Sent')) /\ r \in Sent' /\ "answer" \in MessageKinds
    BY <1>4, <1>6 DEF NetTyped, MessageKinds, RequestKinds, ReplyKinds
  <2> QED BY <1>3, <1>4, <1>6, <2>1, CarryKeeps, FlightHolds
<1>12. NoneVanishes'
  <2>1. \A q \in Sent : Queued(q) \/ got[q] # <<>> => StaysPut(q)
    BY <1>1, <1>5, GoesOn
  <2>2. \A q \in Sent : AtWork(q) => q = r \/ StaysPut(q)
    BY <1>1, <1>2, <1>5, GoesOn
  <2>3. outcome[r] = "pending" => StaysPut(r)
    BY <1>11 DEF StaysPut, AllSettled
  <2>4. \A q \in Sent : q \in vanished \/ parked[q] # "none" \/ InFlight(q) => StaysPut(q)
    BY <1>1, <1>11 DEF StaysPut
  <2> QED BY <1>6, <2>1, <2>2, <2>3, <2>4, NoneVanishesStep
<1> QED BY <1>7, <1>8, <1>9, <1>10, <1>11, <1>12, SoundNext

-----------------------------------------------------------------------------
(* A step that leaves one side of the world alone *)

LEMMA ServersSame ==
  ASSUME WireSound, UNCHANGED serverVars, UNCHANGED asker,
         \A n \in Servers : nodeUp'[n] = nodeUp[n]
  PROVE  /\ ServeTyped' /\ WorkersStand' /\ ServersStand' /\ WorkersWait'
         /\ nodeUp' = nodeUp => NodesTyped'
         /\ \A q \in Sent : Queued(q) \/ AtWork(q) => StaysPut(q)
<1>1. /\ NodesTyped /\ ServeTyped /\ WorkersStand /\ ServersStand /\ WorkersWait
  BY WireTyped, WaitsSplit DEF WireSound
<1>2. /\ listener' = listener /\ program' = program /\ queue' = queue /\ host' = host
      /\ worker' = worker /\ Sent' = Sent
  BY DEF serverVars, Sent
<1>3. ServeTyped' /\ (nodeUp' = nodeUp => NodesTyped')
  BY <1>1, <1>2 DEF NodesTyped, ServeTyped, Task
<1>4. WorkersStand' /\ ServersStand'
  BY <1>1, <1>2 DEF WorkersStand, ServersStand
<1>5. WorkersWait'
  BY <1>1, <1>2 DEF WorkersWait, Listening
<1>6. \A q \in Sent : Queued(q) \/ AtWork(q) => StaysPut(q)
  BY <1>2 DEF StaysPut, Queued, AtWork
<1> QED BY <1>3, <1>4, <1>5, <1>6

LEMMA ClientsSame ==
  ASSUME WireSound, UNCHANGED clientVars, \A c \in Askers : nodeUp'[c] = nodeUp[c]
  PROVE  /\ AskTyped' /\ AskersStand' /\ AskersWait' /\ Sent' = Sent
         /\ parked' = parked => BoxesAreSent'
         /\ \A q \in Sent : got[q] # <<>> => StaysPut(q)
         /\ \A q \in Sent : nodeUp'[asker[q]] = nodeUp[asker[q]]
<1>1. AskTyped /\ AskersStand /\ AskersWait /\ BoxesAreSent
  BY WireTyped, WaitsSplit DEF WireSound
<1>2. /\ asker' = asker /\ target' = target /\ outcome' = outcome /\ got' = got /\ client' = client
      /\ Sent' = Sent
  BY DEF clientVars, Sent
<1>3. AskTyped'
  BY <1>1, <1>2 DEF AskTyped, Asker
<1>4. AskersWait'
  BY <1>1, <1>2 DEF AskersWait, Asking
<1>5. parked' = parked => BoxesAreSent'
  BY <1>1, <1>2 DEF BoxesAreSent
<1>6. \A q \in Sent : got[q] # <<>> => StaysPut(q)
  BY <1>2 DEF StaysPut
<1>7. \A q \in Sent : asker[q] \in Askers
  BY <1>1, AskSays
<1>8. AskersStand'
  BY <1>1, <1>2, <1>7 DEF AskersStand
<1> QED BY <1>2, <1>3, <1>4, <1>5, <1>6, <1>7, <1>8

LEMMA NetworkSame ==
  ASSUME WireSound, UNCHANGED <<severed, flight, faults, vanished, asker>>
  PROVE  /\ NetTyped'
         /\ \A q \in Sent : q \in vanished \/ InFlight(q) => StaysPut(q)
<1>1. NetTyped
  BY WireTyped DEF WireSound
<1>2. Sent' = Sent
  BY DEF Sent
<1> QED BY <1>1, <1>2 DEF NetTyped, StaysPut, InFlight

LEMMA TicketsSame ==
  ASSUME WireSound, UNCHANGED laterVars, UNCHANGED <<asker, got>>
  PROVE  /\ LaterTyped' /\ BoxesAreSent'
         /\ \A q \in Sent : parked[q] # "none" => StaysPut(q)
         /\ program' = program => TicketsAreTheProcess'
<1>1. LaterTyped /\ BoxesAreSent /\ TicketsAreTheProcess
  BY WireTyped DEF WireSound
<1>2. Sent' = Sent /\ parked' = parked /\ held' = held
  BY DEF Sent, laterVars
<1> QED
  BY <1>1, <1>2 DEF LaterTyped, BoxesAreSent, TicketsAreTheProcess, StaysPut

-----------------------------------------------------------------------------
(* Answers given later *)

LEMMA RespondKeeps ==
  ASSUME WireSound, NEW r \in Requests, NEW fate, Respond(r, fate)
  PROVE  WireSound'
<1>1. /\ parked[r] # "none" /\ parked' = [parked EXCEPT ![r] = "none"] /\ held' = held
      /\ fate \in Fates(Link(r)) /\ Carry(flight, "answer", r, Link(r), fate)
      /\ UNCHANGED serverVars /\ UNCHANGED clientVars /\ nodeUp' = nodeUp
      /\ asker' = asker /\ got' = got /\ outcome' = outcome /\ program' = program
  BY DEF Respond, clientVars, serverVars
<1>2. /\ NetTyped /\ LaterTyped /\ BoxesAreSent /\ TicketsAreTheProcess
  BY WireTyped DEF WireSound
<1>3. r \in Sent /\ Sent' = Sent
  BY <1>1, <1>2 DEF BoxesAreSent, Sent
<1>4. /\ NodesTyped' /\ ServeTyped' /\ WorkersStand' /\ ServersStand' /\ WorkersWait'
      /\ \A q \in Sent : Queued(q) \/ AtWork(q) => StaysPut(q)
  BY <1>1, ServersSame
<1>5. /\ AskTyped' /\ AskersStand' /\ AskersWait'
      /\ \A q \in Sent : got[q] # <<>> => StaysPut(q)
  BY <1>1, ClientsSame
<1>6. /\ NetTyped' /\ vanished \subseteq vanished'
      /\ \A q : InFlight(q) => InFlight(q)'
      /\ InFlight(r)' \/ r \in vanished' \/ r \in AllSettled
  <2>1. flight \in Seq(Message(Sent')) /\ r \in Sent' /\ "answer" \in MessageKinds
    BY <1>2, <1>3 DEF NetTyped, MessageKinds, RequestKinds, ReplyKinds
  <2> QED BY <1>1, <1>2, <1>3, <2>1, CarryKeeps, FlightHolds
<1>7. \A q \in Requests : parked'[q] = IF q = r THEN "none" ELSE parked[q]
  BY <1>1, <1>2 DEF LaterTyped
<1>8. LaterTyped' /\ BoxesAreSent' /\ TicketsAreTheProcess'
  <2>1. LaterTyped'
    BY <1>1, <1>2, <1>3 DEF LaterTyped
  <2>2. BoxesAreSent'
    BY <1>1, <1>2, <1>3, <1>7 DEF BoxesAreSent
  <2>3. TicketsAreTheProcess'
    BY <1>1, <1>2, <1>7, WireNodesAssumption DEF TicketsAreTheProcess
  <2> QED BY <2>1, <2>2, <2>3
<1>9. NoneVanishes'
  <2>1. \A q \in Sent : q \in Requests
    BY AskSays, WireTyped DEF WireSound
  <2>2. \A q \in Sent : parked[q] # "none" /\ outcome[q] = "pending" => StaysPut(q)
    BY <1>6, <1>7, <2>1 DEF StaysPut, AllSettled
  <2>3. \A q \in Sent : q \in vanished \/ InFlight(q) => StaysPut(q)
    BY <1>6 DEF StaysPut
  <2> QED BY <1>1, <1>4, <1>5, <2>2, <2>3, NoneVanishesStep
<1> QED BY <1>4, <1>5, <1>6, <1>8, <1>9, WaitsNext, SoundNext

(* A ticket held in a list has a first place there. *)
LEMMA FirstPlace ==
  ASSUME NEW S, NEW s \in Seq(S), NEW x, Contains(s, x)
  PROVE  \E i \in DOMAIN s : s[i] = x /\ \A j \in 1..(i - 1) : s[j] # s[i]
<1> DEFINE P == {i \in DOMAIN s : s[i] = x}
<1>1. Len(s) \in Nat /\ DOMAIN s = 1..Len(s)
  BY LenProperties
<1>2. P \in SUBSET Nat /\ P # {}
  BY <1>1 DEF Contains
<1>3. PICK i \in P : \A m \in P : i <= m
  BY <1>2, Least
<1>4. ASSUME NEW j \in 1..(i - 1) PROVE s[j] # s[i]
  <2>1. j \in DOMAIN s /\ ~(i <= j)
    BY <1>1, <1>3
  <2> QED BY <1>3, <2>1
<1> QED BY <1>3, <1>4

(* A fate is at most two times. *)
LEMMA FateIsShort ==
  ASSUME NEW fate \in AnyFate
  PROVE  /\ DOMAIN fate \subseteq 1..2 /\ \A k \in DOMAIN fate : fate[k] \in Nat
         /\ fate # <<>> => 1 \in DOMAIN fate
<1>1. CASE fate = <<>>
  BY <1>1
<1>2. ASSUME NEW d \in Latencies, fate = <<d>>
      PROVE  DOMAIN fate = {1} /\ fate[1] \in Nat
  BY <1>2, TimesAssumption
<1>3. ASSUME NEW d \in Latencies, NEW e \in Latencies, fate = <<d, e>>
      PROVE  DOMAIN fate = {1, 2} /\ fate[1] \in Nat /\ fate[2] \in Nat
  BY <1>3, TimesAssumption
<1> QED BY <1>1, <1>2, <1>3 DEF AnyFate

(* Copies of finitely many places are finitely many. *)
LEMMA FewPlaces ==
  ASSUME NEW n \in Nat, NEW P \in SUBSET ((1..n) \X (1..2))
  PROVE  IsFiniteSet(P) /\ P \subseteq Nat \X Nat
<1>1. \A a, b \in Int : IsFiniteSet(a..b)
  BY FS_Interval
<1>2. IsFiniteSet(1..n) /\ IsFiniteSet(1..2)
  <2>1. 1 \in Int /\ 2 \in Int /\ n \in Int
    OBVIOUS
  <2> QED BY <1>1, <2>1
<1>3. IsFiniteSet((1..n) \X (1..2))
  BY <1>2, FS_Product
<1>4. P \subseteq (1..n) \X (1..2)
  OBVIOUS
<1>5. IsFiniteSet(P)
  BY <1>3, <1>4, FS_Subset
<1>6. 1..n \subseteq Nat /\ 1..2 \subseteq Nat
  OBVIOUS
<1> QED BY <1>4, <1>5, <1>6

LEMMA NotifyKeeps ==
  ASSUME WireSound, NEW n \in Servers, Notify(n)
  PROVE  WireSound'
<1> DEFINE list == held[n]
           first == {i \in DOMAIN list : \A j \in 1..(i - 1) : list[j] # list[i]}
           there == {i \in first : parked[list[i]] # "none"}
<1>0. PICK fate \in [there -> AnyFate] :
        LET faulted == {i \in there : Len(fate[i]) # 1 /\ Link(list[i]) \notin severed}
            places == UNION {{i} \X DOMAIN fate[i] : i \in there}
        IN
        /\ faults' = faults + Cardinality(faulted) /\ faults' <= MaxFaults
        /\ \E s \in InOrder(places) :
             flight' = flight \o
               [k \in DOMAIN s |-> [kind |-> "answer", req |-> list[s[k][1]],
                                   at |-> fate[s[k][1]][s[k][2]]]]
        /\ vanished' = Lost({list[i] : i \in {j \in there : fate[j] = <<>>}})
  BY DEF Notify
<1> DEFINE lost == {j \in there : fate[j] = <<>>}
           faulted == {i \in there : Len(fate[i]) # 1 /\ Link(list[i]) \notin severed}
           P == UNION {{i} \X DOMAIN fate[i] : i \in there}
<1>1. /\ held' = [held EXCEPT ![n] = <<>>]
      /\ parked' = [r \in Requests |-> IF Contains(list, r) THEN "none" ELSE parked[r]]
      /\ vanished' = Lost({list[i] : i \in lost})
      /\ severed' = severed
      /\ UNCHANGED serverVars /\ UNCHANGED clientVars /\ nodeUp' = nodeUp
      /\ asker' = asker /\ got' = got /\ outcome' = outcome /\ program' = program /\ Sent' = Sent
  BY <1>0 DEF Notify, clientVars, serverVars, Sent
<1>2. PICK order \in InOrder(P) :
        flight' = flight \o
          [k \in DOMAIN order |-> [kind |-> "answer", req |-> list[order[k][1]],
                                  at |-> fate[order[k][1]][order[k][2]]]]
  BY <1>0
<1>3. /\ NetTyped /\ LaterTyped /\ BoxesAreSent /\ TicketsAreTheProcess /\ Sent \subseteq Requests
  BY WireTyped, AskSays DEF WireSound
<1>4. /\ list \in Seq(Sent) /\ Len(list) \in Nat /\ DOMAIN list = 1..Len(list)
  BY <1>3, LenProperties DEF LaterTyped
<1>5. \A i \in DOMAIN list : list[i] \in Sent
  BY <1>4, ElementOfSeq
<1>6. /\ there \subseteq DOMAIN list /\ lost \subseteq DOMAIN list
      /\ \A p \in P : p = <<p[1], p[2]>> /\ p[1] \in there /\ p[2] \in DOMAIN fate[p[1]]
      /\ \A i \in there : \A k \in DOMAIN fate[i] : <<i, k>> \in P
  OBVIOUS
<1> HIDE DEF P
<1>7. /\ \A i \in there : fate[i] \in AnyFate
      /\ \A p \in P : p \in (1..Len(list)) \X (1..2) /\ p[1] \in DOMAIN list
                       /\ fate[p[1]][p[2]] \in Nat
  <2> HIDE DEF there
  <2>1. \A i \in there : fate[i] \in AnyFate
    BY <1>0
  <2>2. ASSUME NEW p \in P
        PROVE  p \in (1..Len(list)) \X (1..2) /\ p[1] \in DOMAIN list /\ fate[p[1]][p[2]] \in Nat
    <3>1. fate[p[1]] \in AnyFate /\ p[1] \in 1..Len(list) /\ p[2] \in DOMAIN fate[p[1]]
      BY <1>4, <1>6, <2>1
    <3>2. p[2] \in 1..2 /\ fate[p[1]][p[2]] \in Nat
      BY <3>1, FateIsShort
    <3> QED BY <1>4, <1>6, <3>1, <3>2
  <2> QED BY <2>1, <2>2
<1>8. /\ order \in [1..Cardinality(P) -> P] /\ Cardinality(P) \in Nat /\ DOMAIN order = 1..Cardinality(P)
      /\ \A x \in P : \E k \in DOMAIN order : order[k] = x
  <2>1. IsFiniteSet(P) /\ P \subseteq Nat \X Nat
    BY <1>4, <1>7, FewPlaces
  <2> QED BY <1>2, <2>1, InOrderAll
<1> DEFINE more == [k \in DOMAIN order |-> [kind |-> "answer", req |-> list[order[k][1]],
                                           at |-> fate[order[k][1]][order[k][2]]]]
<1>9. /\ flight' \in Seq(Message(Sent))
      /\ \A q : InFlight(q) => InFlight(q)'
      /\ \A q : (\E k \in DOMAIN order : list[order[k][1]] = q) => InFlight(q)'
  <2> HIDE DEF list, there
  <2>1. \A k \in 1..Cardinality(P) :
          [kind |-> "answer", req |-> list[order[k][1]],
           at |-> fate[order[k][1]][order[k][2]]] \in Message(Sent)
    <3>1. ASSUME NEW k \in 1..Cardinality(P)
          PROVE  list[order[k][1]] \in Sent /\ fate[order[k][1]][order[k][2]] \in Nat
      BY <1>5, <1>7, <1>8
    <3> QED BY <3>1 DEF Message, MessageKinds, ReplyKinds
  <2>2. more \in Seq(Message(Sent))
    <3> DEFINE M == Message(Sent)
    <3> HIDE DEF M
    <3>1. [k \in 1..Cardinality(P) |-> [kind |-> "answer", req |-> list[order[k][1]],
                                        at |-> fate[order[k][1]][order[k][2]]]] \in Seq(M)
      BY <1>8, <2>1, IsASeq DEF M
    <3> QED BY <1>8, <3>1 DEF M
  <2>3. flight \in Seq(Message(Sent)) /\ flight' = flight \o more
    BY <1>2, <1>3 DEF NetTyped
  <2>4. \A k \in DOMAIN order : Contains(more, more[k]) /\ more[k].req = list[order[k][1]]
    <3>1. Len(more) = Cardinality(P)
      BY <1>8
    <3> QED BY <1>8, <3>1 DEF Contains
  <2> HIDE DEF more
  <2>5. /\ flight' \in Seq(Message(Sent))
        /\ \A q : (\E m : (Contains(flight, m) \/ Contains(more, m)) /\ m.req = q) => InFlight(q)'
    BY <2>2, <2>3, FlightGrows
  <2> QED BY <1>3, <2>4, <2>5, FlightHolds
<1> HIDE DEF more
<1>10. vanished' \subseteq Sent /\ vanished \subseteq vanished'
  BY <1>1, <1>3, <1>5, <1>6 DEF Lost, NetTyped
<1>11. NetTyped'
  <2>1. faults' \in 0..MaxFaults
    <3> HIDE DEF there
    <3>1. IsFiniteSet(faulted)
      <4>1. IsFiniteSet(1..Len(list)) /\ faulted \subseteq 1..Len(list)
        BY <1>4, <1>6, FS_Interval
      <4> QED BY <4>1, FS_Subset
    <3>2. Cardinality(faulted) \in Nat
      BY <3>1, FS_CardinalityType
    <3>3. faults \in Nat /\ faults' = faults + Cardinality(faulted) /\ faults' <= MaxFaults
      BY <1>0, <1>3 DEF NetTyped
    <3> HIDE DEF faulted
    <3> QED BY <3>2, <3>3, WireBoundsAssumption
  <2> QED BY <1>1, <1>3, <1>9, <1>10, <2>1 DEF NetTyped
<1>12. /\ NodesTyped' /\ ServeTyped' /\ WorkersStand' /\ ServersStand' /\ WorkersWait'
       /\ \A q \in Sent : Queued(q) \/ AtWork(q) => StaysPut(q)
  BY <1>1, ServersSame
<1>13. /\ AskTyped' /\ AskersStand' /\ AskersWait'
       /\ \A q \in Sent : got[q] # <<>> => StaysPut(q)
  BY <1>1, ClientsSame
<1>14. \A q \in Requests : parked'[q] = IF Contains(list, q) THEN "none" ELSE parked[q]
  BY <1>1
<1>15. LaterTyped' /\ BoxesAreSent' /\ TicketsAreTheProcess'
  <2> HIDE DEF list, lost
  <2>1. LaterTyped'
    <3>1. <<>> \in Seq(Sent)
      BY EmptySeq
    <3> QED BY <1>1, <1>3, <3>1 DEF LaterTyped
  <2>2. BoxesAreSent'
    BY <1>1, <1>3, <1>14 DEF BoxesAreSent
  <2>3. TicketsAreTheProcess'
    <3>1. \A m \in Servers : held'[m] = <<>> \/ held'[m] = held[m]
      BY <1>1, <1>3 DEF LaterTyped
    <3> QED BY <1>1, <1>3, <1>14, <3>1, WireNodesAssumption DEF TicketsAreTheProcess
  <2> QED BY <2>1, <2>2, <2>3
<1>16. NoneVanishes'
  <2>1. ASSUME NEW q \in Sent, parked[q] # "none", outcome[q] = "pending" PROVE StaysPut(q)
    <3>1. CASE ~Contains(list, q)
      BY <1>3, <1>14, <2>1, <3>1 DEF StaysPut
    <3>2. CASE Contains(list, q)
      <4>1. PICK i \in DOMAIN list : list[i] = q /\ \A j \in 1..(i - 1) : list[j] # list[i]
        <5> HIDE DEF list
        <5> QED BY <1>4, <3>2, FirstPlace
      <4>2. i \in there
        BY <2>1, <4>1
      <4>3. CASE i \in lost
        BY <1>1, <2>1, <4>1, <4>3 DEF StaysPut, Lost, AllSettled
      <4>4. CASE i \notin lost
        <5>1. fate[i] \in AnyFate /\ fate[i] # <<>>
          BY <1>7, <4>2, <4>4
        <5>2. <<i, 1>> \in P
          BY <1>6, <4>2, <5>1, FateIsShort
        <5>3. PICK k \in DOMAIN order : order[k] = <<i, 1>>
          BY <1>8, <5>2
        <5> QED BY <1>9, <4>1, <5>3 DEF StaysPut
      <4> QED BY <4>3, <4>4
    <3> QED BY <3>1, <3>2
  <2>2. \A q \in Sent : q \in vanished \/ InFlight(q) => StaysPut(q)
    BY <1>9, <1>10 DEF StaysPut
  <2> HIDE DEF list, lost
  <2> QED BY <1>1, <1>12, <1>13, <2>1, <2>2, NoneVanishesStep
<1> QED BY <1>11, <1>12, <1>13, <1>15, <1>16, WaitsNext, SoundNext

-----------------------------------------------------------------------------
(* A server that begins, ends, stops and comes back *)

LEMMA ServeReturnsKeeps ==
  ASSUME WireSound, NEW n \in Servers, ServeReturns(n)
  PROVE  WireSound'
<1>1. /\ program[n] = "ready" /\ program' = [program EXCEPT ![n] = "free"]
      /\ nodeUp' = nodeUp /\ listener' = listener /\ queue' = queue /\ host' = host
      /\ worker' = worker /\ UNCHANGED clientVars /\ UNCHANGED laterVars
      /\ UNCHANGED <<severed, flight, faults, vanished, asker>>
      /\ got' = got /\ asker' = asker /\ outcome' = outcome /\ Sent' = Sent
  BY DEF ServeReturns, clientVars, netVars, Sent
<1>2. /\ NodesTyped /\ ServeTyped /\ WorkersStand /\ ServersStand /\ WorkersWait
      /\ TicketsAreTheProcess
  BY WireTyped, WaitsSplit DEF WireSound
<1>3. \A m \in Servers : program'[m] = IF m = n THEN "free" ELSE program[m]
  BY <1>1, <1>2 DEF ServeTyped
<1>4. NodesTyped' /\ ServeTyped'
  BY <1>1, <1>2 DEF NodesTyped, ServeTyped, Task
<1>5. WorkersStand' /\ ServersStand' /\ WorkersWait'
  <2>1. \A l \in DOMAIN host : host[l] \in Servers
    BY <1>2, ServeSays
  <2>2. WorkersStand'
    BY <1>1, <1>2, <1>3, <2>1 DEF WorkersStand
  <2>3. ServersStand'
    BY <1>1, <1>2, <1>3 DEF ServersStand
  <2>4. WorkersWait'
    BY <1>1, <1>2, <1>3 DEF WorkersWait, Listening
  <2> QED BY <2>2, <2>3, <2>4
<1>6. /\ AskTyped' /\ AskersStand' /\ AskersWait'
      /\ \A q \in Sent : got[q] # <<>> => StaysPut(q)
  BY <1>1, ClientsSame
<1>7. NetTyped' /\ \A q \in Sent : q \in vanished \/ InFlight(q) => StaysPut(q)
  BY <1>1, NetworkSame
<1>8. LaterTyped' /\ BoxesAreSent' /\ \A q \in Sent : parked[q] # "none" => StaysPut(q)
  BY <1>1, TicketsSame
<1>9. TicketsAreTheProcess'
  BY <1>1, <1>2, <1>3 DEF TicketsAreTheProcess, laterVars
<1>10. \A q \in Sent : Queued(q) \/ AtWork(q) => StaysPut(q)
  BY <1>1 DEF StaysPut, Queued, AtWork
<1>11. NoneVanishes'
  BY <1>1, <1>6, <1>7, <1>8, <1>10, NoneVanishesStep
<1> QED BY <1>4, <1>5, <1>6, <1>7, <1>8, <1>9, <1>11, WaitsNext, SoundNext

LEMMA ServeKeeps ==
  ASSUME WireSound, NEW n \in Servers, Serve(n)
  PROVE  WireSound'
<1> DEFINE l == Len(host) + 1
           fresh == [w \in Workers |-> [is |-> "ready", req |-> 0]]
<1>1. /\ program[n] \in {"new", "free"} /\ listener[n] = 0 /\ l \in Serves
      /\ listener' = [listener EXCEPT ![n] = l]
      /\ host' = Append(host, n) /\ queue' = Append(queue, <<>>)
      /\ worker' = [worker EXCEPT ![l] = fresh]
      /\ program' = [program EXCEPT ![n] = "blocked"]
      /\ nodeUp' = nodeUp /\ UNCHANGED clientVars /\ UNCHANGED laterVars
      /\ UNCHANGED <<severed, flight, faults, vanished, asker>>
      /\ got' = got /\ asker' = asker /\ outcome' = outcome /\ Sent' = Sent
  BY DEF Serve, clientVars, netVars, Sent
<1>2. /\ NodesTyped /\ ServeTyped /\ WorkersStand /\ ServersStand /\ WorkersWait
      /\ TicketsAreTheProcess
  BY WireTyped, WaitsSplit DEF WireSound
<1>3. /\ DOMAIN queue = DOMAIN host /\ DOMAIN host \subseteq Serves /\ 0 \notin DOMAIN host
      /\ \A k \in DOMAIN host : host[k] \in Servers
      /\ \A m \in Servers : listener[m] # 0 => listener[m] \in DOMAIN host
  BY <1>2, ServeSays
<1>4. /\ Len(host) \in Nat /\ Len(queue) = Len(host) /\ DOMAIN host = 1..Len(host)
      /\ l \notin DOMAIN host /\ l # 0
  <2>1. Len(host) \in Nat /\ DOMAIN host = 1..Len(host)
    BY <1>2, LenProperties DEF ServeTyped
  <2> HIDE DEF fresh
  <2> QED BY <1>2, <2>1 DEF ServeTyped
<1>5. /\ host' \in Seq(Servers) /\ Len(host') = l /\ host'[l] = n
      /\ \A k \in DOMAIN host : host'[k] = host[k]
      /\ DOMAIN host' = DOMAIN host \cup {l}
  BY <1>1, <1>2, AppendKeeps DEF ServeTyped
<1>6. /\ queue' \in Seq(Seq(Sent)) /\ Len(queue') = l /\ queue'[l] = <<>>
      /\ \A k \in DOMAIN host : queue'[k] = queue[k]
  <2>1. <<>> \in Seq(Sent)
    BY EmptySeq
  <2> QED BY <1>1, <1>2, <1>3, <1>4, <2>1, AppendKeeps DEF ServeTyped
<1>7. /\ worker' \in [Serves -> [Workers -> Task]]
      /\ \A w \in Workers : worker'[l][w] = [is |-> "ready", req |-> 0]
      /\ \A k \in Serves : k # l => worker'[k] = worker[k]
  <2>1. fresh \in [Workers -> Task]
    BY DEF Task, TaskStates
  <2>2. worker \in [Serves -> [Workers -> Task]]
    BY <1>2 DEF ServeTyped
  <2>3. \A w \in Workers : fresh[w] = [is |-> "ready", req |-> 0]
    OBVIOUS
  <2> HIDE DEF fresh, l
  <2> QED BY <1>1, <2>1, <2>2, <2>3
<1>8. /\ \A m \in Servers : program'[m] = IF m = n THEN "blocked" ELSE program[m]
      /\ \A m \in Servers : listener'[m] = IF m = n THEN l ELSE listener[m]
  BY <1>1, <1>2 DEF ServeTyped
<1> HIDE DEF fresh
<1>9. ServeTyped'
  <2>1. listener' \in [Servers -> 0..l]
    <3>1. listener \in [Servers -> 0..Len(host)] /\ 0..Len(host) \subseteq 0..l /\ l \in 0..l
      BY <1>2, <1>4 DEF ServeTyped
    <3> HIDE DEF l
    <3> QED BY <1>1, <3>1
  <2>2. program' \in [Servers -> {"new", "free", "ready", "blocked", "down"}]
    BY <1>1, <1>2 DEF ServeTyped
  <2>3. l <= MaxServes
    BY <1>1, WireBoundsAssumption DEF Serves
  <2> HIDE DEF l
  <2> QED BY <1>1, <1>5, <1>6, <1>7, <2>1, <2>2, <2>3 DEF ServeTyped, Task
<1> HIDE DEF l
<1>10. WorkersStand'
  <2>1. ASSUME NEW k \in Serves, NEW w \in Workers
        PROVE  /\ worker'[k][w].is \in {"handling", "holding"} <=> worker'[k][w].req # 0
               /\ worker'[k][w].is = "none" <=> k \notin DOMAIN host'
               /\ k \in DOMAIN host' /\ worker'[k][w].is # "done" =>
                    program'[host'[k]] \notin {"new", "down"}
    <3>1. CASE k = l
      <4>1. worker'[k][w].is = "ready" /\ worker'[k][w].req = 0
        BY <1>7, <3>1
      <4>2. program'[host'[k]] = "blocked" /\ k \in DOMAIN host'
        BY <1>5, <1>8, <3>1
      <4> QED BY <4>1, <4>2
    <3>2. CASE k # l
      <4>1. worker'[k] = worker[k] /\ (k \in DOMAIN host' <=> k \in DOMAIN host)
        BY <1>5, <1>7, <3>2
      <4>2. k \in DOMAIN host => host'[k] = host[k] /\ host[k] \in Servers
        BY <1>3, <1>5
      <4> QED BY <1>2, <1>8, <4>1, <4>2 DEF WorkersStand
    <3> QED BY <3>1, <3>2
  <2> QED BY <2>1 DEF WorkersStand
<1>11. ServersStand'
  <2>1. ASSUME NEW m \in Servers
        PROVE  /\ program'[m] = "down" <=> ~nodeUp[m]
               /\ listener'[m] # 0 =>
                    /\ nodeUp[m] /\ host'[listener'[m]] = m
                    /\ \A w \in Workers : worker'[listener'[m]][w].is # "done"
    <3>1. CASE m = n
      <4>1. nodeUp[m] /\ program'[m] = "blocked" /\ listener'[m] = l
        BY <1>1, <1>2, <1>8, <3>1 DEF ServersStand, NodesTyped
      <4> QED BY <1>5, <1>7, <3>1, <4>1
    <3>2. CASE m # n
      <4>1. program'[m] = program[m] /\ listener'[m] = listener[m]
        BY <1>8, <3>2
      <4>2. listener[m] # 0 => /\ host'[listener[m]] = host[listener[m]]
                               /\ worker'[listener[m]] = worker[listener[m]]
        BY <1>3, <1>4, <1>5, <1>7
      <4> QED BY <1>2, <4>1, <4>2 DEF ServersStand
    <3> QED BY <3>1, <3>2
  <2> QED BY <1>1, <2>1 DEF ServersStand
<1>12. WorkersWait'
  <2>1. ASSUME NEW k \in DOMAIN host'
        PROVE  /\ \A w \in Workers : worker'[k][w].is = "blocked" =>
                    queue'[k] = <<>> /\ listener'[host'[k]] = k
               /\ queue'[k] # <<>> =>
                    \E w \in Workers : worker'[k][w].is \in {"ready", "handling", "holding"}
    <3>1. CASE k = l
      BY <1>6, <1>7, <3>1
    <3>2. CASE k # l
      <4>1. /\ k \in DOMAIN host /\ k \in Serves /\ worker'[k] = worker[k] /\ host'[k] = host[k]
            /\ queue'[k] = queue[k] /\ host[k] \in Servers
        BY <1>3, <1>5, <1>6, <1>7, <3>2
      <4>2. listener[host[k]] = k => listener'[host[k]] = k
        <5>1. listener[host[k]] = k => host[k] # n
          BY <1>1, <1>3, <4>1
        <5> QED BY <1>8, <4>1, <5>1
      <4> QED BY <1>2, <4>1, <4>2 DEF WorkersWait, Listening
    <3> QED BY <3>1, <3>2
  <2>2. \A m \in Servers : program'[m] = "blocked" => listener'[m] # 0
    BY <1>2, <1>4, <1>8 DEF WorkersWait
  <2> QED BY <2>1, <2>2 DEF WorkersWait, Listening
<1>13. /\ AskTyped' /\ AskersStand' /\ AskersWait'
      /\ \A q \in Sent : got[q] # <<>> => StaysPut(q)
  BY <1>1, ClientsSame
<1>14. NetTyped' /\ \A q \in Sent : q \in vanished \/ InFlight(q) => StaysPut(q)
  BY <1>1, NetworkSame
<1>15. LaterTyped' /\ BoxesAreSent' /\ \A q \in Sent : parked[q] # "none" => StaysPut(q)
  BY <1>1, TicketsSame
<1>16. TicketsAreTheProcess' /\ NodesTyped'
  BY <1>1, <1>2, <1>8 DEF TicketsAreTheProcess, laterVars, NodesTyped
<1>17. NoneVanishes'
  <2>1. ASSUME NEW q \in Sent, AtWork(q) PROVE StaysPut(q)
    <3>1. PICK k \in DOMAIN host, w \in Workers : worker[k][w].req = q
      BY <2>1 DEF AtWork
    <3>2. k \in DOMAIN host' /\ worker'[k] = worker[k]
      BY <1>3, <1>4, <1>5, <1>7
    <3> QED BY <3>1, <3>2 DEF StaysPut, AtWork
  <2>2. \A q \in Sent : Queued(q) => StaysPut(q)
    BY <1>5, <1>6 DEF StaysPut, Queued
  <2> QED BY <1>1, <1>13, <1>14, <1>15, <2>1, <2>2, NoneVanishesStep
<1> QED BY <1>9, <1>10, <1>11, <1>12, <1>13, <1>14, <1>15, <1>16, <1>17, WaitsNext, SoundNext

(* Who waits on a queue is told: it may run again. *)
LEMMA WokenKeeps ==
  ASSUME ServeTyped, NEW l \in Serves, worker' = [worker EXCEPT ![l] = WokenWorkers(l)],
         Sent' = Sent
  PROVE  /\ worker' \in [Serves -> [Workers -> Task]]
         /\ \A k \in Serves : k # l => worker'[k] = worker[k]
         /\ \A k \in Serves, w \in Workers :
              /\ worker'[k][w].req = worker[k][w].req
              /\ worker'[k][w].is =
                   IF k = l /\ worker[k][w].is = "blocked" THEN "ready" ELSE worker[k][w].is
<1>1. worker \in [Serves -> [Workers -> Task]]
  BY DEF ServeTyped
<1>2. \A w \in Workers : worker[l][w] \in Task
  BY <1>1
<1>3. /\ WokenWorkers(l) \in [Workers -> Task]
      /\ \A w \in Workers :
           /\ WokenWorkers(l)[w].req = worker[l][w].req
           /\ WokenWorkers(l)[w].is =
                IF worker[l][w].is = "blocked" THEN "ready" ELSE worker[l][w].is
  <2>1. ASSUME NEW w \in Workers
        PROVE  /\ [worker[l][w] EXCEPT !.is = "ready"] \in Task
               /\ [worker[l][w] EXCEPT !.is = "ready"].req = worker[l][w].req
               /\ [worker[l][w] EXCEPT !.is = "ready"].is = "ready"
    BY <1>2 DEF Task, TaskStates
  <2> QED BY <1>2, <2>1 DEF WokenWorkers
<1>4. \A k \in Serves : worker'[k] = IF k = l THEN WokenWorkers(l) ELSE worker[k]
  BY <1>1
<1>5. worker' \in [Serves -> [Workers -> Task]]
  BY <1>1, <1>3
<1> QED BY <1>3, <1>4, <1>5

LEMMA ShutdownKeeps ==
  ASSUME WireSound, NEW n \in Servers, Shutdown(n)
  PROVE  WireSound'
<1> DEFINE l == listener[n]
<1>1. /\ nodeUp[n] /\ l # 0
      /\ listener' = [listener EXCEPT ![n] = 0]
      /\ worker' = [worker EXCEPT ![l] = WokenWorkers(l)]
      /\ program' = [program EXCEPT ![n] = "ready"]
      /\ nodeUp' = nodeUp /\ queue' = queue /\ host' = host
      /\ UNCHANGED clientVars /\ UNCHANGED laterVars
      /\ UNCHANGED <<severed, flight, faults, vanished, asker>>
      /\ got' = got /\ asker' = asker /\ outcome' = outcome /\ Sent' = Sent
  BY DEF Shutdown, clientVars, netVars, Sent
<1>2. /\ NodesTyped /\ ServeTyped /\ WorkersStand /\ ServersStand /\ WorkersWait
      /\ TicketsAreTheProcess
  BY WireTyped, WaitsSplit DEF WireSound
<1>3. /\ DOMAIN host \subseteq Serves
      /\ \A k \in DOMAIN host : host[k] \in Servers
      /\ \A m \in Servers : listener[m] # 0 => listener[m] \in DOMAIN host
      /\ l \in DOMAIN host
  BY <1>1, <1>2, ServeSays
<1>4. /\ worker' \in [Serves -> [Workers -> Task]]
      /\ \A k \in Serves, w \in Workers :
           /\ worker'[k][w].req = worker[k][w].req
           /\ worker'[k][w].is =
                IF k = l /\ worker[k][w].is = "blocked" THEN "ready" ELSE worker[k][w].is
  BY <1>1, <1>2, <1>3, WokenKeeps
<1>5. /\ \A m \in Servers : program'[m] = IF m = n THEN "ready" ELSE program[m]
      /\ \A m \in Servers : listener'[m] = IF m = n THEN 0 ELSE listener[m]
  BY <1>1, <1>2 DEF ServeTyped
<1>6. NodesTyped' /\ ServeTyped'
  <2>1. listener' \in [Servers -> 0..Len(host)]
    <3>1. 0 \in 0..Len(host) /\ listener \in [Servers -> 0..Len(host)]
      BY <1>2, LenProperties DEF ServeTyped
    <3> QED BY <1>1, <3>1
  <2> QED BY <1>1, <1>2, <1>4, <2>1 DEF ServeTyped, Task, NodesTyped
<1>7. program[n] \notin {"new", "down"} /\ host[l] = n
  BY <1>1, <1>2, <1>3, WireBoundsAssumption DEF ServersStand, WorkersStand
<1> HIDE DEF l
<1>8. WorkersStand'
  <2>1. ASSUME NEW k \in Serves, NEW w \in Workers
        PROVE  /\ worker'[k][w].is \in {"handling", "holding"} <=> worker'[k][w].req # 0
               /\ worker'[k][w].is = "none" <=> k \notin DOMAIN host
               /\ k \in DOMAIN host /\ worker'[k][w].is # "done" =>
                    program'[host[k]] \notin {"new", "down"}
    <3>1. /\ worker[k][w].is \in {"handling", "holding"} <=> worker[k][w].req # 0
          /\ worker[k][w].is = "none" <=> k \notin DOMAIN host
          /\ k \in DOMAIN host /\ worker[k][w].is # "done" =>
               program[host[k]] \notin {"new", "down"}
      BY <1>2 DEF WorkersStand
    <3>2. k \in DOMAIN host /\ program[host[k]] \notin {"new", "down"} =>
            program'[host[k]] \notin {"new", "down"}
      BY <1>3, <1>5
    <3> QED BY <1>4, <3>1, <3>2
  <2> QED BY <1>1, <2>1 DEF WorkersStand
<1>9. ServersStand'
  <2>1. ASSUME NEW m \in Servers
        PROVE  /\ program'[m] = "down" <=> ~nodeUp[m]
               /\ listener'[m] # 0 =>
                    /\ nodeUp[m] /\ host[listener'[m]] = m
                    /\ \A w \in Workers : worker'[listener'[m]][w].is # "done"
    <3>1. CASE m = n
      BY <1>1, <1>5, <3>1
    <3>2. CASE m # n
      <4>1. listener'[m] # 0 => listener'[m] = listener[m] /\ listener[m] \in Serves
        BY <1>3, <1>5, <3>2
      <4>2. /\ program[m] = "down" <=> ~nodeUp[m]
            /\ listener[m] # 0 =>
                 /\ nodeUp[m] /\ host[listener[m]] = m
                 /\ \A w \in Workers : worker[listener[m]][w].is # "done"
        BY <1>2 DEF ServersStand
      <4>3. program'[m] = program[m]
        BY <1>5, <3>2
      <4>4. listener'[m] # 0 => \A w \in Workers : worker'[listener'[m]][w].is # "done"
        BY <1>4, <4>1, <4>2
      <4> QED BY <4>1, <4>2, <4>3, <4>4
    <3> QED BY <3>1, <3>2
  <2> QED BY <1>1, <2>1 DEF ServersStand
<1>10. WorkersWait'
  <2>1. ASSUME NEW k \in DOMAIN host
        PROVE  /\ \A w \in Workers : worker'[k][w].is = "blocked" =>
                    queue[k] = <<>> /\ listener'[host[k]] = k
               /\ queue[k] # <<>> =>
                    \E w \in Workers : worker'[k][w].is \in {"ready", "handling", "holding"}
    <3>1. ASSUME NEW w \in Workers, worker'[k][w].is = "blocked"
          PROVE  queue[k] = <<>> /\ listener'[host[k]] = k
      <4>1. k # l /\ worker[k][w].is = "blocked"
        BY <1>3, <1>4, <3>1
      <4>2. queue[k] = <<>> /\ listener[host[k]] = k
        BY <1>2, <4>1 DEF WorkersWait, Listening
      <4>3. host[k] # n
        BY <4>1, <4>2 DEF l
      <4> QED BY <1>3, <1>5, <4>2, <4>3
    <3>2. ASSUME queue[k] # <<>>
          PROVE  \E w \in Workers : worker'[k][w].is \in {"ready", "handling", "holding"}
      <4>1. PICK w \in Workers : worker[k][w].is \in {"ready", "handling", "holding"}
        BY <1>2, <3>2 DEF WorkersWait
      <4> QED BY <1>3, <1>4, <4>1
    <3> QED BY <3>1, <3>2
  <2>2. \A m \in Servers : program'[m] = "blocked" => listener'[m] # 0
    BY <1>2, <1>5 DEF WorkersWait
  <2> QED BY <1>1, <2>1, <2>2 DEF WorkersWait, Listening
<1>11. /\ AskTyped' /\ AskersStand' /\ AskersWait'
       /\ \A q \in Sent : got[q] # <<>> => StaysPut(q)
  BY <1>1, ClientsSame
<1>12. NetTyped' /\ \A q \in Sent : q \in vanished \/ InFlight(q) => StaysPut(q)
  BY <1>1, NetworkSame
<1>13. LaterTyped' /\ BoxesAreSent' /\ \A q \in Sent : parked[q] # "none" => StaysPut(q)
  BY <1>1, TicketsSame
<1>14. TicketsAreTheProcess'
  BY <1>1, <1>2, <1>5 DEF TicketsAreTheProcess, laterVars
<1>15. \A q \in Sent : Queued(q) \/ AtWork(q) => StaysPut(q)
  BY <1>1, <1>3, <1>4 DEF StaysPut, Queued, AtWork
<1>16. NoneVanishes'
  BY <1>1, <1>11, <1>12, <1>13, <1>15, NoneVanishesStep
<1> QED
  BY <1>6, <1>8, <1>9, <1>10, <1>11, <1>12, <1>13, <1>14, <1>16, WaitsNext, SoundNext

(* A node stops: with its process goes all that the process had. *)
LEMMA StopNodeKeeps ==
  ASSUME WireSound, NEW n \in Servers, StopNode(n), faults' \in 0..MaxFaults
  PROVE  WireSound'
<1> DEFINE mine == {l \in DOMAIN host : host[l] = n}
           queued == UNION {ToSet(queue[l]) : l \in mine}
           busy == {worker[l][w].req : l \in mine, w \in Workers} \ {0}
           put == {r \in Requests : parked[r] = n}
<1>1. /\ nodeUp[n] /\ nodeUp' = [nodeUp EXCEPT ![n] = FALSE]
      /\ listener' = [listener EXCEPT ![n] = 0]
      /\ program' = [program EXCEPT ![n] = "down"]
      /\ queue' = [l \in DOMAIN queue |-> IF l \in mine THEN <<>> ELSE queue[l]]
      /\ worker' = [l \in Serves |->
                      IF l \in mine THEN [w \in Workers |-> [is |-> "done", req |-> 0]]
                                    ELSE worker[l]]
      /\ parked' = [r \in Requests |-> IF parked[r] = n THEN "none" ELSE parked[r]]
      /\ held' = [held EXCEPT ![n] = <<>>]
      /\ vanished' = Lost(queued \cup busy \cup put)
      /\ host' = host /\ severed' = severed /\ flight' = flight /\ UNCHANGED clientVars
      /\ got' = got /\ asker' = asker /\ outcome' = outcome /\ Sent' = Sent
  BY DEF StopNode, clientVars, Sent
<1>2. /\ NodesTyped /\ ServeTyped /\ NetTyped /\ LaterTyped /\ AskTyped /\ WorkersStand
      /\ ServersStand /\ WorkersWait /\ BoxesAreSent /\ TicketsAreTheProcess
  BY WireTyped, WaitsSplit DEF WireSound
<1>3. /\ DOMAIN queue = DOMAIN host /\ DOMAIN host \subseteq Serves
      /\ \A k \in DOMAIN host : host[k] \in Servers /\ queue[k] \in Seq(Sent)
      /\ \A m \in Servers : listener[m] # 0 => listener[m] \in DOMAIN host
      /\ 0 \notin Sent /\ Sent \subseteq Requests /\ n # "none"
      /\ \A c \in Askers : c # n
  BY <1>2, ServeSays, AskSays, WireNodesAssumption
<1>4. /\ \A k \in Serves, w \in Workers :
           worker'[k][w] = IF k \in mine THEN [is |-> "done", req |-> 0] ELSE worker[k][w]
      /\ \A m \in Servers : program'[m] = IF m = n THEN "down" ELSE program[m]
      /\ \A m \in Servers : listener'[m] = IF m = n THEN 0 ELSE listener[m]
      /\ \A m \in Askers \cup Servers : nodeUp'[m] = IF m = n THEN FALSE ELSE nodeUp[m]
      /\ \A k \in DOMAIN host : queue'[k] = IF k \in mine THEN <<>> ELSE queue[k]
      /\ \A q \in Requests : parked'[q] = IF parked[q] = n THEN "none" ELSE parked[q]
      /\ \A m \in Servers : held'[m] = IF m = n THEN <<>> ELSE held[m]
  <2>1. \A k \in Serves, w \in Workers :
          worker'[k][w] = IF k \in mine THEN [is |-> "done", req |-> 0] ELSE worker[k][w]
    BY <1>1
  <2>2. /\ \A m \in Servers : program'[m] = IF m = n THEN "down" ELSE program[m]
        /\ \A m \in Servers : listener'[m] = IF m = n THEN 0 ELSE listener[m]
    BY <1>1, <1>2 DEF ServeTyped
  <2>3. \A m \in Askers \cup Servers : nodeUp'[m] = IF m = n THEN FALSE ELSE nodeUp[m]
    BY <1>1, <1>2 DEF NodesTyped
  <2>4. /\ \A k \in DOMAIN host : queue'[k] = IF k \in mine THEN <<>> ELSE queue[k]
        /\ \A q \in Requests : parked'[q] = IF parked[q] = n THEN "none" ELSE parked[q]
    BY <1>1, <1>3
  <2>5. \A m \in Servers : held'[m] = IF m = n THEN <<>> ELSE held[m]
    BY <1>1, <1>2 DEF LaterTyped
  <2> QED BY <2>1, <2>2, <2>3, <2>4, <2>5
<1>5. \A k \in DOMAIN host : k \in mine <=> host[k] = n
  OBVIOUS
<1>6. ServeTyped'
  <2>1. listener' \in [Servers -> 0..Len(host)]
    <3>1. 0 \in 0..Len(host) /\ listener \in [Servers -> 0..Len(host)]
      BY <1>2, LenProperties DEF ServeTyped
    <3> QED BY <1>1, <3>1
  <2>2. program' \in [Servers -> {"new", "free", "ready", "blocked", "down"}]
    BY <1>1, <1>2 DEF ServeTyped
  <2>3. queue' \in Seq(Seq(Sent)) /\ Len(queue') = Len(host)
    <3>1. /\ Len(queue) \in Nat /\ DOMAIN queue = 1..Len(queue) /\ Len(queue) = Len(host)
          /\ \A k \in DOMAIN queue : queue[k] \in Seq(Sent)
      BY <1>2, <1>3, LenProperties DEF ServeTyped
    <3>2. <<>> \in Seq(Sent)
      BY EmptySeq
    <3> DEFINE m == Len(queue)
    <3> HIDE DEF m, mine
    <3>3. m \in Nat /\ DOMAIN queue = 1..m
      BY <3>1 DEF m
    <3>4. queue' \in [1..m -> Seq(Sent)]
      BY <1>1, <3>1, <3>2, <3>3
    <3>5. queue' \in Seq(Seq(Sent)) /\ Len(queue') = m
      BY <3>3, <3>4
    <3> QED BY <3>1, <3>5 DEF m
  <2>4. worker' \in [Serves -> [Workers -> Task]]
    <3>1. [w \in Workers |-> [is |-> "done", req |-> 0]] \in [Workers -> Task]
      BY DEF Task, TaskStates
    <3>2. worker \in [Serves -> [Workers -> Task]]
      BY <1>2 DEF ServeTyped
    <3> HIDE DEF mine
    <3> QED BY <1>1, <3>1, <3>2
  <2> QED BY <1>1, <1>2, <2>1, <2>2, <2>3, <2>4 DEF ServeTyped, Task
<1>7. NetTyped' /\ vanished \subseteq vanished'
      /\ \A q \in Sent : q \in queued \cup busy \cup put => q \in vanished' \/ outcome[q] # "pending"
  <2>1. queued \subseteq Sent
    <3>1. ASSUME NEW k \in mine PROVE ToSet(queue[k]) \subseteq Sent
      <4>1. queue[k] \in Seq(Sent)
        BY <1>3
      <4> QED BY <4>1, ElementOfSeq, LenProperties DEF ToSet
    <3> QED BY <3>1
  <2>2. busy \subseteq Sent
    <3>1. \A k \in Serves, w \in Workers : worker[k][w] \in Task
      BY <1>2 DEF ServeTyped
    <3>2. \A k \in Serves, w \in Workers : worker[k][w].req \in {0} \cup Sent
      BY <3>1 DEF Task
    <3> QED BY <1>3, <3>2
  <2>3. put \subseteq Sent
    BY <1>2, <1>3 DEF BoxesAreSent
  <2> HIDE DEF queued, busy, put
  <2>4. vanished' \subseteq Sent
    BY <1>1, <1>2, <2>1, <2>2, <2>3 DEF Lost, NetTyped
  <2>5. vanished \subseteq vanished'
        /\ \A q \in Sent : q \in queued \cup busy \cup put => q \in vanished' \/ outcome[q] # "pending"
    BY <1>1 DEF Lost, AllSettled
  <2> QED BY <1>1, <1>2, <2>4, <2>5 DEF NetTyped
<1>8. LaterTyped' /\ BoxesAreSent' /\ NodesTyped'
  <2>1. <<>> \in Seq(Sent)
    BY EmptySeq
  <2>2. LaterTyped'
    BY <1>1, <1>2, <2>1 DEF LaterTyped
  <2>3. BoxesAreSent'
    BY <1>1, <1>2, <1>4 DEF BoxesAreSent
  <2>4. NodesTyped'
    BY <1>1, <1>2 DEF NodesTyped
  <2> QED BY <2>2, <2>3, <2>4
<1>9. TicketsAreTheProcess'
  <2>1. ASSUME NEW m \in Servers, program'[m] \in {"down", "new"}
        PROVE  held'[m] = <<>> /\ \A r \in Requests : parked'[r] # m
    <3>1. CASE m = n
      BY <1>3, <1>4, <3>1
    <3>2. CASE m # n
      <4>1. held[m] = <<>> /\ \A r \in Requests : parked[r] # m
        BY <1>2, <1>4, <2>1, <3>2 DEF TicketsAreTheProcess
      <4>2. m # "none"
        BY WireNodesAssumption
      <4> QED BY <1>4, <3>2, <4>1, <4>2
    <3> QED BY <3>1, <3>2
  <2> QED BY <2>1 DEF TicketsAreTheProcess
<1>10. WorkersStand'
  <2>1. ASSUME NEW k \in Serves, NEW w \in Workers
        PROVE  /\ worker'[k][w].is \in {"handling", "holding"} <=> worker'[k][w].req # 0
               /\ worker'[k][w].is = "none" <=> k \notin DOMAIN host
               /\ k \in DOMAIN host /\ worker'[k][w].is # "done" =>
                    program'[host[k]] \notin {"new", "down"}
    <3>1. CASE k \in mine
      BY <1>4, <3>1
    <3>2. CASE k \notin mine
      <4>1. worker'[k][w] = worker[k][w]
        BY <1>4, <3>2
      <4>2. k \in DOMAIN host => program'[host[k]] = program[host[k]]
        BY <1>3, <1>4, <3>2
      <4> QED BY <1>2, <4>1, <4>2 DEF WorkersStand
    <3> QED BY <3>1, <3>2
  <2> QED BY <1>1, <2>1 DEF WorkersStand
<1>11. ServersStand'
  <2>1. ASSUME NEW m \in Servers
        PROVE  /\ program'[m] = "down" <=> ~nodeUp'[m]
               /\ listener'[m] # 0 =>
                    /\ nodeUp'[m] /\ host[listener'[m]] = m
                    /\ \A w \in Workers : worker'[listener'[m]][w].is # "done"
    <3>1. CASE m = n
      BY <1>4, <3>1
    <3>2. CASE m # n
      <4>1. program'[m] = program[m] /\ nodeUp'[m] = nodeUp[m] /\ listener'[m] = listener[m]
        BY <1>4, <3>2
      <4>2. listener[m] # 0 => host[listener[m]] = m /\ listener[m] \in DOMAIN host
        BY <1>2, <1>3 DEF ServersStand
      <4>3. listener[m] # 0 => \A w \in Workers : worker'[listener[m]][w] = worker[listener[m]][w]
        BY <1>3, <1>4, <3>2, <4>2
      <4> QED BY <1>2, <4>1, <4>3 DEF ServersStand
    <3> QED BY <3>1, <3>2
  <2> QED BY <1>1, <2>1 DEF ServersStand
<1>12. WorkersWait'
  <2>1. ASSUME NEW k \in DOMAIN host
        PROVE  /\ \A w \in Workers : worker'[k][w].is = "blocked" =>
                    queue'[k] = <<>> /\ listener'[host[k]] = k
               /\ queue'[k] # <<>> =>
                    \E w \in Workers : worker'[k][w].is \in {"ready", "handling", "holding"}
    <3>1. CASE k \in mine
      BY <1>3, <1>4, <3>1
    <3>2. CASE k \notin mine
      <4>1. /\ queue'[k] = queue[k] /\ listener'[host[k]] = listener[host[k]]
            /\ \A w \in Workers : worker'[k][w] = worker[k][w]
        BY <1>3, <1>4, <3>2
      <4> QED BY <1>2, <4>1 DEF WorkersWait, Listening
    <3> QED BY <3>1, <3>2
  <2>2. \A m \in Servers : program'[m] = "blocked" => listener'[m] # 0
    BY <1>2, <1>4 DEF WorkersWait
  <2>3. host' = host
    BY <1>1
  <2> HIDE DEF mine
  <2> QED BY <2>1, <2>2, <2>3 DEF WorkersWait, Listening
<1>13. /\ AskTyped' /\ AskersStand' /\ AskersWait'
       /\ \A q \in Sent : got[q] # <<>> => StaysPut(q)
       /\ \A q \in Sent : nodeUp'[asker[q]] = nodeUp[asker[q]]
  <2>1. \A c \in Askers : nodeUp'[c] = nodeUp[c]
    BY <1>3, <1>4
  <2> QED BY <1>1, <2>1, ClientsSame
<1>14. NoneVanishes'
  <2>1. ASSUME NEW q \in Sent, outcome[q] = "pending", Queued(q) PROVE StaysPut(q)
    <3>1. PICK k \in DOMAIN host : Contains(queue[k], q)
      BY <2>1 DEF Queued
    <3>2. CASE k \in mine
      <4>1. DOMAIN queue[k] = 1..Len(queue[k])
        BY <1>3, LenProperties
      <4>2. q \in ToSet(queue[k])
        BY <3>1, <4>1 DEF ToSet, Contains
      <4>3. q \in queued
        BY <3>2, <4>2
      <4> QED BY <1>7, <2>1, <4>3 DEF StaysPut
    <3>3. CASE k \notin mine
      BY <1>1, <1>4, <3>1, <3>3 DEF StaysPut, Queued
    <3> QED BY <3>2, <3>3
  <2>2. ASSUME NEW q \in Sent, outcome[q] = "pending", AtWork(q) PROVE StaysPut(q)
    <3>1. PICK k \in DOMAIN host, w \in Workers : worker[k][w].req = q
      BY <2>2 DEF AtWork
    <3>2. CASE k \in mine
      <4>1. q \in busy
        BY <1>3, <3>1, <3>2
      <4> QED BY <1>7, <2>2, <4>1 DEF StaysPut
    <3>3. CASE k \notin mine
      <4>1. worker'[k][w].req = q
        BY <1>3, <1>4, <3>1, <3>3
      <4> QED BY <1>1, <4>1 DEF StaysPut, AtWork
    <3> QED BY <3>2, <3>3
  <2>3. ASSUME NEW q \in Sent, outcome[q] = "pending", parked[q] # "none" PROVE StaysPut(q)
    <3>1. CASE parked[q] = n
      <4>1. q \in put
        BY <1>3, <3>1
      <4> QED BY <1>7, <2>3, <4>1 DEF StaysPut
    <3>2. CASE parked[q] # n
      <4>1. parked'[q] = parked[q]
        BY <1>3, <1>4, <3>2
      <4> QED BY <2>3, <4>1 DEF StaysPut
    <3> QED BY <3>1, <3>2
  <2>4. \A q \in Sent : q \in vanished \/ InFlight(q) => StaysPut(q)
    BY <1>1, <1>7 DEF StaysPut, InFlight
  <2> HIDE DEF mine, queued, busy, put
  <2> QED BY <1>1, <1>13, <2>1, <2>2, <2>3, <2>4, NoneVanishesStep
<1> QED
  BY <1>6, <1>7, <1>8, <1>9, <1>10, <1>11, <1>12, <1>13, <1>14, WaitsNext, SoundNext

LEMMA RestartServerKeeps ==
  ASSUME WireSound, NEW n \in Servers, RestartServer(n)
  PROVE  WireSound'
<1>1. /\ ~nodeUp[n] /\ nodeUp' = [nodeUp EXCEPT ![n] = TRUE]
      /\ program' = [program EXCEPT ![n] = "new"]
      /\ listener' = listener /\ queue' = queue /\ host' = host /\ worker' = worker
      /\ UNCHANGED clientVars /\ UNCHANGED laterVars
      /\ UNCHANGED <<severed, flight, faults, vanished, asker>>
      /\ got' = got /\ asker' = asker /\ outcome' = outcome /\ Sent' = Sent
  BY DEF RestartServer, clientVars, netVars, Sent
<1>2. /\ NodesTyped /\ ServeTyped /\ AskTyped /\ WorkersStand /\ ServersStand /\ WorkersWait
      /\ TicketsAreTheProcess
  BY WireTyped, WaitsSplit DEF WireSound
<1>3. /\ DOMAIN host \subseteq Serves /\ \A c \in Askers : c # n
      /\ \A k \in DOMAIN host : host[k] \in Servers
  BY <1>2, ServeSays, WireNodesAssumption
<1>4. /\ \A m \in Servers : program'[m] = IF m = n THEN "new" ELSE program[m]
      /\ \A m \in Askers \cup Servers : nodeUp'[m] = IF m = n THEN TRUE ELSE nodeUp[m]
      /\ program[n] = "down" /\ listener[n] = 0
  BY <1>1, <1>2 DEF ServeTyped, NodesTyped, ServersStand
<1>5. NodesTyped' /\ ServeTyped'
  BY <1>1, <1>2 DEF NodesTyped, ServeTyped, Task
<1>6. WorkersStand'
  <2>1. ASSUME NEW k \in DOMAIN host, NEW w \in Workers, worker[k][w].is # "done"
        PROVE  program'[host[k]] \notin {"new", "down"}
    BY <1>2, <1>3, <1>4, <2>1 DEF WorkersStand
  <2> QED BY <1>1, <1>2, <2>1 DEF WorkersStand
<1>7. ServersStand'
  <2>1. ASSUME NEW m \in Servers
        PROVE  /\ program'[m] = "down" <=> ~nodeUp'[m]
               /\ listener[m] # 0 =>
                    /\ nodeUp'[m] /\ host[listener[m]] = m
                    /\ \A w \in Workers : worker[listener[m]][w].is # "done"
    BY <1>2, <1>4 DEF ServersStand
  <2> QED BY <1>1, <2>1 DEF ServersStand
<1>8. WorkersWait'
  BY <1>1, <1>2, <1>4 DEF WorkersWait, Listening
<1>9. /\ AskTyped' /\ AskersStand' /\ AskersWait'
      /\ \A q \in Sent : got[q] # <<>> => StaysPut(q)
      /\ \A q \in Sent : nodeUp'[asker[q]] = nodeUp[asker[q]]
  <2>1. \A c \in Askers : nodeUp'[c] = nodeUp[c]
    BY <1>3, <1>4
  <2> QED BY <1>1, <2>1, ClientsSame
<1>10. NetTyped' /\ \A q \in Sent : q \in vanished \/ InFlight(q) => StaysPut(q)
  BY <1>1, NetworkSame
<1>11. LaterTyped' /\ BoxesAreSent' /\ \A q \in Sent : parked[q] # "none" => StaysPut(q)
  BY <1>1, TicketsSame
<1>12. TicketsAreTheProcess'
  BY <1>1, <1>2, <1>4 DEF TicketsAreTheProcess, laterVars
<1>13. \A q \in Sent : Queued(q) \/ AtWork(q) => StaysPut(q)
  BY <1>1 DEF StaysPut, Queued, AtWork
<1>14. NoneVanishes'
  BY <1>1, <1>9, <1>10, <1>11, <1>13, NoneVanishesStep
<1> QED
  BY <1>5, <1>6, <1>7, <1>8, <1>9, <1>10, <1>11, <1>12, <1>14, WaitsNext, SoundNext

-----------------------------------------------------------------------------
(* A client's steps *)

(* More requests do not change what the servers have. *)
LEMMA SentGrows ==
  ASSUME WireSound, Sent \subseteq Sent', UNCHANGED serverVars, UNCHANGED laterVars
  PROVE  ServeTyped' /\ LaterTyped'
<1>1. ServeTyped /\ LaterTyped
  BY WireTyped DEF WireSound
<1>2. /\ listener' = listener /\ program' = program /\ queue' = queue /\ host' = host
      /\ worker' = worker /\ parked' = parked /\ held' = held
  BY DEF serverVars, laterVars
<1> DEFINE S == Sent
           T == Sent'
<1>3. S \subseteq T
  OBVIOUS
<1>4. queue \in Seq(Seq(S)) /\ worker \in [Serves -> [Workers -> [is : TaskStates, req : {0} \cup S]]]
      /\ held \in [Servers -> Seq(S)]
  BY <1>1 DEF ServeTyped, LaterTyped, Task
<1> HIDE DEF S, T
<1>5. queue \in Seq(Seq(T))
  <2>1. Seq(S) \subseteq Seq(T)
    BY <1>3, SeqMonotonic
  <2> QED BY <1>4, <2>1, SeqMonotonic
<1>6. worker \in [Serves -> [Workers -> [is : TaskStates, req : {0} \cup T]]]
  <2>1. [is : TaskStates, req : {0} \cup S] \subseteq [is : TaskStates, req : {0} \cup T]
    BY <1>3
  <2> QED BY <1>4, <2>1
<1>7. held \in [Servers -> Seq(T)]
  <2>1. Seq(S) \subseteq Seq(T)
    BY <1>3, SeqMonotonic
  <2> QED BY <1>4, <2>1
<1> QED BY <1>1, <1>2, <1>5, <1>6, <1>7 DEF ServeTyped, LaterTyped, Task, T

LEMMA SendKeeps ==
  ASSUME WireSound, NEW c \in Askers, NEW n \in Servers, NEW kind, NEW fate, Send(c, n, kind, fate)
  PROVE  WireSound'
<1>1. PICK r : r = Len(asker) + 1
  OBVIOUS
<1>2. /\ nodeUp[c] /\ client[c] = Idle /\ r \in Requests
      /\ asker' = Append(asker, c) /\ target' = Append(target, n)
      /\ outcome' = Append(outcome, "pending")
      /\ client' = [client EXCEPT ![c] = [is |-> "blocked", req |-> r, left |-> Timeout]]
      /\ fate \in Fates({c, n}) /\ Carry(flight, kind, r, {c, n}, fate) /\ kind \in RequestKinds
      /\ nodeUp' = nodeUp /\ got' = got /\ UNCHANGED serverVars /\ UNCHANGED laterVars
      /\ parked' = parked /\ program' = program /\ held' = held
      /\ listener' = listener /\ queue' = queue /\ host' = host /\ worker' = worker
  BY <1>1 DEF Send, serverVars, laterVars
<1>3. /\ NodesTyped /\ NetTyped /\ AskTyped /\ ServeTyped /\ WorkersStand /\ ServersStand
      /\ AskersStand /\ BoxesAreSent /\ WorkersWait /\ AskersWait /\ NoneVanishes
      /\ TicketsAreTheProcess
  BY WireTyped, WaitsSplit DEF WireSound
<1>4. /\ DOMAIN asker = Sent /\ DOMAIN target = Sent /\ DOMAIN outcome = Sent
      /\ Sent \subseteq Requests /\ 0 \notin Sent
      /\ \A q \in Sent : asker[q] \in Askers
  BY <1>3, AskSays
<1>5. /\ Len(asker) \in Nat /\ Len(target) = Len(asker) /\ Len(outcome) = Len(asker)
      /\ r \notin Sent /\ r # 0 /\ r <= MaxRequests
  <2>1. Len(asker) \in Nat
    BY <1>3, LenProperties DEF AskTyped
  <2>2. Len(target) = Len(asker) /\ Len(outcome) = Len(asker)
    BY <1>3 DEF AskTyped
  <2>3. r \notin 1..Len(asker) /\ r # 0 /\ r <= MaxRequests
    BY <1>1, <1>2, <2>1, WireBoundsAssumption DEF Requests
  <2> QED BY <2>1, <2>2, <2>3 DEF Sent
<1> DEFINE OutcomeKinds == {"pending", "timeout"} \cup ReplyKinds
<1>6. /\ asker' \in Seq(Askers) /\ Len(asker') = r /\ DOMAIN asker' = Sent \cup {r}
      /\ asker'[r] = c /\ \A q \in Sent : asker'[q] = asker[q]
  BY <1>1, <1>2, <1>3, <1>4, AppendKeeps DEF AskTyped
<1>7. target' \in Seq(Servers) /\ Len(target') = r
  BY <1>1, <1>2, <1>3, <1>5, AppendKeeps DEF AskTyped
<1>8. /\ outcome' \in Seq(OutcomeKinds) /\ Len(outcome') = r
      /\ outcome'[r] = "pending" /\ \A q \in Sent : outcome'[q] = outcome[q]
  <2>1. outcome \in Seq(OutcomeKinds) /\ "pending" \in OutcomeKinds
    BY <1>3 DEF AskTyped
  <2> HIDE DEF OutcomeKinds
  <2> QED BY <1>1, <1>2, <1>4, <1>5, <2>1, AppendKeeps
<1>9. Sent' = Sent \cup {r} /\ Sent \subseteq Sent'
  <2>1. DOMAIN asker' = 1..Len(asker')
    BY <1>6, LenProperties
  <2> QED BY <1>6, <2>1 DEF Sent
<1>10. ServeTyped' /\ LaterTyped'
  BY <1>2, <1>9, SentGrows
<1>11. /\ NetTyped' /\ vanished \subseteq vanished'
       /\ \A q : InFlight(q) => InFlight(q)'
       /\ InFlight(r)' \/ r \in vanished'
  <2>1. flight \in Seq(Message(Sent'))
    <3>1. Message(Sent) \subseteq Message(Sent')
      BY <1>9 DEF Message
    <3> DEFINE M == Message(Sent)
               N == Message(Sent')
    <3>2. flight \in Seq(M) /\ M \subseteq N
      BY <1>3, <3>1 DEF NetTyped
    <3> HIDE DEF M, N
    <3>3. flight \in Seq(N)
      BY <3>2, SeqMonotonic
    <3> QED BY <3>3 DEF N
  <2>2. r \in Sent' /\ kind \in MessageKinds /\ r \notin AllSettled
    BY <1>2, <1>5, <1>9 DEF MessageKinds, AllSettled
  <2> QED BY <1>2, <1>3, <1>9, <2>1, <2>2, CarryKeeps, FlightHolds
<1>12. \A a \in Askers : client'[a] =
         IF a = c THEN [is |-> "blocked", req |-> r, left |-> Timeout] ELSE client[a]
  BY <1>2, <1>3 DEF AskTyped
<1>13. AskTyped'
  <2>1. client' \in [Askers -> Asker]'
    <3>1. \A a \in Askers : client[a] \in [is : {"idle", "ready", "blocked"},
                                           req : {0} \cup Sent, left : 0..Timeout]
      BY <1>3 DEF AskTyped, Asker
    <3>2. \A a \in Askers : client[a] \in [is : {"idle", "ready", "blocked"},
                                           req : {0} \cup Sent', left : 0..Timeout]
      BY <1>9, <3>1
    <3>3. Timeout \in 0..Timeout /\ r \in Sent'
      BY <1>9, TimesAssumption
    <3>4. client' = [a \in Askers |-> client'[a]]
      BY <1>2, <1>3 DEF AskTyped
    <3> QED BY <1>12, <3>2, <3>3, <3>4 DEF Asker
  <2> QED BY <1>2, <1>3, <1>5, <1>6, <1>7, <1>8, <2>1 DEF AskTyped
<1>14. NodesTyped' /\ WorkersStand' /\ ServersStand' /\ WorkersWait'
  <2>1. NodesTyped' /\ WorkersStand' /\ ServersStand'
    BY <1>2, <1>3 DEF NodesTyped, WorkersStand, ServersStand
  <2>2. WorkersWait'
    BY <1>2, <1>3 DEF WorkersWait, Listening
  <2> QED BY <2>1, <2>2
<1>15. AskersStand'
  <2>1. ASSUME NEW a \in Askers
        PROVE  /\ client'[a].is = "idle" <=> client'[a].req = 0
               /\ client'[a].req # 0 => /\ asker'[client'[a].req] = a
                                        /\ outcome'[client'[a].req] = "pending" /\ nodeUp[a]
    <3>1. CASE a = c
      BY <1>2, <1>5, <1>6, <1>8, <1>12, <3>1
    <3>2. CASE a # c
      <4>1. client'[a] = client[a]
        BY <1>12, <3>2
      <4>2. client[a].req \in {0} \cup Sent
        BY <1>3 DEF AskTyped, Asker
      <4> QED BY <1>3, <1>6, <1>8, <4>1, <4>2 DEF AskersStand
    <3> QED BY <3>1, <3>2
  <2>2. ASSUME NEW q \in Sent', outcome'[q] = "pending", nodeUp[asker'[q]]
        PROVE  client'[asker'[q]].req = q
    <3>1. CASE q = r
      BY <1>6, <1>12, <3>1
    <3>2. CASE q \in Sent
      <4>1. client[asker[q]].req = q
        BY <1>3, <1>6, <1>8, <2>2, <3>2 DEF AskersStand
      <4>2. asker[q] # c
        BY <1>2, <1>4, <3>2, <4>1 DEF Idle
      <4> QED BY <1>4, <1>6, <1>12, <3>2, <4>1, <4>2
    <3> QED BY <1>9, <3>1, <3>2
  <2> QED BY <1>2, <2>1, <2>2 DEF AskersStand
<1>16. BoxesAreSent' /\ TicketsAreTheProcess'
  <2>1. BoxesAreSent'
    BY <1>2, <1>3, <1>9 DEF BoxesAreSent
  <2>2. TicketsAreTheProcess'
    BY <1>2, <1>3 DEF TicketsAreTheProcess
  <2> QED BY <2>1, <2>2
<1>17. AskersWait'
  <2>1. ASSUME NEW a \in Askers, client'[a].is = "blocked"
        PROVE  got[client'[a].req] = <<>> /\ client'[a].left > 0
    <3>1. CASE a = c
      <4>1. got[r] = <<>>
        BY <1>2, <1>3, <1>5 DEF BoxesAreSent
      <4> QED BY <1>12, <3>1, <4>1, TimesAssumption
    <3>2. CASE a # c
      BY <1>3, <1>12, <2>1, <3>2 DEF AskersWait, Asking
    <3> QED BY <3>1, <3>2
  <2> QED BY <1>2, <2>1 DEF AskersWait, Asking
<1>18. NoneVanishes'
  <2>1. ASSUME NEW q \in Sent', outcome'[q] = "pending", nodeUp[asker'[q]]
        PROVE  q \in vanished' \/ Somewhere(q)'
    <3>1. CASE q = r
      BY <1>11, <3>1 DEF Somewhere, InFlight
    <3>2. CASE q \in Sent
      <4>1. q \in vanished \/ Somewhere(q)
        BY <1>3, <1>6, <1>8, <2>1, <3>2 DEF NoneVanishes
      <4>2. Somewhere(q) => Somewhere(q)'
        BY <1>2, <1>11 DEF Somewhere, InFlight
      <4> QED BY <1>11, <4>1, <4>2
    <3> QED BY <1>9, <3>1, <3>2
  <2> QED BY <1>2, <2>1 DEF NoneVanishes
<1> QED
  BY <1>10, <1>11, <1>13, <1>14, <1>15, <1>16, <1>17, <1>18, WaitsNext, SoundNext

(* A client's mailbox is closed, and its request ends. *)
LEMMA SettleKeeps ==
  ASSUME WireSound, NEW c \in Askers, client[c].req # 0, NEW how,
         how \in {"timeout"} \cup ReplyKinds, Settle(c, how)
  PROVE  WireSound'
<1>1. PICK r : r = client[c].req
  OBVIOUS
<1>2. /\ outcome' = [outcome EXCEPT ![r] = how]
      /\ client' = [client EXCEPT ![c] = Idle]
      /\ got' = [got EXCEPT ![r] = <<>>]
      /\ vanished' = vanished \ {r}
      /\ nodeUp' = nodeUp /\ UNCHANGED serverVars /\ UNCHANGED laterVars
      /\ asker' = asker /\ target' = target /\ Sent' = Sent /\ program' = program
      /\ severed' = severed /\ flight' = flight /\ faults' = faults
      /\ queue' = queue /\ host' = host /\ worker' = worker /\ parked' = parked /\ held' = held
  BY <1>1 DEF Settle, serverVars, laterVars, Sent
<1>3. /\ NetTyped /\ AskTyped /\ LaterTyped /\ AskersStand /\ BoxesAreSent /\ AskersWait
      /\ NoneVanishes /\ TicketsAreTheProcess
  BY WireTyped, WaitsSplit DEF WireSound
<1>4. /\ DOMAIN outcome = Sent /\ Sent \subseteq Requests /\ 0 \notin Sent
      /\ \A q \in Sent : asker[q] \in Askers
  BY <1>3, AskSays
<1>5. r \in Sent /\ asker[r] = c /\ r # 0
  <2>1. client[c] \in Asker
    BY <1>3 DEF AskTyped
  <2>2. client[c].req \in {0} \cup Sent
    BY <2>1 DEF Asker
  <2> QED BY <1>1, <1>3, <2>2 DEF AskersStand
<1>6. /\ \A q \in Sent : outcome'[q] = IF q = r THEN how ELSE outcome[q]
      /\ \A a \in Askers : client'[a] = IF a = c THEN Idle ELSE client[a]
      /\ \A q \in Requests : got'[q] = IF q = r THEN <<>> ELSE got[q]
      /\ how # "pending"
  BY <1>2, <1>3, <1>4 DEF AskTyped, ReplyKinds
<1>7. AskTyped'
  <2> DEFINE OutcomeKinds == {"pending", "timeout"} \cup ReplyKinds
  <2>1. outcome' \in Seq(OutcomeKinds) /\ Len(outcome') = Len(outcome)
    <3>1. outcome \in Seq(OutcomeKinds) /\ how \in OutcomeKinds /\ r \in 1..Len(outcome)
      <4>1. outcome \in Seq(OutcomeKinds) /\ how \in OutcomeKinds
        BY <1>3 DEF AskTyped
      <4>2. DOMAIN outcome = 1..Len(outcome)
        BY <4>1, LenProperties
      <4> QED BY <1>4, <1>5, <4>1, <4>2
    <3> HIDE DEF OutcomeKinds
    <3> QED BY <1>2, <3>1, ExceptSeq
  <2>2. client' \in [Askers -> Asker]
    <3>1. Idle \in Asker
      BY TimesAssumption DEF Idle, Asker
    <3> QED BY <1>2, <1>3, <3>1 DEF AskTyped
  <2>3. got' \in [Requests -> Seq(ReplyKinds)]
    <3>1. <<>> \in Seq(ReplyKinds)
      BY EmptySeq
    <3> QED BY <1>2, <1>3, <3>1 DEF AskTyped
  <2> QED BY <1>2, <1>3, <2>1, <2>2, <2>3 DEF AskTyped, Asker
<1>8. AskersStand'
  <2>1. ASSUME NEW a \in Askers
        PROVE  /\ client'[a].is = "idle" <=> client'[a].req = 0
               /\ client'[a].req # 0 => /\ asker[client'[a].req] = a
                                        /\ outcome'[client'[a].req] = "pending" /\ nodeUp[a]
    <3>1. CASE a = c
      BY <1>6, <3>1 DEF Idle
    <3>2. CASE a # c
      <4>1. client'[a] = client[a]
        BY <1>6, <3>2
      <4>2. client[a].req \in {0} \cup Sent
        BY <1>3 DEF AskTyped, Asker
      <4>3. client[a].req # 0 => client[a].req # r
        BY <1>3, <1>5, <3>2 DEF AskersStand
      <4> QED BY <1>3, <1>6, <4>1, <4>2, <4>3 DEF AskersStand
    <3> QED BY <3>1, <3>2
  <2>2. ASSUME NEW q \in Sent, outcome'[q] = "pending", nodeUp[asker[q]]
        PROVE  client'[asker[q]].req = q
    <3>1. q # r /\ outcome[q] = "pending"
      BY <1>6, <2>2
    <3>2. client[asker[q]].req = q
      BY <1>3, <2>2, <3>1 DEF AskersStand
    <3>3. asker[q] # c
      BY <1>1, <3>1, <3>2
    <3> QED BY <1>4, <1>6, <3>2, <3>3
  <2> QED BY <1>2, <2>1, <2>2 DEF AskersStand
<1>9. AskersWait'
  <2>1. ASSUME NEW a \in Askers, client'[a].is = "blocked"
        PROVE  got'[client'[a].req] = <<>> /\ client'[a].left > 0
    <3>1. a # c /\ client'[a] = client[a]
      BY <1>6, <2>1 DEF Idle
    <3>2. client[a].req \in {0} \cup Sent /\ client[a].req # 0
      BY <1>3, <2>1, <3>1 DEF AskersStand, AskTyped, Asker
    <3> QED BY <1>3, <1>4, <1>6, <2>1, <3>1, <3>2 DEF AskersWait, Asking
  <2> QED BY <2>1 DEF AskersWait, Asking
<1>10. NetTyped' /\ BoxesAreSent'
  <2>1. NetTyped'
    BY <1>2, <1>3 DEF NetTyped
  <2>2. BoxesAreSent'
    BY <1>2, <1>3, <1>6 DEF BoxesAreSent
  <2> QED BY <2>1, <2>2
<1>11. LaterTyped' /\ TicketsAreTheProcess'
  BY <1>2, <1>3 DEF LaterTyped, TicketsAreTheProcess
<1>12. NodesTyped' /\ ServeTyped' /\ WorkersStand' /\ ServersStand' /\ WorkersWait'
  BY <1>2, ServersSame
<1>13. NoneVanishes'
  <2>1. ASSUME NEW q \in Sent, outcome'[q] = "pending", nodeUp[asker[q]]
        PROVE  q \in vanished' \/ Somewhere(q)'
    <3>1. q # r /\ outcome[q] = "pending"
      BY <1>6, <2>1
    <3>2. q \in vanished \/ Somewhere(q)
      BY <1>3, <2>1, <3>1 DEF NoneVanishes
    <3>3. got'[q] = got[q]
      BY <1>4, <1>6, <3>1
    <3>4. Somewhere(q) => Somewhere(q)'
      BY <1>2, <3>3 DEF Somewhere
    <3> QED BY <1>2, <3>1, <3>2, <3>4
  <2> QED BY <1>2, <2>1 DEF NoneVanishes
<1> QED
  BY <1>7, <1>8, <1>9, <1>10, <1>11, <1>12, <1>13, WaitsNext, SoundNext

LEMMA TakesOrGivesUpKeeps ==
  ASSUME WireSound, NEW c \in Askers, TakeAnswer(c) \/ GiveUp(c)
  PROVE  WireSound'
<1>1. AskTyped /\ AskersStand /\ Sent \subseteq Requests
  BY WireTyped, AskSays DEF WireSound
<1>2. client[c].is = "ready"
  BY DEF TakeAnswer, GiveUp, Woken
<1>3. client[c].req # 0 /\ client[c].req \in Sent
  <2>1. client[c] \in Asker
    BY <1>1 DEF AskTyped
  <2> QED BY <1>1, <1>2, <2>1 DEF AskersStand, Asker
<1>4. CASE TakeAnswer(c)
  <2>1. PICK how : how = Head(got[client[c].req])
    OBVIOUS
  <2>2. got[client[c].req] # <<>> /\ Settle(c, how)
    BY <1>4, <2>1 DEF TakeAnswer
  <2>3. got[client[c].req] \in Seq(ReplyKinds)
    BY <1>1, <1>3 DEF AskTyped
  <2>4. how \in ReplyKinds
    BY <2>1, <2>2, <2>3, HeadTailProperties
  <2> QED BY <1>3, <2>2, <2>4, SettleKeeps
<1>5. CASE GiveUp(c)
  BY <1>3, <1>5, SettleKeeps DEF GiveUp
<1> QED BY <1>4, <1>5

LEMMA CrashClientKeeps ==
  ASSUME WireSound, NEW c \in Askers, CrashClient(c)
  PROVE  WireSound'
<1>1. PICK r : r = client[c].req
  OBVIOUS
<1>2. /\ r # 0 /\ faults < MaxFaults /\ faults' = faults + 1
      /\ nodeUp' = [nodeUp EXCEPT ![c] = FALSE]
      /\ client' = [client EXCEPT ![c] = Idle]
      /\ got' = [got EXCEPT ![r] = <<>>]
      /\ UNCHANGED serverVars /\ UNCHANGED laterVars
      /\ asker' = asker /\ target' = target /\ outcome' = outcome /\ Sent' = Sent
      /\ program' = program
      /\ severed' = severed /\ flight' = flight /\ vanished' = vanished
      /\ queue' = queue /\ host' = host /\ worker' = worker /\ parked' = parked /\ held' = held
  BY <1>1 DEF CrashClient, Fault, serverVars, laterVars, Sent
<1>3. /\ NodesTyped /\ NetTyped /\ AskTyped /\ LaterTyped /\ AskersStand /\ BoxesAreSent
      /\ AskersWait /\ NoneVanishes /\ TicketsAreTheProcess
  BY WireTyped, WaitsSplit DEF WireSound
<1>4. /\ Sent \subseteq Requests /\ 0 \notin Sent /\ \A q \in Sent : asker[q] \in Askers
  BY <1>3, AskSays
<1>5. r \in Sent /\ asker[r] = c
  <2>1. client[c] \in Asker
    BY <1>3 DEF AskTyped
  <2>2. client[c].req \in {0} \cup Sent
    BY <2>1 DEF Asker
  <2> QED BY <1>1, <1>2, <1>3, <2>2 DEF AskersStand
<1>6. /\ \A a \in Askers : client'[a] = IF a = c THEN Idle ELSE client[a]
      /\ \A q \in Requests : got'[q] = IF q = r THEN <<>> ELSE got[q]
      /\ \A m \in Askers \cup Servers : nodeUp'[m] = IF m = c THEN FALSE ELSE nodeUp[m]
  BY <1>2, <1>3 DEF AskTyped, NodesTyped
<1>7. AskTyped'
  <2>1. client' \in [Askers -> Asker]
    <3>1. Idle \in Asker
      BY TimesAssumption DEF Idle, Asker
    <3> QED BY <1>2, <1>3, <3>1 DEF AskTyped
  <2>2. got' \in [Requests -> Seq(ReplyKinds)]
    <3>1. <<>> \in Seq(ReplyKinds)
      BY EmptySeq
    <3> QED BY <1>2, <1>3, <3>1 DEF AskTyped
  <2> QED BY <1>2, <1>3, <2>1, <2>2 DEF AskTyped, Asker
<1>8. AskersStand'
  <2>1. ASSUME NEW a \in Askers
        PROVE  /\ client'[a].is = "idle" <=> client'[a].req = 0
               /\ client'[a].req # 0 => /\ asker[client'[a].req] = a
                                        /\ outcome[client'[a].req] = "pending" /\ nodeUp'[a]
    <3>1. CASE a = c
      BY <1>6, <3>1 DEF Idle
    <3>2. CASE a # c
      <4>1. client'[a] = client[a] /\ nodeUp'[a] = nodeUp[a]
        BY <1>6, <3>2
      <4> QED BY <1>3, <4>1 DEF AskersStand
    <3> QED BY <3>1, <3>2
  <2>2. ASSUME NEW q \in Sent, outcome[q] = "pending", nodeUp'[asker[q]]
        PROVE  client'[asker[q]].req = q
    <3>1. asker[q] # c /\ nodeUp[asker[q]]
      BY <1>4, <1>6, <2>2
    <3> QED BY <1>3, <1>4, <1>6, <2>2, <3>1 DEF AskersStand
  <2> QED BY <1>2, <2>1, <2>2 DEF AskersStand
<1>9. AskersWait'
  <2>1. ASSUME NEW a \in Askers, client'[a].is = "blocked"
        PROVE  got'[client'[a].req] = <<>> /\ client'[a].left > 0
    <3>1. a # c /\ client'[a] = client[a]
      BY <1>6, <2>1 DEF Idle
    <3>2. client[a].req \in {0} \cup Sent /\ client[a].req # 0
      BY <1>3, <2>1, <3>1 DEF AskersStand, AskTyped, Asker
    <3> QED BY <1>3, <1>4, <1>6, <2>1, <3>1, <3>2 DEF AskersWait, Asking
  <2> QED BY <2>1 DEF AskersWait, Asking
<1>10. NetTyped' /\ BoxesAreSent' /\ NodesTyped'
  <2>1. faults' \in 0..MaxFaults
    BY <1>2, <1>3, WireBoundsAssumption DEF NetTyped
  <2>2. NetTyped'
    BY <1>2, <1>3, <2>1 DEF NetTyped
  <2>3. BoxesAreSent'
    BY <1>2, <1>3, <1>6 DEF BoxesAreSent
  <2> QED BY <1>2, <1>3, <2>2, <2>3 DEF NodesTyped
<1>11. LaterTyped' /\ TicketsAreTheProcess'
  BY <1>2, <1>3 DEF LaterTyped, TicketsAreTheProcess
<1>12. ServeTyped' /\ WorkersStand' /\ ServersStand' /\ WorkersWait'
  <2>1. \A n \in Servers : nodeUp'[n] = nodeUp[n]
    BY <1>6, WireNodesAssumption
  <2> QED BY <1>2, <2>1, ServersSame
<1>13. NoneVanishes'
  <2>1. ASSUME NEW q \in Sent, outcome[q] = "pending", nodeUp'[asker[q]]
        PROVE  q \in vanished \/ Somewhere(q)'
    <3>1. asker[q] # c /\ nodeUp[asker[q]] /\ q # r
      BY <1>4, <1>5, <1>6, <2>1
    <3>2. q \in vanished \/ Somewhere(q)
      BY <1>3, <2>1, <3>1 DEF NoneVanishes
    <3>3. got'[q] = got[q]
      BY <1>4, <1>6, <3>1
    <3>4. Somewhere(q) => Somewhere(q)'
      BY <1>2, <3>3 DEF Somewhere
    <3> QED BY <3>2, <3>4
  <2> QED BY <1>2, <2>1 DEF NoneVanishes
<1> QED
  BY <1>7, <1>8, <1>9, <1>10, <1>11, <1>12, <1>13, WaitsNext, SoundNext

-----------------------------------------------------------------------------
(* What the network and the clock do *)

LEMMA PartitionKeeps ==
  ASSUME WireSound, NEW c \in Askers, NEW n \in Servers, Partition(c, n) \/ Heal
  PROVE  WireSound'
<1>1. /\ severed' \subseteq severed \cup {{c, n}} /\ flight' = flight /\ vanished' = vanished
      /\ faults' = faults \/ (faults < MaxFaults /\ faults' = faults + 1)
      /\ nodeUp' = nodeUp /\ UNCHANGED clientVars /\ UNCHANGED serverVars /\ UNCHANGED laterVars
      /\ asker' = asker /\ got' = got /\ outcome' = outcome /\ program' = program /\ Sent' = Sent
  BY DEF Partition, Heal, Fault, clientVars, serverVars, Sent
<1>2. NetTyped
  BY WireTyped DEF WireSound
<1>3. NetTyped'
  <2>1. faults' \in 0..MaxFaults
    BY <1>1, <1>2, WireBoundsAssumption DEF NetTyped
  <2>2. severed' \subseteq Pairs
    BY <1>1, <1>2 DEF NetTyped, Pairs
  <2> QED BY <1>1, <1>2, <2>1, <2>2 DEF NetTyped
<1>4. /\ NodesTyped' /\ ServeTyped' /\ WorkersStand' /\ ServersStand' /\ WorkersWait'
      /\ \A q \in Sent : Queued(q) \/ AtWork(q) => StaysPut(q)
  BY <1>1, ServersSame
<1>5. /\ AskTyped' /\ AskersStand' /\ AskersWait'
      /\ \A q \in Sent : got[q] # <<>> => StaysPut(q)
  BY <1>1, ClientsSame
<1>6. /\ LaterTyped' /\ BoxesAreSent' /\ TicketsAreTheProcess'
      /\ \A q \in Sent : parked[q] # "none" => StaysPut(q)
  BY <1>1, TicketsSame
<1>7. \A q \in Sent : q \in vanished \/ InFlight(q) => StaysPut(q)
  BY <1>1 DEF StaysPut, InFlight
<1>8. NoneVanishes'
  BY <1>1, <1>4, <1>5, <1>6, <1>7, NoneVanishesStep
<1> QED BY <1>3, <1>4, <1>5, <1>6, <1>8, WaitsNext, SoundNext

LEMMA ClockKeeps ==
  ASSUME WireSound, NEW d \in Timers, ClockAdvances(d)
  PROVE  WireSound'
<1>1. /\ \A e \in Timers : d <= e
      /\ flight' = [i \in DOMAIN flight |-> [flight[i] EXCEPT !.at = @ - d]]
      /\ client' = [c \in Askers |->
           IF c \notin Asking THEN client[c]
           ELSE [client[c] EXCEPT !.left = @ - d, !.is = IF client[c].left = d THEN "ready" ELSE @]]
      /\ nodeUp' = nodeUp /\ UNCHANGED serverVars /\ UNCHANGED laterVars
      /\ asker' = asker /\ target' = target /\ outcome' = outcome /\ got' = got
      /\ severed' = severed /\ faults' = faults /\ vanished' = vanished
      /\ program' = program /\ Sent' = Sent
      /\ queue' = queue /\ host' = host /\ worker' = worker /\ parked' = parked
  BY DEF ClockAdvances, serverVars, laterVars, Sent
<1>2. /\ NetTyped /\ AskTyped /\ AskersStand /\ AskersWait
  BY WireTyped, WaitsSplit DEF WireSound
<1>3. \A c \in Askers : client[c] \in Asker /\ client[c].left \in Nat
  BY <1>2, TimesAssumption DEF AskTyped, Asker
<1>4. d \in Nat
  BY <1>2, <1>3, FlightSays DEF Timers, Asking
<1>5. /\ flight' \in Seq(Message(Sent)) /\ DOMAIN flight' = DOMAIN flight
      /\ \A i \in DOMAIN flight : flight'[i].req = flight[i].req
  <2>1. ASSUME NEW i \in DOMAIN flight
        PROVE  /\ [flight[i] EXCEPT !.at = @ - d] \in Message(Sent)
               /\ [flight[i] EXCEPT !.at = @ - d].req = flight[i].req
    <3>1. flight[i] \in Message(Sent) /\ flight[i].at \in Nat
      BY <1>2, FlightSays
    <3>2. d <= flight[i].at
      BY <1>1 DEF Timers
    <3>3. flight[i].at - d \in Nat
      BY <1>4, <3>1, <3>2
    <3>4. /\ [flight[i] EXCEPT !.at = flight[i].at - d] \in Message(Sent)
          /\ [flight[i] EXCEPT !.at = flight[i].at - d].req = flight[i].req
      BY <3>1, <3>3 DEF Message
    <3> QED BY <3>4
  <2>2. DOMAIN flight = 1..Len(flight) /\ Len(flight) \in Nat
    BY <1>2, LenProperties DEF NetTyped
  <2> DEFINE M == Message(Sent)
             n == Len(flight)
             later == [i \in 1..n |-> [flight[i] EXCEPT !.at = @ - d]]
  <2>3. \A i \in 1..n : [flight[i] EXCEPT !.at = @ - d] \in M
    BY <2>1, <2>2
  <2>4. n \in Nat /\ flight' = later /\ DOMAIN later = 1..n
    BY <1>1, <2>2
  <2> HIDE DEF M, n
  <2>5. later \in Seq(M)
    BY <2>3, <2>4, IsASeq
  <2>6. \A i \in 1..n : later[i].req = flight[i].req
    BY <2>1, <2>2 DEF n
  <2> HIDE DEF later
  <2> QED BY <2>2, <2>4, <2>5, <2>6 DEF M, n
<1>6. ASSUME NEW c \in Askers
      PROVE  /\ client'[c] \in Asker
             /\ client'[c].req = client[c].req
             /\ client'[c].is = "idle" <=> client[c].is = "idle"
             /\ client'[c].is = "blocked" => client[c].is = "blocked" /\ client'[c].left > 0
  <2>1. CASE c \notin Asking
    BY <1>1, <1>3, <2>1 DEF Asking
  <2>2. CASE c \in Asking
    <3> DEFINE left == client[c].left - d
               is == IF client[c].left = d THEN "ready" ELSE client[c].is
    <3>1. client'[c] = [client[c] EXCEPT !.left = left, !.is = is]
      BY <1>1, <2>2
    <3>2. client[c].is = "blocked" /\ client[c].left > 0 /\ client[c].left <= Timeout
      BY <1>2, <1>3, <2>2, TimesAssumption DEF AskersWait, Asking, Asker
    <3>3. d <= client[c].left
      BY <1>1, <2>2 DEF Timers
    <3>4. left \in 0..Timeout /\ is \in {"ready", "blocked"} /\ (is = "blocked" => left > 0)
      BY <1>3, <1>4, <3>2, <3>3, TimesAssumption
    <3> HIDE DEF left, is
    <3>5. /\ client'[c] \in Asker /\ client'[c].req = client[c].req
          /\ client'[c].left = left /\ client'[c].is = is
      BY <1>3, <3>1, <3>4 DEF Asker
    <3> QED BY <3>2, <3>4, <3>5
  <2> QED BY <2>1, <2>2
<1>7. NetTyped'
  BY <1>1, <1>2, <1>5 DEF NetTyped
<1>8. AskTyped' /\ AskersStand' /\ AskersWait'
  <2>1. client' \in [Askers -> Asker]
    <3>1. client' = [c \in Askers |-> client'[c]]
      BY <1>1
    <3> HIDE DEF Asker
    <3> QED BY <1>6, <3>1
  <2>2. AskTyped'
    BY <1>1, <1>2, <2>1 DEF AskTyped, Asker
  <2>3. AskersStand'
    <3>1. \A q \in Sent : asker[q] \in Askers
      BY <1>2, AskSays
    <3>2. ASSUME NEW c \in Askers
          PROVE  /\ client'[c].is = "idle" <=> client'[c].req = 0
                 /\ client'[c].req # 0 => /\ asker[client'[c].req] = c
                                          /\ outcome[client'[c].req] = "pending" /\ nodeUp[c]
      <4>1. /\ client'[c].req = client[c].req
            /\ client'[c].is = "idle" <=> client[c].is = "idle"
        BY <1>6
      <4> QED BY <1>2, <4>1 DEF AskersStand
    <3>3. ASSUME NEW q \in Sent, outcome[q] = "pending", nodeUp[asker[q]]
          PROVE  client'[asker[q]].req = q
      <4>1. client[asker[q]].req = q
        BY <1>2, <3>3 DEF AskersStand
      <4> QED BY <1>6, <3>1, <4>1
    <3>4. asker' = asker /\ outcome' = outcome /\ nodeUp' = nodeUp /\ Sent' = Sent
      BY <1>1
    <3> QED BY <3>2, <3>3, <3>4 DEF AskersStand
  <2>4. AskersWait'
    <3>1. \A c \in Askers : client'[c].is = "blocked" =>
            got[client'[c].req] = <<>> /\ client'[c].left > 0
      BY <1>2, <1>6 DEF AskersWait, Asking
    <3> QED BY <1>1, <3>1 DEF AskersWait, Asking
  <2> QED BY <2>2, <2>3, <2>4
<1>9. /\ NodesTyped' /\ ServeTyped' /\ WorkersStand' /\ ServersStand' /\ WorkersWait'
      /\ \A q \in Sent : Queued(q) \/ AtWork(q) => StaysPut(q)
  BY <1>1, ServersSame
<1>10. /\ LaterTyped' /\ BoxesAreSent' /\ TicketsAreTheProcess'
       /\ \A q \in Sent : parked[q] # "none" => StaysPut(q)
  BY <1>1, TicketsSame
<1>11. NoneVanishes'
  <2>1. \A q \in Sent : q \in vanished \/ InFlight(q) \/ got[q] # <<>> => StaysPut(q)
    BY <1>1, <1>5 DEF StaysPut, InFlight
  <2> QED BY <1>1, <1>9, <1>10, <2>1, NoneVanishesStep
<1> QED BY <1>7, <1>8, <1>9, <1>10, <1>11, WaitsNext, SoundNext

(* A message that leaves the flight leaves the others in it. *)
LEMMA OneLess ==
  ASSUME NetTyped, NEW i \in DOMAIN flight, NEW r, r = flight[i].req
  PROVE  /\ RemoveAt(flight, i) \in Seq(Message(Sent)) /\ r \in Sent
         /\ \A q : InFlight(q) =>
              q = r \/ \E m : Contains(RemoveAt(flight, i), m) /\ m.req = q
         /\ flight' = RemoveAt(flight, i) => \A q : InFlight(q) => q = r \/ InFlight(q)'
<1> DEFINE less == RemoveAt(flight, i)
<1>1. /\ less \in Seq(Message(Sent))
      /\ \A m : Contains(flight, m) => m = flight[i] \/ Contains(less, m)
  BY RemoveAtKeeps DEF NetTyped
<1>2. r \in Sent
  BY FlightSays
<1>3. \A q : InFlight(q) => q = r \/ \E m : Contains(less, m) /\ m.req = q
  BY <1>1, FlightHolds
<1>4. DOMAIN less = 1..Len(less)
  BY <1>1, LenProperties
<1> HIDE DEF less
<1>5. flight' = less => \A q : InFlight(q) => q = r \/ InFlight(q)'
  <2>1. SUFFICES ASSUME flight' = less, NEW q, InFlight(q) PROVE q = r \/ InFlight(q)'
    OBVIOUS
  <2>2. DOMAIN flight' = 1..Len(flight')
    BY <1>4, <2>1
  <2>3. CASE q # r
    <3>1. PICK m : Contains(less, m) /\ m.req = q
      BY <1>3, <2>1, <2>3
    <3>2. PICK k \in 1..Len(less) : less[k] = m
      BY <3>1 DEF Contains
    <3>3. k \in DOMAIN flight' /\ flight'[k].req = q
      BY <2>1, <2>2, <3>1, <3>2
    <3> QED BY <3>3 DEF InFlight
  <2> QED BY <2>3
<1> QED BY <1>1, <1>2, <1>3, <1>5 DEF less

LEMMA DeliverNowhereKeeps ==
  ASSUME WireSound, NEW i \in Arrived, DeliverNowhere(i)
  PROVE  WireSound'
<1>1. PICK r : r = flight[i].req
  OBVIOUS
<1>2. /\ flight' = RemoveAt(flight, i) /\ vanished' = Lost({r})
      /\ severed' = severed /\ faults' = faults /\ nodeUp' = nodeUp
      /\ UNCHANGED clientVars /\ UNCHANGED serverVars /\ UNCHANGED laterVars
      /\ asker' = asker /\ got' = got /\ outcome' = outcome /\ program' = program /\ Sent' = Sent
  BY <1>1 DEF DeliverNowhere, clientVars, serverVars, Sent
<1>3. NetTyped /\ i \in DOMAIN flight
  BY WireTyped DEF WireSound, Arrived
<1>4. /\ flight' \in Seq(Message(Sent)) /\ r \in Sent
      /\ \A q : InFlight(q) => q = r \/ InFlight(q)'
  BY <1>1, <1>2, <1>3, OneLess
<1>5. vanished' \subseteq Sent /\ vanished \subseteq vanished'
      /\ (outcome[r] = "pending" => r \in vanished')
  BY <1>2, <1>3, <1>4 DEF Lost, NetTyped, AllSettled
<1>6. NetTyped'
  BY <1>2, <1>3, <1>4, <1>5 DEF NetTyped
<1>7. /\ NodesTyped' /\ ServeTyped' /\ WorkersStand' /\ ServersStand' /\ WorkersWait'
      /\ \A q \in Sent : Queued(q) \/ AtWork(q) => StaysPut(q)
  BY <1>2, ServersSame
<1>8. /\ AskTyped' /\ AskersStand' /\ AskersWait'
      /\ \A q \in Sent : got[q] # <<>> => StaysPut(q)
  BY <1>2, ClientsSame
<1>9. /\ LaterTyped' /\ BoxesAreSent' /\ TicketsAreTheProcess'
      /\ \A q \in Sent : parked[q] # "none" => StaysPut(q)
  BY <1>2, TicketsSame
<1>10. NoneVanishes'
  <2>1. \A q \in Sent : q \in vanished => StaysPut(q)
    BY <1>5 DEF StaysPut
  <2>2. \A q \in Sent : outcome[q] = "pending" /\ InFlight(q) => StaysPut(q)
    BY <1>4, <1>5 DEF StaysPut
  <2> QED BY <1>2, <1>7, <1>8, <1>9, <2>1, <2>2, NoneVanishesStep
<1> QED BY <1>6, <1>7, <1>8, <1>9, <1>10, WaitsNext, SoundNext

LEMMA DeliverRefusedKeeps ==
  ASSUME WireSound, NEW i \in Arrived, NEW fate, DeliverRefused(i, fate)
  PROVE  WireSound'
<1>1. PICK r : r = flight[i].req
  OBVIOUS
<1>2. PICK kind \in {"rejected", "refused"} :
        Carry(RemoveAt(flight, i), kind, r, Link(r), fate) /\ fate \in Fates(Link(r))
  BY <1>1 DEF DeliverRefused
<1>3. /\ nodeUp' = nodeUp /\ UNCHANGED clientVars /\ UNCHANGED serverVars /\ UNCHANGED laterVars
      /\ asker' = asker /\ got' = got /\ outcome' = outcome /\ program' = program /\ Sent' = Sent
  BY DEF DeliverRefused, clientVars, serverVars, Sent
<1>4. NetTyped /\ i \in DOMAIN flight
  BY WireTyped DEF WireSound, Arrived
<1>5. PICK rest : rest = RemoveAt(flight, i)
  OBVIOUS
<1>6. /\ rest \in Seq(Message(Sent)) /\ r \in Sent
      /\ \A q : InFlight(q) => q = r \/ \E m : Contains(rest, m) /\ m.req = q
  BY <1>1, <1>4, <1>5, OneLess
<1>7. /\ NetTyped' /\ vanished \subseteq vanished'
      /\ \A q : (\E m : Contains(rest, m) /\ m.req = q) => InFlight(q)'
      /\ InFlight(r)' \/ r \in vanished' \/ r \in AllSettled
  <2>1. kind \in MessageKinds
    BY DEF MessageKinds, ReplyKinds
  <2> QED BY <1>2, <1>3, <1>4, <1>5, <1>6, <2>1, CarryKeeps
<1>8. /\ NodesTyped' /\ ServeTyped' /\ WorkersStand' /\ ServersStand' /\ WorkersWait'
      /\ \A q \in Sent : Queued(q) \/ AtWork(q) => StaysPut(q)
  BY <1>3, ServersSame
<1>9. /\ AskTyped' /\ AskersStand' /\ AskersWait'
      /\ \A q \in Sent : got[q] # <<>> => StaysPut(q)
  BY <1>3, ClientsSame
<1>10. /\ LaterTyped' /\ BoxesAreSent' /\ TicketsAreTheProcess'
       /\ \A q \in Sent : parked[q] # "none" => StaysPut(q)
  BY <1>3, TicketsSame
<1>11. NoneVanishes'
  <2>1. \A q \in Sent : q \in vanished => StaysPut(q)
    BY <1>7 DEF StaysPut
  <2>2. \A q \in Sent : outcome[q] = "pending" /\ InFlight(q) => StaysPut(q)
    BY <1>6, <1>7 DEF StaysPut, AllSettled
  <2> QED BY <1>3, <1>8, <1>9, <1>10, <2>1, <2>2, NoneVanishesStep
<1> QED BY <1>7, <1>8, <1>9, <1>10, <1>11, WaitsNext, SoundNext
LEMMA DeliverRequestKeeps ==
  ASSUME WireSound, NEW i \in Arrived, DeliverRequest(i)
  PROVE  WireSound'
<1>1. PICK r : r = flight[i].req
  OBVIOUS
<1>2. PICK l : l = listener[target[r]]
  OBVIOUS
<1>3. /\ l # 0 /\ flight' = RemoveAt(flight, i)
      /\ queue' = [queue EXCEPT ![l] = Append(@, r)]
      /\ worker' = [worker EXCEPT ![l] = WokenWorkers(l)]
      /\ nodeUp' = nodeUp /\ UNCHANGED clientVars /\ UNCHANGED laterVars
      /\ listener' = listener /\ program' = program /\ host' = host
      /\ severed' = severed /\ faults' = faults /\ vanished' = vanished
      /\ asker' = asker /\ got' = got /\ outcome' = outcome /\ parked' = parked /\ Sent' = Sent
  BY <1>1, <1>2 DEF DeliverRequest, clientVars, laterVars, Sent
<1>4. /\ NodesTyped /\ NetTyped /\ AskTyped /\ ServeTyped /\ WorkersStand /\ ServersStand
      /\ WorkersWait /\ i \in DOMAIN flight
  BY WireTyped, WaitsSplit DEF WireSound, Arrived
<1>5. /\ flight' \in Seq(Message(Sent)) /\ r \in Sent
      /\ \A q : InFlight(q) => q = r \/ InFlight(q)'
  BY <1>1, <1>3, <1>4, OneLess
<1>6. /\ DOMAIN queue = DOMAIN host /\ DOMAIN host \subseteq Serves
      /\ l \in DOMAIN host /\ host[l] = target[r]
      /\ \A w \in Workers : worker[l][w].is \notin {"done", "none"}
      /\ \A n \in Servers : listener[n] # 0 => listener[n] \in DOMAIN host
      /\ queue[l] \in Seq(Sent)
  <2>1. target[r] \in Servers
    BY <1>4, <1>5, AskSays
  <2>2. /\ DOMAIN queue = DOMAIN host /\ DOMAIN host \subseteq Serves
        /\ \A n \in Servers : listener[n] # 0 => listener[n] \in DOMAIN host
        /\ l \in DOMAIN host /\ queue[l] \in Seq(Sent)
    BY <1>2, <1>3, <1>4, <2>1, ServeSays
  <2>3. host[l] = target[r] /\ \A w \in Workers : worker[l][w].is # "done"
    BY <1>2, <1>3, <1>4, <2>1 DEF ServersStand
  <2> QED BY <1>4, <2>2, <2>3 DEF WorkersStand
<1>7. /\ worker' \in [Serves -> [Workers -> Task]]
      /\ \A k \in Serves, w \in Workers :
           /\ worker'[k][w].req = worker[k][w].req
           /\ worker'[k][w].is =
                IF k = l /\ worker[k][w].is = "blocked" THEN "ready" ELSE worker[k][w].is
  <2>1. l \in Serves /\ ServeTyped
    BY <1>4, <1>6
  <2>2. worker' = [worker EXCEPT ![l] = WokenWorkers(l)] /\ Sent' = Sent
    BY <1>3
  <2> QED BY <2>1, <2>2, WokenKeeps
<1>8. /\ Append(queue[l], r) \in Seq(Sent) /\ Append(queue[l], r) # <<>>
      /\ \A x : Contains(queue[l], x) => Contains(Append(queue[l], r), x)
      /\ Contains(Append(queue[l], r), r)
  BY <1>5, <1>6, AppendKeeps
<1>9. /\ queue' \in Seq(Seq(Sent)) /\ Len(queue') = Len(queue)
      /\ \A k \in DOMAIN host : queue'[k] = IF k = l THEN Append(queue[l], r) ELSE queue[k]
  <2>1. queue \in Seq(Seq(Sent)) /\ DOMAIN queue = 1..Len(queue)
    BY <1>4, LenProperties DEF ServeTyped
  <2>2. l \in 1..Len(queue) /\ queue' = [queue EXCEPT ![l] = Append(queue[l], r)]
    BY <1>3, <1>6, <2>1
  <2> QED BY <1>6, <1>8, <2>1, <2>2, ExceptSeq
<1>10. NodesTyped' /\ NetTyped' /\ ServeTyped'
  <2>1. NodesTyped' /\ NetTyped'
    BY <1>3, <1>4, <1>5 DEF NodesTyped, NetTyped
  <2> QED BY <1>3, <1>4, <1>7, <1>9, <2>1 DEF ServeTyped, Task
<1>11. WorkersStand'
  BY <1>3, <1>4, <1>6, <1>7 DEF WorkersStand
<1>12. ServersStand'
  <2>1. \A n \in Servers, w \in Workers : listener[n] # 0 => worker'[listener[n]][w].is # "done"
    <3>1. \A n \in Servers : listener[n] # 0 => listener[n] \in Serves
      BY <1>6
    <3> QED BY <1>4, <1>7, <3>1 DEF ServersStand
  <2> QED BY <1>3, <1>4, <2>1 DEF ServersStand
<1>13. WorkersWait'
  <2>1. ASSUME NEW k \in DOMAIN host
        PROVE  /\ \A w \in Workers : worker'[k][w].is = "blocked" => queue'[k] = <<>> /\ Listening(k)
               /\ queue'[k] # <<>> =>
                    \E w \in Workers : worker'[k][w].is \in {"ready", "handling", "holding"}
    <3>1. CASE k = l
      <4>1. \A w \in Workers : worker'[k][w].is \in {"ready", "handling", "holding"}
        <5>1. \A w \in Workers : worker[l][w].is \in TaskStates \ {"done", "none"}
          BY <1>4, <1>6 DEF ServeTyped, Task
        <5>2. \A w \in Workers :
                worker'[l][w].is = IF worker[l][w].is = "blocked" THEN "ready" ELSE worker[l][w].is
          BY <1>6, <1>7
        <5> QED BY <3>1, <5>1, <5>2 DEF TaskStates
      <4> QED BY <4>1, WireBoundsAssumption
    <3>2. CASE k # l
      <4>1. queue'[k] = queue[k] /\ \A w \in Workers : worker'[k][w].is = worker[k][w].is
        BY <1>6, <1>7, <1>9, <3>2
      <4> QED BY <1>4, <4>1 DEF WorkersWait
    <3> QED BY <3>1, <3>2
  <2> QED BY <1>3, <1>4, <2>1 DEF WorkersWait, Listening
<1>14. /\ AskTyped' /\ AskersStand' /\ AskersWait'
       /\ \A q \in Sent : got[q] # <<>> => StaysPut(q)
  BY <1>3, ClientsSame
<1>15. /\ LaterTyped' /\ BoxesAreSent' /\ TicketsAreTheProcess'
       /\ \A q \in Sent : parked[q] # "none" => StaysPut(q)
  BY <1>3, TicketsSame
<1>16. NoneVanishes'
  <2>1. Queued(r)'
    BY <1>3, <1>6, <1>8, <1>9 DEF Queued
  <2>2. \A q \in Sent : InFlight(q) \/ q \in vanished => StaysPut(q)
    BY <1>3, <1>5, <2>1 DEF StaysPut
  <2>3. \A q \in Sent : Queued(q) => StaysPut(q)
    BY <1>3, <1>6, <1>8, <1>9 DEF StaysPut, Queued
  <2>4. \A q \in Sent : AtWork(q) => StaysPut(q)
    BY <1>3, <1>6, <1>7 DEF StaysPut, AtWork
  <2> QED BY <1>3, <1>14, <1>15, <2>2, <2>3, <2>4, NoneVanishesStep
<1> QED
  BY <1>10, <1>11, <1>12, <1>13, <1>14, <1>15, <1>16, WaitsNext, SoundNext

(* An answer that comes late is to a request nobody waits for. *)
LEMMA DeliverAnswerKeeps ==
  ASSUME WireSound, NEW i \in Arrived, DeliverAnswer(i)
  PROVE  WireSound'
<1>1. PICK r : r = flight[i].req
  OBVIOUS
<1>2. PICK c : c = asker[r]
  OBVIOUS
<1>3. PICK kind : kind = flight[i].kind
  OBVIOUS
<1>4. /\ kind \in ReplyKinds /\ flight' = RemoveAt(flight, i)
      /\ got' = IF client[c].req = r THEN [got EXCEPT ![r] = Append(@, kind)] ELSE got
      /\ client' = IF client[c].req = r THEN [client EXCEPT ![c].is = "ready"] ELSE client
      /\ nodeUp' = nodeUp /\ UNCHANGED serverVars /\ UNCHANGED laterVars
      /\ asker' = asker /\ target' = target /\ outcome' = outcome /\ Sent' = Sent
      /\ severed' = severed /\ faults' = faults /\ vanished' = vanished
      /\ program' = program /\ parked' = parked /\ held' = held
  BY <1>1, <1>2, <1>3 DEF DeliverAnswer, serverVars, laterVars, Sent
<1>5. /\ NodesTyped /\ NetTyped /\ AskTyped /\ LaterTyped /\ AskersStand /\ BoxesAreSent
      /\ AskersWait /\ TicketsAreTheProcess /\ i \in DOMAIN flight
  BY WireTyped, WaitsSplit DEF WireSound, Arrived
<1>6. /\ flight' \in Seq(Message(Sent)) /\ r \in Sent
      /\ \A q : InFlight(q) => q = r \/ InFlight(q)'
  BY <1>1, <1>4, <1>5, OneLess
<1>7. /\ Sent \subseteq Requests /\ 0 \notin Sent /\ c \in Askers
      /\ kind \in ReplyKinds
  BY <1>2, <1>4, <1>5, <1>6, AskSays
<1> DEFINE AnswerKinds == ReplyKinds
<1>8. /\ got' \in [Requests -> Seq(AnswerKinds)]
      /\ \A q \in Requests : q # r => got'[q] = got[q]
      /\ client[c].req = r => got'[r] # <<>>
      /\ got[r] # <<>> => got'[r] # <<>>
  <2>1. got \in [Requests -> Seq(AnswerKinds)] /\ r \in Requests /\ kind \in AnswerKinds
    BY <1>5, <1>6, <1>7 DEF AskTyped
  <2> HIDE DEF AnswerKinds
  <2>2. Append(got[r], kind) \in Seq(AnswerKinds) /\ Append(got[r], kind) # <<>>
    BY <2>1, AppendKeeps
  <2> QED BY <1>4, <2>1, <2>2
<1>9. \A a \in Askers :
        /\ client'[a] \in Asker /\ client'[a].req = client[a].req
        /\ client'[a].is = IF a = c /\ client[c].req = r THEN "ready" ELSE client[a].is
        /\ client'[a].left = client[a].left
  BY <1>4, <1>5, <1>7 DEF AskTyped, Asker
<1>10. AskTyped'
  <2>1. client' \in [Askers -> Asker]
    <3>1. client' = [a \in Askers |-> client'[a]]
      BY <1>4, <1>5 DEF AskTyped
    <3> HIDE DEF Asker
    <3> QED BY <1>9, <3>1
  <2> QED BY <1>4, <1>5, <1>8, <2>1 DEF AskTyped, Asker
<1>11. AskersStand'
  <2>1. client[c].req = r => client[c].is # "idle"
    BY <1>5, <1>6, <1>7 DEF AskersStand
  <2>2. ASSUME NEW a \in Askers
        PROVE  /\ client'[a].is = "idle" <=> client'[a].req = 0
               /\ client'[a].req # 0 => /\ asker[client'[a].req] = a
                                        /\ outcome[client'[a].req] = "pending" /\ nodeUp[a]
    <3>1. client'[a].req = client[a].req /\ (client'[a].is = "idle" <=> client[a].is = "idle")
      BY <1>9, <2>1
    <3> QED BY <1>5, <3>1 DEF AskersStand
  <2>3. ASSUME NEW q \in Sent, outcome[q] = "pending", nodeUp[asker[q]]
        PROVE  client'[asker[q]].req = q
    <3>1. client[asker[q]].req = q /\ asker[q] \in Askers
      BY <1>5, <2>3, AskSays DEF AskersStand
    <3> QED BY <1>9, <3>1
  <2> QED BY <1>4, <2>2, <2>3 DEF AskersStand
<1>12. AskersWait'
  <2>1. ASSUME NEW a \in Askers, client'[a].is = "blocked"
        PROVE  got'[client'[a].req] = <<>> /\ client'[a].left > 0
    <3>1. /\ ~(a = c /\ client[c].req = r) /\ client[a].is = "blocked"
          /\ client'[a].req = client[a].req /\ client'[a].left = client[a].left
      BY <1>9, <2>1
    <3>2. got[client[a].req] = <<>> /\ client[a].left > 0
      BY <1>5, <3>1 DEF AskersWait, Asking
    <3>3. client[a].req \in Sent /\ asker[client[a].req] = a
      <4>1. client[a].req \in {0} \cup Sent /\ client[a].req # 0
        BY <1>5, <3>1 DEF AskersStand, AskTyped, Asker
      <4> QED BY <1>5, <4>1 DEF AskersStand
    <3>4. client[a].req # r
      BY <1>2, <3>1, <3>3
    <3> QED BY <1>7, <1>8, <3>1, <3>2, <3>3, <3>4
  <2> QED BY <2>1 DEF AskersWait, Asking
<1>13. NodesTyped' /\ NetTyped' /\ LaterTyped' /\ BoxesAreSent' /\ TicketsAreTheProcess'
  <2>1. NodesTyped' /\ NetTyped'
    BY <1>4, <1>5, <1>6 DEF NodesTyped, NetTyped
  <2>2. BoxesAreSent'
    BY <1>4, <1>5, <1>6, <1>8 DEF BoxesAreSent
  <2> QED BY <1>4, <1>5, <2>1, <2>2 DEF LaterTyped, TicketsAreTheProcess
<1>14. /\ ServeTyped' /\ WorkersStand' /\ ServersStand' /\ WorkersWait'
       /\ \A q \in Sent : Queued(q) \/ AtWork(q) => StaysPut(q)
  BY <1>4, ServersSame
<1>15. NoneVanishes'
  <2>1. ASSUME NEW q \in Sent, outcome'[q] = "pending", nodeUp'[asker'[q]]
        PROVE  q \in vanished' \/ Somewhere(q)'
    <3>1. outcome[q] = "pending" /\ nodeUp[asker[q]]
      BY <1>4, <2>1
    <3>2. CASE q = r
      <4>1. client[c].req = r
        BY <1>2, <1>5, <3>1, <3>2 DEF AskersStand
      <4> QED BY <1>8, <3>2, <4>1 DEF Somewhere
    <3>3. CASE q # r
      <4>1. q \in vanished \/ Somewhere(q)
        BY <3>1 DEF WireSound, NoneVanishes
      <4>2. got'[q] = got[q]
        BY <1>7, <1>8, <3>3
      <4>3. StaysPut(q)
        BY <1>4, <1>6, <1>14, <3>3, <4>1, <4>2, Places DEF StaysPut
      <4>4. Somewhere(q)' <=>
              (InFlight(q)' \/ Queued(q)' \/ AtWork(q)' \/ parked'[q] # "none" \/ got'[q] # <<>>)
        BY DEF Somewhere, InFlight, Queued, AtWork
      <4> QED BY <4>3, <4>4 DEF StaysPut
    <3> QED BY <3>2, <3>3
  <2> QED BY <1>4, <2>1 DEF NoneVanishes
<1> QED BY <1>10, <1>11, <1>12, <1>13, <1>14, <1>15, WaitsNext, SoundNext
-----------------------------------------------------------------------------
(* The theorems *)

LEMMA WireSoundInit == WireInit => WireSound
<1> SUFFICES ASSUME WireInit PROVE WireSound
  OBVIOUS
<1>1. /\ nodeUp = [n \in Askers \cup Servers |-> TRUE]
      /\ severed = {} /\ flight = <<>> /\ faults = 0 /\ vanished = {}
      /\ asker = <<>> /\ target = <<>> /\ outcome = <<>>
      /\ got = [r \in Requests |-> <<>>] /\ client = [c \in Askers |-> Idle]
      /\ listener = [n \in Servers |-> 0] /\ program = [n \in Servers |-> "new"]
      /\ queue = <<>> /\ host = <<>>
      /\ worker = [l \in Serves |-> [w \in Workers |-> NoWork]]
      /\ parked = [r \in Requests |-> "none"] /\ held = [n \in Servers |-> <<>>]
  BY DEF WireInit
<1>2. \A S : <<>> \in Seq(S)
  BY EmptySeq
<1>3. Len(<<>>) = 0 /\ DOMAIN <<>> = {}
  OBVIOUS
<1>4. Sent = {} /\ DOMAIN host = {}
  BY <1>1, <1>3 DEF Sent
<1>5. NodesTyped /\ NetTyped /\ LaterTyped
  BY <1>1, <1>2, WireBoundsAssumption DEF NodesTyped, NetTyped, LaterTyped
<1>6. AskTyped
  <2>1. Idle \in Asker
    BY TimesAssumption DEF Idle, Asker
  <2> QED BY <1>1, <1>2, <1>3, <2>1, WireBoundsAssumption DEF AskTyped
<1>7. ServeTyped
  <2>1. NoWork \in Task
    BY DEF NoWork, Task, TaskStates
  <2> QED BY <1>1, <1>2, <1>3, <2>1, WireBoundsAssumption DEF ServeTyped
<1>8. WorkersStand
  BY <1>1, <1>4 DEF WorkersStand, NoWork
<1>9. ServersStand /\ AskersStand
  BY <1>1, <1>4 DEF ServersStand, AskersStand, Idle
<1>10. BoxesAreSent /\ TicketsAreTheProcess /\ NoneVanishes
  <2>1. \A n \in Servers : n # "none"
    BY WireNodesAssumption
  <2> QED BY <1>1, <1>4, <2>1 DEF BoxesAreSent, TicketsAreTheProcess, NoneVanishes
<1>11. NoWaitIsLost
  BY <1>1, <1>4 DEF NoWaitIsLost, Asking, Idle
<1> QED BY <1>5, <1>6, <1>7, <1>8, <1>9, <1>10, <1>11, WireTyped DEF WireSound

LEMMA WireSoundStep == WireSound /\ [WireNext]_wireVars => WireSound'
<1> SUFFICES ASSUME WireSound, [WireNext]_wireVars PROVE WireSound'
  OBVIOUS
<1>1. CASE ClientSteps
  <2>1. PICK c \in Askers :
          \/ TakeAnswer(c) \/ GiveUp(c) \/ CrashClient(c)
          \/ \E n \in Servers :
               \/ Partition(c, n)
               \/ \E kind \in RequestKinds, fate \in AnyFate : Send(c, n, kind, fate)
    BY <1>1 DEF ClientSteps
  <2>2. CASE TakeAnswer(c) \/ GiveUp(c)
    BY <2>2, TakesOrGivesUpKeeps
  <2>3. CASE CrashClient(c)
    BY <2>3, CrashClientKeeps
  <2>4. ASSUME NEW n \in Servers, Partition(c, n) PROVE WireSound'
    BY <2>4, PartitionKeeps
  <2>5. ASSUME NEW n \in Servers, NEW kind, NEW fate, Send(c, n, kind, fate) PROVE WireSound'
    BY <2>5, SendKeeps
  <2> QED BY <2>1, <2>2, <2>3, <2>4, <2>5
<1>2. CASE ServerSteps
  <2>1. ASSUME NEW n \in Servers,
               \/ Serve(n) \/ ServeReturns(n) \/ Shutdown(n) \/ Notify(n)
               \/ CrashServer(n) \/ ProgramEnds(n) \/ RestartServer(n)
        PROVE  WireSound'
    <3>1. CASE Serve(n)
      BY <3>1, ServeKeeps
    <3>2. CASE ServeReturns(n)
      BY <3>2, ServeReturnsKeeps
    <3>3. CASE Shutdown(n)
      BY <3>3, ShutdownKeeps
    <3>4. CASE Notify(n)
      BY <3>4, NotifyKeeps
    <3>5. CASE CrashServer(n) \/ ProgramEnds(n)
      <4>1. faults \in 0..MaxFaults
        BY DEF WireSound, WireTypeOK
      <4>2. faults' = faults \/ (faults < MaxFaults /\ faults' = faults + 1)
        BY <3>5 DEF CrashServer, ProgramEnds, Fault
      <4>3. faults' \in 0..MaxFaults
        BY <4>1, <4>2, WireBoundsAssumption
      <4>4. StopNode(n)
        BY <3>5 DEF CrashServer, ProgramEnds
      <4> QED BY <4>3, <4>4, StopNodeKeeps
    <3>6. CASE RestartServer(n)
      BY <3>6, RestartServerKeeps
    <3> QED BY <2>1, <3>1, <3>2, <3>3, <3>4, <3>5, <3>6
  <2>2. ASSUME NEW l \in DOMAIN host, NEW w \in Workers,
               \/ NextRequest(l, w) \/ Wait(l, w) \/ EndWork(l, w) \/ Hold(l, w) \/ Park(l, w)
               \/ \E fate \in AnyFate : Answer(l, w, fate)
        PROVE  WireSound'
    <3>1. CASE NextRequest(l, w)
      BY <3>1, NextRequestKeeps
    <3>2. CASE Wait(l, w) \/ EndWork(l, w)
      BY <3>2, RestsKeeps
    <3>3. CASE Hold(l, w)
      BY <3>3, HoldKeeps
    <3>4. CASE Park(l, w)
      BY <3>4, ParkKeeps
    <3>5. ASSUME NEW fate, Answer(l, w, fate) PROVE WireSound'
      BY <3>5, AnswerKeeps
    <3> QED BY <2>2, <3>1, <3>2, <3>3, <3>4, <3>5
  <2>3. ASSUME NEW r \in Requests, NEW fate, Respond(r, fate) PROVE WireSound'
    BY <2>3, RespondKeeps
  <2> QED BY <1>2, <2>1, <2>2, <2>3 DEF ServerSteps
<1>3. CASE NetworkSteps
  <2>1. CASE Heal
    <3>1. \A c \in Askers, n \in Servers : WireSound'
      BY <2>1, PartitionKeeps
    <3>2. \E c \in Askers, n \in Servers : TRUE
      <4>1. severed # {} /\ severed \subseteq {{c, n} : c \in Askers, n \in Servers}
        BY <2>1 DEF Heal, WireSound, WireTypeOK
      <4> QED BY <4>1
    <3> QED BY <3>1, <3>2
  <2>2. ASSUME NEW d \in Timers, ClockAdvances(d) PROVE WireSound'
    BY <2>2, ClockKeeps
  <2>3. ASSUME NEW i \in Arrived,
               \/ DeliverNowhere(i) \/ DeliverRequest(i) \/ DeliverAnswer(i)
               \/ \E fate \in AnyFate : DeliverRefused(i, fate)
        PROVE  WireSound'
    <3>1. CASE DeliverNowhere(i)
      BY <3>1, DeliverNowhereKeeps
    <3>2. CASE DeliverRequest(i)
      BY <3>2, DeliverRequestKeeps
    <3>3. CASE DeliverAnswer(i)
      BY <3>3, DeliverAnswerKeeps
    <3>4. ASSUME NEW fate, DeliverRefused(i, fate) PROVE WireSound'
      BY <3>4, DeliverRefusedKeeps
    <3> QED BY <2>3, <3>1, <3>2, <3>3, <3>4
  <2> QED BY <1>3, <2>1, <2>2, <2>3 DEF NetworkSteps
<1>4. CASE UNCHANGED wireVars
  <2>1. /\ UNCHANGED clientVars /\ UNCHANGED serverVars /\ UNCHANGED laterVars
        /\ UNCHANGED <<severed, flight, faults, vanished, asker>> /\ nodeUp' = nodeUp
        /\ got' = got /\ asker' = asker /\ outcome' = outcome /\ program' = program
    BY <1>4 DEF wireVars, clientVars, serverVars, netVars
  <2>2. /\ NodesTyped' /\ ServeTyped' /\ WorkersStand' /\ ServersStand' /\ WorkersWait'
        /\ \A q \in Sent : Queued(q) \/ AtWork(q) => StaysPut(q)
    BY <2>1, ServersSame
  <2>3. /\ AskTyped' /\ AskersStand' /\ AskersWait'
        /\ \A q \in Sent : got[q] # <<>> => StaysPut(q)
    BY <2>1, ClientsSame
  <2>4. /\ LaterTyped' /\ BoxesAreSent' /\ TicketsAreTheProcess'
        /\ \A q \in Sent : parked[q] # "none" => StaysPut(q)
    BY <2>1, TicketsSame
  <2>5. NetTyped' /\ \A q \in Sent : q \in vanished \/ InFlight(q) => StaysPut(q)
    BY <2>1, NetworkSame
  <2>6. NoneVanishes'
    BY <2>1, <2>2, <2>3, <2>4, <2>5, NoneVanishesStep
  <2> QED BY <2>2, <2>3, <2>4, <2>5, <2>6, WaitsNext, SoundNext
<1> QED BY <1>1, <1>2, <1>3, <1>4 DEF WireNext

LEMMA WireIsSound == WireSpec => []WireSound
<1>1. WireInit => WireSound
  BY WireSoundInit
<1>2. WireSound /\ [WireNext]_wireVars => WireSound'
  BY WireSoundStep
<1> QED BY <1>1, <1>2, PTL DEF WireSpec

(* The network's variables keep their types, whatever links lose and nodes *)
(* stop (wire.rs).                                                         *)
THEOREM WireTypeCorrect == WireSpec => []WireTypeOK
<1>1. WireSound => WireTypeOK
  BY DEF WireSound
<1> QED BY <1>1, WireIsSound, PTL

(* Every worker, http.serve and client that waits waits for something that *)
(* is still to come, and a queue that is not empty has a worker that will  *)
(* look at it (Wire::serve_wait, shutdown, deliver, await_box).            *)
THEOREM NoWaitIsLostAlways == WireSpec => []NoWaitIsLost
<1>1. WireSound => NoWaitIsLost
  BY DEF WireSound
<1> QED BY <1>1, WireIsSound, PTL

(* A request whose client still waits is in flight, queued, in a worker's  *)
(* hands, put aside, or answered, unless the network or a process that     *)
(* ended lost it; and what a process put aside ends with it (drop_listeners). *)
THEOREM RequestsKeepTheirPlaceAlways == WireSpec => []RequestsKeepTheirPlace
<1>1. WireSound => RequestsKeepTheirPlace
  BY DEF WireSound, RequestsKeepTheirPlace
<1> QED BY <1>1, WireIsSound, PTL

-----------------------------------------------------------------------------
(* The linearizability checker (SimLin), to the end of the module: first,    *)
(* sets of naturals.                                                         *)

(* Min of a set of naturals that is not empty is its least member. *)
LEMMA MinIsLeast ==
  ASSUME NEW S \in SUBSET Nat, S # {}
  PROVE  Min(S) \in S /\ \A y \in S : Min(S) <= y
<1>1. \E x \in S : \A y \in S : x <= y
  BY Least
<1> QED
  BY <1>1 DEF Min

(* A bounded set of naturals that is not empty has a greatest member. *)
LEMMA Greatest ==
  ASSUME NEW S \in SUBSET Nat, S # {}, NEW b \in Nat, \A m \in S : m <= b
  PROVE  \E n \in S : \A m \in S : m <= n
<1> DEFINE B == {n \in Nat : \A m \in S : m <= n}
<1>1. PICK n \in B : \A m \in B : n <= m
  BY Least
<1>2. n \in S
  <2> SUFFICES ASSUME n \notin S PROVE FALSE
    OBVIOUS
  <2>1. n - 1 \in Nat
    <3>1. PICK m \in S : TRUE
      OBVIOUS
    <3> QED
      BY <1>1, <3>1
  <2>2. \A m \in S : m <= n - 1
    BY <1>1
  <2>3. n - 1 \in B
    BY <2>1, <2>2
  <2> QED
    BY <1>1, <2>3
<1> QED
  BY <1>1, <1>2

-----------------------------------------------------------------------------
(* The history: every answer is to the last invocation of its process.       *)

Kinds == {"ok", "fail", "info"}
AllSaid == {{}} \cup {{v} : v \in UNION {Outputs(op) : op \in Operations}}
Entries ==
  [type : {"invoke"}, p : Processes, op : Operations]
  \cup [type : Kinds, p : Processes, said : AllSaid]

Answers(h) ==
  \A j \in DOMAIN h :
    h[j].type # "invoke" =>
      \E i \in Invokes(h) : NextOfProcess(i, j, h) /\ h[j].said \in Says(h[i].op, h[j].type)

Recorded == history \in Seq(Entries) /\ Answers(history)

(* Of an entry that has a later one of its process, one is the next. *)
LEMMA NextExists ==
  ASSUME NEW h \in Seq(Entries), NEW i \in DOMAIN h, NEW k \in DOMAIN h,
         i < k, h[k].p = h[i].p
  PROVE  \E j \in DOMAIN h : NextOfProcess(i, j, h)
<1> DEFINE S == {j \in DOMAIN h : i < j /\ h[j].p = h[i].p}
<1>1. S \in SUBSET Nat /\ k \in S
  OBVIOUS
<1>2. PICK j \in S : \A m \in S : j <= m
  BY <1>1, Least
<1>3. \A m \in DOMAIN h : i < m /\ m < j => h[m].p # h[i].p
  BY <1>2
<1> QED
  BY <1>2, <1>3 DEF NextOfProcess

(* It is the only one, and of no other. *)
LEMMA NextIsOne ==
  ASSUME NEW h \in Seq(Entries), NEW i \in DOMAIN h, NEW i2 \in DOMAIN h,
         NEW j \in DOMAIN h, NEW j2 \in DOMAIN h,
         NextOfProcess(i, j, h), NextOfProcess(i2, j2, h)
  PROVE  i = i2 <=> j = j2
<1>1. i \in Nat /\ i2 \in Nat /\ j \in Nat /\ j2 \in Nat
  OBVIOUS
<1> QED
  BY <1>1 DEF NextOfProcess

(* What was next stays next as the history grows. *)
LEMMA GrowsAfter ==
  ASSUME NEW h \in Seq(Entries), NEW e \in Entries
  PROVE  LET g == Append(h, e)
         IN /\ g \in Seq(Entries) /\ Len(g) = Len(h) + 1 /\ g[Len(g)] = e
            /\ DOMAIN g = DOMAIN h \cup {Len(g)} /\ Len(g) \notin DOMAIN h
            /\ \A i \in DOMAIN h : g[i] = h[i] /\ i < Len(g)
            /\ Invokes(h) \subseteq Invokes(g)
            /\ \A i, j \in DOMAIN h : NextOfProcess(i, j, h) => NextOfProcess(i, j, g)
<1> DEFINE g == Append(h, e)
<1>1. g \in Seq(Entries) /\ Len(g) = Len(h) + 1 /\ g[Len(g)] = e
  OBVIOUS
<1>2. DOMAIN g = DOMAIN h \cup {Len(g)} /\ Len(g) \notin DOMAIN h
  BY <1>1
<1>3. \A i \in DOMAIN h : g[i] = h[i] /\ i < Len(g)
  OBVIOUS
<1> HIDE DEF g
<1>4. Invokes(h) \subseteq Invokes(g)
  BY <1>2, <1>3 DEF Invokes
<1>5. ASSUME NEW i \in DOMAIN h, NEW j \in DOMAIN h, NextOfProcess(i, j, h)
      PROVE  NextOfProcess(i, j, g)
  <2>1. Len(g) \in Nat /\ j \in Nat
    BY <1>1
  <2>2. \A k \in DOMAIN g : k < j => k \in DOMAIN h
    <3>1. j < Len(g)
      BY <1>3
    <3>2. ~(Len(g) < j)
      BY <2>1, <3>1
    <3> QED
      BY <1>2, <3>2
  <2> QED
    BY <1>2, <1>3, <1>5, <2>2 DEF NextOfProcess
<1> QED
  BY <1>1, <1>2, <1>3, <1>4, <1>5 DEF g

(* An invocation keeps the history one of answers to last invocations. *)
LEMMA InvokeRecords ==
  ASSUME Recorded, NEW p \in Processes, NEW op \in Operations, Invoke(p, op)
  PROVE  Recorded'
<1> DEFINE e == Invocation(p, op)
<1>1. e \in Entries /\ e.type = "invoke" /\ history' = Append(history, e) /\ history \in Seq(Entries)
  BY DEF Invocation, Entries, Invoke, Recorded
<1> HIDE DEF e
<1>2. ASSUME NEW j \in DOMAIN history', history'[j].type # "invoke"
      PROVE  \E i \in Invokes(history') :
               NextOfProcess(i, j, history') /\ history'[j].said \in Says(history'[i].op, history'[j].type)
  <2>1. j \in DOMAIN history /\ history'[j] = history[j]
    BY <1>1, <1>2, GrowsAfter
  <2>2. PICK i \in Invokes(history) :
          NextOfProcess(i, j, history) /\ history[j].said \in Says(history[i].op, history[j].type)
    BY <1>2, <2>1 DEF Recorded, Answers
  <2>3. i \in DOMAIN history
    BY DEF Invokes
  <2> QED
    BY <1>1, <2>1, <2>2, <2>3, GrowsAfter
<1>3. history' \in Seq(Entries)
  BY <1>1, GrowsAfter
<1> QED
  BY <1>2, <1>3 DEF Recorded, Answers

(* So does a completion, which is of the open invocation of its process. *)
LEMMA CompleteRecords ==
  ASSUME Recorded, NEW p \in Processes, NEW kind \in Kinds, Complete(p, kind)
  PROVE  Recorded'
<1>1. PICK i \in Open(p, history) : \E said \in Says(history[i].op, kind) :
        history' = Append(history, Completion(p, kind, said))
  BY DEF Complete
<1>2. PICK said \in Says(history[i].op, kind) : history' = Append(history, Completion(p, kind, said))
  BY <1>1
<1> DEFINE e == Completion(p, kind, said)
<1>3. history \in Seq(Entries) /\ i \in DOMAIN history /\ i \in Invokes(history) /\ history[i].p = p
  BY DEF Recorded, Open, Invokes
<1>4. history[i].op \in Operations
  <2>1. history[i] \in Entries /\ history[i].type = "invoke"
    BY <1>3 DEF Invokes
  <2> QED
    BY <2>1 DEF Entries, Kinds
<1>5. e \in Entries /\ e.type = kind /\ e.p = p /\ e.said = said
  <2>1. said \in AllSaid
    BY <1>4 DEF Says, AllSaid
  <2> QED
    BY <2>1 DEF Completion, Entries
<1> HIDE DEF e
<1>6. history' = Append(history, e)
  BY <1>2 DEF e
<1>7. NextOfProcess(i, Len(history'), history')
  <2>1. \A k \in DOMAIN history : i < k => history[k].p # history[i].p
    BY <1>3, NextExists DEF Open
  <2> QED
    BY <1>3, <1>5, <1>6, <2>1, GrowsAfter DEF NextOfProcess
<1>8. ASSUME NEW j \in DOMAIN history', history'[j].type # "invoke"
      PROVE  \E m \in Invokes(history') :
               NextOfProcess(m, j, history') /\ history'[j].said \in Says(history'[m].op, history'[j].type)
  <2>1. CASE j = Len(history')
    <3>1. i \in Invokes(history') /\ history'[i] = history[i] /\ history'[j] = e
      BY <1>3, <1>5, <1>6, <2>1, GrowsAfter
    <3> QED
      BY <1>5, <1>7, <2>1, <3>1
  <2>2. CASE j # Len(history')
    <3>1. j \in DOMAIN history /\ history'[j] = history[j]
      BY <1>3, <1>5, <1>6, <2>2, GrowsAfter
    <3>2. PICK m \in Invokes(history) :
            NextOfProcess(m, j, history) /\ history[j].said \in Says(history[m].op, history[j].type)
      BY <1>8, <3>1 DEF Recorded, Answers
    <3>3. m \in DOMAIN history
      BY DEF Invokes
    <3> QED
      BY <1>3, <1>5, <1>6, <3>1, <3>2, <3>3, GrowsAfter
  <2> QED
    BY <2>1, <2>2
<1>9. history' \in Seq(Entries)
  BY <1>3, <1>5, <1>6, GrowsAfter
<1> QED
  BY <1>8, <1>9 DEF Recorded, Answers

(* The history is recorded, and stands once it is checked. *)
LEMMA HistoryStays ==
  ASSUME [Next]_vars, key # 0
  PROVE  UNCHANGED history
<1>1. CASE UNCHANGED vars
  BY <1>1 DEF vars
<1>2. CASE Next
  BY <1>2 DEF Next, Invoke, Complete, Check, AllPlaced, OutOfSteps, Explained, NextKey, Place, Skip,
              Backtrack, Violation
<1> QED
  BY <1>1, <1>2

(* No step makes the history anything else. *)
LEMMA AlwaysRecorded == Recorded /\ [Next]_vars => Recorded'
<1> SUFFICES ASSUME Recorded, [Next]_vars PROVE Recorded'
  OBVIOUS
<1>1. CASE UNCHANGED history
  BY <1>1 DEF Recorded
<1>2. CASE \E p \in Processes, op \in Operations : Invoke(p, op)
  BY <1>2, InvokeRecords
<1>3. CASE \E p \in Processes, kind \in Kinds : Complete(p, kind)
  BY <1>3, CompleteRecords
<1>4. CASE Check
  BY <1>1, <1>4 DEF Check
<1>5. CASE AllPlaced \/ OutOfSteps \/ Explained
  BY <1>1, <1>5 DEF AllPlaced, OutOfSteps, Explained, NextKey
<1>6. CASE Place \/ Skip \/ Backtrack \/ Violation
  BY <1>1, <1>6 DEF Place, Skip, Backtrack, Violation
<1>7. CASE UNCHANGED vars
  BY <1>1, <1>7 DEF vars
<1> QED
  BY <1>2, <1>3, <1>4, <1>5, <1>6, <1>7 DEF Next, Kinds

-----------------------------------------------------------------------------
(* parse.                                                                    *)

StepOf(h, n, acc) == IF h[n].type = "invoke" THEN Invoked(acc, h, n) ELSE Ended(acc, h, n)
Unread == [ops |-> <<>>, open |-> NoneOpen]
Reads(f, h, m) ==
  /\ f = [n \in 0..m |-> f[n]]
  /\ f[0] = Unread
  /\ \A n \in 1..m : f[n] = StepOf(h, n, f[n - 1])

(* A reading of any number of entries exists. *)
LEMMA ReadsExists ==
  ASSUME NEW h, NEW m \in Nat
  PROVE  \E f : Reads(f, h, m)
<1> DEFINE Bad == {n \in Nat : ~ \E f : Reads(f, h, n)}
<1> SUFFICES ASSUME Bad # {} PROVE FALSE
  OBVIOUS
<1>1. PICK n \in Bad : \A k \in Bad : n <= k
  BY Least
<1>2. CASE n = 0
  <2> DEFINE f == [i \in 0..0 |-> Unread]
  <2>1. f = [i \in 0..0 |-> f[i]] /\ f[0] = Unread
    OBVIOUS
  <2> HIDE DEF f
  <2>2. Reads(f, h, 0)
    BY <2>1 DEF Reads
  <2> QED
    BY <1>1, <1>2, <2>2
<1>3. CASE n # 0
  <2>1. n - 1 \in Nat /\ n - 1 \notin Bad
    BY <1>1, <1>3
  <2>2. PICK f : Reads(f, h, n - 1)
    BY <2>1
  <2> DEFINE g == [i \in 0..n |-> IF i = n THEN StepOf(h, n, f[n - 1]) ELSE f[i]]
  <2>3. g = [i \in 0..n |-> g[i]] /\ g[n] = StepOf(h, n, f[n - 1]) /\ \A i \in 0..n : i # n => g[i] = f[i]
    BY <2>1
  <2> HIDE DEF g
  <2>4. g[0] = Unread
    <3>1. n \in Nat /\ 0 \in 0..n /\ 0 # n
      BY <1>1, <1>3
    <3> QED
      BY <2>2, <2>3, <3>1 DEF Reads
  <2>5. \A i \in 1..n : g[i] = StepOf(h, i, g[i - 1])
    <3> SUFFICES ASSUME NEW i \in 1..n PROVE g[i] = StepOf(h, i, g[i - 1])
      OBVIOUS
    <3>1. i - 1 \in 0..n /\ i - 1 # n /\ g[i - 1] = f[i - 1]
      BY <2>1, <2>3
    <3>2. CASE i = n
      BY <2>3, <3>1, <3>2
    <3>3. CASE i # n
      <4>1. i \in 1..(n - 1) /\ g[i] = f[i]
        BY <2>1, <2>3, <3>3
      <4> QED
        BY <2>2, <3>1, <4>1 DEF Reads
    <3> QED
      BY <3>2, <3>3
  <2>6. Reads(g, h, n)
    BY <2>3, <2>4, <2>5 DEF Reads
  <2> QED
    BY <1>1, <2>6
<1> QED
  BY <1>2, <1>3

(* Reading(h) reads the entries of h one after another. *)
LEMMA ReadingReads ==
  ASSUME NEW h, Len(h) \in Nat
  PROVE  Reads(Reading(h), h, Len(h))
<1> DEFINE Body(f) ==
      [n \in 0..Len(h) |->
         IF n = 0 THEN [ops |-> <<>>, open |-> NoneOpen]
         ELSE IF h[n].type = "invoke" THEN Invoked(f[n - 1], h, n) ELSE Ended(f[n - 1], h, n)]
<1>1. PICK f : Reads(f, h, Len(h))
  BY ReadsExists
<1>2. f = Body(f)
  <2>1. \A n \in 0..Len(h) : f[n] = IF n = 0 THEN Unread ELSE StepOf(h, n, f[n - 1])
    BY <1>1 DEF Reads
  <2>2. Body(f) = [n \in 0..Len(h) |-> f[n]]
    BY <2>1 DEF Unread, StepOf
  <2> QED
    BY <1>1, <2>2 DEF Reads
<1>3. Reading(h) = CHOOSE g : g = Body(g)
  BY DEF Reading
<1> HIDE DEF Body
<1>4. Reading(h) = Body(Reading(h))
  BY <1>2, <1>3
<1> DEFINE r == Reading(h)
<1>5. r = Body(r)
  BY <1>4
<1> HIDE DEF r
<1>6. \A n \in 0..Len(h) : r[n] = IF n = 0 THEN Unread ELSE StepOf(h, n, r[n - 1])
  BY <1>5 DEF Body, Unread, StepOf
<1>7. r = [n \in 0..Len(h) |-> r[n]]
  BY <1>5 DEF Body
<1>8. Reads(r, h, Len(h))
  <2>1. r[0] = Unread
    BY <1>6
  <2>2. \A n \in 1..Len(h) : r[n] = StepOf(h, n, r[n - 1])
    BY <1>6
  <2> QED
    BY <1>7, <2>1, <2>2 DEF Reads
<1> QED
  BY <1>8 DEF r

(* What parse knows after n entries. *)
Returned(i, n, h) == {j \in 1..n : NextOfProcess(i, j, h) /\ h[j].type = "ok"}
Failed(i, n, h) == {j \in 1..n : NextOfProcess(i, j, h) /\ h[j].type = "fail"}
ReadSoFar(acc, n, h) ==
  /\ acc.open = [p \in Processes |-> acc.open[p]]
  /\ \A i \in Invokes(h) :
       i <= n /\ (\A k \in 1..n : i < k => h[k].p # h[i].p) => acc.open[h[i].p] = i
  /\ DOMAIN acc.ops = {i \in Invokes(h) : i <= n /\ Failed(i, n, h) = {}}
  /\ \A i \in DOMAIN acc.ops :
       /\ \A j \in Returned(i, n, h) : acc.ops[i] = [op |-> h[i].op, ret |-> j, said |-> h[j].said]
       /\ Returned(i, n, h) = {} =>
            acc.ops[i] = [op |-> h[i].op, ret |-> Len(h) + i, said |-> {}]

(* Before the first entry. *)
LEMMA NothingRead ==
  ASSUME NEW h \in Seq(Entries)
  PROVE  ReadSoFar(Unread, 0, h)
<1>1. Unread.ops = <<>> /\ Unread.open = NoneOpen /\ DOMAIN Unread.ops = {}
  BY DEF Unread
<1>2. \A i \in Invokes(h) : ~(i <= 0)
  BY DEF Invokes
<1>3. Unread.open = [p \in Processes |-> Unread.open[p]]
  BY <1>1 DEF NoneOpen
<1> QED
  BY <1>1, <1>2, <1>3, Zenon DEF ReadSoFar

(* One more entry. *)
LEMMA InvokeRead ==
  ASSUME NEW h \in Seq(Entries), NEW n \in DOMAIN h, NEW acc,
         ReadSoFar(acc, n - 1, h), h[n].type = "invoke"
  PROVE  ReadSoFar(Invoked(acc, h, n), n, h)
<1> DEFINE new == Invoked(acc, h, n)
<1>1. n \in Nat /\ n - 1 \in Nat /\ n \in Invokes(h) /\ h[n].p \in Processes
  BY DEF Invokes, Entries, Kinds
<1>2. \A i : Returned(i, n, h) = Returned(i, n - 1, h) /\ Failed(i, n, h) = Failed(i, n - 1, h)
  BY <1>1 DEF Returned, Failed
<1>3. Returned(n, n, h) = {} /\ Failed(n, n, h) = {}
  BY <1>1 DEF Returned, Failed, NextOfProcess
<1>4. /\ new.open = [acc.open EXCEPT ![h[n].p] = n]
      /\ DOMAIN new.ops = DOMAIN acc.ops \cup {n}
      /\ new.ops[n] = [op |-> h[n].op, ret |-> Len(h) + n, said |-> {}]
      /\ \A i \in DOMAIN acc.ops : i # n => new.ops[i] = acc.ops[i]
  BY DEF Invoked
<1> HIDE DEF new
<1>5. n \notin DOMAIN acc.ops
  BY <1>1 DEF ReadSoFar
<1>6. new.open = [p \in Processes |-> new.open[p]]
  BY <1>4 DEF ReadSoFar
<1>7. ASSUME NEW i \in Invokes(h), i <= n, \A k \in 1..n : i < k => h[k].p # h[i].p
      PROVE  new.open[h[i].p] = i
  <2>1. i \in Nat /\ h[i].p \in Processes
    BY DEF Invokes, Entries, Kinds
  <2>2. CASE i = n
    BY <1>1, <1>4, <2>2 DEF ReadSoFar
  <2>3. CASE i # n
    <3>1. i <= n - 1 /\ n \in 1..n /\ h[n].p # h[i].p
      BY <1>1, <1>7, <2>1, <2>3
    <3>2. \A k \in 1..(n - 1) : i < k => h[k].p # h[i].p
      BY <1>1, <1>7
    <3>3. acc.open[h[i].p] = i
      BY <3>1, <3>2 DEF ReadSoFar
    <3> QED
      BY <1>4, <2>1, <3>1, <3>3 DEF ReadSoFar
  <2> QED
    BY <2>2, <2>3
<1>8. DOMAIN new.ops = {i \in Invokes(h) : i <= n /\ Failed(i, n, h) = {}}
  <2>1. \A i \in Invokes(h) : i <= n <=> (i <= n - 1 \/ i = n)
    BY <1>1 DEF Invokes
  <2>2. DOMAIN acc.ops = {i \in Invokes(h) : i <= n - 1 /\ Failed(i, n - 1, h) = {}}
    BY DEF ReadSoFar
  <2> QED
    BY <1>1, <1>2, <1>3, <1>4, <2>1, <2>2
<1>9. ASSUME NEW i \in DOMAIN new.ops
      PROVE  /\ \A j \in Returned(i, n, h) : new.ops[i] = [op |-> h[i].op, ret |-> j, said |-> h[j].said]
             /\ Returned(i, n, h) = {} =>
                  new.ops[i] = [op |-> h[i].op, ret |-> Len(h) + i, said |-> {}]
  <2>1. CASE i = n
    BY <1>3, <1>4, <2>1
  <2>2. CASE i # n
    <3>1. i \in DOMAIN acc.ops /\ new.ops[i] = acc.ops[i]
      BY <1>4, <2>2
    <3> QED
      BY <1>2, <3>1 DEF ReadSoFar
  <2> QED
    BY <2>1, <2>2
<1>10. ReadSoFar(new, n, h)
  BY <1>6, <1>7, <1>8, <1>9 DEF ReadSoFar
<1> QED
  BY <1>10 DEF new

(* An ok, a fail or an info is read into what parse knew before it. *)
LEMMA EndRead ==
  ASSUME NEW h \in Seq(Entries), Answers(h), NEW n \in DOMAIN h, NEW acc,
         ReadSoFar(acc, n - 1, h), h[n].type # "invoke"
  PROVE  ReadSoFar(Ended(acc, h, n), n, h)
<1> DEFINE new == Ended(acc, h, n)
<1>1. n \in Nat /\ n - 1 \in Nat /\ h[n].type \in Kinds /\ h[n].p \in Processes /\ 1..n \subseteq DOMAIN h
  BY DEF Entries, Kinds
<1>2. PICK at \in Invokes(h) : NextOfProcess(at, n, h)
  BY DEF Answers
<1>3. at \in DOMAIN h /\ at \in Nat /\ at <= n - 1 /\ at # n /\ h[at].p = h[n].p
  BY <1>1, <1>2 DEF Invokes, NextOfProcess
<1>4. acc.open[h[n].p] = at
  <2>1. \A k \in 1..(n - 1) : at < k => h[k].p # h[at].p
    BY <1>1, <1>2 DEF NextOfProcess
  <2> QED
    BY <1>2, <1>3, <2>1 DEF ReadSoFar
<1>5. \A j \in 1..(n - 1) : ~NextOfProcess(at, j, h)
  <2> SUFFICES ASSUME NEW j \in 1..(n - 1), NextOfProcess(at, j, h) PROVE FALSE
    OBVIOUS
  <2>1. j \in DOMAIN h /\ j # n
    BY <1>1
  <2> QED
    BY <1>2, <1>3, <2>1, NextIsOne
<1>6. at \in DOMAIN acc.ops
  BY <1>2, <1>3, <1>5 DEF ReadSoFar, Failed
<1>7. \A i \in Invokes(h) : i # at => ~NextOfProcess(i, n, h)
  BY <1>2, NextIsOne DEF Invokes
<1>8. \A i \in Invokes(h) : i # at =>
        Returned(i, n, h) = Returned(i, n - 1, h) /\ Failed(i, n, h) = Failed(i, n - 1, h)
  BY <1>1, <1>7 DEF Returned, Failed
<1>9. /\ Returned(at, n, h) = (IF h[n].type = "ok" THEN {n} ELSE {})
      /\ Failed(at, n, h) = (IF h[n].type = "fail" THEN {n} ELSE {})
      /\ Returned(at, n - 1, h) = {}
  BY <1>1, <1>2, <1>5 DEF Returned, Failed
<1>10. acc.ops[at] = [op |-> h[at].op, ret |-> Len(h) + at, said |-> {}]
  BY <1>6, <1>9 DEF ReadSoFar
<1>11. new.open = [acc.open EXCEPT ![h[n].p] = 0]
  BY DEF Ended
<1>12. new.ops = CASE h[n].type = "ok" -> [acc.ops EXCEPT ![at].ret = n, ![at].said = h[n].said]
                   [] h[n].type = "fail" -> [j \in DOMAIN acc.ops \ {at} |-> acc.ops[j]]
                   [] OTHER -> acc.ops
  BY <1>4 DEF Ended
<1> HIDE DEF new
<1>13. new.open = [p \in Processes |-> new.open[p]]
  BY <1>11 DEF ReadSoFar
<1>14. ASSUME NEW i \in Invokes(h), i <= n, \A k \in 1..n : i < k => h[k].p # h[i].p
       PROVE  new.open[h[i].p] = i
  <2>1. i \in Nat /\ h[i].p \in Processes /\ i # n
    BY DEF Invokes, Entries, Kinds
  <2>2. i <= n - 1 /\ n \in 1..n /\ h[n].p # h[i].p
    BY <1>1, <1>14, <2>1
  <2>3. acc.open[h[i].p] = i
    BY <1>1, <1>14, <2>1, <2>2 DEF ReadSoFar
  <2> QED
    BY <1>11, <2>1, <2>2, <2>3 DEF ReadSoFar
<1>15. /\ DOMAIN new.ops = IF h[n].type = "fail" THEN DOMAIN acc.ops \ {at} ELSE DOMAIN acc.ops
       /\ \A i \in DOMAIN new.ops : i # at => new.ops[i] = acc.ops[i]
       /\ h[n].type = "ok" => new.ops[at] = [op |-> h[at].op, ret |-> n, said |-> h[n].said]
       /\ h[n].type = "info" => new.ops[at] = acc.ops[at]
  <2>1. CASE h[n].type = "ok"
    BY <1>6, <1>10, <1>12, <2>1
  <2>2. CASE h[n].type = "fail"
    BY <1>12, <2>2
  <2>3. CASE h[n].type = "info"
    BY <1>12, <2>3
  <2> QED
    BY <1>1, <2>1, <2>2, <2>3 DEF Kinds
<1>16. DOMAIN new.ops = {i \in Invokes(h) : i <= n /\ Failed(i, n, h) = {}}
  <2>1. \A i \in Invokes(h) : i <= n <=> i <= n - 1
    BY <1>1 DEF Invokes
  <2>2. DOMAIN acc.ops = {i \in Invokes(h) : i <= n - 1 /\ Failed(i, n - 1, h) = {}}
    BY DEF ReadSoFar
  <2>3. Failed(at, n - 1, h) = {}
    BY <1>5 DEF Failed
  <2>4. \A i \in Invokes(h) : Failed(i, n, h) = {} <=> Failed(i, n - 1, h) = {} /\ ~(i = at /\ h[n].type = "fail")
    BY <1>8, <1>9, <2>3
  <2> QED
    BY <1>15, <2>1, <2>2, <2>4
<1>17. ASSUME NEW i \in DOMAIN new.ops
       PROVE  /\ \A j \in Returned(i, n, h) : new.ops[i] = [op |-> h[i].op, ret |-> j, said |-> h[j].said]
              /\ Returned(i, n, h) = {} =>
                   new.ops[i] = [op |-> h[i].op, ret |-> Len(h) + i, said |-> {}]
  <2>1. i \in DOMAIN acc.ops /\ i \in Invokes(h)
    BY <1>15, <1>16
  <2>2. CASE i = at
    <3>1. h[n].type # "fail"
      BY <1>15, <2>2
    <3> QED
      BY <1>1, <1>9, <1>10, <1>15, <2>2, <3>1 DEF Kinds
  <2>3. CASE i # at
    <3>1. new.ops[i] = acc.ops[i]
      BY <1>15, <2>3
    <3> QED
      BY <1>8, <2>1, <2>3, <3>1 DEF ReadSoFar
  <2> QED
    BY <2>2, <2>3
<1>18. ReadSoFar(new, n, h)
  BY <1>13, <1>14, <1>16, <1>17 DEF ReadSoFar
<1> QED
  BY <1>18 DEF new

(* After each entry parse knows what the history up to it says. *)
LEMMA ReadingIsRight ==
  ASSUME NEW h \in Seq(Entries), Answers(h)
  PROVE  ReadSoFar(Reading(h)[Len(h)], Len(h), h)
<1> DEFINE r == Reading(h)
           Bad == {n \in Nat : n <= Len(h) /\ ~ReadSoFar(r[n], n, h)}
<1>1. Reads(r, h, Len(h)) /\ Len(h) \in Nat
  BY ReadingReads
<1> HIDE DEF r
<1>2. Bad = {}
  <2> SUFFICES ASSUME Bad # {} PROVE FALSE
    OBVIOUS
  <2>1. PICK n \in Bad : \A k \in Bad : n <= k
    BY Least
  <2>2. n # 0
    <3>1. r[0] = Unread /\ ReadSoFar(Unread, 0, h)
      BY <1>1, NothingRead DEF Reads
    <3> QED
      BY <2>1, <3>1
  <2>3. n - 1 \in Nat /\ n - 1 \notin Bad /\ n \in 1..Len(h) /\ n - 1 <= Len(h)
    BY <1>1, <2>1, <2>2
  <2>4. ReadSoFar(r[n - 1], n - 1, h)
    BY <2>3
  <2>5. r[n] = StepOf(h, n, r[n - 1]) /\ n \in DOMAIN h
    BY <1>1, <2>3 DEF Reads
  <2>6. ReadSoFar(r[n], n, h)
    BY <2>4, <2>5, InvokeRead, EndRead DEF StepOf
  <2> QED
    BY <2>1, <2>6
<1>3. Len(h) \notin Bad
  BY <1>2
<1>4. ReadSoFar(r[Len(h)], Len(h), h)
  BY <1>1, <1>3
<1> QED
  BY <1>4 DEF r

(* The operations of a history: what its invocations and their ends say. *)
Parsed(os) ==
  /\ DOMAIN os = Completed \cup Indeterminate
  /\ \A i \in DOMAIN os : os[i].op = history[i].op
  /\ \A i \in Completed : \A a \in EndedBy(i, "ok") : os[i].ret = a /\ os[i].said = history[a].said
  /\ \A i \in Indeterminate : os[i].ret = Infinity + i /\ os[i].said = {}

(* What parse makes of the history is what the history says. *)
LEMMA ParseIsRight ==
  ASSUME Recorded
  PROVE  Parsed(Parse(history))
<1> DEFINE os == Parse(history)
           acc == Reading(history)[Len(history)]
           n == Len(history)
<1>1. history \in Seq(Entries) /\ Answers(history) /\ n \in Nat /\ DOMAIN history = 1..n
  BY DEF Recorded
<1>2. ReadSoFar(acc, n, history) /\ os = acc.ops
  BY <1>1, ReadingIsRight DEF Parse
<1> HIDE DEF os, acc
<1>3. \A i : Returned(i, n, history) = EndedBy(i, "ok") /\ Failed(i, n, history) = EndedBy(i, "fail")
  BY <1>1 DEF Returned, Failed, EndedBy
<1>4. Completed \cup Indeterminate = {i \in Invokes(history) : EndedBy(i, "fail") = {}}
  <2>1. ASSUME NEW i \in Invokes(history), EndedBy(i, "ok") # {} PROVE EndedBy(i, "fail") = {}
    BY <1>1, <2>1, NextIsOne DEF EndedBy, Invokes
  <2> QED
    BY <2>1 DEF Completed, Indeterminate
<1>5. DOMAIN os = {i \in Invokes(history) : EndedBy(i, "fail") = {}}
  <2>1. \A i \in Invokes(history) : i <= n
    BY <1>1 DEF Invokes
  <2>2. DOMAIN acc.ops = {i \in Invokes(history) : i <= n /\ Failed(i, n, history) = {}}
    BY <1>2 DEF ReadSoFar
  <2> QED
    BY <1>2, <1>3, <2>1, <2>2
<1>6. ASSUME NEW i \in DOMAIN os
      PROVE  /\ \A j \in EndedBy(i, "ok") : os[i] = [op |-> history[i].op, ret |-> j, said |-> history[j].said]
             /\ EndedBy(i, "ok") = {} => os[i] = [op |-> history[i].op, ret |-> n + i, said |-> {}]
  <2> HIDE DEF n
  <2> QED
    BY <1>2, <1>3 DEF ReadSoFar, n
<1>7. \A i \in DOMAIN os : os[i].op = history[i].op
  <2> SUFFICES ASSUME NEW i \in DOMAIN os PROVE os[i].op = history[i].op
    OBVIOUS
  <2> QED
    BY <1>6
<1>8. ASSUME NEW i \in Completed, NEW a \in EndedBy(i, "ok") PROVE os[i].ret = a /\ os[i].said = history[a].said
  <2>1. i \in DOMAIN os
    BY <1>4, <1>5
  <2>2. os[i] = [op |-> history[i].op, ret |-> a, said |-> history[a].said]
    BY <1>6, <2>1
  <2> QED
    BY <2>2
<1>9. ASSUME NEW i \in Indeterminate PROVE os[i].ret = Infinity + i /\ os[i].said = {}
  <2>1. EndedBy(i, "ok") = {} /\ i \in DOMAIN os
    BY <1>4, <1>5 DEF Indeterminate
  <2> QED
    BY <1>6, <2>1 DEF Infinity
<1>10. Parsed(os)
  BY <1>4, <1>5, <1>7, <1>8, <1>9 DEF Parsed
<1> QED
  BY <1>10 DEF os

-----------------------------------------------------------------------------
(* The search of one key.                                                    *)

(* What the search needs to know of the operations. *)
OpOK(os, i) ==
  /\ i \in 1..Infinity
  /\ os[i].ret \in Nat /\ i < os[i].ret /\ os[i].ret < End /\ os[i].ret \notin DOMAIN os
  /\ os[i].op \in Operations
OpsOK(os) == Infinity \in Nat /\ \A i \in DOMAIN os : OpOK(os, i)

(* The operations of a recorded history are as the search needs them. *)
LEMMA ParsedIsOK ==
  ASSUME Recorded, NEW os, Parsed(os)
  PROVE  OpsOK(os)
<1>1. history \in Seq(Entries) /\ Infinity \in Nat /\ DOMAIN history = 1..Infinity
  BY DEF Recorded, Infinity
<1>2. ASSUME NEW i \in DOMAIN os PROVE OpOK(os, i)
  <2>1. i \in Completed \cup Indeterminate /\ i \in Invokes(history)
    BY <1>2 DEF Parsed, Completed, Indeterminate
  <2>2. i \in 1..Infinity /\ history[i].type = "invoke" /\ history[i] \in Entries
    BY <1>1, <2>1 DEF Invokes
  <2>3. os[i].op \in Operations
    <3>1. history[i].op \in Operations
      BY <2>2 DEF Entries, Kinds
    <3> QED
      BY <3>1 DEF Parsed
  <2>4. os[i].ret \in Nat /\ i < os[i].ret /\ os[i].ret < End /\ os[i].ret \notin DOMAIN os
    <3>1. DOMAIN os \subseteq Invokes(history)
      BY DEF Parsed, Completed, Indeterminate
    <3>2. CASE i \in Completed
      <4>1. PICK a \in EndedBy(i, "ok") : os[i].ret = a
        BY <3>2 DEF Parsed, Completed
      <4>2. a \in 1..Infinity /\ i < a /\ history[a].type = "ok"
        BY <1>1, <4>1 DEF EndedBy, NextOfProcess
      <4>3. a \notin Invokes(history)
        BY <4>2 DEF Invokes
      <4> QED
        BY <1>1, <2>2, <3>1, <4>1, <4>2, <4>3 DEF End
    <3>3. CASE i \in Indeterminate
      <4>1. os[i].ret = Infinity + i
        BY <3>3 DEF Parsed
      <4>2. Infinity + i \notin Invokes(history)
        BY <1>1, <2>2 DEF Invokes
      <4> QED
        BY <1>1, <2>2, <3>1, <4>1, <4>2 DEF End
    <3> QED
      BY <2>1, <3>2, <3>3
  <2> QED
    BY <2>2, <2>3, <2>4 DEF OpOK
<1> QED
  BY <1>1, <1>2 DEF OpsOK

(* The model leaves a value in its key. *)
LEMMA KvNextType ==
  ASSUME NEW value \in Values, NEW o, o.op \in Operations
  PROVE  KvNext(value, o) \in Values
<1>1. ASSUME NEW v \in Values, v # Absent PROVE v[1] \in Int
  <2>1. v \in Seq(Int) /\ v # <<>>
    BY <1>1 DEF Values, Absent
  <2>2. Len(v) \in Nat \ {0}
    BY <2>1, EmptySeq
  <2>3. 1 \in 1..Len(v)
    BY <2>2
  <2> QED
    BY <2>1, <2>3, ElementOfSeq
<1>2. \A n \in Int : <<n>> \in Values
  BY DEF Values
<1>3. CASE o.op.f = "put"
  BY <1>3, OperationsAssumption DEF KvNext
<1>4. CASE o.op.f = "get"
  BY <1>4 DEF KvNext
<1>5. CASE o.op.f = "add"
  <2>1. o.op.arg \in Values \ {Absent}
    BY <1>5, OperationsAssumption
  <2>2. KvNext(value, o) = Sum(value, o.op.arg)
    BY <1>5 DEF KvNext
  <2> QED
    BY <1>1, <1>2, <2>1, <2>2 DEF Sum
<1>6. CASE o.op.f = "cas"
  <2>1. o.op.arg \in Values \X Values
    BY <1>6, OperationsAssumption
  <2> QED
    BY <1>6, <2>1 DEF KvNext
<1> QED
  BY <1>3, <1>4, <1>5, <1>6, OperationsAssumption

(* The next time after one: the least that is left, or the end. *)
LEMMA AfterIsNext ==
  ASSUME NEW os, OpsOK(os), NEW is \in SUBSET DOMAIN os, NEW time \in Nat, time < End
  PROVE  LET t == After(time, is, os)
         IN /\ t \in Nat /\ time < t /\ t <= End
            /\ t = End \/ t \in Times(is, os)
            /\ \A u \in Times(is, os) : time < u => t <= u
<1> DEFINE S == {t \in Times(is, os) : t > time} \cup {End}
<1>1. End \in Nat
  BY DEF OpsOK, End
<1>2. \A u \in Times(is, os) : u \in Nat /\ u < End
  BY DEF OpsOK, OpOK, Times, End
<1>3. S \in SUBSET Nat /\ S # {}
  BY <1>1, <1>2
<1>4. Min(S) \in S /\ \A y \in S : Min(S) <= y
  BY <1>3, MinIsLeast
<1> DEFINE t == Min(S)
<1>5. After(time, is, os) = t
  BY DEF After
<1> HIDE DEF t
<1>6. t \in S /\ \A y \in S : t <= y
  BY <1>4 DEF t
<1>7. t \in Nat /\ time < t /\ t <= End /\ (t = End \/ t \in Times(is, os))
  BY <1>1, <1>2, <1>6
<1>8. \A u \in Times(is, os) : time < u => t <= u
  BY <1>2, <1>6
<1> QED
  BY <1>5, <1>7, <1>8

(* A way to go on from what is placed and a value: operations of the key,   *)
(* with those that completed, in an order (a number for each) that keeps    *)
(* real time, and the value each of them finds.                             *)
Orders(T, pt) == pt \in [T -> Nat] /\ \A i, j \in T : pt[i] = pt[j] => i = j
KeepsTime(os, T, pt) == \A i, j \in T : os[i].ret < j => pt[i] < pt[j]
IsFirst(i, T, pt) == \A l \in T : pt[i] <= pt[l]
IsNext(i, j, T, pt) == pt[i] < pt[j] /\ \A l \in T : ~(pt[i] < pt[l] /\ pt[l] < pt[j])
Finds(os, T, pt, value, before) ==
  \A j \in T :
    /\ KvTakes(before[j], os[j])
    /\ IsFirst(j, T, pt) => before[j] = value
    /\ \A i \in T : IsNext(i, j, T, pt) => before[j] = KvNext(before[i], os[i])
IsAWay(os, T, pt, value, before) ==
  Orders(T, pt) /\ KeepsTime(os, T, pt) /\ Finds(os, T, pt, value, before)
Covers(os, inf, k, done, T) == \A i \in Of(k, os) \ done : os[i].ret <= inf => i \in T
Hopeful(os, inf, k, done, value) ==
  \E T \in SUBSET (Of(k, os) \ done) :
    Covers(os, inf, k, done, T) /\ \E pt, before : IsAWay(os, T, pt, value, before)

(* A way to go on begins with an operation that may be placed next. *)
LEMMA HopefulSteps ==
  ASSUME NEW os, NEW inf, NEW k, NEW done, NEW value, NEW T \in SUBSET (Of(k, os) \ done),
         Covers(os, inf, k, done, T), NEW pt, NEW before, IsAWay(os, T, pt, value, before), T # {},
         OpsOK(os)
  PROVE  \E l \in T :
           /\ KvTakes(value, os[l])
           /\ \A i \in T : i # l => ~(os[i].ret < l)
           /\ Hopeful(os, inf, k, done \cup {l}, KvNext(value, os[l]))
<1> DEFINE S == {pt[i] : i \in T}
<1>1. pt \in [T -> Nat] /\ \A i, j \in T : pt[i] = pt[j] => i = j
  BY DEF IsAWay, Orders
<1>2. PICK l \in T : \A i \in T : pt[l] <= pt[i]
  <2>1. S \in SUBSET Nat /\ S # {}
    BY <1>1
  <2>2. PICK n \in S : \A m \in S : n <= m
    BY <2>1, Least
  <2> QED
    BY <2>2
<1>3. IsFirst(l, T, pt)
  BY <1>2 DEF IsFirst
<1>4. KvTakes(before[l], os[l]) /\ before[l] = value
  BY <1>3 DEF IsAWay, Finds
<1>5. \A i \in T : i # l => ~(os[i].ret < l)
  <2> SUFFICES ASSUME NEW i \in T, i # l, os[i].ret < l PROVE FALSE
    OBVIOUS
  <2>1. pt[i] < pt[l] /\ pt[l] <= pt[i] /\ pt[i] \in Nat /\ pt[l] \in Nat
    BY <1>1, <1>2 DEF IsAWay, KeepsTime
  <2> QED
    BY <2>1
<1> DEFINE rest == T \ {l}
           at == [i \in rest |-> pt[i]]
<1>6. Orders(rest, at) /\ KeepsTime(os, rest, at)
  BY <1>1 DEF Orders, KeepsTime, IsAWay
<1>7. \A i \in rest : pt[l] < pt[i]
  <2> SUFFICES ASSUME NEW i \in rest PROVE pt[l] < pt[i]
    OBVIOUS
  <2>1. pt[l] \in Nat /\ pt[i] \in Nat /\ pt[l] # pt[i] /\ pt[l] <= pt[i]
    BY <1>1, <1>2
  <2> QED
    BY <2>1
<1>8. ASSUME NEW j \in rest
      PROVE  /\ KvTakes(before[j], os[j])
             /\ IsFirst(j, rest, at) => before[j] = KvNext(value, os[l])
             /\ \A i \in rest : IsNext(i, j, rest, at) => before[j] = KvNext(before[i], os[i])
  <2>1. KvTakes(before[j], os[j])
    BY DEF IsAWay, Finds
  <2>2. ASSUME IsFirst(j, rest, at) PROVE before[j] = KvNext(value, os[l])
    <3>1. \A i \in T : ~(pt[l] < pt[i] /\ pt[i] < pt[j])
      <4> SUFFICES ASSUME NEW i \in T, pt[l] < pt[i], pt[i] < pt[j] PROVE FALSE
        OBVIOUS
      <4>1. i \in rest /\ pt[i] \in Nat /\ pt[j] \in Nat /\ pt[l] \in Nat
        BY <1>1
      <4>2. pt[j] <= pt[i]
        BY <2>2, <4>1 DEF IsFirst
      <4> QED
        BY <4>1, <4>2
    <3>2. IsNext(l, j, T, pt)
      BY <1>7, <3>1 DEF IsNext
    <3> QED
      BY <1>4, <3>2 DEF IsAWay, Finds
  <2>3. ASSUME NEW i \in rest, IsNext(i, j, rest, at) PROVE before[j] = KvNext(before[i], os[i])
    <3>1. \A m \in T : ~(pt[i] < pt[m] /\ pt[m] < pt[j])
      <4> SUFFICES ASSUME NEW m \in T, pt[i] < pt[m], pt[m] < pt[j] PROVE FALSE
        OBVIOUS
      <4>1. m # l
        <5>1. pt[l] \in Nat /\ pt[i] \in Nat /\ pt[l] < pt[i]
          BY <1>1, <1>7
        <5> QED
          BY <5>1
      <4> QED
        BY <2>3, <4>1 DEF IsNext
    <3>2. IsNext(i, j, T, pt)
      BY <2>3, <3>1 DEF IsNext
    <3> QED
      BY <3>2 DEF IsAWay, Finds
  <2> QED
    BY <2>1, <2>2, <2>3
<1>9. IsAWay(os, rest, at, KvNext(value, os[l]), before)
  BY <1>6, <1>8 DEF IsAWay, Finds
<1>10. rest \in SUBSET (Of(k, os) \ (done \cup {l})) /\ Covers(os, inf, k, done \cup {l}, rest)
  BY DEF Covers
<1>11. Hopeful(os, inf, k, done \cup {l}, KvNext(value, os[l]))
  BY <1>9, <1>10, Zenon DEF Hopeful
<1> QED
  BY <1>4, <1>5, <1>11

-----------------------------------------------------------------------------
(* The levels of the search: what was placed before each entry of the stack, *)
(* and at the top, with the value and the entry the search stands at there.  *)

Mine == Of(key, ops)
Hope(done, value) == Hopeful(ops, Infinity, key, done, value)
Earlier(j) == {stack[m].call : m \in 1..(j - 1)}
ValueAt(j) == IF j <= Len(stack) THEN stack[j].before ELSE state
CursorAt(j) == IF j <= Len(stack) THEN stack[j].call ELSE entry
Top == Len(stack) + 1

SearchType ==
  /\ stack \in Seq([call : Mine, before : Values])
  /\ state \in Values
  /\ placed = Earlier(Top)
  /\ entry \in Nat /\ entry <= End /\ (entry = End \/ entry \in Times(Left, ops))

(* The stack is a way to what is placed. *)
Path ==
  /\ ValueAt(1) = Absent
  /\ \A j \in 1..Len(stack) :
       /\ stack[j].call \notin Earlier(j)
       /\ KvTakes(stack[j].before, ops[stack[j].call])
       /\ ValueAt(j + 1) = KvNext(stack[j].before, ops[stack[j].call])

(* No operation that waits has returned before the entry. *)
NoneReturned(done, cursor) == \A l \in Mine \ done : cursor <= ops[l].ret

(* What was called before the entry cannot be placed next. *)
TriedAll(done, value, cursor) ==
  \A l \in Mine \ done :
    l < cursor /\ KvTakes(value, ops[l]) =>
      ~Hope(done \cup {l}, KvNext(value, ops[l]))

LevelsStand ==
  \A j \in 1..Top :
    NoneReturned(Earlier(j), CursorAt(j)) /\ TriedAll(Earlier(j), ValueAt(j), CursorAt(j))

(* What the memo cuts off leads nowhere, unless the search is below it. *)
MemoIsHopeless ==
  \A m \in memo :
    Hope(m.done, m.value) =>
      \E j \in 1..Top : m.done = Earlier(j) /\ m.value = ValueAt(j)

SearchStands == SearchType /\ Path /\ LevelsStand /\ MemoIsHopeless

(* The operations of a key are operations, in the order of their calls. *)
LEMMA MineIsOps == OpsOK(ops) => Mine \subseteq DOMAIN ops /\ Mine \subseteq Nat /\ Mine \subseteq 1..Infinity
BY DEF Mine, Of, OpsOK, OpOK

(* The levels of the search: the top one is where it stands. *)
LEMMA TopFacts ==
  ASSUME SearchType
  PROVE  /\ Len(stack) \in Nat /\ Top \in Nat /\ DOMAIN stack = 1..Len(stack)
         /\ \A j \in 1..Len(stack) : stack[j] \in [call : Mine, before : Values]
         /\ ValueAt(Top) = state /\ CursorAt(Top) = entry
         /\ \A j \in 1..Top : Earlier(j) \subseteq placed /\ Earlier(j) \subseteq Mine
         /\ Left = Mine \ placed /\ Left \subseteq Mine
<1>1. Len(stack) \in Nat /\ Top \in Nat /\ DOMAIN stack = 1..Len(stack)
  BY DEF SearchType, Top
<1>2. \A j \in 1..Len(stack) : stack[j] \in [call : Mine, before : Values]
  <2>1. stack \in Seq([call : Mine, before : Values])
    BY DEF SearchType
  <2> QED
    BY <2>1, ElementOfSeq
<1>3. ValueAt(Top) = state /\ CursorAt(Top) = entry
  BY <1>1 DEF ValueAt, CursorAt, Top
<1>4. ASSUME NEW j \in 1..Top PROVE Earlier(j) \subseteq placed /\ Earlier(j) \subseteq Mine
  <2>1. 1..(j - 1) \subseteq 1..(Top - 1) /\ Top - 1 = Len(stack)
    BY <1>1 DEF Top
  <2>2. Earlier(j) \subseteq Earlier(Top)
    BY <2>1 DEF Earlier
  <2>3. Earlier(j) \subseteq Mine
    BY <1>2, <2>1 DEF Earlier
  <2> QED
    BY <2>2, <2>3 DEF SearchType
<1> QED
  BY <1>1, <1>2, <1>3, <1>4 DEF Left, Mine

(* A search begins. *)
LEMMA BeginStands ==
  ASSUME NEW k, NEW os, Begin(k, os), ops' = os, OpsOK(os), Infinity' = Infinity
  PROVE  SearchStands'
<1> DEFINE mine == Of(k, os)
<1>1. Mine' = mine /\ mine \subseteq DOMAIN os /\ key' = k
  BY DEF Begin, Mine, Of
<1>2. stack' = <<>> /\ Len(stack') = 0 /\ Top' = 1 /\ placed' = {} /\ state' = Absent /\ memo' = {}
  BY DEF Begin, Top
<1>3. Earlier(1)' = {} /\ ValueAt(1)' = Absent /\ CursorAt(1)' = entry'
  BY <1>2 DEF Earlier, ValueAt, CursorAt
<1>4. Left' = mine
  BY <1>1, <1>2 DEF Left, Mine
<1>5. End' = End /\ End \in Nat /\ 0 < End
  BY DEF End, OpsOK
<1>6. /\ entry' \in Nat /\ entry' <= End /\ (entry' = End \/ entry' \in Times(mine, os))
      /\ \A u \in Times(mine, os) : 0 < u => entry' <= u
  BY <1>1, <1>5, AfterIsNext DEF Begin, Earliest
<1>7. \A l \in mine : l \in Times(mine, os) /\ os[l].ret \in Times(mine, os) /\ 0 < l /\ 0 < os[l].ret /\ l \in Nat
  BY <1>1 DEF OpsOK, OpOK, Times
<1>8. SearchType'
  <2>1. Absent \in Values
    BY EmptySeq DEF Absent, Values
  <2>2. <<>> \in Seq([call : mine, before : Values])
    BY EmptySeq
  <2>3. Earlier(Top)' = {}
    BY <1>2, <1>3
  <2> QED
    BY <1>1, <1>2, <1>4, <1>5, <1>6, <2>1, <2>2, <2>3 DEF SearchType
<1>9. Path'
  BY <1>2, <1>3 DEF Path
<1>10. LevelsStand'
  <2>1. \A l \in mine : entry' <= os[l].ret /\ ~(l < entry')
    BY <1>6, <1>7
  <2>2. \A l \in (Mine \ Earlier(1))' : CursorAt(1)' <= (ops[l].ret)' /\ ~(l < CursorAt(1)')
    BY <1>1, <1>3, <2>1
  <2>3. (NoneReturned(Earlier(1), CursorAt(1)) /\ TriedAll(Earlier(1), ValueAt(1), CursorAt(1)))'
    BY <2>2 DEF NoneReturned, TriedAll
  <2>4. \A j \in 1..Top' : j = 1
    BY <1>2
  <2>5. \A j \in 1..Top' : (NoneReturned(Earlier(j), CursorAt(j)) /\ TriedAll(Earlier(j), ValueAt(j), CursorAt(j)))'
    BY <2>3, <2>4
  <2> QED
    BY <2>5 DEF LevelsStand
<1>11. MemoIsHopeless'
  BY <1>2 DEF MemoIsHopeless
<1> QED
  BY <1>8, <1>9, <1>10, <1>11 DEF SearchStands

(* Stuck at a return: there is no way on from here. *)
LEMMA StuckIsHopeless ==
  ASSUME OpsOK(ops), SearchStands, AtReturn
  PROVE  ~Hope(placed, state)
<1> SUFFICES ASSUME Hope(placed, state) PROVE FALSE
  OBVIOUS
<1>1. Mine \subseteq DOMAIN ops /\ Mine \subseteq Nat /\ Mine \subseteq 1..Infinity
  BY MineIsOps
<1>2. /\ Top \in Nat /\ Top \in 1..Top /\ ValueAt(Top) = state /\ CursorAt(Top) = entry
      /\ Left = Mine \ placed /\ Earlier(Top) = placed
  BY TopFacts DEF SearchStands, SearchType, Top
<1>3. entry <= Infinity /\ entry \notin Left /\ entry \in Nat /\ (entry = End \/ entry \in Times(Left, ops))
  BY DEF AtReturn, AtCall, SearchStands, SearchType
<1>4. PICK x \in Left : ops[x].ret = entry
  <2>1. entry # End
    BY <1>3 DEF OpsOK, End
  <2> QED
    BY <1>3, <2>1 DEF Times
<1>5. PICK T \in SUBSET (Of(key, ops) \ placed) :
        Covers(ops, Infinity, key, placed, T) /\ \E pt, before : IsAWay(ops, T, pt, state, before)
  BY DEF Hope, Hopeful
<1>6. PICK pt, before : IsAWay(ops, T, pt, state, before)
  BY <1>5
<1>7. x \in T
  BY <1>2, <1>3, <1>4, <1>5 DEF Covers, Mine
<1>8. PICK l \in T :
        /\ KvTakes(state, ops[l])
        /\ \A i \in T : i # l => ~(ops[i].ret < l)
        /\ Hope(placed \cup {l}, KvNext(state, ops[l]))
  BY <1>5, <1>6, <1>7, HopefulSteps DEF Hope
<1>9. l \in Left /\ l \in Mine /\ l \in Nat
  BY <1>1, <1>2 DEF Mine
<1>10. l < entry
  <2>1. CASE l = x
    BY <1>1, <1>4, <1>9, <2>1 DEF OpsOK, OpOK
  <2>2. CASE l # x
    <3>1. ~(entry < l) /\ l # entry
      BY <1>3, <1>4, <1>7, <1>8, <1>9, <2>2
    <3> QED
      BY <1>3, <1>9, <3>1
  <2> QED
    BY <2>1, <2>2
<1>11. TriedAll(placed, state, entry)
  BY <1>2 DEF SearchStands, LevelsStand
<1> QED
  BY <1>2, <1>8, <1>9, <1>10, <1>11 DEF TriedAll

(* A call that is not accepted is passed over: placed next, it leads nowhere. *)
LEMMA SkipStands ==
  ASSUME OpsOK(ops), SearchStands, Skip
  PROVE  SearchStands'
<1>1. Mine \subseteq DOMAIN ops /\ Mine \subseteq Nat /\ Mine \subseteq 1..Infinity
  BY MineIsOps
<1>2. /\ Len(stack) \in Nat /\ Top \in Nat /\ Top \in 1..Top
      /\ ValueAt(Top) = state /\ CursorAt(Top) = entry
      /\ Left = Mine \ placed /\ Left \subseteq Mine /\ Earlier(Top) = placed
      /\ \A j \in 1..Top : Earlier(j) \subseteq placed
  BY TopFacts DEF SearchStands, SearchType, Top
<1>3. entry \in Left /\ ~Accepted /\ entry' = After(entry, Left, ops)
  BY DEF Skip, AtCall
<1>4. /\ UNCHANGED <<history, ops, key, placed, state, stack, memo>>
      /\ Mine' = Mine /\ Left' = Left /\ Top' = Top
      /\ \A j : Earlier(j)' = Earlier(j) /\ ValueAt(j)' = ValueAt(j)
      /\ \A j \in 1..Top : j # Top => CursorAt(j)' = CursorAt(j)
  BY <1>2 DEF Skip, Mine, Left, Top, Earlier, ValueAt, CursorAt
<1>5. CursorAt(Top)' = entry' /\ Infinity' = Infinity /\ End' = End
  BY <1>2, <1>4 DEF CursorAt, Top, Infinity, End
<1>6. entry \in Nat /\ entry < End
  BY <1>1, <1>2, <1>3 DEF End, OpsOK
<1>7. /\ entry' \in Nat /\ entry < entry' /\ entry' <= End /\ (entry' = End \/ entry' \in Times(Left, ops))
      /\ \A u \in Times(Left, ops) : entry < u => entry' <= u
  BY <1>1, <1>2, <1>3, <1>6, AfterIsNext
<1>8. NoneReturned(placed, entry) /\ TriedAll(placed, state, entry)
  BY <1>2 DEF SearchStands, LevelsStand
<1>9. ASSUME NEW l \in Mine \ placed PROVE entry' <= ops[l].ret
  <2>1. ops[l].ret \in Nat /\ entry <= ops[l].ret /\ ops[l].ret # entry
    BY <1>1, <1>2, <1>3, <1>8 DEF NoneReturned, OpsOK, OpOK
  <2>2. ops[l].ret \in Times(Left, ops)
    BY <1>2 DEF Times
  <2> QED
    BY <1>6, <1>7, <2>1, <2>2
<1>10. ASSUME NEW l \in Mine \ placed, l < entry', KvTakes(state, ops[l])
       PROVE  ~Hope(placed \cup {l}, KvNext(state, ops[l]))
  <2>1. l \in Nat /\ l \in Times(Left, ops)
    BY <1>1, <1>2 DEF Times
  <2>2. l <= entry
    BY <1>6, <1>7, <1>10, <2>1
  <2>3. CASE l = entry
    <3>1. Seen(placed \cup {l}, KvNext(state, ops[l]))
      BY <1>3, <1>10, <2>3 DEF Accepted
    <3>2. ASSUME Hope(placed \cup {l}, KvNext(state, ops[l])) PROVE FALSE
      <4>1. PICK m \in memo : m.done = placed \cup {l} /\ m.value = KvNext(state, ops[l])
        BY <3>1 DEF Seen
      <4>2. PICK j \in 1..Top : m.done = Earlier(j)
        BY <3>2, <4>1 DEF SearchStands, MemoIsHopeless
      <4> QED
        BY <1>2, <4>1, <4>2
    <3> QED
      BY <3>2
  <2>4. CASE l # entry
    <3>1. l < entry
      BY <1>6, <2>1, <2>2, <2>4
    <3> QED
      BY <1>8, <1>10, <3>1 DEF TriedAll
  <2> QED
    BY <2>3, <2>4
<1>11. SearchType'
  BY <1>4, <1>5, <1>7 DEF SearchStands, SearchType
<1>12. Path'
  BY <1>4 DEF SearchStands, Path
<1>13. LevelsStand'
  <2> SUFFICES ASSUME NEW j \in 1..Top
               PROVE  (NoneReturned(Earlier(j), CursorAt(j)) /\ TriedAll(Earlier(j), ValueAt(j), CursorAt(j)))'
    BY <1>4 DEF LevelsStand
  <2>1. CASE j = Top
    <3>1. \A l \in Mine \ placed : entry' <= ops[l].ret
      BY <1>9
    <3>2. \A l \in Mine \ placed :
            l < entry' /\ KvTakes(state, ops[l]) => ~Hope(placed \cup {l}, KvNext(state, ops[l]))
      BY <1>10
    <3> QED
      BY <1>2, <1>4, <1>5, <2>1, <3>1, <3>2 DEF NoneReturned, TriedAll, Hope
  <2>2. CASE j # Top
    <3>1. NoneReturned(Earlier(j), CursorAt(j)) /\ TriedAll(Earlier(j), ValueAt(j), CursorAt(j))
      BY DEF SearchStands, LevelsStand
    <3> QED
      BY <1>4, <1>5, <2>2, <3>1 DEF NoneReturned, TriedAll, Hope
  <2> QED
    BY <2>1, <2>2
<1>14. MemoIsHopeless'
  BY <1>4, <1>5 DEF SearchStands, MemoIsHopeless, Hope
<1> QED
  BY <1>11, <1>12, <1>13, <1>14 DEF SearchStands

(* A placed operation is a level more, where nothing was tried yet. *)
LEMMA PlaceStands ==
  ASSUME OpsOK(ops), SearchStands, Place
  PROVE  SearchStands'
<1>0. PICK n \in Nat : n = Len(stack)
  BY TopFacts DEF SearchStands
<1> DEFINE e == [call |-> entry, before |-> state]
           value == KvNext(state, ops[entry])
           Frame == [call : Mine, before : Values]
<1>1. Mine \subseteq DOMAIN ops /\ Mine \subseteq Nat /\ Mine \subseteq 1..Infinity
  BY MineIsOps
<1>2. /\ n \in Nat /\ Top \in Nat /\ Top = n + 1
      /\ ValueAt(Top) = state /\ CursorAt(Top) = entry
      /\ Left = Mine \ placed /\ Left \subseteq Mine /\ Earlier(Top) = placed
      /\ \A j \in 1..Top : Earlier(j) \subseteq placed
      /\ stack \in Seq(Frame) /\ state \in Values
  BY <1>0, TopFacts DEF SearchStands, SearchType, Top
<1>3. /\ entry \in Left /\ KvTakes(state, ops[entry])
      /\ entry' = Earliest(Left \ {entry}, ops)
      /\ stack' = Append(stack, e) /\ state' = value /\ placed' = placed \cup {entry}
      /\ memo' = memo \cup {[done |-> placed \cup {entry}, value |-> value]}
      /\ UNCHANGED <<history, ops, key>>
  BY DEF Place, AtCall, Accepted, Remember
<1>4. e \in Frame /\ e.call = entry /\ e.before = state
  BY <1>2, <1>3
<1>5. value \in Values
  BY <1>1, <1>2, <1>3, KvNextType DEF OpsOK, OpOK
<1> HIDE DEF e, value, Frame
<1>6. /\ stack' \in Seq(Frame) /\ Len(stack') = n + 1 /\ stack'[n + 1] = e
      /\ \A j \in 1..n : stack'[j] = stack[j]
  BY <1>0, <1>2, <1>3, <1>4
<1>7. Mine' = Mine /\ Infinity' = Infinity /\ End' = End /\ Top' = n + 2 /\ Left' = Left \ {entry}
  BY <1>2, <1>3, <1>6 DEF Mine, Infinity, End, Top, Left
<1>8. \A j \in 1..(n + 1) : Earlier(j)' = Earlier(j) /\ ValueAt(j)' = ValueAt(j) /\ CursorAt(j)' = CursorAt(j)
  <2> SUFFICES ASSUME NEW j \in 1..(n + 1)
               PROVE  Earlier(j)' = Earlier(j) /\ ValueAt(j)' = ValueAt(j) /\ CursorAt(j)' = CursorAt(j)
    OBVIOUS
  <2>1. \A m \in 1..(j - 1) : stack'[m] = stack[m]
    BY <1>2, <1>6
  <2>2. Earlier(j)' = Earlier(j)
    BY <2>1 DEF Earlier
  <2>3. CASE j = n + 1
    BY <1>2, <1>4, <1>6, <2>2, <2>3 DEF ValueAt, CursorAt
  <2>4. CASE j # n + 1
    <3>1. j \in 1..n /\ j <= Len(stack) /\ j <= Len(stack')
      BY <1>0, <1>2, <1>6, <2>4
    <3> QED
      BY <1>6, <2>2, <3>1 DEF ValueAt, CursorAt
  <2> QED
    BY <2>3, <2>4
<1>9. Earlier(n + 2)' = placed \cup {entry} /\ ValueAt(n + 2)' = value /\ CursorAt(n + 2)' = entry'
  <2>1. 1..((n + 2) - 1) = 1..(n + 1) /\ 1..((n + 1) - 1) = 1..n /\ 1..(n + 1) = 1..n \cup {n + 1}
    BY <1>2
  <2>2. Earlier(n + 1) = placed
    BY <1>2
  <2>3. Earlier(n + 2)' = Earlier(n + 1) \cup {entry}
    BY <1>4, <1>6, <2>1 DEF Earlier
  <2>4. ~(n + 2 <= Len(stack'))
    BY <1>2, <1>6
  <2> QED
    BY <1>3, <2>2, <2>3, <2>4 DEF ValueAt, CursorAt
<1>10. End \in Nat /\ 0 < End
  BY DEF End, OpsOK
<1>11. /\ entry' \in Nat /\ entry' <= End /\ (entry' = End \/ entry' \in Times(Left \ {entry}, ops))
       /\ \A u \in Times(Left \ {entry}, ops) : 0 < u => entry' <= u
  <2>1. (Left \ {entry}) \in SUBSET DOMAIN ops
    BY <1>1, <1>2
  <2> QED
    BY <1>3, <1>10, <2>1, AfterIsNext DEF Earliest
<1>12. \A l \in Left \ {entry} : entry' <= ops[l].ret /\ ~(l < entry')
  <2> SUFFICES ASSUME NEW l \in Left \ {entry} PROVE entry' <= ops[l].ret /\ ~(l < entry')
    OBVIOUS
  <2>1. l \in Nat /\ 0 < l /\ ops[l].ret \in Nat /\ 0 < ops[l].ret
    BY <1>1, <1>2 DEF OpsOK, OpOK
  <2>2. l \in Times(Left \ {entry}, ops) /\ ops[l].ret \in Times(Left \ {entry}, ops)
    BY DEF Times
  <2> QED
    BY <1>11, <2>1, <2>2
<1>13. SearchType'
  <2>1. placed' = Earlier(Top)'
    BY <1>3, <1>7, <1>9
  <2>2. stack' \in Seq([call : Mine, before : Values])'
    BY <1>6, <1>7 DEF Frame
  <2> QED
    BY <1>3, <1>5, <1>7, <1>11, <2>1, <2>2 DEF SearchType
<1>14. Path'
  <2>1. ValueAt(1)' = Absent
    BY <1>2, <1>8 DEF SearchStands, Path
  <2>2. ASSUME NEW j \in 1..(n + 1)
        PROVE  /\ stack'[j].call \notin Earlier(j)'
               /\ KvTakes(stack'[j].before, ops[stack'[j].call])
               /\ ValueAt(j + 1)' = KvNext(stack'[j].before, ops[stack'[j].call])
    <3>1. CASE j = n + 1
      <4>1. stack'[j] = e /\ j + 1 = n + 2 /\ Earlier(j)' = placed
        BY <1>2, <1>6, <1>8, <3>1
      <4> QED
        BY <1>2, <1>3, <1>4, <1>9, <4>1 DEF value
    <3>2. CASE j # n + 1
      <4>1. j \in 1..n /\ j + 1 \in 1..(n + 1) /\ stack'[j] = stack[j]
        BY <1>2, <1>6, <3>2
      <4> QED
        BY <1>0, <1>8, <4>1 DEF SearchStands, Path
    <3> QED
      BY <3>1, <3>2
  <2> QED
    BY <1>3, <1>6, <2>1, <2>2 DEF Path
<1>15. LevelsStand'
  <2> SUFFICES ASSUME NEW j \in 1..(n + 2)
               PROVE  (NoneReturned(Earlier(j), CursorAt(j)) /\ TriedAll(Earlier(j), ValueAt(j), CursorAt(j)))'
    BY <1>7 DEF LevelsStand
  <2>1. CASE j = n + 2
    <3>1. \A l \in Mine \ (placed \cup {entry}) : entry' <= ops[l].ret /\ ~(l < entry')
      BY <1>2, <1>12
    <3> QED
      BY <1>3, <1>7, <1>9, <2>1, <3>1 DEF NoneReturned, TriedAll
  <2>2. CASE j # n + 2
    <3>1. j \in 1..(n + 1)
      BY <1>2, <2>2
    <3>2. NoneReturned(Earlier(j), CursorAt(j)) /\ TriedAll(Earlier(j), ValueAt(j), CursorAt(j))
      BY <1>2, <3>1 DEF SearchStands, LevelsStand
    <3> QED
      BY <1>3, <1>7, <1>8, <3>1, <3>2 DEF NoneReturned, TriedAll, Hope
  <2> QED
    BY <2>1, <2>2
<1>16. MemoIsHopeless'
  <2> SUFFICES ASSUME NEW m \in memo', Hope(m.done, m.value)'
               PROVE  \E j \in 1..(n + 2) : m.done = Earlier(j)' /\ m.value = ValueAt(j)'
    BY <1>7 DEF MemoIsHopeless
  <2>1. CASE m \in memo
    <3>1. Hope(m.done, m.value)
      BY <1>3, <1>7 DEF Hope
    <3>2. PICK j \in 1..(n + 1) : m.done = Earlier(j) /\ m.value = ValueAt(j)
      BY <1>2, <2>1, <3>1 DEF SearchStands, MemoIsHopeless
    <3>3. j \in 1..(n + 2)
      BY <1>2
    <3> QED
      BY <1>8, <3>2, <3>3
  <2>2. CASE m \notin memo
    <3>1. m.done = placed \cup {entry} /\ m.value = value /\ n + 2 \in 1..(n + 2)
      BY <1>2, <1>3, <2>2
    <3> QED
      BY <1>9, <3>1
  <2> QED
    BY <2>1, <2>2
<1> QED
  BY <1>13, <1>14, <1>15, <1>16 DEF SearchStands

(* Stuck, the search goes on one level down: what it had placed there leads nowhere. *)
LEMMA BacktrackStands ==
  ASSUME OpsOK(ops), SearchStands, Backtrack
  PROVE  SearchStands'
<1>0. PICK n \in Nat : n = Len(stack)
  BY TopFacts DEF SearchStands
<1> DEFINE i == stack[n].call
           Frame == [call : Mine, before : Values]
<1>1. Mine \subseteq DOMAIN ops /\ Mine \subseteq Nat /\ Mine \subseteq 1..Infinity
  BY MineIsOps
<1>2. /\ n \in Nat /\ Top \in Nat /\ Top = n + 1
      /\ ValueAt(Top) = state /\ CursorAt(Top) = entry
      /\ Left = Mine \ placed /\ Left \subseteq Mine /\ Earlier(Top) = placed
      /\ \A j \in 1..Top : Earlier(j) \subseteq placed
      /\ stack \in Seq(Frame)
  BY <1>0, TopFacts DEF SearchStands, SearchType, Top
<1>3. n \in Nat \ {0} /\ n \in 1..n
  BY <1>0, <1>2, EmptySeq DEF Backtrack
<1>4. stack[n] \in [call : Mine, before : Values] /\ i \in Mine /\ stack[n].before \in Values
  BY <1>0, <1>3, TopFacts DEF SearchStands
<1>5. /\ placed' = placed \ {i} /\ state' = stack[n].before
      /\ entry' = After(i, Left \cup {i}, ops) /\ stack' = SubSeq(stack, 1, n - 1)
      /\ UNCHANGED <<history, ops, key, memo>>
  BY <1>0 DEF Backtrack, Last, Front
<1> HIDE DEF i, Frame
<1>6. stack' \in Seq(Frame) /\ Len(stack') = n - 1 /\ \A j \in 1..(n - 1) : stack'[j] = stack[j]
  BY <1>0, <1>2, <1>3, <1>5
<1>7. ~Hope(placed, state)
  BY StuckIsHopeless DEF Backtrack
<1>8. \A j \in 1..n : Earlier(j)' = Earlier(j) /\ ValueAt(j)' = ValueAt(j)
  <2> SUFFICES ASSUME NEW j \in 1..n PROVE Earlier(j)' = Earlier(j) /\ ValueAt(j)' = ValueAt(j)
    OBVIOUS
  <2>1. \A m \in 1..(j - 1) : stack'[m] = stack[m]
    BY <1>3, <1>6
  <2>2. Earlier(j)' = Earlier(j)
    BY <2>1 DEF Earlier
  <2>3. CASE j = n
    BY <1>0, <1>3, <1>5, <1>6, <2>2, <2>3 DEF ValueAt
  <2>4. CASE j # n
    <3>1. j \in 1..(n - 1) /\ j <= Len(stack) /\ j <= Len(stack')
      BY <1>0, <1>3, <1>6, <2>4
    <3> QED
      BY <1>6, <2>2, <3>1 DEF ValueAt
  <2> QED
    BY <2>3, <2>4
<1>9. \A j \in 1..(n - 1) : CursorAt(j)' = CursorAt(j)
  <2> SUFFICES ASSUME NEW j \in 1..(n - 1) PROVE CursorAt(j)' = CursorAt(j)
    OBVIOUS
  <2>1. j <= Len(stack) /\ j <= Len(stack')
    BY <1>0, <1>3, <1>6
  <2> QED
    BY <1>6, <2>1 DEF CursorAt
<1>10. CursorAt(n)' = entry' /\ CursorAt(n) = i /\ ValueAt(n) = stack[n].before
  <2>1. ~(n <= Len(stack')) /\ n <= Len(stack)
    BY <1>0, <1>3, <1>6
  <2> QED
    BY <2>1 DEF CursorAt, ValueAt, i
<1>11. /\ i \notin Earlier(n) /\ KvTakes(ValueAt(n), ops[i]) /\ state = KvNext(ValueAt(n), ops[i])
       /\ placed = Earlier(n) \cup {i}
  <2>1. i \notin Earlier(n) /\ KvTakes(ValueAt(n), ops[i]) /\ ValueAt(n + 1) = KvNext(ValueAt(n), ops[i])
    BY <1>0, <1>3, <1>10 DEF SearchStands, Path, i
  <2>2. (n + 1) - 1 = n /\ 1..n = 1..(n - 1) \cup {n}
    BY <1>3
  <2>3. Earlier(n + 1) = Earlier(n) \cup {i}
    BY <2>2 DEF Earlier, i
  <2> QED
    BY <1>2, <2>1, <2>3
<1>12. placed' = Earlier(n) /\ Earlier(n) \subseteq Mine
  BY <1>2, <1>3, <1>5, <1>11, TopFacts DEF SearchStands
<1>13. Mine' = Mine /\ Infinity' = Infinity /\ End' = End /\ Top' = n /\ Left' = Left \cup {i}
  BY <1>2, <1>3, <1>4, <1>5, <1>6, <1>11, <1>12 DEF Mine, Infinity, End, Top, Left
<1>14. i \in Nat /\ i < End
  BY <1>1, <1>4 DEF End, OpsOK
<1>15. /\ entry' \in Nat /\ i < entry' /\ entry' <= End /\ (entry' = End \/ entry' \in Times(Left \cup {i}, ops))
       /\ \A u \in Times(Left \cup {i}, ops) : i < u => entry' <= u
  <2>1. (Left \cup {i}) \in SUBSET DOMAIN ops
    BY <1>1, <1>2, <1>4
  <2> QED
    BY <1>5, <1>14, <2>1, AfterIsNext
<1>16. Mine \ Earlier(n) = Left \cup {i}
  BY <1>2, <1>4, <1>11
<1>17. NoneReturned(Earlier(n), i) /\ TriedAll(Earlier(n), ValueAt(n), i)
  <2>1. n \in 1..Top
    BY <1>2, <1>3
  <2> QED
    BY <1>10, <2>1 DEF SearchStands, LevelsStand
<1>18. ASSUME NEW l \in Mine \ Earlier(n) PROVE entry' <= ops[l].ret
  <2>1. ops[l].ret \in Nat /\ i <= ops[l].ret /\ ops[l].ret # i
    BY <1>1, <1>4, <1>17 DEF NoneReturned, OpsOK, OpOK
  <2>2. ops[l].ret \in Times(Left \cup {i}, ops)
    BY <1>16 DEF Times
  <2> QED
    BY <1>14, <1>15, <2>1, <2>2
<1>19. ASSUME NEW l \in Mine \ Earlier(n), l < entry', KvTakes(ValueAt(n), ops[l])
       PROVE  ~Hope(Earlier(n) \cup {l}, KvNext(ValueAt(n), ops[l]))
  <2>1. l \in Nat /\ l \in Times(Left \cup {i}, ops)
    BY <1>1, <1>16 DEF Times
  <2>2. l <= i
    BY <1>14, <1>15, <1>19, <2>1
  <2>3. CASE l = i
    BY <1>7, <1>11, <2>3
  <2>4. CASE l # i
    <3>1. l < i
      BY <1>14, <2>1, <2>2, <2>4
    <3> QED
      BY <1>17, <1>19, <3>1 DEF TriedAll
  <2> QED
    BY <2>3, <2>4
<1>20. SearchType'
  <2>1. placed' = Earlier(Top)'
    BY <1>3, <1>8, <1>12, <1>13
  <2>2. stack' \in Seq([call : Mine, before : Values])'
    BY <1>6, <1>13 DEF Frame
  <2> QED
    BY <1>4, <1>5, <1>13, <1>15, <2>1, <2>2 DEF SearchType
<1>21. Path'
  <2>1. ValueAt(1)' = Absent
    BY <1>3, <1>8 DEF SearchStands, Path
  <2>2. ASSUME NEW j \in 1..(n - 1)
        PROVE  /\ stack'[j].call \notin Earlier(j)'
               /\ KvTakes(stack'[j].before, ops[stack'[j].call])
               /\ ValueAt(j + 1)' = KvNext(stack'[j].before, ops[stack'[j].call])
    <3>1. j \in 1..n /\ j + 1 \in 1..n /\ stack'[j] = stack[j]
      BY <1>3, <1>6
    <3> QED
      BY <1>0, <1>8, <3>1 DEF SearchStands, Path
  <2> QED
    BY <1>5, <1>6, <2>1, <2>2 DEF Path
<1>22. LevelsStand'
  <2> SUFFICES ASSUME NEW j \in 1..n
               PROVE  (NoneReturned(Earlier(j), CursorAt(j)) /\ TriedAll(Earlier(j), ValueAt(j), CursorAt(j)))'
    BY <1>13 DEF LevelsStand
  <2>1. CASE j = n
    <3>1. \A l \in Mine \ Earlier(n) : entry' <= ops[l].ret
      BY <1>18
    <3>2. \A l \in Mine \ Earlier(n) :
            l < entry' /\ KvTakes(ValueAt(n), ops[l]) => ~Hope(Earlier(n) \cup {l}, KvNext(ValueAt(n), ops[l]))
      BY <1>19
    <3>3. Earlier(n)' = Earlier(n) /\ ValueAt(n)' = ValueAt(n)
      BY <1>3, <1>8
    <3> QED
      BY <1>5, <1>10, <1>13, <2>1, <3>1, <3>2, <3>3 DEF NoneReturned, TriedAll, Hope
  <2>2. CASE j # n
    <3>1. j \in 1..(n - 1) /\ j \in 1..Top
      BY <1>2, <1>3, <2>2
    <3>2. NoneReturned(Earlier(j), CursorAt(j)) /\ TriedAll(Earlier(j), ValueAt(j), CursorAt(j))
      BY <3>1 DEF SearchStands, LevelsStand
    <3> QED
      BY <1>5, <1>8, <1>9, <1>13, <3>1, <3>2 DEF NoneReturned, TriedAll, Hope
  <2> QED
    BY <2>1, <2>2
<1>23. MemoIsHopeless'
  <2> SUFFICES ASSUME NEW m \in memo', Hope(m.done, m.value)'
               PROVE  \E j \in 1..n : m.done = Earlier(j)' /\ m.value = ValueAt(j)'
    BY <1>13 DEF MemoIsHopeless
  <2>1. m \in memo /\ Hope(m.done, m.value)
    BY <1>5, <1>13 DEF Hope
  <2>2. PICK j \in 1..Top : m.done = Earlier(j) /\ m.value = ValueAt(j)
    BY <2>1 DEF SearchStands, MemoIsHopeless
  <2>3. j # Top
    <3> SUFFICES ASSUME j = Top PROVE FALSE
      OBVIOUS
    <3>1. Hope(placed, state)
      BY <1>2, <2>1, <2>2
    <3> QED
      BY <1>7, <3>1
  <2>4. j \in 1..n
    BY <1>2, <2>3
  <2> QED
    BY <1>8, <2>2, <2>4
<1> QED
  BY <1>20, <1>21, <1>22, <1>23 DEF SearchStands

(* When what completed is placed, the stack is a way from the start. *)
LEMMA StackIsAWay ==
  ASSUME OpsOK(ops), SearchStands, Left = {} \/ entry > Infinity
  PROVE  Hope({}, Absent)
<1> DEFINE n == Len(stack)
           pt == [l \in placed |-> CHOOSE j \in 1..n : stack[j].call = l]
           before == [l \in placed |-> stack[pt[l]].before]
<1>1. Mine \subseteq DOMAIN ops /\ Mine \subseteq Nat /\ Mine \subseteq 1..Infinity
  BY MineIsOps
<1>2. /\ n \in Nat /\ Top \in Nat /\ Top = n + 1 /\ CursorAt(Top) = entry
      /\ Left = Mine \ placed /\ Earlier(Top) = placed
      /\ \A j \in 1..Top : Earlier(j) \subseteq placed /\ Earlier(j) \subseteq Mine
  BY TopFacts DEF SearchStands, SearchType, Top
<1>3. placed = {stack[j].call : j \in 1..n} /\ placed \subseteq Mine
  BY <1>2 DEF Earlier
<1>4. \A l \in placed : pt[l] \in 1..n /\ stack[pt[l]].call = l
  BY <1>3
<1>5. \A a, b \in 1..n : a < b => stack[a].call # stack[b].call
  <2> SUFFICES ASSUME NEW a \in 1..n, NEW b \in 1..n, a < b PROVE stack[a].call # stack[b].call
    OBVIOUS
  <2>1. a \in 1..(b - 1)
    BY <1>2
  <2> QED
    BY <2>1 DEF SearchStands, Path, Earlier
<1>6. \A j \in 1..n : stack[j].call \in placed /\ pt[stack[j].call] = j
  <2> SUFFICES ASSUME NEW j \in 1..n PROVE stack[j].call \in placed /\ pt[stack[j].call] = j
    OBVIOUS
  <2> DEFINE i == pt[stack[j].call]
  <2>1. stack[j].call \in placed
    BY <1>3
  <2>2. i \in 1..n /\ stack[i].call = stack[j].call
    BY <1>4, <2>1
  <2>3. ~(i < j) /\ ~(j < i)
    BY <1>5, <2>2
  <2> QED
    BY <1>2, <2>1, <2>2, <2>3
<1>7. pt \in [placed -> Nat] /\ \A l \in placed : before[l] = stack[pt[l]].before
  BY <1>2, <1>4
<1> HIDE DEF pt, before
<1>8. Orders(placed, pt)
  BY <1>4, <1>7 DEF Orders
<1>9. KeepsTime(ops, placed, pt)
  <2> SUFFICES ASSUME NEW l \in placed, NEW k \in placed, ops[l].ret < k, ~(pt[l] < pt[k]) PROVE FALSE
    BY DEF KeepsTime
  <2>1. pt[l] \in 1..n /\ pt[k] \in 1..n /\ stack[pt[l]].call = l /\ stack[pt[k]].call = k /\ k \in Mine /\ l \in Mine
    BY <1>3, <1>4
  <2>2. ops[l].ret \in Nat /\ l < ops[l].ret /\ l \in Nat /\ k \in Nat
    BY <1>1, <2>1 DEF OpsOK, OpOK
  <2>3. l # k /\ pt[k] < pt[l]
    BY <2>1, <2>2
  <2>4. l \notin Earlier(pt[k])
    <3> SUFFICES ASSUME NEW m \in 1..(pt[k] - 1), stack[m].call = l PROVE FALSE
      BY DEF Earlier
    <3>1. m \in 1..n /\ m < pt[l]
      BY <1>2, <2>1, <2>3
    <3> QED
      BY <1>5, <2>1, <3>1
  <2>5. NoneReturned(Earlier(pt[k]), k)
    <3>1. pt[k] \in 1..Top /\ pt[k] <= Len(stack)
      BY <1>2, <2>1
    <3>2. CursorAt(pt[k]) = k
      BY <2>1, <3>1 DEF CursorAt
    <3> QED
      BY <3>1, <3>2 DEF SearchStands, LevelsStand
  <2>6. k <= ops[l].ret
    BY <2>1, <2>4, <2>5 DEF NoneReturned
  <2> QED
    BY <2>2, <2>6
<1>10. ASSUME NEW j \in placed
       PROVE  /\ KvTakes(before[j], ops[j])
              /\ IsFirst(j, placed, pt) => before[j] = Absent
              /\ \A i \in placed : IsNext(i, j, placed, pt) => before[j] = KvNext(before[i], ops[i])
  <2>1. pt[j] \in 1..n /\ stack[pt[j]].call = j /\ before[j] = stack[pt[j]].before
    BY <1>4, <1>7
  <2>2. KvTakes(before[j], ops[j])
    BY <2>1 DEF SearchStands, Path
  <2>3. ASSUME IsFirst(j, placed, pt) PROVE before[j] = Absent
    <3>1. 1 \in 1..n
      BY <1>2, <2>1
    <3>2. pt[j] <= 1
      BY <1>6, <2>3, <3>1 DEF IsFirst
    <3>3. pt[j] = 1 /\ 1 <= Len(stack)
      BY <1>2, <2>1, <3>2
    <3> QED
      BY <2>1, <3>3 DEF SearchStands, Path, ValueAt
  <2>4. ASSUME NEW i \in placed, IsNext(i, j, placed, pt) PROVE before[j] = KvNext(before[i], ops[i])
    <3>1. pt[i] \in 1..n /\ stack[pt[i]].call = i /\ before[i] = stack[pt[i]].before /\ pt[i] < pt[j]
      BY <1>4, <1>7, <2>4 DEF IsNext
    <3>2. pt[i] + 1 \in 1..n /\ pt[i] < pt[i] + 1
      BY <1>2, <2>1, <3>1
    <3>3. ~(pt[i] + 1 < pt[j])
      <4>1. stack[pt[i] + 1].call \in placed /\ pt[stack[pt[i] + 1].call] = pt[i] + 1
        BY <1>6, <3>2
      <4> QED
        BY <2>4, <3>2, <4>1 DEF IsNext
    <3>4. pt[j] = pt[i] + 1
      BY <1>2, <2>1, <3>1, <3>2, <3>3
    <3>5. ValueAt(pt[i] + 1) = stack[pt[j]].before
      BY <3>2, <3>4 DEF ValueAt
    <3> QED
      BY <2>1, <3>1, <3>5 DEF SearchStands, Path
  <2> QED
    BY <2>2, <2>3, <2>4
<1>11. IsAWay(ops, placed, pt, Absent, before)
  BY <1>8, <1>9, <1>10 DEF IsAWay, Finds
<1>12. Covers(ops, Infinity, key, {}, placed)
  <2> SUFFICES ASSUME NEW l \in Mine, ops[l].ret <= Infinity, l \notin placed PROVE FALSE
    BY DEF Covers, Mine
  <2>1. l \in Left /\ entry > Infinity
    BY <1>2
  <2>2. NoneReturned(placed, entry)
    BY <1>2 DEF SearchStands, LevelsStand
  <2>3. entry <= ops[l].ret /\ entry \in Nat /\ Infinity \in Nat /\ ops[l].ret \in Nat
    BY <1>1, <2>2 DEF NoneReturned, SearchStands, SearchType, OpsOK, OpOK
  <2> QED
    BY <2>1, <2>3
<1>13. placed \in SUBSET (Of(key, ops) \ {})
  BY <1>3 DEF Mine
<1> QED
  BY <1>11, <1>12, <1>13, Zenon DEF Hope, Hopeful

-----------------------------------------------------------------------------
(* The stores of an order: after each operation, what it left in its key.    *)

Empty == [k \in Keys |-> Absent]
AreStores(f, order, m) ==
  /\ f = [n \in 0..m |-> f[n]]
  /\ f[0] = Empty
  /\ \A n \in 1..m : f[n] = Leaves(f[n - 1], order[n])

(* The stores of an order exist, after any number of its operations. *)
LEMMA StoresExist ==
  ASSUME NEW order, NEW m \in Nat
  PROVE  \E f : AreStores(f, order, m)
<1> DEFINE Bad == {n \in Nat : ~ \E f : AreStores(f, order, n)}
<1> SUFFICES ASSUME Bad # {} PROVE FALSE
  OBVIOUS
<1>1. PICK n \in Bad : \A k \in Bad : n <= k
  BY Least
<1>2. CASE n = 0
  <2> DEFINE f == [i \in 0..0 |-> Empty]
  <2>1. f = [i \in 0..0 |-> f[i]] /\ f[0] = Empty
    OBVIOUS
  <2> HIDE DEF f
  <2>2. AreStores(f, order, 0)
    BY <2>1 DEF AreStores
  <2> QED
    BY <1>1, <1>2, <2>2
<1>3. CASE n # 0
  <2>1. n - 1 \in Nat /\ n - 1 \notin Bad
    BY <1>1, <1>3
  <2>2. PICK f : AreStores(f, order, n - 1)
    BY <2>1
  <2> DEFINE g == [i \in 0..n |-> IF i = n THEN Leaves(f[n - 1], order[n]) ELSE f[i]]
  <2>3. g = [i \in 0..n |-> g[i]] /\ g[n] = Leaves(f[n - 1], order[n]) /\ \A i \in 0..n : i # n => g[i] = f[i]
    BY <2>1
  <2> HIDE DEF g
  <2>4. g[0] = Empty
    <3>1. n \in Nat /\ 0 \in 0..n /\ 0 # n
      BY <1>1, <1>3
    <3> QED
      BY <2>2, <2>3, <3>1 DEF AreStores
  <2>5. \A i \in 1..n : g[i] = Leaves(g[i - 1], order[i])
    <3> SUFFICES ASSUME NEW i \in 1..n PROVE g[i] = Leaves(g[i - 1], order[i])
      OBVIOUS
    <3>1. i - 1 \in 0..n /\ i - 1 # n /\ g[i - 1] = f[i - 1]
      BY <2>1, <2>3
    <3>2. CASE i = n
      BY <2>3, <3>1, <3>2
    <3>3. CASE i # n
      <4>1. i \in 1..(n - 1) /\ g[i] = f[i]
        BY <2>1, <2>3, <3>3
      <4> QED
        BY <2>2, <3>1, <4>1 DEF AreStores
    <3> QED
      BY <3>2, <3>3
  <2>6. AreStores(g, order, n)
    BY <2>3, <2>4, <2>5 DEF AreStores
  <2> QED
    BY <1>1, <2>6
<1> QED
  BY <1>2, <1>3

(* Stores(order) applies the operations one after another. *)
LEMMA StoresAreStores ==
  ASSUME NEW order, Len(order) \in Nat
  PROVE  AreStores(Stores(order), order, Len(order))
<1> DEFINE Body(f) ==
      [n \in 0..Len(order) |->
         IF n = 0 THEN [k \in Keys |-> Absent] ELSE Leaves(f[n - 1], order[n])]
<1>1. PICK f : AreStores(f, order, Len(order))
  BY StoresExist
<1>2. f = Body(f)
  <2>1. \A n \in 0..Len(order) : f[n] = IF n = 0 THEN Empty ELSE Leaves(f[n - 1], order[n])
    BY <1>1 DEF AreStores
  <2>2. Body(f) = [n \in 0..Len(order) |-> f[n]]
    BY <2>1 DEF Empty
  <2> QED
    BY <1>1, <2>2 DEF AreStores
<1>3. Stores(order) = CHOOSE g : g = Body(g)
  BY DEF Stores
<1> HIDE DEF Body
<1>4. Stores(order) = Body(Stores(order))
  BY <1>2, <1>3
<1> DEFINE r == Stores(order)
<1>5. r = Body(r)
  BY <1>4
<1> HIDE DEF r
<1>6. \A n \in 0..Len(order) : r[n] = IF n = 0 THEN Empty ELSE Leaves(r[n - 1], order[n])
  BY <1>5 DEF Body, Empty
<1>7. r = [n \in 0..Len(order) |-> r[n]]
  BY <1>5 DEF Body
<1>8. AreStores(r, order, Len(order))
  <2>1. r[0] = Empty
    BY <1>6
  <2>2. \A n \in 1..Len(order) : r[n] = Leaves(r[n - 1], order[n])
    BY <1>6
  <2> QED
    BY <1>7, <2>1, <2>2 DEF AreStores
<1> QED
  BY <1>8 DEF r

(* An operation leaves its key as the model does, and no other. *)
LEMMA LeavesItsKey ==
  ASSUME Recorded, Parsed(ops), NEW store \in [Keys -> Values], NEW i \in DOMAIN ops
  PROVE  /\ Leaves(store, i) \in [Keys -> Values]
         /\ ops[i].op.key \in Keys
         /\ \A k \in Keys :
              Leaves(store, i)[k] = IF ops[i].op.key = k THEN KvNext(store[k], ops[i]) ELSE store[k]
<1>1. history[i].op = ops[i].op /\ ops[i].op \in Operations
  BY ParsedIsOK DEF Parsed, OpsOK, OpOK
<1> DEFINE op == history[i].op
           old == store[op.key]
           new == KvNext(old, ops[i])
<1>2. op.key \in Keys /\ old \in Values
  BY <1>1, OperationsAssumption
<1>3. new \in Values
  BY <1>1, <1>2, KvNextType
<1>4. Leaves(store, i) = [store EXCEPT ![op.key] = new]
  BY <1>1 DEF Leaves, KvNext, Sum
<1> HIDE DEF op, new
<1>5. op = ops[i].op
  BY <1>1 DEF op
<1> QED
  BY <1>2, <1>3, <1>4, <1>5 DEF new

(* An order of operations: no number is two of them. *)
OrderOf(order) == order \in Seq(DOMAIN ops) /\ \A a, b \in DOMAIN order : order[a] = order[b] => a = b
KeyAt(order, n) == ops[order[n]].op.key

(* The stores of an order, operation by operation. *)
LEMMA StoreByStore ==
  ASSUME Recorded, Parsed(ops), NEW order, OrderOf(order)
  PROVE  LET S == Stores(order)
         IN /\ \A n \in 0..Len(order) : S[n] \in [Keys -> Values]
            /\ \A k \in Keys : S[0][k] = Absent
            /\ \A n \in 1..Len(order) :
                 /\ KeyAt(order, n) \in Keys
                 /\ \A k \in Keys :
                      S[n][k] = IF KeyAt(order, n) = k THEN KvNext(S[n - 1][k], ops[order[n]])
                                ELSE S[n - 1][k]
<1> DEFINE S == Stores(order)
           m == Len(order)
<1>1. m \in Nat /\ DOMAIN order = 1..m /\ \A n \in 1..m : order[n] \in DOMAIN ops
  <2>1. order \in Seq(DOMAIN ops)
    BY DEF OrderOf
  <2> QED
    BY <2>1, ElementOfSeq
<1>2. AreStores(S, order, m)
  BY <1>1, StoresAreStores
<1> HIDE DEF S, m
<1>3. S[0] = Empty /\ \A n \in 1..m : S[n] = Leaves(S[n - 1], order[n])
  BY <1>2 DEF AreStores
<1>4. \A n \in 0..m : S[n] \in [Keys -> Values]
  <2> DEFINE Bad == {n \in 0..m : S[n] \notin [Keys -> Values]}
  <2> SUFFICES ASSUME Bad # {} PROVE FALSE
    OBVIOUS
  <2>1. Bad \in SUBSET Nat
    BY <1>1
  <2>2. PICK n \in Bad : \A x \in Bad : n <= x
    BY <2>1, Least
  <2>3. S[0] \in [Keys -> Values]
    <3>1. Absent \in Values
      BY EmptySeq DEF Absent, Values
    <3> QED
      BY <1>3, <3>1 DEF Empty
  <2>4. n \in 1..m /\ n - 1 \in 0..m /\ n - 1 \notin Bad
    BY <1>1, <2>2, <2>3
  <2>5. S[n] = Leaves(S[n - 1], order[n]) /\ S[n - 1] \in [Keys -> Values] /\ order[n] \in DOMAIN ops
    BY <1>1, <1>3, <2>4
  <2>6. S[n] \in [Keys -> Values]
    BY <2>5, LeavesItsKey
  <2> QED
    BY <2>2, <2>6
<1>5. \A k \in Keys : S[0][k] = Absent
  BY <1>3 DEF Empty
<1>6. ASSUME NEW n \in 1..m
      PROVE  /\ KeyAt(order, n) \in Keys
             /\ \A k \in Keys :
                  S[n][k] = IF KeyAt(order, n) = k THEN KvNext(S[n - 1][k], ops[order[n]]) ELSE S[n - 1][k]
  <2>1. n - 1 \in 0..m
    BY <1>1
  <2>2. S[n] = Leaves(S[n - 1], order[n]) /\ S[n - 1] \in [Keys -> Values] /\ order[n] \in DOMAIN ops
    BY <1>1, <1>3, <1>4, <2>1
  <2> QED
    BY <2>2, LeavesItsKey DEF KeyAt
<1> QED
  BY <1>4, <1>5, <1>6 DEF S, m

(* What the history says an operation answered, the model takes. *)
LEMMA AnswersAreTaken ==
  ASSUME Recorded, Parsed(ops), NEW store \in [Keys -> Values],
         NEW i \in Completed, NEW a \in EndedBy(i, "ok")
  PROVE  (\A v \in history[a].said : MayAnswer(store, i, v)) <=> KvTakes(store[ops[i].op.key], ops[i])
<1>1. i \in DOMAIN ops /\ history[i].op = ops[i].op /\ ops[i].said = history[a].said /\ ops[i].op \in Operations
  BY ParsedIsOK DEF Parsed, OpsOK, OpOK
<1> DEFINE op == ops[i].op
           old == store[op.key]
           said == ops[i].said
<1>2. \E v \in Outputs(op) : said = {v}
  <2>1. a \in DOMAIN history /\ NextOfProcess(i, a, history) /\ history[a].type = "ok"
    BY DEF EndedBy
  <2>2. PICK j \in Invokes(history) :
          NextOfProcess(j, a, history) /\ history[a].said \in Says(history[j].op, history[a].type)
    BY <2>1 DEF Recorded, Answers
  <2>3. j = i
    BY <2>1, <2>2, NextIsOne DEF Recorded, Invokes, Completed
  <2> QED
    BY <1>1, <2>1, <2>2, <2>3 DEF Says
<1>3. Leaves(store, i)[op.key] = KvNext(old, ops[i])
  BY <1>1, LeavesItsKey
<1>4. CASE op.f = "put"
  BY <1>1, <1>4 DEF MayAnswer, KvTakes
<1>5. CASE op.f = "get"
  BY <1>1, <1>2, <1>5 DEF MayAnswer, KvTakes
<1>6. CASE op.f = "add"
  BY <1>1, <1>2, <1>3, <1>6 DEF MayAnswer, KvTakes
<1>7. CASE op.f = "cas"
  <2>1. PICK v \in {No, Yes} : said = {v}
    BY <1>1, <1>2, <1>7, OperationsAssumption
  <2>2. No # Yes
    BY DEF No, Yes
  <2>3. (\A w \in said : MayAnswer(store, i, w)) <=> v = IF old = op.arg[1] THEN Yes ELSE No
    BY <1>1, <1>7, <2>1 DEF MayAnswer
  <2>4. KvTakes(old, ops[i]) <=> ((said = {No}) # (old = op.arg[1]))
    BY <1>7 DEF KvTakes
  <2>5. (said = {No}) <=> (v = No)
    BY <2>1
  <2> QED
    BY <1>1, <2>1, <2>2, <2>3, <2>4, <2>5
<1> QED
  BY <1>1, <1>4, <1>5, <1>6, <1>7, OperationsAssumption

(* What the model does not take of an operation that said nothing leaves    *)
(* its key as it is.                                                        *)
LEMMA NotTakenChangesNothing ==
  ASSUME NEW i \in Indeterminate, Parsed(ops), OpsOK(ops), NEW value, ~KvTakes(value, ops[i])
  PROVE  KvNext(value, ops[i]) = value
<1>1. i \in DOMAIN ops /\ ops[i].said = {} /\ ops[i].op \in Operations
  BY DEF Parsed, OpsOK, OpOK
<1>2. ops[i].op.f = "cas"
  BY <1>1, OperationsAssumption DEF KvTakes
<1>3. {} # {No}
  OBVIOUS
<1>4. value # ops[i].op.arg[1]
  BY <1>1, <1>2, <1>3 DEF KvTakes
<1> QED
  BY <1>2, <1>4 DEF KvNext

-----------------------------------------------------------------------------
(* A finite set with a strict total order is a sequence in that order.       *)

(* Each member stands at the number of those below it. *)
LEMMA Sorted ==
  ASSUME NEW T, IsFiniteSet(T), NEW R,
         \A i \in T : <<i, i>> \notin R,
         \A i, j, k \in T : <<i, j>> \in R /\ <<j, k>> \in R => <<i, k>> \in R,
         \A i, j \in T : i # j => <<i, j>> \in R \/ <<j, i>> \in R
  PROVE  \E order \in SetToSeqs(T) :
           /\ \A i \in T : \E n \in 1..Cardinality(T) : order[n] = i
           /\ \A a, b \in 1..Cardinality(T) : a < b <=> <<order[a], order[b]>> \in R
<1> DEFINE Below(i) == {j \in T : <<j, i>> \in R}
           c == Cardinality(T)
           rank == [i \in T |-> Cardinality(Below(i)) + 1]
<1>1. c \in Nat
  BY FS_CardinalityType
<1>2. \A i \in T : IsFiniteSet(Below(i)) /\ Cardinality(Below(i)) \in Nat /\ Cardinality(Below(i)) < c
  <2> SUFFICES ASSUME NEW i \in T
               PROVE  IsFiniteSet(Below(i)) /\ Cardinality(Below(i)) \in Nat /\ Cardinality(Below(i)) < c
    OBVIOUS
  <2>1. Below(i) \in SUBSET T /\ Below(i) # T
    OBVIOUS
  <2> HIDE DEF Below
  <2>2. IsFiniteSet(Below(i)) /\ Cardinality(Below(i)) <= c /\ (c = Cardinality(Below(i)) => T = Below(i))
    BY <2>1, FS_Subset
  <2>3. Cardinality(Below(i)) \in Nat
    BY <2>2, FS_CardinalityType
  <2> QED
    BY <1>1, <2>1, <2>2, <2>3
<1>3. \A i, j \in T : <<i, j>> \in R => Cardinality(Below(i)) < Cardinality(Below(j))
  <2> SUFFICES ASSUME NEW i \in T, NEW j \in T, <<i, j>> \in R
               PROVE  Cardinality(Below(i)) < Cardinality(Below(j))
    OBVIOUS
  <2>1. Below(i) \in SUBSET Below(j) /\ i \in Below(j) /\ i \notin Below(i)
    OBVIOUS
  <2>2. IsFiniteSet(Below(j)) /\ Cardinality(Below(i)) \in Nat /\ Cardinality(Below(j)) \in Nat
    BY <1>2
  <2> HIDE DEF Below
  <2>3. Cardinality(Below(i)) <= Cardinality(Below(j))
        /\ (Cardinality(Below(j)) = Cardinality(Below(i)) => Below(j) = Below(i))
    BY <2>1, <2>2, FS_Subset
  <2> QED
    BY <2>1, <2>2, <2>3
<1> HIDE DEF Below
<1>4. rank \in [T -> 1..c]
  BY <1>1, <1>2
<1>5. \A i, j \in T : <<i, j>> \in R <=> rank[i] < rank[j]
  <2> SUFFICES ASSUME NEW i \in T, NEW j \in T PROVE <<i, j>> \in R <=> rank[i] < rank[j]
    OBVIOUS
  <2>1. <<i, j>> \in R => rank[i] < rank[j]
    BY <1>2, <1>3
  <2>2. <<j, i>> \in R => rank[j] < rank[i]
    BY <1>2, <1>3
  <2>3. rank[i] \in Nat /\ rank[j] \in Nat
    BY <1>1, <1>4
  <2> QED
    BY <2>1, <2>2, <2>3
<1> HIDE DEF rank
<1>6. rank \in Injection(T, 1..c)
  <2>1. ASSUME NEW i \in T, NEW j \in T, rank[i] = rank[j] PROVE i = j
    <3>1. rank[i] \in Nat /\ ~(rank[i] < rank[j]) /\ ~(rank[j] < rank[i])
      BY <1>1, <1>4, <2>1
    <3> QED
      BY <1>5, <3>1
  <2>2. DOMAIN rank = T
    BY <1>4
  <2> QED
    BY <1>4, <2>1, <2>2 DEF Injection, IsInjective
<1>7. rank \in Surjection(T, 1..c)
  <2>1. IsFiniteSet(1..c) /\ Cardinality(1..c) = c
    BY <1>1, FS_Interval
  <2> QED
    BY <1>6, <2>1, FS_Injection
<1> DEFINE order == [n \in 1..c |-> CHOOSE i \in T : rank[i] = n]
<1>8. \A n \in 1..c : order[n] \in T /\ rank[order[n]] = n
  BY <1>7 DEF Surjection
<1>9. order \in [1..c -> T]
  BY <1>8
<1> HIDE DEF order
<1>10. order \in SetToSeqs(T)
  <2>1. \A i, j \in 1..c : i # j => order[i] # order[j]
    BY <1>8
  <2> QED
    BY <1>9, <2>1 DEF SetToSeqs
<1>11. \A i \in T : \E n \in 1..c : order[n] = i
  <2> SUFFICES ASSUME NEW i \in T PROVE order[rank[i]] = i
    BY <1>4
  <2>1. rank[i] \in 1..c /\ order[rank[i]] \in T /\ rank[order[rank[i]]] = rank[i]
    BY <1>4, <1>8
  <2> QED
    BY <1>6, <2>1 DEF Injection, IsInjective
<1>12. \A a, b \in 1..c : a < b <=> <<order[a], order[b]>> \in R
  BY <1>5, <1>8
<1> QED
  BY <1>10, <1>11, <1>12

(* The sequences of a finite set hold each of its members. *)
LEMMA SeqsOfSet ==
  ASSUME NEW T, IsFiniteSet(T), NEW order \in SetToSeqs(T)
  PROVE  /\ order \in Seq(T) /\ Len(order) = Cardinality(T) /\ Len(order) \in Nat
         /\ DOMAIN order = 1..Len(order)
         /\ \A a, b \in DOMAIN order : order[a] = order[b] => a = b
         /\ \A n \in DOMAIN order : order[n] \in T
         /\ \A i \in T : \E n \in DOMAIN order : order[n] = i
<1> DEFINE c == Cardinality(T)
<1>1. c \in Nat
  BY FS_CardinalityType
<1>2. order \in [1..c -> T] /\ \A a, b \in 1..c : a # b => order[a] # order[b]
  BY DEF SetToSeqs
<1> HIDE DEF c
<1>3. order \in Seq(T) /\ Len(order) = c /\ DOMAIN order = 1..c
  BY <1>1, <1>2
<1>4. order \in Injection(1..c, T)
  BY <1>2, <1>3 DEF Injection, IsInjective
<1>5. order \in Surjection(1..c, T)
  <2>1. Cardinality(1..c) = c
    BY <1>1, FS_Interval
  <2> QED
    BY <1>4, <2>1, FS_Injection DEF c
<1> QED
  BY <1>1, <1>2, <1>3, <1>5 DEF Surjection, c

-----------------------------------------------------------------------------
(* Keys are independent: one order of the whole history is a way for each    *)
(* key, and a way for each key is one order of the whole history.            *)

(* When an operation of parse's returns: at its answer, or past the history. *)
LEMMA RetIsPast ==
  ASSUME Recorded, Parsed(ops), NEW i \in DOMAIN ops
  PROVE  /\ i \in 1..Infinity /\ Infinity \in Nat
         /\ i \in Completed => ops[i].ret \in EndedBy(i, "ok") /\ ops[i].ret \in 1..Infinity
         /\ i \notin Completed => i \in Indeterminate /\ Infinity < ops[i].ret
         /\ ops[i].ret \in Nat /\ i < ops[i].ret
<1>1. OpOK(ops, i) /\ Infinity \in Nat
  BY ParsedIsOK DEF OpsOK
<1>2. ASSUME i \in Completed PROVE ops[i].ret \in EndedBy(i, "ok") /\ ops[i].ret \in 1..Infinity
  <2>1. PICK a \in EndedBy(i, "ok") : TRUE
    BY <1>2 DEF Completed
  <2>2. ops[i].ret = a
    BY <1>2 DEF Parsed
  <2>3. a \in 1..Infinity
    BY DEF EndedBy, Recorded, Infinity
  <2> QED
    BY <2>2, <2>3
<1>3. ASSUME i \notin Completed PROVE i \in Indeterminate /\ Infinity < ops[i].ret
  <2>1. i \in Indeterminate
    BY <1>3 DEF Parsed
  <2>2. ops[i].ret = Infinity + i
    BY <2>1 DEF Parsed
  <2> QED
    BY <1>1, <2>1, <2>2 DEF OpOK
<1> QED
  BY <1>1, <1>2, <1>3 DEF OpOK

(* An order of the whole history is a way for each of its keys. *)
LEMMA KeysOfLinearizable ==
  ASSUME Recorded, Parsed(ops), IsLinearizable, NEW k \in Keys
  PROVE  Hopeful(ops, Infinity, k, {}, Absent)
<1>0. OpsOK(ops)
  BY ParsedIsOK
<1>1. PICK took \in SUBSET Indeterminate : \E order \in SetToSeqs(Completed \cup took) :
        RealTime(order) /\ Explains(order)
  BY DEF IsLinearizable
<1>2. PICK order \in SetToSeqs(Completed \cup took) : RealTime(order) /\ Explains(order)
  BY <1>1
<1> DEFINE All == Completed \cup took
           m == Len(order)
           S == Stores(order)
<1>3. All \subseteq DOMAIN ops /\ DOMAIN ops \subseteq 1..Infinity /\ Infinity \in Nat
  BY <1>0 DEF Parsed, OpsOK, OpOK
<1>4. IsFiniteSet(All)
  <2>1. IsFiniteSet(1..Infinity)
    BY <1>3, FS_Interval
  <2>2. All \in SUBSET (1..Infinity)
    BY <1>3
  <2> QED
    BY <2>1, <2>2, FS_Subset
<1>5. /\ order \in Seq(All) /\ m \in Nat /\ DOMAIN order = 1..m
      /\ \A a, b \in 1..m : order[a] = order[b] => a = b
      /\ \A n \in 1..m : order[n] \in All
      /\ \A i \in All : \E n \in 1..m : order[n] = i
  <2>1. order \in SetToSeqs(All)
    OBVIOUS
  <2> HIDE DEF All
  <2> QED
    BY <1>4, <2>1, SeqsOfSet
<1>6. OrderOf(order)
  <2>1. order \in Seq(DOMAIN ops)
    BY <1>3, <1>5, SeqMonotonic
  <2> QED
    BY <1>5, <2>1 DEF OrderOf
<1> HIDE DEF S, m
<1>7. /\ \A n \in 0..m : S[n] \in [Keys -> Values]
      /\ S[0][k] = Absent
      /\ \A n \in 1..m :
           /\ KeyAt(order, n) = k => S[n][k] = KvNext(S[n - 1][k], ops[order[n]])
           /\ KeyAt(order, n) # k => S[n][k] = S[n - 1][k]
  BY <1>6, StoreByStore DEF S, m
<1> DEFINE pos == [i \in All |-> CHOOSE n \in 1..m : order[n] = i]
           T == {i \in All : ops[i].op.key = k /\ KvTakes(S[pos[i] - 1][k], ops[i])}
           pt == [i \in T |-> pos[i]]
           before == [i \in T |-> S[pos[i] - 1][k]]
<1>8. \A i \in All : pos[i] \in 1..m /\ order[pos[i]] = i
  BY <1>5
<1>9. \A n \in 1..m : order[n] \in All /\ pos[order[n]] = n
  <2> SUFFICES ASSUME NEW n \in 1..m PROVE pos[order[n]] = n
    BY <1>5
  <2>1. order[n] \in All /\ pos[order[n]] \in 1..m /\ order[pos[order[n]]] = order[n]
    BY <1>5, <1>8
  <2> QED
    BY <1>5, <2>1
<1> HIDE DEF pos
<1>10. pos \in [All -> Nat]
  BY <1>5, <1>8 DEF pos
<1>11. ASSUME NEW i \in Completed PROVE KvTakes(S[pos[i] - 1][ops[i].op.key], ops[i])
  <2>1. PICK a \in EndedBy(i, "ok") : TRUE
    BY DEF Completed
  <2>2. pos[i] \in 1..m /\ order[pos[i]] = i
    BY <1>8
  <2>3. \A v \in history[a].said : MayAnswer(S[pos[i] - 1], i, v)
    BY <1>2, <1>5, <2>2 DEF Explains, S
  <2>4. S[pos[i] - 1] \in [Keys -> Values]
    BY <1>5, <1>7, <2>2
  <2> QED
    BY <2>3, <2>4, AnswersAreTaken
(* The store stays at k from one of T to the next. *)
<1>12. ASSUME NEW n \in 1..m, order[n] \notin T PROVE S[n][k] = S[n - 1][k]
  <2>1. order[n] \in All /\ pos[order[n]] = n
    BY <1>9
  <2>2. CASE KeyAt(order, n) # k
    BY <1>7, <2>2
  <2>3. CASE KeyAt(order, n) = k
    <3>1. ops[order[n]].op.key = k /\ ~KvTakes(S[n - 1][k], ops[order[n]])
      BY <1>12, <2>1, <2>3 DEF KeyAt
    <3>2. order[n] \in Indeterminate
      BY <1>11, <2>1, <3>1
    <3>3. KvNext(S[n - 1][k], ops[order[n]]) = S[n - 1][k]
      BY <1>0, <3>1, <3>2, NotTakenChangesNothing
    <3> QED
      BY <1>7, <2>3, <3>3
  <2> QED
    BY <2>2, <2>3
<1>13. ASSUME NEW a \in 0..m, NEW b \in 0..m, a <= b, \A n \in 1..m : a < n /\ n <= b => order[n] \notin T
       PROVE  S[b][k] = S[a][k]
  <2> DEFINE Bad == {n \in 0..m : a <= n /\ n <= b /\ S[n][k] # S[a][k]}
  <2> SUFFICES ASSUME Bad # {} PROVE FALSE
    BY <1>13
  <2>1. Bad \in SUBSET Nat
    BY <1>5
  <2>2. PICK n \in Bad : \A x \in Bad : n <= x
    BY <2>1, Least
  <2>3. n # a /\ n \in 1..m /\ n - 1 \in 0..m /\ a <= n - 1 /\ n - 1 <= b /\ n - 1 \notin Bad
    BY <1>5, <2>2
  <2>4. S[n - 1][k] = S[a][k]
    BY <2>3
  <2>5. order[n] \notin T
    BY <1>5, <1>13, <2>2, <2>3
  <2>6. S[n][k] = S[n - 1][k]
    BY <1>12, <2>3, <2>5
  <2> QED
    BY <2>2, <2>4, <2>6
<1>14. \A i \in T : i \in All /\ ops[i].op.key = k /\ KvTakes(S[pos[i] - 1][k], ops[i])
                    /\ pt[i] = pos[i] /\ before[i] = S[pos[i] - 1][k] /\ pos[i] \in 1..m /\ order[pos[i]] = i
  BY <1>8
<1>15. pt \in [T -> Nat]
  BY <1>10
<1>16. T \in SUBSET (Of(k, ops) \ {})
  BY <1>3, <1>14 DEF Of
<1>17. Covers(ops, Infinity, k, {}, T)
  <2> SUFFICES ASSUME NEW i \in Of(k, ops), ops[i].ret <= Infinity PROVE i \in T
    BY DEF Covers
  <2>1. i \in DOMAIN ops /\ ops[i].op.key = k
    BY DEF Of
  <2>2. i \in Completed
    <3>1. ops[i].ret \in Nat /\ Infinity \in Nat /\ (i \notin Completed => Infinity < ops[i].ret)
      BY <2>1, RetIsPast
    <3> QED
      BY <3>1
  <2> QED
    BY <1>11, <2>1, <2>2
<1> HIDE DEF T, pt, before
<1>18. Orders(T, pt)
  BY <1>14, <1>15 DEF Orders
<1>19. KeepsTime(ops, T, pt)
  <2> SUFFICES ASSUME NEW i \in T, NEW j \in T, ops[i].ret < j, ~(pt[i] < pt[j]) PROVE FALSE
    BY DEF KeepsTime
  <2>1. i \in DOMAIN ops /\ j \in DOMAIN ops /\ j \in 1..Infinity
    BY <1>3, <1>14
  <2>2. i \in Completed /\ ops[i].ret \in EndedBy(i, "ok") /\ i < ops[i].ret /\ ops[i].ret \in Nat
    BY <1>3, <2>1, RetIsPast
  <2>3. Before(i, j)
    BY <2>2 DEF Before
  <2>4. i # j
    BY <1>3, <2>1, <2>2
  <2>5. pos[i] \in 1..m /\ pos[j] \in 1..m /\ order[pos[i]] = i /\ order[pos[j]] = j /\ pos[j] < pos[i]
    BY <1>5, <1>14, <2>4
  <2> QED
    BY <1>2, <1>5, <2>3, <2>5 DEF RealTime
<1>20. ASSUME NEW j \in T, IsFirst(j, T, pt) PROVE before[j] = Absent
  <2>1. pos[j] \in 1..m /\ pos[j] - 1 \in 0..m /\ 0 \in 0..m /\ 0 <= pos[j] - 1
    BY <1>5, <1>14
  <2>2. ASSUME NEW n \in 1..m, n <= pos[j] - 1, order[n] \in T PROVE FALSE
    <3>1. pos[order[n]] = n /\ pt[order[n]] = n /\ pt[j] = pos[j]
      BY <1>9, <1>14, <2>2
    <3>2. pos[j] <= n
      BY <1>20, <2>2, <3>1 DEF IsFirst
    <3> QED
      BY <1>5, <2>1, <2>2, <3>2
  <2>3. S[pos[j] - 1][k] = S[0][k]
    BY <1>13, <2>1, <2>2
  <2> QED
    BY <1>7, <1>14, <2>3
<1>21. ASSUME NEW i \in T, NEW j \in T, IsNext(i, j, T, pt) PROVE before[j] = KvNext(before[i], ops[i])
  <2>1. pos[i] \in 1..m /\ pos[j] \in 1..m /\ pos[i] < pos[j] /\ order[pos[i]] = i /\ ops[i].op.key = k
    BY <1>14, <1>21 DEF IsNext
  <2>2. pos[i] \in 0..m /\ pos[j] - 1 \in 0..m /\ pos[i] <= pos[j] - 1
    BY <1>5, <2>1
  <2>3. ASSUME NEW n \in 1..m, pos[i] < n, n <= pos[j] - 1, order[n] \in T PROVE FALSE
    <3>1. pt[order[n]] = n /\ pt[i] = pos[i] /\ pt[j] = pos[j]
      BY <1>9, <1>14, <2>3
    <3>2. n < pos[j]
      BY <1>5, <2>1, <2>3
    <3> QED
      BY <1>21, <2>3, <3>1, <3>2 DEF IsNext
  <2>4. S[pos[j] - 1][k] = S[pos[i]][k]
    BY <1>13, <2>2, <2>3
  <2>5. S[pos[i]][k] = KvNext(S[pos[i] - 1][k], ops[i])
    BY <1>7, <2>1 DEF KeyAt
  <2> QED
    BY <1>14, <2>4, <2>5
<1>22. Finds(ops, T, pt, Absent, before)
  BY <1>14, <1>20, <1>21 DEF Finds
<1>23. IsAWay(ops, T, pt, Absent, before)
  BY <1>18, <1>19, <1>22 DEF IsAWay
<1> QED
  BY <1>16, <1>17, <1>23, Zenon DEF Hopeful

(* The ways of the keys, together: operations, those that completed among   *)
(* them, each with its number among those of its key and the value it finds. *)
SameKey(i, j) == ops[i].op.key = ops[j].op.key
Ways(All, pos, before) ==
  /\ Completed \subseteq All /\ All \subseteq DOMAIN ops /\ pos \in [All -> Nat]
  /\ \A i, j \in All :
       SameKey(i, j) => (pos[i] = pos[j] => i = j) /\ (ops[i].ret < j => pos[i] < pos[j])
  /\ \A j \in All :
       /\ KvTakes(before[j], ops[j])
       /\ (\A l \in All : SameKey(l, j) => pos[j] <= pos[l]) => before[j] = Absent
       /\ \A i \in All :
            SameKey(i, j) /\ pos[i] < pos[j]
            /\ (\A l \in All : SameKey(l, j) => ~(pos[i] < pos[l] /\ pos[l] < pos[j])) =>
              before[j] = KvNext(before[i], ops[i])

(* When each key has a way, one choice of them has what Ways says. *)
LEMMA WaysExist ==
  ASSUME Recorded, Parsed(ops), \A k \in Keys : Hopeful(ops, Infinity, k, {}, Absent)
  PROVE  \E All, pos, before : Ways(All, pos, before)
<1> DEFINE Way(T, k) ==
             T \in SUBSET Of(k, ops) /\ Covers(ops, Infinity, k, {}, T)
             /\ \E p, b : IsAWay(ops, T, p, Absent, b)
           TT == [k \in Keys |-> CHOOSE T : Way(T, k)]
           PP == [k \in Keys |-> CHOOSE p : \E b : IsAWay(ops, TT[k], p, Absent, b)]
           BB == [k \in Keys |-> CHOOSE b : IsAWay(ops, TT[k], PP[k], Absent, b)]
           All == UNION {TT[k] : k \in Keys}
           Key(i) == ops[i].op.key
           pos == [i \in All |-> PP[Key(i)][i]]
           before == [i \in All |-> BB[Key(i)][i]]
<1>1. ASSUME NEW k \in Keys
      PROVE  TT[k] \in SUBSET Of(k, ops) /\ Covers(ops, Infinity, k, {}, TT[k])
             /\ IsAWay(ops, TT[k], PP[k], Absent, BB[k])
  <2>1. PICK T \in SUBSET (Of(k, ops) \ {}) :
          Covers(ops, Infinity, k, {}, T) /\ \E p, b : IsAWay(ops, T, p, Absent, b)
    BY DEF Hopeful
  <2>2. Way(T, k)
    BY <2>1
  <2> HIDE DEF Way
  <2>3. Way(TT[k], k)
    BY <2>2
  <2> HIDE DEF TT
  <2>4. TT[k] \in SUBSET Of(k, ops) /\ Covers(ops, Infinity, k, {}, TT[k])
        /\ \E p, b : IsAWay(ops, TT[k], p, Absent, b)
    BY <2>3 DEF Way
  <2>5. \E b : IsAWay(ops, TT[k], PP[k], Absent, b)
    BY <2>4
  <2> HIDE DEF PP
  <2>6. IsAWay(ops, TT[k], PP[k], Absent, BB[k])
    BY <2>5
  <2> QED
    BY <2>4, <2>6
<1> HIDE DEF TT, PP, BB
<1>2. All \subseteq DOMAIN ops /\ \A i \in All : Key(i) \in Keys /\ i \in TT[Key(i)]
  BY <1>1 DEF Of
<1>3. \A k \in Keys : TT[k] \subseteq All
  OBVIOUS
<1>4. ASSUME NEW i \in All, NEW j \in All, SameKey(i, j)
      PROVE  Key(i) = Key(j) /\ i \in TT[Key(j)] /\ j \in TT[Key(j)] /\ Key(j) \in Keys
  BY <1>2, <1>4 DEF SameKey
<1>5. \A j \in All : \A l \in TT[Key(j)] : l \in All /\ SameKey(l, j)
  BY <1>1, <1>2, <1>3 DEF Of, SameKey
<1>6. ASSUME NEW i \in Completed PROVE i \in All
  <2>1. i \in DOMAIN ops /\ ops[i].ret <= Infinity
    <3>1. i \in DOMAIN ops
      BY DEF Parsed
    <3>2. ops[i].ret \in 1..Infinity
      BY <3>1, RetIsPast
    <3> QED
      BY <3>1, <3>2
  <2>2. Key(i) \in Keys
    BY <2>1, ParsedIsOK, OperationsAssumption DEF OpsOK, OpOK
  <2>3. i \in TT[Key(i)]
    BY <1>1, <2>1, <2>2 DEF Covers, Of
  <2> QED
    BY <1>3, <2>2, <2>3
<1> HIDE DEF All
<1>7. \A i \in All : pos[i] = PP[Key(i)][i] /\ before[i] = BB[Key(i)][i]
  OBVIOUS
<1>8. pos \in [All -> Nat]
  BY <1>1, <1>2 DEF IsAWay, Orders
<1> HIDE DEF pos, before
<1>9. ASSUME NEW i \in All, NEW j \in All, SameKey(i, j)
      PROVE  (pos[i] = pos[j] => i = j) /\ (ops[i].ret < j => pos[i] < pos[j])
  <2>1. Key(i) = Key(j) /\ i \in TT[Key(j)] /\ j \in TT[Key(j)] /\ Key(j) \in Keys
    BY <1>4, <1>9
  <2>2. pos[i] = PP[Key(j)][i] /\ pos[j] = PP[Key(j)][j]
    BY <1>7, <2>1
  <2>3. Orders(TT[Key(j)], PP[Key(j)]) /\ KeepsTime(ops, TT[Key(j)], PP[Key(j)])
    BY <1>1, <2>1 DEF IsAWay
  <2> QED
    BY <2>1, <2>2, <2>3 DEF Orders, KeepsTime
<1>10. ASSUME NEW j \in All
       PROVE  /\ KvTakes(before[j], ops[j])
              /\ (\A l \in All : SameKey(l, j) => pos[j] <= pos[l]) => before[j] = Absent
              /\ \A i \in All :
                   SameKey(i, j) /\ pos[i] < pos[j]
                   /\ (\A l \in All : SameKey(l, j) => ~(pos[i] < pos[l] /\ pos[l] < pos[j])) =>
                     before[j] = KvNext(before[i], ops[i])
  <2> DEFINE k == Key(j)
             T == TT[k]
             p == PP[k]
             b == BB[k]
  <2>1. k \in Keys /\ j \in T /\ IsAWay(ops, T, p, Absent, b)
    BY <1>1, <1>2
  <2>2. \A l \in T : l \in All /\ SameKey(l, j) /\ pos[l] = p[l] /\ before[l] = b[l]
    BY <1>5, <1>7 DEF SameKey
  <2>3. \A i \in All : SameKey(i, j) => i \in T
    BY <1>4
  <2> HIDE DEF k, T, p, b
  <2>4. /\ KvTakes(b[j], ops[j])
        /\ IsFirst(j, T, p) => b[j] = Absent
        /\ \A i \in T : IsNext(i, j, T, p) => b[j] = KvNext(b[i], ops[i])
    BY <2>1 DEF IsAWay, Finds
  <2>5. ASSUME \A l \in All : SameKey(l, j) => pos[j] <= pos[l] PROVE before[j] = Absent
    <3>1. IsFirst(j, T, p)
      BY <2>1, <2>2, <2>5 DEF IsFirst
    <3> QED
      BY <2>1, <2>2, <2>4, <3>1
  <2>6. ASSUME NEW i \in All, SameKey(i, j), pos[i] < pos[j],
               \A l \in All : SameKey(l, j) => ~(pos[i] < pos[l] /\ pos[l] < pos[j])
        PROVE  before[j] = KvNext(before[i], ops[i])
    <3>1. i \in T
      BY <2>3, <2>6
    <3>2. IsNext(i, j, T, p)
      BY <2>1, <2>2, <2>6, <3>1 DEF IsNext
    <3> QED
      BY <2>1, <2>2, <2>4, <3>1, <3>2
  <2> QED
    BY <2>1, <2>2, <2>4, <2>5, <2>6
<1>11. Ways(All, pos, before)
  BY <1>2, <1>6, <1>8, <1>9, <1>10 DEF Ways
<1> QED
  BY <1>11

(* Between two operations of a key the store keeps what is in it. *)
LEMMA KeyIsIdle ==
  ASSUME Recorded, Parsed(ops), NEW order, OrderOf(order), NEW k \in Keys,
         NEW a \in 0..Len(order), NEW b \in 0..Len(order), a <= b,
         \A n \in 1..Len(order) : a < n /\ n <= b => KeyAt(order, n) # k
  PROVE  Stores(order)[b][k] = Stores(order)[a][k]
<1> DEFINE S == Stores(order)
           m == Len(order)
           Bad == {n \in 0..m : a <= n /\ n <= b /\ S[n][k] # S[a][k]}
<1> SUFFICES ASSUME Bad # {} PROVE FALSE
  OBVIOUS
<1>1. m \in Nat
  BY DEF OrderOf
<1>2. \A n \in 1..m : KeyAt(order, n) # k => S[n][k] = S[n - 1][k]
  BY StoreByStore
<1> HIDE DEF S, m
<1>3. Bad \in SUBSET Nat
  BY <1>1
<1>4. PICK n \in Bad : \A x \in Bad : n <= x
  BY <1>3, Least
<1>5. a \in 0..m /\ b \in 0..m /\ \A x \in 1..m : a < x /\ x <= b => KeyAt(order, x) # k
  BY DEF m
<1>6. n # a /\ n \in 1..m /\ n - 1 \in 0..m /\ a <= n - 1 /\ n - 1 <= b /\ n - 1 \notin Bad /\ a < n
  BY <1>1, <1>4, <1>5
<1>7. S[n - 1][k] = S[a][k] /\ S[n][k] = S[n - 1][k]
  BY <1>2, <1>4, <1>5, <1>6
<1> QED
  BY <1>4, <1>7

(* An order of all of them in which each key keeps its own. *)
Follows(order, All, pos) ==
  /\ OrderOf(order)
  /\ \A n \in 1..Len(order) : order[n] \in All
  /\ \A i \in All : \E n \in 1..Len(order) : order[n] = i
  /\ \A a, b \in 1..Len(order) : a < b /\ SameKey(order[a], order[b]) => pos[order[a]] < pos[order[b]]

(* In the stores of such an order each operation finds what it should. *)
LEMMA WaysFindTheirStores ==
  ASSUME Recorded, Parsed(ops), NEW All, NEW pos, NEW before, Ways(All, pos, before),
         NEW order, Follows(order, All, pos)
  PROVE  \A c \in 1..Len(order) : Stores(order)[c - 1][KeyAt(order, c)] = before[order[c]]
<1> DEFINE S == Stores(order)
           m == Len(order)
           Bad == {n \in 1..m : S[n - 1][KeyAt(order, n)] # before[order[n]]}
<1> SUFFICES ASSUME Bad # {} PROVE FALSE
  OBVIOUS
<1>1. m \in Nat /\ OrderOf(order)
  BY DEF Follows, OrderOf
<1>2. /\ \A k \in Keys : S[0][k] = Absent
      /\ \A n \in 1..m : KeyAt(order, n) \in Keys
           /\ S[n][KeyAt(order, n)] = KvNext(S[n - 1][KeyAt(order, n)], ops[order[n]])
  BY <1>1, StoreByStore
<1>3. ASSUME NEW k \in Keys, NEW a \in 0..m, NEW b \in 0..m, a <= b,
             \A n \in 1..m : a < n /\ n <= b => KeyAt(order, n) # k
      PROVE  S[b][k] = S[a][k]
  BY <1>1, <1>3, KeyIsIdle
<1> HIDE DEF S, m
<1>4. PICK n \in Bad : \A x \in Bad : n <= x
  <2>1. Bad \in SUBSET Nat
    BY <1>1
  <2> QED
    BY <2>1, Least
<1> DEFINE i == order[n]
           k == KeyAt(order, n)
           Past == {x \in 1..(n - 1) : KeyAt(order, x) = k}
<1>5. n \in 1..m /\ n - 1 \in 0..m /\ i \in All /\ k \in Keys /\ 0 \in 0..m /\ 0 <= n - 1
  BY <1>1, <1>2, <1>4 DEF m, Follows
<1>6. S[n - 1][k] # before[i]
  BY <1>4
<1>7. pos \in [All -> Nat]
  BY DEF Ways
<1>8. \A l \in All : \E x \in 1..m : order[x] = l
  BY DEF m, Follows
<1>9. \A a, b \in 1..m : a < b /\ SameKey(order[a], order[b]) => pos[order[a]] < pos[order[b]]
  BY DEF m, Follows
<1>10. CASE Past = {}
  <2>1. S[n - 1][k] = S[0][k]
    <3>1. \A x \in 1..m : 0 < x /\ x <= n - 1 => KeyAt(order, x) # k
      BY <1>1, <1>5, <1>10
    <3> QED
      BY <1>3, <1>5, <3>1
  <2>2. ASSUME NEW l \in All, SameKey(l, i) PROVE pos[i] <= pos[l]
    <3>1. PICK x \in 1..m : order[x] = l
      BY <1>8
    <3>2. ~(x < n)
      <4>1. KeyAt(order, x) = k
        BY <2>2, <3>1 DEF KeyAt, SameKey
      <4> QED
        BY <1>1, <1>5, <1>10, <4>1
    <3>3. x = n \/ n < x
      BY <1>1, <1>5, <3>2
    <3>4. SameKey(i, l) /\ pos[i] \in Nat /\ pos[l] \in Nat
      BY <1>5, <1>7, <2>2 DEF SameKey
    <3>5. CASE x = n
      BY <3>1, <3>4, <3>5
    <3>6. CASE n < x
      <4>1. pos[order[n]] < pos[order[x]]
        BY <1>5, <1>9, <3>1, <3>4, <3>6
      <4> QED
        BY <3>1, <3>4, <4>1
    <3> QED
      BY <3>3, <3>5, <3>6
  <2>3. before[i] = Absent
    BY <1>5, <2>2 DEF Ways
  <2> QED
    BY <1>2, <1>5, <1>6, <2>1, <2>3
<1>11. CASE Past # {}
  <2>1. PICK x \in Past : \A y \in Past : y <= x
    <3>1. Past \in SUBSET Nat /\ n \in Nat /\ \A y \in Past : y <= n
      BY <1>1, <1>5
    <3> HIDE DEF Past
    <3> QED
      BY <1>11, <3>1, Greatest
  <2>2. x \in 1..m /\ x < n /\ x \in 0..m /\ x <= n - 1 /\ KeyAt(order, x) = k /\ x \notin Bad
    BY <1>1, <1>4, <1>5, <2>1
  <2>3. S[n - 1][k] = S[x][k]
    <3>1. \A y \in 1..m : x < y /\ y <= n - 1 => KeyAt(order, y) # k
      BY <1>1, <1>5, <2>1, <2>2
    <3> QED
      BY <1>3, <1>5, <2>2, <3>1
  <2>4. S[x][k] = KvNext(before[order[x]], ops[order[x]])
    <3>1. S[x - 1][k] = before[order[x]]
      BY <2>2
    <3> QED
      BY <1>2, <2>2, <3>1
  <2>5. SameKey(order[x], i) /\ order[x] \in All /\ pos[order[x]] < pos[i]
    <3>1. SameKey(order[x], i)
      BY <2>2 DEF KeyAt, SameKey
    <3> QED
      BY <1>5, <1>9, <2>2, <3>1 DEF m, Follows
  <2>6. ASSUME NEW l \in All, SameKey(l, i), pos[order[x]] < pos[l], pos[l] < pos[i] PROVE FALSE
    <3>1. PICK y \in 1..m : order[y] = l
      BY <1>8
    <3>2. KeyAt(order, y) = k /\ SameKey(i, l) /\ SameKey(l, order[x])
      BY <2>5, <2>6, <3>1 DEF KeyAt, SameKey
    <3>3. pos[l] \in Nat /\ pos[i] \in Nat /\ pos[order[x]] \in Nat
      BY <1>5, <1>7, <2>5
    <3>4. ~(n < y) /\ y # n
      BY <1>5, <1>9, <2>6, <3>1, <3>2, <3>3
    <3>5. ~(y < x) /\ y # x
      BY <1>9, <2>2, <2>6, <3>1, <3>2, <3>3
    <3>6. y \in Past /\ x < y
      BY <1>1, <1>5, <2>2, <3>2, <3>4, <3>5
    <3>7. x \in Nat /\ y \in Nat /\ y <= x
      BY <1>1, <2>1, <2>2, <3>6
    <3> QED
      BY <3>6, <3>7
  <2>7. before[i] = KvNext(before[order[x]], ops[order[x]])
    BY <1>5, <2>5, <2>6 DEF Ways
  <2> QED
    BY <1>6, <2>3, <2>4, <2>7
<1> QED
  BY <1>10, <1>11

(* The ways of the keys are one order of the history: an operation stands   *)
(* where the last invocation of those of its key up to it stands.            *)
LEMMA KeysMakeLinearizable ==
  ASSUME Recorded, Parsed(ops), \A k \in Keys : Hopeful(ops, Infinity, k, {}, Absent)
  PROVE  IsLinearizable
<1>1. PICK All, pos, before : Ways(All, pos, before)
  BY WaysExist
<1>2. Completed \subseteq All /\ All \subseteq DOMAIN ops /\ pos \in [All -> Nat]
  BY <1>1 DEF Ways
<1>3. \A i \in All : i \in Nat /\ i \in 1..Infinity /\ Infinity \in Nat
  BY <1>2, RetIsPast
<1>4. \A i, j \in All : SameKey(i, j) => (pos[i] = pos[j] => i = j) /\ (ops[i].ret < j => pos[i] < pos[j])
  BY <1>1 DEF Ways
<1> DEFINE UpTo(i) == {j \in All : SameKey(j, i) /\ pos[j] <= pos[i]}
           latest == [i \in All |-> CHOOSE j \in UpTo(i) : \A l \in UpTo(i) : l <= j]
<1>5. ASSUME NEW i \in All
      PROVE  latest[i] \in UpTo(i) /\ \A l \in UpTo(i) : l <= latest[i]
  <2>1. UpTo(i) \in SUBSET Nat /\ i \in UpTo(i) /\ \A l \in UpTo(i) : l <= Infinity
    BY <1>2, <1>3 DEF SameKey
  <2>2. Infinity \in Nat
    BY <1>3
  <2> HIDE DEF UpTo
  <2>3. \E j \in UpTo(i) : \A l \in UpTo(i) : l <= j
    BY <2>1, <2>2, Greatest
  <2> QED
    BY <2>3
<1> HIDE DEF latest
<1>6. \A i \in All : /\ latest[i] \in All /\ latest[i] \in Nat /\ i <= latest[i]
                     /\ SameKey(latest[i], i) /\ pos[latest[i]] <= pos[i]
                     /\ \A l \in All : SameKey(l, i) /\ pos[l] <= pos[i] => l <= latest[i]
  BY <1>2, <1>3, <1>5 DEF SameKey
<1> HIDE DEF UpTo
<1> DEFINE Sooner(i, j) == latest[i] < latest[j] \/ (latest[i] = latest[j] /\ pos[i] < pos[j])
           R == {ij \in All \X All : Sooner(ij[1], ij[2])}
<1>7. \A i, j \in All : <<i, j>> \in R <=> Sooner(i, j)
  OBVIOUS
<1>8. \A i \in All : latest[i] \in Nat /\ pos[i] \in Nat
  BY <1>2, <1>6
<1> HIDE DEF R
<1>9. \A i \in All : <<i, i>> \notin R
  BY <1>7, <1>8
<1>10. \A i, j, k \in All : <<i, j>> \in R /\ <<j, k>> \in R => <<i, k>> \in R
  BY <1>7, <1>8
<1>11. ASSUME NEW i \in All, NEW j \in All, i # j PROVE <<i, j>> \in R \/ <<j, i>> \in R
  <2>1. CASE latest[i] = latest[j]
    <3>1. SameKey(i, j)
      BY <1>6, <2>1 DEF SameKey
    <3>2. pos[i] # pos[j]
      BY <1>4, <1>11, <3>1
    <3> QED
      BY <1>7, <1>8, <2>1, <3>2
  <2>2. CASE latest[i] # latest[j]
    BY <1>7, <1>8, <2>2
  <2> QED
    BY <2>1, <2>2
<1>12. IsFiniteSet(All)
  <2>1. All \in SUBSET (1..Infinity)
    BY <1>3
  <2>2. CASE All = {}
    BY <2>2, FS_EmptySet
  <2>3. CASE All # {}
    <3>1. Infinity \in Nat
      BY <1>3, <2>3
    <3>2. IsFiniteSet(1..Infinity)
      BY <3>1, FS_Interval
    <3> QED
      BY <2>1, <3>2, FS_Subset
  <2> QED
    BY <2>2, <2>3
<1>13. PICK order \in SetToSeqs(All) :
         /\ \A i \in All : \E n \in 1..Cardinality(All) : order[n] = i
         /\ \A a, b \in 1..Cardinality(All) : a < b <=> <<order[a], order[b]>> \in R
  BY <1>9, <1>10, <1>11, <1>12, Sorted
<1> DEFINE m == Len(order)
<1>14. /\ order \in Seq(All) /\ m = Cardinality(All) /\ m \in Nat /\ DOMAIN order = 1..m
       /\ \A a, b \in 1..m : order[a] = order[b] => a = b
       /\ \A n \in 1..m : order[n] \in All
  BY <1>12, SeqsOfSet
<1> HIDE DEF m
<1>15. \A a, b \in 1..m : a < b <=> <<order[a], order[b]>> \in R
  BY <1>13, <1>14
<1>16. OrderOf(order)
  <2>1. order \in Seq(DOMAIN ops)
    BY <1>2, <1>14, SeqMonotonic
  <2> QED
    BY <1>14, <2>1 DEF OrderOf
(* Of one key, the order is that of its way. *)
<1>17. ASSUME NEW i \in All, NEW j \in All, SameKey(i, j), <<i, j>> \in R PROVE pos[i] < pos[j]
  <2> SUFFICES ASSUME ~(pos[i] < pos[j]) PROVE FALSE
    OBVIOUS
  <2>1. pos[j] <= pos[i] /\ pos[latest[j]] <= pos[i]
    <3>1. pos[latest[j]] \in Nat /\ pos[latest[j]] <= pos[j] /\ pos[i] \in Nat /\ pos[j] \in Nat
      BY <1>2, <1>6
    <3> QED
      BY <3>1
  <2>2. latest[j] \in All /\ SameKey(latest[j], i)
    BY <1>6, <1>17 DEF SameKey
  <2>3. latest[j] <= latest[i]
    BY <1>6, <2>1, <2>2
  <2> QED
    BY <1>7, <1>8, <1>17, <2>3
(* What returned before another was called stands before it. *)
<1>18. ASSUME NEW i \in All, NEW j \in All, ops[i].ret < j PROVE <<i, j>> \in R
  <2>1. latest[i] \in All /\ SameKey(i, latest[i]) /\ pos[latest[i]] <= pos[i] /\ latest[i] \in Nat
    BY <1>6 DEF SameKey
  <2>2. ~(ops[i].ret < latest[i])
    <3>1. pos[latest[i]] \in Nat /\ pos[i] \in Nat
      BY <1>2, <2>1
    <3> QED
      BY <1>4, <2>1, <3>1
  <2>3. ops[i].ret \in Nat /\ j \in Nat /\ latest[j] \in Nat /\ j <= latest[j]
    BY <1>2, <1>3, <1>6, RetIsPast
  <2>4. latest[i] < latest[j]
    BY <1>18, <2>1, <2>2, <2>3
  <2> QED
    BY <1>7, <2>4
<1>19. RealTime(order)
  <2> SUFFICES ASSUME NEW a \in 1..m, NEW b \in 1..m, a < b, Before(order[b], order[a]) PROVE FALSE
    BY <1>14 DEF RealTime
  <2>1. order[a] \in All /\ order[b] \in All
    BY <1>14
  <2>2. PICK x \in EndedBy(order[b], "ok") : x < order[a]
    BY DEF Before
  <2>3. order[b] \in Completed
    <3>1. order[b] \in Invokes(history)
      BY <1>2, <2>1 DEF Parsed, Completed, Indeterminate
    <3> QED
      BY <2>2, <3>1 DEF Completed
  <2>4. ops[order[b]].ret = x
    BY <2>2, <2>3 DEF Parsed
  <2>5. <<order[b], order[a]>> \in R
    BY <1>18, <2>1, <2>2, <2>4
  <2>6. b < a
    BY <1>15, <2>5
  <2> QED
    BY <1>14, <2>6
<1>20. \A n \in 1..m : Stores(order)[n - 1][KeyAt(order, n)] = before[order[n]]
  <2>1. \A a, b \in 1..m : a < b /\ SameKey(order[a], order[b]) => pos[order[a]] < pos[order[b]]
    BY <1>14, <1>15, <1>17
  <2>2. \A i \in All : \E x \in 1..m : order[x] = i
    BY <1>13, <1>14
  <2>3. Follows(order, All, pos)
    BY <1>14, <1>16, <2>1, <2>2 DEF Follows, m
  <2> QED
    BY <1>1, <2>3, WaysFindTheirStores DEF m
<1>21. Explains(order)
  <2> SUFFICES ASSUME NEW n \in 1..m, NEW a \in EndedBy(order[n], "ok")
               PROVE  \A v \in history[a].said : MayAnswer(Stores(order)[n - 1], order[n], v)
    BY <1>14 DEF Explains
  <2> DEFINE i == order[n]
             store == Stores(order)[n - 1]
  <2>1. i \in All /\ i \in DOMAIN ops
    BY <1>2, <1>14
  <2>2. i \in Completed
    BY <2>1 DEF Parsed, Completed, Indeterminate
  <2>3. store \in [Keys -> Values]
    <3>1. n - 1 \in 0..m
      BY <1>14
    <3> QED
      BY <1>16, <3>1, StoreByStore DEF m
  <2>4. KvTakes(store[ops[i].op.key], ops[i])
    <3>1. KvTakes(before[i], ops[i])
      BY <1>1, <2>1 DEF Ways
    <3> QED
      BY <1>20, <3>1 DEF KeyAt
  <2> HIDE DEF i, store
  <2>5. \A v \in history[a].said : MayAnswer(store, i, v)
    <3>1. a \in EndedBy(i, "ok")
      BY DEF i
    <3> QED
      BY <2>2, <2>3, <2>4, <3>1, AnswersAreTaken
  <2> QED
    BY <2>5 DEF i, store
<1> DEFINE took == All \ Completed
<1>22. took \in SUBSET Indeterminate /\ Completed \cup took = All
  BY <1>2 DEF Parsed
<1> HIDE DEF took
<1>23. order \in SetToSeqs(Completed \cup took)
  BY <1>13, <1>22
<1> QED
  BY <1>19, <1>21, <1>22, <1>23 DEF IsLinearizable

(* Linearizability is local: a history is linearizable exactly when every   *)
(* key of it has a way of its own.                                          *)
THEOREM LinearizabilityIsLocal ==
  ASSUME Recorded, Parsed(ops)
  PROVE  IsLinearizable <=> \A k \in Keys : Hopeful(ops, Infinity, k, {}, Absent)
BY KeysOfLinearizable, KeysMakeLinearizable

-----------------------------------------------------------------------------
(* The invariant of the checker.                                             *)

HasWay(k) == Hopeful(ops, Infinity, k, {}, Absent)

CheckStands ==
  /\ Recorded
  /\ key = 0 => verdict = "none" /\ ~gaveUp
  /\ key # 0 => key \in Keys /\ Parsed(ops)
  /\ Searching => SearchStands
  /\ key # 0 /\ ~gaveUp => \A k \in 1..(key - 1) : HasWay(k)
  /\ verdict = "linearizable" => \A k \in Keys : HasWay(k)
  /\ verdict = "violation" => \E k \in Keys : ~HasWay(k)

(* Before the first step nothing is recorded or searched. *)
LEMMA InitStands == Init => CheckStands
<1> SUFFICES ASSUME Init PROVE CheckStands
  OBVIOUS
<1>1. history = <<>> /\ key = 0 /\ verdict = "none" /\ gaveUp = FALSE
  BY DEF Init
<1>2. Recorded
  <2>1. history \in Seq(Entries) /\ DOMAIN history = {}
    BY <1>1, EmptySeq
  <2> QED
    BY <2>1 DEF Recorded, Answers
<1> QED
  BY <1>1, <1>2 DEF CheckStands, Searching

(* What is the same of the operations while a key is searched. *)
LEMMA OpsStay ==
  ASSUME UNCHANGED <<history, ops>>
  PROVE  /\ Infinity' = Infinity /\ (Parsed(ops) => Parsed(ops)')
         /\ \A k : HasWay(k)' <=> HasWay(k)
<1>1. history' = history /\ ops' = ops
  OBVIOUS
<1>2. Infinity' = Infinity
  BY <1>1 DEF Infinity
<1>3. Completed' = Completed /\ Indeterminate' = Indeterminate
      /\ \A i, kind : EndedBy(i, kind)' = EndedBy(i, kind)
  BY <1>1 DEF Completed, Indeterminate, EndedBy, Invokes, NextOfProcess
<1>4. Parsed(ops) => Parsed(ops)'
  BY <1>1, <1>2, <1>3 DEF Parsed
<1>5. \A k : HasWay(k)' <=> HasWay(k)
  BY <1>1, <1>2 DEF HasWay
<1> QED
  BY <1>2, <1>4, <1>5

(* The keys are searched from the first to the last. *)
LEMMA KeysOneByOne == 1 \in Keys /\ \A k \in Keys : k \in Nat /\ 1 <= k /\ (k + 1 \notin Keys => Keys = 1..k)
<1>1. Cardinality(Keys) \in Nat /\ Keys # {} /\ Keys = 1..Cardinality(Keys)
  BY KeysAssumption, FS_CardinalityType
<1> DEFINE n == Cardinality(Keys)
<1> HIDE DEF n
<1>2. n \in Nat /\ Keys # {} /\ Keys = 1..n
  BY <1>1 DEF n
<1>3. 1 <= n
  BY <1>2
<1>4. ASSUME NEW k \in Keys, k + 1 \notin Keys PROVE Keys = 1..k
  <2>1. k = n
    BY <1>2, <1>4
  <2> QED
    BY <1>2, <2>1
<1> QED
  BY <1>2, <1>3, <1>4

(* The check begins. *)
LEMMA CheckBegins ==
  ASSUME CheckStands, Check, Recorded'
  PROVE  CheckStands'
<1>1. /\ key = 0 /\ ops' = Parse(history) /\ Begin(1, Parse(history))
      /\ history' = history /\ gaveUp' = gaveUp /\ verdict' = verdict
  BY DEF Check
<1>2. verdict' = "none" /\ ~gaveUp' /\ key' = 1 /\ 1 \in Keys
  BY <1>1, KeysOneByOne DEF CheckStands, Begin
<1>3. PICK os : os = Parse(history)
  OBVIOUS
<1>4. Parsed(os) /\ OpsOK(os)
  BY <1>3, ParseIsRight, ParsedIsOK DEF CheckStands
<1>5. Infinity' = Infinity
  BY <1>1 DEF Infinity
<1>6. Parsed(ops)'
  <2>1. Completed' = Completed /\ Indeterminate' = Indeterminate
        /\ \A i, kind : EndedBy(i, kind)' = EndedBy(i, kind)
    BY <1>1 DEF Completed, Indeterminate, EndedBy, Invokes, NextOfProcess
  <2>2. ops' = os
    BY <1>1, <1>3
  <2> QED
    BY <1>1, <1>4, <1>5, <2>1, <2>2 DEF Parsed
<1>7. SearchStands'
  <2>1. Begin(1, os) /\ ops' = os
    BY <1>1, <1>3
  <2> QED
    BY <1>4, <1>5, <2>1, BeginStands
<1>8. \A k \in 1..(key' - 1) : FALSE
  BY <1>2
<1> QED
  BY <1>2, <1>6, <1>7, <1>8 DEF CheckStands

(* A search ends without a violation: with a way, or cut. *)
LEMMA NextKeyStands ==
  ASSUME CheckStands, Searching, NEW cut \in BOOLEAN, NextKey(cut), cut \/ HasWay(key), Recorded'
  PROVE  CheckStands'
<1>1. key \in Keys /\ Parsed(ops) /\ key # 0 /\ verdict = "none" /\ key \in Nat
  BY KeysOneByOne DEF CheckStands, Searching
<1>2. UNCHANGED <<history, ops>> /\ (gaveUp' <=> gaveUp \/ cut)
  BY DEF NextKey
<1>3. Infinity' = Infinity /\ Parsed(ops)' /\ \A k : HasWay(k)' <=> HasWay(k)
  BY <1>1, <1>2, OpsStay
<1>4. ~gaveUp' => \A k \in 1..key : HasWay(k)
  <2> SUFFICES ASSUME ~gaveUp', NEW k \in 1..key PROVE HasWay(k)
    OBVIOUS
  <2>1. ~gaveUp /\ HasWay(key)
    BY <1>2
  <2>2. k = key \/ k \in 1..(key - 1)
    BY <1>1
  <2> QED
    BY <1>1, <2>1, <2>2 DEF CheckStands
<1>5. CASE key + 1 \in Keys
  <2>1. Begin(key + 1, ops) /\ verdict' = verdict
    BY <1>5 DEF NextKey
  <2>2. key' = key + 1 /\ key' # 0 /\ key' \in Keys /\ key' - 1 = key
    BY <1>1, <1>5, <2>1 DEF Begin
  <2>3. SearchStands'
    <3>1. OpsOK(ops)
      BY <1>1, ParsedIsOK DEF CheckStands
    <3>2. PICK os, k : os = ops /\ k = key + 1
      OBVIOUS
    <3>3. Begin(k, os) /\ ops' = os /\ OpsOK(os)
      BY <1>2, <2>1, <3>1, <3>2
    <3> QED
      BY <1>3, <3>3, BeginStands
  <2>4. ~gaveUp' => \A k \in 1..(key' - 1) : HasWay(k)'
    BY <1>3, <1>4, <2>2
  <2> QED
    BY <1>1, <1>3, <2>1, <2>2, <2>3, <2>4 DEF CheckStands
<1>6. CASE key + 1 \notin Keys
  <2>1. verdict' = (IF gaveUp' THEN "unknown" ELSE "linearizable") /\ UNCHANGED search
    BY <1>6 DEF NextKey
  <2>2. Keys = 1..key /\ key' = key
    BY <1>1, <1>6, <2>1, KeysOneByOne DEF search
  <2>3. ~gaveUp' => \A k \in Keys : HasWay(k)'
    BY <1>3, <1>4, <2>2
  <2>4. ~Searching'
    BY <2>1 DEF Searching
  <2>5. \A k \in 1..(key' - 1) : k \in Keys
    BY <1>1, <2>2
  <2> QED
    BY <1>1, <1>3, <2>1, <2>2, <2>3, <2>4, <2>5 DEF CheckStands
<1> QED
  BY <1>5, <1>6

(* What the search is does not depend on anything else. *)
LEMMA SearchStays ==
  ASSUME SearchStands, UNCHANGED <<history, ops>>, UNCHANGED <<key, placed, state, entry, stack, memo>>
  PROVE  SearchStands'
<1>1. /\ history' = history /\ ops' = ops /\ key' = key /\ placed' = placed /\ state' = state
      /\ entry' = entry /\ stack' = stack /\ memo' = memo
  OBVIOUS
<1>2. Mine' = Mine /\ End' = End /\ Infinity' = Infinity /\ Top' = Top /\ Left' = Left
  BY <1>1 DEF Mine, End, Infinity, Top, Left
<1>3. \A j : Earlier(j)' = Earlier(j) /\ ValueAt(j)' = ValueAt(j) /\ CursorAt(j)' = CursorAt(j)
  BY <1>1 DEF Earlier, ValueAt, CursorAt
<1>4. SearchType'
  <2>1. Earlier(Top)' = Earlier(Top) /\ Times(Left, ops)' = Times(Left, ops)
    BY <1>1, <1>2 DEF Earlier, Times
  <2> QED
    BY <1>1, <1>2, <2>1 DEF SearchStands, SearchType
<1>5. Path'
  BY <1>1, <1>3 DEF SearchStands, Path
<1>6. LevelsStand'
  BY <1>1, <1>2, <1>3 DEF SearchStands, LevelsStand, NoneReturned, TriedAll, Hope
<1>7. MemoIsHopeless'
  BY <1>1, <1>2, <1>3 DEF SearchStands, MemoIsHopeless, Hope
<1> QED
  BY <1>4, <1>5, <1>6, <1>7 DEF SearchStands

(* The search of a key steps. *)
LEMMA StepStands ==
  ASSUME CheckStands, Place \/ Skip \/ Backtrack, Recorded'
  PROVE  CheckStands'
<1>1. Searching /\ UNCHANGED <<history, ops, key, gaveUp, verdict>>
  BY DEF Place, Skip, Backtrack, Steps
<1>2. key \in Keys /\ Parsed(ops) /\ key # 0 /\ verdict = "none" /\ SearchStands
  BY <1>1 DEF CheckStands, Searching
<1>3. OpsOK(ops)
  BY <1>2, ParsedIsOK DEF CheckStands
<1>4. SearchStands'
  BY <1>2, <1>3, PlaceStands, SkipStands, BacktrackStands
<1>5. Parsed(ops)' /\ \A k : HasWay(k)' <=> HasWay(k)
  BY <1>1, <1>2, OpsStay
<1>6. ~gaveUp' => \A k \in 1..(key' - 1) : HasWay(k)'
  BY <1>1, <1>2, <1>5 DEF CheckStands
<1> QED
  BY <1>1, <1>2, <1>4, <1>5, <1>6 DEF CheckStands

(* A search stuck with nothing placed: its key has no way. *)
LEMMA ViolationStands ==
  ASSUME CheckStands, Violation, Recorded'
  PROVE  CheckStands'
<1>1. /\ Searching /\ AtReturn /\ stack = <<>> /\ verdict' = "violation"
      /\ UNCHANGED <<history, ops, key, gaveUp>>
  BY DEF Violation, Steps, search
<1>2. key \in Keys /\ Parsed(ops) /\ key # 0 /\ SearchStands
  BY <1>1 DEF CheckStands, Searching
<1>3. OpsOK(ops)
  BY <1>2, ParsedIsOK DEF CheckStands
<1>4. ~Hope(placed, state)
  BY <1>1, <1>2, <1>3, StuckIsHopeless
<1>5. placed = {} /\ state = Absent
  <2>1. Len(stack) = 0 /\ Top = 1
    BY <1>1 DEF Top
  <2>2. Earlier(1) = {} /\ ValueAt(1) = state
    BY <2>1 DEF Earlier, ValueAt
  <2> QED
    BY <1>2, <2>1, <2>2 DEF SearchStands, SearchType, Path
<1>6. ~HasWay(key)
  BY <1>4, <1>5 DEF Hope, HasWay
<1>7. Parsed(ops)' /\ \A k : HasWay(k)' <=> HasWay(k)
  BY <1>1, <1>2, OpsStay
<1>8. ~gaveUp' => \A k \in 1..(key' - 1) : HasWay(k)'
  BY <1>1, <1>2, <1>7 DEF CheckStands
<1> QED
  BY <1>1, <1>2, <1>6, <1>7, <1>8 DEF CheckStands, Searching

(* Every step keeps the invariant. *)
LEMMA NextStands == CheckStands /\ [Next]_vars => CheckStands'
<1> SUFFICES ASSUME CheckStands, [Next]_vars PROVE CheckStands'
  OBVIOUS
<1>1. Recorded'
  BY AlwaysRecorded DEF CheckStands
<1>2. ASSUME key = 0, UNCHANGED <<ops, search, budget, gaveUp, verdict>> PROVE CheckStands'
  BY <1>1, <1>2 DEF CheckStands, Searching, search
<1>3. CASE \E p \in Processes, op \in Operations : Invoke(p, op)
  BY <1>2, <1>3 DEF Invoke
<1>4. CASE \E p \in Processes, kind \in {"ok", "fail", "info"} : Complete(p, kind)
  BY <1>2, <1>4 DEF Complete
<1>5. CASE Check
  BY <1>1, <1>5, CheckBegins
<1>6. ASSUME Searching PROVE SearchStands /\ OpsOK(ops) /\ (Left = {} \/ entry > Infinity => HasWay(key))
  <2>1. SearchStands /\ OpsOK(ops)
    BY <1>6, ParsedIsOK DEF CheckStands, Searching
  <2> QED
    BY <2>1, StackIsAWay DEF Hope, HasWay
<1>7. CASE AllPlaced
  <2>1. Searching /\ NextKey(FALSE) /\ HasWay(key)
    BY <1>6, <1>7 DEF AllPlaced
  <2> QED
    BY <1>1, <2>1, NextKeyStands
<1>8. CASE OutOfSteps
  <2>1. Searching /\ NextKey(TRUE)
    BY <1>8 DEF OutOfSteps
  <2> QED
    BY <1>1, <2>1, NextKeyStands
<1>9. CASE Explained
  <2>1. Searching /\ NextKey(FALSE) /\ HasWay(key)
    BY <1>6, <1>9 DEF Explained, Steps
  <2> QED
    BY <1>1, <2>1, NextKeyStands
<1>10. CASE Place \/ Skip \/ Backtrack
  BY <1>1, <1>10, StepStands
<1>11. CASE Violation
  BY <1>1, <1>11, ViolationStands
<1>12. CASE UNCHANGED vars
  <2>1. UNCHANGED <<history, ops>> /\ UNCHANGED <<key, placed, state, entry, stack, memo, gaveUp, verdict>>
    BY <1>12 DEF vars, search
  <2>2. (Parsed(ops) => Parsed(ops)') /\ \A k : HasWay(k)' <=> HasWay(k)
    BY <2>1, OpsStay
  <2>3. SearchStands => SearchStands'
    BY <2>1, SearchStays
  <2> QED
    BY <1>1, <2>1, <2>2, <2>3 DEF CheckStands, Searching
<1> QED
  BY <1>3, <1>4, <1>5, <1>7, <1>8, <1>9, <1>10, <1>11, <1>12 DEF Next

(* The invariant of the checker holds always. *)
LEMMA AlwaysStands == Spec => []CheckStands
<1>1. Init => CheckStands
  BY InitStands
<1>2. CheckStands /\ [Next]_vars => CheckStands'
  BY NextStands
<1> QED
  BY <1>1, <1>2, PTL DEF Spec

(* What parse hands to the search is what the history says: an operation    *)
(* for each invocation that completed or whose end is not known, with its   *)
(* own answer, and none for one that failed.                                *)
THEOREM TheHistoryIsReadRight == Spec => [](key # 0 => Parsed(ops))
<1>1. CheckStands => (key # 0 => Parsed(ops))
  BY DEF CheckStands
<1> QED
  BY <1>1, AlwaysStands, PTL

(* The checker never calls a history linearizable that no order explains,   *)
(* nor a violation one that an order does.                                  *)
THEOREM VerdictIsAlwaysRight == Spec => []VerdictIsRight
<1>1. CheckStands => VerdictIsRight
  <2> SUFFICES ASSUME CheckStands, verdict \in {"linearizable", "violation"} PROVE VerdictIsRight
    BY DEF VerdictIsRight
  <2>1. Recorded /\ Parsed(ops)
    BY DEF CheckStands
  <2>2. IsLinearizable <=> \A k \in Keys : HasWay(k)
    BY <2>1, LinearizabilityIsLocal DEF HasWay
  <2> QED
    BY <2>2 DEF CheckStands, VerdictIsRight
<1> QED
  BY <1>1, AlwaysStands, PTL
=============================================================================
