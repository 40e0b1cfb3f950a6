----------------------------- MODULE TaskProofs -----------------------------
(***************************************************************************)
(* Proofs about threads and tasks. The stall detector, for every number of *)
(* threads, waits and channels: the census is exact, and a sample nothing  *)
(* raced aborts the process only of a deadlock. The registry of spawned    *)
(* tasks, for every number of tasks, joiners and channels: every join of a *)
(* task answers what it ended with and finds its entry, and every watched  *)
(* channel is closed.                                                      *)
(***************************************************************************)
EXTENDS StallDetector, SpawnRegistry, FiniteSetTheorems, TLAPS

(* A step of the next-state relation is a step of one thread, the end of   *)
(* the process, or time.                                                   *)
LEMMA StepIsAction ==
  ASSUME Next,
         NEW P,
         ASSUME NEW t \in Threads, NEW u \in Threads, Spawn(t, u) PROVE P,
         ASSUME NEW t \in Threads, NEW s \in Scopes, NEW us \in SUBSET Threads,
                Fork(t, s, us) PROVE P,
         ASSUME NEW t \in Threads, LeaveCensus(t) PROVE P,
         ASSUME NEW t \in Threads, NEW c \in Channels, Send(t, c) \/ Close(t, c) PROVE P,
         ASSUME NEW t \in Threads, NEW w \in Waits, Park(t, w) PROVE P,
         ASSUME NEW t \in Threads, EnterCensus(t) \/ Exit(t) \/ Join(t) PROVE P,
         ASSUME NEW t \in Threads, Wake(t) \/ Unpark(t) \/ Bump(t) PROVE P,
         ASSUME NEW t \in Threads, TimeOut(t) \/ LoadGeneration(t) \/ LoadLive(t) \/ Decide(t)
           PROVE P,
         ASSUME ExitProcess \/ Elapse PROVE P
  PROVE  P
BY DEF Next, RuntimeStep, ProgramStep

(* The types are inductive. *)
LEMMA TypeInit == Init => TypeOK
BY ThreadsAssumption, CapacityAssumption, MaxWaitsAssumption
DEF Init, TypeOK, Labels, Updating, Waiting, Sampling, Waits, Nothing, None

LEMMA TypeStep == TypeOK /\ [Next]_vars => TypeOK'
<1> SUFFICES ASSUME TypeOK, [Next]_vars PROVE TypeOK'
  OBVIOUS
<1> USE ThreadsAssumption, ScopesAssumption, CapacityAssumption, MaxWaitsAssumption
    DEF TypeOK, registry, samples, program, Goto, UpdateRegistry, Labels, Updating,
        Waiting, Sampling
<1>1. CASE UNCHANGED vars
  BY <1>1 DEF vars
<1>2. CASE Next
  <2>1. ASSUME NEW t \in Threads, NEW u \in Threads, Spawn(t, u) PROVE TypeOK'
    BY <2>1 DEF Spawn
  <2>2. ASSUME NEW t \in Threads, NEW s \in Scopes, NEW us \in SUBSET Threads,
               Fork(t, s, us)
        PROVE  TypeOK'
    BY <2>2 DEF Fork
  <2>3. ASSUME NEW t \in Threads, LeaveCensus(t) PROVE TypeOK'
    BY <2>3 DEF LeaveCensus
  <2>4. ASSUME NEW t \in Threads, NEW c \in Channels, Send(t, c) \/ Close(t, c)
        PROVE  TypeOK'
    BY <2>4 DEF Send, Close
  <2>5. ASSUME NEW t \in Threads, NEW w \in Waits, Park(t, w) PROVE TypeOK'
    BY <2>5 DEF Park
  <2>6. ASSUME NEW t \in Threads, EnterCensus(t) \/ Exit(t) \/ Join(t) PROVE TypeOK'
    BY <2>6 DEF EnterCensus, Exit, Join
  <2>7. ASSUME NEW t \in Threads, Wake(t) \/ Unpark(t) \/ Bump(t) PROVE TypeOK'
    <3>1. CASE Wake(t)
      <4>1. queue' \in [Channels -> 0..Capacity]
        <5> DEFINE c == wait[t].chan
        <5>1. Satisfied(t)
          BY <3>1 DEF Wake
        <5>2. CASE wait[t].on = "recv" /\ queue[c] > 0
          <6>1. queue' = [queue EXCEPT ![c] = @ - 1]
            BY <3>1, <5>2 DEF Wake
          <6> HIDE DEF c
          <6>2. c \in Channels => queue[c] - 1 \in 0..Capacity
            BY <5>2
          <6> QED
            BY <6>1, <6>2
        <5>3. CASE wait[t].on = "send"
          <6>1. queue' = [queue EXCEPT ![c] = @ + 1]
            BY <3>1, <5>3 DEF Wake
          <6>2. queue[c] < Capacity
            BY <5>1, <5>3 DEF Satisfied
          <6> HIDE DEF c
          <6>3. c \in Channels => queue[c] + 1 \in 0..Capacity
            BY <6>2
          <6> QED
            BY <6>1, <6>3
        <5>4. CASE ~(wait[t].on = "recv" /\ queue[c] > 0) /\ wait[t].on # "send"
          BY <3>1, <5>4 DEF Wake
        <5> QED
          BY <5>2, <5>3, <5>4
      <4> QED
        BY <3>1, <4>1 DEF Wake, None
    <3>2. CASE Unpark(t)
      BY <3>2 DEF Unpark
    <3>3. CASE Bump(t)
      BY <3>3 DEF Bump
    <3> QED
      BY <2>7, <3>1, <3>2, <3>3
  <2>8. ASSUME NEW t \in Threads,
               TimeOut(t) \/ LoadGeneration(t) \/ LoadLive(t) \/ Decide(t)
        PROVE  TypeOK'
    <3>1. CASE TimeOut(t)
      BY <3>1 DEF TimeOut
    <3>2. CASE LoadGeneration(t)
      BY <3>2 DEF LoadGeneration
    <3>3. CASE LoadLive(t)
      BY <3>3 DEF LoadLive
    <3>4. CASE Decide(t)
      BY <3>4 DEF Decide, None
    <3> QED
      BY <2>8, <3>1, <3>2, <3>3, <3>4
  <2>9. ASSUME ExitProcess \/ Elapse PROVE TypeOK'
    BY <2>9 DEF ExitProcess, Elapse
  <2> QED
    BY <1>2, <2>1, <2>2, <2>3, <2>4, <2>5, <2>6, <2>7, <2>8, <2>9, StepIsAction
<1> QED
  BY <1>1, <1>2

(* Every variable of the detector and of the program it watches keeps its  *)
(* type; no channel holds fewer than none or more than its capacity.       *)
THEOREM TypeCorrect == Spec => []TypeOK
BY TypeInit, TypeStep, PTL DEF Spec

(* The guards are finitely many. *)
LEMMA GuardedFinite == IsFiniteSet(Guarded)
BY ThreadsAssumption, FS_Subset DEF Guarded

(* A step under which a thread keeps its side of the census, and the count *)
(* stays as it is.                                                         *)
LEMMA SameCensus ==
  ASSUME CensusExact, live' = live,
         \A t \in Threads :
           (InCensus(t) /\ pc[t] \notin Outside) <=> (InCensus(t) /\ pc[t] \notin Outside)'
  PROVE  CensusExact'
<1>1. Guarded' = Guarded
  BY DEF Guarded
<1> QED
  BY <1>1 DEF CensusExact

LEMMA CensusStep == TypeOK /\ CensusExact /\ [Next]_vars => CensusExact'
<1> SUFFICES ASSUME TypeOK, CensusExact, [Next]_vars PROVE CensusExact'
  OBVIOUS
<1> USE DEF TypeOK, registry, samples, program, Goto, Updating, Waiting, Sampling,
            InCensus, Outside
<1>1. CASE UNCHANGED vars
  BY <1>1, SameCensus DEF vars
<1>2. CASE Next
  <2>1. ASSUME NEW t \in Threads, NEW u \in Threads, Spawn(t, u) PROVE CensusExact'
    BY <2>1, SameCensus DEF Spawn
  <2>2. ASSUME NEW t \in Threads, NEW s \in Scopes, NEW us \in SUBSET Threads,
               Fork(t, s, us)
        PROVE  CensusExact'
    BY <2>2, SameCensus DEF Fork
  <2>3. ASSUME NEW t \in Threads, LeaveCensus(t) PROVE CensusExact'
    <3>1. CASE ~InCensus(t)
      BY <2>3, <3>1, SameCensus DEF LeaveCensus
    <3>2. CASE InCensus(t)
      <4>1. Guarded' = Guarded \ {t} /\ t \in Guarded
        BY <2>3, <3>2 DEF LeaveCensus, Guarded
      <4>2. Cardinality(Guarded \ {t}) = Cardinality(Guarded) - 1
        BY <4>1, GuardedFinite, FS_RemoveElement
      <4>3. live' = live - 1
        BY <2>3, <3>2 DEF LeaveCensus
      <4> QED
        BY <4>1, <4>2, <4>3 DEF CensusExact
    <3> QED
      BY <3>1, <3>2
  <2>4. ASSUME NEW t \in Threads, NEW c \in Channels, Send(t, c) \/ Close(t, c)
        PROVE  CensusExact'
    BY <2>4, SameCensus DEF Send, Close
  <2>5. ASSUME NEW t \in Threads, NEW w \in Waits, Park(t, w) PROVE CensusExact'
    BY <2>5, SameCensus DEF Park
  <2>6. ASSUME NEW t \in Threads, EnterCensus(t) \/ Exit(t) \/ Join(t)
        PROVE  CensusExact'
    <3>1. CASE EnterCensus(t) /\ InCensus(t)
      <4>1. Guarded' = Guarded \cup {t} /\ t \notin Guarded
        BY <3>1 DEF EnterCensus, Guarded
      <4>2. Cardinality(Guarded \cup {t}) = Cardinality(Guarded) + 1
        BY <4>1, GuardedFinite, FS_AddElement
      <4>3. live' = live + 1
        BY <3>1 DEF EnterCensus
      <4> QED
        BY <4>1, <4>2, <4>3 DEF CensusExact
    <3>2. CASE EnterCensus(t) /\ ~InCensus(t)
      BY <3>2, SameCensus DEF EnterCensus
    <3>3. CASE Exit(t)
      BY <3>3, SameCensus DEF Exit
    <3>4. CASE Join(t)
      BY <3>4, SameCensus DEF Join
    <3> QED
      BY <2>6, <3>1, <3>2, <3>3, <3>4
  <2>7. ASSUME NEW t \in Threads, Wake(t) \/ Unpark(t) \/ Bump(t) PROVE CensusExact'
    <3>1. CASE Wake(t)
      BY <3>1, SameCensus DEF Wake
    <3>2. CASE Unpark(t)
      BY <3>2, SameCensus DEF Unpark
    <3>3. CASE Bump(t)
      BY <3>3, SameCensus DEF Bump
    <3> QED
      BY <2>7, <3>1, <3>2, <3>3
  <2>8. ASSUME NEW t \in Threads,
               TimeOut(t) \/ LoadGeneration(t) \/ LoadLive(t) \/ Decide(t)
        PROVE  CensusExact'
    BY <2>8, SameCensus DEF TimeOut, LoadGeneration, LoadLive, Decide
  <2>9. ASSUME ExitProcess \/ Elapse PROVE CensusExact'
    BY <2>9, SameCensus DEF ExitProcess, Elapse
  <2> QED
    BY <1>2, <2>1, <2>2, <2>3, <2>4, <2>5, <2>6, <2>7, <2>8, <2>9, StepIsAction
<1> QED
  BY <1>1, <1>2

LEMMA CensusInit == Init => CensusExact
<1> SUFFICES ASSUME Init PROVE CensusExact
  OBVIOUS
<1>1. Guarded = {Main}
  BY ThreadsAssumption DEF Init, Guarded, InCensus, Outside
<1>2. Cardinality({Main}) = 1
  BY FS_Singleton
<1> QED
  BY <1>1, <1>2 DEF Init, CensusExact

(* The census counts the threads that hold a LiveGuard and no others, at   *)
(* every moment between the updates of the registry.                       *)
THEOREM CensusIsExact == Spec => []CensusExact
BY CensusInit, CensusStep, TypeCorrect, PTL DEF Spec

-----------------------------------------------------------------------------
(* The abort.  A thread is armed once a tick has passed since its last     *)
(* sample and no generation since.  When that tick passed, nothing of the  *)
(* runtime was under way: every thread was waiting for another, or busy    *)
(* with the program.  What is busy stays so until a bump, which disarms    *)
(* every sample; so an armed thread sees a deadlock or somebody busy, and  *)
(* its census and its parked threads agree only if nobody is.              *)

Armed(t) == lastGen[t] = gen /\ (t \in due \/ pc[t] \in Sampling)
Busy(t) == pc[t] \in Updating \cup {"run", "scope"}

(* What an unraced sample has loaded is still so. *)
Fresh(t) ==
  pc[t] \in Sampling /\ t \notin raced =>
    /\ \A u \in Threads : pc[u] \notin Updating
    /\ pc[t] # "tick" => sampleGen[t] = gen
    /\ pc[t] = "decide" => sampleLive[t] = live

ParkedExact ==
  \A t \in Threads : t \in parked <=> pc[t] \in Waiting \cup {"entered", "woken"}
DueWait == \A t \in due : pc[t] = "wait"
GensBehind == \A t \in Threads : lastGen[t] <= gen /\ sampleGen[t] <= gen
ArmedSees == \A t \in Threads : Armed(t) => Deadlock \/ \E u \in Threads : Busy(u)
AllFresh == process = "running" => \A t \in Threads : Fresh(t)
AllCounted == \A t \in Threads : InCensus(t)

Still ==
  /\ AllCounted /\ ParkedExact /\ DueWait /\ GensBehind
  /\ ArmedSees /\ AllFresh
  /\ UnracedAbortIsDeadlock

LEMMA StillInit == Init => Still
BY ThreadsAssumption
DEF Init, Still, AllCounted, InCensus, ParkedExact, DueWait, GensBehind, ArmedSees, Armed,
    AllFresh, Fresh, UnracedAbortIsDeadlock, Waiting, Sampling, Updating, None

(* Who is in the census: without par_map, everyone that has a guard. *)
LEMMA CountedStep ==
  ASSUME "map" \notin Scopes, TypeOK, AllCounted, Next
  PROVE  AllCounted'
<1>1. ASSUME NEW t \in Threads, NEW u \in Threads, Spawn(t, u) PROVE AllCounted'
  BY <1>1 DEF Spawn, TypeOK, AllCounted, InCensus
<1>2. ASSUME NEW t \in Threads, NEW s \in Scopes, NEW us \in SUBSET Threads, Fork(t, s, us)
      PROVE  AllCounted'
  BY <1>2 DEF Fork, TypeOK, AllCounted, InCensus
<1>3. ASSUME kind' = kind PROVE AllCounted'
  BY <1>3 DEF AllCounted, InCensus
<1> QED
  BY <1>1, <1>2, <1>3, StepIsAction
  DEF LeaveCensus, Send, Close, Park, EnterCensus, Exit, Join, Wake, Unpark, Bump, TimeOut,
      LoadGeneration, LoadLive, Decide, ExitProcess, Elapse, program

LEMMA ParkedStep ==
  ASSUME TypeOK, ParkedExact, Next
  PROVE  ParkedExact'
<1> USE DEF TypeOK, ParkedExact, Waiting, Sampling, Updating, Goto, registry
<1>1. ASSUME NEW t \in Threads, NEW u \in Threads, Spawn(t, u) PROVE ParkedExact'
  BY <1>1 DEF Spawn
<1>2. ASSUME NEW t \in Threads, NEW s \in Scopes, NEW us \in SUBSET Threads, Fork(t, s, us)
      PROVE  ParkedExact'
  BY <1>2 DEF Fork
<1>3. ASSUME NEW t \in Threads, LeaveCensus(t) PROVE ParkedExact'
  BY <1>3 DEF LeaveCensus
<1>4. ASSUME NEW t \in Threads, NEW c \in Channels, Send(t, c) \/ Close(t, c)
      PROVE  ParkedExact'
  BY <1>4 DEF Send, Close
<1>5. ASSUME NEW t \in Threads, NEW w \in Waits, Park(t, w) PROVE ParkedExact'
  BY <1>5 DEF Park
<1>6. ASSUME NEW t \in Threads, EnterCensus(t) \/ Exit(t) \/ Join(t) PROVE ParkedExact'
  BY <1>6 DEF EnterCensus, Exit, Join
<1>7. ASSUME NEW t \in Threads, Wake(t) \/ Unpark(t) \/ Bump(t) PROVE ParkedExact'
  BY <1>7 DEF Wake, Unpark, Bump
<1>8. ASSUME NEW t \in Threads, TimeOut(t) \/ LoadGeneration(t) \/ LoadLive(t) \/ Decide(t)
      PROVE  ParkedExact'
  BY <1>8 DEF TimeOut, LoadGeneration, LoadLive, Decide
<1>9. ASSUME ExitProcess \/ Elapse PROVE ParkedExact'
  BY <1>9 DEF ExitProcess, Elapse
<1> QED
  BY <1>1, <1>2, <1>3, <1>4, <1>5, <1>6, <1>7, <1>8, <1>9, StepIsAction

LEMMA DueStep ==
  ASSUME TypeOK, DueWait, Next
  PROVE  DueWait'
<1> USE DEF TypeOK, DueWait, Waiting, Sampling, Updating, Goto, samples
<1>1. ASSUME NEW t \in Threads, NEW u \in Threads, Spawn(t, u) PROVE DueWait'
  BY <1>1 DEF Spawn
<1>2. ASSUME NEW t \in Threads, NEW s \in Scopes, NEW us \in SUBSET Threads, Fork(t, s, us)
      PROVE  DueWait'
  BY <1>2 DEF Fork
<1>3. ASSUME NEW t \in Threads, LeaveCensus(t) PROVE DueWait'
  BY <1>3 DEF LeaveCensus
<1>4. ASSUME NEW t \in Threads, NEW c \in Channels, Send(t, c) \/ Close(t, c)
      PROVE  DueWait'
  BY <1>4 DEF Send, Close
<1>5. ASSUME NEW t \in Threads, NEW w \in Waits, Park(t, w) PROVE DueWait'
  BY <1>5 DEF Park
<1>6. ASSUME NEW t \in Threads, EnterCensus(t) \/ Exit(t) \/ Join(t) PROVE DueWait'
  BY <1>6 DEF EnterCensus, Exit, Join
<1>7. ASSUME NEW t \in Threads, Wake(t) \/ Unpark(t) \/ Bump(t) PROVE DueWait'
  BY <1>7 DEF Wake, Unpark, Bump
<1>8. ASSUME NEW t \in Threads, TimeOut(t) \/ LoadGeneration(t) \/ LoadLive(t) \/ Decide(t)
      PROVE  DueWait'
  BY <1>8 DEF TimeOut, LoadGeneration, LoadLive, Decide
<1>9. ASSUME ExitProcess \/ Elapse PROVE DueWait'
  BY <1>9 DEF ExitProcess, Elapse
<1> QED
  BY <1>1, <1>2, <1>3, <1>4, <1>5, <1>6, <1>7, <1>8, <1>9, StepIsAction

(* The generation only grows, and the samples load it. *)
LEMMA GenStep ==
  ASSUME TypeOK, GensBehind, Next
  PROVE  GensBehind'
<1> USE DEF TypeOK, GensBehind, None
<1>1. ASSUME NEW t \in Threads, Bump(t) PROVE GensBehind'
  BY <1>1 DEF Bump, samples
<1>2. ASSUME NEW t \in Threads, Wake(t) PROVE GensBehind'
  BY <1>2 DEF Wake, registry
<1>3. ASSUME NEW t \in Threads, LoadGeneration(t) \/ LoadLive(t) \/ Decide(t) PROVE GensBehind'
  BY <1>3 DEF LoadGeneration, LoadLive, Decide, registry
<1>4. ASSUME UNCHANGED <<gen, lastGen, sampleGen>> PROVE GensBehind'
  BY <1>4
<1> QED
  BY <1>1, <1>2, <1>3, <1>4, StepIsAction
  DEF Spawn, Fork, LeaveCensus, Send, Close, Park, EnterCensus, Exit, Join, Unpark, TimeOut,
      ExitProcess, Elapse, registry, samples

(* A busy thread stays busy until it bumps the generation. *)
LEMMA BusyStays ==
  ASSUME TypeOK, AllCounted, Next, gen' = gen, NEW u \in Threads, Busy(u)
  PROVE  Busy(u)'
<1> USE DEF TypeOK, AllCounted, Busy, Waiting, Sampling, Updating, Goto, registry
<1>1. ASSUME NEW t \in Threads, NEW v \in Threads, Spawn(t, v) PROVE Busy(u)'
  BY <1>1 DEF Spawn
<1>2. ASSUME NEW t \in Threads, NEW s \in Scopes, NEW us \in SUBSET Threads, Fork(t, s, us)
      PROVE  Busy(u)'
  BY <1>2 DEF Fork
<1>3. ASSUME NEW t \in Threads, LeaveCensus(t) PROVE Busy(u)'
  BY <1>3 DEF LeaveCensus
<1>4. ASSUME NEW t \in Threads, NEW c \in Channels, Send(t, c) \/ Close(t, c) PROVE Busy(u)'
  BY <1>4 DEF Send, Close
<1>5. ASSUME NEW t \in Threads, NEW w \in Waits, Park(t, w) PROVE Busy(u)'
  BY <1>5 DEF Park
<1>6. ASSUME NEW t \in Threads, EnterCensus(t) \/ Exit(t) \/ Join(t) PROVE Busy(u)'
  BY <1>6 DEF EnterCensus, Exit, Join
<1>7. ASSUME NEW t \in Threads, Wake(t) \/ Unpark(t) \/ Bump(t) PROVE Busy(u)'
  BY <1>7 DEF Wake, Unpark, Bump
<1>8. ASSUME NEW t \in Threads, TimeOut(t) \/ LoadGeneration(t) \/ LoadLive(t) \/ Decide(t)
      PROVE  Busy(u)'
  BY <1>8 DEF TimeOut, LoadGeneration, LoadLive, Decide
<1>9. ASSUME ExitProcess \/ Elapse PROVE Busy(u)'
  BY <1>9 DEF ExitProcess, Elapse
<1> QED
  BY <1>1, <1>2, <1>3, <1>4, <1>5, <1>6, <1>7, <1>8, <1>9, StepIsAction

(* In a deadlock there are no steps but those of the samples, and they     *)
(* change nothing a thread waits for.                                      *)
LEMMA SameWaits ==
  ASSUME TypeOK, Deadlock, UNCHANGED <<wait, queue, closed, workers>>,
         \A t \in Threads : pc'[t] = pc[t] \/ (pc[t] \in Waiting /\ pc'[t] \in Waiting)
  PROVE  Deadlock'
<1> SUFFICES ASSUME NEW t \in Threads PROVE pc'[t] \in {"unborn", "exited"} \/ Stuck(t)'
  BY DEF Deadlock
<1>1. pc[t] \in {"unborn", "exited"} \/ Stuck(t)
  BY DEF Deadlock
<1>2. \A u \in Threads : pc'[u] = "exited" <=> pc[u] = "exited"
  BY DEF Waiting, Sampling
<1>3. CASE pc[t] \in {"unborn", "exited"}
  BY <1>3 DEF Waiting, Sampling
<1>4. CASE pc[t] \in Waiting /\ ~Satisfied(t)
  <2>1. wait[t].on = "join" => wait[t].task \in Threads
    BY DEF TypeOK, Waits, Nothing
  <2>2. ~Satisfied(t)'
    BY <1>2, <1>4, <2>1 DEF Satisfied
  <2>3. pc'[t] \in Waiting
    BY <1>4
  <2> QED
    BY <2>2, <2>3 DEF Stuck
<1>5. CASE pc[t] = "scope" /\ ~ScopeJoined(t)
  <2>1. workers[t] \subseteq Threads
    BY DEF TypeOK
  <2>2. ~ScopeJoined(t)'
    BY <1>2, <1>5, <2>1 DEF ScopeJoined
  <2>3. pc'[t] = "scope"
    BY <1>5 DEF Waiting, Sampling
  <2> QED
    BY <2>2, <2>3 DEF Stuck
<1> QED
  BY <1>1, <1>3, <1>4, <1>5 DEF Stuck

LEMMA DeadlockStays ==
  ASSUME TypeOK, Deadlock, Next
  PROVE  Deadlock'
<1> DEFINE Halted(t) == pc[t] \in {"unborn", "exited", "scope"} \cup Waiting
<1>1. \A t \in Threads : Halted(t)
  BY DEF Deadlock, Stuck
<1>2. \A t \in Threads : /\ pc[t] = "wait" => ~Satisfied(t)
                         /\ pc[t] = "scope" => ~ScopeJoined(t)
  BY DEF Deadlock, Stuck, Waiting, Sampling
<1> USE DEF Waiting, Sampling, Updating
<1>3. ASSUME NEW t \in Threads, NEW u \in Threads, Spawn(t, u) PROVE Deadlock'
  BY <1>1, <1>3 DEF Spawn
<1>4. ASSUME NEW t \in Threads, NEW s \in Scopes, NEW us \in SUBSET Threads, Fork(t, s, us)
      PROVE  Deadlock'
  BY <1>1, <1>4 DEF Fork
<1>5. ASSUME NEW t \in Threads, LeaveCensus(t) PROVE Deadlock'
  BY <1>1, <1>5 DEF LeaveCensus
<1>6. ASSUME NEW t \in Threads, NEW c \in Channels, Send(t, c) \/ Close(t, c) PROVE Deadlock'
  BY <1>1, <1>6 DEF Send, Close
<1>7. ASSUME NEW t \in Threads, NEW w \in Waits, Park(t, w) PROVE Deadlock'
  BY <1>1, <1>7 DEF Park
<1>8. ASSUME NEW t \in Threads, EnterCensus(t) \/ Exit(t) \/ Join(t) PROVE Deadlock'
  BY <1>1, <1>2, <1>8 DEF EnterCensus, Exit, Join
<1>9. ASSUME NEW t \in Threads, Wake(t) \/ Unpark(t) \/ Bump(t) PROVE Deadlock'
  BY <1>1, <1>2, <1>9 DEF Wake, Unpark, Bump
<1>10. ASSUME NEW t \in Threads, TimeOut(t) \/ LoadGeneration(t) \/ LoadLive(t) \/ Decide(t)
       PROVE  Deadlock'
  <2>1. UNCHANGED <<wait, queue, closed, workers>>
    BY <1>10 DEF TimeOut, LoadGeneration, LoadLive, Decide, program
  <2>2. \A u \in Threads : pc'[u] = pc[u] \/ (pc[u] \in Waiting /\ pc'[u] \in Waiting)
    BY <1>10 DEF TimeOut, LoadGeneration, LoadLive, Decide, Goto, TypeOK
  <2> HIDE DEF Waiting
  <2> QED
    BY <2>1, <2>2, SameWaits
<1>11. ASSUME ExitProcess \/ Elapse PROVE Deadlock'
  <2>1. UNCHANGED <<wait, queue, closed, workers, pc>>
    BY <1>11 DEF ExitProcess, Elapse, program
  <2> QED
    BY <2>1, SameWaits
<1> QED
  BY <1>3, <1>4, <1>5, <1>6, <1>7, <1>8, <1>9, <1>10, <1>11, StepIsAction

(* A tick passes only when nothing of the runtime is pending: what is not  *)
(* busy then waits for another thread.                                     *)
LEMMA TickSees ==
  ASSUME TypeOK, Elapse
  PROVE  Deadlock' \/ \E u \in Threads : Busy(u)'
<1> SUFFICES ASSUME ~\E u \in Threads : Busy(u)' PROVE Deadlock'
  OBVIOUS
<1>1. \A u \in Threads : pc[u] \in {"unborn", "exited"} \/ Stuck(u)
  BY DEF Elapse, Urgent, Busy, TypeOK, Labels, Stuck, Waiting
<1> QED
  BY <1>1 DEF Elapse, Deadlock, Stuck, Satisfied, ScopeJoined, program

LEMMA ArmedStep ==
  ASSUME TypeOK, AllCounted, DueWait, GensBehind, ArmedSees, Next
  PROVE  ArmedSees'
<1>1. CASE gen' # gen
  <2>1. ASSUME NEW s \in Threads, Bump(s) PROVE ArmedSees'
    BY <2>1 DEF Bump, ArmedSees, Armed, GensBehind, TypeOK, samples, None
  <2>2. ASSUME gen' = gen PROVE ArmedSees'
    BY <1>1, <2>2
  <2> QED
    BY <2>1, <2>2, StepIsAction
    DEF Spawn, Fork, LeaveCensus, Send, Close, Park, EnterCensus, Exit, Join, Wake, Unpark,
        TimeOut, LoadGeneration, LoadLive, Decide, ExitProcess, Elapse, registry
<1>2. CASE Elapse
  BY <1>2, TickSees DEF ArmedSees
<1>3. CASE gen' = gen /\ ~Elapse
  <2>1. ASSUME NEW t \in Threads, Armed(t)' PROVE Armed(t)
    <3> USE DEF TypeOK, Armed, DueWait, Sampling, Goto
    <3>1. ASSUME NEW s \in Threads, TimeOut(s) PROVE Armed(t)
      BY <2>1, <3>1 DEF TimeOut, samples, registry
    <3>2. ASSUME NEW s \in Threads, LoadGeneration(s) \/ LoadLive(s) PROVE Armed(t)
      BY <2>1, <3>2 DEF LoadGeneration, LoadLive, registry
    <3>3. ASSUME NEW s \in Threads, Decide(s) PROVE Armed(t)
      BY <2>1, <3>3 DEF Decide, registry
    <3>4. ASSUME NEW s \in Threads, Wake(s) PROVE Armed(t)
      BY <2>1, <3>4 DEF Wake, registry, None
    <3>5. ASSUME lastGen' = lastGen, due' = due, pc'[t] \in Sampling => pc'[t] = pc[t]
          PROVE  Armed(t)
      BY <1>3, <2>1, <3>5
    <3>6. ASSUME NEW s \in Threads, NEW c \in Channels, Send(s, c) \/ Close(s, c) PROVE Armed(t)
      BY <3>5, <3>6 DEF Send, Close, samples
    <3>7. ASSUME NEW s \in Threads, NEW u \in Threads, Spawn(s, u) PROVE Armed(t)
      BY <3>5, <3>7 DEF Spawn, samples
    <3>8. ASSUME NEW s \in Threads, NEW f \in Scopes, NEW us \in SUBSET Threads, Fork(s, f, us)
          PROVE  Armed(t)
      BY <3>5, <3>8 DEF Fork, samples
    <3>9. ASSUME NEW s \in Threads, NEW w \in Waits, Park(s, w) PROVE Armed(t)
      BY <3>5, <3>9 DEF Park, samples
    <3>10. ASSUME NEW s \in Threads,
                  EnterCensus(s) \/ Exit(s) \/ Join(s) \/ Unpark(s) \/ Bump(s) \/ LeaveCensus(s)
           PROVE  Armed(t)
      BY <3>5, <3>10 DEF EnterCensus, Exit, Join, Unpark, Bump, LeaveCensus, samples, Updating
    <3>11. ASSUME ExitProcess PROVE Armed(t)
      BY <3>5, <3>11 DEF ExitProcess, samples
    <3> QED
      BY <1>3, <3>1, <3>2, <3>3, <3>4, <3>6, <3>7, <3>8, <3>9, <3>10, <3>11, StepIsAction
  <2>2. ASSUME NEW t \in Threads, Armed(t)' PROVE Deadlock' \/ \E u \in Threads : Busy(u)'
    BY <1>3, <2>1, <2>2, BusyStays, DeadlockStays DEF ArmedSees
  <2> QED
    BY <2>2 DEF ArmedSees
<1> QED
  BY <1>1, <1>2, <1>3

(* What a sample loaded stays so until it decides, unless an update        *)
(* overlaps it.                                                            *)
LEMMA FreshStep ==
  ASSUME TypeOK, AllCounted, AllFresh, Next
  PROVE  AllFresh'
<1> SUFFICES ASSUME process' = "running", NEW t \in Threads,
                    pc'[t] \in Sampling, t \notin raced'
             PROVE  /\ \A u \in Threads : pc'[u] \notin Updating
                    /\ pc'[t] # "tick" => sampleGen'[t] = gen'
                    /\ pc'[t] = "decide" => sampleLive'[t] = live'
  BY DEF AllFresh, Fresh
<1>1. Fresh(t)
  BY DEF AllFresh, Next
<1> DEFINE Goal == /\ \A u \in Threads : pc'[u] \notin Updating
                   /\ pc'[t] # "tick" => sampleGen'[t] = gen'
                   /\ pc'[t] = "decide" => sampleLive'[t] = live'
<1> USE DEF TypeOK, AllCounted, Fresh, Sampling, Updating, Goto, UpdateRegistry, registry, samples
<1>2. ASSUME NEW s \in Threads, NEW u \in Threads, Spawn(s, u) PROVE Goal
  BY <1>1, <1>2 DEF Spawn
<1>3. ASSUME NEW s \in Threads, NEW f \in Scopes, NEW us \in SUBSET Threads, Fork(s, f, us)
      PROVE  Goal
  BY <1>1, <1>3 DEF Fork
<1>4. ASSUME NEW s \in Threads, LeaveCensus(s) PROVE Goal
  BY <1>1, <1>4 DEF LeaveCensus
<1>5. ASSUME NEW s \in Threads, NEW c \in Channels, Send(s, c) \/ Close(s, c) PROVE Goal
  BY <1>1, <1>5 DEF Send, Close
<1>6. ASSUME NEW s \in Threads, NEW w \in Waits, Park(s, w) PROVE Goal
  BY <1>1, <1>6 DEF Park
<1>7. ASSUME NEW s \in Threads, EnterCensus(s) \/ Exit(s) \/ Join(s) PROVE Goal
  BY <1>1, <1>7 DEF EnterCensus, Exit, Join
<1>8. ASSUME NEW s \in Threads, Wake(s) \/ Unpark(s) \/ Bump(s) PROVE Goal
  BY <1>1, <1>8 DEF Wake, Unpark, Bump
<1>9. ASSUME NEW s \in Threads, TimeOut(s) PROVE Goal
  BY <1>1, <1>9 DEF TimeOut
<1>10. ASSUME NEW s \in Threads, LoadGeneration(s) \/ LoadLive(s) PROVE Goal
  BY <1>1, <1>10 DEF LoadGeneration, LoadLive
<1>11. ASSUME NEW s \in Threads, Decide(s) PROVE Goal
  BY <1>1, <1>11 DEF Decide
<1>12. ASSUME ExitProcess \/ Elapse PROVE Goal
  BY <1>1, <1>12 DEF ExitProcess, Elapse
<1> HIDE DEF Goal
<1>13. Goal
  BY <1>2, <1>3, <1>4, <1>5, <1>6, <1>7, <1>8, <1>9, <1>10, <1>11, <1>12, StepIsAction
<1> QED
  BY <1>13 DEF Goal

(* A decision to abort, on a sample that no update overlapped: the census  *)
(* is the parked threads, so nobody is busy and all are stuck.             *)
LEMMA AbortSees ==
  ASSUME TypeOK, CensusExact, AllCounted, ParkedExact, ArmedSees, AllFresh,
         process = "running", NEW t \in Threads, pc[t] = "decide", t \notin raced,
         Stable(t), Cardinality(parked) = sampleLive[t]
  PROVE  Deadlock
<1> USE DEF Waiting, Sampling, Updating, Outside
<1>1. /\ \A u \in Threads : pc[u] \notin Updating
      /\ sampleGen[t] = gen /\ sampleLive[t] = live
  BY DEF AllFresh, Fresh
<1>2. parked \subseteq Guarded
  BY DEF Guarded, ParkedExact, AllCounted, TypeOK
<1>3. Cardinality(parked) = Cardinality(Guarded)
  BY <1>1 DEF CensusExact
<1>4. parked = Guarded
  BY <1>2, <1>3, GuardedFinite, FS_Subset
<1>5. \A u \in Threads : ~Busy(u)
  BY <1>1, <1>4 DEF Busy, Guarded, ParkedExact, AllCounted
<1>6. Armed(t)
  BY <1>1 DEF Armed, Stable
<1> QED
  BY <1>5, <1>6 DEF ArmedSees

LEMMA AbortStep ==
  ASSUME TypeOK, CensusExact, Still, Next
  PROVE  UnracedAbortIsDeadlock'
<1> SUFFICES ASSUME process' = "aborted", raced' = {} PROVE Deadlock'
  BY DEF UnracedAbortIsDeadlock
<1>1. process = "running"
  BY DEF Next
<1>2. PICK t \in Threads : Decide(t)
  BY <1>1, StepIsAction
  DEF Spawn, Fork, LeaveCensus, Send, Close, Park, EnterCensus, Exit, Join, Wake, Unpark, Bump,
      TimeOut, LoadGeneration, LoadLive, ExitProcess, Elapse
<1>3. pc[t] = "decide" /\ t \notin raced /\ Stable(t) /\ Cardinality(parked) = sampleLive[t]
  BY <1>1, <1>2 DEF Decide
<1>4. Deadlock
  BY <1>1, <1>3, AbortSees DEF Still
<1> QED
  BY <1>4, DeadlockStays

LEMMA StillStep ==
  ASSUME "map" \notin Scopes, TypeOK, CensusExact, Still, [Next]_vars
  PROVE  Still'
<1>1. CASE UNCHANGED vars
  BY <1>1
  DEF vars, Still, AllCounted, InCensus, ParkedExact, DueWait, GensBehind, ArmedSees, Armed,
      Deadlock, Stuck, Satisfied, ScopeJoined, Busy, AllFresh, Fresh, UnracedAbortIsDeadlock
<1>2. CASE Next
  BY <1>2, CountedStep, ParkedStep, DueStep, GenStep, ArmedStep, FreshStep, AbortStep DEF Still
<1> QED
  BY <1>1, <1>2

(* "A proven deadlock" (chan.rs:134): a program without parallel maps is   *)
(* aborted by a sample that no update of the registry overlapped only when *)
(* none of its threads could ever go on.                                   *)
THEOREM AbortIsProven ==
  ASSUME "map" \notin Scopes
  PROVE  Spec => []UnracedAbortIsDeadlock
<1>1. Init => Still
  BY StillInit
<1>2. TypeOK /\ CensusExact /\ Still /\ [Next]_vars => Still'
  BY StillStep
<1>3. Still => UnracedAbortIsDeadlock
  BY DEF Still
<1> QED
  BY <1>1, <1>2, <1>3, TypeCorrect, CensusIsExact, PTL DEF Spec

-----------------------------------------------------------------------------
(* The registry of spawned tasks *)

(* Every initial state is well typed. *)
LEMMA SpawnTypeInit == SpawnInit => SpawnTypeOK
<1> SUFFICES ASSUME SpawnInit PROVE SpawnTypeOK
  OBVIOUS
<1> USE DEF SpawnInit, SpawnTypeOK, Outcomes
<1>1. /\ slot \in [Tasks -> {"none", "running", "joining", "done"}]
      /\ memo \in [Tasks -> Outcomes \cup {NoOutcome}]
      /\ \A t \in Tasks : slot[t] = "done" => memo[t] \in Outcomes
  OBVIOUS
<1>2. /\ watched \in [Tasks -> SUBSET Watchable]
      /\ finished \in [Tasks -> BOOLEAN]
      /\ closing \in [Tasks -> SUBSET Watchable]
  OBVIOUS
<1>3. /\ thread \in [Tasks -> {"unborn", "running", "closing", "exited"}]
      /\ outcome \in [Tasks -> Outcomes \cup {NoOutcome}]
      /\ handle \in [Tasks -> {"none", "held", "dropped"}]
  OBVIOUS
<1>4. /\ op \in [Users -> {"none", "join", "timed", "watch"}]
      /\ at \in [Users -> {"idle", "poll", "collect", "refused"}]
      /\ refused \in [Users -> SUBSET Watchable]
  OBVIOUS
<1>5. on \in [Users -> Tasks]
  <2>1. (CHOOSE t \in Tasks : TRUE) \in Tasks
    BY TasksAssumption
  <2> QED
    BY <2>1
<1>6. /\ shut \subseteq Watchable /\ took \subseteq Tasks
      /\ early \subseteq Tasks \X Watchable /\ late \subseteq Tasks \X Watchable
      /\ answers \subseteq Tasks \X (Outcomes \cup {NoOutcome})
  OBVIOUS
<1> QED
  BY <1>1, <1>2, <1>3, <1>4, <1>5, <1>6

(* What a thread ended with is known once it has ended. *)
EndedHasOutcome ==
  \A t \in Tasks : thread[t] \in {"closing", "exited"} => outcome[t] \in Outcomes

(* The results: a memoized result is the outcome of a thread that is gone, *)
(* and only such a thread is collected.                                    *)
MemoIsOutcome ==
  /\ EndedHasOutcome
  /\ \A t \in Tasks : slot[t] = "done" => IsFinished(t) /\ memo[t] = outcome[t]
  /\ \A u \in Users : at[u] = "collect" => IsFinished(on[u])

(* The handles: an entry is there exactly while a handle is held, a call   *)
(* in progress holds one, and only a refused watch has a channel to close. *)
EntryIsHeld ==
  /\ \A t \in Tasks : slot[t] # "none" <=> handle[t] = "held"
  /\ \A u \in Users : op[u] # "none" => handle[on[u]] = "held"
  /\ \A u \in Users : op[u] = "none" <=> at[u] = "idle"
  /\ \A u \in Users : refused[u] # {} => at[u] = "refused"

(* The steps of a task that keep the types and the results. *)
LEMMA SpawnTypeStep ==
  SpawnTypeOK /\ MemoIsOutcome /\ [SpawnNext]_spawnVars => SpawnTypeOK'
<1> SUFFICES ASSUME SpawnTypeOK, MemoIsOutcome, [SpawnNext]_spawnVars PROVE SpawnTypeOK'
  OBVIOUS
<1> USE DEF SpawnTypeOK, Outcomes, entries, taskVars, userVars, history, Insert, Idle
<1>1. ASSUME NEW t \in Tasks, Start(t) PROVE SpawnTypeOK'
  BY <1>1 DEF Start
<1>2. ASSUME NEW t \in Tasks, Register(t) PROVE SpawnTypeOK'
  BY <1>2 DEF Register, NoOutcome
<1>3. ASSUME NEW t \in Tasks, Finish(t) PROVE SpawnTypeOK'
  <2>1. CASE slot[t] = "none"
    BY <1>3, <2>1 DEF Finish
  <2>2. CASE slot[t] # "none"
    <3>1. PICK o \in {"ok", "raised"} : outcome' = [outcome EXCEPT ![t] = o]
      BY <1>3 DEF Finish
    <3>2. /\ slot' = [slot EXCEPT ![t] = slot[t]] /\ memo' = [memo EXCEPT ![t] = memo[t]]
          /\ watched' = [watched EXCEPT ![t] = {}]
          /\ finished' = [finished EXCEPT ![t] = TRUE]
          /\ closing' = [closing EXCEPT ![t] = watched[t]]
          /\ took' = took \cup {t}
          /\ thread' = [thread EXCEPT ![t] = "closing"]
          /\ UNCHANGED <<handle, op, at, on, refused, shut, early, late, answers>>
      BY <1>3, <2>2 DEF Finish
    <3>3. slot' = slot /\ memo' = memo
      BY <3>2
    <3> QED
      BY <3>1, <3>2, <3>3
  <2> QED
    BY <2>1, <2>2
<1>4. ASSUME NEW t \in Tasks, NEW c \in Watchable, CloseWatched(t, c) PROVE SpawnTypeOK'
  BY <1>4 DEF CloseWatched
<1>5. ASSUME NEW t \in Tasks, Return(t) PROVE SpawnTypeOK'
  BY <1>5 DEF Return
<1>7. ASSUME NEW t \in Tasks, Drop(t) PROVE SpawnTypeOK'
  BY <1>7 DEF Drop, NoOutcome
<1>8. ASSUME NEW u \in Users, NEW t \in Tasks, NEW o \in {"join", "timed"},
             Begin(u, t, o)
      PROVE  SpawnTypeOK'
  BY <1>8 DEF Begin
<1>9. ASSUME NEW u \in Users, Recall(u) PROVE SpawnTypeOK'
  BY <1>9 DEF Recall
<1>10. ASSUME NEW u \in Users, TakeHandle(u) PROVE SpawnTypeOK'
  BY <1>10 DEF TakeHandle, NoOutcome
<1>11. ASSUME NEW u \in Users, Collect(u) PROVE SpawnTypeOK'
  <2>1. outcome[on[u]] \in Outcomes
    BY <1>11 DEF MemoIsOutcome, EndedHasOutcome, Collect, IsFinished
  <2> QED
    BY <1>11, <2>1 DEF Collect
<1>12. ASSUME NEW u \in Users, TimedReady(u) PROVE SpawnTypeOK'
  BY <1>12 DEF TimedReady
<1>13. ASSUME NEW u \in Users, TimedOut(u) PROVE SpawnTypeOK'
  BY <1>13 DEF TimedOut
<1>14. ASSUME NEW u \in Users, NEW t \in Tasks, NEW c \in Watchable, Watch(u, t, c)
       PROVE  SpawnTypeOK'
  <2>1. early' \subseteq Tasks \X Watchable /\ late' \subseteq Tasks \X Watchable
    BY <1>14 DEF Watch, RecordWatch
  <2>2. /\ UNCHANGED <<slot, memo, finished, thread, outcome, closing, handle>>
        /\ UNCHANGED <<op, at, on, refused, shut, took, answers>>
        /\ watched' \in [Tasks -> SUBSET Watchable]
    BY <1>14 DEF Watch
  <2>3. \A s \in Tasks : slot'[s] = "done" => memo'[s] \in Outcomes
    BY <2>2
  <2> QED
    BY <2>1, <2>2, <2>3
<1>16. ASSUME NEW u \in Users, NEW t \in Tasks, NEW c \in Watchable, WatchRefused(u, t, c)
       PROVE  SpawnTypeOK'
  <2>1. early' \subseteq Tasks \X Watchable /\ late' \subseteq Tasks \X Watchable
    BY <1>16 DEF WatchRefused, RecordWatch
  <2>2. /\ UNCHANGED <<slot, memo, watched, finished, thread, outcome, closing, handle>>
        /\ UNCHANGED <<shut, took, answers>>
        /\ op' \in [Users -> {"none", "join", "timed", "watch"}]
        /\ at' \in [Users -> {"idle", "poll", "collect", "refused"}]
        /\ on' \in [Users -> Tasks] /\ refused' \in [Users -> SUBSET Watchable]
    BY <1>16 DEF WatchRefused
  <2>3. \A s \in Tasks : slot'[s] = "done" => memo'[s] \in Outcomes
    BY <2>2
  <2> QED
    BY <2>1, <2>2, <2>3
<1>17. ASSUME NEW u \in Users, CloseRefused(u) PROVE SpawnTypeOK'
  BY <1>17 DEF CloseRefused
<1>15. CASE UNCHANGED spawnVars
  BY <1>15 DEF spawnVars
<1> HIDE DEF SpawnTypeOK, Insert, Idle
<1> QED
  BY <1>1, <1>2, <1>3, <1>4, <1>5, <1>7, <1>8, <1>9, <1>10, <1>11,
     <1>12, <1>13, <1>14, <1>15, <1>16, <1>17 DEF SpawnNext, TaskStep, Advance

-----------------------------------------------------------------------------
(* A thread that is gone stays gone, and what it ended with stays.         *)
LEMMA OutcomeIsFinal ==
  SpawnTypeOK /\ [SpawnNext]_spawnVars =>
    \A t \in Tasks : IsFinished(t) => IsFinished(t)' /\ outcome'[t] = outcome[t]
<1> SUFFICES ASSUME SpawnTypeOK, [SpawnNext]_spawnVars
             PROVE  \A t \in Tasks :
                      IsFinished(t) => IsFinished(t)' /\ outcome'[t] = outcome[t]
  OBVIOUS
<1> USE DEF IsFinished, taskVars
<1>1. /\ thread \in [Tasks -> {"unborn", "running", "closing", "exited"}]
      /\ outcome \in [Tasks -> Outcomes \cup {NoOutcome}]
  BY DEF SpawnTypeOK
<1>2. CASE UNCHANGED <<thread, outcome>>
  BY <1>2
<1>3. ASSUME NEW s \in Tasks, Start(s) \/ Return(s)
      PROVE  \A t \in Tasks : IsFinished(t) => IsFinished(t)' /\ outcome'[t] = outcome[t]
  BY <1>1, <1>3 DEF Start, Return
<1>4. ASSUME NEW s \in Tasks, Finish(s)
      PROVE  \A t \in Tasks : IsFinished(t) => IsFinished(t)' /\ outcome'[t] = outcome[t]
  BY <1>1, <1>4 DEF Finish
<1>5. ASSUME NEW s \in Tasks, Register(s) \/ Drop(s) \/ \E c \in Watchable : CloseWatched(s, c)
      PROVE  UNCHANGED <<thread, outcome>>
  BY <1>5 DEF Register, Drop, CloseWatched
<1>6. ASSUME NEW u \in Users, Advance(u) PROVE UNCHANGED <<thread, outcome>>
  BY <1>6 DEF Advance, Recall, TakeHandle, Collect, TimedReady, TimedOut, CloseRefused
<1>7. ASSUME NEW u \in Users, NEW t \in Tasks, NEW o \in {"join", "timed"}, Begin(u, t, o)
      PROVE  UNCHANGED <<thread, outcome>>
  BY <1>7 DEF Begin
<1>8. ASSUME NEW u \in Users, NEW t \in Tasks, NEW c \in Watchable,
             Watch(u, t, c) \/ WatchRefused(u, t, c)
      PROVE  UNCHANGED <<thread, outcome>>
  BY <1>8 DEF Watch, WatchRefused
<1>9. CASE UNCHANGED spawnVars
  BY <1>2, <1>9 DEF spawnVars
<1> QED
  BY <1>2, <1>3, <1>4, <1>5, <1>6, <1>7, <1>8, <1>9 DEF SpawnNext, TaskStep

(* The results stay the outcomes of threads that are gone. *)
LEMMA MemoStep == SpawnTypeOK /\ MemoIsOutcome /\ [SpawnNext]_spawnVars => MemoIsOutcome'
<1> SUFFICES ASSUME SpawnTypeOK, MemoIsOutcome, [SpawnNext]_spawnVars PROVE MemoIsOutcome'
  OBVIOUS
<1> USE DEF entries, taskVars, userVars, history, Insert, Idle
<1>1. \A t \in Tasks : IsFinished(t) => IsFinished(t)' /\ outcome'[t] = outcome[t]
  BY OutcomeIsFinal
<1>2. /\ slot \in [Tasks -> {"none", "running", "joining", "done"}]
      /\ memo \in [Tasks -> Outcomes \cup {NoOutcome}]
      /\ thread \in [Tasks -> {"unborn", "running", "closing", "exited"}]
      /\ outcome \in [Tasks -> Outcomes \cup {NoOutcome}]
      /\ at \in [Users -> {"idle", "poll", "collect", "refused"}]
      /\ on \in [Users -> Tasks]
  BY DEF SpawnTypeOK
<1>3. ASSUME UNCHANGED <<slot, memo, at, on>>, EndedHasOutcome' PROVE MemoIsOutcome'
  BY <1>1, <1>2, <1>3 DEF MemoIsOutcome
<1>4. ASSUME NEW t \in Tasks, Start(t) \/ Return(t)
             \/ \E c \in Watchable : CloseWatched(t, c)
      PROVE  MemoIsOutcome'
  <2>1. UNCHANGED <<slot, memo, at, on>>
    BY <1>4 DEF Start, Return, CloseWatched
  <2>2. EndedHasOutcome'
    BY <1>2, <1>4
    DEF MemoIsOutcome, EndedHasOutcome, Outcomes, Start, Return, CloseWatched
  <2> QED
    BY <1>3, <2>1, <2>2
<1>5. ASSUME NEW t \in Tasks, Finish(t) PROVE MemoIsOutcome'
  <2>1. UNCHANGED <<slot, memo, at, on>>
    BY <1>2, <1>5 DEF Finish
  <2>2. EndedHasOutcome'
    BY <1>2, <1>5 DEF MemoIsOutcome, EndedHasOutcome, Outcomes, Finish
  <2> QED
    BY <1>3, <2>1, <2>2
<1>6. ASSUME NEW t \in Tasks, Register(t) \/ Drop(t) PROVE MemoIsOutcome'
  BY <1>1, <1>2, <1>6
  DEF MemoIsOutcome, EndedHasOutcome, Register, Drop, IsFinished
<1>7. ASSUME NEW u \in Users, Recall(u) \/ TimedReady(u) \/ TimedOut(u)
      PROVE  MemoIsOutcome'
  BY <1>1, <1>2, <1>7
  DEF MemoIsOutcome, EndedHasOutcome, IsFinished, Recall, TimedReady, TimedOut
<1>8. ASSUME NEW u \in Users, TakeHandle(u) PROVE MemoIsOutcome'
  BY <1>1, <1>2, <1>8
  DEF MemoIsOutcome, EndedHasOutcome, IsFinished, TakeHandle
<1>9. ASSUME NEW u \in Users, Collect(u) PROVE MemoIsOutcome'
  BY <1>1, <1>2, <1>9 DEF MemoIsOutcome, EndedHasOutcome, IsFinished, Collect
<1>10. ASSUME NEW u \in Users, NEW t \in Tasks, NEW o \in {"join", "timed"}, Begin(u, t, o)
       PROVE  MemoIsOutcome'
  BY <1>2, <1>10 DEF MemoIsOutcome, EndedHasOutcome, IsFinished, Begin
<1>11. ASSUME NEW u \in Users, NEW t \in Tasks, NEW c \in Watchable, Watch(u, t, c)
       PROVE  MemoIsOutcome'
  BY <1>11 DEF MemoIsOutcome, EndedHasOutcome, IsFinished, Watch
<1>13. ASSUME NEW u \in Users, NEW t \in Tasks, NEW c \in Watchable, WatchRefused(u, t, c)
       PROVE  MemoIsOutcome'
  BY <1>2, <1>13 DEF MemoIsOutcome, EndedHasOutcome, IsFinished, WatchRefused
<1>14. ASSUME NEW u \in Users, CloseRefused(u) PROVE MemoIsOutcome'
  BY <1>2, <1>14 DEF MemoIsOutcome, EndedHasOutcome, IsFinished, CloseRefused
<1>12. CASE UNCHANGED spawnVars
  BY <1>12 DEF spawnVars, MemoIsOutcome, EndedHasOutcome, IsFinished
<1> HIDE DEF Insert, Idle
<1> QED
  BY <1>4, <1>5, <1>6, <1>7, <1>8, <1>9, <1>10, <1>11, <1>12, <1>13, <1>14
  DEF SpawnNext, TaskStep, Advance

(* Both hold at the start. *)
LEMMA MemoInit == SpawnInit => MemoIsOutcome
  BY DEF SpawnInit, MemoIsOutcome, EndedHasOutcome

(* Every variable of the registry, of the tasks and of the threads that    *)
(* join them keeps its type.                                               *)
THEOREM SpawnTypeCorrect == SpawnSpec => []SpawnTypeOK
  BY SpawnTypeInit, MemoInit, SpawnTypeStep, MemoStep, PTL DEF SpawnSpec

(* Whoever joins a task, first or memoized, timed or not, is answered what *)
(* the task ended with, and only once its thread is gone.                  *)
THEOREM EveryJoinerAgrees == SpawnSpec => []JoinersAgree
<1>1. SpawnInit => JoinersAgree
  BY DEF SpawnInit, JoinersAgree
<1>2. SpawnTypeOK /\ MemoIsOutcome /\ JoinersAgree /\ [SpawnNext]_spawnVars => JoinersAgree'
  <2> SUFFICES ASSUME SpawnTypeOK, MemoIsOutcome, JoinersAgree, [SpawnNext]_spawnVars
               PROVE  JoinersAgree'
    OBVIOUS
  <2>1. \A t \in Tasks : IsFinished(t) => IsFinished(t)' /\ outcome'[t] = outcome[t]
    BY OutcomeIsFinal
  <2>2. \A a \in answers : a[1] \in Tasks
    BY DEF SpawnTypeOK
  <2>3. CASE UNCHANGED answers
    BY <2>1, <2>2, <2>3 DEF JoinersAgree
  <2>4. ASSUME NEW u \in Users, NEW o,
               answers' = answers \cup {<<on[u], o>>},
               on[u] \in Tasks, IsFinished(on[u]), o = outcome[on[u]]
        PROVE  JoinersAgree'
    BY <2>1, <2>2, <2>4 DEF JoinersAgree
  <2>5. ASSUME NEW u \in Users, Recall(u) PROVE JoinersAgree'
    <3>1. on[u] \in Tasks /\ slot[on[u]] = "done"
      BY <2>5 DEF SpawnTypeOK, Recall
    <3>2. IsFinished(on[u]) /\ memo[on[u]] = outcome[on[u]]
      BY <3>1 DEF MemoIsOutcome
    <3>3. answers' = answers \cup {<<on[u], memo[on[u]]>>}
      BY <2>5 DEF Recall
    <3> QED
      BY <2>4, <3>1, <3>2, <3>3
  <2>6. ASSUME NEW u \in Users, Collect(u) PROVE JoinersAgree'
    <3>1. on[u] \in Tasks /\ IsFinished(on[u])
      BY <2>6 DEF SpawnTypeOK, Collect, MemoIsOutcome
    <3>2. answers' = answers \cup {<<on[u], outcome[on[u]]>>}
      BY <2>6 DEF Collect
    <3> QED
      BY <2>4, <3>1, <3>2
  <2>7. ASSUME NEW u \in Users, TakeHandle(u) \/ TimedReady(u) \/ TimedOut(u) \/ CloseRefused(u)
        PROVE  UNCHANGED answers
    BY <2>7 DEF TakeHandle, TimedReady, TimedOut, CloseRefused, history
  <2>8. ASSUME NEW t \in Tasks, Start(t) \/ TaskStep(t) \/ Drop(t)
        PROVE  UNCHANGED answers
    BY <2>8 DEF Start, TaskStep, Register, Finish, Return, CloseWatched,
                Drop, history
  <2>9. ASSUME NEW u \in Users, NEW t \in Tasks,
               \/ \E o \in {"join", "timed"} : Begin(u, t, o)
               \/ \E c \in Watchable : Watch(u, t, c) \/ WatchRefused(u, t, c)
        PROVE  UNCHANGED answers
    BY <2>9 DEF Begin, Watch, WatchRefused, history
  <2>10. CASE UNCHANGED spawnVars
    BY <2>3, <2>10 DEF spawnVars
  <2> QED
    BY <2>3, <2>5, <2>6, <2>7, <2>8, <2>9, <2>10 DEF SpawnNext, Advance
<1> QED
  BY <1>1, <1>2, SpawnTypeInit, MemoInit, SpawnTypeStep, MemoStep, PTL DEF SpawnSpec

-----------------------------------------------------------------------------
(* An entry lives exactly as long as a handle is held.                     *)
LEMMA HeldStep == SpawnTypeOK /\ EntryIsHeld /\ [SpawnNext]_spawnVars => EntryIsHeld'
<1> SUFFICES ASSUME SpawnTypeOK, EntryIsHeld, [SpawnNext]_spawnVars PROVE EntryIsHeld'
  OBVIOUS
<1> USE DEF EntryIsHeld, entries, taskVars, userVars, history, Insert, Idle
<1>1. /\ slot \in [Tasks -> {"none", "running", "joining", "done"}]
      /\ handle \in [Tasks -> {"none", "held", "dropped"}]
      /\ op \in [Users -> {"none", "join", "timed", "watch"}]
      /\ at \in [Users -> {"idle", "poll", "collect", "refused"}]
      /\ on \in [Users -> Tasks]
      /\ refused \in [Users -> SUBSET Watchable]
  BY DEF SpawnTypeOK
<1>2. ASSUME NEW t \in Tasks, Start(t) \/ Return(t)
             \/ \E c \in Watchable : CloseWatched(t, c)
      PROVE  EntryIsHeld'
  BY <1>2 DEF Start, Return, CloseWatched
<1>3. ASSUME NEW t \in Tasks, Finish(t) PROVE EntryIsHeld'
  <2>1. UNCHANGED <<slot, handle, op, at, on, refused>>
    BY <1>1, <1>3 DEF Finish
  <2> QED
    BY <2>1
<1>4. ASSUME NEW t \in Tasks, Register(t) PROVE EntryIsHeld'
  BY <1>1, <1>4 DEF Register
<1>5. ASSUME NEW t \in Tasks, Drop(t) PROVE EntryIsHeld'
  BY <1>1, <1>5 DEF Drop
<1>6. ASSUME NEW u \in Users, Recall(u) \/ TimedReady(u) \/ TimedOut(u)
      PROVE  EntryIsHeld'
  BY <1>1, <1>6 DEF Recall, TimedReady, TimedOut
<1>7. ASSUME NEW u \in Users, TakeHandle(u) PROVE EntryIsHeld'
  BY <1>1, <1>7 DEF TakeHandle
<1>8. ASSUME NEW u \in Users, Collect(u) PROVE EntryIsHeld'
  BY <1>1, <1>8 DEF Collect
<1>9. ASSUME NEW u \in Users, NEW t \in Tasks, NEW o \in {"join", "timed"}, Begin(u, t, o)
      PROVE  EntryIsHeld'
  BY <1>1, <1>9 DEF Begin
<1>10. ASSUME NEW u \in Users, NEW t \in Tasks, NEW c \in Watchable,
              Watch(u, t, c) \/ WatchRefused(u, t, c)
       PROVE  EntryIsHeld'
  BY <1>1, <1>10 DEF Watch, WatchRefused
<1>12. ASSUME NEW u \in Users, CloseRefused(u) PROVE EntryIsHeld'
  BY <1>1, <1>12 DEF CloseRefused
<1>11. CASE UNCHANGED spawnVars
  BY <1>11 DEF spawnVars
<1> HIDE DEF EntryIsHeld, Insert, Idle
<1> QED
  BY <1>2, <1>3, <1>4, <1>5, <1>6, <1>7, <1>8, <1>9, <1>10, <1>11, <1>12
  DEF SpawnNext, TaskStep, Advance

-----------------------------------------------------------------------------
(* Where a declared channel is: with the entry while the task runs, taken  *)
(* by `finish` or closed after it, and never lost between the two.         *)
WatchesKept ==
  /\ \A t \in Tasks : thread[t] = "unborn" => handle[t] = "none"
  /\ \A t \in Tasks : thread[t] \in {"unborn", "running"} =>
       closing[t] = {} /\ t \notin took
  /\ \A t \in took : handle[t] # "none" /\ (handle[t] = "held" => finished[t])
  /\ \A a \in early \cup late : handle[a[1]] # "none"
  /\ \A t \in Tasks, c \in Watchable :
       /\ <<t, c>> \in early \cup late
       /\ handle[t] = "held" /\ thread[t] = "running"
       => c \in ClosedBySomebody \cup watched[t]

Watches == EntryIsHeld /\ WatchesKept /\ WatchHonoured

(* A channel that is closed, or refused and about to be, stays so. *)
LEMMA ClosingGrows ==
  SpawnTypeOK /\ EntryIsHeld /\ [SpawnNext]_spawnVars => ClosedBySomebody \subseteq ClosedBySomebody'
<1> SUFFICES ASSUME SpawnTypeOK, EntryIsHeld, [SpawnNext]_spawnVars
             PROVE  ClosedBySomebody \subseteq ClosedBySomebody'
  OBVIOUS
<1> USE DEF ClosedBySomebody
<1>1. refused \in [Users -> SUBSET Watchable]
  BY DEF SpawnTypeOK
<1>2. CASE UNCHANGED refused /\ shut \subseteq shut'
  BY <1>2
<1>3. ASSUME NEW t \in Tasks, Start(t) \/ TaskStep(t) \/ Drop(t)
      PROVE  UNCHANGED refused /\ shut \subseteq shut'
  BY <1>3 DEF Start, TaskStep, Register, Finish, Return, CloseWatched, Drop, userVars
<1>4. ASSUME NEW u \in Users, Recall(u) \/ TakeHandle(u) \/ Collect(u) \/ TimedReady(u) \/ TimedOut(u)
      PROVE  UNCHANGED refused /\ shut \subseteq shut'
  BY <1>4 DEF Recall, TakeHandle, Collect, TimedReady, TimedOut, Idle
<1>5. ASSUME NEW u \in Users, NEW t \in Tasks,
             \/ \E o \in {"join", "timed"} : Begin(u, t, o)
             \/ \E c \in Watchable : Watch(u, t, c)
      PROVE  UNCHANGED refused /\ shut \subseteq shut'
  BY <1>5 DEF Begin, Watch, userVars
<1>6. ASSUME NEW u \in Users, NEW t \in Tasks, NEW c \in Watchable, WatchRefused(u, t, c)
      PROVE  ClosedBySomebody \subseteq ClosedBySomebody'
  <2>1. refused[u] = {}
    BY <1>6 DEF WatchRefused, EntryIsHeld
  <2> QED
    BY <1>1, <1>6, <2>1 DEF WatchRefused
<1>7. ASSUME NEW u \in Users, CloseRefused(u) PROVE ClosedBySomebody \subseteq ClosedBySomebody'
  BY <1>1, <1>7 DEF CloseRefused
<1>8. CASE UNCHANGED spawnVars
  BY <1>2, <1>8 DEF spawnVars
<1> HIDE DEF ClosedBySomebody
<1> QED
  BY <1>2, <1>3, <1>4, <1>5, <1>6, <1>7, <1>8 DEF SpawnNext, Advance

(* No step loses a declared channel. *)
LEMMA WatchStep ==
  SpawnTypeOK /\ MemoIsOutcome /\ Watches /\ [SpawnNext]_spawnVars => WatchesKept' /\ WatchHonoured'
<1> SUFFICES ASSUME SpawnTypeOK, MemoIsOutcome, Watches, [SpawnNext]_spawnVars
             PROVE  WatchesKept' /\ WatchHonoured'
  OBVIOUS
<1> USE DEF Watches, EntryIsHeld, WatchesKept, WatchHonoured, entries, taskVars,
            userVars, history, Insert, Idle
<1>1. /\ slot \in [Tasks -> {"none", "running", "joining", "done"}]
      /\ watched \in [Tasks -> SUBSET Watchable]
      /\ finished \in [Tasks -> BOOLEAN]
      /\ closing \in [Tasks -> SUBSET Watchable]
      /\ thread \in [Tasks -> {"unborn", "running", "closing", "exited"}]
      /\ handle \in [Tasks -> {"none", "held", "dropped"}]
      /\ on \in [Users -> Tasks]
      /\ refused \in [Users -> SUBSET Watchable]
      /\ early \subseteq Tasks \X Watchable /\ late \subseteq Tasks \X Watchable
      /\ took \subseteq Tasks
  BY DEF SpawnTypeOK
<1>15. ClosedBySomebody \subseteq ClosedBySomebody' /\ shut' \subseteq ClosedBySomebody'
  BY ClosingGrows DEF ClosedBySomebody
<1>2. ASSUME NEW t \in Tasks, Start(t) PROVE WatchesKept' /\ WatchHonoured'
  <2>1. handle[t] = "none"
    BY <1>2 DEF Start
  <2> QED
    BY <1>1, <1>15, <1>2, <2>1 DEF Start
<1>3. ASSUME NEW t \in Tasks, Return(t) PROVE WatchesKept' /\ WatchHonoured'
  BY <1>1, <1>15, <1>3 DEF Return
<1>4. ASSUME NEW t \in Tasks, NEW c \in Watchable, CloseWatched(t, c)
      PROVE  WatchesKept' /\ WatchHonoured'
  BY <1>1, <1>15, <1>4 DEF CloseWatched
<1>5. ASSUME NEW t \in Tasks, Finish(t) PROVE WatchesKept' /\ WatchHonoured'
  <2>1. CASE slot[t] = "none"
    BY <1>1, <1>15, <1>5, <2>1 DEF Finish
  <2>2. CASE slot[t] # "none"
    <3>1. /\ handle[t] = "held" /\ closing[t] = {} /\ thread[t] = "running"
          /\ closing' = [closing EXCEPT ![t] = watched[t]]
          /\ watched' = [watched EXCEPT ![t] = {}]
          /\ finished' = [finished EXCEPT ![t] = TRUE]
          /\ thread' = [thread EXCEPT ![t] = "closing"]
          /\ took' = took \cup {t}
          /\ UNCHANGED <<handle, shut, early, late>>
      BY <1>1, <1>15, <1>5, <2>2 DEF Finish
    <3>2. WatchesKept'
      BY <1>1, <1>15, <3>1
    <3>3. WatchHonoured'
      BY <1>1, <1>15, <3>1
    <3> QED
      BY <3>2, <3>3
  <2> QED
    BY <2>1, <2>2
<1>6. ASSUME NEW t \in Tasks, Register(t) PROVE WatchesKept' /\ WatchHonoured'
  <2>1. \A a \in early \cup late : a[1] # t
    BY <1>6 DEF Register
  <2>2. t \notin took
    BY <1>6 DEF Register
  <2> QED
    BY <1>1, <1>15, <1>6, <2>1, <2>2 DEF Register
<1>7. ASSUME NEW t \in Tasks, Drop(t) PROVE WatchesKept' /\ WatchHonoured'
  BY <1>1, <1>15, <1>7 DEF Drop
<1>8. ASSUME NEW u \in Users, Recall(u) \/ TimedReady(u) \/ TimedOut(u)
      PROVE  WatchesKept' /\ WatchHonoured'
  BY <1>1, <1>15, <1>8 DEF Recall, TimedReady, TimedOut
<1>9. ASSUME NEW u \in Users, TakeHandle(u) \/ Collect(u),
             thread[on[u]] = "exited"
      PROVE  WatchesKept' /\ WatchHonoured'
  <2>1. on[u] \in Tasks
    BY <1>1
  <2>2. /\ watched' = [watched EXCEPT ![on[u]] = {}]
        /\ finished' = [finished EXCEPT ![on[u]] = TRUE]
        /\ UNCHANGED <<thread, closing, handle, shut, early, late, took>>
    BY <1>9 DEF TakeHandle, Collect
  <2> QED
    BY <1>1, <1>15, <1>9, <2>1, <2>2
<1>10. ASSUME NEW u \in Users, NEW t \in Tasks, NEW o \in {"join", "timed"}, Begin(u, t, o)
       PROVE  WatchesKept' /\ WatchHonoured'
  BY <1>1, <1>15, <1>10 DEF Begin
<1>11. ASSUME NEW u \in Users, NEW t \in Tasks, NEW c \in Watchable, Watch(u, t, c)
       PROVE  WatchesKept' /\ WatchHonoured'
  <2>1. /\ handle[t] = "held" /\ ~finished[t]
        /\ early' \cup late' = early \cup late \cup {<<t, c>>}
        /\ watched' = [watched EXCEPT ![t] = @ \cup {c}]
        /\ UNCHANGED <<thread, closing, handle, finished, took>>
    BY <1>11 DEF Watch, RecordWatch
  <2>3. t \notin took
    BY <2>1
  <2> QED
    BY <1>1, <1>15, <2>1, <2>3
<1>14. ASSUME NEW u \in Users, NEW t \in Tasks, NEW c \in Watchable, WatchRefused(u, t, c)
       PROVE  WatchesKept' /\ WatchHonoured'
  <2>1. /\ handle[t] = "held"
        /\ early' \cup late' = early \cup late \cup {<<t, c>>}
        /\ UNCHANGED <<thread, watched, closing, handle, finished, took>>
    BY <1>14 DEF WatchRefused, RecordWatch
  <2>2. refused'[u] = {c}
    BY <1>1, <1>14 DEF WatchRefused
  <2>3. c \in ClosedBySomebody'
    BY <2>2 DEF ClosedBySomebody
  <2> QED
    BY <1>1, <1>15, <2>1, <2>3
<1>16. ASSUME NEW u \in Users, CloseRefused(u) PROVE WatchesKept' /\ WatchHonoured'
  BY <1>1, <1>15, <1>16 DEF CloseRefused
<1>12. CASE UNCHANGED spawnVars
  BY <1>1, <1>15, <1>12 DEF spawnVars
<1>13. ASSUME NEW u \in Users, TakeHandle(u) \/ Collect(u)
       PROVE  thread[on[u]] = "exited"
  BY <1>13 DEF TakeHandle, Collect, MemoIsOutcome, IsFinished
<1> HIDE DEF EntryIsHeld, WatchesKept, WatchHonoured, Insert, Idle
<1> QED
  BY <1>2, <1>3, <1>4, <1>5, <1>6, <1>7, <1>8, <1>9, <1>10, <1>11, <1>12, <1>13, <1>14, <1>16
  DEF SpawnNext, TaskStep, Advance

(* A channel declared to die with a task, before, during or after the end  *)
(* of its thread, is closed or about to be once that end went through the  *)
(* task's entry.                                                           *)
THEOREM WatchesAreHonoured == SpawnSpec => []WatchHonoured
<1>1. SpawnInit => Watches
  <2> SUFFICES ASSUME SpawnInit PROVE Watches
    OBVIOUS
  <2>1. EntryIsHeld
    BY DEF SpawnInit, EntryIsHeld
  <2>2. WatchesKept /\ WatchHonoured
    BY DEF SpawnInit, WatchesKept, WatchHonoured
  <2> QED
    BY <2>1, <2>2 DEF Watches
<1>2. SpawnTypeOK /\ MemoIsOutcome /\ Watches /\ [SpawnNext]_spawnVars => Watches'
  BY HeldStep, WatchStep DEF Watches
<1>3. Watches => WatchHonoured
  BY DEF Watches
<1> QED
  BY <1>1, <1>2, <1>3, SpawnTypeInit, MemoInit, SpawnTypeStep, MemoStep, PTL DEF SpawnSpec

-----------------------------------------------------------------------------
(* The threads that took a task's handle out of its slot to join it.       *)
Collectors(t) == {u \in Users : at[u] = "collect" /\ on[u] = t}

Collected ==
  \A t \in Tasks : IF slot[t] = "joining"
                     THEN \E u \in Users : Collectors(t) = {u}
                     ELSE Collectors(t) = {}

(* Taking the handle and putting the result back both change the slot.     *)
LEMMA CollectStep == SpawnTypeOK /\ EntryIsHeld /\ Collected /\ [SpawnNext]_spawnVars => Collected'
<1> SUFFICES ASSUME SpawnTypeOK, EntryIsHeld, Collected, [SpawnNext]_spawnVars PROVE Collected'
  OBVIOUS
<1> USE DEF entries, taskVars, userVars, history, Insert, Idle
<1>1. /\ slot \in [Tasks -> {"none", "running", "joining", "done"}]
      /\ op \in [Users -> {"none", "join", "timed", "watch"}]
      /\ at \in [Users -> {"idle", "poll", "collect", "refused"}]
      /\ on \in [Users -> Tasks]
  BY DEF SpawnTypeOK
<1>2. ASSUME UNCHANGED <<slot, at, on>> PROVE Collected'
  BY <1>2 DEF Collected, Collectors
<1>3. ASSUME NEW t \in Tasks, Start(t) \/ Return(t)
             \/ \E c \in Watchable : CloseWatched(t, c)
      PROVE  Collected'
  BY <1>2, <1>3 DEF Start, Return, CloseWatched
<1>4. ASSUME NEW t \in Tasks, Finish(t) PROVE Collected'
  <2>1. UNCHANGED <<slot, at, on>>
    BY <1>1, <1>4 DEF Finish
  <2> QED
    BY <1>2, <2>1
<1>5. ASSUME NEW t \in Tasks, Register(t) \/ Drop(t) PROVE Collected'
  <2>1. slot[t] # "joining"
    <3>1. CASE Register(t)
      BY <3>1 DEF EntryIsHeld, Register
    <3>2. CASE Drop(t)
      BY <3>2 DEF Drop, Collected, Collectors, EntryIsHeld
    <3> QED
      BY <1>5, <3>1, <3>2
  <2>2. slot'[t] # "joining" /\ \A s \in Tasks : s # t => slot'[s] = slot[s]
    BY <1>1, <1>5 DEF Register, Drop
  <2>3. UNCHANGED <<at, on>>
    BY <1>5 DEF Register, Drop
  <2> QED
    BY <2>1, <2>2, <2>3 DEF Collected, Collectors
<1>6. ASSUME NEW u \in Users, Recall(u) \/ TimedReady(u) \/ TimedOut(u)
      PROVE  Collected'
  <2>1. /\ \A t \in Tasks : Collectors(t)' = Collectors(t)
        /\ slot' = slot
    BY <1>1, <1>6 DEF Recall, TimedReady, TimedOut, Collectors
  <2> QED
    BY <2>1 DEF Collected
<1>7. ASSUME NEW u \in Users, TakeHandle(u) PROVE Collected'
  <2>1. /\ on[u] \in Tasks /\ slot[on[u]] = "running"
        /\ slot' = [slot EXCEPT ![on[u]] = "joining"]
        /\ at' = [at EXCEPT ![u] = "collect"] /\ on' = on
    BY <1>1, <1>7 DEF TakeHandle
  <2>2. Collectors(on[u])' = {u}
    BY <1>1, <2>1 DEF Collected, Collectors
  <2>3. \A t \in Tasks : t # on[u] => Collectors(t)' = Collectors(t)
    BY <1>1, <2>1 DEF Collectors
  <2> QED
    BY <1>1, <2>1, <2>2, <2>3 DEF Collected
<1>8. ASSUME NEW u \in Users, Collect(u) PROVE Collected'
  <2>1. /\ on[u] \in Tasks /\ at[u] = "collect"
        /\ slot' = [slot EXCEPT ![on[u]] = "done"]
        /\ at' = [at EXCEPT ![u] = "idle"] /\ on' = on
    BY <1>1, <1>8 DEF Collect
  <2>2. Collectors(on[u]) = {u}
    BY <2>1 DEF Collected, Collectors
  <2>3. Collectors(on[u])' = {}
    BY <1>1, <2>1, <2>2 DEF Collectors
  <2>4. \A t \in Tasks : t # on[u] => Collectors(t)' = Collectors(t)
    BY <1>1, <2>1 DEF Collectors
  <2> QED
    BY <1>1, <2>1, <2>3, <2>4 DEF Collected
<1>9. ASSUME NEW u \in Users, NEW t \in Tasks, NEW o \in {"join", "timed"}, Begin(u, t, o)
      PROVE  Collected'
  <2>1. /\ \A s \in Tasks : Collectors(s)' = Collectors(s)
        /\ slot' = slot
    BY <1>1, <1>9 DEF Begin, Collectors, EntryIsHeld
  <2> QED
    BY <2>1 DEF Collected
<1>10. ASSUME NEW u \in Users, NEW t \in Tasks, NEW c \in Watchable, Watch(u, t, c)
       PROVE  Collected'
  BY <1>2, <1>10 DEF Watch
<1>12. ASSUME NEW u \in Users, NEW t \in Tasks, NEW c \in Watchable, WatchRefused(u, t, c)
       PROVE  Collected'
  <2>1. /\ \A s \in Tasks : Collectors(s)' = Collectors(s)
        /\ slot' = slot
    BY <1>1, <1>12 DEF WatchRefused, Collectors, EntryIsHeld
  <2> QED
    BY <2>1 DEF Collected
<1>13. ASSUME NEW u \in Users, CloseRefused(u) PROVE Collected'
  <2>1. /\ \A s \in Tasks : Collectors(s)' = Collectors(s)
        /\ slot' = slot
    BY <1>1, <1>13 DEF CloseRefused, Collectors
  <2> QED
    BY <2>1 DEF Collected
<1>11. CASE UNCHANGED spawnVars
  BY <1>2, <1>11 DEF spawnVars
<1> HIDE DEF Insert, Idle
<1> QED
  BY <1>3, <1>4, <1>5, <1>6, <1>7, <1>8, <1>9, <1>10, <1>11, <1>12, <1>13
  DEF SpawnNext, TaskStep, Advance

(* A task's thread handle is consumed once: the slot says Joining exactly  *)
(* while one thread collects, whatever joins race for it.                  *)
THEOREM CollectedOnce == SpawnSpec => []OneCollector
<1>1. SpawnInit => EntryIsHeld /\ Collected
  BY DEF SpawnInit, EntryIsHeld, Collected, Collectors
<1>2. Collected => OneCollector
  <2> SUFFICES ASSUME Collected, NEW t \in Tasks
               PROVE  Cardinality(Collectors(t)) = IF slot[t] = "joining" THEN 1 ELSE 0
    BY DEF OneCollector, Collectors
  <2>1. CASE slot[t] = "joining"
    BY <2>1, FS_Singleton DEF Collected
  <2>2. CASE slot[t] # "joining"
    BY <2>2, FS_EmptySet DEF Collected
  <2> QED
    BY <2>1, <2>2
<1> QED
  BY <1>1, <1>2, SpawnTypeInit, MemoInit, SpawnTypeStep, MemoStep, HeldStep, CollectStep, PTL
  DEF SpawnSpec

=============================================================================
