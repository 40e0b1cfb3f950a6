-------------------------- MODULE CallBudgetProofs --------------------------
(***************************************************************************)
(* Proofs about CallBudget.  Types are proved for every set of threads;    *)
(* what a budget promises is proved where one thread calls call_budget,    *)
(* the one that runs the evaluations, with any number of budgets nested to *)
(* any depth, any number of interrupts, and any number of other threads    *)
(* that poll: with two callers the code breaks it.                         *)
(***************************************************************************)
EXTENDS CallBudget, TLAPS

(* A sequence of budgets without its last, and with one more. *)
LEMMA FrontIsSeq ==
  ASSUME NEW S, NEW s \in Seq(S), s # <<>>
  PROVE  Front(s) \in Seq(S) /\ Len(Front(s)) = Len(s) - 1 /\ Last(s) \in S
         /\ \A i \in 1..Len(s) - 1 : Front(s)[i] = s[i]
<1>1. Len(s) \in Nat \ {0} /\ s \in [1..Len(s) -> S]
  OBVIOUS
<1>2. Last(s) \in S
  BY <1>1 DEF Last
<1>3. Front(s) = SubSeq(s, 1, Len(s) - 1)
  BY DEF Front
<1>4. SubSeq(s, 1, Len(s) - 1) \in Seq(S) /\ Len(SubSeq(s, 1, Len(s) - 1)) = Len(s) - 1
  BY <1>1
<1>5. \A i \in 1..Len(s) - 1 : SubSeq(s, 1, Len(s) - 1)[i] = s[i]
  BY <1>1
<1> QED
  BY <1>2, <1>3, <1>4, <1>5

LEMMA GrownSeq ==
  ASSUME NEW n \in Nat, NEW s \in Seq(1..n)
  PROVE  s \in Seq(1..n + 1) /\ Append(s, n + 1) \in Seq(1..n + 1)
<1>1. s \in Seq(1..n + 1)
  OBVIOUS
<1> QED
  BY <1>1

LEMMA TypeInit == Init => TypeOK
<1> SUFFICES ASSUME Init PROVE TypeOK
  OBVIOUS
<1>1. <<>> \in Seq(1..0) /\ <<>> \in Seq(Callers) /\ Len(<<>>) = 0
  OBVIOUS
<1>2. Budgets = 1..0
  BY <1>1 DEF Init, Budgets
<1>3. stack \in Seq(Budgets) /\ calls \in [Threads -> Seq(Budgets)]
  BY <1>1, <1>2 DEF Init
<1>4. owner \in Seq(Callers) /\ pc \in [Threads -> {"run"}]
  BY <1>1 DEF Init
<1>5. requests \in 0..MaxRequests
  BY BoundsAssumption DEF Init
<1> QED
  BY <1>3, <1>4, <1>5 DEF Init, TypeOK, Everyone, Free, None

LEMMA TypeStep == TypeOK /\ [Next]_vars => TypeOK'
<1> SUFFICES ASSUME TypeOK, [Next]_vars PROVE TypeOK'
  OBVIOUS
<1> USE ThreadsAssumption, BoundsAssumption
    DEF TypeOK, flag, watch, Goto, Everyone, Free, None, Watchdog, Budgets
<1>1. CASE UNCHANGED vars
  BY <1>1 DEF vars
<1>2. ASSUME NEW t \in Threads, BudgetBegin(t) PROVE TypeOK'
  <2>1. Len(owner') = Len(owner) + 1 /\ owner' \in Seq(Callers)
    BY <1>2 DEF BudgetBegin
  <2>2. stack' \in Seq(Budgets')
    BY <1>2, <2>1, GrownSeq DEF BudgetBegin
  <2>3. calls' \in [Threads -> Seq(Budgets')]
    <3>1. \A u \in Threads : calls[u] \in Seq(1..Len(owner) + 1)
      BY GrownSeq
    <3>2. Append(calls[t], Len(owner) + 1) \in Seq(1..Len(owner) + 1)
      BY GrownSeq
    <3>3. calls' = [calls EXCEPT ![t] = Append(calls[t], Len(owner) + 1)]
      BY <1>2, <2>1 DEF BudgetBegin
    <3> QED
      BY <2>1, <3>1, <3>2, <3>3
  <2>4. expired' \subseteq Budgets' /\ overs' \subseteq Budgets'
    BY <1>2, <2>1 DEF BudgetBegin
  <2>5. generation' \in Nat /\ outdated' \subseteq Threads
    BY <1>2 DEF BudgetBegin
  <2>6. UNCHANGED <<flag, tripped, lock, pc, editor, requests, standing, strays>>
    BY <1>2 DEF BudgetBegin
  <2> QED
    BY <2>1, <2>2, <2>3, <2>4, <2>5, <2>6
<1>3. ASSUME NEW t \in Threads, BudgetEnd(t) PROVE TypeOK'
  <2>1. stack' \in Seq(Budgets)
    BY <1>3, FrontIsSeq DEF BudgetEnd
  <2>2. Front(calls[t]) \in Seq(Budgets) /\ Last(calls[t]) \in Budgets
    BY <1>3, FrontIsSeq DEF BudgetEnd
  <2>3. calls' \in [Threads -> Seq(Budgets)] /\ overs' \subseteq Budgets
    BY <1>3, <2>2 DEF BudgetEnd
  <2>4. generation' \in Nat /\ tripped' \in Nat \cup {None}
    BY <1>3 DEF BudgetEnd
  <2>5. /\ requested' \in BOOLEAN /\ lock' \in Threads \cup {Free, Watchdog}
        /\ pc' \in [Threads -> {"run", "asked", "unwind", "forget", "clear", "stopped", "blind"}]
    <3>1. CASE tripped = generation /\ target = t
      BY <1>3, <3>1 DEF BudgetEnd
    <3>2. CASE ~(tripped = generation /\ target = t)
      BY <1>3, <3>2 DEF BudgetEnd
    <3> QED
      BY <3>1, <3>2
  <2> QED
    BY <1>3, <2>1, <2>3, <2>4, <2>5 DEF BudgetEnd
<1>4. ASSUME NEW t \in Threads,
             PollFlag(t) \/ PollTarget(t) \/ StopPolling(t) \/ PollAgain(t)
      PROVE  TypeOK'
  BY <1>4 DEF PollFlag, PollTarget, StopPolling, PollAgain
<1>5. ASSUME NEW t \in Threads, ForgetTarget(t) \/ ClearTarget(t) \/ ClearFlag(t)
      PROVE  TypeOK'
  BY <1>5 DEF ForgetTarget, ClearTarget, ClearFlag
<1>6. ASSUME NEW b \in Budgets, Expire(b) PROVE TypeOK'
  BY <1>6 DEF Expire
<1>7. CASE WatchdogAim
  <2>1. Last(stack) \in Budgets
    BY <1>7, FrontIsSeq DEF WatchdogAim, TripDue
  <2> QED
    BY <1>7, <2>1 DEF WatchdogAim, TripDue
<1>8. CASE WatchdogRaise
  BY <1>8 DEF WatchdogRaise
<1>9. CASE RequestAim
  <2>1. requests' \in 0..MaxRequests
    BY <1>9 DEF RequestAim
  <2> QED
    BY <1>9, <2>1 DEF RequestAim
<1>10. CASE RequestRaise
  BY <1>10 DEF RequestRaise
<1> QED
  BY <1>1, <1>2, <1>3, <1>4, <1>5, <1>6, <1>7, <1>8, <1>9, <1>10 DEF Next, Obey, WatchdogStep

(* Every variable of the watch, the flag and the threads keeps its type,   *)
(* for every number of threads, budgets and interrupts.                    *)
THEOREM TypeCorrect == Spec => []TypeOK
BY TypeInit, TypeStep, PTL DEF Spec

(***************************************************************************)
(* One caller.  What makes the promises hold is that the watch and the     *)
(* thread agree: the stack is the thread's nesting, a trip of the present  *)
(* generation is of the innermost call and is aimed at the thread, and     *)
(* without an interrupt the flag is up for no other reason.                *)
(***************************************************************************)
Watched(me) ==
  /\ TypeOK
  /\ stack = calls[me]
  /\ tripped <= generation
  /\ tripped = generation => stack # <<>> /\ Last(stack) \in expired
  /\ lock = Watchdog => tripped = generation
  /\ tripped = generation /\ lock # Watchdog => requested
  /\ pc[me] = "asked" => requested
  /\ lock = me <=> pc[me] = "forget"
  /\ pc[me] = "forget" => tripped = None
  /\ pc[me] \in {"clear", "stopped"} => calls[me] = <<>>
  /\ (requested \/ lock = Watchdog) /\ me \notin outdated /\ ~standing
       => tripped = generation /\ target = me
  /\ \A t \in Threads \ {me} :
       calls[t] = <<>> /\ pc[t] \in {"run", "asked", "stopped", "blind"}
  /\ OverMeansOverdue
  /\ CallersStopForACause

LEMMA WatchedInit ==
  ASSUME NEW me, Callers = {me}, Main = me, Init
  PROVE  Watched(me)
<1>1. TypeOK
  BY TypeInit
<1> QED
  BY <1>1, ThreadsAssumption
     DEF Init, Watched, OverMeansOverdue, CallersStopForACause, None, Watchdog, Free

LEMMA WatchedStep ==
  ASSUME NEW me, Callers = {me}, Main = me, Watched(me), [Next]_vars
  PROVE  Watched(me)'
<1>1. TypeOK /\ TypeOK'
  BY TypeStep DEF Watched
<1>2. me \in Nat \ {0} /\ me \in Threads
  BY ThreadsAssumption
<1>3. /\ calls \in [Threads -> Seq(Budgets)]
      /\ generation \in Nat /\ tripped \in Nat \cup {None}
      /\ owner \in Seq(Callers) /\ DOMAIN pc = Threads /\ target \in {Everyone, me}
  BY <1>1 DEF TypeOK
<1> USE <1>2, <1>3
    DEF flag, watch, Goto, Everyone, Free, None, Watchdog, OverMeansOverdue, CallersStopForACause
<1>4. CASE UNCHANGED vars
  BY <1>1, <1>4 DEF vars, Watched
<1>5. CASE BudgetBegin(me)
  <2>1. calls'[me] = Append(calls[me], Len(owner'))
    BY <1>5 DEF BudgetBegin
  <2>2. calls'[me] # <<>>
    <3>1. calls[me] \in Seq(Budgets)
      OBVIOUS
    <3>2. Len(Append(calls[me], Len(owner'))) = Len(calls[me]) + 1 /\ Len(calls[me]) \in Nat
      BY <3>1
    <3>3. Len(<<>>) = 0
      OBVIOUS
    <3> QED
      BY <2>1, <3>2, <3>3
  <2>3. tripped' < generation'
    BY <1>5 DEF BudgetBegin, Watched
  <2>4. me \notin outdated' => ~(tripped = generation)
    BY <1>5 DEF BudgetBegin, Watched
  <2>5. Watched(me)!2' /\ Watched(me)!3' /\ Watched(me)!4'
    BY <1>5, <2>1, <2>2, <2>3 DEF BudgetBegin, Watched
  <2> QED
    BY <1>1, <1>5, <2>3, <2>4, <2>5 DEF BudgetBegin, Watched
<1>6. CASE BudgetEnd(me)
  <2>1. stack' = calls'[me] /\ tripped' < generation' /\ lock # Watchdog
    BY <1>6 DEF BudgetEnd, Watched
  <2>2. tripped = generation => Last(calls[me]) \in expired
    BY <1>6 DEF BudgetEnd, Watched
  <2>3. overs' \subseteq expired'
    BY <1>6, <2>2 DEF BudgetEnd, Watched
  <2>4. CASE tripped = generation /\ target = me
    BY <1>1, <1>6, <2>1, <2>3, <2>4 DEF BudgetEnd, Watched
  <2>5. CASE ~(tripped = generation /\ target = me)
    BY <1>1, <1>6, <2>1, <2>3, <2>5 DEF BudgetEnd, Watched
  <2> QED
    BY <2>4, <2>5
<1>7. CASE PollFlag(me) \/ StopPolling(me) \/ PollAgain(me)
  <2>1. /\ UNCHANGED <<outdated, flag, watch, lock, owner, expired, calls, editor,
                       requests, standing, overs, strays>>
        /\ \A t \in Threads \ {me} : pc'[t] = pc[t]
        /\ pc[me] # "forget" /\ pc'[me] \in {"run", "asked", "blind"}
        /\ pc'[me] = "asked" => requested
    BY <1>7 DEF PollFlag, StopPolling, PollAgain
  <2> QED
    BY <1>1, <2>1 DEF Watched
<1>17. ASSUME NEW t \in Threads \ {me},
              PollFlag(t) \/ PollTarget(t) \/ StopPolling(t) \/ PollAgain(t)
       PROVE  Watched(me)'
  <2>1. calls[t] = <<>>
    BY <1>17 DEF Watched
  <2>2. /\ UNCHANGED <<outdated, flag, watch, lock, owner, expired, calls, editor,
                       requests, standing, overs>>
        /\ \A u \in Threads \ {t} : pc'[u] = pc[u]
        /\ pc'[t] \in {"run", "asked", "stopped", "blind"}
        /\ strays' \subseteq strays \cup {t}
    BY <1>17, <2>1 DEF PollFlag, PollTarget, StopPolling, PollAgain
  <2> QED
    BY <1>1, <1>17, <2>2 DEF Watched
<1>18. ASSUME NEW t \in Threads \ {me}
       PROVE  ~(BudgetBegin(t) \/ BudgetEnd(t) \/ ForgetTarget(t) \/ ClearFlag(t) \/ ClearTarget(t))
  BY DEF BudgetBegin, BudgetEnd, ForgetTarget, ClearFlag, ClearTarget, Watched
<1>8. CASE PollTarget(me)
  <2>1. tripped = generation => Overdue(me)
    <3>1. calls[me] # <<>> => Len(calls[me]) \in 1..Len(calls[me])
      OBVIOUS
    <3> QED
      BY <3>1 DEF Overdue, Watched, Last
  <2>2. strays' \cap Callers \subseteq outdated'
    BY <1>8, <2>1 DEF PollTarget, Watched
  <2> QED
    BY <1>1, <1>8, <2>2 DEF PollTarget, Watched
<1>9. CASE ForgetTarget(me)
  BY <1>1, <1>9 DEF ForgetTarget, Watched
<1>10. CASE ClearFlag(me)
  BY <1>1, <1>10 DEF ClearFlag, Watched
<1>11. CASE ClearTarget(me)
  BY <1>1, <1>11 DEF ClearTarget, Watched
<1>12. ASSUME NEW b \in Budgets, Expire(b) PROVE Watched(me)'
  BY <1>1, <1>12 DEF Expire, Watched
<1>13. CASE WatchdogAim
  <2>1. owner[Last(stack)] = me
    <3>1. Last(stack) \in Budgets
      BY <1>1, <1>13, FrontIsSeq DEF WatchdogAim, TripDue, TypeOK
    <3> QED
      BY <3>1 DEF Budgets
  <2> QED
    BY <1>1, <1>13, <2>1 DEF WatchdogAim, TripDue, Watched
<1>14. CASE WatchdogRaise
  BY <1>1, <1>14 DEF WatchdogRaise, Watched
<1>15. CASE RequestAim
  BY <1>1, <1>15 DEF RequestAim, Watched
<1>16. CASE RequestRaise
  BY <1>1, <1>16 DEF RequestRaise, Watched
<1>19. ASSUME NEW t \in Threads,
              \/ BudgetBegin(t) \/ BudgetEnd(t) \/ Obey(t) \/ ClearFlag(t)
              \/ StopPolling(t) \/ PollAgain(t)
       PROVE  Watched(me)'
  <2>1. CASE t = me
    BY <1>19, <2>1, <1>5, <1>6, <1>7, <1>8, <1>9, <1>10, <1>11 DEF Obey
  <2>2. CASE t # me
    BY <1>19, <2>2, <1>17, <1>18 DEF Obey
  <2> QED
    BY <2>1, <2>2
<1> QED
  BY <1>4, <1>12, <1>13, <1>14, <1>15, <1>16, <1>19 DEF Next, WatchdogStep

(* With one caller, the stack is that thread's own nesting.                *)
THEOREM StackIsTheNesting ==
  ASSUME NEW me, Callers = {me}, Main = me
  PROVE  Spec => [](stack = calls[me])
<1>1. Init => Watched(me)
  BY WatchedInit
<1>2. Watched(me) /\ [Next]_vars => Watched(me)'
  BY WatchedStep
<1>3. Watched(me) => stack = calls[me]
  BY DEF Watched
<1> QED
  BY <1>1, <1>2, <1>3, PTL DEF Spec

(* With one caller, a call that is reported over was past its deadline: a  *)
(* trip counts for the generation it was taken in (budget_end).            *)
THEOREM OverIsOverdue ==
  ASSUME NEW me, Callers = {me}, Main = me
  PROVE  Spec => []OverMeansOverdue
<1>1. Init => Watched(me)
  BY WatchedInit
<1>2. Watched(me) /\ [Next]_vars => Watched(me)'
  BY WatchedStep
<1>3. Watched(me) => OverMeansOverdue
  BY DEF Watched
<1> QED
  BY <1>1, <1>2, <1>3, PTL DEF Spec

(* With one caller beside any threads that only poll, nothing stops it but *)
(* an interrupt or a deadline of its own that passed (budget_end,          *)
(* aimed_here), unless it began a budget with the trip of one around it    *)
(* standing.                                                               *)
THEOREM StopsHaveACause ==
  ASSUME NEW me, Callers = {me}, Main = me
  PROVE  Spec => []CallersStopForACause
<1>1. Init => Watched(me)
  BY WatchedInit
<1>2. Watched(me) /\ [Next]_vars => Watched(me)'
  BY WatchedStep
<1>3. Watched(me) => CallersStopForACause
  BY DEF Watched
<1> QED
  BY <1>1, <1>2, <1>3, PTL DEF Spec

(* With one caller, an innermost call past its deadline is being stopped,  *)
(* or the watchdog is about to stop it (watchdog).                         *)
THEOREM InnermostIsStopped ==
  ASSUME NEW me, Callers = {me}, Main = me
  PROVE  Spec => []InnermostIsEnforced
<1>1. Init => Watched(me)
  BY WatchedInit
<1>2. Watched(me) /\ [Next]_vars => Watched(me)'
  BY WatchedStep
<1>3. Watched(me) => InnermostIsEnforced
  BY DEF Watched, InnermostIsEnforced, TripDue, TypeOK, Free, Watchdog
<1> QED
  BY <1>1, <1>2, <1>3, PTL DEF Spec
=============================================================================
