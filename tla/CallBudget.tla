----------------------------- MODULE CallBudget -----------------------------
(***************************************************************************)
(* Stopping an evaluation from outside: src/interrupt.rs, polled by every  *)
(* tier, and its two users, the interrupt of the REPL server               *)
(* (repl_serve.rs) and runtime.call_budget (stdlib/runtime.rs).            *)
(*                                                                         *)
(* A stop is one flag and the number of the thread it is for (0: every     *)
(* thread).  The budgets that run are one stack for the whole process, and *)
(* one watchdog watches the top of it.  The watchdog, budget_begin and     *)
(* budget_end hold one lock; the polls, request and clear do not, so they  *)
(* interleave with the two atomics one load or store at a time.            *)
(***************************************************************************)
EXTENDS Integers, Sequences, SequencesExt

CONSTANTS
  Threads,      \* threads that evaluate olang code: their numbers, from 1
  Callers,      \* those of them that call runtime.call_budget
  Main,         \* the one that runs the REPL server's evaluations
  MaxBudgets,   \* bound: how many budgets are begun
  MaxDepth,     \* bound: how deep a thread nests them
  MaxRequests   \* bound: how many interrupts the editor asks for

ASSUME ThreadsAssumption ==
  Threads \subseteq Nat \ {0} /\ Callers \subseteq Threads /\ Main \in Threads
ASSUME BoundsAssumption == MaxBudgets \in Nat /\ MaxDepth \in Nat /\ MaxRequests \in Nat

VARIABLES
  requested,    \* REQUESTED
  target,       \* TARGET
  generation,   \* Watch.generation
  stack,        \* Watch.stack: the budgets running, outermost first
  tripped,      \* Watch.tripped, -1 for None
  lock,         \* who is inside the lock between two stores: 0, a thread, -1 the watchdog
  owner,        \* the thread each budget was begun on, in the order begun
  expired,      \* budgets whose deadline has passed
  calls,        \* the budgets each thread is inside, outermost first
  pc,
  editor,       \* the REPL server's reading thread: between the two stores of request
  requests,     \* interrupts asked so far, for the bound
  standing,     \* history: an interrupt was asked and no evaluation has begun since
  outdated,     \* history: threads that began a budget with the trip of one around it standing
  overs,        \* history: budgets that were reported over
  strays        \* history: threads stopped with no request and no overdue budget of theirs

flag == <<requested, target>>
watch == <<generation, stack, tripped>>
vars == <<requested, target, generation, stack, tripped, lock, owner, expired,
          calls, pc, editor, requests, standing, outdated, overs,
          strays>>

None == -1
Watchdog == -1
Free == 0
Everyone == 0

Budgets == 1..Len(owner)

Init ==
  /\ requested = FALSE
  /\ target = Everyone
  /\ generation = 0
  /\ stack = <<>>
  /\ tripped = None
  /\ lock = Free
  /\ owner = <<>>
  /\ expired = {}
  /\ calls = [t \in Threads |-> <<>>]
  /\ pc = [t \in Threads |-> "run"]
  /\ editor = "idle"
  /\ requests = 0
  /\ standing = FALSE
  /\ outdated = {}
  /\ overs = {}
  /\ strays = {}

Goto(t, label) == pc' = [pc EXCEPT ![t] = label]

-----------------------------------------------------------------------------
(* Budgets *)

BudgetBegin(t) ==
  /\ t \in Callers /\ pc[t] = "run" /\ lock = Free
  /\ Len(owner) < MaxBudgets /\ Len(calls[t]) < MaxDepth
  /\ owner' = Append(owner, t)
  /\ generation' = generation + 1
  /\ stack' = Append(stack, Len(owner'))
  /\ calls' = [calls EXCEPT ![t] = Append(@, Len(owner'))]
  /\ outdated' = IF tripped = generation THEN outdated \cup {t} ELSE outdated
  /\ UNCHANGED <<flag, tripped, lock, expired, pc, editor, requests, standing,
                 overs, strays>>

(* A deadline passes. *)
Expire(b) ==
  /\ b \in Budgets \ expired
  /\ expired' = expired \cup {b}
  /\ UNCHANGED <<outdated, flag, watch, lock, owner, calls, pc, editor, requests,
                 standing, overs, strays>>

(* Mutant: a trip of any generation counts as a trip of this one. *)
TripDueOnce ==
  stack # <<>> /\ Last(stack) \in expired /\ tripped = None

(* The watchdog looks at the top of the stack only. *)
TripDue ==
  stack # <<>> /\ Last(stack) \in expired /\ tripped # generation

WatchdogAim ==
  /\ lock = Free /\ TripDue
  /\ tripped' = generation
  /\ target' = owner[Last(stack)]
  /\ lock' = Watchdog
  /\ UNCHANGED <<outdated, requested, generation, stack, owner, expired, calls, pc,
                 editor, requests, standing, overs, strays>>

WatchdogRaise ==
  /\ lock = Watchdog
  /\ requested' = TRUE
  /\ lock' = Free
  /\ UNCHANGED <<outdated, target, watch, owner, expired, calls, pc, editor, requests,
                 standing, overs, strays>>

(* Mutant: any trip standing counts as this budget's. *)
BudgetEndAnyTrip(t) ==
  LET over == tripped # None IN
  /\ pc[t] \in {"run", "unwind"} /\ calls[t] # <<>> /\ lock = Free
  /\ stack' = IF stack = <<>> THEN stack ELSE Front(stack)
  /\ generation' = generation + 1
  /\ tripped' = IF over THEN None ELSE tripped
  /\ calls' = [calls EXCEPT ![t] = Front(@)]
  /\ overs' = IF over THEN overs \cup {Last(calls[t])} ELSE overs
  /\ IF over /\ target = t
       THEN requested' = FALSE /\ lock' = t /\ Goto(t, "forget")
       ELSE UNCHANGED <<requested, lock>> /\ Goto(t, "run")
  /\ UNCHANGED <<outdated, target, owner, expired, editor, requests, standing, strays>>

(* Mutant: a trip aimed here is not forgotten. *)
BudgetEndKeepsFlag(t) ==
  LET over == tripped = generation IN
  /\ pc[t] \in {"run", "unwind"} /\ calls[t] # <<>> /\ lock = Free
  /\ stack' = IF stack = <<>> THEN stack ELSE Front(stack)
  /\ generation' = generation + 1
  /\ tripped' = IF over THEN None ELSE tripped
  /\ calls' = [calls EXCEPT ![t] = Front(@)]
  /\ overs' = IF over THEN overs \cup {Last(calls[t])} ELSE overs
  /\ Goto(t, "run")
  /\ UNCHANGED <<outdated, flag, lock, owner, expired, editor, requests, standing, strays>>

(* budget_end, after the call returned or unwound: it pops the top of the  *)
(* stack, and forgets a trip of this generation that is aimed here.  The   *)
(* call's answer says whether the budget was over.                         *)
BudgetEnd(t) ==
  LET over == tripped = generation IN
  /\ pc[t] \in {"run", "unwind"} /\ calls[t] # <<>> /\ lock = Free
  /\ stack' = IF stack = <<>> THEN stack ELSE Front(stack)
  /\ generation' = generation + 1
  /\ tripped' = IF over THEN None ELSE tripped
  /\ calls' = [calls EXCEPT ![t] = Front(@)]
  /\ overs' = IF over THEN overs \cup {Last(calls[t])} ELSE overs
  /\ IF over /\ target = t
       THEN requested' = FALSE /\ lock' = t /\ Goto(t, "forget")
       ELSE UNCHANGED <<requested, lock>> /\ Goto(t, "run")
  /\ UNCHANGED <<outdated, target, owner, expired, editor, requests, standing, strays>>

ForgetTarget(t) ==
  /\ pc[t] = "forget"
  /\ target' = Everyone
  /\ lock' = Free
  /\ Goto(t, "run")
  /\ UNCHANGED <<outdated, requested, watch, owner, expired, calls, editor, requests,
                 standing, overs, strays>>

-----------------------------------------------------------------------------
(* The polls: `pending` loads the flag, and the target when it is set. *)

PollFlag(t) ==
  /\ pc[t] = "run" /\ requested
  /\ Goto(t, "asked")
  /\ UNCHANGED <<outdated, flag, watch, lock, owner, expired, calls, editor, requests,
                 standing, overs, strays>>

Overdue(t) == \E i \in 1..Len(calls[t]) : calls[t][i] \in expired

(* A thread that is stopped unwinds to the innermost call_budget, which    *)
(* catches the error; with none left its evaluation ends.                  *)
PollTarget(t) ==
  /\ pc[t] = "asked"
  /\ IF target \in {Everyone, t}
       THEN /\ Goto(t, IF calls[t] = <<>> THEN "stopped" ELSE "unwind")
            /\ strays' = IF standing \/ Overdue(t) THEN strays
                                                   ELSE strays \cup {t}
       ELSE Goto(t, "run") /\ UNCHANGED strays
  /\ UNCHANGED <<outdated, flag, watch, lock, owner, expired, calls, editor, requests,
                 standing, overs>>

(* The thread goes into code that has no poll and comes back from it: a    *)
(* body compiled before the process was armed (budget_begin calls arm), or *)
(* a builtin that waits (chan.recv, os.exec).                              *)
StopPolling(t) ==
  /\ pc[t] = "run"
  /\ Goto(t, "blind")
  /\ UNCHANGED <<outdated, flag, watch, lock, owner, expired, calls, editor, requests,
                 standing, overs, strays>>

PollAgain(t) ==
  /\ pc[t] = "blind"
  /\ Goto(t, "run")
  /\ UNCHANGED <<outdated, flag, watch, lock, owner, expired, calls, editor, requests,
                 standing, overs, strays>>

-----------------------------------------------------------------------------
(* The REPL server: request on its reading thread, clear at the start of   *)
(* the next evaluation.                                                    *)

RequestAim ==
  /\ editor = "idle" /\ requests < MaxRequests
  /\ requests' = requests + 1
  /\ target' = Everyone
  /\ editor' = "aimed"
  /\ standing' = TRUE
  /\ UNCHANGED <<outdated, requested, watch, lock, owner, expired, calls, pc, overs, strays>>

RequestRaise ==
  /\ editor = "aimed"
  /\ requested' = TRUE
  /\ editor' = "idle"
  /\ standing' = TRUE
  /\ UNCHANGED <<outdated, target, watch, lock, owner, expired, calls, pc, requests,
                 overs, strays>>

(* An evaluation over, the next begins. *)
ClearFlag(t) ==
  /\ MaxRequests > 0                       \* only the REPL server clears
  /\ t = Main /\ pc[t] \in {"run", "stopped"} /\ calls[t] = <<>>
  /\ requested' = FALSE
  /\ standing' = FALSE
  /\ Goto(t, "clear")
  /\ UNCHANGED <<outdated, target, watch, lock, owner, expired, calls, editor, requests,
                 overs, strays>>

ClearTarget(t) ==
  /\ pc[t] = "clear"
  /\ target' = Everyone
  /\ Goto(t, "run")
  /\ UNCHANGED <<outdated, requested, watch, lock, owner, expired, calls, editor,
                 requests, standing, overs, strays>>

-----------------------------------------------------------------------------
(* What a thread does on its own: it polls, and unwinds once stopped. *)
Obey(t) ==
  \/ PollFlag(t) \/ PollTarget(t) \/ ForgetTarget(t) \/ ClearTarget(t)
  \/ pc[t] = "unwind" /\ BudgetEnd(t)

WatchdogStep == WatchdogAim \/ WatchdogRaise

Next ==
  \/ \E t \in Threads :
       \/ BudgetBegin(t) \/ BudgetEnd(t) \/ Obey(t) \/ ClearFlag(t)
       \/ StopPolling(t) \/ PollAgain(t)
  \/ \E b \in Budgets : Expire(b)
  \/ WatchdogStep \/ RequestAim \/ RequestRaise

Spec == Init /\ [][Next]_vars

(* The watchdog is woken and time passes.  A thread that is again and      *)
(* again in code that polls comes to a poll there (each call and each turn *)
(* of a loop has one), so its steps are strongly fair.  Nothing makes code *)
(* that does not poll return, and a call may run for ever.                 *)
FairSpec ==
  /\ Spec
  /\ WF_vars(WatchdogStep)
  /\ \A t \in Threads : SF_vars(Obey(t))
  /\ \A b \in 1..MaxBudgets : WF_vars(b \in Budgets /\ Expire(b))

-----------------------------------------------------------------------------
(* Properties *)

(* Every variable has its type: the flag is aimed at a thread or at        *)
(* everyone (TARGET), and the stack holds budgets that were begun.         *)
TypeOK ==
  /\ requested \in BOOLEAN
  /\ target \in Callers \cup {Everyone}
  /\ generation \in Nat
  /\ stack \in Seq(Budgets)
  /\ tripped \in Nat \cup {None}
  /\ lock \in Threads \cup {Free, Watchdog}
  /\ owner \in Seq(Callers)
  /\ expired \subseteq Budgets
  /\ calls \in [Threads -> Seq(Budgets)]
  /\ pc \in [Threads -> {"run", "asked", "unwind", "forget", "clear", "stopped", "blind"}]
  /\ editor \in {"idle", "aimed"}
  /\ requests \in 0..MaxRequests
  /\ standing \in BOOLEAN
  /\ outdated \subseteq Threads
  /\ overs \subseteq Budgets
  /\ strays \subseteq Threads

(* "The budget begun last on this thread ended" (budget_end): what the     *)
(* watchdog has on its stack for a thread is what that thread is inside.   *)
OwnBudgets ==
  \A t \in Threads :
    SelectSeq(stack, LAMBDA b : owner[b] = t) = calls[t]

(* A call is reported over only when its own deadline passed. *)
OverMeansOverdue == overs \subseteq expired

(* A caller is stopped by an interrupt, or by a budget it is inside and    *)
(* that ran out: the code after the call runs on (budget_end, 165-166).    *)
(* The one exception is a thread that began a budget when one around it    *)
(* had tripped already: that trip is of a generation nobody compares with  *)
(* again, and is not forgotten.                                            *)
CallersStopForACause == strays \cap Callers \subseteq outdated

(* "the rest of the program (a window's tasks on other threads) polls past *)
(* it" (27-29).  Not so: pending loads the flag and then the target, and   *)
(* budget_end stores 0 in both in between, which is for every thread.      *)
OthersPollPast == \A t \in strays : \E b \in Budgets : owner[b] = t

(* call_budget "stops the call past ms": the innermost call, past its      *)
(* deadline, has a trip standing against it or one on its way.             *)
InnermostIsEnforced ==
  \A t \in Threads :
    /\ calls[t] # <<>> /\ Last(calls[t]) \in expired
    /\ lock = Free /\ pc[t] = "run" /\ editor = "idle"
    => TripDue \/ (requested /\ target \in {Everyone, t})

(* A call that runs past its deadline ends, unless its thread stays for    *)
(* ever in code that does not poll.                                        *)
OverdueCallEnds ==
  \A b \in 1..MaxBudgets : \A t \in Callers :
    b \in expired /\ Contains(calls[t], b)
      ~> \/ ~Contains(calls[t], b)
         \/ [](pc[t] = "blind")
=============================================================================
