------------------------------ MODULE SimWorld ------------------------------
(***************************************************************************)
(* A simulated world (src/sim/sched.rs, mod.rs, node.rs): tasks on threads *)
(* of their own that run one at a time, the virtual clock that moves only  *)
(* when none can, the checks of the world's properties before it moves,    *)
(* and the nodes whose programs crash, are killed, stop, exit and restart. *)
(*                                                                         *)
(* The task that holds the baton does what its program says; at a yield    *)
(* point it hands the baton to the scheduler (phase "pick"), which looks   *)
(* for the next one under the world's lock.  The seed's draw is a choice.  *)
(* A program lets the error of a stopped task through: one that catches it *)
(* and goes on keeps the baton, which the README describes.                *)
(***************************************************************************)
EXTENDS Integers, FiniteSets

CONSTANTS
  Programs, Clients, Hooks,   \* the nodes, by kind
  FirstTask,     \* the main task each node starts with
  Busy,          \* bound: nodes whose programs spawn, join and keep handlers
  MaxTasks,      \* bound: tasks a run may make, the coordinator apart
  Delays,        \* bound: sleeps and limits, in ticks
  Afters,        \* bound: restart_after
  Poll,          \* a restart looks again this much later
  Deadline       \* the run's deadline if it has one; bound: the clock

Nodes == Programs \cup Clients \cup Hooks

ASSUME ClockAssumption ==
  /\ Deadline \in Nat /\ Poll \in Nat \ {0}
  /\ Delays \subseteq 0..Deadline /\ Afters \subseteq 0..Deadline
ASSUME NodesAssumption ==
  /\ IsFiniteSet(Nodes) /\ "world" \notin Nodes
  /\ FirstTask \in [Nodes -> 1..Cardinality(Nodes)]
  /\ \A m, n \in Nodes : m # n => FirstTask[m] # FirstTask[n]
  /\ \A t \in 1..Cardinality(Nodes) : \E n \in Nodes : FirstTask[n] = t
ASSUME TasksAssumption == MaxTasks \in Nat /\ MaxTasks >= Cardinality(Nodes)
ASSUME BusyAssumption == Busy \subseteq Programs

World == "world"                       \* node 0
Coordinator == 0
Tasks == 0..MaxTasks
NoTimer == -1
Never == -1                            \* no restart_after
Nothing == [on |-> "nothing"]
Sleeping == [on |-> "sleep"]
Settling == [on |-> "settled"]         \* Wait::Net(COORD_BOX)
Ending(u) == [on |-> "task", task |-> u]

VARIABLES
  limited,               \* the run has a deadline
  now, running, phase, ended,
  status, wait, timer,   \* Sched.status: the three of a blocked task
  checks,                \* Fire::Check timers
  stepped, forced,       \* steps # checked_steps; check_forced
  made,                  \* tasks made so far
  who,                   \* what each runs, on which node; a restart's node and time
  killed,
  up, main, exit, pending, handler,   \* NodeState, and its shutdown handlers
  failure,
  unseen                 \* history: a task ran since the properties were last checked

schedVars == <<now, running, phase, ended, checks, stepped, forced>>
taskVars == <<status, wait, timer>>
whoVars == <<made, who>>
nodeVars == <<up, main, exit, pending, handler>>
vars == <<limited, now, running, phase, ended, checks, stepped, forced, status, wait,
          timer, made, who, killed, up, main, exit, pending, handler,
          failure, unseen>>

Live(t) == status[t] \in {"runnable", "blocked"}
Runs(b, n) == [body |-> b, home |-> n, aim |-> World, at |-> 0]

(* Ids are kept for the programs that live restarts will start. *)
Restarters == {t \in Tasks : Live(t) /\ who[t].body = "restart"}
Room(k) == made + k + Cardinality(Restarters) <= MaxTasks

(* new and start_nodes: every node's main task is there, and the           *)
(* coordinator is about to look whether the run is over.                   *)
Init ==
  /\ limited \in BOOLEAN
  /\ now = 0 /\ running = Coordinator /\ phase = "run" /\ ended = "no"
  /\ checks = {} /\ stepped = FALSE /\ forced = FALSE
  /\ made = Cardinality(Nodes)
  /\ status = [t \in Tasks |-> IF t <= made THEN "runnable" ELSE "none"]
  /\ wait = [t \in Tasks |-> Nothing]
  /\ timer = [t \in Tasks |-> NoTimer]
  /\ who = [t \in Tasks |->
              IF t = Coordinator THEN Runs("coordinator", World)
              ELSE IF t <= made THEN Runs("main", CHOOSE n \in Nodes : FirstTask[n] = t)
              ELSE Runs("none", World)]
  /\ killed = [t \in Tasks |-> FALSE]
  /\ up = [n \in Nodes |-> TRUE]
  /\ main = FirstTask
  /\ exit = [n \in Nodes |-> FALSE]
  /\ pending = [n \in Nodes |-> FALSE]
  /\ handler = [n \in Nodes |-> FALSE]
  /\ failure = FALSE
  /\ unseen = TRUE

-----------------------------------------------------------------------------
(* The scheduler's bookkeeping: block, wake, kick, finish, add_task *)

WaitingOn(w) == {t \in Tasks : status[t] = "blocked" /\ wait[t] = w}

(* The tasks of over end, those of woken can run again (their timers       *)
(* cancelled), and the new ones, whose descriptions new gives, may run.    *)
Schedule(over, woken, new) ==
  LET touched == over \cup woken \cup DOMAIN new IN
  /\ status' = [t \in Tasks |->
                 IF t \in over THEN "done"
                 ELSE IF t \in touched THEN "runnable" ELSE status[t]]
  /\ wait' = [t \in Tasks |-> IF t \in touched THEN Nothing ELSE wait[t]]
  /\ timer' = [t \in Tasks |-> IF t \in touched THEN NoTimer ELSE timer[t]]
  /\ made' = made + Cardinality(DOMAIN new)
  /\ who' = [t \in Tasks |-> IF t \in DOMAIN new THEN new[t] ELSE who[t]]

NoTask == [t \in {} |-> Runs("none", World)]
OneTask(w) == [t \in {made + 1} |-> w]

Block(t, w, until) ==
  /\ status' = [status EXCEPT ![t] = "blocked"]
  /\ wait' = [wait EXCEPT ![t] = w]
  /\ timer' = [timer EXCEPT ![t] = until]

(* The baton goes to the scheduler (reschedule, task_exit). *)
ToScheduler ==
  /\ phase' = "pick" /\ stepped' = TRUE
  /\ UNCHANGED <<now, running, ended, checks, forced>>

Stopped(t) == ended # "no" \/ killed[t]
HasBaton(t) == phase = "run" /\ running = t /\ ~Stopped(t)
Turn(t) == HasBaton(t) /\ unseen' = TRUE

-----------------------------------------------------------------------------
(* What a program does *)

Acts(t) == Turn(t) /\ who[t].body \in {"main", "task", "handler"}

(* A yield point at which it could go on: time.sleep(0), a send, a take. *)
YieldPoint(t) ==
  /\ Acts(t)
  /\ ToScheduler
  /\ UNCHANGED <<taskVars, whoVars, killed, nodeVars, failure>>

Sleep(t, d) ==
  /\ Acts(t) /\ d > 0
  /\ Block(t, Sleeping, now + d)
  /\ ToScheduler
  /\ UNCHANGED <<whoVars, killed, nodeVars, failure>>

(* task.join of a task that has not ended, with or without a limit. *)
Join(t, u, d) ==
  /\ Acts(t) /\ who[t].home \in Busy /\ u # t /\ Live(u) /\ who[u].body = "task"
  /\ Block(t, Ending(u), IF d = Never THEN NoTimer ELSE now + d)
  /\ ToScheduler
  /\ UNCHANGED <<whoVars, killed, nodeVars, failure>>

Spawn(t) ==
  /\ Acts(t) /\ who[t].home \in Busy /\ Room(1)
  /\ Schedule({}, {}, OneTask(Runs("task", who[t].home)))
  /\ ToScheduler
  /\ UNCHANGED <<killed, nodeVars, failure>>

OnShutdown(t) ==
  /\ Acts(t) /\ who[t].home \in Busy /\ ~handler[who[t].home]
  /\ handler' = [handler EXCEPT ![who[t].home] = TRUE]
  /\ UNCHANGED <<schedVars, taskVars, whoVars, killed, up, main, exit, pending,
                 failure>>

-----------------------------------------------------------------------------
(* How a node's process ends: halt_locked, node_task_exit, os.exit *)

OfNode(n) == {t \in Tasks : Live(t) /\ who[t].home = n}

(* The process of n ends: every task of T is told to stop. *)
Stops(n, T) ==
  /\ up' = [up EXCEPT ![n] = FALSE]
  /\ handler' = [handler EXCEPT ![n] = FALSE]
  /\ killed' = [t \in Tasks |-> killed[t] \/ t \in T]

(* task_exit of t: the exit of a main task is its node's, a raise of one   *)
(* fails the run, and the end of a program's main task ends its process.   *)
TaskExit(t, raised) ==
  LET n == who[t].home
      isMain == n # World /\ main[n] = t
      ends == isMain /\ ~killed[t]
      halts == ends /\ n \in Programs /\ up[n]
      others == IF halts THEN OfNode(n) \ {t} ELSE {}
  IN /\ exit' = IF isMain THEN [exit EXCEPT ![n] = TRUE] ELSE exit
     /\ failure' = (failure \/ (ends /\ raised))
     /\ IF halts THEN Stops(n, others)
                 ELSE UNCHANGED <<up, handler, killed>>
     /\ Schedule({t}, (WaitingOn(Ending(t)) \cup WaitingOn(Settling) \cup others) \ {t}, NoTask)
     /\ UNCHANGED <<main, pending>>
     /\ ToScheduler

Return(t, raised) == Acts(t) /\ TaskExit(t, raised)

(* A task that was told to stop unwinds when its turn comes. *)
Unwind(t) ==
  /\ phase = "run" /\ running = t /\ ended = "no" /\ killed[t]
  /\ unseen' = TRUE
  /\ TaskExit(t, TRUE)

(* os.exit: the process ends, and the task unwinds by itself. *)
OsExit(t, failed) ==
  LET n == who[t].home
      others == OfNode(n) \ {t}
  IN /\ Acts(t) /\ n # World
     /\ exit' = [exit EXCEPT ![n] = TRUE]
     /\ failure' = (failure \/ failed)
     /\ Stops(n, OfNode(n))
     /\ Schedule({}, others \cup WaitingOn(Settling), NoTask)
     /\ UNCHANGED <<schedVars, main, pending>>

(* A bug: the tasks of the node are told to stop but not woken. *)
HaltUnheard(n, after) ==
  LET back == after # Never
  IN /\ up[n]
     /\ back => Room(2)
     /\ Stops(n, OfNode(n))
     /\ exit' = [exit EXCEPT ![n] = @ \/ status[main[n]] = "done"]
     /\ pending' = [pending EXCEPT ![n] = back]
     /\ Schedule({}, WaitingOn(Settling),
                 IF back THEN OneTask([body |-> "restart", home |-> World, aim |-> n,
                                       at |-> now + after])
                         ELSE NoTask)
     /\ UNCHANGED <<schedVars, main, failure>>

(* halt, for w.crash, w.kill (they differ in what the disk keeps) and a    *)
(* crash at an effect of the node itself; with restart_after a task of the *)
(* world brings the node back later.                                       *)
HaltNode(n, after) ==
  LET back == after # Never
  IN /\ up[n]
     /\ back => Room(2)
     /\ Stops(n, OfNode(n))
     /\ exit' = [exit EXCEPT ![n] = @ \/ status[main[n]] = "done"]
     /\ pending' = [pending EXCEPT ![n] = back]
     /\ Schedule({}, OfNode(n) \cup WaitingOn(Settling),
                 IF back THEN OneTask([body |-> "restart", home |-> World, aim |-> n,
                                       at |-> now + after])
                         ELSE NoTask)
     /\ UNCHANGED <<schedVars, main, failure>>

-----------------------------------------------------------------------------
(* What a client or a hook does to a node: w.crash, w.kill, w.stop,        *)
(* w.restart; what a node's own crash plan does (maybe_crash).             *)

Directs(t) == Acts(t) /\ who[t].home \notin Programs

Halt(t, n, after) == Directs(t) /\ HaltNode(n, after)

MaybeCrash(t, after) ==
  /\ Acts(t) /\ who[t].home \in Programs
  /\ HaltNode(who[t].home, after)

(* SIGTERM: the handlers run as tasks of the node; without one, a kill. *)
Stop(t, n, after) ==
  /\ Directs(t)
  /\ up[n]
  /\ \/ ~handler[n] /\ HaltNode(n, after)
     \/ LET back == after # Never IN
        /\ handler[n]
        /\ Room(IF back THEN 3 ELSE 1)
        /\ handler' = [handler EXCEPT ![n] = FALSE]
        /\ pending' = [pending EXCEPT ![n] = back]
        /\ Schedule({}, {},
             IF back THEN [u \in {made + 1, made + 2} |->
                            IF u = made + 1 THEN Runs("handler", n)
                            ELSE [body |-> "restart", home |-> World, aim |-> n,
                                  at |-> now + after]]
                     ELSE OneTask(Runs("handler", n)))
        /\ UNCHANGED <<schedVars, killed, up, main, exit, failure>>

(* A bug: the node that is back is still expected back. *)
StartsUnmarked(n) ==
  /\ up' = [up EXCEPT ![n] = TRUE]
  /\ main' = [main EXCEPT ![n] = made + 1]
  /\ exit' = [exit EXCEPT ![n] = FALSE]
  /\ UNCHANGED pending

(* start_node: a fresh process, whose main task is the new one. *)
Starts(n) ==
  /\ up' = [up EXCEPT ![n] = TRUE]
  /\ main' = [main EXCEPT ![n] = made + 1]
  /\ exit' = [exit EXCEPT ![n] = FALSE]
  /\ pending' = [pending EXCEPT ![n] = FALSE]

Restart(t, n) ==
  /\ Directs(t) /\ Room(1)
  /\ ~up[n] /\ OfNode(n) = {}
  /\ Starts(n)
  /\ Schedule({}, {}, OneTask(Runs("main", n)))
  /\ UNCHANGED <<schedVars, killed, handler, failure>>

(* restart_later's task: it sleeps until its time and then looks, every    *)
(* Poll, whether the node is down and its tasks are gone.  Only its timer  *)
(* wakes it, so its time has come when it runs again.                      *)
RestartWaits(t) ==
  LET n == who[t].aim
      early == now < who[t].at
  IN /\ Turn(t) /\ who[t].body = "restart"
     /\ early \/ up[n] \/ OfNode(n) # {}
     /\ Block(t, Sleeping, IF early THEN who[t].at ELSE now + Poll)
     /\ who' = [who EXCEPT ![t].at = 0]
     /\ ToScheduler
     /\ UNCHANGED <<made, killed, nodeVars, failure>>

(* A bug: a node that is down is started beside its last tasks. *)
RestartAtOnce(t) ==
  LET n == who[t].aim IN
  /\ Turn(t) /\ who[t].body = "restart"
  /\ now >= who[t].at /\ ~up[n]
  /\ Starts(n)
  /\ Schedule({t}, WaitingOn(Settling), OneTask(Runs("main", n)))
  /\ ToScheduler
  /\ UNCHANGED <<killed, handler, failure>>

RestartNow(t) ==
  LET n == who[t].aim IN
  /\ Turn(t) /\ who[t].body = "restart"
  /\ now >= who[t].at /\ ~up[n] /\ OfNode(n) = {}
  /\ Starts(n)
  /\ Schedule({t}, WaitingOn(Settling), OneTask(Runs("main", n)))
  /\ ToScheduler
  /\ UNCHANGED <<killed, handler, failure>>

-----------------------------------------------------------------------------
(* The coordinator, and the world's end: end, main_exit *)

Watched == IF Clients = {} THEN Programs ELSE Clients
Settled == Watched # {} /\ \A n \in Watched : exit[n] /\ ~pending[n]

CoordinatorWaits ==
  /\ Turn(Coordinator)
  /\ ~failure /\ ~Settled
  /\ Block(Coordinator, Settling, IF limited THEN Deadline + 1 ELSE NoTimer)
  /\ ToScheduler
  /\ UNCHANGED <<whoVars, killed, nodeVars, failure>>

(* It returns, and the properties are looked at a last time, unless the    *)
(* run failed by itself.                                                   *)
CoordinatorReturns ==
  /\ HasBaton(Coordinator)
  /\ failure \/ Settled
  /\ phase' = "drain"
  /\ ended' \in IF failure THEN {"returned"} ELSE {"returned", "violated"}
  /\ unseen' = (failure /\ unseen)
  /\ UNCHANGED <<now, running, checks, stepped, forced, taskVars, whoVars,
                 killed, nodeVars, failure>>

Left == {t \in Tasks \ {Coordinator} : Live(t)}

(* A bug: only the tasks that could run are unwound. *)
DrainRunnable ==
  /\ phase = "drain"
  /\ phase' = "over"
  /\ Schedule({t \in Left : status[t] = "runnable"}, {}, NoTask)
  /\ UNCHANGED <<now, running, ended, checks, stepped, forced, killed, nodeVars,
                 failure, unseen>>

(* The main task is over: every other one unwinds, in id order, each with  *)
(* the baton to itself and back, and the world reports.                    *)
Drain ==
  /\ phase = "drain"
  /\ phase' = "over"
  /\ Schedule(Left, {}, NoTask)
  /\ UNCHANGED <<now, running, ended, checks, stepped, forced, killed, nodeVars,
                 failure, unseen>>

-----------------------------------------------------------------------------
(* Sched.next, and World.pick around it *)

CanRun == {t \in Tasks : status[t] = "runnable"}
LooksWhenAsked == forced                \* a bug: steps taken ask for no look
CheckDue == stepped \/ forced
Due == ({timer[t] : t \in Tasks} \ {NoTimer}) \cup checks
Quiet == phase = "pick" /\ CanRun = {}

(* The baton goes to the main task, which unwinds. *)
EndWorld(why) ==
  /\ ended' = why /\ running' = Coordinator /\ phase' = "drain"

Picked(t) ==
  /\ phase = "pick" /\ t \in CanRun
  /\ running' = t /\ phase' = "run"
  /\ UNCHANGED <<now, ended, checks, stepped, forced, taskVars, whoVars,
                 killed, nodeVars, failure, unseen>>

(* The budget of steps is spent at the first turn of a pick. *)
StepLimit ==
  /\ phase = "pick" /\ stepped
  /\ EndWorld("step_limit")
  /\ UNCHANGED <<limited, now, checks, stepped, forced, taskVars, whoVars, killed,
                 nodeVars, failure, unseen>>

(* The properties are looked at: they hold (one that must come true in     *)
(* time may ask for another look), or one broke.                           *)
PropertyCheck ==
  /\ Quiet /\ CheckDue
  /\ stepped' = FALSE /\ forced' = FALSE /\ unseen' = FALSE
  /\ \/ /\ UNCHANGED <<now, running, phase, ended>>
        /\ \/ checks' = checks
           \/ checks = {} /\ \E d \in Delays : checks' = {now + d + 1}
     \/ EndWorld("violated") /\ UNCHANGED <<now, checks>>
  /\ UNCHANGED <<taskVars, whoVars, killed, nodeVars, failure>>

Earliest(at) == at \in Due /\ \A a \in Due : at <= a

Later(a, b) == IF a >= b THEN a ELSE b

(* The clock jumps to the earliest timer, and every timer due fires. *)
Advance(at) ==
  LET moved == Later(now, at)
      fired == {t \in Tasks : timer[t] # NoTimer /\ timer[t] <= moved}
  IN /\ Quiet /\ ~CheckDue /\ Earliest(at) /\ at <= Deadline
     /\ now' = moved
     /\ Schedule({}, fired, NoTask)
     /\ checks' = {c \in checks : c > moved}
     /\ forced' = (checks' # checks)
     /\ UNCHANGED <<running, phase, ended, stepped, killed, nodeVars, failure, unseen>>

(* Without a deadline the clock is stopped by its bound, in a run that     *)
(* sets timers for ever and would reach its step limit.                    *)
PastDeadline ==
  /\ Quiet /\ ~CheckDue
  /\ Due # {} /\ \A a \in Due : a > Deadline
  /\ now' = Later(now, Deadline)
  /\ EndWorld(IF limited THEN "deadline" ELSE "step_limit")
  /\ UNCHANGED <<checks, stepped, forced, taskVars, whoVars, killed, nodeVars,
                 failure, unseen>>

Deadlock ==
  /\ Quiet /\ ~CheckDue /\ Due = {}
  /\ EndWorld("deadlock")
  /\ UNCHANGED <<now, checks, stepped, forced, taskVars, whoVars, killed,
                 nodeVars, failure, unseen>>

-----------------------------------------------------------------------------
Program(t) ==
  \/ YieldPoint(t) \/ Spawn(t) \/ OnShutdown(t) \/ Unwind(t)
  \/ \E d \in Delays : Sleep(t, d)
  \/ \E u \in Tasks, d \in Delays \cup {Never} : Join(t, u, d)
  \/ \E bad \in BOOLEAN : Return(t, bad) \/ OsExit(t, bad)
  \/ \E d \in Afters \cup {Never} : MaybeCrash(t, d)

Director(t) ==
  \E n \in Nodes :
    \/ Restart(t, n)
    \/ \E d \in Afters \cup {Never} :
         \/ Halt(t, n, d)
         \/ Stop(t, n, d)

TheWorld ==
  \/ CoordinatorWaits \/ CoordinatorReturns \/ Drain
  \/ \E t \in Tasks : RestartWaits(t) \/ RestartNow(t)

Scheduler ==
  \/ StepLimit \/ PropertyCheck \/ PastDeadline \/ Deadlock
  \/ \E t \in Tasks : Picked(t)
  \/ \E a \in Due : Advance(a)

Next ==
  /\ limited' = limited
  /\ Scheduler \/ TheWorld \/ \E t \in Tasks : Program(t) \/ Director(t)

Spec == Init /\ [][Next]_vars

(* A thread that has the baton runs on.  The step limit is finite: a run   *)
(* that is picked for again and again reaches it.                          *)
FairSpec == Spec /\ WF_vars(Next) /\ SF_vars(StepLimit)

-----------------------------------------------------------------------------
Instants == 0..(2 * Deadline + Poll + 1)
Waits == {Nothing, Sleeping, Settling} \cup {Ending(u) : u \in Tasks}

TypeOK ==
  /\ limited \in BOOLEAN
  /\ now \in 0..Deadline /\ running \in Tasks
  /\ phase \in {"run", "pick", "drain", "over"}
  /\ ended \in {"no", "returned", "deadline", "deadlock", "step_limit", "violated"}
  /\ checks \subseteq Instants
  /\ stepped \in BOOLEAN /\ forced \in BOOLEAN /\ unseen \in BOOLEAN
  /\ made \in Tasks
  /\ status \in [Tasks -> {"none", "runnable", "blocked", "done"}]
  /\ wait \in [Tasks -> Waits]
  /\ timer \in [Tasks -> Instants \cup {NoTimer}]
  /\ who \in [Tasks -> [body : {"coordinator", "main", "task", "handler", "restart", "none"},
                       home : Nodes \cup {World}, aim : Nodes \cup {World}, at : Instants]]
  /\ killed \in [Tasks -> BOOLEAN]
  /\ up \in [Nodes -> BOOLEAN] /\ pending \in [Nodes -> BOOLEAN]
  /\ handler \in [Nodes -> BOOLEAN] /\ exit \in [Nodes -> BOOLEAN]
  /\ main \in [Nodes -> Tasks]
  /\ failure \in BOOLEAN

(* A node's process is its tasks: while the node is up none of its tasks   *)
(* has been told to stop, while it is down all that are left have, and the *)
(* main program among them is the one the node knows.  So a stop reaches   *)
(* every task, those made in the same turn too, and no restart runs beside *)
(* what is left of the process before it.  Of a node whose tasks have all  *)
(* ended it says nothing: a client or a hook stays up then (node.rs:485).  *)
NodeIsItsTasks ==
  \A t \in Tasks : Live(t) /\ who[t].home \in Nodes =>
    /\ killed[t] = ~up[who[t].home]
    /\ who[t].body = "main" => main[who[t].home] = t

(* Wakes are hints that a task retries on, so a lost one would leave it    *)
(* blocked for good (of joins, sleeps and the coordinator: a channel's     *)
(* waits are not modelled): a joiner's task is still to end, the coordinator's    *)
(* run is not over, a sleeper has its timer, and a task that was told to   *)
(* stop is not blocked at all.                                             *)
NoLostWake ==
  \A t \in Tasks : status[t] = "blocked" =>
    /\ \A u \in Tasks : wait[t] = Ending(u) => Live(u)
    /\ wait[t] = Settling /\ phase \in {"run", "pick"} => ~failure /\ ~Settled
    /\ wait[t] = Sleeping => timer[t] # NoTimer
    /\ ~killed[t]

(* A node that is to come back has a task that will bring it back: the     *)
(* coordinator counts on it, and waits for the node as long as it is       *)
(* pending.  A task may also wait for a node that is not (RestartIsAsked). *)
PendingComesBack ==
  phase \in {"run", "pick"} => \A n \in Nodes : pending[n] =>
    \E t \in Tasks : Live(t) /\ who[t].body = "restart" /\ who[t].aim = n

(* The properties are looked at at every instant at which anything ran:    *)
(* before the clock moves, and before the run ends at its deadline or in a *)
(* deadlock (props.rs, sched.rs).                                          *)
InstantsAreSeen ==
  [][now' # now \/ (ended' # ended /\ ended' \in {"deadline", "deadlock"})
       => ~unseen]_vars

(* However it ends, every task of the world is given the baton to unwind   *)
(* with, and the world reports.                                            *)
WorldEnds == <>(phase = "over" /\ Left = {})

(* A node that comes back by itself was stopped with restart_after the     *)
(* last time it was stopped (node.rs, halt: "with restart_after comes back *)
(* that many ms later").  The task of an earlier stop, overtaken by an     *)
(* explicit w.restart, still waits and brings it back.                     *)
RestartIsAsked ==
  [][\A n \in Nodes :
       ~up[n] /\ up'[n] /\ who[running].body = "restart" => pending[n]]_vars

=============================================================================
