------------------------------ MODULE SimProofs ------------------------------
(***************************************************************************)
(* Proofs about the simulation. Its worlds, for every number of nodes,     *)
(* tasks and restarts: a node is its tasks, no wake is lost, and a node    *)
(* expected back has the task that brings it back. Its disks, for every    *)
(* set of paths and every bound: no name is ever without its inode, what   *)
(* is durable and what waits make up what a file holds, and what a sync    *)
(* said is durable stays so, as long as no name is both a file's and a     *)
(* directory's. Its shrinker, for all faults, worlds, jobs and budgets:    *)
(* what is left is 1-minimal, and the same for any number of jobs, unless  *)
(* the runs were short.                                                    *)
(***************************************************************************)
EXTENDS SimWorld, SimDisk, SimShrink, FiniteSetTheorems, SequenceTheorems,
        WellFoundedInduction, TLAPS

(* Task ids are given out in order, and one is kept for every restart.     *)
Ids ==
  /\ \A t \in Tasks : status[t] = "none" <=> t > made
  /\ \A t \in Tasks : t > made => ~killed[t]
  /\ made + Cardinality(Restarters) <= MaxTasks

(* What runs where. *)
Bodies ==
  \A t \in Tasks :
    /\ who[t].body \in {"main", "task", "handler"} <=> who[t].home \in Nodes
    /\ who[t].body = "restart" => who[t].aim \in Nodes
    /\ who[t].body = "coordinator" <=> t = Coordinator
    /\ t > made => who[t].body = "none"
    /\ killed[t] => who[t].home \in Nodes

(* Who has the baton, and that the coordinator outlives the others. *)
Baton ==
  /\ phase \in {"run", "pick"} => ended = "no"
  /\ phase = "run" => status[running] = "runnable"
  /\ phase # "over" => Live(Coordinator)

(* What a blocked task waits for. *)
Blocked ==
  \A t \in Tasks :
    /\ timer[t] # NoTimer => status[t] = "blocked"
    /\ status[t] = "blocked" /\ t = Coordinator => wait[t] = Settling
    /\ status[t] = "blocked" /\ t # Coordinator => wait[t] # Settling
    /\ \A u \in Tasks : status[t] = "blocked" /\ wait[t] = Ending(u) => who[u].body = "task"

(* A program that is up has not exited, and only programs keep handlers. *)
Processes ==
  \A n \in Nodes :
    /\ handler[n] => n \in Programs
    /\ n \in Programs /\ up[n] => ~exit[n]

Sound ==
  /\ TypeOK /\ Ids /\ Bodies /\ Baton /\ Blocked /\ Processes
  /\ NodeIsItsTasks /\ NoLostWake /\ PendingComesBack

-----------------------------------------------------------------------------
(* Waits are told apart, and the numbers are small. *)

LEMMA WaitsDiffer ==
  /\ Nothing # Sleeping /\ Nothing # Settling /\ Sleeping # Settling
  /\ \A u \in Tasks : Ending(u) # Nothing /\ Ending(u) # Sleeping /\ Ending(u) # Settling
  /\ \A u, v \in Tasks : Ending(u) = Ending(v) => u = v
<1>1. Nothing.on = "nothing" /\ Sleeping.on = "sleep" /\ Settling.on = "settled"
  BY DEF Nothing, Sleeping, Settling
<1>2. \A u \in Tasks : Ending(u).on = "task" /\ Ending(u).task = u
  BY DEF Ending
<1> QED
  BY <1>1, <1>2

LEMMA Numbers ==
  /\ MaxTasks \in Nat /\ Deadline \in Nat /\ Poll \in Nat \ {0}
  /\ Delays \subseteq 0..Deadline /\ Afters \subseteq 0..Deadline
  /\ Coordinator \in Tasks /\ NoTimer \notin Instants /\ 0 \in Instants
  /\ \A a, b \in 0..Deadline : a + b \in Instants /\ a + b + 1 \in Instants /\ a + Poll \in Instants
  /\ Deadline + 1 \in Instants
BY TasksAssumption, ClockAssumption DEF Tasks, Coordinator, NoTimer, Instants

LEMMA RestartersFinite ==
  /\ IsFiniteSet(Restarters) /\ Cardinality(Restarters) \in Nat
  /\ IsFiniteSet(Tasks)
<1>1. IsFiniteSet(Tasks)
  BY FS_Interval, TasksAssumption DEF Tasks
<1>2. Restarters \subseteq Tasks
  BY DEF Restarters
<1>3. IsFiniteSet(Restarters)
  BY <1>1, <1>2, FS_Subset
<1> QED
  BY <1>1, <1>3, FS_CardinalityType

LEMMA NodesFinite == Cardinality(Nodes) \in Nat /\ Cardinality(Nodes) <= MaxTasks
BY FS_CardinalityType, NodesAssumption, TasksAssumption

LEMMA NoRestarters ==
  ASSUME Restarters = {}
  PROVE  Cardinality(Restarters) = 0
BY FS_EmptySet

LEMMA SoundInit == Init => Sound
<1> SUFFICES ASSUME Init PROVE Sound
  OBVIOUS
<1> USE NodesFinite, TasksAssumption, NodesAssumption DEF Tasks, Coordinator, World, NoTimer
<1>1. /\ made = Cardinality(Nodes) /\ made \in Tasks
      /\ \A t \in Tasks : status[t] = IF t <= made THEN "runnable" ELSE "none"
      /\ \A t \in Tasks : wait[t] = Nothing /\ timer[t] = NoTimer /\ killed[t] = FALSE
  BY DEF Init
<1>2. \A t \in Tasks : t # Coordinator /\ t <= made =>
        \E n \in Nodes : FirstTask[n] = t /\ who[t] = Runs("main", n)
  <2> SUFFICES ASSUME NEW t \in Tasks, t # Coordinator, t <= made
               PROVE  \E n \in Nodes : FirstTask[n] = t /\ who[t] = Runs("main", n)
    OBVIOUS
  <2> DEFINE m == CHOOSE n \in Nodes : FirstTask[n] = t
  <2>1. t \in 1..Cardinality(Nodes)
    BY <1>1
  <2>2. m \in Nodes /\ FirstTask[m] = t
    BY <2>1
  <2>3. who[t] = Runs("main", m)
    BY <1>1 DEF Init
  <2> QED
    BY <2>2, <2>3
<1>3. /\ who[Coordinator] = Runs("coordinator", World)
      /\ \A t \in Tasks : t > made => who[t] = Runs("none", World)
  BY <1>1 DEF Init
<1>4. \A t \in Tasks :
        \/ t = Coordinator /\ who[t].body = "coordinator" /\ who[t].home = World
        \/ /\ t # Coordinator /\ t <= made /\ who[t].body = "main"
           /\ who[t].home \in Nodes /\ FirstTask[who[t].home] = t
        \/ t > made /\ who[t].body = "none" /\ who[t].home = World
  <2>1. \A b, h : Runs(b, h).body = b /\ Runs(b, h).home = h
    BY DEF Runs
  <2>2. who[Coordinator].body = "coordinator" /\ who[Coordinator].home = World
    BY <1>3, <2>1
  <2>3. \A t \in Tasks : t > made => who[t].body = "none" /\ who[t].home = World
    BY <1>3, <2>1
  <2>4. \A t \in Tasks : t # Coordinator /\ t <= made =>
          who[t].body = "main" /\ who[t].home \in Nodes /\ FirstTask[who[t].home] = t
    BY <1>2, <2>1
  <2>5. \A t \in Tasks : t <= made \/ t > made
    BY <1>1
  <2> QED
    BY <2>2, <2>3, <2>4, <2>5
<1>5. Ids
  <2>1. Restarters = {}
    BY <1>4 DEF Restarters
  <2> QED
    BY <1>1, <2>1, NoRestarters DEF Ids
<1>6. Bodies
  BY <1>1, <1>4 DEF Bodies
<1>7. TypeOK
  <2>1. \A b \in {"coordinator", "main", "none"}, n \in Nodes \cup {World} :
          Runs(b, n) \in [body : {"coordinator", "main", "task", "handler", "restart", "none"},
                          home : Nodes \cup {World}, aim : Nodes \cup {World}, at : Instants]
    BY Numbers DEF Runs
  <2>2. \A t \in Tasks : who[t] \in [body : {"coordinator", "main", "task", "handler", "restart", "none"},
                          home : Nodes \cup {World}, aim : Nodes \cup {World}, at : Instants]
    BY <1>1, <1>2, <1>3, <2>1
  <2>3. who \in [Tasks -> [body : {"coordinator", "main", "task", "handler", "restart", "none"},
                          home : Nodes \cup {World}, aim : Nodes \cup {World}, at : Instants]]
    BY <2>2 DEF Init
  <2>4. Nothing \in Waits /\ FirstTask \in [Nodes -> Tasks]
    BY DEF Waits
  <2>5. /\ status \in [Tasks -> {"none", "runnable", "blocked", "done"}]
        /\ wait \in [Tasks -> Waits] /\ timer \in [Tasks -> Instants \cup {NoTimer}]
        /\ killed \in [Tasks -> BOOLEAN]
    BY <2>4 DEF Init
  <2>6. /\ now \in 0..Deadline /\ running \in Tasks /\ phase = "run" /\ ended = "no"
        /\ checks \subseteq Instants
    BY ClockAssumption DEF Init
  <2>7. /\ up \in [Nodes -> BOOLEAN] /\ pending \in [Nodes -> BOOLEAN]
        /\ handler \in [Nodes -> BOOLEAN] /\ exit \in [Nodes -> BOOLEAN]
        /\ main \in [Nodes -> Tasks]
    BY <2>4 DEF Init
  <2> QED
    BY <1>1, <2>3, <2>5, <2>6, <2>7 DEF Init, TypeOK
<1>8. Baton
  BY <1>1 DEF Init, Baton, Live
<1>9. Blocked /\ NoLostWake
  BY <1>1 DEF Blocked, NoLostWake
<1>10. Processes /\ PendingComesBack
  BY DEF Init, Processes, PendingComesBack
<1>11. NodeIsItsTasks
  BY <1>1, <1>4 DEF Init, NodeIsItsTasks
<1> QED
  BY <1>5, <1>6, <1>7, <1>8, <1>9, <1>10, <1>11 DEF Sound

(* A step of the scheduler, or of the world's end, that changes no task. *)
LEMMA StillKeeps ==
  ASSUME Sound, TypeOK', Baton',
         UNCHANGED <<taskVars, whoVars, killed, nodeVars, failure>>,
         phase' \in {"run", "pick"} => phase \in {"run", "pick"}
  PROVE  Sound'
<1> USE DEF Sound, taskVars, whoVars, nodeVars
<1>1. Ids'
  BY DEF Ids, Restarters, Live
<1>2. Bodies'
  BY DEF Bodies
<1>3. Blocked'
  BY DEF Blocked
<1>4. Processes'
  BY DEF Processes
<1>5. NodeIsItsTasks'
  BY DEF NodeIsItsTasks, Live
<1>6. NoLostWake'
  BY DEF NoLostWake, Live, Settled
<1>7. PendingComesBack'
  BY DEF PendingComesBack, Live
<1> QED
  BY <1>1, <1>2, <1>3, <1>4, <1>5, <1>6, <1>7

(* A running task blocks. *)
LEMMA BlockKeeps ==
  ASSUME Sound, NEW t \in Tasks, HasBaton(t), NEW w \in Waits, NEW u \in Instants \cup {NoTimer},
         Block(t, w, u),
         TypeOK', phase' = "pick", ended' = ended,
         UNCHANGED <<made, killed, nodeVars, failure>>,
         \A v \in Tasks : /\ who'[v].body = who[v].body /\ who'[v].home = who[v].home
                          /\ who'[v].aim = who[v].aim,
         w = Settling <=> t = Coordinator,
         \A v \in Tasks : w = Ending(v) => Live(v) /\ v # t /\ who[v].body = "task",
         w = Settling => ~failure /\ ~Settled,
         w = Sleeping => u # NoTimer,
         w # Nothing
  PROVE  Sound'
<1> USE DEF Sound, nodeVars
<1>1. /\ status \in [Tasks -> {"none", "runnable", "blocked", "done"}]
      /\ wait \in [Tasks -> Waits] /\ timer \in [Tasks -> Instants \cup {NoTimer}]
  BY DEF TypeOK
<1>2. /\ status' = [status EXCEPT ![t] = "blocked"] /\ wait' = [wait EXCEPT ![t] = w]
      /\ timer' = [timer EXCEPT ![t] = u]
  BY DEF Block
<1>3. phase = "run" /\ running = t /\ ended = "no" /\ ~killed[t] /\ status[t] = "runnable"
  BY DEF HasBaton, Stopped, Baton
<1>4. \A v \in Tasks : Live(v)' <=> Live(v)
  BY <1>1, <1>2, <1>3 DEF Live
<1>5. Ids'
  <2>1. Restarters' = Restarters
    BY <1>4 DEF Restarters
  <2> QED
    BY <1>1, <1>2, <1>3, <2>1 DEF Ids
<1>6. Bodies'
  BY DEF Bodies
<1>7. Baton'
  BY <1>3, <1>4, Numbers DEF Baton
<1>8. Blocked'
  BY <1>1, <1>2, <1>3 DEF Blocked
<1>9. Processes'
  BY DEF Processes
<1>10. NodeIsItsTasks'
  BY <1>4 DEF NodeIsItsTasks
<1>11. NoLostWake'
  <2>1. Settled' <=> Settled
    BY DEF Settled, Watched
  <2> SUFFICES ASSUME NEW v \in Tasks, status'[v] = "blocked"
               PROVE  /\ \A x \in Tasks : wait'[v] = Ending(x) => Live(x)'
                      /\ wait'[v] = Settling /\ phase' \in {"run", "pick"} => ~failure' /\ ~Settled'
                      /\ wait'[v] = Sleeping => timer'[v] # NoTimer
                      /\ ~killed'[v]
    BY DEF NoLostWake
  <2>2. CASE v = t
    BY <1>1, <1>2, <1>3, <1>4, <2>1, <2>2
  <2>3. CASE v # t
    <3>1. status[v] = "blocked" /\ wait'[v] = wait[v] /\ timer'[v] = timer[v]
      BY <1>1, <1>2, <2>3
    <3> QED
      BY <1>3, <1>4, <2>1, <3>1 DEF NoLostWake
  <2> QED
    BY <2>2, <2>3
<1>12. PendingComesBack'
  BY <1>3, <1>4 DEF PendingComesBack
<1> QED
  BY <1>5, <1>6, <1>7, <1>8, <1>9, <1>10, <1>11, <1>12

-----------------------------------------------------------------------------
(* What Schedule does to each task. *)

Descriptions ==
  [body : {"coordinator", "main", "task", "handler", "restart", "none"},
   home : Nodes \cup {World}, aim : Nodes \cup {World}, at : Instants]

LEMMA ScheduleEffects ==
  ASSUME TypeOK, NEW over \in SUBSET Tasks, NEW woken \in SUBSET Tasks, NEW new,
         DOMAIN new \subseteq Tasks, \A t \in DOMAIN new : new[t] \in Descriptions,
         Schedule(over, woken, new)
  PROVE  /\ status' \in [Tasks -> {"none", "runnable", "blocked", "done"}]
         /\ wait' \in [Tasks -> Waits] /\ timer' \in [Tasks -> Instants \cup {NoTimer}]
         /\ who' \in [Tasks -> Descriptions]
         /\ \A t \in Tasks :
              /\ status'[t] = IF t \in over THEN "done"
                              ELSE IF t \in woken \/ t \in DOMAIN new THEN "runnable"
                              ELSE status[t]
              /\ wait'[t] = IF t \in over \/ t \in woken \/ t \in DOMAIN new THEN Nothing
                            ELSE wait[t]
              /\ timer'[t] = IF t \in over \/ t \in woken \/ t \in DOMAIN new THEN NoTimer
                             ELSE timer[t]
              /\ who'[t] = IF t \in DOMAIN new THEN new[t] ELSE who[t]
<1>1. Nothing \in Waits
  BY DEF Waits
<1> QED
  BY <1>1 DEF Schedule, TypeOK, Descriptions

LEMMA NoTaskEffects ==
  ASSUME TypeOK, NEW over \in SUBSET Tasks, NEW woken \in SUBSET Tasks,
         Schedule(over, woken, NoTask)
  PROVE  /\ made' = made /\ who' = who
         /\ status' \in [Tasks -> {"none", "runnable", "blocked", "done"}]
         /\ wait' \in [Tasks -> Waits] /\ timer' \in [Tasks -> Instants \cup {NoTimer}]
         /\ \A t \in Tasks :
              /\ status'[t] = IF t \in over THEN "done" ELSE IF t \in woken THEN "runnable"
                              ELSE status[t]
              /\ wait'[t] = IF t \in over \/ t \in woken THEN Nothing ELSE wait[t]
              /\ timer'[t] = IF t \in over \/ t \in woken THEN NoTimer ELSE timer[t]
<1>1. DOMAIN NoTask = {}
  BY DEF NoTask
<1>2. made' = made
  BY <1>1, FS_EmptySet, Numbers DEF Schedule, TypeOK, Tasks
<1>3. who' = who
  BY <1>1 DEF Schedule, TypeOK
<1> DEFINE new == NoTask
<1>4. /\ Schedule(over, woken, new)
      /\ DOMAIN new \subseteq Tasks /\ \A t \in DOMAIN new : new[t] \in Descriptions
  BY <1>1
<1>6. DOMAIN new = {}
  BY <1>1
<1> HIDE DEF new
<1>5. /\ status' \in [Tasks -> {"none", "runnable", "blocked", "done"}]
      /\ wait' \in [Tasks -> Waits] /\ timer' \in [Tasks -> Instants \cup {NoTimer}]
      /\ \A t \in Tasks :
           /\ status'[t] = IF t \in over THEN "done"
                           ELSE IF t \in woken \/ t \in DOMAIN new THEN "runnable"
                           ELSE status[t]
           /\ wait'[t] = IF t \in over \/ t \in woken \/ t \in DOMAIN new THEN Nothing
                         ELSE wait[t]
           /\ timer'[t] = IF t \in over \/ t \in woken \/ t \in DOMAIN new THEN NoTimer
                          ELSE timer[t]
  BY <1>4, ScheduleEffects
<1> QED
  BY <1>2, <1>3, <1>5, <1>6

(* What a step does that ends some tasks, wakes some and makes one, w. *)
TaskMade(over, woken, w) ==
  /\ made' = made + 1 /\ made + 1 \in Tasks
  /\ status' \in [Tasks -> {"none", "runnable", "blocked", "done"}]
  /\ wait' \in [Tasks -> Waits] /\ timer' \in [Tasks -> Instants \cup {NoTimer}]
  /\ who' \in [Tasks -> Descriptions]
  /\ \A t \in Tasks :
       /\ status'[t] = IF t \in over THEN "done"
                       ELSE IF t \in woken \/ t = made + 1 THEN "runnable"
                       ELSE status[t]
       /\ wait'[t] = IF t \in over \/ t \in woken \/ t = made + 1 THEN Nothing
                     ELSE wait[t]
       /\ timer'[t] = IF t \in over \/ t \in woken \/ t = made + 1 THEN NoTimer
                      ELSE timer[t]
       /\ who'[t] = IF t = made + 1 THEN w ELSE who[t]

LEMMA OneTaskEffects ==
  ASSUME TypeOK, NEW over \in SUBSET Tasks, NEW woken \in SUBSET Tasks,
         NEW w \in Descriptions, made + 1 <= MaxTasks, Schedule(over, woken, OneTask(w))
  PROVE  TaskMade(over, woken, w)
<1>1. DOMAIN OneTask(w) = {made + 1} /\ OneTask(w)[made + 1] = w
  BY DEF OneTask
<1>2. made + 1 \in Tasks
  BY Numbers DEF TypeOK, Tasks
<1>3. made' = made + 1
  BY <1>1, FS_Singleton DEF Schedule
<1>4. /\ DOMAIN OneTask(w) \subseteq Tasks
      /\ \A t \in DOMAIN OneTask(w) : OneTask(w)[t] \in Descriptions
  BY <1>1, <1>2
<1> DEFINE new == OneTask(w)
<1>5. /\ Schedule(over, woken, new) /\ DOMAIN new = {made + 1} /\ new[made + 1] = w
      /\ DOMAIN new \subseteq Tasks /\ \A t \in DOMAIN new : new[t] \in Descriptions
  BY <1>1, <1>4
<1> HIDE DEF new
<1>6. /\ status' \in [Tasks -> {"none", "runnable", "blocked", "done"}]
      /\ wait' \in [Tasks -> Waits] /\ timer' \in [Tasks -> Instants \cup {NoTimer}]
      /\ who' \in [Tasks -> Descriptions]
      /\ \A t \in Tasks :
           /\ status'[t] = IF t \in over THEN "done"
                           ELSE IF t \in woken \/ t \in DOMAIN new THEN "runnable"
                           ELSE status[t]
           /\ wait'[t] = IF t \in over \/ t \in woken \/ t \in DOMAIN new THEN Nothing
                         ELSE wait[t]
           /\ timer'[t] = IF t \in over \/ t \in woken \/ t \in DOMAIN new THEN NoTimer
                          ELSE timer[t]
           /\ who'[t] = IF t \in DOMAIN new THEN new[t] ELSE who[t]
  BY <1>5, ScheduleEffects, ZenonT(80)
<1> QED
  BY <1>2, <1>3, <1>5, <1>6 DEF TaskMade

LEMMA NewTaskEffects ==
  ASSUME TypeOK, NEW w \in Descriptions, made + 1 <= MaxTasks, Schedule({}, {}, OneTask(w))
  PROVE  /\ made' = made + 1 /\ made + 1 \in Tasks
         /\ status' \in [Tasks -> {"none", "runnable", "blocked", "done"}]
         /\ wait' \in [Tasks -> Waits] /\ timer' \in [Tasks -> Instants \cup {NoTimer}]
         /\ who' \in [Tasks -> Descriptions]
         /\ \A t \in Tasks :
              /\ status'[t] = IF t = made + 1 THEN "runnable" ELSE status[t]
              /\ wait'[t] = IF t = made + 1 THEN Nothing ELSE wait[t]
              /\ timer'[t] = IF t = made + 1 THEN NoTimer ELSE timer[t]
              /\ who'[t] = IF t = made + 1 THEN w ELSE who[t]
<1> DEFINE nobody == {}
<1>1. nobody \in SUBSET Tasks /\ Schedule(nobody, nobody, OneTask(w)) /\ \A t : t \notin nobody
  OBVIOUS
<1> HIDE DEF nobody
<1>2. TaskMade(nobody, nobody, w)
  BY <1>1, OneTaskEffects
<1> QED
  BY <1>1, <1>2 DEF TaskMade

(* How many restarts wait. *)
LEMMA RestartersGrow ==
  ASSUME NEW k, Restarters' \subseteq Restarters \cup {k}
  PROVE  Cardinality(Restarters') <= Cardinality(Restarters) + 1
         /\ Cardinality(Restarters') \in Nat
<1>1. /\ IsFiniteSet(Restarters \cup {k}) /\ Cardinality(Restarters) \in Nat
      /\ Cardinality(Restarters \cup {k}) <= Cardinality(Restarters) + 1
  BY FS_AddElement, RestartersFinite
<1>2. Cardinality(Restarters') <= Cardinality(Restarters \cup {k}) /\ IsFiniteSet(Restarters')
  BY <1>1, FS_Subset
<1>3. Cardinality(Restarters \cup {k}) \in Nat /\ Cardinality(Restarters') \in Nat
  BY <1>1, <1>2, FS_CardinalityType
<1> QED
  BY <1>1, <1>2, <1>3

LEMMA RestartersShrink ==
  ASSUME Restarters' \subseteq Restarters
  PROVE  Cardinality(Restarters') <= Cardinality(Restarters)
         /\ Cardinality(Restarters') \in Nat
<1>1. Cardinality(Restarters') <= Cardinality(Restarters) /\ IsFiniteSet(Restarters')
  BY FS_Subset, RestartersFinite
<1> QED
  BY <1>1, FS_CardinalityType

LEMMA RestartersLose ==
  ASSUME NEW t \in Restarters, Restarters' \subseteq Restarters \ {t}
  PROVE  Cardinality(Restarters') + 1 <= Cardinality(Restarters)
         /\ Cardinality(Restarters') \in Nat
<1>1. /\ IsFiniteSet(Restarters \ {t}) /\ Cardinality(Restarters) \in Nat
      /\ Cardinality(Restarters \ {t}) = Cardinality(Restarters) - 1
  BY FS_RemoveElement, RestartersFinite
<1>2. Cardinality(Restarters') <= Cardinality(Restarters \ {t}) /\ IsFiniteSet(Restarters')
  BY <1>1, FS_Subset
<1>3. Cardinality(Restarters \ {t}) \in Nat /\ Cardinality(Restarters') \in Nat
  BY <1>1, <1>2, FS_CardinalityType
<1> QED
  BY <1>1, <1>2, <1>3

-----------------------------------------------------------------------------
(* What a program does. *)

(* The task that acts is a live one of a node that is up. *)
LEMMA ActsOnItsNode ==
  ASSUME Sound, NEW t \in Tasks, Acts(t)
  PROVE  /\ phase = "run" /\ running = t /\ ended = "no" /\ ~killed[t]
         /\ status[t] = "runnable" /\ Live(t) /\ t # Coordinator /\ t <= made
         /\ who[t].home \in Nodes /\ up[who[t].home] /\ unseen' = TRUE
         /\ who[t].body # "restart"
<1>1. /\ phase = "run" /\ running = t /\ ended = "no" /\ ~killed[t] /\ unseen' = TRUE
      /\ who[t].body \in {"main", "task", "handler"}
  BY DEF Acts, Turn, HasBaton, Stopped
<1>2. status[t] = "runnable" /\ Live(t)
  BY <1>1 DEF Sound, Baton, Live
<1>3. t # Coordinator /\ who[t].home \in Nodes
  BY <1>1 DEF Sound, Bodies
<1>4. up[who[t].home]
  BY <1>1, <1>2, <1>3 DEF Sound, NodeIsItsTasks, TypeOK
<1>5. t <= made
  BY <1>1, Numbers DEF Sound, Bodies, TypeOK, Tasks
<1> QED
  BY <1>1, <1>2, <1>3, <1>4, <1>5

LEMMA YieldKeeps ==
  ASSUME Sound, NEW t \in Tasks, YieldPoint(t), limited' = limited
  PROVE  Sound'
<1>1. TypeOK'
  BY ActsOnItsNode DEF YieldPoint, Sound, TypeOK, ToScheduler, taskVars, whoVars, nodeVars
<1>2. Baton'
  BY ActsOnItsNode DEF YieldPoint, Sound, Baton, ToScheduler, taskVars, Live
<1>3. phase \in {"run", "pick"}
  BY ActsOnItsNode DEF YieldPoint
<1> QED
  BY <1>1, <1>2, <1>3, StillKeeps DEF YieldPoint

LEMMA SleepKeeps ==
  ASSUME Sound, NEW t \in Tasks, NEW d \in Delays, Sleep(t, d), limited' = limited
  PROVE  Sound'
<1>1. Acts(t) /\ Block(t, Sleeping, now + d) /\ ToScheduler
      /\ UNCHANGED <<made, who, killed, nodeVars, failure>>
  BY DEF Sleep, whoVars
<1>2. HasBaton(t) /\ t # Coordinator
  BY <1>1, ActsOnItsNode DEF Acts, Turn
<1>3. now + d \in Instants /\ now + d # NoTimer
  BY Numbers DEF Sound, TypeOK
<1>4. Sleeping \in Waits
  BY DEF Waits
<1>5. TypeOK'
  BY <1>1, <1>3, <1>4, ActsOnItsNode DEF Sound, TypeOK, Block, ToScheduler, nodeVars
<1>6. phase' = "pick" /\ ended' = ended
  BY <1>1 DEF ToScheduler
<1> QED
  BY <1>1, <1>2, <1>3, <1>4, <1>5, <1>6, WaitsDiffer, BlockKeeps

LEMMA JoinKeeps ==
  ASSUME Sound, NEW t \in Tasks, NEW u \in Tasks, NEW d \in Delays \cup {Never}, Join(t, u, d),
         limited' = limited
  PROVE  Sound'
<1> DEFINE until == IF d = Never THEN NoTimer ELSE now + d
<1>1. Acts(t) /\ Block(t, Ending(u), until) /\ ToScheduler /\ u # t /\ Live(u)
      /\ who[u].body = "task"
      /\ UNCHANGED <<made, who, killed, nodeVars, failure>>
  BY DEF Join, whoVars
<1>2. HasBaton(t) /\ t # Coordinator
  BY <1>1, ActsOnItsNode DEF Acts, Turn
<1>3. until \in Instants \cup {NoTimer}
  BY Numbers DEF Sound, TypeOK
<1>4. Ending(u) \in Waits
  BY DEF Waits
<1> HIDE DEF until
<1>5. TypeOK'
  BY <1>1, <1>3, <1>4, ActsOnItsNode DEF Sound, TypeOK, Block, ToScheduler, nodeVars
<1>6. phase' = "pick" /\ ended' = ended
  BY <1>1 DEF ToScheduler
<1>7. /\ Ending(u) # Settling /\ Ending(u) # Sleeping /\ Ending(u) # Nothing
      /\ \A v \in Tasks : Ending(u) = Ending(v) => v = u
  BY WaitsDiffer
<1> QED
  BY <1>1, <1>2, <1>3, <1>4, <1>5, <1>6, <1>7, BlockKeeps

LEMMA CoordinatorWaitsKeeps ==
  ASSUME Sound, CoordinatorWaits, limited' = limited
  PROVE  Sound'
<1> DEFINE until == IF limited THEN Deadline + 1 ELSE NoTimer
<1>1. /\ Turn(Coordinator) /\ ~failure /\ ~Settled /\ Block(Coordinator, Settling, until)
      /\ ToScheduler /\ UNCHANGED <<made, who, killed, nodeVars, failure>>
  BY DEF CoordinatorWaits, whoVars
<1>2. HasBaton(Coordinator) /\ Coordinator \in Tasks /\ unseen' = TRUE
  BY <1>1, Numbers DEF Turn
<1>3. until \in Instants \cup {NoTimer}
  BY Numbers
<1>4. Settling \in Waits
  BY DEF Waits
<1> HIDE DEF until
<1>5. TypeOK'
  BY <1>1, <1>2, <1>3, <1>4 DEF Sound, TypeOK, Block, ToScheduler, nodeVars
<1>6. phase' = "pick" /\ ended' = ended
  BY <1>1 DEF ToScheduler
<1> QED
  BY <1>1, <1>2, <1>3, <1>4, <1>5, <1>6, WaitsDiffer, BlockKeeps

LEMMA RestartWaitsKeeps ==
  ASSUME Sound, NEW t \in Tasks, RestartWaits(t), limited' = limited
  PROVE  Sound'
<1> DEFINE until == IF now < who[t].at THEN who[t].at ELSE now + Poll
<1>1. /\ Turn(t) /\ who[t].body = "restart" /\ Block(t, Sleeping, until)
      /\ who' = [who EXCEPT ![t].at = 0]
      /\ ToScheduler /\ UNCHANGED <<made, killed, nodeVars, failure>>
  BY DEF RestartWaits
<1>2. HasBaton(t) /\ t # Coordinator /\ unseen' = TRUE
  BY <1>1 DEF Turn, Sound, Bodies
<1>3. until \in Instants
  BY Numbers DEF Sound, TypeOK
<1>4. Sleeping \in Waits
  BY DEF Waits
<1> HIDE DEF until
<1>5. \A v \in Tasks : /\ who'[v].body = who[v].body /\ who'[v].home = who[v].home
                       /\ who'[v].aim = who[v].aim
  BY <1>1 DEF Sound, TypeOK
<1>6. TypeOK'
  <2> DEFINE tired == [who[t] EXCEPT !.at = 0]
  <2>1. who \in [Tasks -> Descriptions] /\ who' = [who EXCEPT ![t] = tired]
    BY <1>1 DEF Sound, TypeOK, Descriptions
  <2>2. tired \in Descriptions
    BY <2>1, Numbers DEF Descriptions
  <2> HIDE DEF tired
  <2>3. who' \in [Tasks -> Descriptions]
    BY <2>1, <2>2
  <2> QED
    BY <1>1, <1>2, <1>3, <1>4, <2>3
       DEF Sound, TypeOK, Block, ToScheduler, nodeVars, Descriptions
<1>7. phase' = "pick" /\ ended' = ended
  BY <1>1 DEF ToScheduler
<1> QED
  BY <1>1, <1>2, <1>3, <1>4, <1>5, <1>6, <1>7, WaitsDiffer, Numbers, BlockKeeps

LEMMA OnShutdownKeeps ==
  ASSUME Sound, NEW t \in Tasks, OnShutdown(t), limited' = limited
  PROVE  Sound'
<1> USE DEF schedVars, taskVars, whoVars
<1>1. /\ handler' = [handler EXCEPT ![who[t].home] = TRUE] /\ who[t].home \in Programs
      /\ who[t].home \in Nodes
      /\ UNCHANGED <<now, running, phase, ended, checks, stepped, forced, status, wait, timer,
                     made, who, killed, up, main, exit, pending, failure>>
      /\ unseen' = TRUE
  BY ActsOnItsNode, BusyAssumption DEF OnShutdown
<1>2. TypeOK'
  <2>1. handler' \in [Nodes -> BOOLEAN]
    BY <1>1 DEF Sound, TypeOK
  <2> QED
    BY <1>1, <2>1 DEF Sound, TypeOK
<1>3. Processes'
  BY <1>1 DEF Sound, Processes, TypeOK
<1>4. Ids' /\ Bodies'
  BY <1>1 DEF Sound, Ids, Bodies, Restarters, Live
<1>5. Baton' /\ Blocked'
  BY <1>1 DEF Sound, Baton, Blocked, Live
<1>6. NodeIsItsTasks' /\ PendingComesBack'
  BY <1>1 DEF Sound, NodeIsItsTasks, PendingComesBack, Live
<1>7. NoLostWake'
  BY <1>1 DEF Sound, NoLostWake, Live, Settled, Watched
<1> QED
  BY <1>2, <1>3, <1>4, <1>5, <1>6, <1>7 DEF Sound

LEMMA SpawnKeeps ==
  ASSUME Sound, NEW t \in Tasks, Spawn(t), limited' = limited
  PROVE  Sound'
<1> DEFINE n == who[t].home
           w == Runs("task", n)
<1>1. /\ phase = "run" /\ running = t /\ ended = "no" /\ Live(t) /\ t <= made /\ n \in Nodes
      /\ up[n] /\ unseen' = TRUE
  BY ActsOnItsNode DEF Spawn
<1>2. /\ Room(1) /\ Schedule({}, {}, OneTask(w)) /\ ToScheduler
      /\ UNCHANGED <<killed, up, main, exit, pending, handler, failure>>
  BY DEF Spawn, nodeVars
<1>3. w \in Descriptions /\ w.body = "task" /\ w.home = n
  BY <1>1, Numbers DEF Descriptions, Runs
<1>4. made + 1 + Cardinality(Restarters) <= MaxTasks /\ Cardinality(Restarters) \in Nat
      /\ made \in Tasks /\ made \in Nat
  BY <1>2, RestartersFinite DEF Room, Sound, TypeOK, Tasks
<1>5. made + 1 <= MaxTasks
  BY <1>4, Numbers
<1> HIDE DEF n, w
<1>6. /\ made' = made + 1 /\ made + 1 \in Tasks
      /\ status' \in [Tasks -> {"none", "runnable", "blocked", "done"}]
      /\ wait' \in [Tasks -> Waits] /\ timer' \in [Tasks -> Instants \cup {NoTimer}]
      /\ who' \in [Tasks -> Descriptions]
      /\ \A v \in Tasks :
           /\ status'[v] = IF v = made + 1 THEN "runnable" ELSE status[v]
           /\ wait'[v] = IF v = made + 1 THEN Nothing ELSE wait[v]
           /\ timer'[v] = IF v = made + 1 THEN NoTimer ELSE timer[v]
           /\ who'[v] = IF v = made + 1 THEN w ELSE who[v]
  BY <1>2, <1>3, <1>5, NewTaskEffects DEF Sound
<1>7. phase' = "pick" /\ UNCHANGED <<now, running, ended, checks, forced>> /\ stepped' = TRUE
  BY <1>2 DEF ToScheduler
<1>8. status[made + 1] = "none" /\ ~killed[made + 1] /\ who[made + 1].body = "none"
  BY <1>4, <1>6 DEF Sound, Ids, Bodies
<1>9. \A v \in Tasks : Live(v)' <=> Live(v) \/ v = made + 1
  BY <1>6 DEF Live
<1>10. TypeOK'
  BY <1>1, <1>2, <1>6, <1>7 DEF Sound, TypeOK, Descriptions
<1>11. Ids'
  <2>1. Restarters' \subseteq Restarters
    BY <1>3, <1>6, <1>9 DEF Restarters
  <2>2. made' + Cardinality(Restarters') <= MaxTasks
    BY <1>4, <1>6, <2>1, RestartersShrink, Numbers
  <2>3. \A v \in Tasks : v > made + 1 => v > made /\ v # made + 1
    BY <1>4 DEF Tasks
  <2>4. \A v \in Tasks : v > made /\ v # made + 1 => v > made + 1
    BY <1>4 DEF Tasks
  <2> QED
    BY <1>2, <1>4, <1>6, <2>2, <2>3, <2>4 DEF Sound, Ids
<1>12. Bodies'
  <2>1. \A v \in Tasks : v > made + 1 => v > made /\ v # made + 1
    BY <1>4 DEF Tasks
  <2>2. made + 1 # Coordinator
    BY <1>4 DEF Coordinator
  <2>3. n \in Nodes /\ ~(made + 1 > made + 1)
    BY <1>1, <1>4 DEF n
  <2> QED
    BY <1>2, <1>3, <1>6, <2>1, <2>2, <2>3 DEF Sound, Bodies
<1>13. Baton'
  BY <1>1, <1>7, <1>9, Numbers DEF Sound, Baton
<1>14. Blocked'
  <2>1. \A v, u \in Tasks : status'[v] = "blocked" /\ wait'[v] = Ending(u) => who[u].body = "task"
    BY <1>6 DEF Sound, Blocked
  <2>2. \A u \in Tasks : who[u].body = "task" => who'[u].body = "task"
    BY <1>6, <1>8
  <2> QED
    BY <1>6, <2>1, <2>2 DEF Sound, Blocked
<1>15. Processes'
  BY <1>2 DEF Sound, Processes
<1>16. NodeIsItsTasks'
  <2> SUFFICES ASSUME NEW v \in Tasks, Live(v)', who'[v].home \in Nodes
               PROVE  /\ killed'[v] = ~up'[who'[v].home]
                      /\ who'[v].body = "main" => main'[who'[v].home] = v
    BY DEF NodeIsItsTasks
  <2>1. CASE v = made + 1
    BY <1>1, <1>2, <1>3, <1>6, <1>8, <2>1 DEF n, Sound, TypeOK
  <2>2. CASE v # made + 1
    BY <1>2, <1>6, <1>9, <2>2 DEF Sound, NodeIsItsTasks
  <2> QED
    BY <2>1, <2>2
<1>17. NoLostWake'
  <2>1. Settled' <=> Settled
    BY <1>2 DEF Settled, Watched
  <2>2. \A v \in Tasks : status'[v] = "blocked" => status[v] = "blocked"
           /\ wait'[v] = wait[v] /\ timer'[v] = timer[v]
    BY <1>6
  <2> QED
    BY <1>1, <1>2, <1>9, <2>1, <2>2 DEF Sound, NoLostWake
<1>18. PendingComesBack'
  <2>1. \A v \in Tasks : Live(v) => v # made + 1
    BY <1>8 DEF Live
  <2> QED
    BY <1>1, <1>2, <1>6, <1>9, <2>1 DEF Sound, PendingComesBack
<1> QED
  BY <1>10, <1>11, <1>12, <1>13, <1>14, <1>15, <1>16, <1>17, <1>18 DEF Sound

-----------------------------------------------------------------------------
(* Tasks end, are woken and are made: what is left to show of a step that  *)
(* schedules is what it does to the nodes.                                 *)

LEMMA MovesKeeps ==
  ASSUME Sound, TypeOK', Processes', NodeIsItsTasks', PendingComesBack',
         NEW over \in SUBSET Tasks, NEW woken \in SUBSET Tasks, NEW fresh \in SUBSET Tasks,
         phase \in {"run", "pick"},
         (phase' = phase /\ running \notin over) \/ phase' = "pick",
         ended' = ended, running' = running,
         \A v \in Tasks : v \in over \/ v \in woken => Live(v),
         Coordinator \notin over,
         made <= made',
         \A v \in Tasks : v \in fresh <=> v > made /\ v <= made',
         \A v \in Tasks :
           /\ status'[v] = IF v \in over THEN "done"
                           ELSE IF v \in woken \/ v \in fresh THEN "runnable" ELSE status[v]
           /\ wait'[v] = IF v \in over \/ v \in woken \/ v \in fresh THEN Nothing ELSE wait[v]
           /\ timer'[v] = IF v \in over \/ v \in woken \/ v \in fresh THEN NoTimer ELSE timer[v],
         \A v \in Tasks : v \notin fresh => who'[v] = who[v],
         \A v \in Tasks : v \in fresh =>
           /\ who'[v].body \in {"main", "task", "handler"} <=> who'[v].home \in Nodes
           /\ who'[v].body = "restart" => who'[v].aim \in Nodes
           /\ who'[v].body # "coordinator"
           /\ ~killed'[v],
         made' + Cardinality(Restarters') <= MaxTasks,
         \A v \in Tasks : killed'[v] =>
           \/ killed[v]
           \/ who[v].home \in Nodes /\ Live(v)
              /\ (v \in over \/ v \in woken \/ status[v] = "runnable"),
         \A u, v \in Tasks : u \in over /\ v \in WaitingOn(Ending(u)) => v \in over \/ v \in woken,
         \/ \A v \in Tasks : v \in WaitingOn(Settling) => v \in woken
         \/ failure' = failure /\ (Settled' => Settled)
  PROVE  Sound'
<1>1. /\ made \in Nat /\ made' \in Nat /\ made \in Tasks /\ made' \in Tasks
      /\ status \in [Tasks -> {"none", "runnable", "blocked", "done"}] /\ running \in Tasks
  BY Numbers DEF Sound, TypeOK, Tasks
<1>2. \A v \in Tasks : v \in fresh => status[v] = "none" /\ ~killed[v] /\ who[v].body = "none"
  BY DEF Sound, Ids, Bodies
<1>3. \A v \in Tasks : v \in over \/ v \in woken => status[v] # "none" /\ v <= made
  <2>1. \A v \in Tasks : v <= made \/ v > made
    BY <1>1 DEF Tasks
  <2> QED
    BY <2>1 DEF Live, Sound, Ids
<1>4. \A v \in Tasks : v > made' => v > made /\ v \notin fresh /\ v \notin over /\ v \notin woken
  BY <1>1, <1>3 DEF Tasks
<1>5. \A v \in Tasks : ~(v > made') => v <= made \/ v \in fresh
  BY <1>1 DEF Tasks
<1>6. \A v \in Tasks : v <= made => ~(v > made)
  BY <1>1 DEF Tasks
<1>7. \A v \in Tasks : Live(v)' <=> (Live(v) /\ v \notin over) \/ v \in fresh
  BY <1>2, <1>3 DEF Live
<1>8. Ids'
  <2>1. \A v \in Tasks : status'[v] = "none" <=> v > made'
    BY <1>2, <1>3, <1>4, <1>5, <1>6 DEF Sound, Ids
  <2>2. \A v \in Tasks : v > made' => ~killed'[v]
    <3>1. \A v \in Tasks : Live(v) => ~(v > made)
      BY DEF Live, Sound, Ids
    <3> QED
      BY <1>4, <3>1 DEF Sound, Ids
  <2> QED
    BY <2>1, <2>2 DEF Ids
<1>9. Bodies'
  <2> SUFFICES ASSUME NEW v \in Tasks
               PROVE  /\ who'[v].body \in {"main", "task", "handler"} <=> who'[v].home \in Nodes
                      /\ who'[v].body = "restart" => who'[v].aim \in Nodes
                      /\ who'[v].body = "coordinator" <=> v = Coordinator
                      /\ v > made' => who'[v].body = "none"
                      /\ killed'[v] => who'[v].home \in Nodes
    BY DEF Bodies
  <2>1. CASE v \in fresh
    <3>1. v # Coordinator /\ ~(v > made')
      BY <1>1, <2>1 DEF Coordinator, Tasks
    <3> QED
      BY <2>1, <3>1
  <2>2. CASE v \notin fresh
    BY <1>4, <2>2 DEF Sound, Bodies
  <2> QED
    BY <2>1, <2>2
<1>10. Baton'
  <2>1. phase' = "run" => status'[running'] = "runnable"
    BY <1>1, <1>7 DEF Sound, Baton
  <2>2. Live(Coordinator)'
    <3>1. phase # "over"
      OBVIOUS
    <3> QED
      BY <1>7, <3>1, Numbers DEF Sound, Baton
  <2> QED
    BY <2>1, <2>2 DEF Sound, Baton
<1>11. Blocked'
  <2>1. \A v \in Tasks : status'[v] = "blocked" =>
          /\ status[v] = "blocked" /\ wait'[v] = wait[v]
    OBVIOUS
  <2>2. \A v \in Tasks : timer'[v] # NoTimer => status'[v] = "blocked"
    BY DEF Sound, Blocked
  <2>3. \A u \in Tasks : who[u].body = "task" => who'[u].body = "task"
    BY <1>2
  <2> QED
    BY <2>1, <2>2, <2>3 DEF Sound, Blocked
<1>12. NoLostWake'
  <2> SUFFICES ASSUME NEW v \in Tasks, status'[v] = "blocked"
               PROVE  /\ \A u \in Tasks : wait'[v] = Ending(u) => Live(u)'
                      /\ wait'[v] = Settling /\ phase' \in {"run", "pick"} => ~failure' /\ ~Settled'
                      /\ wait'[v] = Sleeping => timer'[v] # NoTimer
                      /\ ~killed'[v]
    BY DEF NoLostWake
  <2>1. /\ status[v] = "blocked" /\ wait'[v] = wait[v] /\ timer'[v] = timer[v]
        /\ v \notin over /\ v \notin woken
    OBVIOUS
  <2>2. \A u \in Tasks : wait[v] = Ending(u) => Live(u)'
    <3> SUFFICES ASSUME NEW u \in Tasks, wait[v] = Ending(u) PROVE Live(u)'
      OBVIOUS
    <3>1. Live(u)
      BY <2>1 DEF Sound, NoLostWake
    <3>2. v \in WaitingOn(Ending(u))
      BY <2>1 DEF WaitingOn
    <3> QED
      BY <1>7, <2>1, <3>1, <3>2
  <2>3. wait[v] = Settling => ~failure' /\ ~Settled'
    <3>1. wait[v] = Settling => v \in WaitingOn(Settling) /\ ~failure /\ ~Settled
      BY <2>1 DEF WaitingOn, Sound, NoLostWake
    <3> QED
      BY <2>1, <3>1
  <2>4. wait[v] = Sleeping => timer[v] # NoTimer
    BY <2>1 DEF Sound, NoLostWake
  <2>5. ~killed'[v]
    BY <2>1 DEF Sound, NoLostWake
  <2> QED
    BY <2>1, <2>2, <2>3, <2>4, <2>5
<1> QED
  BY <1>8, <1>9, <1>10, <1>11, <1>12 DEF Sound

(* The exit of a main task is a program's last.                            *)
LEMMA TaskExitKeeps ==
  ASSUME Sound, NEW t \in Tasks, NEW raised \in BOOLEAN, TaskExit(t, raised),
         phase = "run", running = t, who[t].home \in Nodes, Live(t), unseen' \in BOOLEAN,
         limited' = limited
  PROVE  Sound'
<1> DEFINE n == who[t].home
           ends == main[n] = t /\ ~killed[t]
           halts == ends /\ n \in Programs /\ up[n]
           others == IF halts THEN OfNode(n) \ {t} ELSE {}
           over == {t}
           woken == (WaitingOn(Ending(t)) \cup WaitingOn(Settling) \cup others) \ {t}
<1>1. n \in Nodes /\ n # World
  BY NodesAssumption DEF World
<1>2. /\ exit' = IF main[n] = t THEN [exit EXCEPT ![n] = TRUE] ELSE exit
      /\ failure' = (failure \/ (ends /\ raised))
      /\ Schedule(over, woken, NoTask)
      /\ UNCHANGED <<main, pending>> /\ ToScheduler
      /\ IF halts THEN Stops(n, others) ELSE UNCHANGED <<up, handler, killed>>
  BY <1>1 DEF TaskExit
<1>3. others \subseteq Tasks /\ \A v \in others : Live(v) /\ who[v].home = n /\ v # t
  BY DEF OfNode
<1>4. over \in SUBSET Tasks /\ woken \in SUBSET Tasks /\ t \notin woken
      /\ \A v \in Tasks : v \in over <=> v = t
  BY <1>3 DEF WaitingOn
<1>5. \A v \in Tasks : v \in woken => Live(v)
  BY <1>3 DEF WaitingOn, Live
<1>6. /\ \A u, v \in Tasks : u \in over /\ v \in WaitingOn(Ending(u)) => v \in over \/ v \in woken
      /\ \A v \in Tasks : v \in WaitingOn(Settling) /\ v # t => v \in woken
      /\ \A v \in Tasks : v \in others => v \in woken
  BY <1>3
<1>7. status[t] = "runnable" /\ t # Coordinator /\ who[t].body # "restart" /\ ended = "no"
  BY <1>1, NodesAssumption DEF Sound, Baton, Bodies
<1>8. \A v \in Tasks : v \in WaitingOn(Settling) => v \in woken
  BY <1>6, <1>7 DEF WaitingOn
<1>9. \A v \in Tasks : halts => (v \in others <=> v \in OfNode(n) /\ v # t)
  OBVIOUS
<1>10. ~halts => others = {}
  OBVIOUS
<1> HIDE DEF over, woken, others
<1>11. /\ made' = made /\ who' = who
       /\ status' \in [Tasks -> {"none", "runnable", "blocked", "done"}]
       /\ wait' \in [Tasks -> Waits] /\ timer' \in [Tasks -> Instants \cup {NoTimer}]
       /\ \A v \in Tasks :
            /\ status'[v] = IF v \in over THEN "done" ELSE IF v \in woken THEN "runnable"
                            ELSE status[v]
            /\ wait'[v] = IF v \in over \/ v \in woken THEN Nothing ELSE wait[v]
            /\ timer'[v] = IF v \in over \/ v \in woken THEN NoTimer ELSE timer[v]
  BY <1>2, <1>4, NoTaskEffects DEF Sound
<1>12. /\ halts => /\ up' = [up EXCEPT ![n] = FALSE] /\ handler' = [handler EXCEPT ![n] = FALSE]
                   /\ killed' = [v \in Tasks |-> killed[v] \/ v \in others]
       /\ ~halts => UNCHANGED <<up, handler, killed>>
  BY <1>2 DEF Stops
<1>13. phase' = "pick" /\ stepped' = TRUE /\ UNCHANGED <<now, running, ended, checks, forced>>
  BY <1>2 DEF ToScheduler
<1>14. /\ up \in [Nodes -> BOOLEAN] /\ handler \in [Nodes -> BOOLEAN] /\ exit \in [Nodes -> BOOLEAN]
       /\ killed \in [Tasks -> BOOLEAN] /\ main \in [Nodes -> Tasks] /\ made \in Nat
  BY Numbers DEF Sound, TypeOK, Tasks
<1>15. TypeOK'
  <2>1. killed' \in [Tasks -> BOOLEAN] /\ up' \in [Nodes -> BOOLEAN] /\ handler' \in [Nodes -> BOOLEAN]
    BY <1>12, <1>14
  <2>2. exit' \in [Nodes -> BOOLEAN] /\ failure' \in BOOLEAN
    BY <1>2, <1>14 DEF Sound, TypeOK
  <2> HIDE DEF halts, ends
  <2> QED
    BY <1>2, <1>11, <1>13, <2>1, <2>2 DEF Sound, TypeOK
<1>16. up[n] = ~killed[t]
  BY <1>1, <1>14 DEF Sound, NodeIsItsTasks
<1>17. Processes'
  <2> SUFFICES ASSUME NEW m \in Nodes
               PROVE  (handler'[m] => m \in Programs) /\ (m \in Programs /\ up'[m] => ~exit'[m])
    BY DEF Processes
  <2>1. handler'[m] => handler[m]
    BY <1>12, <1>14
  <2>2. up'[m] => up[m]
    BY <1>12, <1>14
  <2>3. m = n /\ m \in Programs /\ main[n] = t => ~up'[m]
    BY <1>12, <1>14, <1>16
  <2>4. exit'[m] => exit[m] \/ (m = n /\ main[n] = t)
    BY <1>2, <1>14
  <2> QED
    BY <2>1, <2>2, <2>3, <2>4 DEF Sound, Processes
<1>18. \A v \in Tasks : Live(v)' <=> Live(v) /\ v # t
  BY <1>4, <1>5, <1>11 DEF Live
<1>19. NodeIsItsTasks'
  <2> SUFFICES ASSUME NEW v \in Tasks, Live(v), v # t, who[v].home \in Nodes
               PROVE  /\ killed'[v] = ~up'[who[v].home]
                      /\ who[v].body = "main" => main[who[v].home] = v
    BY <1>2, <1>11, <1>18 DEF NodeIsItsTasks
  <2>1. killed[v] = ~up[who[v].home] /\ (who[v].body = "main" => main[who[v].home] = v)
    BY DEF Sound, NodeIsItsTasks
  <2>2. CASE halts
    <3>1. v \in others <=> who[v].home = n
      BY <1>9, <2>2 DEF OfNode
    <3> QED
      BY <1>12, <1>14, <2>1, <2>2, <3>1
  <2>3. CASE ~halts
    BY <1>12, <2>1, <2>3
  <2> QED
    BY <2>2, <2>3
<1>20. PendingComesBack'
  BY <1>2, <1>7, <1>11, <1>18 DEF Sound, PendingComesBack
<1>21. made' + Cardinality(Restarters') <= MaxTasks
  <2>1. Restarters' \subseteq Restarters
    BY <1>11, <1>18 DEF Restarters
  <2> QED
    BY <1>11, <1>14, <2>1, RestartersShrink, RestartersFinite, Numbers DEF Sound, Ids
<1>22. \A v \in Tasks : killed'[v] =>
         killed[v] \/ (who[v].home \in Nodes /\ Live(v) /\ v \in woken)
  BY <1>1, <1>3, <1>6, <1>12
<1> DEFINE fresh == {}
<1>23. fresh \in SUBSET Tasks /\ \A v \in Tasks : v \in fresh <=> v > made /\ v <= made'
  BY <1>11, <1>14 DEF Tasks
<1>24. \A v : v \notin fresh
  OBVIOUS
<1> HIDE DEF fresh
<1>25. \A v \in Tasks : v \in over \/ v \in woken => Live(v)
  BY <1>4, <1>5
<1>26. Coordinator \notin over /\ made <= made'
  BY <1>4, <1>7, <1>11, <1>14, Numbers
<1> HIDE DEF halts, ends
<1> QED
  BY <1>4, <1>6, <1>8, <1>11, <1>13, <1>15, <1>17, <1>19, <1>20, <1>21, <1>22, <1>23, <1>24,
     <1>25, <1>26, MovesKeeps
LEMMA ReturnKeeps ==
  ASSUME Sound, NEW t \in Tasks, NEW raised \in BOOLEAN, Return(t, raised), limited' = limited
  PROVE  Sound'
<1>1. TaskExit(t, raised) /\ Acts(t)
  BY DEF Return
<1>2. phase = "run" /\ running = t /\ who[t].home \in Nodes /\ Live(t) /\ unseen' \in BOOLEAN
  BY <1>1, ActsOnItsNode
<1> QED
  BY <1>1, <1>2, TaskExitKeeps

LEMMA UnwindKeeps ==
  ASSUME Sound, NEW t \in Tasks, Unwind(t), limited' = limited
  PROVE  Sound'
<1>1. TaskExit(t, TRUE) /\ phase = "run" /\ running = t /\ killed[t] /\ unseen' \in BOOLEAN
  BY DEF Unwind
<1>2. who[t].home \in Nodes /\ Live(t)
  BY <1>1 DEF Sound, Bodies, Baton, Live
<1> QED
  BY <1>1, <1>2, TaskExitKeeps

-----------------------------------------------------------------------------
(* The process of a node is stopped: every task of it is told and woken. *)

LEMMA StopTellsAll ==
  ASSUME Sound, NEW n \in Nodes, Stops(n, OfNode(n))
  PROVE  /\ up' \in [Nodes -> BOOLEAN] /\ handler' \in [Nodes -> BOOLEAN]
         /\ killed' \in [Tasks -> BOOLEAN] /\ ~up'[n]
         /\ \A m \in Nodes : (m # n => up'[m] = up[m]) /\ (handler'[m] => handler[m])
         /\ \A v \in Tasks : killed'[v] <=> killed[v] \/ (Live(v) /\ who[v].home = n)
BY DEF Stops, Sound, TypeOK, OfNode

LEMMA HaltNodeKeeps ==
  ASSUME Sound, NEW n \in Nodes, NEW after \in Afters \cup {Never}, HaltNode(n, after),
         phase = "run", limited' = limited, unseen' \in BOOLEAN
  PROVE  Sound'
<1> DEFINE back == after # Never
           w == [body |-> "restart", home |-> World, aim |-> n, at |-> now + after]
           woken == OfNode(n) \cup WaitingOn(Settling)
           fresh == IF back THEN {made + 1} ELSE {}
           nobody == {}
<1>1. /\ up[n] /\ Stops(n, OfNode(n)) /\ (back => Room(2))
      /\ exit' = [exit EXCEPT ![n] = @ \/ status[main[n]] = "done"]
      /\ pending' = [pending EXCEPT ![n] = back]
      /\ back => Schedule(nobody, woken, OneTask(w))
      /\ ~back => Schedule(nobody, woken, NoTask)
      /\ UNCHANGED <<now, running, phase, ended, checks, stepped, forced, main, failure>>
  BY DEF HaltNode, schedVars
<1>2. /\ up' \in [Nodes -> BOOLEAN] /\ handler' \in [Nodes -> BOOLEAN]
      /\ killed' \in [Tasks -> BOOLEAN] /\ ~up'[n]
      /\ \A m \in Nodes : (m # n => up'[m] = up[m]) /\ (handler'[m] => handler[m])
      /\ \A v \in Tasks : killed'[v] <=> killed[v] \/ (Live(v) /\ who[v].home = n)
  BY <1>1, StopTellsAll
<1>3. /\ nobody \in SUBSET Tasks /\ woken \in SUBSET Tasks /\ \A v : v \notin nobody
      /\ \A v \in Tasks : v \in woken <=> (Live(v) /\ who[v].home = n) \/ v \in WaitingOn(Settling)
      /\ \A v \in Tasks : v \in woken => Live(v)
  BY DEF OfNode, WaitingOn, Live
<1>4. n # World /\ made \in Nat /\ made \in Tasks /\ Cardinality(Restarters) \in Nat
  BY NodesAssumption, RestartersFinite, Numbers DEF World, Sound, TypeOK, Tasks
<1>5. back => made + 2 + Cardinality(Restarters) <= MaxTasks /\ made + 1 <= MaxTasks
  BY <1>1, <1>4, Numbers DEF Room
<1>6. back => w \in Descriptions
  <2> SUFFICES ASSUME back PROVE w \in Descriptions
    OBVIOUS
  <2>1. now + after \in Instants
    BY Numbers DEF Sound, TypeOK, Never
  <2> QED
    BY <2>1 DEF Descriptions
<1>7. w.body = "restart" /\ w.home = World /\ w.aim = n
  OBVIOUS
<1>8. /\ back => fresh = {made + 1}
      /\ ~back => fresh = {}
  OBVIOUS
<1>9. /\ exit' \in [Nodes -> BOOLEAN] /\ pending' \in [Nodes -> BOOLEAN]
      /\ \A m \in Nodes : (m # n => exit'[m] = exit[m] /\ pending'[m] = pending[m])
      /\ pending'[n] <=> back
  BY <1>1 DEF Sound, TypeOK
<1> HIDE DEF back, w, woken, fresh, nobody
<1>10. /\ status' \in [Tasks -> {"none", "runnable", "blocked", "done"}]
       /\ wait' \in [Tasks -> Waits] /\ timer' \in [Tasks -> Instants \cup {NoTimer}]
       /\ who' \in [Tasks -> Descriptions] /\ made' \in Tasks /\ made <= made'
       /\ \A v \in Tasks :
            /\ status'[v] = IF v \in nobody THEN "done"
                            ELSE IF v \in woken \/ v \in fresh THEN "runnable" ELSE status[v]
            /\ wait'[v] = IF v \in nobody \/ v \in woken \/ v \in fresh THEN Nothing ELSE wait[v]
            /\ timer'[v] = IF v \in nobody \/ v \in woken \/ v \in fresh THEN NoTimer ELSE timer[v]
            /\ who'[v] = IF v \in fresh THEN w ELSE who[v]
       /\ back => made' = made + 1
       /\ ~back => made' = made
  <2>1. CASE back
    <3>1. /\ made' = made + 1 /\ made + 1 \in Tasks
          /\ status' \in [Tasks -> {"none", "runnable", "blocked", "done"}]
          /\ wait' \in [Tasks -> Waits] /\ timer' \in [Tasks -> Instants \cup {NoTimer}]
          /\ who' \in [Tasks -> Descriptions]
          /\ \A t \in Tasks :
               /\ status'[t] = IF t \in nobody THEN "done"
                               ELSE IF t \in woken \/ t = made + 1 THEN "runnable"
                               ELSE status[t]
               /\ wait'[t] = IF t \in nobody \/ t \in woken \/ t = made + 1 THEN Nothing
                             ELSE wait[t]
               /\ timer'[t] = IF t \in nobody \/ t \in woken \/ t = made + 1 THEN NoTimer
                              ELSE timer[t]
               /\ who'[t] = IF t = made + 1 THEN w ELSE who[t]
      <4>1. TypeOK /\ nobody \in SUBSET Tasks /\ woken \in SUBSET Tasks
            /\ w \in Descriptions /\ made + 1 <= MaxTasks /\ Schedule(nobody, woken, OneTask(w))
        BY <1>1, <1>3, <1>5, <1>6, <2>1 DEF Sound
      <4>2. TaskMade(nobody, woken, w)
        BY <4>1, OneTaskEffects
      <4> QED
        BY <4>2 DEF TaskMade
    <3>2. made <= made' /\ \A t : t \in fresh <=> t = made + 1
      BY <1>4, <1>8, <2>1, <3>1
    <3> QED
      BY <2>1, <3>1, <3>2
  <2>2. CASE ~back
    <3>1. /\ made' = made /\ who' = who
          /\ status' \in [Tasks -> {"none", "runnable", "blocked", "done"}]
          /\ wait' \in [Tasks -> Waits] /\ timer' \in [Tasks -> Instants \cup {NoTimer}]
          /\ \A t \in Tasks :
               /\ status'[t] = IF t \in nobody THEN "done" ELSE IF t \in woken THEN "runnable"
                               ELSE status[t]
               /\ wait'[t] = IF t \in nobody \/ t \in woken THEN Nothing ELSE wait[t]
               /\ timer'[t] = IF t \in nobody \/ t \in woken THEN NoTimer ELSE timer[t]
      BY <1>1, <1>3, <2>2, NoTaskEffects DEF Sound
    <3>2. made <= made' /\ \A t : t \notin fresh
      BY <1>4, <1>8, <2>2, <3>1
    <3>3. who \in [Tasks -> Descriptions]
      BY DEF Sound, TypeOK, Descriptions
    <3> QED
      BY <1>4, <2>2, <3>1, <3>2, <3>3
  <2> QED
    BY <2>1, <2>2
<1>11. /\ fresh \in SUBSET Tasks
       /\ \A v \in Tasks : v \in fresh <=> v > made /\ v <= made'
  <2>1. CASE back
    BY <1>4, <1>8, <1>10, <2>1 DEF Tasks
  <2>2. CASE ~back
    BY <1>4, <1>8, <1>10, <2>2 DEF Tasks
  <2> QED
    BY <2>1, <2>2
<1>12. \A v \in Tasks : v \in fresh =>
         status[v] = "none" /\ ~killed[v] /\ who[v].body = "none" /\ ~Live(v)
  BY <1>11 DEF Sound, Ids, Bodies, Live
<1>13. \A v \in Tasks : Live(v)' <=> Live(v) \/ v \in fresh
  BY <1>3, <1>10 DEF Live
<1>14. TypeOK'
  BY <1>1, <1>2, <1>9, <1>10 DEF Sound, TypeOK, Descriptions
<1>15. Processes'
  <2> SUFFICES ASSUME NEW m \in Nodes
               PROVE  (handler'[m] => m \in Programs) /\ (m \in Programs /\ up'[m] => ~exit'[m])
    BY DEF Processes
  <2>1. CASE m = n
    BY <1>2, <2>1 DEF Sound, Processes
  <2>2. CASE m # n
    BY <1>2, <1>9, <2>2 DEF Sound, Processes
  <2> QED
    BY <2>1, <2>2
<1>16. NodeIsItsTasks'
  <2> SUFFICES ASSUME NEW v \in Tasks, Live(v)', who'[v].home \in Nodes
               PROVE  /\ killed'[v] = ~up'[who'[v].home]
                      /\ who'[v].body = "main" => main'[who'[v].home] = v
    BY DEF NodeIsItsTasks
  <2>1. v \notin fresh
    BY <1>7, <1>10, NodesAssumption DEF World
  <2>2. who'[v] = who[v] /\ Live(v)
    BY <1>10, <1>13, <2>1
  <2>3. killed[v] = ~up[who[v].home] /\ (who[v].body = "main" => main[who[v].home] = v)
    BY <2>2 DEF Sound, NodeIsItsTasks
  <2>4. killed'[v] = ~up'[who[v].home]
    <3>1. CASE who[v].home = n
      BY <1>2, <2>2, <3>1
    <3>2. CASE who[v].home # n
      BY <1>2, <2>2, <2>3, <3>2 DEF Sound, TypeOK
    <3> QED
      BY <3>1, <3>2
  <2> QED
    BY <1>1, <2>2, <2>3, <2>4
<1>17. PendingComesBack'
  <2> SUFFICES ASSUME NEW m \in Nodes, pending'[m]
               PROVE  \E v \in Tasks : Live(v)' /\ who'[v].body = "restart" /\ who'[v].aim = m
    BY DEF PendingComesBack
  <2>1. CASE m = n
    <3>1. back /\ made + 1 \in Tasks /\ made + 1 \in fresh
      BY <1>4, <1>8, <1>9, <1>11, <2>1
    <3> QED
      BY <1>7, <1>10, <1>13, <2>1, <3>1
  <2>2. CASE m # n
    <3>1. pending[m]
      BY <1>9, <2>2
    <3>2. PICK v \in Tasks : Live(v) /\ who[v].body = "restart" /\ who[v].aim = m
      BY <3>1 DEF Sound, PendingComesBack
    <3>3. v \notin fresh
      BY <1>12, <3>2
    <3> QED
      BY <1>10, <1>13, <3>2, <3>3
  <2> QED
    BY <2>1, <2>2
<1>18. made' + Cardinality(Restarters') <= MaxTasks
  <2>1. CASE back
    <3>1. Restarters' \subseteq Restarters \cup {made + 1}
      BY <1>8, <1>10, <1>13, <2>1 DEF Restarters
    <3> QED
      BY <1>4, <1>5, <1>10, <2>1, <3>1, RestartersGrow, Numbers
  <2>2. CASE ~back
    <3>1. Restarters' \subseteq Restarters
      BY <1>8, <1>10, <1>13, <2>2 DEF Restarters
    <3> QED
      BY <1>4, <1>10, <2>2, <3>1, RestartersShrink, Numbers DEF Sound, Ids
  <2> QED
    BY <2>1, <2>2
<1>19. \A v \in Tasks : v \in fresh =>
         /\ who'[v].body \in {"main", "task", "handler"} <=> who'[v].home \in Nodes
         /\ who'[v].body = "restart" => who'[v].aim \in Nodes
         /\ who'[v].body # "coordinator"
         /\ ~killed'[v]
  BY <1>2, <1>7, <1>10, <1>12, NodesAssumption DEF World
<1>20. \A v \in Tasks : killed'[v] =>
         killed[v] \/ (who[v].home \in Nodes /\ Live(v) /\ v \in woken)
  BY <1>2, <1>3
<1>21. Coordinator \notin nobody /\ running \notin nobody
  BY <1>3
<1>22. /\ \A v \in Tasks : v \in nobody \/ v \in woken => Live(v)
       /\ \A u, v \in Tasks : u \in nobody /\ v \in WaitingOn(Ending(u)) => v \in nobody \/ v \in woken
       /\ \A v \in Tasks : v \in WaitingOn(Settling) => v \in woken
       /\ \A v \in Tasks : v \notin fresh => who'[v] = who[v]
  BY <1>3, <1>10
<1>23. /\ made <= made' /\ phase' = phase /\ running' = running /\ ended' = ended
       /\ phase \in {"run", "pick"} /\ nobody \in SUBSET Tasks /\ woken \in SUBSET Tasks
       /\ \A v \in Tasks :
            /\ status'[v] = IF v \in nobody THEN "done"
                            ELSE IF v \in woken \/ v \in fresh THEN "runnable" ELSE status[v]
            /\ wait'[v] = IF v \in nobody \/ v \in woken \/ v \in fresh THEN Nothing ELSE wait[v]
            /\ timer'[v] = IF v \in nobody \/ v \in woken \/ v \in fresh THEN NoTimer ELSE timer[v]
  BY <1>1, <1>3, <1>10
<1> QED
  BY <1>11, <1>14, <1>15, <1>16, <1>17, <1>18, <1>19, <1>20, <1>21, <1>22, <1>23, MovesKeeps
-----------------------------------------------------------------------------
(* A new process of a node that is down, and whose last tasks are gone. *)

LEMMA StartsKeeps ==
  ASSUME Sound, NEW n \in Nodes, ~up[n], OfNode(n) = {}, Starts(n),
         NEW over \in SUBSET Tasks, NEW woken \in SUBSET Tasks,
         Schedule(over, woken, OneTask(Runs("main", n))),
         phase = "run", (phase' = phase /\ over = {}) \/ phase' = "pick",
         UNCHANGED <<limited, now, running, ended, checks, forced, killed, handler, failure>>,
         stepped' \in BOOLEAN, unseen' \in BOOLEAN,
         \A v \in over : Live(v) /\ who[v].body = "restart" /\ who[v].aim = n,
         woken \subseteq WaitingOn(Settling),
         made + 1 + Cardinality(Restarters \ over) <= MaxTasks
  PROVE  Sound'
<1> DEFINE w == Runs("main", n)
           fresh == {made + 1}
<1>1. w \in Descriptions /\ w.body = "main" /\ w.home = n /\ n # World
  BY Numbers, NodesAssumption DEF Descriptions, Runs, World
<1>2. /\ made \in Nat /\ made \in Tasks /\ IsFiniteSet(Restarters \ over)
      /\ Cardinality(Restarters \ over) \in Nat
  <2>1. IsFiniteSet(Restarters \ over)
    BY FS_Subset, RestartersFinite
  <2> QED
    BY <2>1, FS_CardinalityType, Numbers DEF Sound, TypeOK, Tasks
<1>3. made + 1 <= MaxTasks
  BY <1>2, Numbers
<1>4. Schedule(over, woken, OneTask(w))
  OBVIOUS
<1>5. \A v \in Tasks : v \in fresh <=> v = made + 1
  OBVIOUS
<1> HIDE DEF w, fresh
<1>6. /\ made' = made + 1 /\ made + 1 \in Tasks
      /\ status' \in [Tasks -> {"none", "runnable", "blocked", "done"}]
      /\ wait' \in [Tasks -> Waits] /\ timer' \in [Tasks -> Instants \cup {NoTimer}]
      /\ who' \in [Tasks -> Descriptions]
      /\ \A t \in Tasks :
           /\ status'[t] = IF t \in over THEN "done"
                           ELSE IF t \in woken \/ t = made + 1 THEN "runnable"
                           ELSE status[t]
           /\ wait'[t] = IF t \in over \/ t \in woken \/ t = made + 1 THEN Nothing
                         ELSE wait[t]
           /\ timer'[t] = IF t \in over \/ t \in woken \/ t = made + 1 THEN NoTimer
                          ELSE timer[t]
           /\ who'[t] = IF t = made + 1 THEN w ELSE who[t]
  <2>1. TypeOK /\ w \in Descriptions
    BY <1>1 DEF Sound
  <2>2. TaskMade(over, woken, w)
    BY <2>1, <1>3, <1>4, OneTaskEffects
  <2> QED
    BY <2>2 DEF TaskMade
<1>7. /\ fresh \in SUBSET Tasks /\ \A v \in Tasks : v \in fresh <=> v > made /\ v <= made'
      /\ made <= made'
  BY <1>2, <1>6 DEF Tasks, fresh
<1>8. \A v \in Tasks : v \in fresh =>
        status[v] = "none" /\ ~killed[v] /\ who[v].body = "none" /\ ~Live(v)
  BY <1>7 DEF Sound, Ids, Bodies, Live
<1>9. \A v \in Tasks : v \in over \/ v \in woken => Live(v)
  BY DEF WaitingOn, Live
<1>10. \A v \in Tasks : Live(v)' <=> (Live(v) /\ v \notin over) \/ v \in fresh
  BY <1>5, <1>6, <1>8, <1>9 DEF Live
<1>11. /\ up' \in [Nodes -> BOOLEAN] /\ main' \in [Nodes -> Tasks]
       /\ exit' \in [Nodes -> BOOLEAN] /\ pending' \in [Nodes -> BOOLEAN]
       /\ up'[n] /\ main'[n] = made + 1 /\ ~exit'[n] /\ ~pending'[n]
       /\ \A m \in Nodes : m # n => up'[m] = up[m] /\ main'[m] = main[m]
                                    /\ exit'[m] = exit[m] /\ pending'[m] = pending[m]
  BY <1>6 DEF Starts, Sound, TypeOK
<1>12. TypeOK'
  BY <1>6, <1>11 DEF Sound, TypeOK, Descriptions
<1>13. Processes'
  BY <1>11 DEF Sound, Processes
<1>14. NodeIsItsTasks'
  <2> SUFFICES ASSUME NEW v \in Tasks, Live(v)', who'[v].home \in Nodes
               PROVE  /\ killed'[v] = ~up'[who'[v].home]
                      /\ who'[v].body = "main" => main'[who'[v].home] = v
    BY DEF NodeIsItsTasks
  <2>1. CASE v \in fresh
    <3>1. v = made + 1 /\ who'[v] = w /\ who'[v].home = n
      BY <1>1, <1>5, <1>6, <2>1
    <3>2. killed'[v] = FALSE /\ up'[n] = TRUE
      BY <1>8, <1>11, <2>1 DEF Sound, TypeOK
    <3> QED
      BY <1>11, <3>1, <3>2
  <2>2. CASE v \notin fresh
    <3>1. Live(v) /\ who'[v] = who[v]
      BY <1>5, <1>6, <1>10, <2>2
    <3>2. who[v].home # n
      BY <3>1 DEF OfNode
    <3> QED
      BY <1>11, <3>1, <3>2 DEF Sound, NodeIsItsTasks
  <2> QED
    BY <2>1, <2>2
<1>15. PendingComesBack'
  <2> SUFFICES ASSUME NEW m \in Nodes, pending'[m]
               PROVE  \E v \in Tasks : Live(v)' /\ who'[v].body = "restart" /\ who'[v].aim = m
    BY DEF PendingComesBack
  <2>1. m # n /\ pending[m]
    BY <1>11
  <2>2. PICK v \in Tasks : Live(v) /\ who[v].body = "restart" /\ who[v].aim = m
    BY <2>1 DEF Sound, PendingComesBack
  <2>3. v \notin over /\ v \notin fresh
    BY <1>8, <2>1, <2>2
  <2> QED
    BY <1>5, <1>6, <1>10, <2>2, <2>3
<1>16. made' + Cardinality(Restarters') <= MaxTasks
  <2>1. Restarters' \subseteq Restarters \ over
    BY <1>1, <1>5, <1>6, <1>10 DEF Restarters
  <2>2. Cardinality(Restarters') <= Cardinality(Restarters \ over) /\ IsFiniteSet(Restarters')
    BY <1>2, <2>1, FS_Subset
  <2>3. Cardinality(Restarters') \in Nat
    BY <2>2, FS_CardinalityType
  <2> QED
    BY <1>2, <1>6, <2>2, <2>3, Numbers
<1>17. \A v \in Tasks : v \in fresh =>
         /\ who'[v].body \in {"main", "task", "handler"} <=> who'[v].home \in Nodes
         /\ who'[v].body = "restart" => who'[v].aim \in Nodes
         /\ who'[v].body # "coordinator"
         /\ ~killed'[v]
  BY <1>1, <1>5, <1>6, <1>8
<1>18. Coordinator \notin over
  BY Numbers DEF Sound, Bodies
<1>19. \A u, v \in Tasks : u \in over /\ v \in WaitingOn(Ending(u)) => v \in over \/ v \in woken
  BY DEF Sound, Blocked, WaitingOn
<1>20. Settled' => Settled
  <2>1. Settled' => n \notin Watched
    BY <1>11 DEF Settled, Watched
  <2> QED
    BY <1>11, <2>1 DEF Settled, Watched, Nodes
<1>21. /\ phase \in {"run", "pick"} /\ running' = running /\ ended' = ended /\ failure' = failure
       /\ (phase' = phase /\ running \notin over) \/ phase' = "pick"
  OBVIOUS
<1>22. /\ \A v \in Tasks : killed'[v] => killed[v]
       /\ \A v \in Tasks : v \notin fresh => who'[v] = who[v]
       /\ \A v \in Tasks :
            /\ status'[v] = IF v \in over THEN "done"
                            ELSE IF v \in woken \/ v \in fresh THEN "runnable" ELSE status[v]
            /\ wait'[v] = IF v \in over \/ v \in woken \/ v \in fresh THEN Nothing ELSE wait[v]
            /\ timer'[v] = IF v \in over \/ v \in woken \/ v \in fresh THEN NoTimer ELSE timer[v]
  BY <1>5, <1>6
<1> QED
  BY <1>7, <1>9, <1>12, <1>13, <1>14, <1>15, <1>16, <1>17, <1>18, <1>19, <1>20, <1>21, <1>22,
     MovesKeeps

LEMMA RestartKeeps ==
  ASSUME Sound, NEW t \in Tasks, NEW n \in Nodes, Restart(t, n), limited' = limited
  PROVE  Sound'
<1> DEFINE nobody == {}
<1>1. /\ Acts(t) /\ Room(1) /\ ~up[n] /\ OfNode(n) = {} /\ Starts(n)
      /\ Schedule(nobody, nobody, OneTask(Runs("main", n)))
      /\ UNCHANGED <<now, running, phase, ended, checks, stepped, forced, killed, handler, failure>>
  BY DEF Restart, Directs, schedVars
<1>2. phase = "run" /\ unseen' \in BOOLEAN
  BY <1>1, ActsOnItsNode
<1>3. nobody \in SUBSET Tasks /\ nobody = {} /\ nobody \subseteq WaitingOn(Settling)
      /\ \A v : v \notin nobody
  OBVIOUS
<1>4. Restarters \ nobody = Restarters
  OBVIOUS
<1>5. stepped' \in BOOLEAN
  BY <1>1 DEF Sound, TypeOK
<1> HIDE DEF nobody
<1>6. made + 1 + Cardinality(Restarters \ nobody) <= MaxTasks
  BY <1>1, <1>4 DEF Room
<1> QED
  BY <1>1, <1>2, <1>3, <1>5, <1>6, StartsKeeps

LEMMA RestartNowKeeps ==
  ASSUME Sound, NEW t \in Tasks, RestartNow(t), limited' = limited
  PROVE  Sound'
<1> DEFINE n == who[t].aim
           over == {t}
           woken == WaitingOn(Settling)
<1>1. /\ Turn(t) /\ who[t].body = "restart" /\ ~up[n] /\ OfNode(n) = {} /\ Starts(n)
      /\ Schedule(over, woken, OneTask(Runs("main", n)))
      /\ ToScheduler /\ UNCHANGED <<killed, handler, failure>>
  BY DEF RestartNow
<1>2. phase = "run" /\ running = t /\ unseen' \in BOOLEAN
  BY <1>1 DEF Turn, HasBaton
<1>3. n \in Nodes /\ Live(t)
  BY <1>1, <1>2 DEF Sound, Bodies, Baton, Live
<1>4. over \in SUBSET Tasks /\ woken \in SUBSET Tasks /\ woken \subseteq WaitingOn(Settling)
      /\ \A v \in over : Live(v) /\ who[v].body = "restart" /\ who[v].aim = n
  BY <1>1, <1>3 DEF WaitingOn
<1>5. made + 1 + Cardinality(Restarters \ over) <= MaxTasks
  <2>1. t \in Restarters
    BY <1>1, <1>3 DEF Restarters
  <2>2. Cardinality(Restarters \ {t}) = Cardinality(Restarters) - 1
    BY <2>1, FS_RemoveElement, RestartersFinite
  <2>3. made + Cardinality(Restarters) <= MaxTasks /\ made \in Nat
    BY Numbers DEF Sound, Ids, TypeOK, Tasks
  <2> QED
    BY <2>2, <2>3, RestartersFinite, Numbers
<1>6. phase' = "pick" /\ stepped' \in BOOLEAN /\ UNCHANGED <<now, running, ended, checks, forced>>
  BY <1>1 DEF ToScheduler
<1> HIDE DEF n, over, woken
<1> QED
  BY <1>1, <1>2, <1>3, <1>4, <1>5, <1>6, StartsKeeps
LEMMA OsExitKeeps ==
  ASSUME Sound, NEW t \in Tasks, NEW failed \in BOOLEAN, OsExit(t, failed), limited' = limited
  PROVE  Sound'
<1> DEFINE n == who[t].home
           woken == (OfNode(n) \ {t}) \cup WaitingOn(Settling)
           nobody == {}
<1>1. /\ phase = "run" /\ running = t /\ ended = "no" /\ status[t] = "runnable" /\ n \in Nodes
      /\ unseen' = TRUE
  BY ActsOnItsNode DEF OsExit
<1>2. /\ Stops(n, OfNode(n)) /\ exit' = [exit EXCEPT ![n] = TRUE]
      /\ failure' = (failure \/ failed) /\ Schedule(nobody, woken, NoTask)
      /\ UNCHANGED <<now, running, phase, ended, checks, stepped, forced, main, pending>>
  BY DEF OsExit, schedVars
<1>3. /\ up' \in [Nodes -> BOOLEAN] /\ handler' \in [Nodes -> BOOLEAN]
      /\ killed' \in [Tasks -> BOOLEAN] /\ ~up'[n]
      /\ \A m \in Nodes : (m # n => up'[m] = up[m]) /\ (handler'[m] => handler[m])
      /\ \A v \in Tasks : killed'[v] <=> killed[v] \/ (Live(v) /\ who[v].home = n)
  BY <1>1, <1>2, StopTellsAll
<1>4. /\ nobody \in SUBSET Tasks /\ woken \in SUBSET Tasks /\ \A v : v \notin nobody
      /\ \A v \in Tasks : v \in woken <=> (Live(v) /\ who[v].home = n /\ v # t)
                                          \/ v \in WaitingOn(Settling)
      /\ \A v \in Tasks : v \in woken => Live(v)
  BY DEF OfNode, WaitingOn, Live
<1>5. made \in Nat /\ Cardinality(Restarters) \in Nat
  BY RestartersFinite, Numbers DEF Sound, TypeOK, Tasks
<1>6. /\ exit' \in [Nodes -> BOOLEAN] /\ failure' \in BOOLEAN
      /\ \A m \in Nodes : m # n => exit'[m] = exit[m]
  BY <1>2 DEF Sound, TypeOK
<1> DEFINE fresh == {}
<1>7. \A v : v \notin fresh
  OBVIOUS
<1> HIDE DEF woken, nobody, fresh
<1>8. /\ made' = made /\ who' = who
      /\ status' \in [Tasks -> {"none", "runnable", "blocked", "done"}]
      /\ wait' \in [Tasks -> Waits] /\ timer' \in [Tasks -> Instants \cup {NoTimer}]
      /\ \A v \in Tasks :
           /\ status'[v] = IF v \in nobody THEN "done" ELSE IF v \in woken THEN "runnable"
                           ELSE status[v]
           /\ wait'[v] = IF v \in nobody \/ v \in woken THEN Nothing ELSE wait[v]
           /\ timer'[v] = IF v \in nobody \/ v \in woken THEN NoTimer ELSE timer[v]
  BY <1>2, <1>4, NoTaskEffects DEF Sound
<1>9. \A v \in Tasks : Live(v)' <=> Live(v)
  BY <1>4, <1>8 DEF Live
<1>10. TypeOK'
  BY <1>1, <1>2, <1>3, <1>6, <1>8 DEF Sound, TypeOK
<1>11. Processes'
  <2> SUFFICES ASSUME NEW m \in Nodes
               PROVE  (handler'[m] => m \in Programs) /\ (m \in Programs /\ up'[m] => ~exit'[m])
    BY DEF Processes
  <2>1. CASE m = n
    BY <1>3, <2>1 DEF Sound, Processes
  <2>2. CASE m # n
    BY <1>3, <1>6, <2>2 DEF Sound, Processes
  <2> QED
    BY <2>1, <2>2
<1>12. NodeIsItsTasks'
  <2> SUFFICES ASSUME NEW v \in Tasks, Live(v), who[v].home \in Nodes
               PROVE  /\ killed'[v] = ~up'[who[v].home]
                      /\ who[v].body = "main" => main[who[v].home] = v
    BY <1>2, <1>8, <1>9 DEF NodeIsItsTasks
  <2>1. killed[v] = ~up[who[v].home] /\ (who[v].body = "main" => main[who[v].home] = v)
    BY DEF Sound, NodeIsItsTasks
  <2>2. CASE who[v].home = n
    BY <1>3, <2>1, <2>2
  <2>3. CASE who[v].home # n
    BY <1>3, <2>1, <2>3 DEF Sound, TypeOK
  <2> QED
    BY <2>2, <2>3
<1>13. PendingComesBack'
  BY <1>2, <1>8, <1>9 DEF Sound, PendingComesBack
<1>14. made' + Cardinality(Restarters') <= MaxTasks
  <2>1. Restarters' \subseteq Restarters
    BY <1>8, <1>9 DEF Restarters
  <2> QED
    BY <1>5, <1>8, <2>1, RestartersShrink, Numbers DEF Sound, Ids
<1>15. \A v \in Tasks : killed'[v] =>
         \/ killed[v]
         \/ who[v].home \in Nodes /\ Live(v) /\ (v \in woken \/ status[v] = "runnable")
  BY <1>1, <1>3, <1>4
<1>16. /\ fresh \in SUBSET Tasks /\ made <= made'
       /\ \A v \in Tasks : v \in fresh <=> v > made /\ v <= made'
  BY <1>5, <1>7, <1>8 DEF Tasks
<1>17. /\ Coordinator \notin nobody /\ running \notin nobody /\ phase' = phase
       /\ running' = running /\ ended' = ended /\ phase \in {"run", "pick"}
       /\ \A v \in Tasks : v \in nobody \/ v \in woken => Live(v)
       /\ \A u, v \in Tasks : u \in nobody /\ v \in WaitingOn(Ending(u)) => v \in nobody \/ v \in woken
       /\ \A v \in Tasks : v \in WaitingOn(Settling) => v \in woken
       /\ \A v \in Tasks :
            /\ status'[v] = IF v \in nobody THEN "done"
                            ELSE IF v \in woken \/ v \in fresh THEN "runnable" ELSE status[v]
            /\ wait'[v] = IF v \in nobody \/ v \in woken \/ v \in fresh THEN Nothing ELSE wait[v]
            /\ timer'[v] = IF v \in nobody \/ v \in woken \/ v \in fresh THEN NoTimer ELSE timer[v]
       /\ \A v \in Tasks : v \notin fresh => who'[v] = who[v]
  BY <1>1, <1>2, <1>4, <1>7, <1>8
<1>18. \A v \in Tasks : v \in fresh =>
         /\ who'[v].body \in {"main", "task", "handler"} <=> who'[v].home \in Nodes
         /\ who'[v].body = "restart" => who'[v].aim \in Nodes
         /\ who'[v].body # "coordinator"
         /\ ~killed'[v]
  BY <1>7
<1>19. \A v \in Tasks : killed'[v] =>
         \/ killed[v]
         \/ who[v].home \in Nodes /\ Live(v)
            /\ (v \in nobody \/ v \in woken \/ status[v] = "runnable")
  BY <1>15
<1> QED
  BY <1>4, <1>10, <1>11, <1>12, <1>13, <1>14, <1>16, <1>17, <1>18, <1>19, MovesKeeps

LEMMA HaltKeeps ==
  ASSUME Sound, NEW t \in Tasks, NEW n \in Nodes, NEW after \in Afters \cup {Never},
         Halt(t, n, after), limited' = limited
  PROVE  Sound'
<1>1. Acts(t) /\ HaltNode(n, after)
  BY DEF Halt, Directs
<1>2. phase = "run" /\ unseen' \in BOOLEAN
  BY <1>1, ActsOnItsNode
<1> QED
  BY <1>1, <1>2, HaltNodeKeeps

LEMMA MaybeCrashKeeps ==
  ASSUME Sound, NEW t \in Tasks, NEW after \in Afters \cup {Never}, MaybeCrash(t, after),
         limited' = limited
  PROVE  Sound'
<1>1. Acts(t) /\ HaltNode(who[t].home, after)
  BY DEF MaybeCrash
<1>2. phase = "run" /\ unseen' \in BOOLEAN /\ who[t].home \in Nodes
  BY <1>1, ActsOnItsNode
<1> QED
  BY <1>1, <1>2, HaltNodeKeeps

(* SIGTERM to a node with a handler: it goes on, and the coordinator does  *)
(* not count on it, for a program that is up has not exited.               *)
LEMMA HandlerKeeps ==
  ASSUME Sound, NEW t \in Tasks, NEW n \in Nodes, NEW after \in Afters \cup {Never},
         Stop(t, n, after), handler[n], limited' = limited
  PROVE  Sound'
<1> DEFINE back == after # Never
           h == Runs("handler", n)
           w == [body |-> "restart", home |-> World, aim |-> n, at |-> now + after]
           fresh == IF back THEN {made + 1, made + 2} ELSE {made + 1}
           new == [u \in fresh |-> IF u = made + 1 THEN h ELSE w]
           nobody == {}
<1>1. /\ Acts(t) /\ up[n] /\ Room(IF back THEN 3 ELSE 1)
      /\ handler' = [handler EXCEPT ![n] = FALSE] /\ pending' = [pending EXCEPT ![n] = back]
      /\ UNCHANGED <<now, running, phase, ended, checks, stepped, forced, killed, up, main, exit,
                     failure>>
  BY DEF Stop, Directs, schedVars
<1>2. Schedule(nobody, nobody, new)
  <2>1. CASE back
    <3>1. Schedule(nobody, nobody,
                   [u \in {made + 1, made + 2} |-> IF u = made + 1 THEN h ELSE w])
      BY <2>1 DEF Stop, HaltNode
    <3> QED
      BY <2>1, <3>1
  <2>2. CASE ~back
    <3>1. Schedule(nobody, nobody, OneTask(h))
      BY <2>2 DEF Stop
    <3>2. OneTask(h) = [u \in {made + 1} |-> h]
      BY DEF OneTask
    <3>3. new = [u \in {made + 1} |-> h]
      BY <2>2
    <3> QED
      BY <3>1, <3>2, <3>3
  <2> QED
    BY <2>1, <2>2
<1>3. /\ phase = "run" /\ unseen' = TRUE /\ n \in Programs /\ ~exit[n] /\ n # World
  BY <1>1, ActsOnItsNode, NodesAssumption DEF Sound, Processes, World
<1>4. /\ made \in Nat /\ made \in Tasks /\ Cardinality(Restarters) \in Nat
      /\ (back => made + 3 + Cardinality(Restarters) <= MaxTasks)
      /\ (~back => made + 1 + Cardinality(Restarters) <= MaxTasks)
  BY <1>1, RestartersFinite, Numbers DEF Sound, TypeOK, Tasks, Room
<1>5. /\ h \in Descriptions /\ h.body = "handler" /\ h.home = n
      /\ w.body = "restart" /\ w.home = World /\ w.aim = n
      /\ back => w \in Descriptions
  <2>1. back => now + after \in Instants
    BY Numbers DEF Sound, TypeOK, Never
  <2> QED
    BY <2>1, Numbers DEF Descriptions, Runs
<1>6. /\ fresh \in SUBSET Tasks /\ made + 1 \in fresh
      /\ \A v \in Tasks : v \in fresh <=> v = made + 1 \/ (back /\ v = made + 2)
      /\ back => made + 2 \in fresh
      /\ DOMAIN new = fresh
      /\ \A v \in fresh : new[v] = IF v = made + 1 THEN h ELSE w
      /\ \A v \in fresh : v = made + 1 \/ (v # made + 1 /\ back)
  BY <1>4, Numbers DEF Tasks
<1>7. /\ back => Cardinality(fresh) = 2
      /\ ~back => Cardinality(fresh) = 1
  <2>1. CASE back
    <3>1. fresh = {made + 1} \cup {made + 2} /\ made + 2 \notin {made + 1}
      BY <1>4, <2>1
    <3>2. IsFiniteSet({made + 1}) /\ Cardinality({made + 1}) = 1
      BY FS_Singleton
    <3>3. Cardinality({made + 1} \cup {made + 2}) = Cardinality({made + 1}) + 1
      BY <3>1, <3>2, FS_AddElement
    <3> QED
      BY <2>1, <3>1, <3>2, <3>3
  <2>2. CASE ~back
    BY <2>2, FS_Singleton
  <2> QED
    BY <2>1, <2>2
<1>8. /\ nobody \in SUBSET Tasks /\ \A v : v \notin nobody
  OBVIOUS
<1>9. /\ handler' \in [Nodes -> BOOLEAN] /\ pending' \in [Nodes -> BOOLEAN]
      /\ \A m \in Nodes : handler'[m] => handler[m]
      /\ \A m \in Nodes : m # n => pending'[m] = pending[m]
      /\ pending'[n] <=> back
  BY <1>1 DEF Sound, TypeOK
<1> HIDE DEF back, h, w, fresh, new, nobody
<1>10. DOMAIN new \subseteq Tasks /\ \A v \in DOMAIN new : new[v] \in Descriptions
  BY <1>5, <1>6
<1>11. /\ status' \in [Tasks -> {"none", "runnable", "blocked", "done"}]
       /\ wait' \in [Tasks -> Waits] /\ timer' \in [Tasks -> Instants \cup {NoTimer}]
       /\ who' \in [Tasks -> Descriptions]
       /\ \A v \in Tasks :
            /\ status'[v] = IF v \in nobody THEN "done"
                            ELSE IF v \in nobody \/ v \in DOMAIN new THEN "runnable"
                            ELSE status[v]
            /\ wait'[v] = IF v \in nobody \/ v \in nobody \/ v \in DOMAIN new THEN Nothing
                          ELSE wait[v]
            /\ timer'[v] = IF v \in nobody \/ v \in nobody \/ v \in DOMAIN new THEN NoTimer
                           ELSE timer[v]
            /\ who'[v] = IF v \in DOMAIN new THEN new[v] ELSE who[v]
  BY <1>2, <1>8, <1>10, ScheduleEffects DEF Sound
<1>12. /\ \A v \in Tasks :
            /\ status'[v] = IF v \in fresh THEN "runnable" ELSE status[v]
            /\ wait'[v] = IF v \in fresh THEN Nothing ELSE wait[v]
            /\ timer'[v] = IF v \in fresh THEN NoTimer ELSE timer[v]
            /\ who'[v] = IF v \in fresh THEN (IF v = made + 1 THEN h ELSE w) ELSE who[v]
  BY <1>6, <1>8, <1>11
<1>13. /\ made' = made + Cardinality(fresh) /\ made <= made' /\ made' \in Tasks
       /\ (back => made' = made + 2) /\ (~back => made' = made + 1)
  <2>1. made' = made + Cardinality(fresh)
    BY <1>2, <1>6 DEF Schedule
  <2> QED
    BY <1>4, <1>7, <2>1, Numbers DEF Tasks
<1>14. \A v \in Tasks : v \in fresh <=> v > made /\ v <= made'
  <2>1. CASE back
    BY <1>4, <1>6, <1>13, <2>1 DEF Tasks
  <2>2. CASE ~back
    BY <1>4, <1>6, <1>13, <2>2 DEF Tasks
  <2> QED
    BY <2>1, <2>2
<1>15. \A v \in Tasks : v \in fresh =>
         status[v] = "none" /\ ~killed[v] /\ who[v].body = "none" /\ ~Live(v)
  BY <1>14 DEF Sound, Ids, Bodies, Live
<1>16. \A v \in Tasks : Live(v)' <=> Live(v) \/ v \in fresh
  BY <1>12 DEF Live
<1>17. TypeOK'
  BY <1>1, <1>3, <1>9, <1>11, <1>13 DEF Sound, TypeOK, Descriptions
<1>18. Processes'
  BY <1>1, <1>9 DEF Sound, Processes
<1>19. NodeIsItsTasks'
  <2> SUFFICES ASSUME NEW v \in Tasks, Live(v)', who'[v].home \in Nodes
               PROVE  /\ killed'[v] = ~up'[who'[v].home]
                      /\ who'[v].body = "main" => main'[who'[v].home] = v
    BY DEF NodeIsItsTasks
  <2>1. CASE v \in fresh
    <3>1. v = made + 1 /\ who'[v] = h
      BY <1>3, <1>5, <1>12, <2>1, NodesAssumption DEF World
    <3>2. killed'[v] = FALSE /\ up'[n] = TRUE
      BY <1>1, <1>15, <2>1 DEF Sound, TypeOK
    <3> QED
      BY <1>5, <3>1, <3>2
  <2>2. CASE v \notin fresh
    <3>1. who'[v] = who[v] /\ Live(v)
      BY <1>12, <1>16, <2>2
    <3> QED
      BY <1>1, <3>1 DEF Sound, NodeIsItsTasks
  <2> QED
    BY <2>1, <2>2
<1>20. PendingComesBack'
  <2> SUFFICES ASSUME NEW m \in Nodes, pending'[m]
               PROVE  \E v \in Tasks : Live(v)' /\ who'[v].body = "restart" /\ who'[v].aim = m
    BY DEF PendingComesBack
  <2>1. CASE m = n
    <3>1. back /\ made + 2 \in fresh /\ made + 2 \in Tasks /\ made + 2 # made + 1
      BY <1>4, <1>6, <1>9, <2>1
    <3> QED
      BY <1>5, <1>12, <1>16, <2>1, <3>1
  <2>2. CASE m # n
    <3>1. pending[m]
      BY <1>9, <2>2
    <3>2. PICK v \in Tasks : Live(v) /\ who[v].body = "restart" /\ who[v].aim = m
      BY <1>3, <3>1 DEF Sound, PendingComesBack
    <3>3. v \notin fresh
      BY <1>15, <3>2
    <3> QED
      BY <1>12, <1>16, <3>2, <3>3
  <2> QED
    BY <2>1, <2>2
<1>21. made' + Cardinality(Restarters') <= MaxTasks
  <2>1. CASE back
    <3>1. Restarters' \subseteq Restarters \cup {made + 2}
      BY <1>5, <1>6, <1>12, <1>16 DEF Restarters
    <3> QED
      BY <1>4, <1>13, <2>1, <3>1, RestartersGrow, Numbers
  <2>2. CASE ~back
    <3>1. Restarters' \subseteq Restarters
      BY <1>5, <1>6, <1>12, <1>16, <2>2 DEF Restarters
    <3> QED
      BY <1>4, <1>13, <2>2, <3>1, RestartersShrink, Numbers
  <2> QED
    BY <2>1, <2>2
<1>22. \A v \in Tasks : v \in fresh =>
         /\ who'[v].body \in {"main", "task", "handler"} <=> who'[v].home \in Nodes
         /\ who'[v].body = "restart" => who'[v].aim \in Nodes
         /\ who'[v].body # "coordinator"
         /\ ~killed'[v]
  BY <1>1, <1>5, <1>12, <1>15, NodesAssumption DEF World
<1>23. Settled' => Settled
  <2>1. Settled' => n \notin Watched
    BY <1>1, <1>3 DEF Settled, Watched
  <2> QED
    BY <1>1, <1>9, <2>1 DEF Settled, Watched, Nodes
<1>24. /\ Coordinator \notin nobody /\ running \notin nobody /\ phase' = phase
       /\ running' = running /\ ended' = ended /\ phase \in {"run", "pick"} /\ failure' = failure
       /\ \A v \in Tasks : v \in nobody \/ v \in nobody => Live(v)
       /\ \A u, v \in Tasks : u \in nobody /\ v \in WaitingOn(Ending(u)) => v \in nobody \/ v \in nobody
       /\ \A v \in Tasks :
            /\ status'[v] = IF v \in nobody THEN "done"
                            ELSE IF v \in nobody \/ v \in fresh THEN "runnable" ELSE status[v]
            /\ wait'[v] = IF v \in nobody \/ v \in nobody \/ v \in fresh THEN Nothing ELSE wait[v]
            /\ timer'[v] = IF v \in nobody \/ v \in nobody \/ v \in fresh THEN NoTimer ELSE timer[v]
       /\ \A v \in Tasks : v \notin fresh => who'[v] = who[v]
       /\ \A v \in Tasks : killed'[v] => killed[v]
  BY <1>1, <1>3, <1>8, <1>12
<1>25. fresh \in SUBSET Tasks /\ nobody \in SUBSET Tasks /\ made <= made'
  BY <1>6, <1>8, <1>13
<1> QED
  BY <1>25, <1>14, <1>17, <1>18, <1>19, <1>20, <1>21, <1>22, <1>23, <1>24, MovesKeeps

LEMMA StopKeeps ==
  ASSUME Sound, NEW t \in Tasks, NEW n \in Nodes, NEW after \in Afters \cup {Never},
         Stop(t, n, after), limited' = limited
  PROVE  Sound'
<1>1. CASE handler[n]
  BY <1>1, HandlerKeeps
<1>2. CASE ~handler[n]
  <2>1. Acts(t) /\ HaltNode(n, after)
    BY <1>2 DEF Stop, Directs
  <2>2. phase = "run" /\ unseen' \in BOOLEAN
    BY <2>1, ActsOnItsNode
  <2> QED
    BY <2>1, <2>2, HaltNodeKeeps
<1> QED
  BY <1>1, <1>2
-----------------------------------------------------------------------------
(* The scheduler, and the end of the world. *)

LEMMA DrainKeeps ==
  ASSUME Sound, Drain, limited' = limited
  PROVE  Sound'
<1> DEFINE over == Left
           nobody == {}
<1>1. /\ phase = "drain" /\ phase' = "over" /\ Schedule(over, nobody, NoTask)
      /\ UNCHANGED <<now, running, ended, checks, stepped, forced, killed, up, main, exit,
                     pending, handler, failure, unseen>>
  BY DEF Drain, nodeVars
<1>2. /\ over \in SUBSET Tasks /\ nobody \in SUBSET Tasks /\ \A v : v \notin nobody
      /\ \A v \in Tasks : v \in over <=> Live(v) /\ v # Coordinator
  BY DEF Left
<1> HIDE DEF over, nobody
<1>3. /\ made' = made /\ who' = who
      /\ status' \in [Tasks -> {"none", "runnable", "blocked", "done"}]
      /\ wait' \in [Tasks -> Waits] /\ timer' \in [Tasks -> Instants \cup {NoTimer}]
      /\ \A v \in Tasks :
           /\ status'[v] = IF v \in over THEN "done" ELSE IF v \in nobody THEN "runnable"
                           ELSE status[v]
           /\ wait'[v] = IF v \in over \/ v \in nobody THEN Nothing ELSE wait[v]
           /\ timer'[v] = IF v \in over \/ v \in nobody THEN NoTimer ELSE timer[v]
  BY <1>1, <1>2, NoTaskEffects, ZenonT(60) DEF Sound
<1>4. TypeOK'
  BY <1>1, <1>3 DEF Sound, TypeOK
<1>5. \A v \in Tasks : Live(v)' => v = Coordinator /\ status'[v] = status[v]
                                   /\ wait'[v] = wait[v] /\ timer'[v] = timer[v]
  BY <1>2, <1>3 DEF Live
<1>6. Ids'
  <2>1. Restarters' = {}
    BY <1>3, <1>5 DEF Restarters, Sound, Bodies
  <2>2. Cardinality(Restarters') = 0
    BY <2>1, FS_EmptySet
  <2>3. made + 0 <= MaxTasks
    BY Numbers DEF Sound, TypeOK, Tasks
  <2>4. \A v \in Tasks : status'[v] = "none" <=> v > made
    BY <1>2, <1>3 DEF Sound, Ids, Live
  <2> QED
    BY <1>1, <1>3, <2>2, <2>3, <2>4 DEF Sound, Ids
<1>7. Bodies'
  BY <1>1, <1>3 DEF Sound, Bodies
<1>8. Baton'
  BY <1>1 DEF Baton
<1>9. Blocked'
  <2>1. \A v \in Tasks : status'[v] = "blocked" => Live(v)'
    BY DEF Live
  <2> QED
    BY <1>2, <1>3, <1>5, <2>1 DEF Sound, Blocked
<1>10. Processes'
  BY <1>1 DEF Sound, Processes
<1>11. NodeIsItsTasks'
  <2>1. who[Coordinator].home \notin Nodes
    BY Numbers DEF Sound, Bodies
  <2> QED
    BY <1>3, <1>5, <2>1 DEF NodeIsItsTasks
<1>12. NoLostWake'
  <2> SUFFICES ASSUME NEW v \in Tasks, status'[v] = "blocked"
               PROVE  /\ \A x \in Tasks : wait'[v] = Ending(x) => Live(x)'
                      /\ wait'[v] = Settling /\ phase' \in {"run", "pick"} => ~failure' /\ ~Settled'
                      /\ wait'[v] = Sleeping => timer'[v] # NoTimer
                      /\ ~killed'[v]
    BY DEF NoLostWake
  <2>1. v = Coordinator /\ status[v] = "blocked" /\ wait'[v] = wait[v]
    BY <1>5 DEF Live
  <2>2. wait[v] = Settling /\ ~killed[v]
    BY <2>1 DEF Sound, Blocked, NoLostWake
  <2> QED
    BY <1>1, <2>1, <2>2, WaitsDiffer
<1>13. PendingComesBack'
  BY <1>1 DEF PendingComesBack
<1> QED
  BY <1>4, <1>6, <1>7, <1>8, <1>9, <1>10, <1>11, <1>12, <1>13 DEF Sound

LEMMA AdvanceKeeps ==
  ASSUME Sound, NEW at, Advance(at), limited' = limited
  PROVE  Sound'
<1> DEFINE moved == Later(now, at)
           woken == {t \in Tasks : timer[t] # NoTimer /\ timer[t] <= moved}
           nobody == {}
           fresh == {}
<1>1. /\ phase = "pick" /\ at \in Due /\ at <= Deadline /\ now' = moved
      /\ Schedule(nobody, woken, NoTask)
      /\ checks' = {c \in checks : c > moved} /\ forced' = (checks' # checks)
      /\ UNCHANGED <<running, phase, ended, stepped, killed, up, main, exit, pending, handler,
                     failure, unseen>>
  BY DEF Advance, Quiet, Earliest, nodeVars
<1>2. moved \in 0..Deadline
  <2>1. at \in Instants
    BY <1>1 DEF Due, Sound, TypeOK
  <2>2. at \in 0..Deadline
    BY <1>1, <2>1, Numbers DEF Instants
  <2> QED
    BY <2>2 DEF Later, Sound, TypeOK
<1>3. \A v \in Tasks : v \in woken => status[v] = "blocked"
  BY DEF Sound, Blocked
<1>4. woken \in SUBSET Tasks /\ nobody \in SUBSET Tasks /\ fresh \in SUBSET Tasks
      /\ (\A v : v \notin nobody) /\ (\A v : v \notin fresh)
  OBVIOUS
<1> HIDE DEF moved, woken, nobody, fresh
<1>5. /\ made' = made /\ who' = who
      /\ status' \in [Tasks -> {"none", "runnable", "blocked", "done"}]
      /\ wait' \in [Tasks -> Waits] /\ timer' \in [Tasks -> Instants \cup {NoTimer}]
      /\ \A v \in Tasks :
           /\ status'[v] = IF v \in nobody THEN "done" ELSE IF v \in woken THEN "runnable"
                           ELSE status[v]
           /\ wait'[v] = IF v \in nobody \/ v \in woken THEN Nothing ELSE wait[v]
           /\ timer'[v] = IF v \in nobody \/ v \in woken THEN NoTimer ELSE timer[v]
  BY <1>1, <1>4, NoTaskEffects DEF Sound
<1>6. TypeOK'
  <2>1. checks' \subseteq Instants /\ forced' \in BOOLEAN /\ now' \in 0..Deadline
    BY <1>1, <1>2 DEF Sound, TypeOK
  <2> QED
    BY <1>1, <1>5, <2>1 DEF Sound, TypeOK
<1>7. \A v \in Tasks : Live(v)' <=> Live(v)
  BY <1>3, <1>4, <1>5 DEF Live
<1>8. Processes'
  BY <1>1 DEF Sound, Processes
<1>9. NodeIsItsTasks' /\ PendingComesBack'
  BY <1>1, <1>5, <1>7 DEF Sound, NodeIsItsTasks, PendingComesBack
<1>10. made' + Cardinality(Restarters') <= MaxTasks
  <2>1. Restarters' = Restarters
    BY <1>5, <1>7 DEF Restarters
  <2> QED
    BY <1>5, <2>1 DEF Sound, Ids
<1>11. made \in Nat /\ made <= made'
  BY <1>5, Numbers DEF Sound, TypeOK, Tasks
<1>12. \A v \in Tasks : v \in fresh <=> v > made /\ v <= made'
  BY <1>4, <1>5, <1>11 DEF Tasks
<1>13. Settled' <=> Settled
  BY <1>1 DEF Settled, Watched
<1>14. /\ \A v \in Tasks :
            /\ status'[v] = IF v \in nobody THEN "done"
                            ELSE IF v \in woken \/ v \in fresh THEN "runnable" ELSE status[v]
            /\ wait'[v] = IF v \in nobody \/ v \in woken \/ v \in fresh THEN Nothing ELSE wait[v]
            /\ timer'[v] = IF v \in nobody \/ v \in woken \/ v \in fresh THEN NoTimer ELSE timer[v]
       /\ \A v \in Tasks : v \notin fresh => who'[v] = who[v]
       /\ \A v \in Tasks : killed'[v] => killed[v]
       /\ \A v \in Tasks : v \in nobody \/ v \in woken => Live(v)
       /\ Coordinator \notin nobody /\ running \notin nobody
  BY <1>1, <1>3, <1>4, <1>5 DEF Live
<1> QED
  BY <1>1, <1>4, <1>6, <1>8, <1>9, <1>10, <1>11, <1>12, <1>13, <1>14, MovesKeeps

(* Steps that change no task: a pick, a look, and the ends of a run. *)
LEMMA PickedKeeps ==
  ASSUME Sound, NEW t \in Tasks, Picked(t), limited' = limited
  PROVE  Sound'
<1>1. TypeOK' /\ Baton'
  BY DEF Picked, CanRun, Sound, TypeOK, Baton, Live, taskVars, whoVars, nodeVars
<1>2. phase \in {"run", "pick"}
  BY DEF Picked
<1> QED
  BY <1>1, <1>2, StillKeeps DEF Picked

LEMMA EndsKeep ==
  ASSUME Sound, limited' = limited,
         StepLimit \/ PropertyCheck \/ PastDeadline \/ Deadlock \/ CoordinatorReturns
  PROVE  Sound'
<1> USE DEF Sound, TypeOK, Baton, Live, taskVars, whoVars, nodeVars, EndWorld
<1>1. CASE StepLimit
  <2>1. TypeOK' /\ Baton'
    BY <1>1, Numbers DEF StepLimit
  <2> QED
    BY <1>1, <2>1, StillKeeps DEF StepLimit
<1>2. CASE PropertyCheck
  <2>1. checks' \subseteq Instants
    <3>1. \A d \in Delays : now + d + 1 \in Instants
      BY Numbers
    <3> QED
      BY <1>2, <3>1 DEF PropertyCheck
  <2>2. phase = "pick" /\ phase' \in {"pick", "drain"}
    BY <1>2 DEF PropertyCheck, Quiet
  <2>3. TypeOK' /\ Baton'
    BY <1>2, <2>1, <2>2, Numbers DEF PropertyCheck
  <2> QED
    BY <1>2, <2>2, <2>3, StillKeeps DEF PropertyCheck
<1>3. CASE PastDeadline
  <2>1. now' \in 0..Deadline
    BY <1>3, Numbers DEF PastDeadline, Later
  <2>2. TypeOK' /\ Baton'
    BY <1>3, <2>1, Numbers DEF PastDeadline, Quiet
  <2> QED
    BY <1>3, <2>2, StillKeeps DEF PastDeadline
<1>4. CASE Deadlock
  <2>1. TypeOK' /\ Baton'
    BY <1>4, Numbers DEF Deadlock, Quiet
  <2> QED
    BY <1>4, <2>1, StillKeeps DEF Deadlock
<1>5. CASE CoordinatorReturns
  <2>1. phase' = "drain" /\ phase = "run" /\ ended' \in {"returned", "violated"}
    BY <1>5 DEF CoordinatorReturns, HasBaton
  <2>2. TypeOK' /\ Baton'
    BY <1>5, <2>1 DEF CoordinatorReturns
  <2> QED
    BY <1>5, <2>1, <2>2, StillKeeps DEF CoordinatorReturns
<1> QED
  BY <1>1, <1>2, <1>3, <1>4, <1>5

-----------------------------------------------------------------------------
LEMMA SoundStep == Sound /\ [Next]_vars => Sound'
<1> SUFFICES ASSUME Sound, [Next]_vars PROVE Sound'
  OBVIOUS
<1>1. CASE UNCHANGED vars
  <2>1. TypeOK' /\ Baton'
    BY <1>1 DEF vars, Sound, TypeOK, Baton, Live
  <2> QED
    BY <1>1, <2>1, StillKeeps DEF vars, taskVars, whoVars, nodeVars
<1>2. CASE Next
  <2>1. limited' = limited /\ (Scheduler \/ TheWorld \/ \E t \in Tasks : Program(t) \/ Director(t))
    BY <1>2 DEF Next
  <2>2. CASE Scheduler
    <3>1. CASE StepLimit \/ PropertyCheck \/ PastDeadline \/ Deadlock
      BY <2>1, <3>1, EndsKeep
    <3>2. CASE \E t \in Tasks : Picked(t)
      BY <2>1, <3>2, PickedKeeps
    <3>3. CASE \E a \in Due : Advance(a)
      BY <2>1, <3>3, AdvanceKeeps
    <3> QED
      BY <2>2, <3>1, <3>2, <3>3 DEF Scheduler
  <2>3. CASE TheWorld
    <3>1. CASE CoordinatorWaits
      BY <2>1, <3>1, CoordinatorWaitsKeeps
    <3>2. CASE CoordinatorReturns
      BY <2>1, <3>2, EndsKeep
    <3>3. CASE Drain
      BY <2>1, <3>3, DrainKeeps
    <3>4. CASE \E t \in Tasks : RestartWaits(t)
      BY <2>1, <3>4, RestartWaitsKeeps
    <3>5. CASE \E t \in Tasks : RestartNow(t)
      BY <2>1, <3>5, RestartNowKeeps
    <3> QED
      BY <2>3, <3>1, <3>2, <3>3, <3>4, <3>5 DEF TheWorld
  <2>4. ASSUME NEW t \in Tasks, Program(t) PROVE Sound'
    <3>1. CASE YieldPoint(t)
      BY <2>1, <3>1, YieldKeeps
    <3>2. CASE Spawn(t)
      BY <2>1, <3>2, SpawnKeeps
    <3>3. CASE OnShutdown(t)
      BY <2>1, <3>3, OnShutdownKeeps
    <3>4. CASE Unwind(t)
      BY <2>1, <3>4, UnwindKeeps
    <3>5. CASE \E d \in Delays : Sleep(t, d)
      BY <2>1, <3>5, SleepKeeps
    <3>6. CASE \E u \in Tasks, d \in Delays \cup {Never} : Join(t, u, d)
      BY <2>1, <3>6, JoinKeeps
    <3>7. CASE \E bad \in BOOLEAN : Return(t, bad)
      BY <2>1, <3>7, ReturnKeeps
    <3>8. CASE \E bad \in BOOLEAN : OsExit(t, bad)
      BY <2>1, <3>8, OsExitKeeps
    <3>9. CASE \E d \in Afters \cup {Never} : MaybeCrash(t, d)
      BY <2>1, <3>9, MaybeCrashKeeps
    <3> QED
      BY <2>4, <3>1, <3>2, <3>3, <3>4, <3>5, <3>6, <3>7, <3>8, <3>9 DEF Program
  <2>5. ASSUME NEW t \in Tasks, Director(t) PROVE Sound'
    <3>1. PICK n \in Nodes :
            Restart(t, n) \/ \E d \in Afters \cup {Never} : Halt(t, n, d) \/ Stop(t, n, d)
      BY <2>5 DEF Director
    <3> QED
      BY <2>1, <3>1, RestartKeeps, HaltKeeps, StopKeeps
  <2> QED
    BY <2>1, <2>2, <2>3, <2>4, <2>5
<1> QED
  BY <1>1, <1>2

(* Every value of the state has its type. *)
THEOREM TypeCorrect == Spec => []TypeOK
<1>1. Sound => TypeOK
  BY DEF Sound
<1> QED
  BY SoundInit, SoundStep, <1>1, PTL DEF Spec

(* A stop reaches every task of a node's process, and no process starts    *)
(* beside what is left of the one before it.                               *)
THEOREM NodeIsItsTasksAlways == Spec => []NodeIsItsTasks
<1>1. Sound => NodeIsItsTasks
  BY DEF Sound
<1> QED
  BY SoundInit, SoundStep, <1>1, PTL DEF Spec

(* No task is left blocked on what has happened already. *)
THEOREM NoLostWakeAlways == Spec => []NoLostWake
<1>1. Sound => NoLostWake
  BY DEF Sound
<1> QED
  BY SoundInit, SoundStep, <1>1, PTL DEF Spec

(* A node the coordinator counts on has a live task that will start it. *)
THEOREM PendingComesBackAlways == Spec => []PendingComesBack
<1>1. Sound => PendingComesBack
  BY DEF Sound
<1> QED
  BY SoundInit, SoundStep, <1>1, PTL DEF Spec

-----------------------------------------------------------------------------
(* The properties are looked at before the clock moves.  A task that ran   *)
(* and gave the baton up has asked for a look.                             *)

Looks == phase = "pick" /\ unseen => stepped

(* What a task does: it keeps the baton, or asks for a look as it gives it *)
(* to the scheduler; the clock stands.                                     *)
Asks == phase = "run" /\ (ToScheduler \/ UNCHANGED schedVars)

LEMMA ProgramAsks == \A t \in Tasks : Program(t) => Asks
<1> SUFFICES ASSUME NEW t \in Tasks, Program(t) PROVE Asks
  OBVIOUS
<1>1. CASE YieldPoint(t) \/ OnShutdown(t) \/ Spawn(t)
  BY <1>1 DEF YieldPoint, OnShutdown, Spawn, Acts, Turn, HasBaton, Asks
<1>2. CASE Unwind(t)
  BY <1>2 DEF Unwind, TaskExit, Asks
<1>3. CASE \E d \in Delays : Sleep(t, d)
  BY <1>3 DEF Sleep, Acts, Turn, HasBaton, Asks
<1>4. CASE \E u \in Tasks, d \in Delays \cup {Never} : Join(t, u, d)
  BY <1>4 DEF Join, Acts, Turn, HasBaton, Asks
<1>5. CASE \E bad \in BOOLEAN : Return(t, bad) \/ OsExit(t, bad)
  BY <1>5 DEF Return, TaskExit, OsExit, Acts, Turn, HasBaton, Asks
<1>6. CASE \E d \in Afters \cup {Never} : MaybeCrash(t, d)
  BY <1>6 DEF MaybeCrash, HaltNode, Acts, Turn, HasBaton, Asks
<1> QED
  BY <1>1, <1>2, <1>3, <1>4, <1>5, <1>6 DEF Program

LEMMA DirectorAsks == \A t \in Tasks : Director(t) => Asks
<1> SUFFICES ASSUME NEW t \in Tasks, NEW n \in Nodes,
                    Restart(t, n) \/ \E d \in Afters \cup {Never} : Halt(t, n, d) \/ Stop(t, n, d)
             PROVE  Asks
  BY DEF Director
<1>1. CASE Restart(t, n)
  BY <1>1 DEF Restart, Directs, Acts, Turn, HasBaton, Asks
<1>2. CASE \E d \in Afters \cup {Never} : Halt(t, n, d)
  BY <1>2 DEF Halt, HaltNode, Directs, Acts, Turn, HasBaton, Asks
<1>3. ASSUME NEW d \in Afters \cup {Never}, Stop(t, n, d) PROVE Asks
  <2>1. phase = "run"
    BY <1>3 DEF Stop, Directs, Acts, Turn, HasBaton
  <2>2. UNCHANGED schedVars
    BY <1>3 DEF Stop, HaltNode
  <2> QED
    BY <2>1, <2>2 DEF Asks
<1> QED
  BY <1>1, <1>2, <1>3

(* A step that moves the clock, or ends the run at its deadline or in a    *)
(* deadlock, finds every instant looked at. *)
InstantSeen ==
  now' # now \/ (ended' # ended /\ ended' \in {"deadline", "deadlock"}) => ~unseen

LEMMA AskingSees == Asks => Looks' /\ InstantSeen
  BY DEF Asks, Looks, InstantSeen, ToScheduler, schedVars

LEMMA LooksStep == Looks /\ [Next]_vars => Looks' /\ [InstantSeen]_vars
<1> SUFFICES ASSUME Looks, [Next]_vars PROVE Looks' /\ InstantSeen
  OBVIOUS
<1>1. CASE \E t \in Tasks : Program(t) \/ Director(t)
  BY <1>1, ProgramAsks, DirectorAsks, AskingSees
<1>2. CASE TheWorld
  <2>1. CASE CoordinatorWaits
    BY <2>1, AskingSees DEF CoordinatorWaits, Turn, HasBaton, Asks
  <2>2. CASE CoordinatorReturns
    BY <2>2 DEF CoordinatorReturns, Looks, InstantSeen
  <2>3. CASE Drain
    BY <2>3 DEF Drain, Looks, InstantSeen
  <2>4. CASE \E t \in Tasks : RestartWaits(t) \/ RestartNow(t)
    BY <2>4, AskingSees DEF RestartWaits, RestartNow, Turn, HasBaton, Asks
  <2> QED
    BY <1>2, <2>1, <2>2, <2>3, <2>4 DEF TheWorld
<1>3. CASE Scheduler
  <2>1. CASE StepLimit
    BY <2>1 DEF StepLimit, EndWorld, Looks, InstantSeen
  <2>2. CASE PropertyCheck
    BY <2>2 DEF PropertyCheck, EndWorld, Looks, InstantSeen
  <2>3. CASE PastDeadline \/ Deadlock
    BY <2>3 DEF PastDeadline, Deadlock, EndWorld, Quiet, CheckDue, Looks, InstantSeen
  <2>4. CASE \E t \in Tasks : Picked(t)
    BY <2>4 DEF Picked, Looks, InstantSeen
  <2>5. CASE \E a \in Due : Advance(a)
    BY <2>5 DEF Advance, Quiet, CheckDue, Looks, InstantSeen
  <2> QED
    BY <1>3, <2>1, <2>2, <2>3, <2>4, <2>5 DEF Scheduler
<1>4. CASE UNCHANGED vars
  BY <1>4 DEF vars, schedVars, Looks, InstantSeen
<1> QED
  BY <1>1, <1>2, <1>3, <1>4 DEF Next

(* No instant at which anything ran goes by without a look at the          *)
(* properties: the clock never moves over one, nor does a run end on one.  *)
THEOREM InstantsAreSeenAlways == Spec => InstantsAreSeen
<1>1. Init => Looks
  BY DEF Init, Looks
<1>2. Looks /\ [Next]_vars => Looks' /\ [InstantSeen]_vars
  BY LooksStep
<1> QED
  BY <1>1, <1>2, PTL DEF Spec, InstantsAreSeen, InstantSeen

-----------------------------------------------------------------------------
(* Disks. *)


Reaches(ns, files) == \A p \in Paths : ns[p] \in Inodes => ns[p] \in DOMAIN files

(* Both namespaces are maps to a directory or an inode, and reach it. *)
Shape ==
  /\ names \in [Paths -> Entries] /\ durable \in [Paths -> Entries]
  /\ Reaches(names, inode) /\ Reaches(durable, inode)

(* What is forgotten is what neither namespace names. *)
LEMMA ForgetKeeps ==
  ASSUME NEW files, NEW ns \in [Paths -> Entries], NEW ds \in [Paths -> Entries],
         Reaches(ns, files), Reaches(ds, files)
  PROVE  Reaches(ns, ForgetUnreachable(files, ns, ds)) /\ Reaches(ds, ForgetUnreachable(files, ns, ds))
<1>1. \A p \in Paths : ns[p] \in Range(ns) /\ ds[p] \in Range(ds)
  BY DEF Range
<1>2. DOMAIN ForgetUnreachable(files, ns, ds) = DOMAIN files \cap (Range(ns) \cup Range(ds))
  BY DEF ForgetUnreachable, Restrict
<1> QED
  BY <1>1, <1>2 DEF Reaches

(* A file with a name, or a new one under it, is reached. *)
LEMMA NamedReaches ==
  ASSUME Shape, NEW p \in Paths, NEW i \in Inodes, NEW files, DOMAIN files = {i} \cup DOMAIN inode,
         names' = [names EXCEPT ![p] = i], inode' = files, durable' = durable
  PROVE  Shape'
<1>1. names' \in [Paths -> Entries]
  BY DEF Shape, Entries
<1>2. Reaches(names, inode)' /\ Reaches(durable, inode)'
  BY DEF Shape, Reaches
<1> QED
  BY <1>1, <1>2 DEF Shape

LEMMA OneMore ==
  ASSUME NEW i, NEW x, NEW files
  PROVE  DOMAIN Put(i, x, files) = {i} \cup DOMAIN files
BY DEF Put

(* A removal or a move: each name is an old one's, or none. *)
LEMMA MovedReaches ==
  ASSUME Shape, durable' = durable, names' \in [Paths -> Entries],
         \A p \in Paths : names'[p] \in Inodes => \E q \in Paths : names'[p] = names[q],
         inode' = ForgetUnreachable(inode, names', durable)
  PROVE  Shape'
<1>1. Reaches(names', inode) /\ Reaches(durable, inode)
  BY DEF Shape, Reaches
<1>2. names' \in [Paths -> Entries] /\ durable \in [Paths -> Entries]
  BY DEF Shape
<1>3. Reaches(names', inode') /\ Reaches(durable, inode')
  BY <1>1, <1>2, ForgetKeeps
<1> QED
  BY <1>2, <1>3 DEF Shape, Reaches

-----------------------------------------------------------------------------
(* A sync names durably what is named now, or nothing, or keeps the name.  *)
LEMMA PersistEntryKeeps ==
  ASSUME NEW ns \in [Paths -> Entries], NEW ds \in [Paths -> Entries], NEW p, NEW files,
         Reaches(ns, files), Reaches(ds, files)
  PROVE  PersistEntry(ns, ds, p) \in [Paths -> Entries] /\ Reaches(PersistEntry(ns, ds, p), files)
<1>1. PersistEntry(ns, ds, p) \in [Paths -> Entries]
  BY DEF PersistEntry, Entries
<1>2. \A q \in Paths : \/ PersistEntry(ns, ds, p)[q] = ns[q] \/ PersistEntry(ns, ds, p)[q] = Dir
                       \/ PersistEntry(ns, ds, p)[q] = ds[q]
  BY DEF PersistEntry
<1>3. Dir \notin Inodes
  BY BoundsAssumption DEF Dir, Inodes
<1> QED
  BY <1>1, <1>2, <1>3 DEF Reaches

LEMMA SyncedDirKeeps ==
  ASSUME NEW ns \in [Paths -> Entries], NEW ds \in [Paths -> Entries], NEW d, NEW files,
         Reaches(ns, files), Reaches(ds, files)
  PROVE  SyncedDir(ns, ds, d) \in [Paths -> Entries] /\ Reaches(SyncedDir(ns, ds, d), files)
<1> DEFINE gone == {p \in Paths : ChildOf(d, p) /\ ds[p] # None /\ ns[p] = None}
           here == [q \in Paths |-> IF \E p \in gone : q \in OnOrUnder(p) THEN None
                               ELSE IF ChildOf(d, q) /\ ns[q] # None THEN ns[q] ELSE ds[q]]
<1>1. here \in [Paths -> Entries]
  BY DEF Entries
<1>2. None \notin Inodes
  BY BoundsAssumption DEF None, Inodes
<1>3. \A q \in Paths : here[q] = None \/ here[q] = ns[q] \/ here[q] = ds[q]
  OBVIOUS
<1>4. Reaches(here, files)
  BY <1>2, <1>3 DEF Reaches
<1>5. SyncedDir(ns, ds, d) = IF ns[d] = Dir THEN PersistEntry(ns, here, d) ELSE here
  BY DEF SyncedDir
<1> HIDE DEF gone, here
<1>6. PersistEntry(ns, here, d) \in [Paths -> Entries] /\ Reaches(PersistEntry(ns, here, d), files)
  BY <1>1, <1>4, PersistEntryKeeps
<1> QED
  BY <1>1, <1>4, <1>5, <1>6

LEMMA SyncDirKeeps ==
  ASSUME NEW ns \in [Paths -> Entries], NEW ds \in [Paths -> Entries], NEW d, NEW files, NEW said,
         Reaches(ns, files), Reaches(ds, files),
         names' = ns, SyncDir(ns, files, ds, said, d)
  PROVE  Shape'
<1>1. SyncedDir(ns, ds, d) \in [Paths -> Entries] /\ Reaches(SyncedDir(ns, ds, d), files)
  BY SyncedDirKeeps
<1>2. durable' = SyncedDir(ns, ds, d) /\ inode' = ForgetUnreachable(files, ns, durable')
  BY DEF SyncDir
<1>3. durable' \in [Paths -> Entries] /\ Reaches(durable', files)
  BY <1>1, <1>2
<1>4. Reaches(ns, inode') /\ Reaches(durable', inode')
  BY <1>2, <1>3, ForgetKeeps
<1> QED
  BY <1>3, <1>4 DEF Shape, Reaches

LEMMA FileSyncKeeps ==
  ASSUME Shape, NEW i, NEW p
  PROVE  /\ DOMAIN FilesSynced(i) = DOMAIN inode
         /\ NamesSynced(i, p) \in [Paths -> Entries]
         /\ Reaches(names, FilesSynced(i)) /\ Reaches(NamesSynced(i, p), FilesSynced(i))
<1>1. DOMAIN FilesSynced(i) = DOMAIN inode
  BY DEF FilesSynced
<1>2. Reaches(names, FilesSynced(i)) /\ Reaches(durable, FilesSynced(i))
  BY <1>1 DEF Shape, Reaches
<1>3. names \in [Paths -> Entries] /\ durable \in [Paths -> Entries]
  BY DEF Shape
<1>4. /\ PersistEntry(names, durable, p) \in [Paths -> Entries]
      /\ Reaches(PersistEntry(names, durable, p), FilesSynced(i))
  BY <1>2, <1>3, PersistEntryKeeps
<1> QED
  BY <1>1, <1>2, <1>3, <1>4 DEF NamesSynced

LEMMA SyncInoKeeps ==
  ASSUME Shape, NEW i, NEW p, SyncIno(i, p), names' = names
  PROVE  Shape'
<1>1. inode' = FilesSynced(i) /\ durable' = NamesSynced(i, p)
  BY DEF SyncIno
<1> QED
  BY <1>1, FileSyncKeeps DEF Shape, Reaches

-----------------------------------------------------------------------------
LEMMA WriteToKeeps ==
  ASSUME Shape, NEW p \in Paths, NEW bytes, NEW append, WriteTo(p, bytes, append)
  PROVE  Shape'
<1>1. PICK i \in Inodes :
        /\ DOMAIN inode' = {i} \cup DOMAIN inode
        /\ names' = [names EXCEPT ![p] = i] /\ durable' = durable
  BY OneMore DEF WriteTo
<1> QED
  BY <1>1, NamedReaches

LEMMA MkDirAllKeeps ==
  ASSUME Shape, NEW p \in Paths, MkDirAll(p)
  PROVE  Shape'
<1> DEFINE above == {q \in Paths : q = p \/ Under(q, p)}
<1>1. /\ names' = [q \in Paths |-> IF q \in above THEN Dir ELSE names[q]]
      /\ UNCHANGED <<inode, durable>>
  BY DEF MkDirAll
<1> HIDE DEF above
<1>2. names' \in [Paths -> Entries]
  BY <1>1 DEF Shape, Entries
<1>3. Dir \notin Inodes
  BY BoundsAssumption DEF Dir, Inodes
<1> QED
  BY <1>1, <1>2, <1>3 DEF Shape, Reaches

LEMMA RemovedKeeps ==
  ASSUME Shape, NEW ps, Removed(ps)
  PROVE  Shape'
<1>1. /\ names' = [q \in Paths |-> IF q \in ps THEN None ELSE names[q]]
      /\ inode' = ForgetUnreachable(inode, names', durable) /\ durable' = durable
  BY DEF Removed
<1>2. names' \in [Paths -> Entries]
  BY <1>1 DEF Shape, Entries
<1>3. \A p \in Paths : names'[p] \in Inodes => \E q \in Paths : names'[p] = names[q]
  BY <1>1, BoundsAssumption DEF None, Inodes
<1> QED
  BY <1>1, <1>2, <1>3, MovedReaches

LEMMA RenameKeeps ==
  ASSUME Shape, NEW p \in Paths, NEW q \in Paths, Rename(p, q)
  PROVE  Shape'
<1> DEFINE moved == {r \in OnOrUnder(p) : Exists(r)}
           New(r) == q \o SubSeq(r, Len(p) + 1, Len(r))
           arrives == {New(r) : r \in moved}
<1>1. /\ names' = [r \in Paths |-> IF r \in arrives THEN names[CHOOSE old \in moved : New(old) = r]
                                   ELSE IF r \in OnOrUnder(p) THEN None ELSE names[r]]
      /\ inode' = ForgetUnreachable(inode, names', durable) /\ durable' = durable
  BY DEF Rename
<1>2. \A r \in arrives : (CHOOSE old \in moved : New(old) = r) \in Paths
  <2>1. \A r \in arrives : \E old \in moved : New(old) = r
    OBVIOUS
  <2>2. moved \subseteq Paths
    BY DEF OnOrUnder
  <2> HIDE DEF moved, New
  <2> QED
    BY <2>1, <2>2
<1> HIDE DEF moved, New, arrives
<1>3. \A r \in Paths : names'[r] = None \/ \E s \in Paths : names'[r] = names[s]
  BY <1>1, <1>2
<1>4. names \in [Paths -> Entries] /\ None \in Entries
  BY DEF Shape, Entries
<1>5. \A r \in Paths : names'[r] \in Entries
  BY <1>3, <1>4
<1>6. names' \in [Paths -> Entries]
  BY <1>1, <1>5
<1>7. None \notin Inodes
  BY BoundsAssumption DEF None, Inodes
<1> QED
  BY <1>1, <1>3, <1>6, <1>7, MovedReaches

LEMMA XOpenKeeps ==
  ASSUME Shape, NEW h \in Handles, NEW p \in Paths, NEW dirsync, XOpen(h, p, dirsync)
  PROVE  Shape'
<1>1. CASE IsFile(p)
  <2>1. /\ names' = [names EXCEPT ![p] = names[p]] /\ names[p] \in Inodes
        /\ inode' = inode /\ durable' = durable
    BY <1>1 DEF XOpen, IsFile
  <2>2. DOMAIN inode = {names[p]} \cup DOMAIN inode
    BY <2>1 DEF Shape, Reaches
  <2> QED
    BY <2>1, <2>2, NamedReaches
<1>2. CASE ~IsFile(p)
  <2>1. names[p] \in Entries
    BY DEF Shape
  <2>2. next \in Inodes
    BY <1>2, <2>1 DEF XOpen, IsFile, IsDir, Exists, Entries
  <2>3. /\ names' = [names EXCEPT ![p] = next] /\ durable' = durable
        /\ inode' = Put(next, NewFile, inode)
    BY <1>2 DEF XOpen
  <2> QED
    BY <2>2, <2>3, NamedReaches, OneMore
<1> QED
  BY <1>1, <1>2

LEMMA XChangeKeeps ==
  ASSUME Shape, NEW h, NEW op, NEW grow, XChange(h, op, grow)
  PROVE  Shape'
<1>1. DOMAIN inode' = DOMAIN inode /\ UNCHANGED <<names, durable>>
  BY DEF XChange
<1> QED
  BY <1>1 DEF Shape, Reaches

LEMMA XSyncKeeps ==
  ASSUME Shape, NEW h \in Handles, NEW file \in BOOLEAN, NEW dir \in BOOLEAN, XSync(h, file, dir)
  PROVE  Shape'
<1> DEFINE i == handle[h].ino
           p == handle[h].path
           too == dir /\ handle[h].dirsync
<1>1. /\ names' = names
      /\ CASE file /\ too -> SyncDir(names, FilesSynced(i), NamesSynced(i, p), PromiseSynced(i, p), Parent(p))
           [] file /\ ~too -> SyncIno(i, p)
           [] ~file /\ too -> SyncDir(names, inode, durable, promised, Parent(p))
           [] ~file /\ ~too -> UNCHANGED <<inode, durable, promised>>
  BY DEF XSync
<1>2. names \in [Paths -> Entries] /\ durable \in [Paths -> Entries]
      /\ Reaches(names, inode) /\ Reaches(durable, inode)
  BY DEF Shape
<1> HIDE DEF i, p, too
<1>3. CASE file /\ too
  <2>1. SyncDir(names, FilesSynced(i), NamesSynced(i, p), PromiseSynced(i, p), Parent(p))
    BY <1>1, <1>3
  <2> QED
    BY <1>1, <1>2, <2>1, FileSyncKeeps, SyncDirKeeps
<1>4. CASE file /\ ~too
  <2>1. SyncIno(i, p)
    BY <1>1, <1>4
  <2> QED
    BY <1>1, <2>1, SyncInoKeeps
<1>5. CASE ~file /\ too
  <2>1. SyncDir(names, inode, durable, promised, Parent(p))
    BY <1>1, <1>5
  <2> QED
    BY <1>1, <1>2, <2>1, SyncDirKeeps
<1>6. CASE ~file /\ ~too
  <2>1. UNCHANGED <<inode, durable>>
    BY <1>1, <1>6
  <2> QED
    BY <1>1, <1>2, <2>1 DEF Shape, Reaches
<1> QED
  BY <1>3, <1>4, <1>5, <1>6

LEMMA XDeleteKeeps ==
  ASSUME Shape, NEW p \in Paths, XDelete(p)
  PROVE  Shape'
<1>1. names' = [names EXCEPT ![p] = None] /\ SyncDir(names', inode, durable, Without({p}), Parent(p))
  BY DEF XDelete
<1>2. names' \in [Paths -> Entries] /\ durable \in [Paths -> Entries] /\ Reaches(durable, inode)
  BY <1>1 DEF Shape, Entries
<1>3. None \notin Inodes
  BY BoundsAssumption DEF None, Inodes
<1>4. Reaches(names', inode)
  BY <1>1, <1>3 DEF Shape, Reaches
<1> QED
  BY <1>1, <1>2, <1>4, SyncDirKeeps

LEMMA SyncKeeps ==
  ASSUME Shape, NEW p \in Paths, Sync(p)
  PROVE  Shape'
<1>1. names' = names
  BY DEF Sync
<1>2. CASE IsFile(p)
  BY <1>1, <1>2, SyncInoKeeps DEF Sync
<1>3. CASE ~IsFile(p)
  <2>1. SyncDir(names, inode, durable, promised, p)
    BY <1>3 DEF Sync
  <2> QED
    BY <1>1, <2>1, SyncDirKeeps DEF Shape
<1> QED
  BY <1>2, <1>3

(* A crash keeps the durable names, and the inodes they reach. *)
LEMMA CrashKeeps ==
  ASSUME Shape, Crash
  PROVE  Shape'
<1>1. PICK left :
        inode' = ForgetUnreachable(
          [i \in DOMAIN inode |-> [data |-> left[i], durable |-> left[i], pending |-> <<>>]],
          durable, durable)
  BY DEF Crash
<1> DEFINE files == [i \in DOMAIN inode |-> [data |-> left[i], durable |-> left[i], pending |-> <<>>]]
<1>2. DOMAIN files = DOMAIN inode /\ inode' = ForgetUnreachable(files, durable, durable)
  BY <1>1
<1> HIDE DEF files
<1>3. durable \in [Paths -> Entries] /\ Reaches(durable, files)
  BY <1>2 DEF Shape, Reaches
<1>4. Reaches(durable, inode')
  BY <1>2, <1>3, ForgetKeeps
<1>5. names' = durable /\ durable' = durable
  BY DEF Crash
<1> QED
  BY <1>3, <1>4, <1>5 DEF Shape, Reaches

LEMMA ShapeStep == Shape /\ [DiskNext]_simDiskVars => Shape'
<1> SUFFICES ASSUME Shape, [DiskNext]_simDiskVars PROVE Shape'
  OBVIOUS
<1>1. CASE Crash
  BY <1>1, CrashKeeps
<1>2. CASE Kill \/ UNCHANGED simDiskVars
  BY <1>2 DEF Kill, simDiskVars, diskVars, Shape, Reaches
<1>3. ASSUME NEW p \in Paths, Sync(p) \/ MkDirAll(p) \/ XDelete(p) PROVE Shape'
  BY <1>3, SyncKeeps, MkDirAllKeeps, XDeleteKeeps
<1>4. ASSUME NEW p \in Paths, Unlink(p) \/ RmDirAll(p) PROVE Shape'
  BY <1>4, RemovedKeeps DEF Unlink, RmDirAll
<1>5. ASSUME NEW p \in Paths, NEW q \in Paths, Rename(p, q) \/ CopyFile(p, q) PROVE Shape'
  BY <1>5, RenameKeeps, WriteToKeeps DEF CopyFile
<1>6. ASSUME NEW p \in Paths, NEW v \in Sectors, NEW append \in BOOLEAN, WriteFile(p, v, append)
      PROVE  Shape'
  BY <1>6, WriteToKeeps DEF WriteFile
<1>7. ASSUME NEW h \in Handles, NEW p \in Paths, NEW dirsync \in BOOLEAN, XOpen(h, p, dirsync)
      PROVE  Shape'
  BY <1>7, XOpenKeeps
<1>8. ASSUME NEW h \in Handles, NEW v \in Sectors, XWrite(h, 0, <<v, v>>) \/ XWrite(h, 1, <<v>>)
      PROVE  Shape'
  BY <1>8, XChangeKeeps DEF XWrite
<1>9. ASSUME NEW h \in Handles, XTruncate(h, 0) \/ XTruncate(h, 1) PROVE Shape'
  BY <1>9, XChangeKeeps DEF XTruncate
<1>10. ASSUME NEW h \in Handles, NEW file \in BOOLEAN, NEW dir \in BOOLEAN, XSync(h, file, dir)
       PROVE  Shape'
  BY <1>10, XSyncKeeps
<1> QED
  BY <1>1, <1>2, <1>3, <1>4, <1>5, <1>6, <1>7, <1>8, <1>9, <1>10 DEF DiskNext

(* Every file either namespace names has an inode, in every state. *)
THEOREM NamesReachInodesAlways == DiskSpec => []NamesReachInodes
<1>1. DiskInit => Shape
  <2>1. None \notin Inodes /\ Dir \notin Inodes
    BY BoundsAssumption DEF None, Dir, Inodes
  <2> QED
    BY <2>1 DEF DiskInit, Shape, Reaches, Entries
<1>2. Shape /\ [DiskNext]_simDiskVars => Shape'
  BY ShapeStep
<1>3. Shape => NamesReachInodes
  BY DEF Shape, Reaches, NamesReachInodes
<1> QED
  BY <1>1, <1>2, <1>3, PTL DEF DiskSpec

-----------------------------------------------------------------------------
(* The folds of the model, which CHOOSE a function that unfolds itself: by   *)
(* the least counterexample there is one, and any two agree.                *)

(* A set of naturals that is not empty has a least member. *)
LEMMA Least ==
  ASSUME NEW S \in SUBSET Nat, S # {}
  PROVE  \E n \in S : \A m \in S : n <= m
<1> DEFINE R == {ss \in Nat \X Nat : ss[1] < ss[2]}
<1>1. IsWellFoundedOn(R, Nat)
  BY NatLessThanWellFounded DEF OpToRel
<1> HIDE DEF R
<1>2. PICK x \in S : \A y \in S : ~(<<y, x>> \in R)
  BY <1>1, WFMin
<1>3. \A y \in S : ~(y < x)
  BY <1>2 DEF R
<1> QED
  BY <1>3

(* Max of a finite set of numbers is its greatest. *)
LEMMA GreatestOf ==
  ASSUME NEW n \in Nat, NEW s \in SUBSET (1..n), s # {}
  PROVE  Max(s) \in s /\ \A y \in s : Max(s) >= y
<1> DEFINE B == {m \in Nat : \A y \in s : m >= y}
<1>1. n \in B
  OBVIOUS
<1>2. PICK m \in B : \A k \in B : m <= k
  BY <1>1, Least
<1>3. m \in s
  <2> SUFFICES ASSUME m \notin s PROVE FALSE
    OBVIOUS
  <2>1. \A y \in s : m - 1 >= y
    BY <1>2
  <2>2. m >= 1
    <3>1. PICK y \in s : TRUE
      OBVIOUS
    <3> QED
      BY <1>2, <3>1
  <2>3. m - 1 \in B
    BY <1>2, <2>1, <2>2
  <2> QED
    BY <1>2, <2>3
<1> QED
  BY <1>2, <1>3 DEF Max

(* What holds of {} and of a set whenever of it without its greatest holds of every subset of 1..n. *)
LEMMA SubsetInduction ==
  ASSUME NEW n \in Nat, NEW T, {} \in T,
         \A s \in SUBSET (1..n) : s # {} /\ s \ {Max(s)} \in T => s \in T
  PROVE  SUBSET (1..n) \subseteq T
<1> DEFINE Bad == {m \in Nat : \E s \in SUBSET (1..n) : s \subseteq 1..m /\ s \notin T}
<1> SUFFICES ASSUME NEW s \in SUBSET (1..n), s \notin T PROVE FALSE
  OBVIOUS
<1>1. n \in Bad
  OBVIOUS
<1>2. PICK m \in Bad : \A k \in Bad : m <= k
  BY <1>1, Least
<1>3. PICK t \in SUBSET (1..n) : t \subseteq 1..m /\ t \notin T
  BY <1>2
<1>4. t # {} /\ m \in Nat
  BY <1>2, <1>3
<1>5. PICK x \in t : x = Max(t) /\ \A y \in t : x >= y
  BY <1>4, GreatestOf
<1>6. t \ {x} \in SUBSET (1..n) /\ x \in 1..m
  BY <1>3, <1>5
<1>7. m - 1 \in Nat /\ \A y \in t \ {x} : y \in 1..(m - 1)
  BY <1>3, <1>4, <1>5, <1>6
<1>8. t \ {x} \in T
  <2> SUFFICES ASSUME t \ {x} \notin T PROVE FALSE
    OBVIOUS
  <2>1. m - 1 \in Bad
    BY <1>6, <1>7
  <2> QED
    BY <1>2, <1>4, <2>1
<1> QED
  BY <1>3, <1>4, <1>5, <1>8

(* g folds F into base, by the subsets of 1..m: the greatest member last. *)
Unfolds(m, D, base, F, g) ==
  /\ g \in [SUBSET (1..m) -> D]
  /\ \A s \in SUBSET (1..m) : g[s] = IF s = {} THEN base ELSE F[<<g[s \ {Max(s)}], Max(s)>>]

(* There is a function on the subsets of 1..n that folds F from the least member on. *)
LEMMA FoldExists ==
  ASSUME NEW n \in Nat, NEW D, NEW base \in D, NEW F \in [D \X (1..n) -> D]
  PROVE  \E g : Unfolds(n, D, base, F, g)
<1> DEFINE Bad == {m \in Nat : m <= n /\ ~ \E g : Unfolds(m, D, base, F, g)}
<1>1. Bad = {}
  <2> SUFFICES ASSUME Bad # {} PROVE FALSE
    OBVIOUS
  <2>1. PICK m \in Bad : \A k \in Bad : m <= k
    BY Least
  <2>2. CASE m = 0
    <3>1. \A s \in SUBSET (1..0) : s = {}
      OBVIOUS
    <3> DEFINE g == [s \in SUBSET (1..0) |-> base]
    <3>2. g \in [SUBSET (1..0) -> D] /\ \A s \in SUBSET (1..0) : g[s] = base
      OBVIOUS
    <3> HIDE DEF g
    <3>3. Unfolds(0, D, base, F, g)
      BY <3>1, <3>2 DEF Unfolds
    <3> QED
      BY <2>1, <2>2, <3>3
  <2>3. CASE m # 0
    <3>1. m - 1 \in Nat /\ m - 1 \notin Bad /\ m <= n
      BY <2>1, <2>3
    <3>2. PICK g : Unfolds(m - 1, D, base, F, g)
      BY <3>1
    <3> DEFINE h == [s \in SUBSET (1..m) |-> IF m \in s THEN F[<<g[s \ {m}], m>>] ELSE g[s]]
    <3>3. ASSUME NEW s \in SUBSET (1..m)
          PROVE  h[s] \in D /\ h[s] = IF s = {} THEN base ELSE F[<<h[s \ {Max(s)}], Max(s)>>]
      <4>1. CASE m \in s
        <5>1. Max(s) = m
          <6>1. m \in Nat
            BY <2>1
          <6>2. PICK x \in s : x = Max(s) /\ x >= m
            BY <4>1, <6>1, GreatestOf
          <6>3. x \in 1..m
            OBVIOUS
          <6> QED
            BY <6>1, <6>2, <6>3
        <5>2. s \ {m} \in SUBSET (1..(m - 1)) /\ m \in 1..n /\ s \ {m} \in SUBSET (1..m) /\ m \notin s \ {m}
          <6>1. m \in Nat /\ m >= 1 /\ n >= m
            BY <2>1, <2>3, <3>1
          <6>2. \A y \in s : y # m => y \in 1..(m - 1)
            BY <6>1
          <6> QED
            BY <6>1, <6>2
        <5>3. h[s \ {m}] = g[s \ {m}] /\ g[s \ {m}] \in D
          BY <3>2, <5>2 DEF Unfolds
        <5>4. h[s] = F[<<g[s \ {m}], m>>] /\ <<g[s \ {m}], m>> \in D \X (1..n) /\ s # {}
          BY <4>1, <5>2, <5>3
        <5> QED
          BY <5>1, <5>3, <5>4
      <4>2. CASE m \notin s
        <5>1. s \in SUBSET (1..(m - 1))
          BY <2>1, <4>2
        <5>2. h[s] = g[s] /\ h[s] \in D
          BY <3>2, <4>2, <5>1 DEF Unfolds
        <5>3. s \ {Max(s)} \in SUBSET (1..m) /\ s \ {Max(s)} \in SUBSET (1..(m - 1)) /\ m \notin s \ {Max(s)}
          BY <4>2, <5>1
        <5>4. h[s \ {Max(s)}] = g[s \ {Max(s)}]
          BY <5>3
        <5> QED
          BY <3>2, <5>1, <5>2, <5>4 DEF Unfolds
      <4> QED
        BY <4>1, <4>2
    <3>4. h \in [SUBSET (1..m) -> D]
      BY <3>3
    <3> HIDE DEF h
    <3>5. Unfolds(m, D, base, F, h)
      BY <3>3, <3>4 DEF Unfolds
    <3> QED
      BY <2>1, <3>5
  <2> QED
    BY <2>2, <2>3
<1> QED
  BY <1>1

-----------------------------------------------------------------------------
(* A write or a truncation of bytes leaves bytes. *)
LEMMA ApplyType ==
  ASSUME NEW data \in Contents, NEW op \in Ops
  PROVE  Apply(data, op) \in Contents
<1>1. Len(data) \in Nat /\ \A i \in 1..Len(data) : data[i] \in Sectors \cup {0}
  BY DEF Contents
<1>2. op.at \in Nat /\ Len(op.bytes) \in Nat /\ \A i \in 1..Len(op.bytes) : op.bytes[i] \in Sectors \cup {0}
  BY DEF Ops, Contents
<1>3. \A i \in Nat \ {0} : At(data, i) \in Sectors \cup {0}
  BY <1>1 DEF At
<1> DEFINE end == op.at + Len(op.bytes)
           len == IF Len(data) < end THEN end ELSE Len(data)
           cell(i) == IF i > op.at /\ i <= end THEN op.bytes[i - op.at] ELSE At(data, i)
<1>4. len \in Nat
  BY <1>1, <1>2
<1>5. \A i \in 1..len : cell(i) \in Sectors \cup {0}
  <2> SUFFICES ASSUME NEW i \in 1..len PROVE cell(i) \in Sectors \cup {0}
    OBVIOUS
  <2>1. i \in Nat \ {0}
    BY <1>4
  <2>2. CASE i > op.at /\ i <= end
    <3>1. i - op.at \in 1..Len(op.bytes)
      BY <1>2, <2>1, <2>2
    <3> QED
      BY <1>2, <2>2, <3>1
  <2>3. CASE ~(i > op.at /\ i <= end)
    BY <1>3, <2>1, <2>3
  <2> QED
    BY <2>2, <2>3
<1>6. CASE op.is = "truncate"
  <2>1. Apply(data, op) = [i \in 1..op.at |-> At(data, i)]
    BY <1>6 DEF Apply
  <2>2. \A i \in 1..op.at : At(data, i) \in Sectors \cup {0}
    BY <1>2, <1>3
  <2>3. [i \in 1..op.at |-> At(data, i)] \in Seq(Sectors \cup {0})
    BY <1>2, <2>2
  <2> QED
    BY <2>1, <2>3 DEF Contents
<1>7. CASE op.is # "truncate"
  <2>1. Apply(data, op) = [i \in 1..len |-> cell(i)]
    BY <1>7 DEF Apply
  <2> HIDE DEF len, cell
  <2>2. [i \in 1..len |-> cell(i)] \in Seq(Sectors \cup {0})
    BY <1>4, <1>5
  <2> QED
    BY <2>1, <2>2 DEF Contents
<1> QED
  BY <1>6, <1>7

(* h folds the changes p into d, on the subsets of their positions. *)
FoldsTo(h, d, p) ==
  /\ h \in [SUBSET (1..Len(p)) -> Contents]
  /\ \A s \in SUBSET (1..Len(p)) :
       h[s] = IF s = {} THEN d ELSE Apply(h[s \ {Max(s)}], p[Max(s)])

(* What FoldLeft chooses is such a function, taken at the whole sequence. *)
LEMMA ApplyFold ==
  ASSUME NEW d \in Contents, NEW p \in Seq(Ops)
  PROVE  \E h : FoldsTo(h, d, p) /\ FoldLeft(Apply, d, p) = h[1..Len(p)]
<1> DEFINE n == Len(p)
           F == [x \in Contents \X (1..n) |-> Apply(x[1], p[x[2]])]
<1>1. n \in Nat /\ DOMAIN p = 1..n /\ \A i \in 1..n : p[i] \in Ops
  OBVIOUS
<1>2. F \in [Contents \X (1..n) -> Contents]
  BY <1>1, ApplyType
<1>3. \A x \in Contents, k \in 1..n : F[<<x, k>>] = Apply(x, p[k])
  OBVIOUS
<1> HIDE DEF F, n
<1>4. PICK g : Unfolds(n, Contents, d, F, g)
  BY <1>1, <1>2, FoldExists
<1>5. \A s \in SUBSET (1..n) : s # {} => Max(s) \in 1..n /\ s \ {Max(s)} \in SUBSET (1..n)
  <2> SUFFICES ASSUME NEW s \in SUBSET (1..n), s # {} PROVE Max(s) \in s
    OBVIOUS
  <2> QED
    BY <1>1, GreatestOf
<1>6. g = [s \in SUBSET (DOMAIN p) |-> IF s = {} THEN d ELSE Apply(g[s \ {Max(s)}], p[Max(s)])]
  <2>1. \A s \in SUBSET (1..n) : g[s] = IF s = {} THEN d ELSE Apply(g[s \ {Max(s)}], p[Max(s)])
    <3> SUFFICES ASSUME NEW s \in SUBSET (1..n)
                 PROVE  g[s] = IF s = {} THEN d ELSE Apply(g[s \ {Max(s)}], p[Max(s)])
      OBVIOUS
    <3>1. CASE s = {}
      BY <1>4, <3>1 DEF Unfolds
    <3>2. CASE s # {}
      <4>1. g[s] = F[<<g[s \ {Max(s)}], Max(s)>>] /\ Max(s) \in 1..n /\ g[s \ {Max(s)}] \in Contents
        BY <1>4, <1>5, <3>2 DEF Unfolds
      <4> QED
        BY <1>3, <3>2, <4>1
    <3> QED
      BY <3>1, <3>2
  <2>2. g = [s \in SUBSET (1..n) |-> g[s]]
    BY <1>4 DEF Unfolds
  <2> QED
    BY <1>1, <2>1, <2>2
<1>7. PICK h : /\ h = [s \in SUBSET (DOMAIN p) |-> IF s = {} THEN d ELSE Apply(h[s \ {Max(s)}], p[Max(s)])]
               /\ FoldLeft(Apply, d, p) = h[DOMAIN p]
  BY <1>6, Zenon DEF FoldLeft, MapThenFoldSet
<1>8. \A s \in SUBSET (1..n) : h[s] = IF s = {} THEN d ELSE Apply(h[s \ {Max(s)}], p[Max(s)])
  BY <1>1, <1>7
<1>9. \A s \in SUBSET (1..n) : h[s] \in Contents
  <2> DEFINE T == {s \in SUBSET (1..n) : h[s] \in Contents}
  <2>1. {} \in T
    BY <1>8
  <2>2. \A s \in SUBSET (1..n) : s # {} /\ s \ {Max(s)} \in T => s \in T
    <3> SUFFICES ASSUME NEW s \in SUBSET (1..n), s # {}, s \ {Max(s)} \in T PROVE h[s] \in Contents
      OBVIOUS
    <3>1. h[s] = Apply(h[s \ {Max(s)}], p[Max(s)]) /\ h[s \ {Max(s)}] \in Contents /\ p[Max(s)] \in Ops
      BY <1>1, <1>5, <1>8
    <3> QED
      BY <3>1, ApplyType
  <2> HIDE DEF T
  <2>3. SUBSET (1..n) \subseteq T
    BY <1>1, <2>1, <2>2, SubsetInduction
  <2> QED
    BY <2>3 DEF T
<1>10. h \in [SUBSET (1..n) -> Contents]
  <2>1. h = [s \in SUBSET (1..n) |-> h[s]]
    BY <1>1, <1>7
  <2> QED
    BY <1>9, <2>1
<1> QED
  BY <1>1, <1>7, <1>8, <1>10 DEF FoldsTo, n

(* Changes applied in order to bytes leave bytes. *)
LEMMA FoldType ==
  ASSUME NEW d \in Contents, NEW p \in Seq(Ops)
  PROVE  FoldLeft(Apply, d, p) \in Contents
<1>1. PICK h : FoldsTo(h, d, p) /\ FoldLeft(Apply, d, p) = h[1..Len(p)]
  BY ApplyFold
<1> QED
  BY <1>1 DEF FoldsTo

(* No change leaves them as they are. *)
LEMMA FoldEmpty ==
  ASSUME NEW d \in Contents
  PROVE  FoldLeft(Apply, d, <<>>) = d
<1>1. <<>> \in Seq(Ops) /\ Len(<<>>) = 0
  OBVIOUS
<1>2. PICK h : FoldsTo(h, d, <<>>) /\ FoldLeft(Apply, d, <<>>) = h[1..0]
  BY <1>1, ApplyFold
<1>3. 1..0 = {} /\ 1..0 \in SUBSET (1..Len(<<>>))
  BY <1>1
<1> QED
  BY <1>2, <1>3 DEF FoldsTo

(* One change more is applied last. *)
LEMMA FoldAppend ==
  ASSUME NEW d \in Contents, NEW p \in Seq(Ops), NEW op \in Ops
  PROVE  FoldLeft(Apply, d, Append(p, op)) = Apply(FoldLeft(Apply, d, p), op)
<1> DEFINE n == Len(p)
           q == Append(p, op)
<1>1. n \in Nat /\ q \in Seq(Ops) /\ Len(q) = n + 1 /\ q[n + 1] = op /\ \A i \in 1..n : q[i] = p[i]
  OBVIOUS
<1>2. PICK g : FoldsTo(g, d, p) /\ FoldLeft(Apply, d, p) = g[1..n]
  BY ApplyFold
<1> HIDE DEF q
<1>3. PICK h : FoldsTo(h, d, q) /\ FoldLeft(Apply, d, q) = h[1..(n + 1)]
  BY <1>1, ApplyFold
<1> HIDE DEF n
<1>4. \A s \in SUBSET (1..n) : g[s] = IF s = {} THEN d ELSE Apply(g[s \ {Max(s)}], p[Max(s)])
  BY <1>2 DEF FoldsTo, n
<1>5. \A s \in SUBSET (1..(n + 1)) : h[s] = IF s = {} THEN d ELSE Apply(h[s \ {Max(s)}], q[Max(s)])
  BY <1>1, <1>3 DEF FoldsTo
<1>6. \A s \in SUBSET (1..n) : s \in SUBSET (1..(n + 1)) /\ (s # {} => Max(s) \in 1..n)
  <2> SUFFICES ASSUME NEW s \in SUBSET (1..n) PROVE s \in SUBSET (1..(n + 1)) /\ (s # {} => Max(s) \in s)
    BY <1>1
  <2>1. \A y \in s : y \in 1..(n + 1)
    BY <1>1
  <2> QED
    BY <1>1, <2>1, GreatestOf
<1>7. \A s \in SUBSET (1..n) : g[s] = h[s]
  <2> DEFINE T == {s \in SUBSET (1..n) : g[s] = h[s]}
  <2>1. {} \in T
    BY <1>4, <1>5, <1>6
  <2>2. ASSUME NEW s \in SUBSET (1..n), s # {}, s \ {Max(s)} \in T PROVE s \in T
    <3>1. g[s] = Apply(g[s \ {Max(s)}], p[Max(s)]) /\ h[s] = Apply(h[s \ {Max(s)}], q[Max(s)])
      BY <1>4, <1>5, <1>6, <2>2
    <3> QED
      BY <1>1, <1>6, <2>2, <3>1
  <2> HIDE DEF T
  <2>3. SUBSET (1..n) \subseteq T
    BY <1>1, <2>1, <2>2, SubsetInduction
  <2> QED
    BY <2>3 DEF T
<1> DEFINE all == 1..(n + 1)
<1>8. all \in SUBSET (1..(n + 1)) /\ all # {} /\ n + 1 \in Nat /\ n + 1 \in all /\ all \ {n + 1} = 1..n
  <2>1. n + 1 \in Nat /\ n + 1 \in all
    BY <1>1
  <2>2. \A y : y \in all \ {n + 1} <=> y \in 1..n
    BY <1>1
  <2> QED
    BY <2>1, <2>2
<1>9. Max(all) = n + 1
  <2>1. PICK x \in all : x = Max(all) /\ \A y \in all : x >= y
    <3>1. all # {} /\ all \in SUBSET (1..(n + 1)) /\ n + 1 \in Nat
      BY <1>8
    <3> HIDE DEF all
    <3> QED
      BY <3>1, GreatestOf
  <2> QED
    BY <1>1, <1>8, <2>1
<1> HIDE DEF all
<1>10. h[all] = Apply(h[1..n], op)
  BY <1>1, <1>5, <1>8, <1>9
<1>11. 1..n \in SUBSET (1..n)
  OBVIOUS
<1> QED
  BY <1>2, <1>3, <1>7, <1>10, <1>11 DEF all, q

-----------------------------------------------------------------------------
(* A change that was cut leaves bytes. *)
LEMMA LandedType ==
  ASSUME NEW data \in Contents, NEW op \in Ops, NEW k \in Nat
  PROVE  Landed(data, op, k) \in Contents
<1>1. CASE k = 0 \/ op.is = "truncate"
  BY <1>1, ApplyType DEF Landed
<1>2. CASE k # 0 /\ op.is # "truncate"
  <2> DEFINE m == IF k < Len(op.bytes) THEN k ELSE Len(op.bytes)
             some == [op EXCEPT !.bytes = SubSeq(@, 1, m)]
  <2>1. Landed(data, op, k) = Apply(data, some)
    BY <1>2 DEF Landed
  <2>2. m \in 0..Len(op.bytes) /\ op.bytes \in Contents
    BY DEF Ops, Contents
  <2> HIDE DEF m
  <2>3. SubSeq(op.bytes, 1, m) \in Contents
    BY <2>2 DEF Contents
  <2>4. some \in Ops
    BY <2>3 DEF Ops
  <2> HIDE DEF some
  <2> QED
    BY <2>1, <2>4, ApplyType
<1> QED
  BY <1>1, <1>2

(* Changes cut and applied in order leave bytes, and none the same ones. *)
LEMMA LandedFold ==
  ASSUME NEW d \in Contents, NEW p \in Seq(Ops), NEW cut \in [DOMAIN p -> Nat]
  PROVE  /\ FoldLeftDomain(LAMBDA data, k : Landed(data, p[k], cut[k]), d, p) \in Contents
         /\ p = <<>> => FoldLeftDomain(LAMBDA data, k : Landed(data, p[k], cut[k]), d, p) = d
<1> DEFINE n == Len(p)
           F == [x \in Contents \X (1..n) |-> Landed(x[1], p[x[2]], cut[x[2]])]
           each == [i \in DOMAIN p |-> i]
<1>1. n \in Nat /\ DOMAIN p = 1..n /\ DOMAIN each = 1..n
      /\ \A i \in 1..n : p[i] \in Ops /\ cut[i] \in Nat /\ each[i] = i
  OBVIOUS
<1>2. F \in [Contents \X (1..n) -> Contents]
  BY <1>1, LandedType
<1>3. \A x \in Contents, k \in 1..n : F[<<x, k>>] = Landed(x, p[k], cut[k])
  OBVIOUS
<1> HIDE DEF F, n
<1>4. PICK g : Unfolds(n, Contents, d, F, g)
  BY <1>1, <1>2, FoldExists
<1>5. \A s \in SUBSET (1..n) : s # {} => Max(s) \in 1..n /\ s \ {Max(s)} \in SUBSET (1..n)
  <2> SUFFICES ASSUME NEW s \in SUBSET (1..n), s # {} PROVE Max(s) \in s
    OBVIOUS
  <2> QED
    BY <1>1, GreatestOf
<1> HIDE DEF each
<1>6. g = [s \in SUBSET (DOMAIN each) |->
             IF s = {} THEN d ELSE Landed(g[s \ {Max(s)}], p[each[Max(s)]], cut[each[Max(s)]])]
  <2>1. ASSUME NEW s \in SUBSET (1..n)
        PROVE  g[s] = IF s = {} THEN d ELSE Landed(g[s \ {Max(s)}], p[each[Max(s)]], cut[each[Max(s)]])
    <3>1. CASE s = {}
      BY <1>4, <3>1 DEF Unfolds
    <3>2. CASE s # {}
      <4>1. /\ g[s] = F[<<g[s \ {Max(s)}], Max(s)>>] /\ Max(s) \in 1..n /\ g[s \ {Max(s)}] \in Contents
            /\ each[Max(s)] = Max(s)
        BY <1>1, <1>4, <1>5, <3>2 DEF Unfolds
      <4> QED
        BY <1>3, <3>2, <4>1
    <3> QED
      BY <3>1, <3>2
  <2>2. g = [s \in SUBSET (1..n) |-> g[s]]
    BY <1>4 DEF Unfolds
  <2> QED
    BY <1>1, <2>1, <2>2
<1>7. PICK h :
        /\ h = [s \in SUBSET (DOMAIN each) |->
                  IF s = {} THEN d ELSE Landed(h[s \ {Max(s)}], p[each[Max(s)]], cut[each[Max(s)]])]
        /\ FoldLeft(LAMBDA data, k : Landed(data, p[k], cut[k]), d, each) = h[DOMAIN each]
  BY <1>6, Zenon DEF FoldLeft, MapThenFoldSet
<1>8. FoldLeftDomain(LAMBDA data, k : Landed(data, p[k], cut[k]), d, p) = h[1..n]
  BY <1>1, <1>7, Zenon DEF FoldLeftDomain, each
<1>9. \A s \in SUBSET (1..n) :
        h[s] = IF s = {} THEN d ELSE Landed(h[s \ {Max(s)}], p[each[Max(s)]], cut[each[Max(s)]])
  BY <1>1, <1>7
<1>10. \A s \in SUBSET (1..n) : h[s] \in Contents
  <2> DEFINE T == {s \in SUBSET (1..n) : h[s] \in Contents}
  <2>1. {} \in T
    BY <1>9
  <2>2. \A s \in SUBSET (1..n) : s # {} /\ s \ {Max(s)} \in T => s \in T
    <3> SUFFICES ASSUME NEW s \in SUBSET (1..n), s # {}, s \ {Max(s)} \in T PROVE h[s] \in Contents
      OBVIOUS
    <3>1. /\ h[s] = Landed(h[s \ {Max(s)}], p[Max(s)], cut[Max(s)]) /\ h[s \ {Max(s)}] \in Contents
          /\ p[Max(s)] \in Ops /\ cut[Max(s)] \in Nat
      BY <1>1, <1>5, <1>9
    <3> QED
      BY <3>1, LandedType
  <2> HIDE DEF T
  <2>3. SUBSET (1..n) \subseteq T
    BY <1>1, <2>1, <2>2, SubsetInduction
  <2> QED
    BY <2>3 DEF T
<1>11. p = <<>> => 1..n = {}
  BY <1>1 DEF n
<1>12. 1..n \in SUBSET (1..n)
  OBVIOUS
<1> QED
  BY <1>8, <1>9, <1>10, <1>11, <1>12

(* Files: their bytes, durable ones and what waits. *)
Files == [data : Contents, durable : Contents, pending : Seq(Ops)]

(* What a crash leaves of a file is bytes: the durable ones, unless writes tear and some wait. *)
LEMMA OutcomesType ==
  ASSUME NEW file \in Files, NEW left \in Outcomes(file)
  PROVE  left \in Contents /\ (file.pending = <<>> \/ ~Torn => left = file.durable)
<1>1. file.durable \in Contents /\ file.pending \in Seq(Ops)
  BY DEF Files
<1>2. CASE ~Torn
  BY <1>1, <1>2 DEF Outcomes
<1>3. CASE Torn
  <2>1. PICK cut \in [DOMAIN file.pending -> Widths(file)] :
          left = FoldLeftDomain(LAMBDA data, k : Landed(data, file.pending[k], cut[k]),
                       file.durable, file.pending)
    BY <1>3, Zenon DEF Outcomes
  <2>2. \A k \in Widths(file) : k \in Nat
    BY DEF Widths
  <2>3. cut \in [DOMAIN file.pending -> Nat]
    BY <2>2
  <2> QED
    BY <1>1, <1>3, <2>1, <2>3, LandedFold
<1> QED
  BY <1>2, <1>3

-----------------------------------------------------------------------------
(* Files: what is durable, with what waits, is what they hold.               *)

(* A file whose durable bytes, under the writes that wait, are its bytes. *)
Right(file) == file \in Files /\ FoldLeft(Apply, file.durable, file.pending) = file.data
AllRight(files) == \A i \in DOMAIN files : Right(files[i])

(* A new file is right. *)
LEMMA NewRight == Right(NewFile)
<1>1. <<>> \in Contents /\ <<>> \in Seq(Ops)
  BY DEF Contents
<1> QED
  BY <1>1, FoldEmpty DEF Right, Files, NewFile

(* A change applies to the bytes and is the last that waits. *)
LEMMA ChangeRight ==
  ASSUME NEW file, Right(file), NEW op \in Ops
  PROVE  Right(Change(file, op))
<1>1. file \in Files /\ file.data \in Contents /\ file.durable \in Contents /\ file.pending \in Seq(Ops)
  BY DEF Right, Files
<1>2. Apply(file.data, op) \in Contents /\ Append(file.pending, op) \in Seq(Ops)
  BY <1>1, ApplyType
<1>3. /\ Change(file, op).data = Apply(file.data, op) /\ Change(file, op).durable = file.durable
      /\ Change(file, op).pending = Append(file.pending, op) /\ Change(file, op) \in Files
  BY <1>1, <1>2 DEF Change, Files
<1>4. FoldLeft(Apply, file.durable, Append(file.pending, op)) = Apply(FoldLeft(Apply, file.durable, file.pending), op)
  BY <1>1, FoldAppend
<1>5. FoldLeft(Apply, file.durable, file.pending) = file.data
  BY DEF Right
<1>6. FoldLeft(Apply, Change(file, op).durable, Change(file, op).pending) = Change(file, op).data
  BY <1>3, <1>4, <1>5
<1> QED
  BY <1>3, <1>6 DEF Right

(* A sync replays what waits onto the durable bytes, and has the bytes. *)
LEMMA SyncedRight ==
  ASSUME NEW file, Right(file)
  PROVE  /\ Right(SyncedFile(file)) /\ SyncedFile(file).durable = file.data
         /\ SyncedFile(file).data = file.data /\ SyncedFile(file).pending = <<>>
<1>1. file \in Files /\ file.data \in Contents /\ file.durable \in Contents /\ file.pending \in Seq(Ops)
  BY DEF Right, Files
<1>2. FoldLeft(Apply, file.durable, file.pending) = file.data
  BY DEF Right
<1>3. /\ SyncedFile(file).data = file.data /\ SyncedFile(file).pending = <<>>
      /\ SyncedFile(file).durable = FoldLeft(Apply, file.durable, file.pending)
  BY <1>1 DEF SyncedFile, Files
<1>4. SyncedFile(file).durable = file.data
  BY <1>2, <1>3
<1>5. FoldLeft(Apply, file.durable, file.pending) \in Contents /\ <<>> \in Seq(Ops)
  BY <1>1, FoldType
<1>7. SyncedFile(file) \in Files
  BY <1>1, <1>5 DEF SyncedFile, Files
<1>8. FoldLeft(Apply, file.data, <<>>) = file.data
  BY <1>1, FoldEmpty
<1>9. FoldLeft(Apply, SyncedFile(file).durable, SyncedFile(file).pending) = SyncedFile(file).data
  BY <1>3, <1>4, <1>8
<1> QED
  BY <1>3, <1>4, <1>7, <1>9 DEF Right

(* A file put among right ones. *)
LEMMA PutRight ==
  ASSUME NEW files, AllRight(files), NEW i, NEW file, Right(file)
  PROVE  AllRight(Put(i, file, files))
BY DEF AllRight, Put

(* Files forgotten are of no matter. *)
LEMMA ForgetRight ==
  ASSUME NEW files, AllRight(files), NEW ns, NEW ds
  PROVE  AllRight(ForgetUnreachable(files, ns, ds))
<1>1. /\ DOMAIN ForgetUnreachable(files, ns, ds) \subseteq DOMAIN files
      /\ \A i \in DOMAIN ForgetUnreachable(files, ns, ds) : ForgetUnreachable(files, ns, ds)[i] = files[i]
  BY DEF ForgetUnreachable, Restrict
<1> QED
  BY <1>1 DEF AllRight

(* A file synced among right ones. *)
LEMMA FilesSyncedRight ==
  ASSUME AllRight(inode), NEW i
  PROVE  AllRight(FilesSynced(i))
<1>1. CASE i \in DOMAIN inode
  <2>1. Right(SyncedFile(inode[i]))
    BY <1>1, SyncedRight DEF AllRight
  <2> QED
    BY <1>1, <2>1 DEF AllRight, FilesSynced
<1>2. CASE i \notin DOMAIN inode
  BY <1>2 DEF FilesSynced
<1> QED
  BY <1>1, <1>2

(* Changes have the type of one. *)
LEMMA OpsType ==
  ASSUME NEW at \in Nat, NEW bytes \in Contents
  PROVE  Write(at, bytes) \in Ops /\ Truncate(at) \in Ops
<1>1. <<>> \in Contents
  BY DEF Contents
<1> QED
  BY <1>1 DEF Ops, Write, Truncate

(* A write: of the file named, or a new one. *)
LEMMA WriteToRight ==
  ASSUME Shape, AllRight(inode), NEW p \in Paths, NEW bytes \in Contents, NEW append \in BOOLEAN,
         WriteTo(p, bytes, append)
  PROVE  AllRight(inode')
<1> DEFINE i == IF IsFile(p) THEN names[p] ELSE next
           file == IF IsFile(p) THEN inode[i] ELSE NewFile
           old == Len(file.data)
           new == IF append THEN Change(file, Write(old, bytes))
                            ELSE Change(Change(file, Truncate(0)), Write(0, bytes))
<1>1. inode' = Put(i, new, inode)
  BY DEF WriteTo
<1>2. Right(file)
  BY NewRight DEF IsFile, Shape, Reaches, AllRight
<1> HIDE DEF file
<1>3. old \in Nat /\ 0 \in Nat
  BY <1>2 DEF Right, Files, Contents
<1> HIDE DEF old
<1>4. Write(old, bytes) \in Ops /\ Write(0, bytes) \in Ops /\ Truncate(0) \in Ops
  BY <1>3, OpsType
<1>5. Right(Change(file, Write(old, bytes))) /\ Right(Change(file, Truncate(0)))
  BY <1>2, <1>4, ChangeRight
<1>6. Right(Change(Change(file, Truncate(0)), Write(0, bytes)))
  BY <1>4, <1>5, ChangeRight
<1>7. Right(new)
  BY <1>5, <1>6
<1> HIDE DEF new
<1> QED
  BY <1>1, <1>7, PutRight

(* A change through a handle. *)
LEMMA XChangeRight ==
  ASSUME AllRight(inode), NEW h, NEW op \in Ops, NEW grow, XChange(h, op, grow)
  PROVE  AllRight(inode')
<1>1. PICK i \in DOMAIN inode : inode' = [inode EXCEPT ![i] = Change(@, op)]
  BY DEF XChange
<1>2. Right(Change(inode[i], op))
  BY ChangeRight DEF AllRight
<1> QED
  BY <1>1, <1>2 DEF AllRight

(* A directory's sync forgets files and changes none. *)
LEMMA SyncDirRight ==
  ASSUME NEW files, AllRight(files), NEW ns, NEW ds, NEW said, NEW d, SyncDir(ns, files, ds, said, d)
  PROVE  AllRight(inode')
BY ForgetRight DEF SyncDir

(* SQLite's sync, of the file, its directory or both. *)
LEMMA XSyncRight ==
  ASSUME AllRight(inode), NEW h, NEW file \in BOOLEAN, NEW dir \in BOOLEAN, XSync(h, file, dir)
  PROVE  AllRight(inode')
<1> DEFINE i == handle[h].ino
           p == handle[h].path
           too == dir /\ handle[h].dirsync
<1>1. /\ names' = names
      /\ CASE file /\ too -> SyncDir(names, FilesSynced(i), NamesSynced(i, p), PromiseSynced(i, p), Parent(p))
           [] file /\ ~too -> SyncIno(i, p)
           [] ~file /\ too -> SyncDir(names, inode, durable, promised, Parent(p))
           [] ~file /\ ~too -> UNCHANGED <<inode, durable, promised>>
  BY DEF XSync
<1> HIDE DEF i, p, too
<1>2. AllRight(FilesSynced(i))
  BY FilesSyncedRight
<1>3. CASE file /\ too
  BY <1>1, <1>2, <1>3, SyncDirRight
<1>4. CASE file /\ ~too
  BY <1>1, <1>2, <1>4 DEF SyncIno
<1>5. CASE ~file /\ too
  BY <1>1, <1>5, SyncDirRight
<1>6. CASE ~file /\ ~too
  BY <1>1, <1>6
<1> QED
  BY <1>3, <1>4, <1>5, <1>6

(* A crash leaves of every file some bytes, durable and with none waiting. *)
LEMMA CrashRight ==
  ASSUME AllRight(inode), Crash
  PROVE  AllRight(inode')
<1>1. PICK left :
        /\ \A i \in DOMAIN inode : left[i] \in Outcomes(inode[i])
        /\ inode' = ForgetUnreachable(
             [i \in DOMAIN inode |-> [data |-> left[i], durable |-> left[i], pending |-> <<>>]],
             durable, durable)
  BY DEF Crash
<1> DEFINE files == [i \in DOMAIN inode |-> [data |-> left[i], durable |-> left[i], pending |-> <<>>]]
<1>2. <<>> \in Seq(Ops)
  OBVIOUS
<1>3. \A i \in DOMAIN inode : left[i] \in Contents
  BY <1>1, OutcomesType DEF AllRight, Right
<1>4. ASSUME NEW i \in DOMAIN inode PROVE Right([data |-> left[i], durable |-> left[i], pending |-> <<>>])
  BY <1>2, <1>3, FoldEmpty DEF Right, Files
<1>5. AllRight(files)
  BY <1>4 DEF AllRight
<1>6. inode' = ForgetUnreachable(files, durable, durable)
  BY <1>1
<1> HIDE DEF files
<1> QED
  BY <1>5, <1>6, ForgetRight

(* No step leaves a file wrong. *)
LEMMA RightStep ==
  ASSUME Shape, AllRight(inode), [DiskNext]_simDiskVars
  PROVE  AllRight(inode')
<1>1. CASE Crash
  BY <1>1, CrashRight
<1>2. CASE Kill \/ UNCHANGED simDiskVars
  BY <1>2 DEF Kill, simDiskVars, diskVars
<1>3. ASSUME NEW p \in Paths, Sync(p) \/ MkDirAll(p) \/ XDelete(p) PROVE AllRight(inode')
  <2>1. CASE Sync(p)
    BY <2>1, FilesSyncedRight, SyncDirRight DEF Sync, SyncIno
  <2>2. CASE MkDirAll(p)
    BY <2>2 DEF MkDirAll
  <2>3. CASE XDelete(p)
    BY <2>3, SyncDirRight DEF XDelete
  <2> QED
    BY <1>3, <2>1, <2>2, <2>3
<1>4. ASSUME NEW p \in Paths, Unlink(p) \/ RmDirAll(p) PROVE AllRight(inode')
  BY <1>4, ForgetRight DEF Unlink, RmDirAll, Removed
<1>5. ASSUME NEW p \in Paths, NEW q \in Paths, Rename(p, q) PROVE AllRight(inode')
  BY <1>5, ForgetRight DEF Rename
<1>6. ASSUME NEW p \in Paths, NEW q \in Paths, CopyFile(p, q) PROVE AllRight(inode')
  <2>1. WriteTo(q, inode[names[p]].data, FALSE) /\ names[p] \in DOMAIN inode
    BY <1>6 DEF CopyFile, IsFile, Shape, Reaches
  <2>2. inode[names[p]].data \in Contents
    BY <2>1 DEF AllRight, Right, Files
  <2> QED
    BY <2>1, <2>2, WriteToRight
<1>7. ASSUME NEW p \in Paths, NEW v \in Sectors, NEW append \in BOOLEAN, WriteFile(p, v, append)
      PROVE  AllRight(inode')
  <2>1. <<v>> \in Contents
    BY DEF Contents
  <2> QED
    BY <1>7, <2>1, WriteToRight DEF WriteFile
<1>8. ASSUME NEW h \in Handles, NEW p \in Paths, NEW dirsync \in BOOLEAN, XOpen(h, p, dirsync)
      PROVE  AllRight(inode')
  BY <1>8, PutRight, NewRight DEF XOpen
<1>9. ASSUME NEW h \in Handles, NEW v \in Sectors, XWrite(h, 0, <<v, v>>) \/ XWrite(h, 1, <<v>>)
      PROVE  AllRight(inode')
  <2>1. <<v, v>> \in Contents /\ <<v>> \in Contents /\ 0 \in Nat /\ 1 \in Nat
    BY DEF Contents
  <2>2. Write(0, <<v, v>>) \in Ops /\ Write(1, <<v>>) \in Ops
    BY <2>1, OpsType
  <2> QED
    BY <1>9, <2>2, XChangeRight DEF XWrite
<1>10. ASSUME NEW h \in Handles, XTruncate(h, 0) \/ XTruncate(h, 1) PROVE AllRight(inode')
  <2>1. <<>> \in Contents /\ 0 \in Nat /\ 1 \in Nat
    BY DEF Contents
  <2>2. Truncate(0) \in Ops /\ Truncate(1) \in Ops
    BY <2>1, OpsType
  <2> QED
    BY <1>10, <2>2, XChangeRight DEF XTruncate
<1>11. ASSUME NEW h \in Handles, NEW file \in BOOLEAN, NEW dir \in BOOLEAN, XSync(h, file, dir)
       PROVE  AllRight(inode')
  BY <1>11, XSyncRight
<1> QED
  BY <1>1, <1>2, <1>3, <1>4, <1>5, <1>6, <1>7, <1>8, <1>9, <1>10, <1>11 DEF DiskNext

(* A sync replays the writes that wait onto the durable bytes and ends with *)
(* the file's, for every file, whatever was written, cut, torn or killed.   *)
THEOREM PendingIsTheRestAlways == DiskSpec => []PendingIsTheRest
<1>1. DiskInit => Shape /\ AllRight(inode)
  <2>1. None \notin Inodes /\ Dir \notin Inodes
    BY BoundsAssumption DEF None, Dir, Inodes
  <2> QED
    BY <2>1 DEF DiskInit, Shape, Reaches, Entries, AllRight
<1>2. Shape /\ AllRight(inode) /\ [DiskNext]_simDiskVars => Shape' /\ AllRight(inode)'
  BY ShapeStep, RightStep
<1>3. AllRight(inode) => PendingIsTheRest
  BY SyncedRight DEF AllRight, PendingIsTheRest
<1> QED
  BY <1>1, <1>2, <1>3, PTL DEF DiskSpec

-----------------------------------------------------------------------------
(* Inodes are numbered in order, and calls and stops counted. *)
DiskNumbers ==
  /\ DOMAIN inode \subseteq 1..(next - 1) /\ next \in 1..(MaxInodes + 1)
  /\ handle \in [Handles -> [ino : 0..(next - 1), path : Paths, boot : 0..boot, dirsync : BOOLEAN]]
  /\ boot \in 0..MaxStops /\ steps \in 0..MaxSteps
  /\ DOMAIN promised \subseteq Paths

(* The root is a directory, in both namespaces. *)
Roots == names[<<>>] = Dir /\ durable[<<>>] = Dir

(* A call is counted within its bound. *)
LEMMA StepCounts ==
  ASSUME steps \in 0..MaxSteps, Step
  PROVE  steps' \in 0..MaxSteps
<1>1. MaxSteps \in Nat
  BY BoundsAssumption
<1> QED
  BY <1>1 DEF Step

(* Promises are about paths: with some gone, *)
LEMMA WithoutType ==
  ASSUME DOMAIN promised \subseteq Paths, NEW ps
  PROVE  DOMAIN Without(ps) \subseteq Paths /\ DOMAIN Made(ps) \subseteq Paths
BY DEF Without, Made, Restrict

(* Forgetting adds no file, *)
LEMMA ForgetDomain ==
  ASSUME NEW files, NEW ns, NEW ds
  PROVE  DOMAIN ForgetUnreachable(files, ns, ds) \subseteq DOMAIN files
BY DEF ForgetUnreachable, Restrict

(* nor does a sync. *)
LEMMA FilesSyncedDomain ==
  ASSUME NEW i
  PROVE  DOMAIN FilesSynced(i) = DOMAIN inode
BY DEF FilesSynced

(* What a directory's sync says is about paths, *)
LEMMA PromiseType ==
  ASSUME NEW before, DOMAIN before \subseteq Paths, NEW ns, NEW files, NEW d
  PROVE  DOMAIN PromiseDir(ns, files, d, before) \subseteq Paths
BY DEF PromiseDir

(* and what a file's sync says. *)
LEMMA PromiseSyncedType ==
  ASSUME DOMAIN promised \subseteq Paths, NEW i, NEW p \in Paths
  PROVE  DOMAIN PromiseSynced(i, p) \subseteq Paths
BY DEF PromiseSynced, PromiseFile

(* A step that makes no file. *)
LEMMA NumbersFew ==
  ASSUME DiskNumbers, UNCHANGED <<next, boot, handle>>, steps' \in 0..MaxSteps,
         DOMAIN inode' \subseteq DOMAIN inode, DOMAIN promised' \subseteq Paths
  PROVE  DiskNumbers'
BY DEF DiskNumbers

(* A file made: its inode is the next number. *)
LEMMA NumbersMade ==
  ASSUME DiskNumbers, Shape, NEW p \in Paths, NEW i, i \in Inodes,
         i = IF IsFile(p) THEN names[p] ELSE next,
         DOMAIN inode' = {i} \cup DOMAIN inode, next' = (IF IsFile(p) THEN next ELSE next + 1),
         boot' = boot, steps' \in 0..MaxSteps, DOMAIN promised' \subseteq Paths,
         handle' \in [Handles -> [ino : 0..(next' - 1), path : Paths, boot : 0..boot, dirsync : BOOLEAN]]
  PROVE  DiskNumbers' /\ i \in 1..(next' - 1)
<1>1. MaxInodes \in Nat /\ i \in 1..MaxInodes /\ next \in 1..(MaxInodes + 1)
  BY BoundsAssumption DEF DiskNumbers, Inodes
<1>2. next' \in 1..(MaxInodes + 1) /\ next' - 1 >= next - 1
  BY <1>1
<1>3. IsFile(p) => i \in DOMAIN inode
  BY DEF IsFile, Shape, Reaches
<1>4. i \in 1..(next' - 1)
  BY <1>1, <1>3 DEF DiskNumbers
<1>5. DOMAIN inode' \subseteq 1..(next' - 1)
  BY <1>1, <1>2, <1>4 DEF DiskNumbers
<1> QED
  BY <1>2, <1>4, <1>5 DEF DiskNumbers

(* A handle is as good when there are more inodes. *)
LEMMA HandleWider ==
  ASSUME DiskNumbers, next' = next \/ next' = next + 1, handle' = handle
  PROVE  handle' \in [Handles -> [ino : 0..(next' - 1), path : Paths, boot : 0..boot, dirsync : BOOLEAN]]
<1>1. next \in Nat
  BY BoundsAssumption DEF DiskNumbers
<1>2. \A n \in 0..(next - 1) : n \in 0..(next' - 1)
  BY <1>1
<1> DEFINE old == 0..(next - 1)
           new == 0..(next' - 1)
<1>3. handle \in [Handles -> [ino : old, path : Paths, boot : 0..boot, dirsync : BOOLEAN]]
  BY DEF DiskNumbers
<1>4. \A n \in old : n \in new
  BY <1>2
<1> HIDE DEF old, new
<1>5. handle \in [Handles -> [ino : new, path : Paths, boot : 0..boot, dirsync : BOOLEAN]]
  BY <1>3, <1>4
<1> QED
  BY <1>5 DEF new

(* A write makes a file or does not, *)
LEMMA WriteToNumbers ==
  ASSUME DiskNumbers, Shape, NEW p \in Paths, NEW bytes, NEW append, WriteTo(p, bytes, append)
  PROVE  DiskNumbers'
<1> DEFINE i == IF IsFile(p) THEN names[p] ELSE next
<1>1. i \in Inodes /\ \E file : inode' = Put(i, file, inode)
  BY Zenon DEF WriteTo
<1>0. DOMAIN inode' = {i} \cup DOMAIN inode
  BY <1>1, OneMore
<1>2. /\ next' = (IF IsFile(p) THEN next ELSE next + 1) /\ boot' = boot /\ handle' = handle
      /\ Step /\ promised' = Made({p})
  BY DEF WriteTo
<1>3. steps' \in 0..MaxSteps /\ DOMAIN promised' \subseteq Paths
  BY <1>2, StepCounts, WithoutType DEF DiskNumbers
<1>4. handle' \in [Handles -> [ino : 0..(next' - 1), path : Paths, boot : 0..boot, dirsync : BOOLEAN]]
  BY <1>2, HandleWider
<1> QED
  BY <1>0, <1>1, <1>2, <1>3, <1>4, NumbersMade

(* as opening one, by a handle of this boot. *)
LEMMA XOpenNumbers ==
  ASSUME DiskNumbers, Shape, NEW h \in Handles, NEW p \in Paths, NEW dirsync \in BOOLEAN, XOpen(h, p, dirsync)
  PROVE  DiskNumbers'
<1> DEFINE i == IF IsFile(p) THEN names[p] ELSE next
<1>1. /\ handle' = [handle EXCEPT ![h] = [ino |-> i, path |-> p, boot |-> boot, dirsync |-> dirsync]]
      /\ inode' = IF IsFile(p) THEN inode ELSE Put(i, NewFile, inode)
      /\ next' = (IF IsFile(p) THEN next ELSE next + 1) /\ boot' = boot
      /\ Step /\ promised' = Made({p}) /\ (Exists(p) \/ next \in Inodes) /\ ~IsDir(p)
  BY DEF XOpen
<1>2. names[p] \in Entries
  BY DEF Shape
<1>3. i \in Inodes
  BY <1>1, <1>2 DEF IsFile, IsDir, Exists, Entries
<1>4. DOMAIN inode' = {i} \cup DOMAIN inode
  BY <1>1, OneMore DEF IsFile, Shape, Reaches
<1>5. i \in 0..(next' - 1) /\ boot \in 0..boot /\ next' \in Nat
  <2>1. MaxInodes \in Nat /\ MaxStops \in Nat
    BY BoundsAssumption
  <2>2. IsFile(p) => i \in 1..(next - 1)
    BY DEF IsFile, Shape, Reaches, DiskNumbers
  <2> QED
    BY <1>1, <1>3, <2>1, <2>2 DEF DiskNumbers, Inodes
<1> HIDE DEF i
<1>6. \A n \in 0..(next - 1) : n \in 0..(next' - 1)
  BY <1>1, BoundsAssumption DEF DiskNumbers
<1>7. handle' \in [Handles -> [ino : 0..(next' - 1), path : Paths, boot : 0..boot, dirsync : BOOLEAN]]
  BY <1>1, <1>5, <1>6 DEF DiskNumbers
<1>8. steps' \in 0..MaxSteps /\ DOMAIN promised' \subseteq Paths
  BY <1>1, StepCounts, WithoutType DEF DiskNumbers
<1> QED
  BY <1>1, <1>3, <1>4, <1>7, <1>8, NumbersMade DEF i

(* Syncs, removals and stops make none. *)
LEMMA SyncNumbers ==
  ASSUME DiskNumbers, NEW p \in Paths, Sync(p)
  PROVE  DiskNumbers'
<1>1. UNCHANGED <<next, boot, handle>> /\ steps' \in 0..MaxSteps
  BY StepCounts DEF Sync, DiskNumbers
<1>2. DOMAIN promised \subseteq Paths
  BY DEF DiskNumbers
<1>3. DOMAIN inode' \subseteq DOMAIN inode /\ DOMAIN promised' \subseteq Paths
  <2>1. CASE IsFile(p)
    BY <1>2, <2>1, FilesSyncedDomain, PromiseSyncedType DEF Sync, SyncIno
  <2>2. CASE ~IsFile(p)
    BY <1>2, <2>2, ForgetDomain, PromiseType DEF Sync, SyncDir
  <2> QED
    BY <2>1, <2>2
<1> QED
  BY <1>1, <1>3, NumbersFew

(* SQLite's syncs make no file, *)
LEMMA XSyncNumbers ==
  ASSUME DiskNumbers, NEW h \in Handles, NEW file \in BOOLEAN, NEW dir \in BOOLEAN, XSync(h, file, dir)
  PROVE  DiskNumbers'
<1> DEFINE i == handle[h].ino
           p == handle[h].path
           too == dir /\ handle[h].dirsync
<1>1. /\ UNCHANGED <<next, boot>> /\ Step /\ handle' = [handle EXCEPT ![h].dirsync = FALSE]
      /\ CASE file /\ too -> SyncDir(names, FilesSynced(i), NamesSynced(i, p), PromiseSynced(i, p), Parent(p))
           [] file /\ ~too -> SyncIno(i, p)
           [] ~file /\ too -> SyncDir(names, inode, durable, promised, Parent(p))
           [] ~file /\ ~too -> UNCHANGED <<inode, durable, promised>>
  BY DEF XSync
<1>2. p \in Paths /\ DOMAIN promised \subseteq Paths
  BY DEF DiskNumbers
<1>3. handle' \in [Handles -> [ino : 0..(next - 1), path : Paths, boot : 0..boot, dirsync : BOOLEAN]]
  BY <1>1 DEF DiskNumbers
<1> HIDE DEF i, p, too
<1>4. DOMAIN FilesSynced(i) = DOMAIN inode /\ DOMAIN PromiseSynced(i, p) \subseteq Paths
  BY <1>2, FilesSyncedDomain, PromiseSyncedType
<1>5. DOMAIN inode' \subseteq DOMAIN inode /\ DOMAIN promised' \subseteq Paths
  <2>1. CASE file /\ too
    BY <1>1, <1>4, <2>1, ForgetDomain, PromiseType DEF SyncDir
  <2>2. CASE file /\ ~too
    BY <1>1, <1>4, <2>2 DEF SyncIno
  <2>3. CASE ~file /\ too
    BY <1>1, <1>2, <2>3, ForgetDomain, PromiseType DEF SyncDir
  <2>4. CASE ~file /\ ~too
    BY <1>1, <1>2, <2>4
  <2> QED
    BY <2>1, <2>2, <2>3, <2>4
<1>6. steps' \in 0..MaxSteps
  BY <1>1, StepCounts DEF DiskNumbers
<1> QED
  BY <1>1, <1>3, <1>5, <1>6 DEF DiskNumbers

(* nor do its removals, *)
LEMMA XDeleteNumbers ==
  ASSUME DiskNumbers, NEW p \in Paths, XDelete(p)
  PROVE  DiskNumbers'
<1>1. UNCHANGED <<next, boot, handle>> /\ steps' \in 0..MaxSteps
  BY StepCounts DEF XDelete, DiskNumbers
<1>2. DOMAIN Without({p}) \subseteq Paths
  BY WithoutType DEF DiskNumbers
<1>3. DOMAIN inode' \subseteq DOMAIN inode /\ DOMAIN promised' \subseteq Paths
  BY <1>2, ForgetDomain, PromiseType DEF XDelete, SyncDir
<1> QED
  BY <1>1, <1>3, NumbersFew

(* nor a stop, which is counted. *)
LEMMA StopNumbers ==
  ASSUME DiskNumbers, Crash \/ Kill
  PROVE  DiskNumbers'
<1>1. MaxStops \in Nat
  BY BoundsAssumption
<1>2. boot' \in 0..MaxStops /\ boot' = boot + 1 /\ UNCHANGED <<next, handle, steps>>
  BY <1>1 DEF Crash, Kill, DiskStop, DiskNumbers, diskVars
<1>3. \A b \in 0..boot : b \in 0..boot'
  BY <1>1, <1>2 DEF DiskNumbers
<1>4. handle' \in [Handles -> [ino : 0..(next - 1), path : Paths, boot : 0..boot', dirsync : BOOLEAN]]
  BY <1>2, <1>3 DEF DiskNumbers
<1>5. DOMAIN inode' \subseteq DOMAIN inode
  <2>1. CASE Crash
    <3>1. PICK left :
            inode' = ForgetUnreachable(
              [i \in DOMAIN inode |-> [data |-> left[i], durable |-> left[i], pending |-> <<>>]],
              durable, durable)
      BY <2>1 DEF Crash
    <3> QED
      BY <3>1, ForgetDomain
  <2>2. CASE Kill
    BY <2>2 DEF Kill, diskVars
  <2> QED
    BY <2>1, <2>2
<1>6. DOMAIN promised' \subseteq Paths
  BY DEF Crash, Kill, Restrict, DiskNumbers
<1> QED
  BY <1>2, <1>4, <1>5, <1>6 DEF DiskNumbers

(* Numbers stay in order in every step. *)
LEMMA NumbersStep ==
  ASSUME Shape, DiskNumbers, [DiskNext]_simDiskVars
  PROVE  DiskNumbers'
<1>1. CASE Crash \/ Kill
  BY <1>1, StopNumbers
<1>2. CASE UNCHANGED simDiskVars
  BY <1>2 DEF simDiskVars, diskVars, DiskNumbers
<1>3. ASSUME NEW p \in Paths, Sync(p) \/ XDelete(p) PROVE DiskNumbers'
  BY <1>3, SyncNumbers, XDeleteNumbers
<1>4. ASSUME NEW p \in Paths, MkDirAll(p) \/ Unlink(p) \/ RmDirAll(p) \/ \E q \in Paths : Rename(p, q)
      PROVE DiskNumbers'
  <2>1. UNCHANGED <<next, boot, handle>> /\ Step
    BY <1>4 DEF MkDirAll, Unlink, RmDirAll, Rename, Removed
  <2>2. inode' = inode \/ inode' = ForgetUnreachable(inode, names', durable)
    BY <1>4 DEF MkDirAll, Unlink, RmDirAll, Rename, Removed
  <2>3. \E ps : promised' = Without(ps) \/ promised' = Made(ps)
    BY <1>4 DEF MkDirAll, Unlink, RmDirAll, Rename, Removed
  <2>4. DOMAIN inode' \subseteq DOMAIN inode /\ DOMAIN promised' \subseteq Paths /\ steps' \in 0..MaxSteps
    BY <2>1, <2>2, <2>3, ForgetDomain, WithoutType, StepCounts DEF DiskNumbers
  <2> QED
    BY <2>1, <2>4, NumbersFew
<1>5. ASSUME NEW p \in Paths, NEW q \in Paths, CopyFile(p, q) PROVE DiskNumbers'
  BY <1>5, WriteToNumbers DEF CopyFile
<1>6. ASSUME NEW p \in Paths, NEW v \in Sectors, NEW append \in BOOLEAN, WriteFile(p, v, append)
      PROVE  DiskNumbers'
  BY <1>6, WriteToNumbers DEF WriteFile
<1>7. ASSUME NEW h \in Handles, NEW p \in Paths, NEW dirsync \in BOOLEAN, XOpen(h, p, dirsync)
      PROVE  DiskNumbers'
  BY <1>7, XOpenNumbers
<1>8. ASSUME NEW h, NEW op, NEW grow, XChange(h, op, grow) PROVE DiskNumbers'
  <2>1. UNCHANGED <<next, boot, handle, promised>> /\ Step /\ DOMAIN inode' = DOMAIN inode
    BY <1>8 DEF XChange
  <2>2. steps' \in 0..MaxSteps /\ DOMAIN promised' \subseteq Paths
    BY <2>1, StepCounts DEF DiskNumbers
  <2> QED
    BY <2>1, <2>2, NumbersFew
<1>9. ASSUME NEW h \in Handles, NEW v \in Sectors, XWrite(h, 0, <<v, v>>) \/ XWrite(h, 1, <<v>>)
      PROVE  DiskNumbers'
  BY <1>8, <1>9 DEF XWrite
<1>10. ASSUME NEW h \in Handles, XTruncate(h, 0) \/ XTruncate(h, 1) PROVE DiskNumbers'
  BY <1>8, <1>10 DEF XTruncate
<1>11. ASSUME NEW h \in Handles, NEW file \in BOOLEAN, NEW dir \in BOOLEAN, XSync(h, file, dir)
       PROVE  DiskNumbers'
  BY <1>11, XSyncNumbers
<1> QED
  BY <1>1, <1>2, <1>3, <1>4, <1>5, <1>6, <1>7, <1>9, <1>10, <1>11 DEF DiskNext

-----------------------------------------------------------------------------
(* Paths: what is above what, and what a rename calls what it moves.        *)

(* d is shorter than p, and what p begins with. *)
Begins(d, p) == Len(d) < Len(p) /\ \A i \in 1..Len(d) : d[i] = p[i]

(* IsStrictPrefix by lengths and members. *)
LEMMA UnderDef ==
  ASSUME NEW S, NEW d \in Seq(S), NEW p \in Seq(S)
  PROVE  Under(d, p) <=> Begins(d, p)
<1>1. SubSeq(d, 1, Len(d)) = d /\ Len(d) \in Nat /\ Len(p) \in Nat
  OBVIOUS
<1>2. ASSUME Len(d) <= Len(p)
      PROVE  /\ SubSeq(p, 1, Len(d)) \in Seq(S) /\ Len(SubSeq(p, 1, Len(d))) = Len(d)
             /\ \A i \in 1..Len(d) : SubSeq(p, 1, Len(d))[i] = p[i]
  BY <1>1, <1>2
<1>3. ASSUME NEW e \in Seq(S), Len(e) = Len(d), \A i \in 1..Len(d) : d[i] = e[i] PROVE d = e
  BY <1>3
<1>4. ASSUME Under(d, p) PROVE Len(d) < Len(p) /\ \A i \in 1..Len(d) : d[i] = p[i]
  <2>1. Len(d) <= Len(p) /\ SubSeq(p, 1, Len(d)) = d /\ d # p
    BY <1>1, <1>4 DEF Under, IsStrictPrefix, IsPrefix
  <2>2. \A i \in 1..Len(d) : d[i] = p[i]
    BY <1>2, <2>1
  <2>3. Len(d) # Len(p)
    BY <1>3, <2>1, <2>2
  <2> QED
    BY <1>1, <2>1, <2>2, <2>3
<1>5. ASSUME Len(d) < Len(p), \A i \in 1..Len(d) : d[i] = p[i] PROVE Under(d, p)
  <2>1. Len(d) <= Len(p) /\ d # p
    BY <1>1, <1>5
  <2>2. d = SubSeq(p, 1, Len(d))
    BY <1>2, <1>3, <1>5, <2>1
  <2> QED
    BY <1>1, <2>1, <2>2 DEF Under, IsStrictPrefix, IsPrefix
<1> QED
  BY <1>4, <1>5 DEF Begins

(* Sequences are their members. *)
LEMMA SameSeq ==
  ASSUME NEW S, NEW d \in Seq(S), NEW e \in Seq(S), Len(e) = Len(d), \A i \in 1..Len(d) : d[i] = e[i]
  PROVE  d = e
OBVIOUS

(* What is above what is above a path is above it. *)
LEMMA UnderTrans ==
  ASSUME NEW S, NEW a \in Seq(S), NEW b \in Seq(S), NEW c \in Seq(S), Under(a, b), Under(b, c)
  PROVE  Under(a, c)
BY UnderDef DEF Begins

(* Nothing is above itself, nor above the root, which is above all else. *)
LEMMA UnderOnce ==
  ASSUME NEW S, NEW a \in Seq(S), NEW b \in Seq(S)
  PROVE  ~Under(a, a) /\ ~(Under(a, b) /\ Under(b, a)) /\ ~Under(a, <<>>) /\ (a # <<>> => Under(<<>>, a))
<1>1. Len(a) \in Nat /\ Len(b) \in Nat /\ (a # <<>> => Len(a) > 0)
  OBVIOUS
<1>2. <<>> \in Seq(S) /\ Len(<<>>) = 0 /\ 1..0 = {}
  OBVIOUS
<1>3. ~Under(a, a) /\ ~(Under(a, b) /\ Under(b, a))
  <2>1. (Under(a, a) => Len(a) < Len(a)) /\ (Under(a, b) => Len(a) < Len(b)) /\ (Under(b, a) => Len(b) < Len(a))
    BY UnderDef DEF Begins
  <2> QED
    BY <1>1, <2>1
<1>4. ~Under(a, <<>>)
  <2> SUFFICES ASSUME NEW e \in Seq(S), Len(e) = 0 PROVE ~Under(a, e)
    BY <1>2
  <2>1. Under(a, e) => Len(a) < Len(e)
    BY UnderDef DEF Begins
  <2> QED
    BY <1>1, <2>1
<1>5. a # <<>> => Under(<<>>, a)
  <2> SUFFICES ASSUME NEW e \in Seq(S), Len(e) = 0, Len(a) > 0 PROVE Under(e, a)
    BY <1>1, <1>2
  <2>1. Begins(e, a)
    BY <1>1 DEF Begins
  <2> QED
    BY <2>1, UnderDef
<1> QED
  BY <1>3, <1>4, <1>5

(* Of two paths above a third one is above the other. *)
LEMMA UnderBoth ==
  ASSUME NEW S, NEW a \in Seq(S), NEW b \in Seq(S), NEW c \in Seq(S), Under(a, c), Under(b, c)
  PROVE  a = b \/ Under(a, b) \/ Under(b, a)
<1>1. Len(a) \in Nat /\ Len(b) \in Nat /\ Len(c) \in Nat
  OBVIOUS
<1>0. Begins(a, c) /\ Begins(b, c)
  BY UnderDef
<1>2. CASE Len(a) < Len(b)
  <2>1. Begins(a, b)
    BY <1>0, <1>1, <1>2 DEF Begins
  <2> QED
    BY <2>1, UnderDef
<1>3. CASE Len(b) < Len(a)
  <2>1. Begins(b, a)
    BY <1>0, <1>1, <1>3 DEF Begins
  <2> QED
    BY <2>1, UnderDef
<1>4. CASE Len(a) = Len(b)
  <2>1. \A i \in 1..Len(a) : a[i] = b[i]
    BY <1>0, <1>1, <1>4 DEF Begins
  <2> QED
    BY <1>4, <2>1, SameSeq
<1> QED
  BY <1>1, <1>2, <1>3, <1>4

(* The first k members. *)
LEMMA Shorter ==
  ASSUME NEW S, NEW p \in Seq(S), NEW k \in 0..Len(p)
  PROVE  SubSeq(p, 1, k) \in Seq(S) /\ Len(SubSeq(p, 1, k)) = k /\ \A i \in 1..k : SubSeq(p, 1, k)[i] = p[i]
<1>1. Len(p) \in Nat /\ k \in Nat /\ k <= Len(p)
  OBVIOUS
<1>2. \A i \in 1..k : p[i] \in S
  BY <1>1
<1>3. /\ SubSeq(p, 1, k) \in Seq(S)
      /\ Len(SubSeq(p, 1, k)) = IF 1 <= k THEN k - 1 + 1 ELSE 0
      /\ \A i \in 1..(k - 1 + 1) : SubSeq(p, 1, k)[i] = p[1 + i - 1]
  <2>1. 1 \in Int /\ k \in Int
    BY <1>1
  <2> QED
    BY <1>2, <2>1, SubSeqProperties
<1>4. k - 1 + 1 = k /\ Len(SubSeq(p, 1, k)) = k
  BY <1>1, <1>3
<1>5. ASSUME NEW i \in 1..k PROVE SubSeq(p, 1, k)[i] = p[i]
  <2>1. 1 + i - 1 = i /\ i \in 1..(k - 1 + 1)
    BY <1>1
  <2>2. SubSeq(p, 1, k)[i] = p[1 + i - 1]
    BY <1>3, <2>1
  <2> QED
    BY <2>1, <2>2
<1> QED
  BY <1>3, <1>4, <1>5

(* The parent is above, and nothing is between. *)
LEMMA ParentUnder ==
  ASSUME NEW S, NEW p \in Seq(S), p # <<>>
  PROVE  /\ Parent(p) \in Seq(S) /\ Under(Parent(p), p) /\ Len(Parent(p)) = Len(p) - 1
         /\ \A d \in Seq(S) : Under(d, p) => d = Parent(p) \/ Under(d, Parent(p))
<1> DEFINE f == SubSeq(p, 1, Len(p) - 1)
<1>1. Len(p) \in Nat /\ Len(p) > 0 /\ Parent(p) = f
  BY DEF Parent, Front
<1>2. /\ f \in Seq(S) /\ Len(f) = Len(p) - 1
      /\ \A i \in 1..(Len(p) - 1) : f[i] = p[i]
  <2>1. Len(p) - 1 \in 0..Len(p)
    BY <1>1
  <2> QED
    BY <2>1, Shorter
<1> HIDE DEF f
<1>3. Under(f, p)
  <2>1. Begins(f, p)
    BY <1>1, <1>2 DEF Begins
  <2> QED
    BY <1>2, <2>1, UnderDef
<1>4. ASSUME NEW d \in Seq(S), Under(d, p) PROVE d = f \/ Under(d, f)
  <2>1. Len(d) \in Nat /\ Len(d) < Len(p) /\ \A i \in 1..Len(d) : d[i] = p[i]
    BY <1>4, UnderDef DEF Begins
  <2>2. \A i \in 1..Len(d) : d[i] = f[i]
    BY <1>1, <1>2, <2>1
  <2>3. CASE Len(d) = Len(f)
    BY <1>2, <2>2, <2>3, SameSeq
  <2>4. CASE Len(d) # Len(f)
    <3>1. Begins(d, f)
      BY <1>1, <1>2, <2>1, <2>2, <2>4 DEF Begins
    <3> QED
      BY <1>2, <3>1, UnderDef
  <2> QED
    BY <2>3, <2>4
<1> QED
  BY <1>1, <1>2, <1>3, <1>4

(* What a rename of p to q calls r. *)
Moved(p, q, r) == q \o SubSeq(r, Len(p) + 1, Len(r))

(* m is r with q for the p it begins with. *)
MovesTo(p, q, r, m) ==
  /\ Len(m) = Len(q) + Len(r) - Len(p) /\ Len(r) >= Len(p)
  /\ \A i \in 1..Len(q) : m[i] = q[i]
  /\ \A i \in 1..(Len(r) - Len(p)) : m[Len(q) + i] = r[Len(p) + i]

(* A path moved is that. *)
LEMMA MovedDef ==
  ASSUME NEW S, NEW p \in Seq(S), NEW q \in Seq(S), NEW r \in Seq(S), r = p \/ Under(p, r)
  PROVE  Moved(p, q, r) \in Seq(S) /\ MovesTo(p, q, r, Moved(p, q, r))
<1> DEFINE s == SubSeq(r, Len(p) + 1, Len(r))
<1>1. Len(p) \in Nat /\ Len(q) \in Nat /\ Len(r) \in Nat /\ Len(r) >= Len(p)
  BY UnderDef DEF Begins
<1>2. /\ s \in Seq(S) /\ Len(s) = Len(r) - Len(p)
      /\ \A i \in 1..(Len(r) - Len(p)) : s[i] = r[Len(p) + i]
  <2>1. \A i \in (Len(p) + 1)..Len(r) : r[i] \in S
    BY <1>1
  <2>2. Len(p) + 1 \in Int /\ Len(r) \in Int /\ Len(r) - (Len(p) + 1) + 1 = Len(r) - Len(p)
    BY <1>1
  <2>3. /\ s \in Seq(S) /\ Len(s) = IF Len(p) + 1 <= Len(r) THEN Len(r) - (Len(p) + 1) + 1 ELSE 0
        /\ \A i \in 1..(Len(r) - (Len(p) + 1) + 1) : s[i] = r[Len(p) + 1 + i - 1]
    BY <2>1, <2>2, SubSeqProperties
  <2> QED
    BY <1>1, <2>2, <2>3
<1> HIDE DEF s
<1>3. /\ q \o s \in Seq(S) /\ Len(q \o s) = Len(q) + Len(s)
      /\ \A i \in 1..(Len(q) + Len(s)) : (q \o s)[i] = IF i <= Len(q) THEN q[i] ELSE s[i - Len(q)]
  BY <1>2, ConcatProperties
<1>4. \A i \in 1..Len(q) : (q \o s)[i] = q[i]
  BY <1>1, <1>2, <1>3
<1>5. ASSUME NEW i \in 1..(Len(r) - Len(p)) PROVE (q \o s)[Len(q) + i] = s[i]
  <2>1. Len(q) + i \in 1..(Len(q) + Len(s)) /\ ~(Len(q) + i <= Len(q)) /\ Len(q) + i - Len(q) = i
    BY <1>1, <1>2
  <2> QED
    BY <1>3, <2>1
<1> QED
  BY <1>1, <1>2, <1>3, <1>4, <1>5 DEF Moved, MovesTo, s

(* Different paths have different new names, and keep their last one. *)
LEMMA MovedOnce ==
  ASSUME NEW S, NEW p \in Seq(S), NEW q \in Seq(S),
         NEW r \in Seq(S), r = p \/ Under(p, r), NEW s \in Seq(S), s = p \/ Under(p, s),
         Moved(p, q, r) = Moved(p, q, s)
  PROVE  r = s
<1>1. Len(p) \in Nat /\ Len(q) \in Nat /\ Len(r) \in Nat /\ Len(s) \in Nat
  OBVIOUS
<1>0. PICK m \in Seq(S) : MovesTo(p, q, r, m) /\ MovesTo(p, q, s, m)
  BY MovedDef
<1>2. Len(r) = Len(s) /\ Len(r) >= Len(p)
  BY <1>0, <1>1 DEF MovesTo
<1>3. \A i \in 1..(Len(r) - Len(p)) : r[Len(p) + i] = s[Len(p) + i]
  BY <1>0, <1>1, <1>2 DEF MovesTo
<1>4. \A i \in 1..Len(p) : r[i] = s[i]
  <2>1. (r = p \/ Begins(p, r)) /\ (s = p \/ Begins(p, s))
    BY UnderDef
  <2> QED
    BY <2>1 DEF Begins
<1>5. \A i \in 1..Len(r) : r[i] = s[i]
  <2> SUFFICES ASSUME NEW i \in 1..Len(r) PROVE r[i] = s[i]
    OBVIOUS
  <2>1. CASE i <= Len(p)
    BY <1>1, <1>4, <2>1
  <2>2. CASE i > Len(p)
    <3>1. i - Len(p) \in 1..(Len(r) - Len(p)) /\ Len(p) + (i - Len(p)) = i
      BY <1>1, <2>2
    <3> QED
      BY <1>3, <3>1
  <2> QED
    BY <1>1, <2>1, <2>2
<1> QED
  BY <1>2, <1>5, SameSeq

(* What was under p is under q, and its last name is what it was. *)
LEMMA MovedLast ==
  ASSUME NEW S, NEW p \in Seq(S), NEW q \in Seq(S), NEW r \in Seq(S), Under(p, r)
  PROVE  Moved(p, q, r) # <<>> /\ Last(Moved(p, q, r)) = Last(r) /\ Under(q, Moved(p, q, r))
<1>1. Len(p) \in Nat /\ Len(q) \in Nat /\ Len(r) \in Nat /\ Len(r) > Len(p)
  BY UnderDef DEF Begins
<1>2. PICK m \in Seq(S) : m = Moved(p, q, r) /\ MovesTo(p, q, r, m)
  BY MovedDef
<1>3. /\ Len(m) = Len(q) + Len(r) - Len(p) /\ \A i \in 1..Len(q) : m[i] = q[i]
      /\ \A i \in 1..(Len(r) - Len(p)) : m[Len(q) + i] = r[Len(p) + i]
  BY <1>2 DEF MovesTo
<1>4. Len(m) > 0 /\ Len(q) < Len(m)
  BY <1>1, <1>3
<1>5. m[Len(m)] = r[Len(r)]
  <2>1. Len(r) - Len(p) \in 1..(Len(r) - Len(p))
    BY <1>1
  <2>2. Len(q) + (Len(r) - Len(p)) = Len(m) /\ Len(p) + (Len(r) - Len(p)) = Len(r)
    BY <1>1, <1>3
  <2> QED
    BY <1>3, <2>1, <2>2
<1>6. Under(q, m)
  <2>1. Begins(q, m)
    BY <1>3, <1>4 DEF Begins
  <2> QED
    BY <2>1, UnderDef
<1> QED
  BY <1>2, <1>4, <1>5, <1>6 DEF Last

(* What is p itself is q; and what is above a moved path has been above q, *)
(* or has moved with it. *)
LEMMA MovedSelf ==
  ASSUME NEW S, NEW p \in Seq(S), NEW q \in Seq(S)
  PROVE  Moved(p, q, p) = q
<1>1. PICK m \in Seq(S) : m = Moved(p, q, p) /\ MovesTo(p, q, p, m)
  BY MovedDef
<1>2. Len(m) = Len(q) /\ \A i \in 1..Len(q) : m[i] = q[i]
  BY <1>1 DEF MovesTo
<1> QED
  BY <1>1, <1>2, SameSeq

(* What is above a moved path is above q, or has moved too. *)
LEMMA MovedAbove ==
  ASSUME NEW S, NEW p \in Seq(S), NEW q \in Seq(S), NEW r \in Seq(S), r = p \/ Under(p, r),
         NEW d \in Seq(S), Under(d, Moved(p, q, r))
  PROVE  \/ Under(d, q)
         \/ \E s \in Seq(S) : (s = p \/ Under(p, s)) /\ Under(s, r) /\ d = Moved(p, q, s)
<1>1. Len(p) \in Nat /\ Len(q) \in Nat /\ Len(r) \in Nat /\ Len(d) \in Nat
  OBVIOUS
<1>2. PICK m \in Seq(S) : m = Moved(p, q, r) /\ MovesTo(p, q, r, m)
  BY MovedDef
<1>3. /\ Len(m) = Len(q) + Len(r) - Len(p) /\ Len(r) >= Len(p)
      /\ \A i \in 1..Len(q) : m[i] = q[i]
      /\ \A i \in 1..(Len(r) - Len(p)) : m[Len(q) + i] = r[Len(p) + i]
  BY <1>2 DEF MovesTo
<1>4. Len(d) < Len(m) /\ \A i \in 1..Len(d) : d[i] = m[i]
  <2>1. Begins(d, m)
    BY <1>2, UnderDef
  <2> QED
    BY <2>1 DEF Begins
<1>5. CASE Len(d) < Len(q)
  <2>1. \A i \in 1..Len(d) : d[i] = q[i]
    BY <1>1, <1>3, <1>4, <1>5
  <2>2. Begins(d, q)
    BY <1>5, <2>1 DEF Begins
  <2> QED
    BY <2>2, UnderDef
<1>6. CASE Len(d) >= Len(q)
  <2> DEFINE k == Len(p) + (Len(d) - Len(q))
             s == SubSeq(r, 1, k)
  <2>1. k \in Nat /\ k < Len(r) /\ k >= Len(p)
    BY <1>1, <1>3, <1>4, <1>6
  <2>2. s \in Seq(S) /\ Len(s) = k
    BY <1>1, <2>1, Shorter
  <2>3. \A i \in 1..k : s[i] = r[i]
    BY <1>1, <2>1, Shorter
  <2> HIDE DEF s, k
  <2>4. Under(s, r)
    <3>1. Begins(s, r)
      BY <2>1, <2>2, <2>3 DEF Begins
    <3> QED
      BY <2>2, <3>1, UnderDef
  <2>5. \A i \in 1..Len(p) : r[i] = p[i]
    <3>1. r = p \/ Begins(p, r)
      BY UnderDef
    <3> QED
      BY <3>1 DEF Begins
  <2>6. s = p \/ Under(p, s)
    <3>1. \A i \in 1..Len(p) : p[i] = s[i]
      BY <1>1, <2>1, <2>3, <2>5
    <3>2. CASE Len(p) < Len(s)
      <4>1. Begins(p, s)
        BY <3>1, <3>2 DEF Begins
      <4> QED
        BY <2>2, <4>1, UnderDef
    <3>3. CASE Len(p) = Len(s)
      BY <2>2, <3>1, <3>3, SameSeq
    <3> QED
      BY <1>1, <2>1, <2>2, <3>2, <3>3
  <2>7. PICK n \in Seq(S) : n = Moved(p, q, s) /\ MovesTo(p, q, s, n)
    BY <2>2, <2>6, MovedDef
  <2>8. /\ Len(n) = Len(q) + Len(s) - Len(p) /\ \A i \in 1..Len(q) : n[i] = q[i]
        /\ \A i \in 1..(Len(s) - Len(p)) : n[Len(q) + i] = s[Len(p) + i]
    BY <2>7 DEF MovesTo
  <2>9. Len(n) = Len(d) /\ Len(s) - Len(p) = Len(d) - Len(q)
    BY <1>1, <2>2, <2>8 DEF k
  <2>10. \A i \in 1..Len(d) : d[i] = n[i]
    <3> SUFFICES ASSUME NEW i \in 1..Len(d) PROVE m[i] = n[i]
      BY <1>4
    <3>1. CASE i <= Len(q)
      BY <1>1, <1>3, <2>8, <3>1
    <3>2. CASE i > Len(q)
      <4>1. PICK j \in 1..(Len(s) - Len(p)) : i = Len(q) + j
        <5>1. i - Len(q) \in 1..(Len(s) - Len(p)) /\ i = Len(q) + (i - Len(q))
          BY <1>1, <2>9, <3>2
        <5> QED
          BY <5>1
      <4>2. j \in 1..(Len(r) - Len(p)) /\ Len(p) + j \in 1..k
        BY <1>1, <2>1, <2>2, <4>1
      <4>3. n[i] = s[Len(p) + j] /\ s[Len(p) + j] = r[Len(p) + j] /\ m[i] = r[Len(p) + j]
        BY <1>3, <2>3, <2>8, <4>1, <4>2
      <4> QED
        BY <4>3
    <3> QED
      BY <1>1, <3>1, <3>2
  <2>11. d = n
    BY <2>9, <2>10, SameSeq
  <2> QED
    BY <2>2, <2>4, <2>6, <2>7, <2>11
<1> QED
  BY <1>1, <1>5, <1>6

-----------------------------------------------------------------------------
(* Paths are sequences of names, with their parents. *)
LEMMA PathsAreSeqs ==
  /\ Paths \subseteq Seq(STRING) /\ <<>> \in Paths
  /\ \A p \in Paths : p # <<>> => Parent(p) \in Paths
BY PathsAssumption DEF Parent

(* The root is under nothing. *)
LEMMA RootIsAlone ==
  ASSUME NEW p \in Paths
  PROVE  ~Under(p, <<>>) /\ (<<>> \in OnOrUnder(p) => p = <<>>) /\ ~ChildOf(p, <<>>)
BY PathsAreSeqs, UnderOnce DEF OnOrUnder, ChildOf

(* A sync leaves the root what it is. *)
LEMMA PersistEntryRoot ==
  ASSUME NEW ns, NEW ds, ns[<<>>] = Dir, NEW p
  PROVE  PersistEntry(ns, ds, p)[<<>>] = Dir
BY PathsAreSeqs DEF PersistEntry

(* A sync of a directory does, too, *)
LEMMA SyncedDirRoot ==
  ASSUME NEW ns, NEW ds, ns[<<>>] = Dir, ds[<<>>] = Dir, NEW d \in Paths
  PROVE  SyncedDir(ns, ds, d)[<<>>] = Dir
<1> DEFINE gone == {p \in Paths : ChildOf(d, p) /\ ds[p] # None /\ ns[p] = None}
           here == [q \in Paths |-> IF \E p \in gone : q \in OnOrUnder(p) THEN None
                               ELSE IF ChildOf(d, q) /\ ns[q] # None THEN ns[q] ELSE ds[q]]
<1>1. SyncedDir(ns, ds, d) = IF ns[d] = Dir THEN PersistEntry(ns, here, d) ELSE here
  BY DEF SyncedDir
<1>2. <<>> \in Paths /\ ~ChildOf(d, <<>>)
  BY PathsAreSeqs, RootIsAlone
<1>3. ~\E p \in gone : <<>> \in OnOrUnder(p)
  BY <1>2, RootIsAlone
<1>4. here[<<>>] = Dir
  BY <1>2, <1>3
<1> HIDE DEF here, gone
<1> QED
  BY <1>1, <1>4, PersistEntryRoot

(* and a file's. *)
LEMMA NamesSyncedRoot ==
  ASSUME Roots, NEW i, NEW p
  PROVE  NamesSynced(i, p)[<<>>] = Dir
BY PersistEntryRoot DEF NamesSynced, Roots

(* Nothing moves to the root, and it does not move. *)
LEMMA RenameRoot ==
  ASSUME Shape, Roots, NEW p \in Paths, NEW q \in Paths, Rename(p, q)
  PROVE  names'[<<>>] = Dir
<1> DEFINE moved == {r \in OnOrUnder(p) : Exists(r)}
           New(r) == q \o SubSeq(r, Len(p) + 1, Len(r))
           arrives == {New(r) : r \in moved}
<1>1. /\ names' = [r \in Paths |-> IF r \in arrives THEN names[CHOOSE old \in moved : New(old) = r]
                                   ELSE IF r \in OnOrUnder(p) THEN None ELSE names[r]]
      /\ Exists(p) /\ p # q
      /\ IsFile(p) => ~IsDir(q)
      /\ IsDir(p) => ~Under(p, q) /\ ~\E r \in Paths : Under(q, r) /\ Exists(r)
  BY DEF Rename
<1>2. IsFile(p) \/ IsDir(p)
  BY <1>1 DEF Shape, Entries, IsFile, IsDir, Exists
<1>3. <<>> \in Paths /\ IsDir(<<>>) /\ p \in Seq(STRING) /\ q \in Seq(STRING)
  BY PathsAreSeqs DEF Roots, IsDir
<1>4. q # <<>>
  <2> SUFFICES ASSUME q = <<>> PROVE FALSE
    OBVIOUS
  <2>1. IsDir(p) /\ p # <<>> /\ Under(<<>>, p)
    BY <1>1, <1>2, <1>3, UnderOnce
  <2> QED
    BY <1>1, <2>1
<1>5. <<>> \notin OnOrUnder(p)
  <2> SUFFICES ASSUME p = <<>> PROVE FALSE
    BY RootIsAlone
  <2>1. IsDir(p) /\ Under(p, q)
    BY <1>3, <1>4, UnderOnce
  <2> QED
    BY <1>1, <2>1
<1>6. <<>> \notin arrives
  <2> SUFFICES ASSUME NEW r \in OnOrUnder(p), Moved(p, q, r) = <<>> PROVE FALSE
    BY DEF Moved
  <2>1. r \in Seq(STRING) /\ (r = p \/ Under(p, r))
    BY PathsAreSeqs DEF OnOrUnder
  <2>2. MovesTo(p, q, r, <<>>)
    BY <1>3, <2>1, MovedDef
  <2>3. 0 = Len(q) + Len(r) - Len(p) /\ Len(r) >= Len(p) /\ Len(q) \in Nat /\ Len(r) \in Nat /\ Len(p) \in Nat
    BY <1>3, <2>1, <2>2 DEF MovesTo
  <2>4. Len(q) = 0
    BY <2>3
  <2> QED
    BY <1>3, <1>4, <2>4
<1> HIDE DEF arrives, moved, New
<1> QED
  BY <1>1, <1>3, <1>5, <1>6 DEF Roots

(* A removal spares it. *)
LEMMA RemovedRoot ==
  ASSUME Roots, NEW ps, <<>> \notin ps, Removed(ps)
  PROVE  Roots'
BY PathsAreSeqs DEF Roots, Removed

(* SQLite's syncs. *)
LEMMA XSyncRoot ==
  ASSUME Roots, DiskNumbers, NEW h \in Handles, NEW file \in BOOLEAN, NEW dir \in BOOLEAN, XSync(h, file, dir)
  PROVE  Roots'
<1> DEFINE i == handle[h].ino
           p == handle[h].path
           too == dir /\ handle[h].dirsync
<1>1. /\ names' = names
      /\ CASE file /\ too -> SyncDir(names, FilesSynced(i), NamesSynced(i, p), PromiseSynced(i, p), Parent(p))
           [] file /\ ~too -> SyncIno(i, p)
           [] ~file /\ too -> SyncDir(names, inode, durable, promised, Parent(p))
           [] ~file /\ ~too -> UNCHANGED <<inode, durable, promised>>
  BY DEF XSync
<1>2. p \in Paths
  BY DEF DiskNumbers
<1> HIDE DEF i, p, too
<1>3. Parent(p) \in Paths
  BY <1>2, PathsAreSeqs DEF Parent
<1>4. names[<<>>] = Dir /\ durable[<<>>] = Dir /\ NamesSynced(i, p)[<<>>] = Dir
  BY NamesSyncedRoot DEF Roots
<1>5. durable'[<<>>] = Dir
  BY <1>1, <1>3, <1>4, SyncedDirRoot DEF SyncDir, SyncIno
<1> QED
  BY <1>1, <1>4, <1>5 DEF Roots

(* The root is a directory after every step. *)
LEMMA RootsStep ==
  ASSUME Shape, DiskNumbers, Roots, [DiskNext]_simDiskVars
  PROVE  Roots'
<1>0. names[<<>>] = Dir /\ durable[<<>>] = Dir /\ <<>> \in Paths /\ <<>> \notin FilePaths
      /\ names \in [Paths -> Entries] /\ Dir \notin Inodes /\ None # Dir
  BY PathsAssumption, BoundsAssumption DEF Roots, Shape, Inodes, Dir, None
<1>1. CASE Crash \/ Kill \/ UNCHANGED simDiskVars
  BY <1>0, <1>1 DEF Crash, Kill, simDiskVars, diskVars, Roots
<1>2. ASSUME NEW p \in FilePaths, NEW i, names' = [names EXCEPT ![p] = i], durable' = durable PROVE Roots'
  BY <1>0, <1>2 DEF Roots
<1>3. ASSUME NEW p \in Paths, Sync(p) \/ XDelete(p) PROVE Roots'
  <2>1. CASE Sync(p) /\ IsFile(p)
    <3>1. names' = names /\ durable' = NamesSynced(names[p], p)
      BY <2>1 DEF Sync, SyncIno
    <3> QED
      BY <1>0, <3>1, NamesSyncedRoot DEF Roots
  <2>2. CASE Sync(p) /\ ~IsFile(p)
    <3>1. names' = names /\ durable' = SyncedDir(names, durable, p)
      BY <2>2 DEF Sync, SyncDir
    <3> QED
      BY <1>0, <3>1, SyncedDirRoot DEF Roots
  <2>3. CASE XDelete(p)
    <3>1. p # <<>> /\ names' = [names EXCEPT ![p] = None] /\ durable' = SyncedDir(names', durable, Parent(p))
      BY <1>0, <2>3 DEF XDelete, SyncDir, IsFile
    <3>2. names'[<<>>] = Dir /\ Parent(p) \in Paths
      BY <1>0, <3>1, PathsAreSeqs
    <3> QED
      BY <1>0, <3>1, <3>2, SyncedDirRoot DEF Roots
  <2> QED
    BY <1>3, <2>1, <2>2, <2>3
<1>4. ASSUME NEW p \in Paths, MkDirAll(p) PROVE Roots'
  BY <1>0, <1>4 DEF MkDirAll, Roots
<1>5. ASSUME NEW p \in Paths, Unlink(p) \/ RmDirAll(p) PROVE Roots'
  <2>1. CASE Unlink(p)
    BY <1>0, <2>1, RemovedRoot DEF Unlink, IsFile
  <2>2. CASE RmDirAll(p)
    BY <2>2, RemovedRoot, RootIsAlone DEF RmDirAll
  <2> QED
    BY <1>5, <2>1, <2>2
<1>6. ASSUME NEW p \in Paths, NEW q \in Paths, Rename(p, q) PROVE Roots'
  BY <1>0, <1>6, RenameRoot DEF Rename, Roots
<1>7. ASSUME NEW p, NEW bytes, NEW append, WriteTo(p, bytes, append) PROVE Roots'
  BY <1>2, <1>7 DEF WriteTo
<1>8. ASSUME NEW h, NEW p, NEW dirsync, XOpen(h, p, dirsync) PROVE Roots'
  BY <1>2, <1>8 DEF XOpen
<1>9. ASSUME NEW h, NEW op, NEW grow, XChange(h, op, grow) PROVE Roots'
  BY <1>0, <1>9 DEF XChange, Roots
<1>10. ASSUME NEW h \in Handles, NEW file \in BOOLEAN, NEW dir \in BOOLEAN, XSync(h, file, dir)
       PROVE  Roots'
  BY <1>10, XSyncRoot
<1> QED
  BY <1>1, <1>3, <1>4, <1>5, <1>6, <1>7, <1>8, <1>9, <1>10 DEF DiskNext, CopyFile, WriteFile, XWrite, XTruncate

(* What is right of every state, whatever the kinds of the names. *)
Typed == Shape /\ AllRight(inode) /\ DiskNumbers /\ Roots

(* So it is at first, *)
LEMMA TypedInit == DiskInit => Typed
<1> SUFFICES ASSUME DiskInit PROVE Typed
  OBVIOUS
<1>1. None \notin Inodes /\ Dir \notin Inodes
  BY BoundsAssumption DEF None, Dir, Inodes
<1>2. Shape /\ AllRight(inode)
  BY <1>1 DEF DiskInit, Shape, Reaches, Entries, AllRight
<1>3. <<>> \in Paths /\ MaxInodes \in Nat /\ MaxStops \in Nat /\ MaxSteps \in Nat
  BY PathsAssumption, BoundsAssumption
<1>4. Roots
  BY <1>3 DEF DiskInit, Roots
<1>5. Closed \in [ino : 0..(1 - 1), path : Paths, boot : 0..0, dirsync : BOOLEAN]
  BY <1>3 DEF Closed
<1>6. DiskNumbers
  BY <1>3, <1>5 DEF DiskInit, DiskNumbers
<1> QED
  BY <1>2, <1>4, <1>6 DEF Typed

(* and after every step. *)
LEMMA TypedStep == Typed /\ [DiskNext]_simDiskVars => Typed'
<1> SUFFICES ASSUME Typed, [DiskNext]_simDiskVars PROVE Typed'
  OBVIOUS
<1>1. Shape /\ AllRight(inode) /\ DiskNumbers /\ Roots
  BY DEF Typed
<1>2. Shape' /\ AllRight(inode') /\ DiskNumbers' /\ Roots'
  BY <1>1, ShapeStep, RightStep, NumbersStep, RootsStep
<1> QED
  BY <1>2 DEF Typed

(* Types, with the root a directory in both namespaces. *)
THEOREM DiskTypeCorrect == DiskSpec => []DiskTypeOK
<1>1. Typed => DiskTypeOK
  BY DEF Typed, Shape, AllRight, Right, Files, DiskNumbers, Roots, DiskTypeOK
<1> QED
  BY <1>1, TypedInit, TypedStep, PTL DEF DiskSpec

-----------------------------------------------------------------------------
(* What is above a path is one. *)
LEMMA AbovePaths ==
  ASSUME NEW p \in Paths, NEW d \in Seq(STRING), Under(d, p)
  PROVE  d \in Paths
<1> DEFINE Lengths == {n \in Nat : \E e \in Paths : Len(e) = n /\ (d = e \/ Under(d, e))}
<1>1. \A e \in Paths : e \in Seq(STRING) /\ Len(e) \in Nat
  BY PathsAreSeqs
<1>2. Len(p) \in Lengths
  BY <1>1
<1>3. PICK n \in Lengths : \A m \in Lengths : n <= m
  <2>1. Lengths \in SUBSET Nat /\ Lengths # {}
    BY <1>2
  <2> HIDE DEF Lengths
  <2> QED
    BY <2>1, Least
<1>4. PICK e \in Paths : Len(e) = n /\ (d = e \/ Under(d, e))
  BY <1>3
<1>5. CASE d = e
  BY <1>5
<1>6. CASE d # e
  <2>1. e \in Seq(STRING) /\ Under(d, e) /\ e # <<>>
    BY <1>1, <1>4, <1>6, UnderOnce
  <2>2. /\ Parent(e) \in Paths /\ Len(Parent(e)) = Len(e) - 1
        /\ d = Parent(e) \/ Under(d, Parent(e))
    BY <1>4, <2>1, ParentUnder, PathsAreSeqs
  <2>3. Len(Parent(e)) \in Lengths /\ Len(Parent(e)) < n
    BY <1>1, <1>4, <2>2
  <2>4. Len(Parent(e)) \in Nat /\ n \in Nat
    BY <1>1, <2>2
  <2> QED
    BY <1>3, <2>3, <2>4
<1> QED
  BY <1>5, <1>6

(* The order of the paths, in one place. *)
LEMMA PathOrder ==
  ASSUME NEW a \in Paths, NEW b \in Paths, NEW c \in Paths
  PROVE  /\ ~Under(a, a) /\ ~(Under(a, b) /\ Under(b, a)) /\ ~Under(a, <<>>)
         /\ Under(a, b) /\ Under(b, c) => Under(a, c)
         /\ Under(a, c) /\ Under(b, c) => a = b \/ Under(a, b) \/ Under(b, a)
         /\ a # <<>> => /\ Under(Parent(a), a) /\ Parent(a) \in Paths
                        /\ Under(b, a) => b = Parent(a) \/ Under(b, Parent(a))
<1>1. a \in Seq(STRING) /\ b \in Seq(STRING) /\ c \in Seq(STRING)
  BY PathsAreSeqs
<1>2. ~Under(a, a) /\ ~(Under(a, b) /\ Under(b, a)) /\ ~Under(a, <<>>)
  BY <1>1, UnderOnce
<1>3. Under(a, b) /\ Under(b, c) => Under(a, c)
  BY <1>1, UnderTrans
<1>4. Under(a, c) /\ Under(b, c) => a = b \/ Under(a, b) \/ Under(b, a)
  BY <1>1, UnderBoth
<1>5. a # <<>> => /\ Under(Parent(a), a) /\ Parent(a) \in Paths
                  /\ Under(b, a) => b = Parent(a) \/ Under(b, Parent(a))
  BY <1>1, ParentUnder, PathsAreSeqs
<1> QED
  BY <1>2, <1>3, <1>4, <1>5

(* Two in one directory are not under each other. *)
LEMMA Siblings ==
  ASSUME NEW d \in Paths, NEW a \in Paths, NEW b \in Paths, ChildOf(d, a), ChildOf(d, b)
  PROVE  ~Under(a, b)
<1>1. SUFFICES ASSUME Under(a, b) PROVE FALSE
  OBVIOUS
<1>2. b # <<>> /\ Parent(b) = d /\ Under(d, a)
  BY PathOrder DEF ChildOf
<1>3. a = d \/ Under(a, d)
  BY <1>1, <1>2, PathOrder
<1> QED
  BY <1>2, <1>3, PathOrder

-----------------------------------------------------------------------------
(* The names a file has, and those a directory has, above or among those   *)
(* the programs make.                                                      *)
FileNames == {Last(f) : f \in FilePaths}
DirNames == {Last(d) : d \in {e \in Paths : e # <<>> /\ \E p \in DirPaths : e = p \/ Under(e, p)}}

(* No name is of both kinds. *)
OneKind == FileNames \cap DirNames = {}

(* Files have the names of files and directories those of directories. *)
Kinds(ns) ==
  \A p \in Paths : /\ ns[p] \in Inodes => p # <<>> /\ Last(p) \in FileNames
                   /\ ns[p] = Dir => p = <<>> \/ Last(p) \in DirNames

(* What has a name is in a directory, and it in another, up to the root. *)
Tree(ns) == \A p \in Paths : ns[p] # None => \A d \in Paths : Under(d, p) => ns[d] = Dir

(* No entry is of two kinds. *)
LEMMA Apart == None \notin Inodes /\ Dir \notin Inodes /\ None # Dir /\ Entries = {None, Dir} \cup Inodes
BY BoundsAssumption DEF Inodes, None, Dir, Entries

(* Where one namespace has a directory the other has no file. *)
LEMMA KindsApart ==
  ASSUME OneKind, NEW ns \in [Paths -> Entries], NEW ds \in [Paths -> Entries], Kinds(ns), Kinds(ds),
         NEW p \in Paths, ns[p] # None, ds[p] = Dir
  PROVE  ns[p] = Dir
<1>1. ns[p] = Dir \/ ns[p] \in Inodes
  BY Apart
<1> QED
  BY <1>1 DEF Kinds, OneKind

(* A file gets a name, in a directory. *)
LEMMA NamedTree ==
  ASSUME Shape, Roots, Tree(names), Kinds(names), NEW p \in FilePaths, ~IsDir(p), Exists(p) \/ IsDir(Parent(p)),
         NEW i \in Inodes, names[p] \in Inodes => i = names[p], names' = [names EXCEPT ![p] = i]
  PROVE  Tree(names') /\ Kinds(names')
<1>1. p \in Paths /\ p # <<>> /\ Last(p) \in FileNames /\ names \in [Paths -> Entries]
  BY PathsAssumption DEF FileNames, Shape
<1>2. \A d \in Paths : Under(d, p) => names[d] = Dir
  <2>1. CASE Exists(p)
    BY <1>1, <2>1 DEF Tree, Exists
  <2>2. CASE IsDir(Parent(p))
    <3>1. Parent(p) \in Paths /\ names[Parent(p)] = Dir
      BY <1>1, <2>2, PathOrder DEF IsDir
    <3>2. ASSUME NEW d \in Paths, Under(d, p) PROVE names[d] = Dir
      <4>1. d = Parent(p) \/ Under(d, Parent(p))
        BY <1>1, <3>2, PathOrder
      <4> QED
        BY <3>1, <4>1, Apart DEF Tree
    <3> QED
      BY <3>2
  <2> QED
    BY <2>1, <2>2
<1>3. names[p] # Dir
  BY DEF IsDir
<1>4. Tree(names')
  <2> SUFFICES ASSUME NEW x \in Paths, names'[x] # None, NEW d \in Paths, Under(d, x) PROVE names'[d] = Dir
    BY DEF Tree
  <2>1. names[d] = Dir
    <3>1. CASE x = p
      BY <1>2, <3>1
    <3>2. CASE x # p
      BY <1>1, <3>2 DEF Tree
    <3> QED
      BY <3>1, <3>2
  <2> QED
    BY <1>1, <1>3, <2>1
<1>5. Kinds(names')
  BY <1>1, Apart DEF Kinds
<1> QED
  BY <1>4, <1>5

(* A directory is made, with those above it. *)
LEMMA MkDirAllTree ==
  ASSUME Shape, Roots, Tree(names), Kinds(names), NEW p \in Paths, MkDirAll(p)
  PROVE  Tree(names') /\ Kinds(names')
<1> DEFINE above == {q \in Paths : q = p \/ Under(q, p)}
<1>1. p \in DirPaths /\ names' = [q \in Paths |-> IF q \in above THEN Dir ELSE names[q]]
  BY DEF MkDirAll
<1>2. \A x \in above, d \in Paths : Under(d, x) => d \in above
  BY PathOrder
<1>3. \A x \in above : x # <<>> => Last(x) \in DirNames
  BY <1>1 DEF DirNames
<1>4. above \subseteq Paths
  OBVIOUS
<1> HIDE DEF above
<1>5. Tree(names')
  BY <1>1, <1>2 DEF Tree
<1>6. Kinds(names')
  BY <1>1, <1>3, Apart DEF Kinds
<1> QED
  BY <1>5, <1>6

(* A file, or a directory with all that is under it, loses its name. *)
LEMMA RemovedTree ==
  ASSUME Tree(names), Kinds(names), NEW ps,
         names' = [q \in Paths |-> IF q \in ps THEN None ELSE names[q]],
         \A x \in Paths, d \in Paths : d \in ps /\ Under(d, x) /\ names[d] = Dir => x \in ps
  PROVE  Tree(names') /\ Kinds(names')
<1>1. Tree(names')
  BY DEF Tree
<1>2. Kinds(names')
  BY Apart DEF Kinds
<1> QED
  BY <1>1, <1>2

-----------------------------------------------------------------------------
(* A sync of a name. *)
LEMMA PersistEntryTree ==
  ASSUME OneKind, NEW ns \in [Paths -> Entries], NEW ds \in [Paths -> Entries],
         ns[<<>>] = Dir, Tree(ns), Kinds(ns), Tree(ds), Kinds(ds), NEW p \in Paths, ns[p] # None
  PROVE  Tree(PersistEntry(ns, ds, p)) /\ Kinds(PersistEntry(ns, ds, p))
<1> DEFINE R == PersistEntry(ns, ds, p)
<1>1. /\ R \in [Paths -> Entries] /\ R[p] = ns[p]
      /\ \A q \in Paths : Under(q, p) => R[q] = Dir /\ ns[q] = Dir
      /\ \A q \in Paths : q # p /\ ~Under(q, p) => R[q] = ds[q] \/ (q = <<>> /\ R[q] = Dir)
  <2>1. \A q \in Paths : R[q] = IF q = p THEN ns[p] ELSE IF q = <<>> \/ Under(q, p) THEN Dir ELSE ds[q]
    BY DEF PersistEntry
  <2>2. \A q \in Paths : Under(q, p) => q # p /\ ns[q] = Dir
    BY PathOrder DEF Tree
  <2>3. R \in [Paths -> Entries]
    BY DEF PersistEntry, Entries
  <2> HIDE DEF R
  <2> QED
    BY <2>1, <2>2, <2>3
<1> HIDE DEF R
<1>2. Kinds(R)
  BY <1>1, Apart DEF Kinds
<1>3. Tree(R)
  <2> SUFFICES ASSUME NEW x \in Paths, R[x] # None, NEW d \in Paths, Under(d, x) PROVE R[d] = Dir
    BY DEF Tree
  <2>1. CASE x = p
    BY <1>1, <2>1
  <2>2. CASE Under(x, p)
    BY <1>1, <2>2, PathOrder
  <2>3. CASE x # p /\ ~Under(x, p)
    <3>1. x # <<>>
      BY PathOrder
    <3>2. ds[d] = Dir
      BY <1>1, <2>3, <3>1 DEF Tree
    <3>3. CASE d = p
      BY <1>1, <3>2, <3>3, KindsApart
    <3>4. CASE d # p
      BY <1>1, <3>2, <3>4
    <3> QED
      BY <3>3, <3>4
  <2> QED
    BY <2>1, <2>2, <2>3
<1> QED
  BY <1>2, <1>3 DEF R

(* What is gone from a directory, with what was under it. *)
Dropped(ns, ds, d, q) ==
  \E p \in Paths : ChildOf(d, p) /\ ds[p] # None /\ ns[p] = None /\ q \in OnOrUnder(p)

(* What a directory's sync leaves: what was removed is gone with all under *)
(* it, what is in the directory is durable, and so are those above it.     *)
SyncLeaves(ns, ds, d, R) ==
  /\ R \in [Paths -> Entries]
  /\ \A q \in Paths :
       \/ ns[d] = Dir /\ (q = d \/ Under(q, d)) /\ R[q] = Dir
       \/ q = <<>> /\ R[q] = Dir
       \/ R[q] = None /\ Dropped(ns, ds, d, q)
       \/ ChildOf(d, q) /\ ns[q] # None /\ R[q] = ns[q] /\ ~Dropped(ns, ds, d, q)
       \/ ~(ChildOf(d, q) /\ ns[q] # None) /\ R[q] = ds[q] /\ ~Dropped(ns, ds, d, q)
  /\ ns[d] = Dir => R[d] = Dir /\ \A q \in Paths : Under(q, d) => R[q] = Dir

(* That is what it leaves. *)
LEMMA SyncedDirLeaves ==
  ASSUME NEW ns \in [Paths -> Entries], NEW ds \in [Paths -> Entries], ns[<<>>] = Dir, NEW d \in Paths
  PROVE  SyncLeaves(ns, ds, d, SyncedDir(ns, ds, d))
<1> DEFINE gone == {p \in Paths : ChildOf(d, p) /\ ds[p] # None /\ ns[p] = None}
           here == [q \in Paths |-> IF \E p \in gone : q \in OnOrUnder(p) THEN None
                               ELSE IF ChildOf(d, q) /\ ns[q] # None THEN ns[q] ELSE ds[q]]
           R == SyncedDir(ns, ds, d)
<1>1. R = IF ns[d] = Dir THEN PersistEntry(ns, here, d) ELSE here
  BY DEF SyncedDir
<1>2. \A q \in Paths :
       \/ here[q] = None /\ Dropped(ns, ds, d, q)
       \/ ChildOf(d, q) /\ ns[q] # None /\ here[q] = ns[q] /\ ~Dropped(ns, ds, d, q)
       \/ ~(ChildOf(d, q) /\ ns[q] # None) /\ here[q] = ds[q] /\ ~Dropped(ns, ds, d, q)
  BY DEF Dropped
<1>3. here \in [Paths -> Entries]
  BY DEF Entries
<1> HIDE DEF here, gone, R
<1>4. CASE ns[d] = Dir
  <2>1. \A q \in Paths : R[q] = IF q = d \/ q = <<>> \/ Under(q, d) THEN Dir ELSE here[q]
    BY <1>1, <1>4, Apart DEF PersistEntry
  <2>2. R \in [Paths -> Entries]
    BY <1>1, <1>3, <1>4 DEF PersistEntry, Entries
  <2> QED
    BY <1>2, <1>4, <2>1, <2>2 DEF SyncLeaves, R
<1>5. CASE ns[d] # Dir
  <2>1. R = here
    BY <1>1, <1>5
  <2> QED
    BY <1>2, <1>3, <1>5, <2>1 DEF SyncLeaves, R
<1> QED
  BY <1>4, <1>5

(* After a directory's sync the durable namespace is still a tree. *)
LEMMA SyncedDirTree ==
  ASSUME OneKind, NEW ns \in [Paths -> Entries], NEW ds \in [Paths -> Entries],
         ns[<<>>] = Dir, Tree(ns), Kinds(ns), Tree(ds), Kinds(ds), NEW d \in Paths
  PROVE  Tree(SyncedDir(ns, ds, d)) /\ Kinds(SyncedDir(ns, ds, d))
<1> DEFINE R == SyncedDir(ns, ds, d)
<1>1. SyncLeaves(ns, ds, d, R)
  BY SyncedDirLeaves
<1> HIDE DEF R
<1>2. \A q \in Paths :
        \/ ns[d] = Dir /\ (q = d \/ Under(q, d)) /\ R[q] = Dir
        \/ q = <<>> /\ R[q] = Dir
        \/ R[q] = None /\ Dropped(ns, ds, d, q)
        \/ ChildOf(d, q) /\ ns[q] # None /\ R[q] = ns[q] /\ ~Dropped(ns, ds, d, q)
        \/ ~(ChildOf(d, q) /\ ns[q] # None) /\ R[q] = ds[q] /\ ~Dropped(ns, ds, d, q)
  BY <1>1 DEF SyncLeaves
<1>3. ns[d] = Dir => R[d] = Dir /\ \A q \in Paths : Under(q, d) => R[q] = Dir
  BY <1>1 DEF SyncLeaves
<1>4. ns[d] = Dir => \A q \in Paths : Under(q, d) => ns[q] = Dir
  BY Apart DEF Tree
<1>5. Kinds(R)
  BY <1>2, <1>4, Apart DEF Kinds
<1>6. \A x, e \in Paths : Under(e, x) /\ Dropped(ns, ds, d, e) => Dropped(ns, ds, d, x)
  BY PathOrder DEF Dropped, OnOrUnder
<1>7. Tree(R)
  <2> SUFFICES ASSUME NEW x \in Paths, R[x] # None, NEW e \in Paths, Under(e, x) PROVE R[e] = Dir
    BY DEF Tree
  <2>0. x # <<>>
    BY PathOrder
  <2>1. CASE ns[d] = Dir /\ (x = d \/ Under(x, d))
    BY <1>3, <2>1, PathOrder
  <2>2. CASE ChildOf(d, x) /\ ns[x] # None
    <3>1. ns[d] = Dir
      BY <2>2 DEF ChildOf, Tree
    <3>2. e = d \/ Under(e, d)
      BY <2>0, <2>2, PathOrder DEF ChildOf
    <3> QED
      BY <1>3, <3>1, <3>2
  <2>3. CASE R[x] = ds[x] /\ ~Dropped(ns, ds, d, x)
    <3>1. ds[e] = Dir
      BY <2>3 DEF Tree
    <3>2. ~Dropped(ns, ds, d, e)
      BY <1>6, <2>3
    <3>3. ns[e] # None => ns[e] = Dir
      BY <3>1, KindsApart
    <3> QED
      BY <1>2, <3>1, <3>2, <3>3
  <2> QED
    BY <1>2, <2>0, <2>1, <2>2, <2>3
<1> QED
  BY <1>5, <1>7 DEF R

-----------------------------------------------------------------------------
(* A rename: what is at p and under it is at q and under it. *)
LEMMA RenameTree ==
  ASSUME Shape, Roots, Tree(names), Kinds(names), NEW p \in Paths, NEW q \in Paths, Rename(p, q)
  PROVE  Tree(names') /\ Kinds(names')
<1> DEFINE moved == {r \in OnOrUnder(p) : Exists(r)}
           New(r) == q \o SubSeq(r, Len(p) + 1, Len(r))
           arrives == {New(r) : r \in moved}
<1>1. /\ names' = [r \in Paths |-> IF r \in arrives THEN names[CHOOSE old \in moved : New(old) = r]
                                   ELSE IF r \in OnOrUnder(p) THEN None ELSE names[r]]
      /\ Exists(p) /\ p # q /\ IsDir(Parent(q))
      /\ IsFile(p) => ~IsDir(q) /\ q \in FilePaths
      /\ IsDir(p) => /\ q \in DirPaths /\ ~Under(p, q)
                     /\ ~\E r \in Paths : Under(q, r) /\ Exists(r)
      /\ arrives \subseteq Paths
  BY DEF Rename
<1>2. IsFile(p) \/ IsDir(p)
  BY <1>1 DEF Shape, Entries, IsFile, IsDir, Exists
<1>3. p \in Seq(STRING) /\ q \in Seq(STRING) /\ \A r \in Paths : r \in Seq(STRING)
  BY PathsAreSeqs
<1>4. \A r \in moved : r \in Paths /\ (r = p \/ Under(p, r)) /\ names[r] # None
  BY DEF OnOrUnder, Exists
<1>5. \A r, s \in moved : New(r) = New(s) => r = s
  BY <1>3, <1>4, MovedOnce DEF Moved
<1>6. ASSUME NEW r \in moved
      PROVE  New(r) \in Paths /\ New(r) \in arrives /\ (CHOOSE old \in moved : New(old) = New(r)) = r
  <2>1. New(r) \in Paths /\ New(r) \in arrives
    BY <1>1
  <2> HIDE DEF moved, New
  <2> QED
    BY <1>5, <2>1
<1> HIDE DEF moved
<1>7. \A r \in moved : New(r) \in Paths /\ names'[New(r)] = names[r]
  <2> HIDE DEF New, arrives
  <2> QED
    BY <1>1, <1>6
<1>8. \A r \in moved : New(r) = Moved(p, q, r)
  BY DEF Moved
<1>9. \A x \in arrives : \E r \in moved : x = New(r)
  OBVIOUS
<1> HIDE DEF New, arrives
<1>10. \A x \in Paths : x \notin arrives /\ x \notin OnOrUnder(p) => names'[x] = names[x]
  BY <1>1
<1>11. \A x \in Paths : names'[x] # None => x \in arrives \/ (x \notin OnOrUnder(p) /\ names'[x] = names[x])
  BY <1>1
(* What is under a file has no name. *)
<1>12. IsFile(p) => \A r \in Paths : Under(p, r) => names[r] = None
  BY Apart DEF Tree, IsFile
<1>13. \A r \in moved : New(r) = q \/ Under(q, New(r))
  <2> SUFFICES ASSUME NEW r \in moved PROVE New(r) = q \/ Under(q, New(r))
    OBVIOUS
  <2>1. CASE r = p
    BY <1>3, <1>8, <2>1, MovedSelf
  <2>2. CASE Under(p, r)
    BY <1>3, <1>4, <1>8, <2>2, MovedLast
  <2> QED
    BY <1>4, <2>1, <2>2
(* A directory above q, or above what stays, has its name still. *)
<1>14. ASSUME NEW d \in Paths, Under(d, q) PROVE names[d] = Dir /\ names'[d] = Dir
  <2>1. q # <<>>
    BY <1>14, PathOrder
  <2>2. Parent(q) \in Paths /\ (d = Parent(q) \/ Under(d, Parent(q))) /\ names[Parent(q)] = Dir
    BY <1>1, <1>14, <2>1, PathOrder DEF IsDir
  <2>3. names[d] = Dir
    BY <2>2, Apart DEF Tree
  <2>4. d \notin arrives
    <3>1. d \in arrives => d = q \/ Under(q, d)
      BY <1>9, <1>13
    <3>2. ~Under(q, q) /\ ~(Under(d, q) /\ Under(q, d))
      BY PathOrder
    <3> QED
      BY <1>14, <3>1, <3>2
  <2>5. d \notin OnOrUnder(p)
    <3> SUFFICES ASSUME d = p \/ Under(p, d) PROVE FALSE
      BY DEF OnOrUnder
    <3>1. IsDir(p)
      BY <1>2, <1>12, <2>3, Apart DEF IsFile
    <3>2. Under(p, q)
      BY <1>14, PathOrder
    <3> QED
      BY <1>1, <3>1, <3>2
  <2> QED
    BY <1>10, <2>3, <2>4, <2>5
<1>15. ASSUME NEW x \in Paths, x \notin arrives, names'[x] # None, NEW d \in Paths, Under(d, x)
       PROVE  names'[d] = Dir
  <2>1. x \notin OnOrUnder(p) /\ names[x] # None
    BY <1>11, <1>15
  <2>2. names[d] = Dir
    BY <1>15, <2>1 DEF Tree
  <2>3. d \notin OnOrUnder(p)
    BY <1>15, <2>1, PathOrder DEF OnOrUnder
  <2>4. d \notin arrives
    <3> SUFFICES ASSUME d \in arrives PROVE FALSE
      OBVIOUS
    <3>1. PICK r \in moved : d = New(r)
      BY <1>9
    <3>2. Under(q, x)
      BY <1>13, <1>15, <3>1, PathOrder
    <3>3. IsFile(p)
      BY <1>1, <1>2, <2>1, <3>2 DEF Exists
    <3>4. r = p
      BY <1>4, <1>12, <3>3
    <3>5. d = q
      BY <1>3, <1>8, <3>1, <3>4, MovedSelf
    <3> QED
      BY <1>1, <2>2, <3>3, <3>5 DEF IsDir
  <2> QED
    BY <1>10, <2>2, <2>3, <2>4
<1>16. ASSUME NEW x \in arrives, NEW d \in Paths, Under(d, x) PROVE names'[d] = Dir
  <2>1. PICK r \in moved : x = New(r)
    BY <1>9
  <2>2. CASE Under(d, q)
    BY <1>14, <2>2
  <2>3. ASSUME NEW s \in Seq(STRING), s = p \/ Under(p, s), Under(s, r), d = Moved(p, q, s)
        PROVE  names'[d] = Dir
    <3>1. s \in Paths /\ names[s] = Dir
      BY <1>4, <2>3, AbovePaths DEF Tree
    <3>2. s \in moved
      BY <2>3, <3>1, Apart DEF moved, OnOrUnder, Exists
    <3> QED
      BY <1>7, <1>8, <2>3, <3>1, <3>2
  <2>4. \/ Under(d, q)
        \/ \E s \in Seq(STRING) : (s = p \/ Under(p, s)) /\ Under(s, r) /\ d = Moved(p, q, s)
    <3>1. r \in Seq(STRING) /\ (r = p \/ Under(p, r)) /\ d \in Seq(STRING) /\ Under(d, Moved(p, q, r))
      BY <1>3, <1>4, <1>8, <1>16, <2>1
    <3> QED
      BY <1>3, <3>1, MovedAbove
  <2> QED
    BY <2>2, <2>3, <2>4
<1>17. Tree(names')
  BY <1>15, <1>16 DEF Tree
<1>18. ASSUME NEW r \in moved
       PROVE  /\ names[r] \in Inodes => New(r) # <<>> /\ Last(New(r)) \in FileNames
              /\ names[r] = Dir => New(r) = <<>> \/ Last(New(r)) \in DirNames
  <2>1. CASE r = p
    <3>1. New(r) = q
      BY <1>3, <1>8, <2>1, MovedSelf
    <3>2. names[r] \in Inodes => q \in FilePaths
      BY <1>1, <2>1 DEF IsFile
    <3>3. names[r] = Dir => q \in DirPaths
      BY <1>1, <2>1 DEF IsDir
    <3>4. q \in FilePaths => q # <<>> /\ Last(q) \in FileNames
      BY PathsAssumption DEF FileNames
    <3>5. q \in DirPaths => q = <<>> \/ Last(q) \in DirNames
      BY DEF DirNames
    <3> QED
      BY <3>1, <3>2, <3>3, <3>4, <3>5
  <2>2. CASE Under(p, r)
    <3>1. New(r) # <<>> /\ Last(New(r)) = Last(r) /\ r # <<>>
      BY <1>3, <1>4, <1>8, <2>2, MovedLast, PathOrder
    <3> QED
      BY <1>4, <3>1 DEF Kinds
  <2> QED
    BY <1>4, <2>1, <2>2
<1>19. Kinds(names')
  <2> SUFFICES ASSUME NEW x \in Paths
               PROVE  /\ names'[x] \in Inodes => x # <<>> /\ Last(x) \in FileNames
                      /\ names'[x] = Dir => x = <<>> \/ Last(x) \in DirNames
    BY DEF Kinds
  <2>1. CASE x \in arrives
    <3>1. PICK r \in moved : x = New(r)
      BY <1>9, <2>1
    <3> QED
      BY <1>7, <1>18, <3>1
  <2>2. CASE x \notin arrives
    BY <1>11, <2>2, Apart DEF Kinds
  <2> QED
    BY <2>1, <2>2
<1> QED
  BY <1>17, <1>19

-----------------------------------------------------------------------------
(* What was said of a path stands.                                           *)

(* What was said of a path is so of the files and namespaces given. *)
KeptIn(files, ns, ds, said) ==
  \A q \in DOMAIN said :
    \/ said[q] = Gone /\ ds[q] = None /\ ns[q] = None
    \/ ds[q] \in DOMAIN files /\ ns[q] = ds[q] /\ said[q] = Kept(files[ds[q]].durable)

(* What is kept is not gone. *)
LEMMA KeptIsNotGone == \A bytes : Kept(bytes) # Gone
BY DEF Kept, Gone

(* A promise that stands: what it names is where it was. *)
LEMMA KeptStays ==
  ASSUME NEW files, NEW ns, NEW ds, NEW said, KeptIn(files, ns, ds, said),
         NEW files2, NEW ns2, NEW said2, DOMAIN said2 \subseteq DOMAIN said,
         \A q \in DOMAIN said2 : said2[q] = said[q] /\ ns2[q] = ns[q],
         \A q \in DOMAIN said2 : ds[q] \in DOMAIN files /\ ns[q] = ds[q] =>
                                   ds[q] \in DOMAIN files2 /\ files2[ds[q]].durable = files[ds[q]].durable
  PROVE  KeptIn(files2, ns2, ds, said2)
BY DEF KeptIn

(* No promise is about a file that is forgotten. *)
LEMMA ForgetKept ==
  ASSUME NEW files, NEW ns \in [Paths -> Entries], NEW ds, NEW said, DOMAIN said \subseteq Paths,
         KeptIn(files, ns, ds, said), NEW other
  PROVE  KeptIn(ForgetUnreachable(files, ns, other), ns, ds, said)
<1> DEFINE after == ForgetUnreachable(files, ns, other)
<1>1. \A i \in DOMAIN files : i \in Range(ns) => i \in DOMAIN after /\ after[i] = files[i]
  BY DEF ForgetUnreachable, Restrict
<1>2. \A q \in DOMAIN said : ns[q] \in Range(ns)
  BY DEF Range
<1> HIDE DEF after
<1> QED
  BY <1>1, <1>2 DEF KeptIn, after

(* A sync of a directory: what was said stands, and what is said now. *)
LEMMA SyncedDirKept ==
  ASSUME OneKind, NEW ns \in [Paths -> Entries], NEW ds \in [Paths -> Entries],
         ns[<<>>] = Dir, Tree(ns), Kinds(ns), NEW d \in Paths, NEW files, Reaches(ns, files),
         DOMAIN files \subseteq Inodes,
         NEW said, DOMAIN said \subseteq Paths, KeptIn(files, ns, ds, said)
  PROVE  KeptIn(files, ns, SyncedDir(ns, ds, d), PromiseDir(ns, files, d, said))
<1> DEFINE R == SyncedDir(ns, ds, d)
           its == {q \in Paths : ChildOf(d, q) /\ ns[q] # Dir}
           later == PromiseDir(ns, files, d, said)
<1>1. SyncLeaves(ns, ds, d, R)
  BY SyncedDirLeaves
<1>2. /\ DOMAIN later = its \cup DOMAIN said
      /\ \A q \in its : later[q] = IF ns[q] = None THEN Gone ELSE Kept(files[ns[q]].durable)
      /\ \A q \in DOMAIN said : q \notin its => later[q] = said[q]
  BY DEF PromiseDir
<1> HIDE DEF R, later
<1>3. \A q \in Paths :
        \/ ns[d] = Dir /\ (q = d \/ Under(q, d)) /\ R[q] = Dir
        \/ q = <<>> /\ R[q] = Dir
        \/ R[q] = None /\ Dropped(ns, ds, d, q)
        \/ ChildOf(d, q) /\ ns[q] # None /\ R[q] = ns[q] /\ ~Dropped(ns, ds, d, q)
        \/ ~(ChildOf(d, q) /\ ns[q] # None) /\ R[q] = ds[q] /\ ~Dropped(ns, ds, d, q)
  BY <1>1 DEF SyncLeaves
<1>4. \A q \in Paths : ns[d] = Dir /\ (q = d \/ Under(q, d)) => ns[q] = Dir
  BY Apart DEF Tree
<1>5. \A q \in Paths : ns[q] \in Inodes => ~Dropped(ns, ds, d, q)
  BY Apart DEF Dropped, OnOrUnder, Tree
<1>6. ASSUME NEW q \in its
      PROVE  \/ later[q] = Gone /\ R[q] = None /\ ns[q] = None
             \/ R[q] \in DOMAIN files /\ ns[q] = R[q] /\ later[q] = Kept(files[R[q]].durable)
  <2>1. q \in Paths /\ ChildOf(d, q) /\ ns[q] # Dir /\ q # <<>> /\ q # d /\ ~Under(q, d)
    BY PathOrder DEF ChildOf
  <2>2. CASE ns[q] = None
    <3>1. later[q] = Gone
      BY <1>2, <2>2
    <3>2. ds[q] # None => Dropped(ns, ds, d, q)
      BY <2>1, <2>2 DEF Dropped, OnOrUnder
    <3>3. R[q] = None
      BY <1>3, <2>1, <2>2, <3>2
    <3> QED
      BY <2>2, <3>1, <3>3
  <2>3. CASE ns[q] # None
    <3>1. ns[q] \in Inodes /\ ns[q] \in DOMAIN files
      BY <2>1, <2>3, Apart DEF Reaches
    <3>2. R[q] = ns[q]
      BY <1>3, <1>5, <2>1, <2>3, <3>1
    <3> QED
      BY <1>2, <2>3, <3>1, <3>2
  <2> QED
    BY <2>2, <2>3
<1>7. ASSUME NEW q \in DOMAIN said, q \notin its
      PROVE  \/ later[q] = Gone /\ R[q] = None /\ ns[q] = None
             \/ R[q] \in DOMAIN files /\ ns[q] = R[q] /\ later[q] = Kept(files[R[q]].durable)
  <2>1. q \in Paths /\ later[q] = said[q] /\ ~(ChildOf(d, q) /\ ns[q] # Dir)
    BY <1>2, <1>7
  <2>2. CASE said[q] = Gone /\ ds[q] = None /\ ns[q] = None
    <3>1. R[q] = None
      BY <1>3, <1>4, <2>1, <2>2, Apart
    <3> QED
      BY <2>1, <2>2, <3>1
  <2>3. CASE ds[q] \in DOMAIN files /\ ns[q] = ds[q] /\ said[q] = Kept(files[ds[q]].durable)
    <3>1. ns[q] \in Inodes /\ ns[q] # Dir /\ ns[q] # None
      BY <2>3, Apart
    <3>2. R[q] = ds[q]
      BY <1>3, <1>4, <1>5, <2>1, <3>1
    <3> QED
      BY <2>1, <2>3, <3>2
  <2> QED
    BY <2>2, <2>3 DEF KeptIn
<1> HIDE DEF its
<1> QED
  BY <1>2, <1>6, <1>7 DEF KeptIn, R, later

(* A sync of a file: its bytes are durable, where it is named. *)
LEMMA SyncInoKept ==
  ASSUME OneKind, Typed, Tree(names), Kinds(names), Tree(durable), Kinds(durable),
         KeptIn(inode, names, durable, promised), NEW i \in Inodes, NEW p \in Paths
  PROVE  /\ KeptIn(FilesSynced(i), names, NamesSynced(i, p), PromiseSynced(i, p))
         /\ Tree(NamesSynced(i, p)) /\ Kinds(NamesSynced(i, p))
<1> DEFINE R == NamesSynced(i, p)
<1>0. /\ names \in [Paths -> Entries] /\ durable \in [Paths -> Entries] /\ names[<<>>] = Dir
      /\ DOMAIN promised \subseteq Paths /\ AllRight(inode)
  BY DEF Typed, Shape, Roots, DiskNumbers
<1>1. Tree(R) /\ Kinds(R)
  <2>1. CASE names[p] = i
    BY <1>0, <2>1, PersistEntryTree, Apart DEF NamesSynced
  <2>2. CASE names[p] # i
    BY <2>2 DEF NamesSynced
  <2> QED
    BY <2>1, <2>2
<1>2. \A q \in Paths : \/ R[q] = durable[q] /\ (names[p] = i => q # p)
                       \/ names[p] = i /\ q = p /\ R[q] = i
                       \/ R[q] = Dir /\ names[q] = Dir
  <2>1. CASE names[p] = i
    <3>1. R = PersistEntry(names, durable, p) /\ names[p] # None
      BY <2>1, Apart DEF NamesSynced
    <3>2. \A q \in Paths : R[q] = IF q = p THEN names[p] ELSE IF q = <<>> \/ Under(q, p) THEN Dir ELSE durable[q]
      BY <3>1 DEF PersistEntry
    <3>3. \A q \in Paths : q = <<>> \/ Under(q, p) => names[q] = Dir
      BY <1>0, <3>1 DEF Tree
    <3> HIDE DEF R
    <3> QED
      BY <2>1, <3>2, <3>3
  <2>2. CASE names[p] # i
    BY <2>2 DEF NamesSynced
  <2> QED
    BY <2>1, <2>2
<1> HIDE DEF R
<1>3. CASE i \in DOMAIN inode
  <2> DEFINE files == FilesSynced(i)
             its == {q \in DOMAIN promised \cup {p} : names[q] = i}
             later == PromiseSynced(i, p)
  <2>1. /\ DOMAIN files = DOMAIN inode /\ files[i].durable = inode[i].data
        /\ \A j \in DOMAIN inode : j # i => files[j] = inode[j]
    BY <1>0, <1>3, SyncedRight DEF FilesSynced, AllRight
  <2>2. /\ DOMAIN later = its \cup DOMAIN promised
        /\ \A q \in its : later[q] = Kept(inode[i].data)
        /\ \A q \in DOMAIN promised : q \notin its => later[q] = promised[q]
    BY <1>3 DEF PromiseSynced, PromiseFile
  <2> HIDE DEF files, later
  <2>3. ASSUME NEW q \in its
        PROVE  R[q] \in DOMAIN files /\ names[q] = R[q] /\ later[q] = Kept(files[R[q]].durable)
    <3>1. q \in Paths /\ names[q] = i /\ names[q] # Dir /\ names[q] # None
      BY <1>0, Apart
    <3>2. R[q] = i
      <4>1. CASE q = p
        BY <1>2, <3>1, <4>1
      <4>2. CASE q # p
        <5>1. durable[q] = i
          BY <3>1, <4>2 DEF KeptIn
        <5> QED
          BY <1>2, <3>1, <4>2, <5>1
      <4> QED
        BY <4>1, <4>2
    <3> QED
      BY <1>3, <2>1, <2>2, <3>1, <3>2
  <2>4. ASSUME NEW q \in DOMAIN promised, q \notin its
        PROVE  \/ later[q] = Gone /\ R[q] = None /\ names[q] = None
               \/ R[q] \in DOMAIN files /\ names[q] = R[q] /\ later[q] = Kept(files[R[q]].durable)
    <3>1. q \in Paths /\ names[q] # i /\ later[q] = promised[q]
      BY <1>0, <2>2, <2>4
    <3>2. R[q] = durable[q] \/ names[q] = Dir
      BY <1>2, <3>1
    <3>3. CASE promised[q] = Gone /\ durable[q] = None /\ names[q] = None
      BY <3>1, <3>2, <3>3, Apart
    <3>4. CASE durable[q] \in DOMAIN inode /\ names[q] = durable[q] /\ promised[q] = Kept(inode[durable[q]].durable)
      <4>1. durable[q] \in Inodes
        <5>1. durable[q] \in Entries /\ durable[q] \in 1..(next - 1) /\ next \in Nat
          BY <1>0, <3>1, <3>4, BoundsAssumption DEF Typed, DiskNumbers
        <5> QED
          BY <5>1 DEF Entries, None, Dir
      <4>2. R[q] = durable[q]
        BY <3>2, <3>4, <4>1, Apart
      <4> QED
        BY <2>1, <3>1, <3>4, <4>2
    <3> QED
      BY <3>3, <3>4 DEF KeptIn
  <2> HIDE DEF its
  <2> QED
    BY <1>1, <2>2, <2>3, <2>4 DEF KeptIn, R, files, later
<1>4. CASE i \notin DOMAIN inode
  <2>1. names[p] # i
    BY <1>4 DEF Typed, Shape, Reaches
  <2> QED
    BY <1>1, <1>4, <2>1 DEF R, FilesSynced, NamesSynced, PromiseSynced
<1> QED
  BY <1>3, <1>4

-----------------------------------------------------------------------------
(* Both namespaces are trees, with files and directories apart, and what a *)
(* sync said is so in both.                                                *)
Stands ==
  /\ Tree(names) /\ Kinds(names) /\ Tree(durable) /\ Kinds(durable)
  /\ KeptIn(inode, names, durable, promised)

(* What the proofs below use of the types. *)
LEMMA TypedFacts ==
  ASSUME Typed
  PROVE  /\ names \in [Paths -> Entries] /\ durable \in [Paths -> Entries]
         /\ names[<<>>] = Dir /\ durable[<<>>] = Dir
         /\ DOMAIN promised \subseteq Paths /\ DOMAIN inode \subseteq Inodes
         /\ Reaches(names, inode) /\ Reaches(durable, inode)
<1>1. DOMAIN inode \subseteq Inodes
  BY BoundsAssumption DEF Typed, DiskNumbers, Inodes
<1> QED
  BY <1>1 DEF Typed, Shape, Roots, DiskNumbers

(* Promises that stay are what they were, *)
LEMMA WithoutKeeps ==
  ASSUME NEW ps
  PROVE  /\ DOMAIN Without(ps) = DOMAIN promised \ ps
         /\ \A q \in DOMAIN Without(ps) : q \in DOMAIN promised /\ Without(ps)[q] = promised[q]
BY DEF Without, Restrict

(* those of what is made being gone. *)
LEMMA MadeKeeps ==
  ASSUME NEW ps
  PROVE  \A q \in DOMAIN Made(ps) : q \in DOMAIN promised /\ Made(ps)[q] = promised[q] /\ (q \in ps => Exists(q))
BY DEF Made, Without, Restrict

(* A directory's sync, of the namespaces and files it is given. *)
LEMMA SyncDirStands ==
  ASSUME OneKind, NEW ns \in [Paths -> Entries], NEW ds \in [Paths -> Entries],
         ns[<<>>] = Dir, Tree(ns), Kinds(ns), Tree(ds), Kinds(ds), NEW d \in Paths, NEW files, Reaches(ns, files),
         DOMAIN files \subseteq Inodes,
         NEW said, DOMAIN said \subseteq Paths, KeptIn(files, ns, ds, said),
         names' = ns, SyncDir(ns, files, ds, said, d)
  PROVE  Stands'
<1> DEFINE R == SyncedDir(ns, ds, d)
           later == PromiseDir(ns, files, d, said)
<1>1. durable' = R /\ inode' = ForgetUnreachable(files, ns, R) /\ promised' = later
  BY DEF SyncDir
<1>2. Tree(R) /\ Kinds(R)
  BY SyncedDirTree
<1>3. KeptIn(files, ns, R, later)
  BY SyncedDirKept
<1>4. DOMAIN later \subseteq Paths
  BY PromiseType
<1> HIDE DEF R, later
<1>5. KeptIn(inode', ns, R, later)
  BY <1>1, <1>3, <1>4, ForgetKept
<1> QED
  BY <1>1, <1>2, <1>5 DEF Stands

(* The program changes names: durably nothing does, nor of what is said. *)
LEMMA NamesStand ==
  ASSUME Stands, Tree(names'), Kinds(names'), durable' = durable,
         DOMAIN promised' \subseteq DOMAIN promised,
         \A q \in DOMAIN promised' : promised'[q] = promised[q] /\ names'[q] = names[q],
         \A q \in DOMAIN promised' :
           durable[q] \in DOMAIN inode /\ names[q] = durable[q] =>
             durable[q] \in DOMAIN inode' /\ inode'[durable[q]].durable = inode[durable[q]].durable
  PROVE  Stands'
<1>1. KeptIn(inode, names, durable, promised)
  BY DEF Stands
<1>2. KeptIn(inode', names', durable, promised')
  BY <1>1, KeptStays
<1> QED
  BY <1>2 DEF Stands

(* A file is made or written: its durable bytes are what they were. *)
LEMMA NamedStands ==
  ASSUME Typed, Stands, NEW p \in FilePaths, ~IsDir(p), Exists(p) \/ IsDir(Parent(p)),
         NEW i \in Inodes, i = (IF IsFile(p) THEN names[p] ELSE next), names' = [names EXCEPT ![p] = i],
         DOMAIN inode \subseteq DOMAIN inode',
         \A j \in DOMAIN inode : inode'[j].durable = inode[j].durable,
         durable' = durable, promised' = Made({p})
  PROVE  Stands'
<1>1. names \in [Paths -> Entries] /\ DOMAIN promised \subseteq Paths /\ p \in Paths
  BY TypedFacts, PathsAssumption
<1>2. names[p] \in Inodes => i = names[p]
  BY DEF IsFile
<1>3. Tree(names') /\ Kinds(names')
  <2>1. Shape /\ Roots /\ Tree(names) /\ Kinds(names)
    BY DEF Typed, Stands
  <2> QED
    BY <1>2, <2>1, NamedTree
<1>5. \A q \in DOMAIN promised' : q \in DOMAIN promised /\ promised'[q] = promised[q] /\ (q = p => Exists(p))
  <2>1. \A q \in DOMAIN Made({p}) : q \in DOMAIN promised /\ Made({p})[q] = promised[q] /\ (q \in {p} => Exists(q))
    BY MadeKeeps
  <2> QED
    BY <2>1
<1>6. Exists(p) => i = names[p]
  BY <1>1, <1>2, Apart DEF Exists, IsDir
<1>7. \A q \in DOMAIN promised' : names'[q] = names[q]
  BY <1>1, <1>5, <1>6
<1> QED
  BY <1>3, <1>5, <1>7, NamesStand

(* A write changes the bytes, and a new file has its number to itself. *)
LEMMA WriteToStands ==
  ASSUME Typed, Stands, NEW p \in Paths, NEW bytes, NEW append, WriteTo(p, bytes, append)
  PROVE  Stands'
<1> DEFINE i == IF IsFile(p) THEN names[p] ELSE next
           file == IF IsFile(p) THEN inode[i] ELSE NewFile
           old == Len(file.data)
           new == IF append THEN Change(file, Write(old, bytes))
                            ELSE Change(Change(file, Truncate(0)), Write(0, bytes))
<1>1. /\ p \in FilePaths /\ ~IsDir(p) /\ (Exists(p) \/ IsDir(Parent(p))) /\ i \in Inodes
      /\ inode' = Put(i, new, inode) /\ names' = [names EXCEPT ![p] = i]
      /\ durable' = durable /\ promised' = Made({p})
  BY Zenon DEF WriteTo
<1>2. \A j \in DOMAIN inode : Right(inode[j])
  BY DEF Typed, AllRight
<1>3. i \in DOMAIN inode => IsFile(p)
  BY BoundsAssumption DEF Typed, DiskNumbers
<1>4. i \in DOMAIN inode => file \in Files /\ file.durable = inode[i].durable
  BY <1>2, <1>3 DEF Right
<1>5. \A f \in Files : \A op : Change(f, op).durable = f.durable
  BY DEF Change, Files
<1>6. i \in DOMAIN inode => new.durable = inode[i].durable
  <2> SUFFICES ASSUME i \in DOMAIN inode PROVE new.durable = inode[i].durable
    OBVIOUS
  <2> HIDE DEF file
  <2>1. \A op : Change(file, op).durable = inode[i].durable
    BY <1>4, <1>5
  <2>2. \A op, op2 : Change(Change(file, op), op2).durable = inode[i].durable
    BY <1>4 DEF Change, Files
  <2> QED
    BY <2>1, <2>2
<1> HIDE DEF new
<1>7. DOMAIN inode' = {i} \cup DOMAIN inode /\ inode'[i] = new /\ \A j \in DOMAIN inode : j # i => inode'[j] = inode[j]
  BY <1>1 DEF Put
<1>8. \A j \in DOMAIN inode : inode'[j].durable = inode[j].durable
  BY <1>6, <1>7
<1> QED
  BY <1>1, <1>7, <1>8, NamedStands

(* Opening a file, or making it. *)
LEMMA XOpenStands ==
  ASSUME Typed, Stands, NEW h \in Handles, NEW p \in Paths, NEW dirsync \in BOOLEAN, XOpen(h, p, dirsync)
  PROVE  Stands'
<1> DEFINE i == IF IsFile(p) THEN names[p] ELSE next
<1>1. /\ p \in FilePaths /\ ~IsDir(p) /\ (Exists(p) \/ (IsDir(Parent(p)) /\ next \in Inodes))
      /\ inode' = (IF IsFile(p) THEN inode ELSE Put(i, NewFile, inode))
      /\ names' = [names EXCEPT ![p] = i] /\ durable' = durable /\ promised' = Made({p})
  BY Zenon DEF XOpen
<1>2. names \in [Paths -> Entries]
  BY TypedFacts
<1>3. i \in Inodes
  BY <1>1, <1>2, Apart DEF IsFile, IsDir, Exists
<1>4. i \in DOMAIN inode => IsFile(p)
  BY BoundsAssumption DEF Typed, DiskNumbers
<1>5. DOMAIN inode \subseteq DOMAIN inode' /\ \A j \in DOMAIN inode : inode'[j] = inode[j]
  BY <1>1, <1>4 DEF Put
<1> QED
  BY <1>1, <1>3, <1>5, NamedStands

(* Making directories: nothing was said of what had no name. *)
LEMMA MkDirAllStands ==
  ASSUME Typed, Stands, NEW p \in Paths, MkDirAll(p)
  PROVE  Stands'
<1> DEFINE above == {q \in Paths : q = p \/ Under(q, p)}
<1>1. /\ names' = [q \in Paths |-> IF q \in above THEN Dir ELSE names[q]]
      /\ \A q \in above : ~IsFile(q)
      /\ UNCHANGED <<inode, durable>> /\ promised' = Made(above)
  BY DEF MkDirAll
<1> HIDE DEF above
<1>2. names \in [Paths -> Entries] /\ DOMAIN promised \subseteq Paths
  BY TypedFacts
<1>3. Tree(names') /\ Kinds(names')
  BY MkDirAllTree DEF Typed, Stands
<1>4. \A q \in DOMAIN promised' : q \in DOMAIN promised /\ promised'[q] = promised[q] /\ (q \in above => Exists(q))
  <2>1. \A q \in DOMAIN Made(above) : q \in DOMAIN promised /\ Made(above)[q] = promised[q] /\ (q \in above => Exists(q))
    BY MadeKeeps
  <2> QED
    BY <1>1, <2>1
<1>5. \A q \in DOMAIN promised' : names'[q] = names[q]
  BY <1>1, <1>2, <1>4, Apart DEF IsFile, Exists
<1> QED
  BY <1>1, <1>3, <1>4, <1>5, NamesStand

(* Names go or move, with what was said of them. *)
LEMMA MovedStands ==
  ASSUME Typed, Stands, names' \in [Paths -> Entries], Tree(names'), Kinds(names'), durable' = durable,
         inode' = ForgetUnreachable(inode, names', durable), NEW ps, promised' = Without(ps),
         \A q \in Paths : q \notin ps => names'[q] = names[q]
  PROVE  Stands'
<1>1. DOMAIN promised \subseteq Paths
  BY TypedFacts
<1>2. \A q \in DOMAIN promised' : q \in Paths /\ q \in DOMAIN promised /\ promised'[q] = promised[q] /\ names'[q] = names[q]
  BY <1>1, WithoutKeeps
<1>3. \A q \in Paths : names'[q] \in Range(names')
  BY DEF Range
<1>4. \A j \in DOMAIN inode : j \in Range(names') => j \in DOMAIN inode' /\ inode'[j] = inode[j]
  BY DEF ForgetUnreachable, Restrict
<1>5. \A q \in DOMAIN promised' :
        durable[q] \in DOMAIN inode /\ names[q] = durable[q] =>
          durable[q] \in DOMAIN inode' /\ inode'[durable[q]].durable = inode[durable[q]].durable
  BY <1>2, <1>3, <1>4
<1> QED
  BY <1>2, <1>5, NamesStand

(* A removal, of a file or of a directory with all under it. *)
LEMMA RemovedStands ==
  ASSUME Typed, Stands, NEW ps, Removed(ps),
         \A x \in Paths, d \in Paths : d \in ps /\ Under(d, x) /\ names[d] = Dir => x \in ps
  PROVE  Stands'
<1>1. /\ names' = [q \in Paths |-> IF q \in ps THEN None ELSE names[q]]
      /\ inode' = ForgetUnreachable(inode, names', durable) /\ durable' = durable /\ promised' = Without(ps)
  BY DEF Removed
<1>2. names' \in [Paths -> Entries]
  BY <1>1, TypedFacts DEF Entries
<1>3. Tree(names') /\ Kinds(names')
  BY <1>1, RemovedTree DEF Stands
<1> QED
  BY <1>1, <1>2, <1>3, MovedStands

(* A rename. *)
LEMMA RenameStands ==
  ASSUME Typed, Stands, NEW p \in Paths, NEW q \in Paths, Rename(p, q)
  PROVE  Stands'
<1> DEFINE moved == {r \in OnOrUnder(p) : Exists(r)}
           New(r) == q \o SubSeq(r, Len(p) + 1, Len(r))
           arrives == {New(r) : r \in moved}
<1>1. /\ names' = [r \in Paths |-> IF r \in arrives THEN names[CHOOSE old \in moved : New(old) = r]
                                   ELSE IF r \in OnOrUnder(p) THEN None ELSE names[r]]
      /\ inode' = ForgetUnreachable(inode, names', durable) /\ durable' = durable
      /\ promised' = Without(OnOrUnder(p) \cup arrives)
  BY DEF Rename
<1> HIDE DEF moved, New, arrives
<1>2. \A r \in Paths : r \notin OnOrUnder(p) \cup arrives => names'[r] = names[r]
  BY <1>1
<1>3. names' \in [Paths -> Entries]
  BY RenameKeeps DEF Typed, Shape
<1>4. Tree(names') /\ Kinds(names')
  BY RenameTree DEF Typed, Stands
<1> QED
  BY <1>1, <1>2, <1>3, <1>4, MovedStands

(* SQLite's changes: the durable bytes stay. *)
LEMMA XChangeStands ==
  ASSUME Typed, Stands, NEW h, NEW op, NEW grow, XChange(h, op, grow)
  PROVE  Stands'
<1>1. PICK i \in DOMAIN inode : inode' = [inode EXCEPT ![i] = Change(@, op)]
  BY DEF XChange
<1>2. UNCHANGED <<names, durable, promised>>
  BY DEF XChange
<1>3. inode[i] \in Files
  BY DEF Typed, AllRight, Right
<1>4. Change(inode[i], op).durable = inode[i].durable
  BY <1>3 DEF Change, Files
<1>5. DOMAIN inode' = DOMAIN inode /\ \A j \in DOMAIN inode : inode'[j].durable = inode[j].durable
  BY <1>1, <1>4
<1>6. Tree(names') /\ Kinds(names')
  BY <1>2 DEF Stands
<1> QED
  BY <1>2, <1>5, <1>6, NamesStand

(* SQLite's syncs. *)
LEMMA XSyncStands ==
  ASSUME OneKind, Typed, Stands, NEW h \in Handles, NEW file \in BOOLEAN, NEW dir \in BOOLEAN, XSync(h, file, dir)
  PROVE  Stands'
<1> DEFINE i == handle[h].ino
           p == handle[h].path
           too == dir /\ handle[h].dirsync
<1>1. /\ names' = names
      /\ CASE file /\ too -> SyncDir(names, FilesSynced(i), NamesSynced(i, p), PromiseSynced(i, p), Parent(p))
           [] file /\ ~too -> SyncIno(i, p)
           [] ~file /\ too -> SyncDir(names, inode, durable, promised, Parent(p))
           [] ~file /\ ~too -> UNCHANGED <<inode, durable, promised>>
  BY DEF XSync
<1>2. p \in Paths /\ i \in Inodes
  <2>1. i # 0
    BY DEF XSync, LiveHandle
  <2>2. p \in Paths /\ i \in 0..(next - 1) /\ next \in 1..(MaxInodes + 1)
    BY DEF Typed, DiskNumbers
  <2> QED
    BY <2>1, <2>2, BoundsAssumption DEF Inodes
<1> HIDE DEF i, p, too
<1>3. /\ names \in [Paths -> Entries] /\ durable \in [Paths -> Entries] /\ names[<<>>] = Dir
      /\ DOMAIN promised \subseteq Paths /\ DOMAIN inode \subseteq Inodes /\ Reaches(names, inode)
  BY TypedFacts
<1>4. Tree(names) /\ Kinds(names) /\ Tree(durable) /\ Kinds(durable) /\ KeptIn(inode, names, durable, promised)
  BY DEF Stands
<1>5. /\ KeptIn(FilesSynced(i), names, NamesSynced(i, p), PromiseSynced(i, p))
      /\ Tree(NamesSynced(i, p)) /\ Kinds(NamesSynced(i, p))
  BY <1>2, <1>4, SyncInoKept
<1>6. /\ DOMAIN FilesSynced(i) = DOMAIN inode /\ NamesSynced(i, p) \in [Paths -> Entries]
      /\ Reaches(names, FilesSynced(i))
  BY FileSyncKeeps DEF Typed
<1>7. DOMAIN PromiseSynced(i, p) \subseteq Paths
  BY <1>2, <1>3, PromiseSyncedType
<1>8. Parent(p) \in Paths
  BY <1>2, PathsAreSeqs DEF Parent
<1>9. CASE file /\ too
  <2>1. SyncDir(names, FilesSynced(i), NamesSynced(i, p), PromiseSynced(i, p), Parent(p))
    BY <1>1, <1>9
  <2> QED
    BY <1>1, <1>3, <1>4, <1>5, <1>6, <1>7, <1>8, <2>1, SyncDirStands
<1>10. CASE file /\ ~too
  <2>1. inode' = FilesSynced(i) /\ durable' = NamesSynced(i, p) /\ promised' = PromiseSynced(i, p)
    BY <1>1, <1>10 DEF SyncIno
  <2> QED
    BY <1>1, <1>4, <1>5, <2>1 DEF Stands
<1>11. CASE ~file /\ too
  <2>1. SyncDir(names, inode, durable, promised, Parent(p))
    BY <1>1, <1>11
  <2> QED
    BY <1>1, <1>3, <1>4, <1>8, <2>1, SyncDirStands
<1>12. CASE ~file /\ ~too
  <2>1. UNCHANGED <<inode, durable, promised>>
    BY <1>1, <1>12
  <2> QED
    BY <1>1, <1>4, <2>1 DEF Stands
<1> QED
  BY <1>9, <1>10, <1>11, <1>12

(* A sync of a path. *)
LEMMA SyncStands ==
  ASSUME OneKind, Typed, Stands, NEW p \in Paths, Sync(p)
  PROVE  Stands'
<1>1. names' = names
  BY DEF Sync
<1>2. Tree(names) /\ Kinds(names) /\ Tree(durable) /\ Kinds(durable) /\ KeptIn(inode, names, durable, promised)
  BY DEF Stands
<1>3. CASE IsFile(p)
  <2>1. names[p] \in Inodes
    BY <1>3 DEF IsFile
  <2>2. SyncIno(names[p], p)
    BY <1>3 DEF Sync
  <2>3. /\ KeptIn(FilesSynced(names[p]), names, NamesSynced(names[p], p), PromiseSynced(names[p], p))
        /\ Tree(NamesSynced(names[p], p)) /\ Kinds(NamesSynced(names[p], p))
    BY <1>2, <2>1, SyncInoKept
  <2> QED
    BY <1>1, <1>2, <2>2, <2>3 DEF Stands, SyncIno
<1>4. CASE ~IsFile(p)
  <2>1. SyncDir(names, inode, durable, promised, p)
    BY <1>4 DEF Sync
  <2> QED
    BY <1>1, <1>2, <2>1, TypedFacts, SyncDirStands
<1> QED
  BY <1>3, <1>4

(* SQLite's removal: the name goes, then its directory is synced. *)
LEMMA XDeleteStands ==
  ASSUME OneKind, Typed, Stands, NEW p \in Paths, XDelete(p)
  PROVE  Stands'
<1>1. /\ names' = [names EXCEPT ![p] = None] /\ IsFile(p)
      /\ SyncDir(names', inode, durable, Without({p}), Parent(p))
  BY DEF XDelete
<1>2. /\ names \in [Paths -> Entries] /\ durable \in [Paths -> Entries] /\ names[<<>>] = Dir
      /\ DOMAIN promised \subseteq Paths /\ DOMAIN inode \subseteq Inodes /\ Reaches(names, inode)
  BY TypedFacts
<1>3. Tree(names) /\ Kinds(names) /\ Tree(durable) /\ Kinds(durable) /\ KeptIn(inode, names, durable, promised)
  BY DEF Stands
<1>4. names' = [q \in Paths |-> IF q \in {p} THEN None ELSE names[q]]
  BY <1>1, <1>2
<1>5. names[p] # Dir
  BY <1>1, Apart DEF IsFile
<1>6. Tree(names') /\ Kinds(names')
  <2>1. \A x \in Paths, d \in Paths : d \in {p} /\ Under(d, x) /\ names[d] = Dir => x \in {p}
    BY <1>5
  <2> QED
    BY <1>3, <1>4, <2>1, RemovedTree
<1>7. names' \in [Paths -> Entries] /\ names'[<<>>] = Dir /\ Reaches(names', inode)
  <2>1. p # <<>> /\ <<>> \in Paths
    BY <1>2, <1>5, PathsAreSeqs
  <2>2. names' \in [Paths -> Entries]
    BY <1>2, <1>4, Apart
  <2>3. names'[<<>>] = Dir
    BY <1>2, <1>4, <2>1
  <2>4. Reaches(names', inode)
    BY <1>2, <1>4, Apart DEF Reaches
  <2> QED
    BY <2>2, <2>3, <2>4
<1>8. KeptIn(inode, names', durable, Without({p}))
  <2>1. \A q \in DOMAIN Without({p}) : q \in Paths /\ q \in DOMAIN promised /\ q # p /\ Without({p})[q] = promised[q]
    BY <1>2 DEF Without, Restrict
  <2> QED
    BY <1>3, <1>4, <2>1, KeptStays
<1>9. DOMAIN Without({p}) \subseteq Paths /\ Parent(p) \in Paths
  BY <1>2, WithoutType, PathsAreSeqs DEF Parent
<1> QED
  BY <1>1, <1>2, <1>3, <1>6, <1>7, <1>8, <1>9, SyncDirStands

(* A crash leaves what was durable, but for files with writes that wait, *)
(* of which nothing stays said when writes may tear.                     *)
LEMMA CrashStands ==
  ASSUME Typed, Stands, Crash
  PROVE  Stands'
<1> DEFINE settled == {p \in DOMAIN promised : promised[p] # Gone => inode[durable[p]].pending = <<>>}
<1>1. PICK left :
        /\ \A i \in DOMAIN inode : left[i] \in Outcomes(inode[i])
        /\ inode' = ForgetUnreachable(
             [i \in DOMAIN inode |-> [data |-> left[i], durable |-> left[i], pending |-> <<>>]],
             durable, durable)
  BY DEF Crash
<1> DEFINE files == [i \in DOMAIN inode |-> [data |-> left[i], durable |-> left[i], pending |-> <<>>]]
<1>2. names' = durable /\ durable' = durable /\ promised' = IF Torn THEN Restrict(promised, settled) ELSE promised
  BY DEF Crash
<1>3. inode' = ForgetUnreachable(files, durable, durable)
  BY <1>1
<1>4. DOMAIN files = DOMAIN inode /\ \A i \in DOMAIN inode : files[i].durable = left[i]
  OBVIOUS
<1>5. \A i \in DOMAIN inode : inode[i].pending = <<>> \/ ~Torn => left[i] = inode[i].durable
  BY <1>1, OutcomesType DEF Typed, AllRight, Right
<1>6. /\ DOMAIN promised' \subseteq DOMAIN promised
      /\ \A q \in DOMAIN promised' : promised'[q] = promised[q] /\ (Torn => q \in settled)
  BY <1>2 DEF Restrict
<1> HIDE DEF files
<1>7. KeptIn(files, durable, durable, promised')
  <2> SUFFICES ASSUME NEW q \in DOMAIN promised'
               PROVE  \/ promised'[q] = Gone /\ durable[q] = None
                      \/ durable[q] \in DOMAIN files /\ promised'[q] = Kept(files[durable[q]].durable)
    BY DEF KeptIn
  <2>1. q \in DOMAIN promised /\ promised'[q] = promised[q]
    BY <1>6
  <2>2. CASE promised[q] = Gone /\ durable[q] = None
    BY <2>1, <2>2
  <2>3. CASE durable[q] \in DOMAIN inode /\ promised[q] = Kept(inode[durable[q]].durable)
    <3>1. inode[durable[q]].pending = <<>> \/ ~Torn
      BY <1>6, <2>3, KeptIsNotGone
    <3> QED
      BY <1>4, <1>5, <2>1, <2>3, <3>1
  <2> QED
    BY <2>1, <2>2, <2>3 DEF Stands, KeptIn
<1>8. durable \in [Paths -> Entries] /\ DOMAIN promised' \subseteq Paths
  BY <1>6, TypedFacts
<1>9. KeptIn(inode', durable, durable, promised')
  BY <1>3, <1>7, <1>8, ForgetKept
<1> QED
  BY <1>2, <1>9 DEF Stands

(* Every step keeps what was said, *)
LEMMA StandsStep ==
  ASSUME OneKind
  PROVE  Typed /\ Stands /\ [DiskNext]_simDiskVars => Stands'
<1> SUFFICES ASSUME Typed, Stands, [DiskNext]_simDiskVars PROVE Stands'
  OBVIOUS
<1>1. CASE Crash
  BY <1>1, CrashStands
<1>2. CASE Kill \/ UNCHANGED simDiskVars
  BY <1>2 DEF Kill, simDiskVars, diskVars, Stands
<1>3. ASSUME NEW p \in Paths, Sync(p) \/ MkDirAll(p) \/ XDelete(p) PROVE Stands'
  BY <1>3, SyncStands, MkDirAllStands, XDeleteStands
<1>4. ASSUME NEW p \in Paths, Unlink(p) PROVE Stands'
  <2>1. Removed({p}) /\ names[p] # Dir
    BY <1>4, Apart DEF Unlink, IsFile
  <2> QED
    BY <2>1, RemovedStands
<1>5. ASSUME NEW p \in Paths, RmDirAll(p) PROVE Stands'
  <2>1. Removed(OnOrUnder(p))
    BY <1>5 DEF RmDirAll
  <2>2. \A x \in Paths, d \in Paths : d \in OnOrUnder(p) /\ Under(d, x) => x \in OnOrUnder(p)
    BY PathOrder DEF OnOrUnder
  <2> QED
    BY <2>1, <2>2, RemovedStands
<1>6. ASSUME NEW p \in Paths, NEW q \in Paths, Rename(p, q) \/ CopyFile(p, q) PROVE Stands'
  BY <1>6, RenameStands, WriteToStands DEF CopyFile
<1>7. ASSUME NEW p \in Paths, NEW v \in Sectors, NEW append \in BOOLEAN, WriteFile(p, v, append)
      PROVE  Stands'
  BY <1>7, WriteToStands DEF WriteFile
<1>8. ASSUME NEW h \in Handles, NEW p \in Paths, NEW dirsync \in BOOLEAN, XOpen(h, p, dirsync)
      PROVE  Stands'
  BY <1>8, XOpenStands
<1>9. ASSUME NEW h \in Handles, NEW v \in Sectors, XWrite(h, 0, <<v, v>>) \/ XWrite(h, 1, <<v>>)
      PROVE  Stands'
  BY <1>9, XChangeStands DEF XWrite
<1>10. ASSUME NEW h \in Handles, XTruncate(h, 0) \/ XTruncate(h, 1) PROVE Stands'
  BY <1>10, XChangeStands DEF XTruncate
<1>11. ASSUME NEW h \in Handles, NEW file \in BOOLEAN, NEW dir \in BOOLEAN, XSync(h, file, dir)
       PROVE  Stands'
  BY <1>11, XSyncStands
<1> QED
  BY <1>1, <1>2, <1>3, <1>4, <1>5, <1>6, <1>7, <1>8, <1>9, <1>10, <1>11 DEF DiskNext

(* and nothing was said at first. *)
LEMMA StandsInit == DiskInit => Stands
<1> SUFFICES ASSUME DiskInit PROVE Stands
  OBVIOUS
<1>1. names = [p \in Paths |-> IF p = <<>> THEN Dir ELSE None] /\ durable = names /\ promised = <<>>
  BY DEF DiskInit
<1>2. Tree(names)
  BY <1>1, PathOrder, Apart DEF Tree
<1>3. Kinds(names)
  BY <1>1, Apart DEF Kinds
<1> QED
  BY <1>1, <1>2, <1>3 DEF Stands, KeptIn

(* What a true sync said is durable is what a crash leaves, with every      *)
(* directory above it, until the program makes, removes, moves or replaces  *)
(* it, and what it said is gone stays gone: whenever no name is both a      *)
(* file's and a directory's, for every set of paths.                        *)
THEOREM SyncedIsKeptAlways == OneKind => (DiskSpec => []SyncedIsKept)
<1> SUFFICES ASSUME OneKind PROVE DiskSpec => []SyncedIsKept
  OBVIOUS
<1>1. Typed /\ Stands => SyncedIsKept
  <2> SUFFICES ASSUME Typed, Stands, NEW p \in DOMAIN promised
               PROVE  IF promised[p] = Gone THEN durable[p] = None
                      ELSE /\ durable[p] \in DOMAIN inode /\ promised[p] = Kept(inode[durable[p]].durable)
                           /\ \A d \in Paths : Under(d, p) => durable[d] = Dir
    BY DEF SyncedIsKept
  <2>1. CASE promised[p] = Gone
    <3>1. ~(promised[p] = Kept(inode[durable[p]].durable))
      BY <2>1, KeptIsNotGone
    <3> QED
      BY <2>1, <3>1 DEF Stands, KeptIn
  <2>2. CASE promised[p] # Gone
    <3>1. durable[p] \in DOMAIN inode /\ promised[p] = Kept(inode[durable[p]].durable)
      BY <2>2 DEF Stands, KeptIn
    <3>2. p \in Paths /\ durable[p] # None
      BY <3>1, TypedFacts, Apart
    <3> QED
      BY <2>2, <3>1, <3>2 DEF Stands, Tree
  <2> QED
    BY <2>1, <2>2
<1>2. Typed /\ Stands /\ [DiskNext]_simDiskVars => Typed' /\ Stands'
  BY TypedStep, StandsStep
<1> QED
  BY <1>1, <1>2, TypedInit, StandsInit, PTL DEF DiskSpec

-----------------------------------------------------------------------------
(* The shrinker.  Where it may stand, and what it works on. *)

ShrinkPlans == [faults : Seq(Range(Faults)), drop : SUBSET Range(Optional),
                delay : [Range(Faults) -> Nat], stick : Nat]
ShrinkSteps == {"none", "chunks", "nodes", "delays", "stick", "done"}
ShrinkStands == [plan : ShrinkPlans, step : ShrinkSteps, item : Nat \ {0}, n : Nat \ {0, 1}]

(* The types, that no plan both fails and passes, and that a shrink that   *)
(* goes on has jobs.                                                       *)
ShrinkTyped ==
  /\ shrink \in ShrinkStands /\ cands \in Seq(ShrinkPlans) /\ nextCand \in Nat \ {0}
  /\ runs \in Nat /\ short \in BOOLEAN
  /\ failing \subseteq ShrinkPlans /\ passing \subseteq ShrinkPlans
  /\ failing \cap passing = {}
  /\ results \in Seq([plan : ShrinkPlans, short : BOOLEAN])
  /\ shrink.step # "done" => Len(results) < Len(Batches)

(* A trial tries what there is to try, and what it ran did not fail. *)
InTrial ==
  cands # <<>> =>
    /\ shrink.step # "done" /\ cands = Candidates /\ nextCand <= Len(cands)
    /\ \A k \in 1..(nextCand - 1) : cands[k] \in passing

(* Before the nodes only faults went, and not all of them could. *)
OnlyFaults ==
  shrink.step \in {"none", "chunks"} =>
    shrink.item = 1 /\ shrink.plan = [FirstPlan EXCEPT !.faults = shrink.plan.faults]
SomeNeeded ==
  shrink.step = "chunks" /\ ~short /\ shrink.plan.faults # <<>> =>
    [shrink.plan EXCEPT !.faults = <<>>] \in passing

(* A quotient of natural numbers, and its remainder. *)
LEMMA Division ==
  ASSUME NEW a \in Nat, NEW n \in Nat \ {0}
  PROVE  a \div n \in Nat /\ n * (a \div n) <= a /\ a < n * (a \div n) + n
         /\ a >= n => a \div n # 0
<1>1. a \div n \in Nat /\ n * (a \div n) <= a /\ a < n * (a \div n) + n
  OBVIOUS
<1>2. ASSUME a >= n, a \div n = 0 PROVE FALSE
  <2>1. n * 0 = 0
    OBVIOUS
  <2> QED BY <1>1, <1>2, <2>1
<1> QED BY <1>1, <1>2

(* A plan with one part of it changed is a plan. *)
LEMMA PlanWith ==
  ASSUME NEW p \in ShrinkPlans
  PROVE  /\ \A f \in Seq(Range(Faults)) : [p EXCEPT !.faults = f] \in ShrinkPlans
         /\ \A d \in SUBSET Range(Optional) : [p EXCEPT !.drop = d] \in ShrinkPlans
         /\ \A ms \in Nat : [p EXCEPT !.stick = ms] \in ShrinkPlans
<1> DEFINE F == Seq(Range(Faults))  D == SUBSET Range(Optional)  Y == [Range(Faults) -> Nat]
<1>1. p \in [faults : F, drop : D, delay : Y, stick : Nat]
  BY DEF ShrinkPlans
<1> SUFFICES /\ \A f \in F : [p EXCEPT !.faults = f] \in [faults : F, drop : D, delay : Y, stick : Nat]
             /\ \A d \in D : [p EXCEPT !.drop = d] \in [faults : F, drop : D, delay : Y, stick : Nat]
             /\ \A ms \in Nat : [p EXCEPT !.stick = ms] \in [faults : F, drop : D, delay : Y, stick : Nat]
  BY DEF ShrinkPlans
<1> HIDE DEF F, D, Y
<1> QED BY <1>1

(* A part of a sequence, empty parts included. *)
LEMMA PartOfSeq ==
  ASSUME NEW S, NEW s \in Seq(S), NEW m \in Nat \ {0}, NEW n \in Nat, n <= Len(s)
  PROVE  SubSeq(s, m, n) \in Seq(S)
  OBVIOUS

(* Where every shrink begins (shrink_from). *)
LEMMA FirstStands == FirstStep \in ShrinkStands
  BY FaultsAssumption, StepsAssumption
     DEF FirstStep, FirstPlan, ShrinkStands, ShrinkPlans, ShrinkSteps

(* The chunks of ddmin are not empty and begin within the faults. *)
LEMMA SizeIs ==
  ASSUME NEW s \in ShrinkStands, Len(s.plan.faults) >= 2
  PROVE  /\ Size(s) \in Nat \ {0} /\ Chunks(s) \in Nat \ {0}
         /\ \A k \in 1..Chunks(s) : (k - 1) * Size(s) \in Nat /\ (k - 1) * Size(s) <= Len(s.plan.faults)
<1> DEFINE L == Len(s.plan.faults)
<1>1. L \in Nat /\ s.n \in Nat \ {0, 1} /\ L >= 2
  BY DEF ShrinkStands, ShrinkPlans
<1>2. /\ Size(s) \in Nat \ {0} /\ s.n * Size(s) <= L + s.n - 1 /\ L + s.n - 1 < s.n * Size(s) + s.n
  <2> HIDE DEF L
  <2>1. L + s.n - 1 \in Nat /\ s.n \in Nat \ {0} /\ L + s.n - 1 >= s.n
    <3> DEFINE n == s.n
    <3>1. L \in Nat /\ n \in Nat \ {0, 1} /\ L >= 2
      BY <1>1
    <3> HIDE DEF n
    <3>2. L + n - 1 \in Nat /\ n \in Nat \ {0} /\ L + n - 1 >= n
      BY <3>1
    <3> QED BY <3>2 DEF n
  <2>2. Size(s) = (L + s.n - 1) \div s.n
    BY DEF Size, L
  <2> QED BY <2>1, <2>2, Division
<1>4. /\ Chunks(s) \in Nat \ {0} /\ Size(s) * Chunks(s) <= L + Size(s) - 1
      /\ L + Size(s) - 1 < Size(s) * Chunks(s) + Size(s)
  <2>1. L + Size(s) - 1 \in Nat /\ Size(s) \in Nat \ {0} /\ L + Size(s) - 1 >= Size(s)
    BY <1>1, <1>2
  <2> HIDE DEF L
  <2>2. Chunks(s) = (L + Size(s) - 1) \div Size(s)
    BY DEF Chunks, L
  <2> DEFINE q == Size(s)  a == L + q - 1
  <2>3. a \in Nat /\ q \in Nat \ {0} /\ a >= q /\ Chunks(s) = a \div q
    BY <2>1, <2>2
  <2>4. L + q - 1 = a
    OBVIOUS
  <2> HIDE DEF a, q
  <2>5. a \div q \in Nat \ {0} /\ q * (a \div q) <= a /\ a < q * (a \div q) + q
    BY <2>3, Division
  <2>6. Chunks(s) \in Nat \ {0} /\ q * Chunks(s) <= L + q - 1 /\ L + q - 1 < q * Chunks(s) + q
    BY <2>3, <2>4, <2>5
  <2> QED BY <2>6 DEF q
<1>6. ASSUME NEW k \in 1..Chunks(s)
      PROVE  (k - 1) * Size(s) \in Nat /\ (k - 1) * Size(s) <= L
  <2> HIDE DEF L
  <2> DEFINE q == Size(s)  c == Chunks(s)
  <2>1. q \in Nat \ {0} /\ c \in Nat /\ k \in 1..c /\ L \in Nat /\ q * c <= L + q - 1
    BY <1>1, <1>2, <1>4, <1>6
  <2> HIDE DEF q, c
  <2>2. (k - 1) * q <= (c - 1) * q /\ (k - 1) * q \in Nat
    BY <2>1
  <2>3. (c - 1) * q = q * c - q
    BY <2>1
  <2>4. q * c \in Nat /\ (c - 1) * q <= L - 1
    BY <2>1, <2>3
  <2>5. (k - 1) * q \in Nat /\ (k - 1) * q <= L
    BY <2>1, <2>2, <2>3, <2>4
  <2> QED BY <2>5 DEF q
<1> QED BY <1>2, <1>4, <1>6

(* What is left without a chunk is faults of the run. *)
LEMMA WithoutIs ==
  ASSUME NEW s \in ShrinkStands, Len(s.plan.faults) >= 2, NEW k \in 1..Chunks(s)
  PROVE  WithoutChunk(s, k) \in Seq(Range(Faults))
<1> DEFINE a == (k - 1) * Size(s)  b == k * Size(s) + 1  L == Len(s.plan.faults)
<1>1. s.plan.faults \in Seq(Range(Faults)) /\ L \in Nat
  BY DEF ShrinkStands, ShrinkPlans
<1>2. a \in Nat /\ a <= L /\ Size(s) \in Nat \ {0} /\ k \in Nat \ {0}
  BY SizeIs
<1>3. b \in Nat \ {0}
  BY <1>2
<1> HIDE DEF a, b, L
<1>4. SubSeq(s.plan.faults, 1, a) \in Seq(Range(Faults))
  BY <1>1, <1>2, PartOfSeq DEF L
<1>5. SubSeq(s.plan.faults, b, L) \in Seq(Range(Faults))
  BY <1>1, <1>3, PartOfSeq DEF L
<1>6. WithoutChunk(s, k) = SubSeq(s.plan.faults, 1, a) \o SubSeq(s.plan.faults, b, L)
  BY DEF WithoutChunk, a, b, L
<1> QED BY <1>4, <1>5, <1>6

(* How many nodes or faults a step goes through. *)
LEMMA ItemsIs ==
  ASSUME NEW s \in ShrinkStands
  PROVE  /\ Items(s) \in Nat
         /\ s.step = "nodes" => Items(s) = Len(Optional)
         /\ s.step = "delays" => Items(s) = Len(s.plan.faults)
         /\ s.step \notin {"nodes", "delays"} => Items(s) = 1
  BY StepsAssumption DEF Items, ShrinkStands, ShrinkPlans

(* What a step tries is plans. *)
LEMMA TriesAre ==
  ASSUME NEW s \in ShrinkStands, s.step # "done"
  PROVE  Tries(s) \in Seq(ShrinkPlans)
<1>1. CASE s.item > Items(s)
  BY <1>1 DEF Tries
<1> SUFFICES ASSUME s.item <= Items(s)
             PROVE  Tries(s) \in Seq(ShrinkPlans)
  BY <1>1, ItemsIs DEF ShrinkStands
<1>2. s.plan \in ShrinkPlans /\ ~(s.item > Items(s))
  BY ItemsIs DEF ShrinkStands
<1>3. CASE s.step = "none"
  <2>1. [s.plan EXCEPT !.faults = <<>>] \in ShrinkPlans
    <3>1. <<>> \in Seq(Range(Faults))
      OBVIOUS
    <3> QED BY <3>1, <1>2, PlanWith
  <2>2. Tries(s) = IF s.plan.faults = <<>> THEN <<>> ELSE <<[s.plan EXCEPT !.faults = <<>>]>>
    BY <1>2, <1>3 DEF Tries
  <2> QED BY <2>1, <2>2
<1>4. CASE s.step = "chunks"
  <2>1. Tries(s) = IF Len(s.plan.faults) < 2 THEN <<>> ELSE Complements(s)
    BY <1>2, <1>4 DEF Tries
  <2>2. CASE Len(s.plan.faults) < 2
    BY <2>1, <2>2
  <2>3. CASE ~(Len(s.plan.faults) < 2)
    <3>1. Len(s.plan.faults) >= 2
      BY <2>3, <1>2 DEF ShrinkPlans
    <3>2. ASSUME NEW k \in 1..Chunks(s)
          PROVE  [s.plan EXCEPT !.faults = WithoutChunk(s, k)] \in ShrinkPlans
      BY <1>2, <3>1, WithoutIs, PlanWith
    <3> DEFINE P(k) == [s.plan EXCEPT !.faults = WithoutChunk(s, k)]
    <3>3. Chunks(s) \in Nat /\ \A k \in 1..Chunks(s) : P(k) \in ShrinkPlans
      BY <3>1, <3>2, SizeIs
    <3>4. Complements(s) = [k \in 1..Chunks(s) |-> P(k)]
      BY DEF Complements
    <3> HIDE DEF P
    <3>5. Complements(s) \in Seq(ShrinkPlans)
      BY <3>3, <3>4
    <3> QED BY <2>1, <2>3, <3>5
  <2> QED BY <2>2, <2>3
<1>5. CASE s.step = "nodes"
  <2>1. s.item \in 1..Len(Optional)
    BY <1>5, <1>2, ItemsIs DEF ShrinkStands
  <2>2. Optional[s.item] \in Range(Optional)
    BY <2>1, StepsAssumption DEF Range
  <2>3. [s.plan EXCEPT !.drop = @ \cup {Optional[s.item]}] \in ShrinkPlans
    <3>1. s.plan.drop \cup {Optional[s.item]} \in SUBSET Range(Optional)
      BY <1>2, <2>2 DEF ShrinkPlans
    <3> QED BY <3>1, <1>2, PlanWith
  <2>4. Tries(s) = <<[s.plan EXCEPT !.drop = @ \cup {Optional[s.item]}]>>
    BY <1>2, <1>5 DEF Tries
  <2> QED BY <2>3, <2>4
<1>6. CASE s.step = "delays"
  <2> DEFINE f == s.plan.faults[s.item]  d == s.plan.delay[f]
  <2>1. s.item \in 1..Len(s.plan.faults)
    BY <1>6, <1>2, ItemsIs DEF ShrinkStands
  <2>2. f \in Range(Faults) /\ d \in Nat
    BY <2>1, <1>2 DEF ShrinkPlans
  <2>3. d \div 4 \in Nat /\ d \div 2 \in Nat /\ 0 \in Nat
    BY <2>2
  <2>4. ASSUME NEW ms \in Nat PROVE [s.plan EXCEPT !.delay[f] = ms] \in ShrinkPlans
    <3> HIDE DEF f
    <3> QED BY <1>2, <2>2, <2>4 DEF ShrinkPlans
  <2>5. Tries(s) = ShorterDelays(s)
    BY <1>2, <1>6 DEF Tries
  <2>6. ShorterDelays(s) = IF d = 0 THEN <<>>
          ELSE <<[s.plan EXCEPT !.delay[f] = 0], [s.plan EXCEPT !.delay[f] = d \div 4],
                 [s.plan EXCEPT !.delay[f] = d \div 2]>>
    BY DEF ShorterDelays
  <2> HIDE DEF f, d
  <2>7. [s.plan EXCEPT !.delay[f] = 0] \in ShrinkPlans
        /\ [s.plan EXCEPT !.delay[f] = d \div 4] \in ShrinkPlans
        /\ [s.plan EXCEPT !.delay[f] = d \div 2] \in ShrinkPlans
    BY <2>3, <2>4
  <2> QED BY <2>5, <2>6, <2>7
<1>7. CASE s.step = "stick"
  <2>1. Tries(s) = Stickier(s)
    BY <1>2, <1>7 DEF Tries
  <2>2. Len(Sticks) \in Nat /\ DOMAIN Sticks = 1..Len(Sticks)
    BY StepsAssumption
  <2>3. ASSUME NEW k \in 1..Len(Sticks) PROVE [s.plan EXCEPT !.stick = Sticks[k]] \in ShrinkPlans
    <3>1. Sticks[k] \in Nat
      BY StepsAssumption
    <3> QED BY <3>1, <1>2, PlanWith
  <2> DEFINE P(k) == [s.plan EXCEPT !.stick = Sticks[k]]
  <2>4. Stickier(s) = [k \in 1..Len(Sticks) |-> P(k)] /\ \A k \in 1..Len(Sticks) : P(k) \in ShrinkPlans
    BY <2>2, <2>3 DEF Stickier
  <2> HIDE DEF P
  <2>5. Stickier(s) \in Seq(ShrinkPlans)
    BY <2>2, <2>4
  <2> QED BY <2>1, <2>5
<1> QED BY <1>3, <1>4, <1>5, <1>6, <1>7 DEF ShrinkStands, ShrinkSteps

(* Where a step moves on to: the nodes follow only the faults. *)
LEMMA MovedOnStands ==
  ASSUME NEW s \in ShrinkStands, s.step # "done"
  PROVE  /\ MovedOn(s) \in ShrinkStands /\ MovedOn(s).plan = s.plan
         /\ s.step = "none" /\ s.item = 1 => MovedOn(s).step = "chunks" /\ MovedOn(s).item = 1
         /\ s.step = "chunks" /\ s.item = 1 => MovedOn(s).step = "nodes"
         /\ MovedOn(s).step = "none" => s.step = "none" /\ s.item < Items(s)
         /\ MovedOn(s).step = "chunks" => s.step = "none" \/ (s.step = "chunks" /\ s.item < Items(s))
         /\ MovedOn(s).step = "nodes" /\ MovedOn(s).item = 1 => s.step = "chunks"
<1>1. s.item \in Nat \ {0} /\ Items(s) \in Nat /\ s.step \in ShrinkSteps \ {"done"}
  BY ItemsIs DEF ShrinkStands
<1>2. s.step \in {"none", "chunks"} => Items(s) = 1
  BY ItemsIs
<1>3. CASE s.item < Items(s)
  <2>1. MovedOn(s) = [s EXCEPT !.item = s.item + 1]
    BY <1>3 DEF MovedOn
  <2>2. MovedOn(s) \in ShrinkStands /\ MovedOn(s).plan = s.plan /\ MovedOn(s).step = s.step
        /\ MovedOn(s).item = s.item + 1
    BY <2>1, <1>1 DEF ShrinkStands
  <2> QED BY <2>2, <1>1, <1>2, <1>3
<1>4. CASE ~(s.item < Items(s))
  <2>1. MovedOn(s) = [s EXCEPT !.item = 1, !.step = Following[s.step]]
    BY <1>4 DEF MovedOn
  <2>2. PICK t \in ShrinkSteps \ {"none"} :
          t = Following[s.step] /\ (t = "chunks" <=> s.step = "none") /\ (t = "nodes" <=> s.step = "chunks")
    BY <1>1 DEF Following, ShrinkSteps
  <2>3. MovedOn(s) = [s EXCEPT !.item = 1, !.step = t]
    BY <2>1, <2>2
  <2> DEFINE u == [s EXCEPT !.item = 1]
  <2>31. u \in ShrinkStands /\ u.plan = s.plan /\ u.item = 1
    BY DEF ShrinkStands
  <2>32. MovedOn(s) = [u EXCEPT !.step = t]
    BY <2>3
  <2> HIDE DEF u
  <2>4. MovedOn(s) \in ShrinkStands /\ MovedOn(s).plan = s.plan /\ MovedOn(s).step = t
        /\ MovedOn(s).item = 1
    BY <2>31, <2>32, <2>2 DEF ShrinkStands
  <2>5. MovedOn(s).step # "none" /\ (MovedOn(s).step = "chunks" <=> s.step = "none")
        /\ (MovedOn(s).step = "nodes" <=> s.step = "chunks")
    BY <2>2, <2>4
  <2>6. s.step = "none" => s.step # "chunks"
    OBVIOUS
  <2> QED BY <2>4, <2>5, <2>6
<1> QED BY <1>3, <1>4

(* Where the shrink stands once a plan is kept. *)
LEMMA KeptStands ==
  ASSUME NEW s \in ShrinkStands, s.step # "done", NEW p \in ShrinkPlans
  PROVE  KeptPlan(s, p) \in ShrinkStands /\ KeptPlan(s, p).plan = p
<1>1. [s EXCEPT !.plan = p] \in ShrinkStands /\ [s EXCEPT !.plan = p].step # "done"
      /\ [s EXCEPT !.plan = p].plan = p
  BY DEF ShrinkStands
<1>2. CASE s.step = "chunks"
  <2>1. KeptPlan(s, p) = [[s EXCEPT !.plan = p] EXCEPT !.n = IF s.n > 3 THEN s.n - 1 ELSE 2]
    BY <1>2 DEF KeptPlan, ShrinkStands
  <2>2. (IF s.n > 3 THEN s.n - 1 ELSE 2) \in Nat \ {0, 1}
    BY DEF ShrinkStands
  <2> QED BY <1>1, <2>1, <2>2 DEF ShrinkStands
<1>3. CASE s.step # "chunks"
  <2>1. KeptPlan(s, p) = MovedOn([s EXCEPT !.plan = p])
    BY <1>3 DEF KeptPlan
  <2> QED BY <1>1, <2>1, MovedOnStands
<1> QED BY <1>2, <1>3

(* Where it stands when none of a trial was kept: its plan is the same. *)
LEMMA NoneStands ==
  ASSUME NEW s \in ShrinkStands, s.step # "done"
  PROVE  NoneKept(s) \in ShrinkStands /\ NoneKept(s).plan = s.plan
<1>1. Len(s.plan.faults) \in Nat /\ s.n \in Nat \ {0, 1}
  BY DEF ShrinkStands, ShrinkPlans
<1>2. CASE s.step = "chunks" /\ ~Finest(s)
  <2>1. ~(s.n >= Len(s.plan.faults))
    BY <1>2 DEF Finest
  <2>2. (IF 2 * s.n < Len(s.plan.faults) THEN 2 * s.n ELSE Len(s.plan.faults)) \in Nat \ {0, 1}
    <3> DEFINE L == Len(s.plan.faults)  n == s.n
    <3>1. L \in Nat /\ n \in Nat /\ n >= 2 /\ n < L
      BY <1>1, <2>1
    <3> HIDE DEF L, n
    <3>2. (IF 2 * n < L THEN 2 * n ELSE L) \in Nat \ {0, 1}
      BY <3>1
    <3> QED BY <3>2 DEF L, n
  <2>3. NoneKept(s) = [s EXCEPT !.n = IF 2 * s.n < Len(s.plan.faults) THEN 2 * s.n ELSE Len(s.plan.faults)]
    BY <1>2 DEF NoneKept, ShrinkStands
  <2> HIDE DEF Finest
  <2> QED BY <2>2, <2>3 DEF ShrinkStands
<1>3. CASE ~(s.step = "chunks" /\ ~Finest(s))
  <2>1. NoneKept(s) = MovedOn(s)
    BY <1>3 DEF NoneKept
  <2> QED BY <2>1, MovedOnStands
<1> QED BY <1>2, <1>3

(* What is tried, before runs are short. *)
LEMMA CandidatesAre ==
  ASSUME ShrinkTyped, shrink.step # "done"
  PROVE  Candidates \in Seq(ShrinkPlans) /\ (~short => Candidates = Tries(shrink))
  BY TriesAre DEF Candidates, ShrinkTyped

(* A batch is some of the candidates, from the next one on. *)
LEMMA BatchIs ==
  ASSUME ShrinkTyped, InTrial, cands # <<>>
  PROVE  /\ nextCand <= Until /\ Until <= Len(cands) /\ Until \in Nat
         /\ Batch \subseteq DOMAIN cands /\ Until \in Batch
         /\ shrink.step # "done"
<1>1. Len(results) + 1 \in 1..Len(Batches)
  BY StepsAssumption DEF ShrinkTyped, InTrial
<1>2. Jobs \in Nat \ {0}
  BY <1>1, StepsAssumption DEF Jobs
<1>3. Len(cands) \in Nat /\ nextCand \in Nat \ {0} /\ nextCand <= Len(cands) /\ DOMAIN cands = 1..Len(cands)
  BY DEF ShrinkTyped, InTrial
<1>4. nextCand <= Until /\ Until <= Len(cands) /\ Until \in Nat
  BY <1>2, <1>3 DEF Until
<1> QED BY <1>3, <1>4 DEF Batch, InTrial

(* What a batch makes known of the world, which is consistent. *)
LEMMA AnswersAre ==
  ASSUME ShrinkTyped, InTrial, cands # <<>>, NEW i, Answers(i)
  PROVE  /\ passing' \subseteq ShrinkPlans /\ failing' \subseteq ShrinkPlans
         /\ passing \subseteq passing' /\ failing \subseteq failing'
         /\ failing' \cap passing' = {}
         /\ \A k \in Batch : k < i => cands[k] \in passing'
         /\ i \in Batch => cands[i] \in failing'
<1>1. \A k \in Batch : cands[k] \in ShrinkPlans
  BY BatchIs DEF ShrinkTyped
<1> QED BY <1>1 DEF Answers, Passed, ShrinkTyped

(* A batch of which none failed: none so far did. *)
LEMMA PassedBatch ==
  ASSUME ShrinkTyped, InTrial, cands # <<>>, Answers(Until + 1)
  PROVE  \A k \in 1..Until : cands[k] \in passing'
<1>1. nextCand \in Nat \ {0} /\ Until \in Nat
  BY BatchIs DEF ShrinkTyped
<1>2. ASSUME NEW k \in 1..Until PROVE cands[k] \in passing'
  <2>1. CASE k \in 1..(nextCand - 1)
    BY <2>1, AnswersAre DEF InTrial
  <2>2. CASE k \notin 1..(nextCand - 1)
    <3>1. k \in Batch /\ k < Until + 1
      BY <2>2, <1>1 DEF Batch
    <3> QED BY <3>1, AnswersAre
  <2> QED BY <2>1, <2>2
<1> QED BY <1>2

(* A trial of which none failed: all its candidates passed. *)
LEMMA PassedLast ==
  ASSUME ShrinkTyped, InTrial, PassLast
  PROVE  /\ cands # <<>> /\ shrink.step # "done" /\ passing \subseteq passing'
         /\ \A k \in DOMAIN Candidates : Candidates[k] \in passing'
         /\ cands = Candidates
<1>1. cands # <<>> /\ Answers(Until + 1) /\ Until = Len(cands)
  BY DEF PassLast, RunBatch
<1>2. DOMAIN cands = 1..Len(cands)
  BY DEF ShrinkTyped
<1> QED BY <1>1, <1>2, PassedBatch, AnswersAre DEF InTrial

(* A trial of which one is kept: those before it passed. *)
LEMMA Keeps ==
  ASSUME ShrinkTyped, InTrial, NEW i, Keep(i)
  PROVE  /\ cands # <<>> /\ shrink.step # "done" /\ passing \subseteq passing' /\ failing \subseteq failing'
         /\ i \in DOMAIN Candidates /\ Candidates[i] \in failing' /\ i \in Nat
         /\ \A k \in 1..(i - 1) : Candidates[k] \in passing'
         /\ shrink' = KeptPlan(shrink, Candidates[i]) /\ Candidates[i] \in ShrinkPlans
<1>1. cands # <<>> /\ Answers(i) /\ i \in Batch /\ shrink' = KeptPlan(shrink, cands[i])
  BY DEF Keep, RunBatch
<1>2. cands = Candidates /\ shrink.step # "done" /\ nextCand \in Nat \ {0}
  BY <1>1 DEF InTrial, ShrinkTyped
<1>3. i \in DOMAIN cands /\ Until \in Nat /\ i \in Nat
  BY <1>1, <1>2, BatchIs DEF Batch
<1>4. cands[i] \in ShrinkPlans
  BY <1>3 DEF ShrinkTyped
<1>5. ASSUME NEW k \in 1..(i - 1) PROVE cands[k] \in passing'
  <2>1. CASE k \in 1..(nextCand - 1)
    BY <2>1, <1>1, AnswersAre DEF InTrial
  <2>2. CASE k \notin 1..(nextCand - 1)
    <3>1. k \in Batch /\ k < i
      BY <2>2, <1>1, <1>2, <1>3 DEF Batch
    <3> QED BY <3>1, <1>1, AnswersAre
  <2> QED BY <2>1, <2>2
<1>6. cands[i] \in failing' /\ passing \subseteq passing' /\ failing \subseteq failing'
  BY <1>1, AnswersAre
<1> QED BY <1>1, <1>2, <1>3, <1>4, <1>5, <1>6

(* What the first run leaves. *)
LEMMA ShrinkStartTyped == ShrinkInit => ShrinkTyped /\ InTrial
<1> SUFFICES ASSUME ShrinkInit PROVE ShrinkTyped /\ InTrial
  OBVIOUS
<1>1. shrink \in ShrinkStands /\ FirstPlan \in ShrinkPlans
  BY FirstStands DEF ShrinkInit, FirstStep, ShrinkStands
<1>2. Len(Batches) \in Nat \ {0}
  BY StepsAssumption
<1>3. Len(results) < Len(Batches) /\ results \in Seq([plan : ShrinkPlans, short : BOOLEAN])
      /\ cands \in Seq(ShrinkPlans)
  BY <1>2 DEF ShrinkInit
<1>4. /\ nextCand \in Nat \ {0} /\ runs \in Nat /\ short \in BOOLEAN
      /\ failing = {FirstPlan} /\ passing = {} /\ cands = <<>>
  <2>1. 2 \in Nat /\ 1 \in Nat \ {0}
    OBVIOUS
  <2> QED BY <2>1 DEF ShrinkInit
<1> QED BY <1>1, <1>3, <1>4 DEF ShrinkTyped, InTrial

(* Types, and what is known of a trial, are kept by every step. *)
LEMMA ShrinkStepTyped ==
  ASSUME ShrinkTyped, InTrial, [ShrinkNext]_shrinkVars
  PROVE  ShrinkTyped' /\ InTrial'
<1> USE DEF ShrinkTyped
<1>1. CASE Propose
  <2>1. Candidates \in Seq(ShrinkPlans) /\ Candidates # <<>> /\ shrink.step # "done"
    BY <1>1, CandidatesAre DEF Propose
  <2>2. Len(Candidates) \in Nat \ {0}
    BY <2>1
  <2>3. Candidates' = Candidates
    BY <1>1 DEF Propose, Candidates
  <2>4. ShrinkTyped'
    BY <1>1, <2>1 DEF Propose
  <2>5. InTrial'
    BY <1>1, <2>1, <2>2, <2>3 DEF Propose, InTrial
  <2> QED BY <2>4, <2>5
<1>2. CASE NothingToTry
  <2>1. shrink' \in ShrinkStands /\ shrink.step # "done"
    BY <1>2, MovedOnStands DEF NothingToTry
  <2>2. InTrial'
    BY <1>2 DEF NothingToTry, InTrial
  <2> QED BY <1>2, <2>1, <2>2 DEF NothingToTry
<1>3. CASE PassBatch
  <2>1. /\ cands # <<>> /\ Answers(Until + 1) /\ Until < Len(cands) /\ nextCand' = Until + 1
        /\ UNCHANGED <<shrink, cands, short, results>>
    BY <1>3 DEF PassBatch, RunBatch
  <2>2. Candidates' = Candidates
    BY <2>1 DEF Candidates
  <2>3. Until \in Nat /\ nextCand <= Until /\ Len(cands) \in Nat
    BY <2>1, BatchIs
  <2>4. runs' \in Nat
    <3>1. runs' = runs + (Until - nextCand + 1)
      BY <1>3 DEF PassBatch, RunBatch
    <3> QED BY <3>1, <2>3
  <2>5. nextCand' \in Nat \ {0} /\ nextCand' <= Len(cands) /\ nextCand' - 1 = Until
    BY <2>1, <2>3
  <2>6. \A k \in 1..(nextCand' - 1) : cands[k] \in passing'
    BY <2>1, <2>5, PassedBatch
  <2>7. InTrial'
    BY <2>1, <2>2, <2>5, <2>6 DEF InTrial
  <2> QED BY <2>1, <2>4, <2>5, <2>7, AnswersAre
<1>4. CASE PassLast
  <2>1. /\ cands # <<>> /\ Answers(Until + 1) /\ cands' = <<>>
        /\ shrink' = (IF short THEN MovedOn(shrink) ELSE NoneKept(shrink))
        /\ UNCHANGED <<nextCand, short, results>>
    BY <1>4 DEF PassLast, RunBatch
  <2>2. runs' \in Nat
    <3>1. runs' = runs + (Until - nextCand + 1)
      BY <1>4 DEF PassLast, RunBatch
    <3> QED BY <3>1, <2>1, BatchIs
  <2>3. shrink' \in ShrinkStands /\ shrink.step # "done"
    BY <2>1, BatchIs, MovedOnStands, NoneStands
  <2>4. InTrial'
    BY <2>1 DEF InTrial
  <2> QED BY <2>1, <2>2, <2>3, <2>4, AnswersAre
<1>5. CASE CutShort
  <2>1. shrink.step # "done" /\ shrink' = MovedOn(shrink)
    BY <1>5 DEF CutShort, InTrial
  <2>2. shrink' \in ShrinkStands
    BY <2>1, MovedOnStands
  <2>3. InTrial'
    BY <1>5 DEF CutShort, InTrial
  <2> QED BY <1>5, <2>1, <2>2, <2>3 DEF CutShort
<1>6. CASE Done
  <2>1. shrink.plan \in ShrinkPlans
    BY DEF ShrinkStands
  <2>2. results' \in Seq([plan : ShrinkPlans, short : BOOLEAN])
    BY <1>6, <2>1 DEF Done
  <2>3. cands = <<>>
    BY <1>6 DEF Done, InTrial
  <2>4. InTrial'
    BY <1>6, <2>3 DEF Done, InTrial
  <2>5. CASE Len(results') < Len(Batches)
    <3>1. /\ shrink' = FirstStep /\ nextCand' = 1 /\ runs' = 2 /\ short' = FALSE
          /\ UNCHANGED <<cands, failing, passing>>
      BY <1>6, <2>5 DEF Done
    <3>2. runs' \in Nat /\ short' \in BOOLEAN /\ nextCand' \in Nat \ {0}
      <4>1. 2 \in Nat /\ 1 \in Nat \ {0}
        OBVIOUS
      <4> QED BY <3>1, <4>1
    <3>3. shrink' \in ShrinkStands
      BY <3>1, FirstStands
    <3> QED BY <3>1, <3>2, <3>3, <2>2, <2>4, <2>5
  <2>6. CASE ~(Len(results') < Len(Batches))
    BY <1>6, <2>2, <2>4, <2>6 DEF Done
  <2> QED BY <2>5, <2>6
<1>7. ASSUME NEW i \in DOMAIN cands, Keep(i) PROVE ShrinkTyped' /\ InTrial'
  <2>1. /\ cands # <<>> /\ Answers(i) /\ cands' = <<>> /\ UNCHANGED <<nextCand, short, results>>
    BY <1>7 DEF Keep, RunBatch
  <2>2. runs' \in Nat
    <3>1. runs' = runs + (Until - nextCand + 1)
      BY <1>7 DEF Keep, RunBatch
    <3> QED BY <3>1, <2>1, BatchIs
  <2>3. shrink' \in ShrinkStands /\ shrink.step # "done"
    BY <1>7, Keeps, KeptStands
  <2>4. InTrial'
    BY <2>1 DEF InTrial
  <2> QED BY <2>1, <2>2, <2>3, <2>4, AnswersAre
<1>8. CASE UNCHANGED shrinkVars
  BY <1>8 DEF shrinkVars, InTrial, Candidates
<1> QED BY <1>1, <1>2, <1>3, <1>4, <1>5, <1>6, <1>7, <1>8 DEF ShrinkNext

(* The invariant of a shrink. *)
ShrinkSound == ShrinkTyped /\ InTrial /\ OnlyFaults /\ SomeNeeded

(* What the first two steps try: no faults at all, or all but a chunk. *)
LEMMA TriesOfFaults ==
  ASSUME NEW s \in ShrinkStands, s.item = 1
  PROVE  /\ s.step = "none" =>
              Tries(s) = IF s.plan.faults = <<>> THEN <<>> ELSE <<[s.plan EXCEPT !.faults = <<>>]>>
         /\ s.step = "chunks" =>
              Tries(s) = IF Len(s.plan.faults) < 2 THEN <<>> ELSE Complements(s)
<1>1. s.step \in {"none", "chunks"} => ~(s.item > Items(s))
  BY ItemsIs
<1> QED BY <1>1 DEF Tries

(* The candidates of ddmin, one for each chunk. *)
LEMMA ComplementsAre ==
  ASSUME NEW s \in ShrinkStands, Len(s.plan.faults) >= 2
  PROVE  /\ DOMAIN Complements(s) = 1..Chunks(s) /\ Complements(s) # <<>>
         /\ \A k \in 1..Chunks(s) : Complements(s)[k] = [s.plan EXCEPT !.faults = WithoutChunk(s, k)]
<1>1. DOMAIN Complements(s) = 1..Chunks(s) /\ 1 \in 1..Chunks(s)
  BY SizeIs DEF Complements
<1>2. Complements(s) # <<>>
  <2>1. DOMAIN <<>> = {}
    OBVIOUS
  <2> QED BY <1>1, <2>1
<1> QED BY <1>1, <1>2 DEF Complements

(* At the finest granularity a chunk is one fault. *)
LEMMA FinestChunks ==
  ASSUME NEW s \in ShrinkStands, Len(s.plan.faults) >= 2, Finest(s)
  PROVE  /\ Chunks(s) = Len(s.plan.faults)
         /\ \A k \in 1..Chunks(s) : WithoutChunk(s, k) = RemoveAt(s.plan.faults, k)
<1> DEFINE L == Len(s.plan.faults)
<1>1. L \in Nat /\ s.n \in Nat \ {0, 1} /\ L >= 2 /\ s.n >= L
  BY DEF ShrinkStands, ShrinkPlans, Finest
<1>2. Size(s) = 1
  <2>1. Size(s) = (L + s.n - 1) \div s.n
    BY DEF Size
  <2> DEFINE n == s.n
  <2>2. L \in Nat /\ n \in Nat \ {0, 1} /\ L >= 2 /\ n >= L /\ Size(s) = (L + n - 1) \div n
    BY <1>1, <2>1
  <2> HIDE DEF L, n
  <2>3. (L + n - 1) \div n = 1
    BY <2>2
  <2> QED BY <2>2, <2>3
<1>3. Chunks(s) = L
  <2>1. Chunks(s) = (L + 1 - 1) \div 1
    BY <1>2 DEF Chunks
  <2> HIDE DEF L
  <2>2. (L + 1 - 1) \div 1 = L
    BY <1>1
  <2> QED BY <2>1, <2>2
<1>4. ASSUME NEW k \in 1..L
      PROVE  WithoutChunk(s, k) = RemoveAt(s.plan.faults, k)
  <2>1. WithoutChunk(s, k) = SubSeq(s.plan.faults, 1, (k - 1) * 1) \o SubSeq(s.plan.faults, k * 1 + 1, L)
    BY <1>2 DEF WithoutChunk
  <2>2. k \in Nat /\ (k - 1) * 1 = k - 1 /\ k * 1 + 1 = k + 1
    BY <1>1
  <2> QED BY <2>1, <2>2 DEF RemoveAt
<1> QED BY <1>3, <1>4

(* The last round of ddmin ran the world without each fault. *)
LEMMA FinestPassed ==
  ASSUME ShrinkSound, PassLast, shrink.step = "chunks", Finest(shrink), ~short
  PROVE  \A i \in DOMAIN shrink.plan.faults :
           [shrink.plan EXCEPT !.faults = RemoveAt(@, i)] \in passing'
<1>1. shrink \in ShrinkStands /\ shrink.item = 1 /\ shrink.plan.faults \in Seq(Range(Faults))
  BY DEF ShrinkSound, ShrinkTyped, OnlyFaults, ShrinkStands, ShrinkPlans
<1>2. cands = Tries(shrink) /\ cands # <<>> /\ \A k \in DOMAIN Tries(shrink) : Tries(shrink)[k] \in passing'
  BY PassedLast, CandidatesAre DEF ShrinkSound
<1>3. Len(shrink.plan.faults) >= 2 /\ Tries(shrink) = Complements(shrink)
  BY <1>1, <1>2, TriesOfFaults
<1>4. DOMAIN Complements(shrink) = 1..Len(shrink.plan.faults)
  BY <1>1, <1>3, ComplementsAre, FinestChunks
<1>5. ASSUME NEW i \in DOMAIN shrink.plan.faults
      PROVE  [shrink.plan EXCEPT !.faults = RemoveAt(shrink.plan.faults, i)] \in passing'
  <2>1. i \in 1..Len(shrink.plan.faults)
    BY <1>1
  <2>2. Complements(shrink)[i] = [shrink.plan EXCEPT !.faults = RemoveAt(shrink.plan.faults, i)]
    BY <2>1, <1>1, <1>3, ComplementsAre, FinestChunks
  <2> QED BY <2>1, <2>2, <1>2, <1>3, <1>4
<1>6. shrink.plan = [shrink.plan EXCEPT !.faults = shrink.plan.faults]
  BY <1>1 DEF ShrinkStands, ShrinkPlans
<1> QED BY <1>5

(* With one fault left, the first step had run the world without it. *)
LEMMA NothingFinest ==
  ASSUME ShrinkSound, NothingToTry, shrink.step = "chunks", ~short
  PROVE  \A i \in DOMAIN shrink.plan.faults :
           [shrink.plan EXCEPT !.faults = RemoveAt(@, i)] \in passing
<1>1. shrink \in ShrinkStands /\ shrink.item = 1 /\ shrink.plan.faults \in Seq(Range(Faults))
  BY DEF ShrinkSound, ShrinkTyped, OnlyFaults, ShrinkStands, ShrinkPlans
<1>2. Tries(shrink) = <<>>
  BY CandidatesAre DEF ShrinkSound, NothingToTry
<1>3. Len(shrink.plan.faults) < 2
  <2>1. Len(shrink.plan.faults) \in Nat
    BY <1>1
  <2>2. ASSUME ~(Len(shrink.plan.faults) < 2) PROVE FALSE
    <3>1. Tries(shrink) = Complements(shrink) /\ Len(shrink.plan.faults) >= 2
      BY <2>1, <2>2, <1>1, TriesOfFaults
    <3> QED BY <3>1, <1>1, <1>2, ComplementsAre
  <2> QED BY <2>2
<1>4. ASSUME NEW i \in DOMAIN shrink.plan.faults
      PROVE  [shrink.plan EXCEPT !.faults = RemoveAt(shrink.plan.faults, i)] \in passing
  <2>1. Len(shrink.plan.faults) = 1 /\ i = 1 /\ shrink.plan.faults # <<>>
    <3> DEFINE f == shrink.plan.faults
    <3>1. f \in Seq(Range(Faults)) /\ Len(f) < 2 /\ i \in DOMAIN f
      BY <1>1, <1>3
    <3> HIDE DEF f
    <3>2. i \in 1..Len(f) /\ Len(f) \in Nat
      BY <3>1
    <3>4. f # <<>>
      <4>1. DOMAIN <<>> = {}
        OBVIOUS
      <4> QED BY <3>1, <4>1
    <3> DEFINE L == Len(f)
    <3>5. i \in 1..L /\ L \in Nat /\ L < 2
      BY <3>1, <3>2
    <3> HIDE DEF L
    <3>6. L = 1 /\ i = 1
      BY <3>5
    <3>3. Len(f) = 1 /\ i = 1
      BY <3>6 DEF L
    <3> QED BY <3>3, <3>4 DEF f
  <2>2. RemoveAt(shrink.plan.faults, i) = <<>>
    <3> DEFINE f == shrink.plan.faults
    <3>1. f \in Seq(Range(Faults)) /\ Len(f) = 1
      BY <1>1, <2>1
    <3>2. RemoveAt(f, i) = SubSeq(f, 1, 0) \o SubSeq(f, 2, 1)
      BY <2>1, <3>1 DEF RemoveAt
    <3> HIDE DEF f
    <3>3. SubSeq(f, 1, 0) = <<>> /\ SubSeq(f, 2, 1) = <<>>
      BY <3>1
    <3> QED BY <3>2, <3>3 DEF f
  <2>3. [shrink.plan EXCEPT !.faults = <<>>] \in passing
    BY <2>1 DEF ShrinkSound, SomeNeeded
  <2> QED BY <2>2, <2>3
<1> QED BY <1>4

(* The first two steps go through nothing. *)
LEMMA ItemIsOne ==
  ASSUME ShrinkSound, shrink.step \in {"none", "chunks"}
  PROVE  shrink \in ShrinkStands /\ shrink.item = 1 /\ Items(shrink) = 1
         /\ shrink.plan \in ShrinkPlans /\ shrink.plan = [FirstPlan EXCEPT !.faults = shrink.plan.faults]
  BY ItemsIs DEF ShrinkSound, ShrinkTyped, OnlyFaults, ShrinkStands

(* A plan with other faults has the rest of the first. *)
LEMMA FaultsOf ==
  ASSUME NEW p, p = [FirstPlan EXCEPT !.faults = p.faults], NEW f
  PROVE  /\ [p EXCEPT !.faults = f] = [FirstPlan EXCEPT !.faults = f]
         /\ [p EXCEPT !.faults = f].faults = f
<1>1. p = [faults |-> p.faults, drop |-> {}, delay |-> RestartDelays, stick |-> 0]
  BY DEF FirstPlan
<1>2. [p EXCEPT !.faults = f] = [faults |-> f, drop |-> {}, delay |-> RestartDelays, stick |-> 0]
  BY <1>1
<1> QED BY <1>2 DEF FirstPlan

(* What the first two steps leave of the plan when they keep one. *)
LEMMA KeptOfFaults ==
  ASSUME ShrinkSound, NEW i, Keep(i), shrink.step \in {"none", "chunks"}
  PROVE  /\ shrink'.step = "chunks" /\ shrink'.item = 1
         /\ shrink'.plan = [FirstPlan EXCEPT !.faults = shrink'.plan.faults]
         /\ shrink.step = "none" => shrink'.plan.faults = <<>>
         /\ shrink.step = "chunks" => Len(shrink.plan.faults) >= 2
                /\ [shrink'.plan EXCEPT !.faults = <<>>] = [shrink.plan EXCEPT !.faults = <<>>]
<1>1. /\ shrink' = KeptPlan(shrink, Candidates[i]) /\ Candidates[i] \in ShrinkPlans
      /\ i \in DOMAIN Candidates /\ Candidates # <<>>
  BY Keeps DEF ShrinkSound, InTrial
<1>2. Candidates = Tries(shrink)
  BY DEF Candidates
<1>3. shrink \in ShrinkStands /\ shrink.item = 1 /\ shrink.plan \in ShrinkPlans
      /\ shrink.plan = [FirstPlan EXCEPT !.faults = shrink.plan.faults]
  BY ItemIsOne
<1>4. CASE shrink.step = "none"
  <2>1. Candidates[i] = [shrink.plan EXCEPT !.faults = <<>>]
    <3>1. Tries(shrink) = <<[shrink.plan EXCEPT !.faults = <<>>]>>
      BY <1>1, <1>2, <1>3, <1>4, TriesOfFaults
    <3> QED BY <3>1, <1>1, <1>2
  <2> DEFINE t == [shrink EXCEPT !.plan = Candidates[i]]
  <2>2. t \in ShrinkStands /\ t.step = "none" /\ t.item = 1 /\ t.plan = Candidates[i]
    BY <1>1, <1>3, <1>4 DEF ShrinkStands
  <2>3. shrink' = MovedOn(t)
    BY <1>1, <1>4 DEF KeptPlan
  <2> HIDE DEF t
  <2>4. shrink'.step = "chunks" /\ shrink'.item = 1 /\ shrink'.plan = Candidates[i]
    BY <2>2, <2>3, MovedOnStands
  <2> QED BY <2>1, <2>4, <1>3, <1>4, FaultsOf
<1>5. CASE shrink.step = "chunks"
  <2>1. Tries(shrink) = Complements(shrink) /\ Len(shrink.plan.faults) >= 2
    <3>1. Len(shrink.plan.faults) \in Nat
      BY <1>3 DEF ShrinkPlans
    <3> QED BY <3>1, <1>1, <1>2, <1>3, <1>5, TriesOfFaults
  <2>2. i \in 1..Chunks(shrink) /\ Candidates[i] = [shrink.plan EXCEPT !.faults = WithoutChunk(shrink, i)]
    BY <2>1, <1>1, <1>2, <1>3, ComplementsAre
  <2>3. shrink'.step = "chunks" /\ shrink'.item = 1 /\ shrink'.plan = Candidates[i]
    BY <1>1, <1>3, <1>5 DEF KeptPlan, ShrinkStands
  <2>4. shrink'.plan = [FirstPlan EXCEPT !.faults = shrink'.plan.faults]
    BY <2>2, <2>3, <1>3, FaultsOf
  <2>5. [shrink'.plan EXCEPT !.faults = <<>>] = [FirstPlan EXCEPT !.faults = <<>>]
        /\ [shrink.plan EXCEPT !.faults = <<>>] = [FirstPlan EXCEPT !.faults = <<>>]
    BY <2>4, <1>3, FaultsOf
  <2> QED BY <2>1, <2>3, <2>4, <2>5, <1>5
<1> QED BY <1>4, <1>5

(* ddmin goes on until it tried single faults. *)
LEMMA NoneKeptIs ==
  ASSUME NEW s \in ShrinkStands, s.step # "done"
  PROVE  /\ s.step = "chunks" /\ ~Finest(s) => NoneKept(s).step = "chunks" /\ NoneKept(s).item = s.item
         /\ ~(s.step = "chunks" /\ ~Finest(s)) => NoneKept(s) = MovedOn(s)
<1>1. CASE s.step = "chunks" /\ ~Finest(s)
  BY <1>1 DEF NoneKept, ShrinkStands
<1>2. CASE ~(s.step = "chunks" /\ ~Finest(s))
  BY <1>2 DEF NoneKept
<1> QED BY <1>1, <1>2

(* The invariant holds when a shrink begins. *)
LEMMA ShrinkSoundInit == ShrinkInit => ShrinkSound /\ OneMinimal
<1>1. ASSUME ShrinkInit PROVE OnlyFaults /\ SomeNeeded /\ OneMinimal
  <2>1. shrink.step = "none" /\ shrink.item = 1 /\ shrink.plan = FirstPlan
    BY <1>1 DEF ShrinkInit, FirstStep
  <2>2. FirstPlan = [FirstPlan EXCEPT !.faults = FirstPlan.faults]
    BY DEF FirstPlan
  <2> QED BY <2>1, <2>2 DEF OnlyFaults, SomeNeeded, OneMinimal, FaultsDone
<1> QED BY <1>1, ShrinkStartTyped DEF ShrinkSound

(* Before the nodes only faults are dropped. *)
LEMMA OnlyFaultsStep ==
  ASSUME ShrinkSound, [ShrinkNext]_shrinkVars
  PROVE  OnlyFaults'
<1> USE DEF OnlyFaults
<1>0. shrink \in ShrinkStands
  BY DEF ShrinkSound, ShrinkTyped
<1>1. ASSUME shrink' = MovedOn(shrink), shrink.step # "done" PROVE OnlyFaults'
  <2>1. SUFFICES ASSUME shrink'.step \in {"none", "chunks"} PROVE OnlyFaults'
    OBVIOUS
  <2>2. shrink.step = "none" /\ shrink.item = 1 /\ Items(shrink) = 1
    <3>1. shrink.step \in {"none", "chunks"}
      BY <1>0, <1>1, <2>1, MovedOnStands
    <3> QED BY <3>1, <1>0, <1>1, <2>1, MovedOnStands, ItemIsOne
  <2>3. shrink'.item = 1 /\ shrink'.plan = shrink.plan
    BY <2>2, <1>0, <1>1, MovedOnStands
  <2> QED BY <2>2, <2>3, ItemIsOne
<1>2. CASE Propose
  BY <1>2 DEF Propose, ShrinkSound
<1>3. CASE NothingToTry
  BY <1>3, <1>1 DEF NothingToTry
<1>4. CASE PassBatch
  BY <1>4 DEF PassBatch, ShrinkSound
<1>5. CASE PassLast
  <2>1. shrink.step # "done" /\ shrink' = (IF short THEN MovedOn(shrink) ELSE NoneKept(shrink))
    BY <1>5, PassedLast DEF ShrinkSound, PassLast
  <2>2. CASE shrink' = MovedOn(shrink)
    BY <2>1, <2>2, <1>1
  <2>3. CASE shrink' # MovedOn(shrink)
    <3>1. shrink.step = "chunks" /\ shrink'.item = shrink.item /\ shrink'.plan = shrink.plan
      BY <1>0, <2>1, <2>3, NoneKeptIs, NoneStands
    <3> QED BY <3>1, ItemIsOne
  <2> QED BY <2>2, <2>3
<1>6. CASE CutShort
  BY <1>6, <1>1 DEF CutShort, ShrinkSound, InTrial
<1>7. CASE Done
  <2>1. shrink' = FirstStep \/ shrink' = shrink
    BY <1>7 DEF Done
  <2>2. CASE shrink' = FirstStep
    <3>1. FirstPlan = [FirstPlan EXCEPT !.faults = FirstPlan.faults]
      BY DEF FirstPlan
    <3> QED BY <2>2, <3>1 DEF FirstStep
  <2>3. CASE shrink' = shrink
    BY <2>3, <1>7 DEF Done
  <2> QED BY <2>1, <2>2, <2>3
<1>8. ASSUME NEW i \in DOMAIN cands, Keep(i) PROVE OnlyFaults'
  <2>1. CASE shrink.step \in {"none", "chunks"}
    BY <1>8, <2>1, KeptOfFaults
  <2>2. CASE shrink.step \notin {"none", "chunks"}
    <3> DEFINE t == [shrink EXCEPT !.plan = Candidates[i]]
    <3>1. shrink' = MovedOn(t) /\ Candidates[i] \in ShrinkPlans /\ shrink.step # "done"
      BY <1>8, <2>2, Keeps DEF KeptPlan, ShrinkSound
    <3>2. t \in ShrinkStands /\ t.step = shrink.step
      BY <3>1, <1>0 DEF ShrinkStands
    <3> HIDE DEF t
    <3>3. shrink'.step \notin {"none", "chunks"}
      BY <2>2, <3>1, <3>2, MovedOnStands
    <3> QED BY <3>3
  <2> QED BY <2>1, <2>2
<1>9. CASE UNCHANGED shrinkVars
  BY <1>9 DEF shrinkVars, ShrinkSound
<1> QED BY <1>2, <1>3, <1>4, <1>5, <1>6, <1>7, <1>8, <1>9 DEF ShrinkNext

(* Not all faults can be dropped, once that was tried. *)
LEMMA SomeNeededStep ==
  ASSUME ShrinkSound, [ShrinkNext]_shrinkVars
  PROVE  SomeNeeded'
<1> USE DEF SomeNeeded
<1>0. shrink \in ShrinkStands
  BY DEF ShrinkSound, ShrinkTyped
<1>1. ASSUME shrink' = MovedOn(shrink), shrink.step # "done", shrink'.step = "chunks"
      PROVE  shrink.step = "none" /\ shrink'.plan = shrink.plan
  <2>1. shrink'.plan = shrink.plan
        /\ (shrink.step = "none" \/ (shrink.step = "chunks" /\ shrink.item < Items(shrink)))
    BY <1>0, <1>1, MovedOnStands
  <2>2. shrink.step = "chunks" => ~(shrink.item < Items(shrink))
    BY ItemIsOne
  <2> QED BY <2>1, <2>2
<1>2. CASE Propose
  BY <1>2 DEF Propose, ShrinkSound
<1>3. CASE NothingToTry
  <2>1. SUFFICES ASSUME shrink'.step = "chunks", ~short PROVE SomeNeeded'
    BY <1>3 DEF NothingToTry
  <2>2. shrink.step = "none" /\ shrink'.plan = shrink.plan /\ Tries(shrink) = <<>>
    BY <1>1, <1>3, <2>1, CandidatesAre DEF NothingToTry, ShrinkSound
  <2>3. shrink.plan.faults = <<>>
    BY <1>0, <2>2, ItemIsOne, TriesOfFaults
  <2> QED BY <2>2, <2>3
<1>4. CASE PassBatch
  <2>1. passing \subseteq passing'
    BY <1>4, AnswersAre DEF PassBatch, RunBatch, ShrinkSound
  <2> QED BY <1>4, <2>1 DEF PassBatch, ShrinkSound
<1>5. CASE PassLast
  <2>1. SUFFICES ASSUME shrink'.step = "chunks", ~short', shrink'.plan.faults # <<>>
                 PROVE  [shrink'.plan EXCEPT !.faults = <<>>] \in passing'
    OBVIOUS
  <2>2. /\ shrink.step # "done" /\ passing \subseteq passing' /\ ~short /\ shrink' = NoneKept(shrink)
        /\ Tries(shrink) # <<>>
        /\ \A k \in DOMAIN Tries(shrink) : Tries(shrink)[k] \in passing'
    BY <1>5, <2>1, PassedLast, CandidatesAre DEF ShrinkSound, PassLast
  <2>3. shrink'.plan = shrink.plan
    BY <1>0, <2>2, NoneStands
  <2>4. CASE shrink.step = "chunks"
    BY <2>1, <2>2, <2>3, <2>4 DEF ShrinkSound
  <2>5. CASE shrink.step # "chunks"
    <3>1. shrink.step = "none"
      BY <1>0, <1>1, <2>1, <2>2, <2>5, NoneKeptIs
    <3>2. Tries(shrink) = <<[shrink.plan EXCEPT !.faults = <<>>]>>
      BY <1>0, <2>2, <3>1, ItemIsOne, TriesOfFaults
    <3>3. Tries(shrink)[1] \in passing'
      BY <2>2, <3>2
    <3> QED BY <2>3, <3>2, <3>3
  <2> QED BY <2>4, <2>5
<1>6. CASE CutShort
  BY <1>6 DEF CutShort
<1>7. CASE Done
  <2>1. shrink' = FirstStep \/ shrink' = shrink
    BY <1>7 DEF Done
  <2>2. shrink.step = "done"
    BY <1>7 DEF Done
  <2> QED BY <2>1, <2>2 DEF FirstStep
<1>8. ASSUME NEW i \in DOMAIN cands, Keep(i) PROVE SomeNeeded'
  <2>1. SUFFICES ASSUME shrink'.step = "chunks", ~short', shrink'.plan.faults # <<>>
                 PROVE  [shrink'.plan EXCEPT !.faults = <<>>] \in passing'
    OBVIOUS
  <2>2. shrink.step # "done" /\ passing \subseteq passing' /\ ~short
        /\ shrink' = KeptPlan(shrink, Candidates[i]) /\ Candidates[i] \in ShrinkPlans
    BY <1>8, <2>1, Keeps DEF Keep, ShrinkSound
  <2>3. shrink.step \in {"none", "chunks"}
    <3> DEFINE t == [shrink EXCEPT !.plan = Candidates[i]]
    <3>1. SUFFICES ASSUME shrink.step \notin {"none", "chunks"} PROVE FALSE
      OBVIOUS
    <3>2. shrink' = MovedOn(t) /\ t \in ShrinkStands /\ t.step = shrink.step
      BY <1>0, <2>2, <3>1 DEF KeptPlan, ShrinkStands
    <3> HIDE DEF t
    <3> QED BY <2>1, <2>2, <3>1, <3>2, MovedOnStands
  <2>4. shrink.step = "chunks" /\ Len(shrink.plan.faults) >= 2
        /\ [shrink'.plan EXCEPT !.faults = <<>>] = [shrink.plan EXCEPT !.faults = <<>>]
    BY <1>8, <2>1, <2>3, KeptOfFaults
  <2>5. shrink.plan.faults # <<>>
    BY <2>4
  <2> QED BY <2>2, <2>4, <2>5 DEF ShrinkSound
<1>9. CASE UNCHANGED shrinkVars
  BY <1>9 DEF shrinkVars, ShrinkSound
<1> QED BY <1>2, <1>3, <1>4, <1>5, <1>6, <1>7, <1>8, <1>9 DEF ShrinkNext

(* Every step keeps what is left 1-minimal. *)
LEMMA OneMinimalStep ==
  ASSUME ShrinkSound, OneMinimal, [ShrinkNext]_shrinkVars
  PROVE  OneMinimal'
<1> USE DEF OneMinimal, FaultsDone
<1>0. shrink \in ShrinkStands
  BY DEF ShrinkSound, ShrinkTyped
<1>1. CASE Propose
  BY <1>1 DEF Propose
<1>2. CASE NothingToTry
  <2>1. SUFFICES ASSUME shrink'.step = "nodes", shrink'.item = 1, ~short PROVE OneMinimal'
    BY <1>2 DEF NothingToTry
  <2>2. shrink.step = "chunks" /\ shrink'.plan = shrink.plan
    BY <1>0, <1>2, <2>1, MovedOnStands DEF NothingToTry
  <2>3. passing' = passing
    BY <1>2 DEF NothingToTry
  <2> QED BY <1>2, <2>1, <2>2, <2>3, NothingFinest
<1>3. CASE PassBatch
  BY <1>3 DEF PassBatch, RunBatch
<1>4. CASE PassLast
  <2>1. SUFFICES ASSUME shrink'.step = "nodes", shrink'.item = 1, ~short PROVE OneMinimal'
    BY <1>4 DEF PassLast
  <2>2. shrink.step # "done" /\ shrink' = NoneKept(shrink)
    BY <1>4, <2>1, PassedLast DEF PassLast, ShrinkSound
  <2>3. Finest(shrink) /\ shrink.step = "chunks" /\ shrink'.plan = shrink.plan
    BY <1>0, <2>1, <2>2, NoneKeptIs, NoneStands, MovedOnStands
  <2> QED BY <1>4, <2>1, <2>3, FinestPassed
<1>5. CASE CutShort
  BY <1>5 DEF CutShort
<1>6. CASE Done
  <2>1. shrink' = FirstStep \/ shrink' = shrink
    BY <1>6 DEF Done
  <2>2. shrink.step = "done"
    BY <1>6 DEF Done
  <2> QED BY <2>1, <2>2 DEF FirstStep
<1>7. ASSUME NEW i \in DOMAIN cands, Keep(i) PROVE OneMinimal'
  <2>1. SUFFICES ASSUME shrink'.step = "nodes", shrink'.item = 1 PROVE FALSE
    OBVIOUS
  <2> DEFINE t == [shrink EXCEPT !.plan = Candidates[i]]
  <2>2. shrink.step # "done" /\ shrink' = KeptPlan(shrink, Candidates[i]) /\ Candidates[i] \in ShrinkPlans
    BY <1>7, Keeps DEF ShrinkSound
  <2>3. t \in ShrinkStands /\ t.step = shrink.step
    BY <1>0, <2>2 DEF ShrinkStands
  <2>4. shrink.step # "chunks"
    BY <1>7, <2>1, KeptOfFaults
  <2>5. shrink' = MovedOn(t)
    BY <2>2, <2>4 DEF KeptPlan
  <2> HIDE DEF t
  <2> QED BY <2>1, <2>2, <2>3, <2>4, <2>5, MovedOnStands
<1>8. CASE UNCHANGED shrinkVars
  BY <1>8 DEF shrinkVars
<1> QED BY <1>1, <1>2, <1>3, <1>4, <1>5, <1>6, <1>7, <1>8 DEF ShrinkNext

(* The faults left are 1-minimal (shrink.rs 19-20), for any faults, jobs and *)
(* budget: in every behaviour in which the runs sufficed, the world was run *)
(* without each of them and did not fail the same way.                     *)
THEOREM OneMinimalAlways == ShrinkSpec => []OneMinimal
<1> DEFINE Inv == ShrinkSound /\ OneMinimal
<1>1. ShrinkInit => Inv
  BY ShrinkSoundInit
<1>2. Inv /\ [ShrinkNext]_shrinkVars => Inv'
  BY ShrinkStepTyped, OnlyFaultsStep, SomeNeededStep, OneMinimalStep DEF ShrinkSound
<1> QED BY <1>1, <1>2, PTL DEF ShrinkSpec

(* The shrinker as a machine: what a shrink that is not short does next,   *)
(* if the plans of fail are those that fail and the plans of pass pass.    *)
MachineStep(fail, pass, x, y) ==
  /\ x.step # "done"
  /\ \/ Tries(x) = <<>> /\ y = MovedOn(x)
     \/ \E i \in DOMAIN Tries(x) :
          /\ Tries(x)[i] \in fail /\ \A k \in 1..(i - 1) : Tries(x)[k] \in pass
          /\ y = KeptPlan(x, Tries(x)[i])
     \/ /\ Tries(x) # <<>> /\ \A k \in DOMAIN Tries(x) : Tries(x)[k] \in pass
        /\ y = NoneKept(x)

ClosedUnder(fail, pass, S) ==
  \A x \in S, y \in ShrinkStands : MachineStep(fail, pass, x, y) => y \in S

(* From x it comes to y. *)
ComesTo(fail, pass, x, y) ==
  \A S \in SUBSET ShrinkStands : x \in S /\ ClosedUnder(fail, pass, S) => y \in S

(* A consistent world leaves the shrinker one thing to do. *)
LEMMA MachineDeterministic ==
  ASSUME NEW fail, NEW pass, fail \cap pass = {}, NEW x \in ShrinkStands,
         NEW y, NEW z, MachineStep(fail, pass, x, y), MachineStep(fail, pass, x, z)
  PROVE  y = z
<1>1. Tries(x) \in Seq(ShrinkPlans)
  BY TriesAre DEF MachineStep
<1>2. DOMAIN Tries(x) = 1..Len(Tries(x)) /\ Len(Tries(x)) \in Nat
  BY <1>1
<1>3. CASE Tries(x) = <<>>
  <2>1. DOMAIN Tries(x) = {}
    BY <1>3
  <2> QED BY <1>3, <2>1 DEF MachineStep
<1>4. CASE Tries(x) # <<>> /\ \A k \in DOMAIN Tries(x) : Tries(x)[k] \in pass
  BY <1>4 DEF MachineStep
<1>5. CASE Tries(x) # <<>> /\ ~(\A k \in DOMAIN Tries(x) : Tries(x)[k] \in pass)
  <2>1. PICK i \in DOMAIN Tries(x) :
          /\ Tries(x)[i] \in fail /\ \A k \in 1..(i - 1) : Tries(x)[k] \in pass
          /\ y = KeptPlan(x, Tries(x)[i])
    BY <1>5 DEF MachineStep
  <2>2. PICK j \in DOMAIN Tries(x) :
          /\ Tries(x)[j] \in fail /\ \A k \in 1..(j - 1) : Tries(x)[k] \in pass
          /\ z = KeptPlan(x, Tries(x)[j])
    BY <1>5 DEF MachineStep
  <2>3. i \in Nat \ {0} /\ j \in Nat \ {0}
    BY <1>2
  <2>4. ~(i < j)
    <3>1. i < j => i \in 1..(j - 1)
      BY <2>3
    <3> QED BY <3>1, <2>1, <2>2
  <2>5. ~(j < i)
    <3>1. j < i => j \in 1..(i - 1)
      BY <2>3
    <3> QED BY <3>1, <2>1, <2>2
  <2>6. i = j
    BY <2>3, <2>4, <2>5
  <2> QED BY <2>1, <2>2, <2>6
<1> QED BY <1>3, <1>4, <1>5

(* One more step. *)
LEMMA ComesFurther ==
  ASSUME NEW fail, NEW pass, NEW x, NEW y, NEW z \in ShrinkStands,
         ComesTo(fail, pass, x, y), MachineStep(fail, pass, y, z)
  PROVE  ComesTo(fail, pass, x, z)
  BY DEF ComesTo, ClosedUnder

(* What becomes known of the world takes no step back. *)
LEMMA ComesStill ==
  ASSUME NEW fail, NEW pass, NEW more, NEW others, NEW x, NEW y,
         fail \subseteq more, pass \subseteq others, ComesTo(fail, pass, x, y)
  PROVE  ComesTo(more, others, x, y)
<1> SUFFICES ASSUME NEW S \in SUBSET ShrinkStands, x \in S, ClosedUnder(more, others, S)
             PROVE  y \in S
  BY DEF ComesTo
<1>1. ASSUME NEW a, NEW b, MachineStep(fail, pass, a, b) PROVE MachineStep(more, others, a, b)
  BY <1>1 DEF MachineStep
<1>2. ClosedUnder(fail, pass, S)
  BY <1>1 DEF ClosedUnder
<1> QED BY <1>2 DEF ComesTo

(* It ends in one place. *)
LEMMA OneEnd ==
  ASSUME NEW fail, NEW pass, fail \cap pass = {}, NEW x \in ShrinkStands,
         NEW d \in ShrinkStands, NEW e \in ShrinkStands, d.step = "done", e.step = "done",
         ComesTo(fail, pass, x, d), ComesTo(fail, pass, x, e)
  PROVE  d = e
<1> DEFINE S == {y \in ShrinkStands : ComesTo(fail, pass, y, e)}
<1>1. ASSUME NEW y \in S, NEW z \in ShrinkStands, MachineStep(fail, pass, y, z)
      PROVE  ComesTo(fail, pass, z, e)
  <2>1. SUFFICES ASSUME NEW T \in SUBSET ShrinkStands, z \in T, ClosedUnder(fail, pass, T)
                 PROVE  e \in T
    BY DEF ComesTo
  <2>2. ASSUME NEW b \in ShrinkStands, MachineStep(fail, pass, y, b) PROVE b \in T
    BY <2>1, <2>2, <1>1, MachineDeterministic
  <2>3. T \cup {y} \in SUBSET ShrinkStands /\ ClosedUnder(fail, pass, T \cup {y})
    BY <2>1, <2>2 DEF ClosedUnder
  <2>4. e \in T \cup {y}
    BY <2>3 DEF ComesTo
  <2>5. y # e
    BY <1>1 DEF MachineStep
  <2> QED BY <2>4, <2>5
<1>2. S \in SUBSET ShrinkStands /\ x \in S /\ ClosedUnder(fail, pass, S)
  BY <1>1 DEF ClosedUnder
<1>3. ComesTo(fail, pass, d, e)
  BY <1>2 DEF ComesTo
<1>4. {d} \in SUBSET ShrinkStands /\ ClosedUnder(fail, pass, {d})
  BY DEF ClosedUnder, MachineStep
<1> QED BY <1>3, <1>4 DEF ComesTo

(* A shrink that is not short is where the machine comes to, and ended     *)
(* where it ends.                                                          *)
FromStart(x) == ComesTo(failing, passing, FirstStep, x)
OnItsWay == ~short => FromStart(shrink)
EndedAt(i) == \E d \in ShrinkStands : d.step = "done" /\ d.plan = results[i].plan /\ FromStart(d)
AllEnded == \A i \in DOMAIN results : ~results[i].short => EndedAt(i)

(* A shrink that is not short is where the machine comes to. *)
LEMMA OnItsWayStep ==
  ASSUME ShrinkSound, OnItsWay, [ShrinkNext]_shrinkVars
  PROVE  OnItsWay'
<1> SUFFICES ASSUME ~short' PROVE ComesTo(failing', passing', FirstStep, shrink')
  BY DEF OnItsWay, FromStart
<1>0. shrink \in ShrinkStands /\ (shrink.step # "done" /\ ~short => Candidates = Tries(shrink))
  BY CandidatesAre DEF ShrinkSound, ShrinkTyped
<1>1. ASSUME shrink' = shrink, short' = short, failing \subseteq failing', passing \subseteq passing'
      PROVE  ComesTo(failing', passing', FirstStep, shrink')
  BY <1>1, ComesStill DEF OnItsWay, FromStart
<1>2. ASSUME short' = short, failing \subseteq failing', passing \subseteq passing', shrink' \in ShrinkStands,
             MachineStep(failing', passing', shrink, shrink')
      PROVE  ComesTo(failing', passing', FirstStep, shrink')
  <2>1. ComesTo(failing', passing', FirstStep, shrink)
    BY <1>2, ComesStill DEF OnItsWay, FromStart
  <2> QED BY <1>2, <2>1, ComesFurther
<1>11. shrink' \in ShrinkStands
  BY ShrinkStepTyped DEF ShrinkSound, ShrinkTyped
<1>3. CASE Propose
  BY <1>3, <1>1 DEF Propose
<1>4. CASE NothingToTry
  <2>1. MachineStep(failing', passing', shrink, shrink')
    BY <1>4, <1>0 DEF NothingToTry, MachineStep
  <2> QED BY <2>1, <1>11, <1>2, <1>4 DEF NothingToTry
<1>5. CASE PassBatch
  <2>1. failing \subseteq failing' /\ passing \subseteq passing'
    BY <1>5, AnswersAre DEF PassBatch, RunBatch, ShrinkSound
  <2> QED BY <2>1, <1>5, <1>1 DEF PassBatch
<1>6. CASE PassLast
  <2>1. short' = short /\ cands # <<>> /\ Answers(Until + 1)
    BY <1>6 DEF PassLast, RunBatch
  <2>2. failing \subseteq failing' /\ passing \subseteq passing'
    BY <2>1, AnswersAre DEF ShrinkSound
  <2>3. /\ shrink.step # "done" /\ shrink' = NoneKept(shrink) /\ Tries(shrink) # <<>>
        /\ \A k \in DOMAIN Tries(shrink) : Tries(shrink)[k] \in passing'
    BY <1>0, <1>6, <2>1, PassedLast DEF ShrinkSound, PassLast
  <2>4. MachineStep(failing', passing', shrink, shrink')
    BY <2>3 DEF MachineStep
  <2> QED BY <2>1, <2>2, <2>4, <1>11, <1>2
<1>7. CASE CutShort
  BY <1>7 DEF CutShort
<1>8. CASE Done
  <2>1. CASE shrink' = FirstStep
    BY <2>1 DEF ComesTo
  <2>2. CASE shrink' # FirstStep
    BY <1>8, <2>2, <1>1 DEF Done
  <2> QED BY <2>1, <2>2
<1>9. ASSUME NEW i \in DOMAIN cands, Keep(i)
      PROVE  ComesTo(failing', passing', FirstStep, shrink')
  <2>1. short' = short
    BY <1>9 DEF Keep
  <2>2. failing \subseteq failing' /\ passing \subseteq passing' /\ shrink.step # "done"
        /\ i \in DOMAIN Candidates /\ Candidates[i] \in failing'
        /\ (\A k \in 1..(i - 1) : Candidates[k] \in passing')
        /\ shrink' = KeptPlan(shrink, Candidates[i])
    BY <1>9, Keeps DEF ShrinkSound
  <2>3. MachineStep(failing', passing', shrink, shrink')
    BY <2>1, <2>2, <1>0 DEF MachineStep
  <2> QED BY <2>1, <2>2, <2>3, <1>11, <1>2
<1>10. CASE UNCHANGED shrinkVars
  BY <1>10, <1>1 DEF shrinkVars
<1> QED BY <1>3, <1>4, <1>5, <1>6, <1>7, <1>8, <1>9, <1>10 DEF ShrinkNext

(* What is known stays known, and results are only added. *)
LEMMA KnownGrows ==
  ASSUME ShrinkSound, [ShrinkNext]_shrinkVars
  PROVE  failing \subseteq failing' /\ passing \subseteq passing'
         /\ (~Done => results' = results)
<1>1. CASE PassBatch
  BY <1>1, AnswersAre DEF PassBatch, RunBatch, ShrinkSound
<1>2. CASE PassLast
  BY <1>2, AnswersAre DEF PassLast, RunBatch, ShrinkSound
<1>3. ASSUME NEW i \in DOMAIN cands, Keep(i)
      PROVE  failing \subseteq failing' /\ passing \subseteq passing' /\ results' = results
  BY <1>3, AnswersAre DEF Keep, RunBatch, ShrinkSound
<1> QED BY <1>1, <1>2, <1>3
        DEF ShrinkNext, Propose, NothingToTry, CutShort, Done, shrinkVars

(* The shrinks that ended are where the machine ends. *)
LEMMA AllEndedStep ==
  ASSUME ShrinkSound, OnItsWay, AllEnded, [ShrinkNext]_shrinkVars
  PROVE  AllEnded'
<1>1. failing \subseteq failing' /\ passing \subseteq passing' /\ (~Done => results' = results)
  BY KnownGrows
<1>2. ASSUME NEW i \in DOMAIN results', ~results'[i].short,
             i \in DOMAIN results, results'[i] = results[i]
      PROVE  EndedAt(i)'
  <2>1. PICK d \in ShrinkStands : d.step = "done" /\ d.plan = results[i].plan /\ FromStart(d)
    BY <1>2 DEF AllEnded, EndedAt
  <2>2. ComesTo(failing', passing', FirstStep, d)
    BY <2>1, <1>1, ComesStill DEF FromStart
  <2> QED BY <2>1, <2>2, <1>2 DEF EndedAt, FromStart
<1>3. CASE ~Done
  BY <1>1, <1>2, <1>3 DEF AllEnded
<1>4. CASE Done
  <2>1. results \in Seq([plan : ShrinkPlans, short : BOOLEAN]) /\ shrink \in ShrinkStands
    BY DEF ShrinkSound, ShrinkTyped
  <2>2. results' = Append(results, [plan |-> shrink.plan, short |-> short])
        /\ failing' = failing /\ passing' = passing /\ shrink.step = "done"
    BY <1>4 DEF Done
  <2>3. ASSUME NEW i \in DOMAIN results', ~results'[i].short PROVE EndedAt(i)'
    <3>1. CASE i \in DOMAIN results
      <4>1. results'[i] = results[i]
        BY <2>1, <2>2, <3>1
      <4> QED BY <4>1, <3>1, <2>3, <1>2
    <3>2. CASE i \notin DOMAIN results
      <4>1. i = Len(results) + 1
        BY <2>1, <2>2, <2>3, <3>2
      <4>2. results'[i] = [plan |-> shrink.plan, short |-> short]
        BY <2>1, <2>2, <4>1
      <4>3. FromStart(shrink) /\ results'[i].plan = shrink.plan
        BY <2>3, <4>2 DEF OnItsWay
      <4> QED BY <2>1, <2>2, <4>3 DEF EndedAt, FromStart
    <3> QED BY <3>1, <3>2
  <2> QED BY <2>3 DEF AllEnded
<1> QED BY <1>3, <1>4

(* So those that were not short agree. *)
LEMMA AgreeAtTheEnd ==
  ASSUME ShrinkSound, AllEnded
  PROVE  JobsAgree
<1> SUFFICES ASSUME NEW i \in DOMAIN results, NEW j \in DOMAIN results,
                    ~results[i].short, ~results[j].short
             PROVE  results[i].plan = results[j].plan
  BY DEF JobsAgree
<1>1. PICK d \in ShrinkStands : d.step = "done" /\ d.plan = results[i].plan /\ FromStart(d)
  BY DEF AllEnded, EndedAt
<1>2. PICK e \in ShrinkStands : e.step = "done" /\ e.plan = results[j].plan /\ FromStart(e)
  BY DEF AllEnded, EndedAt
<1>3. failing \cap passing = {}
  BY DEF ShrinkSound, ShrinkTyped
<1>4. d = e
  BY <1>1, <1>2, <1>3, FirstStands, OneEnd DEF FromStart
<1> QED BY <1>1, <1>2, <1>4

(* The result is the same for any number of jobs (shrink.rs 20-22): of two *)
(* shrinks of one failure that were not short, each with its own number of *)
(* jobs, the plans are the same, whatever world answers and in what order. *)
THEOREM JobsAgreeAlways == ShrinkSpec => []JobsAgree
<1> DEFINE Inv == ShrinkSound /\ OnItsWay /\ AllEnded
<1>1. ShrinkInit => Inv
  <2>1. ShrinkInit => OnItsWay /\ AllEnded
    BY DEF ShrinkInit, OnItsWay, AllEnded, FromStart, ComesTo
  <2> QED BY <2>1, ShrinkSoundInit
<1>2. Inv /\ [ShrinkNext]_shrinkVars => Inv'
  BY ShrinkStepTyped, OnlyFaultsStep, SomeNeededStep, OnItsWayStep, AllEndedStep DEF ShrinkSound
<1>3. Inv => JobsAgree
  BY AgreeAtTheEnd
<1> QED BY <1>1, <1>2, <1>3, PTL DEF ShrinkSpec
=============================================================================
