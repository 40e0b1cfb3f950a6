--------------------------- MODULE SpawnRegistry ---------------------------
(***************************************************************************)
(* `spawn` and the task registry: interpreter/mod.rs (the spawn            *)
(* expression), interpreter/spawn_registry.rs and stdlib/task.rs.          *)
(*                                                                         *)
(* A spawned task is an operating-system thread, started before its entry  *)
(* is registered.  Any number of threads may join it, with or without a    *)
(* limit, and declare channels that die with it; the entry goes when the   *)
(* last handle to the task is dropped.  The registry's lock makes each     *)
(* operation on the map one step; what happens between two of them is      *)
(* interleaved.                                                            *)
(***************************************************************************)
EXTENDS FiniteSets

CONSTANTS
  Tasks,
  Users,       \* the threads that hold handles to the tasks
  Watchable,   \* channels
  Drops        \* whether programs drop their last handle to a task

ASSUME DropsAssumption == Drops \in BOOLEAN
ASSUME TasksAssumption == Tasks # {}

VARIABLES
  slot,        \* the entry's slot: "none" when there is no entry
  memo,        \* the result inside a Done slot
  watched,     \* entry.watched
  finished,    \* entry.finished
  thread,      \* how far the task's own thread has got
  outcome,     \* what the task ended with
  closing,     \* channels taken by `finish` and not closed yet
  handle,      \* "none" before the parent registers, "held", or "dropped"
  op,          \* what a user is inside: "none", "join", "timed" or "watch"
  at,
  on,          \* the task it joins or watches
  refused,     \* the channel whose watch was refused, for its caller to close
  shut,        \* channels whose sending side is closed
  early,       \* history: <<task, channel>> watched before the task ended
  late,        \* history: <<task, channel>> watched after the task ended
  took,        \* history: tasks whose `finish` found their entry
  answers      \* history: <<task, outcome>> for every join answered

entries == <<slot, memo, watched, finished>>
taskVars == <<thread, outcome, closing, handle>>
userVars == <<op, at, on, refused>>
history == <<early, late, took, answers>>
spawnVars == <<slot, memo, watched, finished, thread, outcome, closing, handle, op,
               at, on, refused, shut, early, late, took, answers>>

Outcomes == {"ok", "raised"}
NoOutcome == "none"

SpawnInit ==
  /\ slot = [t \in Tasks |-> "none"]
  /\ memo = [t \in Tasks |-> NoOutcome]
  /\ watched = [t \in Tasks |-> {}]
  /\ finished = [t \in Tasks |-> FALSE]
  /\ thread = [t \in Tasks |-> "unborn"]
  /\ outcome = [t \in Tasks |-> NoOutcome]
  /\ closing = [t \in Tasks |-> {}]
  /\ handle = [t \in Tasks |-> "none"]
  /\ op = [u \in Users |-> "none"]
  /\ at = [u \in Users |-> "idle"]
  /\ on = [u \in Users |-> CHOOSE t \in Tasks : TRUE]
  /\ refused = [u \in Users |-> {}]
  /\ shut = {}
  /\ early = {}
  /\ late = {}
  /\ took = {}
  /\ answers = {}

(* An entry written whole: `insert` on the map. *)
Insert(t, s, result, ws, f) ==
  /\ slot' = [slot EXCEPT ![t] = s]
  /\ memo' = [memo EXCEPT ![t] = result]
  /\ watched' = [watched EXCEPT ![t] = ws]
  /\ finished' = [finished EXCEPT ![t] = f]

IsFinished(t) == thread[t] = "exited"     \* JoinHandle::is_finished

-----------------------------------------------------------------------------
(* The task *)

(* The thread is started first and registered by its parent afterwards;    *)
(* the child may run to its end in between.                                *)
Start(t) ==
  /\ thread[t] = "unborn"
  /\ thread' = [thread EXCEPT ![t] = "running"]
  /\ UNCHANGED <<entries, outcome, closing, handle, userVars, shut, history>>

Register(t) ==
  /\ thread[t] # "unborn" /\ handle[t] = "none"
  /\ Insert(t, "running", NoOutcome, {}, FALSE)
  /\ handle' = [handle EXCEPT ![t] = "held"]
  /\ UNCHANGED <<thread, outcome, closing, userVars, shut, history>>

(* The expression returned or raised: `finish` marks the entry and takes   *)
(* its channels under one lock.                                            *)
Finish(t) ==
  /\ thread[t] = "running"
  /\ thread' = [thread EXCEPT ![t] = "closing"]
  /\ \E o \in {"ok", "raised"} : outcome' = [outcome EXCEPT ![t] = o]
  /\ IF slot[t] = "none"
       THEN UNCHANGED <<entries, closing, took>>
       ELSE /\ Insert(t, slot[t], memo[t], {}, TRUE)
            /\ closing' = [closing EXCEPT ![t] = watched[t]]
            /\ took' = took \cup {t}
  /\ UNCHANGED <<handle, userVars, shut, early, late, answers>>

CloseWatched(t, c) ==
  /\ thread[t] = "closing" /\ c \in closing[t]
  /\ closing' = [closing EXCEPT ![t] = @ \ {c}]
  /\ shut' = shut \cup {c}
  /\ UNCHANGED <<entries, thread, outcome, handle, userVars, history>>

Return(t) ==
  /\ thread[t] = "closing" /\ closing[t] = {}
  /\ thread' = [thread EXCEPT ![t] = "exited"]
  /\ UNCHANGED <<entries, outcome, closing, handle, userVars, shut, history>>

(* SpawnGuard::drop, `forget`: the last handle goes and the entry with it. *)
(* A call in progress holds a handle in its arguments.                     *)
Drop(t) ==
  /\ Drops
  /\ handle[t] = "held"
  /\ \A u \in Users : op[u] # "none" => on[u] # t
  /\ handle' = [handle EXCEPT ![t] = "dropped"]
  /\ Insert(t, "none", NoOutcome, {}, FALSE)
  /\ UNCHANGED <<thread, outcome, closing, userVars, shut, history>>

-----------------------------------------------------------------------------
(* Joining *)

(* task.join and task.join_timeout *)
Begin(u, t, operation) ==
  /\ op[u] = "none" /\ handle[t] = "held"
  /\ op' = [op EXCEPT ![u] = operation]
  /\ at' = [at EXCEPT ![u] = "poll"]
  /\ on' = [on EXCEPT ![u] = t]
  /\ UNCHANGED <<entries, taskVars, refused, shut, history>>

Idle(u) ==
  /\ op' = [op EXCEPT ![u] = "none"]
  /\ at' = [at EXCEPT ![u] = "idle"]
  /\ UNCHANGED <<on, refused>>

(* A poll that finds the memoized result: the answer of `join_inner` and   *)
(* of `join_until` alike.                                                  *)
Recall(u) ==
  /\ at[u] = "poll" /\ slot[on[u]] = "done"
  /\ answers' = answers \cup {<<on[u], memo[on[u]]>>}
  /\ Idle(u)
  /\ UNCHANGED <<entries, taskVars, shut, early, late, took>>

(* `join_inner` finds the thread finished: it takes the handle out and     *)
(* leaves Joining, with no watched channels, in its place.                 *)
TakeHandle(u) ==
  /\ op[u] = "join" /\ at[u] = "poll"
  /\ slot[on[u]] = "running" /\ IsFinished(on[u])
  /\ Insert(on[u], "joining", NoOutcome, {}, TRUE)
  /\ at' = [at EXCEPT ![u] = "collect"]
  /\ UNCHANGED <<taskVars, op, on, refused, shut, history>>

(* Mutants: the result is not memoized; a failure is memoized as an ok.    *)
CollectForgets(u) ==
  /\ at[u] = "collect"
  /\ answers' = answers \cup {<<on[u], outcome[on[u]]>>}
  /\ Idle(u)
  /\ UNCHANGED <<entries, taskVars, shut, early, late, took>>

CollectAsOk(u) ==
  /\ at[u] = "collect"
  /\ Insert(on[u], "done", "ok", {}, TRUE)
  /\ answers' = answers \cup {<<on[u], outcome[on[u]]>>}
  /\ Idle(u)
  /\ UNCHANGED <<taskVars, shut, early, late, took>>

(* The handle is joined outside the lock and the result memoized. *)
Collect(u) ==
  /\ at[u] = "collect"
  /\ Insert(on[u], "done", outcome[on[u]], {}, TRUE)
  /\ answers' = answers \cup {<<on[u], outcome[on[u]]>>}
  /\ Idle(u)
  /\ UNCHANGED <<taskVars, shut, early, late, took>>

(* `join_until` sees the thread finished and calls `join`, which has no    *)
(* deadline.                                                               *)
TimedReady(u) ==
  /\ op[u] = "timed" /\ at[u] = "poll"
  /\ slot[on[u]] = "running" /\ IsFinished(on[u])
  /\ op' = [op EXCEPT ![u] = "join"]
  /\ UNCHANGED <<entries, taskVars, at, on, refused, shut, history>>

(* The deadline passes: not ready includes another thread's Joining. *)
TimedOut(u) ==
  /\ op[u] = "timed" /\ at[u] = "poll"
  /\ slot[on[u]] = "running" => ~IsFinished(on[u])
  /\ slot[on[u]] # "done"
  /\ Idle(u)
  /\ UNCHANGED <<entries, taskVars, shut, history>>

-----------------------------------------------------------------------------
(* Watching *)

RecordWatch(t, c) ==
  IF thread[t] = "running"
    THEN early' = early \cup {<<t, c>>} /\ UNCHANGED late
    ELSE late' = late \cup {<<t, c>>} /\ UNCHANGED early

(* Mutant: the channel is entrusted to an entry that has finished. *)
WatchFinished(u, t, c) ==
  /\ op[u] = "none" /\ handle[t] = "held"
  /\ watched' = [watched EXCEPT ![t] = @ \cup {c}]
  /\ RecordWatch(t, c)
  /\ UNCHANGED <<slot, memo, finished, taskVars, userVars, shut, took, answers>>

(* task.watch: the entry takes the channel, unless the task has finished.  *)
Watch(u, t, c) ==
  /\ op[u] = "none" /\ handle[t] = "held" /\ ~finished[t]
  /\ watched' = [watched EXCEPT ![t] = @ \cup {c}]
  /\ RecordWatch(t, c)
  /\ UNCHANGED <<slot, memo, finished, taskVars, userVars, shut, took, answers>>

(* The finished task's entry refuses the channel, and the caller closes it *)
(* after the registry's lock is gone.                                      *)
WatchRefused(u, t, c) ==
  /\ op[u] = "none" /\ handle[t] = "held" /\ finished[t]
  /\ op' = [op EXCEPT ![u] = "watch"]
  /\ at' = [at EXCEPT ![u] = "refused"]
  /\ on' = [on EXCEPT ![u] = t]
  /\ refused' = [refused EXCEPT ![u] = {c}]
  /\ RecordWatch(t, c)
  /\ UNCHANGED <<entries, taskVars, shut, took, answers>>

CloseRefused(u) ==
  /\ at[u] = "refused"
  /\ shut' = shut \cup refused[u]
  /\ refused' = [refused EXCEPT ![u] = {}]
  /\ op' = [op EXCEPT ![u] = "none"]
  /\ at' = [at EXCEPT ![u] = "idle"]
  /\ UNCHANGED <<entries, taskVars, on, history>>

-----------------------------------------------------------------------------
Advance(u) ==
  \/ Recall(u) \/ TakeHandle(u) \/ Collect(u) \/ TimedReady(u) \/ TimedOut(u)
  \/ CloseRefused(u)

TaskStep(t) ==
  \/ Register(t) \/ Finish(t) \/ Return(t)
  \/ \E c \in Watchable : CloseWatched(t, c)

SpawnNext ==
  \/ \E t \in Tasks : Start(t) \/ TaskStep(t) \/ Drop(t)
  \/ \E u \in Users : Advance(u)
  \/ \E u \in Users, t \in Tasks, o \in {"join", "timed"} : Begin(u, t, o)
  \/ \E u \in Users, t \in Tasks, c \in Watchable : Watch(u, t, c) \/ WatchRefused(u, t, c)

SpawnSpec == SpawnInit /\ [][SpawnNext]_spawnVars

(* A joining thread polls every millisecond; a task that has begun to end  *)
(* ends.  Whether a task ever ends is its own affair.                      *)
SpawnFairSpec ==
  /\ SpawnSpec
  /\ \A u \in Users : WF_spawnVars(Advance(u))
  /\ \A t \in Tasks : WF_spawnVars(Return(t) \/ \E c \in Watchable : CloseWatched(t, c))

-----------------------------------------------------------------------------
(* Properties *)

(* Every variable has its type, and a Done slot holds an outcome           *)
(* (TaskSlot, spawn_registry.rs).                                          *)
SpawnTypeOK ==
  /\ slot \in [Tasks -> {"none", "running", "joining", "done"}]
  /\ memo \in [Tasks -> Outcomes \cup {NoOutcome}]
  /\ \A t \in Tasks : slot[t] = "done" => memo[t] \in Outcomes
  /\ watched \in [Tasks -> SUBSET Watchable]
  /\ finished \in [Tasks -> BOOLEAN]
  /\ thread \in [Tasks -> {"unborn", "running", "closing", "exited"}]
  /\ outcome \in [Tasks -> Outcomes \cup {NoOutcome}]
  /\ closing \in [Tasks -> SUBSET Watchable]
  /\ handle \in [Tasks -> {"none", "held", "dropped"}]
  /\ op \in [Users -> {"none", "join", "timed", "watch"}]
  /\ at \in [Users -> {"idle", "poll", "collect", "refused"}]
  /\ on \in [Users -> Tasks]
  /\ refused \in [Users -> SUBSET Watchable]
  /\ shut \subseteq Watchable
  /\ early \subseteq Tasks \X Watchable
  /\ late \subseteq Tasks \X Watchable
  /\ took \subseteq Tasks
  /\ answers \subseteq Tasks \X (Outcomes \cup {NoOutcome})

(* Every join of a task, first or memoized, timed or not, answers what the *)
(* task ended with, and only once it has ended.                            *)
JoinersAgree ==
  \A a \in answers : IsFinished(a[1]) /\ a[2] = outcome[a[1]]

(* The thread handle is consumed by one thread: Joining is in the slot     *)
(* exactly while somebody collects, and nobody else collects meanwhile.    *)
OneCollector ==
  \A t \in Tasks :
    Cardinality({u \in Users : at[u] = "collect" /\ on[u] = t})
      = IF slot[t] = "joining" THEN 1 ELSE 0

(* Channels closed, or refused by an entry and about to be closed.         *)
ClosedBySomebody == shut \cup UNION {refused[u] : u \in Users}

(* Once a task's end has gone through its entry, every channel that was    *)
(* ever declared to die with it is closed or about to be: a watch that     *)
(* comes before, during or after the end is covered.                       *)
WatchHonoured ==
  \A t \in took, c \in Watchable :
    <<t, c>> \in early \cup late => c \in ClosedBySomebody \cup closing[t]

(* task.watch: "a task that already ended closes c at once" (task.rs)      *)
LateWatchCloses ==
  \A a \in late : a[2] \in ClosedBySomebody

(* task.watch: "when t ends, however it ends, c is closed" (stdlib.md), of *)
(* the channels that were declared while the task ran.  The entry of a     *)
(* task whose last handle is dropped goes with the channels in it.         *)
WatchedDies ==
  \A a \in early : IsFinished(a[1]) => a[2] \in ClosedBySomebody

(* A join of a task that has ended returns, and a join with a limit        *)
(* returns whether or not the task ever ends: the unbounded join it may    *)
(* fall into never waits for the task itself.                              *)
JoinReturns ==
  \A u \in Users, t \in Tasks :
    (on[u] = t /\ (op[u] = "timed" \/ (op[u] = "join" /\ IsFinished(t)))) ~> (op[u] = "none")
=============================================================================
