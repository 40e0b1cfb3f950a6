--------------------------- MODULE StallDetector ---------------------------
(***************************************************************************)
(* The stall detector of src/stdlib/chan.rs: the census of threads that    *)
(* run olang code, the set of parked threads, the generation that every    *)
(* change of either bumps, and the sample each parked thread takes once a  *)
(* quarter second, which ends the process when it reads like a deadlock.   *)
(*                                                                         *)
(* The registry and its generation are two separate atomics, and a sample  *)
(* is three separate loads, so each is a step of its own.  The threads are *)
(* the ones that olang programs start: the main thread, `spawn`ed tasks    *)
(* (interpreter/mod.rs) and the workers of `par for` and `par_map`         *)
(* (interpreter/mod.rs, builtin.rs).                                       *)
(*                                                                         *)
(* Time is one action, Elapse: a tick's time passes.  Everything a thread  *)
(* does outside the program's own code takes microseconds, so Elapse waits *)
(* until no such step is pending; a thread that computes may compute       *)
(* through any number of ticks.                                            *)
(***************************************************************************)
EXTENDS Integers, FiniteSets

CONSTANTS
  Threads,
  Main,        \* the interpreter thread of main.rs, whose end ends the process
  Channels,
  Capacity,    \* how many messages a channel holds
  Scopes,      \* the scoped forks the program uses, among "for" and "map"
  MaxWaits     \* bound: how many waits the program begins

ASSUME ThreadsAssumption == IsFiniteSet(Threads) /\ Main \in Threads
ASSUME CapacityAssumption == Capacity \in Nat \ {0}
ASSUME ScopesAssumption == Scopes \subseteq {"for", "map"}
ASSUME MaxWaitsAssumption == MaxWaits \in Nat

VARIABLES
  live,        \* LIVE
  gen,         \* PARK_GEN
  parked,      \* the threads with an entry in PARKED
  pc,
  kind,        \* how the thread was started
  wait,        \* what a thread waits for
  lastGen,     \* last_gen of the wait: the previous sample's generation, -1 for None
  sampleGen,   \* the loads of the sample being taken
  sampleLive,
  due,         \* threads whose wait has lasted a tick
  workers,     \* the scope a forking thread is joining
  queue,       \* messages in each channel
  closed,      \* channels whose sending side is closed
  waits,       \* waits begun so far, for the bound
  process,     \* "running", "exited" or "aborted"
  raced        \* history: the threads whose sample, under way or just decided,
               \* an update of the registry overlapped

registry == <<live, gen, parked>>
samples == <<lastGen, sampleGen, sampleLive>>
program == <<kind, workers, queue, closed, waits>>
vars == <<live, gen, parked, pc, kind, wait, lastGen, sampleGen, sampleLive,
          due, workers, queue, closed, waits, process, raced>>

None == -1
Nothing == [on |-> "nothing"]
Waits ==
  [on : {"recv", "send"}, chan : Channels] \cup [on : {"join"}, task : Threads]

(* A thread is between a registry change and the bump that announces it. *)
Updating == {"counted", "uncounted", "entered", "removed"}
Sampling == {"tick", "loadLive", "decide"}
Waiting == Sampling \cup {"wait"}
Labels == Updating \cup Waiting \cup
  {"unborn", "born", "run", "woken", "scope", "ended", "exited"}

Init ==
  /\ live = 1
  /\ gen = 1
  /\ parked = {}
  /\ pc = [t \in Threads |-> IF t = Main THEN "run" ELSE "unborn"]
  /\ kind = [t \in Threads |-> IF t = Main THEN "main" ELSE "none"]
  /\ wait = [t \in Threads |-> Nothing]
  /\ lastGen = [t \in Threads |-> None]
  /\ sampleGen = [t \in Threads |-> None]
  /\ sampleLive = [t \in Threads |-> 0]
  /\ due = {}
  /\ workers = [t \in Threads |-> {}]
  /\ queue = [c \in Channels |-> 0]
  /\ closed = {}
  /\ waits = 0
  /\ process = "running"
  /\ raced = {}

(* par_map's workers take no LiveGuard (builtin.rs, parallel_apply). *)
InCensus(t) == kind[t] # "map"

Satisfied(t) ==
  /\ wait[t].on = "recv" => queue[wait[t].chan] > 0 \/ wait[t].chan \in closed
  /\ wait[t].on = "send" => queue[wait[t].chan] < Capacity
  /\ wait[t].on = "join" => pc[wait[t].task] = "exited"

Goto(t, label) == pc' = [pc EXCEPT ![t] = label]

(* The samples under way see the registry change under them. *)
UpdateRegistry == raced' = raced \cup {t \in Threads : pc[t] \in Sampling}

-----------------------------------------------------------------------------
(* The census *)

Spawn(t, u) ==
  /\ pc[t] = "run" /\ pc[u] = "unborn"
  /\ Goto(u, "born")
  /\ kind' = [kind EXCEPT ![u] = "spawn"]
  /\ UNCHANGED <<registry, wait, samples, due, workers, queue, closed, waits,
                 process, raced>>

(* `par for` and `par_map`: the caller blocks until every worker is joined, *)
(* counted live and without a park entry.                                  *)
Fork(t, scope, us) ==
  /\ pc[t] = "run" /\ us # {}
  /\ \A u \in us : pc[u] = "unborn"
  /\ pc' = [u \in Threads |->
              IF u \in us THEN "born" ELSE IF u = t THEN "scope" ELSE pc[u]]
  /\ kind' = [u \in Threads |-> IF u \in us THEN scope ELSE kind[u]]
  /\ workers' = [workers EXCEPT ![t] = us]
  /\ UNCHANGED <<registry, wait, samples, due, queue, closed, waits, process,
                 raced>>

ScopeJoined(t) == \A u \in workers[t] : pc[u] = "exited"

Join(t) ==
  /\ pc[t] = "scope" /\ ScopeJoined(t)
  /\ Goto(t, "run")
  /\ workers' = [workers EXCEPT ![t] = {}]
  /\ UNCHANGED <<registry, kind, wait, samples, due, queue, closed, waits,
                 process, raced>>

(* live_guard, taken inside the new thread. *)
EnterCensus(t) ==
  /\ pc[t] = "born"
  /\ IF InCensus(t)
       THEN live' = live + 1 /\ Goto(t, "counted") /\ UpdateRegistry
       ELSE Goto(t, "run") /\ UNCHANGED <<live, raced>>
  /\ UNCHANGED <<gen, parked, wait, samples, due, program, process>>

(* Mutant: the guard's drop does not bump the generation.                  *)
LeaveCensusSilent(t) ==
  /\ pc[t] = "run" /\ t # Main
  /\ IF InCensus(t)
       THEN live' = live - 1 /\ Goto(t, "ended") /\ UpdateRegistry
       ELSE Goto(t, "exited") /\ UNCHANGED <<live, raced>>
  /\ UNCHANGED <<gen, parked, wait, samples, due, program, process>>

(* LiveGuard::drop. *)
LeaveCensus(t) ==
  /\ pc[t] = "run" /\ t # Main
  /\ IF InCensus(t)
       THEN live' = live - 1 /\ Goto(t, "uncounted") /\ UpdateRegistry
       ELSE Goto(t, "exited") /\ UNCHANGED <<live, raced>>
  /\ UNCHANGED <<gen, parked, wait, samples, due, program, process>>

(* The guard is gone; only now can the thread be seen finished. *)
Exit(t) ==
  /\ pc[t] = "ended"
  /\ Goto(t, "exited")
  /\ UNCHANGED <<registry, wait, samples, due, program, process, raced>>

ExitProcess ==
  /\ pc[Main] = "run"
  /\ process' = "exited"
  /\ UNCHANGED <<registry, pc, wait, samples, due, program, raced>>

-----------------------------------------------------------------------------
(* The program *)

(* A send that finds room. *)
Send(t, c) ==
  /\ pc[t] = "run"
  /\ c \notin closed /\ queue[c] < Capacity
  /\ queue' = [queue EXCEPT ![c] = @ + 1]
  /\ UNCHANGED <<registry, pc, kind, wait, samples, due, workers, closed,
                 waits, process, raced>>

Close(t, c) ==
  /\ pc[t] = "run"
  /\ closed' = closed \cup {c}
  /\ UNCHANGED <<registry, pc, kind, wait, samples, due, workers, queue, waits,
                 process, raced>>

(* park: chan.recv and task.join park at once, chan.send on a full channel. *)
MayWait(w) ==
  /\ w.on = "send" => w.chan \notin closed /\ queue[w.chan] = Capacity
  /\ w.on = "join" => kind[w.task] = "spawn"

Park(t, w) ==
  /\ pc[t] = "run" /\ MayWait(w)
  /\ waits < MaxWaits
  /\ waits' = waits + 1
  /\ wait' = [wait EXCEPT ![t] = w]
  /\ parked' = parked \cup {t}
  /\ Goto(t, "entered")
  /\ UpdateRegistry
  /\ UNCHANGED <<live, gen, kind, samples, due, workers, queue, closed, process>>

(* The wait is over: the message or the room is taken, the join read.  A   *)
(* receive on a closed and drained channel takes nothing.                  *)
Wake(t) ==
  /\ pc[t] = "wait" /\ Satisfied(t)
  /\ Goto(t, "woken")
  /\ due' = due \ {t}
  /\ lastGen' = [lastGen EXCEPT ![t] = None]
  /\ queue' =
       IF wait[t].on = "recv" /\ queue[wait[t].chan] > 0
       THEN [queue EXCEPT ![wait[t].chan] = @ - 1]
       ELSE IF wait[t].on = "send" THEN [queue EXCEPT ![wait[t].chan] = @ + 1]
       ELSE queue
  /\ UNCHANGED <<registry, kind, wait, sampleGen, sampleLive, workers, closed,
                 waits, process, raced>>

Unpark(t) ==
  /\ pc[t] = "woken"
  /\ parked' = parked \ {t}
  /\ Goto(t, "removed")
  /\ wait' = [wait EXCEPT ![t] = Nothing]
  /\ UpdateRegistry
  /\ UNCHANGED <<live, gen, samples, due, program, process>>

(* The second half of live_guard, LiveGuard::drop, park and unpark. *)
Bump(t) ==
  /\ pc[t] \in Updating
  /\ gen' = gen + 1
  /\ Goto(t, IF pc[t] = "entered" THEN "wait"
             ELSE IF pc[t] = "uncounted" THEN "ended" ELSE "run")
  /\ UpdateRegistry
  /\ UNCHANGED <<live, parked, wait, samples, due, program, process>>

-----------------------------------------------------------------------------
(* The sample: stall_tick *)

(* The bounded poll inside the wait found nothing, and a tick has passed.  *)
(* A thread outside the census returns at once.                            *)
TimeOut(t) ==
  /\ pc[t] = "wait" /\ t \in due /\ ~Satisfied(t)
  /\ due' = due \ {t}
  /\ IF InCensus(t) THEN Goto(t, "tick") ELSE UNCHANGED pc
  /\ raced' = IF \E u \in Threads : pc[u] \in Updating
                THEN raced \cup {t} ELSE raced \ {t}
  /\ UNCHANGED <<registry, wait, samples, program, process>>

LoadGeneration(t) ==
  /\ pc[t] = "tick"
  /\ sampleGen' = [sampleGen EXCEPT ![t] = gen]
  /\ Goto(t, "loadLive")
  /\ UNCHANGED <<registry, wait, lastGen, sampleLive, due, program, process,
                 raced>>

LoadLive(t) ==
  /\ pc[t] = "loadLive"
  /\ sampleLive' = [sampleLive EXCEPT ![t] = live]
  /\ Goto(t, "decide")
  /\ UNCHANGED <<registry, wait, lastGen, sampleGen, due, program, process,
                 raced>>

Stable(t) == lastGen[t] = sampleGen[t]

(* Mutant: the sample's generation is not kept for the next one. *)
DecideForgets(t) ==
  /\ pc[t] = "decide"
  /\ IF Stable(t) /\ sampleLive[t] > 0 /\ Cardinality(parked) = sampleLive[t]
       THEN process' = "aborted" /\ raced' = raced \cap {t}
       ELSE process' = process /\ raced' = raced \ {t}
  /\ Goto(t, "wait")
  /\ sampleGen' = [sampleGen EXCEPT ![t] = None]
  /\ sampleLive' = [sampleLive EXCEPT ![t] = 0]
  /\ UNCHANGED <<registry, wait, lastGen, due, program>>

Decide(t) ==
  /\ pc[t] = "decide"
  /\ IF Stable(t) /\ sampleLive[t] > 0 /\ Cardinality(parked) = sampleLive[t]
       THEN process' = "aborted" /\ raced' = raced \cap {t}
       ELSE process' = process /\ raced' = raced \ {t}
  /\ Goto(t, "wait")
  /\ lastGen' = [lastGen EXCEPT ![t] = sampleGen[t]]
  /\ sampleGen' = [sampleGen EXCEPT ![t] = None]
  /\ sampleLive' = [sampleLive EXCEPT ![t] = 0]
  /\ UNCHANGED <<registry, wait, due, program>>

(* A thread's next step outside the program's code is microseconds away. *)
Urgent(t) ==
  \/ pc[t] \in Updating \cup Sampling \cup {"born", "woken", "ended"}
  \/ pc[t] = "wait" /\ (Satisfied(t) \/ t \in due)
  \/ pc[t] = "scope" /\ ScopeJoined(t)

Elapse ==
  /\ \A t \in Threads : ~Urgent(t)
  /\ due' = {t \in Threads : pc[t] = "wait"}
  /\ due' # due
  /\ UNCHANGED <<registry, pc, wait, samples, program, process, raced>>

-----------------------------------------------------------------------------
RuntimeStep(t) ==
  \/ EnterCensus(t) \/ Exit(t) \/ Join(t)
  \/ Wake(t) \/ Unpark(t) \/ Bump(t)
  \/ TimeOut(t) \/ LoadGeneration(t) \/ LoadLive(t) \/ Decide(t)

ProgramStep(t) ==
  \/ \E u \in Threads : Spawn(t, u)
  \/ \E s \in Scopes, us \in SUBSET Threads : Fork(t, s, us)
  \/ LeaveCensus(t)
  \/ \E c \in Channels : Send(t, c) \/ Close(t, c)
  \/ \E w \in Waits : Park(t, w)

Next ==
  /\ process = "running"
  /\ \/ \E t \in Threads : RuntimeStep(t) \/ ProgramStep(t)
     \/ ExitProcess
     \/ Elapse

Spec == Init /\ [][Next]_vars

(* Time passes and the operating system runs every thread that has a step  *)
(* of the runtime to take.  The program itself owes nothing.               *)
FairSpec ==
  /\ Spec
  /\ WF_vars(process = "running" /\ Elapse)
  /\ \A t \in Threads : WF_vars(process = "running" /\ RuntimeStep(t))

-----------------------------------------------------------------------------
(* Properties *)

(* Every variable has its type; a channel never holds fewer than none or   *)
(* more than its capacity (the waits of chan_recv and chan_send).          *)
TypeOK ==
  /\ live \in Int
  /\ gen \in Nat
  /\ parked \subseteq Threads
  /\ pc \in [Threads -> Labels]
  /\ kind \in [Threads -> {"none", "main", "spawn", "for", "map"}]
  /\ wait \in [Threads -> Waits \cup {Nothing}]
  /\ lastGen \in [Threads -> Nat \cup {None}]
  /\ sampleGen \in [Threads -> Nat \cup {None}]
  /\ sampleLive \in [Threads -> Int]
  /\ due \subseteq Threads
  /\ workers \in [Threads -> SUBSET Threads]
  /\ queue \in [Channels -> 0..Capacity]
  /\ closed \subseteq Channels
  /\ waits \in 0..MaxWaits
  /\ process \in {"running", "exited", "aborted"}
  /\ raced \subseteq Threads

(* The census counts exactly the threads that hold a LiveGuard. *)
Outside == {"unborn", "born", "uncounted", "ended", "exited"}
Guarded == {t \in Threads : InCensus(t) /\ pc[t] \notin Outside}
CensusExact == live = Cardinality(Guarded)

(* A thread that only the step of another thread could let go on. *)
Stuck(t) ==
  \/ pc[t] \in Waiting /\ ~Satisfied(t)
  \/ pc[t] = "scope" /\ ~ScopeJoined(t)

(* Nothing inside the program can move any more. *)
Deadlock ==
  \A t \in Threads : pc[t] \in {"unborn", "exited"} \/ Stuck(t)

(* "A proven deadlock": the process is aborted only when no thread of it   *)
(* could go on.                                                            *)
AbortIsDeadlock == process = "aborted" => Deadlock

(* The same, for a sample that no change of the registry overlapped: it    *)
(* says nothing of the others, which may abort a process that runs         *)
(* (AbortIsDeadlock, MCStallRace.cfg).                                     *)
UnracedAbortIsDeadlock ==
  process = "aborted" /\ raced = {} => Deadlock

(* A deadlock does not hang the program: "a chan.recv that no live thread  *)
(* can ever satisfy does not hang the program" (docs/stdlib.md), as long   *)
(* as no thread waits for the workers of a fork.                           *)
DeadlockIsReported ==
  (process = "running" /\ Deadlock /\ \A t \in Threads : pc[t] # "scope")
    ~> (process = "aborted")
=============================================================================
