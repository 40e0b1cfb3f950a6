# olang in TLA+

olang is a programming language implemented in Rust: a tree-walking
interpreter, a bytecode machine with native code above it, a standard library
with real threads, channels, an HTTP server and a database module, a REPL that
editors talk to, a package manager, and a simulator that runs a whole program
of several nodes on a virtual clock, network and disk. These modules specify the
parts of it where several threads, nodes or messages meet: the places where the
tests of the repository run one schedule and the program runs all of them.

Every definition is translated from the Rust source; `PROJECT.json` names the
lines each one stands for. Documentation is only quoted. Where the code does
something else the model follows the code, and the section on differences says so.

## The system

### Modelled parts

| Part | Code (under `src/src`) | State | Operations |
|---|---|---|---|
| Channels | `stdlib/chan.rs` | a crossbeam queue, the slot with the sending end, three advisory counters | `new`, `bounded`, `send`, `ask`, `recv`, `recv_timeout`, `try_recv`, `close`, `stat` |
| Stall detector | `stdlib/chan.rs` 110-300, `interpreter/mod.rs`, `builtin.rs` | `LIVE`, `PARKED`, `PARK_GEN` | `live_guard` and its drop, `park`, `unpark`, `stall_tick` |
| Task registry | `interpreter/spawn_registry.rs`, `stdlib/task.rs` | one entry per task: slot, watched channels, finished flag | `register`, `finish`, `join`, `join_until`, `watch`, `forget` |
| Interrupts and call budgets | `interrupt.rs`, `call_budget` in `stdlib/runtime.rs` | the flag and its target; the stack of budgets, a generation, the generation tripped | `request`, `clear`, `pending`, `budget_begin`, `budget_end`, the watchdog |
| HTTP server | `stdlib/http.rs` | `SHUTDOWN`, the queue, `DEFERRED`, `HELD` | `serve`, `shutdown`, `defer`, `hold`, `respond`, `notify`, `notify_all` |
| REPL server | `repl_serve.rs`, `output.rs` | the queue of requests, `running`, the collected output and its tap | reader, session, `eval`, commands, `reload`, `render`, `set`, interrupts |
| Simulation scheduler and worlds | `sim/sched.rs`, `sim/mod.rs`, `sim/node.rs`, `sim/life.rs` | the baton, tasks and what they wait for, the clock and its timers, nodes | yield, sleep, spawn, join, crash, kill, stop, exit, restart, the looks at the properties, the ends of a run |
| Simulation network | `sim/wire.rs`, `sim/net.rs`, `sim/http.rs` | what is in flight, mailboxes, listeners, parked and held requests | send, deliver, lose, duplicate, partition, serve, answer, defer, hold, shut down |
| Simulation disk | `sim/disk.rs`, `sim/files.rs`, `sim/vfs.rs` | inodes with their durable bytes and pending writes, two namespaces | the `fs` calls, SQLite's file calls, `sync`, crash, kill |
| Simulation checkers | `sim/lin.rs`, `sim/shrink.rs` | the search's stack and memo; the shrinker's plan and candidates | the linearizability search; delta debugging with parallel jobs |
| Database connections | `stdlib/db.rs`, `db_transaction` in `builtin.rs` | the connection's lock, its cursors and orphans, the control, the slot of the transactions | statements, cursors, `interrupt`, `transaction`, `close` |

How they meet. A parked `chan.recv`, `chan.send` or `task.join` is what the
stall detector counts, and the threads it counts are the ones the task registry
starts; a task's end closes channels through the registry's watch list. A
deferred HTTP connection is typically completed by a spawned task, with a
channel between the two. Call budgets and the editor's interrupts share one
flag and stop whatever evaluation a thread is in, inside any of the other parts.
In a simulated world the same `http`, `task`, `time` and `fs` calls are answered by the
simulator: its scheduler decides who runs, its network carries requests, its disk
keeps files and SQLite's pages, and its checkers judge what was recorded. Threads
of a served program share database connections.

The modules keep these apart and take from the neighbour only what the code
takes: `StallDetector` reduces a channel to how full it is, `SpawnRegistry` to
open or closed; `SimWire` has one task run at a time, as `SimWorld` shows, and takes from it the
order of a turn, a delivery and the clock; `ReplServe` leaves the flag's target to
`CallBudget`; `SimDisk` takes crashes and kills from `SimWorld` as events.

What is hard in each, and what makes it correct:

* **Channels.** An operation is several steps. A send that cloned the sending end
  before a close may still queue after it; the depth is counted after the
  queue moved; the waiting counter goes in a step of its own on three
  ways out of a loop; a parked sender retries with the value it got back.
  Correct: nothing lost or doubled; "channel is closed" is said only
  when nothing can follow; the counters add up at every step; every wait on a closed channel ends.
* **Stall detector.** A sample is three separate loads, an update two
  separate stores. Correct: the process is aborted only when it is deadlocked,
  and every deadlock is reported.
* **Task registry.** The child may end before its entry is there; several threads
  may find the same finished task; a handle may be dropped and a watch may
  arrive at any moment of the end. Correct: all joiners get the one outcome
  and come back, no watched channel stays open.
* **Call budgets.** Flag and target are read and written one after another
  without the lock; budgets nest; a deadline passes while the call returns; code compiled
  before the first budget, or in a builtin that waits, does not poll at all.
  Correct: a call past its deadline is stopped where it polls, and the code after it runs on.
* **HTTP server.** A ticket leaks to other threads before its connection is parked; a
  shutdown comes at any moment; handlers may never return. Correct: a
  connection has one owner until it is closed, each request is answered once, a
  drain leaves nothing behind, and `serve` returns.
* **REPL server.** The reader answers from a flag the session sets and clears; the
  session's stages run between the reader's two steps; threads of earlier
  evaluations print into whatever is collected; what runs may wait where nobody looks at the flag.
  Correct: what is interrupted was already sent, output goes with its own evaluation, every request is answered.
* **Worlds.** A wake is a hint; nodes stop and come back while their tasks run, wait,
  spawn and end; the clock may not pass an instant nobody looked at. Correct: a
  node is its tasks, no wake is lost, the coordinator waits for exactly what
  comes back, every world ends with every task unwound.
* **Network.** Messages are lost, doubled, cut and late; a shutdown meets a
  queue; a process ends under its tickets. Correct: no waiter is left behind, a request is always
  somewhere, and every request ends.
* **Disk.** A crash keeps any part of the writes that wait; names move between two
  namespaces; files are unlinked while open. Correct: every name reaches its file, bytes
  and pending writes add up, what a sync said is kept.
* **Checkers.** A memo prunes a search; a budget cuts a batch. Correct: verdicts
  are right, shrinks are minimal and the same for any number of jobs.
* **Database connections.** Statements are stopped from outside their lock, a cursor's
  drop may not wait for the lock, one transaction's failure is another
  thread's surprise, a BEGIN by hand takes no turn. Correct: transactions keep their word and take
  turns, no sleeper is left beside a free slot, dropped cursors are finished before the next statement.

## The modules

| Module | What it is |
|---|---|
| `Mailbox` | what a channel promises: a queue with one closing end, no threads |
| `Chan` | one channel with all its threads; implements `Mailbox` |
| `StallDetector` | census, parked set, generation and samples, under threads that spawn, fork, send, wait and close |
| `SpawnRegistry` | tasks, their entries, and the threads that join, watch and drop them |
| `CallBudget` | flag, target, watchdog, budgets, polling threads and the editor |
| `HttpServe` | accept loop, workers, connections, the two deferral tables, shutdown |
| `ReplServe` | reader, session and its stages, flags, collected and streamed output |
| `SimWorld` | baton, clock, tasks, nodes, coordinator |
| `SimWire` | clients, servers, links and what is in flight |
| `SimDisk` | one node's disk under its program and SQLite |
| `SimLin` | histories, their parse and the linearizability search |
| `SimShrink` | the shrinker with several numbers of jobs |
| `DbConn` | one database connection and the threads that share it |
| `*Proofs` | the theorems about the module named; `TaskProofs` is of `StallDetector` and `SpawnRegistry`, `SimProofs` of `SimWorld`, `SimDisk` and `SimShrink`, `SimWireLinProofs` of `SimWire` and `SimLin` |
| `MC*` | the instances for TLC |

### Chan

`pc` and `op` say where a thread is in which operation; one action is what happens
between two points where another thread can come in.

| Code | Actions |
|---|---|
| `chan_send` (550-636) | `SendStart` clones the sender, `Push` or `Rendezvous` is a `try_send` that succeeds, `ParkSender`, `CountSendWaiting`, `CountSent`, then `Unpark`, `UncountSendWaiting` when it had parked |
| `chan_recv` (704-732) | `RecvStart` parks, `CountRecvWaiting`, `Take` and `CountTaken` or `ReportClosed`, `Unpark`, `UncountRecvWaiting` |
| `chan_ask` (643-700) | `AskStart`, then the same without the counter: the wait on the fresh reply channel |
| `chan_recv_timeout` (789-813) | `TimedStart`, then `Take`, `ReportClosed` or `TimedOut`; not parked |
| `chan_try_recv` (771-787) | `TryTake`, `TryReportClosed` |
| `chan_close`, `close_value`, `ChannelSender::close` | `Close` |
| crossbeam's disconnect | `Disconnected`: the slot is empty and no send in progress holds a clone |

The capacity is chosen at the start among `Capacities`: zero is a
rendezvous, where a `try_send` succeeds only against a receiver inside its
timed wait. Every message is sent at most once so that messages can be told
apart. `Chan` implements `Mailbox`: the queue is `buf`, the admitted messages are those of
the senders that were let in and still try, and the close is reported when the
first receiver has been told. The order of the queue is crossbeam's, and assumed (`buf` is a sequence); `Fifo` says no more than that
and is only a step of the refinement's proof.

### StallDetector

Each update of the census or the parked set is two actions (the store, then `Bump` of
the generation), and each sample four (`TimeOut`, `LoadGeneration`, `LoadLive`,
`Decide`, which reads the parked set and compares). Time is one action, `Elapse`: a tick's worth passes for every thread
that waits, and only when no thread stands between two instructions of the
runtime, because those take microseconds and a tick takes a quarter of a second.
Threads that run the program's own code may do so for any number of ticks.
Workers of a `par for` are in the census, those of a parallel map are not (`Scopes`
says which of the two a program forks). The end of the main thread ends the process (`main.rs`).

### SpawnRegistry

`Start` and `Register` are apart, as in the code: the thread runs before its entry
exists. `Finish` takes the watched channels, `CloseWatched` closes them one by one
outside the lock. A join is `Recall` (the entry holds a result), `TakeHandle`
and `Collect` (mark, join the thread outside the lock, store the result), for
`join_until` with `TimedReady` and `TimedOut` before. `Watch` is a watch the entry takes; one that a finished task's entry refuses is
`WatchRefused` under the lock, and `CloseRefused`, by its caller, after it. `Drop` is the last handle going; a call in progress holds one in its arguments.
A task thread that unwinds cannot be reached in the binary: its panic hook ends the process
first (`stdio.rs` 147-190, `Cargo.toml` 401-404), so the branch for it
(`spawn_registry.rs` 241) is not modelled.

### CallBudget

`pending` is `PollFlag` then `PollTarget`; the watchdog's trip is `WatchdogAim` then
`WatchdogRaise`; `budget_end` is `BudgetEnd` and, when it forgets a trip,
`ForgetTarget`; `request` and `clear` are two actions each. `lock` says who is inside the
mutex between two of its stores; polls, `request` and `clear` do not take it. A
thread that is stopped unwinds to the innermost `call_budget`. `Expire` is a deadline
passing. `Callers` are the threads that call `call_budget`, and `Main` the one that runs the editor's evaluations; the others only poll. A thread that is
`blind` (`StopPolling`, `PollAgain`) is in native code that was compiled before the first budget, or in a builtin that waits (`chan.recv`, `os.exec`), where
nothing looks at the flag. `outdated` is a history: the threads that began a budget while the trip of one around it stood.
A program that catches an interrupt by itself is not modelled.

### HttpServe

A request is its number on its connection, and a ticket is that pair. `Start` binds and
starts the pool, `ClearShutdown` stores false and enters the loop, `CheckShutdown` and
`Accept` are one round of it, `Return` and `Cut` the two ends of the drain. A worker
goes `TakeConn`, `NextRequest`, `ReadRequest` (where keep-alive is decided), then
`Answer`, or `Defer`/`Hold` and `Park`. `Respond`, `Notify` and `AnswerHeld` come from any
thread at any time, with any ticket ever issued. `overlooked` is a history: the tickets a notify came to while their handler still ran. What a client sends, and whether a
write reaches it, is a free choice.

### ReplServe

The reader is `Read`, then `Interrupt` or `AnswerAtOnce`, or `StdinCloses`: it looks at
`running` in one step and stores the flag in the next. `Take` hands a request to the
session, whose way through it is a sequence of named stages, listed per kind of request in
`Stages` in the order of the code (declare, clear, open, mark, run, unmark, look, forget,
close, reply); each is one action. `Refuse` is the early return where a snippet does not parse, a file cannot be read, or a view or a control is not there
(`Refusable` lists the stages). `Stopped` and `RunEnds` are the two ways
a run ends; in between it may go into a builtin that waits (`RunWaits`, `RunGoesOn`), where nothing looks at the flag. Output is tokens by their evaluation and by who printed them: `WriteStdout`,
`TaskPrints` and `TaskTaps` of a thread that outlives its evaluation, `Tick` for the stream, `Open`,
`Close` and `Drop` for what is collected. The requests of `Long` may print more than the 512 KB that are held of a stream, or of the head and tail of a reply: any
part of what they print arrives, and `full` says that some did not. Bodies of evaluations, values and handles are not modelled.

### SimWorld

`phase` says who has the baton: the running task (`run`), the scheduler (`pick`), the main task as the run
ends (`drain`), nobody (`over`). What a task does up to its next yield point is one action: nobody else
runs. `Schedule` is the scheduler's bookkeeping for one action: the tasks that end, wake and begin.

| Code | Actions |
|---|---|
| `Sched::next`, `World::pick` | `Picked`, `StepLimit`, `PropertyCheck`, `Advance`, `PastDeadline`, `Deadlock` |
| yield points, `time.sleep`, `task.join`, `spawn` | `YieldPoint`, `Sleep`, `Join`, `Spawn` |
| `task_exit`, `node_task_exit`, `stopped` | `Return`, `Unwind`, and `TaskExit` they share |
| `os.exit`, `crash`, `kill`, `maybe_crash`, `stop`, `on_shutdown` | `OsExit`, `Halt`, `MaybeCrash`, `Stop`, `OnShutdown` |
| `restart`, `restart_later` | `Restart`, `RestartWaits`, `RestartNow` |
| `coordinate`, `main_exit` | `CoordinatorWaits`, `CoordinatorReturns`, `Drain` |

The seed's draws are choices. `unseen` is a history variable: a task ran since the properties were last
looked at. A program that catches its stop and goes on is not modelled (difference 17 below).

### SimWire

Built on the same turns (`NothingDue`: a message that has arrived goes first, then a task). `Send` puts
a request in flight with what `Fates` the link may give it (carried, lost, doubled); `DeliverNowhere`,
`DeliverRefused` (nothing listens, the body is too large, the queue is full), `DeliverRequest` and `DeliverAnswer` are the branches of `deliver`; `TakeAnswer` and `GiveUp`
end the client's wait; `Serve`, `NextRequest`, `Wait`, `Answer`, `Hold`, `Park`, `EndWork` and `ServeReturns` are
the server's workers and its main task; `Respond`, `Notify` and `Shutdown` come from a task of the server's node.
`Notify` answers its topic's tickets one after another in one turn, each with a fate of its own, as `Respond` would.
`Partition`, `CrashServer` and `CrashClient` are faults, counted with those of the links by `MaxFaults`; `Heal`, `ProgramEnds` and `RestartServer`
are what else may happen to links and nodes.
Times are kept as what is left of them, so that the state space is finite.

### SimDisk

One action per `fs` call or SQLite file call, and `Crash` and `Kill`. A file is its bytes, its durable bytes and
the writes between, in sectors; the namespaces are functions from paths to entries. A crash keeps a
prefix of each file's waiting writes and, with `Torn`, part of the next (`Outcomes`). `promised` is a history of
what a sync that was not a lie has said is durable, dropped when the program itself changes the name.
`MkDirAll` and `RmDirAll` cover `mkdir` and `rmdir`, whose effects are theirs on fewer paths.
Calls that fail change nothing and are no steps. SQLite's locks are not modelled.

### SimLin and SimShrink

`SimLin` first records a history (`Invoke`, `Complete`: external, in the shape `lin.rs` 10-19 gives), then runs `Check`,
`NextKey` and the search (`Place`, `Skip`, `AtReturn`, `Backtrack`, ...), one action per branch of the loop. `IsLinearizable` is the
reference: an order of all completed operations and any of the indeterminate ones that respects
real time and that the whole map explains. An operation is its invocation's place in the history (its call), and the linked list of the
search is the times that are left, in order. The register model is the single-key case of the map; numbers are integers without a bound,
and an answer is a number or nothing, `cas`'s yes or no (an `ok` without a value is the one its invocation's value reads as); malformed histories, floats and models of the user's are not modelled, nor
that the memo keeps hashes of what is placed and of the state instead of these (`bits_key`, `state_key`). `SimShrink` knows of the world only which plans were
found to fail and to pass (any consistent world), and shrinks the same failure once with each number of jobs: `Tries` is what each
step proposes in order, `Keep`, `PassBatch`, `PassLast` and `CutShort` how a batch of it ends, `MovedOn` the next node, fault or step.
The last replacement of the plan by what really fired, with its three runs, is left out.

### DbConn

A thread asks (`Execute`, `OpenCursor`, `UseCursor`, ...), gets the lock with what it finalizes and arms (`Lock`,
or `FindsClosed`), runs its statement in one step (`WriteRuns`, `ReadRuns`, `NextRuns`, `CursorOpens`, `Fails`, or `IsStopped` by an
interrupt or a deadline), and words the error after the lock is gone (`Words`). `Drop`, `Push`, `Retry` are the three steps of a
cursor's last handle; `Close`, `Forget`, `CloseConn` those of `db.close`; `Enter`, `Acquire`, `Sleep`, `Begin`, `EndBody`, `Commit`,
`Rollback`, `Leave` those of `db.transaction`, with the condition variable's sleepers explicit: `Leave` wakes one,
and a newcomer may overtake it. `BeginByHand`, `CommitByHand` and `RollbackByHand` are `db.begin`, `db.commit` and `db.rollback`, or their SQL through
`db.execute`: statements like others, which take no slot, from any thread and also within a `db.transaction`. SQLite is external: one open transaction, its writes, those saved.

## What is checked

Twelve runs, one for each question; all pass.

| Run | Checks | Instance |
|---|---|---|
| `chan` | `StatsAccounted`, `ClosedWaitsEnd`, `MailboxSpec` | three threads, two messages, capacities 0, 1 and unbounded |
| `stall` | `UnracedAbortIsDeadlock`, `DeadlockIsReported` | three threads, a channel of one, `par for`, two waits each |
| `spawn` | `JoinersAgree`, `WatchHonoured`, `JoinReturns` | two tasks, two users, one channel, handles dropped at will |
| `budget` | `OverMeansOverdue`, `CallersStopForACause`, `OverdueCallEnds` | two threads, one of them a caller; three budgets up to three deep, one interrupt |
| `http` | `OneOwner`, `AnsweredOnce`, `DrainIsComplete`, `OnlyEarlyNotifyLoses`, `ShutdownEndsServe` | two workers, a queue of one, two connections of two requests, one topic, one notifier |
| `repl` | `InterruptStopsWhatWasSent`, `OutputIsItsEvaluations`, `RequestsAreAnswered`, `InterruptEndsIt` | three lines of any kind, the second of which may print more than is held; one thread that outlives its evaluation |
| `sim_world` | `NodeIsItsTasks`, `NoLostWake`, `PendingComesBack`, `InstantsAreSeen`, `WorldEnds` | a program node and a client node, four tasks besides the coordinator, with and without a deadline of two ticks |
| `sim_wire` | `NoWaitIsLost`, `RequestsKeepTheirPlace`, `EveryRequestEnds` | two clients, one server, one worker, a queue of one, two requests, two calls of `serve`, one fault |
| `sim_disk` | `NamesReachInodes`, `PendingIsTheRest`, `SyncedIsKept` | two directories, their files and one of SQLite's, three inodes, six calls, two stops, torn writes, a disk that fills |
| `sim_lin` | `VerdictIsRight` | every history of up to three operations of two processes on two keys, completed, failed or left open, within 12 steps |
| `sim_shrink` | `OneMinimal`, `JobsAgree` | six faults, one optional node, one restart delay, four schedules; one, two and three jobs; 26 runs |
| `db` | `AllOrNothing`, `TransactionsTakeTurns`, `SleepersAreWoken`, `DroppedIsFinished`, `EveryTurnComes` | two threads, one cursor, four calls, by hand too, transactions two deep |

Each property states in its comment what it is about. The type invariants are not in these runs: they are proved (below).
Of `DbConn`'s the proofs need and show only a part, `Shape`; the whole holds on the same instance.

### Bounds, and why they suffice

* `chan`: two producers and a consumer, or one producer and two consumers, are the
  races there are on one queue; a third thread then closes. Two messages show
  order and duplication. Capacity one makes full and empty adjacent.
* `stall`: two threads suffice for the races of one sampler and one updater; the third is the
  bystander who could still resolve the deadlock. `MCStallDeep.cfg`, which is not in the list because it asks
  the same question, lets every thread wait four times, so that one can wait again with an old sample behind it; it passes.
* `spawn`: two joiners race for one handle; two tasks keep the entries apart.
* `budget`: three deep is an outer, a middle and an inner budget, so that a generation
  moves in both directions under a standing trip; three budgets are also two nested and one after them. The second thread is the bystander that only polls;
  what goes wrong for it is among the differences (7), and what goes wrong with a second caller too (6).
* `http`: two workers can hold both connections while a third party completes
  tickets; a queue of one can be full; a second request makes a ticket of the first stale.
* `repl`: three lines are an evaluation, an interrupt and the request after it, which are the three that can
  be taken for each other. One of them prints too much, so that the two requests beside it show that it loses only its own output.
* `sim_world`: one node that stops and comes back and one that stops it are the actors of every
  interleaving of a stop; four tasks are its main task, one it spawned, the client and a restart. Two ticks are one instant before
  and one after something; `Poll` and delays are one.
* `sim_wire`: two requests compete for a queue of one and for one worker; one fault at any place; a
  second `serve` meets what the first left.
* `sim_disk`: two directories and a file in each are a rename across directories and its sync; three waiting writes
  are one kept, one torn, one lost.
* `sim_lin`: three operations on two processes are a completed pair with one open or overlapping; two keys
  show the split by key, and the second key's `add` may answer no number. Twelve steps let some searches be cut and others not.
* `sim_shrink`: six faults give granularities 2, 4 and 6 with unequal chunks; 26 runs cut some shrinks and not others.
* `db`: a thread in a transaction and one beside it are the two sides of every interleaving; four calls are a
  transaction, a statement in it, one beside it, and a close, an interrupted statement, a statement by hand or an inner transaction. Three threads with
  three calls pass too, without a change in `MCDb.cfg` but the two constants.

Bounds written into the modules are marked `bound` where they are declared: `MaxWaits`, `MaxBudgets`, `MaxDepth`,
`MaxRequests`, `MaxTasks`, `MaxServes`, `MaxFaults`, `MaxInodes`, `MaxPending`, `MaxSteps` and `MaxStops` of the disk, `MaxInvokes`, `MaxCalls`,
and the sets `Delays`, `Afters`. `QueueCap`, `Capacity`, `FullAt`, `Budget`, `Deadline`, `Timeout` and `MaxSteps` of `SimLin` are options
of the program itself. The runs but `chan` do not check for deadlock: there a program may come to its end.

### Fairness

Weak fairness, of exactly what is scheduled whatever the program does, and strong fairness where it is named:

* `Chan`: a thread inside an operation goes on (each wait polls every millisecond). Starting
  operations is up to the program.
* `StallDetector`: time passes, and each thread's runtime steps happen. The program owes
  nothing: it may compute for ever.
* `SpawnRegistry`: a joiner polls on; a task that has begun to end ends. No task has to end.
* `CallBudget`: the watchdog wakes, deadlines pass, and a thread that is again and again in code that polls comes to a poll there (every
  tier polls at calls and loop ends; strong fairness of `Obey`). A call may run for ever, and nothing brings a `blind` thread back: `OverdueCallEnds` is of
  the others.
* `HttpServe`: the accept loops and the workers' own steps, and the drain deadline. Handlers
  may hang and clients may never send.
* `ReplServe`: the reader answers what it read, and the session goes on. What is evaluated may run for ever, a file's declarations too
  (`RequestsAreAnswered` then promises nothing), and no line has to come. A run that is again and again out of the builtins that wait comes to a poll
  (strong fairness of `Stopped`); nothing makes a builtin come back, and `InterruptEndsIt` is of the runs that do not stay in one.
* `SimWorld`: the thread with the baton runs on, and the step limit is reached by a run that is picked for
  for ever (strong fairness of `StepLimit`, which is a finite count in the code, `sched.rs` 344).
* `SimWire`: the baton moves on.
* `DbConn`: what a call does by itself goes on. A program may stay in a transaction's function for ever, and SQLite in a
  statement; `EveryTurnComes` is of the runs in which neither happens, and in which `db.transaction` is not called for ever: the slot's condition
  variable gives no turns (`db.rs` 384-430), so newcomers that never cease may overtake a woken sleeper every time (difference 32). The
  bound on calls makes that premise true of every run of the instance; what does not depend on it is `SleepersAreWoken`, which is proved.
* `SimDisk`, `SimLin`, `SimShrink`: safety only.

### What TLC refutes

These configurations are kept beside the runs; TLC violates what each checks, and the statement
is the documentation's or a comment's. Each is described with its lines among the differences.

| Configuration | Property | Difference |
|---|---|---|
| `MCStallRace` | `AbortIsDeadlock` | 1 |
| `MCStallParMap` | `UnracedAbortIsDeadlock` | 2 |
| `MCSpawnLate` | `LateWatchCloses`, `WatchedDies` (with `tlc -continue`, both) | 4, 5 |
| `MCBudgetPop` | `OwnBudgets`, `OthersPollPast` (with `tlc -continue`, both) | 6, 7 |
| `MCHttpStart` | `ShutdownIsHeard` | 10 |
| `MCHttpNotify` | `NotifyAnswersHeld` | 11 |
| `MCSimRestart` | `RestartIsAsked` | 14 |
| `MCSimShutdown` | `QueuedIsTaken` | 18 |
| `MCSimMixed` | `SyncedIsKept` | 21 |
| `MCSimJobs` | `JobsAgreeCut` | 23 |
| `MCReplStale` | `DeclarationsAreHeard` | 24 |
| `MCDbSaid` | `ReasonIsItsOwn`, `FreeMeansFinished`, `EndIsTheEnd`, `EndsItsOwn` (with `tlc -continue`, all four) | 28-31 |

## What is proved

With TLAPS, for every value of the constants: any number of threads, messages, tasks, channels,
connections, nodes, requests and files. Assumptions are the named ones of the modules: sets of threads and nodes are finite,
capacities and bounds are natural numbers, the model values that stand for nobody are nobody, first tasks are given
out in order. Six theorems have a premise of their own, named where they are stated: one calling thread (four), no parallel maps, `OneKind`. `LinearizabilityIsLocal` is
of a recorded history and the operations `parse` makes of it, which `CheckStands` shows every search to be given.

* `ChanProofs`. `CloseReportIsFinal`: once a receiver was told, the channel is drained and no admitted sender is left.
  `StatsAlwaysAccounted`: every step moves one thread between the six sets the counters count, and `Entered` and
  `Placed` say where a thread with a park entry can be; the proof is of the cardinalities. `ImplementsMailbox` is the
  refinement, step by step: a push is the mailbox's accept only because no other sender carries the same
  message (`OwnMessages`).
* `TaskProofs`. `CensusIsExact`: `LIVE` is the number of threads in the census and the registry is the waits
  announced. `AbortIsProven` (`UnracedAbortIsDeadlock`) assumes a program without parallel maps (`"map" \notin Scopes`): a
  sample no update overlapped saw every thread of the census parked on an unsatisfied wait, and `DeadlockStays` shows none can
  go on afterwards. The strengthening relates each of the sample's four steps to the generation it loaded.
  Of the task registry, `EveryJoinerAgrees` rests on `MemoIsOutcome`: a result kept in an entry is the
  outcome of a thread that has exited, which no later step changes. `WatchesAreHonoured` rests on
  `WatchesKept` (where a watched channel is, from the watch to the close, the caller of a refused watch included), `CollectedOnce` on `EntryIsHeld` and the number of collectors a slot says.
* `CallBudgetProofs`. With one thread that calls, which is the editor's, and any number that poll (a premise of the theorems; with two callers the first is false):
  `StackIsTheNesting`, `OverIsOverdue`, `StopsHaveACause` (of the caller: a bystander is stopped without one, difference 7), `InnermostIsStopped`, from one invariant, `Watched`, that ties the stack to the
  thread's nesting and the flag, its target and the tripped generation to each other at every step of the watchdog, of the end of a budget and of the editor.
* `HttpServeProofs`. `Custody` says for each connection in which one of backlog, queue, hand, table or answering thread it is, and which
  tickets are spent; `OneOwnerAlways` and `AnsweredOnceAlways` follow from it, `DrainIsCompleteAlways` with `Exits` (who
  has left a draining server) and `OnlyEarlyNotifyLosesAlways` with `Reach` (a parked, held ticket is under its topic or with a notifier, unless a notify came to it while its handler ran).
* `ReplServeProofs`. `InterruptStopsWhatWasSentAlways` from `Cause` (who raised the flag that stands, and what was read by then),
  `OutputIsItsEvaluationsAlways` from `Output` (where an evaluation's own prints are, stage by stage).
* `SimProofs`, worlds. One invariant, `Sound`: the types, ids and bodies of tasks, who has the baton, what blocked
  tasks wait for, and `NodeIsItsTasks`, `NoLostWake` and `PendingComesBack` together, because a wake is kept by what a stop tells and a stop
  by what a restart waits for. `InstantsAreSeenAlways` needs only `Looks`: a baton given up asks for a look.
* `SimProofs`, disks. `NamesReachInodesAlways`, from `Shape`: an inode is forgotten only when neither namespace nor a handle that can
  sync reaches it. `PendingIsTheRestAlways`: the replay of the waiting writes is a fold, and what it does to one more write at the end is
  shown from the least count of writes it would fail for. `SyncedIsKeptAlways` needs `Stands`: both namespaces are trees, of files and
  directories told apart by name, and what was promised is durable with every directory above it. `OneKind`, its premise, is that no name
  is both a file's and a directory's: `sim_disk`'s instance satisfies it, and without it TLC refutes the property (`MCSimMixed`, difference 21).
* `SimProofs`, the shrinker. `OneMinimalAlways` from `ShrinkSound`: what a trial runs is what its step tries, of the faults' step each of
  its answers is known, and at the finest cut the chunks are the single faults. `JobsAgreeAlways` takes what the world is found to answer
  in the end, shows every shrink to be on the way of one deterministic machine that asks it (`ComesTo`), whatever its batches, and that two that
  are done are at one place (`OneEnd`).
* `SimWireLinProofs`, the network. One invariant, `WireSound`: the types; `WorkersStand`, `ServersStand` and `AskersStand` (a worker at work has a
  request, a listener is a running process's and its workers have not ended, a pending request is its client's); `BoxesAreSent`;
  with `NoWaitIsLost`, `NoneVanishes` and `TicketsAreTheProcess`, each of which a step of another's keeps: a delivery to a listener finds a
  worker because its server stands, and an answer that comes late is to a request that is settled because its client stands.
* `SimWireLinProofs`, the checker. `VerdictIsAlwaysRight` in three parts. (a) `TheHistoryIsReadRight`: what `parse` makes of the history is what the
  history says (`ReadSoFar`, entry by entry). (b) The search of a key, `SearchStands`: the stack is a way to what is placed (`Path`); at each level no operation that
  waits has returned before the entry, and none called before it can be placed next (`LevelsStand`); what the memo cuts off leads nowhere, unless
  it is what the search is below (`MemoIsHopeless`). `Hopeful` says what "leads somewhere" means: the rest of the key's completed operations have an order
  that keeps real time and that `Kv::step` takes. A search that ends has a way from the start (`StackIsAWay`), one stopped at a return with an empty stack
  has none (`StuckIsHopeless`). (c) `LinearizabilityIsLocal`: the keys have a way each exactly when the whole history has one order.
  From the ways to the order, an operation goes where the last invocation stands of its key's operations up to it, which keeps every way and real time
  between the keys; back, an indeterminate `cas` that does not swap is left out of the way of its key.
  The inductions are over least counterexamples among the naturals, since the library's induction theorems cannot be cited.
* `DbConnProofs`. `TransactionsAlwaysTakeTurns` from `Turns`: transactions nest in their thread (`Nested`), a slot's count is the frames its
  owner has in it (`Counted`), and a statement that runs holds the connection (`Locked`). The open transaction may be anybody's, begun by hand as well; what is
  shown is that it is not the frame of another thread while one begins, because two threads have frames only in two slots, and a second slot is made only
  while a `db.close` is under way (`Forgotten`). `SleepersAreAlwaysWoken` is proved with them: who lets go of a slot wakes a sleeper, and who overtakes it has the slot.
  `TransactionsAreAllOrNothing` adds `Numbered` and `Kept`: no write has two transactions, and what an open one wrote is in it. `DroppedIsAlwaysFinished` from
  `Finalized`: a cursor without a handle is in the list of those to finalize, or its last thread is about to put it there.

Left to TLC: all liveness (`ClosedWaitsEnd`, `DeadlockIsReported`, `JoinReturns`, `OverdueCallEnds`, `ShutdownEndsServe`, `RequestsAreAnswered`,
  `InterruptEndsIt`, `WorldEnds`, `EveryRequestEnds`, `EveryTurnComes`): fairness and ENABLED are out of the prover's reach.

Every safety property a run checks is stated by a theorem.

## Where the code differs from what is said of it

All are followed by the models as the code has them. Those with a configuration above were found or confirmed by TLC.

Channels, tasks, budgets:

1. `LiveGuard::drop` lowers `LIVE` before it bumps `PARK_GEN` (`chan.rs` 189): a sample between the two aborts a program whose join is about to return, against
   `chan.rs` 134 ("a proven deadlock") and `docs/stdlib.md` 1519 ("A program that can still make progress is never interrupted").
2. The workers of a parallel map run olang code with no guard (`builtin.rs` 2085), against `chan.rs` 115-117; the count every sample compares with is then wrong.
3. A deadlock under a `par for` is never reported: its caller blocks in the scope's join counted live and not parked
   (`interpreter/mod.rs` 5638), while `docs/stdlib.md` 1505 says such a program does not hang. `DeadlockIsReported` is of the others.
4. A task that ends before its entry is registered (`interpreter/mod.rs` 2568) is never finished, and a later watch on it (`task.rs` 203) never closes its channel.
5. `forget` drops the watched channels of a task that still runs (`spawn_registry.rs` 145), against `docs/stdlib.md` 1387 (`WatchedDies`).
6. The budgets of all threads are one stack: the first to end pops another's (`interrupt.rs` 171, against 165). The budget theorems are of one calling thread.
7. `pending` reads the flag and then the target, and `budget_end` resets both: a thread that only polls, and reads the first before and the second after, takes the trip of
   the one caller for its own and stops (`interrupt.rs` 85-92 and 174-177, against 27-29: `OthersPollPast`). `CallersStopForACause` is of the callers.
8. A trip whose generation a nested `budget_begin` has moved on is not forgotten by `budget_end`, and stops the code after the call (`interrupt.rs` 170, against 165-166): the exception of `CallersStopForACause`.
   Code that was compiled before the first budget has no polls, and a builtin that waits has none: a call runs past its deadline there (`interrupt.rs` 12-16 says the first, `docs/roadmap.md` 123 the second).
   The watchdog looks at the innermost budget only, so an outer call past its deadline runs on while an inner one has time (131, against `docs/packages.md` 1011).
9. An editor's interrupt is retargeted by a trip, or cleared with it (`interrupt.rs` 174, against 20-21).

HTTP server:

10. A start clears a shutdown it never saw (`http.rs` 1532, against 127 and 1607).
11. A notify between `http.hold` and the handler's return drops the connection from its topic (`http.rs` 1214; `docs/stdlib.md` 3258): the exception of `OnlyEarlyNotifyLoses`.
12. A response rendered after a drain began may say keep-alive, and a kept-alive connection whose worker was already reading is read once more
    (`http.rs` 1327 and 1312, against `docs/stdlib.md` 3326).
13. `http.respond` before the handler has returned its ticket is refused, and the connection then parks with nobody to answer it (`http.rs` 1271, against `docs/stdlib.md` 2274-2278);
    `http.held` counts tickets answered another way (1244, against 1236); a deferred connection whose client left stays in the table (1282).

Simulator:

14. The task of an old `restart_after`, overtaken by an explicit restart, still waits and brings back a node that was since stopped for good (`node.rs` 618, against 580-581).
    The delay counts from the call, not from when the node is down.
15. A message in flight to a node that stopped reaches the process restarted there, against `node.rs` 26-27 ("dropped on arrival").
16. The step limit ends a run without a last look at the properties.
17. A task that catches its stop and loops keeps the baton, and its world hangs (`mod.rs` 927). The model's programs let the stop through.
18. A shutdown's program may return first and drop its queue with its node, against `wire.rs` 616-617 ("what is queued is still answered").
19. A request to a node that is down is dropped silently (`wire.rs` 288-298), against 59-62 and 107 ("refused").
20. With a duplicated request a client may see "refused" though a copy was handled, and a duplicate that is deferred overwrites the first (`park`). A listener's control mailbox is never removed.
21. A directory that is moved, or a file that takes a directory's old name, loses what was synced under it when the parent is synced (`disk.rs` 596-604, `files.rs` 299). In `sim_disk` no
    name is both a file's and a directory's (`OneKind`); in `MCSimMixed` one is. After a rename and a sync of the target only, a crash leaves both names; a crash can leave more than `full_at`.
22. The frozen disk between a crash and its boot is abstracted: the stop and the disk's crash are one step.
23. When the budget runs out the shrink depends on the number of jobs (`shrink.rs` 192 and 205, against 20-22).

REPL server:

24. A flag left by an interrupt that came late, or for a reload or a render, stops the declarations of a later request, which are loaded before the flag is cleared
    (`repl_serve.rs` 1894 and 1965, against `interrupt.rs` 74 and `tests/repl_serve_test.rs` 429).
25. An interrupt answered `running: true` by a reload between 2685 and 2686 is lost; `InterruptEndsIt` is of the other kinds. One told `running: true` while the evaluation is in
    a builtin that waits (`chan.recv`, `chan.rs` 717-726) ends nothing until the builtin returns, against `docs/tooling.md` 1078. An interrupt accepted for one evaluation can stop the next one already sent;
    an evaluation that fails by itself as an interrupt arrives is reported as interrupted.
26. What a background task prints between evaluations is thrown away by the next `take_collected` (1966) or streamed with another evaluation, against
    `repl_serve.rs` 56-58 and `docs/tooling.md` 1017. `OutputIsItsEvaluations` is of what evaluations print themselves.
27. `set` (1220) evaluates without marking or clearing: it cannot be interrupted, and a stale flag fails it (`InterruptStopsWhatWasSent` excludes it).

Database connections:

28. The reason a statement was stopped is read after its lock is gone (`db.rs` 613-614), from a flag the next statement clears or sets: "timed out" and "interrupted" change places, against 42-44.
29. A dropped cursor can linger on a free connection until its next use: the holder lets go and takes the lock again between the two `try_lock`s of `release` (`db.rs` 208 and 222,
    against `docs/stdlib.md` 3481-3482).
30. A COMMIT that SQLite refuses is not rolled back (`builtin.rs` 4562-4565): the transaction stays open after `db.transaction`, against `docs/stdlib.md` 3382.
31. A write of another task that is stopped inside the open transaction takes it with it (SQLite rolls it back), and what the transaction's function writes next is saved by itself.
32. `db.close` removes the slot (`db.rs` 1625) before the connection's entry (1629): a `db.transaction` between the two makes a second slot, and its BEGIN can meet the first's, against
    `docs/stdlib.md` 3382 ("a second `db.transaction` waits for the first to end"); `TransactionsTakeTurns` excepts the time a close is under way. A slot made after the close stays in the map. Plain statements of other threads
    join the open transaction, as the comment at 362-370 says, and a `db.begin` of another thread (316) makes a `db.transaction` fail. The slot gives no turns: a sleeper may be overtaken again and again.
33. The ROLLBACK of a transaction finds no connection after a `db.close`, and a COMMIT of another thread that has waited for the connection since before the close takes what
    it wrote: the transaction answered an error and is saved. TLC refutes `ClosedSavesNothing` with three threads, no cursor, five calls and transactions one deep.

## Not modelled

Of the modelled parts: what a wait on a channel does in a simulated world; the browser's variants of channels; the environment switch that turns the stall abort into a warning; panics; request parsing, response
rendering and the blocking HTTP client; the other functions of `runtime.rs`; scopes, handles, notebooks and record/replay of the REPL server; plan files, properties' own evaluation, traces and
the command line of the simulator; of `db.rs` the last handle of a connection closing it, `migrate`, frames (`insert_frame` has its own
transaction, which it leaves open when its COMMIT fails), simulated worlds' databases, and SQLite's own locking.

Whole components, with their files and reasons in `PROJECT.json`:

* Interpreter, parser and static analysis, bytecode tiers and native code, capabilities, data stack, formatting and conversion libraries: sequential code whose
  state space is that of the programs and data it is given. They are most of the lines of the repository, and a model of a part of them
  would be a copy of it: their correctness is of values, not of orders of events.
* GUI, terminal interfaces, editors, playground, developer tools, packaging: presentation, batch programs and foreign event loops.
* Package manager, parse and compile caches, processes, pseudo-terminals and file watching, the timeline: what can go wrong in
  them is mostly between them and the file system, git or the operating system, of which the code says little. They are the plan.

## Plan

1. `PkgResolver`: the resolver's choice against its definition, the lockfile's agreement; the caches (`parse_cache`, `compile_cache`, `pkg/cache`) have one
   shape: a temporary file renamed into place by several processes.
2. `Proc`: the readers' end of file against the child's exit; `FsWatch`: the coalescing watcher.
3. A composition of `SpawnRegistry`, `Chan` and `StallDetector`: the detector's census derived from the real tasks.
