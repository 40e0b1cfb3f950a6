------------------------------- MODULE DbConn -------------------------------
(***************************************************************************)
(* One connection of the db module (src/stdlib/db.rs) and the threads that *)
(* share it: statements that take turns under the connection's lock and    *)
(* are stopped from outside it, cursors whose statements the connection    *)
(* owns and whose last handle may go at any moment, db.transaction with    *)
(* its slot (and src/builtin.rs, db_transaction), and db.close.            *)
(*                                                                         *)
(* SQLite is external: the transaction it has open, the writes in it and   *)
(* those saved.  A write it stops within a transaction rolls all of it     *)
(* back; a COMMIT it refuses (another connection reads) leaves it open.    *)
(* Transactions are numbered as they begin, to say whose the open one is:  *)
(* a db.transaction's, or one begun by hand, which takes no slot.          *)
(***************************************************************************)
EXTENDS Naturals, Sequences, SequencesExt, FiniteSets, TLC

CONSTANTS
  Threads, Cursors,
  MaxCalls,              \* bound: calls the programs make
  MaxDepth               \* bound: transactions within transactions

ASSUME BoundsAssumption == MaxCalls \in Nat \ {0} /\ MaxDepth \in Nat
ASSUME NobodyAssumption == "nobody" \notin Threads

Nobody == "nobody"
NoCursor == "none"
Slots == 1..MaxCalls                   \* transaction slots ever made

VARIABLES
  known,                 \* the registry has the connection
  slot, made,            \* tx_locks: its slot, 0 for none; slots made so far
  owner,                 \* TxLock.owner of each: the thread and its depth
  holder,                \* who holds ConnEntry.state, for the length of a statement
  open,                  \* ConnState.conn
  cursor,                \* ConnState.cursors: what is left of each statement
  orphans,
  cancel, timedOut,      \* Control
  begun, written, saved, \* SQLite: the open transaction (0: none), its writes, those saved
  handle,                \* the olang value of each cursor
  thread,                \* what each does, and the db.transaction calls it is in
  calls, begins,         \* bound: calls so far; transactions begun
  ended                  \* history: the transactions that came to their end

registryVars == <<known, slot, made, owner>>
stateVars == <<holder, open, cursor, orphans>>
controlVars == <<cancel, timedOut>>
sqliteVars == <<begun, written, saved>>
boundVars == <<calls, begins, ended>>
vars == <<registryVars, stateVars, controlVars, sqliteVars, handle, thread, boundVars>>

NoOwner == [thread |-> Nobody, depth |-> 0]
Free == [at |-> "free", call |-> "none", number |-> 0, cursor |-> NoCursor,
         limit |-> FALSE, why |-> "none"]

Init ==
  /\ known = TRUE /\ slot = 0 /\ made = 0 /\ owner = [s \in Slots |-> NoOwner]
  /\ holder = Nobody /\ open = TRUE /\ cursor = <<>> /\ orphans = {}
  /\ cancel = FALSE /\ timedOut = FALSE
  /\ begun = 0 /\ written = {} /\ saved = {}
  /\ handle = [c \in Cursors |-> "none"]
  /\ thread = [t \in Threads |-> [does |-> Free, frames |-> <<>>]]
  /\ calls = 0 /\ begins = 0 /\ ended = {}

-----------------------------------------------------------------------------
(* What a thread does, and the transaction its program is in. *)

Does(t) == thread[t].does
At(t, at) == Does(t).at = at
Runs(t, call) == At(t, "runs") /\ Does(t).call = call
Waits(t, callset) == At(t, "waits") /\ Does(t).call \in callset /\ holder = Nobody

Goes(t, at) == thread' = [thread EXCEPT ![t].does.at = at]
Returns(t) == thread' = [thread EXCEPT ![t].does = Free]
Asks(t, call, c, limit) ==
  thread' = [thread EXCEPT ![t].does =
    [at |-> "waits", call |-> call, number |-> IF call = "write" THEN calls' ELSE 0,
     cursor |-> c, limit |-> limit, why |-> "none"]]

Frames(t) == thread[t].frames
Frame(t) == Last(Frames(t))
ReturnsWith(t, frame) ==
  thread' = [thread EXCEPT ![t] = [does |-> Free, frames |-> Append(Front(@.frames), frame)]]
InBody(t) == At(t, "free") /\ Frames(t) # <<>>

(* The program makes one more call. *)
Calls(t) == At(t, "free") /\ calls < MaxCalls /\ calls' = calls + 1

(* db.begin, db.commit and db.rollback, or their SQL through db.execute,   *)
(* from any thread, inside a db.transaction or beside it.                  *)
ByHand == {"hand_begin", "hand_commit", "hand_rollback"}

Execute(t, call, limit) ==
  /\ call \in {"read", "write"} \cup ByHand /\ known /\ (call \in ByHand => ~limit)
  /\ Calls(t) /\ Asks(t, call, NoCursor, limit)
  /\ UNCHANGED <<registryVars, stateVars, controlVars, sqliteVars, handle, begins, ended>>

OpenCursor(t, c) ==
  /\ known /\ handle[c] = "none" /\ handle' = [handle EXCEPT ![c] = "opening"]
  /\ Calls(t) /\ Asks(t, "cursor", c, FALSE)
  /\ UNCHANGED <<registryVars, stateVars, controlVars, sqliteVars, begins, ended>>

(* A cursor keeps its connection, closed or not. *)
UseCursor(t, call, c, limit) ==
  /\ call \in {"next", "close_cursor"} /\ handle[c] = "held"
  /\ Calls(t) /\ Asks(t, call, c, limit)
  /\ UNCHANGED <<registryVars, stateVars, controlVars, sqliteVars, handle, begins, ended>>

-----------------------------------------------------------------------------
(* A statement: the lock, which finalizes what was dropped meanwhile, and  *)
(* the control armed; the run; the answer, worded after the lock is gone.  *)

InTransaction == {"begin", "commit", "rollback"}
Statements == {"read", "write", "cursor", "next"} \cup InTransaction \cup ByHand

(* Mutant: the lock does not finalize what was dropped meanwhile. *)
ReapedNothing == cursor

Reaped == [c \in DOMAIN cursor \ orphans |-> cursor[c]]
Without(c, cursors) == [d \in DOMAIN cursors \ {c} |-> cursors[d]]

(* What db.transaction makes of its last frame once its end is known. *)
EndsFrame(t, said) ==
  ended' = ended \cup {[id |-> Frame(t).id, wrote |-> Frame(t).wrote, said |-> said,
                        own |-> begun = Frame(t).id]}

Lock(t) ==
  /\ Waits(t, Statements) /\ open
  /\ holder' = t /\ orphans' = {} /\ cursor' = Reaped
  /\ cancel' = FALSE /\ timedOut' = FALSE
  /\ Goes(t, "runs")
  /\ UNCHANGED <<registryVars, open, sqliteVars, handle, boundVars>>

(* The lock shows that the connection was closed meanwhile. *)
FindsClosed(t) ==
  /\ Waits(t, Statements) /\ ~open
  /\ orphans' = {} /\ cursor' = Reaped
  /\ handle' = IF Does(t).call = "cursor" THEN [handle EXCEPT ![Does(t).cursor] = "gone"]
               ELSE handle
  /\ IF Does(t).call \in InTransaction THEN Goes(t, "leaves") ELSE Returns(t)
  /\ IF Does(t).call \in {"commit", "rollback"} THEN EndsFrame(t, "closed") ELSE ended' = ended
  /\ UNCHANGED <<registryVars, holder, open, controlVars, sqliteVars, calls, begins>>

Unlocks(t) ==
  holder' = Nobody /\ UNCHANGED <<registryVars, open, orphans, cancel, calls>>

WriteRuns(t) ==
  /\ Runs(t, "write") /\ Unlocks(t)
  /\ IF begun # 0 THEN written' = written \cup {Does(t).number} /\ saved' = saved
     ELSE saved' = saved \cup {Does(t).number} /\ written' = written
  /\ IF Frames(t) = <<>> THEN Returns(t)
     ELSE ReturnsWith(t, [Frame(t) EXCEPT !.wrote = @ \cup {Does(t).number}])
  /\ UNCHANGED <<cursor, timedOut, begun, handle, begins, ended>>

ReadRuns(t) ==
  /\ Runs(t, "read") /\ Unlocks(t) /\ Returns(t)
  /\ UNCHANGED <<cursor, timedOut, sqliteVars, handle, begins, ended>>

(* An error of its own: the statement did nothing. *)
Fails(t) ==
  /\ At(t, "runs") /\ Does(t).call \in {"read", "write", "cursor"} /\ Unlocks(t) /\ Returns(t)
  /\ handle' = IF Does(t).call = "cursor" THEN [handle EXCEPT ![Does(t).cursor] = "gone"]
               ELSE handle
  /\ UNCHANGED <<cursor, timedOut, sqliteVars, begins, ended>>

CursorOpens(t) ==
  /\ Runs(t, "cursor") /\ Unlocks(t) /\ Returns(t)
  /\ cursor' = [c \in DOMAIN cursor \cup {Does(t).cursor} |->
                  IF c = Does(t).cursor THEN "open" ELSE cursor[c]]
  /\ handle' = [handle EXCEPT ![Does(t).cursor] = "held"]
  /\ UNCHANGED <<timedOut, sqliteVars, begins, ended>>

(* More rows, or the last, or a closed cursor, a finished or failed one. *)
NextRuns(t) ==
  /\ Runs(t, "next") /\ Unlocks(t) /\ Returns(t)
  /\ \/ cursor' = cursor
     \/ /\ Does(t).cursor \in DOMAIN cursor
        /\ cursor' = [cursor EXCEPT ![Does(t).cursor] = "over"]
  /\ UNCHANGED <<timedOut, sqliteVars, handle, begins, ended>>

BeginByHand(t) ==
  /\ Runs(t, "hand_begin") /\ Unlocks(t) /\ Returns(t)
  /\ IF begun = 0 THEN begun' = begins + 1 /\ begins' = begins + 1
     ELSE UNCHANGED <<begun, begins>>
  /\ UNCHANGED <<cursor, timedOut, written, saved, handle, ended>>

CommitByHand(t, refused) ==
  /\ Runs(t, "hand_commit") /\ Unlocks(t) /\ Returns(t)
  /\ IF refused \/ begun = 0 THEN UNCHANGED sqliteVars
     ELSE begun' = 0 /\ saved' = saved \cup written /\ written' = {}
  /\ UNCHANGED <<cursor, timedOut, handle, begins, ended>>

RollbackByHand(t) ==
  /\ Runs(t, "hand_rollback") /\ Unlocks(t) /\ Returns(t)
  /\ begun' = 0 /\ written' = {}
  /\ UNCHANGED <<cursor, timedOut, saved, handle, begins, ended>>

(* The progress handler stops it.  BEGIN, COMMIT, ROLLBACK and preparing a *)
(* cursor are too short for one.  db.next words its error under the lock.  *)
IsStopped(t, why) ==
  /\ At(t, "runs") /\ Does(t).call \in {"read", "write", "next"}
  /\ Does(t).call = "next" =>
       Does(t).cursor \in DOMAIN cursor /\ cursor[Does(t).cursor] = "open"
  /\ \/ why = "interrupt" /\ cancel /\ timedOut' = timedOut
     \/ why = "deadline" /\ ~cancel /\ Does(t).limit /\ timedOut' = TRUE
  /\ Unlocks(t)
  /\ IF Does(t).call = "write" /\ begun # 0 THEN begun' = 0 /\ written' = {}
     ELSE UNCHANGED <<begun, written>>
  /\ IF Does(t).call = "next"
     THEN cursor' = [cursor EXCEPT ![Does(t).cursor] = "over"] /\ Returns(t)
     ELSE cursor' = cursor /\ thread' = [thread EXCEPT ![t].does = [@ EXCEPT !.at = "words", !.why = why]]
  /\ UNCHANGED <<saved, handle, begins, ended>>

Words(t) ==
  /\ At(t, "words") /\ Returns(t)
  /\ UNCHANGED <<registryVars, stateVars, controlVars, sqliteVars, handle, boundVars>>

(* db.interrupt takes no lock. *)
Interrupt(t) ==
  /\ At(t, "free") /\ (known \/ \E c \in Cursors : handle[c] = "held")
  /\ cancel' = TRUE
  /\ UNCHANGED <<registryVars, stateVars, timedOut, sqliteVars, handle, thread, boundVars>>

-----------------------------------------------------------------------------
(* Cursors closed, and dropped: a drop never waits for a statement. *)

CloseCursor(t) ==
  /\ Waits(t, {"close_cursor"})
  /\ orphans' = {} /\ cursor' = Without(Does(t).cursor, Reaped)
  /\ Returns(t)
  /\ UNCHANGED <<registryVars, holder, open, controlVars, sqliteVars, handle, boundVars>>

Drop(t, c) ==
  /\ At(t, "free") /\ handle[c] = "held"
  /\ \A u \in Threads : Does(u).cursor # c
  /\ IF holder = Nobody
     THEN /\ cursor' = Without(c, cursor) /\ handle' = [handle EXCEPT ![c] = "gone"]
          /\ thread' = thread
     ELSE /\ thread' = [thread EXCEPT ![t].does = [@ EXCEPT !.at = "pushes", !.cursor = c]]
          /\ handle' = [handle EXCEPT ![c] = "dropping"] /\ cursor' = cursor
  /\ UNCHANGED <<registryVars, holder, open, orphans, controlVars, sqliteVars, boundVars>>

Push(t) ==
  /\ At(t, "pushes") /\ orphans' = orphans \cup {Does(t).cursor} /\ Goes(t, "retries")
  /\ UNCHANGED <<registryVars, holder, open, cursor, controlVars, sqliteVars, handle, boundVars>>

Retry(t) ==
  /\ At(t, "retries")
  /\ IF holder = Nobody THEN orphans' = {} /\ cursor' = Reaped
     ELSE UNCHANGED <<orphans, cursor>>
  /\ handle' = [handle EXCEPT ![Does(t).cursor] = "gone"] /\ Returns(t)
  /\ UNCHANGED <<registryVars, holder, open, controlVars, sqliteVars, boundVars>>

-----------------------------------------------------------------------------
(* db.close: the slot goes, then the registry's entry, then the connection *)
(* once no statement runs, its cursors first.                              *)

Close(t) ==
  /\ Calls(t) /\ slot' = 0 /\ Goes(t, "forgets")
  /\ UNCHANGED <<known, made, owner, stateVars, controlVars, sqliteVars, handle, begins, ended>>

Forget(t) ==
  /\ At(t, "forgets") /\ known' = FALSE
  /\ IF known THEN thread' = [thread EXCEPT ![t].does = [@ EXCEPT !.at = "waits", !.call = "close"]]
     ELSE Returns(t)
  /\ UNCHANGED <<slot, made, owner, stateVars, controlVars, sqliteVars, handle, boundVars>>

CloseConn(t) ==
  /\ Waits(t, {"close"})
  /\ orphans' = {} /\ cursor' = <<>> /\ open' = FALSE
  /\ begun' = 0 /\ written' = {}
  /\ Returns(t)
  /\ UNCHANGED <<registryVars, holder, controlVars, saved, handle, boundVars>>

-----------------------------------------------------------------------------
(* db.transaction: its slot, BEGIN, the program's function, COMMIT or      *)
(* ROLLBACK, and the slot let go whichever way it ends.                    *)

Enter(t) ==
  /\ Calls(t) /\ Len(Frames(t)) < MaxDepth
  /\ IF slot = 0 THEN slot' = made + 1 /\ made' = made + 1 ELSE UNCHANGED <<slot, made>>
  /\ thread' = [thread EXCEPT ![t] =
       [does |-> [Free EXCEPT !.at = "enters"],
        frames |-> Append(@.frames, [slot |-> slot', id |-> 0, wrote |-> {}])]]
  /\ UNCHANGED <<known, owner, stateVars, controlVars, sqliteVars, handle, begins, ended>>

Mine(t, s) == owner[s].thread = t
Acquire(t) ==
  LET s == Frame(t).slot IN
  /\ At(t, "enters") /\ (owner[s] = NoOwner \/ Mine(t, s))
  /\ owner' = [owner EXCEPT ![s] = [thread |-> t, depth |-> @.depth + 1]]
  /\ calls' = calls
  /\ IF known THEN Asks(t, "begin", NoCursor, FALSE) ELSE Goes(t, "leaves")
  /\ UNCHANGED <<known, slot, made, stateVars, controlVars, sqliteVars, handle, begins, ended>>

Sleep(t) ==
  /\ At(t, "enters") /\ owner[Frame(t).slot] # NoOwner /\ ~Mine(t, Frame(t).slot)
  /\ Goes(t, "asleep")
  /\ UNCHANGED <<registryVars, stateVars, controlVars, sqliteVars, handle, boundVars>>

(* Mutant: the slot is kept when BEGIN fails. *)
BeginKeepsSlot(t) ==
  /\ Runs(t, "begin") /\ Unlocks(t)
  /\ IF begun = 0
     THEN /\ begun' = begins + 1 /\ begins' = begins + 1
          /\ ReturnsWith(t, [Frame(t) EXCEPT !.id = begins + 1])
     ELSE /\ UNCHANGED <<begun, begins>>
          /\ thread' = [thread EXCEPT ![t] = [does |-> Free, frames |-> Front(@.frames)]]
  /\ UNCHANGED <<cursor, timedOut, written, saved, handle, ended>>

Begin(t) ==
  /\ Runs(t, "begin") /\ Unlocks(t)
  /\ IF begun = 0
     THEN /\ begun' = begins + 1 /\ begins' = begins + 1
          /\ ReturnsWith(t, [Frame(t) EXCEPT !.id = begins + 1])
     ELSE UNCHANGED <<begun, begins>> /\ Goes(t, "leaves")
  /\ UNCHANGED <<cursor, timedOut, written, saved, handle, ended>>

(* The function returned a value, or an Err or raised. *)
EndBody(t, call) ==
  /\ InBody(t) /\ call \in {"commit", "rollback"} /\ calls' = calls
  /\ IF known THEN Asks(t, call, NoCursor, FALSE) /\ ended' = ended
     ELSE Goes(t, "leaves") /\ EndsFrame(t, "closed")
  /\ UNCHANGED <<registryVars, stateVars, controlVars, sqliteVars, handle, begins>>

Commit(t, refused) ==
  /\ Runs(t, "commit") /\ Unlocks(t) /\ Goes(t, "leaves")
  /\ IF refused \/ begun = 0
     THEN EndsFrame(t, IF begun = 0 THEN "error" ELSE "refused") /\ UNCHANGED sqliteVars
     ELSE /\ EndsFrame(t, "value")
          /\ begun' = 0 /\ saved' = saved \cup written /\ written' = {}
  /\ UNCHANGED <<cursor, timedOut, handle, begins>>

(* Mutant: an error commits too. *)
RollbackSaves(t) ==
  /\ Runs(t, "rollback") /\ Unlocks(t) /\ Goes(t, "leaves")
  /\ EndsFrame(t, "error") /\ begun' = 0 /\ saved' = saved \cup written /\ written' = {}
  /\ UNCHANGED <<cursor, timedOut, handle, begins>>

Rollback(t) ==
  /\ Runs(t, "rollback") /\ Unlocks(t) /\ Goes(t, "leaves")
  /\ EndsFrame(t, "error") /\ begun' = 0 /\ written' = {}
  /\ UNCHANGED <<cursor, timedOut, saved, handle, begins>>

(* Mutant: the inner of two transactions lets the slot go. *)
LeaveForAll(t) ==
  LET s == Frame(t).slot
      asleep == {u \in Threads : At(u, "asleep") /\ Frame(u).slot = s}
      left == [thread EXCEPT ![t] = [does |-> Free, frames |-> Front(@.frames)]]
  IN
  /\ At(t, "leaves") /\ owner' = [owner EXCEPT ![s] = NoOwner]
  /\ \/ asleep = {} /\ thread' = left
     \/ \E u \in asleep : thread' = [left EXCEPT ![u].does.at = "enters"]
  /\ UNCHANGED <<known, slot, made, stateVars, controlVars, sqliteVars, handle, boundVars>>

(* Mutant: nobody is woken when the slot is let go. *)
LeaveQuietly(t) ==
  /\ At(t, "leaves")
  /\ owner' = [owner EXCEPT ![Frame(t).slot] =
       IF @.depth > 1 THEN [@ EXCEPT !.depth = @ - 1] ELSE NoOwner]
  /\ thread' = [thread EXCEPT ![t] = [does |-> Free, frames |-> Front(@.frames)]]
  /\ UNCHANGED <<known, slot, made, stateVars, controlVars, sqliteVars, handle, boundVars>>

Leave(t) ==
  LET s == Frame(t).slot
      asleep == {u \in Threads : At(u, "asleep") /\ Frame(u).slot = s}
      left == [thread EXCEPT ![t] = [does |-> Free, frames |-> Front(@.frames)]]
  IN
  /\ At(t, "leaves")
  /\ \/ /\ owner[s].depth > 1 /\ owner' = [owner EXCEPT ![s].depth = @ - 1]
        /\ thread' = left
     \/ /\ owner[s].depth = 1 /\ owner' = [owner EXCEPT ![s] = NoOwner]
        /\ \/ asleep = {} /\ thread' = left
           \/ \E u \in asleep : thread' = [left EXCEPT ![u].does.at = "enters"]
  /\ UNCHANGED <<known, slot, made, stateVars, controlVars, sqliteVars, handle, boundVars>>

-----------------------------------------------------------------------------
StatementEnds(t) ==
  \/ WriteRuns(t) \/ ReadRuns(t) \/ Fails(t) \/ CursorOpens(t) \/ NextRuns(t)
  \/ Begin(t) \/ Rollback(t) \/ BeginByHand(t) \/ RollbackByHand(t)
  \/ \E refused \in BOOLEAN : Commit(t, refused) \/ CommitByHand(t, refused)
  \/ \E why \in {"interrupt", "deadline"} : IsStopped(t, why)

(* What a call does by itself. *)
GoesOn(t) ==
  \/ Lock(t) \/ FindsClosed(t) \/ StatementEnds(t) \/ Words(t)
  \/ CloseCursor(t) \/ Push(t) \/ Retry(t) \/ Forget(t) \/ CloseConn(t)
  \/ Acquire(t) \/ Sleep(t) \/ Leave(t)

(* What the program asks for. *)
Program(t) ==
  \/ \E call \in {"read", "write"} \cup ByHand, limit \in BOOLEAN : Execute(t, call, limit)
  \/ \E c \in Cursors :
       \/ OpenCursor(t, c) \/ Drop(t, c)
       \/ \E call \in {"next", "close_cursor"}, limit \in BOOLEAN : UseCursor(t, call, c, limit)
  \/ Interrupt(t) \/ Close(t) \/ Enter(t)
  \/ \E call \in {"commit", "rollback"} : EndBody(t, call)

Next == \E t \in Threads : GoesOn(t) \/ Program(t)

Spec == Init /\ [][Next]_vars

(* Threads go on.  A program may stay in a transaction's function for      *)
(* ever, and owes no call.                                                 *)
FairSpec == Spec /\ \A t \in Threads : WF_vars(GoesOn(t))

-----------------------------------------------------------------------------
(* The variables have their types. *)
TypeOK ==
  /\ known \in BOOLEAN /\ slot \in 0..made /\ made \in 0..MaxCalls
  /\ owner \in [Slots -> [thread : Threads \cup {Nobody}, depth : 0..MaxDepth]]
  /\ holder \in Threads \cup {Nobody} /\ open \in BOOLEAN
  /\ DOMAIN cursor \subseteq Cursors /\ \A c \in DOMAIN cursor : cursor[c] \in {"open", "over"}
  /\ orphans \subseteq Cursors
  /\ cancel \in BOOLEAN /\ timedOut \in BOOLEAN
  /\ begun \in 0..begins /\ written \subseteq 1..calls /\ saved \subseteq 1..calls
  /\ handle \in [Cursors -> {"none", "opening", "held", "dropping", "gone"}]
  /\ \A t \in Threads :
       /\ Does(t) \in [at : {"free", "waits", "runs", "words", "pushes", "retries", "forgets",
                             "enters", "asleep", "leaves"},
                       call : Statements \cup {"none", "close_cursor", "close"},
                       number : 0..calls, cursor : Cursors \cup {NoCursor}, limit : BOOLEAN,
                       why : {"none", "interrupt", "deadline"}]
       /\ Len(Frames(t)) <= MaxDepth
  /\ calls \in 0..MaxCalls /\ begins \in 0..calls

(* db.transaction keeps its word: what its function wrote is saved when it *)
(* answers the function's value, and none of it when it rolls back,        *)
(* whatever other threads run on the connection, as long as the            *)
(* transaction its end met was its own: a statement stopped, or a COMMIT   *)
(* or ROLLBACK by hand, may have ended that (EndsItsOwn).  One whose       *)
(* COMMIT was refused is still open (EndIsTheEnd), and one whose           *)
(* connection was closed meanwhile does neither (ClosedSavesNothing).      *)
AllOrNothing ==
  \A x \in ended : x.own =>
    /\ x.said = "value" => x.wrote \subseteq saved
    /\ x.said = "error" => x.wrote \cap saved = {}

(* A db.transaction of another thread "waits for the first to end" (docs/  *)
(* stdlib.md; db.rs, TxLock): its BEGIN never runs into a db.transaction   *)
(* another thread is in, whatever is nested, refused or begun by hand.     *)
(* Only while a db.close is under way, which has let go of the slot before *)
(* it forgets the connection, may two threads be in one, each in a slot.   *)
Closing ==
  \E u \in Threads : At(u, "forgets") \/ (At(u, "waits") /\ Does(u).call = "close")
TransactionsTakeTurns ==
  \A t \in Threads : Runs(t, "begin") /\ begun # 0 /\ ~Closing =>
    \A u \in Threads \ {t} : \A i \in DOMAIN Frames(u) : Frames(u)[i].id # begun

(* A cursor whose last handle went is finished when the connection is used *)
(* next: no statement begins with it still there.                          *)
DroppedIsFinished ==
  [][\A t \in Threads : holder = Nobody /\ holder' = t =>
       \A c \in DOMAIN cursor' : handle[c] # "gone"]_vars

(* The slot is never free with everyone who wants it asleep: whoever lets  *)
(* go of it wakes one sleeper, and a woken one whom a newcomer overtook    *)
(* sleeps again only while that newcomer, who will wake one, has it.       *)
SleepersAreWoken ==
  \A t \in Threads : At(t, "asleep") /\ owner[Frame(t).slot] = NoOwner =>
    \E u \in Threads : At(u, "enters") /\ Frame(u).slot = Frame(t).slot

(* A thread that waits for the slot gets it, whatever was refused, stopped *)
(* or closed, as long as no statement and no function runs for ever, and   *)
(* db.transaction is not called for ever: the condition variable gives no  *)
(* turns, and newcomers that never cease may overtake a sleeper each time. *)
EveryTurnComes ==
  /\ \A u \in Threads : []<>(~At(u, "runs") /\ ~InBody(u))
  /\ <>[][\A u \in Threads : ~Enter(u)]_vars
  => \A t \in Threads :
       (At(t, "enters") \/ At(t, "asleep")) ~> (Does(t).at \notin {"enters", "asleep"})

(* Said of the module and not so.                                          *)

(* "db.<fn>: timed out after N ms" is the answer of a statement that its   *)
(* deadline stopped (db.rs:42-44).  The reason is read after the lock is   *)
(* gone, and the next statement has cleared it, or set it.                 *)
ReasonIsItsOwn ==
  \A t \in Threads : At(t, "words") /\ Does(t).limit =>
    (timedOut <=> Does(t).why = "deadline")

(* A dropped cursor is "finished when the connection is next free"         *)
(* (docs/stdlib.md:3481-3482).                                             *)
FreeMeansFinished ==
  (\A t \in Threads : At(t, "free")) => \A c \in DOMAIN cursor : handle[c] # "gone"

(* db.transaction: "commit unless f returns an Err or raises, which roll   *)
(* back" (docs/stdlib.md:3382): either way it is over afterwards.          *)
EndIsTheEnd ==
  \A t \in Threads : At(t, "leaves") => begun # Frame(t).id \/ begun = 0

(* ... and it ends its own: a write of another task that is stopped takes  *)
(* the transaction with it, and what the function writes next is saved.    *)
EndsItsOwn == known => \A x \in ended : x.own

(* Nothing of a transaction whose connection was closed under it is saved: *)
(* it answered an error.  Its ROLLBACK finds no connection, and a COMMIT   *)
(* that waits since before the close takes what it wrote.                  *)
ClosedSavesNothing ==
  \A x \in ended : x.own /\ x.said = "closed" => x.wrote \cap saved = {}
=============================================================================
