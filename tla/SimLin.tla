------------------------------- MODULE SimLin -------------------------------
(***************************************************************************)
(* The linearizability checker of the simulator (src/sim/lin.rs): a        *)
(* history recorded by concurrent processes, the operations parse makes of *)
(* it, and the search (Wing and Gong's, with Lowe's memo) that looks, key  *)
(* by key, for an order the key-value model accepts.                       *)
(*                                                                         *)
(* An operation is known by the place of its invocation in the history,    *)
(* which is the time of its call; its return is the place of its answer,   *)
(* and past all of them for one that never completed.  The linked list of  *)
(* the search is what is left of the times, its links the next of them.    *)
(* A value is <<>> (absent) or <<n>>; what an operation said is a set, {}  *)
(* when nothing is known of it.                                            *)
(***************************************************************************)
EXTENDS Integers, Sequences, FiniteSets, SequencesExt, FiniteSetsExt

CONSTANTS
  Processes,
  Keys,                  \* 1..the number of keys, in the order of their search
  Operations,            \* what is invoked: f, key, arg
  Outputs(_),            \* what an operation may be recorded to have answered
  MaxInvokes,            \* bound: operations
  MaxSteps               \* max_steps

Absent == <<>>
No == <<0>>
Yes == <<1>>
Values == {v \in Seq(Int) : Len(v) <= 1}

ASSUME BoundsAssumption == {MaxInvokes, MaxSteps} \subseteq Nat
ASSUME KeysAssumption == IsFiniteSet(Keys) /\ Keys # {} /\ Keys = 1..Cardinality(Keys)
ASSUME OperationsAssumption ==
  \A op \in Operations :
    /\ op.key \in Keys
    /\ \/ op.f = "put" /\ op.arg \in Values
       \/ op.f = "get"
       \/ op.f = "add" /\ op.arg \in Values \ {Absent}
       \/ op.f = "cas" /\ op.arg \in Values \X Values /\ Outputs(op) \subseteq {No, Yes}

VARIABLES
  history,               \* what sim.record kept
  ops,                   \* what parse made of it
  key,                   \* the key searched, 0 before the check
  placed, state, entry, stack, memo,   \* of the search
  budget,
  gaveUp,                \* some key's search was cut
  verdict

search == <<key, placed, state, entry, stack, memo>>
vars == <<history, ops, search, budget, gaveUp, verdict>>

----------------------------------------------------------------------------
(* The history. *)

Invocation(p, op) == [type |-> "invoke", p |-> p, op |-> op]
Completion(p, kind, said) == [type |-> kind, p |-> p, said |-> said]

Invokes(h) == {i \in DOMAIN h : h[i].type = "invoke"}
NextOfProcess(i, j, h) ==
  /\ i < j /\ h[j].p = h[i].p
  /\ \A k \in DOMAIN h : i < k /\ k < j => h[k].p # h[i].p
Open(p, h) ==
  {i \in Invokes(h) : h[i].p = p /\ \A j \in DOMAIN h : ~NextOfProcess(i, j, h)}

Invoke(p, op) ==
  /\ key = 0 /\ Cardinality(Invokes(history)) < MaxInvokes
  /\ history' = Append(history, Invocation(p, op))
  /\ UNCHANGED <<ops, search, budget, gaveUp, verdict>>

(* An ok recorded without a value says its invocation's (parse), and is    *)
(* one of Outputs: a put's is not looked at, an add's is no number         *)
(* (Absent), a cas's reads as Yes, and a get's is its key, as a value.     *)
Says(op, kind) == IF kind = "ok" THEN {{v} : v \in Outputs(op)} ELSE {{}}
Complete(p, kind) ==
  /\ key = 0
  /\ \E i \in Open(p, history) : \E said \in Says(history[i].op, kind) :
       history' = Append(history, Completion(p, kind, said))
  /\ UNCHANGED <<ops, search, budget, gaveUp, verdict>>

----------------------------------------------------------------------------
(* parse: an ok completes the open invocation of its process, a fail drops *)
(* it, an info leaves it indeterminate, as does the next invocation.       *)

NoneOpen == [p \in Processes |-> 0]

Invoked(acc, h, i) ==
  [ops |-> [j \in DOMAIN acc.ops \cup {i} |->
              IF j = i THEN [op |-> h[i].op, ret |-> Len(h) + i, said |-> {}] ELSE acc.ops[j]],
   open |-> [acc.open EXCEPT ![h[i].p] = i]]

Ended(acc, h, i) ==
  LET at == acc.open[h[i].p]
  IN [ops |-> CASE h[i].type = "ok" -> [acc.ops EXCEPT ![at].ret = i, ![at].said = h[i].said]
                [] h[i].type = "fail" -> [j \in DOMAIN acc.ops \ {at} |-> acc.ops[j]]
                [] OTHER -> acc.ops,
      open |-> [acc.open EXCEPT ![h[i].p] = 0]]

Reading(h) ==
  LET acc[n \in 0..Len(h)] ==
        IF n = 0 THEN [ops |-> <<>>, open |-> NoneOpen]
        ELSE IF h[n].type = "invoke" THEN Invoked(acc[n - 1], h, n)
        ELSE Ended(acc[n - 1], h, n)
  IN acc
Parse(h) == Reading(h)[Len(h)].ops

(* Kv::step: what the operation leaves in its key, and whether that and    *)
(* what it said can be: an add that answered no number said nothing.       *)
Sum(value, by) == IF value = Absent THEN by ELSE <<value[1] + by[1]>>

KvNext(value, o) ==
  CASE o.op.f = "put" -> o.op.arg
    [] o.op.f = "get" -> value
    [] o.op.f = "add" -> Sum(value, o.op.arg)
    [] o.op.f = "cas" -> IF value = o.op.arg[1] THEN o.op.arg[2] ELSE value

KvTakes(value, o) ==
  CASE o.op.f = "put" -> TRUE
    [] o.op.f = "get" -> o.said \subseteq {value}
    [] o.op.f = "add" -> o.said \subseteq {Absent, KvNext(value, o)}
    [] o.op.f = "cas" -> (o.said = {No}) # (value = o.op.arg[1])

----------------------------------------------------------------------------
(* wgl, for the operations of one key. *)

Infinity == Len(history)
End == 2 * Infinity + 1

Of(k, os) == {i \in DOMAIN os : os[i].op.key = k}
Times(is, os) == is \cup {os[i].ret : i \in is}
After(time, is, os) == Min({t \in Times(is, os) : t > time} \cup {End})
Earliest(is, os) == After(0, is, os)
Left == Of(key, ops) \ placed

Begin(k, os) ==
  /\ key' = k /\ placed' = {} /\ state' = Absent /\ stack' = <<>> /\ memo' = {}
  /\ entry' = Earliest(Of(k, os), os)

(* check: parse, then one search per key. *)
Check ==
  /\ key = 0
  /\ ops' = Parse(history)
  /\ Begin(1, Parse(history))
  /\ UNCHANGED <<history, budget, gaveUp, verdict>>

(* A search ended without a violation. *)
NextKey(cut) ==
  /\ gaveUp' = (gaveUp \/ cut)
  /\ IF key + 1 \in Keys
     THEN Begin(key + 1, ops) /\ UNCHANGED verdict
     ELSE /\ verdict' = IF gaveUp' THEN "unknown" ELSE "linearizable"
          /\ UNCHANGED search
  /\ UNCHANGED <<history, ops>>

Searching == key # 0 /\ verdict = "none"
Steps ==
  /\ Searching /\ Left # {} /\ budget > 0
  /\ budget' = budget - 1

AllPlaced == Searching /\ Left = {} /\ NextKey(FALSE) /\ UNCHANGED budget
OutOfSteps == Searching /\ Left # {} /\ budget = 0 /\ NextKey(TRUE) /\ UNCHANGED budget

(* What completed is placed: the rest returns at infinity. *)
Explained == Steps /\ entry > Infinity /\ NextKey(FALSE)

AtCall == entry \in Left

(* Mutant: the memo keyed by what is placed alone. *)
SeenPlaced(done, value) == \E m \in memo : m.done = done

Seen(done, value) == [done |-> done, value |-> value] \in memo
Remember(done, value) == memo' = memo \cup {[done |-> done, value |-> value]}

Accepted ==
  /\ KvTakes(state, ops[entry])
  /\ ~Seen(placed \cup {entry}, KvNext(state, ops[entry]))

Place ==
  /\ Steps /\ AtCall /\ Accepted
  /\ Remember(placed \cup {entry}, KvNext(state, ops[entry]))
  /\ placed' = placed \cup {entry}
  /\ state' = KvNext(state, ops[entry])
  /\ stack' = Append(stack, [call |-> entry, before |-> state])
  /\ entry' = Earliest(Left \ {entry}, ops)
  /\ UNCHANGED <<history, ops, key, gaveUp, verdict>>

Skip ==
  /\ Steps /\ AtCall /\ ~Accepted
  /\ entry' = After(entry, Left, ops)
  /\ UNCHANGED <<history, ops, key, placed, state, stack, memo, gaveUp, verdict>>

(* A return comes before its operation could be placed. *)
AtReturn == entry <= Infinity /\ ~AtCall

Backtrack ==
  /\ Steps /\ AtReturn /\ stack # <<>>
  /\ LET top == Last(stack)
     IN /\ placed' = placed \ {top.call}
        /\ state' = top.before
        /\ entry' = After(top.call, Left \cup {top.call}, ops)
  /\ stack' = Front(stack)
  /\ UNCHANGED <<history, ops, key, memo, gaveUp, verdict>>

Violation ==
  /\ Steps /\ AtReturn /\ stack = <<>>
  /\ verdict' = "violation"
  /\ UNCHANGED <<history, ops, search, gaveUp>>

----------------------------------------------------------------------------
Init ==
  /\ history = <<>> /\ ops = <<>>
  /\ key = 0 /\ placed = {} /\ state = Absent /\ entry = 0 /\ stack = <<>> /\ memo = {}
  /\ budget = MaxSteps /\ gaveUp = FALSE /\ verdict = "none"

Next ==
  \/ \E p \in Processes, op \in Operations : Invoke(p, op)
  \/ \E p \in Processes, kind \in {"ok", "fail", "info"} : Complete(p, kind)
  \/ Check
  \/ AllPlaced \/ OutOfSteps \/ Explained \/ Place \/ Skip \/ Backtrack \/ Violation

Spec == Init /\ [][Next]_vars

----------------------------------------------------------------------------
(* What a verdict should say, from the history alone: an order of the      *)
(* completed operations, and of any of the indeterminate ones, that        *)
(* respects real time and that the whole map explains at once.             *)

EndedBy(i, kind) ==
  {j \in DOMAIN history : NextOfProcess(i, j, history) /\ history[j].type = kind}
Completed == {i \in Invokes(history) : EndedBy(i, "ok") # {}}
Indeterminate == {i \in Invokes(history) : EndedBy(i, "ok") = {} /\ EndedBy(i, "fail") = {}}
Before(i, j) == \E a \in EndedBy(i, "ok") : a < j

(* What the operation at i leaves in a store, and whether it may answer v: *)
(* an add may answer its total, or no number.                              *)
Leaves(store, i) ==
  LET op == history[i].op
      old == store[op.key]
      new == CASE op.f = "put" -> op.arg
               [] op.f = "get" -> old
               [] op.f = "add" -> IF old = Absent THEN op.arg ELSE <<old[1] + op.arg[1]>>
               [] op.f = "cas" -> IF old = op.arg[1] THEN op.arg[2] ELSE old
  IN [store EXCEPT ![op.key] = new]

MayAnswer(store, i, v) ==
  LET op == history[i].op
  IN CASE op.f = "put" -> TRUE
       [] op.f = "get" -> v = store[op.key]
       [] op.f = "add" -> v \in {Absent, Leaves(store, i)[op.key]}
       [] op.f = "cas" -> v = IF store[op.key] = op.arg[1] THEN Yes ELSE No

(* The store after each of the operations of an order. *)
Stores(order) ==
  LET store[n \in 0..Len(order)] ==
        IF n = 0 THEN [k \in Keys |-> Absent] ELSE Leaves(store[n - 1], order[n])
  IN store

Explains(order) ==
  \A n \in DOMAIN order :
    \A a \in EndedBy(order[n], "ok") :
      \A v \in history[a].said : MayAnswer(Stores(order)[n - 1], order[n], v)

RealTime(order) == \A a, b \in DOMAIN order : a < b => ~Before(order[b], order[a])
IsLinearizable ==
  \E took \in SUBSET Indeterminate : \E order \in SetToSeqs(Completed \cup took) :
    RealTime(order) /\ Explains(order)

(* The checker answers what the history deserves: it calls linearizable    *)
(* only what some order of it explains, and a violation only what none     *)
(* does, whatever the memo cut off and however the keys were split.        *)
VerdictIsRight ==
  /\ verdict = "linearizable" => IsLinearizable
  /\ verdict = "violation" => ~IsLinearizable
=============================================================================
