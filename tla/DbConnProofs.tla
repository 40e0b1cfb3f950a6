---------------------------- MODULE DbConnProofs ----------------------------
(***************************************************************************)
(* Proofs about DbConn, for any threads and cursors and every bound: the   *)
(* transactions of a connection take turns and none sleeps beside a free   *)
(* slot, each is all or nothing, and a cursor nobody has is finalized      *)
(* before the next statement begins.                                       *)
(***************************************************************************)
EXTENDS DbConn, FiniteSetTheorems, TLAPS

(* What a thread may be doing, and the records DbConn keeps.               *)
Ats == {"free", "waits", "runs", "words", "pushes", "retries", "forgets", "enters", "asleep", "leaves"}
CallNames == Statements \cup {"none", "close_cursor", "close"}
Acts == [at : Ats, call : CallNames, number : Nat, cursor : Cursors \cup {NoCursor},
         limit : BOOLEAN, why : {"none", "interrupt", "deadline"}]
FrameSet == [slot : Slots, id : Nat, wrote : SUBSET Nat]
ThreadSet == [Threads -> [does : Acts, frames : Seq(FrameSet)]]
Ends == [id : Nat, wrote : SUBSET Nat, said : {"value", "refused", "error", "closed"}, own : BOOLEAN]

(* What the values are, as far as the proofs need it.                      *)
Shape ==
  /\ thread \in [Threads -> [does : Acts, frames : Seq(FrameSet)]]
  /\ owner \in [Slots -> [thread : Threads \cup {Nobody}, depth : Nat]]
  /\ slot \in 0..made /\ made \in Nat /\ made <= calls /\ calls \in 0..MaxCalls
  /\ begun \in Nat /\ begins \in Nat /\ begun <= begins
  /\ written \in SUBSET Nat /\ saved \in SUBSET Nat
  /\ ended \in SUBSET Ends

(* On the way into a transaction, up to its BEGIN; on the way out of it.    *)
Starting(t) == At(t, "enters") \/ At(t, "asleep") \/ (Does(t).call = "begin" /\ Does(t).at \in {"waits", "runs"})
Ending(t) == Does(t).call \in {"commit", "rollback"} /\ Does(t).at \in {"waits", "runs"}

(* A frame is without its transaction only at the top, before it begins or *)
(* as it leaves; one that leaves after it began has its end on record.     *)
Nested ==
  \A t \in Threads :
    /\ Starting(t) \/ Ending(t) \/ At(t, "leaves") => Frames(t) # <<>>
    /\ Starting(t) => Frame(t).id = 0 /\ Frame(t).wrote = {}
    /\ At(t, "leaves") => Frame(t).id = 0 \/ \E x \in ended : x.id = Frame(t).id
    /\ \A i \in 1..Len(Frames(t)) :
         /\ Frames(t)[i].slot \in 1..made /\ Frames(t)[i].id <= begins
         /\ Frames(t)[i].id = 0 => i = Len(Frames(t)) /\ (Starting(t) \/ At(t, "leaves"))

(* The frames of t for which it owns slot s: all but one it waits to enter. *)
Holds(t, s) ==
  {i \in 1..Len(Frames(t)) :
     Frames(t)[i].slot = s /\ (i < Len(Frames(t)) \/ Does(t).at \notin {"enters", "asleep"})}

(* The depth of a slot is the number of its owner's frames.                *)
Counted ==
  \A s \in Slots :
    /\ \A t \in Threads : Cardinality(Holds(t, s)) = IF owner[s].thread = t THEN owner[s].depth ELSE 0
    /\ owner[s].depth = 0 <=> owner[s].thread = Nobody

(* A write that is not yet done, and the frames of all threads.            *)
Writes(t) == Does(t).call = "write" /\ Does(t).at \in {"waits", "runs"}

AllFrames == UNION {{Frames(t)[i] : i \in 1..Len(Frames(t))} : t \in Threads}

(* The writes there have been.                                             *)
Known ==
  written \cup saved \cup (UNION {f.wrote : f \in AllFrames}) \cup (UNION {x.wrote : x \in ended})

(* Every write has a number of its own, and one not yet done is nowhere.   *)
Numbered ==
  /\ Known \subseteq 1..calls
  /\ \A t \in Threads : Writes(t) => Does(t).number \in 1..calls /\ Does(t).number \notin Known
  /\ \A t, u \in Threads : Writes(t) /\ Writes(u) /\ t # u => Does(t).number # Does(u).number

(* What the open transaction wrote is with SQLite and not yet saved; what one *)
(* that ended wrote is saved if it said so, and gone if it said otherwise. *)
Kept ==
  /\ written \cap saved = {}
  /\ \A f \in AllFrames : begun # 0 /\ f.id = begun => f.wrote \subseteq written
  /\ \A x \in ended : x.own =>
       /\ x.said = "value" => x.wrote \subseteq saved
       /\ x.said = "error" => x.wrote \cap (saved \cup written) = {}

(* The thread that drops a cursor for good, and the one that opens it.     *)
DropsIt(t) == Does(t).at \in {"pushes", "retries"}
OpensIt(t) == Does(t).call = "cursor" /\ Does(t).at \in {"waits", "runs"}

Uses(t) == OpensIt(t) \/ DropsIt(t)

(* What is left of a cursor nobody has is with the orphans, or with the one *)
(* thread that is about to put it there.                                   *)
Finalized ==
  /\ DOMAIN handle = Cursors
  /\ \A c \in DOMAIN cursor :
       c \in Cursors /\ handle[c] \notin {"none", "opening"} /\ (handle[c] = "gone" => c \in orphans)
  /\ \A t \in Threads :
       /\ Uses(t) => Does(t).cursor \in Cursors
       /\ OpensIt(t) => handle[Does(t).cursor] = "opening"
       /\ DropsIt(t) => handle[Does(t).cursor] = "dropping"
       /\ At(t, "retries") /\ Does(t).cursor \in DOMAIN cursor => Does(t).cursor \in orphans
  /\ \A t, u \in Threads : Uses(t) /\ Uses(u) /\ t # u => Does(t).cursor # Does(u).cursor

(* The invariant of the slot: who is in a transaction has its slot.         *)
Turns == Shape /\ Nested /\ Counted
-----------------------------------------------------------------------------
(* A sequence without its last, and with another last.                     *)
LEMMA FrontOf ==
  ASSUME NEW S, NEW s \in Seq(S), s # <<>>
  PROVE  /\ Len(s) \in Nat /\ Len(s) > 0 /\ Len(s) \in 1..Len(s)
         /\ Last(s) = s[Len(s)] /\ Last(s) \in S
         /\ Front(s) \in Seq(S) /\ Len(Front(s)) = Len(s) - 1
         /\ \A i \in 1..(Len(s) - 1) : i \in 1..Len(s) /\ Front(s)[i] = s[i]
<1>1. Len(s) \in Nat /\ Len(s) > 0 /\ s \in [1..Len(s) -> S]
  OBVIOUS
<1>2. Last(s) = s[Len(s)]
  BY DEF Last
<1>3. Front(s) = SubSeq(s, 1, Len(s) - 1)
  BY DEF Front
<1>4. SubSeq(s, 1, Len(s) - 1) \in Seq(S) /\ Len(SubSeq(s, 1, Len(s) - 1)) = Len(s) - 1
  BY <1>1
<1>5. \A i \in 1..(Len(s) - 1) : i \in 1..Len(s) /\ SubSeq(s, 1, Len(s) - 1)[i] = s[i]
  BY <1>1
<1> QED
  BY <1>1, <1>2, <1>3, <1>4, <1>5

(* The last of a sequence exchanged for another.                           *)
LEMMA LastFrame ==
  ASSUME NEW S, NEW s \in Seq(S), s # <<>>, NEW x \in S
  PROVE  /\ Append(Front(s), x) \in Seq(S) /\ Len(Append(Front(s), x)) = Len(s)
         /\ Append(Front(s), x) # <<>>
         /\ Append(Front(s), x)[Len(s)] = x
         /\ \A i \in 1..Len(s) : i # Len(s) => Append(Front(s), x)[i] = s[i]
<1>1. PICK f \in Seq(S) : f = Front(s)
  BY FrontOf
<1>2. /\ Len(s) \in Nat /\ Len(s) > 0 /\ Len(f) = Len(s) - 1
      /\ \A i \in 1..(Len(s) - 1) : f[i] = s[i]
  BY <1>1, FrontOf
<1>3. Append(f, x) \in Seq(S) /\ Len(Append(f, x)) = Len(s) /\ Append(f, x)[Len(s)] = x
      /\ Append(f, x) # <<>>
  BY <1>2
<1>4. \A i \in 1..(Len(s) - 1) : Append(f, x)[i] = s[i]
  BY <1>2
<1> QED
  BY <1>1, <1>2, <1>3, <1>4

(* The other threads go on as they were; what each update of a thread does. *)
Others(t) == \A u \in Threads : u # t => Does(u)' = Does(u) /\ Frames(u)' = Frames(u)

LEMMA ThreadFacts ==
  ASSUME Shape, NEW t \in Threads
  PROVE  /\ Does(t) \in Acts /\ Frames(t) \in Seq(FrameSet) /\ thread[t] = [does |-> Does(t), frames |-> Frames(t)]
         /\ Does(t).at \in Ats /\ Does(t).call \in CallNames /\ Does(t).number \in Nat
  BY DEF Shape, Does, Frames, Acts

LEMMA GoesEffect ==
  ASSUME Shape, NEW t \in Threads, NEW at \in Ats, Goes(t, at)
  PROVE  /\ thread' \in ThreadSet /\ Others(t) /\ Frames(t)' = Frames(t)
         /\ Does(t)' = [Does(t) EXCEPT !.at = at]
         /\ Does(t)'.at = at /\ Does(t)'.call = Does(t).call /\ Does(t)'.number = Does(t).number
         /\ Does(t)'.cursor = Does(t).cursor
<1>1. /\ thread' = [thread EXCEPT ![t].does.at = at] /\ thread \in ThreadSet
      /\ Does(t) \in Acts
  BY ThreadFacts DEF Goes, Shape, ThreadSet
<1>2. [Does(t) EXCEPT !.at = at] \in Acts
  BY <1>1 DEF Acts
<1>3. /\ thread'[t] = [does |-> [Does(t) EXCEPT !.at = at], frames |-> Frames(t)]
      /\ \A u \in Threads : u # t => thread'[u] = thread[u]
      /\ thread' \in ThreadSet
  BY <1>1, <1>2 DEF ThreadSet, Does, Frames
<1>4. Does(t)' = [Does(t) EXCEPT !.at = at] /\ Frames(t)' = Frames(t) /\ Others(t)
  BY <1>3 DEF Does, Frames, Others
<1> QED
  BY <1>1, <1>3, <1>4 DEF Acts

LEMMA FreeAct == Free \in Acts
  BY DEF Free, Acts, Ats, CallNames

LEMMA DoesEffect ==
  ASSUME Shape, NEW t \in Threads, NEW d \in Acts, thread' = [thread EXCEPT ![t].does = d]
  PROVE  thread' \in ThreadSet /\ Others(t) /\ Frames(t)' = Frames(t) /\ Does(t)' = d
  BY DEF Shape, ThreadSet, Does, Frames, Others

LEMMA ReturnsEffect ==
  ASSUME Shape, NEW t \in Threads, Returns(t)
  PROVE  /\ thread' \in ThreadSet /\ Others(t) /\ Frames(t)' = Frames(t) /\ Does(t)' = Free
  BY FreeAct DEF Shape, ThreadSet, Returns, Does, Frames, Others

LEMMA AsksEffect ==
  ASSUME Shape, NEW t \in Threads, NEW call \in CallNames, NEW c \in Cursors \cup {NoCursor},
         NEW limit \in BOOLEAN, calls' \in Nat, Asks(t, call, c, limit)
  PROVE  /\ thread' \in ThreadSet /\ Others(t) /\ Frames(t)' = Frames(t)
         /\ Does(t)'.at = "waits" /\ Does(t)'.call = call /\ Does(t)'.cursor = c
         /\ Does(t)'.number = IF call = "write" THEN calls' ELSE 0
<1> DEFINE d == [at |-> "waits", call |-> call, number |-> IF call = "write" THEN calls' ELSE 0,
                 cursor |-> c, limit |-> limit, why |-> "none"]
<1>1. d \in Acts
  BY DEF Acts, Ats
<1>2. thread' = [thread EXCEPT ![t].does = d]
  BY DEF Asks
<1>3. d.at = "waits" /\ d.call = call /\ d.cursor = c /\ d.number = IF call = "write" THEN calls' ELSE 0
  OBVIOUS
<1> HIDE DEF d
<1> QED
  BY <1>1, <1>2, <1>3 DEF Shape, ThreadSet, Does, Frames, Others

LEMMA ReturnsWithEffect ==
  ASSUME Shape, NEW t \in Threads, NEW frame \in FrameSet, Frames(t) # <<>>, ReturnsWith(t, frame)
  PROVE  /\ thread' \in ThreadSet /\ Others(t) /\ Does(t)' = Free
         /\ Len(Frames(t)') = Len(Frames(t)) /\ Frames(t)' # <<>>
         /\ Frames(t)'[Len(Frames(t))] = frame
         /\ \A i \in 1..Len(Frames(t)) : i # Len(Frames(t)) => Frames(t)'[i] = Frames(t)[i]
<1>1. Append(Front(Frames(t)), frame) \in Seq(FrameSet) /\ Frames(t) \in Seq(FrameSet)
  BY LastFrame, ThreadFacts
<1>2. thread' = [thread EXCEPT ![t] = [does |-> Free, frames |-> Append(Front(Frames(t)), frame)]]
  BY DEF ReturnsWith, Frames
<1>3. /\ thread' \in ThreadSet /\ Others(t) /\ Does(t)' = Free
      /\ Frames(t)' = Append(Front(Frames(t)), frame)
  BY <1>1, <1>2, FreeAct DEF Shape, ThreadSet, Does, Frames, Others
<1> QED
  BY <1>1, <1>3, LastFrame

LEMMA TopIsFrame ==
  ASSUME Shape, NEW t \in Threads, Frames(t) # <<>>
  PROVE  /\ Frame(t) = Frames(t)[Len(Frames(t))] /\ Frame(t) \in FrameSet
         /\ Len(Frames(t)) \in Nat /\ Len(Frames(t)) > 0 /\ Len(Frames(t)) \in 1..Len(Frames(t))
         /\ Frame(t).slot \in Slots /\ Frame(t).id \in Nat /\ Frame(t).wrote \in SUBSET Nat
<1>1. Frames(t) \in Seq(FrameSet)
  BY ThreadFacts
<1>2. /\ Last(Frames(t)) = Frames(t)[Len(Frames(t))] /\ Last(Frames(t)) \in FrameSet
      /\ Len(Frames(t)) \in Nat /\ Len(Frames(t)) > 0 /\ Len(Frames(t)) \in 1..Len(Frames(t))
  BY <1>1, FrontOf
<1>3. Frame(t) = Last(Frames(t))
  BY DEF Frame
<1> HIDE DEF FrameSet
<1>4. \A f \in FrameSet : f.slot \in Slots /\ f.id \in Nat /\ f.wrote \in SUBSET Nat
  BY DEF FrameSet
<1> QED
  BY <1>2, <1>3, <1>4

-----------------------------------------------------------------------------
(* Waiting to own a slot.                                                  *)
Sleeping(t) == Does(t).at \in {"enters", "asleep"}

(* What is nested stays so for a thread none of whose frames change.       *)
LEMMA SameNested ==
  ASSUME Nested, NEW u \in Threads, Frames(u)' = Frames(u), Starting(u)' <=> Starting(u),
         Ending(u)' <=> Ending(u), At(u, "leaves")' <=> At(u, "leaves"),
         ended \subseteq ended', made' \in Nat, made <= made', begins' \in Nat, begins <= begins', Shape
  PROVE  /\ Starting(u)' \/ Ending(u)' \/ At(u, "leaves")' => Frames(u)' # <<>>
         /\ Starting(u)' => Frame(u)'.id = 0 /\ Frame(u)'.wrote = {}
         /\ At(u, "leaves")' => Frame(u)'.id = 0 \/ \E x \in ended' : x.id = Frame(u)'.id
         /\ \A i \in 1..Len(Frames(u)') :
              /\ Frames(u)'[i].slot \in 1..made' /\ Frames(u)'[i].id <= begins'
              /\ Frames(u)'[i].id = 0 => i = Len(Frames(u)') /\ (Starting(u)' \/ At(u, "leaves")')
<1>1. Frames(u)' = Frames(u)
  OBVIOUS
<1>2. Frame(u)' = Frame(u) /\ (Starting(u)' <=> Starting(u)) /\ (Ending(u)' <=> Ending(u))
      /\ (At(u, "leaves")' <=> At(u, "leaves"))
  BY <1>1 DEF Frame
<1>3. Starting(u)' \/ Ending(u)' \/ At(u, "leaves")' => Frames(u)' # <<>>
  BY <1>1, <1>2 DEF Nested
<1>4. Starting(u)' => Frame(u)'.id = 0 /\ Frame(u)'.wrote = {}
  BY <1>2 DEF Nested
<1>5. At(u, "leaves")' => Frame(u)'.id = 0 \/ \E x \in ended' : x.id = Frame(u)'.id
  BY <1>2 DEF Nested
<1>6. ASSUME NEW i \in 1..Len(Frames(u)')
      PROVE  /\ Frames(u)'[i].slot \in 1..made' /\ Frames(u)'[i].id <= begins'
             /\ Frames(u)'[i].id = 0 => i = Len(Frames(u)') /\ (Starting(u)' \/ At(u, "leaves")')
  <2>1. i \in 1..Len(Frames(u)) /\ Frames(u) \in Seq(FrameSet)
    BY <1>1, ThreadFacts
  <2>2. Frames(u)[i].slot \in 1..made /\ Frames(u)[i].id <= begins /\ Frames(u)[i].id \in Nat
        /\ (Frames(u)[i].id = 0 => i = Len(Frames(u)) /\ (Starting(u) \/ At(u, "leaves")))
    <3>1. Frames(u)[i] \in FrameSet
      BY <2>1
    <3>2. Frames(u)[i].id \in Nat
      BY <3>1 DEF FrameSet
    <3> QED
      BY <2>1, <3>2 DEF Nested
  <2>3. made \in Nat /\ begins \in Nat
    BY DEF Shape
  <2> QED
    BY <1>1, <1>2, <2>2, <2>3
<1> QED
  BY <1>3, <1>4, <1>5, <1>6

LEMMA OthersNested ==
  ASSUME Nested, NEW t \in Threads, NEW u \in Threads, u # t, Others(t),
         ended \subseteq ended', made' \in Nat, made <= made', begins' \in Nat, begins <= begins', Shape
  PROVE  /\ Starting(u)' \/ Ending(u)' \/ At(u, "leaves")' => Frames(u)' # <<>>
         /\ Starting(u)' => Frame(u)'.id = 0 /\ Frame(u)'.wrote = {}
         /\ At(u, "leaves")' => Frame(u)'.id = 0 \/ \E x \in ended' : x.id = Frame(u)'.id
         /\ \A i \in 1..Len(Frames(u)') :
              /\ Frames(u)'[i].slot \in 1..made' /\ Frames(u)'[i].id <= begins'
              /\ Frames(u)'[i].id = 0 => i = Len(Frames(u)') /\ (Starting(u)' \/ At(u, "leaves")')
<1>1. Frames(u)' = Frames(u) /\ Does(u)' = Does(u)
  BY DEF Others
<1>2. (Starting(u)' <=> Starting(u)) /\ (Ending(u)' <=> Ending(u))
      /\ (At(u, "leaves")' <=> At(u, "leaves"))
  BY <1>1 DEF Starting, Ending, At
<1> QED
  BY <1>1, <1>2, SameNested

(* The steps of a thread that neither take nor leave the slot, and that no *)
(* db.transaction begins or ends with.                                     *)
Stays(t) ==
  /\ thread' \in ThreadSet /\ Others(t)
  /\ Len(Frames(t)') = Len(Frames(t))
  /\ \A i \in 1..Len(Frames(t)) :
       Frames(t)'[i].slot = Frames(t)[i].slot /\ Frames(t)'[i].id = Frames(t)[i].id
  /\ Starting(t)' <=> Starting(t)
  /\ Starting(t) => Frames(t)' = Frames(t)
  /\ Ending(t)' => Frames(t) # <<>>
  /\ At(t, "leaves")' <=> At(t, "leaves")
  /\ Sleeping(t)' <=> Sleeping(t)
  /\ owner' = owner /\ made' = made /\ slot' \in {0, slot}
  /\ calls' \in 0..MaxCalls /\ calls <= calls'
  /\ begins' \in Nat /\ begins <= begins' /\ begun' \in {0, begun, begins'}
  /\ ended' = ended /\ written' \in SUBSET Nat /\ saved' \in SUBSET Nat

(* Such a step keeps the slot's invariant.                                 *)
LEMMA StaysTurns ==
  ASSUME Turns, NEW t \in Threads, Stays(t)
  PROVE  Turns'
<1>1. Shape'
  BY DEF Turns, Shape, Stays, ThreadSet
<1>2. Nested'
  <2> SUFFICES ASSUME NEW u \in Threads
               PROVE  /\ Starting(u)' \/ Ending(u)' \/ At(u, "leaves")' => Frames(u)' # <<>>
                      /\ Starting(u)' => Frame(u)'.id = 0 /\ Frame(u)'.wrote = {}
                      /\ At(u, "leaves")' => Frame(u)'.id = 0 \/ \E x \in ended' : x.id = Frame(u)'.id
                      /\ \A i \in 1..Len(Frames(u)') :
                           /\ Frames(u)'[i].slot \in 1..made' /\ Frames(u)'[i].id <= begins'
                           /\ Frames(u)'[i].id = 0 => i = Len(Frames(u)') /\ (Starting(u)' \/ At(u, "leaves")')
    BY DEF Nested
  <2>1. CASE u # t
    <3>1. /\ Others(t) /\ ended \subseteq ended' /\ made' \in Nat /\ made <= made'
          /\ begins' \in Nat /\ begins <= begins' /\ Shape /\ Nested
      BY DEF Turns, Stays, Shape
    <3> QED
      BY <2>1, <3>1, OthersNested
  <2>2. CASE u = t
    <3>1. Frames(t) \in Seq(FrameSet) /\ Frames(t)' \in Seq(FrameSet)
      BY DEF Turns, Shape, Stays, ThreadSet, Frames
    <3>2. Frames(t) # <<>> <=> Frames(t)' # <<>>
      BY <3>1 DEF Stays
    <3>3. Frames(t) # <<>> => Frame(t)'.id = Frame(t).id
      <4>1. Frames(t) # <<>> => Frame(t) = Frames(t)[Len(Frames(t))] /\ Len(Frames(t)) \in 1..Len(Frames(t))
        BY TopIsFrame DEF Turns
      <4>2. Frame(t)' = Frames(t)'[Len(Frames(t)')]
        BY DEF Frame, Last
      <4> QED
        BY <4>1, <4>2 DEF Stays
    <3>4. Starting(t) => Frame(t)' = Frame(t)
      BY DEF Stays, Frame
    <3>5. Starting(t)' \/ Ending(t)' \/ At(t, "leaves")' => Frames(t)' # <<>>
      BY <3>2 DEF Turns, Nested, Stays
    <3>6. Starting(t)' => Frame(t)'.id = 0 /\ Frame(t)'.wrote = {}
      BY <3>4 DEF Turns, Nested, Stays
    <3>7. At(t, "leaves")' => Frame(t)'.id = 0 \/ \E x \in ended' : x.id = Frame(t)'.id
      BY <3>3 DEF Turns, Nested, Stays
    <3>8. ASSUME NEW i \in 1..Len(Frames(t)')
          PROVE  /\ Frames(t)'[i].slot \in 1..made' /\ Frames(t)'[i].id <= begins'
                 /\ Frames(t)'[i].id = 0 => i = Len(Frames(t)') /\ (Starting(t)' \/ At(t, "leaves")')
      <4>1. i \in 1..Len(Frames(t)) /\ Frames(t)'[i].slot = Frames(t)[i].slot
            /\ Frames(t)'[i].id = Frames(t)[i].id /\ Len(Frames(t)') = Len(Frames(t))
        BY DEF Stays
      <4>2. Frames(t)[i].id \in Nat /\ Frames(t)[i].id <= begins /\ begins \in Nat
        <5>1. Frames(t)[i] \in FrameSet
          BY <3>1, <4>1
        <5> QED
          BY <4>1, <5>1 DEF FrameSet, Turns, Shape, Nested
      <4>3. begins' \in Nat /\ begins <= begins'
        BY DEF Stays
      <4>4. Frames(t)'[i].id <= begins'
        BY <4>1, <4>2, <4>3
      <4> QED
        BY <4>1, <4>4 DEF Turns, Nested, Stays
    <3> QED
      BY <2>2, <3>5, <3>6, <3>7, <3>8
  <2> QED
    BY <2>1, <2>2
<1>3. Counted'
  <2>1. \A u \in Threads, s \in Slots : Holds(u, s)' = Holds(u, s)
    <3> SUFFICES ASSUME NEW u \in Threads, NEW s \in Slots PROVE Holds(u, s)' = Holds(u, s)
      OBVIOUS
    <3>1. CASE u # t
      BY <3>1 DEF Stays, Others, Holds
    <3>2. CASE u = t
      BY <3>2 DEF Stays, Sleeping, Holds
    <3> QED
      BY <3>1, <3>2
  <2> QED
    BY <2>1 DEF Turns, Counted, Stays
<1> QED
  BY <1>1, <1>2, <1>3 DEF Turns

(* Which actions are such steps.                                           *)
Quiet(t) ==
  /\ thread' \in ThreadSet /\ Others(t) /\ Frames(t)' = Frames(t)
  /\ Does(t)'.at \notin {"enters", "asleep", "leaves"}
  /\ Does(t)'.at \in {"waits", "runs"} => Does(t)'.call \notin InTransaction
  /\ Writes(t)' => Does(t)'.number = calls' /\ calls < calls'

(* The statements of a program, in a transaction or not.                   *)
StatementCalls == {"read", "write", "cursor", "next", "close_cursor"} \cup ByHand

LEMMA QuietStays ==
  ASSUME Shape, NEW t \in Threads, Quiet(t),
         Does(t).at \notin {"enters", "asleep", "leaves"},
         Does(t).at \in {"waits", "runs"} => Does(t).call \notin InTransaction,
         owner' = owner, made' = made, slot' \in {0, slot},
         calls' = calls \/ (calls' = calls + 1 /\ calls < MaxCalls),
         begins' = begins \/ begins' = begins + 1, ended' = ended, begun' \in {0, begun, begins'},
         written' \in SUBSET Nat, saved' \in SUBSET Nat
  PROVE  Stays(t)
<1>1. ~Starting(t) /\ ~Starting(t)' /\ ~Ending(t)' /\ ~At(t, "leaves") /\ ~At(t, "leaves")'
      /\ ~Sleeping(t) /\ ~Sleeping(t)'
  BY DEF Quiet, Starting, Ending, Sleeping, At, InTransaction
<1>2. calls' \in 0..MaxCalls /\ calls <= calls' /\ begins' \in Nat /\ begins <= begins'
  BY BoundsAssumption DEF Shape
<1> QED
  BY <1>1, <1>2 DEF Quiet, Stays

(* ... and that leave what was written as it is, save it or roll it back,  *)
(* or begin a transaction by hand.                                         *)
Carries(t) ==
  /\ Others(t) /\ Frames(t)' = Frames(t)
  /\ calls' \in Nat /\ calls <= calls'
  /\ Writes(t)' => \/ Writes(t) /\ Does(t)'.number = Does(t).number
                   \/ Does(t)'.number = calls' /\ calls < calls'
  /\ ended' = ended
  /\ \/ begun' = begun /\ written' = written /\ saved' = saved
     \/ begun' = 0 /\ written' = {} /\ saved' \in {saved, saved \cup written}
     \/ begun' = begins + 1 /\ written' = written /\ saved' = saved

LEMMA QuietCarries ==
  ASSUME Shape, NEW t \in Threads, Quiet(t),
         calls' = calls \/ (calls' = calls + 1 /\ calls < MaxCalls),
         ended' = ended,
         \/ begun' = begun /\ written' = written /\ saved' = saved
         \/ begun' = 0 /\ written' = {} /\ saved' \in {saved, saved \cup written}
         \/ begun' = begins + 1 /\ written' = written /\ saved' = saved
  PROVE  Carries(t)
<1>1. calls' \in Nat /\ calls <= calls'
  BY DEF Shape
<1> QED
  BY <1>1 DEF Quiet, Carries

LEMMA AsksQuietly ==
  ASSUME Shape, NEW t \in Threads, NEW call \in StatementCalls, NEW c \in Cursors \cup {NoCursor},
         NEW limit \in BOOLEAN, Calls(t), Asks(t, call, c, limit)
  PROVE  Quiet(t)
<1>1. calls' \in Nat /\ call \in CallNames
  BY DEF Calls, Shape, StatementCalls, CallNames, Statements, ByHand
<1> QED
  <2>1. /\ thread' \in ThreadSet /\ Others(t) /\ Frames(t)' = Frames(t)
        /\ Does(t)'.at = "waits" /\ Does(t)'.call = call
        /\ Does(t)'.number = IF call = "write" THEN calls' ELSE 0
    BY <1>1, AsksEffect
  <2>2. calls < calls'
    BY DEF Calls, Shape
  <2> QED
    BY <2>1, <2>2 DEF Quiet, StatementCalls, ByHand, InTransaction, Writes

LEMMA FreeIsQuiet == Free.at = "free" /\ Free.call = "none" /\ Free.number = 0 /\ Free.cursor = NoCursor
  BY DEF Free

LEMMA ReturnsQuietly ==
  ASSUME Shape, NEW t \in Threads, Returns(t)
  PROVE  Quiet(t)
  BY ReturnsEffect, FreeIsQuiet DEF Quiet, Writes

LEMMA ExecuteStays ==
  ASSUME Shape, NEW t \in Threads, NEW call \in {"read", "write"} \cup ByHand,
         NEW limit \in BOOLEAN, Execute(t, call, limit)
  PROVE  Stays(t) /\ Carries(t)
<1>1. Quiet(t)
  BY AsksQuietly DEF Execute, StatementCalls
<1> QED
  <2>1. /\ owner' = owner /\ made' = made /\ slot' = slot /\ calls' = calls + 1 /\ calls < MaxCalls
        /\ begins' = begins /\ ended' = ended /\ begun' = begun /\ written' = written /\ saved' = saved
        /\ Does(t).at = "free"
    BY DEF Execute, Calls, At, registryVars, sqliteVars
  <2>2. written \in SUBSET Nat /\ saved \in SUBSET Nat
    BY DEF Shape
  <2>3. Stays(t)
    BY <1>1, <2>1, <2>2, QuietStays
  <2> QED
    BY <1>1, <2>1, <2>3, QuietCarries

LEMMA OpenCursorStays ==
  ASSUME Shape, NEW t \in Threads, NEW c \in Cursors, OpenCursor(t, c)
  PROVE  Stays(t) /\ Carries(t)
<1>1. Quiet(t)
  BY AsksQuietly DEF OpenCursor, StatementCalls
<1> QED
  <2>1. /\ owner' = owner /\ made' = made /\ slot' = slot /\ calls' = calls + 1 /\ calls < MaxCalls
        /\ begins' = begins /\ ended' = ended /\ begun' = begun /\ written' = written /\ saved' = saved
        /\ Does(t).at = "free"
    BY DEF OpenCursor, Calls, At, registryVars, sqliteVars
  <2>2. written \in SUBSET Nat /\ saved \in SUBSET Nat
    BY DEF Shape
  <2>3. Stays(t)
    BY <1>1, <2>1, <2>2, QuietStays
  <2> QED
    BY <1>1, <2>1, <2>3, QuietCarries

LEMMA UseCursorStays ==
  ASSUME Shape, NEW t \in Threads, NEW call \in {"next", "close_cursor"}, NEW c \in Cursors,
         NEW limit \in BOOLEAN, UseCursor(t, call, c, limit)
  PROVE  Stays(t) /\ Carries(t)
<1>1. Quiet(t)
  BY AsksQuietly DEF UseCursor, StatementCalls
<1> QED
  <2>1. /\ owner' = owner /\ made' = made /\ slot' = slot /\ calls' = calls + 1 /\ calls < MaxCalls
        /\ begins' = begins /\ ended' = ended /\ begun' = begun /\ written' = written /\ saved' = saved
        /\ Does(t).at = "free"
    BY DEF UseCursor, Calls, At, registryVars, sqliteVars
  <2>2. written \in SUBSET Nat /\ saved \in SUBSET Nat
    BY DEF Shape
  <2>3. Stays(t)
    BY <1>1, <2>1, <2>2, QuietStays
  <2> QED
    BY <1>1, <2>1, <2>3, QuietCarries

LEMMA LockStays ==
  ASSUME Turns, NEW t \in Threads, Lock(t)
  PROVE  Stays(t) /\ Carries(t)
<1>1. thread' \in ThreadSet /\ Others(t) /\ Frames(t)' = Frames(t)
      /\ Does(t)'.at = "runs" /\ Does(t)'.call = Does(t).call /\ Does(t).at = "waits"
  BY GoesEffect DEF Turns, Lock, Waits, At, Ats
<1>2. /\ Starting(t)' <=> Starting(t)
      /\ Ending(t)' <=> Ending(t)
      /\ ~At(t, "leaves") /\ ~At(t, "leaves")' /\ ~Sleeping(t) /\ ~Sleeping(t)'
  BY <1>1 DEF Starting, Ending, At, Sleeping
<1>3. Ending(t) => Frames(t) # <<>>
  BY DEF Turns, Nested
<1> QED
  <2>1. Stays(t)
    BY <1>1, <1>2, <1>3 DEF Lock, Stays, Turns, Shape, registryVars, sqliteVars, boundVars
  <2>2. Does(t)'.number = Does(t).number
    BY GoesEffect DEF Turns, Lock, Ats
  <2>3. Carries(t)
    BY <1>1, <2>2 DEF Lock, Carries, Turns, Shape, Writes, sqliteVars, boundVars
  <2> QED
    BY <2>1, <2>3

LEMMA FindsClosedStays ==
  ASSUME Shape, NEW t \in Threads, FindsClosed(t), Does(t).call \notin InTransaction
  PROVE  Stays(t) /\ Carries(t)
<1>1. Quiet(t)
  BY ReturnsQuietly DEF FindsClosed
<1> QED
  <2>1. /\ owner' = owner /\ made' = made /\ slot' = slot /\ calls' = calls /\ begins' = begins
        /\ ended' = ended /\ begun' = begun /\ written' = written /\ saved' = saved
    BY DEF FindsClosed, InTransaction, registryVars, sqliteVars
  <2>2. Does(t).at = "waits"
    BY DEF FindsClosed, Waits, At
  <2>3. written \in SUBSET Nat /\ saved \in SUBSET Nat
    BY DEF Shape
  <2> QED
    BY <1>1, <2>1, <2>2, <2>3, QuietStays, QuietCarries

LEMMA WriteRunsStays ==
  ASSUME Shape, NEW t \in Threads, WriteRuns(t)
  PROVE  Stays(t)
<1>1. Does(t).at = "runs" /\ Does(t).call = "write" /\ Does(t).number \in Nat
  BY ThreadFacts DEF WriteRuns, Runs, At
<1>2. written' \in SUBSET Nat /\ saved' \in SUBSET Nat
  BY <1>1 DEF WriteRuns, Shape
<1>3. CASE Frames(t) = <<>>
  <2>1. Quiet(t)
    BY <1>3, ReturnsQuietly DEF WriteRuns
  <2> QED
    <3>1. /\ owner' = owner /\ made' = made /\ slot' = slot /\ calls' = calls /\ begins' = begins
          /\ ended' = ended /\ begun' = begun
      BY DEF WriteRuns, Unlocks, registryVars
    <3>2. Does(t).call \notin InTransaction
      BY <1>1 DEF InTransaction
    <3> QED
      BY <1>1, <1>2, <2>1, <3>1, <3>2, QuietStays
<1>4. CASE Frames(t) # <<>>
  <2> DEFINE f == [Frame(t) EXCEPT !.wrote = @ \cup {Does(t).number}]
  <2>1. f \in FrameSet /\ f.slot = Frame(t).slot /\ f.id = Frame(t).id
    BY <1>1, <1>4, TopIsFrame DEF FrameSet
  <2>2. ReturnsWith(t, f)
    BY <1>4 DEF WriteRuns
  <2>3. /\ thread' \in ThreadSet /\ Others(t) /\ Does(t)' = Free
        /\ Len(Frames(t)') = Len(Frames(t)) /\ Frames(t)'[Len(Frames(t))] = f
        /\ \A i \in 1..Len(Frames(t)) : i # Len(Frames(t)) => Frames(t)'[i] = Frames(t)[i]
    <3> HIDE DEF f
    <3> QED
      BY <1>4, <2>1, <2>2, ReturnsWithEffect
  <2>4. \A i \in 1..Len(Frames(t)) :
          Frames(t)'[i].slot = Frames(t)[i].slot /\ Frames(t)'[i].id = Frames(t)[i].id
    <3> HIDE DEF f
    <3> QED
      BY <1>4, <2>1, <2>3, TopIsFrame
  <2>5. ~Starting(t) /\ ~Starting(t)' /\ ~Ending(t)' /\ ~At(t, "leaves") /\ ~At(t, "leaves")'
        /\ ~Sleeping(t) /\ ~Sleeping(t)'
    BY <1>1, <2>3, FreeIsQuiet DEF Starting, Ending, Sleeping, At
  <2> QED
    BY <1>2, <2>3, <2>4, <2>5 DEF WriteRuns, Unlocks, Stays, Shape, registryVars
<1> QED
  BY <1>3, <1>4

LEMMA StatementStays ==
  ASSUME Shape, NEW t \in Threads,
         ReadRuns(t) \/ Fails(t) \/ CursorOpens(t) \/ NextRuns(t)
  PROVE  Stays(t) /\ Carries(t)
<1>1. Quiet(t)
  BY ReturnsQuietly DEF ReadRuns, Fails, CursorOpens, NextRuns
<1>2. Does(t).at = "runs" /\ Does(t).call \notin InTransaction
  BY DEF ReadRuns, Fails, CursorOpens, NextRuns, Runs, At, InTransaction
<1>3. /\ owner' = owner /\ made' = made /\ slot' = slot /\ calls' = calls /\ begins' = begins
      /\ ended' = ended /\ begun' = begun /\ written' = written /\ saved' = saved
  BY DEF ReadRuns, Fails, CursorOpens, NextRuns, Unlocks, registryVars, sqliteVars
<1>4. written \in SUBSET Nat /\ saved \in SUBSET Nat
  BY DEF Shape
<1> QED
  BY <1>1, <1>2, <1>3, <1>4, QuietStays, QuietCarries

(* A transaction begun, saved or rolled back by hand, whoever began it.    *)
LEMMA ByHandStays ==
  ASSUME Shape, NEW t \in Threads,
         BeginByHand(t) \/ RollbackByHand(t) \/ \E refused \in BOOLEAN : CommitByHand(t, refused)
  PROVE  Stays(t) /\ Carries(t)
<1>1. Quiet(t)
  BY ReturnsQuietly DEF BeginByHand, CommitByHand, RollbackByHand
<1>2. Does(t).at = "runs" /\ Does(t).call \notin InTransaction
  BY DEF BeginByHand, CommitByHand, RollbackByHand, Runs, At, InTransaction
<1>3. /\ owner' = owner /\ made' = made /\ slot' = slot /\ calls' = calls /\ ended' = ended
      /\ begins' = begins \/ begins' = begins + 1
      /\ begun' \in {0, begun, begins'}
      /\ \/ begun' = begun /\ written' = written /\ saved' = saved
         \/ begun' = 0 /\ written' = {} /\ saved' \in {saved, saved \cup written}
         \/ begun' = begins + 1 /\ written' = written /\ saved' = saved
  <2>1. CASE BeginByHand(t)
    <3>1. CASE begun = 0
      BY <2>1, <3>1 DEF BeginByHand, Unlocks, registryVars
    <3>2. CASE begun # 0
      BY <2>1, <3>2 DEF BeginByHand, Unlocks, registryVars
    <3> QED
      BY <3>1, <3>2
  <2>2. CASE RollbackByHand(t)
    BY <2>2 DEF RollbackByHand, Unlocks, registryVars
  <2>3. ASSUME NEW refused \in BOOLEAN, CommitByHand(t, refused)
        PROVE  /\ owner' = owner /\ made' = made /\ slot' = slot /\ calls' = calls
               /\ ended' = ended /\ begins' = begins
               /\ \/ begun' = begun /\ written' = written /\ saved' = saved
                  \/ begun' = 0 /\ written' = {} /\ saved' = saved \cup written
    BY <2>3 DEF CommitByHand, Unlocks, registryVars, sqliteVars
  <2> QED
    BY <2>1, <2>2, <2>3
<1>4. written' \in SUBSET Nat /\ saved' \in SUBSET Nat
  BY <1>3 DEF Shape
<1> QED
  BY <1>1, <1>2, <1>3, <1>4, QuietStays, QuietCarries

LEMMA IsStoppedStays ==
  ASSUME Shape, NEW t \in Threads, NEW why \in {"interrupt", "deadline"}, IsStopped(t, why)
  PROVE  Stays(t) /\ Carries(t)
<1>1. Quiet(t)
  <2>1. CASE Does(t).call = "next"
    BY <2>1, ReturnsQuietly DEF IsStopped
  <2>2. CASE Does(t).call # "next"
    <3> DEFINE d == [Does(t) EXCEPT !.at = "words", !.why = why]
    <3>1. thread' = [thread EXCEPT ![t].does = d]
      BY <2>2 DEF IsStopped, Does
    <3>2. d \in Acts /\ d.at = "words"
      BY ThreadFacts DEF Acts, Ats
    <3> HIDE DEF d
    <3> QED
      BY <3>1, <3>2, DoesEffect DEF Quiet, Writes
  <2> QED
    BY <2>1, <2>2
<1>2. Does(t).at = "runs" /\ Does(t).call \notin InTransaction
  BY DEF IsStopped, At, InTransaction
<1>3. /\ owner' = owner /\ made' = made /\ slot' = slot /\ calls' = calls /\ begins' = begins
      /\ ended' = ended /\ saved' = saved
      /\ (begun' = begun /\ written' = written) \/ (begun' = 0 /\ written' = {})
  BY DEF IsStopped, Unlocks, registryVars
<1>4. written' \in SUBSET Nat /\ saved' \in SUBSET Nat
  BY <1>3 DEF Shape
<1> QED
  BY <1>1, <1>2, <1>3, <1>4, QuietStays, QuietCarries

LEMMA ElsewhereStays ==
  ASSUME Shape, NEW t \in Threads,
         Words(t) \/ CloseCursor(t) \/ Push(t) \/ Retry(t) \/ Forget(t) \/ CloseConn(t)
  PROVE  Stays(t) /\ Carries(t)
<1>1. Quiet(t)
  <2>1. CASE Words(t) \/ CloseCursor(t) \/ Retry(t) \/ CloseConn(t)
    BY <2>1, ReturnsQuietly DEF Words, CloseCursor, Retry, CloseConn
  <2>2. CASE Push(t)
    BY <2>2, GoesEffect DEF Push, Quiet, Ats, Writes
  <2>3. CASE Forget(t) /\ known
    <3> DEFINE d == [Does(t) EXCEPT !.at = "waits", !.call = "close"]
    <3>1. thread' = [thread EXCEPT ![t].does = d]
      BY <2>3 DEF Forget, Does
    <3>2. d \in Acts /\ d.at = "waits" /\ d.call = "close"
      BY ThreadFacts DEF Acts, Ats, CallNames
    <3> HIDE DEF d
    <3> QED
      BY <3>1, <3>2, DoesEffect DEF Quiet, InTransaction, Writes
  <2>4. CASE Forget(t) /\ ~known
    BY <2>4, ReturnsQuietly DEF Forget
  <2> QED
    BY <2>1, <2>2, <2>3, <2>4
<1>2. /\ Does(t).at \notin {"enters", "asleep", "leaves", "runs"}
      /\ Does(t).at = "waits" => Does(t).call \notin InTransaction
  BY DEF Words, CloseCursor, Push, Retry, Forget, CloseConn, Waits, At, InTransaction
<1>3. /\ owner' = owner /\ made' = made /\ slot' = slot
      /\ calls' = calls /\ begins' = begins /\ ended' = ended
      /\ saved' = saved
      /\ (begun' = begun /\ written' = written) \/ (begun' = 0 /\ written' = {})
  BY DEF Words, CloseCursor, Push, Retry, Forget, CloseConn, registryVars, sqliteVars, boundVars
<1>4. written' \in SUBSET Nat /\ saved' \in SUBSET Nat
  BY <1>3 DEF Shape
<1> QED
  BY <1>1, <1>2, <1>3, <1>4, QuietStays, QuietCarries

LEMMA DropStays ==
  ASSUME Shape, NEW t \in Threads, NEW c \in Cursors, Drop(t, c)
  PROVE  Stays(t) /\ Carries(t)
<1>1. Does(t).at = "free"
  BY DEF Drop, At
<1>2. Quiet(t)
  <2>1. CASE holder = Nobody
    BY <1>1, <2>1 DEF Drop, Quiet, Shape, ThreadSet, Does, Frames, Others, Writes
  <2>2. CASE holder # Nobody
    <3> DEFINE d == [Does(t) EXCEPT !.at = "pushes", !.cursor = c]
    <3>1. thread' = [thread EXCEPT ![t].does = d]
      BY <2>2 DEF Drop, Does
    <3>2. d \in Acts /\ d.at = "pushes"
      BY ThreadFacts DEF Acts, Ats
    <3> HIDE DEF d
    <3> QED
      BY <3>1, <3>2, DoesEffect DEF Quiet, Writes
  <2> QED
    BY <2>1, <2>2
<1> QED
  <2>1. /\ owner' = owner /\ made' = made /\ slot' = slot /\ calls' = calls /\ begins' = begins
        /\ ended' = ended /\ begun' = begun /\ written' = written /\ saved' = saved
    BY DEF Drop, registryVars, sqliteVars, boundVars
  <2>2. written \in SUBSET Nat /\ saved \in SUBSET Nat
    BY DEF Shape
  <2> QED
    BY <1>1, <1>2, <2>1, <2>2, QuietStays, QuietCarries

(* Calls of the program, and the ends of a db.transaction's own statements. *)
LEMMA ProgramStays ==
  ASSUME Shape, NEW t \in Threads, Interrupt(t) \/ Close(t)
  PROVE  Stays(t) /\ Carries(t)
<1>1. Does(t).at = "free"
  BY DEF Interrupt, Close, Calls, At
<1>2. Quiet(t)
  <2>1. CASE Interrupt(t)
    BY <1>1, <2>1 DEF Interrupt, Quiet, Shape, ThreadSet, Does, Frames, Others, Writes
  <2>2. CASE Close(t)
    BY <2>2, GoesEffect DEF Close, Quiet, Ats, Writes
  <2> QED
    BY <2>1, <2>2
<1>3. /\ owner' = owner /\ made' = made /\ slot' \in {0, slot}
      /\ calls' = calls \/ (calls' = calls + 1 /\ calls < MaxCalls)
      /\ begins' = begins /\ ended' = ended /\ UNCHANGED sqliteVars
  <2>1. CASE Interrupt(t)
    BY <2>1 DEF Interrupt, registryVars, boundVars
  <2>2. CASE Close(t)
    BY <2>2 DEF Close, Calls
  <2> QED
    BY <2>1, <2>2
<1>4. begun' = begun /\ written' \in SUBSET Nat /\ saved' \in SUBSET Nat
  BY <1>3 DEF Shape, sqliteVars
<1>6. written' = written /\ saved' = saved
  BY <1>3 DEF sqliteVars
<1>5. Does(t).at \notin {"enters", "asleep", "leaves", "waits", "runs"}
  BY <1>1
<1> QED
  BY <1>2, <1>3, <1>4, <1>5, <1>6, QuietStays, QuietCarries

LEMMA EndBodyStays ==
  ASSUME Shape, NEW t \in Threads, NEW call \in {"commit", "rollback"}, EndBody(t, call), known
  PROVE  Stays(t) /\ Carries(t)
<1>1. /\ Asks(t, call, NoCursor, FALSE) /\ Does(t).at = "free" /\ Frames(t) # <<>>
      /\ calls' = calls
  BY DEF EndBody, InBody, At
<1>2. /\ thread' \in ThreadSet /\ Others(t) /\ Frames(t)' = Frames(t)
      /\ Does(t)'.at = "waits" /\ Does(t)'.call = call
  <2>1. call \in CallNames /\ NoCursor \in Cursors \cup {NoCursor} /\ calls' \in Nat
    BY <1>1 DEF Shape, CallNames, Statements, InTransaction
  <2> QED
    BY <1>1, <2>1, AsksEffect
<1>3. ~Starting(t) /\ ~Starting(t)' /\ ~At(t, "leaves") /\ ~At(t, "leaves")'
      /\ ~Sleeping(t) /\ ~Sleeping(t)'
  BY <1>1, <1>2 DEF Starting, Sleeping, At
<1> QED
  <2>1. Stays(t)
    BY <1>1, <1>2, <1>3 DEF EndBody, Stays, Shape, registryVars, sqliteVars
  <2>2. Carries(t)
    BY <1>1, <1>2 DEF EndBody, Carries, Shape, Writes, sqliteVars
  <2> QED
    BY <2>1, <2>2

LEMMA SleepStays ==
  ASSUME Turns, NEW t \in Threads, Sleep(t)
  PROVE  Stays(t) /\ Carries(t)
<1>1. thread' \in ThreadSet /\ Others(t) /\ Frames(t)' = Frames(t)
      /\ Does(t)'.at = "asleep" /\ Does(t).at = "enters"
  BY GoesEffect DEF Turns, Sleep, At, Ats
<1>2. Starting(t) /\ Starting(t)' /\ ~Ending(t)' /\ ~At(t, "leaves") /\ ~At(t, "leaves")'
      /\ Sleeping(t) /\ Sleeping(t)'
  BY <1>1 DEF Starting, Ending, Sleeping, At
<1> QED
  <2>1. Stays(t)
    BY <1>1, <1>2 DEF Sleep, Stays, Turns, Shape, registryVars, sqliteVars, boundVars
  <2>2. Carries(t)
    BY <1>1 DEF Sleep, Carries, Turns, Shape, Writes, sqliteVars, boundVars
  <2> QED
    BY <2>1, <2>2

-----------------------------------------------------------------------------
(* The steps that leave a thread at the end of a db.transaction.           *)
Finishes(t) ==
  /\ thread' \in ThreadSet /\ Others(t) /\ Frames(t)' = Frames(t) /\ Frames(t) # <<>>
  /\ Does(t)'.at = "leaves" /\ Does(t).at \notin {"enters", "asleep"}
  /\ Starting(t) \/ \E x \in ended' : x.id = Frame(t).id
  /\ owner' = owner /\ made' = made /\ slot' = slot /\ calls' = calls /\ begins' = begins
  /\ ended' \in SUBSET Ends /\ ended \subseteq ended' /\ begun' \in {0, begun}
  /\ written' \in SUBSET Nat /\ saved' \in SUBSET Nat

(* Such a step keeps the slot's invariant.                                 *)
LEMMA FinishesTurns ==
  ASSUME Turns, NEW t \in Threads, Finishes(t)
  PROVE  Turns'
<1>1. Shape'
  BY DEF Turns, Shape, Finishes, ThreadSet
<1>2. Nested'
  <2> SUFFICES ASSUME NEW u \in Threads
               PROVE  /\ Starting(u)' \/ Ending(u)' \/ At(u, "leaves")' => Frames(u)' # <<>>
                      /\ Starting(u)' => Frame(u)'.id = 0 /\ Frame(u)'.wrote = {}
                      /\ At(u, "leaves")' => Frame(u)'.id = 0 \/ \E x \in ended' : x.id = Frame(u)'.id
                      /\ \A i \in 1..Len(Frames(u)') :
                           /\ Frames(u)'[i].slot \in 1..made' /\ Frames(u)'[i].id <= begins'
                           /\ Frames(u)'[i].id = 0 => i = Len(Frames(u)') /\ (Starting(u)' \/ At(u, "leaves")')
    BY DEF Nested
  <2>1. CASE u # t
    <3>1. /\ Others(t) /\ ended \subseteq ended' /\ made' = made /\ begins' = begins
          /\ made \in Nat /\ begins \in Nat /\ Shape /\ Nested
      BY DEF Turns, Finishes, Shape
    <3>2. made <= made' /\ begins <= begins'
      BY <3>1
    <3> QED
      BY <2>1, <3>1, <3>2, OthersNested
  <2>2. CASE u = t
    <3>1. Frames(t)' = Frames(t) /\ Frame(t)' = Frame(t)
      BY DEF Finishes, Frame
    <3>2. ~Starting(t)' /\ ~Ending(t)' /\ At(t, "leaves")'
      BY DEF Finishes, Starting, Ending, At
    <3>3. Frame(t).id = 0 \/ \E x \in ended' : x.id = Frame(t).id
      BY DEF Finishes, Turns, Nested
    <3> QED
      BY <2>2, <3>1, <3>2, <3>3 DEF Turns, Nested, Finishes
  <2> QED
    BY <2>1, <2>2
<1>3. Counted'
  <2>1. \A u \in Threads, s \in Slots : Holds(u, s)' = Holds(u, s)
    <3> SUFFICES ASSUME NEW u \in Threads, NEW s \in Slots PROVE Holds(u, s)' = Holds(u, s)
      OBVIOUS
    <3>1. CASE u # t
      BY <3>1 DEF Finishes, Others, Holds
    <3>2. CASE u = t
      BY <3>2 DEF Finishes, Holds
    <3> QED
      BY <3>1, <3>2
  <2> QED
    BY <2>1 DEF Turns, Counted, Finishes
<1> QED
  BY <1>1, <1>2, <1>3 DEF Turns

(* The end of a transaction is put on record as its thread goes on to leave. *)
LEMMA EndsEffect ==
  ASSUME Shape, NEW t \in Threads, Frames(t) # <<>>,
         NEW said \in {"value", "refused", "error", "closed"}, EndsFrame(t, said)
  PROVE  /\ ended' \in SUBSET Ends /\ ended \subseteq ended'
         /\ \E x \in ended' : x.id = Frame(t).id
<1> DEFINE y == [id |-> Frame(t).id, wrote |-> Frame(t).wrote, said |-> said,
                 own |-> begun = Frame(t).id]
<1>1. ended' = ended \cup {y}
  BY DEF EndsFrame
<1>2. y \in Ends
  BY TopIsFrame DEF Ends
<1>3. y.id = Frame(t).id
  OBVIOUS
<1> HIDE DEF y
<1>4. ended \in SUBSET Ends
  BY DEF Shape
<1> QED
  BY <1>1, <1>2, <1>3, <1>4

LEMMA FindsClosedFinishes ==
  ASSUME Turns, NEW t \in Threads, FindsClosed(t), Does(t).call \in InTransaction
  PROVE  Finishes(t)
<1>1. thread' \in ThreadSet /\ Others(t) /\ Frames(t)' = Frames(t)
      /\ Does(t)'.at = "leaves" /\ Does(t).at = "waits"
  BY GoesEffect DEF Turns, FindsClosed, Waits, At, Ats
<1>2. Starting(t) \/ Ending(t)
  BY <1>1 DEF Starting, Ending, InTransaction
<1>3. Frames(t) # <<>>
  BY <1>2 DEF Turns, Nested
<1>4. /\ owner' = owner /\ made' = made /\ slot' = slot /\ calls' = calls /\ begins' = begins
      /\ begun' = begun /\ written' = written /\ saved' = saved
  BY DEF FindsClosed, registryVars, sqliteVars
<1>5. written \in SUBSET Nat /\ saved \in SUBSET Nat /\ ended \in SUBSET Ends
  BY DEF Turns, Shape
<1>6. CASE Does(t).call = "begin"
  <2>1. ended' = ended
    BY <1>6 DEF FindsClosed
  <2>2. Starting(t)
    BY <1>1, <1>6 DEF Starting
  <2> QED
    BY <1>1, <1>3, <1>4, <1>5, <2>1, <2>2 DEF Finishes
<1>7. CASE Does(t).call \in {"commit", "rollback"}
  <2>1. EndsFrame(t, "closed")
    BY <1>7 DEF FindsClosed
  <2>2. /\ ended' \in SUBSET Ends /\ ended \subseteq ended'
        /\ \E x \in ended' : x.id = Frame(t).id
    BY <1>3, <2>1, EndsEffect DEF Turns
  <2> QED
    BY <1>1, <1>3, <1>4, <1>5, <2>2 DEF Finishes
<1> QED
  BY <1>6, <1>7 DEF InTransaction

LEMMA EndBodyFinishes ==
  ASSUME Turns, NEW t \in Threads, NEW call \in {"commit", "rollback"}, EndBody(t, call), ~known
  PROVE  Finishes(t)
<1>1. Goes(t, "leaves") /\ EndsFrame(t, "closed") /\ Does(t).at = "free" /\ Frames(t) # <<>>
  BY DEF EndBody, InBody, At
<1>2. thread' \in ThreadSet /\ Others(t) /\ Frames(t)' = Frames(t) /\ Does(t)'.at = "leaves"
  BY <1>1, GoesEffect DEF Turns, Ats
<1>3. /\ ended' \in SUBSET Ends /\ ended \subseteq ended'
      /\ \E x \in ended' : x.id = Frame(t).id
  BY <1>1, EndsEffect DEF Turns
<1>4. /\ owner' = owner /\ made' = made /\ slot' = slot /\ calls' = calls /\ begins' = begins
      /\ begun' = begun /\ written' = written /\ saved' = saved
  BY DEF EndBody, registryVars, sqliteVars
<1>5. written \in SUBSET Nat /\ saved \in SUBSET Nat
  BY DEF Turns, Shape
<1> QED
  BY <1>1, <1>2, <1>3, <1>4, <1>5 DEF Finishes

LEMMA EndRunsFinishes ==
  ASSUME Turns, NEW t \in Threads, Rollback(t) \/ \E refused \in BOOLEAN : Commit(t, refused)
  PROVE  Finishes(t)
<1>1. Goes(t, "leaves") /\ Does(t).at = "runs" /\ Does(t).call \in {"commit", "rollback"}
  BY DEF Rollback, Commit, Runs, At
<1>2. thread' \in ThreadSet /\ Others(t) /\ Frames(t)' = Frames(t) /\ Does(t)'.at = "leaves"
  BY <1>1, GoesEffect DEF Turns, Ats
<1>3. Frames(t) # <<>>
  BY <1>1 DEF Turns, Nested, Ending
<1>4. EndsFrame(t, "value") \/ EndsFrame(t, "refused") \/ EndsFrame(t, "error")
  <2>1. CASE Rollback(t)
    BY <2>1 DEF Rollback
  <2>2. ASSUME NEW refused \in BOOLEAN, Commit(t, refused)
        PROVE  EndsFrame(t, "value") \/ EndsFrame(t, "refused") \/ EndsFrame(t, "error")
    <3>1. CASE ~(refused \/ begun = 0)
      BY <2>2, <3>1 DEF Commit
    <3>2. CASE begun = 0
      BY <2>2, <3>2 DEF Commit
    <3>3. CASE refused /\ begun # 0
      BY <2>2, <3>3 DEF Commit
    <3> QED
      BY <3>1, <3>2, <3>3
  <2> QED
    BY <2>1, <2>2
<1>5. /\ ended' \in SUBSET Ends /\ ended \subseteq ended'
      /\ \E x \in ended' : x.id = Frame(t).id
  BY <1>3, <1>4, EndsEffect DEF Turns
<1>6. /\ owner' = owner /\ made' = made /\ slot' = slot /\ calls' = calls /\ begins' = begins
      /\ begun' \in {0, begun}
  BY DEF Rollback, Commit, Unlocks, registryVars, sqliteVars
<1>7. written \in SUBSET Nat /\ saved \in SUBSET Nat
  BY DEF Turns, Shape
<1>8. written' \in SUBSET Nat /\ saved' \in SUBSET Nat
  BY <1>7 DEF Rollback, Commit, sqliteVars
<1> QED
  BY <1>1, <1>2, <1>3, <1>5, <1>6, <1>8 DEF Finishes

LEMMA BeginFinishes ==
  ASSUME Turns, NEW t \in Threads, Begin(t), begun # 0
  PROVE  Finishes(t)
<1>1. Goes(t, "leaves") /\ Does(t).at = "runs" /\ Does(t).call = "begin"
  BY DEF Begin, Runs, At
<1>2. thread' \in ThreadSet /\ Others(t) /\ Frames(t)' = Frames(t) /\ Does(t)'.at = "leaves"
  BY <1>1, GoesEffect DEF Turns, Ats
<1>3. Starting(t)
  BY <1>1 DEF Starting
<1>4. Frames(t) # <<>>
  BY <1>3 DEF Turns, Nested
<1>5. /\ owner' = owner /\ made' = made /\ slot' = slot /\ calls' = calls /\ begins' = begins
      /\ begun' = begun /\ written' = written /\ saved' = saved /\ ended' = ended
  BY DEF Begin, Unlocks, registryVars
<1>6. written \in SUBSET Nat /\ saved \in SUBSET Nat /\ ended \in SUBSET Ends
  BY DEF Turns, Shape
<1> QED
  BY <1>1, <1>2, <1>3, <1>4, <1>5, <1>6 DEF Finishes

-----------------------------------------------------------------------------
(* The four steps that change what a transaction is.                       *)

(* Whose slots stay as they are.                                           *)
LEMMA OthersHold ==
  ASSUME NEW t \in Threads, NEW u \in Threads, u # t, Others(t), NEW s
  PROVE  Holds(u, s)' = Holds(u, s)
  BY DEF Others, Holds

LEMMA HoldsFinite ==
  ASSUME Shape, NEW t \in Threads, NEW s
  PROVE  IsFiniteSet(Holds(t, s)) /\ Cardinality(Holds(t, s)) \in Nat
<1>1. Len(Frames(t)) \in Nat
  BY ThreadFacts
<1>2. IsFiniteSet(1..Len(Frames(t)))
  BY <1>1, FS_Interval
<1>3. Holds(t, s) \subseteq 1..Len(Frames(t))
  BY DEF Holds
<1> QED
  BY <1>2, <1>3, FS_Subset, FS_CardinalityType

(* A thread enters a transaction: a new slot, one it owns, or it must wait. *)
LEMMA EnterTurns ==
  ASSUME Turns, NEW t \in Threads, Enter(t)
  PROVE  Turns'
<1> DEFINE f == [slot |-> slot', id |-> 0, wrote |-> {}]
           d == [Free EXCEPT !.at = "enters"]
<1> USE DEF Turns
<1>1. /\ Does(t).at = "free" /\ calls \in Nat /\ calls < MaxCalls /\ calls' = calls + 1
  BY DEF Enter, Calls, At, Shape
<1>2. /\ made' \in Nat /\ made <= made' /\ made' <= calls' /\ slot' \in 1..made' /\ slot' \in Slots
      /\ slot' \in 0..made'
  <2>1. slot \in 0..made /\ made \in Nat /\ made <= calls /\ MaxCalls \in Nat
    BY BoundsAssumption DEF Shape
  <2>2. CASE slot = 0
    BY <1>1, <2>1, <2>2 DEF Enter, Slots
  <2>3. CASE slot # 0
    BY <1>1, <2>1, <2>3 DEF Enter, Slots
  <2> QED
    BY <2>2, <2>3
<1>3. /\ owner' = owner /\ begun' = begun /\ begins' = begins /\ ended' = ended
      /\ written' = written /\ saved' = saved
  BY DEF Enter, sqliteVars
<1>4. f \in FrameSet /\ f.slot = slot' /\ f.id = 0 /\ f.wrote = {}
  BY <1>2 DEF FrameSet
<1>5. d \in Acts /\ d.at = "enters" /\ d.call = "none"
  BY DEF Free, Acts, Ats, CallNames
<1>6. thread' = [thread EXCEPT ![t] = [does |-> d, frames |-> Append(Frames(t), f)]]
  BY DEF Enter, Frames
<1>7. Frames(t) \in Seq(FrameSet)
  BY ThreadFacts
<1> HIDE DEF f, d
<1>8. Append(Frames(t), f) \in Seq(FrameSet) /\ Append(Frames(t), f) # <<>>
      /\ Len(Append(Frames(t), f)) = Len(Frames(t)) + 1 /\ Len(Frames(t)) \in Nat
      /\ Append(Frames(t), f)[Len(Frames(t)) + 1] = f
      /\ \A i \in 1..Len(Frames(t)) : Append(Frames(t), f)[i] = Frames(t)[i]
  BY <1>4, <1>7
<1>9. /\ thread' \in ThreadSet /\ Others(t) /\ Does(t)' = d /\ Frames(t)' = Append(Frames(t), f)
  BY <1>5, <1>6, <1>8 DEF Shape, ThreadSet, Does, Frames, Others
<1>10. Shape'
  <2>1. calls' \in 0..MaxCalls
    BY <1>1, BoundsAssumption
  <2>2. begun \in Nat /\ begins \in Nat /\ begun <= begins
    BY DEF Shape
  <2> QED
    BY <1>2, <1>3, <1>9, <2>1, <2>2 DEF Shape, ThreadSet
<1>11. Nested'
  <2> SUFFICES ASSUME NEW u \in Threads
               PROVE  /\ Starting(u)' \/ Ending(u)' \/ At(u, "leaves")' => Frames(u)' # <<>>
                      /\ Starting(u)' => Frame(u)'.id = 0 /\ Frame(u)'.wrote = {}
                      /\ At(u, "leaves")' => Frame(u)'.id = 0 \/ \E x \in ended' : x.id = Frame(u)'.id
                      /\ \A i \in 1..Len(Frames(u)') :
                           /\ Frames(u)'[i].slot \in 1..made' /\ Frames(u)'[i].id <= begins'
                           /\ Frames(u)'[i].id = 0 => i = Len(Frames(u)') /\ (Starting(u)' \/ At(u, "leaves")')
    BY DEF Nested
  <2>1. begins \in Nat /\ made \in Nat
    BY DEF Shape
  <2>2. CASE u # t
    <3>1. ended \subseteq ended' /\ begins' \in Nat /\ begins <= begins'
      BY <1>3, <2>1
    <3> QED
      BY <1>2, <1>9, <2>2, <3>1, OthersNested
  <2>3. CASE u = t
    <3>1. Frame(t)' = f
      <4>1. Frame(t)' = Frames(t)'[Len(Frames(t)')]
        BY DEF Frame, Last
      <4> QED
        BY <1>8, <1>9, <4>1
    <3>2. Starting(t)' /\ ~At(t, "leaves")'
      BY <1>5, <1>9 DEF Starting, At
    <3>3. ASSUME NEW i \in 1..Len(Frames(t)')
          PROVE  /\ Frames(t)'[i].slot \in 1..made' /\ Frames(t)'[i].id <= begins'
                 /\ Frames(t)'[i].id = 0 => i = Len(Frames(t)') /\ (Starting(t)' \/ At(t, "leaves")')
      <4>1. CASE i = Len(Frames(t)) + 1
        BY <1>2, <1>3, <1>4, <1>8, <1>9, <2>1, <3>2, <4>1
      <4>2. CASE i \in 1..Len(Frames(t))
        <5>1. Frames(t)'[i] = Frames(t)[i]
          BY <1>8, <1>9, <4>2
        <5>2. Frames(t)[i].slot \in 1..made /\ Frames(t)[i].id <= begins /\ Frames(t)[i].id # 0
          BY <1>1, <4>2 DEF Nested, Starting, At
        <5> QED
          BY <1>2, <1>3, <2>1, <5>1, <5>2
      <4> QED
        BY <1>8, <1>9, <4>1, <4>2
    <3> QED
      BY <1>4, <1>8, <1>9, <2>3, <3>1, <3>2, <3>3
  <2> QED
    BY <2>2, <2>3
<1>12. Counted'
  <2>1. ASSUME NEW s \in Slots PROVE Holds(t, s)' = Holds(t, s)
    <3>1. Holds(t, s)' = {i \in 1..(Len(Frames(t)) + 1) :
                           Append(Frames(t), f)[i].slot = s /\ i < Len(Frames(t)) + 1}
      BY <1>5, <1>8, <1>9 DEF Holds
    <3>2. Holds(t, s) = {i \in 1..Len(Frames(t)) : Frames(t)[i].slot = s}
      BY <1>1 DEF Holds
    <3> QED
      BY <1>8, <3>1, <3>2
  <2>2. \A u \in Threads, s \in Slots : Holds(u, s)' = Holds(u, s)
    BY <1>9, <2>1, OthersHold
  <2> QED
    BY <1>3, <2>2 DEF Counted
<1> QED
  BY <1>10, <1>11, <1>12

(* A count up and down.                                                    *)
LEMMA OneMore ==
  ASSUME NEW S, IsFiniteSet(S), NEW x, x \notin S
  PROVE  Cardinality(S \cup {x}) = Cardinality(S) + 1
  BY FS_AddElement

LEMMA OneLess ==
  ASSUME NEW S, IsFiniteSet(S), NEW x \in S
  PROVE  Cardinality(S \ {x}) = Cardinality(S) - 1 /\ Cardinality(S) # 0
  BY FS_RemoveElement, FS_EmptySet

(* It finds the slot free, or its own, and is deeper in it by one.         *)
LEMMA AcquireTurns ==
  ASSUME Turns, NEW t \in Threads, Acquire(t)
  PROVE  Turns'
<1> USE DEF Turns
<1> DEFINE n == Len(Frames(t))
<1>1. Does(t).at = "enters" /\ Starting(t) /\ Frames(t) # <<>>
  BY DEF Acquire, At, Starting, Nested
<1>a. PICK s \in Slots : s = Frame(t).slot
  BY <1>1, TopIsFrame
<1>2. n \in Nat /\ n \in 1..n /\ s = Frame(t).slot /\ Frame(t) = Frames(t)[n] /\ Frame(t).id = 0
  BY <1>1, <1>a, TopIsFrame DEF Nested
<1>3. /\ owner[s] = NoOwner \/ owner[s].thread = t
      /\ owner' = [owner EXCEPT ![s] = [thread |-> t, depth |-> owner[s].depth + 1]]
  BY <1>a DEF Acquire, Mine
<1>4. /\ made' = made /\ slot' = slot /\ calls' = calls /\ begins' = begins /\ ended' = ended
      /\ begun' = begun /\ written' = written /\ saved' = saved
  BY DEF Acquire, sqliteVars
<1>5. /\ thread' \in ThreadSet /\ Others(t) /\ Frames(t)' = Frames(t)
      /\ Does(t)'.at \notin {"enters", "asleep"} /\ ~Ending(t)'
      /\ Starting(t)' \/ At(t, "leaves")'
  <2>1. CASE known
    <3>1. Asks(t, "begin", NoCursor, FALSE) /\ calls' \in Nat /\ "begin" \in CallNames
      <4>1. calls' \in Nat
        BY <1>4 DEF Shape
      <4>2. "begin" \in CallNames
        BY DEF CallNames, Statements, InTransaction
      <4> QED
        BY <2>1, <4>1, <4>2 DEF Acquire
    <3>2. /\ thread' \in ThreadSet /\ Others(t) /\ Frames(t)' = Frames(t)
          /\ Does(t)'.at = "waits" /\ Does(t)'.call = "begin"
      BY <3>1, AsksEffect
    <3> QED
      BY <3>2 DEF Starting, Ending, At
  <2>2. CASE ~known
    <3>1. /\ thread' \in ThreadSet /\ Others(t) /\ Frames(t)' = Frames(t) /\ Does(t)'.at = "leaves"
      BY <2>2, GoesEffect DEF Acquire, Ats
    <3> QED
      BY <3>1 DEF Ending, At
  <2> QED
    BY <2>1, <2>2
<1>6. Frame(t)' = Frame(t)
  BY <1>5 DEF Frame
<1>7. owner[s].thread \in Threads \cup {Nobody} /\ owner[s].depth \in Nat
  BY <1>2 DEF Shape
<1>8. Shape'
  <2>1. [thread |-> t, depth |-> owner[s].depth + 1] \in [thread : Threads \cup {Nobody}, depth : Nat]
    BY <1>7
  <2>2. owner' \in [Slots -> [thread : Threads \cup {Nobody}, depth : Nat]]
    BY <1>2, <1>3, <2>1 DEF Shape
  <2> QED
    BY <1>4, <1>5, <2>2 DEF Shape, ThreadSet
<1>9. Nested'
  <2> SUFFICES ASSUME NEW u \in Threads
               PROVE  /\ Starting(u)' \/ Ending(u)' \/ At(u, "leaves")' => Frames(u)' # <<>>
                      /\ Starting(u)' => Frame(u)'.id = 0 /\ Frame(u)'.wrote = {}
                      /\ At(u, "leaves")' => Frame(u)'.id = 0 \/ \E x \in ended' : x.id = Frame(u)'.id
                      /\ \A i \in 1..Len(Frames(u)') :
                           /\ Frames(u)'[i].slot \in 1..made' /\ Frames(u)'[i].id <= begins'
                           /\ Frames(u)'[i].id = 0 => i = Len(Frames(u)') /\ (Starting(u)' \/ At(u, "leaves")')
    BY DEF Nested
  <2>1. CASE u # t
    <3>1. /\ ended \subseteq ended' /\ made \in Nat /\ begins \in Nat
          /\ made' = made /\ begins' = begins
      BY <1>4 DEF Shape
    <3>2. made <= made' /\ begins <= begins'
      BY <3>1
    <3> QED
      BY <1>5, <2>1, <3>1, <3>2, OthersNested
  <2>2. CASE u = t
    BY <1>1, <1>2, <1>4, <1>5, <1>6, <2>2 DEF Nested
  <2> QED
    BY <2>1, <2>2
<1>10. Counted'
  <2>1. Holds(t, s)' = Holds(t, s) \cup {n} /\ n \notin Holds(t, s)
    <3>1. Holds(t, s)' = {i \in 1..n : Frames(t)[i].slot = s}
      BY <1>5 DEF Holds
    <3>2. Holds(t, s) = {i \in 1..n : Frames(t)[i].slot = s /\ i < n}
      BY <1>1 DEF Holds
    <3>3. Frames(t)[n].slot = s
      BY <1>2
    <3> QED
      BY <1>2, <3>1, <3>2, <3>3
  <2>2. \A r \in Slots : r # s => Holds(t, r)' = Holds(t, r)
    BY <1>1, <1>2, <1>5 DEF Holds
  <2>3. Cardinality(Holds(t, s)) = owner[s].depth
    <3>1. CASE owner[s].thread = t
      BY <1>2, <3>1 DEF Counted
    <3>2. CASE owner[s] = NoOwner
      <4>1. owner[s].thread = Nobody /\ owner[s].depth = 0 /\ t # Nobody
        BY <3>2, NobodyAssumption DEF NoOwner, Nobody
      <4> QED
        BY <1>2, <4>1 DEF Counted
    <3> QED
      BY <1>3, <3>1, <3>2
  <2>4. Cardinality(Holds(t, s)') = owner[s].depth + 1
    BY <2>1, <2>3, HoldsFinite, OneMore
  <2>5. /\ owner'[s].thread = t /\ owner'[s].depth = owner[s].depth + 1
        /\ \A r \in Slots : r # s => owner'[r] = owner[r]
    BY <1>2, <1>3 DEF Shape
  <2>6. ASSUME NEW u \in Threads, u # t PROVE Cardinality(Holds(u, s)) = 0
    <3>1. owner[s].thread # u
      BY <1>3, <2>6, NobodyAssumption DEF NoOwner, Nobody
    <3> QED
      BY <1>2, <3>1 DEF Counted
  <2>7. \A u \in Threads, r \in Slots : u # t => Holds(u, r)' = Holds(u, r)
    BY <1>5, OthersHold
  <2>8. t # Nobody
    BY NobodyAssumption DEF Nobody
  <2> SUFFICES ASSUME NEW r \in Slots
               PROVE  /\ \A u \in Threads :
                           Cardinality(Holds(u, r)') = IF owner'[r].thread = u THEN owner'[r].depth ELSE 0
                      /\ owner'[r].depth = 0 <=> owner'[r].thread = Nobody
    BY DEF Counted
  <2>9. CASE r = s
    <3>1. owner'[s].thread = t /\ owner'[s].depth = owner[s].depth + 1 /\ owner'[s].depth # 0
      BY <1>7, <2>5
    <3>2. \A u \in Threads : u # t => Cardinality(Holds(u, s)') = 0
      BY <1>2, <2>6, <2>7
    <3>3. \A u \in Threads :
            Cardinality(Holds(u, s)') = IF owner'[s].thread = u THEN owner'[s].depth ELSE 0
      BY <2>4, <3>1, <3>2
    <3> QED
      BY <2>8, <2>9, <3>1, <3>3
  <2>10. CASE r # s
    BY <2>2, <2>5, <2>7, <2>10 DEF Counted
  <2> QED
    BY <2>9, <2>10
<1> QED
  BY <1>8, <1>9, <1>10

(* BEGIN gives its transaction a number.                                   *)
LEMMA BeginTurns ==
  ASSUME Turns, NEW t \in Threads, Begin(t), begun = 0
  PROVE  Turns'
<1> USE DEF Turns
<1> DEFINE n == Len(Frames(t))
           f == [Frame(t) EXCEPT !.id = begins + 1]
<1>1. Does(t).at = "runs" /\ Starting(t) /\ Frames(t) # <<>>
  BY DEF Begin, Runs, At, Starting, Nested
<1>2. n \in Nat /\ n \in 1..n /\ Frame(t) = Frames(t)[n] /\ Frame(t) \in FrameSet
  BY <1>1, TopIsFrame
<1>3. begins \in Nat /\ made \in Nat
  BY DEF Shape
<1>4. f \in FrameSet /\ f.slot = Frame(t).slot /\ f.id = begins + 1
  BY <1>2, <1>3 DEF FrameSet
<1>5. /\ made' = made /\ slot' = slot /\ owner' = owner /\ calls' = calls /\ begins' = begins + 1
      /\ ended' = ended /\ begun' = begins + 1 /\ written' = written /\ saved' = saved
      /\ ReturnsWith(t, f)
  BY DEF Begin, Unlocks, registryVars
<1> HIDE DEF f
<1>6. /\ thread' \in ThreadSet /\ Others(t) /\ Does(t)' = Free
      /\ Len(Frames(t)') = n /\ Frames(t)' # <<>> /\ Frames(t)'[n] = f
      /\ \A i \in 1..n : i # n => Frames(t)'[i] = Frames(t)[i]
  BY <1>1, <1>4, <1>5, ReturnsWithEffect
<1>7. Shape'
  BY <1>3, <1>5, <1>6 DEF Shape, ThreadSet
<1>8. Nested'
  <2> SUFFICES ASSUME NEW u \in Threads
               PROVE  /\ Starting(u)' \/ Ending(u)' \/ At(u, "leaves")' => Frames(u)' # <<>>
                      /\ Starting(u)' => Frame(u)'.id = 0 /\ Frame(u)'.wrote = {}
                      /\ At(u, "leaves")' => Frame(u)'.id = 0 \/ \E x \in ended' : x.id = Frame(u)'.id
                      /\ \A i \in 1..Len(Frames(u)') :
                           /\ Frames(u)'[i].slot \in 1..made' /\ Frames(u)'[i].id <= begins'
                           /\ Frames(u)'[i].id = 0 => i = Len(Frames(u)') /\ (Starting(u)' \/ At(u, "leaves")')
    BY DEF Nested
  <2>1. CASE u # t
    <3>1. /\ ended \subseteq ended' /\ made' \in Nat /\ begins' \in Nat
          /\ made <= made' /\ begins <= begins'
      BY <1>3, <1>5
    <3> QED
      BY <1>6, <2>1, <3>1, OthersNested
  <2>2. CASE u = t
    <3>1. ~Starting(t)' /\ ~At(t, "leaves")' /\ ~Ending(t)'
      BY <1>6, FreeIsQuiet DEF Starting, Ending, At
    <3>2. ASSUME NEW i \in 1..n
          PROVE  Frames(t)'[i].slot \in 1..made' /\ Frames(t)'[i].id <= begins' /\ Frames(t)'[i].id # 0
      <4>1. CASE i = n
        <5>1. Frame(t).slot \in 1..made
          BY <1>2 DEF Nested
        <5> QED
          BY <1>3, <1>4, <1>5, <1>6, <4>1, <5>1
      <4>2. CASE i # n
        <5>1. Frames(t)[i].slot \in 1..made /\ Frames(t)[i].id <= begins /\ Frames(t)[i].id # 0
          BY <4>2 DEF Nested
        <5>2. Frames(t)[i].id \in Nat
          <6>1. Frames(t)[i] \in FrameSet
            <7>1. Frames(t) \in Seq(FrameSet) /\ i \in 1..Len(Frames(t))
              BY ThreadFacts
            <7> QED
              BY <7>1
          <6> QED
            BY <6>1 DEF FrameSet
        <5> QED
          BY <1>3, <1>5, <1>6, <4>2, <5>1, <5>2
      <4> QED
        BY <4>1, <4>2
    <3> QED
      BY <1>6, <2>2, <3>1, <3>2
  <2> QED
    BY <2>1, <2>2
<1>9. Counted'
  <2>1. ASSUME NEW r \in Slots PROVE Holds(t, r)' = Holds(t, r)
    <3>1. \A i \in 1..n : Frames(t)'[i].slot = Frames(t)[i].slot
      BY <1>2, <1>4, <1>6
    <3>2. Does(t)'.at = "free"
      BY <1>6, FreeIsQuiet
    <3> QED
      BY <1>1, <1>6, <3>1, <3>2 DEF Holds
  <2>2. \A u \in Threads, r \in Slots : Holds(u, r)' = Holds(u, r)
    BY <1>6, <2>1, OthersHold
  <2> QED
    BY <1>5, <2>2 DEF Counted
<1> QED
  BY <1>7, <1>8, <1>9

(* A thread leaves the innermost of its transactions, and may wake another. *)
Left(t) ==
  /\ thread' \in ThreadSet /\ Does(t)' = Free /\ Frames(t)' = Front(Frames(t))
  /\ \A u \in Threads : u # t =>
       /\ Frames(u)' = Frames(u)
       /\ Does(u)' = Does(u)
          \/ (Does(u).at = "asleep" /\ Does(u)'.at = "enters" /\ Does(u)'.call = Does(u).call
              /\ Does(u)'.cursor = Does(u).cursor)

LEMMA LeaveEffect ==
  ASSUME Shape, NEW t \in Threads, Frames(t) # <<>>, Leave(t)
  PROVE  Left(t)
<1> DEFINE e == [does |-> Free, frames |-> Front(Frames(t))]
           left == [thread EXCEPT ![t] = e]
<1>1. Front(Frames(t)) \in Seq(FrameSet)
  BY FrontOf, ThreadFacts
<1>2. e \in [does : Acts, frames : Seq(FrameSet)] /\ e.does = Free /\ e.frames = Front(Frames(t))
  BY <1>1, FreeAct
<1>3. /\ thread' = left
      \/ \E u \in Threads : At(u, "asleep") /\ thread' = [left EXCEPT ![u].does.at = "enters"]
  BY DEF Leave, Frames
<1>4. Does(t).at = "leaves"
  BY DEF Leave, At
<1> HIDE DEF e
<1>5. left \in ThreadSet /\ left[t] = e /\ \A u \in Threads : u # t => left[u] = thread[u]
  BY <1>2 DEF Shape, ThreadSet
<1>6. CASE thread' = left
  BY <1>2, <1>5, <1>6 DEF Left, Does, Frames
<1>7. ASSUME NEW u \in Threads, At(u, "asleep"), thread' = [left EXCEPT ![u].does.at = "enters"]
      PROVE  Left(t)
  <2>1. u # t /\ Does(u).at = "asleep"
    BY <1>4, <1>7 DEF At
  <2> DEFINE d == [Does(u) EXCEPT !.at = "enters"]
  <2>2. d \in Acts /\ d.at = "enters" /\ d.call = Does(u).call /\ d.cursor = Does(u).cursor
    BY ThreadFacts DEF Acts, Ats
  <2>3. left[u].does = Does(u)
    BY <1>5, <2>1 DEF Does
  <2> HIDE DEF left
  <2>4. thread' = [left EXCEPT ![u].does = d]
    BY <1>7, <2>3
  <2> HIDE DEF d
  <2>5. /\ thread' \in ThreadSet /\ thread'[t] = e /\ thread'[u].does = d
        /\ thread'[u].frames = thread[u].frames
        /\ \A v \in Threads : v # t /\ v # u => thread'[v] = thread[v]
    BY <1>5, <2>1, <2>2, <2>4 DEF ThreadSet
  <2>6. Does(t)' = Free /\ Frames(t)' = Front(Frames(t)) /\ Does(u)' = d /\ Frames(u)' = Frames(u)
        /\ \A v \in Threads : v # t /\ v # u => Does(v)' = Does(v) /\ Frames(v)' = Frames(v)
    BY <1>2, <2>5 DEF Does, Frames
  <2> QED
    BY <2>1, <2>2, <2>5, <2>6 DEF Left
<1> QED
  BY <1>3, <1>6, <1>7

(* The slot's owner is less deep in it, or gone and another may have it.   *)
LEMMA LeaveTurns ==
  ASSUME Turns, NEW t \in Threads, Leave(t)
  PROVE  Turns'
<1> USE DEF Turns
<1> DEFINE n == Len(Frames(t))
<1>1. Does(t).at = "leaves" /\ Frames(t) # <<>>
  BY DEF Leave, At, Nested
<1>2. PICK s \in Slots : s = Frame(t).slot
  BY <1>1, TopIsFrame
<1>3. n \in Nat /\ n > 0 /\ n \in 1..n /\ Frame(t) = Frames(t)[n]
  BY <1>1, TopIsFrame
<1>4. /\ made' = made /\ slot' = slot /\ calls' = calls /\ begins' = begins /\ ended' = ended
      /\ begun' = begun /\ written' = written /\ saved' = saved
  BY DEF Leave, sqliteVars, boundVars
<1>5. \/ owner[s].depth > 1 /\ owner' = [owner EXCEPT ![s].depth = @ - 1]
      \/ owner[s].depth = 1 /\ owner' = [owner EXCEPT ![s] = NoOwner]
  BY <1>2 DEF Leave
<1>6. Left(t)
  BY <1>1, LeaveEffect
<1>7. /\ Len(Frames(t)') = n - 1 /\ Frames(t)' \in Seq(FrameSet)
      /\ \A i \in 1..(n - 1) : i \in 1..n /\ Frames(t)'[i] = Frames(t)[i]
  <2>1. Frames(t) \in Seq(FrameSet)
    BY ThreadFacts
  <2> QED
    BY <1>1, <1>6, <2>1, FrontOf DEF Left
<1>8. ASSUME NEW u \in Threads, u # t
      PROVE  /\ Frames(u)' = Frames(u)
             /\ Starting(u)' <=> Starting(u)
             /\ Ending(u)' <=> Ending(u)
             /\ At(u, "leaves")' <=> At(u, "leaves")
             /\ Sleeping(u)' <=> Sleeping(u)
  BY <1>6, <1>8 DEF Left, Starting, Ending, At, Sleeping
<1>9. owner[s].thread \in Threads \cup {Nobody} /\ owner[s].depth \in Nat
  BY DEF Shape
<1>10. Shape'
  <2>1. owner' \in [Slots -> [thread : Threads \cup {Nobody}, depth : Nat]]
    <3>1. CASE owner[s].depth > 1 /\ owner' = [owner EXCEPT ![s].depth = @ - 1]
      <4>1. owner[s] \in [thread : Threads \cup {Nobody}, depth : Nat] /\ owner[s].depth - 1 \in Nat
        BY <1>9, <3>1 DEF Shape
      <4>2. [owner[s] EXCEPT !.depth = @ - 1] \in [thread : Threads \cup {Nobody}, depth : Nat]
        BY <4>1
      <4> QED
        BY <3>1, <4>2 DEF Shape
    <3>2. CASE owner' = [owner EXCEPT ![s] = NoOwner]
      BY <3>2 DEF Shape, NoOwner
    <3> QED
      BY <1>5, <3>1, <3>2
  <2> QED
    BY <1>4, <1>6, <2>1 DEF Shape, ThreadSet, Left
<1>11. Nested'
  <2> SUFFICES ASSUME NEW u \in Threads
               PROVE  /\ Starting(u)' \/ Ending(u)' \/ At(u, "leaves")' => Frames(u)' # <<>>
                      /\ Starting(u)' => Frame(u)'.id = 0 /\ Frame(u)'.wrote = {}
                      /\ At(u, "leaves")' => Frame(u)'.id = 0 \/ \E x \in ended' : x.id = Frame(u)'.id
                      /\ \A i \in 1..Len(Frames(u)') :
                           /\ Frames(u)'[i].slot \in 1..made' /\ Frames(u)'[i].id <= begins'
                           /\ Frames(u)'[i].id = 0 => i = Len(Frames(u)') /\ (Starting(u)' \/ At(u, "leaves")')
    BY DEF Nested
  <2>1. CASE u # t
    <3>1. /\ ended \subseteq ended' /\ made' \in Nat /\ begins' \in Nat
          /\ made <= made' /\ begins <= begins'
      BY <1>4 DEF Shape
    <3> QED
      BY <1>8, <2>1, <3>1, SameNested
  <2>2. CASE u = t
    <3>1. ~Starting(t)' /\ ~At(t, "leaves")' /\ ~Ending(t)'
      BY <1>6, FreeIsQuiet DEF Starting, Ending, At, Left
    <3>2. \A i \in 1..(n - 1) :
            Frames(t)[i].slot \in 1..made /\ Frames(t)[i].id <= begins /\ Frames(t)[i].id # 0
      <4> SUFFICES ASSUME NEW i \in 1..(n - 1)
                   PROVE  Frames(t)[i].slot \in 1..made /\ Frames(t)[i].id <= begins /\ Frames(t)[i].id # 0
        OBVIOUS
      <4>1. i \in 1..n /\ i # n
        BY <1>3
      <4> QED
        BY <4>1 DEF Nested
    <3> QED
      BY <1>4, <1>7, <2>2, <3>1, <3>2
  <2> QED
    BY <2>1, <2>2
<1>12. Counted'
  <2>1. Holds(t, s)' = Holds(t, s) \ {n} /\ n \in Holds(t, s)
        /\ \A r \in Slots : r # s => Holds(t, r)' = Holds(t, r)
    <3>1. \A r \in Slots : Holds(t, r)' = {i \in 1..(n - 1) : Frames(t)[i].slot = r}
      <4>1. Does(t)'.at \notin {"enters", "asleep"}
        BY <1>6, FreeIsQuiet DEF Left
      <4> QED
        BY <1>7, <4>1 DEF Holds
    <3>2. \A r \in Slots : Holds(t, r) = {i \in 1..n : Frames(t)[i].slot = r}
      BY <1>1 DEF Holds
    <3>3. Frames(t)[n].slot = s
      BY <1>2, <1>3
    <3>4. Holds(t, s)' = Holds(t, s) \ {n} /\ n \in Holds(t, s)
      BY <1>3, <3>1, <3>2, <3>3
    <3>5. ASSUME NEW r \in Slots, r # s PROVE Holds(t, r)' = Holds(t, r)
      <4>1. \A i \in 1..n : Frames(t)[i].slot = r => i \in 1..(n - 1)
        BY <1>3, <3>3, <3>5
      <4>2. \A i \in 1..(n - 1) : i \in 1..n
        BY <1>3
      <4>3. {i \in 1..(n - 1) : Frames(t)[i].slot = r} = {i \in 1..n : Frames(t)[i].slot = r}
        <5> HIDE DEF n
        <5> QED
          BY <4>1, <4>2
      <4> QED
        BY <3>1, <3>2, <4>3
    <3> QED
      BY <3>4, <3>5
  <2>2. Cardinality(Holds(t, s)) # 0 /\ Cardinality(Holds(t, s)') = Cardinality(Holds(t, s)) - 1
    BY <2>1, HoldsFinite, OneLess
  <2>3. owner[s].thread = t /\ Cardinality(Holds(t, s)) = owner[s].depth
    BY <2>2 DEF Counted
  <2>4. \A u \in Threads, r \in Slots : u # t => Holds(u, r)' = Holds(u, r)
    <3> SUFFICES ASSUME NEW u \in Threads, NEW r \in Slots, u # t PROVE Holds(u, r)' = Holds(u, r)
      OBVIOUS
    <3> QED
      BY <1>8 DEF Holds, Sleeping
  <2>5. \A u \in Threads : u # t => Cardinality(Holds(u, s)') = 0
    BY <2>3, <2>4 DEF Counted
  <2>6. \A r \in Slots : r # s => owner'[r] = owner[r]
    BY <1>5 DEF Shape
  <2>7. t # Nobody
    BY NobodyAssumption DEF Nobody
  <2> SUFFICES ASSUME NEW r \in Slots
               PROVE  /\ \A u \in Threads :
                           Cardinality(Holds(u, r)') = IF owner'[r].thread = u THEN owner'[r].depth ELSE 0
                      /\ owner'[r].depth = 0 <=> owner'[r].thread = Nobody
    BY DEF Counted
  <2>8. CASE r = s
    <3>1. CASE owner[s].depth > 1 /\ owner' = [owner EXCEPT ![s].depth = @ - 1]
      <4>1. owner'[s].thread = t /\ owner'[s].depth = owner[s].depth - 1 /\ owner'[s].depth # 0
        BY <1>9, <2>3, <3>1 DEF Shape
      <4>2. \A u \in Threads :
              Cardinality(Holds(u, s)') = IF owner'[s].thread = u THEN owner'[s].depth ELSE 0
        BY <2>2, <2>3, <2>5, <4>1
      <4> QED
        BY <2>7, <2>8, <4>1, <4>2
    <3>2. CASE owner[s].depth = 1 /\ owner' = [owner EXCEPT ![s] = NoOwner]
      <4>1. owner'[s].thread = Nobody /\ owner'[s].depth = 0
        BY <3>2 DEF Shape, NoOwner
      <4>2. \A u \in Threads : Cardinality(Holds(u, s)') = 0
        BY <2>2, <2>3, <2>5, <3>2
      <4> QED
        BY <2>8, <4>1, <4>2
    <3> QED
      BY <1>5, <3>1, <3>2
  <2>9. CASE r # s
    <3>1. \A u \in Threads : Holds(u, r)' = Holds(u, r)
      BY <2>1, <2>4, <2>9
    <3> QED
      BY <2>6, <2>9, <3>1 DEF Counted
  <2> QED
    BY <2>8, <2>9
<1> QED
  BY <1>10, <1>11, <1>12

(* Every step keeps the slot's invariant.                                  *)
LEMMA InitTurns == Init => Turns
<1> SUFFICES ASSUME Init PROVE Turns
  OBVIOUS
<1>1. /\ thread = [t \in Threads |-> [does |-> Free, frames |-> <<>>]] /\ owner = [s \in Slots |-> NoOwner]
      /\ slot = 0 /\ made = 0 /\ calls = 0 /\ begins = 0 /\ begun = 0 /\ written = {} /\ saved = {} /\ ended = {}
  BY DEF Init
<1>2. \A t \in Threads : Does(t) = Free /\ Frames(t) = <<>>
  BY <1>1 DEF Does, Frames
<1>3. Shape
  <2>1. thread \in [Threads -> [does : Acts, frames : Seq(FrameSet)]]
    BY <1>1, FreeAct
  <2>2. owner \in [Slots -> [thread : Threads \cup {Nobody}, depth : Nat]]
    BY <1>1 DEF NoOwner
  <2> QED
    BY <1>1, <2>1, <2>2, BoundsAssumption DEF Shape
<1>4. Nested
  BY <1>2, FreeIsQuiet DEF Nested, Starting, Ending, At
<1>5. Counted
  <2>1. \A t \in Threads, s \in Slots : Holds(t, s) = {}
    BY <1>2 DEF Holds
  <2> QED
    BY <1>1, <2>1, FS_EmptySet DEF Counted, NoOwner
<1> QED
  BY <1>3, <1>4, <1>5 DEF Turns

LEMMA NextTurns == Turns /\ [Next]_vars => Turns'
<1> SUFFICES ASSUME Turns, [Next]_vars PROVE Turns'
  OBVIOUS
<1> USE DEF Turns
<1>1. CASE UNCHANGED vars
  <2>1. /\ UNCHANGED <<thread, owner, slot, made, calls, begins, begun, written, saved, ended>>
    BY <1>1 DEF vars, registryVars, sqliteVars, boundVars
  <2>2. \A t \in Threads : /\ Does(t)' = Does(t) /\ Frames(t)' = Frames(t) /\ Frame(t)' = Frame(t)
                            /\ (Starting(t)' <=> Starting(t))
                            /\ (Ending(t)' <=> Ending(t))
                            /\ \A s \in Slots : Holds(t, s)' = Holds(t, s)
    BY <2>1 DEF Does, Frames, Frame, Starting, Ending, Holds, At
  <2>3. Shape'
    BY <2>1 DEF Shape
  <2>4. Nested'
    BY <2>1, <2>2 DEF Nested, At
  <2>5. Counted'
    BY <2>1, <2>2 DEF Counted
  <2> QED
    BY <2>3, <2>4, <2>5
<1>2. ASSUME NEW t \in Threads, GoesOn(t) PROVE Turns'
  <2>1. CASE Lock(t)
    BY <2>1, LockStays, StaysTurns
  <2>2. CASE FindsClosed(t)
    BY <2>2, FindsClosedStays, StaysTurns, FindsClosedFinishes, FinishesTurns
  <2>3. CASE StatementEnds(t)
    <3>1. CASE WriteRuns(t)
      BY <3>1, WriteRunsStays, StaysTurns
    <3>2. CASE ReadRuns(t) \/ Fails(t) \/ CursorOpens(t) \/ NextRuns(t)
      BY <3>2, StatementStays, StaysTurns
    <3>3. CASE Begin(t)
      BY <3>3, BeginFinishes, FinishesTurns, BeginTurns
    <3>4. CASE Rollback(t) \/ \E refused \in BOOLEAN : Commit(t, refused)
      BY <3>4, EndRunsFinishes, FinishesTurns
    <3>5. CASE \E why \in {"interrupt", "deadline"} : IsStopped(t, why)
      BY <3>5, IsStoppedStays, StaysTurns
    <3>6. CASE BeginByHand(t) \/ RollbackByHand(t) \/ \E refused \in BOOLEAN : CommitByHand(t, refused)
      BY <3>6, ByHandStays, StaysTurns
    <3> QED
      BY <2>3, <3>1, <3>2, <3>3, <3>4, <3>5, <3>6 DEF StatementEnds
  <2>4. CASE Words(t) \/ CloseCursor(t) \/ Push(t) \/ Retry(t) \/ Forget(t) \/ CloseConn(t)
    BY <2>4, ElsewhereStays, StaysTurns
  <2>5. CASE Acquire(t)
    BY <2>5, AcquireTurns
  <2>6. CASE Sleep(t)
    BY <2>6, SleepStays, StaysTurns
  <2>7. CASE Leave(t)
    BY <2>7, LeaveTurns
  <2> QED
    BY <1>2, <2>1, <2>2, <2>3, <2>4, <2>5, <2>6, <2>7 DEF GoesOn
<1>3. ASSUME NEW t \in Threads, Program(t) PROVE Turns'
  <2>1. ASSUME NEW call \in {"read", "write"} \cup ByHand, NEW limit \in BOOLEAN, Execute(t, call, limit)
        PROVE  Turns'
    BY <2>1, ExecuteStays, StaysTurns
  <2>2. ASSUME NEW c \in Cursors, OpenCursor(t, c) PROVE Turns'
    BY <2>2, OpenCursorStays, StaysTurns
  <2>3. ASSUME NEW c \in Cursors, Drop(t, c) PROVE Turns'
    BY <2>3, DropStays, StaysTurns
  <2>4. ASSUME NEW c \in Cursors, NEW call \in {"next", "close_cursor"}, NEW limit \in BOOLEAN,
               UseCursor(t, call, c, limit)
        PROVE  Turns'
    BY <2>4, UseCursorStays, StaysTurns
  <2>5. CASE Interrupt(t) \/ Close(t)
    BY <2>5, ProgramStays, StaysTurns
  <2>6. CASE Enter(t)
    BY <2>6, EnterTurns
  <2>7. ASSUME NEW call \in {"commit", "rollback"}, EndBody(t, call) PROVE Turns'
    <3>1. CASE known
      BY <2>7, <3>1, EndBodyStays, StaysTurns
    <3>2. CASE ~known
      BY <2>7, <3>2, EndBodyFinishes, FinishesTurns
    <3> QED
      BY <3>1, <3>2
  <2> QED
    BY <1>3, <2>1, <2>2, <2>3, <2>4, <2>5, <2>6, <2>7 DEF Program
<1> QED
  BY <1>1, <1>2, <1>3 DEF Next

-----------------------------------------------------------------------------
(* Only the holder of the lock runs a statement, and of an open connection. *)
Locked == \A t \in Threads : At(t, "runs") => holder = t /\ open

(* As long as the registry has the connection, a slot is made a second     *)
(* time only while the db.close that let go of the first is on its way; and *)
(* who took the connection from the registry has yet to close it.          *)
Forgotten ==
  /\ known /\ (made > 1 \/ (made > 0 /\ slot = 0)) => \E u \in Threads : At(u, "forgets")
  /\ ~known /\ open => \E u \in Threads : At(u, "waits") /\ Does(u).call = "close"

(* The steps of a thread that is not about to close the connection, nor to *)
(* take the slot or leave it.                                              *)
Moves(t) ==
  /\ Others(t) /\ UNCHANGED <<known, slot, made, owner, open>>
  /\ Does(t).at \notin {"enters", "asleep", "forgets"}
  /\ ~(Does(t).at = "waits" /\ Does(t).call = "close")
  /\ Does(t)'.at \notin {"enters", "asleep", "runs"}
  /\ (holder' = holder /\ Does(t).at # "runs") \/ (holder' = Nobody /\ Does(t).at = "runs")

LEMMA MovesKeep ==
  ASSUME Locked, Forgotten, SleepersAreWoken, NEW t \in Threads, Moves(t)
  PROVE  Locked' /\ Forgotten' /\ SleepersAreWoken'
<1>1. \A u \in Threads : u # t => Does(u)' = Does(u) /\ Frame(u)' = Frame(u)
  BY DEF Moves, Others, Frame
<1>2. Locked'
  BY <1>1 DEF Locked, Moves, At
<1>3. Forgotten'
  BY <1>1 DEF Forgotten, Moves, At
<1>4. SleepersAreWoken'
  BY <1>1 DEF SleepersAreWoken, Moves, At
<1> QED
  BY <1>2, <1>3, <1>4

LEMMA CallsAreNatural ==
  ASSUME Shape, NEW t \in Threads, Calls(t) \/ calls' = calls
  PROVE  calls' \in Nat
  BY DEF Calls, Shape

LEMMA SomeCallNames ==
  {"read", "write", "next", "close_cursor", "begin", "commit", "rollback"} \cup ByHand
    \subseteq CallNames \ {"cursor"}
  BY DEF CallNames, Statements, InTransaction, ByHand

LEMMA StatementMoves ==
  ASSUME Turns, NEW t \in Threads, StatementEnds(t)
  PROVE  Moves(t)
<1> USE DEF Turns
<1>1. At(t, "runs") /\ Unlocks(t)
  BY DEF StatementEnds, WriteRuns, ReadRuns, Fails, CursorOpens, NextRuns, Begin, Rollback, Commit,
         BeginByHand, RollbackByHand, CommitByHand, IsStopped, Runs
<1>2. Others(t) /\ Does(t)'.at \in {"free", "leaves", "words"}
  <2>1. CASE Returns(t)
    BY <2>1, ReturnsEffect, FreeIsQuiet
  <2>2. CASE Goes(t, "leaves")
    BY <2>2, GoesEffect DEF Ats
  <2>3. CASE \E frame : ReturnsWith(t, frame)
    BY <2>3, FreeIsQuiet DEF ReturnsWith, Shape, Others, Does, Frames
  <2>4. ASSUME NEW why \in {"interrupt", "deadline"},
               thread' = [thread EXCEPT ![t].does = [@ EXCEPT !.at = "words", !.why = why]]
        PROVE  Others(t) /\ Does(t)'.at = "words"
    <3> DEFINE d == [Does(t) EXCEPT !.at = "words", !.why = why]
    <3>1. thread' = [thread EXCEPT ![t].does = d]
      BY <2>4 DEF Does
    <3>2. d \in Acts /\ d.at = "words"
      BY ThreadFacts DEF Acts, Ats
    <3> HIDE DEF d
    <3> QED
      BY <3>1, <3>2, DoesEffect
  <2>5. \/ Returns(t) \/ Goes(t, "leaves") \/ \E frame : ReturnsWith(t, frame)
        \/ \E why \in {"interrupt", "deadline"} :
             thread' = [thread EXCEPT ![t].does = [@ EXCEPT !.at = "words", !.why = why]]
    <3>1. CASE ReadRuns(t) \/ Fails(t) \/ CursorOpens(t) \/ NextRuns(t) \/ BeginByHand(t) \/ RollbackByHand(t)
      BY <3>1 DEF ReadRuns, Fails, CursorOpens, NextRuns, BeginByHand, RollbackByHand
    <3>2. CASE WriteRuns(t)
      BY <3>2 DEF WriteRuns
    <3>3. CASE Begin(t)
      BY <3>3 DEF Begin
    <3>4. CASE Rollback(t) \/ \E refused \in BOOLEAN : Commit(t, refused) \/ CommitByHand(t, refused)
      BY <3>4 DEF Rollback, Commit, CommitByHand
    <3>5. CASE \E why \in {"interrupt", "deadline"} : IsStopped(t, why)
      BY <3>5 DEF IsStopped
    <3> QED
      BY <3>1, <3>2, <3>3, <3>4, <3>5 DEF StatementEnds
  <2> QED
    BY <2>1, <2>2, <2>3, <2>4, <2>5
<1> QED
  BY <1>1, <1>2 DEF Moves, Unlocks, At, registryVars

LEMMA CallMoves ==
  ASSUME Turns, NEW t \in Threads,
         FindsClosed(t) \/ Words(t) \/ CloseCursor(t) \/ Push(t) \/ Retry(t)
  PROVE  Moves(t)
<1> USE DEF Turns
<1>1. /\ UNCHANGED <<known, slot, made, owner, open, holder>>
      /\ Does(t).at \in {"waits", "words", "pushes", "retries"}
      /\ Does(t).at = "waits" => Does(t).call # "close"
  BY DEF FindsClosed, Words, CloseCursor, Push, Retry, Waits, At, Statements, InTransaction, ByHand,
         registryVars, stateVars
<1>2. Returns(t) \/ Goes(t, "leaves") \/ Goes(t, "retries")
  BY DEF FindsClosed, Words, CloseCursor, Push, Retry
<1>3. Others(t) /\ Does(t)'.at \in {"free", "leaves", "retries"}
  BY <1>2, ReturnsEffect, FreeIsQuiet, GoesEffect DEF Ats
<1> QED
  BY <1>1, <1>3 DEF Moves

LEMMA ProgramMoves ==
  ASSUME Turns, NEW t \in Threads,
         \/ \E call \in {"read", "write"} \cup ByHand, limit \in BOOLEAN : Execute(t, call, limit)
         \/ \E c \in Cursors : OpenCursor(t, c) \/ Drop(t, c)
         \/ \E c \in Cursors, call \in {"next", "close_cursor"}, limit \in BOOLEAN : UseCursor(t, call, c, limit)
         \/ \E call \in {"commit", "rollback"} : EndBody(t, call)
  PROVE  Moves(t)
<1> USE DEF Turns
<1>1. /\ UNCHANGED <<known, slot, made, owner, open, holder>> /\ Does(t).at = "free"
  BY DEF Execute, OpenCursor, Drop, UseCursor, EndBody, InBody, Calls, At, registryVars, stateVars
<1>2. Others(t) /\ Does(t)'.at \in {"free", "waits", "leaves", "pushes"}
  <2>1. ASSUME NEW call \in CallNames, NEW c \in Cursors \cup {NoCursor}, NEW limit \in BOOLEAN,
               calls' \in Nat, Asks(t, call, c, limit)
        PROVE  Others(t) /\ Does(t)'.at = "waits"
    BY <2>1, AsksEffect
  <2>2. ASSUME NEW call \in {"read", "write"} \cup ByHand, NEW limit \in BOOLEAN, Execute(t, call, limit)
        PROVE  Others(t) /\ Does(t)'.at = "waits"
    BY <2>1, <2>2, CallsAreNatural, SomeCallNames DEF Execute
  <2>3. ASSUME NEW c \in Cursors, OpenCursor(t, c) PROVE Others(t) /\ Does(t)'.at = "waits"
    <3>1. "cursor" \in CallNames
      BY DEF CallNames, Statements
    <3> QED
      BY <2>1, <2>3, <3>1, CallsAreNatural DEF OpenCursor
  <2>4. ASSUME NEW c \in Cursors, Drop(t, c) PROVE Others(t) /\ Does(t)'.at \in {"free", "pushes"}
    <3>1. CASE holder = Nobody
      BY <1>1, <2>4, <3>1 DEF Drop, Others, Does, Frames
    <3>2. CASE holder # Nobody
      <4> DEFINE d == [Does(t) EXCEPT !.at = "pushes", !.cursor = c]
      <4>1. thread' = [thread EXCEPT ![t].does = d]
        BY <2>4, <3>2 DEF Drop, Does
      <4>2. d \in Acts /\ d.at = "pushes"
        BY ThreadFacts DEF Acts, Ats
      <4> HIDE DEF d
      <4> QED
        BY <4>1, <4>2, DoesEffect
    <3> QED
      BY <3>1, <3>2
  <2>5. ASSUME NEW c \in Cursors, NEW call \in {"next", "close_cursor"}, NEW limit \in BOOLEAN,
               UseCursor(t, call, c, limit)
        PROVE  Others(t) /\ Does(t)'.at = "waits"
    BY <2>1, <2>5, CallsAreNatural, SomeCallNames DEF UseCursor
  <2>6. ASSUME NEW call \in {"commit", "rollback"}, EndBody(t, call)
        PROVE  Others(t) /\ Does(t)'.at \in {"waits", "leaves"}
    <3>1. CASE known
      BY <2>1, <2>6, <3>1, CallsAreNatural, SomeCallNames DEF EndBody
    <3>2. CASE ~known
      BY <2>6, <3>2, GoesEffect DEF EndBody, Ats
    <3> QED
      BY <3>1, <3>2
  <2> QED
    BY <2>2, <2>3, <2>4, <2>5, <2>6
<1> QED
  BY <1>1, <1>2 DEF Moves

(* A statement takes the lock: nobody else runs one.                       *)
LEMMA LockKeeps ==
  ASSUME Turns, Locked, Forgotten, SleepersAreWoken, NEW t \in Threads, Lock(t)
  PROVE  Locked' /\ Forgotten' /\ SleepersAreWoken'
<1>1. /\ Others(t) /\ Does(t).at = "waits" /\ Does(t)'.at = "runs" /\ Does(t).call # "close"
      /\ holder = Nobody /\ holder' = t /\ open /\ open' = open
      /\ UNCHANGED <<known, slot, made, owner>>
  BY GoesEffect DEF Turns, Lock, Waits, At, Ats, Statements, InTransaction, ByHand, registryVars
<1>2. \A u \in Threads : u # t => Does(u)' = Does(u) /\ Frame(u)' = Frame(u)
  BY <1>1 DEF Others, Frame
<1>3. Locked'
  BY <1>1, <1>2, NobodyAssumption DEF Locked, At, Nobody
<1>4. Forgotten'
  BY <1>1, <1>2 DEF Forgotten, At
<1>5. SleepersAreWoken'
  BY <1>1, <1>2 DEF SleepersAreWoken, At
<1> QED
  BY <1>3, <1>4, <1>5

(* db.close, from its slot to the connection.                              *)
LEMMA ClosesKeep ==
  ASSUME Turns, Locked, Forgotten, SleepersAreWoken, NEW t \in Threads,
         Close(t) \/ Forget(t) \/ CloseConn(t)
  PROVE  Locked' /\ Forgotten' /\ SleepersAreWoken'
<1>1. /\ Others(t) /\ Does(t).at \notin {"runs", "enters", "asleep"}
      /\ Does(t)'.at \notin {"runs", "enters", "asleep"}
      /\ owner' = owner /\ made' = made /\ holder' = holder
  <2>1. CASE Close(t)
    BY <2>1, GoesEffect DEF Turns, Close, Calls, At, Ats, stateVars
  <2>2. CASE Forget(t) /\ known
    <3> DEFINE d == [Does(t) EXCEPT !.at = "waits", !.call = "close"]
    <3>1. thread' = [thread EXCEPT ![t].does = d]
      BY <2>2 DEF Forget, Does
    <3>2. d \in Acts /\ d.at = "waits"
      BY ThreadFacts DEF Turns, Acts, Ats, CallNames
    <3> HIDE DEF d
    <3> QED
      BY <2>2, <3>1, <3>2, DoesEffect DEF Turns, Forget, At, stateVars
  <2>3. CASE (Forget(t) /\ ~known) \/ CloseConn(t)
    <3>1. Returns(t)
      BY <2>3 DEF Forget, CloseConn
    <3> QED
      BY <2>3, <3>1, ReturnsEffect, FreeIsQuiet DEF Turns, Forget, CloseConn, Waits, At, registryVars, stateVars
  <2> QED
    BY <2>1, <2>2, <2>3
<1>2. \A u \in Threads : u # t => Does(u)' = Does(u) /\ Frame(u)' = Frame(u)
  BY <1>1 DEF Others, Frame
<1>3. Locked'
  <2>1. CASE Close(t) \/ Forget(t)
    BY <1>1, <1>2, <2>1 DEF Close, Forget, Locked, At, stateVars
  <2>2. CASE CloseConn(t)
    BY <1>1, <1>2, <2>2, NobodyAssumption DEF CloseConn, Waits, Locked, At, Nobody
  <2> QED
    BY <2>1, <2>2
<1>4. Forgotten'
  <2>1. CASE Close(t)
    <3>1. Does(t).at = "free" /\ At(t, "forgets")' /\ known' = known /\ open' = open
      BY <2>1, GoesEffect DEF Turns, Close, Calls, At, Ats, stateVars
    <3> QED
      BY <1>2, <3>1 DEF Forgotten, At
  <2>2. CASE Forget(t) /\ known
    <3>1. Does(t)'.at = "waits" /\ Does(t)'.call = "close"
      <4> DEFINE d == [Does(t) EXCEPT !.at = "waits", !.call = "close"]
      <4>1. thread' = [thread EXCEPT ![t].does = d]
        BY <2>2 DEF Forget, Does
      <4>2. d \in Acts /\ d.at = "waits" /\ d.call = "close"
        BY ThreadFacts DEF Turns, Acts, Ats, CallNames
      <4> HIDE DEF d
      <4> QED
        BY <4>1, <4>2, DoesEffect DEF Turns
    <3>2. known' = FALSE
      BY <2>2 DEF Forget
    <3> QED
      BY <3>1, <3>2 DEF Forgotten, At
  <2>3. CASE Forget(t) /\ ~known
    <3>1. known' = FALSE /\ open' = open /\ Does(t).at = "forgets"
      BY <2>3 DEF Forget, At, stateVars
    <3> QED
      BY <1>2, <2>3, <3>1 DEF Forgotten, At
  <2>4. CASE CloseConn(t)
    <3>1. known' = known /\ slot' = slot /\ open' = FALSE /\ Does(t).at = "waits"
      BY <2>4 DEF CloseConn, Waits, At, registryVars
    <3> QED
      BY <1>1, <1>2, <3>1 DEF Forgotten, At
  <2> QED
    BY <2>1, <2>2, <2>3, <2>4
<1>5. SleepersAreWoken'
  BY <1>1, <1>2 DEF SleepersAreWoken, At
<1> QED
  BY <1>3, <1>4, <1>5

(* A slot is made for the first db.transaction, or for one that comes while *)
(* a db.close is between letting go of the slot and of the connection.     *)
LEMMA EnterKeeps ==
  ASSUME Turns, Locked, Forgotten, SleepersAreWoken, NEW t \in Threads, Enter(t)
  PROVE  Locked' /\ Forgotten' /\ SleepersAreWoken'
<1> DEFINE d == [Free EXCEPT !.at = "enters"]
<1>1. /\ Does(t).at = "free" /\ UNCHANGED <<known, owner, open, holder>>
      /\ \/ slot = 0 /\ slot' = made + 1 /\ made' = made + 1
         \/ slot # 0 /\ slot' = slot /\ made' = made
  BY DEF Enter, Calls, At, stateVars
<1>2. d.at = "enters"
  BY DEF Free
<1>3. \E s : thread' = [thread EXCEPT ![t] = [does |-> d, frames |-> s]]
  BY DEF Enter
<1> HIDE DEF d
<1>4. Does(t)'.at = "enters" /\ \A u \in Threads : u # t => Does(u)' = Does(u) /\ Frame(u)' = Frame(u)
  BY <1>2, <1>3 DEF Turns, Shape, Does, Frame, Frames
<1>5. Locked'
  BY <1>1, <1>4 DEF Locked, At
<1>6. Forgotten'
  <2>1. made \in Nat /\ slot \in 0..made
    BY DEF Turns, Shape
  <2> QED
    BY <1>1, <1>4, <2>1 DEF Forgotten, At
<1>7. SleepersAreWoken'
  BY <1>1, <1>4 DEF SleepersAreWoken, At
<1> QED
  BY <1>5, <1>6, <1>7

(* A slot that is taken, and one that somebody goes to sleep on, is not    *)
(* free; and who lets one go wakes a sleeper, if there is any.             *)
LEMMA AcquireKeeps ==
  ASSUME Turns, Locked, Forgotten, SleepersAreWoken, NEW t \in Threads, Acquire(t)
  PROVE  Locked' /\ Forgotten' /\ SleepersAreWoken'
<1>1. Does(t).at = "enters" /\ Frames(t) # <<>> /\ UNCHANGED <<known, slot, made, open, holder>>
  BY DEF Acquire, At, Turns, Nested, Starting, stateVars
<1>2. PICK s \in Slots : s = Frame(t).slot
  BY <1>1, TopIsFrame DEF Turns
<1>3. Others(t) /\ Does(t)'.at \in {"waits", "leaves"}
  <2>1. CASE known
    BY <2>1, AsksEffect, CallsAreNatural, SomeCallNames DEF Turns, Acquire
  <2>2. CASE ~known
    BY <2>2, GoesEffect DEF Turns, Acquire, Ats
  <2> QED
    BY <2>1, <2>2
<1>4. \A u \in Threads : u # t => Does(u)' = Does(u) /\ Frame(u)' = Frame(u)
  BY <1>3 DEF Others, Frame
<1>5. owner'[s] # NoOwner /\ \A r \in Slots : r # s => owner'[r] = owner[r]
  <2>1. owner' = [owner EXCEPT ![s] = [thread |-> t, depth |-> owner[s].depth + 1]]
    BY <1>2 DEF Acquire
  <2>2. owner'[s].thread = t /\ \A r \in Slots : r # s => owner'[r] = owner[r]
    BY <2>1 DEF Turns, Shape
  <2> QED
    BY <2>2, NobodyAssumption DEF NoOwner, Nobody
<1>6. Locked' /\ Forgotten'
  BY <1>1, <1>3, <1>4 DEF Locked, Forgotten, At
<1>7. SleepersAreWoken'
  <2> SUFFICES ASSUME NEW u \in Threads, At(u, "asleep")', owner'[Frame(u)'.slot] = NoOwner
               PROVE  \E v \in Threads : At(v, "enters")' /\ Frame(v)'.slot = Frame(u)'.slot
    BY DEF SleepersAreWoken
  <2>1. u # t /\ Does(u).at = "asleep" /\ Frame(u)' = Frame(u)
    BY <1>3, <1>4 DEF At
  <2>2. Frame(u).slot \in Slots
    BY <2>1, TopIsFrame DEF Turns, Nested, Starting, At
  <2>3. Frame(u).slot # s /\ owner[Frame(u).slot] = NoOwner
    BY <1>5, <2>1, <2>2
  <2>4. PICK v \in Threads : At(v, "enters") /\ Frame(v).slot = Frame(u).slot
    BY <2>1, <2>3 DEF SleepersAreWoken, At
  <2>5. v # t
    BY <1>2, <2>3, <2>4
  <2> QED
    BY <1>4, <2>1, <2>4, <2>5 DEF At
<1> QED
  BY <1>6, <1>7

LEMMA SleepKeeps ==
  ASSUME Turns, Locked, Forgotten, SleepersAreWoken, NEW t \in Threads, Sleep(t)
  PROVE  Locked' /\ Forgotten' /\ SleepersAreWoken'
<1>1. /\ Others(t) /\ Does(t).at = "enters" /\ Does(t)'.at = "asleep" /\ Frames(t)' = Frames(t)
      /\ UNCHANGED <<known, slot, made, owner, open, holder>> /\ owner[Frame(t).slot] # NoOwner
  BY GoesEffect DEF Turns, Sleep, At, Ats, registryVars, stateVars
<1>2. \A u \in Threads : (u # t => Does(u)' = Does(u)) /\ Frame(u)' = Frame(u)
  BY <1>1 DEF Others, Frame
<1>3. Locked' /\ Forgotten'
  BY <1>1, <1>2 DEF Locked, Forgotten, At
<1>4. SleepersAreWoken'
  <2> SUFFICES ASSUME NEW u \in Threads, At(u, "asleep")', owner'[Frame(u)'.slot] = NoOwner
               PROVE  \E v \in Threads : At(v, "enters")' /\ Frame(v)'.slot = Frame(u)'.slot
    BY DEF SleepersAreWoken
  <2>1. owner[Frame(u).slot] = NoOwner /\ u # t /\ Does(u).at = "asleep"
    BY <1>1, <1>2 DEF At
  <2>2. PICK v \in Threads : At(v, "enters") /\ Frame(v).slot = Frame(u).slot
    BY <2>1 DEF SleepersAreWoken, At
  <2>3. v # t
    BY <1>1, <2>1, <2>2
  <2> QED
    BY <1>2, <2>2, <2>3 DEF At
<1> QED
  BY <1>3, <1>4

LEMMA LeaveKeeps ==
  ASSUME Turns, Locked, Forgotten, SleepersAreWoken, NEW t \in Threads, Leave(t)
  PROVE  Locked' /\ Forgotten' /\ SleepersAreWoken'
<1>1. Does(t).at = "leaves" /\ Frames(t) # <<>> /\ UNCHANGED <<known, slot, made, open, holder>> /\ Left(t)
  BY LeaveEffect DEF Leave, At, Turns, Nested, stateVars
<1>2. PICK s \in Slots : s = Frame(t).slot
  BY <1>1, TopIsFrame DEF Turns
<1>3. /\ Does(t)'.at = "free"
      /\ \A u \in Threads : u # t =>
           /\ Frame(u)' = Frame(u)
           /\ Does(u)' = Does(u) \/ (Does(u).at = "asleep" /\ Does(u)'.at = "enters")
  BY <1>1, FreeIsQuiet DEF Left, Frame
<1>4. Locked' /\ Forgotten'
  <2>1. \A u \in Threads : /\ At(u, "runs")' => At(u, "runs")
                           /\ At(u, "forgets") => At(u, "forgets")'
                           /\ At(u, "waits") /\ Does(u).call = "close" => At(u, "waits")' /\ Does(u)'.call = "close"
    BY <1>1, <1>3 DEF At
  <2> QED
    BY <1>1, <2>1 DEF Locked, Forgotten
<1>5. \A r \in Slots : r # s => owner'[r] = owner[r]
  <2>1. owner \in [Slots -> [thread : Threads \cup {Nobody}, depth : Nat]]
    BY DEF Turns, Shape
  <2> QED
    BY <1>2, <2>1 DEF Leave
<1>6. owner'[s] = NoOwner =>
        (\A u \in Threads : ~(At(u, "asleep") /\ Frame(u).slot = s))
        \/ \E u \in Threads : At(u, "asleep") /\ Frame(u).slot = s /\ At(u, "enters")'
  <2>1. CASE owner[s].depth > 1 /\ owner' = [owner EXCEPT ![s].depth = @ - 1]
    <3>1. owner[s].depth \in Nat /\ owner'[s].depth = owner[s].depth - 1
      BY <2>1 DEF Turns, Shape
    <3>2. owner'[s].depth # 0
      BY <2>1, <3>1
    <3> QED
      BY <3>2 DEF NoOwner
  <2> DEFINE left == [thread EXCEPT ![t] = [does |-> Free, frames |-> Front(@.frames)]]
  <2>2. ASSUME NEW u \in Threads, At(u, "asleep"), Frame(u).slot = s,
               thread' = [left EXCEPT ![u].does.at = "enters"]
        PROVE  At(u, "enters")'
    <3>1. u # t
      BY <1>1, <2>2 DEF At
    <3>2. left[u] = thread[u] /\ u \in DOMAIN left
      BY <3>1 DEF Turns, Shape
    <3>3. thread[u].does \in Acts /\ thread[u] \in [does : Acts, frames : Seq(FrameSet)]
      BY DEF Turns, Shape
    <3> HIDE DEF left
    <3>4. thread'[u].does = [thread[u].does EXCEPT !.at = "enters"]
      BY <2>2, <3>2, <3>3
    <3> QED
      BY <3>3, <3>4 DEF At, Does, Acts
  <2> HIDE DEF left
  <2>3. CASE owner[s].depth = 1
    <3>1. \/ \A u \in Threads : ~(At(u, "asleep") /\ Frame(u).slot = s)
          \/ \E u \in Threads : /\ At(u, "asleep") /\ Frame(u).slot = s
                                /\ thread' = [left EXCEPT ![u].does.at = "enters"]
      BY <1>2, <2>3 DEF Leave, left
    <3> QED
      BY <2>2, <3>1
  <2> QED
    BY <1>2, <2>1, <2>3 DEF Leave
<1>7. SleepersAreWoken'
  <2> SUFFICES ASSUME NEW u \in Threads, At(u, "asleep")', owner'[Frame(u)'.slot] = NoOwner
               PROVE  \E v \in Threads : At(v, "enters")' /\ Frame(v)'.slot = Frame(u)'.slot
    BY DEF SleepersAreWoken
  <2>1. u # t /\ Does(u).at = "asleep" /\ Frame(u)' = Frame(u)
    BY <1>3 DEF At
  <2>2. Frame(u).slot \in Slots
    BY <2>1, TopIsFrame DEF Turns, Nested, Starting, At
  <2>3. CASE Frame(u).slot = s
    <3>1. PICK v \in Threads : At(v, "asleep") /\ Frame(v).slot = s /\ At(v, "enters")'
      BY <1>6, <2>1, <2>3 DEF At
    <3>2. Frame(v)' = Frame(v)
      BY <1>1, <1>3, <3>1 DEF At
    <3> QED
      BY <2>1, <2>3, <3>1, <3>2
  <2>4. CASE Frame(u).slot # s
    <3>1. PICK v \in Threads : At(v, "enters") /\ Frame(v).slot = Frame(u).slot
      BY <1>5, <2>1, <2>2, <2>4 DEF SleepersAreWoken, At
    <3>2. v # t /\ Does(v)' = Does(v) /\ Frame(v)' = Frame(v)
      BY <1>1, <1>3, <3>1 DEF At
    <3> QED
      BY <2>1, <3>1, <3>2 DEF At
  <2> QED
    BY <2>3, <2>4
<1> QED
  BY <1>4, <1>7

(* Every step keeps the lock, the closing and the waking.                  *)
LEMMA InitTaken == Init => Locked /\ Forgotten /\ SleepersAreWoken
<1> SUFFICES ASSUME Init PROVE Locked /\ Forgotten /\ SleepersAreWoken
  OBVIOUS
<1>1. \A t \in Threads : Does(t).at = "free"
  BY FreeIsQuiet DEF Init, Does
<1> QED
  BY <1>1 DEF Init, Locked, Forgotten, SleepersAreWoken, At

LEMMA NextTaken ==
  Turns /\ Locked /\ Forgotten /\ SleepersAreWoken /\ [Next]_vars =>
    Locked' /\ Forgotten' /\ SleepersAreWoken'
<1> SUFFICES ASSUME Turns, Locked, Forgotten, SleepersAreWoken, [Next]_vars
             PROVE  Locked' /\ Forgotten' /\ SleepersAreWoken'
  OBVIOUS
<1>1. ASSUME UNCHANGED <<thread, known, slot, made, owner, open, holder>>
      PROVE  Locked' /\ Forgotten' /\ SleepersAreWoken'
  <2>1. \A t \in Threads : Does(t)' = Does(t) /\ Frame(t)' = Frame(t)
    BY <1>1 DEF Does, Frame, Frames
  <2> QED
    BY <1>1, <2>1 DEF Locked, Forgotten, SleepersAreWoken, At
<1>2. CASE UNCHANGED vars
  BY <1>1, <1>2 DEF vars, registryVars, stateVars
<1>3. ASSUME NEW t \in Threads, GoesOn(t) PROVE Locked' /\ Forgotten' /\ SleepersAreWoken'
  BY <1>3, MovesKeep, StatementMoves, CallMoves, LockKeeps, ClosesKeep, AcquireKeeps, SleepKeeps, LeaveKeeps
     DEF GoesOn
<1>4. ASSUME NEW t \in Threads, Program(t) PROVE Locked' /\ Forgotten' /\ SleepersAreWoken'
  <2>1. CASE Interrupt(t)
    BY <1>1, <2>1 DEF Interrupt, registryVars, stateVars
  <2>2. CASE Close(t)
    BY <2>2, ClosesKeep
  <2>3. CASE Enter(t)
    BY <2>3, EnterKeeps
  <2>4. CASE ~(Interrupt(t) \/ Close(t) \/ Enter(t))
    <3>1. Moves(t)
      BY <1>4, <2>4, ProgramMoves DEF Program
    <3> QED
      BY <3>1, MovesKeep
  <2> QED
    BY <2>1, <2>2, <2>3, <2>4
<1> QED
  BY <1>2, <1>3, <1>4 DEF Next

(* The transactions of one connection take turns (db.rs, TxLock): a BEGIN  *)
(* of db.transaction never runs into a db.transaction that another thread  *)
(* is in, whatever is nested, refused or begun by hand, unless a db.close  *)
(* is under way.  Both threads would have to hold the one slot there is.   *)
THEOREM TransactionsAlwaysTakeTurns == Spec => []TransactionsTakeTurns
<1> DEFINE Inv == Turns /\ Locked /\ Forgotten /\ SleepersAreWoken
<1>1. Init => Inv
  BY InitTurns, InitTaken
<1>2. Inv /\ [Next]_vars => Inv'
  BY NextTurns, NextTaken
<1>3. Inv => TransactionsTakeTurns
  <2> SUFFICES ASSUME Turns, Locked, Forgotten, NEW t \in Threads, Runs(t, "begin"), begun # 0, ~Closing,
                      NEW u \in Threads, u # t, NEW i \in DOMAIN Frames(u), Frames(u)[i].id = begun
               PROVE  FALSE
    BY DEF TransactionsTakeTurns
  <2> USE DEF Turns
  <2>1. i \in 1..Len(Frames(u))
    BY ThreadFacts
  <2>2. Does(t).at = "runs" /\ Starting(t) /\ Frames(t) # <<>>
    BY DEF Runs, At, Starting, Nested
  <2>3. Len(Frames(t)) \in 1..Len(Frames(t)) /\ made \in Nat /\ made <= MaxCalls /\ MaxCalls \in Nat
    BY <2>2, TopIsFrame, BoundsAssumption DEF Shape
  <2>a. made <= 1
    <3>1. open
      BY <2>2 DEF Locked, At
    <3>2. known
      BY <3>1 DEF Forgotten, Closing
    <3> QED
      BY <2>3, <3>2 DEF Forgotten, Closing
  <2>4. Frames(t)[Len(Frames(t))].slot = 1 /\ Frames(u)[i].slot = 1 /\ 1 \in Slots
    <3>1. Frames(t)[Len(Frames(t))].slot \in 1..made /\ Frames(u)[i].slot \in 1..made
      BY <2>1, <2>3 DEF Nested
    <3> QED
      BY <2>3, <2>a, <3>1 DEF Slots
  <2>5. Len(Frames(t)) \in Holds(t, 1)
    BY <2>2, <2>3, <2>4 DEF Holds
  <2>6. i \in Holds(u, 1)
    <3>1. i < Len(Frames(u)) \/ Does(u).at \notin {"enters", "asleep"}
      <4>1. Frames(u) # <<>> /\ Len(Frames(u)) \in Nat
        BY <2>1, ThreadFacts
      <4>2. CASE i = Len(Frames(u))
        <5>1. Frame(u).id # 0
          BY <4>1, <4>2, TopIsFrame
        <5> QED
          BY <5>1 DEF Nested, Starting, At
      <4> QED
        BY <2>1, <4>1, <4>2
    <3> QED
      BY <2>1, <2>4, <3>1 DEF Holds
  <2>7. \A v \in Threads : Holds(v, 1) # {} => owner[1].thread = v
    <3> SUFFICES ASSUME NEW v \in Threads, Holds(v, 1) # {} PROVE owner[1].thread = v
      OBVIOUS
    <3>1. Cardinality(Holds(v, 1)) # 0
      BY HoldsFinite, FS_EmptySet
    <3> QED
      BY <2>4, <3>1 DEF Counted
  <2> QED
    BY <2>5, <2>6, <2>7
<1> QED
  BY <1>1, <1>2, <1>3, PTL DEF Spec

(* No wake-up of the slot's condition variable is lost (db.rs, enter and   *)
(* leave): it is never free with everyone who wants it asleep.             *)
THEOREM SleepersAreAlwaysWoken == Spec => []SleepersAreWoken
<1> DEFINE Inv == Turns /\ Locked /\ Forgotten /\ SleepersAreWoken
<1>1. Init => Inv
  BY InitTurns, InitTaken
<1>2. Inv /\ [Next]_vars => Inv'
  BY NextTurns, NextTaken
<1>3. Inv => SleepersAreWoken
  OBVIOUS
<1> QED
  BY <1>1, <1>2, <1>3, PTL DEF Spec

-----------------------------------------------------------------------------
(* Numbers stay apart when a step adds no write but a thread's own.        *)
LEMMA NumberedStep ==
  ASSUME Numbered, calls \in Nat, calls' \in Nat, calls <= calls', NEW t \in Threads,
         \A u \in Threads : u # t /\ Writes(u)' => Writes(u) /\ Does(u)'.number = Does(u).number,
         Writes(t)' => \/ Writes(t) /\ Does(t)'.number = Does(t).number
                       \/ Does(t)'.number = calls' /\ calls < calls',
         \/ Known' \subseteq Known
         \/ Known' \subseteq Known \cup {Does(t).number} /\ Writes(t) /\ ~Writes(t)'
  PROVE  Numbered'
<1>1. Known \subseteq 1..calls /\ \A u \in Threads : Writes(u) => Does(u).number \in 1..calls
  BY DEF Numbered
<1>2. Known' \subseteq 1..calls' /\ \A n \in 1..calls : n \in 1..calls'
  <2>1. \A n \in 1..calls : n \in 1..calls'
    OBVIOUS
  <2>2. Known' \subseteq 1..calls
    BY <1>1, Zenon
  <2> QED
    BY <2>1, <2>2
<1>a. Known' \subseteq 1..calls
  BY <1>1, Zenon
<1>3. ASSUME NEW u \in Threads, Writes(u)'
      PROVE  Does(u)'.number \in 1..calls' /\ Does(u)'.number \notin Known'
  <2>1. CASE Writes(u) /\ Does(u)'.number = Does(u).number
    <3>1. Does(u).number \in 1..calls /\ Does(u).number \notin Known
      BY <2>1 DEF Numbered
    <3>2. u # t /\ Writes(t) => Does(u).number # Does(t).number
      BY <2>1 DEF Numbered
    <3>3. Does(u).number \notin Known'
      BY <1>3, <3>1, <3>2
    <3> QED
      BY <1>2, <2>1, <3>1, <3>3
  <2>2. CASE u = t /\ Does(t)'.number = calls' /\ calls < calls'
    <3>1. calls' \in 1..calls' /\ calls' \notin 1..calls
      BY <2>2
    <3> QED
      BY <1>a, <2>2, <3>1
  <2> QED
    BY <1>3, <2>1, <2>2
<1>4. ASSUME NEW u \in Threads, NEW v \in Threads, Writes(u)', Writes(v)', u # v
      PROVE  Does(u)'.number # Does(v)'.number
  <2>1. CASE Writes(t)' /\ Does(t)'.number = calls' /\ calls < calls'
    <3>1. \A w \in Threads : w # t /\ Writes(w)' => Does(w)'.number \in 1..calls
      BY <1>1
    <3>2. calls' \notin 1..calls
      BY <2>1
    <3>3. CASE u = t
      BY <1>4, <2>1, <3>1, <3>2, <3>3
    <3>4. CASE v = t
      BY <1>4, <2>1, <3>1, <3>2, <3>4
    <3>5. CASE u # t /\ v # t
      BY <1>4, <3>5 DEF Numbered
    <3> QED
      BY <3>3, <3>4, <3>5
  <2>2. CASE Writes(t)' => Writes(t) /\ Does(t)'.number = Does(t).number
    BY <1>4, <2>2 DEF Numbered
  <2> QED
    BY <2>1, <2>2
<1> QED
  BY <1>2, <1>3, <1>4 DEF Numbered

(* A step that leaves frames, and what is written, alone.                  *)
LEMMA SameFrames ==
  ASSUME NEW t \in Threads, Others(t), Frames(t)' = Frames(t)
  PROVE  AllFrames' = AllFrames
<1>1. \A u \in Threads : Frames(u)' = Frames(u)
  BY DEF Others
<1> QED
  BY <1>1 DEF AllFrames

LEMMA OthersWrites ==
  ASSUME NEW t \in Threads, Others(t)
  PROVE  \A u \in Threads : u # t /\ Writes(u)' => Writes(u) /\ Does(u)'.number = Does(u).number
  BY DEF Others, Writes

LEMMA FrameIds ==
  ASSUME Shape, Nested
  PROVE  \A f \in AllFrames : f \in FrameSet /\ f.id \in Nat /\ f.id <= begins
<1> SUFFICES ASSUME NEW t \in Threads, NEW i \in 1..Len(Frames(t))
             PROVE  Frames(t)[i] \in FrameSet /\ Frames(t)[i].id \in Nat /\ Frames(t)[i].id <= begins
  BY DEF AllFrames
<1>1. Frames(t) \in Seq(FrameSet)
  BY ThreadFacts
<1>2. Frames(t)[i] \in FrameSet
  BY <1>1
<1>3. Frames(t)[i].id \in Nat
  BY <1>2 DEF FrameSet
<1> QED
  BY <1>2, <1>3 DEF Nested

LEMMA CarriesSaved ==
  ASSUME Turns, Numbered, Kept, NEW t \in Threads, Carries(t)
  PROVE  Numbered' /\ Kept'
<1>0. Shape /\ \A f \in AllFrames : f.id # begins + 1
  <2>1. \A f \in AllFrames : f.id \in Nat /\ f.id <= begins
    BY FrameIds DEF Turns
  <2> QED
    BY <2>1 DEF Turns, Shape
<1>1. AllFrames' = AllFrames
  BY SameFrames DEF Carries
<1>2. Known' \subseteq Known
  BY <1>1 DEF Known, Carries
<1>3. Numbered'
  <2>1. calls \in Nat
    BY <1>0 DEF Shape
  <2> QED
    BY <1>2, <2>1, OthersWrites, NumberedStep DEF Carries
<1>4. Kept'
  <2>1. \A f \in AllFrames' : begun' # 0 /\ f.id = begun' => f.wrote \subseteq written'
    BY <1>0, <1>1 DEF Kept, Carries
  <2> QED
    BY <2>1 DEF Kept, Carries
<1> QED
  BY <1>3, <1>4

(* Where the frames of all threads come from after a step of one.          *)
LEMMA TopIsOne ==
  ASSUME Shape, NEW t \in Threads, Frames(t) # <<>>
  PROVE  Frame(t) \in AllFrames
<1>1. Frame(t) = Frames(t)[Len(Frames(t))] /\ Len(Frames(t)) \in 1..Len(Frames(t))
  BY TopIsFrame
<1> QED
  BY <1>1 DEF AllFrames

(* The four places a write can be in.                                      *)
LEMMA FourParts ==
  ASSUME NEW A, NEW B, NEW C, NEW D
  PROVE  /\ A \cup B \subseteq A \cup B \cup C \cup D
         /\ C \subseteq A \cup B \cup C \cup D /\ D \subseteq A \cup B \cup C \cup D
         /\ \A k : A \cup B \subseteq k /\ C \subseteq k /\ D \subseteq k => A \cup B \cup C \cup D \subseteq k
  OBVIOUS

LEMMA KnownParts ==
  /\ written \cup saved \subseteq Known
  /\ (UNION {f.wrote : f \in AllFrames}) \subseteq Known
  /\ (UNION {x.wrote : x \in ended}) \subseteq Known
<1> DEFINE C == (UNION {f.wrote : f \in AllFrames})
           D == (UNION {x.wrote : x \in ended})
<1>1. Known = written \cup saved \cup C \cup D
  BY DEF Known
<1> HIDE DEF C, D
<1>2. written \cup saved \subseteq Known /\ C \subseteq Known /\ D \subseteq Known
  BY <1>1, FourParts
<1> QED
  BY <1>2 DEF C, D

LEMMA KnownWithin ==
  ASSUME NEW k, written' \cup saved' \subseteq k,
         \A f \in AllFrames' : f.wrote \subseteq k, \A x \in ended' : x.wrote \subseteq k
  PROVE  Known' \subseteq k
<1> DEFINE C == (UNION {f.wrote : f \in AllFrames'})
           D == (UNION {x.wrote : x \in ended'})
<1>1. C \subseteq k /\ D \subseteq k
  OBVIOUS
<1>2. Known' = written' \cup saved' \cup C \cup D
  BY DEF Known
<1> HIDE DEF C, D
<1> QED
  BY <1>1, <1>2, FourParts

(* The end of a db.transaction is on the record.                           *)
LEMMA EndsSaved ==
  ASSUME Turns, Numbered, Kept, NEW t \in Threads, Finishes(t), Frame(t).id # 0,
         NEW said \in {"value", "refused", "error", "closed"}, EndsFrame(t, said),
         \/ said # "value" /\ (said = "error" => begun = 0)
            /\ begun' = begun /\ written' = written /\ saved' = saved
         \/ said = "value" /\ begun' = 0 /\ written' = {} /\ saved' = saved \cup written
         \/ said = "error" /\ begun' = 0 /\ written' = {} /\ saved' = saved
  PROVE  Numbered' /\ Kept'
<1> DEFINE y == [id |-> Frame(t).id, wrote |-> Frame(t).wrote, said |-> said,
                 own |-> begun = Frame(t).id]
<1>1. ended' = ended \cup {y}
  BY DEF EndsFrame
<1>2. y.wrote = Frame(t).wrote /\ y.said = said /\ y.own = (begun = Frame(t).id)
  OBVIOUS
<1> HIDE DEF y
<1>3. AllFrames' = AllFrames
  BY SameFrames DEF Finishes
<1>4. Frame(t) \in AllFrames
  BY TopIsOne DEF Turns, Finishes
<1>5. Known' \subseteq Known
  <2>1. PICK k : k = Known
    OBVIOUS
  <2>2. written' \cup saved' \subseteq written \cup saved
    OBVIOUS
  <2>3. written' \cup saved' \subseteq k
    BY <2>1, <2>2, KnownParts
  <2>4. \A f \in AllFrames' : f.wrote \subseteq k
    BY <1>3, <2>1, KnownParts
  <2>5. \A x \in ended' : x.wrote \subseteq k
    <3>1. \A x \in ended : x.wrote \subseteq k
      BY <2>1, KnownParts
    <3>2. y.wrote \subseteq k
      BY <1>2, <1>3, <1>4, <2>4
    <3> QED
      BY <1>1, <3>1, <3>2
  <2> QED
    BY <2>1, <2>3, <2>4, <2>5, KnownWithin
<1>6. Numbered'
  <2>1. calls \in Nat /\ calls' = calls /\ calls' \in Nat /\ calls <= calls'
    BY DEF Turns, Shape, Finishes
  <2>2. ~Writes(t)' /\ Others(t)
    BY DEF Finishes, Writes
  <2> QED
    BY <1>5, <2>1, <2>2, OthersWrites, NumberedStep
<1>7. y.own =>
       /\ y.said = "value" => y.wrote \subseteq saved'
       /\ y.said = "error" => y.wrote \cap (saved' \cup written') = {}
  <2> SUFFICES ASSUME begun = Frame(t).id
               PROVE  /\ said = "value" => Frame(t).wrote \subseteq saved'
                      /\ said = "error" => Frame(t).wrote \cap (saved' \cup written') = {}
    BY <1>2
  <2>1. begun # 0 /\ Frame(t).wrote \subseteq written /\ written \cap saved = {}
    BY <1>4 DEF Kept
  <2> QED
    BY <2>1
<1>8. ASSUME NEW x \in ended, x.own
      PROVE  /\ x.said = "value" => x.wrote \subseteq saved'
             /\ x.said = "error" => x.wrote \cap (saved' \cup written') = {}
  BY <1>8 DEF Kept
<1>9. written' \cap saved' = {}
  BY DEF Kept
<1>10. \A f \in AllFrames' : begun' # 0 /\ f.id = begun' => f.wrote \subseteq written'
  BY <1>3 DEF Kept
<1> QED
  BY <1>1, <1>6, <1>7, <1>8, <1>9, <1>10 DEF Kept

LEMMA FramesWithin ==
  ASSUME NEW t \in Threads, \A u \in Threads : u # t => Frames(u)' = Frames(u), NEW S,
         \A i \in 1..Len(Frames(t)') : Frames(t)'[i] \in AllFrames \cup S
  PROVE  AllFrames' \subseteq AllFrames \cup S
<1> SUFFICES ASSUME NEW u \in Threads, NEW i \in 1..Len(Frames(u)')
             PROVE  Frames(u)'[i] \in AllFrames \cup S
  BY DEF AllFrames
<1>1. CASE u = t
  BY <1>1
<1>2. CASE u # t
  BY <1>2 DEF AllFrames
<1> QED
  BY <1>1, <1>2

LEMMA MemberFrames ==
  ASSUME NEW t \in Threads, NEW i \in 1..Len(Frames(t))
  PROVE  Frames(t)[i] \in AllFrames
  BY DEF AllFrames

(* A step that adds nothing to what was written.                           *)
LEMMA NothingNew ==
  ASSUME written' \subseteq written, saved' = saved, ended' = ended, NEW S,
         AllFrames' \subseteq AllFrames \cup S, \A f \in S : f.wrote \subseteq Known
  PROVE  Known' \subseteq Known
<1>1. PICK k : k = Known
  OBVIOUS
<1>2. written' \cup saved' \subseteq k /\ \A x \in ended' : x.wrote \subseteq k
  BY <1>1, KnownParts
<1>3. \A f \in AllFrames' : f.wrote \subseteq k
  BY <1>1, KnownParts
<1> QED
  BY <1>1, <1>2, <1>3, KnownWithin

LEMMA AcquireCarries ==
  ASSUME Shape, NEW t \in Threads, Acquire(t)
  PROVE  Carries(t)
<1>1. /\ calls' = calls /\ ended' = ended /\ begun' = begun /\ written' = written /\ saved' = saved
      /\ calls \in Nat
  BY DEF Acquire, Shape, sqliteVars
<1>2. Others(t) /\ Frames(t)' = Frames(t) /\ ~Writes(t)'
  <2>1. CASE known
    <3>1. Asks(t, "begin", NoCursor, FALSE) /\ "begin" \in CallNames
      BY <2>1 DEF Acquire, CallNames, Statements, InTransaction
    <3> QED
      BY <1>1, <3>1, AsksEffect DEF Writes
  <2>2. CASE ~known
    BY <2>2, GoesEffect DEF Acquire, Ats, Writes
  <2> QED
    BY <2>1, <2>2
<1> QED
  BY <1>1, <1>2 DEF Carries

LEMMA WithoutEndCarries ==
  ASSUME Shape, NEW t \in Threads, Finishes(t), ended' = ended,
         begun' = begun, written' = written, saved' = saved
  PROVE  Carries(t)
<1>1. ~Writes(t)' /\ calls' = calls /\ calls \in Nat
  BY DEF Finishes, Writes, Shape
<1> QED
  BY <1>1 DEF Finishes, Carries

LEMMA BodyHasId ==
  ASSUME Turns, NEW t \in Threads, Frames(t) # <<>>, ~Starting(t), ~At(t, "leaves")
  PROVE  Frame(t).id # 0
<1>1. Frame(t) = Frames(t)[Len(Frames(t))] /\ Len(Frames(t)) \in 1..Len(Frames(t))
  BY TopIsFrame DEF Turns
<1> QED
  BY <1>1 DEF Turns, Nested

(* The steps that end, leave, enter or begin a transaction.                *)
LEMMA FindsClosedSaved ==
  ASSUME Turns, Numbered, Kept, NEW t \in Threads, FindsClosed(t)
  PROVE  Numbered' /\ Kept'
<1>1. begun' = begun /\ written' = written /\ saved' = saved /\ Does(t).at = "waits" /\ Shape
  BY DEF FindsClosed, sqliteVars, Waits, At, Turns
<1>2. CASE Does(t).call \notin InTransaction
  BY <1>1, <1>2, FindsClosedStays, CarriesSaved
<1>3. CASE Does(t).call = "begin"
  <2>1. Finishes(t) /\ ended' = ended
    BY <1>3, FindsClosedFinishes DEF FindsClosed, InTransaction
  <2> QED
    BY <1>1, <2>1, WithoutEndCarries, CarriesSaved
<1>4. CASE Does(t).call \in {"commit", "rollback"}
  <2>1. Finishes(t) /\ EndsFrame(t, "closed")
    BY <1>4, FindsClosedFinishes DEF FindsClosed, InTransaction
  <2>2. Frame(t).id # 0
    BY <1>1, <1>4, <2>1, BodyHasId DEF Finishes, Starting, At
  <2> QED
    BY <1>1, <2>1, <2>2, EndsSaved
<1> QED
  BY <1>2, <1>3, <1>4 DEF InTransaction

LEMMA EndBodySaved ==
  ASSUME Turns, Numbered, Kept, NEW t \in Threads, NEW call \in {"commit", "rollback"}, EndBody(t, call)
  PROVE  Numbered' /\ Kept'
<1>1. CASE known
  BY <1>1, EndBodyStays, CarriesSaved DEF Turns
<1>2. CASE ~known
  <2>1. Finishes(t) /\ EndsFrame(t, "closed") /\ Does(t).at = "free"
        /\ begun' = begun /\ written' = written /\ saved' = saved
    BY <1>2, EndBodyFinishes DEF EndBody, InBody, At, sqliteVars
  <2>2. Frame(t).id # 0
    BY <2>1, BodyHasId DEF Finishes, Starting, At
  <2> QED
    BY <2>1, <2>2, EndsSaved
<1> QED
  BY <1>1, <1>2

LEMMA EndRunsSaved ==
  ASSUME Turns, Numbered, Kept, NEW t \in Threads, Rollback(t) \/ \E refused \in BOOLEAN : Commit(t, refused)
  PROVE  Numbered' /\ Kept'
<1>1. Finishes(t) /\ Does(t).at = "runs" /\ Does(t).call \in {"commit", "rollback"}
  BY EndRunsFinishes DEF Rollback, Commit, Runs, At
<1>2. Frame(t).id # 0
  BY <1>1, BodyHasId DEF Finishes, Starting, At
<1>3. CASE Rollback(t)
  BY <1>1, <1>2, <1>3, EndsSaved DEF Rollback
<1>4. ASSUME NEW refused \in BOOLEAN, Commit(t, refused) PROVE Numbered' /\ Kept'
  <2>1. CASE begun = 0
    <3>1. EndsFrame(t, "error") /\ begun' = begun /\ written' = written /\ saved' = saved
      BY <1>4, <2>1 DEF Commit, sqliteVars
    <3> QED
      BY <1>1, <1>2, <2>1, <3>1, EndsSaved
  <2>2. CASE begun # 0 /\ refused
    <3>1. EndsFrame(t, "refused") /\ begun' = begun /\ written' = written /\ saved' = saved
      BY <1>4, <2>2 DEF Commit, sqliteVars
    <3> QED
      BY <1>1, <1>2, <3>1, EndsSaved
  <2>3. CASE begun # 0 /\ ~refused
    <3>1. EndsFrame(t, "value") /\ begun' = 0 /\ saved' = saved \cup written /\ written' = {}
      BY <1>4, <2>3 DEF Commit
    <3> QED
      BY <1>1, <1>2, <3>1, EndsSaved
  <2> QED
    BY <2>1, <2>2, <2>3
<1> QED
  BY <1>3, <1>4

LEMMA LeaveSaved ==
  ASSUME Turns, Numbered, Kept, NEW t \in Threads, Leave(t)
  PROVE  Numbered' /\ Kept'
<1>1. Frames(t) # <<>> /\ Shape
  BY DEF Leave, Turns, Nested
<1>2. Left(t)
  BY <1>1, LeaveEffect
<1>3. /\ calls' = calls /\ calls \in Nat /\ ended' = ended /\ begun' = begun /\ written' = written
      /\ saved' = saved
  BY <1>1 DEF Leave, Shape, sqliteVars, boundVars
<1>4. \A u \in Threads : Writes(u)' => Writes(u) /\ Does(u)'.number = Does(u).number
  BY <1>2, FreeIsQuiet DEF Left, Writes
<1>5. AllFrames' \subseteq AllFrames
  <2>1. Frames(t) \in Seq(FrameSet)
    BY <1>1, ThreadFacts
  <2>2. \A i \in 1..Len(Front(Frames(t))) : i \in 1..Len(Frames(t)) /\ Front(Frames(t))[i] = Frames(t)[i]
    BY <1>1, <2>1, FrontOf
  <2>3. \A i \in 1..Len(Frames(t)') : Frames(t)'[i] \in AllFrames \cup {}
    BY <1>2, <2>2, MemberFrames DEF Left
  <2>4. AllFrames' \subseteq AllFrames \cup {}
    BY <1>2, <2>3, FramesWithin DEF Left
  <2> QED
    BY <2>4
<1>6. Known' \subseteq Known
  <2>1. PICK S : S = {}
    OBVIOUS
  <2>2. AllFrames' \subseteq AllFrames \cup S /\ (\A f \in S : f.wrote \subseteq Known)
        /\ written' \subseteq written
    BY <1>3, <1>5, <2>1
  <2> QED
    BY <1>3, <2>2, NothingNew
<1>7. Numbered'
  BY <1>3, <1>4, <1>6, NumberedStep
<1>8. Kept'
  BY <1>3, <1>5 DEF Kept
<1> QED
  BY <1>7, <1>8

LEMMA EnterSaved ==
  ASSUME Turns, Numbered, Kept, NEW t \in Threads, Enter(t)
  PROVE  Numbered' /\ Kept'
<1> DEFINE f == [slot |-> slot', id |-> 0, wrote |-> {}]
           d == [Free EXCEPT !.at = "enters"]
<1>1. /\ calls' = calls + 1 /\ calls \in Nat /\ ended' = ended /\ begun' = begun /\ written' = written
      /\ saved' = saved /\ Shape
  BY DEF Enter, Calls, Turns, Shape, sqliteVars
<1>2. f.id = 0 /\ f.wrote = {}
  OBVIOUS
<1>3. d.at = "enters"
  BY DEF Free
<1>4. thread' = [thread EXCEPT ![t] = [does |-> d, frames |-> Append(Frames(t), f)]]
  BY DEF Enter, Frames
<1> HIDE DEF f, d
<1>5. Others(t) /\ Does(t)' = d /\ Frames(t)' = Append(Frames(t), f)
  BY <1>1, <1>4 DEF Shape, Does, Frames, Others
<1>6. AllFrames' \subseteq AllFrames \cup {f}
  <2>1. Len(Frames(t)) \in Nat /\ Len(Frames(t)') = Len(Frames(t)) + 1
        /\ Frames(t)'[Len(Frames(t)) + 1] = f
        /\ \A i \in 1..Len(Frames(t)) : Frames(t)'[i] = Frames(t)[i]
    <3>1. Frames(t) \in Seq(FrameSet)
      BY <1>1, ThreadFacts
    <3>2. /\ Len(Frames(t)) \in Nat /\ Len(Append(Frames(t), f)) = Len(Frames(t)) + 1
          /\ Append(Frames(t), f)[Len(Frames(t)) + 1] = f
          /\ \A i \in 1..Len(Frames(t)) : Append(Frames(t), f)[i] = Frames(t)[i]
      BY <3>1
    <3> QED
      BY <1>5, <3>2
  <2>2. \A i \in 1..Len(Frames(t)') : Frames(t)'[i] \in AllFrames \cup {f}
    <3> SUFFICES ASSUME NEW i \in 1..Len(Frames(t)') PROVE Frames(t)'[i] \in AllFrames \cup {f}
      OBVIOUS
    <3>1. i \in 1..Len(Frames(t)) \/ i = Len(Frames(t)) + 1
      BY <2>1
    <3> QED
      BY <2>1, <3>1, MemberFrames
  <2> QED
    BY <1>5, <2>2, FramesWithin DEF Others
<1>7. Known' \subseteq Known
  <2>1. \A g \in {f} : g.wrote \subseteq Known
    BY <1>2
  <2> QED
    BY <1>1, <1>6, <2>1, NothingNew
<1>8. Numbered'
  <2>1. calls' \in Nat /\ calls <= calls' /\ ~Writes(t)'
    BY <1>1, <1>3, <1>5 DEF Writes
  <2> QED
    BY <1>1, <1>5, <1>7, <2>1, OthersWrites, NumberedStep
<1>9. Kept'
  BY <1>1, <1>2, <1>6 DEF Kept
<1> QED
  BY <1>8, <1>9

LEMMA BeginSaved ==
  ASSUME Turns, Numbered, Kept, NEW t \in Threads, Begin(t)
  PROVE  Numbered' /\ Kept'
<1>0. Shape
  BY DEF Turns
<1>1. CASE begun # 0
  <2>1. Finishes(t) /\ ended' = ended /\ begun' = begun /\ written' = written /\ saved' = saved
    BY <1>1, BeginFinishes DEF Begin
  <2> QED
    BY <1>0, <2>1, WithoutEndCarries, CarriesSaved
<1>2. CASE begun = 0
  <2> DEFINE f == [Frame(t) EXCEPT !.id = begins + 1]
  <2>1. Starting(t) /\ Frames(t) # <<>> /\ Frame(t).wrote = {}
    BY DEF Begin, Runs, At, Starting, Turns, Nested
  <2>2. Frame(t) \in FrameSet /\ begins \in Nat /\ calls \in Nat
    BY <1>0, <2>1, TopIsFrame DEF Shape
  <2>3. f \in FrameSet /\ f.wrote = {}
    BY <2>1, <2>2 DEF FrameSet
  <2>4. /\ calls' = calls /\ ended' = ended /\ begun' = begins + 1 /\ written' = written /\ saved' = saved
        /\ ReturnsWith(t, f)
    BY <1>2 DEF Begin, Unlocks
  <2> HIDE DEF f
  <2>5. /\ Others(t) /\ Does(t)' = Free /\ Len(Frames(t)') = Len(Frames(t))
        /\ Frames(t)'[Len(Frames(t))] = f
        /\ \A i \in 1..Len(Frames(t)) : i # Len(Frames(t)) => Frames(t)'[i] = Frames(t)[i]
    BY <1>0, <2>1, <2>3, <2>4, ReturnsWithEffect
  <2>6. AllFrames' \subseteq AllFrames \cup {f}
    <3>1. \A i \in 1..Len(Frames(t)') : Frames(t)'[i] \in AllFrames \cup {f}
      BY <2>5, MemberFrames
    <3> QED
      BY <2>5, <3>1, FramesWithin DEF Others
  <2>7. Known' \subseteq Known
    <3>1. \A g \in {f} : g.wrote \subseteq Known
      BY <2>3
    <3> QED
      BY <2>4, <2>6, <3>1, NothingNew
  <2>8. Numbered'
    <3>1. calls' \in Nat /\ calls <= calls' /\ ~Writes(t)'
      BY <2>2, <2>4, <2>5, FreeIsQuiet DEF Writes
    <3> QED
      BY <2>2, <2>5, <2>7, <3>1, OthersWrites, NumberedStep
  <2>9. \A g \in AllFrames' : begun' # 0 /\ g.id = begun' => g.wrote \subseteq written'
    <3>1. \A g \in AllFrames : g.id # begins + 1
      BY <1>0, <2>2, FrameIds DEF Turns
    <3> QED
      BY <2>3, <2>4, <2>6, <3>1
  <2>10. Kept'
    BY <2>4, <2>9 DEF Kept
  <2> QED
    BY <2>8, <2>10
<1> QED
  BY <1>1, <1>2

(* A write joins the open transaction, or is saved at once.                *)
LEMMA WriteRunsSaved ==
  ASSUME Shape, Numbered, Kept, NEW t \in Threads, WriteRuns(t)
  PROVE  Numbered' /\ Kept'
<1>1. PICK m \in Nat : m = Does(t).number
  BY ThreadFacts
<1>2. /\ Writes(t) /\ m \notin Known /\ calls' = calls /\ calls \in Nat
      /\ ended' = ended /\ begun' = begun
  BY <1>1 DEF WriteRuns, Runs, At, Writes, Unlocks, Numbered, Shape
<1>3. \/ begun # 0 /\ written' = written \cup {m} /\ saved' = saved
      \/ begun = 0 /\ saved' = saved \cup {m} /\ written' = written
  BY <1>1 DEF WriteRuns
<1>4. PICK f : /\ Others(t) /\ Does(t)' = Free /\ AllFrames' \subseteq AllFrames \cup {f}
               /\ \/ f \in AllFrames
                  \/ \E g \in AllFrames : f.id = g.id /\ f.wrote = g.wrote \cup {m}
                  \/ AllFrames' = AllFrames
  <2>1. CASE Frames(t) = <<>>
    <3>1. Others(t) /\ Does(t)' = Free /\ Frames(t)' = Frames(t)
      BY <2>1, ReturnsEffect DEF WriteRuns
    <3>2. AllFrames' = AllFrames
      BY <3>1, SameFrames
    <3> QED
      BY <3>1, <3>2
  <2>2. CASE Frames(t) # <<>>
    <3> DEFINE f == [Frame(t) EXCEPT !.wrote = @ \cup {Does(t).number}]
    <3>1. f \in FrameSet /\ f.id = Frame(t).id /\ f.wrote = Frame(t).wrote \cup {m}
      BY <1>1, <2>2, TopIsFrame DEF FrameSet
    <3>2. ReturnsWith(t, f)
      BY <2>2 DEF WriteRuns
    <3> HIDE DEF f
    <3>3. /\ Others(t) /\ Does(t)' = Free /\ Len(Frames(t)') = Len(Frames(t))
          /\ Frames(t)'[Len(Frames(t))] = f
          /\ \A i \in 1..Len(Frames(t)) : i # Len(Frames(t)) => Frames(t)'[i] = Frames(t)[i]
      BY <2>2, <3>1, <3>2, ReturnsWithEffect
    <3>4. \A i \in 1..Len(Frames(t)') : Frames(t)'[i] \in AllFrames \cup {f}
      BY <3>3, MemberFrames
    <3>5. AllFrames' \subseteq AllFrames \cup {f}
      BY <3>3, <3>4, FramesWithin DEF Others
    <3>6. Frame(t) \in AllFrames
      BY <2>2, TopIsOne
    <3> QED
      BY <3>1, <3>3, <3>5, <3>6
  <2> QED
    BY <2>1, <2>2
<1>5. \A g \in AllFrames' : \/ g \in AllFrames
                            \/ \E h \in AllFrames : g.id = h.id /\ g.wrote = h.wrote \cup {m}
  BY <1>4
<1>6. Known' \subseteq Known \cup {m}
  <2>1. PICK k : k = Known \cup {m}
    OBVIOUS
  <2>2. written' \cup saved' \subseteq k
    BY <1>3, <2>1, KnownParts
  <2>3. \A x \in ended' : x.wrote \subseteq k
    BY <1>2, <2>1, KnownParts
  <2>4. \A g \in AllFrames : g.wrote \subseteq Known
    BY KnownParts
  <2>5. \A g \in AllFrames' : g.wrote \subseteq k
    BY <1>5, <2>1, <2>4
  <2> QED
    BY <2>1, <2>2, <2>3, <2>5, KnownWithin
<1>7. Numbered'
  <2>1. ~Writes(t)' /\ calls' \in Nat /\ calls <= calls'
    BY <1>2, <1>4, FreeIsQuiet DEF Writes
  <2> QED
    BY <1>1, <1>2, <1>4, <1>6, <2>1, OthersWrites, NumberedStep
<1>8. Kept'
  <2>1. m \notin written \cup saved /\ \A x \in ended : m \notin x.wrote
    BY <1>2, KnownParts
  <2>2. written' \cap saved' = {}
    BY <1>3, <2>1 DEF Kept
  <2>3. \A g \in AllFrames' : begun' # 0 /\ g.id = begun' => g.wrote \subseteq written'
    BY <1>2, <1>3, <1>5 DEF Kept
  <2>4. ASSUME NEW x \in ended', x.own
        PROVE  /\ x.said = "value" => x.wrote \subseteq saved'
               /\ x.said = "error" => x.wrote \cap (saved' \cup written') = {}
    BY <1>2, <1>3, <2>1, <2>4 DEF Kept
  <2> QED
    BY <2>2, <2>3, <2>4 DEF Kept
<1> QED
  BY <1>7, <1>8

(* Every step keeps what was written with its transaction.                 *)
LEMMA InitSaved == Init => Numbered /\ Kept
<1> SUFFICES ASSUME Init PROVE Numbered /\ Kept
  OBVIOUS
<1>1. /\ thread = [t \in Threads |-> [does |-> Free, frames |-> <<>>]] /\ calls = 0
      /\ begun = 0 /\ written = {} /\ saved = {} /\ ended = {}
  BY DEF Init
<1>2. \A t \in Threads : Does(t) = Free /\ Frames(t) = <<>>
  BY <1>1 DEF Does, Frames
<1>3. AllFrames = {}
  BY <1>2 DEF AllFrames
<1>4. Known = {}
  BY <1>1, <1>3 DEF Known
<1>5. \A t \in Threads : ~Writes(t)
  BY <1>2, FreeIsQuiet DEF Writes
<1> QED
  BY <1>1, <1>3, <1>4, <1>5 DEF Numbered, Kept

LEMMA NextSaved == Turns /\ Numbered /\ Kept /\ [Next]_vars => Numbered' /\ Kept'
<1> SUFFICES ASSUME Turns, Numbered, Kept, [Next]_vars PROVE Numbered' /\ Kept'
  OBVIOUS
<1>0. Shape
  BY DEF Turns
<1>1. CASE UNCHANGED vars
  <2>1. UNCHANGED <<thread, calls, begun, written, saved, ended>>
    BY <1>1 DEF vars, sqliteVars, boundVars
  <2>2. \A t \in Threads : Does(t)' = Does(t) /\ Frames(t)' = Frames(t) /\ (Writes(t)' <=> Writes(t))
    BY <2>1 DEF Does, Frames, Writes
  <2>3. AllFrames' = AllFrames
    BY <2>2 DEF AllFrames
  <2>4. Known' = Known
    BY <2>1, <2>3 DEF Known
  <2> QED
    BY <2>1, <2>2, <2>3, <2>4 DEF Numbered, Kept
<1>2. ASSUME NEW t \in Threads, GoesOn(t) PROVE Numbered' /\ Kept'
  <2>1. CASE Lock(t)
    BY <1>0, <2>1, LockStays, CarriesSaved
  <2>2. CASE FindsClosed(t)
    BY <2>2, FindsClosedSaved
  <2>3. CASE StatementEnds(t)
    <3>1. CASE WriteRuns(t)
      BY <1>0, <3>1, WriteRunsSaved
    <3>2. CASE ReadRuns(t) \/ Fails(t) \/ CursorOpens(t) \/ NextRuns(t)
      BY <1>0, <3>2, StatementStays, CarriesSaved
    <3>3. CASE Begin(t)
      BY <3>3, BeginSaved
    <3>4. CASE Rollback(t) \/ \E refused \in BOOLEAN : Commit(t, refused)
      BY <3>4, EndRunsSaved
    <3>5. CASE \E why \in {"interrupt", "deadline"} : IsStopped(t, why)
      BY <1>0, <3>5, IsStoppedStays, CarriesSaved
    <3>6. CASE BeginByHand(t) \/ RollbackByHand(t) \/ \E refused \in BOOLEAN : CommitByHand(t, refused)
      BY <1>0, <3>6, ByHandStays, CarriesSaved
    <3> QED
      BY <2>3, <3>1, <3>2, <3>3, <3>4, <3>5, <3>6 DEF StatementEnds
  <2>4. CASE Words(t) \/ CloseCursor(t) \/ Push(t) \/ Retry(t) \/ Forget(t) \/ CloseConn(t)
    BY <1>0, <2>4, ElsewhereStays, CarriesSaved
  <2>5. CASE Acquire(t)
    BY <1>0, <2>5, AcquireCarries, CarriesSaved
  <2>6. CASE Sleep(t)
    BY <1>0, <2>6, SleepStays, CarriesSaved
  <2>7. CASE Leave(t)
    BY <2>7, LeaveSaved
  <2> QED
    BY <1>2, <2>1, <2>2, <2>3, <2>4, <2>5, <2>6, <2>7 DEF GoesOn
<1>3. ASSUME NEW t \in Threads, Program(t) PROVE Numbered' /\ Kept'
  <2>1. ASSUME NEW call \in {"read", "write"} \cup ByHand, NEW limit \in BOOLEAN, Execute(t, call, limit)
        PROVE  Numbered' /\ Kept'
    BY <1>0, <2>1, ExecuteStays, CarriesSaved
  <2>2. ASSUME NEW c \in Cursors, OpenCursor(t, c) PROVE Numbered' /\ Kept'
    BY <1>0, <2>2, OpenCursorStays, CarriesSaved
  <2>3. ASSUME NEW c \in Cursors, Drop(t, c) PROVE Numbered' /\ Kept'
    BY <1>0, <2>3, DropStays, CarriesSaved
  <2>4. ASSUME NEW c \in Cursors, NEW call \in {"next", "close_cursor"}, NEW limit \in BOOLEAN,
               UseCursor(t, call, c, limit)
        PROVE  Numbered' /\ Kept'
    BY <1>0, <2>4, UseCursorStays, CarriesSaved
  <2>5. CASE Interrupt(t) \/ Close(t)
    BY <1>0, <2>5, ProgramStays, CarriesSaved
  <2>6. CASE Enter(t)
    BY <2>6, EnterSaved
  <2>7. ASSUME NEW call \in {"commit", "rollback"}, EndBody(t, call) PROVE Numbered' /\ Kept'
    BY <2>7, EndBodySaved
  <2> QED
    BY <1>3, <2>1, <2>2, <2>3, <2>4, <2>5, <2>6, <2>7 DEF Program
<1> QED
  BY <1>1, <1>2, <1>3 DEF Next

(* db.transaction is all or nothing as long as it ends its own             *)
(* transaction, whatever other threads run on the connection: what its     *)
(* function wrote is saved when it answers the function's value, and none  *)
(* of it when it rolls back.                                               *)
THEOREM TransactionsAreAllOrNothing == Spec => []AllOrNothing
<1> DEFINE Inv == Turns /\ Numbered /\ Kept
<1>1. Init => Inv
  BY InitTurns, InitSaved
<1>2. Inv /\ [Next]_vars => Inv'
  BY NextTurns, NextSaved
<1>3. Inv => AllOrNothing
  BY DEF Kept, AllOrNothing
<1> QED
  BY <1>1, <1>2, <1>3, PTL DEF Spec

-----------------------------------------------------------------------------
(* The steps that open no cursor and drop none.                            *)
SpareCursors(t) ==
  \A u \in Threads :
    /\ OpensIt(u)' => OpensIt(u) /\ Does(u)'.cursor = Does(u).cursor
    /\ DropsIt(u)' => DropsIt(u) /\ Does(u)' = Does(u)

(* Such a step keeps every cursor where it was.                            *)
LEMMA SparedFinalized ==
  ASSUME Finalized, NEW t \in Threads, SpareCursors(t), handle' = handle,
         DOMAIN cursor' \subseteq DOMAIN cursor,
         orphans' = orphans \/ DOMAIN cursor' \cap orphans = {}
  PROVE  Finalized'
<1>1. \A c \in DOMAIN cursor' :
        c \in Cursors /\ handle'[c] \notin {"none", "opening"} /\ (handle'[c] = "gone" => c \in orphans')
  BY DEF Finalized
<1>2. ASSUME NEW u \in Threads
      PROVE  /\ Uses(u)' => Uses(u) /\ Does(u)'.cursor = Does(u).cursor
             /\ Uses(u)' => Does(u)'.cursor \in Cursors
             /\ OpensIt(u)' => handle'[Does(u)'.cursor] = "opening"
             /\ DropsIt(u)' => handle'[Does(u)'.cursor] = "dropping"
             /\ At(u, "retries")' /\ Does(u)'.cursor \in DOMAIN cursor' => Does(u)'.cursor \in orphans'
  <2>1. /\ OpensIt(u)' => OpensIt(u) /\ Does(u)'.cursor = Does(u).cursor
        /\ DropsIt(u)' => DropsIt(u) /\ Does(u)' = Does(u)
    BY DEF SpareCursors
  <2>2. Uses(u)' => Uses(u) /\ Does(u)'.cursor = Does(u).cursor
    BY <2>1 DEF Uses
  <2>3. At(u, "retries")' => DropsIt(u)'
    BY DEF At, DropsIt
  <2>4. At(u, "retries")' /\ Does(u)'.cursor \in DOMAIN cursor' => Does(u)'.cursor \in orphans'
    <3>1. At(u, "retries")' => At(u, "retries") /\ Does(u)'.cursor = Does(u).cursor
      BY <2>1, <2>3 DEF At
    <3> QED
      BY <3>1 DEF Finalized
  <2> QED
    BY <2>1, <2>2, <2>4 DEF Finalized
<1>3. \A u, v \in Threads : Uses(u)' /\ Uses(v)' /\ u # v => Does(u)'.cursor # Does(v)'.cursor
  BY <1>2 DEF Finalized
<1> QED
  BY <1>1, <1>2, <1>3 DEF Finalized

(* What the others do spares the cursors; so what the thread does decides. *)
LEMMA Spares ==
  ASSUME NEW t \in Threads, Others(t), ~OpensIt(t)', ~DropsIt(t)'
  PROVE  SpareCursors(t)
  BY DEF Others, SpareCursors, OpensIt, DropsIt

LEMMA FreeSpares ==
  ASSUME NEW t \in Threads, Others(t), Does(t)' = Free
  PROVE  SpareCursors(t)
  BY FreeIsQuiet, Spares DEF OpensIt, DropsIt

LEMMA AsksSpare ==
  ASSUME Shape, NEW t \in Threads, NEW call \in CallNames \ {"cursor"}, NEW c \in Cursors \cup {NoCursor},
         NEW limit \in BOOLEAN, calls' \in Nat, Asks(t, call, c, limit)
  PROVE  SpareCursors(t)
<1>1. Others(t) /\ Does(t)'.at = "waits" /\ Does(t)'.call = call
  BY AsksEffect
<1> QED
  BY <1>1, Spares DEF OpensIt, DropsIt

LEMMA GoesSpares ==
  ASSUME Shape, NEW t \in Threads, NEW at \in {"leaves", "forgets", "asleep"}, Goes(t, at)
  PROVE  SpareCursors(t)
<1>1. Others(t) /\ Does(t)'.at = at
  BY GoesEffect DEF Ats
<1> QED
  BY <1>1, Spares DEF OpensIt, DropsIt

(* Steps of the program and of its transactions.                           *)
LEMMA ProgramFinalized ==
  ASSUME Shape, Finalized, NEW t \in Threads,
         \/ \E call \in {"read", "write"} \cup ByHand, limit \in BOOLEAN : Execute(t, call, limit)
         \/ \E c \in Cursors, call \in {"next", "close_cursor"}, limit \in BOOLEAN : UseCursor(t, call, c, limit)
         \/ Interrupt(t) \/ Close(t) \/ Enter(t)
         \/ \E call \in {"commit", "rollback"} : EndBody(t, call)
  PROVE  Finalized'
<1>1. handle' = handle /\ cursor' = cursor /\ orphans' = orphans
  BY DEF Execute, UseCursor, Interrupt, Close, Enter, EndBody, stateVars
<1>2. SpareCursors(t)
  <2>1. ASSUME NEW call \in {"read", "write"} \cup ByHand, NEW limit \in BOOLEAN, Execute(t, call, limit)
        PROVE  SpareCursors(t)
    BY <2>1, AsksSpare, CallsAreNatural, SomeCallNames DEF Execute
  <2>2. ASSUME NEW c \in Cursors, NEW call \in {"next", "close_cursor"}, NEW limit \in BOOLEAN,
               UseCursor(t, call, c, limit)
        PROVE  SpareCursors(t)
    BY <2>2, AsksSpare, CallsAreNatural, SomeCallNames DEF UseCursor
  <2>3. CASE Interrupt(t)
    <3>1. thread' = thread
      BY <2>3 DEF Interrupt
    <3> QED
      BY <3>1 DEF SpareCursors, OpensIt, DropsIt, Does
  <2>4. CASE Close(t)
    BY <2>4, GoesSpares DEF Close
  <2>5. CASE Enter(t)
    <3> DEFINE d == [Free EXCEPT !.at = "enters"]
    <3>1. \E s : thread' = [thread EXCEPT ![t] = [does |-> d, frames |-> s]]
      BY <2>5 DEF Enter
    <3>2. d.at = "enters"
      BY DEF Free
    <3> HIDE DEF d
    <3>3. Does(t)' = d /\ \A u \in Threads : u # t => Does(u)' = Does(u)
      BY <3>1 DEF Shape, Does
    <3> QED
      BY <3>2, <3>3 DEF SpareCursors, OpensIt, DropsIt
  <2>6. ASSUME NEW call \in {"commit", "rollback"}, EndBody(t, call) PROVE SpareCursors(t)
    <3>1. CASE known
      BY <2>6, <3>1, AsksSpare, CallsAreNatural, SomeCallNames DEF EndBody
    <3>2. CASE ~known
      BY <2>6, <3>2, GoesSpares DEF EndBody
    <3> QED
      BY <3>1, <3>2
  <2> QED
    BY <2>1, <2>2, <2>3, <2>4, <2>5, <2>6
<1> QED
  BY <1>1, <1>2, SparedFinalized

LEMMA SlotFinalized ==
  ASSUME Shape, Nested, Finalized, NEW t \in Threads, Acquire(t) \/ Sleep(t) \/ Leave(t)
  PROVE  Finalized'
<1>1. handle' = handle /\ cursor' = cursor /\ orphans' = orphans
  BY DEF Acquire, Sleep, Leave, stateVars
<1>2. SpareCursors(t)
  <2>1. CASE Acquire(t) /\ known
    BY <2>1, AsksSpare, CallsAreNatural, SomeCallNames DEF Acquire
  <2>2. CASE Acquire(t) /\ ~known
    BY <2>2, GoesSpares DEF Acquire
  <2>3. CASE Sleep(t)
    BY <2>3, GoesSpares DEF Sleep
  <2>4. CASE Leave(t)
    <3>1. Left(t)
      BY <2>4, LeaveEffect DEF Leave, Nested
    <3> QED
      BY <3>1, FreeIsQuiet DEF Left, SpareCursors, OpensIt, DropsIt
  <2> QED
    BY <2>1, <2>2, <2>3, <2>4
<1> QED
  BY <1>1, <1>2, SparedFinalized

LEMMA ReapedFacts ==
  DOMAIN Reaped = DOMAIN cursor \ orphans /\ \A c : DOMAIN Without(c, Reaped) = (DOMAIN cursor \ orphans) \ {c}
  BY DEF Reaped, Without

(* Statements, but for those that open a cursor.                           *)
LEMMA StatementFinalized ==
  ASSUME Turns, Finalized, NEW t \in Threads,
         \/ Lock(t) \/ WriteRuns(t) \/ ReadRuns(t) \/ NextRuns(t) \/ Words(t)
         \/ CloseCursor(t) \/ CloseConn(t) \/ Forget(t) \/ Begin(t) \/ Rollback(t)
         \/ BeginByHand(t) \/ RollbackByHand(t)
         \/ \E refused \in BOOLEAN : Commit(t, refused) \/ CommitByHand(t, refused)
         \/ \E why \in {"interrupt", "deadline"} : IsStopped(t, why)
  PROVE  Finalized'
<1> USE DEF Turns
<1>1. handle' = handle
  BY DEF Lock, WriteRuns, ReadRuns, NextRuns, Words, CloseCursor, CloseConn, Forget, Begin, Rollback,
         Commit, BeginByHand, RollbackByHand, CommitByHand, IsStopped
<1>2. /\ DOMAIN cursor' \subseteq DOMAIN cursor
      /\ orphans' = orphans \/ DOMAIN cursor' \cap orphans = {}
  <2>1. CASE Lock(t) \/ CloseCursor(t)
    BY <2>1, ReapedFacts DEF Lock, CloseCursor
  <2>2. CASE CloseConn(t)
    BY <2>2 DEF CloseConn
  <2>3. CASE WriteRuns(t) \/ ReadRuns(t) \/ Begin(t) \/ Rollback(t) \/ \E refused \in BOOLEAN : Commit(t, refused)
    BY <2>3 DEF WriteRuns, ReadRuns, Begin, Rollback, Commit, Unlocks
  <2>4. CASE Words(t) \/ Forget(t)
    BY <2>4 DEF Words, Forget, stateVars
  <2>5. CASE NextRuns(t)
    <3>1. orphans' = orphans /\ DOMAIN cursor' = DOMAIN cursor
      BY <2>5 DEF NextRuns, Unlocks
    <3> QED
      BY <3>1
  <2>6. CASE \E why \in {"interrupt", "deadline"} : IsStopped(t, why)
    <3>1. orphans' = orphans /\ DOMAIN cursor' = DOMAIN cursor
      BY <2>6 DEF IsStopped, Unlocks
    <3> QED
      BY <3>1
  <2>7. CASE BeginByHand(t) \/ RollbackByHand(t) \/ \E refused \in BOOLEAN : CommitByHand(t, refused)
    BY <2>7 DEF BeginByHand, RollbackByHand, CommitByHand, Unlocks
  <2> QED
    BY <2>1, <2>2, <2>3, <2>4, <2>5, <2>6, <2>7
<1>3. SpareCursors(t)
  <2>1. CASE Lock(t)
    <3>1. /\ Others(t) /\ Does(t)'.at = "runs" /\ Does(t)'.call = Does(t).call
          /\ Does(t)'.cursor = Does(t).cursor /\ Does(t).at = "waits"
      BY <2>1, GoesEffect DEF Lock, Waits, At, Ats
    <3> QED
      BY <3>1 DEF Others, SpareCursors, OpensIt, DropsIt
  <2>2. CASE \/ ReadRuns(t) \/ NextRuns(t) \/ Words(t) \/ CloseCursor(t) \/ CloseConn(t)
             \/ BeginByHand(t) \/ RollbackByHand(t) \/ \E refused \in BOOLEAN : CommitByHand(t, refused)
    <3>1. Returns(t)
      BY <2>2 DEF ReadRuns, NextRuns, Words, CloseCursor, CloseConn, BeginByHand, RollbackByHand, CommitByHand
    <3> QED
      BY <3>1, ReturnsEffect, FreeSpares
  <2>3. CASE WriteRuns(t)
    <3>1. PICK f : Others(t) /\ Does(t)' = Free
      BY <2>3, WriteRunsStays, ReturnsEffect DEF WriteRuns, ReturnsWith, Shape, Others, Does, Frames
    <3> QED
      BY <3>1, FreeSpares
  <2>4. CASE Begin(t) /\ begun = 0
    <3>1. Others(t) /\ Does(t)' = Free
      BY <2>4 DEF Begin, ReturnsWith, Shape, Others, Does, Frames
    <3> QED
      BY <3>1, FreeSpares
  <2>5. CASE (Begin(t) /\ begun # 0) \/ Rollback(t) \/ \E refused \in BOOLEAN : Commit(t, refused)
    BY <2>5, GoesSpares DEF Begin, Rollback, Commit
  <2>6. CASE Forget(t)
    <3>1. CASE known
      <4> DEFINE d == [Does(t) EXCEPT !.at = "waits", !.call = "close"]
      <4>1. thread' = [thread EXCEPT ![t].does = d]
        BY <2>6, <3>1 DEF Forget, Does
      <4>2. d \in Acts /\ d.at = "waits" /\ d.call = "close"
        BY ThreadFacts DEF Acts, Ats, CallNames
      <4> HIDE DEF d
      <4> QED
        BY <4>1, <4>2, DoesEffect, Spares DEF OpensIt, DropsIt
    <3>2. CASE ~known
      BY <2>6, <3>2, ReturnsEffect, FreeSpares DEF Forget
    <3> QED
      BY <3>1, <3>2
  <2>7. ASSUME NEW why \in {"interrupt", "deadline"}, IsStopped(t, why) PROVE SpareCursors(t)
    <3>1. CASE Does(t).call = "next"
      BY <2>7, <3>1, ReturnsEffect, FreeSpares DEF IsStopped
    <3>2. CASE Does(t).call # "next"
      <4> DEFINE d == [Does(t) EXCEPT !.at = "words", !.why = why]
      <4>1. thread' = [thread EXCEPT ![t].does = d]
        BY <2>7, <3>2 DEF IsStopped, Does
      <4>2. d \in Acts /\ d.at = "words"
        BY ThreadFacts DEF Acts, Ats
      <4> HIDE DEF d
      <4> QED
        BY <4>1, <4>2, DoesEffect, Spares DEF OpensIt, DropsIt
    <3> QED
      BY <3>1, <3>2
  <2> QED
    BY <2>1, <2>2, <2>3, <2>4, <2>5, <2>6, <2>7
<1> QED
  BY <1>1, <1>2, <1>3, SparedFinalized

(* Steps that change what one cursor is.                                   *)
LEMMA OneCursorFinalized ==
  ASSUME Finalized, NEW t \in Threads, Others(t), NEW c \in Cursors, NEW h,
         handle' = [handle EXCEPT ![c] = h] \/ (handle' = handle /\ handle[c] = h),
         \A u \in Threads : u # t /\ Uses(u) => Does(u).cursor # c,
         \A d \in DOMAIN cursor' : d # c => d \in DOMAIN cursor,
         c \in DOMAIN cursor' => h \notin {"none", "opening"} /\ (h = "gone" => c \in orphans'),
         orphans \subseteq orphans' \/ DOMAIN cursor' \cap orphans = {},
         \/ ~Uses(t)'
         \/ /\ Does(t)'.cursor = c
            /\ OpensIt(t)' => h = "opening"
            /\ DropsIt(t)' => h = "dropping"
            /\ At(t, "retries")' => c \in orphans'
  PROVE  Finalized'
<1>1. DOMAIN handle' = Cursors /\ handle'[c] = h /\ \A d \in Cursors : d # c => handle'[d] = handle[d]
  BY DEF Finalized
<1>2. ASSUME NEW d \in DOMAIN cursor'
      PROVE  d \in Cursors /\ handle'[d] \notin {"none", "opening"} /\ (handle'[d] = "gone" => d \in orphans')
  <2>1. CASE d = c
    BY <1>1, <1>2, <2>1
  <2>2. CASE d # c
    BY <1>1, <1>2, <2>2 DEF Finalized
  <2> QED
    BY <2>1, <2>2
<1>3. ASSUME NEW u \in Threads
      PROVE  /\ Uses(u)' => Does(u)'.cursor \in Cursors
             /\ OpensIt(u)' => handle'[Does(u)'.cursor] = "opening"
             /\ DropsIt(u)' => handle'[Does(u)'.cursor] = "dropping"
             /\ At(u, "retries")' /\ Does(u)'.cursor \in DOMAIN cursor' => Does(u)'.cursor \in orphans'
  <2>1. CASE u = t
    <3>1. At(t, "retries")' => DropsIt(t)'
      BY DEF At, DropsIt
    <3>2. OpensIt(t)' \/ DropsIt(t)' <=> Uses(t)'
      BY DEF Uses
    <3> QED
      BY <1>1, <2>1, <3>1, <3>2
  <2>2. CASE u # t
    <3>1. Does(u)' = Does(u)
      BY <2>2 DEF Others
    <3>2. (OpensIt(u)' <=> OpensIt(u)) /\ (DropsIt(u)' <=> DropsIt(u)) /\ (Uses(u)' <=> Uses(u))
          /\ (At(u, "retries")' <=> At(u, "retries"))
      BY <3>1 DEF OpensIt, DropsIt, Uses, At
    <3>3. OpensIt(u) \/ DropsIt(u) <=> Uses(u)
      BY DEF Uses
    <3>4. At(u, "retries") => DropsIt(u)
      BY DEF At, DropsIt
    <3>5. Uses(u) => Does(u).cursor \in Cursors /\ Does(u).cursor # c
      BY <2>2 DEF Finalized
    <3>6. OpensIt(u) => handle'[Does(u).cursor] = "opening"
      BY <1>1, <3>3, <3>5 DEF Finalized
    <3>7. DropsIt(u) => handle'[Does(u).cursor] = "dropping"
      BY <1>1, <3>3, <3>5 DEF Finalized
    <3>8. At(u, "retries") /\ Does(u).cursor \in DOMAIN cursor' => Does(u).cursor \in orphans'
      BY <3>3, <3>4, <3>5 DEF Finalized
    <3> QED
      BY <3>1, <3>2, <3>5, <3>6, <3>7, <3>8
  <2> QED
    BY <2>1, <2>2
<1>4. ASSUME NEW u \in Threads, NEW v \in Threads, Uses(u)', Uses(v)', u # v
      PROVE  Does(u)'.cursor # Does(v)'.cursor
  <2>1. \A w \in Threads : w # t /\ Uses(w)' => Uses(w) /\ Does(w)'.cursor = Does(w).cursor /\ Does(w).cursor # c
    BY DEF Others, Uses, OpensIt, DropsIt
  <2> QED
    BY <1>4, <2>1 DEF Finalized
<1> QED
  BY <1>1, <1>2, <1>3, <1>4 DEF Finalized

LEMMA OpenCursorFinalized ==
  ASSUME Shape, Finalized, NEW t \in Threads, NEW c \in Cursors, OpenCursor(t, c)
  PROVE  Finalized'
<1>1. Others(t) /\ Does(t)'.at = "waits" /\ Does(t)'.call = "cursor" /\ Does(t)'.cursor = c
  <2>1. "cursor" \in CallNames /\ calls' \in Nat
    BY CallsAreNatural DEF CallNames, Statements, OpenCursor
  <2> QED
    BY <2>1, AsksEffect DEF OpenCursor
<1>2. handle[c] = "none" /\ handle' = [handle EXCEPT ![c] = "opening"] /\ cursor' = cursor /\ orphans' = orphans
  BY DEF OpenCursor, stateVars
<1>3. \A u \in Threads : Uses(u) => Does(u).cursor # c
  BY <1>2 DEF Finalized, Uses
<1>4. c \notin DOMAIN cursor
  BY <1>2 DEF Finalized
<1>5. ~DropsIt(t)' /\ ~At(t, "retries")'
  BY <1>1 DEF DropsIt, At
<1>6. \A d \in DOMAIN cursor' : d # c => d \in DOMAIN cursor
  BY <1>2
<1> DEFINE h == "opening"
<1>7. /\ Finalized /\ Others(t) /\ handle' = [handle EXCEPT ![c] = h]
      /\ c \in DOMAIN cursor' => h \notin {"none", "opening"} /\ (h = "gone" => c \in orphans')
      /\ orphans \subseteq orphans'
  BY <1>1, <1>2, <1>4
<1>8. /\ Does(t)'.cursor = c
      /\ OpensIt(t)' => h = "opening"
      /\ DropsIt(t)' => h = "dropping"
      /\ At(t, "retries")' => c \in orphans'
  BY <1>1, <1>5
<1> HIDE DEF h
<1> QED
  BY <1>3, <1>6, <1>7, <1>8, OneCursorFinalized

(* The cursor's statement ran: it has its handle, or there is none.        *)
LEMMA OpeningEnds ==
  ASSUME Shape, Finalized, NEW t \in Threads, CursorOpens(t) \/ Fails(t) \/ FindsClosed(t)
  PROVE  Finalized'
<1>1. Does(t).call \in InTransaction => FindsClosed(t)
  BY DEF CursorOpens, Fails, Runs, InTransaction
<1>2. CASE Does(t).call # "cursor"
  <2>1. handle' = handle
    BY <1>2 DEF CursorOpens, Fails, FindsClosed, Runs
  <2>2. /\ DOMAIN cursor' \subseteq DOMAIN cursor
        /\ orphans' = orphans \/ DOMAIN cursor' \cap orphans = {}
    BY <1>2, ReapedFacts DEF CursorOpens, Fails, FindsClosed, Runs, Unlocks
  <2>3. SpareCursors(t)
    <3>1. Returns(t) \/ Goes(t, "leaves")
      BY <1>2 DEF CursorOpens, Fails, FindsClosed, Runs
    <3> QED
      BY <3>1, ReturnsEffect, FreeSpares, GoesSpares
  <2> QED
    BY <2>1, <2>2, <2>3, SparedFinalized
<1>3. CASE Does(t).call = "cursor"
  <2>1. PICK c : c = Does(t).cursor
    OBVIOUS
  <2>2. OpensIt(t) /\ Uses(t)
    BY <1>3 DEF CursorOpens, Fails, FindsClosed, Runs, Waits, At, OpensIt, Uses
  <2>3. c \in Cursors /\ handle[c] = "opening" /\ c \notin DOMAIN cursor
    BY <2>1, <2>2 DEF Finalized
  <2>4. Returns(t)
    BY <1>3 DEF CursorOpens, Fails, FindsClosed, InTransaction
  <2>5. Others(t) /\ ~Uses(t)'
    BY <2>4, ReturnsEffect, FreeIsQuiet DEF Uses, OpensIt, DropsIt
  <2>6. \A u \in Threads : u # t /\ Uses(u) => Does(u).cursor # c
    BY <2>1, <2>2 DEF Finalized
  <2>7. CASE CursorOpens(t)
    <3>1. handle' = [handle EXCEPT ![c] = "held"] /\ DOMAIN cursor' = DOMAIN cursor \cup {c} /\ orphans' = orphans
      BY <2>1, <2>7 DEF CursorOpens, Unlocks
    <3> QED
      BY <2>3, <2>5, <2>6, <3>1, OneCursorFinalized
  <2>8. CASE Fails(t)
    <3>1. handle' = [handle EXCEPT ![c] = "gone"] /\ cursor' = cursor /\ orphans' = orphans
      BY <1>3, <2>1, <2>8 DEF Fails, Unlocks
    <3> QED
      BY <2>3, <2>5, <2>6, <3>1, OneCursorFinalized
  <2>9. CASE FindsClosed(t)
    <3>1. handle' = [handle EXCEPT ![c] = "gone"] /\ DOMAIN cursor' = DOMAIN cursor \ orphans
      BY <1>3, <2>1, <2>9, ReapedFacts DEF FindsClosed
    <3> QED
      BY <2>3, <2>5, <2>6, <3>1, OneCursorFinalized
  <2> QED
    BY <2>7, <2>8, <2>9
<1> QED
  BY <1>2, <1>3

(* The last handle goes while the connection may be busy: the try_lock,    *)
(* the push on the orphans, and the second try_lock.                       *)
LEMMA DropFinalized ==
  ASSUME Shape, Finalized, NEW t \in Threads, NEW c \in Cursors, Drop(t, c)
  PROVE  Finalized'
<1>1. Does(t).at = "free" /\ orphans' = orphans /\ \A u \in Threads : Does(u).cursor # c
  BY DEF Drop, At
<1>2. CASE holder = Nobody
  <2>1. thread' = thread /\ cursor' = Without(c, cursor) /\ handle' = [handle EXCEPT ![c] = "gone"]
    BY <1>2 DEF Drop
  <2>2. DOMAIN cursor' = DOMAIN cursor \ {c}
    BY <2>1 DEF Without
  <2>3. Others(t) /\ ~Uses(t)'
    BY <1>1, <2>1 DEF Others, Does, Frames, Uses, OpensIt, DropsIt
  <2> QED
    BY <1>1, <2>1, <2>2, <2>3, OneCursorFinalized
<1>3. CASE holder # Nobody
  <2> DEFINE d == [Does(t) EXCEPT !.at = "pushes", !.cursor = c]
  <2>1. thread' = [thread EXCEPT ![t].does = d]
    BY <1>3 DEF Drop, Does
  <2>2. d \in Acts /\ d.at = "pushes" /\ d.cursor = c
    BY ThreadFacts DEF Acts, Ats
  <2>3. cursor' = cursor /\ handle' = [handle EXCEPT ![c] = "dropping"]
    BY <1>3 DEF Drop
  <2> HIDE DEF d
  <2>4. Others(t) /\ Does(t)' = d
    BY <2>1, <2>2, DoesEffect
  <2>5. ~OpensIt(t)' /\ ~At(t, "retries")'
    BY <2>2, <2>4 DEF OpensIt, At
  <2>6. \A e \in DOMAIN cursor' : e # c => e \in DOMAIN cursor
    BY <2>3
  <2> QED
    BY <1>1, <2>2, <2>3, <2>4, <2>5, <2>6, OneCursorFinalized
<1> QED
  BY <1>2, <1>3

LEMMA PushFinalized ==
  ASSUME Shape, Finalized, NEW t \in Threads, Push(t) \/ Retry(t)
  PROVE  Finalized'
<1>1. PICK c : c = Does(t).cursor
  OBVIOUS
<1>2. DropsIt(t) /\ Uses(t)
  BY DEF Push, Retry, At, DropsIt, Uses
<1>3. c \in Cursors /\ handle[c] = "dropping"
  BY <1>1, <1>2 DEF Finalized
<1>4. \A u \in Threads : u # t /\ Uses(u) => Does(u).cursor # c
  BY <1>1, <1>2 DEF Finalized
<1>5. CASE Push(t)
  <2>1. Others(t) /\ Does(t)'.at = "retries" /\ Does(t)'.cursor = c
    BY <1>1, <1>5, GoesEffect DEF Push, Ats
  <2>2. orphans' = orphans \cup {c} /\ cursor' = cursor /\ handle' = handle
    BY <1>1, <1>5 DEF Push
  <2>3. handle' = handle /\ handle[c] = "dropping"
    BY <1>3, <2>2
  <2>4. ~OpensIt(t)' /\ c \in orphans'
    BY <2>1, <2>2 DEF OpensIt
  <2> QED
    BY <1>3, <1>4, <2>1, <2>2, <2>3, <2>4, OneCursorFinalized
<1>6. CASE Retry(t)
  <2>1. Others(t) /\ ~Uses(t)'
    BY <1>6, ReturnsEffect, FreeIsQuiet DEF Retry, Uses, OpensIt, DropsIt
  <2>2. handle' = [handle EXCEPT ![c] = "gone"]
    BY <1>1, <1>6 DEF Retry
  <2>3. \/ orphans' = orphans /\ cursor' = cursor
        \/ DOMAIN cursor' = DOMAIN cursor \ orphans
    BY <1>6, ReapedFacts DEF Retry
  <2>4. c \in DOMAIN cursor => c \in orphans
    BY <1>1, <1>6 DEF Retry, Finalized
  <2> QED
    BY <1>3, <1>4, <2>1, <2>2, <2>3, <2>4, OneCursorFinalized
<1> QED
  BY <1>5, <1>6

(* Every step leaves an unowned cursor to the orphans or its dropper.      *)
LEMMA InitFinalized == Init => Finalized
<1> SUFFICES ASSUME Init PROVE Finalized
  OBVIOUS
<1>1. handle = [c \in Cursors |-> "none"] /\ cursor = <<>>
      /\ thread = [t \in Threads |-> [does |-> Free, frames |-> <<>>]]
  BY DEF Init
<1>2. \A t \in Threads : ~Uses(t) /\ ~OpensIt(t) /\ ~DropsIt(t) /\ ~At(t, "retries")
  BY <1>1, FreeIsQuiet DEF Uses, OpensIt, DropsIt, At, Does
<1>3. DOMAIN cursor = {}
  BY <1>1
<1> QED
  BY <1>1, <1>2, <1>3 DEF Finalized

LEMMA NextFinalized == Turns /\ Finalized /\ [Next]_vars => Finalized'
<1> SUFFICES ASSUME Turns, Finalized, [Next]_vars PROVE Finalized'
  OBVIOUS
<1>0. Shape /\ Nested
  BY DEF Turns
<1>1. CASE UNCHANGED vars
  <2>1. UNCHANGED <<thread, cursor, orphans, handle>>
    BY <1>1 DEF vars, stateVars
  <2>2. \A t \in Threads : Does(t)' = Does(t)
    BY <2>1 DEF Does
  <2> QED
    BY <2>1, <2>2 DEF Finalized, Uses, OpensIt, DropsIt, At
<1>2. ASSUME NEW t \in Threads, GoesOn(t) PROVE Finalized'
  <2>1. CASE \/ Lock(t) \/ Words(t) \/ CloseCursor(t) \/ Forget(t) \/ CloseConn(t)
    BY <2>1, StatementFinalized
  <2>2. CASE FindsClosed(t)
    BY <1>0, <2>2, OpeningEnds
  <2>3. CASE StatementEnds(t)
    <3>1. CASE \/ WriteRuns(t) \/ ReadRuns(t) \/ NextRuns(t) \/ Begin(t) \/ Rollback(t)
               \/ BeginByHand(t) \/ RollbackByHand(t)
               \/ \E refused \in BOOLEAN : Commit(t, refused) \/ CommitByHand(t, refused)
               \/ \E why \in {"interrupt", "deadline"} : IsStopped(t, why)
      BY <3>1, StatementFinalized
    <3>2. CASE CursorOpens(t) \/ Fails(t)
      BY <1>0, <3>2, OpeningEnds
    <3> QED
      BY <2>3, <3>1, <3>2 DEF StatementEnds
  <2>4. CASE Push(t) \/ Retry(t)
    BY <1>0, <2>4, PushFinalized
  <2>5. CASE Acquire(t) \/ Sleep(t) \/ Leave(t)
    BY <1>0, <2>5, SlotFinalized
  <2> QED
    BY <1>2, <2>1, <2>2, <2>3, <2>4, <2>5 DEF GoesOn
<1>3. ASSUME NEW t \in Threads, Program(t) PROVE Finalized'
  <2>1. ASSUME NEW c \in Cursors, OpenCursor(t, c) PROVE Finalized'
    BY <1>0, <2>1, OpenCursorFinalized
  <2>2. ASSUME NEW c \in Cursors, Drop(t, c) PROVE Finalized'
    BY <1>0, <2>2, DropFinalized
  <2>3. CASE \/ \E call \in {"read", "write"} \cup ByHand, limit \in BOOLEAN : Execute(t, call, limit)
             \/ \E c \in Cursors, call \in {"next", "close_cursor"}, limit \in BOOLEAN : UseCursor(t, call, c, limit)
             \/ Interrupt(t) \/ Close(t) \/ Enter(t)
             \/ \E call \in {"commit", "rollback"} : EndBody(t, call)
    BY <1>0, <2>3, ProgramFinalized
  <2> QED
    BY <1>3, <2>1, <2>2, <2>3 DEF Program
<1> QED
  BY <1>1, <1>2, <1>3 DEF Next

(* Only the lock gives the connection to a thread.                         *)
LEMMA OnlyLockHolds ==
  ASSUME NEW t \in Threads, [Next]_vars, holder = Nobody, holder' = t
  PROVE  Lock(t)
<1>0. Nobody \notin Threads
  BY NobodyAssumption DEF Nobody
<1>1. holder' # holder /\ holder' # Nobody
  BY <1>0
<1>2. ~UNCHANGED vars
  BY <1>1 DEF vars, stateVars
<1>3. ASSUME NEW u \in Threads, GoesOn(u) PROVE Lock(t)
  <2>1. CASE Lock(u)
    BY <2>1 DEF Lock
  <2>2. CASE FindsClosed(u) \/ Words(u) \/ CloseCursor(u) \/ Push(u) \/ Retry(u) \/ Forget(u) \/ CloseConn(u)
    BY <1>1, <2>2 DEF FindsClosed, Words, CloseCursor, Push, Retry, Forget, CloseConn, stateVars
  <2>3. CASE Acquire(u) \/ Sleep(u) \/ Leave(u)
    BY <1>1, <2>3 DEF Acquire, Sleep, Leave, stateVars
  <2>4. CASE StatementEnds(u)
    <3>1. Unlocks(u)
      BY <2>4 DEF StatementEnds, WriteRuns, ReadRuns, Fails, CursorOpens, NextRuns, Begin, Rollback,
                   Commit, BeginByHand, RollbackByHand, CommitByHand, IsStopped
    <3> QED
      BY <1>1, <3>1 DEF Unlocks
  <2> QED
    BY <1>3, <2>1, <2>2, <2>3, <2>4 DEF GoesOn
<1>4. ASSUME NEW u \in Threads, Program(u) PROVE FALSE
  <2>1. ASSUME NEW c \in Cursors, Drop(u, c) PROVE FALSE
    BY <1>1, <2>1 DEF Drop
  <2>2. CASE ~ \E c \in Cursors : Drop(u, c)
    BY <1>1, <1>4, <2>2 DEF Program, Execute, OpenCursor, UseCursor, Interrupt, Close, Enter, EndBody, stateVars
  <2> QED
    BY <2>1, <2>2
<1> QED
  BY <1>2, <1>3, <1>4 DEF Next

(* A cursor whose last handle went, even while its connection was busy, is *)
(* finalized before the next statement begins.                             *)
THEOREM DroppedIsAlwaysFinished == Spec => DroppedIsFinished
<1>1. Init => Turns /\ Finalized
  BY InitTurns, InitFinalized
<1>2. Turns /\ Finalized /\ [Next]_vars => (Turns /\ Finalized)'
  BY NextTurns, NextFinalized
<1>3. Turns /\ Finalized /\ [Next]_vars =>
        [\A t \in Threads : holder = Nobody /\ holder' = t =>
           \A c \in DOMAIN cursor' : handle[c] # "gone"]_vars
  <2> SUFFICES ASSUME Finalized, [Next]_vars, NEW t \in Threads, holder = Nobody, holder' = t,
                      NEW c \in DOMAIN cursor'
               PROVE  handle[c] # "gone"
    OBVIOUS
  <2>1. Lock(t)
    BY OnlyLockHolds
  <2>2. c \in DOMAIN cursor /\ c \notin orphans
    BY <2>1, ReapedFacts DEF Lock
  <2> QED
    BY <2>2 DEF Finalized
<1> QED
  BY <1>1, <1>2, <1>3, PTL DEF Spec, DroppedIsFinished
=============================================================================
