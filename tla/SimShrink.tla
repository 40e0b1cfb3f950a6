------------------------------ MODULE SimShrink ------------------------------
(***************************************************************************)
(* The shrinker of the simulator (src/sim/shrink.rs): delta debugging of   *)
(* the faults of a failing run, then its optional nodes, its restart       *)
(* delays and its schedule, each change kept only if the world still fails *)
(* the same way, a batch of candidates at a time and within a budget.      *)
(*                                                                         *)
(* Whether the world fails the same way under a plan is not known until it *)
(* has been run, and is then the same for ever: the plans found to fail    *)
(* and found to pass.  The failure is shrunk once with each number of jobs *)
(* in turn.  What the last run fired, put in place of the plan and checked *)
(* by three more runs, is not modelled.                                    *)
(***************************************************************************)
EXTENDS Integers, Sequences, SequencesExt, FiniteSets

CONSTANTS
  Faults,                \* the failing run's, in order
  Optional,              \* optional nodes, in order
  RestartDelays,         \* fault: its restart delay, 0 if it has none
  Sticks,                \* the stickiness tried, the stickiest first; a run starts at 0
  Batches,               \* the numbers of jobs, one shrink each
  Budget

ASSUME FaultsAssumption ==
  /\ IsInjective(Faults)
  /\ Faults \in Seq(Range(Faults)) /\ RestartDelays \in [Range(Faults) -> Nat]
ASSUME StepsAssumption ==
  /\ Optional \in Seq(Range(Optional)) /\ Sticks \in Seq(Nat)
  /\ Batches \in Seq(Nat \ {0}) \ {<<>>} /\ Budget \in Nat

VARIABLES
  shrink,                \* the plan so far; the step, which of its nodes or
                         \* faults; ddmin's granularity
  cands, nextCand,       \* of a trial: what is left to run from
  runs, short,           \* runs so far; cut_short
  failing, passing,      \* what is known of the world
  results                \* of the shrinks that ended: the plan, and if cut short

shrinkVars == <<shrink, cands, nextCand, runs, short, failing, passing, results>>

FirstPlan == [faults |-> Faults, drop |-> {}, delay |-> RestartDelays, stick |-> 0]
FirstStep == [plan |-> FirstPlan, step |-> "none", item |-> 1, n |-> 2]

(* The first run failed, and its own plan brought it back.                 *)
ShrinkInit ==
  /\ shrink = FirstStep /\ cands = <<>> /\ nextCand = 1
  /\ runs = 2 /\ short = FALSE
  /\ failing = {FirstPlan} /\ passing = {} /\ results = <<>>

----------------------------------------------------------------------------
(* What each step tries, in order. *)

Size(s) == (Len(s.plan.faults) + s.n - 1) \div s.n
WithoutChunk(s, k) ==
  SubSeq(s.plan.faults, 1, (k - 1) * Size(s)) \o
  SubSeq(s.plan.faults, k * Size(s) + 1, Len(s.plan.faults))
Chunks(s) == (Len(s.plan.faults) + Size(s) - 1) \div Size(s)
Complements(s) == [k \in 1..Chunks(s) |-> [s.plan EXCEPT !.faults = WithoutChunk(s, k)]]

ShorterDelays(s) ==
  LET f == s.plan.faults[s.item]
      d == s.plan.delay[f]
      To(ms) == [s.plan EXCEPT !.delay[f] = ms]
  IN IF d = 0 THEN <<>> ELSE <<To(0), To(d \div 4), To(d \div 2)>>

Stickier(s) == [k \in DOMAIN Sticks |-> [s.plan EXCEPT !.stick = Sticks[k]]]

Items(s) == CASE s.step = "nodes" -> Len(Optional)
              [] s.step = "delays" -> Len(s.plan.faults)
              [] OTHER -> 1

Tries(s) ==
  IF s.item > Items(s) THEN <<>> ELSE
  CASE s.step = "none" ->
         IF s.plan.faults = <<>> THEN <<>> ELSE <<[s.plan EXCEPT !.faults = <<>>]>>
    [] s.step = "chunks" -> IF Len(s.plan.faults) < 2 THEN <<>> ELSE Complements(s)
    [] s.step = "nodes" -> <<[s.plan EXCEPT !.drop = @ \cup {Optional[s.item]}]>>
    [] s.step = "delays" -> ShorterDelays(s)
    [] s.step = "stick" -> Stickier(s)

(* Once runs were short, only the faults are tried. *)
Candidates ==
  IF short /\ shrink.step \notin {"none", "chunks"} THEN <<>> ELSE Tries(shrink)

Following == [none |-> "chunks", chunks |-> "nodes", nodes |-> "delays",
              delays |-> "stick", stick |-> "done"]

(* On to the next node or fault, or the next step. *)
MovedOn(s) ==
  IF s.item < Items(s) THEN [s EXCEPT !.item = @ + 1]
                       ELSE [s EXCEPT !.item = 1, !.step = Following[@]]

Propose ==
  /\ shrink.step # "done" /\ cands = <<>> /\ Candidates # <<>>
  /\ cands' = Candidates /\ nextCand' = 1
  /\ UNCHANGED <<shrink, runs, short, failing, passing, results>>

NothingToTry ==
  /\ shrink.step # "done" /\ cands = <<>> /\ Candidates = <<>>
  /\ shrink' = MovedOn(shrink)
  /\ UNCHANGED <<cands, nextCand, runs, short, failing, passing, results>>

----------------------------------------------------------------------------
(* A trial runs its candidates a batch at a time. *)

Jobs == Batches[Len(results) + 1]
Until == IF nextCand + Jobs - 1 < Len(cands) THEN nextCand + Jobs - 1 ELSE Len(cands)
Batch == nextCand..Until
BatchFits == runs + (Until - nextCand + 1) <= Budget

(* The i-th of the candidates is the one kept; past its batch, none fails. *)
(* Mutant: it is one that fails, whichever answers first.                  *)
PassedAny(i) == IF i \in Batch THEN {} ELSE {cands[j] : j \in Batch}
Passed(i) == {cands[j] : j \in {k \in Batch : k < i}}

Answers(i) ==
  /\ passing' = passing \cup Passed(i)
  /\ failing' = failing \cup {cands[j] : j \in {i} \cap Batch}
  /\ passing' \cap failing' = {}

RunBatch ==
  /\ cands # <<>> /\ BatchFits
  /\ runs' = runs + (Until - nextCand + 1)

(* One fails the same way: it is the plan now. *)
KeptPlan(s, plan) ==
  LET t == [s EXCEPT !.plan = plan] IN
  IF s.step = "chunks" THEN [t EXCEPT !.n = IF @ > 3 THEN @ - 1 ELSE 2] ELSE MovedOn(t)

Keep(i) ==
  /\ RunBatch /\ i \in Batch /\ Answers(i)
  /\ shrink' = KeptPlan(shrink, cands[i])
  /\ cands' = <<>>
  /\ UNCHANGED <<nextCand, short, results>>

(* No candidate did: ddmin cuts finer until it tries single faults.        *)
(* Mutant: it stops a round early.                                         *)
FinestEarly(s) == 2 * s.n >= Len(s.plan.faults)
Finest(s) == s.n >= Len(s.plan.faults)
NoneKept(s) ==
  IF s.step = "chunks" /\ ~Finest(s)
  THEN [s EXCEPT !.n = IF 2 * @ < Len(s.plan.faults) THEN 2 * @ ELSE Len(s.plan.faults)]
  ELSE MovedOn(s)

PassBatch ==
  /\ RunBatch /\ Answers(Until + 1)
  /\ Until < Len(cands)
  /\ nextCand' = Until + 1
  /\ UNCHANGED <<shrink, cands, short, results>>

PassLast ==
  /\ RunBatch /\ Answers(Until + 1)
  /\ Until = Len(cands)
  /\ cands' = <<>>
  /\ shrink' = IF short THEN MovedOn(shrink) ELSE NoneKept(shrink)
  /\ UNCHANGED <<nextCand, short, results>>

CutShort ==
  /\ cands # <<>> /\ ~BatchFits
  /\ short' = TRUE
  /\ cands' = <<>>
  /\ shrink' = MovedOn(shrink)
  /\ UNCHANGED <<nextCand, runs, failing, passing, results>>

(* Shrunk: and once more, with another number of jobs. *)
Done ==
  /\ shrink.step = "done" /\ Len(results) < Len(Batches)
  /\ results' = Append(results, [plan |-> shrink.plan, short |-> short])
  /\ IF Len(results') < Len(Batches)
     THEN shrink' = FirstStep /\ nextCand' = 1 /\ runs' = 2 /\ short' = FALSE
     ELSE UNCHANGED <<shrink, nextCand, runs, short>>
  /\ UNCHANGED <<cands, failing, passing>>

ShrinkNext ==
  \/ Propose \/ NothingToTry \/ PassBatch \/ PassLast \/ CutShort \/ Done
  \/ \E i \in DOMAIN cands : Keep(i)

ShrinkSpec == ShrinkInit /\ [][ShrinkNext]_shrinkVars

----------------------------------------------------------------------------
(* The faults left are 1-minimal (shrink.rs:19-20): when their step ends   *)
(* within the budget, the world was run without each one of them and did   *)
(* not fail the same way.                                                  *)
FaultsDone == shrink.step = "nodes" /\ shrink.item = 1 /\ cands = <<>> /\ ~short
OneMinimal ==
  FaultsDone =>
    \A i \in DOMAIN shrink.plan.faults :
      [shrink.plan EXCEPT !.faults = RemoveAt(@, i)] \in passing

(* The result is the same for any number of jobs (shrink.rs:20-22), when   *)
(* the budget cut none of them short.                                      *)
JobsAgree ==
  \A i, j \in DOMAIN results :
    ~results[i].short /\ ~results[j].short => results[i].plan = results[j].plan

(* The same of shrinks that ran out of runs: refuted, since a batch is run *)
(* whole or not at all, and more jobs spend the runs faster.               *)
JobsAgreeCut ==
  \A i, j \in DOMAIN results : results[i].plan = results[j].plan
=============================================================================
