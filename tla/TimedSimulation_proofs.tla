----------------------- MODULE TimedSimulation_proofs -----------------------
(***************************************************************************)
(* For every set of events, every derivation between them and every        *)
(* sequence of API calls: what one time step guarantees its domains, and   *)
(* in which order the engine takes the events off its queue.               *)
(***************************************************************************)
EXTENDS TimedSimulation, FiniteSetTheorems, WellFoundedInduction, TLAPS

-----------------------------------------------------------------------------
(* The queue                                                               *)

\* A bag is a function; this is all that is needed of how bags are made.
IsFcn(q) == q = [e \in BagToSet(q) |-> q[e]]

\* The empty queue holds no event.
LEMMA EmptyBagIsEmpty == BagToSet(EmptyBag) = {} /\ IsFcn(EmptyBag)
  BY DEF BagToSet, EmptyBag, SetToBag, IsFcn

\* A queue that is not empty holds an event.
LEMMA NonEmptyBag ==
    ASSUME NEW q, IsFcn(q), q # EmptyBag PROVE BagToSet(q) # {}
  BY DEF IsFcn, BagToSet, EmptyBag, SetToBag

\* The events of a queue after a push.
LEMMA BagUnionSet ==
    ASSUME NEW a, NEW b
    PROVE  BagToSet(a (+) b) = BagToSet(a) \cup BagToSet(b) /\ IsFcn(a (+) b)
  BY DEF BagToSet, (+), IsFcn

\* The events of a queue after events are taken.
LEMMA BagMinusSet ==
    ASSUME NEW a, NEW b
    PROVE  BagToSet(a (-) b) \subseteq BagToSet(a) /\ IsFcn(a (-) b)
  BY DEF BagToSet, (-), IsFcn

\* One pushed event.
LEMMA SingletonBag == ASSUME NEW e PROVE BagToSet(SetToBag({e})) = {e}
  BY DEF BagToSet, SetToBag

\* What pop_all_at_next_time takes.
LEMMA AtTimeSet ==
    ASSUME NEW q, NEW t
    PROVE  /\ BagToSet(AtTime(q, t)) = {e \in BagToSet(q) : e.time = t}
           /\ IsFcn(AtTime(q, t))
  BY DEF AtTime, BagToSet, IsFcn

\* What finish_step puts back: the toggles of the popped clock events.
LEMMA RescheduledSet ==
    BagToSet(Rescheduled) =
        {Reschedule(e) : e \in {x \in BagToSet(popped) : HasClock(x)}}
  BY DEF Rescheduled, BagToSet

\* The heap's first event has the least time of all.
LEMMA NextTimeIsLeast ==
    ASSUME NEW q, BagToSet(q) \subseteq SimEvent, BagToSet(q) # {}
    PROVE  /\ NextTime(q) \in Nat
           /\ \E e \in BagToSet(q) : e.time = NextTime(q)
           /\ \A e \in BagToSet(q) : NextTime(q) <= e.time
  <1> DEFINE T == {e.time : e \in BagToSet(q)}
  <1> DEFINE R == OpToRel(<, Nat)
  <1>1. T \subseteq Nat /\ T # {}
    BY DEF SimEvent
  <1>2. IsWellFoundedOn(R, Nat)
    BY NatLessThanWellFounded
  <1>3. \E x \in T : \A y \in T : ~ (<<y, x>> \in R)
    <2> HIDE DEF T, R
    <2> QED  BY <1>1, <1>2, WFMin
  <1>4. \E x \in T : \A y \in T : x <= y
    <2>1. PICK x \in T : \A y \in T : ~ (<<y, x>> \in R)
      BY <1>3
    <2>2. \A y \in T : x <= y
      <3>1. ASSUME NEW y \in T PROVE x <= y
        <4>1. x \in Nat /\ y \in Nat
          BY <1>1
        <4>2. ~ (<<y, x>> \in R)
          BY <2>1
        <4>3. ~ (y < x)
          BY <4>1, <4>2 DEF OpToRel
        <4> HIDE DEF T, R
        <4> QED  BY <4>1, <4>3
      <3> QED  BY <3>1
    <2> QED  BY <2>2
  <1>5. \E x \in T : \A e \in BagToSet(q) : x <= e.time
    BY <1>4
  <1>6. NextTime(q) \in T /\ \A e \in BagToSet(q) : NextTime(q) <= e.time
    BY <1>5 DEF NextTime
  <1> QED  BY <1>1, <1>6
-----------------------------------------------------------------------------
(* The inductive invariant                                                 *)

\* What has been staged, committed and fired, by where step() is.
Phases ==
  /\ newly \subseteq triggered
  /\ combDone => pc = "comb"
  /\ pc \in {"idle", "settle"} =>
       /\ triggered = {} /\ hist.staged = {} /\ hist.committed = {} /\ hist.fired = {}
  /\ pc \in {"discover", "eval"} =>
       /\ hist.staged = triggered
       /\ hist.committed = (IF Split THEN triggered \ newly ELSE triggered)
       /\ hist.fired = triggered \ newly
       /\ Split \/ newly = {} => ~hist.stale
  /\ pc = "eval" => todo \cap triggered = {}
  /\ pc = "apply" =>
       /\ hist.staged = triggered /\ toApply \subseteq newly /\ toFire = newly
       /\ hist.committed = triggered \ toApply /\ hist.fired = triggered \ newly
  /\ pc = "fire" =>
       /\ hist.staged = triggered /\ hist.committed = triggered
       /\ toFire \subseteq newly /\ hist.fired = triggered \ toFire
  /\ pc \in {"fastFire", "fastComb"} =>
       /\ newly = {} /\ hist.staged = triggered /\ hist.committed = triggered
       /\ pc = "fastFire" => toFire = triggered /\ hist.fired = {}
       /\ pc = "fastComb" => hist.fired = triggered
  /\ pc \in {"comb", "finish"} =>
       /\ hist.staged = triggered /\ hist.committed = triggered /\ hist.fired = triggered
  /\ pc = "comb" /\ combDone => ~hist.stale
  /\ pc = "finish" => newly = {} /\ ~hist.stale

\* An edge of the settled signals has run, or is marked and will be looked at;
\* it may be missing from the marks only while a domain of this round has run
\* or is about to, because the commit is followed by another look.
Covered == StableEdges(val) \subseteq triggered \cup bits

EdgesKept ==
  scheduled =>
    /\ pc = "discover" => Covered \/ newly # {} \/ ~(bits \subseteq triggered)
    /\ pc = "comb" /\ combDone => Covered
    /\ pc = "finish" => StableEdges(val) \subseteq triggered

\* The scheduler's side: events in flight have the current time, a driver call
\* in progress has returned nothing yet, run_until has not run past its end.
Order ==
  /\ IsFcn(queue)
  /\ NeverOvertaken
  /\ RunUntilProcessesExactly
  /\ \A e \in BagToSet(popped) : e.time = time
  /\ pc = "idle" => BagToSet(popped) = {}
  /\ pc # "idle" => call # NoCall
  /\ call # NoCall => call.kind # "none" /\ hist.ret = NoCall
  /\ call.kind = "run_until" => call.ran <= call.end
  /\ call.kind = "runUntil" => call.left > 0

Inv == TypeOK /\ Phases /\ RoundReadsOneState /\ EdgesKept /\ Order

-----------------------------------------------------------------------------
(* The steps inside step() leave the scheduler alone.                      *)

\* A step that leaves the queue and the driver's call alone keeps their order.
LEMMA OrderFrame ==
    ASSUME Order, pc # "idle", pc' # "idle",
           UNCHANGED <<time, queue, popped, call>>,
           hist'.past = hist.past, hist'.ret = hist.ret
    PROVE  Order'
  BY DEF Order, NeverOvertaken, RunUntilProcessesExactly

\* StableEdges only depends on the stored and the new values.
LEMMA StableEdgesIds == ASSUME NEW v PROVE StableEdges(v) \subseteq Ids
  BY DEF StableEdges

\* step() settles the inputs and looks for edges.
LEMMA SettleInputsKeeps == ASSUME Inv, SettleInputs PROVE Inv'
  <1> USE DEF Inv
  <1>1. /\ pc = "settle" /\ pc' = "discover"
        /\ val' \in [Ids -> {0, 1}]
        /\ UNCHANGED <<schedVars, last, stepVars, call>>
        /\ hist' = [hist EXCEPT !.stale = FALSE]
        /\ IF scheduled
           THEN bits' = IF sources = {} THEN StableEdges(val') ELSE sources
           ELSE \E marks \in SUBSET Ids : bits' = bits \cup marks
    BY DEF SettleInputs, Settled
  <1>2. UNCHANGED <<time, queue, clocks, popped, scheduled, sources, triggered, todo,
                    newly, toApply, toFire, combDone>>
    BY <1>1 DEF schedVars, stepVars
  <1>3. /\ hist'.stale = FALSE /\ hist'.past = hist.past /\ hist'.ret = hist.ret
        /\ hist'.staged = hist.staged /\ hist'.committed = hist.committed
        /\ hist'.fired = hist.fired /\ hist'.saw = hist.saw /\ hist' \in History
    BY <1>1 DEF TypeOK, History
  <1>4. bits' \subseteq Ids
    BY <1>1, StableEdgesIds DEF TypeOK
  <1>5. TypeOK'
    BY <1>1, <1>2, <1>3, <1>4 DEF TypeOK
  <1>6. Phases'
    BY <1>1, <1>2, <1>3 DEF Phases
  <1>7. RoundReadsOneState'
    BY <1>1, <1>2, <1>3 DEF RoundReadsOneState, Phases
  <1>8. EdgesKept'
    <2>1. triggered = {} /\ newly = {}
      BY <1>1 DEF Phases
    <2>2. CASE sources = {}
      BY <1>1, <1>2, <2>1, <2>2 DEF EdgesKept, Covered, StableEdges
    <2>3. CASE sources # {}
      BY <1>1, <1>2, <2>1, <2>3 DEF EdgesKept
    <2> QED  BY <2>2, <2>3
  <1>9. Order'
    BY <1>1, <1>2, <1>3, OrderFrame
  <1> QED  BY <1>5, <1>6, <1>7, <1>8, <1>9

\* The combined kernel evaluates and commits a domain at once.
LEMMA EvalApplyKeeps == ASSUME Inv, EvalApply PROVE Inv'
  <1> USE DEF Inv
  <1>1. /\ pc = "discover" /\ pc' = "fastFire" /\ triggered = {}
        /\ triggered' = bits /\ toFire' = bits /\ bits' \in SUBSET Ids
        /\ hist' = [hist EXCEPT !.staged = @ \cup bits, !.committed = @ \cup bits,
                                !.stale = TRUE]
        /\ UNCHANGED <<time, queue, clocks, last, val, popped, scheduled, sources, todo,
                       newly, toApply, combDone, call>>
    BY DEF EvalApply, CanUseEvalApply, schedVars
  <1>2. /\ hist'.past = hist.past /\ hist'.ret = hist.ret
        /\ hist'.staged = hist.staged \cup bits
        /\ hist'.committed = hist.committed \cup bits
        /\ hist'.fired = hist.fired /\ hist'.saw = hist.saw /\ hist' \in History
    BY <1>1 DEF TypeOK, History
  <1>3. newly = {} /\ hist.staged = {} /\ hist.committed = {} /\ hist.fired = {}
    BY <1>1 DEF Phases
  <1>4. TypeOK'
    BY <1>1, <1>2 DEF TypeOK
  <1>5. Phases'
    BY <1>1, <1>2, <1>3 DEF Phases
  <1>6. RoundReadsOneState'
    BY <1>1, <1>3 DEF RoundReadsOneState
  <1>7. EdgesKept'
    BY <1>1 DEF EdgesKept
  <1>8. Order'
    BY <1>1, <1>2, OrderFrame
  <1> QED  BY <1>4, <1>5, <1>6, <1>7, <1>8

\* Its components fire.
LEMMA FireAfterEvalApplyKeeps == ASSUME Inv, FireAfterEvalApply PROVE Inv'
  <1> USE DEF Inv
  <1>1. /\ pc = "fastFire" /\ pc' = "fastComb" /\ toFire' = {}
        /\ hist' = [hist EXCEPT !.fired = @ \cup toFire]
        /\ UNCHANGED <<time, queue, clocks, last, val, bits, popped, scheduled, sources,
                       triggered, todo, newly, toApply, combDone, call>>
    BY DEF FireAfterEvalApply, schedVars
  <1>2. /\ hist'.past = hist.past /\ hist'.ret = hist.ret
        /\ hist'.fired = hist.fired \cup toFire
        /\ hist'.committed = hist.committed
        /\ hist'.staged = hist.staged /\ hist'.saw = hist.saw /\ hist' \in History
    BY <1>1 DEF TypeOK, History
  <1>3. TypeOK'
    BY <1>1, <1>2 DEF TypeOK
  <1>4. Phases'
    BY <1>1, <1>2 DEF Phases
  <1>5. RoundReadsOneState'
    BY <1>1, <1>2 DEF RoundReadsOneState
  <1>6. EdgesKept'
    BY <1>1 DEF EdgesKept
  <1>7. Order'
    BY <1>1, <1>2, OrderFrame
  <1> QED  BY <1>3, <1>4, <1>5, <1>6, <1>7

\* What a combinational pass leaves: settled signals, and in a step an event
\* signal started, every stable edge marked.
LEMMA EvalCombFacts ==
    ASSUME TypeOK, EvalComb, UNCHANGED <<last, triggered, scheduled>>
    PROVE  /\ val' \in [Ids -> {0, 1}] /\ bits' \subseteq Ids
           /\ scheduled => Covered'
           /\ hist' \in History /\ ~hist'.stale
           /\ hist'.past = hist.past /\ hist'.ret = hist.ret
           /\ hist'.fired = hist.fired /\ hist'.committed = hist.committed
           /\ hist'.staged = hist.staged /\ hist'.saw = hist.saw
  <1>1. val' \in [Ids -> {0, 1}] /\ hist' = [hist EXCEPT !.stale = FALSE]
    BY DEF EvalComb, Settled
  <1>2. bits' \subseteq Ids
    BY StableEdgesIds DEF EvalComb, TypeOK
  <1>3. scheduled => Covered'
    BY DEF EvalComb, Covered, StableEdges
  <1> QED  BY <1>1, <1>2, <1>3 DEF TypeOK, History

\* Its combinational logic settles.
LEMMA CombAfterEvalApplyKeeps == ASSUME Inv, CombAfterEvalApply PROVE Inv'
  <1> USE DEF Inv
  <1>1. /\ pc = "fastComb" /\ pc' = "comb" /\ combDone' = TRUE /\ EvalComb
        /\ UNCHANGED <<time, queue, clocks, last, popped, scheduled, sources, triggered,
                       todo, newly, toApply, toFire, call>>
    BY DEF CombAfterEvalApply, schedVars
  <1>2. TypeOK'
    BY <1>1, EvalCombFacts DEF TypeOK
  <1>3. Phases'
    BY <1>1, EvalCombFacts DEF Phases
  <1>4. RoundReadsOneState'
    BY <1>1, EvalCombFacts DEF RoundReadsOneState
  <1>5. EdgesKept'
    BY <1>1, EvalCombFacts DEF EdgesKept
  <1>6. Order'
    BY <1>1, EvalCombFacts, OrderFrame
  <1> QED  BY <1>2, <1>3, <1>4, <1>5, <1>6

\* A round begins.
LEMMA DiscoverKeeps == ASSUME Inv, Discover PROVE Inv'
  <1> USE DEF Inv
  <1>1. /\ pc = "discover" /\ bits' = {} /\ todo' = bits \ triggered
        /\ pc' = IF todo' # {} THEN "eval" ELSE IF newly = {} THEN "finish"
                 ELSE IF Split THEN "apply" ELSE "fire"
        /\ toApply' = (IF Split THEN newly ELSE {}) /\ toFire' = newly
        /\ UNCHANGED <<time, queue, clocks, last, val, popped, scheduled, sources,
                       triggered, newly, combDone, call, hist>>
    BY DEF Discover, schedVars
  <1>2. TypeOK'
    BY <1>1 DEF TypeOK
  <1>3. Phases'
    BY <1>1 DEF Phases
  <1>4. RoundReadsOneState'
    BY <1>1 DEF RoundReadsOneState
  <1>5. EdgesKept'
    BY <1>1 DEF EdgesKept, Covered, StableEdges
  <1>6. Order'
    BY <1>1, OrderFrame
  <1> QED  BY <1>2, <1>3, <1>4, <1>5, <1>6

\* A domain of the round is evaluated; it is committed later, or is the only
\* one whose commit can be read.
LEMMA EvalOnlyKeeps == ASSUME Inv, NEW d \in Ids, EvalOnly(d) PROVE Inv'
  <1> USE DEF Inv
  <1>1. /\ pc = "eval" /\ d \in todo /\ todo' = todo \ {d}
        /\ triggered' = triggered \cup {d} /\ newly' = newly \cup {d}
        /\ pc' = IF todo' = {} THEN "discover" ELSE "eval"
        /\ hist' = [hist EXCEPT !.staged = @ \cup {d}, !.saw[d] = hist.committed,
                                !.committed = IF Split THEN @ ELSE @ \cup {d},
                                !.stale = @ \/ ~Split]
        /\ \E marks \in SUBSET Ids : bits' = bits \cup marks
        /\ UNCHANGED <<time, queue, clocks, last, val, popped, scheduled, sources,
                       toApply, toFire, combDone, call>>
    BY DEF EvalOnly, schedVars
  <1>2. /\ hist'.past = hist.past /\ hist'.ret = hist.ret
        /\ hist'.staged = hist.staged \cup {d}
        /\ hist'.committed = (IF Split THEN hist.committed ELSE hist.committed \cup {d})
        /\ hist'.fired = hist.fired /\ hist'.stale = (hist.stale \/ ~Split)
        /\ hist'.saw = [hist.saw EXCEPT ![d] = hist.committed]
    BY <1>1 DEF TypeOK, History
  <1>3. hist' \in History
    BY <1>1, TimedAssumption DEF TypeOK, History
  <1>4. bits' \subseteq Ids
    BY <1>1 DEF TypeOK
  <1>5. TypeOK'
    BY <1>1, <1>3, <1>4 DEF TypeOK
  <1>6. d \notin triggered
    BY <1>1 DEF Phases
  <1>7. Phases'
    <2>1. /\ hist.staged = triggered /\ newly \subseteq triggered /\ ~combDone
          /\ hist.fired = triggered \ newly /\ todo \cap triggered = {}
          /\ hist.committed = (IF Split THEN triggered \ newly ELSE triggered)
          /\ pc' \in {"discover", "eval"}
      BY <1>1 DEF Phases
    <2>2. CASE Split
      <3>1. ~hist.stale
        BY <1>1, <2>2 DEF Phases
      <3>2. hist'.stale = hist.stale /\ hist'.committed = hist.committed
        BY <1>2, <2>2 DEF TypeOK, History
      <3> QED  BY <1>1, <1>2, <1>6, <2>1, <2>2, <3>1, <3>2 DEF Phases
    <2>3. CASE ~Split
      <3>1. hist'.committed = hist.committed \cup {d} /\ newly' # {}
        BY <1>1, <1>2, <2>3
      <3> QED  BY <1>1, <1>2, <1>6, <2>1, <2>3, <3>1 DEF Phases
    <2> QED  BY <2>2, <2>3
  <1>8. RoundReadsOneState'
    <2>1. \A x \in Ids : hist'.saw[x] = IF x = d THEN hist.committed ELSE hist.saw[x]
      BY <1>2 DEF TypeOK, History
    <2>2. triggered' \ newly' = triggered \ newly
      BY <1>1, <1>6
    <2>3. /\ hist.committed = (IF Split THEN triggered \ newly ELSE triggered)
          /\ newly' \subseteq Ids
      BY <1>1 DEF Phases, TypeOK
    <2>4. SUFFICES ASSUME NEW x \in newly', x \in Active
                   PROVE  hist'.saw[x] \cap Active = (triggered' \ newly') \cap Active
      BY DEF RoundReadsOneState
    <2>5. CASE x # d
      BY <1>1, <2>1, <2>2, <2>3, <2>4, <2>5 DEF RoundReadsOneState
    <2>6. CASE x = d /\ Split
      BY <2>1, <2>2, <2>3, <2>4, <2>6
    <2>7. CASE x = d /\ ~Split
      <3>1. Active = {d}
        BY <2>4, <2>7, SplitAssumption
      <3> QED  BY <1>6, <2>1, <2>2, <2>3, <2>4, <2>7, <3>1
    <2> QED  BY <2>5, <2>6, <2>7
  <1>9. EdgesKept'
    BY <1>1 DEF EdgesKept
  <1>10. Order'
    BY <1>1, <1>2, OrderFrame
  <1> QED  BY <1>5, <1>7, <1>8, <1>9, <1>10

\* A domain of the round is committed.
LEMMA ApplyKeeps == ASSUME Inv, NEW d \in Ids, Apply(d) PROVE Inv'
  <1> USE DEF Inv
  <1>1. /\ pc = "apply" /\ d \in toApply /\ toApply' = toApply \ {d}
        /\ pc' = IF toApply' = {} THEN "fire" ELSE "apply"
        /\ hist' = [hist EXCEPT !.committed = @ \cup {d}, !.stale = TRUE]
        /\ \E marks \in SUBSET Ids : bits' = bits \cup marks
        /\ UNCHANGED <<time, queue, clocks, last, val, popped, scheduled, sources,
                       triggered, todo, newly, toFire, combDone, call>>
    BY DEF Apply, schedVars
  <1>2. /\ hist'.past = hist.past /\ hist'.ret = hist.ret
        /\ hist'.staged = hist.staged /\ hist'.committed = hist.committed \cup {d}
        /\ hist'.fired = hist.fired /\ hist'.saw = hist.saw /\ hist' \in History
    BY <1>1 DEF TypeOK, History
  <1>3. bits' \subseteq Ids
    BY <1>1 DEF TypeOK
  <1>4. TypeOK'
    BY <1>1, <1>2, <1>3 DEF TypeOK
  <1>5. Phases'
    BY <1>1, <1>2 DEF Phases
  <1>6. RoundReadsOneState'
    BY <1>1, <1>2 DEF RoundReadsOneState
  <1>7. EdgesKept'
    BY <1>1 DEF EdgesKept
  <1>8. Order'
    BY <1>1, <1>2, OrderFrame
  <1> QED  BY <1>4, <1>5, <1>6, <1>7, <1>8

\* The components of a committed domain fire.
LEMMA FireKeeps == ASSUME Inv, NEW d \in Ids, Fire(d) PROVE Inv'
  <1> USE DEF Inv
  <1>1. /\ pc = "fire" /\ d \in toFire /\ toFire' = toFire \ {d}
        /\ pc' = IF toFire' = {} THEN "comb" ELSE "fire"
        /\ hist' = [hist EXCEPT !.fired = @ \cup {d}, !.stale = TRUE]
        /\ UNCHANGED <<time, queue, clocks, last, val, bits, popped, scheduled, sources,
                       triggered, todo, newly, toApply, combDone, call>>
    BY DEF Fire, schedVars
  <1>2. /\ hist'.past = hist.past /\ hist'.ret = hist.ret
        /\ hist'.staged = hist.staged /\ hist'.committed = hist.committed
        /\ hist'.fired = hist.fired \cup {d} /\ hist'.saw = hist.saw /\ hist' \in History
    BY <1>1 DEF TypeOK, History
  <1>3. TypeOK'
    BY <1>1, <1>2 DEF TypeOK
  <1>4. Phases'
    BY <1>1, <1>2 DEF Phases
  <1>5. RoundReadsOneState'
    BY <1>1, <1>2 DEF RoundReadsOneState
  <1>6. EdgesKept'
    BY <1>1 DEF EdgesKept, Phases
  <1>7. Order'
    BY <1>1, <1>2, OrderFrame
  <1> QED  BY <1>3, <1>4, <1>5, <1>6, <1>7

\* The round is through and what it changed is looked at.
LEMMA EndRoundKeeps == ASSUME Inv, EndRound PROVE Inv'
  <1> USE DEF Inv
  <1>1. /\ pc = "comb" /\ pc' = "discover" /\ newly' = {}
        /\ UNCHANGED <<time, queue, clocks, last, popped, scheduled, sources, triggered,
                       todo, toApply, toFire, call>>
    BY DEF EndRound, schedVars
  <1>2. CASE combDone
    <2>1. combDone' = FALSE /\ UNCHANGED <<val, bits, hist>>
      BY <1>2 DEF EndRound
    <2>2. TypeOK'
      BY <1>1, <2>1 DEF TypeOK
    <2>3. Phases'
      BY <1>1, <1>2, <2>1 DEF Phases
    <2>4. EdgesKept'
      BY <1>1, <1>2, <2>1 DEF EdgesKept, Covered, StableEdges
    <2>5. Order'
      BY <1>1, <2>1, OrderFrame
    <2> QED  BY <1>1, <2>2, <2>3, <2>4, <2>5 DEF RoundReadsOneState
  <1>3. CASE ~combDone
    <2>1. UNCHANGED combDone /\ EvalComb
      BY <1>3 DEF EndRound
    <2>2. TypeOK'
      BY <1>1, <2>1, EvalCombFacts DEF TypeOK
    <2>3. Phases'
      BY <1>1, <1>3, <2>1, EvalCombFacts DEF Phases
    <2>4. EdgesKept'
      BY <1>1, <2>1, EvalCombFacts DEF EdgesKept
    <2>5. Order'
      BY <1>1, <2>1, EvalCombFacts, OrderFrame
    <2> QED  BY <1>1, <2>2, <2>3, <2>4, <2>5 DEF RoundReadsOneState
  <1> QED  BY <1>2, <1>3

-----------------------------------------------------------------------------
(* The API and the driver call                                             *)

\* No driver call is a driver call.
LEMMA NoCallType == NoCall \in DriverCall /\ NoCall.kind = "none"
  BY DEF NoCall, DriverCall, None

\* A signal has an event id.
LEMMA EventOfType == ASSUME NEW s \in Signals PROVE EventOf(s) \in Ids
  BY TimedAssumption DEF Signals, EventOf

\* Between two steps the phases say that nothing is staged, committed or fired.
LEMMA StepFrame ==
    ASSUME Phases, RoundReadsOneState, EdgesKept, pc = "idle", pc' = "idle",
           UNCHANGED <<triggered, newly, combDone>>,
           hist'.staged = hist.staged, hist'.committed = hist.committed,
           hist'.fired = hist.fired, hist'.saw = hist.saw
    PROVE  Phases' /\ RoundReadsOneState' /\ EdgesKept'
  BY DEF Phases, RoundReadsOneState, EdgesKept

\* Queueing one more event, however far ahead; a time in the past is recorded.
LEMMA PushKeepsOrder ==
    ASSUME Order, TypeOK, NEW e \in SimEvent, Idle, Push(e),
           UNCHANGED <<time, popped, pc, call>>,
           hist'.ret = NoCall, hist'.past = (hist.past \/ e.time < time)
    PROVE  Order' /\ BagToSet(queue') \subseteq SimEvent
  <1>1. BagToSet(queue') = BagToSet(queue) \cup {e} /\ IsFcn(queue')
    BY DEF Push, (+), SetToBag, BagToSet, IsFcn
  <1>2. NeverOvertaken'
    <2>1. \A x \in BagToSet(queue') : x \in BagToSet(queue) \/ x = e
      BY <1>1
    <2>2. e.time \in Nat /\ time \in Nat
      BY DEF TypeOK, SimEvent
    <2>3. ASSUME ~hist'.past, NEW x \in BagToSet(queue') PROVE x.time >= time
      <3>1. ~hist.past /\ ~(e.time < time)
        BY <2>3
      <3>2. x \in BagToSet(queue) => x.time >= time
        BY <3>1 DEF Order, NeverOvertaken
      <3> QED  BY <2>1, <2>2, <3>1, <3>2
    <2> QED  BY <2>3 DEF NeverOvertaken
  <1>3. RunUntilProcessesExactly'
    BY NoCallType DEF RunUntilProcessesExactly
  <1>4. BagToSet(queue') \subseteq SimEvent
    BY <1>1 DEF TypeOK
  <1> QED  BY <1>1, <1>2, <1>3, <1>4 DEF Order, Idle

\* A clock is added.
LEMMA AddClockKeeps ==
    ASSUME Inv, NEW s \in Signals, NEW p \in Periods, NEW t \in Times, AddClock(s, p, t)
    PROVE  Inv'
  <1> USE DEF Inv
  <1> DEFINE e == [time |-> t, sig |-> s, val |-> 1, src |-> "clock"]
  <1>1. /\ Idle /\ Push(e)
        /\ clocks' = [clocks EXCEPT ![EventOf(s)] = p]
        /\ hist' = [hist EXCEPT !.regs[EventOf(s)] = IF @ = 2 THEN 2 ELSE @ + 1,
                                !.origin[EventOf(s)] = t,
                                !.past = @ \/ t < time, !.ret = NoCall]
        /\ UNCHANGED <<time, last, val, bits, pc, popped, scheduled, sources, triggered,
                       todo, newly, toApply, toFire, combDone, call>>
    BY DEF AddClock, stepVars
  <1>2. EventOf(s) \in Ids /\ t \in Nat /\ p \in Nat
    BY EventOfType, TimedAssumption DEF Times
  <1>3. e \in SimEvent
    BY <1>2 DEF SimEvent
  <1>4. hist' \in History
    <2> DEFINE c == EventOf(s)
    <2>1. hist.regs \in [Ids -> 0..2] /\ hist.origin \in [Ids -> Nat]
      BY DEF TypeOK, History
    <2>2. [hist.regs EXCEPT ![c] = IF @ = 2 THEN 2 ELSE @ + 1] \in [Ids -> 0..2]
      BY <1>2, <2>1
    <2>3. [hist.origin EXCEPT ![c] = t] \in [Ids -> Nat]
      BY <1>2, <2>1
    <2>4. (hist.past \/ t < time) \in BOOLEAN
      OBVIOUS
    <2> HIDE DEF c
    <2>5. [hist EXCEPT !.regs = [hist.regs EXCEPT ![c] = IF @ = 2 THEN 2 ELSE @ + 1],
                       !.origin = [hist.origin EXCEPT ![c] = t],
                       !.past = (hist.past \/ t < time), !.ret = NoCall] \in History
      BY <2>2, <2>3, <2>4, NoCallType DEF TypeOK, History
    <2>6. hist' = [hist EXCEPT
                     !.regs = [hist.regs EXCEPT ![c] = IF @ = 2 THEN 2 ELSE @ + 1],
                     !.origin = [hist.origin EXCEPT ![c] = t],
                     !.past = (hist.past \/ t < time), !.ret = NoCall]
      BY <1>1 DEF c, TypeOK, History
    <2> QED  BY <2>5, <2>6
  <1>5. /\ hist'.past = (hist.past \/ e.time < time) /\ hist'.ret = NoCall
        /\ hist'.staged = hist.staged /\ hist'.committed = hist.committed
        /\ hist'.fired = hist.fired /\ hist'.saw = hist.saw
    BY <1>1 DEF TypeOK, History
  <1>6. Order' /\ BagToSet(queue') \subseteq SimEvent
    <2> HIDE DEF e
    <2> QED  BY <1>1, <1>3, <1>5, PushKeepsOrder
  <1>7. clocks' \in [Ids -> Nat \cup {None}]
    BY <1>1, <1>2 DEF TypeOK
  <1>8. TypeOK'
    BY <1>1, <1>4, <1>6, <1>7 DEF TypeOK
  <1>9. Phases' /\ RoundReadsOneState' /\ EdgesKept'
    BY <1>1, <1>5, StepFrame DEF Idle
  <1> QED  BY <1>6, <1>8, <1>9

\* An event is scheduled.
LEMMA ScheduleKeeps ==
    ASSUME Inv, NEW s \in Signals, NEW t \in Times, NEW v \in Values, Schedule(s, t, v)
    PROVE  Inv'
  <1> USE DEF Inv
  <1> DEFINE e == [time |-> t, sig |-> s, val |-> v, src |-> "schedule"]
  <1>1. /\ Idle /\ Push(e)
        /\ hist' = [hist EXCEPT !.past = @ \/ t < time, !.ret = NoCall]
        /\ UNCHANGED <<time, clocks, last, val, bits, pc, popped, scheduled, sources,
                       triggered, todo, newly, toApply, toFire, combDone, call>>
    BY DEF Schedule, stepVars
  <1>2. t \in Nat /\ v \in 0..255
    BY TimedAssumption DEF Times
  <1>3. e \in SimEvent
    BY <1>2 DEF SimEvent
  <1>4. hist' \in History
    BY <1>1, <1>2, NoCallType DEF TypeOK, History
  <1>5. /\ hist'.past = (hist.past \/ e.time < time) /\ hist'.ret = NoCall
        /\ hist'.staged = hist.staged /\ hist'.committed = hist.committed
        /\ hist'.fired = hist.fired /\ hist'.saw = hist.saw
    BY <1>1 DEF TypeOK, History
  <1>6. Order' /\ BagToSet(queue') \subseteq SimEvent
    <2> HIDE DEF e
    <2> QED  BY <1>1, <1>3, <1>5, PushKeepsOrder
  <1>7. TypeOK'
    BY <1>1, <1>4, <1>6 DEF TypeOK
  <1>8. Phases' /\ RoundReadsOneState' /\ EdgesKept'
    BY <1>1, <1>5, StepFrame DEF Idle
  <1> QED  BY <1>6, <1>7, <1>8

\* Writes of event signals outside the scheduler, and forgetting them.
LEMMA ModifyKeeps == ASSUME Inv, Modify \/ SynchronizeEventValues PROVE Inv'
  <1> USE DEF Inv
  <1>1. /\ Idle /\ val' \in [Ids -> {0, 1}] /\ last' \subseteq Ids
        /\ hist' = [hist EXCEPT !.ret = NoCall]
        /\ UNCHANGED <<time, queue, clocks, bits, pc, popped, scheduled, sources,
                       triggered, todo, newly, toApply, toFire, combDone, call>>
    BY DEF Modify, SynchronizeEventValues, stepVars, schedVars, TypeOK
  <1>2. hist' \in History
    BY <1>1, NoCallType DEF TypeOK, History
  <1>3. /\ hist'.past = hist.past /\ hist'.ret = NoCall
        /\ hist'.staged = hist.staged /\ hist'.committed = hist.committed
        /\ hist'.fired = hist.fired /\ hist'.saw = hist.saw
    BY <1>1 DEF TypeOK, History
  <1>4. TypeOK'
    BY <1>1, <1>2 DEF TypeOK
  <1>5. Phases' /\ RoundReadsOneState' /\ EdgesKept'
    BY <1>1, <1>3, StepFrame DEF Idle
  <1>6. Order'
    BY <1>1, <1>3, NoCallType DEF Order, NeverOvertaken, RunUntilProcessesExactly, Idle
  <1> QED  BY <1>4, <1>5, <1>6

\* A driver call starts with nothing run.
LEMMA DriveKeeps ==
    ASSUME Inv, NEW kind \in {"step", "run_until", "runUntil"}, NEW end \in Nat,
           NEW budget \in Nat, kind = "runUntil" => budget > 0, Drive(kind, end, budget)
    PROVE  Inv'
  <1> USE DEF Inv
  <1>1. /\ Idle
        /\ call' = [kind |-> kind, end |-> end, left |-> budget, ran |-> None]
        /\ hist' = [hist EXCEPT !.ret = NoCall,
                                !.past = @ \/ (kind = "run_until" /\ end < time)]
        /\ UNCHANGED <<time, queue, clocks, last, val, bits, pc, popped, scheduled,
                       sources, triggered, todo, newly, toApply, toFire, combDone>>
    BY DEF Drive, stepVars, schedVars
  <1>2. hist' \in History
    BY <1>1, NoCallType DEF TypeOK, History
  <1>3. /\ hist'.past = (hist.past \/ (kind = "run_until" /\ end < time))
        /\ hist'.ret = NoCall
        /\ hist'.staged = hist.staged /\ hist'.committed = hist.committed
        /\ hist'.fired = hist.fired /\ hist'.saw = hist.saw
    BY <1>1 DEF TypeOK, History
  <1>4. call' \in DriverCall /\ call'.ran = -1 /\ call'.kind = kind
        /\ call'.end = end /\ call'.left = budget
    BY <1>1 DEF DriverCall, None
  <1>5. TypeOK'
    BY <1>1, <1>2, <1>4 DEF TypeOK
  <1>6. Phases' /\ RoundReadsOneState' /\ EdgesKept'
    BY <1>1, <1>3, StepFrame DEF Idle
  <1>7. Order'
    <2>1. NeverOvertaken'
      BY <1>1, <1>3 DEF Order, NeverOvertaken
    <2>2. RunUntilProcessesExactly'
      BY <1>3, NoCallType DEF RunUntilProcessesExactly
    <2> QED  BY <1>1, <1>3, <1>4, <2>1, <2>2 DEF Order, Idle
  <1> QED  BY <1>5, <1>6, <1>7

\* The call returns: run_until when nothing is left up to its end, the
\* step-counted runUntil when the time has reached it.
LEMMA CallReturnsKeeps == ASSUME Inv, CallReturns PROVE Inv'
  <1> USE DEF Inv
  <1>1. /\ pc = "idle" /\ call # NoCall /\ ~WantsStep /\ call' = NoCall
        /\ time' = IF call.kind = "run_until" THEN call.end ELSE time
        /\ hist' = [hist EXCEPT !.ret = call]
        /\ UNCHANGED <<queue, clocks, last, val, bits, pc, popped, scheduled,
                       sources, triggered, todo, newly, toApply, toFire, combDone>>
    BY DEF CallReturns, stepVars
  <1>2. hist' \in History
    BY <1>1 DEF TypeOK, History
  <1>3. /\ hist'.past = hist.past /\ hist'.ret = call
        /\ hist'.staged = hist.staged /\ hist'.committed = hist.committed
        /\ hist'.fired = hist.fired /\ hist'.saw = hist.saw
    BY <1>1 DEF TypeOK, History
  <1>4. time' \in Nat
    BY <1>1 DEF TypeOK, DriverCall
  <1>5. TypeOK'
    BY <1>1, <1>2, <1>4, NoCallType DEF TypeOK
  <1>6. Phases' /\ RoundReadsOneState' /\ EdgesKept'
    BY <1>1, <1>3, StepFrame
  <1>7. call.kind = "run_until" => \A e \in BagToSet(queue) : e.time > call.end
    <2> SUFFICES ASSUME call.kind = "run_until", NEW e \in BagToSet(queue)
                 PROVE  e.time > call.end
      OBVIOUS
    <2>1. queue # EmptyBag
      BY EmptyBagIsEmpty
    <2>2. ~(NextTime(queue) <= call.end)
      BY <1>1, <2>1 DEF WantsStep, Pending
    <2>3. NextTime(queue) \in Nat /\ NextTime(queue) <= e.time
      BY NextTimeIsLeast DEF TypeOK
    <2>4. call.end \in Nat /\ e.time \in Nat
      BY DEF TypeOK, DriverCall, SimEvent
    <2> QED  BY <2>2, <2>3, <2>4
  <1>8. call.kind = "runUntil" => BagToSet(queue) = {} \/ ~(time < call.end)
    BY <1>1, EmptyBagIsEmpty DEF WantsStep, Pending
  <1>9. call.end \in Nat /\ time \in Nat /\ \A e \in BagToSet(queue) : e.time \in Nat
    BY DEF TypeOK, DriverCall, SimEvent
  <1>10. NeverOvertaken'
    BY <1>1, <1>3, <1>7, <1>9 DEF Order, NeverOvertaken
  <1>11. RunUntilProcessesExactly'
    BY <1>1, <1>3, <1>7, <1>8, <1>9 DEF Order, NeverOvertaken, RunUntilProcessesExactly
  <1>12. Order'
    BY <1>1, <1>10, <1>11, NoCallType DEF Order
  <1> QED  BY <1>5, <1>6, <1>12

-----------------------------------------------------------------------------
(* Where step() begins and ends                                            *)

\* What a driver loop that goes on has seen: an event waits, and for run_until
\* it is not beyond the end.
LEMMA WantsStepFacts ==
    ASSUME TypeOK, WantsStep
    PROVE  /\ queue # EmptyBag /\ call.kind # "none"
           /\ call.kind = "run_until" => NextTime(queue) <= call.end
  <1>1. call.kind \in {"none", "step", "run_until", "runUntil"}
    BY DEF TypeOK, DriverCall
  <1>2. CASE call.kind = "none"
    BY <1>2 DEF WantsStep
  <1>3. CASE call.kind = "step"
    BY <1>3 DEF WantsStep, Pending
  <1>4. CASE call.kind = "run_until"
    BY <1>4 DEF WantsStep, Pending
  <1>5. CASE call.kind = "runUntil"
    BY <1>5 DEF WantsStep, Pending
  <1> QED  BY <1>1, <1>2, <1>3, <1>4, <1>5

\* step() pops the events of the next time.
LEMMA BeginStepKeeps == ASSUME Inv, BeginStep PROVE Inv'
  <1> USE DEF Inv
  <1> DEFINE t == NextTime(queue)
  <1>1. /\ pc = "idle" /\ WantsStep /\ pc' = "settle"
        /\ time' = t /\ popped' = AtTime(queue, t) /\ queue' = queue (-) popped'
        /\ val' \in [Ids -> {0, 1}]
        /\ sources' = ScheduledEdges(BagToSet(AtTime(queue, t))) /\ bits' = sources'
        /\ scheduled' \in BOOLEAN
        /\ call' = [call EXCEPT !.ran = t]
        /\ hist' = [hist EXCEPT !.stale = TRUE]
        /\ UNCHANGED <<clocks, last, triggered, todo, newly, toApply, toFire, combDone>>
    BY DEF BeginStep, Written
  <1>2. BagToSet(queue) # {} /\ BagToSet(queue) \subseteq SimEvent
    BY <1>1, WantsStepFacts, NonEmptyBag DEF Order, TypeOK
  <1>3. t \in Nat /\ \A e \in BagToSet(queue) : t <= e.time
    BY <1>2, NextTimeIsLeast
  <1>4. BagToSet(popped') = {e \in BagToSet(queue) : e.time = t}
    <2>1. BagToSet(AtTime(queue, t)) = {e \in BagToSet(queue) : e.time = t}
      BY AtTimeSet
    <2> QED  BY <1>1, <2>1 DEF BagToSet
  <1> HIDE DEF t
  <1>5. BagToSet(queue') \subseteq BagToSet(queue) /\ IsFcn(queue')
    BY <1>1 DEF BagToSet, IsFcn, (-)
  <1>6. sources' \subseteq Ids
    BY <1>1 DEF ScheduledEdges
  <1>7. /\ hist'.past = hist.past /\ hist'.ret = hist.ret
        /\ hist'.staged = hist.staged /\ hist'.committed = hist.committed
        /\ hist'.fired = hist.fired /\ hist'.saw = hist.saw /\ hist' \in History
    BY <1>1 DEF TypeOK, History
  <1>8. /\ call' \in DriverCall /\ call'.ran = t /\ call'.kind = call.kind
        /\ call'.end = call.end /\ call'.left = call.left
    BY <1>1, <1>3 DEF TypeOK, DriverCall
  <1>9. TypeOK'
    BY <1>1, <1>2, <1>3, <1>4, <1>5, <1>6, <1>7, <1>8 DEF TypeOK
  <1>10. Phases'
    BY <1>1, <1>7 DEF Phases
  <1>11. RoundReadsOneState' /\ EdgesKept'
    BY <1>1, <1>7 DEF RoundReadsOneState, EdgesKept
  <1>12. Order'
    <2>1. NeverOvertaken'
      <3>1. \A e \in BagToSet(queue') : e.time >= time'
        BY <1>1, <1>2, <1>3, <1>5 DEF SimEvent
      <3> QED  BY <3>1 DEF NeverOvertaken
    <2>2. call.kind # "none" /\ call # NoCall /\ hist.ret = NoCall
      BY <1>1, WantsStepFacts, NoCallType DEF Order
    <2>3. RunUntilProcessesExactly'
      BY <1>7, <2>2, NoCallType DEF RunUntilProcessesExactly
    <2>4. call'.kind # "none" /\ call' # NoCall
      BY <1>8, <2>2, NoCallType
    <2>5. call'.kind = "run_until" => call'.ran <= call'.end
      BY <1>1, <1>8, WantsStepFacts DEF t
    <2> QED  BY <1>1, <1>4, <1>5, <1>7, <1>8, <2>1, <2>2, <2>3, <2>4, <2>5 DEF Order
  <1> QED  BY <1>9, <1>10, <1>11, <1>12

\* What is forgotten when step() returns.
LEMMA ForgetFacts ==
    ASSUME TypeOK
    PROVE  /\ ForgetStep \in History
           /\ ForgetStep.past = hist.past /\ ForgetStep.ret = hist.ret
           /\ ForgetStep.staged = {} /\ ForgetStep.committed = {}
           /\ ForgetStep.fired = {}
  <1>1. [i \in Ids |-> {}] \in [Ids -> SUBSET Ids]
    OBVIOUS
  <1> QED  BY <1>1 DEF ForgetStep, TypeOK, History

\* Leaving a step, in either way.
LEMMA LeaveKeeps ==
    ASSUME LeaveStep, pc' = "idle",
           hist'.staged = {}, hist'.committed = {}, hist'.fired = {}
    PROVE  Phases' /\ RoundReadsOneState' /\ EdgesKept'
  BY DEF LeaveStep, Phases, RoundReadsOneState, EdgesKept

\* A call of the executor fails.
LEMMA FailKeeps == ASSUME Inv, Fail PROVE Inv'
  <1> USE DEF Inv
  <1>1. /\ pc # "idle" /\ pc' = "idle" /\ call' = NoCall /\ LeaveStep
        /\ val' \in [Ids -> {0, 1}]
        /\ hist' = [ForgetStep EXCEPT !.failed = TRUE]
        /\ UNCHANGED <<time, queue, clocks, last, bits>>
    BY DEF Fail, Settled, schedVars
  <1>2. /\ hist' \in History /\ hist'.past = hist.past /\ hist'.ret = hist.ret
        /\ hist'.staged = {} /\ hist'.committed = {} /\ hist'.fired = {}
    BY <1>1, ForgetFacts DEF History
  <1>3. BagToSet(popped') = {}
    BY <1>1, EmptyBagIsEmpty DEF LeaveStep, BagToSet
  <1>4. TypeOK'
    BY <1>1, <1>2, <1>3, NoCallType DEF TypeOK, LeaveStep
  <1>5. hist.ret = NoCall
    BY <1>1 DEF Order
  <1>6. Order'
    BY <1>1, <1>2, <1>3, <1>5, NoCallType DEF Order, NeverOvertaken, RunUntilProcessesExactly
  <1> QED  BY <1>1, <1>2, <1>4, <1>6, LeaveKeeps

\* A rescheduled toggle is an event no earlier than the one it follows.
LEMMA RescheduleFacts ==
    ASSUME TypeOK, NEW e \in SimEvent, HasClock(e)
    PROVE  Reschedule(e) \in SimEvent /\ Reschedule(e).time >= e.time
  <1>1. EventOf(e.sig) \in Ids
    BY EventOfType DEF SimEvent
  <1>2. clocks[EventOf(e.sig)] \in Nat
    BY <1>1 DEF HasClock, TypeOK
  <1> DEFINE h == clocks[EventOf(e.sig)] \div 2
  <1>3. h \in Nat
    BY <1>2
  <1>4. Toggle(e.val) \in 0..255
    BY DEF Toggle, SimEvent
  <1>5. Reschedule(e) = [e EXCEPT !.time = e.time + h, !.val = Toggle(e.val)]
    BY DEF Reschedule
  <1>6. e.time \in Nat /\ e.time + h \in Nat /\ e.time + h >= e.time
    BY <1>3 DEF SimEvent
  <1>7. ASSUME NEW a \in Nat, NEW b \in 0..255
        PROVE  LET r == [e EXCEPT !.time = a, !.val = b]
               IN  r \in SimEvent /\ r.time = a
    BY DEF SimEvent
  <1> HIDE DEF h
  <1> QED  BY <1>4, <1>5, <1>6, <1>7

\* step() puts the clocks back and returns.
LEMMA FinishStepKeeps == ASSUME Inv, FinishStep PROVE Inv'
  <1> USE DEF Inv
  <1> DEFINE over == call.kind = "step" \/ (call.kind = "runUntil" /\ call.left = 1)
  <1>1. /\ pc = "finish" /\ pc' = "idle" /\ LeaveStep
        /\ last' = {i \in Ids : val[i] = 1}
        /\ queue' = queue (+) Rescheduled
        /\ hist' = [ForgetStep EXCEPT !.ret = IF call.kind = "step" THEN call ELSE @]
        /\ call' = IF over THEN NoCall
                   ELSE [call EXCEPT !.left = IF call.kind = "runUntil" THEN @ - 1 ELSE @]
        /\ UNCHANGED <<time, clocks, val, bits>>
    BY DEF FinishStep
  <1>2. /\ hist' \in History /\ hist'.past = hist.past
        /\ hist'.ret = IF call.kind = "step" THEN call ELSE hist.ret
        /\ hist'.staged = {} /\ hist'.committed = {} /\ hist'.fired = {}
    BY <1>1, ForgetFacts DEF History, TypeOK
  <1>3. BagToSet(popped') = {}
    BY <1>1, EmptyBagIsEmpty DEF LeaveStep, BagToSet
  <1>4. /\ BagToSet(queue') = BagToSet(queue) \cup BagToSet(Rescheduled)
        /\ IsFcn(queue')
    BY <1>1 DEF BagToSet, (+), IsFcn
  <1>5. \A e \in BagToSet(Rescheduled) : e \in SimEvent /\ e.time >= time
    <2>1. SUFFICES ASSUME NEW x \in BagToSet(popped), HasClock(x)
                   PROVE  Reschedule(x) \in SimEvent /\ Reschedule(x).time >= time
      BY RescheduledSet
    <2>2. x \in SimEvent /\ x.time = time
      BY DEF TypeOK, Order
    <2> QED  BY <2>1, <2>2, RescheduleFacts
  <1>6. call \in DriverCall /\ (call.kind = "runUntil" => call.left > 0)
    BY DEF TypeOK, Order
  <1>7. call' = NoCall \/ (/\ ~over /\ call' \in DriverCall /\ call'.kind = call.kind
                           /\ call'.ran = call.ran /\ call'.end = call.end
                           /\ call.kind = "runUntil" => call'.left > 0)
    BY <1>1, <1>6 DEF DriverCall
  <1>8. TypeOK'
    <2>1. BagToSet(queue') \subseteq SimEvent
      BY <1>4, <1>5 DEF TypeOK
    <2>2. call' \in DriverCall
      BY <1>7, NoCallType
    <2> QED  BY <1>1, <1>2, <1>3, <2>1, <2>2 DEF TypeOK, LeaveStep
  <1>9. call # NoCall /\ call.kind # "none" /\ hist.ret = NoCall
    BY <1>1 DEF Order
  <1>10. Order'
    <2>1. NeverOvertaken'
      <3>1. ASSUME ~hist'.past, NEW e \in BagToSet(queue') PROVE e.time >= time'
        <4>1. ~hist.past
          BY <1>2, <3>1
        <4> QED  BY <1>1, <1>4, <1>5, <3>1, <4>1 DEF Order, NeverOvertaken
      <3> QED  BY <3>1 DEF NeverOvertaken
    <2>2. RunUntilProcessesExactly'
      BY <1>2, <1>9, NoCallType DEF RunUntilProcessesExactly
    <2>3. call' # NoCall => call'.kind # "none" /\ hist'.ret = NoCall
      <3>1. call.kind = "step" => over
        OBVIOUS
      <3> HIDE DEF over
      <3> QED  BY <1>2, <1>7, <1>9, <3>1
    <2>4. /\ call'.kind = "run_until" => call'.ran <= call'.end
          /\ call'.kind = "runUntil" => call'.left > 0
      BY <1>7, NoCallType DEF Order
    <2> QED  BY <1>1, <1>3, <1>4, <2>1, <2>2, <2>3, <2>4 DEF Order
  <1> QED  BY <1>1, <1>2, <1>8, <1>10, LeaveKeeps

-----------------------------------------------------------------------------
(* The theorems                                                            *)

\* The initial state satisfies the invariant.
LEMMA InvInit == Init => Inv
  <1> SUFFICES ASSUME Init PROVE Inv
    OBVIOUS
  <1>1. BagToSet(queue) = {} /\ BagToSet(popped) = {} /\ IsFcn(queue)
    BY EmptyBagIsEmpty DEF Init
  <1>2. hist \in History /\ hist.staged = {} /\ hist.committed = {} /\ hist.fired = {}
        /\ hist.ret = NoCall
    BY NoCallType DEF Init, InitHist, History
  <1>3. clocks \in [Ids -> Nat \cup {None}]
    BY DEF Init
  <1>4. TypeOK
    BY <1>1, <1>2, <1>3, NoCallType DEF Init, TypeOK
  <1>5. Phases /\ RoundReadsOneState /\ EdgesKept
    BY <1>2 DEF Init, Phases, RoundReadsOneState, EdgesKept
  <1>6. Order
    BY <1>1, <1>2, NoCallType DEF Init, Order, NeverOvertaken, RunUntilProcessesExactly
  <1> QED  BY <1>4, <1>5, <1>6 DEF Inv

\* Every step keeps the invariant.
LEMMA InvStep == Inv /\ [Next]_vars => Inv'
  <1> SUFFICES ASSUME Inv, [Next]_vars PROVE Inv'
    OBVIOUS
  <1>1. CASE \/ \E s \in Signals, p \in Periods, t \in Times : AddClock(s, p, t)
             \/ \E s \in Signals, t \in Times, v \in Values : Schedule(s, t, v)
             \/ Modify \/ SynchronizeEventValues
    BY <1>1, AddClockKeeps, ScheduleKeeps, ModifyKeeps
  <1>2. CASE CallStep
    <2>1. Drive("step", 0, 0)
      BY <1>2 DEF CallStep
    <2> QED  BY <2>1, DriveKeeps
  <1>3. CASE \E end \in Times : CallRunUntil(end)
    <2>1. PICK end \in Times : Drive("run_until", end, 0)
      BY <1>3 DEF CallRunUntil
    <2>2. end \in Nat
      BY TimedAssumption DEF Times
    <2> QED  BY <2>1, <2>2, DriveKeeps
  <1>4. CASE \E end \in Times, max \in MaxSteps : CallRunUntilMax(end, max)
    <2>1. PICK end \in Times, max \in MaxSteps : Drive("runUntil", end, max)
      BY <1>4 DEF CallRunUntilMax
    <2>2. end \in Nat /\ max \in Nat /\ max > 0
      BY TimedAssumption DEF Times
    <2> QED  BY <2>1, <2>2, DriveKeeps
  <1>5. CASE \/ CallReturns \/ BeginStep \/ SettleInputs \/ EvalApply
             \/ FireAfterEvalApply \/ CombAfterEvalApply \/ Discover
    BY <1>5, CallReturnsKeeps, BeginStepKeeps, SettleInputsKeeps, EvalApplyKeeps,
       FireAfterEvalApplyKeeps, CombAfterEvalApplyKeeps, DiscoverKeeps
  <1>6. CASE \/ \E d \in Ids : EvalOnly(d)
             \/ \E d \in Ids : Apply(d)
             \/ \E d \in Ids : Fire(d)
             \/ EndRound \/ FinishStep \/ Fail
    BY <1>6, EvalOnlyKeeps, ApplyKeeps, FireKeeps, EndRoundKeeps, FinishStepKeeps, FailKeeps
  <1>7. CASE UNCHANGED vars
    BY <1>7 DEF vars, schedVars, stepVars, Inv, TypeOK, Phases, RoundReadsOneState,
                EdgesKept, Covered, StableEdges, Order, NeverOvertaken,
                RunUntilProcessesExactly, IsFcn, BagToSet
  <1> QED  BY <1>1, <1>2, <1>3, <1>4, <1>5, <1>6, <1>7 DEF Next

\* The invariant holds throughout.
LEMMA InvHolds == Spec => []Inv
  BY InvInit, InvStep, PTL DEF Spec

\* The types, for every set of events and every sequence of calls.
THEOREM TypeCorrect == Spec => []TypeOK
  <1>1. Inv => TypeOK
    BY DEF Inv
  <1> QED  BY <1>1, InvHolds, PTL

\* SimulationState::step loses no edge, for every set of events, every way
\* the design derives signals from each other and every caller.
THEOREM EdgesAreNotLost == Spec => []NoLostEdge
  <1>1. Inv => NoLostEdge
    BY DEF Inv, EdgesKept, NoLostEdge
  <1> QED  BY <1>1, InvHolds, PTL

\* The domains evaluated in one round all read the commits of earlier rounds
\* and none of their own, for any number of domains.
THEOREM RoundsReadOneState == Spec => []RoundReadsOneState
  <1>1. Inv => RoundReadsOneState
    BY DEF Inv
  <1> QED  BY <1>1, InvHolds, PTL

\* External components fire after the commits of their round, and a step that
\* returns has committed and fired exactly the domains it ran.
THEOREM ComponentsFireLate == Spec => []ComponentsFireAfterCommit
  <1>1. Inv => ComponentsFireAfterCommit
    <2> SUFFICES ASSUME Inv PROVE ComponentsFireAfterCommit
      OBVIOUS
    <2>1. pc \in {"idle", "settle", "discover", "fastFire", "fastComb", "eval", "apply",
                  "fire", "comb", "finish"}
      BY DEF Inv, TypeOK
    <2> QED  BY <2>1 DEF Inv, Phases, ComponentsFireAfterCommit
  <1> QED  BY <1>1, InvHolds, PTL

\* step() ends on settled combinational state.
THEOREM FinishIsSettled == Spec => []SettledAtFinish
  <1>1. Inv => SettledAtFinish
    BY DEF Inv, Phases, SettledAtFinish
  <1> QED  BY <1>1, InvHolds, PTL

\* No event is overtaken unless a caller names a time in the past, for any
\* number of clocks, periods and scheduled events.
THEOREM QueueNeverOvertaken == Spec => []NeverOvertaken
  <1>1. Inv => NeverOvertaken
    BY DEF Inv, Order
  <1> QED  BY <1>1, InvHolds, PTL

\* run_until processes the events up to its end and none beyond it, and the
\* step-counted runUntil leaves none before its end.
THEOREM RunUntilIsExact == Spec => []RunUntilProcessesExactly
  <1>1. Inv => RunUntilProcessesExactly
    BY DEF Inv, Order
  <1> QED  BY <1>1, InvHolds, PTL
-----------------------------------------------------------------------------
(* Clocks keep their phase                                                 *)

\* How often an event is in a queue.
Copies(e, q) == IF e \in BagToSet(q) THEN q[e] ELSE 0

\* A rise is a whole number of periods after the clock's first event, a fall
\* half a period later.
OnPhase(c, e) ==
  /\ e.val \in {0, 1}
  /\ \E k \in Nat : e.time = hist.origin[c] + clocks[c] * k
                             + IF e.val = 1 THEN 0 ELSE clocks[c] \div 2

IsToggle(c, e) == EventOf(e.sig) = c /\ e.src = "clock"

OneToggle(c) ==
  \E e \in SimEvent : /\ ClockToggles(c) = {e} /\ OnPhase(c, e)
                      /\ Copies(e, queue) + Copies(e, popped) = 1

\* A clock that was registered once has one toggle on its phase, one that was
\* not has none, and the periods are those the callers gave.
Toggling ==
  /\ IsABag(queue) /\ IsABag(popped)
  /\ \A c \in Ids : clocks[c] \in Periods \cup {None}
  /\ \A c \in Ids : hist.regs[c] = 0 => ClockToggles(c) = {}
  /\ \A c \in Ids : hist.regs[c] = 1 /\ clocks[c] > 0 /\ ~hist.failed => OneToggle(c)

\* The toggles of a clock are those in the queue and those in flight.
LEMMA TogglesSet ==
    ASSUME NEW c
    PROVE  ClockToggles(c) = {e \in BagToSet(queue) \cup BagToSet(popped) : IsToggle(c, e)}
  BY BagUnionSet DEF ClockToggles, IsToggle

\* What a bag holds, it holds at least once.
LEMMA CopiesFacts ==
    ASSUME NEW q, IsABag(q), NEW e
    PROVE  /\ Copies(e, q) \in Nat
           /\ Copies(e, q) > 0 <=> e \in BagToSet(q)
  BY DEF Copies, IsABag, BagToSet

\* Adding two bags adds the copies.
LEMMA CopiesUnion ==
    ASSUME NEW a, NEW b, IsABag(a), IsABag(b)
    PROVE  /\ IsABag(a (+) b)
           /\ \A e : Copies(e, a (+) b) = Copies(e, a) + Copies(e, b)
  BY DEF Copies, IsABag, BagToSet, (+)

\* A pushed event adds one copy.
LEMMA PushedEvents ==
    ASSUME NEW x, IsABag(queue), Push(x)
    PROVE  /\ IsABag(queue') /\ BagToSet(queue') = BagToSet(queue) \cup {x}
           /\ \A e : Copies(e, queue') = Copies(e, queue) + IF e = x THEN 1 ELSE 0
  <1> DEFINE b == SetToBag({x})
  <1>1. /\ IsABag(b) /\ BagToSet(b) = {x}
        /\ \A e : Copies(e, b) = IF e = x THEN 1 ELSE 0
    BY DEF Copies, IsABag, BagToSet, SetToBag
  <1>2. queue' = queue (+) b
    BY DEF Push
  <1> HIDE DEF b
  <1>3. IsABag(queue (+) b) /\ \A e : Copies(e, queue (+) b) = Copies(e, queue) + Copies(e, b)
    BY <1>1, CopiesUnion
  <1>4. BagToSet(queue (+) b) = BagToSet(queue) \cup BagToSet(b)
    BY BagUnionSet
  <1> QED  BY <1>1, <1>2, <1>3, <1>4

\* The empty queue has no copy of anything.
LEMMA CopiesEmpty == IsABag(EmptyBag) /\ \A e : Copies(e, EmptyBag) = 0
  BY DEF Copies, IsABag, BagToSet, SetToBag, EmptyBag

\* pop_all_at_next_time takes every copy of an event or none.
LEMMA CopiesTaken ==
    ASSUME NEW q, IsABag(q), NEW t
    PROVE  /\ IsABag(AtTime(q, t)) /\ IsABag(q (-) AtTime(q, t))
           /\ BagToSet(q (-) AtTime(q, t)) \cup BagToSet(AtTime(q, t)) = BagToSet(q)
           /\ \A e : Copies(e, q (-) AtTime(q, t)) + Copies(e, AtTime(q, t)) = Copies(e, q)
  <1> DEFINE a == AtTime(q, t)
             T == {e \in DOMAIN q : e.time = t}
  <1>1. DOMAIN a = T /\ \A e \in T : a[e] = q[e]
    BY DEF AtTime, BagToSet
  <1>2. \A e \in DOMAIN q : q[e] \in Nat /\ q[e] > 0
    BY DEF IsABag
  <1>3. DOMAIN (q (-) a) = DOMAIN q \ T /\ \A e \in DOMAIN q \ T : (q (-) a)[e] = q[e]
    BY <1>1, <1>2 DEF (-)
  <1>4. IsABag(a)
    BY <1>1, <1>2 DEF IsABag, AtTime, BagToSet
  <1>5. IsABag(q (-) a)
    BY <1>2, <1>3 DEF IsABag, (-)
  <1> HIDE DEF a
  <1>6. \A e : Copies(e, q (-) a) + Copies(e, a) = Copies(e, q)
    BY <1>1, <1>2, <1>3 DEF Copies, BagToSet
  <1>7. BagToSet(q (-) a) \cup BagToSet(a) = BagToSet(q)
    BY <1>1, <1>3 DEF BagToSet
  <1> QED  BY <1>4, <1>5, <1>6, <1>7 DEF a

\* `1 - next_val' on a byte swaps 0 and 1 and loses nothing.
LEMMA ToggleByte ==
    /\ Toggle(0) = 1 /\ Toggle(1) = 0
    /\ \A a, b \in 0..255 : Toggle(a) = Toggle(b) => a = b
  <1>1. Toggle(0) = 1 /\ Toggle(1) = 0
    BY DEF Toggle
  <1>2. \A a \in 2..255 : Toggle(a) = 257 - a
    BY DEF Toggle
  <1>3. \A a \in 0..255 : a = 0 \/ a = 1 \/ a \in 2..255
    OBVIOUS
  <1>4. ASSUME NEW a \in 0..255, NEW b \in 0..255, Toggle(a) = Toggle(b) PROVE a = b
    <2>1. \A x \in 2..255 : Toggle(x) \in 2..255
      BY <1>2
    <2>2. CASE a \in 2..255 /\ b \in 2..255
      <3>1. Toggle(a) = 257 - a /\ Toggle(b) = 257 - b
        BY <1>2, <2>2
      <3>2. 257 - a = 257 - b
        BY <1>4, <3>1
      <3> QED  BY <3>2
    <2>3. CASE a \notin 2..255 /\ b \notin 2..255
      <3>1. a \in {0, 1} /\ b \in {0, 1}
        BY <2>3
      <3> QED  BY <1>1, <1>4, <3>1
    <2>4. CASE a \in 2..255 <=> b \notin 2..255
      <3>1. 0 \notin 2..255 /\ 1 \notin 2..255
        OBVIOUS
      <3>2. \A x \in 0..255 : x \notin 2..255 => Toggle(x) \notin 2..255
        BY <1>1, <1>3, <3>1
      <3>3. Toggle(a) \in 2..255 <=> Toggle(b) \notin 2..255
        BY <2>1, <2>4, <3>2
      <3> QED  BY <1>4, <3>3
    <2> QED  BY <2>2, <2>3, <2>4
  <1> QED  BY <1>1, <1>4

\* Different events have different successors.
LEMMA RescheduleInjective ==
    ASSUME TypeOK, NEW x \in SimEvent, NEW y \in SimEvent, HasClock(x), HasClock(y),
           Reschedule(x) = Reschedule(y)
    PROVE  x = y
  <1>1. /\ Reschedule(x).sig = x.sig /\ Reschedule(y).sig = y.sig
        /\ Reschedule(x).src = x.src /\ Reschedule(y).src = y.src
        /\ Reschedule(x).val = Toggle(x.val) /\ Reschedule(y).val = Toggle(y.val)
        /\ Reschedule(x).time = x.time + clocks[EventOf(x.sig)] \div 2
        /\ Reschedule(y).time = y.time + clocks[EventOf(y.sig)] \div 2
    BY DEF Reschedule, SimEvent
  <1>2. x.sig = y.sig /\ x.src = y.src
    BY <1>1
  <1>3. x.val = y.val
    <2>1. x.val \in 0..255 /\ y.val \in 0..255 /\ Toggle(x.val) = Toggle(y.val)
      BY <1>1 DEF SimEvent
    <2> QED  BY <2>1, ToggleByte
  <1>4. x.time = y.time
    <2>1. clocks[EventOf(x.sig)] \in Nat
      BY EventOfType DEF TypeOK, SimEvent, HasClock
    <2>2. clocks[EventOf(x.sig)] \div 2 \in Nat
      BY <2>1
    <2> HIDE DEF EventOf
    <2>3. x.time \in Nat /\ y.time \in Nat
      BY DEF SimEvent
    <2>4. x.time + clocks[EventOf(x.sig)] \div 2 = y.time + clocks[EventOf(x.sig)] \div 2
      BY <1>1, <1>2
    <2> QED  BY <2>2, <2>3, <2>4
  <1> QED  BY <1>2, <1>3, <1>4 DEF SimEvent

\* The successor of a popped event has its copies.
LEMMA CopiesRescheduled ==
    ASSUME TypeOK, IsABag(popped)
    PROVE  /\ IsABag(Rescheduled)
           /\ \A e \in BagToSet(popped) :
                HasClock(e) => Copies(Reschedule(e), Rescheduled) = Copies(e, popped)
  <1> DEFINE clocked == {e \in BagToSet(popped) : HasClock(e)}
             pre(r) == CHOOSE e \in clocked : Reschedule(e) = r
  <1>1. clocked \subseteq SimEvent
    BY DEF TypeOK
  <1>2. \A e \in clocked : pre(Reschedule(e)) = e
    <2> TAKE e \in clocked
    <2>1. pre(Reschedule(e)) \in clocked /\ Reschedule(pre(Reschedule(e))) = Reschedule(e)
      OBVIOUS
    <2> HIDE DEF pre
    <2> QED  BY <1>1, <2>1, RescheduleInjective
  <1>3. \A e \in clocked : popped[e] \in Nat /\ popped[e] > 0
    BY DEF IsABag, BagToSet
  <1>4. Rescheduled = [r \in {Reschedule(e) : e \in clocked} |-> popped[pre(r)]]
    BY DEF Rescheduled
  <1> HIDE DEF pre
  <1>5. /\ DOMAIN Rescheduled = {Reschedule(e) : e \in clocked}
        /\ \A e \in clocked : Rescheduled[Reschedule(e)] = popped[e]
    BY <1>2, <1>4
  <1>6. Rescheduled \in [DOMAIN Rescheduled -> {n \in Nat : n > 0}]
    <2> HIDE DEF clocked
    <2> QED  BY <1>2, <1>3, <1>4
  <1>7. \A e \in clocked : Copies(Reschedule(e), Rescheduled) = Copies(e, popped)
    BY <1>5 DEF Copies, BagToSet
  <1> QED  BY <1>6, <1>7 DEF IsABag

\* What the toggles of every clock depend on.
LEMMA TogglingFrame ==
    ASSUME Toggling, UNCHANGED <<queue, popped, clocks>>,
           hist'.regs = hist.regs, hist'.origin = hist.origin, hist'.failed = hist.failed
    PROVE  Toggling'
  BY DEF Toggling, OneToggle, OnPhase, ClockToggles, Copies, IsABag, BagToSet

\* A toggle stays the only one when only other events are added.
LEMMA TogglePersists ==
    ASSUME NEW c, OneToggle(c), ClockToggles(c)' = ClockToggles(c),
           clocks'[c] = clocks[c], hist'.origin[c] = hist.origin[c],
           \A e \in ClockToggles(c) :
             Copies(e, queue') + Copies(e, popped') = Copies(e, queue) + Copies(e, popped)
    PROVE  OneToggle(c)'
  <1>1. PICK e \in SimEvent : /\ ClockToggles(c) = {e} /\ OnPhase(c, e)
                              /\ Copies(e, queue) + Copies(e, popped) = 1
    BY DEF OneToggle
  <1>2. OnPhase(c, e)'
    BY <1>1 DEF OnPhase
  <1>3. Copies(e, queue') + Copies(e, popped') = 1
    BY <1>1
  <1> QED  BY <1>1, <1>2, <1>3 DEF OneToggle, Copies, BagToSet

\* add_clock gives a new clock its first rise and leaves the others alone.
LEMMA AddClockToggles ==
    ASSUME Inv, Toggling, NEW s \in Signals, NEW p \in Periods, NEW t \in Times,
           AddClock(s, p, t)
    PROVE  Toggling'
  <1> DEFINE ev == [time |-> t, sig |-> s, val |-> 1, src |-> "clock"]
             c0 == EventOf(s)
  <1>0. TypeOK /\ BagToSet(popped) = {} /\ popped' = popped /\ c0 \in Ids
    BY EventOfType DEF Inv, Order, AddClock, Idle, stepVars
  <1>1. ev \in SimEvent
    BY TimedAssumption DEF Times, SimEvent
  <1>2. /\ queue' = queue (+) SetToBag({ev}) /\ clocks' = [clocks EXCEPT ![c0] = p]
        /\ hist'.failed = hist.failed
        /\ hist'.regs = [hist.regs EXCEPT ![c0] = IF @ = 2 THEN 2 ELSE @ + 1]
        /\ hist'.origin = [hist.origin EXCEPT ![c0] = t]
    BY <1>0 DEF AddClock, Push, TypeOK, History
  <1>3. /\ IsABag(queue') /\ IsABag(popped')
        /\ \A e : Copies(e, queue') = Copies(e, queue) + IF e = ev THEN 1 ELSE 0
        /\ BagToSet(queue') = BagToSet(queue) \cup {ev}
    <2>1. IsABag(queue) /\ IsABag(popped')
      BY <1>0 DEF Toggling
    <2>2. Push(ev)
      BY DEF AddClock, Schedule
    <2> HIDE DEF ev
    <2> QED  BY <2>1, <2>2, PushedEvents
  <1>4. BagToSet(queue') = BagToSet(queue) \cup {ev}
    BY <1>3
  <1>5. /\ \A c : ClockToggles(c) = {e \in BagToSet(queue) : IsToggle(c, e)}
        /\ \A c : ClockToggles(c)' = {e \in BagToSet(queue) \cup {ev} : IsToggle(c, e)}
    <2>1. \A c : ClockToggles(c)' = {e \in BagToSet(queue') \cup BagToSet(popped') : IsToggle(c, e)}
      BY BagUnionSet DEF ClockToggles, IsToggle
    <2> QED  BY <1>0, <1>4, <2>1, TogglesSet
  <1>6. \A c \in Ids : clocks'[c] \in Periods \cup {None}
    BY <1>0, <1>2 DEF Toggling, TypeOK
  <1>7. ASSUME NEW c \in Ids, c # c0
        PROVE  /\ ClockToggles(c)' = ClockToggles(c) /\ ev \notin ClockToggles(c)
               /\ hist'.regs[c] = hist.regs[c] /\ hist'.origin[c] = hist.origin[c]
               /\ clocks'[c] = clocks[c]
    <2>1. ~IsToggle(c, ev)
      BY <1>7 DEF IsToggle
    <2> HIDE DEF ev, c0
    <2>2. ClockToggles(c)' = ClockToggles(c) /\ ev \notin ClockToggles(c)
      BY <1>5, <2>1
    <2> QED  BY <1>0, <1>2, <1>7, <2>2 DEF TypeOK, History
  <1>8. hist'.regs[c0] # 0
    BY <1>0, <1>2 DEF TypeOK, History
  <1>9. ASSUME hist'.regs[c0] = 1, clocks'[c0] > 0 PROVE OneToggle(c0)'
    <2>1. hist.regs[c0] = 0
      BY <1>0, <1>2, <1>9 DEF TypeOK, History
    <2>2. ClockToggles(c0) = {} /\ IsToggle(c0, ev)
      BY <1>0, <2>1 DEF Toggling, IsToggle
    <2>3. ClockToggles(c0)' = {ev} /\ ev \notin BagToSet(queue)
      <3> HIDE DEF ev, c0
      <3> QED  BY <1>5, <2>2
    <2>4. Copies(ev, queue') + Copies(ev, popped') = 1
      <3>1. Copies(ev, queue) = 0 /\ Copies(ev, popped') = 0
        BY <1>0, <2>3 DEF Copies
      <3> HIDE DEF ev
      <3> QED  BY <1>3, <3>1
    <2>5. OnPhase(c0, ev)'
      <3>1. hist'.origin[c0] = t /\ clocks'[c0] = p /\ t \in Nat /\ p \in Nat
        BY <1>0, <1>2, TimedAssumption DEF TypeOK, History, Times
      <3>2. ev.time = hist'.origin[c0] + clocks'[c0] * 0 + IF ev.val = 1 THEN 0 ELSE clocks'[c0] \div 2
        BY <3>1
      <3> QED  BY <3>2 DEF OnPhase
    <2> QED  BY <1>1, <2>3, <2>4, <2>5 DEF OneToggle, Copies, BagToSet
  <1>10. ASSUME NEW c \in Ids, c # c0, OneToggle(c) PROVE OneToggle(c)'
    <2>1. \A e \in ClockToggles(c) :
            Copies(e, queue') + Copies(e, popped') = Copies(e, queue) + Copies(e, popped)
      <3> TAKE e \in ClockToggles(c)
      <3>1. e # ev
        BY <1>7, <1>10
      <3> HIDE DEF ev
      <3>2. Copies(e, queue) \in Nat
        BY CopiesFacts DEF Toggling
      <3> QED  BY <1>0, <1>3, <3>1, <3>2
    <2> QED  BY <1>7, <1>10, <2>1, TogglePersists
  <1> HIDE DEF ev, c0
  <1>11. \A c \in Ids : hist'.regs[c] = 0 => ClockToggles(c)' = {}
    BY <1>7, <1>8 DEF Toggling
  <1>12. \A c \in Ids : hist'.regs[c] = 1 /\ clocks'[c] > 0 /\ ~hist'.failed => OneToggle(c)'
    BY <1>2, <1>7, <1>9, <1>10 DEF Toggling
  <1> QED  BY <1>3, <1>6, <1>11, <1>12 DEF Toggling

\* An event scheduled by hand is no toggle.
LEMMA ScheduleToggles ==
    ASSUME Inv, Toggling, NEW s \in Signals, NEW t \in Times, NEW v \in Values,
           Schedule(s, t, v)
    PROVE  Toggling'
  <1> DEFINE ev == [time |-> t, sig |-> s, val |-> v, src |-> "schedule"]
  <1>1. /\ queue' = queue (+) SetToBag({ev}) /\ UNCHANGED <<popped, clocks>>
        /\ hist'.failed = hist.failed /\ hist'.regs = hist.regs /\ hist'.origin = hist.origin
    BY DEF Schedule, Push, stepVars, Inv, TypeOK, History
  <1>2. /\ IsABag(queue')
        /\ \A e : Copies(e, queue') = Copies(e, queue) + IF e = ev THEN 1 ELSE 0
        /\ BagToSet(queue') = BagToSet(queue) \cup {ev}
    <2>1. IsABag(queue)
      BY DEF Toggling
    <2>2. Push(ev)
      BY DEF AddClock, Schedule
    <2> HIDE DEF ev
    <2> QED  BY <2>1, <2>2, PushedEvents
  <1>3. BagToSet(queue') = BagToSet(queue) \cup {ev}
    BY <1>2
  <1>4. \A c : ~IsToggle(c, ev)
    BY DEF IsToggle
  <1> HIDE DEF ev
  <1>5. \A c : ClockToggles(c)' = ClockToggles(c) /\ ev \notin ClockToggles(c)
    <2>1. \A c : ClockToggles(c)' = {e \in BagToSet(queue') \cup BagToSet(popped') : IsToggle(c, e)}
      BY BagUnionSet DEF ClockToggles, IsToggle
    <2> QED  BY <1>1, <1>3, <1>4, <2>1, TogglesSet
  <1>6. ASSUME NEW c \in Ids, OneToggle(c) PROVE OneToggle(c)'
    <2>1. \A e \in ClockToggles(c) :
            Copies(e, queue') + Copies(e, popped') = Copies(e, queue) + Copies(e, popped)
      <3> TAKE e \in ClockToggles(c)
      <3>1. e # ev
        BY <1>5
      <3>2. Copies(e, queue) \in Nat
        BY CopiesFacts DEF Toggling
      <3> QED  BY <1>1, <1>2, <3>1, <3>2
    <2> QED  BY <1>1, <1>5, <1>6, <2>1, TogglePersists
  <1> QED  BY <1>1, <1>2, <1>5, <1>6 DEF Toggling

\* Popping moves toggles from the queue into the step.
LEMMA BeginStepToggles == ASSUME Inv, Toggling, BeginStep PROVE Toggling'
  <1> DEFINE t == NextTime(queue)
  <1>1. /\ popped' = AtTime(queue, t) /\ queue' = queue (-) AtTime(queue, t)
        /\ UNCHANGED <<clocks>>
        /\ hist'.failed = hist.failed /\ hist'.regs = hist.regs /\ hist'.origin = hist.origin
    BY DEF BeginStep, Inv, TypeOK, History
  <1>2. BagToSet(popped) = {}
    BY DEF Inv, Order, BeginStep
  <1> HIDE DEF t
  <1>3. /\ IsABag(queue') /\ IsABag(popped')
        /\ BagToSet(queue') \cup BagToSet(popped') = BagToSet(queue)
        /\ \A e : Copies(e, queue') + Copies(e, popped') = Copies(e, queue)
    BY <1>1, CopiesTaken DEF Toggling
  <1>4. \A c : ClockToggles(c)' = ClockToggles(c)
    <2>1. \A c : ClockToggles(c)' = {e \in BagToSet(queue') \cup BagToSet(popped') : IsToggle(c, e)}
      BY BagUnionSet DEF ClockToggles, IsToggle
    <2> QED  BY <1>2, <1>3, <2>1, TogglesSet
  <1>5. ASSUME NEW c \in Ids, OneToggle(c) PROVE OneToggle(c)'
    <2>1. \A e \in ClockToggles(c) :
            Copies(e, queue') + Copies(e, popped') = Copies(e, queue) + Copies(e, popped)
      <3> TAKE e \in ClockToggles(c)
      <3>1. Copies(e, queue) \in Nat /\ Copies(e, popped) = 0
        BY <1>2, CopiesFacts DEF Toggling, Copies
      <3> QED  BY <1>3, <3>1
    <2> QED  BY <1>1, <1>4, <1>5, <2>1, TogglePersists
  <1> QED  BY <1>1, <1>3, <1>4, <1>5 DEF Toggling

\* A step that fails takes its events with it.
LEMMA FailToggles == ASSUME Inv, Toggling, Fail PROVE Toggling'
  <1>1. /\ popped' = EmptyBag /\ UNCHANGED <<queue, clocks>>
        /\ hist'.failed = TRUE /\ hist'.regs = hist.regs
    BY DEF Fail, LeaveStep, schedVars, ForgetStep, Inv, TypeOK, History
  <1>2. BagToSet(popped') = {} /\ IsABag(popped')
    BY <1>1, EmptyBagIsEmpty, CopiesEmpty
  <1>3. \A c : ClockToggles(c)' \subseteq ClockToggles(c)
    <2>1. \A c : ClockToggles(c)' = {e \in BagToSet(queue') \cup BagToSet(popped') : IsToggle(c, e)}
      BY BagUnionSet DEF ClockToggles, IsToggle
    <2> QED  BY <1>1, <1>2, <2>1, TogglesSet
  <1> QED  BY <1>1, <1>2, <1>3 DEF Toggling

\* Two half periods make a period when the period is even: a fall follows the
\* rise by half a period and the next rise follows the fall by the other half.
LEMMA PhaseMoves ==
    ASSUME NEW c \in Ids, NEW e \in SimEvent, TypeOK, clocks[c] \in Nat, clocks[c] % 2 = 0,
           EventOf(e.sig) = c, OnPhase(c, e)
    PROVE  OnPhase(c, Reschedule(e))
  <1> DEFINE f == Reschedule(e)
             h == clocks[c] \div 2
             o == hist.origin[c]
  <1>1. f.time = e.time + h /\ f.val = Toggle(e.val)
    BY DEF Reschedule, SimEvent
  <1>2. clocks[c] = h + h /\ h \in Nat /\ o \in Nat
    BY DEF TypeOK, History
  <1>3. PICK k \in Nat : e.time = o + clocks[c] * k + IF e.val = 1 THEN 0 ELSE h
    BY DEF OnPhase
  <1>4. e.val \in {0, 1}
    BY DEF OnPhase
  <1> HIDE DEF f, h, o
  <1>5. CASE e.val = 1
    <2>1. f.val = 0
      BY <1>1, <1>5, ToggleByte
    <2>2. f.time = o + clocks[c] * k + h
      BY <1>1, <1>2, <1>3, <1>5
    <2> QED  BY <1>3, <2>1, <2>2 DEF OnPhase, f, h, o
  <1>6. CASE e.val = 0
    <2>1. f.val = 1
      BY <1>1, <1>6, ToggleByte
    <2>2. e.time = o + clocks[c] * k + h
      BY <1>3, <1>6
    <2>3. clocks[c] * (k + 1) = clocks[c] * k + clocks[c] /\ clocks[c] * k \in Nat
      BY <1>2
    <2>4. f.time = o + clocks[c] * (k + 1) + 0
      BY <1>1, <1>2, <2>2, <2>3
    <2>5. k + 1 \in Nat
      OBVIOUS
    <2> QED  BY <2>1, <2>4, <2>5 DEF OnPhase, f, h, o
  <1> QED  BY <1>4, <1>5, <1>6

\* The end of the step pushes the successor of the toggle it popped.
LEMMA FinishStepToggles ==
    ASSUME \A p \in Periods : p % 2 = 0, Inv, Toggling, FinishStep
    PROVE  Toggling'
  <1>0. TypeOK /\ IsABag(queue) /\ IsABag(popped)
    BY DEF Inv, Toggling
  <1>1. /\ popped' = EmptyBag /\ queue' = queue (+) Rescheduled /\ UNCHANGED clocks
        /\ hist'.failed = hist.failed /\ hist'.regs = hist.regs /\ hist'.origin = hist.origin
    BY <1>0 DEF FinishStep, LeaveStep, ForgetStep, TypeOK, History
  <1>2. BagToSet(popped') = {} /\ IsABag(popped') /\ \A e : Copies(e, popped') = 0
    BY <1>1, EmptyBagIsEmpty, CopiesEmpty
  <1>3. IsABag(queue') /\ \A e : Copies(e, queue') = Copies(e, queue) + Copies(e, Rescheduled)
    <2>1. IsABag(Rescheduled)
      BY <1>0, CopiesRescheduled
    <2>2. /\ IsABag(queue (+) Rescheduled)
          /\ \A e : Copies(e, queue (+) Rescheduled) = Copies(e, queue) + Copies(e, Rescheduled)
      BY <1>0, <2>1, CopiesUnion
    <2> QED  BY <1>1, <2>2
  <1> DEFINE clocked == {x \in BagToSet(popped) : HasClock(x)}
  <1>4. /\ BagToSet(Rescheduled) = {Reschedule(x) : x \in clocked}
        /\ BagToSet(queue') = BagToSet(queue) \cup BagToSet(Rescheduled)
    <2>1. BagToSet(queue (+) Rescheduled) = BagToSet(queue) \cup BagToSet(Rescheduled)
      BY BagUnionSet
    <2> QED  BY <1>1, <2>1, RescheduledSet
  <1>5. \A x \in clocked : /\ x \in SimEvent /\ Reschedule(x) \in SimEvent
                           /\ \A c : IsToggle(c, Reschedule(x)) <=> IsToggle(c, x)
    <2> TAKE x \in clocked
    <2>1. x \in SimEvent
      BY <1>0 DEF TypeOK
    <2>2. Reschedule(x).sig = x.sig /\ Reschedule(x).src = x.src
      BY <2>1 DEF Reschedule, SimEvent
    <2> QED  BY <1>0, <2>1, <2>2, RescheduleFacts DEF IsToggle
  <1>6. \A c : ClockToggles(c) = {e \in BagToSet(queue) \cup BagToSet(popped) : IsToggle(c, e)}
    BY TogglesSet
  <1>7. \A c : ClockToggles(c)' = {e \in BagToSet(queue) \cup BagToSet(Rescheduled) : IsToggle(c, e)}
    <2>1. \A c : ClockToggles(c)' = {e \in BagToSet(queue') \cup BagToSet(popped') : IsToggle(c, e)}
      BY BagUnionSet DEF ClockToggles, IsToggle
    <2> QED  BY <1>2, <1>4, <2>1
  <1>8. ASSUME NEW c \in Ids, ClockToggles(c) = {} PROVE ClockToggles(c)' = {}
    BY <1>4, <1>5, <1>6, <1>7, <1>8
  <1>9. ASSUME NEW c \in Ids, clocks[c] > 0, OneToggle(c) PROVE OneToggle(c)'
    <2>1. PICK e \in SimEvent : /\ ClockToggles(c) = {e} /\ OnPhase(c, e)
                                /\ Copies(e, queue) + Copies(e, popped) = 1
      BY <1>9 DEF OneToggle
    <2>2. IsToggle(c, e) /\ e \in BagToSet(queue) \cup BagToSet(popped)
      BY <1>6, <2>1
    <2>3. /\ Copies(e, queue) \in Nat /\ Copies(e, popped) \in Nat
          /\ (Copies(e, queue) > 0 <=> e \in BagToSet(queue))
          /\ (Copies(e, popped) > 0 <=> e \in BagToSet(popped))
      BY <1>0, CopiesFacts
    <2>4. CASE e \in BagToSet(queue)
      <3>1. e \notin BagToSet(popped) /\ Copies(e, queue) = 1
        BY <2>1, <2>3, <2>4
      <3>2. \A x \in BagToSet(Rescheduled) : ~IsToggle(c, x)
        BY <1>4, <1>5, <1>6, <2>1, <3>1
      <3>3. ClockToggles(c)' = {e}
        BY <1>6, <1>7, <2>1, <2>2, <2>4, <3>2
      <3>4. Copies(e, Rescheduled) = 0
        BY <2>2, <3>2 DEF Copies
      <3>5. Copies(e, queue') + Copies(e, popped') = 1
        BY <1>2, <1>3, <3>1, <3>4
      <3>6. OnPhase(c, e)'
        BY <1>1, <2>1 DEF OnPhase
      <3> QED  BY <3>3, <3>5, <3>6 DEF OneToggle, Copies, BagToSet
    <2>5. CASE e \notin BagToSet(queue)
      <3>0. PICK f : f = Reschedule(e)
        OBVIOUS
      <3>1. e \in BagToSet(popped) /\ Copies(e, popped) = 1
        BY <2>1, <2>2, <2>3, <2>5
      <3>2. HasClock(e) /\ clocks[c] \in Nat /\ clocks[c] % 2 = 0 /\ EventOf(e.sig) = c
        <4>1. EventOf(e.sig) = c
          BY <2>2 DEF IsToggle
        <4>2. clocks[c] \in Periods \cup {None}
          BY DEF Toggling
        <4>3. clocks[c] # None
          BY <1>9 DEF None
        <4> QED  BY <4>1, <4>2, <4>3, TimedAssumption DEF HasClock
      <3>3. e \in clocked
        BY <3>1, <3>2
      <3>4. f \in SimEvent /\ IsToggle(c, f) /\ f \in BagToSet(Rescheduled)
        BY <1>4, <1>5, <2>2, <3>0, <3>3
      <3>5. \A x \in BagToSet(queue) : ~IsToggle(c, x)
        BY <1>6, <2>1, <2>5
      <3>6. \A x \in BagToSet(Rescheduled) : IsToggle(c, x) => x = f
        BY <1>4, <1>5, <1>6, <2>1, <3>0
      <3>7. Copies(f, Rescheduled) = 1
        BY <1>0, <3>0, <3>1, <3>2, CopiesRescheduled
      <3>8. OnPhase(c, f)
        BY <1>0, <2>1, <3>0, <3>2, PhaseMoves
      <3>9. ClockToggles(c)' = {f}
        BY <1>7, <3>4, <3>5, <3>6
      <3>10. Copies(f, queue) = 0
        BY <3>4, <3>5 DEF Copies
      <3>11. Copies(f, queue') + Copies(f, popped') = 1
        BY <1>2, <1>3, <3>7, <3>10
      <3>12. OnPhase(c, f)'
        BY <1>1, <3>8 DEF OnPhase
      <3> QED  BY <3>4, <3>9, <3>11, <3>12 DEF OneToggle, Copies, BagToSet
    <2> QED  BY <2>4, <2>5
  <1> QED  BY <1>1, <1>2, <1>3, <1>8, <1>9 DEF Toggling

\* The other actions leave the queue, the popped events and the clocks alone.
LEMMA TogglingStep ==
    (\A p \in Periods : p % 2 = 0) /\ Inv /\ Toggling /\ [Next]_vars => Toggling'
  <1> SUFFICES ASSUME \A p \in Periods : p % 2 = 0, Inv, Toggling, [Next]_vars PROVE Toggling'
    OBVIOUS
  <1>0. TypeOK
    BY DEF Inv
  <1>1. ASSUME NEW s \in Signals, NEW p \in Periods, NEW t \in Times, AddClock(s, p, t)
        PROVE  Toggling'
    BY <1>1, AddClockToggles
  <1>2. ASSUME NEW s \in Signals, NEW t \in Times, NEW v \in Values, Schedule(s, t, v)
        PROVE  Toggling'
    BY <1>2, ScheduleToggles
  <1>3. CASE Modify \/ SynchronizeEventValues \/ CallReturns
    BY <1>0, <1>3, TogglingFrame
       DEF Modify, SynchronizeEventValues, CallReturns, schedVars, stepVars, TypeOK, History
  <1>4. ASSUME NEW kind, NEW end, NEW budget, Drive(kind, end, budget) PROVE Toggling'
    BY <1>0, <1>4, TogglingFrame DEF Drive, schedVars, stepVars, TypeOK, History
  <1>5. CASE BeginStep
    BY <1>5, BeginStepToggles
  <1>6. CASE SettleInputs \/ EvalApply \/ FireAfterEvalApply \/ Discover
    <2>1. /\ UNCHANGED <<queue, popped, clocks>>
          /\ hist'.regs = hist.regs /\ hist'.origin = hist.origin /\ hist'.failed = hist.failed
      BY <1>0, <1>6 DEF SettleInputs, EvalApply, FireAfterEvalApply, Discover, schedVars,
                        stepVars, TypeOK, History
    <2> QED  BY <2>1, TogglingFrame
  <1>7. CASE CombAfterEvalApply \/ EndRound
    <2>1. /\ UNCHANGED <<queue, popped, clocks>>
          /\ hist'.regs = hist.regs /\ hist'.origin = hist.origin /\ hist'.failed = hist.failed
      BY <1>0, <1>7 DEF CombAfterEvalApply, EndRound, EvalComb, schedVars, TypeOK, History
    <2> QED  BY <2>1, TogglingFrame
  <1>8. ASSUME NEW d \in Ids, EvalOnly(d) \/ Apply(d) \/ Fire(d) PROVE Toggling'
    <2>1. /\ UNCHANGED <<queue, popped, clocks>>
          /\ hist'.regs = hist.regs /\ hist'.origin = hist.origin /\ hist'.failed = hist.failed
      BY <1>0, <1>8 DEF EvalOnly, Apply, Fire, schedVars, TypeOK, History
    <2> QED  BY <2>1, TogglingFrame
  <1>9. CASE FinishStep
    BY <1>9, FinishStepToggles
  <1>10. CASE Fail
    BY <1>10, FailToggles
  <1>11. CASE UNCHANGED vars
    BY <1>11, TogglingFrame DEF vars, schedVars, stepVars
  <1>12. ASSUME NEW end \in Times, NEW max \in MaxSteps,
                CallStep \/ CallRunUntil(end) \/ CallRunUntilMax(end, max)
         PROVE  Toggling'
    BY <1>4, <1>12 DEF CallStep, CallRunUntil, CallRunUntilMax
  <1>13. CASE CallStep
    BY <1>4, <1>13 DEF CallStep
  <1>14. ASSUME NEW end \in Times, CallRunUntil(end) PROVE Toggling'
    BY <1>4, <1>14 DEF CallRunUntil
  <1> QED
    BY <1>1, <1>2, <1>3, <1>5, <1>6, <1>7, <1>8, <1>9, <1>10, <1>11, <1>12, <1>13, <1>14
       DEF Next

\* Nothing is registered and nothing waits at the start.
LEMMA TogglingInit == Init => Toggling
  <1> SUFFICES ASSUME Init PROVE Toggling
    OBVIOUS
  <1>1. /\ queue = EmptyBag /\ popped = EmptyBag /\ \A c \in Ids : hist.regs[c] = 0
        /\ \A c \in Ids : clocks[c] = None
    BY DEF Init, InitHist
  <1>2. BagToSet(queue) = {} /\ BagToSet(popped) = {} /\ IsABag(queue) /\ IsABag(popped)
    BY <1>1, EmptyBagIsEmpty, CopiesEmpty
  <1>3. \A c \in Ids : ClockToggles(c) = {}
    BY <1>2, TogglesSet
  <1> QED  BY <1>1, <1>2, <1>3 DEF Toggling

\* A number of whole periods and a rest leaves the rest.
LEMMA ModUnique ==
    ASSUME NEW c \in Nat \ {0}, NEW k \in Nat, NEW r \in 0..(c - 1)
    PROVE  (c * k + r) % c = r
  <1> DEFINE a == c * k + r
             q == a \div c
             m == a % c
  <1>1. a \in Nat
    OBVIOUS
  <1>2. q \in Nat /\ m \in 0..(c - 1) /\ a = c * q + m
    <2> HIDE DEF a
    <2> QED  BY <1>1, SMT
  <1>3. a = c * k + r
    OBVIOUS
  <1> HIDE DEF a, q, m
  <1>4. c * (k - q) = m - r
    BY <1>2, <1>3
  <1>5. k = q
    <2> DEFINE d == k - q
    <2>1. d \in Int /\ c * d < c /\ -c < c * d
      BY <1>2, <1>4
    <2> HIDE DEF d
    <2>2. CASE d >= 1
      BY <2>1, <2>2
    <2>3. CASE d <= -1
      BY <2>1, <2>3
    <2>4. d = 0
      BY <2>1, <2>2, <2>3
    <2> QED  BY <1>2, <2>4 DEF d
  <1>6. m = r
    BY <1>2, <1>3, <1>5
  <1> QED  BY <1>6 DEF m, a

\* What the property says follows from the one toggle on its phase.
LEMMA TogglingPhase ==
    ASSUME Inv, Toggling, \A p \in Periods : p % 2 = 0 PROVE ClockKeepsPhase
  <1> SUFFICES ASSUME NEW c \in Ids, hist.regs[c] = 1, clocks[c] > 0, ~hist.failed
               PROVE  /\ Cardinality(ClockToggles(c)) = 1
                      /\ \A e \in ClockToggles(c) :
                           /\ (queue (+) popped)[e] = 1
                           /\ e.time >= hist.origin[c]
                           /\ e.val \in {0, 1}
                           /\ (e.time - hist.origin[c]) % clocks[c]
                                = IF e.val = 1 THEN 0 ELSE clocks[c] \div 2
    BY DEF ClockKeepsPhase
  <1> DEFINE p == clocks[c]
             o == hist.origin[c]
             h == p \div 2
  <1>1. p \in Nat \ {0} /\ o \in Nat /\ h \in Nat /\ h \in 0..(p - 1) /\ 0 \in 0..(p - 1)
    <2>1. p \in Nat \ {0} /\ o \in Nat
      BY DEF Inv, TypeOK, History, None
    <2> HIDE DEF p
    <2> QED  BY <2>1
  <1>2. PICK e \in SimEvent : /\ ClockToggles(c) = {e} /\ OnPhase(c, e)
                              /\ Copies(e, queue) + Copies(e, popped) = 1
    BY DEF Toggling, OneToggle
  <1>3. Cardinality(ClockToggles(c)) = 1
    BY <1>2, FS_Singleton
  <1>4. (queue (+) popped)[e] = 1
    <2>1. Copies(e, queue (+) popped) = 1
      BY <1>2, CopiesUnion DEF Toggling
    <2>2. e \in BagToSet(queue (+) popped)
      BY <1>2 DEF ClockToggles
    <2> QED  BY <2>1, <2>2 DEF Copies
  <1>5. e.val \in {0, 1}
    BY <1>2 DEF OnPhase
  <1>6. PICK k \in Nat : e.time = o + p * k + IF e.val = 1 THEN 0 ELSE h
    BY <1>2 DEF OnPhase
  <1> HIDE DEF o, h, p
  <1>7. p * k \in Nat
    BY <1>1
  <1>8. e.time >= o /\ e.time - o = p * k + IF e.val = 1 THEN 0 ELSE h
    BY <1>1, <1>6, <1>7
  <1>9. (e.time - o) % p = IF e.val = 1 THEN 0 ELSE h
    <2>1. (p * k + 0) % p = 0 /\ (p * k + h) % p = h
      BY <1>1, ModUnique
    <2> QED  BY <1>8, <2>1
  <1> QED  BY <1>2, <1>3, <1>4, <1>5, <1>8, <1>9 DEF o, h, p

\* A clock registered once with an even period keeps its phase for ever: one
\* toggle, in the queue or in flight, on the grid of its half periods.  With an
\* odd period the code's integer half makes every cycle one unit short.
THEOREM ClocksKeepPhase ==
    ASSUME \A p \in Periods : p % 2 = 0
    PROVE  Spec => []ClockKeepsPhase
  <1>1. Inv /\ Toggling /\ [Next]_vars => Toggling'
    BY TogglingStep
  <1>2. Inv /\ Toggling => ClockKeepsPhase
    BY TogglingPhase
  <1> QED  BY <1>1, <1>2, TogglingInit, InvHolds, PTL DEF Spec
=============================================================================
