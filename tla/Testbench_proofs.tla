---------------------------- MODULE Testbench_proofs ----------------------------
(***************************************************************************)
(* For every testbench, every set of components and every tick limit: the  *)
(* verdict accounts for every failure, the ticks are counted, and no       *)
(* component loses a write, an edge or its on_finish.                      *)
(***************************************************************************)
EXTENDS Testbench, TLAPS

Histories ==
  [failure : BOOLEAN, tainted : BOOLEAN, asked : Nat, given : [Clocks -> Nat],
   held : [Clocks \X Resets -> Nat], begun : SUBSET Components,
   ended : [Components -> Nat], runs : Nat]

HistOK == hist \in Histories

Loops == [clock : Clocks \cup {None}, generator : Generators \cup {None}, left : Nat]

\* Where the components are in each phase of a run.
Phase ==
  /\ pc = "done" <=> verdict # "none"
  /\ pc \in {"initialize", "statement", "edges"} => result = "continue"
  /\ pc \in {"statement", "edges", "finish"} => live = bench.used /\ hist.begun = live
  /\ pc = "initialize" => /\ hist.begun = {}
                           /\ \A e \in Clocks : hist.given[e] = 0
                           /\ \A q \in Clocks \X Resets : hist.held[q] = 0
  /\ pc # "done" => \A c \in Components : hist.ended[c] = 0
  /\ FinishedOnce

\* A failure is in the ring, among the assertions, or in the result; and what
\* is there has come from a failure.
Told ==
  /\ verdict \in {"none", "pass"} /\ hist.failure =>
       pending # {} \/ recorded \/ result = "fail"
  /\ verdict = "pass" => ~recorded /\ result # "fail"
  /\ pending # {} \/ recorded \/ result = "fail" \/ verdict = "fail" =>
       hist.failure \/ hist.tainted

Ticks ==
  /\ TicksAreCounted
  /\ reached => pc \in {"finish", "done"}
  /\ pc \in {"initialize", "statement"} => edges.left = 0
  /\ pc = "edges" => edges.clock \in Clocks

Inv == TypeOK /\ HistOK /\ Phase /\ Told /\ Ticks /\ OutputsInSync /\ CyclesCountEdges

\* Facts about an evaluation.
LEMMA EvaluationType ==
    ASSUME NEW condition \in BOOLEAN, NEW o \in EvaluationsIf(condition)
    PROVE  o.ok \in BOOLEAN /\ o.new \subseteq Kinds
  <1>1. CASE condition
    <2>1. o \in Evaluations
      BY <1>1, Zenon DEF EvaluationsIf
    <2> QED  BY <2>1 DEF Evaluations
  <1>2. CASE ~condition
    <2>1. o = [ok |-> TRUE, new |-> {}]
      BY <1>2, Zenon DEF EvaluationsIf, Quiet
    <2> QED  BY <2>1
  <1> QED  BY <1>1, <1>2

\* The history changes by a failure `f' and by `k' cycles asked for.
Recorded(f, k) ==
  /\ HistOK'
  /\ hist'.failure = (hist.failure \/ f) /\ hist'.tainted = hist.tainted
  /\ hist'.asked = hist.asked + k /\ hist'.given = hist.given /\ hist'.held = hist.held
  /\ hist'.begun = hist.begun /\ hist'.ended = hist.ended

\* Recording a failure in the history.
LEMMA FailsType ==
    ASSUME HistOK, NEW f \in BOOLEAN, hist' = Fails(f)
    PROVE  Recorded(f, 0)
  BY DEF HistOK, Histories, Fails, Recorded

\* What hooks drive has the type of an output.
LEMMA OverType ==
    ASSUME NEW f \in [Components -> Values \cup {Keep}],
           NEW C, NEW w \in Driven(C)
    PROVE  Over(f, w) \in [Components -> Values \cup {Keep}]
  BY DEF Over, Driven

\* The initial states satisfy the invariant.
LEMMA InitInv == Init => Inv
  <1> SUFFICES ASSUME Init PROVE Inv  OBVIOUS
  <1>0. HistOK /\ hist.failure = FALSE /\ hist.tainted = FALSE /\ hist.asked = 0
        /\ (\A e \in Clocks : hist.given[e] = 0)
        /\ (\A q \in Clocks \X Resets : hist.held[q] = 0)
        /\ hist.begun = {} /\ \A c \in Components : hist.ended[c] = 0
    BY DEF Init, HistOK, Histories, NewHist
  <1>1. TypeOK
    BY TestbenchAssumption DEF Init, TypeOK, NoEdges, Kinds
  <1>2. Phase
    BY <1>0 DEF Init, Phase, FinishedOnce
  <1>3. Told
    BY <1>0 DEF Init, Told
  <1>4. Ticks
    <2>1. limit # NoLimit => limit \in Nat
      BY TestbenchAssumption DEF Init
    <2>2. time = 0 /\ reached = FALSE /\ edges.left = 0 /\ pc = "initialize"
      BY DEF Init, NoEdges
    <2> QED  BY <1>0, <2>1, <2>2 DEF Ticks, TicksAreCounted
  <1>5. OutputsInSync /\ CyclesCountEdges
    BY DEF Init, OutputsInSync, CyclesCountEdges
  <1> QED  BY <1>0, <1>1, <1>2, <1>3, <1>4, <1>5 DEF Inv

\* Steps that leave the components and the time alone, and the history but for
\* a failure `f' and `k' cycles asked for.
Plain(f, k) ==
  /\ UNCHANGED <<design, runtime, time, limit>>
  /\ edges' \in Loops /\ edges'.left = edges.left + k
  /\ pc' = "statement" => edges'.left = 0
  /\ pc' = "edges" => edges'.clock \in Clocks
  /\ dirty' \in BOOLEAN /\ recorded' \in BOOLEAN
  /\ reached' \in BOOLEAN /\ (reached' => reached \/ (time = limit /\ pc' = "finish"))
  /\ statements' \in Nat
  /\ pending' \subseteq Kinds
  /\ Recorded(f, k)
  /\ UNCHANGED verdict
  /\ pc' \in {"statement", "edges", "finish"}
  /\ result' \in {"continue", "finished", "fail"}

\* A failure of a plain statement is told, and nothing else is.
LEMMA PlainStep ==
    ASSUME Inv, NEW f \in BOOLEAN, NEW k \in Nat, pc \in {"statement", "edges"}, Plain(f, k),
           pc' # "finish" => result' = "continue",
           (pending' # {} \/ recorded' \/ result' = "fail") =
             (f \/ pending # {} \/ recorded)
    PROVE  Inv'
  <1>0. HistOK'
    BY DEF Plain, Recorded
  <1>1. TypeOK'
    BY DEF Inv, TypeOK, Plain, Loops, design, runtime
  <1>2. Phase'
    BY DEF Inv, Phase, FinishedOnce, Plain, Recorded, design, runtime
  <1>3. Told'
    BY DEF Inv, Told, Phase, Plain, Recorded
  <1>4. Ticks'
    <2>1. time \in Nat /\ edges.left \in Nat /\ hist.asked \in Nat
      BY DEF Inv, TypeOK, HistOK, Histories
    <2>2. time' + edges'.left = hist'.asked
      BY <2>1 DEF Inv, Ticks, TicksAreCounted, Plain, Recorded
    <2> QED  BY <2>2 DEF Inv, Ticks, TicksAreCounted, Plain
  <1>5. OutputsInSync' /\ CyclesCountEdges'
    BY DEF Inv, OutputsInSync, CyclesCountEdges, Plain, Recorded, design, runtime
  <1> QED  BY <1>0, <1>1, <1>2, <1>3, <1>4, <1>5 DEF Inv

\* The loop over edges where a statement leaves it alone.
LEMMA LoopStays ==
    ASSUME Inv, pc = "statement", UNCHANGED edges
    PROVE  edges' \in Loops /\ edges'.left = edges.left + 0 /\ edges'.left = 0
  BY DEF Inv, TypeOK, Ticks, Loops

\* Statements whose only effect on the run is the outcome of an evaluation.
LEMMA LookInv == ASSUME Inv, Look PROVE Inv'
  <1>1. PICK o \in Evaluations :
          /\ pending' = pending \cup o.new
          /\ dirty' = (dirty /\ ~o.ok)
          /\ hist' = Fails(Failing(o.ok, o.new))
          /\ IF o.ok THEN Continue ELSE Stop("fail")
    BY DEF Look
  <1>2. o.ok \in BOOLEAN /\ o.new \subseteq Kinds
    BY DEF Evaluations
  <1>3. pc = "statement" /\ result = "continue" /\ statements' \in Nat
    BY DEF Inv, Phase, TypeOK, Look, Statement, More
  <1>4. Plain(Failing(o.ok, o.new), 0)
    <2>1. Recorded(Failing(o.ok, o.new), 0)
      BY <1>1, <1>2, FailsType DEF Inv, Failing
    <2>2. UNCHANGED edges
      BY DEF Look
    <2>3. edges' \in Loops /\ edges'.left = edges.left + 0 /\ edges'.left = 0
      BY <1>3, <2>2, LoopStays
    <2> QED  BY <1>1, <1>2, <1>3, <2>1, <2>3 DEF Plain, Look, Inv, TypeOK, Continue, Stop, context
  <1>5. (pending' # {} \/ recorded' \/ result' = "fail") =
             (Failing(o.ok, o.new) \/ pending # {} \/ recorded)
    BY <1>1, <1>2, <1>3 DEF Failing, Look, Continue, Stop
  <1> QED  BY <1>1, <1>2, <1>3, <1>4, <1>5, PlainStep DEF Failing, Continue, Stop

\* Statements that store.
LEMMA StoreInv == ASSUME Inv, Store PROVE Inv'
  <1>1. PICK evaluates \in BOOLEAN : \E o \in EvaluationsIf(evaluates) :
          /\ pending' = pending \cup o.new
          /\ dirty' = (dirty \/ o.ok)
          /\ hist' = Fails(Failing(o.ok, o.new))
          /\ IF o.ok THEN Continue ELSE Stop("fail")
    BY DEF Store
  <1>6. PICK o \in EvaluationsIf(evaluates) :
          /\ pending' = pending \cup o.new
          /\ dirty' = (dirty \/ o.ok)
          /\ hist' = Fails(Failing(o.ok, o.new))
          /\ IF o.ok THEN Continue ELSE Stop("fail")
    BY <1>1
  <1>2. o.ok \in BOOLEAN /\ o.new \subseteq Kinds
    BY EvaluationType
  <1>3. pc = "statement" /\ result = "continue" /\ statements' \in Nat
    BY DEF Inv, Phase, TypeOK, Store, Statement, More
  <1>4. Plain(Failing(o.ok, o.new), 0)
    <2>1. Recorded(Failing(o.ok, o.new), 0)
      BY <1>6, <1>2, FailsType DEF Inv, Failing
    <2>2. UNCHANGED edges
      BY DEF Store
    <2>3. edges' \in Loops /\ edges'.left = edges.left + 0 /\ edges'.left = 0
      BY <1>3, <2>2, LoopStays
    <2> QED  BY <1>6, <1>2, <1>3, <2>1, <2>3 DEF Plain, Store, Inv, TypeOK, Continue, Stop, context
  <1>5. (pending' # {} \/ recorded' \/ result' = "fail") =
             (Failing(o.ok, o.new) \/ pending # {} \/ recorded)
    BY <1>6, <1>2, <1>3 DEF Failing, Store, Continue, Stop
  <1> QED  BY <1>6, <1>2, <1>3, <1>4, <1>5, PlainStep DEF Failing, Continue, Stop

\* A For loop that fails.
LEMMA ForFailsInv == ASSUME Inv, ForFails PROVE Inv'
  <1>1. pc = "statement" /\ statements' \in Nat
    BY DEF Inv, TypeOK, ForFails, Statement, More
  <1>2. Plain(TRUE, 0)
    <2>1. Recorded(TRUE, 0)
      BY FailsType DEF ForFails, Inv
    <2>2. UNCHANGED edges
      BY DEF ForFails
    <2>3. edges' \in Loops /\ edges'.left = edges.left + 0 /\ edges'.left = 0
      BY <1>1, <2>2, LoopStays
    <2> QED  BY <1>1, <2>1, <2>3 DEF Plain, ForFails, Inv, TypeOK, Stop, context
  <1> QED  BY <1>1, <1>2, PlainStep DEF ForFails, Stop

\* $finish.
LEMMA FinishInv == ASSUME Inv, Finish PROVE Inv'
  <1>1. pc = "statement" /\ result = "continue" /\ statements' \in Nat
    BY DEF Inv, Phase, TypeOK, Finish, Statement, More
  <1>2. hist' = Fails(FALSE)
    BY DEF Finish, Fails, Inv, HistOK, Histories
  <1>3. Plain(FALSE, 0)
    <2>1. Recorded(FALSE, 0)
      BY <1>2, FailsType DEF Inv
    <2>2. UNCHANGED edges
      BY DEF Finish
    <2>3. edges' \in Loops /\ edges'.left = edges.left + 0 /\ edges'.left = 0
      BY <1>1, <2>2, LoopStays
    <2> QED  BY <1>1, <1>2, <2>1, <2>3 DEF Plain, Finish, Inv, TypeOK, Stop, context
  <1> QED  BY <1>1, <1>3, PlainStep DEF Finish, Stop

\* The end of the statements.
LEMMA EndOfTestbenchInv == ASSUME Inv, EndOfTestbench PROVE Inv'
  <1>1. pc = "statement" /\ result = "continue"
    BY DEF Inv, Phase, EndOfTestbench
  <1>2. hist' = Fails(FALSE)
    BY DEF EndOfTestbench, Fails, Inv, HistOK, Histories
  <1>3. Plain(FALSE, 0)
    <2>1. Recorded(FALSE, 0)
      BY <1>2, FailsType DEF Inv
    <2>2. UNCHANGED edges
      BY DEF EndOfTestbench
    <2>3. edges' \in Loops /\ edges'.left = edges.left + 0 /\ edges'.left = 0
      BY <1>1, <2>2, LoopStays
    <2> QED  BY <1>1, <1>2, <2>1, <2>3 DEF Plain, EndOfTestbench, Inv, TypeOK, Stop, context
  <1> QED  BY <1>1, <1>3, PlainStep DEF EndOfTestbench, Stop

\* The limit is reached exactly.
LEMMA LimitReachedInv == ASSUME Inv, LimitReached PROVE Inv'
  <1>1. pc \in {"statement", "edges"} /\ result = "continue"
    BY DEF Inv, Phase, LimitReached, More
  <1>2. hist' = Fails(FALSE)
    BY DEF LimitReached, Fails, Inv, HistOK, Histories
  <1>3. time = limit
    BY TestbenchAssumption DEF LimitReached, AtLimit, Inv, TypeOK, Ticks, TicksAreCounted
  <1>4. Plain(FALSE, 0)
    <2>1. Recorded(FALSE, 0)
      BY <1>2, FailsType DEF Inv
    <2>2. edges' \in Loops /\ edges'.left = edges.left + 0
      BY DEF LimitReached, Inv, TypeOK, Loops
    <2> QED  BY <1>1, <1>3, <2>1, <2>2 DEF Plain, LimitReached, Inv, TypeOK, Stop
  <1> QED  BY <1>1, <1>4, PlainStep DEF LimitReached, Stop

\* A failed assertion ends up among the assertions or in the result.
LEMMA AssertFailsInv == ASSUME Inv, AssertFails PROVE Inv'
  <1>1. pc = "statement" /\ result = "continue" /\ statements' \in Nat
    BY DEF Inv, Phase, TypeOK, AssertFails, Statement, More
  <1>2. PICK o \in Evaluations :
          \/ /\ o.ok /\ recorded' = TRUE /\ pending' = {} /\ dirty' = FALSE
             /\ Stop("fail") \/ Continue
          \/ /\ ~o.ok /\ pending' = pending \cup o.new
             /\ Stop("fail") /\ UNCHANGED <<dirty, recorded>>
    BY DEF AssertFails
  <1>3. o.ok \in BOOLEAN /\ o.new \subseteq Kinds
    BY DEF Evaluations
  <1>4. Plain(TRUE, 0)
    <2>1. Recorded(TRUE, 0)
      BY FailsType DEF AssertFails, Inv
    <2>2. UNCHANGED edges
      BY DEF AssertFails
    <2>3. edges' \in Loops /\ edges'.left = edges.left + 0 /\ edges'.left = 0
      BY <1>1, <2>2, LoopStays
    <2> QED  BY <1>1, <1>2, <1>3, <2>1, <2>3 DEF Plain, AssertFails, Inv, TypeOK, Stop, Continue, context
  <1>5. recorded' \/ result' = "fail"
    BY <1>2 DEF Stop
  <1>6. pc' # "finish" => result' = "continue"
    BY <1>1, <1>2 DEF Stop, Continue
  <1>7. (pending' # {} \/ recorded' \/ result' = "fail") = (TRUE \/ pending # {} \/ recorded)
    BY <1>5
  <1> QED  BY <1>1, <1>4, <1>6, <1>7, PlainStep

\* The head of ClockNext and ResetAssert.
LEMMA StartEdgesInv == ASSUME Inv, StartEdges PROVE Inv'
  <1>1. pc = "statement" /\ result = "continue" /\ statements' \in Nat
    BY DEF Inv, Phase, TypeOK, StartEdges, Statement, More
  <1>2. PICK clock \in Clocks, generator \in Generators \cup {None}, n \in Counts,
             dynamic \in BOOLEAN :
          \E o \in EvaluationsIf(dynamic) :
            /\ generator # None => generator.clock = clock
            /\ pending' = pending \cup o.new
            /\ IF o.ok
               THEN /\ edges' = [clock |-> clock, generator |-> generator,
                                 left |-> Duration(generator # None, n)]
                    /\ dirty' = (generator # None \/ (dirty /\ ~dynamic))
                    /\ hist' = [Fails(o.new # {}) EXCEPT !.asked = @ + Duration(generator # None, n)]
                    /\ pc' = "edges" /\ UNCHANGED <<result, verdict>>
               ELSE Stop("fail") /\ hist' = Fails(TRUE) /\ UNCHANGED <<edges, dirty>>
    BY DEF StartEdges
  <1>3. PICK o \in EvaluationsIf(dynamic) :
            /\ generator # None => generator.clock = clock
            /\ pending' = pending \cup o.new
            /\ IF o.ok
               THEN /\ edges' = [clock |-> clock, generator |-> generator,
                                 left |-> Duration(generator # None, n)]
                    /\ dirty' = (generator # None \/ (dirty /\ ~dynamic))
                    /\ hist' = [Fails(o.new # {}) EXCEPT !.asked = @ + Duration(generator # None, n)]
                    /\ pc' = "edges" /\ UNCHANGED <<result, verdict>>
               ELSE Stop("fail") /\ hist' = Fails(TRUE) /\ UNCHANGED <<edges, dirty>>
    BY <1>2
  <1>4. o.ok \in BOOLEAN /\ o.new \subseteq Kinds
    BY EvaluationType
  <1>5. PICK cycle \in Nat : cycle = Duration(generator # None, n)
    BY TestbenchAssumption DEF Duration
  <1>6. UNCHANGED <<design, runtime, time, context, recorded>>
    BY DEF StartEdges
  <1>7. CASE o.ok
    <2>1. Recorded(o.new # {}, cycle)
      <3>1. PICK f \in BOOLEAN : f = (o.new # {})
        OBVIOUS
      <3>2. hist \in Histories /\ hist' = [Fails(f) EXCEPT !.asked = @ + cycle]
        BY <1>3, <1>5, <1>7, <3>1 DEF Inv, HistOK
      <3>3. Recorded(f, cycle)
        <4>1. PICK h : h = Fails(f)
          OBVIOUS
        <4>2. /\ h \in Histories /\ h.failure = (hist.failure \/ f) /\ h.tainted = hist.tainted
              /\ h.asked = hist.asked /\ h.given = hist.given /\ h.held = hist.held
              /\ h.begun = hist.begun /\ h.ended = hist.ended
          BY <3>2, <4>1 DEF Fails, Histories
        <4>3. hist' = [h EXCEPT !.asked = @ + cycle]
          BY <3>2, <4>1
        <4>4. /\ hist' \in Histories /\ hist'.failure = h.failure /\ hist'.tainted = h.tainted
              /\ hist'.asked = h.asked + cycle /\ hist'.given = h.given /\ hist'.held = h.held
              /\ hist'.begun = h.begun /\ hist'.ended = h.ended
          BY <4>2, <4>3 DEF Histories
        <4> QED  BY <4>2, <4>4 DEF Recorded, HistOK
      <3> QED  BY <3>1, <3>3
    <2>2. edges.left = 0
      BY <1>1 DEF Inv, Ticks
    <2>3. /\ edges' \in Loops /\ edges'.left = edges.left + cycle
          /\ edges'.clock \in Clocks
      BY <1>3, <1>5, <1>7, <2>2 DEF Loops
    <2>4. Plain(o.new # {}, cycle)
      BY <1>1, <1>3, <1>4, <1>6, <1>7, <2>1, <2>3 DEF Plain, Inv, TypeOK, context
    <2>5. (pending' # {} \/ recorded' \/ result' = "fail") =
             (o.new # {} \/ pending # {} \/ recorded)
      BY <1>1, <1>3, <1>4, <1>6, <1>7
    <2>6. pc' # "finish" => result' = "continue"
      BY <1>1, <1>3, <1>7
    <2> QED  BY <1>1, <2>4, <2>5, <2>6, PlainStep
  <1>8. CASE ~o.ok
    <2>1. Recorded(TRUE, 0)
      BY <1>3, <1>8, FailsType DEF Inv
    <2>2. edges' \in Loops /\ edges'.left = edges.left + 0 /\ edges'.left = 0
      BY <1>1, <1>3, <1>8, LoopStays
    <2>3. Plain(TRUE, 0)
      BY <1>1, <1>3, <1>4, <1>6, <1>8, <2>1, <2>2 DEF Plain, Inv, TypeOK, Stop, context
    <2>4. (pending' # {} \/ recorded' \/ result' = "fail") =
             (TRUE \/ pending # {} \/ recorded)
      BY <1>3, <1>8 DEF Stop
    <2>5. pc' = "finish"
      BY <1>3, <1>8 DEF Stop
    <2> QED  BY <1>1, <2>3, <2>4, <2>5, PlainStep
  <1> QED  BY <1>4, <1>7, <1>8

\* The end of ClockNext and ResetAssert.
LEMMA EdgesDoneInv == ASSUME Inv, EdgesDone PROVE Inv'
  <1>1. pc = "edges" /\ result = "continue"
    BY DEF Inv, Phase, EdgesDone
  <1>2. hist' = Fails(FALSE)
    BY DEF EdgesDone, Fails, Inv, HistOK, Histories
  <1>3. Plain(FALSE, 0)
    <2>1. Recorded(FALSE, 0)
      BY <1>2, FailsType DEF Inv
    <2>2. edges' \in Loops /\ edges'.left = edges.left + 0 /\ edges'.left = 0
      BY DEF EdgesDone, Loops, NoEdges
    <2> QED  BY <1>1, <2>1, <2>2 DEF Plain, EdgesDone, Inv, TypeOK, Continue, context
  <1>4. UNCHANGED <<pending, recorded, result>>
    BY DEF EdgesDone, Continue
  <1>5. (pending' # {} \/ recorded' \/ result' = "fail") = (FALSE \/ pending # {} \/ recorded)
    BY <1>1, <1>4
  <1> QED  BY <1>1, <1>3, <1>4, <1>5, PlainStep

\* A batch never goes beyond the limit, nor beyond what is left.
LEMMA BatchBound ==
    ASSUME Inv, pc = "edges", edges.left > 0, ~AtLimit
    PROVE  /\ Batch \in Nat /\ 1 <= Batch /\ Batch <= edges.left
           /\ limit # NoLimit => limit \in Nat /\ time + Batch <= limit
  <1>1. edges.left \in Nat /\ time \in Nat /\ (limit # NoLimit => limit \in Nat)
    BY TestbenchAssumption DEF Inv, TypeOK
  <1> QED  BY <1>1 DEF AtLimit, Batch

\* What the history says of a cycle that triggered the events in T.
Counted(T) ==
  /\ \A e \in Clocks : hist'.given[e] = hist.given[e] + IF e \in T THEN 1 ELSE 0
  /\ \A q \in Clocks \X Resets :
       hist'.held[q] = hist.held[q] + IF q[1] \in T /\ q[2] = ActiveReset THEN 1 ELSE 0

\* The history after an edge.
LEMMA GivenType ==
    ASSUME HistOK, NEW T, NEW f \in BOOLEAN,
           hist' = [Given(T) EXCEPT !.failure = @ \/ f]
    PROVE  /\ HistOK' /\ Counted(T)
           /\ hist'.failure = (hist.failure \/ f)
           /\ hist'.tainted = hist.tainted /\ hist'.begun = hist.begun
           /\ hist'.ended = hist.ended /\ hist'.asked = hist.asked
  <1> PICK given : given = [e \in Clocks |-> hist.given[e] + IF e \in T THEN 1 ELSE 0]
    OBVIOUS
  <1> PICK held : held = [q \in Clocks \X Resets |->
                     hist.held[q] + IF q[1] \in T /\ q[2] = ActiveReset THEN 1 ELSE 0]
    OBVIOUS
  <1>1. hist \in Histories /\ hist.given \in [Clocks -> Nat] /\ hist.held \in [Clocks \X Resets -> Nat]
    BY DEF HistOK, Histories
  <1>2. given \in [Clocks -> Nat] /\ held \in [Clocks \X Resets -> Nat]
    BY <1>1
  <1>3. Given(T) = [hist EXCEPT !.given = given, !.held = held]
    BY DEF Given
  <1>4. hist' = [[hist EXCEPT !.given = given, !.held = held] EXCEPT !.failure = @ \/ f]
    BY <1>3
  <1>5. /\ hist' \in Histories /\ hist'.failure = (hist.failure \/ f)
        /\ hist'.given = given /\ hist'.held = held
        /\ hist'.tainted = hist.tainted /\ hist'.begun = hist.begun
        /\ hist'.ended = hist.ended /\ hist'.asked = hist.asked
    BY <1>1, <1>2, <1>4 DEF Histories
  <1> QED  BY <1>5 DEF HistOK, Counted

\* The common tail of an edge keeps everything but the components' facts.
LEMMA AfterEdgesInv ==
    ASSUME Inv, pc = "edges", edges.left > 0, ~AtLimit, NEW n \in Nat,
           NEW ok \in BOOLEAN, NEW new \in SUBSET Kinds, NEW mark \in BOOLEAN, NEW T,
           AfterEdges(n, ok, new, mark, T), UNCHANGED live, wants' \in BOOLEAN,
           out' \in [Components -> Values \cup {Keep}],
           mem' \in [Components -> Values \cup {Keep}],
           cycles' \in [Components -> Nat]
    PROVE  /\ TypeOK' /\ HistOK' /\ Phase' /\ Told' /\ Ticks'
           /\ UNCHANGED design
           /\ pc' \in {"edges", "finish", "done"} /\ (pc' = "edges" => ok /\ Counted(T))
 <1>a. /\ Batch \in Nat /\ Batch <= edges.left
       /\ limit # NoLimit => limit \in Nat /\ time + Batch <= limit
   BY BatchBound
 <1>b. result = "continue" /\ verdict = "none" /\ ~reached /\ live = bench.used
   BY DEF Inv, Phase, TypeOK, Ticks
 <1>c. /\ UNCHANGED <<bench, observers, statements, limit, reached>>
   BY DEF AfterEdges, design, context
 <1>d. CASE ~ValidProgress(n)
  <2>1. /\ pc' = "finish" /\ result' = "fail" /\ verdict' = "none" /\ hist' = Fails(TRUE)
        /\ pending' \subseteq Kinds /\ dirty' \in BOOLEAN /\ UNCHANGED <<time, edges, recorded>>
    BY <1>b, <1>d DEF AfterEdges, Stop, Inv, TypeOK
  <2>2. Recorded(TRUE, 0)
    BY <2>1, FailsType DEF Inv
  <2>3. TypeOK' /\ Phase'
    BY <1>b, <1>c, <2>1, <2>2 DEF Inv, TypeOK, Phase, FinishedOnce, Recorded
  <2>4. Told'
    BY <1>b, <1>c, <2>1, <2>2 DEF Inv, Told, Recorded
  <2>5. Ticks'
    <3>1. hist.asked \in Nat
      BY DEF Inv, HistOK, Histories
    <3>2. hist'.asked = hist.asked
      BY <2>2, <3>1 DEF Recorded
    <3> QED  BY <1>b, <1>c, <2>1, <3>2 DEF Inv, Ticks, TicksAreCounted
  <2> QED  BY <1>c, <2>1, <2>2, <2>3, <2>4, <2>5 DEF Recorded, design
 <1>e. CASE ValidProgress(n)
  <2>0. n <= edges.left /\ (limit # NoLimit => limit \in Nat /\ time + n <= limit)
    BY <1>a, <1>e DEF ValidProgress, Inv, TypeOK
  <2>4. time' = time + n /\ edges' = [edges EXCEPT !.left = @ - n]
    BY <1>e DEF AfterEdges
  <2>1. PICK o \in EvaluationsIf(observers /\ mark) :
          /\ hist' = [Given(T) EXCEPT !.failure = @ \/ Failing(ok, new) \/ Failing(o.ok, o.new)]
          /\ IF o.ok
             THEN /\ recorded' = (recorded \/ (pending \cup new \cup o.new) # {})
                  /\ pending' = {}
                  /\ dirty' = (mark /\ ~observers)
                  /\ IF ~ok \/ "fatal" \in (pending \cup new \cup o.new) THEN Stop("fail")
                     ELSE IF wants' THEN Stop("finished")
                     ELSE pc' = "edges" /\ UNCHANGED <<result, verdict>>
             ELSE /\ Panic
                  /\ pending' = pending \cup new \cup o.new /\ dirty' = mark
                  /\ UNCHANGED recorded
    BY <1>e DEF AfterEdges
  <2>2. o.ok \in BOOLEAN /\ o.new \subseteq Kinds
    BY EvaluationType DEF Inv, TypeOK
  <2>5. /\ HistOK' /\ Counted(T)
        /\ hist'.failure = (hist.failure \/ Failing(ok, new) \/ Failing(o.ok, o.new))
        /\ hist'.tainted = hist.tainted /\ hist'.begun = hist.begun
        /\ hist'.ended = hist.ended /\ hist'.asked = hist.asked
    <3>1. PICK f \in BOOLEAN : f = (Failing(ok, new) \/ Failing(o.ok, o.new))
      BY <2>2 DEF Failing
    <3>2. hist' = [Given(T) EXCEPT !.failure = @ \/ f]
      BY <2>1, <3>1
    <3>3. /\ HistOK' /\ Counted(T) /\ hist'.failure = (hist.failure \/ f)
          /\ hist'.tainted = hist.tainted /\ hist'.begun = hist.begun
          /\ hist'.ended = hist.ended /\ hist'.asked = hist.asked
      BY <3>1, <3>2, GivenType DEF Inv
    <3> QED  BY <3>1, <3>3
  <2>6. /\ edges' \in Loops /\ edges'.left = edges.left - n /\ time' \in Nat
        /\ edges'.clock = edges.clock
    BY <2>0, <2>4 DEF Inv, TypeOK, Loops
  <2>7. /\ pc' \in {"edges", "finish", "done"} /\ (pc' = "edges" => ok)
        /\ result' \in {"continue", "finished", "fail"}
        /\ (pc' = "edges" => result' = "continue")
        /\ verdict' = IF pc' = "done" THEN "panic" ELSE "none"
        /\ pending' \subseteq Kinds /\ recorded' \in BOOLEAN /\ dirty' \in BOOLEAN
    BY <2>1, <2>2, <1>b DEF Stop, Panic, Inv, TypeOK
  <2>8. TypeOK'
    BY <1>b, <1>c, <2>6, <2>7 DEF Inv, TypeOK, Loops
  <2>9. Phase'
    BY <1>b, <1>c, <2>5, <2>7 DEF Inv, Phase, FinishedOnce
  <2>10. Told'
    <3>1. CASE o.ok
      BY <3>1, <2>1, <2>2, <1>b, <2>5, <2>7 DEF Inv, Told, Failing, Stop
    <3>2. CASE ~o.ok
      BY <3>2, <2>1, <2>2, <1>b, <2>5, <2>7 DEF Inv, Told, Failing, Panic
    <3> QED  BY <3>1, <3>2
  <2>11. Ticks'
    <3>1. time \in Nat /\ edges.left \in Nat /\ hist.asked \in Nat
      BY DEF Inv, TypeOK, HistOK, Histories
    <3>2. time' + edges'.left = hist'.asked
      BY <2>0, <2>4, <2>5, <2>6, <3>1 DEF Inv, Ticks, TicksAreCounted
    <3> QED  BY <1>b, <1>c, <2>0, <2>4, <2>6, <2>7, <3>1, <3>2 DEF Inv, Ticks, TicksAreCounted
  <2> QED  BY <1>c, <2>5, <2>7, <2>8, <2>9, <2>10, <2>11 DEF design
 <1> QED  BY <1>d, <1>e

\* Edges without scheduled components: no live one counts them.
LEMMA BackendEdgesInv == ASSUME Inv, BackendEdges PROVE Inv'
  <1>1. /\ pc = "edges" /\ edges.left > 0 /\ ~AtLimit /\ Scheduled = {}
        /\ UNCHANGED <<live, out, cycles, wants, mem>>
    BY DEF BackendEdges, runtime
  <1>2. PICK n \in IF observers \/ ~dirty THEN {1} ELSE 0..(Batch + 1),
             ok \in BOOLEAN, new \in SUBSET Kinds, mark \in BOOLEAN :
               AfterEdges(n, ok, new, mark, {})
    BY DEF BackendEdges
  <1>3. n \in Nat
    BY <1>1, BatchBound
  <1>4. /\ TypeOK' /\ HistOK' /\ Phase' /\ Told' /\ Ticks' /\ UNCHANGED design
        /\ pc' \in {"edges", "finish", "done"}
    BY <1>1, <1>2, <1>3, AfterEdgesInv DEF Inv, TypeOK
  <1>5. OutputsInSync'
    BY <1>1, <1>4 DEF Inv, OutputsInSync
  <1>6. CyclesCountEdges'
    BY <1>1, <1>4 DEF CyclesCountEdges, Scheduled, design
  <1> QED  BY <1>4, <1>5, <1>6 DEF Inv

\* What a firing leaves when no hook fails, and that an error ends the run.
LEMMA FireInv ==
    ASSUME Inv, pc = "edges", edges.left > 0, ~AtLimit, UNCHANGED live, NEW T,
           NEW ok \in BOOLEAN, NEW new \in SUBSET Kinds, Fire(T, ok, new)
    PROVE  Inv'
  <1>0. PICK clocked : clocked = {c \in Scheduled : bench.clock[c] \in T}
    OBVIOUS
  <1>8. PICK C : C = clocked \cup {c \in Scheduled : bench.reset[c] \in T}
    OBVIOUS
  <1>1. PICK w \in Driven(C), failed \in BOOLEAN, mark \in BOOLEAN :
          /\ out' = Over(out, w)
          /\ cycles' = [c \in Components |->
                          cycles[c] + IF c \in clocked \ OnReset(clocked) THEN 1 ELSE 0]
          /\ wants' \in {wants, TRUE}
          /\ failed => ~ok
          /\ IF failed THEN UNCHANGED mem ELSE Applies(w)
          /\ AfterEdges(1, ok, new, mark, T)
    BY <1>0, <1>8 DEF Fire
  <1>2. /\ out' \in [Components -> Values \cup {Keep}]
        /\ mem' \in [Components -> Values \cup {Keep}]
        /\ cycles' \in [Components -> Nat] /\ wants' \in BOOLEAN
    <2>1. out \in [Components -> Values \cup {Keep}] /\ mem \in [Components -> Values \cup {Keep}]
      BY DEF Inv, TypeOK
    <2>2. /\ Over(out, w) \in [Components -> Values \cup {Keep}]
          /\ Over(mem, w) \in [Components -> Values \cup {Keep}]
      BY <2>1, OverType
    <2>3. cycles' \in [Components -> Nat] /\ wants' \in BOOLEAN
      <3>1. cycles \in [Components -> Nat] /\ wants \in BOOLEAN
        BY DEF Inv, TypeOK
      <3>2. cycles' \in [Components -> Nat]
        BY <1>1, <3>1
      <3>3. wants' \in BOOLEAN
        BY <1>1, <3>1, Zenon
      <3> QED  BY <3>2, <3>3
    <2> QED  BY <1>1, <2>1, <2>2, <2>3 DEF Applies
  <1>4. /\ TypeOK' /\ HistOK' /\ Phase' /\ Told' /\ Ticks' /\ UNCHANGED design
        /\ pc' \in {"edges", "finish", "done"} /\ (pc' = "edges" => ok /\ Counted(T))
    BY <1>1, <1>2, AfterEdgesInv
  <1>5. bench \in Benches /\ live \subseteq Components
    BY TestbenchAssumption DEF Inv, TypeOK
  <1>6. OutputsInSync'
    <2>1. SUFFICES ASSUME pc' = "edges", NEW c \in live, out'[c] # Keep PROVE mem'[c] = out'[c]
      BY <1>4 DEF OutputsInSync
    <2>2. mem' = Over(mem, w) /\ out' = Over(out, w)
      BY <1>1, <1>4, <2>1 DEF Applies
    <2>3. out[c] # Keep => mem[c] = out[c]
      BY <2>1 DEF Inv, OutputsInSync
    <2> QED  BY <1>5, <2>1, <2>2, <2>3 DEF Over
  <1>7. CyclesCountEdges'
    <2>1. SUFFICES ASSUME pc' = "edges", NEW c \in live, bench.clock[c] # None
                   PROVE  cycles'[c] = hist'.given[bench.clock[c]] -
                            IF bench.reset[c] = None THEN 0
                            ELSE hist'.held[<<bench.clock[c], bench.reset[c]>>]
      BY <1>4 DEF CyclesCountEdges, design
    <2>2. PICK e \in Clocks, q \in Resets \cup {None} : e = bench.clock[c] /\ q = bench.reset[c]
      BY <1>5, <2>1, TestbenchAssumption
    <2>3. cycles[c] = hist.given[e] - IF q = None THEN 0 ELSE hist.held[<<e, q>>]
      BY <2>1, <2>2 DEF Inv, CyclesCountEdges
    <2>4. /\ hist.given[e] \in Nat /\ (q # None => hist.held[<<e, q>>] \in Nat)
          /\ c \in Components /\ cycles[c] \in Nat
      BY <1>5, <2>2 DEF Inv, TypeOK, HistOK, Histories
    <2>5. c \in clocked <=> e \in T
      BY <1>0, <2>1, <2>2 DEF Scheduled
    <2>6. cycles'[c] = cycles[c] +
                         IF e \in T /\ ~(ActiveReset # None /\ q = ActiveReset) THEN 1 ELSE 0
      BY <1>1, <2>2, <2>4, <2>5 DEF OnReset
    <2>7. hist'.given[e] = hist.given[e] + IF e \in T THEN 1 ELSE 0
      BY <1>4, <2>1 DEF Counted
    <2>8. CASE q = None
      BY <2>2, <2>3, <2>4, <2>6, <2>7, <2>8
    <2>9. CASE q # None
      <3>1. <<e, q>> \in Clocks \X Resets /\ <<e, q>>[1] = e /\ <<e, q>>[2] = q
        BY <2>2, <2>9
      <3>2. PICK p \in Clocks \X Resets : p = <<e, q>>
        BY <3>1
      <3>3. hist'.held[p] = hist.held[p] + IF p[1] \in T /\ p[2] = ActiveReset THEN 1 ELSE 0
        BY <1>4, <2>1 DEF Counted
      <3>4. hist'.held[<<e, q>>] =
              hist.held[<<e, q>>] + IF e \in T /\ q = ActiveReset THEN 1 ELSE 0
        BY <3>1, <3>2, <3>3
      <3> QED  BY <2>2, <2>3, <2>4, <2>6, <2>7, <2>9, <3>4
    <2> QED  BY <2>8, <2>9
  <1> QED  BY <1>4, <1>6, <1>7 DEF Inv

\* An edge with scheduled components.
LEMMA ComponentEdgeInv == ASSUME Inv, ComponentEdge PROVE Inv'
  <1>1. pc = "edges" /\ edges.left > 0 /\ ~AtLimit
    BY DEF ComponentEdge
  <1>2. CASE UNCHANGED runtime /\ \E o \in EvaluationsIf(dirty) :
               ~o.ok /\ AfterEdges(1, FALSE, o.new, TRUE, {})
    <2>1. PICK o \in EvaluationsIf(dirty) : AfterEdges(1, FALSE, o.new, TRUE, {})
      BY <1>2
    <2>2. o.new \in SUBSET Kinds
      BY EvaluationType DEF Inv, TypeOK
    <2>3. UNCHANGED <<live, out, cycles, wants, mem>>
      BY <1>2 DEF runtime
    <2>4. /\ out' \in [Components -> Values \cup {Keep}]
          /\ mem' \in [Components -> Values \cup {Keep}]
          /\ cycles' \in [Components -> Nat] /\ wants' \in BOOLEAN
      BY <2>3 DEF Inv, TypeOK
    <2>5. /\ TypeOK' /\ HistOK' /\ Phase' /\ Told' /\ Ticks'
          /\ pc' \in {"edges", "finish", "done"} /\ (pc' = "edges" => FALSE)
      <3>1. 1 \in Nat /\ FALSE \in BOOLEAN /\ TRUE \in BOOLEAN
        OBVIOUS
      <3>2. /\ TypeOK' /\ HistOK' /\ Phase' /\ Told' /\ Ticks'
            /\ pc' \in {"edges", "finish", "done"} /\ (pc' = "edges" => FALSE /\ Counted({}))
        BY <1>1, <2>1, <2>2, <2>3, <2>4, <3>1, AfterEdgesInv
      <3> QED  BY <3>2
    <2> QED  BY <2>5 DEF Inv, OutputsInSync, CyclesCountEdges
  <1>3. CASE UNCHANGED live /\ \E T \in SUBSET Triggers, new \in SUBSET Kinds, ok \in BOOLEAN :
               Fire(T, ok, new)
    BY <1>1, <1>3, FireInv
  <1> QED  BY <1>2, <1>3 DEF ComponentEdge

\* A method call: its failure is the result, its writes are applied together.
LEMMA ComponentMethodInv == ASSUME Inv, ComponentMethod PROVE Inv'
  <1>1. pc = "statement" /\ result = "continue" /\ statements' \in Nat
    BY DEF Inv, Phase, TypeOK, ComponentMethod, Statement, More
  <1>2. /\ UNCHANGED <<bench, observers, edges, time, limit, reached, recorded>>
    BY DEF ComponentMethod, design, context
  <1>3. PICK c \in live, o \in EvaluationsIf(dirty) :
       /\ pending' = pending \cup o.new
       /\ \/ /\ ~o.ok
             /\ Stop("fail") /\ hist' = Fails(TRUE)
             /\ UNCHANGED <<runtime, dirty>>
          \/ /\ o.ok
             /\ \E w \in Driven({c}), ok \in BOOLEAN, badReturn \in BOOLEAN, stores \in BOOLEAN :
                  /\ out' = Over(out, w)
                  /\ wants' \in {wants, TRUE}
                  /\ IF ok THEN Applies(w) ELSE UNCHANGED mem
                  /\ hist' = Fails(~ok \/ o.new # {} \/ (badReturn /\ ~wants'))
                  /\ dirty' = (ok /\ (w[c] # Keep \/ (stores /\ ~badReturn /\ ~wants')))
                  /\ IF ~ok THEN Stop("fail")
                     ELSE IF wants' THEN Stop("finished")
                     ELSE IF badReturn THEN Stop("fail") ELSE Continue
             /\ UNCHANGED <<live, cycles>>
    BY DEF ComponentMethod
  <1>4. o.ok \in BOOLEAN /\ o.new \subseteq Kinds
    BY EvaluationType DEF Inv, TypeOK
  <1>5. CASE ~o.ok
    <2>2. Recorded(TRUE, 0)
      BY <1>3, <1>5, FailsType DEF Inv
    <2>3. edges' \in Loops /\ edges'.left = edges.left + 0 /\ edges'.left = 0
      BY <1>1, <1>2, LoopStays
    <2>1. Plain(TRUE, 0)
      BY <1>1, <1>2, <1>3, <1>4, <1>5, <2>2, <2>3 DEF Plain, Inv, TypeOK, Stop, design
    <2> QED  BY <1>1, <1>3, <1>5, <2>1, PlainStep DEF Stop
  <1>6. CASE o.ok
    <2>1. PICK w \in Driven({c}), ok \in BOOLEAN, badReturn \in BOOLEAN, stores \in BOOLEAN :
                  /\ out' = Over(out, w)
                  /\ wants' \in {wants, TRUE}
                  /\ IF ok THEN Applies(w) ELSE UNCHANGED mem
                  /\ hist' = Fails(~ok \/ o.new # {} \/ (badReturn /\ ~wants'))
                  /\ dirty' = (ok /\ (w[c] # Keep \/ (stores /\ ~badReturn /\ ~wants')))
                  /\ IF ~ok THEN Stop("fail")
                     ELSE IF wants' THEN Stop("finished")
                     ELSE IF badReturn THEN Stop("fail") ELSE Continue
      BY <1>3, <1>6
    <2>2. UNCHANGED <<live, cycles>>
      BY <1>3, <1>6
    <2> DEFINE f == ~ok \/ o.new # {} \/ (badReturn /\ ~wants')
    <2>3. f \in BOOLEAN /\ hist' = Fails(f)
      BY <2>1
    <2>4. /\ HistOK' /\ hist'.failure = (hist.failure \/ f)
          /\ hist'.tainted = hist.tainted /\ hist'.asked = hist.asked
          /\ hist'.given = hist.given /\ hist'.held = hist.held
          /\ hist'.begun = hist.begun /\ hist'.ended = hist.ended
      <3>1. hist.asked + 0 = hist.asked
        BY DEF Inv, HistOK, Histories
      <3> QED  BY <2>3, <3>1, FailsType DEF Inv, Recorded
    <2>5. wants' \in BOOLEAN
      <3>1. wants \in BOOLEAN
        BY DEF Inv, TypeOK
      <3> QED  BY <2>1, <3>1, Zenon
    <2>6. /\ out' \in [Components -> Values \cup {Keep}]
          /\ mem' \in [Components -> Values \cup {Keep}]
      <3>1. out \in [Components -> Values \cup {Keep}] /\ mem \in [Components -> Values \cup {Keep}]
        BY DEF Inv, TypeOK
      <3>2. /\ Over(out, w) \in [Components -> Values \cup {Keep}]
            /\ Over(mem, w) \in [Components -> Values \cup {Keep}]
        BY <3>1, OverType
      <3> QED  BY <2>1, <3>1, <3>2 DEF Applies
    <2>7. /\ pc' \in {"statement", "finish"} /\ UNCHANGED verdict
          /\ result' \in {"continue", "finished", "fail"}
          /\ (pc' = "statement" => result' = "continue" /\ ok)
          /\ (result' = "fail" => f)
          /\ (f => result' = "fail" \/ pending' # {})
      BY <1>1, <1>3, <2>1, <2>5 DEF Stop, Continue
    <2>8. TypeOK'
      BY <1>1, <1>2, <1>3, <1>4, <2>1, <2>2, <2>5, <2>6, <2>7 DEF Inv, TypeOK
    <2>9. Phase'
      BY <1>1, <1>2, <2>2, <2>4, <2>7 DEF Inv, Phase, FinishedOnce
    <2>10. Told'
      <3>1. pending' # {} \/ recorded' \/ result' = "fail" =>
              f \/ pending # {} \/ recorded
        BY <1>2, <1>3, <2>7
      <3>2. f \/ pending # {} \/ recorded =>
              pending' # {} \/ recorded' \/ result' = "fail"
        BY <1>2, <1>3, <2>7
      <3> HIDE DEF f
      <3>3. verdict = "none"
        BY <1>1 DEF Inv, Phase, TypeOK
      <3> QED  BY <1>1, <3>1, <3>2, <3>3, <2>4, <2>7 DEF Inv, Told
    <2>11. Ticks'
      BY <1>1, <1>2, <2>4, <2>7 DEF Inv, Ticks, TicksAreCounted
    <2>12. OutputsInSync'
      <3>1. SUFFICES ASSUME pc' = "statement", NEW d \in live, out'[d] # Keep
                     PROVE  mem'[d] = out'[d]
        BY <2>2, <2>7 DEF OutputsInSync
      <3>2. mem' = Over(mem, w) /\ out' = Over(out, w)
        BY <2>1, <2>7, <3>1 DEF Applies
      <3>3. d \in Components /\ (out[d] # Keep => mem[d] = out[d])
        BY <1>1, <3>1, TestbenchAssumption DEF Inv, OutputsInSync, TypeOK
      <3> QED  BY <3>1, <3>2, <3>3 DEF Over
    <2>13. CyclesCountEdges'
      BY <1>1, <1>2, <2>2, <2>4, <2>7 DEF Inv, CyclesCountEdges
    <2> QED  BY <2>4, <2>8, <2>9, <2>10, <2>11, <2>12, <2>13 DEF Inv
  <1> QED  BY <1>4, <1>5, <1>6

\* The head of a run.
LEMMA InitializeInv == ASSUME Inv, Initialize PROVE Inv'
  <1>1. pc = "initialize" /\ result = "continue" /\ verdict = "none" /\ ~reached
    BY DEF Inv, Phase, TypeOK, Initialize, Ticks
  <1>2. /\ UNCHANGED <<bench, observers, pending, statements, edges, time, limit,
                       reached, recorded>>
        /\ cycles' = [c \in Components |-> 0]
    BY DEF Initialize, design, context
  <1>3. CASE pc' = "done" /\ verdict' = "fail" /\ hist' = Fails(TRUE)
             /\ UNCHANGED <<mem, dirty, result>>
             /\ live' \in {{}, bench.used} /\ wants' \in BOOLEAN
             /\ out' \in [Components -> Values \cup {Keep}]
    <2>1. /\ HistOK' /\ hist'.failure = TRUE /\ hist'.tainted = hist.tainted
          /\ hist'.asked = hist.asked
          /\ hist'.begun = hist.begun /\ hist'.ended = hist.ended
      <3>1. hist.asked + 0 = hist.asked
        BY DEF Inv, HistOK, Histories
      <3> QED  BY <1>3, <3>1, FailsType DEF Inv, Recorded
    <2>2. TypeOK'
      BY <1>1, <1>2, <1>3 DEF Inv, TypeOK
    <2>3. Phase'
      BY <1>1, <1>2, <1>3, <2>1 DEF Inv, Phase, FinishedOnce
    <2>4. Told' /\ Ticks'
      BY <1>1, <1>2, <1>3, <2>1 DEF Inv, Told, Ticks, TicksAreCounted
    <2>5. OutputsInSync' /\ CyclesCountEdges'
      BY <1>3 DEF OutputsInSync, CyclesCountEdges
    <2> QED  BY <2>1, <2>2, <2>3, <2>4, <2>5 DEF Inv
  <1>4. CASE /\ live' = bench.used
             /\ out' \in Driven(bench.used) /\ wants' \in BOOLEAN
             /\ Applies(out')
             /\ dirty' \in BOOLEAN
             /\ hist' = [hist EXCEPT !.begun = bench.used]
             /\ IF wants' THEN Stop("finished") ELSE Continue
    <2>1. bench.used \subseteq Components
      BY TestbenchAssumption DEF Inv, TypeOK
    <2>2. /\ HistOK' /\ hist'.failure = hist.failure /\ hist'.tainted = hist.tainted
          /\ hist'.asked = hist.asked
          /\ hist'.given = hist.given /\ hist'.held = hist.held
          /\ hist'.begun = bench.used /\ hist'.ended = hist.ended
      BY <1>4, <2>1 DEF Inv, HistOK, Histories
    <2>3. /\ out' \in [Components -> Values \cup {Keep}]
          /\ mem' \in [Components -> Values \cup {Keep}]
      BY <1>4, OverType DEF Driven, Applies, Inv, TypeOK
    <2>4. /\ pc' \in {"statement", "finish"} /\ verdict' = "none"
          /\ result' \in {"continue", "finished"} /\ (pc' = "statement" => result' = "continue")
      BY <1>1, <1>4 DEF Stop, Continue
    <2>5. TypeOK'
      BY <1>2, <1>4, <2>3, <2>4 DEF Inv, TypeOK
    <2>6. Phase'
      BY <1>1, <1>2, <1>4, <2>2, <2>4 DEF Inv, Phase, FinishedOnce
    <2>7. Told' /\ Ticks'
      BY <1>1, <1>2, <2>2, <2>4 DEF Inv, Told, Ticks, TicksAreCounted
    <2>8. OutputsInSync'
      BY <1>4, <2>1 DEF OutputsInSync, Applies, Over
    <2>9. CyclesCountEdges'
      <3>1. SUFFICES ASSUME NEW c \in bench.used, bench.clock[c] # None
                     PROVE  cycles'[c] = hist'.given[bench.clock[c]] -
                              IF bench.reset[c] = None THEN 0
                              ELSE hist'.held[<<bench.clock[c], bench.reset[c]>>]
        BY <1>2, <1>4 DEF CyclesCountEdges
      <3>2. PICK e \in Clocks, q \in Resets \cup {None} : e = bench.clock[c] /\ q = bench.reset[c]
        BY <2>1, <3>1, TestbenchAssumption DEF Inv, TypeOK
      <3>3. hist'.given[e] = 0 /\ (q # None => hist'.held[<<e, q>>] = 0)
        BY <1>1, <2>2, <3>2 DEF Inv, Phase
      <3>4. cycles'[c] = 0
        BY <1>2, <2>1, <3>1
      <3> QED  BY <3>2, <3>3, <3>4
    <2> QED  BY <2>2, <2>5, <2>6, <2>7, <2>8, <2>9 DEF Inv
  <1>5. [c \in Components |-> Keep] \in [Components -> Values \cup {Keep}]
    OBVIOUS
  <1>6. Driven(bench.used) \subseteq [Components -> Values \cup {Keep}]
    BY DEF Driven
  <1>7. dirty \in BOOLEAN
    BY DEF Inv, TypeOK
  <1> QED  BY <1>3, <1>4, <1>5, <1>6, <1>7 DEF Initialize

\* The end of a run: the verdict is what was told.
LEMMA FinishComponentsInv == ASSUME Inv, FinishComponents PROVE Inv'
  <1>1. PICK failed \in BOOLEAN :
       /\ hist' = [hist EXCEPT !.failure = @ \/ failed,
                     !.ended = [c \in Components |-> @[c] + IF c \in live THEN 1 ELSE 0]]
       /\ verdict' = IF result = "fail" \/ failed \/ recorded THEN "fail" ELSE "pass"
    BY DEF FinishComponents
  <1>2. /\ pc = "finish" /\ pc' = "done" /\ live' = {} /\ wants' = FALSE
        /\ out' = [c \in Components |-> Keep] /\ cycles' = [c \in Components |-> 0]
        /\ UNCHANGED <<bench, observers, mem, dirty, pending, statements, edges, time,
                       limit, reached, recorded, result>>
    BY DEF FinishComponents, design, context
  <1>3. /\ hist \in Histories
        /\ verdict = "none" /\ hist.begun = live /\ \A c \in Components : hist.ended[c] = 0
    BY <1>2 DEF Inv, HistOK, Phase, TypeOK
  <1>4. [c \in Components |-> hist.ended[c] + IF c \in live THEN 1 ELSE 0] \in [Components -> Nat]
    BY <1>3 DEF Histories
  <1>5. /\ HistOK' /\ hist'.failure = (hist.failure \/ failed) /\ hist'.tainted = hist.tainted
        /\ hist'.asked = hist.asked /\ hist'.begun = hist.begun
        /\ hist'.ended = [c \in Components |-> hist.ended[c] + IF c \in live THEN 1 ELSE 0]
    BY <1>1, <1>3, <1>4 DEF HistOK, Histories
  <1>6. TypeOK'
    BY <1>1, <1>2 DEF Inv, TypeOK
  <1>7. Phase'
    BY <1>1, <1>2, <1>3, <1>5 DEF Phase, FinishedOnce
  <1>8. Told' /\ Ticks'
    BY <1>1, <1>2, <1>3, <1>5 DEF Inv, Told, Ticks, TicksAreCounted, TypeOK
  <1>9. OutputsInSync' /\ CyclesCountEdges'
    BY <1>2 DEF OutputsInSync, CyclesCountEdges
  <1> QED  BY <1>5, <1>6, <1>7, <1>8, <1>9 DEF Inv

\* Another run of the same simulator starts clean, but for the ring.
LEMMA RunAgainInv == ASSUME Inv, RunAgain PROVE Inv'
  <1>1. /\ pc' = "initialize" /\ statements' = 0 /\ edges' = NoEdges /\ time' = 0
        /\ reached' = FALSE /\ limit' \in Limits \cup {NoLimit} /\ recorded' = FALSE
        /\ result' = "continue" /\ verdict' = "none"
        /\ hist' = NewHist(pending # {}, hist.runs + 1)
        /\ UNCHANGED <<bench, observers, live, out, cycles, wants, mem, dirty, pending>>
    BY DEF RunAgain, design, runtime
  <1>2. /\ HistOK' /\ hist'.failure = FALSE /\ hist'.tainted = (pending # {})
        /\ hist'.asked = 0 /\ hist'.begun = {}
        /\ (\A e \in Clocks : hist'.given[e] = 0)
        /\ (\A q \in Clocks \X Resets : hist'.held[q] = 0)
        /\ \A c \in Components : hist'.ended[c] = 0
    BY <1>1 DEF Inv, HistOK, Histories, NewHist
  <1>3. TypeOK'
    BY <1>1 DEF Inv, TypeOK, NoEdges
  <1>4. Phase' /\ Told'
    BY <1>1, <1>2 DEF Phase, FinishedOnce, Told
  <1>5. Ticks'
    <2>1. limit' # NoLimit => limit' \in Nat
      BY <1>1, TestbenchAssumption
    <2>2. edges'.left = 0
      BY <1>1 DEF NoEdges
    <2> QED  BY <1>1, <1>2, <2>1, <2>2 DEF Ticks, TicksAreCounted
  <1>6. OutputsInSync' /\ CyclesCountEdges'
    BY <1>1 DEF OutputsInSync, CyclesCountEdges
  <1> QED  BY <1>2, <1>3, <1>4, <1>5, <1>6 DEF Inv

\* The invariant is inductive.
THEOREM InvHolds == Spec => []Inv
  <1>1. Init => Inv
    BY InitInv
  <1>2. Inv /\ [Next]_vars => Inv'
    <2>1. SUFFICES ASSUME Inv, [Next]_vars PROVE Inv'
      OBVIOUS
    <2>2. CASE UNCHANGED vars
      <3>1. UNCHANGED <<bench, observers, live, out, cycles, wants, mem, dirty, pending,
                        pc, statements, edges, time, limit, reached, recorded, result, verdict,
                        hist>>
        BY <2>2 DEF vars, design, runtime, context
      <3>2. TypeOK'
        BY <2>1, <3>1 DEF Inv, TypeOK
      <3>3. HistOK' /\ Told'
        BY <2>1, <3>1 DEF Inv, HistOK, Told
      <3>4. Phase'
        BY <2>1, <3>1 DEF Inv, Phase, FinishedOnce
      <3>5. Ticks'
        BY <2>1, <3>1 DEF Inv, Ticks, TicksAreCounted
      <3>6. OutputsInSync' /\ CyclesCountEdges'
        BY <2>1, <3>1 DEF Inv, OutputsInSync, CyclesCountEdges
      <3> QED  BY <3>2, <3>3, <3>4, <3>5, <3>6 DEF Inv
    <2>3. CASE Next
      BY <2>1, <2>3, InitializeInv, LimitReachedInv, LookInv, StoreInv, ForFailsInv,
         AssertFailsInv, ComponentMethodInv, FinishInv, StartEdgesInv, EdgesDoneInv,
         BackendEdgesInv, ComponentEdgeInv, EndOfTestbenchInv, FinishComponentsInv, RunAgainInv
         DEF Next
    <2> QED  BY <2>1, <2>2, <2>3
  <1> QED  BY <1>1, <1>2, PTL DEF Spec

\* Every variable keeps its type.
THEOREM TypeCorrect == Spec => []TypeOK
  <1>1. Inv => TypeOK
    BY DEF Inv
  <1> QED  BY <1>1, InvHolds, PTL

\* No failure is forgotten on the way to a passing verdict, and none is made up.
THEOREM VerdictIsHonest == Spec => []VerdictIsEarned
  <1>1. Inv => VerdictIsEarned
    BY DEF Inv, Told, VerdictIsEarned
  <1> QED  BY <1>1, InvHolds, PTL

\* The ticks reported and those to come are the cycles asked for, within the
\* limit, whatever progress the backend reports.
THEOREM TicksCorrect == Spec => []TicksAreCounted
  <1>1. Inv => TicksAreCounted
    BY DEF Inv, Ticks
  <1> QED  BY <1>1, InvHolds, PTL

\* Between statements and edges the memory holds what the components drive.
THEOREM ComponentsInStep == Spec => []OutputsInSync
  <1>1. Inv => OutputsInSync
    BY DEF Inv
  <1> QED  BY <1>1, InvHolds, PTL

\* A component has counted every edge of its own clock outside its own reset, and
\* only those, whatever other clocks and resets there are.
THEOREM EdgesAreCounted == Spec => []CyclesCountEdges
  <1>1. Inv => CyclesCountEdges
    BY DEF Inv
  <1> QED  BY <1>1, InvHolds, PTL

\* on_finish is called once for each component of a run that began.
THEOREM FinishOnce == Spec => []FinishedOnce
  <1>1. Inv => FinishedOnce
    BY DEF Inv, Phase
  <1> QED  BY <1>1, InvHolds, PTL
=============================================================================
