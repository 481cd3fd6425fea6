------------------------------- MODULE Testbench -------------------------------
(***************************************************************************)
(* The executor of native testbenches (crates/celox/src/testbench.rs) and  *)
(* the runtime of external components (crates/celox/src/component.rs).     *)
(*                                                                         *)
(* A run initializes the components, executes the statements of an         *)
(* `initial' block, calls on_finish and turns what it has been told into a *)
(* verdict.  The statements are an arbitrary sequence: If and For only     *)
(* choose which one comes next.  Hooks and methods are foreign code: they  *)
(* may drive their output, fail and request the finish as they like.  The  *)
(* design is seen through what an evaluation or an edge can return and     *)
(* publish, and which of its clock and reset events a cycle of a clock     *)
(* triggers.  Each component drives one signal and has at most one clock   *)
(* and one reset with a runtime event.                                     *)
(***************************************************************************)
EXTENDS Integers

CONSTANTS
  Components,     \* names of component instances
  Clocks,         \* clock events
  Resets,         \* reset events
  None,           \* no event, no reset: None
  Follows,        \* per clock: the events the design may derive from a cycle of it
  Generators,     \* reset generators: the clock, and the reset's event if it has one
  Benches,        \* testbenches: all components, and the clock and reset of each
  Values,         \* values of a component's output
  Keep,           \* a hook leaves its output alone; the signal is undriven
  Counts,         \* cycle counts and reset durations
  Limits,         \* tick limits
  NoLimit,        \* tick_limit: None
  MaxStatements,  \* bound: statements of one run
  MaxRuns         \* bound: runs of one Simulator

\* What the ring of runtime events can hold that is not mere output: a failed
\* $assert, and a failed $assert_continue or the report that events were lost.
Kinds == {"fatal", "continue"}

ASSUME TestbenchAssumption ==
  /\ \A d \in Benches : /\ d.used \subseteq Components
                         /\ d.clock \in [Components -> Clocks \cup {None}]
                         /\ d.reset \in [Components -> Resets \cup {None}]
  /\ None \notin Clocks \cup Resets \cup Generators
  /\ Follows \in [Clocks -> SUBSET (Clocks \cup Resets)]
  /\ Generators \subseteq [clock : Clocks, event : Resets \cup {None}]
  /\ Keep \notin Values /\ Counts \subseteq Nat
  /\ Limits \subseteq Nat /\ NoLimit \notin Nat
  /\ MaxStatements \in Nat /\ MaxRuns \in Nat

VARIABLES
  bench,       \* the compiled testbench's descriptors
  observers,   \* the design has comb observers
  live,        \* ComponentRuntime.components
  out,         \* per component: the output words its host keeps
  cycles,      \* per component: fire_count
  wants,       \* finish_requested
  mem,         \* per component: the driven signal in the backend's memory
  dirty,       \* Simulator.dirty
  pending,     \* kinds of events in the ring that have not been drained
  pc,          \* "initialize", "statement", "edges", "finish" or "done"
  statements,  \* statements executed
  edges,       \* the loop of ClockNext or ResetAssert
  time,        \* ctx.current_time
  limit,       \* ctx.tick_limit
  reached,     \* ctx.tick_limit_reached
  recorded,    \* ctx.assertions holds a failed one
  result,      \* the ExecResult that ended the statements
  verdict,     \* the TestResult, or "panic"
  hist         \* history, read by properties only

design == <<bench, observers>>
runtime == <<live, out, cycles, wants, mem>>
context == <<limit, reached>>
vars == <<design, runtime, dirty, pending, pc, statements, edges, time,
          context, recorded, result, verdict, hist>>

NoEdges == [clock |-> None, generator |-> None, left |-> 0]

(***************************************************************************)
(* The history of a run: whether a failure has happened in it, whether the *)
(* ring held events when it began, the cycles its statements asked for,    *)
(* how often each clock event has been triggered with components listening *)
(* and how often while each reset was active, and how often each on_init   *)
(* and on_finish was called.                                               *)
(***************************************************************************)
NewHist(tainted, runs) ==
  [failure |-> FALSE, tainted |-> tainted, asked |-> 0,
   given |-> [e \in Clocks |-> 0], held |-> [p \in Clocks \X Resets |-> 0],
   begun |-> {}, ended |-> [c \in Components |-> 0], runs |-> runs]

Init ==
  /\ bench \in Benches
  /\ observers \in BOOLEAN
  /\ live = {} /\ wants = FALSE
  /\ out = [c \in Components |-> Keep] /\ cycles = [c \in Components |-> 0]
  /\ mem = [c \in Components |-> Keep]
  /\ dirty = TRUE /\ pending = {}
  /\ pc = "initialize" /\ statements = 0 /\ edges = NoEdges
  /\ time = 0 /\ limit \in Limits \cup {NoLimit} /\ reached = FALSE
  /\ recorded = FALSE /\ result = "continue" /\ verdict = "none"
  /\ hist = NewHist(FALSE, 1)

-----------------------------------------------------------------------------
(* Evaluation and events                                                   *)

\* What eval_comb can do.  Only comb observers publish during it, and a fatal
\* assertion is returned as an error.
Evaluations ==
  {o \in [ok : BOOLEAN, new : SUBSET Kinds] :
     (o.ok => "fatal" \notin o.new) /\ (~observers => o.new = {})}

Quiet == [ok |-> TRUE, new |-> {}]

\* An evaluation that only happens when its condition holds.
EvaluationsIf(condition) == IF condition THEN Evaluations ELSE {Quiet}

Failing(ok, new) == ~ok \/ new # {}

Fails(failing) == [hist EXCEPT !.failure = @ \/ failing]

\* exec_one_detailed returns Fail or Finished, or the panic of an unwrap.
Stop(how) == pc' = "finish" /\ result' = how /\ UNCHANGED verdict
Continue == pc' = "statement" /\ UNCHANGED <<result, verdict>>
Panic == pc' = "done" /\ verdict' = "panic" /\ UNCHANGED result

-----------------------------------------------------------------------------
(* Components                                                              *)

\* What hooks may do with the outputs of the components in C.
Driven(C) == {w \in [Components -> Values \cup {Keep}] :
                \A c \in Components \ C : w[c] = Keep}

Over(f, w) == [c \in Components |-> IF w[c] = Keep THEN f[c] ELSE w[c]]

\* Faulty variant: the writes are taken from the hosts and forgotten.
AppliesNothing(w) == mem' = mem

\* apply_component_writes
Applies(w) == mem' = Over(mem, w)

\* ComponentRuntime::initialize and the head of run_testbench_limited: on_init
\* of every component, registration in the VCD file, the initial writes.
Initialize ==
  /\ pc = "initialize"
  /\ cycles' = [c \in Components |-> 0]
  /\ \/ /\ bench.used # {}
        /\ live' = {} /\ wants' = FALSE   \* some on_init fails
        /\ out' = [c \in Components |-> Keep]
        /\ pc' = "done" /\ verdict' = "fail" /\ hist' = Fails(TRUE)
        /\ UNCHANGED <<mem, dirty, result>>
     \/ /\ bench.used # {}
        /\ live' = bench.used             \* add_external_signals fails
        /\ out' \in Driven(bench.used) /\ wants' \in BOOLEAN
        /\ pc' = "done" /\ verdict' = "fail" /\ hist' = Fails(TRUE)
        /\ UNCHANGED <<mem, dirty, result>>
     \/ /\ live' = bench.used
        /\ out' \in Driven(bench.used) /\ wants' \in {w \in BOOLEAN : w => bench.used # {}}
        /\ Applies(out')
        /\ dirty' = (dirty \/ \E c \in bench.used : out'[c] # Keep)
        /\ hist' = [hist EXCEPT !.begun = bench.used]
        /\ IF wants' THEN Stop("finished") ELSE Continue
  /\ UNCHANGED <<design, pending, statements, edges, time, context, recorded>>

-----------------------------------------------------------------------------
(* Statements                                                              *)

AtLimit == limit # NoLimit /\ time >= limit

More == pc = "statement" /\ statements < MaxStatements

\* Every statement begins by looking at the tick limit.
Statement == More /\ ~AtLimit /\ statements' = statements + 1

\* A statement, or the next batch of edges, is left when the limit is reached.
LimitReached ==
  /\ More \/ (pc = "edges" /\ edges.left > 0)
  /\ AtLimit
  /\ reached' = TRUE
  /\ Stop("finished")
  /\ UNCHANGED <<design, runtime, dirty, pending, statements, edges, time,
                 limit, recorded, hist>>

\* Display, If, RandomSeed and an Assert that holds evaluate and look.
Look ==
  /\ Statement
  /\ \E o \in Evaluations :
       /\ pending' = pending \cup o.new
       /\ dirty' = (dirty /\ ~o.ok)
       /\ hist' = Fails(Failing(o.ok, o.new))
       /\ IF o.ok THEN Continue ELSE Stop("fail")
  /\ UNCHANGED <<design, runtime, edges, time, context, recorded>>

\* Assign, the Random calls that store, and the loop variable of a For.  Some
\* need no evaluation first: the loop variable, RandomGet into a whole signal.
\* (Break, and a RandomGet nobody stores, change nothing.)
Store ==
  /\ Statement
  /\ \E evaluates \in BOOLEAN : \E o \in EvaluationsIf(evaluates) :
       /\ pending' = pending \cup o.new
       /\ dirty' = (dirty \/ o.ok)
       /\ hist' = Fails(Failing(o.ok, o.new))
       /\ IF o.ok THEN Continue ELSE Stop("fail")
  /\ UNCHANGED <<design, runtime, edges, time, context, recorded>>

\* A For loop whose bounds do not fit or whose counter does not advance.
ForFails ==
  /\ Statement
  /\ Stop("fail") /\ hist' = Fails(TRUE)
  /\ UNCHANGED <<design, runtime, dirty, pending, edges, time, context, recorded>>

\* An Assert that does not hold publishes its own event and drains the ring.
AssertFails ==
  /\ Statement
  /\ hist' = Fails(TRUE)
  /\ \E o \in Evaluations :
       IF o.ok
       THEN \E kind \in {"continue", "fatal"} :
              /\ recorded' = TRUE
              /\ pending' = {} /\ dirty' = FALSE
              /\ IF kind = "fatal" THEN Stop("fail") ELSE Continue
       ELSE /\ pending' = pending \cup o.new
            /\ Stop("fail")
            /\ UNCHANGED <<dirty, recorded>>
  /\ UNCHANGED <<design, runtime, edges, time, context>>

\* The arguments of a method are evaluated; what it wrote is applied unless it
\* failed, and the finish is looked at before the value it returned.
ComponentMethod ==
  /\ Statement
  /\ \E c \in live, o \in EvaluationsIf(dirty) :
       /\ pending' = pending \cup o.new
       /\ \/ /\ ~o.ok
             /\ Stop("fail") /\ hist' = Fails(TRUE)
             /\ UNCHANGED <<runtime, dirty>>
          \/ /\ o.ok
             /\ \E w \in Driven({c}), ok \in BOOLEAN, badReturn \in BOOLEAN, stores \in BOOLEAN :
                  /\ out' = Over(out, w)
                  /\ wants' \in {wants, TRUE}
                  /\ IF ok THEN Applies(w) ELSE UNCHANGED mem
                  /\ hist' = Fails(~ok \/ o.new # {} \/ (badReturn /\ ~wants'))
                  /\ dirty' = (ok /\ (w[c] # Keep \/ (stores /\ ~badReturn /\ ~wants')))
                  /\ IF ~ok THEN Stop("fail")
                     ELSE IF wants' THEN Stop("finished")
                     ELSE IF badReturn THEN Stop("fail") ELSE Continue
             /\ UNCHANGED <<live, cycles>>
  /\ UNCHANGED <<design, edges, time, context, recorded>>

\* $finish
Finish ==
  /\ Statement
  /\ Stop("finished")
  /\ UNCHANGED <<design, runtime, dirty, pending, edges, time, context, recorded, hist>>

\* The last statement is done.
EndOfTestbench ==
  /\ pc = "statement"
  /\ Stop("continue")
  /\ UNCHANGED <<design, runtime, dirty, pending, statements, edges, time,
                 context, recorded, hist>>

-----------------------------------------------------------------------------
(* ClockNext and ResetAssert                                               *)

\* A reset lasts at least one edge.  Its signal is asserted before the first and
\* released after the last one: writes to the design, which mark it dirty.
Duration(inReset, n) == IF inReset /\ n = 0 THEN 1 ELSE n

StartEdges ==
  /\ Statement
  /\ \E clock \in Clocks, generator \in Generators \cup {None}, n \in Counts, dynamic \in BOOLEAN :
     \E o \in EvaluationsIf(dynamic) :
       LET inReset == generator # None
           cycle == Duration(inReset, n)
       IN  /\ inReset => generator.clock = clock
           /\ pending' = pending \cup o.new
           /\ IF o.ok
              THEN /\ edges' = [clock |-> clock, generator |-> generator, left |-> cycle]
                   /\ dirty' = (inReset \/ (dirty /\ ~dynamic))
                   /\ hist' = [Fails(o.new # {}) EXCEPT !.asked = @ + cycle]
                   /\ pc' = "edges" /\ UNCHANGED <<result, verdict>>
              ELSE Stop("fail") /\ hist' = Fails(TRUE) /\ UNCHANGED <<edges, dirty>>
  /\ UNCHANGED <<design, runtime, time, context, recorded>>

EdgesDone ==
  /\ pc = "edges" /\ edges.left = 0
  /\ Continue
  /\ dirty' = (dirty \/ edges.generator # None)
  /\ edges' = NoEdges
  /\ UNCHANGED <<design, runtime, pending, statements, time, context, recorded, hist>>

\* Edges given to the design at once.
Batch ==
  IF limit = NoLimit \/ limit - time >= edges.left THEN edges.left ELSE limit - time

\* Faulty variant: the backend's word is taken for how far it came.
AnyProgress(n) == TRUE

\* Both loops fail the run when the backend claims to have made no progress, or
\* more than it was asked for.
ValidProgress(n) == n # 0 /\ n <= Batch

\* The events a cycle of the loop's clock can trigger.
Triggers == {edges.clock} \cup Follows[edges.clock]

\* active_reset_event: the event of the ResetAssert's reset, if it has one.
ActiveReset == IF edges.generator = None THEN None ELSE edges.generator.event

\* The history after a cycle that triggered the events in T.
Given(T) ==
  [hist EXCEPT
     !.given = [e \in Clocks |-> @[e] + IF e \in T THEN 1 ELSE 0],
     !.held = [p \in Clocks \X Resets |->
                 @[p] + IF p[1] \in T /\ p[2] = ActiveReset THEN 1 ELSE 0]]

\* Faulty variant: the whole batch is taken off although the compiled loop came
\* back early to let an event be seen.
AfterEdgesWhole(n, ok, new, mark, T) ==
  /\ ValidProgress(n)
  /\ time' = time + n
  /\ edges' = [edges EXCEPT !.left = @ - Batch]
  /\ recorded' = (recorded \/ new # {}) /\ pending' = {}
  /\ hist' = [Given(T) EXCEPT !.failure = @ \/ Failing(ok, new)]
  /\ dirty' = mark
  /\ IF ~ok \/ "fatal" \in new THEN Stop("fail")
     ELSE pc' = "edges" /\ UNCHANGED <<result, verdict>>
  /\ UNCHANGED <<design, statements, context>>

\* What both loops do after `n' edges that returned `ok', published `new' and
\* left the mark `mark', and in which the events in T fired components: count,
\* drain, and look for a reason to stop.  An edge that returns an error counts
\* as one whether or not the design has seen it.  The drain settles for the
\* observers' sake, and unwraps.
AfterEdges(n, ok, new, mark, T) ==
  /\ \/ /\ ~ValidProgress(n)
        /\ Stop("fail") /\ hist' = Fails(TRUE)
        /\ pending' = pending \cup new /\ dirty' = mark
        /\ UNCHANGED <<time, edges, recorded>>
     \/ /\ ValidProgress(n)
        /\ time' = time + n
        /\ edges' = [edges EXCEPT !.left = @ - n]
        /\ \E o \in EvaluationsIf(observers /\ mark) :
             LET ring == pending \cup new \cup o.new
             IN  /\ hist' = [Given(T) EXCEPT
                               !.failure = @ \/ Failing(ok, new) \/ Failing(o.ok, o.new)]
                 /\ IF o.ok
                    THEN /\ recorded' = (recorded \/ ring # {}) /\ pending' = {}
                         /\ dirty' = (mark /\ ~observers)
                         /\ IF ~ok \/ "fatal" \in ring THEN Stop("fail")
                            ELSE IF wants' THEN Stop("finished")
                            ELSE pc' = "edges" /\ UNCHANGED <<result, verdict>>
                    ELSE /\ Panic
                         /\ pending' = ring /\ dirty' = mark
                         /\ UNCHANGED recorded
  /\ UNCHANGED <<design, statements, context>>

\* ComponentRuntime::has_scheduled_components: some component has an event.
Scheduled == {c \in live : bench.clock[c] # None \/ bench.reset[c] # None}

\* tick_deferred_comb_many: with observers or a clean memory, one edge.  The
\* compiled loop returns after the edge that published something; nothing more
\* is assumed of the number it returns.
BackendEdges ==
  /\ pc = "edges" /\ edges.left > 0 /\ ~AtLimit
  /\ Scheduled = {}
  /\ UNCHANGED runtime
  /\ \E n \in IF observers \/ ~dirty THEN {1} ELSE 0..(Batch + 1),
        ok \in BOOLEAN, new \in SUBSET Kinds, mark \in BOOLEAN :
       /\ IF ok THEN mark = ~observers
          ELSE IF observers THEN mark => dirty ELSE mark = dirty
       /\ AfterEdges(n, ok, new, mark, {})

\* Faulty variant: any reset statement resets whoever has a reset.
OnResetAny(C) == {c \in C : edges.generator # None /\ bench.reset[c] # None}

\* ComponentRuntime::fire: who gets on_reset where its clock has been triggered.
OnReset(C) == {c \in C : ActiveReset # None /\ bench.reset[c] = ActiveReset}

\* ComponentRuntime::fire, fire_matching and fire_external_event: the components
\* whose clock or reset is among the triggered events T run a hook, on_clock
\* only for the clock of one that is not in reset.  When a hook fails, what the
\* others wrote is dropped with the error; `ok' is what the rest of the edge
\* returns.
Fire(T, ok, new) ==
  LET clocked == {c \in Scheduled : bench.clock[c] \in T}
      C == clocked \cup {c \in Scheduled : bench.reset[c] \in T}
  IN  \E w \in Driven(C), failed \in BOOLEAN, mark \in BOOLEAN :
        /\ failed => ~ok
        /\ mark => ~ok /\ ~failed /\ \E c \in C : w[c] # Keep
        /\ out' = Over(out, w)
        /\ cycles' = [c \in Components |->
                        cycles[c] + IF c \in clocked \ OnReset(clocked) THEN 1 ELSE 0]
        /\ wants' \in IF C = {} THEN {wants} ELSE {wants, TRUE}
        /\ IF failed THEN UNCHANGED mem ELSE Applies(w)
        /\ AfterEdges(1, ok, new, mark, T)

\* tick_component_clock and tick_component_reset: settle when dirty, a step of
\* the timed engine for the rise, with the components firing between the
\* commit and the settlement after it, and a step for the fall.  Only the
\* generator moves its clock, so a whole cycle triggers it; an error leaves the
\* cycle with the events triggered so far.
ComponentEdge ==
  /\ pc = "edges" /\ edges.left > 0 /\ ~AtLimit
  /\ Scheduled # {}
  /\ \/ /\ UNCHANGED runtime                \* the settlement before it fails
        /\ \E o \in EvaluationsIf(dirty) : ~o.ok /\ AfterEdges(1, FALSE, o.new, TRUE, {})
     \/ /\ UNCHANGED live
        /\ \E T \in SUBSET Triggers, new \in SUBSET Kinds, ok \in BOOLEAN :
             (ok => edges.clock \in T) /\ Fire(T, ok, new)

-----------------------------------------------------------------------------
(* The end of a run                                                        *)

\* Faulty variant: a failing on_finish is only logged.
FinishComponentsLogs ==
  /\ pc = "finish"
  /\ \E failed \in {f \in BOOLEAN : f => live # {}} :
       hist' = [hist EXCEPT !.failure = @ \/ failed,
                  !.ended = [c \in Components |-> @[c] + IF c \in live THEN 1 ELSE 0]]
  /\ verdict' = IF result = "fail" \/ recorded THEN "fail" ELSE "pass"
  /\ live' = {} /\ wants' = FALSE
  /\ out' = [c \in Components |-> Keep] /\ cycles' = [c \in Components |-> 0]
  /\ pc' = "done"
  /\ UNCHANGED <<design, mem, dirty, pending, statements, edges,
                 time, context, recorded, result>>

\* Faulty variant: a failed run returns before on_finish.
FinishComponentsSkips ==
  /\ pc = "finish"
  /\ hist' = [hist EXCEPT !.ended =
       [c \in Components |-> @[c] + IF c \in live /\ result # "fail" THEN 1 ELSE 0]]
  /\ verdict' = IF result = "fail" \/ recorded THEN "fail" ELSE "pass"
  /\ live' = {} /\ wants' = FALSE
  /\ out' = [c \in Components |-> Keep] /\ cycles' = [c \in Components |-> 0]
  /\ pc' = "done"
  /\ UNCHANGED <<design, mem, dirty, pending, statements, edges,
                 time, context, recorded, result>>

\* ComponentRuntime::finish calls every on_finish; a failure there counts
\* unless the statements have failed already.
FinishComponents ==
  /\ pc = "finish"
  /\ \E failed \in {f \in BOOLEAN : f => live # {}} :
       /\ hist' = [hist EXCEPT !.failure = @ \/ failed,
                     !.ended = [c \in Components |-> @[c] + IF c \in live THEN 1 ELSE 0]]
       /\ verdict' = IF result = "fail" \/ failed \/ recorded
                     THEN "fail" ELSE "pass"
  /\ live' = {} /\ wants' = FALSE
  /\ out' = [c \in Components |-> Keep] /\ cycles' = [c \in Components |-> 0]
  /\ pc' = "done"
  /\ UNCHANGED <<design, mem, dirty, pending, statements, edges,
                 time, context, recorded, result>>

\* The same Simulator runs the testbench once more.
RunAgain ==
  /\ pc = "done" /\ verdict # "panic" /\ hist.runs < MaxRuns
  /\ pc' = "initialize" /\ statements' = 0 /\ edges' = NoEdges
  /\ time' = 0 /\ reached' = FALSE /\ limit' \in Limits \cup {NoLimit}
  /\ recorded' = FALSE /\ result' = "continue" /\ verdict' = "none"
  /\ hist' = NewHist(pending # {}, hist.runs + 1)
  /\ UNCHANGED <<design, runtime, dirty, pending>>

Next ==
  \/ Initialize \/ LimitReached
  \/ Look \/ Store \/ ForFails \/ AssertFails \/ ComponentMethod \/ Finish
  \/ StartEdges \/ EdgesDone \/ BackendEdges \/ ComponentEdge
  \/ EndOfTestbench \/ FinishComponents \/ RunAgain

Spec == Init /\ [][Next]_vars

\* The executor is a single thread that returns only when the run is over.
FairSpec == Spec /\ WF_vars(Next)

-----------------------------------------------------------------------------
(* Properties                                                              *)

\* Every variable has the type of the code's field.
TypeOK ==
  /\ bench \in Benches
  /\ live \in {{}, bench.used} /\ wants \in BOOLEAN /\ observers \in BOOLEAN
  /\ out \in [Components -> Values \cup {Keep}] /\ mem \in [Components -> Values \cup {Keep}]
  /\ cycles \in [Components -> Nat]
  /\ dirty \in BOOLEAN
  /\ pending \subseteq Kinds /\ recorded \in BOOLEAN
  /\ pc \in {"initialize", "statement", "edges", "finish", "done"}
  /\ statements \in Nat 
  /\ edges \in [clock : Clocks \cup {None}, generator : Generators \cup {None}, left : Nat]
  /\ time \in Nat /\ limit \in Limits \cup {NoLimit} /\ reached \in BOOLEAN
  /\ result \in {"continue", "finished", "fail"}
  /\ verdict \in {"none", "pass", "fail", "panic"}

\* A run passes only when nothing in it has gone wrong: no failure of a hook,
\* a method, a loop, an evaluation or an assertion is forgotten on the way to
\* the verdict, whatever stopped the statements; an assertion that failed in
\* the design is at least still in the ring.  And a run fails only for a reason:
\* something has gone wrong in it, or an earlier run of the same simulator has
\* left events behind.
VerdictIsEarned ==
  /\ verdict = "pass" => ~hist.failure \/ pending # {}
  /\ verdict = "fail" => hist.failure \/ hist.tainted

\* The ticks reported and those still to come are the cycles the statements have
\* asked for, however the backend cuts them into batches and whichever edge
\* failed, and never more than the limit; and the limit is said to be reached
\* only after just as many.
TicksAreCounted ==
  /\ time + edges.left = hist.asked
  /\ limit # NoLimit => time <= limit
  /\ reached => time = limit

\* Between two statements, and between two edges, the memory holds what each
\* component last drove, whichever mixture of firings and calls it was driven
\* by: no write is lost in an error that did not end the run.
OutputsInSync ==
  pc \in {"statement", "edges"} =>
    \A c \in live : out[c] # Keep => mem[c] = out[c]

\* A component counts the edges of its own clock: not those of another one, not
\* the resets the design makes itself, and of its own clock not the edges in
\* which its own reset was asserted.  Another reset, or one without an event,
\* does not keep it from counting.
CyclesCountEdges ==
  pc \in {"statement", "edges"} =>
    \A c \in live : bench.clock[c] # None =>
      cycles[c] = hist.given[bench.clock[c]] -
                    IF bench.reset[c] = None THEN 0
                    ELSE hist.held[<<bench.clock[c], bench.reset[c]>>]

\* Once a run that began is over, on_finish has been called once for each of
\* its components, however the statements ended.
FinishedOnce ==
  pc = "done" /\ verdict # "panic" =>
    \A c \in Components : hist.ended[c] = IF c \in hist.begun THEN 1 ELSE 0

\* Every run comes to an end, whatever progress the backend reports: the loops
\* over edges advance or give up.
RunEnds == pc # "done" ~> pc = "done"

\* What the comment on run_testbench_detailed says: the assertion results
\* observed before the test finishes are returned.  A run that passes has not
\* seen an assertion fail.
PassMeansNoFailure == verdict = "pass" => ~hist.failure
=============================================================================
