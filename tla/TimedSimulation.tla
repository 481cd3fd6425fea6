---------------------------- MODULE TimedSimulation ----------------------------
(***************************************************************************)
(* The timed simulation engine: the event queue of celox-runtime's         *)
(* Scheduler, the time step of SimulationState::step with its             *)
(* discover / evaluate / commit / settle rounds, and the API of            *)
(* celox::Simulation on top of it (add_clock, schedule, modify, step,      *)
(* run_until, the step-counted runUntil of the TypeScript package).        *)
(*                                                                         *)
(* The design under test is abstract.  Its event signals (clocks and       *)
(* asynchronous resets) keep a one-bit value.  The compiled kernels may    *)
(* give any value to the signals the design itself drives (Derived) and    *)
(* may leave any trigger bit marked.  Every executor call that the code    *)
(* follows with `?' may fail, and the step is then abandoned where it is.  *)
(***************************************************************************)
EXTENDS Integers, FiniteSets, Bags

CONSTANTS
  Ids,        \* event ids: canonical clock and asynchronous-reset signals
  Aliases,    \* further ports that resolve to an event through a clock alias
  AliasOf,    \* AliasOf[a]: the event id the port a resolves to
  Kind,       \* Kind[i]: the DomainKind of event i
  Derived,    \* events whose signal is driven by the design's own logic
  Cascaded,   \* EventInfo::is_cascaded
  Active,     \* events whose domain has flip-flops; the kernels of the others are empty
  Split,      \* whether the design has separate kernels to evaluate and to commit
  Values,     \* bytes a caller may pass to schedule
  Periods,    \* periods a caller may pass to add_clock
  MaxTime,    \* bound: times a caller names, and steps not bound to an end stop there
  MaxPush,    \* bound: events waiting in the queue when a caller adds one
  MaxSteps,   \* budgets passed to the step-counted runUntil
  MayPoke,    \* whether event signals are also written outside the scheduler
  Calls,      \* driver calls in use: "step", "run_until", "runUntil"
  MayFail     \* whether executor calls may return an error

DomainKind == {"ClockPosedge", "ClockNegedge", "ResetAsyncHigh", "ResetAsyncLow", "Other"}
None == -1

ASSUME TimedAssumption ==
  /\ Ids \cap Aliases = {} /\ IsFiniteSet(Ids)
  /\ AliasOf \in [Aliases -> Ids]
  /\ Kind \in [Ids -> DomainKind]
  /\ Derived \subseteq Ids /\ Cascaded \subseteq Ids /\ Active \subseteq Ids
  /\ Split \in BOOLEAN
  /\ Values \subseteq 0..255 /\ Periods \subseteq Nat
  /\ MaxTime \in Nat /\ MaxPush \in Nat /\ MaxSteps \subseteq Nat \ {0}
  /\ Calls \subseteq {"step", "run_until", "runUntil"}
  /\ MayFail \in BOOLEAN /\ MayPoke \in BOOLEAN

(* The compiler leaves the separate kernels out of a design that has at     *)
(* most one domain with flip-flops and no cascaded clock.                   *)
ASSUME SplitAssumption ==
  Split \/ (Cascaded = {} /\ \A i, j \in Active : i = j)

VARIABLES
  time,       \* Scheduler::time
  queue,      \* Scheduler::event_queue, a bag of SimEvent records
  clocks,     \* Scheduler::clocks: the period of each event's clock, or None
  last,       \* SimulationState::last_clock_values
  val,        \* the backend's value of every event signal
  bits,       \* the backend's triggered bits
  pc,         \* where step() is; "idle" between two steps
  popped,     \* events_to_process
  scheduled,  \* has_scheduled_event_signal
  sources,    \* scheduled_trigger_ids
  triggered,  \* triggered_domains (= discovered_in_this_step: ids are canonical)
  todo,       \* marked bits whose domain the inner loop has still to evaluate
  newly,      \* newly_triggered
  toApply,    \* members of newly not yet committed
  toFire,     \* members of newly whose external components have not fired
  combDone,   \* comb_already_done
  call,       \* the driver call in progress
  hist        \* history, read by properties only

schedVars == <<time, queue, clocks>>
stepVars == <<popped, scheduled, sources, triggered, todo, newly, toApply, toFire, combDone>>
vars == <<schedVars, last, val, bits, pc, stepVars, call, hist>>

Signals == Ids \cup Aliases
EventOf(s) == IF s \in Ids THEN s ELSE AliasOf[s]
NoCall == [kind |-> "none", end |-> 0, left |-> 0, ran |-> None]

(***************************************************************************)
(* The history: clocks registered (counted up to 2) and their origin per   *)
(* event, whether a caller ever named a time in the past, whether a step   *)
(* failed, what the last driver call returned; and, within a step, the     *)
(* domains committed, staged and fired, the commits each evaluation could  *)
(* see, and whether the combinational state is stale.                      *)
(***************************************************************************)
InitHist ==
  [regs |-> [i \in Ids |-> 0], origin |-> [i \in Ids |-> 0],
   past |-> FALSE, failed |-> FALSE, ret |-> NoCall,
   committed |-> {}, staged |-> {}, fired |-> {},
   saw |-> [i \in Ids |-> {}], stale |-> FALSE]

---------------------------------------------------------------------------
(* Scheduler *)

(* Faulty variant: the heap order is not reversed. *)
NextTimeLatest(q) == CHOOSE t \in {e.time : e \in BagToSet(q)} :
                       \A e \in BagToSet(q) : t >= e.time

NextTime(q) == CHOOSE t \in {e.time : e \in BagToSet(q)} :
                 \A e \in BagToSet(q) : t <= e.time

AtTime(q, t) == [e \in {x \in BagToSet(q) : x.time = t} |-> q[e]]

Pending == queue # EmptyBag

Push(e) == queue' = queue (+) SetToBag({e})

(* `1 - next_val' on u8, wrapping as a release build does. *)
Toggle(v) == (257 - v) % 256

(* Faulty variant: a whole period between two toggles. *)
RescheduleFullPeriod(e) ==
  [e EXCEPT !.time = @ + clocks[EventOf(e.sig)], !.val = Toggle(@)]

Reschedule(e) ==
  [e EXCEPT !.time = @ + clocks[EventOf(e.sig)] \div 2, !.val = Toggle(@)]

HasClock(e) == clocks[EventOf(e.sig)] # None

(* The successors of the popped events whose signal has a clock.  Different *)
(* events have different successors, so each keeps its number of copies.    *)
Rescheduled ==
  LET clocked == {e \in BagToSet(popped) : HasClock(e)}
  IN  [r \in {Reschedule(e) : e \in clocked} |->
         popped[CHOOSE e \in clocked : Reschedule(e) = r]]

---------------------------------------------------------------------------
(* Edge detection *)

Rises(was, is) == ~was /\ is
Falls(was, is) == was /\ ~is

(* replace_triggers_with_stable_edges: an unclassified event triggers on any change. *)
StableEdge(i, was, is) ==
  CASE Kind[i] \in {"ClockPosedge", "ResetAsyncHigh"} -> Rises(was, is)
    [] Kind[i] \in {"ClockNegedge", "ResetAsyncLow"} -> Falls(was, is)
    [] OTHER -> was # is

(* The scan of the popped events in step(): an unclassified event only on a rise. *)
ScheduledEdge(i, was, is) ==
  IF Kind[i] \in {"ClockNegedge", "ResetAsyncLow"} THEN Falls(was, is) ELSE Rises(was, is)

StableEdges(v) == {i \in Ids : StableEdge(i, i \in last, v[i] = 1)}

ScheduledEdges(evs) ==
  {i \in Ids : \E e \in evs : e.sig = i /\ ScheduledEdge(i, i \in last, e.val # 0)}

---------------------------------------------------------------------------
(* Backend kernels *)

(* What eval_comb may leave in the event signals: the driven ones are free. *)
Settled(v) == {w \in [Ids -> {0, 1}] : \A i \in Ids \ Derived : w[i] = v[i]}

(* set() for every popped event, in heap order: events of one signal at one *)
(* time are tied in that order, so any of their values may be the last.     *)
Written(evs) ==
  {w \in [Ids -> {0, 1}] :
     \A i \in Ids : LET on == {e \in evs : e.sig = i}
                    IN  IF on = {} THEN w[i] = val[i] ELSE \E e \in on : w[i] = e.val % 2}

---------------------------------------------------------------------------
Init ==
  /\ time = 0 /\ queue = EmptyBag /\ clocks = [i \in Ids |-> None]
  /\ val \in [Ids -> {0, 1}]
  /\ last = {i \in Ids : val[i] = 1}
  /\ bits = {} /\ pc = "idle"
  /\ popped = EmptyBag /\ scheduled = FALSE /\ sources = {} /\ triggered = {}
  /\ todo = {} /\ newly = {} /\ toApply = {} /\ toFire = {} /\ combDone = FALSE
  /\ call = NoCall /\ hist = InitHist

Times == 0..MaxTime
Idle == pc = "idle" /\ call = NoCall

(***************************************************************************)
(* The API between two driver calls.                                       *)
(***************************************************************************)
Pushes == BagCardinality(queue)

AddClock(s, period, initial_delay) ==
  /\ Idle /\ Pushes < MaxPush
  /\ clocks' = [clocks EXCEPT ![EventOf(s)] = period]
  /\ Push([time |-> initial_delay, sig |-> s, val |-> 1, src |-> "clock"])
  /\ hist' = [hist EXCEPT !.regs[EventOf(s)] = IF @ = 2 THEN 2 ELSE @ + 1,
                          !.origin[EventOf(s)] = initial_delay,
                          !.past = @ \/ initial_delay < time, !.ret = NoCall]
  /\ UNCHANGED <<time, last, val, bits, pc, stepVars, call>>

Schedule(s, t, v) ==
  /\ Idle /\ Pushes < MaxPush
  /\ Push([time |-> t, sig |-> s, val |-> v, src |-> "schedule"])
  /\ hist' = [hist EXCEPT !.past = @ \/ t < time, !.ret = NoCall]
  /\ UNCHANGED <<time, clocks, last, val, bits, pc, stepVars, call>>

(* modify (and the lazy settle that follows it) may change any event signal *)
(* without going through the scheduler.                                     *)
Modify ==
  /\ Idle /\ MayPoke
  /\ val' \in [Ids -> {0, 1}]
  /\ hist' = [hist EXCEPT !.ret = NoCall]
  /\ UNCHANGED <<schedVars, last, bits, pc, stepVars, call>>

SynchronizeEventValues ==
  /\ Idle /\ MayPoke
  /\ last' = {i \in Ids : val[i] = 1}
  /\ hist' = [hist EXCEPT !.ret = NoCall]
  /\ UNCHANGED <<schedVars, val, bits, pc, stepVars, call>>

Drive(kind, end, budget) ==
  /\ Idle /\ kind \in Calls
  /\ call' = [kind |-> kind, end |-> end, left |-> budget, ran |-> None]
  /\ hist' = [hist EXCEPT !.ret = NoCall,
                          !.past = @ \/ (kind = "run_until" /\ end < time)]
  /\ UNCHANGED <<schedVars, last, val, bits, pc, stepVars>>

CallStep == (Pending => NextTime(queue) <= MaxTime) /\ Drive("step", 0, 0)
CallRunUntil(end) == Drive("run_until", end, 0)
(* Its last step may be past the end: bounded by what waits when it is called. *)
CallRunUntilMax(end, max) ==
  (\A e \in BagToSet(queue) : e.time <= MaxTime) /\ Drive("runUntil", end, max)

(***************************************************************************)
(* The loop of the driver call: does it take another step?                 *)
(***************************************************************************)
(* Faulty variant: run_until stops short of end_time. *)
WantsStepExclusive ==
  CASE call.kind = "step" -> Pending
    [] call.kind = "run_until" -> Pending /\ NextTime(queue) < call.end
    [] call.kind = "runUntil" -> Pending /\ time < call.end
    [] OTHER -> FALSE

WantsStep ==
  CASE call.kind = "step" -> Pending
    [] call.kind = "run_until" -> Pending /\ NextTime(queue) <= call.end
    [] call.kind = "runUntil" -> Pending /\ time < call.end
    [] OTHER -> FALSE

CallReturns ==
  /\ pc = "idle" /\ call # NoCall /\ ~WantsStep
  /\ time' = IF call.kind = "run_until" THEN call.end ELSE time
  /\ call' = NoCall
  /\ hist' = [hist EXCEPT !.ret = call]
  /\ UNCHANGED <<queue, clocks, last, val, bits, pc, stepVars>>

(***************************************************************************)
(* SimulationState::step.                                                  *)
(***************************************************************************)
BeginStep ==
  /\ pc = "idle" /\ WantsStep
  /\ LET t == NextTime(queue)
         evs == BagToSet(AtTime(queue, t))
     IN  /\ time' = t
         /\ popped' = AtTime(queue, t)
         /\ queue' = queue (-) popped'
         /\ val' \in Written(evs)
         /\ sources' = ScheduledEdges(evs)
         /\ bits' = sources'
         /\ scheduled' = (\E e \in evs : e.sig \in Ids)
         /\ call' = [call EXCEPT !.ran = t]
  /\ pc' = "settle"
  /\ hist' = [hist EXCEPT !.stale = TRUE]
  /\ UNCHANGED <<clocks, last, triggered, todo, newly, toApply, toFire, combDone>>

(* The settle before any domain runs.  Edges the design derives from an     *)
(* active source are dropped here and looked for again after its commit.    *)
SettleInputs ==
  /\ pc = "settle"
  /\ val' \in Settled(val)
  /\ IF scheduled
     THEN bits' = IF sources = {} THEN StableEdges(val') ELSE sources
     ELSE \E marks \in SUBSET Ids : bits' = bits \cup marks
  /\ hist' = [hist EXCEPT !.stale = FALSE]
  /\ pc' = "discover"
  /\ UNCHANGED <<schedVars, last, stepVars, call>>

CanUseEvalApply ==
  triggered = {} /\ Cardinality(bits) = 1 /\ bits \cap Cascaded = {}

(* One kernel evaluates and commits the only triggered domain. *)
EvalApply ==
  /\ pc = "discover" /\ CanUseEvalApply
  /\ triggered' = bits
  /\ bits' \in SUBSET Ids
  /\ hist' = [hist EXCEPT !.staged = @ \cup triggered', !.committed = @ \cup triggered',
                          !.stale = TRUE]
  /\ toFire' = triggered'
  /\ pc' = "fastFire"
  /\ UNCHANGED <<schedVars, last, val, popped, scheduled, sources, todo, newly, toApply,
                 combDone, call>>

FireAfterEvalApply ==
  /\ pc = "fastFire"
  /\ hist' = [hist EXCEPT !.fired = @ \cup toFire]
  /\ toFire' = {}
  /\ pc' = "fastComb"
  /\ UNCHANGED <<schedVars, last, val, bits, popped, scheduled, sources, triggered, todo,
                 newly, toApply, combDone, call>>

(* Faulty variant: the kernel's own marks are kept after a commit. *)
EvalCombKeepsMarks ==
  /\ val' \in Settled(val)
  /\ \E marks \in SUBSET Ids : bits' = bits \cup marks
  /\ hist' = [hist EXCEPT !.stale = FALSE]

(* eval_comb, then the trigger bits: replaced by the stable edges when the  *)
(* step was started by an event signal, else whatever the kernel marked.    *)
EvalComb ==
  /\ val' \in Settled(val)
  /\ IF scheduled THEN bits' = StableEdges(val')
                  ELSE \E marks \in SUBSET Ids : bits' = bits \cup marks
  /\ hist' = [hist EXCEPT !.stale = FALSE]

CombAfterEvalApply ==
  /\ pc = "fastComb"
  /\ EvalComb
  /\ combDone' = TRUE
  /\ pc' = "comb"
  /\ UNCHANGED <<schedVars, last, popped, scheduled, sources, triggered, todo, newly,
                 toApply, toFire, call>>

(* Faulty variant: discovered domains are not remembered. *)
DiscoverAgain ==
  /\ pc = "discover" /\ ~CanUseEvalApply
  /\ bits' = {}
  /\ todo' = bits
  /\ pc' = IF todo' # {} THEN "eval" ELSE IF newly # {} THEN "apply" ELSE "finish"
  /\ toApply' = newly /\ toFire' = newly
  /\ UNCHANGED <<schedVars, last, val, popped, scheduled, sources, triggered, newly,
                 combDone, call, hist>>

(* The inner loop takes the marked bits; a pass that finds no new domain    *)
(* ends it, and a round without any new domain ends the step.  Without      *)
(* separate kernels there is no apply_event to commit with.                 *)
Discover ==
  /\ pc = "discover" /\ ~CanUseEvalApply
  /\ bits' = {}
  /\ todo' = bits \ triggered
  /\ pc' = IF todo' # {} THEN "eval" ELSE IF newly = {} THEN "finish"
           ELSE IF Split THEN "apply" ELSE "fire"
  /\ toApply' = (IF Split THEN newly ELSE {}) /\ toFire' = newly
  /\ UNCHANGED <<schedVars, last, val, popped, scheduled, sources, triggered, newly,
                 combDone, call, hist>>

(* Faulty variant: the combined kernel, which also commits, is used here. *)
EvalOnlyCommits(d) ==
  /\ pc = "eval" /\ d \in todo
  /\ todo' = todo \ {d}
  /\ triggered' = triggered \cup {d}
  /\ newly' = newly \cup {d}
  /\ \E marks \in SUBSET Ids : bits' = bits \cup marks
  /\ hist' = [hist EXCEPT !.staged = @ \cup {d}, !.saw[d] = hist.committed,
                          !.committed = @ \cup {d}]
  /\ pc' = IF todo' = {} THEN "discover" ELSE "eval"
  /\ UNCHANGED <<schedVars, last, val, popped, scheduled, sources, toApply, toFire,
                 combDone, call>>

(* A domain without eval_only_event is evaluated and committed at once.     *)
EvalOnly(d) ==
  /\ pc = "eval" /\ d \in todo
  /\ todo' = todo \ {d}
  /\ triggered' = triggered \cup {d}
  /\ newly' = newly \cup {d}
  /\ \E marks \in SUBSET Ids : bits' = bits \cup marks
  /\ hist' = [hist EXCEPT !.staged = @ \cup {d}, !.saw[d] = hist.committed,
                          !.committed = IF Split THEN @ ELSE @ \cup {d},
                          !.stale = @ \/ ~Split]
  /\ pc' = IF todo' = {} THEN "discover" ELSE "eval"
  /\ UNCHANGED <<schedVars, last, val, popped, scheduled, sources, toApply, toFire,
                 combDone, call>>

(* Faulty variant: components fire as soon as one domain has committed. *)
ApplyThenFire(d) ==
  /\ pc = "apply" /\ d \in toApply
  /\ toApply' = toApply \ {d}
  /\ \E marks \in SUBSET Ids : bits' = bits \cup marks
  /\ hist' = [hist EXCEPT !.committed = @ \cup {d}, !.stale = TRUE]
  /\ pc' = "fire"
  /\ UNCHANGED <<schedVars, last, val, popped, scheduled, sources, triggered, todo, newly,
                 toFire, combDone, call>>

Apply(d) ==
  /\ pc = "apply" /\ d \in toApply
  /\ toApply' = toApply \ {d}
  /\ \E marks \in SUBSET Ids : bits' = bits \cup marks
  /\ hist' = [hist EXCEPT !.committed = @ \cup {d}, !.stale = TRUE]
  /\ pc' = IF toApply' = {} THEN "fire" ELSE "apply"
  /\ UNCHANGED <<schedVars, last, val, popped, scheduled, sources, triggered, todo, newly,
                 toFire, combDone, call>>

Fire(d) ==
  /\ pc = "fire" /\ d \in toFire
  /\ toFire' = toFire \ {d}
  /\ hist' = [hist EXCEPT !.fired = @ \cup {d}, !.stale = TRUE]
  /\ pc' = IF toFire' = {} THEN "comb" ELSE "fire"
  /\ UNCHANGED <<schedVars, last, val, bits, popped, scheduled, sources, triggered, todo,
                 newly, toApply, combDone, call>>

(* Faulty variant: comb_already_done is never reset. *)
EndRoundSticky ==
  /\ pc = "comb"
  /\ IF combDone THEN UNCHANGED <<val, bits, hist>> ELSE EvalComb
  /\ newly' = {}
  /\ pc' = "discover"
  /\ UNCHANGED <<schedVars, last, popped, scheduled, sources, triggered, todo, toApply,
                 toFire, combDone, call>>

EndRound ==
  /\ pc = "comb"
  /\ IF combDone THEN combDone' = FALSE /\ UNCHANGED <<val, bits, hist>>
                 ELSE EvalComb /\ UNCHANGED combDone
  /\ newly' = {}
  /\ pc' = "discover"
  /\ UNCHANGED <<schedVars, last, popped, scheduled, sources, triggered, todo, toApply,
                 toFire, call>>

(* step() returns: its locals go out of scope. *)
LeaveStep ==
  /\ popped' = EmptyBag /\ scheduled' = FALSE /\ sources' = {} /\ triggered' = {}
  /\ todo' = {} /\ newly' = {} /\ toApply' = {} /\ toFire' = {} /\ combDone' = FALSE

ForgetStep ==
  [hist EXCEPT !.committed = {}, !.staged = {}, !.fired = {},
               !.saw = [i \in Ids |-> {}], !.stale = FALSE]

(* The step-counted runUntil throws once its budget is used up. *)
FinishStep ==
  /\ pc = "finish"
  /\ last' = {i \in Ids : val[i] = 1}
  /\ queue' = queue (+) Rescheduled
  /\ pc' = "idle"
  /\ LeaveStep
  /\ hist' = [ForgetStep EXCEPT !.ret = IF call.kind = "step" THEN call ELSE @]
  /\ call' = IF call.kind = "step" \/ (call.kind = "runUntil" /\ call.left = 1)
             THEN NoCall
             ELSE [call EXCEPT !.left = IF call.kind = "runUntil" THEN @ - 1 ELSE @]
  /\ UNCHANGED <<time, clocks, val, bits>>

(* An executor call returns an error: the step and the driver call are      *)
(* abandoned; the popped events are gone and nothing is rescheduled.        *)
Fail ==
  /\ MayFail
  /\ pc \in {"settle", "fastFire", "fastComb", "eval", "apply", "fire"}
       \/ (pc = "discover" /\ CanUseEvalApply) \/ (pc = "comb" /\ ~combDone)
  /\ pc' = "idle" /\ call' = NoCall
  /\ LeaveStep
  /\ val' \in Settled(val)
  /\ hist' = [ForgetStep EXCEPT !.failed = TRUE]
  /\ UNCHANGED <<schedVars, last, bits>>

Next ==
  \/ \E s \in Signals, p \in Periods, t \in Times : AddClock(s, p, t)
  \/ \E s \in Signals, t \in Times, v \in Values : Schedule(s, t, v)
  \/ Modify
  \/ SynchronizeEventValues
  \/ CallStep
  \/ \E end \in Times : CallRunUntil(end)
  \/ \E end \in Times, max \in MaxSteps : CallRunUntilMax(end, max)
  \/ CallReturns
  \/ BeginStep
  \/ SettleInputs
  \/ EvalApply
  \/ FireAfterEvalApply
  \/ CombAfterEvalApply
  \/ Discover
  \/ \E d \in Ids : EvalOnly(d)
  \/ \E d \in Ids : Apply(d)
  \/ \E d \in Ids : Fire(d)
  \/ EndRound
  \/ FinishStep
  \/ Fail

Spec == Init /\ [][Next]_vars

(* The engine runs on the caller's thread: once a driver call has started,  *)
(* nothing but the call itself can stop it.                                 *)
Engine ==
  \/ CallReturns \/ BeginStep \/ SettleInputs \/ EvalApply \/ FireAfterEvalApply
  \/ CombAfterEvalApply \/ Discover \/ EndRound \/ FinishStep
  \/ \E d \in Ids : EvalOnly(d) \/ Apply(d) \/ Fire(d)

FairSpec == Spec /\ WF_vars(Engine)

---------------------------------------------------------------------------
(* Properties *)

SimEvent == [time : Nat, sig : Signals, val : 0..255, src : {"clock", "schedule"}]
DriverCall == [kind : {"none", "step", "run_until", "runUntil"}, end : Nat, left : Nat,
               ran : Nat \cup {None}]
History ==
  [regs : [Ids -> 0..2], origin : [Ids -> Nat], past : BOOLEAN, failed : BOOLEAN,
   ret : DriverCall, committed : SUBSET Ids, staged : SUBSET Ids, fired : SUBSET Ids,
   saw : [Ids -> SUBSET Ids], stale : BOOLEAN]

(* Every variable has the type of the code's field it stands for, and the   *)
(* locals of step() hold event ids.                                         *)
TypeOK ==
  /\ time \in Nat
  /\ BagToSet(queue) \subseteq SimEvent /\ BagToSet(popped) \subseteq SimEvent
  /\ clocks \in [Ids -> Nat \cup {None}]
  /\ val \in [Ids -> {0, 1}]
  /\ last \subseteq Ids /\ bits \subseteq Ids /\ sources \subseteq Ids
  /\ triggered \subseteq Ids /\ todo \subseteq Ids /\ newly \subseteq Ids
  /\ toApply \subseteq Ids /\ toFire \subseteq Ids
  /\ pc \in {"idle", "settle", "discover", "fastFire", "fastComb", "eval", "apply",
             "fire", "comb", "finish"}
  /\ scheduled \in BOOLEAN /\ combDone \in BOOLEAN
  /\ call \in DriverCall /\ hist \in History

(* No edge is lost: when step() is about to store last_clock_values and     *)
(* return, every event whose signal ends the step on the other side of its  *)
(* active edge has had its domain run, also edges that only appeared after  *)
(* a commit or that a caller made with modify before the step.              *)
NoLostEdge ==
  pc = "finish" /\ scheduled => StableEdges(val) \subseteq triggered

(* All domains of one round that have flip-flops read the same committed    *)
(* state, namely the commits of earlier rounds: evaluate and commit are     *)
(* separate phases where the design has the kernels for it, and where it    *)
(* has not no other domain's commit can be seen.                            *)
RoundReadsOneState ==
  \A d \in newly \cap Active :
    hist.saw[d] \cap Active = (triggered \ newly) \cap Active

(* A domain's external components are staged when it is evaluated and fire  *)
(* once it and every other domain of its round has committed; a step that   *)
(* returns normally has committed and fired exactly the domains it ran.     *)
ComponentsFireAfterCommit ==
  /\ hist.fired \subseteq hist.committed /\ hist.committed \subseteq hist.staged
  /\ hist.fired \cap newly # {} => newly \subseteq hist.committed
  /\ pc = "finish" => hist.fired = triggered /\ hist.committed = triggered

(* finish_timed_step clears the dirty flag and dumps the waveform, so the   *)
(* combinational state must be settled after the last commit or component   *)
(* write of the step.  It also is when a round begins, and stays so while   *)
(* domains are only evaluated.                                              *)
SettledAtFinish ==
  pc \in {"discover", "eval", "finish"} /\ (Split \/ newly = {}) => ~hist.stale

(* run_until(end) returns with every event up to and including end          *)
(* processed and none beyond it.  The step-counted runUntil looks at the    *)
(* time reached instead of the next event: when it returns within its       *)
(* budget it has left no event earlier than end, unless a caller named a    *)
(* time in the past.                                                        *)
RunUntilProcessesExactly ==
  /\ hist.ret.kind = "run_until" =>
       /\ \A e \in BagToSet(queue) : e.time > hist.ret.end
       /\ hist.ret.ran <= hist.ret.end
  /\ hist.ret.kind = "runUntil" /\ ~hist.past =>
       \A e \in BagToSet(queue) : e.time >= hist.ret.end

(* As long as no caller names a time in the past, no event is overtaken:    *)
(* what waits in the queue is never earlier than the simulation time.       *)
NeverOvertaken ==
  ~hist.past => \A e \in BagToSet(queue) : e.time >= time

ClockToggles(c) ==
  {e \in BagToSet(queue (+) popped) : EventOf(e.sig) = c /\ e.src = "clock"}

(* A clock that was registered once has exactly one toggle waiting or being *)
(* processed, a whole number of periods after initial_delay when it is a    *)
(* rise and half a period later when a fall: no sequence of steps, and no   *)
(* event scheduled by hand on the same signal, loses, doubles or shifts it, *)
(* unless a step failed.                                                    *)
ClockKeepsPhase ==
  \A c \in Ids :
    hist.regs[c] = 1 /\ clocks[c] > 0 /\ ~hist.failed =>
      /\ Cardinality(ClockToggles(c)) = 1
      /\ \A e \in ClockToggles(c) :
           /\ (queue (+) popped)[e] = 1
           /\ e.time >= hist.origin[c]
           /\ e.val \in {0, 1}
           /\ (e.time - hist.origin[c]) % clocks[c]
                = IF e.val = 1 THEN 0 ELSE clocks[c] \div 2

(* A driver call returns.  Every round of a step runs a domain not yet run, *)
(* run_until over clocks with a period of at least two sees every toggle    *)
(* move later, and the step-counted runUntil stops at its budget.           *)
DriverCallReturns == (call # NoCall) ~> (call = NoCall)
=============================================================================
