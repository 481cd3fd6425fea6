# A TLA+ model of the Celox runtime

Celox compiles Veryl and SystemVerilog designs into simulation kernels and runs
them with an event-driven runtime. The modules here model that runtime: the
timed engine that decides which clock domains run when; the `Simulator`, which
postpones settling until somebody looks; the TypeScript DUT, which reads and
writes the same memory behind its back; the executor of native testbenches with
its external components; the lock-free ring that carries `$display` and
assertion events out of compiled code; and the VPI layer through which cocotb
tests write signals and receive callbacks. TLC checks the models on small
instances; TLAPS proves the safety of each for every value of its constants.

Definitions keep the names of the code where TLA+ allows it, and
`PROJECT.json` maps each to its lines. Definitions introduced as "Faulty
variant" are never used by a specification: each is the form a plausible bug
would give to the definition after it, and shows that a property is sensitive
to that bug.

## Inventory

| Component | State it keeps | Operations | Correct when | Model |
|---|---|---|---|---|
| Scheduler (`celox-runtime/src/scheduler.rs`) | time, heap of `SimEvent`, clock table | push, next time, pop all at one time | events leave in time order | TimedSimulation |
| Timed engine (`celox-runtime/src/simulation.rs`) | last clock values, the locals of `step` | `add_clock`, `step` | no edge lost, a round reads one committed state, components fire after commit, the step ends settled | TimedSimulation |
| Simulation API (`celox/src/simulation.rs`, `packages/celox/src/simulation.ts`) | the call in progress | `add_clock`, `schedule`, `modify`, `step`, `run_until`, `runUntil(maxSteps)`, the waits, `reset` | exactly the events up to the end time are processed; calls return | TimedSimulation, DutAccess (partly: no VCD) |
| Simulator (`celox/src/simulator.rs`) | dirty flag, backend, observer snapshots | set, modify, get, dump, drains, `eval_comb`, plain, deferred and batched ticks | lazy settling cannot be told from settling at once; an `always_comb` display appears once per change | LazySimulator, EagerSimulator, DesignEval |
| TypeScript DUT and Node bindings (`packages/celox/src`, `celox-napi`) | shared buffer, second dirty flag | accessors, tick, step, `runUntil`, waits, reset, dump, dispose | reads see settled values | DutAccess (partly) |
| Testbench executor (`celox/src/testbench.rs`) | results, ticks, statement in progress | statements, edges, drains, verdict | the verdict is what happened; ticks are edges | Testbench (partly: not expressions, nor the arithmetic of `for`) |
| Components (`celox/src/component.rs`) | live instances, host buffers | initialize, fire, `call_method`, reset cycles, finish | memory holds what they drive, `on_finish` once | Testbench (partly: not loading, nor WASM hosts) |
| Runtime event ring (`event_buffer.rs`, `celox/src/simulator.rs`, code generators) | sequence words, slots, read cursor and its owner | write an event, drain, open and drop a `RuntimeEventDrain` | no torn event, each event delivered or reported missed once | RuntimeEventRing, EventLog |
| VPI writes (`celox-vpi/src/lib.rs`) | pending deposits and edge batches, forced values | `vpi_put_value`, `flush_pending_writes` | last write stands, each edge replayed once, with its data, and only if real | VpiWrites |
| VPI callbacks (`celox-vpi/src/callbacks.rs`) | registrations, the one being fired, time, finish, error | register, remove, control, reset, `run` | region order, no removed callback fires, handles freed once, finish ends the run | VpiCallbacks |
| VCD writer, reflection, image loading, CLI | files, tables | I/O | | not modelled |
| Frontends, SLT/SIR, optimizer, code generators | none over time | translation | output equivalent to input | not modelled |
| Vite plugin, playground, type generation, benchmarks | | tooling | | not modelled |

Interaction: `Simulation` drives the engine, which calls the backend's kernels
through an executor and, through it, the components. `Simulator` calls the same
kernels without a queue. The TypeScript DUT writes ports into the backend's
memory directly, so the native side does not see those writes and each side
keeps a mark of its own. The testbench executor drives a `Simulator` statement
by statement, exchanges signals with the components around every edge and reads
failures out of the ring. Kernels write events into the ring; the simulator
thread or a second thread drains it. The VPI layer replaces `Simulation`:
foreign code writes through `vpi_put_value`, `run` fires its callbacks and
flushes their writes between regions, and a flush may dispatch callbacks itself
and call itself for what they write.

What is hard in this code: rounds within one time step whose edges the design
produces itself; executor failures in the middle of a step; evaluations that
are postponed behind two separate flags; failures of components that must reach
the verdict; a reader and a writer sharing memory without a lock; callbacks
that register, remove and write from inside the machinery that is firing them.
The hazard list in `PROJECT.json` names each place and the property aimed at it.

## Modules

**TimedSimulation.** One action per phase of `SimulationState::step`
(`BeginStep`, `SettleInputs`, the combined kernel path `EvalApply` to
`CombAfterEvalApply`, the split path `Discover`, `EvalOnly`, `Apply`, `Fire`,
`EndRound`, and `FinishStep`), an action for each API call, and `Fail`, by which any
executor call abandons the step. The design is abstract: kernels give `Derived`
signals any value and leave any trigger bit marked, so a property checked of the
engine does not lean on a well-behaved design. `Split` says whether the design
has kernels of its own to evaluate and to commit. Without them `EvalOnly` evaluates
and commits at once (`simulation.rs:307`) and nothing is left to apply; the
compiler does so only where at most one domain has flip-flops (`Active`) and no clock
is cascaded, which is `SplitAssumption`. The queue is a bag, since the
heap's order among equal times is not defined. History lives in `hist` and is
read by properties only.

**DesignEval** is the design as a simulator sees it: `Comb` (what settling
gives for inputs and registers), `Ff` (what an edge of a domain gives), and the
combinations on which an evaluation reports a true loop (`Loops`) or a fatal
assertion (`Fatals`). Both stop the pass where they occur, so the driven signals
may then be anything between old and new. **EagerSimulator** is the promise made to a user of
any simulator: writes and edges take effect at once, observations are of the
settled design. Its `sound` is false only before a first evaluation and after an
edge that reported an error; then it promises nothing.

**LazySimulator.** `celox/src/simulator.rs` over DesignEval: each call as an
action, the dirty flag, and the snapshots that decide whether a group of
`always_comb` observers publishes again. A fatal assertion is one of the group's own
sites: it ends the pass only when the group is enabled, and the group then publishes
nothing more. `broken` remembers that an evaluation failed after the flag had been
cleared, `failed` that a pass was left before the group could publish.

**DutAccess.** The TypeScript DUT with its two owners: `Simulator`, whose native
handle keeps no mark, and `Simulation`, whose native side has its own
(`native`). `doubt` records the history of why a clear mark may be wrong:
nothing was evaluated yet (cold), an evaluation failed (failed), the mark was
cleared by a call that evaluated nothing (forgotten), or the bare back end took a
failing assertion for success (silent): the compiled pass returns the number of
the fatal site as its code, and the code of site 0 is that of success
(`native/backend.rs:2301`). `Silent` names the combinations where site 0 fails; the errors of
flip-flops have codes of their own.

**Testbench.** A run from `initialize` over any sequence of statements to
`on_finish` and the verdict, statement by what it evaluates, stores, publishes
and drains. Hooks and methods of components are foreign code that may drive
their output, fail, or request the finish. A cycle of a clock triggers its event
and any the design derives from it (`Follows`); a firing reaches the components of
that event and is a reset for those whose reset is the active one. A component
has at most one clock and one reset event here, and one output. Nothing is
assumed of the number of edges the backend says it has completed: none, or more
than asked for, fails the run. A cycle counts as a tick also when the settlement before it
failed, as in the code. `If` and `For` only choose the
next statement, so an arbitrary sequence stands for them.

**RuntimeEventRing.** The writer store by store and the reader load by load.
`MarkFirst` says whether the store of `RUNTIME_EVENT_WRITING` becomes visible
before the stores that follow it (x86-64, and the exchanges Cranelift emits), or
may be overtaken (a release store on arm64). A word is the number of the event
it was written for, which is all that tearing is about. **EventLog** is its
abstraction: a log whose one reader takes whole events in order and may only
give up those more than `Capacity` behind.

**VpiWrites.** `PENDING_WRITES` with its edge batches, `FORCED_VALUES`, and
`flush_pending_writes` as a stack of frames, because it calls itself. Values
are the logic level of bit 0, which is what edges depend on. `Driven` signals are
outputs and registers; they may be clocks as well, since the reflection gives
every signal its domain kind. Foreign code may write at every point where it is
given control; `WriteDepth` limits how deep inside nested flushes. `hist.last` is
what was last deposited, and `hist.stray` the signals whose last deposit the code
loses (below).

**VpiCallbacks.** Registrations, the callback being fired, and every region of
`run` with its early exits. The flush is abstracted to settlements that may
change the watched signals arbitrarily, with a dispatch after each but the
last; VpiWrites is its detail.

The modules named `MC...` give the model values, functions and small designs the
configurations use; those named `..._proofs` hold the theorems.

## Runs

| Run | Shows |
|---|---|
| `timed_step` | Separate kernels: clock, derived clock, asynchronous reset and an aliased port; pokes between steps and a failure anywhere. No edge is lost, a round reads one state, components fire after the commit, the step ends settled. |
| `timed_run` | No separate kernels: single steps, `run_until` and the step-counted `runUntil` mixed: `run_until` processes exactly the events up to its end, in order; clocks with even periods keep their phase; every call returns. |
| `simulator_settle` | Writes, reads, drains and all kinds of tick in any order, with true loops, fatal assertions and failing flip-flops: a clear flag means settled signals unless a call has failed, the lazy simulator implements the eager one, and a display is published once for every change and only then, but for what a failing assertion cuts off. |
| `dut_mark` | Port accesses mixed with ticks, steps, runs and resets under both owners: the DUT's mark is right wherever nothing cleared it without a whole evaluation, and under `Simulator` the DUT implements the eager simulator. |
| `testbench_verdict` | Two components on a clock and on one derived from it, two reset generators, failing hooks, methods, evaluations and edges, a tick limit, two runs of one simulator: a run passes only if nothing it was told was a failure and fails only for a reason, ticks are the cycles asked for whatever the backend reports, each component counts the edges of its own clock outside its own reset, memory and components stay in step, `on_finish` runs once, every run ends. |
| `ring_ordered` | Two slots, six events: three laps under a concurrent reader. No torn event, exact accounting, complete quiet drains, drains return, and the ring implements EventLog. |
| `vpi_replay` | Six writes of a four-state clock and a data input before, between and inside replays: the last deposit stands, no edge lost, none invented, each sees the data it was written with. |
| `vpi_force` | Any order of deposit, force and release on an input clock and on a register that is a clock too, from callbacks up to two flushes deep: the last deposit or the forced value stands, outside the two cases below. |
| `vpi_regions` | Three callbacks of any reason, with removals, writes, finishes and failing settlements: regions start only when everything before them is done, timers fire on time, removed callbacks stay silent, handles are freed once, a finish leaves only the end region. |
| `vpi_run_ends` | Callbacks that write and register others for ever: a finish ends the run all the same; without one the run returns unless callbacks write, or register read-write synchronisations, again and again. |
| `dut_stale`, `testbench_undrained` | See the disagreements below. |

`TypeOK` of each module is proved, for every instance, and so is not an
invariant of a run.

Bounds. Three event ids and one time are enough for a step, whose rounds
depend on nothing but ids; `timed_run` uses times up to 2 and even periods 2 and 4,
so that toggles and one-shots meet at and beyond the end time. The designs of
`simulator_settle` and `dut_mark` have three and four input valuations (the DUT's
with a reset bit), two register states, two events, one looping combination and one
fatal one (the DUT's two, one of them silent), so that each failure is reachable from and followed by good
states; batches of up to three ticks have a first, a middle and a last.
`testbench_verdict` has benches with no component, one without events and two with,
one value that an output can be given, cycle counts 0 and 2, a limit of 2 edges or none, and two statements in
each of two runs, so that a limit is met inside a statement and what one run
leaves reaches the next; `testbench_undrained` takes three statements of one run.
Two slots give both the slot being read and the slot being written; six events
make each slot be rewritten twice. Six writes allow three transitions of one
clock with data between them plus a callback's answer; `vpi_force` takes five, and
two flushes deep.
Three callbacks cover a batch in which one removes another while a third waits.
`vpi_run_ends` has two ids, but no bound on registrations: `Renumber` of
MCVpiCallbacks drops the ids nobody holds any more, closes up the others in their
order and counts time from now, since the code looks only at the order of ids and
the differences of times.
`MaxIter`, `SettleLimit` stand for 1,000,000 in the code; they are reached, so
the cap paths are exercised.

Fairness. `TimedSimulation!FairSpec` assumes that a step, once begun, goes on
(one thread, no waiting); it assumes nothing of callers.
`RuntimeEventRing!FairSpec` assumes only that a thread inside a drain keeps
running, never the writer. `MCVpiCallbacks!EndlessSpec` assumes that `run` goes on
and that each callback returns; it does not assume that foreign code stops.
`Testbench!FairSpec` assumes that the one thread that executes a testbench
keeps running and that hooks return: `run_testbench` gives control back only
when the run is over.

Deadlock checking stays on where a system can always be called again. It is off
in the DUT runs, where `dispose` ends the DUT, and in the testbench runs, which
stop with the last run that `MaxRuns` allows.

### Disagreements with the repository's own words

Two are checked as runs in which TLC finds the violation:

| Run | What happens |
|---|---|
| `dut_stale` | `Simulation.step`, `runUntil` with nothing due, and `reset` clear the DUT's mark although nothing was evaluated since the last write; the next read of an output returns the old value. |
| `testbench_undrained` | The `$assert_continue` of an `always_comb` process fails in an evaluation that a statement asked for; only edges and failing testbench asserts drain the ring, so a failure after the last edge is not in the result, the run passes, and the event turns up in the next run. |

Others were met while modelling and are excluded by the constants or the
wording of a property, as the comment beside each says:

- `runUntil` with `maxSteps` looks at the time reached, not at the next event:
  it leaves events at `endTime` or processes one beyond. `RunUntilProcessesExactly`
  claims for it only that nothing before `endTime` is left.
- `schedule` on a signal with a clock starts a second permanent toggle stream.
- On arm64 the writing mark is a release store, which payload stores may
  overtake: with `MarkFirst = FALSE` the ring delivers a torn event.
- A write from a callback two flushes deep is replaced by an older one when a flush
  further out has a write of the same signal: a nested flush hands outwards what it
  was called for, not what its own callbacks wrote (`celox-vpi/src/lib.rs:1250`).
  `LastWriteWins` exempts such a write (`hist.stray`). A clock moved there runs its
  domain once more for an edge that is already over, which is why `EdgesAreReal`
  is checked with `WriteDepth = 1`.
- A force takes what the backend holds for the value to release to (`lib.rs:1106`). When a
  callback forces in the middle of a replay that is the value of an older batch, and
  the release returns to it instead of to the last deposit. `LastWriteWins`
  exempts the signal until it is deposited again.
- A signal first written after the batch of a queued edge has closed is seen by that
  edge; `EdgeSeesItsData` speaks of the signals written before, other than those
  forced, driven, or written again by callbacks of earlier batches. When that signal
  is itself a clock, the earlier settlement shows its new level already, and its own
  batch then runs the domain without a transition between settlements:
  `EdgesAreReal` exempts it (`hist.ahead`). With one event signal, as in
  `vpi_replay`, the exemption is empty. It exempts clocks that the design drives,
  too: what those settle to is the design's.
- The TypeScript `Simulator.dump` writes memory that was never settled, and the
  native handles start with a clear mark although nothing was evaluated
  (the doubt `cold` of DutAccess). `fourState` reads memory as it is, marked or
  not.
- A fatal assertion with the site number 0 looks like success to the Node binding of
  the plain simulator: the DUT clears its mark over a pass that was left in the middle
  (the doubt `silent`).
- What a failing assertion cuts off an `always_comb` display is lost: the later
  display does not appear in the next drain either (`EveryChangeIsShown` exempts it).
- A tick whose last evaluation fails, or a repeated `eval_comb` that fails, leaves
  the flag clear over unsettled signals (`broken` in LazySimulator): reads return them without a
  second error.
- `on_finish` is not called when `initialize` or the registration of the VCD
  signals fails, and a run that stops inside a reset leaves the reset
  asserted.

Where a property is narrower than what a reader may expect, the code is the
reason:

- `ClockKeepsPhase` is checked for even periods. Toggles are `period / 2` apart
  in integer arithmetic, so an odd period P runs as P - 1
  (`celox-runtime/src/simulation.rs:363`).
- `DriverCallReturns` is checked for periods of at least two. With 0 or 1 the
  next toggle is due at the current time and `run_until` does not return.
- `RoundReadsOneState` speaks of domains with flip-flops: the kernels of others are empty.
- `TicksAreCounted` counts cycles asked for. An edge that fails because the
  settlement before it did is counted although the design did not see it.
- `NoLostEdge` says that a domain on a clock derived from a scheduled one runs,
  not that it reads the state from before its source's commit: it does not
  (`docs/internals/cascade-limitations.md`).
- `RefinesEager` of DutAccess is claimed under `Simulator` only; under
  `Simulation` the run `dut_stale` is the counterexample.
- `VerdictIsEarned` speaks of what the run was told. That it was told everything
  is `PassMeansNoFailure`, which fails.
- `OnlyEndAfterFinish` is checked for a finish requested during `run`
  (`EarlyFinish = FALSE`). When it was requested before, `fire_all` looks at it
  only after the first start callback has fired.
- `QuietRunReturns` exempts callbacks that write again and again, and read-write
  callbacks that register another each time they fire: the cap on scheduler
  iterations (`callbacks.rs:292`) does not count the turns of the inner loop
  (`callbacks.rs:310`), so neither is ever stopped, unless by a finish. Without either
  exemption TLC finds the run that does not return.
- `NextStepIsLater` exempts runs in which a read-only callback wrote, which VPI
  forbids and the code does not: the write is flushed in the next iteration, and
  a timer of delay 0 set inside that flush makes the scheduler fire the
  next-time-step callbacks without moving time.

## Proofs

Every theorem holds for all values of the constants, from the assumptions named
in the modules (`RingAssumption`, `HostAssumption`, `TestbenchAssumption` and
their like: sets of the right kind, bounds that are numbers; and `SplitAssumption`, what
the compiler guarantees of designs without separate kernels) and, where the
text below says so, one more hypothesis. In each module a conjunction of named parts
is shown to hold initially and to be preserved by every action, one lemma for
each action and part that it can disturb; the properties then follow.

| Module | Inductive invariant | Theorems |
|---|---|---|
| `RuntimeEventRing_proofs` | types; for tearing `TornInv` = `SlotIntact`, `WriterProgress`, `ReaderProgress`; for quiet drains `QuietInv` = `Retained`, `Window` | `TypeCorrect`, `NoTorn`, `Accounting`, `MissedIsHonest`, `QuietDrainReadsAll`, `RingImplementsLog` |
| `LazySimulator_proofs` | types, settled when clean, a broken simulator is clean, a call in progress is dirty; for observers `ObsInv` | `TypeCorrect`, `MarkIsTrue`, `LazyImplementsEager`, `ChangesAreShown`, `ShownOnce` |
| `DutAccess_proofs` | types, `CleanIsSettled`, the native mark is only `Simulation`'s, a batch of ticks only `Simulator`'s | `TypeCorrect`, `MarkIsTrue`, `DutImplementsEager` |
| `Testbench_proofs` | types, `HistOK`, `Phase`, `Told`, `Ticks`, `OutputsInSync`, `CyclesCountEdges` | `TypeCorrect`, `VerdictIsHonest`, `TicksCorrect`, `ComponentsInStep`, `EdgesAreCounted`, `FinishOnce` |
| `TimedSimulation_proofs` | types, `Phases`, `RoundReadsOneState`, `EdgesKept`, `Order`; for clocks `Toggling` | `TypeCorrect`, `EdgesAreNotLost`, `RoundsReadOneState`, `ComponentsFireLate`, `FinishIsSettled`, `QueueNeverOvertaken`, `RunUntilIsExact`, `ClocksKeepPhase` |
| `VpiCallbacks_proofs` | types, `HandlesFreedOnce`, `ControlOK`, `Removals`, `Batch`, `Timers`, `Given`, `ReadOnly`, `Finishing`, `QuietIteration` | `TypeCorrect`, `HandlesAreFreedOnce`, `RemovedStaySilent`, `ChangesAreDelivered`, `TimersAreOnTime`, `ReadOnlyIsSettled`, `TimeWaits`, `NextStepComesLater`, `FinishLeavesTheEnd` |
| `VpiWrites_proofs` | types, `DataKept`, `EdgeSeesItsData` | `TypeCorrect`, `EdgesSeeTheirData` |
| `VpiReplay_proofs` | those, and `EdgesWait`; `Layers`, `ForcedHold`, `LastStands`; `Nesting`, `NoneForced`, `EdgesHold` | `EdgesRunOnce`, `LastWriteStays`, `ReplayedEdgesAreReal` |

Why the strengthenings are needed:

- `NoTorn` and `RingImplementsLog` assume `MarkFirst`, without which they are
  false. A reader holding half of an old event is only harmless because the
  slot's sequence word can no longer equal its cursor: a slot whose sequence
  word names an event holds its words, a writer past its mark keeps the mark in
  place, and what the reader has taken is right while the slot is still
  published under its cursor. `Accounting` and `MissedIsHonest` need neither the
  hypothesis nor the strengthening. `QuietDrainReadsAll` needs no hypothesis
  either: an idle writer has left every slot of the last lap published
  (`Retained`), and what a drain has yet to read is at most one lap before its
  limit (`Window`), so an undisturbed reader never finds a reason to stop early.
- The refinements to EagerSimulator map inputs and registers to themselves and
  `sound` to `~broken`, or to the owner `Simulator` and no doubt; a dump and a
  raw read of the DUT count as calls that promise nothing. They need that an observation only happens
  on a clean, hence settled, memory, and that a failing call leaves the flag set
  or the simulator recorded as broken.
- In Testbench the verdict is computed at the end from flags collected on the
  way, so `Told` relates those flags to the history at every point where a call
  is in progress, and `Phase` says which of them can be set where.
- In TimedSimulation `Phases` says what has been evaluated, committed and fired
  at each point of `step`; `EdgesKept`, which is `NoLostEdge` for a step under
  way, that the search for new edges does not end before all have run; `Order`
  relates the queue to the time and to the call in progress. `ClocksKeepPhase`
  assumes even periods. `Toggling` says that a clock registered once has one toggle
  in queue and popped events together, counted with its copies, and where on the
  grid it is; it is preserved because two events rescheduled in one step stay
  different, so that the bag of successors has no more copies than the bag popped.
- In VpiCallbacks `Removals` and `Batch` relate the ids a batch collected to the
  table that callbacks have changed since. `FinishLeavesTheEnd` assumes that no
  finish was requested before `run`.
- In VpiWrites a queued edge carries its data in its batch while later writes
  have already reached the backend, so `DataKept` says that every batch waiting
  in some frame still has its values and that nothing is pending while
  a settlement runs.
- `EdgesRunOnce` holds at any depth. `EdgesWait` says that the count of edges due is
  the number of batches with that edge, pending or in some frame still to be
  replayed. A waiting batch is identified by its frame and the number of batches
  after it, which replaying those before it does not change.
- `LastWriteStays` holds at any depth, with forces and releases. `LastStands` says of
  every moment which of the pending deposits, the flushes in progress and the
  backend decides what will stay of a signal; `Layers` that a pending write that is
  not lost is held by no flush but the innermost; `ForcedHold` that a forced signal keeps its value and
  its missed deposit.
- `ReplayedEdgesAreReal` assumes `WriteDepth <= 1`, beyond which TLC refutes it with two
  event signals. `Nesting` says what the two frames then look like: the inner one ends
  with what the outer one has noted as nested. It also assumes that nothing is forced, as
  the property does.
  `EdgesHold` says that each queued edge starts from what the batch before it puts
  back, and the first of a flush from what the last settlement showed, unless a
  callback wrote the signal, in which case the replay looks at the edge
  again. That the backend already has later values is why the pending part
  (`PendingReal`) is stated separately.

Only model-checked: liveness (`DriverCallReturns`, `DrainTerminates`,
`FinishEndsRun`, `QuietRunReturns`, `RunEnds`), which is out of the prover's
reach with fairness and `ENABLED`. Every safety property of a passing run is
stated by a theorem.

## Not modelled

The greater part of the repository's 332,000 lines translates: the Veryl and
SystemVerilog frontends, the SLT and SIR representations, the optimizer's
passes, and instruction selection and emission for x86-64, arm64, WASM and
Cranelift. None keeps state over time, and each is correct when its output
means what its input means. Saying that takes the semantics of both languages
and programs as inputs, which is out of TLC's reach at any size that would be
interesting, and induction over programs is out of the prover's. The modules
here therefore cover a small share of the lines, and nearly all of what
happens once a design is compiled.

Also left out: the expression VM of the testbench and the arithmetic of its
`for` loops; loading of component libraries, WASM hosts and manifests; VCD,
reflection, images, CLI and editor tooling, which are I/O or read-only;
values beyond what decides edges and changes; formatting and decoding of event
payloads; the wrap-around of 64-bit sequence numbers and times. VPI is
single-threaded (thread-local state), so VpiWrites and VpiCallbacks have one
thread of control and no races. After a failed step nothing is stated about
clocks popped by it: the code drops them.

## Plan

1. `AtomicStep`: an abstract specification in which the domains of a time step
   commit at once, and TimedSimulation shown to implement it for designs without
   derived clocks.
2. Composition of VpiCallbacks with VpiWrites: the abstract flush of the former
   as a refinement of the latter.
3. Algorithms against reference definitions: ordering of combinational units,
   strongly connected components, parallel-copy sequencing, the state layout.
