------------------------------ MODULE DutAccess -----------------------------
(***************************************************************************)
(* The TypeScript package (packages/celox/src): a DUT object reads and     *)
(* writes ports directly in the memory it shares with the native handle,   *)
(* and keeps its own mark, DirtyState.dirty, because the native side does  *)
(* not see those writes.  Two owners share that mark with the DUT:         *)
(*   - Simulator (simulator.ts) over NativeSimulatorHandle, a bare back    *)
(*     end that keeps no mark of its own;                                  *)
(*   - Simulation (simulation.ts) over NativeSimulationHandle, a           *)
(*     celox::Simulation with its own mark, `native' here.                 *)
(*                                                                         *)
(* A step of the timed engine is one edge of the settled design here; its  *)
(* rounds are the business of TimedSimulation.  A runUntil over several    *)
(* events leaves what as many runUntil calls over one event leave.         *)
(***************************************************************************)
EXTENDS DesignEval

CONSTANTS
    Hosts,            \* the owners a run looks at
    MaxTicks,         \* bound on the count given to Simulator.tick
    Silent,           \* pairs <<i, s>> at which the fatal site is site 0
    Assert, Release   \* Assert[i], Release[i]: i with the reset port set, cleared

ASSUME HostAssumption ==
    /\ Hosts \subseteq {"simulator", "simulation"}
    /\ MaxTicks \in Nat
    /\ Silent \subseteq Fatals
    /\ Assert \in [In -> In] /\ Release \in [In -> In]

VARIABLES
    host,            \* the owner of this DUT
    inp, reg, comb,  \* the shared memory
    dirty,           \* DirtyState.dirty
    native,          \* Simulator.dirty of the celox::Simulation
    queue,           \* what the scheduler holds: "empty", "once" or "clock"
    ticks,           \* edges left to tickN
    alive,           \* FALSE from dispose on
    doubt,           \* history: why a clean mark may be wrong
    call             \* the last call, as in EagerSimulator

vars == <<host, inp, reg, comb, dirty, native, queue, ticks, alive, doubt, call>>

NoTicks == [ev |-> CHOOSE e \in Events : TRUE, left |-> 0]
Idle == alive /\ ticks.left = 0

\* Reasons to doubt a clean mark: nothing has been evaluated since the memory
\* was handed out; an evaluation has failed; the owner cleared the mark after
\* a write without evaluating; the last evaluation may have met a fatal $assert
\* that the bare back end took for success.
Doubts == {"cold", "failed", "forgotten", "silent"}

TypeOK ==
    /\ host \in Hosts
    /\ inp \in In /\ reg \in St /\ comb \in Out
    /\ dirty \in BOOLEAN /\ native \in BOOLEAN /\ alive \in BOOLEAN
    /\ queue \in {"empty", "once", "clock"}
    /\ ticks \in [ev : Events, left : 0..MaxTicks]
    /\ doubt \subseteq Doubts

\* Both native handles are handed out with a clear mark, nothing evaluated.
Init ==
    /\ host \in Hosts
    /\ inp \in In /\ reg \in St /\ comb = Blank
    /\ dirty = FALSE
    /\ native = (host = "simulation")
    /\ queue = "empty"
    /\ ticks = NoTicks
    /\ alive = TRUE
    /\ doubt = {"cold"}
    /\ call = <<"new">>

\* The compiled pass leaves a failing fatal site with the site's number as its
\* return code.  NativeSimulatorHandle has only that code to go by, and the code
\* of site 0 is the code of success; celox::Simulation finds the event.
Deceived(i, s) == host = "simulator" /\ <<i, s>> \in Silent

HostEval(i, s, c, end) ==
    EvalComb(i, s, c, end) \/ (Deceived(i, s) /\ end = "ok")

\* The doubt that an evaluation leaves which returned success.
Passed(i, s) == IF Deceived(i, s) THEN {"silent"} ELSE {}

\* A pass over the shared memory.  The native Simulation drops its own mark
\* when it succeeds.
Evaluate(c, end) ==
    /\ HostEval(inp, reg, c, end)
    /\ comb' = c
    /\ native' = (native /\ end # "ok")

-----------------------------------------------------------------------------
(* The DUT object                                                          *)

\* The setter of an input port (or of an internal signal).
DutWrite ==
    /\ Idle
    /\ \E i \in In, s \in St :
        inp' = i /\ reg' = s /\ call' = <<"write", i, s>>
    /\ dirty' = TRUE
    /\ doubt' = {}
    /\ UNCHANGED <<host, comb, native, queue, ticks, alive>>

\* Faulty variant: the getter of an output does not look at the mark.
DutReadUnsettled ==
    /\ Idle
    /\ call' = <<"observe", comb>>
    /\ UNCHANGED <<host, inp, reg, comb, dirty, native, queue, ticks, alive, doubt>>

\* The getter of anything but an input port: evaluate when marked.  evalComb
\* throws before the mark is cleared.
DutRead ==
    /\ Idle
    /\ UNCHANGED <<inp, reg>>
    /\ \/ /\ dirty
          /\ \E c \in Out, end \in Ends :
              /\ Evaluate(c, end)
              /\ dirty' = (end # "ok")
              /\ doubt' = IF end = "ok" THEN Passed(inp, reg) ELSE doubt
              /\ call' = IF end = "ok" THEN <<"observe", c>> ELSE <<"other">>
       \/ /\ ~dirty
          /\ call' = <<"observe", comb>>
          /\ UNCHANGED <<comb, native, dirty, doubt>>
    /\ UNCHANGED <<host, queue, ticks, alive>>

\* dump of either owner.  NativeSimulatorHandle writes the memory as it is;
\* NativeSimulationHandle settles first when its own mark is set.
Dump ==
    /\ Idle
    /\ UNCHANGED <<inp, reg, dirty>>
    /\ \/ /\ native
          /\ \E c \in Out, end \in Ends :
              /\ Evaluate(c, end)
              /\ call' = IF end = "ok" THEN <<"dump", c>> ELSE <<"other">>
              /\ doubt' = IF end = "ok" THEN {}
                          ELSE IF dirty THEN doubt ELSE doubt \cup {"failed"}
       \/ /\ ~native
          /\ call' = <<"dump", comb>>
          /\ UNCHANGED <<comb, native, doubt>>
    /\ UNCHANGED <<host, queue, ticks, alive>>

\* fourState of either owner reads the memory as it is, marked or not.
FourState ==
    /\ Idle
    /\ call' = <<"raw", comb>>
    /\ UNCHANGED <<host, inp, reg, comb, dirty, native, queue, ticks, alive, doubt>>

\* dispose marks the DUT dead before the memory is freed: every later access
\* throws (ensureAlive, state.disposed).
Dispose ==
    /\ Idle
    /\ alive' = FALSE
    /\ call' = <<"other">>
    /\ UNCHANGED <<host, inp, reg, comb, dirty, native, queue, ticks, doubt>>

-----------------------------------------------------------------------------
(* The owner Simulator                                                     *)

\* One edge of NativeSimulatorHandle::tick or tick_n: evaluate, commit,
\* evaluate.  An error throws out of the loop.
NativeTick(e, left) ==
    /\ \E c1 \in Out, end1 \in Ends :
        /\ HostEval(inp, reg, c1, end1)
        /\ \/ /\ end1 # "ok"
              /\ comb' = c1
              /\ doubt' = {"failed"}
              /\ ticks' = NoTicks
              /\ call' = <<"clock fails", e>>
              /\ UNCHANGED reg
           \/ /\ end1 = "ok"
              /\ \E t \in St :
                  EvalFf(e, inp, reg, c1, t, FALSE) /\ reg' = t
              /\ comb' = c1
              /\ doubt' = {"failed"}
              /\ ticks' = NoTicks
              /\ call' = <<"clock fails", e>>
           \/ /\ end1 = "ok"
              /\ \E t \in St, c2 \in Out, end2 \in Ends :
                  /\ EvalFf(e, inp, reg, c1, t, TRUE)
                  /\ HostEval(inp, t, c2, end2)
                  /\ reg' = t /\ comb' = c2
                  /\ doubt' = IF end2 = "ok" THEN Passed(inp, t) ELSE {"failed"}
                  /\ ticks' = IF end2 = "ok" THEN [ev |-> e, left |-> left] ELSE NoTicks
                  /\ call' = IF end2 = "ok" THEN <<"clock", e>> ELSE <<"clock fails", e>>
    /\ UNCHANGED <<host, inp, dirty, native, queue, alive>>

\* Faulty variant: the mark is cleared before the evaluation, which may throw.
TickSettlesLate ==
    /\ Idle /\ host = "simulator" /\ dirty
    /\ \E c \in Out, end \in Ends :
        /\ Evaluate(c, end)
        /\ doubt' = IF end = "ok" THEN Passed(inp, reg) ELSE doubt
    /\ dirty' = FALSE
    /\ call' = <<"other">>
    /\ UNCHANGED <<host, inp, reg, queue, ticks, alive>>

\* Simulator.tick while the mark is set: evaluate and clear it, then tick.
\* When the evaluation throws, the mark stays.
TickSettles ==
    /\ Idle /\ host = "simulator" /\ dirty
    /\ \E c \in Out, end \in Ends :
        /\ Evaluate(c, end)
        /\ dirty' = (end # "ok")
        /\ doubt' = IF end = "ok" THEN Passed(inp, reg) ELSE doubt
    /\ call' = <<"other">>
    /\ UNCHANGED <<host, inp, reg, queue, ticks, alive>>

\* Simulator.tick with a clear mark: tick or tickN.
TickNative ==
    /\ Idle /\ host = "simulator" /\ ~dirty
    /\ \E e \in Events, n \in 1..MaxTicks : NativeTick(e, n - 1)

TickNContinues ==
    ticks.left > 0 /\ NativeTick(ticks.ev, ticks.left - 1)

-----------------------------------------------------------------------------
(* The owner Simulation                                                    *)

\* addClock and schedule.
Schedule ==
    /\ Idle /\ host = "simulation"
    /\ queue' \in {"clock", IF queue = "clock" THEN "clock" ELSE "once"}
    /\ call' = <<"other">>
    /\ UNCHANGED <<host, inp, reg, comb, dirty, native, ticks, alive, doubt>>

\* The native step processes an event: evaluate, commit, evaluate, and
\* finish_timed_step.  i: the inputs while it runs.
EdgeAt(i, s, c) ==
    \E e \in Events, c1 \in Out :
        /\ EvalComb(i, reg, c1, "ok")
        /\ EvalFf(e, i, reg, c1, s, TRUE)
        /\ EvalComb(i, s, c, "ok")

EventProcessed ==
    /\ queue # "empty"
    /\ queue' \in {queue, IF queue = "once" THEN "empty" ELSE queue}
    /\ native' = FALSE

\* step, waitUntil, waitForCycles and runUntil: an event was due, and the
\* owner clears the mark.
StepsAnEvent ==
    /\ Idle /\ host = "simulation"
    /\ EventProcessed
    /\ reg' \in St /\ comb' \in Out
    /\ EdgeAt(inp, reg', comb')
    /\ dirty' = FALSE
    /\ doubt' = {}
    /\ \E e \in Events : call' = <<"clock", e>>
    /\ UNCHANGED <<host, inp, ticks, alive>>

\* The native step throws: the owner never reaches the assignment.
StepFails ==
    /\ Idle /\ host = "simulation"
    /\ queue # "empty"
    /\ reg' \in St /\ comb' \in Out
    /\ \E e \in Events : call' = <<"clock fails", e>>
    /\ doubt' = IF dirty THEN doubt ELSE doubt \cup {"failed"}
    /\ queue' \in {queue, "empty"}
    /\ UNCHANGED <<host, inp, dirty, native, ticks, alive>>

\* Clearing the mark when nothing was evaluated.
Forget == IF dirty THEN doubt \cup {"forgotten"} ELSE doubt

\* step on an empty queue, or runUntil with a step budget at its end time: the
\* native side does nothing, the owner clears the mark.
StepsNothing ==
    /\ Idle /\ host = "simulation"
    /\ dirty' = FALSE
    /\ doubt' = Forget
    /\ call' = <<"other">>
    /\ UNCHANGED <<host, inp, reg, comb, native, queue, ticks, alive>>

\* runUntil with nothing due: the native side only dumps, which settles when
\* its own mark is set; the owner clears the mark.
RunsUntilNothing ==
    /\ Idle /\ host = "simulation"
    /\ UNCHANGED <<inp, reg>>
    /\ \/ /\ native
          /\ \E c \in Out : Evaluate(c, "ok")
          /\ dirty' = FALSE /\ doubt' = {}
       \/ /\ native
          /\ \E c \in Out, end \in {"fatal", "loop"} : Evaluate(c, end)
          /\ doubt' = IF dirty THEN doubt ELSE doubt \cup {"failed"}
          /\ UNCHANGED dirty
       \/ /\ ~native
          /\ dirty' = FALSE /\ doubt' = Forget
          /\ UNCHANGED <<comb, native>>
    /\ call' = <<"other">>
    /\ UNCHANGED <<host, queue, ticks, alive>>

\* reset: assert through the DUT, run, release through the DUT, clear the mark.
\* The run is over events (one stands for all), over none with the native side
\* settling for its dump, or over nothing at all.  (A run that throws leaves
\* what DutWrite and StepFails leave.)
Reset ==
    /\ Idle /\ host = "simulation"
    /\ inp' = Release[inp]
    /\ \/ /\ EventProcessed
          /\ reg' \in St /\ comb' \in Out
          /\ EdgeAt(Assert[inp], reg', comb')
       \/ /\ native /\ native' = FALSE
          /\ \E c \in Out : EvalComb(Assert[inp], reg, c, "ok") /\ comb' = c
          /\ UNCHANGED <<reg, queue>>
       \/ UNCHANGED <<reg, comb, native, queue>>
    /\ dirty' = FALSE
    /\ doubt' = doubt \cup {"forgotten"}
    /\ call' = <<"write", Release[inp], reg'>>
    /\ UNCHANGED <<host, ticks, alive>>

-----------------------------------------------------------------------------

Next ==
    \/ DutWrite \/ DutRead \/ Dump \/ FourState \/ Dispose
    \/ TickSettles \/ TickNative \/ TickNContinues
    \/ Schedule \/ StepsAnEvent \/ StepFails \/ StepsNothing
    \/ RunsUntilNothing \/ Reset

Spec == Init /\ [][Next]_vars

-----------------------------------------------------------------------------
(* Properties                                                              *)

\* The shared mark tells the truth, with either owner: when it is clear, and
\* there is no reason to doubt it, the ports in memory are settled.
CleanIsSettled == ~dirty /\ doubt = {} => comb = Comb[inp][reg]

\* A dump and a raw read change nothing; how current they are is not promised.
Eager == INSTANCE EagerSimulator
             WITH sound <- host = "simulator" /\ doubt = {},
                  call <- IF call[1] \in {"dump", "raw"} THEN <<"other">> ELSE call

\* Under the owner Simulator the DUT cannot be told from one that settles at
\* every write and every edge, once something has been evaluated and as long as
\* no fatal $assert of site 0 fails.
RefinesEager == Eager!Spec

\* "The DUT sets it on any input write and checks it before any output read":
\* a read that follows a write is of the settled design, whatever the owner was
\* asked to do in between.
ReadsFollowWrites ==
    (call[1] = "observe" /\ doubt \subseteq {"forgotten"}) => call[2] = Comb[inp][reg]
=============================================================================
