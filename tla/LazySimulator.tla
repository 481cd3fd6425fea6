--------------------------- MODULE LazySimulator ----------------------------
(***************************************************************************)
(* Simulator<B> (crates/celox/src/simulator.rs).  A write only stores the  *)
(* value and sets `dirty'; combinational logic is evaluated when somebody  *)
(* looks, when an edge needs its inputs, or at once while a                *)
(* RuntimeEventDrain is open.  The native testbench goes further and also  *)
(* postpones the evaluation after an edge (tick_deferred_comb), or leaves  *)
(* the loop over many edges to the compiled code                           *)
(* (tick_deferred_comb_many).                                              *)
(*                                                                         *)
(* Comb observers are the $display and assertion sites of always_comb      *)
(* processes.  They are compared with a snapshot around each evaluation so *)
(* that a process publishes an event exactly when something it reads has   *)
(* changed.  One activation group is modelled; it reads the inputs and the *)
(* driven signals.                                                         *)
(***************************************************************************)
EXTENDS DesignEval, Sequences

CONSTANTS MaxMany,  \* bound on the count given to tick_deferred_comb_many
          NoSnap    \* the group has not been evaluated or has published nothing

ASSUME ManyAssumption == MaxMany \in Nat
ASSUME NoSnapAssumption == NoSnap \notin In \X Out

VARIABLES
    inp, reg, comb,  \* the memory of the back end
    dirty,           \* Simulator.dirty
    drain,           \* runtime_event_drain_active
    observers,       \* the design has comb observers (fixed at compile time)
    snap,            \* comb_observer_snapshots; NoSnap: comb_observer_initial_eval
    many,            \* edges left to the loop of tick_deferred_comb_many
    events,          \* events published by the last step
    shown,           \* history: what the group published last
    broken,          \* history: an edge or a pass failed and left dirty = FALSE
    failed,          \* history: a pass was cut short, and the group has not
                     \* published in a whole pass since
    call             \* the last call, as in EagerSimulator

memory == <<inp, reg, comb>>
observing == <<snap, events, shown, failed>>
vars == <<inp, reg, comb, dirty, drain, observers, many, observing, broken, call>>

NoLoop == [ev |-> CHOOSE e \in Events : TRUE, left |-> 0]

\* What the observer group reads.
Reads(i, c) == <<i, c>>

TypeOK ==
    /\ inp \in In /\ reg \in St /\ comb \in Out
    /\ dirty \in BOOLEAN /\ drain \in BOOLEAN /\ observers \in BOOLEAN
    /\ snap \in (In \X Out) \cup {NoSnap}
    /\ shown \in (In \X Out) \cup {NoSnap}
    /\ events \in Seq(In \X Out)
    /\ many \in [ev : Events, left : 0..MaxMany]
    /\ broken \in BOOLEAN /\ failed \in BOOLEAN

\* The builder applies the initial values to a blank memory and calls
\* modify(|_| {}): nothing is evaluated yet, and the simulator starts dirty.
Init ==
    /\ inp \in In /\ reg \in St /\ comb = Blank
    /\ dirty = TRUE
    /\ drain = FALSE
    /\ observers \in BOOLEAN
    /\ snap = NoSnap /\ shown = NoSnap /\ events = <<>>
    /\ many = NoLoop
    /\ broken = FALSE /\ failed = FALSE
    /\ call = <<"new">>

-----------------------------------------------------------------------------
(* eval_comb_checked, as a relation between what it finds and what it      *)
(* leaves.  The host enables the group when its snapshot is out of date,   *)
(* the compiled code when the pass changes a signal the group reads.       *)

\* Mutants: the group is always enabled; only the host's comparison enables it.
ActiveAlways(sn, i, c0, c1) == observers

ActiveBeforeOnly(sn, i, c0, c1) ==
    observers /\ (sn = NoSnap \/ Reads(i, c0) # sn)

Active(sn, i, c0, c1) ==
    observers /\ (sn = NoSnap \/ Reads(i, c0) # sn \/ c1 # c0)

\* A fatal site is a site of the group: it stops a pass only once the group is
\* enabled, by the snapshot or by what the whole pass would change.
MayStop(sn, i, s, c0) ==
    observers /\ (<<i, s>> \in Loops \/ Active(sn, i, c0, Comb[i][s]))

\* Events of one pass.  A pass that is cut short may stop before a site.
Emits(sn, i, c0, c1, end, out) ==
    IF ~Active(sn, i, c0, c1) THEN out = <<>>
    ELSE out = <<Reads(i, c1)>> \/ (end # "ok" /\ out = <<>>)

Pass(sn, i, s, c0, c1, end, out) ==
    /\ EvalComb(i, s, c1, end)
    /\ end = "fatal" => MayStop(sn, i, s, c0)
    /\ Emits(sn, i, c0, c1, end, out)

SnapAfter(sn, i, c1) == IF observers THEN Reads(i, c1) ELSE sn

LastShown(sh, out) == IF out = <<>> THEN sh ELSE out[Len(out)]

FailedAfter(f, end, out) == end # "ok" \/ (f /\ out = <<>>)

\* One evaluation of the current memory, as the whole of a step.
Settle(c, end, out) ==
    /\ Pass(snap, inp', reg', comb, c, end, out)
    /\ comb' = c
    /\ snap' = SnapAfter(snap, inp', c)
    /\ events' = out
    /\ shown' = LastShown(shown, out)
    /\ failed' = FailedAfter(failed, end, out)

NoEval == events' = <<>> /\ UNCHANGED <<comb, snap, shown, failed>>

Outs == {<<>>} \cup {<<Reads(i, c)>> : i \in In, c \in Out}

Idle == many.left = 0

-----------------------------------------------------------------------------
(* Writes                                                                  *)

\* Faulty variant: a write forgets the mark when no drain is open.
WriteUnmarked ==
    /\ Idle
    /\ \E i \in In, s \in St :
        /\ inp' = i /\ reg' = s
        /\ call' = <<"write", i, s>>
        /\ dirty' = dirty
        /\ NoEval
    /\ broken' = FALSE
    /\ UNCHANGED <<drain, observers, many>>

\* set, set_wide, set_four_state and modify: store, mark, and settle at once
\* while a drain is open.  A settle that fails leaves the mark.
Write ==
    /\ Idle
    /\ \E i \in In, s \in St :
        /\ inp' = i /\ reg' = s
        /\ call' = <<"write", i, s>>
        /\ IF drain
           THEN \E c \in Out, end \in Ends, out \in Outs :
                    Settle(c, end, out) /\ dirty' = (end # "ok")
           ELSE dirty' = TRUE /\ NoEval
    /\ broken' = FALSE
    /\ UNCHANGED <<drain, observers, many>>

-----------------------------------------------------------------------------
(* Observations                                                            *)

\* Faulty variant: a reader forgets to settle.
SettleIfDirtyNever(returns) ==
    /\ NoEval /\ UNCHANGED <<inp, reg, dirty>>
    /\ call' = IF returns THEN <<"observe", comb>> ELSE <<"other">>

\* The common head of get_as, get, get_four_state, dump and
\* drain_runtime_events: settle when dirty.  A failed settle panics and the
\* mark stays.  `returns': the caller is given signals.
SettleIfDirty(returns) ==
    /\ UNCHANGED <<inp, reg>>
    /\ IF dirty
       THEN \E c \in Out, end \in Ends, out \in Outs :
                Settle(c, end, out) /\ dirty' = (end # "ok")
       ELSE NoEval /\ UNCHANGED dirty
    /\ call' = IF returns /\ ~dirty' THEN <<"observe", comb'>> ELSE <<"other">>

\* get_as, get, get_four_state; dump writes the same memory to the VCD file.
Get ==
    /\ Idle
    /\ SettleIfDirty(TRUE)
    /\ UNCHANGED <<drain, observers, many, broken>>

DrainRuntimeEvents ==
    /\ Idle /\ ~drain
    /\ SettleIfDirty(FALSE)
    /\ UNCHANGED <<drain, observers, many, broken>>

\* drain_runtime_events_deferred_with_context: settles only for observers.
DrainRuntimeEventsDeferred ==
    /\ Idle /\ ~drain
    /\ IF observers
       THEN SettleIfDirty(FALSE)
       ELSE NoEval /\ call' = <<"other">> /\ UNCHANGED <<inp, reg, dirty>>
    /\ UNCHANGED <<drain, observers, many, broken>>

EvalCombCall ==
    /\ Idle
    /\ UNCHANGED <<inp, reg>>
    /\ \E c \in Out, end \in Ends, out \in Outs :
        /\ Settle(c, end, out)
        /\ dirty' = (dirty /\ end # "ok")
        /\ broken' = (~dirty /\ end # "ok")
    /\ call' = <<"other">>
    /\ UNCHANGED <<drain, observers, many>>

\* runtime_event_drain hands out the one drain; dropping it clears the flag.
OpenDrain ==
    /\ Idle /\ ~drain
    /\ drain' = TRUE
    /\ call' = <<"other">>
    /\ NoEval /\ UNCHANGED <<inp, reg, dirty, observers, many, broken>>

DropDrain ==
    /\ Idle /\ drain
    /\ drain' = FALSE
    /\ call' = <<"other">>
    /\ NoEval /\ UNCHANGED <<inp, reg, dirty, observers, many, broken>>

-----------------------------------------------------------------------------
(* Edges                                                                   *)

\* The settle at the head of tick, and the snapshot it leaves.
SettlesFirst(c1, end1, out1) ==
    IF dirty
    THEN Pass(snap, inp, reg, comb, c1, end1, out1)
    ELSE c1 = comb /\ end1 = "ok" /\ out1 = <<>>

SnapFirst(c1) == IF dirty THEN SnapAfter(snap, inp, c1) ELSE snap

\* The three ways tick ends.  It returns the error of the first settle ...
TickFailsFirst(e, c1, end1, out1) ==
    /\ end1 # "ok"
    /\ comb' = c1 /\ snap' = SnapFirst(c1)
    /\ events' = out1 /\ shown' = LastShown(shown, out1)
    /\ failed' = FailedAfter(failed, end1, out1)
    /\ call' = <<"clock fails", e>>
    /\ UNCHANGED <<reg, dirty, broken>>

\* ... or the error of the flip-flops, the mark as it was ...
TickFailsInFf(e, c1, out1, t) ==
    /\ EvalFf(e, inp, reg, c1, t, FALSE)
    /\ reg' = t /\ comb' = c1 /\ snap' = SnapFirst(c1)
    /\ events' = out1 /\ shown' = LastShown(shown, out1)
    /\ failed' = FailedAfter(failed, "ok", out1)
    /\ broken' = ~dirty
    /\ call' = <<"clock fails", e>>
    /\ UNCHANGED dirty

\* ... or what the second settle returns, the mark already cleared.
TickSettlesAgain(e, c1, out1, t, c2, end2, out2) ==
    /\ EvalFf(e, inp, reg, c1, t, TRUE)
    /\ Pass(SnapFirst(c1), inp, t, c1, c2, end2, out2)
    /\ reg' = t /\ comb' = c2 /\ snap' = SnapAfter(SnapFirst(c1), inp, c2)
    /\ events' = out1 \o out2
    /\ shown' = LastShown(LastShown(shown, out1), out2)
    /\ failed' = FailedAfter(FailedAfter(failed, "ok", out1), end2, out2)
    /\ dirty' = FALSE
    /\ broken' = (end2 # "ok")
    /\ call' = IF end2 = "ok" THEN <<"clock", e>> ELSE <<"clock fails", e>>

\* tick: settle when dirty, evaluate and commit the flip-flops, settle again.
Tick(e) ==
    /\ \E c1 \in Out, end1 \in Ends, out1 \in Outs :
        /\ SettlesFirst(c1, end1, out1)
        /\ \/ TickFailsFirst(e, c1, end1, out1)
           \/ end1 = "ok" /\ \E t \in St : TickFailsInFf(e, c1, out1, t)
           \/ end1 = "ok" /\ \E t \in St, c2 \in Out, end2 \in Ends, out2 \in Outs :
                                 TickSettlesAgain(e, c1, out1, t, c2, end2, out2)
    /\ UNCHANGED <<inp, drain, observers, many>>

\* eval_comb_apply_ff_at: the compiled code evaluates and commits in one call,
\* with no snapshot and no look at the published events; without observers the
\* pass has no fatal site.  `left' edges remain.
FusedTick(e, left) ==
    /\ \E c \in Out, end \in {"ok", "loop"}, t \in St :
        /\ EvalComb(inp, reg, c, end)
        /\ comb' = c
        /\ \/ /\ end = "ok" /\ EvalFf(e, inp, reg, c, t, TRUE)
              /\ reg' = t
              /\ call' = <<"clock", e>>
              /\ many' \in {[ev |-> e, left |-> left], NoLoop}
           \/ /\ end = "loop" => t = reg
              /\ reg' = t
              /\ call' = <<"clock fails", e>>
              /\ many' = NoLoop
    /\ dirty' = TRUE
    /\ events' = <<>>
    /\ UNCHANGED <<inp, drain, observers, snap, shown, failed, broken>>

\* eval_apply_ff_at on a clean memory, the evaluation after it postponed.
UnsettledTick(e) ==
    /\ \E t \in St, ok \in BOOLEAN :
        /\ EvalFf(e, inp, reg, comb, t, ok)
        /\ reg' = t
        /\ dirty' = ok
        /\ broken' = ~ok
        /\ call' = IF ok THEN <<"clock", e>> ELSE <<"clock fails", e>>
    /\ NoEval
    /\ UNCHANGED <<inp, drain, observers, many>>

TickCall == Idle /\ \E e \in Events : Tick(e)

TickDeferredComb ==
    /\ Idle
    /\ \E e \in Events :
        \/ observers /\ Tick(e)
        \/ ~observers /\ dirty /\ FusedTick(e, 0)
        \/ ~observers /\ ~dirty /\ UnsettledTick(e)

\* tick_deferred_comb_many with a count above one; the loop in the compiled
\* code may return early, after publishing an event.  (A count of zero does
\* nothing; with observers or a clean memory it is one TickDeferredComb.)
TickDeferredCombMany ==
    /\ Idle /\ ~observers /\ dirty
    /\ \E e \in Events, n \in 2..MaxMany : FusedTick(e, n - 1)

ManyContinues == many.left > 0 /\ FusedTick(many.ev, many.left - 1)

-----------------------------------------------------------------------------

Next ==
    \/ Write \/ Get \/ DrainRuntimeEvents \/ DrainRuntimeEventsDeferred
    \/ EvalCombCall \/ OpenDrain \/ DropDrain
    \/ TickCall \/ TickDeferredComb \/ TickDeferredCombMany \/ ManyContinues

Spec == Init /\ [][Next]_vars

-----------------------------------------------------------------------------
(* Properties                                                              *)

\* The mark tells the truth: when the simulator is not dirty, and no failed edge
\* or eval_comb has left it so, the driven signals in memory are the ones the
\* logic settles to.  It is what lets get, dump and tick skip the evaluation.
CleanIsSettled == ~dirty /\ ~broken => comb = Comb[inp][reg]

\* While the mark is cleared, the observer group has published what it reads
\* now: no deferred tick, no drain and no lazy write may swallow a change of an
\* always_comb display.  What a loop or a fatal $assert cuts off is lost, and
\* nothing is claimed until the group next publishes in a whole pass.
EveryChangeIsShown ==
    observers /\ ~dirty /\ ~failed => shown = Reads(inp, comb)

\* An always_comb display is published only for a change: what a step
\* publishes always differs from what was published before it, however often
\* the same state is settled, drained or ticked.
ShownOnlyOnChange ==
    [][\A k \in 1..Len(events') :
           events'[k] # (IF k = 1 THEN shown ELSE events'[k - 1]) \/ failed \/ failed']_vars

\* eval_comb_checked finds every fatal among the published events.
Eager == INSTANCE EagerSimulator WITH sound <- ~broken, Silent <- {}

\* Laziness cannot be observed: through every mixture of writes, reads, drains,
\* plain, deferred and batched ticks, the simulator behaves as one that settles
\* after every write and every edge.
RefinesEager == Eager!Spec

=============================================================================
