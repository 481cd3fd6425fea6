------------------------ MODULE LazySimulator_proofs ------------------------
(***************************************************************************)
(* For every design: the mark tells the truth, and the lazy simulator      *)
(* implements the eager one.                                               *)
(***************************************************************************)
EXTENDS LazySimulator, SequenceTheorems, TLAPS

\* A clean memory is settled, and not at a point where the logic has no
\* settled value: an evaluation of it again cannot fail.
Settled ==
    ~dirty /\ ~broken => comb = Comb[inp][reg] /\ <<inp, reg>> \notin Loops

\* The strengthening: the history flag `broken' is only up while the mark is
\* down, and the compiled loop only runs on a marked memory.
Inv ==
    /\ TypeOK
    /\ Settled
    /\ broken => ~dirty
    /\ ~Idle => dirty

\* The idle value of the loop counter is one.
LEMMA NoLoopType == NoLoop \in [ev : Events, left : 0..MaxMany] /\ NoLoop.left = 0
  <1>1. (CHOOSE e \in Events : TRUE) \in Events
    BY DesignAssumption
  <1> QED  BY <1>1, ManyAssumption DEF NoLoop

\* A pass that runs to its end leaves the settled signals.
LEMMA EvalSettles ==
    ASSUME NEW i \in In, NEW s \in St, NEW c \in Out, NEW end \in Ends,
           EvalComb(i, s, c, end), end = "ok"
    PROVE  c = Comb[i][s] /\ <<i, s>> \notin Loops
  BY DEF EvalComb

\* What an evaluation publishes has the type of the observers' snapshots.
LEMMA OutsType ==
    ASSUME NEW out \in Outs, NEW sh \in (In \X Out) \cup {NoSnap}
    PROVE  /\ out \in Seq(In \X Out)
           /\ LastShown(sh, out) \in (In \X Out) \cup {NoSnap}
  <1>1. CASE out = <<>>
    BY <1>1 DEF LastShown
  <1>2. CASE out # <<>>
    <2>1. PICK i \in In, c \in Out : out = <<Reads(i, c)>>
      BY <1>2 DEF Outs
    <2>2. Reads(i, c) \in In \X Out
      BY DEF Reads
    <2>3. Len(out) = 1 /\ out[1] = Reads(i, c) /\ out \in Seq(In \X Out)
      BY <2>1, <2>2
    <2> QED  BY <2>2, <2>3 DEF LastShown
  <1> QED  BY <1>1, <1>2

\* Appending what two evaluations publish.
LEMMA ConcatType ==
    ASSUME NEW S, NEW a \in Seq(S), NEW b \in Seq(S) PROVE a \o b \in Seq(S)
  OBVIOUS

\* The snapshot keeps its type.
LEMMA SnapType ==
    ASSUME NEW sn \in (In \X Out) \cup {NoSnap}, NEW i \in In, NEW c \in Out
    PROVE  SnapAfter(sn, i, c) \in (In \X Out) \cup {NoSnap}
  BY DEF SnapAfter, Reads

\* A step that settles the memory keeps the types of what it touches.
LEMMA SettleType ==
    ASSUME TypeOK, NEW c \in Out, NEW end \in Ends, NEW out \in Outs,
           inp' \in In, Settle(c, end, out)
    PROVE  /\ comb' \in Out /\ snap' \in (In \X Out) \cup {NoSnap}
           /\ shown' \in (In \X Out) \cup {NoSnap}
           /\ events' \in Seq(In \X Out) /\ failed' \in BOOLEAN
  <1>1. snap \in (In \X Out) \cup {NoSnap} /\ shown \in (In \X Out) \cup {NoSnap}
    BY DEF TypeOK
  <1>2. snap' \in (In \X Out) \cup {NoSnap}
    BY <1>1, SnapType DEF Settle
  <1>3. /\ shown' \in (In \X Out) \cup {NoSnap}
        /\ events' \in Seq(In \X Out)
    BY <1>1, OutsType DEF Settle
  <1>4. comb' \in Out /\ failed' \in BOOLEAN
    BY DEF Settle, FailedAfter, TypeOK
  <1> QED  BY <1>2, <1>3, <1>4

\* The same for a step that evaluates nothing.
LEMMA NoEvalType ==
    ASSUME TypeOK, NoEval
    PROVE  /\ comb' \in Out /\ snap' \in (In \X Out) \cup {NoSnap}
           /\ shown' \in (In \X Out) \cup {NoSnap}
           /\ events' \in Seq(In \X Out) /\ failed' \in BOOLEAN
  BY DEF TypeOK, NoEval

-----------------------------------------------------------------------------

\* A write keeps the invariant: it marks the memory, or settles it.
LEMMA WriteKeeps == ASSUME Inv, Write PROVE Inv'
  <1> USE DEF Inv
  <1>1. PICK i \in In, s \in St :
            /\ inp' = i /\ reg' = s
            /\ IF drain
               THEN \E c \in Out, end \in Ends, out \in Outs :
                        Settle(c, end, out) /\ dirty' = (end # "ok")
               ELSE dirty' = TRUE /\ NoEval
    BY DEF Write
  <1>2. /\ broken' = FALSE /\ UNCHANGED <<drain, observers, many>>
        /\ many.left = 0
    BY DEF Write, Idle
  <1>3. CASE drain
    <2>1. PICK c \in Out, end \in Ends, out \in Outs :
              Settle(c, end, out) /\ dirty' = (end # "ok")
      BY <1>1, <1>3
    <2>2. TypeOK'
      BY <1>1, <1>2, <2>1, SettleType DEF TypeOK
    <2>3. Settled'
      BY <1>1, <2>1, EvalSettles DEF Settled, Settle, Pass
    <2> QED  BY <1>2, <2>2, <2>3 DEF Idle
  <1>4. CASE ~drain
    <2>1. dirty' = TRUE /\ NoEval
      BY <1>1, <1>4
    <2>2. TypeOK'
      BY <1>1, <1>2, <2>1, NoEvalType DEF TypeOK
    <2> QED  BY <1>2, <2>1, <2>2 DEF Idle, Settled
  <1> QED  BY <1>3, <1>4

\* So does the lazy settle that heads every observation.
LEMMA SettleIfDirtyKeeps ==
    ASSUME Inv, Idle, NEW returns \in BOOLEAN, SettleIfDirty(returns),
           UNCHANGED <<drain, observers, many, broken>>
    PROVE  Inv'
  <1> USE DEF Inv
  <1>1. CASE dirty
    <2>1. PICK c \in Out, end \in Ends, out \in Outs :
              Settle(c, end, out) /\ dirty' = (end # "ok")
      BY <1>1 DEF SettleIfDirty
    <2>2. TypeOK'
      BY <2>1, SettleType DEF TypeOK, SettleIfDirty
    <2>3. Settled'
      BY <2>1, EvalSettles DEF Settled, Settle, Pass, SettleIfDirty, TypeOK
    <2> QED  BY <1>1, <2>2, <2>3 DEF Idle
  <1>2. CASE ~dirty
    <2>1. NoEval /\ UNCHANGED <<inp, reg, dirty>>
      BY <1>2 DEF SettleIfDirty
    <2>2. TypeOK'
      BY <2>1, NoEvalType DEF TypeOK
    <2> QED  BY <2>1, <2>2 DEF Idle, Settled, NoEval
  <1> QED  BY <1>1, <1>2

\* And a direct call of eval_comb, which may fail on a clean memory.
LEMMA EvalCombKeeps == ASSUME Inv, EvalCombCall PROVE Inv'
  <1> USE DEF Inv
  <1>1. PICK c \in Out, end \in Ends, out \in Outs :
            /\ Settle(c, end, out)
            /\ dirty' = (dirty /\ end # "ok")
            /\ broken' = (~dirty /\ end # "ok")
    BY DEF EvalCombCall
  <1>2. UNCHANGED <<inp, reg, drain, observers, many>> /\ many.left = 0
    BY DEF EvalCombCall, Idle
  <1>3. TypeOK'
    BY <1>1, <1>2, SettleType DEF TypeOK
  <1>4. Settled'
    BY <1>1, <1>2, EvalSettles DEF Settled, Settle, Pass, TypeOK, Ends
  <1> QED  BY <1>1, <1>2, <1>3, <1>4 DEF Idle

\* A tick that succeeds settles the memory; one that fails either leaves it
\* marked or is one `broken' records.
LEMMA TickKeeps == ASSUME Inv, Idle, NEW e \in Events, Tick(e) PROVE Inv'
  <1> USE DEF Inv
  <1> DEFINE SnapSet == (In \X Out) \cup {NoSnap}
  <1>1. PICK c1 \in Out, end1 \in Ends, out1 \in Outs :
          /\ SettlesFirst(c1, end1, out1)
          /\ \/ TickFailsFirst(e, c1, end1, out1)
             \/ \E t \in St : TickFailsInFf(e, c1, out1, t)
             \/ \E t \in St, c2 \in Out, end2 \in Ends, out2 \in Outs :
                    TickSettlesAgain(e, c1, out1, t, c2, end2, out2)
    BY DEF Tick
  <1>2. UNCHANGED <<inp, drain, observers, many>>
    BY DEF Tick
  <1>3. SnapFirst(c1) \in SnapSet /\ shown \in SnapSet /\ inp \in In
    BY SnapType DEF TypeOK, SnapFirst
  <1>4. LastShown(shown, out1) \in SnapSet /\ out1 \in Seq(In \X Out)
    BY <1>3, OutsType
  <1>5. CASE TickFailsFirst(e, c1, end1, out1)
    <2>1. dirty
      BY <1>1, <1>5 DEF SettlesFirst, TickFailsFirst
    <2>2. TypeOK'
      BY <1>2, <1>3, <1>4, <1>5 DEF TypeOK, TickFailsFirst, FailedAfter
    <2> QED  BY <1>2, <1>5, <2>1, <2>2 DEF Settled, Idle, TickFailsFirst
  <1>6. ASSUME NEW t \in St, TickFailsInFf(e, c1, out1, t) PROVE Inv'
    <2>1. TypeOK'
      BY <1>2, <1>3, <1>4, <1>6 DEF TypeOK, TickFailsInFf, FailedAfter
    <2> QED  BY <1>2, <1>6, <2>1 DEF Settled, Idle, TickFailsInFf
  <1>7. ASSUME NEW t \in St, NEW c2 \in Out, NEW end2 \in Ends, NEW out2 \in Outs,
               TickSettlesAgain(e, c1, out1, t, c2, end2, out2)
        PROVE  Inv'
    <2>1. snap' \in SnapSet
      BY <1>3, <1>7, SnapType DEF TickSettlesAgain
    <2>2. shown' \in SnapSet /\ out2 \in Seq(In \X Out)
      BY <1>4, <1>7, OutsType DEF TickSettlesAgain
    <2>3. events' \in Seq(In \X Out)
      BY <1>4, <1>7, <2>2, ConcatType DEF TickSettlesAgain
    <2>4. TypeOK'
      BY <1>2, <1>7, <2>1, <2>2, <2>3 DEF TypeOK, TickSettlesAgain, FailedAfter
    <2>5. Settled'
      BY <1>2, <1>3, <1>7, EvalSettles DEF Settled, TickSettlesAgain, Pass
    <2> QED  BY <1>2, <1>7, <2>4, <2>5 DEF Idle, TickSettlesAgain
  <1> QED  BY <1>1, <1>5, <1>6, <1>7

\* A fused tick leaves the memory marked, however it ends.
LEMMA FusedKeeps ==
    ASSUME Inv, dirty, NEW e \in Events, NEW left \in 0..MaxMany,
           FusedTick(e, left)
    PROVE  Inv'
  <1> USE DEF Inv
  <1>1. /\ comb' \in Out /\ reg' \in St /\ failed' \in BOOLEAN
        /\ many' \in {[ev |-> e, left |-> left], NoLoop}
    BY DEF FusedTick, TypeOK, Ends
  <1>2. many' \in [ev : Events, left : 0..MaxMany]
    BY <1>1, NoLoopType
  <1>3. /\ dirty' = TRUE /\ events' = <<>>
        /\ UNCHANGED <<inp, drain, observers, snap, shown, failed, broken>>
    BY DEF FusedTick
  <1>4. TypeOK'
    BY <1>1, <1>2, <1>3 DEF TypeOK
  <1> QED  BY <1>3, <1>4 DEF Settled

\* A tick on a clean memory marks it, or fails and is recorded.
LEMMA UnsettledKeeps ==
    ASSUME Inv, Idle, ~dirty, NEW e \in Events, UnsettledTick(e)
    PROVE  Inv'
  <1> USE DEF Inv
  <1>1. PICK t \in St, ok \in BOOLEAN :
            reg' = t /\ dirty' = ok /\ broken' = ~ok
    BY DEF UnsettledTick
  <1>2. NoEval /\ UNCHANGED <<inp, drain, observers, many>>
    BY DEF UnsettledTick
  <1>3. TypeOK'
    BY <1>1, <1>2, NoEvalType DEF TypeOK
  <1> QED  BY <1>1, <1>2, <1>3 DEF Settled, Idle

\* Opening and dropping a drain leave the memory and the mark alone.
LEMMA DrainKeeps == ASSUME Inv, OpenDrain \/ DropDrain PROVE Inv'
  <1> USE DEF Inv
  <1>1. /\ NoEval /\ UNCHANGED <<inp, reg, dirty, observers, many, broken>>
        /\ drain' \in BOOLEAN /\ Idle
    BY DEF OpenDrain, DropDrain
  <1>2. TypeOK'
    BY <1>1, NoEvalType DEF TypeOK
  <1> QED  BY <1>1, <1>2 DEF Settled, NoEval, Idle

-----------------------------------------------------------------------------

\* The invariant is inductive: one case per call of the simulator.
LEMMA InvStep == Inv /\ [Next]_vars => Inv'
  <1> SUFFICES ASSUME Inv, [Next]_vars PROVE Inv'
    OBVIOUS
  <1>1. CASE Write
    BY <1>1, WriteKeeps
  <1>2. CASE Get \/ DrainRuntimeEvents
    BY <1>2, SettleIfDirtyKeeps DEF Get, DrainRuntimeEvents
  <1>3. CASE DrainRuntimeEventsDeferred
    <2>1. CASE observers
      BY <1>3, <2>1, SettleIfDirtyKeeps DEF DrainRuntimeEventsDeferred
    <2>2. CASE ~observers
      <3>1. NoEval /\ UNCHANGED <<inp, reg, dirty, drain, observers, many, broken>>
        BY <1>3, <2>2 DEF DrainRuntimeEventsDeferred
      <3>2. TypeOK'
        BY <3>1, NoEvalType DEF TypeOK, Inv
      <3> QED  BY <3>1, <3>2 DEF Inv, Settled, NoEval, Idle
    <2> QED  BY <2>1, <2>2
  <1>4. CASE EvalCombCall
    BY <1>4, EvalCombKeeps
  <1>5. CASE OpenDrain \/ DropDrain
    BY <1>5, DrainKeeps
  <1>6. CASE TickCall
    BY <1>6, TickKeeps DEF TickCall
  <1>7. CASE TickDeferredComb
    <2>1. PICK e \in Events : \/ observers /\ Tick(e)
                              \/ ~observers /\ dirty /\ FusedTick(e, 0)
                              \/ ~observers /\ ~dirty /\ UnsettledTick(e)
      BY <1>7 DEF TickDeferredComb
    <2>2. Idle /\ 0 \in 0..MaxMany
      BY <1>7, ManyAssumption DEF TickDeferredComb
    <2> QED  BY <2>1, <2>2, TickKeeps, FusedKeeps, UnsettledKeeps
  <1>8. CASE TickDeferredCombMany
    <2>1. PICK e \in Events, n \in 2..MaxMany : FusedTick(e, n - 1)
      BY <1>8 DEF TickDeferredCombMany
    <2>2. n - 1 \in 0..MaxMany /\ dirty
      BY <1>8, ManyAssumption DEF TickDeferredCombMany
    <2> QED  BY <2>1, <2>2, FusedKeeps
  <1>9. CASE ManyContinues
    <2>1. many.ev \in Events /\ many.left - 1 \in 0..MaxMany /\ dirty
      BY <1>9, ManyAssumption DEF ManyContinues, Inv, TypeOK, Idle
    <2> QED  BY <1>9, <2>1, FusedKeeps DEF ManyContinues
  <1>10. CASE UNCHANGED vars
    BY <1>10 DEF vars, observing, Inv, TypeOK, Settled, Idle
  <1> QED
    BY <1>1, <1>2, <1>3, <1>4, <1>5, <1>6, <1>7, <1>8, <1>9, <1>10 DEF Next

\* A new simulator is marked.
LEMMA InvInit == Init => Inv
  <1> SUFFICES ASSUME Init PROVE Inv
    OBVIOUS
  <1>1. many \in [ev : Events, left : 0..MaxMany] /\ many.left = 0
    BY NoLoopType DEF Init
  <1>2. events \in Seq(In \X Out)
    <2>1. \A S : <<>> \in Seq(S)
      OBVIOUS
    <2> QED  BY <2>1 DEF Init
  <1>3. TypeOK
    BY <1>1, <1>2, DesignAssumption DEF Init, TypeOK
  <1> QED  BY <1>1, <1>3 DEF Init, Inv, Settled, Idle

\* The types, for every design.
THEOREM TypeCorrect == Spec => []TypeOK
  <1>1. Inv => TypeOK
    BY DEF Inv
  <1> QED  BY <1>1, InvInit, InvStep, PTL DEF Spec

\* The dirty flag tells the truth, for every design: a clean memory is settled
\* unless an edge or an evaluation that failed left the mark clear.
THEOREM MarkIsTrue == Spec => []CleanIsSettled
  <1>1. Inv => CleanIsSettled
    BY DEF Inv, Settled, CleanIsSettled
  <1> QED  BY <1>1, InvInit, InvStep, PTL DEF Spec

-----------------------------------------------------------------------------
(* The observers.                                                          *)

\* With observers, the snapshot is what was published last, its driven signals
\* are the ones in memory (only evaluations that take a snapshot change them),
\* a clean memory has been snapshot, and the compiled loop never runs.
ObsInv ==
    observers =>
        /\ ~failed => shown = snap
        /\ snap # NoSnap => snap[2] = comb
        /\ ~dirty => snap = Reads(inp, comb)
        /\ Idle

\* One evaluation publishes exactly when what the group reads has changed.
LEMMA EvalShows ==
    ASSUME observers, NEW sn \in (In \X Out) \cup {NoSnap},
           NEW i \in In, NEW c0 \in Out, NEW c1 \in Out, NEW end \in Ends,
           NEW out \in Outs, sn # NoSnap => sn[2] = c0,
           Emits(sn, i, c0, c1, end, out), end = "ok", NEW sh,
           sh = sn \/ out # <<>>
    PROVE  /\ LastShown(sh, out) = SnapAfter(sn, i, c1)
           /\ out = <<>> \/ (out = <<Reads(i, c1)>> /\ Reads(i, c1) # sn)
           /\ SnapAfter(sn, i, c1) = Reads(i, c1)
  <1>1. SnapAfter(sn, i, c1) = Reads(i, c1)
    BY DEF SnapAfter
  <1>2. CASE Active(sn, i, c0, c1)
    <2>1. out = <<Reads(i, c1)>>
      BY <1>2 DEF Emits
    <2>2. LastShown(sh, out) = Reads(i, c1)
      BY <2>1 DEF LastShown
    <2>3. Reads(i, c1) # sn
      BY <1>2, NoSnapAssumption DEF Active, Reads
    <2> QED  BY <1>1, <2>1, <2>2, <2>3
  <1>3. CASE ~Active(sn, i, c0, c1)
    BY <1>1, <1>3 DEF Emits, Active, LastShown
  <1> QED  BY <1>2, <1>3

\* What a step publishes is new.
Fresh ==
    \A k \in 1..Len(events') :
        events'[k] # (IF k = 1 THEN shown ELSE events'[k - 1]) \/ failed \/ failed'

\* A step that publishes at most one event, different from the last, is fresh.
LEMMA OneIsFresh ==
    ASSUME ~failed /\ ~failed' => events' = <<>> \/ (\E r : events' = <<r>> /\ r # shown)
    PROVE  Fresh
  <1> SUFFICES ASSUME ~failed, ~failed', NEW k \in 1..Len(events')
               PROVE  events'[k] # (IF k = 1 THEN shown ELSE events'[k - 1])
    BY DEF Fresh
  <1>1. PICK r : events' = <<r>> /\ r # shown
    OBVIOUS
  <1> QED  BY <1>1

\* A step that only settles keeps the observers' invariant and publishes news.
LEMMA SettleObs ==
    ASSUME Inv, ObsInv, observers, inp' \in In, NEW c \in Out, NEW end \in Ends,
           NEW out \in Outs, Settle(c, end, out), UNCHANGED <<observers, many>>
    PROVE  ObsInv' /\ Fresh
  <1>1. snap \in (In \X Out) \cup {NoSnap} /\ comb \in Out
    BY DEF Inv, TypeOK
  <1>2. snap' = Reads(inp', c) /\ comb' = c /\ Idle'
    BY DEF Settle, SnapAfter, ObsInv, Idle
  <1>3. snap' # NoSnap => snap'[2] = comb'
    BY <1>2 DEF Reads
  <1>4. ~failed' => /\ shown' = snap'
                    /\ out = <<>> \/ (out = <<Reads(inp', c)>> /\ Reads(inp', c) # snap)
    <2> SUFFICES ASSUME ~failed' PROVE
                    /\ shown' = snap'
                    /\ out = <<>> \/ (out = <<Reads(inp', c)>> /\ Reads(inp', c) # snap)
      OBVIOUS
    <2>1. end = "ok" /\ (shown = snap \/ out # <<>>)
      BY DEF Settle, ObsInv, FailedAfter
    <2>2. Emits(snap, inp', comb, c, end, out)
      BY DEF Settle, Pass
    <2>3. snap # NoSnap => snap[2] = comb
      BY DEF ObsInv
    <2>4. /\ LastShown(shown, out) = SnapAfter(snap, inp', c)
          /\ out = <<>> \/ (out = <<Reads(inp', c)>> /\ Reads(inp', c) # snap)
      BY <1>1, <2>1, <2>2, <2>3, EvalShows
    <2> QED  BY <2>4 DEF Settle
  <1>5. Fresh
    BY <1>4, OneIsFresh DEF Settle, ObsInv
  <1> QED  BY <1>2, <1>3, <1>4, <1>5 DEF ObsInv

\* So does a step that evaluates nothing and keeps the inputs.
LEMMA NoEvalObs ==
    ASSUME ObsInv, NoEval, UNCHANGED <<inp, observers, many>>,
           dirty' \/ (dirty' = dirty) \/ ~observers
    PROVE  ObsInv' /\ Fresh
  <1>1. Fresh
    BY DEF Fresh, NoEval
  <1>2. ObsInv'
    BY DEF ObsInv, NoEval, Idle, Reads
  <1> QED  BY <1>1, <1>2

\* And a tick, which may evaluate twice.
LEMMA TickObs ==
    ASSUME Inv, ObsInv, observers, NEW e \in Events, Tick(e)
    PROVE  ObsInv' /\ Fresh
  <1> DEFINE SnapSet == (In \X Out) \cup {NoSnap}
  <1>1. PICK c1 \in Out, end1 \in Ends, out1 \in Outs :
          /\ SettlesFirst(c1, end1, out1)
          /\ \/ TickFailsFirst(e, c1, end1, out1)
             \/ end1 = "ok" /\ \E t \in St : TickFailsInFf(e, c1, out1, t)
             \/ end1 = "ok" /\ \E t \in St, c2 \in Out, end2 \in Ends, out2 \in Outs :
                    TickSettlesAgain(e, c1, out1, t, c2, end2, out2)
    BY DEF Tick
  <1>2. UNCHANGED <<inp, observers, many>> /\ Idle /\ Idle'
    BY DEF Tick, ObsInv, Idle
  <1>3. snap \in SnapSet /\ comb \in Out /\ inp \in In
    BY DEF Inv, TypeOK
  <1>4. SnapFirst(c1) = Reads(inp, c1)
    BY <1>1 DEF SnapFirst, SnapAfter, SettlesFirst, ObsInv
  <1>5. ~FailedAfter(failed, end1, out1) =>
            /\ LastShown(shown, out1) = SnapFirst(c1)
            /\ out1 = <<>> \/ (out1 = <<Reads(inp, c1)>> /\ Reads(inp, c1) # snap)
    <2> SUFFICES ASSUME ~FailedAfter(failed, end1, out1) PROVE
            /\ LastShown(shown, out1) = SnapFirst(c1)
            /\ out1 = <<>> \/ (out1 = <<Reads(inp, c1)>> /\ Reads(inp, c1) # snap)
      OBVIOUS
    <2>0. end1 = "ok" /\ (shown = snap \/ out1 # <<>>)
      BY DEF ObsInv, FailedAfter
    <2>1. CASE dirty
      <3>1. Emits(snap, inp, comb, c1, end1, out1)
        BY <1>1, <2>1 DEF SettlesFirst, Pass
      <3>2. snap # NoSnap => snap[2] = comb
        BY DEF ObsInv
      <3> QED  BY <1>3, <2>0, <2>1, <3>1, <3>2, EvalShows DEF SnapFirst
    <2>2. CASE ~dirty
      BY <1>1, <2>0, <2>2 DEF SettlesFirst, SnapFirst, LastShown
    <2> QED  BY <2>1, <2>2
  <1>6. SnapFirst(c1) \in SnapSet /\ (SnapFirst(c1) # NoSnap => SnapFirst(c1)[2] = c1)
    BY <1>3, <1>4 DEF Reads
  <1>7. CASE TickFailsFirst(e, c1, end1, out1)
    <2>1. ObsInv'
      BY <1>1, <1>2, <1>4, <1>6, <1>7
      DEF TickFailsFirst, ObsInv, SettlesFirst, FailedAfter
    <2>2. Fresh
      BY <1>7 DEF TickFailsFirst, FailedAfter, Fresh
    <2> QED  BY <2>1, <2>2
  <1>8. ASSUME NEW t \in St, TickFailsInFf(e, c1, out1, t), end1 = "ok"
        PROVE  ObsInv' /\ Fresh
    <2>1. ObsInv'
      BY <1>2, <1>4, <1>5, <1>6, <1>8 DEF TickFailsInFf, ObsInv
    <2>2. Fresh
      BY <1>5, <1>8, OneIsFresh DEF TickFailsInFf, ObsInv
    <2> QED  BY <2>1, <2>2
  <1>9. ASSUME NEW t \in St, NEW c2 \in Out, NEW end2 \in Ends, NEW out2 \in Outs,
               TickSettlesAgain(e, c1, out1, t, c2, end2, out2), end1 = "ok"
        PROVE  ObsInv' /\ Fresh
    <2>1. snap' = Reads(inp, c2) /\ comb' = c2
      BY <1>9 DEF TickSettlesAgain, SnapAfter
    <2>2. ~failed' =>
            /\ LastShown(SnapFirst(c1), out2) = Reads(inp, c2)
            /\ out2 = <<>> \/ (out2 = <<Reads(inp, c2)>> /\ Reads(inp, c2) # SnapFirst(c1))
      <3>1. Emits(SnapFirst(c1), inp, c1, c2, end2, out2)
        BY <1>9 DEF TickSettlesAgain, Pass
      <3>2. ~failed' => end2 = "ok"
        BY <1>9 DEF TickSettlesAgain, FailedAfter
      <3> QED  BY <1>3, <1>6, <3>1, <3>2, EvalShows
    <2>3. ~failed' => shown' = snap'
      <3>1. CASE out2 = <<>>
        <4>1. ~failed' => ~FailedAfter(failed, end1, out1)
          BY <1>9, <3>1 DEF TickSettlesAgain, FailedAfter
        <4> QED  BY <1>5, <1>9, <2>1, <2>2, <3>1, <4>1 DEF TickSettlesAgain
      <3>2. CASE out2 # <<>>
        BY <1>9, <2>1, <2>2, <3>2 DEF TickSettlesAgain, LastShown
      <3> QED  BY <3>1, <3>2
    <2>4. ObsInv'
      <3>1. snap'[2] = comb' /\ snap' = Reads(inp', comb')
        BY <1>2, <2>1 DEF Reads
      <3> QED  BY <1>2, <2>3, <3>1 DEF ObsInv
    <2>5. Fresh
      <3>1. SUFFICES ASSUME ~failed, ~failed', NEW k \in 1..Len(events')
                     PROVE  events'[k] # (IF k = 1 THEN shown ELSE events'[k - 1])
        BY DEF Fresh
      <3>2. /\ events' = out1 \o out2
            /\ LastShown(shown, out1) = SnapFirst(c1)
            /\ out1 = <<>> \/ (out1 = <<Reads(inp, c1)>> /\ Reads(inp, c1) # shown)
        BY <1>5, <1>9, <3>1 DEF TickSettlesAgain, FailedAfter, ObsInv
      <3>3. CASE out1 = <<>>
        <4>1. SnapFirst(c1) = shown
          BY <3>2, <3>3 DEF LastShown
        <4> QED  BY <2>2, <3>1, <3>2, <3>3, <4>1
      <3>4. CASE out1 # <<>>
        <4>1. out1 = <<SnapFirst(c1)>> /\ SnapFirst(c1) # shown
          BY <1>4, <3>2, <3>4
        <4> QED  BY <2>2, <3>1, <3>2, <4>1
      <3> QED  BY <3>3, <3>4
    <2> QED  BY <2>4, <2>5
  <1> QED  BY <1>1, <1>7, <1>8, <1>9

\* A fused tick and a deferred one only happen without observers.
LEMMA SilentObs ==
    ASSUME ~observers, UNCHANGED observers, events' = <<>> PROVE ObsInv' /\ Fresh
  BY DEF ObsInv, Fresh

\* Without observers a pass publishes nothing.
LEMMA SilentOuts ==
    ASSUME ~observers, NEW sn, NEW i, NEW c0, NEW c1, NEW end, NEW out,
           Emits(sn, i, c0, c1, end, out)
    PROVE  out = <<>>
  BY DEF Emits, Active

\* A step that settles, with or without observers.
LEMMA AnySettleObs ==
    ASSUME Inv, ObsInv, inp' \in In, NEW c \in Out, NEW end \in Ends,
           NEW out \in Outs, Settle(c, end, out), UNCHANGED <<observers, many>>
    PROVE  ObsInv' /\ Fresh
  <1>1. CASE observers
    BY <1>1, SettleObs
  <1>2. CASE ~observers
    <2>1. events' = <<>>
      BY <1>2, SilentOuts DEF Settle, Pass
    <2> QED  BY <1>2, <2>1, SilentObs
  <1> QED  BY <1>1, <1>2

\* A tick, with or without observers.
LEMMA AnyTickObs ==
    ASSUME Inv, ObsInv, NEW e \in Events, Tick(e) PROVE ObsInv' /\ Fresh
  <1>1. CASE observers
    BY <1>1, TickObs
  <1>2. CASE ~observers
    <2>1. PICK c1 \in Out, end1 \in Ends, out1 \in Outs :
            /\ SettlesFirst(c1, end1, out1)
            /\ \/ TickFailsFirst(e, c1, end1, out1)
               \/ \E t \in St : TickFailsInFf(e, c1, out1, t)
               \/ \E t \in St, c2 \in Out, end2 \in Ends, out2 \in Outs :
                      TickSettlesAgain(e, c1, out1, t, c2, end2, out2)
      BY DEF Tick
    <2>2. out1 = <<>>
      BY <1>2, <2>1, SilentOuts DEF SettlesFirst, Pass
    <2>3. ASSUME NEW t \in St, NEW c2 \in Out, NEW end2 \in Ends, NEW out2 \in Outs,
                 TickSettlesAgain(e, c1, out1, t, c2, end2, out2)
          PROVE  events' = <<>>
      <3>1. out2 = <<>>
        BY <1>2, <2>3, SilentOuts DEF TickSettlesAgain, Pass
      <3>2. events' = <<>> \o <<>>
        BY <2>2, <2>3, <3>1 DEF TickSettlesAgain
      <3>3. \A s \in Seq({}) : s \o <<>> = s
        BY ConcatEmptySeq
      <3> QED  BY <3>2, <3>3
    <2>4. events' = <<>>
      BY <2>1, <2>2, <2>3 DEF TickFailsFirst, TickFailsInFf
    <2> QED  BY <1>2, <2>4, SilentObs DEF Tick
  <1> QED  BY <1>1, <1>2

\* The lazy settle that heads every observation.
LEMMA LazySettleObs ==
    ASSUME Inv, ObsInv, NEW returns, SettleIfDirty(returns),
           UNCHANGED <<observers, many>>
    PROVE  ObsInv' /\ Fresh
  <1>1. UNCHANGED <<inp, reg>> /\ inp' \in In
    BY DEF SettleIfDirty, Inv, TypeOK
  <1>2. CASE dirty
    <2>1. PICK c \in Out, end \in Ends, out \in Outs : Settle(c, end, out)
      BY <1>2 DEF SettleIfDirty
    <2> QED  BY <1>1, <2>1, AnySettleObs
  <1>3. CASE ~dirty
    <2>1. NoEval /\ UNCHANGED dirty
      BY <1>3 DEF SettleIfDirty
    <2> QED  BY <1>1, <2>1, NoEvalObs
  <1> QED  BY <1>2, <1>3

\* Every call keeps the observers' invariant and publishes only news.
LEMMA ObsStep == ASSUME Inv, ObsInv, Next PROVE ObsInv' /\ Fresh
  <1>1. CASE Write
    <2>1. inp' \in In /\ UNCHANGED <<observers, many>>
      BY <1>1 DEF Write
    <2>2. CASE drain
      <3>1. PICK c \in Out, end \in Ends, out \in Outs : Settle(c, end, out)
        BY <1>1, <2>2 DEF Write
      <3> QED  BY <2>1, <3>1, AnySettleObs
    <2>3. CASE ~drain
      <3>1. dirty' = TRUE /\ NoEval
        BY <1>1, <2>3 DEF Write
      <3>2. Fresh
        BY <3>1 DEF Fresh, NoEval
      <3>3. ObsInv'
        BY <2>1, <3>1 DEF ObsInv, NoEval, Idle
      <3> QED  BY <3>2, <3>3
    <2> QED  BY <2>2, <2>3
  <1>2. CASE Get \/ DrainRuntimeEvents
    BY <1>2, LazySettleObs DEF Get, DrainRuntimeEvents
  <1>3. CASE DrainRuntimeEventsDeferred
    <2>1. CASE observers
      BY <1>3, <2>1, LazySettleObs DEF DrainRuntimeEventsDeferred
    <2>2. CASE ~observers
      BY <1>3, <2>2, NoEvalObs DEF DrainRuntimeEventsDeferred
    <2> QED  BY <2>1, <2>2
  <1>4. CASE EvalCombCall
    <2>1. PICK c \in Out, end \in Ends, out \in Outs : Settle(c, end, out)
      BY <1>4 DEF EvalCombCall
    <2>2. inp' \in In /\ UNCHANGED <<observers, many>>
      BY <1>4 DEF EvalCombCall, Inv, TypeOK
    <2> QED  BY <2>1, <2>2, AnySettleObs
  <1>5. CASE OpenDrain \/ DropDrain
    BY <1>5, NoEvalObs DEF OpenDrain, DropDrain
  <1>6. CASE TickCall
    BY <1>6, AnyTickObs DEF TickCall
  <1>7. CASE TickDeferredComb
    <2>1. PICK e \in Events : \/ observers /\ Tick(e)
                              \/ ~observers /\ dirty /\ FusedTick(e, 0)
                              \/ ~observers /\ ~dirty /\ UnsettledTick(e)
      BY <1>7 DEF TickDeferredComb
    <2>2. CASE ~observers /\ FusedTick(e, 0)
      BY <2>2, SilentObs DEF FusedTick
    <2>3. CASE ~observers /\ UnsettledTick(e)
      BY <2>3, SilentObs DEF UnsettledTick, NoEval
    <2> QED  BY <2>1, <2>2, <2>3, AnyTickObs
  <1>8. CASE TickDeferredCombMany
    BY <1>8, SilentObs DEF TickDeferredCombMany, FusedTick
  <1>9. CASE ManyContinues
    <2>1. ~observers
      BY <1>9 DEF ManyContinues, ObsInv, Idle, Inv, TypeOK
    <2> QED  BY <1>9, <2>1, SilentObs DEF ManyContinues, FusedTick
  <1> QED
    BY <1>1, <1>2, <1>3, <1>4, <1>5, <1>6, <1>7, <1>8, <1>9 DEF Next

\* The observers' invariant holds throughout.
LEMMA ObsInvInductive == Spec => []ObsInv
  <1>1. Init => ObsInv
    BY NoLoopType DEF Init, ObsInv, Idle
  <1>2. Inv /\ ObsInv /\ [Next]_vars => ObsInv'
    <2>1. ASSUME Inv, ObsInv, UNCHANGED vars PROVE ObsInv'
      BY <2>1 DEF vars, observing, ObsInv, Idle, Reads
    <2> QED  BY <2>1, ObsStep
  <1> QED  BY <1>1, <1>2, InvInit, InvStep, PTL DEF Spec

\* No deferred tick, lazy write or drain swallows a change, for every design.
THEOREM ChangesAreShown == Spec => []EveryChangeIsShown
  <1>1. ObsInv => EveryChangeIsShown
    BY DEF ObsInv, EveryChangeIsShown
  <1> QED  BY <1>1, ObsInvInductive, PTL

\* No change is shown twice, for every design.
THEOREM ShownOnce == Spec => ShownOnlyOnChange
  <1>1. Inv /\ ObsInv /\ [Next]_vars => [Fresh]_vars
    BY ObsStep
  <1>2. [Fresh]_vars =>
          [\A k \in 1..Len(events') :
              events'[k] # (IF k = 1 THEN shown ELSE events'[k - 1])
              \/ failed \/ failed']_vars
    BY DEF Fresh
  <1> QED
    BY <1>1, <1>2, ObsInvInductive, InvInit, InvStep, PTL DEF Spec, ShownOnlyOnChange
-----------------------------------------------------------------------------
(* The refinement.  `call' and the memory decide which abstract step each  *)
(* call is; that the values agree is the invariant's business.             *)

\* A lazy settle is an observation of the settled design, or returns nothing.
LEMMA SettleIfDirtyImplements ==
    ASSUME Inv, NEW returns \in BOOLEAN, SettleIfDirty(returns), UNCHANGED broken
    PROVE  Eager!Next
  <1> USE DEF Inv
  <1>1. UNCHANGED <<inp, reg>>
    BY DEF SettleIfDirty
  <1>2. CASE call' = <<"other">>
    BY <1>1, <1>2 DEF Eager!Next, Eager!Other
  <1>3. CASE call' = <<"observe", comb'>> /\ ~dirty'
    <2>1. comb' \in Out
      <3>1. CASE dirty
        BY <3>1 DEF SettleIfDirty, Settle
      <3>2. CASE ~dirty
        BY <3>2 DEF SettleIfDirty, NoEval, TypeOK
      <3> QED  BY <3>1, <3>2
    <2>2. ~broken => comb' = Comb[inp][reg]
      <3>1. CASE dirty
        <4>1. PICK c \in Out, end \in Ends, out \in Outs :
                  Settle(c, end, out) /\ dirty' = (end # "ok")
          BY <3>1 DEF SettleIfDirty
        <4> QED  BY <1>1, <1>3, <4>1, EvalSettles DEF Settle, Pass, TypeOK
      <3>2. CASE ~dirty
        BY <3>2 DEF SettleIfDirty, NoEval, Settled
      <3> QED  BY <3>1, <3>2
    <2> QED  BY <1>1, <1>3, <2>1, <2>2 DEF Eager!Next, Eager!Observe
  <1> QED  BY <1>2, <1>3 DEF SettleIfDirty

\* A tick is an edge of the settled design: when the memory is clean because
\* the invariant says it is settled, when it is not because tick settles first.
LEMMA TickImplements == ASSUME Inv, NEW e \in Events, Tick(e) PROVE Eager!Next
  <1> USE DEF Inv
  <1>1. PICK c1 \in Out, end1 \in Ends, out1 \in Outs :
          /\ SettlesFirst(c1, end1, out1)
          /\ \/ TickFailsFirst(e, c1, end1, out1)
             \/ end1 = "ok" /\ \E t \in St : TickFailsInFf(e, c1, out1, t)
             \/ end1 = "ok" /\ \E t \in St, c2 \in Out, end2 \in Ends, out2 \in Outs :
                    TickSettlesAgain(e, c1, out1, t, c2, end2, out2)
    BY DEF Tick
  <1>2. UNCHANGED inp /\ reg \in St /\ inp \in In
    BY DEF Tick, TypeOK
  <1>3. (broken' = TRUE \/ broken' = FALSE) /\ reg' \in St
    BY <1>1 DEF TickFailsFirst, TickFailsInFf, TickSettlesAgain, TypeOK
  <1>4. CASE call' = <<"clock fails", e>>
    BY <1>2, <1>3, <1>4 DEF Eager!Next, Eager!ClockFails
  <1>5. CASE call' = <<"clock", e>>
    <2>1. PICK t \in St, c2 \in Out, end2 \in Ends, out2 \in Outs :
              TickSettlesAgain(e, c1, out1, t, c2, end2, out2) /\ end1 = "ok"
      BY <1>1, <1>5 DEF TickFailsFirst, TickFailsInFf
    <2>2. end2 = "ok" /\ broken' = FALSE
      <3>1. <<"clock", e>> # <<"clock fails", e>>
        OBVIOUS
      <3> QED  BY <1>5, <2>1, <3>1 DEF TickSettlesAgain
    <2>3. ~broken => c1 = Comb[inp][reg]
      <3>1. CASE dirty
        BY <1>1, <1>2, <2>1, <3>1, EvalSettles DEF SettlesFirst, Pass
      <3>2. CASE ~dirty
        BY <1>1, <3>2 DEF SettlesFirst, Settled
      <3> QED  BY <3>1, <3>2
    <2>4. ~broken => t = Eager!Edge(e, inp, reg)
      BY <2>1, <2>3 DEF TickSettlesAgain, EvalFf, Eager!Edge
    <2>5. reg' = t
      BY <2>1 DEF TickSettlesAgain
    <2> QED  BY <1>2, <1>5, <2>2, <2>4, <2>5 DEF Eager!Next, Eager!Clock
  <1> QED
    BY <1>1, <1>4, <1>5 DEF TickFailsFirst, TickFailsInFf, TickSettlesAgain

\* A fused tick settles in the compiled code before it commits.
LEMMA FusedImplements ==
    ASSUME Inv, dirty, NEW e \in Events, NEW left, FusedTick(e, left)
    PROVE  Eager!Next
  <1> USE DEF Inv
  <1>1. PICK c \in Out, end \in Ends, t \in St :
          /\ EvalComb(inp, reg, c, end)
          /\ reg' = t
          /\ \/ /\ end = "ok" /\ EvalFf(e, inp, reg, c, t, TRUE)
                /\ call' = <<"clock", e>>
             \/ call' = <<"clock fails", e>>
    BY DEF FusedTick, Ends
  <1>2. UNCHANGED <<inp, broken>> /\ ~broken /\ inp \in In /\ reg \in St
    BY DEF FusedTick, TypeOK
  <1>3. CASE call' = <<"clock fails", e>>
    BY <1>1, <1>2, <1>3 DEF Eager!Next, Eager!ClockFails
  <1>4. CASE end = "ok" /\ EvalFf(e, inp, reg, c, t, TRUE) /\ call' = <<"clock", e>>
    <2>1. t = Eager!Edge(e, inp, reg)
      BY <1>1, <1>2, <1>4, EvalSettles DEF EvalFf, Eager!Edge
    <2> QED  BY <1>1, <1>2, <1>4, <2>1 DEF Eager!Next, Eager!Clock
  <1> QED  BY <1>1, <1>3, <1>4

\* A tick on a clean memory reads settled signals.
LEMMA UnsettledImplements ==
    ASSUME Inv, ~dirty, NEW e \in Events, UnsettledTick(e)
    PROVE  Eager!Next
  <1> USE DEF Inv
  <1>1. PICK t \in St, ok \in BOOLEAN :
          /\ EvalFf(e, inp, reg, comb, t, ok)
          /\ reg' = t
          /\ broken' = ~ok
          /\ call' = IF ok THEN <<"clock", e>> ELSE <<"clock fails", e>>
    BY DEF UnsettledTick
  <1>2. UNCHANGED inp
    BY DEF UnsettledTick
  <1>3. CASE ok
    <2>1. ~broken => t = Eager!Edge(e, inp, reg)
      BY <1>1, <1>3 DEF EvalFf, Eager!Edge, Settled
    <2> QED  BY <1>1, <1>2, <1>3, <2>1 DEF Eager!Next, Eager!Clock
  <1>4. CASE ~ok
    BY <1>1, <1>2, <1>4 DEF Eager!Next, Eager!ClockFails
  <1> QED  BY <1>3, <1>4

\* On a clean memory an evaluation changes nothing, enables no observer and so
\* cannot fail.
LEMMA CleanPassEnds ==
    ASSUME Inv, ObsInv, EvalCombCall, broken' PROVE broken
  <1> SUFFICES ASSUME ~broken PROVE FALSE
    BY DEF Inv, TypeOK
  <1>1. PICK c \in Out, end \in Ends, out \in Outs :
            Settle(c, end, out) /\ ~dirty /\ end # "ok"
    BY DEF EvalCombCall
  <1>2. /\ comb = Comb[inp][reg] /\ <<inp, reg>> \notin Loops
        /\ observers => snap = Reads(inp, comb)
        /\ inp' = inp /\ reg' = reg /\ inp \in In /\ comb \in Out
    BY <1>1 DEF Inv, TypeOK, Settled, ObsInv, EvalCombCall
  <1>3. MayStop(snap, inp, reg, comb)
    BY <1>1, <1>2 DEF Settle, Pass, EvalComb, Ends
  <1>4. snap # NoSnap
    BY <1>2, <1>3, NoSnapAssumption DEF MayStop, Reads
  <1> QED  BY <1>2, <1>3, <1>4 DEF MayStop, Active

\* Every step of the simulator is a step of the eager one.
LEMMA StepImplements == Inv /\ ObsInv /\ [Next]_vars => [Eager!Next]_(Eager!vars)
  <1> SUFFICES ASSUME Inv, ObsInv, [Next]_vars PROVE Eager!Next \/ UNCHANGED Eager!vars
    OBVIOUS
  <1> USE DEF Eager!Next
  <1>1. CASE Write
    BY <1>1 DEF Write, Eager!Write, Inv, TypeOK
  <1>2. CASE Get \/ DrainRuntimeEvents
    BY <1>2, SettleIfDirtyImplements DEF Get, DrainRuntimeEvents
  <1>3. CASE DrainRuntimeEventsDeferred
    <2>1. CASE observers
      BY <1>3, <2>1, SettleIfDirtyImplements DEF DrainRuntimeEventsDeferred
    <2>2. CASE ~observers
      BY <1>3, <2>2 DEF DrainRuntimeEventsDeferred, Eager!Other
    <2> QED  BY <2>1, <2>2
  <1>4. CASE EvalCombCall
    <2>1. broken' => broken
      BY <1>4, CleanPassEnds DEF EvalCombCall
    <2> QED  BY <1>4, <2>1 DEF EvalCombCall, Eager!Other
  <1>5. CASE OpenDrain \/ DropDrain
    BY <1>5 DEF OpenDrain, DropDrain, Eager!Other
  <1>6. CASE TickCall
    BY <1>6, TickImplements DEF TickCall
  <1>7. CASE TickDeferredComb
    BY <1>7, TickImplements, FusedImplements, UnsettledImplements
    DEF TickDeferredComb
  <1>8. CASE TickDeferredCombMany
    BY <1>8, FusedImplements DEF TickDeferredCombMany
  <1>9. CASE ManyContinues
    <2>1. many.ev \in Events /\ dirty
      BY <1>9, ManyAssumption DEF ManyContinues, Inv, TypeOK, Idle
    <2> QED  BY <1>9, <2>1, FusedImplements DEF ManyContinues
  <1>10. CASE UNCHANGED vars
    BY <1>10 DEF vars, observing, Eager!vars
  <1> QED
    BY <1>1, <1>2, <1>3, <1>4, <1>5, <1>6, <1>7, <1>8, <1>9, <1>10 DEF Next

\* Laziness cannot be observed, for every design and every sequence of calls.
THEOREM LazyImplementsEager == Spec => RefinesEager
  <1>1. Init => Eager!Init
    BY DEF Init, Eager!Init
  <1> QED
    BY <1>1, InvInit, InvStep, ObsInvInductive, StepImplements, PTL DEF Spec, RefinesEager, Eager!Spec
=============================================================================
