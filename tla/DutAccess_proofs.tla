-------------------------- MODULE DutAccess_proofs --------------------------
(***************************************************************************)
(* For every design and either owner: the mark the TypeScript DUT shares   *)
(* with its owner tells the truth wherever there is no reason to doubt it; *)
(* and under the owner Simulator the DUT implements the eager simulator.   *)
(***************************************************************************)
EXTENDS DutAccess, TLAPS

\* The strengthening: only a celox::Simulation keeps a mark of its own, and
\* only Simulator runs the loop of tickN.
Inv ==
    /\ TypeOK
    /\ CleanIsSettled
    /\ native => host = "simulation"
    /\ ticks.left > 0 => host = "simulator"

\* A pass that its owner saw end well leaves the settled signals, or a doubt.
LEMMA EvalSettles ==
    ASSUME NEW i \in In, NEW s \in St, NEW c \in Out, HostEval(i, s, c, "ok")
    PROVE  /\ Passed(i, s) \subseteq Doubts
           /\ Passed(i, s) = {} => c = Comb[i][s]
           /\ Passed(i, s) # {} => host = "simulator" /\ <<i, s>> \in Silent
  BY DEF EvalComb, HostEval, Passed, Deceived, Doubts

\* The idle value of the loop of tickN is one.
LEMMA NoTicksType ==
    NoTicks \in [ev : Events, left : 0..MaxTicks] /\ NoTicks.left = 0
  <1>1. (CHOOSE e \in Events : TRUE) \in Events
    BY DesignAssumption
  <1> QED  BY <1>1, HostAssumption DEF NoTicks

\* What every step of the owner leaves alone keeps its part of the invariant.
LEMMA InvFrame ==
    ASSUME Inv, UNCHANGED host,
           inp' \in In, reg' \in St, comb' \in Out, dirty' \in BOOLEAN,
           native' \in BOOLEAN, native' => host = "simulation", alive' \in BOOLEAN,
           queue' \in {"empty", "once", "clock"},
           ticks' \in [ev : Events, left : 0..MaxTicks],
           ticks'.left > 0 => host = "simulator",
           doubt' \subseteq Doubts, CleanIsSettled'
    PROVE  Inv'
  BY DEF Inv, TypeOK

-----------------------------------------------------------------------------

\* The DUT's own accesses: a write marks, a read of a marked memory settles.
LEMMA AccessKeeps ==
    ASSUME Inv, DutWrite \/ DutRead \/ Dump \/ FourState \/ Dispose
    PROVE  Inv'
  <1> USE DEF Inv
  <1>1. CASE DutWrite
    <2>1. CleanIsSettled'
      BY <1>1 DEF DutWrite, CleanIsSettled
    <2>2. {} \subseteq Doubts
      OBVIOUS
    <2> QED  BY <1>1, <2>1, <2>2, InvFrame DEF DutWrite, TypeOK
  <1>2. CASE DutRead
    <2>1. CASE dirty
      <3>1. PICK c \in Out, end \in Ends :
                /\ Evaluate(c, end) /\ dirty' = (end # "ok")
                /\ doubt' = IF end = "ok" THEN Passed(inp, reg) ELSE doubt
        BY <1>2, <2>1 DEF DutRead
      <3>2. UNCHANGED <<inp, reg, host, queue, ticks, alive>>
        BY <1>2, <2>1 DEF DutRead
      <3>3. CleanIsSettled' /\ doubt' \subseteq Doubts
        BY <3>1, <3>2, EvalSettles DEF CleanIsSettled, Evaluate, TypeOK
      <3> QED  BY <3>1, <3>2, <3>3, InvFrame DEF Evaluate, TypeOK
    <2>2. CASE ~dirty
      BY <1>2, <2>2 DEF DutRead, TypeOK, CleanIsSettled
    <2> QED  BY <2>1, <2>2
  <1>3. CASE Dump
    <2>1. CASE native
      <3>1. PICK c \in Out, end \in Ends :
                /\ Evaluate(c, end)
                /\ doubt' = IF end = "ok" THEN {}
                            ELSE IF dirty THEN doubt ELSE doubt \cup {"failed"}
        BY <1>3, <2>1 DEF Dump
      <3>2. UNCHANGED <<inp, reg, dirty, host, queue, ticks, alive>>
        BY <1>3 DEF Dump
      <3>3. CleanIsSettled'
        <4>1. Passed(inp, reg) = {}
          BY <2>1 DEF Passed, Deceived
        <4> QED  BY <3>1, <3>2, <4>1, EvalSettles DEF CleanIsSettled, Evaluate, TypeOK
      <3>4. doubt' \subseteq Doubts
        BY <3>1 DEF Doubts, TypeOK
      <3> QED  BY <3>1, <3>2, <3>3, <3>4, InvFrame DEF Evaluate, TypeOK
    <2>2. CASE ~native
      <3>1. UNCHANGED <<host, inp, reg, comb, dirty, native, queue, ticks, alive, doubt>>
        BY <1>3, <2>2 DEF Dump
      <3> QED  BY <3>1 DEF TypeOK, CleanIsSettled
    <2> QED  BY <2>1, <2>2
  <1>4. CASE FourState \/ Dispose
    <2>1. UNCHANGED <<host, inp, reg, comb, dirty, native, queue, ticks, doubt>>
      BY <1>4 DEF FourState, Dispose
    <2>2. alive' \in BOOLEAN
      BY <1>4 DEF FourState, Dispose, TypeOK
    <2> QED  BY <2>1, <2>2 DEF TypeOK, CleanIsSettled
  <1> QED  BY <1>1, <1>2, <1>3, <1>4

\* An edge of the bare back end evaluates twice: whatever fails in between,
\* the memory is settled or in doubt.
LEMMA NativeTickKeeps ==
    ASSUME Inv, host = "simulator", NEW e \in Events, NEW left \in 0..MaxTicks,
           NativeTick(e, left)
    PROVE  Inv'
  <1> USE DEF Inv
  <1>1. UNCHANGED <<host, inp, dirty, native, queue, alive>>
    BY DEF NativeTick
  <1>2. PICK c1 \in Out, end1 \in Ends :
        /\ HostEval(inp, reg, c1, end1)
        /\ \/ /\ end1 # "ok" /\ comb' = c1 /\ ticks' = NoTicks
              /\ doubt' = {"failed"}
              /\ UNCHANGED reg
           \/ /\ comb' = c1 /\ doubt' = {"failed"} /\ ticks' = NoTicks
              /\ \E t \in St : reg' = t
           \/ \E t \in St, c2 \in Out, end2 \in Ends :
                /\ HostEval(inp, t, c2, end2)
                /\ reg' = t /\ comb' = c2
                /\ doubt' = IF end2 = "ok" THEN Passed(inp, t) ELSE {"failed"}
                /\ ticks' = IF end2 = "ok" THEN [ev |-> e, left |-> left] ELSE NoTicks
    BY DEF NativeTick
  <1>3. /\ reg' \in St /\ comb' \in Out
        /\ ticks' \in {[ev |-> e, left |-> left], NoTicks}
    BY <1>2 DEF TypeOK
  <1>4. doubt' \subseteq Doubts
    BY <1>2 DEF Doubts, Passed
  <1>5. ticks' \in [ev : Events, left : 0..MaxTicks]
    BY <1>3, NoTicksType
  <1>6. CleanIsSettled'
    BY <1>1, <1>2, EvalSettles DEF CleanIsSettled, TypeOK
  <1> QED  BY <1>1, <1>3, <1>4, <1>5, <1>6, InvFrame DEF TypeOK

\* The owner Simulator: it settles, keeps the mark when that throws, and ticks.
LEMMA SimulatorKeeps ==
    ASSUME Inv, TickSettles \/ TickNative \/ TickNContinues
    PROVE  Inv'
  <1> USE DEF Inv
  <1>1. CASE TickSettles
    <2>1. PICK c \in Out, end \in Ends :
              /\ Evaluate(c, end) /\ dirty' = (end # "ok")
              /\ doubt' = IF end = "ok" THEN Passed(inp, reg) ELSE doubt
      BY <1>1 DEF TickSettles
    <2>2. UNCHANGED <<inp, reg, host, queue, ticks, alive>>
      BY <1>1 DEF TickSettles
    <2>3. CleanIsSettled' /\ doubt' \subseteq Doubts
      BY <2>1, <2>2, EvalSettles DEF CleanIsSettled, Evaluate, TypeOK
    <2> QED  BY <2>1, <2>2, <2>3, InvFrame DEF Evaluate, TypeOK
  <1>2. CASE TickNative
    <2>1. PICK e \in Events, n \in 1..MaxTicks : NativeTick(e, n - 1)
      BY <1>2 DEF TickNative
    <2>2. n - 1 \in 0..MaxTicks /\ host = "simulator"
      BY <1>2, HostAssumption DEF TickNative
    <2> QED  BY <2>1, <2>2, NativeTickKeeps
  <1>3. CASE TickNContinues
    <2>1. /\ ticks.ev \in Events /\ ticks.left - 1 \in 0..MaxTicks
          /\ host = "simulator"
      BY <1>3, HostAssumption DEF TickNContinues, TypeOK
    <2> QED  BY <1>3, <2>1, NativeTickKeeps DEF TickNContinues
  <1> QED  BY <1>1, <1>2, <1>3

\* A processed event leaves the settled signals.
LEMMA EdgeSettles ==
    ASSUME NEW i \in In, NEW s \in St, NEW c \in Out, EdgeAt(i, s, c)
    PROVE  c = Comb[i][s]
  BY DEF EdgeAt, EvalComb

\* The owner Simulation: it settles, or there is a reason to doubt the mark.
LEMMA SimulationKeeps ==
    ASSUME Inv, \/ Schedule \/ StepsAnEvent \/ StepFails \/ StepsNothing
                \/ RunsUntilNothing \/ Reset
    PROVE  Inv'
  <1> USE DEF Inv
  <1>1. CASE Schedule
    <2>1. queue' \in {"empty", "once", "clock"} /\ CleanIsSettled'
      BY <1>1 DEF Schedule, CleanIsSettled
    <2> QED  BY <1>1, <2>1 DEF Schedule, TypeOK
  <1>2. CASE StepsAnEvent
    <2>1. queue' \in {"empty", "once", "clock"} /\ native' = FALSE
      BY <1>2 DEF StepsAnEvent, EventProcessed, TypeOK
    <2>2. /\ reg' \in St /\ comb' \in Out /\ doubt' = {} /\ dirty' = FALSE
          /\ UNCHANGED <<host, inp, ticks, alive>>
          /\ EdgeAt(inp, reg', comb')
      BY <1>2 DEF StepsAnEvent
    <2>3. CleanIsSettled'
      BY <2>2, EdgeSettles DEF CleanIsSettled, TypeOK
    <2> QED  BY <2>1, <2>2, <2>3, InvFrame DEF TypeOK
  <1>3. CASE StepFails
    <2>1. /\ reg' \in St /\ comb' \in Out
          /\ UNCHANGED <<host, inp, dirty, native, ticks, alive>>
          /\ doubt' = IF dirty THEN doubt ELSE doubt \cup {"failed"}
          /\ queue' \in {queue, "empty"}
      BY <1>3 DEF StepFails
    <2>2. doubt' \subseteq Doubts /\ CleanIsSettled'
      BY <2>1 DEF Doubts, TypeOK, CleanIsSettled
    <2> QED  BY <2>1, <2>2, InvFrame DEF TypeOK
  <1>4. CASE StepsNothing
    <2>1. doubt' \subseteq Doubts /\ CleanIsSettled'
      BY <1>4 DEF StepsNothing, Forget, Doubts, TypeOK, CleanIsSettled
    <2> QED  BY <1>4, <2>1, InvFrame DEF StepsNothing, TypeOK
  <1>5. CASE RunsUntilNothing
    <2>1. UNCHANGED <<inp, reg, host, queue, ticks, alive>>
      BY <1>5 DEF RunsUntilNothing
    <2>2. ASSUME NEW c \in Out, Evaluate(c, "ok"), dirty' = FALSE, doubt' = {}
          PROVE  Inv'
      <3>1. CleanIsSettled'
        <4>1. Passed(inp, reg) = {}
          BY <1>5 DEF RunsUntilNothing, Passed, Deceived
        <4> QED  BY <2>1, <2>2, <4>1, EvalSettles DEF CleanIsSettled, Evaluate, TypeOK
      <3> QED  BY <2>1, <2>2, <3>1, InvFrame DEF Evaluate, TypeOK
    <2>3. ASSUME NEW c \in Out, NEW end \in {"fatal", "loop"}, Evaluate(c, end),
                 doubt' = IF dirty THEN doubt ELSE doubt \cup {"failed"},
                 UNCHANGED dirty
          PROVE  Inv'
      <3>1. CleanIsSettled' /\ doubt' \subseteq Doubts
        BY <2>1, <2>3 DEF CleanIsSettled, Doubts, TypeOK
      <3> QED  BY <2>1, <2>3, <3>1, InvFrame DEF Evaluate, TypeOK
    <2>4. ASSUME dirty' = FALSE, doubt' = Forget, UNCHANGED <<comb, native>>
          PROVE  Inv'
      <3>1. CleanIsSettled' /\ doubt' \subseteq Doubts
        BY <2>1, <2>4 DEF CleanIsSettled, Forget, Doubts, TypeOK
      <3> QED  BY <2>1, <2>4, <3>1, InvFrame DEF TypeOK
    <2> QED  BY <1>5, <2>2, <2>3, <2>4 DEF RunsUntilNothing
  <1>6. CASE Reset
    <2>1. /\ inp' = Release[inp] /\ dirty' = FALSE
          /\ doubt' = doubt \cup {"forgotten"}
          /\ UNCHANGED <<host, ticks, alive>>
      BY <1>6 DEF Reset
    <2>2. /\ reg' \in St /\ comb' \in Out
          /\ native' = FALSE \/ native' = native
          /\ queue' \in {"empty", "once", "clock"}
      <3>1. \/ EventProcessed /\ reg' \in St /\ comb' \in Out
            \/ /\ native' = FALSE /\ UNCHANGED <<reg, queue>>
               /\ \E c \in Out : comb' = c
            \/ UNCHANGED <<reg, comb, native, queue>>
        BY <1>6 DEF Reset
      <3> QED  BY <3>1 DEF EventProcessed, TypeOK
    <2>3. native' \in BOOLEAN /\ host = "simulation"
      BY <1>6, <2>2 DEF Reset, TypeOK
    <2>4. inp' \in In
      BY <2>1, HostAssumption DEF TypeOK
    <2>5. CleanIsSettled' /\ doubt' \subseteq Doubts
      BY <2>1 DEF CleanIsSettled, Doubts, TypeOK
    <2> QED  BY <2>1, <2>2, <2>3, <2>4, <2>5, InvFrame DEF TypeOK
  <1> QED  BY <1>1, <1>2, <1>3, <1>4, <1>5, <1>6

\* The invariant is inductive.
LEMMA InvStep == Inv /\ [Next]_vars => Inv'
  <1> SUFFICES ASSUME Inv, [Next]_vars PROVE Inv'
    OBVIOUS
  <1>1. CASE Next
    BY <1>1, AccessKeeps, SimulatorKeeps, SimulationKeeps DEF Next
  <1>2. CASE UNCHANGED vars
    BY <1>2 DEF vars, Inv, TypeOK, CleanIsSettled
  <1> QED  BY <1>1, <1>2

\* A memory just handed out is in doubt: nothing was evaluated.
LEMMA InvInit == Init => Inv
  <1> SUFFICES ASSUME Init PROVE Inv
    OBVIOUS
  <1>1. doubt \subseteq Doubts /\ doubt # {}
    BY DEF Init, Doubts
  <1>2. native \in BOOLEAN /\ (native => host = "simulation")
    BY DEF Init
  <1>3. TypeOK
    BY <1>1, <1>2, NoTicksType, DesignAssumption DEF Init, TypeOK
  <1> QED  BY <1>1, <1>2, <1>3, NoTicksType DEF Inv, CleanIsSettled, Init

\* The types, for every design.
THEOREM TypeCorrect == Spec => []TypeOK
  <1>1. Inv => TypeOK
    BY DEF Inv
  <1> QED  BY <1>1, InvInit, InvStep, PTL DEF Spec

\* The mark of the DUT tells the truth for every design and either owner: when
\* it is clear and nothing gives a reason to doubt it (no failed evaluation, no
\* clearing without one, no fatal $assert of site 0 that passed for success), the
\* ports in memory are settled.
THEOREM MarkIsTrue == Spec => []CleanIsSettled
  <1>1. Inv => CleanIsSettled
    BY DEF Inv
  <1> QED  BY <1>1, InvInit, InvStep, PTL DEF Spec

-----------------------------------------------------------------------------
(* The refinement.                                                         *)

\* An edge of the back end is an edge of the settled design: the first pass
\* settles whatever was written before.
LEMMA NativeTickImplements ==
    ASSUME Inv, NEW e \in Events, NEW left, NativeTick(e, left)
    PROVE  Eager!Next
  <1> USE DEF Inv
  <1>1. UNCHANGED <<host, inp>> /\ inp \in In /\ reg \in St
    BY DEF NativeTick, TypeOK
  <1>2. CASE call' = <<"clock fails", e>> /\ reg' \in St
    BY <1>1, <1>2 DEF Eager!Next, Eager!ClockFails
  <1>3. ASSUME NEW c1 \in Out, NEW t \in St, NEW c2 \in Out, NEW end2 \in Ends,
               HostEval(inp, reg, c1, "ok"), EvalFf(e, inp, reg, c1, t, TRUE),
               HostEval(inp, t, c2, "ok"), reg' = t, call' = <<"clock", e>>,
               doubt' = Passed(inp, t)
        PROVE  Eager!Next
    <2>1. c1 = Comb[inp][reg] \/ <<inp, reg>> \in Silent
      BY <1>1, <1>3, EvalSettles
    <2>2. t = Edge(e, inp, reg) \/ <<inp, reg>> \in Silent
      BY <1>3, <2>1 DEF EvalFf, Edge
    <2>3. t = Eager!Edge(e, inp, reg) \/ <<inp, reg>> \in Silent
      BY <2>2 DEF Edge, Eager!Edge
    <2>4. doubt' = {} \/ <<inp, t>> \in Silent
      BY <1>1, <1>3, EvalSettles
    <2> QED  BY <1>1, <1>3, <2>3, <2>4 DEF Eager!Next, Eager!Clock
  <1>4. PICK c1 \in Out, end1 \in Ends :
        /\ HostEval(inp, reg, c1, end1)
        /\ \/ call' = <<"clock fails", e>> /\ UNCHANGED reg
           \/ call' = <<"clock fails", e>> /\ \E t \in St : reg' = t
           \/ /\ end1 = "ok"
              /\ \E t \in St, c2 \in Out, end2 \in Ends :
                  /\ EvalFf(e, inp, reg, c1, t, TRUE)
                  /\ HostEval(inp, t, c2, end2)
                  /\ reg' = t
                  /\ doubt' = IF end2 = "ok" THEN Passed(inp, t) ELSE {"failed"}
                  /\ call' = IF end2 = "ok" THEN <<"clock", e>> ELSE <<"clock fails", e>>
    BY DEF NativeTick
  <1> QED  BY <1>1, <1>2, <1>3, <1>4

\* Under Simulator, every step is one of the eager simulator's or a stutter;
\* under Simulation nothing is promised here.
LEMMA StepImplements == Inv /\ [Next]_vars => [Eager!Next]_(Eager!vars)
  <1> SUFFICES ASSUME Inv, [Next]_vars PROVE [Eager!Next]_(Eager!vars)
    OBVIOUS
  <1> USE DEF Inv, Eager!Next
  <1>1. CASE DutWrite
    BY <1>1 DEF DutWrite, Eager!Write
  <1>2. CASE DutRead
    <2>1. UNCHANGED <<inp, reg, host>>
      BY <1>2 DEF DutRead
    <2>2. CASE dirty
      <3>1. PICK c \in Out, end \in Ends :
                /\ Evaluate(c, end)
                /\ doubt' = IF end = "ok" THEN Passed(inp, reg) ELSE doubt
                /\ call' = IF end = "ok" THEN <<"observe", c>> ELSE <<"other">>
        BY <1>2, <2>2 DEF DutRead
      <3>2. CASE end # "ok"
        BY <2>1, <3>1, <3>2 DEF Eager!Other
      <3>3. CASE end = "ok"
        <4>1. \/ doubt' = {} /\ c = Comb[inp][reg]
              \/ <<inp, reg>> \in Silent
          BY <3>1, <3>3, EvalSettles DEF Evaluate, TypeOK
        <4> QED  BY <2>1, <3>1, <3>3, <4>1 DEF Eager!Observe
      <3> QED  BY <3>2, <3>3
    <2>3. CASE ~dirty
      <3>1. call' = <<"observe", comb>> /\ comb \in Out /\ UNCHANGED doubt
        BY <1>2, <2>3 DEF DutRead, TypeOK
      <3>2. doubt = {} => comb = Comb[inp][reg]
        BY <2>3 DEF CleanIsSettled
      <3> QED  BY <2>1, <3>1, <3>2 DEF Eager!Observe
    <2> QED  BY <2>2, <2>3
  <1>3. CASE Dump
    <2>1. UNCHANGED <<inp, reg, host>>
      BY <1>3 DEF Dump
    <2>2. host = "simulator" => UNCHANGED doubt
      BY <1>3 DEF Dump
    <2>3. (\E c : call' = <<"dump", c>>) \/ call' = <<"other">>
      BY <1>3 DEF Dump
    <2> QED  BY <2>1, <2>2, <2>3 DEF Eager!Other
  <1>4. CASE FourState \/ Dispose
    BY <1>4 DEF FourState, Dispose, Eager!Other
  <1>5. CASE TickSettles
    <2>1. PICK c \in Out, end \in Ends :
              /\ Evaluate(c, end)
              /\ doubt' = IF end = "ok" THEN Passed(inp, reg) ELSE doubt
      BY <1>5 DEF TickSettles
    <2>2. doubt = {} => doubt' = {} \/ <<inp, reg>> \in Silent
      BY <2>1, EvalSettles DEF Evaluate, TypeOK
    <2> QED  BY <1>5, <2>2 DEF TickSettles, Eager!Other
  <1>6. CASE TickNative
    BY <1>6, NativeTickImplements DEF TickNative
  <1>7. CASE TickNContinues
    <2>1. ticks.ev \in Events
      BY DEF TypeOK
    <2> QED  BY <1>7, <2>1, NativeTickImplements DEF TickNContinues
  <1>8. CASE Schedule \/ StepsNothing \/ RunsUntilNothing
    BY <1>8 DEF Schedule, StepsNothing, RunsUntilNothing, Eager!Other
  <1>9. CASE StepsAnEvent
    <2>1. PICK e \in Events : call' = <<"clock", e>>
      BY <1>9 DEF StepsAnEvent
    <2> QED  BY <1>9, <2>1 DEF StepsAnEvent, Eager!Clock
  <1>10. CASE StepFails
    <2>1. PICK e \in Events : call' = <<"clock fails", e>>
      BY <1>10 DEF StepFails
    <2> QED  BY <1>10, <2>1 DEF StepFails, Eager!ClockFails
  <1>11. CASE Reset
    <2>1. /\ inp' = Release[inp] /\ inp' \in In
          /\ call' = <<"write", inp', reg'>> /\ host = "simulation" /\ UNCHANGED host
      BY <1>11, HostAssumption DEF Reset, TypeOK
    <2>2. reg' \in St
      BY <1>11 DEF Reset, TypeOK
    <2> QED  BY <2>1, <2>2 DEF Eager!Write
  <1>12. CASE UNCHANGED vars
    BY <1>12 DEF vars, Eager!vars
  <1> QED
    BY <1>1, <1>2, <1>3, <1>4, <1>5, <1>6, <1>7, <1>8, <1>9, <1>10, <1>11, <1>12
    DEF Next

\* Under the owner Simulator, direct access to shared memory behind a mark
\* cannot be told from settling at every write, for every design, up to a fatal
\* $assert of site 0.
THEOREM DutImplementsEager == Spec => RefinesEager
  <1>1. Init => Eager!Init
    BY DEF Init, Eager!Init
  <1> QED
    BY <1>1, InvInit, InvStep, StepImplements, PTL DEF Spec, RefinesEager, Eager!Spec
=============================================================================
