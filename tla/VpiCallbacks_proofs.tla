------------------------- MODULE VpiCallbacks_proofs -------------------------
(***************************************************************************)
(* For every number of callbacks, signals and delays, and whatever the     *)
(* callbacks do: handles are freed once, removed callbacks never fire,     *)
(* and the regions of run() come in their order.                           *)
(***************************************************************************)
EXTENDS VpiCallbacks, WellFoundedInduction, TLAPS

-----------------------------------------------------------------------------
(* The inductive invariant                                                 *)

\* Where run() is and what it holds there: a batch exists only while it is
\* fired, the id being fired has left it, and a flush knows where to return.
ControlOK ==
  /\ pc \notin {"fire", "callback"} => Through
  /\ pc \in {"fire", "callback"} => region # "none"
  /\ pc = "callback" => firing.id \in 0..(nextId - 1) /\ firing.id \notin DOMAIN queue
  /\ pc \in {"flush", "flushing", "dispatch"} => site \in {"loop", "inner"}
  /\ pc \in {"fire", "callback"} /\ region = "flush" => site \in {"loop", "inner"}
  /\ pc = "decide" => region = "readOnly"

\* A removed callback is out of the table, or is the one being fired and
\* marked.
Removals ==
  /\ removed \cap DOMAIN cbs = {}
  /\ pc = "callback" /\ firing.id \in removed => firing.cancelled

\* The reason of the registrations of a region's batch.
ReasonOf ==
  [start |-> "START_OF_SIMULATION", due |-> "AFTER_DELAY", change |-> "VALUE_CHANGE",
   flush |-> "VALUE_CHANGE", readWrite |-> "READ_WRITE_SYNCH",
   readOnly |-> "READ_ONLY_SYNCH", next |-> "NEXT_SIM_TIME",
   end |-> "END_OF_SIMULATION"]

\* What is left of a batch is still what selected it, unless it was removed:
\* no callback changes the registration of another.
Batch ==
  \A i \in DOMAIN queue \cap DOMAIN cbs :
    /\ cbs[i].reason = ReasonOf[region]
    /\ region = "due" => cbs[i].due <= time
    /\ region \in {"change", "flush"} => queue[i] # cbs[i].snap

\* No timer is overdue, and only timers have a due time.
Timers ==
  /\ \A i \in DOMAIN cbs :
       IF cbs[i].reason = "AFTER_DELAY" THEN cbs[i].due \in Nat /\ cbs[i].due >= time
                                        ELSE cbs[i].due = None
  /\ pc = "callback" /\ firing.reg.reason # "AFTER_DELAY" => firing.reg.due = None

\* A registration's snapshot is what its callback was last given.
Given ==
  /\ \A i \in DOMAIN cbs : cbs[i].reason = "VALUE_CHANGE" => given[i] = cbs[i].snap
  /\ pc = "callback" => given[firing.id] = firing.delivered

\* What a pass through the inner loop has established by the time it gets to
\* the read-only region, and what holds there when no read-only callback runs.
ReadOnly ==
  /\ pc = "inner" => ~pend
  /\ region = "readOnly" /\ pc \in {"fire", "decide"} /\ ~progressed =>
       /\ Through /\ ~pend /\ AllDelivered
       /\ RegistrationIds("READ_WRITE_SYNCH") = {} /\ RegistrationIds("READ_ONLY_SYNCH") = {}

\* A finish is noticed before anything else but the end is fired.
Finishing ==
  ~EarlyFinish =>
    /\ pc \in {"loop", "inner", "decide", "flush", "flushing", "dispatch"} => ~finish
    /\ pc = "fire" /\ finish => region = "end" \/ Through

\* An iteration without progress has found no timer due, and nothing pending
\* unless a read-only callback wrote.
Quiet == ~progressed /\ ~lateWrite

QuietIteration ==
  /\ pc = "loop" => ~pend \/ lateWrite
  /\ pc \in {"fire", "callback", "decide"} /\ region = "readOnly" /\ pend => lateWrite
  /\ pc \in {"fire", "callback"} /\ region = "change" => progressed
  /\ pc = "callback" /\ region \in {"due", "readWrite", "readOnly"} => progressed
  /\ pc = "fire" /\ region = "due" /\ Quiet => ~pend /\ DueIds \subseteq DOMAIN queue
  /\ pc = "fire" /\ region = "readWrite" /\ Quiet => ~pend /\ DueIds = {}
  /\ pc \in {"fire", "decide"} /\ region = "readOnly" /\ Quiet => DueIds = {}
  /\ pc = "flush" /\ site = "inner" /\ Quiet => ~pend /\ DueIds = {}
  /\ pc = "inner" /\ Quiet => DueIds = {}
  /\ pc \in {"flushing", "dispatch"} /\ site = "inner" => ~Quiet
  /\ pc \in {"fire", "callback"} /\ region = "flush" /\ site = "inner" => ~Quiet

Inv ==
  /\ TypeOK /\ HandlesFreedOnce /\ ControlOK /\ Removals /\ Batch /\ Timers /\ Given
  /\ ReadOnly /\ Finishing /\ QuietIteration

-----------------------------------------------------------------------------
(* Steps of run() that leave the table of callbacks alone                  *)

\* The table's part of the invariant.
LEMMA TableFrame ==
    ASSUME HandlesFreedOnce, Removals, Given, pc' # "callback",
           UNCHANGED <<cbs, nextId, firing, freed, removed, doubleFree, given>>
    PROVE  HandlesFreedOnce' /\ Removals' /\ Given'
  BY DEF HandlesFreedOnce, Removals, Given

\* The types, for a step of run() that calls no foreign code.
LEMMA TypeFrame ==
    ASSUME TypeOK, pc \notin {"callback", "host"},
           pc' \in {"loop", "inner", "decide", "fire", "flush", "dispatch", "flushing"},
           UNCHANGED <<cbs, nextId, firing, running, removed, doubleFree, given, puts,
                       lateWrite>>,
           val' \in [Sigs -> Values], time' \in Nat, edges' \in Nat,
           iterations' \in 0..MaxIter, pend' \in BOOLEAN, finish' \in BOOLEAN,
           error' \in BOOLEAN, progressed' \in BOOLEAN,
           region' \in {"none", "start", "due", "change", "readWrite", "readOnly", "next",
                        "flush", "end"},
           site' \in {"none", "loop", "inner"},
           DOMAIN queue' \subseteq 0..(nextId - 1),
           \A i \in DOMAIN queue' : queue'[i] \in Values \cup {None}
    PROVE  TypeOK'
  <1>1. running' = (pc' # "host")
    BY DEF TypeOK
  <1>2. firing' = NotFiring
    BY DEF TypeOK, NotFiring
  <1> QED  BY <1>1, <1>2 DEF TypeOK

\* A batch without snapshots.
LEMMA EnterItems ==
    ASSUME TypeOK, NEW r \in {"start", "due", "readWrite", "readOnly", "next", "end"},
           NEW S, S \subseteq DOMAIN cbs, \A i \in S : cbs[i].reason = ReasonOf[r],
           r = "due" => \A i \in S : cbs[i].due <= time',
           Enter(r, Items(S)), UNCHANGED cbs
    PROVE  /\ pc' = "fire" /\ region' = r /\ Batch'
           /\ DOMAIN queue' = S /\ DOMAIN queue' \subseteq 0..(nextId - 1)
           /\ \A i \in DOMAIN queue' : queue'[i] \in Values \cup {None}
  <1>1. queue' = [i \in S |-> None] /\ pc' = "fire" /\ region' = r
    BY DEF Enter, Items
  <1>2. DOMAIN queue' = S /\ \A i \in S : queue'[i] = None
    BY <1>1
  <1> QED  BY <1>1, <1>2 DEF Batch, TypeOK

\* The reasons, region by region.
LEMMA ReasonsOfRegions ==
    /\ ReasonOf["start"] = "START_OF_SIMULATION" /\ ReasonOf["due"] = "AFTER_DELAY"
    /\ ReasonOf["change"] = "VALUE_CHANGE" /\ ReasonOf["flush"] = "VALUE_CHANGE"
    /\ ReasonOf["readWrite"] = "READ_WRITE_SYNCH"
    /\ ReasonOf["readOnly"] = "READ_ONLY_SYNCH"
    /\ ReasonOf["next"] = "NEXT_SIM_TIME" /\ ReasonOf["end"] = "END_OF_SIMULATION"
  BY DEF ReasonOf

\* The batch of a region whose callbacks are selected by reason alone.
LEMMA EnterReason ==
    ASSUME TypeOK, NEW r \in {"start", "readWrite", "readOnly", "next", "end"}, NEW reason,
           reason = ReasonOf[r], Enter(r, Items(RegistrationIds(reason))), UNCHANGED cbs
    PROVE  /\ pc' = "fire" /\ region' = r /\ Batch'
           /\ DOMAIN queue' = RegistrationIds(reason)
           /\ DOMAIN queue' \subseteq 0..(nextId - 1)
           /\ \A i \in DOMAIN queue' : queue'[i] \in Values \cup {None}
  <1>1. /\ RegistrationIds(reason) \subseteq DOMAIN cbs
        /\ \A i \in RegistrationIds(reason) : cbs[i].reason = ReasonOf[r]
    BY DEF RegistrationIds
  <1> QED  BY <1>1, EnterItems

\* Entering the end region keeps everything: nothing is asked of it.
LEMMA EndKeeps ==
    ASSUME Inv, EndRegion, pc \notin {"callback", "host"}, UNCHANGED <<cbs, nextId, firing,
               freed, removed, doubleFree, given, running, puts, lateWrite, time>>,
           val' \in [Sigs -> Values], edges' \in Nat, iterations' \in 0..MaxIter,
           pend' \in BOOLEAN, finish' \in BOOLEAN, error' \in BOOLEAN,
           progressed' \in BOOLEAN, site' \in {"none", "loop", "inner"}
    PROVE  Inv'
  <1> USE DEF Inv
  <1>1. /\ pc' = "fire" /\ region' = "end" /\ Batch'
        /\ DOMAIN queue' \subseteq 0..(nextId - 1)
        /\ \A i \in DOMAIN queue' : queue'[i] \in Values \cup {None}
    BY EnterReason, ReasonsOfRegions DEF EndRegion
  <1>2. TypeOK'
    BY <1>1, TypeFrame DEF TypeOK
  <1>3. HandlesFreedOnce' /\ Removals' /\ Given'
    BY <1>1, TableFrame
  <1>4. ControlOK' /\ ReadOnly' /\ Finishing' /\ QuietIteration'
    BY <1>1 DEF ControlOK, ReadOnly, Finishing, QuietIteration
  <1>5. Timers'
    BY <1>1 DEF Timers
  <1> QED  BY <1>1, <1>2, <1>3, <1>4, <1>5

\* A removed callback of the batch is skipped.
LEMMA SkipRemovedKeeps == ASSUME Inv, SkipRemoved PROVE Inv'
  <1> USE DEF Inv
  <1>1. PICK k \in DOMAIN queue \ DOMAIN cbs : queue' = Except(queue, k)
    BY DEF SkipRemoved
  <1>2. /\ pc = "fire"
        /\ UNCHANGED <<val, pend, cbs, nextId, firing, time, finish, running, error,
                       iterations, progressed, region, edges, site, pc, puts, freed,
                       removed, doubleFree, given, lateWrite>>
    BY DEF SkipRemoved, state, hist
  <1>3. DOMAIN queue' = DOMAIN queue \ {k} /\ \A i \in DOMAIN queue' : queue'[i] = queue[i]
    BY <1>1 DEF Except
  <1>4. TypeOK'
    BY <1>2, <1>3, TypeFrame DEF TypeOK
  <1>5. HandlesFreedOnce' /\ Removals' /\ Given'
    BY <1>2, TableFrame
  <1>6. ControlOK' /\ Timers'
    BY <1>2, <1>3 DEF ControlOK, Timers, Through
  <1>7. Batch'
    BY <1>2, <1>3 DEF Batch
  <1>8. ReadOnly'
    BY <1>2, <1>3 DEF ReadOnly, Through, AllDelivered, RegistrationIds
  <1>9. Finishing'
    BY <1>1, <1>2, <1>3 DEF Finishing, Through
  <1>10. QuietIteration'
    <2>1. DueIds' = DueIds /\ Quiet' = Quiet /\ DueIds \subseteq DOMAIN cbs
      BY <1>2 DEF DueIds, Quiet
    <2> QED  BY <1>1, <1>2, <1>3, <2>1 DEF QuietIteration
  <1> QED  BY <1>4, <1>5, <1>6, <1>7, <1>8, <1>9, <1>10

\* A region is through: on to the flush, or to the decision.
LEMMA RegionDoneKeeps == ASSUME Inv, RegionDone PROVE Inv'
  <1> USE DEF Inv
  <1>1. /\ pc = "fire" /\ Through /\ region \notin {"end", "flush"}
        /\ UNCHANGED <<val, pend, cbs, nextId, firing, time, finish, running, error,
                       iterations, progressed, edges, puts, freed, removed, doubleFree,
                       given, lateWrite>>
    BY DEF RegionDone, state, hist
  <1>2. CASE finish
    <2>1. EndRegion /\ UNCHANGED site
      BY <1>2 DEF RegionDone
    <2> QED  BY <1>1, <2>1, EndKeeps DEF TypeOK
  <1>3. CASE ~finish
    <2>1. region \in {"start", "next", "due", "change", "readWrite", "readOnly"}
      BY <1>1 DEF ControlOK, TypeOK
    <2>2. /\ region \in {"start", "next"} => pc' = "flush" /\ site' = "loop"
          /\ region \in {"due", "change", "readWrite"} => pc' = "flush" /\ site' = "inner"
          /\ region = "readOnly" => pc' = "decide" /\ UNCHANGED site
          /\ UNCHANGED <<region, queue>>
      <3>1. CASE region \in {"start", "next"}
        BY <1>3, <3>1 DEF RegionDone, FlushThen
      <3>2. CASE region \in {"due", "change", "readWrite"}
        BY <1>3, <3>2 DEF RegionDone, FlushThen
      <3>3. CASE region = "readOnly"
        BY <1>3, <3>3 DEF RegionDone
      <3> QED  BY <2>1, <3>1, <3>2, <3>3
    <2>3. pc' \in {"flush", "decide"}
      BY <2>1, <2>2
    <2>4. TypeOK'
      <3>1. site' \in {"none", "loop", "inner"}
        BY <2>1, <2>2 DEF TypeOK
      <3> QED  BY <1>1, <2>2, <2>3, <3>1, TypeFrame DEF TypeOK
    <2>5. HandlesFreedOnce' /\ Removals' /\ Given'
      BY <1>1, <2>3, TableFrame
    <2>6. ControlOK'
      BY <1>1, <2>1, <2>2 DEF ControlOK, Through
    <2>7. Batch' /\ Timers'
      BY <1>1, <2>2, <2>3 DEF Batch, Timers
    <2>8. ReadOnly'
      BY <1>1, <2>1, <2>2 DEF ReadOnly, Through, AllDelivered, RegistrationIds
    <2>9. Finishing'
      BY <1>1, <1>3, <2>3 DEF Finishing
    <2>10. QuietIteration'
      <3>1. DueIds' = DueIds /\ Quiet' = Quiet /\ (Quiet => ~progressed)
        BY <1>1 DEF DueIds, Quiet
      <3> QED  BY <1>1, <2>1, <2>2, <3>1 DEF QuietIteration, Through
    <2> QED  BY <2>4, <2>5, <2>6, <2>7, <2>8, <2>9, <2>10
  <1> QED  BY <1>2, <1>3

\* The run is over.
LEMMA RunEndsKeeps == ASSUME Inv, RunEnds PROVE Inv'
  <1> USE DEF Inv
  <1>1. /\ pc = "fire" /\ Through /\ running' = FALSE /\ error' = FALSE /\ pc' = "host"
        /\ region' = "none" /\ site' = "none"
        /\ UNCHANGED <<val, pend, cbs, nextId, firing, time, finish, iterations, progressed,
                       queue, edges, puts, freed, removed, doubleFree, given, lateWrite>>
    BY DEF RunEnds, hist
  <1>2. TypeOK'
    <2>1. running' = FALSE /\ ~(pc' # "host")
      BY <1>1
    <2>2. firing' = NotFiring
      BY <1>1 DEF TypeOK, NotFiring
    <2> QED  BY <1>1, <2>1, <2>2 DEF TypeOK
  <1>3. HandlesFreedOnce' /\ Removals' /\ Given'
    BY <1>1, TableFrame
  <1>4. ControlOK' /\ ReadOnly' /\ Finishing' /\ QuietIteration' /\ Timers'
    BY <1>1 DEF ControlOK, ReadOnly, Finishing, QuietIteration, Timers, Through
  <1>5. Batch'
    BY <1>1 DEF Batch, Through
  <1> QED  BY <1>2, <1>3, <1>4, <1>5

\* run() starts with the start-of-simulation region.
LEMMA BeginRunKeeps == ASSUME Inv, BeginRun PROVE Inv'
  <1> USE DEF Inv
  <1>1. /\ pc = "host" /\ (finish => EarlyFinish) /\ running' = TRUE /\ iterations' = 0
        /\ progressed' = FALSE
        /\ Enter("start", Items(RegistrationIds("START_OF_SIMULATION")))
        /\ UNCHANGED <<val, pend, cbs, nextId, firing, time, finish, error, edges, site,
                       puts, freed, removed, doubleFree, given, lateWrite>>
    BY DEF BeginRun, hist
  <1>2. /\ pc' = "fire" /\ region' = "start" /\ Batch'
        /\ DOMAIN queue' \subseteq 0..(nextId - 1)
        /\ \A i \in DOMAIN queue' : queue'[i] \in Values \cup {None}
    BY <1>1, EnterReason, ReasonsOfRegions
  <1>3. TypeOK'
    <2>1. running' = TRUE /\ (pc' # "host")
      BY <1>1, <1>2
    <2>2. firing' = NotFiring /\ iterations' \in 0..MaxIter
      BY <1>1, VpiCallbacksAssumption DEF TypeOK, NotFiring
    <2> QED  BY <1>1, <1>2, <2>1, <2>2 DEF TypeOK
  <1>4. HandlesFreedOnce' /\ Removals' /\ Given'
    BY <1>1, <1>2, TableFrame
  <1>5. ControlOK' /\ ReadOnly' /\ Finishing' /\ QuietIteration' /\ Timers'
    BY <1>1, <1>2 DEF ControlOK, ReadOnly, Finishing, QuietIteration, Timers
  <1> QED  BY <1>2, <1>3, <1>4, <1>5

\* An iteration starts with the timers that are due.
LEMMA LoopHeadKeeps == ASSUME Inv, LoopHead PROVE Inv'
  <1> USE DEF Inv
  <1>1. /\ pc = "loop" /\ iterations < MaxIter /\ iterations' = iterations + 1
        /\ progressed' = FALSE /\ Enter("due", Items(DueIds))
        /\ UNCHANGED <<val, pend, cbs, nextId, firing, time, finish, running, error, edges,
                       site, puts, freed, removed, doubleFree, given, lateWrite>>
    BY DEF LoopHead, state, hist
  <1>2. /\ DueIds \subseteq DOMAIN cbs /\ \A i \in DueIds : cbs[i].reason = "AFTER_DELAY"
        /\ \A i \in DueIds : cbs[i].due <= time'
    BY <1>1 DEF DueIds
  <1>3. /\ pc' = "fire" /\ region' = "due" /\ Batch' /\ DOMAIN queue' = DueIds
        /\ DOMAIN queue' \subseteq 0..(nextId - 1)
        /\ \A i \in DOMAIN queue' : queue'[i] \in Values \cup {None}
    BY <1>1, <1>2, EnterItems, ReasonsOfRegions
  <1>4. TypeOK'
    <2>1. iterations' \in 0..MaxIter
      BY <1>1, VpiCallbacksAssumption DEF TypeOK
    <2> QED  BY <1>1, <1>3, <2>1, TypeFrame DEF TypeOK
  <1>5. HandlesFreedOnce' /\ Removals' /\ Given'
    BY <1>1, <1>3, TableFrame
  <1>6. ControlOK' /\ ReadOnly' /\ Finishing' /\ Timers'
    BY <1>1, <1>3 DEF ControlOK, ReadOnly, Finishing, Timers
  <1>7. QuietIteration'
    <2>1. DueIds' = DueIds /\ (Quiet' => ~lateWrite)
      BY <1>1 DEF DueIds, Quiet
    <2> QED  BY <1>1, <1>3, <2>1 DEF QuietIteration
  <1> QED  BY <1>3, <1>4, <1>5, <1>6, <1>7

\* The cap on iterations ends the run.
LEMMA TooManyIterationsKeeps == ASSUME Inv, TooManyIterations PROVE Inv'
  <1>1. /\ pc = "loop" /\ finish' = TRUE /\ error' = TRUE /\ EndRegion
        /\ UNCHANGED <<val, pend, cbs, nextId, firing, time, running, iterations,
                       progressed, edges, site, puts, freed, removed, doubleFree, given,
                       lateWrite>>
    BY DEF TooManyIterations, hist
  <1> QED  BY <1>1, EndKeeps DEF Inv, TypeOK

\* The changed callbacks are value-change callbacks whose value is not the one
\* they know.
LEMMA EnterChanged ==
    ASSUME TypeOK, NEW r \in {"change", "flush"}, Enter(r, ChangedItems), UNCHANGED cbs
    PROVE  /\ pc' = "fire" /\ region' = r /\ Batch' /\ DOMAIN queue' = Changed
           /\ DOMAIN queue' \subseteq 0..(nextId - 1)
           /\ \A i \in DOMAIN queue' : queue'[i] \in Values \cup {None}
  <1>1. /\ queue' = [i \in Changed |-> val[cbs[i].sig]] /\ pc' = "fire" /\ region' = r
    BY DEF Enter, ChangedItems
  <1>2. DOMAIN queue' = Changed /\ \A i \in Changed : queue'[i] = val[cbs[i].sig]
    BY <1>1
  <1>3. \A i \in Changed : /\ i \in DOMAIN cbs /\ cbs[i].reason = "VALUE_CHANGE"
                           /\ cbs[i].snap # val[cbs[i].sig]
    BY DEF Changed
  <1>4. \A i \in DOMAIN cbs : val[cbs[i].sig] \in Values
    BY DEF TypeOK, Registration
  <1>5. Batch'
    BY <1>1, <1>2, <1>3, ReasonsOfRegions DEF Batch
  <1>6. DOMAIN queue' \subseteq 0..(nextId - 1)
    BY <1>2, <1>3 DEF TypeOK
  <1>7. \A i \in DOMAIN queue' : queue'[i] \in Values \cup {None}
    BY <1>2, <1>3, <1>4
  <1> QED  BY <1>1, <1>2, <1>5, <1>6, <1>7

\* The inner loop.
LEMMA InnerKeeps == ASSUME Inv, Inner PROVE Inv'
  <1> USE DEF Inv
  <1> DEFINE RW == RegistrationIds("READ_WRITE_SYNCH")
  <1> DEFINE RO == RegistrationIds("READ_ONLY_SYNCH")
  <1>1. /\ pc = "inner"
        /\ UNCHANGED <<val, pend, cbs, nextId, firing, time, finish, running, error,
                       iterations, edges, site, puts, freed, removed, doubleFree, given,
                       lateWrite>>
        /\ \/ Enter("change", ChangedItems) /\ progressed' = TRUE
           \/ Enter("readWrite", Items(RW)) /\ UNCHANGED progressed
           \/ /\ Changed = {} /\ RW = {} /\ Enter("readOnly", Items(RO))
              /\ progressed' = (progressed \/ RO # {})
    BY DEF Inner, state, hist
  <1>2. DueIds' = DueIds /\ ~pend /\ (Quiet => DueIds = {})
    BY <1>1 DEF DueIds, ReadOnly, QuietIteration
  <1>3. CASE Enter("change", ChangedItems) /\ progressed' = TRUE
    <2>1. /\ pc' = "fire" /\ region' = "change" /\ Batch'
          /\ DOMAIN queue' \subseteq 0..(nextId - 1)
          /\ \A i \in DOMAIN queue' : queue'[i] \in Values \cup {None}
      BY <1>1, <1>3, EnterChanged
    <2>2. TypeOK'
      BY <1>1, <1>3, <2>1, TypeFrame DEF TypeOK
    <2>3. HandlesFreedOnce' /\ Removals' /\ Given'
      BY <1>1, <2>1, TableFrame
    <2>4. ControlOK' /\ ReadOnly' /\ Finishing' /\ Timers' /\ QuietIteration'
      BY <1>1, <1>3, <2>1 DEF ControlOK, ReadOnly, Finishing, Timers, QuietIteration
    <2> QED  BY <2>1, <2>2, <2>3, <2>4
  <1>4. CASE Enter("readWrite", Items(RW)) /\ UNCHANGED progressed
    <2>1. /\ pc' = "fire" /\ region' = "readWrite" /\ Batch'
          /\ DOMAIN queue' \subseteq 0..(nextId - 1)
          /\ \A i \in DOMAIN queue' : queue'[i] \in Values \cup {None}
      BY <1>1, <1>4, EnterReason, ReasonsOfRegions
    <2>2. TypeOK'
      BY <1>1, <1>4, <2>1, TypeFrame DEF TypeOK
    <2>3. HandlesFreedOnce' /\ Removals' /\ Given'
      BY <1>1, <2>1, TableFrame
    <2>4. Quiet' = Quiet
      BY <1>1, <1>4 DEF Quiet
    <2>5. ControlOK' /\ ReadOnly' /\ Finishing' /\ Timers' /\ QuietIteration'
      BY <1>1, <1>2, <1>4, <2>1, <2>4
      DEF ControlOK, ReadOnly, Finishing, Timers, QuietIteration
    <2> QED  BY <2>1, <2>2, <2>3, <2>5
  <1>5. CASE /\ Changed = {} /\ RW = {} /\ Enter("readOnly", Items(RO))
             /\ progressed' = (progressed \/ RO # {})
    <2>1. /\ pc' = "fire" /\ region' = "readOnly" /\ Batch' /\ DOMAIN queue' = RO
          /\ DOMAIN queue' \subseteq 0..(nextId - 1)
          /\ \A i \in DOMAIN queue' : queue'[i] \in Values \cup {None}
      BY <1>1, <1>5, EnterReason, ReasonsOfRegions
    <2>2. progressed' \in BOOLEAN
      BY <1>5
    <2>3. TypeOK'
      BY <1>1, <2>1, <2>2, TypeFrame DEF TypeOK
    <2>4. HandlesFreedOnce' /\ Removals' /\ Given'
      BY <1>1, <2>1, TableFrame
    <2>5. Quiet' => Quiet
      BY <1>1, <1>5 DEF Quiet
    <2>6. AllDelivered'
      BY <1>1, <1>5 DEF AllDelivered, Changed, Given
    <2>7. ReadOnly'
      <3>1. RegistrationIds("READ_WRITE_SYNCH")' = RW /\ RegistrationIds("READ_ONLY_SYNCH")' = RO
        BY <1>1 DEF RegistrationIds
      <3>2. ~progressed' => RO = {}
        BY <1>5
      <3> HIDE DEF RW, RO
      <3> QED  BY <1>1, <1>2, <1>5, <2>1, <2>6, <3>1, <3>2 DEF ReadOnly, Through
    <2>8. ControlOK' /\ Finishing' /\ Timers' /\ QuietIteration'
      BY <1>1, <1>2, <2>1, <2>5 DEF ControlOK, Finishing, Timers, QuietIteration
    <2> QED  BY <2>1, <2>3, <2>4, <2>7, <2>8
  <1> QED  BY <1>1, <1>3, <1>4, <1>5

\* The next time is that of the nearest timer.
LEMMA NextTimeIsLeast ==
    ASSUME TypeOK, Dues # {}
    PROVE  /\ NextTime \in Nat
           /\ \E i \in DOMAIN cbs : cbs[i].due = NextTime
           /\ \A i \in DOMAIN cbs : cbs[i].due # None => NextTime <= cbs[i].due
  <1> DEFINE R == OpToRel(<, Nat)
  <1>1. Dues \subseteq Nat
    BY DEF Dues, TypeOK, Registration
  <1>2. IsWellFoundedOn(R, Nat)
    BY NatLessThanWellFounded
  <1>3. PICK x \in Dues : \A y \in Dues : ~ (<<y, x>> \in R)
    <2> HIDE DEF R
    <2> QED  BY <1>1, <1>2, WFMin
  <1>4. ASSUME NEW y \in Dues PROVE x <= y
    <2>1. x \in Nat /\ y \in Nat
      BY <1>1
    <2>2. ~ (y < x)
      BY <1>3, <2>1 DEF OpToRel
    <2> QED  BY <2>1, <2>2
  <1>5. NextTime \in Dues /\ \A y \in Dues : NextTime <= y
    BY <1>4 DEF NextTime
  <1> QED  BY <1>1, <1>5 DEF Dues

\* Another iteration, the next time, or the end.
LEMMA DecideKeeps == ASSUME Inv, Decide PROVE Inv'
  <1> USE DEF Inv
  <1>1. /\ pc = "decide"
        /\ UNCHANGED <<val, pend, cbs, nextId, firing, finish, running, error, iterations,
                       progressed, edges, site, puts, freed, removed, doubleFree, given,
                       lateWrite>>
    BY DEF Decide, hist
  <1>2. CASE progressed
    <2>1. pc' = "loop" /\ UNCHANGED <<time, region, queue>>
      BY <1>2 DEF Decide
    <2>2. TypeOK'
      BY <1>1, <2>1, TypeFrame DEF TypeOK
    <2>3. HandlesFreedOnce' /\ Removals' /\ Given'
      BY <1>1, <2>1, TableFrame
    <2>4. ControlOK' /\ ReadOnly' /\ Finishing' /\ Timers' /\ Batch'
      BY <1>1, <2>1 DEF ControlOK, ReadOnly, Finishing, Timers, Batch, Through
    <2>5. QuietIteration'
      BY <1>1, <2>1 DEF QuietIteration, ControlOK
    <2> QED  BY <2>2, <2>3, <2>4, <2>5
  <1>3. CASE ~progressed /\ Dues = {}
    <2>1. EndRegion /\ UNCHANGED time
      BY <1>3 DEF Decide, Advance
    <2> QED  BY <1>1, <2>1, EndKeeps DEF TypeOK
  <1>4. CASE ~progressed /\ Dues # {}
    <2>1. /\ time' = NextTime
          /\ Enter("next", Items(RegistrationIds("NEXT_SIM_TIME")))
      BY <1>4 DEF Decide, Advance
    <2>2. NextTime \in Nat /\ \A i \in DOMAIN cbs : cbs[i].due # None => NextTime <= cbs[i].due
      BY <1>4, NextTimeIsLeast
    <2>3. /\ pc' = "fire" /\ region' = "next" /\ Batch'
          /\ DOMAIN queue' \subseteq 0..(nextId - 1)
          /\ \A i \in DOMAIN queue' : queue'[i] \in Values \cup {None}
      BY <1>1, <2>1, EnterReason, ReasonsOfRegions
    <2>4. TypeOK'
      BY <1>1, <2>1, <2>2, <2>3, TypeFrame DEF TypeOK
    <2>5. HandlesFreedOnce' /\ Removals' /\ Given'
      BY <1>1, <2>3, TableFrame
    <2>6. Timers'
      BY <1>1, <2>1, <2>2, <2>3 DEF Timers, None
    <2>7. ControlOK' /\ ReadOnly' /\ Finishing' /\ QuietIteration'
      BY <1>1, <2>3 DEF ControlOK, ReadOnly, Finishing, QuietIteration
    <2> QED  BY <2>3, <2>4, <2>5, <2>6, <2>7
  <1> QED  BY <1>2, <1>3, <1>4

-----------------------------------------------------------------------------
(* The flush                                                               *)

\* Nothing to flush.
LEMMA FlushNothingKeeps == ASSUME Inv, FlushNothing PROVE Inv'
  <1> USE DEF Inv
  <1>1. /\ pc = "flush" /\ ~pend /\ pc' = site
        /\ UNCHANGED <<val, pend, cbs, nextId, firing, time, finish, running, error,
                       iterations, progressed, region, queue, edges, site, puts, freed,
                       removed, doubleFree, given, lateWrite>>
    BY DEF FlushNothing, state, hist
  <1>2. site \in {"loop", "inner"}
    BY <1>1 DEF ControlOK
  <1>3. TypeOK'
    BY <1>1, <1>2, TypeFrame DEF TypeOK
  <1>4. HandlesFreedOnce' /\ Removals' /\ Given'
    BY <1>1, <1>2, TableFrame
  <1>5. ControlOK' /\ ReadOnly' /\ Finishing' /\ Timers' /\ Batch'
    BY <1>1, <1>2 DEF ControlOK, ReadOnly, Finishing, Timers, Batch, Through
  <1>6. QuietIteration'
    <2>1. DueIds' = DueIds /\ Quiet' = Quiet
      BY <1>1 DEF DueIds, Quiet
    <2> QED  BY <1>1, <1>2, <2>1 DEF QuietIteration
  <1> QED  BY <1>3, <1>4, <1>5, <1>6

\* The pending writes are taken: an iteration that has some is not quiet.
LEMMA FlushTakeKeeps == ASSUME Inv, FlushTake PROVE Inv'
  <1> USE DEF Inv
  <1>1. /\ pc \in {"flush", "flushing"} /\ pend /\ pend' = FALSE /\ pc' = "flushing"
        /\ UNCHANGED <<val, cbs, nextId, firing, time, finish, running, error, iterations,
                       progressed, region, queue, site, puts, freed, removed, doubleFree,
                       given, lateWrite>>
    BY DEF FlushTake, hist
  <1>2. edges' \in Nat
    BY VpiCallbacksAssumption DEF FlushTake, TypeOK
  <1>3. site \in {"loop", "inner"}
    BY <1>1 DEF ControlOK
  <1>4. TypeOK'
    BY <1>1, <1>2, TypeFrame DEF TypeOK
  <1>5. HandlesFreedOnce' /\ Removals' /\ Given'
    BY <1>1, TableFrame
  <1>6. ControlOK' /\ ReadOnly' /\ Finishing' /\ Timers' /\ Batch'
    BY <1>1, <1>3 DEF ControlOK, ReadOnly, Finishing, Timers, Batch, Through
  <1>7. QuietIteration'
    <2>1. Quiet' = Quiet
      BY <1>1 DEF Quiet
    <2> QED  BY <1>1, <2>1 DEF QuietIteration
  <1> QED  BY <1>4, <1>5, <1>6, <1>7

\* A settlement inside the flush: the watched signals have any value after it.
LEMMA FlushEdgeKeeps == ASSUME Inv, FlushEdge PROVE Inv'
  <1> USE DEF Inv
  <1>1. /\ pc = "flushing" /\ ~pend /\ val' \in [Sigs -> Values] /\ pc' = "dispatch"
        /\ edges > 0 /\ edges' = edges - 1
        /\ UNCHANGED <<pend, cbs, nextId, firing, time, finish, running, error, iterations,
                       progressed, region, queue, site, puts, freed, removed, doubleFree,
                       given, lateWrite>>
    BY DEF FlushEdge, hist
  <1>2. edges' \in Nat
    BY <1>1 DEF TypeOK
  <1>3. TypeOK'
    BY <1>1, <1>2, TypeFrame DEF TypeOK
  <1>4. HandlesFreedOnce' /\ Removals' /\ Given'
    BY <1>1, TableFrame
  <1>5. ControlOK' /\ ReadOnly' /\ Finishing' /\ Timers' /\ Batch'
    BY <1>1 DEF ControlOK, ReadOnly, Finishing, Timers, Batch, Through
  <1>6. QuietIteration'
    <2>1. Quiet' = Quiet
      BY <1>1 DEF Quiet
    <2> QED  BY <1>1, <2>1 DEF QuietIteration
  <1> QED  BY <1>3, <1>4, <1>5, <1>6

\* The changes an edge batch made are dispatched.
LEMMA FlushDispatchKeeps == ASSUME Inv, FlushDispatch PROVE Inv'
  <1> USE DEF Inv
  <1>1. /\ pc = "dispatch" /\ Enter("flush", ChangedItems)
        /\ UNCHANGED <<val, pend, cbs, nextId, firing, time, finish, running, error,
                       iterations, progressed, edges, site, puts, freed, removed,
                       doubleFree, given, lateWrite>>
    BY DEF FlushDispatch, state, hist
  <1>2. /\ pc' = "fire" /\ region' = "flush" /\ Batch'
        /\ DOMAIN queue' \subseteq 0..(nextId - 1)
        /\ \A i \in DOMAIN queue' : queue'[i] \in Values \cup {None}
    BY <1>1, EnterChanged
  <1>3. TypeOK'
    BY <1>1, <1>2, TypeFrame DEF TypeOK
  <1>4. HandlesFreedOnce' /\ Removals' /\ Given'
    BY <1>1, <1>2, TableFrame
  <1>5. ControlOK' /\ ReadOnly' /\ Finishing' /\ Timers'
    BY <1>1, <1>2 DEF ControlOK, ReadOnly, Finishing, Timers
  <1>6. QuietIteration'
    <2>1. Quiet' = Quiet
      BY <1>1 DEF Quiet
    <2> QED  BY <1>1, <1>2, <2>1 DEF QuietIteration
  <1> QED  BY <1>2, <1>3, <1>4, <1>5, <1>6

\* The dispatched batch is through.
LEMMA FlushDispatchedKeeps == ASSUME Inv, FlushDispatched PROVE Inv'
  <1> USE DEF Inv
  <1>1. /\ pc = "fire" /\ Through /\ region = "flush"
        /\ UNCHANGED <<val, pend, cbs, nextId, firing, time, finish, running, error,
                       iterations, progressed, edges, site, puts, freed, removed,
                       doubleFree, given, lateWrite>>
    BY DEF FlushDispatched, state, hist
  <1>2. CASE finish
    <2>1. EndRegion
      BY <1>2 DEF FlushDispatched
    <2> QED  BY <1>1, <2>1, EndKeeps DEF TypeOK
  <1>3. CASE ~finish
    <2>1. pc' = "flushing" /\ UNCHANGED <<region, queue>>
      BY <1>3 DEF FlushDispatched
    <2>2. TypeOK'
      BY <1>1, <2>1, TypeFrame DEF TypeOK
    <2>3. HandlesFreedOnce' /\ Removals' /\ Given'
      BY <1>1, <2>1, TableFrame
    <2>4. ControlOK' /\ ReadOnly' /\ Finishing' /\ Timers' /\ Batch'
      BY <1>1, <1>3, <2>1 DEF ControlOK, ReadOnly, Finishing, Timers, Batch, Through
    <2>5. QuietIteration'
      <3>1. Quiet' = Quiet
        BY <1>1 DEF Quiet
      <3> QED  BY <1>1, <2>1, <3>1 DEF QuietIteration
    <2> QED  BY <2>2, <2>3, <2>4, <2>5
  <1> QED  BY <1>2, <1>3

\* The last settlement.
LEMMA FlushFinalKeeps == ASSUME Inv, FlushFinal PROVE Inv'
  <1> USE DEF Inv
  <1>1. /\ pc = "flushing" /\ ~pend /\ val' \in [Sigs -> Values] /\ pc' = site
        /\ UNCHANGED <<pend, cbs, nextId, firing, time, finish, running, error, iterations,
                       progressed, region, queue, edges, site, puts, freed, removed,
                       doubleFree, given, lateWrite>>
    BY DEF FlushFinal, hist
  <1>2. site \in {"loop", "inner"}
    BY <1>1 DEF ControlOK
  <1>3. TypeOK'
    BY <1>1, <1>2, TypeFrame DEF TypeOK
  <1>4. HandlesFreedOnce' /\ Removals' /\ Given'
    BY <1>1, <1>2, TableFrame
  <1>5. ControlOK' /\ ReadOnly' /\ Finishing' /\ Timers' /\ Batch'
    BY <1>1, <1>2 DEF ControlOK, ReadOnly, Finishing, Timers, Batch, Through
  <1>6. QuietIteration'
    <2>1. Quiet' = Quiet
      BY <1>1 DEF Quiet
    <2> QED  BY <1>1, <1>2, <2>1 DEF QuietIteration
  <1> QED  BY <1>3, <1>4, <1>5, <1>6

\* A settlement that fails ends the run.
LEMMA FlushFailsKeeps == ASSUME Inv, FlushFails PROVE Inv'
  <1>1. /\ pc = "flushing" /\ val' \in [Sigs -> Values] /\ finish' = TRUE /\ error' = TRUE
        /\ edges' = 0 /\ EndRegion
        /\ UNCHANGED <<pend, cbs, nextId, firing, time, running, iterations, progressed,
                       site, puts, freed, removed, doubleFree, given, lateWrite>>
    BY DEF FlushFails, hist
  <1> QED  BY <1>1, EndKeeps DEF Inv, TypeOK

-----------------------------------------------------------------------------
(* Foreign code                                                            *)

\* A step of the caller, or of the callback being fired, that leaves the
\* table of callbacks and the place in run() alone.
LEMMA ForeignFrame ==
    ASSUME Inv, Foreign,
           UNCHANGED <<cbs, nextId, firing, time, running, iterations, progressed, region,
                       queue, edges, site, pc, freed, removed, doubleFree, given>>,
           val' \in [Sigs -> Values], pend' \in BOOLEAN, finish' \in BOOLEAN,
           error' \in BOOLEAN, puts' \in Nat, lateWrite' \in BOOLEAN,
           lateWrite => lateWrite',
           pc = "callback" /\ region = "readOnly" /\ pend' => pend \/ lateWrite'
    PROVE  Inv'
  <1> USE DEF Inv
  <1>1. pc \in {"host", "callback"}
    BY DEF Foreign
  <1>2. TypeOK'
    <2>1. running' = (pc' # "host")
      BY DEF TypeOK
    <2>2. IF pc' = "callback" THEN firing' \in Firing ELSE firing' = NotFiring
      BY DEF TypeOK
    <2> QED  BY <2>1, <2>2 DEF TypeOK
  <1>3. HandlesFreedOnce' /\ Removals' /\ Given' /\ ControlOK'
    BY <1>1 DEF HandlesFreedOnce, Removals, Given, ControlOK, Through
  <1>4. Batch' /\ Timers'
    BY <1>1 DEF Batch, Timers
  <1>5. ReadOnly' /\ Finishing'
    BY <1>1 DEF ReadOnly, Finishing
  <1>6. QuietIteration'
    <2>1. Quiet' => Quiet
      BY DEF Quiet
    <2> QED  BY <1>1, <2>1 DEF QuietIteration
  <1> QED  BY <1>2, <1>3, <1>4, <1>5, <1>6

\* A write within a callback is pending from then on.
LEMMA PutKeeps == ASSUME Inv, NEW s \in Sigs, NEW v \in Values, Put(s, v) PROVE Inv'
  <1>1. /\ pc = "callback" /\ CountPut /\ lateWrite' = (lateWrite \/ region = "readOnly")
        /\ val' = [val EXCEPT ![s] = v] /\ pend' = TRUE
        /\ UNCHANGED <<cbs, nextId, firing, time, finish, running, error, iterations,
                       progressed, region, queue, edges, site, pc, freed, removed,
                       doubleFree, given>>
    BY DEF Put, ctl
  <1>2. puts' \in Nat /\ val' \in [Sigs -> Values]
    BY <1>1, VpiCallbacksAssumption DEF CountPut, Inv, TypeOK
  <1>3. /\ lateWrite' \in BOOLEAN /\ (lateWrite => lateWrite')
        /\ (region = "readOnly" => lateWrite')
    BY <1>1
  <1> QED  BY <1>1, <1>2, <1>3, ForeignFrame DEF Foreign, Inv, TypeOK

\* A write outside run().
LEMMA HostPutKeeps == ASSUME Inv, HostPut PROVE Inv'
  <1>1. /\ pc = "host" /\ CountPut /\ val' \in [Sigs -> Values] /\ pend' = FALSE
        /\ UNCHANGED <<cbs, nextId, firing, time, running, iterations, progressed, region,
                       queue, edges, site, pc, freed, removed, doubleFree, given,
                       lateWrite>>
    BY DEF HostPut, ctl
  <1>2. puts' \in Nat
    BY <1>1, VpiCallbacksAssumption DEF CountPut, Inv, TypeOK
  <1>3. finish' \in BOOLEAN /\ error' \in BOOLEAN
    BY DEF HostPut
  <1> QED  BY <1>1, <1>2, <1>3, ForeignFrame DEF Foreign, Inv, TypeOK

\* A requested finish.
LEMMA ControlKeeps == ASSUME Inv, Control PROVE Inv'
  <1>1. /\ Foreign /\ finish' = TRUE
        /\ UNCHANGED <<val, pend, cbs, nextId, firing, time, running, error, iterations,
                       progressed, region, queue, edges, site, pc, puts, freed, removed,
                       doubleFree, given, lateWrite>>
    BY DEF Control, ctl, hist
  <1> QED  BY <1>1, ForeignFrame DEF Inv, TypeOK

\* The error of an earlier call.
LEMMA ReportErrorKeeps == ASSUME Inv, ReportError PROVE Inv'
  <1>1. /\ pc = "host" /\ error' = FALSE
        /\ UNCHANGED <<val, pend, cbs, nextId, firing, time, finish, running, iterations,
                       progressed, region, queue, edges, site, pc, puts, freed, removed,
                       doubleFree, given, lateWrite>>
    BY DEF ReportError, ctl, hist
  <1> QED  BY <1>1, ForeignFrame DEF Inv, TypeOK, Foreign

\* A new runtime is installed.
LEMMA ResetKeeps == ASSUME Inv, Reset PROVE Inv'
  <1> USE DEF Inv
  <1>1. /\ pc = "host" /\ val' \in [Sigs -> Values] /\ pend' = FALSE /\ cbs' = NoItems
        /\ nextId' = 0 /\ time' = 0 /\ finish' = FALSE /\ error' = FALSE
        /\ freed' = {} /\ removed' = {} /\ given' = [i \in DOMAIN given |-> None]
        /\ lateWrite' = FALSE
        /\ UNCHANGED <<firing, running, iterations, progressed, region, queue, edges, site,
                       pc, puts>>
    BY DEF Reset, ctl
  <1>2. DOMAIN cbs' = {} /\ DOMAIN queue' = {}
    BY <1>1 DEF NoItems, Items, ControlOK, Through
  <1>3. doubleFree' = FALSE
    BY DEF Reset, HandlesFreedOnce
  <1>4. firing' = NotFiring
    BY <1>1 DEF TypeOK
  <1>5. TypeOK'
    <2>1. running' = (pc' # "host")
      BY <1>1 DEF TypeOK
    <2>2. given' \in [0..(MaxRegs - 1) -> Values \cup {None}]
      BY <1>1 DEF TypeOK
    <2>3. nextId' \in 0..MaxRegs
      BY <1>1, VpiCallbacksAssumption
    <2> QED  BY <1>1, <1>2, <1>3, <1>4, <2>1, <2>2, <2>3 DEF TypeOK
  <1>6. HandlesFreedOnce'
    BY <1>1, <1>2, <1>3, <1>4 DEF HandlesFreedOnce, NotFiring
  <1>7. ControlOK' /\ Removals' /\ Batch' /\ Timers' /\ Given'
    BY <1>1, <1>2 DEF ControlOK, Removals, Batch, Timers, Given, Through
  <1>8. ReadOnly' /\ Finishing' /\ QuietIteration'
    BY <1>1 DEF ReadOnly, Finishing, QuietIteration
  <1> QED  BY <1>5, <1>6, <1>7, <1>8

\* vpi_register_cb: the new registration has an id no batch holds.
LEMMA RegisterCbKeeps ==
    ASSUME Inv, NEW r \in Reasons, NEW s \in Sigs, NEW d \in Delays, RegisterCb(r, s, d)
    PROVE  Inv'
  <1> USE DEF Inv
  <1> DEFINE new == [reason |-> r, sig |-> s,
                     due |-> IF r = "AFTER_DELAY" THEN time + d ELSE None,
                     snap |-> IF r = "VALUE_CHANGE" THEN val[s] ELSE None]
  <1>1. /\ pc \in {"host", "callback"} /\ nextId < MaxRegs /\ cbs' = With(nextId, new)
        /\ nextId' = nextId + 1 /\ given' = [given EXCEPT ![nextId] = cbs'[nextId].snap]
        /\ UNCHANGED <<val, pend, firing, time, finish, running, error, iterations,
                       progressed, region, queue, edges, site, pc, puts, freed, removed,
                       doubleFree, lateWrite>>
    BY DEF RegisterCb, Foreign, ctl
  <1>2. /\ DOMAIN cbs' = DOMAIN cbs \cup {nextId} /\ cbs'[nextId] = new
        /\ \A i \in DOMAIN cbs : i # nextId => cbs'[i] = cbs[i]
    BY <1>1 DEF With
  <1>3. nextId \in Nat /\ MaxRegs \in Nat /\ nextId \in 0..(MaxRegs - 1)
    BY <1>1, VpiCallbacksAssumption DEF TypeOK
  <1>4. nextId \notin DOMAIN cbs /\ nextId \notin DOMAIN queue /\ nextId \notin removed
    BY <1>3 DEF TypeOK
  <1>5. new \in Registration
    BY VpiCallbacksAssumption DEF Registration, TypeOK
  <1>6. given' \in [0..(MaxRegs - 1) -> Values \cup {None}]
    BY <1>1, <1>2, <1>5 DEF TypeOK, Registration
  <1>7. TypeOK'
    <2>1. running' = (pc' # "host")
      BY <1>1 DEF TypeOK
    <2>2. IF pc' = "callback" THEN firing' \in Firing ELSE firing' = NotFiring
      BY <1>1 DEF TypeOK
    <2>3. nextId' \in 0..MaxRegs
      BY <1>1, <1>3
    <2>4. DOMAIN cbs' \subseteq 0..(nextId' - 1) /\ \A i \in DOMAIN cbs' : cbs'[i] \in Registration
      BY <1>1, <1>2, <1>3, <1>4, <1>5 DEF TypeOK
    <2>5. DOMAIN queue' \subseteq 0..(nextId' - 1) /\ removed' \subseteq 0..(nextId' - 1)
      BY <1>1, <1>3 DEF TypeOK
    <2> QED  BY <1>1, <1>6, <2>1, <2>2, <2>3, <2>4, <2>5 DEF TypeOK
  <1>8. firing.id # nextId
    BY <1>1, <1>3 DEF TypeOK, ControlOK, NotFiring, None
  <1>9. HandlesFreedOnce'
    <2>1. 0..(nextId' - 1) = 0..(nextId - 1) \cup {nextId}
      BY <1>1, <1>3
    <2>2. nextId \notin freed
      BY <1>3 DEF HandlesFreedOnce
    <2> QED  BY <1>1, <1>2, <1>8, <2>1, <2>2 DEF HandlesFreedOnce
  <1>10. ControlOK'
    BY <1>1, <1>3 DEF ControlOK, Through
  <1>11. Removals'
    BY <1>1, <1>2, <1>4 DEF Removals
  <1>12. Batch'
    BY <1>1, <1>2, <1>4 DEF Batch
  <1>13. Timers'
    <2>1. IF r = "AFTER_DELAY" THEN new.due \in Nat /\ new.due >= time ELSE new.due = None
      BY VpiCallbacksAssumption DEF TypeOK
    <2>2. new.reason = r
      OBVIOUS
    <2> HIDE DEF new
    <2> QED  BY <1>1, <1>2, <1>4, <2>1, <2>2 DEF Timers
  <1>14. Given'
    <2>1. /\ given'[nextId] = new.snap
          /\ \A i \in 0..(MaxRegs - 1) : i # nextId => given'[i] = given[i]
      BY <1>1, <1>2, <1>3 DEF TypeOK
    <2>2. DOMAIN cbs \subseteq 0..(MaxRegs - 1)
      BY <1>3 DEF TypeOK
    <2>3. pc = "callback" => firing.id \in 0..(MaxRegs - 1)
      BY DEF TypeOK, Firing
    <2> HIDE DEF new
    <2> QED  BY <1>1, <1>2, <1>4, <1>8, <2>1, <2>2, <2>3 DEF Given
  <1>15. ReadOnly' /\ Finishing'
    BY <1>1 DEF ReadOnly, Finishing
  <1>16. QuietIteration'
    <2>1. Quiet' = Quiet
      BY <1>1 DEF Quiet
    <2> QED  BY <1>1, <2>1 DEF QuietIteration
  <1> QED  BY <1>7, <1>9, <1>10, <1>11, <1>12, <1>13, <1>14, <1>15, <1>16

\* vpi_remove_cb: a queued callback leaves the table, a firing one is marked.
LEMMA RemoveCbKeeps == ASSUME Inv, NEW k \in 0..(MaxRegs - 1), RemoveCb(k) PROVE Inv'
  <1> USE DEF Inv
  <1>1. /\ pc \in {"host", "callback"} /\ k \in DOMAIN cbs \cup {firing.id}
        /\ removed' = removed \cup {k}
        /\ UNCHANGED <<val, pend, nextId, time, finish, running, error, iterations,
                       progressed, region, queue, edges, site, pc, puts, given, lateWrite>>
    BY DEF RemoveCb, Foreign, ctl
  <1>2. ReadOnly' /\ Finishing'
    BY <1>1 DEF ReadOnly, Finishing
  <1>3. QuietIteration'
    <2>1. Quiet' = Quiet
      BY <1>1 DEF Quiet
    <2> QED  BY <1>1, <2>1 DEF QuietIteration
  <1>4. running' = (pc' # "host")
    BY <1>1 DEF TypeOK
  <1>5. k \in 0..(nextId - 1)
    BY <1>1, VpiCallbacksAssumption DEF TypeOK, ControlOK, NotFiring, None
  <1>6. CASE k \in DOMAIN cbs
    <2>1. cbs' = Except(cbs, k) /\ Free({k}) /\ UNCHANGED firing
      BY <1>6 DEF RemoveCb
    <2>2. /\ DOMAIN cbs' = DOMAIN cbs \ {k}
          /\ \A i \in DOMAIN cbs' : cbs'[i] = cbs[i]
      BY <2>1 DEF Except
    <2>3. doubleFree' = FALSE /\ freed' = freed \cup {k}
      BY <1>6, <2>1 DEF Free, HandlesFreedOnce
    <2>4. TypeOK'
      <3>1. IF pc' = "callback" THEN firing' \in Firing ELSE firing' = NotFiring
        BY <1>1, <2>1 DEF TypeOK
      <3> QED  BY <1>1, <1>4, <1>5, <2>2, <2>3, <3>1 DEF TypeOK
    <2>5. HandlesFreedOnce'
      <3>1. k # firing.id /\ firing' = firing
        BY <1>6, <2>1 DEF HandlesFreedOnce
      <3> QED  BY <1>1, <1>6, <2>2, <2>3, <3>1 DEF HandlesFreedOnce
    <2>6. ControlOK' /\ Removals'
      <3>1. k # firing.id
        BY <1>6 DEF HandlesFreedOnce
      <3> QED  BY <1>1, <2>1, <2>2, <3>1 DEF ControlOK, Removals, Through
    <2>7. Batch' /\ Timers' /\ Given'
      BY <1>1, <2>1, <2>2 DEF Batch, Timers, Given
    <2> QED  BY <1>2, <1>3, <2>4, <2>5, <2>6, <2>7
  <1>7. CASE k \notin DOMAIN cbs
    <2>1. /\ firing' = [firing EXCEPT !.cancelled = TRUE] /\ k = firing.id
          /\ UNCHANGED <<cbs, freed, doubleFree>>
      BY <1>1, <1>7 DEF RemoveCb
    <2>2. pc = "callback" /\ firing \in Firing
      BY <1>1, <2>1, VpiCallbacksAssumption DEF TypeOK, NotFiring, None
    <2>3. /\ firing' \in Firing /\ firing'.id = firing.id /\ firing'.reg = firing.reg
          /\ firing'.delivered = firing.delivered /\ firing'.cancelled
      BY <2>1, <2>2 DEF Firing
    <2>4. TypeOK'
      BY <1>1, <1>4, <1>5, <2>1, <2>2, <2>3 DEF TypeOK
    <2>5. HandlesFreedOnce' /\ Removals'
      BY <1>1, <1>7, <2>1, <2>3 DEF HandlesFreedOnce, Removals
    <2>6. ControlOK' /\ Batch' /\ Timers' /\ Given'
      BY <1>1, <2>1, <2>2, <2>3 DEF ControlOK, Batch, Timers, Given, Through
    <2> QED  BY <1>2, <1>3, <2>4, <2>5, <2>6
  <1> QED  BY <1>6, <1>7

-----------------------------------------------------------------------------
(* Firing                                                                  *)

\* What firing means: the registration leaves the table, with the value that
\* selected it.
LEMMA FireFacts ==
    ASSUME Inv, Fire
    PROVE  \E k \in DOMAIN queue \cap DOMAIN cbs :
             /\ firing' \in Firing /\ firing'.id = k /\ firing'.reg = cbs[k]
             /\ firing'.delivered = queue[k] /\ firing'.cancelled = FALSE
             /\ DOMAIN cbs' = DOMAIN cbs \ {k} /\ \A i \in DOMAIN cbs' : cbs'[i] = cbs[i]
             /\ DOMAIN queue' = DOMAIN queue \ {k}
             /\ \A i \in DOMAIN queue' : queue'[i] = queue[i]
             /\ given' \in [0..(MaxRegs - 1) -> Values \cup {None}]
             /\ given'[k] = queue[k]
             /\ \A i \in 0..(MaxRegs - 1) : i # k => given'[i] = given[i]
             /\ k \in 0..(nextId - 1) /\ firing.id = None
  <1> USE DEF Inv
  <1>1. PICK k \in DOMAIN queue \cap DOMAIN cbs :
          /\ cbs' = Except(cbs, k)
          /\ firing' = [id |-> k, reg |-> cbs[k], delivered |-> queue[k], cancelled |-> FALSE]
          /\ given' = [given EXCEPT ![k] = queue[k]] /\ queue' = Except(queue, k)
    BY DEF Fire
  <1>2. k \in 0..(nextId - 1) /\ k \in 0..(MaxRegs - 1) /\ cbs[k] \in Registration
    BY <1>1, VpiCallbacksAssumption DEF TypeOK
  <1>3. queue[k] \in Values \cup {None}
    BY <1>1 DEF TypeOK
  <1>4. firing' \in Firing
    BY <1>1, <1>2, <1>3 DEF Firing
  <1>5. /\ given' \in [0..(MaxRegs - 1) -> Values \cup {None}] /\ given'[k] = queue[k]
        /\ \A i \in 0..(MaxRegs - 1) : i # k => given'[i] = given[i]
    BY <1>1, <1>2, <1>3 DEF TypeOK
  <1>6. firing.id = None
    BY DEF Fire, TypeOK, NotFiring
  <1>7. /\ DOMAIN cbs' = DOMAIN cbs \ {k} /\ \A i \in DOMAIN cbs' : cbs'[i] = cbs[i]
        /\ DOMAIN queue' = DOMAIN queue \ {k}
        /\ \A i \in DOMAIN queue' : queue'[i] = queue[i]
    BY <1>1 DEF Except
  <1>8. /\ firing'.id = k /\ firing'.reg = cbs[k] /\ firing'.delivered = queue[k]
        /\ firing'.cancelled = FALSE
    BY <1>1
  <1> QED  BY <1>1, <1>2, <1>4, <1>5, <1>6, <1>7, <1>8

\* A callback is called.
LEMMA FireKeeps == ASSUME Inv, Fire PROVE Inv'
  <1> USE DEF Inv
  <1>1. /\ pc = "fire" /\ pc' = "callback"
        /\ progressed' = (progressed \/ region \in {"due", "readWrite"})
        /\ UNCHANGED <<val, pend, nextId, time, finish, running, error, iterations, region,
                       edges, site, puts, freed, removed, doubleFree, lateWrite>>
    BY DEF Fire
  <1>2. PICK k \in DOMAIN queue \cap DOMAIN cbs :
             /\ firing' \in Firing /\ firing'.id = k /\ firing'.reg = cbs[k]
             /\ firing'.delivered = queue[k] /\ firing'.cancelled = FALSE
             /\ DOMAIN cbs' = DOMAIN cbs \ {k} /\ \A i \in DOMAIN cbs' : cbs'[i] = cbs[i]
             /\ DOMAIN queue' = DOMAIN queue \ {k}
             /\ \A i \in DOMAIN queue' : queue'[i] = queue[i]
             /\ given' \in [0..(MaxRegs - 1) -> Values \cup {None}]
             /\ given'[k] = queue[k]
             /\ \A i \in 0..(MaxRegs - 1) : i # k => given'[i] = given[i]
             /\ k \in 0..(nextId - 1) /\ firing.id = None
    BY FireFacts
  <1>3. TypeOK'
    <2>1. running' = (pc' # "host")
      BY <1>1 DEF TypeOK
    <2>2. progressed' \in BOOLEAN
      BY <1>1 DEF TypeOK
    <2> QED  BY <1>1, <1>2, <2>1, <2>2 DEF TypeOK
  <1>4. HandlesFreedOnce'
    <2>1. k # None
      BY <1>2 DEF TypeOK, None
    <2> QED  BY <1>1, <1>2, <2>1 DEF HandlesFreedOnce
  <1>5. ControlOK'
    BY <1>1, <1>2 DEF ControlOK
  <1>6. Removals'
    BY <1>1, <1>2 DEF Removals
  <1>7. Batch'
    BY <1>1, <1>2 DEF Batch
  <1>8. Timers'
    BY <1>1, <1>2 DEF Timers
  <1>9. Given'
    <2>1. DOMAIN cbs \subseteq 0..(MaxRegs - 1)
      BY VpiCallbacksAssumption DEF TypeOK
    <2> QED  BY <1>1, <1>2, <2>1 DEF Given
  <1>10. ReadOnly' /\ Finishing'
    BY <1>1 DEF ReadOnly, Finishing
  <1>11. QuietIteration'
    <2>1. region = "readOnly" => progressed
      BY <1>1, <1>2 DEF ReadOnly, Through
    <2>2. Quiet' => Quiet
      BY <1>1 DEF Quiet
    <2>3. region \in {"due", "readWrite", "readOnly", "change"} => progressed'
      BY <1>1, <2>1 DEF QuietIteration
    <2> QED  BY <1>1, <2>2, <2>3 DEF QuietIteration
  <1> QED  BY <1>3, <1>4, <1>5, <1>6, <1>7, <1>8, <1>9, <1>10, <1>11

\* What a returning callback leaves of the batch.
LEMMA RestOfBatchFacts ==
    /\ DOMAIN RestOfBatch \subseteq DOMAIN queue
    /\ \A i \in DOMAIN RestOfBatch : RestOfBatch[i] = queue[i]
    /\ finish => region = "end" \/ DOMAIN RestOfBatch = {}
  BY DEF RestOfBatch, NoItems, Items

\* The callback returns and its registration goes back or is freed.
LEMMA CallbackReturnsKeeps == ASSUME Inv, CallbackReturns PROVE Inv'
  <1> USE DEF Inv
  <1>1. /\ pc = "callback" /\ pc' = "fire" /\ firing' = NotFiring /\ queue' = RestOfBatch
        /\ UNCHANGED <<val, pend, nextId, time, finish, running, error, iterations,
                       progressed, region, edges, site, puts, removed, given, lateWrite>>
    BY DEF CallbackReturns
  <1>2. /\ DOMAIN queue' \subseteq DOMAIN queue
        /\ \A i \in DOMAIN queue' : queue'[i] = queue[i]
        /\ finish => region = "end" \/ DOMAIN queue' = {}
    BY <1>1, RestOfBatchFacts
  <1>3. firing \in Firing /\ firing.id \in 0..(nextId - 1) /\ firing.id # None
    BY <1>1 DEF TypeOK, ControlOK, None
  <1>4. firing.id \notin DOMAIN cbs /\ firing.id \notin DOMAIN queue
    BY <1>1 DEF HandlesFreedOnce, ControlOK
  <1>5. ControlOK' /\ Finishing'
    BY <1>1, <1>2 DEF ControlOK, Finishing, Through
  <1>6. ReadOnly' /\ QuietIteration'
    <2>1. Quiet' = Quiet /\ (Quiet => ~progressed)
      BY <1>1 DEF Quiet
    <2>2. region \in {"due", "readWrite", "readOnly", "change"} => progressed
      BY <1>1 DEF QuietIteration
    <2> QED  BY <1>1, <2>1, <2>2 DEF ReadOnly, QuietIteration
  <1>7. running' = (pc' # "host")
    BY <1>1 DEF TypeOK
  <1>8. CASE Requeued
    <2>1. cbs' = With(firing.id, Redelivered) /\ UNCHANGED <<freed, doubleFree>>
      BY <1>8 DEF CallbackReturns
    <2>2. /\ DOMAIN cbs' = DOMAIN cbs \cup {firing.id} /\ cbs'[firing.id] = Redelivered
          /\ \A i \in DOMAIN cbs : cbs'[i] = cbs[i]
      BY <1>4, <2>1 DEF With
    <2>3. /\ Redelivered \in Registration /\ Redelivered.reason = "VALUE_CHANGE"
          /\ Redelivered.due = firing.reg.due /\ Redelivered.snap = firing.delivered
      BY <1>3, <1>8 DEF Redelivered, Requeued, Firing, Registration
    <2>4. TypeOK'
      BY <1>1, <1>2, <1>3, <1>7, <2>1, <2>2, <2>3 DEF TypeOK
    <2>5. HandlesFreedOnce'
      <3>1. firing'.id = None /\ None \notin DOMAIN cbs'
        BY <1>1, <2>4 DEF TypeOK, NotFiring, None
      <3> QED  BY <1>1, <1>3, <1>4, <2>1, <2>2, <3>1 DEF HandlesFreedOnce
    <2>6. Removals'
      BY <1>1, <1>8, <2>2 DEF Removals, Requeued
    <2>7. Batch'
      BY <1>1, <1>2, <1>4, <2>2 DEF Batch
    <2>8. Timers'
      BY <1>1, <1>8, <2>2, <2>3 DEF Timers, Requeued
    <2>9. Given'
      BY <1>1, <2>2, <2>3 DEF Given
    <2> QED  BY <1>5, <1>6, <2>4, <2>5, <2>6, <2>7, <2>8, <2>9
  <1>9. CASE ~Requeued
    <2>1. Free({firing.id}) /\ UNCHANGED cbs
      BY <1>9 DEF CallbackReturns
    <2>2. freed' = freed \cup {firing.id} /\ doubleFree' = FALSE
      BY <1>3, <2>1 DEF Free, HandlesFreedOnce
    <2>3. TypeOK'
      BY <1>1, <1>2, <1>7, <2>1, <2>2 DEF TypeOK
    <2>4. HandlesFreedOnce'
      <3>1. firing'.id = None /\ None \notin DOMAIN cbs'
        BY <1>1, <2>3 DEF TypeOK, NotFiring, None
      <3> QED  BY <1>1, <1>3, <1>4, <2>1, <2>2, <3>1 DEF HandlesFreedOnce
    <2>5. Removals' /\ Batch' /\ Timers' /\ Given'
      BY <1>1, <1>2, <2>1 DEF Removals, Batch, Timers, Given
    <2> QED  BY <1>5, <1>6, <2>3, <2>4, <2>5
  <1> QED  BY <1>8, <1>9

-----------------------------------------------------------------------------
(* The invariant of the specification                                      *)

\* The initial state satisfies the invariant.
LEMMA InvInit == ASSUME Init PROVE Inv
  <1>1. DOMAIN cbs = {} /\ DOMAIN queue = {} /\ firing.id = None
    BY DEF Init, NoItems, Items, NotFiring
  <1>2. TypeOK
    <2>1. running = FALSE /\ ~(pc # "host") /\ firing = NotFiring
      BY DEF Init
    <2>2. /\ pend = FALSE /\ finish = FALSE /\ error = FALSE /\ progressed = FALSE
          /\ doubleFree = FALSE /\ lateWrite = FALSE
      BY DEF Init
    <2>3. given \in [0..(MaxRegs - 1) -> Values \cup {None}]
      BY DEF Init
    <2>4. /\ val \in [Sigs -> Values] /\ nextId = 0 /\ time = 0 /\ edges = 0
          /\ iterations = 0 /\ puts = 0 /\ pc = "host" /\ region = "none"
          /\ site = "none" /\ removed = {}
      BY DEF Init
    <2>5. /\ nextId \in 0..MaxRegs /\ iterations \in 0..MaxIter
          /\ time \in Nat /\ edges \in Nat /\ puts \in Nat
      BY <2>4, VpiCallbacksAssumption
    <2>6. /\ pend \in BOOLEAN /\ finish \in BOOLEAN /\ error \in BOOLEAN
          /\ progressed \in BOOLEAN /\ doubleFree \in BOOLEAN /\ lateWrite \in BOOLEAN
      BY <2>2
    <2>7. running = (pc # "host")
      BY <2>1
    <2>8. IF pc = "callback" THEN firing \in Firing ELSE firing = NotFiring
      BY <2>1
    <2> QED  BY <1>1, <2>3, <2>4, <2>5, <2>6, <2>7, <2>8 DEF TypeOK
  <1>3. HandlesFreedOnce /\ ControlOK /\ Removals /\ Batch /\ Timers /\ Given
    BY <1>1 DEF Init, HandlesFreedOnce, ControlOK, Removals, Batch, Timers, Given, Through
  <1>4. ReadOnly /\ Finishing /\ QuietIteration
    BY DEF Init, ReadOnly, Finishing, QuietIteration
  <1> QED  BY <1>2, <1>3, <1>4 DEF Inv

\* No step changes the invariant when no variable changes.
LEMMA InvStutters == ASSUME Inv, UNCHANGED vars PROVE Inv'
  <1> USE DEF Inv, vars, state, ctl, hist
  <1>1. TypeOK' /\ HandlesFreedOnce' /\ ControlOK' /\ Removals' /\ Batch' /\ Timers' /\ Given'
    BY DEF TypeOK, HandlesFreedOnce, ControlOK, Removals, Batch, Timers, Given, Through
  <1>2. ReadOnly' /\ Finishing' /\ QuietIteration'
    BY DEF ReadOnly, Finishing, QuietIteration, Quiet, DueIds, Through, AllDelivered,
           RegistrationIds
  <1> QED  BY <1>1, <1>2

\* Every step of the caller, of a callback and of run() keeps the invariant.
LEMMA InvStep == ASSUME Inv, [Next]_vars PROVE Inv'
  <1>1. CASE \E r \in Reasons, s \in Sigs, d \in Delays : RegisterCb(r, s, d)
    BY <1>1, RegisterCbKeeps
  <1>2. CASE \E i \in 0..(MaxRegs - 1) : RemoveCb(i)
    BY <1>2, RemoveCbKeeps
  <1>3. CASE \E s \in Sigs, v \in Values : Put(s, v)
    BY <1>3, PutKeeps
  <1>4. CASE HostPut \/ Control \/ Reset \/ ReportError
    BY <1>4, HostPutKeeps, ControlKeeps, ResetKeeps, ReportErrorKeeps
  <1>5. CASE BeginRun \/ FlushFails
    BY <1>5, BeginRunKeeps, FlushFailsKeeps
  <1>6. CASE Run
    BY <1>6, SkipRemovedKeeps, FireKeeps, CallbackReturnsKeeps, RegionDoneKeeps,
       RunEndsKeeps, LoopHeadKeeps, TooManyIterationsKeeps, InnerKeeps, DecideKeeps,
       FlushNothingKeeps, FlushTakeKeeps, FlushEdgeKeeps, FlushDispatchKeeps,
       FlushDispatchedKeeps, FlushFinalKeeps
    DEF Run
  <1>7. CASE UNCHANGED vars
    BY <1>7, InvStutters
  <1> QED  BY <1>1, <1>2, <1>3, <1>4, <1>5, <1>6, <1>7 DEF Next

\* The invariant holds throughout.
LEMMA InvHolds == Spec => []Inv
  BY InvInit, InvStep, PTL DEF Spec

-----------------------------------------------------------------------------
(* The theorems                                                            *)

\* Every variable keeps its type, and is_running and the registration being
\* fired agree with where run() is.
THEOREM TypeCorrect == Spec => []TypeOK
  <1>1. Inv => TypeOK
    BY DEF Inv
  <1> QED  BY <1>1, InvHolds, PTL

\* Whatever the callbacks register and remove, every handle vpi_register_cb
\* gives out has one owner until it is freed, and is freed once.
THEOREM HandlesAreFreedOnce == Spec => []HandlesFreedOnce
  <1>1. Inv => HandlesFreedOnce
    BY DEF Inv
  <1> QED  BY <1>1, InvHolds, PTL

\* Time moves on from a decision with nothing to do and a timer to go to.
MovesOn == Decide /\ ~progressed /\ Dues # {}

\* The inner loop gets to the read-only region.
Settles == Inner /\ Changed = {} /\ RegistrationIds("READ_WRITE_SYNCH") = {}

\* Which steps fire a callback, move time and enter the read-only and the
\* next-time-step region.
LEMMA StepKinds ==
    ASSUME Inv, [Next]_vars
    PROVE  /\ Fires => Fire
           /\ time' # time /\ running => MovesOn
           /\ region # "readOnly" /\ region' = "readOnly" => Settles
           /\ region # "next" /\ region' = "next" => MovesOn
  <1> DEFINE Goal == /\ Fires => Fire
                     /\ time' # time /\ running => MovesOn
                     /\ region # "readOnly" /\ region' = "readOnly" => Settles
                     /\ region # "next" /\ region' = "next" => MovesOn
  <1>1. ASSUME UNCHANGED firing, UNCHANGED time,
               UNCHANGED region \/ region' \in {"none", "start", "due", "change", "flush", "end"}
        PROVE  Goal
    BY <1>1 DEF Fires
  <1>2. CASE \E r \in Reasons, s \in Sigs, d \in Delays : RegisterCb(r, s, d)
    BY <1>1, <1>2 DEF RegisterCb, ctl
  <1>3. CASE \E i \in 0..(MaxRegs - 1) : RemoveCb(i)
    <2>1. PICK k \in 0..(MaxRegs - 1) : RemoveCb(k)
      BY <1>3
    <2>2. UNCHANGED <<time, region>>
      BY <2>1 DEF RemoveCb, ctl
    <2>3. ~Fires
      <3>1. CASE k \in DOMAIN cbs
        BY <2>1, <3>1 DEF RemoveCb, Fires
      <3>2. CASE k \notin DOMAIN cbs
        BY <2>1, <3>2, VpiCallbacksAssumption DEF RemoveCb, Fires, None
      <3> QED  BY <3>1, <3>2
    <2> QED  BY <2>2, <2>3
  <1>4. CASE (\E s \in Sigs, v \in Values : Put(s, v)) \/ HostPut \/ Control \/ ReportError
    BY <1>1, <1>4 DEF Put, HostPut, Control, ReportError, ctl
  <1>5. CASE Reset
    <2>1. UNCHANGED <<firing, region>> /\ ~running
      BY <1>5 DEF Reset, ctl, Inv, TypeOK
    <2> QED  BY <2>1 DEF Fires
  <1>6. CASE BeginRun \/ FlushFails
    BY <1>1, <1>6 DEF BeginRun, FlushFails, Enter, EndRegion
  <1>7. CASE SkipRemoved \/ LoopHead \/ TooManyIterations \/ RunEnds
    BY <1>1, <1>7 DEF SkipRemoved, LoopHead, TooManyIterations, RunEnds, state, Enter, EndRegion
  <1>8. CASE Fire
    <2>1. UNCHANGED <<time, region>>
      BY <1>8 DEF Fire
    <2> QED  BY <1>8, <2>1
  <1>9. CASE CallbackReturns
    <2>1. UNCHANGED <<time, region>> /\ firing' = NotFiring
      BY <1>9 DEF CallbackReturns
    <2> QED  BY <2>1 DEF Fires, NotFiring
  <1>10. CASE RegionDone
    <2>1. UNCHANGED <<firing, time>> /\ (UNCHANGED region \/ region' = "end")
      <3>1. region \in {"start", "next", "due", "change", "readWrite", "readOnly"}
        BY <1>10 DEF RegionDone, Inv, ControlOK, TypeOK
      <3>2. UNCHANGED <<firing, time>>
        BY <1>10 DEF RegionDone, state
      <3>3. CASE finish
        BY <1>10, <3>2, <3>3 DEF RegionDone, Enter, EndRegion
      <3>4. CASE ~finish /\ region \in {"start", "next"}
        BY <1>10, <3>2, <3>4 DEF RegionDone, FlushThen
      <3>5. CASE ~finish /\ region \in {"due", "change", "readWrite"}
        BY <1>10, <3>2, <3>5 DEF RegionDone, FlushThen
      <3>6. CASE ~finish /\ region = "readOnly"
        BY <1>10, <3>2, <3>6 DEF RegionDone
      <3> QED  BY <3>1, <3>3, <3>4, <3>5, <3>6
    <2> QED  BY <1>1, <2>1
  <1>11. CASE Inner
    <2>1. UNCHANGED <<firing, time>> /\ region' \in {"change", "readWrite", "readOnly"}
      BY <1>11 DEF Inner, state, Enter
    <2>2. region' = "readOnly" => Settles
      BY <1>11 DEF Inner, Enter, Settles
    <2> QED  BY <2>1, <2>2 DEF Fires
  <1>12. CASE Decide
    <2>1. UNCHANGED firing
      BY <1>12 DEF Decide
    <2>2. CASE MovesOn
      BY <1>12, <2>1, <2>2 DEF MovesOn, Decide, Advance, Enter, Fires
    <2>3. CASE ~MovesOn
      BY <1>1, <1>12, <2>1, <2>3 DEF MovesOn, Decide, Advance, EndRegion, Enter
    <2> QED  BY <2>2, <2>3
  <1>13. CASE FlushNothing \/ FlushTake \/ FlushEdge \/ FlushDispatch \/ FlushDispatched \/ FlushFinal
    BY <1>1, <1>13 DEF FlushNothing, FlushTake, FlushEdge, FlushDispatch, FlushDispatched,
       FlushFinal, state, Enter, EndRegion
  <1>14. CASE UNCHANGED vars
    BY <1>1, <1>14 DEF vars, state, ctl
  <1> QED  BY <1>2, <1>3, <1>4, <1>5, <1>6, <1>7, <1>8, <1>9, <1>10, <1>11, <1>12, <1>13,
              <1>14 DEF Next, Run

\* A callback whose removal succeeded is out of the table, so the batch that
\* still holds its id skips it: it never fires again.
THEOREM RemovedStaySilent == Spec => RemovedNeverFires
  <1>1. ASSUME Inv, [Next]_vars, Fires PROVE firing'.id \notin removed
    <2>1. Fire
      BY <1>1, StepKinds
    <2> QED  BY <1>1, <2>1, FireFacts DEF Inv, Removals
  <1> QED  BY <1>1, InvHolds, PTL DEF Spec, RemovedNeverFires

\* A value-change callback is given a value only when it differs from the one
\* it was given last, however long its batch waited.
THEOREM ChangesAreDelivered == Spec => DeliversChanges
  <1>1. ASSUME Inv, [Next]_vars, Fires, firing'.reg.reason = "VALUE_CHANGE"
        PROVE  firing'.delivered # given[firing'.id]
    <2>1. Fire /\ pc = "fire"
      BY <1>1, StepKinds DEF Fire
    <2>2. PICK k \in DOMAIN queue \cap DOMAIN cbs :
            firing'.id = k /\ firing'.reg = cbs[k] /\ firing'.delivered = queue[k]
      BY <1>1, <2>1, FireFacts
    <2>3. /\ region \in {"start", "due", "change", "readWrite", "readOnly", "next", "flush",
                         "end"}
          /\ cbs[k].reason = ReasonOf[region]
      BY <1>1, <2>1, <2>2 DEF Inv, ControlOK, TypeOK, Batch
    <2>4. region \in {"change", "flush"}
      BY <1>1, <2>2, <2>3, ReasonsOfRegions
    <2> QED  BY <1>1, <2>2, <2>4 DEF Inv, Batch, Given
  <1> QED  BY <1>1, InvHolds, PTL DEF Spec, DeliversChanges

\* A timer's callback is fired at the very time it is due.
THEOREM TimersAreOnTime == Spec => TimersFireOnTime
  <1>1. ASSUME Inv, [Next]_vars, Fires, firing'.reg.reason = "AFTER_DELAY"
        PROVE  firing'.reg.due = time
    <2>1. Fire /\ pc = "fire"
      BY <1>1, StepKinds DEF Fire
    <2>2. PICK k \in DOMAIN queue \cap DOMAIN cbs : firing'.reg = cbs[k]
      BY <1>1, <2>1, FireFacts
    <2>3. /\ region \in {"start", "due", "change", "readWrite", "readOnly", "next", "flush",
                         "end"}
          /\ cbs[k].reason = ReasonOf[region]
      BY <1>1, <2>1, <2>2 DEF Inv, ControlOK, TypeOK, Batch
    <2>4. region = "due"
      BY <1>1, <2>2, <2>3, ReasonsOfRegions
    <2>5. cbs[k].due <= time /\ cbs[k].due >= time /\ cbs[k].due \in Nat /\ time \in Nat
      BY <1>1, <2>2, <2>4 DEF Inv, Batch, Timers, TypeOK
    <2> QED  BY <2>2, <2>5
  <1> QED  BY <1>1, InvHolds, PTL DEF Spec, TimersFireOnTime

\* The read-only region begins with every write flushed, every change
\* delivered and no read-write callback waiting.
THEOREM ReadOnlyIsSettled == Spec => ReadOnlySeesSettled
  <1>1. ASSUME Inv, [Next]_vars, region # "readOnly", region' = "readOnly"
        PROVE  ~pend /\ AllDelivered /\ RegistrationIds("READ_WRITE_SYNCH") = {}
    <2>1. Settles
      BY <1>1, StepKinds
    <2>2. ~pend
      BY <1>1, <2>1 DEF Settles, Inner, Inv, ReadOnly
    <2>3. AllDelivered
      BY <1>1, <2>1 DEF Settles, Changed, AllDelivered, Inv, Given
    <2> QED  BY <2>1, <2>2, <2>3 DEF Settles
  <1> QED  BY <1>1, InvHolds, PTL DEF Spec, ReadOnlySeesSettled

\* Simulated time moves forward, and not before everything due now is done.
THEOREM TimeWaits == Spec => TimeWaitsForAll
  <1>1. ASSUME Inv, [Next]_vars, time' # time, running
        PROVE  /\ time' > time /\ ~pend /\ AllDelivered
               /\ \A i \in DOMAIN cbs :
                    /\ cbs[i].reason \notin {"READ_WRITE_SYNCH", "READ_ONLY_SYNCH"}
                    /\ cbs[i].reason = "AFTER_DELAY" => cbs[i].due > time
    <2>1. MovesOn
      BY <1>1, StepKinds
    <2>2. time' = NextTime /\ pc = "decide"
      BY <2>1 DEF MovesOn, Decide, Advance
    <2>3. region = "readOnly" /\ ~progressed
      BY <1>1, <2>1, <2>2 DEF Inv, ControlOK, MovesOn
    <2>4. /\ ~pend /\ AllDelivered /\ RegistrationIds("READ_WRITE_SYNCH") = {}
          /\ RegistrationIds("READ_ONLY_SYNCH") = {}
      BY <1>1, <2>2, <2>3 DEF Inv, ReadOnly
    <2>5. /\ NextTime \in Nat /\ (\E i \in DOMAIN cbs : cbs[i].due = NextTime)
          /\ \A i \in DOMAIN cbs : cbs[i].due # None => NextTime <= cbs[i].due
      BY <1>1, <2>1, NextTimeIsLeast DEF Inv, MovesOn
    <2>6. time \in Nat
      BY <1>1 DEF Inv, TypeOK
    <2>7. time' > time
      BY <1>1, <2>2, <2>5, <2>6 DEF Inv, Timers, None
    <2>8. \A i \in DOMAIN cbs : cbs[i].reason = "AFTER_DELAY" => cbs[i].due > time
      BY <1>1, <2>2, <2>5, <2>6, <2>7 DEF Inv, Timers, None
    <2> QED  BY <2>4, <2>7, <2>8 DEF RegistrationIds
  <1> QED  BY <1>1, InvHolds, PTL DEF Spec, TimeWaitsForAll

\* The next-time-step region is entered only at a later time, as long as no
\* read-only callback wrote.
THEOREM NextStepComesLater == Spec => NextStepIsLater
  <1>1. ASSUME Inv, [Next]_vars, region # "next", region' = "next"
        PROVE  time' > time \/ lateWrite
    <2>1. MovesOn
      BY <1>1, StepKinds
    <2>2. time' = NextTime /\ pc = "decide" /\ ~progressed
      BY <2>1 DEF MovesOn, Decide, Advance
    <2>3. SUFFICES ASSUME ~lateWrite PROVE time' > time
      OBVIOUS
    <2>4. DueIds = {}
      BY <1>1, <2>2, <2>3 DEF Inv, ControlOK, QuietIteration, Quiet
    <2>5. PICK i \in DOMAIN cbs : cbs[i].due = NextTime /\ NextTime \in Nat
      BY <1>1, <2>1, NextTimeIsLeast DEF Inv, MovesOn
    <2>6. cbs[i].reason = "AFTER_DELAY" /\ ~(cbs[i].due <= time) /\ time \in Nat
      BY <1>1, <2>4, <2>5 DEF Inv, Timers, None, DueIds, TypeOK
    <2> QED  BY <2>2, <2>5, <2>6
  <1> QED  BY <1>1, InvHolds, PTL DEF Spec, NextStepIsLater

\* When no finish is requested before run(), a finish leaves only
\* end-of-simulation callbacks to fire.
THEOREM FinishLeavesTheEnd == ASSUME EarlyFinish = FALSE PROVE Spec => OnlyEndAfterFinish
  <1>1. ASSUME Inv, [Next]_vars, Fires, finish PROVE region = "end"
    <2>1. Fire /\ pc = "fire"
      BY <1>1, StepKinds DEF Fire
    <2>2. ~Through
      BY <1>1, <2>1, FireFacts DEF Through
    <2> QED  BY <1>1, <2>1, <2>2 DEF Inv, Finishing
  <1> QED  BY <1>1, InvHolds, PTL DEF Spec, OnlyEndAfterFinish
=============================================================================
