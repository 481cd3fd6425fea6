----------------------------- MODULE VpiCallbacks -----------------------------
(***************************************************************************)
(* The VPI callback runtime: the registrations foreign (cocotb) code makes *)
(* and removes, also from inside callbacks, and run(), which fires them    *)
(* region by region - start of simulation, due timers, value changes,      *)
(* read-write and read-only synchronisation, next time step, end of        *)
(* simulation - until a finish is requested or nothing is scheduled.       *)
(*                                                                         *)
(* flush_pending_writes is abstracted: pending writes are a flag, a flush  *)
(* settles once per edge batch and once more, each settlement may give the *)
(* watched signals any value, and value changes are dispatched inside the  *)
(* flush after each settlement but the last.  VpiWrites has its detail.    *)
(***************************************************************************)
EXTENDS Integers

CONSTANTS
  Sigs,          \* watched signals
  Values,        \* their values
  Reasons,       \* callback reasons in use
  Delays,        \* delays of AFTER_DELAY registrations
  MaxRegs,       \* bound: callbacks registered
  MaxPuts,       \* bound: writes by foreign code ...
  Endless,       \* ... unless foreign code may go on writing for ever
  MaxEdges,      \* bound: edge batches left of a flush
  MaxIter,       \* the cap on scheduler iterations (1000000 in the code)
  MayFail,       \* whether a settlement may end with a fatal error
  EarlyFinish    \* whether a finish may be requested before run() starts

Reason == {"VALUE_CHANGE", "READ_WRITE_SYNCH", "READ_ONLY_SYNCH", "NEXT_SIM_TIME",
           "AFTER_DELAY", "START_OF_SIMULATION", "END_OF_SIMULATION"}

ASSUME VpiCallbacksAssumption ==
  /\ Values \subseteq Nat
  /\ Reasons \subseteq Reason /\ Delays \subseteq Nat
  /\ MaxRegs \in Nat /\ MaxPuts \in Nat /\ MaxEdges \in Nat /\ MaxIter \in Nat
  /\ Endless \in BOOLEAN /\ MayFail \in BOOLEAN /\ EarlyFinish \in BOOLEAN

VARIABLES
  val,         \* the watched signals
  pend,        \* PENDING_WRITES.settle
  cbs,         \* CallbackState::callbacks
  nextId,      \* CallbackState::next_id
  firing,      \* the registration being fired, taken out of cbs, with firing[id]; or NotFiring
  time, finish, running, error,
  iterations,  \* of the scheduler loop
  progressed,
  region,      \* the region whose callbacks are being fired
  queue,       \* what is left of that region's batch: the noted value, or None, by id
  edges,       \* edge batches the flush in progress has left
  site,        \* where the flush in progress returns to
  pc,          \* "host", "loop", "inner", "decide", "fire", "callback", "flush", "dispatch", "flushing"
  puts,        \* writes so far
  freed,       \* history: callback handles freed
  removed,     \* history: callbacks whose removal succeeded
  doubleFree,  \* history: a handle was freed twice
  given,       \* history: the value each value-change callback was last given, or registered at
  lateWrite    \* history: a read-only callback wrote, which VPI forbids and the code allows

state == <<val, pend, cbs, nextId, firing, time, finish, running, error>>
ctl == <<iterations, progressed, region, queue, edges, site, pc>>
hist == <<puts, freed, removed, doubleFree, given, lateWrite>>
vars == <<state, ctl, hist>>

None == -1
NotFiring == [id |-> None]

RegistrationIds(reason) == {i \in DOMAIN cbs : cbs[i].reason = reason}

(* A batch is fired in the order of its ids, the order of the BTreeMap. *)
Items(ids) == [i \in ids |-> None]
NoItems == Items({})
Through == DOMAIN queue = {}
IsHead(i) == i \in DOMAIN queue /\ \A j \in DOMAIN queue : i <= j

Except(f, i) == [j \in DOMAIN f \ {i} |-> f[j]]
With(i, r) == [j \in DOMAIN cbs \cup {i} |-> IF j = i THEN r ELSE cbs[j]]

Init ==
  /\ val \in [Sigs -> Values]
  /\ pend = FALSE /\ cbs = NoItems /\ nextId = 0 /\ firing = NotFiring
  /\ time = 0 /\ finish = FALSE /\ running = FALSE /\ error = FALSE
  /\ iterations = 0 /\ progressed = FALSE /\ region = "none" /\ queue = NoItems
  /\ edges = 0 /\ site = "none" /\ pc = "host"
  /\ puts = 0 /\ freed = {} /\ removed = {} /\ doubleFree = FALSE
  /\ given = [i \in 0..(MaxRegs - 1) |-> None] /\ lateWrite = FALSE

---------------------------------------------------------------------------
(* Foreign code: before run(), and in callbacks *)

Foreign == pc \in {"host", "callback"}

Free(S) ==
  /\ freed' = freed \cup S
  /\ doubleFree' = (doubleFree \/ S \cap freed # {})

(* vpi_register_cb: the delay counts from now, the value is noted now. *)
RegisterCb(reason, s, delay) ==
  /\ Foreign /\ reason \in Reasons /\ nextId < MaxRegs
  /\ cbs' = With(nextId,
       [reason |-> reason, sig |-> s,
        due |-> IF reason = "AFTER_DELAY" THEN time + delay ELSE None,
        snap |-> IF reason = "VALUE_CHANGE" THEN val[s] ELSE None])
  /\ nextId' = nextId + 1
  /\ given' = [given EXCEPT ![nextId] = cbs'[nextId].snap]
  /\ UNCHANGED <<val, pend, firing, time, finish, running, error, ctl, puts, freed, removed,
                 doubleFree, lateWrite>>

(* Faulty variant: the handle of a firing callback is freed at once. *)
RemoveCbFreesFiring(i) ==
  /\ Foreign /\ i \in DOMAIN cbs \cup {firing.id}
  /\ IF i \in DOMAIN cbs
     THEN cbs' = Except(cbs, i) /\ UNCHANGED firing
     ELSE firing' = [firing EXCEPT !.cancelled = TRUE] /\ UNCHANGED cbs
  /\ Free({i})
  /\ removed' = removed \cup {i}
  /\ UNCHANGED <<val, pend, nextId, time, finish, running, error, ctl, puts, given, lateWrite>>

(* vpi_remove_cb: a queued callback is gone, a firing one is only marked. *)
RemoveCb(i) ==
  /\ Foreign /\ i \in DOMAIN cbs \cup {firing.id}
  /\ IF i \in DOMAIN cbs
     THEN cbs' = Except(cbs, i) /\ Free({i}) /\ UNCHANGED firing
     ELSE firing' = [firing EXCEPT !.cancelled = TRUE] /\ UNCHANGED <<cbs, freed, doubleFree>>
  /\ removed' = removed \cup {i}
  /\ UNCHANGED <<val, pend, nextId, time, finish, running, error, ctl, puts, given, lateWrite>>

CountPut == IF Endless THEN UNCHANGED puts ELSE puts < MaxPuts /\ puts' = puts + 1

(* vpi_put_value inside run(): flushed when the batch is through. *)
Put(s, v) ==
  /\ pc = "callback" /\ CountPut
  /\ lateWrite' = (lateWrite \/ region = "readOnly")
  /\ val' = [val EXCEPT ![s] = v]
  /\ pend' = TRUE
  /\ UNCHANGED <<cbs, nextId, firing, time, finish, running, error, ctl, freed, removed, doubleFree,
                 given>>

(* vpi_put_value outside run(): flushed within the call, which may fail. *)
HostPut ==
  /\ pc = "host" /\ CountPut
  /\ val' \in [Sigs -> Values]
  /\ pend' = FALSE
  /\ \E failed \in IF MayFail /\ EarlyFinish THEN BOOLEAN ELSE {FALSE} :
       finish' = (finish \/ failed) /\ error' = (error \/ failed)
  /\ UNCHANGED <<cbs, nextId, firing, time, running, ctl, freed, removed, doubleFree, given, lateWrite>>

(* vpi_control *)
Control ==
  /\ Foreign /\ (pc = "host" => EarlyFinish) /\ ~finish
  /\ finish' = TRUE
  /\ UNCHANGED <<val, pend, cbs, nextId, firing, time, running, error, ctl, hist>>

(* install_runtime: reset() frees what is still queued and starts afresh. *)
Reset ==
  /\ pc = "host" /\ (nextId > 0 \/ finish)
  /\ val' \in [Sigs -> Values] /\ pend' = FALSE
  /\ cbs' = NoItems /\ nextId' = 0 /\ time' = 0 /\ finish' = FALSE /\ error' = FALSE
  /\ freed' = {} /\ removed' = {} /\ given' = [i \in DOMAIN given |-> None] /\ lateWrite' = FALSE
  /\ doubleFree' = (doubleFree \/ DOMAIN cbs \cap freed # {})
  /\ UNCHANGED <<firing, running, ctl, puts>>

---------------------------------------------------------------------------
(* Firing *)

Enter(r, items) == region' = r /\ queue' = items /\ pc' = "fire"

(* An id whose registration an earlier callback removed is skipped. *)
SkipRemoved ==
  /\ pc = "fire"
  /\ \E i \in DOMAIN queue \ DOMAIN cbs : IsHead(i) /\ queue' = Except(queue, i)
  /\ UNCHANGED <<state, iterations, progressed, region, edges, site, pc, hist>>

(* The registration leaves the table while its callback runs.  A value      *)
(* change is given the value that selected it, not the current one.         *)
Fire ==
  /\ pc = "fire"
  /\ \E i \in DOMAIN queue \cap DOMAIN cbs :
       /\ IsHead(i)
       /\ cbs' = Except(cbs, i)
       /\ firing' = [id |-> i, reg |-> cbs[i], delivered |-> queue[i], cancelled |-> FALSE]
       /\ given' = [given EXCEPT ![i] = queue[i]]
       /\ queue' = Except(queue, i)
  /\ progressed' = (progressed \/ region \in {"due", "readWrite"})
  /\ pc' = "callback"
  /\ UNCHANGED <<val, pend, nextId, time, finish, running, error, iterations, region, edges,
                 site, puts, freed, removed, doubleFree, lateWrite>>

(* Faulty variant: a removal from inside the callback is overlooked. *)
RequeuedAlways == firing.reg.reason = "VALUE_CHANGE"

(* A value-change callback goes back unless it was cancelled meanwhile. *)
Requeued == firing.reg.reason = "VALUE_CHANGE" /\ ~firing.cancelled

(* Faulty variant: the registration keeps the value it had before. *)
KeepsSnapshot == firing.reg

Redelivered == [firing.reg EXCEPT !.snap = firing.delivered]

(* Faulty variant: a finish does not cut the batch short. *)
RestOfBatchWhole == queue

(* A finish drops what is left of every batch but the last one. *)
RestOfBatch == IF finish /\ region # "end" THEN NoItems ELSE queue

CallbackReturns ==
  /\ pc = "callback"
  /\ IF Requeued
     THEN cbs' = With(firing.id, Redelivered) /\ UNCHANGED <<freed, doubleFree>>
     ELSE Free({firing.id}) /\ UNCHANGED cbs
  /\ firing' = NotFiring
  /\ queue' = RestOfBatch
  /\ pc' = "fire"
  /\ UNCHANGED <<val, pend, nextId, time, finish, running, error, iterations, progressed, region,
                 edges, site, puts, removed, given, lateWrite>>

---------------------------------------------------------------------------
(* run() *)

Changed == {i \in DOMAIN cbs : cbs[i].reason = "VALUE_CHANGE" /\ cbs[i].snap # val[cbs[i].sig]}

(* The whole batch is noted with its values before the first one fires. *)
ChangedItems == [i \in Changed |-> val[cbs[i].sig]]

(* run_callbacks_result: an error left from before is returned first. *)
ReportError ==
  /\ pc = "host" /\ error
  /\ error' = FALSE
  /\ UNCHANGED <<val, pend, cbs, nextId, firing, time, finish, running, ctl, hist>>

BeginRun ==
  /\ pc = "host" /\ ~error /\ (finish => EarlyFinish)
  /\ running' = TRUE /\ iterations' = 0 /\ progressed' = FALSE
  /\ Enter("start", Items(RegistrationIds("START_OF_SIMULATION")))
  /\ UNCHANGED <<val, pend, cbs, nextId, firing, time, finish, error, edges, site, hist>>

EndRegion == Enter("end", Items(RegistrationIds("END_OF_SIMULATION")))

(* flush_pending_writes is called, and goes on to s when it returns. *)
FlushThen(s) == pc' = "flush" /\ site' = s /\ UNCHANGED <<region, queue>>

(* Faulty variant: a finish does not end the run. *)
RegionDoneDeaf ==
  /\ pc = "fire" /\ Through /\ region \notin {"end", "flush"}
  /\ CASE region \in {"start", "next"} -> FlushThen("loop")
       [] region \in {"due", "change", "readWrite"} -> FlushThen("inner")
       [] region = "readOnly" -> pc' = "decide" /\ UNCHANGED <<region, queue, site>>
  /\ UNCHANGED <<state, iterations, progressed, edges, hist>>

(* Faulty variant: what read-write callbacks wrote is not flushed. *)
RegionDoneLazy ==
  /\ pc = "fire" /\ Through /\ region \notin {"end", "flush"}
  /\ CASE finish -> EndRegion /\ UNCHANGED site
       [] ~finish /\ region \in {"start", "next"} -> FlushThen("loop")
       [] ~finish /\ region \in {"due", "change"} -> FlushThen("inner")
       [] ~finish /\ region = "readWrite" -> pc' = "inner" /\ UNCHANGED <<region, queue, site>>
       [] ~finish /\ region = "readOnly" -> pc' = "decide" /\ UNCHANGED <<region, queue, site>>
  /\ UNCHANGED <<state, iterations, progressed, edges, hist>>

(* A region's batch is through: flush and go on, or end on a finish. *)
RegionDone ==
  /\ pc = "fire" /\ Through /\ region \notin {"end", "flush"}
  /\ CASE finish -> EndRegion /\ UNCHANGED site
       [] ~finish /\ region \in {"start", "next"} -> FlushThen("loop")
       [] ~finish /\ region \in {"due", "change", "readWrite"} -> FlushThen("inner")
       [] ~finish /\ region = "readOnly" -> pc' = "decide" /\ UNCHANGED <<region, queue, site>>
  /\ UNCHANGED <<state, iterations, progressed, edges, hist>>

(* The run is over, and its error, if any, is taken. *)
RunEnds ==
  /\ pc = "fire" /\ Through /\ region = "end"
  /\ running' = FALSE /\ error' = FALSE /\ pc' = "host" /\ region' = "none" /\ site' = "none"
  /\ UNCHANGED <<val, pend, cbs, nextId, firing, time, finish, iterations, progressed, queue,
                 edges, hist>>

DueIds == {i \in DOMAIN cbs : cbs[i].reason = "AFTER_DELAY" /\ cbs[i].due <= time}

LoopHead ==
  /\ pc = "loop" /\ iterations < MaxIter
  /\ iterations' = iterations + 1
  /\ progressed' = FALSE
  /\ Enter("due", Items(DueIds))
  /\ UNCHANGED <<state, edges, site, hist>>

TooManyIterations ==
  /\ pc = "loop" /\ iterations >= MaxIter
  /\ finish' = TRUE /\ error' = TRUE
  /\ EndRegion
  /\ UNCHANGED <<val, pend, cbs, nextId, firing, time, running, iterations, progressed, edges,
                 site, hist>>

(* The inner loop: value changes, then read-write synchronisation, as long  *)
(* as there are any, then read-only synchronisation.                        *)
Inner ==
  /\ pc = "inner"
  /\ LET readWrite == RegistrationIds("READ_WRITE_SYNCH")
         readOnly == RegistrationIds("READ_ONLY_SYNCH")
     IN  \/ Changed # {} /\ Enter("change", ChangedItems) /\ progressed' = TRUE
         \/ Changed = {} /\ readWrite # {} /\ Enter("readWrite", Items(readWrite))
            /\ UNCHANGED progressed
         \/ Changed = {} /\ readWrite = {} /\ Enter("readOnly", Items(readOnly))
            /\ progressed' = (progressed \/ readOnly # {})
  /\ UNCHANGED <<state, iterations, edges, site, hist>>

Dues == {cbs[i].due : i \in DOMAIN cbs} \ {None}

(* Faulty variant: goes to the latest timer. *)
NextTimeLatest == CHOOSE t \in Dues : \A u \in Dues : u <= t

NextTime == CHOOSE t \in Dues : \A u \in Dues : t <= u

Advance ==
  IF Dues = {}
  THEN EndRegion /\ UNCHANGED time
  ELSE time' = NextTime /\ Enter("next", Items(RegistrationIds("NEXT_SIM_TIME")))

(* Faulty variant: time moves on although callbacks have just run. *)
DecideEager ==
  /\ pc = "decide" /\ Advance
  /\ UNCHANGED <<val, pend, cbs, nextId, firing, finish, running, error, iterations, progressed,
                 edges, site, hist>>

(* Time moves on only when a whole iteration found nothing to do. *)
Decide ==
  /\ pc = "decide"
  /\ IF progressed THEN pc' = "loop" /\ UNCHANGED <<time, region, queue>> ELSE Advance
  /\ UNCHANGED <<val, pend, cbs, nextId, firing, finish, running, error, iterations, progressed,
                 edges, site, hist>>

---------------------------------------------------------------------------
(* flush_pending_writes, abstracted *)

FlushNothing ==
  /\ pc = "flush" /\ ~pend
  /\ pc' = site
  /\ UNCHANGED <<state, iterations, progressed, region, queue, edges, site, hist>>

(* A flush, or one nested in it for what callbacks wrote, takes the pending *)
(* writes with their edge batches; value changes are dispatched after the  *)
(* last settlement of a nested one too, which counts as an edge batch.      *)
FlushTake ==
  /\ pc \in {"flush", "flushing"} /\ pend
  /\ pend' = FALSE
  /\ edges' \in IF pc = "flush" THEN 0..MaxEdges ELSE (edges + 1)..(MaxEdges + 1)
  /\ pc' = "flushing"
  /\ UNCHANGED <<val, cbs, nextId, firing, time, finish, running, error, iterations, progressed,
                 region, queue, site, hist>>

(* An edge batch settles; value changes are dispatched inside the flush. *)
FlushEdge ==
  /\ pc = "flushing" /\ ~pend /\ edges > 0
  /\ val' \in [Sigs -> Values]
  /\ edges' = edges - 1
  /\ pc' = "dispatch"
  /\ UNCHANGED <<pend, cbs, nextId, firing, time, finish, running, error, iterations, progressed,
                 region, queue, site, hist>>

FlushDispatch ==
  /\ pc = "dispatch"
  /\ Enter("flush", ChangedItems)
  /\ UNCHANGED <<state, iterations, progressed, edges, site, hist>>

(* The batch dispatched inside a flush is through; a finish ends the run. *)
FlushDispatched ==
  /\ pc = "fire" /\ Through /\ region = "flush"
  /\ IF finish THEN EndRegion ELSE pc' = "flushing" /\ UNCHANGED <<region, queue>>
  /\ UNCHANGED <<state, iterations, progressed, edges, site, hist>>

(* The last settlement. *)
FlushFinal ==
  /\ pc = "flushing" /\ ~pend /\ edges = 0
  /\ val' \in [Sigs -> Values]
  /\ pc' = site
  /\ UNCHANGED <<pend, cbs, nextId, firing, time, finish, running, error, iterations, progressed,
                 region, queue, edges, site, hist>>

(* A settlement fails: the flush gives up and the run ends. *)
FlushFails ==
  /\ MayFail /\ pc = "flushing" /\ ~pend
  /\ val' \in [Sigs -> Values]
  /\ finish' = TRUE /\ error' = TRUE /\ edges' = 0
  /\ EndRegion
  /\ UNCHANGED <<pend, cbs, nextId, firing, time, running, iterations, progressed, site, hist>>

---------------------------------------------------------------------------
Run ==
  \/ SkipRemoved \/ Fire \/ CallbackReturns \/ RegionDone \/ RunEnds \/ LoopHead
  \/ TooManyIterations \/ Inner \/ Decide \/ FlushNothing \/ FlushTake \/ FlushEdge
  \/ FlushDispatch \/ FlushDispatched \/ FlushFinal

Next ==
  \/ \E r \in Reasons, s \in Sigs, d \in Delays : RegisterCb(r, s, d)
  \/ \E i \in 0..(MaxRegs - 1) : RemoveCb(i)
  \/ \E s \in Sigs, v \in Values : Put(s, v)
  \/ HostPut \/ Control \/ Reset \/ ReportError \/ BeginRun \/ FlushFails \/ Run

Spec == Init /\ [][Next]_vars

(* run() goes on while it can, and every callback returns some time. *)
FairSpec == Spec /\ WF_vars(Run)

---------------------------------------------------------------------------
(* Properties *)

Registration == [reason : Reason, sig : Sigs, due : Nat \cup {None}, snap : Values \cup {None}]
Firing == [id : 0..(MaxRegs - 1), reg : Registration, delivered : Values \cup {None},
           cancelled : BOOLEAN]

(* Every variable has the type of the code's field, the registration being  *)
(* fired is there exactly while its callback runs, and is_running holds     *)
(* exactly while run() has control.                                         *)
TypeOK ==
  /\ val \in [Sigs -> Values]
  /\ nextId \in 0..MaxRegs
  /\ DOMAIN cbs \subseteq 0..(nextId - 1) /\ \A i \in DOMAIN cbs : cbs[i] \in Registration
  /\ DOMAIN queue \subseteq 0..(nextId - 1)
  /\ \A i \in DOMAIN queue : queue[i] \in Values \cup {None}
  /\ IF pc = "callback" THEN firing \in Firing ELSE firing = NotFiring
  /\ time \in Nat /\ edges \in Nat /\ iterations \in 0..MaxIter /\ puts \in Nat
  /\ pend \in BOOLEAN /\ finish \in BOOLEAN /\ error \in BOOLEAN
  /\ progressed \in BOOLEAN /\ doubleFree \in BOOLEAN /\ lateWrite \in BOOLEAN
  /\ pc \in {"host", "loop", "inner", "decide", "fire", "callback", "flush", "dispatch",
             "flushing"}
  /\ running = (pc # "host")
  /\ region \in {"none", "start", "due", "change", "readWrite", "readOnly", "next", "flush",
                 "end"}
  /\ site \in {"none", "loop", "inner"}
  /\ removed \subseteq 0..(nextId - 1)
  /\ given \in [0..(MaxRegs - 1) -> Values \cup {None}]

(* The callback handles given out by vpi_register_cb: each is held by the   *)
(* table, by the callback being fired or by nobody, in which case it has    *)
(* been freed exactly once - whether its callback was removed while         *)
(* queued, removed itself while it ran, or was through.                     *)
HandlesFreedOnce ==
  LET live == DOMAIN cbs \cup ({firing.id} \ {None})
  IN  /\ ~doubleFree
      /\ freed \cap live = {}
      /\ freed \cup live = 0..(nextId - 1)
      /\ firing.id \notin DOMAIN cbs

Fires == firing.id = None /\ firing'.id # None

(* After vpi_remove_cb has returned 1 the callback never fires again, also  *)
(* when it was already noted in the batch being fired or removed itself.    *)
RemovedNeverFires == [][Fires => firing'.id \notin removed]_vars

(* Every value a value-change callback is given differs from the one given  *)
(* before, or seen at registration: no change is delivered twice.           *)
DeliversChanges ==
  [][(Fires /\ firing'.reg.reason = "VALUE_CHANGE")
       => firing'.delivered # given[firing'.id]]_vars

(* Every value-change callback was last given the current value. *)
AllDelivered ==
  \A i \in DOMAIN cbs : cbs[i].reason = "VALUE_CHANGE" => given[i] = val[cbs[i].sig]

(* When a read-only callback runs nothing is left to settle or to deliver:  *)
(* all writes are flushed, all changes were seen by every value-change      *)
(* callback and no read-write callback waits.                               *)
ReadOnlySeesSettled ==
  [][(region # "readOnly" /\ region' = "readOnly")
       => ~pend /\ AllDelivered /\ RegistrationIds("READ_WRITE_SYNCH") = {}]_vars

(* Time only moves forward, and only when nothing is left to do now: no     *)
(* pending write, no undelivered change, no synchronisation callback and    *)
(* no timer that is due.                                                    *)
TimeWaitsForAll ==
  [][time' # time /\ running =>
       /\ time' > time /\ ~pend /\ AllDelivered
       /\ \A i \in DOMAIN cbs :
            /\ cbs[i].reason \notin {"READ_WRITE_SYNCH", "READ_ONLY_SYNCH"}
            /\ cbs[i].reason = "AFTER_DELAY" => cbs[i].due > time]_vars

(* A timer fires exactly at the time it is due. *)
TimersFireOnTime ==
  [][(Fires /\ firing'.reg.reason = "AFTER_DELAY") => firing'.reg.due = time]_vars

(* Once a finish is requested, only end-of-simulation callbacks are fired.  *)
OnlyEndAfterFinish == [][Fires /\ finish => region = "end"]_vars

(* Next-time-step callbacks run only when time has moved on, as long as no  *)
(* read-only callback wrote: such a write is flushed in the next iteration, *)
(* and a timer of delay 0 set by a value-change callback inside that flush  *)
(* does not count as progress.                                              *)
NextStepIsLater ==
  [][region # "next" /\ region' = "next" => time' > time \/ lateWrite]_vars

(* A requested finish ends the run, whatever callbacks keep writing. *)
FinishEndsRun == (running /\ finish) ~> ~running

PutStep == \E s \in Sigs, v \in Values : Put(s, v)

(* A callback registers a read-write synchronisation. *)
SyncStep ==
  pc = "callback" /\ \E s \in Sigs, d \in Delays : RegisterCb("READ_WRITE_SYNCH", s, d)

(* The run returns by itself, also when callbacks register others for ever: *)
(* a timer of delay 0, a next-time-step or a read-only callback that        *)
(* registers itself again meets the cap on iterations.  Exempt are the two  *)
(* things that keep the inner loop going within one iteration, which that   *)
(* cap does not bound: callbacks that write again and again, and            *)
(* read-write callbacks that again and again register another.              *)
QuietRunReturns ==
  []<><<PutStep>>_vars \/ []<><<SyncStep>>_vars \/ (running ~> ~running)
=============================================================================
