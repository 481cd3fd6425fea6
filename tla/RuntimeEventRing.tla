--------------------------- MODULE RuntimeEventRing ---------------------------
(***************************************************************************)
(* The runtime-event ring between compiled simulation code and whoever     *)
(* drains it.  $display, $write and assertion events are written by the    *)
(* simulator thread (compiled kernels, or the testbench host writer) and   *)
(* read without a lock, either by that same thread                         *)
(* (Simulator::drain_runtime_events) or by another one that owns a         *)
(* RuntimeEventDrain.  The ring holds Capacity slots.  A slot is a         *)
(* sequence word and the words of one event (site, argument count,         *)
(* payload).  Here a word is the number of the event it was written for:   *)
(* a delivered event is torn when its words disagree.  Sequence numbers    *)
(* are u64 in the code; their wrap-around after 2^64 events is left out.   *)
(***************************************************************************)
EXTENDS Integers

CONSTANTS
  Capacity,    \* runtime_event_capacity
  Words,       \* the words of a slot that are not its sequence word
  Mark,        \* names the store of RUNTIME_EVENT_WRITING
  MarkFirst,   \* whether that store is seen before the stores that follow it
  MaxEvents    \* bound: events written

ASSUME RingAssumption ==
  /\ Capacity \in Nat \ {0}
  /\ Mark \notin Words
  /\ MarkFirst \in BOOLEAN
  /\ MaxEvents \in Nat

Writing == -1          \* RUNTIME_EVENT_WRITING, no sequence number
Slots == 0..(Capacity - 1)
Slot(n) == n % Capacity

VARIABLES
  writeSeq,    \* word 0 of the buffer
  slotSeq,     \* the sequence word of each slot
  data,        \* the other words of each slot
  wpc,         \* the writer: "idle", "write" or "published"
  pend,        \* the writer's stores to its slot that are not yet visible
  shared,      \* Simulator::runtime_event_read_seq
  active,      \* runtime_event_drain_active
  rpc,         \* the reader: "idle", "check", "read" or "done"
  readSeq,     \* the reader's read_seq
  limit,       \* its copy of write_seq
  seen,        \* the words of the current slot it has read
  got,         \* what it read
  out,         \* history: the events delivered, with their words
  lost         \* history: the events reported as Missed

wvars == <<writeSeq, slotSeq, data, wpc, pend>>
rvars == <<rpc, readSeq, limit, seen, got>>
vars == <<wvars, shared, active, rvars, out, lost>>

Init ==
  /\ writeSeq = 0
  /\ slotSeq = [s \in Slots |-> 0]
  /\ data = [s \in Slots |-> [w \in Words |-> Writing]]
  /\ wpc = "idle" /\ pend = {}
  /\ shared = 0 /\ active = FALSE
  /\ rpc = "idle" /\ readSeq = 0 /\ limit = 0
  /\ seen = {} /\ got = [w \in Words |-> Writing]
  /\ out = {} /\ lost = {}

---------------------------------------------------------------------------
(* The writer. *)

(* The simulator thread is not inside its own drain call. *)
SimulatorFree == rpc = "idle" \/ active

WriteBegin ==
  /\ wpc = "idle" /\ SimulatorFree /\ writeSeq < MaxEvents
  /\ wpc' = "write" /\ pend' = Words \cup {Mark}
  /\ UNCHANGED <<writeSeq, slotSeq, data, shared, active, rvars, out, lost>>

StoreMark ==
  /\ wpc = "write" /\ Mark \in pend
  /\ pend' = pend \ {Mark}
  /\ slotSeq' = [slotSeq EXCEPT ![Slot(writeSeq)] = Writing]
  /\ UNCHANGED <<writeSeq, data, wpc, shared, active, rvars, out, lost>>

StoreWord(w) ==
  /\ wpc = "write" /\ w \in pend \ {Mark}
  /\ MarkFirst => Mark \notin pend
  /\ pend' = pend \ {w}
  /\ data' = [data EXCEPT ![Slot(writeSeq)][w] = writeSeq]
  /\ UNCHANGED <<writeSeq, slotSeq, wpc, shared, active, rvars, out, lost>>

(* A release store: every store before it is visible. *)
PublishSlot ==
  /\ wpc = "write" /\ pend = {}
  /\ slotSeq' = [slotSeq EXCEPT ![Slot(writeSeq)] = writeSeq]
  /\ wpc' = "published"
  /\ UNCHANGED <<writeSeq, data, pend, shared, active, rvars, out, lost>>

PublishSeq ==
  /\ wpc = "published"
  /\ writeSeq' = writeSeq + 1
  /\ wpc' = "idle"
  /\ UNCHANGED <<slotSeq, data, pend, shared, active, rvars, out, lost>>

---------------------------------------------------------------------------
(* The reader. *)

(* runtime_event_drain() takes the exclusive right to read, on the simulator's thread. *)
OpenDrain ==
  /\ wpc = "idle" /\ rpc = "idle" /\ ~active
  /\ active' = TRUE
  /\ readSeq' = shared
  /\ UNCHANGED <<wvars, shared, rpc, limit, seen, got, out, lost>>

DropDrain ==
  /\ active /\ rpc = "idle"
  /\ shared' = readSeq
  /\ active' = FALSE
  /\ UNCHANGED <<wvars, rvars, out, lost>>

(* Faulty variant: a lapped reader gives up one event at a time. *)
CollectFromCreeps(r) ==
  /\ rpc' = "check"
  /\ limit' = writeSeq
  /\ IF r + Capacity < writeSeq
     THEN readSeq' = r + 1 /\ lost' = lost \cup {r}
     ELSE readSeq' = r /\ lost' = lost
  /\ UNCHANGED <<wvars, shared, active, seen, got, out>>

(* The head of collect_runtime_events: a reader that was lapped skips to    *)
(* the oldest slot still in the ring and reports how many events it missed. *)
CollectFrom(r) ==
  /\ rpc' = "check"
  /\ limit' = writeSeq
  /\ IF r + Capacity < writeSeq
     THEN /\ readSeq' = writeSeq - Capacity
          /\ lost' = lost \cup r..(writeSeq - Capacity - 1)
     ELSE /\ readSeq' = r
          /\ lost' = lost
  /\ UNCHANGED <<wvars, shared, active, seen, got, out>>

DrainCall == active /\ rpc = "idle" /\ CollectFrom(readSeq)

SimulatorDrainCall ==
  /\ ~active /\ rpc = "idle" /\ wpc = "idle" /\ shared # writeSeq
  /\ CollectFrom(shared)

Published == slotSeq[Slot(readSeq)] = readSeq

(* Faulty variant: leaves the last published event behind. *)
CheckSlotStopsShort ==
  /\ rpc = "check"
  /\ rpc' = IF readSeq + 1 < limit /\ Published THEN "read" ELSE "done"
  /\ seen' = {}
  /\ UNCHANGED <<wvars, shared, active, readSeq, limit, got, out, lost>>

(* Faulty variant: waits for the slot instead of giving up on it. *)
CheckSlotSpins ==
  /\ rpc = "check"
  /\ rpc' = IF readSeq >= limit THEN "done" ELSE IF Published THEN "read" ELSE "check"
  /\ seen' = {}
  /\ UNCHANGED <<wvars, shared, active, readSeq, limit, got, out, lost>>

CheckSlot ==
  /\ rpc = "check"
  /\ rpc' = IF readSeq < limit /\ Published THEN "read" ELSE "done"
  /\ seen' = {}
  /\ UNCHANGED <<wvars, shared, active, readSeq, limit, got, out, lost>>

ReadWord(w) ==
  /\ rpc = "read" /\ w \in Words \ seen
  /\ seen' = seen \cup {w}
  /\ got' = [got EXCEPT ![w] = data[Slot(readSeq)][w]]
  /\ UNCHANGED <<wvars, shared, active, rpc, readSeq, limit, out, lost>>

(* Faulty variant: trusts the first check of the slot sequence. *)
RecheckSkipped ==
  /\ rpc = "read" /\ seen = Words
  /\ out' = out \cup {[seq |-> readSeq, words |-> got]}
  /\ readSeq' = readSeq + 1
  /\ rpc' = "check"
  /\ UNCHANGED <<wvars, shared, active, limit, seen, got, lost>>

Recheck ==
  /\ rpc = "read" /\ seen = Words
  /\ IF Published
     THEN /\ out' = out \cup {[seq |-> readSeq, words |-> got]}
          /\ readSeq' = readSeq + 1
          /\ rpc' = "check"
     ELSE /\ rpc' = "done"
          /\ UNCHANGED <<out, readSeq>>
  /\ UNCHANGED <<wvars, shared, active, limit, seen, got, lost>>

(* Faulty variant: the shared cursor is not stored back. *)
DrainReturnsLocal ==
  /\ rpc = "done"
  /\ rpc' = "idle"
  /\ UNCHANGED <<wvars, shared, active, readSeq, limit, seen, got, out, lost>>

DrainReturns ==
  /\ rpc = "done"
  /\ shared' = readSeq
  /\ rpc' = "idle"
  /\ UNCHANGED <<wvars, active, readSeq, limit, seen, got, out, lost>>

---------------------------------------------------------------------------
Writer ==
  \/ WriteBegin \/ StoreMark \/ PublishSlot \/ PublishSeq
  \/ \E w \in Words : StoreWord(w)

Collect ==
  \/ CheckSlot \/ Recheck \/ DrainReturns
  \/ \E w \in Words : ReadWord(w)

Next == Writer \/ Collect \/ OpenDrain \/ DropDrain \/ DrainCall \/ SimulatorDrainCall

Spec == Init /\ [][Next]_vars

(* A thread that is inside a drain call keeps running.  The writer is not   *)
(* assumed to run: a simulation may stop at any point.                      *)
FairSpec == Spec /\ WF_vars(Collect)

---------------------------------------------------------------------------
(* Properties *)

(* Where reading has got to: the local read_seq while somebody reads, the   *)
(* shared one in between.                                                   *)
Cursor == IF active \/ rpc # "idle" THEN readSeq ELSE shared
Delivered == {d.seq : d \in out}

(* Sequence words hold sequence numbers or the writing mark, and the        *)
(* program counters are the writer's and the reader's.                      *)
TypeOK ==
  /\ writeSeq \in Nat
  /\ slotSeq \in [Slots -> Nat \cup {Writing}]
  /\ data \in [Slots -> [Words -> Nat \cup {Writing}]]
  /\ wpc \in {"idle", "write", "published"}
  /\ pend \subseteq Words \cup {Mark}
  /\ shared \in Nat /\ active \in BOOLEAN
  /\ rpc \in {"idle", "check", "read", "done"}
  /\ readSeq \in Nat /\ limit \in Nat
  /\ seen \subseteq Words
  /\ got \in [Words -> Nat \cup {Writing}]
  /\ out \subseteq [seq : Nat, words : [Words -> Nat \cup {Writing}]]
  /\ lost \subseteq Nat

(* The re-check of the slot sequence rejects every race: all the words of a *)
(* delivered event were written for that event, however the writer's stores *)
(* and the reader's loads interleave and however often the writer laps.     *)
NoTornDelivery ==
  \A d \in out : \A w \in Words : d.words[w] = d.seq

(* Every event before the cursor was delivered or reported missed, never    *)
(* both, and no event beyond it was either: nothing is skipped or repeated  *)
(* across drains, early breaks, laps and hand-overs of the cursor between   *)
(* the simulator and a RuntimeEventDrain.                                   *)
ExactlyOnce ==
  /\ Delivered \cap lost = {}
  /\ Delivered \cup lost = 0..(Cursor - 1)

(* Only events whose slot a later event has taken are reported missed.      *)
LostWasOverwritten == \A n \in lost : n + Capacity < writeSeq

(* A drain that no write overlapped leaves nothing behind.                  *)
QuietDrainIsComplete ==
  rpc = "done" /\ wpc = "idle" /\ limit = writeSeq => readSeq = writeSeq

(* The lock-free ring behaves as a log with one reader, whoever reads: word  *)
(* by word stores and loads, abandoned reads, laps and hand-overs of the    *)
(* cursor amount to publishing, delivering and giving up whole events, in   *)
(* order.                                                                   *)
Log == INSTANCE EventLog
         WITH written <- writeSeq, pos <- Cursor, delivered <- out, missed <- lost
RefinesLog == Log!Spec

(* A drain call returns even if the writer never pauses, since it only      *)
(* looks for what was published before it started.                          *)
DrainTerminates == (rpc # "idle") ~> (rpc = "idle")
=============================================================================
