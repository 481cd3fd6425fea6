------------------------ MODULE RuntimeEventRing_proofs ------------------------
(***************************************************************************)
(* Proofs about the runtime-event ring, for every capacity, slot size and  *)
(* number of events.  Only the completeness of a drain depends on how      *)
(* sequence numbers are folded into slots; elsewhere the slot of an event  *)
(* is just "some slot".                                                    *)
(***************************************************************************)
EXTENDS RuntimeEventRing, TLAPS

(* An event's slot is a slot of the ring, the fact every other proof uses   *)
(* about `seq & (capacity - 1)'.                                            *)
LEMMA SlotInSlots == \A n \in Nat : Slot(n) \in Slots
BY RingAssumption DEF Slot, Slots

(***************************************************************************)
(* Type correctness.                                                       *)
(***************************************************************************)
(* The zeroed buffer and the fresh cursors of a new simulator are typed.    *)
LEMMA TypeInit == Init => TypeOK
<1> SUFFICES ASSUME Init PROVE TypeOK
  OBVIOUS
<1>1. slotSeq \in [Slots -> Nat \cup {Writing}]
  BY DEF Init
<1>2. [w \in Words |-> Writing] \in [Words -> Nat \cup {Writing}]
  OBVIOUS
<1>3. data \in [Slots -> [Words -> Nat \cup {Writing}]] /\ got \in [Words -> Nat \cup {Writing}]
  BY <1>2 DEF Init
<1> QED BY <1>1, <1>3 DEF Init, TypeOK

(* Every action of the writer and of the reader keeps the types, whatever   *)
(* the order in which the writer's stores become visible.                   *)
LEMMA TypeStep == TypeOK /\ [Next]_vars => TypeOK'
<1> SUFFICES ASSUME TypeOK, [Next]_vars PROVE TypeOK'
  OBVIOUS
<1> USE RingAssumption, SlotInSlots
<1>0. Slot(writeSeq) \in Slots /\ Slot(readSeq) \in Slots
  BY DEF TypeOK
<1>1. CASE WriteBegin
  BY <1>1 DEF WriteBegin, TypeOK, rvars
<1>2. CASE StoreMark
  BY <1>0, <1>2 DEF StoreMark, TypeOK, rvars
<1>3. CASE PublishSlot
  BY <1>0, <1>3 DEF PublishSlot, TypeOK, rvars
<1>4. CASE PublishSeq
  BY <1>4 DEF PublishSeq, TypeOK, rvars
<1>5. ASSUME NEW w \in Words, StoreWord(w) PROVE TypeOK'
  BY <1>0, <1>5 DEF StoreWord, TypeOK, rvars
<1>6. CASE OpenDrain
  BY <1>6 DEF OpenDrain, TypeOK, wvars
<1>7. CASE DropDrain
  BY <1>7 DEF DropDrain, TypeOK, wvars, rvars
<1>8. ASSUME NEW r \in Nat, CollectFrom(r) PROVE TypeOK'
  <2>1. CASE r + Capacity < writeSeq
    <3>1. writeSeq - Capacity \in Nat
      BY <2>1 DEF TypeOK
    <3>2. r..(writeSeq - Capacity - 1) \subseteq Nat
      OBVIOUS
    <3> QED BY <1>8, <2>1, <3>1, <3>2 DEF CollectFrom, TypeOK, wvars
  <2>2. CASE ~(r + Capacity < writeSeq)
    BY <1>8, <2>2 DEF CollectFrom, TypeOK, wvars
  <2> QED BY <2>1, <2>2
<1>9. CASE DrainCall
  BY <1>8, <1>9 DEF DrainCall, TypeOK
<1>10. CASE SimulatorDrainCall
  BY <1>8, <1>10 DEF SimulatorDrainCall, TypeOK
<1>11. CASE CheckSlot
  BY <1>11 DEF CheckSlot, TypeOK, wvars
<1>12. ASSUME NEW w \in Words, ReadWord(w) PROVE TypeOK'
  BY <1>0, <1>12 DEF ReadWord, TypeOK, wvars
<1>13. CASE Recheck
  BY <1>13 DEF Recheck, TypeOK, wvars
<1>14. CASE DrainReturns
  BY <1>14 DEF DrainReturns, TypeOK, wvars
<1>15. CASE UNCHANGED vars
  BY <1>15 DEF vars, wvars, rvars, TypeOK
<1> QED
  BY <1>1, <1>2, <1>3, <1>4, <1>5, <1>6, <1>7, <1>9, <1>10, <1>11, <1>12, <1>13, <1>14,
     <1>15 DEF Next, Writer, Collect

(* The ring's words, counters and histories have their types in every       *)
(* reachable state.                                                         *)
THEOREM TypeCorrect == Spec => []TypeOK
BY TypeInit, TypeStep, PTL DEF Spec

(***************************************************************************)
(* No torn delivery.  What a delivered event holds depends on a slot the   *)
(* writer may be refilling, so NoTornDelivery is not inductive.  The       *)
(* strengthening says what a slot's sequence word vouches for: a slot that *)
(* carries the number of a published event holds that event's words        *)
(* (SlotIntact); the writer stores words only under its mark               *)
(* (WriterProgress); and what the reader has read so far is right as long  *)
(* as the sequence word still is what it was (ReaderProgress).  Once the   *)
(* mark replaces a number, that number never comes back.                   *)
(***************************************************************************)
SlotIntact ==
  \A n \in 0..(writeSeq - 1) :
    slotSeq[Slot(n)] = n => \A w \in Words : data[Slot(n)][w] = n

WriterProgress ==
  /\ wpc = "write" => \A w \in Words \ pend : data[Slot(writeSeq)][w] = writeSeq
  /\ wpc = "write" /\ Mark \notin pend => slotSeq[Slot(writeSeq)] = Writing
  /\ wpc = "published" => \A w \in Words : data[Slot(writeSeq)][w] = writeSeq

ReaderProgress ==
  /\ rpc \in {"check", "read"} => limit <= writeSeq
  /\ rpc = "read" => readSeq < limit
  /\ rpc = "read" /\ Published => \A w \in seen : got[w] = readSeq

TornInv == TypeOK /\ SlotIntact /\ WriterProgress /\ ReaderProgress /\ NoTornDelivery

(* Every action keeps the strengthened invariant when the writing mark is   *)
(* visible before the words that follow it.                                 *)
LEMMA TornStep == MarkFirst /\ TornInv /\ [Next]_vars => TornInv'
<1> SUFFICES ASSUME MarkFirst, TornInv, [Next]_vars PROVE TornInv'
  OBVIOUS
<1> USE RingAssumption, SlotInSlots
<1>0. TypeOK /\ TypeOK' /\ Slot(writeSeq) \in Slots /\ Slot(readSeq) \in Slots
  BY TypeStep DEF TornInv, TypeOK
<1>1. CASE WriteBegin
  <2>1. SlotIntact' /\ WriterProgress'
    BY <1>0, <1>1 DEF WriteBegin, TornInv, SlotIntact, WriterProgress
  <2>2. ReaderProgress' /\ NoTornDelivery'
    BY <1>0, <1>1 DEF WriteBegin, TornInv, ReaderProgress, NoTornDelivery, Published, rvars
  <2> QED BY <1>0, <2>1, <2>2 DEF TornInv
<1>2. CASE StoreMark
  <2>0. /\ slotSeq' = [slotSeq EXCEPT ![Slot(writeSeq)] = Writing]
        /\ UNCHANGED <<writeSeq, data, wpc, rpc, readSeq, limit, seen, got, out>>
    BY <1>2 DEF StoreMark, rvars
  <2>1. SlotIntact'
    BY <1>0, <2>0 DEF TornInv, TypeOK, SlotIntact, Writing
  <2>2. WriterProgress'
    BY <1>0, <1>2, <2>0 DEF StoreMark, TornInv, TypeOK, WriterProgress
  <2>3. ReaderProgress' /\ NoTornDelivery'
    BY <1>0, <2>0 DEF TornInv, TypeOK, ReaderProgress, NoTornDelivery, Published, Writing
  <2> QED BY <1>0, <2>1, <2>2, <2>3 DEF TornInv
<1>3. ASSUME NEW w \in Words, StoreWord(w) PROVE TornInv'
  <2>0. /\ wpc = "write" /\ pend' = pend \ {w}
        /\ slotSeq[Slot(writeSeq)] = Writing
        /\ data' = [data EXCEPT ![Slot(writeSeq)][w] = writeSeq]
        /\ UNCHANGED <<writeSeq, slotSeq, wpc, rpc, readSeq, limit, seen, got, out>>
    BY <1>0, <1>3 DEF StoreWord, TornInv, WriterProgress, rvars
  <2>1. SlotIntact'
    <3> SUFFICES ASSUME NEW n \in 0..(writeSeq - 1), slotSeq[Slot(n)] = n, NEW v \in Words
                 PROVE  data'[Slot(n)][v] = n
      BY <2>0 DEF SlotIntact
    <3>1. Slot(n) \in Slots /\ Slot(n) # Slot(writeSeq)
      BY <1>0, <2>0 DEF TypeOK, Writing
    <3>2. data[Slot(n)][v] = n
      BY DEF TornInv, SlotIntact
    <3> QED BY <1>0, <2>0, <3>1, <3>2 DEF TypeOK
  <2>2. WriterProgress'
    BY <1>0, <1>3, <2>0 DEF TornInv, TypeOK, WriterProgress
  <2>3. ReaderProgress' /\ NoTornDelivery'
    BY <1>0, <2>0 DEF TornInv, ReaderProgress, NoTornDelivery, Published
  <2> QED BY <1>0, <2>1, <2>2, <2>3 DEF TornInv
<1>4. CASE PublishSlot
  <2>0. /\ wpc = "write" /\ pend = {} /\ wpc' = "published"
        /\ slotSeq' = [slotSeq EXCEPT ![Slot(writeSeq)] = writeSeq]
        /\ \A w \in Words : data[Slot(writeSeq)][w] = writeSeq
        /\ UNCHANGED <<writeSeq, data, rpc, readSeq, limit, seen, got, out>>
    BY <1>0, <1>4 DEF PublishSlot, TornInv, WriterProgress, rvars
  <2>1. SlotIntact' /\ WriterProgress'
    BY <1>0, <2>0 DEF TornInv, TypeOK, SlotIntact, WriterProgress
  <2>2. ReaderProgress' /\ NoTornDelivery'
    BY <1>0, <2>0 DEF TornInv, TypeOK, ReaderProgress, NoTornDelivery, Published
  <2> QED BY <1>0, <2>1, <2>2 DEF TornInv
<1>5. CASE PublishSeq
  <2>0. /\ wpc = "published" /\ wpc' = "idle" /\ writeSeq' = writeSeq + 1
        /\ UNCHANGED <<slotSeq, data, rpc, readSeq, limit, seen, got, out>>
    BY <1>5 DEF PublishSeq, rvars
  <2>1. SlotIntact'
    <3> SUFFICES ASSUME NEW n \in 0..writeSeq, slotSeq[Slot(n)] = n, NEW v \in Words
                 PROVE  data[Slot(n)][v] = n
      BY <1>0, <2>0 DEF SlotIntact, TypeOK
    <3>1. CASE n = writeSeq
      BY <2>0, <3>1 DEF TornInv, WriterProgress
    <3>2. CASE n # writeSeq
      BY <1>0, <3>2 DEF TornInv, SlotIntact, TypeOK
    <3> QED BY <3>1, <3>2
  <2>2. WriterProgress'
    BY <2>0 DEF WriterProgress
  <2>3. ReaderProgress' /\ NoTornDelivery'
    BY <1>0, <2>0 DEF TornInv, TypeOK, ReaderProgress, NoTornDelivery, Published
  <2> QED BY <1>0, <2>1, <2>2, <2>3 DEF TornInv
<1>6. ASSUME UNCHANGED wvars PROVE SlotIntact' /\ WriterProgress'
  BY <1>6 DEF wvars, TornInv, SlotIntact, WriterProgress
<1>7. CASE OpenDrain \/ DropDrain \/ DrainReturns
  <2>1. ReaderProgress' /\ NoTornDelivery'
    BY <1>0, <1>7 DEF OpenDrain, DropDrain, DrainReturns, TornInv, ReaderProgress,
                      NoTornDelivery, Published, wvars, rvars
  <2> QED BY <1>0, <1>6, <1>7, <2>1 DEF OpenDrain, DropDrain, DrainReturns, TornInv
<1>8. CASE DrainCall \/ SimulatorDrainCall
  <2>1. ReaderProgress' /\ NoTornDelivery'
    BY <1>0, <1>8 DEF DrainCall, SimulatorDrainCall, CollectFrom, TornInv, TypeOK,
                      ReaderProgress, NoTornDelivery, wvars
  <2> QED BY <1>0, <1>6, <1>8, <2>1 DEF DrainCall, SimulatorDrainCall, CollectFrom, TornInv
<1>9. CASE CheckSlot
  <2>1. ReaderProgress' /\ NoTornDelivery'
    BY <1>0, <1>9 DEF CheckSlot, TornInv, TypeOK, ReaderProgress, NoTornDelivery, wvars
  <2> QED BY <1>0, <1>6, <1>9, <2>1 DEF CheckSlot, TornInv
<1>10. ASSUME NEW w \in Words, ReadWord(w) PROVE TornInv'
  <2>0. /\ rpc = "read" /\ seen' = seen \cup {w}
        /\ got' = [got EXCEPT ![w] = data[Slot(readSeq)][w]]
        /\ UNCHANGED <<writeSeq, slotSeq, data, rpc, readSeq, limit, out>>
    BY <1>10 DEF ReadWord, wvars
  <2>1. Published => data[Slot(readSeq)][w] = readSeq
    BY <1>0, <2>0 DEF TornInv, TypeOK, SlotIntact, ReaderProgress, Published
  <2>2. ReaderProgress' /\ NoTornDelivery'
    BY <1>0, <2>0, <2>1 DEF TornInv, TypeOK, ReaderProgress, NoTornDelivery, Published
  <2> QED BY <1>0, <1>6, <1>10, <2>2 DEF ReadWord, TornInv
<1>11. CASE Recheck
  <2>1. ReaderProgress'
    BY <1>0, <1>11 DEF Recheck, TornInv, ReaderProgress, Published, wvars
  <2>2. NoTornDelivery'
    <3>1. CASE Published
      <4>1. \A w \in Words : got[w] = readSeq
        BY <1>11, <3>1 DEF Recheck, TornInv, ReaderProgress
      <4>2. out' = out \cup {[seq |-> readSeq, words |-> got]}
        BY <1>11, <3>1 DEF Recheck
      <4> QED BY <4>1, <4>2 DEF TornInv, NoTornDelivery
    <3>2. CASE ~Published
      BY <1>11, <3>2 DEF Recheck, TornInv, NoTornDelivery
    <3> QED BY <3>1, <3>2
  <2> QED BY <1>0, <1>6, <1>11, <2>1, <2>2 DEF Recheck, TornInv
<1>12. CASE UNCHANGED vars
  BY <1>0, <1>12 DEF vars, wvars, rvars, TornInv, SlotIntact, WriterProgress, ReaderProgress,
                     NoTornDelivery, Published
<1> QED
  BY <1>1, <1>2, <1>3, <1>4, <1>5, <1>7, <1>8, <1>9, <1>10, <1>11, <1>12
  DEF Next, Writer, Collect

(* On a machine that makes the writing mark visible before the words that   *)
(* follow it, no reader ever delivers a torn event, for every capacity,     *)
(* slot size, number of events and interleaving.                            *)
THEOREM NoTorn == MarkFirst /\ Spec => []NoTornDelivery
<1> SUFFICES ASSUME MarkFirst PROVE Spec => []NoTornDelivery
  OBVIOUS
<1>1. Init => TornInv
  BY TypeInit DEF Init, TornInv, SlotIntact, WriterProgress, ReaderProgress, NoTornDelivery
<1>2. TornInv /\ [Next]_vars => TornInv'
  BY TornStep
<1>3. TornInv => NoTornDelivery
  BY DEF TornInv
<1> QED BY <1>1, <1>2, <1>3, PTL DEF Spec

(***************************************************************************)
(* Accounting.                                                             *)
(***************************************************************************)
(* Each action that moves the cursor delivers or writes off exactly the     *)
(* events it passes, and the others leave the cursor where it is.           *)
LEMMA AccountStep == TypeOK /\ ExactlyOnce /\ [Next]_vars => ExactlyOnce'
<1> SUFFICES ASSUME TypeOK, ExactlyOnce, [Next]_vars PROVE ExactlyOnce'
  OBVIOUS
<1> USE RingAssumption
<1>0. Cursor \in Nat
  BY DEF Cursor, TypeOK
<1>1. ASSUME out' = out, lost' = lost, Cursor' = Cursor PROVE ExactlyOnce'
  BY <1>1 DEF ExactlyOnce, Delivered
<1>2. CASE Writer
  BY <1>1, <1>2 DEF Writer, WriteBegin, StoreMark, StoreWord, PublishSlot, PublishSeq, Cursor,
                    rvars
<1>3. CASE OpenDrain \/ DropDrain \/ DrainReturns
  BY <1>1, <1>3 DEF OpenDrain, DropDrain, DrainReturns, Cursor, rvars, TypeOK
<1>4. ASSUME NEW w \in Words, ReadWord(w) PROVE ExactlyOnce'
  BY <1>1, <1>4 DEF ReadWord, Cursor
<1>5. CASE CheckSlot
  BY <1>1, <1>5 DEF CheckSlot, Cursor
<1>6. CASE DrainCall \/ SimulatorDrainCall
  <2>1. CollectFrom(Cursor)
    BY <1>6 DEF DrainCall, SimulatorDrainCall, Cursor
  <2>2. Cursor' = readSeq' /\ Delivered' = Delivered
    BY <2>1 DEF CollectFrom, Cursor, Delivered
  <2>3. CASE Cursor + Capacity < writeSeq
    <3>1. /\ readSeq' = writeSeq - Capacity
          /\ lost' = lost \cup Cursor..(writeSeq - Capacity - 1)
      BY <2>1, <2>3 DEF CollectFrom
    <3>2. 0..(writeSeq - Capacity - 1) = 0..(Cursor - 1) \cup Cursor..(writeSeq - Capacity - 1)
      BY <1>0, <2>3 DEF TypeOK
    <3>3. 0..(Cursor - 1) \cap Cursor..(writeSeq - Capacity - 1) = {}
      BY <1>0
    <3> QED BY <2>2, <3>1, <3>2, <3>3 DEF ExactlyOnce
  <2>4. CASE ~(Cursor + Capacity < writeSeq)
    BY <1>1, <2>1, <2>2, <2>4 DEF CollectFrom
  <2> QED BY <2>3, <2>4
<1>7. CASE Recheck
  <2>1. CASE Published
    <3>1. /\ out' = out \cup {[seq |-> readSeq, words |-> got]} /\ lost' = lost
          /\ Cursor = readSeq /\ Cursor' = readSeq + 1
      BY <1>7, <2>1 DEF Recheck, Cursor
    <3>2. Delivered' = Delivered \cup {readSeq}
      <4> DEFINE e == [seq |-> readSeq, words |-> got]
      <4>1. e.seq = readSeq /\ out' = out \cup {e}
        BY <3>1
      <4> HIDE DEF e
      <4> QED BY <4>1 DEF Delivered
    <3>3. readSeq \in Nat
      BY DEF TypeOK
    <3>4. 0..(readSeq + 1 - 1) = 0..(readSeq - 1) \cup {readSeq}
      BY <3>3
    <3>5. readSeq \notin 0..(readSeq - 1)
      BY <3>3
    <3> QED BY <3>1, <3>2, <3>4, <3>5 DEF ExactlyOnce
  <2>2. CASE ~Published
    BY <1>1, <1>7, <2>2 DEF Recheck, Cursor
  <2> QED BY <2>1, <2>2
<1>8. CASE UNCHANGED vars
  BY <1>1, <1>8 DEF vars, rvars, Cursor
<1> QED
  BY <1>2, <1>3, <1>4, <1>5, <1>6, <1>7, <1>8 DEF Next, Collect

(* Every event is delivered or reported missed exactly once, in order, over *)
(* any sequence of simulator drains, RuntimeEventDrain hand-overs, laps and *)
(* abandoned reads; this holds on any memory model.                         *)
THEOREM Accounting == Spec => []ExactlyOnce
<1>1. Init => ExactlyOnce
  BY DEF Init, ExactlyOnce, Delivered, Cursor
<1> QED BY <1>1, AccountStep, TypeCorrect, PTL DEF Spec

(* Missed is honest: an event is written off only after the event that      *)
(* takes over its slot was published.                                       *)
THEOREM MissedIsHonest == Spec => []LostWasOverwritten
<1>1. Init => LostWasOverwritten
  BY DEF Init, LostWasOverwritten
<1>2. TypeOK /\ LostWasOverwritten /\ [Next]_vars => LostWasOverwritten'
  <2> SUFFICES ASSUME TypeOK, LostWasOverwritten, [Next]_vars PROVE LostWasOverwritten'
    OBVIOUS
  <2> USE RingAssumption DEF TypeOK
  <2>1. ASSUME lost' = lost, writeSeq' \in Nat, writeSeq' >= writeSeq PROVE LostWasOverwritten'
    BY <2>1 DEF LostWasOverwritten
  <2>2. CASE Writer
    BY <2>1, <2>2 DEF Writer, WriteBegin, StoreMark, StoreWord, PublishSlot, PublishSeq
  <2>3. CASE OpenDrain \/ DropDrain \/ Collect \/ UNCHANGED vars
    BY <2>1, <2>3 DEF OpenDrain, DropDrain, Collect, CheckSlot, Recheck, DrainReturns, ReadWord,
                      vars, wvars
  <2>4. ASSUME NEW r \in Nat, CollectFrom(r) PROVE LostWasOverwritten'
    <3>1. CASE r + Capacity < writeSeq
      <4>1. lost' = lost \cup r..(writeSeq - Capacity - 1) /\ writeSeq' = writeSeq
        BY <2>4, <3>1 DEF CollectFrom, wvars
      <4>2. \A n \in r..(writeSeq - Capacity - 1) : n + Capacity < writeSeq
        OBVIOUS
      <4> QED BY <4>1, <4>2 DEF LostWasOverwritten
    <3>2. CASE ~(r + Capacity < writeSeq)
      BY <2>1, <2>4, <3>2 DEF CollectFrom, wvars
    <3> QED BY <3>1, <3>2
  <2>5. CASE DrainCall \/ SimulatorDrainCall
    BY <2>4, <2>5 DEF DrainCall, SimulatorDrainCall
  <2> QED BY <2>2, <2>3, <2>5 DEF Next
<1> QED BY <1>1, <1>2, TypeCorrect, PTL DEF Spec

(***************************************************************************)
(* The refinement.  The steps of the writer before PublishSeq, and the     *)
(* steps of the reader other than a lap and a successful re-check, are     *)
(* invisible; that a re-check delivers the event as written is TornInv.    *)
(***************************************************************************)
(* Steps that neither publish, deliver nor give up move no abstract state.  *)
LEMMA InvisibleStep ==
  ASSUME UNCHANGED <<writeSeq, out, lost>>, Cursor' = Cursor
  PROVE  UNCHANGED Log!vars
BY DEF Log!vars

(* A lapped reader gives up; any other call of a drain is invisible.        *)
LEMMA CollectImplements ==
  ASSUME TypeOK, CollectFrom(Cursor) PROVE [Log!Next]_(Log!vars)
<1> USE RingAssumption DEF TypeOK
<1>1. Cursor \in Nat
  BY DEF Cursor
<1>2. Cursor' = readSeq' /\ UNCHANGED <<writeSeq, out>>
  BY DEF CollectFrom, Cursor, wvars
<1>3. CASE Cursor + Capacity < writeSeq
  <2>1. readSeq' = writeSeq - Capacity /\ lost' = lost \cup Cursor..(writeSeq - Capacity - 1)
    BY <1>3 DEF CollectFrom
  <2> QED BY <1>2, <1>3, <2>1 DEF Log!Next, Log!GiveUp
<1>4. CASE ~(Cursor + Capacity < writeSeq)
  <2>1. readSeq' = Cursor /\ lost' = lost
    BY <1>4 DEF CollectFrom
  <2> QED BY <1>2, <2>1, InvisibleStep
<1> QED BY <1>3, <1>4

(* Every step of the ring is a step of the log or invisible in it.          *)
LEMMA LogStep == TornInv /\ [Next]_vars => [Log!Next]_(Log!vars)
<1> SUFFICES ASSUME TornInv, [Next]_vars PROVE [Log!Next]_(Log!vars)
  OBVIOUS
<1>0. TypeOK
  BY DEF TornInv
<1>1. CASE WriteBegin \/ StoreMark \/ PublishSlot \/ \E w \in Words : StoreWord(w)
  <2>1. UNCHANGED <<writeSeq, out, lost>> /\ Cursor' = Cursor
    BY <1>1 DEF WriteBegin, StoreMark, PublishSlot, StoreWord, Cursor, rvars
  <2> QED BY <2>1, InvisibleStep
<1>2. CASE PublishSeq
  <2>1. Cursor' = Cursor
    BY <1>2 DEF PublishSeq, Cursor, rvars
  <2> QED BY <1>2, <2>1 DEF PublishSeq, Log!Next, Log!Publish
<1>3. CASE OpenDrain \/ DropDrain \/ DrainReturns
  <2>1. UNCHANGED <<writeSeq, out, lost>> /\ Cursor' = Cursor
    BY <1>3 DEF OpenDrain, DropDrain, DrainReturns, Cursor, wvars, rvars
  <2> QED BY <2>1, InvisibleStep
<1>4. CASE CheckSlot \/ \E w \in Words : ReadWord(w)
  <2>1. UNCHANGED <<writeSeq, out, lost>> /\ Cursor' = Cursor
    BY <1>4 DEF CheckSlot, ReadWord, Cursor, wvars
  <2> QED BY <2>1, InvisibleStep
<1>5. CASE DrainCall
  <2>1. Cursor = readSeq
    BY <1>5 DEF DrainCall, Cursor
  <2> QED BY <1>0, <1>5, <2>1, CollectImplements DEF DrainCall
<1>6. CASE SimulatorDrainCall
  <2>1. Cursor = shared
    BY <1>6 DEF SimulatorDrainCall, Cursor
  <2> QED BY <1>0, <1>6, <2>1, CollectImplements DEF SimulatorDrainCall
<1>7. CASE Recheck
  <2>1. Cursor = readSeq /\ Cursor' = readSeq' /\ UNCHANGED <<writeSeq, lost>>
    BY <1>7 DEF Recheck, Cursor, wvars
  <2>2. CASE Published
    <3>1. readSeq' = readSeq + 1 /\ out' = out \cup {[seq |-> readSeq, words |-> got]}
      BY <1>7, <2>2 DEF Recheck
    <3>2. got = [w \in Words |-> readSeq]
      BY <1>7, <2>2, <1>0 DEF Recheck, TornInv, ReaderProgress, TypeOK
    <3>3. readSeq < writeSeq
      BY <1>0, <1>7 DEF Recheck, TornInv, ReaderProgress, TypeOK
    <3> QED BY <2>1, <3>1, <3>2, <3>3 DEF Log!Next, Log!Deliver, Log!Event
  <2>3. CASE ~Published
    BY <1>7, <2>1, <2>3, InvisibleStep DEF Recheck
  <2> QED BY <2>2, <2>3
<1>8. CASE UNCHANGED vars
  <2>1. UNCHANGED <<writeSeq, out, lost>> /\ Cursor' = Cursor
    BY <1>8 DEF vars, wvars, rvars, Cursor
  <2> QED BY <2>1, InvisibleStep
<1> QED
  BY <1>1, <1>2, <1>3, <1>4, <1>5, <1>6, <1>7, <1>8 DEF Next, Writer, Collect

(* With the writing mark visible first, the ring is a log with one reader,  *)
(* for every capacity, slot size and number of events.                      *)
THEOREM RingImplementsLog == MarkFirst /\ Spec => RefinesLog
<1> SUFFICES ASSUME MarkFirst PROVE Spec => RefinesLog
  OBVIOUS
<1>1. Init => Log!Init
  BY DEF Init, Log!Init, Cursor
<1>2. Init => TornInv
  BY TypeInit, RingAssumption
  DEF Init, TornInv, SlotIntact, WriterProgress, ReaderProgress, NoTornDelivery
<1>3. TornInv /\ [Next]_vars => TornInv'
  BY TornStep
<1> QED BY <1>1, <1>2, <1>3, LogStep, PTL DEF Spec, RefinesLog, Log!Spec

(***************************************************************************)
(* A drain that no write overlapped leaves nothing behind.  The ring keeps *)
(* the last Capacity events, one in each slot, except that a writer at     *)
(* work has given up the oldest (Retained); a reader never falls behind    *)
(* what was kept when it looked at write_seq (Window).                     *)
(***************************************************************************)
(* Two events fewer than Capacity apart have different slots.               *)
LEMMA SlotsDiffer ==
  ASSUME NEW n \in Nat, NEW m \in Nat, n < m, m < n + Capacity
  PROVE  Slot(n) # Slot(m)
<1> USE RingAssumption
<1> DEFINE a == n \div Capacity
           b == m \div Capacity
<1>1. /\ a \in Nat /\ n % Capacity \in 0..(Capacity - 1)
      /\ n = Capacity * a + (n % Capacity)
  BY SMT
<1>2. /\ b \in Nat /\ m % Capacity \in 0..(Capacity - 1)
      /\ m = Capacity * b + (m % Capacity)
  BY SMT
<1> HIDE DEF a, b
<1>3. SUFFICES ASSUME n % Capacity = m % Capacity PROVE FALSE
  BY DEF Slot
<1>4. m - n = Capacity * (b - a)
  BY <1>1, <1>2, <1>3
<1>5. CASE b - a >= 1
  BY <1>1, <1>2, <1>4, <1>5
<1>6. CASE b - a <= 0
  BY <1>1, <1>2, <1>4, <1>6
<1> QED BY <1>1, <1>2, <1>5, <1>6

(* The events of the last lap are still published in their slots.           *)
Retained ==
  \A n \in 0..(writeSeq - 1) :
    (IF wpc = "idle" THEN writeSeq <= n + Capacity ELSE writeSeq < n + Capacity)
      => slotSeq[Slot(n)] = n

(* What a drain has yet to read is at most one lap before its limit.        *)
Window ==
  /\ wpc = "published" => slotSeq[Slot(writeSeq)] = writeSeq
  /\ rpc # "idle" => readSeq <= limit /\ limit <= writeSeq /\ limit <= readSeq + Capacity
  /\ rpc = "read" => readSeq < limit
  /\ shared <= writeSeq /\ (active => readSeq <= writeSeq)

QuietInv == TypeOK /\ Retained /\ Window /\ QuietDrainIsComplete

(* The head of a drain enters the window from any cursor.                   *)
LEMMA CollectQuiet ==
  ASSUME QuietInv, TypeOK', NEW r \in Nat, r <= writeSeq, CollectFrom(r)
  PROVE  QuietInv'
<1> USE RingAssumption
<1>1. /\ UNCHANGED <<writeSeq, slotSeq, wpc, shared, active>>
      /\ rpc' = "check" /\ limit' = writeSeq
      /\ readSeq' = IF r + Capacity < writeSeq THEN writeSeq - Capacity ELSE r
  BY DEF CollectFrom, wvars
<1>2. Retained'
  BY <1>1 DEF QuietInv, Retained
<1>3. Window'
  BY <1>1 DEF QuietInv, Window, TypeOK
<1> QED BY <1>1, <1>2, <1>3 DEF QuietInv, QuietDrainIsComplete

(* While write_seq is what the drain saw and no write is going on, the slot *)
(* under the cursor still carries the cursor's event.                       *)
LEMMA StillPublished ==
  ASSUME QuietInv, rpc # "idle", wpc = "idle", limit = writeSeq, readSeq < limit
  PROVE  Published
BY RingAssumption DEF QuietInv, Retained, Window, TypeOK, Published

(* Every action keeps the ring full and the reader inside it.               *)
LEMMA QuietStep == QuietInv /\ [Next]_vars => QuietInv'
<1> SUFFICES ASSUME QuietInv, [Next]_vars PROVE QuietInv'
  OBVIOUS
<1> USE RingAssumption, SlotInSlots
<1>0. TypeOK /\ TypeOK' /\ Slot(writeSeq) \in Slots
  BY TypeStep DEF QuietInv, TypeOK
<1>1. CASE WriteBegin
  <2>1. /\ wpc = "idle" /\ wpc' = "write"
        /\ UNCHANGED <<writeSeq, slotSeq, shared, active, rpc, readSeq, limit>>
    BY <1>1 DEF WriteBegin, rvars
  <2>2. Retained'
    BY <1>0, <2>1 DEF QuietInv, Retained, TypeOK
  <2>3. Window' /\ QuietDrainIsComplete'
    BY <2>1 DEF QuietInv, Window, QuietDrainIsComplete
  <2> QED BY <1>0, <2>2, <2>3 DEF QuietInv
<1>2. CASE StoreMark \/ PublishSlot
  <2>1. /\ wpc = "write" /\ wpc' \in {"write", "published"}
        /\ UNCHANGED <<writeSeq, shared, active, rpc, readSeq, limit>>
        /\ \A t \in Slots \ {Slot(writeSeq)} : slotSeq'[t] = slotSeq[t]
        /\ wpc' = "published" => slotSeq'[Slot(writeSeq)] = writeSeq
    BY <1>0, <1>2 DEF StoreMark, PublishSlot, rvars, TypeOK
  <2>2. ASSUME NEW n \in 0..(writeSeq - 1), writeSeq < n + Capacity
        PROVE  slotSeq'[Slot(n)] = n
    <3>1. n \in Nat /\ n < writeSeq /\ Slot(n) \in Slots
      BY <1>0, <2>2 DEF TypeOK
    <3>2. Slot(n) # Slot(writeSeq)
      BY <1>0, <2>2, <3>1, SlotsDiffer DEF TypeOK
    <3>3. slotSeq[Slot(n)] = n
      BY <2>1, <2>2 DEF QuietInv, Retained
    <3> QED BY <2>1, <3>1, <3>2, <3>3
  <2>3. Retained'
    BY <2>1, <2>2 DEF Retained
  <2>4. Window' /\ QuietDrainIsComplete'
    BY <2>1 DEF QuietInv, Window, QuietDrainIsComplete
  <2> QED BY <1>0, <2>3, <2>4 DEF QuietInv
<1>3. CASE PublishSeq
  <2>1. /\ wpc = "published" /\ wpc' = "idle" /\ writeSeq' = writeSeq + 1
        /\ UNCHANGED <<slotSeq, shared, active, rpc, readSeq, limit>>
    BY <1>3 DEF PublishSeq, rvars
  <2>2. slotSeq[Slot(writeSeq)] = writeSeq
    BY <2>1 DEF QuietInv, Window
  <2>3. Retained'
    <3>1. ASSUME NEW n \in 0..writeSeq, writeSeq + 1 <= n + Capacity
          PROVE  slotSeq[Slot(n)] = n
      <4>1. CASE n = writeSeq
        BY <2>2, <4>1
      <4>2. CASE n # writeSeq
        <5>1. n \in 0..(writeSeq - 1) /\ writeSeq < n + Capacity
          BY <1>0, <3>1, <4>2 DEF TypeOK
        <5> QED BY <2>1, <5>1 DEF QuietInv, Retained
      <4> QED BY <4>1, <4>2
    <3>2. 0..(writeSeq' - 1) = 0..writeSeq
      BY <1>0, <2>1 DEF TypeOK
    <3> QED BY <2>1, <3>1, <3>2 DEF Retained
  <2>4. Window' /\ QuietDrainIsComplete'
    BY <1>0, <2>1 DEF QuietInv, Window, QuietDrainIsComplete, TypeOK
  <2> QED BY <1>0, <2>3, <2>4 DEF QuietInv
<1>4. ASSUME NEW w \in Words, StoreWord(w) PROVE QuietInv'
  BY <1>0, <1>4
  DEF StoreWord, rvars, QuietInv, Retained, Window, QuietDrainIsComplete
<1>5. CASE OpenDrain \/ DropDrain \/ DrainReturns
  <2>1. UNCHANGED <<writeSeq, slotSeq, wpc, limit>> /\ rpc' = "idle"
    BY <1>5 DEF OpenDrain, DropDrain, DrainReturns, wvars, rvars
  <2>2. Retained' /\ QuietDrainIsComplete'
    BY <2>1 DEF QuietInv, Retained, QuietDrainIsComplete
  <2>3. Window'
    BY <1>0, <1>5, <2>1 DEF OpenDrain, DropDrain, DrainReturns, rvars, QuietInv, Window, TypeOK
  <2> QED BY <1>0, <2>2, <2>3 DEF QuietInv
<1>6. CASE DrainCall \/ SimulatorDrainCall
  BY <1>0, <1>6, CollectQuiet DEF DrainCall, SimulatorDrainCall, QuietInv, Window, TypeOK
<1>7. CASE CheckSlot
  <2>1. /\ UNCHANGED <<writeSeq, slotSeq, wpc, shared, active, readSeq, limit>>
        /\ rpc = "check" /\ rpc' # "idle" /\ (rpc' = "read" => readSeq < limit)
        /\ rpc' = "done" => ~(readSeq < limit /\ Published)
    BY <1>7 DEF CheckSlot, wvars
  <2>2. Retained' /\ Window'
    BY <2>1 DEF QuietInv, Retained, Window
  <2>3. QuietDrainIsComplete'
    BY <1>0, <2>1, StillPublished DEF QuietInv, QuietDrainIsComplete, Window, TypeOK
  <2> QED BY <1>0, <2>2, <2>3 DEF QuietInv
<1>8. ASSUME NEW w \in Words, ReadWord(w) PROVE QuietInv'
  BY <1>0, <1>8
  DEF ReadWord, wvars, QuietInv, Retained, Window, QuietDrainIsComplete
<1>9. CASE Recheck
  <2>1. UNCHANGED <<writeSeq, slotSeq, wpc, shared, active, limit>> /\ rpc = "read"
    BY <1>9 DEF Recheck, wvars
  <2>2. Retained'
    BY <2>1 DEF QuietInv, Retained
  <2>3. CASE Published
    <3>1. readSeq' = readSeq + 1 /\ rpc' = "check"
      BY <1>9, <2>3 DEF Recheck
    <3> QED BY <1>0, <2>1, <2>2, <3>1 DEF QuietInv, Window, QuietDrainIsComplete, TypeOK
  <2>4. CASE ~Published
    <3>1. readSeq' = readSeq /\ rpc' = "done"
      BY <1>9, <2>4 DEF Recheck
    <3>2. Window'
      BY <2>1, <3>1 DEF QuietInv, Window
    <3>3. QuietDrainIsComplete'
      BY <1>0, <2>1, <2>4, <3>1, StillPublished
      DEF QuietInv, QuietDrainIsComplete, Window, TypeOK
    <3> QED BY <1>0, <2>2, <3>2, <3>3 DEF QuietInv
  <2> QED BY <2>3, <2>4
<1>10. CASE UNCHANGED vars
  BY <1>0, <1>10
  DEF vars, wvars, rvars, QuietInv, Retained, Window, QuietDrainIsComplete
<1> QED
  BY <1>1, <1>2, <1>3, <1>4, <1>5, <1>6, <1>7, <1>8, <1>9, <1>10 DEF Next, Writer, Collect

(* A drain during which no event was written or being written has read      *)
(* every event up to write_seq, on any memory model.                        *)
THEOREM QuietDrainReadsAll == Spec => []QuietDrainIsComplete
<1>1. Init => QuietInv
  BY TypeInit, RingAssumption
  DEF Init, QuietInv, Retained, Window, QuietDrainIsComplete
<1>2. QuietInv => QuietDrainIsComplete
  BY DEF QuietInv
<1> QED BY <1>1, <1>2, QuietStep, PTL DEF Spec
=============================================================================
