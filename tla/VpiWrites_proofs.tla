-------------------------- MODULE VpiWrites_proofs --------------------------
(***************************************************************************)
(* For every set of signals, every number of writes and any depth of       *)
(* nested flushes: an edge that is replayed sees the data it was written   *)
(* with.                                                                   *)
(***************************************************************************)
EXTENDS VpiWrites, SequenceTheorems, TLAPS

-----------------------------------------------------------------------------
(* Lemmas on the operators of the model                                    *)

\* A map of deposits is a function from some signals to levels.
LEMMA DepositsDef ==
    ASSUME NEW d
    PROVE  d \in Deposits <=> \E D \in SUBSET Sigs : d \in [D -> Levels]
  BY DEF Deposits

\* What is known of one.
LEMMA DepositsFacts ==
    ASSUME NEW d \in Deposits
    PROVE  /\ d \in [DOMAIN d -> Levels] /\ DOMAIN d \subseteq Sigs
           /\ \A s \in DOMAIN d : d[s] \in Levels
  BY DepositsDef

\* The empty map.
LEMMA NoDeposits == <<>> \in Deposits /\ DOMAIN <<>> = {}
  <1>1. <<>> \in [{} -> Levels] /\ DOMAIN <<>> = {}
    OBVIOUS
  <1> QED  BY <1>1, DepositsDef

\* Putting deposits over others gives deposits, the newer ones winning.
LEMMA OverDeposits ==
    ASSUME NEW f \in Deposits, NEW g \in Deposits
    PROVE  /\ Over(f, g) \in Deposits /\ DOMAIN Over(f, g) = DOMAIN f \cup DOMAIN g
           /\ \A s \in DOMAIN g : Over(f, g)[s] = g[s]
           /\ \A s \in DOMAIN f \ DOMAIN g : Over(f, g)[s] = f[s]
  <1>1. /\ DOMAIN Over(f, g) = DOMAIN f \cup DOMAIN g
        /\ \A s \in DOMAIN g : Over(f, g)[s] = g[s]
        /\ \A s \in DOMAIN f \ DOMAIN g : Over(f, g)[s] = f[s]
    BY DEF Over
  <1>2. Over(f, g) \in [DOMAIN f \cup DOMAIN g -> Levels]
    BY DepositsFacts DEF Over
  <1> QED  BY <1>1, <1>2, DepositsFacts, DepositsDef

\* One deposit.
LEMMA OneDeposit ==
    ASSUME NEW s \in Sigs, NEW v \in Levels
    PROVE  One(s, v) \in Deposits /\ DOMAIN One(s, v) = {s} /\ One(s, v)[s] = v
  <1>1. One(s, v) \in [{s} -> Levels] /\ DOMAIN One(s, v) = {s} /\ One(s, v)[s] = v
    BY DEF One
  <1> QED  BY <1>1, DepositsDef

-----------------------------------------------------------------------------
(* The inductive invariant                                                 *)

\* A batch puts back every signal that was written when it closed, to the
\* value it had then.
Faithful(b) ==
  DOMAIN b.raw \subseteq DOMAIN b.deposits /\ \A s \in DOMAIN b.raw : b.deposits[s] = b.raw[s]

\* Pending writes have reached the backend and nothing has settled since, and
\* what is queued, pending or being replayed, is faithful.
DataKept ==
  /\ ~pend.settle => pend = NoWrites
  /\ pc = "replay" => ~pend.settle
  /\ hist.wrote = DOMAIN pend.deposits
  /\ \A s \in DOMAIN pend.deposits : val[s] = pend.deposits[s]
  /\ \A i \in DOMAIN pend.batches : Faithful(pend.batches[i])
  /\ \A k \in DOMAIN stack : \A i \in DOMAIN stack[k].todo : Faithful(stack[k].todo[i])

Inv == TypeOK /\ DataKept /\ EdgeSeesItsData

-----------------------------------------------------------------------------
(* Recording a write                                                       *)

\* The pending writes p are those of now and one of v to s.
Recorded(p, s, v) ==
  /\ p \in Writes /\ (p.open => p.batches # <<>>) /\ p.settle = TRUE
  /\ DOMAIN p.deposits = DOMAIN pend.deposits \cup {s}
  /\ p.deposits[s] = v
  /\ \A x \in DOMAIN pend.deposits \ {s} : p.deposits[x] = pend.deposits[x]
  /\ \A i \in DOMAIN p.batches : Faithful(p.batches[i])

\* Recording a write keeps the pending writes well-formed and faithful.
LEMMA RecordFacts ==
    ASSUME TypeOK, DataKept, NEW s \in Sigs, NEW v \in Levels
    PROVE  Recorded(Record(pend, s, val[s], v), s, v)
  <1> DEFINE p == Record(pend, s, val[s], v)
             transition == EventTransition(s, val[s], v)
             active == IF IsActiveEdge(Kind[s], val[s], v) THEN {s} ELSE {}
             open == StaysOpen(pend, s, val[s], v)
             deposits == Over(pend.deposits, One(s, v))
             raw == [x \in hist.wrote \cup {s} |-> IF x = s THEN v ELSE val[x]]
             last == pend.batches[Len(pend.batches)]
             joined == [active |-> last.active \cup active,
                        transitions |-> last.transitions \cup IF transition THEN {s} ELSE {},
                        deposits |-> deposits, raw |-> raw]
             fresh == [active |-> active, transitions |-> {s}, deposits |-> deposits,
                       raw |-> raw]
  <1>1. /\ pend.deposits \in Deposits /\ pend.batches \in Seq(EdgeBatch)
        /\ (pend.open => pend.batches # <<>>) /\ pend.open \in BOOLEAN
    BY DEF TypeOK, Writes
  <1>2. /\ deposits \in Deposits /\ DOMAIN deposits = DOMAIN pend.deposits \cup {s}
        /\ deposits[s] = v
        /\ \A x \in DOMAIN pend.deposits \ {s} : deposits[x] = pend.deposits[x]
    <2>1. One(s, v) \in Deposits /\ DOMAIN One(s, v) = {s} /\ One(s, v)[s] = v
      BY OneDeposit
    <2>2. /\ deposits \in Deposits
          /\ DOMAIN deposits = DOMAIN pend.deposits \cup DOMAIN One(s, v)
          /\ \A x \in DOMAIN One(s, v) : deposits[x] = One(s, v)[x]
          /\ \A x \in DOMAIN pend.deposits \ DOMAIN One(s, v) : deposits[x] = pend.deposits[x]
      BY <1>1, <2>1, OverDeposits
    <2> HIDE DEF deposits
    <2> QED  BY <2>1, <2>2
  <1>3. raw \in Deposits /\ DOMAIN raw = DOMAIN deposits /\ \A x \in DOMAIN raw : deposits[x] = raw[x]
    <2>1. raw \in [hist.wrote \cup {s} -> Levels] /\ hist.wrote \cup {s} \in SUBSET Sigs
      BY DEF TypeOK, History
    <2>2. raw \in Deposits
      BY <2>1, DepositsDef
    <2>3. DOMAIN raw = DOMAIN deposits
      BY <1>2 DEF DataKept
    <2>4. \A x \in DOMAIN raw : deposits[x] = raw[x]
      BY <1>2, <2>3 DEF DataKept
    <2> QED  BY <2>2, <2>3, <2>4
  <1>4. transition \in BOOLEAN /\ open \in BOOLEAN /\ (open => pend.open)
    BY <1>1 DEF EventTransition, StaysOpen
  <1>5. active \subseteq Sigs
    OBVIOUS
  <1>6. fresh \in EdgeBatch /\ Faithful(fresh)
    BY <1>2, <1>3, <1>5 DEF EdgeBatch, Faithful
  <1>7. p.deposits = deposits /\ p.open = (open \/ transition) /\ p.settle = TRUE
    BY DEF Record
  <1>8. p = [deposits |-> p.deposits, batches |-> p.batches, open |-> p.open,
             settle |-> p.settle]
    BY DEF Record
  <1>9. CASE open
    <2>1. Len(pend.batches) \in 1..Len(pend.batches) /\ last \in EdgeBatch
      BY <1>1, <1>4, <1>9
    <2>2. joined \in EdgeBatch /\ Faithful(joined)
      BY <1>2, <1>3, <1>5, <2>1 DEF EdgeBatch, Faithful
    <2>3. p.batches = [pend.batches EXCEPT ![Len(pend.batches)] = joined]
      BY <1>9 DEF Record, OpenBatch
    <2> HIDE DEF joined, p, deposits, raw, fresh, transition, open, active
    <2>4. /\ p.batches \in Seq(EdgeBatch) /\ p.batches # <<>>
          /\ \A i \in DOMAIN p.batches : p.batches[i] = pend.batches[i] \/ p.batches[i] = joined
          /\ DOMAIN p.batches = DOMAIN pend.batches
      BY <1>1, <2>1, <2>2, <2>3
    <2>5. \A i \in DOMAIN p.batches : Faithful(p.batches[i])
      BY <2>2, <2>4 DEF DataKept
    <2>6. p.open \in BOOLEAN
      BY <1>7
    <2>7. p \in Writes
      BY <1>2, <1>7, <1>8, <2>4, <2>6 DEF Writes
    <2>8. Recorded(p, s, v)
      BY <1>2, <1>7, <2>4, <2>5, <2>7 DEF Recorded
    <2> QED  BY <2>8 DEF p
  <1>10. CASE ~open /\ transition
    <2>1. p.batches = Append(pend.batches, fresh)
      BY <1>10 DEF Record
    <2> HIDE DEF p, deposits, raw, fresh, transition, open, active
    <2>2. /\ p.batches \in Seq(EdgeBatch) /\ p.batches # <<>>
          /\ \A i \in DOMAIN p.batches :
               p.batches[i] = fresh \/ (i \in DOMAIN pend.batches /\ p.batches[i] = pend.batches[i])
      BY <1>1, <1>6, <2>1
    <2>3. \A i \in DOMAIN p.batches : Faithful(p.batches[i])
      BY <1>6, <2>2 DEF DataKept
    <2>4. p.open \in BOOLEAN
      BY <1>7
    <2>5. p \in Writes
      BY <1>2, <1>7, <1>8, <2>2, <2>4 DEF Writes
    <2>8. Recorded(p, s, v)
      BY <1>2, <1>7, <2>2, <2>3, <2>5 DEF Recorded
    <2> QED  BY <2>8 DEF p
  <1>11. CASE ~open /\ ~transition
    <2>1. p.batches = pend.batches
      BY <1>11 DEF Record
    <2> HIDE DEF p, deposits, raw, fresh, transition, open, active
    <2>2. p.open = FALSE
      BY <1>7, <1>11
    <2>3. p \in Writes
      BY <1>1, <1>2, <1>7, <1>8, <2>1, <2>2 DEF Writes
    <2>4. \A i \in DOMAIN p.batches : Faithful(p.batches[i])
      BY <2>1 DEF DataKept
    <2>8. Recorded(p, s, v)
      BY <1>2, <1>7, <2>2, <2>3, <2>4 DEF Recorded
    <2> QED  BY <2>8 DEF p
  <1> QED  BY <1>9, <1>10, <1>11

\* The note of a write in the history.
LEMMA NoteFacts ==
    ASSUME TypeOK, NEW s \in Sigs, NEW old, NEW new
    PROVE  /\ Note(s, old, new) \in History
           /\ Note(s, old, new).wrote = hist.wrote \cup {s} /\ Note(s, old, new).ran = {}
  <1>1. hist \in History /\ Edge(s, old, new) \in Int
    BY DEF TypeOK, Edge
  <1>2. hist.due[s] + Edge(s, old, new) \in Int
    BY <1>1 DEF History
  <1> DEFINE due == [hist.due EXCEPT ![s] = @ + Edge(s, old, new)]
  <1>3. due \in [Sigs -> Int]
    BY <1>1, <1>2 DEF History
  <1>4. Note(s, old, new) = [hist EXCEPT !.due = due, !.ran = {}, !.wrote = @ \cup {s}]
    BY DEF Note
  <1> HIDE DEF due
  <1>5. hist.wrote \cup {s} \in SUBSET Sigs /\ {} \in SUBSET Sigs
    BY <1>1 DEF History
  <1>6. /\ [hist EXCEPT !.due = due] \in History
        /\ [hist EXCEPT !.due = due].wrote = hist.wrote
    BY <1>1, <1>3 DEF History
  <1>7. Note(s, old, new) = [[hist EXCEPT !.due = due] EXCEPT !.ran = {}, !.wrote = @ \cup {s}]
    BY <1>4
  <1> QED  BY <1>5, <1>6, <1>7 DEF History

\* Other strays in the history change nothing else of it.
LEMMA StrayFacts ==
    ASSUME NEW h \in History, NEW S \in SUBSET Sigs
    PROVE  /\ [h EXCEPT !.stray = S] \in History
           /\ [h EXCEPT !.stray = S].wrote = h.wrote /\ [h EXCEPT !.stray = S].ran = h.ran
  BY DEF History

\* The strays are signals.
LEMMA StraysAreSignals ==
    ASSUME TypeOK, NEW s \in Sigs
    PROVE  Deposited(s) \in SUBSET Sigs /\ \A missed : Strays(s, missed) \in SUBSET Sigs
  <1>1. hist.stray \in SUBSET Sigs
    BY DEF TypeOK, History
  <1> QED  BY <1>1 DEF Deposited, Strays

\* A write of foreign code, whether a deposit, a force or a release.
LEMMA WriteKeeps ==
    ASSUME Inv, NEW s \in Sigs, NEW v \in Levels, Foreign, Write(s, v), AfterPut,
           UNCHANGED <<stack, running, finish>>, puts' \in Nat,
           forced' \in [Sigs -> [on : BOOLEAN, value : Levels, deposited : Levels]],
           hist' \in History, hist'.wrote = hist.wrote \cup {s}, hist'.ran = {}
    PROVE  Inv'
  <1> USE DEF Inv
  <1>1. pend' = Record(pend, s, val[s], v) /\ val' = [val EXCEPT ![s] = v]
    BY DEF Write
  <1>2. Recorded(pend', s, v)
    BY <1>1, RecordFacts
  <1>3. /\ pend' \in Writes /\ (pend'.open => pend'.batches # <<>>) /\ pend'.settle = TRUE
        /\ DOMAIN pend'.deposits = DOMAIN pend.deposits \cup {s} /\ pend'.deposits[s] = v
        /\ \A x \in DOMAIN pend.deposits \ {s} : pend'.deposits[x] = pend.deposits[x]
        /\ \A i \in DOMAIN pend'.batches : Faithful(pend'.batches[i])
    BY <1>2 DEF Recorded
  <1>4. pc \in {"host", "callback"} /\ pc' \in {"callback", "begin"} /\ (running => pc' = pc)
        /\ (~running => pc' = "begin")
    BY DEF Foreign, AfterPut, TypeOK
  <1>5. val' \in [Sigs -> Levels] /\ val'[s] = v /\ \A x \in Sigs \ {s} : val'[x] = val[x]
    BY <1>1 DEF TypeOK
  <1>6. TypeOK'
    BY <1>3, <1>4, <1>5 DEF TypeOK
  <1>7. DOMAIN pend.deposits \subseteq Sigs
    BY DepositsFacts DEF TypeOK, Writes
  <1>8. DataKept'
    BY <1>3, <1>4, <1>5, <1>7 DEF DataKept
  <1>9. EdgeSeesItsData'
    BY DEF EdgeSeesItsData
  <1> QED  BY <1>6, <1>8, <1>9

\* A step that writes nothing and executes no edge.
LEMMA QuietStepKeeps ==
    ASSUME Inv, UNCHANGED <<val, pend, stack>>, TypeOK', pc' = "replay" => ~pend.settle,
           hist'.wrote = hist.wrote,
           UNCHANGED <<forced, hist>> \/ hist'.ran = {}
    PROVE  Inv'
  <1>1. DataKept'
    BY DEF Inv, DataKept
  <1>2. EdgeSeesItsData'
    BY DEF Inv, EdgeSeesItsData
  <1> QED  BY <1>1, <1>2 DEF Inv

\* A deposit, on a forced signal or not.
LEMMA DepositKeeps == ASSUME Inv, NEW s \in Sigs, NEW v \in Levels, Deposit(s, v) PROVE Inv'
  <1>1. Foreign /\ puts' = puts + 1 /\ UNCHANGED <<stack, running, finish>>
    BY DEF Deposit, CountPut
  <1>2. puts' \in Nat
    BY <1>1 DEF Inv, TypeOK
  <1>3. CASE forced[s].on
    <2>1. /\ forced' = [forced EXCEPT ![s].deposited = v]
          /\ hist' = [hist EXCEPT !.last[s] = v, !.ran = {}, !.stray = Deposited(s)]
          /\ UNCHANGED <<val, pend, pc>>
      BY <1>3 DEF Deposit
    <2>2. forced' \in [Sigs -> [on : BOOLEAN, value : Levels, deposited : Levels]]
      BY <2>1 DEF Inv, TypeOK
    <2>3. hist' \in History /\ hist'.wrote = hist.wrote /\ hist'.ran = {}
      <3>1. PICK S \in SUBSET Sigs : S = Deposited(s)
        BY StraysAreSignals DEF Inv
      <3>2. hist' = [hist EXCEPT !.last[s] = v, !.ran = {}, !.stray = S]
        BY <2>1, <3>1
      <3>3. [hist.last EXCEPT ![s] = v] \in [Sigs -> Levels] /\ hist \in History
        BY DEF Inv, TypeOK, History
      <3> QED  BY <3>2, <3>3 DEF History
    <2>4. TypeOK'
      BY <1>1, <1>2, <2>1, <2>2, <2>3 DEF Inv, TypeOK
    <2>5. pc' # "replay"
      BY <1>1, <2>1 DEF Foreign
    <2> QED  BY <1>1, <2>1, <2>3, <2>4, <2>5, QuietStepKeeps
  <1>4. CASE ~forced[s].on
    <2>1. /\ Write(s, v) /\ AfterPut /\ UNCHANGED forced
          /\ hist' = [Note(s, val[s], v) EXCEPT !.last[s] = v, !.stray = Deposited(s)]
      BY <1>4 DEF Deposit
    <2>2. PICK h \in History : /\ h = Note(s, val[s], v)
                               /\ h.wrote = hist.wrote \cup {s} /\ h.ran = {}
      BY NoteFacts DEF Inv
    <2>3. PICK S \in SUBSET Sigs : hist' = [h EXCEPT !.last[s] = v, !.stray = S]
      BY <2>1, <2>2, StraysAreSignals DEF Inv
    <2>4. hist' \in History /\ hist'.wrote = hist.wrote \cup {s} /\ hist'.ran = {}
      <3>1. [h.last EXCEPT ![s] = v] \in [Sigs -> Levels]
        BY DEF History
      <3> QED  BY <2>2, <2>3, <3>1 DEF History
    <2>5. forced' \in [Sigs -> [on : BOOLEAN, value : Levels, deposited : Levels]]
      BY <2>1 DEF Inv, TypeOK
    <2> QED  BY <1>1, <1>2, <2>1, <2>4, <2>5, WriteKeeps
  <1> QED  BY <1>3, <1>4

\* A force.
LEMMA ForceKeeps == ASSUME Inv, NEW s \in Sigs, NEW v \in Levels, ForceValue(s, v) PROVE Inv'
  <1>1. /\ Foreign /\ puts' = puts + 1 /\ UNCHANGED <<stack, running, finish>>
        /\ Write(s, v) /\ AfterPut
    BY DEF ForceValue, CountPut
  <1>2. puts' \in Nat
    BY <1>1 DEF Inv, TypeOK
  <1>3. forced' \in [Sigs -> [on : BOOLEAN, value : Levels, deposited : Levels]]
    BY DEF Inv, TypeOK, ForceValue
  <1>4. /\ Note(s, val[s], v) \in History
        /\ Note(s, val[s], v).wrote = hist.wrote \cup {s} /\ Note(s, val[s], v).ran = {}
    BY NoteFacts DEF Inv
  <1>5. PICK S \in SUBSET Sigs : hist' = [Note(s, val[s], v) EXCEPT !.stray = S]
    BY StraysAreSignals DEF Inv, ForceValue
  <1>6. hist' \in History /\ hist'.wrote = hist.wrote \cup {s} /\ hist'.ran = {}
    BY <1>4, <1>5, StrayFacts
  <1> QED  BY <1>1, <1>2, <1>3, <1>6, WriteKeeps

\* A release, of a forced signal or not.
LEMMA ReleaseKeeps == ASSUME Inv, NEW s \in Sigs, Release(s) PROVE Inv'
  <1>1. Foreign /\ puts' = puts + 1 /\ UNCHANGED <<stack, running, finish>> /\ AfterPut
    BY DEF Release, CountPut
  <1>2. puts' \in Nat
    BY <1>1 DEF Inv, TypeOK
  <1>3. CASE forced[s].on
    <2>1. /\ forced' = [forced EXCEPT ![s] = NotForced] /\ Write(s, ReleasedValue(s))
          /\ hist' = [Note(s, val[s], ReleasedValue(s)) EXCEPT !.stray = Strays(s, FALSE)]
      BY <1>3 DEF Release
    <2>2. ReleasedValue(s) \in Levels
      BY DEF ReleasedValue, Inv, TypeOK
    <2>3. forced' \in [Sigs -> [on : BOOLEAN, value : Levels, deposited : Levels]]
      BY <2>1, VpiWritesAssumption DEF NotForced, Inv, TypeOK
    <2>4. hist' \in History /\ hist'.wrote = hist.wrote \cup {s} /\ hist'.ran = {}
      <3>1. PICK h \in History : /\ h = Note(s, val[s], ReleasedValue(s))
                                 /\ h.wrote = hist.wrote \cup {s} /\ h.ran = {}
        BY NoteFacts DEF Inv
      <3>2. PICK S \in SUBSET Sigs : hist' = [h EXCEPT !.stray = S]
        BY <2>1, <3>1, StraysAreSignals DEF Inv
      <3> QED  BY <3>1, <3>2, StrayFacts
    <2> QED  BY <1>1, <1>2, <2>1, <2>2, <2>3, <2>4, WriteKeeps
  <1>4. CASE ~forced[s].on
    <2>1. UNCHANGED <<forced, val, pend, hist>>
      BY <1>4 DEF Release
    <2>2. pc \in {"host", "callback"} /\ pc' = IF running THEN pc ELSE "begin"
      BY <1>1 DEF Foreign, AfterPut
    <2>3. TypeOK'
      BY <1>1, <1>2, <2>1, <2>2 DEF Inv, TypeOK
    <2> QED  BY <1>1, <2>1, <2>2, <2>3, QuietStepKeeps
  <1> QED  BY <1>3, <1>4

-----------------------------------------------------------------------------
(* The stack of flushes                                                    *)

\* Every batch of the flushes in st is faithful.
AllFaithful(st) ==
  \A k \in DOMAIN st : \A i \in DOMAIN st[k].todo : Faithful(st[k].todo[i])

\* The outer flushes of the stack.
LEMMA PrefixFacts ==
    ASSUME TypeOK, NEW n \in Nat, n < Len(stack)
    PROVE  /\ SubSeq(stack, 1, n) \in Seq(Frame) /\ Len(SubSeq(stack, 1, n)) = n
           /\ \A k \in DOMAIN SubSeq(stack, 1, n) :
                k \in DOMAIN stack /\ SubSeq(stack, 1, n)[k] = stack[k]
  <1>1. stack \in Seq(Frame) /\ DOMAIN stack = 1..Len(stack) /\ Len(stack) \in Nat
    BY DEF TypeOK
  <1>2. \A k \in 1..n : k \in DOMAIN stack /\ stack[k] \in Frame
    BY <1>1
  <1>3. /\ SubSeq(stack, 1, n) \in Seq(Frame)
        /\ Len(SubSeq(stack, 1, n)) = IF 1 <= n THEN n - 1 + 1 ELSE 0
        /\ \A i \in 1..(n - 1 + 1) : SubSeq(stack, 1, n)[i] = stack[1 + i - 1]
    BY <1>2, SubSeqProperties
  <1> DEFINE q == SubSeq(stack, 1, n)
  <1>4. q \in Seq(Frame) /\ Len(q) = n /\ \A i \in 1..n : q[i] = stack[i]
    BY <1>3
  <1> HIDE DEF q
  <1>5. DOMAIN q = 1..n
    BY <1>4
  <1> QED  BY <1>2, <1>4, <1>5 DEF q

\* The flush in progress.
LEMMA TopFacts ==
    ASSUME TypeOK, stack # <<>>
    PROVE  /\ Top \in Frame /\ Len(stack) \in Nat \ {0} /\ Len(stack) \in DOMAIN stack
           /\ Outer \in Seq(Frame) /\ Len(Outer) = Len(stack) - 1
           /\ \A k \in DOMAIN Outer : k \in DOMAIN stack /\ Outer[k] = stack[k]
  <1>1. stack \in Seq(Frame) /\ Len(stack) \in Nat \ {0} /\ Len(stack) \in DOMAIN stack
    BY DEF TypeOK
  <1>2. Top \in Frame
    BY <1>1 DEF Top
  <1>3. Len(stack) - 1 \in Nat /\ Len(stack) - 1 < Len(stack)
    BY <1>1
  <1> QED  BY <1>1, <1>2, <1>3, PrefixFacts DEF Outer

\* Another state of the flush in progress.
LEMMA SetTopFacts ==
    ASSUME TypeOK, stack # <<>>, NEW f \in Frame
    PROVE  /\ SetTop(f) \in Seq(Frame) /\ Len(SetTop(f)) = Len(stack) /\ SetTop(f) # <<>>
           /\ \A k \in DOMAIN SetTop(f) :
                SetTop(f)[k] = f \/ (k \in DOMAIN stack /\ SetTop(f)[k] = stack[k])
  <1>1. /\ Outer \in Seq(Frame) /\ Len(Outer) = Len(stack) - 1 /\ Len(stack) \in Nat \ {0}
        /\ \A k \in DOMAIN Outer : k \in DOMAIN stack /\ Outer[k] = stack[k]
    BY TopFacts
  <1> HIDE DEF Outer
  <1> QED  BY <1>1 DEF SetTop

\* It keeps the batches faithful when its own are.
LEMMA SetTopFaithful ==
    ASSUME TypeOK, stack # <<>>, AllFaithful(stack), NEW f \in Frame,
           \A i \in DOMAIN f.todo : Faithful(f.todo[i])
    PROVE  AllFaithful(SetTop(f))
  BY SetTopFacts DEF AllFaithful

\* What eval_comb leaves of the values.
LEMMA SettledFacts ==
    ASSUME NEW v, NEW w \in Settled(v)
    PROVE  /\ w \in [Sigs -> Levels]
           /\ \A s \in Sigs \ Driven : ~forced[s].on => w[s] = v[s]
  BY DEF Settled

\* A step after which nothing is pending and control is not at the start of
\* a flush keeps the invariant when it keeps its parts.
LEMMA FlushStep ==
    ASSUME Inv, UNCHANGED <<forced, running, puts>>, finish' \in BOOLEAN,
           val' \in [Sigs -> Levels], pend' = NoWrites, hist'.wrote = {}, hist' \in History,
           stack' \in Seq(Frame), AllFaithful(stack'), EdgeSeesItsData',
           pc' \in {"host", "callback", "replay"},
           pc' = "host" => ~running /\ stack' = <<>>,
           pc' = "callback" => running,
           pc' = "replay" => stack' # <<>>,
           Len(stack') > 1 => running
    PROVE  Inv'
  <1>1. /\ NoWrites \in Writes /\ NoWrites.batches = <<>> /\ ~NoWrites.open
        /\ ~NoWrites.settle /\ DOMAIN NoWrites.deposits = {} /\ DOMAIN NoWrites.batches = {}
    BY NoDeposits DEF NoWrites, Writes
  <1>2. TypeOK'
    BY <1>1 DEF Inv, TypeOK
  <1>3. DataKept'
    BY <1>1 DEF DataKept, AllFaithful
  <1> QED  BY <1>2, <1>3 DEF Inv

\* A flush takes what is pending.
LEMMA BeginFlushKeeps == ASSUME Inv, BeginFlush PROVE Inv'
  <1>1. /\ pc = "begin" /\ pend' = NoWrites
        /\ hist' = [hist EXCEPT !.ran = {}, !.wrote = {}]
        /\ UNCHANGED <<val, forced, running, finish, puts>>
    BY DEF BeginFlush
  <1>2. hist' \in History /\ hist'.ran = {} /\ hist'.wrote = {}
    BY <1>1 DEF Inv, TypeOK, History
  <1>3. EdgeSeesItsData'
    BY <1>2 DEF EdgeSeesItsData
  <1>4. stack \in Seq(Frame) /\ AllFaithful(stack) /\ val \in [Sigs -> Levels] /\ finish \in BOOLEAN
    BY DEF Inv, TypeOK, DataKept, AllFaithful
  <1>5. (stack # <<>> => running) /\ (Len(stack) > 1 => running) /\ running \in BOOLEAN
    BY <1>1 DEF Inv, TypeOK
  <1>6. CASE pend.settle
    <2> DEFINE f == [todo |-> pend.batches, final |-> pend.deposits, overrides |-> <<>>,
                     nested |-> <<>>, turns |-> 0]
    <2>1. stack' = Append(stack, f) /\ pc' = "replay"
      BY <1>6 DEF BeginFlush
    <2>2. f \in Frame /\ f.todo = pend.batches
      BY NoDeposits DEF Frame, Inv, TypeOK, Writes
    <2> HIDE DEF f
    <2>3. /\ stack' \in Seq(Frame) /\ stack' # <<>> /\ Len(stack') = Len(stack) + 1
          /\ \A k \in DOMAIN stack' : stack'[k] = f \/ (k \in DOMAIN stack /\ stack'[k] = stack[k])
      BY <1>4, <2>1, <2>2
    <2>4. AllFaithful(stack')
      BY <1>4, <2>2, <2>3 DEF AllFaithful, Inv, DataKept
    <2>5. Len(stack') > 1 => running
      BY <1>4, <1>5, <2>3
    <2> QED  BY <1>1, <1>2, <1>3, <1>4, <2>1, <2>3, <2>4, <2>5, FlushStep
  <1>7. CASE ~pend.settle
    <2>1. pc' = Returned /\ UNCHANGED stack
      BY <1>7 DEF BeginFlush
    <2>2. (pc' = "callback" /\ running) \/ (pc' = "host" /\ ~running)
      BY <1>5, <2>1 DEF Returned
    <2> QED  BY <1>1, <1>2, <1>3, <1>4, <1>5, <2>1, <2>2, FlushStep
  <1> QED  BY <1>6, <1>7

\* A batch is replayed: its signals are put back to what they were written
\* with, and the settlement leaves them alone.
LEMMA ReplayBatchKeeps == ASSUME Inv, ReplayBatch PROVE Inv'
  <1> DEFINE batch == Head(Top.todo)
             f == [Top EXCEPT !.todo = Tail(@), !.turns = 0]
             restored == Over(batch.deposits, Top.overrides)
             sampled == Sampled(batch, Top.overrides)
             ahead == (hist.ahead \cup DOMAIN Top.final) \ DOMAIN restored
  <1>1. /\ pc = "replay" /\ Top.todo # <<>> /\ val' \in Settled(Over(val, restored))
        /\ stack' = SetTop(f) /\ pc' = IF running THEN "callback" ELSE "replay"
        /\ hist' = [hist EXCEPT !.at = val', !.due = Minus(@, batch.active),
                                !.ran = LiveEdges(batch, Top.overrides),
                                !.ahead = ahead, !.sampled = sampled]
        /\ UNCHANGED <<forced, pend, running, finish, puts>>
    BY DEF ReplayBatch, Restored
  <1>2. stack # <<>> /\ pend = NoWrites /\ AllFaithful(stack) /\ (Len(stack) > 1 => running)
        /\ finish \in BOOLEAN /\ running \in BOOLEAN
    BY <1>1 DEF Inv, TypeOK, DataKept, AllFaithful
  <1>3. Top \in Frame /\ Len(stack) \in DOMAIN stack /\ Top = stack[Len(stack)]
    BY <1>2, TopFacts DEF Inv, Top
  <1>4. Top.todo \in Seq(EdgeBatch) /\ \A i \in DOMAIN Top.todo : Faithful(Top.todo[i])
    BY <1>2, <1>3 DEF Frame, AllFaithful
  <1>5. batch \in EdgeBatch /\ Faithful(batch)
    BY <1>1, <1>4
  <1>6. f \in Frame /\ f.todo = Tail(Top.todo)
    <2>1. Tail(Top.todo) \in Seq(EdgeBatch)
      BY <1>1, <1>4
    <2> QED  BY <1>3, <2>1 DEF Frame
  <1>7. \A i \in DOMAIN f.todo : Faithful(f.todo[i])
    BY <1>1, <1>4, <1>6
  <1> HIDE DEF f
  <1>8. stack' \in Seq(Frame) /\ Len(stack') = Len(stack) /\ stack' # <<>> /\ AllFaithful(stack')
    BY <1>1, <1>2, <1>6, <1>7, SetTopFacts, SetTopFaithful DEF Inv
  <1>9. val' \in [Sigs -> Levels]
    BY <1>1, SettledFacts
  <1>10. sampled \in Deposits
    <2>1. batch.raw \in [DOMAIN batch.raw -> Levels] /\ DOMAIN batch.raw \subseteq Sigs
      BY <1>5, DepositsFacts DEF EdgeBatch
    <2>2. sampled \in [DOMAIN batch.raw \ DOMAIN Top.overrides -> Levels]
      BY <2>1 DEF Sampled
    <2> QED  BY <2>1, <2>2, DepositsDef
  <1>11. Minus(hist.due, batch.active) \in [Sigs -> Int]
    BY DEF Minus, Inv, TypeOK, History
  <1>12. LiveEdges(batch, Top.overrides) \in SUBSET Sigs
    BY <1>5 DEF LiveEdges, EdgeBatch
  <1>13. /\ hist' \in History /\ hist'.at = val' /\ hist'.sampled = sampled
         /\ hist'.wrote = hist.wrote
    <2>1. ahead \in SUBSET Sigs
      BY <1>3, DepositsFacts DEF Inv, TypeOK, History, Frame
    <2> HIDE DEF sampled, batch, ahead
    <2> QED  BY <1>1, <1>9, <1>10, <1>11, <1>12, <2>1 DEF Inv, TypeOK, History
  <1>14. hist'.wrote = {}
    BY <1>2, <1>13, NoDeposits DEF Inv, DataKept, NoWrites
  <1>15. EdgeSeesItsData'
    <2>1. SUFFICES ASSUME NEW s \in DOMAIN sampled \ Driven, ~forced[s].on
                   PROVE  val'[s] = sampled[s]
      BY <1>1, <1>13 DEF EdgeSeesItsData
    <2>2. s \in DOMAIN batch.raw \ DOMAIN Top.overrides /\ sampled[s] = batch.raw[s]
      BY <2>1 DEF Sampled
    <2>3. /\ s \in DOMAIN batch.deposits /\ batch.deposits[s] = batch.raw[s]
          /\ batch.deposits \in Deposits /\ Top.overrides \in Deposits
      BY <1>3, <1>5, <2>2 DEF Faithful, EdgeBatch, Frame
    <2>4. s \in Sigs
      BY <2>3, DepositsFacts
    <2>5. s \in DOMAIN restored /\ restored[s] = batch.deposits[s]
      <3>1. PICK b \in Deposits, o \in Deposits : b = batch.deposits /\ o = Top.overrides
        BY <2>3
      <3>2. s \in DOMAIN b \ DOMAIN o
        BY <2>2, <2>3, <3>1
      <3>3. s \in DOMAIN Over(b, o) /\ Over(b, o)[s] = b[s]
        BY <3>2, OverDeposits
      <3> QED  BY <3>1, <3>3
    <2> HIDE DEF restored, sampled, batch
    <2>6. Over(val, restored)[s] = restored[s]
      BY <2>4, <2>5 DEF Over
    <2>7. val'[s] = Over(val, restored)[s]
      BY <1>1, <2>1, <2>4, SettledFacts
    <2> QED  BY <2>2, <2>3, <2>5, <2>6, <2>7
  <1>16. Len(stack') > 1 => running
    BY <1>2, <1>8
  <1> QED  BY <1>1, <1>2, <1>8, <1>9, <1>13, <1>14, <1>15, <1>16, FlushStep

\* A flush that gives up leaves nothing on the stack.
LEMMA UnwindKeeps ==
    ASSUME Inv, NEW h \in History, Unwind(h), UNCHANGED <<forced, running, puts>>,
           finish' \in BOOLEAN, val' \in [Sigs -> Levels], TypeOK, UNCHANGED pend,
           h.wrote = hist.wrote, UNCHANGED val \/ pend = NoWrites
    PROVE  Inv'
  <1>1. stack' = <<>> /\ pc' = Returned /\ hist' = [h EXCEPT !.cut = TRUE, !.ran = {}]
    BY DEF Unwind
  <1>2. hist' \in History /\ hist'.ran = {} /\ hist'.wrote = hist.wrote
    BY <1>1 DEF History
  <1>3. (pc' = "callback" /\ running) \/ (pc' = "host" /\ ~running)
    BY <1>1 DEF Returned, TypeOK
  <1>4. stack' \in Seq(Frame) /\ ~(Len(stack') > 1) /\ DOMAIN stack' = {}
    BY <1>1
  <1>5. TypeOK'
    BY <1>1, <1>2, <1>3, <1>4 DEF TypeOK
  <1>6. DOMAIN NoWrites.deposits = {}
    BY NoDeposits DEF NoWrites
  <1>7. DataKept'
    BY <1>2, <1>3, <1>4, <1>6 DEF Inv, DataKept
  <1>8. EdgeSeesItsData'
    BY <1>2 DEF EdgeSeesItsData
  <1> QED  BY <1>5, <1>7, <1>8 DEF Inv

\* A finish cuts the flush short.
LEMMA FinishSeenKeeps == ASSUME Inv, FinishSeen PROVE Inv'
  <1>1. Unwind(hist) /\ UNCHANGED <<val, forced, pend, running, finish, puts>>
    BY DEF FinishSeen
  <1>2. hist \in History /\ TypeOK /\ finish \in BOOLEAN /\ val \in [Sigs -> Levels]
    BY DEF Inv, TypeOK
  <1> QED  BY <1>1, <1>2, UnwindKeeps

\* A failing settlement does.
LEMMA SettleFailsKeeps == ASSUME Inv, SettleFails PROVE Inv'
  <1>1. /\ Unwind(hist) /\ UNCHANGED <<forced, pend, running, puts>> /\ finish' = TRUE
        /\ pc = "replay"
    BY DEF SettleFails
  <1>2. \E v : val' \in Settled(v)
    BY DEF SettleFails
  <1>3. val' \in [Sigs -> Levels]
    BY <1>2, SettledFacts
  <1>4. hist \in History /\ TypeOK /\ pend = NoWrites
    BY <1>1 DEF Inv, TypeOK, DataKept
  <1> QED  BY <1>1, <1>3, <1>4, UnwindKeeps

\* So do too many settlements; the pending writes are dropped.
LEMMA TooManySettlementsKeeps == ASSUME Inv, TooManySettlements PROVE Inv'
  <1>1. /\ pend' = NoWrites /\ finish' = TRUE /\ stack' = <<>> /\ pc' = Returned
        /\ hist' = [[hist EXCEPT !.wrote = {}] EXCEPT !.cut = TRUE, !.ran = {}]
        /\ UNCHANGED <<val, forced, running, puts>>
    BY DEF TooManySettlements, Unwind
  <1>2. hist' \in History /\ hist'.ran = {} /\ hist'.wrote = {}
    BY <1>1 DEF Inv, TypeOK, History
  <1>3. (pc' = "callback" /\ running) \/ (pc' = "host" /\ ~running)
    BY <1>1 DEF Returned, Inv, TypeOK
  <1>4. stack' \in Seq(Frame) /\ ~(Len(stack') > 1) /\ AllFaithful(stack')
    BY <1>1 DEF AllFaithful
  <1>5. EdgeSeesItsData'
    BY <1>2 DEF EdgeSeesItsData
  <1>6. val' \in [Sigs -> Levels] /\ finish' \in BOOLEAN
    BY <1>1 DEF Inv, TypeOK
  <1> QED  BY <1>1, <1>2, <1>3, <1>4, <1>5, <1>6, FlushStep

\* What the callbacks wrote is flushed first.
LEMMA FlushNestedKeeps == ASSUME Inv, FlushNested PROVE Inv'
  <1> DEFINE f == [Top EXCEPT !.nested = pend.deposits, !.turns = @ + 1]
  <1>1. /\ pc = "dispatched" /\ stack' = SetTop(f) /\ pc' = "begin"
        /\ UNCHANGED <<val, forced, pend, running, finish, puts, hist>>
    BY DEF FlushNested
  <1>2. stack # <<>> /\ running /\ AllFaithful(stack) /\ TypeOK
    BY <1>1 DEF Inv, TypeOK, DataKept, AllFaithful
  <1>3. Top \in Frame /\ Len(stack) \in DOMAIN stack /\ Top = stack[Len(stack)]
    BY <1>2, TopFacts DEF Top
  <1>4. f \in Frame /\ f.todo = Top.todo
    <2>1. pend.deposits \in Deposits
      BY <1>2 DEF TypeOK, Writes
    <2>2. Top.turns + 1 \in Nat
      BY <1>3 DEF Frame
    <2> QED  BY <1>3, <2>1, <2>2 DEF Frame
  <1>5. \A i \in DOMAIN f.todo : Faithful(f.todo[i])
    BY <1>2, <1>3, <1>4 DEF AllFaithful
  <1> HIDE DEF f
  <1>6. stack' \in Seq(Frame) /\ stack' # <<>> /\ AllFaithful(stack')
    BY <1>1, <1>2, <1>4, <1>5, SetTopFacts, SetTopFaithful
  <1>7. TypeOK'
    BY <1>1, <1>2, <1>6 DEF TypeOK
  <1>8. DataKept' /\ EdgeSeesItsData'
    BY <1>1, <1>6 DEF Inv, DataKept, AllFaithful, EdgeSeesItsData
  <1> QED  BY <1>7, <1>8 DEF Inv

\* The final settlement, and the return to the flush around it.
LEMMA FinalSettleKeeps == ASSUME Inv, FinalSettle PROVE Inv'
  <1>1. /\ pc = "replay" /\ val' \in Settled(Over(val, Top.final))
        /\ hist' = [hist EXCEPT !.at = val', !.ran = {}, !.ahead = @ \ DOMAIN Top.final]
        /\ UNCHANGED <<forced, pend, running, finish, puts>>
    BY DEF FinalSettle
  <1>2. /\ stack # <<>> /\ pend = NoWrites /\ AllFaithful(stack)
        /\ (Len(stack) > 1 => running) /\ finish \in BOOLEAN /\ running \in BOOLEAN
        /\ stack \in Seq(Frame) /\ Len(stack) \in Nat \ {0}
    BY <1>1 DEF Inv, TypeOK, DataKept, AllFaithful
  <1>3. val' \in [Sigs -> Levels]
    BY <1>1, SettledFacts
  <1>4. hist' \in History /\ hist'.ran = {} /\ hist'.wrote = hist.wrote
    BY <1>1, <1>3 DEF Inv, TypeOK, History
  <1>5. hist'.wrote = {}
    BY <1>2, <1>4, NoDeposits DEF Inv, DataKept, NoWrites
  <1>6. EdgeSeesItsData'
    BY <1>4 DEF EdgeSeesItsData
  <1>7. CASE Len(stack) = 1
    <2>1. stack' = <<>> /\ pc' = Returned
      BY <1>7 DEF FinalSettle
    <2>2. stack' \in Seq(Frame) /\ ~(Len(stack') > 1) /\ AllFaithful(stack')
      BY <2>1 DEF AllFaithful
    <2>3. (pc' = "callback" /\ running) \/ (pc' = "host" /\ ~running)
      BY <1>2, <2>1 DEF Returned
    <2> QED  BY <1>1, <1>2, <1>3, <1>4, <1>5, <1>6, <2>1, <2>2, <2>3, FlushStep
  <1>8. CASE Len(stack) # 1
    <2> DEFINE n == Len(stack) - 2
               prefix == SubSeq(stack, 1, n)
               g == stack[Len(stack) - 1]
               f == Resumed(g)
    <2>1. stack' = Append(prefix, f) /\ pc' = "callback"
      BY <1>8 DEF FinalSettle
    <2>2. n \in Nat /\ n < Len(stack) /\ running /\ Len(stack) - 1 \in DOMAIN stack
      <3>1. DOMAIN stack = 1..Len(stack)
        BY <1>2
      <3>2. Len(stack) \in Nat
        BY <1>2
      <3>3. Len(stack) # 0
        BY <1>2
      <3>4. Len(stack) >= 2
        BY <1>8, <3>2, <3>3
      <3> HIDE DEF prefix, g, f
      <3> QED  BY <1>2, <3>1, <3>2, <3>4
    <2>3. /\ prefix \in Seq(Frame)
          /\ \A k \in DOMAIN prefix : k \in DOMAIN stack /\ prefix[k] = stack[k]
      BY <1>2, <2>2, PrefixFacts DEF Inv
    <2>4. g \in Frame /\ \A i \in DOMAIN g.todo : Faithful(g.todo[i])
      BY <1>2, <2>2 DEF AllFaithful
    <2> HIDE DEF prefix, g, n
    <2>5. f \in Frame /\ f.todo = g.todo
      <3>1. /\ Over(g.overrides, g.nested) \in Deposits /\ Over(g.final, g.nested) \in Deposits
            /\ <<>> \in Deposits
        BY <2>4, OverDeposits, NoDeposits DEF Frame
      <3> QED  BY <2>4, <3>1 DEF Resumed, Frame
    <2> HIDE DEF f
    <2>6. /\ stack' \in Seq(Frame)
          /\ \A k \in DOMAIN stack' :
               stack'[k] = f \/ (k \in DOMAIN prefix /\ stack'[k] = prefix[k])
      BY <2>1, <2>3, <2>5
    <2>7. AllFaithful(stack')
      BY <1>2, <2>3, <2>4, <2>5, <2>6 DEF AllFaithful
    <2> QED  BY <1>1, <1>2, <1>3, <1>4, <1>5, <1>6, <2>1, <2>2, <2>6, <2>7, FlushStep
  <1> QED  BY <1>7, <1>8

-----------------------------------------------------------------------------
(* The invariant of the specification                                      *)

\* The initial state, and that of a new instance.
LEMMA FreshState ==
    ASSUME NEW v \in [Sigs -> Levels]
    PROVE  /\ InitHist(v) \in History /\ InitHist(v).ran = {} /\ InitHist(v).wrote = {}
           /\ [s \in Sigs |-> NotForced]
                \in [Sigs -> [on : BOOLEAN, value : Levels, deposited : Levels]]
           /\ NoWrites \in Writes /\ NoWrites.batches = <<>> /\ ~NoWrites.open
           /\ ~NoWrites.settle /\ DOMAIN NoWrites.deposits = {}
  BY NoDeposits, VpiWritesAssumption DEF InitHist, History, NotForced, NoWrites, Writes

\* The initial state satisfies the invariant.
LEMMA InvInit == ASSUME Init PROVE Inv
  <1>1. /\ val \in [Sigs -> Levels] /\ forced = [s \in Sigs |-> NotForced]
        /\ pend = NoWrites /\ stack = <<>> /\ pc = "host" /\ running = FALSE
        /\ finish = FALSE /\ puts = 0 /\ hist = InitHist(val)
    BY DEF Init
  <1>2. stack \in Seq(Frame) /\ ~(Len(stack) > 1) /\ DOMAIN stack = {}
    BY <1>1
  <1>3. TypeOK
    BY <1>1, <1>2, FreshState DEF TypeOK
  <1>4. DataKept /\ EdgeSeesItsData
    BY <1>1, <1>2, FreshState DEF DataKept, EdgeSeesItsData
  <1> QED  BY <1>3, <1>4 DEF Inv

\* A new instance is installed.
LEMMA InstallRuntimeKeeps == ASSUME Inv, InstallRuntime PROVE Inv'
  <1>1. /\ val' \in [Sigs -> Levels] /\ forced' = [s \in Sigs |-> NotForced]
        /\ pend' = NoWrites /\ finish' = FALSE /\ puts' = 0 /\ hist' = InitHist(val')
        /\ UNCHANGED <<stack, pc, running>> /\ pc = "host"
    BY DEF InstallRuntime
  <1>2. stack = <<>> /\ stack \in Seq(Frame) /\ DOMAIN stack = {}
    BY <1>1 DEF Inv, TypeOK
  <1>3. TypeOK'
    BY <1>1, <1>2, FreshState DEF Inv, TypeOK
  <1>4. DataKept' /\ EdgeSeesItsData'
    BY <1>1, <1>2, FreshState DEF DataKept, EdgeSeesItsData
  <1> QED  BY <1>3, <1>4 DEF Inv

\* Steps that only move control.
LEMMA ControlKeeps ==
    ASSUME Inv, Finish \/ RunBegins \/ RegionEnds \/ RunEnds \/ CallbacksReturn \/ NextBatch
    PROVE  Inv'
  <1>1. UNCHANGED <<val, forced, pend, stack, puts, hist>>
    BY DEF Finish, RunBegins, RegionEnds, RunEnds, CallbacksReturn, NextBatch
  <1>2. TypeOK' /\ (pc' = "replay" => ~pend.settle)
    <2>1. CASE Finish
      BY <2>1 DEF Finish, Foreign, Inv, TypeOK
    <2>2. CASE RunBegins
      BY <2>2 DEF RunBegins, Inv, TypeOK
    <2>3. CASE RegionEnds
      BY <2>3 DEF RegionEnds, Inv, TypeOK
    <2>4. CASE RunEnds
      <3>1. stack' = <<>> /\ ~(Len(stack') > 1) /\ pc' = "host" /\ running' = FALSE
        BY <1>1, <2>4 DEF RunEnds
      <3> QED  BY <1>1, <2>4, <3>1 DEF RunEnds, Inv, TypeOK
    <2>5. CASE CallbacksReturn
      BY <2>5 DEF CallbacksReturn, Inv, TypeOK
    <2>6. CASE NextBatch
      BY <2>6 DEF NextBatch, Inv, TypeOK
    <2> QED  BY <2>1, <2>2, <2>3, <2>4, <2>5, <2>6
  <1> QED  BY <1>1, <1>2, QuietStepKeeps

\* Every step of foreign code and of a flush keeps the invariant.
LEMMA InvStep == ASSUME Inv, [Next]_vars PROVE Inv'
  <1>1. CASE \E s \in Sigs, v \in Levels : Deposit(s, v) \/ ForceValue(s, v)
    BY <1>1, DepositKeeps, ForceKeeps
  <1>2. CASE \E s \in Sigs : Release(s)
    BY <1>2, ReleaseKeeps
  <1>3. CASE Finish \/ RunBegins \/ RegionEnds \/ RunEnds \/ CallbacksReturn \/ NextBatch
    BY <1>3, ControlKeeps
  <1>4. CASE InstallRuntime \/ BeginFlush \/ ReplayBatch \/ FinishSeen
    BY <1>4, InstallRuntimeKeeps, BeginFlushKeeps, ReplayBatchKeeps, FinishSeenKeeps
  <1>5. CASE FlushNested \/ TooManySettlements \/ FinalSettle \/ SettleFails
    BY <1>5, FlushNestedKeeps, TooManySettlementsKeeps, FinalSettleKeeps, SettleFailsKeeps
  <1>6. CASE UNCHANGED vars
    <2>1. UNCHANGED <<val, forced, pend, stack, pc, running, finish, puts, hist>>
      BY <1>6 DEF vars
    <2>2. TypeOK'
      BY <2>1 DEF Inv, TypeOK
    <2>3. DataKept' /\ EdgeSeesItsData'
      BY <2>1 DEF Inv, DataKept, EdgeSeesItsData
    <2> QED  BY <2>2, <2>3 DEF Inv
  <1> QED  BY <1>1, <1>2, <1>3, <1>4, <1>5, <1>6 DEF Next

\* The invariant holds throughout.
LEMMA InvHolds == Spec => []Inv
  BY InvInit, InvStep, PTL DEF Spec

-----------------------------------------------------------------------------
(* The theorems                                                            *)

\* Every variable keeps its type, and control is where the flushes in
\* progress say.
THEOREM TypeCorrect == Spec => []TypeOK
  <1>1. Inv => TypeOK
    BY DEF Inv
  <1> QED  BY <1>1, InvHolds, PTL

\* However many writes are queued, forced and released, and however deep the
\* flushes nest, a domain that flush_pending_writes runs for a queued edge
\* reads the data that edge was written with.
THEOREM EdgesSeeTheirData == Spec => []EdgeSeesItsData
  <1>1. Inv => EdgeSeesItsData
    BY DEF Inv
  <1> QED  BY <1>1, InvHolds, PTL
=============================================================================
