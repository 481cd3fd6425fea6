--------------------------- MODULE VpiReplay_proofs ---------------------------
(***************************************************************************)
(* What becomes of a queued write: every active edge that was recorded is  *)
(* executed or overridden once, for any depth of nested flushes; the value *)
(* written last is the one that stays; and an edge that runs takes place.  *)
(***************************************************************************)
EXTENDS VpiWrites_proofs, FunctionTheorems, FiniteSetTheorems

-----------------------------------------------------------------------------
(* Edges that wait                                                         *)

\* The pending batches of p in which s has an active edge.
EdgesIn(p, s) == {i \in DOMAIN p.batches : s \in p.batches[i].active}

\* s has an active edge in the batch of q with r batches after it.
EdgeAt(q, r, s) == r \in Nat /\ r < Len(q) /\ s \in q[Len(q) - r].active

\* The edges of s that the flushes st have still to replay: a flush, and the
\* number of its batches that follow.  Replaying a batch moves no other.
EdgesOf(st, s) == {e \in Nat \X Nat : e[1] \in DOMAIN st /\ EdgeAt(st[e[1]].todo, e[2], s)}

\* The edges that are due are those that wait, and an edge only waits for a
\* signal that moved in its batch.
EdgesWait ==
  /\ \A i \in DOMAIN pend.batches : pend.batches[i].active \subseteq pend.batches[i].transitions
  /\ ~hist.cut =>
       \A s \in Sigs : /\ IsFiniteSet(EdgesOf(stack, s))
                       /\ hist.due[s] = Cardinality(EdgesIn(pend, s))
                                          + Cardinality(EdgesOf(stack, s))

\* An active edge is a transition of an event signal.
LEMMA ActiveEdgeMoves ==
    ASSUME NEW s \in Sigs, NEW old, NEW new, IsActiveEdge(Kind[s], old, new)
    PROVE  EventTransition(s, old, new)
  BY VpiWritesAssumption DEF IsActiveEdge, EventTransition

\* The pending edges are finitely many.
LEMMA EdgesInFinite ==
    ASSUME NEW p \in Writes, NEW s
    PROVE  IsFiniteSet(EdgesIn(p, s)) /\ Cardinality(EdgesIn(p, s)) \in Nat
  <1>1. p.batches \in Seq(EdgeBatch) /\ Len(p.batches) \in Nat
        /\ DOMAIN p.batches = 1..Len(p.batches)
    BY DEF Writes
  <1>2. EdgesIn(p, s) \in SUBSET (1..Len(p.batches))
    BY <1>1 DEF EdgesIn
  <1>3. IsFiniteSet(1..Len(p.batches))
    BY <1>1, FS_Interval
  <1> QED  BY <1>2, <1>3, FS_Subset, FS_CardinalityType

\* A write records the edge it makes, once.
LEMMA RecordEdges ==
    ASSUME Inv, EdgesWait, NEW s \in Sigs, NEW v \in Levels, pend' = Record(pend, s, val[s], v)
    PROVE  /\ \A i \in DOMAIN pend'.batches :
                pend'.batches[i].active \subseteq pend'.batches[i].transitions
           /\ \A x \in Sigs \ {s} : EdgesIn(pend', x) = EdgesIn(pend, x)
           /\ IF IsActiveEdge(Kind[s], val[s], v)
              THEN \E m : m \notin EdgesIn(pend, s) /\ EdgesIn(pend', s) = EdgesIn(pend, s) \cup {m}
              ELSE EdgesIn(pend', s) = EdgesIn(pend, s)
  <1> DEFINE edge == IsActiveEdge(Kind[s], val[s], v)
             transition == EventTransition(s, val[s], v)
             active == IF edge THEN {s} ELSE {}
             open == StaysOpen(pend, s, val[s], v)
             deposits == Over(pend.deposits, One(s, v))
             raw == [x \in hist.wrote \cup {s} |-> IF x = s THEN v ELSE val[x]]
             n == Len(pend.batches)
             last == pend.batches[n]
             joined == [active |-> last.active \cup active,
                        transitions |-> last.transitions \cup IF transition THEN {s} ELSE {},
                        deposits |-> deposits, raw |-> raw]
             fresh == [active |-> active, transitions |-> {s}, deposits |-> deposits,
                       raw |-> raw]
  <1>1. pend.batches \in Seq(EdgeBatch) /\ (pend.open => pend.batches # <<>>)
    BY DEF Inv, TypeOK, Writes
  <1>2. edge => transition
    BY ActiveEdgeMoves
  <1>3. /\ fresh.active = active /\ fresh.transitions = {s}
        /\ joined.active = last.active \cup active
        /\ joined.transitions = last.transitions \cup IF transition THEN {s} ELSE {}
    OBVIOUS
  <1>4. pend'.batches = IF open THEN [pend.batches EXCEPT ![n] = joined]
                        ELSE IF transition THEN Append(pend.batches, fresh) ELSE pend.batches
    BY DEF Record, OpenBatch
  <1>5. open => pend.open /\ (transition => s \notin last.transitions)
    BY DEF StaysOpen, OpenBatch
  <1>6. \A i \in DOMAIN pend.batches : pend.batches[i].active \subseteq pend.batches[i].transitions
    BY DEF EdgesWait
  <1> HIDE DEF joined, fresh, open, transition, edge
  <1>7. CASE open
    <2>1. n \in DOMAIN pend.batches /\ last.active \subseteq last.transitions
      BY <1>1, <1>5, <1>6, <1>7
    <2>2. /\ DOMAIN pend'.batches = DOMAIN pend.batches /\ pend'.batches[n] = joined
          /\ \A i \in DOMAIN pend.batches \ {n} : pend'.batches[i] = pend.batches[i]
      BY <1>1, <1>4, <1>7, <2>1
    <2>3. \A i \in DOMAIN pend'.batches :
            pend'.batches[i].active \subseteq pend'.batches[i].transitions
      BY <1>2, <1>3, <1>6, <2>1, <2>2
    <2>4. \A x \in Sigs \ {s} : EdgesIn(pend', x) = EdgesIn(pend, x)
      BY <1>3, <2>1, <2>2 DEF EdgesIn
    <2>5. CASE edge
      <3>1. s \notin last.active
        BY <1>2, <1>5, <1>7, <2>1, <2>5
      <3>2. n \notin EdgesIn(pend, s) /\ EdgesIn(pend', s) = EdgesIn(pend, s) \cup {n}
        BY <1>3, <2>1, <2>2, <2>5, <3>1 DEF EdgesIn
      <3> QED  BY <2>3, <2>4, <2>5, <3>2 DEF edge
    <2>6. CASE ~edge
      <3>1. EdgesIn(pend', s) = EdgesIn(pend, s)
        BY <1>3, <2>1, <2>2, <2>6 DEF EdgesIn
      <3> QED  BY <2>3, <2>4, <2>6, <3>1 DEF edge
    <2> QED  BY <2>5, <2>6
  <1>8. CASE ~open /\ transition
    <2>1. /\ DOMAIN pend'.batches = DOMAIN pend.batches \cup {n + 1}
          /\ n + 1 \notin DOMAIN pend.batches
          /\ pend'.batches[n + 1] = fresh
          /\ \A i \in DOMAIN pend.batches : pend'.batches[i] = pend.batches[i]
      BY <1>1, <1>4, <1>8
    <2>2. \A i \in DOMAIN pend'.batches :
            pend'.batches[i].active \subseteq pend'.batches[i].transitions
      BY <1>3, <1>6, <2>1
    <2>3. \A x \in Sigs \ {s} : EdgesIn(pend', x) = EdgesIn(pend, x)
      BY <1>3, <2>1 DEF EdgesIn
    <2>4. CASE edge
      <3>1. n + 1 \notin EdgesIn(pend, s) /\ EdgesIn(pend', s) = EdgesIn(pend, s) \cup {n + 1}
        BY <1>3, <2>1, <2>4 DEF EdgesIn
      <3> QED  BY <2>2, <2>3, <2>4, <3>1 DEF edge
    <2>5. CASE ~edge
      <3>1. EdgesIn(pend', s) = EdgesIn(pend, s)
        BY <1>3, <2>1, <2>5 DEF EdgesIn
      <3> QED  BY <2>2, <2>3, <2>5, <3>1 DEF edge
    <2> QED  BY <2>4, <2>5
  <1>9. CASE ~open /\ ~transition
    <2>1. pend'.batches = pend.batches
      BY <1>4, <1>9
    <2> QED  BY <1>2, <1>6, <1>9, <2>1 DEF EdgesIn, edge
  <1> QED  BY <1>7, <1>8, <1>9

\* A write of foreign code adds the edge it makes to those that are due.
LEMMA WriteEdges ==
    ASSUME Inv, EdgesWait, NEW s \in Sigs, NEW v \in Levels, Write(s, v), UNCHANGED stack,
           hist'.due = [hist.due EXCEPT ![s] = @ + Edge(s, val[s], v)], hist'.cut = hist.cut
    PROVE  EdgesWait'
  <1>1. pend' = Record(pend, s, val[s], v)
    BY DEF Write
  <1>2. /\ \A i \in DOMAIN pend'.batches :
             pend'.batches[i].active \subseteq pend'.batches[i].transitions
        /\ \A x \in Sigs \ {s} : EdgesIn(pend', x) = EdgesIn(pend, x)
        /\ IF IsActiveEdge(Kind[s], val[s], v)
           THEN \E m : m \notin EdgesIn(pend, s) /\ EdgesIn(pend', s) = EdgesIn(pend, s) \cup {m}
           ELSE EdgesIn(pend', s) = EdgesIn(pend, s)
    BY <1>1, RecordEdges
  <1>3. \A x : IsFiniteSet(EdgesIn(pend, x)) /\ Cardinality(EdgesIn(pend, x)) \in Nat
    BY EdgesInFinite DEF Inv, TypeOK
  <1>4. Cardinality(EdgesIn(pend', s)) = Cardinality(EdgesIn(pend, s)) + Edge(s, val[s], v)
    <2>1. CASE IsActiveEdge(Kind[s], val[s], v)
      <3>1. PICK m : m \notin EdgesIn(pend, s) /\ EdgesIn(pend', s) = EdgesIn(pend, s) \cup {m}
        BY <1>2, <2>1
      <3>2. Cardinality(EdgesIn(pend, s) \cup {m}) = Cardinality(EdgesIn(pend, s)) + 1
        BY <1>3, <3>1, FS_AddElement
      <3> QED  BY <2>1, <3>1, <3>2 DEF Edge
    <2>2. CASE ~IsActiveEdge(Kind[s], val[s], v)
      BY <1>2, <1>3, <2>2 DEF Edge
    <2> QED  BY <2>1, <2>2
  <1>5. hist.due \in [Sigs -> Int] /\ Edge(s, val[s], v) \in {0, 1}
    BY DEF Inv, TypeOK, History, Edge
  <1>6. ASSUME ~hist'.cut, NEW x \in Sigs
        PROVE  /\ IsFiniteSet(EdgesOf(stack', x))
               /\ hist'.due[x] = Cardinality(EdgesIn(pend', x)) + Cardinality(EdgesOf(stack', x))
    <2>1. /\ IsFiniteSet(EdgesOf(stack, x))
          /\ hist.due[x] = Cardinality(EdgesIn(pend, x)) + Cardinality(EdgesOf(stack, x))
      BY <1>6 DEF EdgesWait
    <2>2. Cardinality(EdgesOf(stack, x)) \in Nat
      BY <2>1, FS_CardinalityType
    <2>3. CASE x = s
      BY <1>3, <1>4, <1>5, <2>1, <2>2, <2>3
    <2>4. CASE x # s
      BY <1>2, <1>5, <2>1, <2>4
    <2> QED  BY <2>3, <2>4
  <1> QED  BY <1>2, <1>6 DEF EdgesWait

\* Taking the first batch takes its edges and no other.
LEMMA TailEdges ==
    ASSUME NEW q \in Seq(EdgeBatch), q # <<>>, NEW s
    PROVE  /\ \A r : EdgeAt(Tail(q), r, s) <=> EdgeAt(q, r, s) /\ r # Len(q) - 1
           /\ EdgeAt(q, Len(q) - 1, s) <=> s \in Head(q).active
  <1>1. /\ Len(q) \in Nat \ {0} /\ Len(Tail(q)) = Len(q) - 1
        /\ \A j \in 1..(Len(q) - 1) : Tail(q)[j] = q[j + 1]
    OBVIOUS
  <1>2. ASSUME NEW r \in Nat PROVE EdgeAt(Tail(q), r, s) <=> EdgeAt(q, r, s) /\ r # Len(q) - 1
    <2> DEFINE L == Len(q)
    <2>0. L \in Nat \ {0} /\ Len(Tail(q)) = L - 1 /\ r \in Nat
      BY <1>1, <1>2
    <2> HIDE DEF L
    <2>1. CASE r < L - 1
      <3>1. L - 1 - r \in 1..(L - 1) /\ L - 1 - r + 1 = L - r /\ r < L /\ r # L - 1
        BY <2>0, <2>1
      <3>2. Tail(q)[L - 1 - r] = q[L - r]
        BY <1>1, <3>1 DEF L
      <3>3. EdgeAt(Tail(q), r, s) <=> s \in Tail(q)[L - 1 - r].active
        BY <2>0, <2>1 DEF EdgeAt
      <3>4. EdgeAt(q, r, s) <=> s \in q[L - r].active
        BY <2>0, <3>1 DEF EdgeAt, L
      <3> QED  BY <3>1, <3>2, <3>3, <3>4 DEF L
    <2>2. CASE ~(r < L - 1)
      <3>1. ~(r < Len(Tail(q)))
        BY <2>0, <2>2
      <3>2. r < L => r = L - 1
        BY <2>0, <2>2
      <3> QED  BY <3>1, <3>2 DEF EdgeAt, L
    <2> QED  BY <2>1, <2>2
  <1>3. EdgeAt(q, Len(q) - 1, s) <=> s \in Head(q).active
    <2>1. Len(q) - 1 \in Nat /\ Len(q) - 1 < Len(q) /\ Len(q) - (Len(q) - 1) = 1
      BY <1>1
    <2>2. q[1] = Head(q)
      OBVIOUS
    <2> QED  BY <2>1, <2>2 DEF EdgeAt
  <1> QED  BY <1>2, <1>3 DEF EdgeAt

\* The edges of a queue, counted from its end, are as many as its batches with
\* the edge.
LEMMA CountFromEnd ==
    ASSUME NEW p \in Writes, NEW s, NEW n \in Nat
    PROVE  LET B == {e \in Nat \X Nat : e[1] = n /\ EdgeAt(p.batches, e[2], s)}
           IN  IsFiniteSet(B) /\ Cardinality(B) = Cardinality(EdgesIn(p, s))
  <1> DEFINE q == p.batches
             L == Len(q)
             A == EdgesIn(p, s)
             B == {e \in Nat \X Nat : e[1] = n /\ EdgeAt(q, e[2], s)}
             F == [i \in A |-> <<n, L - i>>]
  <1>1. q \in Seq(EdgeBatch) /\ L \in Nat /\ DOMAIN q = 1..L
    BY DEF Writes
  <1>2. \A i \in A : i \in 1..L /\ L - i \in Nat /\ L - i < L /\ L - (L - i) = i
    BY <1>1 DEF EdgesIn
  <1>3. \A i \in A : <<n, L - i>> \in B
    <2> TAKE i \in A
    <2>1. q[L - (L - i)] = q[i] /\ s \in q[i].active
      BY <1>2 DEF EdgesIn
    <2> QED  BY <1>2, <2>1 DEF EdgeAt
  <1>4. F \in [A -> B]
    BY <1>3
  <1>5. \A a, b \in A : F[a] = F[b] => a = b
    <2> TAKE a \in A, b \in A
    <2>1. a \in Nat /\ b \in Nat /\ L \in Nat
      BY <1>1, <1>2
    <2>2. F[a] = <<n, L - a>> /\ F[b] = <<n, L - b>>
      OBVIOUS
    <2> HIDE DEF F, A, L
    <2> QED  BY <2>1, <2>2
  <1>6. \A e \in B : \E a \in A : F[a] = e
    <2> TAKE e \in B
    <2>1. PICK r \in Nat : e = <<n, r>> /\ EdgeAt(q, r, s)
      OBVIOUS
    <2>2. L - r \in 1..L /\ s \in q[L - r].active /\ L - (L - r) = r
      BY <1>1, <2>1 DEF EdgeAt
    <2>3. L - r \in A
      BY <1>1, <2>2 DEF EdgesIn
    <2>4. F[L - r] = <<n, L - (L - r)>>
      BY <2>3
    <2> QED  BY <2>1, <2>2, <2>3, <2>4
  <1>7. ExistsBijection(A, B)
    <2> HIDE DEF F, A, B
    <2>1. F \in Bijection(A, B)
      BY <1>4, <1>5, <1>6, Fun_IsBij
    <2> QED  BY <2>1, Fun_ExistsBij
  <1>8. IsFiniteSet(A)
    BY EdgesInFinite
  <1>9. IsFiniteSet(B) /\ Cardinality(B) = Cardinality(A)
    <2> HIDE DEF A, B
    <2> QED  BY <1>7, <1>8, FS_Bijection
  <1> QED  BY <1>9

\* Stacks with the same batches have the same edges.
LEMMA SameEdges ==
    ASSUME NEW st, NEW su, DOMAIN su = DOMAIN st,
           \A k \in DOMAIN st : su[k].todo = st[k].todo, NEW s
    PROVE  EdgesOf(su, s) = EdgesOf(st, s)
  BY DEF EdgesOf

\* Nothing is queued in the empty pending writes, nor on the empty stack.
LEMMA NoEdges ==
    ASSUME NEW s
    PROVE  /\ EdgesIn(NoWrites, s) = {} /\ EdgesOf(<<>>, s) = {}
           /\ IsFiniteSet({}) /\ Cardinality({}) = 0
  <1>1. DOMAIN NoWrites.batches = {} /\ DOMAIN <<>> = {}
    BY DEF NoWrites
  <1> QED  BY <1>1, FS_EmptySet DEF EdgesIn, EdgesOf

\* A flush moves the pending edges onto the stack.
LEMMA BeginFlushEdges == ASSUME Inv, EdgesWait, BeginFlush PROVE EdgesWait'
  <1>1. /\ pend' = NoWrites /\ hist'.due = hist.due /\ hist'.cut = hist.cut
    BY DEF BeginFlush, Inv, TypeOK, History
  <1>2. DOMAIN pend'.batches = {}
    BY <1>1 DEF NoWrites
  <1>3. ASSUME NEW s \in Sigs, ~hist.cut
        PROVE  /\ IsFiniteSet(EdgesOf(stack', s))
               /\ hist.due[s] = Cardinality(EdgesIn(pend', s)) + Cardinality(EdgesOf(stack', s))
    <2>1. /\ IsFiniteSet(EdgesOf(stack, s)) /\ Cardinality(EdgesOf(stack, s)) \in Nat
          /\ hist.due[s] = Cardinality(EdgesIn(pend, s)) + Cardinality(EdgesOf(stack, s))
      BY <1>3, FS_CardinalityType DEF EdgesWait
    <2>2. Cardinality(EdgesIn(pend', s)) = 0
      BY <1>1, NoEdges
    <2>3. Cardinality(EdgesIn(pend, s)) \in Nat
      BY EdgesInFinite DEF Inv, TypeOK
    <2>4. CASE pend.settle
      <3> DEFINE f == [todo |-> pend.batches, final |-> pend.deposits, overrides |-> <<>>,
                       nested |-> <<>>, turns |-> 0]
                 n == Len(stack) + 1
                 A == EdgesOf(stack, s)
                 B == {e \in Nat \X Nat : e[1] = n /\ EdgeAt(pend.batches, e[2], s)}
      <3>1. stack' = Append(stack, f) /\ f.todo = pend.batches
        BY <2>4 DEF BeginFlush
      <3> HIDE DEF f
      <3>2. stack \in Seq(Frame) /\ n \in Nat /\ DOMAIN stack = 1..Len(stack)
        BY DEF Inv, TypeOK
      <3>3. /\ DOMAIN stack' = DOMAIN stack \cup {n} /\ n \notin DOMAIN stack
            /\ stack'[n] = f /\ \A k \in DOMAIN stack : stack'[k] = stack[k]
        BY <3>1, <3>2
      <3>4. EdgesOf(stack', s) = A \cup B /\ A \cap B = {}
        BY <3>1, <3>2, <3>3 DEF EdgesOf
      <3>5. IsFiniteSet(B) /\ Cardinality(B) = Cardinality(EdgesIn(pend, s))
        BY <3>2, CountFromEnd DEF Inv, TypeOK
      <3> HIDE DEF A, B
      <3>6. /\ IsFiniteSet(A \cup B)
            /\ Cardinality(A \cup B) = Cardinality(A) + Cardinality(B) - Cardinality(A \cap B)
        BY <2>1, <3>5, FS_Union DEF A
      <3>7. Cardinality(A \cap B) = 0
        BY <3>4, NoEdges
      <3> QED  BY <2>1, <2>2, <2>3, <3>4, <3>5, <3>6, <3>7 DEF A
    <2>5. CASE ~pend.settle
      <3>1. pend = NoWrites /\ stack' = stack
        BY <2>5 DEF Inv, DataKept, BeginFlush
      <3> QED  BY <1>1, <2>1, <3>1
    <2> QED  BY <2>4, <2>5
  <1> QED  BY <1>1, <1>2, <1>3 DEF EdgesWait

\* The frames of SetTop, by position.
LEMMA SetTopAt ==
    ASSUME TypeOK, stack # <<>>, NEW f \in Frame
    PROVE  /\ DOMAIN SetTop(f) = DOMAIN stack /\ SetTop(f)[Len(stack)] = f
           /\ \A k \in DOMAIN stack \ {Len(stack)} : SetTop(f)[k] = stack[k]
  <1>1. /\ Outer \in Seq(Frame) /\ Len(Outer) = Len(stack) - 1 /\ Len(stack) \in Nat \ {0}
        /\ \A k \in DOMAIN Outer : Outer[k] = stack[k]
        /\ DOMAIN stack = 1..Len(stack)
    BY TopFacts DEF TypeOK
  <1> HIDE DEF Outer
  <1>2. /\ Len(SetTop(f)) = Len(stack) /\ SetTop(f) \in Seq(Frame)
        /\ SetTop(f)[Len(stack)] = f
        /\ \A k \in 1..(Len(stack) - 1) : SetTop(f)[k] = Outer[k] /\ k \in DOMAIN Outer
    BY <1>1 DEF SetTop
  <1> QED  BY <1>1, <1>2

\* Replaying a batch takes its edges off the list of those due.
LEMMA ReplayBatchEdges == ASSUME Inv, EdgesWait, ReplayBatch PROVE EdgesWait'
  <1> DEFINE batch == Head(Top.todo)
             f == [Top EXCEPT !.todo = Tail(@), !.turns = 0]
             n == Len(stack)
             m == Len(Top.todo) - 1
  <1>1. /\ pc = "replay" /\ Top.todo # <<>> /\ stack' = SetTop(f) /\ UNCHANGED pend
        /\ hist'.due = Minus(hist.due, batch.active) /\ hist'.cut = hist.cut
    BY DEF ReplayBatch, Inv, TypeOK, History
  <1>2. TypeOK /\ stack # <<>>
    BY <1>1 DEF Inv, TypeOK
  <1>3. Top \in Frame /\ n \in DOMAIN stack /\ Top = stack[n] /\ n \in Nat
    BY <1>2, TopFacts DEF Top
  <1>4. Top.todo \in Seq(EdgeBatch) /\ m \in Nat
    BY <1>1, <1>3 DEF Frame
  <1>5. f \in Frame /\ f.todo = Tail(Top.todo)
    <2>1. Tail(Top.todo) \in Seq(EdgeBatch)
      BY <1>1, <1>4
    <2> QED  BY <1>3, <2>1 DEF Frame
  <1> HIDE DEF f
  <1>6. /\ DOMAIN stack' = DOMAIN stack /\ stack'[n] = f
        /\ \A k \in DOMAIN stack \ {n} : stack'[k] = stack[k]
    BY <1>1, <1>2, <1>5, SetTopAt
  <1>7. ASSUME NEW s \in Sigs, ~hist.cut
        PROVE  /\ IsFiniteSet(EdgesOf(stack', s))
               /\ hist'.due[s] = Cardinality(EdgesIn(pend, s)) + Cardinality(EdgesOf(stack', s))
    <2> DEFINE A == EdgesOf(stack, s)
    <2>1. /\ IsFiniteSet(A) /\ Cardinality(A) \in Nat
          /\ hist.due[s] = Cardinality(EdgesIn(pend, s)) + Cardinality(A)
      BY <1>7, FS_CardinalityType DEF EdgesWait
    <2>2. Cardinality(EdgesIn(pend, s)) \in Nat
      BY EdgesInFinite DEF Inv, TypeOK
    <2>3. /\ \A r : EdgeAt(f.todo, r, s) <=> EdgeAt(Top.todo, r, s) /\ r # m
          /\ EdgeAt(Top.todo, m, s) <=> s \in batch.active
      BY <1>1, <1>4, <1>5, TailEdges
    <2>4. EdgesOf(stack', s) = A \ {<<n, m>>}
      <3> HIDE DEF m, n, batch
      <3>1. ASSUME NEW e \in Nat \X Nat
            PROVE  e \in EdgesOf(stack', s) <=> e \in A /\ e # <<n, m>>
        <4>1. CASE e[1] = n
          <5>1. e = <<n, m>> <=> e[2] = m
            BY <3>1, <4>1
          <5>2. e \in A <=> EdgeAt(Top.todo, e[2], s)
            BY <1>3, <3>1, <4>1 DEF EdgesOf
          <5>3. e \in EdgesOf(stack', s) <=> EdgeAt(f.todo, e[2], s)
            BY <1>3, <1>6, <3>1, <4>1 DEF EdgesOf
          <5> QED  BY <2>3, <5>1, <5>2, <5>3
        <4>2. CASE e[1] # n
          <5>1. e # <<n, m>>
            BY <4>2
          <5>2. e \in EdgesOf(stack', s) <=> e \in A
            BY <1>6, <4>2 DEF EdgesOf
          <5> QED  BY <5>1, <5>2
        <4> QED  BY <4>1, <4>2
      <3>2. EdgesOf(stack', s) \subseteq Nat \X Nat /\ A \subseteq Nat \X Nat
        BY DEF EdgesOf
      <3> HIDE DEF A
      <3> QED  BY <3>1, <3>2
    <2>5. <<n, m>> \in A <=> s \in batch.active
      BY <1>3, <1>4, <2>3 DEF EdgesOf
    <2>6. /\ IsFiniteSet(A \ {<<n, m>>})
          /\ Cardinality(A \ {<<n, m>>}) = IF <<n, m>> \in A THEN Cardinality(A) - 1
                                                             ELSE Cardinality(A)
      <3> HIDE DEF A, n, m
      <3> QED  BY <2>1, FS_RemoveElement
    <2>7. hist'.due[s] = hist.due[s] - IF s \in batch.active THEN 1 ELSE 0
      BY <1>1 DEF Minus
    <2> HIDE DEF A, n, m, batch
    <2> QED  BY <2>1, <2>2, <2>4, <2>5, <2>6, <2>7
  <1> QED  BY <1>1, <1>7 DEF EdgesWait

\* A nested flush is begun: no batch is touched.
LEMMA FlushNestedEdges == ASSUME Inv, EdgesWait, FlushNested PROVE EdgesWait'
  <1> DEFINE f == [Top EXCEPT !.nested = pend.deposits, !.turns = @ + 1]
  <1>1. pc = "dispatched" /\ stack' = SetTop(f) /\ UNCHANGED <<pend, hist>>
    BY DEF FlushNested
  <1>2. TypeOK /\ stack # <<>>
    BY <1>1 DEF Inv, TypeOK
  <1>3. Top \in Frame /\ Len(stack) \in DOMAIN stack /\ Top = stack[Len(stack)]
    BY <1>2, TopFacts DEF Top
  <1>4. f \in Frame /\ f.todo = Top.todo
    <2>1. pend.deposits \in Deposits
      BY <1>2 DEF TypeOK, Writes
    <2>2. Top.turns + 1 \in Nat
      BY <1>3 DEF Frame
    <2> QED  BY <1>3, <2>1, <2>2 DEF Frame
  <1> HIDE DEF f
  <1>5. /\ DOMAIN stack' = DOMAIN stack
        /\ \A k \in DOMAIN stack : stack'[k].todo = stack[k].todo
    BY <1>1, <1>2, <1>3, <1>4, SetTopAt
  <1>6. \A s : EdgesOf(stack', s) = EdgesOf(stack, s)
    BY <1>5, SameEdges
  <1> QED  BY <1>1, <1>6 DEF EdgesWait

\* The final settlement leaves a flush without batches, and the flush around
\* it keeps its own.
LEMMA FinalSettleEdges == ASSUME Inv, EdgesWait, FinalSettle PROVE EdgesWait'
  <1> DEFINE n == Len(stack)
  <1>1. pc = "replay" /\ Top.todo = <<>> /\ UNCHANGED pend
        /\ hist'.due = hist.due /\ hist'.cut = hist.cut
    BY DEF FinalSettle, Inv, TypeOK, History
  <1>2. TypeOK /\ stack # <<>> /\ stack \in Seq(Frame)
    BY <1>1 DEF Inv, TypeOK
  <1>3. n \in Nat \ {0} /\ DOMAIN stack = 1..n /\ stack[n].todo = <<>>
    BY <1>1, <1>2 DEF Top
  <1>4. ASSUME NEW s PROVE EdgesOf(stack', s) = EdgesOf(stack, s)
    <2>1. \A r : ~EdgeAt(stack[n].todo, r, s)
      BY <1>3 DEF EdgeAt
    <2>2. /\ DOMAIN stack' = DOMAIN stack \ {n}
          /\ \A k \in DOMAIN stack \ {n} : stack'[k].todo = stack[k].todo
      <3>1. CASE n = 1
        <4>1. stack' = <<>> /\ DOMAIN stack' = {}
          BY <3>1 DEF FinalSettle
        <4> QED  BY <1>3, <3>1, <4>1
      <3>2. CASE n # 1
        <4> DEFINE m == n - 2
                   prefix == SubSeq(stack, 1, m)
                   g == stack[n - 1]
                   f == Resumed(g)
        <4>1. stack' = Append(prefix, f)
          BY <3>2 DEF FinalSettle
        <4>2. m \in Nat /\ m < n /\ n - 1 \in DOMAIN stack /\ m + 1 = n - 1
          BY <1>3, <3>2
        <4>3. /\ prefix \in Seq(Frame) /\ Len(prefix) = m
              /\ \A k \in DOMAIN prefix : k \in DOMAIN stack /\ prefix[k] = stack[k]
          BY <1>2, <4>2, PrefixFacts
        <4>4. g \in Frame /\ f.todo = g.todo
          <5>1. g \in Frame
            BY <1>2, <4>2
          <5> HIDE DEF g
          <5> QED  BY <5>1 DEF Resumed, Frame
        <4> HIDE DEF prefix, f, m, n
        <4>5. /\ DOMAIN stack' = 1..(m + 1) /\ stack'[m + 1] = f
              /\ \A k \in 1..m : stack'[k] = prefix[k] /\ k \in DOMAIN prefix
          <5>1. f \in Frame
            BY <4>4, OverDeposits, NoDeposits DEF f, Resumed, Frame
          <5>2. Len(stack') = m + 1 /\ stack' \in Seq(Frame)
            BY <4>1, <4>2, <4>3, <5>1
          <5> QED  BY <4>1, <4>2, <4>3, <5>1, <5>2
        <4> HIDE DEF g
        <4>6. \A k \in 1..(n - 1) : k \in 1..m \/ k = m + 1
          BY <1>3, <4>2
        <4>7. DOMAIN stack \ {n} = 1..(n - 1)
          BY <1>3
        <4> QED  BY <4>2, <4>3, <4>4, <4>5, <4>6, <4>7 DEF g
      <3> QED  BY <3>1, <3>2
    <2> HIDE DEF n
    <2> QED  BY <2>1, <2>2 DEF EdgesOf
  <1> QED  BY <1>1, <1>4 DEF EdgesWait

\* Steps that touch neither a batch nor an edge.
LEMMA EdgesFrame ==
    ASSUME EdgesWait, UNCHANGED <<pend, stack>>, hist'.due = hist.due, hist'.cut = hist.cut
    PROVE  EdgesWait'
  BY DEF EdgesWait

\* A flush that was cut short owes nothing any more.
LEMMA EdgesCut ==
    ASSUME EdgesWait, pend' = pend \/ pend' = NoWrites, hist'.cut
    PROVE  EdgesWait'
  <1>1. DOMAIN NoWrites.batches = {}
    BY DEF NoWrites
  <1> QED  BY <1>1 DEF EdgesWait

\* A fresh instance owes nothing.
LEMMA EdgesFresh ==
    ASSUME pend = NoWrites, stack = <<>>, hist = InitHist(val) PROVE EdgesWait
  <1>1. DOMAIN pend.batches = {}
    BY DEF NoWrites
  <1>2. \A s \in Sigs : hist.due[s] = 0
    BY DEF InitHist
  <1>3. \A s : EdgesIn(pend, s) = {} /\ EdgesOf(stack, s) = {}
    BY NoEdges
  <1>4. \A s : /\ IsFiniteSet(EdgesOf(stack, s)) /\ Cardinality(EdgesOf(stack, s)) = 0
               /\ Cardinality(EdgesIn(pend, s)) = 0
    BY <1>3, FS_EmptySet
  <1> QED  BY <1>1, <1>2, <1>4 DEF EdgesWait

\* Every step keeps the edges that wait and those that are due together.
LEMMA EdgesStep == ASSUME Inv, EdgesWait, [Next]_vars PROVE EdgesWait'
  <1>0. TypeOK /\ hist \in History
    BY DEF Inv, TypeOK
  <1>1. ASSUME NEW s \in Sigs, NEW v \in Levels, Deposit(s, v) PROVE EdgesWait'
    <2>1. CASE forced[s].on
      <3>1. /\ hist' = [hist EXCEPT !.last[s] = v, !.ran = {}, !.stray = Deposited(s)]
            /\ UNCHANGED <<pend, stack>>
        BY <1>1, <2>1 DEF Deposit
      <3>2. hist'.due = hist.due /\ hist'.cut = hist.cut
        BY <1>0, <3>1 DEF History
      <3> QED  BY <3>1, <3>2, EdgesFrame
    <2>2. CASE ~forced[s].on
      <3>1. Write(s, v) /\ UNCHANGED stack
            /\ hist' = [Note(s, val[s], v) EXCEPT !.last[s] = v, !.stray = Deposited(s)]
        BY <1>1, <2>2 DEF Deposit
      <3>2. /\ hist'.due = [hist.due EXCEPT ![s] = @ + Edge(s, val[s], v)]
            /\ hist'.cut = hist.cut
        BY <1>0, <3>1 DEF Note, History
      <3> QED  BY <3>1, <3>2, WriteEdges
    <2> QED  BY <2>1, <2>2
  <1>2. ASSUME NEW s \in Sigs, NEW v \in Levels, ForceValue(s, v) PROVE EdgesWait'
    <2>1. Write(s, v) /\ UNCHANGED stack
      BY <1>2 DEF ForceValue
    <2>2. PICK S : hist' = [Note(s, val[s], v) EXCEPT !.stray = S]
      BY <1>2 DEF ForceValue
    <2>3. /\ hist'.due = [hist.due EXCEPT ![s] = @ + Edge(s, val[s], v)]
          /\ hist'.cut = hist.cut
      BY <1>0, <2>2 DEF Note, History
    <2> QED  BY <2>1, <2>3, WriteEdges
  <1>3. ASSUME NEW s \in Sigs, Release(s) PROVE EdgesWait'
    <2>1. CASE forced[s].on
      <3> DEFINE v == ReleasedValue(s)
      <3>1. /\ Write(s, v) /\ UNCHANGED stack
            /\ hist' = [Note(s, val[s], v) EXCEPT !.stray = Strays(s, FALSE)]
        BY <1>3, <2>1 DEF Release
      <3>2. v \in Levels
        BY <1>0 DEF ReleasedValue, TypeOK
      <3>3. /\ hist'.due = [hist.due EXCEPT ![s] = @ + Edge(s, val[s], v)]
            /\ hist'.cut = hist.cut
        BY <1>0, <3>1 DEF Note, History
      <3> HIDE DEF v
      <3> QED  BY <3>1, <3>2, <3>3, WriteEdges
    <2>2. CASE ~forced[s].on
      <3>1. UNCHANGED <<pend, stack, hist>>
        BY <1>3, <2>2 DEF Release
      <3> QED  BY <3>1, EdgesFrame
    <2> QED  BY <2>1, <2>2
  <1>4. CASE Finish \/ RunBegins \/ RegionEnds \/ RunEnds \/ CallbacksReturn \/ NextBatch
    <2>1. UNCHANGED <<pend, stack, hist>>
      BY <1>4 DEF Finish, RunBegins, RegionEnds, RunEnds, CallbacksReturn, NextBatch
    <2> QED  BY <2>1, EdgesFrame
  <1>5. CASE InstallRuntime
    <2>1. pend' = NoWrites /\ stack' = <<>> /\ hist' = InitHist(val')
      BY <1>0, <1>5 DEF InstallRuntime, TypeOK
    <2>2. DOMAIN pend'.batches = {}
      BY <2>1 DEF NoWrites
    <2>3. \A s \in Sigs : hist'.due[s] = 0
      BY <2>1 DEF InitHist
    <2>4. \A s : EdgesIn(pend', s) = {} /\ EdgesOf(stack', s) = {}
      BY <2>1, NoEdges
    <2> QED  BY <2>2, <2>3, <2>4, FS_EmptySet DEF EdgesWait
  <1>6. CASE BeginFlush
    BY <1>6, BeginFlushEdges
  <1>7. CASE ReplayBatch
    BY <1>7, ReplayBatchEdges
  <1>8. CASE FinishSeen \/ SettleFails \/ TooManySettlements
    <2>1. (pend' = pend \/ pend' = NoWrites) /\ hist'.cut
      BY <1>0, <1>8 DEF FinishSeen, SettleFails, TooManySettlements, Unwind, History
    <2> QED  BY <2>1, EdgesCut
  <1>9. CASE FlushNested
    BY <1>9, FlushNestedEdges
  <1>10. CASE FinalSettle
    BY <1>10, FinalSettleEdges
  <1>11. CASE UNCHANGED vars
    BY <1>11, EdgesFrame DEF vars
  <1> QED
    BY <1>1, <1>2, <1>3, <1>4, <1>5, <1>6, <1>7, <1>8, <1>9, <1>10, <1>11 DEF Next

\* What waits is counted, so nothing is owed when nothing waits.
LEMMA EdgesWaitNoEdgeLost == ASSUME Inv, EdgesWait PROVE NoEdgeLost
  <1>1. \A s \in Sigs : Cardinality(EdgesIn(pend, s)) \in Nat
    BY EdgesInFinite DEF Inv, TypeOK
  <1>2. ASSUME ~hist.cut, NEW s \in Sigs PROVE hist.due[s] >= 0
    <2>1. Cardinality(EdgesOf(stack, s)) \in Nat
      BY <1>2, FS_CardinalityType DEF EdgesWait
    <2> QED  BY <1>1, <1>2, <2>1 DEF EdgesWait
  <1>3. ASSUME Quiet, NEW s \in Sigs PROVE hist.due[s] = 0
    <2>1. pend = NoWrites /\ stack = <<>> /\ ~hist.cut
      BY <1>3 DEF Quiet, Inv, DataKept
    <2>2. EdgesIn(pend, s) = {} /\ EdgesOf(stack, s) = {}
      BY <2>1, NoEdges
    <2> QED  BY <2>1, <2>2, FS_EmptySet DEF EdgesWait
  <1> QED  BY <1>2, <1>3 DEF NoEdgeLost

\* However deep the flushes nest and whatever their callbacks write, force or
\* release: every active edge that vpi_put_value recorded is taken by exactly
\* one batch, and none is left when everything is flushed.
THEOREM EdgesRunOnce == Spec => []NoEdgeLost
  <1>1. Init => EdgesWait
    BY EdgesFresh DEF Init
  <1>2. Inv /\ EdgesWait /\ [Next]_vars => EdgesWait'
    BY EdgesStep
  <1>3. Inv /\ EdgesWait => NoEdgeLost
    BY EdgesWaitNoEdgeLost
  <1> QED  BY <1>1, <1>2, <1>3, InvHolds, PTL DEF Spec
-----------------------------------------------------------------------------
(* What a step does to batches, frames and values                          *)

\* The write of v to s joins the open batch.
JoinsBatch(s, v) ==
  LET n == Len(pend.batches)
  IN  /\ pend.open /\ pend'.open /\ n \in DOMAIN pend.batches
      /\ DOMAIN pend'.batches = DOMAIN pend.batches /\ Len(pend'.batches) = n
      /\ pend'.batches[n].deposits = pend'.deposits
      /\ pend'.batches[n].active =
           pend.batches[n].active \cup IF IsActiveEdge(Kind[s], val[s], v) THEN {s} ELSE {}
      /\ pend'.batches[n].transitions =
           pend.batches[n].transitions \cup IF EventTransition(s, val[s], v) THEN {s} ELSE {}
      /\ EventTransition(s, val[s], v) => s \notin pend.batches[n].transitions
      /\ \A i \in DOMAIN pend.batches \ {n} : pend'.batches[i] = pend.batches[i]

\* It opens a batch.
OpensBatch(s, v) ==
  LET n == Len(pend.batches)
  IN  /\ EventTransition(s, val[s], v) /\ pend'.open
      /\ DOMAIN pend'.batches = DOMAIN pend.batches \cup {n + 1} /\ Len(pend'.batches) = n + 1
      /\ n + 1 \notin DOMAIN pend.batches
      /\ pend'.batches[n + 1].deposits = pend'.deposits
      /\ pend'.batches[n + 1].active = IF IsActiveEdge(Kind[s], val[s], v) THEN {s} ELSE {}
      /\ pend'.batches[n + 1].transitions = {s}
      /\ \A i \in DOMAIN pend.batches : pend'.batches[i] = pend.batches[i]

\* It is in no batch.
JoinsNone(s, v) ==
  /\ ~EventTransition(s, val[s], v) /\ pend'.batches = pend.batches /\ ~pend'.open

\* record_pending_write does one of the three.
LEMMA RecordShape ==
    ASSUME Inv, NEW s \in Sigs, NEW v \in Levels, Write(s, v)
    PROVE  JoinsBatch(s, v) \/ OpensBatch(s, v) \/ JoinsNone(s, v)
  <1> DEFINE edge == IsActiveEdge(Kind[s], val[s], v)
             transition == EventTransition(s, val[s], v)
             active == IF edge THEN {s} ELSE {}
             open == StaysOpen(pend, s, val[s], v)
             deposits == Over(pend.deposits, One(s, v))
             raw == [x \in hist.wrote \cup {s} |-> IF x = s THEN v ELSE val[x]]
             n == Len(pend.batches)
             last == pend.batches[n]
             joined == [active |-> last.active \cup active,
                        transitions |-> last.transitions \cup IF transition THEN {s} ELSE {},
                        deposits |-> deposits, raw |-> raw]
             fresh == [active |-> active, transitions |-> {s}, deposits |-> deposits,
                       raw |-> raw]
  <1>0. pend' = Record(pend, s, val[s], v)
    BY DEF Write
  <1>1. pend.batches \in Seq(EdgeBatch) /\ (pend.open => pend.batches # <<>>)
    BY DEF Inv, TypeOK, Writes
  <1>2. /\ pend'.deposits = deposits /\ pend'.open = (open \/ transition)
        /\ pend'.batches = IF open THEN [pend.batches EXCEPT ![n] = joined]
                           ELSE IF transition THEN Append(pend.batches, fresh) ELSE pend.batches
    BY <1>0 DEF Record, OpenBatch
  <1>3. /\ fresh.active = active /\ fresh.transitions = {s} /\ fresh.deposits = deposits
        /\ joined.active = last.active \cup active /\ joined.deposits = deposits
        /\ joined.transitions = last.transitions \cup IF transition THEN {s} ELSE {}
    OBVIOUS
  <1>4. open => pend.open /\ (transition => s \notin last.transitions)
    BY DEF StaysOpen, OpenBatch
  <1> HIDE DEF joined, fresh, open, deposits
  <1>5. CASE open
    <2>1. n \in DOMAIN pend.batches
      BY <1>1, <1>4, <1>5
    <2>2. /\ DOMAIN pend'.batches = DOMAIN pend.batches /\ Len(pend'.batches) = n
          /\ pend'.batches[n] = joined
          /\ \A i \in DOMAIN pend.batches \ {n} : pend'.batches[i] = pend.batches[i]
      BY <1>1, <1>2, <1>5, <2>1
    <2> QED  BY <1>2, <1>3, <1>4, <1>5, <2>1, <2>2 DEF JoinsBatch
  <1>6. CASE ~open /\ transition
    <2>1. /\ DOMAIN pend'.batches = DOMAIN pend.batches \cup {n + 1}
          /\ Len(pend'.batches) = n + 1 /\ n + 1 \notin DOMAIN pend.batches
          /\ pend'.batches[n + 1] = fresh
          /\ \A i \in DOMAIN pend.batches : pend'.batches[i] = pend.batches[i]
      BY <1>1, <1>2, <1>6
    <2> QED  BY <1>2, <1>3, <1>6, <2>1 DEF OpensBatch
  <1>7. CASE ~open /\ ~transition
    BY <1>2, <1>7 DEF JoinsNone
  <1> QED  BY <1>5, <1>6, <1>7

\* What is known of the deposits after a write.
LEMMA WriteDeposits ==
    ASSUME Inv, NEW s \in Sigs, NEW v \in Levels, Write(s, v)
    PROVE  /\ DOMAIN pend'.deposits = DOMAIN pend.deposits \cup {s} /\ pend'.deposits[s] = v
           /\ \A x \in DOMAIN pend.deposits \ {s} : pend'.deposits[x] = pend.deposits[x]
           /\ val'[s] = v /\ \A x \in Sigs \ {s} : val'[x] = val[x]
  <1>1. Recorded(pend', s, v)
    BY RecordFacts DEF Inv, Write
  <1> QED  BY <1>1 DEF Recorded, Write, Inv, TypeOK

\* A settlement keeps forced values and leaves the other inputs what they
\* were given.
LEMMA SettledOver ==
    ASSUME TypeOK, NEW r \in Deposits, NEW w \in Settled(Over(val, r)), NEW s \in Sigs
    PROVE  /\ forced[s].on => w[s] = forced[s].value
           /\ ~forced[s].on /\ s \notin Driven => w[s] = IF s \in DOMAIN r THEN r[s] ELSE val[s]
  <1>1. DOMAIN val = Sigs
    BY DEF TypeOK
  <1>2. Over(val, r)[s] = IF s \in DOMAIN r THEN r[s] ELSE val[s]
    BY <1>1 DEF Over
  <1> QED  BY <1>2 DEF Settled

\* The frame that replays a batch.
LEMMA ReplayFrames ==
    ASSUME Inv, ReplayBatch
    PROVE  LET n == Len(stack)
               batch == Head(stack[n].todo)
               restored == Restored(batch, stack[n].overrides)
           IN  /\ n \in Nat \ {0} /\ n \in DOMAIN stack /\ stack[n] \in Frame
               /\ DOMAIN stack' = DOMAIN stack /\ Len(stack') = n
               /\ stack[n].todo \in Seq(EdgeBatch) /\ stack[n].todo # <<>> /\ batch \in EdgeBatch
               /\ stack'[n].todo = Tail(stack[n].todo) /\ stack'[n].final = stack[n].final
               /\ stack'[n].overrides = stack[n].overrides /\ stack'[n].nested = stack[n].nested
               /\ \A k \in DOMAIN stack \ {n} : stack'[k] = stack[k]
               /\ restored \in Deposits
               /\ DOMAIN restored = DOMAIN batch.deposits \cup DOMAIN stack[n].overrides
               /\ \A s \in DOMAIN stack[n].overrides : restored[s] = stack[n].overrides[s]
               /\ \A s \in DOMAIN batch.deposits \ DOMAIN stack[n].overrides :
                    restored[s] = batch.deposits[s]
               /\ val' \in Settled(Over(val, restored))
               /\ pend = NoWrites /\ UNCHANGED <<pend, forced, running>>
               /\ hist'.stray = hist.stray
               /\ hist'.last = hist.last /\ hist'.cut = hist.cut /\ hist'.at = val'
               /\ hist'.ahead = (hist.ahead \cup DOMAIN stack[n].final) \ DOMAIN restored
               /\ hist'.ran = LiveEdges(batch, stack[n].overrides)
               /\ pc = "replay" /\ pc' = IF running THEN "callback" ELSE "replay"
  <1> DEFINE n == Len(stack)
             batch == Head(stack[n].todo)
             restored == Restored(batch, stack[n].overrides)
             f == [Top EXCEPT !.todo = Tail(@), !.turns = 0]
  <1>1. /\ pc = "replay" /\ Top.todo # <<>> /\ stack' = SetTop(f)
        /\ UNCHANGED <<pend, forced, running>>
        /\ val' \in Settled(Over(val, restored))
        /\ pc' = IF running THEN "callback" ELSE "replay"
    BY DEF ReplayBatch, Top
  <1>2. TypeOK /\ stack # <<>> /\ pend = NoWrites
    BY <1>1 DEF Inv, TypeOK, DataKept
  <1>3. Top \in Frame /\ n \in DOMAIN stack /\ Top = stack[n] /\ n \in Nat \ {0}
    BY <1>2, TopFacts DEF Top
  <1>4. Top.todo \in Seq(EdgeBatch) /\ Tail(Top.todo) \in Seq(EdgeBatch) /\ batch \in EdgeBatch
    BY <1>1, <1>3 DEF Frame
  <1>5. /\ f \in Frame /\ f.todo = Tail(Top.todo) /\ f.final = Top.final
        /\ f.overrides = Top.overrides /\ f.nested = Top.nested
    BY <1>3, <1>4 DEF Frame
  <1>6. hist \in History
    BY <1>2 DEF TypeOK
  <1>7. /\ hist'.last = hist.last /\ hist'.cut = hist.cut /\ hist'.at = val'
        /\ hist'.stray = hist.stray
        /\ hist'.ahead = (hist.ahead \cup DOMAIN stack[n].final) \ DOMAIN restored
        /\ hist'.ran = LiveEdges(batch, stack[n].overrides)
    BY <1>6 DEF ReplayBatch, History, Top
  <1> HIDE DEF f
  <1>8. /\ DOMAIN stack' = DOMAIN stack /\ stack'[n] = f /\ Len(stack') = n
        /\ \A k \in DOMAIN stack \ {n} : stack'[k] = stack[k]
    BY <1>1, <1>2, <1>5, SetTopAt, SetTopFacts
  <1>9. batch.deposits \in Deposits /\ stack[n].overrides \in Deposits
    BY <1>3, <1>4 DEF EdgeBatch, Frame
  <1>10. /\ restored \in Deposits
         /\ DOMAIN restored = DOMAIN batch.deposits \cup DOMAIN stack[n].overrides
         /\ \A s \in DOMAIN stack[n].overrides : restored[s] = stack[n].overrides[s]
         /\ \A s \in DOMAIN batch.deposits \ DOMAIN stack[n].overrides :
              restored[s] = batch.deposits[s]
    <2> DEFINE b == batch.deposits
               o == stack[n].overrides
    <2>1. b \in Deposits /\ o \in Deposits /\ restored = Over(b, o)
      BY <1>9 DEF Restored
    <2> HIDE DEF b, o, restored
    <2>2. /\ restored \in Deposits /\ DOMAIN restored = DOMAIN b \cup DOMAIN o
          /\ \A s \in DOMAIN o : restored[s] = o[s]
          /\ \A s \in DOMAIN b \ DOMAIN o : restored[s] = b[s]
      BY <2>1, OverDeposits
    <2> QED  BY <2>2 DEF b, o
  <1> HIDE DEF restored, batch
  <1> QED  BY <1>1, <1>2, <1>3, <1>4, <1>5, <1>7, <1>8, <1>10 DEF restored, batch

\* The final settlement ends a flush and resumes the one around it.
LEMMA FinalFrames ==
    ASSUME Inv, FinalSettle
    PROVE  LET n == Len(stack)
           IN  /\ n \in Nat \ {0} /\ n \in DOMAIN stack /\ stack[n] \in Frame
               /\ stack[n].final \in Deposits
               /\ val' \in Settled(Over(val, stack[n].final))
               /\ pend = NoWrites /\ UNCHANGED <<pend, forced, running>>
               /\ hist'.stray = hist.stray
               /\ hist'.last = hist.last /\ hist'.cut = hist.cut /\ hist'.at = val'
               /\ hist'.ahead = hist.ahead \ DOMAIN stack[n].final /\ hist'.ran = {}
               /\ pc = "replay" /\ pc' \in {"callback", "host"}
               /\ n = 1 => stack' = <<>>
               /\ n = 2 => /\ stack[1] \in Frame /\ Resumed(stack[1]) \in Frame
                           /\ DOMAIN stack' = {1} /\ Len(stack') = 1
                           /\ stack'[1] = Resumed(stack[1])
  <1> DEFINE n == Len(stack)
  <1>1. /\ pc = "replay" /\ UNCHANGED <<pend, forced, running>>
        /\ val' \in Settled(Over(val, stack[n].final)) /\ pc' \in {"callback", "host"}
    BY DEF FinalSettle, Top, Returned
  <1>2. TypeOK /\ stack # <<>> /\ stack \in Seq(Frame) /\ pend = NoWrites /\ hist \in History
    BY <1>1 DEF Inv, TypeOK, DataKept
  <1>3. n \in Nat \ {0} /\ n \in DOMAIN stack /\ stack[n] \in Frame
    BY <1>2, TopFacts DEF Top
  <1>4. stack[n].final \in Deposits
    BY <1>3 DEF Frame
  <1>5. /\ hist'.last = hist.last /\ hist'.cut = hist.cut /\ hist'.at = val'
        /\ hist'.stray = hist.stray
        /\ hist'.ahead = hist.ahead \ DOMAIN stack[n].final /\ hist'.ran = {}
    BY <1>2 DEF FinalSettle, History, Top
  <1>6. n = 1 => stack' = <<>>
    BY DEF FinalSettle
  <1>7. ASSUME n = 2
        PROVE  /\ stack[1] \in Frame /\ Resumed(stack[1]) \in Frame
               /\ DOMAIN stack' = {1} /\ Len(stack') = 1 /\ stack'[1] = Resumed(stack[1])
    <2>1. stack[1] \in Frame
      BY <1>2, <1>7
    <2>2. Resumed(stack[1]) \in Frame
      <3> DEFINE g == stack[1]
      <3>1. g \in Frame
        BY <2>1
      <3> HIDE DEF g
      <3>2. /\ Over(g.overrides, g.nested) \in Deposits /\ Over(g.final, g.nested) \in Deposits
            /\ <<>> \in Deposits
        BY <3>1, OverDeposits, NoDeposits DEF Frame
      <3>3. Resumed(g) \in Frame
        BY <3>1, <3>2 DEF Resumed, Frame
      <3> QED  BY <3>3 DEF g
    <2>3. Len(stack) - 2 = 0 /\ Len(stack) - 1 = 1 /\ Len(stack) # 1
      BY <1>7
    <2>4. stack' = Append(SubSeq(stack, 1, 0), Resumed(stack[1]))
      BY <2>3 DEF FinalSettle
    <2> DEFINE e == SubSeq(stack, 1, 0)
               f == Resumed(stack[1])
    <2>5. e \in Seq(Frame) /\ Len(e) = 0
      <3>1. 0 \in Nat /\ 0 < Len(stack)
        BY <1>7
      <3> QED  BY <1>2, <3>1, PrefixFacts
    <2>6. f \in Frame /\ stack' = Append(e, f)
      BY <2>2, <2>4
    <2> HIDE DEF e, f
    <2>7. Len(stack') = 1 /\ DOMAIN stack' = {1} /\ stack'[1] = f
      BY <2>5, <2>6
    <2> QED  BY <2>1, <2>2, <2>7 DEF f
  <1> QED  BY <1>1, <1>2, <1>3, <1>4, <1>5, <1>6, <1>7

\* A nested flush returns to the one around it.
LEMMA FinalResumes ==
    ASSUME Inv, FinalSettle, Len(stack) # 1
    PROVE  LET n == Len(stack)
               m == n - 1
           IN  /\ m \in DOMAIN stack /\ m # n /\ stack[m] \in Frame
               /\ DOMAIN stack' = DOMAIN stack \ {n} /\ Len(stack') = m
               /\ stack'[m] = Resumed(stack[m])
               /\ \A k \in DOMAIN stack \ {n, m} : stack'[k] = stack[k]
  <1>0. PICK n, m, l : n = Len(stack) /\ m = n - 1 /\ l = n - 2
    OBVIOUS
  <1>1. /\ stack' = Append(SubSeq(stack, 1, l), Resumed(stack[m])) /\ pc = "replay"
    BY <1>0 DEF FinalSettle
  <1>2. TypeOK /\ stack # <<>> /\ stack \in Seq(Frame)
    BY <1>1 DEF Inv, TypeOK
  <1>3. n \in Nat /\ n >= 2 /\ DOMAIN stack = 1..n
    <2>1. n \in Nat /\ n # 0 /\ n # 1
      BY <1>0, <1>2
    <2> QED  BY <1>0, <1>2, <2>1
  <1>4. m \in Nat /\ l \in Nat /\ m = l + 1 /\ n = l + 2 /\ l < n
    BY <1>0, <1>3
  <1>5. PICK p : /\ p = SubSeq(stack, 1, l) /\ p \in Seq(Frame) /\ Len(p) = l
                 /\ \A k \in DOMAIN p : p[k] = stack[k]
    BY <1>0, <1>2, <1>4, PrefixFacts
  <1>6. PICK g : g = stack[m] /\ g \in Frame
    BY <1>2, <1>3, <1>4
  <1>7. Resumed(g) \in Frame
    <2>1. /\ Over(g.overrides, g.nested) \in Deposits /\ Over(g.final, g.nested) \in Deposits
          /\ <<>> \in Deposits
      BY <1>6, OverDeposits, NoDeposits DEF Frame
    <2> QED  BY <1>6, <2>1 DEF Resumed, Frame
  <1>8. PICK f : f = Resumed(g) /\ f \in Frame /\ stack' = Append(p, f)
    BY <1>1, <1>5, <1>6, <1>7
  <1>9. /\ Len(stack') = m /\ DOMAIN stack' = 1..m /\ stack'[m] = f
        /\ \A k \in 1..l : stack'[k] = p[k]
    BY <1>4, <1>5, <1>8
  <1>10. \A k \in DOMAIN stack \ {n, m} : k \in 1..l /\ k \in DOMAIN p
    BY <1>3, <1>4, <1>5
  <1>11. DOMAIN stack' = DOMAIN stack \ {n} /\ m \in DOMAIN stack /\ m # n
    BY <1>3, <1>4, <1>9
  <1>12. \A k \in DOMAIN stack \ {n, m} : stack'[k] = stack[k]
    BY <1>5, <1>9, <1>10
  <1> QED  BY <1>0, <1>6, <1>8, <1>9, <1>11, <1>12

\* A frame that resumes has what the nested flush wrote over its own.
LEMMA ResumedFacts ==
    ASSUME NEW g \in Frame
    PROVE  /\ Resumed(g).todo = g.todo /\ Resumed(g).nested = <<>>
           /\ DOMAIN Resumed(g).final = DOMAIN g.final \cup DOMAIN g.nested
           /\ DOMAIN Resumed(g).overrides = DOMAIN g.overrides \cup DOMAIN g.nested
           /\ \A s \in DOMAIN g.nested : Resumed(g).final[s] = g.nested[s]
           /\ \A s \in DOMAIN g.final \ DOMAIN g.nested : Resumed(g).final[s] = g.final[s]
  <1> DEFINE o == g.overrides
             n == g.nested
             l == g.final
  <1>1. o \in Deposits /\ n \in Deposits /\ l \in Deposits
    BY DEF Frame
  <1>2. /\ Resumed(g).todo = g.todo /\ Resumed(g).nested = <<>>
        /\ Resumed(g).final = Over(l, n) /\ Resumed(g).overrides = Over(o, n)
    BY DEF Resumed, Frame
  <1> HIDE DEF o, n, l
  <1>3. /\ DOMAIN Over(l, n) = DOMAIN l \cup DOMAIN n /\ DOMAIN Over(o, n) = DOMAIN o \cup DOMAIN n
        /\ \A s \in DOMAIN n : Over(l, n)[s] = n[s]
        /\ \A s \in DOMAIN l \ DOMAIN n : Over(l, n)[s] = l[s]
    BY <1>1, OverDeposits
  <1> QED  BY <1>2, <1>3 DEF o, n, l

\* The frame of a new flush.
LEMMA BeginFrames ==
    ASSUME Inv, BeginFlush, pend.settle
    PROVE  LET n == Len(stack) + 1
           IN  /\ n \in Nat /\ DOMAIN stack' = DOMAIN stack \cup {n} /\ n \notin DOMAIN stack
               /\ Len(stack') = n
               /\ stack'[n].todo = pend.batches /\ stack'[n].final = pend.deposits
               /\ stack'[n].overrides = <<>> /\ stack'[n].nested = <<>>
               /\ \A k \in DOMAIN stack : stack'[k] = stack[k]
  <1> DEFINE n == Len(stack) + 1
             f == [todo |-> pend.batches, final |-> pend.deposits, overrides |-> <<>>,
                   nested |-> <<>>, turns |-> 0]
  <1>1. stack' = Append(stack, f)
    BY DEF BeginFlush
  <1>2. /\ f.todo = pend.batches /\ f.final = pend.deposits /\ f.overrides = <<>>
        /\ f.nested = <<>>
    OBVIOUS
  <1>3. stack \in Seq(Frame)
    BY DEF Inv, TypeOK
  <1> HIDE DEF f
  <1>4. /\ n \in Nat /\ DOMAIN stack' = DOMAIN stack \cup {n} /\ n \notin DOMAIN stack
        /\ Len(stack') = n /\ stack'[n] = f
        /\ \A k \in DOMAIN stack : stack'[k] = stack[k]
    BY <1>1, <1>3
  <1> QED  BY <1>2, <1>4

\* The frame whose callbacks wrote.
LEMMA NestedFrames ==
    ASSUME Inv, FlushNested
    PROVE  LET n == Len(stack)
           IN  /\ n \in Nat \ {0} /\ n \in DOMAIN stack /\ DOMAIN stack' = DOMAIN stack
               /\ Len(stack') = n
               /\ stack'[n].todo = stack[n].todo /\ stack'[n].final = stack[n].final
               /\ stack'[n].overrides = stack[n].overrides
               /\ stack'[n].nested = pend.deposits
               /\ \A k \in DOMAIN stack \ {n} : stack'[k] = stack[k]
               /\ pend.settle /\ pc = "dispatched" /\ pc' = "begin"
               /\ UNCHANGED <<val, forced, pend, running, hist>>
  <1> DEFINE n == Len(stack)
             f == [Top EXCEPT !.nested = pend.deposits, !.turns = @ + 1]
  <1>1. /\ pc = "dispatched" /\ pc' = "begin" /\ stack' = SetTop(f) /\ pend.settle
        /\ UNCHANGED <<val, forced, pend, running, hist>>
    BY DEF FlushNested
  <1>2. TypeOK /\ stack # <<>>
    BY <1>1 DEF Inv, TypeOK
  <1>3. Top \in Frame /\ n \in DOMAIN stack /\ Top = stack[n] /\ n \in Nat \ {0}
    BY <1>2, TopFacts DEF Top
  <1>4. pend.deposits \in Deposits /\ Top.turns + 1 \in Nat
    BY <1>2, <1>3 DEF TypeOK, Writes, Frame
  <1>5. /\ f \in Frame /\ f.todo = Top.todo /\ f.final = Top.final
        /\ f.overrides = Top.overrides /\ f.nested = pend.deposits
    BY <1>3, <1>4 DEF Frame
  <1> HIDE DEF f
  <1>6. /\ DOMAIN stack' = DOMAIN stack /\ stack'[n] = f /\ Len(stack') = n
        /\ \A k \in DOMAIN stack \ {n} : stack'[k] = stack[k]
    BY <1>1, <1>2, <1>5, SetTopAt, SetTopFacts
  <1> QED  BY <1>1, <1>3, <1>5, <1>6

-----------------------------------------------------------------------------
(* Flushes two deep                                                        *)

\* The batches put back no signal outside D.
Covered(bs, D) == \A i \in DOMAIN bs : DOMAIN bs[i].deposits \subseteq D

\* When callbacks inside a nested flush do not write, flushes nest two deep,
\* and the inner one replays what the outer one has noted as nested.
Nesting ==
  /\ Len(stack) <= 2
  /\ Len(stack) = 2 => /\ ~pend.settle /\ pc # "begin"
                       /\ stack[2].final = stack[1].nested /\ stack[2].overrides = <<>>
  /\ Len(stack) = 1 /\ pc = "begin" => stack[1].nested = pend.deposits
  /\ stack # <<>> /\ pc # "begin" => stack[Len(stack)].nested = <<>>
  /\ Covered(pend.batches, DOMAIN pend.deposits)
  /\ \A k \in DOMAIN stack : /\ DOMAIN stack[k].overrides \subseteq DOMAIN stack[k].final
                             /\ Covered(stack[k].todo, DOMAIN stack[k].final)

\* What the stack looks like.
LEMMA StackFacts ==
    ASSUME TypeOK
    PROVE  /\ Len(stack) \in Nat /\ DOMAIN stack = 1..Len(stack)
           /\ (stack = <<>> <=> Len(stack) = 0)
           /\ \A k \in DOMAIN stack : stack[k] \in Frame
  BY DEF TypeOK

\* Where foreign code writes, at most one flush is in progress.
LEMMA ForeignFacts ==
    ASSUME WriteDepth <= 1, Inv, Foreign, AfterPut, UNCHANGED running
    PROVE  /\ Len(stack) <= 1 /\ (pc' = "begin" => stack = <<>>)
           /\ (stack # <<>> => pc = "callback" /\ pc' = "callback") /\ pc' # "replay"
           /\ pc # "replay"
  <1>1. Len(stack) \in Nat /\ WriteDepth \in Nat /\ (stack = <<>> <=> Len(stack) = 0)
    BY StackFacts, VpiWritesAssumption DEF Inv
  <1>2. pc \in {"host", "callback"} /\ (pc = "host" => stack = <<>> /\ ~running)
        /\ (pc = "callback" => running) /\ (pc = "callback" => Len(stack) <= 1)
    BY <1>1 DEF Foreign, Inv, TypeOK
  <1>3. pc' = IF running THEN pc ELSE "begin"
    BY DEF AfterPut
  <1>4. Len(stack) <= 1
    BY <1>1, <1>2
  <1> QED  BY <1>2, <1>3, <1>4

\* Writes keep the nesting: every batch has at most the signals written.
LEMMA WriteNests ==
    ASSUME WriteDepth <= 1, Inv, Nesting, Foreign, AfterPut, UNCHANGED <<stack, running>>,
           NEW s \in Sigs, NEW v \in Levels, Write(s, v)
    PROVE  Nesting'
  <1>1. /\ Len(stack) <= 1 /\ (pc' = "begin" => stack = <<>>)
        /\ (stack # <<>> => pc = "callback" /\ pc' = "callback")
    BY ForeignFacts
  <1>2. Len(stack) \in Nat /\ (stack = <<>> <=> Len(stack) = 0)
    BY StackFacts DEF Inv
  <1>3. DOMAIN pend'.deposits = DOMAIN pend.deposits \cup {s}
    BY WriteDeposits
  <1>4. Covered(pend.batches, DOMAIN pend.deposits)
    BY DEF Nesting
  <1>5. Covered(pend'.batches, DOMAIN pend'.deposits)
    <2>1. CASE JoinsBatch(s, v)
      BY <1>3, <1>4, <2>1 DEF JoinsBatch, Covered
    <2>2. CASE OpensBatch(s, v)
      BY <1>3, <1>4, <2>2 DEF OpensBatch, Covered
    <2>3. CASE JoinsNone(s, v)
      BY <1>3, <1>4, <2>3 DEF JoinsNone, Covered
    <2> QED  BY <2>1, <2>2, <2>3, RecordShape
  <1>6. Len(stack) # 2 /\ ~(Len(stack) = 1 /\ pc' = "begin")
    BY <1>1, <1>2
  <1> QED  BY <1>1, <1>5, <1>6 DEF Nesting

\* Control that stays away from the start of a flush keeps the nesting.
LEMMA NestingFrame ==
    ASSUME Nesting, UNCHANGED <<pend, stack>>, pc' # "begin" \/ stack = <<>>,
           pc # "begin" \/ stack = <<>>
    PROVE  Nesting'
  <1>1. Len(<<>>) = 0
    OBVIOUS
  <1> QED  BY <1>1 DEF Nesting

\* A cut leaves no flush.
LEMMA NestingCut ==
    ASSUME Nesting, stack' = <<>>, pend' = pend \/ pend' = NoWrites
    PROVE  Nesting'
  <1>1. Len(<<>>) = 0 /\ DOMAIN <<>> = {} /\ DOMAIN NoWrites.batches = {}
    BY DEF NoWrites
  <1> QED  BY <1>1 DEF Nesting, Covered

\* A new flush takes the pending batches.
LEMMA BeginNests == ASSUME Inv, Nesting, BeginFlush PROVE Nesting'
  <1>0. /\ pc = "begin" /\ pend' = NoWrites /\ DOMAIN <<>> = {} /\ DOMAIN NoWrites.batches = {}
        /\ ~NoWrites.settle
    BY DEF BeginFlush, NoWrites
  <1>1. Len(stack) \in Nat /\ DOMAIN stack = 1..Len(stack) /\ (stack = <<>> <=> Len(stack) = 0)
    BY StackFacts DEF Inv
  <1>2. Len(stack) <= 1
    BY <1>0, <1>1 DEF Nesting
  <1>3. Covered(pend'.batches, DOMAIN pend'.deposits)
    BY <1>0 DEF Covered
  <1>4. CASE pend.settle
    <2> DEFINE n == Len(stack) + 1
    <2>1. /\ DOMAIN stack' = DOMAIN stack \cup {n} /\ Len(stack') = n
          /\ stack'[n].todo = pend.batches /\ stack'[n].final = pend.deposits
          /\ stack'[n].overrides = <<>> /\ stack'[n].nested = <<>>
          /\ \A k \in DOMAIN stack : stack'[k] = stack[k]
      BY <1>4, BeginFrames
    <2>2. pc' = "replay"
      BY <1>4 DEF BeginFlush
    <2>3. n = 1 \/ (n = 2 /\ Len(stack) = 1 /\ 1 \in DOMAIN stack)
      BY <1>1, <1>2
    <2>4. Len(stack') <= 2
      BY <2>1, <2>3
    <2>5. Len(stack') = 2 => /\ stack'[2].final = stack'[1].nested /\ stack'[2].overrides = <<>>
      <3>1. CASE n = 1
        BY <2>1, <3>1
      <3>2. CASE n = 2 /\ Len(stack) = 1 /\ 1 \in DOMAIN stack
        <4>1. stack[1].nested = pend.deposits
          BY <1>0, <3>2 DEF Nesting
        <4>2. stack'[1] = stack[1]
          BY <2>1, <3>2
        <4>3. stack'[2].final = pend.deposits /\ stack'[2].overrides = <<>>
          BY <2>1, <3>2
        <4> QED  BY <4>1, <4>2, <4>3
      <3> QED  BY <2>3, <3>1, <3>2
    <2>6. \A k \in DOMAIN stack' : /\ DOMAIN stack'[k].overrides \subseteq DOMAIN stack'[k].final
                                   /\ Covered(stack'[k].todo, DOMAIN stack'[k].final)
      BY <1>0, <2>1 DEF Nesting
    <2>7. stack'[Len(stack')].nested = <<>>
      BY <2>1
    <2> HIDE DEF n
    <2> QED  BY <1>0, <1>3, <2>2, <2>4, <2>5, <2>6, <2>7 DEF Nesting
  <1>5. CASE ~pend.settle
    <2>1. pend = NoWrites /\ stack' = stack /\ pc' # "begin" /\ pend.deposits = <<>>
      BY <1>5 DEF Inv, DataKept, BeginFlush, Returned, NoWrites
    <2>2. stack # <<>> => stack[Len(stack)].nested = <<>>
      <3>1. stack # <<>> => Len(stack) = 1
        BY <1>1, <1>2
      <3> QED  BY <1>0, <2>1, <3>1 DEF Nesting
    <2>3. Len(stack) # 2
      BY <1>1, <1>2
    <2> QED  BY <1>0, <1>3, <2>1, <2>2, <2>3 DEF Nesting
  <1> QED  BY <1>4, <1>5

\* A replayed batch leaves fewer.
LEMMA ReplayNests == ASSUME Inv, Nesting, ReplayBatch PROVE Nesting'
  <1> DEFINE n == Len(stack)
  <1>1. /\ n \in Nat \ {0} /\ n \in DOMAIN stack /\ DOMAIN stack' = DOMAIN stack
        /\ Len(stack') = n
        /\ stack[n].todo \in Seq(EdgeBatch) /\ stack[n].todo # <<>>
        /\ stack'[n].todo = Tail(stack[n].todo) /\ stack'[n].final = stack[n].final
        /\ stack'[n].overrides = stack[n].overrides /\ stack'[n].nested = stack[n].nested
        /\ \A k \in DOMAIN stack \ {n} : stack'[k] = stack[k]
        /\ pend' = pend /\ pc = "replay" /\ pc' = IF running THEN "callback" ELSE "replay"
    BY ReplayFrames
  <1>2. pc' # "begin"
    BY <1>1
  <1>3. Covered(stack'[n].todo, DOMAIN stack'[n].final)
    <2> DEFINE t == stack[n].todo
    <2>1. t \in Seq(EdgeBatch) /\ t # <<>> /\ Covered(t, DOMAIN stack[n].final)
      BY <1>1 DEF Nesting
    <2> HIDE DEF t
    <2>2. \A i \in DOMAIN Tail(t) : i + 1 \in DOMAIN t /\ Tail(t)[i] = t[i + 1]
      BY <2>1
    <2>3. Covered(Tail(t), DOMAIN stack[n].final)
      BY <2>1, <2>2 DEF Covered
    <2> QED  BY <1>1, <2>3 DEF t
  <1>4. \A k \in DOMAIN stack' : /\ DOMAIN stack'[k].overrides \subseteq DOMAIN stack'[k].final
                                 /\ Covered(stack'[k].todo, DOMAIN stack'[k].final)
    BY <1>1, <1>3 DEF Nesting
  <1>5. DOMAIN stack = 1..n
    BY StackFacts DEF Inv
  <1>6. Len(stack') = 2 => /\ ~pend'.settle
                           /\ stack'[2].final = stack'[1].nested /\ stack'[2].overrides = <<>>
    <2> SUFFICES ASSUME n = 2
                 PROVE  /\ ~pend'.settle
                        /\ stack'[2].final = stack'[1].nested /\ stack'[2].overrides = <<>>
      BY <1>1
    <2>1. 1 \in DOMAIN stack \ {n} /\ stack'[1] = stack[1]
      BY <1>1, <1>5
    <2> QED  BY <1>1, <2>1 DEF Nesting
  <1>7. Len(stack') <= 2 /\ stack'[Len(stack')].nested = <<>> /\ stack # <<>>
    <2>1. stack # <<>>
      BY <1>1, StackFacts DEF Inv
    <2> QED  BY <1>1, <2>1 DEF Nesting
  <1>8. Covered(pend'.batches, DOMAIN pend'.deposits)
    BY <1>1 DEF Nesting
  <1> HIDE DEF n
  <1> QED  BY <1>2, <1>4, <1>6, <1>7, <1>8 DEF Nesting

\* The flush around a nested one goes on with what that wrote over its own.
LEMMA FinalNests == ASSUME Inv, Nesting, FinalSettle PROVE Nesting'
  <1> DEFINE n == Len(stack)
  <1>1. /\ n \in Nat \ {0} /\ pend' = pend /\ pend = NoWrites /\ pc' \in {"callback", "host"}
        /\ n = 1 => stack' = <<>>
        /\ n = 2 => /\ stack[1] \in Frame /\ DOMAIN stack' = {1} /\ Len(stack') = 1
                    /\ stack'[1] = Resumed(stack[1])
    BY FinalFrames
  <1>2. CASE n = 1
    BY <1>1, <1>2, NestingCut
  <1>3. CASE n = 2
    <2> DEFINE g == stack[1]
    <2>1. g \in Frame /\ 1 \in DOMAIN stack
      BY <1>1, <1>3, StackFacts DEF Inv
    <2>2. /\ Resumed(g).todo = g.todo /\ Resumed(g).nested = <<>>
          /\ DOMAIN Resumed(g).final = DOMAIN g.final \cup DOMAIN g.nested
          /\ DOMAIN Resumed(g).overrides = DOMAIN g.overrides \cup DOMAIN g.nested
      BY <2>1, ResumedFacts
    <2>3. DOMAIN g.overrides \subseteq DOMAIN g.final /\ Covered(g.todo, DOMAIN g.final)
      BY <2>1 DEF Nesting
    <2>4. stack'[1] = Resumed(g)
      BY <1>1, <1>3
    <2> HIDE DEF g
    <2>5. /\ DOMAIN stack'[1].overrides \subseteq DOMAIN stack'[1].final
          /\ Covered(stack'[1].todo, DOMAIN stack'[1].final)
      BY <2>2, <2>3, <2>4 DEF Covered
    <2>6. stack'[Len(stack')].nested = <<>>
      BY <1>1, <1>3, <2>2, <2>4
    <2>7. Covered(pend'.batches, DOMAIN pend'.deposits)
      BY <1>1 DEF Nesting
    <2>8. Len(stack') = 1 /\ DOMAIN stack' = {1}
      BY <1>1, <1>3
    <2> QED  BY <1>1, <2>5, <2>6, <2>7, <2>8 DEF Nesting
  <1>4. n = 1 \/ n = 2
    <2>1. n <= 2
      BY DEF Nesting
    <2> HIDE DEF n
    <2> QED  BY <1>1, <2>1
  <1> QED  BY <1>2, <1>3, <1>4

\* A flush begins a nested one.
LEMMA FlushNestedNests == ASSUME Inv, Nesting, FlushNested PROVE Nesting'
  <1> DEFINE n == Len(stack)
  <1>1. /\ n \in Nat \ {0} /\ n \in DOMAIN stack /\ DOMAIN stack' = DOMAIN stack
        /\ Len(stack') = n
        /\ stack'[n].todo = stack[n].todo /\ stack'[n].final = stack[n].final
        /\ stack'[n].overrides = stack[n].overrides
        /\ stack'[n].nested = pend.deposits
        /\ \A k \in DOMAIN stack \ {n} : stack'[k] = stack[k]
        /\ pend.settle /\ pc' = "begin" /\ UNCHANGED pend
    BY NestedFrames
  <1>2. n = 1
    BY <1>1 DEF Nesting
  <1>3. \A k \in DOMAIN stack' : /\ DOMAIN stack'[k].overrides \subseteq DOMAIN stack'[k].final
                                 /\ Covered(stack'[k].todo, DOMAIN stack'[k].final)
    BY <1>1 DEF Nesting
  <1>4. Covered(pend'.batches, DOMAIN pend'.deposits)
    BY <1>1 DEF Nesting
  <1>5. stack'[1].nested = pend'.deposits /\ Len(stack') = 1
    BY <1>1, <1>2
  <1> QED  BY <1>1, <1>3, <1>4, <1>5 DEF Nesting

\* Nothing is nested at the start.
LEMMA NestingInit == ASSUME pend = NoWrites, stack = <<>> PROVE Nesting
  <1>1. Len(<<>>) = 0 /\ DOMAIN <<>> = {} /\ DOMAIN NoWrites.batches = {}
    BY DEF NoWrites
  <1> QED  BY <1>1 DEF Nesting, Covered

\* Every step keeps the nesting.
LEMMA NestingStep == ASSUME WriteDepth <= 1, Inv, Nesting, [Next]_vars PROVE Nesting'
  <1>0. TypeOK
    BY DEF Inv
  <1>1. ASSUME NEW s \in Sigs, NEW v \in Levels, Deposit(s, v) PROVE Nesting'
    <2>1. Foreign /\ UNCHANGED <<stack, running>>
      BY <1>1 DEF Deposit
    <2>2. CASE forced[s].on
      <3>1. UNCHANGED <<pend, stack, pc>> /\ pc # "begin"
        BY <1>1, <2>1, <2>2 DEF Deposit, Foreign
      <3> QED  BY <3>1, NestingFrame
    <2>3. CASE ~forced[s].on
      <3>1. Write(s, v) /\ AfterPut
        BY <1>1, <2>3 DEF Deposit
      <3> QED  BY <2>1, <3>1, WriteNests
    <2> QED  BY <2>2, <2>3
  <1>2. ASSUME NEW s \in Sigs, NEW v \in Levels, ForceValue(s, v) PROVE Nesting'
    BY <1>2, WriteNests DEF ForceValue
  <1>3. ASSUME NEW s \in Sigs, Release(s) PROVE Nesting'
    <2>1. Foreign /\ AfterPut /\ UNCHANGED <<stack, running>>
      BY <1>3 DEF Release
    <2>2. CASE forced[s].on
      <3>1. ReleasedValue(s) \in Levels
        BY <1>0 DEF ReleasedValue, TypeOK
      <3>2. Write(s, ReleasedValue(s))
        BY <1>3, <2>2 DEF Release
      <3> QED  BY <2>1, <3>1, <3>2, WriteNests
    <2>3. CASE ~forced[s].on
      <3>1. UNCHANGED pend
        BY <1>3, <2>3 DEF Release
      <3>2. (pc' = "begin" => stack = <<>>) /\ pc # "begin"
        BY <2>1, ForeignFacts DEF Foreign
      <3> QED  BY <2>1, <3>1, <3>2, NestingFrame
    <2> QED  BY <2>2, <2>3
  <1>4. CASE Finish \/ RunBegins \/ RegionEnds \/ RunEnds \/ CallbacksReturn \/ NextBatch
    <2>1. /\ UNCHANGED <<pend, stack>> /\ pc # "begin"
          /\ pc' # "begin" \/ stack = <<>>
      BY <1>4 DEF Finish, RunBegins, RegionEnds, RunEnds, CallbacksReturn, NextBatch, Foreign
    <2> QED  BY <2>1, NestingFrame
  <1>5. CASE InstallRuntime
    <2>1. pend' = NoWrites /\ stack' = <<>>
      BY <1>0, <1>5 DEF InstallRuntime, TypeOK
    <2> QED  BY <2>1, NestingCut
  <1>6. CASE BeginFlush
    BY <1>6, BeginNests
  <1>7. CASE ReplayBatch
    BY <1>7, ReplayNests
  <1>8. CASE FinishSeen \/ SettleFails \/ TooManySettlements
    <2>1. stack' = <<>> /\ (pend' = pend \/ pend' = NoWrites)
      BY <1>8 DEF FinishSeen, SettleFails, TooManySettlements, Unwind
    <2> QED  BY <2>1, NestingCut
  <1>9. CASE FlushNested
    BY <1>9, FlushNestedNests
  <1>10. CASE FinalSettle
    BY <1>10, FinalNests
  <1>11. CASE UNCHANGED vars
    BY <1>11 DEF vars, Nesting
  <1> QED
    BY <1>1, <1>2, <1>3, <1>4, <1>5, <1>6, <1>7, <1>8, <1>9, <1>10, <1>11 DEF Next

-----------------------------------------------------------------------------
(* The last write stays                                                    *)

\* Flush f will put s back.
Holds(f, s) == s \in DOMAIN f.final \cup DOMAIN f.nested

\* The value it will put back.
Given(f, s) == IF s \in DOMAIN f.nested THEN f.nested[s] ELSE f.final[s]

\* A flush puts back nothing that is not among its final deposits, remembers
\* what it is about to flush for its callbacks and nothing else, and a pending
\* write that is not lost is held by no flush but the innermost.
Layers ==
  /\ stack # <<>> =>
       stack[Len(stack)].nested = IF pc = "begin" THEN pend.deposits ELSE <<>>
  /\ Covered(pend.batches, DOMAIN pend.deposits)
  /\ \A k \in DOMAIN stack : /\ DOMAIN stack[k].overrides \subseteq DOMAIN stack[k].final
                             /\ Covered(stack[k].todo, DOMAIN stack[k].final)
  /\ \A s \in DOMAIN pend.deposits \ hist.stray :
       \A k \in 1..(Len(stack) - 1) : ~Holds(stack[k], s)

\* What will be left of s when everything is flushed is its last deposit.
Stands(s) ==
  IF s \in DOMAIN pend.deposits THEN pend.deposits[s] = hist.last[s]
  ELSE IF \E k \in DOMAIN stack : Holds(stack[k], s)
       THEN \A k \in DOMAIN stack : Holds(stack[k], s) => Given(stack[k], s) = hist.last[s]
       ELSE val[s] = hist.last[s]

\* A forced signal has its forced value and remembers the last deposit.
ForcedHold ==
  \A s \in Sigs : forced[s].on => /\ val[s] = forced[s].value
                                  /\ s \in Driven \cup hist.stray
                                       \/ forced[s].deposited = hist.last[s]

\* The deposit that stands is the last one.
LastStands ==
  ~hist.cut => \A s \in Sigs \ (Driven \cup hist.stray) : ~forced[s].on => Stands(s)

LastKept == Layers /\ ForcedHold /\ LastStands

\* A flush outside the innermost holds s.
LEMMA OuterHoldsDef == \A s : OuterHolds(s) <=> \E k \in 1..(Len(stack) - 1) : Holds(stack[k], s)
  BY DEF OuterHolds, Holds

\* Where foreign code has control a flush in progress stays where it is.
LEMMA ForeignStays ==
    ASSUME TypeOK, Foreign, AfterPut, UNCHANGED running
    PROVE  /\ pc # "begin" /\ (stack # <<>> => pc' = pc)
           /\ (stack = <<>> <=> Len(stack) = 0) /\ Len(stack) \in Nat
  BY StackFacts DEF Foreign, AfterPut, TypeOK

\* A write of foreign code is lost only where an outer flush holds its signal.
LEMMA WriteLayers ==
    ASSUME Inv, Layers, Foreign, AfterPut, UNCHANGED <<stack, running>>,
           NEW s \in Sigs, NEW v \in Levels, Write(s, v),
           hist.stray \ {s} \subseteq hist'.stray, s \in hist'.stray \/ ~OuterHolds(s)
    PROVE  Layers'
  <1>1. pc # "begin" /\ (stack # <<>> => pc' # "begin")
    BY ForeignStays DEF Inv
  <1>2. DOMAIN pend'.deposits = DOMAIN pend.deposits \cup {s}
    BY WriteDeposits
  <1>3. Covered(pend.batches, DOMAIN pend.deposits)
    BY DEF Layers
  <1>4. Covered(pend'.batches, DOMAIN pend'.deposits)
    <2>1. CASE JoinsBatch(s, v)
      BY <1>2, <1>3, <2>1 DEF JoinsBatch, Covered
    <2>2. CASE OpensBatch(s, v)
      BY <1>2, <1>3, <2>2 DEF OpensBatch, Covered
    <2>3. CASE JoinsNone(s, v)
      BY <1>2, <1>3, <2>3 DEF JoinsNone, Covered
    <2> QED  BY <2>1, <2>2, <2>3, RecordShape
  <1>5. \A x \in DOMAIN pend'.deposits \ hist'.stray :
          \A k \in 1..(Len(stack) - 1) : ~Holds(stack[k], x)
    <2> TAKE x \in DOMAIN pend'.deposits \ hist'.stray
    <2>1. CASE x = s
      BY <2>1, OuterHoldsDef
    <2>2. CASE x # s
      BY <1>2, <2>2 DEF Layers
    <2> QED  BY <2>1, <2>2
  <1> QED  BY <1>1, <1>4, <1>5 DEF Layers

\* A write stands until it is overwritten, and leaves the others as they are.
LEMMA WriteStands ==
    ASSUME Inv, LastStands, NEW s \in Sigs, NEW v \in Levels, Write(s, v), UNCHANGED stack,
           hist'.cut = hist.cut, hist.stray \ {s} \subseteq hist'.stray,
           \A x \in Sigs \ {s} : hist'.last[x] = hist.last[x] /\ forced'[x] = forced[x],
           forced'[s].on \/ s \in Driven \cup hist'.stray \/ hist'.last[s] = v
    PROVE  LastStands'
  <1>1. /\ DOMAIN pend'.deposits = DOMAIN pend.deposits \cup {s} /\ pend'.deposits[s] = v
        /\ \A x \in DOMAIN pend.deposits \ {s} : pend'.deposits[x] = pend.deposits[x]
        /\ val'[s] = v /\ \A x \in Sigs \ {s} : val'[x] = val[x]
    BY WriteDeposits
  <1> SUFFICES ASSUME ~hist'.cut, NEW x \in Sigs \ (Driven \cup hist'.stray), ~forced'[x].on
               PROVE  Stands(x)'
    BY DEF LastStands
  <1>2. CASE x = s
    BY <1>1, <1>2 DEF Stands
  <1>3. CASE x # s
    <2>1. Stands(x)
      BY <1>3 DEF LastStands
    <2> QED  BY <1>1, <1>3, <2>1 DEF Stands
  <1> QED  BY <1>2, <1>3

\* What a write does to the history of lost deposits.
LEMMA StrayShape ==
    ASSUME TypeOK, NEW s \in Sigs
    PROVE  /\ hist.stray \ {s} \subseteq Deposited(s)
           /\ s \in Deposited(s) \/ ~OuterHolds(s)
           /\ \A missed \in BOOLEAN : /\ hist.stray \subseteq Strays(s, missed)
                                      /\ s \in Strays(s, missed) \/ ~OuterHolds(s)
                                      /\ missed => s \in Strays(s, missed)
  BY DEF Deposited, Strays

\* A deposit, on a forced signal or not.
LEMMA DepositStands ==
    ASSUME Inv, LastKept, NEW s \in Sigs, NEW v \in Levels, Deposit(s, v)
    PROVE  LastKept'
  <1>0. /\ TypeOK /\ hist.last \in [Sigs -> Levels] /\ UNCHANGED <<stack, running>> /\ Foreign
        /\ hist \in History
    BY DEF Inv, TypeOK, History, Deposit
  <1>1. PICK S : /\ S = Deposited(s) /\ hist.stray \ {s} \subseteq S
                 /\ s \in S \/ ~OuterHolds(s)
    BY <1>0, StrayShape
  <1>2. CASE forced[s].on
    <2>1. /\ forced' = [forced EXCEPT ![s].deposited = v]
          /\ hist' = [hist EXCEPT !.last[s] = v, !.ran = {}, !.stray = S]
          /\ UNCHANGED <<val, pend, pc>>
      BY <1>1, <1>2 DEF Deposit
    <2>2. /\ hist'.last = [hist.last EXCEPT ![s] = v] /\ hist'.cut = hist.cut
          /\ hist'.stray = S
      BY <1>0, <2>1 DEF History
    <2>3. /\ forced'[s].on /\ forced'[s].value = forced[s].value /\ forced'[s].deposited = v
          /\ \A x \in Sigs \ {s} : forced'[x] = forced[x]
      BY <1>0, <1>2, <2>1 DEF TypeOK
    <2>4. hist'.last[s] = v /\ \A x \in Sigs \ {s} : hist'.last[x] = hist.last[x]
      BY <1>0, <2>2
    <2>5. \A x \in Sigs \ {s} : Stands(x)' <=> Stands(x)
      BY <1>0, <2>1, <2>4 DEF Stands
    <2>6. ForcedHold'
      BY <1>1, <1>2, <2>1, <2>2, <2>3, <2>4 DEF LastKept, ForcedHold
    <2>7. LastStands'
      BY <1>1, <2>2, <2>3, <2>5 DEF LastKept, LastStands
    <2>8. Layers'
      <3>1. \A x \in DOMAIN pend.deposits \ S :
              \A k \in 1..(Len(stack) - 1) : ~Holds(stack[k], x)
        BY <1>1, OuterHoldsDef DEF LastKept, Layers
      <3> QED  BY <1>0, <2>1, <2>2, <3>1 DEF LastKept, Layers
    <2> QED  BY <2>6, <2>7, <2>8 DEF LastKept
  <1>3. CASE ~forced[s].on
    <2>1. /\ Write(s, v) /\ AfterPut /\ UNCHANGED forced
          /\ hist' = [Note(s, val[s], v) EXCEPT !.last[s] = v, !.stray = S]
      BY <1>1, <1>3 DEF Deposit
    <2>2. /\ hist'.last = [hist.last EXCEPT ![s] = v] /\ hist'.cut = hist.cut
          /\ hist'.stray = S
      BY <1>0, <2>1 DEF Note, History
    <2>3. hist'.last[s] = v /\ \A x \in Sigs \ {s} : hist'.last[x] = hist.last[x]
      BY <1>0, <2>2
    <2>4. \A x \in Sigs \ {s} : val'[x] = val[x]
      BY <2>1, WriteDeposits
    <2>5. ForcedHold'
      BY <1>1, <1>3, <2>1, <2>2, <2>3, <2>4 DEF LastKept, ForcedHold
    <2>6. LastStands'
      BY <1>0, <1>1, <2>1, <2>2, <2>3, WriteStands DEF LastKept
    <2>7. Layers'
      BY <1>0, <1>1, <2>1, <2>2, WriteLayers DEF LastKept
    <2> QED  BY <2>5, <2>6, <2>7 DEF LastKept
  <1> QED  BY <1>2, <1>3

\* A force keeps the deposit it covers, unless it finds another value.
LEMMA ForceStands ==
    ASSUME Inv, LastKept, NEW s \in Sigs, NEW v \in Levels, ForceValue(s, v)
    PROVE  LastKept'
  <1>0. /\ TypeOK /\ hist.last \in [Sigs -> Levels] /\ UNCHANGED <<stack, running>> /\ Foreign
        /\ hist \in History /\ Write(s, v) /\ AfterPut
    BY DEF Inv, TypeOK, History, ForceValue
  <1>1. PICK m \in BOOLEAN : m = (~forced[s].on /\ val[s] # hist.last[s])
    OBVIOUS
  <1>2. PICK S : /\ S = Strays(s, m) /\ hist.stray \subseteq S /\ (s \in S \/ ~OuterHolds(s))
                 /\ m => s \in S
    BY <1>0, StrayShape
  <1>3. /\ forced'[s].on /\ forced'[s].value = v
        /\ forced'[s].deposited = IF forced[s].on THEN forced[s].deposited ELSE val[s]
        /\ \A x \in Sigs \ {s} : forced'[x] = forced[x]
    BY <1>0 DEF ForceValue, TypeOK
  <1>4. hist'.last = hist.last /\ hist'.cut = hist.cut /\ hist'.stray = S
    <2>1. hist' = [Note(s, val[s], v) EXCEPT !.stray = S]
      BY <1>1, <1>2 DEF ForceValue
    <2> QED  BY <1>0, <2>1 DEF Note, History
  <1>5. val'[s] = v /\ \A x \in Sigs \ {s} : val'[x] = val[x]
    BY <1>0, WriteDeposits
  <1>6. ForcedHold'
    <2>1. s \in Driven \cup S \/ forced'[s].deposited = hist.last[s]
      BY <1>1, <1>2, <1>3 DEF LastKept, ForcedHold
    <2> QED  BY <1>2, <1>3, <1>4, <1>5, <2>1 DEF LastKept, ForcedHold
  <1>7. LastStands'
    BY <1>0, <1>2, <1>3, <1>4, WriteStands DEF LastKept
  <1>8. Layers'
    BY <1>0, <1>2, <1>4, WriteLayers DEF LastKept
  <1> QED  BY <1>6, <1>7, <1>8 DEF LastKept

\* A released input takes the deposit it missed.
LEMMA ReleaseStands ==
    ASSUME Inv, LastKept, NEW s \in Sigs, Release(s)
    PROVE  LastKept'
  <1>0. /\ TypeOK /\ UNCHANGED <<stack, running>> /\ Foreign /\ AfterPut /\ hist \in History
    BY DEF Inv, TypeOK, Release
  <1>1. CASE forced[s].on
    <2>1. PICK v : v = ReleasedValue(s)
      OBVIOUS
    <2>2. PICK S : S = Strays(s, FALSE) /\ hist.stray \subseteq S /\ (s \in S \/ ~OuterHolds(s))
      BY <1>0, StrayShape
    <2>3. /\ forced' = [forced EXCEPT ![s] = NotForced] /\ Write(s, v)
          /\ hist' = [Note(s, val[s], v) EXCEPT !.stray = S]
      BY <1>1, <2>1, <2>2 DEF Release
    <2>4. v \in Levels /\ (s \in Driven \cup hist.stray \/ v = hist.last[s])
      BY <1>0, <1>1, <2>1 DEF ReleasedValue, TypeOK, LastKept, ForcedHold
    <2>5. hist'.last = hist.last /\ hist'.cut = hist.cut /\ hist'.stray = S
      BY <1>0, <2>3 DEF Note, History
    <2>6. ~forced'[s].on /\ \A x \in Sigs \ {s} : forced'[x] = forced[x]
      BY <1>0, <2>3 DEF TypeOK, NotForced
    <2>7. \A x \in Sigs \ {s} : val'[x] = val[x]
      BY <2>3, <2>4, WriteDeposits
    <2>8. ForcedHold'
      <3> SUFFICES ASSUME NEW x \in Sigs, forced'[x].on
                   PROVE  /\ val'[x] = forced'[x].value
                          /\ x \in Driven \cup S \/ forced'[x].deposited = hist.last[x]
        BY <2>5 DEF ForcedHold
      <3>1. x # s /\ forced'[x] = forced[x] /\ val'[x] = val[x]
        BY <2>6, <2>7
      <3>2. /\ val[x] = forced[x].value
            /\ x \in Driven \cup hist.stray \/ forced[x].deposited = hist.last[x]
        BY <3>1 DEF LastKept, ForcedHold
      <3> QED  BY <2>2, <3>1, <3>2
    <2>9. LastStands'
      BY <1>0, <2>2, <2>3, <2>4, <2>5, <2>6, WriteStands DEF LastKept
    <2>10. Layers'
      BY <1>0, <2>2, <2>3, <2>4, <2>5, WriteLayers DEF LastKept
    <2> QED  BY <2>8, <2>9, <2>10 DEF LastKept
  <1>2. CASE ~forced[s].on
    <2>1. UNCHANGED <<forced, val, pend, hist, stack>>
      BY <1>0, <1>2 DEF Release
    <2>2. stack # <<>> => pc' = pc
      BY <1>0, ForeignStays
    <2>3. Layers'
      BY <2>1, <2>2 DEF LastKept, Layers
    <2> QED  BY <2>1, <2>3 DEF LastKept, ForcedHold, LastStands, Stands
  <1> QED  BY <1>1, <1>2

\* A flush takes over what is pending.
LEMMA BeginStands == ASSUME Inv, LastKept, BeginFlush PROVE LastKept'
  <1>0. /\ pc = "begin" /\ pc' # "begin" /\ pend' = NoWrites /\ UNCHANGED <<val, forced>>
        /\ hist'.cut = hist.cut /\ hist'.last = hist.last /\ hist'.stray = hist.stray
        /\ DOMAIN NoWrites.deposits = {} /\ DOMAIN NoWrites.batches = {} /\ DOMAIN <<>> = {}
    BY NoDeposits DEF BeginFlush, Returned, NoWrites, Inv, TypeOK, History
  <1>1. Len(stack) \in Nat /\ DOMAIN stack = 1..Len(stack) /\ (stack = <<>> <=> Len(stack) = 0)
    BY StackFacts DEF Inv
  <1>2. ForcedHold'
    BY <1>0 DEF LastKept, ForcedHold
  <1>3. Covered(pend'.batches, DOMAIN pend'.deposits)
    BY <1>0 DEF Covered
  <1>4. CASE pend.settle
    <2>0. PICK m, n : m = Len(stack) /\ n = Len(stack) + 1
      OBVIOUS
    <2>1. /\ n \in Nat /\ DOMAIN stack' = DOMAIN stack \cup {n} /\ n \notin DOMAIN stack
          /\ Len(stack') = n
          /\ stack'[n].todo = pend.batches /\ stack'[n].final = pend.deposits
          /\ stack'[n].overrides = <<>> /\ stack'[n].nested = <<>>
          /\ \A k \in DOMAIN stack : stack'[k] = stack[k]
      BY <1>4, <2>0, BeginFrames
    <2>2. Layers'
      <3>1. \A k \in DOMAIN stack' : /\ DOMAIN stack'[k].overrides \subseteq DOMAIN stack'[k].final
                                     /\ Covered(stack'[k].todo, DOMAIN stack'[k].final)
        BY <1>0, <2>1 DEF LastKept, Layers
      <3>2. stack'[Len(stack')].nested = <<>>
        BY <2>1
      <3> QED  BY <1>0, <1>3, <3>1, <3>2 DEF Layers
    <2>3. ASSUME ~hist.cut, NEW s \in Sigs \ (Driven \cup hist.stray), ~forced[s].on
          PROVE  Stands(s)'
      <3>1. Stands(s)
        BY <2>3 DEF LastKept, LastStands
      <3>2. Holds(stack'[n], s) <=> s \in DOMAIN pend.deposits
        BY <1>0, <2>1 DEF Holds
      <3>3. CASE s \in DOMAIN pend.deposits
        <4>1. Given(stack'[n], s) = hist.last[s]
          BY <1>0, <2>1, <3>1, <3>3 DEF Given, Stands
        <4>2. ASSUME NEW k \in DOMAIN stack, Holds(stack[k], s)
              PROVE  Given(stack[k], s) = hist.last[s]
          <5>1. k = m
            <6>1. k \notin 1..(m - 1)
              BY <2>0, <2>3, <3>3, <4>2 DEF LastKept, Layers
            <6>2. k \in 1..m /\ m \in Nat
              BY <1>1, <2>0
            <6> QED  BY <6>1, <6>2
          <5>2. stack # <<>> /\ stack[m].nested = pend.deposits
            BY <1>0, <1>1, <2>0 DEF LastKept, Layers
          <5> QED  BY <3>1, <3>3, <5>1, <5>2 DEF Given, Stands
        <4>3. \A k \in DOMAIN stack' :
                Holds(stack'[k], s) => Given(stack'[k], s) = hist.last[s]
          BY <2>1, <4>1, <4>2
        <4>4. \E k \in DOMAIN stack' : Holds(stack'[k], s)
          BY <2>1, <3>2, <3>3
        <4> QED  BY <1>0, <4>3, <4>4 DEF Stands
      <3>4. CASE s \notin DOMAIN pend.deposits
        <4>1. (\E k \in DOMAIN stack' : Holds(stack'[k], s))
                <=> \E k \in DOMAIN stack : Holds(stack[k], s)
          BY <2>1, <3>2, <3>4
        <4>2. (\A k \in DOMAIN stack' : Holds(stack'[k], s) => Given(stack'[k], s) = hist.last[s])
                <=> \A k \in DOMAIN stack : Holds(stack[k], s) => Given(stack[k], s) = hist.last[s]
          BY <2>1, <3>2, <3>4
        <4> QED  BY <1>0, <3>1, <3>4, <4>1, <4>2 DEF Stands
      <3> QED  BY <3>3, <3>4
    <2>4. LastStands'
      BY <1>0, <2>3 DEF LastStands
    <2> QED  BY <1>2, <2>2, <2>4 DEF LastKept
  <1>5. CASE ~pend.settle
    <2>1. pend = NoWrites /\ stack' = stack /\ pend.deposits = <<>>
      BY <1>5 DEF Inv, DataKept, BeginFlush, NoWrites
    <2>2. Layers'
      BY <1>0, <2>1 DEF LastKept, Layers
    <2>3. LastStands'
      BY <1>0, <2>1 DEF LastKept, LastStands, Stands
    <2> QED  BY <1>2, <2>2, <2>3 DEF LastKept
  <1> QED  BY <1>4, <1>5

\* A settlement keeps what is forced.
LEMMA SettleHolds ==
    ASSUME TypeOK, ForcedHold, NEW r \in Deposits, val' \in Settled(Over(val, r)),
           UNCHANGED forced, hist'.last = hist.last, hist'.stray = hist.stray
    PROVE  ForcedHold'
  BY SettledOver DEF ForcedHold

\* Replaying a batch changes no signal that the flush does not hold.
LEMMA ReplayStands == ASSUME Inv, LastKept, ReplayBatch PROVE LastKept'
  <1>0. PICK n, f, b, r : /\ n = Len(stack) /\ f = stack[n] /\ b = Head(f.todo)
                          /\ r = Restored(b, f.overrides)
    OBVIOUS
  <1>1. /\ n \in Nat \ {0} /\ n \in DOMAIN stack /\ DOMAIN stack' = DOMAIN stack
        /\ Len(stack') = n /\ f.todo \in Seq(EdgeBatch) /\ f.todo # <<>>
        /\ stack'[n].todo = Tail(f.todo) /\ stack'[n].final = f.final
        /\ stack'[n].overrides = f.overrides /\ stack'[n].nested = f.nested
        /\ \A k \in DOMAIN stack \ {n} : stack'[k] = stack[k]
        /\ r \in Deposits /\ DOMAIN r = DOMAIN b.deposits \cup DOMAIN f.overrides
        /\ val' \in Settled(Over(val, r))
        /\ pend = NoWrites /\ UNCHANGED <<pend, forced>>
        /\ hist'.last = hist.last /\ hist'.cut = hist.cut /\ hist'.stray = hist.stray
        /\ pc = "replay" /\ pc' # "begin"
    BY <1>0, ReplayFrames
  <1>2. TypeOK /\ DOMAIN pend.deposits = {} /\ stack # <<>>
    BY <1>1, NoDeposits DEF Inv, TypeOK, NoWrites
  <1>3. /\ DOMAIN f.overrides \subseteq DOMAIN f.final /\ Covered(f.todo, DOMAIN f.final)
        /\ f.nested = <<>>
    BY <1>0, <1>1, <1>2 DEF LastKept, Layers
  <1>4. DOMAIN r \subseteq DOMAIN f.final /\ Covered(Tail(f.todo), DOMAIN f.final)
    <2>1. /\ 1 \in DOMAIN f.todo /\ f.todo[1] = b
          /\ \A i \in DOMAIN Tail(f.todo) : i + 1 \in DOMAIN f.todo /\ Tail(f.todo)[i] = f.todo[i + 1]
      BY <1>0, <1>1
    <2> QED  BY <1>1, <1>3, <2>1 DEF Covered
  <1>5. \A k \in DOMAIN stack, s \in Sigs :
          /\ Holds(stack'[k], s) <=> Holds(stack[k], s)
          /\ Given(stack'[k], s) = Given(stack[k], s)
    BY <1>0, <1>1 DEF Holds, Given
  <1>6. Layers'
    <2>1. \A k \in DOMAIN stack' : /\ DOMAIN stack'[k].overrides \subseteq DOMAIN stack'[k].final
                                   /\ Covered(stack'[k].todo, DOMAIN stack'[k].final)
      BY <1>0, <1>1, <1>3, <1>4 DEF LastKept, Layers
    <2> QED  BY <1>1, <1>2, <1>3, <2>1 DEF LastKept, Layers
  <1>7. ForcedHold'
    BY <1>1, <1>2, SettleHolds DEF LastKept
  <1>8. ASSUME ~hist.cut, NEW s \in Sigs \ (Driven \cup hist.stray), ~forced[s].on
        PROVE  Stands(s)'
    <2>1. Stands(s)
      BY <1>8 DEF LastKept, LastStands
    <2>2. val'[s] = IF s \in DOMAIN r THEN r[s] ELSE val[s]
      BY <1>1, <1>2, <1>8, SettledOver
    <2>3. ~Holds(stack[n], s) => val'[s] = val[s]
      BY <1>0, <1>4, <2>2 DEF Holds
    <2> QED  BY <1>1, <1>2, <1>5, <2>1, <2>3 DEF Stands
  <1>9. LastStands'
    BY <1>1, <1>8 DEF LastStands
  <1> QED  BY <1>6, <1>7, <1>9 DEF LastKept

\* The final settlement gives what the flush holds, and the flush around it
\* goes on with what it gave.
LEMMA FinalStands == ASSUME Inv, LastKept, FinalSettle PROVE LastKept'
  <1>0. PICK n, f : n = Len(stack) /\ f = stack[n]
    OBVIOUS
  <1>1. /\ n \in Nat \ {0} /\ n \in DOMAIN stack /\ f.final \in Deposits
        /\ val' \in Settled(Over(val, f.final))
        /\ pend = NoWrites /\ UNCHANGED <<pend, forced>>
        /\ hist'.last = hist.last /\ hist'.cut = hist.cut /\ hist'.stray = hist.stray
        /\ pc = "replay" /\ pc' # "begin"
        /\ n = 1 => stack' = <<>>
    BY <1>0, FinalFrames
  <1>2. TypeOK /\ DOMAIN pend.deposits = {} /\ stack # <<>> /\ DOMAIN <<>> = {} /\ Len(<<>>) = 0
    BY <1>1, NoDeposits DEF Inv, TypeOK, NoWrites
  <1>3. f.nested = <<>>
    BY <1>0, <1>1, <1>2 DEF LastKept, Layers
  <1>4. ForcedHold'
    BY <1>1, <1>2, SettleHolds DEF LastKept
  <1>5. ASSUME ~hist.cut, NEW s \in Sigs \ (Driven \cup hist.stray), ~forced[s].on
        PROVE  /\ \A k \in DOMAIN stack : Holds(stack[k], s) => Given(stack[k], s) = hist.last[s]
               /\ (\A k \in DOMAIN stack \ {n} : ~Holds(stack[k], s)) => val'[s] = hist.last[s]
    <2>1. Stands(s)
      BY <1>5 DEF LastKept, LastStands
    <2>2. val'[s] = IF s \in DOMAIN f.final THEN f.final[s] ELSE val[s]
      BY <1>1, <1>2, <1>5, SettledOver
    <2>3. \A k \in DOMAIN stack : Holds(stack[k], s) => Given(stack[k], s) = hist.last[s]
      BY <1>2, <2>1 DEF Stands
    <2>4. (Holds(f, s) <=> s \in DOMAIN f.final) /\ Given(f, s) = f.final[s]
      BY <1>2, <1>3 DEF Holds, Given
    <2>5. CASE Holds(f, s)
      BY <1>0, <1>1, <2>2, <2>3, <2>4, <2>5
    <2>6. CASE ~Holds(f, s)
      <3>1. (\A k \in DOMAIN stack \ {n} : ~Holds(stack[k], s)) => val[s] = hist.last[s]
        BY <1>0, <1>2, <2>1, <2>6 DEF Stands
      <3> QED  BY <2>2, <2>3, <2>4, <2>6, <3>1
    <2> QED  BY <2>5, <2>6
  <1>6. CASE n = 1
    <2>1. stack' = <<>> /\ DOMAIN stack = {n}
      BY <1>0, <1>1, <1>2, <1>6, StackFacts
    <2>2. Layers'
      BY <1>1, <1>2, <2>1 DEF LastKept, Layers
    <2>3. LastStands'
      BY <1>1, <1>2, <1>5, <2>1 DEF LastStands, Stands
    <2> QED  BY <1>4, <2>2, <2>3 DEF LastKept
  <1>7. CASE n # 1
    <2>0. PICK m, g : m = n - 1 /\ g = stack[m]
      OBVIOUS
    <2>1. /\ m \in DOMAIN stack /\ m # n /\ g \in Frame /\ DOMAIN stack' = DOMAIN stack \ {n}
          /\ Len(stack') = m /\ stack'[m] = Resumed(g)
          /\ \A k \in DOMAIN stack \ {n, m} : stack'[k] = stack[k]
      BY <1>0, <1>7, <2>0, FinalResumes
    <2>2. /\ Resumed(g).todo = g.todo /\ Resumed(g).nested = <<>>
          /\ DOMAIN Resumed(g).final = DOMAIN g.final \cup DOMAIN g.nested
          /\ DOMAIN Resumed(g).overrides = DOMAIN g.overrides \cup DOMAIN g.nested
          /\ \A s \in DOMAIN g.nested : Resumed(g).final[s] = g.nested[s]
          /\ \A s \in DOMAIN g.final \ DOMAIN g.nested : Resumed(g).final[s] = g.final[s]
      BY <2>1, ResumedFacts
    <2>3. \A s : /\ Holds(Resumed(g), s) <=> Holds(g, s)
                 /\ Holds(g, s) => Given(Resumed(g), s) = Given(g, s)
      BY <1>2, <2>2 DEF Holds, Given
    <2>4. Layers'
      <3>1. DOMAIN g.overrides \subseteq DOMAIN g.final /\ Covered(g.todo, DOMAIN g.final)
        BY <2>0, <2>1 DEF LastKept, Layers
      <3>2. /\ DOMAIN Resumed(g).overrides \subseteq DOMAIN Resumed(g).final
            /\ Covered(Resumed(g).todo, DOMAIN Resumed(g).final)
        BY <2>2, <3>1 DEF Covered
      <3>3. \A k \in DOMAIN stack' : /\ DOMAIN stack'[k].overrides \subseteq DOMAIN stack'[k].final
                                     /\ Covered(stack'[k].todo, DOMAIN stack'[k].final)
        BY <2>1, <3>2 DEF LastKept, Layers
      <3>4. stack'[Len(stack')].nested = <<>>
        BY <2>1, <2>2
      <3> QED  BY <1>1, <1>2, <3>3, <3>4 DEF LastKept, Layers
    <2>5. ASSUME ~hist.cut, NEW s \in Sigs \ (Driven \cup hist.stray), ~forced[s].on
          PROVE  Stands(s)'
      <3>1. /\ \A k \in DOMAIN stack : Holds(stack[k], s) => Given(stack[k], s) = hist.last[s]
            /\ (\A k \in DOMAIN stack \ {n} : ~Holds(stack[k], s)) => val'[s] = hist.last[s]
        BY <1>5, <2>5
      <3>2. \A k \in DOMAIN stack' : /\ Holds(stack'[k], s) <=> Holds(stack[k], s)
                                     /\ Holds(stack[k], s) => Given(stack'[k], s) = Given(stack[k], s)
        BY <2>0, <2>1, <2>3
      <3>3. \A k \in DOMAIN stack' : Holds(stack'[k], s) => Given(stack'[k], s) = hist.last[s]
        BY <2>1, <3>1, <3>2
      <3>4. (\A k \in DOMAIN stack' : ~Holds(stack'[k], s)) => val'[s] = hist.last[s]
        BY <2>1, <3>1, <3>2
      <3> QED  BY <1>1, <1>2, <3>3, <3>4 DEF Stands
    <2>6. LastStands'
      BY <1>1, <2>5 DEF LastStands
    <2> QED  BY <1>4, <2>4, <2>6 DEF LastKept
  <1> QED  BY <1>6, <1>7

\* A flush begins a nested one: nothing stands differently.
LEMMA NestedStands == ASSUME Inv, LastKept, FlushNested PROVE LastKept'
  <1>0. PICK n, f : n = Len(stack) /\ f = stack[n]
    OBVIOUS
  <1>1. /\ n \in Nat \ {0} /\ n \in DOMAIN stack /\ DOMAIN stack' = DOMAIN stack
        /\ Len(stack') = n
        /\ stack'[n].todo = f.todo /\ stack'[n].final = f.final
        /\ stack'[n].overrides = f.overrides /\ stack'[n].nested = pend.deposits
        /\ \A k \in DOMAIN stack \ {n} : stack'[k] = stack[k]
        /\ pc = "dispatched" /\ pc' = "begin" /\ UNCHANGED <<val, forced, pend, hist>>
    BY <1>0, NestedFrames
  <1>2. stack # <<>> /\ f.nested = <<>> /\ DOMAIN <<>> = {}
    <2>1. stack # <<>>
      BY <1>1 DEF Inv, TypeOK
    <2> QED  BY <1>0, <1>1, <2>1 DEF LastKept, Layers
  <1>3. Layers'
    <2>1. \A k \in 1..(Len(stack') - 1) : k \in DOMAIN stack \ {n}
      BY <1>0, <1>1, StackFacts DEF Inv
    <2>2. \A s \in DOMAIN pend'.deposits \ hist'.stray :
            \A k \in 1..(Len(stack') - 1) : ~Holds(stack'[k], s)
      BY <1>0, <1>1, <2>1 DEF LastKept, Layers
    <2>3. \A k \in DOMAIN stack' : /\ DOMAIN stack'[k].overrides \subseteq DOMAIN stack'[k].final
                                   /\ Covered(stack'[k].todo, DOMAIN stack'[k].final)
      BY <1>0, <1>1 DEF LastKept, Layers
    <2>4. stack'[Len(stack')].nested = pend'.deposits
      BY <1>1
    <2> QED  BY <1>1, <2>2, <2>3, <2>4 DEF LastKept, Layers
  <1>4. ASSUME NEW s \in Sigs, Stands(s) PROVE Stands(s)'
    <2>1. CASE s \in DOMAIN pend.deposits
      BY <1>1, <1>4, <2>1 DEF Stands
    <2>2. CASE s \notin DOMAIN pend.deposits
      <3>1. \A k \in DOMAIN stack : /\ Holds(stack'[k], s) <=> Holds(stack[k], s)
                                    /\ Given(stack'[k], s) = Given(stack[k], s)
        BY <1>0, <1>1, <1>2, <2>2 DEF Holds, Given
      <3> QED  BY <1>1, <1>4, <2>2, <3>1 DEF Stands
    <2> QED  BY <2>1, <2>2
  <1>5. LastStands' /\ ForcedHold'
    BY <1>1, <1>4 DEF LastKept, LastStands, ForcedHold
  <1> QED  BY <1>3, <1>5 DEF LastKept

\* A cut leaves no flush, and nothing more is claimed.
LEMMA CutStands ==
    ASSUME LastKept, stack' = <<>>, pend' = pend \/ pend' = NoWrites, UNCHANGED forced,
           hist'.cut, hist'.last = hist.last, hist'.stray = hist.stray,
           \A s \in Sigs : forced[s].on => val'[s] = forced[s].value
    PROVE  LastKept'
  <1>1. /\ Len(<<>>) = 0 /\ DOMAIN <<>> = {} /\ DOMAIN NoWrites.batches = {}
        /\ \A k \in 1..(0 - 1) : FALSE
    BY DEF NoWrites
  <1>2. Layers'
    BY <1>1 DEF LastKept, Layers, Covered
  <1>3. ForcedHold' /\ LastStands'
    BY DEF LastKept, ForcedHold, LastStands
  <1> QED  BY <1>2, <1>3 DEF LastKept

\* Nothing is held at the start.
LEMMA FreshStands ==
    ASSUME pend = NoWrites, stack = <<>>, hist = InitHist(val),
           forced = [s \in Sigs |-> NotForced]
    PROVE  LastKept
  <1>1. \A s \in Sigs : ~forced[s].on /\ hist.last[s] = val[s]
    BY DEF NotForced, InitHist
  <1>2. /\ Len(<<>>) = 0 /\ DOMAIN <<>> = {} /\ DOMAIN NoWrites.batches = {}
        /\ DOMAIN NoWrites.deposits = {}
    BY NoDeposits DEF NoWrites
  <1>3. Layers
    BY <1>2 DEF Layers, Covered
  <1> QED  BY <1>1, <1>2, <1>3 DEF LastKept, ForcedHold, LastStands, Stands

\* Every step keeps what is forced and what stands.
LEMMA StandsStep ==
    ASSUME Inv, LastKept, [Next]_vars
    PROVE  LastKept'
  <1>0. TypeOK /\ hist \in History
    BY DEF Inv, TypeOK
  <1>1. ASSUME NEW s \in Sigs, NEW v \in Levels, Deposit(s, v) PROVE LastKept'
    BY <1>1, DepositStands
  <1>2. ASSUME NEW s \in Sigs, NEW v \in Levels, ForceValue(s, v) PROVE LastKept'
    BY <1>2, ForceStands
  <1>3. ASSUME NEW s \in Sigs, Release(s) PROVE LastKept'
    BY <1>3, ReleaseStands
  <1>4. CASE Finish \/ RunBegins \/ RegionEnds \/ RunEnds \/ CallbacksReturn \/ NextBatch
    <2>1. /\ UNCHANGED <<forced, val, pend, hist, stack>> /\ pc # "begin"
          /\ pc' # "begin" \/ stack = <<>>
      BY <1>4 DEF Finish, RunBegins, RegionEnds, RunEnds, CallbacksReturn, NextBatch, Foreign
    <2>2. Layers'
      BY <2>1 DEF LastKept, Layers
    <2> QED  BY <2>1, <2>2 DEF LastKept, ForcedHold, LastStands, Stands
  <1>5. CASE InstallRuntime
    <2>1. /\ pend' = NoWrites /\ stack' = <<>> /\ hist' = InitHist(val')
          /\ forced' = [s \in Sigs |-> NotForced]
      BY <1>0, <1>5 DEF InstallRuntime, TypeOK
    <2>2. \A s \in Sigs : ~forced'[s].on /\ hist'.last[s] = val'[s]
      BY <2>1 DEF NotForced, InitHist
    <2>3. /\ Len(<<>>) = 0 /\ DOMAIN <<>> = {} /\ DOMAIN NoWrites.batches = {}
          /\ DOMAIN NoWrites.deposits = {}
      BY NoDeposits DEF NoWrites
    <2>4. Layers'
      BY <2>1, <2>3 DEF Layers, Covered
    <2> QED  BY <2>1, <2>2, <2>3, <2>4 DEF LastKept, ForcedHold, LastStands, Stands
  <1>6. CASE BeginFlush
    BY <1>6, BeginStands
  <1>7. CASE ReplayBatch
    BY <1>7, ReplayStands
  <1>8. CASE FinishSeen \/ TooManySettlements
    <2>1. /\ UNCHANGED <<val, forced>> /\ hist'.last = hist.last /\ hist'.cut
          /\ hist'.stray = hist.stray /\ stack' = <<>> /\ (pend' = pend \/ pend' = NoWrites)
      BY <1>0, <1>8 DEF FinishSeen, TooManySettlements, Unwind, History
    <2> QED  BY <2>1, CutStands DEF LastKept, ForcedHold
  <1>9. CASE SettleFails
    <2>1. /\ UNCHANGED <<forced, pend>> /\ hist'.last = hist.last /\ hist'.cut
          /\ hist'.stray = hist.stray /\ stack' = <<>>
      BY <1>0, <1>9 DEF SettleFails, Unwind, History
    <2>2. PICK v : val' \in Settled(v)
      BY <1>9 DEF SettleFails
    <2>3. \A s \in Sigs : forced[s].on => val'[s] = forced[s].value
      BY <2>2 DEF Settled
    <2> QED  BY <2>1, <2>3, CutStands
  <1>10. CASE FlushNested
    BY <1>10, NestedStands
  <1>11. CASE FinalSettle
    BY <1>11, FinalStands
  <1>12. CASE UNCHANGED vars
    BY <1>12 DEF vars, LastKept, Layers, ForcedHold, LastStands, Stands
  <1> QED
    BY <1>1, <1>2, <1>3, <1>4, <1>5, <1>6, <1>7, <1>8, <1>9, <1>10, <1>11, <1>12 DEF Next

\* Once everything is flushed an input that is not forced has the value that
\* foreign code deposited on it last, for any number of signals and writes and
\* any depth of nested flushes, outside the two cases in which the code loses
\* it: an outer flush that has a write of the same signal puts that one back
\* over what a callback inside a nested flush wrote, and a force in the middle of
\* a replay remembers the value of an older batch.
THEOREM LastWriteStays == Spec => []LastWriteWins
  <1>1. Init => LastKept
    BY FreshStands DEF Init
  <1>2. Inv /\ LastKept /\ [Next]_vars => LastKept'
    BY StandsStep
  <1>3. Inv /\ LastKept => LastWriteWins
    <2> SUFFICES ASSUME Inv, LastKept, Quiet, NEW s \in Sigs \ Driven
                 PROVE  IF forced[s].on THEN val[s] = forced[s].value
                        ELSE s \in hist.stray \/ val[s] = hist.last[s]
      BY DEF LastWriteWins
    <2>1. pend = NoWrites /\ stack = <<>> /\ ~hist.cut /\ DOMAIN <<>> = {}
      BY DEF Quiet, Inv, DataKept
    <2>2. DOMAIN pend.deposits = {}
      BY <2>1, NoDeposits DEF NoWrites
    <2>3. Stands(s) <=> val[s] = hist.last[s]
      BY <2>1, <2>2 DEF Stands
    <2> QED  BY <2>1, <2>3 DEF LastKept, ForcedHold, LastStands
  <1> QED  BY <1>1, <1>2, <1>3, InvHolds, PTL DEF Spec

-----------------------------------------------------------------------------
(* Edges are real                                                          *)

\* The inputs with an event.
EventSigs == {s \in Sigs \ Driven : Kind[s] # "Other"}

\* What s holds just before batch i of bs is settled, when it holds at[s] before
\* the first.
Before(bs, at, i, s) ==
  IF i > 1 /\ s \in DOMAIN bs[i - 1].deposits THEN bs[i - 1].deposits[s] ELSE at[s]

\* The pending edges of inputs are real, each from what the batch before it puts back; the
\* value of a signal is what its last batch will put back, and a signal that has
\* not moved in the open batch is as it was before that batch.
PendingReal(p, at, v) ==
  /\ \A i \in DOMAIN p.batches : \A s \in p.batches[i].active \ Driven :
       /\ s \in EventSigs /\ s \in DOMAIN p.batches[i].deposits
       /\ IsActiveEdge(Kind[s], Before(p.batches, at, i, s), p.batches[i].deposits[s])
  /\ \A s \in EventSigs : v[s] = Before(p.batches, at, Len(p.batches) + 1, s)
  /\ p.open => \A s \in EventSigs \ p.batches[Len(p.batches)].transitions :
                 v[s] = Before(p.batches, at, Len(p.batches), s)

\* The edges of inputs in every batch start from what the one before it puts back.
Linked(bs) ==
  \A i \in DOMAIN bs : \A s \in bs[i].active \ Driven :
    /\ s \in EventSigs /\ s \in DOMAIN bs[i].deposits
    /\ i > 1 /\ s \in DOMAIN bs[i - 1].deposits =>
         IsActiveEdge(Kind[s], bs[i - 1].deposits[s], bs[i].deposits[s])

\* The edges of the next batch of flush f start from the last settlement, but for
\* the signals that were shown ahead of it or that a callback has written.
Starts(f, at, ahead) ==
  f.todo # <<>> =>
    \A s \in f.todo[1].active \ (Driven \cup ahead \cup DOMAIN f.overrides \cup DOMAIN f.nested) :
      IsActiveEdge(Kind[s], at[s], f.todo[1].deposits[s])

NoneForced == \A s \in Sigs : ~forced[s].on

\* Every edge that waits is real where it waits.
EdgesHold ==
  ~hist.cut =>
    /\ pc # "replay" => PendingReal(pend, hist.at, val)
    /\ pc = "replay" =>
         \A s \in EventSigs :
           DOMAIN stack[Len(stack)].overrides # {} \/ s \notin DOMAIN stack[Len(stack)].final
             => val[s] = hist.at[s]
    /\ \A k \in DOMAIN stack :
         Linked(stack[k].todo) /\ Starts(stack[k], hist.at, hist.ahead)

\* What the action property says of one step.
EdgeStep ==
  \/ UNCHANGED vars
  \/ pc = "replay" /\ hist'.ran # {} /\ ~hist.cut =>
       \A s \in hist'.ran \ (hist.ahead \cup Driven) :
         IsActiveEdge(Kind[s], hist.at[s], val'[s])

\* An event signal is an input.
LEMMA EventInputs == \A s \in EventSigs : s \in Sigs /\ s \notin Driven
  BY DEF EventSigs

\* With nothing queued an event signal holds what the last settlement showed.
LEMMA NothingPending ==
    ASSUME NEW at, NEW v
    PROVE  PendingReal(NoWrites, at, v) <=> \A s \in EventSigs : v[s] = at[s]
  <1>1. /\ NoWrites.batches = <<>> /\ DOMAIN NoWrites.batches = {} /\ NoWrites.open = FALSE
        /\ Len(NoWrites.batches) + 1 = 1
    BY DEF NoWrites
  <1>2. \A s : Before(NoWrites.batches, at, 1, s) = at[s]
    BY DEF Before
  <1> QED  BY <1>1, <1>2 DEF PendingReal

\* An event signal holds its pending value, or the settled one.
LEMMA PendingValue ==
    ASSUME Inv, Nesting, PendingReal(pend, hist.at, val), NEW x \in EventSigs
    PROVE  val[x] = IF x \in DOMAIN pend.deposits THEN pend.deposits[x] ELSE hist.at[x]
  <1> DEFINE n == Len(pend.batches)
  <1>1. n \in Nat /\ DOMAIN pend.batches = 1..n
    BY DEF Inv, TypeOK, Writes
  <1>2. x \in DOMAIN pend.deposits => val[x] = pend.deposits[x]
    BY DEF Inv, DataKept
  <1>3. val[x] = Before(pend.batches, hist.at, n + 1, x)
    BY DEF PendingReal
  <1>4. ASSUME x \notin DOMAIN pend.deposits PROVE val[x] = hist.at[x]
    <2>1. n > 0 => x \notin DOMAIN pend.batches[n].deposits
      BY <1>1, <1>4 DEF Nesting, Covered
    <2> HIDE DEF n
    <2>2. CASE n > 0
      <3>1. n + 1 > 1 /\ (n + 1) - 1 = n
        BY <1>1, <2>2
      <3> QED  BY <1>3, <2>1, <2>2, <3>1 DEF Before
    <2>3. CASE ~(n > 0)
      <3>1. ~(n + 1 > 1)
        BY <1>1, <2>3
      <3> QED  BY <1>3, <3>1 DEF Before
    <2> QED  BY <2>2, <2>3
  <1> QED  BY <1>2, <1>4

\* A write adds an edge only from the value that it replaces.
LEMMA WriteReal ==
    ASSUME Inv, Nesting, EdgesWait, PendingReal(pend, hist.at, val),
           NEW s \in Sigs, NEW v \in Levels, Write(s, v), hist'.at = hist.at
    PROVE  PendingReal(pend', hist'.at, val')
  <1> DEFINE bs == pend.batches
             cs == pend'.batches
             at == hist.at
             n == Len(bs)
  <1>1. n \in Nat /\ DOMAIN bs = 1..n
    BY DEF Inv, TypeOK, Writes
  <1>2. /\ DOMAIN pend'.deposits = DOMAIN pend.deposits \cup {s} /\ pend'.deposits[s] = v
        /\ \A x \in DOMAIN pend.deposits \ {s} : pend'.deposits[x] = pend.deposits[x]
        /\ val'[s] = v /\ \A x \in Sigs \ {s} : val'[x] = val[x]
    BY WriteDeposits
  <1>3. /\ \A i \in DOMAIN bs : \A x \in bs[i].active \ Driven :
             /\ x \in EventSigs /\ x \in DOMAIN bs[i].deposits
             /\ IsActiveEdge(Kind[x], Before(bs, at, i, x), bs[i].deposits[x])
        /\ \A x \in EventSigs : val[x] = Before(bs, at, n + 1, x)
        /\ pend.open => \A x \in EventSigs \ bs[n].transitions : val[x] = Before(bs, at, n, x)
    BY DEF PendingReal
  <1>4. \A x \in EventSigs :
          val[x] = IF x \in DOMAIN pend.deposits THEN pend.deposits[x] ELSE at[x]
    BY PendingValue
  <1>5. \A x \in EventSigs :
          val'[x] = IF x \in DOMAIN pend'.deposits THEN pend'.deposits[x] ELSE at[x]
    BY <1>2, <1>4, EventInputs
  <1>6. s \notin Driven => (EventTransition(s, val[s], v) <=> s \in EventSigs /\ v # val[s])
    BY DEF EventTransition, EventSigs
  <1>7. IsActiveEdge(Kind[s], val[s], v) => EventTransition(s, val[s], v)
    BY ActiveEdgeMoves
  <1>8. \A i \in DOMAIN bs : bs[i].active \subseteq bs[i].transitions
    BY DEF EdgesWait
  <1>9. \A i \in DOMAIN bs : DOMAIN bs[i].deposits \subseteq DOMAIN pend.deposits
    BY DEF Nesting, Covered
  <1> SUFFICES PendingReal(pend', at, val')
    OBVIOUS
  <1>10. CASE JoinsBatch(s, v)
    <2>1. /\ pend.open /\ n \in DOMAIN bs /\ n > 0 /\ DOMAIN cs = DOMAIN bs /\ Len(cs) = n
          /\ cs[n].deposits = pend'.deposits
          /\ cs[n].active = bs[n].active \cup IF IsActiveEdge(Kind[s], val[s], v) THEN {s} ELSE {}
          /\ cs[n].transitions =
               bs[n].transitions \cup IF EventTransition(s, val[s], v) THEN {s} ELSE {}
          /\ EventTransition(s, val[s], v) => s \notin bs[n].transitions
          /\ \A i \in DOMAIN bs \ {n} : cs[i] = bs[i]
      BY <1>1, <1>10 DEF JoinsBatch
    <2>2. \A x : \A i \in 1..n : Before(cs, at, i, x) = Before(bs, at, i, x)
      BY <1>1, <2>1 DEF Before
    <2>3. \A x : Before(cs, at, n + 1, x) =
                   IF x \in DOMAIN pend'.deposits THEN pend'.deposits[x] ELSE at[x]
      BY <1>1, <2>1 DEF Before
    <2>4. \A x \in EventSigs : Before(bs, at, n + 1, x) =
                                 IF x \in DOMAIN bs[n].deposits THEN bs[n].deposits[x] ELSE at[x]
      BY <1>1, <2>1 DEF Before
    <2> HIDE DEF n, bs, cs, at
    <2>5. ASSUME NEW i \in DOMAIN cs, NEW x \in cs[i].active \ Driven
          PROVE  /\ x \in EventSigs /\ x \in DOMAIN cs[i].deposits
                 /\ IsActiveEdge(Kind[x], Before(cs, at, i, x), cs[i].deposits[x])
      <3>1. CASE i # n
        BY <1>1, <1>3, <2>1, <2>2, <2>5, <3>1
      <3>2. CASE i = n /\ x \notin bs[n].active
        <4>1. x = s /\ IsActiveEdge(Kind[s], val[s], v) /\ s \in EventSigs \ bs[n].transitions
          BY <1>6, <1>7, <2>1, <2>5, <3>2
        <4>2. val[s] = Before(bs, at, n, s)
          BY <1>3, <2>1, <4>1
        <4> QED  BY <1>1, <1>2, <2>1, <2>2, <3>2, <4>1, <4>2
      <3>3. CASE i = n /\ x \in bs[n].active
        <4>1. /\ x \in EventSigs /\ x \in DOMAIN bs[n].deposits /\ x \in DOMAIN pend.deposits
              /\ IsActiveEdge(Kind[x], Before(bs, at, n, x), bs[n].deposits[x])
          BY <1>3, <1>9, <2>1, <3>3
        <4>2. val[x] = bs[n].deposits[x]
          BY <1>3, <2>4, <4>1
        <4>3. pend'.deposits[x] = val[x]
          <5>1. CASE x = s
            BY <1>2, <1>6, <1>8, <2>1, <3>3, <4>1, <5>1
          <5>2. CASE x # s
            BY <1>2, <1>4, <4>1, <5>2
          <5> QED  BY <5>1, <5>2
        <4> QED  BY <1>1, <1>2, <2>1, <2>2, <3>3, <4>1, <4>2, <4>3
      <3> QED  BY <3>1, <3>2, <3>3
    <2>6. \A x \in EventSigs : val'[x] = Before(cs, at, n + 1, x)
      BY <1>5, <2>3
    <2>7. \A x \in EventSigs \ cs[n].transitions : val'[x] = Before(cs, at, n, x)
      <3> SUFFICES ASSUME NEW x \in EventSigs \ cs[n].transitions
                   PROVE  val'[x] = Before(cs, at, n, x)
        OBVIOUS
      <3>1. val'[x] = val[x]
        BY <1>2, <1>6, <2>1, EventInputs
      <3>2. val[x] = Before(bs, at, n, x)
        BY <1>3, <2>1
      <3> QED  BY <1>1, <2>1, <2>2, <3>1, <3>2
    <2> QED  BY <2>1, <2>5, <2>6, <2>7 DEF PendingReal, cs
  <1>11. CASE OpensBatch(s, v)
    <2>1. /\ (s \in Driven \/ s \in EventSigs) /\ DOMAIN cs = DOMAIN bs \cup {n + 1} /\ Len(cs) = n + 1
          /\ n + 1 \notin DOMAIN bs
          /\ cs[n + 1].deposits = pend'.deposits
          /\ cs[n + 1].active = IF IsActiveEdge(Kind[s], val[s], v) THEN {s} ELSE {}
          /\ cs[n + 1].transitions = {s}
          /\ \A i \in DOMAIN bs : cs[i] = bs[i]
      BY <1>6, <1>11 DEF OpensBatch
    <2>2. \A x : \A i \in 1..(n + 1) : Before(cs, at, i, x) = Before(bs, at, i, x)
      BY <1>1, <2>1 DEF Before
    <2>3. \A x : Before(cs, at, n + 2, x) =
                   IF x \in DOMAIN pend'.deposits THEN pend'.deposits[x] ELSE at[x]
      BY <1>1, <2>1 DEF Before
    <2>4. n + 1 \in 1..(n + 1) /\ Len(cs) + 1 = n + 2 /\ DOMAIN bs \subseteq 1..(n + 1)
      BY <1>1, <2>1
    <2> HIDE DEF n, bs, cs, at
    <2>5. ASSUME NEW i \in DOMAIN cs, NEW x \in cs[i].active \ Driven
          PROVE  /\ x \in EventSigs /\ x \in DOMAIN cs[i].deposits
                 /\ IsActiveEdge(Kind[x], Before(cs, at, i, x), cs[i].deposits[x])
      <3>1. CASE i \in DOMAIN bs
        BY <1>3, <2>1, <2>2, <2>4, <2>5, <3>1
      <3>2. CASE i = n + 1
        <4>1. x = s /\ IsActiveEdge(Kind[s], val[s], v) /\ s \in DOMAIN cs[i].deposits
          BY <1>2, <2>1, <2>5, <3>2
        <4>2. val[s] = Before(cs, at, i, s)
          BY <1>3, <2>1, <2>2, <2>4, <3>2
        <4> QED  BY <1>2, <2>1, <3>2, <4>1, <4>2
      <3> QED  BY <2>1, <2>5, <3>1, <3>2
    <2>6. \A x \in EventSigs : val'[x] = Before(cs, at, n + 2, x)
      BY <1>5, <2>3
    <2>7. \A x \in EventSigs \ cs[n + 1].transitions : val'[x] = Before(cs, at, n + 1, x)
      BY <1>2, <1>3, <2>1, <2>2, <2>4, EventInputs
    <2> QED  BY <2>1, <2>4, <2>5, <2>6, <2>7 DEF PendingReal, cs
  <1>12. CASE JoinsNone(s, v)
    <2>1. cs = bs /\ ~pend'.open /\ (s \in EventSigs => v = val[s])
      BY <1>6, <1>12, EventInputs DEF JoinsNone
    <2>2. \A x \in EventSigs : val'[x] = val[x]
      BY <1>2, <2>1, EventInputs
    <2> QED  BY <1>3, <2>1, <2>2 DEF PendingReal
  <1> QED  BY <1>10, <1>11, <1>12, RecordShape

\* A new flush starts with the pending edges.
LEMMA BeginReal == ASSUME Inv, Nesting, EdgesHold, BeginFlush PROVE EdgesHold'
  <1>0. hist \in History /\ pc = "begin" /\ pend' = NoWrites /\ UNCHANGED val
    BY DEF Inv, TypeOK, BeginFlush
  <1>1. hist'.cut = hist.cut /\ hist'.at = hist.at /\ hist'.ahead = hist.ahead
    BY <1>0 DEF BeginFlush, History
  <1> SUFFICES ASSUME ~hist.cut PROVE EdgesHold'
    BY <1>1 DEF EdgesHold
  <1>2. /\ PendingReal(pend, hist.at, val)
        /\ \A k \in DOMAIN stack :
             Linked(stack[k].todo) /\ Starts(stack[k], hist.at, hist.ahead)
    BY <1>0 DEF EdgesHold
  <1>3. CASE ~pend.settle
    <2>1. pend = NoWrites
      BY <1>3 DEF Inv, DataKept
    <2>2. UNCHANGED <<stack, pend>> /\ pc' # "replay"
      BY <1>0, <1>3, <2>1 DEF BeginFlush, Returned
    <2> QED  BY <1>0, <1>1, <1>2, <2>2 DEF EdgesHold
  <1>4. CASE pend.settle
    <2> DEFINE n == Len(stack) + 1
               bs == pend.batches
    <2>1. /\ DOMAIN stack' = DOMAIN stack \cup {n} /\ n \notin DOMAIN stack /\ Len(stack') = n
          /\ stack'[n].todo = bs /\ stack'[n].final = pend.deposits
          /\ stack'[n].overrides = <<>>
          /\ \A k \in DOMAIN stack : stack'[k] = stack[k]
      BY <1>4, BeginFrames
    <2>2. pc' = "replay" /\ DOMAIN <<>> = {}
      BY <1>4 DEF BeginFlush
    <2>3. \A s \in EventSigs : s \notin DOMAIN pend.deposits => val[s] = hist.at[s]
      BY <1>2, PendingValue
    <2>4. bs \in Seq(EdgeBatch)
      BY DEF Inv, TypeOK, Writes
    <2>5. \A i \in DOMAIN bs : \A s \in bs[i].active \ Driven :
            /\ s \in EventSigs /\ s \in DOMAIN bs[i].deposits
            /\ IsActiveEdge(Kind[s], Before(bs, hist.at, i, s), bs[i].deposits[s])
      BY <1>2 DEF PendingReal
    <2> HIDE DEF n, bs
    <2>6. Linked(bs)
      BY <2>5 DEF Before, Linked
    <2>7. ASSUME bs # <<>>
          PROVE  \A s \in bs[1].active \ Driven : IsActiveEdge(Kind[s], hist.at[s], bs[1].deposits[s])
      <3>1. 1 \in DOMAIN bs
        BY <2>4, <2>7
      <3>2. \A s : Before(bs, hist.at, 1, s) = hist.at[s]
        BY DEF Before
      <3> QED  BY <2>5, <3>1, <3>2
    <2>8. Linked(stack'[n].todo) /\ Starts(stack'[n], hist.at, hist.ahead)
      BY <2>1, <2>6, <2>7 DEF Starts
    <2>9. \A k \in DOMAIN stack' :
            Linked(stack'[k].todo) /\ Starts(stack'[k], hist.at, hist.ahead)
      BY <1>2, <2>1, <2>8
    <2> QED  BY <1>0, <1>1, <2>1, <2>2, <2>3, <2>9 DEF EdgesHold
  <1> QED  BY <1>3, <1>4

\* The batches that remain are linked, and so are the first two.
LEMMA TailLinked ==
    ASSUME NEW bs \in Seq(EdgeBatch), bs # <<>>, Linked(bs)
    PROVE  /\ Linked(Tail(bs)) /\ Head(bs) = bs[1] /\ 1 \in DOMAIN bs
           /\ \A s \in bs[1].active \ Driven : s \in EventSigs /\ s \in DOMAIN bs[1].deposits
           /\ Tail(bs) # <<>> =>
                /\ 2 \in DOMAIN bs /\ Tail(bs)[1] = bs[2]
                /\ \A s \in bs[2].active \ Driven :
                     /\ s \in EventSigs /\ s \in DOMAIN bs[2].deposits
                     /\ s \in DOMAIN bs[1].deposits =>
                          IsActiveEdge(Kind[s], bs[1].deposits[s], bs[2].deposits[s])
  <1> DEFINE n == Len(bs)
             ts == Tail(bs)
  <1>1. n \in Nat \ {0} /\ DOMAIN bs = 1..n /\ Head(bs) = bs[1] /\ 1 \in DOMAIN bs
    OBVIOUS
  <1>2. /\ Len(ts) = n - 1 /\ DOMAIN ts = 1..(n - 1) /\ (ts # <<>> => n > 1)
        /\ \A i \in 1..(n - 1) : ts[i] = bs[i + 1] /\ i + 1 \in DOMAIN bs
    BY <1>1
  <1>3. \A i \in DOMAIN bs : \A s \in bs[i].active \ Driven :
          /\ s \in EventSigs /\ s \in DOMAIN bs[i].deposits
          /\ i > 1 /\ s \in DOMAIN bs[i - 1].deposits =>
               IsActiveEdge(Kind[s], bs[i - 1].deposits[s], bs[i].deposits[s])
    BY DEF Linked
  <1> HIDE DEF n, ts
  <1>4. ASSUME NEW i \in DOMAIN ts, NEW s \in ts[i].active \ Driven
        PROVE  /\ s \in EventSigs /\ s \in DOMAIN ts[i].deposits
               /\ i > 1 /\ s \in DOMAIN ts[i - 1].deposits =>
                    IsActiveEdge(Kind[s], ts[i - 1].deposits[s], ts[i].deposits[s])
    <2>1. /\ ts[i] = bs[i + 1] /\ i + 1 \in DOMAIN bs /\ i + 1 > 1 /\ (i + 1) - 1 = i
          /\ i > 1 => ts[i - 1] = bs[i]
      BY <1>1, <1>2
    <2>2. s \in bs[i + 1].active
      BY <1>4, <2>1
    <2>3. /\ s \in EventSigs /\ s \in DOMAIN bs[i + 1].deposits
          /\ s \in DOMAIN bs[i].deposits =>
               IsActiveEdge(Kind[s], bs[i].deposits[s], bs[i + 1].deposits[s])
      BY <1>3, <2>1, <2>2
    <2> QED  BY <2>1, <2>3
  <1>5. Linked(ts)
    BY <1>4 DEF Linked
  <1>6. ASSUME ts # <<>> PROVE 2 \in DOMAIN bs /\ ts[1] = bs[2]
    BY <1>1, <1>2, <1>6
  <1>7. 2 > 1 /\ 2 - 1 = 1
    OBVIOUS
  <1> QED  BY <1>1, <1>3, <1>5, <1>6, <1>7 DEF ts

\* What a settlement that puts back r makes of an event signal.
LEMMA EventSettled ==
    ASSUME Inv, NoneForced, NEW r \in Deposits, val' \in Settled(Over(val, r))
    PROVE  \A s \in EventSigs : val'[s] = IF s \in DOMAIN r THEN r[s] ELSE val[s]
  BY SettledOver, EventInputs DEF NoneForced, Inv

\* A batch runs real edges, and leaves the next ones real.
LEMMA ReplayReal ==
    ASSUME Inv, Nesting, NoneForced, EdgesHold, ReplayBatch
    PROVE  EdgeStep /\ EdgesHold'
  <1>0. PICK n, f, b, r :
          n = Len(stack) /\ f = stack[n] /\ b = Head(f.todo) /\ r = Restored(b, f.overrides)
    OBVIOUS
  <1>1. /\ n \in Nat \ {0} /\ n \in DOMAIN stack /\ f \in Frame
        /\ DOMAIN stack' = DOMAIN stack /\ Len(stack') = n
        /\ f.todo \in Seq(EdgeBatch) /\ f.todo # <<>> /\ b \in EdgeBatch
        /\ stack'[n].todo = Tail(f.todo) /\ stack'[n].final = f.final
        /\ stack'[n].overrides = f.overrides /\ stack'[n].nested = f.nested
        /\ \A k \in DOMAIN stack \ {n} : stack'[k] = stack[k]
    BY <1>0, ReplayFrames
  <1>2. /\ r \in Deposits
        /\ DOMAIN r = DOMAIN b.deposits \cup DOMAIN f.overrides
        /\ \A s \in DOMAIN f.overrides : r[s] = f.overrides[s]
        /\ \A s \in DOMAIN b.deposits \ DOMAIN f.overrides : r[s] = b.deposits[s]
        /\ val' \in Settled(Over(val, r))
    BY <1>0, ReplayFrames
  <1>3. /\ pend = NoWrites /\ UNCHANGED pend /\ hist'.cut = hist.cut /\ hist'.at = val'
        /\ hist'.ahead = (hist.ahead \cup DOMAIN f.final) \ DOMAIN r
        /\ hist'.ran = LiveEdges(b, f.overrides) /\ pc = "replay"
    BY <1>0, ReplayFrames
  <1>4. CASE hist.cut
    BY <1>3, <1>4 DEF EdgesHold, EdgeStep
  <1>5. CASE ~hist.cut
    <2>1. /\ Linked(f.todo) /\ Starts(f, hist.at, hist.ahead)
          /\ \A s \in EventSigs : DOMAIN f.overrides # {} \/ s \notin DOMAIN f.final
                                    => val[s] = hist.at[s]
          /\ \A k \in DOMAIN stack :
               Linked(stack[k].todo) /\ Starts(stack[k], hist.at, hist.ahead)
      BY <1>0, <1>1, <1>3, <1>5 DEF EdgesHold
    <2>2. /\ f.nested = <<>> /\ DOMAIN f.nested = {}
          /\ DOMAIN f.overrides \subseteq DOMAIN f.final
          /\ \A i \in DOMAIN f.todo : DOMAIN f.todo[i].deposits \subseteq DOMAIN f.final
      <3>1. stack # <<>>
        BY <1>3 DEF Inv, TypeOK
      <3>2. f.nested = <<>> /\ DOMAIN <<>> = {}
        BY <1>0, <1>3, <3>1 DEF Nesting
      <3> QED  BY <1>0, <1>1, <3>2 DEF Nesting, Covered
    <2>3. /\ Linked(Tail(f.todo)) /\ b = f.todo[1] /\ 1 \in DOMAIN f.todo
          /\ \A s \in b.active \ Driven : s \in EventSigs /\ s \in DOMAIN b.deposits
          /\ Tail(f.todo) # <<>> =>
               /\ 2 \in DOMAIN f.todo /\ Tail(f.todo)[1] = f.todo[2]
               /\ \A s \in f.todo[2].active \ Driven :
                    /\ s \in EventSigs /\ s \in DOMAIN f.todo[2].deposits
                    /\ s \in DOMAIN b.deposits =>
                         IsActiveEdge(Kind[s], b.deposits[s], f.todo[2].deposits[s])
      BY <1>0, <1>1, <2>1, TailLinked
    <2>4. \A s \in EventSigs : val'[s] = IF s \in DOMAIN r THEN r[s] ELSE val[s]
      BY <1>2, EventSettled
    <2>5. ASSUME NEW s \in hist'.ran \ (hist.ahead \cup Driven)
          PROVE  IsActiveEdge(Kind[s], hist.at[s], val'[s])
      <3>1. /\ s \in b.active /\ s \in EventSigs /\ s \in DOMAIN r
            /\ s \in DOMAIN f.overrides => IsActiveEdge(Kind[s], val[s], f.overrides[s])
        BY <1>2, <1>3, <2>3 DEF LiveEdges
      <3>2. CASE s \in DOMAIN f.overrides
        BY <1>2, <2>1, <2>4, <3>1, <3>2
      <3>3. CASE s \notin DOMAIN f.overrides
        <4>1. IsActiveEdge(Kind[s], hist.at[s], b.deposits[s])
          BY <1>1, <2>1, <2>2, <2>3, <3>1, <3>3 DEF Starts
        <4> QED  BY <1>2, <2>3, <2>4, <3>1, <3>3, <4>1
      <3> QED  BY <3>2, <3>3
    <2>6. Starts(stack'[n], val', hist'.ahead)
      <3> SUFFICES ASSUME Tail(f.todo) # <<>>, NEW s \in Tail(f.todo)[1].active \ Driven,
                          s \notin hist'.ahead, s \notin DOMAIN f.overrides
                   PROVE  IsActiveEdge(Kind[s], val'[s], Tail(f.todo)[1].deposits[s])
        BY <1>1 DEF Starts
      <3>1. /\ s \in EventSigs /\ s \in DOMAIN f.final /\ Tail(f.todo)[1] = f.todo[2]
            /\ s \in DOMAIN b.deposits =>
                 IsActiveEdge(Kind[s], b.deposits[s], f.todo[2].deposits[s])
        BY <2>2, <2>3
      <3>2. s \in DOMAIN b.deposits /\ s \in DOMAIN r /\ r[s] = b.deposits[s]
        BY <1>2, <1>3, <3>1
      <3> QED  BY <2>4, <3>1, <3>2
    <2>7. ASSUME NEW k \in DOMAIN stack \ {n} PROVE Starts(stack[k], val', hist'.ahead)
      <3>1. k = 1 /\ n = 2
        <4>1. n <= 2 /\ DOMAIN stack = 1..n
          BY <1>0, StackFacts DEF Nesting, Inv
        <4> QED  BY <1>1, <2>7, <4>1
      <3>2. DOMAIN r \subseteq DOMAIN stack[1].nested /\ DOMAIN f.final = DOMAIN stack[1].nested
        <4>1. f.final = stack[1].nested /\ f.overrides = <<>> /\ DOMAIN <<>> = {}
          BY <1>0, <3>1 DEF Nesting
        <4>2. DOMAIN b.deposits \subseteq DOMAIN f.final
          BY <2>2, <2>3
        <4> QED  BY <1>2, <4>1, <4>2
      <3>3. Starts(stack[1], hist.at, hist.ahead) /\ Linked(stack[1].todo)
            /\ stack[1].todo \in Seq(EdgeBatch)
        BY <2>1, <2>7, <3>1, StackFacts DEF Inv, Frame
      <3> SUFFICES ASSUME stack[1].todo # <<>>, NEW s \in stack[1].todo[1].active \ Driven,
                          s \notin hist'.ahead, s \notin DOMAIN stack[1].overrides,
                          s \notin DOMAIN stack[1].nested
                   PROVE  IsActiveEdge(Kind[s], val'[s], stack[1].todo[1].deposits[s])
        BY <3>1 DEF Starts
      <3>4. s \in EventSigs
        <4> DEFINE bs == stack[1].todo
        <4>1. bs \in Seq(EdgeBatch) /\ bs # <<>> /\ Linked(bs) /\ s \in bs[1].active \ Driven
          BY <3>3
        <4> HIDE DEF bs
        <4> QED  BY <4>1, TailLinked
      <3>5. s \notin hist.ahead /\ val'[s] = val[s] /\ val[s] = hist.at[s]
        BY <1>3, <2>1, <2>4, <3>2, <3>4
      <3>6. IsActiveEdge(Kind[s], hist.at[s], stack[1].todo[1].deposits[s])
        BY <3>3, <3>5 DEF Starts
      <3> QED  BY <3>5, <3>6
    <2>8. \A k \in DOMAIN stack' : Linked(stack'[k].todo) /\ Starts(stack'[k], val', hist'.ahead)
      BY <1>1, <2>1, <2>3, <2>6, <2>7
    <2>9. PendingReal(pend', val', val')
      BY <1>3, NothingPending
    <2>10. EdgesHold'
      BY <1>3, <2>8, <2>9 DEF EdgesHold
    <2>11. EdgeStep
      BY <2>5 DEF EdgeStep
    <2> QED  BY <2>10, <2>11
  <1> QED  BY <1>4, <1>5

\* The final settlement leaves the edges of the flush around it real.
LEMMA FinalReal ==
    ASSUME Inv, Nesting, NoneForced, EdgesHold, FinalSettle
    PROVE  EdgeStep /\ EdgesHold'
  <1>0. PICK n, f, g : n = Len(stack) /\ f = stack[n] /\ g = stack[1]
    OBVIOUS
  <1>1. /\ n \in Nat \ {0} /\ n \in DOMAIN stack /\ f.final \in Deposits
        /\ val' \in Settled(Over(val, f.final)) /\ pend = NoWrites /\ UNCHANGED pend
        /\ hist'.cut = hist.cut /\ hist'.at = val'
        /\ hist'.ahead = hist.ahead \ DOMAIN f.final /\ hist'.ran = {}
        /\ pc = "replay" /\ pc' # "replay"
        /\ n = 1 => stack' = <<>>
        /\ n = 2 => /\ g \in Frame /\ DOMAIN stack' = {1} /\ Len(stack') = 1
                    /\ stack'[1] = Resumed(g)
    BY <1>0, FinalFrames
  <1>2. EdgeStep
    BY <1>1 DEF EdgeStep
  <1> SUFFICES ASSUME ~hist.cut PROVE EdgesHold'
    BY <1>1, <1>2 DEF EdgesHold
  <1>3. /\ \A s \in EventSigs : s \notin DOMAIN f.final => val[s] = hist.at[s]
        /\ \A k \in DOMAIN stack :
             Linked(stack[k].todo) /\ Starts(stack[k], hist.at, hist.ahead)
    BY <1>0, <1>1 DEF EdgesHold
  <1>4. PendingReal(pend', val', val')
    BY <1>1, NothingPending
  <1>5. CASE n = 1
    <2>1. stack' = <<>> /\ DOMAIN <<>> = {}
      BY <1>1, <1>5
    <2> QED  BY <1>1, <1>4, <2>1 DEF EdgesHold
  <1>6. CASE n # 1
    <2>1. n <= 2
      BY <1>0 DEF Nesting
    <2>2. n = 2
      BY <1>1, <1>6, <2>1
    <2>3. /\ 1 \in DOMAIN stack /\ g \in Frame /\ f.final = g.nested
          /\ Linked(g.todo) /\ Starts(g, hist.at, hist.ahead) /\ g.todo \in Seq(EdgeBatch)
      <3>1. 1 \in DOMAIN stack
        BY <1>0, <2>2, StackFacts DEF Inv
      <3>2. g.todo \in Seq(EdgeBatch)
        BY <1>1, <2>2 DEF Frame
      <3> QED  BY <1>0, <1>1, <1>3, <2>2, <3>1, <3>2 DEF Nesting
    <2>4. /\ Resumed(g).todo = g.todo
          /\ DOMAIN Resumed(g).overrides = DOMAIN g.overrides \cup DOMAIN g.nested
      BY <2>3, ResumedFacts
    <2>5. \A s \in EventSigs : s \notin DOMAIN f.final => val'[s] = hist.at[s]
      BY <1>1, <1>3, EventSettled
    <2>6. Starts(Resumed(g), val', hist'.ahead)
      <3> SUFFICES ASSUME g.todo # <<>>, NEW s \in g.todo[1].active \ Driven, s \notin hist'.ahead,
                          s \notin DOMAIN g.overrides, s \notin DOMAIN g.nested
                   PROVE  IsActiveEdge(Kind[s], val'[s], g.todo[1].deposits[s])
        BY <2>4 DEF Starts
      <3>1. s \in EventSigs
        BY <2>3, TailLinked
      <3>2. s \notin hist.ahead /\ val'[s] = hist.at[s]
        BY <1>1, <2>3, <2>5, <3>1
      <3>3. IsActiveEdge(Kind[s], hist.at[s], g.todo[1].deposits[s])
        BY <2>3, <3>2 DEF Starts
      <3> QED  BY <3>2, <3>3
    <2>7. \A k \in DOMAIN stack' : Linked(stack'[k].todo) /\ Starts(stack'[k], val', hist'.ahead)
      BY <1>1, <2>2, <2>3, <2>4, <2>6
    <2> QED  BY <1>1, <1>4, <2>7 DEF EdgesHold
  <1> QED  BY <1>5, <1>6

\* What a callback wrote is looked at again by the flush that called it.
LEMMA NestedReal == ASSUME Inv, Nesting, EdgesHold, FlushNested PROVE EdgesHold'
  <1>0. PICK n : n = Len(stack)
    OBVIOUS
  <1>1. /\ n \in DOMAIN stack /\ DOMAIN stack' = DOMAIN stack
        /\ stack'[n].todo = stack[n].todo /\ stack'[n].overrides = stack[n].overrides
        /\ \A k \in DOMAIN stack \ {n} : stack'[k] = stack[k]
        /\ pc = "dispatched" /\ pc' = "begin" /\ UNCHANGED <<val, pend, hist>>
    BY <1>0, NestedFrames
  <1>2. stack[n].nested = <<>> /\ DOMAIN <<>> = {}
    <2>1. stack # <<>>
      BY <1>1 DEF Inv, TypeOK
    <2> QED  BY <1>0, <1>1, <2>1 DEF Nesting
  <1> SUFFICES ASSUME ~hist.cut PROVE EdgesHold'
    BY <1>1 DEF EdgesHold
  <1>3. /\ PendingReal(pend, hist.at, val)
        /\ \A k \in DOMAIN stack :
             Linked(stack[k].todo) /\ Starts(stack[k], hist.at, hist.ahead)
    BY <1>1 DEF EdgesHold
  <1>4. Starts(stack'[n], hist.at, hist.ahead)
    <2>1. Starts(stack[n], hist.at, hist.ahead)
      BY <1>1, <1>3
    <2> QED  BY <1>1, <1>2, <2>1 DEF Starts
  <1>5. \A k \in DOMAIN stack' : Linked(stack'[k].todo) /\ Starts(stack'[k], hist.at, hist.ahead)
    BY <1>1, <1>3, <1>4
  <1> QED  BY <1>1, <1>3, <1>5 DEF EdgesHold

\* Steps that only move control, other than into a replay.
LEMMA RealFrame ==
    ASSUME EdgesHold, UNCHANGED <<val, pend, stack, hist>>, pc # "replay", pc' # "replay"
    PROVE  EdgesHold'
  BY DEF EdgesHold

\* Every step runs real edges only and keeps those that wait real.
LEMMA RealStep ==
    ASSUME WriteDepth <= 1, "force" \notin Flags, Inv, Nesting, EdgesWait, NoneForced, EdgesHold,
           [Next]_vars
    PROVE  EdgeStep /\ NoneForced' /\ EdgesHold'
  <1>0. TypeOK /\ hist \in History
    BY DEF Inv, TypeOK
  <1>1. ASSUME NEW s \in Sigs, NEW v \in Levels, Deposit(s, v)
        PROVE  EdgeStep /\ NoneForced' /\ EdgesHold'
    <2>1. /\ Write(s, v) /\ hist' = [Note(s, val[s], v) EXCEPT !.last[s] = v, !.stray = Deposited(s)]
          /\ Foreign /\ AfterPut /\ UNCHANGED <<forced, stack, running>>
      BY <1>1 DEF Deposit, NoneForced
    <2>2. /\ hist'.at = hist.at /\ hist'.ahead = hist.ahead /\ hist'.cut = hist.cut
          /\ hist'.ran = {}
      BY <1>0, <2>1 DEF Note, History
    <2>3. pc # "replay" /\ pc' # "replay"
      BY <2>1, ForeignFacts
    <2>4. ASSUME ~hist.cut PROVE PendingReal(pend', hist'.at, val')
      <3>1. PendingReal(pend, hist.at, val)
        BY <2>3, <2>4 DEF EdgesHold
      <3> QED  BY <2>1, <2>2, <3>1, WriteReal
    <2> QED  BY <2>1, <2>2, <2>3, <2>4 DEF EdgeStep, NoneForced, EdgesHold
  <1>2. ASSUME NEW s \in Sigs, Release(s) PROVE EdgeStep /\ NoneForced' /\ EdgesHold'
    <2>1. UNCHANGED <<val, forced, pend, hist, stack, running>> /\ Foreign /\ AfterPut
      BY <1>2 DEF Release, NoneForced
    <2>2. pc # "replay" /\ pc' # "replay"
      BY <2>1, ForeignFacts
    <2> QED  BY <2>1, <2>2, RealFrame DEF EdgeStep, NoneForced
  <1>3. CASE Finish \/ RunBegins \/ RegionEnds \/ RunEnds \/ CallbacksReturn
    <2>1. UNCHANGED <<val, forced, pend, stack, hist>> /\ pc # "replay" /\ pc' # "replay"
      BY <1>3 DEF Finish, Foreign, RunBegins, RegionEnds, RunEnds, CallbacksReturn
    <2> QED  BY <2>1, RealFrame DEF EdgeStep, NoneForced
  <1>4. CASE NextBatch
    <2>1. /\ UNCHANGED <<val, forced, pend, stack, hist>> /\ pc = "dispatched"
          /\ pend = NoWrites
      BY <1>4 DEF NextBatch, Inv, DataKept
    <2>2. ~hist.cut => \A s \in EventSigs : val[s] = hist.at[s]
      BY <2>1, NothingPending DEF EdgesHold
    <2>3. EdgesHold'
      BY <2>1, <2>2 DEF EdgesHold
    <2> QED  BY <2>1, <2>3 DEF EdgeStep, NoneForced
  <1>5. CASE InstallRuntime
    <2>1. /\ pend' = NoWrites /\ stack' = <<>> /\ hist' = InitHist(val')
          /\ forced' = [s \in Sigs |-> NotForced] /\ pc' # "replay"
      BY <1>0, <1>5 DEF InstallRuntime, TypeOK
    <2>2. hist'.at = val' /\ hist'.ran = {} /\ DOMAIN stack' = {}
      BY <2>1 DEF InitHist
    <2>3. PendingReal(pend', hist'.at, val')
      BY <2>1, <2>2, NothingPending
    <2> QED  BY <2>1, <2>2, <2>3 DEF EdgeStep, NoneForced, NotForced, EdgesHold
  <1>6. CASE BeginFlush
    <2>1. UNCHANGED forced /\ hist'.ran = {}
      BY <1>0, <1>6 DEF BeginFlush, History
    <2> QED  BY <1>6, <2>1, BeginReal DEF EdgeStep, NoneForced
  <1>7. CASE ReplayBatch
    <2>1. UNCHANGED forced
      BY <1>7 DEF ReplayBatch
    <2> QED  BY <1>7, <2>1, ReplayReal DEF NoneForced
  <1>8. CASE FinishSeen \/ TooManySettlements \/ SettleFails
    <2>1. UNCHANGED forced /\ hist'.cut /\ hist'.ran = {}
      BY <1>0, <1>8 DEF FinishSeen, TooManySettlements, SettleFails, Unwind, History
    <2> QED  BY <2>1 DEF EdgeStep, NoneForced, EdgesHold
  <1>9. CASE FlushNested
    <2>1. UNCHANGED <<forced, hist>> /\ pc # "replay"
      BY <1>9 DEF FlushNested
    <2> QED  BY <1>9, <2>1, NestedReal DEF EdgeStep, NoneForced
  <1>10. CASE FinalSettle
    <2>1. UNCHANGED forced
      BY <1>10 DEF FinalSettle
    <2> QED  BY <1>10, <2>1, FinalReal DEF NoneForced
  <1>11. CASE UNCHANGED vars
    BY <1>11 DEF vars, EdgeStep, NoneForced, EdgesHold
  <1>12. \A s \in Sigs, v \in Levels : ~ForceValue(s, v)
    BY DEF ForceValue
  <1> QED
    BY <1>1, <1>2, <1>3, <1>4, <1>5, <1>6, <1>7, <1>8, <1>9, <1>10, <1>11, <1>12 DEF Next

\* The initial state.
LEMMA RealInit == ASSUME Init PROVE NoneForced /\ EdgesHold
  <1>1. /\ pend = NoWrites /\ stack = <<>> /\ hist = InitHist(val) /\ pc = "host"
        /\ forced = [s \in Sigs |-> NotForced]
    BY DEF Init
  <1>2. hist.at = val /\ DOMAIN stack = {}
    BY <1>1 DEF InitHist
  <1>3. PendingReal(pend, hist.at, val)
    BY <1>1, <1>2, NothingPending
  <1> QED  BY <1>1, <1>2, <1>3 DEF NoneForced, NotForced, EdgesHold

\* While nothing is forced and callbacks inside a nested flush do not write, a
\* clock domain runs only for a transition that takes place between two
\* settlements, for any clocks, values and number of writes.  Two flushes deep
\* the code breaks it: what the innermost flush wrote is not among the overrides
\* of the outermost, whose next batch then runs an edge that is already over.
THEOREM ReplayedEdgesAreReal ==
    ASSUME WriteDepth <= 1, "force" \notin Flags
    PROVE  Spec => EdgesAreReal
  <1> DEFINE J == Nesting /\ EdgesWait /\ NoneForced /\ EdgesHold
  <1>1. Init => J
    BY NestingInit, EdgesFresh, RealInit DEF Init
  <1>2. Inv /\ J /\ [Next]_vars => J'
    <2> SUFFICES ASSUME Inv, J, [Next]_vars PROVE J'
      OBVIOUS
    <2>1. Nesting'
      BY NestingStep
    <2>2. EdgesWait'
      BY EdgesStep
    <2>3. NoneForced' /\ EdgesHold'
      BY RealStep
    <2> QED  BY <2>1, <2>2, <2>3
  <1>3. Inv /\ J /\ [Next]_vars =>
          [pc = "replay" /\ hist'.ran # {} /\ ~hist.cut =>
             \A s \in hist'.ran \ (hist.ahead \cup Driven) :
               IsActiveEdge(Kind[s], hist.at[s], val'[s])]_vars
    BY RealStep DEF EdgeStep
  <1> QED  BY <1>1, <1>2, <1>3, InvHolds, PTL DEF Spec, EdgesAreReal


=============================================================================
