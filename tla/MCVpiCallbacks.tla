---------------------------- MODULE MCVpiCallbacks ----------------------------
(* Instances of VpiCallbacks for TLC. *)
EXTENDS VpiCallbacks, FiniteSets

CONSTANT sig

(***************************************************************************)
(* Registrations for ever within MaxRegs ids.  Ids matter to the code only *)
(* by their order, and times only by their differences, so once the ids    *)
(* are used up those that nobody holds any more are dropped, the others    *)
(* closed up in their order, and the time is counted from now.             *)
(***************************************************************************)
Held == DOMAIN cbs \cup DOMAIN queue \cup ({firing.id} \ {None})

Rank(i) == Cardinality({j \in Held : j < i})

HeldId(k) == CHOOSE i \in Held : Rank(i) = k

Ranks(ids) == {Rank(i) : i \in ids \cap Held}

FromNow(reg) == [reg EXCEPT !.due = IF @ = None THEN None ELSE @ - time]

Renumber ==
  /\ pc = "callback" /\ nextId = MaxRegs /\ Held # 0..(MaxRegs - 1)
  /\ cbs' = [k \in Ranks(DOMAIN cbs) |-> FromNow(cbs[HeldId(k)])]
  /\ queue' = [k \in Ranks(DOMAIN queue) |-> queue[HeldId(k)]]
  /\ firing' = [firing EXCEPT !.id = Rank(@), !.reg = FromNow(@)]
  /\ nextId' = Cardinality(Held) /\ time' = 0
  /\ freed' = Ranks(freed) /\ removed' = Ranks(removed)
  /\ given' = [k \in DOMAIN given |-> IF k < nextId' THEN given[HeldId(k)] ELSE None]
  /\ UNCHANGED <<val, pend, finish, running, error, iterations, progressed, region, edges, site,
                 pc, puts, doubleFree, lateWrite>>

(* As FairSpec, with registrations for ever. *)
EndlessSpec == Init /\ [][Next \/ Renumber]_vars /\ WF_vars(Run)
=============================================================================
