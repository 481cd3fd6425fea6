------------------------------ MODULE EventLog ------------------------------
(***************************************************************************)
(* What the runtime-event ring promises: a log of events with one reader.  *)
(* Each event is consumed in one step, in order and as it was written; a   *)
(* reader that falls more than Capacity events behind may give up the      *)
(* oldest ones, all of them at once, and knows which.                      *)
(***************************************************************************)
EXTENDS Integers

CONSTANTS Capacity, Words

VARIABLES
  written,     \* number of events published
  pos,         \* number of events consumed
  delivered,   \* the events handed out
  missed       \* the numbers of the events given up

vars == <<written, pos, delivered, missed>>

(* The event that was written as number n: every word is its own.           *)
Event(n) == [seq |-> n, words |-> [w \in Words |-> n]]

Init == written = 0 /\ pos = 0 /\ delivered = {} /\ missed = {}

Publish ==
  /\ written' = written + 1
  /\ UNCHANGED <<pos, delivered, missed>>

Deliver ==
  /\ pos < written
  /\ pos' = pos + 1
  /\ delivered' = delivered \cup {Event(pos)}
  /\ UNCHANGED <<written, missed>>

GiveUp ==
  /\ pos + Capacity < written
  /\ pos' = written - Capacity
  /\ missed' = missed \cup pos..(pos' - 1)
  /\ UNCHANGED <<written, delivered>>

Next == Publish \/ Deliver \/ GiveUp

Spec == Init /\ [][Next]_vars
=============================================================================
