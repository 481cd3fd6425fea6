--------------------------- MODULE EagerSimulator ---------------------------
(***************************************************************************)
(* What a simulator promises its user, whatever it postpones: every write  *)
(* and every clock edge takes effect at once, and every observation is of  *)
(* the settled design.  There is no dirty flag here and no memory of       *)
(* driven signals: an observation computes them.  `call' is the interface: *)
(* the call that returned last, with its arguments and its result.         *)
(*                                                                         *)
(* Two things suspend the promise, and until the simulator recovers leave  *)
(* observations and edges unspecified: an edge that reports an error, and  *)
(* an evaluation at a pair in Silent, where a fatal assertion may stop the *)
(* pass without being reported.                                            *)
(***************************************************************************)
EXTENDS DesignEval

CONSTANT Silent   \* pairs <<i, s>> at which a failing fatal $assert may go unreported

VARIABLES
    inp,     \* the inputs
    reg,     \* the registers
    sound,   \* FALSE before the first evaluation and while the promise is suspended
    call     \* the last call: <<operation, argument or result>>

vars == <<inp, reg, sound, call>>

Init == inp \in In /\ reg \in St /\ sound \in BOOLEAN /\ call = <<"new">>

Write ==
    \E i \in In, s \in St :
        /\ inp' = i
        /\ reg' = s
        /\ sound => sound'
        /\ call' = <<"write", i, s>>

Clock ==
    \E e \in Events, s \in St :
        /\ sound => s = Edge(e, inp, reg) \/ <<inp, reg>> \in Silent
        /\ reg' = s
        /\ sound => sound' \/ <<inp, s>> \in Silent
        /\ call' = <<"clock", e>>
        /\ UNCHANGED inp

Observe ==
    \E o \in Out :
        /\ sound => (sound' /\ o = Comb[inp][reg]) \/ <<inp, reg>> \in Silent
        /\ call' = <<"observe", o>>
        /\ UNCHANGED <<inp, reg>>

\* An edge that returns an error may leave the registers partly written.
ClockFails ==
    \E e \in Events, s \in St :
        /\ reg' = s
        /\ sound' \in BOOLEAN
        /\ call' = <<"clock fails", e>>
        /\ UNCHANGED inp

\* Anything else a user can call: it changes neither inputs nor registers.
Other ==
    /\ sound => sound' \/ <<inp, reg>> \in Silent
    /\ call' = <<"other">>
    /\ UNCHANGED <<inp, reg>>

Next == Write \/ Clock \/ Observe \/ ClockFails \/ Other

Spec == Init /\ [][Next]_vars
=============================================================================
