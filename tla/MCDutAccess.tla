----------------------------- MODULE MCDutAccess ----------------------------
(* An input bit and a reset port (the two's place of the input), a register  *)
(* and their exclusive or; the clock stores the driven signal, or zero in    *)
(* reset.  At input 3 the logic is a true loop while the register is set; at *)
(* inputs 1 and 2 with the register set a fatal $assert fails, at 1 that of  *)
(* site 0.                                                                   *)
EXTENDS DutAccess

MCIn == 0..3
MCSt == 0..1
MCOut == 0..1
MCComb == [i \in MCIn |-> [s \in MCSt |-> (i + s) % 2]]
MCFf == [e \in {"clk", "clk2"} |-> [i \in MCIn |-> [s \in MCSt |-> [o \in MCOut |->
            IF i >= 2 THEN 0 ELSE IF e = "clk" THEN o ELSE 1]]]]
MCLoops == {<<3, 1>>}
MCFatals == {<<1, 1>>, <<2, 1>>}
MCSilent == {<<1, 1>>}
MCAssert == [i \in MCIn |-> 2 + (i % 2)]
MCRelease == [i \in MCIn |-> i % 2]
=============================================================================
