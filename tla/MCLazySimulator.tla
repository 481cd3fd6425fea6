--------------------------- MODULE MCLazySimulator --------------------------
(* A two-bit toggle design: the driven signal is the exclusive or of the     *)
(* input and the register, and a clock stores it; a second event clears the  *)
(* register.  At input 2 the logic is a true loop while the register is set; *)
(* at input 1 with the register set a fatal $assert fails.                   *)
EXTENDS LazySimulator

MCIn == 0..2
MCSt == 0..1
MCOut == 0..1
MCComb == [i \in MCIn |-> [s \in MCSt |-> (i + s) % 2]]
MCFf == [e \in {"clk", "rst"} |-> [i \in MCIn |-> [s \in MCSt |-> [o \in MCOut |->
            IF e = "clk" THEN o ELSE 0]]]]
MCLoops == {<<2, 1>>}
MCFatals == {<<1, 1>>}
=============================================================================
