------------------------------ MODULE MCVpiWrites ------------------------------
(***************************************************************************)
(* A clock, a data input, and a register of the design that clocks a       *)
(* domain of its own.                                                      *)
(***************************************************************************)
EXTENDS VpiWrites, TLC

CONSTANTS clk, d, q

ClockAndRegister == (clk :> "ClockPosedge") @@ (q :> "ClockNegedge")
ClockAndData == (clk :> "ClockPosedge") @@ (d :> "Other")
=============================================================================
