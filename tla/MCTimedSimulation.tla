--------------------------- MODULE MCTimedSimulation ---------------------------
(***************************************************************************)
(* A design with one testbench clock, one clock gated from it and an       *)
(* asynchronous reset, in the shapes the runs need.                        *)
(***************************************************************************)
EXTENDS TimedSimulation, TLC

CONSTANTS clk, gclk, rst, oclk

NoAlias == [a \in {} |-> clk]
OutputAlias == oclk :> clk
ClkRst == (clk :> "ClockPosedge") @@ (rst :> "ResetAsyncLow")
ThreeEvents == (clk :> "ClockPosedge") @@ (gclk :> "ClockNegedge") @@ (rst :> "ResetAsyncHigh")
=============================================================================
