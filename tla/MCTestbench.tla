------------------------------ MODULE MCTestbench ------------------------------
(***************************************************************************)
(* Testbenches without components, with one that only has methods, and     *)
(* with two that are clocked.  The second clock is derived from the first, *)
(* from which the design also makes a reset; one reset generator has an    *)
(* event, the other does not.                                              *)
(***************************************************************************)
EXTENDS Testbench

CONSTANTS a, b, clk, div, rst

EventOf(f, c) == IF c \in DOMAIN f THEN f[c] ELSE None

Bench(used, clocks, resets) ==
  [used |-> used, clock |-> [c \in Components |-> EventOf(clocks, c)],
   reset |-> [c \in Components |-> EventOf(resets, c)]]

NoEvents == [c \in {} |-> None]

ThreeBenches ==
  {Bench({}, NoEvents, NoEvents),
   Bench({a}, NoEvents, NoEvents),
   Bench({a, b}, [c \in {a, b} |-> IF c = a THEN clk ELSE div], [c \in {b} |-> rst])}

MCFollows == [c \in {clk, div} |-> IF c = clk THEN {div} ELSE {rst}]

MCGenerators == {[clock |-> clk, event |-> rst], [clock |-> div, event |-> None]}
=============================================================================
