----------------------------- MODULE DesignEval -----------------------------
(***************************************************************************)
(* One compiled design as the hosts see it: a memory that holds the input  *)
(* signals, the registers and the signals that combinational logic drives, *)
(* and the two entry points a back end offers, eval_comb and               *)
(* eval_apply_ff_at (SimBackend).  Values are abstract: an input           *)
(* valuation, a register valuation and a valuation of the driven signals.  *)
(***************************************************************************)
EXTENDS Integers

CONSTANTS
    In,        \* valuations of the input signals
    St,        \* valuations of the registers
    Out,       \* valuations of the signals driven by combinational logic
    Blank,     \* the driven signals of a memory nothing was evaluated in
    Events,    \* clock and reset events, one flip-flop domain each
    Comb,      \* Comb[i][s]: the driven signals settled at inputs i, state s
    Ff,        \* Ff[e][i][s][o]: the registers after e, from what memory holds
    Loops,     \* pairs <<i, s>> at which the logic does not settle (a true loop)
    Fatals     \* pairs <<i, s>> at which a fatal $assert of an always_comb fails

ASSUME DesignAssumption ==
    /\ In # {} /\ St # {} /\ Out # {} /\ Events # {}
    /\ Blank \in Out
    /\ Comb \in [In -> [St -> Out]]
    /\ Ff \in [Events -> [In -> [St -> [Out -> St]]]]
    /\ Loops \subseteq In \X St
    /\ Fatals \subseteq In \X St

\* How an evaluation ends.  "loop" and "fatal" leave the compiled code in the
\* middle of the pass, at the block that does not settle or at the capture site
\* of the failing $assert: some of the driven signals are new, others are old.
Ends == {"ok", "fatal", "loop"}

\* EvalComb(i, s, c, end): at inputs i and state s, eval_comb may leave the
\* driven signals c and end this way.
EvalComb(i, s, c, end) ==
    \/ end = "ok" /\ <<i, s>> \notin Loops /\ c = Comb[i][s]
    \/ end = "loop" /\ <<i, s>> \in Loops
    \/ end = "fatal" /\ <<i, s>> \in Fatals

\* EvalFf(e, i, s, o, t, ok): eval_apply_ff_at(e) may leave the registers t.
\* The flip-flops read the driven signals from memory: o is what memory holds,
\* not what the logic would settle to.  A failed call leaves the registers
\* partly written.
EvalFf(e, i, s, o, t, ok) == ok => t = Ff[e][i][s][o]

\* What one event does to the registers when nothing is stale.
Edge(e, i, s) == Ff[e][i][s][Comb[i][s]]
=============================================================================
