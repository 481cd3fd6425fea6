CONSTANTS
    In <- MCIn
    St <- MCSt
    Out <- MCOut
    Blank = 0
    Events = {"clk", "rst"}
    Comb <- MCComb
    Ff <- MCFf
    Loops <- MCLoops
    Fatals <- MCFatals
    MaxMany = 3
    NoSnap = NoSnap
SPECIFICATION Spec
INVARIANTS CleanIsSettled EveryChangeIsShown
PROPERTIES ShownOnlyOnChange RefinesEager
