CONSTANTS
    In <- MCIn
    St <- MCSt
    Out <- MCOut
    Blank = 0
    Events = {"clk", "clk2"}
    Comb <- MCComb
    Ff <- MCFf
    Loops <- MCLoops
    Fatals <- MCFatals
    Silent <- MCSilent
    Assert <- MCAssert
    Release <- MCRelease
    Hosts = {"simulator", "simulation"}
    MaxTicks = 3
SPECIFICATION Spec
INVARIANTS CleanIsSettled
PROPERTIES RefinesEager
\* dispose ends the DUT.
CHECK_DEADLOCK FALSE
