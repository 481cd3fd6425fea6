CONSTANTS
    In <- MCIn
    St <- MCSt
    Out <- MCOut
    Blank = 0
    Events = {"clk", "clk2"}
    Comb <- MCComb
    Ff <- MCFf
    Loops <- MCLoops
    Fatals <- MCFatals
    Silent <- MCSilent
    Assert <- MCAssert
    Release <- MCRelease
    Hosts = {"simulation"}
    MaxTicks = 3
SPECIFICATION Spec
INVARIANT ReadsFollowWrites
\* dispose ends the DUT.
CHECK_DEADLOCK FALSE
