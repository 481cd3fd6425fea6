\* Clocks, one-shot events and run_until over a small stretch of time.
CONSTANTS
  clk = clk
  gclk = gclk
  rst = rst
  oclk = oclk
  Ids = {clk, rst}
  Aliases = {}
  AliasOf <- NoAlias
  Kind <- ClkRst
  Derived = {}
  Cascaded = {}
  Active = {clk}
  Split = FALSE
  Values = {0, 1}
  Periods = {2, 4}
  MaxTime = 2
  MaxPush = 2
  MaxSteps = {2}
  MayPoke = FALSE
  Calls = {"step", "run_until", "runUntil"}
  MayFail = FALSE
SPECIFICATION FairSpec
INVARIANTS
  RunUntilProcessesExactly
  NeverOvertaken
  ClockKeepsPhase
PROPERTY
  DriverCallReturns
