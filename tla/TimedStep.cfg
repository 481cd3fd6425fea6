\* One design, every interleaving of API calls: what a step guarantees.
CONSTANTS
  clk = clk
  gclk = gclk
  rst = rst
  oclk = oclk
  Ids = {clk, gclk, rst}
  Aliases = {oclk}
  AliasOf <- OutputAlias
  Kind <- ThreeEvents
  Derived = {gclk}
  Cascaded = {clk, gclk}
  Active = {clk, gclk, rst}
  Split = TRUE
  Values = {0, 1}
  Periods = {}
  MaxTime = 0
  MaxPush = 2
  MaxSteps = {}
  MayPoke = TRUE
  Calls = {"step"}
  MayFail = TRUE
SPECIFICATION Spec
INVARIANTS
  NoLostEdge
  RoundReadsOneState
  ComponentsFireAfterCommit
  SettledAtFinish
