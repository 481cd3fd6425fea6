\* Runs of a testbench with up to two components, with and without a limit.
CONSTANTS
  a = a
  b = b
  clk = clk
  div = div
  rst = rst
  Components = {a, b}
  Clocks = {clk, div}
  Resets = {rst}
  None = None
  Follows <- MCFollows
  Generators <- MCGenerators
  Benches <- ThreeBenches
  Values = {1}
  Keep = Keep
  Counts = {0, 2}
  Limits = {2}
  NoLimit = NoLimit
  MaxStatements = 2
  MaxRuns = 2
SPECIFICATION FairSpec
CHECK_DEADLOCK FALSE
INVARIANTS
  VerdictIsEarned
  TicksAreCounted
  OutputsInSync
  CyclesCountEdges
  FinishedOnce
PROPERTY RunEnds
