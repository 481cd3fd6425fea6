\* An assertion of the design that fails after the last edge.
CONSTANTS
  a = a
  b = b
  clk = clk
  div = div
  rst = rst
  Components = {a, b}
  Clocks = {clk, div}
  Resets = {rst}
  None = None
  Follows <- MCFollows
  Generators <- MCGenerators
  Benches <- ThreeBenches
  Values = {0, 1}
  Keep = Keep
  Counts = {0, 2}
  Limits = {}
  NoLimit = NoLimit
  MaxStatements = 3
  MaxRuns = 1
SPECIFICATION Spec
CHECK_DEADLOCK FALSE
INVARIANT PassMeansNoFailure
