\* Deposits of a four-state clock and a data input; value-change callbacks write, but not from
\* inside a nested replay.
CONSTANTS
  clk = clk
  d = d
  q = q
  Sigs = {clk, d}
  Kind <- ClockAndData
  Driven = {}
  Levels = {"Zero", "One", "X"}
  Flags = {"deposit"}
  MaxPuts = 6
  WriteDepth = 1
  SettleLimit = 2
  MayFail = TRUE
SPECIFICATION Spec
INVARIANTS
  LastWriteWins
  NoEdgeLost
  EdgeSeesItsData
PROPERTY
  EdgesAreReal
