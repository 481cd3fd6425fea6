\* Forces and releases of inputs and of a register, mixed with deposits.
CONSTANTS
  clk = clk
  d = d
  q = q
  Sigs = {clk, q}
  Kind <- ClockAndRegister
  Driven = {q}
  Levels = {"Zero", "One"}
  Flags = {"deposit", "force", "release"}
  MaxPuts = 5
  WriteDepth = 2
  SettleLimit = 2
  MayFail = FALSE
SPECIFICATION Spec
INVARIANT LastWriteWins
