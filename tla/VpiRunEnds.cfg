SPECIFICATION EndlessSpec
CONSTANTS
  sig = sig
  Sigs = {sig}
  Values = {0, 1}
  Reasons = {"VALUE_CHANGE", "READ_WRITE_SYNCH", "READ_ONLY_SYNCH", "NEXT_SIM_TIME", "AFTER_DELAY", "START_OF_SIMULATION", "END_OF_SIMULATION"}
  Delays = {0, 1}
  MaxRegs = 2
  MaxPuts = 0
  Endless = TRUE
  MaxEdges = 1
  MaxIter = 3
  MayFail = TRUE
  EarlyFinish = TRUE
PROPERTIES
  FinishEndsRun
  QuietRunReturns
