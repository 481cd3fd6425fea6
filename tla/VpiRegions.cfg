SPECIFICATION Spec
CONSTANTS
  sig = sig
  Sigs = {sig}
  Values = {0, 1}
  Reasons = {"VALUE_CHANGE", "READ_WRITE_SYNCH", "READ_ONLY_SYNCH", "NEXT_SIM_TIME", "AFTER_DELAY", "START_OF_SIMULATION", "END_OF_SIMULATION"}
  Delays = {0, 1, 2}
  MaxRegs = 3
  MaxPuts = 2
  Endless = FALSE
  MaxEdges = 1
  MaxIter = 3
  MayFail = TRUE
  EarlyFinish = FALSE
INVARIANTS
  HandlesFreedOnce
PROPERTIES
  RemovedNeverFires
  DeliversChanges
  ReadOnlySeesSettled
  TimeWaitsForAll
  TimersFireOnTime
  OnlyEndAfterFinish
  NextStepIsLater
