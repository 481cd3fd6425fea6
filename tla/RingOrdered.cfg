\* Stores become visible in program order (x86-64, or the exchanges of Cranelift code).
CONSTANTS
  site = site
  payload = payload
  Capacity = 2
  Words = {site, payload}
  Mark = Mark
  MarkFirst = TRUE
  MaxEvents = 6
SPECIFICATION FairSpec
INVARIANTS
  NoTornDelivery
  ExactlyOnce
  QuietDrainIsComplete
PROPERTIES
  DrainTerminates
  RefinesLog
