SPECIFICATION FairSpec
CONSTANTS
  q1 = q1
  Readers = {q1}
  Threshold = 3
  MaxParts = 7
  MaxOpens = 1
  MaxFlushes = 3
  MaxForces = 2
  MaxDrops = 0
  FaultKinds = {"write", "manifest"}
  MaxFaults = 1
  MaxCrashes = 1
INVARIANTS TypeOK ScanExact NeverADeletedFile DurableOnce PublishNeverCollides
PROPERTIES RefinesDayParts FlushTerminates
