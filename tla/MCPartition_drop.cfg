SPECIFICATION FairSpec
CONSTANTS
  q1 = q1
  Readers = {q1}
  Threshold = 2
  MaxParts = 9
  MaxOpens = 2
  MaxFlushes = 5
  MaxForces = 0
  MaxDrops = 2
  FaultKinds = {"write", "drop"}
  MaxFaults = 1
  MaxCrashes = 0
INVARIANTS QueriesSurviveDrops FlushTargetIsCurrent
PROPERTIES RefinesDayParts FlushTerminates
