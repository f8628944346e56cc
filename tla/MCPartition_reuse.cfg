SPECIFICATION Spec
CONSTANTS
  q1 = q1
  Readers = {q1}
  Threshold = 3
  MaxParts = 3
  MaxOpens = 2
  MaxFlushes = 2
  MaxForces = 0
  MaxDrops = 1
  FaultKinds = {}
  MaxFaults = 0
  MaxCrashes = 1
INVARIANTS PartIDsNeverReused
