SPECIFICATION Spec
CONSTANTS
  q1 = q1
  Readers = {q1}
  Threshold = 3
  MaxParts = 6
  MaxOpens = 2
  MaxFlushes = 4
  MaxForces = 1
  MaxDrops = 1
  FaultKinds = {}
  MaxFaults = 0
  MaxCrashes = 0
INVARIANTS NeverADeletedFile
