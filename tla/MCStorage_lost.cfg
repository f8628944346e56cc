SPECIFICATION Spec
CONSTANTS
  A = A
  B = B
  r1 = r1
  r2 = r2
  r3 = r3
  LabelSets = {A, B}
  NoLabels = NoLabels
  Days <- TwoDays
  Requests = {r1}
  LabelsOf <- RaceLabels
  DaysOf <- SpanDays
  Cutoffs <- CutoffTwo
  MaxSeries = 2
  FaultKinds = {"write"}
  MaxFaults = 1
  MaxCrashes = 0
INVARIANTS NothingLost
