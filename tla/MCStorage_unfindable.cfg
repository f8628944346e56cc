SPECIFICATION Spec
CONSTANTS
  A = A
  B = B
  r1 = r1
  r2 = r2
  r3 = r3
  LabelSets = {A, B}
  NoLabels = NoLabels
  Days <- DayOne
  Requests = {r1, r2}
  LabelsOf <- RaceLabels
  DaysOf <- OneDay
  Cutoffs <- CutoffTwo
  MaxSeries = 2
  FaultKinds = {}
  MaxFaults = 0
  MaxCrashes = 0
INVARIANTS FindableWhileDataExists
