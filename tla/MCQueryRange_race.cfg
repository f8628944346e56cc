SPECIFICATION QSpec
CONSTANTS
  A = A
  B = B
  r1 = r1
  r2 = r2
  LabelSets = {A, B}
  NoLabels = NoLabels
  Days <- TwoDays
  Requests = {r1, r2}
  LabelsOf <- TwoLabels
  DaysOf <- MixedDays
  Cutoffs <- CutoffTwo
  MaxSeries = 2
  FaultKinds = {"registry"}
  MaxFaults = 1
  MaxCrashes = 1
  Selectors <- QuerySelectors
  Windows <- QueryWindows
INVARIANTS QueryReturnsOnce QueryComplete
