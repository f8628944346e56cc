SPECIFICATION Spec
CONSTANTS
  A = A
  B = B
  r1 = r1
  r2 = r2
  r3 = r3
  LabelSets = {A, B}
  NoLabels = NoLabels
  Days <- TwoDays
  Requests = {r1, r2, r3}
  LabelsOf <- RaceLabels
  DaysOf <- SpanDays
  Cutoffs <- CutoffTwo
  MaxSeries = 2
  FaultKinds = {"registry", "index", "open", "write", "manifest", "dropdata", "dropindex"}
  MaxFaults = 1
  MaxCrashes = 2
INVARIANTS TypeOK KnownSeries IndexBeforeData SeriesIdentity Findable
PROPERTIES IdentityIsForever
