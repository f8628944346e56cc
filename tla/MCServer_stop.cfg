SPECIFICATION FairServerSpec
CONSTANTS
  A = A
  r1 = r1
  r2 = r2
  r3 = r3
  import = import
  write = write
  LabelSets = {A}
  NoLabels = NoLabels
  Days <- DayOne
  Requests = {r1, r2, r3}
  LabelsOf <- Labels
  DaysOf <- OneDay
  Cutoffs <- CutoffTwo
  MaxSeries = 1
  FaultKinds = {"registry", "index", "open", "write", "dropindex"}
  MaxFaults = 1
  MaxCrashes = 1
  Imports = {import}
  Writes = {write}
  Entries <- TwoBatches
  NoName = NoName
  NoSamples = NoSamples
  MaxEnds = 1
INVARIANTS NothingLost NoDuplicate AnsweredBatches CleanShutdown
PROPERTIES RefinesDurableStore FlushPromise EventuallyDurable ShutdownCompletes
