SPECIFICATION Spec
CONSTANTS
  forward = forward
  day = day
  Dirs = {forward}
  Forward = forward
  Records <- FiveRecords
  Base = 2
  Width = 2
  MaxSeq = 5
  MaxFaults = 0
  MaxCrashes = 0
PROPERTIES SegmentsImmutable
CHECK_DEADLOCK FALSE
