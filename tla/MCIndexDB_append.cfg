SPECIFICATION Spec
CONSTANTS
  forward = forward
  day = day
  Dirs = {forward, day}
  Forward = forward
  Records <- TwoRecords
  Base = 2
  Width = 2
  MaxSeq = 3
  MaxFaults = 2
  MaxCrashes = 2
INVARIANTS TypeOK Recoverable
PROPERTIES SegmentsImmutable RefinesRecordStore
