SPECIFICATION Spec
CONSTANTS
  WordBits = 8
  LeadBits = 2
  SigBits = 3
  Magic <- MCMagic
  MetricNameLabel <- MCMetricNameLabel
  Base = 2
  YearDigits = 2
  DayDigits = 2
  DayMs = 2
  DaysPerYear = 3
  EpochYear = 1
  MsPerSecond = 10
  SecondBits = 4
  Mantissa = 10
  TimestampSeqs <- MCTimestampSeqs
  ValueSeqs <- MCValueSeqs
  Segments <- MCSegments
  PartContents <- MCPartContents
  Windows <- MCWindows
  Registries <- MCRegistries
  KeyLabels <- MCKeyLabels
  Moments <- MCMoments
  RetentionPeriods <- MCRetentionPeriods
  DecimalTimes <- MCDecimalTimes
INVARIANTS BlocksReadExactly SegmentReplaysWholeRecords PartReadExact MergeKeepsSamples
INVARIANTS SelectorFinds KeysIdentifySeries DaysSelected RetentionExact TimeParamClose
CHECK_DEADLOCK FALSE
