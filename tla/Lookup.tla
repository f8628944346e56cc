------------------------------- MODULE Lookup -------------------------------
(***************************************************************************)
(* How a query, or a retention pass, finds what is stored: selectors and   *)
(* canonical keys, the days of a window or before a cutoff, time           *)
(* parameters.  One behaviour takes one input through the code.  Module    *)
(* Formats adds the inputs that are written to files.                      *)
(***************************************************************************)
EXTENDS RoundTrip, Selector, Times

CONSTANTS
  Registries,                 \* [names: SeriesIDs to labels, days: sets of SeriesIDs]
  KeyLabels,                  \* label sets whose keys are compared
  Moments,                    \* times of samples, queries and clocks
  RetentionPeriods,           \* in days
  DecimalTimes                \* time parameters, in milliseconds

\* Times are int64; -retentionPeriod is an int.  Time parameters are of the
\* range whose milliseconds a float can tell apart.
ASSUME TimesAssumption ==
  /\ Moments \subseteq SignedWords /\ RetentionPeriods \subseteq Int
  /\ DecimalTimes \subseteq 0..(2^(Mantissa - 1) - 1)

\* Labels that hold the separators break the keys, which series.go accepts.
ASSUME KeysAssumption == KeyLabels \subseteq Seq([name : Text, value : Text])

LookupInputs ==
       [kind : {"selector"}, data : Registries]
  \cup [kind : {"keys"}, data : KeyLabels \X KeyLabels]
  \cup [kind : {"days"}, data : [t : Moments, start : Moments, end : Moments]]
  \cup [kind : {"retention"}, data : [t : Moments, days : RetentionPeriods, now : Moments]]
  \cup [kind : {"param"}, data : DecimalTimes]

-----------------------------------------------------------------------------

\* A label set as mmctl prints it, and as a selector of a query.
PrintLabels ==
  /\ stage = "new" /\ input.kind = "selector"
  /\ \E id \in DOMAIN input.data.names : Writes("selector", FormatLabels(input.data.names[id]))
Select ==
  LET q == ParseSelector(file)
      days == {InvertedIndex(ids, input.data.names) : ids \in input.data.days}
  IN  Reads("selector", [err |-> q.err, v |-> IF q.err = "nil" THEN Match(q.v, days) ELSE {}])

CompareKeys == Computes("keys", [i \in 1..2 |-> CanonicalKey(input.data[i])])

\* The day of a sample, as one of the days a query scans.
SelectDay ==
  Computes("days", PartitionsInRange({DayString(input.data.t)}, input.data.start, input.data.end))

\* The day of a sample, as one of the days a retention pass drops.
DropDays ==
  Computes("retention", Expired({DayString(input.data.t)}, input.data.days, input.data.now))

ReadParam == Computes("param", ParseTimeParam(input.data))

LookupNext ==
  \/ PrintLabels \/ Select \/ CompareKeys
  \/ SelectDay \/ DropDays \/ ReadParam

LookupSpec == Begins(LookupInputs) /\ [][LookupNext]_vars

-----------------------------------------------------------------------------
(* Properties.                                                              *)

\* A label set as mmctl prints it is a selector of exactly the series that
\* have all of its labels, whatever commas, quotes and braces the values hold,
\* and of those only the ones that some day indexes (formatLabels,
\* ParseSelector, Match).
SelectorFinds ==
  Finished("selector") =>
    \E id \in DOMAIN input.data.names :
      LET names == input.data.names
      IN  /\ file = FormatLabels(names[id])
          /\ output.err = "nil"
          /\ output.v = {other \in UNION input.data.days : ToSet(names[id]) \subseteq ToSet(names[other])}

\* Two label sets have the same key exactly when they hold the same labels, in
\* whatever order (CanonicalKey: "identify the same series iff").
KeysIdentifySeries ==
  Finished("keys") =>
    LET a == input.data[1]
        b == input.data[2]
    IN  (output[1] = output[2]) <=> SameBag(a, b)

\* The years whose names have YearDigits digits.
HasDayName(ms) == YearOf(ms) \in 0..(Base^YearDigits - 1)

\* A query scans the day of a sample exactly when its window reaches that day,
\* and Open finds the day again; the years 0 to 9999 are assumed
\* (partitionsInRange compares names as strings, partitionNameRE has 8 digits).
DaysSelected ==
  Finished("days") /\ (\A f \in {"t", "start", "end"} : HasDayName(input.data[f])) =>
    /\ IsPartitionName(DayString(input.data.t))
    /\ (output # {}) <=> /\ DayNumber(input.data.start) <= DayNumber(input.data.t)
                         /\ DayNumber(input.data.t) <= DayNumber(input.data.end)

\* Retention drops the day of a sample exactly when the whole day is older
\* than the period, so nothing younger goes and nothing stays a day longer;
\* it is assumed that the period does not leave the int64 range.  A cutoff
\* before the year 0 drops nothing (ApplyRetention).
RetentionExact ==
  /\ Finished("retention") /\ HasDayName(input.data.t) /\ HasDayName(input.data.now)
  /\ input.data.now - input.data.days * DayMs >= -(Modulus \div 2)
  => (output # {}) <=> /\ input.data.days > 0
                       /\ (DayNumber(input.data.t) + 1) * DayMs
                            <= DayMs * DayNumber(input.data.now - input.data.days * DayMs)

\* Decimal seconds become the millisecond they name or the one before it:
\* the product of the float is truncated (parseTimeParam).
TimeParamClose ==
  Finished("param") => output \in {input.data - 1, input.data}
====
