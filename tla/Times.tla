------------------------------- MODULE Times -------------------------------
(***************************************************************************)
(* Milliseconds, day names and time parameters.  The calendar is scaled: a *)
(* day has DayMs milliseconds and a year DaysPerYear days; a day name is   *)
(* the year padded to YearDigits digits (the code: 4) and the day of the   *)
(* year padded to DayDigits digits (the code: month and day, 4 digits), in *)
(* base Base.  Times are words of WordBits bits, as everywhere.            *)
(***************************************************************************)
EXTENDS Words

CONSTANTS Base, YearDigits, DayDigits, DayMs, DaysPerYear,
  EpochYear,     \* the year of time 0 (the code: 1970)
  MsPerSecond,   \* the code: 1000
  SecondBits,    \* enough bits for MsPerSecond
  Mantissa       \* bits of a float's mantissa (the code: 53)

ASSUME CalendarAssumption ==
  /\ Base \in Nat /\ Base > 1
  /\ YearDigits \in Nat /\ YearDigits > 0 /\ DayDigits \in Nat /\ DayDigits > 0
  /\ DayMs \in Nat /\ DayMs > 0 /\ DaysPerYear \in Nat /\ DaysPerYear > 0
  /\ DaysPerYear < Base^DayDigits
  /\ EpochYear \in Nat /\ EpochYear < Base^YearDigits

ASSUME FloatAssumption ==
  /\ Mantissa \in Nat /\ Mantissa > 0
  /\ SecondBits \in Nat /\ MsPerSecond \in Nat /\ MsPerSecond > 0 /\ MsPerSecond <= 2^SecondBits

\* What x^k is, which the provers do not know, as far as it is used here.
Exponents == 0..(WordBits + YearDigits + DayDigits + Mantissa + SecondBits)
ASSUME PowersAssumption ==
  \A b \in {2, Base} : b^0 = 1 /\ \A k \in Exponents : b^k \in Nat /\ b^(k + 1) = b * b^k

-----------------------------------------------------------------------------
(* Day names.  A character is a digit, or the sign, which sorts before      *)
(* every digit.                                                             *)

Minus == -1

\* The digits of n, zero-padded to width digits; more when n needs them.
Padded(n, width) ==
  LET digits == Max({width} \cup {k \in 1..WordBits : n >= Base^(k - 1)})
  IN  [i \in 1..digits |-> (n \div Base^(digits - i)) % Base]

DayNumber(ms) == ms \div DayMs
YearOf(ms) == EpochYear + DayNumber(ms) \div DaysPerYear

\* Seeded bug: the year is written without padding.
DayStringUnpadded(ms) ==
  Padded(YearOf(ms), 1) \o Padded(1 + (DayNumber(ms) % DaysPerYear), DayDigits)

\* dayString.
DayString(ms) ==
  LET year == YearOf(ms)
  IN  (IF year < 0 THEN <<Minus>> \o Padded(-year, YearDigits) ELSE Padded(year, YearDigits))
        \o Padded(1 + (DayNumber(ms) % DaysPerYear), DayDigits)

\* partitionNameRE: the directories that Open takes for partitions.
IsPartitionName(name) == Len(name) = YearDigits + DayDigits /\ Minus \notin ToSet(name)

\* String comparison of names.
NameLess(a, b) ==
  \E i \in 1..Len(b) :
    /\ i <= Len(a) + 1 /\ SubSeq(a, 1, i - 1) = SubSeq(b, 1, i - 1)
    /\ i = Len(a) + 1 \/ a[i] < b[i]

\* partitionsInRange, as the set of day names out of days.
PartitionsInRange(days, startMs, endMs) ==
  {day \in days : ~NameLess(day, DayString(startMs)) /\ ~NameLess(DayString(endMs), day)}

\* Seeded bug: the day of the cutoff goes too.
ExpiredThroughCutoff(days, retentionDays, nowMs) ==
  {day \in days : ~NameLess(DayString(Wrap(nowMs - retentionDays * DayMs)), day)}

\* The days that ApplyRetention drops.
Expired(days, retentionDays, nowMs) ==
  {day \in days : retentionDays > 0
                    /\ NameLess(day, DayString(Wrap(nowMs - retentionDays * DayMs)))}

-----------------------------------------------------------------------------
(* Time parameters: decimal seconds to milliseconds by way of floats.  A    *)
(* float is a rational [num, den] with at most Mantissa significant bits.   *)

\* e is the exponent of num/den: the mantissa has its Mantissa bits.
IsExponent(e, num, den) ==
  IF e >= 0 THEN 2^(Mantissa - 1) * 2^e * den <= num /\ num < 2^Mantissa * 2^e * den
  ELSE 2^(Mantissa - 1) * den <= num * 2^(-e) /\ num * 2^(-e) < 2^Mantissa * den

\* n/d rounded to the nearest, ties to even.
Rounded(n, d) ==
  LET down == n \div d
      up == 2 * (n % d) > d \/ (2 * (n % d) = d /\ down % 2 = 1)
  IN  IF up THEN down + 1 ELSE down

\* num/den rounded to a multiple of 2^exp.
RoundAt(num, den, exp) ==
  IF exp >= 0 THEN [num |-> Rounded(num, den * 2^exp) * 2^exp, den |-> 1]
  ELSE [num |-> Rounded(num * 2^(-exp), den), den |-> 2^(-exp)]

\* The nearest float to num/den, num >= 0.
RoundFloat(num, den) ==
  IF num = 0 THEN [num |-> 0, den |-> 1]
  ELSE RoundAt(num, den, CHOOSE e \in -(Mantissa + SecondBits)..Mantissa : IsExponent(e, num, den))

\* strconv.ParseFloat of the decimal ms / MsPerSecond, for ms >= 0.
ParseFloat(ms) == RoundFloat(ms, MsPerSecond)

\* Seeded bug: the seconds are truncated before they become milliseconds.
ParseTimeParamWholeSeconds(ms) ==
  LET f == ParseFloat(ms) IN MsPerSecond * (f.num \div f.den)

\* parseTimeParam of decimal seconds: int64(f * 1000).
ParseTimeParam(ms) ==
  LET f == ParseFloat(ms)
      g == RoundFloat(f.num * MsPerSecond, f.den)
  IN  g.num \div g.den
====
