----------------------------- MODULE MCStorage -----------------------------
(* Instances of Storage for TLC. *)
EXTENDS Storage

CONSTANTS A, B, r1, r2, r3

\* Day 1 has expired, day 2 has not.
TwoDays == {1, 2}
DayOne == {1}
CutoffTwo == {2}

\* r1 and r2 race to register A; r3 writes B.
RaceLabels == [r \in Requests |-> IF r = r3 THEN B ELSE A]

\* One call has samples in both days, the others in the day that expires.
SpanDays == [r \in Requests |-> IF r = r1 THEN {1, 2} ELSE {1}]

\* Every call writes to day 1.
OneDay == [r \in Requests |-> {1}]
====
