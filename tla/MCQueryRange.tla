---------------------------- MODULE MCQueryRange ----------------------------
(* Instances of QueryRange for TLC. *)
EXTENDS QueryRange

CONSTANTS A, B, r1, r2

TwoDays == {1, 2}
CutoffTwo == {2}

\* r1 writes A on both days, r2 writes B on day 1 only, which may expire.
TwoLabels == [r \in Requests |-> IF r = r1 THEN A ELSE B]
MixedDays == [r \in Requests |-> IF r = r1 THEN {1, 2} ELSE {1}]

\* Queries for A or for every series, over both days or over day 1.
QuerySelectors == {{A}, {A, B}}
QueryWindows == {{1, 2}, {1}}
====
