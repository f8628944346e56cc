------------------------------ MODULE MCServer ------------------------------
(* Instances of Server for TLC. *)
EXTENDS Server

CONSTANTS A, r1, r2, r3, import, write

DayOne == {1}
CutoffTwo == {2}

\* Every entry writes the series A in day 1.
Labels == [r \in Requests |-> A]
OneDay == [r \in Requests |-> {1}]

\* An import with a nameless entry in the middle, and a remote write that
\* starts with one.
TwoBatches ==
  [b \in {import, write} |->
     IF b = import THEN <<r1, NoName, r2>> ELSE <<NoName, NoSamples, r3>>]
====
