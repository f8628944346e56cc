----------------------------- MODULE MCIndexDB -----------------------------
(* Instances of IndexDB for TLC: the forward index and one day. *)
EXTENDS IndexDB

CONSTANTS forward, day

TwoRecords == 1..2
FiveRecords == 1..5
====
