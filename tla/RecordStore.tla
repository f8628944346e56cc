---------------------------- MODULE RecordStore ----------------------------
(***************************************************************************)
(* What the segment directories promise to the registry, without files:    *)
(* the batch of records that a flush hands over is added as a whole or not *)
(* at all, nothing leaves the forward index, and a day's index shrinks     *)
(* only when retention drops it, which no append overlaps.                 *)
(***************************************************************************)
CONSTANTS
  Dirs,      \* the forward index and the days of the inverted index
  Forward,   \* the forward index
  Records    \* one record per SeriesID

VARIABLES
  recorded,  \* [Dirs -> SUBSET Records]
  batch      \* what is being appended, and to which directory

NoBatch == [into |-> Forward, records |-> {}]

Init == recorded = [d \in Dirs |-> {}] /\ batch = NoBatch

\* A flush hands a batch over ...
Begin(d, S) ==
  /\ batch = NoBatch /\ S # {}
  /\ batch' = [into |-> d, records |-> S]
  /\ UNCHANGED recorded

\* ... all of which is then in the index ...
Commit ==
  /\ batch # NoBatch
  /\ recorded' = [recorded EXCEPT ![batch.into] = @ \cup batch.records]
  /\ batch' = NoBatch

\* ... or none of it, after an error or a kill.
Abort == batch # NoBatch /\ batch' = NoBatch /\ UNCHANGED recorded

\* Retention deletes records of an expired day, some at a time.
Drop(d, S) ==
  /\ batch = NoBatch /\ d # Forward
  /\ recorded' = [recorded EXCEPT ![d] = @ \ S]
  /\ UNCHANGED batch

Next ==
  \/ \E d \in Dirs, S \in SUBSET Records : Begin(d, S) \/ Drop(d, S)
  \/ Commit \/ Abort

Spec == Init /\ [][Next]_<<recorded, batch>>
====
