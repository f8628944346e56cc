------------------------------ MODULE DayParts ------------------------------
(***************************************************************************)
(* What one day partition promises to the engine, without part files: how  *)
(* many copies of a row a query reads (`live`) and a restart brings back   *)
(* (`durable`).  Storage sees its day partitions in these terms.           *)
(***************************************************************************)
EXTENDS Naturals

CONSTANT Batches   \* the rows of one addPart call each

VARIABLES
  live, durable,   \* [Batches -> 0..2]: none, one, or more than one
  torn             \* whether a drop was ever cut short

None == [b \in Batches |-> 0]

Init == live = None /\ durable = None /\ torn = "no"

\* addPart: the new rows are readable, once, and durable with all that were.
Add(b) ==
  /\ live[b] = 0 /\ durable[b] = 0
  /\ live' = [live EXCEPT ![b] = 1]
  /\ durable' = live'
  /\ UNCHANGED torn

\* addPart whose manifest save failed: readable until a restart.
AddUnsaved(b) ==
  /\ live[b] = 0 /\ durable[b] = 0
  /\ live' = [live EXCEPT ![b] = 1]
  /\ UNCHANGED <<durable, torn>>

\* A drop that was cut short leaves a manifest that lists missing parts, and
\* their numbers are given again.  The rows of a flush are then visible before
\* addPart returns, and in more than one copy; other rows are as they were.
AddTorn(b) ==
  /\ torn = "yes"
  /\ \E i \in live[b]..2 : live' = [live EXCEPT ![b] = i]
  /\ \/ durable' = live'
     \/ \E i \in durable[b]..2 : durable' = [durable EXCEPT ![b] = i]
  /\ UNCHANGED torn

\* A merge saves what is readable and changes none of it.
Resave ==
  /\ durable' = live
  /\ UNCHANGED <<live, torn>>

\* A drop hides the day at once; its files go little by little.
Hide == live' = None /\ UNCHANGED <<durable, torn>>
Delete ==
  /\ live = None
  /\ durable' \in [Batches -> 0..2] /\ \A b \in Batches : durable'[b] <= durable[b]
  /\ UNCHANGED <<live, torn>>

\* An error or a kill ends the drop before all files are gone.
CutShort == live' = None /\ torn' = "yes" /\ UNCHANGED durable

\* kill -9, and opening what is on disk.
Stop == live' = None /\ UNCHANGED <<durable, torn>>
Reopen == live = None /\ live' = durable /\ UNCHANGED <<durable, torn>>

Next ==
  \/ \E b \in Batches : Add(b) \/ AddUnsaved(b) \/ AddTorn(b)
  \/ Resave
  \/ Hide \/ Delete \/ CutShort
  \/ Stop \/ Reopen

Spec == Init /\ [][Next]_<<live, durable, torn>>
====
