----------------------------- MODULE QueryRange -----------------------------
(***************************************************************************)
(* QueryRange running beside the write path: Match, then the partitions of *)
(* the window one by one under their read locks, then the buffer.  A flush *)
(* or a retention pass may make any of its steps between two of these.     *)
(***************************************************************************)
EXTENDS Storage

CONSTANTS
  Selectors,  \* the sets of label sets that a selector's matchers select
  Windows     \* the sets of days that a query's time range covers

ASSUME QueryAssumption ==
  /\ Selectors \subseteq SUBSET LabelSets
  /\ Windows \subseteq SUBSET Days

VARIABLES
  qpc,      \* the query's program counter
  want,     \* SeriesIDs that Match returned
  window,   \* days in [startMs, endMs]
  qdays,    \* partitions from partitionsInRange still to be scanned
  result,   \* rows merged so far
  twice,    \* rows merged a second time
  broken,   \* days whose manifest lists a part that is gone from the disk
  \* History: rows acknowledged before the query began (and not expired
  \* since), and whether a flush ran at some time during the query.
  expect, overlap

reader == <<qpc, want, window, qdays, result, twice, expect, overlap>>
allVars == <<vars, reader, broken>>

QInit ==
  /\ Init
  /\ qpc = "idle" /\ want = {} /\ window = {} /\ qdays = {}
  /\ result = {} /\ twice = {} /\ expect = {} /\ overlap = "no"
  /\ broken = {}

Overlap(pc) == IF pc = "idle" THEN "no" ELSE "yes"

\* registry.Match: series indexed under some day whose labels match.
Match(sel) == {i \in SeriesIDs : names[i] \in sel /\ \E d \in Days : <<d, i>> \in inverted}

StartQuery(sel, win) ==
  /\ proc = "up" /\ qpc = "idle"
  /\ want' = Match(sel)
  /\ qpc' = IF want' = {} THEN "done" ELSE "list"
  /\ window' = win
  /\ expect' = {row \in acked : LabelsOf[row.req] \in sel /\ row.day \in win}
  /\ overlap' = Overlap(fpc)
  /\ UNCHANGED <<qdays, result, twice>>
  /\ UNCHANGED <<vars, broken>>

\* partitionsInRange copies the pointers of the opened partitions under pmu.
PartitionsInRange ==
  /\ qpc = "list"
  /\ qdays' = opened \cap window
  /\ qpc' = "disk"
  /\ UNCHANGED <<want, window, result, twice, expect, overlap>>
  /\ UNCHANGED <<vars, broken>>

\* Rows of S that the query asks for.
Wanted(S) == {row \in S : row.id \in want /\ row.day \in window}

\* The partitions are scanned in the order of days.
NextPartition(d) == qpc = "disk" /\ d \in qdays /\ \A e \in qdays : d <= e

\* Seeded bug: a part that cannot be read ends the scan of its day only.
ScanPartitionSkips(d) ==
  /\ NextPartition(d)
  /\ result' = IF d \in broken THEN result ELSE result \cup Wanted(DayRows(live, d))
  /\ qdays' = qdays \ {d}
  /\ UNCHANGED <<qpc, want, window, twice, expect, overlap>>
  /\ UNCHANGED <<vars, broken>>

\* The next partition, scanned under its read lock ...
ScanPartition(d) ==
  /\ NextPartition(d) /\ d \notin broken
  /\ result' = result \cup Wanted(DayRows(live, d))
  /\ qdays' = qdays \ {d}
  /\ UNCHANGED <<qpc, want, window, twice, expect, overlap>>
  /\ UNCHANGED <<vars, broken>>

\* ... or a part of it cannot be read, which fails the whole query.
ScanPartitionFails(d) ==
  /\ NextPartition(d) /\ d \in broken
  /\ result' = {} /\ qdays' = {}
  /\ qpc' = "error"
  /\ UNCHANGED <<want, window, twice, expect, overlap>>
  /\ UNCHANGED <<vars, broken>>

\* The buffer, under s.mu; then the result is complete.
ScanMem ==
  /\ qpc = "disk" /\ qdays = {}
  /\ result' = result \cup Wanted(mem)
  /\ twice' = result \cap Wanted(mem)
  /\ qpc' = "done"
  /\ UNCHANGED <<want, window, qdays, expect, overlap>>
  /\ UNCHANGED <<vars, broken>>

\* The response is sent.
Respond ==
  /\ qpc \in {"done", "error"}
  /\ qpc' = "idle" /\ want' = {} /\ window' = {} /\ qdays' = {}
  /\ result' = {} /\ twice' = {} /\ expect' = {} /\ overlap' = "no"
  /\ UNCHANGED <<vars, broken>>

\* os.RemoveAll of a partition may delete parts and leave the manifest that
\* lists them, if an error or a kill ends it.  The number of such a part may be
\* given again, and the manifest then names an existing part.
BrokenDays ==
  broken' \in
    IF rpc = "remove" /\ rpc' = "idle" THEN {broken, broken \cup {rday}}
    ELSE IF rpc = "remove" /\ rpc' = "index" THEN {broken \ {rday}}
    ELSE IF fpc = "add" /\ proc' = "up" /\ live' # live THEN {broken, broken \ {fday}}
    ELSE {broken}

\* A step of the write path.  A partition that retention drops is marked
\* dropped, so a query that already holds its pointer skips it; a crash ends
\* the query.
WriteStep ==
  /\ Next
  /\ BrokenDays
  /\ IF proc' = "up"
     THEN /\ qdays' = qdays \cap opened'
          /\ expect' = expect \cap acked'
          /\ overlap' = IF qpc # "idle" /\ fpc' # "idle" THEN "yes" ELSE overlap
          /\ UNCHANGED <<qpc, want, window, result, twice>>
     ELSE /\ qpc' = "idle" /\ want' = {} /\ window' = {} /\ qdays' = {}
          /\ result' = {} /\ twice' = {} /\ expect' = {} /\ overlap' = "no"

QNext ==
  \/ WriteStep
  \/ \E sel \in Selectors, win \in Windows : StartQuery(sel, win)
  \/ PartitionsInRange
  \/ \E d \in Days : ScanPartition(d) \/ ScanPartitionFails(d)
  \/ ScanMem
  \/ Respond

QSpec == QInit /\ [][QNext]_allVars

-----------------------------------------------------------------------------
\* QueryRange reads the parts before the buffer, so a row that a flush moves
\* from the buffer to a part while the query runs is never returned twice.
QueryReturnsOnce == twice = {}

\* A query that returns without an error and that no flush overlaps has every
\* row that was acknowledged before it began and that retention has left alone.
QueryComplete ==
  qpc = "done" /\ overlap = "no" =>
    {row \in expect : row.day \notin forgotten} \subseteq result

\* "Data is queryable both before and after a flush" (QueryRange): the same
\* without the exception for a running flush.
QueryCompleteDuringFlush ==
  qpc = "done" => {row \in expect : row.day \notin forgotten} \subseteq result
====
