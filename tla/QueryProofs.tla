---------------------------- MODULE QueryProofs ----------------------------
(***************************************************************************)
(* Theorems about a query that runs beside the write path (module          *)
(* QueryRange): what it returns, and that it returns nothing twice.        *)
(***************************************************************************)
EXTENDS QueryRange, StorageProofs

\* A query changes nothing of the engine, so the theorems about the engine
\* hold while queries run.
LEMMA QueryReadsOnly == QSpec => Spec
<1>1. QInit => Init
  BY DEF QInit
<1>2. [QNext]_allVars => [Next]_vars
  BY DEF QNext, allVars, WriteStep, StartQuery, PartitionsInRange, ScanPartition,
     ScanPartitionFails, ScanMem, Respond
<1> QED
  BY <1>1, <1>2, PTL DEF QSpec, Spec

-----------------------------------------------------------------------------
(* No row twice.  What the query has read from the parts can never come     *)
(* back to the buffer, which it reads last.                                 *)

ReadOnceInv ==
  /\ twice = {}
  /\ qpc = "idle" => result = {}
  /\ qpc \in {"list", "disk"} =>
       /\ result \cap (mem \cup batch) = {}
       /\ \A row \in result : row.req \in Requests /\ st[row.req] = "done"

\* No step of the engine or of the query lets the query see a row again.
LEMMA ReadOnceNext ==
  TypeInv /\ OnceInv /\ ReadOnceInv /\ [QNext]_allVars => ReadOnceInv'
<1> SUFFICES ASSUME TypeInv, OnceInv, ReadOnceInv, [QNext]_allVars PROVE ReadOnceInv'
  OBVIOUS
<1> USE DEF vars, disk, registry, engine, calls, flush, retention, history
<1>1. CASE WriteStep
  <2>1. CASE proc' = "up"
    <3>1. RowsMove
      BY <1>1, StepsMoveRows DEF WriteStep, EngineNext
    <3> QED
      BY <1>1, <2>1, <3>1 DEF WriteStep, RowsMove, Fresh, ReadOnceInv
  <2>2. CASE proc' # "up"
    BY <1>1, <2>2 DEF WriteStep, ReadOnceInv
  <2> QED
    BY <2>1, <2>2
<1>2. ASSUME NEW sel \in Selectors, NEW win \in Windows, StartQuery(sel, win) PROVE ReadOnceInv'
  BY <1>2 DEF StartQuery, ReadOnceInv
<1>3. CASE PartitionsInRange
  BY <1>3 DEF PartitionsInRange, ReadOnceInv
<1>4. ASSUME NEW d \in Days, ScanPartition(d) PROVE ReadOnceInv'
  <2>1. /\ result' \subseteq result \cup live
        /\ qpc = "disk" /\ UNCHANGED <<qpc, twice, mem, batch, st>>
    BY <1>4 DEF ScanPartition, NextPartition, Wanted, DayRows
  <2>2. /\ live \cap (mem \cup batch) = {}
        /\ \A row \in live : row.req \in Requests /\ st[row.req] = "done"
    BY DEF OnceInv, TiersDisjoint, RowsAnswered, TypeInv, TypeOK, Rows
  <2> QED
    BY <2>1, <2>2 DEF ReadOnceInv
<1>5. ASSUME NEW d \in Days, ScanPartitionFails(d) PROVE ReadOnceInv'
  BY <1>5 DEF ScanPartitionFails, ReadOnceInv
<1>6. CASE ScanMem
  BY <1>6 DEF ScanMem, Wanted, ReadOnceInv
<1>7. CASE Respond
  BY <1>7 DEF Respond, ReadOnceInv
<1>8. CASE UNCHANGED allVars
  BY <1>8 DEF allVars, reader, ReadOnceInv
<1> QED
  BY <1>1, <1>2, <1>3, <1>4, <1>5, <1>6, <1>7, <1>8 DEF QNext

\* QueryRange scans the parts before the buffer: whichever steps of a flush,
\* its error returns, a merge or retention fall between the two, no row is
\* merged into the result from a part and again from the buffer, as long as
\* no manifest fails to be saved.
THEOREM QueryReturnsOnceHolds ==
  ASSUME "manifest" \notin FaultKinds
  PROVE  QSpec => []QueryReturnsOnce
<1>1. QInit => ReadOnceInv
  BY DEF QInit, ReadOnceInv
<1>2. ReadOnceInv => QueryReturnsOnce
  BY DEF ReadOnceInv, QueryReturnsOnce
<1> QED
  BY <1>1, <1>2, ReadOnceNext, QueryReadsOnly, SpecIsEngine, OnceInvariant, PTL DEF QSpec

-----------------------------------------------------------------------------
(* No row missed.                                                           *)

\* The rows that the query owes to its client.
Owed == {row \in expect : row.day \notin forgotten}

\* Where an owed row is at each stage of a query that no flush overlaps.
OwedInv ==
  /\ qpc \in {"idle", "list", "disk", "done", "error"}
  /\ proc = "down" => qpc = "idle"
  /\ qpc # "idle" /\ overlap = "no" =>
       /\ fpc = "idle"
       /\ \A row \in Owed : row.id \in want /\ row.day \in window
       /\ qpc = "list" => Owed \subseteq mem \cup live
       /\ qpc = "disk" => Owed \subseteq result \cup mem \cup {row \in live : row.day \in qdays}
       /\ qpc = "done" => Owed \subseteq result

\* An error of DropInverted is the only way to lose an index record.
NoRecordLost == lostRecords = {}

\* Without that error no index record is lost.
LEMMA NoRecordLostHolds ==
  ASSUME "dropindex" \notin FaultKinds
  PROVE  Spec => []NoRecordLost
<1>1. Init => NoRecordLost
  BY DEF Init, NoRecordLost
<1>2. NoRecordLost /\ [Next]_vars => NoRecordLost'
  <2> SUFFICES ASSUME NoRecordLost, [Next]_vars PROVE NoRecordLost'
    OBVIOUS
  <2> USE DEF disk, registry, engine, calls, flush, retention, history
  <2>1. ~DropInvertedFails
    BY DEF DropInvertedFails, Fault
  <2>2. CASE AppendStep
    BY <2>2 DEF AppendStep, ResolveRead, ResolveWrite, IndexForDay, AppendMem, NoRecordLost
  <2>3. CASE FlushSwap \/ FlushStep
    BY <2>3 DEF FlushSwap, FlushStep, DrainPending, SaveRegistry, SaveRegistryFails, PersistDayIndex,
       PersistDayIndexFails, GetPartition, GetPartitionFails, AddPart, AddPartFails,
       AddPartManifestFails, NoRecordLost
  <2>4. CASE RetentionStep \/ (\E d \in Days : ForceMerge(d)) \/ (\E c \in Cutoffs : ApplyRetention(c))
    BY <2>1, <2>4 DEF ApplyRetention, RetentionStep, DropPartition, RemoveAllDone, RemoveAllFails,
       DropInverted, RetentionAborts, DropDay, ForceMerge, DayIndex, NoRecordLost
  <2>5. CASE Crash \/ Open \/ UNCHANGED vars
    BY <2>5 DEF Crash, LoseMemory, Open, vars, NoRecordLost
  <2> QED
    BY <2>2, <2>3, <2>4, <2>5 DEF Next
<1> QED
  BY <1>1, <1>2, PTL DEF Spec

\* A step of the engine outside a flush moves no row: it stays where a query
\* finds it, or it expires.
LEMMA QuietStep ==
  ASSUME TypeInv, AgreeInv, Next, proc = "up", proc' = "up", fpc = "idle", fpc' = "idle"
  PROVE  /\ mem \subseteq mem' /\ forgotten \subseteq forgotten'
         /\ \A row \in live : row \notin acked' \/ (row \in live' /\ row.day \in opened')
<1> USE DEF disk, registry, engine, calls, flush, retention, history
<1>0. \A row \in live : row.day \in opened
  BY DEF AgreeInv, DirectoriesOK, DaysIn
<1>1. CASE AppendStep
  BY <1>0, <1>1 DEF AppendStep, ResolveRead, ResolveWrite, IndexForDay, AppendMem
<1>2. ~FlushSwap /\ ~FlushStep /\ ~Crash /\ ~Open
  BY DEF FlushSwap, FlushStep, DrainPending, SaveRegistry, SaveRegistryFails, PersistDayIndex,
     PersistDayIndexFails, GetPartition, GetPartitionFails, AddPart, AddPartFails,
     AddPartManifestFails, Crash, LoseMemory, Open
<1>3. ASSUME NEW d \in Days, DropPartition(d)
      PROVE  /\ UNCHANGED <<mem, forgotten>>
             /\ \A row \in live : row \notin acked' \/ (row \in live' /\ row.day \in opened')
  BY <1>0, <1>3 DEF DropPartition, DayRows
<1>4. CASE RemoveAllDone \/ RemoveAllFails \/ DropInverted \/ DropInvertedFails \/ DropDay
  BY <1>0, <1>4 DEF RemoveAllDone, RemoveAllFails, DropInverted, DropInvertedFails, RetentionAborts,
     DropDay
<1>5. CASE (\E d \in Days : ForceMerge(d)) \/ (\E c \in Cutoffs : ApplyRetention(c))
  BY <1>0, <1>5 DEF ForceMerge, ApplyRetention
<1> QED
  BY <1>1, <1>2, <1>3, <1>4, <1>5 DEF Next, RetentionStep

\* What the query owes when it begins is in the buffer or in the parts, and
\* Match returns its series.
LEMMA OwedStart ==
  ASSUME TypeInv, IdentityInv, FindInv, LostInv, AgreeInv, NoRecordLost, OwedInv,
         NEW sel \in Selectors, NEW win \in Windows, StartQuery(sel, win)
  PROVE  OwedInv'
<1> USE DEF vars, disk, registry, engine, calls, flush, retention, history
<1>1. /\ proc = "up" /\ want' = Match(sel) /\ window' = win
      /\ expect' = {row \in acked : LabelsOf[row.req] \in sel /\ row.day \in win}
      /\ qpc' = IF want' = {} THEN "done" ELSE "list"
      /\ overlap' = "no" => fpc = "idle"
      /\ UNCHANGED <<proc, mem, batch, live, forgotten, fpc>>
  BY DEF StartQuery, Overlap
<1>2. SUFFICES ASSUME fpc = "idle"
      PROVE  /\ \A row \in Owed' : row.id \in want' /\ row.day \in window'
             /\ Owed' \subseteq mem \cup live
  BY <1>1 DEF OwedInv, Owed
<1>3. ASSUME NEW row \in Owed'
      PROVE  row \in mem \cup live /\ row.id \in Match(sel) /\ row.day \in win
  <2>1. row \in acked /\ LabelsOf[row.req] \in sel /\ row.day \in win /\ row.day \notin forgotten
    BY <1>1, <1>3 DEF Owed
  <2>2. batch = {}
    BY <1>2 DEF IdentityInv, FlushKnown
  <2>3. row \in mem \cup live
    BY <1>1, <2>1, <2>2 DEF LostInv
  <2>4. names[row.id] = LabelsOf[row.req] /\ row.id \in SeriesIDs /\ row.day \in Days
    BY <2>3 DEF IdentityInv, RowsFiled, TypeInv, TypeOK, Rows
  <2>5. <<row.day, row.id>> \in inverted
    BY <1>1, <2>1, <2>3 DEF FindInv, BufferIndexed, PartsIndexed, RecordOf, NoRecordLost
  <2> QED
    BY <2>1, <2>3, <2>4, <2>5 DEF Match
<1> QED
  BY <1>1, <1>3

\* No step of the engine or of the query lets go of an owed row.
LEMMA OwedNext ==
  TypeInv /\ IdentityInv /\ FindInv /\ LostInv /\ AgreeInv /\ NoRecordLost
  /\ OwedInv /\ [QNext]_allVars => OwedInv'
<1> SUFFICES ASSUME TypeInv, IdentityInv, FindInv, LostInv, AgreeInv, NoRecordLost,
                    OwedInv, [QNext]_allVars
    PROVE OwedInv'
  OBVIOUS
<1> USE DEF vars, disk, registry, engine, calls, flush, retention, history
<1>1. CASE WriteStep
  <2>1. CASE proc' # "up"
    BY <1>1, <2>1 DEF WriteStep, OwedInv
  <2>2. CASE proc' = "up" /\ qpc # "idle" /\ overlap' = "no"
    <3>1. /\ Next /\ proc = "up" /\ overlap = "no" /\ fpc = "idle" /\ fpc' = "idle"
          /\ qdays' = qdays \cap opened' /\ expect' = expect \cap acked'
          /\ UNCHANGED <<qpc, want, window, result>>
      BY <1>1, <2>2 DEF WriteStep, OwedInv, TypeInv, TypeOK
    <3>2. /\ mem \subseteq mem' /\ forgotten \subseteq forgotten'
          /\ \A row \in live : row \notin acked' \/ (row \in live' /\ row.day \in opened')
      BY <2>2, <3>1, QuietStep
    <3>3. Owed' \subseteq Owed /\ Owed' \subseteq acked'
      BY <3>1, <3>2 DEF Owed
    <3>4. qpc = "list" => Owed' \subseteq mem' \cup live'
      BY <2>2, <3>1, <3>2, <3>3 DEF OwedInv
    <3>5. qpc = "disk" => Owed' \subseteq result' \cup mem' \cup {row \in live' : row.day \in qdays'}
      BY <2>2, <3>1, <3>2, <3>3 DEF OwedInv
    <3> QED
      BY <2>2, <3>1, <3>3, <3>4, <3>5 DEF OwedInv
  <2>3. CASE proc' = "up" /\ ~(qpc # "idle" /\ overlap' = "no")
    BY <1>1, <2>3 DEF WriteStep, OwedInv
  <2> QED
    BY <2>1, <2>2, <2>3
<1>2. ASSUME NEW sel \in Selectors, NEW win \in Windows, StartQuery(sel, win) PROVE OwedInv'
  BY <1>2, OwedStart
<1>3. CASE PartitionsInRange
  <2>1. \A row \in live : proc = "up" => row.day \in opened
    BY DEF AgreeInv, DirectoriesOK, DaysIn
  <2>2. /\ qpc = "list" /\ qpc' = "disk" /\ qdays' = opened \cap window
        /\ UNCHANGED <<want, window, result, expect, overlap, proc, fpc, mem, live, forgotten>>
    BY <1>3 DEF PartitionsInRange
  <2>3. proc = "up"
    BY <2>2 DEF OwedInv, TypeInv, TypeOK
  <2> QED
    BY <2>1, <2>2, <2>3 DEF OwedInv, Owed
<1>4. ASSUME NEW d \in Days, ScanPartition(d) PROVE OwedInv'
  <2>1. /\ qpc = "disk" /\ qdays' = qdays \ {d}
        /\ result' = result \cup Wanted(DayRows(live, d))
        /\ UNCHANGED <<qpc, want, window, expect, overlap, proc, fpc, mem, live, forgotten>>
    BY <1>4 DEF ScanPartition, NextPartition
  <2>2. UNCHANGED Owed
    BY <2>1 DEF Owed
  <2>3. overlap = "no" =>
          Owed \subseteq result' \cup mem \cup {row \in live : row.day \in qdays'}
    BY <2>1 DEF OwedInv, Wanted, DayRows
  <2> QED
    BY <2>1, <2>2, <2>3 DEF OwedInv
<1>5. ASSUME NEW d \in Days, ScanPartitionFails(d) PROVE OwedInv'
  <2>1. /\ qpc = "disk" /\ qpc' = "error"
        /\ UNCHANGED <<want, window, expect, overlap, proc, fpc, forgotten>>
    BY <1>5 DEF ScanPartitionFails, NextPartition
  <2>2. UNCHANGED Owed
    BY <2>1 DEF Owed
  <2> QED
    BY <2>1, <2>2 DEF OwedInv
<1>6. CASE ScanMem
  <2>1. /\ qpc = "disk" /\ qpc' = "done" /\ qdays = {} /\ result' = result \cup Wanted(mem)
        /\ UNCHANGED <<want, window, expect, overlap, proc, fpc, mem, live, forgotten>>
    BY <1>6 DEF ScanMem
  <2>2. UNCHANGED Owed
    BY <2>1 DEF Owed
  <2>3. overlap = "no" => Owed \subseteq result'
    BY <2>1 DEF OwedInv, Wanted
  <2> QED
    BY <2>1, <2>2, <2>3 DEF OwedInv
<1>7. CASE Respond
  BY <1>7 DEF Respond, OwedInv
<1>8. CASE UNCHANGED allVars
  BY <1>8 DEF allVars, reader, OwedInv, Owed
<1> QED
  BY <1>1, <1>2, <1>3, <1>4, <1>5, <1>6, <1>7, <1>8 DEF QNext

\* A query during which no flush runs, and which does not fail on a part that
\* a drop cut short has deleted, returns every row that was acknowledged
\* before it began, did not expire and was not forgotten, whatever appends,
\* merges and retention do beside it, and whatever crashed before: as long as
\* flushes lose nothing and index directories are deleted whole.
THEOREM QueryCompleteHolds ==
  ASSUME NoPartialFlush, "dropindex" \notin FaultKinds
  PROVE  QSpec => []QueryComplete
<1>1. QInit => OwedInv
  BY DEF QInit, Init, OwedInv
<1>2. OwedInv => QueryComplete
  BY DEF OwedInv, Owed, QueryComplete
<1> QED
  BY <1>1, <1>2, OwedNext, QueryReadsOnly, SpecIsEngine, FindInvariant, LostInvariant, AgreeInvariant,
     NoRecordLostHolds, PTL DEF QSpec
====
