--------------------------- MODULE StorageProofs ---------------------------
(***************************************************************************)
(* Theorems about module Storage, for every set of label sets, days and    *)
(* requests and every number of faults and crashes.                        *)
(***************************************************************************)
EXTENDS Storage, TLAPS

(* The process may also end in an orderly way (module Server): its memory   *)
(* is gone as after kill -9.  The invariants hold with that step as well.   *)
CleanStop == LoseMemory /\ UNCHANGED crashes
EngineNext == Next \/ CleanStop
EngineSpec == Init /\ [][EngineNext]_vars

\* The engine by itself is one that no one stops in an orderly way.
LEMMA SpecIsEngine == Spec => EngineSpec
<1>1. [Next]_vars => [EngineNext]_vars
  BY DEF EngineNext
<1> QED
  BY <1>1, PTL DEF Spec, EngineSpec

-----------------------------------------------------------------------------
(* Type correctness.  TypeOK needs the program counters: an Append call     *)
(* that indexes has a SeriesID, a flush at work on a day has a day.         *)

CountersOK ==
  /\ \A r \in Requests : st[r] = "index" => rid[r] \in SeriesIDs
  /\ fpc \in {"open", "add"} => fday \in Days
  /\ rpc \in {"remove", "index", "forget"} => rday \in Days

TypeInv == TypeOK /\ CountersOK

\* The initial state of a fresh data directory is well typed.
LEMMA TypeInit == Init => TypeInv
  BY StorageAssumption DEF Init, TypeInv, TypeOK, CountersOK, LabelMap, EmptyMap, SeriesIDs

\* The rows that Append buffers carry a valid SeriesID and the days of the call.
LEMMA RowsOfType ==
  ASSUME TypeInv, NEW r \in Requests, st[r] = "index"
  PROVE  RowsOf(r) \subseteq Rows
  BY StorageAssumption DEF TypeInv, TypeOK, CountersOK, RowsOf, Rows

\* No step of an Append call breaks the types.
LEMMA TypeAppend == TypeInv /\ AppendStep => TypeInv'
<1> SUFFICES ASSUME TypeInv, AppendStep PROVE TypeInv'
  OBVIOUS
<1> USE StorageAssumption DEF TypeInv, disk, registry, engine, calls, flush, retention, history
<1>1. ASSUME NEW r \in Requests, ResolveRead(r) PROVE TypeInv'
  BY <1>1 DEF ResolveRead, Resolved, TypeOK, CountersOK
<1>2. ASSUME NEW r \in Requests, ResolveWrite(r) PROVE TypeInv'
  <2>1. LabelsOf[r] \in LabelSets /\ DaysOf[r] \in SUBSET Days
    OBVIOUS
  <2>2. CASE byKey[LabelsOf[r]] # 0
    <3>1. byKey[LabelsOf[r]] \in SeriesIDs
      BY <2>1, <2>2 DEF TypeOK
    <3> QED
      BY <1>2, <2>1, <2>2, <3>1 DEF ResolveWrite, Resolved, TypeOK, CountersOK
  <2>3. CASE byKey[LabelsOf[r]] = 0
    <3>1. /\ nextID \in SeriesIDs /\ nextID' = nextID + 1
          /\ names' = [names EXCEPT ![nextID] = LabelsOf[r]]
          /\ byKey' = [byKey EXCEPT ![LabelsOf[r]] = nextID]
          /\ pending' = pending \cup {nextID}
      BY <1>2, <2>3 DEF ResolveWrite
    <3>2. names' \in LabelMap /\ byKey' \in [LabelSets -> SeriesIDs \cup {0}]
      BY <2>1, <3>1 DEF TypeOK, LabelMap
    <3>3. nextID' \in 1..(MaxSeries + 1)
      BY <3>1 DEF TypeOK, SeriesIDs
    <3> QED
      BY <1>2, <2>1, <2>3, <3>1, <3>2, <3>3 DEF ResolveWrite, Resolved, TypeOK, CountersOK
  <2> QED
    BY <2>2, <2>3
<1>3. ASSUME NEW r \in Requests, NEW d \in Days, IndexForDay(r, d) PROVE TypeInv'
  BY <1>3 DEF IndexForDay, TypeOK, CountersOK
<1>4. ASSUME NEW r \in Requests, AppendMem(r) PROVE TypeInv'
  <2>1. RowsOf(r) \subseteq Rows
    BY <1>4, RowsOfType DEF AppendMem
  <2> QED
    BY <1>4, <2>1 DEF AppendMem, TypeOK, CountersOK
<1> QED
  BY <1>1, <1>2, <1>3, <1>4 DEF AppendStep

\* No step or error return of Flush breaks the types.
LEMMA TypeFlush == TypeInv /\ (FlushSwap \/ FlushStep) => TypeInv'
<1> SUFFICES ASSUME TypeInv, FlushSwap \/ FlushStep PROVE TypeInv'
  OBVIOUS
<1> USE StorageAssumption DEF TypeInv, disk, registry, engine, calls, flush, retention, history
<1>1. CASE FlushSwap
  BY <1>1 DEF FlushSwap, TypeOK, CountersOK
<1>2. CASE DrainPending
  BY <1>2 DEF DrainPending, TypeOK, CountersOK
<1>3. CASE SaveRegistry
  BY <1>3 DEF SaveRegistry, AppendSegment, TypeOK, CountersOK, LabelMap
<1>4. CASE SaveRegistryFails
  BY <1>4 DEF SaveRegistryFails, Fault, TypeOK, CountersOK
<1>5. ASSUME NEW d \in Days, PersistDayIndex(d) PROVE TypeInv'
  <2>1. NewIndexRecords(d) \subseteq Days \X SeriesIDs
    BY DEF NewIndexRecords, IDsIn, DayRows, Rows, TypeOK
  <2> QED
    BY <1>5, <2>1 DEF PersistDayIndex, TypeOK, CountersOK
<1>6. ASSUME NEW d \in Days, PersistDayIndexFails(d) PROVE TypeInv'
  BY <1>6 DEF PersistDayIndexFails, FlushAborts, DayRows, Fault, TypeOK, CountersOK
<1>7. CASE GetPartition
  BY <1>7 DEF GetPartition, DayRows, TypeOK, CountersOK
<1>8. CASE GetPartitionFails
  BY <1>8 DEF GetPartitionFails, FlushAborts, DayRows, Fault, TypeOK, CountersOK
<1>9. CASE AddPart
  BY <1>9 DEF AddPart, ManifestSaved, DayRows, TypeOK, CountersOK
<1>10. CASE AddPartFails
  BY <1>10 DEF AddPartFails, FlushAborts, DayRows, Fault, TypeOK, CountersOK
<1>11. CASE AddPartManifestFails
  BY <1>11 DEF AddPartManifestFails, FlushAborts, DayRows, Fault, TypeOK, CountersOK
<1> QED
  BY <1>1, <1>2, <1>3, <1>4, <1>5, <1>6, <1>7, <1>8, <1>9, <1>10, <1>11 DEF FlushStep

\* No merge and no step or error return of ApplyRetention breaks the types.
LEMMA TypeRetention ==
  TypeInv /\ ((\E c \in Cutoffs : ApplyRetention(c)) \/ RetentionStep) => TypeInv'
<1> SUFFICES ASSUME TypeInv, (\E c \in Cutoffs : ApplyRetention(c)) \/ RetentionStep
    PROVE TypeInv'
  OBVIOUS
<1> USE StorageAssumption DEF TypeInv, disk, registry, engine, calls, flush, retention, history
<1>1. ASSUME NEW c \in Cutoffs, ApplyRetention(c) PROVE TypeInv'
  BY <1>1 DEF ApplyRetention, TypeOK, CountersOK
<1>2. ASSUME NEW d \in Days, DropPartition(d) PROVE TypeInv'
  BY <1>2 DEF DropPartition, DayRows, TypeOK, CountersOK
<1>3. CASE RemoveAllDone
  BY <1>3 DEF RemoveAllDone, DayRows, TypeOK, CountersOK
<1>4. CASE RemoveAllFails
  BY <1>4 DEF RemoveAllFails, RetentionAborts, Fault, TypeOK, CountersOK
<1>5. CASE DropInverted
  BY <1>5 DEF DropInverted, DayIndex, TypeOK, CountersOK
<1>6. CASE DropInvertedFails
  BY <1>6 DEF DropInvertedFails, DayIndex, RetentionAborts, Fault, TypeOK, CountersOK
<1>7. CASE DropDay
  BY <1>7 DEF DropDay, DayIndex, TypeOK, CountersOK
<1> QED
  BY <1>1, <1>2, <1>3, <1>4, <1>5, <1>6, <1>7 DEF RetentionStep

\* Neither kill -9 nor Open breaks the types.
LEMMA TypeRestart ==
  TypeInv /\ ((\E d \in Days : ForceMerge(d)) \/ Crash \/ CleanStop \/ Open) => TypeInv'
<1> SUFFICES ASSUME TypeInv, (\E d \in Days : ForceMerge(d)) \/ Crash \/ CleanStop \/ Open
    PROVE TypeInv'
  OBVIOUS
<1> USE StorageAssumption DEF TypeInv, disk, registry, engine, calls, flush, retention, history
<1>1. ASSUME NEW d \in Days, ForceMerge(d) PROVE TypeInv'
  BY <1>1 DEF ForceMerge, ManifestSaved, DayRows, TypeOK, CountersOK
<1>2. CASE Crash \/ CleanStop
  <2>1. LoseMemory /\ crashes' \in 0..MaxCrashes
    BY <1>2 DEF Crash, CleanStop, TypeOK
  <2> QED
    BY <2>1 DEF LoseMemory, EmptyMap, LabelMap, SeriesIDs, TypeOK, CountersOK
<1>3. CASE Open
  BY <1>3 DEF Open, LoadRegistry, LoadInverted, LoadPartitions, ByKey, TypeOK, CountersOK
<1> QED
  BY <1>1, <1>2, <1>3

\* The types are inductive.
LEMMA TypeNext == TypeInv /\ [EngineNext]_vars => TypeInv'
<1>1. TypeInv /\ UNCHANGED vars => TypeInv'
  BY DEF TypeInv, TypeOK, CountersOK, vars, disk, registry, engine, calls, flush,
         retention, history
<1> QED
  BY <1>1, TypeAppend, TypeFlush, TypeRetention, TypeRestart DEF EngineNext, Next

\* Every step of the write path, of a flush, of retention, a crash and Open
\* keeps each variable of the engine within its type.
THEOREM TypeCorrect == Spec => []TypeOK
<1>1. EngineSpec => []TypeInv
  BY TypeInit, TypeNext, PTL DEF EngineSpec
<1>2. TypeInv => TypeOK
  BY DEF TypeInv
<1> QED
  BY <1>1, <1>2, SpecIsEngine, PTL

-----------------------------------------------------------------------------
(* Identity.  SeriesIdentity and KnownSeries speak of the rows at the two   *)
(* ends of a flush; the invariant follows a SeriesID on the way between:    *)
(* resolved by a call, waiting in pending, drained by a flush, on disk.     *)

\* byKey and names are inverse to each other, and nextID is above both.
MapsInverse ==
  /\ \A L \in LabelSets : byKey[L] # 0 => names[byKey[L]] = L
  /\ \A i \in Known(names) : byKey[names[i]] = i /\ i < nextID

\* What is on disk names no label set twice, and the registry of a running
\* process says the same.
DiskAgrees ==
  /\ \A i, j \in Known(fwd) : fwd[i] = fwd[j] => i = j
  /\ proc = "up" => \A i \in Known(fwd) : names[i] = fwd[i]

\* Every registered series is on disk or on its way there.
PendingCovers ==
  /\ Known(names) \subseteq Known(fwd) \cup pending \cup drained
  /\ pending \cup drained \subseteq Known(names)

\* Calls and rows carry the SeriesID of their own labels.
CallsResolved ==
  \A r \in Requests : st[r] = "index" => names[rid[r]] = LabelsOf[r]
RowsFiled == \A row \in mem \cup batch \cup live : names[row.id] = LabelsOf[row.req]

\* Where the series of the rows being flushed are known.
FlushKnown ==
  /\ fpc # "save" => drained = {}
  /\ fpc = "save" => IDsIn(batch) \subseteq Known(fwd) \cup drained
  /\ fpc \in {"days", "open", "add"} => IDsIn(batch) \subseteq Known(fwd)
  /\ fpc = "idle" => batch = {}

\* What a manifest lists, or will list when it is saved next.
PartsKnown ==
  /\ \A row \in live \cup durable : fwd[row.id] = LabelsOf[row.req]
  /\ \A e \in invDisk : fwd[e[2]] # NoLabels

\* Between a crash and Open nothing is in memory.
DownIsEmpty ==
  proc = "down" =>
    /\ mem = {} /\ batch = {} /\ live = {} /\ drained = {} /\ fpc = "idle"
    /\ \A r \in Requests : st[r] # "index"

IdentityInv ==
  /\ MapsInverse /\ DiskAgrees /\ PendingCovers /\ CallsResolved
  /\ RowsFiled /\ FlushKnown /\ PartsKnown /\ DownIsEmpty

\* An empty registry and an empty disk agree.
LEMMA IdentityInit == Init => IdentityInv
  BY StorageAssumption DEF Init, IdentityInv, MapsInverse, DiskAgrees, PendingCovers,
     CallsResolved, RowsFiled, FlushKnown, PartsKnown, DownIsEmpty, Known, EmptyMap, SeriesIDs

\* Resolve, IndexForDay and the buffer keep the registry consistent.
LEMMA IdentityAppend == TypeInv /\ IdentityInv /\ AppendStep => IdentityInv'
<1> SUFFICES ASSUME TypeInv, IdentityInv, AppendStep PROVE IdentityInv'
  OBVIOUS
<1> USE StorageAssumption DEF TypeInv, disk, registry, engine, calls, flush, retention, history
<1>1. ASSUME NEW r \in Requests, NEW i \in SeriesIDs, Resolved(r, i), names[i] = LabelsOf[r],
             UNCHANGED <<disk, registry, engine, flush>>, proc = "up"
      PROVE  IdentityInv'
  <2>1. CallsResolved'
    BY <1>1 DEF IdentityInv, CallsResolved, Resolved, TypeOK
  <2> QED
    BY <1>1, <2>1 DEF IdentityInv, MapsInverse, DiskAgrees, PendingCovers, RowsFiled,
       FlushKnown, PartsKnown, DownIsEmpty, Known, IDsIn
<1>2. ASSUME NEW r \in Requests, byKey[LabelsOf[r]] # 0
      PROVE  byKey[LabelsOf[r]] \in SeriesIDs /\ names[byKey[LabelsOf[r]]] = LabelsOf[r]
  BY <1>2 DEF TypeOK, IdentityInv, MapsInverse
<1>3. ASSUME NEW r \in Requests, ResolveRead(r) PROVE IdentityInv'
  <2>1. CASE byKey[LabelsOf[r]] # 0
    BY <1>1, <1>2, <1>3, <2>1 DEF ResolveRead
  <2>2. CASE byKey[LabelsOf[r]] = 0
    BY <1>3, <2>2 DEF ResolveRead, TypeOK, IdentityInv, MapsInverse, DiskAgrees, PendingCovers,
       CallsResolved, RowsFiled, FlushKnown, PartsKnown, DownIsEmpty, Known, IDsIn
  <2> QED
    BY <2>1, <2>2
<1>4. ASSUME NEW r \in Requests, ResolveWrite(r) PROVE IdentityInv'
  <2>1. CASE byKey[LabelsOf[r]] # 0
    BY <1>1, <1>2, <1>4, <2>1 DEF ResolveWrite
  <2>2. CASE byKey[LabelsOf[r]] = 0
    <3>1. /\ proc = "up" /\ nextID \in SeriesIDs /\ nextID' = nextID + 1
          /\ names' = [names EXCEPT ![nextID] = LabelsOf[r]]
          /\ byKey' = [byKey EXCEPT ![LabelsOf[r]] = nextID]
          /\ pending' = pending \cup {nextID}
          /\ Resolved(r, nextID)
          /\ UNCHANGED <<disk, engine, flush>>
      BY <1>4, <2>2 DEF ResolveWrite
    <3>2. LabelsOf[r] \in LabelSets /\ LabelsOf[r] # NoLabels
      OBVIOUS
    <3>3. nextID \notin Known(names)
      BY <3>1 DEF IdentityInv, MapsInverse, TypeOK, SeriesIDs
    <3>4. Known(names') = Known(names) \cup {nextID}
      BY <3>1, <3>2 DEF Known, TypeOK, LabelMap
    <3>5. \A i \in Known(names) : names'[i] = names[i]
      BY <3>1, <3>3 DEF Known, TypeOK, LabelMap
    <3>6. names'[nextID] = LabelsOf[r]
      BY <3>1 DEF TypeOK, LabelMap
    <3>7. MapsInverse'
      <4>1. ASSUME NEW L \in LabelSets, byKey'[L] # 0 PROVE names'[byKey'[L]] = L
        <5>1. CASE L = LabelsOf[r]
          BY <3>1, <3>6, <5>1 DEF TypeOK
        <5>2. CASE L # LabelsOf[r]
          <6>1. byKey'[L] = byKey[L] /\ byKey[L] \in SeriesIDs
            BY <3>1, <4>1, <5>2 DEF TypeOK
          <6>2. names[byKey[L]] = L /\ byKey[L] \in Known(names)
            BY <4>1, <6>1 DEF IdentityInv, MapsInverse, Known
          <6> QED
            BY <3>5, <6>1, <6>2
        <5> QED
          BY <5>1, <5>2
      <4>2. ASSUME NEW i \in Known(names') PROVE byKey'[names'[i]] = i /\ i < nextID'
        <5>1. CASE i = nextID
          BY <3>1, <3>2, <3>6, <5>1 DEF TypeOK, SeriesIDs
        <5>2. CASE i # nextID
          <6>1. i \in Known(names) /\ names'[i] = names[i] /\ i \in SeriesIDs
            BY <3>4, <3>5, <4>2, <5>2 DEF Known
          <6>2. byKey[names[i]] = i /\ i < nextID /\ names[i] \in LabelSets
            BY <6>1 DEF IdentityInv, MapsInverse, Known, TypeOK, LabelMap
          <6>3. names[i] # LabelsOf[r]
            BY <2>2, <6>1, <6>2 DEF SeriesIDs
          <6> QED
            BY <3>1, <6>1, <6>2, <6>3 DEF TypeOK, SeriesIDs
        <5> QED
          BY <5>1, <5>2
      <4> QED
        BY <4>1, <4>2 DEF MapsInverse
    <3>8. DiskAgrees'
      BY <3>1, <3>5 DEF IdentityInv, DiskAgrees, Known
    <3>9. PendingCovers'
      BY <3>1, <3>4 DEF IdentityInv, PendingCovers, Known
    <3>10. CallsResolved'
      <4>1. ASSUME NEW s \in Requests, st'[s] = "index" PROVE names'[rid'[s]] = LabelsOf[s]
        <5>1. CASE s = r
          BY <3>1, <3>6, <5>1 DEF Resolved, TypeOK
        <5>2. CASE s # r
          <6>1. st[s] = "index" /\ rid'[s] = rid[s]
            BY <3>1, <4>1, <5>2 DEF Resolved, TypeOK
          <6>2. rid[s] \in Known(names) /\ names[rid[s]] = LabelsOf[s]
            BY <6>1 DEF IdentityInv, CallsResolved, CountersOK, Known
          <6> QED
            BY <3>5, <6>1, <6>2
        <5> QED
          BY <5>1, <5>2
      <4> QED
        BY <4>1 DEF CallsResolved
    <3>11. RowsFiled'
      <4>1. ASSUME NEW row \in mem \cup batch \cup live
            PROVE row.id \in Known(names) /\ names[row.id] = LabelsOf[row.req]
        BY <4>1 DEF IdentityInv, RowsFiled, Known, TypeOK, Rows
      <4> QED
        BY <3>1, <3>5, <4>1 DEF RowsFiled
    <3>12. FlushKnown' /\ PartsKnown' /\ DownIsEmpty'
      BY <3>1 DEF IdentityInv, FlushKnown, PartsKnown, DownIsEmpty, Known, IDsIn
    <3> QED
      BY <3>7, <3>8, <3>9, <3>10, <3>11, <3>12 DEF IdentityInv
  <2> QED
    BY <2>1, <2>2
<1>5. ASSUME NEW r \in Requests, NEW d \in Days, IndexForDay(r, d) PROVE IdentityInv'
  BY <1>5 DEF IndexForDay, IdentityInv, MapsInverse, DiskAgrees, PendingCovers,
     CallsResolved, RowsFiled, FlushKnown, PartsKnown, DownIsEmpty, Known, IDsIn
<1>6. ASSUME NEW r \in Requests, AppendMem(r) PROVE IdentityInv'
  <2>1. \A row \in RowsOf(r) : names[row.id] = LabelsOf[row.req]
    BY <1>6 DEF AppendMem, RowsOf, IdentityInv, CallsResolved
  <2>2. RowsFiled' /\ CallsResolved'
    BY <1>6, <2>1 DEF AppendMem, IdentityInv, RowsFiled, CallsResolved, TypeOK
  <2> QED
    BY <1>6, <2>2 DEF AppendMem, IdentityInv, MapsInverse, DiskAgrees, PendingCovers,
       FlushKnown, PartsKnown, DownIsEmpty, Known, IDsIn
<1> QED
  BY <1>3, <1>4, <1>5, <1>6 DEF AppendStep

\* The steps of a flush that leave the registry's maps and the forward
\* segments alone, and move rows only between the buffer, the flush and parts.
LEMMA IdentityFlushRows ==
  ASSUME TypeInv, IdentityInv, proc = "up", proc' = "up",
         UNCHANGED <<fwd, names, byKey, nextID, pending, drained, calls>>,
         drained = {},
         mem' \cup batch' \cup live' \subseteq mem \cup batch \cup live \cup durable,
         batch' \subseteq batch, fpc' \notin {"drain", "save"},
         fpc' \in {"days", "open", "add"} => fpc \in {"days", "open", "add"},
         fpc' = "idle" => batch' = {},
         \A row \in live' \cup durable' : row \in live \cup durable \/ (row \in batch /\ row.id \in Known(fwd)),
         \A e \in invDisk' : e \in invDisk \/ e[2] \in Known(fwd)
  PROVE  IdentityInv'
<1>1. MapsInverse' /\ DiskAgrees' /\ PendingCovers' /\ CallsResolved' /\ DownIsEmpty'
  BY DEF IdentityInv, MapsInverse, DiskAgrees, PendingCovers, CallsResolved, DownIsEmpty,
     Known, calls
<1>2. \A i \in Known(fwd) : names[i] = fwd[i]
  BY DEF IdentityInv, DiskAgrees
<1>3. \A row \in durable : row.id \in Known(fwd) /\ fwd[row.id] = LabelsOf[row.req]
  BY StorageAssumption DEF IdentityInv, PartsKnown, Known, TypeInv, TypeOK, Rows
<1>4. RowsFiled'
  BY <1>2, <1>3 DEF IdentityInv, RowsFiled
<1>5. FlushKnown'
  <2>1. IDsIn(batch') \subseteq IDsIn(batch)
    BY DEF IDsIn
  <2> QED
    BY <2>1 DEF IdentityInv, FlushKnown, Known, IDsIn, TypeInv, TypeOK
<1>6. PartsKnown'
  <2>1. ASSUME NEW row \in live' \cup durable' PROVE fwd'[row.id] = LabelsOf[row.req]
    <3>1. CASE row \in live \cup durable
      BY <3>1 DEF IdentityInv, PartsKnown
    <3>2. CASE row \in batch /\ row.id \in Known(fwd)
      BY <1>2, <3>2 DEF IdentityInv, RowsFiled
    <3> QED
      BY <2>1, <3>1, <3>2
  <2> QED
    BY <2>1 DEF IdentityInv, PartsKnown, Known
<1> QED
  BY <1>1, <1>4, <1>5, <1>6 DEF IdentityInv

\* Flush, with each of its error returns, keeps registry and disk consistent.
LEMMA IdentityFlush == TypeInv /\ IdentityInv /\ (FlushSwap \/ FlushStep) => IdentityInv'
<1> SUFFICES ASSUME TypeInv, IdentityInv, FlushSwap \/ FlushStep PROVE IdentityInv'
  OBVIOUS
<1> USE StorageAssumption DEF disk, registry, engine, calls, flush, retention, history
<1>0. fpc \in {"days", "open", "add"} =>
        drained = {} /\ \A row \in batch : row.id \in Known(fwd)
  BY DEF IdentityInv, FlushKnown, IDsIn
<1>1. CASE FlushSwap
  BY <1>1 DEF FlushSwap, IdentityInv, MapsInverse, DiskAgrees, PendingCovers,
     CallsResolved, RowsFiled, FlushKnown, PartsKnown, DownIsEmpty, Known, IDsIn
<1>2. CASE DrainPending
  <2>1. \A row \in batch : row.id \in Known(names)
    BY DEF IdentityInv, RowsFiled, Known, TypeInv, TypeOK, Rows
  <2>2. FlushKnown' /\ PendingCovers'
    BY <1>2, <2>1 DEF DrainPending, IdentityInv, FlushKnown, PendingCovers, Known, IDsIn
  <2> QED
    BY <1>2, <2>2 DEF DrainPending, IdentityInv, MapsInverse, DiskAgrees,
       CallsResolved, RowsFiled, PartsKnown, DownIsEmpty, Known
<1>3. CASE SaveRegistry
  <2>1. /\ proc = "up" /\ fpc = "save" /\ drained' = {}
        /\ fwd' = [i \in SeriesIDs |-> IF i \in drained THEN names[i] ELSE fwd[i]]
        /\ fpc' = IF batch = {} THEN "idle" ELSE "days"
        /\ UNCHANGED <<invDisk, durable, batch, registry, engine, calls>>
    BY <1>3 DEF SaveRegistry, AppendSegment
  <2>2. \A i \in Known(fwd) : names[i] = fwd[i]
    BY <2>1 DEF IdentityInv, DiskAgrees
  <2>3. drained \subseteq Known(names)
    BY DEF IdentityInv, PendingCovers
  <2>4. Known(fwd') = Known(fwd) \cup drained
    BY <2>1, <2>3 DEF Known, TypeInv, TypeOK
  <2>5. \A i \in Known(fwd') : fwd'[i] = names[i]
    BY <2>1, <2>2, <2>4 DEF Known
  <2>6. \A i \in Known(fwd) : fwd'[i] = fwd[i]
    BY <2>2, <2>4, <2>5
  <2>7. DiskAgrees'
    <3>1. ASSUME NEW i \in Known(fwd'), NEW j \in Known(fwd'), fwd'[i] = fwd'[j] PROVE i = j
      <4>1. i \in Known(names) /\ j \in Known(names) /\ names[i] = names[j]
        BY <2>5, <3>1 DEF Known
      <4> QED
        BY <4>1 DEF IdentityInv, MapsInverse
    <3> QED
      BY <2>1, <2>5, <3>1 DEF DiskAgrees
  <2>8. PendingCovers' /\ FlushKnown'
    BY <2>1, <2>4 DEF IdentityInv, PendingCovers, FlushKnown, Known, IDsIn
  <2>9. PartsKnown'
    <3>1. \A row \in live \cup durable : row.id \in Known(fwd)
      BY DEF IdentityInv, PartsKnown, Known, TypeInv, TypeOK, Rows
    <3>2. \A e \in invDisk : e[2] \in Known(fwd)
      BY DEF IdentityInv, PartsKnown, Known, TypeInv, TypeOK
    <3>3. \A e \in invDisk : fwd'[e[2]] # NoLabels
      BY <2>6, <3>2 DEF Known
    <3> QED
      BY <2>1, <2>6, <3>1, <3>3 DEF IdentityInv, PartsKnown
  <2> QED
    BY <2>1, <2>7, <2>8, <2>9 DEF IdentityInv, MapsInverse, CallsResolved, RowsFiled,
       DownIsEmpty, Known
<1>4. CASE SaveRegistryFails
  BY <1>4 DEF SaveRegistryFails, Fault, IdentityInv, MapsInverse, DiskAgrees, PendingCovers,
     CallsResolved, RowsFiled, FlushKnown, PartsKnown, DownIsEmpty, Known, IDsIn
<1>5. ASSUME NEW d \in Days, PersistDayIndex(d) PROVE IdentityInv'
  <2>1. \A e \in NewIndexRecords(d) : e[2] \in Known(fwd)
    BY <1>0, <1>5 DEF PersistDayIndex, NewIndexRecords, IDsIn, DayRows
  <2> QED
    BY <1>0, <1>5, <2>1, IdentityFlushRows DEF PersistDayIndex
<1>6. ASSUME NEW d \in Days, PersistDayIndexFails(d) PROVE IdentityInv'
  BY <1>0, <1>6, IdentityFlushRows DEF PersistDayIndexFails, FlushAborts, DayRows
<1>7. CASE GetPartition
  BY <1>0, <1>7, IdentityFlushRows DEF GetPartition, DayRows
<1>8. CASE GetPartitionFails
  BY <1>0, <1>8, IdentityFlushRows DEF GetPartitionFails, FlushAborts, DayRows
<1>9. CASE AddPart
  BY <1>0, <1>9, IdentityFlushRows DEF AddPart, ManifestSaved, DayRows
<1>10. CASE AddPartFails
  BY <1>0, <1>10, IdentityFlushRows DEF AddPartFails, FlushAborts, DayRows
<1>11. CASE AddPartManifestFails
  BY <1>0, <1>11, IdentityFlushRows DEF AddPartManifestFails, FlushAborts, DayRows
<1> QED
  BY <1>1, <1>2, <1>3, <1>4, <1>5, <1>6, <1>7, <1>8, <1>9, <1>10, <1>11 DEF FlushStep

\* Steps that change nothing but take rows out of parts and records out of
\* the inverted index, or make live rows durable.
LEMMA IdentityShrinks ==
  ASSUME IdentityInv,
         UNCHANGED <<fwd, names, byKey, nextID, pending, calls, proc, mem, flush>>,
         live' \subseteq live, durable' \subseteq durable \cup live, invDisk' \subseteq invDisk
  PROVE  IdentityInv'
  BY DEF IdentityInv, MapsInverse, DiskAgrees, PendingCovers, CallsResolved, RowsFiled,
     FlushKnown, PartsKnown, DownIsEmpty, Known, IDsIn, calls, flush

\* Merges and ApplyRetention keep registry and disk consistent.
LEMMA IdentityRetention ==
  IdentityInv /\ ((\E c \in Cutoffs : ApplyRetention(c)) \/ RetentionStep
                   \/ \E d \in Days : ForceMerge(d)) => IdentityInv'
<1> SUFFICES ASSUME IdentityInv,
                    \/ \E c \in Cutoffs : ApplyRetention(c)
                    \/ RetentionStep
                    \/ \E d \in Days : ForceMerge(d)
    PROVE IdentityInv'
  OBVIOUS
<1> USE DEF disk, registry, engine, calls, flush, retention, history
<1>1. ASSUME NEW c \in Cutoffs, ApplyRetention(c) PROVE IdentityInv'
  BY <1>1, IdentityShrinks DEF ApplyRetention
<1>2. ASSUME NEW d \in Days, DropPartition(d) PROVE IdentityInv'
  BY <1>2, IdentityShrinks DEF DropPartition
<1>3. CASE RemoveAllDone
  BY <1>3, IdentityShrinks DEF RemoveAllDone
<1>4. CASE RemoveAllFails
  BY <1>4, IdentityShrinks DEF RemoveAllFails, RetentionAborts
<1>5. CASE DropInverted
  BY <1>5, IdentityShrinks DEF DropInverted
<1>6. CASE DropInvertedFails
  BY <1>6, IdentityShrinks DEF DropInvertedFails, RetentionAborts
<1>7. CASE DropDay
  BY <1>7, IdentityShrinks DEF DropDay
<1>8. ASSUME NEW d \in Days, ForceMerge(d) PROVE IdentityInv'
  BY <1>8, IdentityShrinks DEF ForceMerge, ManifestSaved, DayRows
<1> QED
  BY <1>1, <1>2, <1>3, <1>4, <1>5, <1>6, <1>7, <1>8 DEF RetentionStep

\* kill -9 leaves a disk from which Open rebuilds a consistent registry.
LEMMA IdentityRestart == TypeInv /\ IdentityInv /\ (Crash \/ CleanStop \/ Open) => IdentityInv'
<1> SUFFICES ASSUME TypeInv, IdentityInv, Crash \/ CleanStop \/ Open PROVE IdentityInv'
  OBVIOUS
<1> USE StorageAssumption DEF disk, registry, engine, calls, flush, retention, history
<1>1. CASE Crash \/ CleanStop
  <2>1. Known(names') = {} /\ MapsInverse'
    BY <1>1 DEF Crash, CleanStop, LoseMemory, Known, EmptyMap, MapsInverse
  <2> QED
    BY <1>1, <2>1 DEF Crash, CleanStop, LoseMemory, IdentityInv, DiskAgrees, PendingCovers, CallsResolved,
       RowsFiled, FlushKnown, PartsKnown, DownIsEmpty, Known, IDsIn
<1>2. CASE Open
  <2>1. /\ proc = "down" /\ proc' = "up" /\ names' = fwd /\ fwd' = fwd /\ pending' = {}
        /\ live' = durable /\ UNCHANGED <<invDisk, durable, mem, calls, flush>>
        /\ byKey' = [L \in LabelSets |->
                        IF \E i \in SeriesIDs : fwd[i] = L
                        THEN CHOOSE i \in SeriesIDs : fwd[i] = L ELSE 0]
        /\ \A i \in Known(fwd) : i < nextID'
    BY <1>2 DEF Open, LoadRegistry, LoadPartitions, ByKey
  <2>2. /\ mem = {} /\ batch = {} /\ drained = {} /\ fpc = "idle"
        /\ \A r \in Requests : st[r] # "index"
    BY <2>1 DEF IdentityInv, DownIsEmpty
  <2>3. MapsInverse'
    <3>1. ASSUME NEW L \in LabelSets, byKey'[L] # 0 PROVE fwd[byKey'[L]] = L
      BY <2>1, <3>1
    <3>2. ASSUME NEW i \in Known(fwd) PROVE byKey'[fwd[i]] = i
      <4>1. fwd[i] \in LabelSets /\ i \in SeriesIDs
        BY <3>2 DEF Known, TypeInv, TypeOK, LabelMap
      <4>2. PICK j \in SeriesIDs : byKey'[fwd[i]] = j /\ fwd[j] = fwd[i]
        BY <2>1, <4>1
      <4>3. j \in Known(fwd)
        BY <3>2, <4>2 DEF Known
      <4> QED
        BY <3>2, <4>2, <4>3 DEF IdentityInv, DiskAgrees
    <3> QED
      BY <2>1, <3>1, <3>2 DEF MapsInverse
  <2>4. DiskAgrees' /\ PendingCovers' /\ CallsResolved' /\ FlushKnown' /\ DownIsEmpty'
    BY <2>1, <2>2 DEF IdentityInv, DiskAgrees, PendingCovers, CallsResolved, FlushKnown,
       DownIsEmpty, Known
  <2>5. RowsFiled' /\ PartsKnown'
    BY <2>1, <2>2 DEF IdentityInv, RowsFiled, PartsKnown
  <2> QED
    BY <2>3, <2>4, <2>5 DEF IdentityInv
<1> QED
  BY <1>1, <1>2

\* The identity invariant is inductive.
LEMMA IdentityNext == TypeInv /\ IdentityInv /\ [EngineNext]_vars => IdentityInv'
<1>1. IdentityInv /\ UNCHANGED vars => IdentityInv'
  BY IdentityShrinks DEF vars, disk, registry, engine, calls, flush
<1> QED
  BY <1>1, IdentityAppend, IdentityFlush, IdentityRetention, IdentityRestart DEF EngineNext, Next

\* The identity invariant holds in every reachable state.
LEMMA IdentityInvariant == EngineSpec => [](TypeInv /\ IdentityInv)
  BY TypeInit, TypeNext, IdentityInit, IdentityNext, PTL DEF EngineSpec

\* Resolve's promise: whichever calls race to register a label set, whatever
\* fails, and however often the registry is replayed, one label set has one
\* SeriesID and every row is filed under the ID of its own labels.
THEOREM SeriesIdentityHolds == Spec => []SeriesIdentity
<1>1. IdentityInv => SeriesIdentity
  BY DEF IdentityInv, MapsInverse, RowsFiled, SeriesIdentity
<1> QED
  BY <1>1, IdentityInvariant, SpecIsEngine, PTL

\* Flush's promise: at every instant at which the process may be killed, the
\* forward segments on disk name every series that data or index refer to.
THEOREM KnownSeriesHolds == Spec => []KnownSeries
<1>1. IdentityInv => KnownSeries
  BY DEF IdentityInv, PartsKnown, KnownSeries
<1> QED
  BY <1>1, IdentityInvariant, SpecIsEngine, PTL

\* No step gives a persisted SeriesID other labels: only SaveRegistry writes
\* the forward segments, and what it writes agrees with what is there.
THEOREM IdentityIsForeverHolds == Spec => IdentityIsForever
<1>1. TypeInv /\ IdentityInv /\ [EngineNext]_vars => [\A i \in Known(fwd) : fwd'[i] = fwd[i]]_vars
  <2> SUFFICES ASSUME TypeInv, IdentityInv, EngineNext PROVE \A i \in Known(fwd) : fwd'[i] = fwd[i]
    OBVIOUS
  <2>1. CASE SaveRegistry
    BY <2>1 DEF SaveRegistry, AppendSegment, IdentityInv, DiskAgrees, Known
  <2>2. CASE ~SaveRegistry
    <3>1. UNCHANGED fwd
      BY <2>2 DEF EngineNext, Next, AppendStep, FlushStep, RetentionStep, ResolveRead, ResolveWrite,
         IndexForDay, AppendMem, FlushSwap, DrainPending, SaveRegistryFails,
         PersistDayIndex, PersistDayIndexFails, GetPartition, GetPartitionFails, AddPart,
         AddPartFails, AddPartManifestFails, ForceMerge, ApplyRetention, DropPartition,
         RemoveAllDone, RemoveAllFails, DropInverted, DropInvertedFails, DropDay, Crash, CleanStop,
         LoseMemory, Open, disk
    <3> QED
      BY <3>1
  <2> QED
    BY <2>1, <2>2
<1> QED
  BY <1>1, IdentityInvariant, SpecIsEngine, PTL DEF EngineSpec, IdentityIsForever

-----------------------------------------------------------------------------
(* Index before data.  The invariant says where the inverted records of a   *)
(* row are between persistDayIndex and DropDay.                             *)

\* Flush and ApplyRetention exclude each other, and nothing runs while down.
Exclusion ==
  /\ rpc # "idle" => fpc = "idle" /\ proc = "up"
  /\ proc = "down" => fpc = "idle" /\ live = {}

\* The records on disk, and those a failed DropInverted took from there.
Recorded == invDisk \cup lostRecords

\* Readable and durable rows have their record on disk, the rows of the day
\* a flush is at have it before their part is written.
RowsIndexed ==
  /\ \A row \in live \cup durable : <<row.day, row.id>> \in Recorded
  /\ fpc \in {"open", "add"} => \A row \in DayRows(batch, fday) : <<row.day, row.id>> \in Recorded

\* A record marked persisted is on disk, except while retention has deleted
\* the records of a day and not yet called DropDay; that day has no rows.
PersistedOnDisk ==
  /\ proc = "up" => \A e \in persisted : e \in Recorded \/ (rpc = "forget" /\ e[1] = rday)
  /\ rpc \in {"remove", "index", "forget"} => DayRows(live, rday) = {}
  /\ rpc \in {"index", "forget"} => DayRows(durable, rday) = {}

IndexInv == Exclusion /\ RowsIndexed /\ PersistedOnDisk

\* With nothing on disk nothing lacks its index record.
LEMMA IndexInit == Init => IndexInv
  BY DEF Init, IndexInv, Exclusion, RowsIndexed, PersistedOnDisk, DayRows

\* Steps outside retention that add no record and no row that lacks one.
LEMMA IndexKeeps ==
  ASSUME IndexInv, proc = "up", proc' = "up", UNCHANGED <<invDisk, lostRecords, persisted, rday>>,
         rpc' = rpc \/ (rpc = "idle" /\ rpc' = "drop"),
         rpc' # "idle" => fpc' = "idle" /\ live' \subseteq live /\ durable' \subseteq durable,
         \A row \in live' \cup durable' :
           row \in live \cup durable \/ <<row.day, row.id>> \in Recorded,
         fpc' \in {"open", "add"} =>
           fpc \in {"open", "add"} /\ fday' = fday /\ batch' \subseteq batch
  PROVE  IndexInv'
  BY DEF IndexInv, Exclusion, RowsIndexed, PersistedOnDisk, Recorded, DayRows

\* Append touches neither the disk nor the persisted marks.
LEMMA IndexAppend == IndexInv /\ AppendStep => IndexInv'
<1> SUFFICES ASSUME IndexInv, AppendStep PROVE IndexInv'
  OBVIOUS
<1>1. proc = "up" /\ proc' = "up" /\ UNCHANGED <<invDisk, lostRecords, persisted, live, durable, flush, retention>>
  BY DEF AppendStep, ResolveRead, ResolveWrite, IndexForDay, AppendMem, disk, registry, engine,
     flush, retention, history
<1> QED
  BY <1>1, IndexKeeps DEF flush, retention, IndexInv, Exclusion

\* Flush writes index records before the data they are for.
LEMMA IndexFlush == IndexInv /\ (FlushSwap \/ FlushStep) => IndexInv'
<1> SUFFICES ASSUME IndexInv, FlushSwap \/ FlushStep PROVE IndexInv'
  OBVIOUS
<1> USE DEF disk, registry, engine, calls, flush, retention, history
<1>0. fpc # "idle" => rpc = "idle"
  BY DEF IndexInv, Exclusion
<1>1. CASE FlushSwap
  BY <1>1, IndexKeeps DEF FlushSwap
<1>2. CASE DrainPending
  BY <1>0, <1>2, IndexKeeps DEF DrainPending
<1>3. CASE SaveRegistry
  BY <1>0, <1>3, IndexKeeps DEF SaveRegistry
<1>4. CASE SaveRegistryFails
  BY <1>0, <1>4, IndexKeeps DEF SaveRegistryFails
<1>5. ASSUME NEW d \in Days, PersistDayIndex(d) PROVE IndexInv'
  <2>1. rpc = "idle" /\ rpc' = "idle" /\ proc = "up" /\ proc' = "up"
    BY <1>0, <1>5 DEF PersistDayIndex
  <2>2. persisted \subseteq Recorded
    BY <2>1 DEF IndexInv, PersistedOnDisk
  <2>3. \A row \in DayRows(batch, d) : <<row.day, row.id>> \in Recorded \cup NewIndexRecords(d)
    BY <2>2 DEF NewIndexRecords, DayRows, IDsIn
  <2>4. /\ invDisk' = invDisk \cup NewIndexRecords(d)
        /\ lostRecords' = lostRecords \ NewIndexRecords(d)
        /\ persisted' = persisted \cup NewIndexRecords(d)
        /\ fday' = d /\ UNCHANGED <<batch, live, durable>>
    BY <1>5 DEF PersistDayIndex
  <2>5. Recorded' = Recorded \cup NewIndexRecords(d)
    BY <2>4 DEF Recorded
  <2>6. RowsIndexed'
    BY <2>3, <2>4, <2>5 DEF IndexInv, RowsIndexed, DayRows
  <2> QED
    BY <2>1, <2>2, <2>4, <2>5, <2>6 DEF IndexInv, Exclusion, PersistedOnDisk
<1>6. ASSUME NEW d \in Days, PersistDayIndexFails(d) PROVE IndexInv'
  BY <1>0, <1>6, IndexKeeps DEF PersistDayIndexFails, FlushAborts
<1>7. CASE GetPartition
  BY <1>0, <1>7, IndexKeeps DEF GetPartition, DayRows
<1>8. CASE GetPartitionFails
  BY <1>0, <1>8, IndexKeeps DEF GetPartitionFails, FlushAborts
<1>9. CASE AddPart
  <2>1. \A row \in DayRows(batch, fday) : <<row.day, row.id>> \in Recorded
    BY <1>9 DEF AddPart, IndexInv, RowsIndexed
  <2> QED
    BY <1>0, <1>9, <2>1, IndexKeeps DEF AddPart, ManifestSaved, DayRows
<1>10. CASE AddPartFails
  BY <1>0, <1>10, IndexKeeps DEF AddPartFails, FlushAborts
<1>11. CASE AddPartManifestFails
  <2>1. \A row \in DayRows(batch, fday) : <<row.day, row.id>> \in Recorded
    BY <1>11 DEF AddPartManifestFails, IndexInv, RowsIndexed
  <2> QED
    BY <1>0, <1>11, <2>1, IndexKeeps DEF AddPartManifestFails, FlushAborts, DayRows
<1> QED
  BY <1>1, <1>2, <1>3, <1>4, <1>5, <1>6, <1>7, <1>8, <1>9, <1>10, <1>11 DEF FlushStep

\* ApplyRetention deletes index records only after the data of their day.
LEMMA IndexRetention ==
  IndexInv /\ ((\E c \in Cutoffs : ApplyRetention(c)) \/ RetentionStep
                \/ \E d \in Days : ForceMerge(d)) => IndexInv'
<1> SUFFICES ASSUME IndexInv,
                    \/ \E c \in Cutoffs : ApplyRetention(c)
                    \/ RetentionStep
                    \/ \E d \in Days : ForceMerge(d)
    PROVE IndexInv'
  OBVIOUS
<1> USE DEF disk, registry, engine, calls, flush, retention, history
<1>1. ASSUME NEW c \in Cutoffs, ApplyRetention(c) PROVE IndexInv'
  BY <1>1, IndexKeeps DEF ApplyRetention
<1>2. ASSUME NEW d \in Days, DropPartition(d) PROVE IndexInv'
  BY <1>2 DEF DropPartition, IndexInv, Exclusion, RowsIndexed, PersistedOnDisk, Recorded, DayRows
<1>3. CASE RemoveAllDone
  BY <1>3 DEF RemoveAllDone, IndexInv, Exclusion, RowsIndexed, PersistedOnDisk, Recorded, DayRows
<1>4. CASE RemoveAllFails
  BY <1>4 DEF RemoveAllFails, RetentionAborts, IndexInv, Exclusion, RowsIndexed,
     PersistedOnDisk, Recorded, DayRows
<1>5. CASE DropInverted
  <2>1. \A row \in live \cup durable : row.day # rday
    BY <1>5 DEF DropInverted, IndexInv, PersistedOnDisk, Recorded, DayRows
  <2>2. RowsIndexed'
    BY <1>5, <2>1 DEF DropInverted, IndexInv, Exclusion, RowsIndexed, Recorded, DayIndex
  <2>3. PersistedOnDisk'
    BY <1>5 DEF DropInverted, IndexInv, PersistedOnDisk, Recorded, DayIndex, DayRows
  <2> QED
    BY <1>5, <2>2, <2>3 DEF DropInverted, IndexInv, Exclusion
<1>6. CASE DropInvertedFails
  <2>1. PICK removed \in SUBSET DayIndex(invDisk, rday) :
          invDisk' = invDisk \ removed /\ lostRecords' = lostRecords \cup removed
    BY <1>6 DEF DropInvertedFails
  <2>2. Recorded' = Recorded
    BY <2>1 DEF Recorded, DayIndex
  <2>3. /\ rpc = "index" /\ rpc' = "idle"
        /\ UNCHANGED <<proc, live, durable, persisted, flush>>
    BY <1>6 DEF DropInvertedFails, RetentionAborts
  <2> QED
    BY <2>2, <2>3 DEF IndexInv, Exclusion, RowsIndexed, PersistedOnDisk
<1>7. CASE DropDay
  BY <1>7 DEF DropDay, DayIndex, IndexInv, Exclusion, RowsIndexed, PersistedOnDisk, Recorded, DayRows
<1>8. ASSUME NEW d \in Days, ForceMerge(d) PROVE IndexInv'
  <2>1. \A row \in live : <<row.day, row.id>> \in Recorded
    BY DEF IndexInv, RowsIndexed
  <2> QED
    BY <1>8, <2>1, IndexKeeps DEF ForceMerge, ManifestSaved, DayRows
<1> QED
  BY <1>1, <1>2, <1>3, <1>4, <1>5, <1>6, <1>7, <1>8 DEF RetentionStep

\* kill -9 keeps the disk, and Open takes the marks from it.
LEMMA IndexRestart == IndexInv /\ (Crash \/ CleanStop \/ Open) => IndexInv'
  BY DEF Crash, CleanStop, LoseMemory, Open, LoadInverted, LoadPartitions, IndexInv, Exclusion, RowsIndexed,
     PersistedOnDisk, Recorded, DayRows, disk, flush, retention, history

\* The index invariant is inductive.
LEMMA IndexNext == IndexInv /\ [EngineNext]_vars => IndexInv'
<1>1. IndexInv /\ UNCHANGED vars => IndexInv'
  BY DEF vars, disk, registry, engine, calls, flush, retention, history,
     IndexInv, Exclusion, RowsIndexed, PersistedOnDisk, Recorded, DayRows
<1> QED
  BY <1>1, IndexAppend, IndexFlush, IndexRetention, IndexRestart DEF EngineNext, Next

\* Flush persists a day's inverted records before its part, and retention
\* forgets that they were persisted when it deletes them: no instant has data
\* that a restart could not find, except under records that a failed deletion
\* of an index directory took away.
THEOREM IndexBeforeDataHolds == Spec => []IndexBeforeData
<1>1. IndexInv => IndexBeforeData
  BY DEF IndexInv, RowsIndexed, Recorded, IndexBeforeData
<1> QED
  BY <1>1, IndexInit, IndexNext, SpecIsEngine, PTL DEF EngineSpec

-----------------------------------------------------------------------------
(* What becomes of an acknowledged row: finding it by label, never having   *)
(* it twice, not losing it, and the abstract store (module DurableStore)    *)
(* that the write path refines.                                             *)

\* No flush gives up half of its work: an error return of Flush restores the
\* samples of one day only, so either all samples are of one day, or none of
\* the operations after saveRegistrySegment fails.
NoPartialFlush ==
  \/ \A d, e \in Days : d = e
  \/ FaultKinds \cap {"index", "open", "write", "manifest"} = {}

-----------------------------------------------------------------------------
(* Findable.  The invariant follows the inverted record of a row from the   *)
(* IndexForDay that Append calls, over the buffer, to the part and back     *)
(* from disk; only rows that were read back may depend on a lost record.    *)

RecordOf(row) == <<row.day, row.id>>

\* The days an Append call is done with.
CallsIndexed ==
  \A r \in Requests : st[r] = "index" =>
    \A d \in DaysOf[r] \ todo[r] : d \in forgotten \/ <<d, rid[r]>> \in inverted

BufferIndexed ==
  \A row \in mem \cup batch : row.day \in forgotten \/ RecordOf(row) \in inverted

PartsIndexed ==
  proc = "up" => \A row \in live \cup durable :
                   row.day \in forgotten \/ RecordOf(row) \in inverted \cup lostRecords

FindInv == CallsIndexed /\ BufferIndexed /\ PartsIndexed

\* With no rows and no calls nothing needs to be found.
LEMMA FindInit == Init => FindInv
  BY DEF Init, FindInv, CallsIndexed, BufferIndexed, PartsIndexed

\* Steps that move rows from the buffer to the parts or drop them, and take
\* nothing from the index.
LEMMA FindKeeps ==
  ASSUME FindInv, proc = "up", UNCHANGED <<calls, inverted, forgotten>>,
         lostRecords \subseteq lostRecords',
         mem' \cup batch' \subseteq mem \cup batch,
         live' \cup durable' \subseteq mem \cup batch \cup live \cup durable
  PROVE  FindInv'
  BY DEF FindInv, CallsIndexed, BufferIndexed, PartsIndexed, RecordOf, calls

\* Append indexes every day of the call before it buffers the samples.
LEMMA FindAppend == TypeInv /\ FindInv /\ AppendStep => FindInv'
<1> SUFFICES ASSUME TypeInv, FindInv, AppendStep PROVE FindInv'
  OBVIOUS
<1> USE StorageAssumption DEF TypeInv, disk, registry, engine, calls, flush, retention, history
<1>1. ASSUME NEW r \in Requests, ResolveRead(r) \/ ResolveWrite(r) PROVE FindInv'
  <2>1. /\ UNCHANGED <<proc, mem, batch, live, durable, inverted, lostRecords, forgotten>>
        /\ \A s \in Requests \ {r} : st'[s] = st[s] /\ rid'[s] = rid[s] /\ todo'[s] = todo[s]
        /\ st'[r] = "index" => todo'[r] = DaysOf[r]
    BY <1>1 DEF ResolveRead, ResolveWrite, Resolved, TypeOK
  <2>2. CallsIndexed'
    BY <2>1 DEF FindInv, CallsIndexed
  <2> QED
    BY <2>1, <2>2 DEF FindInv, BufferIndexed, PartsIndexed, RecordOf
<1>2. ASSUME NEW r \in Requests, NEW d \in Days, IndexForDay(r, d) PROVE FindInv'
  <2>1. /\ UNCHANGED <<proc, mem, batch, live, durable, lostRecords, forgotten, st, rid>>
        /\ inverted' = inverted \cup {<<d, rid[r]>>}
        /\ \A s \in Requests : s # r => todo'[s] = todo[s]
        /\ todo'[r] = todo[r] \ {d}
    BY <1>2 DEF IndexForDay, TypeOK
  <2>2. CallsIndexed'
    BY <2>1 DEF FindInv, CallsIndexed
  <2> QED
    BY <2>1, <2>2 DEF FindInv, BufferIndexed, PartsIndexed, RecordOf
<1>3. ASSUME NEW r \in Requests, AppendMem(r) PROVE FindInv'
  <2>1. \A row \in RowsOf(r) : row.day \in forgotten \/ RecordOf(row) \in inverted
    BY <1>3 DEF AppendMem, RowsOf, RecordOf, FindInv, CallsIndexed
  <2>2. CallsIndexed'
    BY <1>3 DEF AppendMem, FindInv, CallsIndexed, TypeOK
  <2> QED
    BY <1>3, <2>1, <2>2 DEF AppendMem, FindInv, BufferIndexed, PartsIndexed, RecordOf
<1> QED
  BY <1>1, <1>2, <1>3 DEF AppendStep

\* A flush moves rows; a lost record that it writes again belongs to a row of
\* its batch, which the index lists.
LEMMA FindFlush == FindInv /\ (FlushSwap \/ FlushStep) => FindInv'
<1> SUFFICES ASSUME FindInv, FlushSwap \/ FlushStep PROVE FindInv'
  OBVIOUS
<1> USE DEF disk, registry, engine, calls, flush, retention, history
<1>1. CASE FlushSwap
  BY <1>1, FindKeeps DEF FlushSwap
<1>2. CASE DrainPending
  BY <1>2, FindKeeps DEF DrainPending
<1>3. CASE SaveRegistry
  BY <1>3, FindKeeps DEF SaveRegistry
<1>4. CASE SaveRegistryFails
  BY <1>4, FindKeeps DEF SaveRegistryFails
<1>5. ASSUME NEW d \in Days, PersistDayIndex(d) PROVE FindInv'
  <2>1. /\ lostRecords' = lostRecords \ NewIndexRecords(d)
        /\ UNCHANGED <<proc, mem, batch, live, durable, inverted, forgotten, st, rid, todo>>
    BY <1>5 DEF PersistDayIndex
  <2>2. \A e \in NewIndexRecords(d) : e[1] \in forgotten \/ e \in inverted
    BY DEF NewIndexRecords, IDsIn, DayRows, FindInv, BufferIndexed, RecordOf
  <2>3. PartsIndexed'
    BY <2>1, <2>2 DEF FindInv, PartsIndexed, RecordOf
  <2> QED
    BY <2>1, <2>3 DEF FindInv, CallsIndexed, BufferIndexed, RecordOf
<1>6. ASSUME NEW d \in Days, PersistDayIndexFails(d) PROVE FindInv'
  BY <1>6, FindKeeps DEF PersistDayIndexFails, FlushAborts, DayRows
<1>7. CASE GetPartition
  BY <1>7, FindKeeps DEF GetPartition, DayRows
<1>8. CASE GetPartitionFails
  BY <1>8, FindKeeps DEF GetPartitionFails, FlushAborts, DayRows
<1>9. CASE AddPart
  BY <1>9, FindKeeps DEF AddPart, ManifestSaved, DayRows
<1>10. CASE AddPartFails
  BY <1>10, FindKeeps DEF AddPartFails, FlushAborts, DayRows
<1>11. CASE AddPartManifestFails
  BY <1>11, FindKeeps DEF AddPartManifestFails, FlushAborts, DayRows
<1> QED
  BY <1>1, <1>2, <1>3, <1>4, <1>5, <1>6, <1>7, <1>8, <1>9, <1>10, <1>11 DEF FlushStep

\* Retention takes from the index the records of the day it forgets.
LEMMA FindRetention ==
  TypeInv /\ IndexInv /\ FindInv /\ ((\E c \in Cutoffs : ApplyRetention(c)) \/ RetentionStep
                          \/ \E d \in Days : ForceMerge(d)) => FindInv'
<1> SUFFICES ASSUME TypeInv, IndexInv, FindInv,
                    \/ \E c \in Cutoffs : ApplyRetention(c)
                    \/ RetentionStep
                    \/ \E d \in Days : ForceMerge(d)
    PROVE FindInv'
  OBVIOUS
<1> USE DEF disk, registry, engine, calls, flush, retention, history
<1>1. ASSUME NEW c \in Cutoffs, ApplyRetention(c) PROVE FindInv'
  BY <1>1, FindKeeps DEF ApplyRetention
<1>2. ASSUME NEW d \in Days, DropPartition(d) PROVE FindInv'
  BY <1>2, FindKeeps DEF DropPartition, DayRows
<1>3. CASE RemoveAllDone
  BY <1>3, FindKeeps DEF RemoveAllDone, DayRows
<1>4. CASE RemoveAllFails
  BY <1>4, FindKeeps DEF RemoveAllFails, RetentionAborts
<1>5. CASE DropInverted
  <2>1. \A row \in live \cup durable : row.day # rday
    BY <1>5 DEF DropInverted, IndexInv, PersistedOnDisk, DayRows
  <2>2. PartsIndexed'
    BY <1>5, <2>1 DEF DropInverted, DayIndex, FindInv, PartsIndexed, RecordOf
  <2> QED
    BY <1>5, <2>2 DEF DropInverted, FindInv, CallsIndexed, BufferIndexed, RecordOf
<1>6. CASE DropInvertedFails
  BY <1>6, FindKeeps DEF DropInvertedFails, RetentionAborts
<1>7. CASE DropDay
  BY <1>7 DEF DropDay, DayIndex, FindInv, CallsIndexed, BufferIndexed, PartsIndexed, RecordOf
<1>8. ASSUME NEW d \in Days, ForceMerge(d) PROVE FindInv'
  BY <1>8, FindKeeps DEF ForceMerge, ManifestSaved, DayRows
<1> QED
  BY <1>1, <1>2, <1>3, <1>4, <1>5, <1>6, <1>7, <1>8 DEF RetentionStep

\* Open finds the record of every row on disk, unless it was lost.
LEMMA FindRestart ==
  TypeInv /\ IdentityInv /\ IndexInv /\ FindInv /\ (Crash \/ CleanStop \/ Open) => FindInv'
<1> SUFFICES ASSUME TypeInv, IdentityInv, IndexInv, FindInv, Crash \/ CleanStop \/ Open PROVE FindInv'
  OBVIOUS
<1> USE DEF disk, registry, engine, calls, flush, retention, history
<1>1. CASE Crash \/ CleanStop
  BY <1>1 DEF Crash, CleanStop, LoseMemory, FindInv, CallsIndexed, BufferIndexed, PartsIndexed
<1>2. CASE Open
  <2>1. CallsIndexed' /\ BufferIndexed'
    BY <1>2 DEF Open, IdentityInv, DownIsEmpty, CallsIndexed, BufferIndexed
  <2>2. PartsIndexed'
    BY <1>2 DEF Open, LoadInverted, LoadPartitions, IndexInv, RowsIndexed, Recorded,
       PartsIndexed, RecordOf
  <2> QED
    BY <2>1, <2>2 DEF FindInv
<1> QED
  BY <1>1, <1>2

\* The invariants of this module and of StorageProofs hold together.
LEMMA FindInvariant == EngineSpec => [](TypeInv /\ IdentityInv /\ IndexInv /\ FindInv)
<1>1. FindInv /\ UNCHANGED vars => FindInv'
  BY DEF vars, disk, registry, engine, calls, flush, retention, history,
     FindInv, CallsIndexed, BufferIndexed, PartsIndexed, RecordOf
<1>2. TypeInv /\ IdentityInv /\ IndexInv /\ FindInv /\ [EngineNext]_vars => FindInv'
  BY <1>1, FindAppend, FindFlush, FindRetention, FindRestart DEF EngineNext, Next
<1> QED
  BY <1>2, FindInit, IndexInit, IndexNext, IdentityInvariant, PTL DEF EngineSpec

\* Append indexes before it buffers, retention forgets what it deletes and
\* Open rebuilds the index: every row of a running engine can be found by
\* label, whatever failed or crashed, outside the days forgotten since Open
\* and the records that a failed DropInverted took from the disk.
THEOREM FindableHolds == Spec => []Findable
<1>1. FindInv => Findable
  BY DEF FindInv, BufferIndexed, PartsIndexed, RecordOf, Findable
<1> QED
  BY <1>1, FindInvariant, SpecIsEngine, PTL

-----------------------------------------------------------------------------
(* Rows move between the tiers, and new ones come from an Append that       *)
(* returns: the row of an answered call never comes up again.               *)

\* A row of a call that this step answers.
Fresh(row) == row.req \in Requests /\ st[row.req] # "done" /\ st'[row.req] = "done"

\* Where the rows after a step come from.
RowsMove ==
  /\ \A r \in Requests : st[r] = "done" => st'[r] = "done"
  /\ \A row \in mem' \cup batch' : row \in mem \cup batch \/ Fresh(row)
  /\ \A row \in live' \cup durable' : row \in mem \cup batch \cup live \cup durable
  /\ \A row \in acked' : row \in acked \/ Fresh(row)

\* Every step of the engine moves rows in this way.
LEMMA StepsMoveRows == TypeInv /\ EngineNext => RowsMove
<1> SUFFICES ASSUME TypeInv, EngineNext PROVE RowsMove
  OBVIOUS
<1> USE DEF disk, registry, engine, calls, flush, retention, history
<1>1. ASSUME NEW r \in Requests, AppendMem(r) PROVE RowsMove
  <2>1. \A row \in RowsOf(r) : Fresh(row)
    BY <1>1 DEF AppendMem, RowsOf, Fresh, TypeInv, TypeOK
  <2>2. \A s \in Requests : st[s] = "done" => st'[s] = "done"
    BY <1>1 DEF AppendMem, TypeInv, TypeOK
  <2> QED
    BY <1>1, <2>1, <2>2 DEF AppendMem, RowsMove
<1>2. ASSUME NEW r \in Requests, ResolveRead(r) \/ ResolveWrite(r) \/ \E d \in Days : IndexForDay(r, d)
      PROVE  RowsMove
  BY <1>2 DEF ResolveRead, ResolveWrite, IndexForDay, Resolved, RowsMove, TypeInv, TypeOK
<1>3. CASE FlushSwap \/ FlushStep
  <2>1. UNCHANGED <<st, acked>>
    BY <1>3 DEF FlushSwap, FlushStep, DrainPending, SaveRegistry, SaveRegistryFails, PersistDayIndex,
       PersistDayIndexFails, GetPartition, GetPartitionFails, AddPart, AddPartFails,
       AddPartManifestFails
  <2>2. mem' \cup batch' \subseteq mem \cup batch
    BY <1>3 DEF FlushSwap, FlushStep, DrainPending, SaveRegistry, SaveRegistryFails, PersistDayIndex,
       PersistDayIndexFails, GetPartition, GetPartitionFails, AddPart, AddPartFails,
       AddPartManifestFails, FlushAborts, DayRows
  <2>3. live' \cup durable' \subseteq batch \cup live \cup durable
    BY <1>3 DEF FlushSwap, FlushStep, DrainPending, SaveRegistry, SaveRegistryFails, PersistDayIndex,
       PersistDayIndexFails, GetPartition, GetPartitionFails, AddPart, AddPartFails,
       AddPartManifestFails, FlushAborts, ManifestSaved, DayRows
  <2> QED
    BY <2>1, <2>2, <2>3 DEF RowsMove
<1>4. CASE RetentionStep \/ (\E d \in Days : ForceMerge(d)) \/ (\E c \in Cutoffs : ApplyRetention(c))
  BY <1>4 DEF ApplyRetention, RetentionStep, DropPartition, RemoveAllDone, RemoveAllFails,
     DropInverted, DropInvertedFails, RetentionAborts, DropDay, ForceMerge, ManifestSaved, DayRows,
     RowsMove
<1>5. CASE Crash \/ CleanStop \/ Open
  BY <1>5 DEF Crash, CleanStop, LoseMemory, Open, LoadPartitions, RowsMove
<1> QED
  BY <1>1, <1>2, <1>3, <1>4, <1>5 DEF EngineNext, Next, AppendStep

\* Rows exist only once their call has been answered.
RowsAnswered ==
  \A row \in mem \cup batch \cup live \cup durable \cup acked : st[row.req] = "done"

\* No step brings up a row before its call is answered.
LEMMA AnsweredNext == TypeInv /\ RowsAnswered /\ [EngineNext]_vars => RowsAnswered'
<1> SUFFICES ASSUME TypeInv, RowsAnswered, [EngineNext]_vars PROVE RowsAnswered'
  OBVIOUS
<1>1. \A row \in mem \cup batch \cup live \cup durable \cup acked : row.req \in Requests
  BY DEF TypeInv, TypeOK, Rows
<1>2. CASE EngineNext
  BY <1>1, <1>2, StepsMoveRows DEF RowsMove, Fresh, RowsAnswered
<1>3. CASE UNCHANGED vars
  BY <1>3 DEF vars, disk, engine, calls, flush, history, RowsAnswered
<1> QED
  BY <1>2, <1>3

\* Every row belongs to an answered call.
LEMMA AnsweredInvariant == EngineSpec => [](TypeInv /\ IdentityInv /\ RowsAnswered)
<1>1. Init => RowsAnswered
  BY DEF Init, RowsAnswered
<1> QED
  BY <1>1, AnsweredNext, IdentityInvariant, PTL DEF EngineSpec

-----------------------------------------------------------------------------
(* No duplicates.                                                           *)

\* A row is in the buffer, in the running flush or in the parts.
TiersDisjoint ==
  /\ mem \cap batch = {}
  /\ (mem \cup batch) \cap (live \cup durable) = {}

OnceInv == RowsAnswered /\ TiersDisjoint

\* Every Append call buffers its samples once.
LEMMA OnceAppend == OnceInv /\ AppendStep => TiersDisjoint'
<1> SUFFICES ASSUME OnceInv, AppendStep PROVE TiersDisjoint'
  OBVIOUS
<1> USE DEF disk, registry, engine, flush
<1>1. ASSUME NEW r \in Requests, ResolveRead(r) \/ ResolveWrite(r) \/ \E d \in Days : IndexForDay(r, d)
      PROVE  TiersDisjoint'
  BY <1>1 DEF ResolveRead, ResolveWrite, IndexForDay, OnceInv, TiersDisjoint
<1>2. ASSUME NEW r \in Requests, AppendMem(r) PROVE TiersDisjoint'
  <2>1. \A row \in RowsOf(r) : st[row.req] # "done"
    BY <1>2 DEF AppendMem, RowsOf
  <2>2. RowsOf(r) \cap (mem \cup batch \cup live \cup durable) = {}
    BY <2>1 DEF OnceInv, RowsAnswered
  <2> QED
    BY <1>2, <2>2 DEF AppendMem, OnceInv, TiersDisjoint
<1> QED
  BY <1>1, <1>2 DEF AppendStep

\* A flush whose manifest is saved moves rows, and an error return puts back
\* rows that no part has.
LEMMA OnceFlush ==
  ASSUME "manifest" \notin FaultKinds
  PROVE  IdentityInv /\ TiersDisjoint /\ (FlushSwap \/ FlushStep) => TiersDisjoint'
<1> SUFFICES ASSUME IdentityInv, TiersDisjoint, FlushSwap \/ FlushStep PROVE TiersDisjoint'
  OBVIOUS
<1> USE DEF disk, registry, engine, calls, flush, retention, history
<1>1. CASE FlushSwap
  BY <1>1 DEF FlushSwap, TiersDisjoint, IdentityInv, FlushKnown
<1>2. CASE DrainPending \/ SaveRegistry \/ SaveRegistryFails
  BY <1>2 DEF DrainPending, SaveRegistry, SaveRegistryFails, TiersDisjoint
<1>3. ASSUME NEW d \in Days, PersistDayIndex(d) \/ PersistDayIndexFails(d) PROVE TiersDisjoint'
  BY <1>3 DEF PersistDayIndex, PersistDayIndexFails, FlushAborts, DayRows, TiersDisjoint
<1>4. CASE GetPartition
  BY <1>4 DEF GetPartition, DayRows, TiersDisjoint
<1>5. CASE GetPartitionFails \/ AddPartFails
  BY <1>5 DEF GetPartitionFails, AddPartFails, FlushAborts, DayRows, TiersDisjoint
<1>6. CASE AddPart
  BY <1>6 DEF AddPart, ManifestSaved, DayRows, TiersDisjoint
<1>7. ~AddPartManifestFails
  BY DEF AddPartManifestFails, Fault
<1> QED
  BY <1>1, <1>2, <1>3, <1>4, <1>5, <1>6, <1>7 DEF FlushStep

\* Merges, retention, a crash and Open add no row to the buffer or the parts.
LEMMA OnceOthers ==
  IdentityInv /\ TiersDisjoint
  /\ ((\E c \in Cutoffs : ApplyRetention(c)) \/ RetentionStep \/ (\E d \in Days : ForceMerge(d))
       \/ Crash \/ CleanStop \/ Open) => TiersDisjoint'
<1> SUFFICES ASSUME IdentityInv, TiersDisjoint,
                    \/ \E c \in Cutoffs : ApplyRetention(c)
                    \/ RetentionStep
                    \/ \E d \in Days : ForceMerge(d)
                    \/ Crash \/ CleanStop \/ Open
    PROVE TiersDisjoint'
  OBVIOUS
<1> USE DEF disk, registry, engine, calls, flush, retention, history
<1>1. CASE (\E c \in Cutoffs : ApplyRetention(c)) \/ RetentionStep \/ (\E d \in Days : ForceMerge(d))
  <2>1. UNCHANGED <<mem, batch>> /\ live' \cup durable' \subseteq live \cup durable
    BY <1>1 DEF ApplyRetention, RetentionStep, DropPartition, RemoveAllDone, RemoveAllFails,
       DropInverted, DropInvertedFails, RetentionAborts, DropDay, ForceMerge, ManifestSaved, DayRows
  <2> QED
    BY <2>1 DEF TiersDisjoint
<1>2. CASE Crash \/ CleanStop \/ Open
  BY <1>2 DEF Crash, CleanStop, LoseMemory, Open, IdentityInv, DownIsEmpty, TiersDisjoint
<1> QED
  BY <1>1, <1>2

\* The invariant of the tiers holds in every reachable state.
LEMMA OnceInvariant ==
  ASSUME "manifest" \notin FaultKinds
  PROVE  EngineSpec => [](TypeInv /\ IdentityInv /\ OnceInv)
<1>1. Init => TiersDisjoint
  BY DEF Init, TiersDisjoint
<1>2. TiersDisjoint /\ UNCHANGED vars => TiersDisjoint'
  BY DEF vars, disk, engine, flush, TiersDisjoint
<1>3. IdentityInv /\ RowsAnswered /\ TiersDisjoint /\ [EngineNext]_vars => TiersDisjoint'
  BY <1>2, OnceAppend, OnceFlush, OnceOthers DEF EngineNext, Next, OnceInv
<1> QED
  BY <1>1, <1>3, AnsweredInvariant, PTL DEF EngineSpec, OnceInv

\* A flush, its error returns, retention and restarts keep every row in one
\* tier, so that a query merging parts and buffer counts it once; only an
\* addPart that fails to save the manifest could leave it in both.
THEOREM NoDuplicateHolds ==
  ASSUME "manifest" \notin FaultKinds
  PROVE  Spec => []NoDuplicate
<1>1. OnceInv => NoDuplicate
  BY DEF OnceInv, TiersDisjoint, NoDuplicate
<1> QED
  BY <1>1, OnceInvariant, SpecIsEngine, PTL

-----------------------------------------------------------------------------
(* Nothing lost.                                                            *)

LostInv ==
  /\ proc = "up" => acked \subseteq mem \cup batch \cup live
  /\ proc = "down" => acked \subseteq durable

\* A fresh engine has acknowledged nothing.
LEMMA LostInit == Init => LostInv
  BY DEF Init, LostInv

\* What an error return of Flush restores is all that is left of its batch.
LEMMA AbortRestoresAll ==
  ASSUME NoPartialFlush, TypeInv, NEW d \in Days,
         FaultKinds \cap {"index", "open", "write", "manifest"} # {}
  PROVE  DayRows(batch, d) = batch
<1>1. \A row \in batch : row.day \in Days
  BY DEF TypeInv, TypeOK, Rows
<1> QED
  BY <1>1 DEF NoPartialFlush, DayRows

\* Steps of a running engine that acknowledge what they buffer and lose nothing.
LEMMA LostKeeps ==
  ASSUME LostInv, proc = "up", proc' = "up",
         \A row \in acked' : row \in acked \/ row \in mem',
         mem \cup batch \cup live \subseteq mem' \cup batch' \cup live'
  PROVE  LostInv'
  BY DEF LostInv

\* A flush moves rows, and an error return restores them.
LEMMA LostFlush ==
  ASSUME NoPartialFlush
  PROVE  TypeInv /\ IdentityInv /\ LostInv /\ (FlushSwap \/ FlushStep) => LostInv'
<1> SUFFICES ASSUME TypeInv, IdentityInv, LostInv, FlushSwap \/ FlushStep PROVE LostInv'
  OBVIOUS
<1> USE DEF disk, registry, engine, calls, flush, retention, history
<1>1. CASE FlushSwap
  BY <1>1, LostKeeps DEF FlushSwap, IdentityInv, FlushKnown
<1>2. CASE DrainPending \/ SaveRegistry \/ SaveRegistryFails
  BY <1>2, LostKeeps DEF DrainPending, SaveRegistry, SaveRegistryFails
<1>3. ASSUME NEW d \in Days, PersistDayIndex(d) PROVE LostInv'
  BY <1>3, LostKeeps DEF PersistDayIndex
<1>4. ASSUME NEW d \in Days, PersistDayIndexFails(d) PROVE LostInv'
  <2>1. DayRows(batch, d) = batch
    BY <1>4, AbortRestoresAll DEF PersistDayIndexFails, Fault
  <2> QED
    BY <1>4, <2>1, LostKeeps DEF PersistDayIndexFails, FlushAborts
<1>5. CASE GetPartition \/ AddPart
  BY <1>5, LostKeeps DEF GetPartition, AddPart, DayRows
<1>6. CASE GetPartitionFails \/ AddPartFails \/ AddPartManifestFails
  <2>1. fday \in Days
    BY <1>6 DEF GetPartitionFails, AddPartFails, AddPartManifestFails, TypeInv, CountersOK
  <2>2. DayRows(batch, fday) = batch
    BY <1>6, <2>1, AbortRestoresAll DEF GetPartitionFails, AddPartFails, AddPartManifestFails, Fault
  <2> QED
    BY <1>6, <2>2, LostKeeps DEF GetPartitionFails, AddPartFails, AddPartManifestFails, FlushAborts
<1> QED
  BY <1>1, <1>2, <1>3, <1>4, <1>5, <1>6 DEF FlushStep

\* Append acknowledges what it buffers; retention takes expired rows from the
\* parts and from the promise at once.
LEMMA LostOthers ==
  LostInv /\ (AppendStep \/ (\E c \in Cutoffs : ApplyRetention(c)) \/ RetentionStep
               \/ \E d \in Days : ForceMerge(d)) => LostInv'
<1> SUFFICES ASSUME LostInv,
                    \/ AppendStep
                    \/ \E c \in Cutoffs : ApplyRetention(c)
                    \/ RetentionStep
                    \/ \E d \in Days : ForceMerge(d)
    PROVE LostInv'
  OBVIOUS
<1> USE DEF disk, registry, engine, calls, flush, retention, history
<1>1. ASSUME NEW d \in Days, DropPartition(d) PROVE LostInv'
  BY <1>1 DEF DropPartition, LostInv, DayRows
<1>2. CASE AppendStep
  BY <1>2, LostKeeps DEF AppendStep, ResolveRead, ResolveWrite, IndexForDay, AppendMem
<1>3. ASSUME NEW c \in Cutoffs, ApplyRetention(c) PROVE LostInv'
  BY <1>3, LostKeeps DEF ApplyRetention
<1>4. ASSUME NEW d \in Days, ForceMerge(d) PROVE LostInv'
  BY <1>4, LostKeeps DEF ForceMerge
<1>5. CASE RemoveAllDone \/ RemoveAllFails \/ DropInverted \/ DropInvertedFails \/ DropDay
  BY <1>5, LostKeeps DEF RemoveAllDone, RemoveAllFails, DropInverted, DropInvertedFails,
     RetentionAborts, DropDay
<1> QED
  BY <1>1, <1>2, <1>3, <1>4, <1>5 DEF RetentionStep

\* A crash takes what is not durable from the promise, Open reads the rest.
LEMMA LostRestart == LostInv /\ (Crash \/ CleanStop \/ Open) => LostInv'
  BY DEF Crash, CleanStop, LoseMemory, Open, LoadPartitions, LostInv, disk, flush, history

\* The invariant holds in every reachable state.
LEMMA LostInvariant ==
  ASSUME NoPartialFlush
  PROVE  EngineSpec => [](TypeInv /\ IdentityInv /\ LostInv)
<1>1. LostInv /\ UNCHANGED vars => LostInv'
  BY DEF vars, disk, engine, flush, history, LostInv
<1>2. TypeInv /\ IdentityInv /\ LostInv /\ [EngineNext]_vars => LostInv'
  BY <1>1, LostFlush, LostOthers, LostRestart DEF EngineNext, Next
<1> QED
  BY <1>2, LostInit, IdentityInvariant, PTL DEF EngineSpec

\* "Unflushed samples are returned so the next flush retries them": no error
\* return, retention pass, crash or restart loses an acknowledged row that is
\* durable or in memory, as long as no flush fails between two days.
THEOREM NothingLostHolds ==
  ASSUME NoPartialFlush
  PROVE  Spec => []NothingLost
<1>1. LostInv => NothingLost
  BY DEF LostInv, NothingLost
<1> QED
  BY <1>1, LostInvariant, SpecIsEngine, PTL

-----------------------------------------------------------------------------
(* Refinement.                                                              *)

\* As long as every manifest can be saved, p.parts and the manifest agree.
OpenedAgree ==
  proc = "up" /\ "manifest" \notin FaultKinds =>
    \A d \in opened : DayRows(live, d) = DayRows(durable, d)

\* A day with data has a directory, live data is in an opened partition, and
\* the day being flushed is open.
DirectoriesOK ==
  /\ DaysIn(durable) \subseteq partDirs
  /\ proc = "up" => DaysIn(live) \subseteq opened /\ opened \subseteq partDirs
  /\ fpc = "add" => fday \in opened /\ proc = "up"

\* What a retention pass works on has expired.
RetentionOK ==
  /\ rpc # "idle" => \E c \in Cutoffs : \A d \in expired : d < c
  /\ rpc \in {"remove", "index", "forget"} => rday \in expired /\ rday \notin opened

AgreeInv == OpenedAgree /\ DirectoriesOK /\ RetentionOK

\* With no directory and no part, disk and memory agree.
LEMMA AgreeInit == Init => AgreeInv
  BY DEF Init, AgreeInv, OpenedAgree, DirectoriesOK, RetentionOK, DaysIn

\* Steps that leave the partitions alone and start no retention pass.
LEMMA AgreeKeeps ==
  ASSUME AgreeInv, UNCHANGED <<proc, opened, live, durable>>, partDirs \subseteq partDirs',
         fpc' = "add" => fpc = "add" /\ fday' = fday,
         rpc' = "idle" \/ (rpc = rpc' /\ UNCHANGED <<expired, rday>>)
  PROVE  AgreeInv'
  BY DEF AgreeInv, OpenedAgree, DirectoriesOK, RetentionOK, DayRows, DaysIn

\* A flush opens a partition from its manifest, and saves as its manifest
\* what the partition lists.
LEMMA AgreeFlush ==
  TypeInv /\ IndexInv /\ AgreeInv /\ (FlushSwap \/ FlushStep) => AgreeInv'
<1> SUFFICES ASSUME TypeInv, IndexInv, AgreeInv, FlushSwap \/ FlushStep PROVE AgreeInv'
  OBVIOUS
<1> USE DEF disk, registry, engine, calls, flush, retention, history
<1>0. fpc # "idle" => rpc = "idle"
  BY DEF IndexInv, Exclusion
<1>1. CASE FlushSwap \/ DrainPending \/ SaveRegistry \/ SaveRegistryFails
  BY <1>1, AgreeKeeps DEF FlushSwap, DrainPending, SaveRegistry, SaveRegistryFails
<1>2. ASSUME NEW d \in Days, PersistDayIndex(d) \/ PersistDayIndexFails(d) PROVE AgreeInv'
  BY <1>2, AgreeKeeps DEF PersistDayIndex, PersistDayIndexFails, FlushAborts
<1>3. CASE GetPartitionFails \/ AddPartFails
  BY <1>3, AgreeKeeps DEF GetPartitionFails, AddPartFails, FlushAborts
<1>4. CASE GetPartition
  <2>1. /\ proc = "up" /\ rpc = "idle" /\ UNCHANGED <<proc, rpc, durable, fday>>
        /\ opened' = opened \cup {fday} /\ partDirs' = partDirs \cup {fday}
        /\ live' = IF fday \in opened THEN live ELSE live \cup DayRows(durable, fday)
    BY <1>0, <1>4 DEF GetPartition
  <2>2. DirectoriesOK' /\ RetentionOK'
    BY <2>1 DEF AgreeInv, DirectoriesOK, RetentionOK, DayRows, DaysIn
  <2>3. CASE fday \in opened
    BY <2>1, <2>2, <2>3 DEF AgreeInv, OpenedAgree, DayRows
  <2>4. CASE fday \notin opened
    <3>1. DayRows(live, fday) = {}
      BY <2>1, <2>4 DEF AgreeInv, DirectoriesOK, DayRows, DaysIn
    <3> QED
      BY <2>1, <2>2, <2>4, <3>1 DEF AgreeInv, OpenedAgree, DayRows
  <2> QED
    BY <2>3, <2>4
<1>5. CASE AddPart
  <2>1. /\ proc = "up" /\ rpc = "idle" /\ UNCHANGED <<proc, rpc, opened, partDirs, fday>>
        /\ live' = live \cup DayRows(batch, fday)
        /\ durable' = (durable \ DayRows(durable, fday)) \cup DayRows(live', fday)
        /\ fpc' # "add" /\ fday \in opened
    BY <1>0, <1>5 DEF AddPart, ManifestSaved, AgreeInv, DirectoriesOK
  <2>2. DirectoriesOK' /\ RetentionOK'
    BY <2>1 DEF AgreeInv, DirectoriesOK, RetentionOK, DayRows, DaysIn
  <2> QED
    BY <2>1, <2>2 DEF AgreeInv, OpenedAgree, DayRows
<1>6. CASE AddPartManifestFails
  <2>1. /\ proc = "up" /\ rpc = "idle" /\ UNCHANGED <<proc, rpc, opened, partDirs, durable>>
        /\ live' = live \cup DayRows(batch, fday)
        /\ fpc' = "idle" /\ fday \in opened /\ "manifest" \in FaultKinds
    BY <1>0, <1>6 DEF AddPartManifestFails, FlushAborts, Fault, AgreeInv, DirectoriesOK
  <2> QED
    BY <2>1 DEF AgreeInv, OpenedAgree, DirectoriesOK, RetentionOK, DayRows, DaysIn
<1> QED
  BY <1>1, <1>2, <1>3, <1>4, <1>5, <1>6 DEF FlushStep

\* Retention closes a partition before it deletes its data.
LEMMA AgreeOthers ==
  TypeInv /\ IndexInv /\ AgreeInv
  /\ (AppendStep \/ (\E c \in Cutoffs : ApplyRetention(c)) \/ RetentionStep
       \/ (\E d \in Days : ForceMerge(d)) \/ Crash \/ CleanStop \/ Open) => AgreeInv'
<1> SUFFICES ASSUME TypeInv, IndexInv, AgreeInv,
                    \/ AppendStep
                    \/ \E c \in Cutoffs : ApplyRetention(c)
                    \/ RetentionStep
                    \/ \E d \in Days : ForceMerge(d)
                    \/ Crash \/ CleanStop \/ Open
    PROVE AgreeInv'
  OBVIOUS
<1> USE DEF disk, registry, engine, calls, flush, retention, history
<1>1. CASE AppendStep
  BY <1>1, AgreeKeeps DEF AppendStep, ResolveRead, ResolveWrite, IndexForDay, AppendMem
<1>2. ASSUME NEW c \in Cutoffs, ApplyRetention(c) PROVE AgreeInv'
  BY <1>2 DEF ApplyRetention, AgreeInv, OpenedAgree, DirectoriesOK, RetentionOK, DayRows, DaysIn
<1>3. ASSUME NEW d \in Days, DropPartition(d) PROVE AgreeInv'
  <2>1. /\ UNCHANGED <<proc, partDirs, expired, fpc, fday>> /\ rday' = d /\ d \in expired
        /\ rpc = "drop" /\ rpc' = "remove" /\ fpc = "idle"
        /\ opened' = opened \ {d} /\ live' = live \ DayRows(live, d)
        /\ \E removed \in SUBSET DayRows(durable, d) : durable' = durable \ removed
    BY <1>3 DEF DropPartition, IndexInv, Exclusion
  <2>2. DirectoriesOK' /\ RetentionOK'
    BY <2>1 DEF AgreeInv, DirectoriesOK, RetentionOK, DayRows, DaysIn
  <2> QED
    BY <2>1, <2>2 DEF AgreeInv, OpenedAgree, DayRows
<1>4. CASE RemoveAllDone
  <2>1. rday \notin opened /\ fpc = "idle"
    BY <1>4 DEF RemoveAllDone, AgreeInv, RetentionOK, IndexInv, Exclusion
  <2> QED
    BY <1>4, <2>1 DEF RemoveAllDone, AgreeInv, OpenedAgree, DirectoriesOK, RetentionOK, DayRows, DaysIn
<1>5. CASE RemoveAllFails \/ DropInvertedFails
  BY <1>5, AgreeKeeps DEF RemoveAllFails, DropInvertedFails, RetentionAborts
<1>6. CASE DropInverted \/ DropDay
  BY <1>6 DEF DropInverted, DropDay, AgreeInv, OpenedAgree, DirectoriesOK, RetentionOK, DayRows, DaysIn
<1>7. ASSUME NEW d \in Days, ForceMerge(d) PROVE AgreeInv'
  <2>1. /\ proc = "up" /\ d \in opened
        /\ durable' = (durable \ DayRows(durable, d)) \cup DayRows(live, d)
        /\ UNCHANGED <<partDirs, engine, flush, retention>>
    BY <1>7 DEF ForceMerge, ManifestSaved
  <2>2. DirectoriesOK' /\ RetentionOK'
    BY <2>1 DEF AgreeInv, DirectoriesOK, RetentionOK, DayRows, DaysIn
  <2> QED
    BY <2>1, <2>2 DEF AgreeInv, OpenedAgree, DayRows
<1>8. CASE Crash \/ CleanStop
  BY <1>8 DEF Crash, CleanStop, LoseMemory, AgreeInv, OpenedAgree, DirectoriesOK, RetentionOK
<1>9. CASE Open
  <2>1. /\ proc = "down" /\ live' = durable /\ opened' = partDirs
        /\ UNCHANGED <<disk, flush, retention>>
    BY <1>9 DEF Open, LoadPartitions
  <2>2. fpc = "idle" /\ rpc = "idle"
    BY <2>1 DEF IndexInv, Exclusion, TypeInv, TypeOK
  <2> QED
    BY <2>1, <2>2 DEF AgreeInv, OpenedAgree, DirectoriesOK, RetentionOK, DayRows, DaysIn
<1> QED
  BY <1>1, <1>2, <1>3, <1>4, <1>5, <1>6, <1>7, <1>8, <1>9 DEF RetentionStep

\* The partitions agree with their directories in every reachable state.
LEMMA AgreeInvariant == EngineSpec => [](TypeInv /\ IndexInv /\ AgreeInv)
<1>1. AgreeInv /\ UNCHANGED vars => AgreeInv'
  BY AgreeKeeps DEF vars, disk, engine, flush, retention
<1>2. TypeInv /\ IndexInv /\ AgreeInv /\ [EngineNext]_vars => AgreeInv'
  BY <1>1, AgreeFlush, AgreeOthers DEF EngineNext, Next
<1> QED
  BY <1>2, AgreeInit, IndexInit, IndexNext, TypeInit, TypeNext, PTL DEF EngineSpec

\* A flush of the engine is a Persist of the abstract store, or a stutter.
LEMMA RefineFlush ==
  ASSUME NoPartialFlush, "manifest" \notin FaultKinds,
         TypeInv, IdentityInv, OnceInv, IndexInv, AgreeInv, FlushSwap \/ FlushStep
  PROVE  \/ \E S \in SUBSET (mem \cup batch) : Abstract!Persist(S)
         \/ UNCHANGED <<mem \cup batch, durable>>
<1> USE DEF disk, registry, engine, calls, flush, retention, history
<1>1. CASE FlushSwap
  BY <1>1 DEF FlushSwap, IdentityInv, FlushKnown
<1>2. CASE DrainPending \/ SaveRegistry \/ SaveRegistryFails \/ GetPartition
  BY <1>2 DEF DrainPending, SaveRegistry, SaveRegistryFails, GetPartition
<1>3. ASSUME NEW d \in Days, PersistDayIndex(d)
      PROVE  UNCHANGED <<mem \cup batch, durable>>
  BY <1>3 DEF PersistDayIndex
<1>4. ASSUME NEW d \in Days, PersistDayIndexFails(d)
      PROVE  UNCHANGED <<mem \cup batch, durable>>
  <2>1. DayRows(batch, d) = batch
    BY <1>4, AbortRestoresAll DEF PersistDayIndexFails, Fault
  <2> QED
    BY <1>4, <2>1 DEF PersistDayIndexFails, FlushAborts
<1>5. CASE GetPartitionFails \/ AddPartFails
  <2>1. fday \in Days
    BY <1>5 DEF GetPartitionFails, AddPartFails, TypeInv, CountersOK
  <2>2. DayRows(batch, fday) = batch
    BY <1>5, <2>1, AbortRestoresAll DEF GetPartitionFails, AddPartFails, Fault
  <2> QED
    BY <1>5, <2>2 DEF GetPartitionFails, AddPartFails, FlushAborts
<1>6. CASE AddPart
  <2> DEFINE S == DayRows(batch, fday)
  <2>1. /\ mem' = mem /\ batch' = batch \ S
        /\ durable' = (durable \ DayRows(durable, fday)) \cup DayRows(live \cup S, fday)
        /\ proc = "up" /\ fday \in opened
    BY <1>6 DEF AddPart, ManifestSaved, AgreeInv, DirectoriesOK
  <2>2. DayRows(live, fday) = DayRows(durable, fday)
    BY <2>1 DEF AgreeInv, OpenedAgree
  <2>3. durable' = durable \cup S
    BY <2>1, <2>2 DEF DayRows
  <2>4. mem' \cup batch' = (mem \cup batch) \ S
    BY <2>1 DEF OnceInv, TiersDisjoint, DayRows
  <2>5. S \in SUBSET (mem \cup batch)
    BY DEF DayRows
  <2> HIDE DEF S
  <2>6. Abstract!Persist(S)
    BY <2>3, <2>4, <2>5 DEF Abstract!Persist
  <2> QED
    BY <2>5, <2>6
<1>7. ~AddPartManifestFails
  BY DEF AddPartManifestFails, Fault
<1> QED
  BY <1>1, <1>2, <1>3, <1>4, <1>5, <1>6, <1>7 DEF FlushStep

\* Retention is an Expire of the abstract store, or a stutter.
LEMMA RefineRetention ==
  ASSUME "manifest" \notin FaultKinds, TypeInv, IndexInv, AgreeInv,
         \/ \E c \in Cutoffs : ApplyRetention(c)
         \/ RetentionStep
         \/ \E d \in Days : ForceMerge(d)
  PROVE  \/ \E S \in SUBSET durable, c \in Cutoffs : Abstract!Expire(S, c)
         \/ UNCHANGED <<mem \cup batch, durable>>
<1> USE DEF disk, registry, engine, calls, flush, retention, history
<1>1. ASSUME NEW d \in Days, DropPartition(d)
      PROVE  \E S \in SUBSET durable, c \in Cutoffs : Abstract!Expire(S, c)
  <2>1. PICK S \in SUBSET DayRows(durable, d) : durable' = durable \ S
    BY <1>1 DEF DropPartition
  <2>2. PICK c \in Cutoffs : d < c
    BY <1>1 DEF DropPartition, AgreeInv, RetentionOK
  <2>3. S \subseteq {row \in durable : row.day < c} /\ mem' \cup batch' = mem \cup batch
    BY <1>1, <2>1, <2>2 DEF DropPartition, DayRows
  <2> QED
    BY <2>1, <2>3 DEF Abstract!Expire
<1>2. CASE RemoveAllDone
  <2> DEFINE S == DayRows(durable, rday)
  <2>1. durable' = durable \ S /\ mem' \cup batch' = mem \cup batch
    BY <1>2 DEF RemoveAllDone
  <2>2. PICK c \in Cutoffs : rday < c
    BY <1>2 DEF RemoveAllDone, AgreeInv, RetentionOK
  <2>3. S \subseteq {row \in durable : row.day < c}
    BY <2>2 DEF DayRows
  <2> HIDE DEF S
  <2>4. Abstract!Expire(S, c)
    BY <2>1, <2>3 DEF Abstract!Expire
  <2> QED
    BY <2>3, <2>4
<1>3. CASE RemoveAllFails \/ DropInverted \/ DropInvertedFails \/ DropDay
  BY <1>3 DEF RemoveAllFails, DropInverted, DropInvertedFails, RetentionAborts, DropDay
<1>4. ASSUME NEW c \in Cutoffs, ApplyRetention(c) PROVE UNCHANGED <<mem \cup batch, durable>>
  BY <1>4 DEF ApplyRetention
<1>5. ASSUME NEW d \in Days, ForceMerge(d) PROVE UNCHANGED <<mem \cup batch, durable>>
  BY <1>5 DEF ForceMerge, ManifestSaved, AgreeInv, OpenedAgree, DayRows
<1> QED
  BY <1>1, <1>2, <1>3, <1>4, <1>5 DEF RetentionStep

\* Every step of the engine is a step of the abstract store, or a stutter.
LEMMA RefineNext ==
  ASSUME NoPartialFlush, "manifest" \notin FaultKinds
  PROVE  TypeInv /\ IdentityInv /\ OnceInv /\ IndexInv /\ AgreeInv /\ [EngineNext]_vars
         => [Abstract!Next]_<<mem \cup batch, durable>>
<1> SUFFICES ASSUME TypeInv, IdentityInv, OnceInv, IndexInv, AgreeInv, [EngineNext]_vars
    PROVE [Abstract!Next]_<<mem \cup batch, durable>>
  OBVIOUS
<1> USE DEF disk, registry, engine, calls, flush, retention, history
<1>1. ASSUME NEW r \in Requests, AppendMem(r)
      PROVE  \E S \in SUBSET Rows : Abstract!Accept(S)
  <2>1. RowsOf(r) \in SUBSET Rows
    BY <1>1, RowsOfType DEF AppendMem
  <2>2. \A row \in RowsOf(r) : st[row.req] # "done"
    BY <1>1 DEF AppendMem, RowsOf
  <2>3. RowsOf(r) \cap (mem \cup batch \cup durable) = {}
    BY <2>2 DEF OnceInv, RowsAnswered
  <2>4. mem' \cup batch' = (mem \cup batch) \cup RowsOf(r) /\ durable' = durable
    BY <1>1 DEF AppendMem
  <2>5. Abstract!Accept(RowsOf(r))
    BY <2>3, <2>4 DEF Abstract!Accept
  <2> QED
    BY <2>1, <2>5
<1>2. ASSUME NEW r \in Requests, ResolveRead(r) \/ ResolveWrite(r) \/ \E d \in Days : IndexForDay(r, d)
      PROVE  UNCHANGED <<mem \cup batch, durable>>
  BY <1>2 DEF ResolveRead, ResolveWrite, IndexForDay
<1>3. CASE Crash \/ CleanStop
  <2>1. Abstract!Lose
    BY <1>3 DEF Crash, CleanStop, LoseMemory, Abstract!Lose
  <2> QED
    BY <2>1 DEF Abstract!Next
<1>4. CASE Open \/ UNCHANGED vars
  BY <1>4 DEF Open, vars
<1> QED
  BY <1>1, <1>2, <1>3, <1>4, RefineFlush, RefineRetention DEF EngineNext, Next, AppendStep, Abstract!Next

\* Append, Flush, ApplyRetention, ForceMerge, kill -9 and Open together keep
\* the promise of a durable store: a row is accepted once, a flush moves it to
\* stable storage, a crash loses at most what was not flushed, and only what
\* is older than a cutoff is deleted.
THEOREM RefinesDurableStoreHolds ==
  ASSUME NoPartialFlush, "manifest" \notin FaultKinds
  PROVE  Spec => RefinesDurableStore
<1>1. Init => Abstract!Init
  BY DEF Init, Abstract!Init
<1> QED
  BY <1>1, RefineNext, OnceInvariant, AgreeInvariant, SpecIsEngine, PTL DEF EngineSpec, RefinesDurableStore, Abstract!Spec
====
