------------------------------ MODULE Storage ------------------------------
(***************************************************************************)
(* The write path of the storage engine: concurrent Append calls, the      *)
(* serialized Flush, ForceMerge, ApplyRetention, and a kill -9 at any      *)
(* instant followed by Open.                                               *)
(*                                                                         *)
(* A request is one Append call: one label set and at least one sample in  *)
(* each day of DaysOf[r].  The samples of a request that fall into one day *)
(* travel together from the buffer to a part, so they are one row.  Day    *)
(* partitions are seen through what their parts hold: `live` is what       *)
(* p.parts lists (what a query reads), `durable` what manifest.json lists  *)
(* (what survives a crash).  Part directories, merges and the partition    *)
(* lock are the subject of module Partition.                               *)
(***************************************************************************)
EXTENDS Naturals

CONSTANTS
  LabelSets,    \* canonical keys of the label sets that clients send
  NoLabels,     \* "no entry" in a SeriesID -> labels map
  Days,         \* day partition names, in the order of the calendar
  Requests,     \* the Append calls
  LabelsOf,     \* [Requests -> LabelSets]
  DaysOf,       \* [Requests -> days the call has samples in]
  Cutoffs,      \* cutoff days a retention pass may compute from the clock
  MaxSeries,    \* bound on SeriesIDs
  FaultKinds,   \* the file system operations that may return an error
  MaxFaults,    \* bound on such errors
  MaxCrashes    \* bound on kill -9

ASSUME StorageAssumption ==
  /\ NoLabels \notin LabelSets
  /\ Days \subseteq Nat
  /\ Cutoffs \subseteq Nat
  /\ LabelsOf \in [Requests -> LabelSets]
  /\ DaysOf \in [Requests -> (SUBSET Days) \ {{}}]
  /\ MaxSeries \in Nat
  /\ MaxFaults \in Nat
  /\ MaxCrashes \in Nat

SeriesIDs == 1..MaxSeries
Rows == [id : SeriesIDs, req : Requests, day : Days]
LabelMap == [SeriesIDs -> LabelSets \cup {NoLabels}]

VARIABLES
  \* On disk.
  fwd,        \* series/indexdb: SeriesID -> labels, all segments replayed
  invDisk,    \* series/inverted: the <<day, SeriesID>> records
  partDirs,   \* days that have a directory under partitions/
  durable,    \* rows in the parts the manifests list
  \* The registry (Registry.mu guards each operation).
  nextID, byKey, names, pending, inverted, persisted,
  \* The engine: proc is "down" between a crash and Open.
  proc, mem, opened, live,
  \* Append calls: program counter, resolved SeriesID, days left to index.
  st, rid, todo,
  \* Flush (holder of flushMu): swapped buffer, drained registry entries.
  fpc, batch, drained, fday,
  \* ApplyRetention (holder of flushMu and compactMu).
  rpc, expired, rday,
  \* History: rows acknowledged and neither expired nor lost to a crash,
  \* days forgotten since Open, days whose data retention has deleted, index
  \* records deleted by a failed DropInverted and not written since.
  acked, forgotten, gone, lostRecords,
  \* Budget of the environment.
  faults, crashes

disk == <<fwd, invDisk, partDirs, durable>>
registry == <<nextID, byKey, names, pending, inverted, persisted>>
engine == <<proc, mem, opened, live>>
calls == <<st, rid, todo>>
flush == <<fpc, batch, drained, fday>>
retention == <<rpc, expired, rday>>
history == <<acked, forgotten, gone, lostRecords>>
vars == <<disk, registry, engine, calls, flush, retention, history,
          faults, crashes>>

DayRows(S, d) == {r \in S : r.day = d}
DaysIn(S) == {r.day : r \in S}
IDsIn(S) == {r.id : r \in S}
RowsOf(r) == {[id |-> rid[r], req |-> r, day |-> d] : d \in DaysOf[r]}
EmptyMap == [i \in SeriesIDs |-> NoLabels]
Known(map) == {i \in SeriesIDs : map[i] # NoLabels}

\* A file system operation of kind k returns an error.
Fault(k) ==
  /\ k \in FaultKinds
  /\ faults < MaxFaults
  /\ faults' = faults + 1

Init ==
  /\ fwd = EmptyMap /\ invDisk = {} /\ partDirs = {} /\ durable = {}
  /\ nextID = 1 /\ byKey = [L \in LabelSets |-> 0] /\ names = EmptyMap
  /\ pending = {} /\ inverted = {} /\ persisted = {}
  /\ proc = "up" /\ mem = {} /\ opened = {} /\ live = {}
  /\ st = [r \in Requests |-> "new"]
  /\ rid = [r \in Requests |-> 0]
  /\ todo = [r \in Requests |-> {}]
  /\ fpc = "idle" /\ batch = {} /\ drained = {} /\ fday = 0
  /\ rpc = "idle" /\ expired = {} /\ rday = 0
  /\ acked = {} /\ forgotten = {} /\ gone = {} /\ lostRecords = {}
  /\ faults = 0 /\ crashes = 0

-----------------------------------------------------------------------------
(* Append: Resolve under two different locks, one IndexForDay per day, then *)
(* the buffer.  Every other goroutine may run between any two of them.      *)

\* The call r goes on with SeriesID i.
Resolved(r, i) ==
  /\ st' = [st EXCEPT ![r] = "index"]
  /\ rid' = [rid EXCEPT ![r] = i]
  /\ todo' = [todo EXCEPT ![r] = DaysOf[r]]

\* Seeded bug: Resolve trusts the lookup without its ok result.
ResolveReadUnchecked(r) ==
  /\ proc = "up" /\ st[r] = "new"
  /\ Resolved(r, byKey[LabelsOf[r]])
  /\ UNCHANGED <<disk, registry, engine, flush, retention, history, faults, crashes>>

\* Resolve, first half: look the key up under the read lock.
ResolveRead(r) ==
  /\ proc = "up" /\ st[r] = "new"
  /\ \/ /\ byKey[LabelsOf[r]] # 0
        /\ Resolved(r, byKey[LabelsOf[r]])
     \/ /\ byKey[LabelsOf[r]] = 0
        /\ st' = [st EXCEPT ![r] = "miss"]
        /\ UNCHANGED <<rid, todo>>
  /\ UNCHANGED <<disk, registry, engine, flush, retention, history, faults, crashes>>

\* Seeded bug: Resolve does not look again under the write lock.
ResolveWriteNoRecheck(r) ==
  /\ proc = "up" /\ st[r] = "miss" /\ nextID \in SeriesIDs
  /\ nextID' = nextID + 1
  /\ byKey' = [byKey EXCEPT ![LabelsOf[r]] = nextID]
  /\ names' = [names EXCEPT ![nextID] = LabelsOf[r]]
  /\ pending' = pending \cup {nextID}
  /\ Resolved(r, nextID)
  /\ UNCHANGED <<inverted, persisted>>
  /\ UNCHANGED <<disk, engine, flush, retention, history, faults, crashes>>

\* Resolve, second half: look again under the write lock, else register.
ResolveWrite(r) ==
  /\ proc = "up" /\ st[r] = "miss"
  /\ \/ /\ byKey[LabelsOf[r]] # 0
        /\ Resolved(r, byKey[LabelsOf[r]])
        /\ UNCHANGED registry
     \/ /\ byKey[LabelsOf[r]] = 0
        /\ nextID \in SeriesIDs
        /\ nextID' = nextID + 1
        /\ byKey' = [byKey EXCEPT ![LabelsOf[r]] = nextID]
        /\ names' = [names EXCEPT ![nextID] = LabelsOf[r]]
        /\ pending' = pending \cup {nextID}
        /\ Resolved(r, nextID)
        /\ UNCHANGED <<inverted, persisted>>
  /\ UNCHANGED <<disk, engine, flush, retention, history, faults, crashes>>

IndexForDay(r, d) ==
  /\ proc = "up" /\ st[r] = "index" /\ d \in todo[r]
  /\ inverted' = inverted \cup {<<d, rid[r]>>}
  /\ todo' = [todo EXCEPT ![r] = @ \ {d}]
  /\ UNCHANGED <<nextID, byKey, names, pending, persisted, st, rid>>
  /\ UNCHANGED <<disk, engine, flush, retention, history, faults, crashes>>

\* The samples enter the buffer and Append returns.
AppendMem(r) ==
  /\ proc = "up" /\ st[r] = "index" /\ todo[r] = {}
  /\ mem' = mem \cup RowsOf(r)
  /\ acked' = acked \cup RowsOf(r)
  /\ st' = [st EXCEPT ![r] = "done"]
  /\ UNCHANGED <<proc, opened, live, rid, todo, forgotten, gone, lostRecords>>
  /\ UNCHANGED <<disk, registry, flush, retention, faults, crashes>>

-----------------------------------------------------------------------------
(* Flush, under flushMu from the swap to its return.                        *)

\* Seeded bug: Flush copies the buffer and forgets to replace it.
FlushSwapKeepsBuffer ==
  /\ proc = "up" /\ fpc = "idle" /\ rpc = "idle"
  /\ batch' = mem
  /\ fpc' = "drain"
  /\ UNCHANGED <<engine, drained, fday>>
  /\ UNCHANGED <<disk, registry, calls, retention, history, faults, crashes>>

FlushSwap ==
  /\ proc = "up" /\ fpc = "idle" /\ rpc = "idle"
  /\ batch' = mem
  /\ mem' = {}
  /\ fpc' = "drain"
  /\ UNCHANGED <<proc, opened, live, drained, fday>>
  /\ UNCHANGED <<disk, registry, calls, retention, history, faults, crashes>>

DrainPending ==
  /\ proc = "up" /\ fpc = "drain"
  /\ drained' = pending
  /\ pending' = {}
  /\ fpc' = "save"
  /\ UNCHANGED <<nextID, byKey, names, inverted, persisted, batch, fday>>
  /\ UNCHANGED <<disk, engine, calls, retention, history, faults, crashes>>

\* The forward segments after appendIndexSegment (temporary file, sync,
\* rename) has added one with the labels of ids.
AppendSegment(ids) == [i \in SeriesIDs |-> IF i \in ids THEN names[i] ELSE fwd[i]]

\* Seeded bug: Flush returns after the registry segment, data unwritten.
SaveRegistryOnly ==
  /\ proc = "up" /\ fpc = "save"
  /\ fwd' = AppendSegment(drained)
  /\ drained' = {}
  /\ fpc' = "idle"
  /\ UNCHANGED <<invDisk, partDirs, durable, batch, fday>>
  /\ UNCHANGED <<registry, engine, calls, retention, history, faults, crashes>>

\* saveRegistrySegment appends the drained entries as one segment.
SaveRegistry ==
  /\ proc = "up" /\ fpc = "save"
  /\ fwd' = AppendSegment(drained)
  /\ drained' = {}
  /\ fpc' = IF batch = {} THEN "idle" ELSE "days"
  /\ UNCHANGED <<invDisk, partDirs, durable, batch, fday>>
  /\ UNCHANGED <<registry, engine, calls, retention, history, faults, crashes>>

\* Seeded bug: the error path of saveRegistrySegment omits TrackPending.
SaveRegistryFailsUntracked ==
  /\ proc = "up" /\ fpc = "save" /\ drained # {}
  /\ Fault("registry")
  /\ mem' = mem \cup batch
  /\ drained' = {} /\ batch' = {} /\ fpc' = "idle"
  /\ UNCHANGED <<registry, proc, opened, live, fday>>
  /\ UNCHANGED <<disk, calls, retention, history, crashes>>

\* Seeded bug: the same path omits restoreMem.
SaveRegistryFailsUnrestored ==
  /\ proc = "up" /\ fpc = "save" /\ drained # {}
  /\ Fault("registry")
  /\ pending' = pending \cup drained
  /\ drained' = {} /\ batch' = {} /\ fpc' = "idle"
  /\ UNCHANGED <<nextID, byKey, names, inverted, persisted, engine, fday>>
  /\ UNCHANGED <<disk, calls, retention, history, crashes>>

\* ... or fails: TrackPending and restoreMem give everything back.
SaveRegistryFails ==
  /\ proc = "up" /\ fpc = "save" /\ drained # {}
  /\ Fault("registry")
  /\ pending' = pending \cup drained
  /\ mem' = mem \cup batch
  /\ drained' = {} /\ batch' = {} /\ fpc' = "idle"
  /\ UNCHANGED <<nextID, byKey, names, inverted, persisted, proc, opened, live, fday>>
  /\ UNCHANGED <<disk, calls, retention, history, crashes>>

\* Records of the day's series that its inverted index lacks on disk.
NewIndexRecords(d) == ({d} \X IDsIn(DayRows(batch, d))) \ persisted

\* persistDayIndex for the next day of the batch (byDay is a Go map: any).
PersistDayIndex(d) ==
  /\ proc = "up" /\ fpc = "days" /\ d \in DaysIn(batch)
  /\ invDisk' = invDisk \cup NewIndexRecords(d)
  /\ persisted' = persisted \cup NewIndexRecords(d)
  /\ fday' = d
  /\ fpc' = "open"
  /\ gone' = gone \ {d}
  /\ lostRecords' = lostRecords \ NewIndexRecords(d)
  /\ UNCHANGED <<fwd, partDirs, durable, nextID, byKey, names, pending, inverted>>
  /\ UNCHANGED <<batch, drained, acked, forgotten>>
  /\ UNCHANGED <<engine, calls, retention, faults, crashes>>

\* The error return of Flush while it works on day d: restoreMem(data) puts
\* back the samples of that day, and Flush returns.
FlushAborts(d) ==
  /\ mem' = mem \cup DayRows(batch, d)
  /\ batch' = {}
  /\ fpc' = "idle"
  /\ UNCHANGED <<drained, fday, proc, opened>>

PersistDayIndexFails(d) ==
  /\ proc = "up" /\ fpc = "days" /\ d \in DaysIn(batch)
  /\ NewIndexRecords(d) # {}
  /\ Fault("index")
  /\ FlushAborts(d)
  /\ UNCHANGED live
  /\ UNCHANGED <<disk, registry, calls, retention, history, crashes>>

\* getPartition: the opened partition, else openPartition reads its manifest.
GetPartition ==
  /\ proc = "up" /\ fpc = "open"
  /\ partDirs' = partDirs \cup {fday}
  /\ opened' = opened \cup {fday}
  /\ live' = IF fday \in opened THEN live ELSE live \cup DayRows(durable, fday)
  /\ fpc' = "add"
  /\ UNCHANGED <<fwd, invDisk, durable, proc, mem, batch, drained, fday>>
  /\ UNCHANGED <<registry, calls, retention, history, faults, crashes>>

\* openPartition fails, before or after it made the directory.
GetPartitionFails ==
  /\ proc = "up" /\ fpc = "open" /\ fday \notin opened
  /\ Fault("open")
  /\ partDirs' \in {partDirs, partDirs \cup {fday}}
  /\ FlushAborts(fday)
  /\ UNCHANGED <<live, fwd, invDisk, durable>>
  /\ UNCHANGED <<registry, calls, retention, history, crashes>>

\* Seeded bug: the manifest lists the new parts only.
ManifestOfNewParts(d, parts) ==
  (durable \ DayRows(durable, d)) \cup (DayRows(parts, d) \ durable)

\* What the manifest of day d lists once it is saved from p.parts = parts.
ManifestSaved(d, parts) == (durable \ DayRows(durable, d)) \cup DayRows(parts, d)

\* Seeded bug: addPart returns before it saves the manifest.
AddPartUnsaved ==
  /\ proc = "up" /\ fpc = "add"
  /\ live' = live \cup DayRows(batch, fday)
  /\ batch' = batch \ DayRows(batch, fday)
  /\ fpc' = IF batch' = {} THEN "idle" ELSE "days"
  /\ UNCHANGED <<disk, proc, mem, opened, drained, fday>>
  /\ UNCHANGED <<registry, calls, retention, history, faults, crashes>>

\* addPart publishes the part, lists it in p.parts and saves the manifest.
AddPart ==
  /\ proc = "up" /\ fpc = "add"
  /\ live' = live \cup DayRows(batch, fday)
  /\ durable' = ManifestSaved(fday, live')
  /\ batch' = batch \ DayRows(batch, fday)
  /\ fpc' = IF batch' = {} THEN "idle" ELSE "days"
  /\ UNCHANGED <<fwd, invDisk, partDirs, proc, mem, opened, drained, fday>>
  /\ UNCHANGED <<registry, calls, retention, history, faults, crashes>>

\* addPart fails before the part is in place.
AddPartFails ==
  /\ proc = "up" /\ fpc = "add"
  /\ Fault("write")
  /\ FlushAborts(fday)
  /\ UNCHANGED live
  /\ UNCHANGED <<disk, registry, calls, retention, history, crashes>>

\* addPart fails to save the manifest: p.parts already lists the part.
AddPartManifestFails ==
  /\ proc = "up" /\ fpc = "add"
  /\ Fault("manifest")
  /\ FlushAborts(fday)
  /\ live' = live \cup DayRows(batch, fday)
  /\ UNCHANGED <<disk, registry, calls, retention, history, crashes>>

\* A merge (maybeCompact or ForceMerge) rewrites parts and saves p.parts as
\* the manifest: the rows stay what they are (module Partition), but rows
\* that only p.parts listed become durable.
ForceMerge(d) ==
  /\ proc = "up" /\ rpc = "idle" /\ d \in opened
  /\ durable' = ManifestSaved(d, live)
  /\ UNCHANGED <<fwd, invDisk, partDirs>>
  /\ UNCHANGED <<registry, engine, calls, flush, retention, history, faults, crashes>>

-----------------------------------------------------------------------------
(* ApplyRetention, under flushMu and compactMu.                             *)

ApplyRetention(cutoff) ==
  /\ proc = "up" /\ fpc = "idle" /\ rpc = "idle"
  /\ expired' = {d \in opened : d < cutoff}
  /\ expired' # {}
  /\ rpc' = "drop"
  /\ UNCHANGED rday
  /\ UNCHANGED <<disk, registry, engine, calls, flush, history, faults, crashes>>

\* dropped = true hides the partition; os.RemoveAll has deleted some of it.
DropPartition(d) ==
  /\ proc = "up" /\ rpc = "drop" /\ d \in expired
  /\ rday' = d
  /\ opened' = opened \ {d}
  /\ live' = live \ DayRows(live, d)
  /\ \E removed \in SUBSET DayRows(durable, d) : durable' = durable \ removed
  /\ acked' = acked \ DayRows(live, d)
  /\ rpc' = "remove"
  /\ UNCHANGED <<fwd, invDisk, partDirs, proc, mem, expired>>
  /\ UNCHANGED <<forgotten, gone, lostRecords>>
  /\ UNCHANGED <<registry, calls, flush, faults, crashes>>

RemoveAllDone ==
  /\ proc = "up" /\ rpc = "remove"
  /\ durable' = durable \ DayRows(durable, rday)
  /\ partDirs' = partDirs \ {rday}
  /\ gone' = gone \cup {rday}
  /\ rpc' = "index"
  /\ UNCHANGED <<fwd, invDisk, expired, rday, acked, forgotten, lostRecords>>
  /\ UNCHANGED <<registry, engine, calls, flush, faults, crashes>>

\* An error of os.RemoveAll ends the pass; the rest of the day stays on disk.
RetentionAborts ==
  /\ rpc' = "idle"
  /\ expired' = {}
  /\ UNCHANGED <<rday, registry, engine, calls, flush, acked, forgotten, gone, crashes>>

RemoveAllFails ==
  /\ proc = "up" /\ rpc = "remove"
  /\ Fault("dropdata")
  /\ RetentionAborts
  /\ UNCHANGED <<disk, lostRecords>>

DayIndex(index, d) == {e \in index : e[1] = d}

DropInverted ==
  /\ proc = "up" /\ rpc = "index"
  /\ invDisk' = invDisk \ DayIndex(invDisk, rday)
  /\ lostRecords' = lostRecords \ DayIndex(lostRecords, rday)
  /\ rpc' = "forget"
  /\ UNCHANGED <<fwd, partDirs, durable, expired, rday, acked, forgotten, gone>>
  /\ UNCHANGED <<registry, engine, calls, flush, faults, crashes>>

DropInvertedFails ==
  /\ proc = "up" /\ rpc = "index"
  /\ Fault("dropindex")
  /\ \E removed \in SUBSET DayIndex(invDisk, rday) :
       /\ invDisk' = invDisk \ removed
       /\ lostRecords' = lostRecords \cup removed
  /\ RetentionAborts
  /\ UNCHANGED <<fwd, partDirs, durable>>

\* Seeded bug: DropDay keeps the day's persisted marks.
DropDayKeepsPersisted ==
  /\ proc = "up" /\ rpc = "forget"
  /\ inverted' = inverted \ DayIndex(inverted, rday)
  /\ forgotten' = forgotten \cup {rday}
  /\ expired' = expired \ {rday}
  /\ rpc' = IF expired' = {} THEN "idle" ELSE "drop"
  /\ UNCHANGED <<nextID, byKey, names, pending, persisted, rday, acked, gone, lostRecords>>
  /\ UNCHANGED <<disk, engine, calls, flush, faults, crashes>>

DropDay ==
  /\ proc = "up" /\ rpc = "forget"
  /\ inverted' = inverted \ DayIndex(inverted, rday)
  /\ persisted' = persisted \ DayIndex(persisted, rday)
  /\ forgotten' = forgotten \cup {rday}
  /\ expired' = expired \ {rday}
  /\ rpc' = IF expired' = {} THEN "idle" ELSE "drop"
  /\ UNCHANGED <<nextID, byKey, names, pending, rday, acked, gone, lostRecords>>
  /\ UNCHANGED <<disk, engine, calls, flush, faults, crashes>>

-----------------------------------------------------------------------------
(* kill -9 and Open.                                                        *)

\* The process ends: all memory is lost, calls that were not answered too.
LoseMemory ==
  /\ proc' = "down" /\ mem' = {} /\ opened' = {} /\ live' = {}
  /\ nextID' = 1 /\ byKey' = [L \in LabelSets |-> 0] /\ names' = EmptyMap
  /\ pending' = {} /\ inverted' = {} /\ persisted' = {}
  /\ st' = [r \in Requests |-> IF st[r] = "done" THEN "done" ELSE "new"]
  /\ rid' = [r \in Requests |-> 0]
  /\ todo' = [r \in Requests |-> {}]
  /\ fpc' = "idle" /\ batch' = {} /\ drained' = {} /\ fday' = 0
  /\ rpc' = "idle" /\ expired' = {} /\ rday' = 0
  /\ acked' = acked \cap durable
  /\ forgotten' = {}
  /\ UNCHANGED <<disk, gone, lostRecords, faults>>

Crash ==
  /\ proc = "up" /\ crashes < MaxCrashes
  /\ crashes' = crashes + 1
  /\ LoseMemory

\* LoadEntries: the canonical index of the replayed records.
ByKey(map) == [L \in LabelSets |-> IF \E i \in SeriesIDs : map[i] = L
                                  THEN CHOOSE i \in SeriesIDs : map[i] = L ELSE 0]

\* Seeded bug: a replay that leaves nextID at its initial value.
LoadRegistryKeepsNextID ==
  /\ names' = fwd
  /\ byKey' = ByKey(fwd)
  /\ nextID' = 1
  /\ pending' = {}

\* loadRegistry replays the forward segments; IDs go on past the largest.
LoadRegistry ==
  /\ names' = fwd
  /\ byKey' = ByKey(fwd)
  /\ \E n \in 1..(MaxSeries + 1) :
       /\ \A i \in Known(fwd) : i < n
       /\ n = 1 \/ n - 1 \in Known(fwd)
       /\ nextID' = n
  /\ pending' = {}

\* Seeded bug: the replay of the inverted segments only marks them persisted.
LoadInvertedUnindexed == inverted' = {} /\ persisted' = invDisk

\* loadInverted: every record is visible, and known to be on disk.
LoadInverted == inverted' = invDisk /\ persisted' = invDisk

\* loadPartitions opens every day directory, with the parts of its manifest.
LoadPartitions == opened' = partDirs /\ live' = durable

\* Open, before any goroutine runs.
Open ==
  /\ proc = "down"
  /\ LoadRegistry
  /\ LoadInverted
  /\ LoadPartitions
  /\ proc' = "up"
  /\ UNCHANGED mem
  /\ UNCHANGED <<disk, calls, flush, retention, history, faults, crashes>>

-----------------------------------------------------------------------------
AppendStep ==
  \E r \in Requests :
    \/ ResolveRead(r)
    \/ ResolveWrite(r)
    \/ \E d \in Days : IndexForDay(r, d)
    \/ AppendMem(r)

FlushStep ==
  \/ DrainPending
  \/ SaveRegistry \/ SaveRegistryFails
  \/ \E d \in Days : PersistDayIndex(d) \/ PersistDayIndexFails(d)
  \/ GetPartition \/ GetPartitionFails
  \/ AddPart \/ AddPartFails \/ AddPartManifestFails

RetentionStep ==
  \/ \E d \in Days : DropPartition(d)
  \/ RemoveAllDone \/ RemoveAllFails
  \/ DropInverted \/ DropInvertedFails
  \/ DropDay

Next ==
  \/ AppendStep
  \/ FlushSwap \/ FlushStep
  \/ \E d \in Days : ForceMerge(d)
  \/ \E c \in Cutoffs : ApplyRetention(c)
  \/ RetentionStep
  \/ Crash \/ Open

Spec == Init /\ [][Next]_vars

-----------------------------------------------------------------------------
(* Properties.                                                              *)

\* Type invariant: every variable holds a value the code can give it.
TypeOK ==
  /\ fwd \in LabelMap /\ names \in LabelMap
  /\ invDisk \subseteq Days \X SeriesIDs
  /\ inverted \subseteq Days \X SeriesIDs
  /\ persisted \subseteq Days \X SeriesIDs
  /\ lostRecords \subseteq Days \X SeriesIDs
  /\ nextID \in 1..(MaxSeries + 1)
  /\ byKey \in [LabelSets -> SeriesIDs \cup {0}]
  /\ pending \subseteq SeriesIDs /\ drained \subseteq SeriesIDs
  /\ proc \in {"up", "down"}
  /\ partDirs \subseteq Days /\ opened \subseteq Days /\ expired \subseteq Days
  /\ mem \subseteq Rows /\ batch \subseteq Rows
  /\ live \subseteq Rows /\ durable \subseteq Rows /\ acked \subseteq Rows
  /\ st \in [Requests -> {"new", "miss", "index", "done"}]
  /\ rid \in [Requests -> SeriesIDs \cup {0}]
  /\ todo \in [Requests -> SUBSET Days]
  /\ fpc \in {"idle", "drain", "save", "days", "open", "add"}
  /\ fday \in Days \cup {0}
  /\ rpc \in {"idle", "drop", "remove", "index", "forget"}
  /\ rday \in Days \cup {0}
  /\ forgotten \subseteq Days /\ gone \subseteq Days
  /\ faults \in 0..MaxFaults /\ crashes \in 0..MaxCrashes

\* "A crash never leaves a part pointing at a SeriesID the registry has never
\* heard of" (storage.go, Flush), nor at one it knows under other labels: at
\* every instant the forward segments on disk name every series that a
\* manifested part or an inverted record on disk refers to, as the labels the
\* client sent.
KnownSeries ==
  /\ \A row \in durable : fwd[row.id] = LabelsOf[row.req]
  /\ \A e \in invDisk : fwd[e[2]] # NoLabels

\* Flush persists a day's index before its data, because "data without a
\* persisted index entry would become invisible after a restart" (Flush): at
\* every instant each manifested row has its inverted record on disk.  The
\* code breaks this in one way only, excepted here: a DropInverted that fails
\* has deleted records which are still marked persisted.
IndexBeforeData == \A row \in durable : <<row.day, row.id>> \in invDisk \cup lostRecords

\* "The same label set always yields the same ID; collisions are impossible"
\* (Resolve): byKey and names are inverse to each other, and every row in the
\* buffer, in a flush or in a part is filed under the ID of its own labels,
\* whichever calls raced to register them and whatever was replayed.
SeriesIdentity ==
  proc = "up" =>
    /\ \A L \in LabelSets : byKey[L] # 0 => names[byKey[L]] = L
    /\ \A i \in Known(names) : byKey[names[i]] = i
    /\ \A row \in mem \cup batch \cup live : names[row.id] = LabelsOf[row.req]

\* "A series' identity never expires" (README): no step, restart or retry
\* gives a persisted SeriesID other labels.
IdentityIsForever ==
  [][\A i \in Known(fwd) : fwd'[i] = fwd[i]]_vars

\* "On error, unflushed samples ... are returned so the next flush retries
\* them" (Flush): an acknowledged row that neither expired nor was lost to a
\* crash is in the buffer, in the running flush or in a live part.
NothingLost ==
  proc = "up" => acked \subseteq mem \cup batch \cup live

\* A row is in one tier at a time, so that QueryRange, which merges the parts
\* and the buffer, returns it once.
NoDuplicate == (mem \cup batch) \cap live = {}

\* Append indexes before it buffers and Open rebuilds the index: every row
\* of a running engine can be found by label, as long as no retention pass
\* has dropped its day since the engine was opened and no failed DropInverted
\* has taken its record from the disk Open reads.
Findable ==
  proc = "up" =>
    \A row \in mem \cup batch \cup live :
      row.day \notin forgotten => <<row.day, row.id>> \in inverted \cup lostRecords

\* "A series is findable by label exactly for the days whose data still
\* exists" (Registry): as Findable, for the rows of live parts, whatever
\* retention has dropped before.
FindableWhileDataExists ==
  proc = "up" => \A row \in live : <<row.day, row.id>> \in inverted

\* "Days already dropped by retention are simply absent, so expired series
\* stay forgotten across a restart" (loadInverted): no index record outlives
\* the data of a day that retention has deleted.
ExpiredDaysForgotten ==
  proc = "up" /\ rpc = "idle" => \A e \in invDisk : e[1] \notin gone

\* The flush ticker makes every acknowledged row durable, unless a crash or
\* retention takes it first, whatever errors earlier flushes met.
EventuallyDurable ==
  \A row \in Rows : row \in acked ~> (row \in durable \/ row \notin acked)

\* What the write path promises to clients (module DurableStore).
Abstract == INSTANCE DurableStore WITH buffered <- mem \cup batch, stored <- durable
RefinesDurableStore == Abstract!Spec
====
