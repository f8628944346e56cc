----------------------------- MODULE Partition -----------------------------
(***************************************************************************)
(* One day partition on disk: numbered part directories, staging           *)
(* directories and manifest.json, used by Flush (addPart), by merges       *)
(* (maybeCompact and ForceMerge), by ApplyRetention and by queries.        *)
(*                                                                         *)
(* A partition object is the *partition that openPartition returned; the   *)
(* engine opens a new one for the same directory after a retention drop,   *)
(* while callers may still hold the old pointer.  Locks appear as guards:  *)
(* Flush holds flushMu while fpc # "idle", a merge compactMu while mpc #   *)
(* "idle", retention takes one after the other; p.mu is CanLock below.     *)
(*                                                                         *)
(* A list of part names, p.parts or the one in manifest.json, may name a   *)
(* part more than once: it is a bag.  Its order matters to nobody.         *)
(***************************************************************************)
EXTENDS Naturals, FiniteSets

CONSTANTS
  Readers,      \* concurrent queries
  Threshold,    \* SmallPartsMergeThreshold
  MaxParts,     \* bound on part numbers
  MaxOpens,     \* bound on partition objects of one process
  MaxFlushes,   \* bound on addPart calls
  MaxForces,    \* bound on ForceMerge calls
  MaxDrops,     \* bound on passes of ApplyRetention
  FaultKinds,   \* the file system operations that may return an error
  MaxFaults,    \* bound on such errors
  MaxCrashes    \* bound on kill -9

ASSUME PartitionAssumption ==
  /\ Threshold \in Nat \ {0}
  /\ MaxParts \in Nat /\ MaxOpens \in Nat \ {0} /\ MaxFlushes \in Nat
  /\ MaxForces \in Nat /\ MaxDrops \in Nat
  /\ MaxFaults \in Nat /\ MaxCrashes \in Nat

PartIDs == 1..MaxParts
Objects == 1..MaxOpens
Batches == 1..MaxFlushes

\* How often a list names each part.
Lists == [PartIDs -> Nat]
NoParts == [n \in PartIDs |-> 0]
Listed(list) == {n \in PartIDs : list[n] > 0}
Plus(list, n) == [list EXCEPT ![n] = @ + 1]
Minus(list, n) == [list EXCEPT ![n] = @ - 1]
Without(list, S) == [n \in PartIDs |-> IF n \in S THEN 0 ELSE list[n]]
Length(list) == Cardinality(UNION {{n} \X (1..list[n]) : n \in PartIDs})

VARIABLES
  \* On disk.  content[n] is what part n holds, {} if there is no such part,
  \* and again[n] the rows of it that part n holds more than once.
  pdir, content, again, big, staged, manifest,
  \* History: whether a drop was ever cut short.
  torn,
  \* Partition objects; cur is the one in s.partitions, 0 if there is none.
  parts, nextID, dropped, opens, cur,
  \* Flush: its partition, part number and rows (a fresh batch per addPart).
  fpc, fobj, fid, fbatch,
  \* The merge that holds compactMu, and on whose behalf.
  mpc, mby, mobj, mid, mnames, mrows, mtwice,
  \* ForceMerge: the pointer it copied under pmu.
  gpc, gobj,
  \* ApplyRetention: the locks it has taken.
  rpc,
  \* Queries: partition pointer, parts left to read, rows read; the history
  \* of rows read twice and rows acknowledged when the scan began.
  rd,
  \* History: batches whose addPart returned nil and that did not expire.
  acked,
  \* Budget of the environment.
  proc, flushes, forces, drops, faults, crashes

disk == <<pdir, content, again, big, staged, manifest, torn>>
objects == <<parts, nextID, dropped, opens, cur>>
flusher == <<fpc, fobj, fid, fbatch>>
merger == <<mpc, mby, mobj, mid, mnames, mrows, mtwice>>
forcer == <<gpc, gobj>>
bounds == <<flushes, forces, drops, faults, crashes>>
vars == <<disk, objects, flusher, merger, forcer, rpc, rd, acked, proc, bounds>>

dirs == {n \in PartIDs : content[n] # {}}
NoFiles == [n \in PartIDs |-> {}]

\* The rows that a walk over a list reads, and those it reads more than once.
RowsIn(list) == UNION {content[n] : n \in Listed(list)}
RowsTwice(list) ==
  {b \in Batches : \E n \in Listed(list) :
     /\ b \in content[n]
     /\ \/ list[n] > 1
        \/ b \in again[n]
        \/ \E m \in Listed(list) : m # n /\ b \in content[m]}

\* Seeded bug: numbering continues from the manifest, over orphan directories.
FreshIDByManifest(n) ==
  (\A m \in Listed(manifest) : m < n) /\ (n = 1 \/ n - 1 \in Listed(manifest))

\* The part number after every one that has a directory; the manifest is not
\* asked.
FreshID(n) == (\A m \in dirs : m < n) /\ (n = 1 \/ n - 1 \in dirs)

\* p.mu of object p: the swap of a merge and a drop hold it for writing over
\* several steps, a query holds it for reading during its scan.
WriteLocked(p) ==
  \/ mpc \in {"save", "delete"} /\ mobj = p
  \/ rpc = "remove" /\ cur = p
CanLock(p) == ~WriteLocked(p) /\ \A q \in Readers : ~(rd[q].pc = "read" /\ rd[q].obj = p)

\* Seeded bug: retention takes compactMu before flushMu.
FirstLockSwapped == "compactMu"

\* "Lock ordering: flushMu, compactMu, p.mu" (ApplyRetention).
FirstLock == "flushMu"
SecondLock == CHOOSE l \in {"flushMu", "compactMu"} : l # FirstLock

\* Seeded bug: retention does not take flushMu.
RetentionHoldsCompactMu(l) == l = "compactMu" /\ rpc \in {"locked", "remove"}

RetentionHolds(l) == rpc \in {"locked", "remove"} \/ (rpc = "first" /\ l = FirstLock)

LockFree(l) ==
  /\ ~RetentionHolds(l)
  /\ IF l = "flushMu" THEN fpc = "idle" ELSE mpc = "idle"

Fault(k) ==
  /\ k \in FaultKinds
  /\ faults < MaxFaults
  /\ faults' = faults + 1
  /\ UNCHANGED <<flushes, forces, drops, crashes>>

IdleReader ==
  [pc |-> "idle", obj |-> 0, left |-> NoParts, got |-> {}, twice |-> {}, need |-> {}]

Init ==
  /\ pdir = "absent" /\ content = NoFiles /\ again = NoFiles /\ big = {}
  /\ staged = NoFiles /\ manifest = NoParts /\ torn = "no"
  /\ parts = [p \in Objects |-> NoParts] /\ nextID = [p \in Objects |-> 1]
  /\ dropped = [p \in Objects |-> "no"] /\ opens = 0 /\ cur = 0
  /\ fpc = "idle" /\ fobj = 0 /\ fid = 0 /\ fbatch = 0
  /\ mpc = "idle" /\ mby = "none" /\ mobj = 0 /\ mid = 0
  /\ mnames = NoParts /\ mrows = {} /\ mtwice = {}
  /\ gpc = "idle" /\ gobj = 0
  /\ rpc = "idle"
  /\ rd = [q \in Readers |-> IdleReader]
  /\ acked = {}
  /\ proc = "up"
  /\ flushes = 0 /\ forces = 0 /\ drops = 0 /\ faults = 0 /\ crashes = 0

-----------------------------------------------------------------------------
(* Flush of one day: getPartition, addPart, maybeCompact.                   *)

\* Seeded bug: getPartition does not store the object it opened.
OpenPartitionUnstored(p) ==
  /\ pdir' = "present"
  /\ staged' = NoFiles
  /\ opens' = p
  /\ UNCHANGED <<content, again, big, manifest, torn, parts, nextID, dropped, cur>>

\* openPartition as object p: stale staging directories are removed, p.parts
\* is what manifest.json lists, and p.nextID comes from the directories.
OpenPartition(p) ==
  /\ pdir' = "present"
  /\ staged' = NoFiles
  /\ opens' = p /\ cur' = p
  /\ parts' = [parts EXCEPT ![p] = manifest]
  /\ \E n \in 1..(MaxParts + 1) : FreshID(n) /\ nextID' = [nextID EXCEPT ![p] = n]
  /\ UNCHANGED <<content, again, big, manifest, torn, dropped>>

GetPartition ==
  /\ proc = "up" /\ LockFree("flushMu") /\ flushes < MaxFlushes
  /\ \/ cur # 0 /\ UNCHANGED <<disk, objects>>
     \/ cur = 0 /\ opens < MaxOpens /\ OpenPartition(opens + 1)
  /\ flushes' = flushes + 1
  /\ fbatch' = flushes + 1
  /\ fobj' = cur'
  /\ fpc' = "reserve"
  /\ UNCHANGED <<fid, merger, forcer, rpc, rd, acked, proc, forces, drops, faults, crashes>>

\* addPart refuses a dropped partition (never, by FlushTargetIsCurrent), else
\* takes the next part number, under p.mu.
AddPartReserve ==
  /\ proc = "up" /\ fpc = "reserve" /\ CanLock(fobj)
  /\ nextID[fobj] \in PartIDs
  /\ IF dropped[fobj] = "yes"
     THEN fpc' = "idle" /\ UNCHANGED <<fid, nextID>>
     ELSE /\ fid' = nextID[fobj]
          /\ nextID' = [nextID EXCEPT ![fobj] = @ + 1]
          /\ fpc' = "write"
  /\ UNCHANGED <<disk, parts, dropped, opens, cur, fobj, fbatch>>
  /\ UNCHANGED <<merger, forcer, rpc, rd, acked, proc, bounds>>

\* writePart into the staging directory, without a lock.
AddPartWrite ==
  /\ proc = "up" /\ fpc = "write"
  /\ staged' = [staged EXCEPT ![fid] = {fbatch}]
  /\ fpc' = "rename"
  /\ UNCHANGED <<pdir, content, again, big, manifest, torn, fobj, fid, fbatch>>
  /\ UNCHANGED <<objects, merger, forcer, rpc, rd, acked, proc, bounds>>

AddPartWriteFails ==
  /\ proc = "up" /\ fpc = "write"
  /\ Fault("write")
  /\ fpc' = "idle"
  /\ UNCHANGED <<disk, objects, fobj, fid, fbatch>>
  /\ UNCHANGED <<merger, forcer, rpc, rd, acked, proc>>

\* os.Rename of staging directory n: fails if the target exists or the
\* staging directory is gone, and the staging directory is then removed.
RenameWorks(n) == content[n] = {} /\ staged[n] # {}
Rename(n, tier, repeated) ==
  /\ staged' = [staged EXCEPT ![n] = {}]
  /\ content' = [content EXCEPT ![n] = IF RenameWorks(n) THEN staged[n] ELSE @]
  /\ again' = [again EXCEPT ![n] = IF RenameWorks(n) THEN repeated ELSE @]
  /\ big' = IF RenameWorks(n) /\ tier = "big" THEN big \cup {n} ELSE big
  /\ UNCHANGED <<pdir, manifest, torn>>

AddPartRename ==
  /\ proc = "up" /\ fpc = "rename"
  /\ Rename(fid, "small", {})
  /\ fpc' = IF RenameWorks(fid) THEN "publish" ELSE "idle"
  /\ UNCHANGED <<objects, fobj, fid, fbatch>>
  /\ UNCHANGED <<merger, forcer, rpc, rd, acked, proc, bounds>>

\* Seeded bug: the manifest is saved from a copy made before the append.
AddPartPublishStale ==
  /\ proc = "up" /\ fpc = "publish" /\ CanLock(fobj)
  /\ parts' = [parts EXCEPT ![fobj] = Plus(@, fid)]
  /\ manifest' = parts[fobj]
  /\ acked' = acked \cup {fbatch}
  /\ fpc' = "compact"
  /\ UNCHANGED <<pdir, content, again, big, staged, torn>>
  /\ UNCHANGED <<nextID, dropped, opens, cur, fobj, fid, fbatch>>
  /\ UNCHANGED <<merger, forcer, rpc, rd, proc, bounds>>

\* The part is appended to p.parts, whether or not it is listed there, and
\* the manifest is saved, under p.mu.
AddPartPublish ==
  /\ proc = "up" /\ fpc = "publish" /\ CanLock(fobj)
  /\ parts' = [parts EXCEPT ![fobj] = Plus(@, fid)]
  /\ manifest' = parts'[fobj]
  /\ acked' = acked \cup {fbatch}
  /\ fpc' = "compact"
  /\ UNCHANGED <<pdir, content, again, big, staged, torn>>
  /\ UNCHANGED <<nextID, dropped, opens, cur, fobj, fid, fbatch>>
  /\ UNCHANGED <<merger, forcer, rpc, rd, proc, bounds>>

AddPartPublishFails ==
  /\ proc = "up" /\ fpc = "publish" /\ CanLock(fobj)
  /\ Fault("manifest")
  /\ parts' = [parts EXCEPT ![fobj] = Plus(@, fid)]
  /\ fpc' = "idle"
  /\ UNCHANGED <<disk, nextID, dropped, opens, cur, fobj, fid, fbatch>>
  /\ UNCHANGED <<merger, forcer, rpc, rd, acked, proc>>

-----------------------------------------------------------------------------
(* Merges: compactPartition, for Flush and for ForceMerge.                  *)

SmallParts(p) == Without(parts[p], big)

\* The merge, or the call that found nothing to merge, returns to its caller.
Returns(by) ==
  /\ fpc' = IF by = "flush" THEN "idle" ELSE fpc
  /\ gpc' = IF by = "force" THEN "idle" ELSE gpc
  /\ UNCHANGED <<fobj, fid, fbatch, gobj>>

\* Seeded bug: compactMu stays locked when there is too little to merge.
CompactPartitionKeepsLock(by, p, min) ==
  /\ proc = "up" /\ LockFree("compactMu")
  /\ Length(SmallParts(p)) < min
  /\ mpc' = "held"
  /\ Returns(by)
  /\ UNCHANGED <<mby, mobj, mid, mnames, mrows, mtwice>>
  /\ UNCHANGED <<disk, objects, rpc, rd, acked, proc, bounds>>

\* smallParts reads the meta.json of every part of p: an error if one is
\* gone, nothing to do if fewer than min are small.
CompactPartition(by, p, min) ==
  /\ proc = "up" /\ LockFree("compactMu")
  /\ IF Listed(parts[p]) \subseteq dirs /\ Length(SmallParts(p)) >= min
     THEN /\ mpc' = "read" /\ mby' = by /\ mobj' = p /\ mnames' = SmallParts(p)
          /\ fpc' = IF by = "flush" THEN "merging" ELSE fpc
          /\ gpc' = IF by = "force" THEN "merging" ELSE gpc
          /\ UNCHANGED <<mid, mrows, mtwice, fobj, fid, fbatch, gobj>>
     ELSE /\ Returns(by)
          /\ UNCHANGED merger
  /\ UNCHANGED <<disk, objects, rpc, rd, acked, proc, bounds>>

MaybeCompact == fpc = "compact" /\ CompactPartition("flush", fobj, Threshold)

\* ForceMerge copies the partition pointers under pmu ...
ForceMerge ==
  /\ proc = "up" /\ gpc = "idle" /\ cur # 0 /\ forces < MaxForces
  /\ forces' = forces + 1
  /\ gpc' = "ready" /\ gobj' = cur
  /\ UNCHANGED <<flushes, drops, faults, crashes>>
  /\ UNCHANGED <<disk, objects, flusher, merger, rpc, rd, acked, proc>>

\* ... and comes to this partition whenever compactMu is free.
ForceCompact == gpc = "ready" /\ CompactPartition("force", gobj, 2)

MergeDone ==
  /\ mpc' = "idle" /\ mby' = "none" /\ mobj' = 0 /\ mid' = 0
  /\ mnames' = NoParts /\ mrows' = {} /\ mtwice' = {}
  /\ Returns(mby)

\* readPartAll of every name in the list (parts are immutable, no lock), then
\* the next number.
MergeRead ==
  /\ proc = "up" /\ mpc = "read" /\ CanLock(mobj)
  /\ nextID[mobj] \in PartIDs
  /\ IF Listed(mnames) \subseteq dirs
     THEN /\ mrows' = RowsIn(mnames) /\ mtwice' = RowsTwice(mnames)
          /\ mid' = nextID[mobj]
          /\ nextID' = [nextID EXCEPT ![mobj] = @ + 1]
          /\ mpc' = "write"
          /\ UNCHANGED <<mby, mobj, mnames, flusher, forcer>>
     ELSE /\ MergeDone
          /\ UNCHANGED nextID
  /\ UNCHANGED <<disk, parts, dropped, opens, cur, rpc, rd, acked, proc, bounds>>

MergeWrite ==
  /\ proc = "up" /\ mpc = "write"
  /\ staged' = [staged EXCEPT ![mid] = mrows]
  /\ mpc' = "rename"
  /\ UNCHANGED <<pdir, content, again, big, manifest, torn>>
  /\ UNCHANGED <<mby, mobj, mid, mnames, mrows, mtwice>>
  /\ UNCHANGED <<objects, flusher, forcer, rpc, rd, acked, proc, bounds>>

MergeWriteFails ==
  /\ proc = "up" /\ mpc = "write"
  /\ Fault("write")
  /\ MergeDone
  /\ UNCHANGED <<disk, objects, rpc, rd, acked, proc>>

\* Seeded bug: the swap does not take p.mu.
MergeRenameUnlocked ==
  /\ proc = "up" /\ mpc = "rename"
  /\ Rename(mid, "big", mtwice)
  /\ IF RenameWorks(mid)
     THEN /\ mpc' = "save"
          /\ UNCHANGED <<mby, mobj, mid, mnames, mrows, mtwice, flusher, forcer>>
     ELSE MergeDone
  /\ UNCHANGED <<objects, rpc, rd, acked, proc, bounds>>

\* The swap takes p.mu and keeps it until the merged directories are gone.
MergeRename ==
  /\ proc = "up" /\ mpc = "rename" /\ CanLock(mobj)
  /\ Rename(mid, "big", mtwice)
  /\ IF RenameWorks(mid)
     THEN /\ mpc' = "save"
          /\ UNCHANGED <<mby, mobj, mid, mnames, mrows, mtwice, flusher, forcer>>
     ELSE MergeDone
  /\ UNCHANGED <<objects, rpc, rd, acked, proc, bounds>>

\* Seeded bug: the swap keeps the big parts it saw and the new one, and
\* drops a part that Flush has added since.
MergeSaveLosesNewParts ==
  /\ proc = "up" /\ mpc = "save"
  /\ manifest' = Plus(Without(parts[mobj], PartIDs \ big), mid)
  /\ parts' = [parts EXCEPT ![mobj] = manifest']
  /\ mpc' = "delete"
  /\ UNCHANGED <<pdir, content, again, big, staged, torn, nextID, dropped, opens, cur>>
  /\ UNCHANGED <<mby, mobj, mid, mnames, mrows, mtwice>>
  /\ UNCHANGED <<flusher, forcer, rpc, rd, acked, proc, bounds>>

MergeSave ==
  /\ proc = "up" /\ mpc = "save"
  /\ manifest' = Plus(Without(parts[mobj], Listed(mnames)), mid)
  /\ parts' = [parts EXCEPT ![mobj] = manifest']
  /\ mpc' = "delete"
  /\ UNCHANGED <<pdir, content, again, big, staged, torn, nextID, dropped, opens, cur>>
  /\ UNCHANGED <<mby, mobj, mid, mnames, mrows, mtwice>>
  /\ UNCHANGED <<flusher, forcer, rpc, rd, acked, proc, bounds>>

MergeSaveFails ==
  /\ proc = "up" /\ mpc = "save"
  /\ Fault("manifest")
  /\ MergeDone
  /\ UNCHANGED <<disk, objects, rpc, rd, acked, proc>>

\* os.RemoveAll of one part directory.
Remove(n) ==
  /\ content' = [content EXCEPT ![n] = {}]
  /\ again' = [again EXCEPT ![n] = {}]
  /\ big' = big \ {n}

MergeDelete(n) ==
  /\ proc = "up" /\ mpc = "delete" /\ n \in Listed(mnames)
  /\ Remove(n)
  /\ IF Minus(mnames, n) = NoParts
     THEN MergeDone
     ELSE /\ mnames' = Minus(mnames, n)
          /\ UNCHANGED <<mpc, mby, mobj, mid, mrows, mtwice, flusher, forcer>>
  /\ UNCHANGED <<pdir, staged, manifest, torn, objects, rpc, rd, acked, proc, bounds>>

-----------------------------------------------------------------------------
(* ApplyRetention, as far as it concerns this day.                          *)

\* A pass begins with one lock ...
ApplyRetention ==
  /\ proc = "up" /\ rpc = "idle" /\ LockFree(FirstLock) /\ drops < MaxDrops
  /\ drops' = drops + 1
  /\ rpc' = "first"
  /\ UNCHANGED <<flushes, forces, faults, crashes>>
  /\ UNCHANGED <<disk, objects, flusher, merger, forcer, rd, acked, proc>>

\* ... keeps it while it waits for the other, and ends at once if the day has
\* no partition or is not before the cutoff.
RetentionLocks ==
  /\ proc = "up" /\ rpc = "first" /\ LockFree(SecondLock)
  /\ rpc' = "idle" \/ (cur # 0 /\ rpc' = "locked")
  /\ UNCHANGED <<disk, objects, flusher, merger, forcer, rd, acked, proc, bounds>>

\* Seeded bug: retention does not mark the partition dropped.
DropStartUnmarked ==
  /\ proc = "up" /\ rpc = "locked" /\ CanLock(cur)
  /\ acked' = {}
  /\ rpc' = "remove"
  /\ UNCHANGED <<disk, objects, flusher, merger, forcer, rd, proc, bounds>>

\* p.mu.Lock and p.dropped = true, with both locks held.
DropStart ==
  /\ proc = "up" /\ rpc = "locked" /\ CanLock(cur)
  /\ dropped' = [dropped EXCEPT ![cur] = "yes"]
  /\ acked' = {}
  /\ rpc' = "remove"
  /\ UNCHANGED <<parts, nextID, opens, cur>>
  /\ UNCHANGED <<disk, flusher, merger, forcer, rd, proc, bounds>>

\* os.RemoveAll(p.dir) deletes in the order of the directory, which is any.
DropRemoves(n) ==
  /\ proc = "up" /\ rpc = "remove" /\ n \in dirs
  /\ Remove(n)
  /\ UNCHANGED <<pdir, staged, manifest, torn>>
  /\ UNCHANGED <<objects, flusher, merger, forcer, rpc, rd, acked, proc, bounds>>

DropRemovesManifest ==
  /\ proc = "up" /\ rpc = "remove" /\ manifest # NoParts
  /\ manifest' = NoParts
  /\ UNCHANGED <<pdir, content, again, big, staged, torn>>
  /\ UNCHANGED <<objects, flusher, merger, forcer, rpc, rd, acked, proc, bounds>>

\* The object leaves s.partitions, whether or not RemoveAll succeeded.
DropDone ==
  /\ proc = "up" /\ rpc = "remove"
  /\ cur' = 0
  /\ rpc' = "idle"
  /\ \/ /\ dirs = {} /\ manifest = NoParts
        /\ pdir' = "absent"
        /\ UNCHANGED <<torn, bounds>>
     \/ Fault("drop") /\ torn' = "yes" /\ UNCHANGED pdir
  /\ UNCHANGED <<content, again, big, staged, manifest, parts, nextID, dropped, opens>>
  /\ UNCHANGED <<flusher, merger, forcer, rd, acked, proc>>

-----------------------------------------------------------------------------
(* Queries: the loop of QueryRange over this partition.                     *)

\* partitionsInRange copies the pointer, if there is one, under pmu.
QueryStart(q) ==
  /\ proc = "up" /\ rd[q].pc = "idle"
  /\ rd' = [rd EXCEPT ![q].pc = IF cur = 0 THEN "done" ELSE "ready",
                      ![q].obj = cur, ![q].need = acked]
  /\ UNCHANGED <<disk, objects, flusher, merger, forcer, rpc, acked, proc, bounds>>

\* p.mu.RLock, and skip a dropped partition.
QueryLock(q) ==
  /\ proc = "up" /\ rd[q].pc = "ready" /\ ~WriteLocked(rd[q].obj)
  /\ IF dropped[rd[q].obj] = "yes"
     THEN rd' = [rd EXCEPT ![q] = IdleReader]
     ELSE rd' = [rd EXCEPT ![q].pc = "read", ![q].left = parts[rd[q].obj], ![q].need = acked]
  /\ UNCHANGED <<disk, objects, flusher, merger, forcer, rpc, acked, proc, bounds>>

\* readPart of the next name in the list; an error ends the query and unlocks.
QueryPart(q, n) ==
  /\ proc = "up" /\ rd[q].pc = "read" /\ n \in Listed(rd[q].left)
  /\ IF n \in dirs
     THEN rd' = [rd EXCEPT ![q].left = Minus(@, n), ![q].got = @ \cup content[n],
                           ![q].twice = @ \cup again[n] \cup (rd[q].got \cap content[n])]
     ELSE rd' = [rd EXCEPT ![q].pc = "error"]
  /\ UNCHANGED <<disk, objects, flusher, merger, forcer, rpc, acked, proc, bounds>>

QueryUnlock(q) ==
  /\ proc = "up" /\ rd[q].pc = "read" /\ rd[q].left = NoParts
  /\ rd' = [rd EXCEPT ![q].pc = "done"]
  /\ UNCHANGED <<disk, objects, flusher, merger, forcer, rpc, acked, proc, bounds>>

QueryReturn(q) ==
  /\ proc = "up" /\ rd[q].pc \in {"done", "error"}
  /\ rd' = [rd EXCEPT ![q] = IdleReader]
  /\ UNCHANGED <<disk, objects, flusher, merger, forcer, rpc, acked, proc, bounds>>

-----------------------------------------------------------------------------
(* kill -9 and loadPartitions.                                              *)

Crash ==
  /\ proc = "up" /\ crashes < MaxCrashes
  /\ crashes' = crashes + 1
  /\ proc' = "down"
  /\ torn' = IF rpc = "remove" THEN "yes" ELSE torn
  /\ parts' = [p \in Objects |-> NoParts] /\ nextID' = [p \in Objects |-> 1]
  /\ dropped' = [p \in Objects |-> "no"] /\ opens' = 0 /\ cur' = 0
  /\ fpc' = "idle" /\ fobj' = 0 /\ fid' = 0 /\ fbatch' = 0
  /\ mpc' = "idle" /\ mby' = "none" /\ mobj' = 0 /\ mid' = 0
  /\ mnames' = NoParts /\ mrows' = {} /\ mtwice' = {}
  /\ gpc' = "idle" /\ gobj' = 0
  /\ rpc' = "idle"
  /\ rd' = [q \in Readers |-> IdleReader]
  /\ UNCHANGED <<pdir, content, again, big, staged, manifest>>
  /\ UNCHANGED <<acked, flushes, forces, drops, faults>>

Open ==
  /\ proc = "down"
  /\ proc' = "up"
  /\ \/ pdir = "present" /\ OpenPartition(1)
     \/ pdir = "absent" /\ UNCHANGED <<disk, objects>>
  /\ UNCHANGED <<flusher, merger, forcer, rpc, rd, acked, bounds>>

-----------------------------------------------------------------------------
FlushStep ==
  \/ AddPartReserve
  \/ AddPartWrite \/ AddPartWriteFails
  \/ AddPartRename
  \/ AddPartPublish \/ AddPartPublishFails
  \/ MaybeCompact

MergeStep ==
  \/ MergeRead
  \/ MergeWrite \/ MergeWriteFails
  \/ MergeRename
  \/ MergeSave \/ MergeSaveFails
  \/ \E n \in PartIDs : MergeDelete(n)

RetentionStep == RetentionLocks \/ DropStart

DropStep ==
  \/ \E n \in PartIDs : DropRemoves(n)
  \/ DropRemovesManifest
  \/ DropDone

QueryStep(q) ==
  \/ QueryLock(q)
  \/ \E n \in PartIDs : QueryPart(q, n)
  \/ QueryUnlock(q)
  \/ QueryReturn(q)

Next ==
  \/ GetPartition \/ FlushStep
  \/ ForceMerge \/ ForceCompact
  \/ MergeStep
  \/ ApplyRetention \/ RetentionStep \/ DropStep
  \/ \E q \in Readers : QueryStart(q) \/ QueryStep(q)
  \/ Crash \/ Open

Spec == Init /\ [][Next]_vars

\* Goroutines run, and Go's locks are starvation free: a waiting Lock keeps
\* new readers out, so whoever waits for p.mu or compactMu gets it in the end
\* if it is released again and again.
Fairness ==
  /\ SF_vars(FlushStep)
  /\ SF_vars(ForceCompact)
  /\ SF_vars(MergeStep)
  /\ SF_vars(RetentionStep)
  /\ WF_vars(DropStep)
  /\ \A q \in Readers : SF_vars(QueryStep(q))

FairSpec == Spec /\ Fairness

-----------------------------------------------------------------------------
(* Properties.                                                              *)

\* The types of the groups of variables.
DiskTypes ==
  /\ pdir \in {"absent", "present"}
  /\ content \in [PartIDs -> SUBSET Batches]
  /\ again \in [PartIDs -> SUBSET Batches]
  /\ staged \in [PartIDs -> SUBSET Batches]
  /\ big \subseteq PartIDs /\ manifest \in Lists
  /\ torn \in {"no", "yes"}

ObjectTypes ==
  /\ parts \in [Objects -> Lists]
  /\ nextID \in [Objects -> 1..(MaxParts + 1)]
  /\ dropped \in [Objects -> {"no", "yes"}]
  /\ opens \in 0..MaxOpens /\ cur \in 0..opens

FlushTypes ==
  /\ fpc \in {"idle", "reserve", "write", "rename", "publish", "compact", "merging"}
  /\ fobj \in 0..opens /\ (fpc # "idle" => fobj # 0)
  /\ fid \in PartIDs \cup {0} /\ fbatch \in Batches \cup {0}

MergeTypes ==
  /\ mpc \in {"idle", "read", "write", "rename", "save", "delete"}
  /\ mby \in {"none", "flush", "force"}
  /\ mobj \in 0..opens /\ (mpc # "idle" => mobj # 0)
  /\ mid \in PartIDs \cup {0}
  /\ mnames \in Lists /\ mrows \subseteq Batches /\ mtwice \subseteq Batches
  /\ gpc \in {"idle", "ready", "merging"}
  /\ gobj \in 0..opens /\ (gpc # "idle" => gobj # 0)

ReaderTypes ==
  rd \in [Readers -> [pc : {"idle", "ready", "read", "done", "error"},
                      obj : 0..opens, left : Lists, got : SUBSET Batches,
                      twice : SUBSET Batches, need : SUBSET Batches]]

BoundTypes ==
  /\ rpc \in {"idle", "first", "locked", "remove"} /\ proc \in {"up", "down"}
  /\ acked \subseteq Batches
  /\ flushes \in 0..MaxFlushes /\ forces \in 0..MaxForces /\ drops \in 0..MaxDrops
  /\ faults \in 0..MaxFaults /\ crashes \in 0..MaxCrashes

\* Type invariant: every variable holds a value the code can give it, and no
\* running flush or merge has a nil partition.
TypeOK ==
  DiskTypes /\ ObjectTypes /\ FlushTypes /\ MergeTypes /\ ReaderTypes /\ BoundTypes

\* A query "always sees either the old small parts or the new big part,
\* never a mix, never a deleted file" (mergeParts), first half: a finished
\* scan has every row that was acknowledged when it began, and unless a drop
\* was ever cut short, no row twice.
ScanExact ==
  \A q \in Readers : rd[q].pc = "done" =>
    /\ rd[q].need \subseteq rd[q].got
    /\ torn = "no" => rd[q].twice = {}

\* ... and second half: no query meets a part whose directory is deleted.
NeverADeletedFile == \A q \in Readers : rd[q].pc # "error"

\* Retention marks a partition dropped under p.mu before it deletes, and
\* "queries arriving afterwards see dropped=true and skip" (ApplyRetention):
\* as NeverADeletedFile, unless a drop was cut short.
QueriesSurviveDrops == torn = "no" => NeverADeletedFile

\* The manifest is saved after the directory of a new part is in place and
\* before the directories of merged parts go: whenever the process is
\* killed, each acknowledged batch is in a part that manifest.json lists and,
\* unless a drop was ever cut short, a walk over that list reads it once.
DurableOnce ==
  /\ acked \subseteq RowsIn(manifest)
  /\ torn = "no" => acked \cap RowsTwice(manifest) = {}

\* Flush and a merge number their parts from p.nextID under p.mu, and
\* openPartition goes past every directory, orphans included: a rename into
\* place never finds its target occupied, and no two writers share one.
PublishNeverCollides ==
  /\ fpc = "rename" => RenameWorks(fid)
  /\ mpc = "rename" => RenameWorks(mid)
  /\ fpc \in {"write", "rename"} /\ mpc \in {"write", "rename"} => fid # mid

\* "IDs continue past the maximum existing part, never reuse" (the test of
\* openPartition): a new part gets no number that manifest.json lists already,
\* so that no part is listed twice.
PartIDsNeverReused == \A n \in PartIDs : manifest[n] <= 1

\* ApplyRetention holds flushMu while it drops, so addPart never works on a
\* partition that is being dropped or that the engine has replaced.
FlushTargetIsCurrent ==
  fpc # "idle" => fobj = cur /\ dropped[fobj] = "no"

\* No deadlock between flushMu, compactMu and p.mu: every flush returns,
\* however queries, merges and passes of retention, which take the three one
\* after the other, interleave with it.
FlushTerminates == fpc # "idle" ~> fpc = "idle"

\* The partition does what Storage takes it to do (module DayParts): merges
\* change nothing that a query or a restart sees, counting copies, and a flush
\* adds its rows once unless a drop was cut short.
Visible == IF cur = 0 \/ (cur # 0 /\ dropped[cur] = "yes") THEN NoParts ELSE parts[cur]
Copies(rows, twice) == [b \in Batches |-> IF b \in twice THEN 2 ELSE IF b \in rows THEN 1 ELSE 0]
Live == Copies(RowsIn(Visible), RowsTwice(Visible))
Durable == Copies(RowsIn(manifest), RowsTwice(manifest))
Abstract == INSTANCE DayParts WITH live <- Live, durable <- Durable
RefinesDayParts == Abstract!Spec
====
