-------------------------- MODULE PartitionProofs --------------------------
(***************************************************************************)
(* Theorems about one day partition (module Partition), for any readers,   *)
(* threshold and bounds: types, which partition object everyone works on,  *)
(* the numbering of the parts, the rows that they hold, what manifest.json *)
(* lists, what a scan returns, and that the partition implements DayParts. *)
(* All of it holds for any interleaving of flushes, merges, queries,       *)
(* errors and crashes, with drops or with forced merges.                   *)
(***************************************************************************)
EXTENDS Partition, FiniteSetTheorems, TLAPS

\* ForceMerge keeps the partition it copied while retention may drop it: a
\* merge of a dropped partition breaks most of what follows (run
\* partition_stale).  Without forced merges, or without drops, none exists.
NoStaleMerge == MaxForces = 0 \/ MaxDrops = 0

-----------------------------------------------------------------------------
(* The inductive invariants.                                                *)

\* A flush has a batch, a reserved part has a number, a query a partition;
\* a process that is down has nothing.
FlushBusy ==
  /\ fpc # "idle" => fbatch \in Batches
  /\ fpc \in {"write", "rename", "publish"} => fid \in PartIDs
MergeBusy == mpc \in {"write", "rename", "save", "delete"} => mid \in PartIDs
ReadersBusy == \A q \in Readers : rd[q].pc \in {"ready", "read"} => rd[q].obj # 0
DownIsIdle ==
  proc = "down" => opens = 0 /\ fpc = "idle" /\ mpc = "idle" /\ gpc = "idle" /\ rpc = "idle"

TypeInv == TypeOK /\ FlushBusy /\ MergeBusy /\ ReadersBusy /\ DownIsIdle

\* A flush or a forced merge waits for the merge it started.
MergeHasOwner ==
  /\ mpc # "idle" => \/ mby = "flush" /\ fpc = "merging" /\ mobj = fobj
                     \/ mby = "force" /\ gpc = "merging" /\ mobj = gobj
  /\ fpc = "merging" => mpc # "idle" /\ mby = "flush"

\* A pass of retention keeps flushes out once it has flushMu, and merges once
\* it has compactMu too.
DropAlone ==
  /\ rpc # "idle" => fpc = "idle"
  /\ rpc \in {"locked", "remove"} => cur # 0 /\ mpc = "idle"

\* The object in s.partitions is the only one that is not dropped, and it is
\* dropped as soon as retention has taken its lock.
OneLiveObject ==
  /\ \A p \in 1..opens : p # cur => dropped[p] = "yes"
  /\ cur # 0 => (dropped[cur] = "yes" <=> rpc = "remove")
  /\ \A p \in Objects : p > opens => dropped[p] = "no"

\* A scan holds p.mu for reading: of the live object, and nobody writes.
ScanLocked ==
  \A q \in Readers : rd[q].pc = "read" =>
    rd[q].obj = cur /\ dropped[rd[q].obj] = "no" /\ ~WriteLocked(rd[q].obj)

\* Until the first drop, ForceMerge holds the live object.
ForceTarget ==
  /\ drops = 0 => rpc = "idle" /\ (gpc # "idle" => gobj = cur)
  /\ gpc # "idle" => forces > 0

HandleInv ==
  /\ FlushTargetIsCurrent
  /\ MergeHasOwner
  /\ DropAlone
  /\ OneLiveObject
  /\ ScanLocked
  /\ ForceTarget

\* Every directory has a number that p.nextID is past.
NumbersPast ==
  /\ cur # 0 => \A n \in PartIDs : content[n] # {} => n < nextID[cur]
  /\ fpc \in {"write", "rename", "publish"} => fid < nextID[cur]
  /\ mpc \in {"write", "rename", "save"} => mid < nextID[cur]
  /\ mpc # "idle" => \A n \in Listed(mnames) : n < nextID[cur]

\* The number of a part that is not in place yet is taken by nobody else,
\* and its staging directory holds what was written.
NumbersFree ==
  /\ fpc \in {"write", "rename"} => content[fid] = {}
  /\ fpc = "rename" => staged[fid] = {fbatch}
  /\ mpc \in {"write", "rename"} => content[mid] = {}
  /\ mpc = "rename" => staged[mid] = mrows
  /\ mpc # "idle" => Listed(mnames) # {}
  /\ mpc \in {"write", "rename", "save"} => mrows # {}
  /\ fpc \in {"write", "rename", "publish"} /\ mpc \in {"write", "rename", "save"} => fid # mid

NumberInv == NumbersPast /\ NumbersFree

-----------------------------------------------------------------------------
(* Lists of parts.                                                          *)

\* What appending, removing and filtering do to the parts that a list names.
LEMMA EmptyList == NoParts \in Lists /\ Listed(NoParts) = {}
BY DEF NoParts, Lists, Listed

LEMMA ListedParts ==
  ASSUME NEW l \in Lists
  PROVE  Listed(l) \subseteq PartIDs
BY DEF Listed

LEMMA PlusList ==
  ASSUME NEW l \in Lists, NEW n \in PartIDs
  PROVE  /\ Plus(l, n) \in Lists
         /\ Listed(Plus(l, n)) = Listed(l) \cup {n}
         /\ \A m \in PartIDs : Plus(l, n)[m] = IF m = n THEN l[n] + 1 ELSE l[m]
BY DEF Plus, Lists, Listed

LEMMA MinusList ==
  ASSUME NEW l \in Lists, NEW n \in Listed(l)
  PROVE  /\ Minus(l, n) \in Lists
         /\ Listed(Minus(l, n)) \subseteq Listed(l)
         /\ Listed(l) \subseteq Listed(Minus(l, n)) \cup {n}
         /\ \A m \in PartIDs : Minus(l, n)[m] = IF m = n THEN l[n] - 1 ELSE l[m]
         /\ Minus(l, n) # NoParts => Listed(Minus(l, n)) # {}
<1>1. n \in PartIDs /\ l[n] \in Nat /\ l[n] > 0
  BY DEF Listed, Lists
<1>2. Minus(l, n) \in Lists
  BY <1>1 DEF Minus, Lists
<1>3. \A m \in PartIDs : Minus(l, n)[m] = IF m = n THEN l[n] - 1 ELSE l[m]
  BY <1>1 DEF Minus, Lists
<1>4. /\ Listed(Minus(l, n)) \subseteq Listed(l)
      /\ Listed(l) \subseteq Listed(Minus(l, n)) \cup {n}
  BY <1>1, <1>3 DEF Listed
<1>5. ASSUME Listed(Minus(l, n)) = {} PROVE Minus(l, n) = NoParts
  <2> DEFINE f == Minus(l, n)
  <2>1. f \in [PartIDs -> Nat] /\ \A m \in PartIDs : ~(f[m] > 0)
    BY <1>2, <1>5 DEF Lists, Listed
  <2> HIDE DEF f
  <2>2. \A m \in PartIDs : f[m] = 0
    BY <2>1
  <2>3. f = [m \in PartIDs |-> 0]
    BY <2>1, <2>2
  <2> QED
    BY <2>3 DEF f, NoParts
<1> QED
  BY <1>2, <1>3, <1>4, <1>5

LEMMA WithoutList ==
  ASSUME NEW l \in Lists, NEW S
  PROVE  /\ Without(l, S) \in Lists
         /\ Listed(Without(l, S)) = Listed(l) \ S
         /\ \A m \in PartIDs : Without(l, S)[m] = IF m \in S THEN 0 ELSE l[m]
BY DEF Without, Lists, Listed

\* A list of positive length names a part.
LEMMA LongList ==
  ASSUME NEW l \in Lists, Listed(l) = {}
  PROVE  Length(l) = 0
<1>1. \A n \in PartIDs : l[n] = 0
  BY DEF Lists, Listed
<1>2. \A n \in PartIDs : {n} \X (1..l[n]) = {}
  BY <1>1
<1>3. UNION {{n} \X (1..l[n]) : n \in PartIDs} = {}
  BY <1>2
<1> QED
  BY <1>3, FS_EmptySet DEF Length

\* RowsIn and RowsTwice, of directories that hold c and, repeated, a.
Rows(c, list) == UNION {c[n] : n \in Listed(list)}
Twice(c, a, list) ==
  {b \in Batches : \E n \in Listed(list) :
     /\ b \in c[n]
     /\ \/ list[n] > 1
        \/ b \in a[n]
        \/ \E m \in Listed(list) : m # n /\ b \in c[m]}

\* Parts that are untouched hold the same rows.
LEMMA SameRows ==
  ASSUME NEW l, NEW c, NEW d, NEW a, NEW e, \A n \in Listed(l) : c[n] = d[n] /\ a[n] = e[n]
  PROVE  Rows(c, l) = Rows(d, l) /\ Twice(c, a, l) = Twice(d, e, l)
BY DEF Rows, Twice

\* A list in which one part stands for those that it was merged from: every
\* row is read as often as before.
LEMMA MergedRows ==
  ASSUME NEW c, NEW a, NEW l \in Lists, NEW names \in Lists, NEW target \in PartIDs \ Listed(l),
         \A n \in Listed(names) : names[n] = l[n],
         c[target] = Rows(c, names), a[target] = Twice(c, a, names)
  PROVE  LET after == Plus(Without(l, Listed(names)), target)
         IN  Rows(c, after) = Rows(c, l) /\ Twice(c, a, after) = Twice(c, a, l)
<1> DEFINE rest == Without(l, Listed(names))
           after == Plus(rest, target)
<1>1. /\ rest \in Lists /\ Listed(rest) = Listed(l) \ Listed(names)
      /\ \A n \in PartIDs : rest[n] = IF n \in Listed(names) THEN 0 ELSE l[n]
  BY WithoutList
<1>2. /\ Listed(after) = Listed(rest) \cup {target}
      /\ \A n \in PartIDs : after[n] = IF n = target THEN rest[target] + 1 ELSE rest[n]
  BY <1>1, PlusList
<1>3. Listed(names) \subseteq Listed(l) /\ Listed(l) \subseteq PartIDs /\ target \notin Listed(names)
  BY DEF Listed
<1>4. l[target] = 0 /\ \A n \in PartIDs : l[n] \in Nat
  BY DEF Listed, Lists
<1>5. after[target] = 1 /\ \A n \in Listed(l) \ Listed(names) : n # target /\ after[n] = l[n]
  BY <1>1, <1>2, <1>3, <1>4
<1>6. Listed(after) = (Listed(l) \ Listed(names)) \cup {target}
  BY <1>1, <1>2
<1> HIDE DEF after, rest
<1>7. Rows(c, after) = Rows(c, l)
  BY <1>3, <1>6 DEF Rows
<1>8. ASSUME NEW b \in Batches
      PROVE  b \in Twice(c, a, after) <=> b \in Twice(c, a, l)
  <2> DEFINE N == Listed(names)
             L == Listed(l)
             A == Listed(after)
             In(n) == b \in c[n]
             Rep(n) == b \in a[n]
             Dup(n) == l[n] > 1
             DupA(n) == after[n] > 1
  <2>1. In(target) <=> \E n \in N : In(n)
    BY DEF Rows
  <2>2. Rep(target) <=> \E n \in N : In(n) /\ (Dup(n) \/ Rep(n) \/ \E m \in N : m # n /\ In(m))
    BY DEF Twice
  <2>3. b \in Twice(c, a, l) <=>
          \E n \in L : In(n) /\ (Dup(n) \/ Rep(n) \/ \E m \in L : m # n /\ In(m))
    BY DEF Twice
  <2>4. b \in Twice(c, a, after) <=>
          \E n \in A : In(n) /\ (DupA(n) \/ Rep(n) \/ \E m \in A : m # n /\ In(m))
    BY DEF Twice
  <2>5. ~DupA(target) /\ \A n \in L : n \notin N => n # target /\ (DupA(n) <=> Dup(n))
    BY <1>5
  <2>6. (\A n : n \in A <=> (n \in L /\ n \notin N) \/ n = target) /\ (\A n \in N : n \in L)
    BY <1>3, <1>6
  <2> HIDE DEF N, L, A, In, Rep, Dup, DupA
  <2>7. ASSUME NEW n \in A, In(n), DupA(n) \/ Rep(n) \/ \E m \in A : m # n /\ In(m)
        PROVE  \E k \in L : In(k) /\ (Dup(k) \/ Rep(k) \/ \E m \in L : m # k /\ In(m))
    <3>1. CASE n # target
      BY <2>1, <2>5, <2>6, <2>7, <3>1, Zenon
    <3>2. CASE n = target /\ Rep(target)
      BY <2>2, <2>6, <3>2, Zenon
    <3>3. CASE n = target /\ ~Rep(target)
      <4>1. PICK m \in L : m \notin N /\ In(m)
        BY <2>5, <2>6, <2>7, <3>3, Zenon
      <4>2. PICK k \in N : In(k)
        BY <2>1, <2>7, <3>3, Zenon
      <4> QED
        BY <2>6, <4>1, <4>2, Zenon
    <3> QED
      BY <3>1, <3>2, <3>3, Zenon
  <2>8. ASSUME NEW n \in L, In(n), Dup(n) \/ Rep(n) \/ \E m \in L : m # n /\ In(m)
        PROVE  \E k \in A : In(k) /\ (DupA(k) \/ Rep(k) \/ \E m \in A : m # k /\ In(m))
    <3>1. CASE n \notin N
      BY <2>1, <2>5, <2>6, <2>8, <3>1, Zenon
    <3>2. CASE n \in N /\ Rep(target)
      BY <2>1, <2>6, <2>8, <3>2, Zenon
    <3>3. CASE n \in N /\ ~Rep(target)
      <4>1. PICK m \in L : m \notin N /\ In(m)
        BY <2>2, <2>8, <3>3, Zenon
      <4> QED
        BY <2>1, <2>5, <2>6, <2>8, <3>3, <4>1, Zenon
    <3> QED
      BY <3>1, <3>2, <3>3, Zenon
  <2> QED
    BY <2>3, <2>4, <2>7, <2>8, Zenon
<1>9. Twice(c, a, after) = Twice(c, a, l)
  BY <1>8 DEF Twice
<1> QED
  BY <1>7, <1>9 DEF after, rest

-----------------------------------------------------------------------------
(* Type correctness.                                                        *)

USE DEF disk, objects, flusher, merger, forcer, bounds

\* When Flush, a merge and retention find flushMu and compactMu free.
LEMMA FreeLocks ==
  ASSUME rpc \in {"idle", "first", "locked", "remove"}
  PROVE  /\ LockFree("flushMu") <=> fpc = "idle" /\ rpc = "idle"
         /\ LockFree("compactMu") <=> mpc = "idle" /\ rpc \in {"idle", "first"}
         /\ FirstLock = "flushMu" /\ SecondLock = "compactMu"
<1>1. FirstLock = "flushMu" /\ SecondLock = "compactMu"
  BY DEF FirstLock, SecondLock
<1> QED
  BY <1>1 DEF LockFree, RetentionHolds, FirstLock

\* A query changes nothing but its own state.
LEMMA QueriesOnlyRead ==
  ASSUME NEW q \in Readers, QueryStart(q) \/ QueryStep(q)
  PROVE  UNCHANGED <<disk, objects, flusher, merger, forcer, rpc, acked, proc, bounds>>
BY DEF QueryStart, QueryStep, QueryLock, QueryPart, QueryUnlock, QueryReturn

\* The objects that somebody works on exist.
LEMMA ObjectsExist ==
  ASSUME TypeInv
  PROVE  /\ cur # 0 => cur \in Objects
         /\ fpc # "idle" => fobj \in Objects
         /\ mpc # "idle" => mobj \in Objects
         /\ gpc # "idle" => gobj \in Objects
         /\ opens < MaxOpens => opens + 1 \in Objects
         /\ 1 \in Objects
         /\ \A q \in Readers : rd[q].pc \in {"ready", "read"} => rd[q].obj \in Objects
<1>1. opens \in Nat /\ opens <= MaxOpens /\ MaxOpens \in Nat \ {0}
  BY PartitionAssumption DEF TypeInv, TypeOK, ObjectTypes
<1>2. \A p \in 0..opens : p # 0 => p \in Objects
  BY <1>1 DEF Objects
<1>3. opens < MaxOpens => opens + 1 \in Objects
  BY <1>1 DEF Objects
<1>4. 1 \in Objects
  BY <1>1 DEF Objects
<1>5. \A q \in Readers : rd[q].obj \in 0..opens
  BY DEF TypeInv, TypeOK, ReaderTypes
<1> QED
  BY <1>2, <1>3, <1>4, <1>5
  DEF TypeInv, TypeOK, ObjectTypes, FlushTypes, MergeTypes, ReadersBusy

\* The directories hold batches, whoever wrote them.
LEMMA DiskTypesNext ==
  ASSUME TypeInv, [Next]_vars
  PROVE  DiskTypes'
<1> USE ObjectsExist DEF TypeInv, TypeOK, DiskTypes, FlushBusy, MergeBusy
<1>1. CASE GetPartition
  BY <1>1 DEF GetPartition, OpenPartition, NoFiles
<1>2. CASE AddPartWrite
  BY <1>2 DEF AddPartWrite
<1>3. CASE AddPartRename
  BY <1>3 DEF AddPartRename, Rename
<1>4. CASE AddPartPublish
  BY <1>4, PlusList DEF AddPartPublish, ObjectTypes
<1>5. CASE MergeWrite
  BY <1>5 DEF MergeWrite, MergeTypes
<1>6. CASE MergeRename
  BY <1>6 DEF MergeRename, Rename, MergeDone, Returns, MergeTypes
<1>7. CASE MergeSave
  BY <1>7, PlusList, WithoutList DEF MergeSave, MergeTypes, ObjectTypes
<1>8. ASSUME NEW n \in PartIDs, MergeDelete(n)
      PROVE  DiskTypes'
  BY <1>8 DEF MergeDelete, Remove, MergeDone, Returns
<1>9. ASSUME NEW n \in PartIDs, DropRemoves(n)
      PROVE  DiskTypes'
  BY <1>9 DEF DropRemoves, Remove
<1>10. CASE DropRemovesManifest
  BY <1>10, EmptyList DEF DropRemovesManifest
<1>11. CASE DropDone
  BY <1>11 DEF DropDone, Fault
<1>12. CASE Open
  BY <1>12 DEF Open, OpenPartition, NoFiles
<1>13. CASE AddPartReserve \/ AddPartWriteFails \/ AddPartPublishFails \/ MaybeCompact \/ ForceMerge
  BY <1>13 DEF AddPartReserve, AddPartWriteFails, Fault, AddPartPublishFails,
    MaybeCompact, CompactPartition, Returns, ForceMerge
<1>14. CASE ForceCompact \/ MergeRead \/ MergeWriteFails \/ MergeSaveFails \/ DropStart
  BY <1>14 DEF ForceCompact, CompactPartition, Returns, MergeRead, MergeDone,
    MergeWriteFails, Fault, MergeSaveFails, DropStart
<1>15. CASE Crash
  BY <1>15 DEF Crash
<1>16. ASSUME NEW q \in Readers, QueryStart(q) \/ QueryStep(q)
      PROVE  DiskTypes'
  BY <1>16, QueriesOnlyRead
<1>r. CASE ApplyRetention \/ RetentionLocks
  BY <1>r DEF ApplyRetention, RetentionLocks
<1>17. CASE UNCHANGED vars
  BY <1>17 DEF vars
<1> QED
  BY <1>1, <1>2, <1>3, <1>4, <1>5, <1>6, <1>7, <1>8, <1>9, <1>10, <1>11, <1>12,
     <1>13, <1>14, <1>15, <1>16, <1>17, <1>r
  DEF Next, FlushStep, MergeStep, RetentionStep, DropStep

\* Partition objects stay within their bounds, and p.nextID counts on.
LEMMA ObjectTypesNext ==
  ASSUME TypeInv, [Next]_vars
  PROVE  ObjectTypes'
<1> USE ObjectsExist, PartitionAssumption DEF TypeInv, TypeOK, ObjectTypes, FlushBusy, MergeBusy
<1>1. CASE GetPartition
  BY <1>1 DEF GetPartition, OpenPartition, DiskTypes
<1>2. CASE AddPartReserve
  BY <1>2 DEF AddPartReserve, PartIDs
<1>3. CASE AddPartPublish
  BY <1>3, PlusList DEF AddPartPublish
<1>4. CASE AddPartPublishFails
  BY <1>4, PlusList DEF AddPartPublishFails, Fault
<1>5. CASE MergeRead
  BY <1>5 DEF MergeRead, MergeDone, Returns, PartIDs
<1>6. CASE MergeSave
  BY <1>6, PlusList, WithoutList DEF MergeSave, MergeTypes
<1>7. CASE DropStart
  BY <1>7 DEF DropStart
<1>8. CASE DropDone
  BY <1>8 DEF DropDone, Fault
<1>9. CASE Crash
  BY <1>9, EmptyList DEF Crash
<1>10. CASE Open
  BY <1>10 DEF Open, OpenPartition, DiskTypes, DownIsIdle
<1>11. CASE AddPartWrite \/ AddPartWriteFails \/ AddPartRename \/ MaybeCompact \/ ForceMerge
  BY <1>11 DEF AddPartWrite, AddPartWriteFails, Fault, AddPartRename, Rename,
    MaybeCompact, CompactPartition, Returns, ForceMerge
<1>12. CASE ForceCompact \/ MergeWrite \/ MergeWriteFails \/ MergeRename \/ MergeSaveFails
  BY <1>12 DEF ForceCompact, CompactPartition, Returns, MergeWrite,
    MergeWriteFails, Fault, MergeDone, MergeRename, Rename, MergeSaveFails
<1>13. CASE DropRemovesManifest
  BY <1>13 DEF DropRemovesManifest
<1>14. ASSUME NEW n \in PartIDs, MergeDelete(n) \/ DropRemoves(n)
      PROVE  ObjectTypes'
  BY <1>14 DEF MergeDelete, Remove, MergeDone, Returns, DropRemoves
<1>15. ASSUME NEW q \in Readers, QueryStart(q) \/ QueryStep(q)
      PROVE  ObjectTypes'
  BY <1>15, QueriesOnlyRead
<1>r. CASE ApplyRetention \/ RetentionLocks
  BY <1>r DEF ApplyRetention, RetentionLocks
<1>16. CASE UNCHANGED vars
  BY <1>16 DEF vars
<1> QED
  BY <1>1, <1>2, <1>3, <1>4, <1>5, <1>6, <1>7, <1>8, <1>9, <1>10, <1>11, <1>12,
     <1>13, <1>14, <1>15, <1>16, <1>r
  DEF Next, FlushStep, MergeStep, RetentionStep, DropStep

\* The engine opens more and more partition objects, until it is killed.
LEMMA OpensGrow ==
  ASSUME TypeInv
  PROVE  /\ 0 \in 0..opens
         /\ GetPartition \/ Open => 0..opens \subseteq 0..opens'
BY DEF TypeInv, TypeOK, ObjectTypes, DownIsIdle, GetPartition, Open, OpenPartition

\* Flush works on an object it got, on a number it reserved.
LEMMA FlushTypesNext ==
  ASSUME TypeInv, [Next]_vars
  PROVE  FlushTypes' /\ FlushBusy'
<1> USE OpensGrow DEF TypeInv, TypeOK, FlushTypes, FlushBusy
<1>1. CASE GetPartition
  BY <1>1, ObjectTypesNext, PartitionAssumption DEF GetPartition, OpenPartition,
    ObjectTypes, BoundTypes, Batches
<1>2. CASE AddPartReserve
  BY <1>2 DEF AddPartReserve
<1>3. CASE AddPartWrite
  BY <1>3 DEF AddPartWrite
<1>4. CASE AddPartWriteFails
  BY <1>4 DEF AddPartWriteFails, Fault
<1>5. CASE AddPartRename
  BY <1>5 DEF AddPartRename, Rename
<1>6. CASE AddPartPublish
  BY <1>6 DEF AddPartPublish
<1>7. CASE AddPartPublishFails
  BY <1>7 DEF AddPartPublishFails, Fault
<1>8. CASE MaybeCompact
  BY <1>8 DEF MaybeCompact, CompactPartition, Returns
<1>9. CASE ForceCompact
  BY <1>9 DEF ForceCompact, CompactPartition, Returns
<1>10. CASE MergeRead
  BY <1>10 DEF MergeRead, MergeDone, Returns
<1>11. CASE MergeWriteFails
  BY <1>11 DEF MergeWriteFails, Fault, MergeDone, Returns
<1>12. CASE MergeRename
  BY <1>12 DEF MergeRename, Rename, MergeDone, Returns
<1>13. CASE MergeSaveFails
  BY <1>13 DEF MergeSaveFails, Fault, MergeDone, Returns
<1>14. ASSUME NEW n \in PartIDs, MergeDelete(n)
      PROVE  FlushTypes' /\ FlushBusy'
  BY <1>14 DEF MergeDelete, Remove, MergeDone, Returns
<1>15. CASE Crash
  BY <1>15 DEF Crash
<1>16. CASE Open
  BY <1>16 DEF Open, OpenPartition
<1>17. CASE ForceMerge \/ MergeWrite \/ MergeSave \/ DropStart \/ DropRemovesManifest
  BY <1>17 DEF ForceMerge, MergeWrite, MergeSave, DropStart, DropRemovesManifest
<1>18. CASE DropDone
  BY <1>18 DEF DropDone, Fault
<1>19. ASSUME NEW n \in PartIDs, DropRemoves(n)
      PROVE  FlushTypes' /\ FlushBusy'
  BY <1>19 DEF DropRemoves, Remove
<1>20. ASSUME NEW q \in Readers, QueryStart(q) \/ QueryStep(q)
      PROVE  FlushTypes' /\ FlushBusy'
  BY <1>20, QueriesOnlyRead
<1>r. CASE ApplyRetention \/ RetentionLocks
  BY <1>r DEF ApplyRetention, RetentionLocks
<1>21. CASE UNCHANGED vars
  BY <1>21 DEF vars
<1> QED
  BY <1>1, <1>2, <1>3, <1>4, <1>5, <1>6, <1>7, <1>8, <1>9, <1>10, <1>11, <1>12,
     <1>13, <1>14, <1>15, <1>16, <1>17, <1>18, <1>19, <1>20, <1>21, <1>r
  DEF Next, FlushStep, MergeStep, RetentionStep, DropStep

\* So do merges, for Flush and for ForceMerge.
LEMMA MergeTypesNext ==
  ASSUME TypeInv, [Next]_vars
  PROVE  MergeTypes' /\ MergeBusy'
<1> USE OpensGrow DEF TypeInv, TypeOK, MergeTypes, MergeBusy
<1>1. CASE GetPartition
  BY <1>1 DEF GetPartition, OpenPartition
<1>2. CASE MaybeCompact
  BY <1>2, ObjectsExist, WithoutList DEF MaybeCompact, CompactPartition, Returns,
    SmallParts, FlushTypes, ObjectTypes
<1>3. CASE ForceMerge
  BY <1>3 DEF ForceMerge, ObjectTypes
<1>4. CASE ForceCompact
  BY <1>4, ObjectsExist, WithoutList DEF ForceCompact, CompactPartition, Returns,
    SmallParts, ObjectTypes
<1>5. CASE MergeRead
  <2>1. RowsIn(mnames) \subseteq Batches /\ RowsTwice(mnames) \subseteq Batches
    BY ListedParts DEF RowsIn, RowsTwice, DiskTypes
  <2> QED
    BY <1>5, <2>1, EmptyList DEF MergeRead, MergeDone, Returns
<1>6. CASE MergeWrite
  BY <1>6 DEF MergeWrite
<1>7. CASE MergeWriteFails
  BY <1>7, EmptyList DEF MergeWriteFails, Fault, MergeDone, Returns
<1>8. CASE MergeRename
  BY <1>8, EmptyList DEF MergeRename, Rename, MergeDone, Returns
<1>9. CASE MergeSave
  BY <1>9 DEF MergeSave
<1>10. CASE MergeSaveFails
  BY <1>10, EmptyList DEF MergeSaveFails, Fault, MergeDone, Returns
<1>11. ASSUME NEW n \in PartIDs, MergeDelete(n)
      PROVE  MergeTypes' /\ MergeBusy'
  BY <1>11, EmptyList, MinusList DEF MergeDelete, Remove, MergeDone, Returns
<1>12. CASE Crash
  BY <1>12, EmptyList DEF Crash
<1>13. CASE Open
  BY <1>13 DEF Open, OpenPartition
<1>14. CASE AddPartReserve \/ AddPartWrite \/ AddPartWriteFails \/ AddPartRename \/ AddPartPublish
  BY <1>14 DEF AddPartReserve, AddPartWrite, AddPartWriteFails, Fault,
    AddPartRename, Rename, AddPartPublish
<1>15. CASE AddPartPublishFails \/ DropStart \/ DropRemovesManifest \/ DropDone
  BY <1>15 DEF AddPartPublishFails, Fault, DropStart, DropRemovesManifest,
    DropDone
<1>16. ASSUME NEW n \in PartIDs, DropRemoves(n)
      PROVE  MergeTypes' /\ MergeBusy'
  BY <1>16 DEF DropRemoves, Remove
<1>17. ASSUME NEW q \in Readers, QueryStart(q) \/ QueryStep(q)
      PROVE  MergeTypes' /\ MergeBusy'
  BY <1>17, QueriesOnlyRead
<1>r. CASE ApplyRetention \/ RetentionLocks
  BY <1>r DEF ApplyRetention, RetentionLocks
<1>18. CASE UNCHANGED vars
  BY <1>18 DEF vars
<1> QED
  BY <1>1, <1>2, <1>3, <1>4, <1>5, <1>6, <1>7, <1>8, <1>9, <1>10, <1>11, <1>12,
     <1>13, <1>14, <1>15, <1>16, <1>17, <1>18, <1>r
  DEF Next, FlushStep, MergeStep, RetentionStep, DropStep

\* Queries hold an object of this process and read parts of it.
LEMMA ReaderTypesNext ==
  ASSUME TypeInv, [Next]_vars
  PROVE  ReaderTypes' /\ ReadersBusy'
<1> USE OpensGrow DEF TypeInv, TypeOK, ReaderTypes, ReadersBusy
<1>1. ASSUME NEW q \in Readers, QueryStart(q)
      PROVE  ReaderTypes' /\ ReadersBusy'
  <2> DEFINE r == [rd[q] EXCEPT !.pc = IF cur = 0 THEN "done" ELSE "ready", !.obj = cur,
                                !.need = acked]
  <2>1. rd' = [rd EXCEPT ![q] = r] /\ opens' = opens
    BY <1>1 DEF QueryStart
  <2>2. r \in [pc : {"idle", "ready", "read", "done", "error"},
               obj : 0..opens, left : Lists, got : SUBSET Batches,
               twice : SUBSET Batches, need : SUBSET Batches]
    BY DEF ObjectTypes, BoundTypes
  <2>3. r.pc \in {"ready", "read"} => r.obj # 0
    OBVIOUS
  <2> HIDE DEF r
  <2> QED
    BY <2>1, <2>2, <2>3
<1>2. ASSUME NEW q \in Readers, QueryLock(q)
      PROVE  ReaderTypes' /\ ReadersBusy'
  BY <1>2, ObjectsExist, EmptyList DEF QueryLock, ObjectTypes, BoundTypes, IdleReader
<1>3. ASSUME NEW q \in Readers, NEW n \in PartIDs, QueryPart(q, n)
      PROVE  ReaderTypes' /\ ReadersBusy'
  <2> DEFINE r == IF n \in dirs
                  THEN [rd[q] EXCEPT !.left = Minus(@, n), !.got = @ \cup content[n],
                          !.twice = @ \cup again[n] \cup (rd[q].got \cap content[n])]
                  ELSE [rd[q] EXCEPT !.pc = "error"]
  <2>1. rd' = [rd EXCEPT ![q] = r] /\ opens' = opens
    BY <1>3 DEF QueryPart
  <2>2. Minus(rd[q].left, n) \in Lists
    BY <1>3, MinusList DEF QueryPart
  <2>3. r \in [pc : {"idle", "ready", "read", "done", "error"},
               obj : 0..opens, left : Lists, got : SUBSET Batches,
               twice : SUBSET Batches, need : SUBSET Batches]
    BY <2>2 DEF DiskTypes
  <2>4. r.pc \in {"ready", "read"} => r.obj # 0
    BY <1>3 DEF QueryPart
  <2> HIDE DEF r
  <2> QED
    BY <2>1, <2>3, <2>4
<1>4. ASSUME NEW q \in Readers, QueryUnlock(q)
      PROVE  ReaderTypes' /\ ReadersBusy'
  BY <1>4 DEF QueryUnlock
<1>5. ASSUME NEW q \in Readers, QueryReturn(q)
      PROVE  ReaderTypes' /\ ReadersBusy'
  BY <1>5, EmptyList DEF QueryReturn, IdleReader
<1>6. CASE Crash
  BY <1>6, EmptyList DEF Crash, IdleReader
<1>7. CASE GetPartition
  BY <1>7 DEF GetPartition, OpenPartition
<1>8. CASE Open
  BY <1>8 DEF Open, OpenPartition
<1>9. CASE AddPartReserve \/ AddPartWrite \/ AddPartWriteFails \/ AddPartRename \/ AddPartPublish
  BY <1>9 DEF AddPartReserve, AddPartWrite, AddPartWriteFails, Fault,
    AddPartRename, Rename, AddPartPublish
<1>10. CASE AddPartPublishFails \/ MaybeCompact \/ ForceMerge \/ ForceCompact \/ MergeRead
  BY <1>10 DEF AddPartPublishFails, Fault, MaybeCompact, CompactPartition,
    Returns, ForceMerge, ForceCompact, MergeRead, MergeDone
<1>11. CASE MergeWrite \/ MergeWriteFails \/ MergeRename \/ MergeSave \/ MergeSaveFails
  BY <1>11 DEF MergeWrite, MergeWriteFails, Fault, MergeDone, Returns,
    MergeRename, Rename, MergeSave, MergeSaveFails
<1>12. CASE DropStart \/ DropRemovesManifest \/ DropDone
  BY <1>12 DEF DropStart, DropRemovesManifest, DropDone, Fault
<1>13. ASSUME NEW n \in PartIDs, MergeDelete(n) \/ DropRemoves(n)
      PROVE  ReaderTypes' /\ ReadersBusy'
  BY <1>13 DEF MergeDelete, Remove, MergeDone, Returns, DropRemoves
<1>r. CASE ApplyRetention \/ RetentionLocks
  BY <1>r DEF ApplyRetention, RetentionLocks
<1>14. CASE UNCHANGED vars
  BY <1>14 DEF vars
<1> QED
  BY <1>1, <1>2, <1>3, <1>4, <1>5, <1>6, <1>7, <1>8, <1>9, <1>10, <1>11, <1>12,
     <1>13, <1>14, <1>r
  DEF Next, FlushStep, MergeStep, RetentionStep, DropStep, QueryStep

\* The budget of the environment is kept, and a dead process does nothing.
LEMMA BoundTypesNext ==
  ASSUME TypeInv, [Next]_vars
  PROVE  BoundTypes' /\ DownIsIdle'
<1> USE PartitionAssumption DEF TypeInv, TypeOK, BoundTypes, DownIsIdle
<1>1. CASE GetPartition
  BY <1>1 DEF GetPartition, OpenPartition
<1>2. CASE AddPartPublish
  BY <1>2 DEF AddPartPublish, FlushBusy
<1>3. CASE Open
  BY <1>3 DEF Open, OpenPartition
<1>4. CASE Crash
  BY <1>4 DEF Crash
<1>5. CASE AddPartReserve \/ AddPartWrite \/ AddPartWriteFails \/ AddPartRename \/ AddPartPublishFails
  BY <1>5 DEF AddPartReserve, AddPartWrite, AddPartWriteFails, Fault,
    AddPartRename, Rename, AddPartPublishFails
<1>6. CASE MaybeCompact \/ ForceMerge \/ ForceCompact \/ MergeRead \/ MergeWrite
  BY <1>6 DEF MaybeCompact, CompactPartition, Returns, ForceMerge, ForceCompact,
    MergeRead, MergeDone, MergeWrite
<1>7. CASE MergeWriteFails \/ MergeRename \/ MergeSave \/ MergeSaveFails \/ DropStart
  BY <1>7 DEF MergeWriteFails, Fault, MergeDone, Returns, MergeRename, Rename,
    MergeSave, MergeSaveFails, DropStart
<1>8. CASE DropRemovesManifest \/ DropDone
  BY <1>8 DEF DropRemovesManifest, DropDone, Fault
<1>9. ASSUME NEW n \in PartIDs, MergeDelete(n) \/ DropRemoves(n)
      PROVE  BoundTypes' /\ DownIsIdle'
  BY <1>9 DEF MergeDelete, Remove, MergeDone, Returns, DropRemoves
<1>10. ASSUME NEW q \in Readers, QueryStart(q) \/ QueryStep(q)
      PROVE  BoundTypes' /\ DownIsIdle'
  BY <1>10, QueriesOnlyRead
<1>r. CASE ApplyRetention \/ RetentionLocks
  BY <1>r DEF ApplyRetention, RetentionLocks
<1>11. CASE UNCHANGED vars
  BY <1>11 DEF vars
<1> QED
  BY <1>1, <1>2, <1>3, <1>4, <1>5, <1>6, <1>7, <1>8, <1>9, <1>10, <1>11, <1>r
  DEF Next, FlushStep, MergeStep, RetentionStep, DropStep

\* Type correctness of the disk, of the partition objects and of everyone who
\* works on them, with what a flush, a merge and a query have while they run.
LEMMA TypeInvariant == Spec => []TypeInv
<1>1. Init => TypeInv
  BY PartitionAssumption, EmptyList
  DEF Init, TypeInv, TypeOK, DiskTypes, ObjectTypes, FlushTypes, MergeTypes, ReaderTypes,
      BoundTypes, FlushBusy, MergeBusy, ReadersBusy, DownIsIdle, IdleReader, NoFiles
<1>2. TypeInv /\ [Next]_vars => TypeInv'
  BY DiskTypesNext, ObjectTypesNext, FlushTypesNext, MergeTypesNext, ReaderTypesNext,
     BoundTypesNext DEF TypeInv, TypeOK
<1> QED
  BY <1>1, <1>2, PTL DEF Spec

\* Every variable of the partition holds a value the code can give it, and no
\* running flush or merge has a nil partition.
THEOREM TypeCorrect == Spec => []TypeOK
BY TypeInvariant, PTL DEF TypeInv

-----------------------------------------------------------------------------
(* Who works on which partition object.                                     *)

\* The object in s.partitions changes when there is none, or in a drop.
LEMMA FlushTargetNext ==
  ASSUME TypeInv, HandleInv, [Next]_vars
  PROVE  FlushTargetIsCurrent'
<1> USE ObjectsExist DEF TypeInv, TypeOK, ObjectTypes, FlushTypes, HandleInv,
    FlushTargetIsCurrent, OneLiveObject
<1>1. CASE GetPartition
  BY <1>1, FreeLocks DEF GetPartition, OpenPartition, BoundTypes
<1>2. CASE AddPartReserve
  BY <1>2 DEF AddPartReserve
<1>3. CASE AddPartWriteFails
  BY <1>3 DEF AddPartWriteFails, Fault
<1>4. CASE AddPartPublishFails
  BY <1>4 DEF AddPartPublishFails, Fault
<1>5. CASE MaybeCompact
  BY <1>5 DEF MaybeCompact, CompactPartition, Returns
<1>6. CASE ForceCompact
  BY <1>6 DEF ForceCompact, CompactPartition, Returns
<1>7. CASE MergeRead
  BY <1>7 DEF MergeRead, MergeDone, Returns
<1>8. CASE MergeRename
  BY <1>8 DEF MergeRename, Rename, MergeDone, Returns
<1>9. ASSUME NEW n \in PartIDs, MergeDelete(n)
      PROVE  FlushTargetIsCurrent'
  BY <1>9 DEF MergeDelete, Remove, MergeDone, Returns
<1>10. CASE DropStart
  BY <1>10 DEF DropStart, DropAlone
<1>11. CASE DropDone
  BY <1>11 DEF DropDone, Fault, DropAlone
<1>12. CASE Crash
  BY <1>12 DEF Crash
<1>13. CASE Open
  BY <1>13 DEF Open, OpenPartition, DownIsIdle
<1>14. CASE AddPartWrite \/ AddPartRename \/ AddPartPublish \/ ForceMerge \/ MergeWrite
  BY <1>14 DEF AddPartWrite, AddPartRename, Rename, AddPartPublish, ForceMerge,
    MergeWrite
<1>15. CASE MergeWriteFails \/ MergeSave \/ MergeSaveFails \/ DropRemovesManifest
  BY <1>15 DEF MergeWriteFails, Fault, MergeDone, Returns, MergeSave,
    MergeSaveFails, DropRemovesManifest
<1>16. ASSUME NEW n \in PartIDs, DropRemoves(n)
      PROVE  FlushTargetIsCurrent'
  BY <1>16 DEF DropRemoves, Remove
<1>17. ASSUME NEW q \in Readers, QueryStart(q) \/ QueryStep(q)
      PROVE  FlushTargetIsCurrent'
  BY <1>17, QueriesOnlyRead
<1>r. CASE ApplyRetention \/ RetentionLocks
  BY <1>r DEF ApplyRetention, RetentionLocks
<1>18. CASE UNCHANGED vars
  BY <1>18 DEF vars
<1> QED
  BY <1>1, <1>2, <1>3, <1>4, <1>5, <1>6, <1>7, <1>8, <1>9, <1>10, <1>11, <1>12,
     <1>13, <1>14, <1>15, <1>16, <1>17, <1>18, <1>r
  DEF Next, FlushStep, MergeStep, RetentionStep, DropStep

\* Merges return to those who started them.
LEMMA OwnerNext ==
  ASSUME TypeInv, HandleInv, [Next]_vars
  PROVE  MergeHasOwner'
<1> USE DEF TypeInv, TypeOK, FlushTypes, MergeTypes, HandleInv, MergeHasOwner
<1>1. CASE GetPartition
  BY <1>1, FreeLocks DEF GetPartition, OpenPartition, BoundTypes
<1>2. CASE AddPartReserve
  BY <1>2 DEF AddPartReserve
<1>3. CASE AddPartWriteFails
  BY <1>3 DEF AddPartWriteFails, Fault
<1>4. CASE AddPartRename
  BY <1>4 DEF AddPartRename, Rename
<1>5. CASE MaybeCompact
  BY <1>5, FreeLocks DEF BoundTypes, MaybeCompact, CompactPartition, Returns
<1>6. CASE ForceMerge
  BY <1>6 DEF ForceMerge
<1>7. CASE ForceCompact
  <2>1. mpc = "idle"
    BY <1>7, FreeLocks DEF BoundTypes, ForceCompact, CompactPartition
  <2> QED
    BY <1>7, <2>1 DEF ForceCompact, CompactPartition, Returns
<1>8. CASE MergeRead
  BY <1>8 DEF MergeRead, MergeDone, Returns
<1>9. CASE MergeWriteFails
  BY <1>9 DEF MergeWriteFails, Fault, MergeDone, Returns
<1>10. CASE MergeRename
  BY <1>10 DEF MergeRename, Rename, MergeDone, Returns
<1>11. CASE MergeSaveFails
  BY <1>11 DEF MergeSaveFails, Fault, MergeDone, Returns
<1>12. ASSUME NEW n \in PartIDs, MergeDelete(n)
      PROVE  MergeHasOwner'
  BY <1>12 DEF MergeDelete, Remove, MergeDone, Returns
<1>13. CASE Crash
  BY <1>13 DEF Crash
<1>14. CASE Open
  BY <1>14 DEF Open, OpenPartition
<1>15. CASE AddPartWrite \/ AddPartPublish \/ AddPartPublishFails \/ MergeWrite \/ MergeSave
  BY <1>15 DEF AddPartWrite, AddPartPublish, AddPartPublishFails, Fault,
    MergeWrite, MergeSave
<1>16. CASE DropStart \/ DropRemovesManifest \/ DropDone
  BY <1>16 DEF DropStart, DropRemovesManifest, DropDone, Fault
<1>17. ASSUME NEW n \in PartIDs, DropRemoves(n)
      PROVE  MergeHasOwner'
  BY <1>17 DEF DropRemoves, Remove
<1>18. ASSUME NEW q \in Readers, QueryStart(q) \/ QueryStep(q)
      PROVE  MergeHasOwner'
  BY <1>18, QueriesOnlyRead
<1>r. CASE ApplyRetention \/ RetentionLocks
  BY <1>r DEF ApplyRetention, RetentionLocks
<1>19. CASE UNCHANGED vars
  BY <1>19 DEF vars
<1> QED
  BY <1>1, <1>2, <1>3, <1>4, <1>5, <1>6, <1>7, <1>8, <1>9, <1>10, <1>11, <1>12,
     <1>13, <1>14, <1>15, <1>16, <1>17, <1>18, <1>19, <1>r
  DEF Next, FlushStep, MergeStep, RetentionStep, DropStep

\* flushMu and compactMu keep everybody out of a drop.
LEMMA DropAloneNext ==
  ASSUME TypeInv, HandleInv, [Next]_vars
  PROVE  DropAlone'
<1>0. rpc \in {"idle", "first", "locked", "remove"}
  BY DEF TypeInv, TypeOK, BoundTypes
<1> USE <1>0, FreeLocks DEF TypeInv, TypeOK, HandleInv, DropAlone
<1>1. CASE GetPartition
  BY <1>1 DEF GetPartition, OpenPartition
<1>2. CASE AddPartReserve
  BY <1>2 DEF AddPartReserve
<1>3. CASE AddPartWriteFails
  BY <1>3 DEF AddPartWriteFails, Fault
<1>4. CASE AddPartRename
  BY <1>4 DEF AddPartRename, Rename
<1>5. CASE MaybeCompact
  BY <1>5 DEF MaybeCompact, CompactPartition, Returns
<1>6. CASE ForceCompact
  BY <1>6 DEF ForceCompact, CompactPartition, Returns
<1>7. CASE MergeRead
  BY <1>7 DEF MergeRead, MergeDone, Returns
<1>8. CASE MergeRename
  BY <1>8 DEF MergeRename, Rename, MergeDone, Returns
<1>9. ASSUME NEW n \in PartIDs, MergeDelete(n)
      PROVE  DropAlone'
  BY <1>9 DEF MergeDelete, Remove, MergeDone, Returns
<1>10. CASE DropDone
  BY <1>10 DEF DropDone, Fault
<1>11. CASE Crash
  BY <1>11 DEF Crash
<1>12. CASE Open
  BY <1>12 DEF Open, OpenPartition, DownIsIdle
<1>13. CASE AddPartWrite \/ AddPartPublish \/ AddPartPublishFails \/ ForceMerge \/ MergeWrite
  BY <1>13 DEF AddPartWrite, AddPartPublish, AddPartPublishFails, Fault,
    ForceMerge, MergeWrite
<1>14. CASE MergeWriteFails \/ MergeSave \/ MergeSaveFails \/ DropStart \/ DropRemovesManifest
  BY <1>14 DEF MergeWriteFails, Fault, MergeDone, Returns, MergeSave,
    MergeSaveFails, DropStart, DropRemovesManifest
<1>15. ASSUME NEW n \in PartIDs, DropRemoves(n)
      PROVE  DropAlone'
  BY <1>15 DEF DropRemoves, Remove
<1>16. ASSUME NEW q \in Readers, QueryStart(q) \/ QueryStep(q)
      PROVE  DropAlone'
  BY <1>16, QueriesOnlyRead
<1>r. CASE ApplyRetention \/ RetentionLocks
  BY <1>r DEF ApplyRetention, RetentionLocks
<1>17. CASE UNCHANGED vars
  BY <1>17 DEF vars
<1> QED
  BY <1>1, <1>2, <1>3, <1>4, <1>5, <1>6, <1>7, <1>8, <1>9, <1>10, <1>11, <1>12,
     <1>13, <1>14, <1>15, <1>16, <1>17, <1>r
  DEF Next, FlushStep, MergeStep, RetentionStep, DropStep

\* A dropped object is never used again: a new one takes its place.
LEMMA OneLiveNext ==
  ASSUME TypeInv, HandleInv, [Next]_vars
  PROVE  OneLiveObject'
<1> USE ObjectsExist, PartitionAssumption
    DEF TypeInv, TypeOK, ObjectTypes, BoundTypes, HandleInv, OneLiveObject, DropAlone
<1>1. CASE GetPartition
  <2>1. CASE cur # 0 /\ UNCHANGED <<disk, objects>>
    BY <1>1, <2>1 DEF GetPartition
  <2>2. CASE cur = 0 /\ opens < MaxOpens /\ OpenPartition(opens + 1)
    <3>1. opens' = opens + 1 /\ cur' = opens + 1 /\ dropped' = dropped /\ rpc' = "idle"
      BY <1>1, <2>2, FreeLocks DEF GetPartition, OpenPartition
    <3>2. opens \in Nat /\ opens + 1 \in Objects /\ \A p \in Objects : p \in Nat
      BY <2>2 DEF Objects
    <3>3. \A p \in 1..(opens + 1) : p = opens + 1 \/ p \in 1..opens
      BY <3>2
    <3>4. \A p \in Objects : p > opens + 1 => p > opens
      BY <3>2
    <3>5. opens + 1 > opens
      BY <3>2
    <3> QED
      BY <2>2, <3>1, <3>2, <3>3, <3>4, <3>5
  <2> QED
    BY <1>1, <2>1, <2>2 DEF GetPartition
<1>2. CASE DropStart
  BY <1>2 DEF DropStart
<1>3. CASE DropDone
  BY <1>3 DEF DropDone, Fault
<1>4. CASE Crash
  BY <1>4 DEF Crash
<1>5. CASE Open
  <2>1. CASE pdir = "present" /\ OpenPartition(1)
    <3>1. opens' = 1 /\ cur' = 1 /\ dropped' = dropped /\ opens = 0 /\ rpc' = "idle"
      BY <1>5, <2>1 DEF Open, OpenPartition, DownIsIdle
    <3>2. \A p \in Objects : p \in Nat /\ (p > 1 => p > 0)
      BY DEF Objects
    <3>3. \A p \in 1..1 : p = 1
      OBVIOUS
    <3> QED
      BY <3>1, <3>2, <3>3
  <2>2. CASE UNCHANGED objects
    BY <1>5, <2>2 DEF Open
  <2> QED
    BY <1>5, <2>1, <2>2 DEF Open
<1>6. CASE AddPartReserve \/ AddPartWrite \/ AddPartWriteFails \/ AddPartRename \/ AddPartPublish
  BY <1>6 DEF AddPartReserve, AddPartWrite, AddPartWriteFails, Fault,
    AddPartRename, Rename, AddPartPublish
<1>7. CASE AddPartPublishFails \/ MaybeCompact \/ ForceMerge \/ ForceCompact \/ MergeRead
  BY <1>7 DEF AddPartPublishFails, Fault, MaybeCompact, CompactPartition,
    Returns, ForceMerge, ForceCompact, MergeRead, MergeDone
<1>8. CASE MergeWrite \/ MergeWriteFails \/ MergeRename \/ MergeSave \/ MergeSaveFails
  BY <1>8 DEF MergeWrite, MergeWriteFails, Fault, MergeDone, Returns,
    MergeRename, Rename, MergeSave, MergeSaveFails
<1>9. CASE DropRemovesManifest
  BY <1>9 DEF DropRemovesManifest
<1>10. ASSUME NEW n \in PartIDs, MergeDelete(n) \/ DropRemoves(n)
      PROVE  OneLiveObject'
  BY <1>10 DEF MergeDelete, Remove, MergeDone, Returns, DropRemoves
<1>11. ASSUME NEW q \in Readers, QueryStart(q) \/ QueryStep(q)
      PROVE  OneLiveObject'
  BY <1>11, QueriesOnlyRead
<1>r. CASE ApplyRetention \/ RetentionLocks
  BY <1>r DEF ApplyRetention, RetentionLocks
<1>12. CASE UNCHANGED vars
  BY <1>12 DEF vars
<1> QED
  BY <1>1, <1>2, <1>3, <1>4, <1>5, <1>6, <1>7, <1>8, <1>9, <1>10, <1>11, <1>12, <1>r
  DEF Next, FlushStep, MergeStep, RetentionStep, DropStep

\* Until the first drop, the object that ForceMerge copied stays the live one.
LEMMA ForceTargetNext ==
  ASSUME TypeInv, HandleInv, [Next]_vars
  PROVE  ForceTarget'
<1> USE DEF TypeInv, TypeOK, MergeTypes, BoundTypes, HandleInv, ForceTarget
<1>1. CASE GetPartition
  BY <1>1 DEF GetPartition, OpenPartition
<1>2. CASE ForceMerge
  BY <1>2 DEF ForceMerge
<1>3. CASE ForceCompact
  BY <1>3 DEF ForceCompact, CompactPartition, Returns
<1>4. CASE MergeRead
  BY <1>4 DEF MergeRead, MergeDone, Returns
<1>5. CASE MergeRename
  BY <1>5 DEF MergeRename, Rename, MergeDone, Returns
<1>6. ASSUME NEW n \in PartIDs, MergeDelete(n)
      PROVE  ForceTarget'
  BY <1>6 DEF MergeDelete, Remove, MergeDone, Returns
<1>7. CASE DropStart
  BY <1>7 DEF DropStart
<1>8. CASE DropDone
  BY <1>8 DEF DropDone, Fault
<1>9. CASE Crash
  BY <1>9 DEF Crash
<1>10. CASE Open
  BY <1>10 DEF Open, OpenPartition, DownIsIdle
<1>11. CASE AddPartReserve \/ AddPartWrite \/ AddPartWriteFails \/ AddPartRename \/ AddPartPublish
  BY <1>11 DEF AddPartReserve, AddPartWrite, AddPartWriteFails, Fault,
    AddPartRename, Rename, AddPartPublish
<1>12. CASE AddPartPublishFails \/ MaybeCompact \/ MergeWrite \/ MergeWriteFails \/ MergeSave
  BY <1>12 DEF AddPartPublishFails, Fault, MaybeCompact, CompactPartition,
    Returns, MergeWrite, MergeWriteFails, MergeDone, MergeSave
<1>13. CASE MergeSaveFails \/ DropRemovesManifest
  BY <1>13 DEF MergeSaveFails, Fault, MergeDone, Returns, DropRemovesManifest
<1>14. ASSUME NEW n \in PartIDs, DropRemoves(n)
      PROVE  ForceTarget'
  BY <1>14 DEF DropRemoves, Remove
<1>15. ASSUME NEW q \in Readers, QueryStart(q) \/ QueryStep(q)
      PROVE  ForceTarget'
  BY <1>15, QueriesOnlyRead
<1>r. CASE ApplyRetention \/ RetentionLocks
  BY <1>r DEF ApplyRetention, RetentionLocks
<1>16. CASE UNCHANGED vars
  BY <1>16 DEF vars
<1> QED
  BY <1>1, <1>2, <1>3, <1>4, <1>5, <1>6, <1>7, <1>8, <1>9, <1>10, <1>11, <1>12,
     <1>13, <1>14, <1>15, <1>16, <1>r
  DEF Next, FlushStep, MergeStep, RetentionStep, DropStep

\* p.mu: nobody takes it for writing while a scan holds it, and a scan begins
\* only on an object that is not dropped, which is the live one.
LEMMA ScanLockedNext ==
  ASSUME TypeInv, HandleInv, [Next]_vars
  PROVE  ScanLocked'
<1> USE ObjectsExist
    DEF TypeInv, TypeOK, ReaderTypes, ReadersBusy, HandleInv, ScanLocked, WriteLocked
<1>0. \A q \in Readers : rd[q].pc = "read" => cur # 0
  OBVIOUS
<1>1. CASE GetPartition
  BY <1>1, <1>0, FreeLocks DEF GetPartition, OpenPartition, BoundTypes
<1>2. CASE MaybeCompact
  BY <1>2 DEF MaybeCompact, CompactPartition, Returns
<1>3. CASE ForceCompact
  BY <1>3 DEF ForceCompact, CompactPartition, Returns
<1>4. CASE MergeRead
  BY <1>4 DEF MergeRead, MergeDone, Returns
<1>5. CASE MergeRename
  BY <1>5 DEF MergeRename, Rename, MergeDone, Returns, CanLock
<1>6. ASSUME NEW n \in PartIDs, MergeDelete(n)
      PROVE  ScanLocked'
  BY <1>6 DEF MergeDelete, Remove, MergeDone, Returns
<1>7. CASE DropStart
  BY <1>7 DEF DropStart, CanLock
<1>8. CASE DropDone
  BY <1>8 DEF DropDone, Fault
<1>9. ASSUME NEW q \in Readers, QueryStart(q)
      PROVE  ScanLocked'
  BY <1>9 DEF QueryStart
<1>10. ASSUME NEW q \in Readers, QueryLock(q)
      PROVE  ScanLocked'
  <2>1. CASE dropped[rd[q].obj] = "yes"
    BY <1>10, <2>1 DEF QueryLock, IdleReader
  <2>2. CASE dropped[rd[q].obj] # "yes"
    <3>1. rd[q].obj \in 1..opens /\ rd[q].obj \in Objects
      BY <1>10 DEF QueryLock
    <3>2. rd[q].obj = cur /\ dropped[rd[q].obj] = "no"
      BY <2>2, <3>1 DEF OneLiveObject, ObjectTypes
    <3> QED
      BY <1>10, <2>2, <3>2 DEF QueryLock
  <2> QED
    BY <2>1, <2>2
<1>11. ASSUME NEW q \in Readers, NEW n \in PartIDs, QueryPart(q, n)
      PROVE  ScanLocked'
  BY <1>11 DEF QueryPart
<1>12. ASSUME NEW q \in Readers, QueryUnlock(q)
      PROVE  ScanLocked'
  BY <1>12 DEF QueryUnlock
<1>13. ASSUME NEW q \in Readers, QueryReturn(q)
      PROVE  ScanLocked'
  BY <1>13 DEF QueryReturn, IdleReader
<1>14. CASE Crash
  BY <1>14 DEF Crash, IdleReader
<1>15. CASE Open
  BY <1>15, <1>0 DEF Open, OpenPartition, DownIsIdle, ObjectTypes
<1>16. CASE AddPartReserve \/ AddPartWrite \/ AddPartWriteFails \/ AddPartRename \/ AddPartPublish
  BY <1>16 DEF AddPartReserve, AddPartWrite, AddPartWriteFails, Fault,
    AddPartRename, Rename, AddPartPublish
<1>17. CASE AddPartPublishFails \/ ForceMerge \/ MergeWrite \/ MergeWriteFails \/ MergeSave
  BY <1>17 DEF AddPartPublishFails, Fault, ForceMerge, MergeWrite,
    MergeWriteFails, MergeDone, Returns, MergeSave
<1>18. CASE MergeSaveFails \/ DropRemovesManifest
  BY <1>18 DEF MergeSaveFails, Fault, MergeDone, Returns, DropRemovesManifest
<1>19. ASSUME NEW n \in PartIDs, DropRemoves(n)
      PROVE  ScanLocked'
  BY <1>19 DEF DropRemoves, Remove
<1>r. CASE ApplyRetention \/ RetentionLocks
  BY <1>r DEF ApplyRetention, RetentionLocks
<1>20. CASE UNCHANGED vars
  BY <1>20 DEF vars
<1> QED
  BY <1>1, <1>2, <1>3, <1>4, <1>5, <1>6, <1>7, <1>8, <1>9, <1>10, <1>11, <1>12,
     <1>13, <1>14, <1>15, <1>16, <1>17, <1>18, <1>19, <1>20, <1>r
  DEF Next, FlushStep, MergeStep, RetentionStep, DropStep, QueryStep

\* Flushes, merges, drops and queries hold the objects they should.
LEMMA HandleInvariant == Spec => [](TypeInv /\ HandleInv)
<1>1. Init => HandleInv
  BY PartitionAssumption
  DEF Init, HandleInv, FlushTargetIsCurrent, MergeHasOwner, DropAlone, OneLiveObject,
      ScanLocked,
      ForceTarget, IdleReader, Objects
<1>2. TypeInv /\ HandleInv /\ [Next]_vars => HandleInv'
  BY FlushTargetNext, OwnerNext, DropAloneNext, OneLiveNext, ForceTargetNext, ScanLockedNext
  DEF HandleInv
<1> QED
  BY <1>1, <1>2, TypeInvariant, PTL DEF Spec

\* addPart never works on a partition that retention drops or has dropped,
\* with any number of forced merges, drops, errors and crashes.
THEOREM FlushTargetIsCurrentHolds == Spec => []FlushTargetIsCurrent
BY HandleInvariant, PTL DEF HandleInv

\* What the holders of the locks work on, and the ranges of the numbers.
Targets ==
  /\ fpc # "idle" => fobj = cur /\ cur # 0
  /\ mpc # "idle" => mobj = cur /\ cur # 0
  /\ gpc # "idle" => gobj = cur /\ cur # 0 /\ drops = 0
  /\ mpc # "idle" /\ fpc # "merging" => drops = 0
  /\ cur # 0 => cur \in Objects
  /\ nextID \in [Objects -> Nat]
  /\ (\A n \in PartIDs : n \in Nat) /\ (\A b \in Batches : b \in Nat)
  /\ mnames \in Lists /\ Listed(mnames) \subseteq PartIDs

\* Without stale merges, they all work on the live object.
LEMMA WorkOnTheLiveObject ==
  ASSUME NoStaleMerge, TypeInv, HandleInv
  PROVE  Targets
<1>1. gpc # "idle" => drops = 0 /\ gobj = cur /\ cur # 0
  BY PartitionAssumption
  DEF NoStaleMerge, TypeInv, TypeOK, BoundTypes, MergeTypes, HandleInv, ForceTarget
<1>2. /\ fpc # "idle" => fobj = cur /\ cur # 0
      /\ mpc # "idle" => mobj = cur /\ cur # 0
      /\ mpc # "idle" /\ fpc # "merging" => drops = 0
      /\ mnames \in Lists /\ Listed(mnames) \subseteq PartIDs
  BY <1>1, ListedParts DEF TypeInv, TypeOK, FlushTypes, MergeTypes, HandleInv, FlushTargetIsCurrent,
      MergeHasOwner
<1>3. /\ nextID \in [Objects -> Nat]
      /\ (\A n \in PartIDs : n \in Nat) /\ (\A b \in Batches : b \in Nat)
  BY PartitionAssumption DEF TypeInv, TypeOK, ObjectTypes, PartIDs, Batches
<1> QED
  BY <1>1, <1>2, <1>3, ObjectsExist DEF Targets

-----------------------------------------------------------------------------
(* The numbering of the parts.                                              *)

\* A merge has something to merge: smallParts found min of them, and min is
\* at least 1.
LEMMA SomethingToMerge ==
  ASSUME NEW by, NEW p, NEW min \in Nat \ {0}, CompactPartition(by, p, min), mpc' # "idle",
         rpc \in {"idle", "first", "locked", "remove"}, parts[p] \in Lists
  PROVE  /\ mpc' = "read" /\ mnames' = SmallParts(p) /\ Listed(parts[p]) \subseteq dirs
         /\ Listed(mnames') # {} /\ Listed(mnames') \subseteq Listed(parts[p])
<1>1. SmallParts(p) \in Lists /\ Listed(SmallParts(p)) = Listed(parts[p]) \ big
  BY WithoutList DEF SmallParts
<1>2. Listed(SmallParts(p)) = {} => ~(Length(SmallParts(p)) >= min)
  BY <1>1, LongList
<1>3. mpc = "idle"
  BY FreeLocks DEF CompactPartition
<1> QED
  BY <1>1, <1>2, <1>3 DEF CompactPartition, Returns

\* p.nextID goes past every directory, and past every number it has given.
LEMMA NumbersPastNext ==
  ASSUME NoStaleMerge, TypeInv, TypeInv', HandleInv, NumberInv, [Next]_vars
  PROVE  NumbersPast'
<1>0. Targets
  BY WorkOnTheLiveObject
<1>a. rpc \in {"idle", "first", "locked", "remove"} /\ \A p \in Objects : parts[p] \in Lists
  BY DEF TypeInv, TypeOK, BoundTypes, ObjectTypes
<1> USE <1>0 DEF Targets, NumberInv, NumbersPast, TypeInv, FlushBusy, MergeBusy
<1>1. CASE GetPartition
  BY <1>1, ObjectsExist DEF GetPartition, OpenPartition, FreshID, dirs
<1>2. CASE AddPartReserve
  BY <1>2 DEF AddPartReserve
<1>3. CASE AddPartWriteFails
  BY <1>3 DEF AddPartWriteFails, Fault
<1>4. CASE AddPartRename
  BY <1>4 DEF AddPartRename, Rename, TypeOK, DiskTypes
<1>5. CASE MaybeCompact
  <2>1. CASE mpc' = "idle"
    BY <1>5, <2>1 DEF MaybeCompact, CompactPartition, Returns
  <2>2. CASE mpc' # "idle"
    <3>1. mpc' = "read" /\ Listed(mnames') \subseteq dirs /\ fobj = cur /\ cur # 0
      BY <1>5, <2>2, <1>a, SomethingToMerge, PartitionAssumption DEF MaybeCompact
    <3> QED
      BY <1>5, <3>1 DEF MaybeCompact, CompactPartition, Returns, dirs
  <2> QED
    BY <2>1, <2>2
<1>6. CASE ForceCompact
  <2>1. CASE mpc' = "idle"
    BY <1>6, <2>1 DEF ForceCompact, CompactPartition, Returns
  <2>2. CASE mpc' # "idle"
    <3>1. mpc' = "read" /\ Listed(mnames') \subseteq dirs /\ gobj = cur /\ cur # 0
      BY <1>6, <2>2, <1>a, SomethingToMerge, PartitionAssumption DEF ForceCompact
    <3> QED
      BY <1>6, <3>1 DEF ForceCompact, CompactPartition, Returns, dirs
  <2> QED
    BY <2>1, <2>2
<1>7. CASE MergeRead
  BY <1>7 DEF MergeRead, MergeDone, Returns
<1>8. CASE MergeRename
  BY <1>8 DEF MergeRename, Rename, MergeDone, Returns, TypeOK, DiskTypes
<1>9. ASSUME NEW n \in PartIDs, MergeDelete(n)
      PROVE  NumbersPast'
  BY <1>9, MinusList DEF MergeDelete, Remove, MergeDone, Returns, TypeOK, DiskTypes
<1>10. ASSUME NEW n \in PartIDs, DropRemoves(n)
      PROVE  NumbersPast'
  BY <1>10 DEF DropRemoves, Remove, TypeOK, DiskTypes
<1>11. CASE DropDone
  BY <1>11 DEF DropDone, Fault, HandleInv, DropAlone
<1>12. CASE Crash
  BY <1>12 DEF Crash
<1>13. CASE Open
  BY <1>13, ObjectsExist DEF Open, OpenPartition, FreshID, dirs, DownIsIdle
<1>14. CASE AddPartWrite \/ AddPartPublish \/ AddPartPublishFails \/ ForceMerge \/ MergeWrite
  BY <1>14 DEF AddPartWrite, AddPartPublish, AddPartPublishFails, Fault,
    ForceMerge, MergeWrite
<1>15. CASE MergeWriteFails \/ MergeSave \/ MergeSaveFails \/ DropStart \/ DropRemovesManifest
  BY <1>15 DEF MergeWriteFails, Fault, MergeDone, Returns, MergeSave,
    MergeSaveFails, DropStart, DropRemovesManifest
<1>16. ASSUME NEW q \in Readers, QueryStart(q) \/ QueryStep(q)
      PROVE  NumbersPast'
  BY <1>16, QueriesOnlyRead
<1>r. CASE ApplyRetention \/ RetentionLocks
  BY <1>r DEF ApplyRetention, RetentionLocks
<1>17. CASE UNCHANGED vars
  BY <1>17 DEF vars
<1> QED
  BY <1>1, <1>2, <1>3, <1>4, <1>5, <1>6, <1>7, <1>8, <1>9, <1>10, <1>11, <1>12,
     <1>13, <1>14, <1>15, <1>16, <1>17, <1>r
  DEF Next, FlushStep, MergeStep, RetentionStep, DropStep

\* No two writers share a number, and a number in use has no directory.
LEMMA NumbersFreeNext ==
  ASSUME NoStaleMerge, TypeInv, TypeInv', HandleInv, NumberInv, [Next]_vars
  PROVE  NumbersFree'
<1>0. Targets
  BY WorkOnTheLiveObject
<1>a. rpc \in {"idle", "first", "locked", "remove"} /\ \A p \in Objects : parts[p] \in Lists
  BY DEF TypeInv, TypeOK, BoundTypes, ObjectTypes
<1> USE <1>0 DEF Targets, NumberInv, NumbersFree, TypeInv, FlushBusy, MergeBusy
<1>1. CASE GetPartition
  BY <1>1 DEF GetPartition, OpenPartition
<1>2. CASE AddPartReserve
  BY <1>2 DEF AddPartReserve, NumbersPast
<1>3. CASE AddPartWrite
  BY <1>3 DEF AddPartWrite, TypeOK, DiskTypes
<1>4. CASE AddPartWriteFails
  BY <1>4 DEF AddPartWriteFails, Fault
<1>5. CASE AddPartRename
  BY <1>5 DEF AddPartRename, Rename, TypeOK, DiskTypes
<1>6. CASE AddPartPublish
  BY <1>6 DEF AddPartPublish
<1>7. CASE AddPartPublishFails
  BY <1>7 DEF AddPartPublishFails, Fault
<1>8. CASE MaybeCompact
  <2>1. CASE mpc' = "idle"
    BY <1>8, <2>1 DEF MaybeCompact, CompactPartition, Returns
  <2>2. CASE mpc' # "idle"
    <3>1. mpc' = "read" /\ Listed(mnames') # {}
      BY <1>8, <2>2, <1>a, SomethingToMerge, PartitionAssumption DEF MaybeCompact
    <3> QED
      BY <1>8, <3>1 DEF MaybeCompact, CompactPartition, Returns
  <2> QED
    BY <2>1, <2>2
<1>9. CASE ForceCompact
  <2>1. CASE mpc' = "idle"
    BY <1>9, <2>1 DEF ForceCompact, CompactPartition, Returns
  <2>2. CASE mpc' # "idle"
    <3>1. mpc' = "read" /\ Listed(mnames') # {}
      BY <1>9, <2>2, <1>a, SomethingToMerge, PartitionAssumption DEF ForceCompact
    <3> QED
      BY <1>9, <3>1 DEF ForceCompact, CompactPartition, Returns
  <2> QED
    BY <2>1, <2>2
<1>10. CASE MergeRead
  BY <1>10 DEF MergeRead, MergeDone, Returns, NumbersPast, RowsIn, dirs
<1>11. CASE MergeWrite
  BY <1>11 DEF MergeWrite, TypeOK, DiskTypes
<1>12. CASE MergeWriteFails
  BY <1>12 DEF MergeWriteFails, Fault, MergeDone, Returns
<1>13. CASE MergeRename
  BY <1>13 DEF MergeRename, Rename, MergeDone, Returns
<1>14. CASE MergeSave
  BY <1>14 DEF MergeSave
<1>15. CASE MergeSaveFails
  BY <1>15 DEF MergeSaveFails, Fault, MergeDone, Returns
<1>16. ASSUME NEW n \in PartIDs, MergeDelete(n)
      PROVE  NumbersFree'
  BY <1>16, MinusList DEF MergeDelete, Remove, MergeDone, Returns
<1>17. ASSUME NEW n \in PartIDs, DropRemoves(n)
      PROVE  NumbersFree'
  BY <1>17 DEF DropRemoves, Remove, TypeOK, DiskTypes, HandleInv, DropAlone
<1>18. CASE Crash
  BY <1>18 DEF Crash
<1>19. CASE Open
  BY <1>19 DEF Open, OpenPartition, DownIsIdle
<1>20. CASE ForceMerge \/ DropStart \/ DropRemovesManifest \/ DropDone
  BY <1>20 DEF ForceMerge, DropStart, DropRemovesManifest, DropDone, Fault
<1>21. ASSUME NEW q \in Readers, QueryStart(q) \/ QueryStep(q)
      PROVE  NumbersFree'
  BY <1>21, QueriesOnlyRead
<1>r. CASE ApplyRetention \/ RetentionLocks
  BY <1>r DEF ApplyRetention, RetentionLocks
<1>22. CASE UNCHANGED vars
  BY <1>22 DEF vars
<1> QED
  BY <1>1, <1>2, <1>3, <1>4, <1>5, <1>6, <1>7, <1>8, <1>9, <1>10, <1>11, <1>12,
     <1>13, <1>14, <1>15, <1>16, <1>17, <1>18, <1>19, <1>20, <1>21, <1>22, <1>r
  DEF Next, FlushStep, MergeStep, RetentionStep, DropStep

\* The numbering is sound.
LEMMA NumberInvariant ==
  ASSUME NoStaleMerge
  PROVE  Spec => [](TypeInv /\ HandleInv /\ NumberInv)
<1>1. Init => NumberInv
  BY DEF Init, NumberInv, NumbersPast, NumbersFree, NoFiles
<1>2. TypeInv /\ TypeInv' /\ HandleInv /\ NumberInv /\ [Next]_vars => NumberInv'
  BY NumbersPastNext, NumbersFreeNext DEF NumberInv
<1> QED
  BY <1>1, <1>2, HandleInvariant, PTL DEF Spec

\* Flush and a merge may write at the same time: the rename of either finds
\* its staging directory and no directory of that name, orphans of crashes
\* and failed saves included.
THEOREM PublishNeverCollidesHolds ==
  ASSUME NoStaleMerge
  PROVE  Spec => []PublishNeverCollides
<1>1. NumberInv => PublishNeverCollides
  BY DEF NumberInv, NumbersFree, PublishNeverCollides, RenameWorks
<1> QED
  BY <1>1, NumberInvariant, PTL

-----------------------------------------------------------------------------
(* The inductive invariants.                                                *)

\* The list that counts: p.parts, or manifest.json while nobody has it open.
LiveList == IF cur = 0 THEN manifest ELSE parts[cur]
Current == Listed(LiveList)

Disjoint(S) == \A m, n \in S : m # n => content[m] \cap content[n] = {}

\* Batches get increasing numbers ...
BatchesNumbered ==
  /\ fpc # "idle" => fbatch <= flushes
  /\ \A n \in PartIDs : \A b \in content[n] : b <= flushes
  /\ \A b \in mrows : b <= flushes
  /\ \A q \in Readers : \A b \in rd[q].got : b <= flushes

\* ... so that the batch of a running flush is nowhere but in its own part.
BatchIsNew ==
  /\ fpc \in {"reserve", "write", "rename", "publish"} =>
       /\ fbatch \notin mrows
       /\ \A n \in PartIDs : (fpc = "publish" /\ n = fid) \/ fbatch \notin content[n]
  /\ fpc \in {"reserve", "write", "rename"} => \A q \in Readers : fbatch \notin rd[q].got
  /\ fpc = "publish" => content[fid] = {fbatch} /\ again[fid] = {}

\* The listed parts share no row; a failed save leaves the manifest behind
\* p.parts.
ListedOnce ==
  /\ cur # 0 => \A n \in PartIDs : manifest[n] <= parts[cur][n]
  /\ Disjoint(Current)

\* A drop that an error or a crash cuts short leaves a manifest that lists
\* parts without a directory.  Unless that happened, a listed part has its
\* directory, is listed once and holds no row twice.
WholeParts ==
  torn = "no" =>
    /\ rpc # "remove" => Current \subseteq dirs
    /\ \A n \in Current : LiveList[n] = 1 /\ again[n] = {}

\* A merge works on listed parts until it has saved the manifest and on
\* unlisted ones after, and its own part holds their rows, each as often.
MergeKeepsRows ==
  /\ mpc \in {"read", "write", "rename", "save"} =>
       \A n \in Listed(mnames) : mnames[n] = parts[cur][n]
  /\ mpc = "read" => \A n \in Listed(parts[cur]) : n < nextID[cur]
  /\ mpc \in {"write", "rename", "save"} =>
       mrows = RowsIn(mnames) /\ mtwice = RowsTwice(mnames) /\ mid \notin Listed(parts[cur])
  /\ mpc = "save" => content[mid] = mrows /\ again[mid] = mtwice
  /\ mpc = "delete" => Listed(mnames) \cap Listed(parts[cur]) = {}

\* The part of a running flush is not one that a merge works on.
FlushApart ==
  fpc \in {"write", "rename", "publish"} =>
    /\ mpc # "idle" => fid \notin Listed(mnames)
    /\ torn = "no" => fid \notin Listed(parts[cur])

\* A drop is cut short only where there is one.
TornByDrop == torn = "yes" => drops > 0

\* Acknowledged batches are in the manifest.  There is none while the
\* partition does not exist or is dropped.
AckedListed ==
  /\ acked \subseteq RowsIn(manifest)
  /\ proc = "up" /\ cur = 0 => acked = {}
  /\ pdir = "absent" => acked = {}
  /\ rpc = "remove" => acked = {}
  /\ cur # 0 => pdir = "present"

RowInv ==
  /\ BatchesNumbered /\ BatchIsNew /\ ListedOnce /\ WholeParts
  /\ MergeKeepsRows /\ FlushApart /\ TornByDrop /\ AckedListed

\* What a scan that holds p.mu has read and what it has still to read.
ScanInv ==
  \A q \in Readers :
    /\ rd[q].pc \in {"idle", "ready"} => rd[q].got = {} /\ rd[q].twice = {}
    /\ rd[q].pc = "read" =>
         /\ \A n \in PartIDs : rd[q].left[n] <= parts[cur][n]
         /\ rd[q].need \subseteq rd[q].got \cup RowsIn(rd[q].left)
         /\ torn = "no" =>
              /\ \A n \in Listed(rd[q].left) : content[n] \cap rd[q].got = {}
              /\ rd[q].twice = {}
    /\ rd[q].pc = "done" =>
         rd[q].need \subseteq rd[q].got /\ (torn = "no" => rd[q].twice = {})

\* A scan finds the directories of the parts it has still to read.
FilesInv ==
  torn = "no" => \A q \in Readers :
    /\ rd[q].pc # "error"
    /\ rd[q].pc = "read" => Listed(rd[q].left) \subseteq dirs

\* All that the proofs below assume of a state.
StateInv == TypeInv /\ HandleInv /\ NumberInv

-----------------------------------------------------------------------------
(* Batches.                                                                 *)

\* No row is of a batch that is still to come.
LEMMA BatchesNumberedNext ==
  ASSUME NoStaleMerge, StateInv, RowInv, [Next]_vars
  PROVE  BatchesNumbered'
<1>0. Targets
  BY WorkOnTheLiveObject DEF StateInv
<1>a. flushes \in Nat /\ content \in [PartIDs -> SUBSET Batches] /\ mrows \subseteq Batches
       /\ \A q \in Readers : rd[q].got \subseteq Batches
  BY PartitionAssumption DEF StateInv, TypeInv, TypeOK, DiskTypes, MergeTypes, ReaderTypes,
      BoundTypes
<1> USE <1>0, <1>a DEF Targets, StateInv, RowInv, BatchesNumbered, TypeInv, FlushBusy, MergeBusy
<1>1. CASE GetPartition
  BY <1>1 DEF GetPartition, OpenPartition
<1>2. CASE AddPartReserve
  BY <1>2 DEF AddPartReserve
<1>3. CASE AddPartWriteFails
  BY <1>3 DEF AddPartWriteFails, Fault
<1>4. CASE AddPartRename
  BY <1>4 DEF AddPartRename, Rename, NumberInv, NumbersFree
<1>5. CASE AddPartPublish
  BY <1>5 DEF AddPartPublish
<1>6. CASE AddPartPublishFails
  BY <1>6 DEF AddPartPublishFails, Fault
<1>7. CASE MaybeCompact
  BY <1>7 DEF MaybeCompact, CompactPartition, Returns
<1>8. CASE ForceCompact
  BY <1>8 DEF ForceCompact, CompactPartition, Returns
<1>9. CASE MergeRead
  BY <1>9 DEF MergeRead, MergeDone, Returns, RowsIn
<1>10. CASE MergeWriteFails
  BY <1>10 DEF MergeWriteFails, Fault, MergeDone, Returns
<1>11. CASE MergeRename
  BY <1>11 DEF MergeRename, Rename, MergeDone, Returns, NumberInv, NumbersFree
<1>12. CASE MergeSaveFails
  BY <1>12 DEF MergeSaveFails, Fault, MergeDone, Returns
<1>13. ASSUME NEW n \in PartIDs, MergeDelete(n)
      PROVE  BatchesNumbered'
  BY <1>13 DEF MergeDelete, Remove, MergeDone, Returns
<1>14. ASSUME NEW n \in PartIDs, DropRemoves(n)
      PROVE  BatchesNumbered'
  BY <1>14 DEF DropRemoves, Remove
<1>15. ASSUME NEW q \in Readers, QueryStart(q)
      PROVE  BatchesNumbered'
  BY <1>15 DEF QueryStart, TypeOK, ReaderTypes
<1>16. ASSUME NEW q \in Readers, QueryLock(q)
      PROVE  BatchesNumbered'
  BY <1>16 DEF QueryLock, TypeOK, ReaderTypes, IdleReader
<1>17. ASSUME NEW q \in Readers, NEW n \in PartIDs, QueryPart(q, n)
      PROVE  BatchesNumbered'
  BY <1>17 DEF QueryPart, TypeOK, ReaderTypes
<1>18. ASSUME NEW q \in Readers, QueryUnlock(q)
      PROVE  BatchesNumbered'
  BY <1>18 DEF QueryUnlock, TypeOK, ReaderTypes
<1>19. ASSUME NEW q \in Readers, QueryReturn(q)
      PROVE  BatchesNumbered'
  BY <1>19 DEF QueryReturn, IdleReader
<1>20. CASE Crash
  BY <1>20 DEF Crash, IdleReader
<1>21. CASE AddPartWrite \/ ForceMerge \/ MergeWrite \/ MergeSave \/ DropStart
  BY <1>21 DEF AddPartWrite, ForceMerge, MergeWrite, MergeSave, DropStart
<1>22. CASE DropRemovesManifest \/ DropDone \/ Open
  BY <1>22 DEF DropRemovesManifest, DropDone, Fault, Open, OpenPartition
<1>r. CASE ApplyRetention \/ RetentionLocks
  BY <1>r DEF ApplyRetention, RetentionLocks
<1>23. CASE UNCHANGED vars
  BY <1>23 DEF vars
<1> QED
  BY <1>1, <1>2, <1>3, <1>4, <1>5, <1>6, <1>7, <1>8, <1>9, <1>10, <1>11, <1>12,
     <1>13, <1>14, <1>15, <1>16, <1>17, <1>18, <1>19, <1>20, <1>21, <1>22, <1>23, <1>r
  DEF Next, FlushStep, MergeStep, RetentionStep, DropStep, QueryStep

\* A merge or a scan never comes upon the batch before it is listed.
LEMMA BatchIsNewNext ==
  ASSUME NoStaleMerge, StateInv, RowInv, [Next]_vars
  PROVE  BatchIsNew'
<1>0. Targets
  BY WorkOnTheLiveObject DEF StateInv
<1>a. flushes \in Nat /\ content \in [PartIDs -> SUBSET Batches] /\ mrows \subseteq Batches
       /\ again \in [PartIDs -> SUBSET Batches]
       /\ \A q \in Readers : rd[q].got \subseteq Batches
  BY PartitionAssumption DEF StateInv, TypeInv, TypeOK, DiskTypes, MergeTypes, ReaderTypes,
      BoundTypes
<1> USE <1>0, <1>a DEF Targets, StateInv, RowInv, BatchIsNew, TypeInv, FlushBusy, MergeBusy,
    NumberInv, NumbersFree
<1>1. CASE GetPartition
  BY <1>1 DEF GetPartition, OpenPartition, BatchesNumbered
<1>2. CASE AddPartReserve
  BY <1>2 DEF AddPartReserve
<1>3. CASE AddPartWriteFails
  BY <1>3 DEF AddPartWriteFails, Fault
<1>4. CASE AddPartRename
  BY <1>4 DEF AddPartRename, Rename
<1>5. CASE AddPartPublish
  BY <1>5 DEF AddPartPublish
<1>6. CASE AddPartPublishFails
  BY <1>6 DEF AddPartPublishFails, Fault
<1>7. CASE MaybeCompact
  BY <1>7 DEF MaybeCompact, CompactPartition, Returns
<1>8. CASE ForceCompact
  BY <1>8 DEF ForceCompact, CompactPartition, Returns
<1>9. CASE MergeRead
  BY <1>9 DEF MergeRead, MergeDone, Returns, RowsIn, FlushApart
<1>10. CASE MergeWriteFails
  BY <1>10 DEF MergeWriteFails, Fault, MergeDone, Returns
<1>11. CASE MergeRename
  BY <1>11 DEF MergeRename, Rename, MergeDone, Returns
<1>12. CASE MergeSaveFails
  BY <1>12 DEF MergeSaveFails, Fault, MergeDone, Returns
<1>13. ASSUME NEW n \in PartIDs, MergeDelete(n)
      PROVE  BatchIsNew'
  BY <1>13 DEF MergeDelete, Remove, MergeDone, Returns, FlushApart
<1>14. ASSUME NEW n \in PartIDs, DropRemoves(n)
      PROVE  BatchIsNew'
  BY <1>14 DEF DropRemoves, Remove, HandleInv, DropAlone
<1>15. ASSUME NEW q \in Readers, QueryStart(q)
      PROVE  BatchIsNew'
  BY <1>15 DEF QueryStart, TypeOK, ReaderTypes
<1>16. ASSUME NEW q \in Readers, QueryLock(q)
      PROVE  BatchIsNew'
  BY <1>16 DEF QueryLock, TypeOK, ReaderTypes, IdleReader
<1>17. ASSUME NEW q \in Readers, NEW n \in PartIDs, QueryPart(q, n)
      PROVE  BatchIsNew'
  BY <1>17 DEF QueryPart, TypeOK, ReaderTypes
<1>18. ASSUME NEW q \in Readers, QueryUnlock(q)
      PROVE  BatchIsNew'
  BY <1>18 DEF QueryUnlock, TypeOK, ReaderTypes
<1>19. ASSUME NEW q \in Readers, QueryReturn(q)
      PROVE  BatchIsNew'
  BY <1>19 DEF QueryReturn, IdleReader
<1>20. CASE Crash
  BY <1>20 DEF Crash, IdleReader
<1>21. CASE AddPartWrite \/ ForceMerge \/ MergeWrite \/ MergeSave \/ DropStart
  BY <1>21 DEF AddPartWrite, ForceMerge, MergeWrite, MergeSave, DropStart
<1>22. CASE DropRemovesManifest \/ DropDone \/ Open
  BY <1>22 DEF DropRemovesManifest, DropDone, Fault, Open, OpenPartition
<1>r. CASE ApplyRetention \/ RetentionLocks
  BY <1>r DEF ApplyRetention, RetentionLocks
<1>23. CASE UNCHANGED vars
  BY <1>23 DEF vars
<1> QED
  BY <1>1, <1>2, <1>3, <1>4, <1>5, <1>6, <1>7, <1>8, <1>9, <1>10, <1>11, <1>12,
     <1>13, <1>14, <1>15, <1>16, <1>17, <1>18, <1>19, <1>20, <1>21, <1>22, <1>23, <1>r
  DEF Next, FlushStep, MergeStep, RetentionStep, DropStep, QueryStep

-----------------------------------------------------------------------------
(* Flush and a merge, side by side.                                         *)

\* The mark of a drop that was cut short is set by a crash or by an error of
\* RemoveAll, and stays.
LEMMA TornStays ==
  ASSUME StateInv, [Next]_vars
  PROVE  /\ torn' = torn \/ (torn' = "yes" /\ rpc = "remove")
         /\ drops' \in Nat /\ drops \in Nat /\ drops' >= drops
<1>1. drops \in Nat
  BY PartitionAssumption DEF StateInv, TypeInv, TypeOK, BoundTypes
<1> USE <1>1
<1>2. CASE GetPartition \/ AddPartReserve \/ AddPartWrite \/ AddPartWriteFails \/ AddPartRename
  BY <1>2 DEF GetPartition, OpenPartition, AddPartReserve, AddPartWrite, AddPartWriteFails,
    Fault, AddPartRename, Rename
<1>3. CASE AddPartPublish \/ AddPartPublishFails \/ MaybeCompact \/ ForceMerge \/ ForceCompact
  BY <1>3 DEF AddPartPublish, AddPartPublishFails, Fault, MaybeCompact, CompactPartition,
    ForceMerge, ForceCompact
<1>4. CASE MergeRead \/ MergeWrite \/ MergeWriteFails \/ MergeRename \/ MergeSave \/ MergeSaveFails
  BY <1>4 DEF MergeRead, MergeWrite, MergeWriteFails, Fault, MergeRename, Rename, MergeSave,
    MergeSaveFails
<1>5. ASSUME NEW n \in PartIDs, MergeDelete(n) \/ DropRemoves(n)
      PROVE  torn' = torn /\ drops' = drops
  BY <1>5 DEF MergeDelete, DropRemoves
<1>6. CASE ApplyRetention \/ RetentionLocks \/ DropStart \/ DropRemovesManifest
  BY <1>6 DEF ApplyRetention, RetentionLocks, DropStart, DropRemovesManifest
<1>7. CASE DropDone
  BY <1>7 DEF DropDone, Fault
<1>8. CASE Crash \/ Open
  BY <1>8 DEF Crash, Open, OpenPartition
<1>9. ASSUME NEW q \in Readers, QueryStart(q) \/ QueryStep(q)
      PROVE  torn' = torn /\ drops' = drops
  BY <1>9, QueriesOnlyRead
<1>10. CASE UNCHANGED vars
  BY <1>10 DEF vars
<1> QED
  BY <1>1, <1>2, <1>3, <1>4, <1>5, <1>6, <1>7, <1>8, <1>9, <1>10
  DEF Next, FlushStep, MergeStep, RetentionStep, DropStep

LEMMA TornByDropNext ==
  ASSUME StateInv, TornByDrop, [Next]_vars
  PROVE  TornByDrop'
<1>1. rpc = "remove" => drops # 0
  BY DEF StateInv, HandleInv, ForceTarget
<1> QED
  BY <1>1, TornStays DEF TornByDrop

\* A forced merge runs beside flushes only as long as nothing was dropped.
LEMMA NothingTorn ==
  ASSUME NoStaleMerge, StateInv, RowInv, gpc # "idle" \/ (mpc # "idle" /\ fpc # "merging")
  PROVE  torn = "no" /\ rpc = "idle"
<1>0. Targets
  BY WorkOnTheLiveObject DEF StateInv
<1> QED
  BY <1>0 DEF Targets, RowInv, TornByDrop, StateInv, HandleInv, ForceTarget, TypeInv, TypeOK,
     DiskTypes

\* The parts that a merge may take on are below p.nextID.
LEMMA ListedNumbers ==
  ASSUME NoStaleMerge, StateInv, RowInv, fpc # "idle" \/ mpc # "idle", torn = "no"
  PROVE  \A n \in Listed(parts[cur]) : n \in PartIDs /\ n < nextID[cur]
<1>0. Targets
  BY WorkOnTheLiveObject DEF StateInv
<1>1. cur # 0 /\ rpc # "remove"
  BY <1>0 DEF Targets, StateInv, HandleInv, DropAlone
<1>2. Listed(parts[cur]) \subseteq dirs
  BY <1>1 DEF RowInv, WholeParts, Current, LiveList
<1> QED
  BY <1>0, <1>1, <1>2 DEF dirs, StateInv, NumberInv, NumbersPast

\* The part of a flush is none that a merge works on.
LEMMA FlushApartNext ==
  ASSUME NoStaleMerge, StateInv, RowInv, [Next]_vars
  PROVE  FlushApart'
<1>0. Targets
  BY WorkOnTheLiveObject DEF StateInv
<1>a. /\ content \in [PartIDs -> SUBSET Batches] /\ manifest \in Lists
      /\ again \in [PartIDs -> SUBSET Batches] /\ parts \in [Objects -> Lists]
      /\ torn' = "no" => torn = "no"
      /\ rpc \in {"idle", "first", "locked", "remove"}
  BY TornStays DEF StateInv, TypeInv, TypeOK, DiskTypes, ObjectTypes, BoundTypes
<1> USE <1>0, <1>a DEF Targets, StateInv, RowInv, FlushApart, TypeInv, FlushBusy
<1>1. CASE GetPartition
  BY <1>1 DEF GetPartition, OpenPartition
<1>2. CASE AddPartReserve
  BY <1>2, ListedNumbers DEF AddPartReserve, NumberInv, NumbersPast
<1>3. CASE AddPartWriteFails
  BY <1>3 DEF AddPartWriteFails, Fault
<1>4. CASE AddPartRename
  BY <1>4 DEF AddPartRename, Rename
<1>5. CASE AddPartPublish
  BY <1>5 DEF AddPartPublish
<1>6. CASE AddPartPublishFails
  BY <1>6 DEF AddPartPublishFails, Fault
<1>7. CASE MaybeCompact
  BY <1>7 DEF MaybeCompact, CompactPartition, Returns, SmallParts
<1>8. CASE ForceCompact
  <2>1. gobj = cur /\ cur \in Objects /\ torn = "no"
    BY <1>8, NothingTorn DEF ForceCompact
  <2>2. mpc' # "idle" => Listed(mnames') \subseteq Listed(parts[cur])
    BY <1>8, <2>1, SomethingToMerge DEF ForceCompact
  <2>3. UNCHANGED <<fpc, fid, cur, parts>>
    BY <1>8 DEF ForceCompact, CompactPartition, Returns
  <2> QED
    BY <2>1, <2>2, <2>3
<1>9. CASE MergeRead
  BY <1>9 DEF MergeRead, MergeDone, Returns
<1>10. CASE MergeRename
  BY <1>10 DEF MergeRename, Rename, MergeDone, Returns
<1>11. CASE MergeSave
  <2>1. /\ UNCHANGED <<fpc, fid, cur, mnames, torn>> /\ mpc = "save" /\ mobj = cur /\ cur \in Objects
        /\ parts'[cur] = Plus(Without(parts[cur], Listed(mnames)), mid)
    BY <1>11 DEF MergeSave
  <2>2. mid \in PartIDs /\ (fpc \in {"write", "rename", "publish"} => fid # mid)
    BY <2>1 DEF MergeBusy, NumberInv, NumbersFree
  <2>3. Listed(parts'[cur]) \subseteq Listed(parts[cur]) \cup {mid}
    BY <2>1, <2>2, PlusList, WithoutList
  <2> QED
    BY <2>1, <2>2, <2>3
<1>12. ASSUME NEW n \in PartIDs, MergeDelete(n)
      PROVE  FlushApart'
  BY <1>12, MinusList DEF MergeDelete, Remove, MergeDone, Returns
<1>13. CASE DropStart
  BY <1>13 DEF DropStart
<1>14. CASE DropDone
  BY <1>14 DEF DropDone, Fault, HandleInv, DropAlone
<1>15. CASE Crash
  BY <1>15 DEF Crash
<1>16. CASE Open
  BY <1>16 DEF Open, OpenPartition, DownIsIdle
<1>17. CASE AddPartWrite \/ ForceMerge \/ MergeWrite \/ MergeWriteFails \/ MergeSaveFails
  BY <1>17 DEF AddPartWrite, ForceMerge, MergeWrite, MergeWriteFails, Fault,
    MergeDone, Returns, MergeSaveFails
<1>18. CASE DropRemovesManifest
  BY <1>18 DEF DropRemovesManifest
<1>19. ASSUME NEW n \in PartIDs, DropRemoves(n)
      PROVE  FlushApart'
  BY <1>19 DEF DropRemoves, Remove
<1>20. ASSUME NEW q \in Readers, QueryStart(q) \/ QueryStep(q)
      PROVE  FlushApart'
  BY <1>20, QueriesOnlyRead
<1>r. CASE ApplyRetention \/ RetentionLocks
  BY <1>r DEF ApplyRetention, RetentionLocks
<1>21. CASE UNCHANGED vars
  BY <1>21 DEF vars
<1> QED
  BY <1>1, <1>2, <1>3, <1>4, <1>5, <1>6, <1>7, <1>8, <1>9, <1>10, <1>11, <1>12,
     <1>13, <1>14, <1>15, <1>16, <1>17, <1>18, <1>19, <1>20, <1>21, <1>r
  DEF Next, FlushStep, MergeStep, RetentionStep, DropStep

\* A merge ends up with the rows it began with.
LEMMA MergeKeepsRowsNext ==
  ASSUME NoStaleMerge, StateInv, RowInv, [Next]_vars
  PROVE  MergeKeepsRows'
<1>0. Targets
  BY WorkOnTheLiveObject DEF StateInv
<1>a. /\ content \in [PartIDs -> SUBSET Batches] /\ manifest \in Lists
      /\ again \in [PartIDs -> SUBSET Batches] /\ parts \in [Objects -> Lists]
      /\ rpc \in {"idle", "first", "locked", "remove"}
  BY DEF StateInv, TypeInv, TypeOK, DiskTypes, ObjectTypes, BoundTypes
<1>b. /\ RowsIn(mnames) = Rows(content, mnames)
      /\ RowsTwice(mnames) = Twice(content, again, mnames)
      /\ RowsIn(mnames)' = Rows(content', mnames')
      /\ RowsTwice(mnames)' = Twice(content', again', mnames')
  BY DEF RowsIn, RowsTwice, Rows, Twice
<1>s. (\A n \in Listed(mnames) : content'[n] = content[n] /\ again'[n] = again[n]) /\ mnames' = mnames
      => RowsIn(mnames)' = RowsIn(mnames) /\ RowsTwice(mnames)' = RowsTwice(mnames)
  BY <1>b, SameRows
<1> USE <1>0, <1>a, <1>b DEF Targets, StateInv, RowInv, MergeKeepsRows, TypeInv,
    FlushBusy, MergeBusy
<1>1. CASE GetPartition
  BY <1>1 DEF GetPartition, OpenPartition
<1>2. CASE AddPartReserve
  <2>1. UNCHANGED <<parts, content, again, cur, mpc, mid, mnames, mrows, mtwice>>
    BY <1>2 DEF AddPartReserve
  <2>2. mpc = "read" => nextID'[cur] >= nextID[cur]
    BY <1>2 DEF AddPartReserve
  <2>3. mpc = "read" => \A n \in Listed(parts[cur]) : n < nextID'[cur]
    <3>1. mpc = "read" => fpc # "merging" /\ nextID[cur] \in Nat /\ nextID'[cur] \in Nat
      BY <1>2 DEF AddPartReserve
    <3> QED
      BY <2>2, <3>1 DEF Listed
  <2> QED
    BY <2>1, <2>3
<1>3. CASE AddPartRename
  <2>1. UNCHANGED <<parts, nextID, cur, mpc, mid, mnames, mrows, mtwice>>
    BY <1>3 DEF AddPartRename
  <2>2. mpc # "idle" => \A n \in Listed(mnames) : content'[n] = content[n] /\ again'[n] = again[n]
    BY <1>3 DEF AddPartRename, Rename, FlushApart
  <2>3. mpc # "idle" => RowsIn(mnames)' = RowsIn(mnames) /\ RowsTwice(mnames)' = RowsTwice(mnames)
    BY <2>1, <2>2, SameRows
  <2>4. mpc = "save" => content'[mid] = content[mid] /\ again'[mid] = again[mid]
    BY <1>3 DEF AddPartRename, Rename, NumberInv, NumbersFree
  <2> QED
    BY <2>1, <2>3, <2>4
<1>4. CASE AddPartPublish
  <2>1. /\ UNCHANGED <<content, again, nextID, cur, mpc, mid, mnames, mrows, mtwice>>
        /\ fpc = "publish" /\ fid \in PartIDs /\ cur \in Objects
        /\ parts'[cur] = Plus(parts[cur], fid)
    BY <1>4 DEF AddPartPublish, Fault
  <2>2. /\ Listed(parts'[cur]) = Listed(parts[cur]) \cup {fid}
        /\ \A n \in PartIDs : n # fid => parts'[cur][n] = parts[cur][n]
    BY <2>1, PlusList
  <2>3. /\ fid < nextID[cur]
        /\ mpc # "idle" => fid \notin Listed(mnames)
        /\ mpc \in {"write", "rename", "save"} => fid # mid
    BY <2>1 DEF FlushApart, NumberInv, NumbersPast, NumbersFree
  <2> QED
    BY <2>1, <2>2, <2>3
<1>5. CASE AddPartPublishFails
  <2>1. /\ UNCHANGED <<content, again, nextID, cur, mpc, mid, mnames, mrows, mtwice>>
        /\ fpc = "publish" /\ fid \in PartIDs /\ cur \in Objects
        /\ parts'[cur] = Plus(parts[cur], fid)
    BY <1>5 DEF AddPartPublishFails, Fault
  <2>2. /\ Listed(parts'[cur]) = Listed(parts[cur]) \cup {fid}
        /\ \A n \in PartIDs : n # fid => parts'[cur][n] = parts[cur][n]
    BY <2>1, PlusList
  <2>3. /\ fid < nextID[cur]
        /\ mpc # "idle" => fid \notin Listed(mnames)
        /\ mpc \in {"write", "rename", "save"} => fid # mid
    BY <2>1 DEF FlushApart, NumberInv, NumbersPast, NumbersFree
  <2> QED
    BY <2>1, <2>2, <2>3
<1>6. CASE MaybeCompact
  <2>1. CASE mpc' = "idle"
    BY <1>6, <2>1 DEF MaybeCompact, CompactPartition, Returns
  <2>2. CASE mpc' # "idle"
    <3>1. /\ mpc' = "read" /\ mnames' = SmallParts(cur) /\ Listed(parts[cur]) \subseteq dirs
          /\ cur # 0
      BY <1>6, <2>2, SomethingToMerge, PartitionAssumption DEF MaybeCompact
    <3>2. UNCHANGED <<parts, nextID, cur, content>>
      BY <1>6 DEF MaybeCompact, CompactPartition
    <3> QED
      BY <3>1, <3>2, WithoutList DEF SmallParts, dirs, NumberInv, NumbersPast
  <2> QED
    BY <2>1, <2>2
<1>7. CASE ForceCompact
  <2>1. CASE mpc' = "idle"
    BY <1>7, <2>1 DEF ForceCompact, CompactPartition, Returns
  <2>2. CASE mpc' # "idle"
    <3>1. /\ mpc' = "read" /\ mnames' = SmallParts(cur) /\ Listed(parts[cur]) \subseteq dirs
          /\ cur # 0
      BY <1>7, <2>2, SomethingToMerge, PartitionAssumption DEF ForceCompact
    <3>2. UNCHANGED <<parts, nextID, cur, content>>
      BY <1>7 DEF ForceCompact, CompactPartition
    <3> QED
      BY <3>1, <3>2, WithoutList DEF SmallParts, dirs, NumberInv, NumbersPast
  <2> QED
    BY <2>1, <2>2
<1>8. CASE MergeRead
  BY <1>8 DEF MergeRead, MergeDone, Returns
<1>9. CASE MergeRename
  <2>1. UNCHANGED <<parts, cur>>
    BY <1>9 DEF MergeRename
  <2>2. CASE mpc' = "idle"
    BY <2>2
  <2>3. CASE mpc' # "idle"
    <3>1. /\ mpc' = "save" /\ UNCHANGED <<mid, mnames, mrows, mtwice>>
          /\ content' = [content EXCEPT ![mid] = mrows] /\ again' = [again EXCEPT ![mid] = mtwice]
      BY <1>9, <2>3 DEF MergeRename, Rename, MergeDone, NumberInv, NumbersFree
    <3>2. \A n \in Listed(mnames) : content'[n] = content[n] /\ again'[n] = again[n]
      <4>1. mpc = "rename" /\ mid \in PartIDs /\ mid \notin Listed(parts[cur])
        BY <1>9 DEF MergeRename
      <4>2. \A n \in Listed(mnames) : n # mid
        BY <4>1 DEF Listed
      <4> QED
        BY <3>1, <4>2
    <3>3. RowsIn(mnames)' = RowsIn(mnames) /\ RowsTwice(mnames)' = RowsTwice(mnames)
      <4>1. mnames' = mnames
        BY <3>1
      <4> QED
        BY <1>s, <3>2, <4>1, Zenon
    <3>4. content'[mid] = mrows /\ again'[mid] = mtwice
      BY <1>9, <3>1 DEF MergeRename
    <3> QED
      BY <1>9, <2>1, <3>1, <3>3, <3>4 DEF MergeRename
  <2> QED
    BY <2>2, <2>3
<1>10. CASE MergeSave
  <2>1. /\ UNCHANGED <<cur, mid, mnames>> /\ mpc = "save" /\ mpc' = "delete" /\ mobj = cur
        /\ cur \in Objects /\ mid \in PartIDs
        /\ parts'[cur] = Plus(Without(parts[cur], Listed(mnames)), mid)
    BY <1>10 DEF MergeSave
  <2>2. Listed(parts'[cur]) = (Listed(parts[cur]) \ Listed(mnames)) \cup {mid}
    BY <2>1, PlusList, WithoutList
  <2>3. mid \notin Listed(mnames)
    BY <2>1 DEF Listed
  <2> QED
    BY <2>1, <2>2, <2>3
<1>11. ASSUME NEW n \in PartIDs, MergeDelete(n)
      PROVE  MergeKeepsRows'
  BY <1>11, MinusList DEF MergeDelete, Remove, MergeDone, Returns
<1>12. ASSUME NEW n \in PartIDs, DropRemoves(n)
      PROVE  MergeKeepsRows'
  BY <1>12 DEF DropRemoves, Remove, HandleInv, DropAlone
<1>13. CASE DropDone
  BY <1>13 DEF DropDone, Fault, HandleInv, DropAlone
<1>14. CASE Crash
  BY <1>14 DEF Crash
<1>15. CASE Open
  BY <1>15 DEF Open, OpenPartition, DownIsIdle
<1>16. CASE AddPartWrite \/ AddPartWriteFails \/ ForceMerge \/ MergeWrite \/ MergeWriteFails
  BY <1>16 DEF AddPartWrite, AddPartWriteFails, Fault, ForceMerge, MergeWrite,
    MergeWriteFails, MergeDone, Returns
<1>17. CASE MergeSaveFails \/ DropStart \/ DropRemovesManifest
  BY <1>17 DEF MergeSaveFails, Fault, MergeDone, Returns, DropStart,
    DropRemovesManifest
<1>18. ASSUME NEW q \in Readers, QueryStart(q) \/ QueryStep(q)
      PROVE  MergeKeepsRows'
  BY <1>18, QueriesOnlyRead
<1>r. CASE ApplyRetention \/ RetentionLocks
  BY <1>r DEF ApplyRetention, RetentionLocks
<1>19. CASE UNCHANGED vars
  BY <1>19 DEF vars
<1> QED
  BY <1>1, <1>2, <1>3, <1>4, <1>5, <1>6, <1>7, <1>8, <1>9, <1>10, <1>11, <1>12,
     <1>13, <1>14, <1>15, <1>16, <1>17, <1>18, <1>19, <1>r
  DEF Next, FlushStep, MergeStep, RetentionStep, DropStep

-----------------------------------------------------------------------------
(* The listed parts.                                                        *)

\* A list that counts is a list, whoever has it.
LEMMA LiveListType ==
  ASSUME StateInv
  PROVE  LiveList \in Lists /\ Current \subseteq PartIDs
<1>1. manifest \in Lists /\ (cur # 0 => parts[cur] \in Lists)
  BY ObjectsExist DEF StateInv, TypeInv, TypeOK, DiskTypes, ObjectTypes
<1> QED
  BY <1>1 DEF LiveList, Current, Listed

\* What lists the part of a flush ...
LEMMA FlushPublishes ==
  ASSUME NoStaleMerge, StateInv, RowInv, AddPartPublish \/ AddPartPublishFails
  PROVE  /\ UNCHANGED <<cur, content, again, rpc, torn, pdir, proc, dropped, rd>>
         /\ cur \in Objects /\ cur # 0 /\ fid \in PartIDs /\ fbatch \in Batches
         /\ parts'[cur] = Plus(parts[cur], fid) /\ parts'[cur] \in Lists
         /\ Listed(parts'[cur]) = Listed(parts[cur]) \cup {fid}
         /\ \A n \in PartIDs : parts'[cur][n] = IF n = fid THEN parts[cur][fid] + 1 ELSE parts[cur][n]
         /\ content[fid] = {fbatch} /\ again[fid] = {}
         /\ \A n \in PartIDs : n # fid => fbatch \notin content[n]
<1>0. Targets
  BY WorkOnTheLiveObject DEF StateInv
<1>1. /\ fpc = "publish" /\ cur \in Objects /\ cur # 0 /\ fid \in PartIDs /\ fbatch \in Batches
      /\ fobj = cur
  BY <1>0 DEF AddPartPublish, AddPartPublishFails, Targets, StateInv, TypeInv, FlushBusy
<1>2. parts \in [Objects -> Lists]
  BY DEF StateInv, TypeInv, TypeOK, ObjectTypes
<1>3. parts'[cur] = Plus(parts[cur], fid)
  BY <1>1, <1>2 DEF AddPartPublish, AddPartPublishFails
<1>4. /\ parts'[cur] \in Lists
      /\ Listed(parts'[cur]) = Listed(parts[cur]) \cup {fid}
      /\ \A n \in PartIDs : parts'[cur][n] = IF n = fid THEN parts[cur][fid] + 1 ELSE parts[cur][n]
  BY <1>1, <1>2, <1>3, PlusList
<1>5. /\ content[fid] = {fbatch} /\ again[fid] = {}
      /\ \A n \in PartIDs : n # fid => fbatch \notin content[n]
  BY <1>1 DEF RowInv, BatchIsNew
<1>6. UNCHANGED <<cur, content, again, rpc, torn, pdir, proc, dropped, rd>>
  BY DEF AddPartPublish, AddPartPublishFails, Fault
<1> QED
  BY <1>1, <1>3, <1>4, <1>5, <1>6

\* ... and that of a merge.
LEMMA MergeSaves ==
  ASSUME NoStaleMerge, StateInv, RowInv, MergeSave
  PROVE  /\ UNCHANGED <<cur, content, again, rpc, torn, pdir, proc, acked, dropped, rd>>
         /\ cur \in Objects /\ cur # 0 /\ mid \in PartIDs
         /\ mid \notin Listed(parts[cur]) /\ Listed(mnames) \subseteq Listed(parts[cur])
         /\ manifest' = parts'[cur] /\ parts'[cur] \in Lists
         /\ Listed(parts'[cur]) = (Listed(parts[cur]) \ Listed(mnames)) \cup {mid}
         /\ \A n \in Listed(parts[cur]) \ Listed(mnames) : parts'[cur][n] = parts[cur][n]
         /\ parts'[cur][mid] = 1
         /\ content[mid] = Rows(content, mnames) /\ again[mid] = Twice(content, again, mnames)
         /\ content[mid] # {}
         /\ Rows(content, parts'[cur]) = Rows(content, parts[cur])
         /\ Twice(content, again, parts'[cur]) = Twice(content, again, parts[cur])
<1>0. Targets
  BY WorkOnTheLiveObject DEF StateInv
<1>1. /\ mpc = "save" /\ cur \in Objects /\ cur # 0 /\ mid \in PartIDs /\ mobj = cur
      /\ mnames \in Lists
  BY <1>0 DEF MergeSave, Targets, StateInv, TypeInv, MergeBusy
<1>2. parts \in [Objects -> Lists] /\ parts[cur] \in Lists
  BY <1>1 DEF StateInv, TypeInv, TypeOK, ObjectTypes
<1>3. parts'[cur] = Plus(Without(parts[cur], Listed(mnames)), mid) /\ manifest' = parts'[cur]
  BY <1>1, <1>2 DEF MergeSave
<1>4. /\ mid \notin Listed(parts[cur]) /\ (\A n \in Listed(mnames) : mnames[n] = parts[cur][n])
      /\ content[mid] = RowsIn(mnames) /\ again[mid] = RowsTwice(mnames) /\ content[mid] # {}
  BY <1>1 DEF RowInv, MergeKeepsRows, StateInv, NumberInv, NumbersFree
<1>5. content[mid] = Rows(content, mnames) /\ again[mid] = Twice(content, again, mnames)
  BY <1>4 DEF RowsIn, RowsTwice, Rows, Twice
<1>6. Listed(mnames) \subseteq Listed(parts[cur])
  BY <1>4 DEF Listed
<1>7. /\ Without(parts[cur], Listed(mnames)) \in Lists
      /\ Listed(Without(parts[cur], Listed(mnames))) = Listed(parts[cur]) \ Listed(mnames)
      /\ \A n \in PartIDs : Without(parts[cur], Listed(mnames))[n] =
            IF n \in Listed(mnames) THEN 0 ELSE parts[cur][n]
  BY <1>2, WithoutList
<1>8. /\ parts'[cur] \in Lists
      /\ Listed(parts'[cur]) = (Listed(parts[cur]) \ Listed(mnames)) \cup {mid}
      /\ \A n \in Listed(parts[cur]) \ Listed(mnames) : parts'[cur][n] = parts[cur][n]
      /\ parts'[cur][mid] = 1
  <2>1. parts[cur][mid] = 0 /\ mid \notin Listed(mnames)
    BY <1>1, <1>2, <1>4, <1>6 DEF Listed, Lists
  <2>2. /\ parts'[cur] \in Lists
        /\ Listed(parts'[cur]) = Listed(Without(parts[cur], Listed(mnames))) \cup {mid}
        /\ \A n \in PartIDs : parts'[cur][n] = IF n = mid
             THEN Without(parts[cur], Listed(mnames))[mid] + 1 ELSE Without(parts[cur], Listed(mnames))[n]
    BY <1>1, <1>3, <1>7, PlusList
  <2>3. \A n \in Listed(parts[cur]) : n \in PartIDs
    BY DEF Listed
  <2> QED
    BY <1>1, <1>4, <1>7, <2>1, <2>2, <2>3
<1>9. /\ Rows(content, parts'[cur]) = Rows(content, parts[cur])
      /\ Twice(content, again, parts'[cur]) = Twice(content, again, parts[cur])
  BY <1>1, <1>2, <1>3, <1>4, <1>5, MergedRows
<1>10. UNCHANGED <<cur, content, again, rpc, torn, pdir, proc, acked, dropped, rd>>
  BY DEF MergeSave
<1> QED
  BY <1>1, <1>3, <1>4, <1>5, <1>6, <1>8, <1>9, <1>10

\* Most steps leave the lists and the directories alone.
Idle == UNCHANGED <<cur, parts, manifest, content, again, torn, pdir, proc>>

LEMMA IdleSteps ==
  ASSUME [Next]_vars
  PROVE  \/ Idle /\ (dropped' = dropped \/ DropStart)
         \/ GetPartition \/ AddPartRename \/ AddPartPublish \/ AddPartPublishFails
         \/ MergeRename \/ MergeSave \/ \E n \in PartIDs : MergeDelete(n)
         \/ \E n \in PartIDs : DropRemoves(n)
         \/ DropRemovesManifest \/ DropDone \/ Crash \/ Open
<1>1. CASE AddPartReserve \/ AddPartWrite \/ AddPartWriteFails \/ MaybeCompact \/ ForceMerge
  BY <1>1 DEF Idle, AddPartReserve, AddPartWrite, AddPartWriteFails, MaybeCompact,
    CompactPartition, ForceMerge
<1>2. CASE ForceCompact \/ MergeRead \/ MergeWrite \/ MergeWriteFails \/ MergeSaveFails
  BY <1>2 DEF Idle, ForceCompact, CompactPartition, MergeRead, MergeWrite, MergeWriteFails,
    MergeSaveFails
<1>3. CASE ApplyRetention \/ RetentionLocks \/ DropStart
  BY <1>3 DEF Idle, ApplyRetention, RetentionLocks, DropStart
<1>4. ASSUME NEW q \in Readers, QueryStart(q) \/ QueryStep(q)
      PROVE  Idle /\ dropped' = dropped
  BY <1>4, QueriesOnlyRead DEF Idle
<1>5. CASE UNCHANGED vars
  BY <1>5 DEF Idle, vars
<1> QED
  BY <1>1, <1>2, <1>3, <1>4, <1>5 DEF Next, FlushStep, MergeStep, RetentionStep, DropStep

\* The manifest lists no part more often than p.parts.
LEMMA ManifestListed ==
  ASSUME NoStaleMerge, StateInv, RowInv, [Next]_vars
  PROVE  (cur # 0 => \A n \in PartIDs : manifest[n] <= parts[cur][n])'
<1>0. Targets
  BY WorkOnTheLiveObject DEF StateInv
<1>a. manifest \in Lists /\ parts \in [Objects -> Lists]
  BY DEF StateInv, TypeInv, TypeOK, DiskTypes, ObjectTypes
<1>b. (\A n \in PartIDs : manifest[n] \in Nat) /\ \A p \in Objects : \A n \in PartIDs : parts[p][n] \in Nat
  BY <1>a DEF Lists
<1>c. cur # 0 => \A n \in PartIDs : manifest[n] <= parts[cur][n]
  BY DEF RowInv, ListedOnce
<1>1. CASE GetPartition
  <2>1. CASE cur = 0
    <3>1. opens + 1 \in Objects /\ cur' = opens + 1 /\ parts'[cur'] = manifest /\ manifest' = manifest
      BY <1>1, <1>a, <2>1, ObjectsExist DEF GetPartition, OpenPartition, StateInv
    <3> QED
      BY <3>1, <1>b
  <2>2. CASE cur # 0
    BY <1>1, <1>c, <2>2 DEF GetPartition, OpenPartition
  <2> QED
    BY <2>1, <2>2
<1>2. CASE AddPartPublish
  <2>1. manifest' = parts'[cur] /\ cur' = cur /\ cur \in Objects
    BY <1>2, FlushPublishes DEF AddPartPublish, StateInv, HandleInv, FlushTargetIsCurrent
  <2>2. \A n \in PartIDs : parts'[cur][n] \in Nat
    BY <1>2, <1>b, FlushPublishes
  <2> QED
    BY <2>1, <2>2
<1>3. CASE AddPartPublishFails
  <2>1. /\ manifest' = manifest /\ cur' = cur /\ cur \in Objects /\ cur # 0
        /\ \A n \in PartIDs : parts'[cur][n] = IF n = fid THEN parts[cur][fid] + 1 ELSE parts[cur][n]
    BY <1>3, FlushPublishes DEF AddPartPublishFails
  <2> QED
    BY <1>b, <1>c, <2>1
<1>4. CASE MergeSave
  <2>1. manifest' = parts'[cur] /\ cur' = cur /\ cur \in Objects
    BY <1>4, MergeSaves
  <2>2. \A n \in PartIDs : parts'[cur][n] \in Nat
    BY <1>4, MergeSaves DEF Lists
  <2> QED
    BY <2>1, <2>2
<1>5. CASE DropRemovesManifest
  <2>1. manifest' = NoParts /\ UNCHANGED <<cur, parts>> /\ (cur # 0 => cur \in Objects)
    BY <1>5, <1>0 DEF DropRemovesManifest, Targets
  <2> QED
    BY <2>1, <1>b DEF NoParts
<1>6. CASE DropDone \/ Crash
  BY <1>6 DEF DropDone, Crash
<1>7. CASE Open
  <2>1. CASE pdir = "present"
    <3>1. cur' = 1 /\ 1 \in Objects /\ parts'[1] = manifest /\ manifest' = manifest
      BY <1>7, <1>a, <2>1, ObjectsExist DEF Open, OpenPartition, StateInv
    <3> QED
      BY <3>1, <1>b
  <2>2. CASE pdir # "present"
    BY <1>7, <1>c, <2>2 DEF Open, OpenPartition
  <2> QED
    BY <2>1, <2>2
<1>8. CASE Idle \/ AddPartRename \/ MergeRename
           \/ \E n \in PartIDs : MergeDelete(n) \/ DropRemoves(n)
  <2>1. UNCHANGED <<cur, parts, manifest>>
    BY <1>8 DEF Idle, AddPartRename, MergeRename, Rename, MergeDelete, DropRemoves
  <2> QED
    BY <1>c, <2>1
<1> QED
  BY <1>1, <1>2, <1>3, <1>4, <1>5, <1>6, <1>7, <1>8, IdleSteps

\* What the steps do to the listed parts: all stays as it is, or some are no
\* longer listed or lose their directory, or a flush or a merge lists its own.
LEMMA ListedNext ==
  ASSUME NoStaleMerge, StateInv, RowInv, [Next]_vars
  PROVE  \/ AddPartRename \/ MergeRename \/ MergeSave
         \/ AddPartPublish \/ AddPartPublishFails
         \/ /\ LiveList' \in Lists
            /\ \A n \in PartIDs : LiveList'[n] <= LiveList[n]
            /\ \A n \in PartIDs : content'[n] \in {content[n], {}} /\ again'[n] \in {again[n], {}}
            /\ \/ \A n \in Current' : content'[n] = content[n] /\ again'[n] = again[n]
               \/ rpc' = "remove"
<1>0. Targets
  BY WorkOnTheLiveObject DEF StateInv
<1>a. /\ content \in [PartIDs -> SUBSET Batches] /\ manifest \in Lists
      /\ again \in [PartIDs -> SUBSET Batches] /\ parts \in [Objects -> Lists]
  BY DEF StateInv, TypeInv, TypeOK, DiskTypes, ObjectTypes
<1>b. LiveList \in Lists
  BY LiveListType
<1>c. \A n \in PartIDs : LiveList[n] <= LiveList[n] /\ manifest[n] <= LiveList[n]
  <2>1. \A n \in PartIDs : LiveList[n] \in Nat
    BY <1>b DEF Lists
  <2>2. \A n \in PartIDs : manifest[n] <= LiveList[n]
    BY <2>1 DEF LiveList, RowInv, ListedOnce
  <2> QED
    BY <2>1, <2>2
<1> DEFINE Goal ==
      /\ LiveList' \in Lists
      /\ \A n \in PartIDs : LiveList'[n] <= LiveList[n]
      /\ \A n \in PartIDs : content'[n] \in {content[n], {}} /\ again'[n] \in {again[n], {}}
      /\ \/ \A n \in Current' : content'[n] = content[n] /\ again'[n] = again[n]
         \/ rpc' = "remove"
<1>d. ASSUME LiveList' = LiveList \/ LiveList' = manifest, UNCHANGED <<content, again>>
      PROVE  Goal
  BY <1>a, <1>b, <1>c, <1>d
<1>1. ASSUME GetPartition PROVE Goal
  <2>1. CASE cur = 0
    <3>1. opens + 1 \in Objects /\ opens + 1 # 0
      BY <1>1, <2>1, ObjectsExist DEF GetPartition, StateInv, Objects
    <3>2. cur' = opens + 1 /\ parts'[cur'] = manifest /\ UNCHANGED <<manifest, content, again>>
      BY <1>1, <1>a, <2>1, <3>1 DEF GetPartition, OpenPartition
    <3> QED
      BY <1>d, <3>1, <3>2 DEF LiveList
  <2>2. CASE cur # 0
    BY <1>1, <1>d, <2>2 DEF GetPartition, OpenPartition, LiveList
  <2> QED
    BY <2>1, <2>2
<1>2. ASSUME NEW n \in PartIDs, MergeDelete(n)
      PROVE  Goal
  <2>1. UNCHANGED <<cur, parts, manifest>> /\ LiveList' = LiveList /\ Current' = Current
    BY <1>2 DEF MergeDelete, LiveList, Current
  <2>2. content' = [content EXCEPT ![n] = {}] /\ again' = [again EXCEPT ![n] = {}]
    BY <1>2 DEF MergeDelete, Remove
  <2>3. cur # 0 /\ n \notin Listed(parts[cur])
    BY <1>2, <1>0 DEF MergeDelete, Targets, RowInv, MergeKeepsRows
  <2>4. n \notin Current /\ Current \subseteq PartIDs
    BY <2>3, LiveListType DEF Current, LiveList
  <2> QED
    BY <1>a, <1>b, <1>c, <2>1, <2>2, <2>4
<1>3. ASSUME NEW n \in PartIDs, DropRemoves(n)
      PROVE  Goal
  <2>1. UNCHANGED <<cur, parts, manifest>> /\ LiveList' = LiveList /\ rpc' = "remove"
    BY <1>3 DEF DropRemoves, LiveList
  <2>2. content' = [content EXCEPT ![n] = {}] /\ again' = [again EXCEPT ![n] = {}]
    BY <1>3 DEF DropRemoves, Remove
  <2> QED
    BY <1>a, <1>b, <1>c, <2>1, <2>2
<1>4. ASSUME DropRemovesManifest PROVE Goal
  <2>1. cur # 0
    BY <1>4 DEF DropRemovesManifest, StateInv, HandleInv, DropAlone
  <2> QED
    BY <1>4, <1>d, <2>1 DEF DropRemovesManifest, LiveList
<1>5. ASSUME DropDone \/ Crash PROVE Goal
  BY <1>5, <1>d DEF DropDone, Crash, LiveList
<1>6. ASSUME Open PROVE Goal
  <2>1. cur = 0
    BY <1>6 DEF Open, StateInv, TypeInv, TypeOK, ObjectTypes, DownIsIdle
  <2>2. CASE pdir = "present"
    <3>1. cur' = 1 /\ parts'[1] = manifest /\ UNCHANGED <<manifest, content, again>>
      BY <1>6, <1>a, <2>2, ObjectsExist DEF Open, OpenPartition, StateInv
    <3> QED
      BY <1>d, <3>1 DEF LiveList
  <2>3. CASE pdir # "present"
    BY <1>6, <1>d, <2>3 DEF Open, OpenPartition, LiveList
  <2> QED
    BY <2>2, <2>3
<1>7. ASSUME Idle PROVE Goal
  BY <1>7, <1>d DEF Idle, LiveList
<1> HIDE DEF Goal
<1>8. \/ AddPartRename \/ MergeRename \/ MergeSave \/ AddPartPublish \/ AddPartPublishFails \/ Goal
  BY <1>1, <1>2, <1>3, <1>4, <1>5, <1>6, <1>7, IdleSteps, Zenon
<1> QED
  BY <1>8 DEF Goal

\* A list that names no part more often names no other parts.
LEMMA ShorterList ==
  ASSUME NEW l \in Lists, NEW k \in Lists, \A n \in PartIDs : k[n] <= l[n]
  PROVE  Listed(k) \subseteq Listed(l)
BY DEF Listed, Lists

\* No two listed parts share a row.
LEMMA DisjointNext ==
  ASSUME NoStaleMerge, StateInv, RowInv, [Next]_vars
  PROVE  Disjoint(Current)'
<1>0. Targets
  BY WorkOnTheLiveObject DEF StateInv
<1>a. content \in [PartIDs -> SUBSET Batches]
  BY DEF StateInv, TypeInv, TypeOK, DiskTypes
<1>b. LiveList \in Lists /\ Current \subseteq PartIDs /\ (cur # 0 => Current = Listed(parts[cur]))
  BY LiveListType DEF Current, LiveList
<1>c. Disjoint(Current)
  BY DEF RowInv, ListedOnce
<1>1. CASE AddPartRename
  <2>1. Current' = Current
    BY <1>1 DEF AddPartRename, Rename, Current, LiveList
  <2>2. \A n \in PartIDs : content'[n] = content[n] \/ (n = fid /\ content'[n] = {fbatch})
    BY <1>1, <1>a DEF AddPartRename, Rename, StateInv, NumberInv, NumbersFree
  <2>3. \A n \in PartIDs : fbatch \notin content[n]
    BY <1>1 DEF AddPartRename, RowInv, BatchIsNew
  <2> QED
    BY <1>b, <1>c, <2>1, <2>2, <2>3 DEF Disjoint
<1>2. CASE MergeRename
  <2>1. Current' = Current /\ mid \notin Current
    BY <1>2, <1>0, <1>b DEF MergeRename, Rename, Current, LiveList, Targets, RowInv, MergeKeepsRows
  <2>2. \A n \in Current : content'[n] = content[n]
    BY <1>2, <1>a, <1>b, <2>1 DEF MergeRename, Rename
  <2> QED
    BY <1>c, <2>1, <2>2 DEF Disjoint
<1>3. CASE MergeSave
  <2>1. /\ Current = Listed(parts[cur]) /\ content[mid] = Rows(content, mnames)
        /\ Listed(mnames) \subseteq Current
    BY <1>3, <1>b, MergeSaves
  <2>2. Current' = (Current \ Listed(mnames)) \cup {mid} /\ content' = content
    BY <1>3, <2>1, MergeSaves DEF Current, LiveList
  <2>3. \A n \in Current \ Listed(mnames) : content[n] \cap content[mid] = {}
    BY <1>c, <2>1, <2>2 DEF Disjoint, Rows
  <2> QED
    BY <1>c, <2>2, <2>3 DEF Disjoint
<1>4. CASE AddPartPublish \/ AddPartPublishFails
  <2>1. /\ Current = Listed(parts[cur]) /\ content[fid] = {fbatch}
        /\ \A n \in PartIDs : n # fid => fbatch \notin content[n]
    BY <1>4, <1>b, FlushPublishes
  <2>2. Current' = Current \cup {fid} /\ content' = content
    BY <1>4, <2>1, FlushPublishes DEF Current, LiveList
  <2> QED
    BY <1>b, <1>c, <2>1, <2>2 DEF Disjoint
<1>5. CASE /\ LiveList' \in Lists
           /\ \A n \in PartIDs : LiveList'[n] <= LiveList[n]
           /\ \A n \in PartIDs : content'[n] \in {content[n], {}}
  <2>1. Current' \subseteq Current
    BY <1>5, <1>b, ShorterList DEF Current
  <2> QED
    BY <1>b, <1>c, <1>5, <2>1 DEF Disjoint
<1> QED
  BY <1>1, <1>2, <1>3, <1>4, <1>5, ListedNext

\* A drop ends when the object leaves s.partitions, or with the process: if
\* it is not cut short, nothing is left.
LEMMA DropEnds ==
  ASSUME [Next]_vars, rpc = "remove", rpc' # "remove", torn' = "no"
  PROVE  cur' = 0 /\ manifest' = NoParts
<1>1. CASE Crash
  BY <1>1 DEF Crash
<1>2. CASE DropDone
  BY <1>2 DEF DropDone, Fault
<1>3. CASE GetPartition \/ AddPartReserve \/ AddPartWrite \/ AddPartWriteFails \/ AddPartRename
  BY <1>3 DEF GetPartition, AddPartReserve, AddPartWrite, AddPartWriteFails, AddPartRename
<1>4. CASE AddPartPublish \/ AddPartPublishFails \/ MaybeCompact \/ ForceMerge \/ ForceCompact
  BY <1>4 DEF AddPartPublish, AddPartPublishFails, MaybeCompact, CompactPartition, ForceMerge,
    ForceCompact
<1>5. CASE MergeRead \/ MergeWrite \/ MergeWriteFails \/ MergeRename \/ MergeSave \/ MergeSaveFails
  BY <1>5 DEF MergeRead, MergeWrite, MergeWriteFails, MergeRename, MergeSave, MergeSaveFails
<1>6. ASSUME NEW n \in PartIDs, MergeDelete(n) \/ DropRemoves(n)
      PROVE  FALSE
  BY <1>6 DEF MergeDelete, DropRemoves
<1>7. CASE ApplyRetention \/ RetentionLocks \/ DropStart \/ DropRemovesManifest \/ Open
  BY <1>7 DEF ApplyRetention, RetentionLocks, DropStart, DropRemovesManifest, Open
<1>8. ASSUME NEW q \in Readers, QueryStart(q) \/ QueryStep(q)
      PROVE  FALSE
  BY <1>8, QueriesOnlyRead
<1>9. CASE UNCHANGED vars
  BY <1>9 DEF vars
<1> QED
  BY <1>1, <1>2, <1>3, <1>4, <1>5, <1>6, <1>7, <1>8, <1>9
  DEF Next, FlushStep, MergeStep, RetentionStep, DropStep

\* Every listed part has its directory and is listed once, unless a drop was
\* cut short.
LEMMA WholePartsNext ==
  ASSUME NoStaleMerge, StateInv, RowInv, [Next]_vars
  PROVE  WholeParts'
<1> SUFFICES ASSUME torn' = "no"
             PROVE  /\ rpc' # "remove" => Current' \subseteq dirs'
                    /\ \A n \in Current' : LiveList'[n] = 1 /\ again'[n] = {}
  BY DEF WholeParts
<1>0. Targets
  BY WorkOnTheLiveObject DEF StateInv
<1>a. content \in [PartIDs -> SUBSET Batches] /\ again \in [PartIDs -> SUBSET Batches]
  BY DEF StateInv, TypeInv, TypeOK, DiskTypes
<1>b. LiveList \in Lists /\ Current \subseteq PartIDs /\ (cur # 0 => LiveList = parts[cur])
  BY LiveListType DEF LiveList
<1>c. torn = "no"
  BY TornStays
<1>d. /\ rpc # "remove" => \A n \in Current : content[n] # {}
      /\ \A n \in Current : LiveList[n] = 1 /\ again[n] = {}
  BY <1>c DEF RowInv, WholeParts, dirs
<1>e. fpc # "idle" \/ mpc # "idle" => rpc # "remove" /\ cur # 0
  BY <1>0 DEF Targets, StateInv, HandleInv, DropAlone
<1>f. Current' \subseteq PartIDs /\ (\A n \in Current' : content'[n] # {}) => Current' \subseteq dirs'
  BY DEF dirs
<1>1. CASE AddPartRename
  <2>1. LiveList' = LiveList /\ Current' = Current /\ fpc = "rename"
    BY <1>1 DEF AddPartRename, Rename, Current, LiveList
  <2>2. /\ \A n \in PartIDs : content'[n] = content[n] \/ content'[n] = {fbatch}
        /\ \A n \in PartIDs : again'[n] = again[n] \/ again'[n] = {}
    BY <1>1, <1>a DEF AddPartRename, Rename, StateInv, NumberInv, NumbersFree
  <2>3. \A n \in Current : content[n] # {} /\ again[n] = {}
    BY <1>d, <1>e, <2>1
  <2>4. {fbatch} # {}
    OBVIOUS
  <2>5. \A n \in Current : content'[n] # {}
    BY <1>b, <2>2, <2>3, <2>4
  <2>6. \A n \in Current : again'[n] = {}
    BY <1>b, <2>2, <2>3, Zenon
  <2> QED
    BY <1>b, <1>d, <1>f, <2>1, <2>5, <2>6
<1>2. CASE MergeRename
  <2>1. LiveList' = LiveList /\ Current' = Current /\ mid \notin Current /\ mpc = "rename"
    BY <1>2, <1>0, <1>b DEF MergeRename, Rename, Current, LiveList, Targets, RowInv, MergeKeepsRows
  <2>2. \A n \in Current : content'[n] = content[n] /\ again'[n] = again[n]
    BY <1>2, <1>a, <1>b, <2>1 DEF MergeRename, Rename
  <2> QED
    BY <1>b, <1>d, <1>e, <1>f, <2>1, <2>2
<1>3. CASE MergeSave
  <2>1. /\ Current = Listed(parts[cur]) /\ LiveList = parts[cur] /\ cur # 0 /\ mid \in PartIDs
        /\ Listed(mnames) \subseteq Current
    BY <1>3, <1>b, MergeSaves DEF Current
  <2>2. LiveList' = parts'[cur] /\ content' = content /\ again' = again
    BY <1>3, <2>1, MergeSaves DEF LiveList
  <2>3. /\ Current' = (Current \ Listed(mnames)) \cup {mid}
        /\ parts'[cur][mid] = 1
        /\ \A n \in Current \ Listed(mnames) : parts'[cur][n] = parts[cur][n]
    BY <1>3, <2>1, <2>2, MergeSaves DEF Current
  <2>4. again[mid] = {}
    <3>1. \A n \in Listed(mnames) : mnames[n] = 1 /\ again[n] = {}
      BY <1>3, <1>d, <2>1 DEF MergeSave, RowInv, MergeKeepsRows
    <3>2. \A m, n \in Listed(mnames) : m # n => content[m] \cap content[n] = {}
      BY <2>1 DEF RowInv, ListedOnce, Disjoint
    <3>3. Twice(content, again, mnames) = {}
      BY <3>1, <3>2 DEF Twice
    <3> QED
      BY <1>3, <3>3, MergeSaves
  <2>5. content[mid] # {} /\ mpc = "save"
    BY <1>3, MergeSaves DEF MergeSave
  <2> QED
    BY <1>b, <1>d, <1>e, <1>f, <2>1, <2>2, <2>3, <2>4, <2>5
<1>4. CASE AddPartPublish \/ AddPartPublishFails
  <2>1. /\ Current = Listed(parts[cur]) /\ LiveList = parts[cur] /\ cur # 0 /\ fid \in PartIDs
        /\ content[fid] # {} /\ again[fid] = {} /\ fpc = "publish"
    BY <1>4, <1>b, FlushPublishes DEF Current, AddPartPublish, AddPartPublishFails
  <2>2. LiveList' = parts'[cur] /\ content' = content /\ again' = again
    BY <1>4, <2>1, FlushPublishes DEF LiveList
  <2>3. /\ Current' = Current \cup {fid}
        /\ \A n \in PartIDs : parts'[cur][n] = IF n = fid THEN parts[cur][fid] + 1 ELSE parts[cur][n]
    BY <1>4, <2>1, <2>2, FlushPublishes DEF Current
  <2>4. fid \notin Current
    BY <1>c, <2>1 DEF RowInv, FlushApart
  <2>5. parts[cur][fid] = 0
    BY <1>b, <2>1, <2>4 DEF Listed, Lists
  <2> QED
    BY <1>b, <1>d, <1>e, <1>f, <2>1, <2>2, <2>3, <2>4, <2>5
<1>5. CASE /\ LiveList' \in Lists
           /\ \A n \in PartIDs : LiveList'[n] <= LiveList[n]
           /\ \A n \in PartIDs : content'[n] \in {content[n], {}} /\ again'[n] \in {again[n], {}}
           /\ \/ \A n \in Current' : content'[n] = content[n] /\ again'[n] = again[n]
              \/ rpc' = "remove"
  <2>1. Current' \subseteq Current
    BY <1>5, <1>b, ShorterList DEF Current
  <2>2. ASSUME NEW n \in Current'
        PROVE  LiveList'[n] = 1 /\ again'[n] = {}
    <3>1. n \in PartIDs /\ LiveList[n] = 1 /\ again[n] = {}
      BY <1>b, <1>d, <2>1
    <3>2. LiveList'[n] \in Nat /\ LiveList'[n] > 0 /\ LiveList'[n] <= 1
      BY <1>5, <3>1 DEF Current, Listed, Lists
    <3> QED
      BY <1>5, <3>1, <3>2
  <2>3. ASSUME rpc' # "remove"
        PROVE  Current' \subseteq dirs'
    <3>1. CASE rpc # "remove"
      BY <1>5, <1>b, <1>d, <1>f, <2>1, <2>3, <3>1
    <3>2. CASE rpc = "remove"
      <4>1. LiveList' = NoParts
        BY <2>3, <3>2, DropEnds DEF LiveList
      <4> QED
        BY <4>1, EmptyList DEF Current
    <3> QED
      BY <3>1, <3>2
  <2> QED
    BY <2>2, <2>3
<1> QED
  BY <1>1, <1>2, <1>3, <1>4, <1>5, ListedNext

-----------------------------------------------------------------------------
(* Acknowledged batches.                                                    *)

\* The manifest that a step saves lists every batch acknowledged before it.
LEMMA AckedListedNext ==
  ASSUME NoStaleMerge, StateInv, RowInv, [Next]_vars
  PROVE  AckedListed'
<1>0. Targets
  BY WorkOnTheLiveObject DEF StateInv
<1>a. /\ content \in [PartIDs -> SUBSET Batches] /\ manifest \in Lists
      /\ again \in [PartIDs -> SUBSET Batches] /\ parts \in [Objects -> Lists]
  BY DEF StateInv, TypeInv, TypeOK, DiskTypes, ObjectTypes
<1>b. cur # 0 => Listed(manifest) \subseteq Listed(parts[cur])
  BY <1>0, <1>a, ShorterList DEF Targets, RowInv, ListedOnce
<1>c. \A b \in acked : \E n \in Listed(manifest) : n \in PartIDs /\ b \in content[n]
  BY DEF RowInv, AckedListed, RowsIn, Listed
<1>d. ASSUME \A b \in acked' : \E n \in Listed(manifest') : b \in content'[n]
      PROVE  (acked \subseteq RowsIn(manifest))'
  BY <1>d DEF RowsIn
<1>e. ASSUME acked' = acked, manifest' = manifest,
             \A n \in Listed(manifest) : content[n] # {} => content'[n] = content[n]
      PROVE  (acked \subseteq RowsIn(manifest))'
  <2>1. \A b \in acked' : \E n \in Listed(manifest') : b \in content'[n]
    BY <1>c, <1>e
  <2> QED
    BY <1>d, <2>1
<1>f. ASSUME acked' = {} PROVE (acked \subseteq RowsIn(manifest))'
  BY <1>f
<1>g. Listed(manifest) \subseteq PartIDs
  BY DEF Listed
<1> USE <1>0, <1>a DEF Targets, StateInv, RowInv, AckedListed, TypeInv, FlushBusy, MergeBusy
<1>1. CASE GetPartition
  BY <1>1, <1>e DEF GetPartition, OpenPartition
<1>2. CASE AddPartRename
  <2>1. content[fid] = {}
    BY <1>2 DEF AddPartRename, NumberInv, NumbersFree
  <2>2. \A n \in PartIDs : content[n] # {} => content'[n] = content[n]
    BY <1>2, <2>1 DEF AddPartRename, Rename
  <2> QED
    BY <1>2, <1>e, <1>g, <2>2 DEF AddPartRename, Rename
<1>3. CASE AddPartPublish
  <2>1. /\ Listed(manifest') = Listed(parts[cur]) \cup {fid}
        /\ content' = content /\ acked' = acked \cup {fbatch}
    BY <1>3, FlushPublishes DEF AddPartPublish
  <2>2. content[fid] = {fbatch} /\ cur # 0
    BY <1>3, FlushPublishes
  <2>3. \A b \in acked' : \E n \in Listed(manifest') : b \in content'[n]
    BY <1>b, <1>c, <2>1, <2>2
  <2>4. cur' # 0 /\ rpc' # "remove" /\ pdir' = "present"
    BY <1>3, <2>2 DEF AddPartPublish, HandleInv, DropAlone
  <2> QED
    BY <1>d, <2>3, <2>4
<1>4. CASE AddPartPublishFails
  BY <1>4, <1>e DEF AddPartPublishFails, Fault
<1>5. CASE MergeRename
  <2>1. content[mid] = {}
    BY <1>5 DEF MergeRename, NumberInv, NumbersFree
  <2>2. \A n \in PartIDs : content[n] # {} => content'[n] = content[n]
    BY <1>5, <2>1 DEF MergeRename, Rename
  <2> QED
    BY <1>5, <1>e, <1>g, <2>2 DEF MergeRename, Rename
<1>6. CASE MergeSave
  <2>1. /\ manifest' = parts'[cur] /\ UNCHANGED <<cur, content, acked, rpc, proc, pdir>> /\ cur # 0
        /\ Rows(content, parts'[cur]) = Rows(content, parts[cur])
    BY <1>6, MergeSaves
  <2>2. acked \subseteq Rows(content, parts[cur])
    BY <1>b, <1>c, <2>1 DEF Rows
  <2>3. (acked \subseteq RowsIn(manifest))'
    BY <2>1, <2>2 DEF RowsIn, Rows
  <2> QED
    BY <2>1, <2>3
<1>7. ASSUME NEW n \in PartIDs, MergeDelete(n)
      PROVE  AckedListed'
  <2>1. UNCHANGED <<manifest, acked, proc, cur, pdir, rpc>> /\ cur # 0
    BY <1>7 DEF MergeDelete
  <2>2. n \notin Listed(manifest)
    BY <1>7, <1>b, <2>1 DEF MergeDelete, MergeKeepsRows
  <2>3. \A m \in Listed(manifest) : content'[m] = content[m]
    BY <1>7, <1>g, <2>2 DEF MergeDelete, Remove
  <2> QED
    BY <1>e, <2>1, <2>3
<1>8. CASE DropStart
  BY <1>8, <1>f DEF DropStart
<1>9. ASSUME NEW n \in PartIDs, DropRemoves(n)
      PROVE  AckedListed'
  BY <1>9, <1>f DEF DropRemoves, Remove
<1>10. CASE DropRemovesManifest
  BY <1>10, <1>f DEF DropRemovesManifest
<1>11. CASE DropDone
  BY <1>11, <1>e DEF DropDone, Fault
<1>12. CASE Crash
  BY <1>12, <1>e DEF Crash
<1>13. CASE Open
  BY <1>13, <1>e DEF Open, OpenPartition, TypeOK, DiskTypes
<1>14. CASE AddPartReserve \/ AddPartWrite \/ AddPartWriteFails \/ MaybeCompact \/ ForceMerge
  BY <1>14, <1>e DEF AddPartReserve, AddPartWrite, AddPartWriteFails, Fault,
    MaybeCompact, CompactPartition, Returns, ForceMerge
<1>15. CASE ForceCompact \/ MergeRead \/ MergeWrite \/ MergeWriteFails \/ MergeSaveFails
  BY <1>15, <1>e DEF ForceCompact, CompactPartition, Returns, MergeRead, MergeDone,
    MergeWrite, MergeWriteFails, Fault, MergeSaveFails
<1>16. ASSUME NEW q \in Readers, QueryStart(q) \/ QueryStep(q)
      PROVE  AckedListed'
  BY <1>16, <1>e, QueriesOnlyRead
<1>r. CASE ApplyRetention \/ RetentionLocks
  BY <1>r, <1>e DEF ApplyRetention, RetentionLocks
<1>17. CASE UNCHANGED vars
  BY <1>17, <1>e DEF vars
<1> QED
  BY <1>1, <1>2, <1>3, <1>4, <1>5, <1>6, <1>7, <1>8, <1>9, <1>10, <1>11, <1>12,
     <1>13, <1>14, <1>15, <1>16, <1>17, <1>r
  DEF Next, FlushStep, MergeStep, RetentionStep, DropStep

\* The parts keep the rows, for every step.
LEMMA RowInvariant ==
  ASSUME NoStaleMerge
  PROVE  Spec => [](StateInv /\ RowInv)
<1>1. Init => RowInv
  <2> SUFFICES ASSUME Init PROVE RowInv
    OBVIOUS
  <2>1. BatchesNumbered /\ BatchIsNew
    BY DEF Init, BatchesNumbered, BatchIsNew, NoFiles, IdleReader
  <2>2. LiveList = NoParts /\ Current = {}
    BY EmptyList DEF Init, LiveList, Current
  <2>3. ListedOnce /\ WholeParts
    BY <2>2 DEF Init, ListedOnce, WholeParts, Disjoint
  <2>4. MergeKeepsRows /\ FlushApart /\ TornByDrop /\ AckedListed
    BY DEF Init, MergeKeepsRows, FlushApart, TornByDrop, AckedListed
  <2> QED
    BY <2>1, <2>3, <2>4 DEF RowInv
<1>2. ASSUME StateInv, RowInv, [Next]_vars PROVE ListedOnce' /\ TornByDrop'
  BY <1>2, ManifestListed, DisjointNext, TornByDropNext DEF ListedOnce, RowInv
<1>3. StateInv /\ RowInv /\ [Next]_vars => RowInv'
  BY <1>2, BatchesNumberedNext, BatchIsNewNext, WholePartsNext, MergeKeepsRowsNext,
      FlushApartNext, AckedListedNext
  DEF RowInv
<1>4. TypeInv /\ HandleInv /\ NumberInv <=> StateInv
  BY DEF StateInv
<1> QED
  BY <1>1, <1>3, <1>4, NumberInvariant, PTL DEF Spec

\* Unless a drop was cut short, the parts of a list that lists no more than
\* the live one hold each row once.
LEMMA ReadOnce ==
  ASSUME StateInv, RowInv, torn = "no", NEW l \in Lists, \A n \in PartIDs : l[n] <= LiveList[n]
  PROVE  Twice(content, again, l) = {}
<1>1. LiveList \in Lists /\ Listed(l) \subseteq Current
  BY LiveListType, ShorterList DEF Current
<1>2. \A n \in Listed(l) : ~(l[n] > 1) /\ again[n] = {}
  <2> TAKE n \in Listed(l)
  <2>1. n \in PartIDs /\ LiveList[n] = 1 /\ again[n] = {}
    BY <1>1 DEF RowInv, WholeParts, Listed
  <2> QED
    BY <2>1 DEF Lists
<1>3. \A m, n \in Listed(l) : m # n => content[m] \cap content[n] = {}
  BY <1>1 DEF RowInv, ListedOnce, Disjoint
<1> QED
  BY <1>2, <1>3 DEF Twice

\* Whenever the process is killed, manifest.json lists each acknowledged
\* batch, and unless a drop was ever cut short, once: through any number of
\* concurrent flushes and merges, failed writes and saves, crashes and drops.
THEOREM DurableOnceHolds ==
  ASSUME NoStaleMerge
  PROVE  Spec => []DurableOnce
<1>1. StateInv /\ RowInv => DurableOnce
  <2> SUFFICES ASSUME StateInv, RowInv
               PROVE  DurableOnce
    OBVIOUS
  <2>1. manifest \in Lists /\ LiveList \in Lists
    BY LiveListType DEF StateInv, TypeInv, TypeOK, DiskTypes
  <2>2. \A n \in PartIDs : manifest[n] <= LiveList[n]
    BY <2>1 DEF RowInv, ListedOnce, LiveList, Lists
  <2>3. torn = "no" => RowsTwice(manifest) = {}
    BY <2>1, <2>2, ReadOnce DEF RowsTwice, Twice
  <2> QED
    BY <2>3 DEF DurableOnce, RowInv, AckedListed
<1> QED
  BY <1>1, RowInvariant, PTL

-----------------------------------------------------------------------------
(* Scans.                                                                   *)

\* Only its own steps and the end of the process change a query.
LEMMA QueriesMove ==
  ASSUME [Next]_vars
  PROVE  Crash \/ (\E q \in Readers : QueryStart(q) \/ QueryStep(q)) \/ UNCHANGED rd
<1> DEFINE Goal == Crash \/ (\E q \in Readers : QueryStart(q) \/ QueryStep(q)) \/ UNCHANGED rd
<1> SUFFICES Goal
  OBVIOUS
<1>1. CASE Crash
  BY <1>1 DEF Crash
<1>2. CASE GetPartition \/ AddPartReserve \/ AddPartWrite \/ AddPartWriteFails \/ AddPartRename
  BY <1>2 DEF GetPartition, OpenPartition, AddPartReserve, AddPartWrite,
    AddPartWriteFails, Fault, AddPartRename, Rename
<1>3. CASE AddPartPublish \/ AddPartPublishFails \/ MaybeCompact \/ ForceMerge \/ ForceCompact
  BY <1>3 DEF AddPartPublish, AddPartPublishFails, Fault, MaybeCompact,
    CompactPartition, Returns, ForceMerge, ForceCompact
<1>4. CASE MergeRead \/ MergeWrite \/ MergeWriteFails \/ MergeRename \/ MergeSave
  BY <1>4 DEF MergeRead, MergeDone, Returns, MergeWrite, MergeWriteFails, Fault,
    MergeRename, Rename, MergeSave
<1>5. CASE MergeSaveFails \/ DropStart \/ DropRemovesManifest \/ DropDone \/ Open
  BY <1>5 DEF MergeSaveFails, Fault, MergeDone, Returns, DropStart,
    DropRemovesManifest, DropDone, Open, OpenPartition
<1>6. ASSUME NEW n \in PartIDs, MergeDelete(n) \/ DropRemoves(n)
      PROVE  Goal
  BY <1>6 DEF MergeDelete, Remove, MergeDone, Returns, DropRemoves
<1>7. ASSUME NEW q \in Readers, QueryStart(q) \/ QueryStep(q)
      PROVE  Goal
  BY <1>7
<1>r. CASE ApplyRetention \/ RetentionLocks
  BY <1>r DEF ApplyRetention, RetentionLocks
<1>8. CASE UNCHANGED vars
  BY <1>8 DEF vars
<1> QED
  BY <1>1, <1>2, <1>3, <1>4, <1>5, <1>6, <1>7, <1>8, <1>r
  DEF Next, FlushStep, MergeStep, RetentionStep, DropStep

\* While a query holds p.mu, the parts it reads stay, and so do their
\* directories; a flush may put a new one in place.
LEMMA LockedParts ==
  ASSUME NoStaleMerge, StateInv, RowInv, [Next]_vars, ~Crash,
         NEW q \in Readers, rd[q].pc = "read"
  PROVE  /\ cur' = cur /\ cur # 0 /\ parts'[cur] = parts[cur]
         /\ \A n \in PartIDs :
              \/ content'[n] = content[n]
              \/ content[n] = {} /\ content'[n] = {fbatch} /\ fpc = "rename"
<1>0. Targets
  BY WorkOnTheLiveObject DEF StateInv
<1>a. /\ content \in [PartIDs -> SUBSET Batches] /\ manifest \in Lists
      /\ again \in [PartIDs -> SUBSET Batches] /\ parts \in [Objects -> Lists]
  BY DEF StateInv, TypeInv, TypeOK, DiskTypes, ObjectTypes
<1>b. rd[q].obj = cur /\ cur # 0 /\ ~WriteLocked(cur) /\ ~CanLock(cur)
  BY DEF StateInv, TypeInv, ReadersBusy, HandleInv, ScanLocked, CanLock
<1> DEFINE Goal ==
      /\ cur' = cur /\ cur # 0 /\ parts'[cur] = parts[cur]
      /\ \A n \in PartIDs :
           \/ content'[n] = content[n]
           \/ content[n] = {} /\ content'[n] = {fbatch} /\ fpc = "rename"
<1> SUFFICES Goal
  OBVIOUS
<1> USE <1>0, <1>a, <1>b DEF Targets, WriteLocked
<1>1. CASE GetPartition
  BY <1>1 DEF GetPartition, OpenPartition
<1>2. CASE AddPartRename
  BY <1>2 DEF AddPartRename, Rename, StateInv, NumberInv, NumbersFree
<1>3. CASE AddPartPublish
  BY <1>3 DEF AddPartPublish
<1>4. CASE AddPartPublishFails
  BY <1>4 DEF AddPartPublishFails, Fault
<1>5. CASE MergeRename
  BY <1>5 DEF MergeRename, Rename, MergeDone, Returns
<1>6. CASE MergeSave
  BY <1>6 DEF MergeSave
<1>7. ASSUME NEW n \in PartIDs, MergeDelete(n)
      PROVE  Goal
  BY <1>7 DEF MergeDelete, Remove, MergeDone, Returns
<1>8. ASSUME NEW n \in PartIDs, DropRemoves(n)
      PROVE  Goal
  BY <1>8 DEF DropRemoves, Remove
<1>9. CASE DropDone
  BY <1>9 DEF DropDone, Fault
<1>10. CASE Crash
  BY <1>10 DEF Crash
<1>11. CASE Open
  BY <1>11 DEF Open, OpenPartition, StateInv, TypeInv, DownIsIdle, TypeOK,
    ObjectTypes
<1>12. CASE AddPartReserve \/ AddPartWrite \/ AddPartWriteFails \/ MaybeCompact \/ ForceMerge
  BY <1>12 DEF AddPartReserve, AddPartWrite, AddPartWriteFails, Fault,
    MaybeCompact, CompactPartition, Returns, ForceMerge
<1>13. CASE ForceCompact \/ MergeRead \/ MergeWrite \/ MergeWriteFails \/ MergeSaveFails
  BY <1>13 DEF ForceCompact, CompactPartition, Returns, MergeRead, MergeDone,
    MergeWrite, MergeWriteFails, Fault, MergeSaveFails
<1>14. CASE DropStart \/ DropRemovesManifest
  BY <1>14 DEF DropStart, DropRemovesManifest
<1>15. ASSUME NEW r \in Readers, QueryStart(r) \/ QueryStep(r)
      PROVE  Goal
  BY <1>15, QueriesOnlyRead
<1>r. CASE ApplyRetention \/ RetentionLocks
  BY <1>r DEF ApplyRetention, RetentionLocks
<1>16. CASE UNCHANGED vars
  BY <1>16 DEF vars
<1> QED
  BY <1>1, <1>2, <1>3, <1>4, <1>5, <1>6, <1>7, <1>8, <1>9, <1>10, <1>11, <1>12,
     <1>13, <1>14, <1>15, <1>16, <1>r
  DEF Next, FlushStep, MergeStep, RetentionStep, DropStep

\* A scan returns what it needs, once.
LEMMA ScanNext ==
  ASSUME NoStaleMerge, StateInv, RowInv, ScanInv, [Next]_vars
  PROVE  ScanInv'
<1>0. Targets
  BY WorkOnTheLiveObject DEF StateInv
<1>a. /\ content \in [PartIDs -> SUBSET Batches] /\ manifest \in Lists
      /\ again \in [PartIDs -> SUBSET Batches] /\ parts \in [Objects -> Lists]
  BY DEF StateInv, TypeInv, TypeOK, DiskTypes, ObjectTypes
<1>b. /\ rd \in [Readers -> [pc : {"idle", "ready", "read", "done", "error"},
                            obj : 0..opens, left : Lists, got : SUBSET Batches,
                            twice : SUBSET Batches, need : SUBSET Batches]]
      /\ \A q \in Readers : rd[q].pc = "read" => rd[q].obj = cur /\ cur # 0
  BY DEF StateInv, TypeInv, TypeOK, ReaderTypes, ReadersBusy, HandleInv, ScanLocked
<1>t. torn' = "no" => torn = "no"
  BY TornStays
<1>1. CASE Crash
  BY <1>1 DEF Crash, IdleReader, ScanInv
<1>2. CASE UNCHANGED rd /\ ~Crash
  <2> SUFFICES ASSUME NEW q \in Readers, rd[q].pc = "read"
               PROVE  /\ \A n \in PartIDs : rd[q].left[n] <= parts'[cur'][n]
                      /\ rd[q].need \subseteq rd[q].got \cup UNION {content'[n] : n \in Listed(rd[q].left)}
                      /\ torn = "no" => \A n \in Listed(rd[q].left) : content'[n] \cap rd[q].got = {}
    BY <1>2, <1>t DEF ScanInv, RowsIn
  <2>1. /\ cur' = cur /\ parts'[cur] = parts[cur]
        /\ \A n \in PartIDs :
              \/ content'[n] = content[n]
              \/ content[n] = {} /\ content'[n] = {fbatch} /\ fpc = "rename"
    BY <1>2, LockedParts
  <2>2. Listed(rd[q].left) \subseteq PartIDs
    BY DEF Listed
  <2>3. fpc = "rename" => fbatch \notin rd[q].got
    BY DEF RowInv, BatchIsNew
  <2> QED
    BY <2>1, <2>2, <2>3 DEF ScanInv, RowsIn
<1>3. ASSUME NEW q \in Readers, QueryStart(q) \/ QueryStep(q)
      PROVE  ScanInv'
  <2>1. /\ UNCHANGED <<content, parts, cur, torn>>
        /\ \A r \in Readers : r # q => rd'[r] = rd[r]
    BY <1>3, <1>b, QueriesOnlyRead
    DEF QueryStart, QueryStep, QueryLock, QueryPart, QueryUnlock, QueryReturn
  <2> DEFINE Good(r) ==
        /\ r.pc \in {"idle", "ready"} => r.got = {} /\ r.twice = {}
        /\ r.pc = "read" =>
             /\ \A n \in PartIDs : r.left[n] <= parts[cur][n]
             /\ r.need \subseteq r.got \cup RowsIn(r.left)
             /\ torn = "no" =>
                  /\ \A n \in Listed(r.left) : content[n] \cap r.got = {}
                  /\ r.twice = {}
        /\ r.pc = "done" => r.need \subseteq r.got /\ (torn = "no" => r.twice = {})
  <2>s. \A r \in Readers : Good(rd[r])
    BY DEF ScanInv
  <2> SUFFICES Good(rd'[q])
    BY <2>1, <2>s DEF ScanInv, RowsIn
  <2>2. CASE QueryStart(q)
    <3>1. rd[q].got = {} /\ rd[q].twice = {}
      BY <2>2, <2>s DEF QueryStart
    <3>2. cur = 0 => acked = {}
      BY <2>2 DEF QueryStart, RowInv, AckedListed
    <3> QED
      BY <2>2, <3>1, <3>2, <1>b DEF QueryStart
  <2>3. CASE QueryLock(q)
    <3>1. CASE dropped[rd[q].obj] = "yes"
      BY <2>3, <3>1, <1>b DEF QueryLock, IdleReader
    <3>2. CASE dropped[rd[q].obj] # "yes"
      <4>1. rd[q].obj \in 1..opens /\ rd[q].obj \in Objects
        BY <2>3, <1>b, ObjectsExist DEF QueryLock, StateInv, TypeInv, ReadersBusy
      <4>2. rd[q].obj = cur /\ cur # 0 /\ cur \in Objects
        BY <3>2, <4>1 DEF StateInv, HandleInv, OneLiveObject
      <4>3. acked \subseteq RowsIn(parts[cur])
        <5>1. Listed(manifest) \subseteq Listed(parts[cur])
          BY <1>a, <4>2, ShorterList DEF RowInv, ListedOnce
        <5> QED
          BY <5>1 DEF RowInv, AckedListed, RowsIn
      <4>4. /\ rd'[q].pc = "read" /\ rd'[q].left = parts[cur] /\ rd'[q].need = acked
            /\ rd'[q].got = {} /\ rd'[q].twice = {}
        BY <2>3, <2>s, <3>2, <4>2, <1>b DEF QueryLock
      <4>5. \A n \in PartIDs : parts[cur][n] \in Nat
        BY <1>a, <4>2 DEF Lists
      <4> QED
        BY <4>3, <4>4, <4>5
    <3> QED
      BY <3>1, <3>2
  <2>4. ASSUME NEW n \in PartIDs, QueryPart(q, n)
        PROVE  Good(rd'[q])
    <3>1. CASE n \notin dirs
      BY <2>4, <3>1, <1>b DEF QueryPart
    <3>2. CASE n \in dirs
      <4> DEFINE l == rd[q].left
      <4>1. /\ rd'[q].pc = "read" /\ rd'[q].left = Minus(l, n)
            /\ rd'[q].got = rd[q].got \cup content[n] /\ rd'[q].need = rd[q].need
            /\ rd'[q].twice = rd[q].twice \cup again[n] \cup (rd[q].got \cap content[n])
        BY <2>4, <3>2, <1>b DEF QueryPart
      <4>2. rd[q].pc = "read" /\ n \in Listed(l) /\ cur # 0 /\ l \in Lists
        BY <2>4, <1>b DEF QueryPart
      <4>3. cur \in Objects /\ parts[cur] \in Lists
        BY <4>2, <1>0, <1>a DEF Targets
      <4>4. \A m \in PartIDs : l[m] <= parts[cur][m]
        BY <4>2, <2>s
      <4> HIDE DEF l
      <4>5. /\ Minus(l, n) \in Lists
            /\ Listed(Minus(l, n)) \subseteq Listed(l)
            /\ Listed(l) \subseteq Listed(Minus(l, n)) \cup {n}
            /\ \A m \in PartIDs : Minus(l, n)[m] = IF m = n THEN l[n] - 1 ELSE l[m]
        BY <4>2, MinusList
      <4>6. \A m \in PartIDs : l[m] \in Nat /\ parts[cur][m] \in Nat
        BY <4>2, <4>3 DEF Lists
      <4>7. \A m \in PartIDs : Minus(l, n)[m] <= parts[cur][m]
        BY <4>4, <4>5, <4>6
      <4>8. RowsIn(l) \subseteq content[n] \cup RowsIn(Minus(l, n))
        BY <4>5 DEF RowsIn
      <4>9. rd[q].need \subseteq rd[q].got \cup RowsIn(l)
        BY <4>2, <2>s DEF l
      <4>10. ASSUME torn = "no"
             PROVE  /\ \A m \in Listed(Minus(l, n)) : content[m] \cap (rd[q].got \cup content[n]) = {}
                    /\ rd[q].twice \cup again[n] \cup (rd[q].got \cap content[n]) = {}
        <5>1. Listed(l) \subseteq Listed(parts[cur])
          BY <4>2, <4>3, <4>4, ShorterList
        <5>2. /\ \A m \in Listed(l) : parts[cur][m] = 1 /\ again[m] = {}
              /\ \A m \in Listed(l) : m # n => content[m] \cap content[n] = {}
          BY <4>2, <4>10, <5>1 DEF RowInv, WholeParts, ListedOnce, Disjoint, Current, LiveList
        <5>3. n \notin Listed(Minus(l, n))
          <6>1. n \in PartIDs /\ parts[cur][n] = 1 /\ l[n] <= 1 /\ l[n] \in Nat
            BY <4>2, <4>4, <4>6, <5>2
          <6>2. Minus(l, n)[n] = l[n] - 1
            BY <4>5
          <6> QED
            BY <6>1, <6>2 DEF Listed
        <5>4. /\ \A m \in Listed(l) : content[m] \cap rd[q].got = {}
              /\ rd[q].twice = {}
          BY <4>2, <4>10, <2>s DEF l
        <5> QED
          BY <4>2, <4>5, <5>2, <5>3, <5>4
      <4> QED
        BY <4>1, <4>7, <4>8, <4>9, <4>10
    <3> QED
      BY <3>1, <3>2
  <2>5. CASE QueryUnlock(q)
    <3>1. /\ rd[q].pc = "read" /\ RowsIn(rd[q].left) = {}
      BY <2>5, EmptyList DEF QueryUnlock, RowsIn
    <3> QED
      BY <2>5, <2>s, <3>1, <1>b DEF QueryUnlock
  <2>6. CASE QueryReturn(q)
    BY <2>6, <1>b DEF QueryReturn, IdleReader
  <2> QED
    BY <1>3, <2>2, <2>3, <2>4, <2>5, <2>6 DEF QueryStep
<1> QED
  BY <1>1, <1>2, <1>3, QueriesMove

\* A query "always sees either the old small parts or the new big part,
\* never a mix": a finished scan has every row that was acknowledged when it
\* began, however flushes, merges, drops and crashes interleave with it, and
\* no row twice unless a drop was ever cut short.
THEOREM ScanExactHolds ==
  ASSUME NoStaleMerge
  PROVE  Spec => []ScanExact
<1>1. Init => ScanInv
  BY DEF Init, ScanInv, IdleReader
<1>2. StateInv /\ RowInv /\ ScanInv /\ [Next]_vars => ScanInv'
  BY ScanNext
<1>3. ScanInv => ScanExact
  BY DEF ScanInv, ScanExact
<1> QED
  BY <1>1, <1>2, <1>3, RowInvariant, PTL DEF Spec

\* A scan finds the directories of its parts, unless a drop was interrupted.
LEMMA FilesNext ==
  ASSUME NoStaleMerge, StateInv, RowInv, ScanInv, FilesInv, [Next]_vars
  PROVE  FilesInv'
<1> SUFFICES ASSUME torn' = "no"
             PROVE  (\A q \in Readers : /\ rd[q].pc # "error"
                                        /\ rd[q].pc = "read" => Listed(rd[q].left) \subseteq dirs)'
  BY DEF FilesInv
<1>a. torn = "no"
  BY TornStays
<1>b. rd \in [Readers -> [pc : {"idle", "ready", "read", "done", "error"},
                          obj : 0..opens, left : Lists, got : SUBSET Batches,
                          twice : SUBSET Batches, need : SUBSET Batches]]
  BY DEF StateInv, TypeInv, TypeOK, ReaderTypes
<1>c. \A q \in Readers : rd[q].pc # "error" /\ (rd[q].pc = "read" => Listed(rd[q].left) \subseteq dirs)
  BY <1>a DEF FilesInv
<1>1. CASE Crash
  BY <1>1 DEF Crash, IdleReader
<1>2. CASE UNCHANGED rd /\ ~Crash
  <2> SUFFICES ASSUME NEW q \in Readers, rd[q].pc = "read"
               PROVE  Listed(rd[q].left) \subseteq dirs'
    BY <1>2, <1>c
  <2>1. \A n \in PartIDs : content[n] # {} => content'[n] # {}
    BY <1>2, LockedParts
  <2> QED
    BY <1>c, <2>1 DEF dirs, Listed
<1>3. ASSUME NEW q \in Readers, QueryStart(q) \/ QueryStep(q)
      PROVE  (\A r \in Readers : /\ rd[r].pc # "error"
                                 /\ rd[r].pc = "read" => Listed(rd[r].left) \subseteq dirs)'
  <2>1. dirs' = dirs /\ \A r \in Readers : r # q => rd'[r] = rd[r]
    BY <1>3, <1>b, QueriesOnlyRead
    DEF dirs, QueryStart, QueryStep, QueryLock, QueryPart, QueryUnlock, QueryReturn
  <2> SUFFICES rd'[q].pc # "error" /\ (rd'[q].pc = "read" => Listed(rd'[q].left) \subseteq dirs)
    BY <1>c, <2>1
  <2>2. CASE QueryStart(q) \/ QueryUnlock(q) \/ QueryReturn(q)
    BY <1>b, <2>2 DEF QueryStart, QueryUnlock, QueryReturn, IdleReader
  <2>3. CASE QueryLock(q)
    <3>1. CASE dropped[rd[q].obj] = "yes"
      BY <1>b, <2>3, <3>1 DEF QueryLock, IdleReader
    <3>2. CASE dropped[rd[q].obj] # "yes"
      <4>1. rd[q].obj \in 1..opens /\ rd[q].obj \in Objects
        BY <2>3, <1>b, ObjectsExist DEF QueryLock, StateInv, TypeInv, ReadersBusy
      <4>2. rd[q].obj = cur /\ cur # 0 /\ rpc # "remove"
        BY <3>2, <4>1 DEF StateInv, HandleInv, OneLiveObject, TypeInv, TypeOK, BoundTypes
      <4>3. Listed(parts[cur]) \subseteq dirs
        BY <1>a, <4>2 DEF RowInv, WholeParts, Current, LiveList
      <4> QED
        BY <1>b, <2>3, <3>2, <4>2, <4>3 DEF QueryLock
    <3> QED
      BY <3>1, <3>2
  <2>4. ASSUME NEW n \in PartIDs, QueryPart(q, n)
        PROVE  rd'[q].pc # "error" /\ (rd'[q].pc = "read" => Listed(rd'[q].left) \subseteq dirs)
    <3>1. n \in dirs /\ Listed(rd[q].left) \subseteq dirs
      BY <1>c, <2>4 DEF QueryPart
    <3>2. Listed(Minus(rd[q].left, n)) \subseteq Listed(rd[q].left)
      BY <1>b, <2>4, MinusList DEF QueryPart
    <3> QED
      BY <1>b, <2>4, <3>1, <3>2 DEF QueryPart
  <2> QED
    BY <1>3, <2>2, <2>3, <2>4 DEF QueryStep
<1> QED
  BY <1>1, <1>2, <1>3, QueriesMove

\* Scans and their files, always.
LEMMA FilesInvariant ==
  ASSUME NoStaleMerge
  PROVE  Spec => [](StateInv /\ RowInv /\ ScanInv /\ FilesInv)
<1>1. Init => ScanInv /\ FilesInv
  BY DEF Init, ScanInv, FilesInv, IdleReader
<1>2. StateInv /\ RowInv /\ ScanInv /\ FilesInv /\ [Next]_vars => ScanInv' /\ FilesInv'
  BY ScanNext, FilesNext
<1> QED
  BY <1>1, <1>2, RowInvariant, PTL DEF Spec

\* "Never a deleted file": a merge takes p.mu before the directories of its
\* parts go, so no query meets one, with any number of flushes, forced merges,
\* errors and crashes.
THEOREM NeverADeletedFileHolds ==
  ASSUME MaxDrops = 0
  PROVE  Spec => []NeverADeletedFile
<1>1. NoStaleMerge
  BY DEF NoStaleMerge
<1>2. StateInv /\ RowInv => torn = "no"
  BY PartitionAssumption DEF StateInv, TypeInv, TypeOK, DiskTypes, BoundTypes, RowInv, TornByDrop
<1>3. StateInv /\ RowInv /\ FilesInv => NeverADeletedFile
  BY <1>2 DEF FilesInv, NeverADeletedFile
<1> QED
  BY <1>1, <1>3, FilesInvariant, PTL

\* Queries that arrive after retention has marked a partition dropped skip
\* it: they meet no deleted file either, through any number of drops, errors
\* and crashes, until one of these cuts a drop short.  Without forced merges,
\* which work on dropped partitions.
THEOREM QueriesSurviveDropsHolds ==
  ASSUME MaxForces = 0
  PROVE  Spec => []QueriesSurviveDrops
<1>1. NoStaleMerge
  BY DEF NoStaleMerge
<1>2. FilesInv => QueriesSurviveDrops
  BY DEF FilesInv, QueriesSurviveDrops, NeverADeletedFile
<1> QED
  BY <1>1, <1>2, FilesInvariant, PTL

-----------------------------------------------------------------------------
(* The partition implements DayParts.                                       *)

\* How often a row is read from directories that hold c and, repeated, a.
Seen(c, a, list) == Copies(Rows(c, list), Twice(c, a, list))

\* What a reader of a list sees is settled by its rows.
LEMMA SeenCopies ==
  ASSUME NEW c, NEW a, NEW l
  PROVE  /\ Seen(c, a, l) \in [Batches -> 0..2]
         /\ \A x \in Batches : Seen(c, a, l)[x] =
              IF x \in Twice(c, a, l) THEN 2 ELSE IF x \in Rows(c, l) THEN 1 ELSE 0
BY DEF Seen, Copies

\* An empty list shows nothing.
LEMMA SeenNothing ==
  ASSUME NEW c, NEW a
  PROVE  Seen(c, a, NoParts) = Abstract!None
<1>1. Rows(c, NoParts) = {} /\ Twice(c, a, NoParts) = {}
  BY EmptyList DEF Rows, Twice
<1> QED
  BY <1>1 DEF Seen, Copies, Abstract!None

\* Batch b is read at least as often as before, all others as often.
MoreOf(b, f, g) == g[b] \in f[b]..2 /\ g = [f EXCEPT ![b] = g[b]]

\* Where the rows of one batch alone are read more often, the view changes
\* for that batch alone.
LEMMA SeenChange ==
  ASSUME NEW c, NEW a, NEW l, NEW d, NEW e, NEW k, NEW b \in Batches,
         \A x \in Batches : x # b => (x \in Rows(c, l) <=> x \in Rows(d, k)),
         \A x \in Batches : x # b => (x \in Twice(c, a, l) <=> x \in Twice(d, e, k)),
         b \in Rows(c, l) => b \in Rows(d, k),
         b \in Twice(c, a, l) => b \in Twice(d, e, k)
  PROVE  MoreOf(b, Seen(c, a, l), Seen(d, e, k))
<1> DEFINE f == Seen(c, a, l)
           g == Seen(d, e, k)
<1>1. /\ f \in [Batches -> 0..2] /\ g \in [Batches -> 0..2]
      /\ \A x \in Batches : f[x] = IF x \in Twice(c, a, l) THEN 2 ELSE IF x \in Rows(c, l) THEN 1 ELSE 0
      /\ \A x \in Batches : g[x] = IF x \in Twice(d, e, k) THEN 2 ELSE IF x \in Rows(d, k) THEN 1 ELSE 0
  BY SeenCopies
<1> HIDE DEF f, g
<1>2. \A x \in Batches : x # b => f[x] = g[x]
  BY <1>1
<1>3. g[b] \in f[b]..2
  <2>1. f[b] <= g[b]
    BY <1>1
  <2>2. f[b] \in 0..2 /\ g[b] \in 0..2
    BY <1>1
  <2> QED
    BY <2>1, <2>2
<1>4. g = [f EXCEPT ![b] = g[b]]
  BY <1>1, <1>2
<1> QED
  BY <1>3, <1>4 DEF f, g, MoreOf

\* A part that holds one batch, which no other part holds, is put in place ...
LEMMA PartInPlace ==
  ASSUME NEW c \in [PartIDs -> SUBSET Batches], NEW a \in [PartIDs -> SUBSET Batches],
         NEW l \in Lists, NEW n \in PartIDs, NEW b \in Batches, c[n] = {},
         \A m \in PartIDs : b \notin c[m]
  PROVE  LET d == [c EXCEPT ![n] = {b}]
             e == [a EXCEPT ![n] = {}]
         IN  MoreOf(b, Seen(c, a, l), Seen(d, e, l))
<1> DEFINE d == [c EXCEPT ![n] = {b}]
           e == [a EXCEPT ![n] = {}]
<1>1. \A m \in PartIDs : d[m] = IF m = n THEN {b} ELSE c[m]
  OBVIOUS
<1>2. \A m \in PartIDs : e[m] = IF m = n THEN {} ELSE a[m]
  OBVIOUS
<1>3. Listed(l) \subseteq PartIDs
  BY DEF Listed
<1> HIDE DEF d, e
<1>4. b \notin Rows(c, l) /\ b \notin Twice(c, a, l)
  BY <1>3 DEF Rows, Twice
<1>5. ASSUME NEW x \in Batches, x # b
      PROVE  /\ x \in Rows(c, l) <=> x \in Rows(d, l)
             /\ x \in Twice(c, a, l) <=> x \in Twice(d, e, l)
  <2>1. \A m \in Listed(l) : x \in c[m] <=> x \in d[m]
    BY <1>1, <1>3, <1>5
  <2>2. \A m \in Listed(l) : x \in c[m] => (x \in a[m] <=> x \in e[m])
    BY <1>2, <1>3
  <2> QED
    BY <2>1, <2>2 DEF Rows, Twice
<1>6. /\ b \in Rows(c, l) => b \in Rows(d, l)
      /\ b \in Twice(c, a, l) => b \in Twice(d, e, l)
  BY <1>4
<1>7. \A x \in Batches : x # b => (x \in Rows(c, l) <=> x \in Rows(d, l))
  BY <1>5
<1>8. \A x \in Batches : x # b => (x \in Twice(c, a, l) <=> x \in Twice(d, e, l))
  BY <1>5
<1>9. MoreOf(b, Seen(c, a, l), Seen(d, e, l))
  BY <1>6, <1>7, <1>8, SeenChange
<1> QED
  BY <1>9 DEF d, e

\* ... and listed: once if it was not.
LEMMA PartListed ==
  ASSUME NEW c, NEW a, NEW l \in Lists, NEW n \in PartIDs, NEW b \in Batches,
         c[n] = {b}, a[n] = {}, \A m \in PartIDs : m # n => b \notin c[m]
  PROVE  LET k == Plus(l, n)
         IN  /\ MoreOf(b, Seen(c, a, l), Seen(c, a, k))
             /\ n \notin Listed(l) => Seen(c, a, l)[b] = 0 /\ Seen(c, a, k)[b] = 1
<1> DEFINE k == Plus(l, n)
<1>1. /\ Listed(k) = Listed(l) \cup {n}
      /\ \A m \in PartIDs : k[m] = IF m = n THEN l[n] + 1 ELSE l[m]
  BY PlusList
<1>2. Listed(l) \subseteq PartIDs /\ \A m \in PartIDs : l[m] \in Nat
  BY DEF Listed, Lists
<1> HIDE DEF k
<1>3. ASSUME NEW x \in Batches, x # b
      PROVE  /\ x \in Rows(c, l) <=> x \in Rows(c, k)
             /\ x \in Twice(c, a, l) <=> x \in Twice(c, a, k)
  <2>1. x \notin c[n]
    BY <1>3
  <2>2. \A m \in PartIDs : m # n => k[m] = l[m]
    BY <1>1
  <2>3. x \in Rows(c, l) <=> x \in Rows(c, k)
    BY <1>1, <2>1 DEF Rows
  <2>4. x \in Twice(c, a, l) <=> x \in Twice(c, a, k)
    BY <1>1, <1>2, <2>1, <2>2 DEF Twice
  <2> QED
    BY <2>3, <2>4
<1>4. b \in Rows(c, l) => b \in Rows(c, k)
  BY <1>1 DEF Rows
<1>5. b \in Twice(c, a, l) => b \in Twice(c, a, k)
  <2>1. \A m \in Listed(l) : l[m] > 1 => k[m] > 1
    BY <1>1, <1>2
  <2> QED
    BY <1>1, <2>1 DEF Twice
<1>6. MoreOf(b, Seen(c, a, l), Seen(c, a, k))
  BY <1>3, <1>4, <1>5, SeenChange
<1>7. ASSUME n \notin Listed(l)
      PROVE  Seen(c, a, l)[b] = 0 /\ Seen(c, a, k)[b] = 1
  <2>1. k[n] = 1
    BY <1>1, <1>2, <1>7 DEF Listed
  <2>2. b \notin Rows(c, l) /\ b \notin Twice(c, a, l)
    BY <1>2, <1>7 DEF Rows, Twice
  <2>3. b \in Rows(c, k)
    BY <1>1 DEF Rows
  <2>4. b \notin Twice(c, a, k)
    <3>1. \A m \in Listed(k) : b \in c[m] => m = n
      BY <1>1, <1>2
    <3> QED
      BY <2>1, <3>1 DEF Twice
  <2> QED
    BY <2>2, <2>3, <2>4, SeenCopies
<1> QED
  BY <1>6, <1>7 DEF k

\* Directories that go take their rows with them.
LEMMA PartsGo ==
  ASSUME NEW c, NEW a, NEW d, NEW e, NEW l,
         \A n \in Listed(l) : d[n] \subseteq c[n] /\ e[n] \subseteq a[n]
  PROVE  \A x \in Batches : Seen(d, e, l)[x] <= Seen(c, a, l)[x]
<1> TAKE x \in Batches
<1>1. x \in Rows(d, l) => x \in Rows(c, l)
  BY DEF Rows
<1>2. x \in Twice(d, e, l) => x \in Twice(c, a, l)
  BY DEF Twice
<1>3. x \in Twice(d, e, l) => x \in Rows(d, l)
  BY DEF Rows, Twice
<1> QED
  BY <1>1, <1>2, <1>3, SeenCopies

\* Live and Durable are what readers of these two lists see.
LEMMA Views ==
  ASSUME StateInv
  PROVE  /\ Live = Seen(content, again, Visible) /\ Durable = Seen(content, again, manifest)
         /\ Visible = IF cur = 0 \/ rpc = "remove" THEN NoParts ELSE parts[cur]
<1>1. Live = Seen(content, again, Visible) /\ Durable = Seen(content, again, manifest)
  BY DEF Live, Durable, Seen, RowsIn, RowsTwice, Rows, Twice
<1>2. cur # 0 => (dropped[cur] = "yes" <=> rpc = "remove")
  BY DEF StateInv, HandleInv, OneLiveObject
<1> QED
  BY <1>1, <1>2 DEF Visible

LEMMA ViewsNext ==
  ASSUME StateInv'
  PROVE  /\ Live' = Seen(content', again', Visible') /\ Durable' = Seen(content', again', manifest')
         /\ Visible' = IF cur' = 0 \/ rpc' = "remove" THEN NoParts ELSE parts'[cur']
<1>1. Live' = Seen(content', again', Visible') /\ Durable' = Seen(content', again', manifest')
  BY DEF Live, Durable, Seen, RowsIn, RowsTwice, Rows, Twice
<1>2. cur' # 0 => (dropped'[cur'] = "yes" <=> rpc' = "remove")
  BY DEF StateInv, HandleInv, OneLiveObject
<1> QED
  BY <1>1, <1>2 DEF Visible

\* A flush after a drop that was cut short is an AddTorn.
LEMMA TornAdd ==
  ASSUME NEW b \in Batches, torn = "yes", torn' = torn, MoreOf(b, Live, Live'),
         Durable' = Live' \/ MoreOf(b, Durable, Durable')
  PROVE  Abstract!Next
<1>1. \E i \in Live[b]..2 : Live' = [Live EXCEPT ![b] = i]
  BY DEF MoreOf
<1>2. Durable' = Live' \/ \E i \in Durable[b]..2 : Durable' = [Durable EXCEPT ![b] = i]
  BY DEF MoreOf
<1>3. Abstract!AddTorn(b)
  BY <1>1, <1>2 DEF Abstract!AddTorn
<1> QED
  BY <1>3 DEF Abstract!Next

\* What a flush lists is seen once, or more often after such a drop.
LEMMA FlushSeen ==
  ASSUME NoStaleMerge, StateInv, StateInv', RowInv, AddPartPublish \/ AddPartPublishFails
  PROVE  /\ fbatch \in Batches /\ torn' = torn
         /\ MoreOf(fbatch, Live, Live')
         /\ torn # "yes" => /\ Live[fbatch] = 0 /\ Live' = [Live EXCEPT ![fbatch] = 1]
                            /\ Durable[fbatch] = 0
         /\ AddPartPublish => Durable' = Live'
         /\ AddPartPublishFails => Durable' = Durable
<1>1. /\ UNCHANGED <<cur, content, again, rpc, torn>>
      /\ cur \in Objects /\ cur # 0 /\ fid \in PartIDs /\ fbatch \in Batches
      /\ parts'[cur] = Plus(parts[cur], fid)
      /\ content[fid] = {fbatch} /\ again[fid] = {}
      /\ \A n \in PartIDs : n # fid => fbatch \notin content[n]
  BY FlushPublishes
<1>2. fpc = "publish" /\ fobj = cur /\ rpc = "idle"
  BY DEF AddPartPublish, AddPartPublishFails, StateInv, HandleInv, FlushTargetIsCurrent, DropAlone
<1>3. parts[cur] \in Lists /\ manifest \in Lists /\ torn \in {"no", "yes"}
  BY <1>1 DEF StateInv, TypeInv, TypeOK, DiskTypes, ObjectTypes
<1>4. /\ Live = Seen(content, again, parts[cur]) /\ Durable = Seen(content, again, manifest)
      /\ Live' = Seen(content, again, Plus(parts[cur], fid))
      /\ Durable' = Seen(content, again, manifest')
  BY <1>1, <1>2, Views, ViewsNext
<1>5. /\ MoreOf(fbatch, Live, Live')
      /\ fid \notin Listed(parts[cur]) => Live[fbatch] = 0 /\ Live'[fbatch] = 1
  BY <1>1, <1>3, <1>4, PartListed
<1>6. AddPartPublish => Durable' = Live'
  BY <1>1, <1>2, <1>4 DEF AddPartPublish
<1>7. AddPartPublishFails => Durable' = Durable
  BY <1>1, <1>4 DEF AddPartPublishFails
<1>8. ASSUME torn # "yes"
      PROVE  /\ Live[fbatch] = 0 /\ Live' = [Live EXCEPT ![fbatch] = 1]
             /\ Durable[fbatch] = 0
  <2>1. fid \notin Listed(parts[cur])
    BY <1>2, <1>3, <1>8 DEF RowInv, FlushApart
  <2>2. Listed(manifest) \subseteq Listed(parts[cur])
    <3>1. \A n \in PartIDs : manifest[n] <= parts[cur][n]
      BY <1>1 DEF RowInv, ListedOnce
    <3>2. \A n \in PartIDs : manifest[n] \in Nat /\ parts[cur][n] \in Nat
      BY <1>3 DEF Lists
    <3> QED
      BY <3>1, <3>2 DEF Listed
  <2>3. fbatch \notin Rows(content, manifest) /\ fbatch \notin Twice(content, again, manifest)
    <3>1. \A n \in Listed(manifest) : n \in PartIDs /\ n # fid
      BY <2>1, <2>2 DEF Listed
    <3>2. \A n \in Listed(manifest) : fbatch \notin content[n]
      BY <1>1, <3>1
    <3> QED
      BY <3>2 DEF Rows, Twice
  <2>4. Durable[fbatch] = 0
    BY <1>1, <1>4, <2>3, SeenCopies
  <2> QED
    BY <1>5, <2>1, <2>4 DEF MoreOf
<1> QED
  BY <1>1, <1>5, <1>6, <1>7, <1>8

\* The rename of a flush shows its rows only where the number is listed
\* already.
LEMMA RenameSeen ==
  ASSUME NoStaleMerge, StateInv, StateInv', RowInv, AddPartRename
  PROVE  Abstract!Next \/ UNCHANGED <<Live, Durable, torn>>
<1>1. fpc = "rename" /\ fobj = cur /\ rpc = "idle" /\ cur # 0 /\ cur \in Objects
  BY ObjectsExist DEF AddPartRename, StateInv, TypeInv, TypeOK, FlushTypes, HandleInv,
    FlushTargetIsCurrent, DropAlone
<1>2. fid \in PartIDs /\ fbatch \in Batches /\ staged[fid] = {fbatch} /\ content[fid] = {}
  BY <1>1 DEF StateInv, TypeInv, FlushBusy, NumberInv, NumbersFree
<1>3. RenameWorks(fid)
  BY <1>2 DEF RenameWorks
<1>4. /\ content' = [content EXCEPT ![fid] = {fbatch}] /\ again' = [again EXCEPT ![fid] = {}]
      /\ UNCHANGED <<manifest, torn, cur, parts, dropped, rpc>>
  BY <1>2, <1>3 DEF AddPartRename, Rename
<1>5. /\ parts[cur] \in Lists /\ manifest \in Lists /\ torn \in {"no", "yes"}
      /\ content \in [PartIDs -> SUBSET Batches] /\ again \in [PartIDs -> SUBSET Batches]
  BY <1>1 DEF StateInv, TypeInv, TypeOK, DiskTypes, ObjectTypes
<1>6. /\ Live = Seen(content, again, parts[cur]) /\ Durable = Seen(content, again, manifest)
      /\ Live' = Seen(content', again', parts[cur]) /\ Durable' = Seen(content', again', manifest)
  BY <1>1, <1>4, Views, ViewsNext
<1>7. CASE fid \notin Listed(parts[cur])
  <2>1. Listed(manifest) \subseteq Listed(parts[cur])
    <3>1. \A n \in PartIDs : manifest[n] <= parts[cur][n]
      BY <1>1 DEF RowInv, ListedOnce
    <3>2. \A n \in PartIDs : manifest[n] \in Nat /\ parts[cur][n] \in Nat
      BY <1>5 DEF Lists
    <3> QED
      BY <3>1, <3>2 DEF Listed
  <2>2. \A n \in Listed(parts[cur]) : content[n] = content'[n] /\ again[n] = again'[n]
    BY <1>4, <1>5, <1>7 DEF Listed
  <2>3. Live' = Live
    BY <1>6, <2>2, SameRows DEF Seen
  <2>4. \A n \in Listed(manifest) : content[n] = content'[n] /\ again[n] = again'[n]
    BY <2>1, <2>2
  <2>5. Durable' = Durable
    BY <1>6, <2>4, SameRows DEF Seen
  <2> QED
    BY <1>4, <2>3, <2>5
<1>8. CASE fid \in Listed(parts[cur])
  <2>1. torn = "yes"
    BY <1>1, <1>5, <1>8 DEF RowInv, FlushApart
  <2>2. \A n \in PartIDs : fbatch \notin content[n]
    BY <1>1 DEF RowInv, BatchIsNew
  <2>3. MoreOf(fbatch, Live, Live') /\ MoreOf(fbatch, Durable, Durable')
    BY <1>2, <1>4, <1>5, <1>6, <2>2, PartInPlace
  <2> QED
    BY <1>2, <1>4, <2>1, <2>3, TornAdd
<1> QED
  BY <1>7, <1>8

\* Every step of the partition is one of DayParts, or changes nothing there.
LEMMA DayStep ==
  ASSUME NoStaleMerge, StateInv, StateInv', RowInv, [Next]_vars
  PROVE  Abstract!Next \/ UNCHANGED <<Live, Durable, torn>>
<1>0. Targets
  BY WorkOnTheLiveObject DEF StateInv
<1>a. /\ Live = Seen(content, again, Visible) /\ Durable = Seen(content, again, manifest)
      /\ Visible = IF cur = 0 \/ rpc = "remove" THEN NoParts ELSE parts[cur]
  BY Views
<1>b. /\ Live' = Seen(content', again', Visible') /\ Durable' = Seen(content', again', manifest')
      /\ Visible' = IF cur' = 0 \/ rpc' = "remove" THEN NoParts ELSE parts'[cur']
  BY ViewsNext
<1>c. /\ torn \in {"no", "yes"} /\ manifest \in Lists /\ parts \in [Objects -> Lists]
      /\ content \in [PartIDs -> SUBSET Batches] /\ again \in [PartIDs -> SUBSET Batches]
  BY DEF StateInv, TypeInv, TypeOK, DiskTypes, ObjectTypes
<1>d. \A x, y : Seen(x, y, NoParts) = Abstract!None
  BY SeenNothing
<1>e. cur # 0 => Listed(manifest) \subseteq Listed(parts[cur])
  <2>1. cur # 0 => \A n \in PartIDs : manifest[n] <= parts[cur][n]
    BY DEF RowInv, ListedOnce
  <2>2. cur # 0 => \A n \in PartIDs : manifest[n] \in Nat /\ parts[cur][n] \in Nat
    BY <1>0, <1>c DEF Lists, Targets
  <2> QED
    BY <2>1, <2>2 DEF Listed
<1>1. CASE Idle /\ dropped' = dropped
  <2>1. Visible' = Visible
    BY <1>1 DEF Visible, Idle
  <2> QED
    BY <1>1, <1>a, <1>b, <2>1 DEF Idle
<1>2. CASE DropStart
  <2>1. Live' = Abstract!None
    BY <1>2, <1>b, <1>d DEF DropStart
  <2>2. Durable' = Durable /\ torn' = torn
    BY <1>2, <1>a, <1>b DEF DropStart
  <2> QED
    BY <2>1, <2>2 DEF Abstract!Next, Abstract!Hide
<1>3. CASE GetPartition
  <2>1. CASE cur # 0
    <3>1. UNCHANGED <<disk, objects>>
      BY <1>3, <2>1 DEF GetPartition, OpenPartition
    <3>2. Visible' = Visible
      BY <3>1 DEF Visible
    <3> QED
      BY <1>a, <1>b, <3>1, <3>2
  <2>2. CASE cur = 0
    <3>1. Live = Abstract!None
      BY <1>a, <1>d, <2>2
    <3>2. opens + 1 \in Objects /\ cur' = opens + 1 /\ opens \in Nat
      BY <1>3, <2>2, ObjectsExist DEF GetPartition, OpenPartition, StateInv, TypeInv, TypeOK, ObjectTypes
    <3>3. parts'[cur'] = manifest /\ UNCHANGED <<content, again, manifest, torn, rpc>>
      BY <1>3, <1>c, <2>2, <3>2 DEF GetPartition, OpenPartition
    <3>4. rpc = "idle"
      BY <1>3, FreeLocks DEF GetPartition, StateInv, TypeInv, TypeOK, BoundTypes
    <3>5. Live' = Durable /\ Durable' = Durable
      BY <1>a, <1>b, <3>2, <3>3, <3>4
    <3> QED
      BY <3>1, <3>3, <3>5 DEF Abstract!Next, Abstract!Reopen
  <2> QED
    BY <2>1, <2>2
<1>4. CASE AddPartRename
  BY <1>4, RenameSeen
<1>5. CASE AddPartPublish \/ AddPartPublishFails
  <2> DEFINE b == fbatch
  <2>1. /\ b \in Batches /\ torn' = torn
        /\ MoreOf(b, Live, Live')
        /\ torn # "yes" => Live[b] = 0 /\ Live' = [Live EXCEPT ![b] = 1] /\ Durable[b] = 0
        /\ Durable' = Live' \/ Durable' = Durable
    BY <1>5, FlushSeen
  <2> HIDE DEF b
  <2>2. CASE torn # "yes"
    <3>1. Abstract!Add(b) \/ Abstract!AddUnsaved(b)
      BY <2>1, <2>2 DEF Abstract!Add, Abstract!AddUnsaved
    <3> QED
      BY <2>1, <3>1 DEF Abstract!Next
  <2>3. CASE torn = "yes"
    <3>1. Durable \in [Batches -> 0..2]
      BY <1>a, SeenCopies
    <3>2. Durable' = Durable => MoreOf(b, Durable, Durable')
      BY <2>1, <3>1 DEF MoreOf
    <3> QED
      BY <2>1, <2>3, <3>2, TornAdd
  <2> QED
    BY <2>2, <2>3
<1>6. CASE MergeRename
  <2>1. UNCHANGED <<cur, parts, dropped, manifest, torn>>
    BY <1>6 DEF MergeRename, Rename
  <2>2. /\ cur # 0 /\ mid \in PartIDs /\ mid \notin Listed(parts[cur])
    BY <1>6, <1>0 DEF MergeRename, Targets, StateInv, TypeInv, MergeBusy, RowInv, MergeKeepsRows
  <2>3. \A n \in PartIDs : n # mid => content[n] = content'[n] /\ again[n] = again'[n]
    BY <1>6, <1>c DEF MergeRename, Rename
  <2>4. \A n \in Listed(parts[cur]) : content[n] = content'[n] /\ again[n] = again'[n]
    BY <2>2, <2>3 DEF Listed
  <2>5. Seen(content, again, parts[cur]) = Seen(content', again', parts[cur])
    BY <2>4, SameRows DEF Seen
  <2>6. Seen(content, again, manifest) = Seen(content', again', manifest)
    <3>1. \A n \in Listed(manifest) : content[n] = content'[n] /\ again[n] = again'[n]
      BY <1>e, <2>2, <2>4
    <3> QED
      BY <3>1, SameRows DEF Seen
  <2>7. Visible' = Visible
    BY <2>1 DEF Visible
  <2>8. Live' = Live
    BY <1>a, <1>b, <1>d, <2>5, <2>7
  <2> QED
    BY <1>a, <1>b, <2>1, <2>6, <2>8
<1>7. CASE MergeSave
  <2>1. /\ UNCHANGED <<cur, content, again, rpc, torn>> /\ cur # 0 /\ manifest' = parts'[cur]
        /\ Rows(content, parts'[cur]) = Rows(content, parts[cur])
        /\ Twice(content, again, parts'[cur]) = Twice(content, again, parts[cur])
    BY <1>7, MergeSaves
  <2>2. rpc # "remove"
    BY <1>7 DEF MergeSave, StateInv, HandleInv, DropAlone
  <2>3. Seen(content, again, parts'[cur]) = Seen(content, again, parts[cur])
    BY <2>1 DEF Seen
  <2>4. Live' = Live /\ Durable' = Live
    BY <1>a, <1>b, <2>1, <2>2, <2>3
  <2> QED
    BY <2>1, <2>4 DEF Abstract!Next, Abstract!Resave
<1>8. ASSUME NEW n \in PartIDs, MergeDelete(n)
      PROVE  UNCHANGED <<Live, Durable, torn>>
  <2>1. UNCHANGED <<cur, parts, dropped, manifest, torn>>
    BY <1>8 DEF MergeDelete
  <2>2. cur # 0 /\ n \notin Listed(parts[cur])
    BY <1>8, <1>0 DEF MergeDelete, Targets, RowInv, MergeKeepsRows
  <2>3. \A m \in PartIDs : m # n => content[m] = content'[m] /\ again[m] = again'[m]
    BY <1>8, <1>c DEF MergeDelete, Remove
  <2>4. \A m \in Listed(parts[cur]) : content[m] = content'[m] /\ again[m] = again'[m]
    BY <2>2, <2>3 DEF Listed
  <2>5. Seen(content, again, parts[cur]) = Seen(content', again', parts[cur])
    BY <2>4, SameRows DEF Seen
  <2>6. Seen(content, again, manifest) = Seen(content', again', manifest)
    <3>1. \A m \in Listed(manifest) : content[m] = content'[m] /\ again[m] = again'[m]
      BY <1>e, <2>2, <2>4
    <3> QED
      BY <3>1, SameRows DEF Seen
  <2>7. Visible' = Visible
    BY <2>1 DEF Visible
  <2>8. Live' = Live
    BY <1>a, <1>b, <1>d, <2>5, <2>7
  <2> QED
    BY <1>a, <1>b, <2>1, <2>6, <2>8
<1>9. ASSUME NEW n \in PartIDs, DropRemoves(n)
      PROVE  Abstract!Next
  <2>1. /\ rpc = "remove" /\ UNCHANGED <<rpc, manifest, torn>>
        /\ content' = [content EXCEPT ![n] = {}] /\ again' = [again EXCEPT ![n] = {}]
    BY <1>9 DEF DropRemoves, Remove
  <2>2. Live = Abstract!None /\ Live' = Abstract!None
    BY <1>a, <1>b, <1>d, <2>1
  <2>3. \A m \in Listed(manifest) : content'[m] \subseteq content[m] /\ again'[m] \subseteq again[m]
    BY <1>c, <2>1 DEF Listed
  <2>4. \A x \in Batches : Seen(content', again', manifest)[x] <= Seen(content, again, manifest)[x]
    BY <2>3, PartsGo
  <2>5. Durable' \in [Batches -> 0..2]
    BY <1>b, SeenCopies
  <2>6. Abstract!Delete
    BY <1>a, <1>b, <2>1, <2>2, <2>4, <2>5 DEF Abstract!Delete
  <2> QED
    BY <2>6 DEF Abstract!Next
<1>10. CASE DropRemovesManifest
  <2>1. rpc = "remove" /\ UNCHANGED <<rpc, torn>> /\ manifest' = NoParts
    BY <1>10 DEF DropRemovesManifest
  <2>2. Live = Abstract!None /\ Live' = Abstract!None /\ Durable' = Abstract!None
    BY <1>a, <1>b, <1>d, <2>1
  <2>3. Durable \in [Batches -> 0..2] /\ Durable' \in [Batches -> 0..2]
    BY <1>a, <1>b, SeenCopies
  <2>4. \A x \in Batches : Durable'[x] <= Durable[x]
    BY <2>2, <2>3 DEF Abstract!None
  <2>5. Abstract!Delete
    BY <2>1, <2>2, <2>3, <2>4 DEF Abstract!Delete
  <2> QED
    BY <2>5 DEF Abstract!Next
<1>11. CASE DropDone
  <2>1. /\ rpc = "remove" /\ cur' = 0 /\ UNCHANGED <<content, again, manifest>>
        /\ torn' = torn \/ torn' = "yes"
    BY <1>11 DEF DropDone
  <2>2. Live = Abstract!None /\ Live' = Abstract!None
    BY <1>a, <1>b, <1>d, <2>1
  <2>3. Durable' = Durable
    BY <1>a, <1>b, <2>1
  <2>4. torn' = "yes" => Abstract!CutShort
    BY <2>2, <2>3 DEF Abstract!CutShort
  <2> QED
    BY <2>1, <2>2, <2>3, <2>4 DEF Abstract!Next
<1>12. CASE Crash
  <2>1. cur' = 0 /\ UNCHANGED <<content, again, manifest>> /\ (torn' = torn \/ torn' = "yes")
    BY <1>12 DEF Crash
  <2>2. Live' = Abstract!None
    BY <1>b, <1>d, <2>1
  <2>3. Durable' = Durable
    BY <1>a, <1>b, <2>1
  <2>4. torn' = "yes" => Abstract!CutShort
    BY <2>2, <2>3 DEF Abstract!CutShort
  <2>5. torn' = torn => Abstract!Stop
    BY <2>2, <2>3 DEF Abstract!Stop
  <2> QED
    BY <2>1, <2>4, <2>5 DEF Abstract!Next
<1>13. CASE Open
  <2>1. cur = 0 /\ rpc = "idle"
    BY <1>13 DEF Open, StateInv, TypeInv, TypeOK, ObjectTypes, DownIsIdle
  <2>2. CASE pdir = "present"
    <3>1. Live = Abstract!None
      BY <1>a, <1>d, <2>1
    <3>2. /\ cur' = 1 /\ parts'[1] = manifest
          /\ UNCHANGED <<content, again, manifest, torn, rpc>>
      BY <1>13, <1>c, <2>2, ObjectsExist DEF Open, OpenPartition, StateInv
    <3>3. Live' = Durable /\ Durable' = Durable
      BY <1>a, <1>b, <2>1, <3>2
    <3> QED
      BY <3>1, <3>2, <3>3 DEF Abstract!Next, Abstract!Reopen
  <2>3. CASE pdir # "present"
    <3>1. UNCHANGED <<disk, objects>>
      BY <1>13, <2>3 DEF Open, OpenPartition
    <3>2. Visible' = Visible
      BY <3>1 DEF Visible
    <3> QED
      BY <1>a, <1>b, <3>1, <3>2
  <2> QED
    BY <2>2, <2>3
<1> QED
  BY <1>1, <1>2, <1>3, <1>4, <1>5, <1>6, <1>7, <1>8, <1>9, <1>10, <1>11, <1>12, <1>13, IdleSteps

\* The partition implements DayParts: merges change neither what a query
\* reads nor what a restart brings back, counting copies; a flush adds its
\* rows, once unless a drop was cut short; and only a drop takes rows away.
THEOREM RefinesDayPartsHolds ==
  ASSUME NoStaleMerge
  PROVE  Spec => RefinesDayParts
<1>1. Init => Abstract!Init
  <2>1. SUFFICES ASSUME Init PROVE Abstract!Init
    OBVIOUS
  <2>2. Live = Seen(content, again, NoParts) /\ Durable = Seen(content, again, NoParts)
    BY <2>1 DEF Init, Live, Durable, Visible, Seen, RowsIn, RowsTwice, Rows, Twice
  <2>3. Live = Abstract!None /\ Durable = Abstract!None /\ torn = "no"
    BY <2>1, <2>2, SeenNothing DEF Init
  <2> QED
    BY <2>3 DEF Abstract!Init
<1>2. NoStaleMerge /\ StateInv /\ StateInv' /\ RowInv /\ [Next]_vars
        => [Abstract!Next]_<<Live, Durable, torn>>
  BY DayStep
<1>3. Spec => [](StateInv /\ RowInv)
  BY RowInvariant
<1> QED
  BY <1>1, <1>2, <1>3, PTL DEF Spec, RefinesDayParts, Abstract!Spec

====
