------------------------------ MODULE IndexDB ------------------------------
(***************************************************************************)
(* The segment files under series/: one directory for the forward index    *)
(* and one per day for the inverted index.  A flush appends a batch of     *)
(* records as a new file (list, temporary file, records, rename), an error *)
(* may end it at every step, retention removes a day's directory file by   *)
(* file, and the process may be killed at any instant.  flushMu admits one *)
(* of them at a time, so one program counter is enough.  mmctl lists every *)
(* one of them from another process, whenever someone calls it.            *)
(*                                                                         *)
(* A record is a SeriesID with its labels, which never change.  A file is  *)
(* named by its sequence number, printed with at least Width digits of     *)
(* base Base (the code: 6 digits of base 10).                              *)
(***************************************************************************)
EXTENDS Naturals

CONSTANTS
  Dirs,       \* the forward index and the days of the inverted index
  Forward,    \* series/indexdb
  Records,    \* the SeriesIDs
  Base, Width,
  MaxSeq,     \* bound on sequence numbers
  MaxFaults,  \* bound on file system errors
  MaxCrashes  \* bound on kill -9

ASSUME IndexDBAssumption ==
  /\ Forward \in Dirs
  /\ Records \subseteq Nat \ {0}
  /\ Base \in Nat /\ Base > 1
  /\ Width \in Nat /\ Width > 0
  /\ MaxSeq \in Nat /\ MaxFaults \in Nat /\ MaxCrashes \in Nat

\* Arithmetic that the provers, which know nothing of x^y, cannot supply.
ASSUME PowersGrow ==
  \A k \in Width..(Width + MaxSeq) : Base^k \in Nat /\ 0 < Base^Width /\ Base^Width <= Base^k

Seqs == 1..MaxSeq
\* No SeriesID is 0, so {0} can stand for a file that does not exist.
NoFile == {0}
Files == [Seqs -> (SUBSET Records) \cup {NoFile}]
NoFiles == [s \in Seqs |-> NoFile]

VARIABLES
  segs,      \* [Dirs -> Files]: NNNNNN.seg
  tmps,      \* [Dirs -> Files]: NNNNNN.seg.tmp
  pc,        \* what the holder of flushMu does, or "down"
  dir,       \* the directory it works on
  entries,   \* the batch to append
  seq,       \* the sequence number chosen for it
  left,      \* the records not yet written
  promised,  \* history: records of appends that returned nil, not dropped
  faults, crashes

disk == <<segs, tmps>>
writer == <<dir, entries, seq, left>>
vars == <<disk, pc, writer, promised, faults, crashes>>

Init ==
  /\ segs = [d \in Dirs |-> NoFiles]
  /\ tmps = [d \in Dirs |-> NoFiles]
  /\ pc = "idle" /\ dir = Forward /\ entries = {} /\ seq = 0 /\ left = {}
  /\ promised = [d \in Dirs |-> {}]
  /\ faults = 0 /\ crashes = 0

\* A file system operation returns an error.
Fault == faults < MaxFaults /\ faults' = faults + 1

-----------------------------------------------------------------------------
(* The names of the segments and their order.                               *)

\* The digits that "%06d" prints for n: at least Width of them.
DigitCount(n) ==
  CHOOSE k \in Width..(Width + n) :
    /\ n < Base^k
    /\ k = Width \/ Base^(k - 1) <= n

\* sort.Strings: two strings of digits compare as the fractions 0.d1d2...,
\* and a string sorts before the longer ones that continue it with zeros
\* ('.' sorts before '0').
SortsBefore(m, n) ==
  LET k == DigitCount(m)
      l == DigitCount(n)
  IN  \/ m * Base^l < n * Base^k
      \/ m * Base^l = n * Base^k /\ k < l

\* listIndexSegments: the sequence numbers of the files named *.seg.
Segments(d) == {s \in Seqs : segs[d][s] # NoFile}

\* names[len(names)-1].
LastSegment(d) ==
  CHOOSE s \in Segments(d) : \A t \in Segments(d) : t = s \/ SortsBefore(t, s)

\* Seeded bug: the last segment's number is used again.
SeqOfLastSegment(d) == IF Segments(d) = {} THEN 1 ELSE LastSegment(d)

NextIndexSegmentSeq(d) == IF Segments(d) = {} THEN 1 ELSE LastSegment(d) + 1

-----------------------------------------------------------------------------
(* appendIndexSegment.                                                      *)

\* Flush hands over what the registry does not know to be saved
\* (DrainPending, UnindexedIDs).
AppendIndexSegment(d, S) ==
  /\ pc = "idle" /\ S # {}
  /\ S \cap promised[d] = {}
  /\ NextIndexSegmentSeq(d) \in Seqs   \* the bound
  /\ dir' = d /\ entries' = S /\ pc' = "list"
  /\ UNCHANGED <<disk, seq, left, promised, faults, crashes>>

\* The listing removes what crashed or failed appends left behind; the
\* result of os.Remove is ignored.
RemoveStaleTmps(d) ==
  \/ tmps' = [tmps EXCEPT ![d] = NoFiles] /\ UNCHANGED faults
  \/ Fault /\ tmps[d] # NoFiles /\ UNCHANGED tmps

ChooseSeq ==
  /\ pc = "list"
  /\ seq' = NextIndexSegmentSeq(dir)
  /\ RemoveStaleTmps(dir)
  /\ pc' = "create"
  /\ UNCHANGED <<segs, dir, entries, left, promised, crashes>>

\* Seeded bug: the temporary file is opened without O_TRUNC.
CreateTmpNoTruncate ==
  /\ pc = "create"
  /\ tmps' = [tmps EXCEPT ![dir][seq] = IF @ = NoFile THEN {} ELSE @]
  /\ left' = entries
  /\ pc' = "write"
  /\ UNCHANGED <<segs, dir, entries, seq, promised, faults, crashes>>

CreateTmp ==
  /\ pc = "create"
  /\ tmps' = [tmps EXCEPT ![dir][seq] = {}]
  /\ left' = entries
  /\ pc' = "write"
  /\ UNCHANGED <<segs, dir, entries, seq, promised, faults, crashes>>

\* Records are written in the order of their IDs, to no avail if the name of
\* the open file is gone.
WriteRecord(id) ==
  /\ pc = "write" /\ id \in left
  /\ \A other \in left : id <= other
  /\ tmps' = [tmps EXCEPT ![dir][seq] = IF @ = NoFile THEN NoFile ELSE @ \cup {id}]
  /\ left' = left \ {id}
  /\ UNCHANGED <<segs, pc, dir, entries, seq, promised, faults, crashes>>

\* The append is over; its entries stay with the registry if it failed.
Return == pc' = "idle" /\ entries' = {} /\ seq' = 0 /\ left' = {}

\* Seeded bug: the file is renamed before all records are in it.
RenameEarly ==
  /\ pc = "write" /\ tmps[dir][seq] # NoFile
  /\ segs' = [segs EXCEPT ![dir][seq] = tmps[dir][seq]]
  /\ tmps' = [tmps EXCEPT ![dir][seq] = NoFile]
  /\ promised' = [promised EXCEPT ![dir] = @ \cup entries]
  /\ Return
  /\ UNCHANGED <<dir, faults, crashes>>

\* Flush, Sync, Close and the rename; the caller marks the entries persisted.
Rename ==
  /\ pc = "write" /\ left = {} /\ tmps[dir][seq] # NoFile
  /\ segs' = [segs EXCEPT ![dir][seq] = tmps[dir][seq]]
  /\ tmps' = [tmps EXCEPT ![dir][seq] = NoFile]
  /\ promised' = [promised EXCEPT ![dir] = @ \cup entries]
  /\ Return
  /\ UNCHANGED <<dir, faults, crashes>>

\* Seeded bug: a rename that finds no temporary file counts as done.
RenameFindsNothingIgnored ==
  /\ pc = "write" /\ left = {} /\ tmps[dir][seq] = NoFile
  /\ promised' = [promised EXCEPT ![dir] = @ \cup entries]
  /\ Return
  /\ UNCHANGED <<disk, dir, faults, crashes>>

\* The temporary file was removed under the writer: the rename fails.
RenameFindsNothing ==
  /\ pc = "write" /\ left = {} /\ tmps[dir][seq] = NoFile
  /\ Return
  /\ UNCHANGED <<disk, dir, promised, faults, crashes>>

\* An error at any step: a temporary file stays where it is.
AppendFails ==
  /\ pc \in {"list", "create", "write"}
  /\ Fault
  /\ Return
  /\ UNCHANGED <<disk, dir, promised, crashes>>

-----------------------------------------------------------------------------
(* os.RemoveAll of an expired day's directory.                              *)

RemoveAll(d) ==
  /\ pc = "idle" /\ d # Forward
  /\ pc' = "remove" /\ dir' = d
  /\ promised' = [promised EXCEPT ![d] = {}]
  /\ UNCHANGED <<disk, entries, seq, left, faults, crashes>>

RemoveSegment(s) ==
  /\ pc = "remove" /\ s \in Segments(dir)
  /\ segs' = [segs EXCEPT ![dir][s] = NoFile]
  /\ UNCHANGED <<tmps, pc, writer, promised, faults, crashes>>

RemoveTmp(s) ==
  /\ pc = "remove" /\ tmps[dir][s] # NoFile
  /\ tmps' = [tmps EXCEPT ![dir][s] = NoFile]
  /\ UNCHANGED <<segs, pc, writer, promised, faults, crashes>>

RemoveAllDone ==
  /\ pc = "remove" /\ segs[dir] = NoFiles /\ tmps[dir] = NoFiles
  /\ pc' = "idle"
  /\ UNCHANGED <<disk, writer, promised, faults, crashes>>

RemoveAllFails ==
  /\ pc = "remove" /\ Fault
  /\ pc' = "idle"
  /\ UNCHANGED <<disk, writer, promised, crashes>>

-----------------------------------------------------------------------------
(* kill -9 and Open.                                                        *)

Crash ==
  /\ pc # "down" /\ crashes < MaxCrashes
  /\ crashes' = crashes + 1
  /\ pc' = "down" /\ entries' = {} /\ seq' = 0 /\ left' = {}
  /\ UNCHANGED <<disk, dir, promised, faults>>

\* What loadRegistry and loadInverted read back from a directory.
Replay(d) == UNION {segs[d][s] : s \in Segments(d)}

\* Open lists every directory, which removes the temporary files.
Open ==
  /\ pc = "down"
  /\ tmps' = [d \in Dirs |-> NoFiles]
  /\ pc' = "idle"
  /\ UNCHANGED <<segs, writer, promised, faults, crashes>>

\* mmctl replays the forward index and, with it, every day of the inverted
\* index: the listing of a directory takes every temporary file for a
\* leftover, that of a running append included.
MmctlRemovesTmp(d, s) ==
  /\ tmps[d][s] # NoFile
  /\ tmps' = [tmps EXCEPT ![d][s] = NoFile]
  /\ UNCHANGED <<segs, pc, writer, promised, faults, crashes>>

-----------------------------------------------------------------------------
Next ==
  \/ \E d \in Dirs, S \in SUBSET Records : AppendIndexSegment(d, S)
  \/ ChooseSeq \/ CreateTmp
  \/ \E id \in Records : WriteRecord(id)
  \/ Rename \/ RenameFindsNothing \/ AppendFails
  \/ \E d \in Dirs : RemoveAll(d)
  \/ \E s \in Seqs : RemoveSegment(s) \/ RemoveTmp(s)
  \/ \E d \in Dirs, s \in Seqs : MmctlRemovesTmp(d, s)
  \/ RemoveAllDone \/ RemoveAllFails
  \/ Crash \/ Open

Spec == Init /\ [][Next]_vars

-----------------------------------------------------------------------------
(* Properties.                                                              *)

\* Type invariant: the files are named by sequence numbers and hold records;
\* the temporary file of an append, while it has one, holds what was written.
TypeOK ==
  /\ segs \in [Dirs -> Files] /\ tmps \in [Dirs -> Files]
  /\ pc \in {"down", "idle", "list", "create", "write", "remove"}
  /\ dir \in Dirs
  /\ entries \subseteq Records /\ left \subseteq entries
  /\ seq \in 0..MaxSeq
  /\ pc \in {"create", "write"} => seq \in Seqs
  /\ pc = "write" => tmps[dir][seq] \in {NoFile, entries \ left}
  /\ promised \in [Dirs -> SUBSET Records]
  /\ faults \in 0..MaxFaults /\ crashes \in 0..MaxCrashes

\* "A crash mid-write leaves a complete previous generation of segments"
\* (appendIndexSegment): whatever failed, crashed or was removed by a second
\* process since, a replay finds every record of every append that returned
\* nil, except those of a day that retention went on to drop.
Recoverable == \A d \in Dirs : promised[d] \subseteq Replay(d)

\* "Each flush appends ... one immutable segment file" (indexdb): a file of
\* the directory listing keeps its records until it is removed.
SegmentsImmutable ==
  [][\A d \in Dirs : \A s \in Segments(d) : segs'[d][s] \in {segs[d][s], NoFile}]_vars

\* What the directories promise to the registry (module RecordStore): each
\* batch that a flush appends is in the replay as a whole or not at all.
Appending == pc \in {"list", "create", "write"}
Batch == [into |-> IF Appending THEN dir ELSE Forward, records |-> entries]
Abstract == INSTANCE RecordStore WITH recorded <- [d \in Dirs |-> Replay(d)], batch <- Batch
RefinesRecordStore == Abstract!Spec
====
