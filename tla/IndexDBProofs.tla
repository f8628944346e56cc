--------------------------- MODULE IndexDBProofs ---------------------------
(***************************************************************************)
(* Theorems about the segment files (module IndexDB), for any directories, *)
(* records, names and bounds.  TypeOK holds of all of them.  The rest      *)
(* holds while the numbers fit the digits that the names are padded to:    *)
(* beyond, the last name is no longer that of the last segment, and an     *)
(* append replaces a file (run indexdb_overwrite).                         *)
(***************************************************************************)
EXTENDS IndexDB, WellFoundedInduction, TLAPS

USE DEF disk, writer

\* "%06d" pads every sequence number in use to the same length.
NamesFit == MaxSeq < Base^Width

-----------------------------------------------------------------------------
(* The order of the names.                                                  *)

\* A number that fits is printed with exactly Width digits.
LEMMA PaddedNames ==
  ASSUME NamesFit, NEW n \in Seqs
  PROVE  DigitCount(n) = Width
<1>1. n \in Nat /\ n < Base^Width /\ Base^Width \in Nat
  BY IndexDBAssumption, PowersGrow DEF NamesFit, Seqs
<1>2. \A k \in Width..(Width + n) : (k = Width \/ Base^(k - 1) <= n) => k = Width
  <2> SUFFICES ASSUME NEW k \in Width..(Width + n), Base^(k - 1) <= n, k # Width
               PROVE  FALSE
    OBVIOUS
  <2>1. k - 1 \in Width..(Width + MaxSeq)
    BY IndexDBAssumption DEF Seqs
  <2>2. Base^(k - 1) \in Nat /\ Base^Width <= Base^(k - 1)
    BY <2>1, PowersGrow
  <2> QED
    BY <1>1, <2>2
<1>3. Width \in Width..(Width + n)
  BY <1>1, IndexDBAssumption
<1> QED
  BY <1>1, <1>2, <1>3 DEF DigitCount

\* sort.Strings puts the names in the order of their numbers.
LEMMA NamesInOrder ==
  ASSUME NamesFit, NEW m \in Seqs, NEW n \in Seqs
  PROVE  SortsBefore(m, n) <=> m < n
<1> DEFINE P == Base^Width
<1>1. DigitCount(m) = Width /\ DigitCount(n) = Width
  BY PaddedNames
<1>2. P \in Nat /\ 0 < P
  BY IndexDBAssumption, PowersGrow
<1>3. m \in Nat /\ n \in Nat /\ Width \in Nat
  BY IndexDBAssumption DEF Seqs
<1>4. SortsBefore(m, n) <=> (m * P < n * P \/ (m * P = n * P /\ Width < Width))
  BY <1>1 DEF SortsBefore
<1> HIDE DEF P
<1>5. m * P < n * P <=> m < n
  BY <1>2, <1>3
<1> QED
  BY <1>3, <1>4, <1>5

\* A set of sequence numbers that is not empty has a largest one.
LEMMA SeqsHaveMax ==
  ASSUME NEW S \in SUBSET Seqs, S # {}
  PROVE  \E s \in S : \A t \in S : t <= s
<1> DEFINE T == {MaxSeq - s : s \in S}
<1>1. \A s \in S : s \in Nat /\ MaxSeq - s \in Nat
  BY IndexDBAssumption DEF Seqs
<1>2. T \subseteq Nat /\ T # {}
  BY <1>1
<1>3. PICK x \in T : \A y \in T : ~(<<y, x>> \in OpToRel(<, Nat))
  BY <1>2, WFMin, NatLessThanWellFounded
<1>4. \A y \in T : ~(y < x)
  BY <1>2, <1>3 DEF OpToRel
<1>5. PICK s \in S : x = MaxSeq - s
  OBVIOUS
<1>6. \A t \in S : ~(MaxSeq - t < MaxSeq - s)
  BY <1>4, <1>5
<1> QED
  BY <1>1, <1>6, IndexDBAssumption

\* nextIndexSegmentSeq returns a number that no segment has: the file that
\* an append renames into place replaces none.
LEMMA NextSeqIsFree ==
  ASSUME NamesFit, NEW d \in Dirs
  PROVE  NextIndexSegmentSeq(d) \notin Segments(d)
<1>1. Segments(d) \subseteq Seqs /\ \A s \in Seqs : s \in Nat
  BY IndexDBAssumption DEF Segments, Seqs
<1>2. CASE Segments(d) = {}
  BY <1>2
<1>3. CASE Segments(d) # {}
  <2>1. PICK s \in Segments(d) : \A t \in Segments(d) : t <= s
    BY <1>1, <1>3, SeqsHaveMax
  <2>2. \A t \in Segments(d) : t = s \/ SortsBefore(t, s)
    BY <1>1, <2>1, NamesInOrder
  <2>3. LastSegment(d) \in Segments(d)
        /\ \A t \in Segments(d) : t = LastSegment(d) \/ SortsBefore(t, LastSegment(d))
    BY <2>2 DEF LastSegment
  <2>4. \A t \in Segments(d) : t <= LastSegment(d)
    BY <1>1, <2>3, NamesInOrder
  <2> QED
    BY <1>1, <1>3, <2>3, <2>4 DEF NextIndexSegmentSeq
<1> QED
  BY <1>2, <1>3

-----------------------------------------------------------------------------
(* Type correctness.                                                        *)

\* The number that the guard of an append found within the bound is still
\* the next one when the listing chooses it: nobody adds or removes a segment
\* meanwhile.
NextSeqBounded == pc = "list" => NextIndexSegmentSeq(dir) \in Seqs

\* Only a writer has records left to write.
NothingLeft == pc # "write" => left = {}

\* An append has a batch, and nobody else has one.
AppendHasBatch == entries # {} <=> Appending

TypeInv == TypeOK /\ NextSeqBounded /\ NothingLeft /\ AppendHasBatch

\* The listing of a directory depends on its segments alone.
LEMMA SameListing ==
  ASSUME NEW d \in Dirs, segs' = segs
  PROVE  Segments(d)' = Segments(d) /\ NextIndexSegmentSeq(d)' = NextIndexSegmentSeq(d)
BY DEF Segments, NextIndexSegmentSeq, LastSegment

\* TypeInv is kept by every step.
LEMMA TypeNext ==
  ASSUME TypeInv, [Next]_vars
  PROVE  TypeInv'
<1> USE IndexDBAssumption DEF TypeInv, NothingLeft, AppendHasBatch, Appending
<1>1. NoFile \in (SUBSET Records) \cup {NoFile} /\ NoFiles \in Files
  BY DEF Files, NoFiles
<1>2. /\ \A S \in SUBSET Records : S # NoFile
      /\ 0 \notin Seqs
  BY DEF NoFile, Seqs
<1>3. \A f \in Files, s \in Seqs, S \in SUBSET Records :
        [f EXCEPT ![s] = S] \in Files /\ [f EXCEPT ![s] = NoFile] \in Files
  BY DEF Files
<1>4. ASSUME NEW d \in Dirs, NEW S \in SUBSET Records, AppendIndexSegment(d, S)
      PROVE  TypeInv'
  <2>1. NextIndexSegmentSeq(dir)' = NextIndexSegmentSeq(d)
    BY <1>4 DEF AppendIndexSegment, NextIndexSegmentSeq, LastSegment, Segments
  <2>2. NextSeqBounded'
    BY <1>4, <2>1 DEF AppendIndexSegment, NextSeqBounded
  <2> QED
    BY <1>4, <2>2 DEF AppendIndexSegment, TypeOK
<1>5. CASE ChooseSeq
  <2>1. tmps' \in [Dirs -> Files] /\ faults' \in 0..MaxFaults
    BY <1>1, <1>5 DEF ChooseSeq, RemoveStaleTmps, Fault, TypeOK
  <2>2. seq' \in Seqs /\ seq' \in 0..MaxSeq
    BY <1>5 DEF ChooseSeq, NextSeqBounded, Seqs
  <2> QED
    BY <1>5, <2>1, <2>2 DEF ChooseSeq, TypeOK, NextSeqBounded
<1>6. CASE CreateTmp
  <2>1. tmps' \in [Dirs -> Files] /\ tmps'[dir][seq] = {}
    BY <1>3, <1>6 DEF CreateTmp, TypeOK, Files
  <2> QED
    BY <1>6, <2>1 DEF CreateTmp, TypeOK, NextSeqBounded
<1>7. ASSUME NEW id \in Records, WriteRecord(id)
      PROVE  TypeInv'
  <2>1. tmps[dir][seq] \in {NoFile, entries \ left} /\ seq \in Seqs /\ dir \in Dirs
    BY <1>7 DEF WriteRecord, TypeOK
  <2>2. tmps[dir][seq] = NoFile \/ tmps[dir][seq] \subseteq Records
    BY <2>1 DEF TypeOK
  <2> DEFINE new == IF tmps[dir][seq] = NoFile THEN NoFile ELSE tmps[dir][seq] \cup {id}
  <2>3. new \in (SUBSET Records) \cup {NoFile}
    BY <2>2
  <2>4. new \in {NoFile, entries \ left'}
    BY <1>7, <2>1 DEF WriteRecord, TypeOK
  <2>5. tmps' = [tmps EXCEPT ![dir] = [tmps[dir] EXCEPT ![seq] = new]]
    BY <1>7, <2>1 DEF WriteRecord, TypeOK
  <2> HIDE DEF new
  <2>6. tmps' \in [Dirs -> Files] /\ tmps'[dir][seq] = new
    BY <2>1, <2>3, <2>5 DEF TypeOK, Files
  <2> QED
    BY <1>7, <2>4, <2>6 DEF WriteRecord, TypeOK, NextSeqBounded
<1>8. CASE Rename
  <2>1. seq \in Seqs /\ dir \in Dirs /\ tmps[dir][seq] \in (SUBSET Records) \cup {NoFile}
    BY <1>8 DEF Rename, TypeOK, Files
  <2>2. segs' \in [Dirs -> Files] /\ tmps' \in [Dirs -> Files]
    BY <1>1, <1>8, <2>1 DEF Rename, TypeOK, Files
  <2>3. promised' \in [Dirs -> SUBSET Records]
    BY <1>8, <2>1 DEF Rename, TypeOK
  <2> QED
    BY <1>8, <2>2, <2>3 DEF Rename, Return, TypeOK, NextSeqBounded
<1>9. CASE RenameFindsNothing
  BY <1>9 DEF RenameFindsNothing, Return, TypeOK, NextSeqBounded
<1>10. CASE AppendFails
  BY <1>10 DEF AppendFails, Fault, Return, TypeOK, NextSeqBounded
<1>11. ASSUME NEW d \in Dirs, RemoveAll(d)
       PROVE  TypeInv'
  BY <1>11 DEF RemoveAll, TypeOK, NextSeqBounded
<1>12. ASSUME NEW s \in Seqs, RemoveSegment(s)
       PROVE  TypeInv'
  <2>1. segs' \in [Dirs -> Files]
    BY <1>3, <1>12 DEF RemoveSegment, TypeOK
  <2> QED
    BY <1>12, <2>1 DEF RemoveSegment, TypeOK, NextSeqBounded
<1>13. ASSUME NEW s \in Seqs, RemoveTmp(s)
       PROVE  TypeInv'
  <2>1. tmps' \in [Dirs -> Files]
    BY <1>3, <1>13 DEF RemoveTmp, TypeOK
  <2> QED
    BY <1>13, <2>1 DEF RemoveTmp, TypeOK, NextSeqBounded
<1>14. ASSUME NEW e \in Dirs, NEW s \in Seqs, MmctlRemovesTmp(e, s)
       PROVE  TypeInv'
  <2>1. tmps' \in [Dirs -> Files]
    BY <1>3, <1>14 DEF MmctlRemovesTmp, TypeOK
  <2>2. \A d \in Dirs, t \in Seqs : tmps'[d][t] \in {tmps[d][t], NoFile}
    BY <1>14 DEF MmctlRemovesTmp, TypeOK, Files
  <2>3. pc' = "list" => NextIndexSegmentSeq(dir') \in Seqs
    BY <1>14 DEF MmctlRemovesTmp, NextSeqBounded
  <2>4. NextSeqBounded'
    BY <1>14, <2>3, SameListing DEF MmctlRemovesTmp, NextSeqBounded, TypeOK
  <2>5. pc' = "write" => tmps'[dir'][seq'] \in {NoFile, entries' \ left'}
    BY <1>14, <2>2 DEF MmctlRemovesTmp, TypeOK
  <2> QED
    BY <1>14, <2>1, <2>4, <2>5 DEF MmctlRemovesTmp, TypeOK
<1>15. CASE RemoveAllDone
  BY <1>15 DEF RemoveAllDone, TypeOK, NextSeqBounded
<1>16. CASE RemoveAllFails
  BY <1>16 DEF RemoveAllFails, Fault, TypeOK, NextSeqBounded
<1>17. CASE Crash
  BY <1>17 DEF Crash, TypeOK, NextSeqBounded
<1>18. CASE Open
  BY <1>1, <1>18 DEF Open, TypeOK, NextSeqBounded
<1>19. CASE UNCHANGED vars
  <2>1. NextSeqBounded'
    BY <1>19, SameListing DEF vars, NextSeqBounded, TypeOK
  <2> QED
    BY <1>19, <2>1 DEF vars, TypeOK
<1> QED
  BY <1>4, <1>5, <1>6, <1>7, <1>8, <1>9, <1>10, <1>11, <1>12, <1>13, <1>14,
     <1>15, <1>16, <1>17, <1>18, <1>19 DEF Next

\* It holds of empty directories.
LEMMA TypeInit == Init => TypeInv
BY IndexDBAssumption DEF Init, TypeInv, TypeOK, NextSeqBounded, NothingLeft, AppendHasBatch,
  Appending, Files, NoFiles

\* Type correctness of the directories and of the append and the removal
\* that work on them: the temporary file of a running append, while it has
\* one, holds exactly the records written so far, whatever errors, crashes
\* and calls of mmctl came before.
THEOREM TypeCorrect == Spec => []TypeOK
<1>1. TypeInv /\ [Next]_vars => TypeInv'
  BY TypeNext
<1> QED
  BY <1>1, TypeInit, PTL DEF Spec, TypeInv

-----------------------------------------------------------------------------
(* No append replaces a segment, and a replay finds what was promised.      *)

\* The name that a running append has chosen is not that of a segment.
NameIsFree == pc \in {"create", "write"} => segs[dir][seq] = NoFile

\* Retention removes a day's directory, and only after it forgot the day.
RemovesForgotten == pc = "remove" => dir # Forward /\ promised[dir] = {}

SegmentInv == NameIsFree /\ RemovesForgotten /\ Recoverable


\* What a step does to the segments: nothing, or the file of the append
\* under a free name, or one file less of a day that is forgotten.
SegmentAdded ==
  /\ pc = "write" /\ segs[dir][seq] = NoFile
  /\ segs' = [segs EXCEPT ![dir][seq] = entries]
SegmentRemoved(s) ==
  /\ pc = "remove" /\ dir # Forward
  /\ segs' = [segs EXCEPT ![dir][s] = NoFile]

\* Every step is one of the three.
LEMMA StepsOfSegments ==
  ASSUME TypeInv, SegmentInv, [Next]_vars
  PROVE  \/ UNCHANGED <<segs, promised>>
         \/ UNCHANGED segs /\ \E d \in Dirs : promised' = [promised EXCEPT ![d] = {}]
         \/ SegmentAdded /\ promised' = [promised EXCEPT ![dir] = @ \cup entries]
         \/ UNCHANGED promised /\ \E s \in Seqs : SegmentRemoved(s)
<1>1. CASE Rename
  <2>1. tmps[dir][seq] = entries \ left /\ left = {}
    BY <1>1 DEF Rename, TypeInv, TypeOK
  <2>2. tmps[dir][seq] = entries
    BY <2>1
  <2> QED
    BY <1>1, <2>2 DEF Rename, SegmentAdded, SegmentInv, NameIsFree
<1>2. ASSUME NEW s \in Seqs, RemoveSegment(s)
      PROVE  UNCHANGED promised /\ SegmentRemoved(s)
  BY <1>2 DEF RemoveSegment, SegmentRemoved, SegmentInv, RemovesForgotten
<1>3. ASSUME NEW d \in Dirs, RemoveAll(d)
      PROVE  UNCHANGED segs /\ promised' = [promised EXCEPT ![d] = {}]
  BY <1>3 DEF RemoveAll
<1>4. \/ Rename \/ \E s \in Seqs : RemoveSegment(s)
      \/ \E d \in Dirs : RemoveAll(d)
      \/ UNCHANGED <<segs, promised>>
  BY DEF Next, vars, AppendIndexSegment, ChooseSeq, CreateTmp, WriteRecord,
         RenameFindsNothing, AppendFails, RemoveTmp, MmctlRemovesTmp,
         RemoveAllDone, RemoveAllFails, Crash, Open
<1> QED
  BY <1>1, <1>2, <1>3, <1>4

\* A replay of the same segments returns the same records.
LEMMA ReplaySame ==
  ASSUME segs' = segs, NEW d \in Dirs
  PROVE  Replay(d)' = Replay(d)
BY DEF Replay, Segments

\* A new segment adds its records to the replay of its directory.
LEMMA ReplayAdded ==
  ASSUME TypeInv, SegmentAdded, NEW d \in Dirs
  PROVE  Replay(d)' = IF d = dir THEN Replay(d) \cup entries ELSE Replay(d)
<1>1. dir \in Dirs /\ seq \in Seqs /\ entries \subseteq Records /\ entries # NoFile
  BY IndexDBAssumption DEF TypeInv, TypeOK, NoFile, SegmentAdded
<1>2. \A s \in Seqs : segs'[d][s] = IF d = dir /\ s = seq THEN entries ELSE segs[d][s]
  BY <1>1 DEF TypeInv, TypeOK, Files, SegmentAdded
<1>3. \A r : r \in Replay(d) <=> \E s \in Seqs : segs[d][s] # NoFile /\ r \in segs[d][s]
  BY DEF Replay, Segments
<1>4. \A r : r \in Replay(d)' <=> \E s \in Seqs : segs'[d][s] # NoFile /\ r \in segs'[d][s]
  BY DEF Replay, Segments
<1>5. CASE d = dir
  <2>1. \A r : r \in Replay(d)' <=> r \in Replay(d) \cup entries
    BY <1>1, <1>2, <1>3, <1>4, <1>5 DEF SegmentAdded
  <2> QED
    BY <1>5, <2>1
<1>6. CASE d # dir
  <2>1. \A r : r \in Replay(d)' <=> r \in Replay(d)
    BY <1>2, <1>3, <1>4, <1>6
  <2> QED
    BY <1>6, <2>1
<1> QED
  BY <1>5, <1>6

\* A removed segment takes records from the replay of its directory alone.
LEMMA ReplayRemoved ==
  ASSUME TypeInv, NEW t \in Seqs, SegmentRemoved(t), NEW d \in Dirs
  PROVE  Replay(d)' \subseteq Replay(d) /\ (d # dir => Replay(d)' = Replay(d))
<1>1. \A s \in Seqs : segs'[d][s] = IF d = dir /\ s = t THEN NoFile ELSE segs[d][s]
  BY DEF TypeInv, TypeOK, Files, SegmentRemoved
<1>2. \A r : r \in Replay(d) <=> \E s \in Seqs : segs[d][s] # NoFile /\ r \in segs[d][s]
  BY DEF Replay, Segments
<1>3. \A r : r \in Replay(d)' <=> \E s \in Seqs : segs'[d][s] # NoFile /\ r \in segs'[d][s]
  BY DEF Replay, Segments
<1>4. \A r : r \in Replay(d)' => r \in Replay(d)
  BY <1>1, <1>2, <1>3
<1>5. d # dir => \A r : r \in Replay(d)' <=> r \in Replay(d)
  BY <1>1, <1>2, <1>3
<1> QED
  BY <1>4, <1>5

\* The records of every append that returned nil stay in the replay.
LEMMA RecoverableNext ==
  ASSUME TypeInv, SegmentInv, [Next]_vars
  PROVE  Recoverable'
<1> SUFFICES ASSUME NEW d \in Dirs
             PROVE  promised'[d] \subseteq Replay(d)'
  BY DEF Recoverable
<1>1. promised[d] \subseteq Replay(d) /\ promised \in [Dirs -> SUBSET Records]
  BY DEF TypeInv, TypeOK, SegmentInv, Recoverable
<1>2. CASE UNCHANGED <<segs, promised>>
  BY <1>1, <1>2, ReplaySame
<1>3. CASE UNCHANGED segs /\ \E e \in Dirs : promised' = [promised EXCEPT ![e] = {}]
  BY <1>1, <1>3, ReplaySame
<1>4. CASE SegmentAdded /\ promised' = [promised EXCEPT ![dir] = @ \cup entries]
  <2>1. Replay(d)' = IF d = dir THEN Replay(d) \cup entries ELSE Replay(d)
    BY <1>4, ReplayAdded
  <2>2. promised'[d] = IF d = dir THEN promised[d] \cup entries ELSE promised[d]
    BY <1>1, <1>4
  <2> QED
    BY <1>1, <2>1, <2>2
<1>5. ASSUME UNCHANGED promised, NEW s \in Seqs, SegmentRemoved(s)
      PROVE  promised'[d] \subseteq Replay(d)'
  <2>1. promised[dir] = {}
    BY <1>5 DEF SegmentRemoved, SegmentInv, RemovesForgotten
  <2>2. d # dir => Replay(d)' = Replay(d)
    BY <1>5, ReplayRemoved
  <2> QED
    BY <1>1, <1>5, <2>1, <2>2
<1> QED
  BY <1>2, <1>3, <1>4, <1>5, StepsOfSegments

\* A chosen name stays free until the append that chose it has used it.
LEMMA NameIsFreeNext ==
  ASSUME NamesFit, TypeInv, SegmentInv, [Next]_vars
  PROVE  NameIsFree' /\ RemovesForgotten'
<1> USE DEF SegmentInv, NameIsFree, RemovesForgotten
<1>1. CASE ChooseSeq
  <2>1. dir \in Dirs /\ seq' \in Seqs /\ segs' = segs /\ dir' = dir /\ pc' = "create"
    BY <1>1 DEF ChooseSeq, TypeInv, TypeOK, NextSeqBounded
  <2>2. seq' \notin Segments(dir)
    BY <1>1, <2>1, NextSeqIsFree DEF ChooseSeq
  <2> QED
    BY <2>1, <2>2 DEF Segments
<1>2. CASE CreateTmp
  BY <1>2 DEF CreateTmp
<1>3. ASSUME NEW id \in Records, WriteRecord(id)
      PROVE  NameIsFree' /\ RemovesForgotten'
  BY <1>3 DEF WriteRecord
<1>4. ASSUME NEW d \in Dirs, RemoveAll(d)
      PROVE  NameIsFree' /\ RemovesForgotten'
  BY <1>4 DEF RemoveAll, TypeInv, TypeOK
<1>5. ASSUME NEW d \in Dirs, NEW s \in Seqs,
             RemoveSegment(s) \/ RemoveTmp(s) \/ MmctlRemovesTmp(d, s)
      PROVE  NameIsFree' /\ RemovesForgotten'
  BY <1>5 DEF RemoveSegment, RemoveTmp, MmctlRemovesTmp
<1>6. CASE Rename \/ RenameFindsNothing \/ AppendFails \/ RemoveAllDone \/ RemoveAllFails
           \/ Crash \/ Open \/ \E d \in Dirs, S \in SUBSET Records : AppendIndexSegment(d, S)
  <2>1. pc' \notin {"create", "write", "remove"}
    BY <1>6 DEF Rename, RenameFindsNothing, AppendFails, Return, RemoveAllDone,
                RemoveAllFails, Crash, Open, AppendIndexSegment
  <2> QED
    BY <2>1
<1>7. CASE UNCHANGED vars
  BY <1>7 DEF vars
<1> QED
  BY <1>1, <1>2, <1>3, <1>4, <1>5, <1>6, <1>7, IndexDBAssumption DEF Next

\* Both invariants hold of empty directories.
LEMMA SegmentInit == Init => TypeInv /\ SegmentInv
BY TypeInit DEF Init, SegmentInv, NameIsFree, RemovesForgotten, Recoverable

\* Both invariants hold while the names fit.
LEMMA SegmentInvariant ==
  ASSUME NamesFit
  PROVE  Spec => [](TypeInv /\ SegmentInv)
<1>1. TypeInv /\ SegmentInv /\ [Next]_vars => (TypeInv /\ SegmentInv)'
  BY TypeNext, RecoverableNext, NameIsFreeNext DEF SegmentInv
<1> QED
  BY <1>1, SegmentInit, PTL DEF Spec

\* appendIndexSegment is atomic and durable: whatever failed, crashed or was
\* removed by mmctl, loadRegistry and loadInverted find every record of every
\* append that returned nil, except those of a dropped day.
THEOREM RecoverableHolds ==
  ASSUME NamesFit
  PROVE  Spec => []Recoverable
BY SegmentInvariant, PTL DEF SegmentInv

\* A segment never changes: it is there with the records it was renamed into
\* place with, or it has been removed.
THEOREM SegmentsImmutableHolds ==
  ASSUME NamesFit
  PROVE  Spec => SegmentsImmutable
<1> DEFINE Kept ==
      \A d \in Dirs : \A s \in Segments(d) : segs'[d][s] \in {segs[d][s], NoFile}
<1>1. TypeInv /\ SegmentInv /\ [Next]_vars => [Kept]_vars
  <2> SUFFICES ASSUME TypeInv, SegmentInv, [Next]_vars,
                      NEW d \in Dirs, NEW s \in Segments(d)
               PROVE  segs'[d][s] \in {segs[d][s], NoFile}
    OBVIOUS
  <2>1. s \in Seqs /\ segs[d][s] # NoFile
    BY DEF Segments
  <2>2. CASE SegmentAdded
    BY <2>1, <2>2 DEF SegmentAdded, TypeInv, TypeOK, Files
  <2>3. ASSUME NEW t \in Seqs, SegmentRemoved(t)
        PROVE  segs'[d][s] \in {segs[d][s], NoFile}
    BY <2>1, <2>3 DEF SegmentRemoved, TypeInv, TypeOK, Files
  <2> QED
    BY <2>2, <2>3, StepsOfSegments
<1> HIDE DEF Kept
<1> QED
  BY <1>1, SegmentInvariant, PTL DEF Spec, SegmentsImmutable, Kept

-----------------------------------------------------------------------------
(* The directories implement RecordStore.                                   *)

\* What the steps do to the batch of an append and to the segments: nothing,
\* a batch is handed over, it becomes a segment, it is given up, or a segment
\* of a day goes.
LEMMA StepsOfBatches ==
  ASSUME TypeInv, TypeInv', SegmentInv, [Next]_vars
  PROVE  \/ UNCHANGED <<segs, Batch>>
         \/ /\ ~Appending /\ Appending' /\ UNCHANGED segs
         \/ /\ Appending /\ ~Appending' /\ (UNCHANGED segs \/ SegmentAdded)
         \/ /\ ~Appending /\ ~Appending' /\ \E s \in Seqs : SegmentRemoved(s)
<1> USE DEF Appending
<1>1. ASSUME NEW d \in Dirs, NEW S \in SUBSET Records, AppendIndexSegment(d, S)
      PROVE  ~Appending /\ Appending' /\ UNCHANGED segs
  BY <1>1 DEF AppendIndexSegment
<1>2. CASE ChooseSeq \/ CreateTmp \/ \E id \in Records : WriteRecord(id)
  BY <1>2 DEF ChooseSeq, CreateTmp, WriteRecord, Batch
<1>3. CASE Rename
  <2>1. tmps[dir][seq] = entries
    BY <1>3 DEF Rename, TypeInv, TypeOK
  <2>2. SegmentAdded
    BY <1>3, <2>1 DEF Rename, SegmentAdded, SegmentInv, NameIsFree
  <2> QED
    BY <1>3, <2>2 DEF Rename, Return
<1>4. CASE RenameFindsNothing \/ AppendFails
  BY <1>4 DEF RenameFindsNothing, AppendFails, Return
<1>5. ASSUME NEW s \in Seqs, RemoveSegment(s)
      PROVE  ~Appending /\ ~Appending' /\ SegmentRemoved(s)
  BY <1>5 DEF RemoveSegment, SegmentRemoved, SegmentInv, RemovesForgotten
<1>6. CASE Crash
  BY <1>6 DEF Crash, Batch, TypeInv, AppendHasBatch
<1>7. CASE \/ \E d \in Dirs : RemoveAll(d)
           \/ \E s \in Seqs : RemoveTmp(s)
           \/ \E d \in Dirs, s \in Seqs : MmctlRemovesTmp(d, s)
           \/ RemoveAllDone \/ RemoveAllFails \/ Open
  BY <1>7 DEF RemoveAll, RemoveTmp, MmctlRemovesTmp, RemoveAllDone, RemoveAllFails, Open, Batch
<1>8. CASE UNCHANGED vars
  BY <1>8 DEF vars, Batch
<1> QED
  BY <1>1, <1>2, <1>3, <1>4, <1>5, <1>6, <1>7, <1>8 DEF Next

\* A step of the files is a step of the store, or changes no record and no
\* batch.
LEMMA StoreStep ==
  ASSUME TypeInv, TypeInv', SegmentInv, [Next]_vars
  PROVE  [Abstract!Next]_<<[d \in Dirs |-> Replay(d)], Batch>>
<1> DEFINE recorded == [d \in Dirs |-> Replay(d)]
<1>1. dir \in Dirs /\ entries \in SUBSET Records /\ dir' \in Dirs /\ entries' \in SUBSET Records
  BY DEF TypeInv, TypeOK
<1>2. \A d \in Dirs : Replay(d) \subseteq Records
  BY DEF TypeInv, TypeOK, Files, Replay, Segments
<1>3. recorded' = [d \in Dirs |-> Replay(d)']
  OBVIOUS
<1>4. UNCHANGED segs => recorded' = recorded
  BY <1>3, ReplaySame
<1>5. /\ Appending => Batch = [into |-> dir, records |-> entries] /\ entries # {}
      /\ ~Appending => Batch = Abstract!NoBatch
  BY DEF Batch, TypeInv, AppendHasBatch, Abstract!NoBatch
<1>6. /\ Appending' => Batch' = [into |-> dir', records |-> entries'] /\ entries' # {}
      /\ ~Appending' => Batch' = Abstract!NoBatch
  BY DEF Batch, TypeInv, AppendHasBatch, Abstract!NoBatch
<1>7. Appending => Batch # Abstract!NoBatch
  BY <1>5 DEF Abstract!NoBatch
<1> HIDE DEF recorded
<1>8. CASE UNCHANGED <<segs, Batch>>
  BY <1>4, <1>8 DEF recorded
<1>9. CASE ~Appending /\ Appending' /\ UNCHANGED segs
  <2>1. Abstract!Begin(dir', entries')
    BY <1>4, <1>5, <1>6, <1>9 DEF Abstract!Begin, recorded
  <2> QED
    BY <1>1, <2>1 DEF Abstract!Next
<1>10. CASE Appending /\ ~Appending' /\ UNCHANGED segs
  <2>1. Abstract!Abort
    BY <1>4, <1>6, <1>7, <1>10 DEF Abstract!Abort, recorded
  <2> QED
    BY <2>1 DEF Abstract!Next
<1>11. CASE Appending /\ ~Appending' /\ SegmentAdded
  <2>1. \A d \in Dirs : Replay(d)' = IF d = dir THEN Replay(d) \cup entries ELSE Replay(d)
    BY <1>11, ReplayAdded
  <2>2. recorded' = [recorded EXCEPT ![dir] = @ \cup entries]
    BY <1>1, <1>3, <2>1 DEF recorded
  <2>3. Batch.into = dir /\ Batch.records = entries
    BY <1>5, <1>11
  <2>4. recorded' = [recorded EXCEPT ![Batch.into] = @ \cup Batch.records]
    BY <2>2, <2>3
  <2>5. Abstract!Commit
    BY <1>6, <1>7, <1>11, <2>4 DEF Abstract!Commit, recorded
  <2> QED
    BY <2>5 DEF Abstract!Next
<1>12. ASSUME ~Appending, ~Appending', NEW s \in Seqs, SegmentRemoved(s)
       PROVE  Abstract!Next
  <2>1. \A d \in Dirs : Replay(d)' \subseteq Replay(d) /\ (d # dir => Replay(d)' = Replay(d))
    BY <1>12, ReplayRemoved
  <2> DEFINE S == recorded[dir] \ recorded'[dir]
  <2>2. S \in SUBSET Records
    BY <1>1, <1>2 DEF recorded
  <2>3. recorded' = [recorded EXCEPT ![dir] = @ \ S]
    BY <1>1, <1>3, <2>1 DEF recorded
  <2> HIDE DEF S
  <2>4. dir # Forward
    BY <1>12 DEF SegmentRemoved
  <2>5. Abstract!Drop(dir, S)
    BY <1>5, <1>6, <1>12, <2>3, <2>4 DEF Abstract!Drop, recorded
  <2> QED
    BY <1>1, <2>2, <2>5 DEF Abstract!Next
<1> QED
  BY <1>8, <1>9, <1>10, <1>11, <1>12, StepsOfBatches

\* The directories keep the promise of RecordStore to the registry: what a
\* replay finds of the batch that a flush appends is all of it or nothing,
\* nothing leaves the forward index, and only retention takes records from a
\* day's index.
THEOREM RefinesRecordStoreHolds ==
  ASSUME NamesFit
  PROVE  Spec => RefinesRecordStore
<1>1. Init => Abstract!Init
  <2> SUFFICES ASSUME Init PROVE Abstract!Init
    OBVIOUS
  <2>1. \A d \in Dirs : Segments(d) = {}
    BY DEF Init, Segments, NoFiles
  <2>2. \A d \in Dirs : Replay(d) = {}
    BY <2>1 DEF Replay
  <2>3. Batch = Abstract!NoBatch
    BY DEF Init, Batch, Appending, Abstract!NoBatch
  <2> QED
    BY <2>2, <2>3 DEF Abstract!Init
<1>2. TypeInv /\ TypeInv' /\ SegmentInv /\ [Next]_vars
        => [Abstract!Next]_<<[d \in Dirs |-> Replay(d)], Batch>>
  BY StoreStep
<1> QED
  BY <1>1, <1>2, SegmentInvariant, PTL DEF Spec, RefinesRecordStore, Abstract!Spec
====
