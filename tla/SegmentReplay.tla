--------------------------- MODULE SegmentReplay ---------------------------
(***************************************************************************)
(* A registry segment is written, may lose its tail, and is replayed.      *)
(***************************************************************************)
EXTENDS RoundTrip, SegmentFile

CONSTANT Segments   \* functions from SeriesIDs to labels, in bytes

Bytes == Seq(0..255)

\* SeriesIDs and lengths are uint64.
ASSUME SegmentsAssumption ==
  /\ Magic \in Bytes
  /\ \A entries \in Segments :
       /\ DOMAIN entries \subseteq 0..(Modulus - 1)
       /\ \A id \in DOMAIN entries :
            /\ entries[id] \in Seq([name : Bytes, value : Bytes])
            /\ Len(entries[id]) < Modulus
            /\ \A i \in DOMAIN entries[id] : /\ Len(entries[id][i].name) < Modulus
                                            /\ Len(entries[id][i].value) < Modulus

SegmentInputs == [kind : {"segment"}, data : Segments]

WriteSegment == Writes("segment", EncodeSegment(input.data))
TearSegment == Tears("segment")
ReadSegment == Reads("segment", ReadIndexSegment(file))

SegmentNext == WriteSegment \/ TearSegment \/ ReadSegment

SegmentSpec == Begins(SegmentInputs) /\ [][SegmentNext]_vars

-----------------------------------------------------------------------------

\* A segment replays as exactly the records that are on disk from end to end,
\* with their IDs and labels in the order of the IDs; a record that was cut
\* gives nothing, and a cut magic is an error (readIndexSegment's torn tail).
SegmentReplaysWholeRecords ==
  Finished("segment") =>
    LET entries == input.data
        ids == SortedIDs(entries)
        upTo(k) == Magic \o FlattenSeq(SubSeq(PutRecords(entries), 1, k))
        whole == Max({k \in 0..Len(ids) : Len(upTo(k)) <= Len(file)})
    IN  IF Len(file) < Len(Magic) THEN output.err # "nil"
        ELSE /\ output.err = "nil"
             /\ output.v = [i \in 1..whole |-> [id |-> ids[i], labels |-> entries[ids[i]]]]
====
