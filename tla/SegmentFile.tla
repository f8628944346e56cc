---------------------------- MODULE SegmentFile ----------------------------
(***************************************************************************)
(* The bytes of a registry segment: a magic number, then one record per    *)
(* series in the order of the IDs.  Names and values are byte sequences.   *)
(***************************************************************************)
EXTENDS ByteReader

CONSTANT Magic   \* "MMIDX001", as bytes

PutString(s) == PutUvarint(Len(s)) \o s

PutLabels(labels) ==
  PutUvarint(Len(labels))
    \o FlattenSeq([i \in DOMAIN labels |-> PutString(labels[i].name) \o PutString(labels[i].value)])

\* The IDs of entries, in ascending order.
SortedIDs(entries) ==
  CHOOSE ids \in [1..Cardinality(DOMAIN entries) -> DOMAIN entries] :
    \A i, j \in DOMAIN ids : i < j => ids[i] < ids[j]

\* The loop of appendIndexSegment: each ID as the distance from the one before.
PutRecords(entries) ==
  LET ids == SortedIDs(entries)
      delta(i) == IF i = 1 THEN ids[1] ELSE ids[i] - ids[i - 1]
  IN  [i \in DOMAIN ids |-> PutUvarint(delta(i)) \o PutLabels(entries[ids[i]])]

\* appendIndexSegment.
EncodeSegment(entries) == Magic \o FlattenSeq(PutRecords(entries))

-----------------------------------------------------------------------------

\* One more label, after what r has read.
GetLabel(r) ==
  Then(GetString(r.rest), LAMBDA name :
    Then(GetString(name.rest), LAMBDA value :
      Read(Append(r.v, [name |-> name.v, value |-> value.v]), value.rest)))

GetLabels(b, n) ==
  LET read[i \in 0..n] == IF i = 0 THEN Read(<<>>, b) ELSE Then(read[i - 1], GetLabel)
  IN  read[n]

\* readIndexRecord.
GetRecord(b, prev) ==
  Then(GetUvarint(b), LAMBDA delta :
    Then(GetUvarint(delta.rest), LAMBDA n :
      Then(GetLabels(n.rest, n.v), LAMBDA labels :
        Read([id |-> Unsigned(prev + delta.v), labels |-> labels.v], labels.rest))))

\* The ID that the next distance is from.
PrevID(records) == IF records = <<>> THEN 0 ELSE Last(records).id

\* Seeded bug: a torn record is handed over without its labels.
NextTornRecord(r) ==
  LET prev == PrevID(r.v)
      record == GetRecord(r.rest, prev)
      delta == GetUvarint(r.rest)
  IN  IF r.rest = <<>> THEN r
      ELSE IF record.err = "nil" THEN Read(Append(r.v, record.v), record.rest)
      ELSE IF delta.err # "nil" THEN Read(r.v, <<>>)
      ELSE Read(Append(r.v, [id |-> prev + delta.v, labels |-> <<>>]), <<>>)

\* One more record, after what r has read, if there is one: a torn tail ends the
\* replay, any other error fails it.
NextRecord(r) ==
  LET record == GetRecord(r.rest, PrevID(r.v))
  IN  IF r.rest = <<>> THEN r
      ELSE IF record.err = "eof" THEN Read(r.v, <<>>)
      ELSE Then(record, LAMBDA t : Read(Append(r.v, t.v), t.rest))

\* The records of b, of which each has a byte at least.
Replay(b) ==
  LET read[i \in 0..Len(b)] == IF i = 0 THEN Read(<<>>, b) ELSE Then(read[i - 1], NextRecord)
  IN  read[Len(b)]

\* readIndexSegment.
ReadIndexSegment(b) ==
  IF IsPrefix(Magic, b) THEN Replay(SubSeq(b, Len(Magic) + 1, Len(b)))
  ELSE Fail("bad magic")
====
