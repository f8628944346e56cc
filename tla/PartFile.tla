------------------------------ MODULE PartFile ------------------------------
(***************************************************************************)
(* The files of a part: two shared bin files, the index of the series'     *)
(* blocks in them, and the meta data that queries prune by.  The samples   *)
(* to write are a function from SeriesIDs to sequences of [t, v].  The     *)
(* files are written under a name that no reader looks at (module          *)
(* Partition), so they appear here all at once.                            *)
(***************************************************************************)
EXTENDS Encode, TLC

Timestamps(samples) == [i \in DOMAIN samples |-> samples[i].t]
Values(samples) == [i \in DOMAIN samples |-> samples[i].v]

\* sort.Slice by timestamp; which of two equal ones comes first is open.
ByTime(samples) == SortSeq(samples, LAMBDA a, b : a.t < b.t)

\* A series' blocks are byte ranges of the two files ...
AddGorilla(p, id, samples) ==
  LET tsBlock == EncodeTimestamps(Timestamps(samples))
      valBlock == EncodeValues(Values(samples))
      entry == [count |-> Len(samples), tsOffset |-> Len(p.ts), tsLength |-> Len(tsBlock),
                valOffset |-> Len(p.vals), valLength |-> Len(valBlock)]
  IN  [p EXCEPT !.ts = @ \o tsBlock, !.vals = @ \o valBlock, !.index = (id :> entry) @@ @]

\* ... or, in a raw part, cells of one word, addressed by one offset in samples.
AddRaw(p, id, samples) ==
  LET cells(words) == FlattenSeq([i \in DOMAIN words |-> PutWord(Unsigned(words[i]))])
      entry == [count |-> Len(samples), offset |-> Len(p.ts) \div WordBytes]
  IN  [p EXCEPT !.ts = @ \o cells(Timestamps(samples)), !.vals = @ \o cells(Values(samples)),
                !.index = (id :> entry) @@ @]

\* Seeded bug: the time range is that of the last series.
TimeRangeOfLast(data) ==
  LET ts == ToSet(Timestamps(data[Max(DOMAIN data)]))
  IN  [minTime |-> Min(ts), maxTime |-> Max(ts)]

TimeRange(data) ==
  LET ts == UNION {ToSet(Timestamps(data[id])) : id \in DOMAIN data}
  IN  [minTime |-> Min(ts), maxTime |-> Max(ts)]

\* writePartEncoded, series by series in the order of their IDs.
WritePart(data, encoding) ==
  LET AddSeries(p, id) == IF encoding = "gorilla" THEN AddGorilla(p, id, ByTime(data[id]))
                          ELSE AddRaw(p, id, ByTime(data[id]))
      empty == [ts |-> <<>>, vals |-> <<>>, index |-> <<>>,
                range |-> TimeRange(data), encoding |-> encoding]
  IN  FoldLeft(AddSeries, empty, SetToSortSeq(DOMAIN data, <))

-----------------------------------------------------------------------------
(* Reading.                                                                 *)

\* File.ReadAt of n bytes: a short file is an error.
ReadAt(file, offset, n) ==
  IF offset + n > Len(file) THEN Fail("eof") ELSE Read(SubSeq(file, offset + 1, offset + n), <<>>)

\* The samples of two columns.
Samples(ts, vs) == [i \in DOMAIN ts |-> [t |-> ts[i], v |-> vs[i]]]

\* The cells of a raw column.
Cells(buf, n) == [i \in 1..n |-> GetWord(SubSeq(buf, (i - 1) * WordBytes + 1, i * WordBytes))]

ReadGorillaBlock(p, e) ==
  Then(ReadAt(p.ts, e.tsOffset, e.tsLength), LAMBDA tsBuf :
    Then(ReadAt(p.vals, e.valOffset, e.valLength), LAMBDA valBuf :
      Then(DecodeTimestamps(tsBuf.v), LAMBDA ts :
        Then(DecodeValues(valBuf.v), LAMBDA vs :
          IF Len(ts.v) # e.count \/ Len(vs.v) # e.count THEN Fail("wrong count")
          ELSE Read(Samples(ts.v, vs.v), <<>>)))))

ReadRawBlock(p, e) ==
  Then(ReadAt(p.ts, e.offset * WordBytes, e.count * WordBytes), LAMBDA tsBuf :
    Then(ReadAt(p.vals, e.offset * WordBytes, e.count * WordBytes), LAMBDA valBuf :
      LET words == Cells(tsBuf.v, e.count)
      IN  Read(Samples([i \in DOMAIN words |-> Signed(words[i])], Cells(valBuf.v, e.count)), <<>>)))

\* readSeriesBlock: the samples of one series, or an error.
ReadSeriesBlock(p, e) ==
  IF p.encoding = "gorilla" THEN ReadGorillaBlock(p, e) ELSE ReadRawBlock(p, e)

\* The blocks of these series: one that cannot be read fails the whole read.
ReadBlocks(p, ids) ==
  LET blocks == [id \in ids |-> ReadSeriesBlock(p, p.index[id])]
  IN  IF \E id \in ids : blocks[id].err # "nil" THEN Fail("cannot decode")
      ELSE Read([id \in ids |-> blocks[id].v], <<>>)

NoSamples == [id \in {} |-> <<>>]

\* readPart: the samples of the wanted series in [start, end].
ReadPart(p, want, start, end) ==
  LET inRange(s) == start <= s.t /\ s.t <= end
  IN  IF p.range.maxTime < start \/ p.range.minTime > end THEN Read(NoSamples, <<>>)
      ELSE Then(ReadBlocks(p, DOMAIN p.index \cap want), LAMBDA r :
             LET kept == [id \in DOMAIN r.v |-> SelectSeq(r.v[id], inRange)]
             IN  Read([id \in {i \in DOMAIN kept : kept[i] # <<>>} |-> kept[id]], <<>>))

\* readPartAll.
ReadPartAll(p) == ReadBlocks(p, DOMAIN p.index)

\* Seeded bug: a series of both parts keeps the samples of the second.
MergePartsLastWins(p, q) ==
  Then(ReadPartAll(p), LAMBDA a :
    Then(ReadPartAll(q), LAMBDA b : Read(WritePart(b.v @@ a.v, "gorilla"), <<>>)))

\* mergeParts: the samples of each series, one part after the other.
MergeParts(p, q) ==
  LET of(f, id) == IF id \in DOMAIN f THEN f[id] ELSE <<>>
  IN  Then(ReadPartAll(p), LAMBDA a :
        Then(ReadPartAll(q), LAMBDA b :
          Read(WritePart([id \in DOMAIN a.v \cup DOMAIN b.v |-> of(a.v, id) \o of(b.v, id)],
                         "gorilla"), <<>>)))
====
