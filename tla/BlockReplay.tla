---------------------------- MODULE BlockReplay ----------------------------
(***************************************************************************)
(* A block of timestamps or values is written, may lose its tail, and is   *)
(* read.                                                                   *)
(***************************************************************************)
EXTENDS RoundTrip, Encode

CONSTANTS TimestampSeqs, ValueSeqs   \* the columns of one series

\* Timestamps are int64, bit patterns and counts uint64.
ASSUME BlocksAssumption ==
  /\ \A ts \in TimestampSeqs : ts \in Seq(SignedWords) /\ Len(ts) < Modulus
  /\ \A vs \in ValueSeqs : vs \in Seq(0..(Modulus - 1)) /\ Len(vs) < Modulus

BlockInputs == [kind : {"timestamps"}, data : TimestampSeqs] \cup [kind : {"values"}, data : ValueSeqs]

WriteTimestamps == Writes("timestamps", EncodeTimestamps(input.data))
ReadTimestamps == Reads("timestamps", DecodeTimestamps(file))

WriteValues == Writes("values", EncodeValues(input.data))
ReadValues == Reads("values", DecodeValues(file))

TearBlock == \E kind \in {"timestamps", "values"} : Tears(kind)

BlockNext == WriteTimestamps \/ ReadTimestamps \/ WriteValues \/ ReadValues \/ TearBlock

BlockSpec == Begins(BlockInputs) /\ [][BlockNext]_vars

-----------------------------------------------------------------------------

\* A block reads back as the column it was made of: all wrapped differences of
\* timestamps, all windows of values (encodeTimestamps/decodeTimestamps,
\* encodeValues/decodeValues).  One that lost its tail is an error, never a
\* shorter or another column.
BlocksReadExactly ==
  \A kind \in {"timestamps", "values"} :
    Finished(kind) =>
      IF torn THEN output.err # "nil" ELSE output.err = "nil" /\ output.v = input.data
====
