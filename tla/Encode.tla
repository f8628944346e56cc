------------------------------- MODULE Encode -------------------------------
(***************************************************************************)
(* The block encodings: delta-of-delta varints for timestamps, the Gorilla *)
(* XOR bit stream for values.  The window fields have LeadBits and SigBits *)
(* bits (the code: 5 and 6 for words of 64 bits), so that a word's whole   *)
(* length does not fit the second and long runs of leading zeros do not    *)
(* fit the first.  Values are their bit patterns (math.Float64bits).       *)
(***************************************************************************)
EXTENDS ByteReader

CONSTANTS LeadBits, SigBits

ASSUME WindowAssumption ==
  LeadBits \in 1..WordBits /\ SigBits \in 1..WordBits /\ 2^SigBits = WordBits /\ 2^LeadBits < WordBits

\* The head of both kinds of block: the count and, unless it is 0, the first word.
PutHead(column) ==
  PutUvarint(Len(column)) \o (IF column = <<>> THEN <<>> ELSE PutWord(Unsigned(column[1])))

GetHead(b) ==
  Then(GetUvarint(b), LAMBDA r :
    IF r.v = 0 THEN Read([count |-> 0], r.rest)
    ELSE IF Len(r.rest) < WordBytes THEN Fail("eof")
    ELSE Read([count |-> r.v, first |-> GetWord(SubSeq(r.rest, 1, WordBytes))],
              SubSeq(r.rest, WordBytes + 1, Len(r.rest))))

-----------------------------------------------------------------------------
(* Timestamps.                                                              *)

\* Of each timestamp the difference of its delta from the delta before, the
\* first being from 0.
PutDeltas(ts) ==
  LET delta(i) == IF i = 1 THEN 0 ELSE Wrap(ts[i] - ts[i - 1])
  IN  [i \in 1..(Len(ts) - 1) |-> PutVarint(Wrap(delta(i + 1) - delta(i)))]

EncodeTimestamps(ts) == PutHead(ts) \o FlattenSeq(PutDeltas(ts))

\* One more timestamp, after what r has read.
NextTimestamp(r) ==
  Then(GetVarint(r.rest), LAMBDA dod :
    LET delta == Wrap(r.v.delta + dod.v)
    IN  Read([column |-> Append(r.v.column, Wrap(Last(r.v.column) + delta)), delta |-> delta],
             dod.rest))

\* n more timestamps after t.
GetDeltas(b, t, n) ==
  LET read[i \in 0..n] == IF i = 0 THEN Read([column |-> <<t>>, delta |-> 0], b)
                          ELSE Then(read[i - 1], NextTimestamp)
  IN  read[n]

DecodeTimestamps(b) ==
  Then(GetHead(b), LAMBDA h :
    IF h.v.count = 0 THEN Read(<<>>, h.rest)
    ELSE Then(GetDeltas(h.rest, Signed(h.v.first), h.v.count - 1), LAMBDA r :
           Read(r.v.column, r.rest)))

-----------------------------------------------------------------------------
(* Bits, the most significant first.                                        *)

Bits(u, n) == [i \in 1..n |-> (u \div 2^(n - i)) % 2]

\* bitWriter: eight bits per byte, the last byte filled with zeros.
BitsToBytes(bits) ==
  LET bit(i) == IF i <= Len(bits) THEN bits[i] ELSE 0
  IN  [j \in 1..((Len(bits) + 7) \div 8) |-> Number([k \in 1..8 |-> bit(8 * (j - 1) + k)], 2)]

\* bitReader.readBit, of every position.
BytesToBits(b) == [i \in 1..(8 * Len(b)) |-> Bits(b[((i - 1) \div 8) + 1], 8)[((i - 1) % 8) + 1]]

\* bitReader.readBits at the head of a stream, as the bits themselves.
ReadBits(s, n) ==
  IF Len(s) < n THEN Fail("eof") ELSE Read(SubSeq(s, 1, n), SubSeq(s, n + 1, Len(s)))

Xor(a, b) == [i \in 1..WordBits |-> (a[i] + b[i]) % 2]

Ones(x) == {i \in 1..WordBits : x[i] = 1}
LeadingZeros(x) == Min(Ones(x)) - 1
TrailingZeros(x) == WordBits - Max(Ones(x))

-----------------------------------------------------------------------------
(* Values.  A window is the number of zeros on either side of the bits that *)
(* are written; 0 leading zeros also stands for "no window yet".            *)

NoWindow == [lz |-> 0, tz |-> 0]
MaxLead == 2^LeadBits - 1
Window(x) == [lz |-> Min({LeadingZeros(x), MaxLead}), tz |-> TrailingZeros(x)]
SigLen(w) == WordBits - w.lz - w.tz

\* Seeded bug: only the leading zeros are compared.
FitsLeadOnly(w, new) == w.lz # 0 /\ new.lz >= w.lz

\* Does a XOR with this window fit the one before it?
Fits(w, new) == w.lz # 0 /\ new.lz >= w.lz /\ new.tz >= w.tz

\* The window after the XOR x.
NextWindow(w, x) == IF Ones(x) = {} \/ Fits(w, Window(x)) THEN w ELSE Window(x)

\* The bits of x within a window: xor >> tz.
Significant(x, w) == SubSeq(x, w.lz + 1, WordBits - w.tz)

\* What is written for the window of the XOR x when w is the one before it, and
\* for x as a whole.
PutWindow(w, x) ==
  LET new == Window(x)
  IN  IF Fits(w, new) THEN <<0>>
      ELSE <<1>> \o (Bits(new.lz, LeadBits) \o Bits(SigLen(new) % WordBits, SigBits))

PutXor(w, x) ==
  IF Ones(x) = {} THEN <<0>>
  ELSE <<1>> \o (PutWindow(w, x) \o Significant(x, NextWindow(w, x)))

\* The XORs of a column, each with the value before it.
PutXors(vs) ==
  LET xor(i) == Xor(Bits(vs[i - 1], WordBits), Bits(vs[i], WordBits))
      window[i \in 1..Len(vs)] == IF i = 1 THEN NoWindow ELSE NextWindow(window[i - 1], xor(i))
  IN  [i \in 1..(Len(vs) - 1) |-> PutXor(window[i], xor(i + 1))]

EncodeValues(vs) == PutHead(vs) \o BitsToBytes(FlattenSeq(PutXors(vs)))

\* The window of a XOR: the one before after a bit 0, a new one after a bit 1.
ReadWindow(s, w) ==
  Then(ReadBits(s, 1), LAMBDA new :
    IF new.v = <<0>> THEN Read(w, new.rest)
    ELSE Then(ReadBits(new.rest, LeadBits), LAMBDA lead :
           Then(ReadBits(lead.rest, SigBits), LAMBDA sig :
             LET lz == Number(lead.v, 2)
                 len == Number(sig.v, 2)
             IN  Read([lz |-> lz, tz |-> WordBits - lz - (IF len = 0 THEN WordBits ELSE len)],
                      sig.rest))))

\* The XOR with these bits within a window: sig << tz.
Widened(sig, w) ==
  [i \in 1..WordBits |-> IF w.lz < i /\ i <= WordBits - w.tz THEN sig[i - w.lz] ELSE 0]

\* One more value, after what r has read.
NextValue(r) ==
  LET prev == Last(r.v.column)
  IN  Then(ReadBits(r.rest, 1), LAMBDA changed :
        IF changed.v = <<0>>
        THEN Read([column |-> Append(r.v.column, prev), window |-> r.v.window], changed.rest)
        ELSE Then(ReadWindow(changed.rest, r.v.window), LAMBDA w :
               Then(ReadBits(w.rest, SigLen(w.v)), LAMBDA sig :
                 LET next == Number(Xor(Bits(prev, WordBits), Widened(sig.v, w.v)), 2)
                 IN  Read([column |-> Append(r.v.column, next), window |-> w.v], sig.rest))))

\* n more values after v.
GetXors(s, v, n) ==
  LET read[i \in 0..n] == IF i = 0 THEN Read([column |-> <<v>>, window |-> NoWindow], s)
                          ELSE Then(read[i - 1], NextValue)
  IN  read[n]

DecodeValues(b) ==
  Then(GetHead(b), LAMBDA h :
    IF h.v.count = 0 THEN Read(<<>>, h.rest)
    ELSE Then(GetXors(BytesToBits(h.rest), h.v.first, h.v.count - 1), LAMBDA r :
           Read(r.v.column, <<>>)))
====
