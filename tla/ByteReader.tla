----------------------------- MODULE ByteReader -----------------------------
(***************************************************************************)
(* Words as bytes and varints: encoding/binary as the code uses it, and    *)
(* the cursor that segment files and blocks are read with.  A varint       *)
(* carries 7 bits per byte, and its longest form has one bit in the last   *)
(* byte, as 64 = 9 * 7 + 1.                                                *)
(***************************************************************************)
EXTENDS Words

\* The number with these digits, the most significant first.
Number(digits, base) ==
  LET value[i \in 0..Len(digits)] == IF i = 0 THEN 0 ELSE base * value[i - 1] + digits[i]
  IN  value[Len(digits)]

\* A word as bytes, least significant first, and back.
WordBytes == WordBits \div 8
PutWord(u) == [i \in 1..WordBytes |-> (u \div 2^(8 * (i - 1))) % 256]
GetWord(b) == Number(Reverse(b), 256)

MaxVarintLen == WordBits \div 7 + 1

\* What 128^k is, which the provers do not know, as far as varints need it.
ASSUME VarintAssumption ==
  /\ 128^0 = 1 /\ \A k \in 0..MaxVarintLen : 128^k \in Nat /\ 128^(k + 1) = 128 * 128^k
  /\ Modulus = 2 * 128^(MaxVarintLen - 1)

\* Groups of 7 bits, the least significant first; all but the last are marked.
UvarintLen(u) == Max({1} \cup {k \in 1..MaxVarintLen : u >= 128^(k - 1)})
PutUvarint(u) ==
  LET n == UvarintLen(u)
  IN  [i \in 1..n |-> (IF i < n THEN 128 ELSE 0) + ((u \div 128^(i - 1)) % 128)]

\* Zigzag: the sign goes into the lowest bit.
PutVarint(x) == PutUvarint(IF x >= 0 THEN 2 * x ELSE -2 * x - 1)

-----------------------------------------------------------------------------
(* Reading: a result is a value with the bytes that follow it, or an error. *)

Read(v, rest) == [err |-> "nil", v |-> v, rest |-> rest]
Fail(e) == [err |-> e, v |-> 0, rest |-> <<>>]

\* What F reads after r, unless r has failed.
Then(r, F(_)) == IF r.err = "nil" THEN F(r) ELSE r

\* byteReader.uvarint.
GetUvarint(b) ==
  LET ends == {i \in DOMAIN b : b[i] < 128}
      n == Min(ends)
      value[i \in 0..n] == IF i = 0 THEN 0 ELSE value[i - 1] + (b[i] % 128) * 128^(i - 1)
  IN  IF ends = {} THEN Fail(IF Len(b) > MaxVarintLen THEN "overflow" ELSE "eof")
      ELSE IF n > MaxVarintLen \/ (n = MaxVarintLen /\ b[n] > 1) THEN Fail("overflow")
      ELSE Read(value[n], SubSeq(b, n + 1, Len(b)))

\* byteReader.varint.
GetVarint(b) ==
  Then(GetUvarint(b), LAMBDA r :
    Read(IF r.v % 2 = 0 THEN r.v \div 2 ELSE -((r.v + 1) \div 2), r.rest))

\* byteReader.str.
GetString(b) ==
  Then(GetUvarint(b), LAMBDA r :
    IF Len(r.rest) < r.v THEN Fail("eof")
    ELSE Read(SubSeq(r.rest, 1, r.v), SubSeq(r.rest, r.v + 1, Len(r.rest))))
====
