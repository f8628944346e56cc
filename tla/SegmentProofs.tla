--------------------------- MODULE SegmentProofs ---------------------------
(***************************************************************************)
(* Segments, for every width of words, magic and set of records: a file    *)
(* that lost its tail replays as its whole records.  Each reader has two   *)
(* lemmas: after all bytes of its writer it returns what was written and   *)
(* leaves the rest, and after a part of them it fails with "eof".          *)
(***************************************************************************)
EXTENDS SegmentReplay, LookupProofs

Byte == 0..255

\* p is what is left of s when a tail is lost, or nothing is.
Starts(p, s) == Len(p) <= Len(s) /\ \A i \in 1..Len(p) : p[i] = s[i]

\* A cut is in the first part, or after it.
LEMMA CutOfConcat ==
  ASSUME NEW D, NEW s \in Seq(D), NEW t \in Seq(D), NEW b \in Seq(D), Starts(b, s \o t)
  PROVE  \/ Len(b) < Len(s) /\ Starts(b, s)
         \/ \E c \in Seq(D) : b = s \o c /\ Starts(c, t)
<1>1. /\ Len(s \o t) = Len(s) + Len(t)
      /\ \A i \in 1..Len(s) : (s \o t)[i] = s[i]
      /\ \A i \in 1..Len(t) : (s \o t)[Len(s) + i] = t[i]
  BY ConcatParts
<1> DEFINE u == s \o t
<1>2. Starts(b, u) /\ Len(s) \in Nat /\ Len(t) \in Nat /\ Len(b) \in Nat
  OBVIOUS
<1> HIDE DEF u
<1>3. CASE Len(b) < Len(s)
  BY <1>1, <1>2, <1>3 DEF Starts, u
<1>4. CASE Len(b) >= Len(s)
  <2> DEFINE c == [i \in 1..(Len(b) - Len(s)) |-> b[Len(s) + i]]
  <2>1. c \in Seq(D) /\ Len(c) = Len(b) - Len(s)
    <3>1. Len(b) - Len(s) \in Nat /\ \A i \in 1..(Len(b) - Len(s)) : Len(s) + i \in 1..Len(b)
      BY <1>2, <1>4
    <3>2. \A i \in 1..(Len(b) - Len(s)) : b[Len(s) + i] \in D
      BY <3>1
    <3> QED
      BY <3>1, <3>2
  <2>2. \A i \in 1..Len(c) : c[i] = b[Len(s) + i]
    BY <2>1
  <2> HIDE DEF c
  <2>3. /\ s \o c \in Seq(D) /\ Len(s \o c) = Len(s) + Len(c)
        /\ \A i \in 1..Len(s) : (s \o c)[i] = s[i]
        /\ \A i \in 1..Len(c) : (s \o c)[Len(s) + i] = c[i]
    BY <2>1, ConcatParts
  <2> DEFINE v == s \o c
  <2> HIDE DEF v
  <2>4. ASSUME NEW i \in 1..Len(b) PROVE b[i] = v[i]
    <3>1. CASE i <= Len(s)
      <4>1. i \in 1..Len(s)
        BY <1>2, <3>1
      <4> QED
        BY <1>1, <1>2, <2>3, <4>1 DEF Starts, u, v
    <3>2. CASE i > Len(s)
      <4>1. i - Len(s) \in 1..Len(c) /\ Len(s) + (i - Len(s)) = i
        BY <1>2, <2>1, <3>2
      <4>2. v[Len(s) + (i - Len(s))] = c[i - Len(s)]
        BY <2>3, <4>1 DEF v
      <4>3. c[i - Len(s)] = b[Len(s) + (i - Len(s))]
        BY <2>2, <4>1
      <4> QED
        BY <4>1, <4>2, <4>3
    <3> QED
      BY <1>2, <3>1, <3>2
  <2>5. b = v
    <3>1. v \in Seq(D) /\ Len(b) = Len(v)
      BY <1>2, <2>1, <2>3 DEF v
    <3> QED
      BY <2>4, <3>1, SeqEqual
  <2>6. Starts(c, t)
    <3>1. Len(c) <= Len(t)
      BY <1>1, <1>2, <2>1 DEF Starts, u
    <3>2. ASSUME NEW i \in 1..Len(c) PROVE c[i] = t[i]
      <4>1. Len(s) + i \in 1..Len(b) /\ i \in 1..Len(t)
        BY <1>2, <2>1, <3>1
      <4>2. b[Len(s) + i] = u[Len(s) + i]
        BY <1>2, <4>1 DEF Starts
      <4>3. u[Len(s) + i] = t[i]
        BY <1>1, <4>1 DEF u
      <4> QED
        BY <2>2, <4>2, <4>3
    <3> QED
      BY <3>1, <3>2 DEF Starts
  <2> QED
    BY <2>1, <2>5, <2>6 DEF v
<1> QED
  BY <1>2, <1>3, <1>4

\* What follows the first part of a concatenation.
LEMMA RestOfConcat ==
  ASSUME NEW D, NEW s \in Seq(D), NEW t \in Seq(D)
  PROVE  SubSeq(s \o t, Len(s) + 1, Len(s \o t)) = t /\ SubSeq(s \o t, 1, Len(s)) = s
<1> DEFINE u == s \o t
<1>1. /\ u \in Seq(D) /\ Len(u) = Len(s) + Len(t)
      /\ \A i \in 1..Len(s) : u[i] = s[i]
      /\ \A i \in 1..Len(t) : u[Len(s) + i] = t[i]
  BY ConcatParts
<1> HIDE DEF u
<1>2. Len(s) \in Nat /\ Len(t) \in Nat /\ Len(u) \in Nat
  BY <1>1
<1>3. \A i \in 1..Len(u) : u[i] \in D
  BY <1>1
<1> DEFINE v == SubSeq(u, Len(s) + 1, Len(u))
           w == SubSeq(u, 1, Len(s))
<1>4. v \in Seq(D) /\ Len(v) = Len(t) /\ \A i \in 1..Len(v) : v[i] = u[Len(s) + i]
  BY <1>1, <1>2, <1>3
<1>5. w \in Seq(D) /\ Len(w) = Len(s) /\ \A i \in 1..Len(w) : w[i] = u[i]
  BY <1>1, <1>2, <1>3
<1> HIDE DEF v, w
<1>6. v = t
  BY <1>1, <1>4, SeqEqual
<1>7. w = s
  BY <1>1, <1>5, SeqEqual
<1> QED
  BY <1>6, <1>7 DEF u, v, w

-----------------------------------------------------------------------------
(* Varints.                                                                 *)

\* Varints have a byte at least.
LEMMA VarintLen == MaxVarintLen \in Nat /\ MaxVarintLen >= 1 /\ Modulus \in Nat
<1>1. MaxVarintLen \in Nat /\ MaxVarintLen >= 1
  BY WordAssumption DEF MaxVarintLen
<1>2. 128^(MaxVarintLen - 1) \in Nat
  BY <1>1, VarintAssumption
<1> QED
  BY <1>1, <1>2, VarintAssumption

\* The powers of 128 are positive and grow.
LEMMA VarintPowers ==
  ASSUME NEW k \in 0..MaxVarintLen
  PROVE  128^k \in Nat /\ 128^k > 0 /\ 128^(k + 1) = 128 * 128^k
<1> DEFINE S == {i \in 0..MaxVarintLen : ~(128^i > 0)}
<1>1. S \in SUBSET Nat
  BY VarintLen
<1>2. SUFFICES ASSUME S # {} PROVE FALSE
  BY VarintAssumption
<1>3. PICK i \in S : \A j \in S : i <= j
  BY <1>1, <1>2, LeastNat
<1>4. i \in 0..MaxVarintLen /\ ~(128^i > 0) /\ 128^i \in Nat
  BY <1>3, VarintAssumption
<1>5. i # 0
  <2>1. 128^0 = 1
    BY VarintAssumption
  <2> SUFFICES ASSUME i = 0 PROVE FALSE
    OBVIOUS
  <2>2. 128^i = 1
    BY <2>1, Zenon
  <2> QED
    BY <1>4, <2>2
<1>6. i - 1 \in 0..MaxVarintLen /\ i - 1 \notin S /\ (i - 1) + 1 = i
  BY <1>3, <1>4, <1>5, VarintLen
<1>7. 128^(i - 1) \in Nat /\ 128^(i - 1) > 0 /\ 128^((i - 1) + 1) = 128 * 128^(i - 1)
  BY <1>6, VarintAssumption
<1> QED
  BY <1>4, <1>6, <1>7

\* A number is written with as many bytes as it needs.
LEMMA UvarintLenFits ==
  ASSUME NEW u \in 0..(Modulus - 1)
  PROVE  /\ UvarintLen(u) \in 1..MaxVarintLen
         /\ u < 128^UvarintLen(u)
         /\ UvarintLen(u) > 1 => u >= 128^(UvarintLen(u) - 1)
<1> DEFINE S == {1} \cup {k \in 1..MaxVarintLen : u >= 128^(k - 1)}
           n == UvarintLen(u)
<1>1. S \in SUBSET 0..MaxVarintLen /\ S # {} /\ u \in Nat
  BY VarintLen
<1>2. n \in S /\ \A k \in S : n >= k
  <2>1. \E x \in S : \A y \in S : x >= y
    <3> HIDE DEF S
    <3>1. PICK x \in S : \A y \in S : y <= x
      BY <1>1, VarintLen, GreatestNat
    <3>2. \A y \in S : y \in Nat
      BY <1>1, VarintLen
    <3> QED
      BY <3>1, <3>2
  <2>2. n = CHOOSE x \in S : \A y \in S : x >= y
    BY DEF UvarintLen, Max
  <2> HIDE DEF S, n
  <2> QED
    BY <2>1, <2>2
<1>3. n \in 1..MaxVarintLen /\ (n > 1 => u >= 128^(n - 1))
  <2> HIDE DEF n
  <2> QED
    BY <1>2, VarintLen
<1>4. u < 128^n
  <2> HIDE DEF n
  <2>1. 128^(n - 1) \in Nat /\ 128^(n - 1) > 0 /\ 128^((n - 1) + 1) = 128 * 128^(n - 1) /\ (n - 1) + 1 = n
    <3>1. n - 1 \in 0..MaxVarintLen
      BY <1>3, VarintLen
    <3> QED
      BY <1>3, <3>1, VarintPowers
  <2>2. CASE n = MaxVarintLen
    BY <1>1, <2>1, <2>2, VarintAssumption, VarintLen
  <2>3. CASE n # MaxVarintLen
    <3>1. n + 1 \in 1..MaxVarintLen /\ (n + 1) - 1 = n
      BY <1>3, <2>3, VarintLen
    <3>2. n + 1 \notin S
      BY <1>2, <1>3
    <3>3. 128^n \in Nat
      BY <1>3, VarintPowers
    <3> QED
      BY <1>1, <3>1, <3>2, <3>3
  <2> QED
    BY <2>2, <2>3
<1> QED
  BY <1>3, <1>4

\* The group of 7 bits number i of u.
Group(u, i) == (u \div 128^(i - 1)) % 128

\* The lowest groups of u are what remains of it.
LEMMA GroupAdds ==
  ASSUME NEW u \in Nat, NEW i \in 1..MaxVarintLen
  PROVE  /\ Group(u, i) \in 0..127
         /\ u % 128^i = (u % 128^(i - 1)) + Group(u, i) * 128^(i - 1)
         /\ u % 128^i \in Nat
<1> DEFINE p == 128^(i - 1)
           q == u \div p
           d == q % 128
           r == u % p
           h == q \div 128
<1>1. i - 1 \in 0..MaxVarintLen /\ (i - 1) + 1 = i
  BY VarintLen
<1>2. p \in Nat /\ p > 0 /\ 128^i = 128 * p
  BY <1>1, VarintPowers
<1> HIDE DEF p
<1>3. q \in Int /\ r \in 0..(p - 1) /\ u = p * q + r
  BY <1>2, Division
<1> HIDE DEF q, r
<1>4. h \in Int /\ d \in 0..127 /\ q = 128 * h + d
  BY <1>3
<1> HIDE DEF d, h
<1>5. p * q = (128 * p) * h + p * d
  BY <1>2, <1>3, <1>4
<1>6. p * d + r \in 0..(128 * p - 1)
  <2>1. p * d <= p * 127 /\ p * d >= 0
    BY <1>2, <1>4
  <2> QED
    BY <1>2, <1>3, <1>4, <2>1
<1>7. u = (128 * p) * h + (p * d + r)
  BY <1>2, <1>3, <1>4, <1>5
<1>8. u % (128 * p) = p * d + r
  BY <1>2, <1>4, <1>6, <1>7, DivisionUnique
<1>9. Group(u, i) = d
  BY DEF Group, p, q, d
<1>10. p * d = d * p /\ p * d \in Int
  BY <1>2, <1>4
<1> QED
  BY <1>2, <1>3, <1>4, <1>6, <1>8, <1>9, <1>10 DEF p, r

\* The bytes of a varint: all but the last are marked, the last fits.
LEMMA PutUvarintParts ==
  ASSUME NEW u \in 0..(Modulus - 1)
  PROVE  LET n == UvarintLen(u)
         IN  /\ PutUvarint(u) \in Seq(Byte) /\ Len(PutUvarint(u)) = n
             /\ \A i \in 1..n : PutUvarint(u)[i] % 128 = Group(u, i)
             /\ \A i \in 1..(n - 1) : ~(PutUvarint(u)[i] < 128)
             /\ PutUvarint(u)[n] < 128
             /\ n = MaxVarintLen => ~(PutUvarint(u)[n] > 1)
<1> DEFINE n == UvarintLen(u)
           w == PutUvarint(u)
<1>1. n \in 1..MaxVarintLen /\ n \in Nat /\ u \in Nat /\ u < 128^n
  BY UvarintLenFits, VarintLen
<1>2. w = [i \in 1..n |-> (IF i < n THEN 128 ELSE 0) + Group(u, i)]
  BY DEF PutUvarint, Group
<1>3. \A i \in 1..n : Group(u, i) \in 0..127
  <2> HIDE DEF n
  <2> TAKE i \in 1..n
  <2>1. i \in 1..MaxVarintLen
    BY <1>1, VarintLen
  <2> QED
    BY <1>1, <2>1, GroupAdds
<1> HIDE DEF n, w
<1>4. \A i \in 1..n : w[i] = (IF i < n THEN 128 ELSE 0) + Group(u, i)
  BY <1>2
<1>5. ASSUME NEW i \in 1..n
      PROVE  w[i] \in Byte /\ w[i] % 128 = Group(u, i)
  <2> DEFINE g == Group(u, i)
  <2>1. g \in 0..127
    BY <1>3
  <2>2. w[i] = 128 + g \/ w[i] = g
    BY <1>4, <2>1
  <2> HIDE DEF g
  <2>3. (128 + g) % 128 = g /\ g % 128 = g
    BY <2>1
  <2> QED
    BY <2>1, <2>2, <2>3 DEF Byte, g
<1>6. w \in Seq(Byte) /\ Len(w) = n
  <2>1. w \in [1..n -> Byte]
    BY <1>2, <1>5
  <2> QED
    BY <1>1, <2>1
<1>7. \A i \in 1..(n - 1) : ~(w[i] < 128)
  BY <1>1, <1>3, <1>4
<1>8. w[n] = Group(u, n) /\ w[n] < 128
  BY <1>1, <1>3, <1>4
<1>9. n = MaxVarintLen => ~(w[n] > 1)
  <2> SUFFICES ASSUME n = MaxVarintLen PROVE Group(u, n) <= 1
    BY <1>1, <1>3, <1>8
  <2> DEFINE p == 128^(n - 1)
  <2>1. p \in Nat /\ p > 0
    BY <1>1, VarintPowers
  <2>2. Modulus = 2 * p
    BY VarintAssumption
  <2> HIDE DEF p
  <2>3. u \div p \in 0..1
    BY <2>1, <2>2
  <2>4. (u \div p) % 128 = u \div p
    BY <2>3
  <2> QED
    BY <2>3, <2>4 DEF Group, p
<1> QED
  BY <1>5, <1>6, <1>7, <1>8, <1>9 DEF n, w

\* The lowest groups of u, added up as the reader does.
Sums(f, b, n) == f = [i \in 0..n |-> IF i = 0 THEN 0 ELSE f[i - 1] + (b[i] % 128) * 128^(i - 1)]

\* The loop of the reader ends with the number that was written.
LEMMA SumOfGroups ==
  ASSUME NEW u \in Nat, NEW n \in 1..MaxVarintLen, NEW b, u < 128^n,
         \A i \in 1..n : b[i] % 128 = Group(u, i)
  PROVE  /\ \E f : Sums(f, b, n)
         /\ \A f : Sums(f, b, n) => f[n] = u
<1> DEFINE g == [i \in 0..n |-> u % 128^i]
<1>1. ASSUME NEW i \in 1..n
      PROVE  g[i] = g[i - 1] + (b[i] % 128) * 128^(i - 1)
  <2>1. i \in 0..n /\ i - 1 \in 0..n /\ i \in 1..MaxVarintLen
    BY VarintLen
  <2>2. u % 128^i = (u % 128^(i - 1)) + Group(u, i) * 128^(i - 1)
    BY <2>1, GroupAdds
  <2>3. g[i] = u % 128^i /\ g[i - 1] = u % 128^(i - 1)
    BY <2>1
  <2> QED
    BY <2>2, <2>3, Zenon
<1>2. g[0] = 0 /\ g[n] = u
  <2>1. g[0] = u % 128^0 /\ g[n] = u % 128^n
    BY VarintLen
  <2>2. u % 1 = 0
    OBVIOUS
  <2>3. 128^0 = 1
    BY VarintAssumption
  <2>4. u % 128^0 = 0
    BY <2>2, <2>3, Zenon
  <2>5. 128^n \in Nat /\ 128^n > 0
    BY VarintPowers, VarintLen
  <2>6. u % 128^n = u
    <3> DEFINE p == 128^n
    <3>1. p \in Nat /\ u < p
      BY <2>5
    <3> HIDE DEF p
    <3>2. u % p = u
      BY <3>1
    <3> QED
      BY <3>2 DEF p
  <2> QED
    BY <2>1, <2>4, <2>6, Zenon
<1>3. Sums(g, b, n)
  <2>1. \A i \in 0..n : g[i] = IF i = 0 THEN 0 ELSE g[i - 1] + (b[i] % 128) * 128^(i - 1)
    <3> TAKE i \in 0..n
    <3>1. i = 0 \/ i \in 1..n
      OBVIOUS
    <3>2. 0 \notin 1..n
      OBVIOUS
    <3> HIDE DEF g
    <3> QED
      BY <1>1, <1>2, <3>1, <3>2, Zenon
  <2>2. g = [i \in 0..n |-> g[i]]
    OBVIOUS
  <2> HIDE DEF g
  <2>3. [i \in 0..n |-> g[i]] = [i \in 0..n |-> IF i = 0 THEN 0 ELSE g[i - 1] + (b[i] % 128) * 128^(i - 1)]
    BY <2>1, Zenon
  <2> QED
    BY <2>2, <2>3, Zenon DEF Sums
<1>4. ASSUME NEW f, Sums(f, b, n) PROVE f[n] = u
  <2> DEFINE S == {i \in 0..n : f[i] # g[i]}
  <2> HIDE DEF g
  <2>1. SUFFICES ASSUME S # {} PROVE FALSE
    <3>1. n \in 0..n
      BY VarintLen
    <3> QED
      BY <1>2, <3>1
  <2>2. PICK i \in S : \A j \in S : i <= j
    <3>1. S \in SUBSET Nat
      OBVIOUS
    <3> HIDE DEF S
    <3> QED
      BY <2>1, <3>1, LeastNat
  <2>3. i \in 0..n /\ f[i] # g[i]
    BY <2>2
  <2>4. f[i] = IF i = 0 THEN 0 ELSE f[i - 1] + (b[i] % 128) * 128^(i - 1)
    BY <1>4, <2>3, Zenon DEF Sums
  <2>5. g[i] = IF i = 0 THEN 0 ELSE g[i - 1] + (b[i] % 128) * 128^(i - 1)
    BY <1>3, <2>3, Zenon DEF Sums
  <2>6. i # 0 => i - 1 \in 0..n /\ i - 1 \notin S
    BY <2>2, <2>3
  <2> QED
    BY <2>3, <2>4, <2>5, <2>6, Zenon
<1> QED
  BY <1>3, <1>4

\* After a varint, the reader returns the number and leaves the rest.
LEMMA GetUvarintWhole ==
  ASSUME NEW u \in 0..(Modulus - 1), NEW c \in Seq(Byte)
  PROVE  GetUvarint(PutUvarint(u) \o c) = Read(u, c)
<1> DEFINE n == UvarintLen(u)
           w == PutUvarint(u)
           b == w \o c
           ends == {i \in DOMAIN b : b[i] < 128}
<1>1. n \in 1..MaxVarintLen /\ u \in Nat /\ u < 128^n
  BY UvarintLenFits, VarintLen
<1>2. /\ w \in Seq(Byte) /\ Len(w) = n
      /\ \A i \in 1..n : w[i] % 128 = Group(u, i)
      /\ \A i \in 1..(n - 1) : ~(w[i] < 128)
      /\ w[n] < 128
      /\ n = MaxVarintLen => ~(w[n] > 1)
  BY PutUvarintParts
<1> HIDE DEF n, w
<1>3. b \in Seq(Byte) /\ Len(b) = n + Len(c) /\ \A i \in 1..n : b[i] = w[i]
  <2> w \in Seq(Byte)
    BY <1>2
  <2>1. /\ b \in Seq(Byte) /\ Len(b) = Len(w) + Len(c)
        /\ \A i \in 1..Len(w) : b[i] = w[i]
    BY ConcatParts
  <2> HIDE DEF b
  <2> QED
    BY <1>2, <2>1
<1>4. SubSeq(b, n + 1, Len(b)) = c
  BY <1>2, RestOfConcat
<1> HIDE DEF b
<1>5. n \in Nat /\ n > 0 /\ n <= MaxVarintLen /\ Len(c) \in Nat /\ n \in 1..n /\ n \in 1..Len(b)
  BY <1>1, <1>3, VarintLen
<1>6. n \in ends /\ \A i \in ends : n <= i
  <2>1. n \in ends
    BY <1>2, <1>3, <1>5
  <2>2. ASSUME NEW i \in ends, ~(n <= i) PROVE FALSE
    <3>1. i \in 1..(n - 1) /\ i \in 1..n /\ b[i] < 128
      BY <1>3, <1>5, <2>2
    <3> QED
      BY <1>2, <1>3, <3>1
  <2> QED
    BY <2>1, <2>2
<1>7. Min(ends) = n /\ ends # {}
  <2>1. ends \in SUBSET Nat
    BY <1>3
  <2> HIDE DEF ends
  <2>2. \A x \in ends : (\A y \in ends : x <= y) => x = n
    BY <1>5, <1>6, <2>1
  <2>3. \E x \in ends : \A y \in ends : x <= y
    BY <1>6
  <2> QED
    BY <1>6, <2>2, <2>3 DEF Min
<1> DEFINE f == CHOOSE f : Sums(f, b, n)
<1>8. f[n] = u
  <2>1. \A i \in 1..n : b[i] % 128 = Group(u, i)
    BY <1>2, <1>3
  <2>2. /\ \E g : Sums(g, b, n)
        /\ \A g : Sums(g, b, n) => g[n] = u
    BY <1>1, <2>1, SumOfGroups
  <2> QED
    BY <2>2, Zenon
<1>9. ~(n > MaxVarintLen) /\ ~(n = MaxVarintLen /\ b[n] > 1)
  BY <1>2, <1>3, <1>5, VarintLen
<1> HIDE DEF n
<1>10. GetUvarint(b) = Read(f[n], SubSeq(b, n + 1, Len(b)))
  BY <1>7, <1>9, Zenon DEF GetUvarint, Sums
<1> QED
  BY <1>4, <1>8, <1>10 DEF b, w

\* After a part of a varint, it fails with "eof".
LEMMA GetUvarintTorn ==
  ASSUME NEW u \in 0..(Modulus - 1), NEW b \in Seq(Byte),
         Len(b) < Len(PutUvarint(u)), Starts(b, PutUvarint(u))
  PROVE  GetUvarint(b) = Fail("eof")
<1> DEFINE n == UvarintLen(u)
           w == PutUvarint(u)
<1>1. n \in 1..MaxVarintLen
  BY UvarintLenFits
<1>2. Len(w) = n /\ \A i \in 1..(n - 1) : ~(w[i] < 128)
  BY PutUvarintParts
<1>3. Len(b) < n /\ \A i \in 1..Len(b) : b[i] = w[i]
  BY <1>2 DEF Starts
<1> HIDE DEF n, w
<1>4. \A i \in DOMAIN b : i \in 1..(n - 1) /\ i \in 1..Len(b)
  BY <1>1, <1>3, VarintLen
<1>5. {i \in DOMAIN b : b[i] < 128} = {}
  BY <1>2, <1>3, <1>4
<1>6. ~(Len(b) > MaxVarintLen)
  BY <1>1, <1>3, VarintLen
<1> QED
  BY <1>5, <1>6, Zenon DEF GetUvarint

-----------------------------------------------------------------------------
(* Strings and labels.                                                      *)

\* Results are told apart by their error.
LEMMA ReadParts ==
  ASSUME NEW v, NEW c, NEW e
  PROVE  /\ Read(v, c).err = "nil" /\ Read(v, c).v = v /\ Read(v, c).rest = c
         /\ Fail(e).err = e
  BY DEF Read, Fail

\* What is written for a label.
LabelBytes(l) == PutString(l.name) \o PutString(l.value)

ByteString == {s \in Seq(Byte) : Len(s) < Modulus}
ByteLabel == [name : ByteString, value : ByteString]

\* A string is its length and its bytes.
LEMMA PutStringType ==
  ASSUME NEW s \in ByteString
  PROVE  /\ s \in Seq(Byte) /\ Len(s) \in 0..(Modulus - 1)
         /\ PutUvarint(Len(s)) \in Seq(Byte) /\ PutString(s) \in Seq(Byte)
<1>1. s \in Seq(Byte) /\ Len(s) \in 0..(Modulus - 1)
  BY VarintLen DEF ByteString
<1>2. PutUvarint(Len(s)) \in Seq(Byte)
  BY <1>1, PutUvarintParts
<1> QED
  BY <1>1, <1>2 DEF PutString

\* After a string, the reader returns it and leaves the rest.
LEMMA GetStringWhole ==
  ASSUME NEW s \in ByteString, NEW c \in Seq(Byte)
  PROVE  GetString(PutString(s) \o c) = Read(s, c)
<1> DEFINE x == PutUvarint(Len(s))
           t == s \o c
<1>1. s \in Seq(Byte) /\ Len(s) \in 0..(Modulus - 1) /\ x \in Seq(Byte)
  BY PutStringType
<1>2. t \in Seq(Byte) /\ Len(t) = Len(s) + Len(c)
  BY <1>1, ConcatProperties
<1>3. PutString(s) \o c = x \o t
  BY <1>1, ConcatAssociative DEF PutString
<1>4. GetUvarint(x \o t) = Read(Len(s), t)
  BY <1>1, <1>2, GetUvarintWhole
<1>5. SubSeq(t, Len(s) + 1, Len(t)) = c /\ SubSeq(t, 1, Len(s)) = s
  BY <1>1, RestOfConcat
<1>6. ~(Len(t) < Len(s))
  BY <1>1, <1>2
<1> HIDE DEF x, t
<1>7. GetString(x \o t) = Read(SubSeq(t, 1, Len(s)), SubSeq(t, Len(s) + 1, Len(t)))
  <2>1. LET r == GetUvarint(x \o t) IN r.err = "nil" /\ r.v = Len(s) /\ r.rest = t
    BY <1>4, ReadParts
  <2> QED
    BY <1>6, <2>1, Zenon DEF GetString, Then
<1> QED
  BY <1>3, <1>5, <1>7

\* After a part of a string, it fails with "eof".
LEMMA GetStringTorn ==
  ASSUME NEW s \in ByteString, NEW b \in Seq(Byte),
         Len(b) < Len(PutString(s)), Starts(b, PutString(s))
  PROVE  GetString(b) = Fail("eof")
<1> DEFINE x == PutUvarint(Len(s))
<1>1. s \in Seq(Byte) /\ Len(s) \in 0..(Modulus - 1) /\ x \in Seq(Byte)
  BY PutStringType
<1>2. PutString(s) = x \o s
  BY DEF PutString
<1> HIDE DEF x
<1>3. \/ Len(b) < Len(x) /\ Starts(b, x)
      \/ \E c \in Seq(Byte) : b = x \o c /\ Starts(c, s)
  BY <1>1, <1>2, CutOfConcat
<1>4. CASE Len(b) < Len(x) /\ Starts(b, x)
  <2>1. GetUvarint(b) = Fail("eof")
    BY <1>1, <1>4, GetUvarintTorn DEF x
  <2>2. Fail("eof").err = "eof" /\ "eof" # "nil"
    BY ReadParts
  <2> QED
    BY <2>1, <2>2, Zenon DEF GetString, Then
<1>5. ASSUME NEW c \in Seq(Byte), b = x \o c, Starts(c, s)
      PROVE  GetString(b) = Fail("eof")
  <2>1. GetUvarint(b) = Read(Len(s), c)
    BY <1>1, <1>5, GetUvarintWhole DEF x
  <2>2. Len(b) = Len(x) + Len(c) /\ Len(x \o s) = Len(x) + Len(s)
    BY <1>1, <1>5, ConcatProperties
  <2>3. Len(c) < Len(s)
    BY <1>1, <1>2, <2>2
  <2> QED
    <3>1. LET r == GetUvarint(b) IN r.err = "nil" /\ r.v = Len(s) /\ r.rest = c
      BY <2>1, ReadParts
    <3> QED
      BY <2>3, <3>1, Zenon DEF GetString, Then
<1> QED
  BY <1>3, <1>4, <1>5

\* A label is two strings.
LEMMA LabelBytesType ==
  ASSUME NEW l \in ByteLabel
  PROVE  /\ l.name \in ByteString /\ l.value \in ByteString
         /\ PutString(l.name) \in Seq(Byte) /\ PutString(l.value) \in Seq(Byte)
         /\ LabelBytes(l) \in Seq(Byte)
<1>1. l.name \in ByteString /\ l.value \in ByteString
  BY DEF ByteLabel
<1>2. PutString(l.name) \in Seq(Byte) /\ PutString(l.value) \in Seq(Byte)
  BY <1>1, PutStringType
<1> QED
  BY <1>1, <1>2 DEF LabelBytes

\* A label is its name and its value.
LEMMA LabelParts ==
  ASSUME NEW l \in ByteLabel
  PROVE  l = [name |-> l.name, value |-> l.value]
  BY DEF ByteLabel

\* After a label, the reader adds it and leaves the rest.
LEMMA GetLabelWhole ==
  ASSUME NEW l \in ByteLabel, NEW c \in Seq(Byte), NEW v
  PROVE  GetLabel(Read(v, LabelBytes(l) \o c)) = Read(Append(v, l), c)
<1> DEFINE x == PutString(l.name)
           y == PutString(l.value)
           t == y \o c
<1>1. /\ l.name \in ByteString /\ l.value \in ByteString
      /\ x \in Seq(Byte) /\ y \in Seq(Byte)
  BY LabelBytesType
<1>2. t \in Seq(Byte)
  BY <1>1, ConcatProperties
<1>3. LabelBytes(l) \o c = x \o t
  BY <1>1, ConcatAssociative DEF LabelBytes
<1>4. GetString(x \o t) = Read(l.name, t)
  BY <1>1, <1>2, GetStringWhole
<1>5. GetString(t) = Read(l.value, c)
  BY <1>1, GetStringWhole
<1> HIDE DEF x, t
<1>6. GetLabel(Read(v, x \o t)) = Read(Append(v, [name |-> l.name, value |-> l.value]), c)
  <2>1. LET r == GetString(x \o t) IN r.err = "nil" /\ r.v = l.name /\ r.rest = t
    BY <1>4, ReadParts
  <2>2. LET r == GetString(t) IN r.err = "nil" /\ r.v = l.value /\ r.rest = c
    BY <1>5, ReadParts
  <2>3. LET r == Read(v, x \o t) IN r.v = v /\ r.rest = x \o t
    BY ReadParts
  <2> QED
    BY <2>1, <2>2, <2>3, Zenon DEF GetLabel, Then
<1> QED
  BY <1>3, <1>6, LabelParts

\* After a part of a label, it fails with "eof".
LEMMA GetLabelTorn ==
  ASSUME NEW l \in ByteLabel, NEW b \in Seq(Byte), NEW v,
         Len(b) < Len(LabelBytes(l)), Starts(b, LabelBytes(l))
  PROVE  GetLabel(Read(v, b)) = Fail("eof")
<1> DEFINE x == PutString(l.name)
           y == PutString(l.value)
<1>1. /\ l.name \in ByteString /\ l.value \in ByteString
      /\ x \in Seq(Byte) /\ y \in Seq(Byte)
  BY LabelBytesType
<1>2. LabelBytes(l) = x \o y
  BY DEF LabelBytes
<1>3. Fail("eof").err = "eof" /\ "eof" # "nil"
  BY ReadParts
<1> HIDE DEF x, y
<1>4. \/ Len(b) < Len(x) /\ Starts(b, x)
      \/ \E c \in Seq(Byte) : b = x \o c /\ Starts(c, y)
  BY <1>1, <1>2, CutOfConcat
<1>5. CASE Len(b) < Len(x) /\ Starts(b, x)
  <2>1. GetString(b) = Fail("eof")
    BY <1>1, <1>5, GetStringTorn DEF x
  <2> QED
    <3>1. Read(v, b).rest = b
      BY ReadParts
    <3> QED
      BY <1>3, <2>1, <3>1, Zenon DEF GetLabel, Then
<1>6. ASSUME NEW c \in Seq(Byte), b = x \o c, Starts(c, y)
      PROVE  GetLabel(Read(v, b)) = Fail("eof")
  <2>1. GetString(b) = Read(l.name, c)
    BY <1>1, <1>6, GetStringWhole DEF x
  <2>2. Len(b) = Len(x) + Len(c) /\ Len(x \o y) = Len(x) + Len(y)
    BY <1>1, <1>6, ConcatProperties
  <2>3. Len(c) < Len(y)
    BY <1>1, <1>2, <2>2
  <2>4. GetString(c) = Fail("eof")
    BY <1>1, <1>6, <2>3, GetStringTorn DEF y
  <2> QED
    <3>1. LET r == GetString(b) IN r.err = "nil" /\ r.v = l.name /\ r.rest = c
      BY <2>1, ReadParts
    <3>2. Read(v, b).rest = b
      BY ReadParts
    <3> QED
      BY <1>3, <2>4, <3>1, <3>2, Zenon DEF GetLabel, Then
<1> QED
  BY <1>4, <1>5, <1>6

-----------------------------------------------------------------------------
(* Words one after the other.                                               *)

\* The first k words, joined, and what follows them in b.
Flat(w, k) == FlattenSeq(SubSeq(w, 1, k))
Rest(b, w, k) == SubSeq(b, Len(Flat(w, k)) + 1, Len(b))

\* The first words, element by element.
LEMMA FirstWords ==
  ASSUME NEW D, NEW w \in Seq(D), NEW k \in 0..Len(w)
  PROVE  /\ SubSeq(w, 1, k) \in Seq(D) /\ Len(SubSeq(w, 1, k)) = k
         /\ \A i \in 1..k : SubSeq(w, 1, k)[i] = w[i]
<1>1. Len(w) \in Nat /\ k \in Nat /\ \A i \in 1..k : w[i] \in D
  OBVIOUS
<1> QED
  BY <1>1

\* The words are joined one by one.
LEMMA FlatStep ==
  ASSUME NEW D, NEW w \in Seq(Seq(D)), NEW k \in 0..Len(w)
  PROVE  /\ Flat(w, k) \in Seq(D)
         /\ k = 0 => Flat(w, k) = <<>>
         /\ k < Len(w) => Flat(w, k + 1) = Flat(w, k) \o w[k + 1]
<1>1. ASSUME NEW j \in 0..Len(w), j < Len(w)
      PROVE  Flat(w, j) \in Seq(D) /\ Flat(w, j + 1) = Flat(w, j) \o w[j + 1]
  <2> DEFINE v == SubSeq(w, 1, j)
             x == SubSeq(w, 1, j + 1)
  <2>1. j + 1 \in 0..Len(w) /\ j \in Nat
    BY <1>1
  <2>2. v \in Seq(Seq(D)) /\ Len(v) = j /\ \A i \in 1..j : v[i] = w[i]
    BY FirstWords
  <2>3. x \in Seq(Seq(D)) /\ Len(x) = j + 1 /\ \A i \in 1..(j + 1) : x[i] = w[i]
    BY <2>1, FirstWords
  <2> HIDE DEF v, x
  <2>4. Len(x) = Len(v) + 1 /\ \A i \in 1..Len(v) : x[i] = v[i]
    <3>1. \A i \in 1..j : i \in 1..(j + 1)
      BY <2>1
    <3>2. \A i \in 1..j : x[i] = v[i]
      BY <2>2, <2>3, <3>1, Zenon
    <3> QED
      BY <2>2, <2>3, <3>2
  <2>5. FlattenSeq(x) = FlattenSeq(v) \o x[Len(x)] /\ FlattenSeq(v) \in Seq(D)
    BY <2>2, <2>3, <2>4, FlattenLast
  <2>6. x[Len(x)] = w[j + 1]
    BY <2>1, <2>3
  <2> QED
    BY <2>5, <2>6 DEF Flat, v, x
<1>2. k = 0 => Flat(w, k) = <<>>
  <2> SUFFICES ASSUME k = 0 PROVE Flat(w, 0) = <<>>
    OBVIOUS
  <2>1. SubSeq(w, 1, 0) = <<>> /\ Len(<<>>) = 0
    OBVIOUS
  <2> QED
    BY <2>1, Zenon DEF Flat, FlattenSeq
<1>3. Flat(w, k) \in Seq(D)
  <2>1. CASE k = 0
    BY <1>2, <2>1, EmptySeq
  <2>2. CASE k # 0
    <3>1. k - 1 \in 0..Len(w) /\ k - 1 < Len(w) /\ (k - 1) + 1 = k /\ k \in 1..Len(w)
      BY <2>2
    <3>2. Flat(w, k - 1) \in Seq(D) /\ Flat(w, (k - 1) + 1) = Flat(w, k - 1) \o w[(k - 1) + 1]
      BY <1>1, <3>1
    <3>3. w[k] \in Seq(D)
      BY <3>1
    <3>4. Flat(w, k) = Flat(w, k - 1) \o w[k]
      BY <3>1, <3>2
    <3> QED
      BY <3>2, <3>3, <3>4, ConcatProperties
  <2> QED
    BY <2>1, <2>2
<1> QED
  BY <1>1, <1>2, <1>3

\* All words are the first ones and others.
LEMMA FlatSplit ==
  ASSUME NEW D, NEW w \in Seq(Seq(D)), NEW k \in 0..Len(w)
  PROVE  \E t \in Seq(D) : FlattenSeq(w) = Flat(w, k) \o t
<1> DEFINE Split(i) == \E t \in Seq(D) : FlattenSeq(w) = Flat(w, i) \o t
           S == {j \in 0..Len(w) : ~Split(Len(w) - j)}
<1>0. \A p, q, s \in Seq(D) : (p \o q) \o s = p \o (q \o s)
  BY ONLY ConcatAssociative
<1>1. Len(w) \in Nat /\ k \in Nat
  OBVIOUS
<1> SUFFICES ASSUME S # {} PROVE FALSE
  <2>1. Len(w) - k \in 0..Len(w) /\ Len(w) - (Len(w) - k) = k
    BY <1>1
  <2> HIDE DEF Split
  <2>2. Split(k)
    BY <2>1
  <2> QED
    BY <2>2 DEF Split
<1> HIDE DEF Split
<1>2. PICK j \in S : \A i \in S : j <= i
  <2>1. S \in SUBSET Nat
    BY <1>1
  <2> HIDE DEF S
  <2> QED
    BY <2>1, LeastNat
<1> DEFINE m == Len(w) - j
<1>3. j \in 0..Len(w) /\ m \in 0..Len(w) /\ ~Split(m)
  BY <1>1, <1>2
<1>4. CASE m = Len(w)
  <2>1. Flat(w, Len(w)) = FlattenSeq(w)
    <3>1. SubSeq(w, 1, Len(w)) = w
      BY SubSeqFull
    <3> QED
      BY <3>1 DEF Flat
  <2>2. FlattenSeq(w) \in Seq(D)
    <3>1. Len(w) \in 0..Len(w)
      BY <1>1
    <3> QED
      BY <2>1, <3>1, FlatStep
  <2>3. FlattenSeq(w) = Flat(w, Len(w)) \o <<>> /\ <<>> \in Seq(D)
    BY <2>1, <2>2, ConcatEmptySeq
  <2>4. Split(Len(w))
    BY <2>3 DEF Split
  <2> HIDE DEF m
  <2> QED
    BY <1>3, <1>4, <2>4
<1>5. CASE m # Len(w)
  <2>1. j - 1 \in 0..Len(w) /\ j - 1 \notin S /\ Len(w) - (j - 1) = m + 1 /\ m < Len(w)
    <3>1. j - 1 \in 0..Len(w) /\ Len(w) - (j - 1) = m + 1 /\ m < Len(w) /\ ~(j <= j - 1)
      BY <1>1, <1>3, <1>5
    <3> HIDE DEF S
    <3>2. j - 1 \notin S
      BY <1>2, <3>1, Zenon
    <3> QED
      BY <3>1, <3>2
  <2>2. Split(m + 1)
    BY <2>1
  <2> HIDE DEF m, S
  <2>3. PICK t \in Seq(D) : FlattenSeq(w) = Flat(w, m + 1) \o t
    BY <2>2 DEF Split
  <2>4. Flat(w, m) \in Seq(D) /\ Flat(w, m + 1) = Flat(w, m) \o w[m + 1]
    BY <1>3, <2>1, FlatStep
  <2>5. w[m + 1] \in Seq(D)
    BY <1>1, <1>3, <2>1
  <2>6. w[m + 1] \o t \in Seq(D)
    BY <2>5, ConcatProperties
  <2>7. FlattenSeq(w) = Flat(w, m) \o (w[m + 1] \o t)
    <3>1. (Flat(w, m) \o w[m + 1]) \o t = Flat(w, m) \o (w[m + 1] \o t)
      BY <1>0, <2>4, <2>5, Zenon
    <3> QED
      BY <2>3, <2>4, <3>1, Zenon
  <2>8. Split(m)
    BY <2>6, <2>7 DEF Split
  <2> QED
    BY <1>3, <2>8
<1> QED
  BY <1>4, <1>5

\* A file that reaches past the first k words is these words and a rest.
LEMMA RestAfter ==
  ASSUME NEW D, NEW w \in Seq(Seq(D)), NEW c \in Seq(D), NEW b \in Seq(D),
         Starts(b, FlattenSeq(w) \o c), NEW k \in 0..Len(w), Len(Flat(w, k)) <= Len(b)
  PROVE  /\ Rest(b, w, k) \in Seq(D)
         /\ b = Flat(w, k) \o Rest(b, w, k)
         /\ \A t \in Seq(D) : FlattenSeq(w) \o c = Flat(w, k) \o t => Starts(Rest(b, w, k), t)
<1> DEFINE x == Flat(w, k)
<1>1. PICK t0 \in Seq(D) : FlattenSeq(w) = x \o t0
  BY FlatSplit
<1>2. x \in Seq(D)
  BY FlatStep
<1> HIDE DEF x
<1>3. FlattenSeq(w) \o c = x \o (t0 \o c) /\ t0 \o c \in Seq(D)
  <2>1. t0 \o c \in Seq(D)
    BY ConcatProperties
  <2> QED
    BY <1>1, <1>2, <2>1, ConcatAssociative
<1>4. PICK t \in Seq(D) : FlattenSeq(w) \o c = x \o t
  BY <1>3
<1>5. PICK r \in Seq(D) : b = x \o r /\ Starts(r, t)
  <2>1. ~(Len(b) < Len(x))
    BY <1>2 DEF x
  <2> QED
    BY <1>2, <1>4, <2>1, CutOfConcat
<1>6. Rest(b, w, k) = r
  BY <1>2, <1>5, RestOfConcat DEF Rest, x
<1>7. ASSUME NEW t1 \in Seq(D), FlattenSeq(w) \o c = x \o t1
      PROVE  t1 = t
  BY <1>2, <1>4, <1>7, ConcatSimplifications
<1> QED
  BY <1>5, <1>6, <1>7 DEF x

\* Concatenation is associative.
LEMMA Regroup == \A p, q, s \in Seq(Byte) : (p \o q) \o s = p \o (q \o s)
  BY ConcatAssociative

\* The next word is there, or the file ends within it.
LEMMA CutAtWord ==
  ASSUME NEW w \in Seq(Seq(Byte)), NEW c \in Seq(Byte), NEW b \in Seq(Byte),
         Starts(b, FlattenSeq(w) \o c), NEW k \in 0..(Len(w) - 1), Len(Flat(w, k)) <= Len(b)
  PROVE  LET r == Rest(b, w, k)
             x == w[k + 1]
         IN  /\ r \in Seq(Byte)
             /\ \/ Len(r) < Len(x) /\ Starts(r, x) /\ ~(Len(Flat(w, k + 1)) <= Len(b))
                \/ /\ Len(Flat(w, k + 1)) <= Len(b)
                   /\ Rest(b, w, k + 1) \in Seq(Byte) /\ r = x \o Rest(b, w, k + 1)
<1> DEFINE r == Rest(b, w, k)
           x == w[k + 1]
           f == Flat(w, k)
           g == Flat(w, k + 1)
<1>1. k \in 0..Len(w) /\ k < Len(w) /\ k + 1 \in 0..Len(w) /\ k + 1 \in 1..Len(w)
  OBVIOUS
<1>2. f \in Seq(Byte) /\ g \in Seq(Byte) /\ g = f \o x
  BY <1>1, FlatStep
<1>3. x \in Seq(Byte)
  BY <1>1
<1>4. Len(g) = Len(f) + Len(x)
  BY <1>2, <1>3, ConcatProperties
<1>5. PICK t0 \in Seq(Byte) : FlattenSeq(w) = g \o t0
  BY <1>1, FlatSplit
<1> DEFINE t == t0 \o c
<1> HIDE DEF r, x, f, g
<1>6. \A s \in Seq(Byte) : (f \o x) \o s = f \o (x \o s)
  <2>1. \A q, s \in Seq(Byte) : (f \o q) \o s = f \o (q \o s)
    BY <1>2, Regroup, Zenon
  <2> QED
    BY <1>3, <2>1, Zenon
<1>7. t \in Seq(Byte) /\ x \o t \in Seq(Byte)
  <2>1. t \in Seq(Byte)
    BY ConcatProperties
  <2> HIDE DEF t
  <2> QED
    BY <1>3, <2>1, ConcatProperties
<1>8. FlattenSeq(w) \o c = f \o (x \o t)
  <2>1. FlattenSeq(w) \o c = g \o t
    <3>0. g \in Seq(Byte)
      BY <1>2
    <3>1. (g \o t0) \o c = g \o (t0 \o c)
      BY <3>0, Regroup, Zenon
    <3> QED
      BY <1>5, <3>1, Zenon
  <2> HIDE DEF t
  <2>2. (f \o x) \o t = f \o (x \o t)
    BY <1>7, <1>6, Zenon
  <2> QED
    BY <1>2, <2>1, <2>2
<1> HIDE DEF t
<1>9. r \in Seq(Byte) /\ b = f \o r /\ Starts(r, x \o t)
  <2>1. /\ r \in Seq(Byte) /\ b = f \o r
        /\ \A t1 \in Seq(Byte) : FlattenSeq(w) \o c = f \o t1 => Starts(r, t1)
    <3>1. k \in 0..Len(w) /\ Len(f) <= Len(b)
      BY <1>1 DEF f
    <3>2. /\ Rest(b, w, k) \in Seq(Byte)
          /\ b = Flat(w, k) \o Rest(b, w, k)
          /\ \A t1 \in Seq(Byte) : FlattenSeq(w) \o c = Flat(w, k) \o t1 => Starts(Rest(b, w, k), t1)
      BY <3>1, RestAfter
    <3> QED
      BY <3>2, Zenon DEF r, f
  <2> QED
    BY <1>7, <1>8, <2>1, Zenon
<1>10. Len(b) = Len(f) + Len(r)
  BY <1>2, <1>9, ConcatProperties
<1>11. \/ Len(r) < Len(x) /\ Starts(r, x)
       \/ \E d \in Seq(Byte) : r = x \o d /\ Starts(d, t)
  BY <1>3, <1>7, <1>9, CutOfConcat
<1>12. Len(f) \in Nat /\ Len(r) \in Nat /\ Len(x) \in Nat
  BY <1>2, <1>3, <1>9
<1>13. CASE Len(r) < Len(x) /\ Starts(r, x)
  <2>1. ~(Len(g) <= Len(b))
    BY <1>4, <1>10, <1>12, <1>13
  <2> QED
    BY <1>9, <1>13, <2>1 DEF r, x, g
<1>14. ASSUME NEW d \in Seq(Byte), r = x \o d
       PROVE  Len(g) <= Len(b) /\ Rest(b, w, k + 1) = d
  <2>1. Len(r) = Len(x) + Len(d) /\ Len(d) \in Nat
    BY <1>3, <1>14, ConcatProperties
  <2>2. Len(g) <= Len(b)
    BY <1>4, <1>10, <1>12, <2>1
  <2>3. b = g \o d
    <3>1. (f \o x) \o d = f \o (x \o d)
      BY <1>6, Zenon
    <3> QED
      BY <1>2, <1>9, <1>14, <3>1, Zenon
  <2>4. SubSeq(b, Len(g) + 1, Len(b)) = d
    BY <1>2, <2>3, RestOfConcat
  <2> QED
    BY <2>2, <2>4 DEF Rest, g
<1>15. CASE \E d \in Seq(Byte) : r = x \o d /\ Starts(d, t)
  BY <1>9, <1>14, <1>15 DEF r, x, g
<1> QED
  BY <1>11, <1>13, <1>15

-----------------------------------------------------------------------------
(* Label sets and records.                                                  *)

LabelWords(labels) == [i \in DOMAIN labels |-> LabelBytes(labels[i])]

\* One word per label.
LEMMA LabelWordsType ==
  ASSUME NEW labels \in Seq(ByteLabel)
  PROVE  /\ LabelWords(labels) \in Seq(Seq(Byte)) /\ Len(LabelWords(labels)) = Len(labels)
         /\ \A i \in 1..Len(labels) : /\ labels[i] \in ByteLabel
                                      /\ LabelWords(labels)[i] = LabelBytes(labels[i])
<1>1. Len(labels) \in Nat /\ DOMAIN labels = 1..Len(labels) /\ \A i \in 1..Len(labels) : labels[i] \in ByteLabel
  OBVIOUS
<1>2. \A i \in 1..Len(labels) : LabelBytes(labels[i]) \in Seq(Byte)
  BY <1>1, LabelBytesType
<1>3. LabelWords(labels) = [i \in 1..Len(labels) |-> LabelBytes(labels[i])]
  BY <1>1 DEF LabelWords
<1>4. LabelWords(labels) \in [1..Len(labels) -> Seq(Byte)]
  BY <1>2, <1>3
<1>5. LabelWords(labels) \in Seq(Seq(Byte)) /\ Len(LabelWords(labels)) = Len(labels)
  BY <1>1, <1>4
<1>6. \A i \in 1..Len(labels) : LabelWords(labels)[i] = LabelBytes(labels[i])
  BY <1>3
<1> QED
  BY <1>1, <1>5, <1>6

\* The first k labels of a file b, when it holds them.
LabelsRead(b, labels, k) ==
  IF Len(Flat(LabelWords(labels), k)) <= Len(b)
  THEN Read(SubSeq(labels, 1, k), Rest(b, LabelWords(labels), k))
  ELSE Fail("eof")

\* The first elements and the next one.
LEMMA OneMore ==
  ASSUME NEW D, NEW s \in Seq(D), NEW k \in 0..(Len(s) - 1)
  PROVE  Append(SubSeq(s, 1, k), s[k + 1]) = SubSeq(s, 1, k + 1)
<1> DEFINE a == SubSeq(s, 1, k)
           z == SubSeq(s, 1, k + 1)
<1>1. k \in 0..Len(s) /\ k + 1 \in 0..Len(s) /\ k + 1 \in 1..Len(s) /\ k \in Nat
  OBVIOUS
<1>2. a \in Seq(D) /\ Len(a) = k /\ \A i \in 1..k : a[i] = s[i]
  BY <1>1, FirstWords
<1>3. z \in Seq(D) /\ Len(z) = k + 1 /\ \A i \in 1..(k + 1) : z[i] = s[i]
  BY <1>1, FirstWords
<1>4. s[k + 1] \in D
  BY <1>1
<1> HIDE DEF a, z
<1> DEFINE e == s[k + 1]
<1> HIDE DEF e
<1>5. /\ Append(a, e) \in Seq(D) /\ Len(Append(a, e)) = k + 1
      /\ \A i \in 1..k : Append(a, e)[i] = a[i]
      /\ Append(a, e)[k + 1] = e
  BY <1>2, <1>4, AppendProperties DEF e
<1>6. ASSUME NEW i \in 1..(k + 1) PROVE Append(a, e)[i] = z[i]
  <2>1. CASE i = k + 1
    BY <1>3, <1>5, <2>1 DEF e
  <2>2. CASE i # k + 1
    <3>1. i \in 1..k
      BY <1>1, <2>2
    <3> QED
      BY <1>2, <1>3, <1>5, <3>1
  <2> QED
    BY <2>1, <2>2
<1>7. Append(a, e) = z
  BY <1>3, <1>5, <1>6, SeqEqual
<1> QED
  BY <1>7 DEF a, z, e

\* The reader of labels, label by label.
LEMMA LabelsStep ==
  ASSUME NEW labels \in Seq(ByteLabel), NEW b \in Seq(Byte), NEW c \in Seq(Byte),
         Starts(b, FlattenSeq(LabelWords(labels)) \o c)
  PROVE  /\ LabelsRead(b, labels, 0) = Read(<<>>, b)
         /\ \A k \in 0..(Len(labels) - 1) :
              LabelsRead(b, labels, k + 1) = Then(LabelsRead(b, labels, k), GetLabel)
<1> DEFINE w == LabelWords(labels)
<1>1. /\ w \in Seq(Seq(Byte)) /\ Len(w) = Len(labels) /\ Len(w) \in Nat
      /\ \A i \in 1..Len(labels) : labels[i] \in ByteLabel /\ w[i] = LabelBytes(labels[i])
  BY LabelWordsType
<1>2. Starts(b, FlattenSeq(w) \o c)
  OBVIOUS
<1> HIDE DEF w
<1>3. LabelsRead(b, labels, 0) = Read(<<>>, b)
  <2>1. Flat(w, 0) = <<>>
    BY <1>1, FlatStep
  <2>2. Len(<<>>) = 0 /\ Len(b) \in Nat /\ 0 <= Len(b) /\ 0 + 1 = 1
    OBVIOUS
  <2>3. SubSeq(b, 1, Len(b)) = b /\ SubSeq(labels, 1, 0) = <<>>
    BY SubSeqFull, SubSeqEmpty
  <2>4. Rest(b, w, 0) = b
    BY <2>1, <2>2, <2>3 DEF Rest
  <2> QED
    BY <2>1, <2>2, <2>3, <2>4, Zenon DEF LabelsRead, w
<1>4. ASSUME NEW k \in 0..(Len(labels) - 1)
      PROVE  LabelsRead(b, labels, k + 1) = Then(LabelsRead(b, labels, k), GetLabel)
  <2>1. k \in 0..(Len(w) - 1) /\ k + 1 \in 1..Len(labels) /\ k \in 0..Len(w) /\ k < Len(w)
    BY <1>1
  <2>2. labels[k + 1] \in ByteLabel /\ w[k + 1] = LabelBytes(labels[k + 1]) /\ w[k + 1] \in Seq(Byte)
    BY <1>1, <2>1, LabelBytesType
  <2>3. Fail("eof").err # "nil"
    BY ReadParts
  <2>4. CASE ~(Len(Flat(w, k)) <= Len(b))
    <3>1. Flat(w, k) \in Seq(Byte) /\ Flat(w, k + 1) = Flat(w, k) \o w[k + 1]
      BY <1>1, <2>1, FlatStep
    <3>2. Len(Flat(w, k + 1)) = Len(Flat(w, k)) + Len(w[k + 1])
      BY <2>2, <3>1, ConcatProperties
    <3>3. Len(Flat(w, k)) \in Nat /\ Len(w[k + 1]) \in Nat /\ Len(b) \in Nat
      BY <2>2, <3>1
    <3>4. ~(Len(Flat(w, k + 1)) <= Len(b))
      BY <2>4, <3>2, <3>3
    <3>5. LabelsRead(b, labels, k) = Fail("eof") /\ LabelsRead(b, labels, k + 1) = Fail("eof")
      BY <2>4, <3>4, Zenon DEF LabelsRead, w
    <3> QED
      BY <2>3, <3>5, Zenon DEF Then
  <2>5. CASE Len(Flat(w, k)) <= Len(b)
    <3> DEFINE r == Rest(b, w, k)
               v == SubSeq(labels, 1, k)
    <3>1. /\ r \in Seq(Byte)
          /\ \/ Len(r) < Len(w[k + 1]) /\ Starts(r, w[k + 1]) /\ ~(Len(Flat(w, k + 1)) <= Len(b))
             \/ /\ Len(Flat(w, k + 1)) <= Len(b)
                /\ Rest(b, w, k + 1) \in Seq(Byte) /\ r = w[k + 1] \o Rest(b, w, k + 1)
      BY <1>1, <1>2, <2>1, <2>5, CutAtWord
    <3>2. LabelsRead(b, labels, k) = Read(v, r)
      BY <2>5, Zenon DEF LabelsRead, w
    <3> HIDE DEF r, v
    <3>3. Then(LabelsRead(b, labels, k), GetLabel) = GetLabel(Read(v, r))
      <4>1. Read(v, r).err = "nil"
        BY ReadParts
      <4> QED
        BY <3>2, <4>1, Zenon DEF Then
    <3>4. CASE Len(r) < Len(w[k + 1]) /\ Starts(r, w[k + 1]) /\ ~(Len(Flat(w, k + 1)) <= Len(b))
      <4>1. GetLabel(Read(v, r)) = Fail("eof")
        BY <2>2, <3>1, <3>4, GetLabelTorn
      <4>2. LabelsRead(b, labels, k + 1) = Fail("eof")
        BY <3>4, Zenon DEF LabelsRead, w
      <4> QED
        BY <3>3, <4>1, <4>2
    <3>5. CASE /\ Len(Flat(w, k + 1)) <= Len(b)
               /\ Rest(b, w, k + 1) \in Seq(Byte) /\ r = w[k + 1] \o Rest(b, w, k + 1)
      <4>1. GetLabel(Read(v, r)) = Read(Append(v, labels[k + 1]), Rest(b, w, k + 1))
        BY <2>2, <3>5, GetLabelWhole
      <4>2. Append(v, labels[k + 1]) = SubSeq(labels, 1, k + 1)
        BY OneMore DEF v
      <4>3. LabelsRead(b, labels, k + 1) = Read(SubSeq(labels, 1, k + 1), Rest(b, w, k + 1))
        BY <3>5, Zenon DEF LabelsRead, w
      <4> QED
        BY <3>3, <4>1, <4>2, <4>3
    <3> QED
      BY <3>1, <3>4, <3>5
  <2> QED
    BY <2>4, <2>5
<1> QED
  BY <1>3, <1>4

\* The loop of the reader of labels.
LabelLoop(f, b, n) == f = [i \in 0..n |-> IF i = 0 THEN Read(<<>>, b) ELSE Then(f[i - 1], GetLabel)]

\* It reads all labels, or finds the end of the file.
LEMMA GetLabelsCut ==
  ASSUME NEW labels \in Seq(ByteLabel), NEW b \in Seq(Byte), NEW c \in Seq(Byte),
         Starts(b, FlattenSeq(LabelWords(labels)) \o c)
  PROVE  GetLabels(b, Len(labels)) = LabelsRead(b, labels, Len(labels))
<1> DEFINE n == Len(labels)
           g == [i \in 0..n |-> LabelsRead(b, labels, i)]
<1>1. n \in Nat
  OBVIOUS
<1>2. /\ LabelsRead(b, labels, 0) = Read(<<>>, b)
      /\ \A k \in 0..(n - 1) : LabelsRead(b, labels, k + 1) = Then(LabelsRead(b, labels, k), GetLabel)
  BY LabelsStep
<1> HIDE DEF n
<1>3. \A i \in 0..n : g[i] = IF i = 0 THEN Read(<<>>, b) ELSE Then(g[i - 1], GetLabel)
  <2> TAKE i \in 0..n
  <2>1. g[i] = LabelsRead(b, labels, i)
    OBVIOUS
  <2>2. CASE i = 0
    BY <1>2, <2>1, <2>2
  <2>3. CASE i # 0
    <3>1. i - 1 \in 0..(n - 1) /\ i - 1 \in 0..n /\ (i - 1) + 1 = i
      BY <1>1, <2>3
    <3>2. g[i - 1] = LabelsRead(b, labels, i - 1)
      BY <3>1
    <3>3. LabelsRead(b, labels, (i - 1) + 1) = Then(LabelsRead(b, labels, i - 1), GetLabel)
      BY <1>2, <3>1, Zenon
    <3> HIDE DEF g
    <3>4. LabelsRead(b, labels, i) = Then(g[i - 1], GetLabel)
      BY <3>1, <3>2, <3>3
    <3> QED
      BY <2>1, <2>3, <3>4, Zenon
  <2> QED
    BY <2>2, <2>3
<1>4. LabelLoop(g, b, n)
  <2>1. g = [i \in 0..n |-> g[i]]
    OBVIOUS
  <2> HIDE DEF g
  <2>2. [i \in 0..n |-> g[i]] = [i \in 0..n |-> IF i = 0 THEN Read(<<>>, b) ELSE Then(g[i - 1], GetLabel)]
    BY <1>3, Zenon
  <2> QED
    BY <2>1, <2>2, Zenon DEF LabelLoop
<1> DEFINE f == CHOOSE f : LabelLoop(f, b, n)
<1>5. LabelLoop(f, b, n)
  <2> HIDE DEF g
  <2> QED
    BY <1>4, Zenon
<1>6. GetLabels(b, n) = f[n]
  BY Zenon DEF GetLabels, LabelLoop
<1>7. g[n] = LabelsRead(b, labels, n) /\ n \in 0..n
  BY <1>1
<1> HIDE DEF f, g
<1> DEFINE S == {i \in 0..n : f[i] # g[i]}
<1>8. S = {}
  <2> SUFFICES ASSUME S # {} PROVE FALSE
    OBVIOUS
  <2>1. PICK i \in S : \A j \in S : i <= j
    <3>1. S \in SUBSET Nat
      BY <1>1
    <3> HIDE DEF S
    <3> QED
      BY <3>1, LeastNat
  <2>2. i \in 0..n /\ f[i] # g[i]
    BY <2>1
  <2>3. f[i] = IF i = 0 THEN Read(<<>>, b) ELSE Then(f[i - 1], GetLabel)
    BY <1>5, <2>2, Zenon DEF LabelLoop
  <2>4. g[i] = IF i = 0 THEN Read(<<>>, b) ELSE Then(g[i - 1], GetLabel)
    BY <1>4, <2>2, Zenon DEF LabelLoop
  <2>5. i # 0 => i - 1 \in 0..n /\ ~(i <= i - 1)
    BY <1>1, <2>2
  <2>6. i # 0 => f[i - 1] = g[i - 1]
    <3>1. i # 0 => i - 1 \notin S
      <4> HIDE DEF S
      <4> QED
        BY <2>1, <2>5, Zenon
    <3> QED
      BY <2>5, <3>1
  <2> QED
    BY <2>2, <2>3, <2>4, <2>6, Zenon
<1>9. f[n] = g[n]
  BY <1>7, <1>8, Zenon
<1> QED
  BY <1>6, <1>7, <1>9 DEF n

ByteLabels == {labels \in Seq(ByteLabel) : Len(labels) < Modulus}

\* What is written for a record.
RecordBytes(delta, labels) == PutUvarint(delta) \o PutLabels(labels)

\* A record is a distance, a count and the labels.
LEMMA RecordBytesType ==
  ASSUME NEW delta \in 0..(Modulus - 1), NEW labels \in ByteLabels
  PROVE  LET x == PutUvarint(delta)
             y == PutUvarint(Len(labels))
             z == FlattenSeq(LabelWords(labels))
         IN  /\ labels \in Seq(ByteLabel) /\ Len(labels) \in 0..(Modulus - 1)
             /\ x \in Seq(Byte) /\ y \in Seq(Byte) /\ z \in Seq(Byte)
             /\ Len(x) >= 1
             /\ y \o z \in Seq(Byte) /\ RecordBytes(delta, labels) = x \o (y \o z)
             /\ RecordBytes(delta, labels) \in Seq(Byte) /\ Len(RecordBytes(delta, labels)) >= 1
<1> DEFINE x == PutUvarint(delta)
           y == PutUvarint(Len(labels))
           w == LabelWords(labels)
           z == FlattenSeq(w)
<1>1. labels \in Seq(ByteLabel) /\ Len(labels) \in 0..(Modulus - 1)
  BY VarintLen DEF ByteLabels
<1>2. x \in Seq(Byte) /\ Len(x) >= 1
  BY PutUvarintParts, UvarintLenFits
<1>3. y \in Seq(Byte)
  BY <1>1, PutUvarintParts
<1>4. z \in Seq(Byte)
  <2>1. w \in Seq(Seq(Byte))
    BY <1>1, LabelWordsType
  <2> HIDE DEF w
  <2>2. Flat(w, Len(w)) \in Seq(Byte)
    <3>1. Len(w) \in 0..Len(w)
      BY <2>1
    <3> QED
      BY <2>1, <3>1, FlatStep
  <2>3. SubSeq(w, 1, Len(w)) = w
    BY <2>1, SubSeqFull
  <2> QED
    BY <2>2, <2>3 DEF Flat
<1>5. RecordBytes(delta, labels) = x \o (y \o z)
  BY DEF RecordBytes, PutLabels, LabelWords, LabelBytes
<1> HIDE DEF x, y, z
<1>6. y \o z \in Seq(Byte)
  BY <1>3, <1>4, ConcatProperties
<1> DEFINE t == y \o z
<1> HIDE DEF t
<1>7. x \o t \in Seq(Byte) /\ Len(x \o t) = Len(x) + Len(t) /\ Len(t) \in Nat /\ Len(x) \in Nat
  BY <1>2, <1>6, ConcatProperties DEF t
<1>8. Len(x \o t) >= 1
  BY <1>2, <1>7
<1> QED
  BY <1>1, <1>2, <1>3, <1>4, <1>5, <1>6, <1>7, <1>8, Zenon DEF x, y, z, w, t

\* All labels of a file that holds them, and all words.
LEMMA GetLabelsWhole ==
  ASSUME NEW labels \in Seq(ByteLabel), NEW c \in Seq(Byte)
  PROVE  GetLabels(FlattenSeq(LabelWords(labels)) \o c, Len(labels)) = Read(labels, c)
<1> DEFINE w == LabelWords(labels)
           z == FlattenSeq(w)
           b == z \o c
<1>1. w \in Seq(Seq(Byte)) /\ Len(w) = Len(labels) /\ Len(w) \in 0..Len(w)
  BY LabelWordsType
<1>2. Flat(w, Len(w)) = z
  <2> HIDE DEF w
  <2>1. SubSeq(w, 1, Len(w)) = w
    BY <1>1, SubSeqFull
  <2> QED
    BY <2>1 DEF Flat
<1>3. z \in Seq(Byte)
  <2> HIDE DEF w, z
  <2> QED
    BY <1>1, <1>2, FlatStep
<1> HIDE DEF w, z
<1>4. b \in Seq(Byte) /\ Len(b) = Len(z) + Len(c) /\ Len(z) \in Nat /\ Len(c) \in Nat
  BY <1>3, ConcatProperties
<1>5. SubSeq(b, Len(z) + 1, Len(b)) = c
  BY <1>3, RestOfConcat
<1> HIDE DEF b
<1>6. Starts(b, b)
  BY <1>4 DEF Starts
<1>7. GetLabels(b, Len(labels)) = LabelsRead(b, labels, Len(labels))
  BY <1>4, <1>6, GetLabelsCut DEF b, z, w
<1>8. Len(Flat(w, Len(labels))) <= Len(b) /\ Rest(b, w, Len(labels)) = c
  BY <1>1, <1>2, <1>4, <1>5 DEF Rest
<1>9. SubSeq(labels, 1, Len(labels)) = labels
  BY SubSeqFull
<1>10. LabelsRead(b, labels, Len(labels)) = Read(labels, c)
  BY <1>8, <1>9, Zenon DEF LabelsRead, w
<1> QED
  BY <1>7, <1>10 DEF b, z, w

\* A file that ends within the labels.
LEMMA GetLabelsTorn ==
  ASSUME NEW labels \in Seq(ByteLabel), NEW b \in Seq(Byte),
         Starts(b, FlattenSeq(LabelWords(labels))), Len(b) < Len(FlattenSeq(LabelWords(labels)))
  PROVE  GetLabels(b, Len(labels)) = Fail("eof")
<1> DEFINE w == LabelWords(labels)
           z == FlattenSeq(w)
<1>1. w \in Seq(Seq(Byte)) /\ Len(w) = Len(labels) /\ Len(w) \in 0..Len(w)
  BY LabelWordsType
<1>2. Flat(w, Len(w)) = z
  <2> HIDE DEF w
  <2>1. SubSeq(w, 1, Len(w)) = w
    BY <1>1, SubSeqFull
  <2> QED
    BY <2>1 DEF Flat
<1>3. z \in Seq(Byte)
  <2> HIDE DEF w, z
  <2> QED
    BY <1>1, <1>2, FlatStep
<1>4. Starts(b, z) /\ Len(b) < Len(z)
  OBVIOUS
<1> HIDE DEF w, z
<1>5. z \o <<>> = z /\ <<>> \in Seq(Byte)
  BY <1>3, ConcatEmptySeq
<1>6. Starts(b, z \o <<>>)
  BY <1>4, <1>5
<1>7. GetLabels(b, Len(labels)) = LabelsRead(b, labels, Len(labels))
  BY <1>5, <1>6, GetLabelsCut DEF z, w
<1>8. ~(Len(Flat(w, Len(labels))) <= Len(b))
  BY <1>1, <1>2, <1>3, <1>4
<1> QED
  BY <1>7, <1>8, Zenon DEF LabelsRead, w

\* After a record, the reader returns it and leaves the rest.
LEMMA GetRecordWhole ==
  ASSUME NEW delta \in 0..(Modulus - 1), NEW labels \in ByteLabels, NEW c \in Seq(Byte), NEW prev
  PROVE  GetRecord(RecordBytes(delta, labels) \o c, prev)
           = Read([id |-> Unsigned(prev + delta), labels |-> labels], c)
<1> DEFINE x == PutUvarint(delta)
           y == PutUvarint(Len(labels))
           z == FlattenSeq(LabelWords(labels))
           t == z \o c
           s == y \o t
<1>1. /\ labels \in Seq(ByteLabel) /\ Len(labels) \in 0..(Modulus - 1)
      /\ x \in Seq(Byte) /\ y \in Seq(Byte) /\ z \in Seq(Byte)
      /\ y \o z \in Seq(Byte) /\ RecordBytes(delta, labels) = x \o (y \o z)
  BY RecordBytesType
<1>2. GetLabels(t, Len(labels)) = Read(labels, c)
  BY <1>1, GetLabelsWhole
<1> HIDE DEF z
<1>3. t \in Seq(Byte)
  BY <1>1, ConcatProperties
<1>4. RecordBytes(delta, labels) \o c = x \o s
  <2>1. (y \o z) \o c = s
    <3>1. \A p \in Seq(Byte) : (y \o p) \o c = y \o (p \o c)
      BY <1>1, Regroup, Zenon
    <3> QED
      BY <1>1, <3>1, Zenon
  <2>2. (x \o (y \o z)) \o c = x \o ((y \o z) \o c)
    <3>1. \A p \in Seq(Byte) : (x \o p) \o c = x \o (p \o c)
      BY <1>1, Regroup, Zenon
    <3> QED
      BY <1>1, <3>1, Zenon
  <2> HIDE DEF x, y, s
  <2> QED
    BY <1>1, <2>1, <2>2
<1>5. GetUvarint(s) = Read(Len(labels), t)
  <2> HIDE DEF t
  <2> QED
    BY <1>1, <1>3, GetUvarintWhole
<1>6. GetUvarint(x \o s) = Read(delta, s)
  <2>1. s \in Seq(Byte)
    <3> HIDE DEF y, t
    <3> QED
      BY <1>1, <1>3, ConcatProperties
  <2> HIDE DEF s
  <2> QED
    BY <2>1, GetUvarintWhole
<1> HIDE DEF x, y, t, s
<1>7. LET r == GetUvarint(x \o s) IN r.err = "nil" /\ r.v = delta /\ r.rest = s
  BY <1>6, ReadParts
<1>8. LET r == GetUvarint(s) IN r.err = "nil" /\ r.v = Len(labels) /\ r.rest = t
  BY <1>5, ReadParts
<1>9. LET r == GetLabels(t, Len(labels)) IN r.err = "nil" /\ r.v = labels /\ r.rest = c
  BY <1>2, ReadParts
<1>10. GetRecord(x \o s, prev) = Read([id |-> Unsigned(prev + delta), labels |-> labels], c)
  BY <1>7, <1>8, <1>9, Zenon DEF GetRecord, Then
<1> QED
  BY <1>4, <1>10

\* After a part of a record, it fails with "eof".
LEMMA GetRecordTorn ==
  ASSUME NEW delta \in 0..(Modulus - 1), NEW labels \in ByteLabels, NEW b \in Seq(Byte), NEW prev,
         Len(b) < Len(RecordBytes(delta, labels)), Starts(b, RecordBytes(delta, labels))
  PROVE  GetRecord(b, prev) = Fail("eof")
<1> DEFINE x == PutUvarint(delta)
           y == PutUvarint(Len(labels))
           z == FlattenSeq(LabelWords(labels))
           t == y \o z
<1>1. /\ labels \in Seq(ByteLabel) /\ Len(labels) \in 0..(Modulus - 1)
      /\ x \in Seq(Byte) /\ y \in Seq(Byte) /\ z \in Seq(Byte)
      /\ t \in Seq(Byte) /\ RecordBytes(delta, labels) = x \o t
  BY RecordBytesType
<1>2. Fail("eof").err = "eof" /\ "eof" # "nil"
  BY ReadParts
<1> HIDE DEF x, y, z, t
<1>3. \/ Len(b) < Len(x) /\ Starts(b, x)
      \/ \E d \in Seq(Byte) : b = x \o d /\ Starts(d, t)
  BY <1>1, CutOfConcat
<1>4. CASE Len(b) < Len(x) /\ Starts(b, x)
  <2>1. GetUvarint(b) = Fail("eof")
    BY <1>4, GetUvarintTorn DEF x
  <2> QED
    BY <1>2, <2>1, Zenon DEF GetRecord, Then
<1>5. ASSUME NEW d \in Seq(Byte), b = x \o d, Starts(d, t)
      PROVE  GetRecord(b, prev) = Fail("eof")
  <2>1. GetUvarint(b) = Read(delta, d)
    BY <1>5, GetUvarintWhole DEF x
  <2>2. LET r == GetUvarint(b) IN r.err = "nil" /\ r.v = delta /\ r.rest = d
    BY <2>1, ReadParts
  <2>3. Len(b) = Len(x) + Len(d) /\ Len(x \o t) = Len(x) + Len(t)
    BY <1>1, <1>5, ConcatProperties
  <2>4. Len(d) < Len(t)
    <3>1. Len(x) \in Nat /\ Len(d) \in Nat /\ Len(t) \in Nat
      BY <1>1
    <3> QED
      BY <1>1, <2>3, <3>1
  <2>5. \/ Len(d) < Len(y) /\ Starts(d, y)
        \/ \E e \in Seq(Byte) : d = y \o e /\ Starts(e, z)
    BY <1>1, <1>5, CutOfConcat DEF t
  <2>6. CASE Len(d) < Len(y) /\ Starts(d, y)
    <3>1. GetUvarint(d) = Fail("eof")
      BY <1>1, <2>6, GetUvarintTorn DEF y
    <3> QED
      BY <1>2, <2>2, <3>1, Zenon DEF GetRecord, Then
  <2>7. ASSUME NEW e \in Seq(Byte), d = y \o e, Starts(e, z)
        PROVE  GetRecord(b, prev) = Fail("eof")
    <3>1. GetUvarint(d) = Read(Len(labels), e)
      BY <1>1, <2>7, GetUvarintWhole DEF y
    <3>2. LET r == GetUvarint(d) IN r.err = "nil" /\ r.v = Len(labels) /\ r.rest = e
      BY <3>1, ReadParts
    <3>3. Len(d) = Len(y) + Len(e) /\ Len(t) = Len(y) + Len(z)
      BY <1>1, <2>7, ConcatProperties DEF t
    <3>4. Len(e) < Len(z)
      <4>1. Len(y) \in Nat /\ Len(e) \in Nat /\ Len(z) \in Nat
        BY <1>1
      <4> QED
        BY <2>4, <3>3, <4>1
    <3>5. GetLabels(e, Len(labels)) = Fail("eof")
      BY <1>1, <2>7, <3>4, GetLabelsTorn DEF z
    <3> QED
      BY <1>2, <2>2, <3>2, <3>5, Zenon DEF GetRecord, Then
  <2> QED
    BY <2>5, <2>6, <2>7
<1> QED
  BY <1>3, <1>4, <1>5

-----------------------------------------------------------------------------
(* The IDs of a segment in their order.                                     *)

Ascends(ids, n) == \A i, j \in 1..n : i < j => ids[i] < ids[j]

\* A bounded set of numbers can be listed in ascending order.
LEMMA CanBeListed ==
  ASSUME NEW M \in Nat, NEW S \in SUBSET 0..M
  PROVE  /\ IsFiniteSet(S) /\ Cardinality(S) \in Nat
         /\ \E ids \in [1..Cardinality(S) -> S] : Ascends(ids, Cardinality(S))
<1> DEFINE Listed(T) == \E ids \in [1..Cardinality(T) -> T] : Ascends(ids, Cardinality(T))
           B == {n \in Nat : \E T \in SUBSET 0..M : Cardinality(T) = n /\ ~Listed(T)}
<1>1. \A T \in SUBSET 0..M : IsFiniteSet(T) /\ Cardinality(T) \in Nat
  <2> TAKE T \in SUBSET 0..M
  <2>1. IsFiniteSet(0..M)
    BY FS_Interval
  <2>2. IsFiniteSet(T)
    BY <2>1, FS_Subset
  <2> QED
    BY <2>2, FS_CardinalityType
<1> HIDE DEF Listed
<1> SUFFICES ASSUME B # {} PROVE FALSE
  <2>1. Listed(S)
    BY <1>1
  <2> QED
    BY <1>1, <2>1 DEF Listed
<1>2. PICK n \in B : \A m \in B : n <= m
  <2>1. B \in SUBSET Nat
    OBVIOUS
  <2> HIDE DEF B
  <2> QED
    BY <2>1, LeastNat
<1>3. PICK T \in SUBSET 0..M : Cardinality(T) = n /\ ~Listed(T)
  BY <1>2
<1>4. n \in Nat /\ IsFiniteSet(T)
  BY <1>1, <1>2
<1>5. T # {}
  <2> SUFFICES ASSUME T = {} PROVE FALSE
    OBVIOUS
  <2>1. Cardinality(T) = 0
    BY FS_EmptySet
  <2> DEFINE e == [i \in 1..0 |-> i]
  <2>2. e \in [1..0 -> T] /\ Ascends(e, 0)
    BY DEF Ascends
  <2> HIDE DEF e
  <2>3. Listed(T)
    BY <2>1, <2>2 DEF Listed
  <2> QED
    BY <1>3, <2>3
<1>6. PICK x \in T : \A y \in T : y <= x
  BY <1>5, GreatestNat
<1> DEFINE R == T \ {x}
           m == n - 1
<1>7. R \in SUBSET 0..M /\ Cardinality(R) = m
  BY <1>3, <1>4, FS_RemoveElement
<1>8. m \in Nat /\ m < n /\ m + 1 = n /\ 1..n = 1..m \cup {n} /\ n \notin 1..m /\ n \in 1..n
  <2>1. m \in Nat
    BY <1>1, <1>7
  <2> QED
    BY <1>4, <2>1
<1>9. Listed(R)
  <2>1. m \notin B
    <3>1. ~(n <= m)
      BY <1>4, <1>8
    <3> HIDE DEF B, m
    <3> QED
      BY <1>2, <3>1, Zenon
  <2> HIDE DEF R, m
  <2> QED
    BY <1>7, <1>8, <2>1
<1>10. PICK f \in [1..m -> R] : Ascends(f, m)
  BY <1>7, <1>9 DEF Listed
<1> DEFINE g == [i \in 1..n |-> IF i = n THEN x ELSE f[i]]
<1>11. g \in [1..n -> T]
  BY <1>8
<1>12. g[n] = x /\ \A i \in 1..m : g[i] = f[i] /\ f[i] \in T /\ f[i] # x
  <2>1. g[n] = x
    BY <1>8
  <2>2. \A i \in 1..m : i \in 1..n /\ i # n
    BY <1>8
  <2>3. \A i \in 1..m : f[i] \in R
    OBVIOUS
  <2> QED
    BY <2>1, <2>2, <2>3
<1> HIDE DEF g
<1>13. Ascends(g, n)
  <2> SUFFICES ASSUME NEW i \in 1..n, NEW j \in 1..n, i < j PROVE g[i] < g[j]
    BY DEF Ascends
  <2>1. i \in 1..m
    BY <1>4
  <2>2. CASE j = n
    <3>1. f[i] <= x /\ f[i] # x /\ f[i] \in Nat /\ x \in Nat
      <4>1. f[i] \in T /\ f[i] # x
        BY <1>12, <2>1, Zenon
      <4>2. f[i] <= x
        BY <1>6, <4>1, Zenon
      <4>3. \A y \in T : y \in Nat
        OBVIOUS
      <4> QED
        BY <4>1, <4>2, <4>3, Zenon
    <3> QED
      BY <1>12, <2>1, <2>2, <3>1
  <2>3. CASE j # n
    <3>1. j \in 1..m
      BY <1>4, <2>3
    <3>2. f[i] < f[j]
      BY <1>10, <2>1, <3>1 DEF Ascends
    <3> QED
      BY <1>12, <2>1, <3>1, <3>2
  <2> QED
    BY <2>2, <2>3
<1>14. Listed(T)
  BY <1>3, <1>11, <1>13 DEF Listed
<1> QED
  BY <1>3, <1>14

\* The records that can be written.
ByteEntries(entries) ==
  /\ DOMAIN entries \subseteq 0..(Modulus - 1)
  /\ \A id \in DOMAIN entries : entries[id] \in ByteLabels

\* The distance of record i from the one before it.
Delta(entries, i) ==
  LET ids == SortedIDs(entries) IN IF i = 1 THEN ids[1] ELSE ids[i] - ids[i - 1]

\* The IDs are listed in ascending order.
LEMMA SortedIDsType ==
  ASSUME NEW entries, ByteEntries(entries)
  PROVE  LET ids == SortedIDs(entries)
         IN  /\ ids \in Seq(DOMAIN entries) /\ Len(ids) \in Nat
             /\ Ascends(ids, Len(ids))
             /\ \A i \in 1..Len(ids) : /\ ids[i] \in DOMAIN entries
                                       /\ ids[i] \in 0..(Modulus - 1)
                                       /\ entries[ids[i]] \in ByteLabels
<1> DEFINE ids == SortedIDs(entries)
           S == DOMAIN entries
           n == Cardinality(S)
           P(s) == \A i, j \in DOMAIN s : i < j => s[i] < s[j]
<1>1. Modulus \in Nat /\ Modulus > 0
  <2>1. 128^(MaxVarintLen - 1) \in Nat /\ 128^(MaxVarintLen - 1) > 0
    <3>1. MaxVarintLen - 1 \in 0..MaxVarintLen
      BY VarintLen
    <3> QED
      BY <3>1, VarintPowers
  <2> QED
    BY <2>1, VarintAssumption
<1>2. n \in Nat /\ \E s \in [1..n -> S] : Ascends(s, n)
  <2>1. Modulus - 1 \in Nat /\ S \in SUBSET 0..(Modulus - 1)
    BY <1>1 DEF ByteEntries
  <2> QED
    BY <2>1, CanBeListed
<1>3. ids \in [1..n -> S] /\ P(ids)
  <2>1. \E s \in [1..n -> S] : P(s)
    <3>1. PICK s \in [1..n -> S] : Ascends(s, n)
      BY <1>2
    <3>2. DOMAIN s = 1..n
      OBVIOUS
    <3>3. P(s)
      BY <3>1, <3>2, Zenon DEF Ascends
    <3> HIDE DEF P
    <3> QED
      BY <3>3
  <2>2. ids = CHOOSE s \in [1..n -> S] : P(s)
    BY Zenon DEF SortedIDs
  <2> HIDE DEF P, ids
  <2> QED
    BY <2>1, <2>2, Zenon
<1> HIDE DEF ids
<1>4. ids \in Seq(S) /\ Len(ids) = n /\ DOMAIN ids = 1..n
  BY <1>2, <1>3
<1>5. Ascends(ids, n)
  BY <1>3, <1>4, Zenon DEF Ascends
<1>6. \A i \in 1..n : ids[i] \in S
  BY <1>3
<1>7. \A i \in 1..n : ids[i] \in 0..(Modulus - 1) /\ entries[ids[i]] \in ByteLabels
  BY <1>6 DEF ByteEntries
<1> QED
  BY <1>2, <1>4, <1>5, <1>6, <1>7, Zenon DEF ids

\* The records of a segment: each is found from the ID before it.
LEMMA RecordsType ==
  ASSUME NEW entries, ByteEntries(entries)
  PROVE  LET ids == SortedIDs(entries)
             w == PutRecords(entries)
         IN  /\ w \in Seq(Seq(Byte)) /\ Len(w) = Len(ids)
             /\ \A i \in 1..Len(ids) :
                  /\ Delta(entries, i) \in 0..(Modulus - 1)
                  /\ (IF i = 1 THEN 0 ELSE ids[i - 1]) + Delta(entries, i) = ids[i]
                  /\ w[i] = RecordBytes(Delta(entries, i), entries[ids[i]])
                  /\ w[i] \in Seq(Byte) /\ Len(w[i]) >= 1
<1> DEFINE ids == SortedIDs(entries)
           n == Len(ids)
           w == PutRecords(entries)
           d(i) == Delta(entries, i)
<1>1. /\ ids \in Seq(DOMAIN entries) /\ n \in Nat /\ Ascends(ids, n)
      /\ \A i \in 1..n : ids[i] \in 0..(Modulus - 1) /\ entries[ids[i]] \in ByteLabels
  BY SortedIDsType
<1>2. DOMAIN ids = 1..n
  BY <1>1
<1>3. w = [i \in 1..n |-> RecordBytes(d(i), entries[ids[i]])]
  BY <1>2, Zenon DEF PutRecords, RecordBytes, Delta
<1>4. ASSUME NEW i \in 1..n
      PROVE  d(i) \in 0..(Modulus - 1) /\ (IF i = 1 THEN 0 ELSE ids[i - 1]) + d(i) = ids[i]
  <2>1. d(i) = IF i = 1 THEN ids[1] ELSE ids[i] - ids[i - 1]
    BY DEF Delta
  <2> HIDE DEF d, ids
  <2>2. CASE i = 1
    BY <1>1, <2>1, <2>2, VarintLen
  <2>3. CASE i # 1
    <3>1. i - 1 \in 1..n /\ i - 1 < i
      BY <1>1, <2>3
    <3>2. ids[i - 1] < ids[i]
      BY <1>1, <3>1 DEF Ascends
    <3>3. ids[i - 1] \in 0..(Modulus - 1) /\ ids[i] \in 0..(Modulus - 1)
      BY <1>1, <3>1
    <3> QED
      BY <2>1, <2>3, <3>2, <3>3, VarintLen
  <2> QED
    BY <2>2, <2>3
<1> HIDE DEF d, ids, n, w
<1>5. ASSUME NEW i \in 1..n
      PROVE  RecordBytes(d(i), entries[ids[i]]) \in Seq(Byte) /\ Len(RecordBytes(d(i), entries[ids[i]])) >= 1
  BY <1>1, <1>4, RecordBytesType
<1>6. w \in [1..n -> Seq(Byte)]
  BY <1>3, <1>5
<1>7. w \in Seq(Seq(Byte)) /\ Len(w) = n
  BY <1>1, <1>6
<1>8. \A i \in 1..n : w[i] = RecordBytes(d(i), entries[ids[i]])
  BY <1>3
<1>9. \A i \in 1..n : w[i] \in Seq(Byte) /\ Len(w[i]) >= 1
  BY <1>5, <1>8
<1> QED
  BY <1>4, <1>7, <1>8, <1>9, Zenon DEF d, ids, n, w

-----------------------------------------------------------------------------
(* Replay.                                                                  *)

\* Words that are not empty make files longer.
LEMMA FlatGrows ==
  ASSUME NEW w \in Seq(Seq(Byte)), \A i \in 1..Len(w) : Len(w[i]) >= 1,
         NEW k \in 0..Len(w), NEW j \in 0..k
  PROVE  Len(Flat(w, j)) \in Nat /\ Len(Flat(w, k)) \in Nat /\ Len(Flat(w, j)) + (k - j) <= Len(Flat(w, k))
<1> DEFINE f(i) == Len(Flat(w, i))
           S == {i \in j..Len(w) : ~(f(j) + (i - j) <= f(i))}
<1>1. Len(w) \in Nat /\ j \in Nat /\ k \in Nat /\ j <= k /\ k <= Len(w)
  OBVIOUS
<1>2. \A i \in 0..Len(w) : f(i) \in Nat
  <2> TAKE i \in 0..Len(w)
  <2>1. Flat(w, i) \in Seq(Byte)
    BY FlatStep
  <2> QED
    BY <2>1
<1>3. ASSUME NEW i \in 0..Len(w), i < Len(w) PROVE f(i + 1) >= f(i) + 1
  <2>1. Flat(w, i) \in Seq(Byte) /\ Flat(w, i + 1) = Flat(w, i) \o w[i + 1]
    BY <1>3, FlatStep
  <2>2. i + 1 \in 1..Len(w)
    BY <1>3
  <2>3. w[i + 1] \in Seq(Byte) /\ Len(w[i + 1]) >= 1
    BY <2>2
  <2>4. Len(Flat(w, i) \o w[i + 1]) = Len(Flat(w, i)) + Len(w[i + 1])
    BY <2>1, <2>3, ConcatProperties
  <2>5. Len(w[i + 1]) \in Nat /\ Len(Flat(w, i)) \in Nat
    BY <2>1, <2>3
  <2> QED
    BY <2>1, <2>3, <2>4, <2>5
<1> HIDE DEF f
<1>4. S = {}
  <2> SUFFICES ASSUME S # {} PROVE FALSE
    OBVIOUS
  <2>1. PICK i \in S : \A h \in S : i <= h
    <3>1. S \in SUBSET Nat
      BY <1>1
    <3> HIDE DEF S
    <3> QED
      BY <3>1, LeastNat
  <2>2. i \in j..Len(w) /\ ~(f(j) + (i - j) <= f(i))
    BY <2>1
  <2>3. j \in 0..Len(w) /\ f(j) \in Nat
    BY <1>1, <1>2
  <2>4. i # j
    BY <1>1, <2>2, <2>3
  <2>5. i - 1 \in j..Len(w) /\ i - 1 \in 0..Len(w) /\ i - 1 < Len(w) /\ (i - 1) + 1 = i /\ ~(i <= i - 1)
    BY <1>1, <2>2, <2>4
  <2>6. i - 1 \notin S
    <3> HIDE DEF S
    <3> QED
      BY <2>1, <2>5, Zenon
  <2>7. f(j) + ((i - 1) - j) <= f(i - 1)
    BY <2>5, <2>6
  <2>8. f(i) >= f(i - 1) + 1
    <3>1. f((i - 1) + 1) >= f(i - 1) + 1
      BY <1>3, <2>5, Zenon
    <3> QED
      BY <2>5, <3>1
  <2>9. f(i - 1) \in Nat /\ f(i) \in Nat
    <3>1. i \in 0..Len(w)
      BY <1>1, <2>2
    <3> QED
      BY <1>2, <2>5, <3>1
  <2> HIDE DEF S
  <2> QED
    BY <1>1, <2>2, <2>3, <2>7, <2>8, <2>9
<1>5. f(j) + (k - j) <= f(k)
  <2>1. k \in j..Len(w)
    BY <1>1
  <2> QED
    BY <1>4, <2>1
<1>6. f(j) \in Nat /\ f(k) \in Nat
  <2>1. j \in 0..Len(w)
    BY <1>1
  <2> QED
    BY <1>2, <2>1
<1> QED
  BY <1>5, <1>6 DEF f

\* The first k records, as they are replayed.
FirstRecords(entries, k) ==
  LET ids == SortedIDs(entries) IN [i \in 1..k |-> [id |-> ids[i], labels |-> entries[ids[i]]]]

\* The numbers of records that are whole in a file b, and their greatest.
WholeCounts(b, entries) ==
  {k \in 0..Len(SortedIDs(entries)) : Len(Flat(PutRecords(entries), k)) <= Len(b)}
Whole(b, entries) == Max(WholeCounts(b, entries))

\* It is the number of records that the file reaches past.
LEMMA WholeType ==
  ASSUME NEW entries, ByteEntries(entries), NEW b \in Seq(Byte)
  PROVE  LET n == Len(SortedIDs(entries))
             w == PutRecords(entries)
             m == Whole(b, entries)
         IN  /\ n \in Nat /\ m \in 0..n /\ m <= Len(b)
             /\ \A k \in 0..m : Len(Flat(w, k)) <= Len(b)
             /\ \A k \in 0..n : k > m => ~(Len(Flat(w, k)) <= Len(b))
<1> DEFINE n == Len(SortedIDs(entries))
           w == PutRecords(entries)
           S == WholeCounts(b, entries)
           m == Whole(b, entries)
<1>1. n \in Nat
  BY SortedIDsType
<1>2. w \in Seq(Seq(Byte)) /\ Len(w) = n /\ \A i \in 1..n : Len(w[i]) >= 1
  BY RecordsType
<1>3. \A k \in S : k \in 0..n /\ Len(Flat(w, k)) <= Len(b)
  BY DEF WholeCounts
<1>4. \A k \in 0..n : Len(Flat(w, k)) <= Len(b) => k \in S
  BY DEF WholeCounts
<1> HIDE DEF n, w, S
<1>5. 0 \in S
  <2>1. Flat(w, 0) = <<>> /\ 0 \in 0..n
    BY <1>1, <1>2, FlatStep
  <2>2. Len(<<>>) = 0 /\ 0 <= Len(b)
    OBVIOUS
  <2> QED
    BY <1>4, <2>1, <2>2
<1>6. m \in S /\ \A k \in S : m >= k
  <2>1. \E x \in S : \A y \in S : x >= y
    <3>1. PICK x \in S : \A y \in S : y <= x
      BY <1>1, <1>3, <1>5, GreatestNat
    <3>2. \A y \in S : y \in Nat
      BY <1>1, <1>3
    <3> QED
      BY <3>1, <3>2
  <2>2. m = CHOOSE x \in S : \A y \in S : x >= y
    BY DEF Whole, Max, S
  <2> HIDE DEF m
  <2> QED
    BY <2>1, <2>2
<1> HIDE DEF m
<1>7. m \in 0..n /\ Len(Flat(w, m)) <= Len(b)
  BY <1>3, <1>6
<1>8. ASSUME NEW k \in 0..m PROVE Len(Flat(w, k)) <= Len(b) /\ m <= Len(b)
  <2>1. k \in 0..Len(w) /\ m \in 0..Len(w) /\ 0 \in 0..m /\ m - 0 = m /\ m >= k
    BY <1>1, <1>2, <1>7
  <2>2. /\ Len(Flat(w, k)) \in Nat /\ Len(Flat(w, m)) \in Nat
        /\ Len(Flat(w, k)) + (m - k) <= Len(Flat(w, m))
    BY <1>2, <2>1, FlatGrows
  <2>3. Len(Flat(w, 0)) \in Nat /\ Len(Flat(w, 0)) + (m - 0) <= Len(Flat(w, m))
    BY <1>2, <2>1, FlatGrows
  <2> QED
    BY <1>1, <1>7, <2>1, <2>2, <2>3
<1>9. m <= Len(b)
  <2>1. 0 \in 0..m
    BY <1>7
  <2> QED
    BY <1>8, <2>1
<1>10. ASSUME NEW k \in 0..n, k > m PROVE ~(Len(Flat(w, k)) <= Len(b))
  <2> SUFFICES ASSUME Len(Flat(w, k)) <= Len(b) PROVE FALSE
    OBVIOUS
  <2>1. m >= k
    BY <1>4, <1>6
  <2> QED
    BY <1>1, <1>7, <1>10, <2>1
<1> QED
  BY <1>1, <1>7, <1>8, <1>9, <1>10 DEF n, w, m

\* What the loop has after i rounds.
Replayed(b, entries, i) ==
  LET m == Whole(b, entries)
  IN  IF i <= m THEN Read(FirstRecords(entries, i), Rest(b, PutRecords(entries), i))
      ELSE Read(FirstRecords(entries, m), <<>>)

\* The records that are replayed, and the ID that the next distance is from.
LEMMA FirstRecordsParts ==
  ASSUME NEW entries, ByteEntries(entries), NEW k \in 0..Len(SortedIDs(entries))
  PROVE  LET ids == SortedIDs(entries)
         IN  /\ PrevID(FirstRecords(entries, k)) = IF k = 0 THEN 0 ELSE ids[k]
             /\ k = 0 => FirstRecords(entries, k) = <<>>
             /\ k < Len(ids) =>
                  Append(FirstRecords(entries, k), [id |-> ids[k + 1], labels |-> entries[ids[k + 1]]])
                    = FirstRecords(entries, k + 1)
<1> DEFINE ids == SortedIDs(entries)
           R(i) == [id |-> ids[i], labels |-> entries[ids[i]]]
           f == FirstRecords(entries, k)
           g == FirstRecords(entries, k + 1)
           E == {R(i) : i \in 1..(k + 1)}
<1>1. k \in Nat
  BY SortedIDsType
<1>2. f = [i \in 1..k |-> R(i)] /\ g = [i \in 1..(k + 1) |-> R(i)]
  BY DEF FirstRecords
<1>3. \A i \in 1..(k + 1) : R(i).id = ids[i]
  OBVIOUS
<1> HIDE DEF f, g, ids, R
<1>4. f \in [1..k -> E] /\ g \in [1..(k + 1) -> E]
  BY <1>1, <1>2
<1>5. f \in Seq(E) /\ Len(f) = k /\ g \in Seq(E) /\ Len(g) = k + 1
  <2> HIDE DEF E
  <2>1. k + 1 \in Nat
    BY <1>1
  <2> QED
    BY <1>1, <1>4, <2>1
<1>6. (\A i \in 1..k : f[i] = R(i)) /\ \A i \in 1..(k + 1) : g[i] = R(i)
  BY <1>2
<1>7. k = 0 => f = <<>>
  BY <1>5
<1>8. PrevID(f) = IF k = 0 THEN 0 ELSE ids[k]
  <2>1. CASE k = 0
    BY <1>7, <2>1 DEF PrevID
  <2>2. CASE k # 0
    <3>1. k \in 1..k /\ k \in 1..(k + 1)
      BY <1>1, <2>2
    <3>2. f[k].id = ids[k]
      BY <1>3, <1>6, <3>1
    <3>3. f # <<>>
      BY <1>5, <2>2
    <3>4. PrevID(f) = f[k].id
      BY <1>5, <3>3 DEF PrevID, Last
    <3> QED
      BY <2>2, <3>2, <3>4
  <2> QED
    BY <2>1, <2>2
<1>9. Append(f, R(k + 1)) = g
  <2>1. R(k + 1) \in E
    BY <1>1
  <2> DEFINE a == Append(f, R(k + 1))
  <2>2. /\ a \in Seq(E) /\ Len(a) = k + 1
        /\ \A i \in 1..k : a[i] = f[i]
        /\ a[k + 1] = R(k + 1)
    <3> HIDE DEF E
    <3> QED
      BY <1>5, <2>1, AppendProperties
  <2> HIDE DEF a, E
  <2>3. ASSUME NEW i \in 1..(k + 1) PROVE a[i] = g[i]
    <3>1. i = k + 1 \/ i \in 1..k
      BY <1>1
    <3> QED
      BY <1>6, <2>2, <3>1, Zenon
  <2>4. a = g
    BY <1>5, <2>2, <2>3, SeqEqual
  <2> QED
    BY <2>4 DEF a
<1> QED
  BY <1>7, <1>8, <1>9 DEF f, g, ids, R

\* The loop of replay, record by record.
LEMMA ReplayStep ==
  ASSUME NEW entries, ByteEntries(entries), NEW b \in Seq(Byte),
         Starts(b, FlattenSeq(PutRecords(entries)))
  PROVE  /\ Replayed(b, entries, 0) = Read(<<>>, b)
         /\ \A i \in 0..(Len(b) - 1) :
              Replayed(b, entries, i + 1) = Then(Replayed(b, entries, i), NextRecord)
<1> DEFINE ids == SortedIDs(entries)
           n == Len(ids)
           w == PutRecords(entries)
           m == Whole(b, entries)
           F(k) == FirstRecords(entries, k)
<1>1. /\ n \in Nat /\ m \in 0..n /\ m <= Len(b)
      /\ \A k \in 0..m : Len(Flat(w, k)) <= Len(b)
      /\ \A k \in 0..n : k > m => ~(Len(Flat(w, k)) <= Len(b))
  BY WholeType
<1>2. /\ w \in Seq(Seq(Byte)) /\ Len(w) = n
      /\ \A i \in 1..n :
           /\ Delta(entries, i) \in 0..(Modulus - 1)
           /\ (IF i = 1 THEN 0 ELSE ids[i - 1]) + Delta(entries, i) = ids[i]
           /\ w[i] = RecordBytes(Delta(entries, i), entries[ids[i]])
           /\ w[i] \in Seq(Byte) /\ Len(w[i]) >= 1
  BY RecordsType
<1>3. \A i \in 1..n : ids[i] \in 0..(Modulus - 1) /\ entries[ids[i]] \in ByteLabels
  BY SortedIDsType
<1>4. \A i : Replayed(b, entries, i) = IF i <= m THEN Read(F(i), Rest(b, w, i)) ELSE Read(F(m), <<>>)
  BY Zenon DEF Replayed
<1>5. FlattenSeq(w) \in Seq(Byte) /\ Flat(w, n) = FlattenSeq(w)
  <2> HIDE DEF w, n
  <2>1. SubSeq(w, 1, n) = w
    BY <1>2, SubSeqFull
  <2>2. Flat(w, n) \in Seq(Byte)
    <3>1. n \in 0..Len(w)
      BY <1>1, <1>2
    <3> QED
      BY <1>2, <3>1, FlatStep
  <2> QED
    BY <2>1, <2>2 DEF Flat
<1>6. Starts(b, FlattenSeq(w) \o <<>>) /\ <<>> \in Seq(Byte) /\ Starts(b, FlattenSeq(w))
  <2>1. Starts(b, FlattenSeq(w))
    OBVIOUS
  <2> HIDE DEF w
  <2>2. FlattenSeq(w) \o <<>> = FlattenSeq(w)
    BY <1>5, ConcatEmptySeq
  <2> QED
    BY <2>1, <2>2
<1>7. \A k \in 0..n : /\ PrevID(F(k)) = IF k = 0 THEN 0 ELSE ids[k]
                      /\ k = 0 => F(k) = <<>>
                      /\ k < n => Append(F(k), [id |-> ids[k + 1], labels |-> entries[ids[k + 1]]]) = F(k + 1)
  BY FirstRecordsParts
<1> HIDE DEF ids, n, w, m, F
<1>8. Replayed(b, entries, 0) = Read(<<>>, b)
  <2>1. 0 \in 0..n /\ 0 <= m
    BY <1>1
  <2>2. Flat(w, 0) = <<>>
    BY <1>1, <1>2, FlatStep
  <2>3. Len(<<>>) = 0 /\ 0 + 1 = 1
    OBVIOUS
  <2>4. SubSeq(b, 1, Len(b)) = b
    BY SubSeqFull
  <2>5. Rest(b, w, 0) = b
    BY <2>2, <2>3, <2>4 DEF Rest
  <2>6. F(0) = <<>>
    BY <1>7, <2>1
  <2> QED
    BY <1>4, <2>1, <2>5, <2>6, Zenon
<1>9. \A v, r : Read(v, r).err = "nil" /\ Read(v, r).v = v /\ Read(v, r).rest = r
  BY ReadParts
<1>10. \A v : NextRecord(Read(v, <<>>)) = Read(v, <<>>)
  BY <1>9, Zenon DEF NextRecord
<1>11. ASSUME NEW i \in 0..(Len(b) - 1)
       PROVE  Replayed(b, entries, i + 1) = Then(Replayed(b, entries, i), NextRecord)
  <2>1. i \in Nat /\ Len(b) \in Nat /\ m \in Nat
    BY <1>1
  <2>2. CASE i + 1 <= m
    <3> DEFINE r == Rest(b, w, i)
               x == Rest(b, w, i + 1)
    <3>1. /\ i <= m /\ i \in 0..m /\ i + 1 \in 0..m /\ i \in 0..n /\ i < n /\ i + 1 \in 1..n
          /\ i \in 0..(Len(w) - 1)
      BY <1>1, <1>2, <2>1, <2>2
    <3>2. Len(Flat(w, i)) <= Len(b) /\ Len(Flat(w, i + 1)) <= Len(b)
      BY <1>1, <3>1
    <3>3. r \in Seq(Byte) /\ x \in Seq(Byte) /\ r = w[i + 1] \o x
      BY <1>2, <1>6, <3>1, <3>2, CutAtWord
    <3> DEFINE d == Delta(entries, i + 1)
               l == entries[ids[i + 1]]
               p == IF i = 0 THEN 0 ELSE ids[i]
    <3>4. d \in 0..(Modulus - 1) /\ l \in ByteLabels /\ w[i + 1] = RecordBytes(d, l)
      BY <1>2, <1>3, <3>1
    <3>5. p + d = ids[i + 1]
      <4>1. (IF i + 1 = 1 THEN 0 ELSE ids[(i + 1) - 1]) + d = ids[i + 1]
        BY <1>2, <3>1
      <4>2. (i + 1 = 1 <=> i = 0) /\ (i + 1) - 1 = i
        BY <2>1
      <4> HIDE DEF d
      <4> QED
        BY <4>1, <4>2
    <3>6. Unsigned(p + d) = ids[i + 1]
      <4>1. ids[i + 1] \in 0..(Modulus - 1)
        BY <1>3, <3>1
      <4> DEFINE e == ids[i + 1]
      <4> HIDE DEF e
      <4>2. e % Modulus = e
        BY <4>1, VarintLen DEF e
      <4> QED
        BY <3>5, <4>2, Zenon DEF Unsigned, e
    <3> HIDE DEF r, x, d, l, p
    <3>7. GetRecord(r, p) = Read([id |-> ids[i + 1], labels |-> l], x)
      <4>1. GetRecord(RecordBytes(d, l) \o x, p) = Read([id |-> Unsigned(p + d), labels |-> l], x)
        BY <3>3, <3>4, GetRecordWhole
      <4> QED
        BY <3>3, <3>4, <3>6, <4>1, Zenon
    <3>8. r # <<>>
      <4>1. w[i + 1] \in Seq(Byte) /\ Len(w[i + 1]) >= 1
        BY <1>2, <3>1
      <4>2. Len(r) = Len(w[i + 1]) + Len(x)
        BY <3>3, <4>1, ConcatProperties
      <4>3. Len(r) # 0
        BY <3>3, <4>1, <4>2
      <4> QED
        BY <4>3
    <3>9. PrevID(F(i)) = p /\ Append(F(i), [id |-> ids[i + 1], labels |-> l]) = F(i + 1)
      BY <1>7, <3>1 DEF p, l
    <3>10. NextRecord(Read(F(i), r)) = Read(F(i + 1), x)
      <4>1. LET t == GetRecord(r, p)
            IN  /\ t.err = "nil" /\ t.v = [id |-> ids[i + 1], labels |-> l] /\ t.rest = x
                /\ t.err # "eof"
        <5>1. "nil" # "eof"
          OBVIOUS
        <5> DEFINE v == [id |-> ids[i + 1], labels |-> l]
        <5> HIDE DEF v
        <5>2. Read(v, x).err = "nil" /\ Read(v, x).v = v /\ Read(v, x).rest = x
          BY <1>9, Zenon
        <5>3. GetRecord(r, p) = Read(v, x)
          BY <3>7, Zenon DEF v
        <5> QED
          BY <5>1, <5>2, <5>3, Zenon DEF v
      <4>2. Read(F(i), r).v = F(i) /\ Read(F(i), r).rest = r
        BY <1>9, Zenon
      <4> QED
        BY <3>8, <3>9, <4>1, <4>2, Zenon DEF NextRecord, Then
    <3>11. Replayed(b, entries, i) = Read(F(i), r) /\ Replayed(b, entries, i + 1) = Read(F(i + 1), x)
      BY <1>4, <2>2, <3>1, Zenon DEF r, x
    <3>12. Then(Read(F(i), r), NextRecord) = NextRecord(Read(F(i), r))
      BY <1>9, Zenon DEF Then
    <3> QED
      BY <3>10, <3>11, <3>12, Zenon
  <2>3. CASE i = m
    <3> DEFINE r == Rest(b, w, m)
    <3>1. m \in 0..m /\ m \in 0..Len(w) /\ ~(i + 1 <= m) /\ i <= m
      BY <1>1, <1>2, <2>1, <2>3
    <3>2. Len(Flat(w, m)) <= Len(b)
      BY <1>1, <3>1
    <3>3. NextRecord(Read(F(m), r)) = Read(F(m), <<>>)
      <4>1. CASE r = <<>>
        BY <1>10, <4>1, Zenon
      <4>2. CASE r # <<>> /\ m = n
        <5>1. Len(b) <= Len(Flat(w, m))
          BY <1>5, <1>6, <4>2 DEF Starts
        <5>2. r = <<>>
          <6>1. Flat(w, m) \in Seq(Byte)
            BY <1>2, <3>1, FlatStep
          <6>2. Len(Flat(w, m)) + 1 > Len(b) /\ Len(Flat(w, m)) \in Nat
            BY <5>1, <6>1
          <6>3. SubSeq(b, Len(Flat(w, m)) + 1, Len(b)) = <<>>
            BY <2>1, <6>2, SubSeqEmpty
          <6> QED
            BY <6>3 DEF Rest
        <5> QED
          BY <4>2, <5>2
      <4>3. CASE r # <<>> /\ m # n
        <5>1. m \in 0..(Len(w) - 1) /\ m + 1 \in 0..n /\ m + 1 \in 1..n /\ m + 1 > m
          BY <1>1, <1>2, <4>3
        <5>2. ~(Len(Flat(w, m + 1)) <= Len(b))
          BY <1>1, <5>1
        <5>3. r \in Seq(Byte) /\ Len(r) < Len(w[m + 1]) /\ Starts(r, w[m + 1])
          BY <1>2, <1>6, <3>2, <5>1, <5>2, CutAtWord
        <5> DEFINE d == Delta(entries, m + 1)
                   l == entries[ids[m + 1]]
                   p == PrevID(F(m))
        <5>4. d \in 0..(Modulus - 1) /\ l \in ByteLabels /\ w[m + 1] = RecordBytes(d, l)
          BY <1>2, <1>3, <5>1
        <5> HIDE DEF d, l, p, r
        <5>5. GetRecord(r, p) = Fail("eof")
          BY <5>3, <5>4, GetRecordTorn
        <5>6. Fail("eof").err = "eof"
          BY ReadParts
        <5>7. Read(F(m), r).v = F(m) /\ Read(F(m), r).rest = r
          BY <1>9, Zenon
        <5> QED
          BY <4>3, <5>5, <5>6, <5>7, Zenon DEF NextRecord, p
      <4> QED
        BY <4>1, <4>2, <4>3
    <3>4. Replayed(b, entries, i) = Read(F(m), r) /\ Replayed(b, entries, i + 1) = Read(F(m), <<>>)
      BY <1>4, <2>3, <3>1, Zenon
    <3> HIDE DEF r
    <3>5. Then(Read(F(m), r), NextRecord) = NextRecord(Read(F(m), r))
      BY <1>9, Zenon DEF Then
    <3> QED
      BY <3>3, <3>4, <3>5, Zenon
  <2>4. CASE i > m
    <3>1. ~(i <= m) /\ ~(i + 1 <= m)
      BY <2>1, <2>4
    <3>2. /\ Replayed(b, entries, i) = Read(F(m), <<>>)
          /\ Replayed(b, entries, i + 1) = Read(F(m), <<>>)
      BY <1>4, <3>1, Zenon
    <3> QED
      BY <1>9, <1>10, <3>2, Zenon DEF Then
  <2> QED
    BY <2>1, <2>2, <2>3, <2>4
<1> QED
  BY <1>8, <1>11

\* The loop of replay.
ReplayLoop(f, b) == f = [i \in 0..Len(b) |-> IF i = 0 THEN Read(<<>>, b) ELSE Then(f[i - 1], NextRecord)]

\* It ends with the whole records.
LEMMA ReplayWhole ==
  ASSUME NEW entries, ByteEntries(entries), NEW b \in Seq(Byte),
         Starts(b, FlattenSeq(PutRecords(entries)))
  PROVE  Replay(b).err = "nil" /\ Replay(b).v = FirstRecords(entries, Whole(b, entries))
<1> DEFINE n == Len(b)
           g == [i \in 0..n |-> Replayed(b, entries, i)]
<1>1. n \in Nat
  OBVIOUS
<1>2. /\ Replayed(b, entries, 0) = Read(<<>>, b)
      /\ \A k \in 0..(n - 1) : Replayed(b, entries, k + 1) = Then(Replayed(b, entries, k), NextRecord)
  BY ReplayStep
<1> HIDE DEF n
<1>3. \A i \in 0..n : g[i] = IF i = 0 THEN Read(<<>>, b) ELSE Then(g[i - 1], NextRecord)
  <2> TAKE i \in 0..n
  <2>1. g[i] = Replayed(b, entries, i)
    OBVIOUS
  <2>2. CASE i = 0
    BY <1>2, <2>1, <2>2
  <2>3. CASE i # 0
    <3>1. i - 1 \in 0..(n - 1) /\ i - 1 \in 0..n /\ (i - 1) + 1 = i
      BY <1>1, <2>3
    <3>2. g[i - 1] = Replayed(b, entries, i - 1)
      BY <3>1
    <3>3. Replayed(b, entries, (i - 1) + 1) = Then(Replayed(b, entries, i - 1), NextRecord)
      BY <1>2, <3>1, Zenon
    <3> HIDE DEF g
    <3>4. Replayed(b, entries, i) = Then(g[i - 1], NextRecord)
      BY <3>1, <3>2, <3>3
    <3> QED
      BY <2>1, <2>3, <3>4, Zenon
  <2> QED
    BY <2>2, <2>3
<1>4. ReplayLoop(g, b)
  <2>1. g = [i \in 0..n |-> g[i]]
    OBVIOUS
  <2> HIDE DEF g
  <2>2. [i \in 0..n |-> g[i]] = [i \in 0..n |-> IF i = 0 THEN Read(<<>>, b) ELSE Then(g[i - 1], NextRecord)]
    BY <1>3, Zenon
  <2> QED
    BY <2>1, <2>2, Zenon DEF ReplayLoop, n
<1> DEFINE f == CHOOSE f : ReplayLoop(f, b)
<1>5. ReplayLoop(f, b)
  <2> HIDE DEF g
  <2> QED
    BY <1>4, Zenon
<1>6. Replay(b) = f[n]
  BY Zenon DEF Replay, ReplayLoop, n
<1>7. g[n] = Replayed(b, entries, n) /\ n \in 0..n
  BY <1>1
<1> HIDE DEF f, g
<1> DEFINE S == {i \in 0..n : f[i] # g[i]}
<1>8. S = {}
  <2> SUFFICES ASSUME S # {} PROVE FALSE
    OBVIOUS
  <2>1. PICK i \in S : \A j \in S : i <= j
    <3>1. S \in SUBSET Nat
      BY <1>1
    <3> HIDE DEF S
    <3> QED
      BY <3>1, LeastNat
  <2>2. i \in 0..n /\ f[i] # g[i]
    BY <2>1
  <2>3. f[i] = IF i = 0 THEN Read(<<>>, b) ELSE Then(f[i - 1], NextRecord)
    BY <1>5, <2>2, Zenon DEF ReplayLoop, n
  <2>4. g[i] = IF i = 0 THEN Read(<<>>, b) ELSE Then(g[i - 1], NextRecord)
    BY <1>4, <2>2, Zenon DEF ReplayLoop, n
  <2>5. i # 0 => i - 1 \in 0..n /\ ~(i <= i - 1)
    BY <1>1, <2>2
  <2>6. i # 0 => f[i - 1] = g[i - 1]
    <3>1. i # 0 => i - 1 \notin S
      <4> HIDE DEF S
      <4> QED
        BY <2>1, <2>5, Zenon
    <3> QED
      BY <2>5, <3>1
  <2> QED
    BY <2>2, <2>3, <2>4, <2>6, Zenon
<1>9. Replay(b) = Replayed(b, entries, n)
  <2>1. f[n] = g[n]
    BY <1>7, <1>8, Zenon
  <2> QED
    BY <1>6, <1>7, <2>1, Zenon
<1>10. Replayed(b, entries, n).err = "nil" /\ Replayed(b, entries, n).v = FirstRecords(entries, Whole(b, entries))
  <2> DEFINE m == Whole(b, entries)
  <2>1. m \in Nat /\ m <= n
    BY WholeType DEF n
  <2> HIDE DEF m
  <2>2. n <= m => n = m
    BY <1>1, <2>1
  <2>3. \A v, r : Read(v, r).err = "nil" /\ Read(v, r).v = v
    BY ReadParts
  <2> QED
    BY <2>2, <2>3, Zenon DEF Replayed, m
<1> QED
  BY <1>9, <1>10

\* What the property says of a file and what was read from it.
ReadsWhole(entries, b, r) ==
  LET ids == SortedIDs(entries)
      upTo(k) == Magic \o FlattenSeq(SubSeq(PutRecords(entries), 1, k))
      whole == Max({k \in 0..Len(ids) : Len(upTo(k)) <= Len(b)})
  IN  IF Len(b) < Len(Magic) THEN r.err # "nil"
      ELSE /\ r.err = "nil"
           /\ r.v = [i \in 1..whole |-> [id |-> ids[i], labels |-> entries[ids[i]]]]

\* A segment is a sequence of bytes.
LEMMA EncodeSegmentType ==
  ASSUME NEW entries, ByteEntries(entries)
  PROVE  /\ Magic \in Seq(Byte) /\ FlattenSeq(PutRecords(entries)) \in Seq(Byte)
         /\ EncodeSegment(entries) \in Seq(Byte)
<1> DEFINE w == PutRecords(entries)
<1>1. Magic \in Seq(Byte)
  BY SegmentsAssumption DEF Bytes, Byte
<1>2. w \in Seq(Seq(Byte))
  BY RecordsType
<1> HIDE DEF w
<1>3. SubSeq(w, 1, Len(w)) = w
  BY <1>2, SubSeqFull
<1>4. Flat(w, Len(w)) \in Seq(Byte)
  <2>1. Len(w) \in 0..Len(w)
    BY <1>2
  <2> QED
    BY <1>2, <2>1, FlatStep
<1>5. FlattenSeq(w) \in Seq(Byte)
  BY <1>3, <1>4 DEF Flat
<1>6. Magic \o FlattenSeq(w) \in Seq(Byte)
  BY <1>1, <1>5, ConcatProperties
<1> QED
  BY <1>1, <1>5, <1>6 DEF EncodeSegment, w

\* A file that lost its tail is read as its whole records, or its magic is cut.
LEMMA ReadResult ==
  ASSUME NEW entries, ByteEntries(entries), NEW b \in Seq(Byte), Starts(b, EncodeSegment(entries))
  PROVE  ReadsWhole(entries, b, ReadIndexSegment(b))
<1> DEFINE w == PutRecords(entries)
           t == FlattenSeq(w)
           r == ReadIndexSegment(b)
           n == Len(SortedIDs(entries))
<1>1. Magic \in Seq(Byte) /\ t \in Seq(Byte)
  BY EncodeSegmentType
<1>2. Starts(b, Magic \o t)
  BY Zenon DEF EncodeSegment
<1>3. w \in Seq(Seq(Byte)) /\ Len(w) = n /\ n \in Nat
  BY RecordsType, SortedIDsType
<1> HIDE DEF t
<1>4. CASE Len(b) < Len(Magic)
  <2>1. ~IsPrefix(Magic, b)
    <3>1. Len(b) \in Nat /\ Len(Magic) \in Nat
      BY <1>1
    <3>2. ~(Len(Magic) <= Len(b))
      BY <1>4, <3>1
    <3> QED
      BY <3>2 DEF IsPrefix
  <2>2. r = Fail("bad magic")
    BY <2>1, Zenon DEF ReadIndexSegment
  <2>3. Fail("bad magic").err = "bad magic" /\ "bad magic" # "nil"
    BY ReadParts
  <2>4. r.err # "nil"
    BY <2>2, <2>3
  <2> HIDE DEF r
  <2> QED
    BY <1>4, <2>4, Zenon DEF ReadsWhole, r
<1>5. CASE ~(Len(b) < Len(Magic))
  <2>1. PICK c \in Seq(Byte) : b = Magic \o c /\ Starts(c, t)
    BY <1>1, <1>2, <1>5, CutOfConcat
  <2>2. /\ SubSeq(b, Len(Magic) + 1, Len(b)) = c /\ SubSeq(b, 1, Len(Magic)) = Magic
    BY <1>1, <2>1, RestOfConcat
  <2>3. IsPrefix(Magic, b)
    <3>1. Len(b) \in Nat /\ Len(Magic) \in Nat
      BY <1>1
    <3>2. Len(Magic) <= Len(b)
      BY <1>5, <3>1
    <3>3. SubSeq(Magic, 1, Len(Magic)) = Magic
      BY <1>1, SubSeqFull
    <3> QED
      BY <2>2, <3>2, <3>3, Zenon DEF IsPrefix
  <2>4. r = Replay(c)
    BY <2>2, <2>3, Zenon DEF ReadIndexSegment
  <2>5. Replay(c).err = "nil" /\ Replay(c).v = FirstRecords(entries, Whole(c, entries))
    BY <2>1, ReplayWhole DEF t
  <2> DEFINE U(k) == Magic \o FlattenSeq(SubSeq(w, 1, k))
             S == {k \in 0..n : Len(U(k)) <= Len(b)}
  <2>6. \A k \in 0..n : Len(U(k)) <= Len(b) <=> Len(Flat(w, k)) <= Len(c)
    <3> HIDE DEF w, n
    <3> TAKE k \in 0..n
    <3>1. Flat(w, k) \in Seq(Byte)
      <4>1. k \in 0..Len(w)
        BY <1>3
      <4> QED
        BY <1>3, <4>1, FlatStep
    <3> DEFINE f == Flat(w, k)
    <3>2. U(k) = Magic \o f
      BY Zenon DEF Flat
    <3> HIDE DEF f, U
    <3>3. Len(U(k)) = Len(Magic) + Len(f)
      BY <1>1, <3>1, <3>2, ConcatProperties DEF f
    <3>4. Len(b) = Len(Magic) + Len(c)
      BY <1>1, <2>1, ConcatProperties
    <3>5. Len(Magic) \in Nat /\ Len(f) \in Nat /\ Len(c) \in Nat
      BY <1>1, <2>1, <3>1 DEF f
    <3>6. Len(U(k)) <= Len(b) <=> Len(f) <= Len(c)
      BY <3>3, <3>4, <3>5
    <3> QED
      BY <3>6 DEF f
  <2>7. S = WholeCounts(c, entries)
    <3> HIDE DEF U
    <3>1. WholeCounts(c, entries) = {k \in 0..n : Len(Flat(w, k)) <= Len(c)}
      BY Zenon DEF WholeCounts
    <3> HIDE DEF w, n
    <3> QED
      BY <2>6, <3>1, Zenon
  <2>8. Max(S) = Whole(c, entries)
    BY <2>7, Zenon DEF Whole
  <2> DEFINE m == Whole(c, entries)
  <2>9. r.err = "nil" /\ r.v = FirstRecords(entries, m)
    BY <2>4, <2>5, Zenon
  <2> HIDE DEF r, m
  <2> QED
    BY <1>5, <2>8, <2>9, Zenon DEF ReadsWhole, FirstRecords, r, m
<1> QED
  BY <1>4, <1>5

\* The segments that are written hold bytes.
LEMMA SegmentsAreBytes ==
  ASSUME NEW entries \in Segments
  PROVE  ByteEntries(entries)
<1>1. DOMAIN entries \subseteq 0..(Modulus - 1)
  BY SegmentsAssumption
<1>2. ASSUME NEW id \in DOMAIN entries PROVE entries[id] \in ByteLabels
  <2> DEFINE l == entries[id]
             L == [name : Bytes, value : Bytes]
  <2>1. /\ l \in Seq(L) /\ Len(l) < Modulus
        /\ \A i \in DOMAIN l : Len(l[i].name) < Modulus /\ Len(l[i].value) < Modulus
    BY SegmentsAssumption
  <2> HIDE DEF l
  <2>2. \A i \in 1..Len(l) : l[i] \in L
    <3> HIDE DEF L
    <3> QED
      BY <2>1
  <2>3. Len(l) \in Nat /\ DOMAIN l = 1..Len(l)
    BY <2>1
  <2>4. ASSUME NEW i \in 1..Len(l) PROVE l[i] \in ByteLabel
    <3> DEFINE x == l[i]
    <3>1. x \in L /\ Len(x.name) < Modulus /\ Len(x.value) < Modulus
      BY <2>1, <2>2, <2>3
    <3> HIDE DEF x
    <3>2. x.name \in Seq(Byte) /\ x.value \in Seq(Byte)
      BY <3>1 DEF Bytes, Byte
    <3>3. x.name \in ByteString /\ x.value \in ByteString
      BY <3>1, <3>2 DEF ByteString
    <3>4. x = [name |-> x.name, value |-> x.value]
      BY <3>1
    <3>5. x \in ByteLabel
      <4> HIDE DEF L
      <4> QED
        BY <3>3, <3>4 DEF ByteLabel
    <3> QED
      BY <3>5 DEF x
  <2>5. l = [i \in 1..Len(l) |-> l[i]]
    <3> HIDE DEF L
    <3> QED
      BY <2>1
  <2>6. l \in Seq(ByteLabel)
    <3> DEFINE k == Len(l)
    <3> HIDE DEF k, L
    <3>1. l \in [1..k -> ByteLabel]
      BY <2>4, <2>5, Zenon DEF k
    <3>2. k \in Nat
      BY <2>3 DEF k
    <3> QED
      BY <3>1, <3>2
  <2> QED
    BY <2>1, <2>6 DEF ByteLabels, l
<1> QED
  BY <1>1, <1>2 DEF ByteEntries

-----------------------------------------------------------------------------

\* The inductive invariant: the file is what was written or a part of it, from
\* its beginning, and the output is what the reader makes of that.
SegmentInv ==
  /\ input \in SegmentInputs
  /\ stage \in {"new", "written", "read"}
  /\ stage # "new" => file \in Seq(Byte) /\ Starts(file, EncodeSegment(input.data))
  /\ stage = "read" => output = ReadIndexSegment(file)

\* A part of a part is a part.
LEMMA StartsTear ==
  ASSUME NEW s \in Seq(Byte), NEW e \in Seq(Byte), Starts(s, e), NEW p \in Prefixes(s)
  PROVE  p \in Seq(Byte) /\ Starts(p, e)
<1>1. PICK k \in 0..Len(s) : p = SubSeq(s, 1, k)
  BY Zenon DEF Prefixes
<1>2. p \in Seq(Byte) /\ Len(p) = k /\ \A i \in 1..k : p[i] = s[i]
  BY <1>1, FirstWords
<1>3. /\ k \in Nat /\ Len(s) \in Nat /\ k <= Len(s) /\ Len(e) \in Nat
  OBVIOUS
<1>4. Len(s) <= Len(e) /\ \A i \in 1..Len(s) : s[i] = e[i]
  BY DEF Starts
<1>5. Len(p) <= Len(e)
  BY <1>2, <1>3, <1>4
<1>6. ASSUME NEW i \in 1..Len(p) PROVE p[i] = e[i]
  <2>1. i \in 1..k /\ i \in 1..Len(s)
    BY <1>2, <1>3
  <2> QED
    BY <1>2, <1>4, <2>1, Zenon
<1> QED
  BY <1>5, <1>6, <1>2 DEF Starts

\* What is written, torn or read keeps it.
LEMMA SegmentInvHolds == SegmentSpec => []SegmentInv
<1>1. Begins(SegmentInputs) => SegmentInv
  BY DEF Begins, SegmentInv
<1>2. SegmentInv /\ [SegmentNext]_vars => SegmentInv'
  <2> SUFFICES ASSUME SegmentInv, [SegmentNext]_vars PROVE SegmentInv'
    OBVIOUS
  <2> DEFINE e == EncodeSegment(input.data)
  <2>1. input.data \in Segments
    BY DEF SegmentInv, SegmentInputs
  <2>2. e \in Seq(Byte)
    BY <2>1, SegmentsAreBytes, EncodeSegmentType
  <2> HIDE DEF e
  <2>3. CASE WriteSegment
    <3>1. file' = e /\ stage' = "written" /\ input' = input
      BY <2>3 DEF WriteSegment, Writes, e
    <3>2. Starts(e, e)
      BY <2>2 DEF Starts
    <3>3. file' \in Seq(Byte) /\ Starts(file', EncodeSegment(input'.data))
      BY <2>2, <3>1, <3>2 DEF e
    <3> QED
      BY <3>1, <3>3 DEF SegmentInv
  <2>4. CASE TearSegment
    <3>1. /\ stage = "written" /\ stage' = stage /\ input' = input /\ file' \in Prefixes(file)
      BY <2>4 DEF TearSegment, Tears
    <3>2. file \in Seq(Byte) /\ Starts(file, e)
      BY <3>1 DEF SegmentInv, e
    <3>3. file' \in Seq(Byte) /\ Starts(file', e)
      BY <2>2, <3>1, <3>2, StartsTear
    <3> QED
      BY <3>1, <3>3 DEF SegmentInv, e
  <2>5. CASE ReadSegment
    <3>1. /\ stage = "written" /\ stage' = "read" /\ input' = input /\ file' = file
          /\ output' = ReadIndexSegment(file)
      BY <2>5 DEF ReadSegment, Reads
    <3> QED
      BY <3>1 DEF SegmentInv
  <2>6. CASE UNCHANGED vars
    BY <2>6 DEF SegmentInv, vars
  <2> QED
    BY <2>3, <2>4, <2>5, <2>6 DEF SegmentNext
<1> QED
  BY <1>1, <1>2, PTL DEF SegmentSpec

\* A registry segment that lost any part of its tail replays as the records that
\* are whole, in the order of their IDs and with their labels, and as an error
\* when the magic is cut (appendIndexSegment, readIndexSegment), for every width
\* of words, every magic and every set of records.
THEOREM SegmentReplaysWholeRecordsHolds == SegmentSpec => []SegmentReplaysWholeRecords
<1>1. SegmentInv => SegmentReplaysWholeRecords
  <2> SUFFICES ASSUME SegmentInv, Finished("segment") PROVE SegmentReplaysWholeRecords
    BY DEF SegmentReplaysWholeRecords
  <2>1. stage = "read"
    BY DEF Finished
  <2>2. input.data \in Segments
    BY DEF SegmentInv, SegmentInputs
  <2>3. /\ file \in Seq(Byte) /\ Starts(file, EncodeSegment(input.data))
        /\ output = ReadIndexSegment(file)
    BY <2>1 DEF SegmentInv
  <2>4. ReadsWhole(input.data, file, output)
    BY <2>2, <2>3, SegmentsAreBytes, ReadResult
  <2> QED
    BY <2>4, Zenon DEF ReadsWhole, SegmentReplaysWholeRecords
<1> QED
  BY <1>1, SegmentInvHolds, PTL
====
