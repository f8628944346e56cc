---------------------------- MODULE BlockProofs ----------------------------
(***************************************************************************)
(* Blocks, for every width of words and of window fields and all columns:  *)
(* a block reads back as the column it was made of, and one that lost its  *)
(* tail is an error.  As in SegmentProofs each reader has two lemmas, for  *)
(* all bytes of its writer and for a part of them.                         *)
(***************************************************************************)
EXTENDS BlockReplay, SegmentProofs

-----------------------------------------------------------------------------
(* Numbers and their digits.                                                *)

\* The loop that makes a number of digits.
NumberLoop(f, d, base) == f = [i \in 0..Len(d) |-> IF i = 0 THEN 0 ELSE base * f[i - 1] + d[i]]

\* It ends with what any sequence of its intermediate values ends with.
LEMMA NumberIs ==
  ASSUME NEW base \in Nat, NEW D, NEW d \in Seq(D), NEW g \in [0..Len(d) -> Int], g[0] = 0,
         \A i \in 1..Len(d) : g[i] = base * g[i - 1] + d[i]
  PROVE  Number(d, base) = g[Len(d)]
<1> DEFINE n == Len(d)
<1>1. n \in Nat
  OBVIOUS
<1>2. g = [i \in 0..n |-> g[i]]
  OBVIOUS
<1> HIDE DEF n
<1>3. \A i \in 0..n : g[i] = IF i = 0 THEN 0 ELSE base * g[i - 1] + d[i]
  <2> TAKE i \in 0..n
  <2>1. i # 0 => i \in 1..Len(d)
    BY <1>1 DEF n
  <2> QED
    BY <2>1, Zenon
<1>4. NumberLoop(g, d, base)
  <2>1. [i \in 0..n |-> g[i]] = [i \in 0..n |-> IF i = 0 THEN 0 ELSE base * g[i - 1] + d[i]]
    BY <1>3, Zenon
  <2> QED
    BY <1>2, <2>1, Zenon DEF NumberLoop, n
<1> DEFINE f == CHOOSE f : NumberLoop(f, d, base)
<1>5. NumberLoop(f, d, base)
  BY <1>4, Zenon
<1>6. Number(d, base) = f[n]
  BY Zenon DEF Number, NumberLoop, n
<1> HIDE DEF f
<1> DEFINE S == {i \in 0..n : f[i] # g[i]}
<1>7. S = {}
  <2> SUFFICES ASSUME S # {} PROVE FALSE
    OBVIOUS
  <2>1. PICK i \in S : \A j \in S : i <= j
    <3>1. S \in SUBSET Nat
      BY <1>1
    <3> HIDE DEF S
    <3> QED
      BY <3>1, LeastNat
  <2>2. i \in 0..n /\ f[i] # g[i]
    BY <2>1
  <2>3. f[i] = IF i = 0 THEN 0 ELSE base * f[i - 1] + d[i]
    BY <1>5, <2>2, Zenon DEF NumberLoop, n
  <2>4. g[i] = IF i = 0 THEN 0 ELSE base * g[i - 1] + d[i]
    BY <1>3, <2>2, Zenon
  <2>5. i # 0 => i - 1 \in 0..n /\ ~(i <= i - 1)
    BY <1>1, <2>2
  <2>6. i # 0 => f[i - 1] = g[i - 1]
    <3>1. i # 0 => i - 1 \notin S
      <4> HIDE DEF S
      <4> QED
        BY <2>1, <2>5, Zenon
    <3> QED
      BY <2>5, <3>1
  <2> QED
    BY <2>2, <2>3, <2>4, <2>6, Zenon
<1>8. n \in 0..n
  BY <1>1
<1>9. f[n] = g[n]
  BY <1>7, <1>8, Zenon
<1> QED
  BY <1>6, <1>9 DEF n

\* The powers of 2 in use.
LEMMA Powers2 ==
  ASSUME NEW k \in 0..WordBits
  PROVE  2^k \in Nat /\ 2^k > 0 /\ 2^0 = 1 /\ 2^(k + 1) = 2 * 2^k
<1>1. k \in Exponents
  BY WordAssumption, CalendarAssumption, FloatAssumption DEF Exponents
<1> QED
  BY <1>1, PowerStep, PowerPositive

\* A smaller number divided by a larger one.
LEMMA SmallQuotient ==
  ASSUME NEW u \in Nat, NEW q \in Nat, u < q
  PROVE  u \div q = 0
  OBVIOUS

\* One more digit of a number.
LEMMA DigitStep ==
  ASSUME NEW base \in Nat, base > 0, NEW u \in Nat, NEW q \in Nat, q > 0
  PROVE  u \div q = base * (u \div (base * q)) + ((u \div q) % base)
<1> DEFINE a == u \div q
<1>1. u \div (base * q) = a \div base /\ a \in Int
  BY DivisionTwice, Division
<1> HIDE DEF a
<1>2. a = base * (a \div base) + (a % base)
  BY <1>1, Division
<1> QED
  BY <1>1, <1>2 DEF a

\* A number is made of its digits: u is divided by p[i] for digit i.
LEMMA NumberOfDigits ==
  ASSUME NEW base \in Nat, base > 0, NEW n \in Nat, NEW p \in [0..n -> Nat],
         p[n] = 1, \A i \in 1..n : p[i] > 0 /\ p[i - 1] = base * p[i],
         NEW u \in Nat, u < p[0],
         NEW d \in Seq(Nat), Len(d) = n, \A i \in 1..n : d[i] = (u \div p[i]) % base
  PROVE  Number(d, base) = u
<1> DEFINE g == [i \in 0..n |-> IF i = 0 THEN 0 ELSE u \div p[i]]
<1>1. \A i \in 0..n : p[i] \in Nat /\ p[i] > 0
  <2> TAKE i \in 0..n
  <2>1. CASE i = 0 /\ n = 0
    BY <2>1
  <2>2. CASE i = 0 /\ n # 0
    <3>1. 1 \in 1..n /\ 1 - 1 = 0
      BY <2>2
    <3>2. p[1] > 0 /\ p[1] \in Nat /\ p[0] = base * p[1]
      BY <3>1
    <3> QED
      BY <2>2, <3>2
  <2>3. CASE i # 0
    <3>1. i \in 1..n
      BY <2>3
    <3>2. p[i] > 0
      BY <3>1, Zenon
    <3>3. p[i] \in Nat
      OBVIOUS
    <3> QED
      BY <3>2, <3>3
  <2> QED
    BY <2>1, <2>2, <2>3
<1>2. \A i \in 0..n : u \div p[i] \in Int
  BY <1>1, Division
<1>3. g \in [0..n -> Int] /\ g[0] = 0
  BY <1>2
<1>4. u \div p[0] = 0
  <2>1. p[0] \in Nat
    OBVIOUS
  <2> QED
    BY <2>1, SmallQuotient, Zenon
<1>5. \A i \in 0..n : g[i] = u \div p[i]
  BY <1>4
<1>6. ASSUME NEW i \in 1..n PROVE g[i] = base * g[i - 1] + d[i]
  <2> DEFINE q == p[i]
             a == u \div q
  <2>1. i \in 0..n /\ i - 1 \in 0..n
    OBVIOUS
  <2>2. q \in Nat /\ q > 0 /\ p[i - 1] = base * q
    <3>1. p[i] > 0 /\ p[i - 1] = base * p[i]
      BY Zenon
    <3>2. p[i] \in Nat
      BY <2>1
    <3> QED
      BY <3>1, <3>2
  <2>3. g[i] = a /\ g[i - 1] = u \div (base * q) /\ d[i] = a % base
    BY <1>5, <2>1, <2>2
  <2> HIDE DEF q, g, a
  <2>4. a = base * (u \div (base * q)) + (a % base)
    BY <2>2, DigitStep, Zenon DEF a
  <2> QED
    BY <2>3, <2>4, Zenon
<1>7. g[n] = u
  <2>1. n \in 0..n /\ u \div 1 = u
    OBVIOUS
  <2> QED
    BY <1>5, <2>1
<1> HIDE DEF g
<1> QED
  BY <1>3, <1>6, <1>7, NumberIs

\* The intermediate values of the loop on n digits.
Partials(g, d, base, n) ==
  g \in [0..n -> Nat] /\ g[0] = 0 /\ \A i \in 1..n : g[i] = base * g[i - 1] + d[i]

\* They exist.
LEMMA PartialsExist ==
  ASSUME NEW base \in Nat, NEW n \in Nat, NEW d, \A i \in 1..n : d[i] \in Nat
  PROVE  \E g : Partials(g, d, base, n)
<1> DEFINE S == {m \in 0..n : ~\E g : Partials(g, d, base, m)}
<1> SUFFICES ASSUME S # {} PROVE FALSE
  <2>1. n \in 0..n
    OBVIOUS
  <2> QED
    BY <2>1, Zenon
<1>1. PICK m \in S : \A j \in S : m <= j
  <2>1. S \in SUBSET Nat
    OBVIOUS
  <2> HIDE DEF S
  <2> QED
    BY <2>1, LeastNat
<1>2. m \in 0..n /\ ~\E g : Partials(g, d, base, m)
  BY <1>1, Zenon
<1>3. m # 0
  <2> SUFFICES ASSUME m = 0 PROVE FALSE
    OBVIOUS
  <2> DEFINE g == [i \in 0..0 |-> 0]
  <2>1. g \in [0..0 -> Nat] /\ g[0] = 0 /\ \A i \in 1..0 : FALSE
    OBVIOUS
  <2> HIDE DEF g
  <2>2. Partials(g, d, base, 0)
    BY <2>1, Zenon DEF Partials
  <2> QED
    BY <1>2, <2>2, Zenon
<1>4. m - 1 \in 0..n /\ m - 1 \notin S /\ m \in Nat /\ m \in 1..n /\ m - 1 \in 0..(m - 1)
  <2>1. m - 1 \in 0..n /\ ~(m <= m - 1) /\ m \in Nat /\ m \in 1..n /\ m - 1 \in 0..(m - 1)
    BY <1>2, <1>3
  <2> HIDE DEF S
  <2>2. m - 1 \notin S
    BY <1>1, <2>1, Zenon
  <2> QED
    BY <2>1, <2>2
<1>5. PICK h : Partials(h, d, base, m - 1)
  BY <1>4, Zenon
<1>6. /\ h \in [0..(m - 1) -> Nat] /\ h[0] = 0
      /\ \A i \in 1..(m - 1) : h[i] = base * h[i - 1] + d[i]
  BY <1>5, Zenon DEF Partials
<1> DEFINE z == base * h[m - 1] + d[m]
           g == [i \in 0..m |-> IF i = m THEN z ELSE h[i]]
<1>7. z \in Nat
  <2>1. h[m - 1] \in Nat /\ d[m] \in Nat
    BY <1>4, <1>6
  <2> QED
    BY <2>1
<1> HIDE DEF z
<1>8. \A i \in 0..m : i # m => i \in 0..(m - 1)
  BY <1>4
<1>9. g \in [0..m -> Nat]
  BY <1>6, <1>7, <1>8
<1>10. \A i \in 0..m : g[i] = IF i = m THEN z ELSE h[i]
  OBVIOUS
<1> HIDE DEF g
<1>11. g[0] = 0
  <2>1. 0 \in 0..m /\ 0 # m
    BY <1>3, <1>4
  <2> QED
    BY <1>6, <1>10, <2>1, Zenon
<1>12. ASSUME NEW i \in 1..m PROVE g[i] = base * g[i - 1] + d[i]
  <2>1. i \in 0..m /\ i - 1 \in 0..m /\ i - 1 # m /\ (i # m => i \in 1..(m - 1))
    BY <1>4
  <2>2. g[i - 1] = h[i - 1]
    BY <1>10, <2>1, Zenon
  <2>3. CASE i = m
    <3>1. g[i] = z
      BY <1>10, <2>1, <2>3, Zenon
    <3>2. z = base * h[i - 1] + d[i]
      BY <2>3, Zenon DEF z
    <3> QED
      BY <2>2, <3>1, <3>2, Zenon
  <2>4. CASE i # m
    BY <1>6, <1>10, <2>1, <2>2, <2>4, Zenon
  <2> QED
    BY <2>3, <2>4
<1>13. Partials(g, d, base, m)
  BY <1>9, <1>11, <1>12, Zenon DEF Partials
<1> QED
  BY <1>2, <1>13, Zenon

Bit == {0, 1}

\* The bits of a number.
LEMMA BitsType ==
  ASSUME NEW u \in Nat, NEW n \in 0..WordBits
  PROVE  /\ Bits(u, n) \in Seq(Bit) /\ Len(Bits(u, n)) = n
         /\ \A i \in 1..n : Bits(u, n)[i] = (u \div 2^(n - i)) % 2
<1> DEFINE b == Bits(u, n)
<1>1. b = [i \in 1..n |-> (u \div 2^(n - i)) % 2]
  BY DEF Bits
<1>2. ASSUME NEW i \in 1..n PROVE (u \div 2^(n - i)) % 2 \in Bit
  <2>1. n - i \in 0..WordBits
    BY WordAssumption
  <2> DEFINE p == 2^(n - i)
  <2>2. p \in Nat /\ p > 0
    BY <2>1, Powers2
  <2> HIDE DEF p
  <2>3. u \div p \in Int
    BY <2>2, Division
  <2>4. (u \div p) % 2 \in Bit
    BY <2>3 DEF Bit
  <2> QED
    BY <2>4 DEF p
<1> HIDE DEF b
<1>3. b \in [1..n -> Bit]
  BY <1>1, <1>2, Zenon
<1>4. n \in Nat
  BY WordAssumption
<1>5. b \in Seq(Bit) /\ Len(b) = n
  BY <1>3, <1>4
<1>6. \A i \in 1..n : b[i] = (u \div 2^(n - i)) % 2
  BY <1>1, Zenon
<1> QED
  BY <1>5, <1>6 DEF b

\* They make the number, if it fits.
LEMMA NumberOfBits ==
  ASSUME NEW u \in Nat, NEW n \in 0..WordBits, u < 2^n
  PROVE  Number(Bits(u, n), 2) = u
<1> DEFINE d == Bits(u, n)
           p == [i \in 0..n |-> 2^(n - i)]
<1>1. d \in Seq(Bit) /\ Len(d) = n /\ \A i \in 1..n : d[i] = (u \div 2^(n - i)) % 2
  BY BitsType
<1>2. n \in Nat
  BY WordAssumption
<1>3. \A i \in 0..n : 2^(n - i) \in Nat /\ 2^(n - i) > 0
  <2> TAKE i \in 0..n
  <2>1. n - i \in 0..WordBits
    BY WordAssumption
  <2> QED
    BY <2>1, Powers2
<1>4. p \in [0..n -> Nat]
  BY <1>3
<1>5. \A i \in 0..n : p[i] = 2^(n - i)
  OBVIOUS
<1>6. p[n] = 1
  <2>1. n \in 0..n /\ n - n = 0
    BY <1>2
  <2>2. 2^0 = 1
    BY Powers2
  <2> QED
    BY <2>1, <2>2
<1>7. u < p[0]
  <2>1. 0 \in 0..n /\ n - 0 = n
    BY <1>2
  <2> QED
    BY <2>1
<1> HIDE DEF p, d
<1>8. ASSUME NEW i \in 1..n PROVE p[i] > 0 /\ p[i - 1] = 2 * p[i] /\ d[i] = (u \div p[i]) % 2
  <2>1. i \in 0..n /\ i - 1 \in 0..n /\ n - (i - 1) = (n - i) + 1 /\ n - i \in 0..WordBits
    BY <1>2, WordAssumption
  <2>2. p[i] = 2^(n - i) /\ p[i - 1] = 2^((n - i) + 1)
    BY <1>5, <2>1
  <2>3. 2^(n - i) > 0 /\ 2^((n - i) + 1) = 2 * 2^(n - i)
    BY <2>1, Powers2
  <2>4. d[i] = (u \div 2^(n - i)) % 2
    BY <1>1, Zenon
  <2> QED
    BY <2>2, <2>3, <2>4
<1>9. 2 \in Nat /\ 2 > 0
  OBVIOUS
<1>10. Number(d, 2) = u
  <2>1. \A i \in 1..n : p[i] > 0 /\ p[i - 1] = 2 * p[i]
    BY <1>8, Zenon
  <2>2. \A i \in 1..n : d[i] = (u \div p[i]) % 2
    BY <1>8, Zenon
  <2>3. d \in Seq(Nat) /\ Len(d) = n
    BY <1>1 DEF Bit
  <2>4. \A e \in Seq(Nat) :
          Len(e) = n /\ (\A i \in 1..n : e[i] = (u \div p[i]) % 2) => Number(e, 2) = u
    BY <1>2, <1>4, <1>6, <1>7, <1>9, <2>1, NumberOfDigits, Zenon
  <2> QED
    BY <2>2, <2>3, <2>4, Zenon
<1> QED
  BY <1>10 DEF d

\* The bits that make a number are its bits.
LEMMA BitsOfNumber ==
  ASSUME NEW n \in 0..WordBits, NEW s \in Seq(Bit), Len(s) = n
  PROVE  Number(s, 2) \in Nat /\ Number(s, 2) < 2^n /\ Bits(Number(s, 2), n) = s
<1>1. n \in Nat /\ \A i \in 1..n : s[i] \in Bit /\ s[i] \in Nat
  BY WordAssumption DEF Bit
<1>2. PICK g : Partials(g, s, 2, n)
  <2>1. \A i \in 1..n : s[i] \in Nat
    BY <1>1
  <2>2. 2 \in Nat
    OBVIOUS
  <2> QED
    BY <1>1, <2>1, <2>2, PartialsExist, Zenon
<1>3. g \in [0..n -> Nat] /\ g[0] = 0 /\ \A i \in 1..n : g[i] = 2 * g[i - 1] + s[i]
  BY <1>2, Zenon DEF Partials
<1>4. \A i \in 0..n : g[i] \in Nat
  BY <1>3
<1>5. Number(s, 2) = g[n]
  <2>1. g \in [0..Len(s) -> Int]
    BY <1>3
  <2>2. \A i \in 1..Len(s) : g[i] = 2 * g[i - 1] + s[i]
    BY <1>3
  <2>3. 2 \in Nat
    OBVIOUS
  <2>4. Number(s, 2) = g[Len(s)]
    BY <1>3, <2>1, <2>2, <2>3, NumberIs, Zenon
  <2> QED
    BY <2>4
<1>6. \A i \in 0..n : 2^i \in Nat /\ 2^i > 0 /\ 2^0 = 1 /\ 2^(i + 1) = 2 * 2^i
  <2> TAKE i \in 0..n
  <2>1. i \in 0..WordBits
    BY WordAssumption
  <2> QED
    BY <2>1, Powers2
<1>7. \A i \in 0..n : g[i] < 2^i
  <2> DEFINE S == {i \in 0..n : ~(g[i] < 2^i)}
  <2> SUFFICES ASSUME S # {} PROVE FALSE
    OBVIOUS
  <2>1. PICK i \in S : \A j \in S : i <= j
    <3>1. S \in SUBSET Nat
      BY <1>1
    <3> HIDE DEF S
    <3> QED
      BY <3>1, LeastNat
  <2>2. i \in 0..n /\ ~(g[i] < 2^i) /\ i \in Nat
    BY <1>1, <2>1
  <2>3. i # 0
    <3>1. g[0] = 0 /\ 2^0 = 1 /\ 0 < 1
      BY <1>3, <1>6, <2>2
    <3> QED
      BY <2>2, <3>1, Zenon
  <2>4. i - 1 \in 0..n /\ ~(i <= i - 1) /\ i \in 1..n /\ (i - 1) + 1 = i
    BY <1>1, <2>2, <2>3
  <2>5. g[i - 1] < 2^(i - 1)
    <3>1. i - 1 \notin S
      <4> HIDE DEF S
      <4> QED
        BY <2>1, <2>4, Zenon
    <3> QED
      BY <2>4, <3>1, Zenon
  <2>6. 2^(i - 1) \in Nat /\ 2^((i - 1) + 1) = 2 * 2^(i - 1)
    BY <1>6, <2>4, Zenon
  <2>7. 2^i = 2 * 2^(i - 1)
    BY <2>4, <2>6
  <2>8. g[i] = 2 * g[i - 1] + s[i] /\ s[i] \in Bit
    BY <1>1, <1>3, <2>4, Zenon
  <2>9. g[i - 1] \in Nat
    BY <1>4, <2>4, Zenon
  <2> HIDE DEF S
  <2> DEFINE a == g[i - 1]
             q == 2^(i - 1)
             e == s[i]
  <2>10. g[i] = 2 * a + e /\ 2^i = 2 * q /\ a \in Nat /\ q \in Nat /\ a < q /\ e \in Bit
    BY <2>5, <2>6, <2>7, <2>8, <2>9
  <2> HIDE DEF a, q, e
  <2>11. 2 * a + e < 2 * q
    BY <2>10 DEF Bit
  <2> QED
    BY <2>2, <2>10, <2>11
<1>8. \A k \in 0..n : g[n] \div 2^k = g[n - k]
  <2> DEFINE S == {k \in 0..n : g[n] \div 2^k # g[n - k]}
  <2> SUFFICES ASSUME S # {} PROVE FALSE
    OBVIOUS
  <2>1. PICK k \in S : \A j \in S : k <= j
    <3>1. S \in SUBSET Nat
      BY <1>1
    <3> HIDE DEF S
    <3> QED
      BY <3>1, LeastNat
  <2>2. k \in 0..n /\ g[n] \div 2^k # g[n - k] /\ k \in Nat
    BY <1>1, <2>1
  <2>3. g[n] \in Nat
    <3>1. n \in 0..n
      BY <1>1
    <3> QED
      BY <1>4, <3>1, Zenon
  <2>4. k # 0
    <3> SUFFICES ASSUME k = 0 PROVE FALSE
      OBVIOUS
    <3>1. 2^0 = 1 /\ n - 0 = n /\ g[n] \div 1 = g[n]
      BY <1>1, <1>6, <2>2, <2>3
    <3> QED
      BY <2>2, <3>1
  <2>5. /\ k - 1 \in 0..n /\ ~(k <= k - 1) /\ (k - 1) + 1 = k
        /\ n - k \in 0..n /\ n - (k - 1) \in 1..n /\ (n - (k - 1)) - 1 = n - k
    BY <1>1, <2>2, <2>4
  <2>6. g[n] \div 2^(k - 1) = g[n - (k - 1)]
    <3>1. k - 1 \notin S
      <4> HIDE DEF S
      <4> QED
        BY <2>1, <2>5, Zenon
    <3> QED
      BY <2>5, <3>1, Zenon
  <2>7. 2^(k - 1) \in Nat /\ 2^(k - 1) > 0 /\ 2^((k - 1) + 1) = 2 * 2^(k - 1)
    BY <1>6, <2>5, Zenon
  <2> DEFINE q == 2^(k - 1)
             i == n - (k - 1)
             e == s[i]
             a == g[n - k]
             z == g[n]
  <2>8. 2^k = 2 * q /\ q \in Nat /\ q > 0
    BY <2>5, <2>7
  <2>9. z \div q = 2 * a + e /\ a \in Nat /\ e \in Bit
    <3>1. g[i] = 2 * g[i - 1] + s[i] /\ s[i] \in Bit
      BY <1>1, <1>3, <2>5, Zenon
    <3>2. g[i - 1] = a
      BY <2>5
    <3>3. a \in Nat
      BY <1>4, <2>5, Zenon
    <3> QED
      BY <2>6, <3>1, <3>2, <3>3, Zenon
  <2> HIDE DEF S, q, e, a, z, i
  <2>10. z \div (2 * q) = (z \div q) \div 2
    <3>1. z \in Int
      BY <2>3 DEF z
    <3> QED
      BY <2>8, <3>1, DivisionTwice
  <2>11. (2 * a + e) \div 2 = a
    BY <2>9 DEF Bit
  <2>12. z \div (2 * q) = a
    BY <2>9, <2>10, <2>11
  <2> QED
    BY <2>2, <2>8, <2>12 DEF z, a
<1>9. g[n] \in Nat /\ g[n] < 2^n
  <2>1. n \in 0..n
    BY <1>1
  <2> QED
    BY <1>4, <1>7, <2>1, Zenon
<1> DEFINE b == Bits(g[n], n)
<1>10. b \in Seq(Bit) /\ Len(b) = n /\ \A i \in 1..n : b[i] = (g[n] \div 2^(n - i)) % 2
  BY <1>9, BitsType
<1> HIDE DEF b
<1>11. ASSUME NEW i \in 1..n PROVE b[i] = s[i]
  <2>1. n - i \in 0..n /\ n - (n - i) = i /\ i - 1 \in 0..n
    BY <1>1
  <2>2. g[n] \div 2^(n - i) = g[i]
    BY <1>8, <2>1
  <2>3. b[i] = g[i] % 2
    BY <1>10, <2>2, Zenon
  <2>4. g[i] = 2 * g[i - 1] + s[i] /\ s[i] \in Bit
    BY <1>1, <1>3, Zenon
  <2>5. g[i - 1] \in Nat
    BY <1>4, <2>1, Zenon
  <2> DEFINE a == g[i - 1]
             e == s[i]
  <2> HIDE DEF a, e
  <2>6. (2 * a + e) % 2 = e
    BY <2>4, <2>5 DEF Bit, a, e
  <2> QED
    BY <2>3, <2>4, <2>6, Zenon DEF a, e
<1>12. b = s
  BY <1>10, <1>11, SeqEqual
<1> QED
  BY <1>5, <1>9, <1>12 DEF b

-----------------------------------------------------------------------------
(* Words and heads.                                                         *)

\* Words are made of bytes.
LEMMA WordSize ==
  /\ WordBytes \in Nat /\ WordBytes >= 1 /\ WordBits = 8 * WordBytes
  /\ WordBits \in Nat /\ WordBits >= 8
<1>1. WordBits \in Nat /\ WordBits >= 8
  BY WordAssumption
<1> QED
  BY <1>1, WordAssumption DEF WordBytes

\* A byte has 8 bits.
LEMMA ByteValues == 2^8 = 256
<1>1. \A k \in 0..8 : 2^0 = 1 /\ 2^(k + 1) = 2 * 2^k
  <2> TAKE k \in 0..8
  <2>1. k \in 0..WordBits
    BY WordSize
  <2> QED
    BY <2>1, Powers2
<1>2. 2^0 = 1
  BY <1>1
<1>3. 2^(0 + 1) = 2 * 2^0 /\ 2^(1 + 1) = 2 * 2^1 /\ 2^(2 + 1) = 2 * 2^2 /\ 2^(3 + 1) = 2 * 2^3
  BY <1>1
<1>4. 2^(4 + 1) = 2 * 2^4 /\ 2^(5 + 1) = 2 * 2^5 /\ 2^(6 + 1) = 2 * 2^6 /\ 2^(7 + 1) = 2 * 2^7
  BY <1>1
<1>5. 2^1 = 2 * 2^0 /\ 2^2 = 2 * 2^1 /\ 2^3 = 2 * 2^2 /\ 2^4 = 2 * 2^3
  BY <1>3
<1>6. 2^5 = 2 * 2^4 /\ 2^6 = 2 * 2^5 /\ 2^7 = 2 * 2^6 /\ 2^8 = 2 * 2^7
  BY <1>4
<1> QED
  BY <1>2, <1>5, <1>6

\* The bytes of a word.
LEMMA PutWordType ==
  ASSUME NEW u \in Nat
  PROVE  /\ PutWord(u) \in Seq(Byte) /\ Len(PutWord(u)) = WordBytes
         /\ \A i \in 1..WordBytes : PutWord(u)[i] = (u \div 2^(8 * (i - 1))) % 256
<1> DEFINE w == PutWord(u)
<1>1. w = [i \in 1..WordBytes |-> (u \div 2^(8 * (i - 1))) % 256]
  BY DEF PutWord
<1>2. ASSUME NEW i \in 1..WordBytes PROVE (u \div 2^(8 * (i - 1))) % 256 \in Byte
  <2>1. 8 * (i - 1) \in 0..WordBits
    BY WordSize
  <2> DEFINE p == 2^(8 * (i - 1))
  <2>2. p \in Nat /\ p > 0
    BY <2>1, Powers2
  <2> HIDE DEF p
  <2>3. u \div p \in Int
    BY <2>2, Division
  <2>4. (u \div p) % 256 \in Byte
    BY <2>3 DEF Byte
  <2> QED
    BY <2>4 DEF p
<1> HIDE DEF w
<1>3. w \in [1..WordBytes -> Byte]
  BY <1>1, <1>2, Zenon
<1>4. w \in Seq(Byte) /\ Len(w) = WordBytes
  BY <1>3, WordSize
<1>5. \A i \in 1..WordBytes : w[i] = (u \div 2^(8 * (i - 1))) % 256
  BY <1>1, Zenon
<1> QED
  BY <1>4, <1>5 DEF w

\* They make the word.
LEMMA GetPutWord ==
  ASSUME NEW u \in 0..(Modulus - 1)
  PROVE  GetWord(PutWord(u)) = u
<1> DEFINE n == WordBytes
           w == PutWord(u)
           d == Reverse(w)
           p == [i \in 0..n |-> 2^(8 * (n - i))]
<1>1. n \in Nat /\ u \in Nat /\ u < Modulus /\ WordBits = 8 * n
  BY WordSize, VarintLen
<1>2. w \in Seq(Byte) /\ Len(w) = n /\ \A i \in 1..n : w[i] = (u \div 2^(8 * (i - 1))) % 256
  BY <1>1, PutWordType
<1> HIDE DEF n, w
<1>3. d = [i \in 1..n |-> w[(n - i) + 1]]
  BY <1>2 DEF Reverse
<1>4. d \in Seq(Nat) /\ Len(d) = n
  <2>1. \A i \in 1..n : (n - i) + 1 \in 1..n
    BY <1>1
  <2>2. \A i \in 1..n : w[(n - i) + 1] \in Nat
    BY <1>2, <2>1 DEF Byte
  <2> HIDE DEF d
  <2> QED
    BY <1>1, <1>3, <2>2
<1> HIDE DEF d
<1>5. \A i \in 0..n : 8 * (n - i) \in 0..WordBits
  BY <1>1
<1>6. \A i \in 0..n : 2^(8 * (n - i)) \in Nat /\ 2^(8 * (n - i)) > 0
  BY <1>5, Powers2
<1>7. p \in [0..n -> Nat]
  BY <1>6
<1>8. \A i \in 0..n : p[i] = 2^(8 * (n - i))
  OBVIOUS
<1> HIDE DEF p
<1>9. p[n] = 1
  <2>1. n \in 0..n /\ 8 * (n - n) = 0 /\ 0 \in 0..WordBits
    BY <1>1
  <2>2. 2^0 = 1
    BY <2>1, Powers2
  <2>3. p[n] = 2^(8 * (n - n))
    BY <1>8, <2>1, Zenon
  <2> QED
    BY <2>1, <2>2, <2>3
<1>10. u < p[0]
  <2>1. 0 \in 0..n /\ 8 * (n - 0) = WordBits
    BY <1>1
  <2>2. p[0] = 2^(8 * (n - 0))
    BY <1>8, <2>1, Zenon
  <2>3. p[0] = Modulus
    BY <2>1, <2>2 DEF Modulus
  <2> QED
    BY <1>1, <2>3
<1>11. ASSUME NEW i \in 1..n PROVE p[i] > 0 /\ p[i - 1] = 256 * p[i]
  <2> DEFINE e == 8 * (n - i)
  <2>1. i \in 0..n /\ i - 1 \in 0..n /\ 8 * (n - (i - 1)) = 8 + e /\ e \in Nat /\ 8 + e \in 0..WordBits
    BY <1>1
  <2>2. p[i] = 2^e /\ p[i - 1] = 2^(8 * (n - (i - 1)))
    BY <1>8, <2>1, Zenon
  <2>3. p[i - 1] = 2^(8 + e)
    BY <2>1, <2>2
  <2>4. 2^e \in Nat /\ 2^e > 0
    BY <1>6, <2>1
  <2> HIDE DEF e
  <2>5. 8 + e \in Exponents
    BY <2>1, WordAssumption, CalendarAssumption, FloatAssumption DEF Exponents
  <2>6. 2^(8 + e) = 2^8 * 2^e
    BY <2>1, <2>5, PowerSum
  <2> QED
    BY <2>2, <2>3, <2>4, <2>6, ByteValues
<1>12. ASSUME NEW i \in 1..n PROVE d[i] = (u \div p[i]) % 256
  <2>1. (n - i) + 1 \in 1..n /\ ((n - i) + 1) - 1 = n - i /\ i \in 0..n
    BY <1>1
  <2>2. d[i] = w[(n - i) + 1]
    BY <1>3, Zenon
  <2>3. w[(n - i) + 1] = (u \div 2^(8 * (((n - i) + 1) - 1))) % 256
    BY <1>2, <2>1, Zenon
  <2>4. p[i] = 2^(8 * (n - i))
    BY <1>8, <2>1, Zenon
  <2> QED
    BY <2>1, <2>2, <2>3, <2>4
<1>13. Number(d, 256) = u
  <2>1. 256 \in Nat /\ 256 > 0
    OBVIOUS
  <2>2. \A i \in 1..n : p[i] > 0 /\ p[i - 1] = 256 * p[i]
    BY <1>11, Zenon
  <2>3. \A i \in 1..n : d[i] = (u \div p[i]) % 256
    BY <1>12, Zenon
  <2>4. \A e \in Seq(Nat) :
          Len(e) = n /\ (\A i \in 1..n : e[i] = (u \div p[i]) % 256) => Number(e, 256) = u
    <3> DEFINE base == 256
    <3>1. base \in Nat /\ base > 0 /\ \A i \in 1..n : p[i] > 0 /\ p[i - 1] = base * p[i]
      BY <2>1, <2>2, Zenon
    <3> HIDE DEF base
    <3>2. u \in Nat /\ n \in Nat
      BY <1>1, Zenon
    <3>3. \A e \in Seq(Nat) :
            Len(e) = n /\ (\A i \in 1..n : e[i] = (u \div p[i]) % base) => Number(e, base) = u
      BY <1>7, <1>9, <1>10, <3>1, <3>2, NumberOfDigits, Zenon
    <3> QED
      BY <3>3, Zenon DEF base
  <2> QED
    BY <1>4, <2>3, <2>4, Zenon
<1> QED
  BY <1>13, Zenon DEF GetWord, d, w

\* Words are taken modulo a positive, even number.
LEMMA WordModulus ==
  /\ Modulus \in Nat /\ Modulus > 0
  /\ Modulus \div 2 \in Nat /\ Modulus = 2 * (Modulus \div 2)
  /\ \A x \in Int : Unsigned(x) \in 0..(Modulus - 1) /\ Unsigned(x) \in Nat
<1>1. Modulus \in Nat /\ Modulus > 0
  <2>1. WordBits \in 0..WordBits
    BY WordSize
  <2> QED
    BY <2>1, Powers2 DEF Modulus
<1>2. Modulus \div 2 \in Nat /\ Modulus = 2 * (Modulus \div 2)
  BY MomentsAreInts
<1>3. \A x \in Int : x % Modulus \in 0..(Modulus - 1) /\ x % Modulus \in Nat
  <2> DEFINE p == Modulus
  <2>1. p \in Nat /\ p > 0
    BY <1>1
  <2> HIDE DEF p
  <2>2. \A x \in Int : x % p \in 0..(p - 1) /\ x % p \in Nat
    BY <2>1
  <2> QED
    BY <2>2 DEF p
<1> QED
  BY <1>1, <1>2, <1>3 DEF Unsigned

Columns == {s \in Seq(Int) : Len(s) < Modulus}

\* What a reader gets from the head of a block, and the word that is written there.
HeadOf(column) ==
  IF column = <<>> THEN [count |-> 0] ELSE [count |-> Len(column), first |-> Unsigned(column[1])]
HeadWord(column) == IF column = <<>> THEN <<>> ELSE PutWord(Unsigned(column[1]))

\* The head is a count and a word.
LEMMA PutHeadType ==
  ASSUME NEW column \in Columns
  PROVE  /\ Len(column) \in 0..(Modulus - 1)
         /\ PutUvarint(Len(column)) \in Seq(Byte) /\ HeadWord(column) \in Seq(Byte)
         /\ column # <<>> => Len(column) # 0 /\ column[1] \in Int /\ Len(HeadWord(column)) = WordBytes
         /\ PutHead(column) = PutUvarint(Len(column)) \o HeadWord(column)
         /\ PutHead(column) \in Seq(Byte)
<1>1. column \in Seq(Int) /\ Len(column) \in 0..(Modulus - 1) /\ Len(column) \in Nat
  <2>1. column \in Seq(Int) /\ Len(column) < Modulus
    BY Zenon DEF Columns
  <2> QED
    BY <2>1, VarintLen
<1>2. PutUvarint(Len(column)) \in Seq(Byte)
  BY <1>1, PutUvarintParts
<1>3. CASE column = <<>>
  <2>1. HeadWord(column) = <<>> /\ <<>> \in Seq(Byte)
    BY <1>3, EmptySeq DEF HeadWord
  <2>2. PutHead(column) = PutUvarint(Len(column)) \o HeadWord(column)
    BY Zenon DEF PutHead, HeadWord
  <2>3. PutHead(column) \in Seq(Byte)
    BY <1>2, <2>1, <2>2, ConcatProperties
  <2> QED
    BY <1>1, <1>2, <1>3, <2>1, <2>2, <2>3, Zenon
<1>4. CASE column # <<>>
  <2>1. Len(column) # 0 /\ column[1] \in Int
    BY <1>1, <1>4
  <2>2. Unsigned(column[1]) \in Nat
    BY <2>1, WordModulus
  <2>3. HeadWord(column) = PutWord(Unsigned(column[1]))
    BY <1>4, Zenon DEF HeadWord
  <2>4. HeadWord(column) \in Seq(Byte) /\ Len(HeadWord(column)) = WordBytes
    BY <2>2, <2>3, PutWordType
  <2>5. PutHead(column) = PutUvarint(Len(column)) \o HeadWord(column)
    BY Zenon DEF PutHead, HeadWord
  <2> QED
    BY <1>1, <1>2, <2>1, <2>4, <2>5, ConcatProperties
<1> QED
  BY <1>3, <1>4

\* After a head, the reader returns it and leaves the rest.
LEMMA GetHeadWhole ==
  ASSUME NEW column \in Columns, NEW c \in Seq(Byte)
  PROVE  GetHead(PutHead(column) \o c) = Read(HeadOf(column), c)
<1> DEFINE x == PutUvarint(Len(column))
           y == HeadWord(column)
           t == y \o c
           n == Len(column)
<1>1. n \in 0..(Modulus - 1) /\ x \in Seq(Byte) /\ y \in Seq(Byte) /\ PutHead(column) = x \o y
  BY PutHeadType
<1>2. t \in Seq(Byte) /\ Len(t) = Len(y) + Len(c) /\ Len(y) \in Nat /\ Len(c) \in Nat
  BY <1>1, ConcatProperties
<1>3. PutHead(column) \o c = x \o t
  BY <1>1, ConcatAssociative
<1>4. GetUvarint(x \o t) = Read(n, t)
  BY <1>1, <1>2, GetUvarintWhole
<1>5. LET r == GetUvarint(x \o t) IN r.err = "nil" /\ r.v = n /\ r.rest = t
  <2> HIDE DEF x, t, n
  <2> QED
    BY <1>4, ReadParts
<1>6. CASE column = <<>>
  <2>1. n = 0 /\ y = <<>>
    BY <1>6 DEF HeadWord
  <2>2. t = c
    BY <2>1, ConcatEmptySeq
  <2>3. HeadOf(column) = [count |-> 0]
    BY <1>6, Zenon DEF HeadOf
  <2> HIDE DEF x, t, n
  <2>4. GetHead(x \o t) = Read([count |-> 0], t)
    BY <1>5, <2>1, Zenon DEF GetHead, Then
  <2> QED
    BY <1>3, <2>2, <2>3, <2>4, Zenon
<1>7. CASE column # <<>>
  <2>1. n # 0 /\ column[1] \in Int /\ Len(y) = WordBytes
    BY <1>7, PutHeadType
  <2> DEFINE u == Unsigned(column[1])
  <2>2. u \in 0..(Modulus - 1)
    BY <2>1, WordModulus
  <2>3. y = PutWord(u) /\ HeadOf(column) = [count |-> n, first |-> u]
    BY <1>7, Zenon DEF HeadWord, HeadOf
  <2>4. SubSeq(t, Len(y) + 1, Len(t)) = c /\ SubSeq(t, 1, Len(y)) = y
    BY <1>1, RestOfConcat
  <2>5. SubSeq(t, WordBytes + 1, Len(t)) = c /\ SubSeq(t, 1, WordBytes) = y
    BY <2>1, <2>4
  <2>6. ~(Len(t) < WordBytes)
    BY <1>2, <2>1
  <2> HIDE DEF x, t, n, u, y
  <2>7. GetHead(x \o t) = Read([count |-> n, first |-> GetWord(SubSeq(t, 1, WordBytes))],
                               SubSeq(t, WordBytes + 1, Len(t)))
    BY <1>5, <2>1, <2>6, Zenon DEF GetHead, Then
  <2>8. GetWord(y) = u
    BY <2>2, <2>3, GetPutWord
  <2> QED
    BY <1>3, <2>3, <2>5, <2>7, <2>8
<1> QED
  BY <1>6, <1>7

\* After a part of a head, it fails with "eof".
LEMMA GetHeadTorn ==
  ASSUME NEW column \in Columns, NEW b \in Seq(Byte),
         Len(b) < Len(PutHead(column)), Starts(b, PutHead(column))
  PROVE  GetHead(b) = Fail("eof")
<1> DEFINE x == PutUvarint(Len(column))
           y == HeadWord(column)
           n == Len(column)
<1>1. n \in 0..(Modulus - 1) /\ x \in Seq(Byte) /\ y \in Seq(Byte) /\ PutHead(column) = x \o y
  BY PutHeadType
<1>2. \/ Len(b) < Len(x) /\ Starts(b, x)
      \/ \E c \in Seq(Byte) : b = x \o c /\ Starts(c, y)
  BY <1>1, CutOfConcat
<1>3. CASE Len(b) < Len(x) /\ Starts(b, x)
  <2>1. GetUvarint(b) = Fail("eof")
    BY <1>1, <1>3, GetUvarintTorn
  <2>2. Fail("eof").err = "eof" /\ "eof" # "nil"
    BY ReadParts
  <2> QED
    BY <2>1, <2>2, Zenon DEF GetHead, Then
<1>4. ASSUME NEW c \in Seq(Byte), b = x \o c, Starts(c, y)
      PROVE  GetHead(b) = Fail("eof")
  <2>1. GetUvarint(b) = Read(n, c)
    BY <1>1, <1>4, GetUvarintWhole
  <2>2. Len(b) = Len(x) + Len(c) /\ Len(x \o y) = Len(x) + Len(y)
    BY <1>1, <1>4, ConcatProperties
  <2>3. Len(c) < Len(y)
    BY <1>1, <2>2
  <2>4. column # <<>>
    <3> SUFFICES ASSUME column = <<>> PROVE FALSE
      OBVIOUS
    <3>1. y = <<>>
      BY Zenon DEF HeadWord
    <3> QED
      BY <2>3, <3>1
  <2>5. n # 0 /\ Len(y) = WordBytes
    BY <2>4, PutHeadType
  <2>6. Len(c) < WordBytes
    BY <2>3, <2>5
  <2>7. LET r == GetUvarint(b) IN r.err = "nil" /\ r.v = n /\ r.rest = c
    BY <2>1, ReadParts
  <2> HIDE DEF n, x
  <2> QED
    BY <2>5, <2>6, <2>7, Zenon DEF GetHead, Then
<1> QED
  BY <1>2, <1>3, <1>4

-----------------------------------------------------------------------------
(* Timestamps.                                                              *)

\* Where a number next to the int64 wraps to.
LEMMA WrapNear ==
  ASSUME NEW h \in Nat, Modulus = 2 * h, h > 0, NEW x \in -(3 * h)..(3 * h - 1)
  PROVE  Wrap(x) = IF x >= h THEN x - 2 * h ELSE IF x < -h THEN x + 2 * h ELSE x
<1> DEFINE p == 2 * h
<1>1. p \in Nat /\ p > 0 /\ p \div 2 = h
  OBVIOUS
<1>2. \A q \in Int : \A r \in 0..(p - 1) : (p * q + r) % p = r
  <2> HIDE DEF p
  <2> QED
    BY <1>1, DivisionUnique
<1>3. Wrap(x) = IF x % p >= h THEN (x % p) - p ELSE x % p
  BY <1>1 DEF Wrap, Signed, Unsigned
<1>4. CASE x >= 2 * h
  <2>1. x - 2 * h \in 0..(p - 1) /\ x = p * 1 + (x - 2 * h) /\ 1 \in Int
    BY <1>4
  <2>2. x % p = x - 2 * h
    BY <1>2, <2>1
  <2> HIDE DEF p
  <2> QED
    BY <1>3, <1>4, <2>2
<1>5. CASE 0 <= x /\ x < 2 * h
  <2>1. x \in 0..(p - 1) /\ x = p * 0 + x /\ 0 \in Int
    BY <1>5
  <2>2. x % p = x
    BY <1>2, <2>1
  <2> QED
    BY <1>3, <1>5, <2>2
<1>6. CASE -(2 * h) <= x /\ x < 0
  <2>1. x + 2 * h \in 0..(p - 1) /\ x = p * (-1) + (x + 2 * h) /\ -1 \in Int
    BY <1>6
  <2>2. x % p = x + 2 * h
    BY <1>2, <2>1
  <2> QED
    BY <1>3, <1>6, <2>2
<1>7. CASE x < -(2 * h)
  <2>1. x + 4 * h \in 0..(p - 1) /\ x = p * (-2) + (x + 4 * h) /\ -2 \in Int
    BY <1>7
  <2>2. x % p = x + 4 * h
    BY <1>2, <2>1
  <2> QED
    BY <1>3, <1>7, <2>2
<1> QED
  BY <1>4, <1>5, <1>6, <1>7

\* A wrapped difference leads back, and no other number.
LEMMA WrapBack ==
  ASSUME NEW d \in SignedWords, NEW e \in SignedWords
  PROVE  /\ d \in Int /\ Wrap(e - d) \in SignedWords
         /\ Wrap(d + Wrap(e - d)) = e /\ Signed(Unsigned(e)) = e
<1> DEFINE h == Modulus \div 2
           x == e - d
           y == Wrap(x)
<1>1. h \in Nat /\ Modulus = 2 * h /\ h > 0 /\ SignedWords = -h..(h - 1)
  BY WordModulus DEF SignedWords
<1> HIDE DEF h
<1>2. d \in Int /\ e \in Int /\ -h <= d /\ d < h /\ -h <= e /\ e < h
  BY <1>1
<1>3. x \in -(3 * h)..(3 * h - 1) /\ e \in -(3 * h)..(3 * h - 1)
  BY <1>1, <1>2
<1>4. y = IF x >= h THEN x - 2 * h ELSE IF x < -h THEN x + 2 * h ELSE x
  BY <1>1, <1>3, WrapNear
<1>5. Wrap(e) = IF e >= h THEN e - 2 * h ELSE IF e < -h THEN e + 2 * h ELSE e
  BY <1>1, <1>3, WrapNear
<1> HIDE DEF y
<1>6. y \in -h..(h - 1) /\ d + y \in -(3 * h)..(3 * h - 1)
  BY <1>1, <1>2, <1>4
<1>7. Wrap(d + y) = IF d + y >= h THEN d + y - 2 * h ELSE IF d + y < -h THEN d + y + 2 * h ELSE d + y
  BY <1>1, <1>6, WrapNear
<1>8. Wrap(d + y) = e
  BY <1>1, <1>2, <1>4, <1>7
<1>9. Wrap(e) = e
  BY <1>1, <1>2, <1>5
<1> QED
  BY <1>1, <1>2, <1>6, <1>8, <1>9 DEF y, Wrap

Zigzag(x) == IF x >= 0 THEN 2 * x ELSE -2 * x - 1

\* The sign in the lowest bit.
LEMMA ZigzagBack ==
  ASSUME NEW x \in SignedWords
  PROVE  /\ Zigzag(x) \in 0..(Modulus - 1) /\ PutVarint(x) = PutUvarint(Zigzag(x))
         /\ (IF Zigzag(x) % 2 = 0 THEN Zigzag(x) \div 2 ELSE -((Zigzag(x) + 1) \div 2)) = x
<1> DEFINE h == Modulus \div 2
<1>1. h \in Nat /\ Modulus = 2 * h /\ h > 0 /\ SignedWords = -h..(h - 1)
  BY WordModulus DEF SignedWords
<1> HIDE DEF h
<1>2. x \in Int /\ -h <= x /\ x < h
  BY <1>1
<1>3. Zigzag(x) \in 0..(Modulus - 1)
  BY <1>1, <1>2 DEF Zigzag
<1>4. (IF Zigzag(x) % 2 = 0 THEN Zigzag(x) \div 2 ELSE -((Zigzag(x) + 1) \div 2)) = x
  BY <1>2 DEF Zigzag
<1>5. PutVarint(x) = PutUvarint(Zigzag(x))
  BY DEF PutVarint, Zigzag
<1> QED
  BY <1>3, <1>4, <1>5

\* After a signed varint, the reader returns it and leaves the rest.
LEMMA GetVarintWhole ==
  ASSUME NEW x \in SignedWords, NEW c \in Seq(Byte)
  PROVE  PutVarint(x) \in Seq(Byte) /\ GetVarint(PutVarint(x) \o c) = Read(x, c)
<1> DEFINE z == Zigzag(x)
           b == PutUvarint(z) \o c
<1>1. z \in 0..(Modulus - 1) /\ PutVarint(x) = PutUvarint(z)
  BY ZigzagBack
<1>2. (IF z % 2 = 0 THEN z \div 2 ELSE -((z + 1) \div 2)) = x
  BY ZigzagBack
<1> HIDE DEF z
<1>3. PutUvarint(z) \in Seq(Byte)
  BY <1>1, PutUvarintParts
<1>4. GetUvarint(b) = Read(z, c)
  BY <1>1, GetUvarintWhole
<1> HIDE DEF b
<1>5. LET r == GetUvarint(b) IN r.err = "nil" /\ r.v = z /\ r.rest = c
  BY <1>4, ReadParts
<1>6. GetVarint(b) = Read(IF z % 2 = 0 THEN z \div 2 ELSE -((z + 1) \div 2), c)
  BY <1>5, Zenon DEF GetVarint, Then
<1> QED
  BY <1>1, <1>2, <1>3, <1>6, Zenon DEF b

\* After a part of it, it fails with "eof".
LEMMA GetVarintTorn ==
  ASSUME NEW x \in SignedWords, NEW b \in Seq(Byte),
         Len(b) < Len(PutVarint(x)), Starts(b, PutVarint(x))
  PROVE  GetVarint(b) = Fail("eof")
<1>1. Zigzag(x) \in 0..(Modulus - 1) /\ PutVarint(x) = PutUvarint(Zigzag(x))
  BY ZigzagBack
<1>2. GetUvarint(b) = Fail("eof")
  BY <1>1, GetUvarintTorn
<1>3. Fail("eof").err = "eof" /\ "eof" # "nil"
  BY ReadParts
<1> QED
  BY <1>2, <1>3, Zenon DEF GetVarint, Then

\* The difference that is kept with a timestamp.
TimeDelta(ts, i) == IF i = 1 THEN 0 ELSE Wrap(ts[i] - ts[i - 1])

\* The deltas of a column and what is written for them.
LEMMA DeltasType ==
  ASSUME NEW ts \in Seq(SignedWords), ts # <<>>
  PROVE  /\ Len(ts) \in Nat /\ Len(ts) >= 1
         /\ \A i \in 1..Len(ts) : ts[i] \in SignedWords /\ TimeDelta(ts, i) \in SignedWords
         /\ PutDeltas(ts) \in Seq(Seq(Byte)) /\ Len(PutDeltas(ts)) = Len(ts) - 1
         /\ \A i \in 1..(Len(ts) - 1) :
              /\ Wrap(TimeDelta(ts, i + 1) - TimeDelta(ts, i)) \in SignedWords
              /\ PutDeltas(ts)[i] = PutVarint(Wrap(TimeDelta(ts, i + 1) - TimeDelta(ts, i)))
<1> DEFINE n == Len(ts)
           w == PutDeltas(ts)
<1>1. n \in Nat /\ n >= 1 /\ \A i \in 1..n : ts[i] \in SignedWords
  OBVIOUS
<1>2. 0 \in SignedWords
  <2>1. Modulus \div 2 \in Nat /\ Modulus \div 2 > 0
    BY WordModulus
  <2> QED
    BY <2>1 DEF SignedWords
<1>3. ASSUME NEW i \in 1..n PROVE TimeDelta(ts, i) \in SignedWords
  <2>1. CASE i = 1
    BY <1>2, <2>1, Zenon DEF TimeDelta
  <2>2. CASE i # 1
    <3>1. i - 1 \in 1..n
      BY <1>1, <2>2
    <3>2. ts[i] \in SignedWords /\ ts[i - 1] \in SignedWords
      BY <1>1, <3>1
    <3>3. Wrap(ts[i] - ts[i - 1]) \in SignedWords
      BY <3>2, WrapBack
    <3> QED
      BY <2>2, <3>3, Zenon DEF TimeDelta
  <2> QED
    BY <2>1, <2>2
<1>4. w = [i \in 1..(n - 1) |-> PutVarint(Wrap(TimeDelta(ts, i + 1) - TimeDelta(ts, i)))]
  BY DEF PutDeltas, TimeDelta
<1> HIDE DEF n, w
<1>5. ASSUME NEW i \in 1..(n - 1)
      PROVE  /\ Wrap(TimeDelta(ts, i + 1) - TimeDelta(ts, i)) \in SignedWords
             /\ PutVarint(Wrap(TimeDelta(ts, i + 1) - TimeDelta(ts, i))) \in Seq(Byte)
  <2>1. i \in 1..n /\ i + 1 \in 1..n
    BY <1>1
  <2>2. Wrap(TimeDelta(ts, i + 1) - TimeDelta(ts, i)) \in SignedWords
    BY <1>3, <2>1, WrapBack
  <2>3. <<>> \in Seq(Byte)
    OBVIOUS
  <2> QED
    BY <2>2, <2>3, GetVarintWhole
<1>6. w \in [1..(n - 1) -> Seq(Byte)]
  BY <1>4, <1>5, Zenon
<1>7. w \in Seq(Seq(Byte)) /\ Len(w) = n - 1
  <2>1. n - 1 \in Nat
    BY <1>1
  <2> QED
    BY <1>6, <2>1
<1>8. \A i \in 1..(n - 1) : w[i] = PutVarint(Wrap(TimeDelta(ts, i + 1) - TimeDelta(ts, i)))
  BY <1>4, Zenon
<1> QED
  BY <1>1, <1>3, <1>5, <1>7, <1>8 DEF n, w

\* The first k + 1 timestamps of a file b, when it holds them.
TimestampsRead(b, ts, k) ==
  IF Len(Flat(PutDeltas(ts), k)) <= Len(b)
  THEN Read([column |-> SubSeq(ts, 1, k + 1), delta |-> TimeDelta(ts, k + 1)], Rest(b, PutDeltas(ts), k))
  ELSE Fail("eof")

\* After a delta, the reader adds a timestamp and leaves the rest.
LEMMA NextTimestampWhole ==
  ASSUME NEW ts \in Seq(SignedWords), ts # <<>>, NEW k \in 0..(Len(ts) - 2), NEW c \in Seq(Byte)
  PROVE  NextTimestamp(Read([column |-> SubSeq(ts, 1, k + 1), delta |-> TimeDelta(ts, k + 1)],
                            PutDeltas(ts)[k + 1] \o c))
           = Read([column |-> SubSeq(ts, 1, k + 2), delta |-> TimeDelta(ts, k + 2)], c)
<1> DEFINE s == SubSeq(ts, 1, k + 1)
           d == TimeDelta(ts, k + 1)
           e == TimeDelta(ts, k + 2)
           x == Wrap(e - d)
           b == PutVarint(x) \o c
           v == [column |-> s, delta |-> d]
           t == ts[k + 1]
           u == ts[k + 2]
<1>1. /\ Len(ts) \in Nat /\ k + 1 \in 1..Len(ts) /\ k + 2 \in 1..Len(ts) /\ k + 1 \in 1..(Len(ts) - 1)
      /\ (k + 1) + 1 = k + 2 /\ (k + 2) - 1 = k + 1 /\ k + 2 # 1 /\ k + 1 \in 0..Len(ts)
      /\ k + 1 \in 0..(Len(ts) - 1)
  OBVIOUS
<1>2. d \in SignedWords /\ e \in SignedWords /\ t \in SignedWords /\ u \in SignedWords
  BY <1>1, DeltasType
<1>3. x \in SignedWords /\ Wrap(d + x) = e
  BY <1>2, WrapBack
<1>4. e = Wrap(u - t)
  BY <1>1 DEF TimeDelta
<1>5. Wrap(t + e) = u
  BY <1>2, <1>4, WrapBack
<1>6. PutDeltas(ts)[k + 1] = PutVarint(x)
  <2>1. PutDeltas(ts)[k + 1] = PutVarint(Wrap(TimeDelta(ts, (k + 1) + 1) - TimeDelta(ts, k + 1)))
    BY <1>1, DeltasType
  <2> QED
    BY <1>1, <2>1
<1>7. GetVarint(b) = Read(x, c)
  BY <1>3, GetVarintWhole
<1>8. Last(s) = t
  <2>1. s \in Seq(SignedWords) /\ Len(s) = k + 1 /\ \A i \in 1..(k + 1) : s[i] = ts[i]
    BY <1>1, FirstWords
  <2> HIDE DEF s
  <2>2. k + 1 \in 1..(k + 1)
    BY <1>1
  <2> QED
    BY <2>1, <2>2 DEF Last
<1>9. Append(s, u) = SubSeq(ts, 1, k + 2)
  <2>1. Append(SubSeq(ts, 1, k + 1), ts[(k + 1) + 1]) = SubSeq(ts, 1, (k + 1) + 1)
    BY <1>1, OneMore
  <2> QED
    BY <1>1, <2>1
<1> HIDE DEF s, d, e, x, b, t, u
<1>10. v.column = s /\ v.delta = d
  OBVIOUS
<1> HIDE DEF v
<1>11. LET r == Read(v, b) IN r.v = v /\ r.rest = b
  BY ReadParts
<1>12. LET r == GetVarint(b) IN r.err = "nil" /\ r.v = x /\ r.rest = c
  BY <1>7, ReadParts
<1>13. NextTimestamp(Read(v, b))
         = Read([column |-> Append(s, Wrap(Last(s) + Wrap(d + x))), delta |-> Wrap(d + x)], c)
  BY <1>10, <1>11, <1>12, Zenon DEF NextTimestamp, Then
<1>14. NextTimestamp(Read(v, b)) = Read([column |-> SubSeq(ts, 1, k + 2), delta |-> e], c)
  BY <1>3, <1>5, <1>8, <1>9, <1>13
<1> QED
  BY <1>6, <1>14, Zenon DEF v, b, d, e, s

\* After a part of it, it fails with "eof".
LEMMA NextTimestampTorn ==
  ASSUME NEW x \in SignedWords, NEW b \in Seq(Byte), NEW v,
         Len(b) < Len(PutVarint(x)), Starts(b, PutVarint(x))
  PROVE  NextTimestamp(Read(v, b)) = Fail("eof")
<1>1. GetVarint(b) = Fail("eof")
  BY GetVarintTorn
<1>2. Fail("eof").err = "eof" /\ "eof" # "nil"
  BY ReadParts
<1>3. Read(v, b).rest = b
  BY ReadParts
<1> QED
  BY <1>1, <1>2, <1>3, Zenon DEF NextTimestamp, Then

\* Loops that start with the same value and do the same to it.
LEMMA LoopsAgree ==
  ASSUME NEW n \in Nat, NEW f, NEW g, f[0] = g[0],
         \A i \in 1..n : f[i - 1] = g[i - 1] => f[i] = g[i]
  PROVE  f[n] = g[n]
<1> DEFINE S == {i \in 0..n : f[i] # g[i]}
<1> SUFFICES ASSUME S # {} PROVE FALSE
  <2>1. n \in 0..n
    OBVIOUS
  <2> QED
    BY <2>1, Zenon
<1>1. PICK i \in S : \A j \in S : i <= j
  <2>1. S \in SUBSET Nat
    OBVIOUS
  <2> HIDE DEF S
  <2> QED
    BY <2>1, LeastNat
<1>2. i \in 0..n /\ f[i] # g[i]
  BY <1>1, Zenon
<1>3. i # 0
  BY <1>2, Zenon
<1>4. i \in 1..n /\ i - 1 \in 0..n /\ ~(i <= i - 1)
  BY <1>2, <1>3
<1>5. i - 1 \notin S
  <2> HIDE DEF S
  <2> QED
    BY <1>1, <1>4, Zenon
<1> QED
  BY <1>2, <1>4, <1>5, Zenon

\* The first words of a file that has no more than them.
LEMMA AllWords ==
  ASSUME NEW w \in Seq(Seq(Byte)), NEW b \in Seq(Byte)
  PROVE  /\ Flat(w, 0) = <<>> /\ Rest(b, w, 0) = b /\ Len(Flat(w, 0)) <= Len(b)
         /\ Flat(w, Len(w)) = FlattenSeq(w) /\ FlattenSeq(w) \in Seq(Byte)
         /\ FlattenSeq(w) \o <<>> = FlattenSeq(w)
         /\ \A k \in 0..(Len(w) - 1) : ~(Len(Flat(w, k)) <= Len(b)) => ~(Len(Flat(w, k + 1)) <= Len(b))
<1>1. Len(w) \in Nat /\ Len(b) \in Nat /\ Len(<<>>) = 0 /\ 0 + 1 = 1 /\ 0 \in 0..Len(w) /\ Len(w) \in 0..Len(w)
  OBVIOUS
<1>2. Flat(w, 0) = <<>>
  BY <1>1, FlatStep
<1>3. Len(Flat(w, 0)) <= Len(b)
  BY <1>1, <1>2
<1>4. Rest(b, w, 0) = b
  <2>1. SubSeq(b, 1, Len(b)) = b
    BY SubSeqFull
  <2> QED
    BY <1>1, <1>2, <2>1 DEF Rest
<1>5. Flat(w, Len(w)) = FlattenSeq(w)
  <2>1. SubSeq(w, 1, Len(w)) = w
    BY SubSeqFull
  <2> QED
    BY <2>1 DEF Flat
<1>6. FlattenSeq(w) \in Seq(Byte)
  BY <1>1, <1>5, FlatStep
<1>7. FlattenSeq(w) \o <<>> = FlattenSeq(w)
  BY <1>6, ConcatEmptySeq
<1>8. ASSUME NEW k \in 0..(Len(w) - 1), ~(Len(Flat(w, k)) <= Len(b))
      PROVE  ~(Len(Flat(w, k + 1)) <= Len(b))
  <2>1. k \in 0..Len(w) /\ k < Len(w) /\ k + 1 \in 1..Len(w)
    BY <1>1
  <2>2. Flat(w, k) \in Seq(Byte) /\ Flat(w, k + 1) = Flat(w, k) \o w[k + 1] /\ w[k + 1] \in Seq(Byte)
    BY <2>1, FlatStep
  <2>3. Len(Flat(w, k + 1)) = Len(Flat(w, k)) + Len(w[k + 1])
    BY <2>2, ConcatProperties
  <2>4. Len(Flat(w, k)) \in Nat /\ Len(w[k + 1]) \in Nat
    BY <2>2
  <2> QED
    BY <1>1, <1>8, <2>3, <2>4
<1> QED
  BY <1>2, <1>3, <1>4, <1>5, <1>6, <1>7, <1>8

\* The first element of a sequence.
LEMMA FirstElement ==
  ASSUME NEW D, NEW s \in Seq(D), s # <<>>
  PROVE  SubSeq(s, 1, 1) = <<s[1]>>
<1> DEFINE a == SubSeq(s, 1, 1)
           e == s[1]
           c == <<e>>
<1>1. 1 \in 0..Len(s) /\ e \in D
  OBVIOUS
<1>2. a \in Seq(D) /\ Len(a) = 1 /\ \A i \in 1..1 : a[i] = s[i]
  BY <1>1, FirstWords
<1>3. c \in Seq(D) /\ Len(c) = 1 /\ c[1] = e
  <2> HIDE DEF e
  <2> QED
    BY <1>1
<1>4. a[1] = e
  BY <1>2
<1> HIDE DEF a, c, e
<1>5. \A i \in 1..1 : a[i] = c[i]
  BY <1>3, <1>4
<1>6. a = c
  BY <1>2, <1>3, <1>5, SeqEqual
<1> QED
  BY <1>6 DEF a, c, e

\* The reader of timestamps, timestamp by timestamp.
LEMMA TimestampsStep ==
  ASSUME NEW ts \in Seq(SignedWords), ts # <<>>, NEW b \in Seq(Byte),
         Starts(b, FlattenSeq(PutDeltas(ts)))
  PROVE  /\ TimestampsRead(b, ts, 0) = Read([column |-> <<ts[1]>>, delta |-> 0], b)
         /\ \A k \in 0..(Len(ts) - 2) :
              TimestampsRead(b, ts, k + 1) = Then(TimestampsRead(b, ts, k), NextTimestamp)
<1> DEFINE w == PutDeltas(ts)
           V(k) == [column |-> SubSeq(ts, 1, k + 1), delta |-> TimeDelta(ts, k + 1)]
<1>1. /\ Len(ts) \in Nat /\ Len(ts) >= 1 /\ w \in Seq(Seq(Byte)) /\ Len(w) = Len(ts) - 1
  BY DeltasType
<1>2. \A k \in 0..(Len(w) - 1) :
        /\ Wrap(TimeDelta(ts, (k + 1) + 1) - TimeDelta(ts, k + 1)) \in SignedWords
        /\ w[k + 1] = PutVarint(Wrap(TimeDelta(ts, (k + 1) + 1) - TimeDelta(ts, k + 1)))
  <2> TAKE k \in 0..(Len(w) - 1)
  <2>1. k + 1 \in 1..(Len(ts) - 1)
    BY <1>1
  <2> QED
    BY <2>1, DeltasType
<1>3. \A k : TimestampsRead(b, ts, k) = IF Len(Flat(w, k)) <= Len(b) THEN Read(V(k), Rest(b, w, k)) ELSE Fail("eof")
  BY Zenon DEF TimestampsRead
<1>4. Starts(b, FlattenSeq(w) \o <<>>) /\ <<>> \in Seq(Byte)
  BY <1>1, AllWords
<1>5. \A k \in 0..(Len(w) - 1) : \A c \in Seq(Byte) : NextTimestamp(Read(V(k), w[k + 1] \o c)) = Read(V(k + 1), c)
  <2> TAKE k \in 0..(Len(w) - 1)
  <2> TAKE c \in Seq(Byte)
  <2>1. k \in 0..(Len(ts) - 2) /\ (k + 1) + 1 = k + 2
    BY <1>1
  <2> QED
    BY <2>1, NextTimestampWhole
<1> HIDE DEF w
<1>6. TimestampsRead(b, ts, 0) = Read([column |-> <<ts[1]>>, delta |-> 0], b)
  <2>1. V(0) = [column |-> <<ts[1]>>, delta |-> 0]
    <3>1. SubSeq(ts, 1, 0 + 1) = <<ts[1]>>
      BY FirstElement
    <3>2. TimeDelta(ts, 0 + 1) = 0
      BY DEF TimeDelta
    <3> QED
      BY <3>1, <3>2
  <2>2. Rest(b, w, 0) = b /\ Len(Flat(w, 0)) <= Len(b)
    BY <1>1, AllWords
  <2> HIDE DEF V
  <2> QED
    BY <1>3, <2>1, <2>2, Zenon
<1> HIDE DEF V
<1>7. ASSUME NEW k \in 0..(Len(w) - 1)
      PROVE  TimestampsRead(b, ts, k + 1) = Then(TimestampsRead(b, ts, k), NextTimestamp)
  <2>1. CASE ~(Len(Flat(w, k)) <= Len(b))
    <3>1. ~(Len(Flat(w, k + 1)) <= Len(b))
      BY <1>1, <2>1, AllWords
    <3>2. TimestampsRead(b, ts, k) = Fail("eof") /\ TimestampsRead(b, ts, k + 1) = Fail("eof")
      BY <1>3, <2>1, <3>1, Zenon
    <3>3. Fail("eof").err # "nil"
      BY ReadParts
    <3> QED
      BY <3>2, <3>3, Zenon DEF Then
  <2>2. CASE Len(Flat(w, k)) <= Len(b)
    <3> DEFINE r == Rest(b, w, k)
               v == V(k)
    <3>1. /\ r \in Seq(Byte)
          /\ \/ Len(r) < Len(w[k + 1]) /\ Starts(r, w[k + 1]) /\ ~(Len(Flat(w, k + 1)) <= Len(b))
             \/ /\ Len(Flat(w, k + 1)) <= Len(b)
                /\ Rest(b, w, k + 1) \in Seq(Byte) /\ r = w[k + 1] \o Rest(b, w, k + 1)
      BY <1>1, <1>4, <2>2, CutAtWord
    <3>2. TimestampsRead(b, ts, k) = Read(v, r)
      BY <1>3, <2>2, Zenon
    <3> HIDE DEF r, v
    <3>3. Then(TimestampsRead(b, ts, k), NextTimestamp) = NextTimestamp(Read(v, r))
      <4>1. Read(v, r).err = "nil"
        BY ReadParts
      <4> QED
        BY <3>2, <4>1, Zenon DEF Then
    <3>4. CASE Len(r) < Len(w[k + 1]) /\ Starts(r, w[k + 1]) /\ ~(Len(Flat(w, k + 1)) <= Len(b))
      <4>1. NextTimestamp(Read(v, r)) = Fail("eof")
        <5>1. PICK x \in SignedWords : w[k + 1] = PutVarint(x)
          BY <1>2, Zenon
        <5> QED
          BY <3>1, <3>4, <5>1, NextTimestampTorn
      <4>2. TimestampsRead(b, ts, k + 1) = Fail("eof")
        BY <1>3, <3>4, Zenon
      <4> QED
        BY <3>3, <4>1, <4>2
    <3>5. CASE /\ Len(Flat(w, k + 1)) <= Len(b)
               /\ Rest(b, w, k + 1) \in Seq(Byte) /\ r = w[k + 1] \o Rest(b, w, k + 1)
      <4>1. NextTimestamp(Read(v, r)) = Read(V(k + 1), Rest(b, w, k + 1))
        BY <1>5, <3>5, Zenon DEF v
      <4>2. TimestampsRead(b, ts, k + 1) = Read(V(k + 1), Rest(b, w, k + 1))
        BY <1>3, <3>5, Zenon
      <4> QED
        BY <3>3, <4>1, <4>2
    <3> QED
      BY <3>1, <3>4, <3>5
  <2> QED
    BY <2>1, <2>2
<1>8. Len(w) - 1 = Len(ts) - 2
  BY <1>1
<1> QED
  BY <1>6, <1>7, <1>8

\* The loop of the reader of timestamps.
TimestampLoop(f, b, t, n) ==
  f = [i \in 0..n |-> IF i = 0 THEN Read([column |-> <<t>>, delta |-> 0], b) ELSE Then(f[i - 1], NextTimestamp)]

\* It reads all timestamps, or finds the end of the file.
LEMMA GetDeltasCut ==
  ASSUME NEW ts \in Seq(SignedWords), ts # <<>>, NEW b \in Seq(Byte),
         Starts(b, FlattenSeq(PutDeltas(ts)))
  PROVE  GetDeltas(b, ts[1], Len(ts) - 1) = TimestampsRead(b, ts, Len(ts) - 1)
<1> DEFINE n == Len(ts) - 1
           first == Read([column |-> <<ts[1]>>, delta |-> 0], b)
           g == [i \in 0..n |-> TimestampsRead(b, ts, i)]
<1>1. n \in Nat
  BY DeltasType
<1>2. /\ TimestampsRead(b, ts, 0) = first
      /\ \A k \in 0..(n - 1) : TimestampsRead(b, ts, k + 1) = Then(TimestampsRead(b, ts, k), NextTimestamp)
  <2>1. n - 1 = Len(ts) - 2
    BY DeltasType
  <2> QED
    BY <2>1, TimestampsStep
<1> HIDE DEF n, first
<1>3. \A i \in 0..n : g[i] = IF i = 0 THEN first ELSE Then(g[i - 1], NextTimestamp)
  <2> TAKE i \in 0..n
  <2>1. g[i] = TimestampsRead(b, ts, i)
    OBVIOUS
  <2>2. CASE i = 0
    BY <1>2, <2>1, <2>2
  <2>3. CASE i # 0
    <3>1. i - 1 \in 0..(n - 1) /\ i - 1 \in 0..n /\ (i - 1) + 1 = i
      BY <1>1, <2>3
    <3>2. g[i - 1] = TimestampsRead(b, ts, i - 1)
      BY <3>1
    <3>3. TimestampsRead(b, ts, (i - 1) + 1) = Then(TimestampsRead(b, ts, i - 1), NextTimestamp)
      BY <1>2, <3>1, Zenon
    <3> HIDE DEF g
    <3>4. TimestampsRead(b, ts, i) = Then(g[i - 1], NextTimestamp)
      BY <3>1, <3>2, <3>3
    <3> QED
      BY <2>1, <2>3, <3>4, Zenon
  <2> QED
    BY <2>2, <2>3
<1>4. TimestampLoop(g, b, ts[1], n)
  <2>1. g = [i \in 0..n |-> g[i]]
    OBVIOUS
  <2> HIDE DEF g
  <2>2. [i \in 0..n |-> g[i]] = [i \in 0..n |-> IF i = 0 THEN first ELSE Then(g[i - 1], NextTimestamp)]
    BY <1>3, Zenon
  <2> QED
    BY <2>1, <2>2, Zenon DEF TimestampLoop, first
<1> DEFINE f == CHOOSE f : TimestampLoop(f, b, ts[1], n)
<1>5. TimestampLoop(f, b, ts[1], n)
  <2> HIDE DEF g
  <2> QED
    BY <1>4, Zenon
<1>6. GetDeltas(b, ts[1], n) = f[n]
  BY Zenon DEF GetDeltas, TimestampLoop
<1>7. g[n] = TimestampsRead(b, ts, n)
  BY <1>1
<1> HIDE DEF f, g
<1>8. \A i \in 0..n : f[i] = IF i = 0 THEN first ELSE Then(f[i - 1], NextTimestamp)
  BY <1>5, Zenon DEF TimestampLoop, first
<1>9. f[0] = g[0]
  <2>1. 0 \in 0..n
    BY <1>1
  <2> QED
    BY <1>3, <1>8, <2>1, Zenon
<1>10. ASSUME NEW i \in 1..n, f[i - 1] = g[i - 1] PROVE f[i] = g[i]
  <2>1. i \in 0..n /\ i # 0
    BY <1>1
  <2> QED
    BY <1>3, <1>8, <1>10, <2>1, Zenon
<1>11. f[n] = g[n]
  BY <1>1, <1>9, <1>10, LoopsAgree
<1> QED
  BY <1>6, <1>7, <1>11, Zenon DEF n

\* Sequences of elements of a wider set.
LEMMA WiderSeq ==
  ASSUME NEW C, NEW D, C \subseteq D, NEW s \in Seq(C)
  PROVE  s \in Seq(D)
<1> DEFINE n == Len(s)
<1>1. n \in Nat /\ s = [i \in 1..n |-> s[i]] /\ \A i \in 1..n : s[i] \in D
  OBVIOUS
<1> HIDE DEF n
<1>2. s \in [1..n -> D]
  BY <1>1, Zenon
<1> QED
  BY <1>1, <1>2

\* A function without arguments is the empty sequence.
LEMMA NoElements ==
  ASSUME NEW w, DOMAIN w = {}, w = [i \in DOMAIN w |-> w[i]]
  PROVE  w = <<>>
<1>1. 1..0 = {}
  OBVIOUS
<1>2. w \in [1..0 -> Nat]
  BY <1>1, Zenon
<1>3. w \in Seq(Nat) /\ Len(w) = 0
  BY <1>2
<1> QED
  BY <1>3, EmptySeq

\* What is written for a column of timestamps: bytes, of an empty one a head only.
LEMMA EncodeTimestampsType ==
  ASSUME NEW ts \in Seq(SignedWords), Len(ts) < Modulus
  PROVE  /\ ts \in Columns /\ PutHead(ts) \in Seq(Byte)
         /\ FlattenSeq(PutDeltas(ts)) \in Seq(Byte) /\ EncodeTimestamps(ts) \in Seq(Byte)
         /\ ts = <<>> => FlattenSeq(PutDeltas(ts)) = <<>>
<1>1. ts \in Columns
  <2>1. SignedWords \subseteq Int
    BY WrapBack
  <2>2. ts \in Seq(Int)
    BY <2>1, WiderSeq
  <2> QED
    BY <2>2 DEF Columns
<1>2. PutHead(ts) \in Seq(Byte)
  BY <1>1, PutHeadType
<1>3. /\ FlattenSeq(PutDeltas(ts)) \in Seq(Byte)
      /\ ts = <<>> => FlattenSeq(PutDeltas(ts)) = <<>>
  <2>1. CASE ts # <<>>
    <3>1. PutDeltas(ts) \in Seq(Seq(Byte)) /\ <<>> \in Seq(Byte)
      BY <2>1, DeltasType
    <3> QED
      BY <2>1, <3>1, AllWords
  <2>2. CASE ts = <<>>
    <3> DEFINE w == PutDeltas(ts)
    <3>1. 1..(Len(ts) - 1) = {}
      BY <2>2
    <3>2. w = [i \in 1..(Len(ts) - 1) |-> PutVarint(Wrap(TimeDelta(ts, i + 1) - TimeDelta(ts, i)))]
      BY DEF PutDeltas, TimeDelta
    <3>3. w = <<>>
      <4>1. DOMAIN w = {} /\ w = [i \in DOMAIN w |-> w[i]]
        <5> HIDE DEF w
        <5> QED
          BY <3>1, <3>2, Zenon
      <4> QED
        BY <4>1, NoElements
    <3>4. FlattenSeq(w) = <<>>
      <4>1. Len(<<>>) = 0
        OBVIOUS
      <4> HIDE DEF w
      <4> QED
        BY <3>3, <4>1, Zenon DEF FlattenSeq
    <3> HIDE DEF w
    <3> QED
      BY <3>4, EmptySeq DEF w
  <2> QED
    BY <2>1, <2>2
<1>4. EncodeTimestamps(ts) \in Seq(Byte)
  BY <1>2, <1>3, ConcatProperties DEF EncodeTimestamps
<1> QED
  BY <1>1, <1>2, <1>3, <1>4

\* A block of timestamps, or a part of it.
LEMMA DecodeTimestampsCut ==
  ASSUME NEW ts \in Seq(SignedWords), Len(ts) < Modulus,
         NEW b \in Seq(Byte), Starts(b, EncodeTimestamps(ts))
  PROVE  IF Len(b) < Len(EncodeTimestamps(ts)) THEN DecodeTimestamps(b).err # "nil"
         ELSE DecodeTimestamps(b).err = "nil" /\ DecodeTimestamps(b).v = ts
<1> DEFINE x == PutHead(ts)
           w == PutDeltas(ts)
           y == FlattenSeq(w)
           r == DecodeTimestamps(b)
           n == Len(ts) - 1
<1>1. /\ ts \in Columns /\ x \in Seq(Byte) /\ y \in Seq(Byte) /\ EncodeTimestamps(ts) = x \o y
      /\ ts = <<>> => y = <<>>
  BY EncodeTimestampsType, Zenon DEF EncodeTimestamps
<1>2. Len(x \o y) = Len(x) + Len(y) /\ Len(x) \in Nat /\ Len(y) \in Nat /\ Len(b) \in Nat
  BY <1>1, ConcatProperties
<1>3. \/ Len(b) < Len(x) /\ Starts(b, x)
      \/ \E c \in Seq(Byte) : b = x \o c /\ Starts(c, y)
  BY <1>1, CutOfConcat
<1>4. Fail("eof").err = "eof" /\ "eof" # "nil"
  BY ReadParts
<1>5. CASE Len(b) < Len(x) /\ Starts(b, x)
  <2>1. GetHead(b) = Fail("eof")
    BY <1>1, <1>5, GetHeadTorn
  <2>2. r = Fail("eof")
    BY <1>4, <2>1, Zenon DEF DecodeTimestamps, Then
  <2>3. r.err # "nil"
    BY <1>4, <2>2
  <2>4. Len(b) < Len(x \o y)
    BY <1>2, <1>5
  <2> HIDE DEF r, x, y
  <2> QED
    BY <1>1, <2>3, <2>4 DEF r
<1>6. ASSUME NEW c \in Seq(Byte), b = x \o c, Starts(c, y)
      PROVE  IF Len(b) < Len(x \o y) THEN r.err # "nil" ELSE r.err = "nil" /\ r.v = ts
  <2>1. GetHead(b) = Read(HeadOf(ts), c)
    BY <1>1, <1>6, GetHeadWhole
  <2>2. LET h == GetHead(b) IN h.err = "nil" /\ h.v = HeadOf(ts) /\ h.rest = c
    <3> HIDE DEF x, y, r, w, n
    <3> QED
      BY <2>1, ReadParts
  <2>3. Len(b) = Len(x) + Len(c) /\ Len(c) \in Nat
    BY <1>1, <1>6, ConcatProperties
  <2>4. Len(c) <= Len(y) /\ (Len(b) < Len(x \o y) <=> Len(c) < Len(y))
    BY <1>2, <1>6, <2>3 DEF Starts
  <2>5. CASE ts = <<>>
    <3>1. y = <<>> /\ ~(Len(c) < Len(y))
      BY <1>1, <2>3, <2>5
    <3>2. HeadOf(ts).count = 0
      BY <2>5 DEF HeadOf
    <3>3. r = Read(<<>>, c)
      BY <2>2, <3>2, Zenon DEF DecodeTimestamps, Then
    <3>4. r.err = "nil" /\ r.v = <<>>
      BY <3>3, ReadParts
    <3> HIDE DEF r, x, y
    <3> QED
      BY <2>4, <2>5, <3>1, <3>4
  <2>6. CASE ts # <<>>
    <3>1. /\ w \in Seq(Seq(Byte)) /\ Len(w) = n /\ ts[1] \in SignedWords /\ Len(ts) \in Nat /\ Len(ts) # 0
      BY <2>6, DeltasType
    <3>2. HeadOf(ts).count = Len(ts) /\ Signed(HeadOf(ts).first) = ts[1]
      <4>1. HeadOf(ts) = [count |-> Len(ts), first |-> Unsigned(ts[1])]
        BY <2>6, Zenon DEF HeadOf
      <4>2. HeadOf(ts).count = Len(ts) /\ HeadOf(ts).first = Unsigned(ts[1])
        BY <4>1
      <4>3. Signed(Unsigned(ts[1])) = ts[1]
        BY <3>1, WrapBack
      <4> QED
        BY <4>2, <4>3, Zenon
    <3> DEFINE q == GetDeltas(c, ts[1], n)
    <3>3. r = IF q.err = "nil" THEN Read(q.v.column, q.rest) ELSE q
      BY <2>2, <3>1, <3>2, Zenon DEF DecodeTimestamps, Then
    <3>4. q = TimestampsRead(c, ts, n)
      BY <1>6, <2>6, GetDeltasCut
    <3>5. Flat(w, n) = y
      BY <3>1, <1>6, AllWords
    <3>6. CASE Len(c) < Len(y)
      <4>1. ~(Len(y) <= Len(c))
        BY <1>2, <2>3, <3>6
      <4>2. q = Fail("eof")
        BY <3>4, <3>5, <4>1, Zenon DEF TimestampsRead
      <4> HIDE DEF q
      <4>3. r = Fail("eof")
        BY <1>4, <3>3, <4>2, Zenon
      <4>4. r.err # "nil"
        BY <1>4, <4>3, Zenon
      <4> HIDE DEF r, x, y
      <4> QED
        BY <2>4, <3>6, <4>4
    <3>7. CASE ~(Len(c) < Len(y))
      <4>1. Len(y) <= Len(c)
        BY <1>2, <2>3, <3>7
      <4> DEFINE v == [column |-> SubSeq(ts, 1, n + 1), delta |-> TimeDelta(ts, n + 1)]
      <4>2. q = Read(v, Rest(c, w, n))
        BY <3>4, <3>5, <4>1, Zenon DEF TimestampsRead
      <4>3. v.column = ts
        <5>1. n + 1 = Len(ts)
          BY <3>1
        <5>2. SubSeq(ts, 1, Len(ts)) = ts
          BY SubSeqFull
        <5> QED
          BY <5>1, <5>2
      <4> HIDE DEF q, v
      <4>4. q.err = "nil" /\ q.v = v
        BY <4>2, ReadParts
      <4>5. r = Read(ts, q.rest)
        BY <3>3, <4>3, <4>4, Zenon
      <4>6. r.err = "nil" /\ r.v = ts
        <5> HIDE DEF r
        <5> QED
          BY <4>5, ReadParts
      <4> HIDE DEF r, x, y
      <4> QED
        BY <2>4, <3>7, <4>6
    <3> QED
      BY <3>6, <3>7
  <2> QED
    BY <2>5, <2>6
<1> QED
  BY <1>1, <1>3, <1>5, <1>6

-----------------------------------------------------------------------------
(* Bits in bytes.                                                           *)

PaddedBit(bits, i) == IF i <= Len(bits) THEN bits[i] ELSE 0
Chunk(bits, j) == [k \in 1..8 |-> PaddedBit(bits, 8 * (j - 1) + k)]

\* A function on 1..n is a sequence.
LEMMA FunctionSeq ==
  ASSUME NEW D, NEW n \in Nat, NEW f \in [1..n -> D]
  PROVE  f \in Seq(D) /\ Len(f) = n
  OBVIOUS

\* Eight bits and the byte they make.
LEMMA ChunkType ==
  ASSUME NEW bits \in Seq(Bit), NEW j \in Nat, j >= 1
  PROVE  /\ Number(Chunk(bits, j), 2) \in Byte
         /\ Bits(Number(Chunk(bits, j), 2), 8) = Chunk(bits, j)
         /\ \A k \in 1..8 : Chunk(bits, j)[k] = PaddedBit(bits, 8 * (j - 1) + k)
<1> DEFINE c == Chunk(bits, j)
<1>1. c = [k \in 1..8 |-> PaddedBit(bits, 8 * (j - 1) + k)]
  BY Zenon DEF Chunk
<1>2. \A i \in Nat : i >= 1 => PaddedBit(bits, i) \in Bit
  <2> TAKE i \in Nat
  <2>1. i >= 1 /\ i <= Len(bits) => bits[i] \in Bit
    OBVIOUS
  <2>2. 0 \in Bit
    BY DEF Bit
  <2> QED
    BY <2>1, <2>2, Zenon DEF PaddedBit
<1>3. \A k \in 1..8 : PaddedBit(bits, 8 * (j - 1) + k) \in Bit
  <2> TAKE k \in 1..8
  <2>1. 8 * (j - 1) + k \in Nat /\ 8 * (j - 1) + k >= 1
    OBVIOUS
  <2> QED
    BY <1>2, <2>1, Zenon
<1> HIDE DEF c
<1>4. c \in [1..8 -> Bit]
  BY <1>1, <1>3, Zenon
<1>5. c \in Seq(Bit) /\ Len(c) = 8
  <2>1. 8 \in Nat
    OBVIOUS
  <2> QED
    BY <1>4, <2>1, FunctionSeq
<1>6. 8 \in 0..WordBits
  BY WordSize
<1>7. Number(c, 2) \in Nat /\ Number(c, 2) < 2^8 /\ Bits(Number(c, 2), 8) = c
  BY <1>5, <1>6, BitsOfNumber
<1>8. Number(c, 2) \in Byte
  <2> DEFINE v == Number(c, 2)
             p == 2^8
  <2>1. v \in Nat /\ v < p /\ p = 256
    BY <1>7, ByteValues, Zenon
  <2> HIDE DEF v, p
  <2>2. v \in Byte
    BY <2>1 DEF Byte
  <2> QED
    BY <2>2 DEF v
<1>9. \A k \in 1..8 : c[k] = PaddedBit(bits, 8 * (j - 1) + k)
  BY <1>1, Zenon
<1> QED
  BY <1>7, <1>8, <1>9, Zenon DEF c

\* The bytes of a sequence of bits.
LEMMA BitsToBytesType ==
  ASSUME NEW bits \in Seq(Bit)
  PROVE  /\ BitsToBytes(bits) \in Seq(Byte)
         /\ Len(BitsToBytes(bits)) = (Len(bits) + 7) \div 8 /\ (Len(bits) + 7) \div 8 \in Nat
         /\ \A j \in 1..Len(BitsToBytes(bits)) : BitsToBytes(bits)[j] = Number(Chunk(bits, j), 2)
<1> DEFINE n == (Len(bits) + 7) \div 8
           b == BitsToBytes(bits)
<1>1. n \in Nat
  OBVIOUS
<1>2. b = [j \in 1..n |-> Number(Chunk(bits, j), 2)]
  BY Zenon DEF BitsToBytes, Chunk, PaddedBit
<1> HIDE DEF n, b
<1>3. \A j \in 1..n : Number(Chunk(bits, j), 2) \in Byte
  <2> TAKE j \in 1..n
  <2>1. j \in Nat /\ j >= 1
    BY <1>1
  <2> QED
    BY <2>1, ChunkType
<1>4. b \in [1..n -> Byte]
  BY <1>2, <1>3, Zenon
<1>5. b \in Seq(Byte) /\ Len(b) = n
  BY <1>1, <1>4
<1>6. \A j \in 1..n : b[j] = Number(Chunk(bits, j), 2)
  BY <1>2, Zenon
<1> QED
  BY <1>1, <1>5, <1>6 DEF n, b

\* The bits of a part of these bytes: the first of them, and zeros after the last.
LEMMA BitsOfPart ==
  ASSUME NEW bits \in Seq(Bit), NEW b \in Seq(Byte), Starts(b, BitsToBytes(bits))
  PROVE  LET s == BytesToBits(b)
         IN  /\ s \in Seq(Byte) /\ Len(s) = 8 * Len(b)
             /\ \A i \in 1..Len(s) : s[i] = PaddedBit(bits, i)
             /\ Len(s) < Len(bits) <=> Len(b) < Len(BitsToBytes(bits))
             /\ Len(s) < Len(bits) + 8
<1> DEFINE s == BytesToBits(b)
           e == BitsToBytes(bits)
           n == 8 * Len(b)
<1>1. /\ e \in Seq(Byte) /\ Len(e) = (Len(bits) + 7) \div 8
      /\ \A j \in 1..Len(e) : e[j] = Number(Chunk(bits, j), 2)
  BY BitsToBytesType
<1>2. Len(b) <= Len(e) /\ \A j \in 1..Len(b) : b[j] = e[j]
  BY DEF Starts
<1>3. s = [i \in 1..n |-> Bits(b[((i - 1) \div 8) + 1], 8)[((i - 1) % 8) + 1]]
  BY Zenon DEF BytesToBits
<1> HIDE DEF e
<1>4. Len(b) \in Nat /\ Len(e) \in Nat /\ Len(bits) \in Nat /\ n \in Nat
  BY <1>1
<1>5. ASSUME NEW i \in 1..n
      PROVE  Bits(b[((i - 1) \div 8) + 1], 8)[((i - 1) % 8) + 1] = PaddedBit(bits, i)
  <2> DEFINE j == ((i - 1) \div 8) + 1
             k == ((i - 1) % 8) + 1
  <2>1. j \in 1..Len(b) /\ k \in 1..8 /\ 8 * (j - 1) + k = i
    BY <1>4
  <2> HIDE DEF j, k
  <2>2. j \in 1..Len(e) /\ j \in Nat /\ j >= 1
    BY <1>2, <1>4, <2>1
  <2>3. b[j] = Number(Chunk(bits, j), 2)
    BY <1>1, <1>2, <2>1, <2>2, Zenon
  <2>4. Bits(b[j], 8)[k] = PaddedBit(bits, 8 * (j - 1) + k)
    BY <2>1, <2>2, <2>3, ChunkType
  <2> QED
    BY <2>1, <2>4 DEF j, k
<1>6. ASSUME NEW i \in 1..n PROVE PaddedBit(bits, i) \in Byte
  <2>1. i <= Len(bits) => bits[i] \in Bit
    BY <1>4
  <2>2. 0 \in Byte /\ Bit \subseteq Byte
    BY DEF Bit, Byte
  <2> QED
    BY <2>1, <2>2, Zenon DEF PaddedBit
<1> HIDE DEF s, n
<1>7. s \in [1..n -> Byte] /\ \A i \in 1..n : s[i] = PaddedBit(bits, i)
  BY <1>3, <1>5, <1>6, Zenon
<1>8. s \in Seq(Byte) /\ Len(s) = n
  BY <1>4, <1>7
<1>9. /\ n < Len(bits) <=> Len(b) < Len(e)
      /\ n < Len(bits) + 8
  BY <1>1, <1>2, <1>4 DEF n
<1> QED
  BY <1>7, <1>8, <1>9 DEF s, n, e

\* They begin with the bits that were written, or are some of them.
LEMMA BitsCut ==
  ASSUME NEW bits \in Seq(Bit), NEW b \in Seq(Byte), Starts(b, BitsToBytes(bits))
  PROVE  /\ BytesToBits(b) \in Seq(Byte)
         /\ Len(BytesToBits(b)) < Len(bits) <=> Len(b) < Len(BitsToBytes(bits))
         /\ \E c \in Seq(Byte) : Starts(BytesToBits(b), bits \o c)
<1> DEFINE s == BytesToBits(b)
           c == [i \in 1..8 |-> 0]
           t == bits \o c
<1>1. /\ s \in Seq(Byte) /\ \A i \in 1..Len(s) : s[i] = PaddedBit(bits, i)
      /\ Len(s) < Len(bits) <=> Len(b) < Len(BitsToBytes(bits))
      /\ Len(s) < Len(bits) + 8
  BY BitsOfPart
<1>2. c \in Seq(Byte) /\ Len(c) = 8 /\ \A i \in 1..8 : c[i] = 0
  BY DEF Byte
<1>3. bits \in Seq(Byte)
  <2>1. Bit \subseteq Byte
    BY DEF Bit, Byte
  <2> QED
    BY <2>1, WiderSeq
<1> HIDE DEF c, s
<1>4. /\ Len(t) = Len(bits) + 8 /\ \A i \in 1..Len(bits) : t[i] = bits[i]
      /\ \A i \in 1..8 : t[Len(bits) + i] = 0
  <2>0. c \in Seq(Byte)
    BY <1>2
  <2>1. /\ Len(t) = Len(bits) + Len(c) /\ \A i \in 1..Len(bits) : t[i] = bits[i]
        /\ \A i \in 1..Len(c) : t[Len(bits) + i] = c[i]
    <3>1. \A x, y \in Seq(Byte) :
            /\ Len(x \o y) = Len(x) + Len(y) /\ \A i \in 1..Len(x) : (x \o y)[i] = x[i]
            /\ \A i \in 1..Len(y) : (x \o y)[Len(x) + i] = y[i]
      BY ConcatParts
    <3> QED
      BY <1>3, <2>0, <3>1, Zenon
  <2> HIDE DEF t
  <2>2. \A i \in 1..8 : t[Len(bits) + i] = c[i]
    BY <1>2, <2>1, Zenon
  <2> QED
    BY <1>2, <2>1, <2>2, Zenon
<1> HIDE DEF t
<1>5. Len(s) \in Nat /\ Len(bits) \in Nat
  BY <1>1
<1>6. ASSUME NEW i \in 1..Len(s) PROVE s[i] = t[i]
  <2>1. s[i] = PaddedBit(bits, i)
    BY <1>1
  <2>2. CASE i <= Len(bits)
    <3>1. i \in 1..Len(bits)
      BY <1>5, <2>2
    <3> QED
      BY <1>4, <2>1, <2>2, <3>1, Zenon DEF PaddedBit
  <2>3. CASE ~(i <= Len(bits))
    <3>1. i - Len(bits) \in 1..8 /\ Len(bits) + (i - Len(bits)) = i
      BY <1>1, <1>5, <2>3
    <3>2. t[Len(bits) + (i - Len(bits))] = 0
      BY <1>4, <3>1, Zenon
    <3>3. t[i] = 0
      BY <3>1, <3>2
    <3> QED
      BY <2>1, <2>3, <3>3, Zenon DEF PaddedBit
  <2> QED
    BY <2>2, <2>3
<1>7. Starts(s, t)
  <2>1. Len(s) <= Len(t)
    BY <1>1, <1>4, <1>5
  <2> QED
    BY <1>6, <2>1 DEF Starts
<1>8. \E x \in Seq(Byte) : Starts(s, bits \o x)
  BY <1>2, <1>7 DEF t
<1> QED
  BY <1>1, <1>8 DEF s

-----------------------------------------------------------------------------
(* Windows.                                                                 *)

BitWord == {x \in Seq(Bit) : Len(x) = WordBits}

\* The elements of a word of bits, and how to make one.
LEMMA BitWordParts ==
  /\ \A x \in BitWord : /\ x \in Seq(Bit) /\ x \in Seq(Byte) /\ Len(x) = WordBits
                        /\ \A i \in 1..WordBits : x[i] = 0 \/ x[i] = 1
  /\ \A f \in [1..WordBits -> Bit] : f \in BitWord
  /\ \A x, y \in BitWord : (\A i \in 1..WordBits : x[i] = y[i]) => x = y
<1>1. Bit \subseteq Byte
  BY DEF Bit, Byte
<1>2. ASSUME NEW x \in BitWord
      PROVE  /\ x \in Seq(Bit) /\ x \in Seq(Byte) /\ Len(x) = WordBits
             /\ \A i \in 1..WordBits : x[i] = 0 \/ x[i] = 1
  <2>1. x \in Seq(Bit) /\ Len(x) = WordBits
    BY Zenon DEF BitWord
  <2>2. \A i \in 1..Len(x) : x[i] \in Bit
    BY <2>1
  <2>3. \A i \in 1..WordBits : x[i] = 0 \/ x[i] = 1
    BY <2>1, <2>2, Zenon DEF Bit
  <2>4. x \in Seq(Byte)
    BY <1>1, <2>1, WiderSeq
  <2> QED
    BY <2>1, <2>3, <2>4, Zenon
<1>3. ASSUME NEW f \in [1..WordBits -> Bit] PROVE f \in BitWord
  <2>1. f \in Seq(Bit) /\ Len(f) = WordBits
    BY FunctionSeq, WordSize
  <2> QED
    BY <2>1, Zenon DEF BitWord
<1>4. ASSUME NEW x \in BitWord, NEW y \in BitWord, \A i \in 1..WordBits : x[i] = y[i]
      PROVE  x = y
  <2>1. x \in Seq(Bit) /\ Len(x) = WordBits /\ y \in Seq(Bit) /\ Len(y) = WordBits
    BY Zenon DEF BitWord
  <2> QED
    BY <1>4, <2>1, SeqEqual
<1> QED
  BY <1>2, <1>3, <1>4

\* To xor twice is to do nothing.
LEMMA XorTwice ==
  ASSUME NEW a \in BitWord, NEW b \in BitWord
  PROVE  Xor(a, b) \in BitWord /\ Xor(a, Xor(a, b)) = b
<1> DEFINE x == Xor(a, b)
           y == Xor(a, x)
<1>1. \A i \in 1..WordBits : (a[i] = 0 \/ a[i] = 1) /\ (b[i] = 0 \/ b[i] = 1)
  BY BitWordParts
<1>2. x = [i \in 1..WordBits |-> (a[i] + b[i]) % 2] /\ y = [i \in 1..WordBits |-> (a[i] + x[i]) % 2]
  BY Zenon DEF Xor
<1> HIDE DEF x, y
<1>3. \A i \in 1..WordBits : x[i] = (a[i] + b[i]) % 2 /\ y[i] = (a[i] + x[i]) % 2
  BY <1>2, Zenon
<1>4. ASSUME NEW i \in 1..WordBits PROVE x[i] \in Bit /\ y[i] = b[i]
  <2> DEFINE c == a[i]
             d == b[i]
  <2>1. (c = 0 \/ c = 1) /\ (d = 0 \/ d = 1) /\ x[i] = (c + d) % 2 /\ y[i] = (c + x[i]) % 2
    BY <1>1, <1>3, Zenon
  <2> HIDE DEF c, d
  <2>2. (0 + 0) % 2 = 0 /\ (0 + 1) % 2 = 1 /\ (1 + 0) % 2 = 1 /\ (1 + 1) % 2 = 0
    OBVIOUS
  <2>3. x[i] \in Bit /\ y[i] = d
    BY <2>1, <2>2 DEF Bit
  <2> QED
    BY <2>3 DEF d
<1>5. x \in [1..WordBits -> Bit] /\ y \in [1..WordBits -> Bit]
  <2>1. \A i \in 1..WordBits : b[i] \in Bit
    BY <1>1 DEF Bit
  <2>2. x = [i \in 1..WordBits |-> x[i]] /\ y = [i \in 1..WordBits |-> y[i]]
    BY <1>2, Zenon
  <2>3. \A i \in 1..WordBits : x[i] \in Bit /\ y[i] \in Bit
    BY <1>4, <2>1, Zenon
  <2> QED
    BY <2>2, <2>3, Zenon
<1>6. x \in BitWord /\ y \in BitWord
  BY <1>5, BitWordParts, Zenon
<1>7. y = b
  BY <1>4, <1>6, BitWordParts, Zenon
<1> QED
  BY <1>6, <1>7 DEF x, y

ValidWindow(w) == w \in [lz : Nat, tz : Nat] /\ w.lz <= MaxLead /\ w.lz + w.tz < WordBits

\* All ones of x are between the zeros of w.
Within(x, w) == \A i \in Ones(x) : w.lz < i /\ i <= WordBits - w.tz

\* The greatest number of leading zeros.
LEMMA MaxLeadType == MaxLead \in Nat /\ MaxLead < 2^LeadBits /\ 2^LeadBits \in Nat
<1>1. LeadBits \in 0..WordBits
  BY WindowAssumption, WordSize
<1> DEFINE p == 2^LeadBits
<1>2. p \in Nat /\ p > 0 /\ MaxLead = p - 1
  BY <1>1, Powers2 DEF MaxLead
<1> HIDE DEF p
<1>3. MaxLead \in Nat /\ MaxLead < p
  BY <1>2
<1> QED
  BY <1>2, <1>3 DEF p

\* "No window" is the window of the whole word.
LEMMA NoWindowValid == ValidWindow(NoWindow) /\ NoWindow.lz = 0
<1>1. NoWindow \in [lz : Nat, tz : Nat] /\ NoWindow.lz = 0 /\ NoWindow.tz = 0
  BY DEF NoWindow
<1>2. 0 <= MaxLead /\ 0 + 0 < WordBits
  BY MaxLeadType, WordSize
<1> QED
  BY <1>1, <1>2, Zenon DEF ValidWindow

\* The window of a XOR holds its ones.
LEMMA WindowHolds ==
  ASSUME NEW x \in BitWord, Ones(x) # {}
  PROVE  ValidWindow(Window(x)) /\ Within(x, Window(x))
<1> DEFINE S == Ones(x)
           lo == Min(S)
           hi == Max(S)
           w == Window(x)
<1>1. S \in SUBSET 0..WordBits /\ S \in SUBSET Nat /\ S \in SUBSET 1..WordBits /\ WordBits \in Nat
  BY WordSize DEF Ones
<1>2. lo \in S /\ \A i \in S : lo <= i
  <2> HIDE DEF S
  <2>1. \E y \in S : \A i \in S : y <= i
    BY <1>1, LeastNat DEF S
  <2>2. lo = CHOOSE y \in S : \A i \in S : y <= i
    BY DEF Min
  <2> HIDE DEF lo
  <2> QED
    BY <2>1, <2>2, Zenon
<1>3. hi \in S /\ \A i \in S : hi >= i
  <2> HIDE DEF S
  <2>1. PICK y \in S : \A i \in S : i <= y
    BY <1>1, GreatestNat DEF S
  <2>2. \A i \in S : y >= i
    BY <1>1, <2>1
  <2>3. hi = CHOOSE z \in S : \A i \in S : z >= i
    BY DEF Max
  <2> HIDE DEF hi
  <2> QED
    BY <2>2, <2>3, Zenon
<1> DEFINE lead == LeadingZeros(x)
           m == Min({lead, MaxLead})
<1>4. lead = lo - 1 /\ w = [lz |-> m, tz |-> WordBits - hi]
  BY DEF LeadingZeros, TrailingZeros, Window
<1> HIDE DEF S, lo, hi, w, lead
<1>5. lo \in 1..WordBits /\ hi \in 1..WordBits /\ lo <= hi /\ lead \in Nat
  BY <1>1, <1>2, <1>3, <1>4
<1>6. m \in Nat /\ m <= lead /\ m <= MaxLead
  <2> DEFINE T == {lead, MaxLead}
  <2>1. T \in SUBSET Nat /\ T # {} /\ lead \in T /\ MaxLead \in T
    BY <1>5, MaxLeadType
  <2> HIDE DEF T
  <2>2. \E y \in T : \A i \in T : y <= i
    BY <2>1, LeastNat
  <2>3. m = CHOOSE y \in T : \A i \in T : y <= i
    BY DEF Min, T
  <2> HIDE DEF m
  <2>4. m \in T /\ \A i \in T : m <= i
    BY <2>2, <2>3, Zenon
  <2> QED
    BY <2>1, <2>4
<1> HIDE DEF m
<1>7. w \in [lz : Nat, tz : Nat] /\ w.lz = m /\ w.tz = WordBits - hi
  BY <1>1, <1>4, <1>5, <1>6
<1>8. m + (WordBits - hi) < WordBits
  BY <1>1, <1>4, <1>5, <1>6
<1>9. ValidWindow(w)
  <2>1. w.lz <= MaxLead /\ w.lz + w.tz < WordBits
    BY <1>6, <1>7, <1>8, Zenon
  <2> QED
    BY <1>7, <2>1, Zenon DEF ValidWindow
<1>10. ASSUME NEW i \in S PROVE m < i /\ i <= WordBits - (WordBits - hi)
  BY <1>1, <1>2, <1>3, <1>4, <1>5, <1>6
<1>11. Within(x, w)
  BY <1>7, <1>10, Zenon DEF Within, S
<1> QED
  BY <1>9, <1>11 DEF w

\* The next window, and that it holds the ones of the XOR.
LEMMA NextWindowHolds ==
  ASSUME NEW x \in BitWord, NEW w, ValidWindow(w)
  PROVE  ValidWindow(NextWindow(w, x)) /\ Within(x, NextWindow(w, x))
<1>1. CASE Ones(x) = {}
  <2>1. NextWindow(w, x) = w
    BY <1>1, Zenon DEF NextWindow
  <2> QED
    BY <1>1, <2>1, Zenon DEF Within
<1>2. CASE Ones(x) # {} /\ ~Fits(w, Window(x))
  <2>1. NextWindow(w, x) = Window(x)
    BY <1>2, Zenon DEF NextWindow
  <2> QED
    BY <1>2, <2>1, WindowHolds
<1>3. CASE Ones(x) # {} /\ Fits(w, Window(x))
  <2> DEFINE v == Window(x)
  <2>1. NextWindow(w, x) = w
    BY <1>3, Zenon DEF NextWindow
  <2>2. ValidWindow(v) /\ Within(x, v)
    BY <1>3, WindowHolds
  <2>3. v.lz >= w.lz /\ v.tz >= w.tz
    BY <1>3, Zenon DEF Fits
  <2> HIDE DEF v
  <2>4. v.lz \in Nat /\ v.tz \in Nat /\ w.lz \in Nat /\ w.tz \in Nat
    BY <2>2 DEF ValidWindow
  <2>5. ASSUME NEW i \in Ones(x) PROVE w.lz < i /\ i <= WordBits - w.tz
    <3>1. v.lz < i /\ i <= WordBits - v.tz
      BY <2>2, Zenon DEF Within
    <3>2. i \in Int
      BY WordSize DEF Ones
    <3> QED
      BY <2>3, <2>4, <3>1, <3>2, WordSize
  <2> QED
    BY <2>1, <2>5, Zenon DEF Within
<1> QED
  BY <1>1, <1>2, <1>3

\* The bits within a window make the XOR.
LEMMA WidenedBack ==
  ASSUME NEW x \in BitWord, NEW w, ValidWindow(w), Within(x, w)
  PROVE  /\ SigLen(w) \in 1..WordBits
         /\ Significant(x, w) \in Seq(Byte) /\ Len(Significant(x, w)) = SigLen(w)
         /\ Widened(Significant(x, w), w) = x
<1> DEFINE l == w.lz
           r == WordBits - w.tz
           s == Significant(x, w)
           y == Widened(s, w)
<1>1. l \in Nat /\ w.tz \in Nat /\ l + w.tz < WordBits
  BY DEF ValidWindow
<1>2. r \in 1..WordBits /\ l < r /\ SigLen(w) = r - l /\ SigLen(w) \in 1..WordBits
  BY <1>1, WordSize DEF SigLen
<1>3. x \in Seq(Byte) /\ Len(x) = WordBits /\ \A i \in 1..WordBits : x[i] = 0 \/ x[i] = 1
  BY BitWordParts
<1>4. s = SubSeq(x, l + 1, r)
  BY Zenon DEF Significant
<1>5. y = [i \in 1..WordBits |-> IF l < i /\ i <= r THEN s[i - l] ELSE 0]
  BY Zenon DEF Widened
<1>6. \A i \in Ones(x) : l < i /\ i <= r
  BY Zenon DEF Within
<1> HIDE DEF l, r, s, y
<1>7. s \in Seq(Byte) /\ Len(s) = r - l /\ \A i \in 1..(r - l) : s[i] = x[l + i]
  <2>1. \A i \in 1..Len(x) : x[i] \in Byte
    BY <1>3
  <2> HIDE DEF s
  <2> QED
    BY <1>1, <1>2, <1>3, <1>4, <2>1, WordSize
<1>8. \A i \in 1..WordBits : y[i] = IF l < i /\ i <= r THEN s[i - l] ELSE 0
  BY <1>5, Zenon
<1>9. ASSUME NEW i \in 1..WordBits PROVE y[i] = x[i]
  <2>1. CASE l < i /\ i <= r
    <3>1. i - l \in 1..(r - l) /\ l + (i - l) = i
      BY <1>1, <1>2, <2>1, WordSize
    <3>2. s[i - l] = x[l + (i - l)]
      BY <1>7, <3>1, Zenon
    <3>3. y[i] = s[i - l]
      BY <1>8, <2>1, Zenon
    <3> QED
      BY <3>1, <3>2, <3>3
  <2>2. CASE ~(l < i /\ i <= r)
    <3>1. i \notin Ones(x)
      BY <1>6, <2>2, Zenon
    <3>2. x[i] = 0
      BY <1>3, <3>1 DEF Ones
    <3>3. y[i] = 0
      BY <1>8, <2>2, Zenon
    <3> QED
      BY <3>2, <3>3, Zenon
  <2> QED
    BY <2>1, <2>2
<1>10. y \in BitWord
  <2>1. \A i \in 1..WordBits : y[i] \in Bit
    BY <1>3, <1>9 DEF Bit
  <2>2. y = [i \in 1..WordBits |-> y[i]]
    BY <1>5, Zenon
  <2>3. y \in [1..WordBits -> Bit]
    BY <2>1, <2>2, Zenon
  <2> QED
    BY <2>3, BitWordParts, Zenon
<1>11. y = x
  BY <1>9, <1>10, BitWordParts, Zenon
<1> QED
  BY <1>2, <1>7, <1>11 DEF s, y

-----------------------------------------------------------------------------
(* Values.                                                                  *)

\* Lengths of bytes one after the other.
LEMMA ByteConcat ==
  /\ \A s \in Seq(Byte) : Len(s) \in Nat
  /\ \A s, t \in Seq(Byte) : s \o t \in Seq(Byte) /\ Len(s \o t) = Len(s) + Len(t)
  BY ConcatProperties

\* The bits that are there are read, and the rest is left.
LEMMA ReadBitsWhole ==
  ASSUME NEW s \in Seq(Byte), NEW c \in Seq(Byte)
  PROVE  ReadBits(s \o c, Len(s)) = Read(s, c)
<1>1. SubSeq(s \o c, Len(s) + 1, Len(s \o c)) = c /\ SubSeq(s \o c, 1, Len(s)) = s
  BY RestOfConcat
<1>2. ~(Len(s \o c) < Len(s))
  <2>1. Len(s \o c) = Len(s) + Len(c) /\ Len(s) \in Nat /\ Len(c) \in Nat
    BY ConcatProperties
  <2> QED
    BY <2>1
<1> QED
  BY <1>1, <1>2, Zenon DEF ReadBits

\* Too few bits are an error.
LEMMA ReadBitsTorn ==
  ASSUME NEW b, NEW n, Len(b) < n
  PROVE  ReadBits(b, n) = Fail("eof")
  BY Zenon DEF ReadBits

\* A field of the window and what is read of it.
LEMMA FieldBack ==
  ASSUME NEW n \in 0..WordBits, NEW u \in Nat, u < 2^n
  PROVE  /\ Bits(u, n) \in Seq(Byte) /\ Len(Bits(u, n)) = n /\ Number(Bits(u, n), 2) = u
<1>1. Bits(u, n) \in Seq(Bit) /\ Len(Bits(u, n)) = n
  BY BitsType
<1>2. Bit \subseteq Byte
  BY DEF Bit, Byte
<1>3. Bits(u, n) \in Seq(Byte)
  BY <1>1, <1>2, WiderSeq
<1>4. Number(Bits(u, n), 2) = u
  BY NumberOfBits
<1> QED
  BY <1>1, <1>3, <1>4

\* One bit.
LEMMA OneBit ==
  /\ <<0>> \in Seq(Byte) /\ <<1>> \in Seq(Byte) /\ Len(<<0>>) = 1 /\ Len(<<1>>) = 1 /\ <<1>> # <<0>>
  /\ <<0>> \in Seq(Bit) /\ <<1>> \in Seq(Bit)
  BY DEF Byte, Bit

\* The fields of a window.
LEMMA WindowFields ==
  ASSUME NEW v, ValidWindow(v), SigLen(v) \in 1..WordBits
  PROVE  LET lead == Bits(v.lz, LeadBits)
             sig == Bits(SigLen(v) % WordBits, SigBits)
             len == Number(sig, 2)
         IN  /\ lead \in Seq(Byte) /\ Len(lead) = LeadBits /\ Number(lead, 2) = v.lz
             /\ sig \in Seq(Byte) /\ Len(sig) = SigBits
             /\ WordBits - v.lz - (IF len = 0 THEN WordBits ELSE len) = v.tz
             /\ v = [lz |-> v.lz, tz |-> v.tz]
<1> DEFINE lead == Bits(v.lz, LeadBits)
           sig == Bits(SigLen(v) % WordBits, SigBits)
           len == Number(sig, 2)
           m == SigLen(v)
<1>1. v.lz \in Nat /\ v.tz \in Nat /\ v.lz <= MaxLead /\ v = [lz |-> v.lz, tz |-> v.tz]
  BY DEF ValidWindow
<1>2. LeadBits \in 0..WordBits /\ SigBits \in 0..WordBits /\ 2^SigBits = WordBits
  BY WindowAssumption, WordSize
<1>3. v.lz < 2^LeadBits
  BY <1>1, MaxLeadType
<1>4. lead \in Seq(Byte) /\ Len(lead) = LeadBits /\ Number(lead, 2) = v.lz
  BY <1>1, <1>2, <1>3, FieldBack
<1>5. m = WordBits - v.lz - v.tz
  BY Zenon DEF SigLen
<1>6. m \in 1..WordBits /\ WordBits \in Nat /\ WordBits > 0
  BY WordSize
<1> DEFINE k == m % WordBits
<1> HIDE DEF m
<1>7. k \in Nat /\ k < WordBits /\ (IF k = 0 THEN WordBits ELSE k) = m
  <2> DEFINE p == WordBits
  <2>1. m \in 1..p /\ p \in Nat
    BY <1>6
  <2> HIDE DEF p
  <2>2. CASE m = p
    <3>1. p % p = 0
      BY <2>1, <2>2
    <3> QED
      BY <1>6, <2>2, <3>1 DEF p
  <2>3. CASE m # p
    <3>1. m % p = m
      BY <2>1, <2>3
    <3> QED
      BY <2>1, <2>3, <3>1 DEF p
  <2> QED
    BY <2>2, <2>3
<1>8. sig \in Seq(Byte) /\ Len(sig) = SigBits /\ len = k
  <2>1. sig = Bits(k, SigBits)
    BY Zenon DEF m
  <2> HIDE DEF k, sig
  <2>2. k \in Nat /\ k < 2^SigBits
    BY <1>2, <1>7
  <2> QED
    BY <1>2, <2>1, <2>2, FieldBack
<1> HIDE DEF len, k, sig, lead
<1>9. (IF len = 0 THEN WordBits ELSE len) = m
  BY <1>7, <1>8, Zenon
<1>10. WordBits - v.lz - m = v.tz
  BY <1>1, <1>5, <1>6
<1>11. WordBits - v.lz - (IF len = 0 THEN WordBits ELSE len) = v.tz
  BY <1>9, <1>10, Zenon
<1> QED
  BY <1>1, <1>4, <1>8, <1>11, Zenon DEF len, sig, lead, m

\* After the bits of a window, the reader returns it and leaves the rest.
LEMMA ReadWindowWhole ==
  ASSUME NEW x \in BitWord, Ones(x) # {}, NEW w, ValidWindow(w), NEW c \in Seq(Byte)
  PROVE  /\ PutWindow(w, x) \in Seq(Byte)
         /\ ReadWindow(PutWindow(w, x) \o c, w) = Read(NextWindow(w, x), c)
<1> DEFINE v == Window(x)
<1>1. CASE Fits(w, v)
  <2>1. PutWindow(w, x) = <<0>> /\ NextWindow(w, x) = w
    BY <1>1, Zenon DEF PutWindow, NextWindow
  <2> DEFINE b == <<0>> \o c
  <2>2. ReadBits(b, 1) = Read(<<0>>, c)
    BY OneBit, ReadBitsWhole
  <2> HIDE DEF b
  <2>3. LET r == ReadBits(b, 1) IN r.err = "nil" /\ r.v = <<0>> /\ r.rest = c
    BY <2>2, ReadParts
  <2>4. ReadWindow(b, w) = Read(w, c)
    BY <2>3, Zenon DEF ReadWindow, Then
  <2> QED
    BY <2>1, <2>4, OneBit, Zenon DEF b
<1>2. CASE ~Fits(w, v)
  <2> DEFINE lead == Bits(v.lz, LeadBits)
             sig == Bits(SigLen(v) % WordBits, SigBits)
             len == Number(sig, 2)
             d == sig \o c
             e == lead \o d
             b == <<1>> \o e
  <2>1. PutWindow(w, x) = <<1>> \o (lead \o sig) /\ NextWindow(w, x) = v
    BY <1>2, Zenon DEF PutWindow, NextWindow
  <2>2. ValidWindow(v) /\ SigLen(v) \in 1..WordBits
    BY WindowHolds, WidenedBack
  <2>3. /\ lead \in Seq(Byte) /\ Len(lead) = LeadBits /\ Number(lead, 2) = v.lz
        /\ sig \in Seq(Byte) /\ Len(sig) = SigBits
        /\ WordBits - v.lz - (IF len = 0 THEN WordBits ELSE len) = v.tz
        /\ v = [lz |-> v.lz, tz |-> v.tz]
    BY <2>2, WindowFields, Zenon
  <2> HIDE DEF v, lead, sig, len
  <2>4. d \in Seq(Byte) /\ lead \o sig \in Seq(Byte) /\ (lead \o sig) \o c = lead \o d
    BY <2>3, ConcatProperties, Regroup
  <2> HIDE DEF d
  <2>5. e \in Seq(Byte)
    BY <2>3, <2>4, ConcatProperties
  <2>6. (<<1>> \o (lead \o sig)) \o c = b
    <3> DEFINE q == lead \o sig
    <3>1. q \in Seq(Byte)
      BY <2>4
    <3>2. (<<1>> \o q) \o c = <<1>> \o (q \o c)
      <4> HIDE DEF q
      <4> QED
        BY <3>1, OneBit, Regroup, Zenon
    <3> QED
      BY <2>4, <3>2, Zenon
  <2>7. PutWindow(w, x) \in Seq(Byte)
    <3> DEFINE q == lead \o sig
    <3>1. q \in Seq(Byte)
      BY <2>4
    <3> HIDE DEF q
    <3>2. <<1>> \o q \in Seq(Byte)
      BY <3>1, OneBit, ConcatProperties
    <3> QED
      BY <2>1, <3>2 DEF q
  <2>8. ReadBits(b, 1) = Read(<<1>>, e)
    <3> HIDE DEF e
    <3> QED
      BY <2>5, OneBit, ReadBitsWhole
  <2>9. ReadBits(e, LeadBits) = Read(lead, d)
    BY <2>3, <2>4, ReadBitsWhole
  <2>10. ReadBits(d, SigBits) = Read(sig, c)
    BY <2>3, ReadBitsWhole DEF d
  <2> HIDE DEF e, b
  <2>11. LET r == ReadBits(b, 1) IN r.err = "nil" /\ r.v = <<1>> /\ r.rest = e
    BY <2>8, ReadParts
  <2>12. LET r == ReadBits(e, LeadBits) IN r.err = "nil" /\ r.v = lead /\ r.rest = d
    BY <2>9, ReadParts
  <2>13. LET r == ReadBits(d, SigBits) IN r.err = "nil" /\ r.v = sig /\ r.rest = c
    BY <2>10, ReadParts
  <2>14. ReadWindow(b, w)
           = Read([lz |-> Number(lead, 2),
                   tz |-> WordBits - Number(lead, 2) - (IF len = 0 THEN WordBits ELSE len)], c)
    BY <2>11, <2>12, <2>13, OneBit, Zenon DEF ReadWindow, Then, len
  <2>15. ReadWindow(b, w) = Read(v, c)
    BY <2>3, <2>14, Zenon
  <2> QED
    BY <2>1, <2>6, <2>7, <2>15, Zenon DEF b
<1> QED
  BY <1>1, <1>2

\* After a part of them, it fails with "eof".
LEMMA ReadWindowTorn ==
  ASSUME NEW x \in BitWord, Ones(x) # {}, NEW w, ValidWindow(w), NEW b \in Seq(Byte),
         Len(b) < Len(PutWindow(w, x)), Starts(b, PutWindow(w, x))
  PROVE  ReadWindow(b, w) = Fail("eof")
<1> DEFINE v == Window(x)
<1>1. Fail("eof").err = "eof" /\ "eof" # "nil"
  BY ReadParts
<1>2. ASSUME Len(b) < 1 PROVE ReadWindow(b, w) = Fail("eof")
  <2>1. ReadBits(b, 1) = Fail("eof")
    BY <1>2, ReadBitsTorn
  <2> QED
    BY <1>1, <2>1, Zenon DEF ReadWindow, Then
<1>3. CASE Fits(w, v)
  <2>1. PutWindow(w, x) = <<0>>
    BY <1>3, Zenon DEF PutWindow
  <2>2. Len(b) < 1
    BY <2>1, OneBit, Zenon
  <2> QED
    BY <1>2, <2>2
<1>4. CASE ~Fits(w, v)
  <2> DEFINE lead == Bits(v.lz, LeadBits)
             sig == Bits(SigLen(v) % WordBits, SigBits)
             q == lead \o sig
  <2>1. PutWindow(w, x) = <<1>> \o q
    BY <1>4, Zenon DEF PutWindow
  <2>2. ValidWindow(v) /\ SigLen(v) \in 1..WordBits
    BY WindowHolds, WidenedBack
  <2>3. /\ lead \in Seq(Byte) /\ Len(lead) = LeadBits
        /\ sig \in Seq(Byte) /\ Len(sig) = SigBits
    BY <2>2, WindowFields, Zenon
  <2> HIDE DEF v, lead, sig
  <2>4. q \in Seq(Byte) /\ Len(q) = Len(lead) + Len(sig)
    BY <2>3, ConcatProperties
  <2>5. \/ Len(b) < Len(<<1>>) /\ Starts(b, <<1>>)
        \/ \E c \in Seq(Byte) : b = <<1>> \o c /\ Starts(c, q)
    <3> HIDE DEF q
    <3>1. Starts(b, <<1>> \o q)
      BY <2>1, Zenon
    <3> QED
      BY <2>4, <3>1, OneBit, CutOfConcat
  <2>6. CASE Len(b) < Len(<<1>>)
    BY <1>2, <2>6, OneBit, Zenon
  <2>7. ASSUME NEW c \in Seq(Byte), b = << 1 >> \o c, Starts(c, q)
        PROVE  ReadWindow(b, w) = Fail("eof")
    <3>1. ReadBits(b, 1) = Read(<<1>>, c)
      BY <2>7, OneBit, ReadBitsWhole
    <3>2. LET r == ReadBits(b, 1) IN r.err = "nil" /\ r.v = <<1>> /\ r.rest = c
      BY <3>1, ReadParts
    <3>3. Len(c) < Len(q)
      <4> HIDE DEF q
      <4>1. Len(b) = Len(<<1>>) + Len(c) /\ Len(<<1>> \o q) = Len(<<1>>) + Len(q)
        BY <2>4, <2>7, OneBit, ConcatProperties
      <4>2. Len(c) \in Nat /\ Len(q) \in Nat
        BY <2>4
      <4>3. Len(b) = 1 + Len(c) /\ Len(PutWindow(w, x)) = 1 + Len(q)
        BY <2>1, <4>1, OneBit, Zenon
      <4> QED
        BY <4>2, <4>3
    <3>4. \/ Len(c) < Len(lead)
          \/ \E d \in Seq(Byte) : c = lead \o d
      <4>1. Starts(c, lead \o sig)
        BY <2>7, Zenon
      <4>2. \/ Len(c) < Len(lead) /\ Starts(c, lead)
            \/ \E d \in Seq(Byte) : c = lead \o d /\ Starts(d, sig)
        <5> HIDE DEF q
        <5> QED
          BY <2>3, <4>1, CutOfConcat
      <4> QED
        BY <4>2, Zenon
    <3>5. CASE Len(c) < Len(lead)
      <4>1. ReadBits(c, LeadBits) = Fail("eof")
        BY <2>3, <3>5, ReadBitsTorn
      <4> QED
        BY <1>1, <3>2, <4>1, OneBit, Zenon DEF ReadWindow, Then
    <3>6. ASSUME NEW d \in Seq(Byte), c = lead \o d
          PROVE  ReadWindow(b, w) = Fail("eof")
      <4>1. ReadBits(c, LeadBits) = Read(lead, d)
        BY <2>3, <3>6, ReadBitsWhole
      <4>2. LET r == ReadBits(c, LeadBits) IN r.err = "nil" /\ r.v = lead /\ r.rest = d
        BY <4>1, ReadParts
      <4>3. Len(d) < SigBits
        <5>1. Len(c) = Len(lead) + Len(d) /\ Len(lead) \in Nat /\ Len(d) \in Nat /\ Len(sig) \in Nat
          <6>1. lead \in Seq(Byte) /\ sig \in Seq(Byte)
            BY <2>3, Zenon
          <6>2. Len(lead \o d) = Len(lead) + Len(d) /\ Len(lead) \in Nat /\ Len(d) \in Nat /\ Len(sig) \in Nat
            BY <6>1, ByteConcat, Zenon
          <6> QED
            BY <3>6, <6>2, Zenon
        <5> HIDE DEF q
        <5> QED
          BY <2>3, <2>4, <3>3, <5>1
      <4>4. ReadBits(d, SigBits) = Fail("eof")
        BY <4>3, ReadBitsTorn
      <4> QED
        BY <1>1, <3>2, <4>2, <4>4, OneBit, Zenon DEF ReadWindow, Then
    <3> QED
      BY <3>4, <3>5, <3>6
  <2> QED
    BY <2>5, <2>6, <2>7
<1> QED
  BY <1>3, <1>4

\* What is written for a XOR is bits.
LEMMA PutXorBits ==
  ASSUME NEW x \in BitWord, NEW w, ValidWindow(w)
  PROVE  PutXor(w, x) \in Seq(Bit)
<1>0. \A s, t \in Seq(Bit) : s \o t \in Seq(Bit)
  BY ConcatProperties
<1>1. CASE Ones(x) = {}
  <2>1. PutXor(w, x) = <<0>>
    BY <1>1, Zenon DEF PutXor
  <2> QED
    BY <2>1, OneBit, Zenon
<1>2. CASE Ones(x) # {}
  <2> DEFINE v == NextWindow(w, x)
             p == PutWindow(w, x)
             s == Significant(x, v)
             new == Window(x)
             k == SigLen(new) % WordBits
  <2>1. PutXor(w, x) = <<1>> \o (p \o s)
    BY <1>2, Zenon DEF PutXor
  <2>2. ValidWindow(v) /\ ValidWindow(new) /\ Within(x, new)
    BY <1>2, NextWindowHolds, WindowHolds
  <2>3. new.lz \in Nat /\ k \in Nat
    <3>1. SigLen(new) \in 1..WordBits /\ WordBits \in Nat /\ WordBits > 0
      BY <2>2, WidenedBack, WordSize
    <3>2. new.lz \in Nat
      BY <2>2 DEF ValidWindow
    <3> HIDE DEF new
    <3> QED
      BY <3>1, <3>2
  <2>4. p \in Seq(Bit)
    <3>1. LeadBits \in 0..WordBits /\ SigBits \in 0..WordBits
      BY WindowAssumption, WordSize
    <3> HIDE DEF k, new
    <3>2. Bits(new.lz, LeadBits) \in Seq(Bit) /\ Bits(k, SigBits) \in Seq(Bit)
      BY <2>3, <3>1, BitsType
    <3>3. <<1>> \o (Bits(new.lz, LeadBits) \o Bits(k, SigBits)) \in Seq(Bit)
      BY <1>0, <3>2, OneBit, Zenon
    <3>4. p = IF Fits(w, new) THEN <<0>> ELSE <<1>> \o (Bits(new.lz, LeadBits) \o Bits(k, SigBits))
      BY Zenon DEF PutWindow, new, k
    <3> QED
      BY <3>3, <3>4, OneBit, Zenon
  <2>5. s \in Seq(Bit)
    <3> DEFINE l == v.lz + 1
               r == WordBits - v.tz
    <3>1. v.lz \in Nat /\ v.tz \in Nat /\ v.lz + v.tz < WordBits
      BY <2>2 DEF ValidWindow
    <3>2. l \in 1..WordBits /\ r \in 1..WordBits
      BY <3>1, WordSize
    <3>3. x \in Seq(Bit) /\ Len(x) = WordBits
      BY BitWordParts
    <3>4. s = SubSeq(x, l, r)
      BY Zenon DEF Significant
    <3> HIDE DEF l, r, s
    <3>5. \A i \in 1..Len(x) : x[i] \in Bit
      BY <3>3
    <3>6. SubSeq(x, l, r) \in Seq(Bit)
      BY <3>2, <3>3, <3>5, WordSize
    <3> QED
      BY <3>4, <3>6
  <2> HIDE DEF p, s
  <2> QED
    BY <1>0, <2>1, <2>4, <2>5, OneBit, Zenon
<1> QED
  BY <1>1, <1>2

\* A sequence that is not empty.
LEMMA NonEmpty ==
  ASSUME NEW D, NEW s \in Seq(D), s # <<>>
  PROVE  Len(s) \in Nat /\ Len(s) >= 1 /\ \A i \in 1..Len(s) : s[i] \in D
  OBVIOUS

\* A value and the one before it.
XorOf(vs, i) == Xor(Bits(vs[i - 1], WordBits), Bits(vs[i], WordBits))

\* The windows of the encoder, up to value n.
Windows(f, vs, n) ==
  f = [i \in 1..n |-> IF i = 1 THEN NoWindow ELSE NextWindow(f[i - 1], XorOf(vs, i))]

\* There are such windows.
LEMMA WindowsExist ==
  ASSUME NEW vs, NEW n \in Nat
  PROVE  \E f : Windows(f, vs, n)
<1> DEFINE S == {m \in 0..n : ~\E f : Windows(f, vs, m)}
<1> SUFFICES ASSUME S # {} PROVE FALSE
  <2>1. n \in 0..n
    OBVIOUS
  <2> QED
    BY <2>1, Zenon
<1>1. PICK m \in S : \A j \in S : m <= j
  <2>1. S \in SUBSET Nat
    OBVIOUS
  <2> HIDE DEF S
  <2> QED
    BY <2>1, LeastNat
<1>2. m \in 0..n /\ ~\E f : Windows(f, vs, m)
  BY <1>1, Zenon
<1>3. m # 0
  <2> SUFFICES ASSUME m = 0 PROVE FALSE
    OBVIOUS
  <2> DEFINE F(f) == [i \in 1..0 |-> IF i = 1 THEN NoWindow ELSE NextWindow(f[i - 1], XorOf(vs, i))]
             g == F(0)
  <2>1. \A i \in 1..0 : FALSE
    OBVIOUS
  <2>2. F(g) = g
    BY <2>1, Zenon
  <2>3. Windows(g, vs, 0)
    BY <2>2, Zenon DEF Windows
  <2> QED
    BY <1>2, <2>3, Zenon
<1>4. m - 1 \in 0..n /\ m - 1 \notin S /\ m \in 1..n
  <2>1. m - 1 \in 0..n /\ ~(m <= m - 1) /\ m \in 1..n
    BY <1>2, <1>3
  <2> HIDE DEF S
  <2>2. m - 1 \notin S
    BY <1>1, <2>1, Zenon
  <2> QED
    BY <2>1, <2>2
<1>5. PICK h : Windows(h, vs, m - 1)
  BY <1>4, Zenon
<1>6. \A i \in 1..(m - 1) : h[i] = IF i = 1 THEN NoWindow ELSE NextWindow(h[i - 1], XorOf(vs, i))
  BY <1>5, Zenon DEF Windows
<1> DEFINE z == IF m = 1 THEN NoWindow ELSE NextWindow(h[m - 1], XorOf(vs, m))
           g == [i \in 1..m |-> IF i = m THEN z ELSE h[i]]
<1> HIDE DEF S
<1>7. \A i \in 1..m : g[i] = IF i = m THEN z ELSE h[i]
  BY Zenon
<1>8. g = [i \in 1..m |-> g[i]]
  BY Zenon
<1> HIDE DEF g
<1>9. ASSUME NEW i \in 1..m
      PROVE  g[i] = IF i = 1 THEN NoWindow ELSE NextWindow(g[i - 1], XorOf(vs, i))
  <2>1. (i # m => i \in 1..(m - 1)) /\ (i # 1 => i - 1 \in 1..m /\ i - 1 # m)
    BY <1>4
  <2>2. i # 1 => g[i - 1] = h[i - 1]
    BY <1>7, <2>1, Zenon
  <2>3. CASE i = m
    BY <1>7, <2>2, <2>3, Zenon DEF z
  <2>4. CASE i # m
    BY <1>6, <1>7, <2>1, <2>2, <2>4, Zenon
  <2> QED
    BY <2>3, <2>4
<1>10. [i \in 1..m |-> g[i]]
         = [i \in 1..m |-> IF i = 1 THEN NoWindow ELSE NextWindow(g[i - 1], XorOf(vs, i))]
  BY <1>9, Zenon
<1>11. Windows(g, vs, m)
  BY <1>8, <1>10, Zenon DEF Windows
<1> QED
  BY <1>2, <1>11, Zenon

Win(vs) == CHOOSE f : Windows(f, vs, Len(vs))

\* The windows of the encoder and what it writes.
LEMMA XorsType ==
  ASSUME NEW vs \in Seq(0..(Modulus - 1)), vs # <<>>
  PROVE  /\ Len(vs) \in Nat /\ Len(vs) >= 1
         /\ \A i \in 1..Len(vs) : vs[i] \in 0..(Modulus - 1) /\ Bits(vs[i], WordBits) \in BitWord
         /\ \A i \in 1..(Len(vs) - 1) : XorOf(vs, i + 1) \in BitWord
         /\ Win(vs)[1] = NoWindow
         /\ \A i \in 1..(Len(vs) - 1) : Win(vs)[i + 1] = NextWindow(Win(vs)[i], XorOf(vs, i + 1))
         /\ \A i \in 1..Len(vs) : ValidWindow(Win(vs)[i])
         /\ PutXors(vs) \in Seq(Seq(Bit)) /\ PutXors(vs) \in Seq(Seq(Byte))
         /\ Len(PutXors(vs)) = Len(vs) - 1
         /\ \A i \in 1..(Len(vs) - 1) : PutXors(vs)[i] = PutXor(Win(vs)[i], XorOf(vs, i + 1))
<1> DEFINE n == Len(vs)
           f == Win(vs)
           w == PutXors(vs)
<1>1. n \in Nat /\ n >= 1 /\ \A i \in 1..n : vs[i] \in 0..(Modulus - 1)
  BY NonEmpty
<1>2. Windows(f, vs, n)
  BY <1>1, WindowsExist, Zenon DEF Win
<1>3. w = [i \in 1..(n - 1) |-> PutXor(f[i], XorOf(vs, i + 1))]
  BY Zenon DEF PutXors, Win, Windows, XorOf
<1> HIDE DEF n, f, w
<1>4. ASSUME NEW i \in 1..n PROVE Bits(vs[i], WordBits) \in BitWord
  <2>1. vs[i] \in Nat
    BY <1>1, WordModulus
  <2>2. WordBits \in 0..WordBits
    BY WordSize
  <2> QED
    BY <2>1, <2>2, BitsType DEF BitWord
<1>5. ASSUME NEW i \in 1..(n - 1) PROVE XorOf(vs, i + 1) \in BitWord
  <2>1. i \in 1..n /\ i + 1 \in 1..n /\ (i + 1) - 1 = i
    BY <1>1
  <2>2. Bits(vs[i], WordBits) \in BitWord /\ Bits(vs[i + 1], WordBits) \in BitWord
    BY <1>4, <2>1, Zenon
  <2>3. Xor(Bits(vs[i], WordBits), Bits(vs[i + 1], WordBits)) \in BitWord
    BY <2>2, XorTwice
  <2> QED
    BY <2>1, <2>3 DEF XorOf
<1>6. \A i \in 1..n : f[i] = IF i = 1 THEN NoWindow ELSE NextWindow(f[i - 1], XorOf(vs, i))
  BY <1>2, Zenon DEF Windows
<1>7. f[1] = NoWindow
  <2>1. 1 \in 1..n
    BY <1>1
  <2> QED
    BY <1>6, <2>1, Zenon
<1>8. ASSUME NEW i \in 1..(n - 1) PROVE f[i + 1] = NextWindow(f[i], XorOf(vs, i + 1))
  <2>1. i + 1 \in 1..n /\ i + 1 # 1 /\ (i + 1) - 1 = i
    BY <1>1
  <2>2. f[i + 1] = NextWindow(f[(i + 1) - 1], XorOf(vs, i + 1))
    BY <1>6, <2>1, Zenon
  <2> QED
    BY <2>1, <2>2
<1>9. \A i \in 1..n : ValidWindow(f[i])
  <2> DEFINE S == {i \in 1..n : ~ValidWindow(f[i])}
  <2> SUFFICES ASSUME S # {} PROVE FALSE
    OBVIOUS
  <2>1. PICK i \in S : \A j \in S : i <= j
    <3>1. S \in SUBSET Nat
      BY <1>1
    <3> HIDE DEF S
    <3> QED
      BY <3>1, LeastNat
  <2>2. i \in 1..n /\ ~ValidWindow(f[i])
    BY <2>1
  <2>3. i # 1
    BY <1>7, <2>2, NoWindowValid, Zenon
  <2> DEFINE j == i - 1
  <2>4. j \in 1..(n - 1) /\ j \in 1..n /\ ~(i <= j) /\ j + 1 = i
    BY <1>1, <2>2, <2>3
  <2>5. j \notin S
    <3> HIDE DEF S, j
    <3> QED
      BY <2>1, <2>4, Zenon
  <2> HIDE DEF j
  <2>6. ValidWindow(f[j])
    BY <2>4, <2>5, Zenon
  <2>7. ValidWindow(f[j + 1])
    BY <1>5, <1>8, <2>4, <2>6, NextWindowHolds
  <2> HIDE DEF S
  <2> QED
    BY <2>2, <2>4, <2>7
<1>10. ASSUME NEW i \in 1..(n - 1) PROVE PutXor(f[i], XorOf(vs, i + 1)) \in Seq(Bit)
  <2>1. i \in 1..n
    BY <1>1
  <2> QED
    BY <1>5, <1>9, <2>1, PutXorBits
<1>11. w \in [1..(n - 1) -> Seq(Bit)] /\ \A i \in 1..(n - 1) : w[i] = PutXor(f[i], XorOf(vs, i + 1))
  BY <1>3, <1>10, Zenon
<1>12. w \in Seq(Seq(Bit)) /\ Len(w) = n - 1
  <2>1. n - 1 \in Nat
    BY <1>1
  <2> QED
    BY <1>11, <2>1, FunctionSeq
<1>13. w \in Seq(Seq(Byte))
  <2>1. Bit \subseteq Byte
    BY DEF Bit, Byte
  <2>2. Seq(Bit) \subseteq Seq(Byte)
    BY <2>1, WiderSeq
  <2> QED
    BY <1>12, <2>2, WiderSeq
<1> QED
  BY <1>1, <1>4, <1>5, <1>7, <1>8, <1>9, <1>11, <1>12, <1>13 DEF n, f, w

\* The bits of a value, and that they make it.
LEMMA ValueBits ==
  ASSUME NEW v \in 0..(Modulus - 1)
  PROVE  Bits(v, WordBits) \in BitWord /\ Number(Bits(v, WordBits), 2) = v
<1>1. v \in Nat /\ v < Modulus
  BY VarintLen
<1>2. v < 2^WordBits
  BY <1>1, Zenon DEF Modulus
<1>3. WordBits \in 0..WordBits
  BY WordSize
<1>4. Number(Bits(v, WordBits), 2) = v
  BY <1>1, <1>2, <1>3, NumberOfBits
<1>5. Bits(v, WordBits) \in Seq(Bit) /\ Len(Bits(v, WordBits)) = WordBits
  BY <1>1, <1>3, BitsType
<1> QED
  BY <1>4, <1>5, Zenon DEF BitWord

\* The value that a XOR leads to, and that none leads to the same.
LEMMA XorBack ==
  ASSUME NEW prev \in 0..(Modulus - 1), NEW next \in 0..(Modulus - 1),
         NEW x, x = Xor(Bits(prev, WordBits), Bits(next, WordBits))
  PROVE  /\ x \in BitWord /\ Number(Xor(Bits(prev, WordBits), x), 2) = next
         /\ Ones(x) = {} => next = prev
<1> DEFINE a == Bits(prev, WordBits)
           b == Bits(next, WordBits)
<1>1. a \in BitWord /\ b \in BitWord /\ Number(a, 2) = prev /\ Number(b, 2) = next
  BY ValueBits
<1> HIDE DEF a, b
<1>2. x = Xor(a, b)
  BY DEF a, b
<1>3. x \in BitWord /\ Xor(a, x) = b
  BY <1>1, <1>2, XorTwice
<1>4. ASSUME Ones(x) = {} PROVE next = prev
  <2>1. ASSUME NEW i \in 1..WordBits PROVE a[i] = b[i]
    <3>1. (a[i] = 0 \/ a[i] = 1) /\ (b[i] = 0 \/ b[i] = 1) /\ (x[i] = 0 \/ x[i] = 1)
      BY <1>1, <1>3, BitWordParts, Zenon
    <3>2. x[i] # 1
      BY <1>4 DEF Ones
    <3>3. x[i] = (a[i] + b[i]) % 2
      BY <1>2 DEF Xor
    <3>4. (0 + 1) % 2 = 1 /\ (1 + 0) % 2 = 1
      OBVIOUS
    <3> QED
      BY <3>1, <3>2, <3>3, <3>4, Zenon
  <2>2. a = b
    BY <1>1, <2>1, BitWordParts, Zenon
  <2> QED
    BY <1>1, <2>2, Zenon
<1>5. Number(Xor(a, x), 2) = next
  BY <1>1, <1>3, Zenon
<1> QED
  BY <1>3, <1>4, <1>5 DEF a

\* After the bits of a XOR, the reader adds the value and leaves the rest.
LEMMA NextValueWhole ==
  ASSUME NEW prev \in 0..(Modulus - 1), NEW next \in 0..(Modulus - 1), NEW s, Last(s) = prev,
         NEW x, x = Xor(Bits(prev, WordBits), Bits(next, WordBits)),
         NEW w, ValidWindow(w), NEW c \in Seq(Byte)
  PROVE  NextValue(Read([column |-> s, window |-> w], PutXor(w, x) \o c))
           = Read([column |-> Append(s, next), window |-> NextWindow(w, x)], c)
<1> DEFINE v == [column |-> s, window |-> w]
<1>1. /\ x \in BitWord /\ Number(Xor(Bits(prev, WordBits), x), 2) = next
      /\ Ones(x) = {} => next = prev
  BY XorBack
<1>2. v.column = s /\ v.window = w
  OBVIOUS
<1> HIDE DEF v
<1>3. CASE Ones(x) = {}
  <2> DEFINE b == <<0>> \o c
  <2>1. PutXor(w, x) = <<0>> /\ NextWindow(w, x) = w /\ next = prev
    BY <1>1, <1>3, Zenon DEF PutXor, NextWindow
  <2>2. ReadBits(b, 1) = Read(<<0>>, c)
    BY OneBit, ReadBitsWhole
  <2> HIDE DEF b
  <2>3. LET r == ReadBits(b, 1) IN r.err = "nil" /\ r.v = <<0>> /\ r.rest = c
    BY <2>2, ReadParts
  <2>4. LET r == Read(v, b) IN r.v = v /\ r.rest = b
    BY ReadParts
  <2>5. NextValue(Read(v, b)) = Read([column |-> Append(s, prev), window |-> w], c)
    BY <1>2, <2>3, <2>4, Zenon DEF NextValue, Then
  <2> QED
    BY <2>1, <2>5, Zenon DEF b, v
<1>4. CASE Ones(x) # {}
  <2> DEFINE p == PutWindow(w, x)
             u == NextWindow(w, x)
             t == Significant(x, u)
             d == t \o c
             e == p \o d
             b == <<1>> \o e
  <2>1. PutXor(w, x) = <<1>> \o (p \o t)
    BY <1>4, Zenon DEF PutXor
  <2>2. ValidWindow(u) /\ Within(x, u)
    BY <1>1, NextWindowHolds, Zenon
  <2>3. t \in Seq(Byte) /\ Len(t) = SigLen(u) /\ Widened(t, u) = x
    BY <1>1, <2>2, WidenedBack, Zenon
  <2>4. p \in Seq(Byte)
    BY <1>1, <1>4, ReadWindowWhole, Zenon
  <2>5. d \in Seq(Byte)
    <3> HIDE DEF t
    <3> QED
      BY <2>3, ByteConcat, Zenon
  <2>6. ReadWindow(e, w) = Read(u, d)
    <3>1. \A y \in Seq(Byte) : ReadWindow(p \o y, w) = Read(u, y)
      BY <1>1, <1>4, ReadWindowWhole, Zenon
    <3> QED
      BY <2>5, <3>1, Zenon
  <2>7. ReadBits(d, SigLen(u)) = Read(t, c)
    <3>1. ReadBits(d, Len(t)) = Read(t, c)
      BY <2>3, ReadBitsWhole, Zenon
    <3> QED
      BY <2>3, <3>1, Zenon
  <2> HIDE DEF p, u, t
  <2>8. e \in Seq(Byte) /\ (<<1>> \o (p \o t)) \o c = b
    <3>1. p \o t \in Seq(Byte) /\ e \in Seq(Byte)
      BY <2>3, <2>4, <2>5, ByteConcat, Zenon
    <3>2. (p \o t) \o c = e
      BY <2>3, <2>4, Regroup, Zenon
    <3>3. (<<1>> \o (p \o t)) \o c = <<1>> \o ((p \o t) \o c)
      BY <3>1, OneBit, Regroup, Zenon
    <3> QED
      BY <3>1, <3>2, <3>3, Zenon
  <2> HIDE DEF d, e
  <2>9. ReadBits(b, 1) = Read(<<1>>, e)
    BY <2>8, OneBit, ReadBitsWhole
  <2> HIDE DEF b
  <2>10. LET r == ReadBits(b, 1) IN r.err = "nil" /\ r.v = <<1>> /\ r.rest = e
    BY <2>9, ReadParts
  <2>11. LET r == ReadWindow(e, w) IN r.err = "nil" /\ r.v = u /\ r.rest = d
    BY <2>6, ReadParts
  <2>12. LET r == ReadBits(d, SigLen(u)) IN r.err = "nil" /\ r.v = t /\ r.rest = c
    BY <2>7, ReadParts
  <2>13. LET r == Read(v, b) IN r.v = v /\ r.rest = b
    BY ReadParts
  <2>14. NextValue(Read(v, b))
           = Read([column |-> Append(s, Number(Xor(Bits(prev, WordBits), Widened(t, u)), 2)),
                   window |-> u], c)
    BY <1>2, <2>10, <2>11, <2>12, <2>13, OneBit, Zenon DEF NextValue, Then
  <2>15. NextValue(Read(v, b)) = Read([column |-> Append(s, next), window |-> u], c)
    BY <1>1, <2>3, <2>14, Zenon
  <2> QED
    BY <2>1, <2>8, <2>15, Zenon DEF b, v, u
<1> QED
  BY <1>3, <1>4

\* After a part of them, it fails with "eof".
LEMMA NextValueTorn ==
  ASSUME NEW x \in BitWord, NEW s, NEW w, ValidWindow(w), NEW b \in Seq(Byte),
         Len(b) < Len(PutXor(w, x)), Starts(b, PutXor(w, x))
  PROVE  NextValue(Read([column |-> s, window |-> w], b)) = Fail("eof")
<1> DEFINE v == [column |-> s, window |-> w]
<1>1. v.window = w
  OBVIOUS
<1> HIDE DEF v
<1>2. Fail("eof").err = "eof" /\ "eof" # "nil"
  BY ReadParts
<1>3. LET r == Read(v, b) IN r.v = v /\ r.rest = b
  BY ReadParts
<1>4. ASSUME Len(b) < 1 PROVE NextValue(Read(v, b)) = Fail("eof")
  <2>1. ReadBits(b, 1) = Fail("eof")
    BY <1>4, ReadBitsTorn
  <2> QED
    BY <1>2, <1>3, <2>1, Zenon DEF NextValue, Then
<1>5. CASE Ones(x) = {}
  <2>1. PutXor(w, x) = <<0>>
    BY <1>5, Zenon DEF PutXor
  <2>2. Len(b) < 1
    BY <2>1, OneBit, Zenon
  <2> QED
    BY <1>4, <2>2 DEF v
<1>6. CASE Ones(x) # {}
  <2> DEFINE p == PutWindow(w, x)
             u == NextWindow(w, x)
             t == Significant(x, u)
             q == p \o t
  <2>1. PutXor(w, x) = <<1>> \o q
    BY <1>6, Zenon DEF PutXor
  <2>2. ValidWindow(u) /\ Within(x, u)
    BY NextWindowHolds
  <2>3. t \in Seq(Byte) /\ Len(t) = SigLen(u)
    BY <2>2, WidenedBack
  <2>4. p \in Seq(Byte) /\ \A y \in Seq(Byte) : ReadWindow(p \o y, w) = Read(u, y)
    <3>1. <<>> \in Seq(Byte)
      OBVIOUS
    <3> QED
      BY <1>6, <3>1, ReadWindowWhole, Zenon
  <2>5. \A y \in Seq(Byte) : Len(y) < Len(p) /\ Starts(y, p) => ReadWindow(y, w) = Fail("eof")
    BY <1>6, ReadWindowTorn, Zenon
  <2> HIDE DEF p, u, t
  <2>6. q \in Seq(Byte) /\ Len(q) = Len(p) + Len(t) /\ Len(p) \in Nat /\ Len(t) \in Nat
    BY <2>3, <2>4, ByteConcat, Zenon
  <2>7. \/ Len(b) < Len(<<1>>) /\ Starts(b, <<1>>)
        \/ \E c \in Seq(Byte) : b = <<1>> \o c /\ Starts(c, q)
    <3> HIDE DEF q
    <3>1. Starts(b, <<1>> \o q)
      BY <2>1, Zenon
    <3> QED
      BY <2>6, <3>1, OneBit, CutOfConcat
  <2>8. CASE Len(b) < Len(<<1>>)
    BY <1>4, <2>8, OneBit, Zenon DEF v
  <2>9. ASSUME NEW c \in Seq(Byte), b = << 1 >> \o c, Starts(c, q)
        PROVE  NextValue(Read(v, b)) = Fail("eof")
    <3>1. ReadBits(b, 1) = Read(<<1>>, c)
      BY <2>9, OneBit, ReadBitsWhole
    <3>2. LET r == ReadBits(b, 1) IN r.err = "nil" /\ r.v = <<1>> /\ r.rest = c
      BY <3>1, ReadParts
    <3>3. Len(c) < Len(q)
      <4> HIDE DEF q
      <4>1. Len(<<1>> \o c) = Len(<<1>>) + Len(c) /\ Len(<<1>> \o q) = Len(<<1>>) + Len(q)
        BY <2>6, OneBit, ByteConcat, Zenon
      <4>2. Len(c) \in Nat /\ Len(q) \in Nat
        BY <2>6, ByteConcat, Zenon
      <4>3. Len(b) = 1 + Len(c) /\ Len(PutXor(w, x)) = 1 + Len(q)
        BY <2>1, <2>9, <4>1, OneBit, Zenon
      <4> QED
        BY <4>2, <4>3
    <3>4. \/ Len(c) < Len(p) /\ Starts(c, p)
          \/ \E d \in Seq(Byte) : c = p \o d /\ Starts(d, t)
      <4>1. Starts(c, p \o t)
        BY <2>9, Zenon
      <4> HIDE DEF q
      <4> QED
        BY <2>3, <2>4, <4>1, CutOfConcat
    <3>5. CASE Len(c) < Len(p) /\ Starts(c, p)
      <4>1. ReadWindow(c, w) = Fail("eof")
        BY <2>5, <3>5, Zenon
      <4> QED
        BY <1>1, <1>2, <1>3, <3>2, <4>1, OneBit, Zenon DEF NextValue, Then
    <3>6. ASSUME NEW d \in Seq(Byte), c = p \o d
          PROVE  NextValue(Read(v, b)) = Fail("eof")
      <4>1. ReadWindow(c, w) = Read(u, d)
        BY <2>4, <3>6, Zenon
      <4>2. LET r == ReadWindow(c, w) IN r.err = "nil" /\ r.v = u /\ r.rest = d
        BY <4>1, ReadParts
      <4>3. Len(d) < Len(t)
        <5>1. Len(p \o d) = Len(p) + Len(d) /\ Len(d) \in Nat
          BY <2>4, ByteConcat, Zenon
        <5>2. Len(c) = Len(p) + Len(d)
          BY <3>6, <5>1, Zenon
        <5> HIDE DEF q
        <5> QED
          BY <2>6, <3>3, <5>1, <5>2
      <4>4. ReadBits(d, SigLen(u)) = Fail("eof")
        <5>1. Len(d) < SigLen(u)
          BY <2>3, <4>3, Zenon
        <5> QED
          BY <5>1, ReadBitsTorn
      <4> QED
        BY <1>1, <1>2, <1>3, <3>2, <4>2, <4>4, OneBit, Zenon DEF NextValue, Then
    <3> QED
      BY <3>4, <3>5, <3>6
  <2> QED
    BY <2>7, <2>8, <2>9 DEF v
<1> QED
  BY <1>5, <1>6

\* The first k + 1 values of a stream b, when it holds them.
ValuesRead(b, vs, k) ==
  IF Len(Flat(PutXors(vs), k)) <= Len(b)
  THEN Read([column |-> SubSeq(vs, 1, k + 1), window |-> Win(vs)[k + 1]], Rest(b, PutXors(vs), k))
  ELSE Fail("eof")

\* The next value of a column.
LEMMA NextOfColumn ==
  ASSUME NEW vs \in Seq(0..(Modulus - 1)), vs # <<>>, NEW k \in 0..(Len(vs) - 2), NEW c \in Seq(Byte)
  PROVE  NextValue(Read([column |-> SubSeq(vs, 1, k + 1), window |-> Win(vs)[k + 1]],
                        PutXors(vs)[k + 1] \o c))
           = Read([column |-> SubSeq(vs, 1, k + 2), window |-> Win(vs)[k + 2]], c)
<1> DEFINE s == SubSeq(vs, 1, k + 1)
           w == Win(vs)[k + 1]
           x == XorOf(vs, k + 2)
           prev == vs[k + 1]
           next == vs[k + 2]
<1>1. /\ Len(vs) \in Nat /\ k + 1 \in 1..Len(vs) /\ k + 2 \in 1..Len(vs) /\ k + 1 \in 1..(Len(vs) - 1)
      /\ (k + 1) + 1 = k + 2 /\ (k + 2) - 1 = k + 1 /\ k + 1 \in 0..Len(vs) /\ k + 1 \in 0..(Len(vs) - 1)
      /\ k + 1 \in 1..(k + 1)
  <2>1. Len(vs) \in Nat
    BY XorsType
  <2> QED
    BY <2>1
<1>2. prev \in 0..(Modulus - 1) /\ next \in 0..(Modulus - 1) /\ ValidWindow(w)
  BY <1>1, XorsType
<1>3. x = Xor(Bits(prev, WordBits), Bits(next, WordBits))
  BY <1>1 DEF XorOf
<1>4. PutXors(vs)[k + 1] = PutXor(w, x) /\ Win(vs)[k + 2] = NextWindow(w, x)
  <2>1. /\ PutXors(vs)[k + 1] = PutXor(Win(vs)[k + 1], XorOf(vs, (k + 1) + 1))
        /\ Win(vs)[(k + 1) + 1] = NextWindow(Win(vs)[k + 1], XorOf(vs, (k + 1) + 1))
    BY <1>1, XorsType, Zenon
  <2> QED
    BY <1>1, <2>1
<1>5. Last(s) = prev
  <2>1. s \in Seq(0..(Modulus - 1)) /\ Len(s) = k + 1 /\ \A i \in 1..(k + 1) : s[i] = vs[i]
    BY <1>1, FirstWords
  <2> HIDE DEF s
  <2>2. s[Len(s)] = vs[k + 1]
    BY <1>1, <2>1, Zenon
  <2> QED
    BY <2>2, Zenon DEF Last
<1>6. Append(s, next) = SubSeq(vs, 1, k + 2)
  <2>1. Append(SubSeq(vs, 1, k + 1), vs[(k + 1) + 1]) = SubSeq(vs, 1, (k + 1) + 1)
    BY <1>1, OneMore
  <2> QED
    BY <1>1, <2>1
<1> HIDE DEF s, w, x, prev, next
<1>7. NextValue(Read([column |-> s, window |-> w], PutXor(w, x) \o c))
        = Read([column |-> Append(s, next), window |-> NextWindow(w, x)], c)
  BY <1>2, <1>3, <1>5, NextValueWhole
<1>8. NextValue(Read([column |-> s, window |-> w], PutXors(vs)[k + 1] \o c))
        = Read([column |-> SubSeq(vs, 1, k + 2), window |-> Win(vs)[k + 2]], c)
  BY <1>4, <1>6, <1>7, Zenon
<1> QED
  BY <1>8 DEF s, w

\* The reader of values, value by value.
LEMMA ValuesStep ==
  ASSUME NEW vs \in Seq(0..(Modulus - 1)), vs # <<>>, NEW b \in Seq(Byte), NEW pad \in Seq(Byte),
         Starts(b, FlattenSeq(PutXors(vs)) \o pad)
  PROVE  /\ ValuesRead(b, vs, 0) = Read([column |-> <<vs[1]>>, window |-> NoWindow], b)
         /\ \A k \in 0..(Len(vs) - 2) : ValuesRead(b, vs, k + 1) = Then(ValuesRead(b, vs, k), NextValue)
<1> DEFINE w == PutXors(vs)
           V(k) == [column |-> SubSeq(vs, 1, k + 1), window |-> Win(vs)[k + 1]]
<1>1. /\ Len(vs) \in Nat /\ Len(vs) >= 1 /\ w \in Seq(Seq(Byte)) /\ Len(w) = Len(vs) - 1
  BY XorsType
<1>2. \A k \in 0..(Len(w) - 1) :
        /\ XorOf(vs, (k + 1) + 1) \in BitWord /\ ValidWindow(Win(vs)[k + 1])
        /\ w[k + 1] = PutXor(Win(vs)[k + 1], XorOf(vs, (k + 1) + 1))
  <2> TAKE k \in 0..(Len(w) - 1)
  <2>1. k + 1 \in 1..(Len(vs) - 1) /\ k + 1 \in 1..Len(vs)
    BY <1>1
  <2> QED
    BY <2>1, XorsType, Zenon
<1>3. \A k : ValuesRead(b, vs, k) = IF Len(Flat(w, k)) <= Len(b) THEN Read(V(k), Rest(b, w, k)) ELSE Fail("eof")
  BY Zenon DEF ValuesRead
<1>4. \A k \in 0..(Len(w) - 1) : \A c \in Seq(Byte) : NextValue(Read(V(k), w[k + 1] \o c)) = Read(V(k + 1), c)
  <2> TAKE k \in 0..(Len(w) - 1)
  <2> TAKE c \in Seq(Byte)
  <2>1. k \in 0..(Len(vs) - 2) /\ (k + 1) + 1 = k + 2
    BY <1>1
  <2> QED
    BY <2>1, NextOfColumn
<1> HIDE DEF w
<1>5. ValuesRead(b, vs, 0) = Read([column |-> <<vs[1]>>, window |-> NoWindow], b)
  <2>1. V(0) = [column |-> <<vs[1]>>, window |-> NoWindow]
    <3>1. SubSeq(vs, 1, 1) = <<vs[1]>> /\ Win(vs)[1] = NoWindow
      BY FirstElement, XorsType
    <3>2. 0 + 1 = 1
      OBVIOUS
    <3> QED
      BY <3>1, <3>2
  <2>2. Rest(b, w, 0) = b /\ Len(Flat(w, 0)) <= Len(b)
    BY <1>1, AllWords
  <2> HIDE DEF V
  <2> QED
    BY <1>3, <2>1, <2>2, Zenon
<1>6. ASSUME NEW k \in 0..(Len(w) - 1)
      PROVE  ValuesRead(b, vs, k + 1) = Then(ValuesRead(b, vs, k), NextValue)
  <2>1. CASE ~(Len(Flat(w, k)) <= Len(b))
    <3>1. ~(Len(Flat(w, k + 1)) <= Len(b))
      BY <1>1, <2>1, AllWords
    <3>2. ValuesRead(b, vs, k) = Fail("eof") /\ ValuesRead(b, vs, k + 1) = Fail("eof")
      BY <1>3, <2>1, <3>1, Zenon
    <3>3. Fail("eof").err # "nil"
      BY ReadParts
    <3> QED
      BY <3>2, <3>3, Zenon DEF Then
  <2>2. CASE Len(Flat(w, k)) <= Len(b)
    <3> DEFINE r == Rest(b, w, k)
               v == V(k)
    <3>1. /\ r \in Seq(Byte)
          /\ \/ Len(r) < Len(w[k + 1]) /\ Starts(r, w[k + 1]) /\ ~(Len(Flat(w, k + 1)) <= Len(b))
             \/ /\ Len(Flat(w, k + 1)) <= Len(b)
                /\ Rest(b, w, k + 1) \in Seq(Byte) /\ r = w[k + 1] \o Rest(b, w, k + 1)
      <4>1. Starts(b, FlattenSeq(w) \o pad)
        BY Zenon DEF w
      <4> HIDE DEF V
      <4> QED
        BY <1>1, <2>2, <4>1, CutAtWord
    <3>2. ValuesRead(b, vs, k) = Read(v, r)
      BY <1>3, <2>2, Zenon
    <3>3. Then(ValuesRead(b, vs, k), NextValue) = NextValue(Read(v, r))
      <4> HIDE DEF r, v
      <4>1. Read(v, r).err = "nil"
        BY ReadParts
      <4> QED
        BY <3>2, <4>1, Zenon DEF Then
    <3> HIDE DEF r
    <3>4. CASE Len(r) < Len(w[k + 1]) /\ Starts(r, w[k + 1]) /\ ~(Len(Flat(w, k + 1)) <= Len(b))
      <4>1. NextValue(Read(v, r)) = Fail("eof")
        <5> DEFINE x == XorOf(vs, (k + 1) + 1)
                   u == Win(vs)[k + 1]
        <5>1. x \in BitWord /\ ValidWindow(u) /\ w[k + 1] = PutXor(u, x)
          BY <1>2, Zenon
        <5> HIDE DEF x
        <5>2. \A s : NextValue(Read([column |-> s, window |-> u], r)) = Fail("eof")
          <6> HIDE DEF u, V
          <6>1. Len(r) < Len(PutXor(u, x)) /\ Starts(r, PutXor(u, x))
            BY <3>4, <5>1, Zenon
          <6> QED
            BY <3>1, <5>1, <6>1, NextValueTorn
        <5> QED
          BY <5>2, Zenon
      <4>2. ValuesRead(b, vs, k + 1) = Fail("eof")
        BY <1>3, <3>4, Zenon
      <4> QED
        BY <3>3, <4>1, <4>2, Zenon
    <3>5. CASE /\ Len(Flat(w, k + 1)) <= Len(b)
               /\ Rest(b, w, k + 1) \in Seq(Byte) /\ r = w[k + 1] \o Rest(b, w, k + 1)
      <4> HIDE DEF V
      <4>1. NextValue(Read(v, r)) = Read(V(k + 1), Rest(b, w, k + 1))
        BY <1>4, <3>5, Zenon
      <4>2. ValuesRead(b, vs, k + 1) = Read(V(k + 1), Rest(b, w, k + 1))
        BY <1>3, <3>5, Zenon
      <4> QED
        BY <3>3, <4>1, <4>2, Zenon
    <3> QED
      BY <3>1, <3>4, <3>5
  <2> QED
    BY <2>1, <2>2
<1>7. Len(w) - 1 = Len(vs) - 2
  BY <1>1
<1> QED
  BY <1>5, <1>6, <1>7

\* The loop of the reader of values.
ValueLoop(f, b, v, n) ==
  f = [i \in 0..n |-> IF i = 0 THEN Read([column |-> <<v>>, window |-> NoWindow], b) ELSE Then(f[i - 1], NextValue)]

\* It reads all values, or finds the end of the stream.
LEMMA GetXorsCut ==
  ASSUME NEW vs \in Seq(0..(Modulus - 1)), vs # <<>>, NEW b \in Seq(Byte), NEW pad \in Seq(Byte),
         Starts(b, FlattenSeq(PutXors(vs)) \o pad)
  PROVE  GetXors(b, vs[1], Len(vs) - 1) = ValuesRead(b, vs, Len(vs) - 1)
<1> DEFINE n == Len(vs) - 1
           first == Read([column |-> <<vs[1]>>, window |-> NoWindow], b)
           g == [i \in 0..n |-> ValuesRead(b, vs, i)]
<1>0. Len(vs) \in Nat /\ Len(vs) >= 1
  BY XorsType
<1>1. n \in Nat /\ n - 1 = Len(vs) - 2
  BY <1>0
<1>2. /\ ValuesRead(b, vs, 0) = first
      /\ \A k \in 0..(n - 1) : ValuesRead(b, vs, k + 1) = Then(ValuesRead(b, vs, k), NextValue)
  BY <1>1, ValuesStep
<1> HIDE DEF n, first
<1>3. \A i \in 0..n : g[i] = IF i = 0 THEN first ELSE Then(g[i - 1], NextValue)
  <2> TAKE i \in 0..n
  <2>1. g[i] = ValuesRead(b, vs, i)
    BY Zenon
  <2>2. CASE i = 0
    BY <1>2, <2>1, <2>2, Zenon
  <2>3. CASE i # 0
    <3>1. i - 1 \in 0..(n - 1) /\ i - 1 \in 0..n /\ (i - 1) + 1 = i
      BY <1>1, <2>3
    <3>2. g[i - 1] = ValuesRead(b, vs, i - 1)
      BY <3>1, Zenon
    <3>3. ValuesRead(b, vs, (i - 1) + 1) = Then(ValuesRead(b, vs, i - 1), NextValue)
      BY <1>2, <3>1, Zenon
    <3> HIDE DEF g
    <3>4. ValuesRead(b, vs, i) = Then(g[i - 1], NextValue)
      BY <3>1, <3>2, <3>3
    <3> QED
      BY <2>1, <2>3, <3>4, Zenon
  <2> QED
    BY <2>2, <2>3
<1>4. ValueLoop(g, b, vs[1], n)
  <2>1. g = [i \in 0..n |-> g[i]]
    BY Zenon
  <2> HIDE DEF g
  <2>2. [i \in 0..n |-> g[i]] = [i \in 0..n |-> IF i = 0 THEN first ELSE Then(g[i - 1], NextValue)]
    BY <1>3, Zenon
  <2> QED
    BY <2>1, <2>2, Zenon DEF ValueLoop, first
<1> DEFINE f == CHOOSE f : ValueLoop(f, b, vs[1], n)
<1>5. ValueLoop(f, b, vs[1], n)
  <2> HIDE DEF g
  <2> QED
    BY <1>4, Zenon
<1>6. GetXors(b, vs[1], n) = f[n]
  BY Zenon DEF GetXors, ValueLoop
<1>7. g[n] = ValuesRead(b, vs, n)
  BY <1>1
<1> HIDE DEF f, g
<1>8. \A i \in 0..n : f[i] = IF i = 0 THEN first ELSE Then(f[i - 1], NextValue)
  BY <1>5, Zenon DEF ValueLoop, first
<1>9. f[0] = g[0]
  <2>1. 0 \in 0..n
    BY <1>1
  <2> QED
    BY <1>3, <1>8, <2>1, Zenon
<1>10. ASSUME NEW i \in 1..n, f[i - 1] = g[i - 1] PROVE f[i] = g[i]
  <2>1. i \in 0..n /\ i # 0
    BY <1>1
  <2> QED
    BY <1>3, <1>8, <1>10, <2>1, Zenon
<1>11. f[n] = g[n]
  BY <1>1, <1>9, <1>10, LoopsAgree
<1> QED
  BY <1>6, <1>7, <1>11, Zenon DEF n

\* What is written for a column of values: bytes, of an empty one a head only.
LEMMA EncodeValuesType ==
  ASSUME NEW vs \in Seq(0..(Modulus - 1)), Len(vs) < Modulus
  PROVE  /\ vs \in Columns /\ PutHead(vs) \in Seq(Byte)
         /\ FlattenSeq(PutXors(vs)) \in Seq(Bit)
         /\ BitsToBytes(FlattenSeq(PutXors(vs))) \in Seq(Byte) /\ EncodeValues(vs) \in Seq(Byte)
         /\ vs = <<>> => BitsToBytes(FlattenSeq(PutXors(vs))) = <<>>
<1>1. vs \in Columns
  <2>1. 0..(Modulus - 1) \subseteq Int
    BY WordModulus
  <2>2. vs \in Seq(Int)
    BY <2>1, WiderSeq
  <2> QED
    BY <2>2 DEF Columns
<1>2. PutHead(vs) \in Seq(Byte)
  BY <1>1, PutHeadType
<1>3. /\ FlattenSeq(PutXors(vs)) \in Seq(Bit)
      /\ vs = <<>> => FlattenSeq(PutXors(vs)) = <<>>
  <2> DEFINE w == PutXors(vs)
  <2>1. CASE vs # <<>>
    <3>1. w \in Seq(Seq(Bit))
      BY <2>1, XorsType
    <3> HIDE DEF w
    <3>2. Len(w) \in 0..Len(w) /\ SubSeq(w, 1, Len(w)) = w
      BY <3>1, SubSeqFull
    <3>3. Flat(w, Len(w)) \in Seq(Bit)
      BY <3>1, <3>2, FlatStep
    <3>4. FlattenSeq(w) \in Seq(Bit)
      BY <3>2, <3>3, Zenon DEF Flat
    <3> QED
      BY <2>1, <3>4 DEF w
  <2>2. CASE vs = <<>>
    <3>1. 1..(Len(vs) - 1) = {}
      BY <2>2
    <3>2. w = [i \in 1..(Len(vs) - 1) |-> PutXor(Win(vs)[i], XorOf(vs, i + 1))]
      BY Zenon DEF PutXors, Win, Windows, XorOf
    <3>3. w = <<>>
      <4>1. DOMAIN w = {} /\ w = [i \in DOMAIN w |-> w[i]]
        <5> HIDE DEF w
        <5> QED
          BY <3>1, <3>2, Zenon
      <4> QED
        BY <4>1, NoElements
    <3>4. FlattenSeq(w) = <<>>
      <4>1. Len(<<>>) = 0
        OBVIOUS
      <4> HIDE DEF w
      <4> QED
        BY <3>3, <4>1, Zenon DEF FlattenSeq
    <3> HIDE DEF w
    <3> QED
      BY <3>4, EmptySeq DEF w
  <2> QED
    BY <2>1, <2>2
<1> DEFINE bits == FlattenSeq(PutXors(vs))
<1> HIDE DEF bits
<1>4. bits \in Seq(Bit) /\ (vs = <<>> => bits = <<>>)
  BY <1>3 DEF bits
<1>5. BitsToBytes(bits) \in Seq(Byte) /\ Len(BitsToBytes(bits)) = (Len(bits) + 7) \div 8
  BY <1>4, BitsToBytesType
<1>6. vs = <<>> => BitsToBytes(bits) = <<>>
  <2> SUFFICES ASSUME vs = <<>> PROVE BitsToBytes(bits) = <<>>
    OBVIOUS
  <2>1. Len(bits) = 0
    BY <1>4
  <2>2. Len(BitsToBytes(bits)) = 0
    BY <1>5, <2>1
  <2> QED
    BY <1>5, <2>2, EmptySeq
<1>7. EncodeValues(vs) \in Seq(Byte)
  BY <1>2, <1>5, ConcatProperties DEF EncodeValues, bits
<1> QED
  BY <1>1, <1>2, <1>4, <1>5, <1>6, <1>7 DEF bits

\* A block of values, or a part of it.
LEMMA DecodeValuesCut ==
  ASSUME NEW vs \in Seq(0..(Modulus - 1)), Len(vs) < Modulus,
         NEW b \in Seq(Byte), Starts(b, EncodeValues(vs))
  PROVE  IF Len(b) < Len(EncodeValues(vs)) THEN DecodeValues(b).err # "nil"
         ELSE DecodeValues(b).err = "nil" /\ DecodeValues(b).v = vs
<1> DEFINE x == PutHead(vs)
           w == PutXors(vs)
           bits == FlattenSeq(w)
           y == BitsToBytes(bits)
           r == DecodeValues(b)
           n == Len(vs) - 1
<1>1. /\ vs \in Columns /\ x \in Seq(Byte) /\ y \in Seq(Byte) /\ EncodeValues(vs) = x \o y
      /\ bits \in Seq(Bit) /\ (vs = <<>> => y = <<>>)
  BY EncodeValuesType, Zenon DEF EncodeValues
<1>2. Len(x \o y) = Len(x) + Len(y) /\ Len(x) \in Nat /\ Len(y) \in Nat /\ Len(b) \in Nat
  <2> HIDE DEF x, y
  <2> QED
    BY <1>1, ConcatProperties
<1>3. \/ Len(b) < Len(x) /\ Starts(b, x)
      \/ \E c \in Seq(Byte) : b = x \o c /\ Starts(c, y)
  <2> HIDE DEF x, y
  <2> QED
    BY <1>1, CutOfConcat
<1>4. Fail("eof").err = "eof" /\ "eof" # "nil"
  BY ReadParts
<1>5. CASE Len(b) < Len(x) /\ Starts(b, x)
  <2>1. GetHead(b) = Fail("eof")
    BY <1>1, <1>5, GetHeadTorn
  <2>2. r = Fail("eof")
    BY <1>4, <2>1, Zenon DEF DecodeValues, Then
  <2>3. r.err # "nil"
    BY <1>4, <2>2, Zenon
  <2>4. Len(b) < Len(x \o y)
    <3> HIDE DEF x, y
    <3> QED
      BY <1>2, <1>5
  <2> HIDE DEF r, x, y
  <2> QED
    BY <1>1, <2>3, <2>4 DEF r
<1>6. ASSUME NEW c \in Seq(Byte), b = x \o c, Starts(c, y)
      PROVE  IF Len(b) < Len(x \o y) THEN r.err # "nil" ELSE r.err = "nil" /\ r.v = vs
  <2>1. GetHead(b) = Read(HeadOf(vs), c)
    BY <1>1, <1>6, GetHeadWhole
  <2>2. LET h == GetHead(b) IN h.err = "nil" /\ h.v = HeadOf(vs) /\ h.rest = c
    <3> HIDE DEF x, y, r, w, n
    <3> QED
      BY <2>1, ReadParts
  <2>3. Len(b) = Len(x) + Len(c) /\ Len(c) \in Nat
    <3> HIDE DEF x, y
    <3> QED
      BY <1>1, <1>6, ConcatProperties
  <2>4. Len(c) <= Len(y) /\ (Len(b) < Len(x \o y) <=> Len(c) < Len(y))
    <3> HIDE DEF x, y
    <3> QED
      BY <1>2, <1>6, <2>3 DEF Starts
  <2>5. CASE vs = <<>>
    <3>1. y = <<>> /\ ~(Len(c) < Len(y))
      <4> HIDE DEF x, y
      <4> QED
        BY <1>1, <2>3, <2>5
    <3>2. HeadOf(vs).count = 0
      BY <2>5 DEF HeadOf
    <3>3. r = Read(<<>>, c)
      BY <2>2, <3>2, Zenon DEF DecodeValues, Then
    <3>4. r.err = "nil" /\ r.v = <<>>
      <4> HIDE DEF r
      <4> QED
        BY <3>3, ReadParts
    <3> HIDE DEF r, x, y
    <3> QED
      BY <2>4, <2>5, <3>1, <3>4
  <2>6. CASE vs # <<>>
    <3>1. /\ w \in Seq(Seq(Byte)) /\ Len(w) = n /\ Len(vs) \in Nat /\ Len(vs) >= 1
          /\ \A i \in 1..Len(vs) : vs[i] \in 0..(Modulus - 1)
      BY <2>6, XorsType
    <3>2. HeadOf(vs).count = Len(vs) /\ HeadOf(vs).first = vs[1] /\ Len(vs) # 0
      <4>1. HeadOf(vs) = [count |-> Len(vs), first |-> Unsigned(vs[1])]
        BY <2>6, Zenon DEF HeadOf
      <4>2. HeadOf(vs).count = Len(vs) /\ HeadOf(vs).first = Unsigned(vs[1])
        BY <4>1
      <4>3. vs[1] \in 0..(Modulus - 1)
        BY <3>1
      <4>4. Unsigned(vs[1]) = vs[1]
        <5> DEFINE p == Modulus
                   u == vs[1]
        <5>1. p \in Nat /\ p > 0
          BY WordModulus
        <5>2. u \in 0..(p - 1)
          BY <4>3
        <5> HIDE DEF p, u
        <5>3. u \in Nat /\ u < p
          BY <5>1, <5>2
        <5>4. u % p = u
          BY <5>1, <5>3
        <5> QED
          BY <5>4 DEF Unsigned, p, u
      <4> QED
        BY <3>1, <4>2, <4>4
    <3> DEFINE s == BytesToBits(c)
               q == GetXors(s, vs[1], n)
    <3>3. r = IF q.err = "nil" THEN Read(q.v.column, <<>>) ELSE q
      BY <2>2, <3>2, Zenon DEF DecodeValues, Then
    <3>4. /\ s \in Seq(Byte) /\ (Len(s) < Len(bits) <=> Len(c) < Len(y))
          /\ \E pad \in Seq(Byte) : Starts(s, bits \o pad)
      BY <1>1, <1>6, BitsCut
    <3>5. q = ValuesRead(s, vs, n)
      <4>1. PICK pad \in Seq(Byte) : Starts(s, bits \o pad)
        BY <3>4
      <4> HIDE DEF s
      <4> QED
        BY <2>6, <3>4, <4>1, GetXorsCut
    <3>6. Flat(w, n) = bits
      BY <3>1, <1>6, AllWords
    <3>7. Len(s) \in Nat /\ Len(bits) \in Nat
      <4> HIDE DEF s, bits
      <4> QED
        BY <1>1, <3>4
    <3>8. CASE Len(c) < Len(y)
      <4>1. ~(Len(bits) <= Len(s))
        <5> HIDE DEF s, bits, y
        <5> QED
          BY <3>4, <3>7, <3>8
      <4>2. q = Fail("eof")
        <5> HIDE DEF s, bits, w, q
        <5> QED
          BY <3>5, <3>6, <4>1, Zenon DEF ValuesRead, w
      <4> HIDE DEF q
      <4>3. r = Fail("eof")
        BY <1>4, <3>3, <4>2, Zenon
      <4>4. r.err # "nil"
        BY <1>4, <4>3, Zenon
      <4> HIDE DEF r, x, y
      <4> QED
        BY <2>4, <3>8, <4>4
    <3>9. CASE ~(Len(c) < Len(y))
      <4>1. Len(bits) <= Len(s)
        <5> HIDE DEF s, bits, y
        <5> QED
          BY <3>4, <3>7, <3>9
      <4> DEFINE v == [column |-> SubSeq(vs, 1, n + 1), window |-> Win(vs)[n + 1]]
      <4>2. q = Read(v, Rest(s, w, n))
        BY <3>5, <3>6, <4>1, Zenon DEF ValuesRead
      <4>3. v.column = vs
        <5>1. n + 1 = Len(vs)
          BY <3>1
        <5>2. SubSeq(vs, 1, Len(vs)) = vs
          BY SubSeqFull
        <5> QED
          BY <5>1, <5>2
      <4> HIDE DEF q, v
      <4>4. q.err = "nil" /\ q.v = v
        BY <4>2, ReadParts
      <4>5. r = Read(vs, <<>>)
        BY <3>3, <4>3, <4>4, Zenon
      <4>6. r.err = "nil" /\ r.v = vs
        <5> HIDE DEF r
        <5> QED
          BY <4>5, ReadParts
      <4> HIDE DEF r, x, y
      <4> QED
        BY <2>4, <3>9, <4>6
    <3> QED
      BY <3>8, <3>9
  <2> QED
    BY <2>5, <2>6
<1> HIDE DEF x, y, r
<1> QED
  BY <1>1, <1>3, <1>5, <1>6 DEF r

-----------------------------------------------------------------------------
(* The theorem.                                                             *)

\* What is written for an input, and what is read of a file.
Written(in) == IF in.kind = "timestamps" THEN EncodeTimestamps(in.data) ELSE EncodeValues(in.data)
Decoded(in, f) == IF in.kind = "timestamps" THEN DecodeTimestamps(f) ELSE DecodeValues(f)

\* A file that was cut is shorter than what was written.
Cut(f, e, isTorn) == f \in Seq(Byte) /\ Starts(f, e) /\ (isTorn <=> Len(f) < Len(e))

\* The inductive invariant: the file is what was written or, when it lost its
\* tail, a shorter beginning of it, and the output is what the reader makes of that.
BlockInv ==
  /\ input \in BlockInputs
  /\ stage \in {"new", "written", "read"}
  /\ stage = "new" => torn = FALSE
  /\ stage # "new" => Cut(file, Written(input), torn)
  /\ stage = "read" => output = Decoded(input, file)

\* What is written for an input is bytes.
LEMMA WrittenType ==
  ASSUME NEW in \in BlockInputs
  PROVE  /\ Written(in) \in Seq(Byte)
         /\ \/ in.kind = "timestamps" /\ in.data \in Seq(SignedWords)
            \/ in.kind = "values" /\ in.data \in Seq(0..(Modulus - 1))
         /\ Len(in.data) < Modulus
<1>1. \/ in.kind = "timestamps" /\ in.data \in TimestampSeqs
      \/ in.kind = "values" /\ in.data \in ValueSeqs
  BY DEF BlockInputs
<1>2. CASE in.kind = "timestamps" /\ in.data \in TimestampSeqs
  <2>1. in.data \in Seq(SignedWords) /\ Len(in.data) < Modulus
    BY <1>2, BlocksAssumption, Zenon
  <2>2. EncodeTimestamps(in.data) \in Seq(Byte)
    BY <2>1, EncodeTimestampsType
  <2> QED
    BY <1>2, <2>1, <2>2, Zenon DEF Written
<1>3. CASE in.kind = "values" /\ in.data \in ValueSeqs
  <2>1. in.data \in Seq(0..(Modulus - 1)) /\ Len(in.data) < Modulus
    BY <1>3, BlocksAssumption, Zenon
  <2>2. EncodeValues(in.data) \in Seq(Byte)
    BY <2>1, EncodeValuesType
  <2>3. in.kind # "timestamps"
    BY <1>3
  <2> QED
    BY <1>3, <2>1, <2>2, <2>3, Zenon DEF Written
<1> QED
  BY <1>1, <1>2, <1>3

\* A beginning of a file that is not all of it is shorter.
LEMMA ShorterTear ==
  ASSUME NEW s \in Seq(Byte), NEW p \in Prefixes(s) \ {s}
  PROVE  Len(p) < Len(s)
<1>1. PICK k \in 0..Len(s) : p = SubSeq(s, 1, k)
  BY Zenon DEF Prefixes
<1>2. Len(p) = k /\ k \in Nat /\ Len(s) \in Nat /\ k <= Len(s)
  BY <1>1, FirstWords
<1>3. k # Len(s)
  BY <1>1, SubSeqFull
<1> QED
  BY <1>2, <1>3

\* What is written, torn or read keeps it.
LEMMA BlockInvHolds == BlockSpec => []BlockInv
<1>1. Begins(BlockInputs) => BlockInv
  BY DEF Begins, BlockInv
<1>2. BlockInv /\ [BlockNext]_vars => BlockInv'
  <2> SUFFICES ASSUME BlockInv, [BlockNext]_vars PROVE BlockInv'
    OBVIOUS
  <2> DEFINE e == Written(input)
  <2>1. input \in BlockInputs /\ e \in Seq(Byte)
    BY WrittenType DEF BlockInv
  <2>2. Cut(e, e, FALSE)
    <3> HIDE DEF e
    <3>1. Len(e) \in Nat
      BY <2>1
    <3> QED
      BY <2>1, <3>1 DEF Cut, Starts
  <2>3. ASSUME stage = "new", file' = e, stage' = "written", input' = input, torn' = torn, output' = output
        PROVE  BlockInv'
    <3>1. torn' = FALSE
      BY <2>3 DEF BlockInv
    <3>2. Cut(file', Written(input'), torn')
      BY <2>2, <2>3, <3>1
    <3> QED
      BY <2>1, <2>3, <3>2 DEF BlockInv
  <2>4. ASSUME stage = "written", output' = Decoded(input, file), stage' = "read",
               input' = input, torn' = torn, file' = file
        PROVE  BlockInv'
    BY <2>4 DEF BlockInv
  <2>5. CASE WriteTimestamps
    <3>1. stage = "new" /\ input.kind = "timestamps" /\ file' = EncodeTimestamps(input.data)
          /\ stage' = "written" /\ input' = input /\ torn' = torn /\ output' = output
      BY <2>5 DEF WriteTimestamps, Writes
    <3>2. file' = e
      BY <3>1, Zenon DEF Written
    <3> QED
      BY <2>3, <3>1, <3>2
  <2>6. CASE WriteValues
    <3>1. stage = "new" /\ input.kind = "values" /\ file' = EncodeValues(input.data)
          /\ stage' = "written" /\ input' = input /\ torn' = torn /\ output' = output
      BY <2>6 DEF WriteValues, Writes
    <3>2. input.kind # "timestamps"
      BY <3>1
    <3>3. file' = e
      BY <3>1, <3>2, Zenon DEF Written
    <3> QED
      BY <2>3, <3>1, <3>3
  <2>7. CASE ReadTimestamps
    <3>1. stage = "written" /\ input.kind = "timestamps" /\ output' = DecodeTimestamps(file)
          /\ stage' = "read" /\ input' = input /\ torn' = torn /\ file' = file
      BY <2>7 DEF ReadTimestamps, Reads
    <3>2. output' = Decoded(input, file)
      BY <3>1, Zenon DEF Decoded
    <3> QED
      BY <2>4, <3>1, <3>2
  <2>8. CASE ReadValues
    <3>1. stage = "written" /\ input.kind = "values" /\ output' = DecodeValues(file)
          /\ stage' = "read" /\ input' = input /\ torn' = torn /\ file' = file
      BY <2>8 DEF ReadValues, Reads
    <3>2. input.kind # "timestamps"
      BY <3>1
    <3>3. output' = Decoded(input, file)
      BY <3>1, <3>2, Zenon DEF Decoded
    <3> QED
      BY <2>4, <3>1, <3>3
  <2>9. CASE TearBlock
    <3>1. /\ stage = "written" /\ torn' = TRUE /\ stage' = stage /\ input' = input /\ output' = output
          /\ file' \in Prefixes(file) \ {file}
      BY <2>9 DEF TearBlock, Tears
    <3>2. file \in Seq(Byte) /\ Starts(file, e)
      BY <3>1 DEF BlockInv, Cut
    <3> HIDE DEF e
    <3>3. file' \in Seq(Byte) /\ Starts(file', e)
      BY <2>1, <3>1, <3>2, StartsTear
    <3>4. Len(file') < Len(file)
      BY <3>1, <3>2, ShorterTear
    <3>5. Len(file') < Len(e)
      <4>1. Len(file) <= Len(e)
        BY <3>2 DEF Starts
      <4>2. Len(file') \in Nat /\ Len(file) \in Nat /\ Len(e) \in Nat
        BY <2>1, <3>2, <3>3
      <4> QED
        BY <3>4, <4>1, <4>2
    <3>6. Cut(file', e, torn')
      BY <3>1, <3>3, <3>5 DEF Cut
    <3>7. Cut(file', Written(input'), torn')
      BY <3>1, <3>6 DEF e
    <3> QED
      BY <2>1, <3>1, <3>7 DEF BlockInv
  <2>10. CASE UNCHANGED vars
    BY <2>10 DEF BlockInv, vars
  <2> QED
    BY <2>5, <2>6, <2>7, <2>8, <2>9, <2>10 DEF BlockNext
<1> QED
  BY <1>1, <1>2, PTL DEF BlockSpec

\* A block of timestamps or of values reads back as the column it was made of,
\* and one that lost any part of its tail is an error (encodeTimestamps and
\* decodeTimestamps, encodeValues and decodeValues), for every width of words,
\* every column of int64 or of bit patterns and every cut: no wrapped difference,
\* window or padding bit is read as another value.
THEOREM BlocksReadExactlyHolds == BlockSpec => []BlocksReadExactly
<1>1. BlockInv => BlocksReadExactly
  <2> SUFFICES ASSUME BlockInv, stage = "read"
               PROVE  IF torn THEN output.err # "nil" ELSE output.err = "nil" /\ output.v = input.data
    BY Zenon DEF BlocksReadExactly, Finished
  <2> DEFINE e == Written(input)
  <2>1. /\ input \in BlockInputs /\ output = Decoded(input, file)
        /\ file \in Seq(Byte) /\ Starts(file, e) /\ (torn <=> Len(file) < Len(e))
    BY Zenon DEF BlockInv, Cut
  <2>2. IF Len(file) < Len(e) THEN output.err # "nil" ELSE output.err = "nil" /\ output.v = input.data
    <3>1. Len(input.data) < Modulus
      BY <2>1, WrittenType
    <3>2. CASE input.kind = "timestamps" /\ input.data \in Seq(SignedWords)
      <4>1. e = EncodeTimestamps(input.data) /\ output = DecodeTimestamps(file)
        BY <2>1, <3>2, Zenon DEF Written, Decoded
      <4> HIDE DEF e
      <4> QED
        BY <2>1, <3>1, <3>2, <4>1, DecodeTimestampsCut
    <3>3. CASE input.kind = "values" /\ input.data \in Seq(0..(Modulus - 1))
      <4>1. input.kind # "timestamps"
        BY <3>3
      <4>2. e = EncodeValues(input.data) /\ output = DecodeValues(file)
        BY <2>1, <4>1, Zenon DEF Written, Decoded
      <4> HIDE DEF e
      <4> QED
        BY <2>1, <3>1, <3>3, <4>2, DecodeValuesCut
    <3> QED
      BY <2>1, <3>2, <3>3, WrittenType
  <2> QED
    BY <2>1, <2>2
<1> QED
  BY <1>1, BlockInvHolds, PTL
====
