---------------------------- MODULE LookupProofs ----------------------------
(***************************************************************************)
(* Lookups, for every calendar, width and label set: the names of days are *)
(* compared as strings in the order of the days, retention drops whole     *)
(* days, time parameters keep their millisecond, keys tell series apart,   *)
(* and Match finds what it is asked for.  No prover here has induction, so *)
(* what holds for all numbers or lengths is proved by the least            *)
(* counterexample (LeastNat).                                              *)
(***************************************************************************)
EXTENDS Lookup, SequenceTheorems, FiniteSetTheorems, WellFoundedInduction, TLAPS

\* A set of natural numbers that is not empty has a least one.
LEMMA LeastNat ==
  ASSUME NEW S \in SUBSET Nat, S # {}
  PROVE  \E x \in S : \A y \in S : x <= y
<1>1. PICK x \in S : \A y \in S : ~(<<y, x>> \in OpToRel(<, Nat))
  BY WFMin, NatLessThanWellFounded
<1>2. \A y \in S : ~(y < x)
  BY <1>1 DEF OpToRel
<1> QED
  BY <1>2

\* A bounded set of natural numbers that is not empty has a greatest one.
LEMMA GreatestNat ==
  ASSUME NEW n \in Nat, NEW S \in SUBSET 0..n, S # {}
  PROVE  \E x \in S : \A y \in S : y <= x
<1> DEFINE T == {n - s : s \in S}
<1>1. T \in SUBSET Nat /\ T # {}
  <2>1. \A s \in S : n - s \in Nat
    OBVIOUS
  <2> QED
    BY <2>1
<1> HIDE DEF T
<1>2. PICK x \in T : \A y \in T : x <= y
  BY <1>1, LeastNat
<1>3. PICK s \in S : x = n - s
  BY DEF T
<1>4. \A t \in S : n - s <= n - t
  BY <1>2, <1>3 DEF T
<1> QED
  BY <1>4

-----------------------------------------------------------------------------
(* Division and powers.                                                     *)

\* Division by a positive number, with its remainder.
LEMMA Division ==
  ASSUME NEW a \in Int, NEW p \in Nat, p > 0
  PROVE  /\ a \div p \in Int /\ a % p \in 0..(p - 1)
         /\ a = p * (a \div p) + (a % p)
  OBVIOUS

\* A product with a positive factor is the larger the larger the other is.
LEMMA ProductOrder ==
  ASSUME NEW a \in Int, NEW b \in Int, NEW p \in Nat, p > 0
  PROVE  /\ a < b <=> p * a < p * b
         /\ a <= b <=> p * a <= p * b
         /\ a < b <=> p * a + p <= p * b
  OBVIOUS

\* There is one way to divide.
LEMMA DivisionUnique ==
  ASSUME NEW q \in Int, NEW p \in Nat, p > 0, NEW r \in 0..(p - 1)
  PROVE  (p * q + r) \div p = q /\ (p * q + r) % p = r
  OBVIOUS

\* A quotient is the larger the larger the number is.
LEMMA DivisionMonotone ==
  ASSUME NEW a \in Int, NEW b \in Int, NEW p \in Nat, p > 0, a <= b
  PROVE  a \div p <= b \div p
  OBVIOUS

\* To divide twice is to divide by the product.
LEMMA DivisionTwice ==
  ASSUME NEW a \in Int, NEW p \in Nat, p > 0, NEW q \in Nat, q > 0
  PROVE  a \div (q * p) = (a \div p) \div q
  OBVIOUS

\* Powers of the bases in use, one step at a time.
LEMMA PowerStep ==
  ASSUME NEW b \in {2, Base}, NEW k \in Exponents
  PROVE  b^k \in Nat /\ b^(k + 1) = b * b^k /\ b^0 = 1
  BY PowersAssumption

\* They are positive.
LEMMA PowerPositive ==
  ASSUME NEW b \in {2, Base}, NEW k \in Exponents
  PROVE  b^k \in Nat /\ b^k > 0
<1> DEFINE S == {i \in Exponents : ~(b^i > 0)}
<1>1. SUFFICES S = {}
  BY PowerStep
<1>2. SUFFICES ASSUME S # {} PROVE FALSE
  OBVIOUS
<1>3. Exponents \subseteq Nat /\ b \in Nat /\ b > 0
  BY CalendarAssumption DEF Exponents
<1>4. PICK i \in S : \A j \in S : i <= j
  BY <1>2, <1>3, LeastNat
<1>5. i # 0
  <2>1. b^0 = 1
    BY PowersAssumption
  <2> QED
    BY <1>4, <2>1
<1>6. i - 1 \in Exponents /\ i - 1 \notin S
  BY <1>3, <1>4, <1>5, WordAssumption, CalendarAssumption, FloatAssumption DEF Exponents
<1>7. b^(i - 1) \in Nat /\ b^(i - 1) > 0 /\ b^((i - 1) + 1) = b * b^(i - 1)
  BY <1>6, PowerStep
<1>8. (i - 1) + 1 = i /\ ~(b^i > 0)
  BY <1>3, <1>4
<1>9. b * b^(i - 1) > 0
  BY <1>3, <1>7
<1> QED
  BY <1>7, <1>8, <1>9

\* They grow.
LEMMA PowerMonotone ==
  ASSUME NEW b \in {2, Base}, NEW k \in Exponents, NEW j \in 0..k
  PROVE  b^j <= b^k
<1> DEFINE S == {i \in Exponents : i >= j /\ ~(b^j <= b^i)}
<1>1. SUFFICES S = {}
  BY DEF Exponents
<1>2. SUFFICES ASSUME S # {} PROVE FALSE
  OBVIOUS
<1>3. Exponents \subseteq Nat /\ b \in Nat /\ b > 1
  BY CalendarAssumption DEF Exponents
<1>4. PICK i \in S : \A h \in S : i <= h
  BY <1>2, <1>3, LeastNat
<1>5. j \in Exponents /\ j \in Nat
  BY WordAssumption, CalendarAssumption, FloatAssumption DEF Exponents
<1>6. i # j
  BY <1>4, <1>5, PowerStep
<1>7. i - 1 \in Exponents /\ i - 1 >= j /\ i - 1 \notin S /\ i \in Nat
  BY <1>3, <1>4, <1>5, <1>6, WordAssumption, CalendarAssumption, FloatAssumption DEF Exponents
<1>8. b^(i - 1) \in Nat /\ b^((i - 1) + 1) = b * b^(i - 1) /\ b^j \in Nat
  BY <1>5, <1>7, PowerStep
<1>9. (i - 1) + 1 = i /\ b^j <= b^(i - 1)
  BY <1>7
<1>10. b^(i - 1) <= b * b^(i - 1)
  BY <1>3, <1>8
<1>11. ~(b^j <= b^i) /\ b^i \in Nat
  BY <1>4, PowerStep
<1>12. b^i = b * b^(i - 1)
  BY <1>8, <1>9
<1> HIDE DEF S
<1> QED
  BY <1>8, <1>9, <1>10, <1>11, <1>12

\* They multiply by adding the exponents.
LEMMA PowerSum ==
  ASSUME NEW b \in {2, Base}, NEW j \in Nat, NEW k \in Nat, j + k \in Exponents
  PROVE  b^(j + k) = b^j * b^k
<1> DEFINE S == {i \in 0..k : b^(j + i) # b^j * b^i}
<1>1. SUFFICES S = {}
  <2>1. k \in 0..k
    OBVIOUS
  <2> QED
    BY <2>1, Zenon
<1>2. SUFFICES ASSUME S # {} PROVE FALSE
  OBVIOUS
<1>3. PICK i \in S : \A h \in S : i <= h
  <2>1. S \in SUBSET Nat
    OBVIOUS
  <2> HIDE DEF S
  <2> QED
    BY <1>2, <2>1, LeastNat
<1>4. \A h \in 0..k : h \in Exponents /\ j + h \in Exponents /\ j \in Exponents
  BY WordAssumption, CalendarAssumption, FloatAssumption DEF Exponents
<1>5. b^j \in Nat /\ b^0 = 1
  BY <1>3, <1>4, PowerStep
<1>6. i # 0
  <2>1. j + 0 = j
    OBVIOUS
  <2>2. b^(j + 0) = b^j * b^0
    BY <1>5, <2>1
  <2> QED
    BY <1>3, <2>2
<1>7. i - 1 \in 0..k /\ i - 1 \notin S
  BY <1>3, <1>6
<1>8. /\ b^((i - 1) + 1) = b * b^(i - 1) /\ b^(i - 1) \in Nat
      /\ b^((j + (i - 1)) + 1) = b * b^(j + (i - 1))
  BY <1>4, <1>7, PowerStep
<1>9. (i - 1) + 1 = i /\ (j + (i - 1)) + 1 = j + i
  BY <1>7
<1>10. b \in Nat
  BY CalendarAssumption
<1>11. b * (b^j * b^(i - 1)) = b^j * (b * b^(i - 1))
  BY <1>5, <1>8, <1>10
<1> QED
  BY <1>3, <1>7, <1>8, <1>9, <1>11

-----------------------------------------------------------------------------
(* Day names.                                                               *)

\* The last w digits of n.
Digits(n, w) == [i \in 1..w |-> (n \div Base^(w - i)) % Base]

\* A number that fits is written with exactly w digits.
LEMMA PaddedFits ==
  ASSUME NEW w \in {YearDigits, DayDigits}, NEW n \in Nat, n < Base^w
  PROVE  Padded(n, w) = Digits(n, w)
<1> DEFINE S == {w} \cup {k \in 1..WordBits : n >= Base^(k - 1)}
<1> USE WordAssumption, CalendarAssumption, FloatAssumption
<1>1. \A k \in S : k <= w
  <2> SUFFICES ASSUME NEW k \in 1..WordBits, n >= Base^(k - 1), k > w PROVE FALSE
    OBVIOUS
  <2>1. k - 1 \in Exponents /\ w \in 0..(k - 1) /\ w \in Exponents
    BY DEF Exponents
  <2>2. Base^w <= Base^(k - 1) /\ Base^w \in Nat /\ Base^(k - 1) \in Nat
    BY <2>1, PowerMonotone, PowerPositive
  <2> QED
    BY <2>2
<1>2. \A k \in S : k \in Nat
  OBVIOUS
<1>3. w \in S
  OBVIOUS
<1> HIDE DEF S
<1>4. \A x \in S : (\A y \in S : x >= y) => x = w
  BY <1>1, <1>2, <1>3
<1>5. \A y \in S : w >= y
  BY <1>1, <1>2
<1>6. Max(S) = w
  BY <1>3, <1>4, <1>5 DEF Max
<1> QED
  BY <1>6 DEF Padded, Digits, S

\* Digits are numbers below Base.
LEMMA DigitsType ==
  ASSUME NEW w \in {YearDigits, DayDigits}, NEW n \in Nat
  PROVE  /\ Digits(n, w) \in [1..w -> Nat]
         /\ Digits(n, w) \in Seq(Nat) /\ Len(Digits(n, w)) = w
<1> USE WordAssumption, CalendarAssumption, FloatAssumption
<1>1. \A i \in 1..w : (n \div Base^(w - i)) % Base \in Nat
  <2> TAKE i \in 1..w
  <2>1. w - i \in Exponents
    BY DEF Exponents
  <2>2. Base^(w - i) \in Nat /\ Base^(w - i) > 0
    BY <2>1, PowerPositive
  <2>3. n \div Base^(w - i) \in Int
    BY <2>2, Division
  <2> QED
    BY <2>3, Division
<1> QED
  BY <1>1 DEF Digits

\* a sorts before b, of the same length L, at their first difference.
Before(a, b, L) ==
  \E i \in 1..L : a[i] < b[i] /\ \A j \in 1..(i - 1) : a[j] = b[j]

\* Numbers of the same width are in the order of their digits.
LEMMA DigitsOrder ==
  ASSUME NEW w \in {YearDigits, DayDigits}, NEW m \in Nat, NEW n \in Nat, m < n, n < Base^w
  PROVE  Before(Digits(m, w), Digits(n, w), w)
<1> DEFINE S == {k \in 0..w : m \div Base^k # n \div Base^k}
<1> USE WordAssumption, CalendarAssumption, FloatAssumption
<1>0. /\ w \in Nat /\ w > 0 /\ \A k \in 0..w : k \in Exponents
      /\ \A k \in 0..w : Base^k \in Nat /\ Base^k > 0
  <2>1. w \in Nat /\ w > 0 /\ \A k \in 0..w : k \in Exponents
    BY DEF Exponents
  <2> QED
    BY <2>1, PowerPositive
<1>1. 0 \in S
  <2>1. Base^0 = 1
    BY PowersAssumption
  <2>2. m \div 1 = m /\ n \div 1 = n
    OBVIOUS
  <2> QED
    BY <1>0, <2>1, <2>2
<1>2. w \notin S
  <2>1. Base^w \in Nat /\ Base^w > 0
    BY <1>0
  <2>2. \A x \in Nat : x < Base^w => x \div Base^w = 0
    BY <2>1
  <2>3. m < Base^w
    BY <2>1
  <2> QED
    BY <2>2, <2>3
<1>3. PICK k \in S : \A j \in S : j <= k
  <2>1. S \in SUBSET 0..w /\ S # {}
    BY <1>1
  <2> HIDE DEF S
  <2> QED
    BY <1>0, <2>1, GreatestNat
<1>4. k \in 0..(w - 1)
  BY <1>0, <1>2, <1>3
<1>5. \A j \in (k + 1)..w : m \div Base^j = n \div Base^j
  BY <1>0, <1>3, <1>4
<1> DEFINE a == m \div Base^k
           c == n \div Base^k
<1>6. Base^k \in Nat /\ Base^k > 0 /\ Base^(k + 1) = Base * Base^k
  BY <1>0, <1>4, PowerStep
<1>7. a \in Int /\ c \in Int /\ a <= c /\ a # c
  BY <1>3, <1>6, Division, DivisionMonotone
<1>8. a \div Base = c \div Base
  <2>1. m \div (Base * Base^k) = a \div Base /\ n \div (Base * Base^k) = c \div Base
    BY <1>6, DivisionTwice
  <2>2. k + 1 \in (k + 1)..w
    BY <1>0, <1>4
  <2> QED
    BY <1>5, <1>6, <2>1, <2>2
<1>9. a % Base < c % Base
  <2> HIDE DEF a, c
  <2>1. /\ a = Base * (a \div Base) + (a % Base) /\ a % Base \in Int
        /\ c = Base * (c \div Base) + (c % Base) /\ c % Base \in Int
        /\ Base * (a \div Base) \in Int
    BY <1>7, Division
  <2> QED
    BY <1>7, <1>8, <2>1
<1>10. \A i \in 1..w : Digits(m, w)[i] = (m \div Base^(w - i)) % Base
                    /\ Digits(n, w)[i] = (n \div Base^(w - i)) % Base
  BY DEF Digits
<1>11. w - k \in 1..w /\ w - (w - k) = k
  BY <1>0, <1>4
<1>12. Digits(m, w)[w - k] < Digits(n, w)[w - k]
  BY <1>9, <1>10, <1>11
<1>13. ASSUME NEW j \in 1..((w - k) - 1) PROVE Digits(m, w)[j] = Digits(n, w)[j]
  <2>1. j \in 1..w /\ w - j \in (k + 1)..w
    BY <1>0, <1>4
  <2> QED
    BY <1>5, <1>10, <2>1
<1> QED
  BY <1>11, <1>12, <1>13 DEF Before

\* A name sorts before another of its length at their first difference.
LEMMA NameLessBefore ==
  ASSUME NEW L \in Nat, NEW a \in Seq(Int), NEW b \in Seq(Int), Len(a) = L, Len(b) = L
  PROVE  NameLess(a, b) <=> Before(a, b, L)
<1>1. ASSUME NEW i \in 1..L
      PROVE  SubSeq(a, 1, i - 1) = SubSeq(b, 1, i - 1) <=> \A j \in 1..(i - 1) : a[j] = b[j]
  <2>1. /\ SubSeq(a, 1, i - 1) = [j \in 1..(i - 1) |-> a[j]]
        /\ SubSeq(b, 1, i - 1) = [j \in 1..(i - 1) |-> b[j]]
    OBVIOUS
  <2>2. [j \in 1..(i - 1) |-> a[j]] = [j \in 1..(i - 1) |-> b[j]]
          <=> \A j \in 1..(i - 1) : a[j] = b[j]
    OBVIOUS
  <2> QED
    BY <2>1, <2>2
<1>2. \A i \in 1..L : i <= L + 1 /\ i # L + 1
  OBVIOUS
<1> QED
  BY <1>1, <1>2 DEF NameLess, Before

\* Two names of one length differ at one first place.
LEMMA BeforeAsymmetric ==
  ASSUME NEW L \in Nat, NEW a \in Seq(Int), NEW b \in Seq(Int), Len(a) = L, Len(b) = L
  PROVE  ~(Before(a, b, L) /\ Before(b, a, L))
<1> SUFFICES ASSUME NEW i \in 1..L, a[i] < b[i], \A j \in 1..(i - 1) : a[j] = b[j],
                    NEW k \in 1..L, b[k] < a[k], \A j \in 1..(k - 1) : b[j] = a[j]
             PROVE  FALSE
  BY DEF Before
<1>1. a[i] \in Int /\ b[i] \in Int /\ a[k] \in Int /\ b[k] \in Int
  OBVIOUS
<1>2. i < k => i \in 1..(k - 1)
  OBVIOUS
<1>3. k < i => k \in 1..(i - 1)
  OBVIOUS
<1> QED
  BY <1>1, <1>2, <1>3

\* The name of a day of the years 0 to 9999: its year and its place in the
\* year, each of fixed width.
LEMMA DayStringParts ==
  ASSUME NEW ms \in Int, HasDayName(ms)
  PROVE  LET y == Digits(YearOf(ms), YearDigits)
             d == Digits(1 + (DayNumber(ms) % DaysPerYear), DayDigits)
             L == YearDigits + DayDigits
         IN  /\ YearOf(ms) \in Nat /\ YearOf(ms) < Base^YearDigits
             /\ 1 + (DayNumber(ms) % DaysPerYear) \in Nat
             /\ 1 + (DayNumber(ms) % DaysPerYear) < Base^DayDigits
             /\ DayNumber(ms) \in Int
             /\ DayString(ms) \in Seq(Nat) /\ Len(DayString(ms)) = L
             /\ \A i \in 1..YearDigits : DayString(ms)[i] = y[i]
             /\ \A i \in 1..DayDigits : DayString(ms)[YearDigits + i] = d[i]
<1> DEFINE y == Digits(YearOf(ms), YearDigits)
           d == Digits(1 + (DayNumber(ms) % DaysPerYear), DayDigits)
<1> USE WordAssumption, CalendarAssumption, FloatAssumption
<1>1. YearDigits \in Exponents /\ DayDigits \in Exponents
  BY DEF Exponents
<1>2. Base^YearDigits \in Nat /\ Base^DayDigits \in Nat
  BY <1>1, PowerPositive
<1>3. DayNumber(ms) \in Int
  BY Division DEF DayNumber
<1>4. YearOf(ms) \in Nat /\ YearOf(ms) < Base^YearDigits
  BY <1>2 DEF HasDayName
<1>5. DayNumber(ms) % DaysPerYear \in 0..(DaysPerYear - 1)
  BY <1>3, Division
<1>6. /\ 1 + (DayNumber(ms) % DaysPerYear) \in Nat
      /\ 1 + (DayNumber(ms) % DaysPerYear) < Base^DayDigits
  BY <1>2, <1>5
<1>7. DayString(ms) = y \o d
  <2>1. ~(YearOf(ms) < 0)
    BY <1>4
  <2>2. Padded(YearOf(ms), YearDigits) = y
    BY <1>4, PaddedFits
  <2>3. Padded(1 + (DayNumber(ms) % DaysPerYear), DayDigits) = d
    BY <1>6, PaddedFits
  <2> QED
    BY <2>1, <2>2, <2>3 DEF DayString
<1>8. y \in Seq(Nat) /\ Len(y) = YearDigits /\ d \in Seq(Nat) /\ Len(d) = DayDigits
  BY <1>4, <1>6, DigitsType
<1> HIDE DEF y, d
<1>9. /\ y \o d \in Seq(Nat) /\ Len(y \o d) = YearDigits + DayDigits
      /\ \A i \in 1..YearDigits : (y \o d)[i] = y[i]
      /\ \A i \in 1..DayDigits : (y \o d)[YearDigits + i] = d[i]
  <2>1. y \o d \in Seq(Nat) /\ Len(y \o d) = YearDigits + DayDigits
    BY <1>8
  <2>2. \A i \in 1..YearDigits : (y \o d)[i] = y[i]
    BY <1>8
  <2>3. ASSUME NEW i \in 1..DayDigits PROVE (y \o d)[YearDigits + i] = d[i]
    BY <1>8
  <2> QED
    BY <2>1, <2>2, <2>3
<1> QED
  BY <1>3, <1>4, <1>6, <1>7, <1>9 DEF y, d

\* The names of an earlier day and a later one.
LEMMA EarlierDay ==
  ASSUME NEW s \in Int, NEW t \in Int, HasDayName(s), HasDayName(t), DayNumber(s) < DayNumber(t)
  PROVE  NameLess(DayString(s), DayString(t))
<1> DEFINE L == YearDigits + DayDigits
           p == DayNumber(s)
           q == DayNumber(t)
<1> USE CalendarAssumption
<1>1. /\ DayString(s) \in Seq(Nat) /\ Len(DayString(s)) = L
      /\ DayString(t) \in Seq(Nat) /\ Len(DayString(t)) = L
      /\ p \in Int /\ q \in Int
  BY DayStringParts
<1>2. SUFFICES Before(DayString(s), DayString(t), L)
  <2>1. DayString(s) \in Seq(Int) /\ DayString(t) \in Seq(Int) /\ L \in Nat
    BY <1>1
  <2> QED
    BY <1>1, <2>1, NameLessBefore
<1>3. /\ YearOf(s) = EpochYear + (p \div DaysPerYear)
      /\ YearOf(t) = EpochYear + (q \div DaysPerYear)
  BY DEF YearOf
<1>4. /\ p = DaysPerYear * (p \div DaysPerYear) + (p % DaysPerYear)
      /\ q = DaysPerYear * (q \div DaysPerYear) + (q % DaysPerYear)
      /\ p \div DaysPerYear \in Int /\ q \div DaysPerYear \in Int
      /\ p % DaysPerYear \in Int /\ q % DaysPerYear \in Int
      /\ p \div DaysPerYear <= q \div DaysPerYear
  <2> HIDE DEF p, q
  <2>1. p <= q
    BY <1>1 DEF p, q
  <2> QED
    BY <1>1, <2>1, Division, DivisionMonotone
<1>5. CASE p \div DaysPerYear < q \div DaysPerYear
  <2>1. YearOf(s) < YearOf(t)
    BY <1>3, <1>4, <1>5
  <2>2. Before(Digits(YearOf(s), YearDigits), Digits(YearOf(t), YearDigits), YearDigits)
    BY <2>1, DayStringParts, DigitsOrder
  <2>3. PICK i \in 1..YearDigits :
          /\ Digits(YearOf(s), YearDigits)[i] < Digits(YearOf(t), YearDigits)[i]
          /\ \A j \in 1..(i - 1) :
               Digits(YearOf(s), YearDigits)[j] = Digits(YearOf(t), YearDigits)[j]
    BY <2>2 DEF Before
  <2>4. /\ \A j \in 1..YearDigits : DayString(s)[j] = Digits(YearOf(s), YearDigits)[j]
        /\ \A j \in 1..YearDigits : DayString(t)[j] = Digits(YearOf(t), YearDigits)[j]
    BY DayStringParts
  <2>5. i \in 1..L /\ \A j \in 1..(i - 1) : j \in 1..YearDigits
    OBVIOUS
  <2> QED
    BY <2>3, <2>4, <2>5 DEF Before
<1>6. CASE p \div DaysPerYear = q \div DaysPerYear
  <2> DEFINE m == 1 + (p % DaysPerYear)
             n == 1 + (q % DaysPerYear)
  <2>1. p % DaysPerYear < q % DaysPerYear
    <3> DEFINE z == DaysPerYear * (p \div DaysPerYear)
    <3>1. z \in Int /\ p = z + (p % DaysPerYear) /\ q = z + (q % DaysPerYear)
      BY <1>4, <1>6
    <3> HIDE DEF z, p, q
    <3> QED
      BY <1>1, <1>4, <3>1 DEF p, q
  <2>2. /\ m \in Nat /\ n \in Nat /\ n < Base^DayDigits
        /\ \A i \in 1..DayDigits : DayString(s)[YearDigits + i] = Digits(m, DayDigits)[i]
        /\ \A i \in 1..DayDigits : DayString(t)[YearDigits + i] = Digits(n, DayDigits)[i]
    BY DayStringParts
  <2>3. m < n
    BY <1>4, <2>1
  <2>4. \A j \in 1..YearDigits : DayString(s)[j] = DayString(t)[j]
    <3>1. YearOf(s) = YearOf(t)
      BY <1>3, <1>6
    <3>2. /\ \A j \in 1..YearDigits : DayString(s)[j] = Digits(YearOf(s), YearDigits)[j]
          /\ \A j \in 1..YearDigits : DayString(t)[j] = Digits(YearOf(t), YearDigits)[j]
      BY DayStringParts
    <3> QED
      BY <3>1, <3>2
  <2> HIDE DEF m, n
  <2>5. PICK i \in 1..DayDigits :
          /\ Digits(m, DayDigits)[i] < Digits(n, DayDigits)[i]
          /\ \A j \in 1..(i - 1) : Digits(m, DayDigits)[j] = Digits(n, DayDigits)[j]
    BY <2>2, <2>3, DigitsOrder DEF Before
  <2>6. DayString(s)[YearDigits + i] < DayString(t)[YearDigits + i] /\ YearDigits + i \in 1..L
    BY <2>2, <2>5
  <2>7. ASSUME NEW j \in 1..((YearDigits + i) - 1) PROVE DayString(s)[j] = DayString(t)[j]
    <3>1. CASE j <= YearDigits
      BY <2>4, <3>1
    <3>2. CASE j > YearDigits
      <4>1. j - YearDigits \in 1..(i - 1) /\ j - YearDigits \in 1..DayDigits
            /\ YearDigits + (j - YearDigits) = j
        BY <3>2
      <4> QED
        BY <2>2, <2>5, <4>1
    <3> QED
      BY <3>1, <3>2
  <2> QED
    BY <2>6, <2>7 DEF Before
<1> QED
  BY <1>4, <1>5, <1>6

\* Names as strings are in the order of their days.
LEMMA DayOrder ==
  ASSUME NEW s \in Int, NEW t \in Int, HasDayName(s), HasDayName(t)
  PROVE  NameLess(DayString(s), DayString(t)) <=> DayNumber(s) < DayNumber(t)
<1> DEFINE L == YearDigits + DayDigits
<1>1. /\ DayString(s) \in Seq(Int) /\ Len(DayString(s)) = L
      /\ DayString(t) \in Seq(Int) /\ Len(DayString(t)) = L
      /\ DayNumber(s) \in Int /\ DayNumber(t) \in Int /\ L \in Nat
  <2>1. /\ DayString(s) \in Seq(Nat) /\ Len(DayString(s)) = L
        /\ DayString(t) \in Seq(Nat) /\ Len(DayString(t)) = L
        /\ DayNumber(s) \in Int /\ DayNumber(t) \in Int
    BY DayStringParts
  <2> QED
    BY <2>1, CalendarAssumption
<1>2. ~(NameLess(DayString(s), DayString(t)) /\ NameLess(DayString(t), DayString(s)))
  BY <1>1, NameLessBefore, BeforeAsymmetric
<1>3. CASE DayNumber(s) < DayNumber(t)
  BY <1>3, EarlierDay
<1>4. CASE DayNumber(t) < DayNumber(s)
  BY <1>1, <1>2, <1>4, EarlierDay
<1>5. CASE DayNumber(s) = DayNumber(t)
  <2>1. DayString(s) = DayString(t)
    BY <1>5 DEF DayString, YearOf
  <2> QED
    BY <1>1, <1>2, <1>5, <2>1
<1> QED
  BY <1>1, <1>3, <1>4, <1>5

-----------------------------------------------------------------------------
(* What a finished behaviour has computed.                                  *)

DayResult == PartitionsInRange({DayString(input.data.t)}, input.data.start, input.data.end)
RetentionResult == Expired({DayString(input.data.t)}, input.data.days, input.data.now)
KeysResult == [i \in 1..2 |-> CanonicalKey(input.data[i])]

\* The output is the code's result for the input, which no step changes.
Computed ==
  /\ input \in LookupInputs
  /\ Finished("days") => output = DayResult
  /\ Finished("retention") => output = RetentionResult
  /\ Finished("param") => output = ParseTimeParam(input.data)
  /\ Finished("keys") => output = KeysResult

\* Every step keeps it.
LEMMA ComputedInvariant == LookupSpec => []Computed
<1>1. Begins(LookupInputs) => Computed
  BY DEF Begins, Computed, Finished
<1>2. Computed /\ [LookupNext]_vars => Computed'
  <2> SUFFICES ASSUME Computed, [LookupNext]_vars PROVE Computed'
    OBVIOUS
  <2> USE DEF Computed, Finished, DayResult, RetentionResult, KeysResult
  <2>1. CASE PrintLabels
    BY <2>1 DEF PrintLabels, Writes
  <2>2. CASE Select
    BY <2>2 DEF Select, Reads
  <2>3. CASE CompareKeys
    BY <2>3 DEF CompareKeys, Computes
  <2>4. CASE SelectDay
    BY <2>4 DEF SelectDay, Computes
  <2>5. CASE DropDays
    BY <2>5 DEF DropDays, Computes
  <2>6. CASE ReadParam
    BY <2>6 DEF ReadParam, Computes
  <2>7. CASE UNCHANGED vars
    BY <2>7 DEF vars
  <2> QED
    BY <2>1, <2>2, <2>3, <2>4, <2>5, <2>6, <2>7 DEF LookupNext
<1> QED
  BY <1>1, <1>2, PTL DEF LookupSpec

\* The data of an input is of its kind.
LEMMA InputData ==
  ASSUME input \in LookupInputs
  PROVE  /\ input.kind = "days" => input.data \in [t : Moments, start : Moments, end : Moments]
         /\ input.kind = "retention" =>
              input.data \in [t : Moments, days : RetentionPeriods, now : Moments]
         /\ input.kind = "param" => input.data \in DecimalTimes
         /\ input.kind = "keys" => input.data \in KeyLabels \X KeyLabels
  BY DEF LookupInputs

\* Times are integers, of a range that is half negative.
LEMMA MomentsAreInts ==
  /\ Modulus \in Nat /\ Modulus \div 2 \in Nat /\ Modulus = 2 * (Modulus \div 2)
  /\ Moments \subseteq Int /\ \A t \in Moments : -(Modulus \div 2) <= t /\ t < Modulus \div 2
<1> USE WordAssumption, CalendarAssumption, FloatAssumption
<1>1. WordBits > 0
  OBVIOUS
<1>2. WordBits - 1 \in Exponents /\ (WordBits - 1) + 1 = WordBits
  BY <1>1 DEF Exponents
<1>3. 2^(WordBits - 1) \in Nat /\ 2^WordBits = 2 * 2^(WordBits - 1)
  BY <1>2, PowerStep
<1>4. Modulus \in Nat /\ Modulus \div 2 \in Nat /\ Modulus = 2 * (Modulus \div 2)
  BY <1>3 DEF Modulus
<1> QED
  BY <1>4, TimesAssumption DEF SignedWords

\* partitionsInRange compares names as strings, and Open takes directories
\* with eight digits for days: for every calendar, a query scans the day of a
\* sample exactly when its window reaches that day, and a restart finds it.
THEOREM DaysSelectedHolds == LookupSpec => []DaysSelected
<1>1. ASSUME Computed PROVE DaysSelected
  <2> DEFINE t == input.data.t
             b == input.data.start
             e == input.data.end
  <2> SUFFICES ASSUME Finished("days"), \A f \in {"t", "start", "end"} : HasDayName(input.data[f])
               PROVE  /\ IsPartitionName(DayString(t))
                      /\ (output # {}) <=> /\ DayNumber(b) <= DayNumber(t)
                                           /\ DayNumber(t) <= DayNumber(e)
    BY DEF DaysSelected
  <2>1. input.data \in [t : Moments, start : Moments, end : Moments]
    BY <1>1, InputData DEF Computed, Finished
  <2>2. t \in Int /\ b \in Int /\ e \in Int
    BY <2>1, MomentsAreInts
  <2>3. HasDayName(t) /\ HasDayName(b) /\ HasDayName(e)
    OBVIOUS
  <2>4. output = PartitionsInRange({DayString(t)}, b, e)
    BY <1>1 DEF Computed, DayResult
  <2> HIDE DEF t, b, e
  <2>5. IsPartitionName(DayString(t))
    <3>1. DayString(t) \in Seq(Nat) /\ Len(DayString(t)) = YearDigits + DayDigits
      BY <2>2, <2>3, DayStringParts
    <3>2. \A i \in DOMAIN DayString(t) : DayString(t)[i] \in Nat
      BY <3>1
    <3> QED
      BY <3>1, <3>2 DEF IsPartitionName, Minus, ToSet
  <2>6. DayNumber(t) \in Int /\ DayNumber(b) \in Int /\ DayNumber(e) \in Int
    BY <2>2, <2>3, DayStringParts
  <2>7. output # {} <=> /\ ~NameLess(DayString(t), DayString(b))
                        /\ ~NameLess(DayString(e), DayString(t))
    BY <2>4 DEF PartitionsInRange
  <2> QED
    BY <2>2, <2>3, <2>5, <2>6, <2>7, DayOrder
<1> QED
  BY <1>1, ComputedInvariant, PTL

-----------------------------------------------------------------------------
(* Retention.                                                               *)

\* Whatever is padded, the result is a sequence of digits.
LEMMA PaddedType ==
  ASSUME NEW w \in {YearDigits, DayDigits}, NEW n \in Nat
  PROVE  Padded(n, w) \in Seq(Nat)
<1> DEFINE S == {w} \cup {k \in 1..WordBits : n >= Base^(k - 1)}
           m == Max(S)
<1> USE WordAssumption, CalendarAssumption, FloatAssumption
<1>1. w + WordBits \in Nat /\ S \in SUBSET 0..(w + WordBits) /\ S # {}
  OBVIOUS
<1>2. m \in S
  <2> HIDE DEF S
  <2>1. PICK x \in S : \A y \in S : y <= x
    BY <1>1, GreatestNat
  <2>2. \A y \in S : x >= y
    BY <1>1, <2>1
  <2> QED
    BY <2>2 DEF Max
<1>3. m \in Nat /\ m <= WordBits + YearDigits + DayDigits
  BY <1>2
<1> HIDE DEF m
<1>4. \A i \in 1..m : (n \div Base^(m - i)) % Base \in Nat
  <2> TAKE i \in 1..m
  <2>1. m - i \in Exponents
    BY <1>3 DEF Exponents
  <2>2. Base^(m - i) \in Nat /\ Base^(m - i) > 0
    BY <2>1, PowerPositive
  <2>3. n \div Base^(m - i) \in Int
    BY <2>2, Division
  <2> QED
    BY <2>3, Division
<1>5. Padded(n, w) = [i \in 1..m |-> (n \div Base^(m - i)) % Base]
  BY DEF Padded, m
<1> QED
  BY <1>3, <1>4, <1>5

\* A minus sorts before every digit: no day of the years 0 to 9999 is before
\* a day of a negative year.
LEMMA NegativeYearIsFirst ==
  ASSUME NEW t \in Int, NEW c \in Int, HasDayName(t), YearOf(c) < 0
  PROVE  ~NameLess(DayString(t), DayString(c))
<1> DEFINE a == DayString(t)
           b == DayString(c)
<1> USE CalendarAssumption
<1>1. DayNumber(c) \in Int
  BY Division DEF DayNumber
<1>2. YearOf(c) \in Int /\ -YearOf(c) \in Nat
  BY <1>1, Division DEF YearOf
<1>3. DayNumber(c) % DaysPerYear \in Nat
  BY <1>1, Division
<1>4. Padded(-YearOf(c), YearDigits) \in Seq(Nat)
      /\ Padded(1 + (DayNumber(c) % DaysPerYear), DayDigits) \in Seq(Nat)
  <2>1. 1 + (DayNumber(c) % DaysPerYear) \in Nat
    BY <1>3
  <2> QED
    BY <1>2, <2>1, PaddedType
<1>5. b = (<<Minus>> \o Padded(-YearOf(c), YearDigits))
            \o Padded(1 + (DayNumber(c) % DaysPerYear), DayDigits)
  BY DEF DayString
<1>6. b \in Seq(Int) /\ b # <<>> /\ b[1] = -1
  <2>1. \A u, v \in Seq(Nat) :
          /\ (<<-1>> \o u) \o v \in Seq(Int)
          /\ Len((<<-1>> \o u) \o v) > 0 /\ ((<<-1>> \o u) \o v)[1] = -1
    OBVIOUS
  <2> QED
    BY <1>4, <1>5, <2>1 DEF Minus
<1>7. a \in Seq(Nat) /\ Len(a) = YearDigits + DayDigits
  BY DayStringParts
<1>8. Len(a) \in Nat /\ Len(a) > 0 /\ a[1] \in Nat
  BY <1>7
<1> HIDE DEF a, b
<1> SUFFICES ASSUME NEW i \in 1..Len(b), i <= Len(a) + 1,
                    SubSeq(a, 1, i - 1) = SubSeq(b, 1, i - 1), i = Len(a) + 1 \/ a[i] < b[i]
             PROVE  FALSE
  BY DEF NameLess, a, b
<1>9. CASE i = 1
  BY <1>6, <1>8, <1>9
<1>10. CASE i > 1
  <2>1. 1 \in 1..(i - 1) /\ i - 1 <= Len(a) /\ i - 1 <= Len(b) /\ i \in Nat /\ Len(b) \in Nat
    BY <1>6, <1>8, <1>10
  <2>2. SubSeq(a, 1, i - 1)[1] = a[1] /\ SubSeq(b, 1, i - 1)[1] = b[1]
    BY <1>6, <1>7, <2>1
  <2> QED
    BY <1>6, <1>8, <2>2
<1> QED
  BY <1>6, <1>9, <1>10

\* Values that fit int64 do not wrap.
LEMMA WrapFits ==
  ASSUME NEW x \in Int, -(Modulus \div 2) <= x, x < Modulus \div 2
  PROVE  Wrap(x) = x
<1> DEFINE h == Modulus \div 2
<1>1. Modulus = 2 * h /\ h \in Nat
  BY MomentsAreInts
<1>2. h > 0
  BY <1>1
<1>3. CASE x >= 0
  <2>1. x % Modulus = x
    BY <1>1, <1>3
  <2> QED
    BY <1>1, <1>3, <2>1 DEF Wrap, Signed, Unsigned
<1>4. CASE x < 0
  <2>1. x = Modulus * (-1) + (x + Modulus) /\ x + Modulus \in 0..(Modulus - 1)
    BY <1>1, <1>4
  <2>2. x % Modulus = x + Modulus
    BY <1>1, <1>2, <2>1, DivisionUnique
  <2> QED
    BY <1>1, <1>4, <2>2 DEF Wrap, Signed, Unsigned
<1> QED
  BY <1>3, <1>4

\* ApplyRetention: the day of a sample is dropped exactly when all of it is
\* older than the period, for every period that stays within int64, also when
\* the cutoff lies before the year 0.
THEOREM RetentionExactHolds == LookupSpec => []RetentionExact
<1>1. ASSUME Computed PROVE RetentionExact
  <2> DEFINE t == input.data.t
             k == input.data.days
             now == input.data.now
             c == now - k * DayMs
  <2> SUFFICES ASSUME Finished("retention"), HasDayName(t), HasDayName(now), c >= -(Modulus \div 2)
               PROVE  (output # {}) <=> k > 0 /\ (DayNumber(t) + 1) * DayMs <= DayMs * DayNumber(c)
    BY DEF RetentionExact
  <2> USE CalendarAssumption
  <2>1. input.data \in [t : Moments, days : RetentionPeriods, now : Moments]
    BY <1>1, InputData DEF Computed, Finished
  <2>2. t \in Int /\ k \in Int /\ now \in Int /\ now < Modulus \div 2
    BY <2>1, MomentsAreInts, TimesAssumption
  <2>3. c \in Int
    BY <2>2
  <2>4. output = Expired({DayString(t)}, k, now)
    BY <1>1 DEF Computed, RetentionResult
  <2>5. output # {} <=> k > 0 /\ NameLess(DayString(t), DayString(Wrap(c)))
    BY <2>4 DEF Expired
  <2>6. CASE ~(k > 0)
    BY <2>5, <2>6
  <2>7. CASE k > 0
    <3>1. k * DayMs \in Nat
      BY <2>2, <2>7
    <3>2. c <= now
      <4> DEFINE x == k * DayMs
      <4>1. x \in Nat /\ c = now - x
        BY <3>1
      <4> HIDE DEF x, c, now
      <4> QED
        BY <2>2, <4>1 DEF now
    <3> HIDE DEF c, t, k, now
    <3>3. Wrap(c) = c
      BY <2>2, <2>3, <3>2, WrapFits, MomentsAreInts
    <3>4. /\ DayNumber(c) \in Int /\ DayNumber(t) \in Int /\ DayNumber(now) \in Int
          /\ DayNumber(c) <= DayNumber(now)
      BY <2>2, <2>3, <3>2, Division, DivisionMonotone DEF DayNumber
    <3>5. /\ YearOf(c) \in Int /\ YearOf(now) \in Int /\ YearOf(t) \in Int
          /\ YearOf(c) <= YearOf(now)
      BY <3>4, Division, DivisionMonotone DEF YearOf
    <3>6. /\ (DayNumber(t) + 1) * DayMs <= DayMs * DayNumber(c)
               <=> DayNumber(t) + 1 <= DayNumber(c)
      BY <3>4, ProductOrder
    <3>7. CASE YearOf(c) < 0
      <4>1. ~NameLess(DayString(t), DayString(c))
        BY <2>2, <2>3, <3>7, NegativeYearIsFirst
      <4>2. ~(DayNumber(t) <= DayNumber(c))
        <5> SUFFICES ASSUME DayNumber(t) <= DayNumber(c) PROVE FALSE
          OBVIOUS
        <5>1. DayNumber(t) \div DaysPerYear <= DayNumber(c) \div DaysPerYear
          BY <3>4, DivisionMonotone
        <5>2. DayNumber(t) \div DaysPerYear \in Int /\ DayNumber(c) \div DaysPerYear \in Int
          BY <3>4, Division
        <5>3. YearOf(t) <= YearOf(c)
          BY <5>1, <5>2 DEF YearOf
        <5>4. YearOf(t) >= 0
          BY <2>2, DayStringParts
        <5> QED
          BY <3>5, <3>7, <5>3, <5>4
      <4> QED
        BY <2>5, <3>3, <3>4, <3>6, <4>1, <4>2
    <3>8. CASE YearOf(c) >= 0
      <4>1. HasDayName(c)
        <5>1. YearOf(now) \in 0..(Base^YearDigits - 1)
          BY DEF HasDayName
        <5>2. Base^YearDigits \in Nat
          <6>1. YearDigits \in Exponents
            BY WordAssumption, FloatAssumption DEF Exponents
          <6> QED
            BY <6>1, PowerPositive
        <5> QED
          BY <3>5, <3>8, <5>1, <5>2 DEF HasDayName
      <4>2. NameLess(DayString(t), DayString(c)) <=> DayNumber(t) < DayNumber(c)
        BY <2>2, <2>3, <4>1, DayOrder
      <4> QED
        BY <2>5, <2>7, <3>3, <3>4, <3>6, <4>2
    <3> QED
      BY <3>5, <3>7, <3>8
  <2> QED
    BY <2>2, <2>6, <2>7
<1> QED
  BY <1>1, ComputedInvariant, PTL

-----------------------------------------------------------------------------
(* Time parameters.                                                         *)

\* Rounding is off by one half at most, which is little if the quotient is
\* at least p: one part in 2 * p.
LEMMA RoundedClose ==
  ASSUME NEW n \in Nat, NEW d \in Nat, d > 0, NEW p \in Nat, p > 0, p * d <= n
  PROVE  /\ Rounded(n, d) \in Nat
         /\ (2 * p) * (Rounded(n, d) * d) <= (2 * p) * n + n
         /\ (2 * p) * n - n <= (2 * p) * (Rounded(n, d) * d)
<1> DEFINE q == n \div d
           r == n % d
           m == Rounded(n, d)
           x == m * d
<1>1. q \in Nat /\ r \in 0..(d - 1) /\ n = d * q + r
  <2>1. q \in Int /\ r \in 0..(d - 1) /\ n = d * q + r
    BY Division
  <2>2. q >= 0
    <3> HIDE DEF q, r
    <3> SUFFICES ASSUME q <= -1 PROVE FALSE
      BY <2>1
    <3>1. d * q <= d * (-1)
      BY <2>1, ProductOrder
    <3>2. d * q \in Int /\ d * (-1) = -d
      BY <2>1
    <3> QED
      BY <2>1, <3>1, <3>2
  <2> QED
    BY <2>1, <2>2
<1>2. \/ m = q + 1 /\ 2 * r >= d
      \/ m = q /\ 2 * r <= d
  <2>1. \/ m = q + 1 /\ (2 * r > d \/ 2 * r = d)
        \/ m = q /\ ~(2 * r > d)
    BY DEF Rounded
  <2> HIDE DEF q, r, m
  <2> QED
    BY <1>1, <2>1
<1> HIDE DEF q, r, m
<1>3. m \in Nat /\ x \in Nat
  BY <1>1, <1>2
<1>4. 2 * x <= 2 * n + d /\ 2 * n <= 2 * x + d
  <2>1. d * q \in Nat /\ q * d = d * q /\ (q + 1) * d = d * q + d
    BY <1>1
  <2>2. \/ x = d * q + d /\ 2 * r >= d
        \/ x = d * q /\ 2 * r <= d
    BY <1>2, <2>1
  <2> HIDE DEF x
  <2> QED
    BY <1>1, <1>3, <2>1, <2>2
<1> HIDE DEF x
<1>5. (2 * p) * x = p * (2 * x) /\ (2 * p) * n = p * (2 * n)
  BY <1>3
<1>6. p * (2 * x) <= p * (2 * n + d) /\ p * (2 * n) <= p * (2 * x + d)
  BY <1>3, <1>4, ProductOrder
<1>7. p * (2 * n + d) = p * (2 * n) + p * d /\ p * (2 * x + d) = p * (2 * x) + p * d
  BY <1>3
<1>8. p * (2 * n) \in Nat /\ p * (2 * x) \in Nat /\ p * d \in Nat
  BY <1>3
<1>9. p * (2 * x) <= p * (2 * n) + n /\ p * (2 * n) - n <= p * (2 * x)
  BY <1>6, <1>7, <1>8
<1> QED
  BY <1>3, <1>5, <1>9 DEF x, m

\* The powers of two that floats use.
LEMMA FloatPowers ==
  /\ 2^(Mantissa - 1) \in Nat /\ 2^(Mantissa - 1) > 0 /\ 2^Mantissa = 2 * 2^(Mantissa - 1)
  /\ \A k \in 0..(Mantissa + SecondBits) : 2^k \in Nat /\ 2^k > 0
  /\ \A k \in 0..(Mantissa + SecondBits) : 2^(k + 1) = 2 * 2^k
  /\ 2^0 = 1
<1> USE WordAssumption, CalendarAssumption, FloatAssumption
<1>1. /\ \A k \in 0..(Mantissa + SecondBits) : k \in Exponents
      /\ Mantissa - 1 \in Exponents /\ (Mantissa - 1) + 1 = Mantissa
  BY DEF Exponents
<1>2. 2^(Mantissa - 1) \in Nat /\ 2^(Mantissa - 1) > 0 /\ 2^Mantissa = 2 * 2^(Mantissa - 1)
  BY <1>1, PowerPositive, PowerStep
<1>3. \A k \in 0..(Mantissa + SecondBits) : 2^k \in Nat /\ 2^k > 0
  BY <1>1, PowerPositive
<1>4. \A k \in 0..(Mantissa + SecondBits) : 2^(k + 1) = 2 * 2^k
  BY <1>1, PowerStep
<1>5. 2^0 = 1
  BY PowersAssumption
<1> QED
  BY <1>2, <1>3, <1>4, <1>5

\* A number that is neither too small nor too large has an exponent.
LEMMA ExponentExists ==
  ASSUME NEW num \in Nat, num > 0, NEW den \in Nat, den > 0,
         2^(Mantissa - 1) * den <= num * 2^(Mantissa + SecondBits), num < 2^Mantissa * den
  PROVE  \E e \in -(Mantissa + SecondBits)..Mantissa : IsExponent(e, num, den)
<1> DEFINE P == 2^(Mantissa - 1)
           N == Mantissa + SecondBits
           S == {k \in 0..N : P * den <= num * 2^k}
<1> USE FloatAssumption
<1>1. PICK k \in S : \A j \in S : k <= j
  <2>1. N \in S /\ S \in SUBSET Nat
    OBVIOUS
  <2> HIDE DEF S
  <2> QED
    BY <2>1, LeastNat
<1>2. P \in Nat /\ P > 0 /\ 2^Mantissa = 2 * P /\ k \in 0..N /\ 2^k \in Nat
  BY <1>1, FloatPowers
<1>3. num * 2^k < 2^Mantissa * den
  <2>1. CASE k = 0
    <3>1. num * 2^k = num
      BY <2>1, FloatPowers
    <3> QED
      BY <3>1
  <2>2. CASE k > 0
    <3>1. k - 1 \in 0..N /\ k - 1 \notin S /\ (k - 1) + 1 = k
      BY <1>1, <1>2, <2>2
    <3>2. 2^(k - 1) \in Nat /\ 2^k = 2 * 2^(k - 1)
      BY <3>1, FloatPowers
    <3>3. ~(P * den <= num * 2^(k - 1))
      BY <3>1
    <3>4. P * den \in Nat /\ num * 2^(k - 1) \in Nat
      BY <1>2, <3>2
    <3>5. num * 2^k = 2 * (num * 2^(k - 1)) /\ 2^Mantissa * den = 2 * (P * den)
      BY <1>2, <3>2
    <3> HIDE DEF P
    <3> QED
      BY <3>3, <3>4, <3>5
  <2> QED
    BY <1>2, <2>1, <2>2
<1>4. P * den <= num * 2^k
  BY <1>1
<1>5. CASE k = 0
  <2>1. 2^(Mantissa - 1) * 2^0 * den = P * den /\ 2^Mantissa * 2^0 * den = 2^Mantissa * den
        /\ num * 2^k = num
    BY <1>2, <1>5, FloatPowers
  <2>2. IsExponent(0, num, den)
    BY <1>3, <1>4, <2>1 DEF IsExponent
  <2> QED
    BY <2>2
<1>6. CASE k > 0
  <2>1. -k \in -N..Mantissa /\ ~(-k >= 0) /\ -(-k) = k
    BY <1>2, <1>6
  <2>2. IsExponent(-k, num, den)
    BY <1>3, <1>4, <2>1 DEF IsExponent
  <2> QED
    BY <2>1, <2>2
<1> QED
  BY <1>2, <1>5, <1>6

\* A float is close to the number it is rounded from: one part in 2^Mantissa.
LEMMA RoundFloatClose ==
  ASSUME NEW num \in Nat, num > 0, NEW den \in Nat, den > 0,
         2^(Mantissa - 1) * den <= num * 2^(Mantissa + SecondBits), num < 2^Mantissa * den,
         NEW g, g = RoundFloat(num, den)
  PROVE  /\ g.num \in Nat /\ g.den \in Nat /\ g.den > 0
         /\ 2^Mantissa * (g.num * den) <= 2^Mantissa * (num * g.den) + num * g.den
         /\ 2^Mantissa * (num * g.den) - num * g.den <= 2^Mantissa * (g.num * den)
<1> DEFINE P == 2^(Mantissa - 1)
           e == CHOOSE i \in -(Mantissa + SecondBits)..Mantissa : IsExponent(i, num, den)
<1>1. e \in -(Mantissa + SecondBits)..Mantissa /\ IsExponent(e, num, den)
  BY ExponentExists
<1>2. g = RoundAt(num, den, e)
  <2>1. num # 0
    OBVIOUS
  <2> QED
    BY <2>1, Zenon DEF RoundFloat
<1>3. P \in Nat /\ P > 0 /\ 2^Mantissa = 2 * P
  BY FloatPowers
<1> HIDE DEF e
<1>4. CASE e >= 0
  <2> DEFINE E == 2^e
             d == den * E
             m == Rounded(num, d)
  <2>1. E \in Nat /\ E > 0
    BY <1>1, <1>4, FloatAssumption, FloatPowers
  <2>2. g.num = m * E /\ g.den = 1
    BY <1>2, <1>4 DEF RoundAt
  <2>3. P * E * den <= num
    BY <1>1, <1>4 DEF IsExponent
  <2> HIDE DEF P, E
  <2>4. d \in Nat /\ d > 0 /\ P * d <= num
    BY <1>3, <2>1, <2>3
  <2>5. /\ m \in Nat
        /\ (2 * P) * (m * d) <= (2 * P) * num + num
        /\ (2 * P) * num - num <= (2 * P) * (m * d)
    <3> HIDE DEF d
    <3> QED
      BY <1>3, <2>4, RoundedClose
  <2> HIDE DEF m
  <2>6. g.num \in Nat /\ g.num * den = m * d /\ num * g.den = num
    BY <2>1, <2>2, <2>5
  <2> QED
    BY <1>3, <2>2, <2>5, <2>6
<1>5. CASE e < 0
  <2> DEFINE K == 2^(-e)
             n == num * K
             m == Rounded(n, den)
  <2>1. K \in Nat /\ K > 0
    BY <1>1, <1>5, FloatAssumption, FloatPowers
  <2>2. g.num = m /\ g.den = K
    BY <1>1, <1>2, <1>5, FloatAssumption DEF RoundAt
  <2>3. P * den <= n
    BY <1>1, <1>5, FloatAssumption DEF IsExponent
  <2> HIDE DEF P, K
  <2>4. n \in Nat
    BY <2>1
  <2>5. /\ m \in Nat
        /\ (2 * P) * (m * den) <= (2 * P) * n + n
        /\ (2 * P) * n - n <= (2 * P) * (m * den)
    <3> HIDE DEF n
    <3> QED
      BY <1>3, <2>3, <2>4, RoundedClose
  <2> QED
    BY <1>3, <2>1, <2>2, <2>5
<1> QED
  BY <1>1, <1>4, <1>5, FloatAssumption

\* Two roundings, one part in P each, are off by less than one if the number
\* is at most P / 2 - 1.  F and G are the denominators of the two results.
LEMMA RoundedTwice ==
  ASSUME NEW P \in Nat, NEW ms \in Nat, ms > 0, 2 * ms <= P - 2,
         NEW F \in Nat, F > 0, NEW G \in Nat, G > 0, NEW X \in Nat, NEW N \in Nat,
         P * X <= P * (ms * F) + ms * F, P * (ms * F) - ms * F <= P * X,
         P * (N * F) <= P * (X * G) + X * G, P * (X * G) - X * G <= P * (N * F)
  PROVE  (ms - 1) * G <= N /\ N < (ms + 1) * G
<1> DEFINE H == P * P
<1>1. P > 2 /\ P - 1 \in Nat /\ P + 1 \in Nat /\ H \in Nat /\ H > 0
  OBVIOUS
<1>2. /\ P * X <= (P + 1) * (ms * F) /\ (P - 1) * (ms * F) <= P * X
      /\ P * (N * F) <= (P + 1) * (X * G) /\ (P - 1) * (X * G) <= P * (N * F)
  OBVIOUS
<1>3. F * (H * N) <= F * (((P + 1) * (P + 1) * ms) * G)
  <2> DEFINE a == P * (N * F)
             b == (P + 1) * (X * G)
             c == P * X
             d == (P + 1) * (ms * F)
             k == (P + 1) * G
  <2>1. a \in Int /\ b \in Int /\ c \in Int /\ d \in Int /\ k \in Nat /\ k > 0
    BY <1>1
  <2>2. P * a <= P * b /\ k * c <= k * d
    <3>1. a <= b /\ c <= d
      BY <1>2
    <3> HIDE DEF a, b, c, d, k
    <3> QED
      BY <1>1, <2>1, <3>1, ProductOrder
  <2>3. P * a = F * (H * N) /\ P * b = k * c
    OBVIOUS
  <2>4. k * d = F * (((P + 1) * (P + 1) * ms) * G)
    OBVIOUS
  <2>5. P * a \in Int /\ P * b \in Int /\ k * d \in Int
    BY <2>1
  <2> HIDE DEF a, b, c, d, k, H
  <2> QED
    BY <2>2, <2>3, <2>4, <2>5
<1>4. F * (((P - 1) * (P - 1) * ms) * G) <= F * (H * N)
  <2> DEFINE a == P * (N * F)
             b == (P - 1) * (X * G)
             c == P * X
             d == (P - 1) * (ms * F)
             k == (P - 1) * G
  <2>1. a \in Int /\ b \in Int /\ c \in Int /\ d \in Int /\ k \in Nat /\ k > 0
    BY <1>1
  <2>2. P * b <= P * a /\ k * d <= k * c
    <3>1. b <= a /\ d <= c
      BY <1>2
    <3> HIDE DEF a, b, c, d, k
    <3> QED
      BY <1>1, <2>1, <3>1, ProductOrder
  <2>3. P * a = F * (H * N) /\ P * b = k * c
    OBVIOUS
  <2>4. k * d = F * (((P - 1) * (P - 1) * ms) * G)
    OBVIOUS
  <2>5. P * a \in Int /\ P * b \in Int /\ k * d \in Int
    BY <2>1
  <2> HIDE DEF a, b, c, d, k, H
  <2> QED
    BY <2>2, <2>3, <2>4, <2>5
<1> DEFINE U == (P + 1) * (P + 1) * ms
           L == (P - 1) * (P - 1) * ms
<1>5. U \in Nat /\ L \in Nat /\ U < H * (ms + 1) /\ H * (ms - 1) <= L
  <2>1. P * (2 * ms) <= P * (P - 2)
    BY <1>1, ProductOrder
  <2>2. P * (P - 2) = H - 2 * P
    OBVIOUS
  <2>3. U = H * ms + P * (2 * ms) + ms /\ L = H * ms - P * (2 * ms) + ms
    OBVIOUS
  <2>4. H * (ms + 1) = H * ms + H /\ H * (ms - 1) = H * ms - H
    OBVIOUS
  <2>5. U \in Nat /\ L \in Nat
    BY <1>1
  <2>6. H * ms \in Int /\ P * (2 * ms) \in Int /\ P * (P - 2) \in Int
    OBVIOUS
  <2> HIDE DEF U, L, H
  <2> QED
    BY <1>1, <2>1, <2>2, <2>3, <2>4, <2>5, <2>6
<1>6. H * N \in Int /\ U * G \in Int /\ L * G \in Int
  BY <1>5
<1>7. H * N <= U * G /\ L * G <= H * N
  <2>1. F * (H * N) <= F * (U * G) /\ F * (L * G) <= F * (H * N)
    BY <1>3, <1>4
  <2> HIDE DEF H, U, L
  <2> QED
    BY <1>6, <2>1, ProductOrder
<1> HIDE DEF H, U, L
<1>8. G * U < G * (H * (ms + 1)) /\ G * (H * (ms - 1)) <= G * L
  BY <1>1, <1>5, ProductOrder
<1>9. /\ G * U = U * G /\ G * L = L * G
      /\ G * (H * (ms + 1)) = H * ((ms + 1) * G) /\ G * (H * (ms - 1)) = H * ((ms - 1) * G)
      /\ (ms + 1) * G \in Int /\ (ms - 1) * G \in Int
  BY <1>1, <1>5
<1>10. H * N < H * ((ms + 1) * G) /\ H * ((ms - 1) * G) <= H * N
  BY <1>1, <1>6, <1>7, <1>8, <1>9
<1> QED
  BY <1>1, <1>9, <1>10, ProductOrder

\* A decimal time of less than 2^(Mantissa - 1) milliseconds, read as seconds.
LEMMA ParseTimeParamClose ==
  ASSUME NEW ms \in 0..(2^(Mantissa - 1) - 1)
  PROVE  ParseTimeParam(ms) \in {ms - 1, ms}
<1> DEFINE K == MsPerSecond
           P1 == 2^(Mantissa - 1)
           P == 2^Mantissa
           S == 2^SecondBits
           f == RoundFloat(ms, K)
           X == f.num * K
           g == RoundFloat(X, f.den)
<1>1. /\ P1 \in Nat /\ P1 > 0 /\ P = 2 * P1 /\ S \in Nat /\ S > 0
      /\ K \in Nat /\ K > 0 /\ K <= S
  BY FloatAssumption, FloatPowers
<1>2. 2^(Mantissa + SecondBits) = P * S
  <2>1. Mantissa + SecondBits \in Exponents
    BY WordAssumption, CalendarAssumption, FloatAssumption DEF Exponents
  <2> QED
    BY <2>1, FloatAssumption, PowerSum
<1>3. ParseTimeParam(ms) = g.num \div g.den
  BY DEF ParseTimeParam, ParseFloat
<1>4. CASE ms = 0
  <2>1. f = [num |-> 0, den |-> 1]
    BY <1>4 DEF RoundFloat
  <2>2. X = 0
    BY <1>1, <2>1
  <2>3. g = [num |-> 0, den |-> 1]
    BY <2>2 DEF RoundFloat
  <2>4. g.num \div g.den = 0
    BY <2>3
  <2> QED
    BY <1>3, <1>4, <2>4
<1>5. CASE ms # 0
  <2> HIDE DEF K, P1, P, S, f, g
  <2>1. ms \in Nat /\ ms > 0 /\ 2 * ms <= P - 2
    BY <1>1, <1>5 DEF P1
  <2>2. P1 * K <= ms * (P * S) /\ ms < P * K
    <3>1. P1 * K <= P1 * S /\ P1 * S \in Nat /\ P1 * K \in Nat
      BY <1>1, ProductOrder
    <3>2. P * S = 2 * (P1 * S) /\ P * S \in Nat
      BY <1>1
    <3>3. P * S <= ms * (P * S)
      BY <2>1, <3>2
    <3>4. P <= P * K
      BY <1>1
    <3> QED
      BY <1>1, <2>1, <3>1, <3>2, <3>3, <3>4
  <2>3. /\ f.num \in Nat /\ f.den \in Nat /\ f.den > 0
        /\ P * (f.num * K) <= P * (ms * f.den) + ms * f.den
        /\ P * (ms * f.den) - ms * f.den <= P * (f.num * K)
    BY <1>1, <1>2, <2>1, <2>2, RoundFloatClose DEF f, K, P1, P
  <2> DEFINE F == f.den
             y == ms * F
  <2>4. X \in Nat /\ P * X <= P * y + y /\ P * y - y <= P * X
    BY <1>1, <2>3
  <2> HIDE DEF X
  <2>5. y \in Nat /\ F <= y /\ P1 * F <= P1 * y /\ P1 * F \in Nat /\ P1 * F > 0
    BY <1>1, <2>1, <2>3
  <2>6. P1 * F <= P * X
    <3> HIDE DEF F, y
    <3>1. P * y = 2 * (P1 * y) /\ P1 * y \in Nat /\ y <= P1 * y /\ P * X \in Nat
      BY <1>1, <2>4, <2>5
    <3> QED
      BY <2>4, <2>5, <3>1
  <2>7. X > 0 /\ P1 * F <= X * (P * S)
    <3>1. P * X \in Nat /\ P * X <= S * (P * X) /\ S * (P * X) = X * (P * S)
      BY <1>1, <2>4
    <3>2. X # 0
      <4> SUFFICES ASSUME X = 0 PROVE FALSE
        OBVIOUS
      <4>1. P * X = 0
        BY <1>1
      <4> HIDE DEF F
      <4> QED
        BY <2>5, <2>6, <4>1
    <3> HIDE DEF F
    <3> QED
      BY <1>1, <2>4, <2>5, <2>6, <3>1, <3>2
  <2>8. X < P * F
    <3>1. P * y + y = ((P + 1) * ms) * F
      BY <1>1, <2>1, <2>3
    <3>2. (P + 1) * ms < P * P /\ (P + 1) * ms \in Nat /\ P * P \in Nat
      <4>1. (P + 1) * (2 * ms) <= (P + 1) * (P - 2)
        BY <1>1, <2>1, ProductOrder
      <4>2. (P + 1) * (P - 2) = P * P - P - 2 /\ (P + 1) * (2 * ms) = 2 * ((P + 1) * ms)
        BY <1>1
      <4>3. (P + 1) * ms \in Nat /\ P * P \in Nat /\ P \in Nat
        BY <1>1
      <4> QED
        BY <4>1, <4>2, <4>3
    <3>3. F * ((P + 1) * ms) < F * (P * P)
      BY <2>3, <3>2, ProductOrder
    <3>4. F * ((P + 1) * ms) = ((P + 1) * ms) * F /\ F * (P * P) = P * (P * F)
      BY <1>1, <2>3
    <3>5. P * X < P * (P * F)
      <4>1. P * X \in Int /\ P * (P * F) \in Int /\ ((P + 1) * ms) * F \in Int
        BY <1>1, <2>3, <2>4
      <4> HIDE DEF F, y
      <4> QED
        BY <2>4, <3>1, <3>3, <3>4, <4>1
    <3>6. P * F \in Int /\ P \in Nat /\ P > 0
      BY <1>1, <2>3
    <3> HIDE DEF F
    <3> QED
      BY <2>4, <3>5, <3>6, ProductOrder
  <2> DEFINE N == g.num
             G == g.den
  <2>9. /\ N \in Nat /\ G \in Nat /\ G > 0
        /\ P * (N * F) <= P * (X * G) + X * G
        /\ P * (X * G) - X * G <= P * (N * F)
    BY <1>2, <2>3, <2>4, <2>7, <2>8, RoundFloatClose DEF g, P1, P
  <2>10. (ms - 1) * G <= N /\ N < (ms + 1) * G
    <3>1. P \in Nat
      BY <1>1
    <3>2. F \in Nat /\ F > 0
      BY <2>3
    <3> HIDE DEF F, N, G
    <3> QED
      BY <2>1, <2>4, <2>9, <3>1, <3>2, RoundedTwice
  <2> HIDE DEF N, G
  <2>11. N \div G \in {ms - 1, ms}
    <3> DEFINE q == N \div G
               r == N % G
    <3>1. q \in Int /\ r \in 0..(G - 1) /\ N = G * q + r
      BY <2>9, Division
    <3> HIDE DEF q, r
    <3>2. G * q < G * (ms + 1)
      <4>1. G * q \in Int /\ G * (ms + 1) = (ms + 1) * G /\ G * (ms + 1) \in Int
        BY <2>1, <2>9, <3>1
      <4> QED
        BY <2>9, <2>10, <3>1, <4>1
    <3>3. G * (ms - 1) < G * (q + 1)
      <4>1. G * q \in Int /\ G * (ms - 1) = (ms - 1) * G /\ G * (ms - 1) \in Int
            /\ G * (q + 1) = G * q + G
        BY <2>1, <2>9, <3>1
      <4> QED
        BY <2>9, <2>10, <3>1, <4>1
    <3>4. q < ms + 1 /\ ms - 1 < q + 1
      BY <2>1, <2>9, <3>1, <3>2, <3>3, ProductOrder
    <3> QED
      BY <2>1, <3>1, <3>4 DEF q
  <2> QED
    BY <1>3, <2>11 DEF N, G
<1> QED
  BY <1>4, <1>5

\* parseTimeParam rounds twice and truncates: for every size of mantissa and of
\* second, decimal seconds become the millisecond they name or the one before.
THEOREM TimeParamCloseHolds == LookupSpec => []TimeParamClose
<1>1. ASSUME Computed PROVE TimeParamClose
  <2> SUFFICES ASSUME Finished("param") PROVE output \in {input.data - 1, input.data}
    BY DEF TimeParamClose
  <2>1. output = ParseTimeParam(input.data) /\ input \in LookupInputs /\ input.kind = "param"
    BY <1>1 DEF Computed, Finished
  <2>2. input.data \in 0..(2^(Mantissa - 1) - 1)
    BY <2>1, InputData, TimesAssumption
  <2> QED
    BY <2>1, <2>2, ParseTimeParamClose
<1> QED
  BY <1>1, ComputedInvariant, PTL

-----------------------------------------------------------------------------
(* Keys.                                                                    *)

NameValueSep == "\\x01"
LabelPairSep == "\\x02"

\* A concatenation, element by element.
LEMMA ConcatParts ==
  ASSUME NEW D, NEW s \in Seq(D), NEW t \in Seq(D)
  PROVE  /\ s \o t \in Seq(D) /\ Len(s \o t) = Len(s) + Len(t)
         /\ \A i \in 1..Len(s) : (s \o t)[i] = s[i]
         /\ \A i \in 1..Len(t) : (s \o t)[Len(s) + i] = t[i]
<1>1. /\ s \o t \in Seq(D) /\ Len(s \o t) = Len(s) + Len(t)
      /\ \A i \in 1..(Len(s) + Len(t)) :
           (s \o t)[i] = IF i <= Len(s) THEN s[i] ELSE t[i - Len(s)]
  BY ConcatProperties, Zenon
<1> DEFINE c == s \o t
<1> HIDE DEF c
<1>2. Len(s) \in Nat /\ Len(t) \in Nat
  OBVIOUS
<1>3. ASSUME NEW i \in 1..Len(s) PROVE c[i] = s[i]
  <2>1. i \in 1..(Len(s) + Len(t)) /\ i <= Len(s)
    BY <1>2
  <2> QED
    BY <1>1, <2>1, Zenon DEF c
<1>4. ASSUME NEW i \in 1..Len(t) PROVE c[Len(s) + i] = t[i]
  <2>1. Len(s) + i \in 1..(Len(s) + Len(t)) /\ ~(Len(s) + i <= Len(s)) /\ (Len(s) + i) - Len(s) = i
    BY <1>2
  <2>2. c[Len(s) + i] = t[(Len(s) + i) - Len(s)]
    BY <1>1, <2>1, Zenon DEF c
  <2> QED
    BY <2>1, <2>2
<1> QED
  BY <1>1, <1>3, <1>4 DEF c

\* A key, character by character.
LEMMA LabelKeyParts ==
  ASSUME NEW D, NEW a \in [name : Seq(D), value : Seq(D)]
  PROVE  /\ LabelKey(a) \in Seq(D \cup {NameValueSep})
         /\ Len(LabelKey(a)) = Len(a.name) + 1 + Len(a.value)
         /\ \A i \in 1..Len(a.name) : LabelKey(a)[i] = a.name[i]
         /\ LabelKey(a)[Len(a.name) + 1] = NameValueSep
         /\ \A i \in 1..Len(a.value) : LabelKey(a)[Len(a.name) + 1 + i] = a.value[i]
<1> DEFINE E == D \cup {NameValueSep}
           s == <<NameValueSep>>
           n == a.name
           v == a.value
           l == n \o s
<1>1. n \in Seq(E) /\ v \in Seq(E) /\ s \in Seq(E) /\ Len(s) = 1 /\ s[1] = NameValueSep
  <2>1. n \in Seq(D) /\ v \in Seq(D)
    OBVIOUS
  <2> QED
    BY <2>1
<1>2. LabelKey(a) = l \o v
  BY DEF LabelKey, NameValueSep
<1> HIDE DEF E, s, n, v
<1>3. l \in Seq(E) /\ Len(l) = Len(n) + 1 /\ Len(n) \in Nat
  <2>1. l \in Seq(E) /\ Len(l) = Len(n) + Len(s)
    BY <1>1, ConcatParts, Zenon
  <2> QED
    BY <1>1, <2>1
<1>4. (\A i \in 1..Len(n) : l[i] = n[i]) /\ l[Len(n) + 1] = NameValueSep
  <2>1. 1 \in 1..Len(s)
    BY <1>1
  <2>2. \A i \in 1..Len(n) : l[i] = n[i]
    BY <1>1, ConcatParts, Zenon
  <2>3. \A i \in 1..Len(s) : l[Len(n) + i] = s[i]
    <3>1. n \in Seq(E) /\ s \in Seq(E)
      BY <1>1
    <3> QED
      BY <3>1, ConcatParts
  <2> QED
    BY <1>1, <2>1, <2>2, <2>3, Zenon
<1> HIDE DEF l
<1> DEFINE k == l \o v
<1>5. /\ k \in Seq(E) /\ Len(k) = Len(l) + Len(v)
      /\ \A i \in 1..Len(l) : k[i] = l[i]
      /\ \A i \in 1..Len(v) : k[Len(l) + i] = v[i]
  <2>1. k \in Seq(E) /\ Len(k) = Len(l) + Len(v) /\ \A i \in 1..Len(l) : k[i] = l[i]
    BY <1>1, <1>3, ConcatParts, Zenon
  <2>2. \A i \in 1..Len(v) : k[Len(l) + i] = v[i]
    BY <1>1, <1>3, ConcatParts
  <2> QED
    BY <2>1, <2>2
<1> HIDE DEF k
<1>6. /\ k \in Seq(E) /\ Len(k) = Len(n) + 1 + Len(v)
      /\ \A i \in 1..Len(n) : k[i] = n[i]
      /\ k[Len(n) + 1] = NameValueSep
      /\ \A i \in 1..Len(v) : k[Len(n) + 1 + i] = v[i]
  BY <1>3, <1>4, <1>5
<1> QED
  BY <1>2, <1>6, Zenon DEF k, n, v, E

\* The first separator of a key ends the name.
LEMMA KeyNameLength ==
  ASSUME NEW D, NEW a \in [name : Seq(D), value : Seq(D)],
         NEW b \in [name : Seq(D), value : Seq(D)],
         \A i \in DOMAIN b.name : b.name[i] # NameValueSep,
         LabelKey(a) = LabelKey(b)
  PROVE  Len(b.name) <= Len(a.name)
<1>1. a.name \in Seq(D) /\ b.name \in Seq(D)
  OBVIOUS
<1> SUFFICES ASSUME Len(a.name) < Len(b.name) PROVE FALSE
  BY <1>1
<1>2. Len(a.name) + 1 \in 1..Len(b.name) /\ DOMAIN b.name = 1..Len(b.name)
  BY <1>1
<1>3. b.name[Len(a.name) + 1] = NameValueSep
  <2>1. LabelKey(a)[Len(a.name) + 1] = NameValueSep
    BY LabelKeyParts
  <2>2. \A i \in 1..Len(b.name) : LabelKey(b)[i] = b.name[i]
    BY LabelKeyParts
  <2> HIDE DEF NameValueSep
  <2> QED
    BY <1>2, <2>1, <2>2, Zenon
<1> QED
  BY <1>2, <1>3

\* Labels with the same key are the same label.
LEMMA LabelKeyInjective ==
  ASSUME NEW D, NEW a \in [name : Seq(D), value : Seq(D)],
         NEW b \in [name : Seq(D), value : Seq(D)],
         \A i \in DOMAIN a.name : a.name[i] # NameValueSep,
         \A i \in DOMAIN b.name : b.name[i] # NameValueSep,
         LabelKey(a) = LabelKey(b)
  PROVE  a = b
<1>1. a.name \in Seq(D) /\ b.name \in Seq(D) /\ a.value \in Seq(D) /\ b.value \in Seq(D)
  OBVIOUS
<1>2. Len(a.name) = Len(b.name)
  <2>1. Len(a.name) <= Len(b.name) /\ Len(b.name) <= Len(a.name)
    BY KeyNameLength
  <2> QED
    BY <1>1, <2>1
<1>3. Len(a.value) = Len(b.value)
  <2>1. Len(a.name) + 1 + Len(a.value) = Len(b.name) + 1 + Len(b.value)
    BY LabelKeyParts
  <2> QED
    BY <1>1, <1>2, <2>1
<1>4. \A i \in 1..Len(a.name) : a.name[i] = b.name[i]
  <2>1. \A i \in 1..Len(a.name) : LabelKey(a)[i] = a.name[i]
    BY LabelKeyParts
  <2>2. \A i \in 1..Len(b.name) : LabelKey(b)[i] = b.name[i]
    BY LabelKeyParts
  <2> QED
    BY <1>2, <2>1, <2>2, Zenon
<1>5. \A i \in 1..Len(a.value) : a.value[i] = b.value[i]
  <2>1. \A i \in 1..Len(a.value) : LabelKey(a)[Len(a.name) + 1 + i] = a.value[i]
    BY LabelKeyParts
  <2>2. \A i \in 1..Len(b.value) : LabelKey(b)[Len(b.name) + 1 + i] = b.value[i]
    BY LabelKeyParts
  <2> QED
    BY <1>2, <1>3, <2>1, <2>2, Zenon
<1>6. a.name = b.name
  BY <1>1, <1>2, <1>4
<1>7. a.value = b.value
  BY <1>1, <1>3, <1>5
<1> QED
  BY <1>6, <1>7

-----------------------------------------------------------------------------
(* The inverted index.                                                      *)

\* A label name holds no separator; its value may.
ProperName(l) == \A i \in DOMAIN l.name : l.name[i] # NameValueSep

\* What a day's index holds of a label.
LEMMA IndexedUnder ==
  ASSUME NEW ids, NEW names, NEW m
  PROVE  LET inv == InvertedIndex(ids, names)
         IN  (IF LabelKey(m) \in DOMAIN inv THEN inv[LabelKey(m)] ELSE {})
               = {id \in ids : \E i \in DOMAIN names[id] : LabelKey(names[id][i]) = LabelKey(m)}
<1> DEFINE inv == InvertedIndex(ids, names)
           key == LabelKey(m)
           all == UNION {{LabelKey(names[id][i]) : i \in DOMAIN names[id]} : id \in ids}
           found == {id \in ids : \E i \in DOMAIN names[id] : LabelKey(names[id][i]) = key}
<1>1. inv = [k \in all |-> {id \in ids : \E i \in DOMAIN names[id] : LabelKey(names[id][i]) = k}]
  BY Zenon DEF InvertedIndex
<1>2. DOMAIN inv = all
  BY <1>1
<1>3. CASE key \in all
  <2> HIDE DEF all, inv, key
  <2>1. inv[key] = found
    BY <1>1, <1>3, Zenon
  <2> QED
    BY <1>2, <1>3, <2>1 DEF inv, key
<1>4. CASE key \notin all
  <2>1. found = {}
    <3> HIDE DEF key
    <3> SUFFICES ASSUME NEW id \in ids, NEW i \in DOMAIN names[id], LabelKey(names[id][i]) = key
                 PROVE  key \in all
      BY <1>4, Zenon
    <3> DEFINE keys(d) == {LabelKey(names[d][j]) : j \in DOMAIN names[d]}
    <3>1. key \in keys(id)
      BY Zenon
    <3>2. all = UNION {keys(d) : d \in ids}
      BY Zenon
    <3> HIDE DEF keys, all
    <3> QED
      BY <3>1, <3>2
  <2> QED
    BY <1>2, <1>4, <2>1, Zenon
<1> QED
  BY <1>3, <1>4

\* Match over the inverted indexes of the days: it finds exactly the series
\* of some day that have all the labels asked for, for every set of series,
\* days and matchers, whatever the values hold.
THEOREM MatchExact ==
  ASSUME NEW D, NEW days, NEW names,
         \A id \in UNION days : names[id] \in Seq([name : Seq(D), value : Seq(D)]),
         \A id \in UNION days : \A i \in DOMAIN names[id] : ProperName(names[id][i]),
         NEW matchers \in Seq([name : Seq(D), value : Seq(D)]), matchers # <<>>,
         \A i \in DOMAIN matchers : ProperName(matchers[i])
  PROVE  Match(matchers, {InvertedIndex(ids, names) : ids \in days})
           = {id \in UNION days : ToSet(matchers) \subseteq ToSet(names[id])}
<1> DEFINE Labels == [name : Seq(D), value : Seq(D)]
           indexes == {InvertedIndex(ids, names) : ids \in days}
           of(m) == UNION {IF LabelKey(m) \in DOMAIN inv THEN inv[LabelKey(m)] ELSE {} : inv \in indexes}
           having(m) == {id \in UNION days : m \in ToSet(names[id])}
<1>1. ASSUME NEW m \in Labels, ProperName(m) PROVE of(m) = having(m)
  <2> DEFINE keyed(ids) == {id \in ids : \E i \in DOMAIN names[id] : LabelKey(names[id][i]) = LabelKey(m)}
  <2>1. of(m) = UNION {keyed(ids) : ids \in days}
    <3>1. \A ids \in days : LET inv == InvertedIndex(ids, names)
                            IN  (IF LabelKey(m) \in DOMAIN inv THEN inv[LabelKey(m)] ELSE {}) = keyed(ids)
      BY IndexedUnder, Zenon
    <3> HIDE DEF keyed
    <3> QED
      BY <3>1, Zenon
  <2>2. \A id \in UNION days : (\E i \in DOMAIN names[id] : LabelKey(names[id][i]) = LabelKey(m))
                                 <=> m \in ToSet(names[id])
    <3> TAKE id \in UNION days
    <3>1. names[id] \in Seq(Labels) /\ \A i \in DOMAIN names[id] : ProperName(names[id][i])
      BY Zenon
    <3>2. \A i \in DOMAIN names[id] : names[id][i] \in Labels
      <4> DEFINE s == names[id]
      <4> HIDE DEF s, Labels
      <4>1. s \in Seq(Labels)
        BY <3>1 DEF s
      <4>2. \A i \in DOMAIN s : s[i] \in Labels
        BY <4>1
      <4> QED
        BY <4>2 DEF s
    <3>3. ASSUME NEW i \in DOMAIN names[id], LabelKey(names[id][i]) = LabelKey(m)
          PROVE  names[id][i] = m
      BY <1>1, <3>1, <3>2, <3>3, LabelKeyInjective, Zenon DEF ProperName
    <3> QED
      BY <3>3, Zenon DEF ToSet
  <2>3. ASSUME NEW id PROVE id \in UNION {keyed(ids) : ids \in days} <=> id \in having(m)
    <3>1. ASSUME id \in UNION {keyed(ids) : ids \in days} PROVE id \in having(m)
      <4>1. PICK ids \in days : id \in keyed(ids)
        BY <3>1, Zenon
      <4>2. id \in UNION days /\ \E i \in DOMAIN names[id] : LabelKey(names[id][i]) = LabelKey(m)
        BY <4>1, Zenon
      <4> QED
        BY <2>2, <4>2, Zenon
    <3>2. ASSUME id \in having(m) PROVE id \in UNION {keyed(ids) : ids \in days}
      <4>1. id \in UNION days /\ \E i \in DOMAIN names[id] : LabelKey(names[id][i]) = LabelKey(m)
        BY <2>2, <3>2, Zenon
      <4>2. PICK ids \in days : id \in ids
        BY <4>1, Zenon
      <4>3. id \in keyed(ids)
        BY <4>1, <4>2, Zenon
      <4> HIDE DEF keyed
      <4> QED
        BY <4>3, Zenon
    <3> QED
      BY <3>1, <3>2, Zenon
  <2> HIDE DEF of, having, keyed
  <2> QED
    BY <2>1, <2>3
<1>2. \A i \in DOMAIN matchers : of(matchers[i]) = having(matchers[i])
  <2> HIDE DEF of, having
  <2>1. \A i \in DOMAIN matchers : matchers[i] \in Labels
    <3> HIDE DEF Labels
    <3>1. matchers \in Seq(Labels)
      BY DEF Labels
    <3> QED
      BY <3>1
  <2> QED
    BY <1>1, <2>1, Zenon
<1>3. 1 \in DOMAIN matchers
  OBVIOUS
<1>4. Match(matchers, indexes)
        = {id \in of(matchers[1]) : \A i \in DOMAIN matchers : id \in of(matchers[i])}
  BY DEF Match
<1> HIDE DEF of, indexes
<1>5. Match(matchers, indexes)
        = {id \in having(matchers[1]) : \A i \in DOMAIN matchers : id \in having(matchers[i])}
  BY <1>2, <1>3, <1>4, Zenon
<1>6. {id \in having(matchers[1]) : \A i \in DOMAIN matchers : id \in having(matchers[i])}
        = {id \in UNION days : ToSet(matchers) \subseteq ToSet(names[id])}
  BY <1>3, Zenon DEF ToSet
<1> QED
  BY <1>5, <1>6, Zenon DEF indexes

-----------------------------------------------------------------------------
(* The order of labels.                                                     *)

Characters == ToSet(Codes)

\* Characters have different codes, from 1.
LEMMA CodesDiffer ==
  /\ \A c \in Characters : Code(c) \in Nat \ {0}
  /\ \A c, d \in Characters : Code(c) = Code(d) => c = d
<1>1. ASSUME NEW c \in Characters PROVE Code(c) \in DOMAIN Codes /\ Codes[Code(c)] = c
  BY Zenon DEF Characters, Code, ToSet
<1>2. DOMAIN Codes \subseteq Nat \ {0}
  <2>1. DOMAIN Codes = 1..11
    BY DEF Codes
  <2> QED
    BY <2>1
<1> QED
  BY <1>1, <1>2, Zenon

\* The code of character i of s, and 0 after the end.
CodeAt(s, i) == IF i \in DOMAIN s THEN Code(s[i]) ELSE 0

\* The first i characters of s and t are the same.
Agree(s, t, i) == \A j \in 1..i : CodeAt(s, j) = CodeAt(t, j)

\* Codes are numbers, and 0 after the end of a string only.
LEMMA CodeAtType ==
  ASSUME NEW s \in Seq(Characters), NEW i \in Nat \ {0}
  PROVE  /\ CodeAt(s, i) \in Nat
         /\ i <= Len(s) => CodeAt(s, i) = Code(s[i]) /\ s[i] \in Characters /\ CodeAt(s, i) # 0
         /\ i > Len(s) => CodeAt(s, i) = 0
<1>1. i <= Len(s) <=> i \in DOMAIN s
  OBVIOUS
<1>2. i <= Len(s) => s[i] \in Characters
  OBVIOUS
<1>3. Len(s) \in Nat
  OBVIOUS
<1>4. CASE i <= Len(s)
  <2>1. CodeAt(s, i) = Code(s[i]) /\ Code(s[i]) \in Nat \ {0}
    BY <1>1, <1>2, <1>4, CodesDiffer, Zenon DEF CodeAt
  <2> QED
    BY <1>2, <1>3, <1>4, <2>1
<1>5. CASE i > Len(s)
  <2>1. CodeAt(s, i) = 0
    BY <1>1, <1>3, <1>5 DEF CodeAt
  <2> QED
    BY <1>3, <1>5, <2>1
<1> QED
  BY <1>3, <1>4, <1>5

\* A string is less at the first character that differs.
LEMMA LessStringAt ==
  ASSUME NEW s \in Seq(Characters), NEW t \in Seq(Characters)
  PROVE  LessString(s, t) <=> \E i \in Nat \ {0} : CodeAt(s, i) < CodeAt(t, i) /\ Agree(s, t, i - 1)
<1>0. Len(s) \in Nat /\ Len(t) \in Nat
  OBVIOUS
<1>1. ASSUME NEW i \in 1..Len(t), i <= Len(s) + 1
      PROVE  SubSeq(s, 1, i - 1) = SubSeq(t, 1, i - 1) <=> Agree(s, t, i - 1)
  <2>1. /\ SubSeq(s, 1, i - 1) = [j \in 1..(i - 1) |-> s[j]]
        /\ SubSeq(t, 1, i - 1) = [j \in 1..(i - 1) |-> t[j]]
    BY <1>0, <1>1
  <2>2. [j \in 1..(i - 1) |-> s[j]] = [j \in 1..(i - 1) |-> t[j]]
          <=> \A j \in 1..(i - 1) : s[j] = t[j]
    OBVIOUS
  <2>3. ASSUME NEW j \in 1..(i - 1) PROVE s[j] = t[j] <=> CodeAt(s, j) = CodeAt(t, j)
    <3>1. j \in Nat \ {0} /\ j <= Len(s) /\ j <= Len(t)
      BY <1>0, <1>1
    <3>2. /\ CodeAt(s, j) = Code(s[j]) /\ CodeAt(t, j) = Code(t[j])
          /\ s[j] \in Characters /\ t[j] \in Characters
      BY <3>1, CodeAtType
    <3> QED
      BY <3>2, CodesDiffer, Zenon
  <2> QED
    BY <2>1, <2>2, <2>3, Zenon DEF Agree
<1>2. ASSUME LessString(s, t)
      PROVE  \E i \in Nat \ {0} : CodeAt(s, i) < CodeAt(t, i) /\ Agree(s, t, i - 1)
  <2>1. PICK i \in 1..Len(t) : /\ i <= Len(s) + 1 /\ SubSeq(s, 1, i - 1) = SubSeq(t, 1, i - 1)
                               /\ i = Len(s) + 1 \/ Code(s[i]) < Code(t[i])
    BY <1>2 DEF LessString
  <2>2. Agree(s, t, i - 1)
    BY <1>1, <2>1
  <2>3. i \in Nat \ {0} /\ i <= Len(t)
    BY <1>0
  <2>4. CodeAt(t, i) \in Nat /\ CodeAt(t, i) # 0 /\ CodeAt(t, i) = Code(t[i])
    BY <2>3, CodeAtType
  <2>5. i > Len(s) => CodeAt(s, i) = 0
    BY <2>3, CodeAtType
  <2>6. i <= Len(s) => CodeAt(s, i) = Code(s[i])
    BY <2>3, CodeAtType
  <2>7. CodeAt(s, i) < CodeAt(t, i)
    BY <1>0, <2>1, <2>3, <2>4, <2>5, <2>6
  <2> QED
    BY <2>2, <2>3, <2>7
<1>3. ASSUME NEW i \in Nat \ {0}, CodeAt(s, i) < CodeAt(t, i), Agree(s, t, i - 1)
      PROVE  LessString(s, t)
  <2>1. /\ CodeAt(s, i) \in Nat /\ CodeAt(t, i) \in Nat
        /\ i > Len(t) => CodeAt(t, i) = 0
        /\ i <= Len(t) => CodeAt(t, i) = Code(t[i])
        /\ i <= Len(s) => CodeAt(s, i) = Code(s[i])
    BY CodeAtType
  <2>2. i <= Len(t)
    BY <1>0, <1>3, <2>1
  <2>3. i <= Len(s) + 1
    <3> SUFFICES ASSUME i > Len(s) + 1 PROVE FALSE
      BY <1>0
    <3> DEFINE j == Len(s) + 1
    <3>1. j \in 1..(i - 1) /\ j \in Nat \ {0} /\ j > Len(s) /\ j <= Len(t)
      BY <1>0, <2>2
    <3> HIDE DEF j
    <3>2. CodeAt(s, j) = 0 /\ CodeAt(t, j) # 0
      BY <3>1, CodeAtType
    <3> QED
      BY <1>3, <3>1, <3>2 DEF Agree
  <2>4. i = Len(s) + 1 \/ Code(s[i]) < Code(t[i])
    BY <1>0, <1>3, <2>1, <2>2, <2>3
  <2>5. i \in 1..Len(t)
    BY <1>0, <2>2
  <2>6. SubSeq(s, 1, i - 1) = SubSeq(t, 1, i - 1)
    BY <1>1, <1>3, <2>3, <2>5
  <2> QED
    BY <2>3, <2>4, <2>5, <2>6 DEF LessString
<1> QED
  BY <1>2, <1>3

\* The order of strings is a strict total order.
LEMMA LessStringAsymmetric ==
  ASSUME NEW s \in Seq(Characters), NEW t \in Seq(Characters), LessString(s, t), LessString(t, s)
  PROVE  FALSE
<1>1. PICK i \in Nat \ {0} : CodeAt(s, i) < CodeAt(t, i) /\ Agree(s, t, i - 1)
  BY LessStringAt
<1>2. PICK k \in Nat \ {0} : CodeAt(t, k) < CodeAt(s, k) /\ Agree(t, s, k - 1)
  BY LessStringAt
<1>3. /\ CodeAt(s, i) \in Nat /\ CodeAt(t, i) \in Nat
      /\ CodeAt(s, k) \in Nat /\ CodeAt(t, k) \in Nat
  BY CodeAtType
<1>4. (i < k => i \in 1..(k - 1)) /\ (k < i => k \in 1..(i - 1))
  OBVIOUS
<1> QED
  BY <1>1, <1>2, <1>3, <1>4 DEF Agree

\* It is transitive.
LEMMA LessStringTransitive ==
  ASSUME NEW s \in Seq(Characters), NEW t \in Seq(Characters), NEW u \in Seq(Characters),
         LessString(s, t), LessString(t, u)
  PROVE  LessString(s, u)
<1>1. PICK i \in Nat \ {0} : CodeAt(s, i) < CodeAt(t, i) /\ Agree(s, t, i - 1)
  BY LessStringAt
<1>2. PICK k \in Nat \ {0} : CodeAt(t, k) < CodeAt(u, k) /\ Agree(t, u, k - 1)
  BY LessStringAt
<1> DEFINE m == IF i <= k THEN i ELSE k
<1>3. m \in Nat \ {0} /\ m <= i /\ m <= k /\ (m = i \/ m = k)
  OBVIOUS
<1> HIDE DEF m
<1>4. CodeAt(s, m) \in Nat /\ CodeAt(t, m) \in Nat /\ CodeAt(u, m) \in Nat
  BY <1>3, CodeAtType
<1>5. Agree(s, u, m - 1)
  <2>1. \A j \in 1..(m - 1) : j \in 1..(i - 1) /\ j \in 1..(k - 1)
    BY <1>3
  <2> QED
    BY <1>1, <1>2, <2>1 DEF Agree
<1>6. (m < i => m \in 1..(i - 1)) /\ (m < k => m \in 1..(k - 1))
  BY <1>3
<1>7. CodeAt(s, m) < CodeAt(u, m)
  BY <1>1, <1>2, <1>3, <1>4, <1>6 DEF Agree
<1> QED
  BY <1>3, <1>5, <1>7, LessStringAt

\* Of two strings one is less.
LEMMA LessStringTotal ==
  ASSUME NEW s \in Seq(Characters), NEW t \in Seq(Characters), s # t
  PROVE  LessString(s, t) \/ LessString(t, s)
<1> DEFINE S == {i \in Nat \ {0} : CodeAt(s, i) # CodeAt(t, i)}
<1>0. Len(s) \in Nat /\ Len(t) \in Nat
  OBVIOUS
<1>1. S # {}
  <2> SUFFICES ASSUME \A i \in Nat \ {0} : CodeAt(s, i) = CodeAt(t, i) PROVE s = t
    OBVIOUS
  <2>1. \A i \in Nat \ {0} : i <= Len(s) <=> i <= Len(t)
    <3> TAKE i \in Nat \ {0}
    <3>1. /\ i <= Len(s) => CodeAt(s, i) # 0
          /\ i > Len(s) => CodeAt(s, i) = 0
          /\ i <= Len(t) => CodeAt(t, i) # 0
          /\ i > Len(t) => CodeAt(t, i) = 0
      BY CodeAtType
    <3> QED
      BY <1>0, <3>1
  <2>2. Len(s) = Len(t)
    <3>1. Len(s) > 0 => Len(s) <= Len(t)
      BY <1>0, <2>1
    <3>2. Len(t) > 0 => Len(t) <= Len(s)
      BY <1>0, <2>1
    <3> QED
      BY <1>0, <3>1, <3>2
  <2>3. ASSUME NEW i \in 1..Len(s) PROVE s[i] = t[i]
    <3>1. i \in Nat \ {0} /\ i <= Len(s) /\ i <= Len(t)
      BY <1>0, <2>2
    <3>2. /\ CodeAt(s, i) = Code(s[i]) /\ CodeAt(t, i) = Code(t[i])
          /\ s[i] \in Characters /\ t[i] \in Characters
      BY <3>1, CodeAtType
    <3> QED
      BY <3>1, <3>2, CodesDiffer, Zenon
  <2> QED
    BY <2>2, <2>3
<1>2. PICK i \in S : \A j \in S : i <= j
  <2>1. S \in SUBSET Nat
    OBVIOUS
  <2> HIDE DEF S
  <2> QED
    BY <1>1, <2>1, LeastNat
<1>3. Agree(s, t, i - 1) /\ Agree(t, s, i - 1)
  <2>1. ASSUME NEW j \in 1..(i - 1) PROVE j \in Nat \ {0} /\ j \notin S
    BY <1>2
  <2> QED
    BY <2>1 DEF Agree
<1>4. CodeAt(s, i) \in Nat /\ CodeAt(t, i) \in Nat /\ CodeAt(s, i) # CodeAt(t, i) /\ i \in Nat \ {0}
  BY <1>2, CodeAtType
<1>5. CodeAt(s, i) < CodeAt(t, i) \/ CodeAt(t, i) < CodeAt(s, i)
  BY <1>4
<1> QED
  BY <1>3, <1>4, <1>5, LessStringAt

AnyLabel == [name : Seq(Characters), value : Seq(Characters)]

\* The order of labels is a strict total order too.
LEMMA LessLabelOrder ==
  /\ \A a, b \in AnyLabel : LessLabel(a, b) => ~LessLabel(b, a)
  /\ \A a, b, c \in AnyLabel : LessLabel(a, b) /\ LessLabel(b, c) => LessLabel(a, c)
  /\ \A a, b \in AnyLabel : a # b => LessLabel(a, b) \/ LessLabel(b, a)
<1>1. \A a \in AnyLabel : a.name \in Seq(Characters) /\ a.value \in Seq(Characters)
  BY DEF AnyLabel
<1>2. ASSUME NEW a \in AnyLabel, NEW b \in AnyLabel, LessLabel(a, b) PROVE ~LessLabel(b, a)
  <2>1. ~(LessString(a.name, b.name) /\ LessString(b.name, a.name))
    BY <1>1, LessStringAsymmetric, Zenon
  <2>2. ~(LessString(a.value, b.value) /\ LessString(b.value, a.value))
    BY <1>1, LessStringAsymmetric, Zenon
  <2>3. a.name = b.name => ~LessString(a.name, b.name) /\ ~LessString(b.name, a.name)
    BY <1>1, LessStringAsymmetric, Zenon
  <2> QED
    BY <1>2, <2>1, <2>2, <2>3 DEF LessLabel
<1>3. ASSUME NEW a \in AnyLabel, NEW b \in AnyLabel, NEW c \in AnyLabel,
             LessLabel(a, b), LessLabel(b, c)
      PROVE  LessLabel(a, c)
  <2>1. LessString(a.name, b.name) /\ LessString(b.name, c.name) => LessString(a.name, c.name)
    BY <1>1, LessStringTransitive, Zenon
  <2>2. LessString(a.value, b.value) /\ LessString(b.value, c.value) => LessString(a.value, c.value)
    BY <1>1, LessStringTransitive, Zenon
  <2> QED
    BY <1>3, <2>1, <2>2, Zenon DEF LessLabel
<1>4. ASSUME NEW a \in AnyLabel, NEW b \in AnyLabel, a # b PROVE LessLabel(a, b) \/ LessLabel(b, a)
  <2>1. a.name # b.name => LessString(a.name, b.name) \/ LessString(b.name, a.name)
    BY <1>1, LessStringTotal, Zenon
  <2>2. a.value # b.value => LessString(a.value, b.value) \/ LessString(b.value, a.value)
    BY <1>1, LessStringTotal, Zenon
  <2>3. a.name # b.name \/ a.value # b.value
    BY <1>4 DEF AnyLabel
  <2> QED
    BY <2>1, <2>2, <2>3, Zenon DEF LessLabel
<1> QED
  BY <1>2, <1>3, <1>4

-----------------------------------------------------------------------------
(* Sorting.                                                                 *)

\* One label more: it is inserted after all that it is not less than.
LEMMA Insertion ==
  ASSUME NEW n \in Nat, NEW s \in [1..(n + 1) -> AnyLabel],
         NEW p \in Bijection(1..n, 1..n),
         \A i, j \in 1..n : i < j => ~LessLabel(s[p[j]], s[p[i]])
  PROVE  \E q \in Bijection(1..(n + 1), 1..(n + 1)) :
           \A i, j \in 1..(n + 1) : i < j => ~LessLabel(s[q[j]], s[q[i]])
<1> DEFINE x == s[n + 1]
           S == {i \in 1..n : LessLabel(x, s[p[i]])} \cup {n + 1}
<1>1. PICK k \in S : \A j \in S : k <= j
  <2>1. S \in SUBSET Nat /\ n + 1 \in S
    OBVIOUS
  <2> HIDE DEF S
  <2> QED
    BY <2>1, LeastNat
<1>2. k \in 1..(n + 1)
  BY <1>1
<1>3. /\ \A i \in 1..n : p[i] \in 1..n
      /\ \A i, j \in 1..n : p[i] = p[j] => i = j
      /\ \A j \in 1..n : \E i \in 1..n : p[i] = j
  BY DEF Bijection, Injection, Surjection, IsInjective
<1> DEFINE q == [i \in 1..(n + 1) |-> IF i < k THEN p[i] ELSE IF i = k THEN n + 1 ELSE p[i - 1]]
<1>4. \A i \in 1..(n + 1) : /\ i < k => i \in 1..n /\ q[i] = p[i]
                            /\ i = k => q[i] = n + 1
                            /\ i > k => i - 1 \in 1..n /\ q[i] = p[i - 1]
  BY <1>2
<1>5. q \in [1..(n + 1) -> 1..(n + 1)]
  <2>1. 1..n \subseteq 1..(n + 1) /\ n + 1 \in 1..(n + 1)
    OBVIOUS
  <2>2. ASSUME NEW i \in 1..(n + 1) PROVE q[i] \in 1..(n + 1)
    <3>1. i < k \/ i = k \/ i > k
      BY <1>2
    <3> HIDE DEF q
    <3> QED
      BY <1>3, <1>4, <2>1, <3>1, Zenon
  <2>3. q = [i \in 1..(n + 1) |-> q[i]]
    OBVIOUS
  <2> HIDE DEF q
  <2> QED
    BY <2>2, <2>3
<1> HIDE DEF q
<1>6. \A i, j \in 1..(n + 1) : q[i] = q[j] => i = j
  <2> TAKE i, j \in 1..(n + 1)
  <2>1. i < k \/ i = k \/ i > k
    BY <1>2
  <2>2. j < k \/ j = k \/ j > k
    BY <1>2
  <2>3. q[i] = n + 1 <=> i = k
    <3>1. i # k => q[i] \in 1..n
      BY <1>3, <1>4, <2>1, Zenon
    <3>2. n + 1 \notin 1..n
      OBVIOUS
    <3> QED
      BY <1>4, <3>1, <3>2, Zenon
  <2>4. q[j] = n + 1 <=> j = k
    <3>1. j # k => q[j] \in 1..n
      BY <1>3, <1>4, <2>2, Zenon
    <3>2. n + 1 \notin 1..n
      OBVIOUS
    <3> QED
      BY <1>4, <3>1, <3>2, Zenon
  <2> DEFINE a == IF i < k THEN i ELSE i - 1
             b == IF j < k THEN j ELSE j - 1
  <2> SUFFICES ASSUME q[i] = q[j], i # k, j # k PROVE i = j
    BY <2>3, <2>4, Zenon
  <2>5. a \in 1..n /\ q[i] = p[a]
    BY <1>2, <1>4, <2>1
  <2>6. b \in 1..n /\ q[j] = p[b]
    BY <1>2, <1>4, <2>2
  <2>7. a = b
    <3> HIDE DEF a, b
    <3> QED
      BY <1>3, <2>5, <2>6
  <2> QED
    BY <1>2, <2>7
<1>7. \A j \in 1..(n + 1) : \E i \in 1..(n + 1) : q[i] = j
  <2> TAKE j \in 1..(n + 1)
  <2>1. CASE j = n + 1
    BY <1>2, <1>4, <2>1
  <2>2. CASE j \in 1..n
    <3>1. PICK i \in 1..n : p[i] = j
      BY <1>3, <2>2
    <3>2. CASE i < k
      <4>1. i \in 1..(n + 1)
        OBVIOUS
      <4> QED
        BY <1>4, <3>1, <3>2, <4>1
    <3>3. CASE i >= k
      <4>1. i + 1 \in 1..(n + 1) /\ i + 1 > k /\ (i + 1) - 1 = i
        BY <1>2, <3>3
      <4>2. q[i + 1] = j
        BY <1>4, <3>1, <4>1
      <4> QED
        BY <4>1, <4>2
    <3> QED
      BY <1>2, <3>2, <3>3
  <2> QED
    BY <2>1, <2>2
<1>8. q \in Bijection(1..(n + 1), 1..(n + 1))
  BY <1>5, <1>6, <1>7 DEF Bijection, Injection, Surjection, IsInjective
<1>9. \A i \in 1..n : i < k => ~LessLabel(x, s[p[i]])
  BY <1>1, <1>2
<1>10. \A i \in 1..n : i >= k => ~LessLabel(s[p[i]], x)
  <2> SUFFICES ASSUME NEW i \in 1..n, i >= k, LessLabel(s[p[i]], x) PROVE FALSE
    OBVIOUS
  <2>1. k \in 1..n /\ LessLabel(x, s[p[k]])
    BY <1>1, <1>2
  <2>2. x \in AnyLabel /\ s[p[i]] \in AnyLabel /\ s[p[k]] \in AnyLabel
    <3>1. n + 1 \in 1..(n + 1) /\ p[i] \in 1..(n + 1) /\ p[k] \in 1..(n + 1)
      <4>1. p[i] \in 1..n /\ p[k] \in 1..n
        BY <1>3, <2>1, Zenon
      <4> QED
        BY <4>1
    <3> QED
      BY <3>1, Zenon
  <2>3. LessLabel(s[p[i]], s[p[k]])
    BY <2>1, <2>2, LessLabelOrder
  <2>4. ~LessLabel(s[p[k]], s[p[i]])
    BY <2>2, <2>3, LessLabelOrder
  <2>5. i # k
    BY <2>3, <2>4
  <2>6. k < i
    BY <2>1, <2>5
  <2> QED
    BY <2>1, <2>3, <2>6
<1>11. \A i, j \in 1..(n + 1) : i < j => ~LessLabel(s[q[j]], s[q[i]])
  <2> SUFFICES ASSUME NEW i \in 1..(n + 1), NEW j \in 1..(n + 1), i < j
               PROVE  ~LessLabel(s[q[j]], s[q[i]])
    OBVIOUS
  <2>1. CASE j < k
    BY <1>2, <1>4, <2>1
  <2>2. CASE j = k
    <3>1. i < k /\ i \in 1..n /\ q[i] = p[i] /\ q[j] = n + 1
      BY <1>2, <1>4, <2>2
    <3> QED
      BY <1>9, <3>1
  <2>3. CASE j > k /\ i = k
    <3>1. j - 1 \in 1..n /\ j - 1 >= k /\ q[j] = p[j - 1] /\ q[i] = n + 1
      BY <1>2, <1>4, <2>3
    <3> QED
      BY <1>10, <3>1
  <2>4. CASE j > k /\ i < k
    <3>1. j - 1 \in 1..n /\ i \in 1..n /\ i < j - 1 /\ q[j] = p[j - 1] /\ q[i] = p[i]
      BY <1>2, <1>4, <2>4
    <3> QED
      BY <3>1
  <2>5. CASE j > k /\ i > k
    <3>1. j - 1 \in 1..n /\ i - 1 \in 1..n /\ i - 1 < j - 1 /\ q[j] = p[j - 1] /\ q[i] = p[i - 1]
      BY <1>2, <1>4, <2>5
    <3> QED
      BY <3>1
  <2> QED
    BY <1>2, <2>1, <2>2, <2>3, <2>4, <2>5
<1> QED
  BY <1>8, <1>11

\* Every label set can be sorted.
LEMMA CanBeSorted ==
  \A n \in Nat : \A s \in [1..n -> AnyLabel] :
    \E p \in Bijection(1..n, 1..n) : \A i, j \in 1..n : i < j => ~LessLabel(s[p[j]], s[p[i]])
<1> DEFINE Sortable(n) == \A s \in [1..n -> AnyLabel] :
             \E p \in Bijection(1..n, 1..n) : \A i, j \in 1..n : i < j => ~LessLabel(s[p[j]], s[p[i]])
           S == {n \in Nat : ~Sortable(n)}
<1> SUFFICES ASSUME S # {} PROVE FALSE
  BY Zenon
<1>1. PICK n \in S : \A m \in S : n <= m
  <2>1. S \in SUBSET Nat
    OBVIOUS
  <2> HIDE DEF S
  <2> QED
    BY <2>1, LeastNat
<1>2. n \in Nat /\ ~Sortable(n)
  BY <1>1
<1>3. n # 0
  <2> SUFFICES ASSUME n = 0, NEW s \in [1..n -> AnyLabel]
               PROVE  \E p \in Bijection(1..n, 1..n) :
                        \A i, j \in 1..n : i < j => ~LessLabel(s[p[j]], s[p[i]])
    BY <1>2, Zenon
  <2>1. 1..n = {}
    OBVIOUS
  <2> DEFINE p == [i \in {} |-> i]
  <2>2. p \in Bijection(1..n, 1..n)
    BY <2>1 DEF Bijection, Injection, Surjection, IsInjective
  <2> QED
    BY <2>1, <2>2, Zenon
<1>4. n - 1 \in Nat /\ (n - 1) + 1 = n
  BY <1>2, <1>3
<1>5. Sortable(n - 1)
  <2> HIDE DEF Sortable
  <2>1. n - 1 \notin S
    BY <1>1, <1>4
  <2> QED
    BY <1>4, <2>1
<1>6. Sortable(n)
  <2> SUFFICES ASSUME NEW s \in [1..n -> AnyLabel]
               PROVE  \E p \in Bijection(1..n, 1..n) :
                        \A i, j \in 1..n : i < j => ~LessLabel(s[p[j]], s[p[i]])
    BY Zenon
  <2> DEFINE m == n - 1
             t == [i \in 1..m |-> s[i]]
  <2>1. m \in Nat /\ m + 1 = n /\ 1..m \subseteq 1..n
    BY <1>2, <1>4
  <2> HIDE DEF m
  <2>2. t \in [1..m -> AnyLabel]
    BY <2>1
  <2>3. PICK p \in Bijection(1..m, 1..m) : \A i, j \in 1..m : i < j => ~LessLabel(t[p[j]], t[p[i]])
    <3> HIDE DEF t
    <3> QED
      BY <1>5, <2>2, Zenon DEF m
  <2>4. \A i \in 1..m : p[i] \in 1..m
    BY DEF Bijection, Injection
  <2>5. \A i, j \in 1..m : i < j => ~LessLabel(s[p[j]], s[p[i]])
    <3>1. \A i \in 1..m : t[p[i]] = s[p[i]]
      BY <2>4
    <3> HIDE DEF t
    <3> QED
      BY <2>3, <3>1, Zenon
  <2>6. s \in [1..(m + 1) -> AnyLabel]
    BY <2>1
  <2>7. \E q \in Bijection(1..(m + 1), 1..(m + 1)) :
          \A i, j \in 1..(m + 1) : i < j => ~LessLabel(s[q[j]], s[q[i]])
    BY <2>1, <2>5, <2>6, Insertion
  <2> QED
    BY <2>1, <2>7
<1> QED
  BY <1>2, <1>6, Zenon

\* s in order.
Ordered(s, n) == \A i, j \in 1..n : i < j => ~LessLabel(s[j], s[i])

\* Where s, of length n, holds x.
PlacesOf(s, n, x) == {i \in 1..n : s[i] = x}

\* sortedLabels gives the same labels, in order.
LEMMA SortedLabelsSorts ==
  ASSUME NEW L \in SUBSET AnyLabel, NEW s \in Seq(L)
  PROVE  /\ SortedLabels(s) \in [1..Len(s) -> L]
         /\ Ordered(SortedLabels(s), Len(s))
         /\ \A x : Cardinality(PlacesOf(SortedLabels(s), Len(s), x))
                     = Cardinality(PlacesOf(s, Len(s), x))
<1> DEFINE n == Len(s)
           p == CHOOSE q \in Bijection(1..n, 1..n) : InOrder(s, q)
           u == SortedLabels(s)
<1>1. n \in Nat /\ s \in [1..n -> AnyLabel] /\ s \in [1..n -> L] /\ DOMAIN s = 1..n
  OBVIOUS
<1>2. p \in Bijection(1..n, 1..n) /\ InOrder(s, p)
  <2>1. \E q \in Bijection(1..n, 1..n) : \A i, j \in 1..n : i < j => ~LessLabel(s[q[j]], s[q[i]])
    <3> HIDE DEF n
    <3> QED
      BY <1>1, CanBeSorted, Zenon
  <2>2. \E q \in Bijection(1..n, 1..n) : InOrder(s, q)
    <3> HIDE DEF n
    <3> QED
      BY <1>1, <2>1 DEF InOrder
  <2> QED
    BY <2>2, Zenon
<1>3. u = [i \in 1..n |-> s[p[i]]]
  BY DEF SortedLabels
<1> HIDE DEF p, u, n
<1>4. /\ \A i \in 1..n : p[i] \in 1..n
      /\ \A i, j \in 1..n : p[i] = p[j] => i = j
      /\ \A j \in 1..n : \E i \in 1..n : p[i] = j
  BY <1>2 DEF Bijection, Injection, Surjection, IsInjective
<1>5. u \in [1..n -> L] /\ \A i \in 1..n : u[i] = s[p[i]]
  BY <1>1, <1>3, <1>4
<1>6. Ordered(u, n)
  BY <1>1, <1>2, <1>5 DEF Ordered, InOrder
<1>7. ASSUME NEW x PROVE Cardinality(PlacesOf(u, n, x)) = Cardinality(PlacesOf(s, n, x))
  <2> DEFINE U == PlacesOf(u, n, x)
             T == PlacesOf(s, n, x)
             f == [i \in U |-> p[i]]
  <2>1. \A i \in U : i \in 1..n /\ p[i] \in T
    BY <1>4, <1>5 DEF PlacesOf
  <2>2. ASSUME NEW j \in T PROVE \E i \in U : p[i] = j
    <3>1. j \in 1..n /\ s[j] = x
      BY DEF PlacesOf
    <3>2. PICK i \in 1..n : p[i] = j
      BY <1>4, <3>1
    <3>3. i \in U
      BY <1>5, <3>1, <3>2 DEF PlacesOf
    <3> QED
      BY <3>2, <3>3
  <2>3. f \in Bijection(U, T)
    <3> HIDE DEF U, T
    <3> QED
      BY <1>4, <2>1, <2>2 DEF Bijection, Injection, Surjection, IsInjective
  <2>4. IsFiniteSet(U)
    <3>1. U \subseteq 1..n
      BY DEF PlacesOf
    <3>2. IsFiniteSet(1..n)
      BY <1>1, FS_Interval
    <3> QED
      BY <3>1, <3>2, FS_Subset
  <2> HIDE DEF U, T, f
  <2>5. Cardinality(T) = Cardinality(U)
    BY <2>3, <2>4, FS_Bijection DEF ExistsBijection
  <2> QED
    BY <2>5 DEF U, T
<1> QED
  BY <1>5, <1>6, <1>7 DEF u, n

\* Where two sorted label sets begin to differ, the lesser one has more of its
\* label.
LEMMA FirstDifference ==
  ASSUME NEW n \in Nat, NEW u \in [1..n -> AnyLabel], NEW v \in [1..n -> AnyLabel],
         Ordered(v, n), NEW k \in 1..n, \A i \in 1..(k - 1) : u[i] = v[i], LessLabel(u[k], v[k])
  PROVE  Cardinality(PlacesOf(v, n, u[k])) # Cardinality(PlacesOf(u, n, u[k]))
<1> DEFINE x == u[k]
           U == PlacesOf(u, n, x)
           V == PlacesOf(v, n, x)
<1>1. u[k] \in AnyLabel /\ v[k] \in AnyLabel /\ u[k] # v[k]
  <2>1. u[k] \in AnyLabel /\ v[k] \in AnyLabel
    OBVIOUS
  <2> QED
    BY <2>1, LessLabelOrder
<1>2. V \subseteq U
  <2> SUFFICES ASSUME NEW i \in 1..n, v[i] = x PROVE u[i] = x
    BY DEF PlacesOf
  <2>1. i < k => i \in 1..(k - 1)
    OBVIOUS
  <2>2. ~(i > k)
    BY DEF Ordered
  <2>3. i # k
    BY <1>1
  <2>4. i < k
    BY <2>2, <2>3
  <2> QED
    BY <2>1, <2>4
<1>3. k \in U /\ k \notin V
  BY <1>1 DEF PlacesOf
<1>4. IsFiniteSet(U)
  <2>1. U \subseteq 1..n
    BY DEF PlacesOf
  <2>2. IsFiniteSet(1..n)
    BY FS_Interval
  <2> QED
    BY <2>1, <2>2, FS_Subset
<1> HIDE DEF U, V
<1>5. Cardinality(V) # Cardinality(U)
  <2>1. /\ Cardinality(V) \in Nat /\ Cardinality(U) \in Nat
        /\ Cardinality(V) = Cardinality(U) => V = U
    <3>1. IsFiniteSet(V)
      BY <1>2, <1>4, FS_Subset
    <3> QED
      BY <1>2, <1>4, <3>1, FS_Subset, FS_CardinalityType
  <2> QED
    BY <1>3, <2>1
<1> QED
  BY <1>5 DEF U, V, x

\* A sorted label set is known by how often it has each label.
LEMMA SortedUnique ==
  ASSUME NEW n \in Nat, NEW u \in [1..n -> AnyLabel], NEW v \in [1..n -> AnyLabel],
         Ordered(u, n), Ordered(v, n),
         \A i \in 1..n : Cardinality(PlacesOf(u, n, u[i])) = Cardinality(PlacesOf(v, n, u[i])),
         \A i \in 1..n : Cardinality(PlacesOf(u, n, v[i])) = Cardinality(PlacesOf(v, n, v[i]))
  PROVE  u = v
<1> DEFINE S == {i \in 1..n : u[i] # v[i]}
<1> SUFFICES ASSUME S # {} PROVE FALSE
  <2>1. S = {} => \A i \in 1..n : u[i] = v[i]
    OBVIOUS
  <2> QED
    BY <2>1
<1>1. PICK k \in S : \A j \in S : k <= j
  <2>1. S \in SUBSET Nat
    OBVIOUS
  <2> HIDE DEF S
  <2> QED
    BY <2>1, LeastNat
<1>2. k \in 1..n /\ u[k] # v[k] /\ \A i \in 1..(k - 1) : u[i] = v[i]
  BY <1>1
<1> HIDE DEF S
<1>3. LessLabel(u[k], v[k]) \/ LessLabel(v[k], u[k])
  <2>1. u[k] \in AnyLabel /\ v[k] \in AnyLabel
    BY <1>2
  <2> QED
    BY <1>2, <2>1, LessLabelOrder, Zenon
<1>4. CASE LessLabel(u[k], v[k])
  BY <1>2, <1>4, FirstDifference
<1>5. CASE LessLabel(v[k], u[k])
  <2>1. \A i \in 1..(k - 1) : v[i] = u[i]
    BY <1>2
  <2> QED
    BY <1>2, <1>5, <2>1, FirstDifference
<1> QED
  BY <1>3, <1>4, <1>5

-----------------------------------------------------------------------------
(* Joining.                                                                 *)

\* f joins the words of w one after the other.
Joins(f, w, n) == f = [i \in 1..n |-> IF i = 1 THEN w[i] ELSE f[i - 1] \o w[i]]

\* There is such a function for all words.
LEMMA JoinsExists ==
  ASSUME NEW D, NEW w \in Seq(Seq(D))
  PROVE  \A n \in 1..Len(w) : \E f \in [1..n -> Seq(D)] : Joins(f, w, n)
<1> DEFINE S == {n \in 1..Len(w) : ~\E f \in [1..n -> Seq(D)] : Joins(f, w, n)}
<1>0. Len(w) \in Nat /\ \A i \in 1..Len(w) : w[i] \in Seq(D)
  OBVIOUS
<1> SUFFICES ASSUME S # {} PROVE FALSE
  BY Zenon
<1>1. PICK n \in S : \A m \in S : n <= m
  <2>1. S \in SUBSET Nat
    BY <1>0
  <2> HIDE DEF S
  <2> QED
    BY <2>1, LeastNat
<1>2. n \in 1..Len(w) /\ ~\E f \in [1..n -> Seq(D)] : Joins(f, w, n)
  BY <1>1, Zenon
<1>3. n # 1
  <2> SUFFICES ASSUME n = 1 PROVE FALSE
    OBVIOUS
  <2> DEFINE f == [i \in 1..1 |-> w[i]]
  <2>1. f \in [1..1 -> Seq(D)]
    BY <1>0, <1>2
  <2>2. Joins(f, w, 1)
    BY DEF Joins
  <2> QED
    BY <1>2, <2>1, <2>2, Zenon
<1> DEFINE m == n - 1
<1>4. m \in 1..Len(w) /\ m < n /\ m + 1 = n /\ 1..n = 1..m \cup {n}
  BY <1>0, <1>2, <1>3
<1>5. m \notin S
  <2> HIDE DEF S
  <2> SUFFICES ASSUME m \in S PROVE FALSE
    OBVIOUS
  <2>1. n <= m
    BY <1>1
  <2> QED
    BY <1>0, <1>2, <1>4, <2>1
<1>6. PICK f \in [1..m -> Seq(D)] : Joins(f, w, m)
  <2> HIDE DEF m
  <2> QED
    BY <1>4, <1>5, Zenon
<1> HIDE DEF S, m
<1> DEFINE g == [i \in 1..n |-> IF i = n THEN f[m] \o w[n] ELSE f[i]]
<1>7. f[m] \in Seq(D) /\ w[n] \in Seq(D) /\ f[m] \o w[n] \in Seq(D)
  <2>1. m \in 1..m
    BY <1>4
  <2>2. f[m] \in Seq(D) /\ w[n] \in Seq(D)
    BY <1>0, <1>2, <2>1
  <2> QED
    BY <2>2, ConcatParts, Zenon
<1>8. g \in [1..n -> Seq(D)]
  BY <1>4, <1>7
<1>9. /\ g[n] = f[m] \o w[n]
      /\ \A i \in 1..m : g[i] = f[i] /\ i \in 1..n /\ i # n
  BY <1>2, <1>4
<1>10. \A i \in 1..m : f[i] = IF i = 1 THEN w[i] ELSE f[i - 1] \o w[i]
  BY <1>6, Zenon DEF Joins
<1>11. ASSUME NEW i \in 1..n PROVE g[i] = IF i = 1 THEN w[i] ELSE g[i - 1] \o w[i]
  <2>1. CASE i = n
    <3>1. i - 1 = m /\ m \in 1..m /\ i # 1
      BY <1>3, <1>4, <2>1
    <3> HIDE DEF g
    <3> QED
      BY <1>9, <2>1, <3>1
  <2>2. CASE i # n
    <3>1. i \in 1..m /\ (i # 1 => i - 1 \in 1..m)
      BY <1>4, <2>2
    <3>2. g[i] = f[i] /\ (i # 1 => g[i - 1] = f[i - 1])
      BY <1>9, <3>1, Zenon
    <3> HIDE DEF g
    <3> QED
      BY <1>10, <3>1, <3>2
  <2> QED
    BY <2>1, <2>2
<1>12. Joins(g, w, n)
  <2>1. g = [i \in 1..n |-> g[i]]
    OBVIOUS
  <2> HIDE DEF g
  <2>2. [i \in 1..n |-> g[i]] = [i \in 1..n |-> IF i = 1 THEN w[i] ELSE g[i - 1] \o w[i]]
    BY <1>11, Zenon
  <2> QED
    BY <2>1, <2>2 DEF Joins
<1> QED
  BY <1>2, <1>8, <1>12, Zenon

\* The first n words are the same.
SameWords(w, v, n) == \A i \in 1..n : w[i] = v[i]

\* There is only one.
LEMMA JoinsUnique ==
  ASSUME NEW w, NEW v, NEW n \in Nat, NEW m \in Nat, m <= n, NEW f, NEW g,
         Joins(f, w, n), Joins(g, v, m), SameWords(w, v, m)
  PROVE  \A i \in 1..m : f[i] = g[i]
<1> DEFINE S == {i \in 1..m : f[i] # g[i]}
<1> SUFFICES ASSUME S # {} PROVE FALSE
  BY Zenon
<1>1. PICK i \in S : \A j \in S : i <= j
  <2>1. S \in SUBSET Nat
    OBVIOUS
  <2> HIDE DEF S
  <2> QED
    BY <2>1, LeastNat
<1>2. i \in 1..m /\ i \in 1..n /\ f[i] # g[i]
  BY <1>1
<1>3. f[i] = IF i = 1 THEN w[i] ELSE f[i - 1] \o w[i]
  BY <1>2, Zenon DEF Joins
<1>4. g[i] = IF i = 1 THEN v[i] ELSE g[i - 1] \o v[i]
  BY <1>2, Zenon DEF Joins
<1>5. i # 1 => i - 1 \in 1..m /\ i - 1 \notin S
  BY <1>1
<1> QED
  BY <1>2, <1>3, <1>4, <1>5, Zenon DEF SameWords

\* FlattenSeq adds the last word.
LEMMA FlattenLast ==
  ASSUME NEW D, NEW w \in Seq(Seq(D)), NEW v \in Seq(Seq(D)),
         Len(w) = Len(v) + 1, \A i \in 1..Len(v) : w[i] = v[i]
  PROVE  FlattenSeq(w) = FlattenSeq(v) \o w[Len(w)] /\ FlattenSeq(v) \in Seq(D)
<1> DEFINE n == Len(w)
           m == Len(v)
           F == CHOOSE f : Joins(f, w, n)
           G == CHOOSE g : Joins(g, v, m)
<1>1. m \in Nat /\ n \in Nat /\ n = m + 1 /\ n \in 1..n /\ n # 0 /\ w[n] \in Seq(D)
  OBVIOUS
<1>2. Joins(F, w, n)
  <2>1. \E f : Joins(f, w, n)
    BY <1>1, JoinsExists, Zenon
  <2> QED
    BY <2>1, Zenon
<1>3. FlattenSeq(w) = F[n]
  BY <1>1, Zenon DEF FlattenSeq, Joins
<1>4. F[n] = IF n = 1 THEN w[n] ELSE F[n - 1] \o w[n]
  <2> HIDE DEF F, n
  <2> QED
    BY <1>1, <1>2, Zenon DEF Joins
<1>5. CASE m = 0
  <2>1. FlattenSeq(v) = v /\ v = <<>>
    <3>1. FlattenSeq(v) = v
      BY <1>5, Zenon DEF FlattenSeq
    <3> QED
      BY <1>5, <3>1
  <2>2. <<>> \o w[n] = w[n] /\ <<>> \in Seq(D)
    <3> HIDE DEF n
    <3> QED
      BY <1>1, ConcatEmptySeq
  <2> HIDE DEF F
  <2> QED
    BY <1>1, <1>3, <1>4, <1>5, <2>1, <2>2
<1>6. CASE m # 0
  <2>1. m \in 1..m /\ m <= n /\ n - 1 = m /\ n # 1
    BY <1>1, <1>6
  <2>2. PICK h \in [1..m -> Seq(D)] : Joins(h, v, m)
    <3> HIDE DEF m
    <3> QED
      BY <2>1, JoinsExists, Zenon DEF m
  <2>3. Joins(G, v, m)
    BY <2>2, Zenon
  <2>4. FlattenSeq(v) = G[m]
    BY <1>6, Zenon DEF FlattenSeq, Joins
  <2> HIDE DEF F, G
  <2>5. F[m] = G[m]
    <3>1. SameWords(w, v, m)
      BY DEF SameWords
    <3> HIDE DEF m, n
    <3>2. \A i \in 1..m : F[i] = G[i]
      BY <1>1, <1>2, <2>1, <2>3, <3>1, JoinsUnique
    <3> QED
      BY <2>1, <3>2, Zenon
  <2>6. h[m] = G[m] /\ h[m] \in Seq(D)
    <3>1. h[m] = G[m]
      <4>1. SameWords(v, v, m)
        BY DEF SameWords
      <4> QED
        BY <1>1, <2>1, <2>2, <2>3, <4>1, JoinsUnique
    <3> QED
      BY <2>1, <2>2, <3>1
  <2> QED
    BY <1>3, <1>4, <2>1, <2>4, <2>5, <2>6
<1> QED
  BY <1>5, <1>6

\* Labels without separators, and the characters of their keys.
PlainLabel == [name : Text, value : Text]
KeyChars == ToSet(Codes) \ {NameValueSep, LabelPairSep}
JoinedChars == KeyChars \cup {NameValueSep} \cup {LabelPairSep}

\* A label as it is written into a key.
Word(l) == LabelKey(l) \o <<LabelPairSep>>

\* The words of u, joined.
Joined(u) == FlattenSeq([i \in DOMAIN u |-> Word(u[i])])

\* All but the last label of u.
AllButLast(u) == [i \in 1..(Len(u) - 1) |-> u[i]]

\* A word ends with its only separator of labels.
LEMMA WordParts ==
  ASSUME NEW l \in PlainLabel
  PROVE  /\ Word(l) \in Seq(JoinedChars) /\ Len(Word(l)) = Len(LabelKey(l)) + 1
         /\ LabelKey(l) \in Seq(KeyChars \cup {NameValueSep})
         /\ \A i \in 1..Len(LabelKey(l)) : Word(l)[i] = LabelKey(l)[i] /\ Word(l)[i] # LabelPairSep
         /\ Word(l)[Len(LabelKey(l)) + 1] = LabelPairSep
<1> DEFINE k == LabelKey(l)
           s == <<LabelPairSep>>
           c == k \o s
<1>1. k \in Seq(KeyChars \cup {NameValueSep})
  <2>1. l \in [name : Seq(KeyChars), value : Seq(KeyChars)]
    BY DEF PlainLabel, Text, KeyChars, NameValueSep, LabelPairSep
  <2> QED
    BY <2>1, LabelKeyParts
<1>2. LabelPairSep \notin KeyChars \cup {NameValueSep}
  <2>1. LabelPairSep \notin KeyChars
    BY DEF KeyChars
  <2>2. LabelPairSep # NameValueSep
    BY DEF LabelPairSep, NameValueSep
  <2> QED
    BY <2>1, <2>2
<1>3. k \in Seq(JoinedChars) /\ s \in Seq(JoinedChars) /\ Len(s) = 1 /\ s[1] = LabelPairSep
  <2> HIDE DEF k
  <2>1. k \in Seq(JoinedChars)
    BY <1>1 DEF JoinedChars
  <2>2. LabelPairSep \in JoinedChars
    BY DEF JoinedChars
  <2> QED
    BY <2>1, <2>2
<1>4. Word(l) = c
  BY DEF Word
<1> HIDE DEF k, s
<1>5. c \in Seq(JoinedChars) /\ Len(c) = Len(k) + 1
  <2>1. c \in Seq(JoinedChars) /\ Len(c) = Len(k) + Len(s)
    BY <1>3, ConcatParts
  <2> QED
    BY <1>3, <2>1
<1>6. \A i \in 1..Len(k) : c[i] = k[i]
  <2>1. k \in Seq(JoinedChars) /\ s \in Seq(JoinedChars)
    BY <1>3
  <2> QED
    BY <2>1, ConcatParts, Zenon
<1>7. c[Len(k) + 1] = LabelPairSep
  <2>1. k \in Seq(JoinedChars) /\ s \in Seq(JoinedChars)
    BY <1>3
  <2>2. \A i \in 1..Len(s) : c[Len(k) + i] = s[i]
    BY <2>1, ConcatParts
  <2>3. 1 \in 1..Len(s)
    BY <1>3
  <2> QED
    BY <1>3, <2>2, <2>3, Zenon
<1>8. \A i \in 1..Len(k) : k[i] # LabelPairSep
  <2>1. \A i \in 1..Len(k) : k[i] \in KeyChars \cup {NameValueSep}
    BY <1>1
  <2> QED
    BY <1>2, <2>1, Zenon
<1> HIDE DEF c
<1>9. \A i \in 1..Len(k) : c[i] = k[i] /\ c[i] # LabelPairSep
  BY <1>6, <1>8, Zenon
<1> QED
  BY <1>1, <1>4, <1>5, <1>7, <1>9, Zenon DEF k

\* The words of labels without separators.
LEMMA WordsType ==
  ASSUME NEW u \in Seq(PlainLabel), NEW w, w = [i \in DOMAIN u |-> Word(u[i])]
  PROVE  w \in Seq(Seq(JoinedChars)) /\ Len(w) = Len(u) /\ \A i \in 1..Len(u) : w[i] = Word(u[i])
<1>1. Len(u) \in Nat /\ DOMAIN u = 1..Len(u) /\ \A i \in 1..Len(u) : u[i] \in PlainLabel
  <2> HIDE DEF PlainLabel
  <2> QED
    OBVIOUS
<1>2. \A i \in 1..Len(u) : Word(u[i]) \in Seq(JoinedChars)
  BY <1>1, WordParts
<1>3. w = [i \in 1..Len(u) |-> Word(u[i])]
  BY <1>1
<1> QED
  BY <1>1, <1>2, <1>3

\* The last label of u adds its word.
LEMMA JoinedLast ==
  ASSUME NEW u \in Seq(PlainLabel), Len(u) > 0
  PROVE  /\ AllButLast(u) \in Seq(PlainLabel) /\ Len(AllButLast(u)) = Len(u) - 1
         /\ Joined(u) = Joined(AllButLast(u)) \o Word(u[Len(u)])
         /\ Joined(AllButLast(u)) \in Seq(JoinedChars)
<1> DEFINE t == AllButLast(u)
           w == [i \in DOMAIN u |-> Word(u[i])]
           v == [i \in DOMAIN t |-> Word(t[i])]
<1>0. Len(u) \in Nat /\ \A i \in 1..Len(u) : u[i] \in PlainLabel
  OBVIOUS
<1>1. t \in Seq(PlainLabel) /\ Len(t) = Len(u) - 1 /\ \A i \in 1..Len(t) : t[i] = u[i]
  BY <1>0 DEF AllButLast
<1> HIDE DEF t, PlainLabel
<1>2. w \in Seq(Seq(JoinedChars)) /\ Len(w) = Len(u) /\ \A i \in 1..Len(u) : w[i] = Word(u[i])
  BY WordsType
<1>3. v \in Seq(Seq(JoinedChars)) /\ Len(v) = Len(t) /\ \A i \in 1..Len(t) : v[i] = Word(t[i])
  BY <1>1, WordsType
<1>4. Joined(u) = FlattenSeq(w) /\ Joined(t) = FlattenSeq(v)
  BY Zenon DEF Joined
<1> HIDE DEF w, v
<1>5. Len(w) = Len(v) + 1
  BY <1>0, <1>1, <1>2, <1>3
<1>6. \A i \in 1..Len(v) : w[i] = v[i]
  <2>1. \A i \in 1..Len(v) : i \in 1..Len(t) /\ i \in 1..Len(u)
    BY <1>0, <1>1, <1>3
  <2> QED
    BY <1>1, <1>2, <1>3, <2>1, Zenon
<1>7. FlattenSeq(w) = FlattenSeq(v) \o w[Len(w)] /\ FlattenSeq(v) \in Seq(JoinedChars)
  BY <1>2, <1>3, <1>5, <1>6, FlattenLast
<1>8. w[Len(w)] = Word(u[Len(u)])
  BY <1>0, <1>2
<1> QED
  BY <1>1, <1>4, <1>7, <1>8 DEF t

\* What is joined is empty, or ends with a separator.
LEMMA JoinedEnds ==
  ASSUME NEW u \in Seq(PlainLabel)
  PROVE  /\ Joined(u) \in Seq(JoinedChars)
         /\ Len(u) = 0 => Joined(u) = <<>>
         /\ Len(u) > 0 => Len(Joined(u)) > 0 /\ Joined(u)[Len(Joined(u))] = LabelPairSep
<1> HIDE DEF PlainLabel
<1>0. Len(u) \in Nat
  OBVIOUS
<1>1. CASE Len(u) = 0
  <2> DEFINE w == [i \in DOMAIN u |-> Word(u[i])]
  <2>1. w \in Seq(Seq(JoinedChars)) /\ Len(w) = Len(u)
    BY WordsType
  <2>2. Joined(u) = FlattenSeq(w)
    BY DEF Joined
  <2> HIDE DEF w
  <2>3. w = <<>> /\ FlattenSeq(w) = w
    <3>1. FlattenSeq(w) = w
      BY <1>1, <2>1, Zenon DEF FlattenSeq
    <3> QED
      BY <1>1, <2>1, <3>1
  <2>4. Joined(u) = <<>> /\ ~(Len(u) > 0)
    BY <1>1, <2>2, <2>3
  <2>5. <<>> \in Seq(JoinedChars)
    OBVIOUS
  <2> QED
    BY <2>4, <2>5, Zenon
<1>2. CASE Len(u) > 0
  <2> DEFINE a == Joined(AllButLast(u))
             b == Word(u[Len(u)])
  <2>1. Joined(u) = a \o b /\ a \in Seq(JoinedChars)
    BY <1>2, JoinedLast
  <2>2. u[Len(u)] \in PlainLabel
    BY <1>2
  <2>3. /\ b \in Seq(JoinedChars) /\ Len(b) = Len(LabelKey(u[Len(u)])) + 1
        /\ b[Len(LabelKey(u[Len(u)])) + 1] = LabelPairSep
        /\ Len(LabelKey(u[Len(u)])) \in Nat
    <3>1. LabelKey(u[Len(u)]) \in Seq(KeyChars \cup {NameValueSep})
      BY <2>2, WordParts
    <3> QED
      BY <2>2, <3>1, WordParts
  <2> HIDE DEF a, b
  <2>4. Len(b) \in 1..Len(b) /\ b[Len(b)] = LabelPairSep
    BY <2>3
  <2>5. /\ a \o b \in Seq(JoinedChars) /\ Len(a \o b) = Len(a) + Len(b)
        /\ \A i \in 1..Len(b) : (a \o b)[Len(a) + i] = b[i]
    <3>1. a \in Seq(JoinedChars) /\ b \in Seq(JoinedChars)
      BY <2>1, <2>3
    <3>2. a \o b \in Seq(JoinedChars) /\ Len(a \o b) = Len(a) + Len(b)
      BY <3>1, ConcatParts
    <3>3. \A i \in 1..Len(b) : (a \o b)[Len(a) + i] = b[i]
      BY <3>1, ConcatParts
    <3> QED
      BY <3>2, <3>3
  <2>6. (a \o b)[Len(a) + Len(b)] = LabelPairSep
    BY <2>4, <2>5
  <2> DEFINE c == a \o b
  <2> HIDE DEF c
  <2>7. c \in Seq(JoinedChars) /\ Len(c) > 0 /\ c[Len(c)] = LabelPairSep
    <3>1. Len(a) \in Nat
      BY <2>1
    <3>2. Len(c) = Len(a) + Len(b) /\ c[Len(a) + Len(b)] = LabelPairSep /\ c \in Seq(JoinedChars)
      BY <2>5, <2>6 DEF c
    <3> QED
      BY <2>4, <3>1, <3>2
  <2> QED
    BY <1>2, <2>1, <2>7 DEF c
<1> QED
  BY <1>0, <1>1, <1>2

\* x ends with its only separator.
EndsOnce(x) ==
  Len(x) > 0 /\ x[Len(x)] = LabelPairSep /\ \A i \in 1..(Len(x) - 1) : x[i] # LabelPairSep

\* a is empty, or ends with a separator.
EmptyOrEnds(a) == Len(a) > 0 => a[Len(a)] = LabelPairSep

\* A last word does not reach beyond the separator before it.
LEMMA LastWordLength ==
  ASSUME NEW C, NEW a \in Seq(C), NEW b \in Seq(C), NEW x \in Seq(C), NEW y \in Seq(C),
         a \o x = b \o y, EmptyOrEnds(a), EndsOnce(x), EndsOnce(y)
  PROVE  Len(y) <= Len(x)
<1>1. Len(a) \in Nat /\ Len(b) \in Nat /\ Len(x) \in Nat /\ Len(y) \in Nat
  OBVIOUS
<1> SUFFICES ASSUME Len(x) < Len(y) PROVE FALSE
  BY <1>1
<1>2. Len(a) + Len(x) = Len(b) + Len(y)
  <2>1. Len(a \o x) = Len(a) + Len(x) /\ Len(b \o y) = Len(b) + Len(y)
    BY ConcatParts
  <2> QED
    BY <2>1
<1> DEFINE k == Len(a) - Len(b)
<1>3. /\ k \in 1..(Len(y) - 1) /\ k \in 1..Len(y) /\ Len(b) + k = Len(a)
      /\ Len(a) > 0 /\ Len(a) \in 1..Len(a)
  BY <1>1, <1>2 DEF EndsOnce
<1> HIDE DEF k
<1>4. (a \o x)[Len(a)] = a[Len(a)]
  <2>1. \A i \in 1..Len(a) : (a \o x)[i] = a[i]
    BY ConcatParts
  <2> QED
    BY <1>3, <2>1, Zenon
<1>5. (b \o y)[Len(b) + k] = y[k]
  <2>1. \A i \in 1..Len(y) : (b \o y)[Len(b) + i] = y[i]
    BY ConcatParts
  <2> QED
    BY <1>3, <2>1, Zenon
<1>6. y[k] = LabelPairSep
  BY <1>3, <1>4, <1>5, Zenon DEF EmptyOrEnds
<1> QED
  BY <1>3, <1>6, Zenon DEF EndsOnce

\* Sequences with the same elements are the same.
LEMMA SameElements ==
  ASSUME NEW C, NEW s \in Seq(C), NEW t \in Seq(C), Len(s) = Len(t),
         \A i \in 1..Len(s) : s[i] = t[i]
  PROVE  s = t
  OBVIOUS

\* The last word can be told from what comes before it.
LEMMA LastWord ==
  ASSUME NEW C, NEW a \in Seq(C), NEW b \in Seq(C), NEW x \in Seq(C), NEW y \in Seq(C),
         a \o x = b \o y, EmptyOrEnds(a), EmptyOrEnds(b), EndsOnce(x), EndsOnce(y)
  PROVE  a = b /\ x = y
<1>1. Len(a) \in Nat /\ Len(b) \in Nat /\ Len(x) \in Nat /\ Len(y) \in Nat
  OBVIOUS
<1>2. Len(x) = Len(y)
  <2>1. Len(y) <= Len(x)
    BY LastWordLength
  <2>2. Len(x) <= Len(y)
    BY LastWordLength
  <2> QED
    BY <1>1, <2>1, <2>2
<1>3. Len(a) = Len(b)
  <2>1. Len(a \o x) = Len(a) + Len(x) /\ Len(b \o y) = Len(b) + Len(y)
    BY ConcatParts
  <2> QED
    BY <1>1, <1>2, <2>1
<1>4. \A i \in 1..Len(a) : a[i] = b[i]
  <2>1. \A i \in 1..Len(a) : (a \o x)[i] = a[i]
    BY ConcatParts
  <2>2. \A i \in 1..Len(b) : (b \o y)[i] = b[i]
    BY ConcatParts
  <2> QED
    BY <1>3, <2>1, <2>2, Zenon
<1>5. \A i \in 1..Len(x) : x[i] = y[i]
  <2>1. \A i \in 1..Len(x) : (a \o x)[Len(a) + i] = x[i]
    BY ConcatParts
  <2>2. \A i \in 1..Len(y) : (b \o y)[Len(b) + i] = y[i]
    BY ConcatParts
  <2> QED
    BY <1>2, <1>3, <2>1, <2>2, Zenon
<1>6. a = b
  BY <1>3, <1>4, SameElements, Zenon
<1>7. x = y
  BY <1>2, <1>5, SameElements, Zenon
<1> QED
  BY <1>6, <1>7

\* Words end once, and are the labels'.
LEMMA WordsEnd ==
  ASSUME NEW l \in PlainLabel, NEW m \in PlainLabel
  PROVE  EndsOnce(Word(l)) /\ (Word(l) = Word(m) => l = m)
<1> HIDE DEF PlainLabel
<1>1. ASSUME NEW h \in PlainLabel PROVE Len(LabelKey(h)) \in Nat
  <2>1. LabelKey(h) \in Seq(KeyChars \cup {NameValueSep})
    BY WordParts
  <2> QED
    BY <2>1
<1>2. EndsOnce(Word(l))
  <2>1. Len(Word(l)) = Len(LabelKey(l)) + 1 /\ Word(l)[Len(LabelKey(l)) + 1] = LabelPairSep
    BY WordParts
  <2>2. \A i \in 1..Len(LabelKey(l)) : Word(l)[i] # LabelPairSep
    BY WordParts
  <2>3. Len(Word(l)) - 1 = Len(LabelKey(l)) /\ Len(Word(l)) > 0
    BY <1>1, <2>1
  <2> QED
    BY <2>1, <2>2, <2>3 DEF EndsOnce
<1>3. ASSUME Word(l) = Word(m) PROVE l = m
  <2> DEFINE K == KeyChars \cup {NameValueSep}
  <2>1. LabelKey(l) \in Seq(K) /\ LabelKey(m) \in Seq(K)
    BY WordParts
  <2>2. Len(LabelKey(l)) = Len(LabelKey(m))
    <3>1. Len(LabelKey(l)) + 1 = Len(LabelKey(m)) + 1
      BY <1>3, WordParts
    <3> QED
      BY <1>1, <3>1
  <2>3. \A i \in 1..Len(LabelKey(l)) : LabelKey(l)[i] = LabelKey(m)[i]
    <3>1. \A i \in 1..Len(LabelKey(l)) : Word(l)[i] = LabelKey(l)[i]
      BY WordParts
    <3>2. \A i \in 1..Len(LabelKey(m)) : Word(m)[i] = LabelKey(m)[i]
      BY WordParts
    <3> QED
      BY <1>3, <2>2, <3>1, <3>2, Zenon
  <2>4. LabelKey(l) = LabelKey(m)
    <3> HIDE DEF K
    <3> QED
      BY <2>1, <2>2, <2>3
  <2>5. /\ l \in [name : Seq(KeyChars), value : Seq(KeyChars)]
        /\ m \in [name : Seq(KeyChars), value : Seq(KeyChars)]
    BY DEF PlainLabel, Text, KeyChars, NameValueSep, LabelPairSep
  <2>6. /\ \A i \in DOMAIN l.name : l.name[i] # NameValueSep
        /\ \A i \in DOMAIN m.name : m.name[i] # NameValueSep
    <3>1. NameValueSep \notin KeyChars
      BY DEF KeyChars
    <3>2. l.name \in Seq(KeyChars) /\ m.name \in Seq(KeyChars)
      BY <2>5
    <3>3. /\ \A i \in DOMAIN l.name : l.name[i] \in KeyChars
          /\ \A i \in DOMAIN m.name : m.name[i] \in KeyChars
      BY <3>2
    <3> QED
      BY <3>1, <3>3, Zenon
  <2> QED
    BY <2>4, <2>5, <2>6, LabelKeyInjective
<1> QED
  BY <1>2, <1>3

\* Label sets that are joined to the same key are the same.
LEMMA JoinedInjective ==
  \A u, v \in Seq(PlainLabel) : Joined(u) = Joined(v) => u = v
<1> HIDE DEF PlainLabel
<1> DEFINE Clash(u, v) == Joined(u) = Joined(v) /\ u # v
           S == {n \in Nat : \E u, v \in Seq(PlainLabel) : Len(u) = n /\ Clash(u, v)}
<1>0. \A u \in Seq(PlainLabel) : Len(u) \in Nat
  OBVIOUS
<1> SUFFICES ASSUME S # {} PROVE FALSE
  BY <1>0, Zenon
<1>1. PICK n \in S : \A m \in S : n <= m
  <2>1. S \in SUBSET Nat
    OBVIOUS
  <2> HIDE DEF S
  <2> QED
    BY <2>1, LeastNat
<1>2. PICK u \in Seq(PlainLabel), v \in Seq(PlainLabel) : Len(u) = n /\ Clash(u, v)
  BY <1>1, Zenon
<1>3. Len(u) \in Nat /\ Len(v) \in Nat
  BY <1>2
<1>4. Len(u) > 0 /\ Len(v) > 0
  <2>1. /\ Len(u) = 0 => Joined(u) = <<>>
        /\ Len(u) > 0 => Len(Joined(u)) > 0
        /\ Len(v) = 0 => Joined(v) = <<>>
        /\ Len(v) > 0 => Len(Joined(v)) > 0
    BY <1>2, JoinedEnds
  <2>2. Len(<<>>) = 0
    OBVIOUS
  <2>3. Len(u) = 0 /\ Len(v) = 0 => u = v
    BY <1>2
  <2> QED
    BY <1>2, <1>3, <2>1, <2>2, <2>3
<1> DEFINE a == Joined(AllButLast(u))
           b == Joined(AllButLast(v))
           x == Word(u[Len(u)])
           y == Word(v[Len(v)])
<1>5. /\ AllButLast(u) \in Seq(PlainLabel) /\ Len(AllButLast(u)) = Len(u) - 1
      /\ Joined(u) = a \o x /\ a \in Seq(JoinedChars)
  BY <1>2, <1>4, JoinedLast
<1>6. /\ AllButLast(v) \in Seq(PlainLabel) /\ Len(AllButLast(v)) = Len(v) - 1
      /\ Joined(v) = b \o y /\ b \in Seq(JoinedChars)
  BY <1>2, <1>4, JoinedLast
<1>7. u[Len(u)] \in PlainLabel /\ v[Len(v)] \in PlainLabel
  BY <1>2, <1>4
<1>8. /\ x \in Seq(JoinedChars) /\ y \in Seq(JoinedChars) /\ EndsOnce(x) /\ EndsOnce(y)
      /\ x = y => u[Len(u)] = v[Len(v)]
  <2>1. x \in Seq(JoinedChars) /\ y \in Seq(JoinedChars)
    BY <1>7, WordParts
  <2> QED
    BY <1>7, <2>1, WordsEnd
<1>9. EmptyOrEnds(a) /\ EmptyOrEnds(b)
  <2>1. ASSUME NEW t \in Seq(PlainLabel) PROVE EmptyOrEnds(Joined(t))
    <3>1. Len(t) = 0 \/ Len(t) > 0
      BY <1>0
    <3>2. CASE Len(t) = 0
      <4>1. Joined(t) = <<>>
        BY <3>2, JoinedEnds
      <4>2. ~(Len(<<>>) > 0)
        OBVIOUS
      <4> QED
        BY <4>1, <4>2, Zenon DEF EmptyOrEnds
    <3>3. CASE Len(t) > 0
      <4>1. Joined(t)[Len(Joined(t))] = LabelPairSep
        BY <3>3, JoinedEnds
      <4> QED
        BY <4>1, Zenon DEF EmptyOrEnds
    <3> QED
      BY <3>1, <3>2, <3>3
  <2> QED
    BY <1>5, <1>6, <2>1, Zenon
<1> HIDE DEF a, b, x, y
<1>10. a = b /\ x = y
  <2>1. a \o x = b \o y
    BY <1>2, <1>5, <1>6
  <2> QED
    BY <1>5, <1>6, <1>8, <1>9, <2>1, LastWord
<1>11. AllButLast(u) # AllButLast(v)
  <2> SUFFICES ASSUME AllButLast(u) = AllButLast(v) PROVE u = v
    BY <1>2
  <2>1. Len(u) = Len(v)
    BY <1>3, <1>5, <1>6
  <2>2. u[Len(u)] = v[Len(v)]
    BY <1>8, <1>10
  <2>3. /\ \A i \in 1..(Len(u) - 1) : AllButLast(u)[i] = u[i]
        /\ \A i \in 1..(Len(v) - 1) : AllButLast(v)[i] = v[i]
    BY DEF AllButLast
  <2>4. \A i \in 1..(Len(u) - 1) : u[i] = v[i]
    BY <2>1, <2>3, Zenon
  <2>5. \A i \in 1..Len(u) : u[i] = v[i]
    <3>1. \A i \in 1..Len(u) : i = Len(u) \/ i \in 1..(Len(u) - 1)
      BY <1>3
    <3> QED
      BY <2>1, <2>2, <2>4, <3>1, Zenon
  <2> QED
    BY <1>2, <2>1, <2>5
<1>12. n - 1 \in S
  <2>1. n - 1 \in Nat /\ Len(AllButLast(u)) = n - 1
    BY <1>2, <1>3, <1>4, <1>5
  <2>2. Clash(AllButLast(u), AllButLast(v))
    BY <1>10, <1>11 DEF a, b
  <2> HIDE DEF Clash
  <2> QED
    BY <1>5, <1>6, <2>1, <2>2, Zenon
<1>13. n \in Nat
  BY <1>2, <1>3
<1> HIDE DEF S
<1>14. n <= n - 1
  BY <1>1, <1>12
<1> QED
  BY <1>13, <1>14

\* The labels of a label set without separators, sorted.
LEMMA KeyOfSorted ==
  ASSUME NEW a \in Seq(PlainLabel), NEW u, u = SortedLabels(a)
  PROVE  /\ CanonicalKey(a) = Joined(u)
         /\ Len(a) \in Nat /\ u \in Seq(PlainLabel) /\ u \in [1..Len(a) -> ToSet(a)]
         /\ u \in [1..Len(a) -> AnyLabel] /\ Ordered(u, Len(a))
         /\ \A x : Cardinality(PlacesOf(u, Len(a), x)) = Cardinality({i \in DOMAIN a : a[i] = x})
<1>1. CanonicalKey(a) = Joined(u)
  BY Zenon DEF CanonicalKey, Joined, Word, LabelPairSep
<1>2. PlainLabel \subseteq AnyLabel
  <2>1. Text \subseteq Seq(Characters)
    BY DEF Text, Characters
  <2> HIDE DEF Text
  <2> QED
    BY <2>1 DEF PlainLabel, AnyLabel
<1> HIDE DEF PlainLabel
<1>3. /\ Len(a) \in Nat /\ DOMAIN a = 1..Len(a)
      /\ a \in Seq(ToSet(a)) /\ ToSet(a) \subseteq PlainLabel
  BY DEF ToSet
<1>4. ToSet(a) \in SUBSET AnyLabel
  BY <1>2, <1>3
<1>5. /\ u \in [1..Len(a) -> ToSet(a)] /\ Ordered(u, Len(a))
      /\ \A x : Cardinality(PlacesOf(u, Len(a), x)) = Cardinality(PlacesOf(a, Len(a), x))
  BY <1>3, <1>4, SortedLabelsSorts
<1>6. u \in [1..Len(a) -> AnyLabel] /\ u \in Seq(PlainLabel)
  <2>1. u \in [1..Len(a) -> PlainLabel]
    BY <1>3, <1>5
  <2> QED
    BY <1>2, <1>3, <2>1
<1>7. \A x : PlacesOf(a, Len(a), x) = {i \in DOMAIN a : a[i] = x}
  BY <1>3 DEF PlacesOf
<1> QED
  BY <1>1, <1>3, <1>5, <1>6, <1>7

\* CanonicalKey: two label sets without separators have the same key exactly
\* when they hold the same labels as often.
LEMMA KeysAreBags ==
  ASSUME NEW a \in Seq(PlainLabel), NEW b \in Seq(PlainLabel)
  PROVE  CanonicalKey(a) = CanonicalKey(b) <=> SameBag(a, b)
<1> DEFINE u == SortedLabels(a)
           v == SortedLabels(b)
           inA(x) == Cardinality({i \in DOMAIN a : a[i] = x})
           inB(x) == Cardinality({i \in DOMAIN b : b[i] = x})
<1> HIDE DEF PlainLabel, u, v
<1>1. /\ CanonicalKey(a) = Joined(u)
      /\ Len(a) \in Nat /\ u \in Seq(PlainLabel) /\ u \in [1..Len(a) -> ToSet(a)]
      /\ u \in [1..Len(a) -> AnyLabel] /\ Ordered(u, Len(a))
      /\ \A x : Cardinality(PlacesOf(u, Len(a), x)) = inA(x)
  BY KeyOfSorted DEF u
<1>2. /\ CanonicalKey(b) = Joined(v)
      /\ Len(b) \in Nat /\ v \in Seq(PlainLabel) /\ v \in [1..Len(b) -> ToSet(b)]
      /\ v \in [1..Len(b) -> AnyLabel] /\ Ordered(v, Len(b))
      /\ \A x : Cardinality(PlacesOf(v, Len(b), x)) = inB(x)
  BY KeyOfSorted DEF v
<1>3. SameBag(a, b) <=> Len(a) = Len(b) /\ \A x \in ToSet(a) \cup ToSet(b) : inA(x) = inB(x)
  BY Zenon DEF SameBag
<1> HIDE DEF inA, inB
<1>4. ASSUME CanonicalKey(a) = CanonicalKey(b) PROVE SameBag(a, b)
  <2>1. u = v
    BY <1>1, <1>2, <1>4, JoinedInjective, Zenon
  <2>2. Len(a) = Len(b)
    <3>1. Len(u) = Len(a) /\ Len(v) = Len(b)
      BY <1>1, <1>2
    <3> QED
      BY <2>1, <3>1
  <2>3. \A x : inA(x) = inB(x)
    BY <1>1, <1>2, <2>1, <2>2, Zenon
  <2> QED
    BY <1>3, <2>2, <2>3, Zenon
<1>5. ASSUME SameBag(a, b) PROVE CanonicalKey(a) = CanonicalKey(b)
  <2> DEFINE n == Len(a)
  <2>1. n \in Nat /\ n = Len(b) /\ \A x \in ToSet(a) \cup ToSet(b) : inA(x) = inB(x)
    BY <1>1, <1>3, <1>5, Zenon
  <2>2. \A x \in ToSet(a) \cup ToSet(b) : Cardinality(PlacesOf(u, n, x)) = Cardinality(PlacesOf(v, n, x))
    BY <1>1, <1>2, <2>1, Zenon
  <2>3. \A i \in 1..n : u[i] \in ToSet(a) \cup ToSet(b) /\ v[i] \in ToSet(a) \cup ToSet(b)
    BY <1>1, <1>2, <2>1
  <2>4. u \in [1..n -> AnyLabel] /\ v \in [1..n -> AnyLabel] /\ Ordered(u, n) /\ Ordered(v, n)
    BY <1>1, <1>2, <2>1
  <2>5. /\ \A i \in 1..n : Cardinality(PlacesOf(u, n, u[i])) = Cardinality(PlacesOf(v, n, u[i]))
        /\ \A i \in 1..n : Cardinality(PlacesOf(u, n, v[i])) = Cardinality(PlacesOf(v, n, v[i]))
    BY <2>2, <2>3, Zenon
  <2> HIDE DEF n
  <2>6. u = v
    BY <2>1, <2>4, <2>5, SortedUnique, Zenon
  <2> QED
    BY <1>1, <1>2, <2>6, Zenon
<1> QED
  BY <1>4, <1>5

\* CanonicalKey ("identify the same series iff their canonical keys are
\* equal"), for label sets of every size over text without the separators.
THEOREM KeysIdentifySeriesHolds == LookupSpec => []KeysIdentifySeries
<1>1. ASSUME Computed PROVE KeysIdentifySeries
  <2> DEFINE a == input.data[1]
             b == input.data[2]
  <2> SUFFICES ASSUME Finished("keys") PROVE (output[1] = output[2]) <=> SameBag(a, b)
    BY DEF KeysIdentifySeries
  <2>1. output = KeysResult /\ input \in LookupInputs /\ input.kind = "keys"
    BY <1>1 DEF Computed, Finished
  <2>2. input.data \in KeyLabels \X KeyLabels
    BY <2>1, InputData
  <2>3. a \in KeyLabels /\ b \in KeyLabels
    BY <2>2
  <2>4. a \in Seq(PlainLabel) /\ b \in Seq(PlainLabel)
    BY <2>3, KeysAssumption, Zenon DEF PlainLabel
  <2>5. output[1] = CanonicalKey(a) /\ output[2] = CanonicalKey(b)
    BY <2>1 DEF KeysResult
  <2> HIDE DEF a, b
  <2> QED
    BY <2>4, <2>5, KeysAreBags, Zenon
<1> QED
  BY <1>1, ComputedInvariant, PTL
====
