------------------------ MODULE AltVarintCodec_proof ------------------------
(***************************************************************************)
(* The varints of altvarint_codec.h, for words of any number of bytes:     *)
(* each word is encoded in as few bytes as its table says, and decoded     *)
(* from them to itself, whatever bytes come after them (CodecIs, and, of   *)
(* TraceFormat_proof, EncodingIsShortest).  A byte has as many bits as a   *)
(* word has bytes, as in the code.                                         *)
(*                                                                         *)
(* The provers know nothing of 2 ^ n, of quotients by what is no literal,  *)
(* or of sums: the first part of the module says what is needed of them.   *)
(***************************************************************************)
EXTENDS AltVarintCodec, FiniteSetTheorems, WellFoundedInduction, TLAPS

(***************************************************************************)
(* Numbers.                                                                *)
(***************************************************************************)

\* Numbers of which there are any have a least one.
LEMMA LeastMember ==
  ASSUME NEW S \in SUBSET Nat, S # {}
  PROVE  \E m \in S : \A n \in S : m <= n
<1>1. PICK m \in S : \A n \in S : <<n, m>> \notin OpToRel(<, Nat)
  BY NatLessThanWellFounded, WFMin
<1>2. \A n \in S : ~(n < m)
  BY <1>1 DEF OpToRel
<1> QED BY <1>2

\* Powers of 2.  The provers know nothing of ^ but that there are so many sets
\* of a number of elements.
Pow(n) == 2 ^ n

\* A power of 2 is the number of subsets of an interval.
LEMMA PowIsCardinality ==
  ASSUME NEW n \in Nat
  PROVE  Pow(n) = Cardinality(SUBSET (1 .. n)) /\ Pow(n) \in Nat
<1>1. IsFiniteSet(1 .. n) /\ Cardinality(1 .. n) = n
  BY FS_Interval
<1>2. Cardinality(SUBSET (1 .. n)) = 2 ^ Cardinality(1 .. n) /\ IsFiniteSet(SUBSET (1 .. n))
  BY <1>1, FS_SUBSET
<1>3. Pow(n) = Cardinality(SUBSET (1 .. n))
  BY <1>1, <1>2, Zenon DEF Pow
<1> QED BY <1>2, <1>3, FS_CardinalityType

\* How the powers of 2 go on: what defines them.
LEMMA PowIs == Pow(0) = 1 /\ \A n \in Nat : Pow(n) \in Nat \ {0} /\ Pow(n + 1) = 2 * Pow(n)
<1>1. Pow(0) = 1
  <2>1. 1 .. 0 = {} /\ SUBSET {} = {{}}
    OBVIOUS
  <2>2. Cardinality({{}}) = 1
    BY FS_Singleton
  <2> QED BY <2>1, <2>2, PowIsCardinality
<1>2. ASSUME NEW n \in Nat PROVE Pow(n + 1) = 2 * Pow(n)
  <2> DEFINE Old == SUBSET (1 .. n)
             New == {T \cup {n + 1} : T \in SUBSET (1 .. n)}
  <2>1. Pow(n) = Cardinality(Old) /\ Pow(n) \in Nat
    BY PowIsCardinality
  <2>2. Pow(n + 1) = Cardinality(SUBSET (1 .. n + 1))
    <3>1. n + 1 \in Nat
      OBVIOUS
    <3> QED BY <3>1, PowIsCardinality
  <2>3. 1 .. n + 1 = (1 .. n) \cup {n + 1} /\ n + 1 \notin 1 .. n
    OBVIOUS
  <2>4. SUBSET (1 .. n + 1) = Old \cup New
    <3>1. ASSUME NEW T \in SUBSET (1 .. n + 1), n + 1 \in T PROVE T \in New
      <4>1. T \ {n + 1} \in SUBSET (1 .. n) /\ T = (T \ {n + 1}) \cup {n + 1}
        BY <2>3, <3>1
      <4> QED BY <4>1
    <3>2. ASSUME NEW T \in SUBSET (1 .. n + 1), n + 1 \notin T PROVE T \in Old
      BY <2>3, <3>2
    <3>3. New \subseteq SUBSET (1 .. n + 1) /\ Old \subseteq SUBSET (1 .. n + 1)
      BY <2>3
    <3> QED BY <3>1, <3>2, <3>3
  <2>5. Old \cap New = {}
    BY <2>3
  <2>6. IsFiniteSet(Old)
    <3>1. IsFiniteSet(1 .. n)
      BY FS_Interval
    <3> QED BY <3>1, FS_SUBSET
  <2>7. IsFiniteSet(New) /\ Cardinality(New) = Cardinality(Old)
    <3> DEFINE f == [T \in Old |-> T \cup {n + 1}]
    <3>1. f \in Bijection(Old, New)
      <4>1. f \in [Old -> New]
        OBVIOUS
      <4>2. ASSUME NEW S \in Old, NEW T \in Old, f[S] = f[T] PROVE S = T
        <5>1. S \cup {n + 1} = T \cup {n + 1} /\ n + 1 \notin S /\ n + 1 \notin T
          BY <2>3, <4>2
        <5> QED BY <5>1
      <4>3. \A U \in New : \E T \in Old : f[T] = U
        OBVIOUS
      <4> HIDE DEF f, Old, New
      <4>4. IsInjective(f)
        BY <4>1, <4>2 DEF IsInjective
      <4> QED BY <4>1, <4>3, <4>4 DEF Bijection, Injection, Surjection
    <3>2. ExistsBijection(Old, New)
      BY <3>1 DEF ExistsBijection
    <3> HIDE DEF Old, New
    <3> QED BY <2>6, <3>2, FS_Bijection, FS_SameCardinalityBij
  <2> HIDE DEF Old, New
  <2>8. Cardinality(Old \cup New) = Cardinality(Old) + Cardinality(New) - Cardinality(Old \cap New)
    BY <2>6, <2>7, FS_Union
  <2>9. Cardinality(Old \cap New) = 0
    BY <2>5, FS_EmptySet
  <2> DEFINE c == Cardinality(Old)
  <2>10. c \in Nat /\ Pow(n) = c /\ Pow(n + 1) = c + c - 0
    BY <2>1, <2>2, <2>4, <2>7, <2>8, <2>9
  <2> HIDE DEF c
  <2> QED BY <2>10
<1> DEFINE Bad == {n \in Nat : Pow(n) = 0}
<1>3. Bad = {}
  <2>1. SUFFICES ASSUME Bad # {} PROVE FALSE
    OBVIOUS
  <2>2. PICK k \in Bad : \A m \in Bad : k <= m
    <3>1. Bad \in SUBSET Nat
      OBVIOUS
    <3> HIDE DEF Bad
    <3> QED BY <2>1, <3>1, LeastMember
  <2>3. k # 0
    BY <1>1, <2>2
  <2>4. k - 1 \in Nat /\ k = (k - 1) + 1 /\ ~(k <= k - 1)
    BY <2>3
  <2>5. Pow(k - 1) # 0 /\ Pow(k - 1) \in Nat
    BY <2>2, <2>4, PowIsCardinality
  <2>6. Pow(k) = 2 * Pow(k - 1)
    BY <1>2, <2>4
  <2> QED BY <2>2, <2>5, <2>6
<1> QED BY <1>1, <1>2, <1>3, PowIsCardinality

\* The powers of two exponents, and of their sum.
LEMMA PowAdd ==
  ASSUME NEW a \in Nat, NEW b \in Nat
  PROVE  Pow(a + b) = Pow(a) * Pow(b)
<1> DEFINE Bad == {n \in Nat : Pow(a + n) # Pow(a) * Pow(n)}
<1>1. Bad = {}
  <2>1. SUFFICES ASSUME Bad # {} PROVE FALSE
    OBVIOUS
  <2>2. PICK k \in Bad : \A m \in Bad : k <= m
    <3>1. Bad \in SUBSET Nat
      OBVIOUS
    <3> HIDE DEF Bad
    <3> QED BY <2>1, <3>1, LeastMember
  <2>3. k # 0
    <3>1. Pow(a + 0) = Pow(a) * Pow(0)
      <4>1. a + 0 = a /\ Pow(0) = 1 /\ Pow(a) \in Nat
        BY PowIs
      <4> QED BY <4>1
    <3> QED BY <2>2, <3>1
  <2> DEFINE j == k - 1
  <2>4. j \in Nat /\ k = j + 1 /\ ~(k <= j) /\ a + k = (a + j) + 1 /\ a + j \in Nat
    BY <2>3
  <2> HIDE DEF j
  <2>5. Pow(a + j) = Pow(a) * Pow(j)
    BY <2>2, <2>4
  <2>6. Pow(a + k) = 2 * Pow(a + j) /\ Pow(k) = 2 * Pow(j)
    BY <2>4, PowIs
  <2>7. Pow(a) \in Nat /\ Pow(j) \in Nat
    BY <2>4, PowIs
  <2>8. Pow(a) * (2 * Pow(j)) = 2 * (Pow(a) * Pow(j))
    BY <2>7
  <2> QED BY <2>2, <2>5, <2>6, <2>8
<1> QED BY <1>1

\* Powers grow with their exponents, at least twofold.
LEMMA PowOrdered ==
  ASSUME NEW a \in Nat, NEW b \in Nat, a <= b
  PROVE  /\ Pow(a) \in Nat \ {0} /\ Pow(b) \in Nat \ {0}
         /\ Pow(a) <= Pow(b)
         /\ a < b => 2 * Pow(a) <= Pow(b)
<1>1. Pow(a) \in Nat \ {0} /\ Pow(b) \in Nat \ {0}
  BY PowIs
<1>2. ASSUME NEW p \in Nat \ {0}, NEW q \in Nat \ {0} PROVE p <= p * q
  <2>1. PICK r \in Nat : q = r + 1
    <3>1. q - 1 \in Nat /\ q = (q - 1) + 1
      OBVIOUS
    <3> QED BY <3>1
  <2>2. p * q = p * r + p /\ p * r \in Nat
    BY <2>1
  <2> QED BY <2>2
<1>3. Pow(a) <= Pow(b)
  <2>1. PICK c \in Nat : b = a + c
    <3>1. b - a \in Nat /\ b = a + (b - a)
      OBVIOUS
    <3> QED BY <3>1
  <2>2. Pow(b) = Pow(a) * Pow(c) /\ Pow(c) \in Nat \ {0}
    BY <2>1, PowAdd, PowIs
  <2> QED BY <1>1, <1>2, <2>2
<1>4. ASSUME a < b PROVE 2 * Pow(a) <= Pow(b)
  <2>1. PICK c \in Nat : b = (a + 1) + c
    <3>1. b - a - 1 \in Nat /\ b = (a + 1) + (b - a - 1)
      BY <1>4
    <3> QED BY <3>1
  <2>2. Pow(b) = Pow(a + 1) * Pow(c)
    <3>1. a + 1 \in Nat
      OBVIOUS
    <3> QED BY <2>1, <3>1, PowAdd
  <2>3. Pow(c) \in Nat \ {0} /\ Pow(a + 1) = 2 * Pow(a) /\ Pow(a + 1) \in Nat \ {0}
    BY PowIs
  <2> QED BY <1>2, <2>2, <2>3
<1> QED BY <1>1, <1>3, <1>4

\* Division.
LEMMA DivIs ==
  ASSUME NEW a \in Nat, NEW d \in Nat \ {0}
  PROVE  /\ a \div d \in Nat /\ a % d \in Nat /\ a % d < d
         /\ a = (a \div d) * d + (a % d)
OBVIOUS

\* Multiples of a number are that number apart.
LEMMA MultipleOrdered ==
  ASSUME NEW p \in Nat, NEW q \in Nat, NEW d \in Nat, p < q
  PROVE  p * d + d <= q * d
<1>1. PICK r \in Nat : q = p + 1 + r
  <2>1. q - p - 1 \in Nat /\ q = p + 1 + (q - p - 1)
    OBVIOUS
  <2> QED BY <2>1
<1>2. q * d = p * d + d + r * d /\ r * d \in Nat /\ p * d \in Nat
  BY <1>1
<1> QED BY <1>2

\* A quotient and a remainder, however they were found.
LEMMA DivUnique ==
  ASSUME NEW a \in Nat, NEW d \in Nat \ {0}, NEW q \in Nat, NEW r \in Nat,
         r < d, a = q * d + r
  PROVE  a \div d = q /\ a % d = r
<1> DEFINE p == a \div d
           s == a % d
<1>1. p \in Nat /\ s \in Nat /\ s < d /\ a = p * d + s
  BY DivIs
<1> HIDE DEF p, s
<1>2. p * d \in Nat /\ q * d \in Nat
  BY <1>1
<1>3. ~(p < q)
  <2>1. p < q => p * d + d <= q * d
    BY <1>1, MultipleOrdered
  <2> QED BY <1>1, <1>2, <2>1
<1>4. ~(q < p)
  <2>1. q < p => q * d + d <= p * d
    BY <1>1, MultipleOrdered
  <2> QED BY <1>1, <1>2, <2>1
<1>5. p = q
  BY <1>1, <1>3, <1>4
<1>6. s = r
  BY <1>1, <1>2, <1>5
<1> QED BY <1>5, <1>6 DEF p, s

\* Quotients are ordered as the numbers are.
LEMMA DivBelow ==
  ASSUME NEW a \in Nat, NEW d \in Nat \ {0}, NEW q \in Nat
  PROVE  /\ a \div d <= a
         /\ a < q * d <=> a \div d < q
         /\ a < d => a \div d = 0 /\ a % d = a
<1> DEFINE p == a \div d
           s == a % d
<1>1. p \in Nat /\ s \in Nat /\ s < d /\ a = p * d + s
  BY DivIs
<1>2. a < d => p = 0 /\ s = a
  <2>1. a < d => a = 0 * d + a
    OBVIOUS
  <2> QED BY <2>1, DivUnique
<1> HIDE DEF p, s
<1>3. p * d \in Nat /\ q * d \in Nat
  BY <1>1
<1>4. p <= p * d
  <2>1. CASE p = 0
    BY <1>1, <1>3, <2>1
  <2>2. CASE p # 0
    <3>1. PICK c \in Nat : d = c + 1
      <4>1. d - 1 \in Nat /\ d = (d - 1) + 1
        OBVIOUS
      <4> QED BY <4>1
    <3>2. p * d = p * c + p /\ p * c \in Nat
      BY <1>1, <3>1
    <3> QED BY <1>1, <3>2
  <2> QED BY <2>1, <2>2
<1>5. p < q => p * d + d <= q * d
  BY <1>1, MultipleOrdered
<1>6. q < p => q * d + d <= p * d
  BY <1>1, MultipleOrdered
<1>7. a < q * d <=> p < q
  BY <1>1, <1>3, <1>5, <1>6
<1> QED BY <1>1, <1>2, <1>3, <1>4, <1>7 DEF p, s


\* Dividing twice, and a remainder by a product.
LEMMA DivDiv ==
  ASSUME NEW a \in Nat, NEW d \in Nat \ {0}, NEW e \in Nat \ {0}
  PROVE  (a \div d) \div e = a \div (d * e)
OBVIOUS

\* A remainder by a product, from those by its factors.
LEMMA ModOfTwo ==
  ASSUME NEW a \in Nat, NEW d \in Nat \ {0}, NEW e \in Nat \ {0}
  PROVE  a % (d * e) = (a % d) + d * ((a \div d) % e)
<1> DEFINE q == a \div d
           r == a % d
           p == q \div e
           s == q % e
           f == d * e
           u == a % f
<1>1. q \in Nat /\ r \in Nat /\ a = q * d + r
  BY DivIs
<1>2. p \in Nat /\ s \in Nat /\ q = p * e + s
  <2> HIDE DEF q
  <2> QED BY <1>1, DivIs DEF p, s
<1>3. f \in Nat \ {0} /\ a \div f = p
  BY DivDiv DEF f, p, q
<1>4. u \in Nat /\ a = p * f + u
  <2> HIDE DEF f, p
  <2> QED BY <1>3, DivIs DEF u
<1>5. f = d * e
  BY DEF f
<1> HIDE DEF q, r, p, s, f, u
<1>6. q * d = p * f + d * s
  <2>1. (p * e + s) * d = p * (d * e) + d * s
    BY <1>2
  <2> QED BY <1>2, <1>5, <2>1
<1>7. d * s \in Nat /\ p * f \in Nat
  BY <1>2, <1>3
<1>8. u = r + d * s
  BY <1>1, <1>4, <1>6, <1>7
<1> QED BY <1>8 DEF q, r, p, s, f, u

\* The two parts of such a remainder.
LEMMA PartsOfTwo ==
  ASSUME NEW a \in Nat, NEW d \in Nat \ {0}, NEW e \in Nat \ {0}
  PROVE  /\ (a % (d * e)) % d = a % d
         /\ (a % (d * e)) \div d = (a \div d) % e
<1> DEFINE r == a % d
           s == (a \div d) % e
           m == a % (d * e)
<1>1. r \in Nat /\ r < d
  BY DivIs
<1>2. s \in Nat
  <2> DEFINE q == a \div d
  <2>1. q \in Nat
    BY DivIs
  <2> HIDE DEF q
  <2>2. q % e \in Nat
    BY <2>1, DivIs
  <2> QED BY <2>2 DEF s, q
<1>3. m = r + d * s
  BY ModOfTwo
<1> HIDE DEF r, s, m
<1>4. m \in Nat /\ m = s * d + r
  BY <1>1, <1>2, <1>3
<1>5. m \div d = s /\ m % d = r
  BY <1>1, <1>2, <1>4, DivUnique
<1> QED BY <1>5 DEF r, s, m

(***************************************************************************)
(* The codec.                                                              *)
(***************************************************************************)
LEMMA WordIs ==
  /\ B \in Nat /\ B >= 2 /\ WordBits \in Nat /\ WordBits = B * B
  /\ WordCount = Pow(WordBits) /\ WordCount \in Nat \ {0}
  /\ Word = 0 .. WordCount - 1
  /\ Byte = 0 .. Pow(B) - 1 /\ Pow(B) \in Nat \ {0}
<1>1. B \in Nat /\ B >= 2
  BY BAssumption
<1>2. B * B \in Nat
  BY <1>1
<1>3. WordCount = Pow(WordBits) /\ Byte = 0 .. Pow(B) - 1
  BY DEF WordCount, Byte, Pow
<1>4. Pow(B * B) \in Nat \ {0} /\ Pow(B) \in Nat \ {0}
  BY <1>1, <1>2, PowIs
<1> QED BY <1>1, <1>2, <1>3, <1>4 DEF Word, WordBits

\* The shifts, and the lowest bits.
LEMMA ShlIs ==
  ASSUME NEW x \in Nat, NEW n \in Nat
  PROVE  /\ x * Pow(n) \in Nat
         /\ Shl(x, n) = (x * Pow(n)) % WordCount
         /\ Shl(x, n) \in Word
         /\ x * Pow(n) < WordCount => Shl(x, n) = x * Pow(n)
<1>1. Shl(x, n) = (x * Pow(n)) % WordCount
  BY DEF Shl, Pow
<1> DEFINE y == x * Pow(n)
<1>2. y \in Nat
  <2>1. Pow(n) \in Nat
    BY PowIs
  <2> QED BY <2>1
<1> HIDE DEF y
<1>3. y % WordCount \in Word /\ (y < WordCount => y % WordCount = y)
  BY <1>2, WordIs, DivIs, DivBelow
<1> QED BY <1>1, <1>2, <1>3 DEF y

\* A shift to the right (of a uint64_t) divides.
LEMMA ShrIs ==
  ASSUME NEW x \in Nat, NEW n \in Nat
  PROVE  /\ Shr(x, n) = x \div Pow(n)
         /\ Shr(x, n) \in Nat /\ Shr(x, n) <= x
         /\ x \in Word => Shr(x, n) \in Word
<1>1. Shr(x, n) = x \div Pow(n)
  BY DEF Shr, Pow
<1>2. Pow(n) \in Nat \ {0}
  BY PowIs
<1>3. x \div Pow(n) \in Nat /\ x \div Pow(n) <= x
  BY <1>2, DivIs, DivBelow
<1> DEFINE y == x \div Pow(n)
<1> HIDE DEF y
<1>4. x \in Word => y \in Word
  BY <1>3, WordIs DEF y
<1> QED BY <1>1, <1>3, <1>4 DEF y

\* The lowest bits of a word are a remainder.
LEMMA LowIs ==
  ASSUME NEW x \in Nat, NEW n \in Nat
  PROVE  /\ Low(x, n) = x % Pow(n)
         /\ Low(x, n) \in Nat /\ Low(x, n) < Pow(n) /\ Low(x, n) <= x
         /\ x < Pow(n) => Low(x, n) = x
         /\ x \in Word => Low(x, n) \in Word
<1>1. Low(x, n) = x % Pow(n)
  BY DEF Low, Pow
<1>2. Pow(n) \in Nat \ {0}
  BY PowIs
<1> DEFINE y == x % Pow(n)
           q == x \div Pow(n)
<1>3. q \in Nat /\ y \in Nat /\ y < Pow(n) /\ x = q * Pow(n) + y
      /\ (x < Pow(n) => y = x)
  BY <1>2, DivIs, DivBelow
<1> HIDE DEF y, q
<1>4. q * Pow(n) \in Nat
  BY <1>2, <1>3
<1>5. y <= x
  BY <1>3, <1>4
<1>6. x \in Word => y \in Word
  BY <1>3, <1>5, WordIs
<1> QED BY <1>1, <1>3, <1>5, <1>6 DEF y

\* The complement of a word counts down from the greatest word.
LEMMA ComplementIs ==
  ASSUME NEW x \in Word
  PROVE  Complement(x) = WordCount - 1 - x /\ Complement(x) \in Word
BY WordIs DEF Complement

\* Words of two halves.
LEMMA HalfIs ==
  \E h \in Nat \ {0} : WordCount = 2 * h /\ WordCount \div 2 = h
<1>1. WordBits - 1 \in Nat /\ WordBits = (WordBits - 1) + 1
  <2>1. B * B # 0
    BY WordIs
  <2> QED BY <2>1, WordIs
<1>2. WordCount = 2 * Pow(WordBits - 1) /\ Pow(WordBits - 1) \in Nat \ {0}
  <2> DEFINE n == WordBits - 1
  <2>1. n \in Nat /\ WordBits = n + 1
    BY <1>1
  <2> HIDE DEF n
  <2> QED BY <2>1, PowIs, WordIs DEF n
<1> QED BY <1>2

\* zigzag maps n to 2n and -n to 2n - 1, and unzigzag takes it back
\* (altvarint_codec.h:99).
LEMMA ZigzagIs ==
  ASSUME NEW val \in Word
  PROVE  /\ zigzag(val) = IF val < WordCount \div 2 THEN 2 * val
                          ELSE 2 * (WordCount - val) - 1
         /\ zigzag(val) \in Word
         /\ unzigzag(zigzag(val)) = val
<1> DEFINE z == zigzag(val)
<1>1. PICK h \in Nat \ {0} : WordCount = 2 * h /\ WordCount \div 2 = h
  BY HalfIs
<1>2. val \in Nat /\ val < 2 * h /\ Word = 0 .. 2 * h - 1
  BY <1>1, WordIs
<1>3. Pow(1) = 2
  <2>1. Pow(0 + 1) = 2 * Pow(0) /\ Pow(0) = 1
    BY PowIs
  <2> QED BY <2>1
<1>4. Shl(val, 1) = (val * 2) % (2 * h) /\ Shl(val, 1) \in Word
  <2>1. Shl(val, 1) = (val * Pow(1)) % WordCount /\ Shl(val, 1) \in Word
    BY <1>2, ShlIs
  <2> QED BY <1>1, <1>3, <2>1
<1>5. ASSUME NEW x \in Word
      PROVE  /\ Low(x, 1) = x % 2 /\ Shr(x, 1) = x \div 2
             /\ Shr(x, 1) \in Word
  <2>1. x \in Nat
    BY WordIs
  <2> QED BY <1>3, <2>1, LowIs, ShrIs
<1>6. CASE val < h
  <2>1. (val * 2) % (2 * h) = val * 2
    <3>1. val * 2 \in Nat /\ val * 2 < 2 * h /\ 2 * h \in Nat \ {0}
      BY <1>2, <1>6
    <3> QED BY <3>1, DivBelow
  <2>2. zigzag(val) = val * 2
    BY <1>1, <1>2, <1>4, <1>6, <2>1 DEF zigzag
  <2>3. (val * 2) % 2 = 0 /\ (val * 2) \div 2 = val
    BY <1>2
  <2>4. val * 2 \in Word
    BY <1>2, <1>6
  <2>5. unzigzag(val * 2) = val
    BY <1>5, <2>3, <2>4 DEF unzigzag
  <2> QED BY <1>1, <1>2, <1>6, <2>2, <2>4, <2>5
<1>7. CASE ~(val < h)
  <2>1. (val * 2) % (2 * h) = val * 2 - 2 * h
    <3>1. /\ val * 2 \in Nat /\ 2 * h \in Nat \ {0} /\ val * 2 - 2 * h \in Nat
          /\ val * 2 - 2 * h < 2 * h /\ val * 2 = 1 * (2 * h) + (val * 2 - 2 * h)
      BY <1>2, <1>7
    <3> DEFINE r == val * 2 - 2 * h
               d == 2 * h
               a == val * 2
    <3> HIDE DEF r, d, a
    <3>2. a % d = r
      BY <3>1, DivUnique DEF r, d, a
    <3> QED BY <3>2 DEF r, d, a
  <2>2. zigzag(val) = 2 * (2 * h - val) - 1
    <3>1. val >= WordCount \div 2
      BY <1>1, <1>2, <1>7
    <3>2. zigzag(val) = Complement(val * 2 - 2 * h)
      BY <1>4, <2>1, <3>1 DEF zigzag
    <3>3. Complement(val * 2 - 2 * h) = 2 * h - 1 - (val * 2 - 2 * h)
      BY <1>1 DEF Complement
    <3> QED BY <1>2, <3>2, <3>3
  <2> DEFINE y == 2 * (2 * h - val) - 1
  <2>3. y \in Word /\ y % 2 = 1 /\ y \div 2 = 2 * h - val - 1
    BY <1>2, <1>7
  <2>4. unzigzag(y) = val
    <3>1. Low(y, 1) = 1 /\ Shr(y, 1) = 2 * h - val - 1
      BY <1>5, <2>3
    <3>2. unzigzag(y) = 2 * h - 1 - (2 * h - val - 1)
      BY <1>1, <3>1 DEF unzigzag, Complement
    <3> QED BY <1>2, <3>2
  <2> QED BY <1>1, <1>2, <1>7, <2>2, <2>3, <2>4
<1> QED BY <1>6, <1>7

\* The bytes of a number.
Digit(x, i) == (x \div Pow(B * i)) % Pow(B)

\* The value of a byte's place in a word.
LEMMA PowOfBytes ==
  ASSUME NEW i \in Nat
  PROVE  /\ B * i \in Nat /\ Pow(B * i) \in Nat \ {0}
         /\ Pow(B * (i + 1)) = Pow(B * i) * Pow(B)
<1> DEFINE j == B * i
<1>1. j \in Nat
  BY WordIs
<1>2. B * (i + 1) = j + B
  BY WordIs
<1> HIDE DEF j
<1>3. Pow(j + B) = Pow(j) * Pow(B) /\ Pow(j) \in Nat \ {0}
  BY <1>1, PowAdd, PowIs, WordIs
<1> QED BY <1>1, <1>2, <1>3 DEF j

\* A byte of a word is a byte.
LEMMA DigitIs ==
  ASSUME NEW x \in Nat, NEW i \in Nat
  PROVE  Digit(x, i) \in Byte
<1>1. x \div Pow(B * i) \in Nat
  BY PowOfBytes, DivIs
<1> DEFINE y == x \div Pow(B * i)
<1> HIDE DEF y
<1>2. y % Pow(B) \in Byte
  <2>1. y \in Nat /\ Pow(B) \in Nat \ {0}
    BY <1>1, WordIs DEF y
  <2>2. y % Pow(B) \in Nat /\ y % Pow(B) < Pow(B)
    BY <2>1, DivIs
  <2> QED BY <2>1, <2>2, WordIs
<1> QED BY <1>2 DEF Digit, y

\* The bytes of a word, of which there are B.
LEMMA BytesIs ==
  ASSUME NEW val \in Nat
  PROVE  /\ Bytes(val) \in [1 .. B -> Byte] /\ Bytes(val) \in Seq(Byte)
         /\ Len(Bytes(val)) = B
         /\ \A i \in 0 .. B - 1 : Bytes(val)[i + 1] = Digit(val, i)
<1>1. Bytes(val) = [i \in 1 .. B |-> Low(Shr(val, B * (i - 1)), B)]
  BY DEF Bytes
<1>2. ASSUME NEW i \in 1 .. B
      PROVE  /\ Low(Shr(val, B * (i - 1)), B) = Digit(val, i - 1)
             /\ Digit(val, i - 1) \in Byte
  <2> DEFINE j == i - 1
  <2>1. j \in Nat
    BY WordIs
  <2> HIDE DEF j
  <2>2. B * j \in Nat
    BY <2>1, PowOfBytes
  <2>3. Shr(val, B * j) = val \div Pow(B * j) /\ Shr(val, B * j) \in Nat
    BY <2>2, ShrIs
  <2>4. Low(Shr(val, B * j), B) = Shr(val, B * j) % Pow(B)
    BY <2>3, LowIs, WordIs
  <2>5. Low(Shr(val, B * j), B) = Digit(val, j)
    BY <2>3, <2>4 DEF Digit
  <2>6. Digit(val, j) \in Byte
    BY <2>1, DigitIs
  <2> QED BY <2>5, <2>6 DEF j
<1>3. Bytes(val) = [i \in 1 .. B |-> Digit(val, i - 1)]
  BY <1>1, <1>2
<1>4. Bytes(val) \in [1 .. B -> Byte]
  BY <1>2, <1>3
<1>5. Bytes(val) \in Seq(Byte) /\ Len(Bytes(val)) = B
  <2>1. DOMAIN Bytes(val) = 1 .. B /\ B \in Nat
    BY <1>3, WordIs
  <2> DEFINE b == Bytes(val)
             S == Byte
  <2> HIDE DEF b, S
  <2>2. b \in [1 .. B -> S] /\ B \in Nat
    BY <1>4, <2>1 DEF b, S
  <2>3. b \in Seq(S) /\ Len(b) = B
    BY <2>2
  <2> QED BY <2>3 DEF b, S
<1>6. ASSUME NEW i \in 0 .. B - 1 PROVE Bytes(val)[i + 1] = Digit(val, i)
  <2>1. i + 1 \in 1 .. B /\ (i + 1) - 1 = i
    BY WordIs
  <2> QED BY <1>3, <2>1
<1> QED BY <1>4, <1>5, <1>6

\* Numbers with the same lowest bytes.
LEMMA SameDigits ==
  ASSUME NEW x \in Nat, NEW y \in Nat, NEW n \in Nat,
         \A i \in 0 .. n - 1 : Digit(x, i) = Digit(y, i)
  PROVE  x % Pow(B * n) = y % Pow(B * n)
<1> DEFINE Bad == {k \in 0 .. n : x % Pow(B * k) # y % Pow(B * k)}
<1>1. SUFFICES ASSUME Bad # {} PROVE FALSE
  OBVIOUS
<1>2. PICK k \in Bad : \A m \in Bad : k <= m
  <2>1. Bad \in SUBSET Nat
    OBVIOUS
  <2> HIDE DEF Bad
  <2> QED BY <1>1, <2>1, LeastMember
<1>3. k \in 0 .. n /\ x % Pow(B * k) # y % Pow(B * k)
  BY <1>2
<1>4. k # 0
  <2>1. SUFFICES ASSUME k = 0 PROVE FALSE
    OBVIOUS
  <2>2. B * k = 0 /\ Pow(0) = 1
    BY <2>1, WordIs, PowIs
  <2>3. x % 1 = 0 /\ y % 1 = 0
    OBVIOUS
  <2> QED BY <1>3, <2>2, <2>3
<1>5. PICK j \in Nat : k = j + 1
  <2>1. k - 1 \in Nat /\ k = (k - 1) + 1
    BY <1>3, <1>4
  <2> QED BY <2>1
<1>6. j \in 0 .. n /\ j \in 0 .. n - 1 /\ ~(k <= j)
  BY <1>3, <1>5
<1>7. x % Pow(B * j) = y % Pow(B * j)
  <2>1. j \notin Bad
    BY <1>2, <1>6
  <2> QED BY <1>6, <2>1
<1> HIDE DEF Bad
<1>8. /\ x % Pow(B * k) = (x % Pow(B * j)) + Pow(B * j) * Digit(x, j)
      /\ y % Pow(B * k) = (y % Pow(B * j)) + Pow(B * j) * Digit(y, j)
  <2> DEFINE d == Pow(B * j)
             e == Pow(B)
  <2>1. d \in Nat \ {0} /\ e \in Nat \ {0} /\ Pow(B * k) = d * e
    BY <1>5, PowOfBytes, WordIs
  <2>2. Digit(x, j) = (x \div d) % e /\ Digit(y, j) = (y \div d) % e
    BY DEF Digit
  <2> HIDE DEF d, e
  <2>3. x % (d * e) = (x % d) + d * ((x \div d) % e)
    BY <2>1, ModOfTwo
  <2>4. y % (d * e) = (y % d) + d * ((y \div d) % e)
    BY <2>1, ModOfTwo
  <2> QED BY <2>1, <2>2, <2>3, <2>4, Zenon DEF d
<1>9. Digit(x, j) = Digit(y, j)
  BY <1>6
<1> QED BY <1>3, <1>7, <1>8, <1>9

\* WordOf is a recursive function, which has to be shown to exist before
\* anything else can be known of it.
FromOK(f, bytes, first, k) ==
  /\ f \in [k .. B -> Nat]
  /\ f[B] = 0
  /\ \A i \in k .. B - 1 : f[i] = bytes[first + i] + Pow(B) * f[i + 1]

\* There is a function that adds up the bytes of a word from the highest on.
LEMMA FromExists ==
  ASSUME NEW bytes, NEW first \in Nat,
         \A i \in 0 .. B - 1 : bytes[first + i] \in Nat
  PROVE  \E f : FromOK(f, bytes, first, 0)
<1>1. B \in Nat /\ Pow(B) \in Nat
  BY WordIs
<1> DEFINE Bad == {j \in 0 .. B : ~\E f : FromOK(f, bytes, first, B - j)}
<1>2. SUFFICES ASSUME B \in Bad PROVE FALSE
  BY <1>1
<1>3. PICK j \in Bad : \A m \in Bad : j <= m
  <2>1. Bad \in SUBSET Nat /\ Bad # {}
    BY <1>2
  <2> HIDE DEF Bad
  <2> QED BY <2>1, LeastMember
<1> DEFINE k == B - j
<1>4. j \in 0 .. B /\ ~\E f : FromOK(f, bytes, first, k)
  BY <1>3
<1>5. j # 0
  <2>1. SUFFICES ASSUME j = 0 PROVE FALSE
    OBVIOUS
  <2> DEFINE f == [i \in B .. B |-> 0]
  <2>2. FromOK(f, bytes, first, B)
    BY <1>1 DEF FromOK
  <2>3. B - j = B
    BY <1>1, <2>1
  <2> QED BY <1>4, <2>2, <2>3
<1>6. PICK g : FromOK(g, bytes, first, k + 1)
  <2>1. j - 1 \in 0 .. B /\ ~(j <= j - 1) /\ B - (j - 1) = k + 1
    BY <1>1, <1>4, <1>5
  <2>2. j - 1 \notin Bad
    BY <1>3, <2>1
  <2>3. \E g : FromOK(g, bytes, first, B - (j - 1))
    BY <2>1, <2>2
  <2> QED BY <2>1, <2>3
<1>7. k \in 0 .. B - 1
  BY <1>1, <1>4, <1>5
<1> HIDE DEF k, Bad
<1> DEFINE f == [i \in k .. B |->
                   IF i = k THEN bytes[first + k] + Pow(B) * g[k + 1] ELSE g[i]]
<1>8. /\ g \in [k + 1 .. B -> Nat] /\ g[B] = 0
      /\ \A i \in k + 1 .. B - 1 : g[i] = bytes[first + i] + Pow(B) * g[i + 1]
  BY <1>6 DEF FromOK
<1>9. g[k + 1] \in Nat /\ bytes[first + k] \in Nat
  <2>1. k + 1 \in k + 1 .. B
    BY <1>1, <1>7
  <2> QED BY <1>7, <1>8, <2>1
<1>10. bytes[first + k] + Pow(B) * g[k + 1] \in Nat
  <2>1. Pow(B) * g[k + 1] \in Nat
    BY <1>1, <1>9
  <2> QED BY <1>9, <2>1
<1>11. /\ f \in [k .. B -> Nat]
       /\ f[k] = bytes[first + k] + Pow(B) * g[k + 1]
       /\ \A i \in k + 1 .. B : f[i] = g[i]
  <2>1. k \in k .. B /\ \A i \in k .. B : i # k => i \in k + 1 .. B
    BY <1>1, <1>7
  <2>2. \A i \in k + 1 .. B : i \in k .. B /\ i # k
    BY <1>1, <1>7
  <2> QED BY <1>8, <1>10, <2>1, <2>2
<1> HIDE DEF f
<1>12. FromOK(f, bytes, first, k)
  <2>1. f[B] = 0
    <3>1. B \in k + 1 .. B
      BY <1>1, <1>7
    <3> QED BY <1>8, <1>11, <3>1
  <2>2. ASSUME NEW i \in k .. B - 1 PROVE f[i] = bytes[first + i] + Pow(B) * f[i + 1]
    <3>1. i + 1 \in k + 1 .. B /\ (i # k => i \in k + 1 .. B - 1 /\ i \in k + 1 .. B)
      BY <1>1, <1>7
    <3>2. CASE i = k
      BY <1>11, <3>1, <3>2
    <3>3. CASE i # k
      BY <1>8, <1>11, <3>1, <3>3
    <3> QED BY <3>2, <3>3
  <2> QED BY <1>11, <2>1, <2>2 DEF FromOK
<1> QED BY <1>4, <1>12 DEF k

\* WordOf is the sum that any such function ends with.
LEMMA FromUnique ==
  ASSUME NEW bytes, NEW first \in Nat, NEW g, FromOK(g, bytes, first, 0)
  PROVE  \E f : FromOK(f, bytes, first, 0) /\ WordOf(bytes, first) = f[0]
<1> DEFINE Equal(e) == e = [i \in 0 .. B |->
                 IF i = B THEN 0 ELSE bytes[first + i] + 2 ^ B * e[i + 1]]
           f == CHOOSE e : Equal(e)
<1>1. WordOf(bytes, first) = f[0]
  BY DEF WordOf
<1>2. ASSUME NEW e
      PROVE Equal(e) <=> e = [i \in 0 .. B |->
                 IF i = B THEN 0 ELSE bytes[first + i] + Pow(B) * e[i + 1]]
  BY DEF Pow
<1> HIDE DEF Equal
<1>3. Equal(g)
  <2>1. g = [i \in 0 .. B |-> g[i]]
    BY DEF FromOK
  <2>2. \A i \in 0 .. B : i # B => i \in 0 .. B - 1
    BY WordIs
  <2>3. \A i \in 0 .. B :
          g[i] = IF i = B THEN 0 ELSE bytes[first + i] + Pow(B) * g[i + 1]
    BY <2>2 DEF FromOK
  <2>4. g = [i \in 0 .. B |->
               IF i = B THEN 0 ELSE bytes[first + i] + Pow(B) * g[i + 1]]
    BY <2>1, <2>3
  <2> QED BY <1>2, <2>4
<1>4. Equal(f)
  BY <1>3
<1> HIDE DEF f
<1>5. f = [i \in 0 .. B |->
             IF i = B THEN 0 ELSE bytes[first + i] + Pow(B) * f[i + 1]]
  BY <1>2, <1>4
<1>6. f = [i \in 0 .. B |-> f[i]]
  BY <1>5
<1>7. \A i \in 0 .. B :
        f[i] = IF i = B THEN 0 ELSE bytes[first + i] + Pow(B) * f[i + 1]
  BY <1>5
<1> DEFINE Bad == {j \in 0 .. B : f[B - j] # g[B - j]}
<1>8. Bad = {}
  <2>1. SUFFICES ASSUME Bad # {} PROVE FALSE
    OBVIOUS
  <2>2. PICK j \in Bad : \A m \in Bad : j <= m
    <3>1. Bad \in SUBSET Nat
      OBVIOUS
    <3> HIDE DEF Bad
    <3> QED BY <2>1, <3>1, LeastMember
  <2> DEFINE k == B - j
  <2>3. j \in 0 .. B /\ f[k] # g[k] /\ k \in 0 .. B
    BY <2>2, WordIs
  <2>4. j # 0
    <3>1. SUFFICES ASSUME j = 0 PROVE FALSE
      OBVIOUS
    <3>2. k = B /\ B \in 0 .. B
      BY <3>1, WordIs
    <3> QED BY <1>7, <2>3, <3>2 DEF FromOK
  <2>5. /\ j - 1 \in 0 .. B /\ ~(j <= j - 1) /\ B - (j - 1) = k + 1
        /\ k \in 0 .. B - 1 /\ k # B
    BY <2>3, <2>4, WordIs
  <2>6. f[k + 1] = g[k + 1]
    <3>1. j - 1 \notin Bad
      BY <2>2, <2>5
    <3> QED BY <2>5, <3>1
  <2> HIDE DEF k, Bad
  <2> QED BY <1>7, <2>3, <2>5, <2>6 DEF FromOK
<1>9. f = g
  <2>1. \A i \in 0 .. B : B - i \in 0 .. B /\ B - (B - i) = i
    BY WordIs
  <2>2. \A i \in 0 .. B : f[i] = g[i]
    BY <1>8, <2>1
  <2>3. g = [i \in 0 .. B |-> g[i]]
    BY DEF FromOK
  <2> QED BY <1>6, <2>2, <2>3
<1> QED BY <1>1, <1>9

\* A word and its bytes.
LEMMA WordOfIs ==
  ASSUME NEW bytes, NEW first \in Nat,
         \A i \in 0 .. B - 1 : bytes[first + i] \in Byte
  PROVE  /\ WordOf(bytes, first) \in Word
         /\ \A i \in 0 .. B - 1 : Digit(WordOf(bytes, first), i) = bytes[first + i]
<1>1. B \in Nat /\ Pow(B) \in Nat \ {0}
  BY WordIs
<1>2. \A i \in 0 .. B - 1 : bytes[first + i] \in Nat /\ bytes[first + i] < Pow(B)
  BY WordIs
<1>3. PICK f : FromOK(f, bytes, first, 0) /\ WordOf(bytes, first) = f[0]
  BY <1>2, FromExists, FromUnique
<1>4. /\ f \in [0 .. B -> Nat] /\ f[B] = 0
      /\ \A i \in 0 .. B - 1 : f[i] = bytes[first + i] + Pow(B) * f[i + 1]
  BY <1>3 DEF FromOK
<1>5. f[0] \in Nat
  BY <1>1, <1>4
<1>6. ASSUME NEW i \in 0 .. B - 1
      PROVE  f[i] % Pow(B) = bytes[first + i] /\ f[i] \div Pow(B) = f[i + 1]
             /\ f[i] \in Nat
  <2> DEFINE d == Pow(B)
             r == bytes[first + i]
             q == f[i + 1]
  <2>1. i \in 0 .. B /\ i + 1 \in 0 .. B
    BY <1>1
  <2>2. f[i] \in Nat /\ q \in Nat /\ r \in Nat /\ r < d /\ d \in Nat \ {0}
        /\ f[i] = r + d * q
    BY <1>1, <1>2, <1>4, <2>1
  <2> HIDE DEF d, r, q
  <2>3. f[i] = q * d + r
    BY <2>2
  <2>4. f[i] \div d = q /\ f[i] % d = r
    BY <2>2, <2>3, DivUnique, Zenon
  <2> QED BY <2>2, <2>4 DEF d, r, q
<1> DEFINE Bad == {i \in 0 .. B : f[0] \div Pow(B * i) # f[i]}
<1>7. Bad = {}
  <2>1. SUFFICES ASSUME Bad # {} PROVE FALSE
    OBVIOUS
  <2>2. PICK k \in Bad : \A m \in Bad : k <= m
    <3>1. Bad \in SUBSET Nat
      OBVIOUS
    <3> HIDE DEF Bad
    <3> QED BY <2>1, <3>1, LeastMember
  <2>3. k \in 0 .. B /\ f[0] \div Pow(B * k) # f[k]
    BY <2>2
  <2>4. k # 0
    <3>1. SUFFICES ASSUME k = 0 PROVE FALSE
      OBVIOUS
    <3>2. B * k = 0 /\ Pow(0) = 1
      BY <1>1, <3>1, PowIs
    <3>3. f[0] \div 1 = f[0]
      BY <1>5
    <3> QED BY <2>3, <3>1, <3>2, <3>3
  <2>5. PICK j \in Nat : k = j + 1
    <3>1. k - 1 \in Nat /\ k = (k - 1) + 1
      BY <2>3, <2>4
    <3> QED BY <3>1
  <2>6. j \in 0 .. B /\ j \in 0 .. B - 1 /\ ~(k <= j)
    BY <1>1, <2>3, <2>5
  <2>7. f[0] \div Pow(B * j) = f[j]
    <3>1. j \notin Bad
      BY <2>2, <2>6
    <3> QED BY <2>6, <3>1
  <2> HIDE DEF Bad
  <2>8. f[0] \div Pow(B * k) = (f[0] \div Pow(B * j)) \div Pow(B)
    <3> DEFINE d == Pow(B * j)
               e == Pow(B)
               a == f[0]
    <3>1. d \in Nat \ {0} /\ e \in Nat \ {0} /\ Pow(B * k) = d * e /\ a \in Nat
      BY <1>5, <2>5, PowOfBytes, WordIs
    <3> HIDE DEF d, e, a
    <3>2. (a \div d) \div e = a \div (d * e)
      BY <3>1, DivDiv
    <3> QED BY <3>1, <3>2, Zenon DEF d, e, a
  <2>9. f[j] \div Pow(B) = f[j + 1]
    BY <1>6, <2>6
  <2> QED BY <2>3, <2>5, <2>7, <2>8, <2>9
<1>8. \A i \in 0 .. B : f[0] \div Pow(B * i) = f[i]
  BY <1>7
<1> HIDE DEF Bad
<1>9. f[0] \in Word
  <2>1. f[0] \div Pow(B * B) = 0
    <3>1. B \in 0 .. B
      BY <1>1
    <3> QED BY <1>4, <1>8, <3>1
  <2>2. WordCount = Pow(B * B) /\ WordCount \in Nat \ {0} /\ Word = 0 .. WordCount - 1
    BY WordIs
  <2>3. f[0] < 1 * WordCount
    BY <1>5, <2>1, <2>2, DivBelow
  <2> QED BY <1>5, <2>2, <2>3
<1>10. ASSUME NEW i \in 0 .. B - 1 PROVE Digit(f[0], i) = bytes[first + i]
  <2>1. i \in 0 .. B
    BY <1>1
  <2>2. f[0] \div Pow(B * i) = f[i]
    BY <1>8, <2>1
  <2> QED BY <1>6, <2>2 DEF Digit
<1> QED BY <1>3, <1>9, <1>10

\* A word is read from the bytes it was written as (the memcpy of a uint64_t).
LEMMA WordOfBytes ==
  ASSUME NEW bytes, NEW first \in Nat, NEW val \in Word,
         \A i \in 0 .. B - 1 : bytes[first + i] = Digit(val, i)
  PROVE  WordOf(bytes, first) = val
<1> DEFINE v == WordOf(bytes, first)
<1>1. val \in Nat /\ val < WordCount
  BY WordIs
<1>2. \A i \in 0 .. B - 1 : bytes[first + i] \in Byte
  <2>1. \A i \in 0 .. B - 1 : i \in Nat
    BY WordIs
  <2> QED BY <1>1, <2>1, DigitIs
<1>3. v \in Word /\ \A i \in 0 .. B - 1 : Digit(v, i) = Digit(val, i)
  BY <1>2, WordOfIs
<1> HIDE DEF v
<1>4. v \in Nat /\ v < WordCount
  BY <1>3, WordIs
<1>5. v % Pow(B * B) = val % Pow(B * B)
  BY <1>1, <1>3, <1>4, SameDigits, WordIs
<1>6. v % WordCount = v /\ val % WordCount = val
  BY <1>1, <1>4, DivBelow, WordIs
<1> QED BY <1>5, <1>6, WordIs DEF v

\* The lowest bits of a number are those of its low part.
LEMMA ModPow ==
  ASSUME NEW x \in Nat, NEW a \in Nat, NEW b \in Nat, a <= b
  PROVE  (x % Pow(b)) % Pow(a) = x % Pow(a)
<1> DEFINE d == Pow(a)
           e == Pow(b - a)
<1>1. b - a \in Nat /\ a + (b - a) = b
  OBVIOUS
<1>2. d \in Nat \ {0} /\ e \in Nat \ {0}
  BY <1>1, PowIs
<1>3. Pow(b) = d * e
  BY <1>1, PowAdd
<1> HIDE DEF d, e
<1>4. (x % (d * e)) % d = x % d
  BY <1>2, PartsOfTwo
<1> QED BY <1>3, <1>4 DEF d

\* The high part of the lowest bits.
LEMMA DivOfMod ==
  ASSUME NEW x \in Nat, NEW a \in Nat, NEW b \in Nat
  PROVE  (x % Pow(a + b)) \div Pow(a) = (x \div Pow(a)) % Pow(b)
<1> DEFINE d == Pow(a)
           e == Pow(b)
<1>1. d \in Nat \ {0} /\ e \in Nat \ {0}
  BY PowIs
<1>2. Pow(a + b) = d * e
  BY PowAdd
<1> HIDE DEF d, e
<1>3. (x % (d * e)) \div d = (x \div d) % e
  BY <1>1, PartsOfTwo
<1> QED BY <1>2, <1>3 DEF d, e

\* A word other than 0 has a highest bit.
LEMMA HighestBitIs ==
  ASSUME NEW val \in 1 .. WordCount - 1
  PROVE  /\ HighestBit(val) \in 0 .. WordBits - 1
         /\ Pow(HighestBit(val)) <= val /\ val < 2 * Pow(HighestBit(val))
<1>1. /\ val \in Nat \ {0} /\ WordBits \in Nat /\ val < Pow(WordBits)
  BY WordIs
<1> DEFINE S == {n \in Nat : val < Pow(n)}
<1>2. PICK m \in S : \A n \in S : m <= n
  <2>1. S \in SUBSET Nat /\ WordBits \in S
    BY <1>1
  <2> HIDE DEF S
  <2> QED BY <2>1, LeastMember
<1>3. m \in Nat /\ val < Pow(m) /\ m <= WordBits
  BY <1>1, <1>2
<1>4. m # 0
  BY <1>1, <1>3, PowIs
<1>5. PICK b \in Nat : m = b + 1
  <2>1. m - 1 \in Nat /\ m = (m - 1) + 1
    BY <1>3, <1>4
  <2> QED BY <2>1
<1>6. Pow(b) \in Nat \ {0} /\ val < 2 * Pow(b)
  BY <1>3, <1>5, PowIs
<1>7. Pow(b) <= val
  <2>1. ~(m <= b)
    BY <1>5
  <2>2. b \notin S
    BY <1>2, <2>1
  <2> QED BY <1>1, <1>6, <2>2
<1>8. b \in 0 .. WordBits - 1
  BY <1>1, <1>3, <1>5
<1>9. Shr(val, b) = 1
  <2> DEFINE d == Pow(b)
             r == val - d
  <2>1. d \in Nat \ {0} /\ r \in Nat /\ r < d /\ val = 1 * d + r
    BY <1>1, <1>6, <1>7
  <2>2. Shr(val, b) = val \div d
    BY <1>1, ShrIs
  <2> HIDE DEF d, r
  <2>3. val \div d = 1
    BY <1>1, <2>1, DivUnique
  <2> QED BY <2>2, <2>3
<1>10. HighestBit(val) \in 0 .. WordBits - 1 /\ Shr(val, HighestBit(val)) = 1
  BY <1>8, <1>9 DEF HighestBit
<1> DEFINE h == HighestBit(val)
<1>11. h \in Nat /\ val \div Pow(h) = 1
  BY <1>1, <1>10, ShrIs, WordIs
<1> HIDE DEF h
<1>12. Pow(h) <= val /\ val < 2 * Pow(h)
  <2> DEFINE d == Pow(h)
             r == val % d
  <2>1. d \in Nat \ {0} /\ val \div d = 1
    BY <1>11, PowIs
  <2>2. r \in Nat /\ r < d /\ val = (val \div d) * d + r
    <3> HIDE DEF d
    <3> QED BY <1>1, <2>1, DivIs
  <2> HIDE DEF d, r
  <2>3. d <= val /\ val < 2 * d
    BY <1>1, <2>1, <2>2
  <2> QED BY <2>3 DEF d
<1> QED BY <1>10, <1>12 DEF h

\* The lowest bit of a number, from the number's lowest bits.
LEMMA LowestBitIs ==
  ASSUME NEW val \in Nat, NEW b \in 0 .. WordBits - 1, val % Pow(b + 1) = Pow(b)
  PROVE  LowestBit(val) = b
<1>1. b \in Nat /\ WordBits \in Nat /\ Low(val, b + 1) = Pow(b)
  BY LowIs, WordIs
\* The number is a multiple of the lower powers.
<1>2. ASSUME NEW c \in Nat, NEW e \in Nat, c < e, val % Pow(e + 1) = Pow(e)
      PROVE  val % Pow(c + 1) = 0
  <2>1. val % Pow(c + 1) = Pow(e) % Pow(c + 1)
    BY <1>2, ModPow
  <2> DEFINE d == Pow(c + 1)
             q == Pow(e - (c + 1))
  <2>2. e - (c + 1) \in Nat /\ (e - (c + 1)) + (c + 1) = e /\ c + 1 \in Nat
    BY <1>2
  <2>3. Pow(e) = q * d /\ q \in Nat /\ d \in Nat \ {0}
    <3> DEFINE f == e - (c + 1)
    <3>1. f \in Nat /\ f + (c + 1) = e
      BY <2>2
    <3> HIDE DEF f
    <3>2. Pow(f + (c + 1)) = Pow(f) * Pow(c + 1) /\ Pow(f) \in Nat /\ Pow(c + 1) \in Nat \ {0}
      BY <2>2, <3>1, PowAdd, PowIs
    <3> QED BY <3>1, <3>2 DEF f
  <2>4. Pow(e) \in Nat
    BY PowIs
  <2> HIDE DEF d, q
  <2>5. Pow(e) % d = 0
    <3> DEFINE a == Pow(e)
    <3>1. a \in Nat /\ a = q * d + 0
      BY <2>3, <2>4
    <3> HIDE DEF a
    <3>2. a % d = 0
      <4>1. 0 \in Nat /\ 0 < d
        BY <2>3
      <4> QED BY <2>3, <3>1, <4>1, DivUnique
    <3> QED BY <3>2 DEF a
  <2> QED BY <2>1, <2>5 DEF d
<1>3. ASSUME NEW c \in 0 .. WordBits - 1, Low(val, c + 1) = Pow(c)
      PROVE  c = b
  <2>1. c \in Nat /\ val % Pow(c + 1) = Pow(c)
    BY <1>1, <1>3, LowIs
  <2>2. Pow(c) # 0 /\ Pow(b) # 0
    BY <1>1, <2>1, PowIs
  <2>3. ~(c < b)
    BY <1>1, <1>2, <2>1, <2>2
  <2>4. ~(b < c)
    BY <1>1, <1>2, <2>1, <2>2
  <2> QED BY <1>1, <2>1, <2>3, <2>4
<1>4. LowestBit(val) = CHOOSE c \in 0 .. WordBits - 1 : Low(val, c + 1) = Pow(c)
  BY DEF LowestBit, Pow
<1> QED BY <1>1, <1>3, <1>4

\* How many zeros come before the lowest bit of a value that fits one byte
\* less than a word: the fewest that leave the value room beside them.
ShortBits(val) == encode_bits(HighestBit(2 * val + 1))

\* A value that is not too long for it is given the least number of bytes with
\* B - 1 bits of it each, one less than which is ShortBits.
LEMMA ShortBitsIs ==
  ASSUME NEW val \in Nat, val < Pow(B * (B - 1))
  PROVE  /\ 2 * val + 1 \in 1 .. WordCount - 1
         /\ ShortBits(val) \in 0 .. B - 1
         /\ val < Pow((ShortBits(val) + 1) * (B - 1))
         /\ ShortBits(val) # 0 => Pow(ShortBits(val) * (B - 1)) <= val
<1> DEFINE c == B - 1
           w == 2 * val + 1
           h == HighestBit(w)
           k == ShortBits(val)
<1>1. B \in Nat /\ B >= 2 /\ c \in Nat /\ c >= 1 /\ B = c + 1
  BY WordIs
<1>2. B * c \in Nat /\ Pow(B * c + 1) = 2 * Pow(B * c) /\ Pow(B * c) \in Nat \ {0}
  BY <1>1, PowIs
<1>3. Pow(B * c + 1) <= WordCount
  <2>1. WordBits = B * c + B
    BY <1>1, WordIs
  <2>2. B * c + 1 <= WordBits /\ B * c + 1 \in Nat /\ WordBits \in Nat
    BY <1>1, <1>2, <2>1
  <2> HIDE DEF c
  <2> QED BY <2>2, PowOrdered, WordIs
<1>4. w \in 1 .. WordCount - 1 /\ w < Pow(B * c + 1)
  BY <1>2, <1>3, WordIs
<1> HIDE DEF c
<1>5. h \in Nat /\ Pow(h) <= w /\ w < 2 * Pow(h) /\ Pow(h + 1) = 2 * Pow(h) /\ Pow(h) \in Nat
  <2>1. h \in 0 .. WordBits - 1 /\ Pow(h) <= w /\ w < 2 * Pow(h)
    <3> HIDE DEF w
    <3> QED BY <1>4, HighestBitIs
  <2>2. h \in Nat
    BY <2>1, WordIs
  <2> QED BY <2>1, <2>2, PowIs
<1>6. k = IF h = 0 THEN 0 ELSE (h - 1) \div c
  BY DEF ShortBits, encode_bits, c
<1> HIDE DEF h, w, k
<1>7. h <= B * c
  <2>1. SUFFICES ASSUME B * c < h PROVE FALSE
    BY <1>2, <1>5
  <2>2. B * c + 1 <= h
    BY <1>2, <1>5, <2>1
  <2>3. Pow(B * c + 1) <= Pow(h)
    BY <1>2, <1>5, <2>2, PowOrdered
  <2> DEFINE p == Pow(B * c + 1)
  <2>4. w \in Nat /\ p \in Nat /\ w < p /\ p <= Pow(h) /\ Pow(h) \in Nat /\ Pow(h) <= w
    BY <1>2, <1>4, <1>5, <2>3
  <2> HIDE DEF p
  <2> QED BY <2>4
<1>8. k \in Nat /\ k < B /\ h <= (k + 1) * c /\ (k # 0 => k * c + 1 <= h)
  <2>1. CASE h = 0
    <3>1. k = 0 /\ 1 * c = c
      BY <1>1, <1>6, <2>1
    <3> QED BY <1>1, <2>1, <3>1
  <2>2. CASE h # 0
    <3> DEFINE g == h - 1
    <3>1. g \in Nat /\ h = g + 1 /\ g < B * c /\ k = g \div c
      BY <1>2, <1>5, <1>6, <1>7, <2>2
    <3> HIDE DEF g
    <3>2. c \in Nat \ {0}
      BY <1>1
    <3>3. k \in Nat /\ g % c \in Nat /\ g % c < c /\ g = k * c + (g % c)
      BY <3>1, <3>2, DivIs
    <3>4. k < B
      BY <1>1, <3>1, <3>2, DivBelow
    <3>5. (k + 1) * c = k * c + c /\ k * c \in Nat
      BY <3>2, <3>3
    <3> QED BY <3>1, <3>2, <3>3, <3>4, <3>5
  <2> QED BY <2>1, <2>2
<1>9. val < Pow((k + 1) * c)
  <2> DEFINE m == (k + 1) * c
  <2>1. m \in Nat /\ h <= m
    BY <1>1, <1>8
  <2> HIDE DEF m
  <2>2. Pow(h) <= Pow(m) /\ Pow(m) \in Nat
    BY <1>5, <2>1, PowOrdered
  <2>3. 2 * val + 1 < 2 * Pow(m)
    BY <1>5, <2>2 DEF w
  <2>4. val < Pow(m)
    BY <2>2, <2>3
  <2> QED BY <2>4 DEF m
<1>10. ASSUME k # 0 PROVE Pow(k * c) <= val
  <2> DEFINE m == k * c
  <2>1. m \in Nat /\ m + 1 <= h
    BY <1>1, <1>8, <1>10
  <2> HIDE DEF m
  <2>2. Pow(m + 1) <= Pow(h) /\ Pow(m + 1) = 2 * Pow(m) /\ Pow(m) \in Nat
    <3>1. m + 1 \in Nat
      BY <2>1
    <3>2. Pow(m + 1) <= Pow(h)
      BY <1>5, <2>1, <3>1, PowOrdered
    <3> QED BY <2>1, <3>2, PowIs
  <2>3. 2 * Pow(m) <= 2 * val + 1
    BY <1>5, <2>2 DEF w
  <2>4. Pow(m) <= val
    BY <2>2, <2>3
  <2> QED BY <2>4 DEF m
<1>11. k \in 0 .. B - 1
  BY <1>1, <1>8
<1> QED BY <1>4, <1>9, <1>10, <1>11 DEF c, w, k

\* The number whose lowest bytes a short encoding is.
ShortNumber(val) == (2 * val + 1) * Pow(ShortBits(val))

\* The number whose lowest bytes encode such a value: the value, below it a 1,
\* and below that as many zeros as bytes follow the first.
LEMMA ShortNumberIs ==
  ASSUME NEW val \in Nat, val < Pow(B * (B - 1))
  PROVE  /\ ShortNumber(val) \in Word
         /\ ShortNumber(val) < Pow(B * (ShortBits(val) + 1))
         /\ ShortNumber(val) \div Pow(ShortBits(val) + 1) = val
         /\ ShortNumber(val) % Pow(ShortBits(val) + 1) = Pow(ShortBits(val))
         /\ encode_unsigned(val) = SubSeq(Bytes(ShortNumber(val)), 1, ShortBits(val) + 1)
<1> DEFINE k == ShortBits(val)
           w == 2 * val + 1
           e == ShortNumber(val)
           d == Pow(k)
<1>1. /\ B \in Nat /\ B >= 2 /\ k \in 0 .. B - 1 /\ k \in Nat
      /\ w \in 1 .. WordCount - 1 /\ val < Pow((k + 1) * (B - 1))
  BY ShortBitsIs, WordIs
<1>2. d \in Nat \ {0} /\ Pow(k + 1) = 2 * d
  BY <1>1, PowIs
<1>3. e = w * d
  BY DEF ShortNumber
<1>4. e < Pow(B * (k + 1))
  <2> DEFINE m == (k + 1) * (B - 1)
             p == Pow(m)
  <2>1. m \in Nat /\ B * (k + 1) = (m + 1) + k
    <3>1. PICK c \in Nat : B = c + 1
      <4>1. B - 1 \in Nat /\ B = (B - 1) + 1
        BY <1>1
      <4> QED BY <4>1
    <3> HIDE DEF k
    <3>2. (c + 1) * (k + 1) = (k + 1) * c + (k + 1) /\ (k + 1) * c \in Nat
      BY <1>1, <3>1
    <3> QED BY <1>1, <3>1, <3>2
  <2>2. Pow(B * (k + 1)) = Pow(m + 1) * d /\ Pow(m + 1) = 2 * p /\ p \in Nat
    <3> HIDE DEF m
    <3>1. m + 1 \in Nat
      BY <2>1
    <3> QED BY <1>1, <2>1, <3>1, PowAdd, PowIs
  <2>3. w < 2 * p
    <3> HIDE DEF m, p
    <3> QED BY <1>1, <2>2 DEF p, m
  <2> HIDE DEF d, m, p, w, e
  <2>4. w * d + d <= (2 * p) * d
    <3>1. w \in Nat /\ 2 * p \in Nat /\ d \in Nat
      BY <1>1, <1>2, <2>2
    <3> QED BY <2>3, <3>1, MultipleOrdered
  <2>5. w * d \in Nat
    BY <1>1, <1>2
  <2> QED BY <1>2, <1>3, <2>2, <2>4, <2>5
<1>5. e \in Word
  <2>1. Pow(B * (k + 1)) <= WordCount
    <3>1. k + 1 \in 1 .. B /\ B * (k + 1) \in Nat /\ B * (k + 1) <= B * B
      <4>1. k + 1 \in 1 .. B
        BY <1>1
      <4> DEFINE n == k + 1
      <4> HIDE DEF n
      <4>2. B * n \in Nat /\ B * n <= B * B
        <5>1. CASE n = B
          BY <1>1, <5>1
        <5>2. CASE n # B
          <6>1. n \in Nat /\ n < B
            BY <1>1, <4>1, <5>2 DEF n
          <6>2. n * B + B <= B * B
            BY <1>1, <6>1, MultipleOrdered
          <6>3. n * B = B * n /\ B * n \in Nat
            BY <1>1, <6>1
          <6> QED BY <1>1, <6>2, <6>3
        <5> QED BY <5>1, <5>2
      <4> QED BY <4>1, <4>2 DEF n
    <3>2. B * B \in Nat
      BY <1>1
    <3> QED BY <3>1, <3>2, PowOrdered, WordIs
  <2>2. e \in Nat
    BY <1>1, <1>2, <1>3
  <2>3. Pow(B * (k + 1)) \in Nat
    <3> DEFINE n == k + 1
    <3>1. n \in Nat
      BY <1>1
    <3> HIDE DEF n
    <3>2. Pow(B * n) \in Nat
      BY <3>1, PowOfBytes
    <3> QED BY <3>2 DEF n
  <2> HIDE DEF e
  <2> QED BY <1>4, <2>1, <2>2, <2>3, WordIs
<1>6. e \div Pow(k + 1) = val /\ e % Pow(k + 1) = d
  <2> HIDE DEF d
  <2>1. e = val * (2 * d) + d
    BY <1>2, <1>3
  <2> DEFINE f == 2 * d
  <2>2. f \in Nat \ {0} /\ d \in Nat /\ d < f
    BY <1>2
  <2>3. e \in Nat
    BY <1>5, WordIs
  <2> HIDE DEF f, e
  <2>4. e \div f = val /\ e % f = d
    BY <2>1, <2>2, <2>3, DivUnique DEF f
  <2> QED BY <1>2, <2>4 DEF f
<1>7. Shr(val, B * (B - 1)) = 0
  <2> DEFINE m == B * (B - 1)
  <2>1. m \in Nat /\ val < Pow(m)
    BY <1>1
  <2> HIDE DEF m
  <2>2. Pow(m) \in Nat \ {0}
    BY <2>1, PowIs
  <2>3. val \div Pow(m) = 0
    BY <2>1, <2>2, DivBelow
  <2>4. Shr(val, m) = 0
    BY <2>1, <2>3, ShrIs
  <2> QED BY <2>4 DEF m
<1>8. Shl(val, 1) + 1 = w
  <2>1. Pow(1) = 2
    <3>1. Pow(0 + 1) = 2 * Pow(0) /\ Pow(0) = 1
      BY PowIs
    <3> QED BY <3>1
  <2>2. val * 2 < WordCount
    BY <1>1, WordIs
  <2>3. val * Pow(1) < WordCount
    BY <2>1, <2>2
  <2>4. Shl(val, 1) = val * Pow(1)
    BY <2>3, ShlIs
  <2> QED BY <2>1, <2>4
<1>9. Shl(w, k) = e
  <2>1. w \in Nat
    OBVIOUS
  <2>2. w * Pow(k) < WordCount
    <3>1. e < WordCount
      BY <1>5, WordIs
    <3> QED BY <1>3, <3>1
  <2> HIDE DEF w, k
  <2>3. Shl(w, k) = w * Pow(k)
    BY <1>1, <2>1, <2>2, ShlIs
  <2> QED BY <1>3, <2>3
<1>10. encode_bits(HighestBit(w)) = k
  BY DEF ShortBits
<1>11. encode_unsigned(val) = SubSeq(Bytes(e), 1, k + 1)
  <2> HIDE DEF w, k, e, d
  <2> QED BY <1>7, <1>8, <1>9, <1>10 DEF encode_unsigned
<1> QED BY <1>4, <1>5, <1>6, <1>11

\* The bytes of the encoding of such a value.
LEMMA ShortEncoding ==
  ASSUME NEW val \in Nat, val < Pow(B * (B - 1))
  PROVE  /\ encode_unsigned(val) \in Seq(Byte)
         /\ Len(encode_unsigned(val)) = ShortBits(val) + 1
         /\ \A i \in 0 .. ShortBits(val) :
              encode_unsigned(val)[i + 1] = Digit(ShortNumber(val), i)
<1> DEFINE k == ShortBits(val)
           e == ShortNumber(val)
           b == Bytes(e)
           s == encode_unsigned(val)
<1>1. k \in 0 .. B - 1 /\ B \in Nat
  BY ShortBitsIs, WordIs
<1>2. e \in Nat /\ s = SubSeq(b, 1, k + 1)
  BY ShortNumberIs, WordIs
<1> HIDE DEF k, e
<1>3. b \in Seq(Byte) /\ Len(b) = B /\ \A i \in 0 .. B - 1 : b[i + 1] = Digit(e, i)
  BY <1>2, BytesIs
<1> HIDE DEF b, s
<1>4. s \in Seq(Byte) /\ Len(s) = k + 1
  <2>1. k + 1 \in Nat /\ k + 1 <= Len(b)
    BY <1>1, <1>3
  <2> DEFINE S == Byte
  <2>2. b \in Seq(S)
    BY <1>3
  <2> HIDE DEF S
  <2>3. s \in Seq(S) /\ Len(s) = k + 1
    BY <1>2, <2>1, <2>2
  <2> QED BY <2>3 DEF S
<1>5. \A i \in 0 .. k : s[i + 1] = b[i + 1]
  BY <1>1, <1>2, <1>3
<1>6. \A i \in 0 .. k : i \in 0 .. B - 1
  BY <1>1
<1>7. \A i \in 0 .. k : s[i + 1] = Digit(e, i)
  BY <1>3, <1>5, <1>6
<1> QED BY <1>4, <1>7 DEF k, e, s

\* The lowest bytes of a number are those of its low part.
LEMMA DigitOfMod ==
  ASSUME NEW x \in Nat, NEW n \in Nat, NEW i \in Nat, i < n
  PROVE  Digit(x % Pow(B * n), i) = Digit(x, i)
<1> DEFINE a == B * i
           m == B * (n - i)
           q == x \div Pow(a)
<1>1. a \in Nat /\ m \in Nat /\ B * n = a + m /\ B \in Nat /\ B <= m
  <2>1. PICK j \in Nat : n = i + 1 + j
    <3>1. n - (i + 1) \in Nat /\ n = i + 1 + (n - (i + 1))
      OBVIOUS
    <3> QED BY <3>1
  <2>2. m = B + B * j /\ B * j \in Nat
    BY <2>1, WordIs
  <2> QED BY <2>1, <2>2, WordIs
<1> HIDE DEF a, m
<1>2. (x % Pow(a + m)) \div Pow(a) = q % Pow(m)
  BY <1>1, DivOfMod
<1>3. q \in Nat
  BY <1>1, PowIs, DivIs
<1> HIDE DEF q
<1>4. (q % Pow(m)) % Pow(B) = q % Pow(B)
  BY <1>1, <1>3, ModPow
<1> QED BY <1>1, <1>2, <1>4 DEF Digit, a, q

\* A word that does not fit follows a byte of zeros.
LEMMA LongEncoding ==
  ASSUME NEW val \in Word, ~(val < Pow(B * (B - 1)))
  PROVE  /\ encode_unsigned(val) \in Seq(Byte)
         /\ Len(encode_unsigned(val)) = kMaxSize
         /\ encode_unsigned(val)[1] = 0
         /\ \A i \in 0 .. B - 1 : encode_unsigned(val)[i + 2] = Digit(val, i)
<1> DEFINE c == B - 1
           m == B * c
           p == Pow(m)
           high == Shr(val, m)
           x == val * Pow(B)
           y == Shl(val, B)
           b == Bytes(y)
           s == encode_unsigned(val)
<1>1. /\ B \in Nat /\ B >= 2 /\ c \in Nat /\ B = c + 1 /\ m \in Nat /\ val \in Nat
      /\ p \in Nat \ {0} /\ WordBits = m + B
  <2>1. B \in Nat /\ B >= 2 /\ c \in Nat /\ B = c + 1 /\ m \in Nat /\ val \in Nat
    BY WordIs
  <2>2. WordBits = m + B
    BY <2>1, WordIs
  <2> HIDE DEF m
  <2> QED BY <2>1, <2>2, PowIs
<1>2. high = Digit(val, c) /\ high \in Byte /\ high # 0
  <2>1. high = val \div p
    <3> HIDE DEF m
    <3> QED BY <1>1, ShrIs
  <2>2. val < Pow(m + B)
    BY <1>1, WordIs
  <2>3. Pow(m + B) = Pow(B) * p /\ Pow(B) \in Nat
    <3> HIDE DEF m
    <3>1. Pow(m + B) = Pow(m) * Pow(B) /\ Pow(m) \in Nat /\ Pow(B) \in Nat
      BY <1>1, PowAdd, PowIs
    <3> QED BY <3>1
  <2> DEFINE q == Pow(B)
  <2>4. q \in Nat \ {0}
    BY <1>1, PowIs
  <2> HIDE DEF p, q
  <2>5. val \div p < q
    <3>1. val < q * p
      BY <2>2, <2>3 DEF q
    <3> QED BY <1>1, <2>4, <3>1, DivBelow
  <2>6. val \div p \in Nat
    BY <1>1, DivIs
  <2>7. val \div p # 0
    <3>1. SUFFICES ASSUME val \div p = 0 PROVE FALSE
      OBVIOUS
    <3>2. val % p \in Nat /\ val % p < p /\ val = 0 * p + (val % p)
      BY <1>1, <3>1, DivIs
    <3>3. 0 * p = 0
      BY <1>1
    <3>4. ~(val < p)
      BY DEF p, m, c
    <3> QED BY <3>2, <3>3, <3>4
  <2>8. (val \div p) % q = val \div p
    <3> DEFINE z == val \div p
    <3>1. z \in Nat /\ z < q
      BY <2>5, <2>6
    <3> HIDE DEF z
    <3>2. z % q = z
      BY <2>4, <3>1, DivBelow
    <3> QED BY <3>2 DEF z
  <2>9. Digit(val, c) = (val \div p) % q
    BY DEF Digit, p, m, q
  <2>10. Digit(val, c) \in Byte
    BY <1>1, DigitIs
  <2> QED BY <2>1, <2>7, <2>8, <2>9, <2>10
<1>3. s = Append(b, high)
  <2>1. Shr(val, B * (B - 1)) # 0
    BY <1>2
  <2> QED BY <2>1 DEF encode_unsigned
<1>4. x \in Nat /\ y = x % Pow(B * B) /\ y \in Nat
  <2>1. x \in Nat /\ y = x % WordCount /\ y \in Word
    BY <1>1, ShlIs
  <2>2. WordCount = Pow(B * B)
    BY WordIs
  <2> QED BY <2>1, <2>2, WordIs
<1>5. b \in Seq(Byte) /\ Len(b) = B /\ \A i \in 0 .. B - 1 : b[i + 1] = Digit(y, i)
  <2> HIDE DEF y
  <2> QED BY <1>4, BytesIs
<1>6. \A i \in 0 .. B - 1 : Digit(y, i) = Digit(x, i)
  <2> TAKE i \in 0 .. B - 1
  <2>1. i \in Nat /\ i < B
    BY <1>1
  <2> HIDE DEF x, y
  <2> QED BY <1>1, <1>4, <2>1, DigitOfMod
<1>7. Digit(x, 0) = 0
  <2> DEFINE q == Pow(B)
  <2>1. q \in Nat \ {0} /\ x = val * q + 0
    BY <1>1, PowIs
  <2>2. B * 0 = 0 /\ Pow(0) = 1
    BY <1>1, PowIs
  <2>3. x \div Pow(B * 0) = x
    <3> HIDE DEF x
    <3>1. x \div 1 = x
      BY <1>4
    <3> QED BY <2>2, <3>1
  <2> HIDE DEF x, q
  <2>4. x % q = 0
    <3>1. 0 \in Nat /\ 0 < q
      BY <2>1
    <3> QED BY <1>1, <1>4, <2>1, <3>1, DivUnique
  <2> QED BY <2>3, <2>4 DEF Digit, q
<1>8. \A i \in 1 .. B - 1 : Digit(x, i) = Digit(val, i - 1)
  <2> TAKE i \in 1 .. B - 1
  <2> DEFINE j == i - 1
             q == Pow(B)
             f == Pow(B * j)
  <2>1. j \in Nat /\ i = j + 1 /\ q \in Nat \ {0}
    BY <1>1, PowIs
  <2>2. f \in Nat \ {0} /\ Pow(B * (j + 1)) = f * q
    <3> HIDE DEF j
    <3> QED BY <2>1, PowOfBytes
  <2> HIDE DEF j
  <2>3. Pow(B * i) = q * f
    <3>1. f * q = q * f
      BY <2>1, <2>2
    <3> QED BY <2>1, <2>2, <3>1
  <2> HIDE DEF q, f
  <2>4. x \div q = val
    <3>1. x = val * q + 0 /\ 0 \in Nat /\ 0 < q
      BY <1>1, <2>1 DEF q
    <3> HIDE DEF x
    <3> QED BY <1>1, <1>4, <2>1, <3>1, DivUnique
  <2>5. (x \div q) \div f = x \div (q * f)
    <3> HIDE DEF x
    <3> QED BY <1>4, <2>1, <2>2, DivDiv
  <2>6. x \div Pow(B * i) = val \div f
    BY <2>3, <2>4, <2>5
  <2> QED BY <2>6 DEF Digit, f, j
<1> HIDE DEF b, s, high, x, y
<1>9. s \in Seq(Byte) /\ Len(s) = B + 1 /\ \A i \in 1 .. B : s[i] = b[i] /\ s[B + 1] = high
  <2> DEFINE S == Byte
  <2>1. b \in Seq(S) /\ high \in S
    BY <1>2, <1>5
  <2> HIDE DEF S
  <2>2. s \in Seq(S) /\ Len(s) = B + 1 /\ \A i \in 1 .. B : s[i] = b[i] /\ s[B + 1] = high
    BY <1>1, <1>3, <1>5, <2>1
  <2> QED BY <2>2 DEF S
<1>10. s[1] = 0
  <2>1. 0 \in 0 .. B - 1 /\ 1 \in 1 .. B /\ 0 + 1 = 1
    BY <1>1
  <2>2. b[0 + 1] = Digit(y, 0)
    BY <1>5, <2>1
  <2> QED BY <1>6, <1>7, <1>9, <2>1, <2>2
<1>11. ASSUME NEW i \in 0 .. B - 1 PROVE s[i + 2] = Digit(val, i)
  <2>1. CASE i = c
    <3>1. i + 2 = B + 1 /\ 1 \in 1 .. B
      BY <1>1, <2>1
    <3> QED BY <1>2, <1>9, <2>1, <3>1
  <2>2. CASE i # c
    <3> DEFINE j == i + 1
    <3>1. j \in 1 .. B - 1 /\ j \in 0 .. B - 1 /\ j + 1 \in 1 .. B /\ i + 2 = j + 1 /\ j - 1 = i
      BY <1>1, <2>2
    <3> HIDE DEF j
    <3>2. s[j + 1] = b[j + 1] /\ b[j + 1] = Digit(y, j)
      BY <1>5, <1>9, <3>1
    <3>3. Digit(y, j) = Digit(val, i)
      BY <1>6, <1>8, <3>1
    <3> QED BY <3>1, <3>2, <3>3
  <2> QED BY <2>1, <2>2
<1> QED BY <1>9, <1>10, <1>11 DEF s, kMaxSize

\* A word is decoded from a memory that begins with its encoding, whatever
\* comes after it.
Holds(bytes, val) ==
  /\ bytes \in [1 .. kMaxSize -> Byte]
  /\ \A i \in 1 .. Len(encode_unsigned(val)) : bytes[i] = encode_unsigned(val)[i]

\* They are decoded to the value, and no byte more is taken.
LEMMA ShortDecoding ==
  ASSUME NEW val \in Nat, val < Pow(B * (B - 1)), NEW bytes, Holds(bytes, val)
  PROVE  decode_unsigned(bytes) = [advance |-> ShortBits(val) + 1, value |-> val]
<1> DEFINE k == ShortBits(val)
           n == ShortBits(val) + 1
           e == ShortNumber(val)
           v == WordOf(bytes, 1)
<1>1. B \in Nat /\ B >= 2 /\ k \in Nat /\ n \in Nat /\ n = k + 1 /\ k < B /\ n <= B * n
  <2>1. B \in Nat /\ B >= 2 /\ k \in 0 .. B - 1
    BY ShortBitsIs, WordIs
  <2>2. k \in Nat /\ n \in Nat /\ n = k + 1 /\ k < B
    BY <2>1
  <2> HIDE DEF k, n
  <2>3. PICK c \in Nat : B = 1 + c
    <3>1. B - 1 \in Nat /\ B = 1 + (B - 1)
      BY <2>1
    <3> QED BY <3>1
  <2>4. B * n = n + c * n /\ c * n \in Nat
    BY <2>2, <2>3
  <2> QED BY <2>1, <2>2, <2>4
<1>2. /\ e \in Word /\ e \in Nat /\ e < Pow(B * n)
      /\ e \div Pow(n) = val /\ e % Pow(n) = Pow(k)
  BY ShortNumberIs, WordIs
<1>3. \A i \in 0 .. n - 1 : bytes[1 + i] = Digit(e, i)
  <2>1. /\ Len(encode_unsigned(val)) = n
        /\ \A i \in 0 .. k : encode_unsigned(val)[i + 1] = Digit(e, i)
    BY ShortEncoding
  <2> HIDE DEF k, n, e
  <2>2. \A i \in 0 .. n - 1 : i \in 0 .. k /\ 1 + i \in 1 .. n /\ 1 + i = i + 1
    BY <1>1
  <2> QED BY <2>1, <2>2 DEF Holds
<1>4. \A i \in 0 .. B - 1 : bytes[1 + i] \in Byte
  BY <1>1 DEF Holds, kMaxSize
<1>5. v \in Word /\ v \in Nat /\ \A i \in 0 .. B - 1 : Digit(v, i) = bytes[1 + i]
  BY <1>4, WordOfIs, WordIs
<1> HIDE DEF k, n, e, v
<1>6. v % Pow(B * n) = e
  <2>1. \A i \in 0 .. n - 1 : Digit(v, i) = Digit(e, i)
    BY <1>1, <1>3, <1>5
  <2>2. v % Pow(B * n) = e % Pow(B * n)
    <3>1. v \in Nat /\ e \in Nat /\ n \in Nat
      BY <1>1, <1>2, <1>5
    <3> QED BY <2>1, <3>1, SameDigits
  <2>3. B * n \in Nat /\ Pow(B * n) \in Nat \ {0}
    BY <1>1, PowOfBytes
  <2> QED BY <1>2, <2>2, <2>3, DivBelow
<1>7. v % Pow(n) = Pow(k)
  <2>1. (v % Pow(B * n)) % Pow(n) = v % Pow(n)
    <3>1. B * n \in Nat
      BY <1>1
    <3> QED BY <1>1, <1>5, <3>1, ModPow
  <2> QED BY <1>2, <1>6, <2>1
<1>8. TrailingZeros(v) = k
  <2>1. k \in 0 .. WordBits - 1
    <3>1. B * B >= B
      <4>1. B * n \in Nat /\ 1 <= B
        BY <1>1
      <4>2. PICK c \in Nat : B = 1 + c
        <5>1. B - 1 \in Nat /\ B = 1 + (B - 1)
          BY <1>1
        <5> QED BY <5>1
      <4>3. B * B = B + c * B /\ c * B \in Nat
        BY <1>1, <4>2
      <4> QED BY <1>1, <4>3
    <3>2. B * B \in Nat
      BY <1>1
    <3> QED BY <1>1, <3>1, <3>2, WordIs
  <2>2. v % Pow(k + 1) = Pow(k)
    BY <1>1, <1>7
  <2> QED BY <1>5, <2>1, <2>2, LowestBitIs DEF TrailingZeros
<1>9. bytes[1] # 0
  <2>1. SUFFICES ASSUME bytes[1] = 0 PROVE FALSE
    OBVIOUS
  <2>2. Digit(v, 0) = 0
    <3>1. 0 \in 0 .. B - 1 /\ 1 + 0 = 1
      BY <1>1
    <3> QED BY <1>5, <2>1, <3>1
  <2>3. v % Pow(B) = 0
    <3>1. B * 0 = 0 /\ Pow(0) = 1 /\ v \div 1 = v
      BY <1>1, <1>5, PowIs
    <3> QED BY <2>2, <3>1 DEF Digit
  <2>4. (v % Pow(B)) % Pow(n) = v % Pow(n)
    BY <1>1, <1>5, ModPow
  <2>5. 0 % Pow(n) = 0
    <3>1. Pow(n) \in Nat \ {0}
      BY <1>1, PowIs
    <3> QED BY <3>1, DivBelow
  <2>6. Pow(k) # 0
    BY <1>1, PowIs
  <2> QED BY <1>7, <2>3, <2>4, <2>5, <2>6
<1>10. Shr(v, n) = v \div Pow(n) /\ Shr(v, n) \in Nat
  BY <1>1, <1>5, ShrIs
<1>11. Masked(Shr(v, n), n) = val
  <2>1. CASE n = B
    <3>1. v < Pow(B * n)
      BY <1>5, <2>1, WordIs
    <3>2. v = e
      <4>1. Pow(B * n) \in Nat \ {0}
        BY <1>1, PowOfBytes
      <4>2. v % Pow(B * n) = v
        BY <1>5, <3>1, <4>1, DivBelow
      <4> QED BY <1>6, <4>2
    <3> QED BY <1>2, <1>10, <2>1, <3>2 DEF Masked
  <2>2. CASE n # B
    <3> DEFINE m == (B - 1) * n
    <3>1. m \in Nat /\ B * n = n + m
      BY <1>1
    <3> HIDE DEF m
    <3>2. (v % Pow(n + m)) \div Pow(n) = (v \div Pow(n)) % Pow(m)
      BY <1>1, <1>5, <3>1, DivOfMod
    <3>3. (v \div Pow(n)) % Pow(m) = val
      BY <1>2, <1>6, <3>1, <3>2
    <3>4. Low(Shr(v, n), m) = Shr(v, n) % Pow(m)
      BY <1>10, <3>1, LowIs
    <3> QED BY <1>10, <2>2, <3>3, <3>4 DEF Masked, m
  <2> QED BY <2>1, <2>2
<1>12. decode_unsigned(bytes) = [advance |-> n, value |-> Masked(Shr(v, n), n)]
  BY <1>1, <1>8, <1>9 DEF decode_unsigned, v
<1> QED BY <1>11, <1>12 DEF n

\* A value that takes a byte of zeros and then its own bytes is decoded to
\* itself.
LEMMA LongDecoding ==
  ASSUME NEW val \in Word, ~(val < Pow(B * (B - 1))), NEW bytes, Holds(bytes, val)
  PROVE  decode_unsigned(bytes) = [advance |-> kMaxSize, value |-> val]
<1>1. /\ B \in Nat /\ kMaxSize = B + 1
      /\ Len(encode_unsigned(val)) = kMaxSize
      /\ encode_unsigned(val)[1] = 0
      /\ \A i \in 0 .. B - 1 : encode_unsigned(val)[i + 2] = Digit(val, i)
  BY LongEncoding, WordIs DEF kMaxSize
<1>2. bytes[1] = 0
  <2>1. 1 \in 1 .. kMaxSize
    BY <1>1
  <2> QED BY <1>1, <2>1 DEF Holds
<1>3. \A i \in 0 .. B - 1 : bytes[2 + i] = Digit(val, i)
  <2>1. \A i \in 0 .. B - 1 : 2 + i \in 1 .. kMaxSize /\ 2 + i = i + 2
    BY <1>1
  <2> QED BY <1>1, <2>1 DEF Holds
<1>4. WordOf(bytes, 2) = val
  BY <1>3, WordOfBytes
<1> QED BY <1>2, <1>4 DEF decode_unsigned

\* Every word comes back from its encoding, and the decoder knows where the
\* encoding ended.
THEOREM CodecIs ==
  ASSUME NEW val \in Word
  PROVE  /\ encode_unsigned(val) \in Seq(Byte)
         /\ Len(encode_unsigned(val)) \in 1 .. kMaxSize
         /\ \A bytes : Holds(bytes, val) =>
              decode_unsigned(bytes)
                = [advance |-> Len(encode_unsigned(val)), value |-> val]
<1>1. val \in Nat /\ B \in Nat /\ B >= 2
  BY WordIs
<1>2. CASE val < Pow(B * (B - 1))
  <2>1. ShortBits(val) \in 0 .. B - 1
    BY <1>1, <1>2, ShortBitsIs
  <2>2. ShortBits(val) + 1 \in 1 .. kMaxSize
    BY <1>1, <2>1 DEF kMaxSize
  <2> QED BY <1>1, <1>2, <2>2, ShortEncoding, ShortDecoding
<1>3. CASE ~(val < Pow(B * (B - 1)))
  <2>1. kMaxSize \in 1 .. kMaxSize
    BY <1>1 DEF kMaxSize
  <2> QED BY <1>3, <2>1, LongEncoding, LongDecoding
<1> QED BY <1>2, <1>3

\* Differences of numbers below M are encoded below 2 * M, and add up again.
LEMMA DeltaIs ==
  ASSUME NEW M \in Nat, 2 * M <= WordCount, NEW a \in 0 .. M - 1, NEW b \in 0 .. M - 1
  PROVE  /\ zigzag(Sub(a, b)) \in Word /\ zigzag(Sub(a, b)) < 2 * M
         /\ Add(unzigzag(zigzag(Sub(a, b))), b) = a
<1>1. PICK h \in Nat \ {0} : WordCount = 2 * h /\ WordCount \div 2 = h
  BY HalfIs
<1>2. M <= h /\ a \in Nat /\ b \in Nat /\ a < M /\ b < M /\ Word = 0 .. 2 * h - 1
  BY <1>1, WordIs
<1>3. CASE b <= a
  <2> DEFINE d == a - b
  <2>1. d \in Nat /\ d < M /\ d < h
    BY <1>2, <1>3
  <2>2. Sub(a, b) = d
    <3> HIDE DEF d
    <3>1. d % (2 * h) = d
      BY <1>1, <2>1
    <3> QED BY <1>1, <3>1 DEF Sub, d
  <2>3. d \in Word
    BY <1>2, <2>1
  <2> HIDE DEF d
  <2>4. zigzag(d) = 2 * d /\ zigzag(d) \in Word /\ unzigzag(zigzag(d)) = d
    BY <1>1, <2>1, <2>3, ZigzagIs
  <2>5. Add(d, b) = a
    <3>1. d + b = a
      BY <1>2 DEF d
    <3>2. a % (2 * h) = a
      BY <1>2
    <3> QED BY <1>1, <3>1, <3>2 DEF Add
  <2>6. 2 * d < 2 * M
    BY <2>1
  <2> QED BY <2>2, <2>4, <2>5, <2>6
<1>4. CASE ~(b <= a)
  <2> DEFINE d == 2 * h - (b - a)
  <2>1. d \in Nat /\ h <= d /\ d < 2 * h
    BY <1>2, <1>4
  <2>2. Sub(a, b) = d
    <3>1. (a - b) % (2 * h) = d
      BY <1>1, <1>2, <1>4
    <3> QED BY <1>1, <3>1 DEF Sub
  <2>3. d \in Word /\ 2 * (2 * h - d) - 1 < 2 * M
    BY <1>2, <2>1
  <2>4. d + b = a + 1 * (2 * h)
    BY <1>2
  <2> HIDE DEF d
  <2>5. /\ zigzag(d) = 2 * (2 * h - d) - 1 /\ zigzag(d) \in Word
        /\ unzigzag(zigzag(d)) = d
    BY <1>1, <2>1, <2>3, ZigzagIs
  <2>6. Add(d, b) = a
    <3>1. (a + 1 * (2 * h)) % (2 * h) = a
      BY <1>1, <1>2
    <3> QED BY <1>1, <2>4, <3>1 DEF Add
  <2> QED BY <2>2, <2>3, <2>5, <2>6
<1> QED BY <1>3, <1>4
=============================================================================
