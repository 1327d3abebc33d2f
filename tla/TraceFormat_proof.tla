-------------------------- MODULE TraceFormat_proof --------------------------
(***************************************************************************)
(* What is decoded from a trace is what was recorded, for any threads,     *)
(* events and size of a word, and whatever uninitialized memory holds.     *)
(*                                                                         *)
(* The invariant says where in the trace and in the buffers the bytes of   *)
(* each record and event lie, and in which state its encoder was: four     *)
(* functions that no variable holds, and which it claims to exist.  Each   *)
(* action of the tracer gives the next value of them; no action of the     *)
(* decoder changes them.                                                   *)
(***************************************************************************)
EXTENDS TraceFormat, AltVarintCodec_proof, SequenceTheorems

\* No fewer bytes would have done.
LEMMA EncodingIsShortest ==
  ASSUME NEW val \in Word
  PROVE  Len(encode_unsigned(val)) = ShortestLength(val)
<1> DEFINE n == Len(encode_unsigned(val))
           S == {i \in 1 .. B : val < Pow(i * (B - 1))} \cup {kMaxSize}
<1>1. val \in Nat /\ B \in Nat /\ B >= 2 /\ kMaxSize = B + 1
  BY WordIs DEF kMaxSize
<1>2. ShortestLength(val) = CHOOSE x \in S : \A y \in S : x <= y
  BY DEF ShortestLength, Min, Pow
<1>3. n \in S /\ n \in Nat /\ \A y \in S : n <= y
  <2>1. CASE val < Pow(B * (B - 1))
    <3> DEFINE k == ShortBits(val)
    <3>1. k \in 0 .. B - 1 /\ val < Pow((k + 1) * (B - 1)) /\ (k # 0 => Pow(k * (B - 1)) <= val)
      BY <1>1, <2>1, ShortBitsIs
    <3>2. n = k + 1
      BY <1>1, <2>1, ShortEncoding
    <3> HIDE DEF n, k
    <3>3. n \in Nat /\ n \in S
      BY <1>1, <3>1, <3>2
    <3>4. ASSUME NEW y \in 1 .. B, val < Pow(y * (B - 1)) PROVE n <= y
      <4>1. SUFFICES ASSUME y <= k PROVE FALSE
        BY <1>1, <3>1, <3>2
      <4>2. k # 0 /\ k \in Nat /\ y \in Nat /\ B - 1 \in Nat
        BY <1>1, <3>1, <4>1
      <4> DEFINE a == y * (B - 1)
                 b == k * (B - 1)
      <4>3. a \in Nat /\ b \in Nat /\ a <= b
        <5>1. PICK d \in Nat : k = y + d
          <6>1. k - y \in Nat /\ k = y + (k - y)
            BY <4>1, <4>2
          <6> QED BY <6>1
        <5>2. b = a + d * (B - 1) /\ d * (B - 1) \in Nat /\ a \in Nat
          BY <4>2, <5>1
        <5> QED BY <5>2
      <4>4. Pow(b) <= val /\ val < Pow(a)
        BY <3>1, <3>4, <4>2
      <4> HIDE DEF a, b
      <4>5. Pow(a) <= Pow(b) /\ Pow(a) \in Nat /\ Pow(b) \in Nat
        BY <4>3, PowOrdered
      <4> QED BY <1>1, <4>4, <4>5
    <3>5. n <= kMaxSize
      BY <1>1, <3>1, <3>2
    <3> QED BY <3>3, <3>4, <3>5
  <2>2. CASE ~(val < Pow(B * (B - 1)))
    <3>1. n = kMaxSize
      BY <2>2, LongEncoding
    <3>2. ASSUME NEW y \in 1 .. B, val < Pow(y * (B - 1)) PROVE FALSE
      <4> DEFINE a == y * (B - 1)
                 b == B * (B - 1)
      <4>1. a \in Nat /\ b \in Nat /\ a <= b
        <5>1. PICK d \in Nat : B = y + d
          <6>1. B - y \in Nat /\ B = y + (B - y)
            BY <1>1
          <6> QED BY <6>1
        <5> DEFINE c == B - 1
        <5>2. c \in Nat /\ y \in Nat
          BY <1>1
        <5> HIDE DEF c
        <5>3. (y + d) * c = y * c + d * c /\ d * c \in Nat /\ y * c \in Nat
          BY <5>1, <5>2
        <5>4. a = y * c /\ b = (y + d) * c
          BY <5>1 DEF c
        <5> HIDE DEF a, b
        <5> QED BY <5>3, <5>4
      <4>2. ~(val < Pow(b)) /\ val < Pow(a)
        BY <2>2, <3>2
      <4> HIDE DEF a, b
      <4>3. Pow(a) <= Pow(b) /\ Pow(a) \in Nat /\ Pow(b) \in Nat
        BY <4>1, PowOrdered
      <4> QED BY <1>1, <4>2, <4>3
    <3>3. \A y \in S : y = kMaxSize
      BY <3>2
    <3>4. kMaxSize \in S
      OBVIOUS
    <3> HIDE DEF n, S
    <3> QED BY <1>1, <3>1, <3>3, <3>4
  <2> QED BY <2>1, <2>2
<1>4. \A x \in S : x \in Nat
  BY <1>1
<1> HIDE DEF n, S
<1>5. \A x \in S : (\A y \in S : x <= y) => x = n
  BY <1>3, <1>4
<1>6. ShortestLength(val) = n
  BY <1>2, <1>3, <1>5
<1> QED BY <1>6 DEF n

\* The comment at altvarint_codec.h:57 holds of words and bytes of every size.
THEOREM CodecFollowsItsTable == Spec => []CodecFollowsTable
<1>1. ASSUME NEW val \in Word, NEW fill \in Fills
      PROVE  Holds(Padded(encode_unsigned(val), fill), val)
  <2> DEFINE s == encode_unsigned(val)
             p == Padded(s, fill)
  <2>1. s \in Seq(Byte) /\ Len(s) \in 1 .. kMaxSize
    BY CodecIs
  <2>2. fill \in Byte
    BY FillsAssumption
  <2> HIDE DEF s
  <2>3. p = [i \in 1 .. kMaxSize |-> IF i <= Len(s) THEN s[i] ELSE fill]
    BY DEF Padded
  <2>4. kMaxSize \in Nat
    BY WordIs DEF kMaxSize
  <2>5. \A i \in 1 .. Len(s) : i \in 1 .. kMaxSize /\ i <= Len(s) /\ s[i] \in Byte
    <3> DEFINE S == Byte
    <3>1. s \in Seq(S)
      BY <2>1
    <3> HIDE DEF S
    <3>2. \A i \in 1 .. Len(s) : i \in 1 .. kMaxSize /\ i <= Len(s) /\ s[i] \in S
      BY <2>1, <2>4, <3>1
    <3> QED BY <3>2 DEF S
  <2>6. \A i \in 1 .. kMaxSize : i <= Len(s) => i \in 1 .. Len(s)
    BY <2>1, <2>4
  <2>7. p \in [1 .. kMaxSize -> Byte]
    <3>1. \A i \in 1 .. kMaxSize : (IF i <= Len(s) THEN s[i] ELSE fill) \in Byte
      BY <2>2, <2>5, <2>6
    <3> QED BY <2>3, <3>1
  <2>8. \A i \in 1 .. Len(s) : p[i] = s[i]
    BY <2>3, <2>5
  <2> HIDE DEF p
  <2>9. Holds(p, val)
    BY <2>7, <2>8 DEF Holds, s
  <2> QED BY <2>9 DEF p, s
<1>2. CodecFollowsTable
  BY <1>1, CodecIs, EncodingIsShortest, ZigzagIs DEF CodecFollowsTable
<1>3. CodecFollowsTable'
  BY <1>1, CodecIs, EncodingIsShortest, ZigzagIs DEF CodecFollowsTable
<1> QED BY <1>2, <1>3, PTL DEF Spec

(***************************************************************************)
(* The words of malloc_trace_encoder.h.                                    *)
(***************************************************************************)
LEMMA ShiftsAre ==
  /\ kExtTypeShift \in Nat /\ kExtTypeShift >= 6 /\ kExtTypeShift < WordBits
  /\ kTSShift \in Nat /\ kTSShift >= 1 /\ kTSShift < WordBits
  /\ kTypeShift = 3 /\ WordBits \in Nat
BY ShiftAssumption, WordIs DEF kTypeShift

\* A word with a value above its lowest bits.
LEMMA TaggedIs ==
  ASSUME NEW val \in Nat, NEW shift \in Nat, NEW type \in Nat,
         shift <= WordBits, type < Pow(shift), val < Pow(WordBits - shift)
  PROVE  /\ Tagged(val, shift, type) \in Word
         /\ Tagged(val, shift, type) = val * Pow(shift) + type
         /\ Shr(Tagged(val, shift, type), shift) = val
         /\ Low(Tagged(val, shift, type), shift) = type
<1> DEFINE d == Pow(shift)
           m == WordBits - shift
           e == Pow(m)
           x == val * d + type
<1>1. d \in Nat \ {0} /\ m \in Nat /\ e \in Nat \ {0} /\ WordCount = e * d /\ val < e
  <2>1. m \in Nat /\ WordBits = m + shift
    BY WordIs
  <2> HIDE DEF m
  <2> QED BY <2>1, PowAdd, PowIs, WordIs DEF m
<1> HIDE DEF d, e, m
<1>2. val * d + d <= WordCount /\ val * d \in Nat /\ WordCount \in Nat
  BY <1>1, MultipleOrdered, WordIs
<1>3. x \in Nat /\ x < WordCount
  BY <1>1, <1>2 DEF d
<1>4. Tagged(val, shift, type) = x
  <2>1. val * Pow(shift) < WordCount
    BY <1>1, <1>2 DEF d
  <2> QED BY <2>1, ShlIs DEF Tagged, d
<1>5. x \div d = val /\ x % d = type
  <2>1. type < d
    BY DEF d
  <2>2. x = val * d + type
    OBVIOUS
  <2> HIDE DEF x
  <2> QED BY <1>1, <1>3, <2>1, <2>2, DivUnique
<1>6. Shr(x, shift) = val /\ Low(x, shift) = type
  <2> HIDE DEF x
  <2> QED BY <1>3, <1>5, ShrIs, LowIs DEF d
<1> QED BY <1>3, <1>4, <1>6, WordIs DEF d

\* The types of one kind and of the other are told apart by their lowest bits.
LEMMA TypeIs ==
  ASSUME NEW val \in Nat, NEW type \in {0, 1, 2, 3, 4}, val < Pow(WordBits - kTypeShift)
  PROVE  /\ Tagged(val, kTypeShift, type) \in Word
         /\ Shr(Tagged(val, kTypeShift, type), kTypeShift) = val
         /\ decode_type(Tagged(val, kTypeShift, type)) = type
<1>1. Pow(3) = 8
  <2>1. Pow(0 + 1) = 2 * Pow(0) /\ Pow(1 + 1) = 2 * Pow(1) /\ Pow(2 + 1) = 2 * Pow(2)
    BY PowIs
  <2> QED BY <2>1, PowIs
<1>2. 3 <= WordBits /\ type \in Nat /\ type < Pow(3)
  BY <1>1, ShiftsAre
<1>3. /\ Tagged(val, 3, type) \in Word /\ Shr(Tagged(val, 3, type), 3) = val
      /\ Low(Tagged(val, 3, type), 3) = type
  BY <1>2, TaggedIs, ShiftsAre
<1> QED BY <1>3 DEF decode_type, kEventExtBase, kTypeShift

ExtTypes == {kEventDeath, kEventEnd, kEventRealloc, kEventMemalign, kEventSyncBarrier}

\* The types of the extended kind are told from the others, and from each
\* other, by more bits.
LEMMA ExtTypeIs ==
  ASSUME NEW val \in Nat, NEW type \in ExtTypes, val < Pow(WordBits - kExtTypeShift)
  PROVE  /\ Tagged(val, kExtTypeShift, type) \in Word
         /\ Shr(Tagged(val, kExtTypeShift, type), kExtTypeShift) = val
         /\ decode_type(Tagged(val, kExtTypeShift, type)) = type
<1> DEFINE x == Tagged(val, kExtTypeShift, type)
<1>1. Pow(3) = 8 /\ Pow(6) = 64
  <2>1. /\ Pow(0 + 1) = 2 * Pow(0) /\ Pow(1 + 1) = 2 * Pow(1) /\ Pow(2 + 1) = 2 * Pow(2)
        /\ Pow(3 + 1) = 2 * Pow(3) /\ Pow(4 + 1) = 2 * Pow(4) /\ Pow(5 + 1) = 2 * Pow(5)
    BY PowIs
  <2> QED BY <2>1, PowIs
<1>2. type \in Nat /\ type < 64 /\ type % 8 = 7
  BY DEF ExtTypes, kEventDeath, kEventEnd, kEventRealloc, kEventMemalign,
         kEventSyncBarrier, kEventExtBase
<1>3. Pow(6) <= Pow(kExtTypeShift) /\ Pow(kExtTypeShift) \in Nat
  BY PowOrdered, ShiftsAre
<1>4. x \in Word /\ x \in Nat /\ Shr(x, kExtTypeShift) = val /\ Low(x, kExtTypeShift) = type
  <2>1. type < Pow(kExtTypeShift)
    BY <1>1, <1>2, <1>3
  <2>2. kExtTypeShift \in Nat /\ kExtTypeShift <= WordBits
    BY ShiftsAre
  <2>3. x \in Word /\ Shr(x, kExtTypeShift) = val /\ Low(x, kExtTypeShift) = type
    BY <1>2, <2>1, <2>2, TaggedIs
  <2> HIDE DEF x
  <2> QED BY <2>3, WordIs
<1> HIDE DEF x
<1>5. Low(x, 3) = 7
  <2>1. (x % Pow(kExtTypeShift)) % Pow(3) = x % Pow(3)
    BY <1>4, ModPow, ShiftsAre
  <2>2. x % Pow(kExtTypeShift) = type
    BY <1>4, LowIs, ShiftsAre
  <2>3. Low(x, 3) = x % Pow(3)
    BY <1>4, LowIs
  <2> QED BY <1>1, <1>2, <2>1, <2>2, <2>3
<1>6. decode_type(x) = type
  BY <1>4, <1>5 DEF decode_type, kEventExtBase, kTypeShift
<1> QED BY <1>4, <1>6 DEF x

KeptStamp(stamp) ==
  [ts |-> stamp.ts - (stamp.ts % 2 ^ kTSShift), cpu |-> stamp.cpu % 2 ^ kTSShift]

\* A time and a cpu in one word.
LEMMA StampIs ==
  ASSUME NEW stamp \in FormatStamps
  PROVE  /\ bundle_ts_and_cpu(stamp) \in Word
         /\ unbundle_ts_and_cpu(bundle_ts_and_cpu(stamp)) = KeptStamp(stamp)
<1> DEFINE d == Pow(kTSShift)
           m == WordBits - kTSShift
           e == Pow(m)
           q == stamp.ts \div d
           r == stamp.ts % d
           c == stamp.cpu % d
           x == bundle_ts_and_cpu(stamp)
<1>1. stamp.ts \in Nat /\ stamp.ts < WordCount /\ stamp.cpu \in Nat
  BY StampsAssumption, WordIs
<1>2. d \in Nat \ {0} /\ e \in Nat \ {0} /\ WordCount = e * d
  <2>1. m \in Nat /\ kTSShift \in Nat /\ WordBits = m + kTSShift
    BY ShiftsAre
  <2> HIDE DEF m
  <2>2. e \in Nat \ {0} /\ d \in Nat \ {0}
    BY <2>1, PowIs
  <2>3. Pow(m + kTSShift) = e * d
    BY <2>1, PowAdd
  <2>4. WordCount = Pow(WordBits)
    BY WordIs
  <2> QED BY <2>1, <2>2, <2>3, <2>4
<1>3. q \in Nat /\ r \in Nat /\ r < d /\ stamp.ts = q * d + r /\ q < e
  <2> DEFINE ts == stamp.ts
  <2> HIDE DEF d, e
  <2>1. ts \in Nat /\ ts < e * d
    BY <1>1, <1>2
  <2> HIDE DEF ts
  <2>2. ts \div d \in Nat /\ ts % d \in Nat /\ ts % d < d /\ ts = (ts \div d) * d + (ts % d)
    BY <1>2, <2>1, DivIs
  <2>3. ts \div d < e
    BY <1>2, <2>1, DivBelow
  <2> QED BY <2>2, <2>3 DEF ts
<1>4. c \in Nat /\ c < d
  <2> HIDE DEF d
  <2> QED BY <1>1, <1>2, DivIs
<1>5. x = (stamp.ts - r) + c
  <2>1. Low(stamp.ts, kTSShift) = r /\ Low(stamp.cpu, kTSShift) = c
    BY <1>1, LowIs, ShiftsAre
  <2> QED BY <2>1 DEF bundle_ts_and_cpu, TimeOf, CpuOf
<1> HIDE DEF d, e, q, r, c, x
<1>6. q * d \in Nat /\ q * d + d <= e * d
  BY <1>2, <1>3, MultipleOrdered
<1>7. x = q * d + c /\ stamp.ts - r = q * d
  BY <1>3, <1>4, <1>5, <1>6
<1>8. x \in Nat /\ x \in Word
  BY <1>2, <1>4, <1>6, <1>7, WordIs
<1>9. x % d = c
  BY <1>2, <1>3, <1>4, <1>7, <1>8, DivUnique
<1>10. Low(x, kTSShift) = c
  BY <1>8, <1>9, LowIs, ShiftsAre DEF d
<1>11. x - c = stamp.ts - r
  BY <1>4, <1>6, <1>7
<1>12. unbundle_ts_and_cpu(x) = [ts |-> stamp.ts - r, cpu |-> c]
  BY <1>10, <1>11 DEF unbundle_ts_and_cpu, TimeOf, CpuOf
<1> QED BY <1>8, <1>12 DEF KeptStamp, x, r, c, d, Pow

(***************************************************************************)
(* An event and the state of its thread.                                   *)
(***************************************************************************)
SizeCount == Pow(WordBits - kExtTypeShift - 1)
TokenCount == Pow(WordBits - kTypeShift - 1)

EncoderStates ==
  [prev_size : 0 .. SizeCount - 1, prev_token : 0 .. TokenCount - 1, malloc_tok_seq : Word]

\* Half of what a size's and a token's bits can count: a difference of two
\* such numbers, with its sign, fits its place in a word.
LEMMA CountsAre ==
  /\ SizeCount \in Nat \ {0} /\ TokenCount \in Nat \ {0}
  /\ 2 * SizeCount = Pow(WordBits - kExtTypeShift)
  /\ 2 * TokenCount = Pow(WordBits - kTypeShift)
  /\ Pow(WordBits - kExtTypeShift) <= Pow(WordBits - kTypeShift)
  /\ 8 * SizeCount < WordCount /\ 2 * SizeCount <= WordCount /\ 2 * TokenCount <= WordCount
<1> DEFINE a == WordBits - kExtTypeShift - 1
           b == WordBits - kTypeShift - 1
<1>1. /\ a \in Nat /\ b \in Nat /\ a + 1 = WordBits - kExtTypeShift
      /\ b + 1 = WordBits - kTypeShift /\ a + 1 <= b + 1 /\ b + 1 <= WordBits
      /\ a + 3 < WordBits /\ WordBits \in Nat
  BY ShiftsAre
<1> HIDE DEF a, b
<1>2. Pow(a) \in Nat \ {0} /\ Pow(b) \in Nat \ {0} /\ Pow(a + 1) = 2 * Pow(a) /\ Pow(b + 1) = 2 * Pow(b)
  BY <1>1, PowIs
<1>3. Pow(a + 1) <= Pow(b + 1) /\ Pow(b + 1) <= WordCount
  <2>1. a + 1 \in Nat /\ b + 1 \in Nat
    BY <1>1
  <2>2. Pow(a + 1) <= Pow(b + 1)
    BY <1>1, <2>1, PowOrdered
  <2>3. Pow(b + 1) <= Pow(WordBits)
    BY <1>1, <2>1, PowOrdered
  <2> QED BY <2>2, <2>3, WordIs
<1>4. 8 * Pow(a) < WordCount
  <2>1. a + 3 \in Nat /\ a + 1 \in Nat /\ a + 2 \in Nat /\ (a + 1) + 1 = a + 2 /\ (a + 2) + 1 = a + 3
    BY <1>1
  <2>2. Pow(a + 2) = 2 * Pow(a + 1) /\ Pow(a + 3) = 2 * Pow(a + 2)
    BY <2>1, PowIs
  <2>3. 2 * Pow(a + 3) <= Pow(WordBits)
    BY <1>1, <2>1, PowOrdered
  <2>4. Pow(a + 3) \in Nat \ {0} /\ WordCount = Pow(WordBits) /\ WordCount \in Nat
    BY <2>1, PowIs, WordIs
  <2> QED BY <1>2, <2>2, <2>3, <2>4
<1>5. 2 * Pow(a) <= WordCount /\ 2 * Pow(b) <= WordCount
  <2>1. WordCount \in Nat
    BY WordIs
  <2> QED BY <1>2, <1>3, <2>1
<1> QED BY <1>1, <1>2, <1>3, <1>4, <1>5 DEF SizeCount, TokenCount, a, b

\* A size, and the last one.
LEMMA SizeIs ==
  ASSUME NEW s \in EncoderStates, NEW size \in Sizes
  PROVE  /\ Units(size) \in 0 .. SizeCount - 1
         /\ Shl(Units(size), 3) = 8 * ((size + 7) \div 8)
         /\ SizeDelta(size, s) \in Nat
         /\ SizeDelta(size, s) < Pow(WordBits - kExtTypeShift)
         /\ SizeDelta(size, s) < Pow(WordBits - kTypeShift)
         /\ DecodedUnits(SizeDelta(size, s), s) = Units(size)
<1> DEFINE M == SizeCount
           u == (size + 7) \div 8
           delta == SizeDelta(size, s)
<1>1. /\ M \in Nat \ {0} /\ 2 * M = Pow(WordBits - kExtTypeShift)
      /\ 2 * M <= Pow(WordBits - kTypeShift)
      /\ 8 * M < WordCount /\ 2 * M <= WordCount /\ WordCount \in Nat
      /\ Pow(WordBits - kTypeShift) \in Nat
  <2>1. Pow(WordBits - kTypeShift) \in Nat
    <3>1. WordBits - kTypeShift \in Nat
      BY ShiftsAre
    <3> QED BY <3>1, PowIs
  <2>2. WordCount \in Nat
    BY WordIs
  <2> QED BY <2>1, <2>2, CountsAre
<1>2. size \in Nat /\ size + 7 < 8 * M
  BY DeltasAssumption DEF SizeCount, Pow
<1>3. Pow(3) = 8
  <2>1. Pow(0 + 1) = 2 * Pow(0) /\ Pow(1 + 1) = 2 * Pow(1) /\ Pow(2 + 1) = 2 * Pow(2)
    BY PowIs
  <2> QED BY <2>1, PowIs
<1>4. s.prev_size \in 0 .. M - 1
  BY DEF EncoderStates
<1> HIDE DEF M
<1>5. u \in 0 .. M - 1 /\ u * 8 < WordCount
  BY <1>1, <1>2
<1>6. Units(size) = u
  <2> DEFINE n == size + 7
  <2>1. n % WordCount = n
    <3>1. n \in Nat /\ n < WordCount /\ WordCount \in Nat \ {0}
      BY <1>1, <1>2
    <3> HIDE DEF n
    <3> QED BY <3>1, DivBelow
  <2>2. Add(size, 7) = n
    BY <2>1 DEF Add
  <2>3. Shr(n, 3) = n \div 8
    <3>1. n \in Nat
      BY <1>2
    <3> HIDE DEF n
    <3> QED BY <1>3, <3>1, ShrIs
  <2> QED BY <2>2, <2>3 DEF Units
<1> HIDE DEF u
<1>7. Shl(u, 3) = 8 * u
  <2>1. u \in Nat /\ u * Pow(3) < WordCount
    BY <1>1, <1>3, <1>5
  <2>2. Shl(u, 3) = u * Pow(3)
    BY <2>1, ShlIs
  <2> QED BY <1>3, <2>1, <2>2
<1>8. delta = zigzag(Sub(u, s.prev_size))
  BY <1>6 DEF SizeDelta
<1> HIDE DEF delta
<1>9. delta \in Word /\ delta < 2 * M /\ Add(unzigzag(delta), s.prev_size) = u
  BY <1>1, <1>4, <1>5, <1>8, DeltaIs
<1>10. delta \in Nat
  BY <1>9, WordIs
<1>11. delta < Pow(WordBits - kExtTypeShift) /\ delta < Pow(WordBits - kTypeShift)
  BY <1>1, <1>9, <1>10
<1>12. DecodedUnits(delta, s) = Units(size)
  BY <1>6, <1>9 DEF DecodedUnits
<1> QED BY <1>5, <1>6, <1>7, <1>10, <1>11, <1>12 DEF M, u, delta

\* A token, and the last one.
LEMMA TokenIs ==
  ASSUME NEW s \in EncoderStates, NEW token \in Tokens
  PROVE  /\ token \in 0 .. TokenCount - 1 /\ token \in Word
         /\ token < Pow(WordBits - kTypeShift)
         /\ TokenDelta(token, s) \in Word /\ TokenDelta(token, s) \in Nat
         /\ TokenDelta(token, s) < Pow(WordBits - kTypeShift)
         /\ DecodedToken(TokenDelta(token, s), s) = token
<1> DEFINE M == TokenCount
           delta == TokenDelta(token, s)
<1>1. /\ M \in Nat \ {0} /\ 2 * M = Pow(WordBits - kTypeShift)
      /\ 2 * M <= WordCount /\ WordCount \in Nat /\ Word = 0 .. WordCount - 1
  BY CountsAre, WordIs
<1>2. token \in Nat /\ token < M
  BY DeltasAssumption DEF TokenCount, Pow
<1>3. s.prev_token \in 0 .. M - 1
  BY DEF EncoderStates
<1> HIDE DEF M
<1>4. token \in 0 .. M - 1 /\ token \in Word /\ token < 2 * M
  BY <1>1, <1>2
<1>5. delta = zigzag(Sub(token, s.prev_token))
  BY DEF TokenDelta
<1> HIDE DEF delta
<1>6. delta \in Word /\ delta < 2 * M /\ Add(unzigzag(delta), s.prev_token) = token
  BY <1>1, <1>3, <1>4, <1>5, DeltaIs
<1>7. delta \in Nat
  BY <1>6, WordIs
<1> QED BY <1>1, <1>4, <1>6, <1>7 DEF M, delta, DecodedToken

EventsIn(s) ==
  [type : {kEventMalloc}, size : Sizes, new : {s.malloc_tok_seq}]
  \cup [type : {kEventFree, kEventFreeSized}, old : Tokens]
  \cup [type : {kEventRealloc}, size : Sizes, new : {s.malloc_tok_seq}, old : Tokens]
  \cup [type : {kEventMemalign}, size : Sizes, new : {s.malloc_tok_seq},
        alignment : Alignments]
  \cup [type : {kEventTok}, base : Tokens, stamp : FormatStamps]

\* What makes the round trip of one event.
EventIs(ev, s) ==
  LET words == EventWords(ev, s)
  IN /\ words \in Seq(Word)
     /\ ev.type \in DOMAIN EventWordCounts
     /\ Len(words) = EventWordCounts[ev.type] /\ Len(words) \in {1, 2}
     /\ decode_type(words[1]) = ev.type
     /\ Consumed(ev.type, words, s)
          = [event |-> Kept(ev), state |-> EncoderState(ev, s)]
     /\ EncoderState(ev, s) \in EncoderStates

USE DEF kEventMalloc, kEventFree, kEventFreeSized, kEventRealloc, kEventMemalign,
        kEventTok, kEventBuf, kEventDeath, kEventEnd, kEventSyncBarrier, kEventExtBase

\* The states after an event, field by field.
LEMMA WithSizeIs ==
  ASSUME NEW s \in EncoderStates, NEW units
  PROVE  WithSize(units, s) = [prev_size |-> units, prev_token |-> s.prev_token,
                               malloc_tok_seq |-> Add(s.malloc_tok_seq, 1)]
<1>1. [s EXCEPT !.prev_size = units]
        = [prev_size |-> units, prev_token |-> s.prev_token,
           malloc_tok_seq |-> s.malloc_tok_seq]
  BY DEF EncoderStates
<1>2. ASSUME NEW m
      PROVE  [[prev_size |-> units, prev_token |-> s.prev_token,
               malloc_tok_seq |-> s.malloc_tok_seq] EXCEPT !.malloc_tok_seq = m]
               = [prev_size |-> units, prev_token |-> s.prev_token, malloc_tok_seq |-> m]
  OBVIOUS
<1>3. WithSize(units, s) = [[s EXCEPT !.prev_size = units]
                              EXCEPT !.malloc_tok_seq = Add(s.malloc_tok_seq, 1)]
  BY DEF WithSize
<1> QED BY <1>1, <1>2, <1>3

\* The same for the state in which only the token differs.
LEMMA WithTokenIs ==
  ASSUME NEW s \in EncoderStates, NEW token
  PROVE  [s EXCEPT !.prev_token = token]
           = [prev_size |-> s.prev_size, prev_token |-> token,
              malloc_tok_seq |-> s.malloc_tok_seq]
BY DEF EncoderStates

\* The next token is a word, wrapped around where it must.
LEMMA NextToken ==
  ASSUME NEW s \in EncoderStates
  PROVE  Add(s.malloc_tok_seq, 1) \in Word
BY WordIs DEF Add, EncoderStates

\* An allocation is decoded, in the encoder's state, to itself (see EventIs).
LEMMA MallocIs ==
  ASSUME NEW s \in EncoderStates, NEW size \in Sizes, NEW ev,
         ev = [type |-> kEventMalloc, size |-> size, new |-> s.malloc_tok_seq]
  PROVE  EventIs(ev, s)
<1> DEFINE delta == SizeDelta(size, s)
           word == Tagged(delta, kTypeShift, kEventMalloc)
<1>1. /\ delta \in Nat /\ delta < Pow(WordBits - kTypeShift)
      /\ Units(size) \in 0 .. SizeCount - 1
      /\ Shl(Units(size), 3) = 8 * ((size + 7) \div 8)
      /\ DecodedUnits(delta, s) = Units(size)
  BY SizeIs
<1>2. EventWords(ev, s) = <<word>>
  BY DEF EventWords, encode_malloc
<1> HIDE DEF delta
<1>3. word \in Word /\ Shr(word, kTypeShift) = delta /\ decode_type(word) = kEventMalloc
  BY <1>1, TypeIs
<1> HIDE DEF word
<1>4. Consumed(kEventMalloc, <<word>>, s)
        = [event |-> [type |-> kEventMalloc, size |-> 8 * ((size + 7) \div 8),
                      new |-> s.malloc_tok_seq],
           state |-> [prev_size |-> Units(size), prev_token |-> s.prev_token,
                      malloc_tok_seq |-> Add(s.malloc_tok_seq, 1)]]
  <2>1. Consumed(kEventMalloc, <<word>>, s) = decode_malloc(<<word>>, s)
    BY DEF Consumed
  <2>2. DecodedUnits(Shr(<<word>>[1], kTypeShift), s) = Units(size)
    BY <1>1, <1>3
  <2> QED BY <1>1, <2>1, <2>2, WithSizeIs DEF decode_malloc
<1>5. Kept(ev) = [type |-> kEventMalloc, size |-> 8 * ((size + 7) \div 8), new |-> s.malloc_tok_seq]
  BY DEF Kept
<1>6. EncoderState(ev, s)
        = [prev_size |-> Units(size), prev_token |-> s.prev_token,
           malloc_tok_seq |-> Add(s.malloc_tok_seq, 1)]
  BY DEF EncoderState
<1>7. EncoderState(ev, s) \in EncoderStates
  BY <1>1, <1>6, NextToken DEF EncoderStates
<1>8. ev.type = kEventMalloc /\ ev.type \in DOMAIN EventWordCounts /\ EventWordCounts[ev.type] = 1
  BY DEF EventWordCounts
<1>9. <<word>> \in Seq(Word) /\ Len(<<word>>) = 1 /\ <<word>>[1] = word
  BY <1>3
<1> QED BY <1>2, <1>3, <1>4, <1>5, <1>6, <1>7, <1>8, <1>9 DEF EventIs

\* So is a release, with and without the size.
LEMMA FreeIs ==
  ASSUME NEW s \in EncoderStates, NEW token \in Tokens, NEW ev,
         NEW type \in {kEventFree, kEventFreeSized}, ev = [type |-> type, old |-> token]
  PROVE  EventIs(ev, s)
<1> DEFINE delta == TokenDelta(token, s)
           word == Tagged(delta, kTypeShift, type)
<1>1. /\ delta \in Nat /\ delta < Pow(WordBits - kTypeShift)
      /\ token \in 0 .. TokenCount - 1 /\ DecodedToken(delta, s) = token
  BY TokenIs
<1>2. EventWords(ev, s) = <<word>>
  BY DEF EventWords, encode_free, encode_free_sized
<1> HIDE DEF delta
<1>3. word \in Word /\ Shr(word, kTypeShift) = delta /\ decode_type(word) = type
  BY <1>1, TypeIs
<1> HIDE DEF word
<1>4. Consumed(type, <<word>>, s)
        = [event |-> [type |-> type, old |-> token],
           state |-> [prev_size |-> s.prev_size, prev_token |-> token,
                      malloc_tok_seq |-> s.malloc_tok_seq]]
  <2>1. DecodedToken(Shr(<<word>>[1], kTypeShift), s) = token
    BY <1>1, <1>3
  <2>2. CASE type = kEventFree
    <3>1. Consumed(type, <<word>>, s) = decode_free(<<word>>, s)
      BY <2>2 DEF Consumed
    <3> QED BY <2>1, <2>2, <3>1, WithTokenIs DEF decode_free
  <2>3. CASE type = kEventFreeSized
    <3>1. Consumed(type, <<word>>, s) = decode_free_sized(<<word>>, s)
      BY <2>3 DEF Consumed
    <3> QED BY <2>1, <2>3, <3>1, WithTokenIs DEF decode_free_sized
  <2> QED BY <2>2, <2>3
<1>5. Kept(ev) = [type |-> type, old |-> token]
  BY DEF Kept
<1>6. EncoderState(ev, s)
        = [prev_size |-> s.prev_size, prev_token |-> token,
           malloc_tok_seq |-> s.malloc_tok_seq]
  BY DEF EncoderState
<1>7. EncoderState(ev, s) \in EncoderStates
  BY <1>1, <1>6 DEF EncoderStates
<1>8. ev.type = type /\ ev.type \in DOMAIN EventWordCounts /\ EventWordCounts[ev.type] = 1
  BY DEF EventWordCounts
<1>9. <<word>> \in Seq(Word) /\ Len(<<word>>) = 1 /\ <<word>>[1] = word
  BY <1>3
<1> QED BY <1>2, <1>3, <1>4, <1>5, <1>6, <1>7, <1>8, <1>9 DEF EventIs

\* So is a reallocation, in two words.
LEMMA ReallocIs ==
  ASSUME NEW s \in EncoderStates, NEW size \in Sizes, NEW token \in Tokens, NEW ev,
         ev = [type |-> kEventRealloc, size |-> size, new |-> s.malloc_tok_seq,
               old |-> token]
  PROVE  EventIs(ev, s)
<1> DEFINE delta == SizeDelta(size, s)
           word == Tagged(delta, kExtTypeShift, kEventRealloc)
           second == TokenDelta(token, s)
<1>1. /\ delta \in Nat /\ delta < Pow(WordBits - kExtTypeShift)
      /\ Units(size) \in 0 .. SizeCount - 1
      /\ Shl(Units(size), 3) = 8 * ((size + 7) \div 8)
      /\ DecodedUnits(delta, s) = Units(size)
  BY SizeIs
<1>2. /\ second \in Word /\ token \in 0 .. TokenCount - 1
      /\ DecodedToken(second, s) = token
  BY TokenIs
<1>3. EventWords(ev, s) = <<word, second>>
  BY DEF EventWords, encode_realloc
<1> HIDE DEF delta, second
<1>4. word \in Word /\ Shr(word, kExtTypeShift) = delta /\ decode_type(word) = kEventRealloc
  BY <1>1, ExtTypeIs DEF ExtTypes
<1> HIDE DEF word
<1>5. Consumed(kEventRealloc, <<word, second>>, s)
        = [event |-> [type |-> kEventRealloc, size |-> 8 * ((size + 7) \div 8),
                      new |-> s.malloc_tok_seq, old |-> token],
           state |-> [prev_size |-> Units(size), prev_token |-> token,
                      malloc_tok_seq |-> Add(s.malloc_tok_seq, 1)]]
  <2>1. Consumed(kEventRealloc, <<word, second>>, s) = decode_realloc(<<word, second>>, s)
    BY DEF Consumed
  <2>2. /\ DecodedUnits(Shr(<<word, second>>[1], kExtTypeShift), s) = Units(size)
        /\ DecodedToken(<<word, second>>[2], s) = token
    BY <1>1, <1>2, <1>4
  <2>3. [WithSize(Units(size), s) EXCEPT !.prev_token = token]
          = [prev_size |-> Units(size), prev_token |-> token,
             malloc_tok_seq |-> Add(s.malloc_tok_seq, 1)]
    BY WithSizeIs
  <2> QED BY <1>1, <2>1, <2>2, <2>3 DEF decode_realloc
<1>6. Kept(ev) = [type |-> kEventRealloc, size |-> 8 * ((size + 7) \div 8),
                  new |-> s.malloc_tok_seq, old |-> token]
  BY DEF Kept
<1>7. EncoderState(ev, s)
        = [prev_size |-> Units(size), prev_token |-> token,
           malloc_tok_seq |-> Add(s.malloc_tok_seq, 1)]
  BY DEF EncoderState
<1>8. EncoderState(ev, s) \in EncoderStates
  BY <1>1, <1>2, <1>7, NextToken DEF EncoderStates
<1>9. ev.type = kEventRealloc /\ ev.type \in DOMAIN EventWordCounts /\ EventWordCounts[ev.type] = 2
  BY DEF EventWordCounts
<1>10. <<word, second>> \in Seq(Word) /\ Len(<<word, second>>) = 2 /\ <<word, second>>[1] = word
  BY <1>2, <1>4
<1> QED BY <1>3, <1>4, <1>5, <1>6, <1>7, <1>8, <1>9, <1>10 DEF EventIs

\* So is an aligned allocation.
LEMMA MemalignIs ==
  ASSUME NEW s \in EncoderStates, NEW size \in Sizes, NEW alignment \in Alignments, NEW ev,
         ev = [type |-> kEventMemalign, size |-> size, new |-> s.malloc_tok_seq,
               alignment |-> alignment]
  PROVE  EventIs(ev, s)
<1> DEFINE delta == SizeDelta(size, s)
           word == Tagged(delta, kExtTypeShift, kEventMemalign)
<1>1. /\ delta \in Nat /\ delta < Pow(WordBits - kExtTypeShift)
      /\ Units(size) \in 0 .. SizeCount - 1
      /\ Shl(Units(size), 3) = 8 * ((size + 7) \div 8)
      /\ DecodedUnits(delta, s) = Units(size)
  BY SizeIs
<1>2. alignment \in Word
  BY AlignmentsAssumption
<1>3. EventWords(ev, s) = <<word, alignment>>
  BY DEF EventWords, encode_memalign
<1> HIDE DEF delta
<1>4. word \in Word /\ Shr(word, kExtTypeShift) = delta /\ decode_type(word) = kEventMemalign
  BY <1>1, ExtTypeIs DEF ExtTypes
<1> HIDE DEF word
<1>5. Consumed(kEventMemalign, <<word, alignment>>, s)
        = [event |-> [type |-> kEventMemalign, size |-> 8 * ((size + 7) \div 8),
                      new |-> s.malloc_tok_seq, alignment |-> alignment],
           state |-> [prev_size |-> Units(size), prev_token |-> s.prev_token,
                      malloc_tok_seq |-> Add(s.malloc_tok_seq, 1)]]
  <2>1. Consumed(kEventMemalign, <<word, alignment>>, s) = decode_memalign(<<word, alignment>>, s)
    BY DEF Consumed
  <2>2. DecodedUnits(Shr(<<word, alignment>>[1], kExtTypeShift), s) = Units(size)
    BY <1>1, <1>4
  <2> QED BY <1>1, <2>1, <2>2, WithSizeIs DEF decode_memalign
<1>6. Kept(ev) = [type |-> kEventMemalign, size |-> 8 * ((size + 7) \div 8),
                  new |-> s.malloc_tok_seq, alignment |-> alignment]
  BY DEF Kept
<1>7. EncoderState(ev, s)
        = [prev_size |-> Units(size), prev_token |-> s.prev_token,
           malloc_tok_seq |-> Add(s.malloc_tok_seq, 1)]
  BY DEF EncoderState
<1>8. EncoderState(ev, s) \in EncoderStates
  BY <1>1, <1>7, NextToken DEF EncoderStates
<1>9. ev.type = kEventMemalign /\ ev.type \in DOMAIN EventWordCounts /\ EventWordCounts[ev.type] = 2
  BY DEF EventWordCounts
<1>10. <<word, alignment>> \in Seq(Word) /\ Len(<<word, alignment>>) = 2 /\ <<word, alignment>>[1] = word
  BY <1>2, <1>4
<1> QED BY <1>3, <1>4, <1>5, <1>6, <1>7, <1>8, <1>9, <1>10 DEF EventIs

\* So is the event that gives the tracer's token anew.
LEMMA TokIs ==
  ASSUME NEW s \in EncoderStates, NEW base \in Tokens, NEW stamp \in FormatStamps, NEW ev,
         ev = [type |-> kEventTok, base |-> base, stamp |-> stamp]
  PROVE  EventIs(ev, s)
<1> DEFINE word == Tagged(base, kTypeShift, kEventTok)
           second == bundle_ts_and_cpu(stamp)
<1>1. base \in Nat /\ base \in Word /\ base < Pow(WordBits - kTypeShift)
  <2>1. base \in Word /\ base < Pow(WordBits - kTypeShift)
    BY TokenIs
  <2> QED BY <2>1, WordIs
<1>2. second \in Word /\ unbundle_ts_and_cpu(second) = KeptStamp(stamp)
  BY StampIs
<1>3. EventWords(ev, s) = <<word, second>>
  BY DEF EventWords, encode_token
<1> HIDE DEF second
<1>4. word \in Word /\ Shr(word, kTypeShift) = base /\ decode_type(word) = kEventTok
  BY <1>1, TypeIs
<1> HIDE DEF word
<1>5. Consumed(kEventTok, <<word, second>>, s)
        = [event |-> [type |-> kEventTok, base |-> base, stamp |-> KeptStamp(stamp)],
           state |-> [prev_size |-> s.prev_size, prev_token |-> s.prev_token,
                      malloc_tok_seq |-> base]]
  <2>1. Consumed(kEventTok, <<word, second>>, s)
          = [event |-> decode_token(<<word, second>>),
             state |-> [s EXCEPT !.malloc_tok_seq = decode_token(<<word, second>>).base]]
    BY DEF Consumed
  <2>2. decode_token(<<word, second>>)
          = [type |-> kEventTok, base |-> base, stamp |-> KeptStamp(stamp)]
    BY <1>2, <1>4 DEF decode_token
  <2>3. [s EXCEPT !.malloc_tok_seq = base]
          = [prev_size |-> s.prev_size, prev_token |-> s.prev_token,
             malloc_tok_seq |-> base]
    BY DEF EncoderStates
  <2> QED BY <2>1, <2>2, <2>3
<1>6. Kept(ev) = [type |-> kEventTok, base |-> base, stamp |-> KeptStamp(stamp)]
  BY DEF Kept, KeptStamp
<1>7. EncoderState(ev, s)
        = [prev_size |-> s.prev_size, prev_token |-> s.prev_token, malloc_tok_seq |-> base]
  BY DEF EncoderState
<1>8. EncoderState(ev, s) \in EncoderStates
  BY <1>1, <1>7 DEF EncoderStates
<1>9. ev.type = kEventTok /\ ev.type \in DOMAIN EventWordCounts /\ EventWordCounts[ev.type] = 2
  BY DEF EventWordCounts
<1>10. <<word, second>> \in Seq(Word) /\ Len(<<word, second>>) = 2 /\ <<word, second>>[1] = word
  BY <1>2, <1>4
<1> QED BY <1>3, <1>4, <1>5, <1>6, <1>7, <1>8, <1>9, <1>10 DEF EventIs

\* What a thread may record next, given what it recorded before, is decoded to
\* what the trace keeps of it, and both sides go on from the same state.
LEMMA EventsAre ==
  ASSUME NEW s \in EncoderStates, NEW ev \in EventsIn(s)
  PROVE  EventIs(ev, s)
<1>1. CASE ev \in [type : {kEventMalloc}, size : Sizes, new : {s.malloc_tok_seq}]
  <2>1. PICK size \in Sizes :
          ev = [type |-> kEventMalloc, size |-> size, new |-> s.malloc_tok_seq]
    BY <1>1
  <2> QED BY <2>1, MallocIs
<1>2. CASE ev \in [type : {kEventFree, kEventFreeSized}, old : Tokens]
  <2>1. PICK type \in {kEventFree, kEventFreeSized}, token \in Tokens :
          ev = [type |-> type, old |-> token]
    BY <1>2
  <2> QED BY <2>1, FreeIs
<1>3. CASE ev \in [type : {kEventRealloc}, size : Sizes, new : {s.malloc_tok_seq}, old : Tokens]
  <2>1. PICK size \in Sizes, token \in Tokens :
          ev = [type |-> kEventRealloc, size |-> size, new |-> s.malloc_tok_seq,
                old |-> token]
    BY <1>3
  <2> QED BY <2>1, ReallocIs
<1>4. CASE ev \in [type : {kEventMemalign}, size : Sizes, new : {s.malloc_tok_seq},
                   alignment : Alignments]
  <2>1. PICK size \in Sizes, alignment \in Alignments :
          ev = [type |-> kEventMemalign, size |-> size, new |-> s.malloc_tok_seq,
                alignment |-> alignment]
    BY <1>4
  <2> QED BY <2>1, MemalignIs
<1>5. CASE ev \in [type : {kEventTok}, base : Tokens, stamp : FormatStamps]
  <2>1. PICK base \in Tokens, stamp \in FormatStamps :
          ev = [type |-> kEventTok, base |-> base, stamp |-> stamp]
    BY <1>5
  <2> QED BY <2>1, TokIs
<1> QED BY <1>1, <1>2, <1>3, <1>4, <1>5 DEF EventsIn

(***************************************************************************)
(* The records.                                                            *)
(***************************************************************************)
RecordsOfTrace ==
  [type : {kEventBuf}, thread : Threads, stamp : FormatStamps, size : Word]
  \cup [type : {kEventDeath}, thread : Threads, stamp : FormatStamps]
  \cup [type : {kEventSyncBarrier}, stamp : FormatStamps]
  \cup [type : {kEventEnd}]

RecordWords(record) ==
  CASE record.type = kEventBuf -> encode_buffer(record)
    [] record.type = kEventDeath -> encode_death(record)
    [] record.type = kEventSyncBarrier -> encode_sync_barrier(record)
    [] record.type = kEventEnd -> encode_end

RecordIs(record) ==
  LET words == RecordWords(record)
  IN /\ words \in Seq(Word)
     /\ record.type \in DOMAIN RecordWordCounts
     /\ Len(words) = RecordWordCounts[record.type] /\ Len(words) \in {1, 2, 3}
     /\ decode_type(words[1]) = record.type
     /\ DecodedRecord(record.type, words) = Kept(record)
     /\ record.type = kEventBuf =>
          /\ record.thread \in Threads /\ record.size \in Nat
          /\ Kept(record).thread = record.thread /\ Kept(record).size = record.size

\* The id of a thread fits beside both kinds of type.
LEMMA ThreadIdIs ==
  ASSUME NEW t \in Threads
  PROVE  /\ t \in Nat /\ t < Pow(WordBits - kExtTypeShift)
         /\ t < Pow(WordBits - kTypeShift)
<1>1. t \in Nat /\ t < Pow(WordBits - kExtTypeShift)
  BY ThreadIdsAssumption DEF Pow
<1>2. /\ Pow(WordBits - kExtTypeShift) <= Pow(WordBits - kTypeShift)
      /\ Pow(WordBits - kExtTypeShift) \in Nat /\ Pow(WordBits - kTypeShift) \in Nat
  <2>1. /\ 2 * SizeCount \in Nat /\ 2 * TokenCount \in Nat
        /\ 2 * SizeCount = Pow(WordBits - kExtTypeShift)
        /\ 2 * TokenCount = Pow(WordBits - kTypeShift)
        /\ Pow(WordBits - kExtTypeShift) <= Pow(WordBits - kTypeShift)
    BY CountsAre
  <2> QED BY <2>1
<1> QED BY <1>1, <1>2

\* A Buf is decoded to what the trace keeps of it (see RecordIs).
LEMMA BufIs ==
  ASSUME NEW t \in Threads, NEW stamp \in FormatStamps, NEW size \in Word, NEW record,
         record = [type |-> kEventBuf, thread |-> t, stamp |-> stamp, size |-> size]
  PROVE  RecordIs(record)
<1> DEFINE word == Tagged(t, kTypeShift, kEventBuf)
           second == bundle_ts_and_cpu(stamp)
<1>1. second \in Word /\ unbundle_ts_and_cpu(second) = KeptStamp(stamp) /\ size \in Nat
  BY StampIs, WordIs
<1>2. RecordWords(record) = <<word, second, size>>
  BY DEF RecordWords, encode_buffer
<1> HIDE DEF second
<1>3. word \in Word /\ Shr(word, kTypeShift) = t /\ decode_type(word) = kEventBuf
  BY ThreadIdIs, TypeIs
<1> HIDE DEF word
<1>4. DecodedRecord(kEventBuf, <<word, second, size>>)
        = [type |-> kEventBuf, thread |-> t, stamp |-> KeptStamp(stamp), size |-> size]
  <2>1. DecodedRecord(kEventBuf, <<word, second, size>>) = decode_buffer(<<word, second, size>>)
    BY DEF DecodedRecord
  <2> QED BY <1>1, <1>3, <2>1 DEF decode_buffer
<1>5. Kept(record) = [type |-> kEventBuf, thread |-> t, stamp |-> KeptStamp(stamp), size |-> size]
  BY DEF Kept, KeptStamp
<1>6. /\ record.type = kEventBuf /\ record.thread = t /\ record.size = size
      /\ record.type \in DOMAIN RecordWordCounts
      /\ RecordWordCounts[record.type] = 3
  BY DEF RecordWordCounts
<1>7. /\ <<word, second, size>> \in Seq(Word) /\ Len(<<word, second, size>>) = 3
      /\ <<word, second, size>>[1] = word
  BY <1>1, <1>3
<1>8. Kept(record).thread = t /\ Kept(record).size = size
  BY <1>5
<1> DEFINE words == <<word, second, size>>
<1> HIDE DEF words
<1>9. /\ RecordWords(record) = words /\ words \in Seq(Word) /\ Len(words) = 3
      /\ words[1] = word
  BY <1>2, <1>7 DEF words
<1>10. DecodedRecord(kEventBuf, words) = Kept(record)
  BY <1>4, <1>5 DEF words
<1>11. Len(words) \in {1, 2, 3} /\ Len(words) = RecordWordCounts[record.type]
  BY <1>6, <1>9
<1>12. decode_type(words[1]) = record.type /\ DecodedRecord(record.type, words) = Kept(record)
  BY <1>3, <1>6, <1>9, <1>10
<1>13. /\ record.thread \in Threads /\ record.size \in Nat
       /\ Kept(record).thread = record.thread /\ Kept(record).size = record.size
  BY <1>1, <1>6, <1>8
<1> QED BY <1>6, <1>9, <1>11, <1>12, <1>13, Zenon DEF RecordIs

\* So is a thread's Death.
LEMMA DeathIs ==
  ASSUME NEW t \in Threads, NEW stamp \in FormatStamps, NEW record,
         record = [type |-> kEventDeath, thread |-> t, stamp |-> stamp]
  PROVE  RecordIs(record)
<1> DEFINE word == Tagged(t, kExtTypeShift, kEventDeath)
           second == bundle_ts_and_cpu(stamp)
<1>1. second \in Word /\ unbundle_ts_and_cpu(second) = KeptStamp(stamp)
  BY StampIs
<1>2. RecordWords(record) = <<word, second>>
  BY DEF RecordWords, encode_death
<1> HIDE DEF second
<1>3. word \in Word /\ Shr(word, kExtTypeShift) = t /\ decode_type(word) = kEventDeath
  BY ThreadIdIs, ExtTypeIs DEF ExtTypes
<1> HIDE DEF word
<1>4. DecodedRecord(kEventDeath, <<word, second>>)
        = [type |-> kEventDeath, thread |-> t, stamp |-> KeptStamp(stamp)]
  <2>1. DecodedRecord(kEventDeath, <<word, second>>) = decode_death(<<word, second>>)
    BY DEF DecodedRecord
  <2> QED BY <1>1, <1>3, <2>1 DEF decode_death
<1>5. Kept(record) = [type |-> kEventDeath, thread |-> t, stamp |-> KeptStamp(stamp)]
  BY DEF Kept, KeptStamp
<1>6. /\ record.type = kEventDeath /\ record.type # kEventBuf
      /\ record.type \in DOMAIN RecordWordCounts /\ RecordWordCounts[record.type] = 2
  BY DEF RecordWordCounts
<1>7. /\ <<word, second>> \in Seq(Word) /\ Len(<<word, second>>) = 2
      /\ <<word, second>>[1] = word
  BY <1>1, <1>3
<1> QED BY <1>2, <1>3, <1>4, <1>5, <1>6, <1>7 DEF RecordIs

\* The types of the records that have nothing in their first word but that.
LEMMA BareTypeIs ==
  ASSUME NEW type \in ExtTypes
  PROVE  type \in Word /\ decode_type(type) = type
<1>1. 0 < Pow(WordBits - kExtTypeShift)
  <2>1. WordBits - kExtTypeShift \in Nat
    BY ShiftsAre
  <2>2. Pow(WordBits - kExtTypeShift) \in Nat \ {0}
    BY <2>1, PowIs
  <2> QED BY <2>2
<1>2. Tagged(0, kExtTypeShift, type) \in Word /\ decode_type(Tagged(0, kExtTypeShift, type)) = type
  BY <1>1, ExtTypeIs
<1>3. Tagged(0, kExtTypeShift, type) = type
  <2> DEFINE d == Pow(kExtTypeShift)
  <2>1. d \in Nat /\ WordCount \in Nat \ {0}
    BY PowIs, ShiftsAre, WordIs
  <2> HIDE DEF d
  <2>2. 0 * d = 0 /\ 0 % WordCount = 0
    BY <2>1, DivBelow
  <2>3. Shl(0, kExtTypeShift) = 0
    BY <2>2 DEF Shl, d, Pow
  <2>4. type + 0 = type /\ 0 + type = type
    BY DEF ExtTypes
  <2> QED BY <2>3, <2>4 DEF Tagged
<1> QED BY <1>2, <1>3

\* So is a SyncBarrier.
LEMMA SyncBarrierIs ==
  ASSUME NEW stamp \in FormatStamps, NEW record,
         record = [type |-> kEventSyncBarrier, stamp |-> stamp]
  PROVE  RecordIs(record)
<1> DEFINE second == bundle_ts_and_cpu(stamp)
           words == <<kEventSyncBarrier, second>>
<1>1. second \in Word /\ unbundle_ts_and_cpu(second) = KeptStamp(stamp)
  BY StampIs
<1>2. RecordWords(record) = words
  BY DEF RecordWords, encode_sync_barrier
<1> HIDE DEF second
<1>3. kEventSyncBarrier \in Word /\ decode_type(kEventSyncBarrier) = kEventSyncBarrier
  <2>1. kEventSyncBarrier \in ExtTypes
    BY DEF ExtTypes
  <2> QED BY <2>1, BareTypeIs
<1>4. DecodedRecord(kEventSyncBarrier, words)
        = [type |-> kEventSyncBarrier, stamp |-> KeptStamp(stamp)]
  <2>1. DecodedRecord(kEventSyncBarrier, words) = decode_sync_barrier(words)
    BY DEF DecodedRecord
  <2> QED BY <1>1, <2>1 DEF decode_sync_barrier
<1>5. Kept(record) = [type |-> kEventSyncBarrier, stamp |-> KeptStamp(stamp)]
  BY DEF Kept, KeptStamp
<1>6. /\ record.type = kEventSyncBarrier /\ record.type # kEventBuf
      /\ record.type \in DOMAIN RecordWordCounts /\ RecordWordCounts[record.type] = 2
  BY DEF RecordWordCounts
<1>7. words \in Seq(Word) /\ Len(words) = 2 /\ words[1] = kEventSyncBarrier
  BY <1>1, <1>3
<1> HIDE DEF words
<1> QED BY <1>2, <1>3, <1>4, <1>5, <1>6, <1>7 DEF RecordIs

\* So is the End.
LEMMA EndIs ==
  ASSUME NEW record, record = [type |-> kEventEnd]
  PROVE  RecordIs(record)
<1> DEFINE words == <<kEventEnd>>
<1>1. RecordWords(record) = words
  BY DEF RecordWords, encode_end
<1>2. kEventEnd \in Word /\ decode_type(kEventEnd) = kEventEnd
  <2>1. kEventEnd \in ExtTypes
    BY DEF ExtTypes
  <2> QED BY <2>1, BareTypeIs
<1>3. DecodedRecord(kEventEnd, words) = [type |-> kEventEnd]
  BY DEF DecodedRecord
<1>4. Kept(record) = [type |-> kEventEnd]
  BY DEF Kept
<1>5. /\ record.type = kEventEnd /\ record.type # kEventBuf
      /\ record.type \in DOMAIN RecordWordCounts /\ RecordWordCounts[record.type] = 1
  BY DEF RecordWordCounts
<1>6. words \in Seq(Word) /\ Len(words) = 1 /\ words[1] = kEventEnd
  BY <1>2
<1> HIDE DEF words
<1> QED BY <1>1, <1>2, <1>3, <1>4, <1>5, <1>6 DEF RecordIs

\* A record is decoded to what the trace keeps of it.
LEMMA RecordsAre ==
  ASSUME NEW record \in RecordsOfTrace
  PROVE  RecordIs(record)
<1>1. CASE record \in [type : {kEventBuf}, thread : Threads, stamp : FormatStamps, size : Word]
  <2>1. PICK t \in Threads, stamp \in FormatStamps, size \in Word :
          record = [type |-> kEventBuf, thread |-> t, stamp |-> stamp, size |-> size]
    BY <1>1
  <2> QED BY <2>1, BufIs
<1>2. CASE record \in [type : {kEventDeath}, thread : Threads, stamp : FormatStamps]
  <2>1. PICK t \in Threads, stamp \in FormatStamps :
          record = [type |-> kEventDeath, thread |-> t, stamp |-> stamp]
    BY <1>2
  <2> QED BY <2>1, DeathIs
<1>3. CASE record \in [type : {kEventSyncBarrier}, stamp : FormatStamps]
  <2>1. PICK stamp \in FormatStamps : record = [type |-> kEventSyncBarrier, stamp |-> stamp]
    BY <1>3
  <2> QED BY <2>1, SyncBarrierIs
<1>4. CASE record \in [type : {kEventEnd}]
  <2>1. record = [type |-> kEventEnd]
    BY <1>4
  <2> QED BY <2>1, EndIs
<1> QED BY <1>1, <1>2, <1>3, <1>4 DEF RecordsOfTrace

(***************************************************************************)
(* Bytes.                                                                  *)
(***************************************************************************)

\* FlattenSeq of the few sequences that it is used for.
LEMMA FlattenIs ==
  ASSUME NEW seqs, NEW n \in {1, 2, 3}, Len(seqs) = n
  PROVE  FlattenSeq(seqs) = IF n = 1 THEN seqs[1]
                            ELSE IF n = 2 THEN seqs[1] \o seqs[2]
                            ELSE (seqs[1] \o seqs[2]) \o seqs[3]
<1> DEFINE Equal(e) ==
             e = [i \in 1 .. Len(seqs) |-> IF i = 1 THEN seqs[i] ELSE e[i - 1] \o seqs[i]]
           f == CHOOSE e : Equal(e)
           g == [i \in 1 .. n |-> IF i = 1 THEN seqs[1]
                                  ELSE IF i = 2 THEN seqs[1] \o seqs[2]
                                  ELSE (seqs[1] \o seqs[2]) \o seqs[3]]
<1>1. FlattenSeq(seqs) = f[Len(seqs)]
  BY DEF FlattenSeq
<1>2. ASSUME NEW e
      PROVE Equal(e) <=> e = [i \in 1 .. n |-> IF i = 1 THEN seqs[i] ELSE e[i - 1] \o seqs[i]]
  OBVIOUS
<1> HIDE DEF Equal
<1>3. Equal(g)
  <2>1. \A i \in 1 .. n : g[i] = IF i = 1 THEN seqs[i] ELSE g[i - 1] \o seqs[i]
    <3> TAKE i \in 1 .. n
    <3>1. CASE i = 1
      BY <3>1
    <3>2. CASE i = 2
      <4>1. 1 \in 1 .. n /\ i - 1 = 1
        BY <3>2
      <4> QED BY <3>2, <4>1
    <3>3. CASE i = 3
      <4>1. 2 \in 1 .. n /\ i - 1 = 2
        BY <3>3
      <4> QED BY <3>3, <4>1
    <3> QED BY <3>1, <3>2, <3>3
  <2>2. g = [i \in 1 .. n |-> g[i]]
    OBVIOUS
  <2> HIDE DEF g
  <2>3. g = [i \in 1 .. n |-> IF i = 1 THEN seqs[i] ELSE g[i - 1] \o seqs[i]]
    BY <2>1, <2>2
  <2> QED BY <1>2, <2>3
<1>4. Equal(f)
  BY <1>3
<1> HIDE DEF f
<1>5. f = [i \in 1 .. n |-> IF i = 1 THEN seqs[i] ELSE f[i - 1] \o seqs[i]]
  BY <1>2, <1>4
<1>6. \A i \in 1 .. n : f[i] = IF i = 1 THEN seqs[i] ELSE f[i - 1] \o seqs[i]
  BY <1>5
<1>7. f[1] = seqs[1]
  <2>1. 1 \in 1 .. n
    OBVIOUS
  <2> QED BY <1>6, <2>1
<1>8. n # 1 => f[2] = seqs[1] \o seqs[2]
  <2>1. n # 1 => 2 \in 1 .. n
    OBVIOUS
  <2>2. 2 - 1 = 1 /\ 2 # 1
    OBVIOUS
  <2>3. n # 1 => f[2] = f[2 - 1] \o seqs[2]
    BY <1>6, <2>1
  <2> QED BY <1>7, <2>2, <2>3
<1>9. n = 3 => f[3] = (seqs[1] \o seqs[2]) \o seqs[3]
  <2>1. n = 3 => 3 \in 1 .. n
    OBVIOUS
  <2>2. 3 - 1 = 2 /\ 3 # 1
    OBVIOUS
  <2>3. n = 3 => f[3] = f[3 - 1] \o seqs[3]
    BY <1>6, <2>1
  <2> QED BY <1>8, <2>2, <2>3
<1> QED BY <1>1, <1>7, <1>8, <1>9

\* The bytes of one, two and three words.
LEMMA EncodeIs ==
  ASSUME NEW words \in Seq(Word), Len(words) \in {1, 2, 3}
  PROVE  Encode(words)
           = IF Len(words) = 1 THEN encode_unsigned(words[1])
             ELSE IF Len(words) = 2
             THEN encode_unsigned(words[1]) \o encode_unsigned(words[2])
             ELSE (encode_unsigned(words[1]) \o encode_unsigned(words[2]))
                     \o encode_unsigned(words[3])
<1> DEFINE n == Len(words)
           seqs == [i \in DOMAIN words |-> encode_unsigned(words[i])]
<1>1. DOMAIN words = 1 .. n /\ n \in Nat
  OBVIOUS
<1>2. Len(seqs) = n
  BY <1>1
<1>3. /\ seqs[1] = encode_unsigned(words[1])
      /\ n # 1 => seqs[2] = encode_unsigned(words[2])
      /\ n = 3 => seqs[3] = encode_unsigned(words[3])
  BY <1>1
<1>4. Encode(words) = FlattenSeq(seqs)
  BY DEF Encode
<1> HIDE DEF seqs
<1>5. n \in {1, 2, 3}
  OBVIOUS
<1> HIDE DEF n
<1>6. FlattenSeq(seqs) = IF n = 1 THEN seqs[1]
                         ELSE IF n = 2 THEN seqs[1] \o seqs[2]
                         ELSE (seqs[1] \o seqs[2]) \o seqs[3]
  BY <1>2, <1>5, FlattenIs
<1>7. Encode(words) = IF n = 1 THEN encode_unsigned(words[1])
                      ELSE IF n = 2
                      THEN encode_unsigned(words[1]) \o encode_unsigned(words[2])
                      ELSE (encode_unsigned(words[1]) \o encode_unsigned(words[2]))
                              \o encode_unsigned(words[3])
  BY <1>3, <1>4, <1>5, <1>6
<1> QED BY <1>7 DEF n

\* Bytes that lie at a place of others.
Piece(bytes, place, piece) ==
  /\ place \in Nat /\ place + Len(piece) <= Len(bytes)
  /\ \A i \in 1 .. Len(piece) : bytes[place + i] = piece[i]

\* The two parts of a piece of the trace are pieces of it.
LEMMA PieceParts ==
  ASSUME NEW S, NEW s \in Seq(S), NEW t \in Seq(S), NEW bytes \in Seq(S), NEW place \in Nat,
         Piece(bytes, place, s \o t)
  PROVE  /\ Piece(bytes, place, s) /\ Piece(bytes, place + Len(s), t)
         /\ Len(s \o t) = Len(s) + Len(t)
<1>1. /\ Len(s) \in Nat /\ Len(t) \in Nat /\ Len(bytes) \in Nat /\ Len(s \o t) = Len(s) + Len(t)
      /\ \A i \in 1 .. Len(s) + Len(t) :
           (s \o t)[i] = IF i <= Len(s) THEN s[i] ELSE t[i - Len(s)]
  BY ConcatProperties
<1>2. /\ place + (Len(s) + Len(t)) <= Len(bytes)
      /\ \A i \in 1 .. Len(s) + Len(t) : bytes[place + i] = (s \o t)[i]
  BY <1>1 DEF Piece
<1>3. Piece(bytes, place, s)
  <2>1. place + Len(s) <= Len(bytes)
    BY <1>1, <1>2
  <2>2. \A i \in 1 .. Len(s) : i \in 1 .. Len(s) + Len(t) /\ i <= Len(s)
    BY <1>1
  <2> QED BY <1>1, <1>2, <2>1, <2>2 DEF Piece
<1>4. Piece(bytes, place + Len(s), t)
  <2>1. place + Len(s) \in Nat /\ (place + Len(s)) + Len(t) <= Len(bytes)
    BY <1>1, <1>2
  <2>2. ASSUME NEW i \in 1 .. Len(t)
        PROVE bytes[(place + Len(s)) + i] = t[i]
    <3> DEFINE j == Len(s) + i
    <3>1. /\ j \in 1 .. Len(s) + Len(t) /\ ~(j <= Len(s)) /\ j - Len(s) = i
          /\ place + j = (place + Len(s)) + i
      BY <1>1
    <3> HIDE DEF j
    <3> QED BY <1>1, <1>2, <3>1
  <2> QED BY <2>1, <2>2 DEF Piece
<1> QED BY <1>1, <1>3, <1>4

\* A varint in the trace, at least one byte of which is not behind the end of
\* what is decoded.
LEMMA VarintIs ==
  ASSUME NEW val \in Word, NEW place \in Nat, NEW end \in Nat, NEW fill \in Fills,
         trace \in Seq(Byte), end <= Len(trace),
         Piece(trace, place, encode_unsigned(val)), place + Len(encode_unsigned(val)) <= end
  PROVE  Varint(place, end, fill)
           = [advance |-> Len(encode_unsigned(val)), value |-> val]
<1> DEFINE s == encode_unsigned(val)
           memory == [i \in 1 .. kMaxSize |->
                        IF place + i <= end THEN trace[place + i] ELSE fill]
<1>1. /\ s \in Seq(Byte) /\ Len(s) \in 1 .. kMaxSize
      /\ \A bytes : Holds(bytes, val) =>
           decode_unsigned(bytes) = [advance |-> Len(s), value |-> val]
  BY CodecIs
<1>2. /\ \A i \in 1 .. Len(s) : trace[place + i] = s[i]
      /\ place + Len(s) <= end
  BY DEF Piece
<1>3. Varint(place, end, fill) = decode_unsigned(memory)
  BY DEF Varint
<1>4. kMaxSize \in Nat /\ fill \in Byte
  BY FillsAssumption, WordIs DEF kMaxSize
<1> HIDE DEF s
<1>5. memory \in [1 .. kMaxSize -> Byte]
  <2> DEFINE S == Byte
  <2>1. trace \in Seq(S) /\ fill \in S
    BY <1>4
  <2> HIDE DEF S
  <2>2. \A i \in 1 .. kMaxSize : place + i <= end => place + i \in 1 .. Len(trace)
    OBVIOUS
  <2>3. \A i \in 1 .. kMaxSize : (IF place + i <= end THEN trace[place + i] ELSE fill) \in S
    BY <2>1, <2>2
  <2>4. memory \in [1 .. kMaxSize -> S]
    BY <2>3
  <2> QED BY <2>4 DEF S
<1>6. \A i \in 1 .. Len(s) : memory[i] = s[i]
  <2>1. \A i \in 1 .. Len(s) : i \in 1 .. kMaxSize /\ place + i <= end
    BY <1>1, <1>2, <1>4
  <2> QED BY <1>2, <2>1
<1> HIDE DEF memory
<1>7. Holds(memory, val)
  BY <1>5, <1>6 DEF Holds, s
<1> QED BY <1>1, <1>3, <1>7 DEF s

\* Words are encoded as bytes, and each takes some.
LEMMA EncodeTyped ==
  ASSUME NEW words \in Seq(Word), Len(words) \in {1, 2, 3}
  PROVE  /\ Encode(words) \in Seq(Byte) /\ Len(Encode(words)) \in Nat \ {0}
         /\ \A i \in 1 .. Len(words) :
              /\ words[i] \in Word /\ encode_unsigned(words[i]) \in Seq(Byte)
              /\ Len(encode_unsigned(words[i])) \in Nat \ {0}
<1>1. ASSUME NEW i \in 1 .. Len(words)
      PROVE  /\ words[i] \in Word /\ encode_unsigned(words[i]) \in Seq(Byte)
             /\ Len(encode_unsigned(words[i])) \in Nat \ {0}
  <2>1. words[i] \in Word
    OBVIOUS
  <2>2. /\ encode_unsigned(words[i]) \in Seq(Byte)
        /\ Len(encode_unsigned(words[i])) \in 1 .. kMaxSize
    BY <2>1, CodecIs
  <2> QED BY <2>1, <2>2
<1> DEFINE a == encode_unsigned(words[1])
           b == encode_unsigned(words[2])
           c == encode_unsigned(words[3])
           S == Byte
<1>2. a \in Seq(S) /\ Len(a) \in Nat \ {0}
  <2>1. 1 \in 1 .. Len(words)
    OBVIOUS
  <2> QED BY <1>1, <2>1
<1>3. Len(words) # 1 => b \in Seq(S) /\ Len(b) \in Nat \ {0}
  <2>1. Len(words) # 1 => 2 \in 1 .. Len(words)
    <3> DEFINE n == Len(words)
    <3>1. n \in {1, 2, 3}
      OBVIOUS
    <3> HIDE DEF n
    <3>2. n # 1 => 2 \in 1 .. n
      BY <3>1
    <3> QED BY <3>2 DEF n
  <2> QED BY <1>1, <2>1
<1>4. Len(words) = 3 => c \in Seq(S) /\ Len(c) \in Nat \ {0}
  <2>1. Len(words) = 3 => 3 \in 1 .. Len(words)
    OBVIOUS
  <2> QED BY <1>1, <2>1
<1>5. Encode(words) = IF Len(words) = 1 THEN a ELSE IF Len(words) = 2 THEN a \o b
                      ELSE (a \o b) \o c
  BY EncodeIs
<1> HIDE DEF a, b, c, S
<1>6. Len(words) # 1 => a \o b \in Seq(S) /\ Len(a \o b) \in Nat \ {0}
  BY <1>2, <1>3, ConcatProperties
<1>7. Len(words) = 3 => (a \o b) \o c \in Seq(S) /\ Len((a \o b) \o c) \in Nat \ {0}
  <2>1. SUFFICES ASSUME Len(words) = 3
                 PROVE  (a \o b) \o c \in Seq(S) /\ Len((a \o b) \o c) \in Nat \ {0}
    OBVIOUS
  <2> DEFINE d == a \o b
  <2>2. d \in Seq(S) /\ Len(d) \in Nat \ {0} /\ c \in Seq(S) /\ Len(c) \in Nat \ {0}
    BY <1>4, <1>6, <2>1
  <2> HIDE DEF d
  <2>3. d \o c \in Seq(S) /\ Len(d \o c) = Len(d) + Len(c)
    BY <2>2, ConcatProperties
  <2> QED BY <2>2, <2>3 DEF d
<1>8. Encode(words) \in Seq(S) /\ Len(Encode(words)) \in Nat \ {0}
  BY <1>2, <1>5, <1>6, <1>7
<1> QED BY <1>1, <1>8 DEF S

\* The words that Words puts together, when there is one,
LEMMA JoinedOne ==
  ASSUME NEW S, NEW s \in Seq(S), Len(s) = 1
  PROVE  <<s[1]>> \o <<>> \o <<>> = s
<1> DEFINE a == <<s[1]>>
<1>1. a \in Seq(S) /\ Len(a) = 1 /\ a[1] = s[1]
  OBVIOUS
<1> HIDE DEF a
<1>2. a = s
  BY <1>1, SeqEqual
<1>3. a \o <<>> = a
  BY <1>1, ConcatEmptySeq
<1> QED BY <1>2, <1>3 DEF a

\* two,
LEMMA JoinedTwo ==
  ASSUME NEW S, NEW s \in Seq(S), Len(s) = 2
  PROVE  <<s[1]>> \o <<s[2]>> \o <<>> = s
<1> DEFINE a == <<s[1]>>
           b == <<s[2]>>
           d == a \o b
<1>1. /\ a \in Seq(S) /\ Len(a) = 1 /\ a[1] = s[1]
      /\ b \in Seq(S) /\ Len(b) = 1 /\ b[1] = s[2]
  <2>1. 1 \in 1 .. Len(s) /\ 2 \in 1 .. Len(s)
    OBVIOUS
  <2>2. s[1] \in S /\ s[2] \in S
    BY <2>1, ElementOfSeq
  <2> QED BY <2>2
<1> HIDE DEF a, b
<1>2. /\ d \in Seq(S) /\ Len(d) = 2
      /\ \A i \in 1 .. 2 : d[i] = IF i <= 1 THEN a[i] ELSE b[i - 1]
  <2>1. /\ d \in Seq(S) /\ Len(d) = Len(a) + Len(b)
        /\ \A i \in 1 .. Len(a) + Len(b) : d[i] = IF i <= Len(a) THEN a[i] ELSE b[i - Len(a)]
    BY <1>1, ConcatProperties
  <2> QED BY <1>1, <2>1
<1> HIDE DEF d
<1>3. \A i \in 1 .. 2 : d[i] = s[i]
  BY <1>1, <1>2
<1>4. d = s
  BY <1>2, <1>3, SeqEqual
<1>5. d \o <<>> = d
  BY <1>2, ConcatEmptySeq
<1> QED BY <1>4, <1>5 DEF a, b, d

\* or three of them.
LEMMA JoinedThree ==
  ASSUME NEW S, NEW s \in Seq(S), Len(s) = 3
  PROVE  <<s[1]>> \o <<s[2]>> \o <<s[3]>> = s
<1> DEFINE a == <<s[1]>>
           b == <<s[2]>>
           c == <<s[3]>>
           d == a \o b
           e == d \o c
<1>1. /\ a \in Seq(S) /\ Len(a) = 1 /\ a[1] = s[1]
      /\ b \in Seq(S) /\ Len(b) = 1 /\ b[1] = s[2]
      /\ c \in Seq(S) /\ Len(c) = 1 /\ c[1] = s[3]
  <2>1. 1 \in 1 .. Len(s) /\ 2 \in 1 .. Len(s) /\ 3 \in 1 .. Len(s)
    OBVIOUS
  <2>2. s[1] \in S /\ s[2] \in S /\ s[3] \in S
    BY <2>1, ElementOfSeq
  <2> QED BY <2>2
<1> HIDE DEF a, b, c
<1>2. /\ d \in Seq(S) /\ Len(d) = 2
      /\ \A i \in 1 .. 2 : d[i] = IF i <= 1 THEN a[i] ELSE b[i - 1]
  <2>1. /\ d \in Seq(S) /\ Len(d) = Len(a) + Len(b)
        /\ \A i \in 1 .. Len(a) + Len(b) : d[i] = IF i <= Len(a) THEN a[i] ELSE b[i - Len(a)]
    BY <1>1, ConcatProperties
  <2> QED BY <1>1, <2>1
<1> HIDE DEF d
<1>3. /\ e \in Seq(S) /\ Len(e) = 3
      /\ \A i \in 1 .. 3 : e[i] = IF i <= 2 THEN d[i] ELSE c[i - 2]
  <2>1. /\ e \in Seq(S) /\ Len(e) = Len(d) + Len(c)
        /\ \A i \in 1 .. Len(d) + Len(c) : e[i] = IF i <= Len(d) THEN d[i] ELSE c[i - Len(d)]
    BY <1>1, <1>2, ConcatProperties
  <2> QED BY <1>1, <1>2, <2>1
<1> HIDE DEF e
<1>4. \A i \in 1 .. 3 : e[i] = s[i]
  <2>1. d[1] = s[1] /\ d[2] = s[2]
    BY <1>1, <1>2
  <2>2. e[1] = d[1] /\ e[2] = d[2] /\ e[3] = c[1]
    BY <1>3
  <2> QED BY <1>1, <2>1, <2>2
<1>5. e = s
  BY <1>3, <1>4, SeqEqual
<1> QED BY <1>5 DEF a, b, c, d, e

\* The words of a record or event that lies at the decoder's place: the decoder
\* finds all of them, and the place after them.
LEMMA WordsAre ==
  ASSUME NEW words \in Seq(Word), Len(words) \in {1, 2, 3},
         NEW counts, NEW type \in DOMAIN counts, counts[type] = Len(words),
         decode_type(words[1]) = type,
         NEW end \in Nat, end <= Len(trace), trace \in Seq(Byte), NEW fill \in Fills,
         Piece(trace, pos, Encode(words)), pos + Len(Encode(words)) <= end
  PROVE  Words(end, fill, counts)
           = [type |-> type, known |-> TRUE, words |-> words,
              next |-> pos + Len(Encode(words))]
<1> DEFINE n == Len(words)
           a == encode_unsigned(words[1])
           b == encode_unsigned(words[2])
           c == encode_unsigned(words[3])
           S == Byte
           first == Varint(pos, end, fill)
           second == Varint(pos + first.advance, end, fill)
           third == Varint(pos + first.advance + second.advance, end, fill)
           all == <<first.value>> \o (IF n >= 2 THEN <<second.value>> ELSE <<>>)
                     \o (IF n >= 3 THEN <<third.value>> ELSE <<>>)
           next == pos + first.advance + (IF n >= 2 THEN second.advance ELSE 0)
                      + (IF n >= 3 THEN third.advance ELSE 0)
<1>1. pos \in Nat /\ n \in {1, 2, 3} /\ Len(trace) \in Nat
  BY DEF Piece
<1>2. words[1] \in Word /\ a \in Seq(S) /\ Len(a) \in Nat \ {0}
  <2>1. 1 \in 1 .. Len(words)
    OBVIOUS
  <2> QED BY <2>1, EncodeTyped
<1>3. n # 1 => words[2] \in Word /\ b \in Seq(S) /\ Len(b) \in Nat \ {0}
  <2>1. n # 1 => 2 \in 1 .. Len(words)
    OBVIOUS
  <2> QED BY <2>1, EncodeTyped
<1>4. n = 3 => words[3] \in Word /\ c \in Seq(S) /\ Len(c) \in Nat \ {0}
  <2>1. n = 3 => 3 \in 1 .. Len(words)
    OBVIOUS
  <2> QED BY <2>1, EncodeTyped
<1> DEFINE e == Encode(words)
<1>5. e = IF n = 1 THEN a ELSE IF n = 2 THEN a \o b ELSE (a \o b) \o c
  BY EncodeIs
<1>6. e \in Seq(S) /\ trace \in Seq(S) /\ Piece(trace, pos, e) /\ pos + Len(e) <= end
  BY EncodeTyped
<1> HIDE DEF S, e, a, b, c, n
<1>7. n # 1 => Piece(trace, pos, a \o b) /\ pos + Len(a \o b) <= end /\ a \o b \in Seq(S)
  <2>1. CASE n = 1
    BY <2>1
  <2>2. CASE n = 2
    <3>1. a \o b = e
      BY <1>5, <2>2
    <3> QED BY <1>6, <3>1
  <2>3. CASE n = 3
    <3> DEFINE d == a \o b
    <3>1. d \in Seq(S) /\ c \in Seq(S) /\ e = d \o c
      BY <1>2, <1>3, <1>4, <1>5, <2>3, ConcatProperties
    <3> HIDE DEF d
    <3>2. Piece(trace, pos, d) /\ Len(e) = Len(d) + Len(c)
      BY <1>1, <1>6, <3>1, PieceParts
    <3>3. Len(d) \in Nat /\ Len(c) \in Nat
      BY <3>1
    <3>4. pos + Len(d) <= end
      BY <1>1, <1>6, <3>2, <3>3
    <3> QED BY <3>1, <3>2, <3>4 DEF d
  <2> QED BY <1>1, <2>1, <2>2, <2>3
<1>8. /\ Piece(trace, pos, a) /\ pos + Len(a) <= end
      /\ n # 1 => /\ Piece(trace, pos + Len(a), b) /\ pos + Len(a) + Len(b) <= end
                  /\ Len(a \o b) = Len(a) + Len(b)
  <2>1. CASE n = 1
    BY <1>5, <1>6, <2>1
  <2>2. CASE n # 1
    <3>1. /\ Piece(trace, pos, a) /\ Piece(trace, pos + Len(a), b)
          /\ Len(a \o b) = Len(a) + Len(b)
      BY <1>1, <1>2, <1>3, <1>6, <1>7, <2>2, PieceParts
    <3>2. Len(a) \in Nat /\ Len(b) \in Nat
      BY <1>2, <1>3, <2>2
    <3> QED BY <1>1, <1>7, <2>2, <3>1, <3>2
  <2> QED BY <2>1, <2>2
<1>9. n = 3 => /\ Piece(trace, pos + Len(a) + Len(b), c)
               /\ pos + Len(a) + Len(b) + Len(c) <= end
               /\ Len(e) = Len(a) + Len(b) + Len(c)
  <2>1. SUFFICES ASSUME n = 3
                 PROVE  /\ Piece(trace, pos + Len(a) + Len(b), c)
                        /\ pos + Len(a) + Len(b) + Len(c) <= end
                        /\ Len(e) = Len(a) + Len(b) + Len(c)
    OBVIOUS
  <2> DEFINE d == a \o b
  <2>2. d \in Seq(S) /\ c \in Seq(S) /\ e = d \o c /\ Len(d) = Len(a) + Len(b)
    BY <1>4, <1>5, <1>7, <1>8, <2>1
  <2> HIDE DEF d
  <2>3. Piece(trace, pos + Len(d), c) /\ Len(e) = Len(d) + Len(c)
    <3>1. Piece(trace, pos, d \o c) /\ d \in Seq(S) /\ c \in Seq(S)
      BY <1>6, <2>2
    <3>2. Piece(trace, pos + Len(d), c) /\ Len(d \o c) = Len(d) + Len(c)
      BY <1>1, <1>6, <3>1, PieceParts
    <3> QED BY <2>2, <3>2
  <2>4. Len(a) \in Nat /\ Len(b) \in Nat /\ Len(c) \in Nat
    BY <1>2, <1>3, <1>4, <2>1
  <2>5. pos + Len(d) = pos + Len(a) + Len(b)
    BY <1>1, <2>2, <2>4
  <2> QED BY <1>1, <1>6, <2>2, <2>3, <2>4, <2>5
<1>10. first = [advance |-> Len(a), value |-> words[1]]
  BY <1>1, <1>2, <1>8, VarintIs DEF a
<1>11. n # 1 => second = [advance |-> Len(b), value |-> words[2]]
  <2>1. SUFFICES ASSUME n # 1 PROVE second = [advance |-> Len(b), value |-> words[2]]
    OBVIOUS
  <2>2. second = Varint(pos + Len(a), end, fill)
    BY <1>10
  <2>3. pos + Len(a) \in Nat
    BY <1>1, <1>2
  <2> HIDE DEF second
  <2> QED BY <1>3, <1>8, <2>1, <2>2, <2>3, VarintIs DEF b
<1>12. n = 3 => third = [advance |-> Len(c), value |-> words[3]]
  <2>1. SUFFICES ASSUME n = 3 PROVE third = [advance |-> Len(c), value |-> words[3]]
    OBVIOUS
  <2>2. third = Varint(pos + Len(a) + Len(b), end, fill)
    BY <1>10, <1>11, <2>1
  <2>3. pos + Len(a) + Len(b) \in Nat
    BY <1>1, <1>2, <1>3, <2>1
  <2> HIDE DEF third
  <2> QED BY <1>4, <1>9, <2>1, <2>2, <2>3, VarintIs DEF c
<1>13. Words(end, fill, counts)
         = [type |-> decode_type(first.value),
            known |-> decode_type(first.value) \in DOMAIN counts,
            words |-> IF decode_type(first.value) \in DOMAIN counts
                      THEN <<first.value>>
                             \o (IF counts[decode_type(first.value)] >= 2 THEN <<second.value>> ELSE <<>>)
                             \o (IF counts[decode_type(first.value)] >= 3 THEN <<third.value>> ELSE <<>>)
                      ELSE Words(end, fill, counts).words,
            next |-> IF decode_type(first.value) \in DOMAIN counts
                     THEN pos + first.advance
                            + (IF counts[decode_type(first.value)] >= 2 THEN second.advance ELSE 0)
                            + (IF counts[decode_type(first.value)] >= 3 THEN third.advance ELSE 0)
                     ELSE Words(end, fill, counts).next]
  <2> HIDE DEF first, second, third
  <2> QED BY DEF Words, first, second, third
<1>14. decode_type(first.value) = type /\ counts[type] = n
  BY <1>10 DEF n
<1> HIDE DEF first, second, third
<1>15. Words(end, fill, counts)
         = [type |-> type, known |-> TRUE, words |-> all, next |-> next]
  BY <1>13, <1>14
<1>16. /\ first.value = words[1] /\ first.advance = Len(a)
       /\ n # 1 => second.value = words[2] /\ second.advance = Len(b)
       /\ n = 3 => third.value = words[3] /\ third.advance = Len(c)
  BY <1>10, <1>11, <1>12
<1>17. CASE n = 1
  <2>1. ~(n >= 2) /\ ~(n >= 3) /\ Len(words) = 1
    BY <1>17 DEF n
  <2>2. all = <<words[1]>> \o <<>> \o <<>>
    BY <1>16, <2>1
  <2>3. all = words
    BY <2>1, <2>2, JoinedOne
  <2>4. next = pos + Len(a) + 0 + 0
    BY <1>16, <2>1
  <2>5. e = a
    BY <1>5, <1>17
  <2>6. next = pos + Len(e)
    BY <1>1, <1>2, <2>4, <2>5
  <2> QED BY <1>15, <2>3, <2>6 DEF e
<1>18. CASE n = 2
  <2>1. n >= 2 /\ ~(n >= 3) /\ n # 1 /\ Len(words) = 2
    BY <1>18 DEF n
  <2>2. all = <<words[1]>> \o <<words[2]>> \o <<>>
    BY <1>16, <2>1
  <2>3. all = words
    BY <2>1, <2>2, JoinedTwo
  <2>4. next = pos + Len(a) + Len(b) + 0
    BY <1>16, <2>1
  <2>5. Len(e) = Len(a) + Len(b)
    BY <1>5, <1>8, <1>18
  <2>6. next = pos + Len(e)
    BY <1>1, <1>2, <1>3, <2>1, <2>4, <2>5
  <2> QED BY <1>15, <2>3, <2>6 DEF e
<1>19. CASE n = 3
  <2>1. n >= 2 /\ n >= 3 /\ n # 1 /\ Len(words) = 3
    BY <1>19 DEF n
  <2>2. all = <<words[1]>> \o <<words[2]>> \o <<words[3]>>
    BY <1>16, <1>19, <2>1
  <2>3. all = words
    BY <2>1, <2>2, JoinedThree
  <2>4. next = pos + Len(a) + Len(b) + Len(c)
    BY <1>16, <1>19, <2>1
  <2>5. Len(e) = Len(a) + Len(b) + Len(c)
    BY <1>9, <1>19
  <2>6. next = pos + Len(e)
    BY <1>1, <1>2, <1>3, <1>4, <1>19, <2>1, <2>4, <2>5
  <2> QED BY <1>15, <2>3, <2>6 DEF e
<1> QED BY <1>1, <1>17, <1>18, <1>19

(***************************************************************************)
(* Where the events of a thread lie.  `beg' says where each one begins, in *)
(* the trace when it has been written and in the thread's buffer           *)
(* otherwise; `st' is the state of the encoder after each of them.         *)
(***************************************************************************)
EventBytes(events, st, n) == Encode(EventWords(events[n], st[n - 1]))

\* The bytes between two places are the events from lo + 1 to hi.
EventsLie(bytes, events, st, beg, lo, hi, from, to) ==
  /\ lo <= hi
  /\ lo = hi => from = to
  /\ lo < hi => beg[lo + 1] = from
  /\ \A n \in lo + 1 .. hi :
       /\ Piece(bytes, beg[n], EventBytes(events, st, n))
       /\ beg[n] + Len(EventBytes(events, st, n)) <= to
       /\ beg[n] + Len(EventBytes(events, st, n)) = IF n < hi THEN beg[n + 1] ELSE to

Continues(more, bytes) ==
  /\ Len(bytes) \in Nat /\ Len(more) \in Nat /\ Len(bytes) <= Len(more)
  /\ \A i \in 1 .. Len(bytes) : more[i] = bytes[i]

\* The events from lo + 1 to hi are the same, and lie at the same places.
SameEvents(events1, st1, beg1, events, st, beg, lo, hi) ==
  \A n \in lo + 1 .. hi : /\ events1[n] = events[n] /\ st1[n - 1] = st[n - 1]
                          /\ beg1[n] = beg[n]

HaveLengths(events, st, lo, hi) ==
  \A n \in lo + 1 .. hi : Len(EventBytes(events, st, n)) \in Nat

\* Bytes and events that are added change nothing about those before them.
LEMMA PieceKept ==
  ASSUME NEW bytes, NEW more, NEW place, NEW piece, Len(piece) \in Nat,
         Continues(more, bytes), Piece(bytes, place, piece)
  PROVE  Piece(more, place, piece)
<1>1. /\ place \in Nat /\ place + Len(piece) <= Len(bytes)
      /\ \A i \in 1 .. Len(piece) : bytes[place + i] = piece[i]
  BY DEF Piece
<1>2. \A i \in 1 .. Len(piece) : place + i \in 1 .. Len(bytes)
  BY <1>1 DEF Continues
<1>3. place + Len(piece) <= Len(more)
  BY <1>1 DEF Continues
<1> QED BY <1>1, <1>2, <1>3 DEF Piece, Continues

\* Events lie where they did when bytes and events are added after them.
LEMMA EventsKept ==
  ASSUME NEW bytes, NEW events, NEW st, NEW beg, NEW lo \in Nat, NEW hi \in Nat,
         NEW from, NEW to,
         EventsLie(bytes, events, st, beg, lo, hi, from, to),
         NEW bytes1, NEW events1, NEW st1, NEW beg1,
         Continues(bytes1, bytes), HaveLengths(events, st, lo, hi),
         SameEvents(events1, st1, beg1, events, st, beg, lo, hi)
  PROVE  EventsLie(bytes1, events1, st1, beg1, lo, hi, from, to)
<1>1. ASSUME NEW n \in lo + 1 .. hi
      PROVE  /\ EventBytes(events1, st1, n) = EventBytes(events, st, n)
             /\ Piece(bytes1, beg1[n], EventBytes(events1, st1, n))
             /\ beg1[n] + Len(EventBytes(events1, st1, n)) <= to
             /\ beg1[n] + Len(EventBytes(events1, st1, n)) = IF n < hi THEN beg1[n + 1] ELSE to
  <2>1. EventBytes(events1, st1, n) = EventBytes(events, st, n)
    BY DEF EventBytes, SameEvents
  <2>2. /\ Piece(bytes, beg[n], EventBytes(events, st, n))
        /\ beg[n] + Len(EventBytes(events, st, n)) <= to
        /\ beg[n] + Len(EventBytes(events, st, n)) = IF n < hi THEN beg[n + 1] ELSE to
    BY DEF EventsLie
  <2>3. Piece(bytes1, beg[n], EventBytes(events, st, n))
    BY <2>2, PieceKept DEF HaveLengths
  <2>4. n < hi => n + 1 \in lo + 1 .. hi
    OBVIOUS
  <2> QED BY <2>1, <2>2, <2>3, <2>4 DEF SameEvents
<1>2. lo < hi => lo + 1 \in lo + 1 .. hi
  OBVIOUS
<1>3. lo <= hi /\ (lo = hi => from = to) /\ (lo < hi => beg1[lo + 1] = from)
  BY <1>2 DEF EventsLie, SameEvents
<1> QED BY <1>1, <1>3 DEF EventsLie

\* The events of a buffer that is written to the trace.
LEMMA EventsMoved ==
  ASSUME NEW bytes, NEW events, NEW st, NEW beg, NEW lo \in Nat, NEW hi \in Nat,
         NEW to \in Nat, EventsLie(bytes, events, st, beg, lo, hi, 0, to),
         NEW bytes1, NEW beg1, NEW at \in Nat,
         Len(bytes) \in Nat, Len(bytes1) \in Nat, Piece(bytes1, at, bytes),
         HaveLengths(events, st, lo, hi),
         \A n \in lo + 1 .. hi : beg1[n] = beg[n] + at
  PROVE  EventsLie(bytes1, events, st, beg1, lo, hi, at, at + to)
<1>1. ASSUME NEW n \in lo + 1 .. hi
      PROVE  /\ Piece(bytes1, beg1[n], EventBytes(events, st, n))
             /\ beg1[n] + Len(EventBytes(events, st, n)) <= at + to
             /\ beg1[n] + Len(EventBytes(events, st, n)) = IF n < hi THEN beg1[n + 1] ELSE at + to
  <2> DEFINE e == EventBytes(events, st, n)
             b == beg[n]
  <2>1. /\ Piece(bytes, b, e) /\ b + Len(e) <= to /\ Len(e) \in Nat
        /\ b + Len(e) = IF n < hi THEN beg[n + 1] ELSE to
    BY DEF EventsLie, HaveLengths
  <2>2. beg1[n] = b + at /\ (n < hi => beg1[n + 1] = beg[n + 1] + at)
    <3>1. n < hi => n + 1 \in lo + 1 .. hi
      OBVIOUS
    <3> QED BY <3>1
  <2> HIDE DEF e, b
  <2>3. /\ b \in Nat /\ b + Len(e) <= Len(bytes)
        /\ \A i \in 1 .. Len(e) : bytes[b + i] = e[i]
    BY <2>1 DEF Piece
  <2>4. /\ at + Len(bytes) <= Len(bytes1)
        /\ \A i \in 1 .. Len(bytes) : bytes1[at + i] = bytes[i]
    BY DEF Piece
  <2>5. Piece(bytes1, b + at, e)
    <3>1. b + at \in Nat /\ (b + at) + Len(e) <= Len(bytes1)
      BY <2>1, <2>3, <2>4
    <3>2. ASSUME NEW i \in 1 .. Len(e) PROVE bytes1[(b + at) + i] = e[i]
      <4> DEFINE j == b + i
      <4>1. j \in 1 .. Len(bytes) /\ at + j = (b + at) + i
        BY <2>1, <2>3
      <4> HIDE DEF j
      <4>2. bytes1[at + j] = bytes[j]
        BY <2>4, <4>1
      <4>3. bytes[j] = e[i]
        BY <2>3 DEF j
      <4> QED BY <4>1, <4>2, <4>3
    <3> QED BY <3>1, <3>2 DEF Piece
  <2>6. (b + at) + Len(e) <= at + to
    BY <2>1, <2>3
  <2>7. (b + at) + Len(e) = IF n < hi THEN beg1[n + 1] ELSE at + to
    <3>1. CASE n < hi
      <4>1. b + Len(e) = beg[n + 1] /\ beg1[n + 1] = beg[n + 1] + at
        BY <2>1, <2>2, <3>1
      <4>2. (b + at) + Len(e) = (b + Len(e)) + at
        BY <2>1, <2>3
      <4> QED BY <3>1, <4>1, <4>2
    <3>2. CASE ~(n < hi)
      <4>1. b + Len(e) = to
        BY <2>1, <3>2
      <4>2. (b + at) + Len(e) = at + (b + Len(e))
        BY <2>1, <2>3
      <4> QED BY <3>2, <4>1, <4>2
    <3> QED BY <3>1, <3>2
  <2> QED BY <2>2, <2>5, <2>6, <2>7 DEF e
<1>2. lo < hi => lo + 1 \in lo + 1 .. hi
  OBVIOUS
<1>3. /\ lo <= hi /\ (lo = hi => at = at + to)
      /\ (lo < hi => beg1[lo + 1] = at)
  <2>1. lo <= hi /\ (lo = hi => 0 = to) /\ (lo < hi => beg[lo + 1] = 0)
    BY DEF EventsLie
  <2>2. lo < hi => beg1[lo + 1] = 0 + at
    BY <1>2, <2>1
  <2> QED BY <2>1, <2>2
<1> QED BY <1>1, <1>3 DEF EventsLie

\* One more event.
LEMMA EventsExtended ==
  ASSUME NEW bytes \in Seq(Byte), NEW events, NEW st, NEW beg, NEW lo \in Nat, NEW hi \in Nat,
         EventsLie(bytes, events, st, beg, lo, hi, 0, Len(bytes)),
         NEW bytes1, NEW events1, NEW st1, NEW beg1,
         EventBytes(events1, st1, hi + 1) \in Seq(Byte),
         bytes1 = bytes \o EventBytes(events1, st1, hi + 1),
         beg1[hi + 1] = Len(bytes), HaveLengths(events, st, lo, hi),
         SameEvents(events1, st1, beg1, events, st, beg, lo, hi)
  PROVE  EventsLie(bytes1, events1, st1, beg1, lo, hi + 1, 0, Len(bytes1))
<1> DEFINE e == EventBytes(events1, st1, hi + 1)
           len == Len(bytes)
           S == Byte
<1>1. bytes \in Seq(S) /\ e \in Seq(S) /\ len = Len(bytes) /\ bytes1 = bytes \o e
  OBVIOUS
<1> HIDE DEF e, S, len
<1>2. /\ Len(bytes1) = len + Len(e) /\ len \in Nat /\ Len(e) \in Nat
      /\ \A i \in 1 .. len + Len(e) : bytes1[i] = IF i <= len THEN bytes[i] ELSE e[i - len]
  <2> DEFINE c == bytes \o e
  <2>1. /\ Len(c) = Len(bytes) + Len(e) /\ Len(bytes) \in Nat /\ Len(e) \in Nat
        /\ \A i \in 1 .. Len(bytes) + Len(e) :
             c[i] = IF i <= Len(bytes) THEN bytes[i] ELSE e[i - Len(bytes)]
    BY <1>1, ConcatProperties
  <2> QED BY <1>1, <2>1
<1>3. /\ \A i \in 1 .. len : bytes1[i] = bytes[i]
      /\ \A i \in 1 .. Len(e) : bytes1[len + i] = e[i]
  <2>1. \A i \in 1 .. len : i \in 1 .. len + Len(e) /\ i <= len
    BY <1>2
  <2>2. \A i \in 1 .. Len(e) : len + i \in 1 .. len + Len(e) /\ ~(len + i <= len) /\ (len + i) - len = i
    BY <1>2
  <2> QED BY <1>2, <2>1, <2>2
<1>4. EventsLie(bytes1, events1, st1, beg1, lo, hi, 0, len)
  <2>1. Continues(bytes1, bytes)
    BY <1>1, <1>2, <1>3 DEF Continues
  <2>2. EventsLie(bytes, events, st, beg, lo, hi, 0, len)
    BY <1>1
  <2> QED BY <2>1, <2>2, EventsKept
<1>5. Piece(bytes1, len, e)
  BY <1>2, <1>3 DEF Piece
<1>6. beg1[hi + 1] = len
  BY <1>1
<1>7. ASSUME NEW n \in lo + 1 .. hi + 1
      PROVE  /\ Piece(bytes1, beg1[n], EventBytes(events1, st1, n))
             /\ beg1[n] + Len(EventBytes(events1, st1, n)) <= len + Len(e)
             /\ beg1[n] + Len(EventBytes(events1, st1, n))
                  = IF n < hi + 1 THEN beg1[n + 1] ELSE len + Len(e)
  <2>1. CASE n = hi + 1
    <3>1. EventBytes(events1, st1, n) = e /\ ~(n < hi + 1)
      BY <2>1 DEF e
    <3> QED BY <1>2, <1>5, <1>6, <2>1, <3>1
  <2>2. CASE n # hi + 1
    <3> DEFINE f == EventBytes(events1, st1, n)
    <3>1. n \in lo + 1 .. hi /\ n < hi + 1
      BY <2>2
    <3>2. /\ Piece(bytes1, beg1[n], f) /\ beg1[n] + Len(f) <= len
          /\ beg1[n] + Len(f) = IF n < hi THEN beg1[n + 1] ELSE len
      BY <1>4, <3>1 DEF EventsLie
    <3>3. Len(f) \in Nat /\ beg1[n] \in Nat
      <4>1. f = EventBytes(events, st, n)
        BY <3>1 DEF EventBytes, SameEvents
      <4>2. beg1[n] \in Nat
        BY <3>2 DEF Piece
      <4> QED BY <3>1, <4>1, <4>2 DEF HaveLengths
    <3> HIDE DEF f
    <3>4. beg1[n] + Len(f) <= len + Len(e)
      BY <1>2, <3>2, <3>3
    <3>5. beg1[n] + Len(f) = beg1[n + 1]
      <4>1. CASE n < hi
        BY <3>2, <4>1
      <4>2. CASE ~(n < hi)
        <5>1. n = hi
          BY <3>1, <4>2
        <5> QED BY <1>6, <3>2, <4>2, <5>1
      <4> QED BY <4>1, <4>2
    <3> QED BY <3>1, <3>2, <3>4, <3>5 DEF f
  <2> QED BY <2>1, <2>2
<1>8. lo <= hi + 1 /\ ~(lo = hi + 1) /\ beg1[lo + 1] = 0
  <2>1. lo <= hi
    BY <1>4 DEF EventsLie
  <2>2. CASE lo = hi
    <3>1. len = 0
      BY <1>4, <2>2 DEF EventsLie
    <3> QED BY <1>6, <2>2, <3>1
  <2>3. CASE lo # hi
    <3>1. lo < hi
      BY <2>1, <2>3
    <3> QED BY <1>4, <3>1 DEF EventsLie
  <2> QED BY <2>1, <2>2, <2>3
<1>9. EventsLie(bytes1, events1, st1, beg1, lo, hi + 1, 0, len + Len(e))
  BY <1>7, <1>8 DEF EventsLie
<1> QED BY <1>2, <1>9

AllEvents == UNION {EventsIn(s) : s \in EncoderStates}

\* The encoder of a thread is in st[n] after n of its events, and in `last'
\* after all of them.
EncodedFrom(events, st, last) ==
  /\ events \in Seq(AllEvents) /\ st \in [Nat -> EncoderStates]
  /\ st[0] = InitialState /\ st[Len(events)] = last
  /\ \A n \in 1 .. Len(events) :
       /\ events[n] \in EventsIn(st[n - 1])
       /\ st[n] = EncoderState(events[n], st[n - 1])

\* The bytes of an event, and that it has some.
LEMMA EventBytesAre ==
  ASSUME NEW events, NEW st, NEW last, EncodedFrom(events, st, last),
         NEW n \in 1 .. Len(events)
  PROVE  /\ EventIs(events[n], st[n - 1])
         /\ EventBytes(events, st, n) \in Seq(Byte)
         /\ Len(EventBytes(events, st, n)) \in Nat \ {0}
<1>1. Len(events) \in Nat
  BY DEF EncodedFrom
<1>2. n - 1 \in Nat
  BY <1>1
<1>3. st[n - 1] \in EncoderStates /\ events[n] \in EventsIn(st[n - 1])
  BY <1>2 DEF EncodedFrom
<1> DEFINE s == st[n - 1]
           ev == events[n]
           words == EventWords(ev, s)
<1>4. s \in EncoderStates /\ ev \in EventsIn(s)
  BY <1>3
<1>5. EventBytes(events, st, n) = Encode(words)
  BY DEF EventBytes
<1> HIDE DEF s, ev
<1>6. EventIs(ev, s)
  BY <1>4, EventsAre
<1>7. words \in Seq(Word) /\ Len(words) \in {1, 2, 3}
  BY <1>6 DEF EventIs
<1> HIDE DEF words
<1>8. Encode(words) \in Seq(Byte) /\ Len(Encode(words)) \in Nat \ {0}
  BY <1>7, EncodeTyped
<1> QED BY <1>5, <1>6, <1>8 DEF s, ev

\* One more event of a thread.
LEMMA OneMoreEvent ==
  ASSUME NEW events, NEW st, NEW last, EncodedFrom(events, st, last),
         NEW ev \in EventsIn(last)
  PROVE  /\ last \in EncoderStates
         /\ EncodedFrom(Append(events, ev),
                        [st EXCEPT ![Len(events) + 1] = EncoderState(ev, last)],
                        EncoderState(ev, last))
<1> DEFINE len == Len(events)
           next == EncoderState(ev, last)
           events1 == Append(events, ev)
           st1 == [st EXCEPT ![len + 1] = next]
           S == AllEvents
<1>1. /\ events \in Seq(S) /\ len \in Nat /\ st \in [Nat -> EncoderStates]
      /\ st[0] = InitialState /\ st[len] = last
      /\ \A n \in 1 .. len : /\ events[n] \in EventsIn(st[n - 1])
                             /\ st[n] = EncoderState(events[n], st[n - 1])
  BY DEF EncodedFrom
<1>2. last \in EncoderStates
  BY <1>1
<1>3. next \in EncoderStates
  BY <1>2, EventsAre DEF EventIs
<1>4. ev \in S
  BY <1>2 DEF AllEvents
<1> HIDE DEF S
<1>5. /\ events1 \in Seq(S) /\ Len(events1) = len + 1 /\ events1[len + 1] = ev
      /\ \A n \in 1 .. len : events1[n] = events[n]
  BY <1>1, <1>4, AppendProperties
<1> HIDE DEF next, events1, len
<1>6. /\ st1 \in [Nat -> EncoderStates] /\ st1[len + 1] = next
      /\ \A n \in 0 .. len : st1[n] = st[n]
  <2>1. len + 1 \in Nat /\ \A n \in 0 .. len : n # len + 1 /\ n \in Nat
    BY <1>1
  <2> QED BY <1>1, <1>3, <2>1
<1> HIDE DEF st1
<1>7. ASSUME NEW n \in 1 .. len + 1
      PROVE  /\ events1[n] \in EventsIn(st1[n - 1])
             /\ st1[n] = EncoderState(events1[n], st1[n - 1])
  <2>1. CASE n = len + 1
    <3>1. n - 1 = len /\ len \in 0 .. len
      BY <1>1, <2>1
    <3>2. st1[n - 1] = last /\ events1[n] = ev /\ st1[n] = next
      BY <1>1, <1>5, <1>6, <2>1, <3>1
    <3> QED BY <3>2 DEF next
  <2>2. CASE n # len + 1
    <3>1. n \in 1 .. len /\ n \in 0 .. len /\ n - 1 \in 0 .. len
      BY <1>1, <2>2
    <3>2. events1[n] = events[n] /\ st1[n] = st[n] /\ st1[n - 1] = st[n - 1]
      BY <1>5, <1>6, <3>1
    <3> QED BY <1>1, <3>1, <3>2
  <2> QED BY <2>1, <2>2
<1>8. st1[0] = InitialState
  BY <1>1, <1>6
<1>9. EncodedFrom(events1, st1, next)
  BY <1>5, <1>6, <1>7, <1>8 DEF EncodedFrom, S
<1> QED BY <1>2, <1>9 DEF events1, st1, next, len

(***************************************************************************)
(* Where the records lie.  The record after the first i begins at rp[i +   *)
(* 1], when cnt[i + 1] of the events of each thread are in the trace.      *)
(***************************************************************************)
RecordLies(bytes, record, events, st, beg, from, to, before, after) ==
  LET words == Encode(RecordWords(record))
      t == record.thread
  IN /\ Piece(bytes, from, words)
     /\ from + Len(words) <= to /\ to <= Len(bytes)
     /\ IF record.type = kEventBuf
        THEN /\ to = from + Len(words) + record.size
             /\ \A u \in Threads \ {t} : after[u] = before[u]
             /\ EventsLie(bytes, events[t], st[t], beg[t], before[t], after[t],
                          from + Len(words), to)
        ELSE to = from + Len(words) /\ after = before

\* The types of all that.
Places(bytes, records, bufs, events, st, beg, rp, cnt, last) ==
  /\ bytes \in Seq(Byte) /\ records \in Seq(RecordsOfTrace)
  /\ bufs \in [Threads -> Seq(Byte)]
  /\ beg \in [Threads -> [Nat -> Nat]]
  /\ events \in [Threads -> Seq(AllEvents)] /\ st \in [Threads -> [Nat -> EncoderStates]]
  /\ last \in [Threads -> EncoderStates]
  /\ rp \in [Nat -> Nat] /\ cnt \in [Nat -> [Threads -> Nat]]
  /\ \A t \in Threads : EncodedFrom(events[t], st[t], last[t])

Laid(bytes, records, bufs, events, st, beg, rp, cnt) ==
  /\ rp[1] = 0 /\ rp[Len(records) + 1] = Len(bytes)
  /\ cnt[1] = [t \in Threads |-> 0]
  /\ \A i \in 1 .. Len(records) :
       RecordLies(bytes, records[i], events, st, beg, rp[i], rp[i + 1], cnt[i], cnt[i + 1])
  /\ \A i \in 1 .. Len(records) + 1, t \in Threads : cnt[i][t] <= cnt[Len(records) + 1][t]
  /\ \A t \in Threads :
       EventsLie(bufs[t], events[t], st[t], beg[t],
                 cnt[Len(records) + 1][t], Len(events[t]), 0, Len(bufs[t]))

\* The bytes of a record's words.
LEMMA WordsOfRecord ==
  ASSUME NEW record \in RecordsOfTrace
  PROVE  /\ RecordIs(record)
         /\ Encode(RecordWords(record)) \in Seq(Byte)
         /\ Len(Encode(RecordWords(record))) \in Nat \ {0}
<1>1. RecordIs(record)
  BY RecordsAre
<1> DEFINE words == RecordWords(record)
<1>2. words \in Seq(Word) /\ Len(words) \in {1, 2, 3}
  BY <1>1 DEF RecordIs
<1> HIDE DEF words
<1>3. Encode(words) \in Seq(Byte) /\ Len(Encode(words)) \in Nat \ {0}
  BY <1>2, EncodeTyped
<1> QED BY <1>1, <1>3 DEF words

\* A record lies where it did when bytes and events are added after it.
LEMMA RecordStays ==
  ASSUME NEW bytes, NEW record \in RecordsOfTrace, NEW events, NEW st, NEW beg,
         NEW from, NEW to, NEW before \in [Threads -> Nat], NEW after \in [Threads -> Nat],
         RecordLies(bytes, record, events, st, beg, from, to, before, after),
         NEW bytes1, NEW events1, NEW st1, NEW beg1, Continues(bytes1, bytes),
         to \in Nat, NEW top,
         \A t \in Threads : /\ after[t] <= top[t] /\ top[t] \in Nat
                            /\ HaveLengths(events[t], st[t], 0, top[t])
                            /\ SameEvents(events1[t], st1[t], beg1[t],
                                          events[t], st[t], beg[t], 0, top[t])
  PROVE  RecordLies(bytes1, record, events1, st1, beg1, from, to, before, after)
<1> DEFINE words == Encode(RecordWords(record))
           t == record.thread
<1>1. Len(words) \in Nat \ {0} /\ (record.type = kEventBuf => t \in Threads)
  BY WordsOfRecord DEF RecordIs
<1>2. Piece(bytes, from, words) /\ from + Len(words) <= to /\ to <= Len(bytes)
  BY DEF RecordLies
<1>3. Piece(bytes1, from, words)
  <2> HIDE DEF words
  <2> QED BY <1>1, <1>2, PieceKept
<1>4. to <= Len(bytes1)
  BY <1>2 DEF Continues
<1>5. CASE record.type = kEventBuf
  <2>1. /\ to = from + Len(words) + record.size
        /\ \A u \in Threads \ {t} : after[u] = before[u]
        /\ EventsLie(bytes, events[t], st[t], beg[t], before[t], after[t],
                     from + Len(words), to)
    BY <1>5 DEF RecordLies
  <2>2. t \in Threads
    BY <1>1, <1>5
  <2> DEFINE lo == before[t]
             hi == after[t]
             n == top[t]
             p == from + Len(words)
  <2>3. lo \in Nat /\ hi \in Nat /\ n \in Nat /\ hi <= n
    BY <2>2
  <2>4. HaveLengths(events[t], st[t], 0, n)
        /\ SameEvents(events1[t], st1[t], beg1[t], events[t], st[t], beg[t], 0, n)
    BY <2>2
  <2>5. EventsLie(bytes, events[t], st[t], beg[t], lo, hi, p, to)
    BY <2>1
  <2> HIDE DEF lo, hi, n, p, t
  <2>6. \A m \in lo + 1 .. hi : m \in 0 + 1 .. n
    BY <2>3
  <2>7. HaveLengths(events[t], st[t], lo, hi)
        /\ SameEvents(events1[t], st1[t], beg1[t], events[t], st[t], beg[t], lo, hi)
    BY <2>4, <2>6 DEF HaveLengths, SameEvents
  <2>8. EventsLie(bytes1, events1[t], st1[t], beg1[t], lo, hi, p, to)
    BY <2>3, <2>5, <2>7, EventsKept
  <2>9. EventsLie(bytes1, events1[t], st1[t], beg1[t], before[t], after[t], from + Len(words), to)
    BY <2>8 DEF lo, hi, p
  <2> QED BY <1>2, <1>3, <1>4, <1>5, <2>1, <2>9 DEF RecordLies, t
<1>6. CASE record.type # kEventBuf
  <2>1. to = from + Len(words) /\ after = before
    BY <1>6 DEF RecordLies
  <2> QED BY <1>2, <1>3, <1>4, <1>6, <2>1 DEF RecordLies
<1> QED BY <1>5, <1>6

\* What is in the trace stays where it is.
LEMMA RecordsStay ==
  ASSUME NEW bytes, NEW records, NEW bufs, NEW events, NEW st, NEW beg, NEW rp, NEW cnt,
         NEW last, Places(bytes, records, bufs, events, st, beg, rp, cnt, last),
         Laid(bytes, records, bufs, events, st, beg, rp, cnt),
         NEW bytes1, NEW events1, NEW st1, NEW beg1, Continues(bytes1, bytes),
         \A t \in Threads : SameEvents(events1[t], st1[t], beg1[t], events[t], st[t], beg[t],
                                       0, cnt[Len(records) + 1][t])
  PROVE  /\ \A i \in 1 .. Len(records) :
              RecordLies(bytes1, records[i], events1, st1, beg1,
                         rp[i], rp[i + 1], cnt[i], cnt[i + 1])
         /\ \A t \in Threads : /\ cnt[Len(records) + 1][t] <= Len(events[t])
                               /\ cnt[Len(records) + 1][t] \in Nat
                               /\ Len(events[t]) \in Nat
                               /\ HaveLengths(events[t], st[t], 0, Len(events[t]))
<1> DEFINE top == cnt[Len(records) + 1]
<1>1. Len(records) \in Nat
  <2>1. records \in Seq(RecordsOfTrace)
    BY DEF Places
  <2> QED BY ONLY <2>1
<1>2. top \in [Threads -> Nat]
  <2>1. cnt \in [Nat -> [Threads -> Nat]]
    BY DEF Places
  <2>2. Len(records) + 1 \in Nat
    BY ONLY <1>1
  <2> QED BY ONLY <2>1, <2>2
<1>3. ASSUME NEW t \in Threads
      PROVE  /\ Len(events[t]) \in Nat /\ top[t] \in Nat /\ top[t] <= Len(events[t])
             /\ HaveLengths(events[t], st[t], 0, Len(events[t]))
             /\ HaveLengths(events[t], st[t], 0, top[t])
  <2>1. EncodedFrom(events[t], st[t], last[t])
    BY DEF Places
  <2>2. Len(events[t]) \in Nat
    BY <2>1 DEF EncodedFrom
  <2>3. top[t] \in Nat /\ top[t] <= Len(events[t])
    BY <1>2 DEF Laid, EventsLie
  <2>4. \A n \in 0 + 1 .. Len(events[t]) : Len(EventBytes(events[t], st[t], n)) \in Nat
    BY <2>1, <2>2, EventBytesAre
  <2> HIDE DEF top
  <2>5. \A n \in 0 + 1 .. top[t] : n \in 0 + 1 .. Len(events[t])
    BY <2>2, <2>3
  <2> QED BY <2>2, <2>3, <2>4, <2>5 DEF HaveLengths
<1>4. ASSUME NEW i \in 1 .. Len(records)
      PROVE  RecordLies(bytes1, records[i], events1, st1, beg1,
                        rp[i], rp[i + 1], cnt[i], cnt[i + 1])
  <2>1. i \in Nat /\ i + 1 \in Nat /\ i + 1 \in 1 .. Len(records) + 1
    BY <1>1
  <2>2. /\ cnt[i] \in [Threads -> Nat] /\ cnt[i + 1] \in [Threads -> Nat]
        /\ rp[i + 1] \in Nat /\ records[i] \in RecordsOfTrace
    <3>1. rp \in [Nat -> Nat] /\ cnt \in [Nat -> [Threads -> Nat]] /\ records \in Seq(RecordsOfTrace)
      BY DEF Places
    <3>2. records[i] \in RecordsOfTrace
      BY <3>1, ElementOfSeq
    <3>3. cnt[i] \in [Threads -> Nat] /\ cnt[i + 1] \in [Threads -> Nat] /\ rp[i + 1] \in Nat
      BY <2>1, <3>1
    <3> QED BY <3>2, <3>3
  <2>3. /\ RecordLies(bytes, records[i], events, st, beg, rp[i], rp[i + 1], cnt[i], cnt[i + 1])
        /\ \A t \in Threads : cnt[i + 1][t] <= top[t]
    BY <2>1 DEF Laid
  <2> DEFINE record == records[i]
             from == rp[i]
             to == rp[i + 1]
             before == cnt[i]
             after == cnt[i + 1]
  <2>4. \A t \in Threads : /\ after[t] <= top[t] /\ top[t] \in Nat
                           /\ HaveLengths(events[t], st[t], 0, top[t])
                           /\ SameEvents(events1[t], st1[t], beg1[t],
                                         events[t], st[t], beg[t], 0, top[t])
    BY <1>3, <2>3
  <2>5. /\ record \in RecordsOfTrace /\ before \in [Threads -> Nat]
        /\ after \in [Threads -> Nat] /\ to \in Nat
        /\ RecordLies(bytes, record, events, st, beg, from, to, before, after)
    BY <2>2, <2>3
  <2> HIDE DEF record, from, to, before, after, top
  <2>6. RecordLies(bytes1, record, events1, st1, beg1, from, to, before, after)
    BY <2>4, <2>5, RecordStays
  <2> QED BY <2>6 DEF record, from, to, before, after
<1> QED BY <1>3, <1>4

\* A thread records an event.
LEMMA LaidWithEvent ==
  ASSUME NEW bytes, NEW records, NEW bufs, NEW events, NEW st, NEW beg, NEW rp, NEW cnt,
         NEW last, Places(bytes, records, bufs, events, st, beg, rp, cnt, last),
         Laid(bytes, records, bufs, events, st, beg, rp, cnt),
         NEW t \in Threads, NEW ev \in EventsIn(last[t]), NEW n, n = Len(events[t]) + 1,
         NEW bufs1, NEW events1, NEW st1, NEW beg1, NEW last1,
         bufs1 = [bufs EXCEPT ![t] = @ \o Encode(EventWords(ev, last[t]))],
         events1 = [events EXCEPT ![t] = Append(@, ev)],
         last1 = [last EXCEPT ![t] = EncoderState(ev, @)],
         st1 = [st EXCEPT ![t] = [st[t] EXCEPT ![n] = EncoderState(ev, last[t])]],
         beg1 = [beg EXCEPT ![t] = [beg[t] EXCEPT ![n] = Len(bufs[t])]]
  PROVE  /\ Places(bytes, records, bufs1, events1, st1, beg1, rp, cnt, last1)
         /\ Laid(bytes, records, bufs1, events1, st1, beg1, rp, cnt)
<1>1. /\ bytes \in Seq(Byte) /\ records \in Seq(RecordsOfTrace)
      /\ bufs \in [Threads -> Seq(Byte)] /\ beg \in [Threads -> [Nat -> Nat]]
      /\ events \in [Threads -> Seq(AllEvents)] /\ st \in [Threads -> [Nat -> EncoderStates]]
      /\ last \in [Threads -> EncoderStates]
      /\ rp \in [Nat -> Nat] /\ cnt \in [Nat -> [Threads -> Nat]]
      /\ \A u \in Threads : EncodedFrom(events[u], st[u], last[u])
  BY DEF Places
<1>2. \A u \in Threads \ {t} :
         /\ bufs1[u] = bufs[u] /\ events1[u] = events[u] /\ last1[u] = last[u]
         /\ st1[u] = st[u] /\ beg1[u] = beg[u]
  BY <1>1
<1>3. /\ bufs1[t] = bufs[t] \o Encode(EventWords(ev, last[t]))
      /\ events1[t] = Append(events[t], ev) /\ last1[t] = EncoderState(ev, last[t])
      /\ st1[t] = [st[t] EXCEPT ![n] = EncoderState(ev, last[t])]
      /\ beg1[t] = [beg[t] EXCEPT ![n] = Len(bufs[t])]
  BY <1>1
<1> DEFINE len == Len(events[t])
           S == AllEvents
           C == Byte
           code == Encode(EventWords(ev, last[t]))
<1>4. /\ last[t] \in EncoderStates
      /\ EncodedFrom(events1[t], st1[t], last1[t])
  <2>1. EncodedFrom(events[t], st[t], last[t])
    BY <1>1
  <2>2. st1[t] = [st[t] EXCEPT ![Len(events[t]) + 1] = EncoderState(ev, last[t])]
    BY <1>3
  <2> DEFINE e == events[t]
             s == st[t]
             l == last[t]
  <2>3. EncodedFrom(e, s, l) /\ ev \in EventsIn(l)
    BY <2>1
  <2> HIDE DEF e, s, l
  <2>4. l \in EncoderStates
        /\ EncodedFrom(Append(e, ev), [s EXCEPT ![Len(e) + 1] = EncoderState(ev, l)], EncoderState(ev, l))
    BY <2>3, OneMoreEvent
  <2> QED BY <1>3, <2>2, <2>4 DEF e, s, l
<1>5. /\ len \in Nat /\ n = len + 1 /\ n \in Nat /\ events1[t] \in Seq(S)
      /\ events1[t][n] = ev /\ Len(events1[t]) = n
      /\ \A m \in 1 .. len : events1[t][m] = events[t][m]
  <2>1. events[t] \in Seq(S)
    BY <1>1
  <2>2. ev \in S
    BY <1>4 DEF AllEvents
  <2> HIDE DEF S
  <2> QED BY <1>3, <2>1, <2>2, AppendProperties
<1>6. /\ st1[t] \in [Nat -> EncoderStates] /\ last1[t] \in EncoderStates
      /\ st1[t][n] = EncoderState(ev, last[t])
      /\ \A m \in 0 .. len : st1[t][m] = st[t][m]
  <2>1. last1[t] \in EncoderStates
    <3>1. EventIs(ev, last[t])
      BY <1>4, EventsAre
    <3> QED BY <1>3, <3>1 DEF EventIs
  <2>2. st[t] \in [Nat -> EncoderStates]
    BY <1>1
  <2> HIDE DEF len
  <2>3. \A m \in 0 .. len : m \in Nat /\ m # n
    BY <1>5
  <2>4. n \in Nat
    BY <1>5
  <2> QED BY <1>3, <2>1, <2>2, <2>3, <2>4
<1>7. Len(bufs[t]) \in Nat /\ bufs[t] \in Seq(Byte)
  BY <1>1
<1>8. /\ beg1[t] \in [Nat -> Nat] /\ beg1[t][n] = Len(bufs[t])
      /\ \A m \in 0 .. len : beg1[t][m] = beg[t][m]
  <2> DEFINE b == Len(bufs[t])
             g == beg[t]
  <2>1. g \in [Nat -> Nat] /\ b \in Nat /\ n \in Nat /\ beg1[t] = [g EXCEPT ![n] = b]
    BY <1>1, <1>3, <1>5, <1>7
  <2> HIDE DEF len
  <2>2. \A m \in 0 .. len : m \in Nat /\ m # n
    BY <1>5
  <2> HIDE DEF b, g
  <2>3. /\ beg1[t] \in [Nat -> Nat] /\ beg1[t][n] = b
        /\ \A m \in 0 .. len : beg1[t][m] = g[m]
    <3> DEFINE g1 == beg1[t]
    <3>1. g1 = [g EXCEPT ![n] = b]
      BY <2>1
    <3> HIDE DEF g1
    <3>2. g1 \in [Nat -> Nat] /\ g1[n] = b
      BY <2>1, <3>1
    <3>3. \A m \in 0 .. len : g1[m] = g[m]
      BY <2>1, <2>2, <3>1
    <3> QED BY <3>2, <3>3 DEF g1
  <2> QED BY <2>3 DEF b, g
<1>9. EventBytes(events1[t], st1[t], n) = code /\ code \in Seq(Byte)
  <2>1. n - 1 = len /\ len \in 0 .. len
    BY <1>5
  <2>2. st[t][len] = last[t]
    BY <1>1 DEF EncodedFrom
  <2>3. EventBytes(events1[t], st1[t], n) = code
    BY <1>5, <1>6, <2>1, <2>2 DEF EventBytes
  <2>4. n \in 1 .. Len(events1[t])
    BY <1>5
  <2> DEFINE e == events1[t]
             s == st1[t]
             l == last1[t]
  <2>5. EncodedFrom(e, s, l) /\ n \in 1 .. Len(e) /\ EventBytes(e, s, n) = code
    BY <1>4, <2>3, <2>4
  <2> HIDE DEF e, s, l, code
  <2>6. EventBytes(e, s, n) \in Seq(Byte)
    BY <2>5, EventBytesAre
  <2> QED BY <2>3, <2>5, <2>6
<1>10. bufs1[t] = bufs[t] \o code /\ bufs1[t] \in Seq(Byte)
  <2>1. bufs[t] \in Seq(C) /\ code \in Seq(C)
    BY <1>7, <1>9
  <2> HIDE DEF C, code
  <2>2. bufs[t] \o code \in Seq(C)
    BY <2>1, ConcatProperties
  <2> QED BY <1>3, <2>2 DEF C, code
<1>11. Places(bytes, records, bufs1, events1, st1, beg1, rp, cnt, last1)
  <2>1. ASSUME NEW u \in Threads
        PROVE  /\ bufs1[u] \in Seq(Byte) /\ events1[u] \in Seq(AllEvents)
               /\ st1[u] \in [Nat -> EncoderStates] /\ last1[u] \in EncoderStates
               /\ beg1[u] \in [Nat -> Nat] /\ EncodedFrom(events1[u], st1[u], last1[u])
    <3>1. CASE u = t
      BY <1>4, <1>5, <1>6, <1>8, <1>10, <3>1
    <3>2. CASE u # t
      BY <1>1, <1>2, <3>2
    <3> QED BY <3>1, <3>2
  <2>2. /\ bufs1 \in [Threads -> Seq(Byte)] /\ events1 \in [Threads -> Seq(AllEvents)]
        /\ st1 \in [Threads -> [Nat -> EncoderStates]] /\ last1 \in [Threads -> EncoderStates]
        /\ beg1 \in [Threads -> [Nat -> Nat]]
    <3>1. bufs1 \in [Threads -> Seq(Byte)]
      BY <1>1, <2>1
    <3>2. events1 \in [Threads -> Seq(AllEvents)]
      BY <1>1, <2>1
    <3>3. st1 \in [Threads -> [Nat -> EncoderStates]]
      BY <1>1, <2>1
    <3>4. last1 \in [Threads -> EncoderStates]
      BY <1>1, <2>1
    <3>5. beg1 \in [Threads -> [Nat -> Nat]]
      BY <1>1, <2>1
    <3> QED BY <3>1, <3>2, <3>3, <3>4, <3>5
  <2> QED BY <1>1, <2>1, <2>2 DEF Places
<1> DEFINE lo == cnt[Len(records) + 1]
<1>12. \A u \in Threads : SameEvents(events1[u], st1[u], beg1[u], events[u], st[u], beg[u], 0, len)
                          \/ u # t
  <2>1. \A m \in 0 + 1 .. len : m \in 1 .. len /\ m \in 0 .. len /\ m - 1 \in 0 .. len
    BY <1>5
  <2> HIDE DEF len
  <2>2. SameEvents(events1[t], st1[t], beg1[t], events[t], st[t], beg[t], 0, len)
    BY <1>5, <1>6, <1>8, <2>1 DEF SameEvents
  <2> QED BY <2>2
<1>13. Len(bytes) \in Nat /\ Continues(bytes, bytes)
  BY <1>1 DEF Continues
<1>14. \A u \in Threads : lo[u] \in Nat /\ lo[u] <= Len(events[u])
  <2>1. Len(records) + 1 \in Nat
    BY <1>1
  <2> QED BY <1>1, <2>1 DEF Laid, EventsLie
<1>15. \A u \in Threads : SameEvents(events1[u], st1[u], beg1[u], events[u], st[u], beg[u], 0, lo[u])
  <2>1. ASSUME NEW u \in Threads
        PROVE  SameEvents(events1[u], st1[u], beg1[u], events[u], st[u], beg[u], 0, lo[u])
    <3>1. CASE u # t
      BY <1>2, <3>1 DEF SameEvents
    <3>2. CASE u = t
      <4>1. SameEvents(events1[t], st1[t], beg1[t], events[t], st[t], beg[t], 0, len)
        BY <1>12
      <4>2. lo[t] \in Nat /\ lo[t] <= len
        BY <1>14
      <4> HIDE DEF lo, len
      <4>3. \A m \in 0 + 1 .. lo[t] : m \in 0 + 1 .. len
        BY <1>5, <4>2
      <4> QED BY <3>2, <4>1, <4>3 DEF SameEvents
    <3> QED BY <3>1, <3>2
  <2> QED BY <2>1
<1>16. /\ \A i \in 1 .. Len(records) :
            RecordLies(bytes, records[i], events1, st1, beg1, rp[i], rp[i + 1], cnt[i], cnt[i + 1])
       /\ \A u \in Threads : HaveLengths(events[u], st[u], 0, Len(events[u]))
  <2>1. \A u \in Threads : SameEvents(events1[u], st1[u], beg1[u], events[u], st[u], beg[u],
                                      0, cnt[Len(records) + 1][u])
    BY <1>15
  <2> QED BY <1>13, <2>1, RecordsStay
<1>17. ASSUME NEW u \in Threads
       PROVE  EventsLie(bufs1[u], events1[u], st1[u], beg1[u], lo[u], Len(events1[u]),
                        0, Len(bufs1[u]))
  <2>1. EventsLie(bufs[u], events[u], st[u], beg[u], lo[u], Len(events[u]), 0, Len(bufs[u]))
    BY DEF Laid
  <2>2. CASE u # t
    BY <1>2, <2>1, <2>2
  <2>3. CASE u = t
    <3>1. EventsLie(bufs[t], events[t], st[t], beg[t], lo[t], len, 0, Len(bufs[t]))
      BY <2>1, <2>3
    <3>2. lo[t] \in Nat /\ HaveLengths(events[t], st[t], 0, len)
          /\ SameEvents(events1[t], st1[t], beg1[t], events[t], st[t], beg[t], 0, len)
      BY <1>12, <1>14, <1>16
    <3> DEFINE b == bufs[t]
               b1 == bufs1[t]
               e1 == events1[t]
               s1 == st1[t]
               g1 == beg1[t]
               l == lo[t]
    <3>3. /\ b \in Seq(Byte) /\ l \in Nat /\ len \in Nat
          /\ EventsLie(b, events[t], st[t], beg[t], l, len, 0, Len(b))
          /\ EventBytes(e1, s1, len + 1) \in Seq(Byte)
          /\ b1 = b \o EventBytes(e1, s1, len + 1) /\ g1[len + 1] = Len(b)
      BY <1>5, <1>7, <1>8, <1>9, <1>10, <3>1, <3>2
    <3>4. /\ HaveLengths(events[t], st[t], l, len)
          /\ SameEvents(e1, s1, g1, events[t], st[t], beg[t], l, len)
      <4>1. HaveLengths(events[t], st[t], 0, len)
            /\ SameEvents(e1, s1, g1, events[t], st[t], beg[t], 0, len)
        BY <3>2
      <4> HIDE DEF l, len, e1, s1, g1
      <4>2. \A m \in l + 1 .. len : m \in 0 + 1 .. len
        BY <3>3
      <4> QED BY <4>1, <4>2 DEF HaveLengths, SameEvents
    <3> HIDE DEF b, b1, e1, s1, g1, l, len
    <3>5. EventsLie(b1, e1, s1, g1, l, len + 1, 0, Len(b1))
      BY <3>3, <3>4, EventsExtended
    <3> QED BY <1>5, <2>3, <3>5 DEF b1, e1, s1, g1, l
  <2> QED BY <2>2, <2>3
<1> HIDE DEF lo
<1>18. Laid(bytes, records, bufs1, events1, st1, beg1, rp, cnt)
  <2>1. /\ rp[1] = 0 /\ rp[Len(records) + 1] = Len(bytes)
        /\ cnt[1] = [u \in Threads |-> 0]
        /\ \A i \in 1 .. Len(records) + 1, u \in Threads : cnt[i][u] <= cnt[Len(records) + 1][u]
    BY DEF Laid
  <2> QED BY <1>16, <1>17, <2>1 DEF Laid, lo
<1> QED BY <1>11, <1>18

\* A record is added, the n-th, with what it needs to lie in the trace.
Adds(bytes, records, events, st, beg, cnt, record, n, after, bytes1, bufs1, beg1) ==
  /\ record \in RecordsOfTrace /\ n = Len(records) + 1
  /\ after \in [Threads -> Nat] /\ \A t \in Threads : cnt[n][t] <= after[t]
  /\ bytes1 \in Seq(Byte) /\ Continues(bytes1, bytes)
  /\ bufs1 \in [Threads -> Seq(Byte)] /\ beg1 \in [Threads -> [Nat -> Nat]]
  /\ \A t \in Threads :
       SameEvents(events[t], st[t], beg1[t], events[t], st[t], beg[t], 0, cnt[n][t])
  /\ RecordLies(bytes1, record, events, st, beg1, Len(bytes), Len(bytes1), cnt[n], after)
  /\ \A t \in Threads : EventsLie(bufs1[t], events[t], st[t], beg1[t],
                                  after[t], Len(events[t]), 0, Len(bufs1[t]))

\* A record is written.
LEMMA LaidWithRecord ==
  ASSUME NEW bytes, NEW records, NEW bufs, NEW events, NEW st, NEW beg, NEW rp, NEW cnt,
         NEW last, Places(bytes, records, bufs, events, st, beg, rp, cnt, last),
         Laid(bytes, records, bufs, events, st, beg, rp, cnt),
         NEW record, NEW n, NEW after, NEW bytes1, NEW bufs1, NEW beg1,
         Adds(bytes, records, events, st, beg, cnt, record, n, after, bytes1, bufs1, beg1)
  PROVE  /\ Places(bytes1, Append(records, record), bufs1, events, st, beg1,
                   [rp EXCEPT ![n + 1] = Len(bytes1)], [cnt EXCEPT ![n + 1] = after], last)
         /\ Laid(bytes1, Append(records, record), bufs1, events, st, beg1,
                 [rp EXCEPT ![n + 1] = Len(bytes1)], [cnt EXCEPT ![n + 1] = after])
<1> DEFINE records1 == Append(records, record)
           rp1 == [rp EXCEPT ![n + 1] = Len(bytes1)]
           cnt1 == [cnt EXCEPT ![n + 1] = after]
<1>0. /\ record \in RecordsOfTrace /\ n = Len(records) + 1
      /\ after \in [Threads -> Nat] /\ \A t \in Threads : cnt[n][t] <= after[t]
      /\ bytes1 \in Seq(Byte) /\ Continues(bytes1, bytes)
      /\ bufs1 \in [Threads -> Seq(Byte)] /\ beg1 \in [Threads -> [Nat -> Nat]]
      /\ \A t \in Threads :
           SameEvents(events[t], st[t], beg1[t], events[t], st[t], beg[t], 0, cnt[n][t])
      /\ RecordLies(bytes1, record, events, st, beg1, Len(bytes), Len(bytes1), cnt[n], after)
      /\ \A t \in Threads : EventsLie(bufs1[t], events[t], st[t], beg1[t],
                                      after[t], Len(events[t]), 0, Len(bufs1[t]))
  BY DEF Adds
<1>r. /\ records1 = Append(records, record)
      /\ rp1 = [rp EXCEPT ![n + 1] = Len(bytes1)] /\ cnt1 = [cnt EXCEPT ![n + 1] = after]
  OBVIOUS
<1> HIDE DEF records1, rp1, cnt1
<1> USE <1>0, <1>r
<1>1. /\ bytes \in Seq(Byte) /\ records \in Seq(RecordsOfTrace)
      /\ events \in [Threads -> Seq(AllEvents)] /\ st \in [Threads -> [Nat -> EncoderStates]]
      /\ last \in [Threads -> EncoderStates]
      /\ rp \in [Nat -> Nat] /\ cnt \in [Nat -> [Threads -> Nat]]
      /\ \A u \in Threads : EncodedFrom(events[u], st[u], last[u])
  BY DEF Places
<1> DEFINE len == Len(records)
           S == RecordsOfTrace
<1>2. /\ len \in Nat /\ n = len + 1 /\ n \in Nat /\ n + 1 \in Nat
      /\ \A i \in 1 .. n : i \in Nat /\ i # n + 1
      /\ \A i \in 1 .. len : i \in 1 .. n /\ i + 1 \in 1 .. n
      /\ n \in 1 .. n /\ 1 \in 1 .. n
  <2>1. len \in Nat /\ n = len + 1
    BY <1>1
  <2> HIDE DEF len
  <2> QED BY <2>1
<1>3. /\ records1 \in Seq(S) /\ Len(records1) = n /\ records1[n] = record
      /\ \A i \in 1 .. len : records1[i] = records[i]
  <2>1. records \in Seq(S) /\ record \in S
    BY <1>1
  <2> HIDE DEF S
  <2> QED BY <2>1, AppendProperties
<1> HIDE DEF len, S
<1>4. Len(bytes1) \in Nat
  OBVIOUS
<1>5. rp1 \in [Nat -> Nat] /\ rp1[n + 1] = Len(bytes1) /\ \A i \in 1 .. n : rp1[i] = rp[i]
  <2> DEFINE b == Len(bytes1)
  <2>1. b \in Nat /\ rp1 = [rp EXCEPT ![n + 1] = b]
    BY <1>4
  <2> HIDE DEF b
  <2>2. rp1 \in [Nat -> Nat] /\ rp1[n + 1] = b /\ \A i \in 1 .. n : rp1[i] = rp[i]
    <3> DEFINE m == n + 1
    <3>1. m \in Nat /\ rp1 = [rp EXCEPT ![m] = b] /\ \A i \in 1 .. n : i \in Nat /\ i # m
      BY <1>2, <2>1
    <3>2. rp \in [Nat -> Nat] /\ b \in Nat
      BY <1>1, <2>1
    <3> HIDE DEF m
    <3>3. rp1 \in [Nat -> Nat] /\ rp1[m] = b
      BY ONLY <3>1, <3>2
    <3>4. \A i \in 1 .. n : rp1[i] = rp[i]
      BY <3>1, <3>2
    <3> QED BY <3>3, <3>4 DEF m
  <2> QED BY <2>2 DEF b
<1>6. cnt1 \in [Nat -> [Threads -> Nat]] /\ cnt1[n + 1] = after
      /\ \A i \in 1 .. n : cnt1[i] = cnt[i]
  <2>1. cnt1 \in [Nat -> [Threads -> Nat]]
    BY <1>1
  <2> QED BY <1>1, <1>2, <2>1
<1>7. Places(bytes1, records1, bufs1, events, st, beg1, rp1, cnt1, last)
  BY <1>1, <1>3, <1>5, <1>6 DEF Places, S
<1>8. /\ rp[1] = 0 /\ rp[n] = Len(bytes) /\ cnt[1] = [t \in Threads |-> 0]
      /\ \A i \in 1 .. n, t \in Threads : cnt[i][t] <= cnt[n][t]
  BY DEF Laid
<1>9. rp1[1] = 0 /\ rp1[n + 1] = Len(bytes1) /\ cnt1[1] = [t \in Threads |-> 0]
  BY <1>2, <1>5, <1>6, <1>8
<1>10. \A i \in 1 .. len :
          RecordLies(bytes1, records[i], events, st, beg1, rp[i], rp[i + 1], cnt[i], cnt[i + 1])
  <2>1. \A t \in Threads : SameEvents(events[t], st[t], beg1[t], events[t], st[t], beg[t],
                                      0, cnt[Len(records) + 1][t])
    OBVIOUS
  <2>2. Continues(bytes1, bytes)
    OBVIOUS
  <2> QED BY ONLY <2>1, <2>2, RecordsStay, Places(bytes, records, bufs, events, st, beg, rp, cnt, last),
             Laid(bytes, records, bufs, events, st, beg, rp, cnt) DEF len
<1>11. ASSUME NEW i \in 1 .. n
       PROVE  RecordLies(bytes1, records1[i], events, st, beg1,
                         rp1[i], rp1[i + 1], cnt1[i], cnt1[i + 1])
  <2>1. CASE i = n
    <3>1. /\ records1[i] = record /\ rp1[i] = Len(bytes) /\ rp1[i + 1] = Len(bytes1)
          /\ cnt1[i] = cnt[n] /\ cnt1[i + 1] = after
      BY <1>3, <1>5, <1>6, <1>8, <2>1
    <3> QED BY <3>1
  <2>2. CASE i # n
    <3>1. i \in 1 .. len /\ i \in 1 .. n /\ i + 1 \in 1 .. n
      BY <1>2, <2>2
    <3>2. /\ records1[i] = records[i] /\ rp1[i] = rp[i] /\ rp1[i + 1] = rp[i + 1]
          /\ cnt1[i] = cnt[i] /\ cnt1[i + 1] = cnt[i + 1]
      BY <1>3, <1>5, <1>6, <3>1
    <3> QED BY <1>10, <3>1, <3>2
  <2> QED BY <2>1, <2>2
<1>12. ASSUME NEW i \in 1 .. n + 1, NEW t \in Threads
       PROVE  cnt1[i][t] <= cnt1[n + 1][t]
  <2>1. CASE i = n + 1
    <3>1. after[t] <= after[t]
      OBVIOUS
    <3> QED BY <1>6, <2>1, <3>1
  <2>2. CASE i # n + 1
    <3>1. i \in 1 .. n
      BY <1>2, <2>2
    <3>2. cnt[i][t] <= cnt[n][t] /\ cnt[n][t] <= after[t]
      BY <1>8, <3>1
    <3>3. i \in Nat /\ n \in Nat
      BY <1>2, <3>1
    <3>4. cnt[i][t] \in Nat /\ cnt[n][t] \in Nat /\ after[t] \in Nat
      BY <1>1, <3>3
    <3>5. cnt[i][t] <= after[t]
      <4> DEFINE a == cnt[i][t]
                 b == cnt[n][t]
                 c == after[t]
      <4>1. a <= b /\ b <= c /\ a \in Nat /\ b \in Nat /\ c \in Nat
        BY <3>2, <3>4
      <4> HIDE DEF a, b, c
      <4>2. a <= c
        BY <4>1
      <4> QED BY <4>2 DEF a, c
    <3> QED BY <1>6, <3>1, <3>5
  <2> QED BY <2>1, <2>2
<1>13. Laid(bytes1, records1, bufs1, events, st, beg1, rp1, cnt1)
  BY <1>3, <1>6, <1>9, <1>11, <1>12 DEF Laid
<1> QED BY <1>7, <1>13 DEF records1, rp1, cnt1

\* The words of a record and the bytes after them are added.
Joins(bytes1, bytes, words, payload) ==
  /\ Continues(bytes1, bytes)
  /\ Piece(bytes1, Len(bytes), words)
  /\ Piece(bytes1, Len(bytes) + Len(words), payload)
  /\ Len(bytes1) = Len(bytes) + Len(words) + Len(payload)
  /\ Len(bytes) \in Nat /\ Len(words) \in Nat /\ Len(payload) \in Nat

\* What Write appends lies after what was there.
LEMMA AddedPieces ==
  ASSUME NEW S, NEW bytes \in Seq(S), NEW words \in Seq(S), NEW payload \in Seq(S)
  PROVE  /\ bytes \o words \o payload \in Seq(S)
         /\ Joins(bytes \o words \o payload, bytes, words, payload)
<1> DEFINE d == bytes \o words
           a == Len(bytes)
           b == Len(words)
           c == Len(payload)
           bytes1 == d \o payload
<1>1. /\ d \in Seq(S) /\ Len(d) = a + b /\ a \in Nat /\ b \in Nat /\ c \in Nat
      /\ \A i \in 1 .. a + b : d[i] = IF i <= a THEN bytes[i] ELSE words[i - a]
  BY ConcatProperties
<1>2. bytes1 = d \o payload
  OBVIOUS
<1> HIDE DEF bytes1, d
<1>3. /\ bytes1 \in Seq(S) /\ Len(bytes1) = Len(d) + c
      /\ \A i \in 1 .. Len(d) + c : bytes1[i] = IF i <= Len(d) THEN d[i] ELSE payload[i - Len(d)]
  <2>1. /\ d \o payload \in Seq(S) /\ Len(d \o payload) = Len(d) + Len(payload)
        /\ \A i \in 1 .. Len(d) + Len(payload) :
             (d \o payload)[i] = IF i <= Len(d) THEN d[i] ELSE payload[i - Len(d)]
    <3>1. d \in Seq(S) /\ payload \in Seq(S)
      BY <1>1
    <3> QED BY ONLY <3>1, ConcatProperties
  <2> QED BY <1>2, <2>1
<1> HIDE DEF a, b, c
<1>4. /\ Len(bytes1) = (a + b) + c
      /\ \A i \in 1 .. (a + b) + c :
           bytes1[i] = IF i <= a + b THEN d[i] ELSE payload[i - (a + b)]
  BY <1>1, <1>3
<1>5. \A i \in 1 .. a : bytes1[i] = bytes[i]
  <2>1. \A i \in 1 .. a : i \in 1 .. a + b /\ i \in 1 .. (a + b) + c /\ i <= a /\ i <= a + b
    BY <1>1
  <2> QED BY <1>1, <1>4, <2>1
<1>6. \A i \in 1 .. b : bytes1[a + i] = words[i]
  <2>1. \A i \in 1 .. b : /\ a + i \in 1 .. a + b /\ a + i \in 1 .. (a + b) + c
                          /\ ~(a + i <= a) /\ a + i <= a + b /\ (a + i) - a = i
    BY <1>1
  <2> QED BY <1>1, <1>4, <2>1
<1>7. \A i \in 1 .. c : bytes1[(a + b) + i] = payload[i]
  <2>1. \A i \in 1 .. c : /\ (a + b) + i \in 1 .. (a + b) + c /\ ~((a + b) + i <= a + b)
                          /\ ((a + b) + i) - (a + b) = i
    BY <1>1
  <2> QED BY <1>4, <2>1
<1>8. Continues(bytes1, bytes)
  <2>1. Len(bytes1) \in Nat /\ a <= Len(bytes1)
    BY <1>1, <1>4
  <2> QED BY <1>1, <1>5, <2>1 DEF Continues, a
<1>9. Piece(bytes1, a, words)
  <2>1. a + b <= Len(bytes1)
    BY <1>1, <1>4
  <2> QED BY <1>1, <1>6, <2>1 DEF Piece, b
<1>10. Piece(bytes1, a + b, payload)
  <2>1. a + b \in Nat /\ (a + b) + c <= Len(bytes1)
    BY <1>1, <1>4
  <2> QED BY <1>7, <2>1 DEF Piece, c
<1>11. Joins(bytes1, bytes, words, payload)
  BY <1>1, <1>4, <1>8, <1>9, <1>10 DEF Joins, a, b, c
<1> QED BY <1>3, <1>11 DEF bytes1, d

\* A record with nothing after its words.
LEMMA LaidWithBareRecord ==
  ASSUME NEW bytes, NEW records, NEW bufs, NEW events, NEW st, NEW beg, NEW rp, NEW cnt,
         NEW last, Places(bytes, records, bufs, events, st, beg, rp, cnt, last),
         Laid(bytes, records, bufs, events, st, beg, rp, cnt),
         NEW record \in RecordsOfTrace, record.type # kEventBuf, NEW bytes1,
         bytes1 = bytes \o Encode(RecordWords(record)) \o <<>>
  PROVE  /\ Adds(bytes, records, events, st, beg, cnt, record, Len(records) + 1,
                 cnt[Len(records) + 1], bytes1, bufs, beg)
         /\ bytes1 \in Seq(Byte) /\ Continues(bytes1, bytes)
<1> DEFINE n == Len(records) + 1
           after == cnt[n]
           e == Encode(RecordWords(record))
           p == <<>>
           S == Byte
<1>1. /\ bytes \in Seq(S) /\ records \in Seq(RecordsOfTrace)
      /\ bufs \in [Threads -> Seq(Byte)] /\ beg \in [Threads -> [Nat -> Nat]]
      /\ cnt \in [Nat -> [Threads -> Nat]]
  BY DEF Places
<1>2. n \in Nat
  BY <1>1
<1>3. after \in [Threads -> Nat]
  BY <1>1, <1>2
<1>4. e \in Seq(S) /\ Len(e) \in Nat \ {0} /\ bytes1 = bytes \o e \o p
  BY WordsOfRecord
<1>5. p \in Seq(S) /\ Len(p) = 0
  OBVIOUS
<1> HIDE DEF e, p, S
<1>6. /\ bytes1 \in Seq(S) /\ Continues(bytes1, bytes) /\ Piece(bytes1, Len(bytes), e)
      /\ Len(bytes1) = Len(bytes) + Len(e) + Len(p) /\ Len(bytes) \in Nat
  <2>1. bytes \in Seq(S) /\ e \in Seq(S) /\ p \in Seq(S)
    BY <1>1, <1>4, <1>5
  <2>2. bytes \o e \o p \in Seq(S) /\ Joins(bytes \o e \o p, bytes, e, p)
    BY ONLY <2>1, AddedPieces
  <2>3. bytes1 \in Seq(S) /\ Joins(bytes1, bytes, e, p)
    BY <1>4, <2>2
  <2> QED BY <2>3 DEF Joins
<1>7. Len(bytes1) = Len(bytes) + Len(e) /\ Len(bytes1) \in Nat
  BY <1>4, <1>5, <1>6
<1>8. RecordLies(bytes1, record, events, st, beg, Len(bytes), Len(bytes1), after, after)
  <2>1. Len(bytes) + Len(e) <= Len(bytes1) /\ Len(bytes1) <= Len(bytes1)
    BY <1>7
  <2> QED BY <1>6, <1>7, <2>1 DEF RecordLies, e
<1>9. \A t \in Threads :
         /\ after[t] <= after[t]
         /\ SameEvents(events[t], st[t], beg[t], events[t], st[t], beg[t], 0, after[t])
         /\ EventsLie(bufs[t], events[t], st[t], beg[t],
                      after[t], Len(events[t]), 0, Len(bufs[t]))
  <2>1. \A t \in Threads : after[t] \in Nat
    BY <1>3
  <2> QED BY <2>1 DEF SameEvents, Laid
<1>10. bytes1 \in Seq(Byte)
  BY <1>6 DEF S
<1> QED BY <1>1, <1>3, <1>6, <1>8, <1>9, <1>10 DEF Adds

\* The buffer of a thread is written: its events move to the trace.
LEMMA LaidWithBuffer ==
  ASSUME NEW bytes, NEW records, NEW bufs, NEW events, NEW st, NEW beg, NEW rp, NEW cnt,
         NEW last, Places(bytes, records, bufs, events, st, beg, rp, cnt, last),
         Laid(bytes, records, bufs, events, st, beg, rp, cnt),
         NEW record \in RecordsOfTrace, record.type = kEventBuf, NEW t \in Threads,
         record.thread = t, record.size = Len(bufs[t]), NEW bytes1,
         bytes1 = bytes \o Encode(RecordWords(record)) \o bufs[t], NEW lo,
         lo = cnt[Len(records) + 1][t], NEW at,
         at = Len(bytes) + Len(Encode(RecordWords(record)))
  PROVE  /\ Adds(bytes, records, events, st, beg, cnt, record, Len(records) + 1,
                 [cnt[Len(records) + 1] EXCEPT ![t] = Len(events[t])], bytes1,
                 [bufs EXCEPT ![t] = <<>>],
                 [beg EXCEPT ![t] = [m \in Nat |-> IF m > lo THEN beg[t][m] + at
                                                   ELSE beg[t][m]]])
         /\ bytes1 \in Seq(Byte) /\ Continues(bytes1, bytes)
<1> DEFINE n == Len(records) + 1
           before == cnt[n]
           hi == Len(events[t])
           after == [before EXCEPT ![t] = hi]
           e == Encode(RecordWords(record))
           p == bufs[t]
           moved == [m \in Nat |-> IF m > lo THEN beg[t][m] + at ELSE beg[t][m]]
           beg1 == [beg EXCEPT ![t] = moved]
           bufs1 == [bufs EXCEPT ![t] = <<>>]
           S == Byte
<1>1. /\ bytes \in Seq(S) /\ records \in Seq(RecordsOfTrace)
      /\ bufs \in [Threads -> Seq(S)] /\ beg \in [Threads -> [Nat -> Nat]]
      /\ events \in [Threads -> Seq(AllEvents)]
      /\ cnt \in [Nat -> [Threads -> Nat]]
      /\ \A u \in Threads : EncodedFrom(events[u], st[u], last[u])
  BY DEF Places
<1>2. /\ \A u \in Threads : EventsLie(bufs[u], events[u], st[u], beg[u], before[u], Len(events[u]),
                                      0, Len(bufs[u]))
      /\ rp[n] = Len(bytes)
  BY DEF Laid
<1>3. n \in Nat
  BY <1>1
<1>4. hi \in Nat /\ events[t] \in Seq(AllEvents)
  BY <1>1
<1>5. before \in [Threads -> Nat] /\ lo = before[t] /\ lo \in Nat
  BY <1>1, <1>3
<1>6. e \in Seq(S) /\ Len(e) \in Nat \ {0} /\ p \in Seq(S) /\ bytes1 = bytes \o e \o p
  BY <1>1, WordsOfRecord
<1>7. at = Len(bytes) + Len(e) /\ record.size = Len(p)
  OBVIOUS
<1>8. Len(p) \in Nat /\ beg[t] \in [Nat -> Nat] /\ Len(bytes) \in Nat
  <2> HIDE DEF p, S
  <2>1. p \in Seq(S) /\ bytes \in Seq(S)
    BY <1>1, <1>6
  <2>2. Len(p) \in Nat /\ Len(bytes) \in Nat
    BY ONLY <2>1
  <2> QED BY <1>1, <2>2
<1> HIDE DEF e, p, S, n, before, hi
<1>9. bytes1 \in Seq(S) /\ Joins(bytes1, bytes, e, p)
  <2>1. bytes \in Seq(S) /\ e \in Seq(S) /\ p \in Seq(S)
    BY <1>1, <1>6
  <2>2. bytes \o e \o p \in Seq(S) /\ Joins(bytes \o e \o p, bytes, e, p)
    BY ONLY <2>1, AddedPieces
  <2> QED BY <1>6, <2>2
<1>10. /\ Continues(bytes1, bytes) /\ Piece(bytes1, Len(bytes), e) /\ Piece(bytes1, at, p)
       /\ Len(bytes1) = at + Len(p) /\ at \in Nat /\ Len(bytes1) \in Nat
  <2>1. /\ Continues(bytes1, bytes) /\ Piece(bytes1, Len(bytes), e)
        /\ Piece(bytes1, Len(bytes) + Len(e), p)
        /\ Len(bytes1) = Len(bytes) + Len(e) + Len(p)
        /\ Len(bytes) \in Nat /\ Len(e) \in Nat /\ Len(p) \in Nat
    BY ONLY <1>9 DEF Joins
  <2> QED BY ONLY <1>7, <2>1
<1>11. lo <= hi
  <2>1. EventsLie(bufs[t], events[t], st[t], beg[t], before[t], Len(events[t]), 0, Len(bufs[t]))
    BY <1>2
  <2> QED BY <1>5, <2>1 DEF EventsLie, hi
<1>12. HaveLengths(events[t], st[t], lo, hi)
  <2>1. \A m \in lo + 1 .. hi : m \in 1 .. hi
    BY <1>4, <1>5
  <2>2. \A m \in 1 .. hi : Len(EventBytes(events[t], st[t], m)) \in Nat
    <3>1. EncodedFrom(events[t], st[t], last[t])
      BY <1>1
    <3> QED BY <3>1, EventBytesAre DEF hi
  <2> QED BY <2>1, <2>2 DEF HaveLengths
<1>13. /\ moved \in [Nat -> Nat] /\ \A m \in lo + 1 .. hi : moved[m] = beg[t][m] + at
       /\ \A m \in 0 + 1 .. lo : moved[m] = beg[t][m]
  <2> DEFINE g == beg[t]
  <2>1. g \in [Nat -> Nat] /\ at \in Nat /\ lo \in Nat /\ hi \in Nat
    BY <1>4, <1>5, <1>8, <1>10
  <2>2. moved = [m \in Nat |-> IF m > lo THEN g[m] + at ELSE g[m]]
    OBVIOUS
  <2> HIDE DEF g, moved
  <2>3. moved \in [Nat -> Nat]
    <3>1. \A m \in Nat : g[m] \in Nat
      BY <2>1
    <3>2. \A m \in Nat : (IF m > lo THEN g[m] + at ELSE g[m]) \in Nat
      BY ONLY <2>1, <3>1
    <3> QED BY <2>2, <3>2
  <2>4. \A m \in lo + 1 .. hi : m \in Nat /\ m > lo
    BY ONLY <2>1
  <2>5. \A m \in 0 + 1 .. lo : m \in Nat /\ ~(m > lo)
    BY ONLY <2>1
  <2> QED BY <2>2, <2>3, <2>4, <2>5 DEF g
<1> HIDE DEF moved
<1>14. EventsLie(bytes1, events[t], st[t], moved, lo, hi, at, at + Len(p))
  <2>1. EventsLie(p, events[t], st[t], beg[t], lo, hi, 0, Len(p))
    BY <1>2, <1>5 DEF p, hi
  <2> DEFINE ev == events[t]
             s == st[t]
             g == beg[t]
             len == Len(p)
  <2>2. /\ lo \in Nat /\ hi \in Nat /\ len \in Nat /\ at \in Nat
        /\ EventsLie(p, ev, s, g, lo, hi, 0, len)
        /\ len = Len(p) /\ Len(p) \in Nat /\ Len(bytes1) \in Nat /\ Piece(bytes1, at, p)
        /\ HaveLengths(ev, s, lo, hi) /\ \A m \in lo + 1 .. hi : moved[m] = g[m] + at
    BY <1>4, <1>5, <1>8, <1>10, <1>12, <1>13, <2>1
  <2> HIDE DEF ev, s, g, len
  <2>3. EventsLie(bytes1, ev, s, moved, lo, hi, at, at + len)
    BY ONLY <2>2, EventsMoved
  <2> QED BY <2>3 DEF ev, s, len
<1>15. /\ beg1 \in [Threads -> [Nat -> Nat]] /\ beg1[t] = moved
       /\ \A u \in Threads \ {t} : beg1[u] = beg[u]
  BY <1>1, <1>13
<1>16. /\ after \in [Threads -> Nat] /\ after[t] = hi
       /\ \A u \in Threads \ {t} : after[u] = before[u]
  BY <1>4, <1>5
<1>17. /\ bufs1 \in [Threads -> Seq(S)] /\ bufs1[t] = <<>>
       /\ \A u \in Threads \ {t} : bufs1[u] = bufs[u]
  <2>1. <<>> \in Seq(S)
    OBVIOUS
  <2> QED BY <1>1, <2>1
<1> HIDE DEF beg1, after, bufs1
<1>18. RecordLies(bytes1, record, events, st, beg1, Len(bytes), Len(bytes1), before, after)
  <2>1. /\ Piece(bytes1, Len(bytes), e) /\ Len(bytes) + Len(e) <= Len(bytes1)
        /\ Len(bytes1) <= Len(bytes1) /\ Len(bytes1) = Len(bytes) + Len(e) + record.size
    BY <1>7, <1>8, <1>10
  <2>2. EventsLie(bytes1, events[t], st[t], beg1[t], before[t], after[t],
                  Len(bytes) + Len(e), Len(bytes1))
    BY <1>5, <1>7, <1>10, <1>14, <1>15, <1>16
  <2> QED BY <1>16, <2>1, <2>2 DEF RecordLies, e
<1>19. ASSUME NEW u \in Threads
       PROVE  /\ before[u] <= after[u]
              /\ SameEvents(events[u], st[u], beg1[u], events[u], st[u], beg[u], 0, before[u])
              /\ EventsLie(bufs1[u], events[u], st[u], beg1[u],
                           after[u], Len(events[u]), 0, Len(bufs1[u]))
  <2>1. CASE u = t
    <3>1. EventsLie(<<>>, events[t], st[t], moved, hi, hi, 0, 0)
      <4>1. hi <= hi /\ ~(hi < hi) /\ \A m \in hi + 1 .. hi : FALSE
        BY <1>4
      <4> QED BY <4>1 DEF EventsLie
    <3>2. Len(<<>>) = 0
      OBVIOUS
    <3>3. bufs1[u] = <<>> /\ Len(bufs1[u]) = 0 /\ Len(events[u]) = hi
      BY <1>17, <2>1, <3>2 DEF hi
    <3>4. SameEvents(events[t], st[t], moved, events[t], st[t], beg[t], 0, lo)
      BY <1>13 DEF SameEvents
    <3> QED BY <1>5, <1>11, <1>15, <1>16, <2>1, <3>1, <3>3, <3>4
  <2>2. CASE u # t
    <3>1. before[u] \in Nat
      BY <1>5
    <3>2. before[u] <= before[u]
      BY <3>1
    <3>3. beg1[u] = beg[u] /\ after[u] = before[u] /\ bufs1[u] = bufs[u]
      BY <1>15, <1>16, <1>17, <2>2
    <3>4. SameEvents(events[u], st[u], beg[u], events[u], st[u], beg[u], 0, before[u])
      BY DEF SameEvents
    <3> QED BY <1>2, <3>2, <3>3, <3>4
  <2> QED BY <2>1, <2>2
<1>20. Adds(bytes, records, events, st, beg, cnt, record, n, after, bytes1, bufs1, beg1)
  BY <1>9, <1>10, <1>15, <1>16, <1>17, <1>18, <1>19 DEF Adds, n, before, S
<1> QED BY <1>9, <1>10, <1>20 DEF S, n, after, before, hi, bufs1, beg1, moved

(***************************************************************************)
(* What has been decoded.                                                  *)
(***************************************************************************)
KeptEvents == {Kept(ev) : ev \in AllEvents}
KeptRecords == {Kept(record) : record \in RecordsOfTrace}

NothingDecoded ==
  /\ outer = <<>> /\ decoded = [t \in Threads |-> <<>>]
  /\ state = [t \in Threads |-> InitialState] /\ pos = 0

\* Between records, and between the events of the last of them, a Buf.
AtRecord(rp, cnt, d) ==
  pos = rp[d] /\ \A u \in Threads : Len(decoded[u]) = cnt[d][u]

AtEvent(beg, rp, cnt, d) ==
  LET t == active.thread
      m == Len(decoded[t])
  IN /\ active.end = rp[d]
     /\ d - 1 \in 1 .. Len(written)
     /\ written[d - 1].type = kEventBuf /\ written[d - 1].thread = t
     /\ \A u \in Threads \ {t} : Len(decoded[u]) = cnt[d][u]
     /\ cnt[d - 1][t] <= m /\ m <= cnt[d][t]
     /\ pos = IF m < cnt[d][t] THEN beg[t][m + 1] ELSE rp[d]

DecodedOuter ==
  /\ Len(outer) <= Len(written)
  /\ \A i \in 1 .. Len(outer) : outer[i] = Kept(written[i])

DecodedEvents(st) ==
  \A u \in Threads :
    /\ Len(decoded[u]) <= Len(recorded[u])
    /\ \A n \in 1 .. Len(decoded[u]) : decoded[u][n] = Kept(recorded[u][n])
    /\ state[u] = st[u][Len(decoded[u])]

Decoding(st, beg, rp, cnt) ==
  /\ DecodedOuter /\ DecodedEvents(st)
  /\ pc \in {"read", "buffer"}
  /\ pc = "read" => AtRecord(rp, cnt, Len(outer) + 1)
  /\ pc = "buffer" => AtEvent(beg, rp, cnt, Len(outer) + 1)

DecoderTypes ==
  /\ decoded \in [Threads -> Seq(KeptEvents)] /\ outer \in Seq(KeptRecords)
  /\ state \in [Threads -> EncoderStates]
  /\ active \in [end : 0 .. Len(trace), thread : Threads]
  /\ pos \in 0 .. Len(trace)
  /\ \A t \in Threads : Len(buf[t]) \in Word

Lies(st, beg, rp, cnt) ==
  /\ Places(trace, written, buf, recorded, st, beg, rp, cnt, sent)
  /\ Laid(trace, written, buf, recorded, st, beg, rp, cnt)

TraceInvariant ==
  /\ DecoderTypes
  /\ \E st, beg, rp, cnt :
       /\ Lies(st, beg, rp, cnt)
       /\ IF pc = "write" THEN NothingDecoded ELSE Decoding(st, beg, rp, cnt)

\* Every record begins before the trace ends, and the one after it no later.
LEMMA PlaceOfRecord ==
  ASSUME NEW st, NEW beg, NEW rp, NEW cnt, Lies(st, beg, rp, cnt), NEW d \in 1 .. Len(written),
         NEW e, e = Encode(RecordWords(written[d]))
  PROVE  /\ written[d] \in RecordsOfTrace /\ RecordIs(written[d])
         /\ e \in Seq(Byte) /\ Len(e) \in Nat \ {0}
         /\ Piece(trace, rp[d], e)
         /\ rp[d] \in Nat /\ rp[d + 1] \in Nat /\ Len(trace) \in Nat
         /\ rp[d] + Len(e) <= rp[d + 1] /\ rp[d + 1] <= Len(trace)
         /\ RecordLies(trace, written[d], recorded, st, beg, rp[d], rp[d + 1], cnt[d], cnt[d + 1])
<1>1. /\ trace \in Seq(Byte) /\ written \in Seq(RecordsOfTrace) /\ rp \in [Nat -> Nat]
      /\ RecordLies(trace, written[d], recorded, st, beg, rp[d], rp[d + 1], cnt[d], cnt[d + 1])
  BY DEF Lies, Places, Laid
<1>2. written[d] \in RecordsOfTrace /\ Len(written) \in Nat
  BY <1>1, ElementOfSeq
<1>3. d \in Nat /\ d + 1 \in Nat
  BY <1>2
<1>4. rp[d] \in Nat /\ rp[d + 1] \in Nat /\ Len(trace) \in Nat
  BY <1>1, <1>3
<1> DEFINE record == written[d]
<1>5. RecordIs(record) /\ e \in Seq(Byte) /\ Len(e) \in Nat \ {0}
  <2>1. record \in RecordsOfTrace
    BY <1>2
  <2>2. e = Encode(RecordWords(record))
    OBVIOUS
  <2> HIDE DEF record
  <2> QED BY ONLY <2>1, <2>2, WordsOfRecord
<1>6. Piece(trace, rp[d], e) /\ rp[d] + Len(e) <= rp[d + 1] /\ rp[d + 1] <= Len(trace)
  BY <1>1 DEF RecordLies
<1> QED BY <1>1, <1>2, <1>4, <1>5, <1>6

\* OuterEvStream::next returns the next record that was written.
LEMMA NextRecordIs ==
  ASSUME NEW st, NEW beg, NEW rp, NEW cnt, Lies(st, beg, rp, cnt), DecoderTypes, DecodedOuter,
         AtRecord(rp, cnt, Len(outer) + 1), NEW d, d = Len(outer) + 1, NextRecord
  PROVE  /\ d \in 1 .. Len(written) /\ pc = "read"
         /\ pos' = rp[d] + Len(Encode(RecordWords(written[d])))
         /\ outer' = Append(outer, Kept(written[d]))
         /\ IF written[d].type = kEventBuf
            THEN /\ pc' = "buffer"
                 /\ active' = [end |-> rp[d + 1], thread |-> written[d].thread]
            ELSE UNCHANGED <<pc, active>>
         /\ UNCHANGED <<state, decoded, tracer_vars>>
<1>1. PICK fill \in Fills :
        LET got == Words(Len(trace), fill, RecordWordCounts)
            record == DecodedRecord(got.type, got.words)
            payload == IF got.type = kEventBuf THEN record.size ELSE 0
        IN /\ pc = "read" /\ pos < Len(trace)
           /\ IF ~got.known
              THEN pc' = "panicked" /\ UNCHANGED decoder_vars
              ELSE IF got.next + payload > Len(trace)
              THEN pc' = "ended" /\ UNCHANGED decoder_vars
              ELSE /\ pos' = got.next
                   /\ outer' = Append(outer, record)
                   /\ IF got.type = kEventBuf /\ record.thread \in Threads
                      THEN /\ pc' = "buffer"
                           /\ active' = [end |-> got.next + payload, thread |-> record.thread]
                      ELSE UNCHANGED <<pc, active>>
                   /\ UNCHANGED <<state, decoded>>
           /\ UNCHANGED tracer_vars
  BY Zenon DEF NextRecord
<1>2. Len(outer) \in Nat /\ Len(outer) <= Len(written) /\ Len(written) \in Nat
      /\ trace \in Seq(Byte) /\ pos = rp[d] /\ rp[Len(written) + 1] = Len(trace)
      /\ Len(trace) \in Nat
  <2>1. Len(outer) \in Nat
    BY DEF DecoderTypes
  <2>2. Len(written) \in Nat /\ trace \in Seq(Byte) /\ rp[Len(written) + 1] = Len(trace)
    BY DEF Lies, Places, Laid
  <2>3. Len(trace) \in Nat
    BY <2>2
  <2> QED BY <2>1, <2>2, <2>3 DEF DecodedOuter, AtRecord
<1>3. d \in 1 .. Len(written)
  <2>1. d # Len(written) + 1
    BY <1>1, <1>2
  <2> QED BY <1>2, <2>1
<1> DEFINE record == written[d]
           words == RecordWords(record)
           e == Encode(words)
           next == rp[d] + Len(e)
           to == rp[d + 1]
<1>4. /\ RecordIs(record) /\ Len(e) \in Nat \ {0} /\ Piece(trace, rp[d], e)
      /\ rp[d] \in Nat /\ to \in Nat /\ next <= to /\ to <= Len(trace)
      /\ RecordLies(trace, record, recorded, st, beg, rp[d], to, cnt[d], cnt[d + 1])
  BY <1>3, PlaceOfRecord
<1>5. next \in Nat /\ next <= Len(trace)
  <2> DEFINE a == rp[d]
             b == Len(e)
             c == Len(trace)
  <2>1. a \in Nat /\ b \in Nat /\ c \in Nat /\ to \in Nat /\ a + b <= to /\ to <= c
    BY <1>2, <1>4
  <2> HIDE DEF a, b, c, to
  <2>2. a + b \in Nat /\ a + b <= c
    BY ONLY <2>1
  <2> QED BY <2>2 DEF a, b, c
<1>6. /\ words \in Seq(Word) /\ Len(words) \in {1, 2, 3}
      /\ record.type \in DOMAIN RecordWordCounts /\ RecordWordCounts[record.type] = Len(words)
      /\ decode_type(words[1]) = record.type
      /\ DecodedRecord(record.type, words) = Kept(record)
      /\ record.type = kEventBuf => /\ Kept(record).thread = record.thread
                                    /\ Kept(record).size = record.size
                                    /\ record.thread \in Threads /\ record.size \in Nat
  BY <1>4 DEF RecordIs
<1>7. record.type = kEventBuf => next + record.size = to
  BY <1>4 DEF RecordLies
<1> DEFINE type == record.type
           counts == RecordWordCounts
           end == Len(trace)
<1>8. Words(end, fill, counts)
        = [type |-> type, known |-> TRUE, words |-> words, next |-> next]
  <2>1. /\ words \in Seq(Word) /\ Len(words) \in {1, 2, 3}
        /\ type \in DOMAIN counts /\ counts[type] = Len(words) /\ decode_type(words[1]) = type
    BY <1>6
  <2>2. /\ end \in Nat /\ end <= Len(trace) /\ trace \in Seq(Byte)
        /\ Piece(trace, pos, Encode(words)) /\ pos + Len(Encode(words)) <= end
        /\ next = pos + Len(Encode(words)) /\ fill \in Fills
    BY <1>2, <1>4, <1>5
  <2> HIDE DEF words, type, counts, end, next
  <2> QED BY ONLY <2>1, <2>2, WordsAre
<1> DEFINE got == Words(end, fill, counts)
           decoded_record == DecodedRecord(got.type, got.words)
           payload == IF got.type = kEventBuf THEN decoded_record.size ELSE 0
<1>9. /\ got.known = TRUE /\ got.type = type /\ got.next = next
      /\ decoded_record = Kept(record)
  <2>1. got.known = TRUE /\ got.type = type /\ got.next = next /\ got.words = words
    <3> HIDE DEF words, type, counts, end, next
    <3> QED BY <1>8
  <2> QED BY <1>6, <2>1
<1>10. /\ pc = "read" /\ pos < Len(trace)
       /\ IF ~got.known
          THEN pc' = "panicked" /\ UNCHANGED decoder_vars
          ELSE IF got.next + payload > Len(trace)
          THEN pc' = "ended" /\ UNCHANGED decoder_vars
          ELSE /\ pos' = got.next
               /\ outer' = Append(outer, decoded_record)
               /\ IF got.type = kEventBuf /\ decoded_record.thread \in Threads
                  THEN /\ pc' = "buffer"
                       /\ active' = [end |-> got.next + payload, thread |-> decoded_record.thread]
                  ELSE UNCHANGED <<pc, active>>
               /\ UNCHANGED <<state, decoded>>
       /\ UNCHANGED tracer_vars
  BY <1>1
<1> HIDE DEF got, decoded_record, next, to
<1>11. next + payload <= Len(trace) /\ (type = kEventBuf => next + payload = to)
  <2>1. CASE type = kEventBuf
    <3>1. payload = record.size
      BY <1>6, <1>9, <2>1
    <3> QED BY <1>4, <1>7, <2>1, <3>1
  <2>2. CASE type # kEventBuf
    <3>1. payload = 0
      BY <1>9, <2>2
    <3> HIDE DEF payload, type
    <3>2. next + payload = next
      BY <1>5, <3>1
    <3> QED BY <1>5, <2>2, <3>2
  <2> QED BY <2>1, <2>2
<1>12. ~(next + payload > Len(trace))
  <2>1. next + payload \in Nat
    <3>1. payload \in Nat
      BY <1>6, <1>9
    <3> HIDE DEF payload
    <3> QED BY <1>5, <3>1
  <2> HIDE DEF payload
  <2> QED BY <1>2, <1>11, <2>1
<1> HIDE DEF payload
<1>13. /\ pos' = next /\ outer' = Append(outer, Kept(record))
       /\ IF type = kEventBuf /\ Kept(record).thread \in Threads
          THEN /\ pc' = "buffer"
               /\ active' = [end |-> next + payload, thread |-> Kept(record).thread]
          ELSE UNCHANGED <<pc, active>>
       /\ UNCHANGED <<state, decoded>>
  <2> HIDE DEF record, type
  <2> QED BY <1>9, <1>10, <1>12
<1>14. type = kEventBuf => pc' = "buffer" /\ active' = [end |-> to, thread |-> record.thread]
  <2>1. SUFFICES ASSUME type = kEventBuf
                 PROVE  pc' = "buffer" /\ active' = [end |-> to, thread |-> record.thread]
    OBVIOUS
  <2>2. Kept(record).thread = record.thread /\ record.thread \in Threads
    BY <1>6, <2>1
  <2>3. next + payload = to
    BY <1>11, <2>1
  <2> HIDE DEF record, type
  <2> QED BY <1>13, <2>1, <2>2, <2>3
<1>15. type # kEventBuf => UNCHANGED <<pc, active>>
  <2> HIDE DEF record, type
  <2> QED BY <1>13
<1> QED BY <1>3, <1>10, <1>13, <1>14, <1>15 DEF next, to

\* The events of a Buf.
LEMMA EventsOfBuffer ==
  ASSUME NEW st, NEW beg, NEW rp, NEW cnt, Lies(st, beg, rp, cnt),
         NEW i \in 1 .. Len(written), NEW t, written[i].thread = t, written[i].type = kEventBuf,
         NEW from, from = rp[i] + Len(Encode(RecordWords(written[i])))
  PROVE  /\ t \in Threads /\ cnt[i][t] \in Nat /\ cnt[i + 1][t] \in Nat
         /\ cnt[i + 1][t] <= Len(recorded[t]) /\ Len(recorded[t]) \in Nat
         /\ from \in Nat /\ rp[i + 1] \in Nat /\ rp[i + 1] <= Len(trace)
         /\ EventsLie(trace, recorded[t], st[t], beg[t], cnt[i][t], cnt[i + 1][t],
                      from, rp[i + 1])
<1> DEFINE record == written[i]
           e == Encode(RecordWords(record))
<1>1. /\ RecordIs(record) /\ Len(e) \in Nat \ {0} /\ rp[i] \in Nat /\ rp[i + 1] \in Nat
      /\ rp[i + 1] <= Len(trace)
      /\ RecordLies(trace, record, recorded, st, beg, rp[i], rp[i + 1], cnt[i], cnt[i + 1])
  BY PlaceOfRecord
<1>2. t \in Threads
  BY <1>1 DEF RecordIs
<1>3. /\ cnt \in [Nat -> [Threads -> Nat]] /\ Len(written) \in Nat
      /\ recorded \in [Threads -> Seq(AllEvents)]
  <2>1. /\ cnt \in [Nat -> [Threads -> Nat]] /\ written \in Seq(RecordsOfTrace)
        /\ recorded \in [Threads -> Seq(AllEvents)]
    BY DEF Lies, Places
  <2> QED BY ONLY <2>1
<1>4. i \in Nat /\ i + 1 \in Nat /\ Len(written) + 1 \in Nat /\ i + 1 \in 1 .. Len(written) + 1
  BY <1>3
<1>5. /\ cnt[i] \in [Threads -> Nat] /\ cnt[i + 1] \in [Threads -> Nat]
      /\ cnt[Len(written) + 1] \in [Threads -> Nat]
  BY <1>3, <1>4
<1>6. Len(recorded[t]) \in Nat
  BY <1>2, <1>3
<1>7. cnt[i + 1][t] <= cnt[Len(written) + 1][t] /\ cnt[Len(written) + 1][t] <= Len(recorded[t])
  BY <1>2, <1>4 DEF Lies, Laid, EventsLie
<1>8. cnt[i + 1][t] <= Len(recorded[t])
  <2> DEFINE a == cnt[i + 1][t]
             b == cnt[Len(written) + 1][t]
             c == Len(recorded[t])
  <2>1. a \in Nat /\ b \in Nat /\ c \in Nat /\ a <= b /\ b <= c
    BY <1>2, <1>5, <1>6, <1>7
  <2> HIDE DEF a, b, c
  <2>2. a <= c
    BY ONLY <2>1
  <2> QED BY <2>2 DEF a, c
<1>9. EventsLie(trace, recorded[t], st[t], beg[t], cnt[i][t], cnt[i + 1][t], from, rp[i + 1])
  BY <1>1 DEF RecordLies
<1>10. from \in Nat
  <2>1. from = rp[i] + Len(e)
    OBVIOUS
  <2> HIDE DEF e
  <2> QED BY ONLY <1>1, <2>1
<1> QED BY <1>1, <1>2, <1>5, <1>6, <1>8, <1>9, <1>10

\* update_last_event decodes the next event of the thread.
TakesEvent(st, beg, rp, cnt, d, t, m) ==
  /\ pc = "buffer" /\ t \in Threads /\ m \in Nat /\ m + 1 <= cnt[d][t]
  /\ m + 1 \in 1 .. Len(recorded[t])
  /\ pos' = IF m + 1 < cnt[d][t] THEN beg[t][(m + 1) + 1] ELSE rp[d]
  /\ pos' \in 0 .. Len(trace)
  /\ decoded' = [decoded EXCEPT ![t] = Append(@, Kept(recorded[t][m + 1]))]
  /\ state' = [state EXCEPT ![t] = st[t][m + 1]]
  /\ st[t][m + 1] \in EncoderStates
  /\ UNCHANGED <<pc, active, outer, tracer_vars>>

\* NextEvent, between the events of a Buf, takes the next of them.
LEMMA NextEventIs ==
  ASSUME NEW st, NEW beg, NEW rp, NEW cnt, Lies(st, beg, rp, cnt), DecoderTypes,
         DecodedEvents(st), NEW d \in Nat, AtEvent(beg, rp, cnt, d), NEW t, t = active.thread,
         NEW m, m = Len(decoded[t]), NextEvent
  PROVE  TakesEvent(st, beg, rp, cnt, d, t, m)
<1>1. PICK fill \in Fills :
        LET got == Words(active.end, fill, EventWordCounts)
            consumed == Consumed(got.type, got.words, state[t])
        IN /\ pc = "buffer" /\ pos < active.end
           /\ IF ~got.known \/ got.next > active.end
              THEN pc' = "panicked" /\ UNCHANGED decoder_vars
              ELSE /\ pos' = got.next
                   /\ decoded' = [decoded EXCEPT ![t] = Append(@, consumed.event)]
                   /\ state' = [state EXCEPT ![t] = consumed.state]
                   /\ UNCHANGED <<pc, active, outer>>
           /\ UNCHANGED tracer_vars
  BY Zenon DEF NextEvent
<1> DEFINE i == d - 1
           hi == cnt[d][t]
           lo == cnt[i][t]
           end == rp[d]
<1>2. /\ active.end = end /\ i \in 1 .. Len(written) /\ written[i].type = kEventBuf
      /\ written[i].thread = t /\ lo <= m /\ m <= hi
      /\ pos = IF m < hi THEN beg[t][m + 1] ELSE end
  BY DEF AtEvent
<1>3. Len(written) \in Nat /\ trace \in Seq(Byte)
  BY DEF Lies, Places
<1>4. i \in Nat /\ i + 1 = d
  BY <1>2, <1>3
<1> DEFINE from == rp[i] + Len(Encode(RecordWords(written[i])))
           events == recorded[t]
           s == st[t]
           b == beg[t]
<1>5. /\ t \in Threads /\ lo \in Nat /\ hi \in Nat /\ hi <= Len(events) /\ Len(events) \in Nat
      /\ end \in Nat /\ end <= Len(trace)
      /\ EventsLie(trace, events, s, b, lo, hi, from, end)
  <2>1. /\ t \in Threads /\ cnt[i][t] \in Nat /\ cnt[i + 1][t] \in Nat
        /\ cnt[i + 1][t] <= Len(recorded[t]) /\ Len(recorded[t]) \in Nat
        /\ rp[i + 1] \in Nat /\ rp[i + 1] <= Len(trace)
        /\ EventsLie(trace, recorded[t], st[t], beg[t], cnt[i][t], cnt[i + 1][t], from, rp[i + 1])
    <3> HIDE DEF i
    <3> QED BY <1>2, EventsOfBuffer
  <2> QED BY <1>4, <2>1
<1>6. m \in Nat
  <2>1. decoded[t] \in Seq(KeptEvents)
    BY <1>5 DEF DecoderTypes
  <2> QED BY <2>1
<1>7. EncodedFrom(events, s, sent[t])
  BY <1>5 DEF Lies, Places
<1> HIDE DEF i, hi, lo, end, from, events, s, b
<1>8. m + 1 \in lo + 1 .. hi /\ m + 1 \in 1 .. Len(events) /\ m < hi
  <2>1. m # hi
    <3>1. pos < end /\ end \in Nat
      BY <1>1, <1>2, <1>5
    <3>2. m = hi => pos = end
      BY <1>2, <1>5 DEF hi, end
    <3> QED BY <3>1, <3>2
  <2>2. m \in Nat /\ lo \in Nat /\ hi \in Nat /\ lo <= m /\ m <= hi /\ hi <= Len(events)
        /\ Len(events) \in Nat
    BY <1>2, <1>5, <1>6 DEF hi, lo
  <2> QED BY ONLY <2>1, <2>2
<1> DEFINE n == m + 1
           e == EventBytes(events, s, n)
           ev == events[n]
           words == EventWords(ev, s[m])
<1>9. /\ EventIs(ev, s[m]) /\ e = Encode(words) /\ Len(e) \in Nat \ {0}
  <2>1. n - 1 = m
    BY <1>6
  <2>2. n \in 1 .. Len(events)
    BY <1>8
  <2> HIDE DEF n
  <2>3. EventIs(events[n], s[n - 1]) /\ Len(EventBytes(events, s, n)) \in Nat \ {0}
    BY <1>7, <2>2, EventBytesAre
  <2>4. e = Encode(EventWords(events[n], s[n - 1]))
    BY DEF EventBytes
  <2> QED BY <2>1, <2>3, <2>4
<1>10. /\ pos = b[n] /\ Piece(trace, b[n], e) /\ b[n] + Len(e) <= end
       /\ b[n] + Len(e) = IF n < hi THEN b[n + 1] ELSE end
  <2>1. n \in lo + 1 .. hi
    BY <1>8
  <2>2. pos = b[n]
    BY <1>2, <1>8 DEF hi, b
  <2> HIDE DEF n
  <2> QED BY <1>5, <2>1, <2>2 DEF EventsLie
<1>11. pos \in Nat
  BY <1>10 DEF Piece
<1> HIDE DEF n, e, ev
<1> DEFINE type == ev.type
           counts == EventWordCounts
           next == pos + Len(e)
<1>12. /\ words \in Seq(Word) /\ Len(words) \in {1, 2, 3}
       /\ type \in DOMAIN counts /\ counts[type] = Len(words) /\ decode_type(words[1]) = type
       /\ Consumed(type, words, s[m]) = [event |-> Kept(ev), state |-> EncoderState(ev, s[m])]
       /\ EncoderState(ev, s[m]) \in EncoderStates
  BY <1>9 DEF EventIs
<1>13. Words(active.end, fill, counts)
         = [type |-> type, known |-> TRUE, words |-> words, next |-> next]
  <2>1. /\ active.end \in Nat /\ active.end <= Len(trace)
        /\ Piece(trace, pos, Encode(words)) /\ pos + Len(Encode(words)) <= active.end
        /\ next = pos + Len(Encode(words))
    BY <1>2, <1>5, <1>9, <1>10 DEF end
  <2> DEFINE last == active.end
  <2>2. /\ last \in Nat /\ last <= Len(trace) /\ trace \in Seq(Byte) /\ fill \in Fills
        /\ Piece(trace, pos, Encode(words)) /\ pos + Len(Encode(words)) <= last
        /\ next = pos + Len(Encode(words))
    BY <1>3, <2>1
  <2>3. /\ words \in Seq(Word) /\ Len(words) \in {1, 2, 3}
        /\ type \in DOMAIN counts /\ counts[type] = Len(words) /\ decode_type(words[1]) = type
    BY <1>12
  <2> HIDE DEF words, type, counts, last, next
  <2>4. Words(last, fill, counts)
          = [type |-> type, known |-> TRUE, words |-> words, next |-> next]
    BY ONLY <2>2, <2>3, WordsAre
  <2> QED BY <2>4 DEF last
<1>14. state[t] = s[m]
  BY <1>5 DEF DecodedEvents, s
<1>15. s[n] = EncoderState(ev, s[m]) /\ n - 1 = m
  <2>1. n - 1 = m /\ n \in 1 .. Len(events)
    BY <1>6, <1>8 DEF n
  <2> QED BY <1>7, <2>1 DEF EncodedFrom, ev
<1> DEFINE got == Words(active.end, fill, counts)
           consumed == Consumed(got.type, got.words, state[t])
<1>16. got.known = TRUE /\ got.next = next /\ consumed.event = Kept(ev) /\ consumed.state = s[n]
  <2>1. got.known = TRUE /\ got.type = type /\ got.next = next /\ got.words = words
    <3> HIDE DEF words, type, counts, next
    <3> QED BY <1>13
  <2>2. consumed = [event |-> Kept(ev), state |-> EncoderState(ev, s[m])]
    <3> HIDE DEF got, words, type
    <3> QED BY <1>12, <1>14, <2>1
  <2> HIDE DEF consumed, got
  <2> QED BY <1>15, <2>1, <2>2
<1>17. /\ pc = "buffer"
       /\ IF ~got.known \/ got.next > active.end
          THEN pc' = "panicked" /\ UNCHANGED decoder_vars
          ELSE /\ pos' = got.next
               /\ decoded' = [decoded EXCEPT ![t] = Append(@, consumed.event)]
               /\ state' = [state EXCEPT ![t] = consumed.state]
               /\ UNCHANGED <<pc, active, outer>>
       /\ UNCHANGED tracer_vars
  BY <1>1
<1> HIDE DEF got, consumed
<1>18. ~(next > active.end) /\ next \in 0 .. Len(trace)
  <2>1. next <= end
    BY <1>10
  <2>2. /\ next <= end /\ end \in Nat /\ pos \in Nat /\ Len(e) \in Nat /\ end <= Len(trace)
        /\ active.end = end /\ Len(trace) \in Nat
    <3>1. Len(trace) \in Nat
      BY ONLY <1>3
    <3>2. end \in Nat /\ end <= Len(trace) /\ active.end = end
      BY <1>2, <1>5 DEF end
    <3>3. Len(e) \in Nat
      BY ONLY <1>9
    <3> QED BY <1>11, <2>1, <3>1, <3>2, <3>3
  <2>3. next \in Nat
    BY ONLY <2>2
  <2> HIDE DEF next
  <2> QED BY ONLY <2>2, <2>3
<1>19. /\ pos' = next
       /\ decoded' = [decoded EXCEPT ![t] = Append(@, Kept(ev))]
       /\ state' = [state EXCEPT ![t] = s[n]]
       /\ UNCHANGED <<pc, active, outer>>
  <2> HIDE DEF next
  <2> QED BY <1>16, <1>17, <1>18
<1>20. pos' = IF n < hi THEN b[n + 1] ELSE end
  BY <1>10, <1>19
<1>21. n <= hi
  BY <1>5, <1>6, <1>8 DEF n
<1>22. s[n] \in EncoderStates
  BY <1>12, <1>15
<1> QED BY <1>5, <1>6, <1>8, <1>9, <1>17, <1>18, <1>19, <1>20, <1>21, <1>22
        DEF TakesEvent, n, ev, hi, b, s, end, events

(***************************************************************************)
(* The steps of the tracer.                                                *)
(***************************************************************************)
LEMMA FirstTrace == Init => TraceInvariant
<1> SUFFICES ASSUME Init PROVE TraceInvariant
  OBVIOUS
<1> DEFINE st == [t \in Threads |-> [n \in Nat |-> InitialState]]
           beg == [t \in Threads |-> [n \in Nat |-> 0]]
           rp == [n \in Nat |-> 0]
           cnt == [n \in Nat |-> [t \in Threads |-> 0]]
<1>1. InitialState \in EncoderStates
  <2>1. 0 \in 0 .. SizeCount - 1 /\ 0 \in 0 .. TokenCount - 1 /\ 0 \in Word
    <3>1. SizeCount \in Nat \ {0} /\ TokenCount \in Nat \ {0}
      BY CountsAre
    <3>2. WordCount \in Nat \ {0} /\ Word = 0 .. WordCount - 1
      BY WordIs
    <3> QED BY <3>1, <3>2
  <2> QED BY <2>1 DEF InitialState, EncoderStates
<1>2. Min(Threads) \in Threads
  <2>1. Threads \subseteq Nat /\ Threads # {}
    BY ThreadIdsAssumption
  <2>2. \E x \in Threads : \A y \in Threads : x <= y
    BY <2>1, LeastMember
  <2> QED BY <2>2 DEF Min
<1>3. /\ trace = <<>> /\ written = <<>> /\ outer = <<>> /\ pos = 0 /\ pc = "write"
      /\ sent = [t \in Threads |-> InitialState] /\ state = [t \in Threads |-> InitialState]
      /\ buf = [t \in Threads |-> <<>>] /\ recorded = [t \in Threads |-> <<>>]
      /\ decoded = [t \in Threads |-> <<>>]
      /\ active = [end |-> 0, thread |-> Min(Threads)]
  BY DEF Init
<1>4. \A S : <<>> \in Seq(S) /\ Len(<<>>) = 0
  OBVIOUS
<1>5. Len(trace) = 0 /\ Len(written) = 0 /\ trace \in Seq(Byte) /\ written \in Seq(RecordsOfTrace)
  BY <1>3, <1>4
<1>6. 0 \in Word
  BY <1>1 DEF InitialState, EncoderStates
<1>7. DecoderTypes
  <2>1. decoded \in [Threads -> Seq(KeptEvents)] /\ outer \in Seq(KeptRecords)
    BY <1>3, <1>4
  <2>2. state \in [Threads -> EncoderStates]
    BY <1>1, <1>3
  <2>3. active \in [end : 0 .. Len(trace), thread : Threads] /\ pos \in 0 .. Len(trace)
    BY <1>2, <1>3, <1>5
  <2>4. \A t \in Threads : Len(buf[t]) \in Word
    BY <1>3, <1>4, <1>6
  <2> QED BY <2>1, <2>2, <2>3, <2>4 DEF DecoderTypes
<1>8. Places(trace, written, buf, recorded, st, beg, rp, cnt, sent)
  <2>1. buf \in [Threads -> Seq(Byte)] /\ recorded \in [Threads -> Seq(AllEvents)]
    BY <1>3, <1>4
  <2>2. sent \in [Threads -> EncoderStates] /\ st \in [Threads -> [Nat -> EncoderStates]]
    BY <1>1, <1>3
  <2>3. rp \in [Nat -> Nat] /\ cnt \in [Nat -> [Threads -> Nat]] /\ beg \in [Threads -> [Nat -> Nat]]
    OBVIOUS
  <2>4. ASSUME NEW t \in Threads PROVE EncodedFrom(recorded[t], st[t], sent[t])
    <3>1. recorded[t] = <<>> /\ sent[t] = InitialState /\ st[t] = [n \in Nat |-> InitialState]
      BY <1>3
    <3>2. EncodedFrom(<<>>, [n \in Nat |-> InitialState], InitialState)
      BY <1>1, <1>4 DEF EncodedFrom
    <3> QED BY <3>1, <3>2
  <2> HIDE DEF st, beg, rp, cnt
  <2> QED BY <1>5, <2>1, <2>2, <2>3, <2>4 DEF Places
<1>9. Laid(trace, written, buf, recorded, st, beg, rp, cnt)
  <2>1. /\ rp[1] = 0 /\ \A n \in Nat : cnt[n] = [t \in Threads |-> 0]
        /\ \A n \in Nat, t \in Threads : cnt[n][t] = 0
    OBVIOUS
  <2>2. ASSUME NEW t \in Threads
        PROVE  /\ buf[t] = <<>> /\ Len(recorded[t]) = 0 /\ Len(buf[t]) = 0
    BY <1>3, <1>4
  <2>3. \A bytes, events, s, b : EventsLie(bytes, events, s, b, 0, 0, 0, 0)
    BY DEF EventsLie
  <2> HIDE DEF st, beg, rp, cnt
  <2>4. Len(written) + 1 = 1 /\ Len(trace) = 0 /\ 1 \in Nat
    BY <1>5
  <2>5. \A i \in 1 .. Len(written) : FALSE
    BY <1>5
  <2>6. \A i \in 1 .. 1, t \in Threads : cnt[i][t] <= cnt[1][t]
    BY <2>1
  <2> QED BY <2>1, <2>2, <2>3, <2>4, <2>5, <2>6 DEF Laid
<1>10. NothingDecoded
  BY <1>3 DEF NothingDecoded
<1> HIDE DEF st, beg, rp, cnt
<1> QED BY <1>3, <1>7, <1>8, <1>9, <1>10 DEF TraceInvariant, Lies

\* The tracer leaves the decoder alone, and only adds to the trace.
LEMMA TracerStep ==
  ASSUME DecoderTypes, NothingDecoded, pc = "write", UNCHANGED <<pc, decoder_vars>>,
         Len(trace) \in Nat, Len(trace') \in Nat, Len(trace) <= Len(trace'),
         \A t \in Threads : Len(buf'[t]) \in Word,
         NEW st, NEW beg, NEW rp, NEW cnt, Lies(st, beg, rp, cnt)'
  PROVE  TraceInvariant'
<1>1. /\ pc' = "write" /\ pos' = pos /\ active' = active /\ state' = state
      /\ decoded' = decoded /\ outer' = outer
  BY DEF decoder_vars
<1>2. DecoderTypes'
  <2>1. pos' \in 0 .. Len(trace') /\ active' \in [end : 0 .. Len(trace'), thread : Threads]
    <3>1. \A i \in 0 .. Len(trace) : i \in 0 .. Len(trace')
      OBVIOUS
    <3>2. pos \in 0 .. Len(trace) /\ active \in [end : 0 .. Len(trace), thread : Threads]
      BY DEF DecoderTypes
    <3> QED BY <1>1, <3>1, <3>2
  <2> QED BY <1>1, <2>1 DEF DecoderTypes
<1>3. NothingDecoded'
  BY <1>1 DEF NothingDecoded
<1> QED BY <1>1, <1>2, <1>3 DEF TraceInvariant

\* Each action preserves the invariant.  Record puts the event's bytes at the
\* end of its thread's buffer.
LEMMA RecordStep ==
  ASSUME TraceInvariant, NEW t \in Threads, Record(t)
  PROVE  TraceInvariant'
<1>1. pc = "write" /\ UNCHANGED <<written, trace, pc, decoder_vars>>
  BY DEF Record
<1>2. PICK st, beg, rp, cnt : Lies(st, beg, rp, cnt)
  BY DEF TraceInvariant
<1>3. DecoderTypes /\ NothingDecoded
  BY <1>1 DEF TraceInvariant
<1>4. PICK ev \in NewEvents(t) :
        /\ recorded' = [recorded EXCEPT ![t] = Append(@, ev)]
        /\ buf' = [buf EXCEPT ![t] = @ \o Encode(EventWords(ev, sent[t]))]
        /\ sent' = [sent EXCEPT ![t] = EncoderState(ev, @)]
        /\ Len(buf'[t]) \in Word
  BY DEF Record
<1>5. ev \in EventsIn(sent[t])
  BY DEF NewEvents, EventsIn
<1>6. /\ Places(trace, written, buf, recorded, st, beg, rp, cnt, sent)
      /\ Laid(trace, written, buf, recorded, st, beg, rp, cnt)
  BY <1>2 DEF Lies
<1>7. PICK st1, beg1 :
        /\ Places(trace, written, buf', recorded', st1, beg1, rp, cnt, sent')
        /\ Laid(trace, written, buf', recorded', st1, beg1, rp, cnt)
  <2> DEFINE n == Len(recorded[t]) + 1
             s == [st EXCEPT ![t] = [st[t] EXCEPT ![n] = EncoderState(ev, sent[t])]]
             b == [beg EXCEPT ![t] = [beg[t] EXCEPT ![n] = Len(buf[t])]]
  <2>1. /\ n = Len(recorded[t]) + 1
        /\ s = [st EXCEPT ![t] = [st[t] EXCEPT ![n] = EncoderState(ev, sent[t])]]
        /\ b = [beg EXCEPT ![t] = [beg[t] EXCEPT ![n] = Len(buf[t])]]
    OBVIOUS
  <2> HIDE DEF n, s, b
  <2>2. /\ Places(trace, written, buf', recorded', s, b, rp, cnt, sent')
        /\ Laid(trace, written, buf', recorded', s, b, rp, cnt)
    BY <1>4, <1>5, <1>6, <2>1, LaidWithEvent
  <2> QED BY <2>2
<1>8. Lies(st1, beg1, rp, cnt)'
  BY <1>1, <1>7 DEF Lies
<1>9. Len(trace) \in Nat /\ Len(trace') \in Nat /\ Len(trace) <= Len(trace')
  <2>1. trace \in Seq(Byte) /\ trace' = trace
    BY <1>1, <1>6 DEF Places
  <2> QED BY <2>1
<1>10. \A u \in Threads : Len(buf'[u]) \in Word
  <2>1. \A u \in Threads : Len(buf[u]) \in Word
    BY <1>3 DEF DecoderTypes
  <2>2. \A u \in Threads \ {t} : buf'[u] = buf[u]
    BY <1>4, <1>6 DEF Places
  <2> QED BY <1>4, <2>1, <2>2
<1> QED BY <1>1, <1>3, <1>8, <1>9, <1>10, TracerStep

\* An action that adds a record, whatever it is.
LEMMA AddedRecordStep ==
  ASSUME DecoderTypes, NothingDecoded, pc = "write", NEW st, NEW beg, NEW rp, NEW cnt,
         Lies(st, beg, rp, cnt), NEW record, NEW n, NEW after, NEW beg1,
         Adds(trace, written, recorded, st, beg, cnt, record, n, after, trace', buf', beg1),
         written' = Append(written, record), UNCHANGED <<sent, recorded, pc, decoder_vars>>,
         \A t \in Threads : Len(buf'[t]) \in Word
  PROVE  TraceInvariant'
<1>1. /\ Places(trace, written, buf, recorded, st, beg, rp, cnt, sent)
      /\ Laid(trace, written, buf, recorded, st, beg, rp, cnt)
  BY DEF Lies
<1>2. PICK rp1, cnt1 :
        /\ Places(trace', written', buf', recorded, st, beg1, rp1, cnt1, sent)
        /\ Laid(trace', written', buf', recorded, st, beg1, rp1, cnt1)
  <2>1. /\ Places(trace', Append(written, record), buf', recorded, st, beg1,
                  [rp EXCEPT ![n + 1] = Len(trace')], [cnt EXCEPT ![n + 1] = after], sent)
        /\ Laid(trace', Append(written, record), buf', recorded, st, beg1,
                [rp EXCEPT ![n + 1] = Len(trace')], [cnt EXCEPT ![n + 1] = after])
    BY <1>1, LaidWithRecord
  <2> QED BY <2>1
<1>3. Lies(st, beg1, rp1, cnt1)'
  BY <1>2 DEF Lies
<1>4. Len(trace) \in Nat /\ Len(trace') \in Nat /\ Len(trace) <= Len(trace')
  BY DEF Adds, Continues
<1>5. UNCHANGED <<pc, decoder_vars>>
  OBVIOUS
<1> QED BY <1>3, <1>4, <1>5, TracerStep

\* An action that adds a record with no bytes after its words.
LEMMA BareRecordStep ==
  ASSUME TraceInvariant, NEW record \in RecordsOfTrace, record.type # kEventBuf,
         Write(record, RecordWords(record), <<>>), UNCHANGED buf
  PROVE  TraceInvariant'
<1>1. /\ pc = "write" /\ written' = Append(written, record)
      /\ trace' = trace \o Encode(RecordWords(record)) \o <<>>
      /\ UNCHANGED <<sent, recorded, pc, decoder_vars>>
  BY DEF Write
<1>2. PICK st, beg, rp, cnt : Lies(st, beg, rp, cnt)
  BY DEF TraceInvariant
<1>3. DecoderTypes /\ NothingDecoded
  BY <1>1 DEF TraceInvariant
<1>4. /\ Places(trace, written, buf, recorded, st, beg, rp, cnt, sent)
      /\ Laid(trace, written, buf, recorded, st, beg, rp, cnt)
  BY <1>2 DEF Lies
<1>5. PICK n, after : Adds(trace, written, recorded, st, beg, cnt, record, n, after, trace', buf, beg)
  <2>1. Adds(trace, written, recorded, st, beg, cnt, record, Len(written) + 1,
             cnt[Len(written) + 1], trace', buf, beg)
    BY <1>1, <1>4, LaidWithBareRecord
  <2> QED BY <2>1
<1>6. Adds(trace, written, recorded, st, beg, cnt, record, n, after, trace', buf', beg)
  BY <1>5
<1>7. \A t \in Threads : Len(buf'[t]) \in Word
  BY <1>3 DEF DecoderTypes
<1> QED BY <1>1, <1>2, <1>3, <1>6, <1>7, AddedRecordStep

\* Flush moves the bytes of a buffer to the trace, and the places of its
\* events with them.
LEMMA FlushStep ==
  ASSUME TraceInvariant, NEW t \in Threads, Flush(t)
  PROVE  TraceInvariant'
<1>1. PICK stamp \in FormatStamps :
        LET record == [type |-> kEventBuf, thread |-> t, stamp |-> stamp,
                       size |-> Len(buf[t])]
        IN /\ Write(record, encode_buffer(record), buf[t])
           /\ buf' = [buf EXCEPT ![t] = <<>>]
  BY Zenon DEF Flush
<1> DEFINE record == [type |-> kEventBuf, thread |-> t, stamp |-> stamp, size |-> Len(buf[t])]
<1>2. /\ pc = "write" /\ written' = Append(written, record)
      /\ trace' = trace \o Encode(encode_buffer(record)) \o buf[t]
      /\ UNCHANGED <<sent, recorded, pc, decoder_vars>>
      /\ buf' = [buf EXCEPT ![t] = <<>>]
  BY <1>1 DEF Write
<1>3. PICK st, beg, rp, cnt : Lies(st, beg, rp, cnt)
  BY DEF TraceInvariant
<1>4. DecoderTypes /\ NothingDecoded
  BY <1>2 DEF TraceInvariant
<1>5. /\ Places(trace, written, buf, recorded, st, beg, rp, cnt, sent)
      /\ Laid(trace, written, buf, recorded, st, beg, rp, cnt)
  BY <1>3 DEF Lies
<1>6. /\ record \in RecordsOfTrace /\ record.type = kEventBuf /\ record.thread = t
      /\ record.size = Len(buf[t]) /\ encode_buffer(record) = RecordWords(record)
  <2>1. Len(buf[t]) \in Word
    BY <1>4 DEF DecoderTypes
  <2>2. record \in [type : {kEventBuf}, thread : Threads, stamp : FormatStamps, size : Word]
    BY <2>1
  <2>3. record.type = kEventBuf /\ record.thread = t /\ record.size = Len(buf[t])
    OBVIOUS
  <2> HIDE DEF record
  <2> QED BY <2>2, <2>3 DEF RecordsOfTrace, RecordWords
<1> HIDE DEF record
<1>7. PICK n, after, beg1 :
        Adds(trace, written, recorded, st, beg, cnt, record, n, after, trace', buf', beg1)
  <2>1. /\ trace' = trace \o Encode(RecordWords(record)) \o buf[t]
        /\ buf' = [buf EXCEPT ![t] = <<>>]
    BY <1>2, <1>6
  <2> QED BY <1>5, <1>6, <2>1, LaidWithBuffer
<1>8. \A u \in Threads : Len(buf'[u]) \in Word
  <2>1. \A u \in Threads : Len(buf[u]) \in Word
    BY <1>4 DEF DecoderTypes
  <2>2. buf'[t] = <<>> /\ \A u \in Threads \ {t} : buf'[u] = buf[u]
    BY <1>2, <1>5 DEF Places
  <2>3. Len(<<>>) \in Word
    <3>1. Len(<<>>) = 0
      OBVIOUS
    <3> QED BY <3>1, WordIs
  <2> QED BY <2>1, <2>2, <2>3
<1> QED BY <1>2, <1>3, <1>4, <1>7, <1>8, AddedRecordStep

\* Exit, Barrier and End add records of words only.
LEMMA ExitStep ==
  ASSUME TraceInvariant, NEW t \in Threads, Exit(t)
  PROVE  TraceInvariant'
<1>1. PICK stamp \in FormatStamps :
        LET record == [type |-> kEventDeath, thread |-> t, stamp |-> stamp]
        IN Write(record, encode_death(record), <<>>) /\ UNCHANGED buf
  BY Zenon DEF Exit
<1> DEFINE record == [type |-> kEventDeath, thread |-> t, stamp |-> stamp]
<1>2. /\ record \in RecordsOfTrace /\ record.type # kEventBuf
      /\ encode_death(record) = RecordWords(record)
  <2>1. record \in [type : {kEventDeath}, thread : Threads, stamp : FormatStamps]
    OBVIOUS
  <2>2. record.type = kEventDeath
    OBVIOUS
  <2> HIDE DEF record
  <2> QED BY <2>1, <2>2 DEF RecordsOfTrace, RecordWords
<1>3. Write(record, encode_death(record), <<>>) /\ UNCHANGED buf
  BY <1>1
<1> HIDE DEF record
<1>4. Write(record, RecordWords(record), <<>>)
  BY <1>2, <1>3
<1> QED BY <1>2, <1>3, <1>4, BareRecordStep

\* A SyncBarrier.
LEMMA BarrierStep ==
  ASSUME TraceInvariant, Barrier
  PROVE  TraceInvariant'
<1>1. PICK stamp \in FormatStamps :
        LET record == [type |-> kEventSyncBarrier, stamp |-> stamp]
        IN Write(record, encode_sync_barrier(record), <<>>) /\ UNCHANGED buf
  BY Zenon DEF Barrier
<1> DEFINE record == [type |-> kEventSyncBarrier, stamp |-> stamp]
<1>2. /\ record \in RecordsOfTrace /\ record.type # kEventBuf
      /\ encode_sync_barrier(record) = RecordWords(record)
  <2>1. record \in [type : {kEventSyncBarrier}, stamp : FormatStamps]
    OBVIOUS
  <2>2. record.type = kEventSyncBarrier
    OBVIOUS
  <2> HIDE DEF record
  <2> QED BY <2>1, <2>2 DEF RecordsOfTrace, RecordWords
<1>3. Write(record, encode_sync_barrier(record), <<>>) /\ UNCHANGED buf
  BY <1>1
<1> HIDE DEF record
<1>4. Write(record, RecordWords(record), <<>>)
  BY <1>2, <1>3
<1> QED BY <1>2, <1>3, <1>4, BareRecordStep

\* The End.
LEMMA EndStep ==
  ASSUME TraceInvariant, End
  PROVE  TraceInvariant'
<1> DEFINE record == [type |-> kEventEnd]
<1>1. record \in RecordsOfTrace /\ record.type # kEventBuf /\ encode_end = RecordWords(record)
  <2>1. record \in [type : {kEventEnd}] /\ record.type = kEventEnd
    OBVIOUS
  <2> HIDE DEF record
  <2> QED BY <2>1 DEF RecordsOfTrace, RecordWords
<1>2. Write(record, encode_end, <<>>) /\ UNCHANGED buf
  BY DEF End
<1> HIDE DEF record
<1>3. Write(record, RecordWords(record), <<>>)
  BY <1>1, <1>2
<1> QED BY <1>1, <1>2, <1>3, BareRecordStep

(***************************************************************************)
(* The steps of the decoder.                                               *)
(***************************************************************************)
LEMMA CloseStep ==
  ASSUME TraceInvariant, Close
  PROVE  TraceInvariant'
<1>1. pc = "write" /\ pc' = "read" /\ UNCHANGED <<tracer_vars, decoder_vars>>
  BY DEF Close
<1>2. DecoderTypes /\ NothingDecoded
  BY <1>1 DEF TraceInvariant
<1>3. PICK st, beg, rp, cnt : Lies(st, beg, rp, cnt)
  BY DEF TraceInvariant
<1>4. Lies(st, beg, rp, cnt)' /\ DecoderTypes'
  BY <1>1, <1>2, <1>3 DEF Lies, DecoderTypes, tracer_vars, decoder_vars
<1>5. /\ outer' = <<>> /\ decoded' = [t \in Threads |-> <<>>]
      /\ state' = [t \in Threads |-> InitialState] /\ pos' = 0
  BY <1>1, <1>2 DEF NothingDecoded, decoder_vars
<1>6. /\ rp[1] = 0 /\ cnt[1] = [t \in Threads |-> 0] /\ written' \in Seq(RecordsOfTrace)
      /\ recorded' \in [Threads -> Seq(AllEvents)]
      /\ \A t \in Threads : EncodedFrom(recorded'[t], st[t], sent'[t])
  BY <1>4 DEF Lies, Laid, Places
<1>7. Len(<<>>) = 0
  OBVIOUS
<1>8. DecodedOuter'
  <2>1. Len(outer') = 0 /\ Len(written') \in Nat
    BY <1>5, <1>6, <1>7
  <2> QED BY <2>1 DEF DecodedOuter
<1>9. DecodedEvents(st)'
  <2>1. ASSUME NEW u \in Threads
        PROVE  /\ Len(decoded'[u]) = 0 /\ Len(recorded'[u]) \in Nat
               /\ state'[u] = st[u][0]
    <3>1. EncodedFrom(recorded'[u], st[u], sent'[u])
      BY <1>6
    <3> QED BY <1>5, <1>6, <1>7, <3>1 DEF EncodedFrom
  <2> QED BY <2>1 DEF DecodedEvents
<1>10. AtRecord(rp, cnt, Len(outer) + 1)'
  <2>1. Len(outer') + 1 = 1
    BY <1>5, <1>7
  <2>2. \A u \in Threads : Len(decoded'[u]) = 0 /\ cnt[1][u] = 0
    BY <1>5, <1>6, <1>7
  <2> QED BY <1>5, <1>6, <2>1, <2>2 DEF AtRecord
<1>11. Decoding(st, beg, rp, cnt)'
  BY <1>1, <1>8, <1>9, <1>10 DEF Decoding
<1> QED BY <1>1, <1>4, <1>11 DEF TraceInvariant

\* NextRecord finds the next record where it lies, and is never at the end of
\* the trace within one.
LEMMA NextRecordStep ==
  ASSUME TraceInvariant, NextRecord
  PROVE  TraceInvariant'
<1>1. pc = "read"
  BY DEF NextRecord
<1>2. PICK st, beg, rp, cnt : Lies(st, beg, rp, cnt) /\ Decoding(st, beg, rp, cnt)
  BY <1>1 DEF TraceInvariant
<1>3. /\ DecoderTypes /\ DecodedOuter /\ DecodedEvents(st)
      /\ AtRecord(rp, cnt, Len(outer) + 1)
  BY <1>1, <1>2 DEF TraceInvariant, Decoding
<1> DEFINE d == Len(outer) + 1
           record == written[d]
           e == Encode(RecordWords(record))
           t == record.thread
<1>4. /\ d \in 1 .. Len(written)
      /\ pos' = rp[d] + Len(e)
      /\ outer' = Append(outer, Kept(record))
      /\ IF record.type = kEventBuf
         THEN pc' = "buffer" /\ active' = [end |-> rp[d + 1], thread |-> t]
         ELSE UNCHANGED <<pc, active>>
      /\ UNCHANGED <<state, decoded, tracer_vars>>
  BY <1>2, <1>3, NextRecordIs
<1>5. /\ trace' = trace /\ written' = written /\ recorded' = recorded /\ buf' = buf
      /\ sent' = sent /\ state' = state /\ decoded' = decoded
  BY <1>4 DEF tracer_vars
<1>6. Lies(st, beg, rp, cnt)'
  BY <1>2, <1>5 DEF Lies
<1>7. /\ record \in RecordsOfTrace /\ RecordIs(record) /\ Len(e) \in Nat \ {0}
      /\ rp[d] \in Nat /\ rp[d + 1] \in Nat /\ Len(trace) \in Nat
      /\ rp[d] + Len(e) <= rp[d + 1] /\ rp[d + 1] <= Len(trace)
      /\ RecordLies(trace, record, recorded, st, beg, rp[d], rp[d + 1], cnt[d], cnt[d + 1])
  BY <1>2, <1>4, PlaceOfRecord
<1>8. /\ outer' \in Seq(KeptRecords) /\ Len(outer') = d /\ d \in Nat
      /\ Len(outer) \in Nat /\ outer'[d] = Kept(record)
      /\ \A i \in 1 .. Len(outer) : outer'[i] = outer[i]
  <2> DEFINE S == KeptRecords
             k == Kept(record)
  <2>1. outer \in Seq(S) /\ k \in S
    BY <1>3, <1>7 DEF DecoderTypes, KeptRecords
  <2>2. outer' = Append(outer, k)
    BY <1>4
  <2> HIDE DEF S, k
  <2>3. Append(outer, k) \in Seq(S) /\ Len(Append(outer, k)) = Len(outer) + 1
        /\ Append(outer, k)[Len(outer) + 1] = k
        /\ \A i \in 1 .. Len(outer) : Append(outer, k)[i] = outer[i]
    BY ONLY <2>1, AppendProperties
  <2>4. Len(outer) \in Nat
    BY <2>1
  <2> QED BY <2>2, <2>3, <2>4 DEF S, k
<1>9. pos' \in 0 .. Len(trace)
  <2> DEFINE a == rp[d]
             b == Len(e)
             c == rp[d + 1]
             len == Len(trace)
  <2>1. a \in Nat /\ b \in Nat /\ c \in Nat /\ len \in Nat /\ a + b <= c /\ c <= len
    BY <1>7
  <2>2. pos' = a + b
    BY <1>4
  <2> HIDE DEF a, b, c, len
  <2>3. pos' \in 0 .. len
    BY ONLY <2>1, <2>2
  <2> QED BY <2>3 DEF len
<1>10. DecodedOuter'
  <2>1. d <= Len(written) /\ Len(written') = Len(written)
    BY <1>4, <1>5
  <2>2. ASSUME NEW i \in 1 .. d PROVE outer'[i] = Kept(written[i])
    <3>1. CASE i = d
      BY <1>8, <3>1
    <3>2. CASE i # d
      <4>1. i \in 1 .. Len(outer)
        BY <1>8, <3>2
      <4>2. outer[i] = Kept(written[i])
        BY <1>3, <4>1 DEF DecodedOuter
      <4> QED BY <1>8, <4>1, <4>2
    <3> QED BY <3>1, <3>2
  <2> HIDE DEF d
  <2> QED BY <1>5, <1>8, <2>1, <2>2 DEF DecodedOuter
<1>11. DecodedEvents(st)'
  BY <1>3, <1>5 DEF DecodedEvents
<1>12. \A u \in Threads : Len(decoded[u]) = cnt[d][u]
  BY <1>3 DEF AtRecord
<1>13. cnt \in [Nat -> [Threads -> Nat]] /\ cnt[d] \in [Threads -> Nat]
  <2>1. cnt \in [Nat -> [Threads -> Nat]]
    BY <1>2 DEF Lies, Places
  <2> QED BY <1>8, <2>1
<1> HIDE DEF d, record, e, t
<1>14. CASE record.type = kEventBuf
  <2>1. t \in Threads
    BY <1>7, <1>14 DEF RecordIs, t
  <2>2. pc' = "buffer" /\ active' = [end |-> rp[d + 1], thread |-> t]
    BY <1>4, <1>14
  <2>3. /\ \A u \in Threads \ {t} : cnt[d + 1][u] = cnt[d][u]
        /\ EventsLie(trace, recorded[t], st[t], beg[t], cnt[d][t], cnt[d + 1][t],
                     rp[d] + Len(e), rp[d + 1])
    BY <1>7, <1>14 DEF RecordLies, e, t
  <2> DEFINE m == Len(decoded[t])
             hi == cnt[d + 1][t]
  <2>4. m = cnt[d][t] /\ m \in Nat
    BY <1>12, <1>13, <2>1
  <2>5. /\ m <= hi /\ (m = hi => pos' = rp[d + 1]) /\ (m < hi => pos' = beg[t][m + 1])
    BY <1>4, <2>3, <2>4 DEF EventsLie
  <2>6. hi \in Nat
    <3>1. d + 1 \in Nat
      BY <1>8
    <3> QED BY <1>13, <2>1, <3>1
  <2>7. pos' = IF m < hi THEN beg[t][m + 1] ELSE rp[d + 1]
    <3>1. m < hi \/ m = hi
      <4> HIDE DEF m, hi
      <4> QED BY <2>4, <2>5, <2>6
    <3>2. m = hi => ~(m < hi)
      <4> HIDE DEF m, hi
      <4> QED BY <2>4, <2>6
    <3> HIDE DEF m, hi
    <3> QED BY <2>5, <3>1, <3>2
  <2>8. AtEvent(beg, rp, cnt, Len(outer) + 1)'
    <3>1. (d + 1) - 1 = d
      BY <1>8
    <3>2. active'.end = rp[d + 1] /\ active'.thread = t
      BY <2>2
    <3>3. m <= m
      <4> HIDE DEF m
      <4> QED BY <2>4
    <3>4. \A u \in Threads \ {t} : Len(decoded'[u]) = cnt[d + 1][u]
      BY <1>5, <1>12, <2>3
    <3>5. Len(outer') = d /\ written'[d].type = kEventBuf /\ written'[d].thread = t
          /\ d \in 1 .. Len(written')
      BY <1>4, <1>5, <1>8, <1>14 DEF record, t
    <3>6. cnt[d][t] <= m /\ Len(decoded'[t]) = m
      BY <1>5, <2>4, <3>3
    <3> HIDE DEF m
    <3> QED BY <2>5, <2>7, <3>1, <3>2, <3>4, <3>5, <3>6 DEF AtEvent
  <2>9. Decoding(st, beg, rp, cnt)'
    BY <1>10, <1>11, <2>2, <2>8 DEF Decoding
  <2>10. DecoderTypes'
    <3>1. active' \in [end : 0 .. Len(trace), thread : Threads]
      <4>1. rp[d + 1] \in 0 .. Len(trace)
        BY <1>7
      <4> QED BY <2>1, <2>2, <4>1
    <3> QED BY <1>3, <1>5, <1>8, <1>9, <3>1 DEF DecoderTypes
  <2> QED BY <1>6, <2>2, <2>9, <2>10 DEF TraceInvariant
<1>15. CASE record.type # kEventBuf
  <2>1. pc' = "read" /\ active' = active
    BY <1>1, <1>4, <1>15
  <2>2. rp[d + 1] = rp[d] + Len(e) /\ cnt[d + 1] = cnt[d]
    BY <1>7, <1>15 DEF RecordLies, e
  <2>3. AtRecord(rp, cnt, Len(outer) + 1)'
    BY <1>4, <1>5, <1>8, <1>12, <2>2 DEF AtRecord
  <2>4. Decoding(st, beg, rp, cnt)'
    BY <1>10, <1>11, <2>1, <2>3 DEF Decoding
  <2>5. DecoderTypes'
    BY <1>3, <1>5, <1>8, <1>9, <2>1 DEF DecoderTypes
  <2> QED BY <1>6, <2>1, <2>4, <2>5 DEF TraceInvariant
<1> QED BY <1>14, <1>15

\* NextEvent finds the next event of the Buf where it lies.
LEMMA NextEventStep ==
  ASSUME TraceInvariant, NextEvent
  PROVE  TraceInvariant'
<1>1. pc = "buffer"
  BY DEF NextEvent
<1>2. PICK st, beg, rp, cnt : Lies(st, beg, rp, cnt) /\ Decoding(st, beg, rp, cnt)
  BY <1>1 DEF TraceInvariant
<1>3. /\ DecoderTypes /\ DecodedOuter /\ DecodedEvents(st)
      /\ AtEvent(beg, rp, cnt, Len(outer) + 1)
  BY <1>1, <1>2 DEF TraceInvariant, Decoding
<1> DEFINE d == Len(outer) + 1
           t == active.thread
           m == Len(decoded[t])
           events == recorded[t]
           k == Kept(events[m + 1])
<1>4. d \in Nat
  BY <1>3 DEF DecoderTypes
<1>5. /\ t \in Threads /\ m \in Nat /\ m + 1 <= cnt[d][t]
      /\ m + 1 \in 1 .. Len(events)
      /\ pos' = IF m + 1 < cnt[d][t] THEN beg[t][(m + 1) + 1] ELSE rp[d]
      /\ pos' \in 0 .. Len(trace)
      /\ decoded' = [decoded EXCEPT ![t] = Append(@, k)]
      /\ state' = [state EXCEPT ![t] = st[t][m + 1]]
      /\ st[t][m + 1] \in EncoderStates
      /\ UNCHANGED <<pc, active, outer, tracer_vars>>
  <2>1. /\ t = active.thread /\ m = Len(decoded[t]) /\ AtEvent(beg, rp, cnt, d) /\ d \in Nat
        /\ Lies(st, beg, rp, cnt) /\ DecoderTypes /\ DecodedEvents(st) /\ NextEvent
    BY <1>2, <1>3, <1>4
  <2> HIDE DEF d, t, m
  <2>2. TakesEvent(st, beg, rp, cnt, d, t, m)
    BY ONLY <2>1, NextEventIs
  <2> QED BY <2>2 DEF TakesEvent
<1>6. /\ trace' = trace /\ written' = written /\ recorded' = recorded /\ buf' = buf
      /\ sent' = sent /\ pc' = pc /\ active' = active /\ outer' = outer
  BY <1>5 DEF tracer_vars
<1>7. Lies(st, beg, rp, cnt)'
  BY <1>2, <1>6 DEF Lies
<1>8. /\ decoded \in [Threads -> Seq(KeptEvents)] /\ state \in [Threads -> EncoderStates]
  BY <1>3 DEF DecoderTypes
<1>9. /\ \A u \in Threads \ {t} : decoded'[u] = decoded[u] /\ state'[u] = state[u]
      /\ decoded'[t] = Append(decoded[t], k) /\ state'[t] = st[t][m + 1]
  BY <1>5, <1>8
<1>10. k \in KeptEvents
  <2>1. recorded \in [Threads -> Seq(AllEvents)]
    BY <1>2 DEF Lies, Places
  <2>2. events \in Seq(AllEvents)
    BY <1>5, <2>1
  <2>3. events[m + 1] \in AllEvents
    BY <1>5, <2>2, ElementOfSeq
  <2> QED BY <2>3 DEF KeptEvents
<1>11. /\ decoded'[t] \in Seq(KeptEvents) /\ Len(decoded'[t]) = m + 1
       /\ decoded'[t][m + 1] = k /\ \A n \in 1 .. m : decoded'[t][n] = decoded[t][n]
  <2> DEFINE S == KeptEvents
             s == decoded[t]
  <2>1. s \in Seq(S) /\ k \in S
    BY <1>5, <1>8, <1>10
  <2> HIDE DEF S, s, k
  <2>2. /\ Append(s, k) \in Seq(S) /\ Len(Append(s, k)) = Len(s) + 1
        /\ Append(s, k)[Len(s) + 1] = k
        /\ \A n \in 1 .. Len(s) : Append(s, k)[n] = s[n]
    BY ONLY <2>1, AppendProperties
  <2>3. decoded'[t] = Append(s, k) /\ m = Len(s)
    BY <1>9 DEF s
  <2> HIDE DEF m
  <2> QED BY <2>2, <2>3 DEF S, s
<1> HIDE DEF d, t, m, k
<1>12. DecodedOuter'
  BY <1>3, <1>6 DEF DecodedOuter
<1>13. DecodedEvents(st)'
  <2>1. ASSUME NEW u \in Threads
        PROVE  /\ Len(decoded'[u]) <= Len(recorded[u])
               /\ \A n \in 1 .. Len(decoded'[u]) : decoded'[u][n] = Kept(recorded[u][n])
               /\ state'[u] = st[u][Len(decoded'[u])]
    <3>1. CASE u # t
      <4>1. decoded'[u] = decoded[u] /\ state'[u] = state[u]
        BY <1>9, <3>1
      <4> QED BY <1>3, <4>1 DEF DecodedEvents
    <3>2. CASE u = t
      <4>1. m + 1 <= Len(recorded[t]) /\ state'[t] = st[t][m + 1]
        BY <1>5, <1>9
      <4>2. ASSUME NEW n \in 1 .. m + 1 PROVE decoded'[t][n] = Kept(recorded[t][n])
        <5>1. CASE n = m + 1
          BY <1>11, <5>1 DEF k
        <5>2. CASE n # m + 1
          <6>1. n \in 1 .. m
            BY <1>5, <5>2
          <6>2. decoded[t][n] = Kept(recorded[t][n])
            BY <1>3, <1>5, <6>1 DEF DecodedEvents, m
          <6> QED BY <1>11, <6>1, <6>2
        <5> QED BY <5>1, <5>2
      <4> QED BY <1>11, <3>2, <4>1, <4>2
    <3> QED BY <3>1, <3>2
  <2> QED BY <1>6, <2>1 DEF DecodedEvents
<1>14. AtEvent(beg, rp, cnt, Len(outer) + 1)'
  <2>1. AtEvent(beg, rp, cnt, d)
    BY <1>3 DEF d
  <2>2. /\ active.end = rp[d] /\ d - 1 \in 1 .. Len(written)
        /\ written[d - 1].type = kEventBuf /\ written[d - 1].thread = t
        /\ \A u \in Threads \ {t} : Len(decoded[u]) = cnt[d][u]
        /\ cnt[d - 1][t] <= m
    BY <2>1 DEF AtEvent, t, m
  <2>3. cnt[d - 1][t] <= m + 1
    <3>1. cnt[d - 1][t] \in Nat
      <4>1. cnt \in [Nat -> [Threads -> Nat]] /\ Len(written) \in Nat
        <5>1. cnt \in [Nat -> [Threads -> Nat]] /\ written \in Seq(RecordsOfTrace)
          BY <1>2 DEF Lies, Places
        <5> QED BY ONLY <5>1
      <4>2. d - 1 \in Nat
        BY <2>2, <4>1
      <4> QED BY <1>5, <4>1, <4>2
    <3> QED BY <1>5, <2>2, <3>1
  <2>4. Len(outer') + 1 = d
    BY <1>6 DEF d
  <2>5. \A u \in Threads \ {t} : Len(decoded'[u]) = cnt[d][u]
    BY <1>9, <2>2
  <2>6. active'.thread = t /\ active'.end = rp[d] /\ written' = written
    BY <1>6, <2>2 DEF t
  <2>7. Len(decoded'[t]) = m + 1 /\ m + 1 <= cnt[d][t]
        /\ pos' = IF m + 1 < cnt[d][t] THEN beg[t][m + 2] ELSE rp[d]
    BY <1>5, <1>11, <2>2
  <2>8. active'.end = rp[d] /\ d - 1 \in 1 .. Len(written')
        /\ written'[d - 1].type = kEventBuf /\ written'[d - 1].thread = t
        /\ cnt[d - 1][t] <= m + 1
    BY <2>2, <2>3, <2>6
  <2>9. m \in Nat /\ (m + 1) + 1 = m + 2
    BY <1>5
  <2> QED BY ONLY <2>4, <2>5, <2>6, <2>7, <2>8, <2>9 DEF AtEvent
<1>15. Decoding(st, beg, rp, cnt)'
  BY <1>1, <1>6, <1>12, <1>13, <1>14 DEF Decoding
<1>16. DecoderTypes'
  <2>1. decoded' \in [Threads -> Seq(KeptEvents)]
    BY <1>5, <1>8, <1>9, <1>11
  <2>2. state' \in [Threads -> EncoderStates]
    BY <1>5, <1>8
  <2> QED BY <1>3, <1>5, <1>6, <2>1, <2>2 DEF DecoderTypes
<1> QED BY <1>1, <1>6, <1>7, <1>15, <1>16 DEF TraceInvariant

\* The events of a Buf end where the next record begins.
LEMMA EndOfBufferStep ==
  ASSUME TraceInvariant, EndOfBuffer
  PROVE  TraceInvariant'
<1>1. pc = "buffer" /\ pos >= active.end /\ pc' = "read" /\ UNCHANGED <<tracer_vars, decoder_vars>>
  BY DEF EndOfBuffer
<1>2. PICK st, beg, rp, cnt : Lies(st, beg, rp, cnt) /\ Decoding(st, beg, rp, cnt)
  BY <1>1 DEF TraceInvariant
<1>3. /\ DecoderTypes /\ DecodedOuter /\ DecodedEvents(st)
      /\ AtEvent(beg, rp, cnt, Len(outer) + 1)
  BY <1>1, <1>2 DEF TraceInvariant, Decoding
<1> DEFINE d == Len(outer) + 1
           i == d - 1
           t == active.thread
           m == Len(decoded[t])
           lo == cnt[i][t]
           hi == cnt[d][t]
           from == rp[i] + Len(Encode(RecordWords(written[i])))
<1>4. /\ active.end = rp[d] /\ i \in 1 .. Len(written)
      /\ written[i].type = kEventBuf /\ written[i].thread = t
      /\ \A u \in Threads \ {t} : Len(decoded[u]) = cnt[d][u]
      /\ lo <= m /\ m <= hi
      /\ pos = IF m < hi THEN beg[t][m + 1] ELSE rp[d]
  BY <1>3 DEF AtEvent
<1>5. d \in Nat /\ i + 1 = d
  BY <1>3 DEF DecoderTypes
<1>6. /\ t \in Threads /\ lo \in Nat /\ hi \in Nat /\ hi <= Len(recorded[t])
      /\ Len(recorded[t]) \in Nat /\ rp[d] \in Nat
      /\ EventsLie(trace, recorded[t], st[t], beg[t], lo, hi, from, rp[d])
  <2>1. /\ t \in Threads /\ cnt[i][t] \in Nat /\ cnt[i + 1][t] \in Nat
        /\ cnt[i + 1][t] <= Len(recorded[t]) /\ Len(recorded[t]) \in Nat
        /\ rp[i + 1] \in Nat
        /\ EventsLie(trace, recorded[t], st[t], beg[t], cnt[i][t], cnt[i + 1][t], from, rp[i + 1])
    <3> DEFINE at == rp[i] + Len(Encode(RecordWords(written[i])))
    <3>1. /\ Lies(st, beg, rp, cnt) /\ i \in 1 .. Len(written)
          /\ written[i].thread = t /\ written[i].type = kEventBuf
      BY <1>2, <1>4
    <3>2. from = at
      OBVIOUS
    <3> HIDE DEF i, t, from
    <3> QED BY ONLY <3>1, <3>2, EventsOfBuffer
  <2> QED BY <1>5, <2>1
<1>7. m \in Nat /\ pos \in Nat
  <2>1. decoded[t] \in Seq(KeptEvents) /\ pos \in 0 .. Len(trace) /\ trace \in Seq(Byte)
    BY <1>2, <1>3, <1>6 DEF DecoderTypes, Lies, Places
  <2> QED BY <2>1
<1> HIDE DEF d, i, t, m, lo, hi, from
<1>8. m = hi
  <2>1. SUFFICES ASSUME m < hi PROVE FALSE
    BY <1>4, <1>6, <1>7
  <2> DEFINE n == m + 1
             e == EventBytes(recorded[t], st[t], n)
             end == rp[d]
  <2>2. n \in lo + 1 .. hi /\ n \in 1 .. Len(recorded[t])
    <3>1. /\ m \in Nat /\ lo \in Nat /\ hi \in Nat /\ lo <= m /\ m < hi
          /\ hi <= Len(recorded[t]) /\ Len(recorded[t]) \in Nat
      BY <1>4, <1>6, <1>7, <2>1
    <3> QED BY ONLY <3>1
  <2> HIDE DEF n
  <2>3. pos = beg[t][n] /\ beg[t][n] + Len(e) <= end
    BY <1>4, <1>6, <2>1, <2>2 DEF EventsLie, n
  <2>4. EncodedFrom(recorded[t], st[t], sent[t])
    BY <1>2, <1>6 DEF Lies, Places
  <2>5. Len(e) \in Nat \ {0}
    BY <2>2, <2>4, EventBytesAre
  <2>6. pos >= end /\ end \in Nat
    BY <1>1, <1>4, <1>6
  <2> HIDE DEF e, end
  <2>7. pos + Len(e) <= end
    BY <2>3
  <2> QED BY ONLY <1>7, <2>5, <2>6, <2>7
<1>9. pos = rp[d]
  BY <1>4, <1>6, <1>8
<1>10. Lies(st, beg, rp, cnt)' /\ DecoderTypes'
  BY <1>1, <1>2, <1>3 DEF Lies, DecoderTypes, tracer_vars, decoder_vars
<1>11. DecodedOuter' /\ DecodedEvents(st)'
  BY <1>1, <1>3 DEF DecodedOuter, DecodedEvents, tracer_vars, decoder_vars
<1>12. AtRecord(rp, cnt, Len(outer) + 1)'
  <2>1. \A u \in Threads : Len(decoded[u]) = cnt[d][u]
    BY <1>4, <1>8 DEF m, hi
  <2>2. AtRecord(rp, cnt, d)
    BY <1>9, <2>1 DEF AtRecord
  <2> QED BY <1>1, <2>2 DEF AtRecord, d, decoder_vars
<1>13. Decoding(st, beg, rp, cnt)'
  BY <1>1, <1>11, <1>12 DEF Decoding
<1> QED BY <1>1, <1>10, <1>13 DEF TraceInvariant

\* The invariant is about the variables only.
LEMMA TraceStutters ==
  ASSUME TraceInvariant, UNCHANGED vars
  PROVE  TraceInvariant'
<1>1. UNCHANGED <<tracer_vars, decoder_vars>> /\ pc' = pc
  BY DEF vars
<1>2. PICK st, beg, rp, cnt :
        /\ Lies(st, beg, rp, cnt)
        /\ IF pc = "write" THEN NothingDecoded ELSE Decoding(st, beg, rp, cnt)
  BY DEF TraceInvariant
<1>3. DecoderTypes
  BY DEF TraceInvariant
<1>4. Lies(st, beg, rp, cnt)' /\ DecoderTypes'
  BY <1>1, <1>2, <1>3 DEF Lies, DecoderTypes, tracer_vars, decoder_vars
<1>5. CASE pc = "write"
  <2>1. NothingDecoded'
    BY <1>1, <1>2, <1>5 DEF NothingDecoded, decoder_vars
  <2> QED BY <1>1, <1>4, <1>5, <2>1 DEF TraceInvariant
<1>6. CASE pc # "write"
  <2>1. Decoding(st, beg, rp, cnt)
    BY <1>2, <1>6
  <2>2. DecodedOuter' /\ DecodedEvents(st)'
    BY <1>1, <2>1 DEF Decoding, DecodedOuter, DecodedEvents, tracer_vars, decoder_vars
  <2>3. AtRecord(rp, cnt, Len(outer) + 1) => AtRecord(rp, cnt, Len(outer) + 1)'
    BY <1>1 DEF AtRecord, decoder_vars
  <2>4. AtEvent(beg, rp, cnt, Len(outer) + 1) => AtEvent(beg, rp, cnt, Len(outer) + 1)'
    BY <1>1 DEF AtEvent, tracer_vars, decoder_vars
  <2>5. Decoding(st, beg, rp, cnt)'
    BY <1>1, <2>1, <2>2, <2>3, <2>4 DEF Decoding
  <2> QED BY <1>1, <1>4, <1>6, <2>5 DEF TraceInvariant
<1> QED BY <1>5, <1>6

\* Every record of the trace and every event of a Buf lies at its place, and
\* the decoder is at the place of what it has not decoded yet: the whole of
\* the invariant, by which the theorems below hold
\* (events-serializer.cc:262-376, 420-464).
THEOREM TraceInvariance == Spec => []TraceInvariant
<1>1. Init => TraceInvariant
  BY FirstTrace
<1>2. TraceInvariant /\ [Next]_vars => TraceInvariant'
  <2> SUFFICES ASSUME TraceInvariant, [Next]_vars PROVE TraceInvariant'
    OBVIOUS
  <2>1. ASSUME NEW t \in Threads, Record(t) PROVE TraceInvariant'
    BY <2>1, RecordStep
  <2>2. ASSUME NEW t \in Threads, Flush(t) PROVE TraceInvariant'
    BY <2>2, FlushStep
  <2>3. ASSUME NEW t \in Threads, Exit(t) PROVE TraceInvariant'
    BY <2>3, ExitStep
  <2>4. CASE Barrier
    BY <2>4, BarrierStep
  <2>5. CASE End
    BY <2>5, EndStep
  <2>6. CASE Close
    BY <2>6, CloseStep
  <2>7. CASE NextRecord
    BY <2>7, NextRecordStep
  <2>8. CASE NextEvent
    BY <2>8, NextEventStep
  <2>9. CASE EndOfBuffer
    BY <2>9, EndOfBufferStep
  <2>10. CASE Finished
    <3>1. UNCHANGED vars
      BY <2>10 DEF Finished
    <3> QED BY <3>1, TraceStutters
  <2>11. CASE UNCHANGED vars
    BY <2>11, TraceStutters
  <2> QED BY <2>1, <2>2, <2>3, <2>4, <2>5, <2>6, <2>7, <2>8, <2>9, <2>10, <2>11 DEF Next
<1> QED BY <1>1, <1>2, PTL DEF Spec

\* A decoder that has come to the end of the trace has every record of it, and
\* every event of a thread whose buffer is written.
LEMMA CaughtUpHasAll ==
  ASSUME NEW st, NEW beg, NEW rp, NEW cnt, Lies(st, beg, rp, cnt), DecoderTypes,
         Decoding(st, beg, rp, cnt), CaughtUp
  PROVE  /\ Len(outer) = Len(written)
         /\ \A t \in Threads : buf[t] = <<>> => Len(decoded[t]) = Len(recorded[t])
<1> DEFINE d == Len(outer) + 1
           len == Len(written)
<1>1. pc = "read" /\ pos = Len(trace) /\ pos = rp[d] /\ \A t \in Threads : Len(decoded[t]) = cnt[d][t]
  BY DEF CaughtUp, Decoding, AtRecord
<1>2. Len(outer) \in Nat /\ len \in Nat /\ Len(outer) <= len /\ cnt \in [Nat -> [Threads -> Nat]]
      /\ recorded \in [Threads -> Seq(AllEvents)]
  <2>1. /\ outer \in Seq(KeptRecords) /\ written \in Seq(RecordsOfTrace)
        /\ cnt \in [Nat -> [Threads -> Nat]] /\ recorded \in [Threads -> Seq(AllEvents)]
    BY DEF DecoderTypes, Lies, Places
  <2>2. Len(outer) \in Nat /\ len \in Nat
    BY ONLY <2>1
  <2>3. Len(outer) <= len
    BY DEF Decoding, DecodedOuter
  <2> QED BY <2>1, <2>2, <2>3
<1>3. d = len + 1
  <2>1. SUFFICES ASSUME d \in 1 .. len PROVE FALSE
    BY <1>2
  <2> DEFINE e == Encode(RecordWords(written[d]))
             a == rp[d]
             b == rp[d + 1]
             n == Len(e)
             end == Len(trace)
  <2> HIDE DEF d
  <2>2. /\ n \in Nat \ {0} /\ a \in Nat /\ b \in Nat /\ end \in Nat
        /\ a + n <= b /\ b <= end
    BY <2>1, PlaceOfRecord DEF len
  <2>3. a = end
    BY <1>1
  <2> HIDE DEF a, b, n, end
  <2> QED BY ONLY <2>2, <2>3
<1>4. ASSUME NEW t \in Threads, buf[t] = <<>>
      PROVE  Len(decoded[t]) = Len(recorded[t])
  <2> DEFINE lo == cnt[d][t]
             hi == Len(recorded[t])
  <2>1. EventsLie(buf[t], recorded[t], st[t], beg[t], cnt[len + 1][t], Len(recorded[t]),
                  0, Len(buf[t]))
    BY DEF Lies, Laid
  <2>2. EventsLie(buf[t], recorded[t], st[t], beg[t], lo, hi, 0, Len(buf[t]))
    <3> HIDE DEF d, len
    <3> QED BY <1>3, <2>1
  <2>3. d \in Nat
    BY <1>2
  <2>4. lo \in Nat /\ hi \in Nat
    <3> HIDE DEF d
    <3> QED BY <1>2, <2>3
  <2>5. lo <= hi
    BY <2>2 DEF EventsLie
  <2>6. Len(buf[t]) = 0
    <3>1. Len(<<>>) = 0
      OBVIOUS
    <3> QED BY <1>4, <3>1
  <2> HIDE DEF d, lo, hi
  <2>7. ~(lo < hi)
    <3>1. SUFFICES ASSUME lo < hi PROVE FALSE
      OBVIOUS
    <3> DEFINE n == lo + 1
               e == EventBytes(recorded[t], st[t], n)
               place == beg[t][n]
    <3>2. n \in lo + 1 .. hi /\ n \in 1 .. hi
      BY ONLY <2>4, <3>1
    <3> HIDE DEF n
    <3>3. Piece(buf[t], place, e)
      BY <2>2, <3>2 DEF EventsLie
    <3>4. EncodedFrom(recorded[t], st[t], sent[t])
      BY <1>4 DEF Lies, Places
    <3>5. Len(e) \in Nat \ {0}
      BY <3>2, <3>4, EventBytesAre DEF hi
    <3> HIDE DEF e, place
    <3>6. place \in Nat /\ place + Len(e) <= 0
      BY <2>6, <3>3 DEF Piece
    <3> QED BY ONLY <3>5, <3>6
  <2>8. lo = hi
    BY ONLY <2>4, <2>5, <2>7
  <2> QED BY <1>1, <2>8 DEF lo, hi, d
<1> QED BY <1>2, <1>3, <1>4

\* A sequence that begins another.
LEMMA PrefixIs ==
  ASSUME NEW S, NEW s \in Seq(S), NEW t \in Seq(S), Len(s) <= Len(t),
         \A i \in 1 .. Len(s) : s[i] = t[i]
  PROVE  IsPrefix(s, t)
<1> DEFINE n == Len(s)
           a == SubSeq(s, 1, n)
           b == SubSeq(t, 1, n)
<1>1. n \in Nat /\ Len(t) \in Nat /\ n <= Len(t)
  OBVIOUS
<1>2. /\ 1 \in 1 .. Len(s) + 1 /\ n \in 0 .. Len(s)
      /\ 1 \in 1 .. Len(t) + 1 /\ n \in 0 .. Len(t)
  BY <1>1
<1>3. a \in Seq(S) /\ Len(a) = n /\ \A i \in 1 .. n : a[i] = s[i]
  <2>1. n = IF 1 <= n THEN n - 1 + 1 ELSE 0
    BY <1>1
  <2>2. \A i \in 1 .. n : 1 + i - 1 = i
    BY <1>1
  <2> QED BY <1>1, <1>2, <2>1, <2>2, SubSeqProperties
<1>4. b \in Seq(S) /\ Len(b) = n /\ \A i \in 1 .. n : b[i] = t[i]
  <2>1. n = IF 1 <= n THEN n - 1 + 1 ELSE 0
    BY <1>1
  <2>2. \A i \in 1 .. n : 1 + i - 1 = i
    BY <1>1
  <2> QED BY <1>1, <1>2, <2>1, <2>2, SubSeqProperties
<1> HIDE DEF a, b
<1>5. a = b
  <2>1. \A i \in 1 .. Len(a) : a[i] = b[i]
    BY <1>3, <1>4
  <2> QED BY <1>3, <1>4, <2>1, SeqEqual
<1> QED BY <1>1, <1>5 DEF IsPrefix, a, b

\* What is kept of each record or event of a sequence.
LEMMA KeptOfIs ==
  ASSUME NEW S, NEW s \in Seq(S)
  PROVE  /\ KeptOf(s) \in Seq({Kept(x) : x \in S}) /\ Len(KeptOf(s)) = Len(s)
         /\ \A i \in 1 .. Len(s) : KeptOf(s)[i] = Kept(s[i])
<1>1. DOMAIN s = 1 .. Len(s) /\ Len(s) \in Nat /\ \A i \in 1 .. Len(s) : s[i] \in S
  OBVIOUS
<1> DEFINE n == Len(s)
           T == {Kept(x) : x \in S}
           k == KeptOf(s)
<1>2. k = [i \in 1 .. n |-> Kept(s[i])]
  BY <1>1 DEF KeptOf
<1>3. \A i \in 1 .. n : Kept(s[i]) \in T
  BY <1>1
<1> HIDE DEF n, T, k
<1>4. k \in [1 .. n -> T] /\ \A i \in 1 .. n : k[i] = Kept(s[i])
  BY <1>2, <1>3
<1>5. k \in Seq(T) /\ Len(k) = n
  <2>1. n \in Nat
    BY <1>1 DEF n
  <2> QED BY <1>4, <2>1
<1> QED BY <1>4, <1>5 DEF n, T, k

\* The type invariant.
THEOREM TraceTypeCorrect == Spec => []TypeOK
<1>1. EncoderStates \subseteq ThreadStates
  <2>1. SizeCount <= WordCount /\ TokenCount <= WordCount
        /\ SizeCount \in Nat /\ TokenCount \in Nat /\ WordCount \in Nat /\ Word = 0 .. WordCount - 1
    <3>1. /\ SizeCount \in Nat /\ TokenCount \in Nat
          /\ 2 * SizeCount <= WordCount /\ 2 * TokenCount <= WordCount
      BY CountsAre
    <3>2. WordCount \in Nat /\ Word = 0 .. WordCount - 1
      BY WordIs
    <3> QED BY ONLY <3>1, <3>2
  <2>2. 0 .. SizeCount - 1 \subseteq Word /\ 0 .. TokenCount - 1 \subseteq Word
    BY ONLY <2>1
  <2> QED BY <2>2 DEF EncoderStates, ThreadStates
<1>2. TraceInvariant => TypeOK
  <2> SUFFICES ASSUME TraceInvariant PROVE TypeOK
    OBVIOUS
  <2>1. PICK st, beg, rp, cnt :
          /\ Lies(st, beg, rp, cnt)
          /\ IF pc = "write" THEN NothingDecoded ELSE Decoding(st, beg, rp, cnt)
    BY Zenon DEF TraceInvariant
  <2>2. /\ trace \in Seq(Byte) /\ buf \in [Threads -> Seq(Byte)]
        /\ sent \in [Threads -> EncoderStates]
    BY <2>1 DEF Lies, Places
  <2>3. /\ state \in [Threads -> EncoderStates] /\ pos \in 0 .. Len(trace)
        /\ active \in [end : 0 .. Len(trace), thread : Threads]
    BY DEF TraceInvariant, DecoderTypes
  <2>4. pc \in {"write", "read", "buffer"}
    BY <2>1 DEF Decoding
  <2>5. sent \in [Threads -> ThreadStates] /\ state \in [Threads -> ThreadStates]
    BY ONLY <1>1, <2>2, <2>3
  <2> QED BY <2>2, <2>3, <2>4, <2>5 DEF TypeOK
<1> QED BY <1>2, TraceInvariance, PTL

\* What is decoded, of the trace and of each thread, is what was recorded, in
\* the same order, with nothing missing at the end and no panic
\* (events-serializer.cc:262-376, 420-464).
THEOREM EverythingDecoded == Spec => []DecodesWhatWasRecorded
<1>1. TraceInvariant => DecodesWhatWasRecorded
  <2> SUFFICES ASSUME TraceInvariant PROVE DecodesWhatWasRecorded
    OBVIOUS
  <2>1. PICK st, beg, rp, cnt :
          /\ Lies(st, beg, rp, cnt)
          /\ IF pc = "write" THEN NothingDecoded ELSE Decoding(st, beg, rp, cnt)
    BY Zenon DEF TraceInvariant
  <2>2. /\ written \in Seq(RecordsOfTrace) /\ recorded \in [Threads -> Seq(AllEvents)]
        /\ outer \in Seq(KeptRecords) /\ decoded \in [Threads -> Seq(KeptEvents)]
        /\ DecoderTypes
    BY <2>1 DEF Lies, Places, TraceInvariant, DecoderTypes
  <2>3. DecodedOuter
        /\ \A t \in Threads : /\ Len(decoded[t]) <= Len(recorded[t])
                              /\ \A n \in 1 .. Len(decoded[t]) :
                                   decoded[t][n] = Kept(recorded[t][n])
    <3>1. CASE pc = "write"
      <4>1. outer = <<>> /\ decoded = [t \in Threads |-> <<>>]
        BY <2>1, <3>1 DEF NothingDecoded
      <4>2. Len(<<>>) = 0 /\ 1 .. 0 = {}
        OBVIOUS
      <4>3. DecodedOuter
        <5>1. Len(written) \in Nat
          BY ONLY <2>2
        <5>2. Len(outer) = 0
          BY ONLY <4>1, <4>2
        <5> QED BY ONLY <5>1, <5>2 DEF DecodedOuter
      <4>4. ASSUME NEW t \in Threads
            PROVE  Len(decoded[t]) <= Len(recorded[t])
                   /\ \A n \in 1 .. Len(decoded[t]) : decoded[t][n] = Kept(recorded[t][n])
        <5>1. Len(recorded[t]) \in Nat
          BY ONLY <2>2, <4>4
        <5>2. Len(decoded[t]) = 0
          BY ONLY <4>1, <4>2, <4>4
        <5> QED BY ONLY <5>1, <5>2
      <4> QED BY <4>3, <4>4
    <3>2. CASE pc # "write"
      BY <2>1, <3>2 DEF Decoding, DecodedEvents
    <3> QED BY <3>1, <3>2
  <2>4. pc \notin {"ended", "panicked"}
    BY <2>1 DEF Decoding
  <2>5. IsPrefix(outer, KeptOf(written))
    <3> DEFINE k == KeptOf(written)
    <3>1. /\ k \in Seq(KeptRecords) /\ Len(k) = Len(written)
          /\ \A i \in 1 .. Len(written) : k[i] = Kept(written[i])
      BY <2>2, KeptOfIs DEF KeptRecords
    <3> HIDE DEF k
    <3>2. Len(written) \in Nat /\ Len(outer) \in Nat
      BY ONLY <2>2
    <3>3. /\ Len(outer) <= Len(written)
          /\ \A i \in 1 .. Len(outer) : outer[i] = Kept(written[i])
      BY <2>3 DEF DecodedOuter
    <3>4. Len(outer) <= Len(k) /\ \A i \in 1 .. Len(outer) : outer[i] = k[i]
      BY ONLY <3>1, <3>2, <3>3
    <3>5. IsPrefix(outer, k)
      BY ONLY <2>2, <3>1, <3>4, PrefixIs
    <3> QED BY <3>5 DEF k
  <2>6. ASSUME NEW t \in Threads PROVE IsPrefix(decoded[t], KeptOf(recorded[t]))
    <3> DEFINE s == decoded[t]
               e == recorded[t]
               k == KeptOf(e)
    <3>1. e \in Seq(AllEvents) /\ s \in Seq(KeptEvents)
      BY <2>2
    <3>2. Len(s) <= Len(e) /\ \A i \in 1 .. Len(s) : s[i] = Kept(e[i])
      BY <2>3
    <3> HIDE DEF s, e
    <3>3. /\ k \in Seq(KeptEvents) /\ Len(k) = Len(e)
          /\ \A i \in 1 .. Len(e) : k[i] = Kept(e[i])
      BY <3>1, KeptOfIs DEF KeptEvents
    <3> HIDE DEF k
    <3>4. Len(s) \in Nat /\ Len(e) \in Nat
      BY ONLY <3>1
    <3>5. Len(s) <= Len(k) /\ \A i \in 1 .. Len(s) : s[i] = k[i]
      BY ONLY <3>2, <3>3, <3>4
    <3>6. IsPrefix(s, k)
      BY ONLY <3>1, <3>3, <3>5, PrefixIs
    <3> QED BY <3>6 DEF k, s, e
  <2>7. CaughtUp => /\ Len(outer) = Len(written)
                    /\ \A t \in Threads :
                         buf[t] = <<>> => Len(decoded[t]) = Len(recorded[t])
    <3> SUFFICES ASSUME CaughtUp
                 PROVE  /\ Len(outer) = Len(written)
                        /\ \A t \in Threads :
                             buf[t] = <<>> => Len(decoded[t]) = Len(recorded[t])
      OBVIOUS
    <3>1. pc # "write"
      BY DEF CaughtUp
    <3> QED BY <2>1, <2>2, <3>1, CaughtUpHasAll
  <2> QED BY <2>4, <2>5, <2>6, <2>7 DEF DecodesWhatWasRecorded
<1> QED BY <1>1, TraceInvariance, PTL

\* A decoder that has all that a thread recorded is in the state of the
\* thread's encoder (events-serializer.cc:262-376).
THEOREM DeltaStatesStayEqual == Spec => []DeltaStatesAgree
<1>1. TraceInvariant => DeltaStatesAgree
  <2> SUFFICES ASSUME TraceInvariant, CaughtUp, NEW t \in Threads, buf[t] = <<>>
               PROVE  state[t] = sent[t]
    BY DEF DeltaStatesAgree
  <2>1. PICK st, beg, rp, cnt :
          /\ Lies(st, beg, rp, cnt)
          /\ IF pc = "write" THEN NothingDecoded ELSE Decoding(st, beg, rp, cnt)
    BY Zenon DEF TraceInvariant
  <2>2. DecoderTypes
    BY DEF TraceInvariant
  <2>3. Decoding(st, beg, rp, cnt)
    BY <2>1 DEF CaughtUp
  <2>4. Len(decoded[t]) = Len(recorded[t])
    BY <2>1, <2>2, <2>3, CaughtUpHasAll
  <2>5. state[t] = st[t][Len(decoded[t])]
    BY <2>3 DEF Decoding, DecodedEvents
  <2>6. EncodedFrom(recorded[t], st[t], sent[t])
    BY <2>1 DEF Lies, Places
  <2>7. st[t][Len(recorded[t])] = sent[t]
    BY <2>6 DEF EncodedFrom
  <2> QED BY <2>4, <2>5, <2>7
<1> QED BY <1>1, TraceInvariance, PTL
=============================================================================
