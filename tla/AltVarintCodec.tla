---------------------------- MODULE AltVarintCodec ----------------------------
(***************************************************************************)
(* altvarint_codec.h on bytes of B bits and words of B bytes; in the code  *)
(* B is 8.  A varint takes up to B + 1 bytes, and the lowest bits of its   *)
(* first byte say how many.  Of the two builds it is the one for x86_64    *)
(* that is modelled.  A signed value is the word with the same bits.       *)
(***************************************************************************)
EXTENDS Integers, Sequences

CONSTANT B \* the bits of a byte, and the bytes of a word

ASSUME BAssumption == B \in Nat /\ B >= 2

WordBits == B * B
WordCount == 2 ^ WordBits
Word == 0 .. WordCount - 1
Byte == 0 .. 2 ^ B - 1

Shl(x, n) == (x * 2 ^ n) % WordCount
Shr(x, n) == x \div 2 ^ n
Low(x, n) == x % 2 ^ n
Complement(x) == WordCount - 1 - x

\* Mistake: a sum that does not wrap.
AddWide(x, y) == x + y

Add(x, y) == (x + y) % WordCount
Sub(x, y) == (x - y) % WordCount

\* kMaxSize, what the largest words are encoded into.
kMaxSize == B + 1

zigzag(val) ==
  IF val >= WordCount \div 2 THEN Complement(Shl(val, 1)) ELSE Shl(val, 1)

unzigzag(val) == IF Low(val, 1) = 1 THEN Complement(Shr(val, 1)) ELSE Shr(val, 1)

\* The words are little endian in memory.
Bytes(val) == [i \in 1 .. B |-> Low(Shr(val, B * (i - 1)), B)]
WordOf(bytes, first) ==
  LET from[i \in 0 .. B] ==
        IF i = B THEN 0 ELSE bytes[first + i] + 2 ^ B * from[i + 1]
  IN from[0]

\* The places of the highest and of the lowest bit of a word that has one.
HighestBit(val) == CHOOSE b \in 0 .. WordBits - 1 : Shr(val, b) = 1
LowestBit(val) == CHOOSE b \in 0 .. WordBits - 1 : Low(val, b + 1) = 2 ^ b

\* Mistake: the table is for the value before its shift.
UnshiftedBits(bit) == bit \div (B - 1)

\* The table encode_bits: how many zeros come before the lowest bit.
encode_bits(bit) == IF bit = 0 THEN 0 ELSE (bit - 1) \div (B - 1)

\* What encode_unsigned leaves between its place and the one it returns.
encode_unsigned(val) ==
  LET high == Shr(val, B * (B - 1))
      marked == Shl(val, 1) + 1
      bits == encode_bits(HighestBit(marked))
  IN IF high # 0 THEN Append(Bytes(Shl(val, B)), high)
     ELSE SubSeq(Bytes(Shl(marked, bits)), 1, bits + 1)

\* Mistake: __builtin_ffsll counts from 1.  That is what the build for other
\* machines than x86_64 does.
FindFirstSet(val) == LowestBit(val) + 1

TrailingZeros(val) == LowestBit(val)

\* The masks of decode_masks; that of a whole word keeps everything.
Masked(val, p) == IF p = B THEN val ELSE Low(val, (B - 1) * p)

\* What decode_unsigned makes of the kMaxSize bytes at its place.
decode_unsigned(bytes) ==
  LET val == WordOf(bytes, 1)
      p == TrailingZeros(val) + 1
  IN IF bytes[1] = 0
     THEN [advance |-> kMaxSize, value |-> WordOf(bytes, 2)]
     ELSE [advance |-> p, value |-> Masked(Shr(val, p), p)]
=============================================================================
