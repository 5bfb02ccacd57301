------------------------------- MODULE Kernels -------------------------------
(***************************************************************************)
(* Multiplying a slice by a coefficient: split tables, the scalar loop of  *)
(* src/reed_solomon/simd/common.rs and the vector loops of pshufb.rs and   *)
(* portable.rs.                                                            *)
(*                                                                         *)
(* A slice is a sequence of bytes, two to a word, the low one first.  The  *)
(* vector loops look up nibbles, a vector at a time, and leave what is     *)
(* shorter than a vector to the scalar loop.                               *)
(***************************************************************************)
EXTENDS GaloisField, SequencesExt

CONSTANT Vector  \* bytes AVX2 takes at a time (32), others half of that

ASSUME VectorAssumption == Vector \in Nat /\ Vector > 0 /\ Vector % 4 = 0

ByteCount == 2^(Bits \div 2)
NibbleCount == 2^(Bits \div 4)
Byte == 0..(ByteCount - 1)
Nibble == 0..(NibbleCount - 1)
LowByte(w) == w % ByteCount
HighByte(w) == w \div ByteCount

Lesser(a, b) == IF a < b THEN a ELSE b

-----------------------------------------------------------------------------
(* Tables *)

\* Products of the coefficient with each low and each high byte of a word.
SplitTable(c) ==
  [low |-> [b \in Byte |-> IF b = 0 THEN 0 ELSE Product(c, b)],
   high |-> [b \in Byte |-> IF b = 0 THEN 0 ELSE Product(c, b * ByteCount)]]

Split == [c \in Field |-> SplitTable(c)]

\* For each nibble, low or high in its byte, the two bytes of the product.
NibbleTables(table) ==
  [loNibLo |-> [n \in Nibble |-> LowByte(table[n])],
   loNibHi |-> [n \in Nibble |-> HighByte(table[n])],
   hiNibLo |-> [n \in Nibble |-> LowByte(table[n * NibbleCount])],
   hiNibHi |-> [n \in Nibble |-> HighByte(table[n * NibbleCount])]]

Prepared ==
  [c \in Field |-> [low |-> NibbleTables(Split[c].low),
                    high |-> NibbleTables(Split[c].high)]]

-----------------------------------------------------------------------------
(* Loops.  Each gives the output after the call; what lies beyond the       *)
(* shorter of input and output is left alone.                               *)

WordProduct(t, lo, hi) == Xor(t.low[lo], t.high[hi])

\* Bytes from..n of the product; a last byte without partner is taken for the
\* low byte of a word and only the low byte of its product is kept.
ScalarBytes(t, in, from, n) ==
  [p \in from..n |->
     IF p = n /\ n % 2 = 1 THEN LowByte(t.low[in[p]])
     ELSE IF p % 2 = 1 THEN LowByte(WordProduct(t, in[p], in[p + 1]))
     ELSE HighByte(WordProduct(t, in[p - 1], in[p]))]

Overwritten(out, bytes) ==
  [p \in DOMAIN out |-> IF p \in DOMAIN bytes THEN bytes[p] ELSE out[p]]
Added(out, bytes) ==
  [p \in DOMAIN out |->
     IF p \in DOMAIN bytes THEN Xor(out[p], bytes[p]) ELSE out[p]]

Common(in, out) == Lesser(Len(in), Len(out))

MultiplyDirect(c, in, out) ==
  Overwritten(out, ScalarBytes(Split[c], in, 1, Common(in, out)))

ScalarAdd(c, in, out, from, n) ==
  Added(out, ScalarBytes(Split[c], in, from, n))

\* One byte of a product, looked up by nibbles.
NibbleByte(prep, lo, hi, high) ==
  LET Look(t, b) ==
        IF high
        THEN Xor(t.loNibHi[b % NibbleCount], t.hiNibHi[b \div NibbleCount])
        ELSE Xor(t.loNibLo[b % NibbleCount], t.hiNibLo[b \div NibbleCount])
  IN  Xor(Look(prep.low, lo), Look(prep.high, hi))

VectorBytes(c, in, n) ==
  [p \in 1..n |->
     IF p % 2 = 1 THEN NibbleByte(Prepared[c], in[p], in[p + 1], FALSE)
     ELSE NibbleByte(Prepared[c], in[p - 1], in[p], TRUE)]

\* Fault for testing: what is left after the last whole vector is forgotten.
VectorAddWhole(c, in, out) ==
  LET n == Common(in, out)
      end == (n \div Vector) * Vector
  IN  IF n < Vector THEN ScalarAdd(c, in, out, 1, n)
      ELSE Added(out, VectorBytes(c, in, end))

\* Whole vectors, then the rest by the scalar loop.
VectorAdd(c, in, out) ==
  LET n == Common(in, out)
      end == (n \div Vector) * Vector
  IN  IF n < Vector THEN ScalarAdd(c, in, out, 1, n)
      ELSE ScalarAdd(c, in, Added(out, VectorBytes(c, in, end)), end + 1, n)

\* Two inputs into one output, loaded and stored once for both.
VectorAddTwo(c, a, d, b, out) ==
  LET n == Lesser(Common(a, out), Len(b))
      end == (n \div Vector) * Vector
      both == Added(Added(out, VectorBytes(c, a, end)), VectorBytes(d, b, end))
  IN  IF n < Vector
      THEN ScalarAdd(d, b, ScalarAdd(c, a, out, 1, Common(a, out)),
                     1, Common(b, out))
      ELSE ScalarAdd(d, b, ScalarAdd(c, a, both, end + 1, Common(a, out)),
                     end + 1, Common(b, out))

\* The low and the high bytes of the words are taken apart, and the low and
\* the high bytes of their products put together again.
PortableBytes(c, in, n) ==
  LET words == 1..(n \div 2)
      even == [k \in words |-> in[2 * k - 1]]
      odd == [k \in words |-> in[2 * k]]
      low == [k \in words |-> NibbleByte(Prepared[c], even[k], odd[k], FALSE)]
      high == [k \in words |-> NibbleByte(Prepared[c], even[k], odd[k], TRUE)]
  IN  [p \in 1..n |-> IF p % 2 = 1 THEN low[(p + 1) \div 2] ELSE high[p \div 2]]

PortableAdd(c, in, out) ==
  LET n == Common(in, out)
      end == (n \div (Vector \div 2)) * (Vector \div 2)
  IN  ScalarAdd(c, in, Added(out, PortableBytes(c, in, end)), end + 1, n)

\* What the machine has; on request nothing is used.
Levels == {"avx2", "ssse3", "portable", "none"}

KernelAdd(level, c, in, out) ==
  CASE level = "avx2" -> VectorAdd(c, in, out)
    [] level = "portable" -> PortableAdd(c, in, out)
    [] level = "ssse3" -> ScalarAdd(c, in, out, 1, Common(in, out))

\* Short slices and other machines take the scalar loop.
MultiplyAdd(level, c, in, out) ==
  IF Common(in, out) >= Vector /\ level # "none" THEN KernelAdd(level, c, in, out)
  ELSE ScalarAdd(c, in, out, 1, Common(in, out))
=============================================================================
