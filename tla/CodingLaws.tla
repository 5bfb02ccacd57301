------------------------------ MODULE CodingLaws ------------------------------
(***************************************************************************)
(* What theorems take for granted of the field and of the bytes of its     *)
(* words.  The definitions they are about are closed formulas over 2^Bits,  *)
(* which TLC evaluates for a width and no prover can reason about.         *)
(***************************************************************************)
EXTENDS ReedSolomon

\* Field is a field in which every word is its own negative, and to multiply by
\* Quotient(1, x) is to divide by x.
FieldLaws ==
  /\ 0 \in Field /\ 1 \in Field
  /\ \A x, y \in Field :
       /\ Xor(x, y) \in Field /\ Product(x, y) \in Field
       /\ Xor(x, y) = Xor(y, x) /\ Product(x, y) = Product(y, x)
  /\ \A x \in Field :
       /\ Xor(0, x) = x /\ Xor(x, x) = 0
       /\ Product(0, x) = 0 /\ Product(1, x) = x
       /\ x # 0 => /\ Quotient(1, x) \in Field
                   /\ Product(x, Quotient(1, x)) = 1
  /\ \A x, y, z \in Field :
       /\ Xor(x, Xor(y, z)) = Xor(Xor(x, y), z)
       /\ Product(x, Product(y, z)) = Product(Product(x, y), z)
       /\ Product(x, Xor(y, z)) = Xor(Product(x, y), Product(x, z))

\* A word is its two bytes, a byte its two nibbles, and words are added byte by
\* byte.
WordLaws ==
  /\ ByteCount \in Nat
  /\ 0 \in Byte /\ Byte \subseteq Field /\ Nibble \subseteq Byte
  /\ \A v, w \in Field :
       /\ LowByte(w) \in Byte /\ HighByte(w) \in Byte
       /\ LowByte(Xor(v, w)) = Xor(LowByte(v), LowByte(w))
       /\ HighByte(Xor(v, w)) = Xor(HighByte(v), HighByte(w))
       /\ w = LowByte(w) + ByteCount * HighByte(w)
  /\ \A low, high \in Byte :
       /\ high * ByteCount \in Field
       /\ low + ByteCount * high = Xor(low, high * ByteCount)
       /\ LowByte(low + ByteCount * high) = low
       /\ HighByte(low + ByteCount * high) = high
  /\ \A b \in Byte :
       LET low == b % NibbleCount
           high == b \div NibbleCount
       IN  /\ low \in Nibble /\ high \in Nibble
           /\ high * NibbleCount \in Byte
           /\ b = Xor(low, high * NibbleCount)
  /\ \A x, y \in Byte : Xor(x, y) \in Byte
=============================================================================
