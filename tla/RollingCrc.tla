------------------------------ MODULE RollingCrc ------------------------------
(***************************************************************************)
(* The checksum that is carried along while a window slides over a file:   *)
(* src/checksum/rolling_crc.rs, for any width.                             *)
(*                                                                         *)
(* Polynomials are written as in the code, the coefficient of x^0 in the   *)
(* highest bit.                                                            *)
(***************************************************************************)
EXTENDS Integers, Sequences, SequencesExt

CONSTANTS
  CrcBits,      \* width of the checksum (32)
  ByteBits,     \* width of a byte (8)
  ByteLog,      \* its logarithm (3)
  Polynomial    \* reflected, without its leading term (16rEDB88320)

ASSUME CrcAssumption ==
  /\ CrcBits \in Nat /\ ByteLog \in Nat
  /\ ByteBits = 2^ByteLog /\ ByteBits < CrcBits
  /\ Polynomial \in 0..(2^CrcBits - 1)

AllOnes == 2^CrcBits - 1
One == 2^(CrcBits - 1)
CrcValue == 0..AllOnes
CrcByte == 0..(2^ByteBits - 1)

\* Exclusive or, bit by bit.
XorTable ==
  [p \in CrcValue \X CrcValue |->
     LET Bit(n, i) == (n \div 2^i) % 2
     IN  MapThenSumSet(LAMBDA i : 2^i * ((Bit(p[1], i) + Bit(p[2], i)) % 2),
                       0..(CrcBits - 1))]
Xor(a, b) == XorTable[<<a, b>>]

\* Times x.
Shifted(c) == IF c % 2 = 1 THEN Xor(c \div 2, Polynomial) ELSE c \div 2

\* The checksum register after a byte has passed through it.
CrcTable ==
  [b \in CrcByte |->
     LET After[bits \in 0..ByteBits] ==
           IF bits = 0 THEN b ELSE Shifted(After[bits - 1])
     IN  After[ByteBits]]

\* A byte enters the register.
Entered(c, b) == Xor(c \div 2^ByteBits, CrcTable[Xor(c, b) % 2^ByteBits])

\* The standard checksum of a sequence of bytes, byte after byte.
Crc(bytes) ==
  LET After[n \in 0..Len(bytes)] ==
        IF n = 0 THEN AllOnes
        ELSE LET before == After[n - 1] IN Entered(before, bytes[n])
  IN  Xor(AllOnes, After[Len(bytes)])

-----------------------------------------------------------------------------

\* The highest bit of b first: a is added for each bit set and shifted.
Gf32Multiply(a, b) ==
  LET After[i \in 0..CrcBits] ==
        IF i = 0 THEN [product |-> 0, a |-> a]
        ELSE LET s == After[i - 1]
             IN  [product |-> IF (b \div 2^(CrcBits - i)) % 2 = 1
                              THEN Xor(s.product, s.a) ELSE s.product,
                  a |-> Shifted(s.a)]
  IN  After[CrcBits].product

\* x^(ByteBits * 2^j) for the j-th bit of a length: squares of x, the first
\* ones moved to the end of the table, where squaring comes back to them.
Power ==
  LET Square[i \in 0..(CrcBits - 1)] ==
        IF i = 0 THEN One \div 2
        ELSE LET k == Square[i - 1] IN Gf32Multiply(k, k)
  IN  [j \in 0..(CrcBits - 1) |-> Square[(j + ByteLog) % CrcBits]]

\* x^(ByteBits * length), a factor for each bit of the length.
CrcExp8(length) ==
  LET After[j \in 0..CrcBits] ==
        IF j = 0 THEN One
        ELSE LET c == After[j - 1]
             IN  IF ((length % AllOnes) \div 2^(j - 1)) % 2 = 1
                 THEN Gf32Multiply(c, Power[j - 1]) ELSE c
  IN  After[CrcBits]

\* What a byte at the start of the window has contributed to its checksum once
\* the next byte is in, with the inversions that come with it.
WindowMask(window, b) ==
  LET coefficient == CrcExp8(window)
      mask == Xor(AllOnes,
                  Gf32Multiply(Gf32Multiply(AllOnes, coefficient),
                               One + 2^(CrcBits - 1 - ByteBits)))
  IN  Xor(Gf32Multiply(CrcTable[b], coefficient), mask)

RollingTable(window) == [b \in CrcByte |-> WindowMask(window, b)]

Slide(table, crc, byteIn, byteOut) ==
  Xor(Entered(Xor(crc, AllOnes), byteIn), table[byteOut])
=============================================================================
