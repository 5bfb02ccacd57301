----------------------------- MODULE GaloisField -----------------------------
(***************************************************************************)
(* The field of src/reed_solomon/galois.rs, built from its logarithm       *)
(* tables, for any width: the code's field has Bits = 16.                  *)
(***************************************************************************)
EXTENDS Integers, FiniteSetsExt

CONSTANTS
  Bits,      \* width of a word (16)
  Generator  \* the polynomial the field is built with (16r1100B)

Count == 2^Bits
Limit == Count - 1
Field == 0..Limit

ASSUME FieldAssumption ==
  /\ Bits \in Nat /\ Bits > 0 /\ Bits % 4 = 0
  /\ Generator \in Count .. (2 * Count - 1)

Bit(a, i) == (a \div 2^i) % 2

\* Sum and difference are the exclusive or.
XorTable ==
  [p \in Field \X Field |->
     MapThenSumSet(LAMBDA i : 2^i * ((Bit(p[1], i) + Bit(p[2], i)) % 2),
                   0..(Bits - 1))]
Xor(a, b) == XorTable[<<a, b>>]

\* Powers of two, reduced by the generator when they overflow.
Power[l \in Nat] ==
  IF l = 0 THEN 1
  ELSE LET b == 2 * Power[l - 1]
       IN  IF b < Count THEN b ELSE Xor(b - Count, Generator - Count)

Antilog == [l \in 0..Limit |-> IF l = Limit THEN 0 ELSE Power[l]]
Log ==
  [v \in Field |->
     IF v = 0 THEN Limit ELSE CHOOSE l \in 0..(Limit - 1) : Power[l] = v]

ProductTable ==
  [p \in Field \X Field |->
     IF p[1] = 0 \/ p[2] = 0 THEN 0
     ELSE Antilog[(Log[p[1]] + Log[p[2]]) % Limit]]
Product(a, b) == ProductTable[<<a, b>>]

\* For b # 0; the code divides by pivots only.
Quotient(a, b) ==
  IF a = 0 THEN 0 ELSE Antilog[(Log[a] - Log[b] + Limit) % Limit]

ToPower(a, e) == IF a = 0 THEN 0 ELSE Antilog[(Log[a] * e) % Limit]

\* Zero when either is zero.
Gcd[a \in Nat, b \in Nat] ==
  IF a = 0 \/ b = 0 THEN 0
  ELSE IF a = b THEN a
  ELSE IF a > b THEN Gcd[a - b, b] ELSE Gcd[a, b - a]
=============================================================================
