----------------------------- MODULE ReedSolomon -----------------------------
(***************************************************************************)
(* Coding and decoding of slices: src/reed_solomon/codec.rs, encoder.rs    *)
(* and the arithmetic of the create backend.                               *)
(*                                                                         *)
(*   recovery slice of exponent e  =  sum over inputs i of                 *)
(*                                    input i * base(i) ^ e                *)
(*                                                                         *)
(* Inputs are numbered from 0 as in the code, sequences from 1.            *)
(***************************************************************************)
EXTENDS Kernels

CONSTANT Batch  \* inputs the create backend stages before adding them (12)

ASSUME BatchAssumption == Batch \in Nat /\ Batch > 0

UpTo(n) == [i \in 1..n |-> i]
Zeros(n) == [p \in 1..n |-> 0]

\* The members of S, each at the place that the number of those before it gives.
Arranged(S, before) ==
  [k \in 1..Cardinality(S) |->
     CHOOSE i \in S : Cardinality(before[i]) = k - 1]
InOrder(S) == Arranged(S, [i \in S |-> {j \in S : j < i}])

\* The sum of the first n of some words.
XorSum(words, n) ==
  LET Sum[k \in 0..n] ==
        IF k = 0 THEN 0 ELSE Xor(Sum[k - 1], words[k])
  IN  Sum[n]

-----------------------------------------------------------------------------
(* Coefficients *)

\* The next logarithm without a factor in common with the order of the field.
NextLog[l \in Nat] == IF Gcd[Limit, l] = 1 THEN l ELSE NextLog[l + 1]

BaseLog[i \in Nat] == NextLog[IF i = 0 THEN 0 ELSE BaseLog[i - 1] + 1]

\* The logarithm is cut to the width of a word.
Base(i) == Antilog[BaseLog[i] % Count]

\* So is the exponent.
Coefficient(i, e) == ToPower(Base(i), e % Count)

-----------------------------------------------------------------------------
(* Coding *)

\* One recovery slice, input after input; the first is written, the others are
\* added.
Encode(level, inputs, e) ==
  LET Out[i \in 0..Len(inputs)] ==
        IF i = 0 THEN Zeros(Len(inputs[1]))
        ELSE IF i = 1 THEN MultiplyDirect(Coefficient(0, e), inputs[1], Out[0])
        ELSE MultiplyAdd(level, Coefficient(i - 1, e), inputs[i], Out[i - 1])
  IN  Out[Len(inputs)]

InputAdd(level, c, in, out) ==
  IF level = "avx2" THEN VectorAdd(c, in, out)
  ELSE MultiplyAdd(level, c, in, out)

\* A batch of n inputs from the one numbered first: in pairs, then a last one.
BatchAddTwo(inputs, e, first, n, out) ==
  LET Pairs[k \in 0..(n \div 2)] ==
        IF k = 0 THEN out
        ELSE LET a == first + 2 * k - 1
             IN  VectorAddTwo(Coefficient(a - 1, e), inputs[a],
                              Coefficient(a, e), inputs[a + 1], Pairs[k - 1])
      last == first + n
  IN  IF n % 2 = 0 THEN Pairs[n \div 2]
      ELSE InputAdd("avx2", Coefficient(last - 1, e), inputs[last],
                    Pairs[n \div 2])

BatchAdd(level, inputs, e, first, n, out) ==
  IF level = "avx2" THEN BatchAddTwo(inputs, e, first, n, out)
  ELSE LET Out[k \in 0..n] ==
             IF k = 0 THEN out
             ELSE InputAdd(level, Coefficient(first + k - 1, e),
                           inputs[first + k], Out[k - 1])
       IN  Out[n]

\* One recovery slice as the create command computes it, batch after batch.
PackedEncode(level, inputs, e) ==
  LET n == Len(inputs)
      batches == (n + Batch - 1) \div Batch
      Out[k \in 0..batches] ==
        IF k = 0 THEN Zeros(Len(inputs[1]))
        ELSE BatchAdd(level, inputs, e, (k - 1) * Batch,
                      Lesser(Batch, n - (k - 1) * Batch), Out[k - 1])
  IN  Out[batches]

-----------------------------------------------------------------------------
(* Linear systems.  A matrix is a sequence of rows, a system one whose rows *)
(* go on with the right-hand sides; a singular one has no solution.         *)

Singular == <<>>

Scaled(row, c) == [j \in DOMAIN row |-> Product(row[j], c)]
Minus(row, other, factor) ==
  [j \in DOMAIN row |-> Xor(row[j], Product(factor, other[j]))]

Swapped(rows, a, b) == [rows EXCEPT ![a] = rows[b], ![b] = rows[a]]

\* The step of the ReedSolomon type: the row on the diagonal is the pivot row,
\* and a zero there is an error, whatever the rows below hold.
GaussColumn(rows, col) ==
  IF rows = Singular THEN Singular
  ELSE IF rows[col][col] = 0 THEN Singular
  ELSE LET pivot == Scaled(rows[col], Quotient(1, rows[col][col]))
       IN  [r \in DOMAIN rows |->
              IF r = col THEN pivot ELSE Minus(rows[r], pivot, rows[r][col])]

\* The first row from the diagonal on that has an entry in the column becomes
\* the pivot row; the column is cleared in all others.
EliminateColumn(rows, col) ==
  LET pivots == {r \in DOMAIN rows : r >= col /\ rows[r][col] # 0}
  IN  IF rows = Singular \/ pivots = {} THEN Singular
      ELSE LET swapped == Swapped(rows, col, Min(pivots))
               pivot == Scaled(swapped[col], Quotient(1, swapped[col][col]))
           IN  [r \in DOMAIN rows |->
                  IF r = col THEN pivot
                  ELSE Minus(swapped[r], pivot, swapped[r][col])]

\* Column after column.
Eliminate(rows) ==
  LET After[col \in 0..Len(rows)] ==
        IF col = 0 THEN rows ELSE EliminateColumn(After[col - 1], col)
  IN  After[Len(rows)]

Invert(matrix) ==
  LET n == Len(matrix)
      Identity(r) == [j \in 1..n |-> IF j = r THEN 1 ELSE 0]
      rows == Eliminate([r \in 1..n |-> matrix[r] \o Identity(r)])
  IN  IF rows = Singular THEN Singular
      ELSE [r \in 1..n |-> SubSeq(rows[r], n + 1, 2 * n)]

Solve(matrix, rhs) ==
  LET n == Len(matrix)
      rows == Eliminate([r \in 1..n |-> Append(matrix[r], rhs[r])])
  IN  IF rows = Singular THEN Singular ELSE [r \in 1..n |-> rows[r][n + 1]]

-----------------------------------------------------------------------------
(* Decoding *)

\* Row by row the coefficients of the missing inputs in the recovery slices
\* used, which are the first ones of those there are.
Matrix(missing, exponents) ==
  [r \in 1..Len(missing) |->
     [k \in 1..Len(missing) |-> Coefficient(missing[k], exponents[r])]]

\* Coefficient of a present input in a missing one; beyond the inputs there
\* are, zero.
Combined(inverse, exponents, k, i, total) ==
  IF i >= total THEN 0
  ELSE XorSum([r \in DOMAIN inverse |->
                 Product(inverse[k][r], Coefficient(i, exponents[r]))],
              Len(inverse))

\* One more contribution to an output.  The first is written over it, the
\* others are added; one with coefficient zero is none.
Accumulate(level, acc, c, in) ==
  IF c = 0 THEN acc
  ELSE [first |-> FALSE,
        out |-> IF acc.first
                THEN IF c = 1 THEN in ELSE MultiplyDirect(c, in, acc.out)
                ELSE IF c = 1
                THEN [p \in DOMAIN acc.out |->
                        IF p \in DOMAIN in THEN Xor(acc.out[p], in[p])
                        ELSE acc.out[p]]
                ELSE MultiplyAdd(level, c, in, acc.out)]

Untouched(n) == [first |-> TRUE, out |-> Zeros(n)]

\* The k-th missing input: the recovery slices used, then the present inputs.
OutputSlice(level, size, present, offered, inverse, combined, k) ==
  FoldLeft(LAMBDA acc, i : Accumulate(level, acc, combined[i], present[i]),
           FoldLeft(LAMBDA acc, r : Accumulate(level, acc, inverse[k][r],
                                               offered[r].data),
                    Untouched(size), UpTo(Len(inverse))),
           SetToSeq(DOMAIN present))

\* An output that nothing was added to is an error.
Complete(outputs) ==
  IF \E k \in DOMAIN outputs : outputs[k].first THEN <<>>
  ELSE [k \in DOMAIN outputs |-> outputs[k].out]

\* All missing inputs at once from slices held in memory; <<>> when they cannot
\* be reconstructed.
ReconstructGlobal(level, size, total, present, missing, offered) ==
  LET n == Len(missing)
      exponents == [r \in 1..Len(offered) |-> offered[r].exponent]
      inverse == Invert(Matrix(missing, exponents))
  IN  IF n > Len(offered) \/ inverse = Singular THEN <<>>
      ELSE Complete(
             [k \in 1..n |->
                OutputSlice(level, size, present, offered, inverse,
                            [i \in DOMAIN present |->
                               Combined(inverse, exponents, k, i, total)], k)])

NoLimit == -1

\* The memory limit, cut to the slice and to a multiple of four; 0 stands for
\* a limit that is refused.
RepairChunkSize(size, memory) ==
  IF memory = NoLimit THEN size
  ELSE LET capped == Lesser(memory, size)
       IN  IF capped < 4 THEN IF size <= 4 THEN capped ELSE 0
           ELSE capped - (capped % 4)

\* Fault for testing: the last word is not read.
WordButLast(slice, w) ==
  IF 2 * w < Len(slice) THEN slice[2 * w - 1] + ByteCount * slice[2 * w] ELSE 0

\* A word of a slice; what does not have two bytes counts as zero.
Word(slice, w) ==
  IF 2 * w <= Len(slice) THEN slice[2 * w - 1] + ByteCount * slice[2 * w] ELSE 0

\* The same word by word: one linear system for each.
ReconstructWords(size, present, missing, offered) ==
  LET n == Len(missing)
      exponents == [r \in 1..Len(offered) |-> offered[r].exponent]
      Rhs(w) ==
        [r \in 1..n |->
           FoldLeft(LAMBDA sum, i :
                      Xor(sum, Product(Coefficient(i, exponents[r]),
                                       Word(present[i], w))),
                    Word(offered[r].data, w), SetToSeq(DOMAIN present))]
      Words(w) == Solve(Matrix(missing, exponents), Rhs(w))
  IN  IF n > Len(offered) \/ Words(1) = Singular THEN <<>>
      ELSE [k \in 1..n |->
              [p \in 1..(2 * (size \div 2)) |->
                 LET word == Words((p + 1) \div 2)[k]
                 IN  IF p % 2 = 1 THEN LowByte(word) ELSE HighByte(word)]]
=============================================================================
