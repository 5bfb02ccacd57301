---------------------------- MODULE MatrixDecoder ----------------------------
(***************************************************************************)
(* The ReedSolomon type of src/reed_solomon/codec.rs: one matrix for the   *)
(* missing inputs and for further recovery slices, solved in place.        *)
(*                                                                         *)
(* Its columns are the present inputs in order, then the recovery slices   *)
(* that stand in for the missing inputs; its rows are the missing inputs,  *)
(* then the recovery slices to compute.  A row of the system carries its   *)
(* right part, the unknowns, before its left part.                         *)
(***************************************************************************)
EXTENDS ReedSolomon

\* Every input needs a base value.
SetInput(decoder, status) == [decoder EXCEPT !.input = status]
BasesSuffice(status) == Len(status) > 0 => BaseLog[Len(status) - 1] < Limit

SetOutput(decoder, present, exponent) ==
  [decoder EXCEPT
     !.outputs = Append(@, [present |-> present, exponent |-> exponent])]

SetOutputRange(decoder, present, low, high) ==
  FoldLeft(LAMBDA d, k : SetOutput(d, present, low + k - 1),
           decoder, UpTo(high - low + 1))

NewDecoder == [input |-> <<>>, outputs |-> <<>>]

\* The inputs, then one output after the other.
BuildDecoder(status, outputs) ==
  FoldLeft(LAMBDA d, o : SetOutput(d, o.present, o.exponent),
           SetInput(NewDecoder, status), outputs)

-----------------------------------------------------------------------------

\* Numbers of the inputs whose state is as given, in order.
InputsThat(decoder, present) ==
  SelectSeq([i \in DOMAIN decoder.input |-> i - 1],
            LAMBDA i : decoder.input[i + 1] = present)

ExponentsThat(decoder, present) ==
  LET rows == SelectSeq(decoder.outputs, LAMBDA o : o.present = present)
  IN  [k \in DOMAIN rows |-> rows[k].exponent]

Coefficients(inputs, exponent) ==
  [k \in DOMAIN inputs |-> Coefficient(inputs[k], exponent)]

Unit(n, r) == [k \in 1..n |-> IF k = r THEN 1 ELSE 0]

\* Row for the r-th missing input, from the r-th present recovery slice.
InputRow(decoder, r) ==
  LET e == ExponentsThat(decoder, TRUE)[r]
      missing == InputsThat(decoder, FALSE)
      computed == ExponentsThat(decoder, FALSE)
  IN  Coefficients(missing, e) \o Zeros(Len(computed))
        \o Coefficients(InputsThat(decoder, TRUE), e)
        \o Unit(Len(missing), r)

\* Row for the r-th recovery slice to compute.
OutputRow(decoder, r) ==
  LET e == ExponentsThat(decoder, FALSE)[r]
      missing == InputsThat(decoder, FALSE)
      computed == ExponentsThat(decoder, FALSE)
  IN  Coefficients(missing, e) \o Unit(Len(computed), r)
        \o Coefficients(InputsThat(decoder, TRUE), e) \o Zeros(Len(missing))

BuildMatrix(decoder) ==
  [r \in 1..Len(InputsThat(decoder, FALSE)) |-> InputRow(decoder, r)]
    \o [r \in 1..Len(ExponentsThat(decoder, FALSE)) |-> OutputRow(decoder, r)]

GaussEliminate(rows, columns) == FoldLeft(GaussColumn, rows, UpTo(columns))

CanCompute(decoder) ==
  LET missing == Len(InputsThat(decoder, FALSE))
  IN  /\ BasesSuffice(decoder.input)
      /\ missing <= Len(ExponentsThat(decoder, TRUE))
      /\ missing + Len(ExponentsThat(decoder, FALSE)) > 0

\* The left parts of the rows when the unknowns are solved; <<>> on error.
Compute(decoder) ==
  LET missing == Len(InputsThat(decoder, FALSE))
      outputs == missing + Len(ExponentsThat(decoder, FALSE))
      rows == GaussEliminate(BuildMatrix(decoder), missing)
  IN  IF ~CanCompute(decoder) \/ rows = Singular THEN <<>>
      ELSE [r \in DOMAIN rows |->
              SubSeq(rows[r], outputs + 1, Len(rows[r]))]
=============================================================================
