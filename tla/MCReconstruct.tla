---------------------------- MODULE MCReconstruct ----------------------------
(* Sets for TLC over the field of 16 elements: words of four bits, bytes of
   two, and logarithms up to 15, which has the factors 3 and 5 as 65535 has. *)
EXTENDS ReconstructionProperties, TLC

Content(n, i) == [p \in 1..n |-> (3 * i + p * p + p * i + 1) % 4]

Job(sizes, missing, exponents, memory, level) ==
  [slices |-> [i \in DOMAIN sizes |-> Content(sizes[i], i)],
   there |-> sizes, size |-> 12, missing |-> missing,
   exponents |-> exponents, memory |-> memory, level |-> level,
   packed |-> level # "none"]

AtMost(n, S) == {m \in SUBSET S : Cardinality(m) <= n}

\* Enough recovery slices and too few, in order and out of order; exponents
\* that differ by five make some choices singular.
Exponents == {<<1>>, <<0, 5, 1>>, <<3, 2>>}

\* No limit, limits that cut a slice in two or three, and limits refused.
MCJobs ==
  {Job(<<6, 12, 3, 12>>, m, e, limit, level) :
     m \in AtMost(2, 0..3), e \in Exponents, limit \in {NoLimit, 4, 9},
     level \in Levels}
  \cup {Job(<<12, 12, 11>>, m, <<2, 1, 7>>, NoLimit, level) :
          m \in AtMost(3, 0..2), level \in {"avx2", "portable"}}
  \cup {Job(<<12, 12, 6, 3, 12>>, {0, 2, 4}, e, 8, "avx2") :
          e \in {<<0, 5, 1>>, <<1, 0, 5>>, <<5, 0, 10>>}}
  \cup {Job(<<12, 12>>, {0}, <<1>>, limit, "avx2") : limit \in {0, 3}}
  \cup {[Job(<<12, 12, 12>>, {0}, <<1>>, 4, "avx2") EXCEPT !.there = t] :
          t \in {<<12, 12, 6>>, <<12, 12, 0>>}}

\* A last block that is odd and longer than a chunk
OddTailJobs ==
  {Job(<<5, 12, 12>>, {1}, <<2>>, 4, level) : level \in Levels}

\* The theorems about reconstruction take these laws for granted.
ASSUME FieldLaws /\ WordLaws /\ CodesAreWords
ASSUME \A j \in MCJobs : WholeWords(j)
=============================================================================
