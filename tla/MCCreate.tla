------------------------------ MODULE MCCreate ------------------------------
(* Command lines for TLC: some that differ in how sources are cut and read,
   some that differ in where slices are written, some that differ in the number
   of blocks, and every combination of options on a source of one block. *)
EXTENDS CreateSetProperties, TLC

\* One below the base, one deeper, one elsewhere; names of three to six
\* characters, one a full word
Paths == <<<< <<1>>, <<2, 3, 4>> >>, << <<1>>, <<2>>, <<3, 4, 5, 6>> >>,
           << <<7>>, <<2, 3, 4, 5>> >> >>
Base == << <<1>> >>

\* A set a.b, or of the data file a.b, a set a, and one for a file a.b.p01
Names == [par2 |-> << <<"a">>, <<"b">>, <<"par2">> >>,
          plain |-> << <<"a">>, <<"b">> >>,
          par1 |-> << <<"a">>, <<"b">>, <<"p", 1>> >>]

\* Data files, PAR2 sets with names that begin or end like those, PAR1 sets
Others ==
  LET volume == <<"vol", 0, 1>>
      ends == { << <<"par2">> >>, <<volume, <<"par2">> >>, << <<"PAR2">> >>,
                << <<"par">> >>, << <<"p", 1>> >>, << <<"p", 2>> >> }
      data == { << <<"a">> >>, << <<"a">>, <<"b">> >>, << <<"">>, <<"par2">> >>,
                << <<"b">>, volume >>, << <<"a">>, <<"b">>, volume >> }
      stems == { << <<"b">> >>, << <<"a">>, <<"c">> >>,
                 << <<"a">>, <<"b">>, <<"c">> >>, << <<"c">>, <<"a">>, <<"b">> >> }
  IN  data \cup {s \o e : s \in stems, e \in ends}
        \cup {s \o e : s \in { << <<"a">> >>, << <<"a">>, <<"b">> >> },
                       e \in {<< <<"par">> >>, << <<"p", 2>> >>} }

Of(unit, n) == [unit |-> unit, number |-> <<n>>]
NotANumber == [unit |-> "", number |-> <<>>]

\* Chunks of one cell, of a part of a block, of a block
ReadLines ==
  {[Plain EXCEPT !.sources = s, !.blockSize = <<4 * n>>, !.memory = m,
                 !.recoveryCount = <<1>>] :
     s \in {<<3>>, <<1, 3>>, <<2, 0, 3>>, <<5>>, <<0>>},
     n \in 1..3, m \in {<<1>>, <<3>>, <<>>}}

\* Slices as a number, in percent of three blocks, by size
Amounts ==
  {[Plain EXCEPT !.recoveryCount = <<n>>] : n \in 1..6}
    \cup {[Plain EXCEPT !.redundancy = <<r>>] :
            r \in {Of("", n) : n \in {0, 10, 50, 150}}
                    \cup {Of("k", 12), Of("m", 25)}}

WriteLines ==
  {[a EXCEPT !.sources = <<2, 1>>, !.blockSize = <<4>>,
             !.first = IF o THEN <<>> ELSE <<1>>,
             !.uniform = v[1], !.limited = v[2], !.files = v[3],
             !.overwrite = o] :
     a \in Amounts, o \in BOOLEAN,
     v \in {<<FALSE, FALSE, <<k>>>> : k \in 1..4}
             \cup {<<TRUE, FALSE, <<>>>>, <<FALSE, TRUE, <<>>>>,
                   <<FALSE, FALSE, <<>>>>}}

BlockLines ==
  {[Plain EXCEPT !.sources = s, !.blockCount = <<t>>, !.recoveryCount = <<0>>] :
     s \in UNION {[1..n -> 1..6] : n \in 1..3}, t \in 1..8}

OptionLines ==
  {[Plain EXCEPT !.sources = <<1>>, !.blockCount = b, !.blockSize = s,
                 !.redundancy = r, !.recoveryCount = c, !.uniform = u,
                 !.limited = l, !.files = n] :
     b \in {<<>>, <<0>>, <<3>>}, s \in {<<>>, <<0>>, <<4>>, <<6>>},
     r \in {<<>>, <<Of("", 100)>>, <<Of("g", 99)>>, <<NotANumber>>},
     c \in {<<>>, <<0>>, <<2>>}, u \in BOOLEAN, l \in BOOLEAN,
     n \in {<<>>, <<0>>, <<2>>}}

NameLines ==
  {[Plain EXCEPT !.named = [kind |-> k, size |-> z], !.archive = a,
                 !.sources = s, !.memory = m] :
     k \in {"par2", "par1", "plain"}, z \in {Missing, 0, 1},
     a \in {<<>>, <<"par1">>, <<"plain">>}, s \in {<<>>, <<1>>, <<1, Missing>>},
     m \in {<<>>, <<0>>}}

MCLines == ReadLines \cup WriteLines \cup BlockLines \cup OptionLines
             \cup NameLines

\* Four blocks of several chunks each
ChunkedLines ==
  {[Plain EXCEPT !.sources = <<4>>, !.blockSize = <<8>>, !.memory = <<1>>,
                 !.recoveryCount = <<2>>]}
=============================================================================
