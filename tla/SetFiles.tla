------------------------------ MODULE SetFiles ------------------------------
(***************************************************************************)
(* Which files of a directory belong to a set: src/par2_files.rs, with the *)
(* names that src/create/context.rs and src/create/file_naming.rs give.    *)
(*                                                                         *)
(* A name is the sequence of what stands between its dots: a text as <<t>>,*)
(* the end of a PAR1 volume as <<"p", n>>, what names a PAR2 volume as     *)
(* <<"vol", first, count>>.  A directory is a set of names.                *)
(***************************************************************************)
EXTENDS SequencesExt

IsVolume(part) == Len(part) = 3
IsPar2(part) == part \in {<<"par2">>, <<"PAR2">>}
IsPar1(part) == part = <<"par">> \/ Len(part) = 2

\* A dot at the beginning starts no extension.
HasExtension(name) == Len(name) > 1 /\ Front(name) # << <<"">> >>

HasPar2Extension(name) == HasExtension(name) /\ IsPar2(Last(name))
HasPar1Extension(name) == HasExtension(name) /\ IsPar1(Last(name))

Format(name) ==
  IF HasPar2Extension(name) THEN "par2"
  ELSE IF HasPar1Extension(name) THEN "par1" ELSE "none"

\* The name without what the condition holds of at its end.
Without(name, isEnding) ==
  IF Len(name) > 1 /\ isEnding THEN Front(name) ELSE name

Par1Stem(name) == Without(name, IsPar1(Last(name)))
Par2Stem(name) ==
  LET base == Without(name, IsPar2(Last(name)))
  IN  Without(base, IsVolume(Last(base)))

-----------------------------------------------------------------------------
(* Names that create gives *)

FileStem(name) == IF HasExtension(name) THEN Front(name) ELSE name

IndexName(output) == Append(FileStem(output), <<"par2">>)
VolumeName(output, first, count) ==
  FileStem(output) \o << <<"vol", first, count>>, <<"par2">> >>

-----------------------------------------------------------------------------
(* Names that verify and repair look for *)

\* The index file that is meant, if there is one.
ResolveArgument(name, directory) ==
  LET named == IF HasPar2Extension(name) THEN <<name>> ELSE <<>>
      suffixed == << Append(name, <<"par2">>), Append(name, <<"PAR2">>) >>
  IN  SelectSeq(named \o suffixed, LAMBDA n : n \in directory)

Par2FilesIn(directory, besides) ==
  {n \in directory : HasPar2Extension(n)} \ {besides}

\* Names of one stem in the order of their characters: capital letters first,
\* and the numbers of volumes are written with the same number of digits.
Place(name) ==
  IF IsVolume(name[Len(name) - 1])
  THEN <<1, name[Len(name) - 1][2], name[Len(name) - 1][3]>>
  ELSE <<0, IF Last(name) = <<"PAR2">> THEN 0 ELSE 1, 0>>
Sorted(names) ==
  SetToSortSeq(names, LAMBDA m, n :
    LET a == Place(m)  b == Place(n)
    IN  \E k \in 1..3 : a[k] < b[k] /\ \A j \in 1..(k - 1) : a[j] = b[j])

CollectPar2(name, directory) ==
  Sorted({name} \cup {n \in Par2FilesIn(directory, name) :
                        Par2Stem(n) = Par2Stem(name)})

CollectPar1(name, directory) ==
  {n \in directory : n = name \/ /\ HasPar1Extension(n)
                                 /\ Par1Stem(n) = Par1Stem(name)}

\* The files a command opens when it is given a name.
FilesFor(name, directory) ==
  IF Format(name) = "par1" THEN CollectPar1(name, directory)
  ELSE LET found == ResolveArgument(name, directory)
       IN  IF found = <<>> THEN {}
           ELSE ToSet(CollectPar2(Head(found), directory))
=============================================================================
