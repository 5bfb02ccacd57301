----------------------------- MODULE Par1Format -----------------------------
(***************************************************************************)
(* What is in a PAR1 recovery file and what is read of it:                 *)
(* src/par1/parser.rs and src/par1/types.rs.                               *)
(*                                                                         *)
(* A file is a header of 96 bytes and the parts of its body one after the  *)
(* other, each with its length; the header says where the list of files    *)
(* and the recovery data begin.  A hash is what was hashed.                *)
(***************************************************************************)
EXTENDS SequencesExt, FiniteSetsExt, Integers

HeaderSize == 96
FixedSize == 56   \* an entry of the list without its name
Version == 65536
Protected == 1    \* status of a file that the recovery data covers

\* Everything behind the control hash.
Hashed(file) ==
  <<file.setHash, file.number, file.count, file.listAt, file.listSize,
    file.dataAt, file.dataSize, file.body>>
Finished(file) == [file EXCEPT !.control = Hashed(file)]

LengthTo(file, k) ==
  FoldLeft(LAMBDA n, part : n + part.size, HeaderSize, SubSeq(file.body, 1, k))
FileLength(file) == LengthTo(file, Len(file.body))

\* The part that lies at a place with a length; other bytes mean nothing.
PartAt(file, at, size) ==
  LET here == {k \in DOMAIN file.body : /\ LengthTo(file, k - 1) = at
                                        /\ file.body[k].size = size}
  IN  IF here = {} THEN <<>> ELSE file.body[CHOOSE k \in here : TRUE].is

-----------------------------------------------------------------------------
(* Recovery files, as other programs make them *)

EntryOf(name, status, content) ==
  [size |-> FixedSize + 2 * Len(name), status |-> status,
   length |-> Len(content), full |-> content, head |-> content, name |-> name]

\* The files of a set, and one that is listed but not protected.  Names are
\* numbers here, some with a zero behind them.
ListFor(data) ==
  [f \in 1..(Len(data) + 1) |->
     IF f > Len(data) THEN EntryOf(<<f>>, 0, <<>>)
     ELSE EntryOf(IF f % 2 = 1 THEN <<f, 0>> ELSE <<f>>, Protected, data[f])]

\* With the list before or behind the data.
Made(files, number, data, dataFirst) ==
  LET listSize == FoldLeft(LAMBDA n, e : n + e.size, 0, files)
      list == [size |-> listSize, is |-> files]
      slice == [size |-> Len(data), is |-> data]
  IN  Finished(
        [magic |-> "PAR", version |-> Version, program |-> 1,
         control |-> <<>>, setHash |-> <<"set", files>>,
         number |-> number, count |-> Len(files),
         listAt |-> HeaderSize + (IF dataFirst THEN Len(data) ELSE 0),
         listSize |-> listSize,
         dataAt |-> HeaderSize + (IF dataFirst THEN 0 ELSE listSize),
         dataSize |-> Len(data),
         body |-> IF dataFirst THEN <<slice, list>> ELSE <<list, slice>>])

-----------------------------------------------------------------------------
(* Reading *)

NoSet == [ok |-> FALSE]

HeaderIsValid(file) ==
  LET listEnd == file.listAt + file.listSize
      dataEnd == file.dataAt + file.dataSize
  IN  /\ file.magic = "PAR" /\ file.version = Version
      /\ file.control = Hashed(file)
      /\ file.number < 256
      /\ file.count > 0 /\ file.listSize > 0
      /\ file.listAt >= HeaderSize /\ listEnd <= FileLength(file)
      /\ file.dataSize > 0 =>
           /\ file.dataAt >= HeaderSize /\ dataEnd <= FileLength(file)
           /\ file.dataAt \notin file.listAt .. (listEnd - 1)
           /\ file.listAt \notin file.dataAt .. (dataEnd - 1)

\* Names are padded with zeros.
DecodedName(units) ==
  SubSeq(units, 1, Max({0} \cup {k \in DOMAIN units : units[k] # 0}))

\* As many entries as there are to be, and nothing behind the last.
ListIsValid(list, count, size) ==
  LET Left(k) == size - FoldLeft(LAMBDA n, e : n + e.size, 0, SubSeq(list, 1, k))
  IN  /\ Len(list) = count /\ Left(count) = 0
      /\ \A k \in DOMAIN list :
           /\ list[k].size > FixedSize /\ list[k].size <= Left(k - 1)
           /\ (list[k].size - FixedSize) % 2 = 0

ParseSet(file) ==
  LET list == PartAt(file, file.listAt, file.listSize)
  IN  IF ~HeaderIsValid(file) \/ ~ListIsValid(list, file.count, file.listSize)
      THEN NoSet
      ELSE [ok |-> TRUE, setHash |-> file.setHash, number |-> file.number,
            files |-> [k \in DOMAIN list |->
                         [status |-> list[k].status, length |-> list[k].length,
                          full |-> list[k].full, head |-> list[k].head,
                          name |-> DecodedName(list[k].name)]],
            volume |-> IF file.number = 0 THEN <<>>
                       ELSE <<[exponent |-> file.number - 1,
                               data |-> PartAt(file, file.dataAt,
                                               file.dataSize)]>>]

IsProtected(entry) == entry.status % 2 = Protected
=============================================================================
