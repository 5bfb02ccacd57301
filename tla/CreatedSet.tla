----------------------------- MODULE CreatedSet -----------------------------
(***************************************************************************)
(* What is in the files of a created set, and what repair makes of it:     *)
(* src/create/context.rs and src/create/packet_generator.rs on one side,   *)
(* src/packets/processing.rs and src/repair/context.rs on the other.       *)
(*                                                                         *)
(* A path is a sequence of components, a component a sequence of           *)
(* characters, numbers from 1.                                             *)
(***************************************************************************)
EXTENDS CreateSet, PacketFormat, SetFiles

CONSTANTS
  SourcePaths,  \* paths of the sources, empty ones too
  BasePath,     \* what names are relative to
  Slash,        \* the character between components
  GivenNames,   \* kind of a name on the command line -> the name
  Beside        \* names of other files where the set is

Loader == INSTANCE PacketLoader WITH MaxLength <- 104857600

-----------------------------------------------------------------------------
(* What create knows of a source *)

Joined(components) ==
  FlattenSeq([k \in DOMAIN components |->
                IF k = 1 THEN components[k] ELSE <<Slash>> \o components[k]])

\* The path below the base; of a file elsewhere only its own name.
PacketName(path) ==
  IF BasePath # <<>> /\ IsStrictPrefix(BasePath, path)
  THEN Joined(SubSeq(path, Len(BasePath) + 1, Len(path)))
  ELSE Last(path)

\* Empty sources are left out.
Kept == SelectSeq([k \in DOMAIN job.sizes |-> k], LAMBDA k : job.sizes[k] > 0)
Name(f) == PacketName(SourcePaths[Kept[f]])

\* A file is known by its head, its length and its name.
FileId(f) == <<head[f], Sizes[f], Name(f)>>

BlocksIn(f) == CeilDiv(Sizes[f], Block)
Checksums(f) ==
  [i \in 1..BlocksIn(f) |-> [md5 |-> blockMd5[<<f, i>>],
                             crc |-> blockMd5[<<f, i>>]]]

\* What is kept of a source once it was read.
SourceInfo(f) ==
  [id |-> FileId(f), name |-> Name(f), size |-> Sizes[f],
   md5 |-> fileMd5[f], head |-> head[f], count |-> BlocksIn(f),
   offset |-> BlocksOf(SubSeq(Sizes, 1, f - 1), Block),
   checksums |-> Checksums(f)]

FileIds == [f \in Source |-> FileId(f)]

\* The set is known by its main packet.
SetId == <<"main", Block, Len(Sizes), FileIds>>

-----------------------------------------------------------------------------
(* What create writes *)

MainPacket ==
  Finalized(SetId, "main",
            [sliceSize |-> Block, count |-> Len(Sizes), ids |-> FileIds])
CreatorPacket == Finalized(SetId, "creator", [info |-> <<Field(12, "par2rs")>>])

DescriptionPacket(f) ==
  LET file == SourceInfo(f)
  IN  Finalized(SetId, "description",
                [id |-> file.id, md5 |-> file.md5, head |-> file.head,
                 size |-> file.size, name |-> NameFields(file.name)])
ChecksumsPacket(f) ==
  Finalized(SetId, "checksums",
            [id |-> SourceInfo(f).id, checksums |-> SourceInfo(f).checksums])

\* The slices lie in memory from the first exponent on.
RecoveryPacket(e) ==
  Finalized(SetId, "recovery",
            [exponent |-> e, data |-> Fields(4, <<recovery>>)])

\* A packed main packet, which other programs write, with one file more that
\* is not to be repaired.
PackedPacket ==
  LET plain == [type |-> "packed", setId |-> SetId, md5 |-> Garbage,
                length |-> 84 + 16 * (Len(Sizes) + 1),
                content |-> [subslice |-> 4, sliceSize |-> Block,
                             count |-> Len(Sizes), ids |-> FileIds,
                             others |-> <<"other">>]]
  IN  Serialized([plain EXCEPT !.md5 = HashedFields(plain)])

Critical ==
  <<MainPacket, CreatorPacket>>
    \o [f \in Source |-> DescriptionPacket(f)]
    \o [f \in Source |-> ChecksumsPacket(f)]

\* The packets of an output: what every output has, and its slices.
PacketsIn(path) ==
  Critical \o [k \in 1..Cardinality(disk[path].slices) |->
                 RecoveryPacket(path.exponent + k - 1)]

-----------------------------------------------------------------------------
(* Where create writes it *)

\* The name of the set, or that of the file it is made for.
OutputName ==
  LET o == job.asked
      named == GivenNames[o.named.kind]
  IN  IF Given(o.archive) THEN GivenNames[o.archive[1]]
      ELSE IF o.sources # <<>> THEN named ELSE Append(named, <<"par2">>)

FileName(path) ==
  IF path = Index THEN IndexName(OutputName)
  ELSE VolumeName(OutputName, path.exponent, path.count)

Directory == {FileName(p) : p \in OutputPaths} \cup Beside

\* Packets of a file in the directory; those of other sets are alike.
ForeignPacket ==
  Finalized("other", "recovery",
            [exponent |-> 0, data |-> Fields(4, <<"other">>)])
PacketsOf(name) ==
  IF \E p \in OutputPaths : FileName(p) = name
  THEN PacketsIn(CHOOSE p \in OutputPaths : FileName(p) = name)
  ELSE <<ForeignPacket>>

-----------------------------------------------------------------------------
(* What is read back *)

\* The packets of files in this order.
PacketsOfAll(files) == FlattenSeq([k \in DOMAIN files |-> PacketsOf(files[k])])

\* What can be parsed of them, of packets with one MD5 the first.
Readable(all) ==
  SelectSeq([k \in DOMAIN all |-> Parse(all[k])], LAMBDA r : r.ok)
FirstOfEach(read) ==
  Loader!KeepFirst([k \in DOMAIN read |-> read[k].packet],
                   [k \in DOMAIN read |-> read[k].packet.md5])

\* Packets of all files that are found.
Loaded ==
  FirstOfEach(Readable(PacketsOfAll(
    CollectPar2(IndexName(OutputName), Directory))))

OfType(packets, type) == SelectSeq(packets, LAMBDA p : p.type = type)

\* Of packets about one file the last counts.
About(packets, id) ==
  LET of == SelectSeq(packets, LAMBDA p : p.content.id = id)
  IN  IF of = <<>> THEN <<>> ELSE <<Last(of).content>>

\* Fault for testing: a last block that is not full is not counted.
SliceCountFloor(size, slice) == size \div slice

SliceCount(size, slice) == CeilDiv(size, slice)

\* The files in the order of the main packet, each with the number of its first
\* slice among all; a file without description ends the command.
ExtractSet(packets) ==
  LET mains == OfType(packets, "main")
      main == Last(mains).content
      described == OfType(packets, "description")
      Files[k \in 0..Len(main.ids)] ==
        IF k = 0 THEN [files |-> <<>>, slices |-> 0]
        ELSE LET d == Head(About(described, main.ids[k]))
                 n == SliceCount(d.size, main.sliceSize)
                 sofar == Files[k - 1]
             IN  [files |-> Append(sofar.files,
                              [id |-> d.id, name |-> NameOf(d.name),
                               size |-> d.size, md5 |-> d.md5, head |-> d.head,
                               count |-> n, offset |-> sofar.slices]),
                  slices |-> sofar.slices + n]
  IN  IF \/ mains = <<>> \/ described = <<>>
         \/ \E k \in DOMAIN main.ids : About(described, main.ids[k]) = <<>>
      THEN Failed
      ELSE [ok |-> TRUE, setId |-> Last(mains).setId,
            sliceSize |-> main.sliceSize, files |-> Files[Len(main.ids)].files]

\* Checksums of the slices of a file, as the block table is built from them.
ExtractChecksums(packets, id) ==
  LET found == About(OfType(packets, "checksums"), id)
  IN  IF found = <<>> THEN <<>> ELSE Head(found).checksums

RecoveryCount(packets) == Len(OfType(packets, "recovery"))

\* Block size and number of blocks, as the verify command reports them.
MainStats(packets) ==
  LET main == Head(OfType(packets, "main")).content
      of == {p.content : p \in ToSet(OfType(packets, "description"))}
  IN  <<main.sliceSize,
        MapThenSumSet(LAMBDA d : SliceCount(d.size, main.sliceSize), of)>>

\* With the number of names, the length of all files and the slices.
SetStats(packets) ==
  LET of == {p.content : p \in ToSet(OfType(packets, "description"))}
  IN  [files |-> Cardinality({NameOf(d.name) : d \in of}),
       blockSize |-> MainStats(packets)[1], blocks |-> MainStats(packets)[2],
       size |-> MapThenSumSet(LAMBDA d : d.size, of),
       recovery |-> RecoveryCount(packets)]
=============================================================================
