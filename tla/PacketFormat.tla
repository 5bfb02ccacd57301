---------------------------- MODULE PacketFormat ----------------------------
(***************************************************************************)
(* The packets of a set as they lie in a file: how src/create builds them, *)
(* and how src/packets reads and verifies them.                            *)
(*                                                                         *)
(* A packet is a sequence of fields, each with its width in bytes.  An MD5 *)
(* is the sequence of fields it was computed over.  Names are padded, and  *)
(* so are sequences of words of four characters; 0 is the null character.  *)
(***************************************************************************)
EXTENDS Integers, Sequences, SequencesExt

CONSTANT Garbage  \* what a damaged or missing field holds

Field(width, value) == [width |-> width, value |-> value]
Fields(width, values) == [k \in DOMAIN values |-> Field(width, values[k])]
Width(fields) == FoldSeq(LAMBDA f, n : f.width + n, 0, fields)

-----------------------------------------------------------------------------
(* Writing *)

\* The checksums of the slices of a file: MD5 and CRC32 of each.
ChecksumFields(checksums) ==
  [k \in 1..(2 * Len(checksums)) |->
     IF k % 2 = 1 THEN Field(16, checksums[(k + 1) \div 2].md5)
     ELSE Field(4, checksums[k \div 2].crc)]

MainBody(c) ==
  <<Field(8, c.sliceSize), Field(4, c.count)>> \o Fields(16, c.ids)
CreatorBody(c) == c.info
DescriptionBody(c) ==
  <<Field(16, c.id), Field(16, c.md5), Field(16, c.head), Field(8, c.size)>>
    \o c.name
ChecksumsBody(c) == <<Field(16, c.id)>> \o ChecksumFields(c.checksums)
RecoveryBody(c) == <<Field(4, c.exponent)>> \o c.data
PackedBody(c) ==
  <<Field(8, c.subslice), Field(8, c.sliceSize), Field(4, c.count)>>
    \o Fields(16, c.ids) \o Fields(16, c.others)

BodyFields(type, c) ==
  CASE type = "main" -> MainBody(c)
    [] type = "creator" -> CreatorBody(c)
    [] type = "description" -> DescriptionBody(c)
    [] type = "checksums" -> ChecksumsBody(c)
    [] type = "recovery" -> RecoveryBody(c)
    [] type = "packed" -> PackedBody(c)

Serialized(p) ==
  <<Field(8, "PAR2 PKT"), Field(8, p.length), Field(16, p.md5),
    Field(16, p.setId), Field(16, p.type)>> \o BodyFields(p.type, p.content)

\* The MD5 covers what follows it: set, type and body.
HashedFields(p) == SubSeq(Serialized(p), 4, 5 + Len(BodyFields(p.type, p.content)))

\* Fault for testing: the number of files is left out of the length.
StatedLengthShort(type, c) ==
  CASE type = "main" -> 64 + 8 + 16 * Len(c.ids)
    [] type = "creator" -> 64 + Width(c.info)
    [] type = "description" -> 120 + Width(c.name)
    [] type = "checksums" -> 80 + 20 * Len(c.checksums)
    [] type = "recovery" -> 68 + Width(c.data)

\* Lengths are stated before the packet is serialized.
StatedLength(type, c) ==
  CASE type = "main" -> 64 + 8 + 4 + 16 * Len(c.ids)
    [] type = "creator" -> 64 + Width(c.info)
    [] type = "description" -> 120 + Width(c.name)
    [] type = "checksums" -> 80 + 20 * Len(c.checksums)
    [] type = "recovery" -> 68 + Width(c.data)

\* A packet is serialized without MD5, hashed, and the MD5 put in place.
Finalized(setId, type, c) ==
  LET plain == [type |-> type, setId |-> setId, content |-> c,
                length |-> StatedLength(type, c), md5 |-> Garbage]
  IN  Serialized([plain EXCEPT !.md5 = HashedFields(plain)])

\* A name in words: at least one null, and more up to a full word.
NameFields(name) ==
  LET at(k) == IF k <= Len(name) THEN name[k] ELSE 0
  IN  [w \in 1..(Len(name) \div 4 + 1) |->
         Field(4, [k \in 1..4 |-> at(4 * (w - 1) + k)])]

-----------------------------------------------------------------------------
(* Reading *)

\* The first fields that make up length bytes; a field that is cut, or is not
\* there, is garbage.
Buffer(fields, length) ==
  LET whole == {k \in 0..Len(fields) : Width(SubSeq(fields, 1, k)) <= length}
      n == CHOOSE k \in whole : \A j \in whole : j <= k
      rest == length - Width(SubSeq(fields, 1, n))
  IN  SubSeq(fields, 1, n) \o (IF rest = 0 THEN <<>> ELSE <<Field(rest, Garbage)>>)

\* The fields from k on are there, n of each of the widths in turn.
HasFields(fields, k, widths, n) ==
  \A i \in 0..(n * Len(widths) - 1) :
    /\ k + i <= Len(fields)
    /\ fields[k + i].width = widths[(i % Len(widths)) + 1]

ValuesAt(fields, k, n) == [i \in 1..n |-> fields[k + i - 1].value]
Rest(fields, k) == SubSeq(fields, k, Len(fields))

Failed == [ok |-> FALSE]
Read(c) == [ok |-> TRUE, content |-> c]

\* As many file ids as the length has room for, whatever the count says.
ReadMain(b, length) ==
  LET n == (length - 72) \div 16
  IN  IF HasFields(b, 6, <<8, 4>>, 1) /\ HasFields(b, 8, <<16>>, n)
      THEN Read([sliceSize |-> b[6].value, count |-> b[7].value,
                 ids |-> ValuesAt(b, 8, n)])
      ELSE Failed

\* Here the count tells the files of the set from the others.
ReadPacked(b, length) ==
  IF ~HasFields(b, 6, <<8, 8, 4>>, 1) \/ b[8].value = Garbage THEN Failed
  ELSE LET n == b[8].value
           others == (length - 84 - 16 * n) \div 16
       IN  IF others >= 0 /\ HasFields(b, 9, <<16>>, n + others)
           THEN Read([subslice |-> b[6].value, sliceSize |-> b[7].value,
                      count |-> n, ids |-> ValuesAt(b, 9, n),
                      others |-> ValuesAt(b, 9 + n, others)])
           ELSE Failed

ReadDescription(b) ==
  IF HasFields(b, 6, <<16, 16, 16, 8>>, 1)
  THEN Read([id |-> b[6].value, md5 |-> b[7].value, head |-> b[8].value,
             size |-> b[9].value, name |-> Rest(b, 10)])
  ELSE Failed

ReadChecksums(b, length) ==
  LET n == (length - 80) \div 20
  IN  IF HasFields(b, 6, <<16>>, 1) /\ HasFields(b, 7, <<16, 4>>, n)
      THEN Read([id |-> b[6].value,
                 checksums |-> [k \in 1..n |-> [md5 |-> b[5 + 2 * k].value,
                                                crc |-> b[6 + 2 * k].value]]])
      ELSE Failed

ReadRecovery(b) ==
  IF HasFields(b, 6, <<4>>, 1)
  THEN Read([exponent |-> b[6].value, data |-> Rest(b, 7)])
  ELSE Failed

ReadCreator(b) == Read([info |-> Rest(b, 6)])

ReadBody(type, b, length) ==
  CASE type = "main" -> ReadMain(b, length)
    [] type = "packed" -> ReadPacked(b, length)
    [] type = "description" -> ReadDescription(b)
    [] type = "checksums" -> ReadChecksums(b, length)
    [] type = "recovery" -> ReadRecovery(b)
    [] type = "creator" -> ReadCreator(b)
    [] OTHER -> Failed

ParseBuffer(b, length, type) ==
  LET body == ReadBody(type, b, length)
  IN  IF body.ok
      THEN [ok |-> TRUE,
            packet |-> [type |-> type, setId |-> b[4].value, md5 |-> b[3].value,
                        length |-> length, content |-> body.content]]
      ELSE Failed

\* A packet read from the buffer that its length asks for; types that are not
\* known are passed over.
Parse(fields) ==
  LET length == fields[2].value
  IN  ParseBuffer(Buffer(fields, length), length, fields[5].value)

(* Verifying.  Each type has its own list of what the MD5 covers and its own
   least length. *)

\* The MD5 is right and the packet, written again, has its length.
IsIntact(p, least, body) ==
  /\ p.length >= least
  /\ p.md5 = <<Field(16, p.setId), Field(16, p.type)>> \o body
  /\ p.length = Width(Serialized(p))

VerifyMain(p) ==
  LET c == p.content
  IN  IsIntact(p, 72, <<Field(8, c.sliceSize), Field(4, c.count)>>
                        \o Fields(16, c.ids))
VerifyPacked(p) ==
  LET c == p.content
  IN  IsIntact(p, 64, <<Field(8, c.subslice), Field(8, c.sliceSize),
                        Field(4, c.count)>>
                        \o Fields(16, c.ids) \o Fields(16, c.others))
VerifyCreator(p) == IsIntact(p, 64, p.content.info)
VerifyChecksums(p) ==
  IsIntact(p, 64, <<Field(16, p.content.id)>>
                    \o ChecksumFields(p.content.checksums))
VerifyRecovery(p) ==
  IsIntact(p, 64, <<Field(4, p.content.exponent)>> \o p.content.data)

\* Hashed as it is written; it is written without the magic, which is added.
VerifyDescription(p) ==
  /\ p.length >= 120 /\ p.type = "description"
  /\ p.length = Width(Serialized(p))
  /\ p.md5 = HashedFields(p)

Verify(p) ==
  CASE p.type = "main" -> VerifyMain(p)
    [] p.type = "packed" -> VerifyPacked(p)
    [] p.type = "description" -> VerifyDescription(p)
    [] p.type = "recovery" -> VerifyRecovery(p)
    [] p.type = "creator" -> VerifyCreator(p)
    [] p.type = "checksums" -> VerifyChecksums(p)

\* The name up to the nulls at its end.
NameOf(words) ==
  LET name == FlattenSeq([w \in DOMAIN words |-> words[w].value])
      ends == {k \in 0..Len(name) : \A j \in (k + 1)..Len(name) : name[j] = 0}
  IN  SubSeq(name, 1, CHOOSE k \in ends : \A j \in ends : k <= j)
=============================================================================
