----------------------------- MODULE PacketLoader -----------------------------
(***************************************************************************)
(* What is read from the volumes of a set: the parser of src/packets/mod.rs *)
(* that verify and repair use for everything but recovery data, and the    *)
(* one of src/par2_files.rs that only finds where recovery data lies.      *)
(*                                                                         *)
(* A volume is a sequence of cells: a packet is a header cell, which states *)
(* a length in cells, and body cells.  A damaged cell is junk; a damaged   *)
(* length makes the parser read on at another cell.                        *)
(***************************************************************************)
EXTENDS Integers, Sequences, FiniteSets, SequencesExt

CONSTANT MaxLength  \* longest packet in cells (100 MiB)

ASSUME MaxLengthAssumption == MaxLength \in Nat

\* A packet, as far as the commands tell packets apart: its type, the file or
\* exponent it is about and its length in cells.
PacketOf(type, about, length) ==
  [type |-> type, about |-> about, length |-> length]
Header(packet, stated) ==
  [kind |-> "header", packet |-> packet, length |-> stated]
Body(packet) == [kind |-> "body", packet |-> packet]
NoPacket == PacketOf("none", 0, 0)
Junk == [kind |-> "junk", packet |-> NoPacket]

\* What volumes consist of.  A packet has a header, and recovery data has an
\* exponent behind it.
Packet ==
  [type : {"main", "description", "checksums"}, about : Nat, length : Nat \ {0}]
    \cup [type : {"recovery"}, about : Nat, length : Nat \ {0, 1}]
Cell ==
  [kind : {"header"}, packet : Packet, length : Nat \ {0}]
    \cup [kind : {"body"}, packet : Packet] \cup {Junk}

IsHeader(v, p) == p \in DOMAIN v /\ v[p].kind = "header"

\* What the header and the cells it spans hold is one packet: its MD5 agrees.
IsIntact(v, p) ==
  /\ v[p].length = v[p].packet.length
  /\ p + v[p].length - 1 <= Len(v)
  /\ \A q \in (p + 1)..(p + v[p].length - 1) : v[q] = Body(v[p].packet)

\* The next header from p on; 0 if there is none.
NextHeader(v, p) ==
  LET headers == {q \in DOMAIN v : q >= p /\ IsHeader(v, q)}
  IN  IF headers = {} THEN 0 ELSE CHOOSE q \in headers : \A r \in headers : q <= r

Parsed(v, p) == [packet |-> v[p].packet, intact |-> IsIntact(v, p)]

-----------------------------------------------------------------------------
(* parse_packets_with_options, without recovery data *)

\* Fault for testing: what does not start with a header ends the file.
ParsePacketsStrict(v) ==
  LET From[p \in Nat] ==
        IF ~IsHeader(v, p) THEN <<>>
        ELSE IF p + v[p].length - 1 > Len(v) \/ v[p].length > MaxLength THEN <<>>
        ELSE <<Parsed(v, p)>> \o From[p + v[p].length]
  IN  From[1]

\* A cell that is no header is passed over, up to the next one.  A length out
\* of bounds, or beyond the end of the file, ends the file.  Recovery data is
\* checked, and left out when its MD5 does not agree; other packets are not.
ParsePackets(v) ==
  LET From[p \in Nat] ==
        IF p = 0 \/ p > Len(v) THEN <<>>
        ELSE IF ~IsHeader(v, p) THEN From[NextHeader(v, p + 1)]
        ELSE IF p + v[p].length - 1 > Len(v) \/ v[p].length > MaxLength THEN <<>>
        ELSE IF v[p].packet.type = "recovery" /\ ~IsIntact(v, p)
        THEN From[NextHeader(v, p + v[p].length)]
        ELSE <<Parsed(v, p)>> \o From[p + v[p].length]
  IN  From[1]

IsRecovery(entry) == entry.packet.type = "recovery"

\* Recovery slices are counted file by file, equal ones too.
RecoveryCount(entries) ==
  Cardinality({n \in DOMAIN entries : IsRecovery(entries[n])})

\* Of elements with one key the first stays.
KeepFirst(all, key) ==
  LET firsts == SelectSeq([i \in DOMAIN all |-> i],
                  LAMBDA i : \A j \in 1..(i - 1) : key[j] # key[i])
  IN  [n \in DOMAIN firsts |-> all[firsts[n]]]

\* Copies have one MD5 in their header.
CopyIn(packets, entry) == \E e \in packets : e.packet = entry.packet
IsFirst(entries, n) == \A k \in 1..(n - 1) : entries[k].packet # entries[n].packet

\* Of packets with one MD5 in their header the first is kept; recovery slices
\* are not kept at all.
Merged(packets, entries) ==
  packets \cup
    {entries[n] : n \in {k \in DOMAIN entries :
       ~IsRecovery(entries[k]) /\ ~CopyIn(packets, entries[k]) /\ IsFirst(entries, k)}}

-----------------------------------------------------------------------------
(* parse_recovery_slice_metadata *)

DamagedExponent == -1

\* Exponent and place of recovery data; nothing is checked.
Metadata(v, p) ==
  [exponent |-> IF v[p + 1] = Body(v[p].packet) THEN v[p].packet.about
                ELSE DamagedExponent,
   intact |-> IsIntact(v, p)]

\* Fault for testing: a length is taken for that of what follows the header.
ParseMetadataBehind(v) ==
  LET From[p \in Nat] ==
        IF ~IsHeader(v, p) THEN [ok |-> TRUE, slices |-> <<>>]
        ELSE IF v[p].packet.type # "recovery" THEN From[p + v[p].length + 1]
        ELSE IF p + 1 > Len(v) THEN [ok |-> FALSE, slices |-> <<>>]
        ELSE LET rest == From[p + v[p].length + 1]
             IN  [ok |-> rest.ok, slices |-> <<Metadata(v, p)>> \o rest.slices]
      whole == From[1]
  IN  IF whole.ok THEN whole.slices ELSE <<>>

\* From header to header by the lengths they state; the first cell that is no
\* header ends the file, an exponent beyond its end discards the file.
ParseMetadata(v) ==
  LET From[p \in Nat] ==
        IF ~IsHeader(v, p) THEN [ok |-> TRUE, slices |-> <<>>]
        ELSE IF v[p].packet.type # "recovery" THEN From[p + v[p].length]
        ELSE IF p + 1 > Len(v) THEN [ok |-> FALSE, slices |-> <<>>]
        ELSE LET rest == From[p + v[p].length]
             IN  [ok |-> rest.ok, slices |-> <<Metadata(v, p)>> \o rest.slices]
      whole == From[1]
  IN  IF whole.ok THEN whole.slices ELSE <<>>

\* Of slices with one exponent the first is kept, in the order of the files.
Precedes(a, b) == a[1] < b[1] \/ (a[1] = b[1] /\ a[2] < b[2])
MergedSlices(files) ==
  LET places == UNION {{n} \X DOMAIN files[n] : n \in DOMAIN files}
      slice == [a \in places |-> files[a[1]][a[2]]]
  IN  {slice[a] : a \in {b \in places : \A c \in places :
         slice[c].exponent = slice[b].exponent => ~Precedes(c, b)}}
=============================================================================
