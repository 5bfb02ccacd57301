------------------------------- MODULE MCVerify -------------------------------
(* Sets for TLC: bytes of two bits and checksums of four, so that many blocks
   have equal checksums; blocks of four bytes, files with a short last block. *)
EXTENDS VerifyProperties

\* The checksum of this instance slides as it should.
ASSUME ChecksumAssumption == SlidesRight

Long == <<1, 2, 3, 1,  2, 0, 1, 3,  0, 3, 2, 2,  3, 1>>
Whole3 == SubSeq(Long, 1, 12)
Short == <<2, 2, 1>>
Twice == <<1, 2, 1, 2,  1, 2, 1, 2,  3, 3, 0, 1>>

OnDisk(bytes) == [exists |-> TRUE, bytes |-> bytes]
Nowhere == [exists |-> FALSE, bytes |-> <<>>]

\* One edit of a file: a byte changed, inserted or deleted, the file cut off or
\* with something before or behind it.
Edits(c) ==
  {[c EXCEPT ![k] = (@ + 1) % 4] : k \in DOMAIN c}
    \cup {InsertAt(c, k, 3) : k \in DOMAIN c}
    \cup {RemoveAt(c, k) : k \in DOMAIN c}
    \cup {SubSeq(c, 1, n) : n \in 0..Len(c)}
    \cup {pre \o c : pre \in {<<0>>, <<1, 2, 3, 1>>}}
    \cup {c \o post : post \in {<<0>>, <<2, 0, 1, 3>>}}
    \cup {SubSeq(c, 5, Len(c)) \o SubSeq(c, 1, 4)}

\* Files of whole cells: blocks of Whole3 in any order, and another one.
CellFiles ==
  {FlattenSeq([k \in 1..n |-> (Cut(Whole3) \o <<<<3, 3, 3, 3>>>>)[cells[k]]]) :
     n \in 1..4, cells \in [1..4 -> 1..4]}

-----------------------------------------------------------------------------

Main == PacketOf("main", 0, 2)
Description(f) == PacketOf("description", f, 2)
Checksums(f) == PacketOf("checksums", f, 2)
Recovery(e) == PacketOf("recovery", e, 3)

Cells(p) ==
  <<Header(p, p.length)>> \o [k \in 1..(p.length - 1) |-> Body(p)]
Volume(ps) == FlattenSeq([k \in DOMAIN ps |-> Cells(ps[k])])

Critical(n) ==
  <<Main>> \o FlattenSeq([f \in 1..n |-> <<Description(f), Checksums(f)>>])
Plain(n) == <<Volume(Critical(n)), Volume(<<Recovery(0), Recovery(1)>>)>>

\* One damage of a volume: a cell overwritten, inserted or lost, the end cut
\* off, a length that is too long or out of bounds.
Damages(v) ==
  {[v EXCEPT ![k] = Junk] : k \in DOMAIN v}
    \cup {InsertAt(v, k, Junk) : k \in DOMAIN v}
    \cup {RemoveAt(v, k) : k \in DOMAIN v}
    \cup {SubSeq(v, 1, n) : n \in 0..Len(v)}
    \cup {[v EXCEPT ![k].length = n] :
            k \in {p \in DOMAIN v : IsHeader(v, p)}, n \in {4, MaxLength + 1}}

\* All but the main packet, whose damage is only modelled as its loss
WithMain(volumes) ==
  {vs \in volumes : \A v \in ToSet(vs) : \A p \in DOMAIN v :
     IsHeader(v, p) /\ v[p].packet = Main => IsIntact(v, p)}

-----------------------------------------------------------------------------

Job(volumes, data, disk, skipping, purge) ==
  [volumes |-> volumes, data |-> data, disk |-> disk, skipping |-> skipping,
   purge |-> purge]

ScanJobs ==
  {Job(Plain(1), <<c>>, <<OnDisk(e)>>, skipping, TRUE) :
     c \in {Long}, e \in Edits(Long), skipping \in BOOLEAN}
  \cup {Job(Plain(1), <<c>>, <<OnDisk(c)>>, skipping, FALSE) :
          c \in {Long, Short, Twice, <<>>}, skipping \in BOOLEAN}
  \cup {Job(Plain(2), <<Short, Long>>, disk, FALSE, FALSE) :
          disk \in {<<OnDisk(Short), Nowhere, OnDisk(Long)>>,
                    <<Nowhere, OnDisk(Long \o Short)>>,
                    <<OnDisk(Long), OnDisk(Short), OnDisk(Tail(Long))>>,
                    <<Nowhere, Nowhere, OnDisk(Short \o Long)>>}}
  \cup {Job(Plain(1), <<Twice>>, <<OnDisk(e)>>, FALSE, FALSE) :
          e \in Edits(Twice)}
  \cup {Job(Plain(2), <<Short, Long>>, <<OnDisk(Short), Nowhere, OnDisk(e)>>,
            FALSE, FALSE) : e \in Edits(Short \o Long)}

LoadVolumes ==
  LET mixed == Volume(<<Recovery(0)>> \o Critical(1) \o <<Recovery(1)>>)
      recovery == Volume(<<Recovery(1), Recovery(2)>>)
  IN  {<<v, recovery>> : v \in Damages(mixed)}
        \cup {<<mixed, v>> : v \in Damages(recovery)}
        \cup {<<recovery, v>> : v \in Damages(Volume(Critical(1)))}
        \cup {<<v, Volume(Critical(1))>> : v \in Damages(Volume(Critical(1)))}

LoadJobs ==
  {Job(vs, <<Short>>, <<d>>, FALSE, TRUE) :
     vs \in WithMain(LoadVolumes), d \in {OnDisk(Short), Nowhere}}

CellJobs ==
  {Job(Plain(1), <<Whole3>>, disk, FALSE, FALSE) :
     disk \in {<<OnDisk(c)>> : c \in CellFiles}
            \cup {<<Nowhere, OnDisk(c)>> : c \in CellFiles}}

MCJobs == CellJobs \cup ScanJobs \cup LoadJobs
=============================================================================
