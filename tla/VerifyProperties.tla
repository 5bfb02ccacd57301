--------------------------- MODULE VerifyProperties ---------------------------
(***************************************************************************)
(* What the verify command promises: it reads what there is, finds the     *)
(* blocks that are there, and what it reports can be relied on.            *)
(***************************************************************************)
EXTENDS VerifyCommand

\* The window lies in the buffer and what is recorded is in the set.
TypeOK ==
  /\ pc \in {"load", "open", "fill", "align", "scan", "slide", "conclude",
             "exit"}
  /\ Len(buffer) <= 2 * BlockSize
  /\ position \in 0..(2 * BlockSize)
  /\ crc \in CrcValue \cup {NoCrc}
  /\ \A w \in DOMAIN found : \A e \in found[w] :
       e[2][1] \in DOMAIN set /\ e[2][2] \in DOMAIN set[e[2][1]].slices
  /\ outcome \in {"none", "ok", "repairable", "impossible", "renamed", "error"}

\* The buffer is a window of the file and the rolling checksum is that of the
\* block the scan looks at, however the scan got there: by a step, a jump over
\* a match, a skip or a slide, with reads that come up short
\* (ScanBuffer::slide_and_read, RollingCrcTable::slide_crc_forward).
WindowIsOfFile ==
  pc \in {"align", "scan", "slide"} =>
    /\ buffer = SubSeq(Disk, processed + 1, processed + Len(buffer))
    /\ crc # NoCrc => Fits /\ crc = Crc(WindowAt(position, buffer))

\* What is recorded at an offset is there: the block, or its end up to the
\* zeros it is padded with; after a short read, what was read of it.  Equal
\* checksums do not make equal blocks (insert_matching_blocks).
Padded(bytes, o, n) ==
  PadTo(SubSeq(bytes, o + 1, Least(o + n, Len(bytes))), BlockSize)
RecordsAreTrue ==
  \A w \in DOMAIN found : \A e \in found[w] :
    \E n \in (IF faults = 0 THEN {BlockSize} ELSE 1..BlockSize) :
      Padded(job.disk[w].bytes, e[1], n) = set[e[2][1]].slices[e[2][2]]

\* What has been scanned of the file before the window.
Scanned(w) ==
  IF w < which THEN Len(job.disk[w].bytes)
  ELSE IF w = which /\ pc \in {"scan", "slide"} THEN processed + position
  ELSE 0

\* No block is passed over: every block of the set that lies whole in what has
\* been scanned is recorded, unless an earlier one overlaps it, the described
\* length ends before it or parts are skipped on purpose
\* (scan_single_file_with_progress: slides, jumps, the first buffer).
BlocksAreFound ==
  ~job.skipping /\ faults = 0 =>
    \A w \in DOMAIN job.disk :
      ToScan(w) =>
        LET bytes == job.disk[w].bytes
            limit == IF Extra(w) THEN Len(bytes) ELSE set[w].length
        IN  \A o \in 0..(Scanned(w) - 1) :
              /\ FitsAt(o, bytes)
              /\ (o \div BlockSize) * BlockSize < limit
              /\ \E f \in DOMAIN set :
                   WindowAt(o, bytes) \in ToSet(set[f].slices)
              => \E e \in found[w] : e[1] \in (o - BlockSize + 1)..o

\* A file that is what its description says is found complete and in order,
\* also when parts are skipped on purpose; so is every file with it
\* (determine_file_status_with_metadata).
IntactIsPresent ==
  outcome \in {"ok", "repairable", "impossible", "renamed"} /\ faults = 0 =>
    \A f \in DOMAIN set :
      /\ ToScan(f) /\ job.disk[f].bytes = job.data[f]
      /\ Unknown \notin ToSet(set[f].slices)
      /\ \A g \in DOMAIN set : \A i \in DOMAIN set[f].slices :
           \A j \in DOMAIN set[g].slices :
             set[f].slices[i] = set[g].slices[j] => f = g /\ i = j
      => Status(f) = "present"

\* A file of whole cells, each a block of the set or one that matches nothing,
\* where nothing else matches, not even across cells or as a padded end.
NoBlock == <<-1>>
CellsOf(bytes) ==
  [p \in 1..(Len(bytes) \div BlockSize) |->
     LET cell == WindowAt((p - 1) * BlockSize, bytes)
     IN  IF cell \in Engine!Protected THEN cell ELSE NoBlock]
WholeCells(bytes) ==
  /\ Len(bytes) % BlockSize = 0
  /\ \A o \in 0..(Len(bytes) - 1) :
       o % BlockSize # 0 => Padded(bytes, o, BlockSize) \notin Engine!Protected

\* In such a file the byte-wise scan finds in each cell what GlobalVerify says
\* that a scan finds, for slices of two bytes and more.
CellsSuffice ==
  /\ pc = "exit" /\ HasMain /\ ~job.skipping /\ faults = 0 /\ BlockSize > 1
  => \A w \in DOMAIN job.disk :
       /\ ToScan(w) /\ WholeCells(job.disk[w].bytes)
       /\ ~Extra(w) => set[w].length % BlockSize = 0
       => {e[1] \div BlockSize + 1 : e \in found[w]}
            = Engine!Scan(CellsOf(job.disk[w].bytes),
                 IF Extra(w) THEN Len(job.disk[w].bytes) \div BlockSize
                 ELSE set[w].length \div BlockSize)

-----------------------------------------------------------------------------

\* Volumes in which every header states the length its packet has, none is too
\* long for the loader, and no packet lost so much that this length reaches over
\* the next header.
Whole(v) ==
  \A p \in DOMAIN v : IsHeader(v, p) =>
    /\ v[p].length = v[p].packet.length /\ v[p].length <= MaxLength
    /\ p + v[p].length - 1 <= Len(v)
    /\ \A q \in (p + 1)..(p + v[p].length - 1) : ~IsHeader(v, q)

\* Damage hides only what it hits: an intact packet is loaded (it or another
\* with its checksum), and an intact recovery slice counted, whatever lies
\* before it, as long as headers state their lengths and no packet reaches over
\* the next header (parse_packets_with_options).
IntactPacketsLoad ==
  pc # "load" =>
    \A v \in read :
      Whole(job.volumes[v]) =>
        \A p \in DOMAIN job.volumes[v] :
          LET volumeCells == job.volumes[v]
          IN  IsHeader(volumeCells, p) /\ IsIntact(volumeCells, p) =>
                IF volumeCells[p].packet.type = "recovery"
                THEN [packet |-> volumeCells[p].packet, intact |-> TRUE]
                       \in ToSet(ParsePackets(volumeCells))
                ELSE CopyIn(packets, volumeCells[p])

\* Slices the repair command would work with.
RepairSlices ==
  MergedSlices([v \in read |-> ParseMetadata(job.volumes[v])])

\* Volumes of packets one after the other, none copied into another volume.
InOrder(v) == IsHeader(v, 1) /\ \A p \in DOMAIN v :
  IsHeader(v, p) => p + v[p].length > Len(v) \/ IsHeader(v, p + v[p].length)
IsRecoveryAt(v, p) == IsHeader(v, p) /\ v[p].packet.type = "recovery"
RecoveryPlaces ==
  UNION {{n} \X {p \in DOMAIN job.volumes[n] : IsRecoveryAt(job.volumes[n], p)} :
           n \in read}
NoCopies ==
  \A a, b \in RecoveryPlaces :
    job.volumes[a[1]][a[2]].packet.about = job.volumes[b[1]][b[2]].packet.about
      => a = b

\* A repair that verify promises has the slices it needs: when the volumes are
\* whole and none is a copy, repair finds every slice that verify counted, and
\* more only if slices are damaged (load_par2_packets against
\* parse_recovery_slice_metadata).
PromiseIsKept ==
  /\ outcome = "repairable"
  /\ \A v \in read : Whole(job.volumes[v]) /\ InOrder(job.volumes[v])
  /\ NoCopies
  => /\ Cardinality(RepairSlices) >= MissingCount
     /\ counted = Cardinality({s \in RepairSlices : s.intact})

\* Bytes of a file on disk that the set does not describe, or describes wrongly
KnownSet ==
  /\ HasMain
  /\ DOMAIN set = DOMAIN job.data
  /\ \A f \in DOMAIN set : set[f].named

\* Nothing is called correct, and no volume deleted, while protected data is
\* lost: success means that each block of each file is somewhere on disk, if
\* the descriptions of the files could be read (handle_verify).
OkMeansFound ==
  (outcome = "ok" \/ purged) /\ faults = 0 /\ KnownSet =>
    \A f \in DOMAIN job.data : \A i \in DOMAIN Cut(job.data[f]) :
      \E w \in DOMAIN job.disk : \E o \in 0..(Len(job.disk[w].bytes) - 1) :
        Padded(job.disk[w].bytes, o, BlockSize) = Cut(job.data[f])[i]

\* The command ends: a volume or a file is done, or the scan gets further in
\* the one it is at, in every step, and there is a next step until the exit
\* (scan_single_file_with_progress: jumps, slides and the end of the file).
Stage == [load |-> 0, open |-> 1, fill |-> 2, align |-> 3, scan |-> 4,
          slide |-> 5, conclude |-> 6, exit |-> 7]
Progress == <<volume, which, 2 * processed + position, Stage[pc]>>
Exceeds(s, t) ==
  \E i \in DOMAIN s : s[i] > t[i] /\ \A j \in 1..(i - 1) : s[j] = t[j]
EveryStepMovesOn == [][Exceeds(Progress', Progress)]_vars

-----------------------------------------------------------------------------
(* What theorems about the scan take for granted of the checksum: sliding   *)
(* it over a byte gives that of the window one byte further on.             *)

SlidesRight ==
  \A w \in [1..(BlockSize + 1) -> CrcByte] :
    LET here == SubSeq(w, 1, BlockSize)
        next == SubSeq(w, 2, BlockSize + 1)
    IN  /\ Crc(here) \in CrcValue
        /\ Slide(Table, Crc(here), w[BlockSize + 1], w[1]) = Crc(next)
=============================================================================
