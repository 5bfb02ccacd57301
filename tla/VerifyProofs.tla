----------------------------- MODULE VerifyProofs -----------------------------
(***************************************************************************)
(* Theorems about the verify command, for any set, any files and volumes,  *)
(* with short and failing reads.                                           *)
(***************************************************************************)
EXTENDS VerifyProperties, SequenceTheorems, FiniteSetTheorems, TLAPS

-----------------------------------------------------------------------------
(* The inductive invariant *)

\* Steps at which the buffer is filled.
Windowed == {"align", "scan", "slide"}

\* The buffer is only filled while a file is scanned, and nothing is found
\* before.
PlaceInv ==
  /\ job \in Jobs /\ volume \in Nat /\ which \in Nat \ {0} /\ faults \in Nat
  /\ pc \in {"load", "open", "fill", "conclude", "exit"} \cup Windowed
  /\ DOMAIN found = DOMAIN job.disk
  /\ pc \in {"fill"} \cup Windowed => which \in DOMAIN job.disk
  /\ pc \notin Windowed =>
       buffer = <<>> /\ processed = 0 /\ position = 0 /\ crc = NoCrc
  /\ pc \in {"load", "conclude"} => which = 1 /\ \A w \in DOMAIN found : found[w] = {}

\* What has left the buffer is whole blocks; the window begins in the first
\* block of the buffer, or in the second until it slides; and unless a read
\* came up short the buffer is as full as it can be.
BufferInv ==
  pc \in Windowed =>
    /\ buffer \in Seq(CrcByte) /\ Len(buffer) <= 2 * BlockSize
    /\ position \in Nat
    /\ \E k \in Nat : processed = k * BlockSize
    /\ processed + Len(buffer) <= Len(Disk)
    /\ faults = 0 => Len(buffer) = Least(2 * BlockSize, Len(Disk) - processed)
    /\ pc = "align" => position = 0 /\ processed = 0 /\ crc = NoCrc
    /\ pc = "scan" => position <= BlockSize
    /\ pc = "slide" => position \in BlockSize..(2 * BlockSize)

VInv == PlaceInv /\ BufferInv /\ WindowIsOfFile

-----------------------------------------------------------------------------
(* Lemmas about windows *)

\* A part of a sequence.
LEMMA PartOf ==
  ASSUME NEW S, NEW s \in Seq(S), NEW a \in Nat, NEW n \in Nat, a + n <= Len(s)
  PROVE  /\ SubSeq(s, a + 1, a + n) \in Seq(S)
         /\ Len(SubSeq(s, a + 1, a + n)) = n
         /\ \A i \in 1..n : SubSeq(s, a + 1, a + n)[i] = s[a + i]
<1>1. \A i \in (a + 1)..(a + n) : s[i] \in S
  OBVIOUS
<1>2. a + 1 \in Int /\ a + n \in Int
  OBVIOUS
<1>3. /\ SubSeq(s, a + 1, a + n) \in Seq(S)
      /\ Len(SubSeq(s, a + 1, a + n)) = IF a + 1 <= a + n THEN a + n - (a + 1) + 1 ELSE 0
      /\ \A i \in 1 .. (a + n - (a + 1) + 1) :
           SubSeq(s, a + 1, a + n)[i] = s[a + 1 + i - 1]
  BY <1>1, <1>2, SubSeqProperties
<1> QED
  BY <1>3

\* A part of a part is a part of the whole.
LEMMA PartOfPart ==
  ASSUME NEW S, NEW s \in Seq(S), NEW a \in Nat, NEW n \in Nat, a + n <= Len(s),
         NEW b \in Nat, NEW m \in Nat, b + m <= n
  PROVE  SubSeq(SubSeq(s, a + 1, a + n), b + 1, b + m)
           = SubSeq(s, a + b + 1, a + b + m)
<1> DEFINE t == SubSeq(s, a + 1, a + n)
           u == SubSeq(t, b + 1, b + m)
           v == SubSeq(s, a + b + 1, a + b + m)
<1>1. t \in Seq(S) /\ Len(t) = n /\ \A i \in 1..n : t[i] = s[a + i]
  BY PartOf
<1> HIDE DEF t
<1>2. u \in Seq(S) /\ Len(u) = m /\ \A i \in 1..m : u[i] = t[b + i]
  BY <1>1, PartOf
<1>3. v \in Seq(S) /\ Len(v) = m /\ \A i \in 1..m : v[i] = s[a + b + i]
  <2>1. a + b \in Nat /\ a + b + m <= Len(s)
    OBVIOUS
  <2> QED
    BY <2>1, PartOf
<1> HIDE DEF u, v
<1>4. \A i \in 1..m : u[i] = v[i]
  <2> SUFFICES ASSUME NEW i \in 1..m PROVE u[i] = v[i]
    OBVIOUS
  <2>1. b + i \in 1..n /\ a + (b + i) = a + b + i
    OBVIOUS
  <2> QED
    BY <1>1, <1>2, <1>3, <2>1
<1>5. u = v
  BY <1>2, <1>3, <1>4, SeqEqual
<1> QED
  BY <1>5 DEF u, v, t

\* Adjacent parts.
LEMMA PartsJoin ==
  ASSUME NEW S, NEW s \in Seq(S), NEW a \in Nat, NEW n \in Nat, NEW m \in Nat,
         a + n + m <= Len(s)
  PROVE  SubSeq(s, a + 1, a + n) \o SubSeq(s, a + n + 1, a + n + m)
           = SubSeq(s, a + 1, a + n + m)
<1> DEFINE b == a + 1
           c == a + n
           d == a + n + m
<1>1. b \in 1..(Len(s) + 1) /\ c \in (b - 1)..Len(s) /\ d \in c..Len(s)
  OBVIOUS
<1> HIDE DEF b, c, d
<1>2. SubSeq(s, b, c) \o SubSeq(s, c + 1, d) = SubSeq(s, b, d)
  BY <1>1, ConcatAdjacentSubSeq
<1> QED
  BY <1>2 DEF b, c, d

-----------------------------------------------------------------------------
(* Lemmas about steps of the scan *)

LEMMA DiskFacts ==
  ASSUME PlaceInv, NEW w \in DOMAIN job.disk
  PROVE  job.disk[w].bytes \in Seq(CrcByte)
<1>1. job.disk \in Seq([exists : BOOLEAN, bytes : Seq(CrcByte)])
  BY JobsAssumption DEF PlaceInv
<1>2. job.disk[w] \in [exists : BOOLEAN, bytes : Seq(CrcByte)]
  BY <1>1, LenProperties, ElementOfSeq
<1> QED
  BY <1>2

\* One read call continues what is kept of the buffer.
LEMMA ReadKeeps ==
  ASSUME PlaceInv, which \in DOMAIN job.disk, NEW s \in Nat, NEW kept \in Seq(CrcByte),
         buffer \in Seq(CrcByte), processed \in Nat,
         kept = SubSeq(Disk, s + 1, s + Len(kept)), Len(kept) <= 2 * BlockSize,
         s + Len(kept) = processed + Len(buffer), s + Len(kept) <= Len(Disk),
         ReadAfter(kept)
  PROVE  /\ buffer' \in Seq(CrcByte) /\ Len(buffer') <= 2 * BlockSize
         /\ s + Len(buffer') <= Len(Disk)
         /\ buffer' = SubSeq(Disk, s + 1, s + Len(buffer'))
         /\ faults' \in Nat /\ faults <= faults'
         /\ faults' = 0 => Len(buffer') = Least(2 * BlockSize, Len(Disk) - s)
<1> DEFINE start == processed + Len(buffer)
           full == Least(Room(kept), Len(Disk) - start)
<1>1. Disk \in Seq(CrcByte)
  BY DiskFacts DEF Disk
<1>2. /\ start = s + Len(kept) /\ start \in Nat /\ Len(Disk) \in Nat
      /\ Len(kept) \in Nat /\ BlockSize \in Nat
  BY <1>1, ScannerAssumption
<1>3. full = IF 2 * BlockSize - Len(kept) < Len(Disk) - start
             THEN 2 * BlockSize - Len(kept) ELSE Len(Disk) - start
  BY DEF Least, Room
<1>4. PICK n \in 0..full :
        /\ IF n = full THEN UNCHANGED faults ELSE n > 0 /\ Fault
        /\ buffer' = kept \o SubSeq(Disk, start + 1, start + n)
  BY DEF ReadAfter
<1> HIDE DEF start, full
<1>5. n \in Nat /\ Len(kept) + n <= 2 * BlockSize /\ s + Len(kept) + n <= Len(Disk)
  BY <1>2, <1>3
<1>6. buffer' = SubSeq(Disk, s + 1, s + Len(kept) + n)
  <2>1. SubSeq(Disk, s + 1, s + Len(kept))
          \o SubSeq(Disk, s + Len(kept) + 1, s + Len(kept) + n)
          = SubSeq(Disk, s + 1, s + Len(kept) + n)
    <3> DEFINE l == Len(kept)
    <3>1. l \in Nat /\ n \in Nat /\ s + l + n <= Len(Disk)
      BY <1>2, <1>5
    <3> HIDE DEF l
    <3>2. SubSeq(Disk, s + 1, s + l) \o SubSeq(Disk, s + l + 1, s + l + n)
            = SubSeq(Disk, s + 1, s + l + n)
      BY <1>1, <3>1, PartsJoin
    <3> QED
      BY <3>2 DEF l
  <2> QED
    BY <1>2, <1>4, <2>1
<1>7. buffer' \in Seq(CrcByte) /\ Len(buffer') = Len(kept) + n
  <2> DEFINE m == Len(kept) + n
  <2>1. m \in Nat /\ s + m = s + Len(kept) + n
    BY <1>2, <1>5
  <2>2. s + m <= Len(Disk) /\ buffer' = SubSeq(Disk, s + 1, s + m)
    BY <1>5, <1>6, <2>1
  <2> HIDE DEF m
  <2>3. buffer' \in Seq(CrcByte) /\ Len(buffer') = m
    BY <1>1, <2>1, <2>2, PartOf
  <2> QED
    BY <2>3 DEF m
<1>8. faults' \in Nat /\ faults <= faults' /\ (faults' = 0 => n = full)
  BY <1>4 DEF Fault, PlaceInv
<1>9. n = full => Len(kept) + n = Least(2 * BlockSize, Len(Disk) - s)
  BY <1>2, <1>3 DEF Least
<1> QED
  BY <1>2, <1>5, <1>6, <1>7, <1>8, <1>9

\* Nothing is left in the buffer for the next file.
LEMMA NextFileKeeps ==
  ASSUME VInv, ToNext, job' = job, volume' = volume, faults' \in Nat,
         DOMAIN found' = DOMAIN found
  PROVE  VInv'
BY DEF VInv, PlaceInv, BufferInv, WindowIsOfFile, Windowed, ToNext

LEMMA FaultCounts == ASSUME VInv, Fault PROVE faults' \in Nat /\ faults' # 0
BY DEF VInv, PlaceInv, Fault

\* Recording keeps the files.
LEMMA RecordKeeps ==
  ASSUME NEW offset, NEW hits, Record(offset, hits)
  PROVE  DOMAIN found' = DOMAIN found
BY DEF Record

LEMMA PartialKeeps == ASSUME RecordPartial PROVE DOMAIN found' = DOMAIN found
BY RecordKeeps DEF RecordPartial

LEMMA OpenKeeps == ASSUME VInv, Open, volume' = volume PROVE VInv'
<1>1. pc = "open" /\ pc' \in {"open", "fill"} /\ which \in DOMAIN job.disk
  BY DEF Open
<1>2. faults' \in Nat
  BY FaultCounts DEF Open, VInv, PlaceInv
<1>3. /\ which' \in Nat \ {0} /\ (pc' = "fill" => which' = which)
      /\ UNCHANGED <<job, buffer, processed, position, crc, found>>
  BY DEF Open, VInv, PlaceInv
<1> QED
  BY <1>1, <1>2, <1>3 DEF VInv, PlaceInv, BufferInv, WindowIsOfFile, Windowed

LEMMA FillKeeps == ASSUME VInv, Fill, volume' = volume PROVE VInv'
<1>1. /\ pc = "fill" /\ pc' = "align" /\ ReadAfter(<<>>)
      /\ UNCHANGED <<job, which, processed, position, crc, found>>
  BY DEF Fill
<1>2. /\ which \in DOMAIN job.disk
      /\ buffer = <<>> /\ processed = 0 /\ position = 0 /\ crc = NoCrc
  BY <1>1 DEF VInv, PlaceInv, Windowed
<1>3. Disk \in Seq(CrcByte) /\ Len(Disk) \in Nat /\ BlockSize \in Nat
  BY <1>2, DiskFacts, ScannerAssumption DEF VInv, Disk
<1>4. /\ <<>> \in Seq(CrcByte) /\ Len(<<>>) = 0
      /\ <<>> = SubSeq(Disk, 0 + 1, 0 + Len(<<>>))
  BY <1>3, SubSeqEmpty
<1>5. /\ buffer' \in Seq(CrcByte) /\ Len(buffer') <= 2 * BlockSize
      /\ 0 + Len(buffer') <= Len(Disk)
      /\ buffer' = SubSeq(Disk, 0 + 1, 0 + Len(buffer'))
      /\ faults' \in Nat /\ faults <= faults'
      /\ faults' = 0 => Len(buffer') = Least(2 * BlockSize, Len(Disk) - 0)
  <2>1. 0 \in Nat /\ Len(<<>>) <= 2 * BlockSize /\ 0 + Len(<<>>) <= Len(Disk)
        /\ 0 + Len(<<>>) = processed + Len(buffer)
        /\ buffer \in Seq(CrcByte) /\ processed \in Nat
    BY <1>2, <1>3, <1>4
  <2> QED
    BY <1>1, <1>2, <1>4, <2>1, ReadKeeps DEF VInv
<1>6. Disk' = Disk
  BY <1>1 DEF Disk
<1>7. 0 = 0 * BlockSize
  BY <1>3
<1>8. PlaceInv'
  BY <1>1, <1>2, <1>5 DEF VInv, PlaceInv, Windowed
<1>9. BufferInv'
  BY <1>1, <1>2, <1>3, <1>5, <1>6, <1>7 DEF BufferInv
<1>10. WindowIsOfFile'
  BY <1>1, <1>2, <1>3, <1>5, <1>6 DEF WindowIsOfFile
<1> QED
  BY <1>8, <1>9, <1>10 DEF VInv

\* A fresh checksum is that of the window.
LEMMA FreshIsOfWindow ==
  ASSUME NEW p, NEW bytes, FreshCrc(p, bytes) # NoCrc
  PROVE  FitsAt(p, bytes) /\ FreshCrc(p, bytes) = Crc(WindowAt(p, bytes))
BY DEF FreshCrc

\* What is known of the buffer while a file is scanned.
LEMMA WindowFacts ==
  ASSUME VInv, pc \in Windowed
  PROVE  /\ which \in DOMAIN job.disk /\ Disk \in Seq(CrcByte)
         /\ buffer \in Seq(CrcByte) /\ Len(buffer) \in Nat /\ Len(Disk) \in Nat
         /\ Len(buffer) <= 2 * BlockSize
         /\ position \in Nat /\ processed \in Nat /\ BlockSize \in Nat \ {0}
         /\ processed + Len(buffer) <= Len(Disk)
         /\ buffer = SubSeq(Disk, processed + 1, processed + Len(buffer))
<1>1. which \in DOMAIN job.disk /\ Disk \in Seq(CrcByte)
  BY DiskFacts DEF VInv, PlaceInv, Disk, Windowed
<1>2. \A k \in Nat : k * BlockSize \in Nat
  BY ScannerAssumption
<1>3. processed \in Nat
  BY <1>2 DEF VInv, BufferInv
<1> QED
  BY <1>1, <1>3, ScannerAssumption
  DEF VInv, BufferInv, WindowIsOfFile, Windowed

\* The aligned pass ends at the start or behind the first block.
LEMMA AlignedNext == AlignedPrefix.next \in {0, BlockSize}
<1> DEFINE whole == IF Len(buffer) >= 2 * BlockSize THEN 2 ELSE 0
           Matches(k) == Hits(Crc(WindowAt((k - 1) * BlockSize, buffer)),
                              WindowAt((k - 1) * BlockSize, buffer)) # {}
           matched == {k \in 1..whole : \A j \in 1..k : Matches(j)}
<1>1. AlignedPrefix.next = IF Cardinality(matched) = whole THEN 0
                           ELSE Cardinality(matched) * BlockSize
  BY DEF AlignedPrefix
<1>2. CASE whole = 0
  <2>1. matched = {}
    BY <1>2
  <2> QED
    BY <1>1, <1>2, <2>1, FS_EmptySet
<1>3. CASE whole = 2
  <2>1. matched \in {{}, {1}, {1, 2}}
    <3> HIDE DEF Matches
    <3>1. 1..2 = {1, 2} /\ 1..1 = {1}
      OBVIOUS
    <3> QED
      BY <1>3, <3>1
  <2>2. Cardinality({}) = 0 /\ Cardinality({1}) = 1 /\ Cardinality({1, 2}) = 2
    <3>1. 1 \notin {} /\ 2 \notin {1} /\ {1} = {} \cup {1} /\ {1, 2} = {1} \cup {2}
      OBVIOUS
    <3> QED
      BY <3>1, FS_EmptySet, FS_AddElement
  <2> HIDE DEF matched
  <2>3. 0 * BlockSize = 0 /\ 1 * BlockSize = BlockSize
    BY ScannerAssumption
  <2> QED
    BY <1>1, <1>3, <2>1, <2>2, <2>3
<1> QED
  BY <1>2, <1>3

LEMMA AlignKeeps == ASSUME VInv, Align, volume' = volume PROVE VInv'
<1>1. pc = "align" /\ UNCHANGED <<job, set, faults>>
  BY DEF Align
<1>2. faults' \in Nat
  BY <1>1 DEF VInv, PlaceInv
<1>3. CASE Len(buffer) \in 1..(BlockSize - 1)
  <2>1. DOMAIN found' = DOMAIN found /\ ToNext
    BY <1>3, PartialKeeps DEF Align, NextFile
  <2> QED
    BY <1>1, <1>2, <2>1, NextFileKeeps
<1>4. CASE Len(buffer) \notin 1..(BlockSize - 1)
  <2>1. /\ DOMAIN found' = DOMAIN found
        /\ position' = AlignedPrefix.next
        /\ crc' = FreshCrc(position', buffer)
        /\ pc' = "scan"
        /\ UNCHANGED <<which, buffer, processed, misses, hashed>>
    BY <1>4 DEF Align
  <2>2. position' \in {0, BlockSize}
    BY <2>1, AlignedNext DEF Windowed
  <2>3. Disk' = Disk
    BY <1>1, <2>1 DEF Disk
  <2>4. PlaceInv'
    BY <1>1, <1>2, <2>1 DEF VInv, PlaceInv, Windowed
  <2>5. BufferInv'
    BY <1>1, <2>1, <2>2, <2>3, ScannerAssumption DEF VInv, BufferInv, Windowed
  <2>6. WindowIsOfFile'
    BY <1>1, <2>1, <2>3, FreshIsOfWindow DEF VInv, WindowIsOfFile, Fits
  <2> QED
    BY <2>4, <2>5, <2>6 DEF VInv
<1> QED
  BY <1>3, <1>4

LEMMA SkipBlockKeeps == ASSUME VInv, SkipBlock, volume' = volume PROVE VInv'
<1>1. /\ pc = "scan" /\ Fits
      /\ Move(position + BlockSize, FreshCrc(position + BlockSize, buffer), 0)
      /\ UNCHANGED <<job, which, buffer, processed, faults>>
      /\ DOMAIN found' = DOMAIN found
  BY RecordKeeps DEF SkipBlock, Scanning
<1>2. /\ position \in Nat /\ position <= BlockSize /\ BlockSize \in Nat \ {0}
  BY <1>1, ScannerAssumption DEF VInv, BufferInv, Windowed
<1>3. /\ position' = position + BlockSize
      /\ crc' = FreshCrc(position', buffer)
      /\ pc' = IF position' >= BlockSize THEN "slide" ELSE "scan"
  BY <1>1 DEF Move
<1>4. pc' = "slide" /\ position' \in BlockSize..(2 * BlockSize)
  BY <1>2, <1>3
<1>5. Disk' = Disk
  BY <1>1 DEF Disk
<1>6. PlaceInv'
  BY <1>1, <1>4 DEF VInv, PlaceInv, Windowed
<1>7. BufferInv'
  BY <1>1, <1>2, <1>3, <1>4, <1>5 DEF VInv, BufferInv, Windowed
<1>8. WindowIsOfFile'
  BY <1>1, <1>3, <1>4, <1>5, FreshIsOfWindow DEF VInv, WindowIsOfFile, Fits
<1> QED
  BY <1>6, <1>7, <1>8 DEF VInv

\* The checksum that slides is that of the window one byte further on.
LEMMA SlidIsOfWindow ==
  ASSUME SlidesRight, VInv, pc = "scan", SlidCrc(position + 1) # NoCrc
  PROVE  /\ FitsAt(position + 1, buffer)
         /\ SlidCrc(position + 1) = Crc(WindowAt(position + 1, buffer))
<1> DEFINE B == BlockSize
           w == SubSeq(buffer, position + 1, position + (B + 1))
<1>1. crc # NoCrc /\ FitsAt(position + 1, buffer)
  BY DEF SlidCrc
<1>2. SlidCrc(position + 1)
        = Slide(Table, crc, buffer[position + 1 + B], buffer[position + 1])
  BY <1>1 DEF SlidCrc
<1>3. crc = Crc(WindowAt(position, buffer))
  BY <1>1 DEF VInv, WindowIsOfFile
<1>4. /\ buffer \in Seq(CrcByte) /\ position \in Nat /\ B \in Nat \ {0}
      /\ Len(buffer) \in Nat /\ position + (B + 1) <= Len(buffer)
  BY <1>1, WindowFacts DEF Windowed, FitsAt
<1>5. /\ w \in Seq(CrcByte) /\ Len(w) = B + 1
      /\ \A i \in 1..(B + 1) : w[i] = buffer[position + i]
  BY <1>4, PartOf
<1>6. w \in [1..(B + 1) -> CrcByte]
  BY <1>5, LenProperties
<1>7. w[1] = buffer[position + 1] /\ w[B + 1] = buffer[position + 1 + B]
  <2>1. 1 \in 1..(B + 1) /\ B + 1 \in 1..(B + 1)
        /\ position + (B + 1) = position + 1 + B
    BY <1>4
  <2> QED
    BY <1>5, <2>1
<1>8. SubSeq(w, 1, B) = WindowAt(position, buffer)
  <2>1. SubSeq(w, 0 + 1, 0 + B) = SubSeq(buffer, position + 0 + 1, position + 0 + B)
    BY <1>4, PartOfPart
  <2> QED
    BY <1>4, <2>1 DEF WindowAt
<1>9. SubSeq(w, 2, B + 1) = WindowAt(position + 1, buffer)
  <2>1. SubSeq(w, 1 + 1, 1 + B) = SubSeq(buffer, position + 1 + 1, position + 1 + B)
    BY <1>4, PartOfPart
  <2> QED
    BY <1>4, <2>1 DEF WindowAt
<1> HIDE DEF w
<1>10. Slide(Table, Crc(SubSeq(w, 1, B)), w[B + 1], w[1]) = Crc(SubSeq(w, 2, B + 1))
  BY <1>6 DEF SlidesRight
<1> QED
  BY <1>1, <1>2, <1>3, <1>7, <1>8, <1>9, <1>10

LEMMA AdvanceOneByteKeeps ==
  ASSUME SlidesRight, VInv, AdvanceOneByte, volume' = volume PROVE VInv'
<1>1. /\ pc = "scan" /\ Fits
      /\ UNCHANGED <<job, which, buffer, processed, faults, found>>
  BY DEF AdvanceOneByte, Scanning
<1>2. /\ position \in Nat /\ position <= BlockSize /\ BlockSize \in Nat \ {0}
      /\ Leeway \in Nat
  BY <1>1, ScannerAssumption DEF VInv, BufferInv, Windowed
<1>3. /\ position' \in Nat /\ position < position' /\ position' <= 2 * BlockSize
      /\ crc' # NoCrc => FitsAt(position', buffer) /\ crc' = Crc(WindowAt(position', buffer))
      /\ pc' = IF position' >= BlockSize THEN "slide" ELSE "scan"
  <2>1. CASE /\ job.skipping /\ ScanSkip > 0 /\ ScanDistance > 0
             /\ misses + 1 >= ScanDistance
    <3>1. Move(position + 1 + ScanSkip, FreshCrc(position + 1 + ScanSkip, buffer), 0)
      BY <2>1 DEF AdvanceOneByte
    <3>2. ScanSkip \in Nat /\ ScanSkip < BlockSize
      BY <1>2, <2>1 DEF ScanSkip, ScanDistance, Least
    <3> QED
      BY <1>2, <3>1, <3>2, FreshIsOfWindow DEF Move
  <2>2. CASE ~(/\ job.skipping /\ ScanSkip > 0 /\ ScanDistance > 0
               /\ misses + 1 >= ScanDistance)
    <3>1. Move(position + 1, SlidCrc(position + 1), misses + 1)
      BY <2>2 DEF AdvanceOneByte
    <3>2. position' = position + 1 /\ crc' = SlidCrc(position + 1)
      BY <3>1 DEF Move
    <3> QED
      BY <1>1, <1>2, <3>1, <3>2, SlidIsOfWindow DEF Move
  <2> QED
    BY <2>1, <2>2
<1>4. Disk' = Disk /\ pc' \in {"scan", "slide"}
  BY <1>1, <1>3 DEF Disk
<1>5. PlaceInv'
  BY <1>1, <1>4 DEF VInv, PlaceInv, Windowed
<1>6. BufferInv'
  BY <1>1, <1>2, <1>3, <1>4 DEF VInv, BufferInv, Windowed
<1>7. WindowIsOfFile'
  BY <1>1, <1>3, <1>4 DEF VInv, WindowIsOfFile, Fits
<1> QED
  BY <1>5, <1>6, <1>7 DEF VInv

LEMMA SlideWindowKeeps == ASSUME VInv, SlideWindow, volume' = volume PROVE VInv'
<1> DEFINE L == Len(buffer)
           kept == SubSeq(buffer, BlockSize + 1, L)
           s == processed + BlockSize
<1>1. /\ pc = "slide" /\ L >= BlockSize /\ ReadAfter(kept)
      /\ processed' = s /\ position' = position - BlockSize
      /\ crc' = FreshCrc(position', buffer') /\ pc' = "scan"
      /\ UNCHANGED <<job, which, found>>
  BY DEF SlideWindow, SlidOut, SlidPosition
<1>2. /\ which \in DOMAIN job.disk /\ Disk \in Seq(CrcByte)
      /\ buffer \in Seq(CrcByte) /\ L \in Nat /\ Len(Disk) \in Nat
      /\ L <= 2 * BlockSize
      /\ position \in Nat /\ processed \in Nat /\ BlockSize \in Nat \ {0}
      /\ processed + L <= Len(Disk)
      /\ buffer = SubSeq(Disk, processed + 1, processed + L)
      /\ position \in BlockSize..(2 * BlockSize)
  BY <1>1, WindowFacts DEF Windowed, VInv, BufferInv
<1>3. PICK n \in Nat : L = BlockSize + n
  <2> HIDE DEF L
  <2>1. L - BlockSize \in Nat /\ L = BlockSize + (L - BlockSize)
    BY <1>1, <1>2
  <2> QED
    BY <2>1
<1> HIDE DEF L
<1>4. kept \in Seq(CrcByte) /\ Len(kept) = n
  BY <1>2, <1>3, PartOf DEF L
<1>5. kept = SubSeq(Disk, s + 1, s + n)
  <2>1. SubSeq(SubSeq(Disk, processed + 1, processed + L), BlockSize + 1, BlockSize + n)
          = SubSeq(Disk, processed + BlockSize + 1, processed + BlockSize + n)
    BY <1>2, <1>3, PartOfPart
  <2> QED
    BY <1>2, <1>3, <2>1
<1>6. /\ s \in Nat /\ s + n = processed + L /\ n <= 2 * BlockSize /\ s + n <= Len(Disk)
  BY <1>2, <1>3
<1> HIDE DEF s, kept
<1>7. /\ buffer' \in Seq(CrcByte) /\ Len(buffer') <= 2 * BlockSize
      /\ s + Len(buffer') <= Len(Disk)
      /\ buffer' = SubSeq(Disk, s + 1, s + Len(buffer'))
      /\ faults' \in Nat /\ faults <= faults'
      /\ faults' = 0 => Len(buffer') = Least(2 * BlockSize, Len(Disk) - s)
  BY <1>1, <1>2, <1>4, <1>5, <1>6, ReadKeeps DEF VInv, L
<1>8. Disk' = Disk
  BY <1>1 DEF Disk
<1>9. \E k \in Nat : processed' = k * BlockSize
  <2>1. PICK k \in Nat : processed = k * BlockSize
    BY <1>1 DEF VInv, BufferInv, Windowed
  <2>2. k + 1 \in Nat /\ (k + 1) * BlockSize = k * BlockSize + BlockSize
    BY <1>2
  <2> QED
    BY <1>1, <2>1, <2>2 DEF s
<1>10. PlaceInv'
  BY <1>1, <1>2, <1>7 DEF VInv, PlaceInv, Windowed
<1>11. BufferInv'
  <2>1. position' \in Nat /\ position' <= BlockSize
    BY <1>1, <1>2
  <2> QED
    BY <1>1, <1>7, <1>8, <1>9, <2>1 DEF BufferInv
<1>12. WindowIsOfFile'
  BY <1>1, <1>7, <1>8, FreshIsOfWindow DEF WindowIsOfFile, Fits
<1> QED
  BY <1>10, <1>11, <1>12 DEF VInv

LEMMA EndingKeeps ==
  ASSUME VInv, SlideFails \/ ReadFails \/ EndOfFile, volume' = volume PROVE VInv'
<1>1. job' = job /\ ToNext
  BY DEF SlideFails, ReadFails, EndOfFile, NextFile
<1>2. DOMAIN found' = DOMAIN found
  BY PartialKeeps DEF SlideFails, ReadFails, EndOfFile
<1>3. faults' \in Nat
  BY FaultCounts DEF SlideFails, ReadFails, EndOfFile, VInv, PlaceInv
<1> QED
  BY <1>1, <1>2, <1>3, NextFileKeeps

LEMMA ScanKeeps == ASSUME SlidesRight, VInv, Scan PROVE VInv'
<1>1. ScanStep /\ volume' = volume
  BY DEF Scan, loadVars
<1> QED
  BY <1>1, OpenKeeps, FillKeeps, AlignKeeps, SkipBlockKeeps, AdvanceOneByteKeeps,
     SlideWindowKeeps, EndingKeeps DEF ScanStep

LEMMA InitWindow == Init => VInv
BY DEF Init, VInv, PlaceInv, BufferInv, WindowIsOfFile, Windowed

\* The invariant is inductive.
LEMMA NextWindow == ASSUME SlidesRight, VInv, [Next]_vars PROVE VInv'
<1>1. ASSUME LoadVolume PROVE VInv'
  <2>1. /\ pc = "load" /\ volume' = volume + 1
        /\ UNCHANGED <<job, which, pc, buffer, processed, position, crc, found>>
    BY <1>1 DEF LoadVolume
  <2>2. faults' \in Nat
    BY <1>1, FaultCounts DEF LoadVolume, VInv, PlaceInv
  <2> QED
    BY <2>1, <2>2 DEF VInv, PlaceInv, BufferInv, WindowIsOfFile, Windowed
<1>2. ASSUME BeginScan PROVE VInv'
  <2>1. /\ pc = "load" /\ pc' \in {"open", "conclude"} /\ volume' = volume
        /\ UNCHANGED <<job, which, buffer, processed, position, crc, found, faults>>
    BY <1>2 DEF BeginScan, loadVars
  <2> QED
    BY <2>1 DEF VInv, PlaceInv, BufferInv, WindowIsOfFile, Windowed
<1>3. ASSUME Conclude PROVE VInv'
  <2>1. /\ pc \in {"open", "conclude"} /\ pc' = "exit" /\ volume' = volume
        /\ UNCHANGED <<job, which, buffer, processed, position, crc, found, faults>>
    BY <1>3 DEF Conclude, Exit, loadVars
  <2> QED
    BY <2>1 DEF VInv, PlaceInv, BufferInv, WindowIsOfFile, Windowed
<1>4. ASSUME UNCHANGED vars PROVE VInv'
  BY <1>4 DEF vars, VInv, PlaceInv, BufferInv, WindowIsOfFile, Windowed, Disk,
              Fits
<1> QED
  BY <1>1, <1>2, <1>3, <1>4, ScanKeeps DEF Next, Exited

LEMMA AlwaysWindow == ASSUME SlidesRight PROVE Spec => []VInv
<1>1. VInv /\ [Next]_vars => VInv'
  BY NextWindow
<1> QED
  BY <1>1, InitWindow, PTL DEF Spec

\* While a file is scanned the buffer is the part of the file that the count of
\* bytes slid out says, and the rolling checksum is that of the window, after
\* any jumps, skips, slides and short reads, for any size of block and leeway
\* (ScanBuffer::slide_and_read, RollingCrcTable::slide_crc_forward).
THEOREM WindowIsTrue == ASSUME SlidesRight PROVE Spec => []WindowIsOfFile
<1>1. VInv => WindowIsOfFile
  BY DEF VInv
<1> QED
  BY <1>1, AlwaysWindow, PTL

-----------------------------------------------------------------------------
(* What is recorded *)

\* An entry of file w is of the set, and its block is in the file.
IsRecord(w, e) ==
  /\ e[1] \in 0..(Len(job.disk[w].bytes) - 1)
  /\ e[2][1] \in DOMAIN set /\ e[2][2] \in DOMAIN set[e[2][1]].slices
  /\ \E n \in (IF faults = 0 THEN {BlockSize} ELSE 1..BlockSize) :
       Padded(job.disk[w].bytes, e[1], n) = set[e[2][1]].slices[e[2][2]]

RecordsInv == \A w \in DOMAIN job.disk : \A e \in found[w] : IsRecord(w, e)

LEMMA RecordStays ==
  ASSUME NEW w, NEW e, IsRecord(w, e), job' = job, set' = set,
         faults \in Nat, faults' \in Nat, faults <= faults'
  PROVE  IsRecord(w, e)'
<1>1. PICK n \in (IF faults = 0 THEN {BlockSize} ELSE 1..BlockSize) :
        Padded(job.disk[w].bytes, e[1], n) = set[e[2][1]].slices[e[2][2]]
  BY DEF IsRecord
<1>2. n \in (IF faults' = 0 THEN {BlockSize} ELSE 1..BlockSize)
  BY <1>1, ScannerAssumption
<1> QED
  BY <1>1, <1>2 DEF IsRecord

\* A window of the buffer is one of the file.
LEMMA WindowOfDisk ==
  ASSUME VInv, pc \in Windowed, NEW p \in Nat, FitsAt(p, buffer)
  PROVE  /\ WindowAt(p, buffer) = WindowAt(processed + p, Disk)
         /\ FitsAt(processed + p, Disk)
<1>1. /\ Disk \in Seq(CrcByte) /\ BlockSize \in Nat \ {0}
      /\ processed \in Nat /\ Len(Disk) \in Nat /\ Len(buffer) \in Nat
      /\ processed + Len(buffer) <= Len(Disk)
      /\ buffer = SubSeq(Disk, processed + 1, processed + Len(buffer))
  BY WindowFacts
<1> DEFINE L == Len(buffer)
<1>2. L \in Nat /\ p + BlockSize <= L /\ processed + L <= Len(Disk)
  BY <1>1 DEF FitsAt
<1> HIDE DEF L
<1>3. SubSeq(SubSeq(Disk, processed + 1, processed + L), p + 1, p + BlockSize)
        = SubSeq(Disk, processed + p + 1, processed + p + BlockSize)
  BY <1>1, <1>2, PartOfPart
<1> QED
  BY <1>1, <1>2, <1>3 DEF WindowAt, FitsAt, L

\* A whole window is where it is recorded.
LEMMA WindowIsThere ==
  ASSUME VInv, pc \in Windowed, NEW p \in Nat, FitsAt(p, buffer)
  PROVE  /\ Padded(Disk, processed + p, BlockSize) = WindowAt(p, buffer)
         /\ processed + p \in 0..(Len(Disk) - 1)
<1> DEFINE o == processed + p
           bytes == SubSeq(Disk, o + 1, o + BlockSize)
<1>1. /\ Disk \in Seq(CrcByte) /\ BlockSize \in Nat \ {0}
      /\ processed \in Nat /\ Len(Disk) \in Nat
  BY WindowFacts
<1>2. WindowAt(p, buffer) = WindowAt(o, Disk) /\ FitsAt(o, Disk)
  BY WindowOfDisk
<1>3. o \in Nat /\ o + BlockSize <= Len(Disk)
  BY <1>1, <1>2 DEF FitsAt
<1>4. WindowAt(p, buffer) = bytes
  BY <1>2 DEF WindowAt
<1>5. Least(o + BlockSize, Len(Disk)) = o + BlockSize
  BY <1>1, <1>3 DEF Least
<1>9. o \in 0..(Len(Disk) - 1)
  BY <1>1, <1>3
<1> HIDE DEF o
<1>6. bytes \in Seq(CrcByte) /\ Len(bytes) = BlockSize
  BY <1>1, <1>3, PartOf
<1>7. [k \in 1..(BlockSize - Len(bytes)) |-> 0] = <<>>
  <2>1. BlockSize - Len(bytes) = 0
    BY <1>1, <1>6
  <2> DEFINE none == [k \in 1..0 |-> 0]
  <2>2. none \in Seq(Nat) /\ Len(none) = 0
    OBVIOUS
  <2> HIDE DEF none
  <2>3. none = <<>>
    BY <2>2, EmptySeq
  <2> QED
    BY <2>1, <2>3 DEF none
<1>8. PadTo(bytes, BlockSize) = bytes
  BY <1>6, <1>7, ConcatEmptySeq DEF PadTo
<1> QED
  BY <1>4, <1>5, <1>8, <1>9 DEF Padded, o

\* What is left of the buffer is the end of the file, unless a read came up
\* short.
LEMMA RestIsThere ==
  ASSUME VInv, pc \in {"align", "scan"}, ~Fits, Remainder # <<>>
  PROVE  /\ processed + position \in 0..(Len(Disk) - 1)
         /\ \E n \in (IF faults = 0 THEN {BlockSize} ELSE 1..BlockSize) :
              Padded(Disk, processed + position, n) = PadTo(Remainder, BlockSize)
<1> DEFINE L == Len(buffer)
           m == L - position
<1>1. /\ Disk \in Seq(CrcByte) /\ BlockSize \in Nat \ {0}
      /\ processed \in Nat /\ Len(Disk) \in Nat /\ L \in Nat
      /\ processed + L <= Len(Disk)
      /\ position \in Nat
      /\ buffer \in Seq(CrcByte)
      /\ buffer = SubSeq(Disk, processed + 1, processed + L)
  BY WindowFacts DEF Windowed
<1>2. /\ position <= BlockSize
      /\ faults = 0 => L = Least(2 * BlockSize, Len(Disk) - processed)
  BY ScannerAssumption DEF VInv, BufferInv, Windowed
<1>3. L < position + BlockSize
  BY <1>1 DEF Fits, FitsAt
<1>4. position < L
  <2>1. ASSUME L < position + 1 PROVE FALSE
    BY <1>1, <2>1, SubSeqEmpty DEF Remainder
  <2> QED
    BY <1>1, <2>1
<1>5. m \in 1..BlockSize
  BY <1>1, <1>3, <1>4
<1>9. processed + position \in 0..(Len(Disk) - 1)
  BY <1>1, <1>4
<1>6. Remainder = SubSeq(Disk, processed + position + 1, processed + L)
  <2>1. position + m = L
    BY <1>1
  <2>2. SubSeq(SubSeq(Disk, processed + 1, processed + L), position + 1, position + m)
          = SubSeq(Disk, processed + position + 1, processed + position + m)
    <3> HIDE DEF m, L
    <3> QED
      BY <1>1, <1>5, <2>1, PartOfPart
  <2>3. processed + position + m = processed + L
    BY <1>1
  <2> QED
    BY <1>1, <2>1, <2>2, <2>3 DEF Remainder
<1>7. CASE faults = 0
  <2>1. L = Len(Disk) - processed
    BY <1>1, <1>2, <1>3, <1>7 DEF Least
  <2>2. Least(processed + position + BlockSize, Len(Disk)) = processed + L
    BY <1>1, <1>3, <2>1 DEF Least
  <2> QED
    BY <1>6, <1>7, <1>9, <2>2 DEF Padded
<1>8. CASE faults # 0
  <2>1. Least(processed + position + m, Len(Disk)) = processed + L
    BY <1>1 DEF Least
  <2>2. Padded(Disk, processed + position, m) = PadTo(Remainder, BlockSize)
    BY <1>6, <2>1 DEF Padded
  <2> HIDE DEF m
  <2> QED
    BY <1>5, <1>8, <1>9, <2>2
<1> QED
  BY <1>7, <1>8

\* Whole blocks and remainders that match can be recorded.
LEMMA HitsAreRecords ==
  ASSUME NEW o \in 0..(Len(Disk) - 1),
         NEW n \in (IF faults = 0 THEN {BlockSize} ELSE 1..BlockSize), NEW value,
         NEW bytes, Padded(Disk, o, n) = bytes,
         NEW e \in {<<o, h>> : h \in Hits(value, bytes)}
  PROVE  IsRecord(which, e)
<1>1. PICK h \in Hits(value, bytes) : e = <<o, h>>
  OBVIOUS
<1>2. PICK f \in DOMAIN set : h \in {f} \X DOMAIN set[f].slices
  BY <1>1 DEF Hits
<1>3. /\ h[1] = f /\ h[2] \in DOMAIN set[f].slices
      /\ set[h[1]].slices[h[2]] = bytes
  BY <1>1, <1>2 DEF Hits
<1>4. e[1] = o /\ e[2] = h
  BY <1>1
<1> QED
  BY <1>2, <1>3, <1>4 DEF IsRecord, Disk

\* Entries that are added are of the file that is scanned.
LEMMA RecordsGrow ==
  ASSUME VInv, RecordsInv, which \in DOMAIN job.disk, NEW new,
         found' = [found EXCEPT ![which] = @ \cup new],
         \A e \in new : IsRecord(which, e),
         job' = job, set' = set, faults' = faults
  PROVE  RecordsInv'
<1> SUFFICES ASSUME NEW w \in DOMAIN job.disk, NEW e \in found'[w]
             PROVE  IsRecord(w, e)'
  BY DEF RecordsInv
<1>1. IsRecord(w, e)
  BY DEF RecordsInv, VInv, PlaceInv
<1>2. faults \in Nat
  BY DEF VInv, PlaceInv
<1> QED
  BY <1>1, <1>2, RecordStays

\* Nothing is added.
LEMMA RecordsRemain ==
  ASSUME VInv, RecordsInv, found' = found, job' = job, set' = set,
         faults' \in Nat, faults <= faults'
  PROVE  RecordsInv'
<1>1. faults \in Nat
  BY DEF VInv, PlaceInv
<1> QED
  BY <1>1, RecordStays DEF RecordsInv

LEMMA FaultsRise ==
  ASSUME VInv, [Next]_vars PROVE faults \in Nat /\ faults' \in Nat /\ faults <= faults'
<1>1. faults \in Nat
  BY DEF VInv, PlaceInv
<1>2. Fault => faults' \in Nat /\ faults <= faults'
  BY <1>1 DEF Fault
<1>3. ASSUME NEW kept, ReadAfter(kept) PROVE faults' \in Nat /\ faults <= faults'
  BY <1>1, <1>2, <1>3 DEF ReadAfter
<1>4. ASSUME ScanStep PROVE faults' \in Nat /\ faults <= faults'
  <2>1. ASSUME Open PROVE faults' \in Nat /\ faults <= faults'
    BY <1>1, <1>2, <2>1 DEF Open
  <2>2. ASSUME Fill \/ SlideWindow PROVE faults' \in Nat /\ faults <= faults'
    BY <1>3, <2>2 DEF Fill, SlideWindow
  <2>3. ASSUME ReadFails \/ SlideFails PROVE faults' \in Nat /\ faults <= faults'
    BY <1>2, <2>3 DEF ReadFails, SlideFails
  <2>4. ASSUME Align \/ SkipBlock \/ AdvanceOneByte \/ EndOfFile
        PROVE  faults' = faults
    BY <2>4 DEF Align, SkipBlock, AdvanceOneByte, EndOfFile
  <2> QED
    BY <1>1, <1>4, <2>1, <2>2, <2>3, <2>4 DEF ScanStep
<1>5. ASSUME LoadVolume PROVE faults' \in Nat /\ faults <= faults'
  BY <1>1, <1>2, <1>5 DEF LoadVolume
<1>6. ASSUME BeginScan \/ Conclude \/ UNCHANGED vars PROVE faults' = faults
  BY <1>6 DEF BeginScan, Conclude, vars
<1> QED
  BY <1>1, <1>4, <1>5, <1>6 DEF Next, Scan, Exited

LEMMA RestRecorded ==
  ASSUME VInv, RecordsInv, pc \in {"align", "scan"}, ~Fits, RecordPartial,
         job' = job, set' = set, faults' = faults
  PROVE  RecordsInv'
<1>1. faults \in Nat /\ which \in DOMAIN job.disk
  BY DEF VInv, PlaceInv, Windowed
<1>2. CASE Remainder = <<>>
  BY <1>1, <1>2, RecordsRemain DEF RecordPartial
<1>3. CASE Remainder # <<>>
  <2> DEFINE padded == PadTo(Remainder, BlockSize)
             new == {<<processed + position, e>> : e \in Hits(Crc(padded), padded)}
  <2>1. found' = [found EXCEPT ![which] = @ \cup new]
    BY <1>3 DEF RecordPartial, Record
  <2>2. PICK n \in (IF faults = 0 THEN {BlockSize} ELSE 1..BlockSize) :
          /\ Padded(Disk, processed + position, n) = padded
          /\ processed + position \in 0..(Len(Disk) - 1)
    BY <1>3, RestIsThere
  <2>3. \A e \in new : IsRecord(which, e)
    <3> HIDE DEF padded
    <3> QED
      BY <2>2, HitsAreRecords
  <2> HIDE DEF new
  <2> QED
    BY <1>1, <2>1, <2>3, RecordsGrow
<1> QED
  BY <1>2, <1>3

\* What the aligned pass matches is a whole block of a full buffer.
LEMMA AlignedAreWhole ==
  ASSUME NEW k \in AlignedPrefix.matched
  PROVE  k \in {1, 2} /\ Len(buffer) >= 2 * BlockSize
<1> DEFINE whole == IF Len(buffer) >= 2 * BlockSize THEN 2 ELSE 0
<1>1. k \in 1..whole
  BY DEF AlignedPrefix
<1> QED
  BY <1>1

LEMMA AlignRecords == ASSUME VInv, RecordsInv, Align PROVE RecordsInv'
<1>1. pc = "align" /\ UNCHANGED <<job, set, faults>>
  BY DEF Align
<1>2. which \in DOMAIN job.disk /\ position = 0 /\ processed = 0
  BY <1>1 DEF VInv, PlaceInv, BufferInv, Windowed
<1>3. CASE Len(buffer) \in 1..(BlockSize - 1)
  <2>1. RecordPartial
    BY <1>3 DEF Align
  <2>2. ~Fits
    BY <1>2, <1>3, ScannerAssumption DEF Fits, FitsAt
  <2> QED
    BY <1>1, <2>1, <2>2, RestRecorded
<1>4. CASE Len(buffer) \notin 1..(BlockSize - 1)
  <2> DEFINE At(k) == (k - 1) * BlockSize
             HitsAt(k) == Hits(Crc(WindowAt(At(k), buffer)), WindowAt(At(k), buffer))
             new == UNION {{<<At(k), e>> : e \in HitsAt(k)} : k \in AlignedPrefix.matched}
  <2>1. found' = [found EXCEPT ![which] = @ \cup new]
    BY <1>4 DEF Align
  <2>2. ASSUME NEW e \in new PROVE IsRecord(which, e)
    <3>1. PICK k \in AlignedPrefix.matched : e \in {<<At(k), h>> : h \in HitsAt(k)}
      BY <2>2
    <3>2. k \in {1, 2} /\ Len(buffer) >= 2 * BlockSize
      BY <3>1, AlignedAreWhole
    <3>3. At(k) \in Nat /\ FitsAt(At(k), buffer) /\ processed + At(k) = At(k)
      <4>1. BlockSize \in Nat /\ Len(buffer) \in Nat
        BY <1>1, WindowFacts DEF Windowed
      <4>2. (1 - 1) * BlockSize = 0 /\ (2 - 1) * BlockSize = BlockSize
        BY <4>1
      <4> QED
        BY <1>2, <3>2, <4>1, <4>2 DEF FitsAt
    <3>4. /\ Padded(Disk, At(k), BlockSize) = WindowAt(At(k), buffer)
          /\ At(k) \in 0..(Len(Disk) - 1)
      <4> HIDE DEF At
      <4>1. /\ Padded(Disk, processed + At(k), BlockSize) = WindowAt(At(k), buffer)
            /\ processed + At(k) \in 0..(Len(Disk) - 1)
        BY <1>1, <3>3, WindowIsThere DEF Windowed
      <4> QED
        BY <3>3, <4>1
    <3>5. BlockSize \in (IF faults = 0 THEN {BlockSize} ELSE 1..BlockSize)
      BY ScannerAssumption
    <3> HIDE DEF At
    <3> QED
      BY <3>1, <3>4, <3>5, HitsAreRecords
  <2> HIDE DEF new
  <2> QED
    BY <1>1, <1>2, <2>1, <2>2, RecordsGrow
<1> QED
  BY <1>3, <1>4

LEMMA SkipRecords == ASSUME VInv, RecordsInv, SkipBlock PROVE RecordsInv'
<1> DEFINE new == {<<processed + position, e>> : e \in HitsHere}
<1>1. /\ pc = "scan" /\ Fits /\ UNCHANGED <<job, set, faults>>
      /\ found' = [found EXCEPT ![which] = @ \cup new]
  BY DEF SkipBlock, Scanning, Record
<1>2. which \in DOMAIN job.disk /\ position \in Nat
  BY <1>1, WindowFacts DEF Windowed
<1>3. /\ Padded(Disk, processed + position, BlockSize) = WindowAt(position, buffer)
      /\ processed + position \in 0..(Len(Disk) - 1)
  BY <1>1, <1>2, WindowIsThere DEF Windowed, Fits
<1>4. BlockSize \in (IF faults = 0 THEN {BlockSize} ELSE 1..BlockSize)
  BY ScannerAssumption
<1>5. \A e \in new : IsRecord(which, e)
  BY <1>3, <1>4, HitsAreRecords DEF HitsHere
<1> HIDE DEF new
<1> QED
  BY <1>1, <1>2, <1>5, RecordsGrow

LEMMA InitRecords == Init => RecordsInv
BY DEF Init, RecordsInv

LEMMA NextRecords == ASSUME VInv, RecordsInv, [Next]_vars PROVE RecordsInv'
<1>1. faults' \in Nat /\ faults <= faults'
  BY FaultsRise
<1>2. ASSUME Open \/ Fill \/ ReadFails \/ AdvanceOneByte \/ SlideWindow \/ SlideFails
      PROVE  RecordsInv'
  <2>1. UNCHANGED <<job, set, found>>
    BY <1>2 DEF Open, Fill, ReadFails, AdvanceOneByte, SlideWindow, SlideFails
  <2> QED
    BY <1>1, <2>1, RecordsRemain
<1>3. ASSUME EndOfFile PROVE RecordsInv'
  <2>1. pc = "scan" /\ UNCHANGED <<job, set, faults>>
    BY <1>3 DEF EndOfFile
  <2>2. CASE UNCHANGED found
    BY <1>1, <2>1, <2>2, RecordsRemain
  <2>3. CASE ~Fits /\ RecordPartial
    BY <2>1, <2>3, RestRecorded
  <2> QED
    BY <1>3, <2>2, <2>3 DEF EndOfFile
<1>4. ASSUME LoadVolume \/ Conclude \/ UNCHANGED vars PROVE RecordsInv'
  <2>1. UNCHANGED <<job, set, found>>
    BY <1>4 DEF LoadVolume, Conclude, vars
  <2> QED
    BY <1>1, <2>1, RecordsRemain
<1>5. ASSUME BeginScan PROVE RecordsInv'
  <2>1. pc = "load" /\ UNCHANGED <<job, found>>
    BY <1>5 DEF BeginScan
  <2>2. \A w \in DOMAIN job.disk : found[w] = {}
    BY <2>1 DEF VInv, PlaceInv
  <2> QED
    BY <2>1, <2>2 DEF RecordsInv
<1> QED
  BY <1>2, <1>3, <1>4, <1>5, AlignRecords, SkipRecords
  DEF Next, Scan, ScanStep, Exited

LEMMA AlwaysRecords == ASSUME SlidesRight PROVE Spec => [](VInv /\ RecordsInv)
<1>1. VInv /\ RecordsInv /\ [Next]_vars => (VInv /\ RecordsInv)'
  BY NextWindow, NextRecords
<1>2. Init => VInv /\ RecordsInv
  BY InitWindow, InitRecords
<1> QED
  BY <1>1, <1>2, PTL DEF Spec

\* What is recorded at an offset of a file is there: the block itself, or its
\* end padded with zeros, or after a short read what was read of it; equal
\* checksums never stand for equal blocks, and offsets survive slides and jumps
\* (insert_matching_blocks).
THEOREM RecordsHold == ASSUME SlidesRight PROVE Spec => []RecordsAreTrue
<1>1. VInv /\ RecordsInv => RecordsAreTrue
  BY DEF VInv, PlaceInv, RecordsInv, RecordsAreTrue, IsRecord
<1> QED
  BY <1>1, AlwaysRecords, PTL

-----------------------------------------------------------------------------
(* The set *)

\* What is known of a file is its length, and all of its slices or none.
SetInv ==
  \A f \in DOMAIN set :
    /\ f \in DOMAIN job.data /\ set[f].length = Len(job.data[f])
    /\ \/ set[f].slices = Cut(job.data[f])
       \/ set[f].slices = [i \in 1..Blocks(Len(job.data[f])) |-> Unknown]

LEMMA InitSet == Init => SetInv
BY DEF Init, SetInv

LEMMA NextSet == ASSUME SetInv, [Next]_vars PROVE SetInv'
<1>1. job' = job
  BY DEF Next, LoadVolume, BeginScan, Scan, ScanStep, Open, Fill, ReadFails,
         Align, SkipBlock, AdvanceOneByte, SlideWindow, SlideFails, EndOfFile,
         Conclude, Exited, vars
<1>2. CASE BeginScan /\ HasMain
  <2>1. set' = SetOf
    BY <1>2 DEF BeginScan
  <2>2. \A f \in DOMAIN SetOf :
          /\ f \in DOMAIN job.data /\ SetOf[f].length = Len(job.data[f])
          /\ \/ SetOf[f].slices = Cut(job.data[f])
             \/ SetOf[f].slices = [i \in 1..Blocks(Len(job.data[f])) |-> Unknown]
    BY DEF SetOf
  <2> HIDE DEF SetOf
  <2> QED
    BY <1>1, <2>1, <2>2 DEF SetInv, Cut, Blocks
<1>3. CASE ~(BeginScan /\ HasMain)
  <2>1. set' = set
    BY <1>3 DEF Next, LoadVolume, BeginScan, Scan, ScanStep, Open, Fill, ReadFails,
                Align, SkipBlock, AdvanceOneByte, SlideWindow, SlideFails,
                EndOfFile, Conclude, Exited, vars
  <2> QED
    BY <1>1, <2>1 DEF SetInv, Cut, Blocks
<1> QED
  BY <1>2, <1>3

-----------------------------------------------------------------------------
(* What is passed over *)

\* A block of the set lies at o, before the described length ends.
Wanted(w, o) ==
  LET bytes == job.disk[w].bytes
      limit == IF Extra(w) THEN Len(bytes) ELSE set[w].length
  IN  /\ FitsAt(o, bytes)
      /\ (o \div BlockSize) * BlockSize < limit
      /\ \E f \in DOMAIN set : WindowAt(o, bytes) \in ToSet(set[f].slices)

\* A block is recorded that covers o.
FoundAt(w, o) == \E e \in found[w] : e[1] \in (o - BlockSize + 1)..o

PassedInv ==
  ~job.skipping /\ faults = 0 =>
    \A w \in DOMAIN job.disk : ToScan(w) =>
      \A o \in 0..(Scanned(w) - 1) : Wanted(w, o) => FoundAt(w, o)

LEMMA ScannedIsNat ==
  ASSUME VInv, NEW w \in DOMAIN job.disk PROVE Scanned(w) \in Nat
<1>1. Len(job.disk[w].bytes) \in Nat
  BY DiskFacts, LenProperties DEF VInv
<1>2. w = which /\ pc \in {"scan", "slide"} => processed + position \in Nat
  BY WindowFacts DEF Windowed
<1> QED
  BY <1>1, <1>2 DEF Scanned

LEMMA AllScanned == VInv => \A w \in DOMAIN job.disk : Scanned(w) \in Nat
BY ScannedIsNat

LEMMA AllScannedNext ==
  VInv' => (\A w \in DOMAIN job.disk : Scanned(w) \in Nat)'
BY AllScanned, PTL

\* If what comes to be scanned in a step is dealt with, all that was scanned is.
LEMMA PassedGrows ==
  ASSUME VInv, VInv', PassedInv, job' = job, set' = set,
         faults' = 0 => faults = 0,
         \A w \in DOMAIN job.disk : found[w] \subseteq found'[w],
         \A w \in DOMAIN job.disk : \A o \in Nat :
           /\ ~job.skipping /\ faults' = 0 /\ ToScan(w)
           /\ Scanned(w) <= o /\ o < Scanned(w)' /\ Wanted(w, o)
           => FoundAt(w, o)'
  PROVE  PassedInv'
<1> SUFFICES ASSUME ~job.skipping, faults' = 0, NEW w \in DOMAIN job.disk,
                    ToScan(w), NEW o \in Nat, o < Scanned(w)', Wanted(w, o)
             PROVE  FoundAt(w, o)'
  <2>1. \A w \in DOMAIN job.disk : Scanned(w)' \in Nat
    BY AllScannedNext
  <2>2. \A w \in DOMAIN job.disk : \A o \in 0..(Scanned(w)' - 1) :
          o \in Nat /\ o < Scanned(w)'
    BY <2>1
  <2>3. \A w : (ToScan(w)' <=> ToScan(w)) /\ \A o : (Wanted(w, o)' <=> Wanted(w, o))
    BY DEF ToScan, Extra, Wanted
  <2> QED
    BY <2>2, <2>3 DEF PassedInv
<1>1. Scanned(w) \in Nat
  BY ScannedIsNat
<1>2. CASE o < Scanned(w)
  <2>1. o \in 0..(Scanned(w) - 1)
    BY <1>1, <1>2
  <2>2. FoundAt(w, o)
    BY <2>1 DEF PassedInv
  <2> QED
    BY <2>2 DEF FoundAt
<1>3. CASE ~(o < Scanned(w))
  BY <1>1, <1>3
<1> QED
  BY <1>2, <1>3

\* Nothing is scanned in a step that only moves the buffer.
LEMMA PassedStays ==
  ASSUME VInv, VInv', PassedInv, UNCHANGED <<job, set, found>>,
         faults' = 0 => faults = 0,
         \A w \in DOMAIN job.disk : Scanned(w)' = Scanned(w)
  PROVE  PassedInv'
<1>1. \A w \in DOMAIN job.disk : Scanned(w) \in Nat
  BY ScannedIsNat
<1>2. \A w \in DOMAIN job.disk : \A o \in Nat :
        ~(Scanned(w) <= o /\ o < Scanned(w)')
  BY <1>1
<1> QED
  BY <1>2, PassedGrows

\* A multiple of the block size that is not above a number is not above the
\* greatest such one.
LEMMA LessIsLess == \A i, q, n \in Nat : i < q => i * n + n <= q * n
  OBVIOUS

LEMMA MultipleBelow ==
  ASSUME NEW n \in Nat \ {0}, NEW k \in Nat, NEW o \in Nat, k * n <= o
  PROVE  k * n <= (o \div n) * n
<1> DEFINE q == o \div n
           r == o % n
<1>1. q \in Nat /\ r \in Nat /\ r < n /\ o = q * n + r /\ q * n \in Nat /\ k * n \in Nat
  OBVIOUS
<1> HIDE DEF q, r
<1>2. CASE q < k
  <2>1. q * n + n <= k * n
    BY <1>1, <1>2, LessIsLess
  <2> QED
    BY <1>1, <2>1
<1>3. CASE k <= q
  <2>1. k = q \/ k * n + n <= q * n
    BY <1>1, <1>3, LessIsLess
  <2> QED
    BY <1>1, <2>1 DEF q
<1> QED
  BY <1>1, <1>2, <1>3

\* The limit is the end of the file, or the length that is described.
LEMMA LimitIs ==
  ASSUME VInv, SetInv, which \in DOMAIN job.disk, ToScan(which)
  PROVE  /\ Limit = IF Extra(which) THEN Len(Disk) ELSE set[which].length
         /\ Limit \in Nat
<1>1. job.data \in Seq(Seq(CrcByte))
  BY JobsAssumption DEF VInv, PlaceInv
<1>2. Len(Disk) \in Nat /\ Len(job.data) \in Nat
  BY <1>1, DiskFacts, LenProperties DEF VInv, Disk
<1>3. ASSUME NEW f \in DOMAIN set
      PROVE  ~Extra(f) /\ set[f].length \in Nat
  <2>1. f \in DOMAIN job.data /\ set[f].length = Len(job.data[f])
    BY DEF SetInv
  <2>2. f \in 1..Len(job.data) /\ job.data[f] \in Seq(CrcByte)
    BY <1>1, <2>1, LenProperties, ElementOfSeq
  <2> QED
    BY <1>2, <2>1, <2>2, LenProperties DEF Extra
<1> QED
  BY <1>2, <1>3 DEF Limit, ToScan

\* The rest of a file holds no block within its limit once the limit is passed
\* or no whole block is left.
LEMMA NothingIsLeft ==
  ASSUME VInv, SetInv, pc \in {"align", "scan"}, faults = 0,
         processed >= Limit \/ ~Fits,
         NEW o \in Nat, processed + position <= o, Wanted(which, o),
         ToScan(which)
  PROVE  FALSE
<1>1. /\ which \in DOMAIN job.disk /\ Len(buffer) \in Nat /\ Len(Disk) \in Nat
      /\ position \in Nat /\ processed \in Nat /\ BlockSize \in Nat \ {0}
      /\ processed + Len(buffer) <= Len(Disk)
  BY WindowFacts DEF Windowed
<1>2. /\ FitsAt(o, Disk) /\ Limit \in Nat
      /\ (o \div BlockSize) * BlockSize < Limit
  BY <1>1, LimitIs DEF Wanted, Disk
<1>3. CASE processed >= Limit
  <2>1. PICK k \in Nat : processed = k * BlockSize
    BY DEF VInv, BufferInv, Windowed
  <2>2. k * BlockSize <= o
    BY <1>1, <2>1
  <2>3. k * BlockSize <= (o \div BlockSize) * BlockSize
    BY <1>1, <2>2, MultipleBelow
  <2> DEFINE q == (o \div BlockSize) * BlockSize
  <2>5. q \in Nat
    BY <1>1
  <2> HIDE DEF q
  <2> QED
    BY <1>1, <1>2, <1>3, <2>1, <2>3, <2>5 DEF q
<1>4. CASE ~Fits
  <2>1. position <= BlockSize /\ Len(buffer) = Least(2 * BlockSize, Len(Disk) - processed)
    BY <1>1 DEF VInv, BufferInv, Windowed
  <2>2. Len(buffer) < position + BlockSize
    BY <1>1, <1>4 DEF Fits, FitsAt
  <2>3. processed + Len(buffer) = Len(Disk)
    BY <1>1, <2>1, <2>2 DEF Least
  <2> QED
    BY <1>1, <1>2, <2>2, <2>3 DEF FitsAt
<1> QED
  BY <1>3, <1>4

\* A block that begins in the window is a hit there.
LEMMA WindowIsHit ==
  ASSUME VInv, pc = "scan", Fits, Wanted(which, processed + position)
  PROVE  HitsHere # {}
<1>1. position \in Nat /\ which \in DOMAIN job.disk
  BY WindowFacts DEF Windowed
<1>2. WindowAt(position, buffer) = WindowAt(processed + position, Disk)
  BY <1>1, WindowOfDisk DEF Windowed, Fits
<1>3. PICK f \in DOMAIN set : WindowAt(position, buffer) \in ToSet(set[f].slices)
  BY <1>2 DEF Wanted, Disk
<1>4. PICK i \in DOMAIN set[f].slices : set[f].slices[i] = WindowAt(position, buffer)
  BY <1>3 DEF ToSet
<1>5. crc # NoCrc => crc = Crc(WindowAt(position, buffer))
  BY DEF VInv, WindowIsOfFile
<1>6. HitsHere = Hits(Crc(WindowAt(position, buffer)), WindowAt(position, buffer))
  BY <1>5 DEF HitsHere
<1>7. <<f, i>> \in Hits(Crc(WindowAt(position, buffer)), WindowAt(position, buffer))
  BY <1>4 DEF Hits
<1> QED
  BY <1>6, <1>7

\* The aligned pass goes behind the first block only when it was a hit.
LEMMA AlignedIsHit ==
  ASSUME AlignedPrefix.next # 0
  PROVE  /\ 1 \in AlignedPrefix.matched
         /\ Hits(Crc(WindowAt((1 - 1) * BlockSize, buffer)),
                 WindowAt((1 - 1) * BlockSize, buffer)) # {}
<1> DEFINE whole == IF Len(buffer) >= 2 * BlockSize THEN 2 ELSE 0
           Matches(k) == Hits(Crc(WindowAt((k - 1) * BlockSize, buffer)),
                              WindowAt((k - 1) * BlockSize, buffer)) # {}
           matched == {k \in 1..whole : \A j \in 1..k : Matches(j)}
<1>1. /\ AlignedPrefix.matched = matched
      /\ Cardinality(matched) = 0 => AlignedPrefix.next = 0
  <2>1. 0 * BlockSize = 0
    BY ScannerAssumption
  <2> QED
    BY <2>1 DEF AlignedPrefix
<1>2. PICK k : k \in matched
  <2>1. matched # {}
    BY <1>1, FS_EmptySet
  <2> QED
    BY <2>1
<1>3. k \in 1..whole /\ \A j \in 1..k : Matches(j)
  BY <1>2
<1>4. 1 \in 1..whole /\ 1 \in 1..k /\ 1..1 \subseteq 1..k
  BY <1>3
<1>5. 1 \in matched /\ Matches(1)
  <2> HIDE DEF Matches, whole
  <2> QED
    BY <1>3, <1>4
<1> QED
  BY <1>1, <1>5

\* A record at p covers what begins within a block behind it.
LEMMA RecordCovers ==
  ASSUME NEW w, NEW p \in Nat, NEW h, <<p, h>> \in found[w],
         NEW o \in Nat, p <= o, o < p + BlockSize
  PROVE  FoundAt(w, o)
<1>1. p \in (o - BlockSize + 1)..o
  BY ScannerAssumption
<1> QED
  BY <1>1 DEF FoundAt

\* The scan of a file ends.
LEMMA FilePassed ==
  ASSUME VInv, VInv', SetInv, PassedInv, pc \in {"align", "scan"}, ToScan(which),
         UNCHANGED <<job, set, faults>>, ToNext,
         processed >= Limit \/ ~Fits,
         \A w \in DOMAIN job.disk : found[w] \subseteq found'[w]
  PROVE  PassedInv'
<1>1. /\ which \in DOMAIN job.disk /\ which \in Nat /\ which' = which + 1
      /\ pc' = "open" /\ job' = job
  BY DEF VInv, PlaceInv, Windowed, ToNext
<1>2. /\ position \in Nat /\ processed \in Nat
      /\ pc = "align" => processed + position = 0
  BY WindowFacts DEF VInv, BufferInv, Windowed
<1>3. DOMAIN job.disk \subseteq Nat
  <2>1. job.disk \in Seq([exists : BOOLEAN, bytes : Seq(CrcByte)])
    BY JobsAssumption DEF VInv, PlaceInv
  <2> QED
    BY <2>1, LenProperties
<1>4. \A w \in DOMAIN job.disk : w # which => Scanned(w)' = Scanned(w)
  <2>1. \A w \in DOMAIN job.disk : w # which => (w < which + 1 <=> w < which)
    BY <1>1, <1>3
  <2> QED
    BY <1>1, <2>1 DEF Scanned
<1>5. Scanned(which) = processed + position
  BY <1>1, <1>2 DEF Scanned
<1>6. ASSUME NEW w \in DOMAIN job.disk, NEW o \in Nat, faults' = 0,
             Scanned(w) <= o, o < Scanned(w)', Wanted(w, o)
      PROVE  FALSE
  <2>1. w = which
    BY <1>4, <1>6, ScannedIsNat
  <2> QED
    BY <1>5, <1>6, <2>1, NothingIsLeft
<1> QED
  BY <1>1, <1>6, PassedGrows

LEMMA RecordGrows ==
  ASSUME VInv, NEW offset, NEW hits, Record(offset, hits), which \in DOMAIN job.disk
  PROVE  /\ \A w \in DOMAIN job.disk : found[w] \subseteq found'[w]
         /\ \A h \in hits : <<offset, h>> \in found'[which]
BY DEF Record, VInv, PlaceInv

LEMMA PartialGrows ==
  ASSUME VInv, RecordPartial, which \in DOMAIN job.disk
  PROVE  \A w \in DOMAIN job.disk : found[w] \subseteq found'[w]
<1>1. CASE UNCHANGED found
  BY <1>1
<1>2. CASE ~UNCHANGED found
  BY <1>2, RecordGrows DEF RecordPartial
<1> QED
  BY <1>1, <1>2

LEMMA OpenPassed == ASSUME VInv, VInv', PassedInv, Open PROVE PassedInv'
<1>1. pc = "open" /\ UNCHANGED <<job, set, found>> /\ pc' \in {"open", "fill"}
  BY DEF Open
<1>2. which \in Nat /\ which' \in Nat /\ faults \in Nat
  BY DEF VInv, PlaceInv
<1>3. faults' = 0 => faults = 0
  BY FaultsRise, <1>2 DEF Open, Fault
<1>4. CASE which' = which
  <2>1. \A w \in DOMAIN job.disk : Scanned(w)' = Scanned(w)
    BY <1>1, <1>4 DEF Scanned
  <2> QED
    BY <1>1, <1>3, <2>1, PassedStays
<1>5. CASE which' # which
  <2>1. which' = which + 1 /\ pc' = "open" /\ (ToScan(which) => faults' # 0)
    BY <1>2, <1>5 DEF Open, Fault
  <2>2. \A w \in DOMAIN job.disk : w # which => Scanned(w)' = Scanned(w)
    <3>1. DOMAIN job.disk \subseteq Nat
      <4>1. job.disk \in Seq([exists : BOOLEAN, bytes : Seq(CrcByte)])
        BY JobsAssumption DEF VInv, PlaceInv
      <4> QED
        BY <4>1, LenProperties
    <3>2. \A w \in DOMAIN job.disk : w # which => (w < which + 1 <=> w < which)
      BY <1>2, <3>1
    <3> QED
      BY <1>1, <2>1, <3>2 DEF Scanned
  <2>3. ASSUME NEW w \in DOMAIN job.disk, NEW o \in Nat, faults' = 0, ToScan(w),
               Scanned(w) <= o, o < Scanned(w)'
        PROVE  FALSE
    BY <2>1, <2>2, <2>3, ScannedIsNat
  <2> QED
    BY <1>1, <1>3, <2>3, PassedGrows
<1> QED
  BY <1>4, <1>5

LEMMA SlidePassed == ASSUME VInv, VInv', PassedInv, SlideWindow PROVE PassedInv'
<1>1. /\ pc = "slide" /\ pc' = "scan" /\ UNCHANGED <<job, set, found, which>>
      /\ processed' = processed + BlockSize /\ position' = position - BlockSize
      /\ \E kept : ReadAfter(kept)
  BY DEF SlideWindow, SlidOut, SlidPosition
<1>2. position \in Nat /\ processed \in Nat /\ BlockSize \in Nat
  BY <1>1, WindowFacts DEF Windowed
<1>3. processed' + position' = processed + position
  BY <1>1, <1>2
<1>4. faults' = 0 => faults = 0
  BY <1>1 DEF ReadAfter, Fault, VInv, PlaceInv
<1>5. \A w \in DOMAIN job.disk : Scanned(w)' = Scanned(w)
  BY <1>1, <1>3 DEF Scanned
<1> QED
  BY <1>1, <1>4, <1>5, PassedStays

LEMMA FillPassed == ASSUME VInv, VInv', PassedInv, Fill PROVE PassedInv'
<1>1. /\ pc = "fill" /\ pc' = "align" /\ UNCHANGED <<job, set, found, which>>
      /\ \E kept : ReadAfter(kept)
  BY DEF Fill
<1>2. faults' = 0 => faults = 0
  BY <1>1 DEF ReadAfter, Fault, VInv, PlaceInv
<1>3. \A w \in DOMAIN job.disk : Scanned(w)' = Scanned(w)
  BY <1>1 DEF Scanned
<1> QED
  BY <1>1, <1>2, <1>3, PassedStays

LEMMA AlignPassed ==
  ASSUME VInv, VInv', SetInv, PassedInv, Align, ToScan(which) PROVE PassedInv'
<1>1. pc = "align" /\ UNCHANGED <<job, set, faults>>
  BY DEF Align
<1>2. /\ which \in DOMAIN job.disk /\ position = 0 /\ processed = 0
  BY <1>1 DEF VInv, PlaceInv, BufferInv, Windowed
<1>3. CASE Len(buffer) \in 1..(BlockSize - 1)
  <2>1. RecordPartial /\ ToNext
    BY <1>3 DEF Align, NextFile
  <2>2. ~Fits
    BY <1>2, <1>3, ScannerAssumption DEF Fits, FitsAt
  <2>3. \A w \in DOMAIN job.disk : found[w] \subseteq found'[w]
    BY <1>2, <2>1, PartialGrows
  <2> QED
    BY <1>1, <2>1, <2>2, <2>3, FilePassed
<1>4. CASE Len(buffer) \notin 1..(BlockSize - 1)
  <2> DEFINE At(k) == (k - 1) * BlockSize
             HitsAt(k) == Hits(Crc(WindowAt(At(k), buffer)), WindowAt(At(k), buffer))
             new == UNION {{<<At(k), e>> : e \in HitsAt(k)} : k \in AlignedPrefix.matched}
  <2>1. /\ found' = [found EXCEPT ![which] = @ \cup new]
        /\ position' = AlignedPrefix.next /\ pc' = "scan"
        /\ UNCHANGED <<which, processed>>
    BY <1>4 DEF Align
  <2>2. position' \in {0, BlockSize}
    BY <2>1, AlignedNext
  <2>3. position' # 0 => \E h : <<0, h>> \in new
    <3>1. At(1) = 0
      BY ScannerAssumption
    <3>2. position' # 0 => 1 \in AlignedPrefix.matched /\ HitsAt(1) # {}
      BY <2>1, AlignedIsHit
    <3> QED
      BY <3>1, <3>2
  <2> HIDE DEF At, HitsAt, new
  <2>4. \A w \in DOMAIN job.disk : found[w] \subseteq found'[w]
    BY <2>1 DEF VInv, PlaceInv
  <2>5. \A w \in DOMAIN job.disk : w # which => Scanned(w)' = Scanned(w)
    BY <1>1, <2>1 DEF Scanned
  <2>6. \A w \in DOMAIN job.disk :
          w = which => Scanned(w) = 0 /\ Scanned(w)' = position'
    <3>1. which \in Nat
      BY DEF VInv, PlaceInv
    <3>2. position' \in Nat
      BY <2>2, ScannerAssumption
    <3>3. \A n \in Nat : ~(n < n) /\ 0 + n = n
      OBVIOUS
    <3> QED
      BY <1>1, <1>2, <2>1, <3>1, <3>2, <3>3 DEF Scanned
  <2>7. ASSUME NEW w \in DOMAIN job.disk, NEW o \in Nat,
               Scanned(w) <= o, o < Scanned(w)'
        PROVE  FoundAt(w, o)'
    <3>1. w = which
      BY <2>5, <2>7, ScannedIsNat
    <3>2. position' = BlockSize /\ o < BlockSize
      <4>1. 0 <= o /\ o < position'
        BY <2>6, <2>7, <3>1
      <4> QED
        BY <2>2, <4>1
    <3>3. PICK h : <<0, h>> \in found'[which]
      <4>1. BlockSize # 0
        BY ScannerAssumption
      <4> QED
        BY <1>2, <2>1, <2>3, <3>2, <4>1 DEF VInv, PlaceInv
    <3>4. 0 \in (o - BlockSize + 1)..o
      BY <3>2, ScannerAssumption
    <3> QED
      BY <3>1, <3>3, <3>4 DEF FoundAt
  <2> QED
    BY <1>1, <2>4, <2>7, PassedGrows
<1> QED
  BY <1>3, <1>4

LEMMA MovePassed ==
  ASSUME VInv, VInv', PassedInv, UNCHANGED <<job, set, which, processed, faults>>,
         pc = "scan", pc' \in {"scan", "slide"},
         \A w \in DOMAIN job.disk : found[w] \subseteq found'[w],
         \A o \in Nat : /\ ~job.skipping /\ Wanted(which, o)
                        /\ processed + position <= o /\ o < processed + position'
                        => FoundAt(which, o)'
  PROVE  PassedInv'
<1>1. \A w \in DOMAIN job.disk : w # which => Scanned(w)' = Scanned(w)
  BY DEF Scanned
<1>2. /\ Scanned(which) = processed + position
      /\ Scanned(which)' = processed + position'
  <2>1. which \in Nat /\ ~(which < which)
    BY DEF VInv, PlaceInv
  <2> QED
    BY <2>1 DEF Scanned
<1>3. ASSUME NEW w \in DOMAIN job.disk, NEW o \in Nat, ~job.skipping, Wanted(w, o),
             Scanned(w) <= o, o < Scanned(w)'
      PROVE  FoundAt(w, o)'
  <2>1. w = which
    BY <1>1, <1>3, ScannedIsNat
  <2> QED
    BY <1>2, <1>3, <2>1
<1> QED
  BY <1>3, PassedGrows

LEMMA SkipPassed == ASSUME VInv, VInv', PassedInv, SkipBlock PROVE PassedInv'
<1>1. /\ pc = "scan" /\ UNCHANGED <<job, set, which, processed, faults>>
      /\ Record(processed + position, HitsHere) /\ HitsHere # {}
      /\ position' = position + BlockSize /\ pc' \in {"scan", "slide"}
  BY DEF SkipBlock, Scanning, Move
<1>2. /\ which \in DOMAIN job.disk /\ position \in Nat /\ processed \in Nat
      /\ BlockSize \in Nat \ {0}
  BY <1>1, WindowFacts DEF Windowed
<1>3. /\ \A w \in DOMAIN job.disk : found[w] \subseteq found'[w]
      /\ \E h : <<processed + position, h>> \in found'[which]
  BY <1>1, <1>2, RecordGrows
<1>4. ASSUME NEW o \in Nat, processed + position <= o, o < processed + position'
      PROVE  FoundAt(which, o)'
  <2>1. processed + position \in (o - BlockSize + 1)..o
    BY <1>1, <1>2, <1>4
  <2>2. PICK h : <<processed + position, h>> \in found'[which]
    BY <1>3
  <2> QED
    BY <1>1, <2>1, <2>2 DEF FoundAt
<1> QED
  BY <1>1, <1>3, <1>4, MovePassed

LEMMA AdvancePassed ==
  ASSUME VInv, VInv', PassedInv, AdvanceOneByte PROVE PassedInv'
<1>1. /\ pc = "scan" /\ Fits /\ HitsHere = {}
      /\ UNCHANGED <<job, set, which, processed, faults, found>>
      /\ pc' \in {"scan", "slide"}
      /\ ~job.skipping => position' = position + 1
  BY DEF AdvanceOneByte, Scanning, Move
<1>2. position \in Nat /\ processed \in Nat
  BY <1>1, WindowFacts DEF Windowed
<1>3. ASSUME NEW o \in Nat, ~job.skipping, Wanted(which, o),
             processed + position <= o, o < processed + position'
      PROVE  FoundAt(which, o)'
  <2>1. o = processed + position
    BY <1>1, <1>2, <1>3
  <2> QED
    BY <1>1, <1>3, <2>1, WindowIsHit
<1> QED
  BY <1>1, <1>3, MovePassed

LEMMA EndPassed ==
  ASSUME VInv, VInv', SetInv, PassedInv, EndOfFile, ToScan(which) PROVE PassedInv'
<1>1. /\ pc = "scan" /\ UNCHANGED <<job, set, faults>> /\ ToNext
      /\ \/ processed >= Limit /\ UNCHANGED found
         \/ ~Fits /\ RecordPartial
  BY DEF EndOfFile, NextFile
<1>2. which \in DOMAIN job.disk
  BY <1>1 DEF VInv, PlaceInv, Windowed
<1>3. \A w \in DOMAIN job.disk : found[w] \subseteq found'[w]
  BY <1>1, <1>2, PartialGrows
<1> QED
  BY <1>1, <1>3, FilePassed

\* A failing read is a fault, after which nothing is promised.
LEMMA FaultPassed == ASSUME VInv, Fault PROVE PassedInv'
BY FaultCounts DEF PassedInv

\* Only files that are to be scanned are.
ScansInv == pc \in {"fill"} \cup Windowed => ToScan(which)

LEMMA NextScans == ASSUME VInv, ScansInv, [Next]_vars PROVE ScansInv'
<1>1. ASSUME Open PROVE ScansInv'
  <2>1. /\ pc' = "fill" => ToScan(which) /\ which' = which
        /\ pc' \in {"open", "fill"} /\ UNCHANGED <<job, set>>
    BY <1>1 DEF Open
  <2> QED
    BY <2>1 DEF ScansInv, ToScan, Extra, Windowed
<1>2. ASSUME ToNext PROVE ScansInv'
  BY <1>2 DEF ToNext, ScansInv, Windowed
<1>3. ASSUME UNCHANGED <<job, set, which>>, pc' \in {"fill"} \cup Windowed => pc \in {"fill"} \cup Windowed
      PROVE  ScansInv'
  BY <1>3 DEF ScansInv, ToScan, Extra
<1>4. ASSUME Fill \/ SkipBlock \/ AdvanceOneByte \/ SlideWindow PROVE ScansInv'
  <2>1. UNCHANGED <<job, set, which>> /\ pc \in {"fill"} \cup Windowed
    BY <1>4 DEF Fill, SkipBlock, AdvanceOneByte, SlideWindow, Scanning, Windowed
  <2> QED
    BY <1>3, <2>1
<1>5. ASSUME Align PROVE ScansInv'
  <2>1. pc = "align" /\ (ToNext \/ UNCHANGED <<job, set, which>>)
    BY <1>5 DEF Align, NextFile
  <2> QED
    BY <1>2, <1>3, <2>1 DEF Windowed
<1>6. ASSUME ReadFails \/ SlideFails \/ EndOfFile PROVE ScansInv'
  BY <1>2, <1>6 DEF ReadFails, SlideFails, EndOfFile, NextFile
<1>7. ASSUME LoadVolume \/ UNCHANGED vars PROVE ScansInv'
  BY <1>3, <1>7 DEF LoadVolume, vars
<1>8. ASSUME BeginScan \/ Conclude PROVE ScansInv'
  BY <1>8 DEF BeginScan, Conclude, Exit, ScansInv, Windowed
<1> QED
  BY <1>1, <1>4, <1>5, <1>6, <1>7, <1>8 DEF Next, Scan, ScanStep, Exited

LEMMA InitPassed == Init => ScansInv /\ PassedInv
<1> SUFFICES ASSUME Init PROVE ScansInv /\ PassedInv
  OBVIOUS
<1>1. pc = "load" /\ which = 1 /\ job \in Jobs
  BY DEF Init
<1>2. DOMAIN job.disk \subseteq Nat \ {0}
  <2>1. job.disk \in Seq([exists : BOOLEAN, bytes : Seq(CrcByte)])
    BY <1>1, JobsAssumption
  <2> QED
    BY <2>1, LenProperties
<1>3. \A w \in DOMAIN job.disk : Scanned(w) = 0
  BY <1>1, <1>2 DEF Scanned
<1> QED
  BY <1>1, <1>3 DEF ScansInv, PassedInv, Windowed

LEMMA NextPassed ==
  ASSUME VInv, VInv', SetInv, ScansInv, PassedInv, [Next]_vars PROVE PassedInv'
<1>1. ASSUME ReadFails \/ SlideFails PROVE PassedInv'
  BY <1>1, FaultPassed DEF ReadFails, SlideFails
<1>2. ASSUME Align \/ EndOfFile PROVE PassedInv'
  <2>1. ToScan(which)
    BY <1>2 DEF Align, EndOfFile, ScansInv, Windowed
  <2> QED
    BY <1>2, <2>1, AlignPassed, EndPassed
<1>3. DOMAIN job.disk \subseteq Nat \ {0}
  <2>1. job.disk \in Seq([exists : BOOLEAN, bytes : Seq(CrcByte)])
    BY JobsAssumption DEF VInv, PlaceInv
  <2> QED
    BY <2>1, LenProperties
<1>4. ASSUME LoadVolume \/ Conclude \/ UNCHANGED vars PROVE PassedInv'
  <2>1. UNCHANGED <<job, set, found, which, processed, position>>
    BY <1>4 DEF LoadVolume, Conclude, vars
  <2>2. faults' = 0 => faults = 0
    BY FaultsRise
  <2>3. \/ pc' = pc
        \/ pc \in {"open", "conclude"} /\ pc' = "exit"
    BY <1>4 DEF LoadVolume, Conclude, Exit, vars
  <2>4. \A w \in DOMAIN job.disk : Scanned(w)' = Scanned(w)
    BY <2>1, <2>3 DEF Scanned
  <2> QED
    BY <2>1, <2>2, <2>4, PassedStays
<1>5. ASSUME BeginScan PROVE PassedInv'
  <2>1. /\ which' = 1 /\ pc' \in {"open", "conclude"} /\ job' = job
    BY <1>5 DEF BeginScan, VInv, PlaceInv
  <2>2. \A w \in DOMAIN job.disk : Scanned(w)' = 0
    BY <1>3, <2>1 DEF Scanned
  <2> QED
    BY <2>1, <2>2 DEF PassedInv
<1> QED
  BY <1>1, <1>2, <1>4, <1>5, OpenPassed, FillPassed, SkipPassed, AdvancePassed,
     SlidePassed
  DEF Next, Scan, ScanStep, Exited

LEMMA AlwaysPassed ==
  ASSUME SlidesRight PROVE Spec => [](VInv /\ SetInv /\ ScansInv /\ PassedInv)
<1>1. /\ VInv /\ SetInv /\ ScansInv /\ PassedInv /\ [Next]_vars
      => (VInv /\ SetInv /\ ScansInv /\ PassedInv)'
  BY NextWindow, NextSet, NextScans, NextPassed
<1>2. Init => VInv /\ SetInv /\ ScansInv /\ PassedInv
  BY InitWindow, InitSet, InitPassed
<1> QED
  BY <1>1, <1>2, PTL DEF Spec

\* Without short reads and data skipping no whole block of the set within the
\* described length of a file is passed over: at each place where one lies it,
\* or one that overlaps it, is recorded, for any size of block, any alignment
\* and any set (scan_single_file_with_progress).
THEOREM NothingPassed == ASSUME SlidesRight PROVE Spec => []BlocksAreFound
<1>1. PassedInv => BlocksAreFound
  BY DEF PassedInv, BlocksAreFound, Wanted, FoundAt
<1> QED
  BY <1>1, AlwaysPassed, PTL

-----------------------------------------------------------------------------
(* Types *)

\* The checksum of a block is a checksum.
LEMMA BlockHasValue ==
  ASSUME SlidesRight, NEW b \in Seq(CrcByte), Len(b) = BlockSize
  PROVE  Crc(b) \in CrcValue
<1> DEFINE w == [i \in 1..(BlockSize + 1) |-> IF i <= BlockSize THEN b[i] ELSE b[1]]
<1>1. BlockSize \in Nat \ {0}
  BY ScannerAssumption
<1>2. w \in [1..(BlockSize + 1) -> CrcByte]
  <2>1. \A i \in 1..BlockSize : b[i] \in CrcByte
    BY ElementOfSeq
  <2> QED
    BY <1>1, <2>1
<1>3. w \in Seq(CrcByte) /\ Len(w) = BlockSize + 1
  BY <1>1, <1>2
<1>4. \A i \in 1..BlockSize : w[i] = b[i]
  BY <1>1
<1> HIDE DEF w
<1>5. SubSeq(w, 1, BlockSize) = b
  <2> DEFINE v == SubSeq(w, 0 + 1, 0 + BlockSize)
  <2>1. v \in Seq(CrcByte) /\ Len(v) = BlockSize /\ \A i \in 1..BlockSize : v[i] = w[0 + i]
    BY <1>1, <1>3, PartOf
  <2>2. v = SubSeq(w, 1, BlockSize)
    BY <1>1
  <2> HIDE DEF v
  <2>3. \A i \in 1..BlockSize : v[i] = b[i]
    BY <1>4, <2>1
  <2>4. v = b
    BY <2>1, <2>3, SeqEqual
  <2> QED
    BY <2>2, <2>4
<1> QED
  BY <1>2, <1>5 DEF SlidesRight

LEMMA CrcIsValue ==
  ASSUME SlidesRight, VInv PROVE crc \in CrcValue \cup {NoCrc}
<1>1. CASE pc \in Windowed /\ crc # NoCrc
  <2>1. Fits /\ crc = Crc(WindowAt(position, buffer))
    BY <1>1 DEF VInv, WindowIsOfFile, Windowed
  <2>2. /\ buffer \in Seq(CrcByte) /\ position \in Nat /\ BlockSize \in Nat
        /\ position + BlockSize <= Len(buffer)
    BY <1>1, <2>1, WindowFacts DEF Fits, FitsAt
  <2>3. /\ WindowAt(position, buffer) \in Seq(CrcByte)
        /\ Len(WindowAt(position, buffer)) = BlockSize
    BY <2>2, PartOf DEF WindowAt
  <2> QED
    BY <2>1, <2>3, BlockHasValue
<1>2. CASE ~(pc \in Windowed /\ crc # NoCrc)
  BY <1>2 DEF VInv, PlaceInv
<1> QED
  BY <1>1, <1>2

Outcomes == {"none", "ok", "repairable", "impossible", "renamed", "error"}

LEMMA NextOutcome ==
  ASSUME outcome \in Outcomes, [Next]_vars PROVE outcome' \in Outcomes
<1>1. CASE Conclude
  BY <1>1 DEF Conclude, Exit, Outcomes
<1>2. CASE ~Conclude
  <2>1. outcome' = outcome
    BY <1>2 DEF Next, LoadVolume, BeginScan, Scan, Exited, vars
  <2> QED
    BY <2>1
<1> QED
  BY <1>1, <1>2

\* The window lies in the buffer, the rolling checksum is a checksum and all
\* that is recorded names a block of the set, for any volumes and files.
THEOREM Types == ASSUME SlidesRight PROVE Spec => []TypeOK
<1>1. ASSUME VInv, RecordsInv, outcome \in Outcomes PROVE TypeOK
  <2>1. Len(buffer) <= 2 * BlockSize /\ position \in 0..(2 * BlockSize)
    <3>1. CASE pc \in Windowed
      <4>1. position \in Nat /\ BlockSize \in Nat /\ Len(buffer) <= 2 * BlockSize
        BY <1>1, <3>1, WindowFacts
      <4>2. position <= 2 * BlockSize
        BY <1>1, <3>1, <4>1 DEF VInv, BufferInv, Windowed
      <4> QED
        BY <4>1, <4>2
    <3>2. CASE pc \notin Windowed
      <4>1. buffer = <<>> /\ position = 0
        BY <1>1, <3>2 DEF VInv, PlaceInv
      <4> QED
        BY <4>1, ScannerAssumption
    <3> QED
      BY <3>1, <3>2
  <2>2. pc \in {"load", "open", "fill", "align", "scan", "slide", "conclude",
                "exit"}
    BY <1>1 DEF VInv, PlaceInv, Windowed
  <2>3. \A w \in DOMAIN found : \A e \in found[w] :
          e[2][1] \in DOMAIN set /\ e[2][2] \in DOMAIN set[e[2][1]].slices
    BY <1>1 DEF VInv, PlaceInv, RecordsInv, IsRecord
  <2> QED
    BY <1>1, <2>1, <2>2, <2>3, CrcIsValue DEF TypeOK, Outcomes
<1>2. Init => outcome \in Outcomes
  BY DEF Init, Outcomes
<1>3. outcome \in Outcomes /\ [Next]_vars => (outcome \in Outcomes)'
  BY NextOutcome
<1> QED
  BY <1>1, <1>2, <1>3, AlwaysRecords, PTL DEF Spec

-----------------------------------------------------------------------------
(* Progress *)

LEMMA Rises ==
  ASSUME NEW a1, NEW a2, NEW a3, NEW a4, NEW b1, NEW b2, NEW b3, NEW b4,
         \/ a1 > b1
         \/ a1 = b1 /\ a2 > b2
         \/ a1 = b1 /\ a2 = b2 /\ a3 > b3
         \/ a1 = b1 /\ a2 = b2 /\ a3 = b3 /\ a4 > b4
  PROVE  Exceeds(<<a1, a2, a3, a4>>, <<b1, b2, b3, b4>>)
<1> DEFINE s == <<a1, a2, a3, a4>>
           t == <<b1, b2, b3, b4>>
<1>1. DOMAIN s = 1..4
  OBVIOUS
<1>2. CASE a1 > b1
  <2>1. s[1] > t[1] /\ \A j \in 1..(1 - 1) : s[j] = t[j]
    BY <1>2
  <2> QED
    BY <1>1, <2>1 DEF Exceeds
<1>3. CASE a1 = b1 /\ a2 > b2
  <2>1. s[2] > t[2] /\ \A j \in 1..(2 - 1) : s[j] = t[j]
    BY <1>3
  <2> QED
    BY <1>1, <2>1 DEF Exceeds
<1>4. CASE a1 = b1 /\ a2 = b2 /\ a3 > b3
  <2>1. s[3] > t[3] /\ \A j \in 1..(3 - 1) : s[j] = t[j]
    BY <1>4
  <2> QED
    BY <1>1, <2>1 DEF Exceeds
<1>5. CASE a1 = b1 /\ a2 = b2 /\ a3 = b3 /\ a4 > b4
  <2>1. s[4] > t[4] /\ \A j \in 1..(4 - 1) : s[j] = t[j]
    BY <1>5
  <2> QED
    BY <1>1, <2>1 DEF Exceeds
<1> QED
  BY <1>2, <1>3, <1>4, <1>5

\* One step of the lexicographic order.
Rose ==
  \/ volume' > volume
  \/ volume' = volume /\ which' > which
  \/ volume' = volume /\ which' = which /\ 2 * processed' + position' > 2 * processed + position
  \/ /\ volume' = volume /\ which' = which
     /\ 2 * processed' + position' = 2 * processed + position
     /\ Stage[pc'] > Stage[pc]

LEMMA ScanRises == ASSUME VInv, ScanStep, volume' = volume PROVE Rose
<1>0. which \in Nat /\ which + 1 > which
  BY DEF VInv, PlaceInv
<1>1. ASSUME ToNext PROVE Rose
  BY <1>0, <1>1 DEF ToNext, Rose
<1>2. ASSUME Open PROVE Rose
  <2>1. CASE pc' = "open" /\ which' = which + 1
    BY <1>0, <2>1 DEF Rose
  <2>2. CASE pc' = "fill" /\ which' = which
    <3>1. pc = "open" /\ UNCHANGED <<processed, position>>
      BY <1>2 DEF Open
    <3>2. Stage[pc'] > Stage[pc]
      BY <2>2, <3>1 DEF Stage
    <3> QED
      BY <2>2, <3>1, <3>2 DEF Rose
  <2> QED
    BY <1>2, <2>1, <2>2 DEF Open
<1>3. ASSUME Fill PROVE Rose
  <2>1. pc = "fill" /\ pc' = "align" /\ UNCHANGED <<which, processed, position>>
    BY <1>3 DEF Fill
  <2>2. Stage[pc'] > Stage[pc]
    BY <2>1 DEF Stage
  <2> QED
    BY <2>1, <2>2 DEF Rose
<1>4. ASSUME Align PROVE Rose
  <2>1. CASE Len(buffer) \in 1..(BlockSize - 1)
    BY <1>1, <1>4, <2>1 DEF Align, NextFile
  <2>2. CASE Len(buffer) \notin 1..(BlockSize - 1)
    <3>1. /\ pc = "align" /\ pc' = "scan" /\ UNCHANGED <<which, processed>>
          /\ position' = AlignedPrefix.next
      BY <1>4, <2>2 DEF Align
    <3>2. position = 0 /\ processed = 0
      BY <3>1 DEF VInv, BufferInv, Windowed
    <3>3. position' = 0 \/ 2 * processed' + position' > 2 * processed + position
      BY <3>1, <3>2, AlignedNext, ScannerAssumption
    <3>4. Stage[pc'] > Stage[pc]
      BY <3>1 DEF Stage
    <3> QED
      BY <3>1, <3>2, <3>3, <3>4 DEF Rose
  <2> QED
    BY <2>1, <2>2
<1>5. ASSUME SkipBlock \/ AdvanceOneByte PROVE Rose
  <2>1. pc = "scan" /\ UNCHANGED <<which, processed>>
    BY <1>5 DEF SkipBlock, AdvanceOneByte, Scanning
  <2>2. position \in Nat /\ processed \in Nat /\ BlockSize \in Nat \ {0}
    BY <2>1, WindowFacts DEF Windowed
  <2>3. \/ position' = position + BlockSize
        \/ position' = position + 1
        \/ position' = position + 1 + ScanSkip /\ ScanSkip > 0
    BY <1>5 DEF SkipBlock, AdvanceOneByte, Move
  <2>4. ScanSkip \in Int
    <3>1. 2 * Leeway \in Nat /\ BlockSize \in Nat
      BY ScannerAssumption
    <3> QED
      BY <3>1 DEF ScanSkip, ScanDistance, Least
  <2>5. PICK p \in Int : position' = p /\ p > position
    BY <2>2, <2>3, <2>4
  <2>6. 2 * processed' + position' > 2 * processed + position
    <3>1. 2 * processed + p > 2 * processed + position
      BY <2>2, <2>5
    <3> QED
      BY <2>1, <2>5, <3>1
  <2> QED
    BY <2>1, <2>6 DEF Rose
<1>6. ASSUME SlideWindow PROVE Rose
  <2>1. /\ pc = "slide" /\ which' = which
        /\ processed' = processed + BlockSize /\ position' = position - BlockSize
    BY <1>6 DEF SlideWindow, SlidOut, SlidPosition
  <2>2. position \in Nat /\ processed \in Nat /\ BlockSize \in Nat \ {0}
    BY <2>1, WindowFacts DEF Windowed
  <2>3. 2 * processed' + position' > 2 * processed + position
    BY <2>1, <2>2
  <2> QED
    BY <2>1, <2>3 DEF Rose
<1>7. ASSUME ReadFails \/ SlideFails \/ EndOfFile PROVE Rose
  BY <1>1, <1>7 DEF ReadFails, SlideFails, EndOfFile, NextFile
<1> QED
  BY <1>2, <1>3, <1>4, <1>5, <1>6, <1>7 DEF ScanStep

LEMMA NextRises == ASSUME VInv, Next, vars' # vars PROVE Rose
<1>1. ASSUME Scan PROVE Rose
  BY <1>1, ScanRises DEF Scan, loadVars
<1>2. ASSUME LoadVolume PROVE Rose
  <2>1. volume' = volume + 1 /\ volume \in Nat
    BY <1>2 DEF LoadVolume, VInv, PlaceInv
  <2> QED
    BY <2>1 DEF Rose
<1>3. ASSUME BeginScan \/ Conclude PROVE Rose
  <2>1. /\ UNCHANGED <<volume, which, processed, position>>
        /\ \/ pc = "load" /\ pc' \in {"open", "conclude"}
           \/ pc \in {"open", "conclude"} /\ pc' = "exit"
    BY <1>3 DEF BeginScan, Conclude, Exit, loadVars
  <2>2. Stage[pc'] > Stage[pc]
    BY <2>1 DEF Stage
  <2> QED
    BY <2>1, <2>2 DEF Rose
<1> QED
  BY <1>1, <1>2, <1>3 DEF Next, Exited

\* Every step of the command gets further: to the next volume, the next file, a
\* later byte of the file or a later stage; no jump, skip or slide leaves the
\* scan where it was, for any size of block, leeway and faults.
THEOREM StepsMoveOn == ASSUME SlidesRight PROVE Spec => EveryStepMovesOn
<1>1. VInv /\ [Next]_vars => [Exceeds(Progress', Progress)]_vars
  <2> SUFFICES ASSUME VInv, Next, vars' # vars PROVE Exceeds(Progress', Progress)
    OBVIOUS
  <2>1. Rose
    BY NextRises
  <2>2. Progress' = <<volume', which', 2 * processed' + position', Stage[pc']>>
    BY DEF Progress, Stage
  <2>3. Exceeds(<<volume', which', 2 * processed' + position', Stage[pc']>>,
                <<volume, which, 2 * processed + position, Stage[pc]>>)
    BY <2>1, Rises DEF Rose
  <2> QED
    BY <2>2, <2>3 DEF Progress
<1> QED
  BY <1>1, AlwaysWindow, PTL DEF Spec, EveryStepMovesOn

-----------------------------------------------------------------------------
(* What success means *)

\* Every slice of every file of the set is recorded somewhere.
AllFound ==
  \A f \in DOMAIN set : \A i \in DOMAIN set[f].slices :
    \E w \in DOMAIN job.disk : \E e \in found[w] :
      set[e[2][1]].slices[e[2][2]] = set[f].slices[i]

OkInv == outcome = "ok" \/ purged => pc = "exit" /\ AllFound

LEMMA FilesAreFinite ==
  ASSUME job \in Jobs, SetInv PROVE IsFiniteSet(DOMAIN set)
<1>1. job.data \in Seq(Seq(CrcByte))
  BY JobsAssumption
<1>2. DOMAIN job.data = 1..Len(job.data) /\ Len(job.data) \in Nat
  BY <1>1, LenProperties
<1>3. IsFiniteSet(1..Len(job.data))
  BY <1>2, FS_Interval
<1>4. DOMAIN set \in SUBSET (1..Len(job.data))
  BY <1>2 DEF SetInv
<1> QED
  BY <1>3, <1>4, FS_Subset

\* A file has as many slices as its length says.
LEMMA SlicesOfSet ==
  ASSUME job \in Jobs, SetInv, NEW f \in DOMAIN set
  PROVE  /\ Blocks(set[f].length) \in Nat
         /\ DOMAIN set[f].slices = 1..Blocks(set[f].length)
<1>1. job.data \in Seq(Seq(CrcByte)) /\ f \in DOMAIN job.data
  BY JobsAssumption DEF SetInv
<1>2. set[f].length = Len(job.data[f]) /\ Len(job.data[f]) \in Nat
  BY <1>1, ElementOfSeq, LenProperties DEF SetInv
<1>3. \A n \in Nat : (n + BlockSize - 1) \div BlockSize \in Nat
  BY ScannerAssumption
<1>4. DOMAIN set[f].slices = 1..Blocks(set[f].length)
  BY <1>2 DEF SetInv, Cut
<1> QED
  BY <1>2, <1>3, <1>4 DEF Blocks

LEMMA MissingIsFinite ==
  ASSUME job \in Jobs, SetInv
  PROVE  IsFiniteSet(UNION {{g} \X MissingOf(g) : g \in DOMAIN set})
<1> DEFINE m == [g \in DOMAIN set |-> {g} \X MissingOf(g)]
           T == {m[g] : g \in DOMAIN set}
<1>1. IsFiniteSet(T)
  <2>1. m \in Surjection(DOMAIN set, T)
    BY DEF Surjection
  <2> HIDE DEF m, T
  <2> QED
    BY <2>1, FilesAreFinite, FS_Surjection
<1>2. ASSUME NEW g \in DOMAIN set PROVE IsFiniteSet({g} \X MissingOf(g))
  <2>1. Blocks(set[g].length) \in Nat
    BY SlicesOfSet
  <2>2. IsFiniteSet(1..Blocks(set[g].length))
    BY <2>1, FS_Interval
  <2>3. MissingOf(g) \in SUBSET (1..Blocks(set[g].length))
    BY DEF MissingOf
  <2>4. IsFiniteSet(MissingOf(g))
    BY <2>2, <2>3, FS_Subset
  <2>5. IsFiniteSet({g})
    BY FS_Singleton
  <2> QED
    BY <2>4, <2>5, FS_Product
<1>3. \A t \in T : IsFiniteSet(t)
  BY <1>2
<1>4. UNION T = UNION {{g} \X MissingOf(g) : g \in DOMAIN set}
  OBVIOUS
<1> HIDE DEF T
<1>5. IsFiniteSet(UNION T)
  BY <1>1, <1>3, FS_UNION
<1> QED
  BY <1>4, <1>5

LEMMA NoneIsMissing ==
  ASSUME VInv, SetInv, MissingCount = 0, NEW f \in DOMAIN set
  PROVE  MissingOf(f) = {}
<1> DEFINE missing == UNION {{g} \X MissingOf(g) : g \in DOMAIN set}
<1>1. IsFiniteSet(missing)
  BY MissingIsFinite DEF VInv, PlaceInv
<1>2. missing = {}
  <2>1. Cardinality(missing) = 0
    BY DEF MissingCount
  <2> HIDE DEF missing
  <2> QED
    BY <1>1, <2>1, FS_EmptySet
<1> SUFFICES ASSUME NEW i \in MissingOf(f) PROVE FALSE
  OBVIOUS
<1>3. <<f, i>> \in missing
  OBVIOUS
<1> QED
  BY <1>2, <1>3

\* If none of the blocks listed for a file is missing, all its slices are
\* listed for it, and found.
LEMMA ListedAreFound ==
  ASSUME VInv, SetInv, NEW f \in DOMAIN set, MissingOf(f) = {},
         NEW i \in DOMAIN set[f].slices
  PROVE  set[f].slices[i] \in FoundAnywhere
<1> DEFINE n == Blocks(set[f].length)
           owned == Engine!Owned[f]
           below(j) == {l \in owned : l < j}
<1>1. n \in Nat /\ DOMAIN set[f].slices = 1..n
  BY SlicesOfSet DEF VInv, PlaceInv
<1>2. Engine!Slice(f) = 1..n /\ owned \subseteq 1..n
  BY <1>1 DEF Engine!Slice, Engine!Owned
<1>3. \A k \in 1..n : \E j \in 1..n :
        /\ j \in owned /\ Cardinality(below(j)) = k - 1
        /\ set[f].slices[j] \in FoundAnywhere
  <2>1. \A k \in 1..n : Engine!Has(f, k, FoundAnywhere)
    BY DEF MissingOf
  <2>2. \A k \in 1..n : \E j \in Engine!Slice(f) :
          Engine!Entry(f, k, j) /\ set[f].slices[j] \in FoundAnywhere
    BY <2>1 DEF Engine!Has
  <2> SUFFICES ASSUME NEW k \in 1..n
               PROVE  \E j \in 1..n :
                        /\ j \in owned /\ Cardinality(below(j)) = k - 1
                        /\ set[f].slices[j] \in FoundAnywhere
    OBVIOUS
  <2>3. PICK j \in Engine!Slice(f) :
          Engine!Entry(f, k, j) /\ set[f].slices[j] \in FoundAnywhere
    BY <2>2
  <2>4. Engine!Cardinality(below(j)) = Cardinality(below(j))
    BY DEF Engine!Cardinality, Cardinality
  <2>5. j \in owned /\ Cardinality(below(j)) = k - 1
    BY <2>3, <2>4 DEF Engine!Entry
  <2> QED
    BY <1>2, <2>3, <2>5
<1> HIDE DEF n, owned
<1>4. PICK last \in 1..n : last \in owned /\ Cardinality(below(last)) = n - 1
  <2>1. n \in 1..n
    BY <1>1
  <2> QED
    BY <1>3, <2>1
<1>5. below(last) \in SUBSET (1..(last - 1))
  <2>1. last \in Nat /\ \A l \in owned : l \in Nat \ {0}
    BY <1>1, <1>2
  <2> QED
    BY <2>1
<1>6. IsFiniteSet(1..(last - 1)) /\ Cardinality(1..(last - 1)) = last - 1
  BY <1>1, FS_Interval
<1>7. last = n /\ below(last) = 1..(n - 1)
  <2>1. Cardinality(below(last)) <= Cardinality(1..(last - 1))
    BY <1>5, <1>6, FS_Subset
  <2>2. last = n
    BY <1>1, <1>4, <1>6, <2>1
  <2>3. Cardinality(1..(last - 1)) = Cardinality(below(last))
    BY <1>4, <1>6, <2>2
  <2> QED
    BY <1>5, <1>6, <2>2, <2>3, FS_Subset
<1>8. owned = 1..n
  <2>1. \A l \in 1..n : l = n \/ l \in 1..(n - 1)
    BY <1>1
  <2>2. 1..(n - 1) \subseteq owned
    BY <1>7
  <2> QED
    BY <1>2, <1>4, <1>7, <2>1, <2>2
<1>9. PICK j \in 1..n : /\ Cardinality(below(j)) = i - 1
                        /\ set[f].slices[j] \in FoundAnywhere
  BY <1>1, <1>3
<1>10. below(j) = 1..(j - 1)
  BY <1>1, <1>8
<1>11. Cardinality(1..(j - 1)) = j - 1
  BY <1>1, FS_Interval
<1>12. i = j
  <2> HIDE DEF below
  <2>1. i - 1 = j - 1
    BY <1>9, <1>10, <1>11
  <2> QED
    BY <1>1, <2>1
<1> QED
  BY <1>9, <1>12

LEMMA OkWhenFound == ASSUME VInv, SetInv, MissingCount = 0 PROVE AllFound
<1> SUFFICES ASSUME NEW f \in DOMAIN set, NEW i \in DOMAIN set[f].slices
             PROVE  \E w \in DOMAIN job.disk : \E e \in found[w] :
                      set[e[2][1]].slices[e[2][2]] = set[f].slices[i]
  BY DEF AllFound
<1>1. set[f].slices[i] \in FoundAnywhere
  BY NoneIsMissing, ListedAreFound
<1> QED
  BY <1>1 DEF FoundAnywhere, FoundIn

LEMMA NextOk == ASSUME VInv, SetInv, OkInv, [Next]_vars PROVE OkInv'
<1>1. CASE Conclude
  <2>1. pc # "exit" /\ pc' = "exit" /\ UNCHANGED <<job, set, found>>
    BY <1>1 DEF Conclude, Exit
  <2>2. outcome # "ok" /\ purged # TRUE
    BY <2>1 DEF OkInv
  <2>3. outcome' = "ok" \/ purged' => MissingCount = 0
    BY <1>1, <2>2 DEF Conclude, Exit
  <2>4. MissingCount = 0 => AllFound'
    BY <2>1, OkWhenFound DEF AllFound
  <2> QED
    BY <2>1, <2>3, <2>4 DEF OkInv
<1>2. CASE UNCHANGED vars
  BY <1>2 DEF vars, OkInv, AllFound
<1>3. CASE LoadVolume \/ BeginScan \/ Scan
  <2>1. UNCHANGED <<outcome, purged>>
    BY <1>3 DEF LoadVolume, BeginScan, Scan
  <2>2. pc # "exit"
    BY <1>3 DEF LoadVolume, BeginScan, Scan, ScanStep, Open, Fill, ReadFails, Align,
                SkipBlock, AdvanceOneByte, Scanning, SlideWindow, SlideFails, EndOfFile
  <2> QED
    BY <2>1, <2>2 DEF OkInv
<1> QED
  BY <1>1, <1>2, <1>3 DEF Next, Exited

\* Padding makes a block at least.
LEMMA PaddedIsLong ==
  ASSUME NEW part \in Seq(CrcByte) PROVE Len(PadTo(part, BlockSize)) >= BlockSize
<1> DEFINE L == Len(part)
           zeros == [k \in 1..(BlockSize - L) |-> 0]
<1>1. BlockSize \in Nat \ {0} /\ L \in Nat
  BY ScannerAssumption
<1>2. L >= BlockSize \/ Len(zeros) = BlockSize - L
  BY <1>1
<1>3. zeros \in Seq(Nat)
  BY <1>1
<1>4. part \in Seq(CrcByte \cup Nat) /\ zeros \in Seq(CrcByte \cup Nat)
  BY <1>3
<1>5. Len(part \o zeros) = L + Len(zeros)
  BY <1>4, ConcatProperties
<1>6. Len(zeros) \in Nat
  BY <1>3, LenProperties
<1>7. PadTo(part, BlockSize) = part \o zeros
  BY DEF PadTo
<1> HIDE DEF zeros, L
<1> QED
  BY <1>1, <1>2, <1>5, <1>6, <1>7

\* What is read of a file, padded to a block, is not empty.
LEMMA PaddedIsSome ==
  ASSUME NEW bytes \in Seq(CrcByte), NEW o \in Nat
  PROVE  Padded(bytes, o, BlockSize) # Unknown
<1> DEFINE part == SubSeq(bytes, o + 1, Least(o + BlockSize, Len(bytes)))
<1>1. BlockSize \in Nat \ {0} /\ Len(bytes) \in Nat
  BY ScannerAssumption
<1>2. Least(o + BlockSize, Len(bytes)) \in Nat /\ Least(o + BlockSize, Len(bytes)) <= Len(bytes)
  BY <1>1 DEF Least
<1>3. part \in Seq(CrcByte)
  <2>1. \A k \in (o + 1)..Least(o + BlockSize, Len(bytes)) : bytes[k] \in CrcByte
    BY <1>1, <1>2, ElementOfSeq
  <2> QED
    BY <1>1, <1>2, <2>1, SubSeqProperties
<1>4. Padded(bytes, o, BlockSize) = PadTo(part, BlockSize)
  BY DEF Padded
<1> HIDE DEF part
<1>5. Len(PadTo(part, BlockSize)) >= BlockSize
  BY <1>3, PaddedIsLong
<1>6. ASSUME PadTo(part, BlockSize) = <<>> PROVE FALSE
  <2>1. Len(PadTo(part, BlockSize)) = 0
    BY <1>6
  <2> QED
    BY <1>1, <1>5, <2>1
<1> QED
  BY <1>4, <1>6 DEF Unknown

\* The command calls a set correct, and deletes its volumes, only when each
\* block of each protected file is somewhere on disk, for any set, volumes,
\* files, options and leeway, blocks that are alike included (handle_verify).
THEOREM SuccessIsFound == ASSUME SlidesRight PROVE Spec => []OkMeansFound
<1>1. ASSUME VInv, RecordsInv, SetInv, OkInv PROVE OkMeansFound
  <2> SUFFICES ASSUME outcome = "ok" \/ purged, faults = 0, KnownSet,
                      NEW f \in DOMAIN job.data, NEW i \in DOMAIN Cut(job.data[f])
               PROVE  \E w \in DOMAIN job.disk : \E o \in 0..(Len(job.disk[w].bytes) - 1) :
                        Padded(job.disk[w].bytes, o, BlockSize) = Cut(job.data[f])[i]
    BY DEF OkMeansFound
  <2>1. f \in DOMAIN set /\ AllFound
    BY <1>1 DEF OkInv, KnownSet
  <2>2. i \in DOMAIN set[f].slices
    BY <1>1, <2>1 DEF SetInv, Cut
  <2>3. PICK w \in DOMAIN job.disk : \E e \in found[w] :
          set[e[2][1]].slices[e[2][2]] = set[f].slices[i]
    BY <2>1, <2>2 DEF AllFound
  <2>4. PICK e \in found[w] : set[e[2][1]].slices[e[2][2]] = set[f].slices[i]
    BY <2>3
  <2>5. /\ e[1] \in 0..(Len(job.disk[w].bytes) - 1)
        /\ Padded(job.disk[w].bytes, e[1], BlockSize) = set[f].slices[i]
    BY <1>1, <2>4 DEF RecordsInv, IsRecord
  <2>6. set[f].slices[i] # Unknown
    <3>1. job.disk[w].bytes \in Seq(CrcByte)
      BY <1>1, DiskFacts DEF VInv
    <3>2. e[1] \in Nat
      BY <2>5, <3>1
    <3> QED
      BY <2>5, <3>1, <3>2, PaddedIsSome
  <2>7. set[f].slices[i] = Cut(job.data[f])[i]
    BY <1>1, <2>1, <2>2, <2>6 DEF SetInv
  <2> QED
    BY <2>5, <2>7
<1>2. /\ VInv /\ RecordsInv /\ SetInv /\ OkInv /\ [Next]_vars
      => (VInv /\ RecordsInv /\ SetInv /\ OkInv)'
  BY NextWindow, NextRecords, NextSet, NextOk
<1>3. Init => VInv /\ RecordsInv /\ SetInv /\ OkInv
  BY InitWindow, InitRecords, InitSet DEF Init, OkInv
<1> QED
  BY <1>1, <1>2, <1>3, PTL DEF Spec

-----------------------------------------------------------------------------
(* Intact files *)

\* A file that is on disk as described, of slices that no other one is like.
Clean(f) ==
  /\ ToScan(f) /\ job.disk[f].bytes = job.data[f]
  /\ Unknown \notin ToSet(set[f].slices)
  /\ \A g \in DOMAIN set : \A i \in DOMAIN set[f].slices :
       \A j \in DOMAIN set[g].slices :
         set[f].slices[i] = set[g].slices[j] => f = g /\ i = j

\* Where a slice of an intact file is found, and that the first m are found.
Place(f, i) == <<(i - 1) * BlockSize, <<f, i>>>>
FoundUpTo(f, m) ==
  \A i \in DOMAIN set[f].slices : i <= m => Place(f, i) \in found[f]

\* Of an intact file slices are found at their places only; the scan is at one
\* of these places, and all slices before it are found.
CleanAt(f) ==
  /\ \A e \in found[f] : \E i \in DOMAIN set[f].slices : e = Place(f, i)
  /\ which = f /\ pc \in {"scan", "slide"} =>
       \E m \in Nat : processed + position = m * BlockSize /\ FoundUpTo(f, m)
  /\ which > f =>
       f \in hashed /\ \A i \in DOMAIN set[f].slices : Place(f, i) \in found[f]
CleanInv == faults = 0 => \A f \in DOMAIN set : Clean(f) => CleanAt(f)

\* Nothing is concluded before the set is scanned.
PhaseInv ==
  /\ pc \in {"load", "conclude"} => DOMAIN set = {}
  /\ outcome # "none" => pc = "exit"
  /\ pc = "exit" => DOMAIN set = {} \/ which > Len(job.disk)

\* A number of blocks is the least that holds the bytes.
LEMMA BlocksHold ==
  ASSUME NEW n \in Nat
  PROVE  /\ Blocks(n) \in Nat /\ n <= Blocks(n) * BlockSize
         /\ Blocks(n) * BlockSize < n + BlockSize
<1> DEFINE a == n + BlockSize - 1
           q == a \div BlockSize
           r == a % BlockSize
<1>1. BlockSize \in Nat \ {0} /\ a \in Nat
  BY ScannerAssumption
<1>2. \A x \in Nat : \A b \in Nat \ {0} :
        /\ x \div b \in Nat /\ x % b \in 0..(b - 1)
        /\ x = (x \div b) * b + (x % b) /\ (x \div b) * b \in Nat
  OBVIOUS
<1>3. q \in Nat /\ r \in 0..(BlockSize - 1) /\ a = q * BlockSize + r /\ q * BlockSize \in Nat
  <2> HIDE DEF a
  <2> QED
    BY <1>1, <1>2
<1> HIDE DEF q, r
<1> DEFINE p == q * BlockSize
<1>4. p \in Nat /\ a = p + r
  BY <1>3
<1> HIDE DEF p
<1>5. n <= p /\ p < n + BlockSize
  BY <1>1, <1>3, <1>4
<1>6. Blocks(n) = q
  BY DEF Blocks, q
<1> QED
  BY <1>3, <1>5, <1>6 DEF p

\* A block is its own padding.
LEMMA PadWhole ==
  ASSUME NEW S, NEW b \in Seq(S), Len(b) = BlockSize PROVE PadTo(b, BlockSize) = b
<1>1. [k \in 1..(BlockSize - Len(b)) |-> 0] = <<>>
  <2>1. BlockSize - Len(b) = 0
    BY ScannerAssumption
  <2> DEFINE none == [k \in 1..0 |-> 0]
  <2>2. none \in Seq(Nat) /\ Len(none) = 0
    OBVIOUS
  <2> HIDE DEF none
  <2>3. none = <<>>
    BY <2>2, EmptySeq
  <2> QED
    BY <2>1, <2>3 DEF none
<1> QED
  BY <1>1, ConcatEmptySeq DEF PadTo

\* What an intact file and its description are.
LEMMA CleanFacts ==
  ASSUME VInv, SetInv, NEW f \in DOMAIN set, Clean(f)
  PROVE  /\ f \in Nat \ {0} /\ f \in DOMAIN job.disk /\ f \in DOMAIN found /\ ~Extra(f)
         /\ f <= Len(job.disk) /\ Len(job.disk) \in Nat
         /\ job.disk[f].bytes \in Seq(CrcByte) /\ Len(job.disk[f].bytes) \in Nat
         /\ set[f].length = Len(job.disk[f].bytes)
         /\ set[f].slices = Cut(job.disk[f].bytes)
         /\ DOMAIN set[f].slices = 1..Blocks(Len(job.disk[f].bytes))
         /\ Blocks(Len(job.disk[f].bytes)) \in Nat
<1>1. /\ job.data \in Seq(Seq(CrcByte)) /\ Len(job.data) <= Len(job.disk)
      /\ job.disk \in Seq([exists : BOOLEAN, bytes : Seq(CrcByte)])
  BY JobsAssumption DEF VInv, PlaceInv
<1>2. f \in DOMAIN job.data /\ set[f].length = Len(job.data[f])
  BY DEF SetInv
<1>3. f \in 1..Len(job.data) /\ Len(job.data) \in Nat /\ Len(job.disk) \in Nat
      /\ DOMAIN job.disk = 1..Len(job.disk)
  BY <1>1, <1>2, LenProperties
<1>4. f \in Nat \ {0} /\ f \in DOMAIN job.disk /\ ~Extra(f) /\ f <= Len(job.disk)
  BY <1>1, <1>3 DEF Extra
<1>5. f \in DOMAIN found
  BY <1>4 DEF VInv, PlaceInv
<1>6. job.disk[f].bytes = job.data[f] /\ job.disk[f].bytes \in Seq(CrcByte)
  BY <1>4, DiskFacts DEF Clean, VInv
<1> DEFINE n == Blocks(Len(job.disk[f].bytes))
<1>7. Len(job.disk[f].bytes) \in Nat /\ n \in Nat
  BY <1>6, LenProperties, BlocksHold
<1>8. /\ DOMAIN set[f].slices = 1..n
      /\ \/ set[f].slices = Cut(job.disk[f].bytes)
         \/ set[f].slices = [i \in 1..n |-> Unknown]
  BY <1>6 DEF SetInv, Cut
<1>9. set[f].slices = Cut(job.disk[f].bytes)
  <2>1. CASE n = 0
    <3>1. \A i : i \notin 1..n
      BY <2>1
    <3>2. Cut(job.disk[f].bytes) = [i \in 1..n |-> Unknown]
      BY <3>1 DEF Cut
    <3> QED
      BY <1>8, <3>2
  <2>2. CASE n # 0
    <3>1. 1 \in 1..n
      BY <1>7, <2>2
    <3>2. set[f].slices # [i \in 1..n |-> Unknown]
      BY <1>8, <3>1 DEF Clean, ToSet
    <3> QED
      BY <1>8, <3>2
  <2> QED
    BY <2>1, <2>2
<1> QED
  BY <1>2, <1>3, <1>4, <1>5, <1>6, <1>7, <1>8, <1>9

\* A slice of an intact file is no other block of the set.
LEMMA CleanHits ==
  ASSUME NEW f \in DOMAIN set, Clean(f), NEW i \in DOMAIN set[f].slices
  PROVE  Hits(Crc(set[f].slices[i]), set[f].slices[i]) = {<<f, i>>}
<1> DEFINE b == set[f].slices[i]
<1>1. ASSUME NEW h \in Hits(Crc(b), b) PROVE h = <<f, i>>
  <2>1. PICK g \in DOMAIN set : h \in {g} \X DOMAIN set[g].slices
    BY DEF Hits
  <2>2. /\ h = <<g, h[2]>> /\ h[1] = g /\ h[2] \in DOMAIN set[g].slices
        /\ set[h[1]].slices[h[2]] = b
    BY <2>1 DEF Hits
  <2>3. set[g].slices[h[2]] = set[f].slices[i]
    BY <2>2
  <2>4. f = g /\ i = h[2]
    BY <2>2, <2>3 DEF Clean
  <2> QED
    BY <2>2, <2>4
<1>2. <<f, i>> \in Hits(Crc(b), b)
  BY DEF Hits
<1> QED
  BY <1>1, <1>2

\* Two multiples of a block are apart by a block.
LEMMA BlocksApart ==
  ASSUME NEW m \in Nat, NEW n \in Nat
  PROVE  /\ m * BlockSize \in Nat /\ n * BlockSize \in Nat
         /\ m * BlockSize < n * BlockSize => m < n
         /\ m < n => m * BlockSize + BlockSize <= n * BlockSize
         /\ (m + 1) * BlockSize = m * BlockSize + BlockSize
<1>1. BlockSize \in Nat
  BY ScannerAssumption
<1>2. n < m => n * BlockSize + BlockSize <= m * BlockSize
  BY <1>1, LessIsLess
<1>3. m < n => m * BlockSize + BlockSize <= n * BlockSize
  BY <1>1, LessIsLess
<1>4. m * BlockSize \in Nat /\ n * BlockSize \in Nat
  BY <1>1
<1>5. (m + 1) * BlockSize = m * BlockSize + BlockSize
  BY <1>1
<1>6. ASSUME m * BlockSize < n * BlockSize PROVE m < n
  <2> DEFINE a == m * BlockSize
             b == n * BlockSize
  <2>1. a < b /\ (n < m => b + BlockSize <= a) /\ a \in Nat /\ b \in Nat
    BY <1>2, <1>4, <1>6
  <2>2. m # n
    BY <1>4, <1>6
  <2> HIDE DEF a, b
  <2>3. ~(n < m)
    BY <1>1, <2>1
  <2> QED
    BY <2>2, <2>3
<1> QED
  BY <1>3, <1>4, <1>5, <1>6

\* The whole block behind the first m of an intact file is its next slice.
LEMMA NextCell ==
  ASSUME VInv, SetInv, NEW f \in DOMAIN set, Clean(f), NEW m \in Nat,
         FitsAt(m * BlockSize, job.disk[f].bytes)
  PROVE  /\ m + 1 \in DOMAIN set[f].slices
         /\ set[f].slices[m + 1] = WindowAt(m * BlockSize, job.disk[f].bytes)
<1> DEFINE bytes == job.disk[f].bytes
           L == Len(bytes)
           n == Blocks(L)
           o == m * BlockSize
<1>1. /\ bytes \in Seq(CrcByte) /\ L \in Nat /\ n \in Nat
      /\ set[f].slices = Cut(bytes) /\ DOMAIN set[f].slices = 1..n
  BY CleanFacts
<1>2. L <= n * BlockSize /\ BlockSize \in Nat \ {0}
  BY <1>1, BlocksHold, ScannerAssumption
<1>3. o \in Nat /\ n * BlockSize \in Nat /\ (o < n * BlockSize => m < n)
      /\ (m + 1) * BlockSize = o + BlockSize
  BY <1>1, BlocksApart
<1>4. o + BlockSize <= L
  BY DEF FitsAt
<1>5. m + 1 \in 1..n
  <2>1. m < n
    <3> DEFINE p == n * BlockSize
    <3> HIDE DEF o, p, L
    <3> QED
      BY <1>1, <1>2, <1>3, <1>4 DEF p
  <2> QED
    BY <1>1, <2>1
<1>6. (m + 1 - 1) * BlockSize = o
  BY <1>2
<1>7. Least((m + 1) * BlockSize, L) = o + BlockSize
  <2> HIDE DEF o, L
  <2> QED
    BY <1>1, <1>2, <1>3, <1>4 DEF Least
<1>8. set[f].slices[m + 1] = PadTo(SubSeq(bytes, o + 1, o + BlockSize), BlockSize)
  <2>1. set[f].slices[m + 1]
          = PadTo(SubSeq(bytes, (m + 1 - 1) * BlockSize + 1,
                         Least((m + 1) * BlockSize, L)), BlockSize)
    BY <1>1, <1>5 DEF Cut
  <2> QED
    BY <1>6, <1>7, <2>1
<1>9. PadTo(SubSeq(bytes, o + 1, o + BlockSize), BlockSize)
        = SubSeq(bytes, o + 1, o + BlockSize)
  <2>1. bytes \in Seq(CrcByte) /\ o \in Nat /\ BlockSize \in Nat /\ o + BlockSize <= Len(bytes)
    BY <1>1, <1>2, <1>3, <1>4
  <2> HIDE DEF o, bytes
  <2>2. /\ SubSeq(bytes, o + 1, o + BlockSize) \in Seq(CrcByte)
        /\ Len(SubSeq(bytes, o + 1, o + BlockSize)) = BlockSize
    BY <2>1, PartOf
  <2> QED
    BY <2>2, PadWhole
<1> QED
  BY <1>1, <1>5, <1>8, <1>9 DEF WindowAt

\* What is left behind the first m slices, if it is less than a block, is the
\* last slice.
LEMMA LastCell ==
  ASSUME VInv, SetInv, NEW f \in DOMAIN set, Clean(f), NEW m \in Nat,
         m * BlockSize < Len(job.disk[f].bytes),
         ~FitsAt(m * BlockSize, job.disk[f].bytes)
  PROVE  /\ DOMAIN set[f].slices = 1..(m + 1)
         /\ set[f].slices[m + 1]
              = PadTo(SubSeq(job.disk[f].bytes, m * BlockSize + 1,
                             Len(job.disk[f].bytes)), BlockSize)
<1> DEFINE bytes == job.disk[f].bytes
           L == Len(bytes)
           n == Blocks(L)
           o == m * BlockSize
           p == n * BlockSize
<1>1. /\ bytes \in Seq(CrcByte) /\ L \in Nat /\ n \in Nat
      /\ set[f].slices = Cut(bytes) /\ DOMAIN set[f].slices = 1..n
  BY CleanFacts
<1>2. L <= p /\ p < L + BlockSize /\ BlockSize \in Nat \ {0}
  BY <1>1, BlocksHold, ScannerAssumption
<1>3. o \in Nat /\ p \in Nat /\ (o < p => m < n) /\ (m + 1) * BlockSize = o + BlockSize
  BY <1>1, BlocksApart
<1>4. ((m + 1) * BlockSize < p => m + 1 < n) /\ (m + 1 < n => (m + 1) * BlockSize + BlockSize <= p)
  <2> DEFINE k == m + 1
  <2>1. k \in Nat
    OBVIOUS
  <2> HIDE DEF k
  <2>2. (k * BlockSize < p => k < n) /\ (k < n => k * BlockSize + BlockSize <= p)
    BY <1>1, <2>1, BlocksApart
  <2> QED
    BY <2>2 DEF k
<1>5. o < L /\ L < o + BlockSize
  <2>1. o < L /\ ~(o + BlockSize <= L)
    BY DEF FitsAt
  <2> HIDE DEF o, L
  <2> QED
    BY <1>1, <1>2, <1>3, <2>1
<1>6. n = m + 1
  <2>1. m < n
    <3> HIDE DEF o, p, L, n
    <3> QED
      BY <1>1, <1>2, <1>3, <1>5
  <2>2. ~(m + 1 < n)
    <3> HIDE DEF o, p, L, n
    <3> QED
      BY <1>1, <1>2, <1>3, <1>4, <1>5
  <2> HIDE DEF n
  <2> QED
    BY <1>1, <2>1, <2>2
<1>7. (m + 1 - 1) * BlockSize = o /\ m + 1 \in 1..n
  <2> HIDE DEF n
  <2> QED
    BY <1>1, <1>2, <1>6
<1>8. Least((m + 1) * BlockSize, L) = L
  <2> HIDE DEF o, L
  <2> QED
    BY <1>1, <1>2, <1>3, <1>5 DEF Least
<1>9. set[f].slices[m + 1]
        = PadTo(SubSeq(bytes, (m + 1 - 1) * BlockSize + 1,
                       Least((m + 1) * BlockSize, L)), BlockSize)
  BY <1>1, <1>7 DEF Cut
<1> QED
  BY <1>1, <1>6, <1>7, <1>8, <1>9

\* All slices lie before the end of the file.
LEMMA PastEnd ==
  ASSUME VInv, SetInv, NEW f \in DOMAIN set, Clean(f), NEW m \in Nat,
         Len(job.disk[f].bytes) <= m * BlockSize,
         NEW i \in DOMAIN set[f].slices
  PROVE  i <= m
<1> DEFINE L == Len(job.disk[f].bytes)
           n == Blocks(L)
           o == m * BlockSize
           p == n * BlockSize
<1>1. L \in Nat /\ n \in Nat /\ DOMAIN set[f].slices = 1..n
  BY CleanFacts
<1>2. p < L + BlockSize /\ BlockSize \in Nat /\ L <= o
  BY <1>1, BlocksHold, ScannerAssumption
<1>3. o \in Nat /\ p \in Nat /\ (m < n => o + BlockSize <= p)
  BY <1>1, BlocksApart
<1>4. ~(m < n)
  <2> HIDE DEF L, n, o, p
  <2> QED
    BY <1>1, <1>2, <1>3
<1> HIDE DEF n
<1> QED
  BY <1>1, <1>4

\* Where no whole block is left there is nothing left, or the last slice.
LEMMA RestIsLast ==
  ASSUME VInv, SetInv, faults = 0, pc \in {"align", "scan"}, ~Fits,
         which \in DOMAIN set, Clean(which), NEW m \in Nat,
         processed + position = m * BlockSize
  PROVE  /\ Remainder = <<>> => \A i \in DOMAIN set[which].slices : i <= m
         /\ Remainder # <<>> =>
              /\ DOMAIN set[which].slices = 1..(m + 1)
              /\ PadTo(Remainder, BlockSize) = set[which].slices[m + 1]
<1> DEFINE L == Len(buffer)
           D == Len(Disk)
           o == m * BlockSize
<1>1. /\ L \in Nat /\ D \in Nat /\ buffer \in Seq(CrcByte)
      /\ position \in Nat /\ processed \in Nat /\ BlockSize \in Nat \ {0}
      /\ processed + L <= D
  BY WindowFacts DEF Windowed
<1>2. position <= BlockSize /\ L = Least(2 * BlockSize, D - processed)
  BY <1>1 DEF VInv, BufferInv, Windowed
<1>3. L < position + BlockSize
  BY <1>1 DEF Fits, FitsAt
<1>4. processed + L = D
  <2> HIDE DEF L, D
  <2> QED
    BY <1>1, <1>2, <1>3 DEF Least
<1>5. o = processed + position
  OBVIOUS
<1>6. CASE Remainder = <<>>
  <2>1. ASSUME position < L PROVE FALSE
    <3> DEFINE r == L - position
    <3>1. r \in Nat \ {0} /\ position + r = L
      BY <1>1, <2>1
    <3> HIDE DEF r
    <3>2. Len(SubSeq(buffer, position + 1, position + r)) = r
      BY <1>1, <3>1, PartOf
    <3>3. SubSeq(buffer, position + 1, position + r) = <<>>
      BY <1>6, <3>1 DEF Remainder
    <3>4. Len(<<>>) = 0
      OBVIOUS
    <3> QED
      BY <3>1, <3>2, <3>3, <3>4
  <2>2. D <= o
    <3> HIDE DEF o, L, D
    <3> QED
      BY <1>1, <1>4, <1>5, <2>1
  <2>3. \A i \in DOMAIN set[which].slices : i <= m
    BY <2>2, PastEnd DEF Disk
  <2> QED
    BY <1>6, <2>3
<1>7. CASE Remainder # <<>>
  <2>1. position < L
    <3>1. ASSUME L < position + 1 PROVE FALSE
      BY <1>1, <1>7, <3>1, SubSeqEmpty DEF Remainder
    <3> HIDE DEF L
    <3> QED
      BY <1>1, <3>1
  <2>2. o < D /\ D < o + BlockSize
    <3> HIDE DEF o, L, D
    <3> QED
      BY <1>1, <1>3, <1>4, <1>5, <2>1
  <2>3. ~FitsAt(o, Disk)
    <3>1. ~(o + BlockSize <= D)
      <4>1. o \in Nat
        BY <1>1
      <4> HIDE DEF o, D
      <4> QED
        BY <1>1, <2>2, <4>1
    <3> QED
      BY <3>1 DEF FitsAt
  <2>4. /\ DOMAIN set[which].slices = 1..(m + 1)
        /\ set[which].slices[m + 1]
             = PadTo(SubSeq(Disk, o + 1, D), BlockSize)
    BY <2>2, <2>3, LastCell DEF Disk
  <2>5. Padded(Disk, o, BlockSize) = PadTo(Remainder, BlockSize)
    BY <1>5, <1>7, RestIsThere
  <2>6. Least(o + BlockSize, D) = D
    <3>1. o \in Nat
      BY <1>1
    <3> HIDE DEF o, D
    <3> QED
      BY <1>1, <2>2, <3>1 DEF Least
  <2> QED
    BY <1>7, <2>4, <2>5, <2>6 DEF Padded
<1> QED
  BY <1>6, <1>7

\* What is recorded of a slice of an intact file is its place.
LEMMA PlaceOfHit ==
  ASSUME NEW f \in DOMAIN set, Clean(f), NEW m \in Nat,
         m + 1 \in DOMAIN set[f].slices, NEW b, b = set[f].slices[m + 1]
  PROVE  {<<m * BlockSize, e>> : e \in Hits(Crc(b), b)} = {Place(f, m + 1)}
<1>1. Hits(Crc(b), b) = {<<f, m + 1>>}
  BY CleanHits
<1>2. (m + 1 - 1) * BlockSize = m * BlockSize
  BY ScannerAssumption
<1> QED
  BY <1>1, <1>2 DEF Place

-----------------------------------------------------------------------------

\* A step that does not touch an intact file.
LEMMA CleanStays ==
  ASSUME NEW f \in DOMAIN set, CleanAt(f), UNCHANGED <<job, set>>,
         found'[f] = found[f], hashed \subseteq hashed', which' > f => which > f,
         which' = f /\ pc' \in {"scan", "slide"} =>
           /\ which = f /\ pc \in {"scan", "slide"}
           /\ processed' + position' = processed + position
  PROVE  CleanAt(f)'
<1>1. \A m : FoundUpTo(f, m)' <=> FoundUpTo(f, m)
  BY DEF FoundUpTo, Place
<1>2. \A e \in found'[f] : \E i \in DOMAIN set'[f].slices : e = Place(f, i)'
  BY DEF CleanAt, Place
<1>3. which' > f =>
        f \in hashed' /\ \A i \in DOMAIN set'[f].slices : Place(f, i)' \in found'[f]
  BY DEF CleanAt, Place
<1>4. which' = f /\ pc' \in {"scan", "slide"} =>
        \E m \in Nat : processed' + position' = m * BlockSize /\ FoundUpTo(f, m)'
  <2> SUFFICES ASSUME which' = f, pc' \in {"scan", "slide"}
               PROVE  \E m \in Nat : processed' + position' = m * BlockSize
                                     /\ FoundUpTo(f, m)'
    OBVIOUS
  <2>1. PICK m \in Nat : processed + position = m * BlockSize /\ FoundUpTo(f, m)
    BY DEF CleanAt
  <2> QED
    BY <1>1, <2>1
<1> QED
  BY <1>2, <1>3, <1>4 DEF CleanAt

\* A step of the scan is of the file it is at.
LEMMA ScanShape ==
  ASSUME VInv, ScanStep
  PROVE  /\ UNCHANGED <<job, set>> /\ hashed \subseteq hashed' /\ which \in Nat
         /\ \A f \in DOMAIN found : f # which => found'[f] = found[f]
         /\ which' = which \/ (which' = which + 1 /\ pc' = "open")
<1>1. which \in Nat
  BY DEF VInv, PlaceInv
<1>2. ASSUME ToNext PROVE which' = which + 1 /\ pc' = "open"
  BY <1>2 DEF ToNext
<1>3. RecordPartial => \A f \in DOMAIN found : f # which => found'[f] = found[f]
  BY DEF RecordPartial, Record
<1>4. CASE Open \/ Fill \/ ReadFails \/ AdvanceOneByte \/ SlideWindow
  BY <1>1, <1>2, <1>4 DEF Open, Fill, ReadFails, AdvanceOneByte, SlideWindow
<1>5. CASE SkipBlock
  BY <1>1, <1>5 DEF SkipBlock, Record
<1>6. CASE SlideFails
  BY <1>1, <1>2, <1>6 DEF SlideFails, NextFile
<1>7. CASE EndOfFile
  BY <1>1, <1>2, <1>3, <1>7 DEF EndOfFile, NextFile
<1>8. CASE Align
  <2>1. UNCHANGED <<job, set>>
    BY <1>8 DEF Align
  <2>2. CASE Len(buffer) \in 1..(BlockSize - 1)
    BY <1>1, <1>2, <1>3, <1>8, <2>1, <2>2 DEF Align, NextFile
  <2>3. CASE Len(buffer) \notin 1..(BlockSize - 1)
    <3>1. UNCHANGED <<which, hashed>>
      BY <1>8, <2>3 DEF Align
    <3>2. \E new : found' = [found EXCEPT ![which] = @ \cup new]
      BY <1>8, <2>3 DEF Align
    <3> QED
      BY <1>1, <2>1, <3>1, <3>2
  <2> QED
    BY <2>2, <2>3
<1> QED
  BY <1>4, <1>5, <1>6, <1>7, <1>8 DEF ScanStep

\* The scan of an intact file ends with all of its slices found.
LEMMA CleanEnds ==
  ASSUME VInv, SetInv, faults = 0, pc \in {"align", "scan"},
         NEW f \in DOMAIN set, f = which, Clean(f), CleanAt(f),
         NEW m \in Nat, processed + position = m * BlockSize, FoundUpTo(f, m),
         UNCHANGED <<job, set>>, NextFile,
         \/ processed >= Limit /\ UNCHANGED found
         \/ ~Fits /\ RecordPartial
  PROVE  CleanAt(f)'
<1>1. /\ f \in Nat /\ f \in DOMAIN found /\ f \in DOMAIN job.disk
      /\ set[f].length = Len(job.disk[f].bytes) /\ Len(job.disk[f].bytes) \in Nat
  BY CleanFacts
<1>2. which' = f + 1 /\ pc' = "open" /\ f \in hashed'
  BY DEF NextFile, ToNext
<1>3. /\ \A e \in found'[f] : \E i \in DOMAIN set[f].slices : e = Place(f, i)
      /\ \A i \in DOMAIN set[f].slices : Place(f, i) \in found'[f]
  <2>1. CASE processed >= Limit /\ UNCHANGED found
    <3>1. Len(job.disk[f].bytes) <= m * BlockSize
      <4>1. Limit = Len(job.disk[f].bytes)
        BY <1>1 DEF Limit
      <4>2. position \in Nat /\ processed \in Nat
        BY WindowFacts DEF Windowed
      <4> DEFINE o == m * BlockSize
                 D == Len(job.disk[f].bytes)
      <4>3. o = processed + position /\ D <= processed /\ D \in Nat
        BY <1>1, <2>1, <4>1, <4>2
      <4> HIDE DEF o, D
      <4>4. D <= o
        BY <4>2, <4>3
      <4> QED
        BY <4>4 DEF o, D
    <3>2. \A i \in DOMAIN set[f].slices : i <= m
      BY <3>1, PastEnd
    <3> QED
      BY <2>1, <3>2 DEF CleanAt, FoundUpTo
  <2>2. CASE ~Fits /\ RecordPartial /\ Remainder = <<>>
    <3>1. \A i \in DOMAIN set[f].slices : i <= m
      BY <2>2, RestIsLast
    <3>2. UNCHANGED found
      BY <2>2 DEF RecordPartial
    <3> QED
      BY <3>1, <3>2 DEF CleanAt, FoundUpTo
  <2>3. CASE ~Fits /\ RecordPartial /\ Remainder # <<>>
    <3> DEFINE b == PadTo(Remainder, BlockSize)
    <3>1. DOMAIN set[f].slices = 1..(m + 1) /\ b = set[f].slices[m + 1]
      BY <2>3, RestIsLast
    <3>2. found' = [found EXCEPT ![which] = @ \cup
                      {<<processed + position, e>> : e \in Hits(Crc(b), b)}]
      BY <2>3 DEF RecordPartial, Record
    <3> HIDE DEF b
    <3>3. {<<m * BlockSize, e>> : e \in Hits(Crc(b), b)} = {Place(f, m + 1)}
      BY <3>1, PlaceOfHit
    <3>4. found'[f] = found[f] \cup {Place(f, m + 1)}
      BY <1>1, <3>2, <3>3
    <3>5. \A i \in 1..(m + 1) : i <= m \/ i = m + 1
      OBVIOUS
    <3>6. m + 1 \in 1..(m + 1)
      OBVIOUS
    <3> QED
      BY <3>1, <3>4, <3>5, <3>6 DEF CleanAt, FoundUpTo
  <2> QED
    BY <2>1, <2>2, <2>3
<1>4. ~(which' = f /\ pc' \in {"scan", "slide"})
  BY <1>2
<1>5. \A e \in found'[f] : \E i \in DOMAIN set'[f].slices : e = Place(f, i)'
  BY <1>3 DEF Place
<1>6. \A i \in DOMAIN set'[f].slices : Place(f, i)' \in found'[f]
  BY <1>3 DEF Place
<1> QED
  BY <1>2, <1>4, <1>5, <1>6 DEF CleanAt

\* The window at a place of an intact file is the slice of that place.
LEMMA CleanWindow ==
  ASSUME VInv, SetInv, pc \in Windowed, NEW f \in DOMAIN set, f = which, Clean(f),
         NEW p \in Nat, FitsAt(p, buffer), NEW m \in Nat, processed + p = m * BlockSize
  PROVE  /\ m + 1 \in DOMAIN set[f].slices
         /\ WindowAt(p, buffer) = set[f].slices[m + 1]
<1>1. /\ WindowAt(p, buffer) = WindowAt(processed + p, Disk)
      /\ FitsAt(processed + p, Disk)
  BY WindowOfDisk
<1>2. FitsAt(m * BlockSize, job.disk[f].bytes)
  BY <1>1 DEF Disk
<1> QED
  BY <1>1, <1>2, NextCell DEF Disk

\* The hits at the window are those of the block in it.
LEMMA HitsAreOfWindow ==
  ASSUME VInv, pc = "scan"
  PROVE  HitsHere = Hits(Crc(WindowAt(position, buffer)), WindowAt(position, buffer))
<1>1. crc # NoCrc => crc = Crc(WindowAt(position, buffer))
  BY DEF VInv, WindowIsOfFile
<1> QED
  BY <1>1 DEF HitsHere

LEMMA SkipClean ==
  ASSUME VInv, SetInv, NEW f \in DOMAIN set, f = which, Clean(f), CleanAt(f), SkipBlock
  PROVE  CleanAt(f)'
<1>1. /\ pc = "scan" /\ Fits /\ UNCHANGED <<job, set, which, processed, hashed>>
      /\ found' = [found EXCEPT ![which] = @ \cup {<<processed + position, e>> : e \in HitsHere}]
      /\ position' = position + BlockSize
  BY DEF SkipBlock, Scanning, Record, Move
<1>2. /\ f \in Nat /\ f \in DOMAIN found /\ BlockSize \in Nat
      /\ position \in Nat /\ processed \in Nat
  BY <1>1, CleanFacts, WindowFacts DEF Windowed
<1>3. PICK m \in Nat : processed + position = m * BlockSize /\ FoundUpTo(f, m)
  BY <1>1 DEF CleanAt
<1>4. /\ m + 1 \in DOMAIN set[f].slices
      /\ WindowAt(position, buffer) = set[f].slices[m + 1]
  BY <1>1, <1>2, <1>3, CleanWindow DEF Windowed, Fits
<1> DEFINE b == WindowAt(position, buffer)
<1>5. HitsHere = Hits(Crc(b), b)
  BY <1>1, HitsAreOfWindow
<1>6. {<<m * BlockSize, e>> : e \in Hits(Crc(b), b)} = {Place(f, m + 1)}
  <2> HIDE DEF b
  <2> QED
    BY <1>4, PlaceOfHit DEF b
<1>7. found'[f] = found[f] \cup {Place(f, m + 1)}
  BY <1>1, <1>2, <1>3, <1>5, <1>6
<1>8. processed' + position' = (m + 1) * BlockSize
  <2>1. (m + 1) * BlockSize = m * BlockSize + BlockSize
    BY BlocksApart
  <2> DEFINE o == m * BlockSize
  <2>2. (m + 1) * BlockSize = o + BlockSize /\ processed + position = o
    BY <1>3, <2>1
  <2> HIDE DEF o
  <2> QED
    BY <1>1, <1>2, <2>2
<1>9. FoundUpTo(f, m + 1)'
  <2>1. DOMAIN set[f].slices = 1..Blocks(Len(job.disk[f].bytes))
    BY CleanFacts
  <2>2. \A i \in DOMAIN set[f].slices : i <= m + 1 => i <= m \/ i = m + 1
    BY <2>1
  <2> QED
    BY <1>1, <1>3, <1>7, <2>2 DEF FoundUpTo, Place
<1>10. m + 1 \in Nat
  OBVIOUS
<1>11. \A e \in found'[f] : \E i \in DOMAIN set'[f].slices : e = Place(f, i)'
  BY <1>1, <1>4, <1>7 DEF CleanAt, Place
<1>12. ~(which' > f)
  BY <1>1, <1>2
<1> QED
  BY <1>8, <1>9, <1>10, <1>11, <1>12 DEF CleanAt

\* The scan of an intact file finds a slice wherever it looks.
LEMMA AdvanceClean ==
  ASSUME VInv, SetInv, NEW f \in DOMAIN set, f = which, Clean(f), CleanAt(f),
         AdvanceOneByte
  PROVE  FALSE
<1>1. pc = "scan" /\ Fits /\ HitsHere = {}
  BY DEF AdvanceOneByte, Scanning
<1>2. PICK m \in Nat : processed + position = m * BlockSize
  BY <1>1 DEF CleanAt
<1>3. position \in Nat
  BY <1>1, WindowFacts DEF Windowed
<1>4. /\ m + 1 \in DOMAIN set[f].slices
      /\ WindowAt(position, buffer) = set[f].slices[m + 1]
  BY <1>1, <1>2, <1>3, CleanWindow DEF Windowed, Fits
<1> QED
  BY <1>1, <1>4, HitsAreOfWindow, CleanHits

LEMMA AlignClean ==
  ASSUME VInv, SetInv, NEW f \in DOMAIN set, f = which, Clean(f), CleanAt(f),
         faults = 0, Align
  PROVE  CleanAt(f)'
<1>1. pc = "align" /\ UNCHANGED <<job, set, faults>>
  BY DEF Align
<1>2. /\ f \in Nat /\ f \in DOMAIN found /\ position = 0 /\ processed = 0
      /\ BlockSize \in Nat \ {0} /\ Len(buffer) \in Nat
  BY <1>1, CleanFacts, WindowFacts DEF VInv, BufferInv, Windowed
<1>3. DOMAIN set[f].slices = 1..Blocks(Len(job.disk[f].bytes))
  BY CleanFacts
<1>4. FoundUpTo(f, 0) /\ 0 * BlockSize = 0
  <2>1. \A i \in DOMAIN set[f].slices : ~(i <= 0)
    BY <1>3
  <2> QED
    BY <1>2, <2>1 DEF FoundUpTo
<1>5. CASE Len(buffer) \in 1..(BlockSize - 1)
  <2>1. RecordPartial /\ NextFile
    BY <1>5 DEF Align
  <2>2. ~Fits
    BY <1>2, <1>5 DEF Fits, FitsAt
  <2>3. processed + position = 0 * BlockSize /\ 0 \in Nat
    BY <1>2, <1>4
  <2> QED
    BY <1>1, <1>4, <2>1, <2>2, <2>3, CleanEnds
<1>6. CASE Len(buffer) \notin 1..(BlockSize - 1)
  <2> DEFINE At(k) == (k - 1) * BlockSize
             HitsAt(k) == Hits(Crc(WindowAt(At(k), buffer)), WindowAt(At(k), buffer))
             new == UNION {{<<At(k), e>> : e \in HitsAt(k)} : k \in AlignedPrefix.matched}
  <2>1. /\ found' = [found EXCEPT ![which] = @ \cup new]
        /\ position' = AlignedPrefix.next /\ pc' = "scan"
        /\ UNCHANGED <<which, processed, hashed>>
    BY <1>6 DEF Align
  <2>2. ASSUME NEW k \in AlignedPrefix.matched
        PROVE  /\ k \in DOMAIN set[f].slices
               /\ {<<At(k), e>> : e \in HitsAt(k)} = {Place(f, k)}
    <3>1. k \in {1, 2} /\ Len(buffer) >= 2 * BlockSize
      BY <2>2, AlignedAreWhole
    <3>2. PICK m \in Nat : k = m + 1 /\ k - 1 = m
      BY <3>1
    <3>3. At(k) = m * BlockSize
      BY <3>2
    <3>4. m * BlockSize \in Nat /\ FitsAt(m * BlockSize, buffer)
      <4>1. m \in {0, 1} /\ 0 * BlockSize = 0 /\ 1 * BlockSize = BlockSize
        BY <1>2, <3>1, <3>2
      <4> QED
        BY <1>2, <3>1, <4>1 DEF FitsAt
    <3>5. processed + m * BlockSize = m * BlockSize
      <4> DEFINE o == m * BlockSize
      <4>1. o \in Nat
        BY <3>4
      <4> HIDE DEF o
      <4>2. processed + o = o
        BY <1>2, <4>1
      <4> QED
        BY <4>2 DEF o
    <3>6. /\ m + 1 \in DOMAIN set[f].slices
          /\ WindowAt(m * BlockSize, buffer) = set[f].slices[m + 1]
      BY <1>1, <3>4, <3>5, CleanWindow DEF Windowed
    <3> DEFINE b == WindowAt(m * BlockSize, buffer)
    <3>7. {<<m * BlockSize, e>> : e \in Hits(Crc(b), b)} = {Place(f, m + 1)}
      <4> HIDE DEF b
      <4> QED
        BY <3>6, PlaceOfHit DEF b
    <3> QED
      BY <3>2, <3>3, <3>6, <3>7
  <2>3. \A e \in new : \E k \in AlignedPrefix.matched : e \in {<<At(k), h>> : h \in HitsAt(k)}
    OBVIOUS
  <2>4. \A k \in AlignedPrefix.matched : {<<At(k), h>> : h \in HitsAt(k)} \subseteq new
    OBVIOUS
  <2> HIDE DEF At, HitsAt, new
  <2>5. found'[f] = found[f] \cup new
    BY <1>2, <2>1
  <2>6. \A e \in found'[f] : \E i \in DOMAIN set'[f].slices : e = Place(f, i)'
    BY <1>1, <2>2, <2>3, <2>5 DEF CleanAt, Place
  <2>7. CASE position' = 0
    <3>1. processed' + position' = 0 * BlockSize
      BY <1>2, <1>4, <2>1, <2>7
    <3>2. FoundUpTo(f, 0)'
      BY <1>1, <1>4, <2>5 DEF FoundUpTo, Place
    <3> QED
      BY <1>2, <2>1, <2>6, <3>1, <3>2 DEF CleanAt
  <2>8. CASE position' # 0
    <3>1. 1 \in AlignedPrefix.matched
      BY <2>1, <2>8, AlignedIsHit
    <3>2. position' = BlockSize
      BY <2>1, <2>8, AlignedNext
    <3>3. processed' + position' = 1 * BlockSize
      BY <1>2, <2>1, <3>2
    <3>4. Place(f, 1) \in new
      BY <2>2, <2>4, <3>1
    <3>5. \A i \in DOMAIN set[f].slices : i <= 1 => i = 1
      BY <1>3
    <3>6. FoundUpTo(f, 1)'
      BY <1>1, <2>5, <3>4, <3>5 DEF FoundUpTo, Place
    <3> QED
      BY <1>2, <2>1, <2>6, <3>3, <3>6 DEF CleanAt
  <2> QED
    BY <2>7, <2>8
<1> QED
  BY <1>5, <1>6

LEMMA ScanClean ==
  ASSUME VInv, SetInv, ScanStep, faults = 0, faults' = 0,
         NEW f \in DOMAIN set, Clean(f), CleanAt(f)
  PROVE  CleanAt(f)'
<1>1. f \in Nat /\ f \in DOMAIN found /\ which \in Nat
  BY CleanFacts, ScanShape
<1>2. UNCHANGED <<job, set>> /\ hashed \subseteq hashed'
  BY ScanShape
<1>3. Fault => FALSE
  BY DEF Fault
<1>4. CASE f # which
  <2>1. found'[f] = found[f]
    BY <1>1, <1>4, ScanShape
  <2>2. which' = which \/ (which' = which + 1 /\ pc' = "open")
    BY ScanShape
  <2>3. which' > f => which > f
    BY <1>1, <1>4, <2>2
  <2>4. ~(which' = f /\ pc' \in {"scan", "slide"})
    BY <1>4, <2>2
  <2> QED
    BY <1>2, <2>1, <2>3, <2>4, CleanStays
<1>5. CASE f = which
  <2>1. CASE Open \/ Fill
    <3>1. /\ pc' \in {"fill", "align"} /\ which' = which /\ found' = found
      BY <1>3, <1>5, <2>1 DEF Open, Fill, Clean
    <3> QED
      BY <1>1, <1>2, <1>5, <3>1, CleanStays
  <2>2. CASE SlideWindow
    <3>1. /\ pc = "slide" /\ UNCHANGED <<which, found>>
          /\ processed' = processed + BlockSize /\ position' = position - BlockSize
      BY <2>2 DEF SlideWindow, SlidOut, SlidPosition
    <3>2. position \in Nat /\ processed \in Nat /\ BlockSize \in Nat
      BY <3>1, WindowFacts DEF Windowed
    <3>3. processed' + position' = processed + position
      BY <3>1, <3>2
    <3> QED
      BY <1>1, <1>2, <1>5, <3>1, <3>3, CleanStays
  <2>3. CASE ReadFails \/ SlideFails
    BY <1>3, <2>3 DEF ReadFails, SlideFails
  <2>4. CASE EndOfFile
    <3>1. pc = "scan" /\ NextFile
      BY <2>4 DEF EndOfFile
    <3>2. PICK m \in Nat : processed + position = m * BlockSize /\ FoundUpTo(f, m)
      BY <1>5, <3>1 DEF CleanAt
    <3>3. \/ processed >= Limit /\ UNCHANGED found
          \/ ~Fits /\ RecordPartial
      BY <2>4 DEF EndOfFile
    <3> QED
      BY <1>2, <1>5, <3>1, <3>2, <3>3, CleanEnds
  <2> QED
    BY <1>5, <2>1, <2>2, <2>3, <2>4, AlignClean, SkipClean, AdvanceClean DEF ScanStep
<1> QED
  BY <1>4, <1>5

-----------------------------------------------------------------------------

LEMMA NextPhase == ASSUME PhaseInv, [Next]_vars PROVE PhaseInv'
<1>1. ASSUME LoadVolume \/ UNCHANGED vars PROVE PhaseInv'
  BY <1>1 DEF LoadVolume, vars, PhaseInv
<1>2. ASSUME BeginScan PROVE PhaseInv'
  BY <1>2 DEF BeginScan, PhaseInv
<1>3. ASSUME ScanStep, UNCHANGED outcome PROVE PhaseInv'
  <2>1. pc # "exit" /\ pc' \notin {"load", "conclude", "exit"}
    BY <1>3 DEF ScanStep, Open, Fill, ReadFails, Align, SkipBlock, AdvanceOneByte,
                Scanning, Move, SlideWindow, SlideFails, EndOfFile, NextFile, ToNext
  <2> QED
    BY <1>3, <2>1 DEF PhaseInv
<1>4. ASSUME Conclude PROVE PhaseInv'
  BY <1>4 DEF Conclude, Exit, PhaseInv
<1> QED
  BY <1>1, <1>2, <1>3, <1>4 DEF Next, Scan, Exited

LEMMA NextClean ==
  ASSUME VInv, SetInv, SetInv', PhaseInv, CleanInv, [Next]_vars PROVE CleanInv'
<1>1. faults' = 0 => faults = 0
  BY FaultsRise
<1>2. ASSUME UNCHANGED <<job, set>>
      PROVE  DOMAIN set' = DOMAIN set /\ \A f : Clean(f)' <=> Clean(f)
  BY <1>2 DEF Clean, ToScan, Extra
<1>3. ASSUME ScanStep PROVE CleanInv'
  <2>1. UNCHANGED <<job, set>>
    BY <1>3, ScanShape
  <2> SUFFICES ASSUME faults' = 0, NEW f \in DOMAIN set, Clean(f) PROVE CleanAt(f)'
    BY <1>2, <2>1 DEF CleanInv
  <2>2. CleanAt(f)
    BY <1>1 DEF CleanInv
  <2> QED
    BY <1>1, <1>3, <2>2, ScanClean
<1>4. ASSUME LoadVolume PROVE CleanInv'
  <2>1. DOMAIN set' = {}
    BY <1>4 DEF LoadVolume, PhaseInv
  <2> QED
    BY <2>1 DEF CleanInv
<1>5. ASSUME BeginScan PROVE CleanInv'
  <2>1. /\ job' = job /\ which' = 1 /\ pc' \in {"open", "conclude"} /\ found' = found
        /\ \A w \in DOMAIN job.disk : found[w] = {}
    BY <1>5 DEF BeginScan, VInv, PlaceInv
  <2> SUFFICES ASSUME NEW f \in DOMAIN set' PROVE CleanAt(f)'
    BY DEF CleanInv
  <2>2. /\ job.data \in Seq(Seq(CrcByte)) /\ Len(job.data) <= Len(job.disk)
        /\ job.disk \in Seq([exists : BOOLEAN, bytes : Seq(CrcByte)])
    BY JobsAssumption DEF VInv, PlaceInv
  <2>3. f \in DOMAIN job.data
    BY <2>1 DEF SetInv
  <2>4. f \in Nat \ {0} /\ f \in DOMAIN job.disk
    BY <2>2, <2>3, LenProperties
  <2>5. found'[f] = {}
    BY <2>1, <2>4
  <2>6. ~(which' > f) /\ pc' \notin {"scan", "slide"}
    BY <2>1, <2>4
  <2> QED
    BY <2>5, <2>6 DEF CleanAt
<1>6. ASSUME Conclude \/ UNCHANGED vars PROVE CleanInv'
  <2>1. /\ UNCHANGED <<job, set, found, hashed, which, processed, position>>
        /\ pc' = "exit" \/ pc' = pc
    BY <1>6 DEF Conclude, Exit, vars
  <2> SUFFICES ASSUME faults' = 0, NEW f \in DOMAIN set, Clean(f) PROVE CleanAt(f)'
    BY <1>2, <2>1 DEF CleanInv
  <2>2. CleanAt(f)
    BY <1>1 DEF CleanInv
  <2> QED
    BY <2>1, <2>2, CleanStays
<1> QED
  BY <1>3, <1>4, <1>5, <1>6 DEF Next, Scan, Exited

\* The blocks of an intact file found at their places make it present.
LEMMA PlacesMatch ==
  ASSUME VInv, SetInv, NEW f \in DOMAIN set, Clean(f), CleanAt(f), which > f
  PROVE  Engine!PerfectMatch(OwnFound(f))
<1> DEFINE n == Blocks(Len(job.disk[f].bytes))
           O == OwnFound(f)
           at(i) == (i - 1) * BlockSize
<1>1. n \in Nat /\ DOMAIN set[f].slices = 1..n
  BY CleanFacts
<1>2. /\ \A e \in found[f] : \E i \in 1..n : e = Place(f, i)
      /\ \A i \in 1..n : Place(f, i) \in found[f]
  BY <1>1 DEF CleanAt
<1> HIDE DEF n
<1>3. \A u \in O : \E i \in 1..n : u = <<at(i) + 1, i>>
  BY <1>2 DEF OwnFound, Place
<1>4. \A i \in 1..n : <<at(i) + 1, i>> \in O
  <2> SUFFICES ASSUME NEW i \in 1..n PROVE <<at(i) + 1, i>> \in O
    OBVIOUS
  <2>1. Place(f, i) \in found[f] /\ Place(f, i)[2][1] = f
    BY <1>2 DEF Place
  <2>2. <<Place(f, i)[1] + 1, Place(f, i)[2][2]>> \in O
    BY <2>1 DEF OwnFound
  <2> QED
    BY <2>2 DEF Place
<1>5. \A i \in 1..n : at(i) \in Nat
  <2> SUFFICES ASSUME NEW i \in 1..n PROVE at(i) \in Nat
    OBVIOUS
  <2>1. i - 1 \in Nat
    BY <1>1
  <2> QED
    BY <2>1, BlocksApart
<1>6. \A i, j \in 1..n : i < j => at(i) <= at(j)
  <2> SUFFICES ASSUME NEW i \in 1..n, NEW j \in 1..n, i < j PROVE at(i) <= at(j)
    OBVIOUS
  <2> DEFINE a == i - 1
             b == j - 1
  <2>1. a \in Nat /\ b \in Nat /\ a < b
    BY <1>1
  <2> HIDE DEF a, b
  <2> DEFINE x == a * BlockSize
             y == b * BlockSize
  <2>2. x \in Nat /\ y \in Nat /\ x + BlockSize <= y /\ BlockSize \in Nat
    BY <2>1, BlocksApart, ScannerAssumption
  <2> HIDE DEF x, y
  <2>3. x <= y
    BY <2>2
  <2> QED
    BY <2>3 DEF x, y, a, b
<1>7. at(1) = 0
  BY ScannerAssumption
<1> HIDE DEF O, at
<1>8. CASE n = 0
  <2>1. O = {}
    BY <1>3, <1>8
  <2> QED
    BY <2>1 DEF Engine!PerfectMatch, O
<1>9. CASE n # 0
  <2>1. 1 \in 1..n
    BY <1>1, <1>9
  <2>2. <<at(1) + 1, 1>> = <<1, 1>>
    BY <1>7
  <2>3. <<1, 1>> \in O
    BY <1>4, <2>1, <2>2
  <2>4. \A u, v \in O : u[2] = v[2] => u = v
    BY <1>3
  <2>5. \A u, v \in O : u[2] < v[2] => u[1] <= v[1]
    <3> SUFFICES ASSUME NEW u \in O, NEW v \in O, u[2] < v[2] PROVE u[1] <= v[1]
      OBVIOUS
    <3>1. PICK i \in 1..n : u = <<at(i) + 1, i>>
      BY <1>3
    <3>2. PICK j \in 1..n : v = <<at(j) + 1, j>>
      BY <1>3
    <3>3. at(i) <= at(j) /\ at(i) \in Nat /\ at(j) \in Nat
      BY <1>5, <1>6, <3>1, <3>2
    <3> QED
      BY <3>1, <3>2, <3>3
  <2>6. \A u \in O : u[2] = 1 \/ \E v \in O : v[2] = u[2] - 1
    <3> SUFFICES ASSUME NEW u \in O, u[2] # 1 PROVE \E v \in O : v[2] = u[2] - 1
      OBVIOUS
    <3>1. PICK i \in 1..n : u = <<at(i) + 1, i>>
      BY <1>3
    <3>2. i - 1 \in 1..n
      BY <1>1, <3>1
    <3>3. <<at(i - 1) + 1, i - 1>> \in O
      BY <1>4, <3>2
    <3> QED
      BY <3>1, <3>3
  <2>7. Engine!InSequence(O)
    BY <2>4, <2>5, <2>6 DEF Engine!InSequence
  <2> QED
    BY <2>3, <2>7 DEF Engine!PerfectMatch, O
<1> QED
  BY <1>8, <1>9

\* And each of its blocks is listed for it.
LEMMA CleanHas ==
  ASSUME VInv, SetInv, NEW f \in DOMAIN set, Clean(f), CleanAt(f), which > f,
         NEW i \in DOMAIN set[f].slices
  PROVE  Engine!Has(f, i, FoundIn(f))
<1> DEFINE n == Blocks(Len(job.disk[f].bytes))
           owned == Engine!Owned[f]
           below == {l \in owned : l < i}
<1>1. n \in Nat /\ DOMAIN set[f].slices = 1..n /\ f \in Nat
  BY CleanFacts
<1>2. Engine!Slice(f) = 1..n
  BY <1>1 DEF Engine!Slice
<1>3. owned = 1..n
  <2>1. owned = {k \in Engine!Slice(f) : \A g \in DOMAIN set : \A j \in Engine!Slice(g) :
                   set[g].slices[j] = set[f].slices[k] =>
                     [h \in DOMAIN set |-> h][f] <= [h \in DOMAIN set |-> h][g]}
    BY DEF Engine!Owned, Engine!Slice
  <2>2. \A g \in DOMAIN set : Engine!Slice(g) = DOMAIN set[g].slices
    BY DEF Engine!Slice
  <2>3. ASSUME NEW k \in 1..n, NEW g \in DOMAIN set, NEW j \in DOMAIN set[g].slices,
               set[g].slices[j] = set[f].slices[k]
        PROVE  f <= g
    <3>1. k \in DOMAIN set[f].slices
      BY <1>1, <2>3
    <3>2. f = g
      BY <2>3, <3>1 DEF Clean
    <3> QED
      BY <1>1, <3>2
  <2> HIDE DEF owned, n
  <2> QED
    BY <1>2, <2>1, <2>2, <2>3
<1> HIDE DEF owned
<1>4. Cardinality(below) = i - 1
  <2>1. below = 1..(i - 1)
    BY <1>1, <1>3
  <2>2. Cardinality(1..(i - 1)) = i - 1
    BY <1>1, FS_Interval
  <2> QED
    BY <2>1, <2>2
<1>5. Engine!Cardinality(below) = Cardinality(below)
  BY DEF Engine!Cardinality, Cardinality
<1>6. Engine!Entry(f, i, i)
  BY <1>1, <1>3, <1>4, <1>5 DEF Engine!Entry, owned
<1>7. set[f].slices[i] \in FoundIn(f)
  <2>1. Place(f, i) \in found[f]
    BY DEF CleanAt
  <2>2. set[Place(f, i)[2][1]].slices[Place(f, i)[2][2]] = set[f].slices[i]
    BY DEF Place
  <2> QED
    BY <2>1, <2>2 DEF FoundIn
<1> QED
  BY <1>1, <1>2, <1>6, <1>7 DEF Engine!Has

\* A file that is what its description says is reported present, for any set
\* and disk, also when parts of files are skipped on purpose: its slices, of
\* which no other block of the set is like one, are found complete, in order
\* and at their places (determine_file_status_with_metadata).
THEOREM IntactArePresent == ASSUME SlidesRight PROVE Spec => []IntactIsPresent
<1>1. ASSUME VInv, SetInv, PhaseInv, CleanInv PROVE IntactIsPresent
  <2> SUFFICES ASSUME outcome # "none", faults = 0, NEW f \in DOMAIN set, Clean(f)
               PROVE  Status(f) = "present"
    BY DEF IntactIsPresent, Clean
  <2>1. f \in Nat /\ f <= Len(job.disk) /\ Len(job.disk) \in Nat /\ which \in Nat
    BY <1>1, CleanFacts DEF VInv, PlaceInv
  <2>2. which > f
    BY <1>1, <2>1 DEF PhaseInv
  <2>3. CleanAt(f)
    BY <1>1 DEF CleanInv
  <2>4. f \in hashed /\ job.disk[f].bytes = job.data[f] /\ ToScan(f)
    BY <2>2, <2>3 DEF CleanAt, Clean
  <2>5. DOMAIN set[f].slices = 1..Blocks(set[f].length)
    BY <1>1, CleanFacts
  <2>6. \A i \in 1..Blocks(set[f].length) : Engine!Has(f, i, FoundIn(f))
    BY <1>1, <2>2, <2>3, <2>5, CleanHas
  <2>7. Engine!PerfectMatch(OwnFound(f))
    BY <1>1, <2>2, <2>3, PlacesMatch
  <2> QED
    BY <2>4, <2>6, <2>7 DEF Status
<1>2. /\ VInv /\ SetInv /\ PhaseInv /\ CleanInv /\ [Next]_vars
      => (VInv /\ SetInv /\ PhaseInv /\ CleanInv)'
  BY NextWindow, NextSet, NextPhase, NextClean
<1>3. Init => VInv /\ SetInv /\ PhaseInv /\ CleanInv
  <2>1. Init => PhaseInv /\ CleanInv
    BY DEF Init, PhaseInv, CleanInv
  <2> QED
    BY <2>1, InitWindow, InitSet
<1> QED
  BY <1>1, <1>2, <1>3, PTL DEF Spec

-----------------------------------------------------------------------------
(* Cells *)

\* Where the scan of a file ends.
LimitOf(w) == IF Extra(w) THEN Len(job.disk[w].bytes) ELSE set[w].length

\* A block of the set begins at o.
IsBlock(w, o) ==
  \E f \in DOMAIN set : WindowAt(o, job.disk[w].bytes) \in ToSet(set[f].slices)

\* The aligned pass finds a block at o, within the limit or not.
Aligned(w, o) ==
  /\ 2 * BlockSize <= Len(job.disk[w].bytes) /\ o \in {0, BlockSize}
  /\ IsBlock(w, 0) /\ IsBlock(w, o)

\* What is recorded lies within the limit or was found by the aligned pass, and
\* all that this pass should find is recorded.
CellsAt(w) ==
  /\ Len(job.disk[w].bytes) % BlockSize = 0 =>
       \A e \in found[w] :
         (e[1] \div BlockSize) * BlockSize < LimitOf(w) \/ Aligned(w, e[1])
  /\ w < which \/ (w = which /\ pc \in {"scan", "slide"}) =>
       \A o : Aligned(w, o) => \E e \in found[w] : e[1] = o

\* The window begins behind the first block of the buffer only when the aligned
\* pass has found no block there.
TurnInv ==
  /\ pc = "scan" /\ position = BlockSize => Fits /\ HitsHere = {}
  /\ pc = "slide" => position < 2 * BlockSize

CellsInv ==
  ~job.skipping /\ BlockSize > 1 =>
    /\ TurnInv
    /\ faults = 0 => \A w \in DOMAIN job.disk : ToScan(w) => CellsAt(w)

\* The greatest multiple of the block size up to a place in a block is where
\* the block begins.
LEMMA MultipleOf ==
  ASSUME NEW n \in Nat \ {0}, NEW k \in Nat, NEW o \in Nat, k * n <= o, o < k * n + n
  PROVE  o \div n = k
<1> DEFINE q == o \div n
           r == o % n
<1>1. q \in Nat /\ r \in Nat /\ r < n /\ o = q * n + r /\ q * n \in Nat /\ k * n \in Nat
  OBVIOUS
<1> HIDE DEF q, r
<1>2. CASE q < k
  <2>1. q * n + n <= k * n
    BY <1>1, <1>2, LessIsLess
  <2> QED
    BY <1>1, <2>1
<1>3. CASE k < q
  <2>1. k * n + n <= q * n
    BY <1>1, <1>3, LessIsLess
  <2> QED
    BY <1>1, <2>1
<1> QED
  BY <1>1, <1>2, <1>3 DEF q

\* A record in the first block of the buffer is within the limit.
LEMMA RecordBelow ==
  ASSUME VInv, SetInv, pc = "scan", ToScan(which), processed < Limit,
         position < BlockSize
  PROVE  ((processed + position) \div BlockSize) * BlockSize < LimitOf(which)
<1>1. which \in DOMAIN job.disk /\ BlockSize \in Nat \ {0} /\ position \in Nat
  BY WindowFacts DEF Windowed
<1>2. PICK k \in Nat : processed = k * BlockSize
  BY DEF VInv, BufferInv, Windowed
<1> DEFINE start == k * BlockSize
           o == start + position
<1>3. start \in Nat
  BY <1>1
<1>4. start = processed
  BY <1>2
<1> HIDE DEF start
<1>5. o \in Nat /\ start <= o /\ o < start + BlockSize
  BY <1>1, <1>3
<1> HIDE DEF o
<1>6. o \div BlockSize = k
  BY <1>1, <1>5, MultipleOf DEF start
<1>7. Limit = LimitOf(which)
  BY <1>1, LimitIs DEF LimitOf, Disk
<1> QED
  BY <1>4, <1>6, <1>7 DEF o, start

\* Hits at a window mean a block there, and a block means hits.
LEMMA HitsMeanBlock ==
  ASSUME NEW w, NEW o
  PROVE  IsBlock(w, o) <=>
           Hits(Crc(WindowAt(o, job.disk[w].bytes)), WindowAt(o, job.disk[w].bytes)) # {}
<1> DEFINE b == WindowAt(o, job.disk[w].bytes)
<1>1. ASSUME IsBlock(w, o) PROVE Hits(Crc(b), b) # {}
  <2>1. PICK f \in DOMAIN set : b \in ToSet(set[f].slices)
    BY <1>1 DEF IsBlock
  <2>2. PICK i \in DOMAIN set[f].slices : set[f].slices[i] = b
    BY <2>1 DEF ToSet
  <2> HIDE DEF b
  <2>3. <<f, i>> \in Hits(Crc(b), b)
    BY <2>2 DEF Hits
  <2> QED
    BY <2>3
<1>2. ASSUME Hits(Crc(b), b) # {} PROVE IsBlock(w, o)
  <2>1. PICK h : h \in Hits(Crc(b), b)
    BY <1>2
  <2>2. PICK f \in DOMAIN set : h \in {f} \X DOMAIN set[f].slices
    BY <2>1 DEF Hits
  <2>3. h[1] = f /\ h[2] \in DOMAIN set[f].slices /\ set[f].slices[h[2]] = b
    BY <2>1, <2>2 DEF Hits
  <2> QED
    BY <2>3 DEF IsBlock, ToSet
<1> QED
  BY <1>1, <1>2

\* Nothing recorded and nothing scanned: what held of a file still holds.
LEMMA CellsStay ==
  ASSUME NEW w, CellsAt(w), UNCHANGED <<job, set>>, found'[w] = found[w],
         \/ w < which' \/ (w = which' /\ pc' \in {"scan", "slide"})
         => w < which \/ (w = which /\ pc \in {"scan", "slide"})
  PROVE  CellsAt(w)'
BY DEF CellsAt, LimitOf, Aligned, IsBlock, Extra

\* Records are added while the file is scanned.
LEMMA CellsGrow ==
  ASSUME NEW w, CellsAt(w), UNCHANGED <<job, set>>, w = which, pc = "scan",
         NEW new, found'[w] = found[w] \cup new,
         \A e \in new : (e[1] \div BlockSize) * BlockSize < LimitOf(w)
  PROVE  CellsAt(w)'
<1>1. \A e \in found'[w] :
        e \in new \/ e \in found[w]
  OBVIOUS
<1>2. \A e \in found[w] : e \in found'[w]
  OBVIOUS
<1>3. (LimitOf(w)' = LimitOf(w)) /\ \A o : (Aligned(w, o)' <=> Aligned(w, o))
  BY DEF LimitOf, Aligned, IsBlock, Extra
<1> QED
  BY <1>1, <1>2, <1>3 DEF CellsAt

LEMMA SkipCells ==
  ASSUME VInv, SetInv, TurnInv, NEW w, w = which, ToScan(w), CellsAt(w), SkipBlock
  PROVE  CellsAt(w)'
<1>1. /\ pc = "scan" /\ HitsHere # {} /\ processed < Limit
      /\ UNCHANGED <<job, set, which>> /\ Record(processed + position, HitsHere)
  BY DEF SkipBlock, Scanning
<1>2. which \in DOMAIN found /\ position \in Nat /\ position <= BlockSize
  BY <1>1, WindowFacts DEF VInv, PlaceInv, BufferInv, Windowed
<1>3. position < BlockSize
  BY <1>1, <1>2, ScannerAssumption DEF TurnInv
<1> DEFINE new == {<<processed + position, e>> : e \in HitsHere}
<1>4. found'[w] = found[w] \cup new
  BY <1>1, <1>2 DEF Record
<1>5. \A e \in new : (e[1] \div BlockSize) * BlockSize < LimitOf(w)
  BY <1>1, <1>3, RecordBelow
<1> HIDE DEF new
<1> QED
  BY <1>1, <1>4, <1>5, CellsGrow

\* The end of a file is recorded within the limit, if at all.
LEMMA EndCells ==
  ASSUME VInv, SetInv, TurnInv, NEW w, w = which, ToScan(w), CellsAt(w), EndOfFile
  PROVE  CellsAt(w)'
<1>1. /\ pc = "scan" /\ UNCHANGED <<job, set>>
      /\ \/ UNCHANGED found
         \/ processed < Limit /\ ~Fits /\ RecordPartial
  BY DEF EndOfFile
<1>2. which \in DOMAIN found /\ position \in Nat /\ position <= BlockSize
  BY <1>1, WindowFacts DEF VInv, PlaceInv, BufferInv, Windowed
<1>3. CASE UNCHANGED found
  BY <1>1, <1>3, CellsStay
<1>4. CASE processed < Limit /\ ~Fits /\ RecordPartial
  <2>1. position < BlockSize
    BY <1>1, <1>2, <1>4, ScannerAssumption DEF TurnInv
  <2> DEFINE padded == PadTo(Remainder, BlockSize)
             new == {<<processed + position, e>> : e \in Hits(Crc(padded), padded)}
  <2>2. CASE Remainder = <<>>
    BY <1>1, <1>4, <2>2, CellsStay DEF RecordPartial
  <2>3. CASE Remainder # <<>>
    <3>1. found'[w] = found[w] \cup new
      BY <1>2, <1>4, <2>3 DEF RecordPartial, Record
    <3>2. \A e \in new : (e[1] \div BlockSize) * BlockSize < LimitOf(w)
      BY <1>1, <1>4, <2>1, RecordBelow
    <3> HIDE DEF new
    <3> QED
      BY <1>1, <3>1, <3>2, CellsGrow
  <2> QED
    BY <2>2, <2>3
<1> QED
  BY <1>1, <1>3, <1>4

\* What the aligned pass matches: the first block, and the second behind it.
LEMMA MatchedBlocks ==
  LET HitsAt(k) == Hits(Crc(WindowAt((k - 1) * BlockSize, buffer)),
                        WindowAt((k - 1) * BlockSize, buffer))
  IN  AlignedPrefix.matched =
        {k \in {1, 2} : /\ Len(buffer) >= 2 * BlockSize
                        /\ HitsAt(1) # {} /\ HitsAt(k) # {}}
<1> DEFINE whole == IF Len(buffer) >= 2 * BlockSize THEN 2 ELSE 0
           HitsAt(k) == Hits(Crc(WindowAt((k - 1) * BlockSize, buffer)),
                             WindowAt((k - 1) * BlockSize, buffer))
           matched == {k \in 1..whole : \A j \in 1..k : HitsAt(j) # {}}
<1>1. AlignedPrefix.matched = matched
  BY DEF AlignedPrefix
<1> HIDE DEF HitsAt
<1>2. ASSUME NEW k
      PROVE  k \in matched <=> /\ k \in {1, 2} /\ Len(buffer) >= 2 * BlockSize
                               /\ HitsAt(1) # {} /\ HitsAt(k) # {}
  <2>1. k \in 1..whole <=> k \in {1, 2} /\ Len(buffer) >= 2 * BlockSize
    OBVIOUS
  <2>2. k \in {1, 2} => \A j \in 1..k : j = 1 \/ j = k
    OBVIOUS
  <2>3. k \in {1, 2} => 1 \in 1..k /\ k \in 1..k
    OBVIOUS
  <2> HIDE DEF whole
  <2> QED
    BY <2>1, <2>2, <2>3
<1> QED
  BY <1>1, <1>2 DEF HitsAt

\* When both blocks match the scan starts over from the first.
LEMMA BothMatched ==
  ASSUME AlignedPrefix.matched = {1, 2} PROVE AlignedPrefix.next = 0
<1> DEFINE whole == IF Len(buffer) >= 2 * BlockSize THEN 2 ELSE 0
<1>1. Cardinality({1, 2}) = 2
  <2>1. 1 \notin {} /\ 2 \notin {1} /\ {1} = {} \cup {1} /\ {1, 2} = {1} \cup {2}
    OBVIOUS
  <2>2. IsFiniteSet({}) /\ Cardinality({}) = 0
    BY FS_EmptySet
  <2>3. IsFiniteSet({1}) /\ Cardinality({1}) = 0 + 1
    BY <2>1, <2>2, FS_AddElement
  <2>4. Cardinality({1, 2}) = 1 + 1
    BY <2>1, <2>3, FS_AddElement
  <2> QED
    BY <2>4
<1>2. whole = 2
  <2>1. 1 \in AlignedPrefix.matched
    OBVIOUS
  <2> HIDE DEF whole
  <2>2. Len(buffer) >= 2 * BlockSize
    BY <2>1, AlignedAreWhole
  <2> QED
    BY <2>2 DEF whole
<1>3. AlignedPrefix.next = IF Cardinality(AlignedPrefix.matched) = whole THEN 0
                           ELSE Cardinality(AlignedPrefix.matched) * BlockSize
  BY DEF AlignedPrefix
<1> QED
  BY <1>1, <1>2, <1>3

\* The blocks of a full first buffer are those of the file.
LEMMA AlignedWindow ==
  ASSUME VInv, pc = "align", NEW w, w = which, NEW k \in {1, 2},
         Len(buffer) >= 2 * BlockSize
  PROVE  /\ (k - 1) * BlockSize \in {0, BlockSize}
         /\ Hits(Crc(WindowAt((k - 1) * BlockSize, buffer)),
                 WindowAt((k - 1) * BlockSize, buffer)) # {}
            <=> IsBlock(w, (k - 1) * BlockSize)
<1>1. BlockSize \in Nat \ {0} /\ Len(buffer) \in Nat /\ processed = 0
  BY WindowFacts DEF VInv, BufferInv, Windowed
<1> DEFINE o == (k - 1) * BlockSize
<1>2. o \in {0, BlockSize}
  BY <1>1
<1> HIDE DEF o
<1>3. o \in Nat /\ FitsAt(o, buffer) /\ processed + o = o
  BY <1>1, <1>2 DEF FitsAt
<1>4. WindowAt(o, buffer) = WindowAt(o, Disk)
  BY <1>3, WindowOfDisk DEF Windowed
<1>5. WindowAt(o, buffer) = WindowAt(o, job.disk[w].bytes)
  BY <1>4 DEF Disk
<1> QED
  BY <1>2, <1>5, HitsMeanBlock DEF o

LEMMA AlignCells ==
  ASSUME VInv, NEW w, w = which, CellsAt(w), faults = 0, Align
  PROVE  CellsAt(w)'
<1>1. pc = "align" /\ UNCHANGED <<job, set>>
  BY DEF Align
<1>2. /\ w \in DOMAIN found /\ processed = 0 /\ which \in Nat
      /\ BlockSize \in Nat \ {0} /\ Len(Disk) \in Nat /\ Len(buffer) \in Nat
      /\ Len(buffer) = Least(2 * BlockSize, Len(Disk) - processed)
  BY <1>1, WindowFacts DEF VInv, PlaceInv, BufferInv, Windowed
<1>3. (LimitOf(w)' = LimitOf(w)) /\ \A o : (Aligned(w, o)' <=> Aligned(w, o))
  BY <1>1 DEF LimitOf, Aligned, IsBlock, Extra
<1>4. CASE Len(buffer) \in 1..(BlockSize - 1)
  <2>1. Len(Disk) = Len(buffer)
    BY <1>2, <1>4 DEF Least
  <2>2. Len(Disk) % BlockSize # 0
    <3>1. \A x \in Nat : x \in 1..(BlockSize - 1) => x % BlockSize = x
      BY <1>2
    <3> QED
      BY <1>2, <1>4, <2>1, <3>1
  <2>3. ~(2 * BlockSize <= Len(Disk))
    BY <1>2, <1>4, <2>1
  <2> QED
    BY <1>1, <1>3, <2>2, <2>3 DEF CellsAt, Aligned, Disk
<1>5. CASE Len(buffer) \notin 1..(BlockSize - 1)
  <2> DEFINE At(k) == (k - 1) * BlockSize
             HitsAt(k) == Hits(Crc(WindowAt(At(k), buffer)), WindowAt(At(k), buffer))
             new == UNION {{<<At(k), e>> : e \in HitsAt(k)} : k \in AlignedPrefix.matched}
  <2>1. found' = [found EXCEPT ![which] = @ \cup new]
    BY <1>5 DEF Align
  <2>2. AlignedPrefix.matched = {k \in {1, 2} : /\ Len(buffer) >= 2 * BlockSize
                                               /\ HitsAt(1) # {} /\ HitsAt(k) # {}}
    BY MatchedBlocks
  <2>3. At(1) = 0 /\ At(2) = BlockSize
    BY <1>2
  <2>4. \A k \in {1, 2} : Len(buffer) >= 2 * BlockSize =>
          (HitsAt(k) # {} <=> IsBlock(w, At(k)))
    BY <1>1, AlignedWindow
  <2>5. Len(buffer) >= 2 * BlockSize <=> 2 * BlockSize <= Len(job.disk[w].bytes)
    BY <1>2 DEF Least, Disk
  <2>6. \A e \in new : \E k \in AlignedPrefix.matched : \E h \in HitsAt(k) : e = <<At(k), h>>
    OBVIOUS
  <2>7. \A k \in AlignedPrefix.matched : \A h \in HitsAt(k) : <<At(k), h>> \in new
    OBVIOUS
  <2> HIDE DEF At, HitsAt, new
  <2>8. found'[w] = found[w] \cup new
    BY <1>2, <2>1
  <2>9. ASSUME NEW e \in new PROVE Aligned(w, e[1])
    <3>1. PICK k \in AlignedPrefix.matched : \E h \in HitsAt(k) : e = <<At(k), h>>
      BY <2>6
    <3>2. e[1] = At(k)
      BY <3>1
    <3>3. /\ k \in {1, 2} /\ Len(buffer) >= 2 * BlockSize
          /\ HitsAt(1) # {} /\ HitsAt(k) # {}
      BY <2>2, <3>1
    <3> QED
      BY <2>3, <2>4, <2>5, <3>2, <3>3 DEF Aligned
  <2>10. ASSUME NEW o, Aligned(w, o) PROVE \E e \in new : e[1] = o
    <3>1. PICK k \in {1, 2} : o = At(k)
      BY <2>3, <2>10 DEF Aligned
    <3>2. k \in AlignedPrefix.matched /\ HitsAt(k) # {}
      BY <2>2, <2>3, <2>4, <2>5, <2>10, <3>1 DEF Aligned
    <3>3. PICK h : h \in HitsAt(k)
      BY <3>2
    <3>4. <<At(k), h>>[1] = o /\ <<At(k), h>> \in new
      BY <2>7, <3>1, <3>2, <3>3
    <3> QED
      BY <3>4
  <2>11. \A e \in found'[w] : e \in found[w] \/ e \in new
    BY <2>8
  <2>12. \A e \in new : e \in found'[w]
    BY <2>8
  <2>13. Len(job'.disk[w].bytes) = Len(job.disk[w].bytes)
    BY <1>1
  <2> QED
    BY <1>3, <2>9, <2>10, <2>11, <2>12, <2>13 DEF CellsAt
<1> QED
  BY <1>4, <1>5

LEMMA ScanCells ==
  ASSUME VInv, SetInv, TurnInv, ScanStep, faults = 0, faults' = 0,
         NEW w \in DOMAIN job.disk, ToScan(w), CellsAt(w)
  PROVE  CellsAt(w)'
<1>1. UNCHANGED <<job, set>> /\ which \in Nat
  BY ScanShape
<1>2. Fault => FALSE
  BY DEF Fault
<1>3. w \in DOMAIN found /\ w \in Nat
  <2>1. job.disk \in Seq([exists : BOOLEAN, bytes : Seq(CrcByte)])
    BY JobsAssumption DEF VInv, PlaceInv
  <2> QED
    BY <2>1, LenProperties DEF VInv, PlaceInv
<1>4. CASE w # which
  <2>1. found'[w] = found[w]
    BY <1>3, <1>4, ScanShape
  <2>2. which' = which \/ (which' = which + 1 /\ pc' = "open")
    BY ScanShape
  <2>3. /\ w < which' => w < which
        /\ ~(w = which' /\ pc' \in {"scan", "slide"})
    BY <1>1, <1>3, <1>4, <2>2
  <2> QED
    BY <1>1, <2>1, <2>3, CellsStay
<1>5. CASE w = which
  <2>1. CASE Open \/ Fill
    <3>1. /\ pc' \in {"fill", "align"} /\ which' = which /\ found' = found
      BY <1>2, <1>5, <2>1 DEF Open, Fill
    <3> QED
      BY <1>1, <1>5, <3>1, CellsStay
  <2>2. CASE SlideWindow \/ AdvanceOneByte
    <3>1. pc \in {"scan", "slide"} /\ UNCHANGED <<which, found>>
      BY <2>2 DEF SlideWindow, AdvanceOneByte, Scanning
    <3> QED
      BY <1>1, <1>5, <3>1, CellsStay
  <2>3. CASE ReadFails \/ SlideFails
    BY <1>2, <2>3 DEF ReadFails, SlideFails
  <2> QED
    BY <1>5, <2>1, <2>2, <2>3, AlignCells, SkipCells, EndCells DEF ScanStep
<1> QED
  BY <1>4, <1>5

\* Behind the first block only when the second is not of the set.
LEMMA AlignTurns ==
  ASSUME VInv, Align, position' = BlockSize, pc' = "scan"
  PROVE  Fits' /\ HitsHere' = {}
<1> DEFINE W(k) == WindowAt((k - 1) * BlockSize, buffer)
           HitsAt(k) == Hits(Crc(W(k)), W(k))
<1>1. /\ UNCHANGED <<set, buffer>> /\ position' = AlignedPrefix.next
      /\ crc' = FreshCrc(position', buffer)
  BY DEF Align, NextFile, ToNext
<1>2. BlockSize \in Nat \ {0} /\ (2 - 1) * BlockSize = BlockSize
  BY ScannerAssumption
<1>3. 1 \in AlignedPrefix.matched /\ HitsAt(1) # {}
  BY <1>1, <1>2, AlignedIsHit
<1>4. Len(buffer) >= 2 * BlockSize /\ Len(buffer) \in Nat
  <2>1. pc \in Windowed
    BY DEF Align, Windowed
  <2> QED
    BY <1>3, <2>1, AlignedAreWhole, WindowFacts
<1>5. HitsAt(2) = {}
  <2>1. AlignedPrefix.matched =
          {k \in {1, 2} : Len(buffer) >= 2 * BlockSize /\ HitsAt(1) # {} /\ HitsAt(k) # {}}
    BY MatchedBlocks
  <2>2. AlignedPrefix.matched # {1, 2}
    BY <1>1, <1>2, BothMatched
  <2> HIDE DEF HitsAt
  <2> QED
    BY <1>3, <1>4, <2>1, <2>2
<1>6. W(2) = WindowAt(BlockSize, buffer)
  BY <1>2
<1>7. FitsAt(BlockSize, buffer)
  BY <1>2, <1>4 DEF FitsAt
<1>8. crc' = Crc(WindowAt(BlockSize, buffer))
  BY <1>1, <1>7 DEF FreshCrc
<1>9. HitsHere' = Hits(Crc(WindowAt(BlockSize, buffer)), WindowAt(BlockSize, buffer))'
  BY <1>1, <1>8 DEF HitsHere
<1>10. HitsHere' = HitsAt(2)
  BY <1>1, <1>6, <1>9 DEF Hits
<1>11. Fits'
  BY <1>1, <1>7 DEF Fits
<1> QED
  BY <1>5, <1>10, <1>11

LEMMA MoveTurns ==
  ASSUME BlockSize \in Nat, NEW p \in Nat, p < 2 * BlockSize, NEW value, NEW count,
         Move(p, value, count)
  PROVE  TurnInv'
BY DEF Move, TurnInv

LEMMA TurnKeeps ==
  ASSUME VInv, ~job.skipping, BlockSize > 1, TurnInv, [Next]_vars PROVE TurnInv'
<1>1. BlockSize \in Nat \ {0}
  BY ScannerAssumption
<1>2. CASE pc' \notin {"scan", "slide"}
  BY <1>2 DEF TurnInv
<1>3. CASE UNCHANGED vars \/ Exited
  BY <1>3 DEF TurnInv, vars, Exited, Fits, HitsHere, Hits
<1>4. CASE Align
  <2>1. pc' = "scan" \/ pc' = "open"
    BY <1>4 DEF Align, NextFile, ToNext
  <2> QED
    BY <1>4, <2>1, AlignTurns DEF TurnInv
<1>5. CASE SkipBlock
  <2>1. position \in Nat /\ position <= BlockSize
    BY <1>5, WindowFacts DEF SkipBlock, Scanning, VInv, BufferInv, Windowed
  <2>2. position # BlockSize
    BY <1>5 DEF SkipBlock, Scanning, TurnInv
  <2>3. Move(position + BlockSize, FreshCrc(position + BlockSize, buffer), 0)
    BY <1>5 DEF SkipBlock
  <2> QED
    BY <1>1, <2>1, <2>2, <2>3, MoveTurns
<1>6. CASE AdvanceOneByte
  <2>1. position \in Nat /\ position <= BlockSize
    BY <1>6, WindowFacts DEF AdvanceOneByte, Scanning, VInv, BufferInv, Windowed
  <2>2. Move(position + 1, SlidCrc(position + 1), misses + 1)
    BY <1>6 DEF AdvanceOneByte
  <2> QED
    BY <1>1, <2>1, <2>2, MoveTurns
<1>7. CASE SlideWindow
  <2>1. pc = "slide" /\ pc' = "scan" /\ position' = position - BlockSize
    BY <1>7 DEF SlideWindow, SlidPosition
  <2>2. position \in Nat /\ position < 2 * BlockSize
    BY <2>1, WindowFacts DEF TurnInv, Windowed
  <2>3. position' < BlockSize
    BY <1>1, <2>1, <2>2
  <2> QED
    BY <1>1, <2>1, <2>3 DEF TurnInv
<1>8. CASE LoadVolume \/ BeginScan \/ Conclude \/ Open \/ Fill \/ ReadFails \/ SlideFails \/ EndOfFile
  <2>1. pc' \notin {"scan", "slide"}
    BY <1>8 DEF LoadVolume, BeginScan, Conclude, Exit, Open, Fill, ReadFails, SlideFails,
                EndOfFile, NextFile, ToNext
  <2> QED
    BY <1>2, <2>1
<1> QED
  BY <1>2, <1>3, <1>4, <1>5, <1>6, <1>7, <1>8 DEF Next, Scan, ScanStep

LEMMA NextCells ==
  ASSUME VInv, SetInv, CellsInv, [Next]_vars PROVE CellsInv'
<1>1. job' = job
  BY DEF Next, LoadVolume, BeginScan, Scan, ScanStep, Open, Fill, ReadFails,
         Align, SkipBlock, AdvanceOneByte, SlideWindow, SlideFails, EndOfFile,
         Conclude, Exited, vars
<1> SUFFICES ASSUME ~job.skipping, BlockSize > 1 PROVE CellsInv'
  BY <1>1 DEF CellsInv
<1>2. TurnInv'
  BY TurnKeeps DEF CellsInv
<1>3. faults' = 0 => faults = 0
  BY FaultsRise
<1> SUFFICES ASSUME faults' = 0, NEW w \in DOMAIN job.disk, ToScan(w)' PROVE CellsAt(w)'
  BY <1>1, <1>2 DEF CellsInv
<1>4. w \in Nat \ {0}
  <2>1. job.disk \in Seq([exists : BOOLEAN, bytes : Seq(CrcByte)])
    BY JobsAssumption DEF VInv, PlaceInv
  <2> QED
    BY <2>1, LenProperties
<1>5. set' = set => ToScan(w) /\ CellsAt(w)
  BY <1>1, <1>3 DEF ToScan, Extra, CellsInv
<1>6. CASE ScanStep
  <2>1. set' = set
    BY <1>6, ScanShape
  <2> QED
    BY <1>3, <1>5, <1>6, <2>1, ScanCells DEF CellsInv
<1>7. CASE BeginScan
  <2>1. /\ which' = 1 /\ pc' \in {"open", "conclude"} /\ found'[w] = {}
    BY <1>7 DEF BeginScan, VInv, PlaceInv
  <2>2. ~(w < which') /\ pc' \notin {"scan", "slide"}
    BY <1>4, <2>1
  <2> QED
    BY <2>1, <2>2 DEF CellsAt
<1>8. CASE LoadVolume \/ Conclude \/ UNCHANGED vars
  <2>1. /\ UNCHANGED <<job, set, found, which>>
        /\ pc' = pc \/ pc' = "exit"
    BY <1>8 DEF LoadVolume, Conclude, Exit, vars
  <2> QED
    BY <1>5, <2>1, CellsStay
<1> QED
  BY <1>6, <1>7, <1>8 DEF Next, Scan, Exited

-----------------------------------------------------------------------------

\* A slice of the set is a block or nothing.
LEMMA NoSliceIsNoBlock ==
  ASSUME VInv, SetInv, BlockSize > 1, NEW f \in DOMAIN set, NEW i \in DOMAIN set[f].slices
  PROVE  set[f].slices[i] # NoBlock
<1>1. job.data \in Seq(Seq(CrcByte)) /\ f \in DOMAIN job.data
  BY JobsAssumption DEF VInv, PlaceInv, SetInv
<1> DEFINE bytes == job.data[f]
           n == Blocks(Len(bytes))
<1>2. bytes \in Seq(CrcByte) /\ Len(bytes) \in Nat
  BY <1>1, ElementOfSeq, LenProperties
<1>3. n \in Nat /\ BlockSize \in Nat
  BY <1>2, BlocksHold, ScannerAssumption
<1>4. CASE set[f].slices = [k \in 1..n |-> Unknown]
  BY <1>4 DEF Unknown, NoBlock
<1>5. CASE set[f].slices = Cut(bytes)
  <2> DEFINE a == (i - 1) * BlockSize + 1
             b == Least(i * BlockSize, Len(bytes))
             part == SubSeq(bytes, a, b)
  <2>1. i \in 1..n /\ set[f].slices[i] = PadTo(part, BlockSize)
    BY <1>5 DEF Cut
  <2>2. (i - 1) * BlockSize \in Nat /\ i * BlockSize \in Nat
    BY <1>3, <2>1
  <2>3. a \in Nat \ {0} /\ b \in Nat /\ b <= Len(bytes)
    BY <1>2, <2>2 DEF Least
  <2> HIDE DEF a, b
  <2>4. part \in Seq(CrcByte)
    <3>1. \A k \in a..b : bytes[k] \in CrcByte
      BY <1>2, <2>3, ElementOfSeq
    <3> QED
      BY <1>2, <2>3, <3>1, SubSeqProperties
  <2> HIDE DEF part
  <2>5. Len(set[f].slices[i]) >= BlockSize
    BY <2>1, <2>4, PaddedIsLong
  <2>6. Len(NoBlock) = 1
    BY DEF NoBlock
  <2>7. ASSUME set[f].slices[i] = NoBlock PROVE FALSE
    <3>1. Len(set[f].slices[i]) = 1
      BY <2>6, <2>7
    <3> QED
      BY <1>3, <2>5, <3>1
  <2> QED
    BY <2>7
<1> QED
  BY <1>1, <1>4, <1>5 DEF SetInv

\* Protected blocks are the slices of the set.
LEMMA ProtectedIs ==
  /\ \A b : b \in Engine!Protected <=> \E f \in DOMAIN set : b \in ToSet(set[f].slices)
  /\ \A b : b \in Engine!Protected <=>
       \E f \in DOMAIN set : \E i \in DOMAIN set[f].slices : b = set[f].slices[i]
BY DEF Engine!Protected, Engine!Slice, ToSet

\* A cell is protected when it is a block of the set.
LEMMA CellIsBlock ==
  ASSUME VInv, SetInv, BlockSize > 1, NEW w \in DOMAIN job.disk,
         NEW p \in 1..(Len(job.disk[w].bytes) \div BlockSize)
  PROVE  CellsOf(job.disk[w].bytes)[p] \in Engine!Protected
           <=> IsBlock(w, (p - 1) * BlockSize)
<1> DEFINE cell == WindowAt((p - 1) * BlockSize, job.disk[w].bytes)
<1>1. CellsOf(job.disk[w].bytes)[p] = IF cell \in Engine!Protected THEN cell ELSE NoBlock
  BY DEF CellsOf
<1>2. NoBlock \notin Engine!Protected
  BY ProtectedIs, NoSliceIsNoBlock
<1>3. cell \in Engine!Protected <=> IsBlock(w, (p - 1) * BlockSize)
  BY ProtectedIs DEF IsBlock
<1> QED
  BY <1>1, <1>2, <1>3

\* What is recorded of a file of whole cells is a cell.
LEMMA RecordIsCell ==
  ASSUME VInv, SetInv, RecordsInv, faults = 0, NEW w \in DOMAIN job.disk,
         WholeCells(job.disk[w].bytes), NEW e \in found[w]
  PROVE  \E q \in Nat : /\ e[1] = q * BlockSize /\ e[1] \div BlockSize = q
                        /\ q < Len(job.disk[w].bytes) \div BlockSize
                        /\ IsBlock(w, e[1])
<1> DEFINE bytes == job.disk[w].bytes
           L == Len(bytes)
           n == L \div BlockSize
           o == e[1]
           q == o \div BlockSize
<1>1. bytes \in Seq(CrcByte) /\ L \in Nat /\ BlockSize \in Nat \ {0}
  BY DiskFacts, LenProperties, ScannerAssumption DEF VInv
<1>2. /\ o \in 0..(L - 1)
      /\ e[2][1] \in DOMAIN set /\ e[2][2] \in DOMAIN set[e[2][1]].slices
      /\ Padded(bytes, o, BlockSize) = set[e[2][1]].slices[e[2][2]]
  BY DEF RecordsInv, IsRecord
<1>3. Padded(bytes, o, BlockSize) \in Engine!Protected
  BY <1>2, ProtectedIs
<1>4. o % BlockSize = 0 /\ L % BlockSize = 0
  BY <1>2, <1>3 DEF WholeCells
<1>5. \A x \in Nat : \A b \in Nat \ {0} :
        x % b = 0 => x \div b \in Nat /\ x = (x \div b) * b
  OBVIOUS
<1>6. o \in Nat /\ q \in Nat /\ n \in Nat /\ o = q * BlockSize /\ L = n * BlockSize
  <2>1. o \in Nat
    BY <1>1, <1>2
  <2> HIDE DEF L
  <2>2. q \in Nat /\ o = q * BlockSize
    BY <1>1, <1>4, <1>5, <2>1
  <2>3. n \in Nat /\ L = n * BlockSize
    BY <1>1, <1>4, <1>5
  <2> QED
    BY <2>1, <2>2, <2>3
<1> HIDE DEF q, n, L
<1>7. q < n /\ q * BlockSize + BlockSize <= n * BlockSize
  <2>1. q * BlockSize < n * BlockSize
    BY <1>2, <1>6
  <2> QED
    BY <1>6, <2>1, BlocksApart
<1>8. o + BlockSize <= L
  BY <1>6, <1>7
<1>9. Padded(bytes, o, BlockSize) = WindowAt(o, bytes)
  <2>1. Least(o + BlockSize, L) = o + BlockSize
    BY <1>1, <1>6, <1>8 DEF Least
  <2>2. WindowAt(o, bytes) \in Seq(CrcByte) /\ Len(WindowAt(o, bytes)) = BlockSize
    BY <1>1, <1>6, <1>8, PartOf DEF WindowAt, L
  <2>3. Padded(bytes, o, BlockSize) = PadTo(WindowAt(o, bytes), BlockSize)
    BY <2>1 DEF Padded, WindowAt, L
  <2> QED
    BY <2>2, <2>3, PadWhole
<1>10. IsBlock(w, o)
  BY <1>3, <1>9, ProtectedIs DEF IsBlock
<1> QED
  BY <1>6, <1>7, <1>10 DEF q, n, L

\* Where the scan of a file ends, in cells.
LEMMA LimitInCells ==
  ASSUME VInv, SetInv, NEW w \in DOMAIN job.disk, ToScan(w),
         Len(job.disk[w].bytes) % BlockSize = 0,
         ~Extra(w) => set[w].length % BlockSize = 0
  PROVE  \E n, k \in Nat :
           /\ n = Len(job.disk[w].bytes) \div BlockSize
           /\ Len(job.disk[w].bytes) = n * BlockSize
           /\ k = IF Extra(w) THEN Len(job.disk[w].bytes) \div BlockSize
                  ELSE set[w].length \div BlockSize
           /\ LimitOf(w) = k * BlockSize
<1> DEFINE L == Len(job.disk[w].bytes)
<1>1. L \in Nat /\ BlockSize \in Nat \ {0}
  BY DiskFacts, LenProperties, ScannerAssumption DEF VInv
<1>2. \A x \in Nat : \A b \in Nat \ {0} :
        x % b = 0 => x \div b \in Nat /\ x = (x \div b) * b
  OBVIOUS
<1>3. CASE Extra(w)
  BY <1>1, <1>2, <1>3 DEF LimitOf
<1>4. CASE ~Extra(w)
  <2>1. job.data \in Seq(Seq(CrcByte)) /\ w \in DOMAIN set
    BY <1>4, JobsAssumption DEF VInv, PlaceInv, ToScan
  <2>2. w \in DOMAIN job.data /\ set[w].length = Len(job.data[w])
    BY <2>1 DEF SetInv
  <2>3. set[w].length \in Nat
    BY <2>1, <2>2, ElementOfSeq, LenProperties
  <2> QED
    BY <1>1, <1>2, <1>4, <2>3 DEF LimitOf
<1> QED
  BY <1>3, <1>4

LEMMA TwoBlocks ==
  ASSUME NEW n \in Nat PROVE 2 * BlockSize <= n * BlockSize <=> 2 <= n
<1> DEFINE l == n * BlockSize
           m == 2 * BlockSize
<1>1. l \in Nat /\ m \in Nat /\ BlockSize \in Nat \ {0}
  BY BlocksApart, ScannerAssumption
<1>2. (n < 2 => l + BlockSize <= m) /\ (2 < n => m + BlockSize <= l)
  BY <1>1, LessIsLess
<1>3. n = 2 => l = m
  OBVIOUS
<1> HIDE DEF l, m
<1>4. m <= l <=> 2 <= n
  BY <1>1, <1>2, <1>3
<1> QED
  BY <1>4 DEF l, m

\* Of a file of whole cells the scan finds the cells that GlobalVerify says.
LEMMA CellsFound ==
  ASSUME VInv, SetInv, RecordsInv, PassedInv, BlockSize > 1, faults = 0, ~job.skipping,
         NEW w \in DOMAIN job.disk, w < which, ToScan(w), CellsAt(w),
         WholeCells(job.disk[w].bytes), NEW n \in Nat, NEW k \in Nat,
         n = Len(job.disk[w].bytes) \div BlockSize,
         Len(job.disk[w].bytes) = n * BlockSize,
         LimitOf(w) = k * BlockSize
  PROVE  {e[1] \div BlockSize + 1 : e \in found[w]}
           = Engine!Scan(CellsOf(job.disk[w].bytes), k)
<1> DEFINE bytes == job.disk[w].bytes
           C == CellsOf(bytes)
<1>1. DOMAIN C = 1..n /\ Len(C) = n
  BY DEF CellsOf
<1>2. BlockSize \in Nat \ {0} /\ 2 * BlockSize \in Nat
  BY ScannerAssumption
<1>3. \A p \in 1..n : C[p] \in Engine!Protected <=> IsBlock(w, (p - 1) * BlockSize)
  BY CellIsBlock
<1>4. \A p \in 1..n : /\ p - 1 \in Nat /\ (p - 1) * BlockSize \in Nat
                      /\ (p - 1) * BlockSize + BlockSize <= n * BlockSize
                      /\ n * BlockSize \in Nat /\ p * BlockSize = (p - 1) * BlockSize + BlockSize
  <2> SUFFICES ASSUME NEW p \in 1..n
               PROVE  /\ p - 1 \in Nat /\ (p - 1) * BlockSize \in Nat
                      /\ (p - 1) * BlockSize + BlockSize <= n * BlockSize
                      /\ n * BlockSize \in Nat /\ p * BlockSize = (p - 1) * BlockSize + BlockSize
    OBVIOUS
  <2>1. p - 1 \in Nat /\ p - 1 < n /\ (p - 1) + 1 = p
    OBVIOUS
  <2> QED
    BY <2>1, BlocksApart
<1>5. (1 - 1) * BlockSize = 0 /\ (2 - 1) * BlockSize = BlockSize
  BY <1>2
<1>6. 2 * BlockSize <= Len(bytes) <=> 2 <= n
  BY TwoBlocks
<1>7. \A p : p \in Engine!AlignedScan(C) <=>
        p \in 1..n /\ n >= 2 /\ p <= 2 /\ \A q \in 1..p : C[q] \in Engine!Protected
  BY <1>1 DEF Engine!AlignedScan
<1>8. \A p : p \in Engine!Scan(C, k) <=>
        p \in Engine!AlignedScan(C) \/ (p \in 1..n /\ p <= k /\ C[p] \in Engine!Protected)
  BY <1>1 DEF Engine!Scan
<1> HIDE DEF C
\* What the aligned pass finds, in cells.
<1>9. ASSUME NEW p \in 1..n
      PROVE  p \in Engine!AlignedScan(C) <=> Aligned(w, (p - 1) * BlockSize)
  <2>1. CASE p = 1
    <3>1. \A q \in 1..p : q = 1
      BY <2>1
    <3> QED
      BY <1>3, <1>5, <1>6, <1>7, <2>1, <3>1 DEF Aligned
  <2>2. CASE p = 2
    <3>1. (\A q \in 1..p : q = 1 \/ q = 2) /\ 1 \in 1..p /\ 2 \in 1..p
      BY <2>2
    <3>2. 1 \in 1..n /\ 2 \in 1..n
      BY <2>2
    <3> QED
      BY <1>3, <1>5, <1>6, <1>7, <2>2, <3>1, <3>2 DEF Aligned
  <2>3. CASE p > 2
    <3>1. (p - 1) * BlockSize \notin {0, BlockSize}
      <4>1. 1 < p - 1 => 1 * BlockSize + BlockSize <= (p - 1) * BlockSize
        BY <1>2, LessIsLess
      <4> DEFINE o == (p - 1) * BlockSize
      <4>2. 1 * BlockSize = BlockSize
        BY <1>2
      <4> HIDE DEF o
      <4> QED
        BY <1>2, <2>3, <4>1, <4>2 DEF o
    <3> QED
      BY <1>7, <2>3, <3>1 DEF Aligned
  <2> QED
    BY <2>1, <2>2, <2>3
<1>10. ASSUME NEW e \in found[w]
       PROVE  e[1] \div BlockSize + 1 \in Engine!Scan(C, k)
  <2>1. PICK q \in Nat : /\ e[1] = q * BlockSize /\ e[1] \div BlockSize = q
                         /\ q < n /\ IsBlock(w, e[1])
    BY RecordIsCell
  <2>2. q + 1 \in 1..n /\ (q + 1) - 1 = q
    BY <2>1
  <2>3. C[q + 1] \in Engine!Protected
    BY <1>3, <2>1, <2>2
  <2>4. q * BlockSize < k * BlockSize \/ Aligned(w, q * BlockSize)
    BY <2>1 DEF CellsAt, WholeCells
  <2>5. q < k \/ q + 1 \in Engine!AlignedScan(C)
    BY <1>9, <2>2, <2>4, BlocksApart
  <2> QED
    BY <1>8, <2>1, <2>2, <2>3, <2>5
<1>11. ASSUME NEW p \in Engine!Scan(C, k)
       PROVE  \E e \in found[w] : p = e[1] \div BlockSize + 1
  <2>1. p \in 1..n
    BY <1>7, <1>8
  <2>2. \A e \in found[w] : e[1] = (p - 1) * BlockSize => e[1] \div BlockSize = p - 1
    <3> SUFFICES ASSUME NEW e \in found[w], e[1] = (p - 1) * BlockSize
                 PROVE  e[1] \div BlockSize = p - 1
      OBVIOUS
    <3>1. PICK q \in Nat : e[1] = q * BlockSize /\ e[1] \div BlockSize = q
      BY RecordIsCell
    <3>2. ~(q < p - 1) /\ ~(p - 1 < q)
      <4> DEFINE o == (p - 1) * BlockSize
      <4>1. q < p - 1 => q * BlockSize + BlockSize <= o
        BY <1>4, <2>1, BlocksApart
      <4>2. p - 1 < q => o + BlockSize <= q * BlockSize
        BY <1>4, <2>1, BlocksApart
      <4>3. q * BlockSize = o /\ o \in Nat
        BY <1>4, <2>1, <3>1
      <4> HIDE DEF o
      <4> QED
        BY <1>2, <4>1, <4>2, <4>3
    <3> QED
      BY <2>1, <3>1, <3>2
  <2>3. CASE p \in Engine!AlignedScan(C)
    <3>1. Aligned(w, (p - 1) * BlockSize)
      BY <1>9, <2>1, <2>3
    <3>2. PICK e \in found[w] : e[1] = (p - 1) * BlockSize
      BY <3>1 DEF CellsAt
    <3> QED
      BY <2>1, <2>2, <3>2
  <2>4. CASE p <= k /\ C[p] \in Engine!Protected
    <3> DEFINE o == (p - 1) * BlockSize
    <3>1. o \in Nat /\ o + BlockSize <= Len(bytes) /\ IsBlock(w, o) /\ Len(bytes) \in Nat
      BY <1>3, <1>4, <2>1, <2>4
    <3>2. o < k * BlockSize
      <4>1. o + BlockSize <= k * BlockSize
        BY <1>4, <2>1, <2>4, BlocksApart
      <4>2. o \in Nat /\ k * BlockSize \in Nat
        BY <1>2, <1>4, <2>1
      <4> HIDE DEF o
      <4> QED
        BY <1>2, <4>1, <4>2
    <3>3. p - 1 \in Nat
      BY <2>1
    <3>4. o \div BlockSize = p - 1
      <4>1. o < o + BlockSize
        BY <1>2, <3>1
      <4> DEFINE q == p - 1
      <4>2. q \in Nat /\ q * BlockSize <= o /\ o < q * BlockSize + BlockSize
        BY <1>2, <3>1, <3>3
      <4> HIDE DEF q, o
      <4>3. o \div BlockSize = q
        BY <1>2, <3>1, <4>2, MultipleOf
      <4> QED
        BY <4>3 DEF q
    <3>5. Wanted(w, o)
      BY <3>1, <3>2, <3>4 DEF Wanted, LimitOf, IsBlock, FitsAt
    <3> HIDE DEF o
    <3>6. o \in 0..(Scanned(w) - 1)
      <4>1. Scanned(w) = Len(bytes)
        BY DEF Scanned
      <4> HIDE DEF bytes
      <4> QED
        BY <1>2, <3>1, <4>1
    <3>7. PICK e \in found[w] : e[1] \in (o - BlockSize + 1)..o
      BY <3>5, <3>6 DEF PassedInv, FoundAt
    <3>8. PICK q \in Nat : e[1] = q * BlockSize
      BY RecordIsCell
    <3>9. e[1] = o
      <4>1. q < p - 1 => q * BlockSize + BlockSize <= o
        BY <3>3, BlocksApart DEF o
      <4>2. p - 1 < q => o + BlockSize <= q * BlockSize
        BY <3>3, BlocksApart DEF o
      <4>3. q = p - 1 => q * BlockSize = o
        BY DEF o
      <4>4. q * BlockSize \in Nat
        BY <1>2
      <4> DEFINE a == q * BlockSize
      <4> HIDE DEF a
      <4> QED
        BY <1>2, <3>1, <3>3, <3>7, <3>8, <4>1, <4>2, <4>3, <4>4 DEF a
    <3> QED
      BY <2>1, <2>2, <3>9 DEF o
  <2> QED
    BY <1>8, <2>3, <2>4
<1> DEFINE S == Engine!Scan(C, k)
           At(e) == e[1] \div BlockSize + 1
<1>12. (\A e \in found[w] : At(e) \in S) /\ \A p \in S : \E e \in found[w] : p = At(e)
  BY <1>10, <1>11
<1> HIDE DEF S, At
<1>13. {At(e) : e \in found[w]} = S
  BY <1>12
<1> QED
  BY <1>13 DEF S, At, C

\* For any files and any set the byte-wise scan finds in a file of whole cells
\* what GlobalVerify says that a scan finds: the aligned pass over the first
\* buffer, also beyond the described length, and the cells within this length
\* (scan_single_file_with_progress against the model of it that the repair is
\* checked and proved with).
THEOREM CellsAreEnough == ASSUME SlidesRight PROVE Spec => []CellsSuffice
<1>1. ASSUME VInv, RecordsInv, SetInv, PassedInv, PhaseInv, CellsInv PROVE CellsSuffice
  <2> SUFFICES ASSUME pc = "exit", ~job.skipping, faults = 0, BlockSize > 1,
                      NEW w \in DOMAIN job.disk, ToScan(w), WholeCells(job.disk[w].bytes),
                      ~Extra(w) => set[w].length % BlockSize = 0
               PROVE  {e[1] \div BlockSize + 1 : e \in found[w]}
                        = Engine!Scan(CellsOf(job.disk[w].bytes),
                             IF Extra(w) THEN Len(job.disk[w].bytes) \div BlockSize
                             ELSE set[w].length \div BlockSize)
    BY DEF CellsSuffice
  <2> DEFINE k == IF Extra(w) THEN Len(job.disk[w].bytes) \div BlockSize
                  ELSE set[w].length \div BlockSize
             C == CellsOf(job.disk[w].bytes)
  <2>1. CASE DOMAIN set = {}
    <3>1. found[w] = {}
      BY <1>1, <2>1 DEF RecordsInv, IsRecord
    <3>2. \A b : b \notin Engine!Protected
      BY <2>1, ProtectedIs
    <3>3. DOMAIN C = 1..(Len(job.disk[w].bytes) \div BlockSize)
      BY DEF CellsOf
    <3>4. \A p \in DOMAIN C : p \in 1..p
      BY <3>3
    <3> HIDE DEF C, k
    <3>5. Engine!Scan(C, k) = {}
      BY <3>2, <3>4 DEF Engine!Scan, Engine!AlignedScan
    <3> QED
      BY <3>1, <3>5 DEF C, k
  <2>2. CASE which > Len(job.disk)
    <3>1. w < which
      <4>1. job.disk \in Seq([exists : BOOLEAN, bytes : Seq(CrcByte)])
        BY <1>1, JobsAssumption DEF VInv, PlaceInv
      <4>2. w \in 1..Len(job.disk) /\ Len(job.disk) \in Nat /\ which \in Nat
        BY <1>1, <4>1, LenProperties DEF VInv, PlaceInv
      <4> QED
        BY <2>2, <4>2
    <3>2. CellsAt(w)
      BY <1>1 DEF CellsInv
    <3>3. Len(job.disk[w].bytes) % BlockSize = 0
      BY DEF WholeCells
    <3>4. \E n, m \in Nat : /\ n = Len(job.disk[w].bytes) \div BlockSize
                            /\ Len(job.disk[w].bytes) = n * BlockSize
                            /\ m = k /\ LimitOf(w) = m * BlockSize
      BY <1>1, <3>3, LimitInCells
    <3> HIDE DEF k
    <3>5. {e[1] \div BlockSize + 1 : e \in found[w]} = Engine!Scan(C, k)
      BY <1>1, <3>1, <3>2, <3>4, CellsFound
    <3> QED
      BY <3>5 DEF k
  <2> QED
    BY <1>1, <2>1, <2>2 DEF PhaseInv
<1>2. /\ VInv /\ RecordsInv /\ SetInv /\ ScansInv /\ PassedInv /\ PhaseInv /\ CellsInv
      /\ [Next]_vars
      => (VInv /\ RecordsInv /\ SetInv /\ ScansInv /\ PassedInv /\ PhaseInv /\ CellsInv)'
  BY NextWindow, NextRecords, NextSet, NextScans, NextPassed, NextPhase, NextCells
<1>3. Init => VInv /\ RecordsInv /\ SetInv /\ ScansInv /\ PassedInv /\ PhaseInv /\ CellsInv
  <2>1. Init => PhaseInv
    BY DEF Init, PhaseInv
  <2>2. ASSUME Init PROVE CellsInv
    <3>1. pc = "load" /\ which = 1 /\ job \in Jobs /\ \A w \in DOMAIN job.disk : found[w] = {}
      BY <2>2 DEF Init
    <3>2. DOMAIN job.disk \subseteq Nat \ {0}
      <4>1. job.disk \in Seq([exists : BOOLEAN, bytes : Seq(CrcByte)])
        BY <3>1, JobsAssumption
      <4> QED
        BY <4>1, LenProperties
    <3>3. \A w \in DOMAIN job.disk : CellsAt(w)
      BY <3>1, <3>2 DEF CellsAt
    <3> QED
      BY <3>1, <3>3 DEF CellsInv, TurnInv
  <2> QED
    BY <2>1, <2>2, InitWindow, InitRecords, InitSet, InitPassed
<1> QED
  BY <1>1, <1>2, <1>3, PTL DEF Spec
=============================================================================
