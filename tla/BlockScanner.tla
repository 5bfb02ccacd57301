---------------------------- MODULE BlockScanner ----------------------------
(***************************************************************************)
(* The scan of one file for protected blocks, byte by byte through a       *)
(* buffer of two blocks: scan_single_file_with_progress of                 *)
(* src/verify/global_engine.rs with src/verify/scanner_state.rs and the    *)
(* ScanBuffer of src/verify/types.rs.                                      *)
(*                                                                         *)
(*   open -> fill -> align -> scan <-> slide -> done                       *)
(*                                                                         *)
(* Files are scanned one after the other here and in parallel in the code: *)
(* a scan shares nothing with another.                                     *)
(***************************************************************************)
EXTENDS RollingCrc, FiniteSets, FiniteSetsExt

CONSTANTS
  BlockSize,  \* of the set, in bytes
  Leeway,     \* skip_leeway
  Jobs,       \* sets, disks and options, as records
  MaxFaults   \* bound: reads that are short or fail, files not opened

ASSUME ScannerAssumption ==
  BlockSize \in Nat \ {0} /\ Leeway \in Nat /\ MaxFaults \in Nat

ASSUME JobsAssumption ==
  \A j \in Jobs :
    /\ j.data \in Seq(Seq(CrcByte))
    /\ j.disk \in Seq([exists : BOOLEAN, bytes : Seq(CrcByte)])
    /\ Len(j.data) <= Len(j.disk)
    /\ j.skipping \in BOOLEAN

VARIABLES
  job,       \* the files there are, the options
  set,       \* what the packets say of each protected file
  which,     \* file being scanned, as an index of job.disk
  pc,        \* step of the scan
  buffer,    \* bytes in the buffer
  processed, \* bytes slid out of it
  position,  \* of the window in the buffer
  crc,       \* rolling checksum, or NoCrc
  misses,    \* steps since the last match or skip
  found,     \* for each file, what was found where
  hashed,    \* files that were read once more for their MD5
  faults     \* counter for the bound

scanVars ==
  <<job, set, which, pc, buffer, processed, position, crc, misses, found,
    hashed, faults>>

NoCrc == -1

Least(a, b) == IF a < b THEN a ELSE b
PadTo(bytes, n) == bytes \o [k \in 1..(n - Len(bytes)) |-> 0]
Blocks(length) == (length + BlockSize - 1) \div BlockSize

-----------------------------------------------------------------------------
(* The set: of each file the length it should have, its slices, the last one
   padded, and whether its name is that of a file of this disk. *)

Cut(bytes) ==
  [i \in 1..Blocks(Len(bytes)) |->
     PadTo(SubSeq(bytes, (i - 1) * BlockSize + 1,
                  Least(i * BlockSize, Len(bytes))), BlockSize)]

\* Fault for testing: an equal CRC is taken for an equal block.
HitsByCrc(value, bytes) ==
  {e \in UNION {{f} \X DOMAIN set[f].slices : f \in DOMAIN set} :
     Crc(set[e[1]].slices[e[2]]) = value}

\* Entries of the block table with these checksums; only a CRC that is in the
\* table has the MD5 computed.
Hits(value, bytes) ==
  {e \in UNION {{f} \X DOMAIN set[f].slices : f \in DOMAIN set} :
     /\ set[e[1]].slices[e[2]] = bytes
     /\ Crc(set[e[1]].slices[e[2]]) = value}

Disk == job.disk[which].bytes

\* Fault for testing: every file is scanned to its end.
LimitOfDisk == Len(Disk)

\* A protected file is scanned up to its described length, another one to its
\* end.
Limit == IF which \in DOMAIN set THEN set[which].length ELSE Len(Disk)

\* Files of the disk: the protected ones first, then those of the command line.
Extra(w) == w > Len(job.data)
ToScan(w) ==
  job.disk[w].exists /\ (Extra(w) \/ (w \in DOMAIN set /\ set[w].named))

-----------------------------------------------------------------------------
(* The window *)

FitsAt(p, bytes) == p + BlockSize <= Len(bytes)
WindowAt(p, bytes) == SubSeq(bytes, p + 1, p + BlockSize)
Fits == FitsAt(position, buffer)

FreshCrc(p, bytes) ==
  IF FitsAt(p, bytes) THEN Crc(WindowAt(p, bytes)) ELSE NoCrc

Table == RollingTable(BlockSize)

\* Fault for testing: the byte that leaves is taken one too far.
SlidCrcAhead(p) ==
  IF crc = NoCrc \/ ~FitsAt(p, buffer) THEN NoCrc
  ELSE Slide(Table, crc, buffer[p + BlockSize], buffer[p + 1])

\* The checksum one byte further on.
SlidCrc(p) ==
  IF crc = NoCrc \/ ~FitsAt(p, buffer) THEN NoCrc
  ELSE Slide(Table, crc, buffer[p + BlockSize], buffer[p])

Record(offset, hits) ==
  found' = [found EXCEPT ![which] = @ \cup {<<offset, e>> : e \in hits}]

\* What is left of the buffer, padded, if it is less than a block.
Remainder == SubSeq(buffer, position + 1, Len(buffer))

\* Fault for testing: the remainder is not padded.
RecordUnpadded ==
  IF Remainder = <<>> THEN UNCHANGED found
  ELSE Record(processed + position, Hits(Crc(Remainder), Remainder))

RecordPartial ==
  IF Remainder = <<>> THEN UNCHANGED found
  ELSE LET padded == PadTo(Remainder, BlockSize)
       IN  Record(processed + position, Hits(Crc(padded), padded))

-----------------------------------------------------------------------------
(* Steps.  A file that cannot be opened or read at first has nothing found; a
   read that fails later ends the scan. *)

ToNext ==
  /\ pc' = "open" /\ which' = which + 1
  /\ buffer' = <<>> /\ processed' = 0 /\ position' = 0
  /\ crc' = NoCrc /\ misses' = 0

\* The file is read once more for its MD5.
NextFile == ToNext /\ hashed' = hashed \cup {which}

Fault == faults < MaxFaults /\ faults' = faults + 1

Open ==
  /\ pc = "open" /\ which \in DOMAIN job.disk
  /\ IF ToScan(which)
     THEN \/ pc' = "fill" /\ UNCHANGED <<which, faults>>
          \/ pc' = "open" /\ which' = which + 1 /\ Fault
     ELSE pc' = "open" /\ which' = which + 1 /\ UNCHANGED faults
  /\ UNCHANGED <<job, set, buffer, processed, position, crc, misses, found,
                 hashed>>

\* Fault for testing: what is kept is not subtracted.
RoomWhole(kept) == 2 * BlockSize

Room(kept) == 2 * BlockSize - Len(kept)

\* One read call: all that fits, or less.
ReadAfter(kept) ==
  LET start == processed + Len(buffer)
      full == Least(Room(kept), Len(Disk) - start)
  IN  \E n \in 0..full :
        /\ IF n = full THEN UNCHANGED faults ELSE n > 0 /\ Fault
        /\ buffer' = kept \o SubSeq(Disk, start + 1, start + n)

Fill ==
  /\ pc = "fill" /\ ReadAfter(<<>>) /\ pc' = "align"
  /\ UNCHANGED <<job, set, which, processed, position, crc, misses, found,
                 hashed>>

\* Fault for testing: after the aligned pass the scan goes on behind it.
AlignedPrefixWhole ==
  LET whole == Len(buffer) \div BlockSize
      Matches(k) == Hits(Crc(WindowAt((k - 1) * BlockSize, buffer)),
                         WindowAt((k - 1) * BlockSize, buffer)) # {}
      matched == {k \in 1..whole : \A j \in 1..k : Matches(j)}
  IN  [matched |-> matched, next |-> Cardinality(matched) * BlockSize + 1]

\* Aligned blocks of a buffer of two blocks, up to the first that does not
\* match; the scan starts there, or from the start when all match.
AlignedPrefix ==
  LET whole == IF Len(buffer) >= 2 * BlockSize THEN 2 ELSE 0
      Matches(k) == Hits(Crc(WindowAt((k - 1) * BlockSize, buffer)),
                         WindowAt((k - 1) * BlockSize, buffer)) # {}
      matched == {k \in 1..whole : \A j \in 1..k : Matches(j)}
  IN  [matched |-> matched,
       next |-> IF Cardinality(matched) = whole THEN 0
                ELSE Cardinality(matched) * BlockSize]

Align ==
  /\ pc = "align"
  /\ LET prefix == AlignedPrefix
         HitsAt(k) == Hits(Crc(WindowAt((k - 1) * BlockSize, buffer)),
                           WindowAt((k - 1) * BlockSize, buffer))
     IN  IF Len(buffer) \in 1..(BlockSize - 1)
         THEN RecordPartial /\ NextFile
         ELSE /\ found' = [found EXCEPT ![which] = @ \cup
                   UNION {{<<(k - 1) * BlockSize, e>> : e \in HitsAt(k)} :
                            k \in prefix.matched}]
              /\ position' = prefix.next
              /\ crc' = FreshCrc(prefix.next, buffer)
              /\ pc' = "scan"
              /\ UNCHANGED <<which, buffer, processed, misses, hashed>>
  /\ UNCHANGED <<job, set, faults>>

ScanDistance == Least(2 * Leeway, BlockSize)
ScanSkip == BlockSize - ScanDistance

\* The window has moved; it slides when it is past the first block.
Move(p, value, count) ==
  /\ position' = p /\ crc' = value /\ misses' = count
  /\ pc' = IF p >= BlockSize THEN "slide" ELSE "scan"

HitsHere == Hits(IF crc = NoCrc THEN Crc(WindowAt(position, buffer)) ELSE crc,
             WindowAt(position, buffer))

Scanning == pc = "scan" /\ processed < Limit

SkipBlock ==
  /\ Scanning /\ Fits /\ HitsHere # {}
  /\ Record(processed + position, HitsHere)
  /\ Move(position + BlockSize, FreshCrc(position + BlockSize, buffer), 0)
  /\ UNCHANGED <<job, set, which, buffer, processed, hashed, faults>>

\* With data skipping the rest of a block is left out once the leeway has been
\* searched in vain.
AdvanceOneByte ==
  /\ Scanning /\ Fits /\ HitsHere = {}
  /\ LET next == position + 1
         skip == /\ job.skipping /\ ScanSkip > 0 /\ ScanDistance > 0
                 /\ misses + 1 >= ScanDistance
     IN  IF skip THEN Move(next + ScanSkip, FreshCrc(next + ScanSkip, buffer), 0)
         ELSE Move(next, SlidCrc(next), misses + 1)
  /\ UNCHANGED <<job, set, which, buffer, processed, found, hashed, faults>>

SlidPosition == position - BlockSize

\* Fault for testing: what leaves the buffer is not counted.
SlidOutKept == processed

SlidOut == processed + BlockSize

\* The first block leaves the buffer, the next bytes of the file come in.  (A
\* buffer of less than a block cannot slide, which never occurs.)
SlideWindow ==
  /\ pc = "slide" /\ Len(buffer) >= BlockSize
  /\ ReadAfter(SubSeq(buffer, BlockSize + 1, Len(buffer)))
  /\ processed' = SlidOut
  /\ position' = SlidPosition
  /\ crc' = FreshCrc(position', buffer')
  /\ pc' = "scan"
  /\ UNCHANGED <<job, set, which, misses, found, hashed>>

SlideFails ==
  /\ pc = "slide" /\ Fault
  /\ NextFile
  /\ UNCHANGED <<job, set, found>>

ReadFails ==
  /\ pc = "fill" /\ Fault /\ ToNext
  /\ UNCHANGED <<job, set, found, hashed>>

\* The end of the described length, or no whole block left: what there is is
\* tried as a last short block.
EndOfFile ==
  /\ pc = "scan"
  /\ \/ processed >= Limit /\ UNCHANGED found
     \/ processed < Limit /\ ~Fits /\ RecordPartial
  /\ NextFile
  /\ UNCHANGED <<job, set, faults>>

ScanStep ==
  \/ Open \/ Fill \/ ReadFails \/ Align
  \/ SkipBlock \/ AdvanceOneByte \/ SlideWindow \/ SlideFails \/ EndOfFile
=============================================================================
