---------------------------- MODULE SliceProvider ----------------------------
(***************************************************************************)
(* ChunkedSliceProvider of src/repair/slice_provider.rs: chunks of slices, *)
(* read from the files or from a cache that also reads ahead.              *)
(*                                                                         *)
(* A location is a slice as it lies in its file, with the bytes that are   *)
(* there now.  The cache is a sequence, the least recently used entry      *)
(* first: the code keeps a map and a map of access times.                  *)
(***************************************************************************)
EXTENDS Integers, SequencesExt

CONSTANTS
  MaxCache, \* entries of the cache (1000, 32 for slices of a MiB and more)
  Ahead     \* chunks read ahead (4, 1 for chunks of a MiB and more)

\* Reading ahead stops early enough never to evict what it reads.
ASSUME CacheAssumption ==
  /\ MaxCache \in Nat \ {0} /\ Ahead \in Nat
  /\ (MaxCache * 9) \div 10 - 1 + Ahead <= MaxCache

Smaller(a, b) == IF a < b THEN a ELSE b

Entry(slice, offset, data) ==
  [slice |-> slice, offset |-> offset, data |-> data]

Holds(cache, slice, offset) ==
  \E k \in DOMAIN cache :
    cache[k].slice = slice /\ cache[k].offset = offset

Cached(cache, slice, offset) ==
  CHOOSE k \in DOMAIN cache :
    cache[k].slice = slice /\ cache[k].offset = offset

\* An entry that is used becomes the most recently used.
Used(cache, k) == Append(RemoveAt(cache, k), cache[k])

\* Fault for testing: one entry too many is let in.
RoomLate(cache) ==
  IF Len(cache) > MaxCache THEN Tail(cache) ELSE cache

\* The least recently used entry goes when the cache is full.
Room(cache) == IF Len(cache) >= MaxCache THEN Tail(cache) ELSE cache

\* Bytes of the file from offset on, at most n.
FileBytes(file, offset, n) ==
  SubSeq(file, offset + 1, offset + Smaller(Len(file) - offset, n))

\* A chunk is read ahead as it is in the file, without padding.
ReadAhead(cache, slice, offset, n, file) ==
  Append(cache, Entry(slice, offset, FileBytes(file, offset, n)))

\* One chunk ahead, unless it lies behind the data or is there already.
PrefetchOne(cache, slice, offset, n, file) ==
  IF offset >= Len(file) \/ Holds(cache, slice, offset) THEN cache
  ELSE ReadAhead(Room(cache), slice, offset, n, file)

Prefetch(cache, slice, start, n, file) ==
  LET After[i \in 0..Ahead] ==
        IF i = 0 THEN cache
        ELSE PrefetchOne(After[i - 1], slice, start + (i - 1) * n, n, file)
  IN  IF Len(cache) >= (MaxCache * 9) \div 10 THEN cache ELSE After[Ahead]

PadTo(bytes, n) == bytes \o [k \in 1..(n - Len(bytes)) |-> 0]

\* A chunk read from the file is padded with zeros where the file ends.
ReadPadded(offset, n, logical, file) ==
  LET bytes == FileBytes(file, offset, n)
  IN  IF offset + n > Len(file) /\ offset + n <= logical
      THEN PadTo(bytes, n) ELSE bytes

\* The chunk and the cache after the call.  What lies behind the data is zeros
\* and is not read.
ReadChunk(cache, slice, offset, n, logical, file) ==
  IF Holds(cache, slice, offset)
  THEN LET k == Cached(cache, slice, offset)
       IN  [data |-> cache[k].data, cache |-> Used(cache, k)]
  ELSE IF offset >= Len(file)
  THEN [data |-> PadTo(<<>>, Smaller(n, logical - offset)), cache |-> cache]
  ELSE LET bytes == ReadPadded(offset, n, logical, file)
           updated == Append(Room(cache), Entry(slice, offset, bytes))
       IN  [data |-> bytes,
            cache |-> Prefetch(updated, slice, offset + n, n, file)]

\* The file is read, for the chunk itself or ahead of it.
Reads(cache, slice, offset, file) ==
  ~Holds(cache, slice, offset) /\ offset < Len(file)
=============================================================================
