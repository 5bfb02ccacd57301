----------------------------- MODULE CreatePlan -----------------------------
(***************************************************************************)
(* What a create command decides before it reads a source: block size,     *)
(* bytes handled at a time, and which recovery slices go to which volume   *)
(* (src/create/context.rs, src/create/file_naming.rs).                     *)
(*                                                                         *)
(* Sizes are counted in cells of four bytes, the unit block sizes are a    *)
(* multiple of; a source of b bytes has b/4 cells, rounded up.             *)
(***************************************************************************)
EXTENDS Integers, Sequences, FiniteSetsExt

CONSTANTS
  Overhead,   \* most buffers counted besides the recovery slices (24)
  MaxChunk    \* most cells handled at a time (32 MiB)

ASSUME PlanAssumption == Overhead \in Nat /\ MaxChunk \in Nat \ {0}

Lesser(m, n) == IF m <= n THEN m ELSE n
Greater(m, n) == IF m >= n THEN m ELSE n
CeilDiv(m, n) == (m + n - 1) \div n

\* The sum of the first k numbers of a sequence.
SumTo(s, k) ==
  LET sum[n \in 0..k] == IF n = 0 THEN 0 ELSE sum[n - 1] + s[n]
  IN  sum[k]

Total(s) == SumTo(s, Len(s))

-----------------------------------------------------------------------------
(* Block size *)

\* Blocks of all sources together.
BlocksOf(sizes, block) ==
  Total([k \in DOMAIN sizes |-> CeilDiv(sizes[k], block)])

Largest(sizes) == Max({0} \cup {sizes[k] : k \in DOMAIN sizes})

\* Fault for testing: each half of the interval ends at the middle.
SearchShort(sizes, target, low, high) ==
  LET size[b \in (low..high) \X (low..high)] ==
        LET l == b[1]
            h == b[2]
            m == (l + h) \div 2
        IN  IF l >= h THEN l
            ELSE IF BlocksOf(sizes, m) > target THEN size[<<m + 1, h>>]
            ELSE size[<<l, Greater(l, m - 1)>>]
  IN  size[<<low, high>>]

\* Binary search for the block size that comes closest to the target.
Search(sizes, target, low, high) ==
  LET size[b \in (low..high) \X (low..high)] ==
        LET l == b[1]
            h == b[2]
            m == (l + h) \div 2
        IN  IF l >= h THEN l
            ELSE IF BlocksOf(sizes, m) > target THEN size[<<m + 1, h>>]
            ELSE size[<<l, m>>]
  IN  size[<<low, high>>]

\* The block size for a number of blocks (-b); 0 when there are more files.
BlockSize(sizes, target) ==
  LET files == Len(sizes)
      total == Total(sizes)
  IN  IF target < files THEN 0
      ELSE IF target = files THEN Largest(sizes)
      ELSE IF target > total THEN 1
      ELSE Search(sizes, target, total \div target,
                  CeilDiv(total, target - files))

\* Cells of each block handled at a time, in the memory allowed (in bytes).
ChunkSize(block, sources, recovery, memory) ==
  LET buffers == recovery + 2 + Lesser(sources + 1, Overhead)
      limit == Lesser(block, MaxChunk)
  IN  IF 4 * block * buffers <= memory THEN limit
      ELSE Lesser(limit, Greater(1, (memory \div buffers) \div 4))

-----------------------------------------------------------------------------
(* Volumes *)

\* Volumes of the given numbers of slices, one after the other.
Placed(first, counts) ==
  [k \in DOMAIN counts |->
     [exponent |-> first + SumTo(counts, k - 1), count |-> counts[k]]]

UniformCounts(files, count) ==
  [k \in 1..files |->
     count \div files + (IF k <= count % files THEN 1 ELSE 0)]

\* The smallest volume of a doubling series with room for all slices.
Smallest(files, count) ==
  Min({n \in {2 ^ j : j \in 0..count} : n * (2 ^ files - 1) >= count})

VariableCounts(files, count) ==
  LET low == Smallest(files, count)
  IN  [k \in 1..files |->
         Lesser(low * 2 ^ (k - 1),
                Greater(0, count - low * (2 ^ (k - 1) - 1)))]

\* A doubling series of volumes of at most cap slices; no volume takes less
\* than the later ones leave.
Bottom(files, count, cap) ==
  LET low == Smallest(files, count)
      given[k \in 0..files] ==
        IF k = 0 THEN 0
        ELSE LET left == count - given[k - 1]
                 least == Greater(0, left - (files - k) * cap)
                 series == Lesser(low * 2 ^ (k - 1), left)
             IN  given[k - 1] + Lesser(Greater(series, least), cap)
  IN  [k \in 1..files |-> given[k] - given[k - 1]]

\* Fault for testing: the full volumes start where the doubling series does.
LimitedVolumesOverlapping(files, count, first, cap) ==
  LET full == Lesser(files, Greater(0, count \div cap - 1))
      rest == count - full * cap
  IN  Placed(first, Bottom(files - full, rest, cap))
        \o Placed(first, [k \in 1..full |-> cap])

\* The last volumes get cap slices each while two caps are left, the first
\* ones a doubling series.  Without a volume for the rest all are alike.
LimitedVolumes(files, count, first, cap) ==
  LET full == Lesser(files, Greater(0, count \div cap - 1))
      rest == count - full * cap
  IN  IF full = files /\ rest > 0
      THEN Placed(first, UniformCounts(files, count))
      ELSE Placed(first, Bottom(files - full, rest, cap))
             \o Placed(first + rest, [k \in 1..full |-> cap])

Volumes(scheme, files, count, first, cap) ==
  CASE scheme = "uniform" -> Placed(first, UniformCounts(files, count))
    [] scheme = "variable" -> Placed(first, VariableCounts(files, count))
    [] scheme = "limited" ->
         LimitedVolumes(files, count, first, Greater(1, cap))

\* Binary digits of a number.
Digits(count) ==
  LET digits[n \in 0..count] == IF n = 0 THEN 0 ELSE 1 + digits[n \div 2]
  IN  digits[count]

\* The number of volumes when none is asked for.
DefaultFiles(scheme, count, cap) ==
  IF count = 0 THEN 0
  ELSE IF scheme # "limited" THEN Digits(count)
  ELSE LET whole == Greater(0, count \div cap - 1)
       IN  whole + Digits(count - whole * cap)

-----------------------------------------------------------------------------
(* Recovery slices *)

\* Slices that fit into target bytes with those of so many volumes.
SlicesWith(volumes, target, blocks, block) ==
  LET overhead == volumes * 21 * blocks
  IN  Greater(1, (target - overhead) \div (4 * block + 70))

\* Fault for testing: the number of blocks is not rounded.
SlicesForPercentFloor(percent, blocks) == (blocks * percent) \div 100

SlicesForPercent(percent, blocks) ==
  Greater(1, (blocks * percent + 50) \div 100)

\* What the volumes hold besides the slices is estimated, first for fifteen.
SlicesForSize(target, files, scheme, blocks, block, cap) ==
  LET estimated == SlicesWith(15, target, blocks, block)
      volumes == IF files > 0 THEN files
                 ELSE DefaultFiles(scheme, estimated, cap)
  IN  SlicesWith(volumes, target, blocks, block)

\* The number of slices asked for: as such (-c), in percent of the blocks (-r)
\* or by the bytes they take (-rk, -rm, -rg).
RecoverySlices(request, files, scheme, sizes, block) ==
  LET blocks == BlocksOf(sizes, block)
  IN  CASE request.kind = "count" -> request.n
        [] request.kind = "percent" -> SlicesForPercent(request.n, blocks)
        [] request.kind = "size" ->
             SlicesForSize(request.n, files, scheme, blocks, block,
                           CeilDiv(Largest(sizes), block))
=============================================================================
