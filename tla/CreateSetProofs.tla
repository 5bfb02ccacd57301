--------------------------- MODULE CreateSetProofs ---------------------------
(***************************************************************************)
(* What create writes, and what it says of it, for all command lines,      *)
(* sizes of sources, blocks, chunks and batches, and whatever other        *)
(* programs do to sources and at output paths.                             *)
(*                                                                         *)
(* Between the open of an output and the write into it other programs may  *)
(* create files; OpenedInv says that none of them takes its place.  While  *)
(* blocks are read, SumInv relates the slices to what the hashes of the    *)
(* blocks were given so far, and HashesInv the hashes to one another.      *)
(* OutputsInv says of each output that it is complete or still to come.    *)
(* Before that: what holds of the sums, the searches and the volumes of a  *)
(* plan for all numbers of slices and volumes, what is known of the job of *)
(* a command line that is accepted, and of the plan that is made for it.   *)
(***************************************************************************)
EXTENDS CreateSetProperties, FiniteSetTheorems, SequenceTheorems, TLAPS

-----------------------------------------------------------------------------
(* Plans.  Sums are recursive functions; what holds of them for all numbers is *)
(* shown with the set of the numbers for which it holds.                     *)

\* A set with zero and the successor of each of its numbers has all numbers:
\* without it the numbers up to n that are missing, each moved down by one,
\* would fit into fewer places.
LEMMA EveryNumber ==
  ASSUME NEW S, 0 \in S, \A k \in Nat : k \in S => k + 1 \in S
  PROVE  \A n \in Nat : n \in S
<1> SUFFICES ASSUME NEW n \in Nat, n \notin S PROVE FALSE
  OBVIOUS
<1> DEFINE T == (0..n) \ S
           U == T \ {n}
           down == [x \in T |-> x - 1]
<1>1. IsFiniteSet(T) /\ IsFiniteSet(U)
  <2>1. IsFiniteSet(0..n)
    BY FS_Interval
  <2>2. T \in SUBSET (0..n) /\ U \in SUBSET (0..n)
    OBVIOUS
  <2> HIDE DEF T, U
  <2> QED
    BY <2>1, <2>2, FS_Subset
<1>2. n \in T
  OBVIOUS
<1>3. Cardinality(U) = Cardinality(T) - 1 /\ Cardinality(T) \in Nat
  BY <1>1, <1>2, FS_RemoveElement, FS_CardinalityType
<1>4. down \in [T -> U]
  <2> SUFFICES ASSUME NEW x \in T PROVE x - 1 \in U
    OBVIOUS
  <2>1. x \in Nat /\ x # 0 /\ x \notin S
    OBVIOUS
  <2>2. x - 1 \in Nat /\ x - 1 + 1 = x
    BY <2>1
  <2>3. x - 1 \notin S
    BY <2>1, <2>2
  <2> QED
    BY <2>1, <2>2, <2>3
<1>5. Cardinality(T) > Cardinality(U)
  BY <1>3
<1>6. PICK x, y \in T : x # y /\ down[x] = down[y]
  <2> HIDE DEF T, U, down
  <2> QED
    BY <1>1, <1>4, <1>5, FS_PigeonHole
<1> QED
  BY <1>6

-----------------------------------------------------------------------------
(* Sums *)

\* The sums of the first numbers of a sequence, one after the other.
AreSums(total, s, k) ==
  total = [n \in 0..k |-> IF n = 0 THEN 0 ELSE total[n - 1] + s[n]]

LEMMA SumsExist == \A s : \A k \in Nat : \E total : AreSums(total, s, k)
<1> SUFFICES ASSUME NEW s PROVE \A k \in Nat : \E total : AreSums(total, s, k)
  OBVIOUS
<1> DEFINE S == {k \in Nat : \E total : AreSums(total, s, k)}
<1>1. 0 \in S
  <2>1. AreSums([n \in 0..0 |-> 0], s, 0)
    BY DEF AreSums
  <2> QED
    BY <2>1
<1>2. ASSUME NEW k \in Nat, k \in S PROVE k + 1 \in S
  <2>1. PICK total : AreSums(total, s, k)
    BY <1>2
  <2> DEFINE next == [n \in 0..(k + 1) |->
                        IF n <= k THEN total[n] ELSE total[k] + s[k + 1]]
  <2>2. \A n \in 0..(k + 1) :
          next[n] = IF n = 0 THEN 0 ELSE next[n - 1] + s[n]
    <3>1. ASSUME NEW n \in 0..k
          PROVE  next[n] = IF n = 0 THEN 0 ELSE next[n - 1] + s[n]
      <4>1. total[n] = IF n = 0 THEN 0 ELSE total[n - 1] + s[n]
        BY <2>1 DEF AreSums
      <4>2. next[n] = total[n] /\ (n # 0 => next[n - 1] = total[n - 1])
        OBVIOUS
      <4> QED
        BY <4>1, <4>2
    <3>2. next[k + 1] = next[k] + s[k + 1]
      OBVIOUS
    <3>3. \A n \in 0..(k + 1) : n \in 0..k \/ n = k + 1
      OBVIOUS
    <3> HIDE DEF next
    <3>4. k + 1 - 1 = k /\ k + 1 # 0
      OBVIOUS
    <3> QED
      BY <3>1, <3>2, <3>3, <3>4
  <2>3. AreSums(next, s, k + 1)
    <3>1. next = [n \in 0..(k + 1) |-> next[n]]
      OBVIOUS
    <3> HIDE DEF next
    <3> QED
      BY <2>2, <3>1 DEF AreSums
  <2> QED
    BY <2>3
<1> HIDE DEF S
<1>3. \A n \in Nat : n \in S
  BY <1>1, <1>2, EveryNumber
<1> QED
  BY <1>3 DEF S

LEMMA SumsAgree ==
  ASSUME NEW s, NEW j \in Nat, NEW k \in Nat, NEW f, NEW g,
         AreSums(f, s, j), AreSums(g, s, k)
  PROVE  \A n \in Nat : n <= j /\ n <= k => f[n] = g[n]
<1> DEFINE S == {n \in Nat : n <= j /\ n <= k => f[n] = g[n]}
<1>1. 0 \in S
  BY DEF AreSums
<1>2. ASSUME NEW n \in Nat, n \in S PROVE n + 1 \in S
  <2> SUFFICES ASSUME n + 1 <= j, n + 1 <= k PROVE f[n + 1] = g[n + 1]
    OBVIOUS
  <2>1. n + 1 \in 0..j /\ n + 1 \in 0..k /\ n + 1 - 1 = n /\ n + 1 # 0
    OBVIOUS
  <2>2. f[n + 1] = f[n] + s[n + 1] /\ g[n + 1] = g[n] + s[n + 1]
    BY <2>1 DEF AreSums
  <2>3. f[n] = g[n]
    BY <1>2
  <2> QED
    BY <2>2, <2>3
<1> HIDE DEF S
<1>3. \A n \in Nat : n \in S
  BY <1>1, <1>2, EveryNumber
<1> QED
  BY <1>3 DEF S

\* What is summed up is what the recursion says.
LEMMA SumToIs ==
  \A s : \A k \in Nat : \E f : AreSums(f, s, k) /\ SumTo(s, k) = f[k]
<1> SUFFICES ASSUME NEW s, NEW k \in Nat
             PROVE  \E f : AreSums(f, s, k) /\ SumTo(s, k) = f[k]
  OBVIOUS
<1> DEFINE f == CHOOSE total : AreSums(total, s, k)
<1>1. AreSums(f, s, k)
  BY SumsExist
<1>2. SumTo(s, k) = f[k]
  BY DEF SumTo, AreSums
<1> QED
  BY <1>1, <1>2

LEMMA SumToSteps ==
  \A s : /\ SumTo(s, 0) = 0
         /\ \A k \in Nat : SumTo(s, k + 1) = SumTo(s, k) + s[k + 1]
<1> SUFFICES ASSUME NEW s
             PROVE  /\ SumTo(s, 0) = 0
                    /\ \A k \in Nat : SumTo(s, k + 1) = SumTo(s, k) + s[k + 1]
  OBVIOUS
<1>1. SumTo(s, 0) = 0
  BY SumToIs DEF AreSums
<1>2. ASSUME NEW k \in Nat PROVE SumTo(s, k + 1) = SumTo(s, k) + s[k + 1]
  <2>1. PICK f : AreSums(f, s, k) /\ SumTo(s, k) = f[k]
    BY SumToIs
  <2>2. PICK g : AreSums(g, s, k + 1) /\ SumTo(s, k + 1) = g[k + 1]
    BY SumToIs
  <2>3. f[k] = g[k]
    BY <2>1, <2>2, SumsAgree
  <2>4. k + 1 \in 0..(k + 1) /\ k + 1 # 0 /\ k + 1 - 1 = k
    OBVIOUS
  <2>5. g[k + 1] = g[k] + s[k + 1]
    BY <2>2, <2>4 DEF AreSums
  <2> QED
    BY <2>1, <2>2, <2>3, <2>5
<1> QED
  BY <1>1, <1>2

\* Sums of natural numbers are natural and do not fall.
LEMMA SumToRises ==
  ASSUME NEW s \in Seq(Nat)
  PROVE  /\ \A k \in 0..Len(s) : SumTo(s, k) \in Nat
         /\ \A j, k \in 0..Len(s) : j <= k => SumTo(s, j) <= SumTo(s, k)
<1> DEFINE N == {k \in Nat : k <= Len(s) => SumTo(s, k) \in Nat}
<1>1. 0 \in N
  BY SumToSteps
<1>2. ASSUME NEW k \in Nat, k \in N PROVE k + 1 \in N
  <2> SUFFICES ASSUME k + 1 <= Len(s) PROVE SumTo(s, k + 1) \in Nat
    OBVIOUS
  <2>1. s[k + 1] \in Nat
    OBVIOUS
  <2>2. SumTo(s, k) \in Nat
    BY <1>2
  <2>3. SumTo(s, k + 1) = SumTo(s, k) + s[k + 1]
    BY SumToSteps
  <2> HIDE DEF N
  <2> QED
    BY <2>1, <2>2, <2>3
<1>3. \A k \in Nat : k \in N
  <2> HIDE DEF N
  <2> QED
    BY <1>1, <1>2, EveryNumber
<1>4. \A k \in 0..Len(s) : SumTo(s, k) \in Nat
  BY <1>3
<1>5. ASSUME NEW j \in 0..Len(s)
      PROVE  \A k \in 0..Len(s) : j <= k => SumTo(s, j) <= SumTo(s, k)
  <2> DEFINE M == {k \in Nat : j <= k /\ k <= Len(s)
                                => SumTo(s, j) <= SumTo(s, k)}
  <2>1. 0 \in M
    <3>1. j <= 0 => j = 0
      OBVIOUS
    <3>2. SumTo(s, j) \in Nat
      BY <1>4
    <3> QED
      BY <3>1, <3>2
  <2>2. ASSUME NEW k \in Nat, k \in M PROVE k + 1 \in M
    <3> SUFFICES ASSUME j <= k + 1, k + 1 <= Len(s)
                 PROVE  SumTo(s, j) <= SumTo(s, k + 1)
      OBVIOUS
    <3>1. SumTo(s, j) \in Nat /\ SumTo(s, k) \in Nat /\ s[k + 1] \in Nat
      BY <1>4
    <3>2. SumTo(s, k + 1) = SumTo(s, k) + s[k + 1]
      BY SumToSteps
    <3>3. CASE j = k + 1
      BY <3>1, <3>3
    <3>4. CASE j <= k
      <4>1. SumTo(s, j) <= SumTo(s, k)
        BY <2>2, <3>4
      <4> QED
        BY <3>1, <3>2, <4>1
    <3> QED
      BY <3>3, <3>4
  <2> HIDE DEF M
  <2>3. \A k \in Nat : k \in M
    BY <2>1, <2>2, EveryNumber
  <2> QED
    BY <2>3 DEF M
<1> QED
  BY <1>4, <1>5

\* Every number below the sum of all lies between the sum of the first k - 1
\* and that of the first k, for some k.
LEMMA SumToReaches ==
  ASSUME NEW s \in Seq(Nat), NEW e \in Nat, e < Total(s)
  PROVE  \E k \in 1..Len(s) : SumTo(s, k - 1) <= e /\ e < SumTo(s, k)
<1> SUFFICES ASSUME \A k \in 1..Len(s) : SumTo(s, k - 1) <= e => SumTo(s, k) <= e
             PROVE  FALSE
  BY SumToRises
<1> DEFINE N == {k \in Nat : k <= Len(s) => SumTo(s, k) <= e}
<1>1. 0 \in N
  BY SumToSteps
<1>2. ASSUME NEW k \in Nat, k \in N PROVE k + 1 \in N
  <2> SUFFICES ASSUME k + 1 <= Len(s) PROVE SumTo(s, k + 1) <= e
    OBVIOUS
  <2>1. SumTo(s, k) <= e /\ k + 1 \in 1..Len(s) /\ k + 1 - 1 = k
    BY <1>2
  <2> QED
    BY <2>1
<1>3. \A k \in Nat : k \in N
  <2> HIDE DEF N
  <2> QED
    BY <1>1, <1>2, EveryNumber
<1>4. SumTo(s, Len(s)) <= e /\ SumTo(s, Len(s)) \in Nat
  BY <1>3, SumToRises
<1> QED
  BY <1>4 DEF Total

-----------------------------------------------------------------------------
(* Volumes *)

\* Exponents of a volume.
Exponents(volume) == volume.exponent .. (volume.exponent + volume.count - 1)

\* Volumes that are placed one after the other have every exponent from the
\* first on, as many as they have slices, exactly once, also when some of them
\* have no slice (allocate_recovery_blocks).
THEOREM PlacedOnce ==
  ASSUME NEW first \in Nat, NEW counts \in Seq(Nat),
         NEW e \in first .. (first + Total(counts) - 1)
  PROVE  \E k \in DOMAIN counts :
           {v \in DOMAIN counts : e \in Exponents(Placed(first, counts)[v])} = {k}
<1> DEFINE d == e - first
<1>1. d \in Nat /\ d < Total(counts)
  <2>1. Total(counts) \in Nat
    BY SumToRises DEF Total
  <2> QED
    BY <2>1
<1>2. PICK k \in 1..Len(counts) : SumTo(counts, k - 1) <= d /\ d < SumTo(counts, k)
  BY <1>1, SumToReaches
<1>3. ASSUME NEW v \in 1..Len(counts)
      PROVE  e \in Exponents(Placed(first, counts)[v])
               <=> SumTo(counts, v - 1) <= d /\ d < SumTo(counts, v)
  <2>1. /\ SumTo(counts, v - 1) \in Nat /\ SumTo(counts, v) \in Nat
        /\ counts[v] \in Nat
    BY SumToRises
  <2>2. SumTo(counts, v) = SumTo(counts, v - 1) + counts[v]
    <3>1. v - 1 \in Nat /\ v - 1 + 1 = v
      OBVIOUS
    <3> QED
      BY <3>1, SumToSteps
  <2>3. /\ Placed(first, counts)[v].exponent = first + SumTo(counts, v - 1)
        /\ Placed(first, counts)[v].count = counts[v]
    BY DEF Placed
  <2>4. Exponents(Placed(first, counts)[v])
          = (first + SumTo(counts, v - 1)) ..
              (first + SumTo(counts, v - 1) + counts[v] - 1)
    BY <2>3 DEF Exponents
  <2>5. e \in Int /\ d = e - first
    BY <2>1, SumToRises DEF Total
  <2> HIDE DEF d
  <2>6. \A a, b, c \in Nat : b = a + c =>
          (e \in (first + a) .. (first + a + c - 1) <=> a <= d /\ d < b)
    BY <2>5
  <2> QED
    BY <2>1, <2>2, <2>4, <2>6
<1>4. ASSUME NEW v \in 1..Len(counts),
             SumTo(counts, v - 1) <= d /\ d < SumTo(counts, v)
      PROVE  v = k
  <2>1. /\ SumTo(counts, v - 1) \in Nat /\ SumTo(counts, v) \in Nat
        /\ SumTo(counts, k - 1) \in Nat /\ SumTo(counts, k) \in Nat
    BY SumToRises
  <2>2. v <= k - 1 => SumTo(counts, v) <= SumTo(counts, k - 1)
    BY SumToRises
  <2>3. k <= v - 1 => SumTo(counts, k) <= SumTo(counts, v - 1)
    BY SumToRises
  <2> QED
    BY <1>1, <1>2, <1>4, <2>1, <2>2, <2>3
<1> HIDE DEF d
<1>5. DOMAIN counts = 1..Len(counts)
  OBVIOUS
<1> QED
  BY <1>2, <1>3, <1>4, <1>5

\* Equal shares, the first ones with one slice more if need be, hold all slices,
\* for every number of slices and volumes (the uniform arm of allocate_recovery_blocks).
THEOREM SharesAreAll ==
  ASSUME NEW files \in Nat \ {0}, NEW count \in Nat
  PROVE  /\ UniformCounts(files, count) \in Seq(Nat)
         /\ Total(UniformCounts(files, count)) = count
<1> DEFINE s == UniformCounts(files, count)
           q == count \div files
           r == count % files
<1>1. q \in Nat /\ r \in Nat /\ r < files /\ count = files * q + r
  OBVIOUS
<1>2. s \in Seq(Nat) /\ Len(s) = files
  <2>1. \A k \in 1..files : q + (IF k <= r THEN 1 ELSE 0) \in Nat
    BY <1>1
  <2>2. s = [k \in 1..files |-> q + (IF k <= r THEN 1 ELSE 0)]
    BY DEF UniformCounts
  <2> HIDE DEF s, q, r
  <2> QED
    BY <2>1, <2>2
<1>3. \A k \in 1..files : s[k] = q + (IF k <= r THEN 1 ELSE 0)
  BY DEF UniformCounts
<1> HIDE DEF s, q, r
<1> DEFINE N == {k \in Nat : k <= files => SumTo(s, k) = k * q + Lesser(k, r)}
<1>4. 0 \in N
  BY <1>1, SumToSteps DEF Lesser
<1>5. ASSUME NEW k \in Nat, k \in N PROVE k + 1 \in N
  <2> SUFFICES ASSUME k + 1 <= files
               PROVE  SumTo(s, k + 1) = (k + 1) * q + Lesser(k + 1, r)
    OBVIOUS
  <2>1. SumTo(s, k) = k * q + Lesser(k, r)
    BY <1>5
  <2>2. SumTo(s, k + 1) = SumTo(s, k) + s[k + 1]
    BY SumToSteps
  <2>3. s[k + 1] = q + (IF k + 1 <= r THEN 1 ELSE 0)
    BY <1>3
  <2>4. (k + 1) * q = k * q + q /\ k * q \in Nat
    BY <1>1
  <2> HIDE DEF N
  <2>5. \A x \in Nat : x + Lesser(k, r) + (q + (IF k + 1 <= r THEN 1 ELSE 0))
                         = x + q + Lesser(k + 1, r)
    BY <1>1 DEF Lesser
  <2> QED
    BY <2>1, <2>2, <2>3, <2>4, <2>5
<1>6. \A k \in Nat : k \in N
  <2> HIDE DEF N
  <2> QED
    BY <1>4, <1>5, EveryNumber
<1>7. SumTo(s, files) = files * q + r
  BY <1>1, <1>6 DEF Lesser
<1> QED
  BY <1>1, <1>2, <1>7 DEF Total, s

-----------------------------------------------------------------------------
(* Blocks and chunks *)

LEMMA LessIsLess == \A i, q, n \in Nat : i < q => i * n + n <= q * n
  OBVIOUS

\* So many pieces of n make up m.
LEMMA PiecesCover ==
  ASSUME NEW m \in Nat, NEW n \in Nat \ {0}
  PROVE  /\ CeilDiv(m, n) \in Nat
         /\ \A i \in Nat : i < CeilDiv(m, n) <=> i * n < m
<1> DEFINE q == CeilDiv(m, n)
<1>1. /\ q \in Nat /\ q * n \in Nat
      /\ q * n <= m + n - 1 /\ m + n - 1 < q * n + n
  BY DEF CeilDiv
<1> HIDE DEF q
<1>2. ASSUME NEW i \in Nat PROVE i < q <=> i * n < m
  <2>1. i * n \in Nat
    OBVIOUS
  <2>2. CASE i < q
    <3>1. i * n + n <= q * n
      BY <1>1, <2>2, LessIsLess
    <3> QED
      BY <1>1, <2>1, <2>2, <3>1
  <2>3. CASE q <= i
    <3>1. q * n <= i * n
      <4>1. q = i \/ q < i
        BY <1>1, <2>3
      <4>2. q < i => q * n + n <= i * n
        BY <1>1, LessIsLess
      <4> QED
        BY <1>1, <2>1, <4>1, <4>2
    <3> QED
      BY <1>1, <2>1, <2>3, <3>1
  <2> QED
    BY <1>1, <2>2, <2>3
<1> QED
  BY <1>1, <1>2 DEF q

LEMMA PiecesAre ==
  ASSUME NEW m \in Nat, NEW n \in Nat \ {0}, NEW k \in Nat,
         k * n < m, m <= k * n + n
  PROVE  CeilDiv(m, n) = k + 1
<1>1. CeilDiv(m, n) \in Nat /\ k < CeilDiv(m, n)
  BY PiecesCover
<1>2. ~(k + 1 < CeilDiv(m, n))
  <2>1. (k + 1) * n = k * n + n /\ k * n \in Nat
    OBVIOUS
  <2>2. ~((k + 1) * n < m)
    BY <2>1
  <2> QED
    BY <2>2, PiecesCover
<1> QED
  BY <1>1, <1>2

\* A cell is in one block only, at one place.
LEMMA PlaceIsUnique ==
  ASSUME NEW n \in Nat, NEW i \in Nat, NEW j \in Nat,
         NEW k \in 1..n, NEW l \in 1..n, i * n + k = j * n + l
  PROVE  i = j /\ k = l
<1>1. i * n \in Nat /\ j * n \in Nat
  OBVIOUS
<1>2. ~(i < j)
  <2>1. i < j => i * n + n <= j * n
    BY LessIsLess
  <2> QED
    BY <1>1, <2>1
<1>3. ~(j < i)
  <2>1. j < i => j * n + n <= i * n
    BY LessIsLess
  <2> QED
    BY <1>1, <2>1
<1>4. i = j
  BY <1>2, <1>3
<1> QED
  BY <1>1, <1>4

\* A chunk is a part of a block, whatever memory there is.
LEMMA ChunkIsInBlock ==
  ASSUME NEW block \in Nat \ {0}, NEW sources \in Nat, NEW slices \in Nat,
         NEW memory \in Nat
  PROVE  ChunkSize(block, sources, slices, memory) \in 1..block
<1> DEFINE buffers == slices + 2 + Lesser(sources + 1, Overhead)
           limit == Lesser(block, MaxChunk)
           part == (memory \div buffers) \div 4
<1>1. buffers \in Nat \ {0} /\ limit \in 1..block
  BY PlanAssumption DEF Lesser
<1>2. part \in Nat
  <2> HIDE DEF buffers
  <2>1. memory \div buffers \in Nat
    BY <1>1
  <2> QED
    BY <2>1
<1>3. Lesser(limit, Greater(1, part)) \in 1..block
  <2> HIDE DEF buffers, limit, part
  <2> QED
    BY <1>1, <1>2 DEF Lesser, Greater
<1> QED
  BY <1>1, <1>3 DEF ChunkSize

\* Blocks are counted.
LEMMA BlocksAreCounted ==
  ASSUME NEW sizes \in Seq(Nat), NEW block \in Nat \ {0}
  PROVE  BlocksOf(sizes, block) \in Nat
<1> DEFINE counts == [k \in DOMAIN sizes |-> CeilDiv(sizes[k], block)]
<1>1. counts \in Seq(Nat)
  <2>1. ASSUME NEW k \in 1..Len(sizes) PROVE CeilDiv(sizes[k], block) \in Nat
    <3>1. sizes[k] \in Nat
      OBVIOUS
    <3> QED
      BY <3>1, PiecesCover
  <2>2. counts = [k \in 1..Len(sizes) |-> CeilDiv(sizes[k], block)]
    OBVIOUS
  <2> HIDE DEF counts
  <2> QED
    BY <2>1, <2>2
<1>2. Total(counts) \in Nat
  BY <1>1, SumToRises DEF Total
<1> QED
  BY <1>2 DEF BlocksOf

\* A set of natural numbers that is not empty has a least one.
LEMMA LeastExists ==
  ASSUME NEW S \in SUBSET Nat, NEW some \in S
  PROVE  \E n \in S : \A m \in S : n <= m
<1> SUFFICES ASSUME \A n \in S : \E m \in S : ~(n <= m) PROVE FALSE
  OBVIOUS
<1> DEFINE L == {n \in Nat : \A m \in S : n <= m}
<1>1. 0 \in L
  OBVIOUS
<1>2. ASSUME NEW n \in Nat, n \in L PROVE n + 1 \in L
  <2>1. n \notin S
    BY <1>2
  <2> QED
    BY <1>2, <2>1
<1>3. \A n \in Nat : n \in L
  <2> HIDE DEF L
  <2> QED
    BY <1>1, <1>2, EveryNumber
<1> QED
  BY <1>3, some + 1 \in L

\* The smallest and the largest of a set, where there are such.
LEMMA MinIs ==
  ASSUME NEW S \in SUBSET Nat, NEW some \in S
  PROVE  Min(S) \in S /\ \A m \in S : Min(S) <= m
BY LeastExists DEF Min

-----------------------------------------------------------------------------
(* Powers of two *)

\* Powers of two are counts of subsets.
LEMMA PowerIsCount ==
  \A n \in Nat : IsFiniteSet(SUBSET (1..n)) /\ Cardinality(SUBSET (1..n)) = 2 ^ n
<1> TAKE n \in Nat
<1>1. IsFiniteSet(1..n) /\ Cardinality(1..n) = n
  BY FS_Interval
<1>2. IsFiniteSet(SUBSET (1..n)) /\ Cardinality(SUBSET (1..n)) = 2 ^ Cardinality(1..n)
  BY <1>1, FS_SUBSET
<1> QED
  BY <1>1, <1>2

\* Powers of two are what they are said to be.
LEMMA PowersDouble ==
  /\ 2 ^ 0 = 1
  /\ \A n \in Nat : 2 ^ n \in Nat \ {0} /\ 2 ^ (n + 1) = 2 * 2 ^ n
<1>1. 2 ^ 0 = 1
  <2>1. SUBSET (1..0) = {{}}
    OBVIOUS
  <2>2. Cardinality({{}}) = 1
    BY FS_Singleton
  <2> QED
    BY <2>1, <2>2, PowerIsCount
<1>2. ASSUME NEW n \in Nat
      PROVE  2 ^ n \in Nat /\ 2 ^ (n + 1) = 2 * 2 ^ n
  <2> DEFINE A == SUBSET (1..n)
             B == {T \cup {n + 1} : T \in A}
             up == [T \in A |-> T \cup {n + 1}]
  <2>1. IsFiniteSet(A) /\ Cardinality(A) = 2 ^ n /\ Cardinality(A) \in Nat
    BY PowerIsCount, FS_CardinalityType
  <2>2. IsFiniteSet(B) /\ Cardinality(B) = Cardinality(A)
    <3>1. up \in Bijection(A, B)
      <4>1. up \in Surjection(A, B)
        BY DEF Surjection
      <4>2. \A S, T \in A : up[S] = up[T] => S = T
        <5> SUFFICES ASSUME NEW S \in A, NEW T \in A, up[S] = up[T] PROVE S = T
          OBVIOUS
        <5>1. S \cup {n + 1} = T \cup {n + 1} /\ n + 1 \notin S /\ n + 1 \notin T
          OBVIOUS
        <5> QED
          BY <5>1
      <4> QED
        BY <4>1, <4>2 DEF Bijection, Injection, IsInjective, Surjection
    <3>2. ExistsBijection(A, B)
      BY <3>1 DEF ExistsBijection
    <3> HIDE DEF A, B
    <3> QED
      BY <2>1, <3>2, FS_Bijection
  <2>3. A \cap B = {} /\ A \cup B = SUBSET (1..(n + 1))
    <3>1. A \cap B = {}
      OBVIOUS
    <3>2. A \cup B \subseteq SUBSET (1..(n + 1))
      <4>1. 1..n \subseteq 1..(n + 1) /\ n + 1 \in 1..(n + 1)
        OBVIOUS
      <4> QED
        BY <4>1
    <3>3. ASSUME NEW T \in SUBSET (1..(n + 1)), T \notin A PROVE T \in B
      <4>1. n + 1 \in T
        BY <3>3
      <4>2. T \ {n + 1} \in A
        OBVIOUS
      <4>3. T = (T \ {n + 1}) \cup {n + 1}
        BY <4>1
      <4> QED
        BY <4>2, <4>3
    <3> HIDE DEF A, B
    <3> QED
      BY <3>1, <3>2, <3>3
  <2>4. Cardinality(A \cup B) = Cardinality(A) + Cardinality(B)
    <3>1. Cardinality(A \cap B) = 0
      BY <2>3, FS_EmptySet
    <3> HIDE DEF A, B, up
    <3>2. Cardinality(A \cup B)
            = Cardinality(A) + Cardinality(B) - Cardinality(A \cap B)
      BY <2>1, <2>2, FS_Union
    <3> QED
      BY <2>1, <2>2, <3>1, <3>2
  <2>5. Cardinality(A \cup B) = 2 ^ (n + 1)
    <3>1. n + 1 \in Nat
      OBVIOUS
    <3> HIDE DEF A, B
    <3> QED
      BY <2>3, <3>1, PowerIsCount
  <2> QED
    BY <2>1, <2>2, <2>4, <2>5
<1> DEFINE P == {n \in Nat : 2 ^ n # 0}
<1>3. \A n \in Nat : n \in P
  <2>1. 0 \in P
    BY <1>1
  <2>2. ASSUME NEW n \in Nat, n \in P PROVE n + 1 \in P
    BY <1>2, <2>2
  <2> HIDE DEF P
  <2> QED
    BY <2>1, <2>2, EveryNumber
<1> QED
  BY <1>1, <1>2, <1>3

\* A power of two is more than its exponent.
LEMMA PowersGrow == \A n \in Nat : n < 2 ^ n
<1> DEFINE S == {n \in Nat : n < 2 ^ n}
<1>1. 0 \in S
  BY PowersDouble
<1>2. ASSUME NEW n \in Nat, n \in S PROVE n + 1 \in S
  BY <1>2, PowersDouble
<1> HIDE DEF S
<1>3. \A n \in Nat : n \in S
  BY <1>1, <1>2, EveryNumber
<1> QED
  BY <1>3 DEF S

-----------------------------------------------------------------------------
(* Recursive functions *)

\* Values that follow from one another, each from its number and the one before.
AreValues(f, V, a, n, G) ==
  /\ f = [k \in 0..n |-> f[k]]
  /\ \A k \in 0..n : f[k] \in V
  /\ f[0] = a
  /\ \A k \in 1..n : f[k] = G[<<k, f[k - 1]>>]

LEMMA ValuesExist ==
  ASSUME NEW V, NEW a, NEW n, NEW G, a \in V, n \in Nat,
         \A k \in 1..n : \A x \in V : G[<<k, x>>] \in V
  PROVE  \E f : AreValues(f, V, a, n, G)
<1> DEFINE S == {m \in Nat : m <= n => \E f : AreValues(f, V, a, m, G)}
<1>1. 0 \in S
  <2> DEFINE g == [k \in 0..0 |-> a]
  <2>1. g = [k \in 0..0 |-> g[k]] /\ g[0] = a /\ 1..0 = {} /\ 0..0 = {0}
    OBVIOUS
  <2> HIDE DEF g
  <2>2. AreValues(g, V, a, 0, G)
    BY <2>1 DEF AreValues
  <2> QED
    BY <2>2
<1>2. ASSUME NEW m \in Nat, m \in S PROVE m + 1 \in S
  <2> SUFFICES ASSUME m + 1 <= n PROVE \E f : AreValues(f, V, a, m + 1, G)
    OBVIOUS
  <2>1. PICK f : AreValues(f, V, a, m, G)
    BY <1>2
  <2> DEFINE next == G[<<m + 1, f[m]>>]
             g == [k \in 0..(m + 1) |-> IF k = m + 1 THEN next ELSE f[k]]
  <2>2. next \in V
    <3>1. m + 1 \in 1..n /\ f[m] \in V
      BY <2>1 DEF AreValues
    <3> QED
      BY <3>1
  <2>3. g = [k \in 0..(m + 1) |-> g[k]] /\ \A k \in 0..(m + 1) : g[k] \in V
    <3> HIDE DEF next
    <3>1. \A k \in 0..(m + 1) : k # m + 1 => k \in 0..m
      OBVIOUS
    <3> QED
      BY <2>1, <2>2, <3>1 DEF AreValues
  <2>4. g[0] = a
    BY <2>1 DEF AreValues
  <2>5. ASSUME NEW k \in 1..(m + 1) PROVE g[k] = G[<<k, g[k - 1]>>]
    <3>1. CASE k = m + 1
      <4>1. g[k] = next /\ g[k - 1] = f[m]
        BY <3>1
      <4> QED
        BY <3>1, <4>1
    <3>2. CASE k # m + 1
      <4>1. k \in 1..m /\ k - 1 \in 0..m
        BY <3>2
      <4>2. g[k] = f[k] /\ g[k - 1] = f[k - 1]
        BY <4>1
      <4> HIDE DEF g
      <4> QED
        BY <2>1, <4>1, <4>2 DEF AreValues
    <3> QED
      BY <3>1, <3>2
  <2> HIDE DEF g
  <2>6. AreValues(g, V, a, m + 1, G)
    BY <2>3, <2>4, <2>5 DEF AreValues
  <2> QED
    BY <2>6
<1>3. \A m \in Nat : m \in S
  <2> HIDE DEF S
  <2> QED
    BY <1>1, <1>2, EveryNumber
<1> QED
  BY <1>3

\* The sizes that are left of those of all sources.
AreKept(kept, sizes) ==
  kept = [k \in 0..Len(sizes) |->
            IF k = 0 THEN <<>>
            ELSE IF sizes[k] > 0 THEN Append(kept[k - 1], sizes[k])
            ELSE kept[k - 1]]

LEMMA DataIsThere ==
  ASSUME NEW sizes \in Seq(Nat) PROVE WithData(sizes) \in Seq(Nat \ {0})
<1> DEFINE n == Len(sizes)
           V == Seq(Nat \ {0})
           G == [p \in (1..n) \X V |->
                   IF sizes[p[1]] > 0 THEN Append(p[2], sizes[p[1]]) ELSE p[2]]
           kept == CHOOSE f : AreKept(f, sizes)
<1>1. n \in Nat
  OBVIOUS
<1>2. \A k \in 1..n : \A x \in V :
        /\ G[<<k, x>>] = IF sizes[k] > 0 THEN Append(x, sizes[k]) ELSE x
        /\ G[<<k, x>>] \in V
  <2> SUFFICES ASSUME NEW k \in 1..n, NEW x \in V
               PROVE  /\ G[<<k, x>>] = IF sizes[k] > 0 THEN Append(x, sizes[k]) ELSE x
                      /\ G[<<k, x>>] \in V
    OBVIOUS
  <2>1. G[<<k, x>>] = IF sizes[k] > 0 THEN Append(x, sizes[k]) ELSE x
    OBVIOUS
  <2>2. sizes[k] \in Nat
    OBVIOUS
  <2> HIDE DEF G
  <2> QED
    BY <2>1, <2>2
<1> HIDE DEF kept, G
<1>3. PICK f : AreValues(f, V, <<>>, n, G)
  <2>1. <<>> \in V
    OBVIOUS
  <2>2. \A k \in 1..n : \A x \in V : G[<<k, x>>] \in V
    <3> HIDE DEF V, n
    <3> QED
      BY <1>2
  <2> HIDE DEF V, n
  <2> QED
    BY <1>1, <2>1, <2>2, ValuesExist
<1>4. AreKept(f, sizes)
  <2>1. ASSUME NEW k \in 1..n
        PROVE  f[k] = IF sizes[k] > 0 THEN Append(f[k - 1], sizes[k])
                      ELSE f[k - 1]
    <3>1. k - 1 \in 0..n
      OBVIOUS
    <3> HIDE DEF V, n
    <3> QED
      BY <1>2, <1>3, <3>1 DEF AreValues
  <2>2. \A k \in 0..n : k # 0 => k \in 1..n
    OBVIOUS
  <2>3. \A k \in 0..n : f[k] = IF k = 0 THEN <<>>
                              ELSE IF sizes[k] > 0 THEN Append(f[k - 1], sizes[k])
                              ELSE f[k - 1]
    <3> HIDE DEF n, V
    <3> QED
      BY <1>3, <2>1, <2>2 DEF AreValues
  <2> QED
    BY <1>3, <2>3 DEF AreKept, AreValues
<1>5. AreKept(kept, sizes)
  BY <1>4 DEF kept
<1>6. WithData(sizes) = kept[n]
  BY DEF WithData, AreKept, kept
<1>7. \A k \in 0..n : kept[k] = IF k = 0 THEN <<>>
                               ELSE IF sizes[k] > 0 THEN Append(kept[k - 1], sizes[k])
                               ELSE kept[k - 1]
  BY <1>5 DEF AreKept
<1> DEFINE S == {k \in Nat : k <= n => kept[k] \in V}
<1>8. 0 \in S
  <2>1. 0 \in 0..n /\ <<>> \in V
    BY <1>1
  <2> HIDE DEF n, V
  <2> QED
    BY <1>7, <2>1
<1>9. ASSUME NEW k \in Nat, k \in S PROVE k + 1 \in S
  <2> SUFFICES ASSUME k + 1 <= n PROVE kept[k + 1] \in V
    OBVIOUS
  <2>1. kept[k] \in V /\ k + 1 \in 1..n /\ sizes[k + 1] \in Nat
    BY <1>9
  <2>2. kept[k + 1] = IF sizes[k + 1] > 0 THEN Append(kept[k], sizes[k + 1])
                      ELSE kept[k]
    <3>1. k + 1 \in 0..n /\ k + 1 # 0 /\ k + 1 - 1 = k
      BY <2>1
    <3> HIDE DEF S, V, n
    <3> QED
      BY <1>7, <3>1
  <2> HIDE DEF S
  <2> QED
    BY <2>1, <2>2
<1>10. \A k \in Nat : k \in S
  <2> HIDE DEF S
  <2> QED
    BY <1>8, <1>9, EveryNumber
<1> QED
  BY <1>1, <1>6, <1>10

\* The number of digits, half by half.
AreDigits(digits, count) ==
  digits = [n \in 0..count |-> IF n = 0 THEN 0 ELSE 1 + digits[n \div 2]]

LEMMA DigitsExist == \A count \in Nat : \E digits : AreDigits(digits, count)
<1> DEFINE S == {k \in Nat : \E digits : AreDigits(digits, k)}
<1>1. 0 \in S
  <2>1. AreDigits([n \in 0..0 |-> 0], 0)
    BY DEF AreDigits
  <2> QED
    BY <2>1
<1>2. ASSUME NEW k \in Nat, k \in S PROVE k + 1 \in S
  <2>1. PICK f : AreDigits(f, k)
    BY <1>2
  <2> DEFINE g == [n \in 0..(k + 1) |->
                     IF n = k + 1 THEN 1 + f[(k + 1) \div 2] ELSE f[n]]
  <2>2. ASSUME NEW n \in 0..(k + 1)
        PROVE  g[n] = IF n = 0 THEN 0 ELSE 1 + g[n \div 2]
    <3>1. n # 0 => n \div 2 \in 0..k /\ n \div 2 # k + 1 /\ n \div 2 \in 0..(k + 1)
      OBVIOUS
    <3>2. n # 0 => g[n \div 2] = f[n \div 2]
      BY <3>1
    <3>3. n # k + 1 => n \in 0..k
      OBVIOUS
    <3>4. \A m \in 0..k : f[m] = IF m = 0 THEN 0 ELSE 1 + f[m \div 2]
      BY <2>1 DEF AreDigits
    <3>5. n # k + 1 => g[n] = f[n]
      OBVIOUS
    <3>6. n = k + 1 => g[n] = 1 + f[n \div 2] /\ n # 0
      OBVIOUS
    <3> HIDE DEF g
    <3> QED
      BY <3>1, <3>2, <3>3, <3>4, <3>5, <3>6
  <2>3. AreDigits(g, k + 1)
    <3>1. g = [n \in 0..(k + 1) |-> g[n]]
      OBVIOUS
    <3> HIDE DEF g
    <3> QED
      BY <2>2, <3>1 DEF AreDigits
  <2> QED
    BY <2>3
<1> HIDE DEF S
<1>3. \A k \in Nat : k \in S
  BY <1>1, <1>2, EveryNumber
<1> QED
  BY <1>3 DEF S

\* A number has digits, and more than one if it is more than one.
LEMMA DigitsAre ==
  ASSUME NEW count \in Nat
  PROVE  /\ Digits(count) \in Nat
         /\ count = 0 <=> Digits(count) = 0
         /\ count > 1 => Digits(count) > 1
<1> DEFINE f == CHOOSE digits : AreDigits(digits, count)
<1>1. AreDigits(f, count)
  BY DigitsExist
<1>2. Digits(count) = f[count]
  BY DEF Digits, AreDigits
<1> HIDE DEF f
<1>3. \A n \in 0..count : f[n] = IF n = 0 THEN 0 ELSE 1 + f[n \div 2]
  BY <1>1 DEF AreDigits
<1> DEFINE S == {k \in Nat : \A n \in 0..k : n <= count => f[n] \in Nat}
<1>4. 0 \in S
  BY <1>3
<1>5. ASSUME NEW k \in Nat, k \in S PROVE k + 1 \in S
  <2> SUFFICES ASSUME k + 1 <= count PROVE f[k + 1] \in Nat
    BY <1>5
  <2>1. (k + 1) \div 2 \in 0..k /\ (k + 1) \div 2 <= count
    OBVIOUS
  <2>2. f[(k + 1) \div 2] \in Nat
    BY <1>5, <2>1
  <2>3. f[k + 1] = 1 + f[(k + 1) \div 2]
    BY <1>3
  <2> QED
    BY <2>2, <2>3
<1>6. \A k \in Nat : k \in S
  <2> HIDE DEF S
  <2> QED
    BY <1>4, <1>5, EveryNumber
<1>7. \A n \in 0..count : f[n] \in Nat
  BY <1>6
<1>8. \A n \in 0..count : n # 0 => n \div 2 \in 0..count
  OBVIOUS
<1>9. \A n \in 0..count : n # 0 => f[n] = 1 + f[n \div 2] /\ f[n \div 2] \in Nat
  BY <1>3, <1>7, <1>8
<1>10. \A n \in 0..count : n # 0 => f[n] >= 1
  BY <1>9
<1>11. count > 1 => count \div 2 # 0 /\ count \div 2 \in 0..count
  OBVIOUS
<1>12. count \in 0..count
  OBVIOUS
<1>13. count > 1 => f[count] > 1
  BY <1>7, <1>9, <1>10, <1>11, <1>12
<1> QED
  BY <1>2, <1>3, <1>7, <1>10, <1>12, <1>13

-----------------------------------------------------------------------------
(* More about sums *)

\* A number of a sequence is no more than the sum of all.
LEMMA TotalIsMore ==
  ASSUME NEW s \in Seq(Nat), NEW k \in 1..Len(s)
  PROVE  Total(s) \in Nat /\ s[k] <= Total(s)
<1>1. /\ SumTo(s, k) \in Nat /\ SumTo(s, k - 1) \in Nat /\ s[k] \in Nat
      /\ Total(s) \in Nat /\ SumTo(s, k) <= Total(s)
  BY SumToRises DEF Total
<1>2. SumTo(s, k) = SumTo(s, k - 1) + s[k]
  <2>1. k - 1 \in Nat /\ k - 1 + 1 = k
    OBVIOUS
  <2> QED
    BY <2>1, SumToSteps
<1> QED
  BY <1>1, <1>2

\* What holds of the numbers holds of their sums.
LEMMA SumsCompare ==
  ASSUME NEW s \in Seq(Nat), NEW t \in Seq(Nat), Len(s) = Len(t),
         NEW a \in Nat, NEW b \in Nat, NEW c \in Nat,
         \A k \in 1..Len(s) : a * s[k] <= b * t[k] + c
  PROVE  a * Total(s) <= b * Total(t) + c * Len(s)
<1> DEFINE P(k) == a * SumTo(s, k) <= b * SumTo(t, k) + c * k
           S == {k \in Nat : k <= Len(s) => P(k)}
<1>1. 0 \in S
  BY SumToSteps
<1>2. ASSUME NEW k \in Nat, k \in S PROVE k + 1 \in S
  <2> SUFFICES ASSUME k + 1 <= Len(s) PROVE P(k + 1)
    OBVIOUS
  <2>3. P(k)
    BY <1>2
  <2> HIDE DEF S, P
  <2> DEFINE x == SumTo(s, k)
             y == SumTo(t, k)
             d == s[k + 1]
             e == t[k + 1]
  <2>1. x \in Nat /\ y \in Nat /\ d \in Nat /\ e \in Nat
    <3>1. k \in 0..Len(s) /\ k \in 0..Len(t) /\ k + 1 \in 1..Len(s)
          /\ k + 1 \in 1..Len(t)
      OBVIOUS
    <3>2. d \in Nat /\ e \in Nat
      BY <3>1
    <3> QED
      BY <3>1, <3>2, SumToRises
  <2>2. SumTo(s, k + 1) = x + d /\ SumTo(t, k + 1) = y + e
    BY SumToSteps
  <2>4. a * d <= b * e + c
    OBVIOUS
  <2>5. a * x <= b * y + c * k
    BY <2>3 DEF P
  <2> HIDE DEF x, y, d, e
  <2>6. a * (x + d) = a * x + a * d /\ b * (y + e) = b * y + b * e
    BY <2>1
  <2>7. c * (k + 1) = c * k + c
    OBVIOUS
  <2>8. /\ a * x \in Nat /\ a * d \in Nat /\ b * y \in Nat /\ b * e \in Nat
        /\ c * k \in Nat
    BY <2>1
  <2>9. a * (x + d) <= b * (y + e) + c * (k + 1)
    BY <2>4, <2>5, <2>6, <2>7, <2>8
  <2> QED
    BY <2>2, <2>9 DEF P
<1>3. \A k \in Nat : k \in S
  <2> HIDE DEF S
  <2> QED
    BY <1>1, <1>2, EveryNumber
<1> QED
  BY <1>3 DEF Total

\* Numbers of which none is zero and one is more than one have a sum that is
\* more than their number.
LEMMA SumIsMore ==
  ASSUME NEW s \in Seq(Nat), \A k \in 1..Len(s) : s[k] >= 1,
         NEW i \in 1..Len(s), s[i] > 1
  PROVE  Total(s) > Len(s)
<1> DEFINE S == {k \in Nat : k <= Len(s) =>
                   SumTo(s, k) >= IF k >= i THEN k + 1 ELSE k}
<1>1. 0 \in S
  BY SumToSteps
<1>2. ASSUME NEW k \in Nat, k \in S PROVE k + 1 \in S
  <2> SUFFICES ASSUME k + 1 <= Len(s)
               PROVE  SumTo(s, k + 1) >= IF k + 1 >= i THEN k + 2 ELSE k + 1
    OBVIOUS
  <2>1. /\ SumTo(s, k) \in Nat /\ s[k + 1] \in Nat /\ s[k + 1] >= 1
        /\ SumTo(s, k) >= IF k >= i THEN k + 1 ELSE k
    BY <1>2, SumToRises
  <2>2. SumTo(s, k + 1) = SumTo(s, k) + s[k + 1]
    BY SumToSteps
  <2> QED
    BY <2>1, <2>2
<1>3. \A k \in Nat : k \in S
  <2> HIDE DEF S
  <2> QED
    BY <1>1, <1>2, EveryNumber
<1>4. SumTo(s, Len(s)) >= Len(s) + 1 /\ SumTo(s, Len(s)) \in Nat
  BY <1>3, SumToRises
<1> QED
  BY <1>4 DEF Total

\* Sums of the first numbers depend on these alone.
LEMMA SameSums ==
  ASSUME NEW s, NEW t, NEW n \in Nat, \A k \in 1..n : s[k] = t[k]
  PROVE  \A k \in 0..n : SumTo(s, k) = SumTo(t, k)
<1> DEFINE S == {k \in Nat : k <= n => SumTo(s, k) = SumTo(t, k)}
<1>1. 0 \in S
  BY SumToSteps
<1>2. ASSUME NEW k \in Nat, k \in S PROVE k + 1 \in S
  <2> SUFFICES ASSUME k + 1 <= n PROVE SumTo(s, k + 1) = SumTo(t, k + 1)
    OBVIOUS
  <2>1. SumTo(s, k) = SumTo(t, k) /\ s[k + 1] = t[k + 1]
    BY <1>2
  <2> HIDE DEF S
  <2> QED
    BY <2>1, SumToSteps
<1>3. \A k \in Nat : k \in S
  <2> HIDE DEF S
  <2> QED
    BY <1>1, <1>2, EveryNumber
<1> QED
  BY <1>3

\* The sums of two sequences one behind the other.
LEMMA SumsOfBoth ==
  ASSUME NEW s \in Seq(Nat), NEW t \in Seq(Nat)
  PROVE  /\ \A k \in 0..Len(s) : SumTo(s \o t, k) = SumTo(s, k)
         /\ \A k \in 0..Len(t) :
              SumTo(s \o t, Len(s) + k) = Total(s) + SumTo(t, k)
<1>1. /\ \A k \in 1..Len(s) : (s \o t)[k] = s[k]
      /\ \A k \in 1..Len(t) : (s \o t)[Len(s) + k] = t[k]
      /\ Len(s) \in Nat /\ Len(t) \in Nat
  OBVIOUS
<1> DEFINE u == s \o t
<1> HIDE DEF u
<1>2. \A k \in 0..Len(s) : SumTo(u, k) = SumTo(s, k)
  BY <1>1, SameSums DEF u
<1> DEFINE S == {k \in Nat : k <= Len(t) =>
                   SumTo(u, Len(s) + k) = Total(s) + SumTo(t, k)}
<1>3. 0 \in S
  <2>1. SumTo(u, Len(s)) = Total(s) /\ Total(s) \in Nat
    BY <1>2, SumToRises DEF Total
  <2>2. SumTo(t, 0) = 0 /\ Len(s) + 0 = Len(s)
    BY SumToSteps
  <2> QED
    BY <2>1, <2>2
<1>4. ASSUME NEW k \in Nat, k \in S PROVE k + 1 \in S
  <2> SUFFICES ASSUME k + 1 <= Len(t)
               PROVE  SumTo(u, Len(s) + (k + 1)) = Total(s) + SumTo(t, k + 1)
    OBVIOUS
  <2>1. SumTo(u, Len(s) + k) = Total(s) + SumTo(t, k)
    BY <1>4
  <2>2. u[Len(s) + (k + 1)] = t[k + 1] /\ t[k + 1] \in Nat
    BY <1>1 DEF u
  <2>3. /\ SumTo(u, Len(s) + k + 1) = SumTo(u, Len(s) + k) + u[Len(s) + k + 1]
        /\ SumTo(t, k + 1) = SumTo(t, k) + t[k + 1]
    <3>1. Len(s) + k \in Nat
      BY <1>1
    <3> QED
      BY <3>1, SumToSteps
  <2>4. Len(s) + (k + 1) = Len(s) + k + 1
    BY <1>1
  <2>5. Total(s) \in Nat /\ SumTo(t, k) \in Nat
    BY SumToRises DEF Total
  <2> QED
    BY <2>1, <2>2, <2>3, <2>4, <2>5
<1>5. \A k \in Nat : k \in S
  <2> HIDE DEF S
  <2> QED
    BY <1>3, <1>4, EveryNumber
<1> QED
  BY <1>2, <1>5 DEF u

\* Volumes of two sequences of counts, one behind the other.
LEMMA PlacedBoth ==
  ASSUME NEW s \in Seq(Nat), NEW t \in Seq(Nat), NEW first \in Nat
  PROVE  Placed(first, s) \o Placed(first + Total(s), t) = Placed(first, s \o t)
<1> DEFINE u == s \o t
           A == Placed(first, s)
           B == Placed(first + Total(s), t)
           C == Placed(first, u)
<1>1. /\ u \in Seq(Nat) /\ Len(u) = Len(s) + Len(t)
      /\ Len(s) \in Nat /\ Len(t) \in Nat
      /\ \A k \in 1..Len(s) : u[k] = s[k]
      /\ \A k \in 1..Len(t) : u[Len(s) + k] = t[k]
      /\ Total(s) \in Nat
  BY SumToRises DEF Total
<1>2. /\ \A k \in 0..Len(s) : SumTo(u, k) = SumTo(s, k)
      /\ \A k \in 0..Len(t) : SumTo(u, Len(s) + k) = Total(s) + SumTo(t, k)
  BY SumsOfBoth
<1> HIDE DEF u
<1>3. /\ A = [k \in 1..Len(s) |-> [exponent |-> first + SumTo(s, k - 1), count |-> s[k]]]
      /\ B = [k \in 1..Len(t) |-> [exponent |-> first + Total(s) + SumTo(t, k - 1),
                                   count |-> t[k]]]
      /\ C = [k \in 1..(Len(s) + Len(t)) |->
                [exponent |-> first + SumTo(u, k - 1), count |-> u[k]]]
  BY <1>1 DEF Placed
<1> DEFINE V == [exponent : Int, count : Nat]
<1>4. A \in Seq(V) /\ B \in Seq(V) /\ Len(A) = Len(s) /\ Len(B) = Len(t)
  <2>1. ASSUME NEW k \in 1..Len(s)
        PROVE  [exponent |-> first + SumTo(s, k - 1), count |-> s[k]] \in V
    <3>1. SumTo(s, k - 1) \in Nat /\ s[k] \in Nat
      BY SumToRises
    <3> QED
      BY <3>1
  <2>2. ASSUME NEW k \in 1..Len(t)
        PROVE  [exponent |-> first + Total(s) + SumTo(t, k - 1), count |-> t[k]] \in V
    <3>1. SumTo(t, k - 1) \in Nat /\ t[k] \in Nat
      BY SumToRises
    <3> QED
      BY <1>1, <3>1
  <2> HIDE DEF V, A, B
  <2> QED
    BY <1>1, <1>3, <2>1, <2>2
<1> HIDE DEF A, B, C
<1>5. ASSUME NEW k \in 1..(Len(s) + Len(t)) PROVE (A \o B)[k] = C[k]
  <2>1. CASE k \in 1..Len(s)
    <3>1. (A \o B)[k] = A[k]
      BY <1>4, <2>1
    <3>2. SumTo(u, k - 1) = SumTo(s, k - 1) /\ u[k] = s[k]
      <4>1. k - 1 \in 0..Len(s)
        BY <2>1
      <4> QED
        BY <1>1, <1>2, <2>1, <4>1
    <3> QED
      BY <1>3, <2>1, <3>1, <3>2
  <2>2. CASE k \notin 1..Len(s)
    <3> DEFINE j == k - Len(s)
    <3>1. j \in 1..Len(t) /\ k = Len(s) + j /\ j - 1 \in 0..Len(t)
          /\ Len(s) + (j - 1) = k - 1
      BY <1>1, <2>2
    <3>2. (A \o B)[k] = B[j]
      <4> HIDE DEF j, V
      <4> QED
        BY <1>4, <3>1, ConcatProperties
    <3>3. SumTo(u, k - 1) = Total(s) + SumTo(t, j - 1) /\ u[k] = t[j]
      BY <1>1, <1>2, <3>1
    <3>4. SumTo(t, j - 1) \in Nat
      BY <3>1, SumToRises
    <3>5. first + (Total(s) + SumTo(t, j - 1)) = first + Total(s) + SumTo(t, j - 1)
      BY <1>1, <3>4
    <3> HIDE DEF j
    <3> QED
      BY <1>3, <3>1, <3>2, <3>3, <3>5
  <2> QED
    BY <2>1, <2>2
<1>6. A \o B \in Seq(V) /\ Len(A \o B) = Len(s) + Len(t)
  <2> DEFINE W == V
  <2>1. A \in Seq(W) /\ B \in Seq(W)
    BY <1>4
  <2> HIDE DEF V, W
  <2>2. A \o B \in Seq(W) /\ Len(A \o B) = Len(A) + Len(B)
    BY <2>1, ConcatProperties
  <2> QED
    BY <1>4, <2>2 DEF W
<1>7. A \o B = [k \in 1..(Len(s) + Len(t)) |-> (A \o B)[k]]
  <2> DEFINE w == A \o B
  <2>1. w \in Seq(V) /\ Len(w) = Len(s) + Len(t)
    BY <1>6
  <2> HIDE DEF V, w
  <2>2. w \in [1..(Len(s) + Len(t)) -> V]
    BY <2>1, LenProperties
  <2>3. w = [k \in 1..(Len(s) + Len(t)) |-> w[k]]
    BY <2>2
  <2> QED
    BY <2>3 DEF w
<1>8. A \o B = C
  BY <1>3, <1>5, <1>7
<1> QED
  BY <1>8 DEF A, B, C, u

-----------------------------------------------------------------------------
(* Block size *)

\* The largest source.
LEMMA LargestIs ==
  ASSUME NEW sizes \in Seq(Nat)
  PROVE  /\ Largest(sizes) \in Nat
         /\ \A k \in 1..Len(sizes) : sizes[k] <= Largest(sizes)
         /\ Largest(sizes) # 0 => \E k \in 1..Len(sizes) : sizes[k] = Largest(sizes)
<1> DEFINE S == {0} \cup {sizes[k] : k \in DOMAIN sizes}
           U == {n \in Nat : \A x \in S : x <= n}
<1>1. S \subseteq Nat /\ 0 \in S
  OBVIOUS
<1>2. Total(sizes) \in U
  <2>1. Total(sizes) \in Nat
    BY SumToRises DEF Total
  <2>2. \A k \in 1..Len(sizes) : sizes[k] <= Total(sizes)
    BY TotalIsMore
  <2> QED
    BY <2>1, <2>2
<1>3. PICK n \in U : \A m \in U : n <= m
  <2>1. U \in SUBSET Nat
    OBVIOUS
  <2> HIDE DEF U
  <2> QED
    BY <1>2, <2>1, LeastExists
<1>4. n \in Nat /\ \A x \in S : x <= n
  BY <1>3
<1>5. n \in S
  <2> SUFFICES ASSUME n \notin S PROVE FALSE
    OBVIOUS
  <2>1. n # 0 /\ n - 1 \in Nat
    BY <1>1, <1>4
  <2>2. \A x \in S : x <= n - 1
    <3> SUFFICES ASSUME NEW x \in S PROVE x <= n - 1
      OBVIOUS
    <3>1. x \in Nat /\ x <= n /\ x # n
      BY <1>1, <1>4
    <3> QED
      BY <1>4, <3>1
  <2>3. n - 1 \in U
    BY <2>1, <2>2
  <2> QED
    BY <1>3, <1>4, <2>3
<1>6. Max(S) \in S /\ \A x \in S : Max(S) >= x
  <2>1. \E x \in S : \A y \in S : x >= y
    BY <1>1, <1>4, <1>5
  <2> HIDE DEF S
  <2> QED
    BY <2>1 DEF Max
<1>7. Largest(sizes) = Max(S)
  BY DEF Largest
<1>8. \A k \in 1..Len(sizes) : sizes[k] \in S
  OBVIOUS
<1>9. \A x \in S : x # 0 => \E k \in 1..Len(sizes) : sizes[k] = x
  OBVIOUS
<1> HIDE DEF S
<1> QED
  BY <1>1, <1>6, <1>7, <1>8, <1>9

\* So many pieces of n are at least m, and one less would not be.
LEMMA PiecesBound ==
  ASSUME NEW m \in Nat, NEW n \in Nat \ {0}
  PROVE  /\ CeilDiv(m, n) \in Nat
         /\ m <= CeilDiv(m, n) * n /\ CeilDiv(m, n) * n <= m + (n - 1)
<1> DEFINE q == CeilDiv(m, n)
<1>1. q \in Nat /\ q * n <= m + n - 1 /\ m + n - 1 < q * n + n /\ q * n \in Nat
  BY DEF CeilDiv
<1> HIDE DEF q
<1> QED
  BY <1>1 DEF q

\* Blocks of each source.
Counts(sizes, n) == [k \in DOMAIN sizes |-> CeilDiv(sizes[k], n)]

LEMMA CountsAre ==
  ASSUME NEW sizes \in Seq(Nat), NEW n \in Nat \ {0}
  PROVE  /\ Counts(sizes, n) \in Seq(Nat) /\ Len(Counts(sizes, n)) = Len(sizes)
         /\ \A k \in 1..Len(sizes) :
              Counts(sizes, n)[k] = CeilDiv(sizes[k], n) /\ sizes[k] \in Nat
         /\ BlocksOf(sizes, n) = Total(Counts(sizes, n))
<1>1. ASSUME NEW k \in 1..Len(sizes)
      PROVE  CeilDiv(sizes[k], n) \in Nat /\ sizes[k] \in Nat
  <2>1. sizes[k] \in Nat
    OBVIOUS
  <2> QED
    BY <2>1, PiecesCover
<1>2. Counts(sizes, n) = [k \in 1..Len(sizes) |-> CeilDiv(sizes[k], n)]
  BY DEF Counts
<1> QED
  BY <1>1, <1>2 DEF BlocksOf, Counts

\* Blocks hold the sources, and each source leaves less than a block empty.
LEMMA BlocksBound ==
  ASSUME NEW sizes \in Seq(Nat), NEW n \in Nat \ {0}
  PROVE  /\ BlocksOf(sizes, n) \in Nat /\ Total(sizes) \in Nat
         /\ Total(sizes) <= n * BlocksOf(sizes, n)
         /\ n * BlocksOf(sizes, n) <= Total(sizes) + (n - 1) * Len(sizes)
<1> DEFINE c == Counts(sizes, n)
<1>1. /\ c \in Seq(Nat) /\ Len(c) = Len(sizes)
      /\ \A k \in 1..Len(sizes) : c[k] = CeilDiv(sizes[k], n) /\ sizes[k] \in Nat
      /\ BlocksOf(sizes, n) = Total(c)
  BY CountsAre
<1> HIDE DEF c
<1>2. Total(sizes) \in Nat /\ Total(c) \in Nat
  BY <1>1, SumToRises DEF Total
<1>3. ASSUME NEW k \in 1..Len(sizes)
      PROVE  /\ 1 * sizes[k] <= n * c[k] + 0
             /\ n * c[k] <= 1 * sizes[k] + (n - 1)
  <2>1. c[k] \in Nat /\ sizes[k] \in Nat /\ sizes[k] <= c[k] * n
        /\ c[k] * n <= sizes[k] + (n - 1)
    BY <1>1, PiecesBound
  <2>2. c[k] * n = n * c[k] /\ n * c[k] \in Nat
    BY <2>1
  <2> QED
    BY <2>1, <2>2
<1>4. 1 * Total(sizes) <= n * Total(c) + 0 * Len(sizes)
  BY <1>1, <1>3, SumsCompare
<1>5. n * Total(c) <= 1 * Total(sizes) + (n - 1) * Len(c)
  <2>1. n - 1 \in Nat
    OBVIOUS
  <2> QED
    BY <1>1, <1>3, <2>1, SumsCompare
<1>6. Len(sizes) \in Nat /\ n * Total(c) \in Nat
  BY <1>2
<1> QED
  BY <1>1, <1>2, <1>4, <1>5, <1>6

\* Larger blocks are no more.
LEMMA BlocksFall ==
  ASSUME NEW sizes \in Seq(Nat), NEW m \in Nat \ {0}, NEW n \in Nat \ {0}, m <= n
  PROVE  BlocksOf(sizes, n) <= BlocksOf(sizes, m)
<1> DEFINE c == Counts(sizes, m)
           d == Counts(sizes, n)
<1>1. /\ c \in Seq(Nat) /\ Len(c) = Len(sizes)
      /\ \A k \in 1..Len(sizes) : c[k] = CeilDiv(sizes[k], m) /\ sizes[k] \in Nat
      /\ BlocksOf(sizes, m) = Total(c)
  BY CountsAre
<1>2. /\ d \in Seq(Nat) /\ Len(d) = Len(sizes)
      /\ \A k \in 1..Len(sizes) : d[k] = CeilDiv(sizes[k], n) /\ sizes[k] \in Nat
      /\ BlocksOf(sizes, n) = Total(d)
  BY CountsAre
<1> HIDE DEF c, d
<1>3. ASSUME NEW k \in 1..Len(sizes) PROVE 1 * d[k] <= 1 * c[k] + 0
  <2>1. /\ c[k] \in Nat /\ d[k] \in Nat /\ sizes[k] \in Nat
        /\ sizes[k] <= c[k] * m
    BY <1>1, <1>2, PiecesBound
  <2>2. \A i \in Nat : i < d[k] <=> i * n < sizes[k]
    BY <1>2, <2>1, PiecesCover
  <2>3. \A q \in Nat : q * m <= q * n /\ q * m \in Nat /\ q * n \in Nat
    OBVIOUS
  <2>4. c[k] * m <= c[k] * n /\ c[k] * m \in Nat /\ c[k] * n \in Nat
    BY <2>1, <2>3
  <2>5. ~(c[k] * n < sizes[k])
    BY <2>1, <2>4
  <2>6. ~(c[k] < d[k])
    BY <2>1, <2>2, <2>5
  <2> QED
    BY <2>1, <2>6
<1>4. 1 * Total(d) <= 1 * Total(c) + 0 * Len(d)
  BY <1>1, <1>2, <1>3, SumsCompare
<1>5. Total(d) \in Nat /\ Total(c) \in Nat /\ Len(d) \in Nat
  BY <1>1, <1>2, SumToRises DEF Total
<1> QED
  BY <1>1, <1>2, <1>4, <1>5

\* What the binary search has to find between l and h: the first size that makes
\* no more than the target, or h.
IsFirst(n, sizes, target, l, h) ==
  /\ n \in l..h
  /\ \A k \in l..(n - 1) : BlocksOf(sizes, k) > target
  /\ n = h \/ BlocksOf(sizes, n) <= target

LEMMA FirstIsUnique ==
  ASSUME NEW sizes, NEW target, NEW l \in Nat, NEW h \in Nat, NEW m, NEW n,
         \A k \in l..h : BlocksOf(sizes, k) \in Nat, target \in Nat,
         IsFirst(m, sizes, target, l, h), IsFirst(n, sizes, target, l, h)
  PROVE  m = n
<1>1. m \in l..h /\ n \in l..h
  BY DEF IsFirst
<1>2. ~(m < n)
  <2> SUFFICES ASSUME m < n PROVE FALSE
    OBVIOUS
  <2>1. m \in l..(n - 1) /\ m # h
    BY <1>1
  <2> QED
    BY <1>1, <2>1 DEF IsFirst
<1>3. ~(n < m)
  <2> SUFFICES ASSUME n < m PROVE FALSE
    OBVIOUS
  <2>1. n \in l..(m - 1) /\ n # h
    BY <1>1
  <2> QED
    BY <1>1, <2>1 DEF IsFirst
<1> QED
  BY <1>1, <1>2, <1>3

\* What is first in the half that is taken is first in the whole.
LEMMA HalfIsEnough ==
  ASSUME NEW sizes \in Seq(Nat), NEW target \in Nat, NEW l \in Nat \ {0},
         NEW h \in Nat, l < h, NEW m, m = (l + h) \div 2, NEW n
  PROVE  /\ m \in l..(h - 1)
         /\ BlocksOf(sizes, m) > target /\ IsFirst(n, sizes, target, m + 1, h)
              => IsFirst(n, sizes, target, l, h)
         /\ ~(BlocksOf(sizes, m) > target) /\ IsFirst(n, sizes, target, l, m)
              => IsFirst(n, sizes, target, l, h)
<1>1. m \in l..(h - 1)
  OBVIOUS
<1>2. ASSUME BlocksOf(sizes, m) > target, IsFirst(n, sizes, target, m + 1, h)
      PROVE  IsFirst(n, sizes, target, l, h)
  <2>1. n \in l..h /\ (n = h \/ BlocksOf(sizes, n) <= target)
    BY <1>1, <1>2 DEF IsFirst
  <2>2. ASSUME NEW k \in l..(n - 1) PROVE BlocksOf(sizes, k) > target
    <3>1. CASE k <= m
      <4>1. BlocksOf(sizes, m) <= BlocksOf(sizes, k)
        BY <1>1, <3>1, BlocksFall
      <4>2. BlocksOf(sizes, m) \in Nat /\ BlocksOf(sizes, k) \in Nat
        BY <1>1, BlocksBound
      <4> QED
        BY <1>2, <4>1, <4>2
    <3>2. CASE m < k
      <4>1. k \in (m + 1)..(n - 1)
        BY <1>1, <2>1, <3>2
      <4> QED
        BY <1>2, <4>1 DEF IsFirst
    <3> QED
      BY <1>1, <3>1, <3>2
  <2> QED
    BY <2>1, <2>2 DEF IsFirst
<1>3. ASSUME ~(BlocksOf(sizes, m) > target), IsFirst(n, sizes, target, l, m)
      PROVE  IsFirst(n, sizes, target, l, h)
  <2>1. BlocksOf(sizes, m) \in Nat
    BY <1>1, BlocksBound
  <2>2. n \in l..h /\ BlocksOf(sizes, n) <= target
    BY <1>1, <1>3, <2>1 DEF IsFirst
  <2> QED
    BY <1>3, <2>2 DEF IsFirst
<1> QED
  BY <1>1, <1>2, <1>3

\* The results of the binary search for all bounds.
AreFound(size, sizes, target, low, high) ==
  size = [b \in (low..high) \X (low..high) |->
            LET l == b[1]
                h == b[2]
                m == (l + h) \div 2
            IN  IF l >= h THEN l
                ELSE IF BlocksOf(sizes, m) > target THEN size[<<m + 1, h>>]
                ELSE size[<<l, m>>]]

LEMMA FoundExist ==
  ASSUME NEW sizes \in Seq(Nat), NEW target \in Nat, NEW low \in Nat \ {0},
         NEW high \in Nat
  PROVE  \E size : AreFound(size, sizes, target, low, high)
<1> DEFINE First(l, h) == CHOOSE n : IsFirst(n, sizes, target, l, h)
           R == low..high
           g == [b \in R \X R |-> IF b[1] >= b[2] THEN b[1] ELSE First(b[1], b[2])]
<1>1. \A n \in Nat \ {0} : BlocksOf(sizes, n) \in Nat
  BY BlocksBound
\* a first size is there, if there is a size
<1>2. ASSUME NEW l \in R, NEW h \in R, l <= h
      PROVE  IsFirst(First(l, h), sizes, target, l, h)
  <2> DEFINE T == {n \in l..h : n = h \/ BlocksOf(sizes, n) <= target}
  <2>1. T \in SUBSET Nat /\ h \in T
    BY <1>2
  <2>2. PICK n \in T : \A k \in T : n <= k
    <3> HIDE DEF T
    <3> QED
      BY <2>1, LeastExists
  <2>3. ASSUME NEW k \in l..(n - 1) PROVE BlocksOf(sizes, k) > target
    <3>1. k \in l..h /\ k # h /\ k \notin T /\ k \in Nat \ {0}
      BY <2>2
    <3> QED
      BY <1>1, <3>1
  <2>4. IsFirst(n, sizes, target, l, h)
    BY <2>2, <2>3 DEF IsFirst
  <2> QED
    BY <2>4
<1> HIDE DEF First
<1>3. \A l, h \in R : g[<<l, h>>] = IF l >= h THEN l ELSE First(l, h)
  OBVIOUS
<1>4. ASSUME NEW l \in R, NEW h \in R, l <= h
      PROVE  IsFirst(g[<<l, h>>], sizes, target, l, h)
  <2>1. CASE l = h
    <3>1. g[<<l, h>>] = l
      BY <2>1, <1>3
    <3> QED
      BY <2>1, <3>1 DEF IsFirst
  <2>2. CASE l # h
    <3>1. g[<<l, h>>] = First(l, h)
      BY <1>4, <2>2, <1>3
    <3> QED
      BY <3>1, <1>2, <1>4
  <2> QED
    BY <2>1, <2>2
<1>5. ASSUME NEW l \in R, NEW h \in R
      PROVE  g[<<l, h>>] = IF l >= h THEN l
                       ELSE LET m == (l + h) \div 2
                            IN  IF BlocksOf(sizes, m) > target THEN g[<<m + 1, h>>]
                                ELSE g[<<l, m>>]
  <2> SUFFICES ASSUME l < h
               PROVE  LET m == (l + h) \div 2
                      IN  g[<<l, h>>] = IF BlocksOf(sizes, m) > target THEN g[<<m + 1, h>>]
                                    ELSE g[<<l, m>>]
    BY <1>3
  <2> DEFINE m == (l + h) \div 2
  <2>1. m \in l..(h - 1) /\ m \in R /\ m + 1 \in R /\ m + 1 <= h /\ l <= m
    OBVIOUS
  <2>2. \A k \in l..h : BlocksOf(sizes, k) \in Nat
    BY <1>1
  <2>3. l <= h /\ l \in Nat \ {0} /\ h \in Nat
    OBVIOUS
  <2> HIDE DEF g
  <2>4. IsFirst(g[<<l, h>>], sizes, target, l, h)
    BY <1>4, <2>3
  <2>5. \A n : /\ BlocksOf(sizes, m) > target /\ IsFirst(n, sizes, target, m + 1, h)
                  => IsFirst(n, sizes, target, l, h)
               /\ ~(BlocksOf(sizes, m) > target) /\ IsFirst(n, sizes, target, l, m)
                 => IsFirst(n, sizes, target, l, h)
    BY <2>3, HalfIsEnough
  <2> HIDE DEF m
  <2>6. CASE BlocksOf(sizes, m) > target
    <3> DEFINE x == g[<<l, h>>]
               y == g[<<m + 1, h>>]
    <3>1. IsFirst(x, sizes, target, l, h) /\ IsFirst(y, sizes, target, m + 1, h)
      BY <1>4, <2>1, <2>4
    <3> HIDE DEF x, y
    <3>2. IsFirst(y, sizes, target, l, h)
      BY <2>6, <3>1, <2>5
    <3>3. IsFirst(x, sizes, target, l, h) /\ IsFirst(y, sizes, target, l, h)
      BY <3>1, <3>2
    <3>4. x = y
      BY <2>2, <2>3, <3>3, FirstIsUnique
    <3> QED
      BY <2>6, <3>4 DEF m, x, y
  <2>7. CASE ~(BlocksOf(sizes, m) > target)
    <3>1. IsFirst(g[<<l, m>>], sizes, target, l, m)
      BY <1>4, <2>1
    <3>2. IsFirst(g[<<l, m>>], sizes, target, l, h)
      BY <2>7, <3>1, <2>5
    <3>3. g[<<l, h>>] = g[<<l, m>>]
      BY <2>2, <2>4, <2>3, <3>2, FirstIsUnique
    <3> QED
      BY <2>7, <3>3 DEF m
  <2> QED
    BY <2>6, <2>7
<1>6. g = [b \in R \X R |-> g[b]]
  OBVIOUS
<1> HIDE DEF g
<1>7. ASSUME NEW b \in R \X R
      PROVE  g[b] = LET l == b[1]
                        h == b[2]
                        m == (l + h) \div 2
                    IN  IF l >= h THEN l
                        ELSE IF BlocksOf(sizes, m) > target THEN g[<<m + 1, h>>]
                        ELSE g[<<l, m>>]
  <2>1. b = <<b[1], b[2]>> /\ b[1] \in R /\ b[2] \in R
    OBVIOUS
  <2> QED
    BY <1>5, <2>1
<1>8. AreFound(g, sizes, target, low, high)
  BY <1>7, <1>6 DEF AreFound
<1> QED
  BY <1>8

\* The binary search ends at the smallest block size that makes no more blocks
\* than the target, if the upper bound makes no more and the sizes below the
\* lower bound make more.
LEMMA SearchIs ==
  ASSUME NEW sizes \in Seq(Nat), NEW target \in Nat, NEW low \in Nat \ {0},
         NEW high \in Nat, low <= high, BlocksOf(sizes, high) <= target,
         \A k \in 1..(low - 1) : BlocksOf(sizes, k) > target
  PROVE  LET n == Search(sizes, target, low, high)
         IN  /\ n \in low..high /\ BlocksOf(sizes, n) <= target
             /\ \A k \in 1..(n - 1) : BlocksOf(sizes, k) > target
<1> DEFINE f == CHOOSE size : AreFound(size, sizes, target, low, high)
           R == low..high
<1>1. AreFound(f, sizes, target, low, high)
  BY FoundExist
<1>2. Search(sizes, target, low, high) = f[<<low, high>>]
  BY DEF Search, AreFound
<1> HIDE DEF f
<1>3. ASSUME NEW l \in R, NEW h \in R
      PROVE  f[<<l, h>>] =
               LET m == (l + h) \div 2
               IN  IF l >= h THEN l
                   ELSE IF BlocksOf(sizes, m) > target THEN f[<<m + 1, h>>]
                   ELSE f[<<l, m>>]
  <2>1. <<l, h>> \in R \X R /\ <<l, h>>[1] = l /\ <<l, h>>[2] = h
    OBVIOUS
  <2> QED
    BY <1>1, <2>1 DEF AreFound
<1> DEFINE S == {d \in Nat : \A l, h \in R : l <= h /\ h - l <= d
                   => IsFirst(f[<<l, h>>], sizes, target, l, h)}
<1>4. 0 \in S
  <2> SUFFICES ASSUME NEW l \in R, NEW h \in R, l = h
               PROVE  IsFirst(f[<<l, h>>], sizes, target, l, h)
    OBVIOUS
  <2>1. f[<<l, h>>] = l
    <3>1. l >= h
      OBVIOUS
    <3> HIDE DEF R
    <3> QED
      BY <1>3, <3>1
  <2> QED
    BY <2>1 DEF IsFirst
<1>5. ASSUME NEW d \in Nat, d \in S PROVE d + 1 \in S
  <2> SUFFICES ASSUME NEW l \in R, NEW h \in R, l <= h, h - l <= d + 1
               PROVE  IsFirst(f[<<l, h>>], sizes, target, l, h)
    OBVIOUS
  <2>1. CASE h - l <= d
    BY <1>5, <2>1
  <2>2. CASE l < h
    <3> DEFINE m == (l + h) \div 2
    <3>1. /\ m \in l..(h - 1) /\ m \in R /\ m + 1 \in R /\ m + 1 <= h /\ l <= m
          /\ h - (m + 1) <= d /\ m - l <= d
      BY <2>2
    <3>2. l \in Nat \ {0} /\ h \in Nat
      OBVIOUS
    <3>3. f[<<l, h>>] = IF BlocksOf(sizes, m) > target THEN f[<<m + 1, h>>]
                        ELSE f[<<l, m>>]
      BY <1>3, <2>2
    <3>4. /\ IsFirst(f[<<m + 1, h>>], sizes, target, m + 1, h)
          /\ IsFirst(f[<<l, m>>], sizes, target, l, m)
      <4> HIDE DEF m, R
      <4> QED
        BY <1>5, <3>1
    <3>5. \A n : /\ BlocksOf(sizes, m) > target /\ IsFirst(n, sizes, target, m + 1, h)
                    => IsFirst(n, sizes, target, l, h)
                 /\ ~(BlocksOf(sizes, m) > target) /\ IsFirst(n, sizes, target, l, m)
                    => IsFirst(n, sizes, target, l, h)
      BY <2>2, <3>2, HalfIsEnough
    <3> HIDE DEF m, S
    <3> QED
      BY <3>3, <3>4, <3>5
  <2> QED
    BY <2>1, <2>2
<1>6. \A d \in Nat : d \in S
  <2> HIDE DEF S
  <2> QED
    BY <1>4, <1>5, EveryNumber
<1> DEFINE n == f[<<low, high>>]
<1>7. IsFirst(n, sizes, target, low, high)
  <2>1. low \in R /\ high \in R /\ high - low \in Nat
    OBVIOUS
  <2> QED
    BY <1>6, <2>1
<1> HIDE DEF n, S
<1>8. n \in low..high /\ BlocksOf(sizes, n) <= target
  BY <1>7 DEF IsFirst
<1>9. ASSUME NEW k \in 1..(n - 1) PROVE BlocksOf(sizes, k) > target
  <2>1. k \in 1..(low - 1) \/ k \in low..(n - 1)
    BY <1>8
  <2> QED
    BY <1>7, <2>1 DEF IsFirst
<1> QED
  BY <1>2, <1>8, <1>9 DEF n

\* A block size is the smallest that makes no more blocks than the target, for
\* all sizes of sources (calculate_block_size).
THEOREM BlockSizeIs ==
  ASSUME NEW sizes \in Seq(Nat \ {0}), NEW target \in Nat \ {0},
         NEW n, n = BlockSize(sizes, target)
  PROVE  /\ n \in Nat
         /\ n # 0 /\ sizes # <<>> =>
              /\ BlocksOf(sizes, n) <= target
              /\ \A k \in 1..(n - 1) : BlocksOf(sizes, k) > target
<1> DEFINE files == Len(sizes)
           total == Total(sizes)
<1>1. sizes \in Seq(Nat) /\ files \in Nat /\ total \in Nat
      /\ \A k \in 1..files : sizes[k] \in Nat \ {0}
  <2>1. sizes \in Seq(Nat)
    OBVIOUS
  <2> QED
    BY <2>1, SumToRises DEF Total
<1>2. n = IF target < files THEN 0
          ELSE IF target = files THEN Largest(sizes)
          ELSE IF target > total THEN 1
          ELSE Search(sizes, target, total \div target, CeilDiv(total, target - files))
  BY DEF BlockSize
<1>3. CASE target < files
  BY <1>2, <1>3
<1>4. CASE target = files
  <2>1. n \in Nat /\ \A k \in 1..files : sizes[k] <= n
    BY <1>1, <1>2, <1>4, LargestIs
  <2>2. n # 0 => \E k \in 1..files : sizes[k] = n
    BY <1>1, <1>2, <1>4, LargestIs
  <2>3. ASSUME n # 0 PROVE BlocksOf(sizes, n) <= target
    <3> DEFINE c == Counts(sizes, n)
    <3>1. /\ c \in Seq(Nat) /\ Len(c) = files /\ BlocksOf(sizes, n) = Total(c)
          /\ \A k \in 1..files : c[k] = CeilDiv(sizes[k], n)
      BY <1>1, <2>1, <2>3, CountsAre
    <3> HIDE DEF c
    <3>2. ASSUME NEW k \in 1..files PROVE 1 * c[k] <= 0 * c[k] + 1
      <4>1. CeilDiv(sizes[k], n) \in Nat /\ ~(1 < CeilDiv(sizes[k], n))
        <5>1. sizes[k] \in Nat /\ ~(1 * n < sizes[k])
          BY <1>1, <2>1
        <5> QED
          BY <2>1, <2>3, <5>1, PiecesCover
      <4> QED
        BY <3>1, <4>1
    <3>3. 1 * Total(c) <= 0 * Total(c) + 1 * Len(c)
      BY <3>1, <3>2, SumsCompare
    <3>4. Total(c) \in Nat
      BY <3>1, SumToRises DEF Total
    <3> QED
      BY <1>1, <1>4, <3>1, <3>3, <3>4
  <2>4. ASSUME n # 0, NEW m \in 1..(n - 1) PROVE BlocksOf(sizes, m) > target
    <3> DEFINE c == Counts(sizes, m)
    <3>1. /\ c \in Seq(Nat) /\ Len(c) = files /\ BlocksOf(sizes, m) = Total(c)
          /\ \A k \in 1..files : c[k] = CeilDiv(sizes[k], m)
      BY <1>1, <2>1, <2>4, CountsAre
    <3> HIDE DEF c
    <3>2. ASSUME NEW k \in 1..files PROVE c[k] >= 1
      <4>1. CeilDiv(sizes[k], m) \in Nat /\ 0 < CeilDiv(sizes[k], m)
        <5>1. sizes[k] \in Nat /\ 0 * m < sizes[k] /\ m \in Nat \ {0}
          BY <1>1, <2>1
        <5> QED
          BY <5>1, PiecesCover
      <4> QED
        BY <3>1, <4>1
    <3>3. PICK i \in 1..files : sizes[i] = n
      BY <2>2, <2>4
    <3>4. c[i] > 1
      <4>1. sizes[i] \in Nat /\ 1 * m < sizes[i] /\ m \in Nat \ {0}
        BY <2>1, <3>3
      <4>2. CeilDiv(sizes[i], m) \in Nat /\ 1 < CeilDiv(sizes[i], m)
        BY <4>1, PiecesCover
      <4> QED
        BY <3>1, <4>2
    <3> QED
      BY <1>4, <3>1, <3>2, <3>4, SumIsMore
  <2> QED
    BY <2>1, <2>3, <2>4
<1>5. CASE target > files /\ target > total
  <2>1. n = 1
    BY <1>1, <1>2, <1>5
  <2>2. 1 * BlocksOf(sizes, 1) <= total + (1 - 1) * files /\ BlocksOf(sizes, 1) \in Nat
    BY <1>1, BlocksBound
  <2> QED
    BY <1>1, <1>5, <2>1, <2>2
<1>6. CASE target > files /\ target <= total
  <2> DEFINE low == total \div target
             d == target - files
             high == CeilDiv(total, d)
  <2>1. d \in Nat \ {0} /\ target = d + files
    BY <1>1, <1>6
  <2>2. low \in Nat \ {0} /\ low * target <= total /\ low * target \in Nat
    <3> HIDE DEF files, total
    <3>1. /\ low \in Nat /\ low * target <= total /\ low * target \in Nat
          /\ total < low * target + target
      BY <1>1
    <3>2. low # 0
      <4> SUFFICES ASSUME low = 0 PROVE FALSE
        OBVIOUS
      <4> HIDE DEF low
      <4>1. low * target = 0
        OBVIOUS
      <4> QED
        BY <1>1, <1>6, <3>1, <4>1
    <3> QED
      BY <3>1, <3>2
  <2>3. high \in Nat /\ total <= high * d /\ high * d \in Nat
    <3>1. high \in Nat /\ total <= high * d
      BY <1>1, <2>1, PiecesBound
    <3> HIDE DEF high
    <3> QED
      BY <2>1, <3>1
  <2> HIDE DEF low, d, high
  <2>4. low <= high /\ high # 0
    <3> SUFFICES ASSUME high < low PROVE FALSE
      BY <2>2, <2>3
    <3>1. high * target + target <= low * target
      BY <2>2, <2>3, LessIsLess
    <3>2. high * target = high * d + high * files /\ high * files \in Nat
      BY <1>1, <2>1, <2>3
    <3> HIDE DEF files, total
    <3>3. high * d + high * files + target <= high * d
      BY <1>1, <2>2, <2>3, <3>1, <3>2
    <3> QED
      BY <2>3, <3>2, <3>3
  <2>5. BlocksOf(sizes, high) <= target
    <3> DEFINE b == BlocksOf(sizes, high)
    <3>1. b \in Nat /\ high * b <= total + (high - 1) * files
      BY <1>1, <2>3, <2>4, BlocksBound
    <3> HIDE DEF b
    <3> SUFFICES ASSUME target < b PROVE FALSE
      BY <3>1 DEF b
    <3>2. target * high + high <= b * high
      BY <2>3, <3>1, LessIsLess
    <3>3. target * high = high * d + high * files
      BY <1>1, <2>1, <2>3
    <3>4. (high - 1) * files = high * files - files /\ high * files \in Nat
      BY <1>1, <2>3, <2>4
    <3>5. b * high = high * b /\ high * b \in Nat /\ high * d \in Nat
      BY <2>1, <2>3, <3>1
    <3>6. target * high + high <= high * b
      BY <3>2, <3>5
    <3> DEFINE p == high * d
               q == high * files
               r == high * b
    <3>7. p \in Nat /\ q \in Nat /\ r \in Nat /\ total <= p
      BY <2>3, <3>4, <3>5
    <3>8. r <= total + (q - files)
      BY <3>1, <3>4
    <3>9. p + q + high <= r
      BY <3>3, <3>6
    <3> HIDE DEF files, total, p, q, r
    <3> QED
      BY <1>1, <2>3, <2>4, <3>7, <3>8, <3>9
  <2>6. ASSUME NEW k \in 1..(low - 1) PROVE BlocksOf(sizes, k) > target
    <3> DEFINE b == BlocksOf(sizes, k)
    <3>1. k \in Nat \ {0} /\ k < low
      BY <2>2
    <3>2. b \in Nat /\ total <= k * b
      BY <1>1, <3>1, BlocksBound
    <3> HIDE DEF b
    <3> SUFFICES ASSUME b <= target PROVE FALSE
      BY <3>2 DEF b
    <3>3. k * target + target <= low * target
      BY <2>2, <3>1, LessIsLess
    <3>4. k * b <= k * target /\ k * b \in Nat /\ k * target \in Nat
      BY <3>1, <3>2
    <3> HIDE DEF files, total
    <3> QED
      BY <1>1, <2>2, <3>2, <3>3, <3>4
  <2>7. n = Search(sizes, target, low, high)
    BY <1>1, <1>2, <1>6 DEF low, high, d
  <2>8. /\ n \in low..high /\ BlocksOf(sizes, n) <= target
        /\ \A k \in 1..(n - 1) : BlocksOf(sizes, k) > target
    BY <1>1, <2>2, <2>3, <2>4, <2>5, <2>6, <2>7, SearchIs
  <2> QED
    BY <2>2, <2>3, <2>8
<1> QED
  BY <1>1, <1>3, <1>4, <1>5, <1>6

-----------------------------------------------------------------------------
(* Volumes of a doubling series *)

\* The series that is chosen has room for all slices.
LEMMA SmallestIs ==
  ASSUME NEW files \in Nat, NEW count \in Nat, files # 0 \/ count = 0
  PROVE  /\ Smallest(files, count) \in Nat
         /\ Smallest(files, count) * (2 ^ files - 1) >= count
<1> DEFINE room == 2 ^ files - 1
           T == {n \in {2 ^ j : j \in 0..count} : n * (2 ^ files - 1) >= count}
           most == 2 ^ count
<1>1. room \in Nat /\ (files # 0 => room >= 1) /\ most \in Nat /\ count < most
  <2>1. 2 ^ files \in Nat \ {0} /\ files < 2 ^ files
    BY PowersDouble, PowersGrow
  <2>2. most \in Nat /\ count < most
    BY PowersDouble, PowersGrow
  <2> QED
    BY <2>1, <2>2
<1>2. most \in T
  <2>1. most * room >= count
    <3> HIDE DEF most, room
    <3>1. CASE files = 0
      BY <1>1, <3>1
    <3>2. CASE files # 0
      <4>1. most * room >= most
        BY <1>1, <3>2
      <4>2. most * room \in Nat
        BY <1>1
      <4> QED
        BY <1>1, <4>1, <4>2
    <3> QED
      BY <3>1, <3>2
  <2>2. most \in {2 ^ j : j \in 0..count}
    OBVIOUS
  <2> QED
    BY <2>1, <2>2
<1>3. T \in SUBSET Nat
  <2>1. \A j \in 0..count : 2 ^ j \in Nat
    BY PowersDouble
  <2> QED
    BY <2>1
<1>4. Smallest(files, count) = Min(T)
  BY DEF Smallest
<1>5. Min(T) \in T
  <2> HIDE DEF T, most
  <2> QED
    BY <1>2, <1>3, MinIs
<1>6. \A n \in T : n * (2 ^ files - 1) >= count
  OBVIOUS
<1> HIDE DEF T
<1> QED
  BY <1>3, <1>4, <1>5, <1>6

\* A doubling series holds all slices.
LEMMA SeriesIsAll ==
  ASSUME NEW files \in Nat, NEW count \in Nat, files # 0 \/ count = 0
  PROVE  /\ VariableCounts(files, count) \in Seq(Nat)
         /\ Len(VariableCounts(files, count)) = files
         /\ Total(VariableCounts(files, count)) = count
<1> DEFINE s == VariableCounts(files, count)
           low == Smallest(files, count)
           part(k) == Lesser(low * 2 ^ (k - 1),
                             Greater(0, count - low * (2 ^ (k - 1) - 1)))
<1>1. low \in Nat /\ low * (2 ^ files - 1) >= count
  BY SmallestIs
<1>2. s = [k \in 1..files |-> part(k)]
  BY DEF VariableCounts
<1> HIDE DEF low
<1>3. ASSUME NEW k \in Nat
      PROVE  /\ low * 2 ^ k \in Nat /\ low * (2 ^ k - 1) \in Nat
             /\ low * (2 ^ (k + 1) - 1) = low * (2 ^ k - 1) + low * 2 ^ k
  <2> DEFINE p == 2 ^ k
  <2>1. p \in Nat \ {0} /\ 2 ^ (k + 1) = 2 * p
    BY PowersDouble
  <2> HIDE DEF p
  <2>2. low * p \in Nat /\ low * (p - 1) = low * p - low
    BY <1>1, <2>1
  <2>3. low * (2 * p - 1) = 2 * (low * p) - low
    BY <1>1, <2>1
  <2>4. low * (p - 1) \in Nat
    BY <1>1, <2>1
  <2>5. low * (2 * p - 1) = low * (p - 1) + low * p
    BY <1>1, <2>2, <2>3
  <2> QED
    BY <2>1, <2>2, <2>4, <2>5 DEF p
<1>4. ASSUME NEW k \in 1..files PROVE part(k) \in Nat
  <2>1. k - 1 \in Nat
    OBVIOUS
  <2>2. low * 2 ^ (k - 1) \in Nat /\ low * (2 ^ (k - 1) - 1) \in Nat
    BY <1>3, <2>1
  <2> QED
    BY <2>2 DEF Lesser, Greater
<1>5. s \in Seq(Nat) /\ Len(s) = files /\ \A k \in 1..files : s[k] = part(k)
  <2> HIDE DEF s, part
  <2> QED
    BY <1>2, <1>4
<1> HIDE DEF s
<1> DEFINE S == {k \in Nat : k <= files =>
                   SumTo(s, k) = Lesser(low * (2 ^ k - 1), count)}
<1>6. 0 \in S
  <2>1. SumTo(s, 0) = 0 /\ low * (2 ^ 0 - 1) = 0
    BY <1>1, SumToSteps, PowersDouble
  <2> QED
    BY <2>1 DEF Lesser
<1>7. ASSUME NEW k \in Nat, k \in S PROVE k + 1 \in S
  <2> SUFFICES ASSUME k + 1 <= files
               PROVE  SumTo(s, k + 1) = Lesser(low * (2 ^ (k + 1) - 1), count)
    OBVIOUS
  <2> DEFINE x == low * (2 ^ k - 1)
             y == low * 2 ^ k
  <2>1. x \in Nat /\ y \in Nat /\ low * (2 ^ (k + 1) - 1) = x + y
    BY <1>3
  <2>2. SumTo(s, k) = Lesser(x, count)
    BY <1>7
  <2>3. s[k + 1] = Lesser(y, Greater(0, count - x))
    <3>1. k + 1 \in 1..files /\ k + 1 - 1 = k
      OBVIOUS
    <3> HIDE DEF S
    <3> QED
      BY <1>5, <3>1
  <2>4. SumTo(s, k + 1) = SumTo(s, k) + s[k + 1]
    BY SumToSteps
  <2> HIDE DEF S, x, y
  <2>5. Lesser(x, count) + Lesser(y, Greater(0, count - x)) = Lesser(x + y, count)
    BY <2>1 DEF Lesser, Greater
  <2> QED
    BY <2>1, <2>2, <2>3, <2>4, <2>5
<1>8. \A k \in Nat : k \in S
  <2> HIDE DEF S
  <2> QED
    BY <1>6, <1>7, EveryNumber
<1>9. SumTo(s, files) = Lesser(low * (2 ^ files - 1), count)
  BY <1>8
<1>10. SumTo(s, files) = count
  <2>1. low * (2 ^ files - 1) \in Nat
    BY <1>3
  <2> QED
    BY <1>1, <1>9, <2>1 DEF Lesser
<1> QED
  BY <1>5, <1>10 DEF Total, s

-----------------------------------------------------------------------------
(* Volumes of limited size *)

\* Slices of the first k volumes.
Share(files, count, cap, low, k, x) ==
  LET left == count - x
      least == Greater(0, left - (files - k) * cap)
      series == Lesser(low * 2 ^ (k - 1), left)
  IN  x + Lesser(Greater(series, least), cap)

AreGiven(given, files, count, cap, low) ==
  given = [k \in 0..files |->
             IF k = 0 THEN 0 ELSE Share(files, count, cap, low, k, given[k - 1])]

\* A volume takes no more than are left, and not less than the later ones leave.
LEMMA ShareIs ==
  ASSUME NEW files \in Nat, NEW count \in Nat, NEW cap \in Nat \ {0},
         NEW low \in Nat, NEW k \in 1..files, NEW x \in 0..count
  PROVE  LET y == Share(files, count, cap, low, k, x)
         IN  /\ y \in x..count /\ y - x <= cap
             /\ count - x <= (files - (k - 1)) * cap => count - y <= (files - k) * cap
<1> DEFINE p == low * 2 ^ (k - 1)
           r == (files - k) * cap
           y == Share(files, count, cap, low, k, x)
<1>1. p \in Nat
  <2>1. 2 ^ (k - 1) \in Nat
    BY PowersDouble
  <2> QED
    BY <2>1
<1>2. r \in Nat /\ (files - (k - 1)) * cap = r + cap
  <2> DEFINE d == files - k
  <2>1. d \in Nat /\ files - (k - 1) = d + 1
    OBVIOUS
  <2> HIDE DEF d
  <2>2. d * cap \in Nat /\ (d + 1) * cap = d * cap + cap
    BY <2>1
  <2> QED
    BY <2>1, <2>2 DEF d
<1>3. y = x + Lesser(Greater(Lesser(p, count - x), Greater(0, (count - x) - r)), cap)
  BY DEF Share
<1> HIDE DEF p, r, y
<1>4. y \in x..count /\ y - x <= cap /\ (count - x <= r + cap => count - y <= r)
  BY <1>1, <1>2, <1>3 DEF Lesser, Greater
<1> QED
  BY <1>2, <1>4 DEF y, r

\* No volume has more than cap slices, and together they have all.
LEMMA BottomIs ==
  ASSUME NEW files \in Nat, NEW count \in Nat, NEW cap \in Nat \ {0},
         count <= files * cap
  PROVE  /\ Bottom(files, count, cap) \in Seq(Nat)
         /\ Len(Bottom(files, count, cap)) = files
         /\ Total(Bottom(files, count, cap)) = count
         /\ \A k \in 1..files : Bottom(files, count, cap)[k] <= cap
<1> DEFINE low == Smallest(files, count)
           f == CHOOSE given : AreGiven(given, files, count, cap, low)
           s == Bottom(files, count, cap)
<1>1. low \in Nat
  <2>1. files = 0 => count = 0
    OBVIOUS
  <2> QED
    BY <2>1, SmallestIs
<1>2. s = [k \in 1..files |-> f[k] - f[k - 1]]
  BY DEF Bottom, AreGiven, Share
<1> HIDE DEF low
<1>3. AreGiven(f, files, count, cap, low)
  <2> DEFINE V == 0..count
             G == [p \in (1..files) \X V |-> Share(files, count, cap, low, p[1], p[2])]
  <2>1. \A k \in 1..files : \A x \in V :
          /\ G[<<k, x>>] = Share(files, count, cap, low, k, x)
          /\ G[<<k, x>>] \in V
    <3> SUFFICES ASSUME NEW k \in 1..files, NEW x \in V
                 PROVE  /\ G[<<k, x>>] = Share(files, count, cap, low, k, x)
                        /\ G[<<k, x>>] \in V
      OBVIOUS
    <3>1. G[<<k, x>>] = Share(files, count, cap, low, k, x)
      OBVIOUS
    <3>2. Share(files, count, cap, low, k, x) \in x..count
      BY <1>1, ShareIs
    <3> QED
      BY <3>1, <3>2
  <2>2. 0 \in V
    OBVIOUS
  <2> HIDE DEF G, V
  <2>3. \A k \in 1..files : \A x \in V : G[<<k, x>>] \in V
    BY <2>1
  <2>4. PICK g : AreValues(g, V, 0, files, G)
    BY <2>2, <2>3, ValuesExist
  <2>5. \A k \in 0..files : k # 0 => k \in 1..files /\ k - 1 \in 0..files
    OBVIOUS
  <2>6. \A k \in 0..files :
          g[k] = IF k = 0 THEN 0 ELSE Share(files, count, cap, low, k, g[k - 1])
    BY <2>1, <2>4, <2>5 DEF AreValues
  <2>7. AreGiven(g, files, count, cap, low)
    BY <2>4, <2>6 DEF AreGiven, AreValues
  <2> QED
    BY <2>7
<1> HIDE DEF f, s
<1>4. f[0] = 0 /\ \A k \in 1..files : f[k] = Share(files, count, cap, low, k, f[k - 1])
  BY <1>3 DEF AreGiven
<1> DEFINE S == {k \in Nat : k <= files =>
                   f[k] \in 0..count /\ count - f[k] <= (files - k) * cap}
<1>5. 0 \in S
  BY <1>4
<1>6. ASSUME NEW k \in Nat, k \in S PROVE k + 1 \in S
  <2> SUFFICES ASSUME k + 1 <= files
               PROVE  /\ f[k + 1] \in 0..count
                      /\ count - f[k + 1] <= (files - (k + 1)) * cap
    OBVIOUS
  <2> DEFINE x == f[k]
             y == f[k + 1]
  <2>1. x \in 0..count /\ count - x <= (files - k) * cap
    BY <1>6
  <2>2. k + 1 \in 1..files /\ k + 1 - 1 = k
    OBVIOUS
  <2> HIDE DEF S
  <2>3. y = Share(files, count, cap, low, k + 1, x)
    BY <1>4, <2>2
  <2> HIDE DEF x, y
  <2> DEFINE j == k + 1
  <2>4. j \in 1..files /\ j - 1 = k /\ y = Share(files, count, cap, low, j, x)
    BY <2>2, <2>3
  <2> HIDE DEF j
  <2>5. y \in x..count /\ count - y <= (files - j) * cap
    BY <1>1, <2>1, <2>4, ShareIs
  <2>6. y \in 0..count /\ count - y <= (files - (k + 1)) * cap
    BY <2>1, <2>5 DEF j
  <2> QED
    BY <2>6 DEF y
<1>7. \A k \in Nat : k \in S
  <2> HIDE DEF S
  <2> QED
    BY <1>5, <1>6, EveryNumber
<1>8. \A k \in 0..files : f[k] \in 0..count
  BY <1>7
<1>9. f[files] = count
  <2>1. f[files] \in 0..count /\ count - f[files] <= (files - files) * cap
    BY <1>7
  <2>2. (files - files) * cap = 0
    OBVIOUS
  <2> QED
    BY <2>1, <2>2
<1> HIDE DEF S
<1>10. ASSUME NEW k \in 1..files PROVE f[k] - f[k - 1] \in 0..cap
  <2> DEFINE x == f[k - 1]
             y == f[k]
  <2>1. x \in 0..count /\ y = Share(files, count, cap, low, k, x)
    BY <1>4, <1>8
  <2> HIDE DEF x, y
  <2>2. y \in x..count /\ y - x <= cap
    BY <1>1, <2>1, ShareIs
  <2>3. y - x \in 0..cap
    BY <2>1, <2>2
  <2> QED
    BY <2>3 DEF x, y
<1>11. /\ s \in Seq(Nat) /\ Len(s) = files
       /\ \A k \in 1..files : s[k] = f[k] - f[k - 1] /\ s[k] <= cap
  <2>1. \A k \in 1..files : f[k] - f[k - 1] \in Nat /\ f[k] - f[k - 1] <= cap
    BY <1>10
  <2> QED
    BY <1>2, <2>1
<1> DEFINE N == {k \in Nat : k <= files => SumTo(s, k) = f[k]}
<1>12. 0 \in N
  BY <1>4, SumToSteps
<1>13. ASSUME NEW k \in Nat, k \in N PROVE k + 1 \in N
  <2> SUFFICES ASSUME k + 1 <= files PROVE SumTo(s, k + 1) = f[k + 1]
    OBVIOUS
  <2>1. SumTo(s, k) = f[k]
    BY <1>13
  <2>2. k + 1 \in 1..files /\ k + 1 - 1 = k /\ f[k] \in Nat /\ f[k + 1] \in Nat
    BY <1>8
  <2> HIDE DEF N
  <2>3. s[k + 1] = f[k + 1] - f[k]
    BY <1>11, <2>2
  <2>4. SumTo(s, k + 1) = SumTo(s, k) + s[k + 1]
    BY SumToSteps
  <2> QED
    BY <2>1, <2>2, <2>3, <2>4
<1>14. \A k \in Nat : k \in N
  <2> HIDE DEF N
  <2> QED
    BY <1>12, <1>13, EveryNumber
<1>15. Total(s) = count
  BY <1>9, <1>11, <1>14 DEF Total
<1> QED
  BY <1>11, <1>15 DEF s

-----------------------------------------------------------------------------
(* All volumes *)

\* The number of volumes when none is asked for: none for no slices only, and
\* with the limited scheme enough for all slices.
LEMMA DefaultFilesAre ==
  ASSUME NEW scheme, NEW count \in Nat, NEW cap \in Nat \ {0}
  PROVE  LET files == DefaultFiles(scheme, count, cap)
         IN  /\ files \in Nat
             /\ files # 0 \/ count = 0
             /\ scheme = "limited" =>
                  LET full == Lesser(files, Greater(0, count \div cap - 1))
                      rest == count - full * cap
                  IN  /\ full \in 0..files /\ rest \in Nat
                      /\ rest <= (files - full) * cap
                      /\ ~(full = files /\ rest > 0)
<1> DEFINE files == DefaultFiles(scheme, count, cap)
           q == count \div cap
           whole == Greater(0, q - 1)
           rest == count - whole * cap
<1>1. q \in Nat /\ q * cap \in Nat /\ q * cap <= count /\ count < q * cap + cap
  OBVIOUS
<1>2. /\ whole \in Nat /\ whole * cap \in Nat
      /\ (whole = 0 /\ (q = 0 \/ q = 1)) \/ (whole = q - 1 /\ q > 1)
  <2> HIDE DEF q
  <2>1. /\ whole \in Nat
        /\ (whole = 0 /\ (q = 0 \/ q = 1)) \/ (whole = q - 1 /\ q > 1)
    BY <1>1 DEF Greater
  <2> HIDE DEF whole
  <2> QED
    BY <2>1
<1> HIDE DEF q
<1>3. rest \in Nat /\ (whole # 0 => rest >= cap) /\ rest < cap + cap
  <2>1. CASE whole = 0 /\ q = 0
    <3>1. whole * cap = 0 /\ q * cap = 0
      BY <2>1
    <3> HIDE DEF whole
    <3> QED
      BY <1>1, <2>1, <3>1
  <2>2. CASE whole = 0 /\ q = 1
    <3>1. whole * cap = 0 /\ q * cap = cap
      BY <2>2
    <3> HIDE DEF whole
    <3> QED
      BY <1>1, <2>2, <3>1
  <2>3. CASE whole = q - 1 /\ q > 1
    <3>1. whole * cap = q * cap - cap
      BY <1>1, <2>3
    <3> HIDE DEF whole
    <3> QED
      BY <1>1, <1>2, <3>1
  <2> QED
    BY <1>2, <2>1, <2>2, <2>3
<1> HIDE DEF whole
<1>4. /\ Digits(rest) \in Nat /\ (rest = 0 <=> Digits(rest) = 0)
      /\ (rest > 1 => Digits(rest) > 1)
  <2> HIDE DEF rest
  <2> QED
    BY <1>3, DigitsAre
<1>5. Digits(count) \in Nat /\ (count = 0 <=> Digits(count) = 0)
  BY DigitsAre
<1>6. CASE count = 0
  <2>1. files = 0
    BY <1>6 DEF DefaultFiles
  <2>2. Lesser(files, whole) = 0
    BY <1>2, <2>1 DEF Lesser
  <2>3. 0 * cap = 0 /\ (0 - 0) * cap = 0
    OBVIOUS
  <2> HIDE DEF files
  <2> QED
    BY <1>6, <2>1, <2>2, <2>3 DEF files, whole, q
<1>7. CASE count # 0 /\ scheme # "limited"
  <2>1. files = Digits(count)
    BY <1>7 DEF DefaultFiles
  <2> HIDE DEF files
  <2> QED
    BY <1>5, <1>7, <2>1 DEF files
<1>8. CASE count # 0 /\ scheme = "limited"
  <2>1. files = whole + Digits(rest)
    BY <1>8 DEF DefaultFiles, whole, q
  <2> HIDE DEF files
  <2>2. files \in Nat /\ files # 0
    <3>1. whole # 0 \/ rest # 0
      BY <1>3, <1>8
    <3> HIDE DEF rest
    <3> QED
      BY <1>2, <1>3, <1>4, <2>1, <3>1
  <2>3. Lesser(files, whole) = whole
    BY <1>2, <1>4, <2>1 DEF Lesser
  <2>4. rest <= (files - whole) * cap /\ ~(whole = files /\ rest > 0)
    <3> HIDE DEF rest
    <3>1. files - whole = Digits(rest)
      BY <1>2, <1>4, <2>1
    <3> DEFINE d == Digits(rest)
    <3>2. rest <= d * cap
      <4>1. CASE rest = 0
        <5>1. d * cap \in Nat
          BY <1>4
        <5> QED
          BY <4>1, <5>1
      <4>2. CASE rest = 1
        <5>1. d >= 1 /\ d \in Nat
          BY <1>4, <4>2
        <5> HIDE DEF d
        <5>2. d * cap >= cap
          BY <5>1
        <5> QED
          BY <4>2, <5>1, <5>2
      <4>3. CASE rest > 1
        <5>1. d >= 2 /\ d \in Nat
          BY <1>4, <4>3
        <5> HIDE DEF d
        <5>2. d * cap >= 2 * cap
          BY <5>1
        <5> QED
          BY <1>3, <5>1, <5>2
      <4> QED
        BY <1>3, <4>1, <4>2, <4>3
    <3>3. whole = files => rest = 0
      BY <1>2, <1>4, <3>1
    <3> QED
      BY <1>3, <3>1, <3>2, <3>3
  <2>5. whole \in 0..files
    BY <1>2, <1>4, <2>1
  <2> QED
    BY <1>3, <1>8, <2>2, <2>3, <2>4, <2>5 DEF files, whole, q
<1> QED
  BY <1>6, <1>7, <1>8

\* So many volumes of the same number of slices.
Alike(n, cap) == [k \in 1..n |-> cap]

LEMMA SameCounts ==
  ASSUME NEW n \in Nat, NEW cap \in Nat
  PROVE  /\ Alike(n, cap) \in Seq(Nat) /\ Len(Alike(n, cap)) = n
         /\ Total(Alike(n, cap)) = n * cap
<1> DEFINE s == Alike(n, cap)
<1>1. s \in Seq(Nat) /\ Len(s) = n /\ \A k \in 1..n : s[k] = cap
  BY DEF Alike
<1> HIDE DEF s
<1> DEFINE S == {k \in Nat : k <= n => SumTo(s, k) = k * cap}
<1>2. 0 \in S
  BY SumToSteps
<1>3. ASSUME NEW k \in Nat, k \in S PROVE k + 1 \in S
  <2> SUFFICES ASSUME k + 1 <= n PROVE SumTo(s, k + 1) = (k + 1) * cap
    OBVIOUS
  <2>1. SumTo(s, k) = k * cap /\ s[k + 1] = cap
    BY <1>1, <1>3
  <2>2. SumTo(s, k + 1) = SumTo(s, k) + s[k + 1]
    BY SumToSteps
  <2>3. (k + 1) * cap = k * cap + cap
    OBVIOUS
  <2> QED
    BY <2>1, <2>2, <2>3
<1>4. \A k \in Nat : k \in S
  <2> HIDE DEF S
  <2> QED
    BY <1>2, <1>3, EveryNumber
<1>5. Total(s) = n * cap
  BY <1>1, <1>4 DEF Total
<1> QED
  BY <1>1, <1>5 DEF s

\* One sequence behind the other.
LEMMA BothAre ==
  ASSUME NEW s \in Seq(Nat), NEW t \in Seq(Nat)
  PROVE  /\ s \o t \in Seq(Nat) /\ Len(s \o t) = Len(s) + Len(t)
         /\ \A k \in 1..Len(s) : (s \o t)[k] = s[k]
         /\ \A k \in 1..Len(t) : (s \o t)[Len(s) + k] = t[k]
  OBVIOUS

\* The volumes hold so many slices each, from the first exponent on.
AreVolumes(counts, volumes, files, count, first) ==
  /\ counts \in Seq(Nat) /\ Len(counts) = files /\ Total(counts) = count
  /\ volumes = Placed(first, counts)
AreAtMost(counts, cap) == \A k \in DOMAIN counts : counts[k] <= cap

\* First a doubling series, then full volumes.
LEMMA FullBehind ==
  ASSUME NEW n \in Nat, NEW full \in Nat, NEW rest \in Nat, NEW first \in Nat,
         NEW cap \in Nat \ {0}, rest <= n * cap
  PROVE  \E counts : /\ AreVolumes(counts,
                                    Placed(first, Bottom(n, rest, cap))
                                      \o Placed(first + rest, Alike(full, cap)),
                                    n + full, rest + full * cap, first)
                     /\ AreAtMost(counts, cap)
<1> DEFINE s == Bottom(n, rest, cap)
           t == Alike(full, cap)
           u == s \o t
<1>1. /\ s \in Seq(Nat) /\ Len(s) = n /\ Total(s) = rest
      /\ \A k \in 1..n : s[k] <= cap
  BY BottomIs
<1>2. t \in Seq(Nat) /\ Len(t) = full /\ Total(t) = full * cap
  BY SameCounts
<1>3. \A k \in 1..full : t[k] = cap
  BY DEF Alike
<1> HIDE DEF s, t
<1>4. Placed(first, s) \o Placed(first + rest, t) = Placed(first, u)
  <2>1. s \in Seq(Nat) /\ t \in Seq(Nat)
    BY <1>1, <1>2
  <2>2. Placed(first, s) \o Placed(first + Total(s), t) = Placed(first, s \o t)
    BY <2>1, PlacedBoth
  <2>3. first + Total(s) = first + rest
    BY <1>1
  <2> QED
    BY <2>2, <2>3, Zenon
<1>5. /\ u \in Seq(Nat) /\ Len(u) = n + full
      /\ \A k \in 1..n : u[k] = s[k]
      /\ \A k \in 1..full : u[n + k] = t[k]
  <2>1. s \in Seq(Nat) /\ t \in Seq(Nat) /\ Len(s) = n /\ Len(t) = full
    BY <1>1, <1>2
  <2>2. /\ u \in Seq(Nat) /\ Len(u) = Len(s) + Len(t)
        /\ \A k \in 1..Len(s) : u[k] = s[k]
        /\ \A k \in 1..Len(t) : u[Len(s) + k] = t[k]
    BY <2>1, BothAre
  <2> HIDE DEF u
  <2> QED
    BY <2>1, <2>2
<1>6. SumTo(u, n + full) = rest + full * cap
  <2>1. full \in 0..Len(t)
    BY <1>2
  <2>2. SumTo(u, Len(s) + full) = Total(s) + SumTo(t, full)
    BY <1>1, <1>2, <2>1, SumsOfBoth
  <2>3. SumTo(t, full) = full * cap
    BY <1>2 DEF Total
  <2> HIDE DEF u
  <2> QED
    BY <1>1, <2>2, <2>3
<1> HIDE DEF u
<1>7. Total(u) = rest + full * cap
  BY <1>5, <1>6 DEF Total
<1>8. ASSUME NEW k \in 1..(n + full) PROVE u[k] <= cap
  <2>1. CASE k \in 1..n
    BY <1>1, <1>5, <2>1
  <2>2. CASE k \notin 1..n
    <3> DEFINE j == k - n
    <3>1. j \in 1..full /\ k = n + j
      BY <2>2
    <3> HIDE DEF j
    <3>2. u[k] = cap
      BY <1>3, <1>5, <3>1
    <3> QED
      BY <3>2
  <2> QED
    BY <2>1, <2>2
<1>9. AreVolumes(u, Placed(first, s) \o Placed(first + rest, t), n + full,
                 rest + full * cap, first)
  <2> DEFINE p == full * cap
  <2>1. u \in Seq(Nat) /\ Len(u) = n + full /\ Total(u) = rest + p
    BY <1>5, <1>7
  <2> HIDE DEF p
  <2>2. AreVolumes(u, Placed(first, s) \o Placed(first + rest, t), n + full,
                   rest + p, first)
    BY <1>4, <2>1, Zenon DEF AreVolumes
  <2> QED
    BY <2>2 DEF p
<1>10. AreAtMost(u, cap)
  BY <1>5, <1>8 DEF AreAtMost
<1> QED
  BY <1>9, <1>10, Zenon DEF s, t

\* The limited scheme with enough volumes.
LEMMA LimitedIsAll ==
  ASSUME NEW files \in Nat, NEW count \in Nat, NEW first \in Nat,
         NEW cap \in Nat \ {0},
         NEW full, full = Lesser(files, Greater(0, count \div cap - 1)),
         NEW rest, rest = count - full * cap,
         full \in 0..files, rest \in Nat, rest <= (files - full) * cap,
         ~(full = files /\ rest > 0)
  PROVE  \E counts : /\ AreVolumes(counts,
                                    LimitedVolumes(files, count, first, cap),
                                    files, count, first)
                     /\ AreAtMost(counts, cap)
<1>1. LimitedVolumes(files, count, first, cap)
        = Placed(first, Bottom(files - full, rest, cap))
            \o Placed(first + rest, Alike(full, cap))
  BY DEF LimitedVolumes, Alike
<1> DEFINE n == files - full
           p == full * cap
<1>2. n \in Nat /\ full \in Nat /\ files = n + full /\ rest <= n * cap
  OBVIOUS
<1>3. p \in Nat /\ count = rest + p
  <2>1. p \in Nat /\ rest = count - p
    BY <1>2
  <2> HIDE DEF p
  <2> QED
    BY <2>1
<1> HIDE DEF n, p
<1>4. \E counts : /\ AreVolumes(counts,
                                 Placed(first, Bottom(n, rest, cap))
                                   \o Placed(first + rest, Alike(full, cap)),
                                 n + full, rest + full * cap, first)
                  /\ AreAtMost(counts, cap)
  BY <1>2, FullBehind, Zenon
<1>5. n + full = files /\ rest + full * cap = count
  BY <1>2, <1>3 DEF p
<1> QED
  BY <1>1, <1>4, <1>5, Zenon DEF n

\* The volumes of a uniform plan hold as many slices as each other, up to one.
AreEven(counts) ==
  \A j, k \in DOMAIN counts : Distance(counts[j], counts[k]) <= 1

LEMMA UniformIsEven ==
  ASSUME NEW files \in Nat, NEW count \in Nat, files # 0 \/ count = 0
  PROVE  /\ UniformCounts(files, count) \in Seq(Nat)
         /\ Len(UniformCounts(files, count)) = files
         /\ Total(UniformCounts(files, count)) = count
         /\ AreEven(UniformCounts(files, count))
<1> DEFINE s == UniformCounts(files, count)
           q == count \div files
           r == count % files
<1>1. CASE files = 0
  <2>1. s = <<>> /\ count = 0
    BY <1>1 DEF UniformCounts
  <2> HIDE DEF s
  <2>2. s \in Seq(Nat) /\ Len(s) = 0 /\ Total(s) = 0 /\ AreEven(s)
    BY <2>1, SumToSteps DEF Total, AreEven
  <2> QED
    BY <1>1, <2>1, <2>2 DEF s
<1>2. CASE files # 0
  <2>1. s \in Seq(Nat) /\ Total(s) = count
    BY <1>2, SharesAreAll
  <2>2. q \in Nat /\ s = [k \in 1..files |-> q + (IF k <= r THEN 1 ELSE 0)]
    BY <1>2 DEF UniformCounts
  <2> HIDE DEF s, q, r
  <2>3. /\ Len(s) = files /\ DOMAIN s = 1..files
        /\ \A k \in 1..files : s[k] = q \/ s[k] = q + 1
    BY <2>2
  <2>4. AreEven(s)
    BY <2>2, <2>3 DEF AreEven, Distance
  <2> QED
    BY <2>1, <2>3, <2>4 DEF s
<1> QED
  BY <1>1, <1>2

\* Whatever the scheme, the volumes are as many as they should be and hold all
\* slices (plan_recovery_files, allocate_recovery_blocks).
THEOREM VolumesAre ==
  ASSUME NEW scheme \in {"uniform", "variable", "limited"}, NEW files \in Nat,
         NEW count \in Nat, NEW first \in Nat, NEW cap \in Nat \ {0},
         files # 0 \/ count = 0,
         scheme = "limited" => files = DefaultFiles(scheme, count, cap)
  PROVE  \E counts :
           /\ AreVolumes(counts, Volumes(scheme, files, count, first, cap),
                         files, count, first)
           /\ scheme = "uniform" => AreEven(counts)
           /\ scheme = "limited" => AreAtMost(counts, cap)
<1> DEFINE all == Volumes(scheme, files, count, first, cap)
<1>1. CASE scheme = "uniform"
  <2> DEFINE s == UniformCounts(files, count)
  <2>1. all = Placed(first, s)
    BY <1>1 DEF Volumes
  <2>2. AreVolumes(s, all, files, count, first) /\ AreEven(s)
    BY <2>1, UniformIsEven DEF AreVolumes
  <2> HIDE DEF s, all
  <2> QED
    BY <1>1, <2>2 DEF all
<1>2. CASE scheme = "variable"
  <2> DEFINE s == VariableCounts(files, count)
  <2>1. all = Placed(first, s)
    BY <1>2 DEF Volumes
  <2>2. AreVolumes(s, all, files, count, first)
    BY <2>1, SeriesIsAll DEF AreVolumes
  <2> HIDE DEF s, all
  <2> QED
    BY <1>2, <2>2 DEF all
<1>3. CASE scheme = "limited"
  <2>1. all = LimitedVolumes(files, count, first, cap)
    BY <1>3 DEF Volumes, Greater
  <2> DEFINE full == Lesser(files, Greater(0, count \div cap - 1))
             rest == count - full * cap
  <2>2. /\ full \in 0..files /\ rest \in Nat /\ rest <= (files - full) * cap
        /\ ~(full = files /\ rest > 0)
    BY <1>3, DefaultFilesAre
  <2>3. full = Lesser(files, Greater(0, count \div cap - 1)) /\ rest = count - full * cap
    OBVIOUS
  <2> HIDE DEF full, rest, all
  <2>4. \E counts : /\ AreVolumes(counts, LimitedVolumes(files, count, first, cap),
                                  files, count, first)
                    /\ AreAtMost(counts, cap)
    BY <2>2, <2>3, LimitedIsAll
  <2> QED
    BY <1>3, <2>1, <2>4 DEF all
<1> QED
  BY <1>1, <1>2, <1>3

-----------------------------------------------------------------------------
(* Number of slices *)

\* Slices by size fit, unless it is the one there always is.
LEMMA SlicesWithAre ==
  ASSUME NEW volumes \in Nat, NEW target \in Nat, NEW blocks \in Nat,
         NEW block \in Nat \ {0}
  PROVE  LET n == SlicesWith(volumes, target, blocks, block)
         IN  n \in Nat /\ n >= 1 /\ (n > 1 => n * 4 * block <= target)
<1> DEFINE overhead == volumes * 21 * blocks
           d == 4 * block + 70
           x == (target - overhead) \div d
<1>1. overhead \in Nat /\ d \in Nat \ {0}
  OBVIOUS
<1> HIDE DEF overhead, d
<1>2. x \in Int /\ d * x <= target - overhead
  BY <1>1
<1> HIDE DEF x
<1>3. x > 1 => x * 4 * block <= target
  <2> SUFFICES ASSUME x > 1 PROVE x * 4 * block <= target
    OBVIOUS
  <2>1. d * x = 4 * block * x + 70 * x /\ 4 * block * x = x * 4 * block
        /\ 4 * block * x \in Nat
    BY <1>2 DEF d
  <2> DEFINE p == 4 * block * x
             z == d * x
  <2> HIDE DEF p, z
  <2>2. z = p + 70 * x /\ x * 4 * block = p /\ z <= target - overhead
    BY <1>2, <2>1 DEF p, z
  <2>3. p \in Nat
    BY <2>1 DEF p
  <2> QED
    BY <1>1, <1>2, <2>2, <2>3
<1>4. SlicesWith(volumes, target, blocks, block) = Greater(1, x)
  BY DEF SlicesWith, x, d, overhead
<1>5. Greater(1, x) = IF x > 1 THEN x ELSE 1
  BY <1>2 DEF Greater
<1> QED
  BY <1>2, <1>3, <1>4, <1>5

\* No number comes nearer to so many percent.
IsNearest(n, p) ==
  \A k \in Nat : Distance(100 * n, p) <= Distance(100 * k, p)

LEMMA SlicesForPercentAre ==
  ASSUME NEW percent \in Nat, NEW blocks \in Nat
  PROVE  LET n == SlicesForPercent(percent, blocks)
         IN  n \in Nat /\ n >= 1 /\ (n > 1 => IsNearest(n, percent * blocks))
<1> DEFINE p == percent * blocks
           n == Greater(1, (p + 50) \div 100)
<1>1. p \in Nat /\ blocks * percent = p
  OBVIOUS
<1>2. n = SlicesForPercent(percent, blocks)
  BY <1>1 DEF SlicesForPercent
<1> HIDE DEF p
<1> DEFINE x == (p + 50) \div 100
<1>3. x \in Nat /\ 100 * x <= p + 50 /\ p + 50 < 100 * x + 100
  BY <1>1
<1> HIDE DEF x
<1>4. n = Greater(1, x)
  BY DEF x
<1> HIDE DEF n
<1>5. n \in Nat /\ n >= 1 /\ (n > 1 => n = x)
  BY <1>3, <1>4 DEF Greater
<1>6. ASSUME n > 1, NEW k \in Nat PROVE Distance(100 * n, p) <= Distance(100 * k, p)
  <2>1. n = x
    BY <1>5, <1>6
  <2>2. k = x \/ k >= x + 1 \/ x >= k + 1
    BY <1>3
  <2> QED
    BY <1>1, <1>3, <2>1, <2>2 DEF Distance
<1> QED
  BY <1>2, <1>5, <1>6 DEF p, IsNearest

\* What decides the number of slices.
Requests == [kind : {"count", "percent", "size"}, n : Nat]

\* The number of slices asked for (calculate_recovery_blocks).
LEMMA RecoveryIs ==
  ASSUME NEW request \in Requests, NEW files \in Nat, NEW scheme,
         NEW sizes \in Seq(Nat), NEW block \in Nat \ {0},
         CeilDiv(Largest(sizes), block) \in Nat \ {0}
  PROVE  LET n == RecoverySlices(request, files, scheme, sizes, block)
             blocks == BlocksOf(sizes, block)
         IN  /\ n \in Nat
             /\ request.kind = "count" => n = request.n
             /\ request.kind # "count" => n >= 1
             /\ request.kind = "size" /\ n > 1 => n * 4 * block <= request.n
             /\ request.kind = "percent" /\ n > 1 =>
                  IsNearest(n, request.n * blocks)
<1> DEFINE n == RecoverySlices(request, files, scheme, sizes, block)
           blocks == BlocksOf(sizes, block)
           asked == request.n
           cap == CeilDiv(Largest(sizes), block)
<1>1. blocks \in Nat /\ asked \in Nat /\ request.kind \in {"count", "percent", "size"}
  BY BlocksBound DEF Requests
<1>2. /\ request.kind = "count" => n = asked
      /\ request.kind = "percent" => n = SlicesForPercent(asked, blocks)
      /\ request.kind = "size" =>
           n = SlicesForSize(asked, files, scheme, blocks, block, cap)
  BY DEF RecoverySlices
<1> HIDE DEF n, blocks, asked, cap
<1>3. CASE request.kind = "count"
  BY <1>1, <1>2, <1>3 DEF n, blocks, asked
<1>4. CASE request.kind = "percent"
  <2>1. n \in Nat /\ n >= 1 /\ (n > 1 => IsNearest(n, asked * blocks))
    BY <1>1, <1>2, <1>4, SlicesForPercentAre
  <2> QED
    BY <1>4, <2>1 DEF n, blocks, asked
<1>5. CASE request.kind = "size"
  <2> DEFINE estimated == SlicesWith(15, asked, blocks, block)
             volumes == IF files > 0 THEN files
                        ELSE DefaultFiles(scheme, estimated, cap)
  <2>1. estimated \in Nat
    BY <1>1, SlicesWithAre
  <2> HIDE DEF estimated
  <2>2. cap \in Nat \ {0}
    BY DEF cap
  <2>3. volumes \in Nat
    BY <2>1, <2>2, DefaultFilesAre
  <2>4. n = SlicesWith(volumes, asked, blocks, block)
    BY <1>2, <1>5 DEF SlicesForSize, estimated
  <2> HIDE DEF volumes
  <2>5. n \in Nat /\ n >= 1 /\ (n > 1 => n * 4 * block <= asked)
    BY <1>1, <2>3, <2>4, SlicesWithAre
  <2> QED
    BY <1>5, <2>5 DEF n, blocks, asked
<1> QED
  BY <1>1, <1>3, <1>4, <1>5

-----------------------------------------------------------------------------
(* The job of a command line *)

\* The value of an option.
LEMMA OptionIs ==
  ASSUME NEW S, NEW option \in Option(S)
  PROVE  /\ Given(option) => option[1] \in S
         /\ ~Given(option) => option = <<>>
         /\ \A default : ValueOr(option, default) =
                           IF Given(option) THEN option[1] ELSE default
BY DEF Option, Given, ValueOr

\* A size in bytes, when there is one.
LEMMA BytesAre ==
  ASSUME NEW n \in Nat, NEW factor \in Nat, Given(Bytes(n, factor))
  PROVE  Bytes(n, factor)[1] = n * factor /\ n * factor \in Nat
BY DEF Bytes, Given

\* The units of sizes.
LEMMA FactorIs ==
  /\ DOMAIN Factor = {"k", "m", "g"}
  /\ \A u \in DOMAIN Factor : Factor[u] \in Nat
  /\ Factor.m = Kilo * Kilo
<1>1. Kilo \in Nat /\ Kilo * Kilo \in Nat /\ Kilo * Kilo * Kilo \in Nat
  BY CommandLineAssumption
<1> DEFINE x == Kilo * Kilo
           y == Kilo * Kilo * Kilo
<1>2. Factor = [k |-> Kilo, m |-> x, g |-> y]
  BY DEF Factor
<1> HIDE DEF x, y
<1>3. /\ DOMAIN Factor = {"k", "m", "g"} /\ Factor["k"] = Kilo
      /\ Factor["m"] = x /\ Factor["g"] = y
  BY <1>2
<1> QED
  BY <1>1, <1>3 DEF x, y

\* What the redundancy asks for.
RedundancyRequest(r) ==
  IF r.unit \in DOMAIN Factor
  THEN [kind |-> "size", n |-> r.number[1] * Factor[r.unit]]
  ELSE [kind |-> "percent", n |-> r.number[1]]

LEMMA RedundancyIs ==
  ASSUME NEW r \in Redundancy, Given(ParseRedundancy(r))
  PROVE  /\ ParseRedundancy(r)[1] = RedundancyRequest(r)
         /\ RedundancyRequest(r) \in Requests
<1>1. Given(r.number) /\ r.number[1] \in Nat
  BY OptionIs DEF Redundancy, ParseRedundancy, Given
<1> DEFINE n == r.number[1]
           size == Bytes(n, Factor[r.unit])
<1>2. CASE r.unit \in DOMAIN Factor
  <2>1. ParseRedundancy(r) = IF Given(size) THEN <<[kind |-> "size", n |-> size[1]]>>
                             ELSE <<>>
    BY <1>1, <1>2 DEF ParseRedundancy
  <2>2. Given(size)
    <3> HIDE DEF size
    <3> QED
      BY <2>1 DEF Given
  <2>3. size[1] = n * Factor[r.unit] /\ n * Factor[r.unit] \in Nat
    BY <1>1, <1>2, <2>2, FactorIs, BytesAre
  <2>4. RedundancyRequest(r) = [kind |-> "size", n |-> n * Factor[r.unit]]
    BY <1>2 DEF RedundancyRequest
  <2> DEFINE m == n * Factor[r.unit]
  <2> HIDE DEF size, m
  <2>5. ParseRedundancy(r)[1] = [kind |-> "size", n |-> m]
    BY <2>1, <2>2, <2>3 DEF m
  <2>6. m \in Nat
    BY <2>3 DEF m
  <2>7. [kind |-> "size", n |-> m] \in Requests
    BY <2>6 DEF Requests
  <2> QED
    BY <2>4, <2>5, <2>7 DEF m
<1>3. CASE r.unit \notin DOMAIN Factor
  <2>1. ParseRedundancy(r) = <<[kind |-> "percent", n |-> n]>>
    BY <1>1, <1>3 DEF ParseRedundancy
  <2>2. RedundancyRequest(r) = [kind |-> "percent", n |-> n]
    BY <1>3 DEF RedundancyRequest
  <2> HIDE DEF n
  <2>3. ParseRedundancy(r)[1] = [kind |-> "percent", n |-> n]
    BY <2>1
  <2>4. n \in Nat
    BY <1>1 DEF n
  <2>5. [kind |-> "percent", n |-> n] \in Requests
    BY <2>4 DEF Requests
  <2> QED
    BY <2>2, <2>3, <2>5
<1> QED
  BY <1>2, <1>3

\* The fields of a configuration.
ConfigFields ==
  {"blockSize", "blockCount", "recoveryCount", "percent", "targetSize",
   "scheme", "files", "memory", "overwrite", "first"}

\* The configuration asks for this when no number of slices is given.
Asks(config, request) ==
  \/ /\ request.kind = "size" /\ config.targetSize = <<request.n>>
  \/ /\ request.kind = "percent" /\ config.targetSize = <<>>
     /\ config.percent = <<request.n>>

LEMMA DefaultAsks ==
  DOMAIN DefaultConfig = ConfigFields
    /\ Asks(DefaultConfig, [kind |-> "percent", n |-> 5])
BY DEF DefaultConfig, ConfigFields, Asks

\* A redundancy takes the place of the five percent.
LEMMA RedundancyAsks ==
  ASSUME NEW r \in Requests, r.kind # "count"
  PROVE  LET c == WithRedundancy(DefaultConfig, r)
         IN  DOMAIN c = ConfigFields /\ Asks(c, r)
<1> DEFINE d == DefaultConfig
           c == WithRedundancy(d, r)
<1>1. DOMAIN d = ConfigFields
  BY DefaultAsks
<1> HIDE DEF d
<1>2. CASE r.kind = "size"
  <2>1. c = [d EXCEPT !.targetSize = <<r.n>>, !.percent = <<>>]
    BY <1>2 DEF WithRedundancy
  <2> HIDE DEF c
  <2>2. DOMAIN c = ConfigFields /\ c.targetSize = <<r.n>>
    BY <1>1, <2>1 DEF ConfigFields
  <2> QED
    BY <1>2, <2>2 DEF Asks, c, d
<1>3. CASE r.kind = "percent"
  <2>1. c = [d EXCEPT !.percent = <<r.n>>, !.targetSize = <<>>]
    BY <1>3 DEF WithRedundancy
  <2> HIDE DEF c
  <2>2. DOMAIN c = ConfigFields /\ c.targetSize = <<>> /\ c.percent = <<r.n>>
    BY <1>1, <2>1 DEF ConfigFields
  <2> QED
    BY <1>3, <2>2 DEF Asks, c, d
<1> QED
  BY <1>2, <1>3 DEF Requests

\* The request of a command line that gives no number of slices.
AmountRequest(o) ==
  IF Given(o.redundancy) THEN RedundancyRequest(o.redundancy[1])
  ELSE [kind |-> "percent", n |-> 5]

LEMMA ConfigIs ==
  ASSUME NEW o \in Options, ValuesParse(o)
  PROVE  LET config == Config(o)
         IN  /\ config.blockSize = o.blockSize
             /\ config.blockCount = o.blockCount
             /\ config.recoveryCount = o.recoveryCount
             /\ config.files = o.files /\ config.scheme = Scheme(o)
             /\ config.first = ValueOr(o.first, 0)
             /\ config.memory = IF Given(o.memory) THEN ParseMemory(o.memory[1])
                                ELSE <<>>
             /\ Asks(config, AmountRequest(o)) /\ AmountRequest(o) \in Requests
<1> DEFINE amount == IF Given(o.redundancy)
                     THEN WithRedundancy(DefaultConfig,
                                         ParseRedundancy(o.redundancy[1])[1])
                     ELSE DefaultConfig
           config == Config(o)
<1>1. /\ DOMAIN amount = ConfigFields /\ Asks(amount, AmountRequest(o))
      /\ AmountRequest(o) \in Requests
  <2>1. CASE Given(o.redundancy)
    <3> DEFINE r == o.redundancy[1]
    <3>1. r \in Redundancy /\ Given(ParseRedundancy(r))
      BY <2>1, OptionIs DEF Options, ValuesParse
    <3>2. /\ ParseRedundancy(r)[1] = RedundancyRequest(r)
          /\ RedundancyRequest(r) \in Requests
      BY <3>1, RedundancyIs
    <3>3. RedundancyRequest(r).kind # "count"
      BY DEF RedundancyRequest
    <3>4. amount = WithRedundancy(DefaultConfig, RedundancyRequest(r))
      BY <2>1, <3>2
    <3>5. AmountRequest(o) = RedundancyRequest(r)
      BY <2>1 DEF AmountRequest
    <3> HIDE DEF amount, r
    <3> QED
      BY <3>2, <3>3, <3>4, <3>5, RedundancyAsks
  <2>2. CASE ~Given(o.redundancy)
    <3>1. amount = DefaultConfig /\ AmountRequest(o) = [kind |-> "percent", n |-> 5]
      BY <2>2 DEF AmountRequest
    <3>2. [kind |-> "percent", n |-> 5] \in Requests
      BY DEF Requests
    <3> HIDE DEF amount
    <3> QED
      BY <3>1, <3>2, DefaultAsks
  <2> QED
    BY <2>1, <2>2
<1> DEFINE memory == IF Given(o.memory) THEN ParseMemory(o.memory[1]) ELSE <<>>
           scheme == Scheme(o)
           first == ValueOr(o.first, 0)
<1>2. config = [amount EXCEPT
                  !.blockSize = o.blockSize, !.blockCount = o.blockCount,
                  !.recoveryCount = o.recoveryCount, !.files = o.files,
                  !.scheme = scheme, !.overwrite = o.overwrite,
                  !.first = first, !.memory = memory]
  BY DEF Config
<1> HIDE DEF amount, config, memory, scheme, first
<1>3. /\ config.blockSize = o.blockSize /\ config.blockCount = o.blockCount
      /\ config.recoveryCount = o.recoveryCount /\ config.files = o.files
      /\ config.scheme = scheme /\ config.first = first /\ config.memory = memory
      /\ config.targetSize = amount.targetSize /\ config.percent = amount.percent
  BY <1>1, <1>2 DEF ConfigFields
<1>4. Asks(config, AmountRequest(o))
  BY <1>1, <1>3 DEF Asks
<1> QED
  BY <1>1, <1>3, <1>4 DEF config, memory, scheme, first

\* What is known of the job of a command line that is accepted.
JobIsOf(j, o) ==
  /\ j.asked = o /\ j.sizes \in Seq(Nat \cup {Missing})
  /\ IF Given(o.blockSize)
     THEN j.target = 0 /\ j.block \in Nat \ {0} /\ 4 * j.block = o.blockSize[1]
     ELSE j.target = ValueOr(o.blockCount, DefaultBlocks) /\ j.target \in Nat \ {0}
  /\ j.request \in Requests
  /\ IF Given(o.recoveryCount)
     THEN j.request = [kind |-> "count", n |-> o.recoveryCount[1]]
     ELSE j.request = AmountRequest(o)
  /\ j.first = ValueOr(o.first, 0) /\ j.first \in Nat
  /\ j.files \in Nat /\ (Given(o.files) => j.files = o.files[1] /\ j.files # 0)
  /\ j.scheme \in {"uniform", "variable", "limited"}
  /\ o.limited <=> j.scheme = "limited"
  /\ o.limited => j.files = 0
  /\ o.uniform \/ Given(o.files) => j.scheme = "uniform"
  /\ j.memory \in Nat
  /\ Given(o.memory) =>
       o.memory[1] \in Nat /\ j.memory = o.memory[1] * (Kilo * Kilo)

LEMMA JobIs ==
  ASSUME NEW o \in Options, IsAccepted(o)
  PROVE  JobIsOf(JobOf(o), o)
<1> DEFINE j == JobOf(o)
           config == Config(o)
<1>1. ~Conflict(o) /\ ValuesParse(o) /\ IsValid(config)
  BY DEF IsAccepted
<1>2. /\ config.blockSize = o.blockSize /\ config.blockCount = o.blockCount
      /\ config.recoveryCount = o.recoveryCount
      /\ config.files = o.files /\ config.scheme = Scheme(o)
      /\ config.first = ValueOr(o.first, 0)
      /\ config.memory = IF Given(o.memory) THEN ParseMemory(o.memory[1]) ELSE <<>>
      /\ Asks(config, AmountRequest(o)) /\ AmountRequest(o) \in Requests
  BY <1>1, ConfigIs
<1>3. j = Job(o, config)
  BY DEF JobOf
<1> HIDE DEF config
<1>4. /\ j.asked = o /\ j.sizes = Sources(o) /\ j.request = Request(config)
      /\ j.target = (IF Given(config.blockSize) THEN 0
                     ELSE ValueOr(config.blockCount, DefaultBlocks))
      /\ j.block = ValueOr(config.blockSize, 0) \div 4
      /\ j.first = config.first /\ j.files = ValueOr(config.files, 0)
      /\ j.scheme = config.scheme
      /\ j.memory = ValueOr(config.memory, DefaultMemory)
  BY <1>3 DEF Job
<1> HIDE DEF j
<1>5. /\ o.blockSize \in Option(Nat) /\ o.blockCount \in Option(Nat)
      /\ o.recoveryCount \in Option(Nat) /\ o.first \in Option(Nat)
      /\ o.files \in Option(Nat) /\ o.memory \in Option(Nat)
      /\ o.uniform \in BOOLEAN /\ o.limited \in BOOLEAN
      /\ o.sources \in Seq(Nat \cup {Missing})
      /\ o.named.size \in Nat \cup {Missing}
  BY DEF Options
<1>6. j.sizes \in Seq(Nat \cup {Missing})
  <2> DEFINE size == o.named.size
  <2> HIDE DEF size
  <2>1. <<size>> \in Seq(Nat \cup {Missing})
    BY <1>5 DEF size
  <2> QED
    BY <1>4, <1>5, <2>1 DEF Sources, size
<1>7. IF Given(o.blockSize)
      THEN j.target = 0 /\ j.block \in Nat \ {0} /\ 4 * j.block = o.blockSize[1]
      ELSE j.target = ValueOr(o.blockCount, DefaultBlocks) /\ j.target \in Nat \ {0}
  <2>1. CASE Given(o.blockSize)
    <3> DEFINE n == o.blockSize[1]
    <3>1. n \in Nat /\ n >= 1 /\ n % 4 = 0
      BY <1>1, <1>2, <1>5, <2>1, OptionIs DEF IsValid
    <3>2. j.target = 0 /\ j.block = n \div 4
      BY <1>2, <1>4, <2>1 DEF ValueOr
    <3> HIDE DEF n
    <3>3. n \div 4 \in Nat \ {0} /\ 4 * (n \div 4) = n
      BY <3>1
    <3> QED
      BY <2>1, <3>2, <3>3 DEF n
  <2>2. CASE ~Given(o.blockSize)
    <3>1. j.target = ValueOr(o.blockCount, DefaultBlocks)
      BY <1>2, <1>4, <2>2
    <3>2. CASE Given(o.blockCount)
      <4>1. o.blockCount[1] \in 1..MaxBlocks
        BY <1>1, <1>2, <3>2 DEF IsValid
      <4> QED
        BY <2>2, <3>1, <3>2, <4>1, CommandLineAssumption DEF ValueOr
    <3>3. CASE ~Given(o.blockCount)
      BY <2>2, <3>1, <3>3, CommandLineAssumption DEF ValueOr
    <3> QED
      BY <3>2, <3>3
  <2> QED
    BY <2>1, <2>2
<1>8. /\ j.request \in Requests
      /\ IF Given(o.recoveryCount)
         THEN j.request = [kind |-> "count", n |-> o.recoveryCount[1]]
         ELSE j.request = AmountRequest(o)
  <2>1. CASE Given(o.recoveryCount)
    <3> DEFINE n == o.recoveryCount[1]
    <3>1. j.request = [kind |-> "count", n |-> n]
      BY <1>2, <1>4, <2>1 DEF Request
    <3>2. n \in Nat
      BY <1>5, <2>1, OptionIs
    <3> HIDE DEF n
    <3>3. [kind |-> "count", n |-> n] \in Requests
      BY <3>2 DEF Requests
    <3> QED
      BY <2>1, <3>1, <3>3 DEF n
  <2>2. CASE ~Given(o.recoveryCount)
    <3> DEFINE r == AmountRequest(o)
    <3>1. r \in Requests /\ Asks(config, r)
      BY <1>2
    <3> HIDE DEF r
    <3>2. j.request = IF Given(config.targetSize)
                      THEN [kind |-> "size", n |-> config.targetSize[1]]
                      ELSE [kind |-> "percent", n |-> config.percent[1]]
      BY <1>2, <1>4, <2>2 DEF Request
    <3>3. r = [kind |-> r.kind, n |-> r.n]
      BY <3>1 DEF Requests
    <3>4. ASSUME r.kind = "size" /\ config.targetSize = <<r.n>> PROVE j.request = r
      <4>1. config.targetSize # <<>> /\ config.targetSize[1] = r.n
        BY <3>4
      <4> QED
        BY <3>2, <3>3, <3>4, <4>1 DEF Given
    <3>5. ASSUME /\ r.kind = "percent" /\ config.targetSize = <<>>
                 /\ config.percent = <<r.n>>
          PROVE  j.request = r
      <4>1. config.percent[1] = r.n
        BY <3>5
      <4> QED
        BY <3>2, <3>3, <3>5, <4>1 DEF Given
    <3>6. j.request = r
      <4>1. \/ /\ r.kind = "size" /\ config.targetSize = <<r.n>>
            \/ /\ r.kind = "percent" /\ config.targetSize = <<>>
               /\ config.percent = <<r.n>>
        BY <3>1, Zenon DEF Asks
      <4> QED
        BY <3>4, <3>5, <4>1
    <3> QED
      BY <2>2, <3>1, <3>6 DEF r
  <2> QED
    BY <2>1, <2>2
<1>9. j.first = ValueOr(o.first, 0) /\ j.first \in Nat
  BY <1>2, <1>4, <1>5, OptionIs
<1>10. j.files \in Nat /\ (Given(o.files) => j.files = o.files[1] /\ j.files # 0)
  <2>1. Given(o.files) => o.files[1] \in 1..MaxVolumes
    BY <1>1 DEF ValuesParse
  <2> QED
    BY <1>2, <1>4, <1>5, <2>1, OptionIs, CommandLineAssumption
<1>11. /\ j.scheme \in {"uniform", "variable", "limited"}
       /\ o.limited <=> j.scheme = "limited"
       /\ o.limited => j.files = 0
       /\ o.uniform \/ Given(o.files) => j.scheme = "uniform"
  <2>1. o.limited => ~o.uniform /\ ~Given(o.files)
    BY <1>1 DEF Conflict
  <2>2. j.scheme = IF o.limited THEN "limited"
                   ELSE IF o.uniform \/ Given(o.files) THEN "uniform"
                   ELSE "variable"
    BY <1>2, <1>4 DEF Scheme, DefaultConfig
  <2>3. ~Given(o.files) => j.files = 0
    BY <1>2, <1>4 DEF ValueOr
  <2> QED
    BY <2>1, <2>2, <2>3
<1>12. /\ j.memory \in Nat
       /\ Given(o.memory) =>
            o.memory[1] \in Nat /\ j.memory = o.memory[1] * (Kilo * Kilo)
  <2>1. CASE Given(o.memory)
    <3> DEFINE n == o.memory[1]
    <3>1. n \in Nat /\ Given(ParseMemory(n))
      BY <1>1, <1>5, <2>1, OptionIs DEF ValuesParse
    <3>2. ParseMemory(n) = Bytes(n, Factor.m)
      BY <3>1 DEF ParseMemory, Given
    <3>3. Kilo * Kilo \in Nat /\ Factor.m = Kilo * Kilo
      BY FactorIs, CommandLineAssumption
    <3>4. /\ ParseMemory(n)[1] = n * (Kilo * Kilo) /\ n * (Kilo * Kilo) \in Nat
      BY <3>1, <3>2, <3>3, BytesAre
    <3>5. j.memory = ParseMemory(n)[1]
      BY <1>2, <1>4, <2>1, <3>1 DEF ValueOr
    <3> QED
      BY <3>1, <3>4, <3>5
  <2>2. CASE ~Given(o.memory)
    BY <1>2, <1>4, <2>2, CommandLineAssumption DEF ValueOr, Given
  <2> QED
    BY <2>1, <2>2
<1> QED
  BY <1>4, <1>6, <1>7, <1>8, <1>9, <1>10, <1>11, <1>12 DEF JobIsOf, j

-----------------------------------------------------------------------------
(* The plan of a job *)

\* Sources that are all there have a number of cells each.
LEMMA NoneIsMissing ==
  ASSUME NEW sizes \in Seq(Nat \cup {Missing}), Missing \notin ToSet(sizes)
  PROVE  sizes \in Seq(Nat)
<1>1. \A k \in 1..Len(sizes) : sizes[k] \in Nat
  BY DEF ToSet
<1> QED
  BY <1>1

\* One piece of the largest source at least.
LEMMA CapIs ==
  ASSUME NEW sizes \in Seq(Nat \ {0}), sizes # <<>>, NEW block \in Nat \ {0}
  PROVE  CeilDiv(Largest(sizes), block) \in Nat \ {0}
<1> DEFINE n == Largest(sizes)
<1>1. sizes \in Seq(Nat)
  OBVIOUS
<1>2. n \in Nat /\ sizes[1] <= n
  BY <1>1, LargestIs
<1>3. sizes[1] \in Nat \ {0}
  OBVIOUS
<1> HIDE DEF n
<1>4. n # 0
  BY <1>2, <1>3
<1>5. CeilDiv(n, block) \in Nat /\ n <= CeilDiv(n, block) * block
  BY <1>2, PiecesBound
<1> DEFINE q == CeilDiv(n, block)
<1>6. q # 0
  <2> HIDE DEF q
  <2>1. q = 0 => q * block = 0
    OBVIOUS
  <2> QED
    BY <1>2, <1>4, <1>5, <2>1 DEF q
<1> QED
  BY <1>5, <1>6 DEF n

\* What is known of the plan of a job.
PlanOf(plan, j) ==
  /\ plan.sizes \in Seq(Nat \ {0}) /\ plan.sizes # <<>>
  /\ plan.block \in Nat \ {0}
  /\ plan.block = IF j.target = 0 THEN j.block ELSE BlockSize(plan.sizes, j.target)
  /\ plan.recovery \in Nat /\ plan.recovery <= ExponentLimit
  /\ plan.recovery =
       RecoverySlices(j.request, j.files, j.scheme, plan.sizes, plan.block)
  /\ plan.chunk = ChunkSize(plan.block, BlocksOf(plan.sizes, plan.block),
                            plan.recovery, j.memory)
  /\ \E counts :
       /\ AreVolumes(counts, plan.volumes, Len(counts), plan.recovery, j.first)
       /\ j.files # 0 => Len(counts) = j.files
       /\ j.scheme = "uniform" => AreEven(counts)
       /\ j.scheme = "limited" =>
            AreAtMost(counts, CeilDiv(Largest(plan.sizes), plan.block))

LEMMA ContextIs ==
  ASSUME NEW j, NEW o, JobIsOf(j, o), Context(j).valid
  PROVE  PlanOf(Context(j), j)
<1> DEFINE plan == Context(j)
           sizes == WithData(j.sizes)
           block == IF j.target = 0 THEN j.block ELSE BlockSize(sizes, j.target)
           slices == RecoverySlices(j.request, j.files, j.scheme, sizes, block)
           cap == CeilDiv(Largest(sizes), block)
           files == IF j.files > 0 THEN j.files
                    ELSE DefaultFiles(j.scheme, slices, cap)
           chunk == ChunkSize(block, BlocksOf(sizes, block), slices, j.memory)
           volumes == Volumes(j.scheme, files, slices, j.first, cap)
           refused == ~j.accepted \/ Missing \in ToSet(j.sizes) \/ sizes = <<>>
                        \/ block = 0 \/ slices > ExponentLimit
                        \/ j.first + slices >= ExponentLimit
<1>1. plan = IF refused THEN [valid |-> FALSE, sizes |-> sizes]
             ELSE [valid |-> TRUE, sizes |-> sizes, block |-> block,
                   recovery |-> slices, chunk |-> chunk, volumes |-> volumes]
  BY DEF Context
<1>2. ~refused
  <2> HIDE DEF refused, sizes, block, slices, chunk, volumes
  <2>1. refused => ~plan.valid
    BY <1>1
  <2> QED
    BY <2>1
<1>3. /\ plan.sizes = sizes /\ plan.block = block /\ plan.recovery = slices
      /\ plan.chunk = chunk /\ plan.volumes = volumes
  <2> HIDE DEF refused, sizes, block, slices, chunk, volumes, plan
  <2> QED
    BY <1>1, <1>2
<1>4. sizes \in Seq(Nat \ {0}) /\ sizes # <<>>
  <2>1. j.sizes \in Seq(Nat \cup {Missing}) /\ Missing \notin ToSet(j.sizes)
    BY <1>2 DEF JobIsOf
  <2>2. j.sizes \in Seq(Nat)
    BY <2>1, NoneIsMissing
  <2> QED
    BY <1>2, <2>2, DataIsThere
<1> HIDE DEF sizes
<1>5. block \in Nat \ {0}
  <2>1. CASE j.target = 0
    <3>1. j.block \in Nat \ {0}
      BY <2>1 DEF JobIsOf
    <3> QED
      BY <2>1, <3>1
  <2>2. CASE j.target # 0
    <3>1. j.target \in Nat \ {0}
      BY <2>2 DEF JobIsOf
    <3>2. BlockSize(sizes, j.target) \in Nat
      BY <1>4, <3>1, BlockSizeIs
    <3> QED
      BY <1>2, <2>2, <3>2
  <2> QED
    BY <2>1, <2>2
<1> HIDE DEF block
<1>6. cap \in Nat \ {0}
  BY <1>4, <1>5, CapIs
<1>7. /\ j.request \in Requests /\ j.files \in Nat /\ j.first \in Nat
      /\ j.scheme \in {"uniform", "variable", "limited"}
      /\ j.scheme = "limited" => j.files = 0
  BY DEF JobIsOf
<1>8. slices \in Nat
  <2>1. sizes \in Seq(Nat)
    BY <1>4
  <2> QED
    BY <1>5, <1>6, <1>7, <2>1, RecoveryIs
<1>9. slices <= ExponentLimit
  <2> HIDE DEF slices
  <2> QED
    BY <1>2, <1>8, CreateAssumption
<1> HIDE DEF cap, slices
<1>10. /\ files \in Nat /\ (files # 0 \/ slices = 0)
       /\ j.scheme = "limited" => files = DefaultFiles(j.scheme, slices, cap)
       /\ j.files # 0 => files = j.files
  <2>1. /\ DefaultFiles(j.scheme, slices, cap) \in Nat
        /\ DefaultFiles(j.scheme, slices, cap) # 0 \/ slices = 0
    BY <1>6, <1>8, DefaultFilesAre
  <2> QED
    BY <1>7, <2>1
<1> HIDE DEF files
<1>11. \E counts : /\ AreVolumes(counts, volumes, files, slices, j.first)
                   /\ j.scheme = "uniform" => AreEven(counts)
                   /\ j.scheme = "limited" => AreAtMost(counts, cap)
  BY <1>6, <1>7, <1>8, <1>10, VolumesAre
<1>12. PICK counts : /\ AreVolumes(counts, volumes, files, slices, j.first)
                     /\ j.scheme = "uniform" => AreEven(counts)
                     /\ j.scheme = "limited" => AreAtMost(counts, cap)
  BY <1>11, Zenon
<1>13. /\ AreVolumes(counts, plan.volumes, Len(counts), plan.recovery, j.first)
       /\ j.files # 0 => Len(counts) = j.files
  <2>1. Len(counts) = files
    BY <1>12, Zenon DEF AreVolumes
  <2> HIDE DEF volumes, plan
  <2> QED
    BY <1>3, <1>10, <1>12, <2>1, Zenon
<1> HIDE DEF volumes, chunk, plan
<1>14. \E c : /\ AreVolumes(c, plan.volumes, Len(c), plan.recovery, j.first)
              /\ j.files # 0 => Len(c) = j.files
              /\ j.scheme = "uniform" => AreEven(c)
              /\ j.scheme = "limited" =>
                   AreAtMost(c, CeilDiv(Largest(plan.sizes), plan.block))
  BY <1>3, <1>12, <1>13, Zenon DEF cap
<1>15. /\ plan.block = IF j.target = 0 THEN j.block ELSE BlockSize(plan.sizes, j.target)
       /\ plan.recovery =
            RecoverySlices(j.request, j.files, j.scheme, plan.sizes, plan.block)
       /\ plan.chunk = ChunkSize(plan.block, BlocksOf(plan.sizes, plan.block),
                                 plan.recovery, j.memory)
  BY <1>3, Zenon DEF block, slices, chunk
<1>16. PlanOf(plan, j)
  <2>1. plan.sizes \in Seq(Nat \ {0}) /\ plan.sizes # <<>> /\ plan.block \in Nat \ {0}
    BY <1>3, <1>4, <1>5
  <2>2. plan.recovery \in Nat /\ plan.recovery <= ExponentLimit
    BY <1>3, <1>8, <1>9
  <2> QED
    BY <1>14, <1>15, <2>1, <2>2, Zenon DEF PlanOf
<1> QED
  BY <1>16 DEF plan

\* A job that goes on is that of a command line that was accepted.
LEMMA JobComesFromLine ==
  ASSUME NEW j \in Jobs, Context(j).valid
  PROVE  \E o \in Options : JobIsOf(j, o)
<1>1. PICK o \in CommandLines : j = JobOf(o)
  BY DEF Jobs
<1>2. o \in Options
  BY LinesAssumption
<1>3. IsAccepted(o)
  <2> SUFFICES ASSUME ~IsAccepted(o) PROVE FALSE
    OBVIOUS
  <2> DEFINE sizes == WithData(j.sizes)
  <2>1. ~j.accepted
    BY <1>1 DEF JobOf
  <2>2. Context(j) = [valid |-> FALSE, sizes |-> sizes]
    BY <2>1, Zenon DEF Context
  <2> HIDE DEF sizes
  <2>3. ~Context(j).valid
    BY <2>2
  <2> QED
    BY <2>3
<1> QED
  BY <1>1, <1>2, <1>3, JobIs

\* What holds of volumes that follow one another: each is a first exponent with a
\* number of slices, so none has the path of the index.
LEMMA VolumesFollow ==
  ASSUME NEW counts, NEW volumes, NEW count, NEW first \in Nat,
         AreVolumes(counts, volumes, Len(counts), count, first)
  PROVE  /\ counts \in Seq(Nat) /\ Total(counts) = count
         /\ volumes = Placed(first, counts)
         /\ DOMAIN volumes = 1..Len(counts) /\ Len(volumes) = Len(counts)
         /\ \A k \in 1..Len(counts) : /\ volumes[k].count = counts[k]
                                      /\ volumes[k].exponent = first + SumTo(counts, k - 1)
                                      /\ volumes[k] # Index
         /\ [k \in DOMAIN volumes |-> volumes[k].count] = counts
<1>1. /\ counts \in Seq(Nat) /\ Total(counts) = count
      /\ volumes = Placed(first, counts)
  BY DEF AreVolumes
<1>2. DOMAIN counts = 1..Len(counts) /\ Len(counts) \in Nat
  BY <1>1
<1> DEFINE part(k) == [exponent |-> first + SumTo(counts, k - 1), count |-> counts[k]]
<1>3. volumes = [k \in 1..Len(counts) |-> part(k)]
  BY <1>1, <1>2 DEF Placed
<1>4. ASSUME NEW k \in 1..Len(counts)
      PROVE  /\ part(k).count = counts[k] /\ part(k) # Index
             /\ part(k).exponent = first + SumTo(counts, k - 1)
  <2> DEFINE n == first + SumTo(counts, k - 1)
             m == counts[k]
  <2>1. k - 1 \in 0..Len(counts)
    BY <1>2
  <2>2. SumTo(counts, k - 1) \in Nat /\ m \in Nat
    BY <1>1, <2>1, SumToRises
  <2>3. n \in Nat /\ m \in Nat
    BY <2>2
  <2> HIDE DEF n, m
  <2>4. [exponent |-> n, count |-> m] \in [exponent : Nat, count : Nat]
    BY <2>3
  <2>5. [exponent |-> n, count |-> m] # Index
    BY <2>4, LinesAssumption
  <2> QED
    BY <2>5 DEF n, m
<1> HIDE DEF part
<1>5. /\ DOMAIN volumes = 1..Len(counts) /\ Len(volumes) = Len(counts)
      /\ \A k \in 1..Len(counts) : volumes[k] = part(k)
  BY <1>2, <1>3
<1>6. [k \in DOMAIN volumes |-> volumes[k].count] = counts
  BY <1>1, <1>2, <1>4, <1>5
<1> QED
  BY <1>1, <1>4, <1>5, <1>6

\* The numbers of a plan are numbers, sources and blocks are not empty, and the
\* volumes, of which none has the path of the index, follow one another and hold
\* all slices.
PlanIsSound(j, plan) ==
  LET counts == [k \in DOMAIN plan.volumes |-> plan.volumes[k].count]
  IN  /\ j.memory \in Nat /\ j.first \in Nat
      /\ plan.sizes \in Seq(Nat \ {0})
      /\ plan.block \in Nat \ {0} /\ plan.recovery \in Nat
      /\ counts \in Seq(Nat) /\ Total(counts) = plan.recovery
      /\ plan.volumes = Placed(j.first, counts)
      /\ \A k \in DOMAIN plan.volumes : plan.volumes[k] # Index

\* The plan of every command line is sound (CreateContext::new,
\* plan_recovery_files).
LEMMA PlansAreSound ==
  ASSUME NEW j \in Jobs, Context(j).valid PROVE PlanIsSound(j, Context(j))
<1> DEFINE plan == Context(j)
           counts == [k \in DOMAIN plan.volumes |-> plan.volumes[k].count]
<1>1. PICK o \in Options : JobIsOf(j, o)
  BY JobComesFromLine
<1>2. PlanOf(plan, j)
  BY <1>1, ContextIs
<1>3. j.memory \in Nat /\ j.first \in Nat
  BY <1>1 DEF JobIsOf
<1> HIDE DEF plan
<1>4. PICK c : AreVolumes(c, plan.volumes, Len(c), plan.recovery, j.first)
  BY <1>2, Zenon DEF PlanOf
<1>5. /\ c \in Seq(Nat) /\ Total(c) = plan.recovery
      /\ plan.volumes = Placed(j.first, c) /\ counts = c
      /\ DOMAIN plan.volumes = 1..Len(c)
      /\ \A k \in 1..Len(c) : plan.volumes[k] # Index
  BY <1>3, <1>4, VolumesFollow
<1>6. /\ plan.sizes \in Seq(Nat \ {0}) /\ plan.block \in Nat \ {0}
      /\ plan.recovery \in Nat
  BY <1>2 DEF PlanOf
<1> HIDE DEF counts
<1> QED
  BY <1>3, <1>5, <1>6, Zenon DEF PlanIsSound, counts, plan

-----------------------------------------------------------------------------
(* The plan is as asked *)

\* The plan is that of the command line.
JobInv == job \in Jobs /\ context = Context(job)

\* The numbers of the blocks of one source.
LEMMA NumbersAre ==
  ASSUME NEW f, NEW n \in Nat
  PROVE  LET S == {<<f, i>> : i \in 1..n}
         IN  IsFiniteSet(S) /\ Cardinality(S) = n
<1> DEFINE S == {<<f, i>> : i \in 1..n}
           g == [i \in 1..n |-> <<f, i>>]
<1>1. IsFiniteSet(1..n) /\ Cardinality(1..n) = n
  BY FS_Interval
<1>2. g \in Bijection(1..n, S)
  BY DEF Bijection, Injection, IsInjective, Surjection
<1>3. ExistsBijection(1..n, S)
  BY <1>2 DEF ExistsBijection
<1> HIDE DEF S
<1> QED
  BY <1>1, <1>3, FS_Bijection DEF S

\* The blocks of the first k sources.
BlocksUpTo(counts, k) == UNION {{<<f, i>> : i \in 1..counts[f]} : f \in 1..k}

LEMMA BlocksAreNumbered ==
  ASSUME NEW counts \in Seq(Nat)
  PROVE  \A k \in 0..Len(counts) :
           /\ IsFiniteSet(BlocksUpTo(counts, k))
           /\ Cardinality(BlocksUpTo(counts, k)) = SumTo(counts, k)
<1> DEFINE All(k) == BlocksUpTo(counts, k)
           N == {k \in Nat : k <= Len(counts) =>
                   IsFiniteSet(All(k)) /\ Cardinality(All(k)) = SumTo(counts, k)}
<1>1. 0 \in N
  <2>1. All(0) = {}
    BY DEF BlocksUpTo
  <2> HIDE DEF All
  <2> QED
    BY <2>1, FS_EmptySet, SumToSteps
<1>2. ASSUME NEW k \in Nat, k \in N PROVE k + 1 \in N
  <2> SUFFICES ASSUME k + 1 <= Len(counts)
               PROVE  /\ IsFiniteSet(All(k + 1))
                      /\ Cardinality(All(k + 1)) = SumTo(counts, k + 1)
    OBVIOUS
  <2> DEFINE n == counts[k + 1]
             S == {<<k + 1, i>> : i \in 1..n}
  <2>1. n \in Nat
    OBVIOUS
  <2>2. IsFiniteSet(All(k)) /\ Cardinality(All(k)) = SumTo(counts, k)
    BY <1>2
  <2>3. IsFiniteSet(S) /\ Cardinality(S) = n
    BY <2>1, NumbersAre
  <2>4. All(k + 1) = All(k) \cup S
    <3>1. 1..(k + 1) = (1..k) \cup {k + 1}
      OBVIOUS
    <3> QED
      BY <3>1 DEF BlocksUpTo
  <2>5. All(k) \cap S = {}
    BY DEF BlocksUpTo
  <2> HIDE DEF All, N, S, n
  <2>6. IsFiniteSet(All(k + 1))
    <3>1. IsFiniteSet(All(k) \cup S)
      BY <2>2, <2>3, FS_Union
    <3> QED
      BY <2>4, <3>1, Zenon
  <2>7. Cardinality(All(k + 1)) = SumTo(counts, k) + n
    <3>1. SumTo(counts, k) \in Nat
      BY <2>2, FS_CardinalityType
    <3>2. /\ IsFiniteSet(All(k) \cup S)
          /\ Cardinality(All(k) \cup S) =
               Cardinality(All(k)) + Cardinality(S) - Cardinality(All(k) \cap S)
      BY <2>2, <2>3, FS_Union
    <3>3. Cardinality(All(k) \cap S) = 0
      BY <2>5, FS_EmptySet
    <3> QED
      <4> DEFINE x == Cardinality(All(k))
                 y == Cardinality(S)
                 z == Cardinality(All(k) \cap S)
      <4> HIDE DEF x, y, z
      <4>1. x = SumTo(counts, k) /\ y = n /\ z = 0
        BY <2>2, <2>3, <3>3 DEF x, y, z
      <4>2. Cardinality(All(k + 1)) = x + y - z
        BY <2>4, <3>2 DEF x, y, z
      <4> QED
        BY <2>1, <3>1, <4>1, <4>2
  <2> QED
    BY <2>6, <2>7, SumToSteps DEF n
<1>3. \A k \in Nat : k \in N
  <2> HIDE DEF N
  <2> QED
    BY <1>1, <1>2, EveryNumber
<1> QED
  BY <1>3

\* Blocks are as many as their number says.
LEMMA BlocksAreAll ==
  ASSUME Sizes \in Seq(Nat \ {0}), Block \in Nat \ {0}
  PROVE  Cardinality(Blocks) = BlocksOf(Sizes, Block)
<1> DEFINE c == Counts(Sizes, Block)
<1>1. Sizes \in Seq(Nat)
  OBVIOUS
<1>2. /\ c \in Seq(Nat) /\ Len(c) = Len(Sizes)
      /\ \A k \in 1..Len(Sizes) : c[k] = CeilDiv(Sizes[k], Block)
      /\ BlocksOf(Sizes, Block) = Total(c)
  BY <1>1, CountsAre
<1>3. Source = 1..Len(Sizes) /\ Len(Sizes) \in Nat
  BY <1>1 DEF Source
<1> HIDE DEF c
<1>4. Blocks = BlocksUpTo(c, Len(c))
  <2>1. \A x : x \in Blocks <=> \E f \in Source :
                \E i \in 1..CeilDiv(Sizes[f], Block) : x = <<f, i>>
    BY DEF Blocks
  <2>2. \A x : x \in BlocksUpTo(c, Len(c)) <=>
                \E f \in 1..Len(c) : \E i \in 1..c[f] : x = <<f, i>>
    BY DEF BlocksUpTo
  <2>3. Source = 1..Len(c) /\ \A f \in Source : c[f] = CeilDiv(Sizes[f], Block)
    BY <1>2, <1>3
  <2>4. \A x : x \in Blocks <=> x \in BlocksUpTo(c, Len(c))
    BY <2>1, <2>2, <2>3, Zenon
  <2> QED
    BY <2>4
<1>5. Len(c) \in 0..Len(c)
  BY <1>2
<1> QED
  BY <1>2, <1>4, <1>5, BlocksAreNumbered DEF Total

\* The buffers fit into the memory, unless a chunk has one cell.
LEMMA ChunkFits ==
  ASSUME NEW block \in Nat \ {0}, NEW sources \in Nat, NEW slices \in Nat,
         NEW memory \in Nat, ChunkSize(block, sources, slices, memory) > 1
  PROVE  4 * ChunkSize(block, sources, slices, memory) * (slices + 2) <= memory
<1> DEFINE chunk == ChunkSize(block, sources, slices, memory)
           buffers == slices + 2 + Lesser(sources + 1, Overhead)
           limit == Lesser(block, MaxChunk)
           q == memory \div buffers
           part == q \div 4
<1>1. buffers \in Nat /\ buffers >= slices + 2 /\ limit \in 1..block
  BY PlanAssumption DEF Lesser
<1>2. chunk = IF 4 * block * buffers <= memory THEN limit
              ELSE Lesser(limit, Greater(1, part))
  BY DEF ChunkSize
<1>3. chunk \in 1..block /\ chunk > 1
  BY ChunkIsInBlock
<1> HIDE DEF buffers, limit, chunk
<1>4. chunk * (slices + 2) <= chunk * buffers /\ chunk * buffers \in Nat
      /\ chunk * (slices + 2) \in Nat
  BY <1>1, <1>3
<1>5. 4 * (chunk * buffers) <= memory
  <2>1. CASE 4 * block * buffers <= memory
    <3>1. chunk * buffers <= block * buffers /\ block * buffers \in Nat
      BY <1>1, <1>3
    <3> DEFINE x == chunk * buffers
               y == block * buffers
    <3>2. 4 * block * buffers = 4 * y
      BY <1>1
    <3> HIDE DEF x, y
    <3>3. x <= y /\ x \in Nat /\ y \in Nat /\ 4 * y <= memory
      BY <1>4, <2>1, <3>1, <3>2 DEF x, y
    <3>4. 4 * x <= memory
      BY <3>3
    <3> QED
      BY <3>4 DEF x
  <2>2. CASE ~(4 * block * buffers <= memory)
    <3>1. buffers # 0
      BY <1>1
    <3>2. q \in Nat /\ buffers * q <= memory
      BY <1>1, <3>1
    <3> HIDE DEF q
    <3>3. part \in Nat /\ 4 * part <= q
      BY <3>2
    <3> HIDE DEF part
    <3>4. chunk <= part
      <4>1. chunk = Lesser(limit, Greater(1, part))
        BY <1>2, <2>2 DEF part, q
      <4> QED
        BY <1>1, <1>3, <3>3, <4>1 DEF Lesser, Greater
    <3>5. 4 * chunk <= q
      BY <1>3, <3>2, <3>3, <3>4
    <3> DEFINE z == 4 * chunk
    <3>6. z \in Nat /\ 4 * (chunk * buffers) = z * buffers
      BY <1>1, <1>3
    <3>7. z <= q
      BY <3>5
    <3> HIDE DEF z
    <3>8. z * buffers <= q * buffers /\ q * buffers = buffers * q /\ q * buffers \in Nat
          /\ z * buffers \in Nat
      BY <1>1, <3>2, <3>6, <3>7
    <3> DEFINE v == z * buffers
               w == buffers * q
               x == chunk * buffers
    <3> HIDE DEF v, w, x
    <3>9. v <= w /\ w <= memory /\ v \in Nat /\ w \in Nat /\ 4 * x = v
      BY <3>2, <3>6, <3>8 DEF v, w, x
    <3>10. 4 * x <= memory
      BY <3>9
    <3> QED
      BY <3>10 DEF x
  <2> QED
    BY <2>1, <2>2
<1>6. 4 * chunk * (slices + 2) = 4 * (chunk * (slices + 2))
  BY <1>3
<1> DEFINE x == chunk * (slices + 2)
           y == chunk * buffers
<1>7. x \in Nat /\ y \in Nat /\ x <= y /\ 4 * y <= memory
  BY <1>4, <1>5
<1>8. 4 * chunk * (slices + 2) = 4 * x
  BY <1>6
<1> HIDE DEF x, y
<1>9. 4 * x <= memory
  BY <1>7
<1> QED
  BY <1>8, <1>9 DEF chunk

\* What is known of the plan that was made.
LEMMA PlanIs ==
  ASSUME JobInv, Valid
  PROVE  /\ JobIsOf(job, job.asked) /\ PlanOf(context, job)
         /\ Sizes \in Seq(Nat \ {0}) /\ Block \in Nat \ {0} /\ Recovery \in Nat
<1>1. job \in Jobs /\ context = Context(job) /\ Context(job).valid
  BY DEF JobInv, Valid
<1>2. PICK o \in Options : JobIsOf(job, o)
  BY <1>1, JobComesFromLine
<1>3. PlanOf(context, job)
  BY <1>1, <1>2, ContextIs
<1>4. o = job.asked
  BY <1>2 DEF JobIsOf
<1> QED
  BY <1>2, <1>3, <1>4 DEF PlanOf, Sizes, Block, Recovery

\* The parts of PlanIsAsAsked.
LEMMA BlocksComeAsAsked ==
  ASSUME JobInv, Valid PROVE BlocksAsAsked(job.asked)
<1> DEFINE o == job.asked
<1>1. JobIsOf(job, o) /\ PlanOf(context, job)
  BY PlanIs
<1>2. /\ Sizes \in Seq(Nat \ {0}) /\ Sizes # <<>>
      /\ Block \in Nat \ {0}
      /\ Block = IF job.target = 0 THEN job.block ELSE BlockSize(Sizes, job.target)
  BY <1>1 DEF PlanOf, Sizes, Block
<1> HIDE DEF o
<1>3. IF Given(o.blockSize) THEN job.target = 0 /\ 4 * job.block = o.blockSize[1]
      ELSE job.target = ValueOr(o.blockCount, DefaultBlocks) /\ job.target \in Nat \ {0}
  BY <1>1 DEF JobIsOf
<1>4. CASE Given(o.blockSize)
  BY <1>2, <1>3, <1>4 DEF BlocksAsAsked, o
<1>5. CASE ~Given(o.blockSize)
  <2> DEFINE target == job.target
  <2>1. target \in Nat \ {0} /\ Block = BlockSize(Sizes, target)
        /\ target = ValueOr(o.blockCount, DefaultBlocks)
    BY <1>2, <1>3, <1>5
  <2> HIDE DEF target
  <2>2. /\ BlocksOf(Sizes, Block) <= target
        /\ \A n \in 1..(Block - 1) : BlocksOf(Sizes, n) > target
    BY <1>2, <2>1, BlockSizeIs
  <2> QED
    BY <1>5, <2>1, <2>2 DEF BlocksAsAsked, o
<1> QED
  BY <1>4, <1>5

LEMMA SlicesComeAsAsked ==
  ASSUME JobInv, Valid PROVE SlicesAsAsked(job.asked)
<1> DEFINE o == job.asked
           request == job.request
           blocks == BlocksOf(Sizes, Block)
<1>1. JobIsOf(job, o) /\ PlanOf(context, job)
  BY PlanIs
<1>2. /\ Sizes \in Seq(Nat \ {0}) /\ Sizes # <<>> /\ Block \in Nat \ {0}
      /\ Recovery = RecoverySlices(request, job.files, job.scheme, Sizes, Block)
  BY <1>1 DEF PlanOf, Sizes, Block, Recovery
<1>3. Sizes \in Seq(Nat)
  BY <1>2
<1>4. /\ request \in Requests /\ job.files \in Nat
      /\ IF Given(o.recoveryCount)
         THEN request = [kind |-> "count", n |-> o.recoveryCount[1]]
         ELSE request = AmountRequest(o)
  BY <1>1 DEF JobIsOf
<1>5. CeilDiv(Largest(Sizes), Block) \in Nat \ {0}
  BY <1>2, CapIs
<1> HIDE DEF o, request
<1>6. /\ Recovery \in Nat
      /\ request.kind = "count" => Recovery = request.n
      /\ request.kind # "count" => Recovery >= 1
      /\ request.kind = "size" /\ Recovery > 1 => Recovery * 4 * Block <= request.n
      /\ request.kind = "percent" /\ Recovery > 1 =>
           IsNearest(Recovery, request.n * blocks)
  BY <1>2, <1>3, <1>4, <1>5, RecoveryIs
<1>7. Cardinality(Blocks) = blocks
  BY <1>2, BlocksAreAll
<1> HIDE DEF blocks
<1>8. CASE Given(o.recoveryCount)
  <2> DEFINE n == o.recoveryCount[1]
  <2>1. request.kind = "count" /\ request.n = n
    BY <1>4, <1>8
  <2>2. Recovery = n
    BY <1>6, <2>1
  <2> QED
    BY <1>8, <2>2 DEF SlicesAsAsked, o
<1>9. CASE ~Given(o.recoveryCount)
  <2> DEFINE r == ValueOr(o.redundancy, [unit |-> "", number |-> <<5>>])
             n == r.number[1]
             bySize == r.unit \in DOMAIN Factor
  <2>1. request = RedundancyRequest(r)
    <3>1. request = AmountRequest(o)
      BY <1>4, <1>9
    <3>2. CASE Given(o.redundancy)
      BY <3>1, <3>2 DEF AmountRequest, ValueOr
    <3>3. CASE ~Given(o.redundancy)
      <4> DEFINE five == <<5>>
      <4>1. five[1] = 5
        OBVIOUS
      <4>2. r = [unit |-> "", number |-> five]
        BY <3>3 DEF ValueOr
      <4> HIDE DEF five, r
      <4>3. r.unit = "" /\ r.number = five
        BY <4>2
      <4>4. r.unit \notin DOMAIN Factor
        BY <4>3, FactorIs
      <4>5. RedundancyRequest(r) = [kind |-> "percent", n |-> 5]
        BY <4>1, <4>3, <4>4 DEF RedundancyRequest
      <4>6. AmountRequest(o) = [kind |-> "percent", n |-> 5]
        BY <3>3 DEF AmountRequest
      <4> QED
        BY <3>1, <4>5, <4>6
    <3> QED
      BY <3>2, <3>3
  <2> HIDE DEF r
  <2>2. /\ bySize => request.kind = "size" /\ request.n = n * Factor[r.unit]
        /\ ~bySize => request.kind = "percent" /\ request.n = n
    BY <2>1 DEF RedundancyRequest
  <2>3. Recovery >= 1
    BY <1>6, <2>2
  <2>4. ASSUME Recovery > 1
        PROVE  IF bySize THEN Recovery * 4 * Block <= n * Factor[r.unit]
               ELSE \A k \in 1..ExponentLimit :
                      Distance(100 * Recovery, n * blocks)
                        <= Distance(100 * k, n * blocks)
    <3>1. bySize => Recovery * 4 * Block <= n * Factor[r.unit]
      BY <1>6, <2>2, <2>4
    <3>2. ~bySize => IsNearest(Recovery, n * blocks)
      BY <1>6, <2>2, <2>4
    <3>3. \A k \in 1..ExponentLimit : k \in Nat
      BY CreateAssumption
    <3> QED
      BY <3>1, <3>2, <3>3, Zenon DEF IsNearest
  <2> HIDE DEF n, bySize
  <2> QED
    BY <1>7, <1>9, <2>3, <2>4, Zenon DEF SlicesAsAsked, o, r, n, bySize
<1> QED
  BY <1>8, <1>9

LEMMA VolumesComeAsAsked ==
  ASSUME JobInv, Valid PROVE VolumesAsAsked(job.asked)
<1> DEFINE o == job.asked
           cap == CeilDiv(Largest(Sizes), Block)
<1>1. JobIsOf(job, o) /\ PlanOf(context, job)
  BY PlanIs
<1>2. /\ job.first = ValueOr(o.first, 0) /\ job.first \in Nat
      /\ Given(o.files) => job.files = o.files[1] /\ job.files # 0
      /\ o.limited => job.scheme = "limited"
      /\ o.uniform \/ Given(o.files) => job.scheme = "uniform"
  BY <1>1, Zenon DEF JobIsOf
<1> HIDE DEF o
<1>3. PICK counts : /\ AreVolumes(counts, Plan, Len(counts), Recovery, job.first)
                    /\ job.files # 0 => Len(counts) = job.files
                    /\ job.scheme = "uniform" => AreEven(counts)
                    /\ job.scheme = "limited" => AreAtMost(counts, cap)
  BY <1>1, Zenon DEF PlanOf, Plan, Recovery, Sizes, Block
<1> HIDE DEF cap
<1>4. /\ counts \in Seq(Nat) /\ Total(counts) = Recovery
      /\ DOMAIN Plan = 1..Len(counts) /\ Len(Plan) = Len(counts)
      /\ \A k \in 1..Len(counts) :
           /\ Plan[k].count = counts[k]
           /\ Plan[k].exponent = job.first + SumTo(counts, k - 1)
      /\ [k \in DOMAIN Plan |-> Plan[k].count] = counts
  BY <1>2, <1>3, VolumesFollow
<1>5. Total([k \in DOMAIN Plan |-> Plan[k].count]) = Recovery
  BY <1>4, Zenon
<1>6. ASSUME NEW k \in DOMAIN Plan
      PROVE  Plan[k].exponent = ValueOr(o.first, 0)
                                  + Total([j \in 1..(k - 1) |-> Plan[j].count])
  <2> DEFINE before == [j \in 1..(k - 1) |-> Plan[j].count]
  <2>1. k \in 1..Len(counts) /\ k - 1 \in Nat /\ Len(counts) \in Nat
    BY <1>4
  <2>2. \A j \in 1..(k - 1) : j \in 1..Len(counts)
    BY <2>1
  <2>3. \A j \in 1..(k - 1) : before[j] = counts[j]
    BY <1>4, <2>2
  <2>4. \A j \in 1..(k - 1) : counts[j] \in Nat
    BY <1>4, <2>2
  <2>5. before = [j \in 1..(k - 1) |-> counts[j]]
    BY <1>4, <2>2
  <2>6. Len(before) = k - 1
    BY <2>1, <2>4, <2>5
  <2> HIDE DEF before
  <2>7. \A m \in 0..(k - 1) : SumTo(before, m) = SumTo(counts, m)
    BY <2>1, <2>3, SameSums
  <2>8. k - 1 \in 0..(k - 1)
    BY <2>1
  <2>9. Total(before) = SumTo(counts, k - 1)
    BY <2>6, <2>7, <2>8 DEF Total
  <2>10. Plan[k].exponent = job.first + SumTo(counts, k - 1)
    BY <1>4, <2>1
  <2> QED
    BY <1>2, <2>9, <2>10 DEF before
<1>7. Given(o.files) => Len(Plan) = o.files[1]
  BY <1>2, <1>3, <1>4
<1>8. o.uniform \/ Given(o.files) =>
        \A j, k \in DOMAIN Plan : Distance(Plan[j].count, Plan[k].count) <= 1
  <2> SUFFICES ASSUME o.uniform \/ Given(o.files), NEW j \in DOMAIN Plan, NEW k \in DOMAIN Plan
               PROVE  Distance(Plan[j].count, Plan[k].count) <= 1
    OBVIOUS
  <2>1. AreEven(counts)
    BY <1>2, <1>3
  <2>2. j \in DOMAIN counts /\ k \in DOMAIN counts
    BY <1>4
  <2>3. Plan[j].count = counts[j] /\ Plan[k].count = counts[k]
    BY <1>4
  <2> QED
    BY <2>1, <2>2, <2>3, Zenon DEF AreEven
<1>9. o.limited => \A k \in DOMAIN Plan : Plan[k].count <= cap
  <2> SUFFICES ASSUME o.limited, NEW k \in DOMAIN Plan PROVE Plan[k].count <= cap
    OBVIOUS
  <2>1. AreAtMost(counts, cap) /\ k \in DOMAIN counts /\ Plan[k].count = counts[k]
    BY <1>2, <1>3, <1>4
  <2> QED
    BY <2>1, Zenon DEF AreAtMost
<1> QED
  BY <1>5, <1>6, <1>7, <1>8, <1>9, Zenon DEF VolumesAsAsked, o, cap

LEMMA MemoryComesAsAsked ==
  ASSUME JobInv, Valid PROVE MemoryAsAsked(job.asked)
<1> DEFINE o == job.asked
           sources == BlocksOf(Sizes, Block)
<1> SUFFICES ASSUME Given(o.memory), Chunk > 1
             PROVE  4 * Chunk * (Recovery + 2) <= o.memory[1] * Kilo * Kilo
  BY DEF MemoryAsAsked
<1>1. JobIsOf(job, o) /\ PlanOf(context, job)
  BY PlanIs
<1>2. /\ Block \in Nat \ {0} /\ Recovery \in Nat /\ Sizes \in Seq(Nat)
      /\ Chunk = ChunkSize(Block, sources, Recovery, job.memory)
  BY <1>1 DEF PlanOf, Sizes, Block, Recovery, Chunk
<1>3. /\ job.memory \in Nat /\ job.memory = o.memory[1] * (Kilo * Kilo)
      /\ o.memory[1] \in Nat
  BY <1>1 DEF JobIsOf
<1>4. sources \in Nat
  BY <1>2, BlocksBound
<1> HIDE DEF sources
<1>5. 4 * Chunk * (Recovery + 2) <= job.memory
  BY <1>2, <1>3, <1>4, ChunkFits
<1>6. o.memory[1] * (Kilo * Kilo) = o.memory[1] * Kilo * Kilo
  <2> DEFINE m == o.memory[1]
  <2>1. m \in Nat /\ Kilo \in Nat
    BY <1>3, CommandLineAssumption
  <2> HIDE DEF m
  <2>2. m * (Kilo * Kilo) = m * Kilo * Kilo
    BY <2>1
  <2> QED
    BY <2>2 DEF m
<1> QED
  BY <1>3, <1>5, <1>6


-----------------------------------------------------------------------------
(* The command *)

\* While an output file is filled, the file at its path is the one opened.
OpenedInv ==
  pc = "fill" /\ Head(todo) \in DOMAIN disk => disk[Head(todo)] = Partial

\* Nothing appears at the path of the output that is filled, since a file is
\* there.
LEMMA EnvironmentKeepsOpened ==
  ASSUME OpenedInv, Environment
  PROVE  OpenedInv'
<1>1. CASE \E f \in DOMAIN source : \E p \in DOMAIN source[f] : Change(f, p)
  BY <1>1 DEF Change, OpenedInv
<1>2. CASE \E p \in DOMAIN disk : Appear(p)
  <2>1. PICK p \in DOMAIN disk : Appear(p)
    BY <1>2
  <2>2. SUFFICES ASSUME pc' = "fill", Head(todo') \in DOMAIN disk'
                 PROVE  disk'[Head(todo')] = Partial
    BY DEF OpenedInv
  <2>3. todo' = todo /\ pc = "fill" /\ DOMAIN disk' = DOMAIN disk
    BY <2>1, <2>2 DEF Appear
  <2>4. disk[Head(todo)] = Partial
    BY <2>2, <2>3 DEF OpenedInv
  <2>5. Head(todo) # p
    BY <2>1, <2>4 DEF Appear, Absent, Partial
  <2>. QED
    BY <2>1, <2>2, <2>3, <2>4, <2>5 DEF Appear
<1>. QED
  BY <1>1, <1>2 DEF Environment

\* An output is filled only after it was opened.
LEMMA StepKeepsOpened ==
  ASSUME OpenedInv, Step
  PROVE  OpenedInv'
<1>1. CASE OpenOutput
  BY <1>1 DEF OpenOutput, OpenedInv
<1>2. CASE FillOutput
  BY <1>2 DEF FillOutput, OpenedInv
<1>3. CASE Scan \/ EndChunk
  BY <1>3 DEF Scan, EndChunk, Stop, OpenedInv
<1>4. CASE CheckOutputs
  BY <1>4 DEF CheckOutputs, Stop, OpenedInv
<1>5. CASE \E b \in unread : ReadBlock(b) \/ ReadFails(b)
  BY <1>5 DEF ReadBlock, ReadFails, Stop, OpenedInv
<1>6. CASE OpenFails \/ FillFails \/ Finish
  BY <1>6 DEF OpenFails, FillFails, Finish, Stop, OpenedInv
<1>. QED
  BY <1>1, <1>2, <1>3, <1>4, <1>5, <1>6 DEF Step

\* A step of the command leaves the files that are there without its doing.
LEMMA StepKeepsOthers ==
  ASSUME OpenedInv, Step, ~job.overwrite,
         NEW p \in DOMAIN disk, disk[p] = Other
  PROVE  disk'[p] = Other
<1>1. CASE OpenOutput
  <2>1. disk[Head(todo)] = Absent
    BY <1>1 DEF OpenOutput, CanOpen
  <2>2. Head(todo) # p
    BY <2>1 DEF Absent, Other
  <2>. QED
    BY <1>1, <2>2 DEF OpenOutput
<1>2. CASE FillOutput
  <2>1. CASE Head(todo) \in DOMAIN disk
    <3>1. disk[Head(todo)] = Partial
      BY <1>2, <2>1 DEF FillOutput, OpenedInv
    <3>2. Head(todo) # p
      BY <3>1 DEF Partial, Other
    <3>. QED
      BY <1>2, <3>2 DEF FillOutput
  <2>2. CASE Head(todo) \notin DOMAIN disk
    BY <1>2, <2>2 DEF FillOutput
  <2>. QED
    BY <2>1, <2>2
<1>3. CASE Scan \/ EndChunk \/ CheckOutputs \/ OpenFails \/ FillFails \/ Finish
  BY <1>3 DEF Scan, EndChunk, CheckOutputs, OpenFails, FillFails, Finish
<1>4. CASE \E b \in unread : ReadBlock(b) \/ ReadFails(b)
  BY <1>4 DEF ReadBlock, ReadFails
<1>. QED
  BY <1>1, <1>2, <1>3, <1>4 DEF Step

\* Other programs create files only where there is none.
LEMMA EnvironmentKeepsOthers ==
  ASSUME Environment, NEW p \in DOMAIN disk, disk[p] = Other
  PROVE  disk'[p] = Other
BY DEF Environment, Change, Appear, Absent, Other

\* Without the overwrite option the create command never opens or writes a file
\* that was at an output path before it or that another program put there, also
\* between the check for existing files and the open (write_par2_files,
\* create_new_output_file).
THEOREM ExistingStay == Spec => ExistingFilesStay
<1>1. Init => OpenedInv
  BY DEF Init, OpenedInv
<1>2. OpenedInv /\ [Next]_vars => OpenedInv'
  <2>1. CASE Next
    BY <2>1, StepKeepsOpened, EnvironmentKeepsOpened DEF Next
  <2>2. CASE UNCHANGED vars
    BY <2>2 DEF vars, OpenedInv
  <2>. QED
    BY <2>1, <2>2
<1>3. OpenedInv /\ Next =>
        \A p \in DOMAIN disk :
          disk[p] = Other /\ ~job.overwrite => disk'[p] = Other
  BY StepKeepsOthers, EnvironmentKeepsOthers DEF Next
<1>4. OpenedInv /\ [Next]_vars =>
        [\A p \in DOMAIN disk :
           disk[p] = Other /\ ~job.overwrite => disk'[p] = Other]_vars
  BY <1>3
<1>. QED
  BY <1>1, <1>2, <1>4, PTL DEF Spec, ExistingFilesStay

-----------------------------------------------------------------------------
(* The blocks that are read *)

SourceCell == (Nat \ {0}) \X {0, 1}
AnyCell == SourceCell \cup {Zero}
Input == Blocks \X Seq(AnyCell)

\* The chunk of a block that is handled now, as it was hashed.
Piece(b) == SubSeq(blockMd5[b], offset + 1, offset + ChunkLen)

\* Chunk j of the recovery slices, as it should be.
Row(j) ==
  {<<b, SubSeq(blockMd5[b], (j - 1) * Chunk + 1, Lesser(j * Chunk, Block))>> :
     b \in Blocks}

\* Before the first block is read nothing was hashed or added.
StartInv ==
  pc = "scan" => /\ offset = 0 /\ HashesStart /\ BackendStart
                 /\ source = [f \in Source |-> [p \in 1..Sizes[f] |-> Cell(p)]]

\* Blocks that were read in this chunk are hashed up to its end, the others up
\* to its beginning.
ReadInv ==
  pc = "read" =>
    /\ Valid /\ Recovery > 0
    /\ source \in [Source -> Seq(SourceCell)]
    /\ recovery \in Seq(SUBSET Input)
    /\ offset = Len(recovery) * Chunk /\ offset < Block
    /\ unread \subseteq Blocks
    /\ blockMd5 \in [Blocks -> Seq(AnyCell)]
    /\ \A b \in Blocks :
         Len(blockMd5[b]) = IF b \in unread THEN offset ELSE offset + ChunkLen

\* What was read of this chunk is added or waits for it, never both.
StagedInv ==
  pc = "read" =>
    /\ staged \in Seq(Input) /\ Len(staged) < Batch
    /\ sum \cap ToSet(staged) = {}
    /\ sum \cup ToSet(staged) = {<<b, Piece(b)>> : b \in Blocks \ unread}

\* The chunks before are as they should be.
RowsInv ==
  pc = "read" => \A j \in DOMAIN recovery : recovery[j] = Row(j)

\* Blocks are padded where their source ends.
PaddedInv ==
  pc = "read" =>
    \A b \in Blocks : \A k \in DOMAIN blockMd5[b] :
      blockMd5[b][k] = Zero <=> (b[2] - 1) * Block + k > Sizes[b[1]]

\* The head of a source is what was hashed of its blocks.
HeadInv ==
  pc = "read" =>
    /\ DOMAIN head = Source
    /\ \A f \in Source : DOMAIN head[f] = 1..Lesser(Sizes[f], HeadCells)
    /\ \A b \in Blocks : \A k \in DOMAIN blockMd5[b] :
         LET p == (b[2] - 1) * Block + k
         IN  p \in DOMAIN head[b[1]] => head[b[1]][p] = blockMd5[b][k]

\* Blocks in one piece are read in order, and so was the source.
IsReadInOrder(f) ==
  \E n \in 0..CeilDiv(Sizes[f], Block) :
    /\ \A i \in 1..CeilDiv(Sizes[f], Block) : <<f, i>> \in unread <=> i > n
    /\ Len(fileMd5[f]) = Lesser(n * Block, Sizes[f])
    /\ \A i \in 1..n : \A k \in 1..Block :
         (i - 1) * Block + k <= Sizes[f] =>
           fileMd5[f][(i - 1) * Block + k] = blockMd5[<<f, i>>][k]

OrderInv ==
  pc = "read" /\ Chunk = Block =>
    /\ fileMd5 \in [Source -> Seq(SourceCell)]
    /\ \A f \in Source : IsReadInOrder(f)

\* The recovery slices are of what was hashed.
SumInv ==
  /\ JobInv /\ StartInv /\ ReadInv /\ StagedInv /\ RowsInv
  /\ RecoveryMatchesChecksums

\* The hashes are of one content.
HashesInv == PaddedInv /\ HeadInv /\ OrderInv /\ DescribesOneContent

-----------------------------------------------------------------------------
(* Sequences *)

LEMMA SubSeqFacts ==
  ASSUME NEW S, NEW s \in Seq(S), NEW p \in Nat, NEW n \in Nat,
         n = 0 \/ p + n <= Len(s)
  PROVE  /\ SubSeq(s, p + 1, p + n) \in Seq(S)
         /\ Len(SubSeq(s, p + 1, p + n)) = n
         /\ \A m \in 1..n : SubSeq(s, p + 1, p + n)[m] = s[p + m]
<1>1. \A i \in (p + 1)..(p + n) : s[i] \in S
  OBVIOUS
<1>2. p + 1 \in Int /\ p + n \in Int
  OBVIOUS
<1>3. /\ SubSeq(s, p + 1, p + n) \in Seq(S)
      /\ Len(SubSeq(s, p + 1, p + n)) = IF p + 1 <= p + n THEN p + n - (p + 1) + 1 ELSE 0
      /\ \A i \in 1 .. (p + n - (p + 1) + 1) :
           SubSeq(s, p + 1, p + n)[i] = s[p + 1 + i - 1]
  BY <1>1, <1>2, SubSeqProperties
<1>4. \A m \in 1..n : m \in 1 .. (p + n - (p + 1) + 1) /\ p + 1 + m - 1 = p + m
  OBVIOUS
<1> QED
  BY <1>3, <1>4

\* What is behind it does not change a part of a sequence.
LEMMA PartOfConcat ==
  ASSUME NEW S, NEW s \in Seq(S), NEW t \in Seq(S),
         NEW p \in Nat, NEW n \in Nat, p + n <= Len(s)
  PROVE  SubSeq(s \o t, p + 1, p + n) = SubSeq(s, p + 1, p + n)
<1>1. /\ s \o t \in Seq(S) /\ p + n <= Len(s \o t)
      /\ \A i \in 1..Len(s) : (s \o t)[i] = s[i]
  OBVIOUS
<1> DEFINE u == SubSeq(s, p + 1, p + n)
           v == SubSeq(s \o t, p + 1, p + n)
<1>2. /\ u \in Seq(S) /\ Len(u) = n /\ \A m \in 1..n : u[m] = s[p + m]
  BY SubSeqFacts
<1>3. /\ v \in Seq(S) /\ Len(v) = n /\ \A m \in 1..n : v[m] = (s \o t)[p + m]
  <2> DEFINE w == s \o t
  <2>1. w \in Seq(S) /\ p + n <= Len(w)
    BY <1>1
  <2>2. v = SubSeq(w, p + 1, p + n)
    OBVIOUS
  <2> HIDE DEF v, w
  <2>3. /\ v \in Seq(S) /\ Len(v) = n /\ \A m \in 1..n : v[m] = w[p + m]
    BY <2>1, <2>2, SubSeqFacts
  <2> QED
    BY <2>3 DEF w
<1>4. \A m \in 1..n : p + m \in 1..Len(s)
  OBVIOUS
<1> HIDE DEF u, v
<1>5. \A m \in 1..n : u[m] = v[m]
  BY <1>1, <1>2, <1>3, <1>4
<1> QED
  BY <1>2, <1>3, <1>5 DEF u, v

LEMMA EndOfConcat ==
  ASSUME NEW S, NEW s \in Seq(S), NEW t \in Seq(S)
  PROVE  SubSeq(s \o t, Len(s) + 1, Len(s) + Len(t)) = t
<1>1. /\ s \o t \in Seq(S) /\ Len(s) + Len(t) <= Len(s \o t)
      /\ \A i \in 1..Len(t) : (s \o t)[Len(s) + i] = t[i]
  OBVIOUS
<1> DEFINE v == SubSeq(s \o t, Len(s) + 1, Len(s) + Len(t))
<1>2. /\ v \in Seq(S) /\ Len(v) = Len(t)
      /\ \A m \in 1..Len(t) : v[m] = (s \o t)[Len(s) + m]
  <2>1. Len(s) \in Nat /\ Len(t) \in Nat
    OBVIOUS
  <2> QED
    BY <1>1, <2>1, SubSeqFacts
<1> HIDE DEF v
<1>3. \A m \in 1..Len(t) : v[m] = t[m]
  BY <1>1, <1>2
<1> QED
  BY <1>2, <1>3 DEF v

-----------------------------------------------------------------------------
(* Sources and blocks *)

LEMMA SetFacts ==
  ASSUME JobInv, Valid
  PROVE  /\ PlanIsSound(job, context)
         /\ Sizes \in Seq(Nat \ {0}) /\ Source = 1..Len(Sizes)
         /\ Block \in Nat \ {0} /\ Recovery \in Nat /\ Chunk \in 1..Block
<1>1. PlanIsSound(job, context)
  BY PlansAreSound DEF JobInv, Valid
<1>2. /\ Sizes \in Seq(Nat \ {0}) /\ Block \in Nat \ {0} /\ Recovery \in Nat
      /\ job.memory \in Nat
  BY <1>1 DEF PlanIsSound, Sizes, Block, Recovery
<1>3. Chunk = ChunkSize(Block, BlocksOf(Sizes, Block), Recovery, job.memory)
  BY DEF JobInv, Valid, Context, Chunk, Block, Sizes, Recovery
<1>4. BlocksOf(Sizes, Block) \in Nat
  <2>1. Sizes \in Seq(Nat)
    BY <1>2
  <2> QED
    BY <1>2, <2>1, BlocksAreCounted
<1>5. Chunk \in 1..Block
  BY <1>2, <1>3, <1>4, ChunkIsInBlock
<1> QED
  BY <1>1, <1>2, <1>5 DEF Source

\* A block is a source and a number.
LEMMA BlockFacts ==
  ASSUME JobInv, Valid
  PROVE  /\ \A b \in Blocks :
              /\ b = <<b[1], b[2]>> /\ b[1] \in Source /\ b[2] \in Nat \ {0}
              /\ b[2] \in 1..CeilDiv(Sizes[b[1]], Block)
              /\ Sizes[b[1]] \in Nat \ {0}
              /\ (b[2] - 1) * Block \in Nat
              /\ (b[2] - 1) * Block < Sizes[b[1]]
         /\ \A f \in Source : \A i \in 1..CeilDiv(Sizes[f], Block) :
              <<f, i>> \in Blocks
<1>1. \A f \in Source : \A i \in 1..CeilDiv(Sizes[f], Block) :
        <<f, i>> \in Blocks
  BY DEF Blocks
<1>2. ASSUME NEW b \in Blocks
      PROVE  /\ b = <<b[1], b[2]>> /\ b[1] \in Source /\ b[2] \in Nat \ {0}
             /\ b[2] \in 1..CeilDiv(Sizes[b[1]], Block)
             /\ Sizes[b[1]] \in Nat \ {0}
             /\ (b[2] - 1) * Block \in Nat
             /\ (b[2] - 1) * Block < Sizes[b[1]]
  <2> PICK f \in Source : b \in {<<f, i>> : i \in 1..CeilDiv(Sizes[f], Block)}
    BY DEF Blocks
  <2>1. PICK i \in 1..CeilDiv(Sizes[f], Block) : b = <<f, i>>
    OBVIOUS
  <2>2. Sizes[f] \in Nat \ {0} /\ Block \in Nat \ {0}
    BY SetFacts
  <2>3. CeilDiv(Sizes[f], Block) \in Nat
    BY <2>2, PiecesCover
  <2>4. i \in Nat /\ i # 0 /\ i - 1 \in Nat /\ i - 1 < CeilDiv(Sizes[f], Block)
    BY <2>3
  <2>5. (i - 1) * Block < Sizes[f] /\ (i - 1) * Block \in Nat
    <3>1. \A k \in Nat : k < CeilDiv(Sizes[f], Block) => k * Block < Sizes[f]
      BY <2>2, PiecesCover
    <3>2. \A k \in Nat : k * Block \in Nat
      BY <2>2
    <3> QED
      BY <2>4, <3>1, <3>2
  <2>6. b[1] = f /\ b[2] = i
    BY <2>1
  <2> QED
    BY <2>1, <2>2, <2>4, <2>5, <2>6
<1> QED
  BY <1>1, <1>2

\* What a read puts into the buffer: cells of the source, then zeros.
LEMMA ReadGives ==
  ASSUME JobInv, Valid, source \in [Source -> Seq(SourceCell)],
         offset \in Nat, offset < Block, NEW b \in Blocks, CanRead(b)
  PROVE  /\ ChunkLen \in 1..Chunk /\ offset + ChunkLen <= Block
         /\ Position(b) = (b[2] - 1) * Block + offset /\ Position(b) \in Nat
         /\ ToRead(b) \in 0..ChunkLen
         /\ CellsRead(b) \in Seq(SourceCell) /\ Len(CellsRead(b)) = ToRead(b)
         /\ \A m \in 1..ToRead(b) :
              CellsRead(b)[m] = source[b[1]][Position(b) + m]
         /\ Padded(b) \in Seq(AnyCell) /\ Len(Padded(b)) = ChunkLen
         /\ \A m \in 1..ChunkLen :
              /\ m <= ToRead(b) <=> Position(b) + m <= Sizes[b[1]]
              /\ m <= ToRead(b) => Padded(b)[m] = CellsRead(b)[m]
              /\ m > ToRead(b) => Padded(b)[m] = Zero
<1>1. /\ Block \in Nat \ {0} /\ Chunk \in 1..Block
      /\ b[1] \in Source /\ b[2] \in Nat \ {0} /\ Sizes[b[1]] \in Nat \ {0}
      /\ (b[2] - 1) * Block \in Nat
  BY SetFacts, BlockFacts
<1>2. ChunkLen \in 1..Chunk /\ offset + ChunkLen <= Block
  BY <1>1 DEF ChunkLen, Lesser
<1>3. Position(b) = (b[2] - 1) * Block + offset /\ Position(b) \in Nat
  BY <1>1 DEF Position
<1>4. b[2] * Block = (b[2] - 1) * Block + Block
  BY <1>1
<1>5. /\ ToRead(b) \in 0..ChunkLen
      /\ \A m \in 1..ChunkLen :
           m <= ToRead(b) <=> Position(b) + m <= Sizes[b[1]]
  <2> DEFINE z == (b[2] - 1) * Block
  <2>1. ToRead(b) = Greater(0, Lesser(ChunkLen, Lesser(z + Block, Sizes[b[1]])
                                                 - (z + offset)))
    BY <1>3, <1>4 DEF ToRead
  <2>2. z \in Nat /\ Position(b) = z + offset
    BY <1>1, <1>3
  <2> HIDE DEF z
  <2> QED
    BY <1>1, <1>2, <2>1, <2>2 DEF Lesser, Greater
<1>6. /\ CellsRead(b) \in Seq(SourceCell) /\ Len(CellsRead(b)) = ToRead(b)
      /\ \A m \in 1..ToRead(b) :
           CellsRead(b)[m] = source[b[1]][Position(b) + m]
  <2> DEFINE s == source[b[1]]
  <2>1. s \in Seq(SourceCell)
    BY <1>1
  <2>2. ToRead(b) = 0 \/ Position(b) + ToRead(b) <= Len(s)
    BY DEF CanRead
  <2>3. CellsRead(b) = SubSeq(s, Position(b) + 1, Position(b) + ToRead(b))
    BY DEF CellsRead
  <2> HIDE DEF s
  <2>4. ToRead(b) \in Nat /\ Position(b) \in Nat
    BY <1>3, <1>5
  <2>5. /\ SubSeq(s, Position(b) + 1, Position(b) + ToRead(b)) \in Seq(SourceCell)
        /\ Len(SubSeq(s, Position(b) + 1, Position(b) + ToRead(b))) = ToRead(b)
        /\ \A m \in 1..ToRead(b) :
             SubSeq(s, Position(b) + 1, Position(b) + ToRead(b))[m]
               = s[Position(b) + m]
    BY <2>1, <2>2, <2>4, SubSeqFacts
  <2> QED
    BY <2>3, <2>5 DEF s
<1>7. /\ Padded(b) \in Seq(AnyCell) /\ Len(Padded(b)) = ChunkLen
      /\ \A m \in 1..ChunkLen :
           /\ m <= ToRead(b) => Padded(b)[m] = CellsRead(b)[m]
           /\ m > ToRead(b) => Padded(b)[m] = Zero
  <2> DEFINE zeros == [k \in 1..(ChunkLen - ToRead(b)) |-> Zero]
  <2>1. ChunkLen - ToRead(b) \in Nat
    BY <1>2, <1>5
  <2>2. /\ zeros \in Seq(AnyCell) /\ Len(zeros) = ChunkLen - ToRead(b)
        /\ \A k \in 1..(ChunkLen - ToRead(b)) : zeros[k] = Zero
    BY <2>1 DEF AnyCell
  <2>3. CellsRead(b) \in Seq(AnyCell)
    BY <1>6 DEF AnyCell
  <2>4. Padded(b) = CellsRead(b) \o zeros
    BY DEF Padded
  <2> HIDE DEF zeros
  <2> QED
    BY <1>2, <1>5, <1>6, <2>2, <2>3, <2>4
<1> QED
  BY <1>2, <1>3, <1>5, <1>6, <1>7

LEMMA SameSet ==
  ASSUME context' = context
  PROVE  /\ Valid' = Valid /\ Sizes' = Sizes /\ Source' = Source
         /\ Block' = Block /\ Recovery' = Recovery /\ Chunk' = Chunk
         /\ Plan' = Plan /\ Blocks' = Blocks /\ Input' = Input
         /\ OutputPaths' = OutputPaths
BY DEF Valid, Sizes, Source, Block, Recovery, Chunk, Plan, Blocks, Input,
       OutputPaths

LEMMA ToSetOfAppend ==
  ASSUME NEW S, NEW s \in Seq(S), NEW x \in S
  PROVE  ToSet(Append(s, x)) = ToSet(s) \cup {x}
<1> DEFINE t == Append(s, x)
<1>1. /\ DOMAIN t = 1..(Len(s) + 1) /\ DOMAIN s = 1..Len(s)
      /\ \A i \in 1..Len(s) : t[i] = s[i]
      /\ t[Len(s) + 1] = x
  OBVIOUS
<1> HIDE DEF t
<1>2. \A i \in 1..(Len(s) + 1) : i \in 1..Len(s) \/ i = Len(s) + 1
  OBVIOUS
<1>3. 1..Len(s) \subseteq 1..(Len(s) + 1) /\ Len(s) + 1 \in 1..(Len(s) + 1)
  OBVIOUS
<1>4. ToSet(t) = ToSet(s) \cup {x}
  BY <1>1, <1>2, <1>3 DEF ToSet
<1> QED
  BY <1>4 DEF t

\* An input that is staged is added or waits; nothing cancels out.
LEMMA StageAdds ==
  ASSUME NEW S, staged \in Seq(S), Len(staged) < Batch,
         sum \cap ToSet(staged) = {},
         NEW x \in S, x \notin sum, x \notin ToSet(staged), Stage(x)
  PROVE  /\ staged' \in Seq(S) /\ Len(staged') < Batch
         /\ sum' \cap ToSet(staged') = {}
         /\ sum' \cup ToSet(staged') = sum \cup ToSet(staged) \cup {x}
<1> DEFINE batch == Append(staged, x)
<1>1. batch \in Seq(S) /\ Len(batch) = Len(staged) + 1
  OBVIOUS
<1>2. ToSet(batch) = ToSet(staged) \cup {x}
  BY ToSetOfAppend
<1>3. /\ Len(batch) = Batch => staged' = <<>> /\ sum' = Added(batch)
      /\ Len(batch) # Batch => staged' = batch /\ sum' = sum
  BY DEF Stage
<1> HIDE DEF batch
<1>4. Added(batch) = sum \cup ToSet(batch)
  BY <1>2 DEF Added
<1>5. CASE Len(batch) = Batch
  <2>1. ToSet(staged') = {}
    BY <1>3, <1>5 DEF ToSet
  <2>2. staged' \in Seq(S) /\ Len(staged') = 0
    BY <1>3, <1>5
  <2> QED
    BY <1>2, <1>3, <1>4, <1>5, <2>1, <2>2, CreateAssumption
<1>6. CASE Len(batch) # Batch
  <2>1. Len(batch) < Batch
    BY <1>1, <1>6, CreateAssumption
  <2> QED
    BY <1>1, <1>2, <1>3, <1>6, <2>1
<1> QED
  BY <1>5, <1>6

\* A block that is read is the next piece of its checksums.
LEMMA ReadAppends ==
  ASSUME JobInv, ReadInv, NEW b \in unread, ReadBlock(b)
  PROVE  /\ pc = "read" /\ pc' = "read" /\ offset \in Nat /\ b \in Blocks
         /\ blockMd5[b] \in Seq(AnyCell) /\ Len(blockMd5[b]) = offset
         /\ Padded(b) \in Seq(AnyCell) /\ Len(Padded(b)) = ChunkLen
         /\ blockMd5' \in [Blocks -> Seq(AnyCell)]
         /\ blockMd5'[b] = blockMd5[b] \o Padded(b)
         /\ Len(blockMd5'[b]) = offset + ChunkLen
         /\ \A c \in Blocks \ {b} : blockMd5'[c] = blockMd5[c]
         /\ ChunkLen \in 1..Chunk /\ ChunkLen' = ChunkLen
<1>1. /\ pc = "read" /\ pc' = "read" /\ Valid /\ offset' = offset
      /\ context' = context
      /\ blockMd5' = [blockMd5 EXCEPT ![b] = @ \o Padded(b)]
      /\ CanRead(b)
  BY DEF ReadBlock, ReadInv
<1>2. /\ source \in [Source -> Seq(SourceCell)] /\ unread \subseteq Blocks
      /\ blockMd5 \in [Blocks -> Seq(AnyCell)] /\ offset < Block
      /\ Len(blockMd5[b]) = offset /\ b \in Blocks
  BY <1>1 DEF ReadInv
<1>3. blockMd5[b] \in Seq(AnyCell) /\ offset \in Nat
  BY <1>2
<1>4. /\ Padded(b) \in Seq(AnyCell) /\ Len(Padded(b)) = ChunkLen
      /\ ChunkLen \in 1..Chunk
  BY <1>1, <1>2, <1>3, ReadGives
<1>5. /\ blockMd5[b] \o Padded(b) \in Seq(AnyCell)
      /\ Len(blockMd5[b] \o Padded(b)) = offset + ChunkLen
  BY <1>2, <1>3, <1>4, ConcatProperties
<1>6. ChunkLen' = ChunkLen
  BY <1>1, SameSet DEF ChunkLen
<1> QED
  BY <1>1, <1>2, <1>3, <1>4, <1>5, <1>6

LEMMA ReadKeepsRead ==
  ASSUME JobInv, ReadInv, NEW b \in unread, ReadBlock(b)
  PROVE  ReadInv'
<1>1. /\ context' = context /\ source' = source /\ recovery' = recovery
      /\ offset' = offset /\ unread' = unread \ {b} /\ pc = "read"
  BY DEF ReadBlock
<1>2. /\ Valid' /\ Recovery' > 0
      /\ source' \in [Source' -> Seq(SourceCell)]
      /\ recovery' \in Seq(SUBSET Input')
      /\ offset' = Len(recovery') * Chunk' /\ offset' < Block'
      /\ unread' \subseteq Blocks'
  BY <1>1, SameSet DEF ReadInv
<1>3. blockMd5' \in [Blocks' -> Seq(AnyCell)]
  BY <1>1, SameSet, ReadAppends
<1>4. \A c \in Blocks' :
        Len(blockMd5'[c]) = IF c \in unread' THEN offset'
                            ELSE offset' + ChunkLen'
  <2> SUFFICES ASSUME NEW c \in Blocks
               PROVE  Len(blockMd5'[c]) = IF c \in unread' THEN offset'
                                          ELSE offset' + ChunkLen'
    BY <1>1, SameSet
  <2>1. CASE c = b
    BY <1>1, <2>1, ReadAppends
  <2>2. CASE c # b
    <3>1. blockMd5'[c] = blockMd5[c] /\ ChunkLen' = ChunkLen
      BY <2>2, ReadAppends
    <3> QED
      BY <1>1, <2>2, <3>1 DEF ReadInv
  <2> QED
    BY <2>1, <2>2
<1> QED
  BY <1>2, <1>3, <1>4 DEF ReadInv

LEMMA ReadKeepsStaged ==
  ASSUME JobInv, ReadInv, StagedInv, NEW b \in unread,
         ReadBlock(b)
  PROVE  StagedInv'
<1> DEFINE x == <<b, Padded(b)>>
<1>1. /\ context' = context /\ offset' = offset /\ unread' = unread \ {b}
      /\ pc = "read" /\ Stage(x)
  BY DEF ReadBlock
<1>2. /\ staged \in Seq(Input) /\ Len(staged) < Batch
      /\ sum \cap ToSet(staged) = {}
      /\ sum \cup ToSet(staged) = {<<c, Piece(c)>> : c \in Blocks \ unread}
  BY <1>1 DEF StagedInv
<1>3. x \in Input
  BY ReadAppends DEF Input
<1>4. x \notin sum /\ x \notin ToSet(staged)
  <2>1. x \notin {<<c, Piece(c)>> : c \in Blocks \ unread}
    OBVIOUS
  <2> HIDE DEF x
  <2> QED
    BY <1>2, <2>1
<1>5. /\ staged' \in Seq(Input) /\ Len(staged') < Batch
      /\ sum' \cap ToSet(staged') = {}
      /\ sum' \cup ToSet(staged') = sum \cup ToSet(staged) \cup {x}
  <2> HIDE DEF x
  <2> QED
    BY <1>1, <1>2, <1>3, <1>4, StageAdds
<1>6. Piece(b)' = Padded(b)
  <2>1. Piece(b)' = SubSeq(blockMd5[b] \o Padded(b), offset + 1,
                           offset + ChunkLen)
    BY <1>1, ReadAppends DEF Piece
  <2>2. offset = Len(blockMd5[b]) /\ ChunkLen = Len(Padded(b))
    BY ReadAppends
  <2>3. SubSeq(blockMd5[b] \o Padded(b), Len(blockMd5[b]) + 1,
               Len(blockMd5[b]) + Len(Padded(b))) = Padded(b)
    BY ReadAppends, EndOfConcat
  <2> QED
    BY <2>1, <2>2, <2>3
<1>7. \A c \in Blocks \ unread : Piece(c)' = Piece(c)
  BY <1>1, ReadAppends DEF Piece
<1>8. Blocks \ unread' = (Blocks \ unread) \cup {b}
  BY <1>1, ReadAppends
<1>9. {<<c, Piece(c)'>> : c \in Blocks \ unread'}
        = {<<c, Piece(c)>> : c \in Blocks \ unread} \cup {x}
  BY <1>6, <1>7, <1>8
<1>10. sum' \cup ToSet(staged') = {<<c, Piece(c)'>> : c \in Blocks \ unread'}
  BY <1>2, <1>5, <1>9
<1> QED
  BY <1>1, <1>5, <1>10, SameSet DEF StagedInv

LEMMA ReadKeepsRows ==
  ASSUME JobInv, ReadInv, RowsInv, NEW b \in unread,
         ReadBlock(b)
  PROVE  RowsInv'
<1>1. /\ context' = context /\ offset' = offset /\ recovery' = recovery
      /\ pc = "read"
  BY DEF ReadBlock
<1>2. /\ Block \in Nat \ {0} /\ Chunk \in 1..Block
      /\ offset = Len(recovery) * Chunk /\ offset < Block
      /\ recovery \in Seq(SUBSET Input)
  BY <1>1, SetFacts DEF ReadInv
<1>3. ASSUME NEW j \in DOMAIN recovery, NEW c \in Blocks
      PROVE  SubSeq(blockMd5'[c], (j - 1) * Chunk + 1, Lesser(j * Chunk, Block))
               = SubSeq(blockMd5[c], (j - 1) * Chunk + 1,
                        Lesser(j * Chunk, Block))
  <2>1. CASE c # b
    BY <2>1, ReadAppends
  <2>2. CASE c = b
    <3> DEFINE p == (j - 1) * Chunk
    <3>1. j \in Nat /\ j - 1 \in Nat /\ j <= Len(recovery) /\ Len(recovery) \in Nat
      BY <1>2
    <3>2. p \in Nat /\ j * Chunk = p + Chunk /\ j * Chunk \in Nat
      BY <1>2, <3>1
    <3>3. j * Chunk <= Len(recovery) * Chunk
      <4>1. j = Len(recovery) \/ j < Len(recovery)
        BY <3>1
      <4>2. j < Len(recovery) => j * Chunk + Chunk <= Len(recovery) * Chunk
        <5>1. Chunk \in Nat
          BY <1>2
        <5> QED
          BY <3>1, <5>1, LessIsLess
      <4>3. Len(recovery) * Chunk \in Nat
        BY <1>2, <3>1
      <4> QED
        BY <1>2, <3>2, <4>1, <4>2, <4>3
    <3> HIDE DEF p
    <3>4. Lesser(j * Chunk, Block) = p + Chunk /\ p + Chunk <= Len(blockMd5[b])
      <4>1. Len(blockMd5[b]) = offset /\ offset \in Nat
        BY ReadAppends
      <4> QED
        BY <1>2, <3>2, <3>3, <4>1 DEF Lesser
    <3>5. SubSeq(blockMd5[b] \o Padded(b), p + 1, p + Chunk)
            = SubSeq(blockMd5[b], p + 1, p + Chunk)
      <4>1. blockMd5[b] \in Seq(AnyCell) /\ Padded(b) \in Seq(AnyCell)
        BY ReadAppends
      <4>2. Chunk \in Nat
        BY <1>2
      <4> QED
        BY <3>2, <3>4, <4>1, <4>2, PartOfConcat
    <3>6. blockMd5'[b] = blockMd5[b] \o Padded(b)
      BY ReadAppends
    <3> QED
      BY <2>2, <3>4, <3>5, <3>6 DEF p
  <2> QED
    BY <2>1, <2>2
<1>4. \A j \in DOMAIN recovery : Row(j)' = Row(j)
  BY <1>1, <1>3, SameSet DEF Row
<1> QED
  BY <1>1, <1>4 DEF RowsInv

\* A chunk that ends is the next of the recovery slices, and they are complete
\* with the last one.
LEMMA EndChunkKeeps ==
  ASSUME JobInv, ReadInv, StagedInv, RowsInv, EndChunk
  PROVE  ReadInv' /\ StagedInv' /\ RowsInv' /\ RecoveryMatchesChecksums'
<1> DEFINE k == Len(recovery)
<1>1. /\ pc = "read" /\ unread = {} /\ context' = context
      /\ recovery' = Append(recovery, Added(staged))
      /\ staged' = <<>> /\ sum' = {} /\ offset' = offset + ChunkLen
      /\ source' = source /\ blockMd5' = blockMd5
      /\ IF offset' < Block THEN unread' = Blocks /\ pc' = "read"
         ELSE pc' = "outputs" /\ unread' = {}
  BY DEF EndChunk, BeginChunk
<1>2. /\ Block \in Nat \ {0} /\ Chunk \in 1..Block /\ Chunk \in Nat \ {0}
      /\ offset = k * Chunk /\ offset < Block
      /\ recovery \in Seq(SUBSET Input) /\ k \in Nat /\ offset \in Nat
      /\ blockMd5 \in [Blocks -> Seq(AnyCell)]
      /\ \A b \in Blocks : Len(blockMd5[b]) = offset + ChunkLen
  BY <1>1, SetFacts DEF ReadInv
<1>3. (k + 1) * Chunk = offset + Chunk
  BY <1>2
<1>4. /\ ChunkLen \in 1..Chunk
      /\ offset + ChunkLen = Lesser((k + 1) * Chunk, Block)
  <2> HIDE DEF k
  <2> QED
    BY <1>2, <1>3 DEF ChunkLen, Lesser
<1>5. Added(staged) = Row(k + 1)
  <2>1. Added(staged) = sum \cup ToSet(staged)
    BY <1>1 DEF StagedInv, Added
  <2>2. sum \cup ToSet(staged) = {<<b, Piece(b)>> : b \in Blocks}
    BY <1>1 DEF StagedInv
  <2>3. (k + 1 - 1) * Chunk = offset
    BY <1>2
  <2>4. Row(k + 1) = {<<b, Piece(b)>> : b \in Blocks}
    <3> DEFINE first == (k + 1 - 1) * Chunk
               last == Lesser((k + 1) * Chunk, Block)
    <3>1. first = offset /\ last = offset + ChunkLen
      BY <1>4, <2>3
    <3>2. Row(k + 1) = {<<b, SubSeq(blockMd5[b], first + 1, last)>> : b \in Blocks}
      BY DEF Row
    <3> HIDE DEF first, last, k
    <3> QED
      BY <3>1, <3>2 DEF Piece
  <2> QED
    BY <2>1, <2>2, <2>4
<1>6. Added(staged) \in SUBSET Input
  <2>1. sum \cup ToSet(staged) = {<<b, Piece(b)>> : b \in Blocks}
    BY <1>1 DEF StagedInv
  <2>2. ASSUME NEW b \in Blocks PROVE Piece(b) \in Seq(AnyCell)
    <3>1. blockMd5[b] \in Seq(AnyCell) /\ offset + ChunkLen <= Len(blockMd5[b])
      BY <1>2, <1>4
    <3>2. ChunkLen \in Nat
      BY <1>4
    <3> QED
      BY <1>2, <3>1, <3>2, SubSeqFacts DEF Piece
  <2> QED
    BY <2>1, <2>2 DEF Added, Input
<1>7. /\ recovery' \in Seq(SUBSET Input) /\ Len(recovery') = k + 1
      /\ DOMAIN recovery' = 1..(k + 1) /\ DOMAIN recovery = 1..k
      /\ \A j \in 1..k : recovery'[j] = recovery[j]
      /\ recovery'[k + 1] = Row(k + 1)
  <2> DEFINE r == Added(staged)
  <2>1. r \in SUBSET Input /\ r = Row(k + 1) /\ recovery' = Append(recovery, r)
    BY <1>1, <1>5, <1>6
  <2> HIDE DEF r
  <2> QED
    BY <1>2, <2>1
<1>8. \A j \in DOMAIN recovery' : recovery'[j] = Row(j)
  <2>1. \A j \in 1..k : recovery[j] = Row(j)
    BY <1>1, <1>7 DEF RowsInv
  <2>2. \A j \in 1..(k + 1) : j \in 1..k \/ j = k + 1
    BY <1>2
  <2> HIDE DEF k
  <2> QED
    BY <1>7, <2>1, <2>2
<1>9. \A j : Row(j)' = Row(j)
  BY <1>1, SameSet DEF Row
<1>10. CASE offset' < Block
  <2>1. /\ pc' = "read" /\ unread' = Blocks
        /\ offset' = (k + 1) * Chunk
    <3> HIDE DEF k
    <3> QED
      BY <1>1, <1>2, <1>3, <1>4, <1>10 DEF Lesser
  <2>2. ReadInv'
    <3>1. /\ Valid' /\ Recovery' > 0 /\ source' \in [Source' -> Seq(SourceCell)]
      BY <1>1, SameSet DEF ReadInv
    <3>2. /\ recovery' \in Seq(SUBSET Input')
          /\ offset' = Len(recovery') * Chunk' /\ offset' < Block'
          /\ unread' \subseteq Blocks'
          /\ blockMd5' \in [Blocks' -> Seq(AnyCell)]
      BY <1>1, <1>2, <1>7, <1>10, <2>1, SameSet
    <3>3. \A b \in Blocks' : Len(blockMd5'[b]) = offset'
      BY <1>1, <1>2, SameSet
    <3> QED
      BY <1>1, <2>1, <3>1, <3>2, <3>3, SameSet DEF ReadInv
  <2>3. StagedInv'
    <3>1. ToSet(staged') = {} /\ staged' \in Seq(Input') /\ Len(staged') = 0
      BY <1>1 DEF ToSet
    <3>2. Blocks' \ unread' = {}
      BY <1>1, <2>1, SameSet
    <3> QED
      BY <1>1, <3>1, <3>2, CreateAssumption DEF StagedInv
  <2>4. RowsInv'
    BY <1>8, <1>9 DEF RowsInv
  <2> QED
    BY <2>1, <2>2, <2>3, <2>4 DEF RecoveryMatchesChecksums, AllRead
<1>11. CASE ~(offset' < Block)
  <2>1. pc' = "outputs"
    BY <1>1, <1>11
  <2>2. CeilDiv(Block, Chunk) = k + 1
    <3>1. k * Chunk < Block /\ Block <= k * Chunk + Chunk
      <4> HIDE DEF k
      <4> QED
        BY <1>1, <1>2, <1>11 DEF ChunkLen, Lesser
    <3> QED
      BY <1>2, <3>1, PiecesAre
  <2>3. RecoveryMatchesChecksums'
    BY <1>1, <1>7, <1>8, <2>2, SameSet DEF RecoveryMatchesChecksums, Row
  <2> QED
    BY <2>1, <2>3 DEF ReadInv, StagedInv, RowsInv
<1> QED
  BY <1>10, <1>11

\* Nothing is read or hashed, and the command does not come back to it.
Idle ==
  /\ UNCHANGED <<job, context, source, reading>>
  /\ pc' = "scan" => pc = "scan"
  /\ pc' = "read" => pc = "read"
  /\ AllRead' => AllRead

LEMMA OtherStepsAreIdle ==
  ASSUME [Next]_vars
  PROVE  \/ Scan \/ EndChunk \/ (\E b \in unread : ReadBlock(b))
         \/ (\E f \in DOMAIN source : \E p \in DOMAIN source[f] : Change(f, p))
         \/ Idle
<1>1. CASE UNCHANGED vars
  BY <1>1, SameSet DEF vars, reading, Idle, AllRead
<1>2. CASE \E b \in unread : ReadFails(b)
  BY <1>2, SameSet DEF ReadFails, Stop, Idle, AllRead
<1>3. CASE CheckOutputs
  BY <1>3, SameSet DEF CheckOutputs, Stop, Idle, AllRead
<1>4. CASE OpenOutput \/ OpenFails
  BY <1>4, SameSet DEF OpenOutput, OpenFails, Stop, Idle, AllRead
<1>5. CASE FillOutput \/ FillFails \/ Finish
  BY <1>5, SameSet DEF FillOutput, FillFails, Finish, Stop, Idle, AllRead
<1>6. CASE \E p \in DOMAIN disk : Appear(p)
  BY <1>6, SameSet DEF Appear, Idle, AllRead
<1> QED
  BY <1>1, <1>2, <1>3, <1>4, <1>5, <1>6 DEF Next, Step, Environment

LEMMA IdleKeepsSums == ASSUME SumInv, Idle PROVE SumInv'
<1>1. /\ context' = context /\ job' = job /\ source' = source
      /\ offset' = offset /\ unread' = unread /\ blockMd5' = blockMd5
      /\ head' = head /\ fileMd5' = fileMd5
      /\ staged' = staged /\ sum' = sum /\ recovery' = recovery
  BY DEF Idle, reading
<1>2. /\ ChunkLen' = ChunkLen /\ \A j : Row(j)' = Row(j)
      /\ \A b : Piece(b)' = Piece(b)
  BY <1>1, SameSet DEF ChunkLen, Row, Piece
<1>3. JobInv' /\ StartInv'
  BY <1>1, SameSet DEF SumInv, Idle, JobInv, StartInv, HashesStart,
                       BackendStart
<1>4. ReadInv'
  BY <1>1, <1>2, SameSet DEF SumInv, Idle, ReadInv
<1>5. StagedInv'
  BY <1>1, <1>2, SameSet DEF SumInv, Idle, StagedInv
<1>6. RowsInv'
  BY <1>1, <1>2 DEF SumInv, Idle, RowsInv
<1>7. RecoveryMatchesChecksums'
  BY <1>1, SameSet DEF SumInv, Idle, RecoveryMatchesChecksums
<1> QED
  BY <1>3, <1>4, <1>5, <1>6, <1>7 DEF SumInv

\* Nothing was read when reading starts.
LEMMA ScanStarts ==
  ASSUME SumInv, Scan
  PROVE  SumInv'
<1>1. /\ pc = "scan" /\ context' = context /\ job' = job /\ source' = source
      /\ offset' = offset /\ blockMd5' = blockMd5
      /\ staged' = staged /\ sum' = sum /\ recovery' = recovery
      /\ pc' \in {"exit", "outputs", "read"}
      /\ pc' = "outputs" => Recovery = 0
      /\ pc' = "read" => Valid /\ Recovery # 0 /\ unread' = Blocks
  BY DEF Scan, Stop
<1>2. /\ offset = 0 /\ staged = <<>> /\ sum = {} /\ recovery = <<>>
      /\ source = [f \in Source |-> [p \in 1..Sizes[f] |-> Cell(p)]]
      /\ Valid => blockMd5 = [b \in Blocks |-> <<>>]
  BY <1>1 DEF SumInv, StartInv, HashesStart, BackendStart
<1>3. JobInv' /\ StartInv'
  BY <1>1 DEF SumInv, JobInv, StartInv
<1>4. RecoveryMatchesChecksums'
  BY <1>1, SameSet DEF RecoveryMatchesChecksums, AllRead
<1>5. ASSUME pc' = "read" PROVE ReadInv' /\ StagedInv' /\ RowsInv'
  <2>1. /\ Block \in Nat \ {0} /\ Chunk \in 1..Block /\ Recovery \in Nat
        /\ Sizes \in Seq(Nat \ {0}) /\ Source = 1..Len(Sizes)
    BY <1>1, <1>5, SetFacts DEF SumInv
  <2>2. source' \in [Source -> Seq(SourceCell)]
    <3>1. ASSUME NEW f \in Source
          PROVE  [p \in 1..Sizes[f] |-> Cell(p)] \in Seq(SourceCell)
      <4>1. Sizes[f] \in Nat
        BY <2>1
      <4>2. \A p \in 1..Sizes[f] : Cell(p) \in SourceCell
        BY <4>1 DEF Cell, SourceCell
      <4> QED
        BY <4>1, <4>2
    <3> QED
      BY <1>1, <1>2, <3>1
  <2>3. /\ blockMd5' \in [Blocks -> Seq(AnyCell)]
        /\ \A b \in Blocks : Len(blockMd5'[b]) = 0
    <3>1. <<>> \in Seq(AnyCell) /\ Len(<<>>) = 0
      OBVIOUS
    <3>2. blockMd5' = [b \in Blocks |-> <<>>]
      BY <1>1, <1>2, <1>5
    <3>3. blockMd5' \in [Blocks -> Seq(AnyCell)]
      BY <3>1, <3>2
    <3>4. \A b \in Blocks : blockMd5'[b] = <<>>
      BY <3>2
    <3> QED
      BY <3>1, <3>3, <3>4
  <2>4. /\ recovery' \in Seq(SUBSET Input) /\ Len(recovery') = 0
        /\ offset' = Len(recovery') * Chunk /\ offset' < Block
        /\ DOMAIN recovery' = {}
    BY <1>1, <1>2, <2>1
  <2>5. ReadInv'
    BY <1>1, <1>2, <1>5, <2>1, <2>2, <2>3, <2>4, SameSet DEF ReadInv
  <2>6. ToSet(staged') = {} /\ staged' \in Seq(Input) /\ Len(staged') = 0
    BY <1>1, <1>2 DEF ToSet
  <2>7. Blocks \ unread' = {}
    BY <1>1, <1>5
  <2>8. StagedInv'
    BY <1>1, <1>2, <2>6, <2>7, SameSet, CreateAssumption DEF StagedInv
  <2>9. RowsInv'
    BY <2>4 DEF RowsInv
  <2> QED
    BY <2>5, <2>8, <2>9
<1>6. pc' # "read" => ReadInv' /\ StagedInv' /\ RowsInv'
  BY DEF ReadInv, StagedInv, RowsInv
<1> QED
  BY <1>3, <1>4, <1>5, <1>6 DEF SumInv

\* A change of a source changes nothing that was read of it.
LEMMA ChangeKeepsSums ==
  ASSUME SumInv, NEW f \in DOMAIN source, NEW p \in DOMAIN source[f],
         Change(f, p)
  PROVE  SumInv'
<1>1. /\ pc = "read" /\ pc' = "read" /\ context' = context /\ job' = job
      /\ UNCHANGED reading
      /\ \/ source' = [source EXCEPT ![f][p] = <<p, 1>>]
         \/ source' = [source EXCEPT ![f] = SubSeq(@, 1, p - 1)]
  BY DEF Change
<1>2. source \in [Source -> Seq(SourceCell)]
  BY <1>1 DEF SumInv, ReadInv
<1>3. source' \in [Source -> Seq(SourceCell)]
  <2>1. source[f] \in Seq(SourceCell) /\ p \in 1..Len(source[f]) /\ f \in Source
    BY <1>2
  <2>2. CASE source' = [source EXCEPT ![f][p] = <<p, 1>>]
    <3>1. [source[f] EXCEPT ![p] = <<p, 1>>] \in Seq(SourceCell)
      <4>1. <<p, 1>> \in SourceCell
        BY <2>1 DEF SourceCell
      <4> QED
        BY <2>1, <4>1
    <3>2. source' = [source EXCEPT ![f] = [source[f] EXCEPT ![p] = <<p, 1>>]]
      BY <2>2
    <3> HIDE <2>2
    <3> QED
      BY <1>2, <3>1, <3>2
  <2>3. CASE source' = [source EXCEPT ![f] = SubSeq(@, 1, p - 1)]
    <3>1. SubSeq(source[f], 1, p - 1) \in Seq(SourceCell)
      <4>1. \A i \in 1..(p - 1) : source[f][i] \in SourceCell
        BY <2>1
      <4> QED
        BY <2>1, <4>1, SubSeqProperties
    <3> QED
      BY <1>2, <2>3, <3>1
  <2> QED
    BY <1>1, <2>2, <2>3
<1>4. /\ offset' = offset /\ unread' = unread /\ blockMd5' = blockMd5
      /\ staged' = staged /\ sum' = sum /\ recovery' = recovery
  BY <1>1 DEF reading
<1>5. /\ ChunkLen' = ChunkLen /\ \A j : Row(j)' = Row(j)
      /\ \A b : Piece(b)' = Piece(b)
  BY <1>1, <1>4, SameSet DEF ChunkLen, Row, Piece
<1>6. JobInv' /\ StartInv'
  BY <1>1 DEF SumInv, JobInv, StartInv
<1>7. ReadInv'
  BY <1>1, <1>3, <1>4, <1>5, SameSet DEF SumInv, ReadInv
<1>8. StagedInv' /\ RowsInv' /\ RecoveryMatchesChecksums'
  BY <1>1, <1>4, <1>5, SameSet
     DEF SumInv, StagedInv, RowsInv, RecoveryMatchesChecksums, AllRead
<1> QED
  BY <1>6, <1>7, <1>8 DEF SumInv

LEMMA SumsStart == Init => SumInv
<1> SUFFICES ASSUME Init PROVE SumInv
  OBVIOUS
<1>1. pc = "scan"
  BY DEF Init
<1>2. JobInv /\ StartInv
  BY DEF Init, JobInv, StartInv
<1> QED
  BY <1>1, <1>2 DEF SumInv, ReadInv, StagedInv, RowsInv,
                    RecoveryMatchesChecksums, AllRead

LEMMA SumsStay == ASSUME SumInv, [Next]_vars PROVE SumInv'
<1>1. CASE Scan
  BY <1>1, ScanStarts
<1>2. CASE EndChunk
  <2>1. ReadInv' /\ StagedInv' /\ RowsInv' /\ RecoveryMatchesChecksums'
    BY <1>2, EndChunkKeeps DEF SumInv
  <2>2. JobInv' /\ StartInv'
    BY <1>2 DEF SumInv, EndChunk, JobInv, StartInv
  <2> QED
    BY <2>1, <2>2 DEF SumInv
<1>3. CASE \E b \in unread : ReadBlock(b)
  <2> PICK b \in unread : ReadBlock(b)
    BY <1>3
  <2>1. ReadInv' /\ StagedInv' /\ RowsInv'
    BY ReadKeepsRead, ReadKeepsStaged, ReadKeepsRows DEF SumInv
  <2>2. pc' = "read" /\ job' = job /\ context' = context
    BY DEF ReadBlock
  <2>3. JobInv' /\ StartInv' /\ RecoveryMatchesChecksums'
    BY <2>2 DEF SumInv, JobInv, StartInv, RecoveryMatchesChecksums, AllRead
  <2> QED
    BY <2>1, <2>3 DEF SumInv
<1>4. CASE \E f \in DOMAIN source : \E p \in DOMAIN source[f] : Change(f, p)
  BY <1>4, ChangeKeepsSums
<1>5. CASE Idle
  BY <1>5, IdleKeepsSums
<1> QED
  BY <1>1, <1>2, <1>3, <1>4, <1>5, OtherStepsAreIdle

\* The recovery slices are computed from exactly the content whose checksums
\* the set records, each block added once, for all sizes of sources, blocks,
\* chunks and batches, whatever other programs do to the sources meanwhile
\* (encode_and_hash_files, CreateRecoveryBackend).
THEOREM SlicesMatchChecksums ==
  Spec => []RecoveryMatchesChecksums
<1>1. SumInv => RecoveryMatchesChecksums
  BY DEF SumInv
<1> QED
  BY <1>1, SumsStart, SumsStay, PTL DEF Spec

\* A command that goes on does what it was asked for, for every command line and
\* all sizes of sources: block size, number of slices, volumes and memory are as
\* the options say (handle_create, the builder, calculate_block_size,
\* calculate_recovery_blocks, plan_recovery_files).
THEOREM PlanAsAsked == Spec => []PlanIsAsAsked
<1>1. SumInv => PlanIsAsAsked
  <2> SUFFICES ASSUME JobInv, Valid
               PROVE  /\ BlocksAsAsked(job.asked) /\ SlicesAsAsked(job.asked)
                      /\ VolumesAsAsked(job.asked) /\ MemoryAsAsked(job.asked)
    BY DEF SumInv, PlanIsAsAsked
  <2> QED
    BY BlocksComeAsAsked, SlicesComeAsAsked, VolumesComeAsAsked, MemoryComesAsAsked
<1> QED
  BY <1>1, SumsStart, SumsStay, PTL DEF Spec

-----------------------------------------------------------------------------
(* One content *)

\* The cells of a block after a read: those before, then what was read.
LEMMA ReadCells ==
  ASSUME JobInv, ReadInv, NEW b \in unread, ReadBlock(b)
  PROVE  /\ offset < Block /\ offset + ChunkLen <= Block
         /\ Position(b) = (b[2] - 1) * Block + offset /\ Position(b) \in Nat
         /\ ToRead(b) \in 0..ChunkLen
         /\ CellsRead(b) \in Seq(SourceCell) /\ Len(CellsRead(b)) = ToRead(b)
         /\ DOMAIN blockMd5[b] = 1..offset
         /\ DOMAIN blockMd5'[b] = 1..(offset + ChunkLen)
         /\ \A k \in 1..offset : blockMd5'[b][k] = blockMd5[b][k]
         /\ \A m \in 1..ChunkLen :
              /\ m <= ToRead(b) <=> Position(b) + m <= Sizes[b[1]]
              /\ m <= ToRead(b) =>
                   /\ blockMd5'[b][offset + m] = source[b[1]][Position(b) + m]
                   /\ blockMd5'[b][offset + m] = CellsRead(b)[m]
              /\ m > ToRead(b) => blockMd5'[b][offset + m] = Zero
<1>1. /\ pc = "read" /\ CanRead(b) /\ Valid
      /\ source \in [Source -> Seq(SourceCell)] /\ offset < Block
      /\ b \in Blocks /\ offset \in Nat
  BY ReadAppends DEF ReadBlock, ReadInv
<1>2. /\ offset + ChunkLen <= Block /\ ChunkLen \in 1..Chunk
      /\ Position(b) = (b[2] - 1) * Block + offset /\ Position(b) \in Nat
      /\ ToRead(b) \in 0..ChunkLen
      /\ CellsRead(b) \in Seq(SourceCell) /\ Len(CellsRead(b)) = ToRead(b)
      /\ \A m \in 1..ToRead(b) :
           CellsRead(b)[m] = source[b[1]][Position(b) + m]
      /\ \A m \in 1..ChunkLen :
           /\ m <= ToRead(b) <=> Position(b) + m <= Sizes[b[1]]
           /\ m <= ToRead(b) => Padded(b)[m] = CellsRead(b)[m]
           /\ m > ToRead(b) => Padded(b)[m] = Zero
  BY <1>1, ReadGives
<1>3. /\ blockMd5[b] \in Seq(AnyCell) /\ Len(blockMd5[b]) = offset
      /\ Padded(b) \in Seq(AnyCell) /\ Len(Padded(b)) = ChunkLen
      /\ blockMd5'[b] = blockMd5[b] \o Padded(b)
  BY ReadAppends
<1>4. /\ DOMAIN blockMd5[b] = 1..offset
      /\ DOMAIN blockMd5'[b] = 1..(offset + ChunkLen)
      /\ \A k \in 1..offset : blockMd5'[b][k] = blockMd5[b][k]
      /\ \A m \in 1..ChunkLen : blockMd5'[b][offset + m] = Padded(b)[m]
  BY <1>3
<1>5. ASSUME NEW m \in 1..ChunkLen
      PROVE  /\ m <= ToRead(b) =>
                  /\ blockMd5'[b][offset + m] = source[b[1]][Position(b) + m]
                  /\ blockMd5'[b][offset + m] = CellsRead(b)[m]
             /\ m > ToRead(b) => blockMd5'[b][offset + m] = Zero
  <2>1. m <= ToRead(b) => m \in 1..ToRead(b)
    BY <1>2
  <2> QED
    BY <1>2, <1>4, <2>1
<1> QED
  BY <1>1, <1>2, <1>4, <1>5

LEMMA SourceCellFacts == \A c \in SourceCell : c # Zero
  BY DEF SourceCell, Zero

LEMMA ReadKeepsPadded ==
  ASSUME JobInv, ReadInv, PaddedInv, NEW b \in unread,
         ReadBlock(b)
  PROVE  PaddedInv'
<1>1. pc = "read" /\ context' = context /\ b \in Blocks /\ Valid
  BY ReadAppends DEF ReadBlock, ReadInv
<1>2. ASSUME NEW c \in Blocks, NEW k \in DOMAIN blockMd5'[c]
      PROVE  blockMd5'[c][k] = Zero <=> (c[2] - 1) * Block + k > Sizes[c[1]]
  <2>1. CASE c # b
    <3>1. blockMd5'[c] = blockMd5[c]
      BY <2>1, ReadAppends
    <3> QED
      BY <1>1, <3>1 DEF PaddedInv
  <2>2. CASE c = b /\ k \in 1..offset
    <3>1. k \in DOMAIN blockMd5[b] /\ blockMd5'[b][k] = blockMd5[b][k]
      BY <2>2, ReadCells
    <3> QED
      BY <1>1, <2>2, <3>1 DEF PaddedInv
  <2>3. CASE c = b /\ k \notin 1..offset
    <3> DEFINE m == k - offset
               z == (b[2] - 1) * Block
    <3>1. /\ offset \in Nat /\ ChunkLen \in Nat /\ k \in 1..(offset + ChunkLen)
          /\ z \in Nat /\ Position(b) = z + offset /\ ToRead(b) \in 0..ChunkLen
          /\ Sizes[b[1]] \in Nat
      BY <1>1, <2>3, ReadCells, ReadAppends, BlockFacts
    <3> HIDE DEF z
    <3>2. m \in 1..ChunkLen /\ k = offset + m /\ Position(b) + m = z + k
      BY <2>3, <3>1
    <3> HIDE DEF m
    <3>3. /\ m <= ToRead(b) <=> Position(b) + m <= Sizes[b[1]]
          /\ m <= ToRead(b) =>
               blockMd5'[b][offset + m] = source[b[1]][Position(b) + m]
          /\ m > ToRead(b) => blockMd5'[b][offset + m] = Zero
      BY <3>2, ReadCells
    <3>4. m <= ToRead(b) => blockMd5'[b][k] # Zero
      <4> SUFFICES ASSUME m <= ToRead(b) PROVE blockMd5'[b][k] # Zero
        OBVIOUS
      <4>1. /\ CellsRead(b) \in Seq(SourceCell) /\ Len(CellsRead(b)) = ToRead(b)
            /\ blockMd5'[b][offset + m] = CellsRead(b)[m]
        BY <3>2, ReadCells
      <4>2. CellsRead(b)[m] \in SourceCell
        BY <3>1, <3>2, <4>1
      <4> QED
        BY <3>2, <4>1, <4>2, SourceCellFacts
    <3>5. m \in Nat /\ ToRead(b) \in Nat /\ z + k \in Nat
      BY <3>1, <3>2
    <3>6. CASE m <= ToRead(b)
      <4>1. z + k <= Sizes[b[1]] /\ blockMd5'[b][k] # Zero
        BY <3>2, <3>3, <3>4, <3>6
      <4> QED
        BY <2>3, <3>1, <3>5, <4>1 DEF z
    <3>7. CASE ~(m <= ToRead(b))
      <4>1. ~(z + k <= Sizes[b[1]]) /\ blockMd5'[b][k] = Zero
        BY <3>2, <3>3, <3>5, <3>7
      <4> QED
        BY <2>3, <3>1, <3>5, <4>1 DEF z
    <3> QED
      BY <3>6, <3>7
  <2> QED
    BY <2>1, <2>2, <2>3
<1> QED
  BY <1>1, <1>2, SameSet DEF PaddedInv

LEMMA ReadKeepsHead ==
  ASSUME JobInv, ReadInv, HeadInv, NEW b \in unread,
         ReadBlock(b)
  PROVE  HeadInv'
<1>1. pc = "read" /\ context' = context /\ b \in Blocks /\ Valid
  BY ReadAppends DEF ReadBlock, ReadInv
<1> DEFINE f == b[1]
           isRead(p) == p > Position(b) /\ p <= Position(b) + ToRead(b)
<1>2. /\ f \in Source /\ Sizes[f] \in Nat \ {0} /\ Block \in Nat \ {0}
      /\ b[2] - 1 \in Nat /\ (b[2] - 1) * Block \in Nat /\ b = <<f, b[2]>>
  BY <1>1, BlockFacts, SetFacts
<1>3. /\ DOMAIN head = Source
      /\ \A g \in Source : DOMAIN head[g] = 1..Lesser(Sizes[g], HeadCells)
  BY <1>1 DEF HeadInv
<1>4. /\ DOMAIN head' = Source
      /\ \A g \in Source : DOMAIN head'[g] = DOMAIN head[g]
      /\ \A g \in Source \ {f} : head'[g] = head[g]
      /\ \A p \in DOMAIN head[f] :
           head'[f][p] = IF isRead(p) THEN source[f][p] ELSE head[f][p]
  <2>1. head' = [head EXCEPT ![f] =
                   [p \in DOMAIN head[f] |->
                      IF isRead(p) THEN source[f][p] ELSE head[f][p]]]
    BY DEF ReadBlock
  <2> HIDE DEF isRead, f
  <2> QED
    BY <1>2, <1>3, <2>1
<1>5. ASSUME NEW c \in Blocks, NEW k \in DOMAIN blockMd5'[c],
             (c[2] - 1) * Block + k \in DOMAIN head'[c[1]]
      PROVE  head'[c[1]][(c[2] - 1) * Block + k] = blockMd5'[c][k]
  <2> DEFINE p == (c[2] - 1) * Block + k
  <2>0. /\ c[1] \in Source /\ c = <<c[1], c[2]>> /\ c[2] - 1 \in Nat
        /\ (c[2] - 1) * Block \in Nat
    BY <1>1, BlockFacts
  <2>1. /\ \A d \in Blocks : \A l \in DOMAIN blockMd5[d] :
             LET q == (d[2] - 1) * Block + l
             IN  q \in DOMAIN head[d[1]] => head[d[1]][q] = blockMd5[d][l]
        /\ p \in DOMAIN head[c[1]]
    BY <1>1, <1>4, <1>5, <2>0 DEF HeadInv
  <2>2. CASE c # b /\ c[1] # f
    <3>1. blockMd5'[c] = blockMd5[c] /\ head'[c[1]] = head[c[1]]
      BY <1>4, <2>0, <2>2, ReadAppends
    <3> QED
      BY <2>1, <3>1
  <2>3. CASE c # b /\ c[1] = f
    <3>1. blockMd5'[c] = blockMd5[c] /\ c[2] # b[2]
      BY <1>2, <2>0, <2>3, ReadAppends
    <3>2. k \in 1..Block
      <4>1. /\ Len(blockMd5[c]) <= Block /\ blockMd5[c] \in Seq(AnyCell)
        <5>1. offset \in Nat /\ ChunkLen \in Nat /\ offset + ChunkLen <= Block
          BY ReadCells, ReadAppends
        <5> QED
          BY <1>1, <1>2, <5>1 DEF ReadInv
      <4>2. k \in 1..Len(blockMd5[c])
        BY <3>1, <4>1
      <4> QED
        BY <1>2, <4>1, <4>2
    <3>3. ~isRead(p)
      <4> SUFFICES ASSUME isRead(p) PROVE FALSE
        OBVIOUS
      <4> DEFINE l == p - (b[2] - 1) * Block
                 x == (b[2] - 1) * Block
                 y == (c[2] - 1) * Block
      <4>1. /\ Position(b) = x + offset /\ offset \in Nat /\ x \in Nat
            /\ ToRead(b) \in 0..ChunkLen /\ offset + ChunkLen <= Block
            /\ ChunkLen \in Nat /\ y \in Nat /\ p = y + k
        BY <1>2, <2>0, ReadCells, ReadAppends
      <4>2. l = p - x /\ isRead(p)
        OBVIOUS
      <4> HIDE DEF x, y, l, p
      <4>3. l \in 1..Block /\ x + l = y + k
        BY <1>2, <3>2, <4>1, <4>2
      <4>4. b[2] - 1 = c[2] - 1
        BY <1>2, <2>0, <3>2, <4>3, PlaceIsUnique DEF x, y
      <4> QED
        BY <1>1, <2>0, <3>1, <4>4, BlockFacts
    <3>4. head'[f][p] = head[f][p]
      BY <1>4, <2>1, <2>3, <3>3
    <3> QED
      BY <2>1, <2>3, <3>1, <3>4
  <2>4. CASE c = b /\ k \in 1..offset
    <3>1. k \in DOMAIN blockMd5[b] /\ blockMd5'[b][k] = blockMd5[b][k]
      BY <2>4, ReadCells
    <3>2. ~isRead(p)
      <4> DEFINE x == (b[2] - 1) * Block
      <4>1. p = x + k /\ Position(b) = x + offset /\ offset \in Nat /\ x \in Nat
        BY <1>2, <2>4, ReadCells, ReadAppends
      <4> HIDE DEF x, p
      <4> QED
        BY <2>4, <4>1
    <3>3. head'[f][p] = head[f][p]
      BY <1>4, <2>1, <2>4, <3>2
    <3> QED
      BY <2>1, <2>4, <3>1, <3>3
  <2>5. CASE c = b /\ k \notin 1..offset
    <3> DEFINE m == k - offset
               x == (b[2] - 1) * Block
    <3>1. /\ offset \in Nat /\ ChunkLen \in Nat /\ k \in 1..(offset + ChunkLen)
          /\ x \in Nat /\ Position(b) = x + offset /\ ToRead(b) \in 0..ChunkLen
          /\ p = x + k
      BY <1>2, <2>5, ReadCells, ReadAppends
    <3>2. p <= Sizes[f]
      <4>1. p \in 1..Lesser(Sizes[f], HeadCells)
        BY <1>2, <1>3, <2>1, <2>5
      <4> HIDE DEF p
      <4> QED
        BY <1>2, <4>1, CreateAssumption DEF Lesser
    <3> HIDE DEF x, p
    <3>3. m \in 1..ChunkLen /\ k = offset + m /\ Position(b) + m = p
      BY <2>5, <3>1
    <3> HIDE DEF m
    <3>4. m <= ToRead(b) /\ blockMd5'[b][offset + m] = source[f][Position(b) + m]
      BY <3>2, <3>3, ReadCells
    <3>5. isRead(p)
      BY <3>1, <3>3, <3>4
    <3>6. head'[f][p] = source[f][p]
      BY <1>4, <2>1, <2>5, <3>5
    <3> QED
      BY <2>5, <3>3, <3>4, <3>6 DEF p
  <2> QED
    BY <2>2, <2>3, <2>4, <2>5
<1>6. /\ DOMAIN head' = Source'
      /\ \A g \in Source' : DOMAIN head'[g] = 1..Lesser(Sizes'[g], HeadCells)
  BY <1>1, <1>3, <1>4, SameSet
<1> QED
  BY <1>1, <1>5, <1>6, SameSet DEF HeadInv

LEMMA ReadKeepsOrder ==
  ASSUME JobInv, ReadInv, OrderInv, NEW b \in unread,
         ReadBlock(b)
  PROVE  OrderInv'
<1>1. /\ pc = "read" /\ context' = context /\ b \in Blocks /\ Valid /\ IsNext(b)
      /\ unread' = unread \ {b}
      /\ fileMd5' = [fileMd5 EXCEPT ![b[1]] = @ \o CellsRead(b)]
  BY ReadAppends DEF ReadBlock, ReadInv
<1>2. SUFFICES ASSUME Chunk = Block PROVE OrderInv'
  BY <1>1, SameSet DEF OrderInv
<1> DEFINE g == b[1]
<1>3. /\ Block \in Nat \ {0} /\ g \in Source /\ b = <<g, b[2]>>
      /\ b[2] \in 1..CeilDiv(Sizes[g], Block) /\ Sizes[g] \in Nat \ {0}
      /\ CeilDiv(Sizes[g], Block) \in Nat
  <2>1. Block \in Nat \ {0}
    BY <1>1, SetFacts
  <2>2. /\ g \in Source /\ b = <<g, b[2]>> /\ Sizes[g] \in Nat \ {0}
        /\ b[2] \in 1..CeilDiv(Sizes[g], Block)
    BY <1>1, BlockFacts
  <2> QED
    BY <2>1, <2>2, PiecesCover
\* All of the block is one chunk.
<1>4. offset = 0 /\ ChunkLen = Block
  <2>1. /\ offset = Len(recovery) * Block /\ offset < Block
        /\ Len(recovery) \in Nat
    BY <1>1, <1>2 DEF ReadInv
  <2>2. ~(0 < Len(recovery))
    <3>1. 0 < Len(recovery) => 0 * Block + Block <= Len(recovery) * Block
      BY <1>3, <2>1, LessIsLess
    <3>2. 0 * Block = 0 /\ Len(recovery) * Block \in Nat
      BY <1>3, <2>1
    <3> QED
      BY <1>3, <2>1, <3>1, <3>2
  <2>3. Len(recovery) = 0
    BY <2>1, <2>2
  <2>4. offset = 0
    BY <1>3, <2>1, <2>3
  <2> QED
    BY <1>2, <1>3, <2>4 DEF ChunkLen, Lesser
<1>5. fileMd5 \in [Source -> Seq(SourceCell)]
  BY <1>1, <1>2 DEF OrderInv
<1>6. /\ CellsRead(b) \in Seq(SourceCell) /\ Len(CellsRead(b)) = ToRead(b)
      /\ ToRead(b) \in 0..Block
  BY <1>4, ReadCells
<1>7. /\ fileMd5' \in [Source -> Seq(SourceCell)]
      /\ fileMd5'[g] = fileMd5[g] \o CellsRead(b)
      /\ \A f \in Source \ {g} : fileMd5'[f] = fileMd5[f]
  <2>1. fileMd5[g] \o CellsRead(b) \in Seq(SourceCell)
    BY <1>3, <1>5, <1>6, ConcatProperties
  <2> HIDE DEF g
  <2> QED
    BY <1>1, <1>3, <1>5, <2>1 DEF g
<1>8. ASSUME NEW f \in Source, f # g
      PROVE  IsReadInOrder(f)'
  <2>1. PICK n \in 0..CeilDiv(Sizes[f], Block) :
          /\ \A i \in 1..CeilDiv(Sizes[f], Block) : <<f, i>> \in unread <=> i > n
          /\ Len(fileMd5[f]) = Lesser(n * Block, Sizes[f])
          /\ \A i \in 1..n : \A k \in 1..Block :
               (i - 1) * Block + k <= Sizes[f] =>
                 fileMd5[f][(i - 1) * Block + k] = blockMd5[<<f, i>>][k]
    BY <1>1, <1>2 DEF OrderInv, IsReadInOrder
  <2>2. \A i : <<f, i>> # b
    BY <1>3, <1>8
  <2>3. CeilDiv(Sizes[f], Block) \in Nat
    <3>1. Sizes[f] \in Nat
      BY <1>1, SetFacts
    <3> QED
      BY <1>3, <3>1, PiecesCover
  <2>4. \A i \in 1..n : <<f, i>> \in Blocks /\ blockMd5'[<<f, i>>] = blockMd5[<<f, i>>]
    <3>1. \A i \in 1..n : i \in 1..CeilDiv(Sizes[f], Block)
      BY <2>1, <2>3
    <3>2. \A i \in 1..n : <<f, i>> \in Blocks
      BY <1>1, <3>1, BlockFacts
    <3> QED
      BY <2>2, <3>2, ReadAppends
  <2>5. fileMd5'[f] = fileMd5[f]
    BY <1>7, <1>8
  <2>6. \A i : <<f, i>> \in unread' <=> <<f, i>> \in unread
    BY <1>1, <2>2
  <2>7. \E m \in 0..CeilDiv(Sizes[f], Block) :
          /\ \A i \in 1..CeilDiv(Sizes[f], Block) : <<f, i>> \in unread' <=> i > m
          /\ Len(fileMd5'[f]) = Lesser(m * Block, Sizes[f])
          /\ \A i \in 1..m : \A k \in 1..Block :
               (i - 1) * Block + k <= Sizes[f] =>
                 fileMd5'[f][(i - 1) * Block + k] = blockMd5'[<<f, i>>][k]
    BY <2>1, <2>4, <2>5, <2>6
  <2> QED
    BY <1>1, <2>7, SameSet DEF IsReadInOrder
<1>9. \E n \in 0..CeilDiv(Sizes[g], Block) :
        /\ \A i \in 1..CeilDiv(Sizes[g], Block) : <<g, i>> \in unread' <=> i > n
        /\ Len(fileMd5'[g]) = Lesser(n * Block, Sizes[g])
        /\ \A i \in 1..n : \A k \in 1..Block :
             (i - 1) * Block + k <= Sizes[g] =>
               fileMd5'[g][(i - 1) * Block + k] = blockMd5'[<<g, i>>][k]
  <2> DEFINE N == CeilDiv(Sizes[g], Block)
  <2>1. PICK n \in 0..N :
          /\ \A i \in 1..N : <<g, i>> \in unread <=> i > n
          /\ Len(fileMd5[g]) = Lesser(n * Block, Sizes[g])
          /\ \A i \in 1..n : \A k \in 1..Block :
               (i - 1) * Block + k <= Sizes[g] =>
                 fileMd5[g][(i - 1) * Block + k] = blockMd5[<<g, i>>][k]
    BY <1>1, <1>2, <1>3 DEF OrderInv, IsReadInOrder
  \* Blocks are read in order, so this one is the next of its source.
  <2>2. b = <<g, n + 1>> /\ n + 1 \in 1..N /\ n < N /\ n \in Nat
    <3>1. b[2] > n /\ b[2] \in 1..N /\ n \in Nat /\ N \in Nat
      <4>1. <<g, b[2]>> \in unread
        BY <1>3
      <4> QED
        BY <1>3, <2>1, <4>1
    <3> HIDE DEF N, g
    <3>2. n + 1 \in 1..N /\ n + 1 > n
      BY <3>1
    <3>3. <<g, n + 1>> \in unread
      BY <2>1, <3>2
    <3>4. <<g, n + 1>> = b \/ Before(b, <<g, n + 1>>)
      BY <1>1, <3>3 DEF IsNext
    <3>5. ~(b[2] < n + 1) /\ ~(g < g) /\ b[1] = g
      <4>1. g \in Nat
        BY <1>1, <1>3, SetFacts
      <4> QED
        BY <3>1, <4>1 DEF g
    <3>6. ~Before(b, <<g, n + 1>>)
      BY <3>5 DEF Before
    <3> QED
      BY <3>1, <3>2, <3>4, <3>6
  <2> HIDE DEF N, g
  <2> DEFINE z == n * Block
  <2>3. z \in Nat /\ z < Sizes[g] /\ (n + 1) * Block = z + Block
    <3>1. \A i \in Nat : i < N => i * Block < Sizes[g]
      BY <1>3, PiecesCover DEF N
    <3>2. z \in Nat /\ (n + 1) * Block = z + Block
      BY <1>3, <2>2
    <3> QED
      BY <2>2, <3>1, <3>2
  <2>4. Position(b) = z
    <3>1. b[2] - 1 = n
      BY <2>2
    <3> QED
      BY <1>4, <2>3, <3>1, ReadCells
  <2>5. Len(fileMd5[g]) = z
    BY <1>3, <2>1, <2>3 DEF Lesser
  <2>6. ASSUME NEW m \in 1..Block
        PROVE  /\ m <= ToRead(b) <=> z + m <= Sizes[g]
               /\ m <= ToRead(b) => blockMd5'[b][m] = CellsRead(b)[m]
    <3>1. /\ m <= ToRead(b) <=> z + m <= Sizes[g]
          /\ m <= ToRead(b) => blockMd5'[b][offset + m] = CellsRead(b)[m]
      BY <1>4, <2>4, ReadCells DEF g
    <3>2. offset + m = m
      BY <1>4
    <3> QED
      BY <3>1, <3>2
  <2> HIDE DEF z
  <2>7. z + ToRead(b) = Lesser(z + Block, Sizes[g])
    <3>1. CASE z + Block <= Sizes[g]
      <4>1. Block <= ToRead(b)
        BY <1>3, <2>3, <2>6, <3>1
      <4>2. ToRead(b) = Block
        BY <1>3, <1>6, <4>1
      <4> QED
        BY <3>1, <4>2 DEF Lesser
    <3>2. CASE ~(z + Block <= Sizes[g])
      <4> DEFINE d == Sizes[g] - z
      <4>1. d \in 1..Block /\ d + 1 \in 1..Block /\ z + d = Sizes[g]
        BY <1>3, <2>3, <3>2
      <4> HIDE DEF d
      <4>2. d <= ToRead(b) /\ ~(d + 1 <= ToRead(b))
        BY <1>3, <2>3, <2>6, <4>1
      <4>3. ToRead(b) = d
        BY <1>3, <1>6, <4>1, <4>2
      <4> QED
        BY <3>2, <4>1, <4>3 DEF Lesser
    <3>3. z + Block \in Nat /\ Sizes[g] \in Nat
      BY <1>3, <2>3
    <3> QED
      BY <3>1, <3>2
  <2>8. Len(fileMd5'[g]) = Lesser((n + 1) * Block, Sizes[g])
    <3>1. Len(fileMd5'[g]) = z + ToRead(b)
      <4> DEFINE s == fileMd5[g]
                 t == CellsRead(b)
      <4>1. /\ s \in Seq(SourceCell) /\ t \in Seq(SourceCell)
            /\ Len(s) = z /\ Len(t) = ToRead(b)
        BY <1>3, <1>5, <1>6, <2>5
      <4>2. fileMd5'[g] = s \o t
        BY <1>7 DEF g
      <4> HIDE DEF s, t
      <4>3. Len(s \o t) = Len(s) + Len(t)
        BY <4>1
      <4> QED
        BY <4>1, <4>2, <4>3
    <3> QED
      BY <2>3, <2>7, <3>1
  <2>9. \A i \in 1..N : <<g, i>> \in unread' <=> i > n + 1
    BY <1>1, <1>3, <2>1, <2>2 DEF N
  <2>10. ASSUME NEW i \in 1..(n + 1), NEW k \in 1..Block,
                (i - 1) * Block + k <= Sizes[g]
         PROVE  fileMd5'[g][(i - 1) * Block + k] = blockMd5'[<<g, i>>][k]
    <3>1. /\ \A j \in 1..z : fileMd5'[g][j] = fileMd5[g][j]
          /\ \A j \in 1..ToRead(b) : fileMd5'[g][z + j] = CellsRead(b)[j]
      <4> DEFINE s == fileMd5[g]
                 t == CellsRead(b)
      <4>1. /\ s \in Seq(SourceCell) /\ t \in Seq(SourceCell)
            /\ Len(s) = z /\ Len(t) = ToRead(b) /\ fileMd5'[g] = s \o t
            /\ ToRead(b) \in Nat /\ z \in Nat
        BY <1>3, <1>5, <1>6, <1>7, <2>3, <2>5
      <4> HIDE DEF s, t
      <4>2. /\ \A j \in 1..z : fileMd5'[g][j] = s[j]
            /\ \A j \in 1..ToRead(b) : fileMd5'[g][z + j] = t[j]
        BY <4>1
      <4> QED
        BY <4>2 DEF s, t
    <3>2. CASE i \in 1..n
      <4>1. (i - 1) * Block \in Nat /\ (i - 1) * Block + Block <= z
        <5>1. i - 1 \in Nat /\ i - 1 < n /\ Block \in Nat
          BY <1>3, <2>2, <3>2
        <5> QED
          BY <2>2, <5>1, LessIsLess DEF z
      <4> DEFINE y == (i - 1) * Block
      <4> HIDE DEF y
      <4>2. y + k \in 1..z
        BY <1>3, <2>3, <4>1 DEF y
      <4>3. fileMd5[g][y + k] = blockMd5[<<g, i>>][k]
        BY <2>1, <2>10, <3>2 DEF y
      <4>4. blockMd5'[<<g, i>>] = blockMd5[<<g, i>>]
        <5>1. i \in 1..N /\ i # n + 1
          BY <2>2, <3>2, <1>3 DEF N
        <5>2. <<g, i>> \in Blocks /\ <<g, i>> # b
          BY <1>1, <1>3, <2>2, <5>1, BlockFacts DEF N
        <5> QED
          BY <5>2, ReadAppends
      <4> QED
        BY <3>1, <4>2, <4>3, <4>4 DEF y
    <3>3. CASE i = n + 1
      <4>1. (i - 1) * Block = z /\ <<g, i>> = b
        <5>1. i - 1 = n
          BY <2>2, <3>3
        <5> QED
          BY <2>2, <3>3, <5>1 DEF z
      <4>2. k <= ToRead(b) /\ blockMd5'[b][k] = CellsRead(b)[k]
        BY <2>6, <2>10, <4>1
      <4>3. k \in 1..ToRead(b)
        BY <1>3, <1>6, <4>2
      <4> QED
        BY <3>1, <4>1, <4>2, <4>3
    <3>4. i \in 1..n \/ i = n + 1
      BY <2>2
    <3> QED
      BY <3>2, <3>3, <3>4
  <2>11. n + 1 \in 0..N
    BY <2>2
  <2> QED
    BY <2>8, <2>9, <2>10, <2>11 DEF N
<1>10. IsReadInOrder(g)'
  BY <1>1, <1>9, SameSet DEF IsReadInOrder
<1>11. \A f \in Source : IsReadInOrder(f)'
  <2> HIDE DEF g
  <2> QED
    BY <1>8, <1>10
<1> QED
  BY <1>1, <1>7, <1>11, SameSet DEF OrderInv

\* Every cell of a source is in a block of it.
LEMMA BlockOfCell ==
  ASSUME JobInv, Valid, NEW f \in Source, NEW p \in 1..Sizes[f]
  PROVE  LET i == (p - 1) \div Block + 1
             k == ((p - 1) % Block) + 1
         IN  /\ i \in 1..CeilDiv(Sizes[f], Block) /\ k \in 1..Block
             /\ p = (i - 1) * Block + k
<1> DEFINE q == (p - 1) \div Block
           r == (p - 1) % Block
<1>1. Block \in Nat \ {0} /\ Sizes[f] \in Nat /\ p - 1 \in Nat /\ p \in Nat
  BY SetFacts
<1>2. q \in Nat /\ r \in 0..(Block - 1) /\ p - 1 = Block * q + r
  BY <1>1
<1> HIDE DEF q, r
<1>3. q * Block = Block * q /\ q * Block \in Nat /\ q + 1 - 1 = q
  BY <1>1, <1>2
<1>4. q * Block < Sizes[f] /\ p = q * Block + (r + 1) /\ r + 1 \in 1..Block
  BY <1>1, <1>2, <1>3
<1>5. CeilDiv(Sizes[f], Block) \in Nat /\ q < CeilDiv(Sizes[f], Block)
  BY <1>1, <1>2, <1>4, PiecesCover
<1> QED
  BY <1>2, <1>3, <1>4, <1>5 DEF q, r

\* When the last chunk ends, all of every block was hashed.
LEMMA EndChunkDescribes ==
  ASSUME JobInv, ReadInv, PaddedInv, HeadInv, OrderInv, EndChunk
  PROVE  PaddedInv' /\ HeadInv' /\ OrderInv' /\ DescribesOneContent'
<1>1. /\ pc = "read" /\ unread = {} /\ context' = context /\ Valid
      /\ head' = head /\ fileMd5' = fileMd5 /\ blockMd5' = blockMd5
      /\ offset' = offset + ChunkLen
      /\ pc' = IF offset' < Block THEN "read" ELSE "outputs"
  BY DEF EndChunk, ReadInv
<1>2. /\ Block \in Nat \ {0} /\ Chunk \in 1..Block /\ Source = 1..Len(Sizes)
      /\ Sizes \in Seq(Nat \ {0}) /\ offset \in Nat /\ offset < Block
      /\ blockMd5 \in [Blocks -> Seq(AnyCell)]
      /\ \A b \in Blocks : Len(blockMd5[b]) = offset + ChunkLen
  <2>1. offset \in Nat
    <3>1. Len(recovery) \in Nat /\ Chunk \in Nat /\ offset = Len(recovery) * Chunk
      BY <1>1, SetFacts DEF ReadInv
    <3> QED
      BY <3>1
  <2> QED
    BY <1>1, <2>1, SetFacts DEF ReadInv
<1>3. PaddedInv' /\ HeadInv'
  BY <1>1, SameSet DEF PaddedInv, HeadInv
<1>4. OrderInv'
  <2> SUFFICES ASSUME Chunk = Block, pc' = "read" PROVE FALSE
    BY <1>1, SameSet DEF OrderInv
  <2>1. ~(offset' < Block)
    BY <1>1, <1>2 DEF ChunkLen, Lesser
  <2> QED
    BY <1>1, <2>1
<1>5. DescribesOneContent'
  <2> SUFFICES ASSUME ~(offset' < Block) PROVE DescribesOneContent'
    BY <1>1 DEF DescribesOneContent, AllRead
  <2>1. \A b \in Blocks : DOMAIN blockMd5[b] = 1..Block /\ Len(blockMd5[b]) = Block
    <3>1. offset + ChunkLen = Block
      BY <1>1, <1>2 DEF ChunkLen, Lesser
    <3> QED
      BY <1>2, <3>1
  <2>2. ASSUME NEW f \in Source
        PROVE  /\ \A i \in 1..CeilDiv(Sizes[f], Block) :
                    /\ Len(blockMd5[<<f, i>>]) = Block
                    /\ \A k \in 1..Block :
                         blockMd5[<<f, i>>][k] = Zero
                           <=> (i - 1) * Block + k > Sizes[f]
               /\ \A p \in DOMAIN head[f] : head[f][p] = Described(f)[p]
               /\ Chunk = Block => fileMd5[f] = Described(f)
    <3> DEFINE I(p) == (p - 1) \div Block + 1
               K(p) == ((p - 1) % Block) + 1
    <3>1. \A i \in 1..CeilDiv(Sizes[f], Block) : <<f, i>> \in Blocks
      BY <1>1, BlockFacts
    <3>2. ASSUME NEW i \in 1..CeilDiv(Sizes[f], Block)
          PROVE  /\ Len(blockMd5[<<f, i>>]) = Block
                 /\ \A k \in 1..Block :
                      blockMd5[<<f, i>>][k] = Zero
                        <=> (i - 1) * Block + k > Sizes[f]
      <4> DEFINE b == <<f, i>>
      <4>1. b \in Blocks /\ b[1] = f /\ b[2] = i
        BY <3>1
      <4> HIDE DEF b
      <4>2. /\ Len(blockMd5[b]) = Block
            /\ \A k \in 1..Block :
                 blockMd5[b][k] = Zero <=> (b[2] - 1) * Block + k > Sizes[b[1]]
        BY <1>1, <2>1, <4>1 DEF PaddedInv
      <4> QED
        BY <4>1, <4>2 DEF b
    <3>3. ASSUME NEW p \in 1..Sizes[f]
          PROVE  /\ I(p) \in 1..CeilDiv(Sizes[f], Block) /\ K(p) \in 1..Block
                 /\ p = (I(p) - 1) * Block + K(p)
                 /\ Described(f)[p] = blockMd5[<<f, I(p)>>][K(p)]
      <4>1. /\ I(p) \in 1..CeilDiv(Sizes[f], Block) /\ K(p) \in 1..Block
            /\ p = (I(p) - 1) * Block + K(p)
        BY <1>1, BlockOfCell
      <4>2. Described(f)[p] = blockMd5[<<f, I(p)>>][K(p)]
        BY DEF Described
      <4> QED
        BY <4>1, <4>2
    <3> HIDE DEF I, K
    <3>4. ASSUME NEW p \in DOMAIN head[f] PROVE head[f][p] = Described(f)[p]
      <4>1. p \in 1..Sizes[f]
        <5>1. p \in 1..Lesser(Sizes[f], HeadCells)
          BY <1>1 DEF HeadInv
        <5> QED
          BY <1>2, <5>1, CreateAssumption DEF Lesser
      <4> DEFINE b == <<f, I(p)>>
      <4>2. b \in Blocks /\ b[1] = f /\ b[2] = I(p) /\ K(p) \in 1..Block
        BY <3>1, <3>3, <4>1
      <4> HIDE DEF b
      <4>3. K(p) \in DOMAIN blockMd5[b] /\ (b[2] - 1) * Block + K(p) = p
        BY <2>1, <3>3, <4>1, <4>2
      <4>4. head[b[1]][p] = blockMd5[b][K(p)]
        BY <1>1, <4>2, <4>3 DEF HeadInv
      <4> QED
        BY <3>3, <4>1, <4>2, <4>4 DEF b
    <3>5. ASSUME Chunk = Block PROVE fileMd5[f] = Described(f)
      <4> DEFINE N == CeilDiv(Sizes[f], Block)
      <4>1. /\ N \in Nat /\ \A i \in Nat : i < N <=> i * Block < Sizes[f]
            /\ Sizes[f] \in Nat
        <5>1. Sizes[f] \in Nat
          BY <1>2
        <5> QED
          BY <1>2, <5>1, PiecesCover
      <4>2. PICK n \in 0..N :
              /\ \A i \in 1..N : <<f, i>> \in unread <=> i > n
              /\ Len(fileMd5[f]) = Lesser(n * Block, Sizes[f])
              /\ \A i \in 1..n : \A k \in 1..Block :
                   (i - 1) * Block + k <= Sizes[f] =>
                     fileMd5[f][(i - 1) * Block + k] = blockMd5[<<f, i>>][k]
        BY <1>1, <3>5 DEF OrderInv, IsReadInOrder
      <4>3. fileMd5[f] \in Seq(SourceCell)
        BY <1>1, <3>5 DEF OrderInv
      <4> HIDE DEF N
      <4>4. n = N
        <5>1. N # 0 => ~(N > n)
          <6>1. N # 0 => N \in 1..N
            BY <4>1
          <6> QED
            BY <1>1, <4>2, <6>1
        <5> QED
          BY <4>1, <4>2, <5>1
      <4>5. Len(fileMd5[f]) = Sizes[f]
        <5>1. ~(N * Block < Sizes[f]) /\ N * Block \in Nat
          BY <1>2, <4>1
        <5> QED
          BY <4>1, <4>2, <4>4, <5>1 DEF Lesser
      <4>6. ASSUME NEW p \in 1..Sizes[f]
            PROVE  fileMd5[f][p] = Described(f)[p]
        <5>1. I(p) \in 1..n /\ K(p) \in 1..Block /\ p = (I(p) - 1) * Block + K(p)
          BY <3>3, <4>4 DEF N
        <5>2. p <= Sizes[f]
          BY <4>1
        <5>3. fileMd5[f][(I(p) - 1) * Block + K(p)] = blockMd5[<<f, I(p)>>][K(p)]
          BY <4>2, <5>1, <5>2
        <5> QED
          BY <3>3, <5>1, <5>3
      <4>7. /\ fileMd5[f] = [p \in 1..Sizes[f] |-> fileMd5[f][p]]
            /\ Described(f) = [p \in 1..Sizes[f] |-> Described(f)[p]]
        BY <4>3, <4>5 DEF Described
      <4> QED
        BY <4>6, <4>7
    <3> QED
      BY <3>2, <3>4, <3>5
  <2>3. \A f : Described(f)' = Described(f)
    BY <1>1, SameSet DEF Described
  <2> QED
    BY <1>1, <2>2, <2>3, SameSet DEF DescribesOneContent
<1> QED
  BY <1>3, <1>4, <1>5

LEMMA ScanDescribes ==
  ASSUME JobInv, StartInv, Scan
  PROVE  HashesInv'
<1>1. /\ pc = "scan" /\ context' = context /\ head' = head
      /\ fileMd5' = fileMd5 /\ blockMd5' = blockMd5
      /\ pc' \in {"exit", "outputs", "read"}
      /\ pc' = "outputs" => Recovery = 0
      /\ pc' = "read" => Valid /\ unread' = Blocks
  BY DEF Scan, Stop
<1>2. /\ head = [f \in Source |-> [p \in 1..Lesser(Sizes[f], HeadCells) |-> Zero]]
      /\ fileMd5 = [f \in Source |-> <<>>]
      /\ Valid => blockMd5 = [b \in Blocks |-> <<>>]
  BY <1>1 DEF StartInv, HashesStart
<1>3. DescribesOneContent'
  BY <1>1, SameSet DEF DescribesOneContent, AllRead
<1>4. ASSUME pc' = "read" PROVE PaddedInv' /\ HeadInv' /\ OrderInv'
  <2>1. \A b \in Blocks : DOMAIN blockMd5'[b] = {}
    <3>1. \A b \in Blocks : blockMd5'[b] = <<>>
      BY <1>1, <1>2, <1>4
    <3>2. DOMAIN <<>> = {}
      OBVIOUS
    <3> QED
      BY <3>1, <3>2
  <2>2. PaddedInv'
    BY <1>1, <2>1, SameSet DEF PaddedInv
  <2>3. HeadInv'
    BY <1>1, <1>2, <2>1, SameSet DEF HeadInv
  <2>4. fileMd5' \in [Source -> Seq(SourceCell)] /\ \A f \in Source : fileMd5'[f] = <<>>
    <3>1. <<>> \in Seq(SourceCell)
      OBVIOUS
    <3> QED
      BY <1>1, <1>2, <3>1
  <2>5. ASSUME NEW f \in Source PROVE IsReadInOrder(f)'
    <3> DEFINE N == CeilDiv(Sizes[f], Block)
    <3>1. /\ N \in Nat /\ Sizes[f] \in Nat /\ Block \in Nat
          /\ \A i \in 1..N : <<f, i>> \in Blocks
      <4>1. Block \in Nat \ {0} /\ Sizes[f] \in Nat
        BY <1>1, <1>4, SetFacts
      <4> QED
        BY <1>1, <1>4, <4>1, PiecesCover, BlockFacts
    <3> HIDE DEF N
    <3>2. /\ \A i \in 1..N : <<f, i>> \in unread' <=> i > 0
          /\ Len(fileMd5'[f]) = Lesser(0 * Block, Sizes[f])
          /\ 0 \in 0..N /\ 1..0 = {}
      <4>1. Len(fileMd5'[f]) = 0 /\ 0 * Block = 0
        BY <2>4, <3>1
      <4> QED
        BY <1>1, <1>4, <3>1, <4>1 DEF Lesser
    <3>3. \E n \in 0..N :
            /\ \A i \in 1..N : <<f, i>> \in unread' <=> i > n
            /\ Len(fileMd5'[f]) = Lesser(n * Block, Sizes[f])
            /\ \A i \in 1..n : \A k \in 1..Block :
                 (i - 1) * Block + k <= Sizes[f] =>
                   fileMd5'[f][(i - 1) * Block + k] = blockMd5'[<<f, i>>][k]
      BY <3>2
    <3> QED
      BY <1>1, <3>3, SameSet DEF IsReadInOrder, N
  <2>6. OrderInv'
    BY <1>1, <2>4, <2>5, SameSet DEF OrderInv
  <2> QED
    BY <2>2, <2>3, <2>6
<1>5. pc' # "read" => PaddedInv' /\ HeadInv' /\ OrderInv'
  BY DEF PaddedInv, HeadInv, OrderInv
<1> QED
  BY <1>3, <1>4, <1>5 DEF HashesInv

\* Whatever does not read keeps what was hashed.
LEMMA OthersDescribe ==
  ASSUME HashesInv, context' = context,
         blockMd5' = blockMd5, head' = head, fileMd5' = fileMd5,
         unread' = unread, pc' = "read" => pc = "read", AllRead' => AllRead
  PROVE  HashesInv'
<1>1. /\ \A f : IsReadInOrder(f)' = IsReadInOrder(f)
      /\ \A f : Described(f)' = Described(f)
  BY SameSet DEF IsReadInOrder, Described
<1>2. PaddedInv'
  BY SameSet DEF HashesInv, PaddedInv
<1>3. HeadInv'
  BY SameSet DEF HashesInv, HeadInv
<1>4. OrderInv'
  BY <1>1, SameSet DEF HashesInv, OrderInv
<1>5. DescribesOneContent'
  BY <1>1, SameSet DEF HashesInv, DescribesOneContent
<1> QED
  BY <1>2, <1>3, <1>4, <1>5 DEF HashesInv

LEMMA ContentIsKept ==
  ASSUME SumInv, HashesInv, [Next]_vars
  PROVE  HashesInv'
<1>1. CASE Scan
  BY <1>1, ScanDescribes DEF SumInv
<1>2. CASE EndChunk
  BY <1>2, EndChunkDescribes DEF SumInv, HashesInv
<1>3. CASE \E b \in unread : ReadBlock(b)
  <2> PICK b \in unread : ReadBlock(b)
    BY <1>3
  <2>1. PaddedInv' /\ HeadInv' /\ OrderInv'
    BY ReadKeepsPadded, ReadKeepsHead, ReadKeepsOrder DEF SumInv, HashesInv
  <2>2. DescribesOneContent'
    BY ReadAppends DEF SumInv, DescribesOneContent, AllRead
  <2> QED
    BY <2>1, <2>2 DEF HashesInv
<1>4. CASE \E f \in DOMAIN source : \E p \in DOMAIN source[f] : Change(f, p)
  BY <1>4, OthersDescribe, SameSet DEF Change, reading, AllRead
<1>5. CASE Idle
  BY <1>5, OthersDescribe DEF Idle, reading
<1> QED
  BY <1>1, <1>2, <1>3, <1>4, <1>5, OtherStepsAreIdle

\* What the set says of a file is said of one content: its blocks cover it and
\* are padded with zeros, its head is the beginning of its blocks, and with
\* blocks in one piece its MD5 is that of its blocks, for all sizes of
\* sources, blocks, chunks and heads, also when the source changes while it is
\* read (encode_and_hash_files).
THEOREM OneContent == Spec => []DescribesOneContent
<1>1. Init => HashesInv
  BY DEF Init, HashesInv, PaddedInv, HeadInv, OrderInv, DescribesOneContent,
         AllRead
<1>2. HashesInv => DescribesOneContent
  BY DEF HashesInv
<1> QED
  BY <1>1, <1>2, SumsStart, SumsStay, ContentIsKept, PTL DEF Spec

-----------------------------------------------------------------------------
(* The outputs *)

\* Every output is written to the end, or still to be written.
OutputsInv ==
  /\ pc \in {"scan", "read", "outputs", "open", "fill", "exit"}
  /\ outcome \in {"none", "error", "success"} /\ (pc # "exit" => outcome = "none")
  /\ Valid => DOMAIN disk = OutputPaths
  /\ pc \in {"read", "outputs", "open", "fill"} => Valid
  /\ pc \in {"open", "fill"} =>
       /\ todo \in Seq(OutputPaths)
       /\ \A p \in OutputPaths :
            p \in ToSet(todo) \/ disk[p] = Complete(Slices(p))
  /\ pc = "fill" => todo # <<>>
  /\ outcome = "success" =>
       Valid /\ \A p \in OutputPaths : disk[p] = Complete(Slices(p))

LEMMA OutputsStart == Init => OutputsInv
<1> SUFFICES ASSUME Init PROVE OutputsInv
  OBVIOUS
<1>1. pc = "scan" /\ outcome = "none"
  BY DEF Init
<1>2. ASSUME Valid PROVE DOMAIN disk = OutputPaths
  BY <1>2 DEF Init
<1> QED
  BY <1>1, <1>2 DEF OutputsInv

\* What is still to be written is the first and the others.
LEMMA HeadAndTail ==
  ASSUME NEW S, NEW s \in Seq(S), s # <<>>
  PROVE  /\ Head(s) \in S /\ Tail(s) \in Seq(S)
         /\ ToSet(s) = {Head(s)} \cup ToSet(Tail(s))
<1>1. /\ Head(s) = s[1] /\ Head(s) \in S /\ Tail(s) \in Seq(S)
      /\ Len(Tail(s)) = Len(s) - 1 /\ Len(s) \in Nat \ {0}
      /\ DOMAIN s = 1..Len(s) /\ DOMAIN Tail(s) = 1..(Len(s) - 1)
      /\ \A i \in 1..(Len(s) - 1) : Tail(s)[i] = s[i + 1]
  OBVIOUS
<1>2. ToSet(s) \subseteq {Head(s)} \cup ToSet(Tail(s))
  <2> SUFFICES ASSUME NEW i \in 1..Len(s), i # 1 PROVE s[i] \in ToSet(Tail(s))
    BY <1>1 DEF ToSet
  <2>1. i - 1 \in 1..(Len(s) - 1) /\ i - 1 + 1 = i
    BY <1>1
  <2> QED
    BY <1>1, <2>1 DEF ToSet
<1>3. {Head(s)} \cup ToSet(Tail(s)) \subseteq ToSet(s)
  <2>1. Head(s) \in ToSet(s)
    BY <1>1 DEF ToSet
  <2>2. ASSUME NEW i \in 1..(Len(s) - 1) PROVE Tail(s)[i] \in ToSet(s)
    <3>1. i + 1 \in 1..Len(s)
      BY <1>1
    <3> QED
      BY <1>1, <3>1 DEF ToSet
  <2> QED
    BY <1>1, <2>1, <2>2 DEF ToSet
<1> QED
  BY <1>1, <1>2, <1>3

\* The index and the volumes are all outputs.
LEMMA AllAreListed ==
  ASSUME JobInv, Valid
  PROVE  /\ <<Index>> \o Plan \in Seq(OutputPaths)
         /\ OutputPaths \subseteq ToSet(<<Index>> \o Plan)
<1>1. Plan \in Seq(OutputPaths)
  <2> DEFINE counts == [k \in DOMAIN context.volumes |-> context.volumes[k].count]
  <2>1. counts \in Seq(Nat) /\ context.volumes = Placed(job.first, counts)
    BY SetFacts DEF PlanIsSound
  <2> HIDE DEF counts
  <2>2. DOMAIN Plan = 1..Len(counts) /\ Len(counts) \in Nat
    BY <2>1 DEF Plan, Placed
  <2>3. \A k \in DOMAIN Plan : Plan[k] \in OutputPaths
    BY DEF OutputPaths
  <2>4. Plan = [k \in 1..Len(counts) |-> Plan[k]]
    BY <2>1 DEF Plan, Placed
  <2> HIDE DEF Plan
  <2> QED
    BY <2>2, <2>3, <2>4
<1> DEFINE all == <<Index>> \o Plan
<1>2. <<Index>> \in Seq(OutputPaths) /\ Len(<<Index>>) = 1 /\ <<Index>>[1] = Index
  BY DEF OutputPaths
<1>3. all \in Seq(OutputPaths)
  BY <1>1, <1>2
<1>4. OutputPaths \subseteq ToSet(all)
  <2>1. /\ DOMAIN all = 1..(1 + Len(Plan)) /\ all[1] = Index
        /\ \A k \in 1..Len(Plan) : all[1 + k] = Plan[k]
        /\ Len(Plan) \in Nat /\ DOMAIN Plan = 1..Len(Plan)
    BY <1>1, <1>2
  <2> HIDE DEF all
  <2>2. Index \in ToSet(all)
    BY <2>1 DEF ToSet
  <2>3. ASSUME NEW k \in DOMAIN Plan PROVE Plan[k] \in ToSet(all)
    <3>1. 1 + k \in DOMAIN all /\ all[1 + k] = Plan[k]
      BY <2>1
    <3> QED
      BY <3>1 DEF ToSet
  <2> QED
    BY <2>2, <2>3 DEF OutputPaths
<1> QED
  BY <1>3, <1>4

LEMMA OutputsKept ==
  ASSUME JobInv, OutputsInv, [Next]_vars
  PROVE  OutputsInv'
<1>1. context' = context
  BY DEF Next, Step, Environment, vars, Scan, EndChunk, ReadBlock, ReadFails,
         CheckOutputs, OpenOutput, OpenFails, FillOutput, FillFails, Finish,
         Change, Appear
<1>2. /\ Valid' = Valid /\ OutputPaths' = OutputPaths
  BY <1>1, SameSet
<1>3. CASE Scan \/ EndChunk \/ Finish \/ OpenFails \/ FillFails
  <2>1. CASE Scan
    BY <1>2, <2>1 DEF Scan, Stop, OutputsInv
  <2>2. CASE EndChunk
    BY <1>2, <2>2 DEF EndChunk, OutputsInv
  <2>3. CASE OpenFails \/ FillFails
    BY <1>2, <2>3 DEF OpenFails, FillFails, Stop, OutputsInv
  <2>4. CASE Finish
    <3>1. ToSet(todo) = {}
      BY <2>4 DEF Finish, ToSet
    <3> QED
      BY <1>2, <2>4, <3>1 DEF Finish, Stop, OutputsInv
  <2> QED
    BY <1>3, <2>1, <2>2, <2>3, <2>4
<1>4. CASE \E b \in unread : ReadBlock(b) \/ ReadFails(b)
  BY <1>2, <1>4 DEF ReadBlock, ReadFails, Stop, OutputsInv
<1>5. CASE CheckOutputs
  <2>1. CASE pc' = "exit"
    BY <1>2, <1>5, <2>1 DEF CheckOutputs, Stop, OutputsInv
  <2>2. CASE pc' # "exit"
    <3>1. Valid /\ pc' = "open" /\ todo' = <<Index>> \o Plan /\ disk' = disk /\ outcome' = outcome
      BY <1>5, <2>2 DEF CheckOutputs, Stop, OutputsInv
    <3>2. todo' \in Seq(OutputPaths) /\ \A p \in OutputPaths : p \in ToSet(todo')
      BY <3>1, AllAreListed
    <3> QED
      BY <1>2, <1>5, <3>1, <3>2 DEF CheckOutputs, OutputsInv
  <2> QED
    BY <2>1, <2>2
<1>6. CASE OpenOutput
  <2>1. /\ pc = "open" /\ pc' = "fill" /\ todo # <<>> /\ todo' = todo
        /\ disk' = [disk EXCEPT ![Head(todo)] = Partial] /\ outcome' = outcome
    BY <1>6 DEF OpenOutput
  <2>2. /\ Valid /\ DOMAIN disk = OutputPaths /\ todo \in Seq(OutputPaths)
        /\ \A p \in OutputPaths : p \in ToSet(todo) \/ disk[p] = Complete(Slices(p))
    BY <2>1 DEF OutputsInv
  <2>3. Head(todo) \in ToSet(todo)
    BY <2>1, <2>2, HeadAndTail
  <2>4. /\ DOMAIN disk' = OutputPaths
        /\ \A p \in OutputPaths : p \in ToSet(todo) \/ disk'[p] = Complete(Slices(p))
    BY <2>1, <2>2, <2>3
  <2> QED
    BY <1>2, <2>1, <2>2, <2>4 DEF OutputsInv, Slices
<1>7. CASE FillOutput
  <2> DEFINE h == Head(todo)
  <2>1. /\ pc = "fill" /\ pc' = "open" /\ todo' = Tail(todo)
        /\ disk' = [disk EXCEPT ![h] = Complete(Slices(h))]
        /\ outcome' = outcome
    BY <1>7 DEF FillOutput
  <2>2. /\ Valid /\ DOMAIN disk = OutputPaths /\ todo \in Seq(OutputPaths)
        /\ todo # <<>>
        /\ \A p \in OutputPaths : p \in ToSet(todo) \/ disk[p] = Complete(Slices(p))
    BY <2>1 DEF OutputsInv
  <2>3. /\ h \in OutputPaths /\ Tail(todo) \in Seq(OutputPaths)
        /\ ToSet(todo) = {h} \cup ToSet(Tail(todo))
    BY <2>2, HeadAndTail
  <2> HIDE DEF h
  <2>4. /\ DOMAIN disk' = OutputPaths
        /\ \A p \in OutputPaths : p \in ToSet(todo') \/ disk'[p] = Complete(Slices(p))
    BY <2>1, <2>2, <2>3
  <2> QED
    BY <1>2, <2>1, <2>2, <2>3, <2>4 DEF OutputsInv, Slices
<1>8. CASE \E f \in DOMAIN source : \E p \in DOMAIN source[f] : Change(f, p)
  BY <1>2, <1>8 DEF Change, OutputsInv
<1>9. CASE \E p \in DOMAIN disk : Appear(p)
  <2> PICK q \in DOMAIN disk : Appear(q)
    BY <1>9
  <2>1. /\ pc # "exit" /\ pc' = pc /\ todo' = todo /\ outcome' = outcome
        /\ disk[q] = Absent /\ disk' = [disk EXCEPT ![q] = Other]
    BY DEF Appear
  <2>2. DOMAIN disk' = DOMAIN disk /\ \A p \in DOMAIN disk \ {q} : disk'[p] = disk[p]
    BY <2>1
  <2>3. \A p : disk[q] # Complete(Slices(p))
    BY <2>1 DEF Absent, Complete
  <2> QED
    BY <1>2, <2>1, <2>2, <2>3 DEF OutputsInv
<1>10. CASE UNCHANGED vars
  BY <1>2, <1>10 DEF vars, OutputsInv
<1> QED
  BY <1>3, <1>4, <1>5, <1>6, <1>7, <1>8, <1>9, <1>10 DEF Next, Step, Environment

\* An exponent that is asked for is in the name of exactly one volume.
LEMMA InOneVolume ==
  ASSUME JobInv, Valid,
         NEW e \in job.first .. (job.first + Recovery - 1),
         \A p \in OutputPaths : disk[p] = Complete(Slices(p))
  PROVE  Cardinality({k \in DOMAIN Plan : e \in disk[Plan[k]].slices}) = 1
<1> DEFINE counts == [k \in DOMAIN context.volumes |-> context.volumes[k].count]
<1>1. /\ counts \in Seq(Nat) /\ Plan = Placed(job.first, counts)
      /\ Total(counts) = Recovery /\ job.first \in Nat
      /\ \A k \in DOMAIN Plan : Plan[k] # Index
  BY SetFacts DEF PlanIsSound, Plan, Recovery
<1> HIDE DEF counts
<1>2. DOMAIN Plan = DOMAIN counts
  BY <1>1 DEF Placed
<1>3. ASSUME NEW k \in DOMAIN Plan PROVE disk[Plan[k]].slices = Exponents(Plan[k])
  <2>1. Plan[k] \in OutputPaths /\ Plan[k] # Index
    BY <1>1 DEF OutputPaths
  <2>2. Slices(Plan[k]) = Exponents(Plan[k])
    BY <2>1 DEF Slices, Exponents
  <2>3. disk[Plan[k]] = Complete(Slices(Plan[k]))
    BY <2>1
  <2> QED
    BY <2>2, <2>3 DEF Complete
<1>4. PICK k \in DOMAIN counts :
        {v \in DOMAIN counts : e \in Exponents(Placed(job.first, counts)[v])} = {k}
  <2> DEFINE first == job.first
  <2>1. /\ first \in Nat /\ counts \in Seq(Nat)
        /\ e \in first .. (first + Total(counts) - 1)
    BY <1>1
  <2> HIDE DEF first
  <2>2. \E k \in DOMAIN counts :
          {v \in DOMAIN counts : e \in Exponents(Placed(first, counts)[v])} = {k}
    BY <2>1, PlacedOnce
  <2> QED
    BY <2>2 DEF first
<1>5. {v \in DOMAIN Plan : e \in disk[Plan[v]].slices} = {k}
  BY <1>1, <1>2, <1>3, <1>4
<1> QED
  BY <1>5, FS_Singleton

\* A command that reports success has written every output to the end, and
\* every recovery slice asked for to exactly one volume, for all plans, also
\* when volumes have the same name and are written over one another
\* (write_par2_files).
THEOREM AllIsWritten == Spec => []SuccessIsComplete
<1>1. ASSUME JobInv, OutputsInv PROVE SuccessIsComplete
  <2> SUFFICES ASSUME outcome = "success" PROVE SuccessIsComplete
    BY DEF SuccessIsComplete
  <2>1. /\ Valid /\ DOMAIN disk = OutputPaths
        /\ \A p \in OutputPaths : disk[p] = Complete(Slices(p))
    BY <1>1 DEF OutputsInv
  <2>2. \A p \in DOMAIN disk : disk[p].state = "complete"
    BY <2>1 DEF Complete
  <2> QED
    BY <1>1, <2>1, <2>2, InOneVolume DEF SuccessIsComplete
<1>2. Init => JobInv
  BY DEF Init, JobInv
<1>3. JobInv /\ [Next]_vars => JobInv'
  BY DEF JobInv, Next, Step, Environment, vars, Scan, EndChunk, ReadBlock,
         ReadFails, CheckOutputs, OpenOutput, OpenFails, FillOutput, FillFails,
         Finish, Change, Appear
<1> QED
  BY <1>1, <1>2, <1>3, OutputsStart, OutputsKept, PTL DEF Spec

-----------------------------------------------------------------------------
(* Types *)

LEMMA TypesStart == Init => TypeOK
<1> SUFFICES ASSUME Init PROVE TypeOK
  OBVIOUS
<1>1. /\ pc = "scan" /\ outcome = "none" /\ offset = 0 /\ unread = {}
      /\ staged = <<>> /\ sum = {} /\ todo = <<>>
  BY DEF Init, BackendStart
<1>2. Len(<<>>) = 0 /\ DOMAIN <<>> = {}
  OBVIOUS
<1>3. \A p \in DOMAIN disk :
        disk[p].state \in {"absent", "other", "partial", "complete"}
  <2>1. CASE Valid
    <3>1. PICK there \in SUBSET OutputPaths :
            disk = [p \in OutputPaths |-> IF p \in there THEN Other ELSE Absent]
      BY <2>1 DEF Init
    <3> QED
      BY <3>1 DEF Other, Absent
  <2>2. CASE ~Valid
    BY <1>2, <2>2 DEF Init
  <2> QED
    BY <2>1, <2>2
<1> QED
  BY <1>1, <1>2, <1>3, CreateAssumption DEF TypeOK

\* While blocks are read the types follow from what is read.
LEMMA ReadIsTyped ==
  ASSUME JobInv, ReadInv, StagedInv, pc = "read"
  PROVE  /\ offset \in Nat /\ unread \subseteq DOMAIN blockMd5
         /\ Len(staged) < Batch
         /\ \A s \in sum : s[1] \in DOMAIN blockMd5
<1>1. /\ Valid /\ unread \subseteq Blocks /\ blockMd5 \in [Blocks -> Seq(AnyCell)]
      /\ recovery \in Seq(SUBSET Input) /\ offset = Len(recovery) * Chunk
  BY DEF ReadInv
<1>2. offset \in Nat
  <2>1. Chunk \in Nat /\ Len(recovery) \in Nat
    BY <1>1, SetFacts
  <2> QED
    BY <1>1, <2>1
<1>3. sum \subseteq {<<b, Piece(b)>> : b \in Blocks \ unread}
  BY DEF StagedInv
<1> QED
  BY <1>1, <1>2, <1>3 DEF StagedInv

LEMMA TypesStay ==
  ASSUME SumInv, SumInv', OutputsInv, OutputsInv', TypeOK,
         [Next]_vars
  PROVE  TypeOK'
<1>1. /\ pc' \in {"scan", "read", "outputs", "open", "fill", "exit"}
      /\ outcome' \in {"none", "success", "error"}
  BY DEF OutputsInv
<1>2. /\ offset' \in Nat /\ unread' \subseteq DOMAIN blockMd5'
      /\ Len(staged') < Batch
      /\ \A s \in sum' : s[1] \in DOMAIN blockMd5'
  <2>1. CASE pc' = "read"
    <3>1. JobInv' /\ ReadInv' /\ StagedInv'
      BY DEF SumInv
    <3>2. (/\ JobInv /\ ReadInv /\ StagedInv /\ pc = "read"
           => /\ offset \in Nat /\ unread \subseteq DOMAIN blockMd5
              /\ Len(staged) < Batch
              /\ \A s \in sum : s[1] \in DOMAIN blockMd5)'
      BY ReadIsTyped, PTL
    <3> QED
      BY <2>1, <3>1, <3>2
  <2>2. CASE pc' # "read"
    <3>1. CASE Scan
      BY <2>2, <3>1 DEF Scan, TypeOK
    <3>2. CASE EndChunk
      <4>1. /\ pc = "read" /\ JobInv /\ ReadInv /\ Valid
        BY <3>2 DEF EndChunk, SumInv, ReadInv
      <4>2. offset' = offset + ChunkLen /\ staged' = <<>> /\ sum' = {}
            /\ unread = {} /\ unread' = unread
        BY <2>2, <3>2 DEF EndChunk, BeginChunk
      <4>3. ChunkLen \in Nat
        <5>1. Block \in Nat /\ Chunk \in Nat /\ offset \in Nat /\ offset < Block
          BY <4>1, SetFacts DEF ReadInv, TypeOK
        <5> QED
          BY <5>1 DEF ChunkLen, Lesser
      <4> QED
        BY <4>2, <4>3, CreateAssumption DEF TypeOK
    <3>3. CASE \E b \in unread : ReadBlock(b)
      BY <2>2, <3>3 DEF ReadBlock, SumInv, TypeOK
    <3>4. CASE \E f \in DOMAIN source : \E p \in DOMAIN source[f] : Change(f, p)
      BY <3>4 DEF Change, reading, TypeOK
    <3>5. CASE Idle
      BY <3>5 DEF Idle, reading, TypeOK
    <3> QED
      BY <3>1, <3>2, <3>3, <3>4, <3>5, OtherStepsAreIdle
  <2> QED
    BY <2>1, <2>2
<1>3. /\ \A k \in DOMAIN todo' : todo'[k] \in DOMAIN disk'
      /\ \A p \in DOMAIN disk' :
           disk'[p].state \in {"absent", "other", "partial", "complete"}
  <2>1. CASE UNCHANGED <<todo, disk>>
    BY <2>1 DEF TypeOK
  <2>2. CASE CheckOutputs /\ todo' # todo
    <3>1. Valid /\ todo' = <<Index>> \o Plan /\ disk' = disk
      BY <2>2 DEF CheckOutputs, OutputsInv
    <3>2. todo' \in Seq(OutputPaths) /\ DOMAIN disk = OutputPaths
      BY <3>1, AllAreListed DEF SumInv, OutputsInv
    <3>3. \A k \in DOMAIN todo' : todo'[k] \in OutputPaths
      BY <3>2
    <3> QED
      BY <3>1, <3>2, <3>3 DEF TypeOK
  <2>3. CASE OpenOutput
    BY <2>3 DEF OpenOutput, Partial, TypeOK
  <2>4. CASE FillOutput
    <3>1. /\ pc = "fill" /\ todo' = Tail(todo)
          /\ disk' = [disk EXCEPT ![Head(todo)] = Complete(Slices(Head(todo)))]
      BY <2>4 DEF FillOutput
    <3>2. todo # <<>> /\ todo \in Seq(OutputPaths) /\ DOMAIN disk = OutputPaths
      BY <3>1 DEF OutputsInv
    <3>3. Tail(todo) \in Seq(OutputPaths)
      BY <3>2, HeadAndTail
    <3>4. \A k \in DOMAIN todo' : todo'[k] \in OutputPaths
      BY <3>1, <3>3
    <3> QED
      BY <3>1, <3>2, <3>4 DEF Complete, TypeOK
  <2>5. CASE \E p \in DOMAIN disk : Appear(p)
    BY <2>5 DEF Appear, Other, TypeOK
  <2> QED
    BY <2>1, <2>2, <2>3, <2>4, <2>5
       DEF Next, Step, Environment, vars, Scan, EndChunk, ReadBlock, ReadFails,
           CheckOutputs, OpenFails, FillFails, Finish, Change
<1> QED
  BY <1>1, <1>2, <1>3 DEF TypeOK

\* The create command keeps its types: blocks that are read or added are blocks
\* of the set, the stage has room for the next input, and what is to be written
\* has a path of its own.
THEOREM CreateTypes == Spec => []TypeOK
  BY SumsStart, SumsStay, OutputsStart, OutputsKept, TypesStart, TypesStay, PTL
     DEF Spec, SumInv
=============================================================================
