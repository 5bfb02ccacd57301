------------------------ MODULE ReconstructionProofs ------------------------
(***************************************************************************)
(* Theorems about reconstruction: it fails only for a cause, its cache     *)
(* holds what the files hold, and its outputs are the data that was coded. *)
(***************************************************************************)
EXTENDS ReconstructionProperties, ReedSolomonProofs

-----------------------------------------------------------------------------
(* The set *)

\* What Jobs says of the set at hand.
LEMMA JobIs ==
  ASSUME job \in Jobs
  PROVE  /\ Total \in Nat /\ DOMAIN job.slices = 1..Total
         /\ job.size \in Nat /\ job.size > 0
         /\ \A i \in 1..Total : /\ job.slices[i] \in Seq(Byte)
                                /\ Len(job.slices[i]) \in 1..job.size
                                /\ job.there[i] \in Nat
                                /\ job.there[i] <= Len(job.slices[i])
         /\ job.missing \in SUBSET Nat /\ job.missing \subseteq 0..(Total - 1)
         /\ job.exponents \in Seq(Nat)
         /\ job.memory \in Nat \cup {NoLimit}
         /\ job.level \in Levels
BY JobsAssumption DEF Total

\* The missing slices, in order.
LEMMA MissingIs ==
  ASSUME job \in Jobs, plan = Plan(job)
  PROVE  /\ Len(plan.missing) \in Nat /\ Len(plan.missing) = Cardinality(job.missing)
         /\ plan.missing = InOrder(job.missing)
         /\ plan.missing \in [1..Len(plan.missing) -> job.missing]
<1>1. job.missing \in SUBSET Nat /\ IsFiniteSet(job.missing)
  <2>1. IsFiniteSet(0..(Total - 1))
    BY JobIs, FS_Interval
  <2> QED
    BY <2>1, JobIs, FS_Subset
<1>2. plan.missing = InOrder(job.missing)
  BY DEF Plan
<1>3. /\ InOrder(job.missing) \in Seq(job.missing)
      /\ Len(InOrder(job.missing)) = Cardinality(job.missing)
  BY <1>1, InOrderOf
<1> QED
  BY <1>1, <1>2, <1>3, FS_CardinalityType

\* The matrix that is inverted is one of words.
LEMMA MatrixIs ==
  ASSUME CodesAreWords, job \in Jobs, plan = Plan(job),
         NEW n, n = Len(plan.missing), n <= Len(job.exponents)
  PROVE  Matrix(plan.missing, job.exponents) \in [1..n -> [1..n -> Field]]
<1>1. n \in Nat /\ plan.missing \in [1..n -> job.missing]
  BY MissingIs
<1>2. ASSUME NEW r \in 1..n, NEW k \in 1..n
      PROVE  Coefficient(plan.missing[k], job.exponents[r]) \in Field
  <2>1. plan.missing[k] \in 0..(Total - 1)
    BY <1>1, JobIs
  <2>2. r \in DOMAIN job.exponents
    BY <1>1, JobIs
  <2> QED
    BY <2>1, <2>2 DEF CodesAreWords, Total
<1> QED
  BY <1>1, <1>2 DEF Matrix

-----------------------------------------------------------------------------
(* Failure *)

\* What is decided at the start stays, and an error has one of its reasons.
Decided ==
  /\ job \in Jobs /\ plan = Plan(job) /\ faults \in Nat
  /\ pc = "start" => outcome = "none"
  /\ outcome = "error" =>
       \/ faults > 0 \/ ~plan.enough \/ plan.chunk = 0
       \/ plan.missing # <<>> /\ plan.inverse = Singular

LEMMA StaysDecided == Spec => []Decided
<1>1. Init => Decided
  BY DEF Init, Decided
<1>2. Decided /\ [Next]_vars => Decided'
  <2> SUFFICES ASSUME Decided, [Next]_vars PROVE Decided'
    OBVIOUS
  <2>1. CASE Start
    BY <2>1 DEF Decided, Start, Stop
  <2>2. CASE ReadRecovery
    BY <2>2 DEF Decided, ReadRecovery
  <2>3. CASE ReadInput
    BY <2>3 DEF Decided, ReadInput
  <2>4. CASE ReadFails
    BY <2>4 DEF Decided, ReadFails, Stop
  <2>5. CASE WriteChunk
    BY <2>5 DEF Decided, WriteChunk, Stop
  <2>6. CASE UNCHANGED vars
    BY <2>6 DEF Decided, vars
  <2> QED
    BY <2>1, <2>2, <2>3, <2>4, <2>5, <2>6 DEF Next, Step
<1> QED
  BY <1>1, <1>2, PTL DEF Spec

\* Where there is no inverse, some missing slices leave no trace.
LEMMA SingularIs ==
  ASSUME FieldLaws, CodesAreWords, job \in Jobs, plan = Plan(job),
         plan.enough, plan.missing # <<>>, plan.inverse = Singular
  PROVE  Undetermined
<1> DEFINE n == Len(plan.missing)
           matrix == Matrix(plan.missing, job.exponents)
<1>1. n \in Nat /\ n # 0
  BY MissingIs
<1>2. n <= Len(job.exponents) /\ plan.inverse = Invert(matrix)
  BY DEF Plan
<1>3. matrix \in [1..n -> [1..n -> Field]]
  BY <1>2, MatrixIs
<1> HIDE DEF n, matrix
<1>4. PICK x \in [1..n -> Field] :
        (\E k \in 1..n : x[k] # 0) /\ \A r \in 1..n : Side(matrix[r], 0, x, n) = 0
  BY <1>1, <1>2, <1>3, InverseIs
<1>5. ASSUME NEW r \in 1..n
      PROVE  XorSum([k \in 1..n |-> Product(matrix[r][k], x[k])], n) = 0
  <2> DEFINE f == [k \in 1..n |-> Product(matrix[r][0 + k], x[k])]
             g == [k \in 1..n |-> Product(matrix[r][k], x[k])]
  <2>1. \A k \in 1..n : f[k] = g[k]
    BY <1>1
  <2>2. XorSum(f, n) = 0
    BY <1>4 DEF Side
  <2> HIDE DEF f, g
  <2>3. XorSum(g, n) = 0
    BY <1>1, <2>1, <2>2, SumSame
  <2> QED
    BY <2>3 DEF g
<1> QED
  BY <1>4, <1>5 DEF Undetermined, n, matrix

\* Reconstruction fails only because a read failed, there are too few recovery
\* slices, the limit is below four bytes, or the recovery slices used do not
\* determine what is missing: whatever the order of elimination, no choice that
\* determines it is refused (reconstruct_all_missing_slices, invert_gf_matrix).
THEOREM FailsForACause ==
  FieldLaws /\ CodesAreWords => (Spec => []FailsForCause)
<1> SUFFICES ASSUME FieldLaws, CodesAreWords PROVE Spec => []FailsForCause
  OBVIOUS
<1>1. Decided => FailsForCause
  <2> SUFFICES ASSUME Decided PROVE FailsForCause
    OBVIOUS
  <2> SUFFICES ASSUME outcome = "error", ~(faults > 0),
                      Cardinality(job.missing) <= Len(job.exponents),
                      ~(job.memory # NoLimit /\ job.memory < 4)
               PROVE  Undetermined
    <3>1. Cardinality(job.missing) \in Nat
      BY MissingIs DEF Decided
    <3>2. Len(job.exponents) \in Nat
      <4>1. job.exponents \in Seq(Nat)
        BY JobIs DEF Decided
      <4> QED
        BY <4>1
    <3> QED
      BY <3>1, <3>2 DEF FailsForCause
  <2>1. job \in Jobs /\ plan = Plan(job)
    BY DEF Decided
  <2>2. plan.enough
    BY <2>1, MissingIs DEF Plan
  <2>3. plan.chunk # 0
    <3> DEFINE size == job.size
               memory == job.memory
               capped == Lesser(memory, size)
    <3>1. size \in Nat /\ size > 0 /\ (memory = NoLimit \/ (memory \in Nat /\ memory >= 4))
      BY <2>1, JobIs
    <3>2. plan.chunk = RepairChunkSize(size, memory)
      BY <2>1 DEF Plan
    <3> HIDE DEF size, memory
    <3>3. CASE memory = NoLimit
      BY <3>1, <3>2, <3>3 DEF RepairChunkSize
    <3>4. CASE memory # NoLimit
      <4>1. capped \in Nat /\ capped > 0
        BY <3>1, <3>4 DEF Lesser
      <4>2. capped < 4 => size <= 4
        BY <3>1, <3>4 DEF Lesser
      <4>3. plan.chunk = IF capped < 4 THEN IF size <= 4 THEN capped ELSE 0
                         ELSE capped - (capped % 4)
        BY <3>2, <3>4 DEF RepairChunkSize
      <4> HIDE DEF capped
      <4> QED
        BY <4>1, <4>2, <4>3
    <3> QED
      BY <3>3, <3>4
  <2>4. plan.missing # <<>> /\ plan.inverse = Singular
    BY <2>2, <2>3 DEF Decided
  <2> QED
    BY <2>1, <2>2, <2>4, SingularIs
<1> QED
  BY <1>1, StaysDecided, PTL

-----------------------------------------------------------------------------
(* Bytes of files *)

\* s is what another sequence of members of T has behind its first ones.
IsExcerpt(s, T, other, at, count) ==
  s \in Seq(T) /\ Len(s) = count /\ \A p \in 1..count : s[p] = other[at + p]

\* s is another sequence with zeros behind it.
IsPadded(s, T, other, n) ==
  /\ s \in Seq(T) /\ Len(s) = n
  /\ \A p \in 1..n : s[p] = IF p <= Len(other) THEN other[p] ELSE 0

\* A piece of a file.
LEMMA PieceOf ==
  ASSUME NEW T, NEW file \in Seq(T), NEW at \in Nat, at <= Len(file), NEW n \in Nat
  PROVE  IsExcerpt(FileBytes(file, at, n), T, file, at, Smaller(Len(file) - at, n))
<1> DEFINE count == Smaller(Len(file) - at, n)
           a == at + 1
           b == at + count
           s == SubSeq(file, a, b)
<1>1. count \in Nat /\ at + count <= Len(file)
  BY DEF Smaller
<1>2. /\ a \in Int /\ b \in Int /\ b - a + 1 = count
      /\ (a <= b => b - a + 1 = count) /\ (~(a <= b) => count = 0)
      /\ \A p \in 1..count : a + p - 1 = at + p
  BY <1>1
<1>3. \A i \in a..b : file[i] \in T
  BY <1>1
<1> HIDE DEF a, b
<1>4. /\ s \in Seq(T) /\ Len(s) = IF a <= b THEN b - a + 1 ELSE 0
      /\ \A p \in 1..(b - a + 1) : s[p] = file[a + p - 1]
  BY <1>2, <1>3, SubSeqProperties
<1>5. s = FileBytes(file, at, n)
  BY DEF a, b, FileBytes
<1> HIDE DEF s, count
<1>6. Len(s) = count /\ \A p \in 1..count : s[p] = file[at + p]
  BY <1>2, <1>4
<1> QED
  BY <1>4, <1>5, <1>6 DEF count, IsExcerpt

\* Padding adds zeros.
LEMMA PaddedIs ==
  ASSUME NEW T, 0 \in T, NEW bytes \in Seq(T), NEW n \in Nat, Len(bytes) <= n
  PROVE  IsPadded(PadTo(bytes, n), T, bytes, n)
<1> DEFINE m == Len(bytes)
           zeros == [k \in 1..(n - m) |-> 0]
           s == bytes \o zeros
<1>1. m \in Nat /\ n - m \in Nat /\ m + (n - m) = n
  OBVIOUS
<1>2. zeros \in Seq(T) /\ Len(zeros) = n - m /\ \A k \in 1..(n - m) : zeros[k] = 0
  BY <1>1
<1>3. s = PadTo(bytes, n)
  BY DEF PadTo
<1> HIDE DEF zeros
<1>4. /\ s \in Seq(T) /\ Len(s) = m + Len(zeros)
      /\ \A p \in 1..(m + Len(zeros)) :
           s[p] = IF p <= m THEN bytes[p] ELSE zeros[p - m]
  BY <1>2, ConcatProperties
<1> HIDE DEF m, s
<1>5. ASSUME NEW p \in 1..n PROVE s[p] = IF p <= m THEN bytes[p] ELSE 0
  <2>1. p \in 1..(m + Len(zeros))
    BY <1>1, <1>2
  <2>2. s[p] = IF p <= m THEN bytes[p] ELSE zeros[p - m]
    BY <2>1, <1>4
  <2>3. ~(p <= m) => p - m \in 1..(n - m)
    BY <1>1
  <2> QED
    BY <2>2, <2>3, <1>2
<1> QED
  BY <1>1, <1>2, <1>3, <1>4, <1>5 DEF m, IsPadded

-----------------------------------------------------------------------------
(* The cache *)

\* What is held of the bytes of a file from an offset on: those of a chunk, and
\* zeros behind them, but nothing behind the slice.  Only what was read ahead may
\* be shorter than the chunk, and it ends where the file does.
IsPiece(data, file, at, chunk, size) ==
  /\ data \in Seq(Int)
  /\ Len(data) <= Smaller(chunk, size - at)
  /\ Smaller(Len(file) - at, chunk) <= Len(data)
  /\ \/ Len(data) = Smaller(chunk, size - at)
     \/ at >= chunk /\ Len(data) = Len(file) - at
  /\ \A p \in 1..Len(data) :
       data[p] = IF at + p <= Len(file) THEN file[at + p] ELSE 0

\* Entries that hold what the files hold.
Sound(file, chunk, size) ==
  {e \in [slice : DOMAIN file, offset : Nat, data : Seq(Int)] :
     /\ e.offset < Len(file[e.slice])
     /\ IsPiece(e.data, file[e.slice], e.offset, chunk, size)}

Distinct(store) ==
  \A a, b \in DOMAIN store :
    store[a].slice = store[b].slice /\ store[a].offset = store[b].offset => a = b

\* Caches with at most n entries of E, no two for the same place.
Stores(E, n) == {store \in Seq(E) : Len(store) <= n /\ Distinct(store)}

\* A sequence that goes on where another one ends has it for a prefix.
LEMMA PrefixOf ==
  ASSUME NEW T, NEW s \in Seq(T), NEW t \in Seq(T), Len(s) <= Len(t),
         \A p \in 1..Len(s) : s[p] = t[p]
  PROVE  IsPrefix(s, t)
<1> DEFINE a == 1
           b == Len(s)
           u == SubSeq(s, a, b)
           v == SubSeq(t, a, b)
<1>1. /\ a \in Int /\ b \in Int /\ (a <= b => b - a + 1 = b) /\ (~(a <= b) => b = 0)
      /\ b - a + 1 = b /\ \A p \in 1..b : a + p - 1 = p
  OBVIOUS
<1>2. (\A p \in a..b : s[p] \in T) /\ (\A p \in a..b : t[p] \in T)
  OBVIOUS
<1> HIDE DEF a
<1>3. u \in Seq(T) /\ Len(u) = b /\ \A p \in 1..b : u[p] = s[p]
  <2>1. /\ u \in Seq(T) /\ Len(u) = IF a <= b THEN b - a + 1 ELSE 0
        /\ \A p \in 1..(b - a + 1) : u[p] = s[a + p - 1]
    BY <1>1, <1>2, SubSeqProperties
  <2> HIDE DEF u
  <2> QED
    BY <1>1, <2>1
<1>4. v \in Seq(T) /\ Len(v) = b /\ \A p \in 1..b : v[p] = t[p]
  <2>1. /\ v \in Seq(T) /\ Len(v) = IF a <= b THEN b - a + 1 ELSE 0
        /\ \A p \in 1..(b - a + 1) : v[p] = t[a + p - 1]
    BY <1>1, <1>2, SubSeqProperties
  <2> HIDE DEF v, b
  <2> QED
    BY <1>1, <2>1
<1> HIDE DEF u, v
<1>5. u = v
  BY <1>3, <1>4, SeqEqual
<1> QED
  BY <1>5 DEF IsPrefix, u, v, a

LEMMA TailStays ==
  ASSUME NEW E, NEW n \in Nat, NEW store \in Stores(E, n), store # <<>>
  PROVE  /\ Tail(store) \in Stores(E, n - 1)
         /\ \A s, o : Holds(Tail(store), s, o) => Holds(store, s, o)
<1> DEFINE t == Tail(store)
<1>1. store \in Seq(E) /\ Len(store) <= n /\ Distinct(store)
  BY DEF Stores
<1>2. /\ t \in Seq(E) /\ Len(t) = Len(store) - 1
      /\ \A i \in 1..Len(t) : t[i] = store[i + 1]
  BY <1>1, HeadTailProperties
<1> HIDE DEF t
<1>3. \A i \in DOMAIN t : i \in 1..Len(t) /\ i + 1 \in DOMAIN store /\ t[i] = store[i + 1]
  BY <1>1, <1>2
<1>4. Distinct(t)
  <2> SUFFICES ASSUME NEW a \in DOMAIN t, NEW b \in DOMAIN t,
                      t[a].slice = t[b].slice, t[a].offset = t[b].offset
               PROVE  a = b
    BY DEF Distinct
  <2>1. a + 1 = b + 1
    BY <1>1, <1>3 DEF Distinct
  <2> QED
    BY <2>1, <1>3
<1>5. t \in Stores(E, n - 1)
  BY <1>1, <1>2, <1>4 DEF Stores
<1>6. ASSUME NEW s, NEW o, Holds(t, s, o) PROVE Holds(store, s, o)
  BY <1>3, <1>6 DEF Holds
<1> QED
  BY <1>5, <1>6 DEF t

\* There is room for one more entry.
LEMMA RoomIs ==
  ASSUME NEW E, NEW store \in Stores(E, MaxCache)
  PROVE  /\ Room(store) \in Stores(E, MaxCache - 1)
         /\ \A s, o : Holds(Room(store), s, o) => Holds(store, s, o)
<1>1. MaxCache \in Nat /\ MaxCache > 0
  BY CacheAssumption
<1>2. store \in Seq(E) /\ Len(store) \in Nat /\ Len(store) <= MaxCache /\ Distinct(store)
  BY DEF Stores
<1>3. CASE Len(store) >= MaxCache
  <2>1. store # <<>>
    BY <1>1, <1>3
  <2>2. Room(store) = Tail(store)
    BY <1>3 DEF Room
  <2> QED
    BY <1>1, <2>1, <2>2, TailStays
<1>4. CASE ~(Len(store) >= MaxCache)
  BY <1>1, <1>2, <1>4 DEF Room, Stores
<1> QED
  BY <1>3, <1>4

LEMMA AppendStays ==
  ASSUME NEW E, NEW n \in Nat, NEW store \in Stores(E, n - 1), NEW e \in E,
         ~Holds(store, e.slice, e.offset)
  PROVE  Append(store, e) \in Stores(E, n)
<1> DEFINE t == Append(store, e)
<1>1. store \in Seq(E) /\ Len(store) \in Nat /\ Len(store) <= n - 1 /\ Distinct(store)
  BY DEF Stores
<1>2. /\ t \in Seq(E) /\ Len(t) = Len(store) + 1
      /\ \A i \in 1..Len(store) : t[i] = store[i]
      /\ t[Len(store) + 1] = e
  BY <1>1, AppendProperties
<1> HIDE DEF t
<1>3. ASSUME NEW a \in DOMAIN t
      PROVE  \/ a \in DOMAIN store /\ t[a] = store[a]
             \/ a = Len(store) + 1 /\ t[a] = e
  BY <1>1, <1>2
<1>4. Distinct(t)
  <2> SUFFICES ASSUME NEW a \in DOMAIN t, NEW b \in DOMAIN t,
                      t[a].slice = t[b].slice, t[a].offset = t[b].offset
               PROVE  a = b
    BY DEF Distinct
  <2>1. \A c \in DOMAIN store : ~(store[c].slice = e.slice /\ store[c].offset = e.offset)
    BY DEF Holds
  <2> QED
    BY <1>1, <1>3, <2>1 DEF Distinct
<1> QED
  BY <1>1, <1>2, <1>4 DEF Stores, t

\* To use an entry moves it to the end.
LEMMA UsedIs ==
  ASSUME NEW E, NEW n \in Nat, NEW store \in Stores(E, n), NEW k \in DOMAIN store
  PROVE  Used(store, k) \in Stores(E, n)
<1> DEFINE m == Len(store)
           front == SubSeq(store, 1, k - 1)
           back == SubSeq(store, k + 1, m)
           both == front \o back
           t == Append(both, store[k])
<1>1. store \in Seq(E) /\ m \in Nat /\ m <= n /\ Distinct(store) /\ k \in 1..m
      /\ \A i \in 1..m : store[i] \in E
  BY DEF Stores
<1>2. front \in Seq(E) /\ Len(front) = k - 1 /\ \A i \in 1..(k - 1) : front[i] = store[i]
  <2> DEFINE a == 1
             b == k - 1
  <2>1. a \in Int /\ b \in Int /\ b - a + 1 = k - 1 /\ (~(a <= b) => k - 1 = 0)
        /\ \A i \in 1..(k - 1) : a + i - 1 = i
    BY <1>1
  <2>2. \A i \in a..b : store[i] \in E
    BY <1>1
  <2>3. front = SubSeq(store, a, b)
    OBVIOUS
  <2> HIDE DEF a, b, front
  <2>4. /\ front \in Seq(E) /\ Len(front) = IF a <= b THEN b - a + 1 ELSE 0
        /\ \A i \in 1..(b - a + 1) : front[i] = store[a + i - 1]
    BY <2>1, <2>2, <2>3, SubSeqProperties
  <2> QED
    BY <2>1, <2>4
<1>3. back \in Seq(E) /\ Len(back) = m - k /\ \A i \in 1..(m - k) : back[i] = store[k + i]
  <2> DEFINE a == k + 1
             b == m
  <2>1. a \in Int /\ b \in Int /\ b - a + 1 = m - k /\ (~(a <= b) => m - k = 0)
        /\ \A i \in 1..(m - k) : a + i - 1 = k + i
    BY <1>1
  <2>2. \A i \in a..b : store[i] \in E
    BY <1>1
  <2>3. back = SubSeq(store, a, b)
    OBVIOUS
  <2> HIDE DEF a, b, back
  <2>4. /\ back \in Seq(E) /\ Len(back) = IF a <= b THEN b - a + 1 ELSE 0
        /\ \A i \in 1..(b - a + 1) : back[i] = store[a + i - 1]
    BY <2>1, <2>2, <2>3, SubSeqProperties
  <2> QED
    BY <2>1, <2>4
<1>8. Used(store, k) = t
  BY DEF Used, RemoveAt
<1> HIDE DEF front, back
<1>4. /\ both \in Seq(E) /\ Len(both) = (k - 1) + (m - k)
      /\ \A i \in 1..((k - 1) + (m - k)) :
           both[i] = IF i <= k - 1 THEN front[i] ELSE back[i - (k - 1)]
  <2>1. /\ both \in Seq(E) /\ Len(both) = Len(front) + Len(back)
        /\ \A i \in 1..(Len(front) + Len(back)) :
             both[i] = IF i <= Len(front) THEN front[i] ELSE back[i - Len(front)]
    BY <1>2, <1>3, ConcatProperties
  <2> QED
    BY <2>1, <1>2, <1>3
<1> HIDE DEF both
<1>5. /\ t \in Seq(E) /\ Len(t) = m
      /\ \A i \in 1..(m - 1) : t[i] = both[i]
      /\ t[m] = store[k]
  <2>1. /\ t \in Seq(E) /\ Len(t) = Len(both) + 1
        /\ \A i \in 1..Len(both) : t[i] = both[i]
        /\ t[Len(both) + 1] = store[k]
    <3>1. store[k] \in E
      BY <1>1
    <3> QED
      BY <3>1, <1>4, AppendProperties
  <2>2. Len(both) = m - 1 /\ m - 1 + 1 = m
    BY <1>1, <1>4
  <2> QED
    BY <2>1, <2>2
<1> HIDE DEF t
\* Where each entry was.
<1> DEFINE was(i) == IF i = m THEN k ELSE IF i < k THEN i ELSE i + 1
<1>6. ASSUME NEW i \in 1..m PROVE was(i) \in DOMAIN store /\ t[i] = store[was(i)]
  <2>1. CASE i = m
    BY <2>1, <1>1, <1>5
  <2>2. CASE i # m /\ i < k
    <3>1. i \in 1..(m - 1) /\ i \in 1..(k - 1) /\ i \in 1..((k - 1) + (m - k)) /\ i <= k - 1
      BY <2>2, <1>1
    <3>2. t[i] = both[i]
      BY <3>1, <1>5
    <3>3. both[i] = front[i]
      BY <3>1, <1>4
    <3>4. front[i] = store[i]
      BY <3>1, <1>2
    <3>5. was(i) = i /\ i \in DOMAIN store
      BY <2>2, <1>1
    <3> HIDE DEF was
    <3> QED
      BY <3>2, <3>3, <3>4, <3>5
  <2>3. CASE i # m /\ ~(i < k)
    <3>1. /\ i \in 1..(m - 1) /\ i \in 1..((k - 1) + (m - k)) /\ ~(i <= k - 1)
          /\ i - (k - 1) \in 1..(m - k) /\ k + (i - (k - 1)) = i + 1
          /\ i + 1 \in 1..m
      BY <2>3, <1>1
    <3>2. t[i] = both[i]
      BY <3>1, <1>5
    <3>3. both[i] = back[i - (k - 1)]
      BY <3>1, <1>4
    <3>4. back[i - (k - 1)] = store[k + (i - (k - 1))]
      BY <3>1, <1>3
    <3>5. was(i) = i + 1 /\ i + 1 \in DOMAIN store
      BY <2>3, <3>1, <1>1
    <3>6. store[k + (i - (k - 1))] = store[i + 1]
      BY <3>1
    <3> HIDE DEF was
    <3> QED
      BY <3>2, <3>3, <3>4, <3>5, <3>6
  <2> QED
    BY <2>1, <2>2, <2>3
<1>7. Distinct(t)
  <2> SUFFICES ASSUME NEW a \in DOMAIN t, NEW b \in DOMAIN t,
                      t[a].slice = t[b].slice, t[a].offset = t[b].offset
               PROVE  a = b
    BY DEF Distinct
  <2>1. a \in 1..m /\ b \in 1..m
    BY <1>5
  <2>2. was(a) = was(b)
    <3>1. /\ was(a) \in DOMAIN store /\ t[a] = store[was(a)]
          /\ was(b) \in DOMAIN store /\ t[b] = store[was(b)]
      BY <2>1, <1>6
    <3> HIDE DEF was
    <3> QED
      BY <3>1, <1>1 DEF Distinct
  <2> QED
    BY <2>1, <2>2, <1>1
<1> QED
  BY <1>1, <1>5, <1>7, <1>8 DEF Stores

-----------------------------------------------------------------------------
(* Reading *)

\* A chunk of a file is a piece of it.
LEMMA ReadIsPiece ==
  ASSUME NEW file \in Seq(Int), NEW at \in Nat, at < Len(file),
         NEW chunk \in Nat, NEW size \in Nat, Len(file) <= size, at >= chunk
  PROVE  IsPiece(FileBytes(file, at, chunk), file, at, chunk, size)
<1> DEFINE data == FileBytes(file, at, chunk)
           count == Smaller(Len(file) - at, chunk)
<1>1. data \in Seq(Int) /\ Len(data) = count /\ \A p \in 1..count : data[p] = file[at + p]
  <2>1. IsExcerpt(data, Int, file, at, count)
    BY PieceOf
  <2> HIDE DEF data, count
  <2> QED
    BY <2>1 DEF IsExcerpt
<1>2. count <= Len(file) - at /\ count <= Smaller(chunk, size - at)
  BY DEF Smaller
<1>3. \A p \in 1..count : at + p <= Len(file)
  BY <1>1, <1>2
<1>4. count = Smaller(chunk, size - at) \/ (at >= chunk /\ count = Len(file) - at)
  BY DEF Smaller
<1> HIDE DEF data, count
<1>5. IsPiece(data, file, at, chunk, size)
  BY <1>1, <1>2, <1>3, <1>4 DEF IsPiece, count
<1> QED
  BY <1>5 DEF data

\* So is one that is padded, because it ends where the chunk or the slice does.
LEMMA PaddedIsPiece ==
  ASSUME NEW file \in Seq(Int), NEW at \in Nat, at < Len(file),
         NEW chunk \in Nat, NEW size \in Nat, Len(file) <= size,
         NEW n, n = Smaller(chunk, size - at)
  PROVE  IsPiece(ReadPadded(at, n, size, file), file, at, chunk, size)
<1> DEFINE bytes == FileBytes(file, at, n)
           count == Smaller(Len(file) - at, n)
           data == ReadPadded(at, n, size, file)
<1>0. Len(file) \in Nat /\ at <= Len(file)
  OBVIOUS
<1>1. n \in Nat /\ count \in Nat /\ count = Smaller(Len(file) - at, chunk) /\ count <= n
  <2> DEFINE length == Len(file)
  <2>1. length \in Nat /\ at < length /\ length <= size
    BY <1>0
  <2> HIDE DEF length
  <2>2. n = IF chunk < size - at THEN chunk ELSE size - at
    BY DEF Smaller
  <2>3. count = IF length - at < n THEN length - at ELSE n
    BY DEF Smaller, length
  <2>4. Smaller(length - at, chunk) = IF length - at < chunk THEN length - at ELSE chunk
    BY DEF Smaller
  <2> HIDE DEF count
  <2>5. n \in Nat
    BY <2>1, <2>2
  <2>6. count \in Nat /\ count <= n
    BY <2>1, <2>3, <2>5
  <2>7. count = Smaller(length - at, chunk)
    BY <2>1, <2>2, <2>3, <2>4
  <2> QED
    BY <2>5, <2>6, <2>7 DEF length
<1>2. bytes \in Seq(Int) /\ Len(bytes) = count /\ \A p \in 1..count : bytes[p] = file[at + p]
  <2>1. IsExcerpt(bytes, Int, file, at, count)
    BY <1>0, <1>1, PieceOf
  <2> HIDE DEF bytes, count
  <2> QED
    BY <2>1 DEF IsExcerpt
<1> HIDE DEF bytes
<1>3. \A p \in 1..count : at + p <= Len(file)
  BY <1>1 DEF Smaller
<1>4. CASE at + n > Len(file) /\ at + n <= size
  <2>1. data = PadTo(bytes, n)
    BY <1>4 DEF ReadPadded, bytes
  <2>2. /\ data \in Seq(Int) /\ Len(data) = n
        /\ \A p \in 1..n : data[p] = IF p <= count THEN bytes[p] ELSE 0
    <3> HIDE DEF data
    <3>2. 0 \in Int /\ bytes \in Seq(Int) /\ Len(bytes) <= n
      BY <1>1, <1>2
    <3> HIDE DEF count
    <3>1. IsPadded(data, Int, bytes, n)
      BY <2>1, <3>2, <1>1, PaddedIs
    <3> QED
      BY <3>1, <1>2 DEF IsPadded
  <2>3. count = Len(file) - at
    BY <1>4 DEF Smaller
  <2>4. ASSUME NEW p \in 1..n
        PROVE  data[p] = IF at + p <= Len(file) THEN file[at + p] ELSE 0
    <3>1. p <= count <=> at + p <= Len(file)
      BY <2>3, <1>1
    <3>2. p <= count => bytes[p] = file[at + p]
      BY <1>1, <1>2
    <3> HIDE DEF data, count
    <3> QED
      BY <2>2, <3>1, <3>2
  <2> HIDE DEF data, count
  <2> QED
    BY <2>2, <2>4, <1>1 DEF IsPiece, data
<1>5. CASE ~(at + n > Len(file) /\ at + n <= size)
  <2>1. data = bytes
    BY <1>5 DEF ReadPadded, bytes
  <2>2. count <= Smaller(chunk, size - at) /\ count = n
    BY <1>1, <1>5 DEF Smaller
  <2> HIDE DEF data, count, bytes
  <2>3. IsPiece(data, file, at, chunk, size)
    BY <2>1, <2>2, <1>1, <1>2, <1>3 DEF IsPiece
  <2> QED
    BY <2>3 DEF data
<1> QED
  BY <1>4, <1>5

\* Of slices that have no more bytes than the slice size.
AreFiles(file, size) ==
  \A i \in DOMAIN file : file[i] \in Seq(Int) /\ Len(file[i]) <= size

\* To read a chunk ahead keeps what the cache is.
LEMMA PrefetchOneStays ==
  ASSUME NEW file, NEW chunk \in Nat, NEW size \in Nat, AreFiles(file, size),
         NEW i \in Nat, i \in DOMAIN file, NEW at \in Nat,
         NEW n, at < Len(file[i]) => n = chunk /\ at >= chunk,
         NEW store \in Stores(Sound(file, chunk, size), MaxCache)
  PROVE  PrefetchOne(store, i, at, n, file[i])
           \in Stores(Sound(file, chunk, size), MaxCache)
<1> DEFINE E == Sound(file, chunk, size)
           e == Entry(i, at, FileBytes(file[i], at, n))
<1>1. CASE at >= Len(file[i]) \/ Holds(store, i, at)
  BY <1>1 DEF PrefetchOne
<1>2. CASE ~(at >= Len(file[i]) \/ Holds(store, i, at))
  <2>1. file[i] \in Seq(Int) /\ Len(file[i]) \in Nat /\ Len(file[i]) <= size
    BY DEF AreFiles
  <2>2. at < Len(file[i]) /\ n = chunk /\ at >= chunk
    BY <1>2, <2>1
  <2>3. e \in E
    <3>1. IsPiece(FileBytes(file[i], at, n), file[i], at, chunk, size)
      BY <2>1, <2>2, ReadIsPiece
    <3>2. FileBytes(file[i], at, n) \in Seq(Int)
      BY <3>1 DEF IsPiece
    <3> QED
      BY <2>2, <3>1, <3>2 DEF Entry, Sound
  <2>4. e.slice = i /\ e.offset = at
    BY DEF Entry
  <2>5. PrefetchOne(store, i, at, n, file[i]) = Append(Room(store), e)
    BY <1>2 DEF PrefetchOne, ReadAhead
  <2> HIDE DEF e, E
  <2>6. Room(store) \in Stores(E, MaxCache - 1) /\ ~Holds(Room(store), e.slice, e.offset)
    BY <1>2, <2>4, RoomIs DEF E
  <2>7. MaxCache \in Nat
    BY CacheAssumption
  <2>8. Append(Room(store), e) \in Stores(E, MaxCache)
    BY <2>3, <2>6, <2>7, AppendStays
  <2> QED
    BY <2>5, <2>8 DEF E
<1> QED
  BY <1>1, <1>2

LEMMA PrefetchStays ==
  ASSUME NEW file, NEW chunk \in Nat, NEW size \in Nat, AreFiles(file, size),
         NEW i \in Nat, i \in DOMAIN file, NEW from \in Nat,
         NEW n \in Nat, from < Len(file[i]) => n = chunk /\ from >= chunk,
         NEW store \in Stores(Sound(file, chunk, size), MaxCache)
  PROVE  Prefetch(store, i, from, n, file[i])
           \in Stores(Sound(file, chunk, size), MaxCache)
<1> DEFINE V == Stores(Sound(file, chunk, size), MaxCache)
           next(k, c) == PrefetchOne(c, i, from + (k - 1) * n, n, file[i])
           IsAfter(g) == g = [k \in 0..Ahead |->
                                IF k = 0 THEN store
                                ELSE PrefetchOne(g[k - 1], i, from + (k - 1) * n, n, file[i])]
           After == CHOOSE g : IsAfter(g)
<1>1. Ahead \in Nat
  BY CacheAssumption
<1>2. ASSUME NEW k \in 1..Ahead, NEW c \in V PROVE next(k, c) \in V
  <2> DEFINE at == from + (k - 1) * n
  <2>1. k - 1 \in Nat /\ (k - 1) * n \in Nat
    BY <1>1
  <2>2. at \in Nat /\ from <= at
    BY <2>1
  <2>3. Len(file[i]) \in Nat
    BY DEF AreFiles
  <2>4. at < Len(file[i]) => n = chunk /\ at >= chunk
    BY <2>2, <2>3
  <2> HIDE DEF at
  <2>5. PrefetchOne(c, i, at, n, file[i]) \in V
    BY <2>2, <2>4, PrefetchOneStays
  <2> QED
    BY <2>5 DEF at
<1>3. Prefetch(store, i, from, n, file[i])
        = IF Len(store) >= (MaxCache * 9) \div 10 THEN store ELSE After[Ahead]
  BY DEF Prefetch
<1> DEFINE W == [k \in 0..Ahead |-> V]
<1>4. IsAfter(After)
  <2> DEFINE step == [k \in 1..Ahead |-> [c \in V |-> next(k, c)]]
  <2>1. \A k \in 1..Ahead : \A c \in V : step[k][c] = next(k, c)
    OBVIOUS
  <2>2. store \in V
    OBVIOUS
  <2> HIDE DEF step, V, next, After, IsAfter
  <2>3. PICK f : IsLoop(f, store, step, Ahead)
    BY <1>1, LoopExists
  <2>4. \A k \in 0..Ahead : f[k] \in W[k]
    <3>1. f[0] \in W[0]
      <4>1. 0 \in 0..Ahead
        BY <1>1
      <4>2. f[0] = store
        BY <4>1, <2>3 DEF IsLoop
      <4> QED
        BY <4>1, <4>2, <2>2
    <3>2. ASSUME NEW k \in 1..Ahead, f[k - 1] \in W[k - 1] PROVE f[k] \in W[k]
      <4>1. k \in 0..Ahead /\ k - 1 \in 0..Ahead /\ k # 0
        BY <1>1
      <4>2. f[k - 1] \in V /\ f[k] = step[k][f[k - 1]]
        BY <4>1, <3>2, <2>3 DEF IsLoop
      <4>3. f[k] \in V
        BY <4>2, <2>1, <1>2
      <4> QED
        BY <4>1, <4>3
    <3> HIDE DEF W
    <3> QED
      BY <1>1, <3>1, <3>2, LoopStays
  <2>5. ASSUME NEW k \in 0..Ahead
        PROVE  f[k] = IF k = 0 THEN store ELSE next(k, f[k - 1])
    <3>1. CASE k = 0
      BY <3>1, <2>3 DEF IsLoop
    <3>2. CASE k # 0
      <4>1. k \in 1..Ahead /\ k - 1 \in 0..Ahead
        BY <3>2, <1>1
      <4>2. f[k - 1] \in V
        BY <4>1, <2>4
      <4> QED
        BY <4>1, <4>2, <3>2, <2>1, <2>3 DEF IsLoop
    <3> QED
      BY <3>1, <3>2
  <2>6. f = [k \in 0..Ahead |-> IF k = 0 THEN store ELSE next(k, f[k - 1])]
    BY <2>3, <2>5 DEF IsLoop
  <2>7. IsAfter(f)
    BY <2>6 DEF next, IsAfter
  <2> QED
    BY <2>7 DEF After
<1>5. /\ After[0] \in W[0]
      /\ \A k \in 1..Ahead : After[k - 1] \in W[k - 1] => After[k] \in W[k]
  <2>1. After[0] = store
    <3> HIDE DEF After
    <3> QED
      BY <1>1, <1>4
  <2>2. ASSUME NEW k \in 1..Ahead, After[k - 1] \in W[k - 1] PROVE After[k] \in W[k]
    <3>1. After[k] = next(k, After[k - 1])
      <4>1. k \in 0..Ahead /\ k # 0
        BY <1>1
      <4> HIDE DEF After
      <4> QED
        BY <4>1, <1>4
    <3>2. k \in 0..Ahead /\ k - 1 \in 0..Ahead
      BY <1>1
    <3> HIDE DEF After, next, V
    <3> QED
      BY <3>1, <3>2, <2>2, <1>2
  <2>3. store \in V /\ 0 \in 0..Ahead
    BY <1>1
  <2> HIDE DEF After, V
  <2> QED
    BY <2>1, <2>2, <2>3
<1>6. After[Ahead] \in V
  <2> HIDE DEF After, V
  <2>1. \A k \in 0..Ahead : After[k] \in W[k]
    <3>1. \A k \in 1..Ahead : After[k - 1] \in W[k - 1] => After[k] \in W[k]
      BY <1>5
    <3>2. After[0] \in W[0]
      BY <1>5
    <3> HIDE DEF W
    <3> QED
      BY <1>1, <3>1, <3>2, LoopStays
  <2> QED
    BY <1>1, <2>1
<1> QED
  BY <1>3, <1>6

\* To read a chunk gives a piece of the file and keeps what the cache is.
LEMMA ReadIs ==
  ASSUME NEW file, NEW chunk \in Nat, NEW size \in Nat, AreFiles(file, size),
         NEW i \in Nat, i \in DOMAIN file, NEW at \in Nat, at < size,
         NEW n, n = Smaller(chunk, size - at),
         NEW store \in Stores(Sound(file, chunk, size), MaxCache),
         NEW read, read = ReadChunk(store, i, at, n, size, file[i])
  PROVE  /\ IsPiece(read.data, file[i], at, chunk, size)
         /\ read.cache \in Stores(Sound(file, chunk, size), MaxCache)
<1> DEFINE E == Sound(file, chunk, size)
<1>1. file[i] \in Seq(Int) /\ Len(file[i]) \in Nat /\ Len(file[i]) <= size
  BY DEF AreFiles
<1>2. n \in Nat /\ n <= chunk /\ n <= size - at
  BY DEF Smaller
<1>3. CASE Holds(store, i, at)
  <2> DEFINE k == Cached(store, i, at)
  <2>1. k \in DOMAIN store /\ store[k].slice = i /\ store[k].offset = at
    BY <1>3 DEF Holds, Cached
  <2>2. read = [data |-> store[k].data, cache |-> Used(store, k)]
    BY <1>3 DEF ReadChunk
  <2> HIDE DEF k, E
  <2>3. store \in Seq(E)
    BY DEF Stores, E
  <2>4. store[k] \in E
    BY <2>1, <2>3
  <2>5. Used(store, k) \in Stores(E, MaxCache)
    <3>1. MaxCache \in Nat
      BY CacheAssumption
    <3> QED
      BY <2>1, <3>1, UsedIs DEF E
  <2>6. IsPiece(store[k].data, file[i], at, chunk, size)
    BY <2>1, <2>4 DEF E, Sound
  <2> QED
    BY <2>2, <2>5, <2>6 DEF E
<1>4. CASE ~Holds(store, i, at) /\ at >= Len(file[i])
  <2> DEFINE data == PadTo(<<>>, n)
  <2>1. read = [data |-> data, cache |-> store]
    <3>1. Smaller(n, size - at) = n
      BY <1>2 DEF Smaller
    <3> QED
      BY <1>4, <3>1 DEF ReadChunk
  <2>2. IsPadded(data, Int, <<>>, n)
    <3> DEFINE none == <<>>
    <3>1. none \in Seq(Int) /\ Len(none) <= n /\ 0 \in Int
      BY <1>2
    <3>2. data = PadTo(none, n)
      OBVIOUS
    <3> HIDE DEF none, data
    <3>3. IsPadded(data, Int, none, n)
      BY <1>2, <3>1, <3>2, PaddedIs
    <3> QED
      BY <3>3 DEF none
  <2> HIDE DEF data
  <2>3. data \in Seq(Int) /\ Len(data) = n /\ \A p \in 1..n : data[p] = 0
    BY <1>2, <2>2 DEF IsPadded
  <2>4. Smaller(Len(file[i]) - at, chunk) <= n
    BY <1>1, <1>2, <1>4 DEF Smaller
  <2>5. \A p \in 1..n : ~(at + p <= Len(file[i]))
    BY <1>1, <1>2, <1>4
  <2>6. IsPiece(data, file[i], at, chunk, size)
    BY <2>3, <2>4, <2>5 DEF IsPiece
  <2> QED
    BY <2>1, <2>6
<1>5. CASE ~Holds(store, i, at) /\ ~(at >= Len(file[i]))
  <2> DEFINE bytes == ReadPadded(at, n, size, file[i])
             e == Entry(i, at, bytes)
             updated == Append(Room(store), e)
  <2>1. read = [data |-> bytes, cache |-> Prefetch(updated, i, at + n, n, file[i])]
    BY <1>5 DEF ReadChunk
  <2> HIDE DEF bytes
  <2>2. IsPiece(bytes, file[i], at, chunk, size)
    BY <1>1, <1>5, PaddedIsPiece DEF bytes
  <2>3. e \in E /\ e.slice = i /\ e.offset = at
    <3>1. bytes \in Seq(Int)
      BY <2>2 DEF IsPiece
    <3> QED
      BY <2>2, <3>1, <1>1, <1>5 DEF Entry, Sound
  <2> HIDE DEF e, E
  <2>4. Room(store) \in Stores(E, MaxCache - 1) /\ ~Holds(Room(store), e.slice, e.offset)
    BY <1>5, <2>3, RoomIs DEF E
  <2>5. MaxCache \in Nat
    BY CacheAssumption
  <2>6. updated \in Stores(E, MaxCache)
    BY <2>3, <2>4, <2>5, AppendStays
  <2> HIDE DEF updated
  <2>7. at + n < Len(file[i]) => n = chunk /\ at + n >= chunk
    BY <1>1, <1>2 DEF Smaller
  <2> DEFINE from == at + n
  <2>8. from \in Nat
    BY <1>2
  <2>9. from < Len(file[i]) => n = chunk /\ from >= chunk
    BY <2>7
  <2> HIDE DEF from
  <2>10. Prefetch(updated, i, from, n, file[i]) \in Stores(E, MaxCache)
    BY <1>2, <2>6, <2>8, <2>9, PrefetchStays DEF E
  <2> QED
    BY <2>1, <2>2, <2>10 DEF E, from
<1> QED
  BY <1>3, <1>4, <1>5

-----------------------------------------------------------------------------
(* The walk over the chunks *)

\* The files the slices lie in.
Files == [i \in 0..(Total - 1) |-> File(i)]

Caches == Stores(Sound(Files, plan.chunk, job.size), MaxCache)

LEMMA FilesAre ==
  ASSUME job \in Jobs
  PROVE  /\ AreFiles(Files, job.size) /\ DOMAIN Files = 0..(Total - 1)
         /\ \A i \in 0..(Total - 1) :
              Files[i] = File(i) /\ IsExcerpt(File(i), Byte, job.slices[i + 1], 0, job.there[i + 1])
<1>1. ASSUME NEW i \in 0..(Total - 1)
      PROVE  /\ IsExcerpt(File(i), Byte, job.slices[i + 1], 0, job.there[i + 1])
             /\ job.there[i + 1] \in Nat /\ job.there[i + 1] <= job.size
  <2> DEFINE s == job.slices[i + 1]
             b == job.there[i + 1]
             a == 1
             f == SubSeq(s, a, b)
  <2>1. i + 1 \in 1..Total
    BY JobIs
  <2>2. s \in Seq(Byte) /\ Len(s) \in 1..job.size /\ b \in Nat /\ b <= Len(s) /\ job.size \in Nat
    BY <2>1, JobIs
  <2>3. f = File(i)
    BY DEF File
  <2> HIDE DEF s, b
  <2>4. /\ a \in Int /\ b \in Int /\ b - a + 1 = b /\ (~(a <= b) => b = 0)
        /\ \A p \in 1..b : a + p - 1 = 0 + p
    BY <2>2
  <2>5. \A j \in a..b : s[j] \in Byte
    BY <2>2
  <2> HIDE DEF a
  <2>6. /\ f \in Seq(Byte) /\ Len(f) = IF a <= b THEN b - a + 1 ELSE 0
        /\ \A p \in 1..(b - a + 1) : f[p] = s[a + p - 1]
    BY <2>4, <2>5, SubSeqProperties
  <2> HIDE DEF f
  <2>7. Len(f) = b /\ \A p \in 1..b : f[p] = s[0 + p]
    BY <2>2, <2>4, <2>6
  <2>8. IsExcerpt(f, Byte, s, 0, b)
    BY <2>6, <2>7 DEF IsExcerpt
  <2> QED
    BY <2>2, <2>3, <2>8 DEF s, b
<1>2. \A b \in Byte : b \in Int
  BY DEF Byte
<1>3. ASSUME NEW i \in 0..(Total - 1) PROVE File(i) \in Seq(Int) /\ Len(File(i)) <= job.size
  <2> DEFINE f == File(i)
  <2>1. f \in Seq(Byte) /\ Len(f) <= job.size
    BY <1>1 DEF IsExcerpt
  <2> HIDE DEF f
  <2>2. f \in Seq(Int)
    BY <1>2, <2>1
  <2> QED
    BY <2>1, <2>2 DEF f
<1> QED
  BY <1>1, <1>3 DEF Files, AreFiles

\* The chunk that is decided on.
LEMMA ChunkIs ==
  ASSUME job \in Jobs, plan = Plan(job)
  PROVE  plan.chunk \in Nat /\ plan.chunk <= job.size
<1> DEFINE size == job.size
           memory == job.memory
           capped == Lesser(memory, size)
<1>1. size \in Nat /\ (memory = NoLimit \/ memory \in Nat)
  BY JobIs
<1>2. plan.chunk = RepairChunkSize(size, memory)
  BY DEF Plan
<1> HIDE DEF size, memory
<1>3. CASE memory = NoLimit
  BY <1>1, <1>2, <1>3 DEF RepairChunkSize, size
<1>4. CASE memory # NoLimit
  <2>1. capped \in Nat /\ capped <= size
    BY <1>1, <1>4 DEF Lesser
  <2>2. plan.chunk = IF capped < 4 THEN IF size <= 4 THEN capped ELSE 0
                     ELSE capped - (capped % 4)
    BY <1>2, <1>4 DEF RepairChunkSize
  <2> HIDE DEF capped
  <2> QED
    BY <1>1, <2>1, <2>2 DEF size
<1> QED
  BY <1>3, <1>4

\* The slices read are those available.
LEMMA AvailableAre ==
  ASSUME job \in Jobs, plan = Plan(job)
  PROVE  /\ Len(plan.available) \in Nat
         /\ \A k \in 1..Len(plan.available) :
              plan.available[k] \in Available(job) /\ plan.available[k] \in 0..(Total - 1)
<1>1. Available(job) \in SUBSET Nat /\ Available(job) \subseteq 0..(Total - 1)
  BY JobIs DEF Available, Total
<1>2. IsFiniteSet(Available(job))
  <2>1. IsFiniteSet(0..(Total - 1))
    BY JobIs, FS_Interval
  <2> QED
    BY <1>1, <2>1, FS_Subset
<1>3. plan.available = InOrder(Available(job))
  BY DEF Plan
<1>4. plan.available \in Seq(Available(job))
  BY <1>1, <1>2, <1>3, InOrderOf
<1> QED
  BY <1>1, <1>4

\* Where the walk is.  The cache holds what the files hold.
Walked ==
  /\ job \in Jobs /\ plan = Plan(job)
  /\ pc \in {"start", "recovery", "inputs", "exit"}
  /\ offset \in Nat /\ turn \in Nat /\ turn > 0
  /\ pc = "start" => offset = 0 /\ turn = 1
  /\ pc \in {"recovery", "inputs"} =>
       /\ plan.enough /\ plan.chunk > 0 /\ offset < job.size
       /\ plan.missing # <<>> /\ plan.inverse # Singular
  /\ cache \in Caches

\* What is read of a present slice.
LEMMA InputIs ==
  ASSUME Walked, pc = "inputs", turn <= Len(plan.available),
         NEW i, i = plan.available[turn],
         NEW read, read = ReadChunk(cache, i, offset, ChunkLen, job.size, File(i))
  PROVE  /\ i \in Available(job) /\ i \in 0..(Total - 1)
         /\ IsPiece(read.data, File(i), offset, plan.chunk, job.size)
         /\ read.cache \in Caches
<1>1. turn \in 1..Len(plan.available)
  BY AvailableAre DEF Walked
<1>2. i \in Available(job) /\ i \in 0..(Total - 1) /\ i \in Nat
  BY <1>1, AvailableAre DEF Walked
<1>3. Files[i] = File(i) /\ i \in DOMAIN Files /\ AreFiles(Files, job.size)
  BY <1>2, FilesAre DEF Walked
<1>4. /\ plan.chunk \in Nat /\ job.size \in Nat /\ offset \in Nat /\ offset < job.size
      /\ cache \in Caches
  BY JobIs, ChunkIs DEF Walked
<1>5. ChunkLen = Smaller(plan.chunk, job.size - offset)
  BY DEF ChunkLen
<1> DEFINE chunk == plan.chunk
           size == job.size
<1>6. read = ReadChunk(cache, i, offset, ChunkLen, size, Files[i])
  BY <1>3
<1>7. cache \in Stores(Sound(Files, chunk, size), MaxCache)
  BY <1>4 DEF Caches
<1>8. /\ chunk \in Nat /\ size \in Nat /\ offset \in Nat /\ offset < size
      /\ ChunkLen = Smaller(chunk, size - offset) /\ AreFiles(Files, size)
  BY <1>3, <1>4, <1>5
<1> HIDE DEF chunk, size
<1>9. /\ IsPiece(read.data, Files[i], offset, chunk, size)
      /\ read.cache \in Stores(Sound(Files, chunk, size), MaxCache)
  BY <1>2, <1>3, <1>6, <1>7, <1>8, ReadIs
<1> QED
  BY <1>2, <1>3, <1>9 DEF chunk, size, Caches

LEMMA StaysWalked == Spec => []Walked
<1>1. Init => Walked
  <2> SUFFICES ASSUME Init PROVE Walked
    OBVIOUS
  <2>1. <<>> \in Caches
    <3>1. Len(<<>>) <= MaxCache
      BY CacheAssumption
    <3> QED
      BY <3>1 DEF Caches, Stores, Distinct
  <2> QED
    BY <2>1 DEF Init, Walked
<1>2. Walked /\ [Next]_vars => Walked'
  <2> SUFFICES ASSUME Walked, [Next]_vars PROVE Walked'
    OBVIOUS
  <2> USE DEF Walked
  <2>1. plan.chunk \in Nat /\ job.size \in Nat /\ job.size > 0
    BY JobIs, ChunkIs
  <2>2. job' = job /\ plan' = plan => Caches' = Caches
    BY DEF Caches, Files, Total, File
  <2>3. CASE Start
    BY <2>1, <2>2, <2>3 DEF Start, Stop
  <2>4. CASE ReadRecovery
    BY <2>2, <2>4 DEF ReadRecovery
  <2>5. CASE ReadInput
    <3> DEFINE i == plan.available[turn]
               read == ReadChunk(cache, i, offset, ChunkLen, job.size, File(i))
    <3>1. cache' = read.cache /\ UNCHANGED <<job, plan, pc, offset>> /\ turn' = turn + 1
      BY <2>5 DEF ReadInput
    <3>2. read.cache \in Caches
      <4>1. pc = "inputs" /\ turn <= Len(plan.available)
        BY <2>5 DEF ReadInput
      <4> HIDE DEF Walked, i, read
      <4>2. Walked
        OBVIOUS
      <4> QED
        BY <4>1, <4>2, InputIs DEF i, read
    <3> HIDE DEF i, read
    <3>3. cache' \in Caches'
      BY <2>2, <3>1, <3>2
    <3>4. job' \in Jobs /\ plan' = Plan(job') /\ turn' \in Nat /\ turn' > 0
      BY <3>1
    <3>5. pc = "inputs"
      BY <2>5 DEF ReadInput
    <3> QED
      BY <3>1, <3>3, <3>4, <3>5
  <2>6. CASE ReadFails
    BY <2>2, <2>6 DEF ReadFails, Stop
  <2>7. CASE WriteChunk
    <3>1. ChunkLen \in Nat
      BY <2>1, <2>7 DEF WriteChunk, ChunkLen, Smaller
    <3> QED
      BY <2>1, <2>2, <2>7, <3>1 DEF WriteChunk, Stop, More
  <2>8. CASE UNCHANGED vars
    BY <2>2, <2>8 DEF vars
  <2> QED
    BY <2>3, <2>4, <2>5, <2>6, <2>7, <2>8 DEF Next, Step
<1> QED
  BY <1>1, <1>2, PTL DEF Spec

\* The cache never holds more than its bound, nor a chunk twice, and what it holds
\* is what the file has there, with zeros behind: whatever is read in whatever
\* order, evicted and read ahead (prefetch_chunks, update_cache).
THEOREM CacheStaysSound == Spec => []CacheIsSound
<1>1. Walked => CacheIsSound
  <2> SUFFICES ASSUME Walked PROVE CacheIsSound
    OBVIOUS
  <2> DEFINE E == Sound(Files, plan.chunk, job.size)
  <2>1. cache \in Seq(E) /\ Len(cache) <= MaxCache /\ Distinct(cache)
    BY DEF Walked, Caches, Stores
  <2>2. job \in Jobs /\ plan.chunk \in Nat
    BY ChunkIs DEF Walked
  <2>3. ASSUME NEW k \in DOMAIN cache
        PROVE  LET e == cache[k]
                   there == FileBytes(File(e.slice), e.offset, plan.chunk)
               IN  /\ IsPrefix(there, e.data)
                   /\ \A p \in DOMAIN e.data : p > Len(there) => e.data[p] = 0
    <3> DEFINE e == cache[k]
               i == e.slice
               at == e.offset
               data == e.data
               file == Files[i]
               there == FileBytes(file, at, plan.chunk)
               count == Smaller(Len(file) - at, plan.chunk)
    <3>1. e \in E
      BY <2>1
    <3> HIDE DEF E, e
    <3>2. /\ i \in DOMAIN Files /\ at \in Nat /\ data \in Seq(Int) /\ at < Len(file)
          /\ IsPiece(data, file, at, plan.chunk, job.size)
      BY <3>1 DEF E, Sound
    <3>3. file \in Seq(Int) /\ file = File(i)
      BY <2>2, <3>2, FilesAre DEF AreFiles
    <3> HIDE DEF file, at, data
    <3>4. count \in Nat /\ at + count <= Len(file)
      BY <3>2, <3>3, <2>2 DEF Smaller
    <3>5. IsExcerpt(there, Int, file, at, count)
      <4>1. at <= Len(file) /\ plan.chunk \in Nat
        BY <2>2, <3>2, <3>3
      <4> QED
        BY <4>1, <3>2, <3>3, PieceOf
    <3> HIDE DEF there, count
    <3>6. there \in Seq(Int) /\ Len(there) = count /\ \A p \in 1..count : there[p] = file[at + p]
      BY <3>5 DEF IsExcerpt
    <3>7. /\ count <= Len(data)
          /\ \A p \in 1..Len(data) : data[p] = IF at + p <= Len(file) THEN file[at + p] ELSE 0
      BY <3>2 DEF IsPiece, count
    <3>8. IsPrefix(there, data)
      <4>1. \A p \in 1..count : p \in 1..Len(data) /\ at + p <= Len(file)
        BY <3>2, <3>4, <3>7
      <4>2. \A p \in 1..Len(there) : there[p] = data[p]
        BY <3>6, <3>7, <4>1
      <4> QED
        BY <3>2, <3>6, <3>7, <4>2, PrefixOf
    <3>9. ASSUME NEW p \in DOMAIN data, p > Len(there) PROVE data[p] = 0
      <4>3. Len(data) <= Smaller(plan.chunk, job.size - at) /\ Len(data) \in Nat
        BY <3>2 DEF IsPiece
      <4>4. job.size \in Nat
        BY <2>2, JobIs
      <4>5. Len(data) <= plan.chunk
        BY <4>3, <4>4, <3>2, <2>2 DEF Smaller
      <4>1. p \in 1..Len(data) /\ Len(data) <= plan.chunk
        BY <3>2, <4>5
      <4>6. p \in Int /\ p <= plan.chunk /\ count < p
        BY <4>1, <4>5, <3>4, <3>6, <3>9, <2>2
      <4>7. count = plan.chunk \/ count = Len(file) - at
        BY DEF count, Smaller
      <4>8. Len(file) \in Nat
        BY <3>3
      <4>2. ~(at + p <= Len(file))
        BY <4>6, <4>7, <4>8, <3>2, <3>4, <2>2
      <4> QED
        BY <4>1, <4>2, <3>7
    <3> QED
      BY <3>3, <3>8, <3>9 DEF there, data, at, i, e
  <2> QED
    BY <2>1, <2>3 DEF CacheIsSound, Distinct
<1> QED
  BY <1>1, StaysWalked, PTL

-----------------------------------------------------------------------------
(* What was coded *)

\* The words of a piece are those of the whole from an offset on.
SameWords(data, s, at, n) ==
  \A v \in 1..(n \div 2) : Word(data, v) = Word(s, (at \div 2) + v)

\* A word of a piece is the word of the whole.
LEMMA WordOfExcerpt ==
  ASSUME NEW s, NEW at \in Nat, at % 2 = 0, NEW count \in Nat, at + count <= Len(s),
         Len(s) \in Nat, NEW data, IsExcerpt(data, Byte, s, at, count)
  PROVE  SameWords(data, s, at, count)
<1> SUFFICES ASSUME NEW v \in 1..(count \div 2)
             PROVE  Word(data, v) = Word(s, (at \div 2) + v)
  BY DEF SameWords
<1> DEFINE w == (at \div 2) + v
           a == 2 * v - 1
           b == 2 * v
<1>1. Len(data) = count /\ \A p \in 1..count : data[p] = s[at + p]
  BY DEF IsExcerpt
<1>2. a \in 1..count /\ b \in 1..count /\ 2 * w = at + b /\ 2 * w - 1 = at + a /\ v \in Nat
  OBVIOUS
<1>3. 2 * v <= Len(data) /\ 2 * w <= Len(s)
  BY <1>1, <1>2
<1>4. Word(data, v) = data[a] + ByteCount * data[b]
  BY <1>3 DEF Word
<1>5. Word(s, w) = s[2 * w - 1] + ByteCount * s[2 * w]
  BY <1>3 DEF Word
<1> HIDE DEF a, b, w
<1> QED
  BY <1>1, <1>2, <1>4, <1>5 DEF w

\* What is read of a file, word by word: the data padded to the slice size.
HasWholeWords(data, s, at, n) == Len(data) % 2 = 0 /\ SameWords(data, s, at, n)

LEMMA WordOfPiece ==
  ASSUME WordLaws, NEW file \in Seq(Byte), NEW chunk \in Nat, NEW size \in Nat, Len(file) <= size,
         NEW at \in Nat, at % 2 = 0, at <= size,
         NEW data, IsPiece(data, file, at, chunk, size),
         NEW rest, rest = size - at,
         NEW count, count = Smaller(chunk, rest), count % 2 = 0,
         Len(file) % 2 = 0 \/ Len(file) <= chunk,
         NEW whole, IsPadded(whole, Byte, file, size)
  PROVE  HasWholeWords(data, whole, at, count)
<1>1. count \in Nat /\ at + count <= size
  BY DEF Smaller
<1>2. /\ data \in Seq(Int) /\ Len(data) \in Nat /\ Len(data) <= count
      /\ \A p \in 1..Len(data) : data[p] = IF at + p <= Len(file) THEN file[at + p] ELSE 0
  BY DEF IsPiece
<1>3. /\ Smaller(Len(file) - at, chunk) <= Len(data)
      /\ Len(data) = count \/ (at >= chunk /\ Len(data) = Len(file) - at)
  BY DEF IsPiece
<1>4. Len(data) % 2 = 0
  <2>1. CASE Len(data) = count
    BY <2>1
  <2>2. CASE at >= chunk /\ Len(data) = Len(file) - at
    <3>1. Len(file) % 2 = 0 => Len(data) % 2 = 0
      BY <2>2
    <3>2. Len(file) <= chunk => Len(data) = 0
      BY <1>2, <2>2
    <3> QED
      BY <3>1, <3>2
  <2> QED
    BY <1>3, <2>1, <2>2
<1>5. 0 \in Byte /\ ByteCount \in Nat
  BY DEF WordLaws
<1>6. data \in Seq(Byte)
  <2>1. \A p \in 1..Len(data) : data[p] \in Byte
    <3> TAKE p \in 1..Len(data)
    <3>1. at + p <= Len(file) => at + p \in 1..Len(file)
      OBVIOUS
    <3>2. at + p <= Len(file) => file[at + p] \in Byte
      BY <3>1, ElementOfSeq
    <3> QED
      BY <1>2, <1>5, <3>2
  <2>2. data = [p \in 1..Len(data) |-> data[p]]
    BY <1>2
  <2>3. [p \in 1..Len(data) |-> data[p]] \in Seq(Byte)
    BY <1>2, <2>1
  <2> QED
    BY <2>2, <2>3
<1>7. /\ whole \in Seq(Byte) /\ Len(whole) = size
      /\ \A p \in 1..size : whole[p] = IF p <= Len(file) THEN file[p] ELSE 0
  BY DEF IsPadded
<1>8. ASSUME NEW v \in 1..(count \div 2)
      PROVE  Word(data, v) = Word(whole, (at \div 2) + v)
  <2> DEFINE w == (at \div 2) + v
             a == 2 * v - 1
             b == 2 * v
  <2>1. /\ a \in 1..count /\ b \in 1..count /\ 2 * w = at + b /\ 2 * w - 1 = at + a
        /\ v \in Nat /\ a = b - 1 /\ b % 2 = 0
    BY <1>1
  <2>2. /\ at + a \in 1..size /\ at + b \in 1..size /\ 2 * w <= Len(whole)
    BY <1>1, <1>7, <2>1
  <2>3. Word(whole, w) = whole[at + a] + ByteCount * whole[at + b]
    <3>1. Word(whole, w) = whole[2 * w - 1] + ByteCount * whole[2 * w]
      BY <2>2 DEF Word
    <3> HIDE DEF a, b, w
    <3> QED
      BY <2>1, <3>1
  <2>4. CASE b <= Len(data)
    <3>1. Word(data, v) = data[a] + ByteCount * data[b]
      BY <2>4 DEF Word
    <3>2. a \in 1..Len(data) /\ b \in 1..Len(data)
      BY <1>2, <2>1, <2>4
    <3> HIDE DEF a, b, w
    <3>3. data[a] = whole[at + a] /\ data[b] = whole[at + b]
      BY <1>2, <1>7, <2>2, <3>2
    <3> QED
      BY <2>3, <3>1, <3>3 DEF w
  <2>5. CASE ~(b <= Len(data))
    <3>1. Word(data, v) = 0
      BY <2>5 DEF Word
    <3>2. a > Len(data)
      <4> DEFINE l == Len(data)
      <4>1. l \in Nat /\ l % 2 = 0 /\ ~(2 * v <= l) /\ v \in Nat
        BY <1>2, <1>4, <2>1, <2>5
      <4> HIDE DEF l
      <4>2. 2 * v - 1 > l
        BY <4>1
      <4> QED
        BY <4>2 DEF l
    <3>3. ~(at + a <= Len(file)) /\ ~(at + b <= Len(file))
      <4>1. Len(data) # count
        BY <1>2, <2>1, <2>5
      <4>2. Len(data) = Len(file) - at
        BY <1>3, <4>1
      <4> HIDE DEF a, b, w
      <4> QED
        BY <1>2, <2>1, <2>5, <3>2, <4>2
    <3> HIDE DEF a, b, w
    <3>4. whole[at + a] = 0 /\ whole[at + b] = 0
      BY <1>7, <2>2, <3>3
    <3>5. Word(whole, w) = 0 + ByteCount * 0
      BY <2>3, <3>4
    <3> QED
      BY <1>5, <3>1, <3>5 DEF w
  <2> QED
    BY <2>4, <2>5
<1> QED
  BY <1>4, <1>8 DEF SameWords, HasWholeWords

\* Every input is a padded slice.
LEMMA TruthIs ==
  ASSUME WordLaws, job \in Jobs, NEW i \in 0..(Total - 1)
  PROVE  /\ IsPadded(Truth(i), Byte, job.slices[i + 1], job.size)
         /\ Truth(i) \in Seq(Byte) /\ Len(Truth(i)) = job.size
         /\ Inputs(job)[i + 1] = Truth(i)
<1> DEFINE s == job.slices[i + 1]
           size == job.size
<1>1. i + 1 \in 1..Total
  BY JobIs
<1>2. s \in Seq(Byte) /\ Len(s) <= size /\ size \in Nat /\ 0 \in Byte
  BY <1>1, JobIs DEF WordLaws
<1>3. Truth(i) = PadTo(s, size)
  BY DEF Truth
<1>4. Inputs(job)[i + 1] = PadTo(s, size)
  BY <1>1, JobIs DEF Inputs
<1> HIDE DEF s, size
<1>5. IsPadded(PadTo(s, size), Byte, s, size)
  BY <1>2, PaddedIs
<1>6. PadTo(s, size) \in Seq(Byte) /\ Len(PadTo(s, size)) = size
  BY <1>5 DEF IsPadded
<1> QED
  BY <1>3, <1>4, <1>5, <1>6 DEF s, size

\* The recovery slices are the sums of the inputs.
LEMMA OfferedAre ==
  ASSUME FieldLaws, WordLaws, CodesAreWords, job \in Jobs, plan = Plan(job),
         NEW r \in 1..Len(job.exponents)
  PROVE  /\ AreInputs(Inputs(job), job.exponents[r], job.size)
         /\ Len(Inputs(job)) = Total /\ Total \in Nat \ {0}
         /\ IsCoded(plan.offered[r].data, Inputs(job), job.exponents[r], Total, job.size)
<1> DEFINE inputs == Inputs(job)
           e == job.exponents[r]
           size == job.size
<1>1. Total \in Nat \ {0} /\ job.slices # <<>>
  <2>1. job.slices \in Seq(Seq(Byte)) /\ job.slices # <<>>
    BY JobsAssumption
  <2> QED
    BY <2>1 DEF Total
<1>2. inputs = [i \in 1..Total |-> inputs[i]]
  BY JobIs DEF Inputs
<1>3. \A i \in 1..Total : inputs[i] \in Seq(Byte) /\ Len(inputs[i]) = size
  <2> TAKE i \in 1..Total
  <2>1. i - 1 \in 0..(Total - 1) /\ (i - 1) + 1 = i
    BY <1>1
  <2>2. Inputs(job)[(i - 1) + 1] = Truth(i - 1) /\ Truth(i - 1) \in Seq(Byte)
        /\ Len(Truth(i - 1)) = job.size
    BY <2>1, TruthIs
  <2> QED
    BY <2>1, <2>2
<1>4. inputs \in Seq(Seq(Byte)) /\ Len(inputs) = Total
  <2> HIDE DEF inputs
  <2> QED
    BY <1>1, <1>2, <1>3
<1>5. \A i \in 1..Total : Coefficient(i - 1, e) \in Field
  <2> TAKE i \in 1..Total
  <2>1. i - 1 \in 0..(Len(job.slices) - 1) /\ r \in DOMAIN job.exponents
    BY <1>1, JobIs DEF Total
  <2> QED
    BY <2>1 DEF CodesAreWords
<1>6. size \in Nat \ {0}
  BY JobIs
<1>7. AreInputs(inputs, e, size)
  <2> HIDE DEF inputs, e, size
  <2> QED
    BY <1>1, <1>3, <1>4, <1>5, <1>6 DEF AreInputs
<1>8. plan.offered[r].data = IF job.packed THEN PackedEncode(job.level, inputs, e)
                             ELSE Encode(job.level, inputs, e)
  <2>1. r \in DOMAIN job.exponents
    BY JobIs
  <2>2. plan.offered = Offered(job)
    BY DEF Plan
  <2> QED
    BY <2>1, <2>2 DEF Offered
<1>9. job.level \in Levels
  BY JobIs
<1> HIDE DEF inputs, e, size
<1>10. /\ IsCoded(PackedEncode(job.level, inputs, e), inputs, e, Total, size)
       /\ IsCoded(Encode(job.level, inputs, e), inputs, e, Total, size)
  BY <1>4, <1>7, <1>9, PackedEncodeIs, EncodeIs
<1>11. IsCoded(plan.offered[r].data, inputs, e, Total, size)
  BY <1>8, <1>10
<1> QED
  BY <1>1, <1>4, <1>7, <1>11 DEF inputs, e, size

-----------------------------------------------------------------------------
(* A word of every slice *)

\* Word w of the missing inputs, of the present ones, and of the recovery slices
\* used; what each present input gives to each recovery slice.
LostWords(w) == [k \in 1..Used0 |-> Word(Truth(plan.missing[k]), w)]
KeptWords(w) ==
  [a \in 1..Len(plan.available) |-> Word(Truth(plan.available[a]), w)]
CodedWords(w) == [r \in 1..Used0 |-> Word(plan.offered[r].data, w)]
Weights ==
  [r \in 1..Used0 |->
     [a \in 1..Len(plan.available) |->
        Coefficient(plan.available[a], job.exponents[r])]]

\* There is something to decode and a matrix to decode it with.
Solvable ==
  /\ job \in Jobs /\ plan = Plan(job)
  /\ plan.enough /\ plan.missing # <<>> /\ plan.inverse # Singular

\* Where the files are complete, what is not missing is available.
LEMMA AvailableIs ==
  ASSUME job \in Jobs, plan = Plan(job), FilesComplete,
         NEW R, R = Places(Total) \ job.missing
  PROVE  /\ plan.available = InOrder(R) /\ Len(plan.available) = Cardinality(R)
         /\ R = Available(job) /\ job.missing \subseteq Places(Total)
<1>1. Total \in Nat /\ job.missing \subseteq Places(Total) /\ Places(Total) = 0..(Total - 1)
  BY JobIs DEF Places
<1>2. ASSUME NEW i \in 0..(Total - 1), i \notin job.missing
      PROVE  job.there[i + 1] > 0
  <2>1. i + 1 \in 1..Total
    BY <1>1
  <2>2. job.there[i + 1] = Len(job.slices[i + 1])
    BY <1>2 DEF FilesComplete
  <2>3. Len(job.slices[i + 1]) \in 1..job.size /\ job.size \in Nat
    BY <2>1, JobIs
  <2> QED
    BY <2>2, <2>3
<1>3. R = Available(job)
  BY <1>1, <1>2 DEF Available, Total
<1>4. R \in SUBSET Nat /\ IsFiniteSet(R)
  <2>1. IsFiniteSet(0..(Total - 1))
    BY <1>1, FS_Interval
  <2> QED
    BY <1>1, <2>1, FS_Subset
<1>5. plan.available = InOrder(R)
  BY <1>3 DEF Plan
<1> QED
  BY <1>1, <1>3, <1>4, <1>5, InOrderOf

\* There are enough recovery slices.
LEMMA EnoughIs ==
  ASSUME Solvable
  PROVE  /\ Used0 \in Nat \ {0} /\ Used0 = Len(plan.missing)
         /\ Used0 <= Len(job.exponents) /\ Len(job.exponents) \in Nat
         /\ DOMAIN job.exponents = 1..Len(job.exponents)
<1>1. job \in Jobs /\ plan = Plan(job) /\ plan.enough /\ plan.missing # <<>>
  BY DEF Solvable
<1>2. Used0 \in Nat \ {0} /\ Used0 = Len(plan.missing)
  BY <1>1, MissingIs DEF Used0
<1>3. plan.enough = (Len(plan.missing) <= Len(job.exponents))
  BY <1>1 DEF Plan
<1>4. Len(job.exponents) \in Nat /\ DOMAIN job.exponents = 1..Len(job.exponents)
  BY <1>1, JobIs
<1> QED
  BY <1>1, <1>2, <1>3, <1>4

\* The coefficients of what is available are words.
LEMMA WeightsAre ==
  ASSUME CodesAreWords, Solvable, NEW n, n = Used0, NEW m, m = Len(plan.available)
  PROVE  HasRows(Weights, n, m) /\ m \in Nat
<1>1. job \in Jobs /\ plan = Plan(job) /\ plan.enough
  BY DEF Solvable
<1>3. n \in Nat /\ n <= Len(job.exponents) /\ DOMAIN job.exponents = 1..Len(job.exponents)
      /\ Len(job.exponents) \in Nat
  BY EnoughIs
<1>4. m \in Nat /\ \A a \in 1..m : plan.available[a] \in 0..(Total - 1)
  BY <1>1, AvailableAre
<1>5. ASSUME NEW r \in 1..n, NEW a \in 1..m PROVE Weights[r][a] \in Field
  <2>1. plan.available[a] \in 0..(Len(job.slices) - 1) /\ r \in DOMAIN job.exponents
    BY <1>3, <1>4 DEF Total
  <2>2. Weights[r][a] = Coefficient(plan.available[a], job.exponents[r])
    BY DEF Weights
  <2> QED
    BY <1>1, <2>1, <2>2 DEF CodesAreWords
<1> QED
  BY <1>4, <1>5 DEF HasRows

\* The words at hand.
LEMMA WordsAre ==
  ASSUME FieldLaws, WordLaws, CodesAreWords, Solvable, NEW w \in 1..(job.size \div 2),
         NEW n, n = Used0, NEW m, m = Len(plan.available)
  PROVE  /\ n \in Nat \ {0} /\ m \in Nat /\ n <= Len(job.exponents)
         /\ LostWords(w) \in [1..n -> Field]
         /\ \A a \in 1..m : KeptWords(w)[a] \in Field
         /\ \A r \in 1..n : \A a \in 1..m : Weights[r][a] \in Field
         /\ \A r \in 1..n : /\ CodedWords(w)[r] = Word(plan.offered[r].data, w)
                            /\ plan.offered[r].data \in Seq(Byte)
                            /\ Len(plan.offered[r].data) = job.size
<1>1. /\ job \in Jobs /\ plan = Plan(job) /\ plan.enough /\ plan.missing # <<>>
      /\ plan.inverse # Singular
  BY DEF Solvable
<1>2. n \in Nat /\ n # 0 /\ plan.missing \in [1..n -> job.missing] /\ n = Len(plan.missing)
  BY <1>1, MissingIs DEF Used0
<1>3. n <= Len(job.exponents) /\ Len(job.exponents) \in Nat /\ DOMAIN job.exponents = 1..Len(job.exponents)
  BY EnoughIs
<1>4. m \in Nat /\ \A a \in 1..m : plan.available[a] \in 0..(Total - 1)
  BY <1>1, AvailableAre
<1>5. w \in Nat \ {0}
  BY <1>1, JobIs
<1>6. ASSUME NEW i \in 0..(Total - 1)
      PROVE  Word(Truth(i), w) \in Field
  <2>1. Truth(i) \in Seq(Byte)
    BY <1>1, <1>6, TruthIs
  <2> QED
    BY <1>5, <2>1, WordIs
<1>7. \A k \in 1..n : plan.missing[k] \in 0..(Total - 1)
  BY <1>1, <1>2, JobIs
<1>8. LostWords(w) \in [1..n -> Field]
  BY <1>6, <1>7 DEF LostWords
<1>9. \A a \in 1..m : KeptWords(w)[a] \in Field
  BY <1>4, <1>6 DEF KeptWords
<1>10. \A r \in 1..n : \A a \in 1..m : Weights[r][a] \in Field
  BY WeightsAre DEF HasRows
<1>11. ASSUME NEW r \in 1..n
       PROVE  /\ plan.offered[r].data \in Seq(Byte) /\ Len(plan.offered[r].data) = job.size
  <2>1. r \in 1..Len(job.exponents)
    BY <1>2, <1>3
  <2>2. IsCoded(plan.offered[r].data, Inputs(job), job.exponents[r], Total, job.size)
    BY <1>1, <2>1, OfferedAre
  <2> QED
    BY <2>2 DEF IsCoded
<1>12. \A r \in 1..n : CodedWords(w)[r] = Word(plan.offered[r].data, w)
  BY DEF CodedWords
<1> QED
  BY <1>2, <1>3, <1>4, <1>8, <1>9, <1>10, <1>11, <1>12

\* A word of a recovery slice is what the missing inputs give to it and what the
\* present ones do.
LEMMA WordsCoded ==
  ASSUME FieldLaws, WordLaws, CodesAreWords, Solvable, FilesComplete,
         NEW w \in 1..(job.size \div 2), NEW n, n = Used0, NEW m, m = Len(plan.available)
  PROVE  AreCoded(CodedWords(w), Matrix(plan.missing, job.exponents), LostWords(w), n,
                  Weights, KeptWords(w), m)
<1> DEFINE matrix == Matrix(plan.missing, job.exponents)
           x == LostWords(w)
           y == KeptWords(w)
           R == Places(Total) \ job.missing
<1>1. job \in Jobs /\ plan = Plan(job)
  BY DEF Solvable
<1>2. /\ n \in Nat \ {0} /\ m \in Nat /\ n <= Len(job.exponents)
      /\ x \in [1..n -> Field] /\ \A a \in 1..m : y[a] \in Field
      /\ \A r \in 1..n : \A a \in 1..m : Weights[r][a] \in Field
  BY WordsAre
<1>3. /\ plan.missing = InOrder(job.missing) /\ n = Cardinality(job.missing) /\ n = Len(plan.missing)
      /\ plan.missing \in [1..n -> job.missing]
  BY <1>1, MissingIs DEF Used0
<1>4. /\ plan.available = InOrder(R) /\ m = Cardinality(R) /\ R = Available(job)
      /\ job.missing \in SUBSET Places(Total)
  BY <1>1, AvailableIs
<1>5. matrix \in [1..n -> [1..n -> Field]]
  BY <1>1, <1>2, <1>3, MatrixIs
<1>6. \A a \in 1..m : plan.available[a] \in 0..(Total - 1)
  BY <1>1, AvailableAre
<1>7. \A k \in 1..n : plan.missing[k] \in 0..(Total - 1)
  BY <1>1, <1>3, JobIs
<1>8. ASSUME NEW r \in 1..n
      PROVE  CodedWords(w)[r] = Xor(Side(matrix[r], 0, x, n), Side(Weights[r], 0, y, m))
  <2> DEFINE e == job.exponents[r]
             inputs == Inputs(job)
             words == Terms(inputs, e, w)
             g == [k \in 1..n |-> Product(matrix[r][k], x[k])]
             h == [a \in 1..m |-> Product(Weights[r][a], y[a])]
  <2>1. r \in 1..Len(job.exponents)
    BY <1>1, <1>2, JobIs
  <2>2. /\ AreInputs(inputs, e, job.size) /\ Len(inputs) = Total /\ Total \in Nat
        /\ IsCoded(plan.offered[r].data, inputs, e, Total, job.size)
    BY <1>1, <2>1, OfferedAre
  <2>3. CodedWords(w)[r] = Word(plan.offered[r].data, w)
    BY WordsAre
  <2>4. CodedWords(w)[r] = XorSum(words, Total)
    BY <2>2, <2>3 DEF IsCoded
  <2>5. w \in Nat \ {0}
    BY <1>1, JobIs
  <2> DEFINE size == job.size
  <2>6. \A i \in 1..Total :
          /\ words[i] \in Field
          /\ words[i] = Product(Coefficient(i - 1, e), Word(inputs[i], w))
    <3> HIDE DEF inputs, e, size
    <3> QED
      BY <2>2, <2>5, TermsAre DEF size
  <2>7. ASSUME NEW i \in 0..(Total - 1)
        PROVE  words[i + 1] = Product(Coefficient(i, e), Word(Truth(i), w))
    <3>1. i + 1 \in 1..Total /\ (i + 1) - 1 = i
      BY <2>2
    <3>2. inputs[i + 1] = Truth(i)
      BY <1>1, TruthIs
    <3> HIDE DEF inputs, e, words
    <3> QED
      BY <2>6, <3>1, <3>2
  <2>8. IsPicked(g, words, job.missing)
    <3> SUFFICES ASSUME NEW k \in 1..n PROVE g[k] = words[plan.missing[k] + 1]
      BY <1>3 DEF IsPicked
    <3>1. matrix[r][k] = Coefficient(plan.missing[k], e)
      BY <1>3 DEF Matrix
    <3>2. x[k] = Word(Truth(plan.missing[k]), w)
      BY <1>3 DEF LostWords, Used0
    <3>3. g[k] = Product(matrix[r][k], x[k])
      OBVIOUS
    <3> HIDE DEF matrix, x, g, words, e
    <3> QED
      BY <1>7, <2>7, <3>1, <3>2, <3>3
  <2>9. IsPicked(h, words, R)
    <3> SUFFICES ASSUME NEW a \in 1..m PROVE h[a] = words[plan.available[a] + 1]
      BY <1>4 DEF IsPicked
    <3>1. Weights[r][a] = Coefficient(plan.available[a], e)
      BY DEF Weights
    <3>2. y[a] = Word(Truth(plan.available[a]), w)
      BY DEF KeptWords
    <3>3. h[a] = Product(Weights[r][a], y[a])
      OBVIOUS
    <3> HIDE DEF y, h, words, e
    <3> QED
      BY <1>6, <2>7, <3>1, <3>2, <3>3
  <2>10. (\A k \in 1..n : g[k] = Product(matrix[r][k], x[k]))
         /\ (\A a \in 1..m : h[a] = Product(Weights[r][a], y[a]))
    OBVIOUS
  <2> HIDE DEF matrix, x, y, R, words, g, h
  <2>11. XorSum(words, Total) = Xor(XorSum(g, n), XorSum(h, m))
    <3> DEFINE t == Total
               S == job.missing
    <3>1. /\ t \in Nat /\ (\A i \in 1..t : words[i] \in Field) /\ S \in SUBSET Places(t)
          /\ R = Places(t) \ S
      BY <1>4, <2>2, <2>6 DEF R
    <3>2. IsPicked(g, words, S) /\ IsPicked(h, words, R)
      BY <2>8, <2>9
    <3>3. Cardinality(S) = n /\ Cardinality(R) = m
      BY <1>3, <1>4
    <3> HIDE DEF t, S
    <3>4. XorSum(words, t) = Xor(XorSum(g, Cardinality(S)), XorSum(h, Cardinality(R)))
      BY <3>1, <3>2, SumSplit
    <3> QED
      BY <3>3, <3>4 DEF t
  <2>12. XorSum(g, n) = Side(matrix[r], 0, x, n)
    <3> DEFINE row == matrix[r]
    <3>1. \A k \in 1..n : row[k] \in Field /\ x[k] \in Field
      BY <1>2, <1>5
    <3>2. \A k \in 1..n : g[k] = Product(row[k], x[k])
      BY <2>10
    <3> HIDE DEF row
    <3> QED
      BY <1>2, <3>1, <3>2, SideIs DEF row
  <2>13. XorSum(h, m) = Side(Weights[r], 0, y, m)
    <3> DEFINE row == Weights[r]
    <3>1. \A a \in 1..m : row[a] \in Field /\ y[a] \in Field
      BY <1>2
    <3>2. \A a \in 1..m : h[a] = Product(row[a], y[a])
      BY <2>10
    <3> HIDE DEF row
    <3> QED
      BY <1>2, <3>1, <3>2, SideIs DEF row
  <2> QED
    BY <2>4, <2>11, <2>12, <2>13
<1> QED
  BY <1>8 DEF AreCoded

\* What the first recovery slices and present inputs give to a word of an output.
FromRecovery(k, w) ==
  [r \in 1..Used0 |-> Product(plan.inverse[k][r], Word(plan.offered[r].data, w))]
FromInputs(k, w) ==
  [a \in 1..Len(plan.available) |->
     Product(plan.combined[k][a], Word(Truth(plan.available[a]), w))]
Given(k, w, r, a) == Xor(XorSum(FromRecovery(k, w), r), XorSum(FromInputs(k, w), a))

\* The matrix that is inverted, and its inverse.
LEMMA InverseOf ==
  ASSUME CodesAreWords, Solvable, NEW n, n = Used0
  PROVE  /\ n \in Nat \ {0} /\ plan.enough
         /\ plan.inverse = Invert(Matrix(plan.missing, job.exponents))
         /\ Matrix(plan.missing, job.exponents) \in [1..n -> [1..n -> Field]]
<1>1. n \in Nat \ {0} /\ n = Len(plan.missing)
  <2>1. job \in Jobs /\ plan = Plan(job) /\ plan.missing # <<>>
    BY DEF Solvable
  <2> QED
    BY <2>1, MissingIs DEF Used0
<1>2. job \in Jobs /\ plan = Plan(job) /\ plan.enough
  BY DEF Solvable
<1>3. n <= Len(job.exponents) /\ plan.inverse = Invert(Matrix(plan.missing, job.exponents))
  BY <1>1, <1>2 DEF Plan
<1> QED
  BY <1>1, <1>2, <1>3, MatrixIs

\* The coefficients of the present inputs.
LEMMA CombinedAre ==
  ASSUME FieldLaws, CodesAreWords, Solvable, NEW n, n = Used0, NEW m, m = Len(plan.available),
         NEW k \in 1..n, plan.inverse \in [1..n -> [1..n -> Field]]
  PROVE  IsCombined(plan.combined[k], plan.inverse[k], n, Weights, m)
<1>1. job \in Jobs /\ plan = Plan(job) /\ plan.inverse # Singular
  BY DEF Solvable
<1>2. n \in Nat /\ n = Len(plan.missing) /\ DOMAIN plan.missing = 1..n
  BY <1>1, MissingIs DEF Used0
<1>3. /\ m \in Nat /\ DOMAIN plan.available = 1..m
      /\ \A a \in 1..m : plan.available[a] \in 0..(Total - 1)
  <2>1. plan.available \in Seq(Available(job))
    <3>1. Available(job) \in SUBSET Nat /\ Available(job) \subseteq 0..(Total - 1)
      BY <1>1, JobIs DEF Available, Total
    <3>2. IsFiniteSet(Available(job))
      <4>1. IsFiniteSet(0..(Total - 1))
        BY <1>1, JobIs, FS_Interval
      <4> QED
        BY <3>1, <4>1, FS_Subset
    <3>3. plan.available = InOrder(Available(job))
      BY <1>1 DEF Plan
    <3> QED
      BY <3>1, <3>2, <3>3, InOrderOf
  <2> QED
    BY <1>1, <2>1, AvailableAre
<1>4. ASSUME NEW a \in 1..m
      PROVE  plan.combined[k][a] = XorSum([r \in 1..n |-> Product(plan.inverse[k][r], Weights[r][a])], n)
  <2> DEFINE i == plan.available[a]
             f == [r \in 1..n |-> Product(plan.inverse[k][r], Coefficient(i, job.exponents[r]))]
             g == [r \in 1..n |-> Product(plan.inverse[k][r], Weights[r][a])]
  <2>1. plan.combined[k][a] = Combined(plan.inverse, job.exponents, k, i, Total)
    BY <1>1, <1>2, <1>3 DEF Plan, Total
  <2>2. ~(i >= Total)
    BY <1>1, <1>3, JobIs
  <2>3. DOMAIN plan.inverse = 1..n /\ Len(plan.inverse) = n
    BY <1>2
  <2>4. plan.combined[k][a] = XorSum(f, n)
    <3> HIDE DEF i
    <3>1. Combined(plan.inverse, job.exponents, k, i, Total)
            = XorSum([r \in DOMAIN plan.inverse |->
                        Product(plan.inverse[k][r], Coefficient(i, job.exponents[r]))],
                     Len(plan.inverse))
      BY <2>2 DEF Combined
    <3> QED
      BY <2>1, <2>3, <3>1
  <2>5. f = g
    BY <1>3 DEF Weights, Used0
  <2> QED
    BY <2>4, <2>5
<1> QED
  BY <1>4 DEF IsCombined

\* The coefficients are words, and some recovery slice is used for every output.
LEMMA SomeIsUsed ==
  ASSUME FieldLaws, CodesAreWords, Solvable, NEW n, n = Used0, NEW m, m = Len(plan.available),
         NEW k \in 1..n
  PROVE  /\ plan.inverse \in [1..n -> [1..n -> Field]] /\ n \in Nat \ {0} /\ m \in Nat
         /\ \A a \in 1..m : plan.combined[k][a] \in Field
         /\ \E r \in 1..n : plan.inverse[k][r] # 0
<1> DEFINE matrix == Matrix(plan.missing, job.exponents)
           inverse == plan.inverse
           comb == plan.combined[k]
           x == [j \in 1..n |-> 0]
           y == [a \in 1..m |-> 0]
           C == Weights
           d == [r \in 1..n |-> Xor(Side(matrix[r], 0, x, n), Side(C[r], 0, y, m))]
<1>1. /\ n \in Nat \ {0} /\ inverse = Invert(matrix) /\ inverse # Singular
      /\ matrix \in [1..n -> [1..n -> Field]]
  BY InverseOf DEF Solvable
<1>2. x \in [1..n -> Field] /\ HasWords(y, m)
  BY DEF FieldLaws, HasWords
<1>3. AreCoded(d, matrix, x, n, C, y, m)
  BY DEF AreCoded
<1>4. HasRows(C, n, m) /\ m \in Nat
  BY WeightsAre
<1>5. plan.inverse \in [1..n -> [1..n -> Field]]
  <2> HIDE DEF matrix, inverse
  <2>1. Inverts(inverse, matrix, n)
    BY <1>1, InverseIs
  <2> QED
    BY <2>1 DEF Inverts, inverse
<1>6. IsCombined(plan.combined[k], plan.inverse[k], n, Weights, m)
  BY <1>5, CombinedAre
<1>7. IsCombined(comb, inverse[k], n, C, m)
  BY <1>6
<1> HIDE DEF matrix, inverse, comb, x, y, C, d
<1> DEFINE weights == inverse[k]
<1>8. IsCombined(comb, weights, n, C, m)
  BY <1>7
<1> HIDE DEF weights
<1>9. Recovers(weights, d, n, comb, y, m, x[k])
  BY <1>1, <1>2, <1>3, <1>4, <1>8, Recovered DEF weights
<1>10. (\E r \in 1..n : inverse[k][r] # 0) /\ \A a \in 1..m : comb[a] \in Field
  BY <1>9 DEF Recovers, weights
<1> QED
  BY <1>1, <1>4, <1>5, <1>10 DEF inverse, comb

\* What everything together gives to a word of an output is the word of the
\* missing slice.
LEMMA AllGive ==
  ASSUME FieldLaws, WordLaws, CodesAreWords, Solvable, FilesComplete,
         NEW w \in 1..(job.size \div 2), NEW n, n = Used0, NEW m, m = Len(plan.available),
         NEW k \in 1..n
  PROVE  /\ \A r \in 1..n : FromRecovery(k, w)[r] \in Field
         /\ \A a \in 1..m : FromInputs(k, w)[a] \in Field /\ plan.combined[k][a] \in Field
         /\ Given(k, w, n, m) = Word(Truth(plan.missing[k]), w)
<1> DEFINE matrix == Matrix(plan.missing, job.exponents)
           inverse == plan.inverse
           x == LostWords(w)
           y == KeptWords(w)
           d == CodedWords(w)
           C == Weights
           comb == plan.combined[k]
           f == FromRecovery(k, w)
           g == FromInputs(k, w)
<1>1. /\ n \in Nat \ {0} /\ m \in Nat
      /\ x \in [1..n -> Field] /\ (\A a \in 1..m : y[a] \in Field)
      /\ (\A r \in 1..n : \A a \in 1..m : C[r][a] \in Field)
  BY WordsAre
<1>2. inverse = Invert(matrix) /\ inverse # Singular /\ matrix \in [1..n -> [1..n -> Field]]
  BY InverseOf DEF Solvable
<1>3. AreCoded(d, matrix, x, n, C, y, m)
  BY WordsCoded
<1>4. inverse \in [1..n -> [1..n -> Field]]
  BY SomeIsUsed
<1>5. IsCombined(comb, inverse[k], n, C, m)
  <2> HIDE DEF C, comb, inverse
  <2>1. plan.inverse \in [1..n -> [1..n -> Field]]
    BY <1>4 DEF inverse
  <2>2. IsCombined(plan.combined[k], plan.inverse[k], n, Weights, m)
    BY <2>1, CombinedAre
  <2> QED
    BY <2>2 DEF C, comb, inverse
<1>6. /\ \A r \in 1..n : f[r] = Product(inverse[k][r], d[r])
      /\ \A a \in 1..m : g[a] = Product(comb[a], y[a])
      /\ x[k] = Word(Truth(plan.missing[k]), w)
  BY DEF FromRecovery, FromInputs, CodedWords, KeptWords, LostWords
<1> HIDE DEF matrix, inverse, x, y, d, C, comb, f, g
<1>7. /\ (\A r \in 1..n : inverse[k][r] \in Field /\ d[r] \in Field)
      /\ (\A a \in 1..m : comb[a] \in Field)
      /\ Xor(Side(inverse[k], 0, d, n), Side(comb, 0, y, m)) = x[k]
  <2> DEFINE weights == inverse[k]
  <2>1. HasWords(y, m) /\ HasRows(C, n, m)
    BY <1>1 DEF HasWords, HasRows
  <2>2. IsCombined(comb, weights, n, C, m)
    BY <1>5
  <2> HIDE DEF weights
  <2>3. Recovers(weights, d, n, comb, y, m, x[k])
    BY <1>1, <1>2, <1>3, <2>1, <2>2, Recovered DEF weights
  <2> QED
    BY <2>3 DEF Recovers, weights
<1>8. XorSum(f, n) = Side(inverse[k], 0, d, n)
  <2> DEFINE row == inverse[k]
  <2>1. (\A r \in 1..n : row[r] \in Field /\ d[r] \in Field)
        /\ \A r \in 1..n : f[r] = Product(row[r], d[r])
    BY <1>6, <1>7
  <2> HIDE DEF row
  <2> QED
    BY <1>1, <2>1, SideIs DEF row
<1>9. XorSum(g, m) = Side(comb, 0, y, m)
  BY <1>1, <1>6, <1>7, SideIs
<1>10. \A r \in 1..n : f[r] \in Field
  <2> TAKE r \in 1..n
  <2> DEFINE p == inverse[k][r]
             q == d[r]
  <2>1. p \in Field /\ q \in Field /\ f[r] = Product(p, q)
    BY <1>6, <1>7
  <2> HIDE DEF p, q
  <2>2. Product(p, q) \in Field
    BY <2>1, FieldFacts
  <2> QED
    BY <2>1, <2>2
<1>11. \A a \in 1..m : g[a] \in Field
  <2> TAKE a \in 1..m
  <2> DEFINE p == comb[a]
             q == y[a]
  <2>1. p \in Field /\ q \in Field /\ g[a] = Product(p, q)
    BY <1>1, <1>6, <1>7
  <2> HIDE DEF p, q
  <2> QED
    BY <2>1, FieldFacts
<1>12. Given(k, w, n, m) = Xor(XorSum(f, n), XorSum(g, m))
  BY DEF Given, f, g
<1> QED
  BY <1>6, <1>7, <1>8, <1>9, <1>10, <1>11, <1>12 DEF f, g, comb

-----------------------------------------------------------------------------
(* The shape of the outputs *)

\* An output of a chunk: bytes, and zeros as long as nothing was added.
IsOutput(a, n) ==
  /\ a.first \in BOOLEAN /\ a.out \in Seq(Byte) /\ Len(a.out) = n
  /\ a.first => IsBlank(a.out)

\* A contribution leaves an output.
LEMMA OutputStays ==
  ASSUME NEW a, NEW n, IsOutput(a, n), NEW c, NEW in, NEW result, Accumulates(result, a, c, in)
  PROVE  IsOutput(result, n)
BY DEF IsOutput, Accumulates

\* A new output.
LEMMA UntouchedIs ==
  ASSUME FieldLaws, WordLaws, NEW n \in Nat
  PROVE  /\ IsOutput(Untouched(n), n) /\ Untouched(n).first
         /\ \A v \in 1..(n \div 2) : Word(Untouched(n).out, v) = 0
<1>1. /\ Zeros(n) \in Seq(Byte) /\ Len(Zeros(n)) = n
      /\ \A v \in 1..(n \div 2) : Word(Zeros(n), v) = 0
  BY CodedFirst
<1>2. Untouched(n).first = TRUE /\ Untouched(n).out = Zeros(n)
  BY DEF Untouched
<1> QED
  BY <1>1, <1>2 DEF IsOutput, IsBlank

\* What is held of a file consists of bytes.
LEMMA PieceIsBytes ==
  ASSUME WordLaws, NEW file \in Seq(Byte), NEW chunk \in Nat, NEW size \in Nat, NEW at \in Nat,
         NEW data, IsPiece(data, file, at, chunk, size)
  PROVE  data \in Seq(Byte)
<1>1. /\ data \in Seq(Int) /\ Len(data) \in Nat
      /\ \A p \in 1..Len(data) : data[p] = IF at + p <= Len(file) THEN file[at + p] ELSE 0
  BY DEF IsPiece
<1>2. 0 \in Byte
  BY DEF WordLaws
<1>3. \A p \in 1..Len(data) : data[p] \in Byte
  <2> TAKE p \in 1..Len(data)
  <2>1. at + p <= Len(file) => at + p \in 1..Len(file)
    OBVIOUS
  <2>2. at + p <= Len(file) => file[at + p] \in Byte
    BY <2>1, ElementOfSeq
  <2> QED
    BY <1>1, <1>2, <2>2
<1>4. data = [p \in 1..Len(data) |-> data[p]]
  BY <1>1
<1>5. [p \in 1..Len(data) |-> data[p]] \in Seq(Byte)
  BY <1>1, <1>3
<1> QED
  BY <1>4, <1>5

\* What is read of a recovery slice fills the chunk.
LEMMA RecoveryPart ==
  ASSUME FieldLaws, WordLaws, CodesAreWords, Walked, pc = "recovery", NEW r \in 1..Used0,
         NEW data, data = FileBytes(plan.offered[r].data, offset, ChunkLen)
  PROVE  /\ IsExcerpt(data, Byte, plan.offered[r].data, offset, ChunkLen)
         /\ ChunkLen \in Nat /\ ChunkLen > 0 /\ offset + ChunkLen <= job.size
         /\ data \in Seq(Byte) /\ Len(data) = ChunkLen
         /\ plan.offered[r].data \in Seq(Byte) /\ Len(plan.offered[r].data) = job.size
<1> DEFINE s == plan.offered[r].data
           n == ChunkLen
<1>1. job \in Jobs /\ plan = Plan(job) /\ Solvable /\ offset \in Nat /\ offset < job.size /\ plan.chunk > 0
  BY DEF Walked, Solvable
<1>2. job.size \in Nat /\ plan.chunk \in Nat
  BY <1>1, JobIs, ChunkIs
<1>3. /\ n \in Nat /\ n > 0 /\ offset + n <= job.size
  BY <1>1, <1>2 DEF ChunkLen, Smaller
<1>4. s \in Seq(Byte) /\ Len(s) = job.size
  <2>1. Used0 \in Nat /\ Used0 <= Len(job.exponents) /\ Len(job.exponents) \in Nat
    BY <1>1, EnoughIs
  <2>2. r \in 1..Len(job.exponents)
    BY <2>1
  <2>3. IsCoded(s, Inputs(job), job.exponents[r], Total, job.size)
    BY <1>1, <2>2, OfferedAre
  <2> QED
    BY <2>3 DEF IsCoded
<1>5. Smaller(Len(s) - offset, n) = n
  BY <1>2, <1>3, <1>4, <1>1 DEF Smaller
<1> HIDE DEF s, n
<1>6. IsExcerpt(FileBytes(s, offset, n), Byte, s, offset, Smaller(Len(s) - offset, n))
  <2>1. offset \in Nat /\ offset <= Len(s) /\ n \in Nat /\ s \in Seq(Byte)
    BY <1>1, <1>2, <1>3, <1>4
  <2> QED
    BY <2>1, PieceOf
<1>7. data = FileBytes(s, offset, n)
  BY DEF s, n
<1>8. IsExcerpt(data, Byte, s, offset, n)
  BY <1>5, <1>6, <1>7
<1> QED
  BY <1>3, <1>4, <1>8 DEF s, n, IsExcerpt

\* What is read of a present slice is not longer than the chunk.
LEMMA InputPart ==
  ASSUME WordLaws, Walked, pc = "inputs", turn <= Len(plan.available),
         NEW i, i = plan.available[turn],
         NEW read, read = ReadChunk(cache, i, offset, ChunkLen, job.size, File(i))
  PROVE  /\ i \in 0..(Total - 1) /\ i \in Available(job) /\ turn \in 1..Len(plan.available)
         /\ IsPiece(read.data, File(i), offset, plan.chunk, job.size)
         /\ IsExcerpt(File(i), Byte, job.slices[i + 1], 0, job.there[i + 1])
         /\ read.data \in Seq(Byte) /\ Len(read.data) <= ChunkLen
         /\ ChunkLen \in Nat /\ ChunkLen > 0 /\ offset + ChunkLen <= job.size
<1> DEFINE data == read.data
           file == File(i)
<1>1. i \in 0..(Total - 1) /\ i \in Available(job) /\ IsPiece(data, file, offset, plan.chunk, job.size)
  BY InputIs
<1>2. /\ job \in Jobs /\ plan = Plan(job) /\ offset \in Nat /\ offset < job.size /\ plan.chunk > 0
      /\ turn \in 1..Len(plan.available)
  BY AvailableAre DEF Walked
<1>3. job.size \in Nat /\ plan.chunk \in Nat
  BY <1>2, JobIs, ChunkIs
<1>4. ChunkLen \in Nat /\ ChunkLen > 0 /\ offset + ChunkLen <= job.size
  BY <1>2, <1>3 DEF ChunkLen, Smaller
<1>5. IsExcerpt(file, Byte, job.slices[i + 1], 0, job.there[i + 1])
  BY <1>1, <1>2, FilesAre
<1>6. Len(data) <= ChunkLen
  BY <1>1 DEF IsPiece, ChunkLen
<1>7. data \in Seq(Byte)
  <2> DEFINE chunk == plan.chunk
             size == job.size
  <2>1. file \in Seq(Byte) /\ chunk \in Nat /\ size \in Nat
    BY <1>3, <1>5 DEF IsExcerpt
  <2>2. IsPiece(data, file, offset, chunk, size) /\ offset \in Nat
    BY <1>1, <1>2
  <2> HIDE DEF chunk, size, file, data
  <2> QED
    BY <2>1, <2>2, PieceIsBytes
<1> QED
  BY <1>1, <1>2, <1>4, <1>5, <1>6, <1>7

\* The outputs of a chunk of n bytes.
AreOutputs(outputs, n) ==
  DOMAIN outputs = 1..Used0 /\ \A k \in 1..Used0 : IsOutput(outputs[k], n)

\* A piece of a recovery slice or of a present one goes to every output.
LEMMA Contributed ==
  ASSUME FieldLaws, WordLaws, job \in Jobs, NEW n \in Nat, AreOutputs(acc, n),
         NEW c, \A k \in 1..Used0 : c[k] \in Field, NEW in \in Seq(Byte), Len(in) <= n,
         Len(in) = n \/ \A k \in 1..Used0 : ~acc[k].first,
         Contribute(c, in)
  PROVE  /\ DOMAIN acc' = 1..Used0
         /\ \A k \in 1..Used0 : Accumulates(acc'[k], acc[k], c[k], in) /\ IsOutput(acc'[k], n)
<1>1. DOMAIN acc = 1..Used0 /\ \A k \in 1..Used0 : IsOutput(acc[k], n)
  BY DEF AreOutputs
<1>2. acc' = [k \in 1..Used0 |-> Accumulate(job.level, acc[k], c[k], in)]
  BY <1>1 DEF Contribute
<1>3. ASSUME NEW k \in 1..Used0
      PROVE  Accumulates(acc'[k], acc[k], c[k], in) /\ IsOutput(acc'[k], n)
  <2> DEFINE a == acc[k]
             q == c[k]
             result == acc'[k]
             level == job.level
  <2>1. /\ a.first \in BOOLEAN /\ a.out \in Seq(Byte) /\ Len(a.out) = n /\ IsOutput(a, n)
        /\ Len(in) = n \/ ~a.first
    BY <1>1 DEF IsOutput
  <2>2. result = Accumulate(level, a, q, in) /\ q \in Field
    BY <1>2
  <2>3. level \in Levels
    BY JobIs
  <2>4. Len(in) <= Len(a.out) /\ (a.first => Len(in) = Len(a.out))
    BY <2>1
  <2> HIDE DEF a, q, result, level
  <2>5. Accumulates(result, a, q, in)
    BY <2>1, <2>2, <2>3, <2>4, AccumulateIs
  <2>6. IsOutput(result, n)
    BY <2>1, <2>5, OutputStays
  <2> QED
    BY <2>5, <2>6 DEF a, q, result
<1> QED
  BY <1>2, <1>3

\* What the outputs are, of this chunk and of those before.
Shaped ==
  /\ offset <= job.size
  /\ outcome \in {"none", "success", "error"}
  /\ outcome = "success" => offset = job.size \/ plan.missing = <<>>
  /\ cache # <<>> => plan.chunk > 0
  /\ written \in [1..Used0 -> Seq(Byte)]
  /\ \A k \in 1..Used0 : Len(written[k]) = offset
  /\ pc \in {"recovery", "inputs"} => AreOutputs(acc, ChunkLen)
  /\ pc = "recovery" =>
       /\ turn <= Used0
       /\ \A k \in 1..Used0 :
            acc[k].first = \A r \in 1..(turn - 1) : plan.inverse[k][r] = 0
  /\ pc = "inputs" => \A k \in 1..Used0 : ~acc[k].first
  /\ pc \in {"start", "exit"} => \A k \in DOMAIN acc : acc[k].out \in Seq(Byte)

\* The first outputs of a chunk.
LEMMA BegunIs ==
  ASSUME FieldLaws, WordLaws, Solvable, NEW n \in Nat, BeginChunk(n)
  PROVE  /\ acc' = [k \in 1..Used0 |-> Untouched(n)]
         /\ AreOutputs(acc', n)
         /\ \A k \in 1..Used0 : /\ acc'[k].first = TRUE
                                /\ \A v \in 1..(n \div 2) : Word(acc'[k].out, v) = 0
<1>1. DOMAIN plan.missing = 1..Used0
  <2>1. job \in Jobs /\ plan = Plan(job)
    BY DEF Solvable
  <2> QED
    BY <2>1, MissingIs DEF Used0
<1>2. acc' = [k \in 1..Used0 |-> Untouched(n)]
  BY <1>1 DEF BeginChunk
<1>3. /\ IsOutput(Untouched(n), n) /\ Untouched(n).first = TRUE
      /\ \A v \in 1..(n \div 2) : Word(Untouched(n).out, v) = 0
  BY UntouchedIs DEF IsOutput
<1> HIDE DEF Untouched
<1> QED
  BY <1>2, <1>3 DEF AreOutputs

\* A recovery slice is read.
LEMMA RecoveryRead ==
  ASSUME FieldLaws, WordLaws, CodesAreWords, Walked, Shaped, ReadRecovery,
         NEW data, data = FileBytes(plan.offered[turn].data, offset, ChunkLen)
  PROVE  /\ turn \in 1..Used0 /\ Used0 \in Nat \ {0} /\ ChunkLen \in Nat
         /\ plan.inverse \in [1..Used0 -> [1..Used0 -> Field]]
         /\ data \in Seq(Byte) /\ Len(data) = ChunkLen
         /\ DOMAIN acc' = 1..Used0
         /\ \A k \in 1..Used0 : /\ Accumulates(acc'[k], acc[k], plan.inverse[k][turn], data)
                                /\ IsOutput(acc'[k], ChunkLen)
<1>1. pc = "recovery" /\ turn <= Used0 /\ Contribute(Column(plan.inverse, turn), data)
  BY DEF ReadRecovery
<1>2. Solvable /\ job \in Jobs /\ turn \in Nat /\ turn > 0
  BY <1>1 DEF Walked, Solvable
<1>3. Used0 \in Nat \ {0}
  BY <1>2, EnoughIs
<1>4. turn \in 1..Used0
  BY <1>1, <1>2, <1>3
<1>5. ChunkLen \in Nat /\ data \in Seq(Byte) /\ Len(data) = ChunkLen
  BY <1>1, <1>4, RecoveryPart
<1>6. plan.inverse \in [1..Used0 -> [1..Used0 -> Field]]
  <2>1. 1 \in 1..Used0
    BY <1>3
  <2> DEFINE n == Used0
             m == Len(plan.available)
             k == 1
  <2>2. n = Used0 /\ m = Len(plan.available) /\ k \in 1..n
    BY <2>1
  <2> HIDE DEF n, m, k
  <2>3. plan.inverse \in [1..n -> [1..n -> Field]]
    BY <1>2, <2>2, SomeIsUsed
  <2> QED
    BY <2>2, <2>3
<1> DEFINE c == Column(plan.inverse, turn)
<1>7. \A k \in 1..Used0 : c[k] = plan.inverse[k][turn] /\ c[k] \in Field
  BY <1>4, <1>6 DEF Column
<1> HIDE DEF c
<1>8. AreOutputs(acc, ChunkLen)
  BY <1>1 DEF Shaped
<1>9. Contribute(c, data)
  BY <1>1 DEF c
<1> DEFINE len == ChunkLen
<1>10. /\ len \in Nat /\ AreOutputs(acc, len) /\ Len(data) <= len /\ Len(data) = len /\ data \in Seq(Byte)
  BY <1>5, <1>8
<1> HIDE DEF len
<1>11. /\ DOMAIN acc' = 1..Used0
       /\ \A k \in 1..Used0 : Accumulates(acc'[k], acc[k], c[k], data) /\ IsOutput(acc'[k], len)
  BY <1>2, <1>7, <1>9, <1>10, Contributed
<1> QED
  BY <1>3, <1>4, <1>5, <1>6, <1>7, <1>11 DEF len

\* A present slice is read.
LEMMA InputAdds ==
  ASSUME FieldLaws, WordLaws, CodesAreWords, Walked, Shaped, ReadInput,
         NEW i, i = plan.available[turn],
         NEW data, data = ReadChunk(cache, i, offset, ChunkLen, job.size, File(i)).data
  PROVE  /\ turn \in 1..Len(plan.available) /\ Used0 \in Nat \ {0} /\ ChunkLen \in Nat
         /\ i \in 0..(Total - 1) /\ i \in Available(job)
         /\ IsPiece(data, File(i), offset, plan.chunk, job.size)
         /\ IsExcerpt(File(i), Byte, job.slices[i + 1], 0, job.there[i + 1])
         /\ data \in Seq(Byte) /\ Len(data) <= ChunkLen
         /\ DOMAIN acc' = 1..Used0
         /\ \A k \in 1..Used0 : /\ plan.combined[k][turn] \in Field
                                /\ Accumulates(acc'[k], acc[k], plan.combined[k][turn], data)
                                /\ IsOutput(acc'[k], ChunkLen)
<1> DEFINE read == ReadChunk(cache, i, offset, ChunkLen, job.size, File(i))
<1>1. pc = "inputs" /\ turn <= Len(plan.available)
  BY DEF ReadInput
<1>2. Contribute(Column(plan.combined, turn), data)
  BY DEF ReadInput
<1>3. Solvable /\ job \in Jobs /\ plan = Plan(job)
  BY <1>1 DEF Walked, Solvable
<1>4. Used0 \in Nat \ {0}
  BY <1>3, EnoughIs
<1>5. data = read.data
  OBVIOUS
<1> HIDE DEF read
<1>6. /\ i \in 0..(Total - 1) /\ i \in Available(job) /\ turn \in 1..Len(plan.available)
      /\ IsPiece(data, File(i), offset, plan.chunk, job.size)
      /\ IsExcerpt(File(i), Byte, job.slices[i + 1], 0, job.there[i + 1])
      /\ data \in Seq(Byte) /\ Len(data) <= ChunkLen /\ ChunkLen \in Nat
  BY <1>1, <1>5, InputPart DEF read
<1>7. DOMAIN plan.combined = 1..Used0
  <2>1. DOMAIN plan.missing = 1..Used0 /\ plan.inverse # Singular
    BY <1>3, MissingIs DEF Used0, Solvable
  <2>2. plan.inverse # Singular => DOMAIN plan.combined = DOMAIN plan.missing
    BY <1>3 DEF Plan
  <2> QED
    BY <2>1, <2>2
<1> DEFINE c == Column(plan.combined, turn)
<1>8. ASSUME NEW k \in 1..Used0
      PROVE  c[k] = plan.combined[k][turn] /\ c[k] \in Field
  <2>1. c[k] = plan.combined[k][turn]
    BY <1>7 DEF Column
  <2> DEFINE n == Used0
             m == Len(plan.available)
  <2>2. n = Used0 /\ m = Len(plan.available) /\ k \in 1..n
    OBVIOUS
  <2> HIDE DEF n, m
  <2>3. \A a \in 1..m : plan.combined[k][a] \in Field
    BY <1>3, <2>2, SomeIsUsed
  <2> HIDE DEF c
  <2> QED
    BY <1>6, <2>1, <2>2, <2>3
<1> HIDE DEF c
<1>9. AreOutputs(acc, ChunkLen) /\ \A k \in 1..Used0 : ~acc[k].first
  BY <1>1 DEF Shaped
<1>10. Contribute(c, data)
  BY <1>2 DEF c
<1> DEFINE len == ChunkLen
<1>11. len \in Nat /\ AreOutputs(acc, len) /\ Len(data) <= len /\ data \in Seq(Byte)
  BY <1>6, <1>9
<1> HIDE DEF len
<1>12. /\ DOMAIN acc' = 1..Used0
       /\ \A k \in 1..Used0 : Accumulates(acc'[k], acc[k], c[k], data) /\ IsOutput(acc'[k], len)
  BY <1>3, <1>8, <1>9, <1>10, <1>11, Contributed
<1> QED
  BY <1>4, <1>6, <1>8, <1>12 DEF len

\* A chunk is written.
LEMMA ChunkWritten ==
  ASSUME FieldLaws, WordLaws, CodesAreWords, Walked, Shaped, WriteChunk
  PROVE  /\ ChunkLen \in Nat /\ offset' = offset + ChunkLen /\ offset' \in Nat /\ offset' <= job.size
         /\ written' \in [1..Used0 -> Seq(Byte)]
         /\ \A k \in 1..Used0 :
              /\ written'[k] = written[k] \o acc[k].out /\ Len(written'[k]) = offset'
              /\ \A p \in 1..offset' :
                   written'[k][p] = IF p <= offset THEN written[k][p] ELSE acc[k].out[p - offset]
         /\ offset' < job.size =>
              /\ pc' = "recovery" /\ turn' = 1 /\ ChunkLen' \in Nat /\ AreOutputs(acc', ChunkLen')
              /\ outcome' = outcome
              /\ \A k \in 1..Used0 : /\ acc'[k].first = TRUE
                                     /\ \A v \in 1..(ChunkLen' \div 2) : Word(acc'[k].out, v) = 0
         /\ ~(offset' < job.size) =>
              pc' = "exit" /\ acc' = acc /\ outcome' = "success" /\ offset' = job.size
<1>1. pc = "inputs" /\ Solvable /\ job \in Jobs /\ plan = Plan(job) /\ offset \in Nat /\ offset < job.size
  BY DEF WriteChunk, Walked, Solvable
<1>2. job.size \in Nat /\ plan.chunk \in Nat
  BY <1>1, JobIs, ChunkIs
<1>3. ChunkLen \in Nat /\ offset + ChunkLen <= job.size
  BY <1>1, <1>2 DEF ChunkLen, Smaller
<1>4. /\ offset' = offset + ChunkLen /\ job' = job /\ plan' = plan
      /\ written' = [k \in DOMAIN written |-> written[k] \o acc[k].out]
  BY DEF WriteChunk
<1>5. /\ written \in [1..Used0 -> Seq(Byte)] /\ AreOutputs(acc, ChunkLen)
      /\ \A k \in 1..Used0 : Len(written[k]) = offset
  BY <1>1 DEF Shaped
<1>6. ASSUME NEW k \in 1..Used0
      PROVE  /\ written'[k] = written[k] \o acc[k].out /\ written'[k] \in Seq(Byte)
             /\ Len(written'[k]) = offset'
             /\ \A p \in 1..offset' :
                  written'[k][p] = IF p <= offset THEN written[k][p] ELSE acc[k].out[p - offset]
  <2> DEFINE s == written[k]
             t == acc[k].out
             u == s \o t
  <2>1. s \in Seq(Byte) /\ Len(s) = offset /\ t \in Seq(Byte) /\ Len(t) = ChunkLen
    BY <1>5 DEF AreOutputs, IsOutput
  <2>2. written'[k] = u
    BY <1>4, <1>5
  <2> HIDE DEF s, t
  <2>3. /\ u \in Seq(Byte) /\ Len(u) = Len(s) + Len(t)
        /\ \A p \in 1..(Len(s) + Len(t)) : u[p] = IF p <= Len(s) THEN s[p] ELSE t[p - Len(s)]
    BY <2>1, ConcatProperties
  <2> QED
    BY <1>4, <2>1, <2>2, <2>3 DEF s, t, u
<1>7. ASSUME offset' < job.size
      PROVE  /\ pc' = "recovery" /\ turn' = 1 /\ ChunkLen' \in Nat /\ AreOutputs(acc', ChunkLen')
             /\ outcome' = outcome
             /\ \A k \in 1..Used0 : /\ acc'[k].first = TRUE
                                    /\ \A v \in 1..(ChunkLen' \div 2) : Word(acc'[k].out, v) = 0
  <2> DEFINE n == Smaller(plan.chunk, job.size - offset')
  <2>1. pc' = "recovery" /\ turn' = 1 /\ BeginChunk(n) /\ outcome' = outcome
    BY <1>7 DEF WriteChunk, More
  <2>2. n \in Nat
    BY <1>1, <1>2, <1>3, <1>4, <1>7 DEF Smaller
  <2>3. ChunkLen' = n
    BY <1>4 DEF ChunkLen
  <2> HIDE DEF n
  <2>4. /\ AreOutputs(acc', n)
        /\ \A k \in 1..Used0 : /\ acc'[k].first = TRUE
                               /\ \A v \in 1..(n \div 2) : Word(acc'[k].out, v) = 0
    BY <1>1, <2>1, <2>2, BegunIs
  <2> QED
    BY <2>1, <2>2, <2>3, <2>4
<1>8. ASSUME ~(offset' < job.size)
      PROVE  pc' = "exit" /\ acc' = acc /\ outcome' = "success" /\ offset' = job.size
  <2>1. pc' = "exit" /\ acc' = acc /\ outcome' = "success"
    BY <1>8 DEF WriteChunk, More, Stop
  <2> QED
    BY <1>1, <1>2, <1>3, <1>4, <1>8, <2>1
<1>9. written' \in [1..Used0 -> Seq(Byte)]
  <2>1. DOMAIN written' = 1..Used0 /\ written' = [k \in 1..Used0 |-> written'[k]]
    BY <1>4, <1>5
  <2> QED
    BY <1>6, <2>1
<1>10. offset' \in Nat /\ offset' <= job.size
  BY <1>1, <1>3, <1>4
<1>11. /\ ChunkLen \in Nat /\ offset' = offset + ChunkLen
       /\ \A k \in 1..Used0 : written'[k] = written[k] \o acc[k].out /\ Len(written'[k]) = offset'
  BY <1>3, <1>4, <1>6
<1>12. \A k \in 1..Used0 : \A p \in 1..offset' :
         written'[k][p] = IF p <= offset THEN written[k][p] ELSE acc[k].out[p - offset]
  BY <1>6
<1> QED
  BY ONLY <1>7, <1>8, <1>9, <1>10, <1>11, <1>12

LEMMA StaysShaped ==
  FieldLaws /\ WordLaws /\ CodesAreWords => (Spec => []Shaped)
<1> SUFFICES ASSUME FieldLaws, WordLaws, CodesAreWords PROVE Spec => []Shaped
  OBVIOUS
<1>1. Init => Shaped
  <2> SUFFICES ASSUME Init PROVE Shaped
    OBVIOUS
  <2>1. job \in Jobs /\ plan = Plan(job)
    BY DEF Init
  <2>2. DOMAIN plan.missing = 1..Used0 /\ job.size \in Nat
    BY <2>1, MissingIs, JobIs DEF Used0
  <2>3. written = [k \in 1..Used0 |-> <<>>]
    BY <2>2 DEF Init
  <2>4. <<>> \in Seq(Byte) /\ Len(<<>>) = 0
    OBVIOUS
  <2>5. written \in [1..Used0 -> Seq(Byte)] /\ \A k \in 1..Used0 : Len(written[k]) = 0
    BY <2>3, <2>4
  <2>6. \A k \in DOMAIN acc : acc[k].out \in Seq(Byte)
    BY DEF Init
  <2> QED
    BY <2>2, <2>5, <2>6 DEF Init, Shaped
<1>2. Walked /\ Walked' /\ Shaped /\ [Next]_vars => Shaped'
  <2> SUFFICES ASSUME Walked, Walked', Shaped, [Next]_vars PROVE Shaped'
    OBVIOUS
  <2>1. CASE Start
    <3>1. /\ pc = "start" /\ offset' = offset /\ turn' = turn /\ written' = written /\ cache' = cache
          /\ job' = job /\ plan' = plan /\ offset = 0 /\ turn = 1
      BY <2>1 DEF Start, Walked
    <3>2. Used0' = Used0 /\ ChunkLen' = ChunkLen
      BY <3>1 DEF Used0, ChunkLen
    <3>3. CASE pc' = "exit"
      <4>1. acc' = acc
        BY <2>1, <3>3 DEF Start, Stop
      <4>2. outcome' \in {"success", "error"} /\ (outcome' = "success" => plan.missing = <<>>)
        BY <2>1, <3>3 DEF Start, Stop
      <4> QED
        BY <3>1, <3>2, <3>3, <4>1, <4>2 DEF Shaped
    <3>4. CASE pc' # "exit"
      <4>1. pc' = "recovery" /\ BeginChunk(ChunkLen) /\ outcome' = outcome
        BY <2>1, <3>4 DEF Start, Stop
      <4>2. Solvable
        <5>1. Solvable'
          BY <4>1 DEF Walked, Solvable
        <5> QED
          BY <3>1, <5>1 DEF Solvable
      <4>3. ChunkLen \in Nat
        <5>1. job.size \in Nat /\ plan.chunk \in Nat
          BY <4>2, JobIs, ChunkIs DEF Solvable
        <5> QED
          BY <3>1, <5>1 DEF ChunkLen, Smaller
      <4>4. AreOutputs(acc', ChunkLen) /\ \A k \in 1..Used0 : acc'[k].first = TRUE
        BY <4>1, <4>2, <4>3, BegunIs
      <4>5. AreOutputs(acc, ChunkLen)'
        BY <3>2, <4>4 DEF AreOutputs
      <4>6. Used0 \in Nat \ {0}
        BY <4>2, EnoughIs
      <4>7. turn' <= Used0 /\ \A k \in 1..Used0 : acc'[k].first = \A r \in 1..(turn' - 1) : plan'.inverse[k][r] = 0
        <5>1. turn' <= Used0 /\ \A r \in 1..(turn' - 1) : FALSE
          BY <3>1, <4>6
        <5>2. \A k \in 1..Used0 : \A r \in 1..(turn' - 1) : plan'.inverse[k][r] = 0
          BY <5>1
        <5> QED
          BY <4>4, <5>1, <5>2
      <4> QED
        BY <3>1, <3>2, <4>1, <4>5, <4>7 DEF Shaped
    <3> QED
      BY <3>3, <3>4
  <2>2. CASE ReadRecovery
    <3> DEFINE data == FileBytes(plan.offered[turn].data, offset, ChunkLen)
    <3>1. /\ pc = "recovery" /\ offset' = offset /\ written' = written /\ cache' = cache
          /\ job' = job /\ plan' = plan /\ outcome' = outcome
          /\ IF turn = Used0 THEN turn' = 1 /\ pc' = "inputs" ELSE turn' = turn + 1 /\ pc' = pc
      BY <2>2 DEF ReadRecovery
    <3>2. Used0' = Used0 /\ ChunkLen' = ChunkLen
      BY <3>1 DEF Used0, ChunkLen
    <3>3. data = FileBytes(plan.offered[turn].data, offset, ChunkLen)
      OBVIOUS
    <3> HIDE DEF data
    <3>4. /\ turn \in 1..Used0 /\ Used0 \in Nat \ {0} /\ ChunkLen \in Nat
          /\ plan.inverse \in [1..Used0 -> [1..Used0 -> Field]]
          /\ DOMAIN acc' = 1..Used0
          /\ \A k \in 1..Used0 : /\ Accumulates(acc'[k], acc[k], plan.inverse[k][turn], data)
                                 /\ IsOutput(acc'[k], ChunkLen)
      BY <2>2, <3>3, RecoveryRead
    <3>5. AreOutputs(acc, ChunkLen)'
      BY <3>2, <3>4 DEF AreOutputs
    <3>6. ASSUME NEW k \in 1..Used0
          PROVE  acc'[k].first = \A r \in 1..turn : plan.inverse[k][r] = 0
      <4>1. acc'[k].first = (acc[k].first /\ plan.inverse[k][turn] = 0)
        BY <3>4 DEF Accumulates
      <4>2. acc[k].first = \A r \in 1..(turn - 1) : plan.inverse[k][r] = 0
        BY <3>1 DEF Shaped
      <4>3. (\A r \in 1..turn : plan.inverse[k][r] = 0)
              <=> (plan.inverse[k][turn] = 0 /\ \A r \in 1..(turn - 1) : plan.inverse[k][r] = 0)
        <5> DEFINE v == plan.inverse[k]
        <5>1. \A r \in 1..turn : r \in 1..(turn - 1) \/ r = turn
          BY <3>4
        <5>2. turn \in 1..turn /\ \A r \in 1..(turn - 1) : r \in 1..turn
          BY <3>4
        <5> HIDE DEF v
        <5>3. (\A r \in 1..turn : v[r] = 0) <=> (v[turn] = 0 /\ \A r \in 1..(turn - 1) : v[r] = 0)
          BY <5>1, <5>2
        <5> QED
          BY <5>3 DEF v
      <4>4. IsOutput(acc'[k], ChunkLen)
        BY <3>4
      <4> QED
        BY <4>1, <4>2, <4>3
    <3>7. CASE turn = Used0
      <4>1. pc' = "inputs"
        BY <3>1, <3>7
      <4>2. ASSUME NEW k \in 1..Used0 PROVE ~acc'[k].first
        <5>1. Solvable
          BY <3>1 DEF Walked, Solvable
        <5> DEFINE n == Used0
                   m == Len(plan.available)
        <5>2. n = Used0 /\ m = Len(plan.available) /\ k \in 1..n
          OBVIOUS
        <5> HIDE DEF n, m
        <5>3. \E r \in 1..n : plan.inverse[k][r] # 0
          BY <5>1, <5>2, SomeIsUsed
        <5> QED
          BY <3>6, <3>7, <5>2, <5>3
      <4> QED
        BY <3>1, <3>2, <3>5, <4>1, <4>2 DEF Shaped
    <3>8. CASE turn # Used0
      <4>1. pc' = "recovery" /\ turn' = turn + 1 /\ turn' - 1 = turn /\ turn' <= Used0
        BY <3>1, <3>4, <3>8
      <4>2. \A k \in 1..Used0 : acc'[k].first = \A r \in 1..(turn' - 1) : plan'.inverse[k][r] = 0
        BY <3>1, <3>6, <4>1
      <4> QED
        BY <3>1, <3>2, <3>5, <4>1, <4>2 DEF Shaped
    <3> QED
      BY <3>7, <3>8
  <2>3. CASE ReadInput
    <3>1. /\ pc = "inputs" /\ pc' = pc /\ offset' = offset /\ written' = written
          /\ job' = job /\ plan' = plan /\ outcome' = outcome
      BY <2>3 DEF ReadInput
    <3>2. Used0' = Used0 /\ ChunkLen' = ChunkLen
      BY <3>1 DEF Used0, ChunkLen
    <3> DEFINE i == plan.available[turn]
               data == ReadChunk(cache, i, offset, ChunkLen, job.size, File(i)).data
    <3>3. i = plan.available[turn] /\ data = ReadChunk(cache, i, offset, ChunkLen, job.size, File(i)).data
      OBVIOUS
    <3> HIDE DEF i, data
    <3>4. /\ DOMAIN acc' = 1..Used0
          /\ \A k \in 1..Used0 : /\ Accumulates(acc'[k], acc[k], plan.combined[k][turn], data)
                                 /\ IsOutput(acc'[k], ChunkLen)
      BY <2>3, <3>3, InputAdds
    <3>5. AreOutputs(acc, ChunkLen)'
      BY <3>2, <3>4 DEF AreOutputs
    <3>6. \A k \in 1..Used0 : ~acc'[k].first
      BY <3>1, <3>4 DEF Shaped, Accumulates
    <3>7. plan.chunk > 0
      BY <3>1 DEF Walked
    <3> QED
      BY <3>1, <3>2, <3>5, <3>6, <3>7 DEF Shaped
  <2>4. CASE ReadFails
    <3>1. /\ pc \in {"recovery", "inputs"} /\ pc' = "exit" /\ outcome' = "error"
          /\ UNCHANGED <<job, plan, offset, acc, written, cache>>
      BY <2>4 DEF ReadFails, Stop
    <3>2. Used0' = Used0
      BY <3>1 DEF Used0
    <3>3. \A k \in DOMAIN acc : acc[k].out \in Seq(Byte)
      BY <3>1 DEF Shaped, AreOutputs, IsOutput
    <3> QED
      BY <3>1, <3>2, <3>3 DEF Shaped
  <2>5. CASE WriteChunk
    <3>1. pc = "inputs" /\ job' = job /\ plan' = plan /\ cache' = cache
      BY <2>5 DEF WriteChunk
    <3>2. Used0' = Used0
      BY <3>1 DEF Used0
    <3>3. /\ offset' \in Nat /\ offset' <= job.size
          /\ written' \in [1..Used0 -> Seq(Byte)] /\ \A k \in 1..Used0 : Len(written'[k]) = offset'
      BY <2>5, ChunkWritten
    <3>4. plan.missing # <<>> /\ offset < job.size /\ plan.chunk > 0 /\ job \in Jobs /\ plan = Plan(job)
      BY <3>1 DEF Walked
    <3>5. Used0 \in Nat \ {0} /\ job.size \in Nat /\ offset \in Nat
      <4>1. Solvable
        BY <3>1 DEF Walked, Solvable
      <4> QED
        BY <3>4, <4>1, EnoughIs, JobIs DEF Walked
    <3>6. outcome # "success"
      BY <3>4, <3>5 DEF Shaped
    <3>7. CASE offset' < job.size
      <4>1. /\ pc' = "recovery" /\ turn' = 1 /\ AreOutputs(acc', ChunkLen') /\ outcome' = outcome
            /\ \A k \in 1..Used0 : acc'[k].first = TRUE
        BY <2>5, <3>7, ChunkWritten
      <4>2. AreOutputs(acc, ChunkLen)'
        BY <3>2, <4>1 DEF AreOutputs
      <4>3. turn' <= Used0
            /\ \A k \in 1..Used0 : acc'[k].first = \A r \in 1..(turn' - 1) : plan'.inverse[k][r] = 0
        <5>1. turn' <= Used0 /\ \A r \in 1..(turn' - 1) : FALSE
          BY <3>5, <4>1
        <5>2. \A k \in 1..Used0 : \A r \in 1..(turn' - 1) : plan'.inverse[k][r] = 0
          BY <5>1
        <5> QED
          BY <4>1, <5>1, <5>2
      <4> QED
        BY <3>1, <3>2, <3>3, <3>4, <3>6, <4>1, <4>2, <4>3 DEF Shaped
    <3>8. CASE ~(offset' < job.size)
      <4>1. pc' = "exit" /\ acc' = acc /\ outcome' = "success" /\ offset' = job.size
        BY <2>5, <3>8, ChunkWritten
      <4>2. \A k \in DOMAIN acc : acc[k].out \in Seq(Byte)
        BY <3>1 DEF Shaped, AreOutputs, IsOutput
      <4> QED
        BY <3>1, <3>2, <3>3, <3>4, <4>1, <4>2 DEF Shaped
    <3> QED
      BY <3>7, <3>8
  <2>6. CASE UNCHANGED vars
    <3>1. Used0' = Used0 /\ ChunkLen' = ChunkLen
      BY <2>6 DEF vars, Used0, ChunkLen
    <3>2. AreOutputs(acc, ChunkLen)' = AreOutputs(acc, ChunkLen)
      BY <2>6, <3>1 DEF vars, AreOutputs
    <3> QED
      BY <2>6, <3>1, <3>2 DEF vars, Shaped
  <2> QED
    BY <2>1, <2>2, <2>3, <2>4, <2>5, <2>6 DEF Next, Step
<1> QED
  BY <1>1, <1>2, StaysWalked, PTL DEF Spec

\* The outputs are bytes, those of the chunks before as long as the walk has come,
\* and no entry of the cache is empty (reconstruct_missing_slices_chunked).
THEOREM OutputsAreWhole ==
  FieldLaws /\ WordLaws /\ CodesAreWords => (Spec => []TypeOK)
<1> SUFFICES ASSUME FieldLaws, WordLaws, CodesAreWords PROVE Spec => []TypeOK
  OBVIOUS
<1>1. Walked /\ Shaped => TypeOK
  <2> SUFFICES ASSUME Walked, Shaped PROVE TypeOK
    OBVIOUS
  <2>1. job \in Jobs /\ plan = Plan(job) /\ offset \in Nat /\ offset <= job.size
    BY DEF Walked, Shaped
  <2>2. job.size \in Nat /\ plan.chunk \in Nat
    BY <2>1, JobIs, ChunkIs
  <2>3. \A k \in DOMAIN acc : acc[k].out \in Seq(Byte)
    <3>1. CASE pc \in {"recovery", "inputs"}
      BY <3>1 DEF Shaped, AreOutputs, IsOutput
    <3>2. CASE pc \in {"start", "exit"}
      BY <3>2 DEF Shaped
    <3> QED
      BY <3>1, <3>2 DEF Walked
  <2>4. \A k \in DOMAIN written : Len(written[k]) = offset
    BY DEF Shaped
  <2>5. ASSUME NEW k \in DOMAIN cache PROVE cache[k].data # <<>>
    <3> DEFINE E == Sound(Files, plan.chunk, job.size)
    <3>1. cache \in Seq(E)
      BY DEF Walked, Caches, Stores
    <3> DEFINE e == cache[k]
    <3>2. e \in E /\ cache # <<>>
      BY <3>1
    <3>3. plan.chunk > 0
      BY <3>2 DEF Shaped
    <3> DEFINE at == e.offset
               data == e.data
               file == Files[e.slice]
    <3> HIDE DEF E, e
    <3>4. /\ at \in Nat /\ at < Len(file) /\ e.slice \in DOMAIN Files
          /\ IsPiece(data, file, at, plan.chunk, job.size)
      BY <3>2 DEF E, Sound
    <3>5. Len(file) \in Nat
      BY <2>1, <3>4, FilesAre DEF AreFiles
    <3> HIDE DEF at, data, file
    <3>6. Smaller(Len(file) - at, plan.chunk) <= Len(data)
      BY <3>4 DEF IsPiece
    <3>7. Len(data) # 0
      BY <2>2, <3>3, <3>4, <3>5, <3>6 DEF Smaller
    <3>8. data # <<>>
      BY <3>7
    <3> QED
      BY <3>8 DEF data, e
  <2> QED
    BY <2>1, <2>2, <2>3, <2>4, <2>5 DEF TypeOK, Walked, Shaped
<1> QED
  BY <1>1, StaysWalked, StaysShaped, PTL

-----------------------------------------------------------------------------
(* The words of the outputs *)

\* A sum of two sums grows with either.
Grows(k, w, n, m) ==
  /\ Given(k, w, 0, 0) = 0
  /\ \A r \in 1..n : Given(k, w, r, 0) = Xor(Given(k, w, r - 1, 0), FromRecovery(k, w)[r])
  /\ \A a \in 1..m : Given(k, w, n, a) = Xor(Given(k, w, n, a - 1), FromInputs(k, w)[a])

LEMMA GivenGrows ==
  ASSUME FieldLaws, NEW n \in Nat, NEW m \in Nat, NEW k, NEW w,
         HasWords(FromRecovery(k, w), n), HasWords(FromInputs(k, w), m)
  PROVE  Grows(k, w, n, m)
<1> DEFINE f == FromRecovery(k, w)
           g == FromInputs(k, w)
<1>1. (\A r \in 1..n : f[r] \in Field) /\ (\A a \in 1..m : g[a] \in Field)
  BY DEF HasWords
<1>2. \A r, a : Given(k, w, r, a) = Xor(XorSum(f, r), XorSum(g, a))
  BY DEF Given
<1> HIDE DEF f, g
<1>3. XorSum(f, 0) = 0 /\ XorSum(g, 0) = 0
  BY SumSteps
<1>4. 0 \in Field /\ Xor(0, 0) = 0
  BY FieldFacts DEF FieldLaws
<1>5. ASSUME NEW r \in 1..n
      PROVE  Given(k, w, r, 0) = Xor(Given(k, w, r - 1, 0), f[r])
  <2> DEFINE p == XorSum(f, r - 1)
             q == XorSum(f, r)
             x == f[r]
  <2>1. r - 1 \in Nat /\ (r - 1) + 1 = r /\ \A j \in 1..(r - 1) : f[j] \in Field
    BY <1>1
  <2>2. q = Xor(p, x)
    BY <2>1, SumSteps
  <2>3. p \in Field /\ x \in Field
    <3>1. XorSum(f, r - 1) \in Field
      BY <2>1, SumIsWord
    <3> QED
      BY <1>1, <3>1
  <2>4. Given(k, w, r, 0) = Xor(q, 0) /\ Given(k, w, r - 1, 0) = Xor(p, 0)
    BY <1>2, <1>3
  <2> HIDE DEF p, q, x
  <2>5. Xor(p, x) \in Field /\ Xor(p, 0) = p
    BY <2>3, FieldFacts
  <2>6. q \in Field
    BY <2>2, <2>5
  <2>7. Xor(q, 0) = q
    BY <2>6, FieldFacts
  <2> QED
    BY <2>2, <2>4, <2>5, <2>7 DEF x
<1>6. ASSUME NEW a \in 1..m
      PROVE  Given(k, w, n, a) = Xor(Given(k, w, n, a - 1), g[a])
  <2> DEFINE s == XorSum(f, n)
             p == XorSum(g, a - 1)
             q == XorSum(g, a)
             x == g[a]
  <2>1. a - 1 \in Nat /\ (a - 1) + 1 = a /\ \A j \in 1..(a - 1) : g[j] \in Field
    BY <1>1
  <2>2. q = Xor(p, x)
    BY <2>1, SumSteps
  <2>3. s \in Field /\ p \in Field /\ x \in Field
    <3>1. XorSum(g, a - 1) \in Field /\ XorSum(f, n) \in Field
      BY <1>1, <2>1, SumIsWord
    <3> QED
      BY <1>1, <3>1
  <2>4. Given(k, w, n, a) = Xor(s, q) /\ Given(k, w, n, a - 1) = Xor(s, p)
    BY <1>2
  <2> HIDE DEF s, p, q, x
  <2>5. Xor(s, Xor(p, x)) = Xor(Xor(s, p), x)
    BY <2>3, FieldTriples
  <2> QED
    BY <2>2, <2>4, <2>5 DEF x
<1> QED
  BY <1>3, <1>4, <1>2, <1>5, <1>6 DEF f, g, Grows

\* Two pieces with the same words have the same bytes.
LEMMA BytesOfWords ==
  ASSUME FieldLaws, WordLaws, NEW s \in Seq(Byte), NEW t \in Seq(Byte),
         NEW at \in Nat, at % 2 = 0, NEW n \in Nat, n % 2 = 0, Len(s) = n, at + n <= Len(t),
         \A v \in 1..(n \div 2) : Word(s, v) = Word(t, (at \div 2) + v)
  PROVE  \A p \in 1..n : s[p] = t[at + p]
<1> TAKE p \in 1..n
<1> DEFINE v == (p + 1) \div 2
           w == (at \div 2) + v
<1>1. /\ v \in 1..(n \div 2) /\ v \in Nat \ {0} /\ w \in Nat \ {0}
      /\ 2 * w = at + 2 * v /\ (p = 2 * v \/ p = 2 * v - 1)
      /\ 2 * v <= n
  OBVIOUS
<1>2. Word(s, v) = Word(t, w)
  BY <1>1
<1> HIDE DEF v, w
<1>3. 2 * v <= Len(s) /\ 2 * w <= Len(t)
  BY <1>1
<1>4. LowByte(Word(s, v)) = s[2 * v - 1] /\ HighByte(Word(s, v)) = s[2 * v]
  BY <1>1, <1>3, WordIs
<1>5. LowByte(Word(t, w)) = t[2 * w - 1] /\ HighByte(Word(t, w)) = t[2 * w]
  BY <1>1, <1>3, WordIs
<1>6. s[2 * v - 1] = t[2 * w - 1] /\ s[2 * v] = t[2 * w]
  BY <1>2, <1>4, <1>5
<1>7. 2 * w = at + 2 * v /\ 2 * w - 1 = at + (2 * v - 1)
  BY <1>1
<1>8. CASE p = 2 * v
  BY <1>6, <1>7, <1>8
<1>9. CASE p = 2 * v - 1
  BY <1>6, <1>7, <1>9
<1> QED
  BY <1>1, <1>8, <1>9

\* The words of the outputs of a chunk.
HaveWords(outputs, at, n, r, a) ==
  \A k \in 1..Used0 : \A v \in 1..(n \div 2) :
    Word(outputs[k].out, v) = Given(k, (at \div 2) + v, r, a)

\* The outputs are what the slices read so far give, and what was written is true.
Decoded ==
  FilesComplete =>
    /\ pc # "exit" => offset % 2 = 0
    /\ pc = "recovery" => HaveWords(acc, offset, ChunkLen, turn - 1, 0)
    /\ pc = "inputs" =>
         /\ turn - 1 <= Len(plan.available)
         /\ HaveWords(acc, offset, ChunkLen, Used0, turn - 1)
    /\ \A k \in 1..Used0 : \A p \in 1..offset :
         written[k][p] = Truth(plan.missing[k])[p]

\* Chunks do not split words.
EvenChunk(at, n, size) ==
  /\ n \in Nat /\ n > 0 /\ n % 2 = 0 /\ at + n <= size /\ (at + n) % 2 = 0
  /\ \A v \in 1..(n \div 2) : (at \div 2) + v \in 1..(size \div 2)

LEMMA ChunkIsEven ==
  ASSUME job \in Jobs, plan = Plan(job), WholeWords(job), plan.chunk > 0,
         NEW at \in Nat, at < job.size, at % 2 = 0,
         NEW n, n = Smaller(plan.chunk, job.size - at)
  PROVE  EvenChunk(at, n, job.size)
<1> DEFINE size == job.size
           chunk == plan.chunk
<1>1. size \in Nat /\ chunk \in Nat /\ at < size /\ chunk > 0
  BY JobIs, ChunkIs
<1>2. size % 2 = 0 /\ chunk % 2 = 0
  <2>1. chunk = RepairChunkSize(job.size, job.memory)
    BY DEF Plan
  <2> QED
    BY <2>1 DEF WholeWords
<1>3. n = Smaller(chunk, size - at)
  OBVIOUS
<1> HIDE DEF size, chunk
<1>4. /\ n \in Nat /\ n > 0 /\ n % 2 = 0 /\ at + n <= size
  BY <1>1, <1>2, <1>3 DEF Smaller
<1>5. (at + n) % 2 = 0
  BY <1>4
<1>6. \A v \in 1..(n \div 2) : (at \div 2) + v \in 1..(size \div 2)
  BY <1>1, <1>2, <1>4
<1> QED
  BY <1>4, <1>5, <1>6 DEF size, EvenChunk

LEMMA EvenIs ==
  ASSUME Walked, pc \in {"recovery", "inputs"}, WholeWords(job), offset % 2 = 0
  PROVE  EvenChunk(offset, ChunkLen, job.size)
<1>1. job \in Jobs /\ plan = Plan(job) /\ offset \in Nat /\ offset < job.size /\ plan.chunk > 0
  BY DEF Walked
<1> DEFINE n == ChunkLen
<1>2. n = Smaller(plan.chunk, job.size - offset)
  BY DEF ChunkLen
<1> HIDE DEF n
<1>3. EvenChunk(offset, n, job.size)
  BY <1>1, <1>2, ChunkIsEven
<1> QED
  BY <1>3 DEF n

\* How a word of an output comes about.
LEMMA WordsGive ==
  ASSUME FieldLaws, WordLaws, CodesAreWords, Solvable, FilesComplete,
         NEW w \in 1..(job.size \div 2), NEW n, n = Used0, NEW m, m = Len(plan.available),
         NEW k \in 1..n
  PROVE  /\ Given(k, w, 0, 0) = 0
         /\ \A r \in 1..n :
              Given(k, w, r, 0) = Xor(Given(k, w, r - 1, 0),
                                      Product(plan.inverse[k][r], Word(plan.offered[r].data, w)))
         /\ \A a \in 1..m :
              Given(k, w, n, a) = Xor(Given(k, w, n, a - 1),
                                      Product(plan.combined[k][a], Word(Truth(plan.available[a]), w)))
         /\ Given(k, w, n, m) = Word(Truth(plan.missing[k]), w)
<1>1. /\ \A r \in 1..n : FromRecovery(k, w)[r] \in Field
      /\ \A a \in 1..m : FromInputs(k, w)[a] \in Field
      /\ Given(k, w, n, m) = Word(Truth(plan.missing[k]), w)
  BY AllGive
<1>2. n \in Nat /\ m \in Nat
  BY SomeIsUsed
<1>3. Grows(k, w, n, m)
  <2>1. HasWords(FromRecovery(k, w), n) /\ HasWords(FromInputs(k, w), m)
    BY <1>1 DEF HasWords
  <2> QED
    BY <1>2, <2>1, GivenGrows
<1>4. /\ \A r \in 1..n : FromRecovery(k, w)[r] = Product(plan.inverse[k][r], Word(plan.offered[r].data, w))
      /\ \A a \in 1..m : FromInputs(k, w)[a] = Product(plan.combined[k][a], Word(Truth(plan.available[a]), w))
  BY DEF FromRecovery, FromInputs
<1> QED
  BY <1>1, <1>3, <1>4 DEF Grows

\* A recovery slice that is read is added.
LEMMA RecoveryDecodes ==
  ASSUME FieldLaws, WordLaws, CodesAreWords, WholeWords(job), FilesComplete,
         Walked, Shaped, Decoded, ReadRecovery
  PROVE  HaveWords(acc', offset, ChunkLen, turn, 0)
<1> DEFINE data == FileBytes(plan.offered[turn].data, offset, ChunkLen)
<1>1. pc = "recovery" /\ Solvable /\ offset % 2 = 0 /\ HaveWords(acc, offset, ChunkLen, turn - 1, 0)
  BY DEF ReadRecovery, Walked, Solvable, Decoded
<1>2. data = FileBytes(plan.offered[turn].data, offset, ChunkLen)
  OBVIOUS
<1> HIDE DEF data
<1>3. /\ turn \in 1..Used0 /\ Used0 \in Nat \ {0} /\ ChunkLen \in Nat
      /\ data \in Seq(Byte) /\ Len(data) = ChunkLen
      /\ \A k \in 1..Used0 : Accumulates(acc'[k], acc[k], plan.inverse[k][turn], data)
  BY <1>2, RecoveryRead
<1>4. /\ IsExcerpt(data, Byte, plan.offered[turn].data, offset, ChunkLen)
      /\ offset + ChunkLen <= job.size /\ Len(plan.offered[turn].data) = job.size
  BY <1>1, <1>2, <1>3, RecoveryPart
<1>5. \A v \in 1..(ChunkLen \div 2) : (offset \div 2) + v \in 1..(job.size \div 2)
  BY <1>1, EvenIs DEF EvenChunk
<1>6. AreOutputs(acc, ChunkLen)
  BY <1>1 DEF Shaped
<1>7. ASSUME NEW k \in 1..Used0, NEW v \in 1..(ChunkLen \div 2)
      PROVE  Word(acc'[k].out, v) = Given(k, (offset \div 2) + v, turn, 0)
  <2> DEFINE w == (offset \div 2) + v
             s == plan.offered[turn].data
             len == ChunkLen
  <2>1. Word(data, v) = Word(s, w)
    <3>1. /\ len \in Nat /\ offset \in Nat /\ offset % 2 = 0 /\ offset + len <= Len(s) /\ Len(s) \in Nat
          /\ IsExcerpt(data, Byte, s, offset, len) /\ v \in 1..(len \div 2)
      <4>1. job \in Jobs /\ offset \in Nat
        BY DEF Walked
      <4>2. job.size \in Nat
        BY <4>1, JobIs
      <4> QED
        BY <1>1, <1>3, <1>4, <4>1, <4>2
    <3> HIDE DEF s, len, w
    <3>2. SameWords(data, s, offset, len)
      BY <3>1, WordOfExcerpt
    <3> QED
      BY <3>1, <3>2 DEF w, SameWords
  <2>2. Word(acc[k].out, v) = Given(k, w, turn - 1, 0)
    BY <1>1 DEF HaveWords
  <2>3. Word(acc'[k].out, v) = Xor(Word(acc[k].out, v), Product(plan.inverse[k][turn], Word(data, v)))
    <3>1. Len(acc[k].out) = ChunkLen /\ (acc[k].first => IsBlank(acc[k].out))
      BY <1>6 DEF AreOutputs, IsOutput
    <3>2. Accumulates(acc'[k], acc[k], plan.inverse[k][turn], data)
      BY <1>3
    <3>3. AddsWords(acc'[k].out, acc[k].out, plan.inverse[k][turn], data)
      BY <1>3, <3>1, <3>2 DEF Accumulates
    <3> QED
      BY <3>1, <3>3 DEF AddsWords
  <2> DEFINE n == Used0
             m == Len(plan.available)
  <2>4. n = Used0 /\ m = Len(plan.available) /\ k \in 1..n /\ w \in 1..(job.size \div 2) /\ turn \in 1..n
    BY <1>3, <1>5
  <2> HIDE DEF n, m, w, s
  <2>5. \A r \in 1..n : Given(k, w, r, 0)
          = Xor(Given(k, w, r - 1, 0), Product(plan.inverse[k][r], Word(plan.offered[r].data, w)))
    BY <1>1, <2>4, WordsGive
  <2>6. Given(k, w, turn, 0)
          = Xor(Given(k, w, turn - 1, 0), Product(plan.inverse[k][turn], Word(plan.offered[turn].data, w)))
    BY <2>4, <2>5
  <2> QED
    BY <2>1, <2>2, <2>3, <2>6 DEF s, w
<1> QED
  BY <1>7 DEF HaveWords

\* A present slice that is read is added.
LEMMA InputDecodes ==
  ASSUME FieldLaws, WordLaws, CodesAreWords, WholeWords(job), FilesComplete,
         Walked, Shaped, Decoded, ReadInput
  PROVE  HaveWords(acc', offset, ChunkLen, Used0, turn) /\ turn \in 1..Len(plan.available)
<1> DEFINE i == plan.available[turn]
           data == ReadChunk(cache, i, offset, ChunkLen, job.size, File(i)).data
<1>1. /\ pc = "inputs" /\ Solvable /\ offset % 2 = 0 /\ job \in Jobs /\ plan = Plan(job)
      /\ HaveWords(acc, offset, ChunkLen, Used0, turn - 1)
      /\ offset \in Nat /\ offset < job.size
  BY DEF ReadInput, Walked, Solvable, Decoded
<1>2. i = plan.available[turn] /\ data = ReadChunk(cache, i, offset, ChunkLen, job.size, File(i)).data
  OBVIOUS
<1> HIDE DEF i, data
<1>3. /\ turn \in 1..Len(plan.available) /\ Used0 \in Nat \ {0} /\ ChunkLen \in Nat
      /\ i \in 0..(Total - 1) /\ i \in Available(job)
      /\ IsPiece(data, File(i), offset, plan.chunk, job.size)
      /\ IsExcerpt(File(i), Byte, job.slices[i + 1], 0, job.there[i + 1])
      /\ \A k \in 1..Used0 : Accumulates(acc'[k], acc[k], plan.combined[k][turn], data)
  BY <1>2, InputAdds
<1>4. /\ ChunkLen % 2 = 0
      /\ \A v \in 1..(ChunkLen \div 2) : (offset \div 2) + v \in 1..(job.size \div 2)
  BY <1>1, EvenIs DEF EvenChunk
<1>5. AreOutputs(acc, ChunkLen) /\ \A k \in 1..Used0 : ~acc[k].first
  BY <1>1 DEF Shaped
<1>6. /\ Len(data) % 2 = 0
      /\ \A v \in 1..(ChunkLen \div 2) : Word(data, v) = Word(Truth(i), (offset \div 2) + v)
  <2> DEFINE file == File(i)
             whole == Truth(i)
             size == job.size
             chunk == plan.chunk
             count == ChunkLen
             s == job.slices[i + 1]
  <2>1. i + 1 \in 1..Total
    BY <1>1, <1>3, JobIs
  <2>2. i \notin job.missing
    BY <1>3 DEF Available
  <2>3. job.there[i + 1] = Len(s)
    BY <1>3, <2>2 DEF FilesComplete
  <2>4. s \in Seq(Byte) /\ Len(s) \in 1..size /\ size \in Nat /\ chunk \in Nat
    BY <1>1, <2>1, JobIs, ChunkIs
  <2>5. job.there[i + 1] % 2 = 0 \/ job.there[i + 1] <= chunk
    <3>1. i + 1 \in DOMAIN job.slices
      BY <1>1, <2>1, JobIs
    <3>2. chunk = RepairChunkSize(job.size, job.memory)
      BY <1>1 DEF Plan
    <3> QED
      BY <3>1, <3>2 DEF WholeWords
  <2>6. file \in Seq(Byte) /\ Len(file) = Len(s) /\ \A p \in 1..Len(s) : file[p] = s[p]
    <3>1. IsExcerpt(file, Byte, s, 0, Len(s))
      BY <1>3, <2>3
    <3> HIDE DEF file, s
    <3>2. file \in Seq(Byte) /\ Len(file) = Len(s) /\ \A p \in 1..Len(s) : file[p] = s[0 + p]
      BY <3>1 DEF IsExcerpt
    <3>3. \A p \in 1..Len(s) : 0 + p = p
      BY <2>4 DEF s
    <3> QED
      BY <3>2, <3>3
  <2>7. IsPadded(whole, Byte, s, size)
    BY <1>1, <1>3, TruthIs
  <2>8. count = Smaller(chunk, size - offset) /\ offset <= size
    BY <1>1, <2>4 DEF ChunkLen
  <2>9. IsPiece(data, file, offset, chunk, size) /\ offset \in Nat /\ offset % 2 = 0 /\ count % 2 = 0
    BY <1>1, <1>3, <1>4
  <2>10. Len(file) % 2 = 0 \/ Len(file) <= chunk
    BY <2>3, <2>5, <2>6
  <2> HIDE DEF file, whole, size, chunk, count, s
  <2>11. IsPadded(whole, Byte, file, size)
    <3>1. /\ whole \in Seq(Byte) /\ Len(whole) = size
          /\ \A p \in 1..size : whole[p] = IF p <= Len(s) THEN s[p] ELSE 0
      BY <2>7 DEF IsPadded
    <3>2. \A p \in 1..size : whole[p] = IF p <= Len(file) THEN file[p] ELSE 0
      BY <2>4, <2>6, <3>1
    <3> QED
      BY <3>1, <3>2 DEF IsPadded
  <2>12. Len(file) <= size
    BY <2>4, <2>6
  <2>13. offset <= size /\ WordLaws /\ file \in Seq(Byte)
    BY <2>6, <2>8
  <2> DEFINE rest == size - offset
  <2>14. rest = size - offset /\ count = Smaller(chunk, rest)
    BY <2>8
  <2> HIDE DEF rest
  <2>15. HasWholeWords(data, whole, offset, count)
    BY <2>4, <2>9, <2>10, <2>11, <2>12, <2>13, <2>14, WordOfPiece
  <2> QED
    BY <2>15 DEF count, whole, SameWords, HasWholeWords
<1>7. ASSUME NEW k \in 1..Used0, NEW v \in 1..(ChunkLen \div 2)
      PROVE  Word(acc'[k].out, v) = Given(k, (offset \div 2) + v, Used0, turn)
  <2> DEFINE w == (offset \div 2) + v
  <2>1. Word(data, v) = Word(Truth(i), w)
    BY <1>6
  <2>2. Word(acc[k].out, v) = Given(k, w, Used0, turn - 1)
    BY <1>1 DEF HaveWords
  <2>3. Word(acc'[k].out, v) = Xor(Word(acc[k].out, v), Product(plan.combined[k][turn], Word(data, v)))
    <3>1. Len(acc[k].out) = ChunkLen /\ ~acc[k].first
      BY <1>5 DEF AreOutputs, IsOutput
    <3>2. Accumulates(acc'[k], acc[k], plan.combined[k][turn], data)
      BY <1>3
    <3>3. AddsWords(acc'[k].out, acc[k].out, plan.combined[k][turn], data)
      BY <1>6, <3>1, <3>2 DEF Accumulates
    <3> QED
      BY <3>1, <3>3 DEF AddsWords
  <2> DEFINE n == Used0
             m == Len(plan.available)
  <2>4. n = Used0 /\ m = Len(plan.available) /\ k \in 1..n /\ w \in 1..(job.size \div 2) /\ turn \in 1..m
    BY <1>3, <1>4
  <2> HIDE DEF n, m, w
  <2>5. \A a \in 1..m : Given(k, w, n, a)
          = Xor(Given(k, w, n, a - 1), Product(plan.combined[k][a], Word(Truth(plan.available[a]), w)))
    BY <1>1, <2>4, WordsGive
  <2>6. Given(k, w, n, turn)
          = Xor(Given(k, w, n, turn - 1), Product(plan.combined[k][turn], Word(Truth(plan.available[turn]), w)))
    BY <2>4, <2>5
  <2> QED
    BY <1>2, <2>1, <2>2, <2>3, <2>4, <2>6 DEF w
<1> QED
  BY <1>3, <1>7 DEF HaveWords

\* What is written is true.
LEMMA ChunkIsTrue ==
  ASSUME FieldLaws, WordLaws, CodesAreWords, WholeWords(job), FilesComplete,
         Walked, Shaped, Decoded, WriteChunk
  PROVE  \A k \in 1..Used0 : \A p \in 1..ChunkLen :
           acc[k].out[p] = Truth(plan.missing[k])[offset + p]
<1>1. /\ pc = "inputs" /\ Solvable /\ offset % 2 = 0 /\ job \in Jobs /\ plan = Plan(job)
      /\ turn - 1 <= Len(plan.available) /\ turn > Len(plan.available) /\ turn \in Nat
      /\ HaveWords(acc, offset, ChunkLen, Used0, turn - 1)
      /\ offset \in Nat /\ offset < job.size
  BY DEF WriteChunk, Walked, Solvable, Decoded
<1>2. turn - 1 = Len(plan.available)
  BY <1>1, AvailableAre
<1>3. /\ ChunkLen \in Nat /\ ChunkLen % 2 = 0 /\ offset + ChunkLen <= job.size
      /\ \A v \in 1..(ChunkLen \div 2) : (offset \div 2) + v \in 1..(job.size \div 2)
  BY <1>1, EvenIs DEF EvenChunk
<1>4. AreOutputs(acc, ChunkLen)
  BY <1>1 DEF Shaped
<1>5. ASSUME NEW k \in 1..Used0
      PROVE  \A p \in 1..ChunkLen : acc[k].out[p] = Truth(plan.missing[k])[offset + p]
  <2> DEFINE s == acc[k].out
             t == Truth(plan.missing[k])
             len == ChunkLen
  <2>1. s \in Seq(Byte) /\ Len(s) = len
    BY <1>4 DEF AreOutputs, IsOutput
  <2>2. t \in Seq(Byte) /\ Len(t) = job.size
    <3>1. plan.missing[k] \in 0..(Total - 1)
      BY <1>1, MissingIs, JobIs DEF Used0
    <3> QED
      BY <1>1, <3>1, TruthIs
  <2>3. ASSUME NEW v \in 1..(len \div 2)
        PROVE  Word(s, v) = Word(t, (offset \div 2) + v)
    <3> DEFINE w == (offset \div 2) + v
               n == Used0
               m == Len(plan.available)
    <3>1. Word(s, v) = Given(k, w, n, m)
      BY <1>1, <1>2 DEF HaveWords
    <3>2. n = Used0 /\ m = Len(plan.available) /\ k \in 1..n /\ w \in 1..(job.size \div 2)
      BY <1>3
    <3> HIDE DEF n, m, w
    <3>3. Given(k, w, n, m) = Word(Truth(plan.missing[k]), w)
      BY <1>1, <3>2, WordsGive
    <3> QED
      BY <3>1, <3>3 DEF w
  <2>4. len \in Nat /\ len % 2 = 0 /\ offset + len <= Len(t) /\ offset \in Nat /\ offset % 2 = 0
    BY <1>1, <1>3, <2>2
  <2> HIDE DEF s, t, len
  <2>5. \A p \in 1..len : s[p] = t[offset + p]
    BY <2>1, <2>2, <2>3, <2>4, BytesOfWords
  <2> QED
    BY <2>5 DEF s, t, len
<1> QED
  BY <1>5

LEMMA StaysDecoded ==
  FieldLaws /\ WordLaws /\ CodesAreWords /\ (\A j \in Jobs : WholeWords(j))
    => (Spec => []Decoded)
<1> SUFFICES ASSUME FieldLaws, WordLaws, CodesAreWords, \A j \in Jobs : WholeWords(j)
             PROVE  Spec => []Decoded
  OBVIOUS
<1>1. Init => Decoded
  BY DEF Init, Decoded
<1>2. Walked /\ Walked' /\ Shaped /\ Shaped' /\ Decoded /\ [Next]_vars => Decoded'
  <2> SUFFICES ASSUME Walked, Walked', Shaped, Shaped', Decoded, [Next]_vars, FilesComplete'
               PROVE  /\ pc' # "exit" => offset' % 2 = 0
                      /\ pc' = "recovery" => HaveWords(acc, offset, ChunkLen, turn - 1, 0)'
                      /\ pc' = "inputs" =>
                           /\ turn' - 1 <= Len(plan'.available)
                           /\ HaveWords(acc, offset, ChunkLen, Used0, turn - 1)'
                      /\ \A k \in 1..Used0' : \A p \in 1..offset' :
                           written'[k][p] = Truth(plan.missing[k])'[p]
    <3> SUFFICES ASSUME Walked, Walked', Shaped, Shaped', Decoded, [Next]_vars PROVE Decoded'
      OBVIOUS
    <3> QED
      BY DEF Decoded
  <2>1. job' = job /\ plan' = plan /\ job \in Jobs /\ plan = Plan(job) /\ WholeWords(job)
    BY DEF Walked, Next, Step, Start, ReadRecovery, ReadInput, ReadFails, WriteChunk, vars
  <2>2. FilesComplete
    BY <2>1 DEF FilesComplete, Total
  <2>3. Used0' = Used0 /\ \A k : Truth(plan.missing[k])' = Truth(plan.missing[k])
    BY <2>1 DEF Used0, Truth
  <2>4. \A k, w, r, a : Given(k, w, r, a)' = Given(k, w, r, a)
    BY <2>1, <2>3 DEF Given, FromRecovery, FromInputs, Used0, Truth
  <2>5. /\ pc # "exit" => offset % 2 = 0
        /\ \A k \in 1..Used0 : \A p \in 1..offset : written[k][p] = Truth(plan.missing[k])[p]
    BY <2>2 DEF Decoded
  <2>6. CASE Start
    <3>1. pc = "start" /\ offset' = offset /\ turn' = turn /\ written' = written /\ turn = 1 /\ offset = 0
      BY <2>6 DEF Start, Walked
    <3>2. pc' \in {"exit", "recovery"}
      BY <2>6 DEF Start, Stop
    <3>3. ASSUME pc' = "recovery" PROVE HaveWords(acc, offset, ChunkLen, turn - 1, 0)'
      <4>1. BeginChunk(ChunkLen)
        BY <2>6, <3>3 DEF Start, Stop
      <4>2. Solvable
        <5>1. Solvable'
          BY <3>3 DEF Walked, Solvable
        <5> QED
          BY <2>1, <5>1 DEF Solvable
      <4>3. ChunkLen' = ChunkLen /\ turn' - 1 = 0
        BY <2>1, <3>1 DEF ChunkLen
      <4>4. /\ ChunkLen \in Nat
            /\ \A v \in 1..(ChunkLen \div 2) : (offset \div 2) + v \in 1..(job.size \div 2)
        <5> DEFINE n == ChunkLen
        <5>1. offset \in Nat /\ offset < job.size /\ plan.chunk > 0 /\ offset % 2 = 0
          BY <2>1, <2>5, <3>1, <3>3 DEF Walked
        <5>2. n = Smaller(plan.chunk, job.size - offset)
          BY DEF ChunkLen
        <5> HIDE DEF n
        <5>3. EvenChunk(offset, n, job.size)
          BY <2>1, <5>1, <5>2, ChunkIsEven
        <5> QED
          BY <5>3 DEF n, EvenChunk
      <4>5. \A k \in 1..Used0 : \A v \in 1..(ChunkLen \div 2) : Word(acc'[k].out, v) = 0
        BY <4>1, <4>2, <4>4, BegunIs
      <4>6. ASSUME NEW k \in 1..Used0, NEW v \in 1..(ChunkLen \div 2)
            PROVE  Given(k, (offset \div 2) + v, 0, 0) = 0
        <5> DEFINE w == (offset \div 2) + v
                   n == Used0
                   m == Len(plan.available)
        <5>1. n = Used0 /\ m = Len(plan.available) /\ k \in 1..n /\ w \in 1..(job.size \div 2)
          BY <4>4
        <5> HIDE DEF n, m, w
        <5>2. Given(k, w, 0, 0) = 0
          BY <2>2, <4>2, <5>1, WordsGive
        <5> QED
          BY <5>2 DEF w
      <4> QED
        BY <2>3, <2>4, <3>1, <4>3, <4>5, <4>6 DEF HaveWords
    <3> QED
      BY <2>3, <2>5, <3>1, <3>2, <3>3
  <2>7. CASE ReadRecovery
    <3>1. /\ pc = "recovery" /\ offset' = offset /\ written' = written
          /\ IF turn = Used0 THEN turn' = 1 /\ pc' = "inputs" ELSE turn' = turn + 1 /\ pc' = pc
      BY <2>7 DEF ReadRecovery
    <3>2. ChunkLen' = ChunkLen
      BY <2>1, <3>1 DEF ChunkLen
    <3>3. HaveWords(acc', offset, ChunkLen, turn, 0)
      BY <2>1, <2>2, <2>7, RecoveryDecodes
    <3>4. turn \in Nat /\ Len(plan.available) \in Nat
      BY <2>1, AvailableAre DEF Walked
    <3>5. CASE turn = Used0
      <4>1. pc' = "inputs" /\ turn' = 1 /\ turn' - 1 = 0
        BY <3>1, <3>5
      <4>2. HaveWords(acc, offset, ChunkLen, Used0, turn - 1)'
        BY <2>3, <2>4, <3>1, <3>2, <3>3, <3>5, <4>1 DEF HaveWords
      <4> QED
        BY <2>1, <2>3, <2>5, <3>1, <3>4, <4>1, <4>2
    <3>6. CASE turn # Used0
      <4>1. pc' = "recovery" /\ turn' - 1 = turn
        BY <3>1, <3>4, <3>6
      <4>2. HaveWords(acc, offset, ChunkLen, turn - 1, 0)'
        BY <2>3, <2>4, <3>1, <3>2, <3>3, <4>1 DEF HaveWords
      <4> QED
        BY <2>1, <2>3, <2>5, <3>1, <4>1, <4>2
    <3> QED
      BY <3>5, <3>6
  <2>8. CASE ReadInput
    <3>1. /\ pc = "inputs" /\ pc' = pc /\ offset' = offset /\ written' = written /\ turn' = turn + 1
      BY <2>8 DEF ReadInput
    <3>2. ChunkLen' = ChunkLen
      BY <2>1, <3>1 DEF ChunkLen
    <3>3. HaveWords(acc', offset, ChunkLen, Used0, turn) /\ turn \in 1..Len(plan.available)
      BY <2>1, <2>2, <2>8, InputDecodes
    <3>4. turn' - 1 = turn /\ turn <= Len(plan.available)
      BY <3>1, <3>3
    <3>5. HaveWords(acc, offset, ChunkLen, Used0, turn - 1)'
      BY <2>3, <2>4, <3>1, <3>2, <3>3, <3>4 DEF HaveWords
    <3> QED
      BY <2>1, <2>3, <2>5, <3>1, <3>4, <3>5
  <2>9. CASE ReadFails
    <3>1. pc' = "exit" /\ offset' = offset /\ written' = written
      BY <2>9 DEF ReadFails, Stop
    <3> QED
      BY <2>3, <2>5, <3>1
  <2>10. CASE WriteChunk
    <3>1. pc = "inputs" /\ Solvable /\ offset % 2 = 0 /\ offset \in Nat
      BY <2>5, <2>10 DEF WriteChunk, Walked, Solvable
    <3>2. /\ ChunkLen \in Nat /\ offset' = offset + ChunkLen
          /\ \A k \in 1..Used0 : \A p \in 1..offset' :
               written'[k][p] = IF p <= offset THEN written[k][p] ELSE acc[k].out[p - offset]
      BY <2>10, ChunkWritten
    <3>3. \A k \in 1..Used0 : \A p \in 1..ChunkLen :
            acc[k].out[p] = Truth(plan.missing[k])[offset + p]
      BY <2>1, <2>2, <2>10, ChunkIsTrue
    <3>4. ASSUME NEW k \in 1..Used0, NEW p \in 1..offset'
          PROVE  written'[k][p] = Truth(plan.missing[k])[p]
      <4> DEFINE t == Truth(plan.missing[k])
      <4> HIDE DEF t
      <4>1. CASE p <= offset
        <5>1. p \in 1..offset
          BY <3>1, <3>2, <4>1
        <5> QED
          BY <2>5, <3>2, <4>1, <5>1
      <4>2. CASE ~(p <= offset)
        <5> DEFINE q == p - offset
        <5>1. q \in 1..ChunkLen /\ offset + q = p
          BY <3>1, <3>2, <4>2
        <5>2. written'[k][p] = acc[k].out[q]
          BY <3>2, <4>2
        <5> HIDE DEF q
        <5>3. acc[k].out[q] = Truth(plan.missing[k])[offset + q]
          BY <3>3, <5>1
        <5> QED
          BY <5>1, <5>2, <5>3
      <4> QED
        BY <4>1, <4>2
    <3>5. offset' % 2 = 0
      BY <2>1, <3>1, <3>2, EvenIs DEF EvenChunk
    <3>6. pc' \in {"exit", "recovery"}
      BY <2>10, ChunkWritten
    <3>7. ASSUME pc' = "recovery" PROVE HaveWords(acc, offset, ChunkLen, turn - 1, 0)'
      <4>1. offset' < job.size
        BY <2>10, <3>7, ChunkWritten
      <4>2. /\ turn' = 1 /\ ChunkLen' \in Nat
            /\ \A k \in 1..Used0 : \A v \in 1..(ChunkLen' \div 2) : Word(acc'[k].out, v) = 0
        BY <2>10, <4>1, ChunkWritten
      <4>3. turn' - 1 = 0
        BY <4>2
      <4>4. \A v \in 1..(ChunkLen' \div 2) : (offset' \div 2) + v \in 1..(job.size \div 2)
        <5> DEFINE n == ChunkLen'
                   at == offset'
        <5>1. at \in Nat /\ at < job.size /\ plan.chunk > 0 /\ at % 2 = 0
          BY <2>1, <3>1, <3>2, <3>5, <4>1 DEF Walked
        <5>2. n = Smaller(plan.chunk, job.size - at)
          BY <2>1 DEF ChunkLen
        <5> HIDE DEF n, at
        <5>3. EvenChunk(at, n, job.size)
          BY <2>1, <5>1, <5>2, ChunkIsEven
        <5> QED
          BY <5>3 DEF n, at, EvenChunk
      <4>5. ASSUME NEW k \in 1..Used0, NEW v \in 1..(ChunkLen' \div 2)
            PROVE  Given(k, (offset' \div 2) + v, 0, 0) = 0
        <5> DEFINE w == (offset' \div 2) + v
                   n == Used0
                   m == Len(plan.available)
        <5>1. n = Used0 /\ m = Len(plan.available) /\ k \in 1..n /\ w \in 1..(job.size \div 2)
          BY <4>4
        <5> HIDE DEF n, m, w
        <5>2. Given(k, w, 0, 0) = 0
          BY <2>2, <3>1, <5>1, WordsGive
        <5> QED
          BY <5>2 DEF w
      <4> QED
        BY <2>3, <2>4, <4>2, <4>3, <4>5 DEF HaveWords
    <3> QED
      BY <2>3, <3>4, <3>5, <3>6, <3>7
  <2>11. CASE UNCHANGED vars
    <3>1. /\ pc' = pc /\ offset' = offset /\ turn' = turn /\ acc' = acc /\ written' = written
      BY <2>11 DEF vars
    <3>2. ChunkLen' = ChunkLen
      BY <2>1, <3>1 DEF ChunkLen
    <3>3. /\ pc = "recovery" => HaveWords(acc, offset, ChunkLen, turn - 1, 0)
          /\ pc = "inputs" => /\ turn - 1 <= Len(plan.available)
                              /\ HaveWords(acc, offset, ChunkLen, Used0, turn - 1)
      BY <2>2 DEF Decoded
    <3>4. /\ pc' = "recovery" => HaveWords(acc, offset, ChunkLen, turn - 1, 0)'
          /\ pc' = "inputs" => HaveWords(acc, offset, ChunkLen, Used0, turn - 1)'
      BY <2>3, <2>4, <3>1, <3>2, <3>3 DEF HaveWords
    <3> QED
      BY <2>1, <2>3, <2>5, <3>1, <3>3, <3>4
  <2> QED
    BY <2>6, <2>7, <2>8, <2>9, <2>10, <2>11 DEF Next, Step
<1>3. FieldLaws /\ WordLaws /\ CodesAreWords => (Spec => []Shaped)
  BY StaysShaped
<1> QED
  BY <1>1, <1>2, <1>3, StaysWalked, PTL DEF Spec

\* What is written is the data that was coded, from the first chunk on and to the
\* end when success is reported, as long as no slice is read in parts that split a
\* word: whichever slices are missing, whichever recovery slices are at hand and in
\* whatever order, however small the chunks and the cache, by whatever kernel and
\* whichever encoder coded the set (reconstruct_missing_slices_chunked).
THEOREM ReconstructionIsTrue ==
  FieldLaws /\ WordLaws /\ CodesAreWords /\ (\A j \in Jobs : WholeWords(j))
    => (Spec => []OutputsAreTrue)
<1> SUFFICES ASSUME FieldLaws, WordLaws, CodesAreWords, \A j \in Jobs : WholeWords(j)
             PROVE  Spec => []OutputsAreTrue
  OBVIOUS
<1>1. Walked /\ Shaped /\ Decoded => OutputsAreTrue
  <2> SUFFICES ASSUME Walked, Shaped, Decoded, FilesComplete, NEW k \in DOMAIN plan.missing
               PROVE  /\ IsPrefix(written[k], Truth(plan.missing[k]))
                      /\ outcome = "success" => written[k] = Truth(plan.missing[k])
    BY DEF OutputsAreTrue
  <2>1. job \in Jobs /\ plan = Plan(job) /\ offset \in Nat /\ offset <= job.size
    BY DEF Walked, Shaped
  <2>2. k \in 1..Used0 /\ plan.missing[k] \in 0..(Total - 1) /\ job.size \in Nat
    BY <2>1, MissingIs, JobIs DEF Used0
  <2> DEFINE s == written[k]
             t == Truth(plan.missing[k])
  <2>3. s \in Seq(Byte) /\ Len(s) = offset /\ \A p \in 1..offset : s[p] = t[p]
    BY <2>2 DEF Shaped, Decoded
  <2>4. t \in Seq(Byte) /\ Len(t) = job.size
    BY <2>1, <2>2, TruthIs
  <2>5. outcome = "success" => offset = job.size
    <3>1. plan.missing # <<>>
      BY <2>1, <2>2, MissingIs DEF Used0
    <3> QED
      BY <3>1 DEF Shaped
  <2> HIDE DEF s, t
  <2>6. IsPrefix(s, t)
    BY <2>1, <2>3, <2>4, PrefixOf
  <2>7. outcome = "success" => s = t
    BY <2>3, <2>4, <2>5
  <2> QED
    BY <2>6, <2>7 DEF s, t
<1>2. FieldLaws /\ WordLaws /\ CodesAreWords => (Spec => []Shaped)
  BY StaysShaped
<1>3. FieldLaws /\ WordLaws /\ CodesAreWords /\ (\A j \in Jobs : WholeWords(j)) => (Spec => []Decoded)
  BY StaysDecoded
<1> QED
  BY <1>1, <1>2, <1>3, StaysWalked, PTL
=============================================================================
