------------------------------ MODULE Par1Proofs ------------------------------
(***************************************************************************)
(* Theorems about the PAR1 commands, for any files, disks, extra files,    *)
(* recovery files, memory limits and numbers of failures, kills and reruns. *)
(*                                                                         *)
(* PlaceInv and MatchInv say what the command works on; SavedInv, that at  *)
(* each step no more contents are lost than recovery files are left.  It   *)
(* rests on the engine: as many slices as are rebuilt need as many recovery *)
(* files of different exponents, since equal rows make a singular matrix.  *)
(***************************************************************************)
EXTENDS Par1Properties, ReedSolomonProofs

-----------------------------------------------------------------------------
(* Equal rows *)

\* Among the rows that have not been a pivot row two are equal, or one is zero.
Dependent(R, n, k) ==
  \/ \E i, j \in (k + 1)..n : i # j /\ \A c \in 1..n : R[i][c] = R[j][c]
  \/ \E z \in (k + 1)..n : \A c \in 1..n : R[z][c] = 0

\* Two equal rows stay equal, unless one of them is the pivot row and the other
\* becomes zero; a zero row is none and stays zero.
LEMMA DependentStays ==
  ASSUME FieldLaws, NEW n \in Nat \ {0}, NEW m \in Nat, n <= m, NEW col \in 1..n,
         NEW R, AreRows(R, n, m), Dependent(R, n, col - 1),
         NEW E, E = EliminateColumn(R, col), E # Singular
  PROVE  AreRows(E, n, m) /\ Dependent(E, n, col)
<1>1. PICK p, S, pivot : IsColumnStep(R, S, E, pivot, n, m, col, p)
  BY ColumnStep
<1> DEFINE at(r) == IF r = p THEN col ELSE IF r = col THEN p ELSE r
<1>2. /\ p \in col..n /\ R[p][col] # 0 /\ AreRows(E, n, m)
      /\ \A c \in 1..n : pivot[c] = Product(R[p][c], Quotient(1, R[p][col]))
                         /\ pivot[c] \in Field
      /\ \A r \in (1..n) \ {col} : \A c \in 1..n :
           E[r][c] = Xor(S[r][c], Product(S[r][col], pivot[c]))
      /\ \A r \in 1..n :
           S[r] = IF r = col THEN R[p] ELSE IF r = p THEN R[col] ELSE R[r]
  BY <1>1 DEF IsColumnStep
<1>3. ASSUME NEW r \in col..n, r # p
      PROVE  at(r) \in (col + 1)..n /\ S[at(r)] = R[r]
  BY <1>2, <1>3
<1>4. ASSUME NEW r \in col..n, r # p, NEW c \in 1..n
      PROVE  E[at(r)][c] = Xor(R[r][c], Product(R[r][col], pivot[c]))
  <2>1. at(r) \in (1..n) \ {col} /\ S[at(r)] = R[r]
    BY <1>3, <1>4
  <2> HIDE DEF at
  <2> QED
    BY <2>1, <1>2
<1>5. ASSUME NEW z \in col..n, \A c \in 1..n : R[z][c] = 0
      PROVE  Dependent(E, n, col)
  <2>1. z # p
    BY <1>2, <1>5
  <2>2. ASSUME NEW c \in 1..n PROVE E[at(z)][c] = 0
    <3>1. E[at(z)][c] = Xor(0, Product(0, pivot[c]))
      BY <2>1, <1>4, <1>5
    <3>2. pivot[c] \in Field
      BY <1>2
    <3>3. Product(0, pivot[c]) = 0 /\ 0 \in Field
      BY <3>2, FieldFacts
    <3>4. Xor(0, 0) = 0
      BY <3>3, FieldFacts
    <3> QED
      BY <3>1, <3>3, <3>4
  <2>3. at(z) \in (col + 1)..n
    BY <2>1, <1>3
  <2> HIDE DEF at
  <2> QED
    BY <2>2, <2>3 DEF Dependent
<1>6. ASSUME NEW j \in col..n, j # p, \A c \in 1..n : R[p][c] = R[j][c]
      PROVE  Dependent(E, n, col)
  <2>1. ASSUME NEW c \in 1..n PROVE E[at(j)][c] = 0
    <3>1. E[at(j)][c] = Xor(R[p][c], Product(R[p][col], Product(R[p][c], Quotient(1, R[p][col]))))
      BY <1>2, <1>4, <1>6
    <3>2. R[p][c] \in Field /\ R[p][col] \in Field
      BY <1>2 DEF AreRows
    <3>3. Product(R[p][col], Product(R[p][c], Quotient(1, R[p][col]))) = R[p][c]
      BY <3>2, <1>2, TimesQuotient
    <3>4. Xor(R[p][c], R[p][c]) = 0
      BY <3>2, FieldFacts
    <3> QED
      BY <3>1, <3>3, <3>4
  <2>2. at(j) \in (col + 1)..n
    BY <1>3, <1>6
  <2> HIDE DEF at
  <2> QED
    BY <2>1, <2>2 DEF Dependent
<1>7. ASSUME NEW i \in col..n, NEW j \in col..n, i # j, i # p, j # p,
             \A c \in 1..n : R[i][c] = R[j][c]
      PROVE  Dependent(E, n, col)
  <2>1. ASSUME NEW c \in 1..n PROVE E[at(i)][c] = E[at(j)][c]
    <3>1. /\ E[at(i)][c] = Xor(R[i][c], Product(R[i][col], pivot[c]))
          /\ E[at(j)][c] = Xor(R[j][c], Product(R[j][col], pivot[c]))
      BY <1>4, <1>7
    <3> QED
      BY <3>1, <1>7
  <2>2. at(i) \in (col + 1)..n /\ at(j) \in (col + 1)..n /\ at(i) # at(j)
    BY <1>3, <1>7
  <2> HIDE DEF at
  <2> QED
    BY <2>1, <2>2 DEF Dependent
<1>8. (col - 1) + 1 = col
  OBVIOUS
<1>9. Dependent(E, n, col)
  <2>1. CASE \E z \in col..n : \A c \in 1..n : R[z][c] = 0
    BY <2>1, <1>5
  <2>2. CASE \E i, j \in col..n : i # j /\ \A c \in 1..n : R[i][c] = R[j][c]
    <3>1. PICK i \in col..n, j \in col..n : i # j /\ \A c \in 1..n : R[i][c] = R[j][c]
      BY <2>2
    <3>2. CASE i = p
      BY <3>1, <3>2, <1>6
    <3>3. CASE j = p
      BY <3>1, <3>3, <1>6
    <3> QED
      BY <3>1, <3>2, <3>3, <1>7
  <2> QED
    BY <2>1, <2>2, <1>8 DEF Dependent
<1> QED
  BY <1>2, <1>9

\* A matrix with equal rows cannot be inverted.
LEMMA EqualRowsAreSingular ==
  ASSUME FieldLaws, NEW n \in Nat \ {0}, NEW matrix \in [1..n -> [1..n -> Field]],
         NEW i \in 1..n, NEW j \in 1..n, i # j, matrix[i] = matrix[j]
  PROVE  Invert(matrix) = Singular
<1> DEFINE Identity(r) == [c \in 1..n |-> IF c = r THEN 1 ELSE 0]
           rows == [r \in 1..n |-> matrix[r] \o Identity(r)]
<1>1. Len(matrix) = n
  OBVIOUS
<1>2. Invert(matrix) = Singular \/ Eliminate(rows) # Singular
  BY <1>1 DEF Invert
<1>16. rows = Augmented(matrix, n)
  BY DEF Augmented
<1> HIDE DEF rows
<1>3. /\ AreRows(rows, n, 2 * n) /\ Len(rows) = n
      /\ \A r, c \in 1..n : rows[r][c] = matrix[r][c]
  <2>1. IsAugmented(rows, matrix, n)
    BY <1>16, AugmentedIs
  <2> QED
    BY <2>1 DEF IsAugmented
<1>4. AreRows(rows, n, 2 * n)
  BY <1>3
<1>5. Dependent(rows, n, 0)
  <2>1. \A c \in 1..n : rows[i][c] = rows[j][c]
    BY <1>3
  <2>2. i \in (0 + 1)..n /\ j \in (0 + 1)..n
    OBVIOUS
  <2> QED
    BY <2>1, <2>2 DEF Dependent
<1>6. Len(rows) = n
  BY <1>3
<1>7. PICK f : AreAfter(f, rows, n) /\ Eliminate(rows) = f[n]
  BY <1>6, EliminateIs
<1>8. \A col \in 0..n :
        f[col] = IF col = 0 THEN rows ELSE EliminateColumn(f[col - 1], col)
  BY <1>7 DEF AreAfter
<1> DEFINE Still(k) == f[k] = Singular \/ (AreRows(f[k], n, 2 * n) /\ Dependent(f[k], n, k))
           T == {k \in Nat : k <= n => Still(k)}
<1>9. 0 \in T
  BY <1>4, <1>5, <1>8
<1>10. ASSUME NEW k \in Nat, k \in T PROVE k + 1 \in T
  <2> SUFFICES ASSUME k + 1 <= n PROVE Still(k + 1)
    OBVIOUS
  <2>1. f[k + 1] = EliminateColumn(f[k], k + 1)
    BY <1>8
  <2>2. CASE f[k] = Singular
    BY <2>1, <2>2 DEF EliminateColumn
  <2>3. CASE f[k] # Singular /\ EliminateColumn(f[k], k + 1) = Singular
    BY <2>1, <2>3
  <2>4. CASE f[k] # Singular /\ EliminateColumn(f[k], k + 1) # Singular
    <3>1. AreRows(f[k], n, 2 * n) /\ Dependent(f[k], n, (k + 1) - 1) /\ k + 1 \in 1..n
      BY <1>10, <2>4
    <3>2. /\ AreRows(EliminateColumn(f[k], k + 1), n, 2 * n)
          /\ Dependent(EliminateColumn(f[k], k + 1), n, k + 1)
      BY <3>1, <2>4, DependentStays
    <3> QED
      BY <3>2, <2>1
  <2> QED
    BY <2>2, <2>3, <2>4
<1>11. n \in T
  <2> HIDE DEF T
  <2>1. Nat \subseteq T
    BY <1>9, <1>10, EveryNumber
  <2> QED
    BY <2>1
<1>12. ~Dependent(f[n], n, n)
  BY DEF Dependent
<1> QED
  BY <1>2, <1>7, <1>11, <1>12

-----------------------------------------------------------------------------
(* What is rebuilt *)

\* The number of files and their lengths.
LEMMA JobFacts ==
  ASSUME job \in Jobs
  PROVE  /\ \E n \in Nat \ {0} : Entry = 1..n
         /\ IsFiniteSet(Entry) /\ Entry \in SUBSET Nat /\ Entry # {}
         /\ \A f \in Entry : Truth(f) \in Seq(Byte)
         /\ \E n \in Nat : DOMAIN job.files = 1..n
         /\ IsFiniteSet(DOMAIN job.files) /\ DOMAIN job.files \in SUBSET Nat
<1>1. job.data \in Seq(Seq(Byte)) /\ job.data # <<>>
  BY JobsAssumption
<1>2. Len(job.data) \in Nat \ {0} /\ DOMAIN job.data = 1..Len(job.data)
  BY <1>1
<1>3. DOMAIN job.files = 1..Len(job.files) /\ Len(job.files) \in Nat
  BY JobsAssumption
<1>4. ASSUME NEW n \in Nat PROVE IsFiniteSet(1..n) /\ 1..n \in SUBSET Nat
  BY FS_Interval
<1>5. IsFiniteSet(DOMAIN job.files) /\ DOMAIN job.files \in SUBSET Nat
  BY <1>3, <1>4
<1>6. IsFiniteSet(Entry) /\ Entry \in SUBSET Nat /\ Entry # {}
  BY <1>2, <1>4 DEF Entry
<1>7. \A f \in Entry : Truth(f) \in Seq(Byte)
  BY <1>1 DEF Entry, Truth
<1> QED
  BY <1>2, <1>3, <1>5, <1>6, <1>7 DEF Entry

\* A finite set of numbers that is not empty has a greatest one.
LEMMA GreatestNumber ==
  ASSUME NEW S \in SUBSET Nat, IsFiniteSet(S), S # {}
  PROVE  Max(S) \in S /\ \A k \in S : Max(S) >= k
<1> DEFINE n == Cardinality(S)
           i == InOrder(S)[n]
           before == {j \in S : j < i}
<1>1. n \in Nat \ {0}
  BY FS_CardinalityType, FS_EmptySet
<1>2. i \in S /\ Cardinality(before) = n - 1
  <2>1. n \in 1..n
    BY <1>1
  <2> HIDE DEF n
  <2>2. n = Cardinality(S)
    BY DEF n
  <2> QED
    BY <2>1, <2>2, InOrderOf
<1> HIDE DEF n, i
<1>3. IsFiniteSet(S \ {i}) /\ Cardinality(S \ {i}) = n - 1
  BY <1>2, FS_RemoveElement DEF n
<1>4. before \in SUBSET (S \ {i})
  BY <1>2
<1>5. before = S \ {i}
  <2> HIDE DEF before
  <2> QED
    BY <1>2, <1>3, <1>4, FS_Subset
<1>6. \A y \in S : i >= y
  BY <1>2, <1>5
<1>7. \E x \in S : \A y \in S : x >= y
  BY <1>2, <1>6
<1> QED
  BY <1>7 DEF Max

LEMMA SizeIsNat == ASSUME job \in Jobs PROVE Size \in Nat
<1> DEFINE S == {Len(Truth(f)) : f \in Entry}
           length == [f \in Entry |-> Len(Truth(f))]
<1>1. \A f \in Entry : Len(Truth(f)) \in Nat
  BY JobFacts
<1>2. S \in SUBSET Nat /\ S # {}
  <2>1. PICK f \in Entry : TRUE
    BY JobFacts
  <2>2. Len(Truth(f)) \in S
    BY <2>1
  <2> QED
    BY <2>2, <1>1
<1>3. length \in Surjection(Entry, S)
  BY DEF Surjection
<1>4. IsFiniteSet(S)
  <2> HIDE DEF length, S
  <2> QED
    BY <1>3, JobFacts, FS_Surjection
<1>5. Max(S) \in S
  <2> HIDE DEF S
  <2> QED
    BY <1>2, <1>4, GreatestNumber
<1> QED
  BY <1>2, <1>5 DEF Size

LEMMA VolumesAreFinite ==
  ASSUME job \in Jobs, NEW S, S \subseteq DOMAIN job.files
  PROVE  IsFiniteSet(Volumes(S))
<1>1. ASSUME NEW v \in Volumes(S) PROVE v \in 0..255
  <2>1. PICK i \in DOMAIN job.files : v = job.files[i].volume
    BY DEF Volumes
  <2> QED
    BY <2>1, JobsAssumption
<1>2. Volumes(S) \in SUBSET (0..255)
  BY <1>1
<1>3. IsFiniteSet(0..255)
  <2>1. 0 \in Int /\ 255 \in Int
    OBVIOUS
  <2> QED
    BY <2>1, FS_Interval
<1> QED
  BY <1>2, <1>3, FS_Subset

\* Each packet is the volume of a recovery file that is left.
LEMMA PacketsAre ==
  ASSUME job \in Jobs, par1 \subseteq DOMAIN job.files, VolumesReadBack, Readable
  PROVE  /\ \E n \in Nat : DOMAIN RecoveryPackets = 1..n
         /\ \A r \in DOMAIN RecoveryPackets : \E v \in Volumes(par1) :
              /\ v \in 1..255
              /\ RecoveryPackets[r] = [exponent |-> v - 1, data |-> VolumeData(job.data, v)]
<1> DEFINE packetsOf(i) == ToSet(ReadFile(i).volume)
           offered == UNION {{i} \X packetsOf(i) : i \in par1}
           before == [p \in offered |->
                        {q \in offered :
                           \/ q[2].exponent < p[2].exponent
                           \/ q[2].exponent = p[2].exponent /\ q[1] < p[1]}]
           order == Arranged(offered, before)
<1>1. ASSUME NEW i \in par1
      PROVE  \/ packetsOf(i) = {}
             \/ /\ job.files[i].volume \in Volumes(par1)
                /\ job.files[i].volume \in 1..255
                /\ packetsOf(i) = {[exponent |-> job.files[i].volume - 1,
                                    data |-> VolumeData(job.data, job.files[i].volume)]}
  <2>1. ReadFile(i).ok
    BY DEF Readable
  <2>2. i \in DOMAIN job.files /\ job.files[i].volume \in 0..255
    BY JobsAssumption
  <2>3. ReadFile(i).volume =
          IF job.files[i].volume = 0 \/ job.files[i].state # "ok" THEN <<>>
          ELSE <<[exponent |-> job.files[i].volume - 1,
                  data |-> VolumeData(job.data, job.files[i].volume)]>>
    BY <2>1, <2>2 DEF VolumesReadBack
  <2>4. CASE job.files[i].volume = 0 \/ job.files[i].state # "ok"
    BY <2>3, <2>4 DEF ToSet
  <2>5. CASE job.files[i].volume # 0 /\ job.files[i].state = "ok"
    <3> DEFINE x == [exponent |-> job.files[i].volume - 1,
                     data |-> VolumeData(job.data, job.files[i].volume)]
    <3>1. ReadFile(i).volume = <<x>>
      BY <2>3, <2>5
    <3>2. ToSet(<<x>>) = {x}
      <4> HIDE DEF x
      <4> QED
        BY DEF ToSet
    <3>3. job.files[i].volume \in Volumes(par1)
      BY <2>2, <2>5 DEF Volumes
    <3> QED
      BY <3>1, <3>2, <3>3, <2>2, <2>5
  <2> QED
    BY <2>4, <2>5
<1>2. ASSUME NEW p \in offered
      PROVE  \E i \in par1 :
               /\ job.files[i].volume \in Volumes(par1)
               /\ job.files[i].volume \in 1..255
               /\ p = <<i, [exponent |-> job.files[i].volume - 1,
                            data |-> VolumeData(job.data, job.files[i].volume)]>>
  <2>1. PICK i \in par1 : p \in {i} \X packetsOf(i)
    OBVIOUS
  <2> HIDE DEF packetsOf
  <2> QED
    BY <2>1, <1>1
<1>3. IsFiniteSet(offered)
  <2> DEFINE file == [p \in offered |-> p[1]]
  <2>1. \A p \in offered : p[1] \in DOMAIN job.files
    BY <1>2
  <2>2. \A p, q \in offered : p[1] = q[1] => p = q
    BY <1>2
  <2> HIDE DEF offered
  <2>3. file \in Injection(offered, DOMAIN job.files)
    BY <2>1, <2>2 DEF Injection, IsInjective
  <2> HIDE DEF file
  <2> QED
    BY <2>3, JobFacts, FS_Injection
<1>4. order \in [1..Cardinality(offered) -> offered]
  <2>1. \A p \in offered : p[1] \in Nat /\ p[2].exponent \in Nat
    <3> SUFFICES ASSUME NEW p \in offered PROVE p[1] \in Nat /\ p[2].exponent \in Nat
      OBVIOUS
    <3>1. PICK i \in par1 :
            /\ job.files[i].volume \in 1..255
            /\ p = <<i, [exponent |-> job.files[i].volume - 1,
                         data |-> VolumeData(job.data, job.files[i].volume)]>>
      BY <1>2
    <3>2. i \in Nat
      BY JobFacts
    <3> QED
      BY <3>1, <3>2
  <2>2. \A p, q \in offered : p[1] = q[1] => p = q
    BY <1>2
  <2> HIDE DEF offered
  <2>3. before \in [offered -> SUBSET offered]
    OBVIOUS
  <2>4. \A i \in offered : i \notin before[i]
    BY <2>1
  <2>5. ASSUME NEW p \in offered, NEW q \in offered,
               q[2].exponent < p[2].exponent
               \/ (q[2].exponent = p[2].exponent /\ q[1] < p[1])
        PROVE  q \in before[p] /\ before[q] \subseteq before[p]
    <3>1. q \in before[p]
      BY <2>5
    <3>2. ASSUME NEW r \in before[q] PROVE r \in before[p]
      <4>1. r \in offered
        BY <3>2
      <4>2. \/ r[2].exponent < q[2].exponent
            \/ r[2].exponent = q[2].exponent /\ r[1] < q[1]
        BY <3>2
      <4>3. \/ r[2].exponent < p[2].exponent
            \/ r[2].exponent = p[2].exponent /\ r[1] < p[1]
        BY <4>1, <4>2, <2>1, <2>5
      <4> QED
        BY <4>1, <4>3
    <3> QED
      BY <3>1, <3>2
  <2>6. \A p, q \in offered : p # q =>
          \/ q[2].exponent < p[2].exponent
          \/ q[2].exponent = p[2].exponent /\ q[1] < p[1]
          \/ p[2].exponent < q[2].exponent
          \/ p[2].exponent = q[2].exponent /\ p[1] < q[1]
    BY <2>1, <2>2
  <2> HIDE DEF before
  <2>7. \A p, q \in offered : p # q =>
          \/ p \in before[q] /\ before[p] \subseteq before[q]
          \/ q \in before[p] /\ before[q] \subseteq before[p]
    BY <2>5, <2>6
  <2> QED
    BY <1>3, <2>3, <2>4, <2>7, ArrangedOf
<1>5. RecoveryPackets = [r \in DOMAIN order |-> order[r][2]]
  BY DEF RecoveryPackets
<1>6. Cardinality(offered) \in Nat
  BY <1>3, FS_CardinalityType
<1> HIDE DEF order, offered, before
<1>7. DOMAIN RecoveryPackets = 1..Cardinality(offered)
  BY <1>4, <1>5
<1>8. ASSUME NEW r \in DOMAIN RecoveryPackets
      PROVE  \E v \in Volumes(par1) :
               /\ v \in 1..255
               /\ RecoveryPackets[r] = [exponent |-> v - 1, data |-> VolumeData(job.data, v)]
  <2>1. order[r] \in offered /\ RecoveryPackets[r] = order[r][2]
    BY <1>4, <1>5, <1>7
  <2>2. PICK i \in par1 :
          /\ job.files[i].volume \in Volumes(par1)
          /\ job.files[i].volume \in 1..255
          /\ order[r] = <<i, [exponent |-> job.files[i].volume - 1,
                              data |-> VolumeData(job.data, job.files[i].volume)]>>
    BY <2>1, <1>2
  <2> QED
    BY <2>1, <2>2
<1> QED
  BY <1>6, <1>7, <1>8

\* As many slices as are rebuilt need as many recovery files.
LEMMA RebuiltIsCovered ==
  ASSUME FieldLaws, CoefficientsAreWords, job \in Jobs, par1 \subseteq DOMAIN job.files,
         VolumesReadBack, Readable,
         NEW missing \in Seq(Entry), missing # <<>>,
         Len(missing) <= Len(RecoveryPackets),
         Rebuild(missing, RecoveryPackets) # <<>>
  PROVE  Len(missing) <= Cardinality(Volumes(par1))
<1> DEFINE n == Len(missing)
           packets == RecoveryPackets
           chunk == RepairChunkSize(Size, job.memory)
           numbers == [k \in DOMAIN missing |-> missing[k] - 1]
<1>1. n \in Nat \ {0} /\ DOMAIN missing = 1..n
  OBVIOUS
<1>2. PICK m \in Nat : DOMAIN packets = 1..m
  BY PacketsAre
<1>3. Len(packets) = m /\ n <= m
  BY <1>2
<1>4. Size \in Nat /\ job.memory \in Nat \cup {NoLimit}
  BY SizeIsNat, JobsAssumption
<1>5. chunk # 0
  BY DEF Rebuild
<1>6. chunk \in 1..Size
  <2> DEFINE capped == Lesser(job.memory, Size)
  <2>1. CASE job.memory = NoLimit
    BY <2>1, <1>4, <1>5 DEF RepairChunkSize
  <2>2. CASE job.memory \in Nat /\ job.memory # NoLimit
    <3>1. capped \in Nat /\ capped <= Size
      BY <2>2, <1>4 DEF Lesser
    <3>2. capped % 4 \in 0..3
      BY <3>1
    <3>3. chunk = IF capped < 4 THEN IF Size <= 4 THEN capped ELSE 0
                  ELSE capped - (capped % 4)
      BY <2>2 DEF RepairChunkSize
    <3> HIDE DEF capped, chunk
    <3> QED
      BY <3>1, <3>2, <3>3, <1>4, <1>5
  <2> QED
    BY <2>1, <2>2, <1>4
<1>7. 1 \in 1..((Size + chunk - 1) \div chunk)
  <2> HIDE DEF chunk
  <2>1. Size + chunk - 1 \in Nat /\ Size + chunk - 1 >= chunk
    BY <1>4, <1>6
  <2> DEFINE a == Size + chunk - 1
             q == a \div chunk
  <2>4. a \in Nat /\ a >= chunk /\ chunk \in Nat /\ chunk > 0
    BY <1>4, <1>6, <2>1
  <2> HIDE DEF a
  <2>2. a = chunk * q + (a % chunk) /\ a % chunk \in 0..(chunk - 1) /\ q \in Nat
    BY <2>4
  <2>3. q # 0
    BY <2>4, <2>2
  <2> QED
    BY <2>2, <2>3 DEF a
<1> DEFINE first == RebuildChunk(missing, packets, 0, Lesser(chunk, Size))
<1>8. first # <<>>
  <2> DEFINE chunks == [c \in 1..((Size + chunk - 1) \div chunk) |->
                          RebuildChunk(missing, packets, (c - 1) * chunk,
                                       Lesser(chunk, Size - (c - 1) * chunk))]
  <2>1. Joined(missing, chunks) # <<>>
    BY <1>5 DEF Rebuild
  <2>2. chunks[1] = first
    <3>1. chunk \in Int
      BY <1>6
    <3> HIDE DEF chunk, packets
    <3>2. (1 - 1) * chunk = 0 /\ Size - (1 - 1) * chunk = Size
      BY <3>1, <1>4
    <3> QED
      BY <3>2, <1>7
  <2>3. 1 \in DOMAIN chunks
    BY <1>7
  <2> HIDE DEF chunks, first
  <2> QED
    BY <2>1, <2>2, <2>3 DEF Joined
<1> DEFINE offered == [r \in DOMAIN packets |->
                         [packets[r] EXCEPT !.data = Piece(@, 0, Lesser(chunk, Size))]]
           exponents == [r \in 1..Len(offered) |-> offered[r].exponent]
           matrix == Matrix(numbers, exponents)
<1>9. Len(offered) = m /\ Len(numbers) = n
  <2> HIDE DEF packets, chunk
  <2> QED
    BY <1>1, <1>2
<1>10. Invert(matrix) # Singular
  BY <1>8 DEF RebuildChunk, ReconstructGlobal
<1>11. ASSUME NEW r \in 1..n
       PROVE  exponents[r] + 1 \in Volumes(par1) /\ exponents[r] \in 0..254
  <2>1. r \in DOMAIN packets
    BY <1>2, <1>3, <1>11
  <2>2. PICK v \in Volumes(par1) :
          v \in 1..255 /\ packets[r] = [exponent |-> v - 1, data |-> VolumeData(job.data, v)]
    BY <2>1, PacketsAre
  <2>3. offered[r] = [packets[r] EXCEPT !.data = Piece(@, 0, Lesser(chunk, Size))]
    <3> HIDE DEF packets
    <3> QED
      BY <2>1
  <2>4. offered[r].exponent = v - 1
    <3> HIDE DEF packets, offered
    <3> QED
      BY <2>2, <2>3
  <2>5. exponents[r] = v - 1
    <3> HIDE DEF offered
    <3> QED
      BY <2>4, <1>3, <1>9, <1>11
  <2> HIDE DEF exponents, packets, offered, n
  <2> QED
    BY <2>2, <2>5
<1>12. ASSUME NEW r \in 1..n, NEW k \in 1..n
       PROVE  Coefficient(numbers[k], exponents[r]) \in Field
  <2>1. missing[k] \in DOMAIN job.data /\ numbers[k] = missing[k] - 1
    BY <1>1, <1>12 DEF Entry
  <2>2. missing[k] \in UNION {DOMAIN j.data : j \in Jobs}
    BY <2>1
  <2>3. exponents[r] \in 0..254
    BY <1>11
  <2> HIDE DEF numbers, exponents
  <2>4. \A e \in 0..254 : Coefficient(missing[k] - 1, e) \in Field
    BY <2>2 DEF CoefficientsAreWords
  <2> QED
    BY <2>1, <2>3, <2>4
<1> HIDE DEF numbers, exponents, offered
<1>13. matrix = [r \in 1..n |-> [k \in 1..n |-> Coefficient(numbers[k], exponents[r])]]
  BY <1>9 DEF Matrix
<1>14. matrix \in [1..n -> [1..n -> Field]]
  BY <1>12, <1>13
<1> HIDE DEF matrix, n
<1> SUFFICES ASSUME ~(n <= Cardinality(Volumes(par1))) PROVE FALSE
  BY DEF n
<1>15. IsFiniteSet(Volumes(par1)) /\ Cardinality(Volumes(par1)) \in Nat
  BY VolumesAreFinite, FS_CardinalityType
<1> DEFINE number == [r \in 1..n |-> exponents[r] + 1]
<1>16. number \in [1..n -> Volumes(par1)]
  BY <1>11
<1>17. IsFiniteSet(1..n) /\ Cardinality(1..n) = n
  BY <1>1, FS_Interval
<1>18. PICK i \in 1..n, j \in 1..n : i # j /\ number[i] = number[j]
  <2>1. Cardinality(Volumes(par1)) < Cardinality(1..n)
    BY <1>1, <1>15, <1>17
  <2> HIDE DEF number
  <2> QED
    BY <1>15, <1>16, <1>17, <2>1, FS_PigeonHole
<1>19. exponents[i] = exponents[j]
  <2>1. number[i] = exponents[i] + 1 /\ number[j] = exponents[j] + 1
    OBVIOUS
  <2> HIDE DEF number
  <2>2. exponents[i] \in 0..254
    BY <1>11
  <2>3. exponents[j] \in 0..254
    BY <1>11
  <2>4. number[i] = number[j]
    BY <1>18
  <2>5. exponents[i] + 1 = exponents[j] + 1
    BY <2>1, <2>4
  <2>6. \A a, b \in 0..254 : a + 1 = b + 1 => a = b
    OBVIOUS
  <2> QED
    BY <2>2, <2>3, <2>5, <2>6
<1>20. matrix[i] = matrix[j]
  BY <1>13, <1>19
<1> QED
  BY <1>1, <1>10, <1>14, <1>18, <1>20, EqualRowsAreSingular

-----------------------------------------------------------------------------
(* What the command works on *)

Targets == {Target(f) : f \in Entry}
Restoring == {"restore", "move", "copy", "remove"}
Writing == {"write", "written"}

\* What the command works on: protected files that are left to do, and backups
\* it has made, none of which is a target.
PlaceInv ==
  /\ job \in Jobs /\ DOMAIN disk = DOMAIN job.disk
  /\ par1 \subseteq DOMAIN job.files
  /\ todo \in Seq(Entry) /\ backups \in Seq(DOMAIN disk)
  /\ ToSet(backups) \cap Targets = {}
  /\ pc \in Restoring \cup Writing => todo # <<>>

\* A match that is waiting to be moved is what it was matched as, or gone,
\* unless it is a target, which may have been moved, or a backup; and where a
\* file is restored there is none, or the copy of the match.
MatchInv ==
  /\ pc \in Restoring =>
       \A f \in ToSet(todo) :
         /\ match[f] \in DOMAIN disk
         /\ match[f] \in Targets \cup ToSet(backups)
              \/ disk[match[f]] \in {Truth(f), Absent}
  /\ pc = "move" => ~Exists(disk, Target(Current))
  /\ pc \in {"copy", "remove"} => match[Current] # Target(Current)
  /\ pc = "remove" => disk[Target(Current)] = disk[match[Current]]

\* Sequences.
LEMMA HeadAndTail ==
  ASSUME NEW S, NEW s \in Seq(S), s # <<>>
  PROVE  /\ Head(s) \in S /\ Head(s) \in ToSet(s)
         /\ Tail(s) \in Seq(S) /\ ToSet(Tail(s)) \subseteq ToSet(s)
         /\ Len(s) # 1 => Tail(s) # <<>>
<1>1. Len(s) \in Nat \ {0} /\ DOMAIN s = 1..Len(s) /\ Head(s) = s[1]
  OBVIOUS
<1>2. Tail(s) \in Seq(S) /\ Len(Tail(s)) = Len(s) - 1
  OBVIOUS
<1>3. \A i \in DOMAIN Tail(s) : i + 1 \in DOMAIN s /\ Tail(s)[i] = s[i + 1]
  BY <1>1, <1>2
<1>4. ToSet(Tail(s)) \subseteq ToSet(s)
  BY <1>3 DEF ToSet
<1>5. Head(s) \in ToSet(s)
  BY <1>1 DEF ToSet
<1>6. Len(s) # 1 => Tail(s) # <<>>
  <2>1. Len(s) # 1 => Len(Tail(s)) # 0
    BY <1>1, <1>2
  <2>2. Len(<<>>) = 0
    OBVIOUS
  <2> QED
    BY <2>1, <2>2
<1> QED
  BY <1>1, <1>2, <1>4, <1>5, <1>6

LEMMA SetOfAppended ==
  ASSUME NEW S, NEW s \in Seq(S), NEW e \in S
  PROVE  Append(s, e) \in Seq(S) /\ ToSet(Append(s, e)) = ToSet(s) \cup {e}
<1>1. Append(s, e) \in Seq(S) /\ DOMAIN Append(s, e) = 1..(Len(s) + 1)
      /\ DOMAIN s = 1..Len(s) /\ Len(s) \in Nat
  OBVIOUS
<1>2. \A i \in DOMAIN s : Append(s, e)[i] = s[i]
  OBVIOUS
<1>3. Append(s, e)[Len(s) + 1] = e
  OBVIOUS
<1>4. DOMAIN Append(s, e) = DOMAIN s \cup {Len(s) + 1}
  BY <1>1
<1> QED
  BY <1>1, <1>2, <1>3, <1>4 DEF ToSet

LEMMA SetOfMembers == ASSUME NEW S, NEW s \in Seq(S) PROVE ToSet(s) \subseteq S
BY DEF ToSet

\* No content is taken for a file that is not there.
LEMMA ContentsAreThere == ASSUME job \in Jobs, NEW f \in Entry PROVE Truth(f) # Absent
<1>1. Truth(f) \in Seq(Byte)
  BY JobFacts
<1>2. Absent \notin Seq(Byte)
  <2> SUFFICES ASSUME Absent \in Seq(Byte) PROVE FALSE
    OBVIOUS
  <2>1. 1 \in DOMAIN Absent /\ Absent[1] = -1
    BY DEF Absent
  <2>2. Absent[1] \in Byte
    BY <2>1
  <2>3. -1 \notin Byte
    BY DEF Byte
  <2> QED
    BY <2>1, <2>2, <2>3
<1> QED
  BY <1>1, <1>2

\* Damaged files are those without their content.
LEMMA DamagedAre ==
  ASSUME job \in Jobs
  PROVE  /\ Damaged(disk) = {f \in Entry : disk[Target(f)] # Truth(f)}
         /\ IsFiniteSet(Damaged(disk)) /\ Damaged(disk) \in SUBSET Nat
<1>1. ASSUME NEW f \in Entry
      PROVE  Status(disk, f) = "present" <=> disk[Target(f)] = Truth(f)
  BY ContentsAreThere DEF Status, Exists
<1>2. Damaged(disk) = {f \in Entry : disk[Target(f)] # Truth(f)}
  BY <1>1 DEF Damaged
<1>3. Damaged(disk) \subseteq Entry
  BY DEF Damaged
<1> QED
  BY <1>2, <1>3, JobFacts, FS_Subset

\* A match is an extra file with the content it is matched as.
LEMMA MatchesAre ==
  ASSUME job \in Jobs, NEW f \in Entry, Matches(disk)[f] # NoPath
  PROVE  Matches(disk)[f] \in DOMAIN job.disk /\ disk[Matches(disk)[f]] = Truth(f)
<1> DEFINE holding(e) == {k \in DOMAIN job.extras : disk[job.extras[k]] = Truth(e)}
           before(e) == {g \in Damaged(disk) : g < e /\ Truth(g) = Truth(e)}
           turn(e) == {k \in holding(e) :
                         Cardinality({j \in holding(e) : j < k}) = Cardinality(before(e))}
           k == CHOOSE k \in turn(f) : TRUE
<1>1. Matches(disk)[f] = IF f \in Damaged(disk) /\ turn(f) # {}
                         THEN job.extras[k] ELSE NoPath
  BY DEF Matches
<1>2. turn(f) # {} /\ Matches(disk)[f] = job.extras[k]
  <2> HIDE DEF turn, k
  <2> QED
    BY <1>1
<1>3. k \in turn(f)
  <2> HIDE DEF turn
  <2> QED
    BY <1>2
<1>4. k \in DOMAIN job.extras /\ disk[job.extras[k]] = Truth(f)
  <2> HIDE DEF k
  <2> QED
    BY <1>3
<1>5. job.extras[k] \in DOMAIN job.disk
  <2>1. job.extras \in Seq(DOMAIN job.disk)
    BY JobsAssumption
  <2> HIDE DEF k
  <2> QED
    BY <1>4, <2>1
<1> QED
  BY <1>2, <1>4, <1>5

\* The first of what is left to do is a protected file.
LEMMA CurrentIs ==
  ASSUME PlaceInv, pc \in Restoring \cup Writing
  PROVE  /\ Current \in Entry /\ Current \in ToSet(todo)
         /\ Tail(todo) \in Seq(Entry) /\ ToSet(Tail(todo)) \subseteq ToSet(todo)
         /\ Len(todo) # 1 => Tail(todo) # <<>>
         /\ Target(Current) \in DOMAIN disk /\ Target(Current) \in Targets
<1>1. todo \in Seq(Entry) /\ todo # <<>>
  BY DEF PlaceInv
<1>2. /\ Current \in Entry /\ Current \in ToSet(todo)
      /\ Tail(todo) \in Seq(Entry) /\ ToSet(Tail(todo)) \subseteq ToSet(todo)
      /\ Len(todo) # 1 => Tail(todo) # <<>>
  BY <1>1, HeadAndTail DEF Current
<1>3. Target(Current) \in DOMAIN disk
  <2>1. job \in Jobs /\ DOMAIN disk = DOMAIN job.disk
    BY DEF PlaceInv
  <2>2. 0 \in 0..job.suffixes
    BY <2>1, JobsAssumption
  <2>3. Current \in DOMAIN job.data
    BY <1>2 DEF Entry
  <2> HIDE DEF Current
  <2>4. <<Current, 0>> \in (DOMAIN job.data) \X (0..job.suffixes)
    BY <2>2, <2>3
  <2> QED
    BY <2>1, <2>4, JobsAssumption DEF Target
<1> QED
  BY <1>2, <1>3 DEF Targets

\* The name a backup gets is free, and no target.
LEMMA NextBackupIs ==
  ASSUME PlaceInv, pc \in Restoring, FreeSuffixes(Current) # {}
  PROVE  /\ NextBackup(Current) \in DOMAIN disk \ Targets
         /\ ~Exists(disk, NextBackup(Current))
<1> DEFINE free == FreeSuffixes(Current)
           k == Min(free)
<1>1. job \in Jobs /\ DOMAIN disk = DOMAIN job.disk /\ Current \in Entry
  BY CurrentIs DEF PlaceInv
<1>2. job.suffixes \in Nat
  BY <1>1, JobsAssumption
<1>3. free \in SUBSET Nat /\ free # {}
  BY DEF FreeSuffixes
<1>4. k \in free
  <2> HIDE DEF free
  <2>1. \E n \in free : \A m \in free : n <= m
    BY <1>3, LeastNumber
  <2> QED
    BY <2>1 DEF Min
<1>5. NextBackup(Current) = <<Current, k>>
  BY DEF NextBackup, Backup
<1>6. k \in 1..job.suffixes /\ ~Exists(disk, <<Current, k>>)
  <2> HIDE DEF k, Current
  <2> QED
    BY <1>4 DEF FreeSuffixes, Backup
<1> HIDE DEF k, Current
<1>7. <<Current, k>> \in (DOMAIN job.data) \X (0..job.suffixes)
  BY <1>1, <1>2, <1>6 DEF Entry
<1>8. <<Current, k>> \notin Targets
  BY <1>6 DEF Targets, Target
<1> QED
  BY <1>1, <1>5, <1>6, <1>7, <1>8, JobsAssumption

\* A step keeps its place when it is of the same set and no backup is a target.
LEMMA KeptPlace ==
  ASSUME PlaceInv, job' = job, DOMAIN disk' = DOMAIN disk, par1' \subseteq par1,
         todo' \in Seq(Entry), backups' \in Seq(DOMAIN disk),
         ToSet(backups') \cap Targets = {},
         pc' \in Restoring \cup Writing => todo' # <<>>
  PROVE  PlaceInv'
<1>1. Targets' = Targets /\ Entry' = Entry
  BY DEF Targets, Target, Entry
<1>2. ToSet(backups') = ToSet(backups)'
  OBVIOUS
<1> HIDE DEF Targets, Entry
<1> QED
  BY <1>1, <1>2 DEF PlaceInv, Restoring, Writing

LEMMA InitPlace == Init => PlaceInv /\ MatchInv
<1> SUFFICES ASSUME Init PROVE PlaceInv /\ MatchInv
  OBVIOUS
<1>1. pc \notin Restoring \cup Writing
  BY DEF Init, Restoring, Writing
<1>2. ToSet(backups) = {}
  BY DEF Init, ToSet
<1>3. PlaceInv
  BY <1>1, <1>2 DEF Init, PlaceInv
<1>4. MatchInv
  BY <1>1 DEF MatchInv, Restoring
<1> QED
  BY <1>3, <1>4

\* Every step keeps the place.
LEMMA NextPlace ==
  ASSUME PlaceInv, [Next]_vars
  PROVE  PlaceInv'
<1>1. /\ todo \in Seq(Entry) /\ backups \in Seq(DOMAIN disk) /\ job \in Jobs
      /\ ToSet(backups) \cap Targets = {}
      /\ pc \in Restoring \cup Writing => todo # <<>>
  BY DEF PlaceInv
<1>2. <<>> \in Seq(Entry) /\ <<>> \in Seq(DOMAIN disk) /\ ToSet(<<>>) = {}
  BY DEF ToSet
<1>3. ASSUME NEW S \in SUBSET Entry
      PROVE  /\ InOrder(S) \in Seq(Entry)
             /\ S # {} => InOrder(S) # <<>>
  <2>1. S \in SUBSET Nat /\ IsFiniteSet(S)
    BY <1>1, JobFacts, FS_Subset
  <2>2. InOrder(S) \in Seq(S) /\ (S # {} => InOrder(S) # <<>>)
    BY <2>1, InOrderOf
  <2> HIDE DEF InOrder
  <2> QED
    BY <2>2
<1>4. CASE UNCHANGED vars
  BY <1>1, <1>4, KeptPlace DEF vars, Restoring, Writing
<1>5. CASE Verify \/ ScanFails \/ WriteFails \/ Check \/ Purged \/ PurgeFails \/ Crash
  BY <1>1, <1>5, KeptPlace
     DEF Verify, ScanFails, WriteFails, Check, Purged, PurgeFails, Crash, PurgeOr, Exit,
         held, counters, Restoring, Writing
<1>6. CASE RestoreFails
  BY <1>1, <1>6, KeptPlace DEF RestoreFails, Exit, held, Restoring, Writing
<1>7. CASE Begin
  <2>1. {f \in Entry : match'[f] # NoPath} \in SUBSET Entry
    OBVIOUS
  <2>2. /\ UNCHANGED <<job, disk, par1, backups>>
        /\ \/ pc' \in {"exit", "purge"} /\ todo' = todo
           \/ /\ todo' = InOrder({f \in Entry : match'[f] # NoPath})
              /\ pc' = IF todo' = <<>> THEN "rescan" ELSE "restore"
    BY <1>7 DEF Begin, PurgeOr, Exit
  <2>3. todo' \in Seq(Entry)
    BY <2>1, <2>2, <1>1, <1>3
  <2>4. pc' \in Restoring \cup Writing => todo' # <<>>
    BY <2>2 DEF Restoring, Writing
  <2> QED
    BY <2>2, <2>3, <2>4, <1>1, KeptPlace
<1>8. CASE BackupTarget
  <2> DEFINE to == NextBackup(Current)
  <2>1. pc \in Restoring /\ FreeSuffixes(Current) # {}
    BY <1>8 DEF BackupTarget, Restoring
  <2>2. to \in DOMAIN disk \ Targets
    BY <2>1, NextBackupIs
  <2>3. /\ UNCHANGED <<job, par1, todo>> /\ backups' = Append(backups, to)
        /\ DOMAIN disk' = DOMAIN disk
    BY <1>8 DEF BackupTarget
  <2> HIDE DEF to
  <2>4. backups' \in Seq(DOMAIN disk) /\ ToSet(backups') = ToSet(backups) \cup {to}
    BY <2>2, <2>3, <1>1, SetOfAppended
  <2>5. ToSet(backups') \cap Targets = {}
    BY <2>2, <2>4, <1>1
  <2>6. todo' # <<>>
    BY <2>1, <2>3, <1>1
  <2> QED
    BY <2>3, <2>4, <2>5, <2>6, <1>1, KeptPlace
<1>9. CASE MoveMatch \/ RemoveCopied
  <2>1. /\ UNCHANGED <<job, par1, backups>> /\ DOMAIN disk' = DOMAIN disk
        /\ pc \in Restoring /\ todo' = Tail(todo)
        /\ pc' = IF Len(todo) = 1 THEN "rescan" ELSE "restore"
    BY <1>9 DEF MoveMatch, RemoveCopied, NextMove, Moving, Restoring
  <2>2. Tail(todo) \in Seq(Entry) /\ (Len(todo) # 1 => Tail(todo) # <<>>)
    BY <2>1, CurrentIs
  <2> QED
    BY <2>1, <2>2, <1>1, KeptPlace DEF Restoring, Writing
<1>10. CASE OpenCopy \/ CopyMatch \/ WriteSome
  <2>1. /\ UNCHANGED <<job, par1, todo, backups>> /\ DOMAIN disk' = DOMAIN disk
        /\ pc \in Restoring \cup Writing
    BY <1>10 DEF OpenCopy, CopyMatch, WriteSome, Moving, Restoring, Writing, held
  <2> QED
    BY <2>1, <1>1, KeptPlace
<1>11. CASE Reconstruct
  <2>1. UNCHANGED <<job, disk, par1, backups>>
    BY <1>11 DEF Reconstruct
  <2>2. \/ pc' \in {"exit", "purge"} /\ todo' = todo
        \/ pc' = "write" /\ todo' = Missing(disk) /\ Damaged(disk) # {}
    BY <1>11 DEF Reconstruct, PurgeOr, Exit
  <2>3. Damaged(disk) \in SUBSET Entry
    BY DEF Damaged
  <2>4. Missing(disk) \in Seq(Entry) /\ (Damaged(disk) # {} => Missing(disk) # <<>>)
    BY <2>3, <1>3 DEF Missing
  <2> QED
    BY <2>1, <2>2, <2>4, <1>1, KeptPlace DEF Restoring, Writing
<1>12. CASE WriteRest
  <2>1. /\ UNCHANGED <<job, par1, backups>> /\ DOMAIN disk' = DOMAIN disk
        /\ pc \in Writing /\ todo' = Tail(todo)
        /\ pc' = IF Len(todo) = 1 THEN "check" ELSE "write"
    BY <1>12 DEF WriteRest, Writing
  <2>2. Tail(todo) \in Seq(Entry) /\ (Len(todo) # 1 => Tail(todo) # <<>>)
    BY <2>1, CurrentIs
  <2> QED
    BY <2>1, <2>2, <1>1, KeptPlace DEF Restoring, Writing
<1>13. CASE PurgeBackup
  <2>1. /\ UNCHANGED <<job, par1, todo, pc>> /\ DOMAIN disk' = DOMAIN disk
        /\ backups # <<>> /\ backups' = Tail(backups)
    BY <1>13 DEF PurgeBackup
  <2>2. backups' \in Seq(DOMAIN disk) /\ ToSet(backups') \subseteq ToSet(backups)
    BY <2>1, <1>1, HeadAndTail
  <2> QED
    BY <2>1, <2>2, <1>1, KeptPlace
<1>14. CASE PurgeFile
  BY <1>1, <1>14, KeptPlace DEF PurgeFile
<1>15. CASE Rerun
  BY <1>1, <1>2, <1>15, KeptPlace DEF Rerun, Restoring, Writing
<1> QED
  BY <1>4, <1>5, <1>6, <1>7, <1>8, <1>9, <1>10, <1>11, <1>12, <1>13, <1>14, <1>15
     DEF Next, Step

\* What may be where a match is expected: the match, nothing, a backup or a target.
Expected(f) ==
  match[f] \in Targets \cup ToSet(backups) \/ disk[match[f]] \in {Truth(f), Absent}

\* What is expected at a match stays so while no other place changes.
LEMMA KeptExpected ==
  ASSUME NEW f, Expected(f), job' = job, match' = match,
         ToSet(backups) \subseteq ToSet(backups'),
         \/ disk'[match[f]] = disk[match[f]] \/ disk'[match[f]] = Absent
         \/ match[f] \in Targets \cup ToSet(backups')
  PROVE  Expected(f)'
<1>1. Targets' = Targets /\ Truth(f)' = Truth(f)
  BY DEF Targets, Target, Entry, Truth
<1>2. ToSet(backups') = ToSet(backups)'
  OBVIOUS
<1> QED
  BY <1>1, <1>2 DEF Expected

\* Every step keeps what is known of the matches.
LEMMA NextMatch ==
  ASSUME PlaceInv, MatchInv, [Next]_vars
  PROVE  MatchInv'
<1> DEFINE cur == Current
           t == Target(cur)
           m == match[cur]
<1>1. /\ job \in Jobs /\ DOMAIN disk = DOMAIN job.disk
      /\ todo \in Seq(Entry) /\ backups \in Seq(DOMAIN disk)
  BY DEF PlaceInv
<1>2. ASSUME pc \in Restoring
      PROVE  /\ \A f \in ToSet(todo) : match[f] \in DOMAIN disk /\ Expected(f)
             /\ m \in DOMAIN disk /\ Expected(cur)
             /\ t \in DOMAIN disk /\ t \in Targets /\ cur \in Entry
             /\ ToSet(Tail(todo)) \subseteq ToSet(todo)
             /\ pc \in {"copy", "remove"} => m # t
             /\ pc = "remove" => disk[t] = disk[m]
  <2>1. \A f \in ToSet(todo) : match[f] \in DOMAIN disk /\ Expected(f)
    BY <1>2 DEF MatchInv, Expected
  <2>2. /\ cur \in ToSet(todo) /\ cur \in Entry /\ t \in DOMAIN disk /\ t \in Targets
        /\ ToSet(Tail(todo)) \subseteq ToSet(todo)
    BY <1>2, CurrentIs
  <2>3. (pc \in {"copy", "remove"} => m # t) /\ (pc = "remove" => disk[t] = disk[m])
    BY DEF MatchInv
  <2> HIDE DEF cur, t, m
  <2>4. m \in DOMAIN disk /\ Expected(cur)
    BY <2>1, <2>2 DEF m
  <2> QED
    BY <2>1, <2>2, <2>3, <2>4
<1>3. ASSUME pc' \notin Restoring PROVE MatchInv'
  <2>1. pc' \notin {"move", "copy", "remove"}
    BY <1>3 DEF Restoring
  <2> QED
    BY <1>3, <2>1 DEF MatchInv, Restoring
<1>4. ASSUME UNCHANGED <<job, disk, match, todo, backups, pc>> PROVE MatchInv'
  <2>1. Current' = Current /\ Targets' = Targets
        /\ \A f : Truth(f)' = Truth(f) /\ Target(f)' = Target(f)
    BY <1>4 DEF Current, Targets, Target, Entry, Truth
  <2>2. ToSet(todo)' = ToSet(todo) /\ ToSet(backups)' = ToSet(backups)
    BY <1>4
  <2> HIDE DEF Restoring
  <2> QED
    BY <1>4, <2>1, <2>2 DEF MatchInv, Restoring, Exists
<1>5. CASE UNCHANGED vars
  BY <1>4, <1>5 DEF vars
<1>6. CASE \/ Verify \/ ScanFails \/ RestoreFails \/ Reconstruct \/ WriteSome
           \/ WriteRest \/ WriteFails \/ Check \/ PurgeBackup \/ PurgeFile
           \/ Purged \/ PurgeFails \/ Crash \/ Rerun
  <2>1. pc' \notin Restoring
    BY <1>6 DEF Verify, ScanFails, RestoreFails, Reconstruct, WriteSome, WriteRest,
                WriteFails, Check, PurgeBackup, PurgeFile, Purged, PurgeFails, Crash,
                Rerun, PurgeOr, Exit, Restoring
  <2> QED
    BY <2>1, <1>3
\* The matches of the disk as it is.
<1>7. CASE Begin
  <2> SUFFICES ASSUME pc' \in Restoring PROVE MatchInv'
    BY <1>3
  <2>1. /\ UNCHANGED <<job, disk>> /\ match' = Matches(disk)
        /\ todo' = InOrder({f \in Entry : match'[f] # NoPath}) /\ pc' = "restore"
    BY <1>7 DEF Begin, PurgeOr, Exit, Restoring
  <2> DEFINE S == {f \in Entry : Matches(disk)[f] # NoPath}
  <2>2. ToSet(todo') \subseteq S
    <3>1. S \in SUBSET Entry
      OBVIOUS
    <3>2. todo' = InOrder(S)
      BY <2>1
    <3> HIDE DEF S
    <3>3. S \in SUBSET Nat /\ IsFiniteSet(S)
      BY <3>1, <1>1, JobFacts, FS_Subset
    <3>4. ToSet(InOrder(S)) \subseteq S
      BY <3>3, InOrderOf
    <3> HIDE DEF InOrder
    <3> QED
      BY <3>2, <3>4
  <2>3. ASSUME NEW f \in ToSet(todo')
        PROVE  match'[f] \in DOMAIN disk' /\ disk'[match'[f]] = Truth(f)'
    <3>1. f \in Entry /\ Matches(disk)[f] # NoPath
      BY <2>2
    <3>2. Matches(disk)[f] \in DOMAIN job.disk /\ disk[Matches(disk)[f]] = Truth(f)
      BY <3>1, <1>1, MatchesAre
    <3>3. Truth(f)' = Truth(f)
      BY <2>1 DEF Truth
    <3> QED
      BY <3>2, <3>3, <2>1, <1>1
  <2>4. ToSet(todo)' = ToSet(todo')
    OBVIOUS
  <2> QED
    BY <2>1, <2>3, <2>4 DEF MatchInv
\* What is moved out of the way is a backup.
<1>8. CASE BackupTarget
  <2> DEFINE to == NextBackup(Current)
  <2>1. /\ UNCHANGED <<job, match, todo>> /\ pc = "restore" /\ pc' = "move"
        /\ backups' = Append(backups, to) /\ FreeSuffixes(Current) # {}
        /\ disk' = [disk EXCEPT ![to] = disk[t], ![t] = Absent]
    BY <1>8 DEF BackupTarget
  <2>2. pc \in Restoring
    BY <2>1 DEF Restoring
  <2>3. to \in DOMAIN disk \ Targets
    BY <2>1, <2>2, NextBackupIs
  <2>4. t \in DOMAIN disk /\ t \in Targets
    BY <2>2, <1>2
  <2> HIDE DEF to, t, m, cur
  <2>5. ToSet(backups') = ToSet(backups) \cup {to}
    BY <2>1, <2>3, <1>1, SetOfAppended
  <2>6. \A p \in DOMAIN disk : p # to /\ p # t => disk'[p] = disk[p]
    BY <2>1
  <2>7. ASSUME NEW f \in ToSet(todo) PROVE match[f] \in DOMAIN disk' /\ Expected(f)'
    <3>1. match[f] \in DOMAIN disk /\ Expected(f)
      BY <1>2, <2>2
    <3>2. \/ disk'[match[f]] = disk[match[f]] \/ match[f] \in Targets \cup ToSet(backups')
      BY <3>1, <2>4, <2>5, <2>6
    <3> QED
      BY <3>1, <3>2, <2>1, <2>5, KeptExpected
  <2>8. Target(Current)' = t
    BY <2>1 DEF Target, Current, t, cur
  <2>9. disk'[t] = Absent
    BY <2>1, <2>3, <2>4
  <2>10. ~Exists(disk, Target(Current))'
    BY <2>8, <2>9 DEF Exists
  <2>11. ToSet(todo)' = ToSet(todo)
    BY <2>1
  <2> QED
    BY <2>1, <2>7, <2>10, <2>11 DEF MatchInv, Expected
\* The match of the current file is gone, those of others stay.
<1>9. CASE MoveMatch \/ RemoveCopied
  <2> SUFFICES ASSUME pc' \in Restoring PROVE MatchInv'
    BY <1>3
  <2>1. /\ UNCHANGED <<job, match, backups>> /\ pc \in Restoring
        /\ todo' = Tail(todo) /\ pc' = "restore"
        /\ \/ disk' = [disk EXCEPT ![t] = disk[m], ![m] = Absent]
           \/ disk' = [disk EXCEPT ![m] = Absent]
    BY <1>9 DEF MoveMatch, RemoveCopied, NextMove, Moving, Restoring
  <2>2. /\ m \in DOMAIN disk /\ t \in Targets
        /\ ToSet(Tail(todo)) \subseteq ToSet(todo)
    BY <1>2, <2>1
  <2>3. \A f \in ToSet(todo) : match[f] \in DOMAIN disk /\ Expected(f)
    BY <1>2, <2>1
  <2> HIDE DEF t, m, cur
  <2>4. DOMAIN disk' = DOMAIN disk
    BY <2>1
  <2>5. \A p \in DOMAIN disk : p # t => disk'[p] = disk[p] \/ disk'[p] = Absent
    BY <2>1
  <2>6. ASSUME NEW f \in ToSet(todo') PROVE match'[f] \in DOMAIN disk' /\ Expected(f)'
    <3>1. f \in ToSet(todo)
      BY <2>1, <2>2
    <3>2. match[f] \in DOMAIN disk /\ Expected(f)
      BY <3>1, <2>3
    <3>3. \/ disk'[match[f]] = disk[match[f]] \/ disk'[match[f]] = Absent
          \/ match[f] \in Targets
      BY <3>2, <2>2, <2>5
    <3> QED
      BY <3>2, <3>3, <2>1, <2>4, KeptExpected
  <2>7. ToSet(todo)' = ToSet(todo')
    OBVIOUS
  <2> QED
    BY <2>1, <2>6, <2>7 DEF MatchInv, Expected
\* Only the target changes.
<1>10. CASE OpenCopy \/ CopyMatch
  <2>1. /\ UNCHANGED <<job, match, todo, backups>> /\ pc \in Restoring
        /\ \/ pc' = "copy" /\ disk' = [disk EXCEPT ![t] = <<>>]
              /\ Exists(disk, m) /\ Moving
           \/ pc' = "remove" /\ disk' = [disk EXCEPT ![t] = disk[m]] /\ pc = "copy"
    BY <1>10 DEF OpenCopy, CopyMatch, Moving, Restoring, held
  <2>2. /\ m \in DOMAIN disk /\ t \in DOMAIN disk /\ t \in Targets
        /\ pc = "copy" => m # t
    BY <1>2, <2>1
  <2>3. \A f \in ToSet(todo) : match[f] \in DOMAIN disk /\ Expected(f)
    BY <1>2, <2>1
  <2>4. Moving => ~Exists(disk, t)
    BY DEF Moving, MatchInv
  <2>5. m # t
    BY <2>1, <2>2, <2>4
  <2>6. Target(Current)' = t /\ match[Current]' = m
    BY <2>1 DEF Target, Current
  <2> HIDE DEF t, m, cur
  <2>7. DOMAIN disk' = DOMAIN disk
    BY <2>1
  <2>8. \A p \in DOMAIN disk : p # t => disk'[p] = disk[p]
    BY <2>1
  <2>9. ASSUME NEW f \in ToSet(todo) PROVE match[f] \in DOMAIN disk' /\ Expected(f)'
    <3>1. match[f] \in DOMAIN disk /\ Expected(f)
      BY <2>3
    <3>2. disk'[match[f]] = disk[match[f]] \/ match[f] \in Targets
      BY <3>1, <2>2, <2>8
    <3> QED
      BY <3>1, <3>2, <2>1, <2>7, KeptExpected
  <2>10. pc' = "remove" => disk'[t] = disk'[m]
    BY <2>1, <2>2, <2>5, <2>8
  <2>11. ToSet(todo)' = ToSet(todo)
    BY <2>1
  <2>12. pc' # "move"
    BY <2>1
  <2> QED
    BY <2>1, <2>5, <2>6, <2>9, <2>10, <2>11, <2>12 DEF MatchInv, Expected
<1> QED
  BY <1>5, <1>6, <1>7, <1>8, <1>9, <1>10 DEF Next, Step

\* Bystanders stay: what lies outside the targets, and is no backup of this
\* command, stays where it is or goes to a target as the wrong-name copy it is.
THEOREM Bystanders == Spec => BystandersStay
<1> DEFINE Stays ==
      \A p \in Path : \A f \in Entry :
        /\ Exists(disk, p) /\ p \notin {Target(g) : g \in Entry}
        /\ p \notin ToSet(backups)
        => \/ disk'[p] = disk[p]
           \/ \E g \in Entry : disk'[Target(g)] = disk[p] /\ disk[p] = Truth(g)
<1>1. PlaceInv /\ MatchInv /\ [Next]_vars => Stays
  <2> SUFFICES ASSUME PlaceInv, MatchInv, Next,
                      NEW p \in Path, Exists(disk, p), p \notin Targets,
                      p \notin ToSet(backups)
               PROVE  \/ disk'[p] = disk[p]
                      \/ \E g \in Entry :
                           disk'[Target(g)] = disk[p] /\ disk[p] = Truth(g)
    BY DEF vars, Targets
  <2> DEFINE cur == Current
             t == Target(cur)
             m == match[cur]
  <2>1. p \in DOMAIN disk /\ disk[p] # Absent
    BY DEF Path, Exists
  <2>2. ASSUME pc \in Restoring \cup Writing
        PROVE  cur \in Entry /\ t \in DOMAIN disk /\ p # t
    <3>1. cur \in Entry /\ t \in DOMAIN disk /\ t \in Targets
      BY <2>2, CurrentIs
    <3> QED
      BY <3>1
  \* A match outside the targets, and no backup, is what it is matched as.
  <2>3. ASSUME pc \in Restoring, p = m
        PROVE  disk[p] = Truth(cur)
    <3>1. cur \in ToSet(todo)
      BY <2>3, CurrentIs
    <3> HIDE DEF cur
    <3>2. m \in Targets \cup ToSet(backups) \/ disk[m] \in {Truth(cur), Absent}
      BY <3>1, <2>3 DEF MatchInv
    <3> HIDE DEF m
    <3> QED
      BY <3>2, <2>1, <2>3
  <2>4. CASE \/ Verify \/ Begin \/ ScanFails \/ Reconstruct \/ WriteFails \/ Check
             \/ PurgeFile \/ Purged \/ PurgeFails \/ Crash \/ Rerun
    <3>1. disk' = disk
      BY <2>4 DEF Verify, Begin, ScanFails, Reconstruct, WriteFails, Check,
                  PurgeFile, Purged, PurgeFails, Crash, Rerun
    <3> QED
      BY <3>1
  <2>5. CASE BackupTarget
    <3>1. pc \in Restoring /\ FreeSuffixes(Current) # {}
      BY <2>5 DEF BackupTarget, Restoring
    <3>2. p # NextBackup(Current)
      BY <3>1, <2>1, NextBackupIs DEF Exists
    <3>3. disk' = [disk EXCEPT ![NextBackup(Current)] = disk[t], ![t] = Absent]
      BY <2>5 DEF BackupTarget
    <3>4. p # t
      BY <3>1, <2>2
    <3> HIDE DEF t
    <3> QED
      BY <3>2, <3>3, <3>4, <2>1
  <2>6. CASE MoveMatch
    <3>1. pc \in Restoring /\ disk' = [disk EXCEPT ![t] = disk[m], ![m] = Absent]
      BY <2>6 DEF MoveMatch, Moving, Restoring
    <3>2. cur \in Entry /\ t \in DOMAIN disk /\ p # t
      BY <3>1, <2>2
    <3>3. CASE p = m
      <4>1. disk[p] = Truth(cur)
        BY <3>1, <3>3, <2>3
      <4> HIDE DEF t, m, cur
      <4>2. disk'[t] = disk[p]
        BY <3>1, <3>2, <3>3
      <4> QED
        BY <4>1, <4>2, <3>2 DEF t
    <3>4. CASE p # m
      <4> HIDE DEF t, m, cur
      <4> QED
        BY <3>1, <3>2, <3>4, <2>1
    <3> QED
      BY <3>3, <3>4
  <2>7. CASE RemoveCopied
    <3>1. pc = "remove" /\ pc \in Restoring /\ disk' = [disk EXCEPT ![m] = Absent]
      BY <2>7 DEF RemoveCopied, Restoring
    <3>2. cur \in Entry /\ t \in DOMAIN disk /\ p # t
      BY <3>1, <2>2
    <3>3. m # t /\ disk[t] = disk[m]
      BY <3>1 DEF MatchInv
    <3>4. CASE p = m
      <4>1. disk[p] = Truth(cur)
        BY <3>1, <3>4, <2>3
      <4> HIDE DEF t, m, cur
      <4>2. disk'[t] = disk[p]
        BY <3>1, <3>2, <3>3, <3>4
      <4> QED
        BY <4>1, <4>2, <3>2 DEF t
    <3>5. CASE p # m
      <4> HIDE DEF t, m, cur
      <4> QED
        BY <3>1, <3>5, <2>1
    <3> QED
      BY <3>4, <3>5
  <2>8. CASE OpenCopy \/ CopyMatch \/ RestoreFails \/ WriteSome \/ WriteRest
    <3>1. pc \in Restoring \cup Writing
      BY <2>8 DEF OpenCopy, CopyMatch, RestoreFails, WriteSome, WriteRest, Moving,
                  Restoring, Writing
    <3>2. disk' = disk \/ \E bytes : disk' = [disk EXCEPT ![t] = bytes]
      BY <2>8 DEF OpenCopy, CopyMatch, RestoreFails, WriteSome, WriteRest
    <3>3. p # t
      BY <3>1, <2>2
    <3> HIDE DEF t
    <3> QED
      BY <3>2, <3>3, <2>1
  <2>9. CASE PurgeBackup
    <3>1. backups # <<>> /\ disk' = [disk EXCEPT ![Head(backups)] = Absent]
      BY <2>9 DEF PurgeBackup
    <3>2. Head(backups) \in ToSet(backups)
      BY <3>1, HeadAndTail DEF PlaceInv
    <3> QED
      BY <3>1, <3>2, <2>1
  <2> QED
    BY <2>4, <2>5, <2>6, <2>7, <2>8, <2>9 DEF Next, Step
<1>2. PlaceInv /\ MatchInv /\ [Next]_vars => (PlaceInv /\ MatchInv)'
  BY NextPlace, NextMatch
<1>3. Init => PlaceInv /\ MatchInv
  BY InitPlace
<1>4. PlaceInv /\ MatchInv /\ [Next]_vars => [Stays]_vars
  BY <1>1
<1> HIDE DEF Stays
<1>5. Spec => [][Stays]_vars
  BY <1>2, <1>3, <1>4, PTL DEF Spec
<1> QED
  BY <1>5 DEF BystandersStay, Stays

-----------------------------------------------------------------------------
(* No more is lost than recovery files are left *)

\* Contents that no file has, or only the one that a copy is about to
\* overwrite.
Gone ==
  {f \in Entry :
     \A p \in Path : disk[p] = Truth(f) => pc = "copy" /\ p = Target(Current)}

\* A set that can be saved has a recovery file for each of them.
CountInv ==
  Cardinality(Lost(job.disk)) <= Cardinality(Volumes(DOMAIN job.files))
    => Cardinality(Gone) <= Cardinality(Volumes(par1))

\* Nothing is reconstructed from recovery files that cannot be read.
ReadInv == pc \in Restoring \cup {"rescan"} => Readable

\* Nothing is purged before all files are right.
WholeInv == pc = "purge" => \A f \in Entry : disk[Target(f)] = Truth(f)

\* Files that are being rewritten are no more than there are recovery files,
\* all others are right.
WriteInv ==
  pc \in Writing =>
    \E M \in SUBSET Entry :
      /\ Cardinality(M) <= Cardinality(Volumes(par1))
      /\ ToSet(todo) \subseteq M
      /\ \A f \in Entry \ M : disk[Target(f)] = Truth(f)

SavedInv == CountInv /\ ReadInv /\ WholeInv /\ WriteInv

LEMMA TargetsArePaths == ASSUME PlaceInv PROVE \A f \in Entry : Target(f) \in DOMAIN disk
<1>1. job \in Jobs /\ DOMAIN disk = DOMAIN job.disk
  BY DEF PlaceInv
<1>2. 0 \in 0..job.suffixes
  BY <1>1, JobsAssumption
<1>3. ASSUME NEW f \in Entry PROVE <<f, 0>> \in (DOMAIN job.data) \X (0..job.suffixes)
  BY <1>2 DEF Entry
<1> QED
  BY <1>1, <1>3, JobsAssumption DEF Target

LEMMA CountsAreNumbers ==
  ASSUME PlaceInv, NEW S, S \subseteq DOMAIN job.files
  PROVE  Cardinality(Volumes(S)) \in Nat
<1>1. job \in Jobs
  BY DEF PlaceInv
<1>2. IsFiniteSet(Volumes(S))
  BY <1>1, VolumesAreFinite
<1> QED
  BY <1>2, FS_CardinalityType

LEMMA EntriesAreFinite ==
  ASSUME PlaceInv, NEW S \in SUBSET Entry, NEW T \in SUBSET S
  PROVE  /\ IsFiniteSet(S) /\ Cardinality(S) \in Nat
         /\ Cardinality(T) \in Nat /\ Cardinality(T) <= Cardinality(S)
<1>1. IsFiniteSet(Entry)
  BY JobFacts DEF PlaceInv
<1>2. IsFiniteSet(S)
  BY <1>1, FS_Subset
<1>3. IsFiniteSet(T) /\ Cardinality(T) <= Cardinality(S)
  BY <1>2, FS_Subset
<1> QED
  BY <1>2, <1>3, FS_CardinalityType

\* Contents that stay on disk, at one place or another, are not gone.
LEMMA GoneShrinks ==
  ASSUME PlaceInv, job' = job, DOMAIN disk' = DOMAIN disk,
         \A f \in Entry : \A p \in DOMAIN disk :
           disk[p] = Truth(f) /\ ~(pc = "copy" /\ p = Target(Current))
           => \E q \in DOMAIN disk :
                disk'[q] = Truth(f) /\ ~(pc' = "copy" /\ q = Target(Current)')
  PROVE  Gone' \subseteq Gone
<1>1. Entry' = Entry /\ \A f : Truth(f)' = Truth(f)
  BY DEF Entry, Truth
<1>2. Path' = DOMAIN disk /\ Path = DOMAIN disk
  BY DEF Path
<1>3. ASSUME NEW f \in Gone' PROVE f \in Gone
  <2>1. f \in Entry
    BY <1>1, <1>3 DEF Gone
  <2>2. \A q \in DOMAIN disk : disk'[q] = Truth(f) => pc' = "copy" /\ q = Target(Current)'
    BY <1>1, <1>2, <1>3 DEF Gone
  <2>3. \A p \in DOMAIN disk : disk[p] = Truth(f) => pc = "copy" /\ p = Target(Current)
    BY <2>1, <2>2
  <2> QED
    BY <2>1, <2>3, <1>2 DEF Gone
<1> QED
  BY <1>3

LEMMA CountStays ==
  ASSUME PlaceInv, CountInv, job' = job, par1' = par1, DOMAIN disk' = DOMAIN disk,
         Gone' \subseteq Gone
  PROVE  CountInv'
<1>1. /\ Lost(job.disk)' = Lost(job.disk)
      /\ Volumes(DOMAIN job.files)' = Volumes(DOMAIN job.files)
      /\ Volumes(par1)' = Volumes(par1)
  BY DEF Lost, Holds, Path, Entry, Truth, Volumes
<1>2. Cardinality(Gone') \in Nat /\ Cardinality(Gone) \in Nat
      /\ Cardinality(Gone') <= Cardinality(Gone)
  <2>1. Gone \in SUBSET Entry
    BY DEF Gone
  <2> DEFINE T == Gone'
  <2>2. T \in SUBSET Gone
    OBVIOUS
  <2> HIDE DEF T
  <2>3. Cardinality(T) \in Nat /\ Cardinality(Gone) \in Nat
        /\ Cardinality(T) <= Cardinality(Gone)
    BY <2>1, <2>2, EntriesAreFinite
  <2> QED
    BY <2>3 DEF T
<1>3. Cardinality(Volumes(par1)) \in Nat
  BY CountsAreNumbers DEF PlaceInv
<1>4. Cardinality(Gone)' = Cardinality(Gone')
  OBVIOUS
<1> QED
  BY <1>1, <1>2, <1>3, <1>4 DEF CountInv

\* Contents whose target is right are not gone: at most those of M are.
LEMMA CountOfRest ==
  ASSUME PlaceInv, job' = job, DOMAIN disk' = DOMAIN disk, par1' \subseteq par1,
         pc' # "copy", NEW M \in SUBSET Entry,
         \A f \in Entry \ M : disk'[Target(f)] = Truth(f),
         Cardinality(M) <= Cardinality(Volumes(par1'))
  PROVE  CountInv'
<1>1. Entry' = Entry /\ \A f : Truth(f)' = Truth(f)
  BY DEF Entry, Truth
<1>2. Volumes(par1)' = Volumes(par1')
  BY DEF Volumes
<1>3. ASSUME NEW f \in Gone' PROVE f \in M
  <2>1. f \in Entry
    BY <1>1, <1>3 DEF Gone
  <2>2. Target(f) \in DOMAIN disk
    BY <2>1, TargetsArePaths
  <2>3. disk'[Target(f)] # Truth(f)
    BY <1>1, <1>3, <2>2 DEF Gone, Path
  <2> QED
    BY <2>1, <2>3
<1>4. Cardinality(Gone') \in Nat /\ Cardinality(M) \in Nat
      /\ Cardinality(Gone') <= Cardinality(M)
  <2> DEFINE T == Gone'
  <2>1. T \in SUBSET M
    BY <1>3
  <2> HIDE DEF T
  <2>2. Cardinality(T) \in Nat /\ Cardinality(M) \in Nat
        /\ Cardinality(T) <= Cardinality(M)
    BY <2>1, EntriesAreFinite
  <2> QED
    BY <2>2 DEF T
<1>5. Cardinality(Volumes(par1')) \in Nat
  <2> DEFINE S == par1'
  <2>1. S \subseteq DOMAIN job.files
    BY DEF PlaceInv
  <2> HIDE DEF S
  <2>2. Cardinality(Volumes(S)) \in Nat
    BY <2>1, CountsAreNumbers
  <2> QED
    BY <2>2 DEF S
<1>6. Cardinality(Gone)' = Cardinality(Gone')
      /\ Cardinality(Volumes(par1))' = Cardinality(Volumes(par1'))
  BY <1>2
<1> QED
  BY <1>4, <1>5, <1>6 DEF CountInv

LEMMA ReadableStays ==
  ASSUME Readable, job' = job, par1' = par1
  PROVE  Readable'
BY DEF Readable, FirstReadable, ReadFile, RecoveryFile

LEMMA ReadBackStays ==
  ASSUME VolumesReadBack, job' = job
  PROVE  VolumesReadBack'
BY DEF VolumesReadBack, ReadFile, RecoveryFile

\* Right files stay right where no target changes.
LEMMA WholeStays ==
  ASSUME job' = job, NEW S \in SUBSET Entry,
         \A f \in S : disk[Target(f)] = Truth(f) /\ disk'[Target(f)] = disk[Target(f)]
  PROVE  \A f \in S : disk'[Target(f)] = Truth(f) /\ Truth(f)' = Truth(f)
                      /\ Target(f)' = Target(f)
BY DEF Truth, Target

LEMMA NextRead == ASSUME ReadInv, [Next]_vars PROVE ReadInv'
<1> SUFFICES ASSUME pc' \in Restoring \cup {"rescan"} PROVE Readable'
  BY DEF ReadInv, Restoring
<1>1. job' = job /\ par1' = par1 /\ Readable
  <2>1. CASE Begin
    BY <2>1 DEF Begin, PurgeOr, Exit, Restoring
  <2>2. CASE BackupTarget \/ MoveMatch \/ OpenCopy \/ CopyMatch \/ RemoveCopied
    <3>1. pc \in Restoring
      BY <2>2 DEF BackupTarget, MoveMatch, OpenCopy, CopyMatch, RemoveCopied, Moving,
                  Restoring
    <3> QED
      BY <2>2, <3>1
         DEF ReadInv, BackupTarget, MoveMatch, OpenCopy, CopyMatch, RemoveCopied
  <2>3. CASE UNCHANGED vars
    BY <2>3 DEF vars, ReadInv
  <2>4. CASE \/ Verify \/ ScanFails \/ RestoreFails \/ Reconstruct \/ WriteSome
             \/ WriteRest \/ WriteFails \/ Check \/ PurgeBackup \/ PurgeFile
             \/ Purged \/ PurgeFails \/ Crash \/ Rerun
    <3>1. pc' \notin Restoring \cup {"rescan"}
      BY <2>4 DEF Verify, ScanFails, RestoreFails, Reconstruct, WriteSome, WriteRest,
                  WriteFails, Check, PurgeBackup, PurgeFile, Purged, PurgeFails, Crash,
                  Rerun, PurgeOr, Exit, Restoring
    <3> QED
      BY <3>1
  <2> QED
    BY <2>1, <2>2, <2>3, <2>4 DEF Next, Step
<1> QED
  BY <1>1, ReadableStays

LEMMA NextWhole == ASSUME PlaceInv, WholeInv, [Next]_vars PROVE WholeInv'
<1> SUFFICES ASSUME pc' = "purge" PROVE (\A f \in Entry : disk[Target(f)] = Truth(f))'
  BY DEF WholeInv
<1>1. job \in Jobs
  BY DEF PlaceInv
<1>2. /\ job' = job
      /\ \A f \in Entry : disk[Target(f)] = Truth(f) /\ disk'[Target(f)] = disk[Target(f)]
  <2>1. CASE Verify \/ Begin \/ Reconstruct \/ Check
    <3>1. UNCHANGED <<job, disk>> /\ Damaged(disk) = {}
      BY <2>1 DEF Verify, Begin, Reconstruct, Check, Failed, PurgeOr, Exit
    <3>2. \A f \in Entry : disk[Target(f)] = Truth(f)
      BY <3>1, <1>1, DamagedAre
    <3> QED
      BY <3>1, <3>2
  <2>2. CASE PurgeBackup
    <3>1. /\ pc = "purge" /\ job' = job /\ backups # <<>>
          /\ disk' = [disk EXCEPT ![Head(backups)] = Absent]
      BY <2>2 DEF PurgeBackup
    <3>2. Head(backups) \notin Targets
      BY <3>1, HeadAndTail DEF PlaceInv
    <3>3. \A f \in Entry : Target(f) \in DOMAIN disk /\ Target(f) # Head(backups)
      BY <3>2, TargetsArePaths DEF Targets
    <3> QED
      BY <3>1, <3>3 DEF WholeInv
  <2>3. CASE PurgeFile
    BY <2>3 DEF PurgeFile, WholeInv
  <2>4. CASE UNCHANGED vars
    BY <2>4 DEF vars, WholeInv
  <2>5. CASE \/ ScanFails \/ BackupTarget \/ MoveMatch \/ OpenCopy \/ CopyMatch
             \/ RemoveCopied \/ RestoreFails \/ WriteSome \/ WriteRest \/ WriteFails
             \/ Purged \/ PurgeFails \/ Crash \/ Rerun
    <3>1. pc' # "purge"
      BY <2>5 DEF ScanFails, BackupTarget, MoveMatch, OpenCopy, CopyMatch, RemoveCopied,
                  NextMove, RestoreFails, WriteSome, WriteRest, WriteFails, Purged,
                  PurgeFails, Crash, Rerun, Exit
    <3> QED
      BY <3>1
  <2> QED
    BY <2>1, <2>2, <2>3, <2>4, <2>5 DEF Next, Step
<1>3. Entry' = Entry
  BY <1>2 DEF Entry
<1> QED
  BY <1>2, <1>3, WholeStays

\* What is to be written: no more files than there are recovery files.
LEMMA MissingIsCovered ==
  ASSUME FieldLaws, CoefficientsAreWords, PlaceInv, ReadInv, VolumesReadBack, Reconstruct, pc' = "write"
  PROVE  /\ Cardinality(Damaged(disk)) <= Cardinality(Volumes(par1))
         /\ todo' = Missing(disk) /\ ToSet(Missing(disk)) \subseteq Damaged(disk)
<1> DEFINE missing == Missing(disk)
<1>1. /\ job \in Jobs /\ par1 \subseteq DOMAIN job.files /\ Readable
  BY DEF PlaceInv, ReadInv, Reconstruct
<1>2. /\ Damaged(disk) \in SUBSET Nat /\ IsFiniteSet(Damaged(disk))
      /\ Damaged(disk) \subseteq Entry
  BY <1>1, DamagedAre
<1>3. /\ missing \in Seq(Damaged(disk)) /\ Len(missing) = Cardinality(Damaged(disk))
      /\ ToSet(missing) \subseteq Damaged(disk)
      /\ Damaged(disk) # {} => missing # <<>>
  BY <1>2, InOrderOf DEF Missing
<1>4. /\ Damaged(disk) # {} /\ ~(Len(RecoveryPackets) < Len(missing))
      /\ Rebuild(missing, RecoveryPackets) # <<>> /\ todo' = missing
  BY DEF Reconstruct, PurgeOr, Exit
<1> HIDE DEF missing
<1>5. missing \in Seq(Entry) /\ missing # <<>> /\ Len(missing) \in Nat
  BY <1>2, <1>3, <1>4
<1>6. Len(RecoveryPackets) \in Nat
  BY <1>1, PacketsAre
<1>7. Len(missing) <= Len(RecoveryPackets)
  BY <1>4, <1>5, <1>6
<1>8. Len(missing) <= Cardinality(Volumes(par1))
  BY <1>1, <1>4, <1>5, <1>7, RebuiltIsCovered
<1> QED
  BY <1>3, <1>4, <1>8 DEF missing

LEMMA NextWrite ==
  ASSUME FieldLaws, CoefficientsAreWords, PlaceInv, ReadInv, WriteInv, VolumesReadBack, [Next]_vars
  PROVE  WriteInv'
<1> SUFFICES ASSUME pc' \in Writing
             PROVE  (\E M \in SUBSET Entry :
                       /\ Cardinality(M) <= Cardinality(Volumes(par1))
                       /\ ToSet(todo) \subseteq M
                       /\ \A f \in Entry \ M : disk[Target(f)] = Truth(f))'
  BY DEF WriteInv, Writing
<1>1. /\ job' = job /\ par1' = par1
      /\ \E M \in SUBSET Entry :
           /\ Cardinality(M) <= Cardinality(Volumes(par1))
           /\ ToSet(todo') \subseteq M
           /\ \A f \in Entry \ M :
                disk[Target(f)] = Truth(f) /\ disk'[Target(f)] = disk[Target(f)]
  <2>1. CASE Reconstruct
    <3>1. pc' = "write" /\ UNCHANGED <<job, disk, par1>>
      BY <2>1 DEF Reconstruct, PurgeOr, Exit, Writing
    <3>2. /\ Cardinality(Damaged(disk)) <= Cardinality(Volumes(par1))
          /\ ToSet(todo') \subseteq Damaged(disk)
      BY <2>1, <3>1, MissingIsCovered
    <3>3. Damaged(disk) = {f \in Entry : disk[Target(f)] # Truth(f)}
      BY DamagedAre DEF PlaceInv
    <3> QED
      BY <3>1, <3>2, <3>3
  <2>2. CASE WriteSome \/ WriteRest
    <3>1. /\ pc \in Writing /\ UNCHANGED <<job, par1>>
          /\ todo' = todo \/ todo' = Tail(todo)
          /\ \E bytes : disk' = [disk EXCEPT ![Target(Current)] = bytes]
      BY <2>2 DEF WriteSome, WriteRest, Writing, held
    <3>2. PICK M \in SUBSET Entry :
            /\ Cardinality(M) <= Cardinality(Volumes(par1))
            /\ ToSet(todo) \subseteq M
            /\ \A f \in Entry \ M : disk[Target(f)] = Truth(f)
      BY <3>1 DEF WriteInv
    <3>3. Current \in ToSet(todo) /\ ToSet(Tail(todo)) \subseteq ToSet(todo)
      BY <3>1, CurrentIs
    <3>4. ASSUME NEW f \in Entry \ M PROVE disk'[Target(f)] = disk[Target(f)]
      <4>1. Target(f) # Target(Current)
        BY <3>2, <3>3 DEF Target
      <4>2. Target(f) \in DOMAIN disk
        BY TargetsArePaths
      <4> QED
        BY <3>1, <4>1, <4>2
    <3>5. ToSet(todo') \subseteq M
      BY <3>1, <3>2, <3>3
    <3> QED
      BY <3>1, <3>2, <3>4, <3>5
  <2>3. CASE UNCHANGED vars
    <3>1. UNCHANGED <<job, par1, todo, disk>> /\ pc \in Writing
      BY <2>3 DEF vars
    <3> QED
      BY <3>1 DEF WriteInv
  <2>4. CASE \/ Verify \/ Begin \/ ScanFails \/ BackupTarget \/ MoveMatch \/ OpenCopy
             \/ CopyMatch \/ RemoveCopied \/ RestoreFails \/ WriteFails \/ Check
             \/ PurgeBackup \/ PurgeFile \/ Purged \/ PurgeFails \/ Crash \/ Rerun
    <3>1. pc' \notin Writing
      BY <2>4 DEF Verify, Begin, ScanFails, BackupTarget, MoveMatch, OpenCopy, CopyMatch,
                  RemoveCopied, NextMove, RestoreFails, WriteFails, Check, PurgeBackup,
                  PurgeFile, Purged, PurgeFails, Crash, Rerun, PurgeOr, Exit, Writing
    <3> QED
      BY <3>1
  <2> QED
    BY <2>1, <2>2, <2>3, <2>4 DEF Next, Step
<1>2. PICK M \in SUBSET Entry :
        /\ Cardinality(M) <= Cardinality(Volumes(par1))
        /\ ToSet(todo') \subseteq M
        /\ \A f \in Entry \ M :
             disk[Target(f)] = Truth(f) /\ disk'[Target(f)] = disk[Target(f)]
  BY <1>1
<1>3. Entry' = Entry /\ Volumes(par1)' = Volumes(par1) /\ ToSet(todo)' = ToSet(todo')
  BY <1>1 DEF Entry, Volumes
<1> DEFINE rest == Entry \ M
<1>4. \A f \in rest : disk'[Target(f)] = Truth(f)'
  <2>1. rest \in SUBSET Entry
    OBVIOUS
  <2>2. \A f \in rest :
          disk[Target(f)] = Truth(f) /\ disk'[Target(f)] = disk[Target(f)]
    BY <1>2
  <2> HIDE DEF rest
  <2> QED
    BY <1>1, <2>1, <2>2, WholeStays
<1>5. \A f : Target(f)' = Target(f)
  BY DEF Target
<1> QED
  BY <1>2, <1>3, <1>4, <1>5

\* Contents are moved, copied before they are removed, or rewritten when a
\* recovery file is left for each; a recovery file goes when none is needed.
LEMMA NextCount ==
  ASSUME PlaceInv, MatchInv, CountInv, WholeInv, WriteInv,
         [Next]_vars, PlaceInv', WholeInv', WriteInv'
  PROVE  CountInv'
<1> DEFINE cur == Current
           t == Target(cur)
           m == match[cur]
           Held(f, p) == disk[p] = Truth(f) /\ ~(pc = "copy" /\ p = t)
           Holding(f, q) == disk'[q] = Truth(f) /\ ~(pc' = "copy" /\ q = Target(Current)')
           Keeps == \A f \in Entry : \A p \in DOMAIN disk :
                      Held(f, p) => \E q \in DOMAIN disk : Holding(f, q)
<1>1. /\ job \in Jobs /\ \A f \in Entry : Truth(f) # Absent
  BY ContentsAreThere DEF PlaceInv
<1>2. ASSUME job' = job, par1' = par1, DOMAIN disk' = DOMAIN disk, Keeps PROVE CountInv'
  <2>1. Gone' \subseteq Gone
    BY <1>2, GoneShrinks
  <2> QED
    BY <1>2, <2>1, CountStays
<1>3. ASSUME pc \in Restoring
      PROVE  /\ t \in DOMAIN disk /\ m \in DOMAIN disk
             /\ Moving => ~Exists(disk, t)
             /\ pc = "remove" => m # t /\ disk[t] = disk[m]
  <2>1. t \in DOMAIN disk /\ cur \in ToSet(todo)
    BY <1>3, CurrentIs
  <2>2. (Moving => ~Exists(disk, t)) /\ (pc = "remove" => m # t /\ disk[t] = disk[m])
    BY DEF Moving, MatchInv
  <2> HIDE DEF cur
  <2>3. m \in DOMAIN disk
    BY <1>3, <2>1 DEF MatchInv
  <2> QED
    BY <2>1, <2>2, <2>3
<1>4. CASE /\ UNCHANGED <<job, par1, disk>> /\ pc' # "copy"
  <2>1. Keeps
    BY <1>4
  <2> QED
    BY <1>4, <2>1, <1>2
<1>5. CASE UNCHANGED vars
  <2>1. Target(Current)' = t
    BY <1>5 DEF vars, Target, Current
  <2>2. Keeps
    BY <1>5, <2>1 DEF vars
  <2> QED
    BY <1>5, <2>2, <1>2 DEF vars
<1>6. CASE \/ Verify \/ Begin \/ ScanFails \/ Reconstruct \/ WriteFails \/ Check
           \/ Purged \/ PurgeFails \/ Crash
  <2>1. UNCHANGED <<job, par1, disk>> /\ pc' # "copy"
    BY <1>6 DEF Verify, Begin, ScanFails, Reconstruct, WriteFails, Check, Purged,
                PurgeFails, Crash, PurgeOr, Exit
  <2> QED
    BY <2>1, <1>4
<1>7. CASE Rerun
  <2>1. UNCHANGED <<job, par1, disk>> /\ pc' # "copy"
    BY <1>7 DEF Rerun
  <2> QED
    BY <2>1, <1>4
<1>8. CASE BackupTarget
  <2> DEFINE to == NextBackup(Current)
  <2>1. /\ UNCHANGED <<job, par1>> /\ pc \in Restoring /\ pc' = "move"
        /\ FreeSuffixes(Current) # {}
        /\ disk' = [disk EXCEPT ![to] = disk[t], ![t] = Absent]
    BY <1>8 DEF BackupTarget, Restoring
  <2>2. to \in DOMAIN disk \ Targets /\ disk[to] = Absent
    BY <2>1, NextBackupIs DEF Exists
  <2>3. t \in Targets /\ t \in DOMAIN disk
    BY <2>1, CurrentIs
  <2>4. ASSUME NEW f \in Entry, NEW p \in DOMAIN disk, disk[p] = Truth(f)
        PROVE  \E q \in DOMAIN disk : disk'[q] = Truth(f)
    <3> HIDE DEF to, t
    <3>1. CASE p = t
      <4>1. disk'[to] = Truth(f)
        BY <3>1, <2>1, <2>2, <2>3, <2>4
      <4> QED
        BY <4>1, <2>2
    <3>2. CASE p # t
      <4>1. p # to
        BY <2>2, <2>4, <1>1
      <4>2. disk'[p] = Truth(f)
        BY <3>2, <4>1, <2>1, <2>4
      <4> QED
        BY <4>2
    <3> QED
      BY <3>1, <3>2
  <2>5. Keeps
    BY <2>1, <2>4
  <2> QED
    BY <2>1, <2>5, <1>2
<1>9. CASE MoveMatch
  <2>1. /\ UNCHANGED <<job, par1>> /\ pc \in Restoring /\ pc' # "copy" /\ Moving
        /\ Exists(disk, m) /\ disk' = [disk EXCEPT ![t] = disk[m], ![m] = Absent]
    BY <1>9 DEF MoveMatch, NextMove, Moving, Restoring
  <2>2. /\ t \in DOMAIN disk /\ m \in DOMAIN disk /\ disk[t] = Absent /\ t # m
    BY <2>1, <1>3 DEF Exists
  <2>3. ASSUME NEW f \in Entry, NEW p \in DOMAIN disk, disk[p] = Truth(f)
        PROVE  \E q \in DOMAIN disk : disk'[q] = Truth(f)
    <3> HIDE DEF t, m
    <3>1. p # t
      BY <2>2, <2>3, <1>1
    <3>2. CASE p = m
      <4>1. disk'[t] = Truth(f)
        BY <3>2, <2>1, <2>2, <2>3
      <4> QED
        BY <4>1, <2>2
    <3>3. CASE p # m
      <4>1. disk'[p] = Truth(f)
        BY <3>1, <3>3, <2>1, <2>3
      <4> QED
        BY <4>1
    <3> QED
      BY <3>2, <3>3
  <2>4. Keeps
    BY <2>1, <2>3
  <2> QED
    BY <2>1, <2>4, <1>2
<1>10. CASE RemoveCopied
  <2>1. /\ UNCHANGED <<job, par1>> /\ pc \in Restoring /\ pc' # "copy" /\ pc = "remove"
        /\ disk' = [disk EXCEPT ![m] = Absent]
    BY <1>10 DEF RemoveCopied, NextMove, Restoring
  <2>2. t \in DOMAIN disk /\ t # m /\ disk[t] = disk[m]
    BY <2>1, <1>3
  <2>3. ASSUME NEW f \in Entry, NEW p \in DOMAIN disk, disk[p] = Truth(f)
        PROVE  \E q \in DOMAIN disk : disk'[q] = Truth(f)
    <3> HIDE DEF t, m
    <3>1. CASE p = m
      <4>1. disk'[t] = Truth(f)
        BY <3>1, <2>1, <2>2, <2>3
      <4> QED
        BY <4>1, <2>2
    <3>2. CASE p # m
      <4>1. disk'[p] = Truth(f)
        BY <3>2, <2>1, <2>3
      <4> QED
        BY <4>1
    <3> QED
      BY <3>1, <3>2
  <2>4. Keeps
    BY <2>1, <2>3
  <2> QED
    BY <2>1, <2>4, <1>2
\* The target is empty, or what is overwritten in it was not counted.
<1>11. CASE OpenCopy \/ CopyMatch \/ RestoreFails
  <2>1. /\ UNCHANGED <<job, par1>> /\ pc \in Restoring
        /\ \/ Moving /\ UNCHANGED todo /\ \E bytes : disk' = [disk EXCEPT ![t] = bytes]
           \/ /\ pc = "copy" /\ pc' # "copy"
              /\ \E bytes : disk' = [disk EXCEPT ![t] = bytes]
           \/ pc' # "copy" /\ disk' = disk
    BY <1>11 DEF OpenCopy, CopyMatch, RestoreFails, Exit, Moving, Restoring, held
  <2>2. Moving => disk[t] = Absent
    BY <2>1, <1>3 DEF Exists
  <2>3. UNCHANGED todo => Target(Current)' = t
    BY DEF Target, Current
  <2>4. ASSUME NEW f \in Entry, NEW p \in DOMAIN disk, Held(f, p) PROVE Holding(f, p)
    <3>1. CASE Moving /\ UNCHANGED todo /\ \E bytes : disk' = [disk EXCEPT ![t] = bytes]
      <4>1. p # t
        BY <3>1, <2>2, <2>4, <1>1
      <4>2. disk'[p] = Truth(f) /\ Target(Current)' = t
        <5> HIDE DEF t
        <5> QED
          BY <3>1, <4>1, <2>3, <2>4
      <4> QED
        BY <4>1, <4>2
    <3>2. CASE /\ pc = "copy" /\ pc' # "copy"
               /\ \E bytes : disk' = [disk EXCEPT ![t] = bytes]
      <4>1. p # t
        BY <3>2, <2>4
      <4>2. disk'[p] = Truth(f)
        <5> HIDE DEF t
        <5> QED
          BY <3>2, <4>1, <2>4
      <4> QED
        BY <3>2, <4>2
    <3>3. CASE pc' # "copy" /\ disk' = disk
      BY <3>3, <2>4
    <3> QED
      BY <2>1, <3>1, <3>2, <3>3
  <2>5. DOMAIN disk' = DOMAIN disk
    <3> HIDE DEF t
    <3> QED
      BY <2>1
  <2>6. Keeps
    BY <2>4
  <2> QED
    BY <2>1, <2>5, <2>6, <1>2
<1>12. CASE WriteSome \/ WriteRest
  <2>1. /\ UNCHANGED <<job, par1>> /\ pc \in Writing /\ pc' # "copy"
        /\ \E bytes : disk' = [disk EXCEPT ![t] = bytes]
    BY <1>12 DEF WriteSome, WriteRest, Writing
  <2>2. PICK M \in SUBSET Entry :
          /\ Cardinality(M) <= Cardinality(Volumes(par1))
          /\ ToSet(todo) \subseteq M
          /\ \A f \in Entry \ M : disk[Target(f)] = Truth(f)
    BY <2>1 DEF WriteInv
  <2>3. cur \in ToSet(todo)
    BY <2>1, CurrentIs
  <2>4. ASSUME NEW f \in Entry \ M PROVE disk'[Target(f)] = Truth(f)
    <3>1. Target(f) # t
      BY <2>2, <2>3 DEF Target
    <3>2. Target(f) \in DOMAIN disk
      BY TargetsArePaths
    <3> HIDE DEF t
    <3> QED
      BY <2>1, <2>2, <3>1, <3>2
  <2>5. DOMAIN disk' = DOMAIN disk
    BY <2>1
  <2> QED
    BY <2>1, <2>2, <2>4, <2>5, CountOfRest
\* Every target is right.
<1>13. CASE PurgeBackup \/ PurgeFile
  <2>1. /\ job' = job /\ par1' \subseteq par1 /\ pc = "purge" /\ pc' = "purge"
        /\ DOMAIN disk' = DOMAIN disk
    BY <1>13 DEF PurgeBackup, PurgeFile
  <2>2. \A f \in Entry : disk'[Target(f)] = Truth(f)
    BY <2>1 DEF WholeInv, Entry, Target, Truth
  <2>3. Cardinality({}) = 0
    BY FS_EmptySet
  <2>4. Cardinality(Volumes(par1')) \in Nat
    <3> DEFINE S == par1'
    <3>1. S \subseteq DOMAIN job.files
      BY <2>1 DEF PlaceInv
    <3> HIDE DEF S
    <3>2. Cardinality(Volumes(S)) \in Nat
      BY <3>1, CountsAreNumbers
    <3> QED
      BY <3>2 DEF S
  <2>5. Cardinality({}) <= Cardinality(Volumes(par1'))
    BY <2>3, <2>4
  <2> QED
    BY <2>1, <2>2, <2>5, CountOfRest
<1> QED
  BY <1>5, <1>6, <1>7, <1>8, <1>9, <1>10, <1>11, <1>12, <1>13 DEF Next, Step

LEMMA InitSaved == Init => SavedInv
<1> SUFFICES ASSUME Init PROVE SavedInv
  OBVIOUS
<1>1. PlaceInv
  BY InitPlace
<1>2. pc = "begin" /\ disk = job.disk /\ par1 = DOMAIN job.files
  BY DEF Init
<1>3. Gone = Lost(job.disk)
  BY <1>2 DEF Gone, Lost, Holds
<1>4. CountInv
  BY <1>2, <1>3 DEF CountInv
<1> QED
  BY <1>2, <1>4 DEF SavedInv, ReadInv, WholeInv, WriteInv, Restoring, Writing

\* A set that can be saved remains one: at every step of every run, killed or
\* not, there is a recovery file for each content that no file has any more.
THEOREM SetStaysSafe ==
  ASSUME FieldLaws, CoefficientsAreWords
  PROVE  Spec /\ VolumesReadBack => []StaysRecoverable
<1> DEFINE I == PlaceInv /\ MatchInv /\ SavedInv /\ VolumesReadBack
<1>1. Init /\ VolumesReadBack => I
  BY InitPlace, InitSaved
<1>2. I /\ [Next]_vars => I'
  <2> SUFFICES ASSUME I, [Next]_vars PROVE I'
    OBVIOUS
  <2>1. PlaceInv' /\ MatchInv'
    BY NextPlace, NextMatch
  <2>2. ReadInv' /\ WholeInv' /\ WriteInv'
    BY NextRead, NextWhole, NextWrite DEF SavedInv
  <2>3. CountInv'
    BY <2>1, <2>2, NextCount DEF SavedInv
  <2>4. job' = job
    BY DEF Next, Step, vars, Verify, Begin, ScanFails, BackupTarget, MoveMatch, OpenCopy,
           CopyMatch, RemoveCopied, RestoreFails, Reconstruct, WriteSome, WriteRest,
           WriteFails, Check, PurgeBackup, PurgeFile, Purged, PurgeFails, Crash, Rerun
  <2>5. VolumesReadBack'
    BY <2>4, ReadBackStays
  <2> QED
    BY <2>1, <2>2, <2>3, <2>5 DEF SavedInv
<1>3. I => StaysRecoverable
  <2> SUFFICES ASSUME PlaceInv, CountInv PROVE StaysRecoverable
    BY DEF SavedInv
  <2>1. Lost(disk) \in SUBSET Gone /\ Gone \in SUBSET Entry
    BY DEF Lost, Holds, Gone
  <2>2. /\ Cardinality(Lost(disk)) \in Nat /\ Cardinality(Gone) \in Nat
        /\ Cardinality(Lost(disk)) <= Cardinality(Gone)
    BY <2>1, EntriesAreFinite
  <2>3. Cardinality(Volumes(par1)) \in Nat
    BY CountsAreNumbers DEF PlaceInv
  <2> QED
    BY <2>2, <2>3 DEF CountInv, StaysRecoverable
<1> QED
  BY <1>1, <1>2, <1>3, PTL DEF Spec
=============================================================================
