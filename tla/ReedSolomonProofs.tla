-------------------------- MODULE ReedSolomonProofs --------------------------
(***************************************************************************)
(* Facts about coding and decoding that the theorems about the commands    *)
(* rest on, for any field that obeys the laws of CodingLaws: sums of words, *)
(* elimination, what an inverse and what its absence means.                *)
(***************************************************************************)
EXTENDS CodingLaws, FiniteSetTheorems, SequenceTheorems,
        WellFoundedInduction, TLAPS

-----------------------------------------------------------------------------
(* Numbers and orders *)

\* Of numbers there is a least one.
LEMMA LeastNumber ==
  ASSUME NEW S \in SUBSET Nat, S # {}
  PROVE  \E n \in S : \A k \in S : n <= k
<1> DEFINE R == {z \in Nat \X Nat : z[1] < z[2]}
<1>1. IsWellFoundedOn(R, Nat)
  <2> SUFFICES ASSUME NEW f \in [Nat -> Nat], \A n \in Nat : f[n + 1] < f[n]
               PROVE  FALSE
    BY DEF IsWellFoundedOn
  <2> QED
    BY NatLessThanWellFounded DEF IsWellFoundedOn, OpToRel
<1>2. \A n, k \in Nat : <<k, n>> \notin R => n <= k
  OBVIOUS
<1> HIDE DEF R
<1>3. \E n \in S : \A k \in S : <<k, n>> \notin R
  BY <1>1, WFMin
<1> QED
  BY <1>2, <1>3

\* A set with zero and the successor of each of its numbers has all numbers.
LEMMA EveryNumber ==
  ASSUME NEW S, 0 \in S, \A n \in Nat : n \in S => n + 1 \in S
  PROVE  Nat \subseteq S
<1> SUFFICES ASSUME Nat \ S # {} PROVE FALSE
  OBVIOUS
<1>1. PICK n \in Nat \ S : \A k \in Nat \ S : n <= k
  BY LeastNumber
<1>2. n \in Nat \ {0} /\ n - 1 \in Nat
  BY <1>1
<1>3. n - 1 \in S
  BY <1>1, <1>2
<1> QED
  BY <1>1, <1>2, <1>3

\* In a total order each member has another number of members before it, so
\* there is one for each number.
LEMMA ArrangedOf ==
  ASSUME NEW S, IsFiniteSet(S), NEW before \in [S -> SUBSET S],
         \A i \in S : i \notin before[i],
         \A i, j \in S : i # j =>
           \/ i \in before[j] /\ before[i] \subseteq before[j]
           \/ j \in before[i] /\ before[j] \subseteq before[i]
  PROVE  /\ Arranged(S, before) \in [1..Cardinality(S) -> S]
         /\ \A k \in 1..Cardinality(S) :
              Cardinality(before[Arranged(S, before)[k]]) = k - 1
<1> DEFINE n == Cardinality(S)
           rank == [i \in S |-> Cardinality(before[i]) + 1]
<1>1. n \in Nat
  BY FS_CardinalityType
<1>2. ASSUME NEW i \in S PROVE IsFiniteSet(before[i]) /\ Cardinality(before[i]) \in 0..(n - 1)
  <2>1. before[i] \in SUBSET (S \ {i})
    OBVIOUS
  <2>2. IsFiniteSet(S \ {i}) /\ Cardinality(S \ {i}) = n - 1
    BY FS_RemoveElement
  <2>3. IsFiniteSet(before[i]) /\ Cardinality(before[i]) <= n - 1
    BY <2>1, <2>2, FS_Subset
  <2> QED
    BY <2>3, <1>1, FS_CardinalityType
<1>3. ASSUME NEW i \in S, NEW j \in S, i \in before[j], before[i] \subseteq before[j]
      PROVE  Cardinality(before[i]) < Cardinality(before[j])
  <2>1. before[i] \in SUBSET (before[j] \ {i})
    BY <1>3
  <2>2. IsFiniteSet(before[j]) /\ Cardinality(before[j]) \in Nat
    BY <1>2
  <2>3. IsFiniteSet(before[j] \ {i}) /\ Cardinality(before[j] \ {i}) = Cardinality(before[j]) - 1
    BY <1>3, <2>2, FS_RemoveElement
  <2>4. Cardinality(before[i]) <= Cardinality(before[j]) - 1
    BY <2>1, <2>3, FS_Subset
  <2> QED
    BY <2>4, <2>2, <1>2
<1>4. rank \in Injection(S, 1..n)
  <2>1. rank \in [S -> 1..n]
    BY <1>1, <1>2
  <2>2. ASSUME NEW i \in S, NEW j \in S, i # j PROVE rank[i] # rank[j]
    <3>1. Cardinality(before[i]) \in Nat /\ Cardinality(before[j]) \in Nat
      BY <1>2
    <3>2. Cardinality(before[i]) < Cardinality(before[j]) \/ Cardinality(before[j]) < Cardinality(before[i])
      BY <2>2, <1>3
    <3> QED
      BY <3>1, <3>2
  <2> HIDE DEF rank
  <2> QED
    BY <2>1, <2>2 DEF Injection, IsInjective
<1>5. IsFiniteSet(1..n) /\ Cardinality(1..n) = n
  BY <1>1, FS_Interval
<1>6. rank \in Surjection(S, 1..n)
  <2> HIDE DEF rank
  <2> QED
    BY <1>4, <1>5, FS_Injection
<1>7. ASSUME NEW k \in 1..n PROVE \E i \in S : Cardinality(before[i]) = k - 1
  <2>1. \E i \in S : rank[i] = k
    <3> HIDE DEF rank
    <3> QED
      BY <1>6, <1>7 DEF Surjection
  <2>2. PICK i \in S : Cardinality(before[i]) + 1 = k
    BY <2>1
  <2> QED
    BY <2>2, <1>2
<1> QED
  BY <1>7 DEF Arranged

LEMMA InOrderOf ==
  ASSUME NEW S \in SUBSET Nat, IsFiniteSet(S)
  PROVE  /\ InOrder(S) \in Seq(S) /\ Len(InOrder(S)) = Cardinality(S)
         /\ ToSet(InOrder(S)) \subseteq S
         /\ S # {} => InOrder(S) # <<>>
         /\ \A k \in 1..Cardinality(S) :
              /\ InOrder(S)[k] \in S
              /\ Cardinality({j \in S : j < InOrder(S)[k]}) = k - 1
<1> DEFINE before == [i \in S |-> {j \in S : j < i}]
<1>1. /\ Arranged(S, before) \in [1..Cardinality(S) -> S]
      /\ \A k \in 1..Cardinality(S) :
           Cardinality(before[Arranged(S, before)[k]]) = k - 1
  <2>1. before \in [S -> SUBSET S] /\ \A i \in S : i \notin before[i]
    OBVIOUS
  <2>2. ASSUME NEW i \in S, NEW j \in S, i < j
        PROVE  i \in before[j] /\ before[i] \subseteq before[j]
    <3>1. before[i] = {k \in S : k < i} /\ before[j] = {k \in S : k < j}
      OBVIOUS
    <3>2. \A k \in S : k < i => k < j
      BY <2>2
    <3> HIDE DEF before
    <3> QED
      BY <3>1, <3>2, <2>2
  <2>3. \A i, j \in S : i # j => i < j \/ j < i
    OBVIOUS
  <2> HIDE DEF before
  <2>4. \A i, j \in S : i # j =>
          \/ i \in before[j] /\ before[i] \subseteq before[j]
          \/ j \in before[i] /\ before[j] \subseteq before[i]
    BY <2>2, <2>3
  <2> QED
    BY <2>1, <2>4, ArrangedOf
<1>2. Cardinality(S) \in Nat
  BY FS_CardinalityType
<1>3. InOrder(S) \in [1..Cardinality(S) -> S]
  BY <1>1 DEF InOrder
<1>4. InOrder(S) \in Seq(S) /\ Len(InOrder(S)) = Cardinality(S)
  BY <1>2, <1>3
<1>5. ToSet(InOrder(S)) \subseteq S
  BY <1>3 DEF ToSet
<1>6. S # {} => InOrder(S) # <<>>
  BY <1>2, <1>4, FS_EmptySet
<1>7. ASSUME NEW k \in 1..Cardinality(S)
      PROVE  /\ InOrder(S)[k] \in S
             /\ Cardinality({j \in S : j < InOrder(S)[k]}) = k - 1
  <2>1. InOrder(S)[k] \in S
    BY <1>3
  <2>2. Cardinality(before[InOrder(S)[k]]) = k - 1
    <3> HIDE DEF before
    <3> QED
      BY <1>1 DEF InOrder, before
  <2> QED
    BY <2>1, <2>2
<1> QED
  BY <1>4, <1>5, <1>6, <1>7
-----------------------------------------------------------------------------
(* Loops: a value, and step by step the next one *)

IsLoop(f, first, step, n) ==
  /\ f = [i \in 0..n |-> f[i]]
  /\ \A i \in 0..n : f[i] = IF i = 0 THEN first ELSE step[i][f[i - 1]]

\* There is the value after each step.
LEMMA LoopExists ==
  ASSUME NEW first, NEW n \in Nat, NEW step
  PROVE  \E f : IsLoop(f, first, step, n)
<1> DEFINE S == {k \in Nat : k <= n => \E f : IsLoop(f, first, step, k)}
<1>1. 0 \in S
  <2>1. IsLoop([i \in 0..0 |-> first], first, step, 0)
    BY DEF IsLoop
  <2> QED
    BY <2>1
<1>2. ASSUME NEW k \in Nat, k \in S PROVE k + 1 \in S
  <2> SUFFICES ASSUME k + 1 <= n PROVE \E f : IsLoop(f, first, step, k + 1)
    OBVIOUS
  <2>1. PICK f : IsLoop(f, first, step, k)
    BY <1>2
  <2> DEFINE next == [i \in 0..(k + 1) |-> IF i = k + 1 THEN step[k + 1][f[k]] ELSE f[i]]
  <2>4. ASSUME NEW i \in 0..(k + 1)
        PROVE  next[i] = IF i = 0 THEN first ELSE step[i][next[i - 1]]
    <3>1. CASE i = k + 1
      <4>1. next[i] = step[k + 1][f[k]] /\ next[k] = f[k] /\ i - 1 = k /\ i # 0
        BY <3>1
      <4> HIDE DEF next
      <4> QED
        BY <4>1, <3>1
    <3>2. CASE i \in 0..k
      <4>1. next[i] = f[i] /\ (i # 0 => next[i - 1] = f[i - 1])
        BY <3>2
      <4>2. f[i] = IF i = 0 THEN first ELSE step[i][f[i - 1]]
        BY <3>2, <2>1 DEF IsLoop
      <4> HIDE DEF next
      <4> QED
        BY <4>1, <4>2
    <3> QED
      BY <3>1, <3>2
  <2>5. next = [i \in 0..(k + 1) |-> next[i]]
    OBVIOUS
  <2> HIDE DEF next
  <2>6. IsLoop(next, first, step, k + 1)
    BY <2>4, <2>5 DEF IsLoop
  <2> QED
    BY <2>6
<1>3. Nat \subseteq S
  <2> HIDE DEF S
  <2> QED
    BY <1>1, <1>2, EveryNumber
<1> QED
  BY <1>3

\* What holds at first, and after each step if it held before it, holds after
\* each.
LEMMA LoopStays ==
  ASSUME NEW V, NEW n \in Nat, NEW f, f[0] \in V[0],
         \A i \in 1..n : f[i - 1] \in V[i - 1] => f[i] \in V[i]
  PROVE  \A i \in 0..n : f[i] \in V[i]
<1> DEFINE S == {k \in Nat : k <= n => f[k] \in V[k]}
<1>1. 0 \in S
  OBVIOUS
<1>2. ASSUME NEW k \in Nat, k \in S PROVE k + 1 \in S
  <2> SUFFICES ASSUME k + 1 <= n PROVE f[k + 1] \in V[k + 1]
    OBVIOUS
  <2>1. k + 1 \in 1..n /\ k + 1 - 1 = k /\ f[k] \in V[k]
    BY <1>2
  <2> QED
    BY <2>1
<1>3. Nat \subseteq S
  <2> HIDE DEF S
  <2> QED
    BY <1>1, <1>2, EveryNumber
<1> QED
  BY <1>3

\* A loop whose values are, step by step, in the sets of V.
IsLoopIn(f, first, step, n, V) ==
  /\ f = [i \in 0..n |-> f[i]]
  /\ f[0] = first
  /\ \A i \in 1..n : f[i] = step[i][f[i - 1]]
  /\ \A i \in 0..n : f[i] \in V[i]

LEMMA LoopWithin ==
  ASSUME NEW V, NEW n \in Nat, NEW first \in V[0], NEW step,
         \A i \in 1..n : \A x \in V[i - 1] : step[i][x] \in V[i]
  PROVE  \E f : IsLoopIn(f, first, step, n, V)
<1>1. PICK f : IsLoop(f, first, step, n)
  BY LoopExists
<1>2. f[0] = first
  BY <1>1 DEF IsLoop
<1>3. ASSUME NEW i \in 1..n PROVE f[i] = step[i][f[i - 1]]
  BY <1>1 DEF IsLoop
<1>4. \A i \in 0..n : f[i] \in V[i]
  BY <1>2, <1>3, LoopStays
<1>5. f = [i \in 0..n |-> f[i]]
  BY <1>1 DEF IsLoop
<1> QED
  BY <1>2, <1>3, <1>4, <1>5 DEF IsLoopIn

-----------------------------------------------------------------------------
(* The field *)

LEMMA FieldFacts ==
  ASSUME FieldLaws, NEW x \in Field, NEW y \in Field
  PROVE  /\ Xor(x, y) \in Field /\ Product(x, y) \in Field
         /\ Xor(x, y) = Xor(y, x) /\ Product(x, y) = Product(y, x)
         /\ 0 \in Field /\ 1 \in Field
         /\ Xor(0, x) = x /\ Xor(x, 0) = x /\ Xor(x, x) = 0
         /\ Product(0, x) = 0 /\ Product(x, 0) = 0
         /\ Product(1, x) = x /\ Product(x, 1) = x
         /\ x # 0 => /\ Quotient(1, x) \in Field
                     /\ Product(x, Quotient(1, x)) = 1
BY DEF FieldLaws

LEMMA FieldTriples ==
  ASSUME FieldLaws, NEW x \in Field, NEW y \in Field, NEW z \in Field
  PROVE  /\ Xor(x, Xor(y, z)) = Xor(Xor(x, y), z)
         /\ Product(x, Product(y, z)) = Product(Product(x, y), z)
         /\ Product(x, Xor(y, z)) = Xor(Product(x, y), Product(x, z))
BY DEF FieldLaws

\* To divide by a word and to multiply by it again changes nothing.
LEMMA TimesQuotient ==
  ASSUME FieldLaws, NEW x \in Field, NEW y \in Field, x # 0
  PROVE  Product(x, Product(y, Quotient(1, x))) = y
<1>1. Quotient(1, x) \in Field /\ Product(x, Quotient(1, x)) = 1
  BY FieldFacts
<1>2. Product(x, Product(y, Quotient(1, x))) = Product(Product(x, y), Quotient(1, x))
  BY <1>1, FieldTriples
<1>3. Product(x, y) = Product(y, x)
  BY FieldFacts
<1>4. Product(y, Product(x, Quotient(1, x))) = Product(Product(y, x), Quotient(1, x))
  BY <1>1, FieldTriples
<1>5. Product(y, 1) = y
  BY FieldFacts
<1> QED
  BY <1>1, <1>2, <1>3, <1>4, <1>5

\* Two sums of two are added pair by pair.
LEMMA XorPairs ==
  ASSUME FieldLaws, NEW a \in Field, NEW b \in Field, NEW c \in Field, NEW d \in Field
  PROVE  Xor(Xor(a, b), Xor(c, d)) = Xor(Xor(a, c), Xor(b, d))
<1>1. /\ Xor(a, b) \in Field /\ Xor(c, d) \in Field /\ Xor(b, d) \in Field
      /\ Xor(a, c) \in Field /\ Xor(b, c) \in Field
  BY FieldFacts
<1>2. Xor(Xor(a, b), Xor(c, d)) = Xor(Xor(Xor(a, b), c), d)
  BY <1>1, FieldTriples
<1>3. Xor(Xor(a, b), c) = Xor(a, Xor(b, c))
  BY FieldTriples
<1>4. Xor(b, c) = Xor(c, b)
  BY FieldFacts
<1>5. Xor(a, Xor(c, b)) = Xor(Xor(a, c), b)
  BY FieldTriples
<1>6. Xor(Xor(a, c), Xor(b, d)) = Xor(Xor(Xor(a, c), b), d)
  BY <1>1, FieldTriples
<1> QED
  BY <1>2, <1>3, <1>4, <1>5, <1>6

-----------------------------------------------------------------------------
(* Sums of words *)

AreSums(total, words, n) ==
  total = [k \in 0..n |-> IF k = 0 THEN 0 ELSE Xor(total[k - 1], words[k])]

LEMMA SumsExist == ASSUME NEW words, NEW n \in Nat PROVE \E total : AreSums(total, words, n)
<1> DEFINE S == {k \in Nat : \E total : AreSums(total, words, k)}
<1>1. 0 \in S
  <2>1. AreSums([k \in 0..0 |-> 0], words, 0)
    BY DEF AreSums
  <2> QED
    BY <2>1
<1>2. ASSUME NEW k \in Nat, k \in S PROVE k + 1 \in S
  <2>1. PICK total : AreSums(total, words, k)
    BY <1>2
  <2> DEFINE next == [i \in 0..(k + 1) |->
                        IF i = k + 1 THEN Xor(total[k], words[k + 1]) ELSE total[i]]
  <2>2. ASSUME NEW i \in 0..(k + 1)
        PROVE  next[i] = IF i = 0 THEN 0 ELSE Xor(next[i - 1], words[i])
    <3>1. CASE i = k + 1
      <4>1. next[i] = Xor(total[k], words[k + 1]) /\ next[k] = total[k] /\ i - 1 = k /\ i # 0
        BY <3>1
      <4> HIDE DEF next
      <4> QED
        BY <4>1, <3>1
    <3>2. CASE i \in 0..k
      <4>1. next[i] = total[i] /\ (i # 0 => next[i - 1] = total[i - 1])
        BY <3>2
      <4>2. total[i] = IF i = 0 THEN 0 ELSE Xor(total[i - 1], words[i])
        BY <3>2, <2>1 DEF AreSums
      <4> HIDE DEF next
      <4> QED
        BY <4>1, <4>2
    <3> QED
      BY <3>1, <3>2
  <2>3. AreSums(next, words, k + 1)
    <3>1. next = [i \in 0..(k + 1) |-> next[i]]
      OBVIOUS
    <3> HIDE DEF next
    <3>2. [i \in 0..(k + 1) |-> next[i]]
            = [i \in 0..(k + 1) |-> IF i = 0 THEN 0 ELSE Xor(next[i - 1], words[i])]
      BY <2>2
    <3> QED
      BY <3>1, <3>2 DEF AreSums
  <2> QED
    BY <2>3
<1>3. Nat \subseteq S
  <2> HIDE DEF S
  <2> QED
    BY <1>1, <1>2, EveryNumber
<1> QED
  BY <1>3

LEMMA SumsAgree ==
  ASSUME NEW words, NEW j \in Nat, NEW k \in Nat, NEW f, NEW g,
         AreSums(f, words, j), AreSums(g, words, k)
  PROVE  \A i \in Nat : i <= j /\ i <= k => f[i] = g[i]
<1> DEFINE S == {i \in Nat : i <= j /\ i <= k => f[i] = g[i]}
<1>1. 0 \in S
  BY DEF AreSums
<1>2. ASSUME NEW i \in Nat, i \in S PROVE i + 1 \in S
  <2> SUFFICES ASSUME i + 1 <= j, i + 1 <= k PROVE f[i + 1] = g[i + 1]
    OBVIOUS
  <2>1. i + 1 \in 0..j /\ i + 1 \in 0..k /\ i + 1 - 1 = i /\ i + 1 # 0
    OBVIOUS
  <2>2. f[i + 1] = Xor(f[i], words[i + 1]) /\ g[i + 1] = Xor(g[i], words[i + 1])
    BY <2>1 DEF AreSums
  <2>3. f[i] = g[i]
    BY <1>2
  <2> QED
    BY <2>2, <2>3
<1>3. Nat \subseteq S
  <2> HIDE DEF S
  <2> QED
    BY <1>1, <1>2, EveryNumber
<1> QED
  BY <1>3

LEMMA SumIs ==
  ASSUME NEW words, NEW n \in Nat
  PROVE  \E f : AreSums(f, words, n) /\ XorSum(words, n) = f[n]
<1> DEFINE f == CHOOSE total : AreSums(total, words, n)
<1>1. AreSums(f, words, n)
  BY SumsExist
<1>2. XorSum(words, n) = f[n]
  BY DEF XorSum, AreSums
<1> QED
  BY <1>1, <1>2

\* The sum of no words, and of one more.
LEMMA SumSteps ==
  ASSUME NEW words
  PROVE  /\ XorSum(words, 0) = 0
         /\ \A k \in Nat : XorSum(words, k + 1) = Xor(XorSum(words, k), words[k + 1])
<1>1. XorSum(words, 0) = 0
  BY SumIs DEF AreSums
<1>2. ASSUME NEW k \in Nat
      PROVE  XorSum(words, k + 1) = Xor(XorSum(words, k), words[k + 1])
  <2>1. PICK f : AreSums(f, words, k) /\ XorSum(words, k) = f[k]
    BY SumIs
  <2>2. PICK g : AreSums(g, words, k + 1) /\ XorSum(words, k + 1) = g[k + 1]
    BY SumIs
  <2>3. f[k] = g[k]
    BY <2>1, <2>2, SumsAgree
  <2>4. k + 1 \in 0..(k + 1) /\ k + 1 # 0 /\ k + 1 - 1 = k
    OBVIOUS
  <2>5. g[k + 1] = Xor(g[k], words[k + 1])
    BY <2>2, <2>4 DEF AreSums
  <2> QED
    BY <2>1, <2>2, <2>3, <2>5
<1> QED
  BY <1>1, <1>2

LEMMA SumSame ==
  ASSUME NEW n \in Nat, NEW f, NEW g, \A k \in 1..n : f[k] = g[k]
  PROVE  XorSum(f, n) = XorSum(g, n)
<1> DEFINE S == {k \in Nat : k <= n => XorSum(f, k) = XorSum(g, k)}
<1>1. 0 \in S
  BY SumSteps
<1>2. ASSUME NEW k \in Nat, k \in S PROVE k + 1 \in S
  <2> SUFFICES ASSUME k + 1 <= n PROVE XorSum(f, k + 1) = XorSum(g, k + 1)
    OBVIOUS
  <2>1. f[k + 1] = g[k + 1] /\ XorSum(f, k) = XorSum(g, k)
    BY <1>2
  <2> QED
    BY <2>1, SumSteps
<1>3. Nat \subseteq S
  <2> HIDE DEF S
  <2> QED
    BY <1>1, <1>2, EveryNumber
<1> QED
  BY <1>3

LEMMA SumIsWord ==
  ASSUME FieldLaws, NEW n \in Nat, NEW f, \A k \in 1..n : f[k] \in Field
  PROVE  XorSum(f, n) \in Field
<1> DEFINE S == {k \in Nat : k <= n => XorSum(f, k) \in Field}
<1>1. 0 \in S
  BY SumSteps DEF FieldLaws
<1>2. ASSUME NEW k \in Nat, k \in S PROVE k + 1 \in S
  <2> SUFFICES ASSUME k + 1 <= n PROVE XorSum(f, k + 1) \in Field
    OBVIOUS
  <2>1. f[k + 1] \in Field /\ XorSum(f, k) \in Field
    BY <1>2
  <2>2. Xor(XorSum(f, k), f[k + 1]) \in Field
    BY <2>1, FieldFacts
  <2> QED
    BY <2>2, SumSteps
<1>3. Nat \subseteq S
  <2> HIDE DEF S
  <2> QED
    BY <1>1, <1>2, EveryNumber
<1> QED
  BY <1>3

LEMMA SumOfZeros ==
  ASSUME FieldLaws, NEW n \in Nat, NEW f, \A k \in 1..n : f[k] = 0
  PROVE  XorSum(f, n) = 0
<1> DEFINE S == {k \in Nat : k <= n => XorSum(f, k) = 0}
<1>1. 0 \in S
  BY SumSteps
<1>2. ASSUME NEW k \in Nat, k \in S PROVE k + 1 \in S
  <2> SUFFICES ASSUME k + 1 <= n PROVE XorSum(f, k + 1) = 0
    OBVIOUS
  <2>1. f[k + 1] = 0 /\ XorSum(f, k) = 0
    BY <1>2
  <2>2. Xor(0, 0) = 0
    BY DEF FieldLaws
  <2> QED
    BY <2>1, <2>2, SumSteps
<1>3. Nat \subseteq S
  <2> HIDE DEF S
  <2> QED
    BY <1>1, <1>2, EveryNumber
<1> QED
  BY <1>3

LEMMA SumPlus ==
  ASSUME FieldLaws, NEW n \in Nat, NEW f, NEW g, NEW h,
         \A k \in 1..n : f[k] \in Field /\ g[k] \in Field /\ h[k] = Xor(f[k], g[k])
  PROVE  XorSum(h, n) = Xor(XorSum(f, n), XorSum(g, n))
<1> DEFINE S == {k \in Nat : k <= n =>
                   /\ XorSum(f, k) \in Field /\ XorSum(g, k) \in Field
                   /\ XorSum(h, k) = Xor(XorSum(f, k), XorSum(g, k))}
<1>1. 0 \in S
  <2>1. Xor(0, 0) = 0 /\ 0 \in Field
    BY DEF FieldLaws
  <2> QED
    BY <2>1, SumSteps
<1>2. ASSUME NEW k \in Nat, k \in S PROVE k + 1 \in S
  <2> SUFFICES ASSUME k + 1 <= n
               PROVE  /\ XorSum(f, k + 1) \in Field /\ XorSum(g, k + 1) \in Field
                      /\ XorSum(h, k + 1) = Xor(XorSum(f, k + 1), XorSum(g, k + 1))
    OBVIOUS
  <2>1. /\ f[k + 1] \in Field /\ g[k + 1] \in Field
        /\ h[k + 1] = Xor(f[k + 1], g[k + 1])
    OBVIOUS
  <2>2. /\ XorSum(f, k) \in Field /\ XorSum(g, k) \in Field
        /\ XorSum(h, k) = Xor(XorSum(f, k), XorSum(g, k))
    BY <1>2
  <2>3. /\ XorSum(f, k + 1) = Xor(XorSum(f, k), f[k + 1])
        /\ XorSum(g, k + 1) = Xor(XorSum(g, k), g[k + 1])
        /\ XorSum(h, k + 1) = Xor(XorSum(h, k), h[k + 1])
    BY SumSteps
  <2>4. Xor(XorSum(f, k), f[k + 1]) \in Field
    BY <2>1, <2>2, FieldFacts
  <2>5. Xor(XorSum(g, k), g[k + 1]) \in Field
    BY <2>1, <2>2, FieldFacts
  <2>6. Xor(Xor(XorSum(f, k), XorSum(g, k)), Xor(f[k + 1], g[k + 1]))
          = Xor(Xor(XorSum(f, k), f[k + 1]), Xor(XorSum(g, k), g[k + 1]))
    BY <2>1, <2>2, XorPairs
  <2> QED
    BY <2>1, <2>2, <2>3, <2>4, <2>5, <2>6
<1>3. Nat \subseteq S
  <2> HIDE DEF S
  <2> QED
    BY <1>1, <1>2, EveryNumber
<1> QED
  BY <1>3

LEMMA SumScaled ==
  ASSUME FieldLaws, NEW n \in Nat, NEW c \in Field, NEW f, NEW h,
         \A k \in 1..n : f[k] \in Field /\ h[k] = Product(c, f[k])
  PROVE  XorSum(h, n) = Product(c, XorSum(f, n))
<1> DEFINE S == {k \in Nat : k <= n =>
                   XorSum(f, k) \in Field /\ XorSum(h, k) = Product(c, XorSum(f, k))}
<1>1. 0 \in S
  <2>1. Product(c, 0) = 0 /\ 0 \in Field
    BY FieldFacts
  <2> QED
    BY <2>1, SumSteps
<1>2. ASSUME NEW k \in Nat, k \in S PROVE k + 1 \in S
  <2> SUFFICES ASSUME k + 1 <= n
               PROVE  /\ XorSum(f, k + 1) \in Field
                      /\ XorSum(h, k + 1) = Product(c, XorSum(f, k + 1))
    OBVIOUS
  <2>1. f[k + 1] \in Field /\ h[k + 1] = Product(c, f[k + 1])
    OBVIOUS
  <2>2. XorSum(f, k) \in Field /\ XorSum(h, k) = Product(c, XorSum(f, k))
    BY <1>2
  <2>3. /\ XorSum(f, k + 1) = Xor(XorSum(f, k), f[k + 1])
        /\ XorSum(h, k + 1) = Xor(XorSum(h, k), h[k + 1])
    BY SumSteps
  <2>4. Xor(XorSum(f, k), f[k + 1]) \in Field
    BY <2>1, <2>2, FieldFacts
  <2>5. Product(c, Xor(XorSum(f, k), f[k + 1]))
          = Xor(Product(c, XorSum(f, k)), Product(c, f[k + 1]))
    BY <2>1, <2>2, FieldTriples
  <2> QED
    BY <2>1, <2>2, <2>3, <2>4, <2>5
<1>3. Nat \subseteq S
  <2> HIDE DEF S
  <2> QED
    BY <1>1, <1>2, EveryNumber
<1> QED
  BY <1>3

\* To add v to one of the words is to add v to the sum.
LEMMA SumChanged ==
  ASSUME FieldLaws, NEW n \in Nat, NEW i \in 1..n, NEW v \in Field, NEW f, NEW h,
         \A k \in 1..n : f[k] \in Field /\ (k # i => h[k] = f[k]),
         h[i] = Xor(f[i], v)
  PROVE  XorSum(h, n) = Xor(XorSum(f, n), v)
<1> DEFINE unit == [k \in 1..n |-> IF k = i THEN v ELSE 0]
           S == {k \in Nat : k <= n => XorSum(unit, k) = IF k < i THEN 0 ELSE v}
<1>1. \A k \in 1..n : unit[k] = IF k = i THEN v ELSE 0
  OBVIOUS
<1>2. 0 \in Field /\ Xor(0, 0) = 0 /\ Xor(0, v) = v /\ Xor(v, 0) = v
  BY FieldFacts
<1> HIDE DEF unit
<1>3. 0 \in S
  BY SumSteps
<1>4. ASSUME NEW k \in Nat, k \in S PROVE k + 1 \in S
  <2> SUFFICES ASSUME k + 1 <= n
               PROVE  XorSum(unit, k + 1) = IF k + 1 < i THEN 0 ELSE v
    OBVIOUS
  <2>1. XorSum(unit, k + 1) = Xor(XorSum(unit, k), unit[k + 1])
    BY SumSteps
  <2>2. XorSum(unit, k) = IF k < i THEN 0 ELSE v
    BY <1>4
  <2>3. unit[k + 1] = IF k + 1 = i THEN v ELSE 0
    BY <1>1
  <2> QED
    BY <2>1, <2>2, <2>3, <1>2
<1>5. n \in S
  <2> HIDE DEF S
  <2>1. Nat \subseteq S
    BY <1>3, <1>4, EveryNumber
  <2> QED
    BY <2>1
<1>6. XorSum(unit, n) = v
  BY <1>5
<1>7. \A k \in 1..n : f[k] \in Field /\ unit[k] \in Field /\ h[k] = Xor(f[k], unit[k])
  <2> SUFFICES ASSUME NEW k \in 1..n
               PROVE  f[k] \in Field /\ unit[k] \in Field /\ h[k] = Xor(f[k], unit[k])
    OBVIOUS
  <2>1. f[k] \in Field /\ Xor(f[k], 0) = f[k]
    BY FieldFacts
  <2> QED
    BY <2>1, <1>1, <1>2
<1>8. XorSum(h, n) = Xor(XorSum(f, n), XorSum(unit, n))
  BY <1>7, SumPlus
<1> QED
  BY <1>6, <1>8

\* The sum of words that are zero but for one.
LEMMA SumOfOne ==
  ASSUME FieldLaws, NEW n \in Nat, NEW i \in 1..n, NEW f, f[i] \in Field,
         \A k \in 1..n : k # i => f[k] = 0
  PROVE  XorSum(f, n) = f[i]
<1> DEFINE zeros == [k \in 1..n |-> 0]
<1>1. XorSum(zeros, n) = 0
  BY SumOfZeros
<1>2. 0 \in Field /\ Xor(0, f[i]) = f[i]
  BY FieldFacts
<1>3. \A k \in 1..n : zeros[k] = 0
  OBVIOUS
<1> HIDE DEF zeros
<1>4. \A k \in 1..n : zeros[k] \in Field /\ (k # i => f[k] = zeros[k])
  BY <1>2, <1>3
<1>5. f[i] = Xor(zeros[i], f[i])
  BY <1>2, <1>3
<1>6. XorSum(f, n) = Xor(XorSum(zeros, n), f[i])
  BY <1>4, <1>5, SumChanged
<1> QED
  BY <1>1, <1>2, <1>6

\* The sums of n rows of m words, and the same words column by column.
AreSumsOf(a, F, n, m) == \A i \in 1..n : a[i] = XorSum(F[i], m)
Transposed(F, G, n, m) ==
  \A i \in 1..n : \A j \in 1..m : F[i][j] \in Field /\ G[j][i] = F[i][j]

\* A sum of sums of rows is one of sums of columns.
LEMMA SumSwapped ==
  ASSUME FieldLaws, NEW n \in Nat, NEW m \in Nat,
         NEW F, NEW G, Transposed(F, G, n, m),
         NEW a, AreSumsOf(a, F, n, m), NEW c, AreSumsOf(c, G, m, n)
  PROVE  XorSum(a, n) = XorSum(c, m)
<1> DEFINE b(k) == [j \in 1..m |-> XorSum(G[j], k)]
           S == {k \in Nat : k <= n => XorSum(a, k) = XorSum(b(k), m)}
<1>1. 0 \in S
  <2>1. \A j \in 1..m : b(0)[j] = 0
    BY SumSteps
  <2> HIDE DEF b
  <2>2. XorSum(b(0), m) = 0
    BY <2>1, SumOfZeros
  <2> QED
    BY <2>2, SumSteps
<1>2. ASSUME NEW k \in Nat, k \in S PROVE k + 1 \in S
  <2> SUFFICES ASSUME k + 1 <= n PROVE XorSum(a, k + 1) = XorSum(b(k + 1), m)
    OBVIOUS
  <2>1. XorSum(a, k) = XorSum(b(k), m)
    BY <1>2
  <2>2. a[k + 1] = XorSum(F[k + 1], m)
    BY DEF AreSumsOf
  <2>3. XorSum(a, k + 1) = Xor(XorSum(a, k), a[k + 1])
    BY SumSteps
  <2>4. ASSUME NEW j \in 1..m
        PROVE  /\ b(k)[j] \in Field /\ F[k + 1][j] \in Field
               /\ b(k + 1)[j] = Xor(b(k)[j], F[k + 1][j])
    <3>1. XorSum(G[j], k + 1) = Xor(XorSum(G[j], k), G[j][k + 1])
      BY SumSteps
    <3>2. G[j][k + 1] = F[k + 1][j] /\ F[k + 1][j] \in Field
      BY DEF Transposed
    <3>3. \A i \in 1..k : G[j][i] \in Field
      BY DEF Transposed
    <3>4. XorSum(G[j], k) \in Field
      BY <3>3, SumIsWord
    <3> QED
      BY <3>1, <3>2, <3>4
  <2> DEFINE b0 == b(k)
             b1 == b(k + 1)
  <2>5. \A j \in 1..m : b0[j] \in Field /\ F[k + 1][j] \in Field /\ b1[j] = Xor(b0[j], F[k + 1][j])
    BY <2>4
  <2>6. XorSum(a, k) = XorSum(b0, m)
    BY <2>1
  <2> SUFFICES XorSum(a, k + 1) = XorSum(b1, m)
    OBVIOUS
  <2> HIDE DEF b0, b1
  <2>7. XorSum(b1, m) = Xor(XorSum(b0, m), XorSum(F[k + 1], m))
    BY <2>5, SumPlus
  <2> QED
    BY <2>2, <2>3, <2>6, <2>7
<1>3. n \in S
  <2> HIDE DEF S
  <2>1. Nat \subseteq S
    BY <1>1, <1>2, EveryNumber
  <2> QED
    BY <2>1
<1>4. \A j \in 1..m : c[j] = b(n)[j]
  BY DEF AreSumsOf
<1>5. XorSum(c, m) = XorSum(b(n), m)
  <2> DEFINE d == b(n)
  <2>1. \A j \in 1..m : c[j] = d[j]
    BY <1>4
  <2> HIDE DEF d
  <2>2. XorSum(c, m) = XorSum(d, m)
    BY <2>1, SumSame
  <2> QED
    BY <2>2 DEF d
<1> QED
  BY <1>3, <1>5

-----------------------------------------------------------------------------
(* Elimination *)

AreAfter(f, rows, n) ==
  f = [col \in 0..n |-> IF col = 0 THEN rows ELSE EliminateColumn(f[col - 1], col)]

\* There are the matrices after each column.
LEMMA AfterExists ==
  ASSUME NEW rows, NEW n \in Nat
  PROVE  \E f : AreAfter(f, rows, n)
<1> DEFINE S == {k \in Nat : \E f : AreAfter(f, rows, k)}
<1>1. 0 \in S
  <2>1. AreAfter([col \in 0..0 |-> rows], rows, 0)
    BY DEF AreAfter
  <2> QED
    BY <2>1
<1>2. ASSUME NEW k \in Nat, k \in S PROVE k + 1 \in S
  <2>1. PICK f : AreAfter(f, rows, k)
    BY <1>2
  <2> DEFINE g == [col \in 0..(k + 1) |->
                     IF col = k + 1 THEN EliminateColumn(f[k], k + 1) ELSE f[col]]
  <2>2. ASSUME NEW col \in 0..(k + 1)
        PROVE  g[col] = IF col = 0 THEN rows ELSE EliminateColumn(g[col - 1], col)
    <3>1. CASE col = k + 1
      <4>1. g[col] = EliminateColumn(f[k], k + 1) /\ g[k] = f[k] /\ col - 1 = k /\ col # 0
        BY <3>1
      <4> HIDE DEF g
      <4> QED
        BY <4>1, <3>1
    <3>2. CASE col \in 0..k
      <4>1. g[col] = f[col] /\ (col # 0 => g[col - 1] = f[col - 1])
        BY <3>2
      <4>2. f[col] = IF col = 0 THEN rows ELSE EliminateColumn(f[col - 1], col)
        BY <3>2, <2>1 DEF AreAfter
      <4> HIDE DEF g
      <4> QED
        BY <4>1, <4>2
    <3> QED
      BY <3>1, <3>2
  <2>3. AreAfter(g, rows, k + 1)
    <3>1. g = [col \in 0..(k + 1) |-> g[col]]
      OBVIOUS
    <3> HIDE DEF g
    <3>2. [col \in 0..(k + 1) |-> g[col]]
            = [col \in 0..(k + 1) |->
                 IF col = 0 THEN rows ELSE EliminateColumn(g[col - 1], col)]
      BY <2>2
    <3> QED
      BY <3>1, <3>2 DEF AreAfter
  <2> QED
    BY <2>3
<1>3. Nat \subseteq S
  <2> HIDE DEF S
  <2> QED
    BY <1>1, <1>2, EveryNumber
<1> QED
  BY <1>3

LEMMA EliminateIs ==
  ASSUME NEW rows, Len(rows) \in Nat
  PROVE  \E f : AreAfter(f, rows, Len(rows)) /\ Eliminate(rows) = f[Len(rows)]
<1> DEFINE f == CHOOSE f : AreAfter(f, rows, Len(rows))
<1>1. AreAfter(f, rows, Len(rows))
  BY AfterExists
<1>2. Eliminate(rows) = f[Len(rows)]
  BY DEF Eliminate, AreAfter
<1> QED
  BY <1>1, <1>2

\* Rows of m words.
AreRows(R, n, m) ==
  /\ DOMAIN R = 1..n
  /\ \A r \in 1..n : DOMAIN R[r] = 1..m /\ \A c \in 1..m : R[r][c] \in Field

\* What elimination leaves: the pivot row, scaled, at its place, and every other
\* row minus so much of it that the column is cleared.
LEMMA ColumnIs ==
  ASSUME NEW n \in Nat \ {0}, NEW col \in 1..n, NEW R, DOMAIN R = 1..n,
         EliminateColumn(R, col) # Singular
  PROVE  \E p \in col..n :
           /\ R[p][col] # 0
           /\ LET S == Swapped(R, col, p)
                  pivot == Scaled(R[p], Quotient(1, R[p][col]))
              IN  EliminateColumn(R, col)
                    = [r \in 1..n |-> IF r = col THEN pivot
                                      ELSE Minus(S[r], pivot, S[r][col])]
<1> DEFINE pivots == {r \in DOMAIN R : r >= col /\ R[r][col] # 0}
           p == Min(pivots)
<1>2. pivots # {} /\ R # Singular
  BY DEF EliminateColumn
<1>3. pivots \in SUBSET Nat
  OBVIOUS
<1>4. \E x \in pivots : \A y \in pivots : x =< y
  <2> HIDE DEF pivots
  <2> QED
    BY <1>2, <1>3, LeastNumber
<1>5. p \in pivots
  BY <1>4 DEF Min
<1>6. p \in col..n /\ R[p][col] # 0
  BY <1>5
<1>7. Swapped(R, col, p)[col] = R[p]
  <2> HIDE DEF p
  <2> QED
    BY <1>6 DEF Swapped
<1>8. DOMAIN R = 1..n /\ EliminateColumn(R, col)
        = [r \in DOMAIN R |->
             IF r = col THEN Scaled(Swapped(R, col, p)[col], Quotient(1, Swapped(R, col, p)[col][col]))
             ELSE Minus(Swapped(R, col, p)[r],
                        Scaled(Swapped(R, col, p)[col], Quotient(1, Swapped(R, col, p)[col][col])),
                        Swapped(R, col, p)[r][col])]
  BY <1>2 DEF EliminateColumn
<1> HIDE DEF p
<1> QED
  BY <1>6, <1>7, <1>8

\* Without a pivot the column is zero from the diagonal on.
LEMMA NoPivot ==
  ASSUME NEW n \in Nat \ {0}, NEW col \in 1..n, NEW R, DOMAIN R = 1..n,
         EliminateColumn(R, col) = Singular
  PROVE  \A r \in col..n : R[r][col] = 0
<1> SUFFICES ASSUME NEW r \in col..n, R[r][col] # 0 PROVE FALSE
  OBVIOUS
<1> DEFINE pivots == {i \in DOMAIN R : i >= col /\ R[i][col] # 0}
           S == Swapped(R, col, Min(pivots))
           pivot == Scaled(S[col], Quotient(1, S[col][col]))
           E == [i \in DOMAIN R |-> IF i = col THEN pivot ELSE Minus(S[i], pivot, S[i][col])]
<1>1. r \in pivots
  OBVIOUS
<1>2. R # Singular
  <2>1. 1 \in DOMAIN R
    OBVIOUS
  <2> QED
    BY <2>1 DEF Singular
<1>3. EliminateColumn(R, col) = E
  BY <1>1, <1>2 DEF EliminateColumn
<1>4. DOMAIN E = 1..n
  OBVIOUS
<1> HIDE DEF E
<1>5. 1 \in DOMAIN E
  BY <1>4
<1> QED
  BY <1>3, <1>5 DEF Singular

\* The step as the lemmas about it use it: p is the pivot row, S the matrix after
\* the exchange, E the one after the step.
IsColumnStep(R, S, E, pivot, n, m, col, p) ==
  /\ p \in col..n /\ R[p][col] # 0
  /\ AreRows(R, n, m) /\ AreRows(S, n, m) /\ AreRows(E, n, m) /\ E[col] = pivot
  /\ \A c \in 1..m : pivot[c] = Product(R[p][c], Quotient(1, R[p][col]))
                     /\ pivot[c] \in Field
  /\ \A r \in (1..n) \ {col} : \A c \in 1..m :
       E[r][c] = Xor(S[r][c], Product(S[r][col], pivot[c]))
  /\ \A r \in 1..n :
       S[r] = IF r = col THEN R[p] ELSE IF r = p THEN R[col] ELSE R[r]

\* Rows stay rows of words.
LEMMA RowsStay ==
  ASSUME FieldLaws, NEW n \in Nat \ {0}, NEW m \in Nat, n <= m, NEW col \in 1..n,
         NEW R, AreRows(R, n, m),
         NEW p \in col..n, R[p][col] # 0,
         NEW S, S = Swapped(R, col, p),
         NEW pivot, pivot = Scaled(R[p], Quotient(1, R[p][col])),
         NEW E, E = [r \in 1..n |-> IF r = col THEN pivot
                                    ELSE Minus(S[r], pivot, S[r][col])]
  PROVE  IsColumnStep(R, S, E, pivot, n, m, col, p)
<1>1. p \in 1..n /\ DOMAIN R = 1..n /\ col \in 1..m
  BY DEF AreRows
<1>2. ASSUME NEW r \in 1..n
      PROVE  S[r] = IF r = col THEN R[p] ELSE IF r = p THEN R[col] ELSE R[r]
  BY <1>1 DEF Swapped
<1>3. DOMAIN S = 1..n
  BY <1>1 DEF Swapped
<1>4. AreRows(S, n, m)
  BY <1>1, <1>2, <1>3 DEF AreRows
<1>5. R[p][col] \in Field /\ DOMAIN R[p] = 1..m
  BY <1>1 DEF AreRows
<1>6. Quotient(1, R[p][col]) \in Field
  BY <1>5, FieldFacts
<1>7. ASSUME NEW c \in 1..m
      PROVE  /\ pivot[c] = Product(R[p][c], Quotient(1, R[p][col]))
             /\ pivot[c] \in Field
  <2>1. R[p][c] \in Field
    BY <1>1 DEF AreRows
  <2>2. pivot[c] = Product(R[p][c], Quotient(1, R[p][col]))
    BY <1>5 DEF Scaled
  <2>3. Product(R[p][c], Quotient(1, R[p][col])) \in Field
    BY <2>1, <1>6, FieldFacts
  <2> QED
    BY <2>2, <2>3
<1>8. DOMAIN pivot = 1..m
  BY <1>5 DEF Scaled
<1>9. ASSUME NEW r \in (1..n) \ {col}
      PROVE  /\ DOMAIN E[r] = 1..m
             /\ \A c \in 1..m : /\ E[r][c] = Xor(S[r][c], Product(S[r][col], pivot[c]))
                                /\ E[r][c] \in Field
  <2>1. E[r] = Minus(S[r], pivot, S[r][col])
    OBVIOUS
  <2>2. DOMAIN S[r] = 1..m /\ \A c \in 1..m : S[r][c] \in Field
    BY <1>4 DEF AreRows
  <2>3. \A c \in 1..m : E[r][c] = Xor(S[r][c], Product(S[r][col], pivot[c]))
    BY <2>1, <2>2 DEF Minus
  <2>4. ASSUME NEW c \in 1..m PROVE E[r][c] \in Field
    <3>1. S[r][col] \in Field /\ S[r][c] \in Field /\ pivot[c] \in Field
      BY <2>2, <1>7, <1>1
    <3>2. Product(S[r][col], pivot[c]) \in Field
      BY <3>1, FieldFacts
    <3>3. Xor(S[r][c], Product(S[r][col], pivot[c])) \in Field
      BY <3>1, <3>2, FieldFacts
    <3> QED
      BY <3>3, <2>3
  <2>5. DOMAIN E[r] = 1..m
    BY <2>1, <2>2 DEF Minus
  <2> QED
    BY <2>3, <2>4, <2>5
<1>10. E[col] = pivot /\ DOMAIN E = 1..n
  OBVIOUS
<1>11. AreRows(E, n, m)
  <2>2. ASSUME NEW r \in 1..n
        PROVE  DOMAIN E[r] = 1..m /\ \A c \in 1..m : E[r][c] \in Field
    BY <1>10, <1>7, <1>8, <1>9
  <2> QED
    BY <1>10, <2>2 DEF AreRows
<1> QED
  BY <1>2, <1>4, <1>7, <1>9, <1>10, <1>11 DEF IsColumnStep

LEMMA ColumnStep ==
  ASSUME FieldLaws, NEW n \in Nat \ {0}, NEW m \in Nat, n <= m, NEW col \in 1..n,
         NEW R, AreRows(R, n, m), NEW E, E = EliminateColumn(R, col), E # Singular
  PROVE  \E p, S, pivot : IsColumnStep(R, S, E, pivot, n, m, col, p)
<1>1. DOMAIN R = 1..n
  BY DEF AreRows
<1>2. PICK p \in col..n :
        /\ R[p][col] # 0
        /\ LET S == Swapped(R, col, p)
               pivot == Scaled(R[p], Quotient(1, R[p][col]))
           IN  E = [r \in 1..n |-> IF r = col THEN pivot
                                   ELSE Minus(S[r], pivot, S[r][col])]
  BY <1>1, ColumnIs
<1> DEFINE S == Swapped(R, col, p)
           pivot == Scaled(R[p], Quotient(1, R[p][col]))
<1>3. E = [r \in 1..n |-> IF r = col THEN pivot
                          ELSE Minus(S[r], pivot, S[r][col])]
  BY <1>2
<1>4. S = Swapped(R, col, p) /\ pivot = Scaled(R[p], Quotient(1, R[p][col]))
  OBVIOUS
<1> HIDE DEF S, pivot
<1>5. R[p][col] # 0
  BY <1>2
<1>6. IsColumnStep(R, S, E, pivot, n, m, col, p)
  BY <1>3, <1>4, <1>5, RowsStay
<1> QED
  BY <1>6

-----------------------------------------------------------------------------
(* Systems of equations *)

\* What n words of a row, those after the first ones, make of x.
Side(row, first, x, n) ==
  XorSum([k \in 1..n |-> Product(row[first + k], x[k])], n)

AreWords(row, first, n) == \A k \in 1..n : row[first + k] \in Field

\* The n words of a row, those of another one scaled, or those of it minus a
\* multiple of a third.
IsScaled(result, row, q, first, n) ==
  \A k \in 1..n : result[first + k] = Product(row[first + k], q)
IsDifference(result, row, pivot, factor, first, n) ==
  \A k \in 1..n :
    result[first + k] = Xor(row[first + k], Product(factor, pivot[first + k]))

LEMMA SideIsWord ==
  ASSUME FieldLaws, NEW n \in Nat, NEW first \in Nat, NEW row, AreWords(row, first, n),
         NEW x \in [1..n -> Field]
  PROVE  Side(row, first, x, n) \in Field
<1> DEFINE f == [k \in 1..n |-> Product(row[first + k], x[k])]
<1>1. ASSUME NEW k \in 1..n PROVE f[k] \in Field
  <2>1. row[first + k] \in Field /\ x[k] \in Field
    BY DEF AreWords
  <2>2. Product(row[first + k], x[k]) \in Field
    BY <2>1, FieldFacts
  <2> QED
    BY <2>2
<1>2. XorSum(f, n) \in Field
  <2> HIDE DEF f
  <2> QED
    BY <1>1, SumIsWord
<1> QED
  BY <1>2 DEF Side

\* A row scaled is what it makes of x, scaled.
LEMMA SideScaled ==
  ASSUME FieldLaws, NEW n \in Nat, NEW first \in Nat, NEW row, NEW pivot, NEW q \in Field,
         AreWords(row, first, n), NEW x \in [1..n -> Field],
         IsScaled(pivot, row, q, first, n)
  PROVE  Side(pivot, first, x, n) = Product(q, Side(row, first, x, n))
<1> DEFINE f == [k \in 1..n |-> Product(row[first + k], x[k])]
           h == [k \in 1..n |-> Product(pivot[first + k], x[k])]
<1>1. ASSUME NEW k \in 1..n PROVE f[k] \in Field /\ h[k] = Product(q, f[k])
  <2>1. /\ row[first + k] \in Field /\ x[k] \in Field
        /\ pivot[first + k] = Product(row[first + k], q)
    BY DEF AreWords, IsScaled
  <2>2. Product(row[first + k], x[k]) \in Field
    BY <2>1, FieldFacts
  <2>3. Product(row[first + k], q) = Product(q, row[first + k])
    BY <2>1, FieldFacts
  <2>4. Product(q, Product(row[first + k], x[k])) = Product(Product(q, row[first + k]), x[k])
    BY <2>1, FieldTriples
  <2> QED
    BY <2>1, <2>2, <2>3, <2>4
<1>2. XorSum(h, n) = Product(q, XorSum(f, n))
  <2> HIDE DEF f, h
  <2> QED
    BY <1>1, SumScaled
<1> QED
  BY <1>2 DEF Side

\* A row minus a multiple of another.
LEMMA SideMinus ==
  ASSUME FieldLaws, NEW n \in Nat, NEW first \in Nat, NEW row, NEW pivot, NEW result,
         NEW factor \in Field, AreWords(row, first, n), AreWords(pivot, first, n),
         NEW x \in [1..n -> Field],
         IsDifference(result, row, pivot, factor, first, n)
  PROVE  Side(result, first, x, n)
           = Xor(Side(row, first, x, n), Product(factor, Side(pivot, first, x, n)))
<1> DEFINE f == [k \in 1..n |-> Product(row[first + k], x[k])]
           g == [k \in 1..n |-> Product(pivot[first + k], x[k])]
           s == [k \in 1..n |-> Product(factor, g[k])]
           h == [k \in 1..n |-> Product(result[first + k], x[k])]
<1>1. ASSUME NEW k \in 1..n
      PROVE  /\ f[k] \in Field /\ g[k] \in Field /\ s[k] \in Field
             /\ s[k] = Product(factor, g[k])
             /\ h[k] = Xor(f[k], s[k])
  <2> DEFINE a == row[first + k]
             b == pivot[first + k]
             y == x[k]
  <2>1. a \in Field /\ b \in Field /\ y \in Field
    BY DEF AreWords
  <2>2. f[k] = Product(a, y) /\ g[k] = Product(b, y) /\ s[k] = Product(factor, Product(b, y))
        /\ h[k] = Product(Xor(a, Product(factor, b)), y)
    BY DEF IsDifference
  <2> HIDE DEF a, b, y, f, g, s, h
  <2>3. Product(a, y) \in Field /\ Product(b, y) \in Field /\ Product(factor, b) \in Field
    BY <2>1, FieldFacts
  <2>4. Product(factor, Product(b, y)) \in Field
    BY <2>3, FieldFacts
  <2>5. Xor(a, Product(factor, b)) \in Field
    BY <2>1, <2>3, FieldFacts
  <2>6. Product(Xor(a, Product(factor, b)), y) = Product(y, Xor(a, Product(factor, b)))
    BY <2>1, <2>5, FieldFacts
  <2>7. Product(y, Xor(a, Product(factor, b)))
          = Xor(Product(y, a), Product(y, Product(factor, b)))
    BY <2>1, <2>3, FieldTriples
  <2>8. Product(y, a) = Product(a, y) /\ Product(y, Product(factor, b)) = Product(Product(factor, b), y)
    BY <2>1, <2>3, FieldFacts
  <2>9. Product(Product(factor, b), y) = Product(factor, Product(b, y))
    BY <2>1, FieldTriples
  <2> QED
    BY <2>2, <2>3, <2>4, <2>6, <2>7, <2>8, <2>9
<1>2. XorSum(s, n) = Product(factor, XorSum(g, n))
  <2> HIDE DEF g, s
  <2> QED
    BY <1>1, SumScaled
<1>3. XorSum(h, n) = Xor(XorSum(f, n), XorSum(s, n))
  <2> HIDE DEF f, s, h
  <2> QED
    BY <1>1, SumPlus
<1>4. /\ Side(row, first, x, n) = XorSum(f, n) /\ Side(pivot, first, x, n) = XorSum(g, n)
      /\ Side(result, first, x, n) = XorSum(h, n)
  BY DEF Side
<1> HIDE DEF f, g, s, h
<1> QED
  BY <1>2, <1>3, <1>4

\* x on the left and y on the right solve every equation of the system.
Solves(R, n, x, y) == \A r \in 1..n : Side(R[r], 0, x, n) = Side(R[r], n, y, n)

\* x leaves no trace on the left.
Vanishes(R, n, x) == \A r \in 1..n : Side(R[r], 0, x, n) = 0

LEMMA RowsAreWords ==
  ASSUME NEW n \in Nat, NEW m \in Nat, NEW R, AreRows(R, n, m), NEW r \in 1..n
  PROVE  /\ n <= m => AreWords(R[r], 0, n)
         /\ 2 * n <= m => AreWords(R[r], n, n)
<1>1. \A c \in 1..m : R[r][c] \in Field
  BY DEF AreRows
<1>2. \A k \in 1..n : n <= m => 0 + k \in 1..m
  OBVIOUS
<1>3. \A k \in 1..n : 2 * n <= m => n + k \in 1..m
  OBVIOUS
<1> QED
  BY <1>1, <1>2, <1>3 DEF AreWords

\* What a step makes of the sides of a row.
LEMMA StepOfSide ==
  ASSUME FieldLaws, NEW n \in Nat \ {0}, NEW m \in Nat, n <= m, NEW col \in 1..n,
         NEW R, NEW S, NEW E, NEW pivot, NEW p,
         IsColumnStep(R, S, E, pivot, n, m, col, p),
         NEW first \in Nat, first + n <= m, NEW x \in [1..n -> Field]
  PROVE  /\ R[p][col] \in Field /\ Quotient(1, R[p][col]) \in Field
         /\ Side(E[col], first, x, n)
              = Product(Quotient(1, R[p][col]), Side(R[p], first, x, n))
         /\ \A r \in (1..n) \ {col} :
              /\ S[r][col] \in Field
              /\ Side(E[r], first, x, n)
                   = Xor(Side(S[r], first, x, n),
                         Product(S[r][col], Side(E[col], first, x, n)))
<1>1. /\ p \in col..n /\ R[p][col] # 0
      /\ AreRows(R, n, m) /\ AreRows(S, n, m) /\ AreRows(E, n, m) /\ E[col] = pivot
  BY DEF IsColumnStep
<1>2. p \in 1..n /\ col \in 1..m
  BY <1>1
<1>3. R[p][col] \in Field
  BY <1>1, <1>2 DEF AreRows
<1>4. Quotient(1, R[p][col]) \in Field
  BY <1>1, <1>3, FieldFacts
<1>5. n \in Nat /\ \A k \in 1..n : first + k \in 1..m
  OBVIOUS
<1>6. ASSUME NEW T, AreRows(T, n, m), NEW r \in 1..n PROVE AreWords(T[r], first, n)
  BY <1>5, <1>6 DEF AreRows, AreWords
<1>7. Side(E[col], first, x, n) = Product(Quotient(1, R[p][col]), Side(R[p], first, x, n))
  <2>1. \A k \in 1..n : pivot[first + k] = Product(R[p][first + k], Quotient(1, R[p][col]))
    BY <1>5 DEF IsColumnStep
  <2>2. AreWords(R[p], first, n)
    BY <1>1, <1>2, <1>6
  <2> DEFINE q == Quotient(1, R[p][col])
             row == R[p]
  <2>3. IsScaled(pivot, row, q, first, n)
    BY <2>1 DEF IsScaled
  <2>4. AreWords(row, first, n) /\ q \in Field
    BY <2>2, <1>4
  <2> HIDE DEF q, row
  <2>5. Side(pivot, first, x, n) = Product(q, Side(row, first, x, n))
    BY <1>5, <2>3, <2>4, SideScaled
  <2> QED
    BY <2>5, <1>1 DEF q, row
<1>8. ASSUME NEW r \in (1..n) \ {col}
      PROVE  /\ S[r][col] \in Field
             /\ Side(E[r], first, x, n)
                  = Xor(Side(S[r], first, x, n),
                        Product(S[r][col], Side(E[col], first, x, n)))
  <2>1. S[r][col] \in Field
    BY <1>1, <1>2 DEF AreRows
  <2>2. \A k \in 1..n : E[r][first + k]
          = Xor(S[r][first + k], Product(S[r][col], pivot[first + k]))
    BY <1>5 DEF IsColumnStep
  <2>3. AreWords(S[r], first, n) /\ AreWords(pivot, first, n)
    BY <1>1, <1>6
  <2> DEFINE factor == S[r][col]
             row == S[r]
             result == E[r]
  <2>4. IsDifference(result, row, pivot, factor, first, n)
    BY <2>2 DEF IsDifference
  <2>5. AreWords(row, first, n) /\ factor \in Field
    BY <2>1, <2>3
  <2> HIDE DEF factor, row, result
  <2>6. Side(result, first, x, n)
          = Xor(Side(row, first, x, n), Product(factor, Side(pivot, first, x, n)))
    BY <1>5, <2>3, <2>4, <2>5, SideMinus
  <2> QED
    BY <2>1, <2>6, <1>1 DEF factor, row, result
<1> QED
  BY <1>3, <1>4, <1>7, <1>8

\* A step keeps every solution.
LEMMA StepKeepsSolutions ==
  ASSUME FieldLaws, NEW n \in Nat \ {0}, NEW col \in 1..n,
         NEW R, NEW S, NEW E, NEW pivot, NEW p,
         IsColumnStep(R, S, E, pivot, n, 2 * n, col, p),
         NEW x \in [1..n -> Field], NEW y \in [1..n -> Field], Solves(R, n, x, y)
  PROVE  Solves(E, n, x, y)
<1>1. 0 \in Nat /\ n \in Nat /\ 2 * n \in Nat /\ n <= 2 * n /\ 0 + n <= 2 * n /\ n + n <= 2 * n
  OBVIOUS
<1>2. /\ Side(E[col], 0, x, n) = Product(Quotient(1, R[p][col]), Side(R[p], 0, x, n))
      /\ \A r \in (1..n) \ {col} :
           Side(E[r], 0, x, n) = Xor(Side(S[r], 0, x, n),
                                     Product(S[r][col], Side(E[col], 0, x, n)))
  BY <1>1, StepOfSide
<1>3. /\ Side(E[col], n, y, n) = Product(Quotient(1, R[p][col]), Side(R[p], n, y, n))
      /\ \A r \in (1..n) \ {col} :
           Side(E[r], n, y, n) = Xor(Side(S[r], n, y, n),
                                     Product(S[r][col], Side(E[col], n, y, n)))
  BY <1>1, StepOfSide
<1>4. /\ p \in 1..n
      /\ \A r \in 1..n :
           S[r] = IF r = col THEN R[p] ELSE IF r = p THEN R[col] ELSE R[r]
  BY DEF IsColumnStep
<1>5. Side(E[col], 0, x, n) = Side(E[col], n, y, n)
  BY <1>2, <1>3, <1>4 DEF Solves
<1>6. ASSUME NEW r \in (1..n) \ {col} PROVE Side(E[r], 0, x, n) = Side(E[r], n, y, n)
  <2>1. Side(S[r], 0, x, n) = Side(S[r], n, y, n)
    BY <1>4 DEF Solves
  <2> QED
    BY <2>1, <1>2, <1>3, <1>5
<1> QED
  BY <1>5, <1>6 DEF Solves

\* And it adds none: what leaves no trace after it left none before.
LEMMA StepAddsNone ==
  ASSUME FieldLaws, NEW n \in Nat \ {0}, NEW m \in Nat, n <= m, NEW col \in 1..n,
         NEW R, NEW S, NEW E, NEW pivot, NEW p,
         IsColumnStep(R, S, E, pivot, n, m, col, p),
         NEW x \in [1..n -> Field], Vanishes(E, n, x)
  PROVE  Vanishes(R, n, x)
<1>1. 0 + n <= m /\ n \in Nat /\ 0 \in Nat
  OBVIOUS
<1>2. /\ R[p][col] \in Field /\ Quotient(1, R[p][col]) \in Field
      /\ Side(E[col], 0, x, n) = Product(Quotient(1, R[p][col]), Side(R[p], 0, x, n))
      /\ \A r \in (1..n) \ {col} :
           /\ S[r][col] \in Field
           /\ Side(E[r], 0, x, n) = Xor(Side(S[r], 0, x, n),
                                        Product(S[r][col], Side(E[col], 0, x, n)))
  BY <1>1, StepOfSide
<1>3. /\ p \in col..n /\ p \in 1..n /\ R[p][col] # 0
      /\ AreRows(R, n, m) /\ AreRows(S, n, m)
      /\ \A r \in 1..n :
           S[r] = IF r = col THEN R[p] ELSE IF r = p THEN R[col] ELSE R[r]
  BY DEF IsColumnStep
<1>4. \A r \in 1..n : Side(E[r], 0, x, n) = 0
  BY DEF Vanishes
<1>5. Side(R[p], 0, x, n) = 0
  <2>1. Side(R[p], 0, x, n) \in Field
    BY <1>1, <1>3, RowsAreWords, SideIsWord
  <2> DEFINE a == R[p][col]
             b == Side(R[p], 0, x, n)
             q == Quotient(1, a)
  <2>2. Product(q, b) = 0
    BY <1>2, <1>4
  <2>3. a \in Field /\ a # 0 /\ b \in Field /\ q \in Field
    BY <1>2, <1>3, <2>1
  <2> HIDE DEF b
  <2>4. Product(a, Product(b, Quotient(1, a))) = b
    BY <2>3, TimesQuotient
  <2>5. Product(b, q) = Product(q, b) /\ Product(a, 0) = 0
    BY <2>3, FieldFacts
  <2> QED
    BY <2>2, <2>4, <2>5 DEF b
<1>6. ASSUME NEW r \in (1..n) \ {col} PROVE Side(S[r], 0, x, n) = 0
  <2>1. Side(S[r], 0, x, n) \in Field
    BY <1>1, <1>3, RowsAreWords, SideIsWord
  <2>2. Side(E[r], 0, x, n) = 0 /\ Side(E[col], 0, x, n) = 0
    BY <1>4
  <2>3. Side(E[r], 0, x, n) = Xor(Side(S[r], 0, x, n), Product(S[r][col], 0)) /\ S[r][col] \in Field
    BY <1>2, <2>2
  <2>4. Product(S[r][col], 0) = 0 /\ Xor(Side(S[r], 0, x, n), 0) = Side(S[r], 0, x, n)
    BY <2>1, <2>3, FieldFacts
  <2> QED
    BY <2>2, <2>3, <2>4
<1>7. ASSUME NEW r \in 1..n PROVE Side(R[r], 0, x, n) = 0
  <2>1. CASE r = p
    BY <2>1, <1>5
  <2>2. CASE r = col /\ r # p
    <3>1. S[p] = R[r] /\ p \in (1..n) \ {col}
      BY <2>2, <1>3
    <3> QED
      BY <3>1, <1>6
  <2>3. CASE r # col /\ r # p
    <3>1. S[r] = R[r]
      BY <2>3, <1>3
    <3> QED
      BY <2>3, <3>1, <1>6
  <2> QED
    BY <2>1, <2>2, <2>3
<1> QED
  BY <1>7 DEF Vanishes

\* The first columns are those of the identity.
Cleared(R, n, k) ==
  \A c \in 1..k : \A r \in 1..n : R[r][c] = IF r = c THEN 1 ELSE 0

LEMMA StepClears ==
  ASSUME FieldLaws, NEW n \in Nat \ {0}, NEW m \in Nat, n <= m, NEW col \in 1..n,
         NEW R, NEW S, NEW E, NEW pivot, NEW p,
         IsColumnStep(R, S, E, pivot, n, m, col, p), Cleared(R, n, col - 1)
  PROVE  Cleared(E, n, col)
<1>1. /\ p \in col..n /\ p \in 1..n /\ R[p][col] # 0
      /\ AreRows(R, n, m) /\ AreRows(S, n, m) /\ E[col] = pivot
      /\ \A r \in 1..n :
           S[r] = IF r = col THEN R[p] ELSE IF r = p THEN R[col] ELSE R[r]
  BY DEF IsColumnStep
<1>2. \A c \in 1..m : /\ pivot[c] = Product(R[p][c], Quotient(1, R[p][col]))
                      /\ pivot[c] \in Field
  BY DEF IsColumnStep
<1>3. \A r \in (1..n) \ {col} : \A c \in 1..m :
        E[r][c] = Xor(S[r][c], Product(S[r][col], pivot[c]))
  BY DEF IsColumnStep
<1>4. R[p][col] \in Field /\ col \in 1..m
  BY <1>1 DEF AreRows
<1>5. Quotient(1, R[p][col]) \in Field
  BY <1>1, <1>4, FieldFacts
<1>6. pivot[col] = 1
  BY <1>1, <1>2, <1>4, FieldFacts
<1>7. ASSUME NEW r \in (1..n) \ {col} PROVE E[r][col] = 0
  <2>1. S[r][col] \in Field
    BY <1>1, <1>4 DEF AreRows
  <2>2. E[r][col] = Xor(S[r][col], Product(S[r][col], 1))
    BY <1>3, <1>4, <1>6
  <2>3. Product(S[r][col], 1) = S[r][col] /\ Xor(S[r][col], S[r][col]) = 0
    BY <2>1, FieldFacts
  <2> QED
    BY <2>2, <2>3
<1>8. ASSUME NEW c \in 1..(col - 1), NEW r \in 1..n
      PROVE  E[r][c] = IF r = c THEN 1 ELSE 0
  <2>1. c \in 1..m /\ c \in 1..n /\ c # col /\ c # p
    BY <1>1
  <2>2. \A i \in 1..n : R[i][c] = IF i = c THEN 1 ELSE 0
    BY DEF Cleared
  <2>3. pivot[c] = 0
    <3>1. R[p][c] = 0
      BY <1>1, <2>1, <2>2
    <3> QED
      BY <3>1, <1>2, <1>5, <2>1, FieldFacts
  <2>4. CASE r = col
    BY <2>4, <2>1, <2>3, <1>1
  <2>5. CASE r # col
    <3>1. S[r][c] = IF r = c THEN 1 ELSE 0
      <4>1. CASE r = p
        BY <4>1, <2>5, <1>1, <2>1, <2>2
      <4>2. CASE r # p
        BY <4>2, <2>5, <1>1, <2>2
      <4> QED
        BY <4>1, <4>2
    <3>2. S[r][col] \in Field /\ S[r][c] \in Field
      BY <1>1, <1>4, <2>1 DEF AreRows
    <3>3. E[r][c] = Xor(S[r][c], Product(S[r][col], 0))
      BY <1>3, <2>1, <2>3, <2>5
    <3>4. Product(S[r][col], 0) = 0 /\ Xor(S[r][c], 0) = S[r][c]
      BY <3>2, FieldFacts
    <3> QED
      BY <3>1, <3>3, <3>4
  <2> QED
    BY <2>4, <2>5
<1>9. \A c \in 1..col : c \in 1..(col - 1) \/ c = col
  OBVIOUS
<1> QED
  BY <1>1, <1>6, <1>7, <1>8, <1>9 DEF Cleared

\* A column without pivot is a combination of the columns before it.
LEMMA NoPivotVanishes ==
  ASSUME FieldLaws, NEW n \in Nat \ {0}, NEW m \in Nat, n <= m, NEW col \in 1..n,
         NEW R, AreRows(R, n, m), Cleared(R, n, col - 1),
         \A r \in col..n : R[r][col] = 0
  PROVE  \E x \in [1..n -> Field] : x[col] # 0 /\ Vanishes(R, n, x)
<1> DEFINE x == [k \in 1..n |-> IF k < col THEN R[k][col] ELSE IF k = col THEN 1 ELSE 0]
<1>1. 0 \in Field /\ 1 \in Field
  BY DEF FieldLaws
<1>2. \A r, c \in 1..n : R[r][c] \in Field
  BY DEF AreRows
<1>3. x \in [1..n -> Field]
  BY <1>1, <1>2
<1>4. 1 # 0
  OBVIOUS
<1>5. ASSUME NEW r \in 1..n PROVE Side(R[r], 0, x, n) = 0
  <2> DEFINE f == [k \in 1..n |-> Product(R[r][0 + k], x[k])]
  <2>1. Side(R[r], 0, x, n) = XorSum(f, n)
    BY DEF Side
  <2>2. \A k \in 1..n : f[k] = Product(R[r][k], x[k])
    OBVIOUS
  <2>3. \A k \in 1..n : x[k] = IF k < col THEN R[k][col] ELSE IF k = col THEN 1 ELSE 0
    OBVIOUS
  <2> HIDE DEF f, x
  <2>4. ASSUME NEW k \in 1..n, k < col, k # r PROVE f[k] = 0
    <3>1. R[r][k] = 0
      BY <2>4 DEF Cleared
    <3>2. Product(0, x[k]) = 0
      BY <1>3, FieldFacts
    <3> QED
      BY <3>1, <3>2, <2>2
  <2>5. ASSUME NEW k \in 1..n, col < k PROVE f[k] = 0
    <3>1. x[k] = 0
      BY <2>3, <2>5
    <3>2. Product(R[r][k], 0) = 0
      BY <1>2, FieldFacts
    <3> QED
      BY <3>1, <3>2, <2>2
  <2>6. f[col] = R[r][col]
    <3>1. x[col] = 1
      BY <2>3
    <3>2. Product(R[r][col], 1) = R[r][col]
      BY <1>2, FieldFacts
    <3> QED
      BY <3>1, <3>2, <2>2
  <2>7. CASE r >= col
    <3>1. R[r][col] = 0
      BY <2>7
    <3>2. \A k \in 1..n : f[k] = 0
      BY <3>1, <2>4, <2>5, <2>6, <2>7
    <3> QED
      BY <3>2, <2>1, SumOfZeros
  <2>8. CASE r < col
    <3> DEFINE v == R[r][col]
               g == [k \in 1..n |-> IF k = r THEN v ELSE 0]
    <3>1. v \in Field
      BY <1>2
    <3>2. f[r] = v
      <4>1. R[r][r] = 1 /\ x[r] = v
        BY <2>3, <2>8 DEF Cleared
      <4>2. Product(1, v) = v
        BY <3>1, FieldFacts
      <4> QED
        BY <4>1, <4>2, <2>2
    <3>3. \A k \in 1..n : g[k] = IF k = r THEN v ELSE 0
      OBVIOUS
    <3>4. Xor(0, v) = v /\ Xor(v, v) = 0
      BY <3>1, FieldFacts
    <3> HIDE DEF g, v
    <3>5. XorSum(g, n) = v
      BY <1>1, <3>1, <3>3, SumOfOne
    <3>6. \A k \in 1..n : g[k] \in Field /\ (k # col => f[k] = g[k])
      BY <1>1, <3>1, <3>2, <3>3, <2>4, <2>5
    <3>7. f[col] = Xor(g[col], v)
      BY <3>3, <3>4, <2>6, <2>8 DEF v
    <3>8. XorSum(f, n) = Xor(XorSum(g, n), v)
      BY <3>1, <3>6, <3>7, SumChanged
    <3> QED
      BY <3>4, <3>5, <3>8, <2>1
  <2> QED
    BY <2>7, <2>8
<1>6. x[col] = 1
  OBVIOUS
<1> HIDE DEF x
<1>7. Vanishes(R, n, x)
  BY <1>5 DEF Vanishes
<1> QED
  BY <1>3, <1>4, <1>6, <1>7

\* Elimination finds the identity on the left, in a system with the same
\* solutions and more, or something that leaves no trace.
LEMMA EliminationIs ==
  ASSUME FieldLaws, NEW n \in Nat \ {0}, NEW rows, AreRows(rows, n, 2 * n), Len(rows) = n
  PROVE  \/ /\ Eliminate(rows) = Singular
            /\ \E x \in [1..n -> Field] : (\E k \in 1..n : x[k] # 0) /\ Vanishes(rows, n, x)
         \/ /\ Eliminate(rows) # Singular
            /\ AreRows(Eliminate(rows), n, 2 * n) /\ Cleared(Eliminate(rows), n, n)
            /\ \A x, y \in [1..n -> Field] :
                 Solves(rows, n, x, y) => Solves(Eliminate(rows), n, x, y)
<1> DEFINE m == 2 * n
           Lost(R) == \E x \in [1..n -> Field] :
                        (\E k \in 1..n : x[k] # 0) /\ Vanishes(R, n, x)
           Good(R, k) ==
             /\ R # Singular /\ AreRows(R, n, m) /\ Cleared(R, n, k)
             /\ \A x, y \in [1..n -> Field] : Solves(rows, n, x, y) => Solves(R, n, x, y)
             /\ \A x \in [1..n -> Field] : Vanishes(R, n, x) => Vanishes(rows, n, x)
<1>1. PICK f : AreAfter(f, rows, n) /\ Eliminate(rows) = f[n]
  BY EliminateIs
<1>2. \A col \in 0..n :
        f[col] = IF col = 0 THEN rows ELSE EliminateColumn(f[col - 1], col)
  BY <1>1 DEF AreAfter
<1>3. m \in Nat /\ n <= m
  OBVIOUS
<1> DEFINE T == {k \in Nat : k <= n => \/ f[k] = Singular /\ Lost(rows)
                                       \/ Good(f[k], k)}
<1>4. 0 \in T
  <2>1. f[0] = rows
    BY <1>2
  <2>2. rows # Singular
    <3>1. 1 \in DOMAIN rows
      BY DEF AreRows
    <3> QED
      BY <3>1 DEF Singular
  <2>3. Cleared(rows, n, 0)
    BY DEF Cleared
  <2> QED
    BY <2>1, <2>2, <2>3
<1>5. ASSUME NEW k \in Nat, k \in T PROVE k + 1 \in T
  <2> SUFFICES ASSUME k + 1 <= n
               PROVE  \/ f[k + 1] = Singular /\ Lost(rows)
                      \/ Good(f[k + 1], k + 1)
    OBVIOUS
  <2> DEFINE R == f[k]
             E == f[k + 1]
             col == k + 1
  <2>1. E = EliminateColumn(R, col) /\ col \in 1..n /\ col - 1 = k
    BY <1>2
  <2>2. (R = Singular /\ Lost(rows)) \/ Good(R, col - 1)
    BY <1>5, <2>1
  <2> HIDE DEF R, E, col
  <2>3. (E = Singular /\ Lost(rows)) \/ Good(E, col)
    <3>1. CASE R = Singular /\ Lost(rows)
      BY <3>1, <2>1 DEF EliminateColumn
    <3>2. CASE Good(R, col - 1) /\ E = Singular
      <4>1. DOMAIN R = 1..n
        BY <3>2 DEF AreRows
      <4>2. \A r \in col..n : R[r][col] = 0
        BY <4>1, <3>2, <2>1, NoPivot
      <4>3. PICK x \in [1..n -> Field] : x[col] # 0 /\ Vanishes(R, n, x)
        BY <4>2, <3>2, <2>1, <1>3, NoPivotVanishes
      <4>4. Vanishes(rows, n, x)
        BY <4>3, <3>2
      <4> QED
        BY <4>3, <4>4, <3>2, <2>1
    <3>3. CASE Good(R, col - 1) /\ E # Singular
      <4>1. PICK p, S, pivot : IsColumnStep(R, S, E, pivot, n, m, col, p)
        BY <3>3, <2>1, <1>3, ColumnStep
      <4>2. AreRows(E, n, m)
        BY <4>1 DEF IsColumnStep
      <4>3. Cleared(E, n, col)
        BY <4>1, <3>3, <2>1, <1>3, StepClears
      <4>4. ASSUME NEW x \in [1..n -> Field], NEW y \in [1..n -> Field], Solves(rows, n, x, y)
            PROVE  Solves(E, n, x, y)
        <5>1. Solves(R, n, x, y)
          BY <4>4, <3>3
        <5> QED
          BY <5>1, <4>1, <2>1, StepKeepsSolutions
      <4>5. ASSUME NEW x \in [1..n -> Field], Vanishes(E, n, x) PROVE Vanishes(rows, n, x)
        <5>1. Vanishes(R, n, x)
          BY <4>5, <4>1, <2>1, <1>3, StepAddsNone
        <5> QED
          BY <5>1, <3>3
      <4> QED
        BY <4>2, <4>3, <4>4, <4>5, <3>3
    <3> QED
      BY <3>1, <3>2, <3>3, <2>2
  <2> QED
    BY <2>3 DEF E, col
<1>6. n \in T
  <2> HIDE DEF T
  <2>1. Nat \subseteq T
    BY <1>4, <1>5, EveryNumber
  <2> QED
    BY <2>1
<1>7. (f[n] = Singular /\ Lost(rows)) \/ Good(f[n], n)
  BY <1>6
<1> QED
  BY <1>1, <1>7

\* What the rows of a matrix make of x.
Image(matrix, x, n) == [r \in 1..n |-> Side(matrix[r], 0, x, n)]

\* The system that is eliminated: the matrix, then the identity.
Augmented(matrix, n) ==
  [r \in 1..n |-> matrix[r] \o [j \in 1..n |-> IF j = r THEN 1 ELSE 0]]

IsAugmented(rows, matrix, n) ==
  /\ AreRows(rows, n, 2 * n) /\ Len(rows) = n
  /\ \A r \in 1..n :
       /\ \A c \in 1..n : rows[r][c] = matrix[r][c]
       /\ \A j \in 1..n : rows[r][n + j] = IF j = r THEN 1 ELSE 0

\* It keeps the matrix in its first columns and has the identity in the others.
LEMMA AugmentedIs ==
  ASSUME FieldLaws, NEW n \in Nat \ {0}, NEW matrix \in [1..n -> [1..n -> Field]]
  PROVE  IsAugmented(Augmented(matrix, n), matrix, n)
<1> DEFINE Identity(r) == [j \in 1..n |-> IF j = r THEN 1 ELSE 0]
           rows == Augmented(matrix, n)
<1>2. rows = [r \in 1..n |-> matrix[r] \o Identity(r)]
  BY DEF Augmented
<1> HIDE DEF rows
<1>1. 0 \in Field /\ 1 \in Field
  BY DEF FieldLaws
<1>3. ASSUME NEW r \in 1..n
      PROVE  /\ DOMAIN rows[r] = 1..(2 * n)
             /\ \A c \in 1..n : rows[r][c] = matrix[r][c]
             /\ \A j \in 1..n : rows[r][n + j] = IF j = r THEN 1 ELSE 0
  <2>1. matrix[r] \in Seq(Field) /\ Len(matrix[r]) = n
    OBVIOUS
  <2>2. Identity(r) \in Seq({0, 1}) /\ Len(Identity(r)) = n
        /\ \A j \in 1..n : Identity(r)[j] = IF j = r THEN 1 ELSE 0
    OBVIOUS
  <2>3. rows[r] = matrix[r] \o Identity(r)
    BY <1>2
  <2> HIDE DEF Identity
  <2>4. /\ DOMAIN rows[r] = 1..(n + n) /\ n + n = 2 * n
        /\ \A c \in 1..n : rows[r][c] = matrix[r][c]
        /\ \A j \in 1..n : rows[r][n + j] = Identity(r)[j]
    <3>1. Identity(r) \in Seq(Field)
      BY <1>1, <2>2
    <3> DEFINE a == matrix[r]
               b == Identity(r)
    <3>2. a \in Seq(Field) /\ b \in Seq(Field) /\ Len(a) = n /\ Len(b) = n
      BY <2>1, <2>2, <3>1
    <3> HIDE DEF a, b
    <3>7. /\ a \o b \in Seq(Field) /\ Len(a \o b) = Len(a) + Len(b)
          /\ \A i \in 1..(Len(a) + Len(b)) :
               (a \o b)[i] = IF i <= Len(a) THEN a[i] ELSE b[i - Len(a)]
      BY <3>2, ConcatProperties
    <3>3. /\ a \o b \in Seq(Field) /\ Len(a \o b) = n + n
          /\ \A i \in 1..(n + n) : (a \o b)[i] = IF i <= n THEN a[i] ELSE b[i - n]
      BY <3>2, <3>7
    <3>4. DOMAIN (a \o b) = 1..(n + n)
      BY <3>3
    <3>5. \A c \in 1..n : (a \o b)[c] = a[c]
      BY <3>3
    <3>6. ASSUME NEW k \in 1..n PROVE (a \o b)[n + k] = b[k]
      <4>1. n + k \in 1..(n + n) /\ ~(n + k <= n) /\ n + k - n = k
        OBVIOUS
      <4> QED
        BY <4>1, <3>3
    <3> QED
      BY <3>4, <3>5, <3>6, <2>3 DEF a, b
  <2> QED
    BY <2>2, <2>4
<1>4. DOMAIN rows = 1..n /\ Len(rows) = n
  BY <1>2
<1>5. AreRows(rows, n, 2 * n)
  <2>1. ASSUME NEW r \in 1..n, NEW c \in 1..(2 * n) PROVE rows[r][c] \in Field
    <3>1. CASE c \in 1..n
      BY <3>1, <1>3
    <3>2. CASE c \notin 1..n
      <4>1. c - n \in 1..n /\ n + (c - n) = c
        BY <3>2
      <4>2. rows[r][n + (c - n)] \in Field
        BY <4>1, <1>1, <1>3
      <4> QED
        BY <4>1, <4>2
    <3> QED
      BY <3>1, <3>2
  <2> QED
    BY <2>1, <1>3, <1>4 DEF AreRows
<1> QED
  <2>1. IsAugmented(rows, matrix, n)
    BY <1>3, <1>4, <1>5 DEF IsAugmented
  <2> QED
    BY <2>1 DEF rows

\* What takes the image of a vector back to it.
Inverts(inverse, matrix, n) ==
  /\ inverse \in [1..n -> [1..n -> Field]]
  /\ \A x \in [1..n -> Field] : \A r \in 1..n :
       Side(inverse[r], 0, Image(matrix, x, n), n) = x[r]


\* An inverse gives back whatever the matrix was applied to; without one there
\* is something other than zero that the matrix makes zero.
LEMMA InverseIs ==
  ASSUME FieldLaws, NEW n \in Nat \ {0}, NEW matrix \in [1..n -> [1..n -> Field]],
         NEW inverse, inverse = Invert(matrix)
  PROVE  /\ inverse = Singular =>
              \E x \in [1..n -> Field] :
                (\E k \in 1..n : x[k] # 0) /\ \A r \in 1..n : Side(matrix[r], 0, x, n) = 0
         /\ inverse # Singular => Inverts(inverse, matrix, n)
<1> DEFINE Identity(r) == [j \in 1..n |-> IF j = r THEN 1 ELSE 0]
           rows == [r \in 1..n |-> matrix[r] \o Identity(r)]
           E == Eliminate(rows)
<1>1. Len(matrix) = n /\ 0 \in Field /\ 1 \in Field
  BY DEF FieldLaws
<1>2. inverse = IF E = Singular THEN Singular
                ELSE [r \in 1..n |-> SubSeq(E[r], n + 1, 2 * n)]
  BY <1>1 DEF Invert
<1> HIDE DEF E
<1>4. rows = Augmented(matrix, n)
  BY DEF Augmented
<1> HIDE DEF rows
<1>3. /\ AreRows(rows, n, 2 * n) /\ Len(rows) = n
      /\ \A r \in 1..n :
           /\ \A c \in 1..n : rows[r][c] = matrix[r][c]
           /\ \A j \in 1..n : rows[r][n + j] = IF j = r THEN 1 ELSE 0
  <2>1. IsAugmented(rows, matrix, n)
    BY <1>4, AugmentedIs
  <2> QED
    BY <2>1 DEF IsAugmented
<1>6. \/ /\ E = Singular
         /\ \E x \in [1..n -> Field] : (\E k \in 1..n : x[k] # 0) /\ Vanishes(rows, n, x)
      \/ /\ E # Singular
         /\ AreRows(E, n, 2 * n) /\ Cleared(E, n, n)
         /\ \A x, y \in [1..n -> Field] : Solves(rows, n, x, y) => Solves(E, n, x, y)
  BY <1>3, EliminationIs DEF E
<1>7. ASSUME NEW x \in [1..n -> Field], NEW r \in 1..n
      PROVE  Side(rows[r], 0, x, n) = Side(matrix[r], 0, x, n)
  <2> DEFINE f == [k \in 1..n |-> Product(rows[r][0 + k], x[k])]
             g == [k \in 1..n |-> Product(matrix[r][0 + k], x[k])]
  <2>1. \A k \in 1..n : f[k] = g[k]
    BY <1>3
  <2> HIDE DEF f, g
  <2>2. XorSum(f, n) = XorSum(g, n)
    BY <2>1, SumSame
  <2> QED
    BY <2>2 DEF Side, f, g
<1>8. ASSUME E = Singular
      PROVE  \E x \in [1..n -> Field] :
               (\E k \in 1..n : x[k] # 0) /\ \A r \in 1..n : Side(matrix[r], 0, x, n) = 0
  <2>1. PICK x \in [1..n -> Field] : (\E k \in 1..n : x[k] # 0) /\ Vanishes(rows, n, x)
    BY <1>6, <1>8
  <2>2. \A r \in 1..n : Side(matrix[r], 0, x, n) = 0
    BY <2>1, <1>7 DEF Vanishes
  <2> QED
    BY <2>1, <2>2
<1>9. ASSUME E # Singular
      PROVE  /\ inverse \in [1..n -> [1..n -> Field]]
             /\ \A r, j \in 1..n : inverse[r][j] = E[r][n + j]
  <2>1. \A r \in 1..n : \A c \in 1..(2 * n) : E[r][c] \in Field
    BY <1>6, <1>9 DEF AreRows
  <2>2. inverse = [r \in 1..n |-> SubSeq(E[r], n + 1, 2 * n)]
    BY <1>2, <1>9
  <2>3. ASSUME NEW r \in 1..n
        PROVE  /\ SubSeq(E[r], n + 1, 2 * n) \in [1..n -> Field]
               /\ \A j \in 1..n : SubSeq(E[r], n + 1, 2 * n)[j] = E[r][n + j]
    <3> DEFINE s == E[r]
               a == n + 1
               b == 2 * n
               t == SubSeq(s, a, b)
    <3>1. a \in Int /\ b \in Int /\ a <= b /\ b - a + 1 = n /\ \A j \in 1..n : a + j - 1 = n + j
      OBVIOUS
    <3>2. \A i \in a..b : s[i] \in Field
      BY <2>1
    <3> HIDE DEF a, b, s
    <3>3. /\ t \in Seq(Field) /\ Len(t) = IF a <= b THEN b - a + 1 ELSE 0
          /\ \A i \in 1..(b - a + 1) : t[i] = s[a + i - 1]
      BY <3>1, <3>2, SubSeqProperties
    <3>4. \A j \in 1..n : t[j] = s[a + j - 1]
      BY <3>1, <3>3
    <3> HIDE DEF t
    <3>5. \A j \in 1..n : t[j] = s[n + j]
      BY <3>1, <3>4
    <3>6. t \in [1..n -> Field]
      BY <3>1, <3>3
    <3> QED
      BY <3>5, <3>6 DEF s, a, b, t
  <2>4. inverse \in [1..n -> [1..n -> Field]]
    BY <2>2, <2>3
  <2> QED
    BY <2>2, <2>3, <2>4
<1>10. ASSUME E # Singular, NEW x \in [1..n -> Field], NEW r \in 1..n
       PROVE  Side(inverse[r], 0, Image(matrix, x, n), n) = x[r]
  <2> DEFINE y == Image(matrix, x, n)
  <2>1. \A i \in 1..n : y[i] = Side(matrix[i], 0, x, n)
    BY DEF Image
  <2>2. \A i \in 1..n : y[i] \in Field
    <3>1. ASSUME NEW i \in 1..n PROVE AreWords(matrix[i], 0, n)
      BY DEF AreWords
    <3> QED
      BY <3>1, <2>1, SideIsWord
  <2>3. y \in [1..n -> Field]
    BY <2>2 DEF Image
  <2> HIDE DEF y
  <2>4. ASSUME NEW i \in 1..n PROVE Side(rows[i], n, y, n) = y[i]
    <3> DEFINE f == [k \in 1..n |-> Product(rows[i][n + k], y[k])]
    <3>1. ASSUME NEW k \in 1..n PROVE f[k] = IF k = i THEN y[k] ELSE 0
      <4>1. rows[i][n + k] = IF k = i THEN 1 ELSE 0
        BY <1>3
      <4>2. Product(1, y[k]) = y[k] /\ Product(0, y[k]) = 0
        BY <2>2, FieldFacts
      <4> QED
        BY <4>1, <4>2
    <3> HIDE DEF f
    <3>2. XorSum(f, n) = f[i]
      BY <3>1, <2>2, SumOfOne
    <3> QED
      BY <3>1, <3>2 DEF Side, f
  <2>5. Solves(rows, n, x, y)
    BY <2>1, <2>4, <1>7 DEF Solves
  <2>6. Side(E[r], 0, x, n) = Side(E[r], n, y, n)
    BY <2>3, <2>5, <1>6, <1>10 DEF Solves
  <2>7. Side(E[r], 0, x, n) = x[r]
    <3> DEFINE f == [k \in 1..n |-> Product(E[r][0 + k], x[k])]
    <3>1. ASSUME NEW k \in 1..n PROVE f[k] = IF k = r THEN x[k] ELSE 0
      <4>1. E[r][k] = IF k = r THEN 1 ELSE 0
        BY <1>6, <1>10 DEF Cleared
      <4>2. Product(1, x[k]) = x[k] /\ Product(0, x[k]) = 0
        BY FieldFacts
      <4> QED
        BY <4>1, <4>2
    <3> HIDE DEF f
    <3>2. XorSum(f, n) = f[r]
      BY <3>1, SumOfOne
    <3> QED
      BY <3>1, <3>2 DEF Side, f
  <2>8. Side(inverse[r], 0, y, n) = Side(E[r], n, y, n)
    <3> DEFINE f == [k \in 1..n |-> Product(inverse[r][0 + k], y[k])]
               g == [k \in 1..n |-> Product(E[r][n + k], y[k])]
    <3>1. \A k \in 1..n : f[k] = g[k]
      BY <1>9, <1>10
    <3> HIDE DEF f, g
    <3>2. XorSum(f, n) = XorSum(g, n)
      BY <3>1, SumSame
    <3> QED
      BY <3>2 DEF Side, f, g
  <2> QED
    BY <2>6, <2>7, <2>8 DEF y
<1>11. inverse = Singular => E = Singular
  <2> SUFFICES ASSUME E # Singular PROVE inverse # Singular
    OBVIOUS
  <2>1. 1 \in DOMAIN inverse
    BY <1>9
  <2> QED
    BY <2>1 DEF Singular
<1>12. inverse # Singular => E # Singular
  BY <1>2
<1>13. inverse # Singular => Inverts(inverse, matrix, n)
  BY <1>9, <1>10, <1>12 DEF Inverts
<1> QED
  BY <1>8, <1>11, <1>13

-----------------------------------------------------------------------------
(* Kernels.  What a loop makes of a byte is a byte of the product of its word. *)

LEMMA WordFacts ==
  ASSUME FieldLaws, WordLaws, NEW lo \in Byte, NEW hi \in Byte
  PROVE  /\ lo \in Field /\ hi * ByteCount \in Field /\ lo + ByteCount * hi \in Field
         /\ lo + ByteCount * hi = Xor(lo, hi * ByteCount)
         /\ LowByte(lo + ByteCount * hi) = lo /\ HighByte(lo + ByteCount * hi) = hi
<1>1. lo \in Field /\ hi * ByteCount \in Field
  BY DEF WordLaws
<1>2. lo + ByteCount * hi = Xor(lo, hi * ByteCount)
  BY DEF WordLaws
<1>3. Xor(lo, hi * ByteCount) \in Field
  BY <1>1, FieldFacts
<1>4. LowByte(lo + ByteCount * hi) = lo /\ HighByte(lo + ByteCount * hi) = hi
  BY DEF WordLaws
<1> QED
  BY <1>1, <1>2, <1>3, <1>4

LEMMA WordParts ==
  ASSUME WordLaws, NEW v \in Field, NEW w \in Field
  PROVE  /\ LowByte(w) \in Byte /\ HighByte(w) \in Byte
         /\ LowByte(Xor(v, w)) = Xor(LowByte(v), LowByte(w))
         /\ HighByte(Xor(v, w)) = Xor(HighByte(v), HighByte(w))
         /\ w = LowByte(w) + ByteCount * HighByte(w)
BY DEF WordLaws

\* The split tables hold products.
LEMMA SplitIs ==
  ASSUME FieldLaws, WordLaws, NEW c \in Field, NEW b \in Byte
  PROVE  /\ Split[c].low[b] = Product(c, b) /\ Product(c, b) \in Field
         /\ Split[c].high[b] = Product(c, b * ByteCount)
         /\ Product(c, b * ByteCount) \in Field
<1>1. b \in Field /\ b * ByteCount \in Field /\ 0 \in Byte
  BY WordFacts DEF WordLaws
<1>2. Split[c] = SplitTable(c)
  BY DEF Split
<1>3. /\ Split[c].low[b] = IF b = 0 THEN 0 ELSE Product(c, b)
      /\ Split[c].high[b] = IF b = 0 THEN 0 ELSE Product(c, b * ByteCount)
  BY <1>2 DEF SplitTable
<1>4. Product(c, 0) = 0 /\ Product(c, b) \in Field /\ Product(c, b * ByteCount) \in Field
  BY <1>1, FieldFacts
<1>5. b = 0 => b * ByteCount = 0
  <2>1. ByteCount \in Nat
    BY DEF WordLaws
  <2> QED
    BY <2>1
<1> QED
  BY <1>3, <1>4, <1>5

LEMMA WordProductIs ==
  ASSUME FieldLaws, WordLaws, NEW c \in Field, NEW lo \in Byte, NEW hi \in Byte
  PROVE  /\ WordProduct(Split[c], lo, hi) = Product(c, lo + ByteCount * hi)
         /\ Product(c, lo + ByteCount * hi) \in Field
<1> DEFINE h == hi * ByteCount
           w == lo + ByteCount * hi
<1>1. lo \in Field /\ h \in Field /\ w \in Field /\ w = Xor(lo, h)
  BY WordFacts
<1>2. Split[c].low[lo] = Product(c, lo) /\ Split[c].high[hi] = Product(c, h)
  BY SplitIs
<1> HIDE DEF h, w
<1>3. Product(c, Xor(lo, h)) = Xor(Product(c, lo), Product(c, h))
  BY <1>1, FieldTriples
<1>4. Product(c, w) \in Field
  BY <1>1, FieldFacts
<1> QED
  BY <1>1, <1>2, <1>3, <1>4 DEF WordProduct, w

\* Words with a high byte only are added by their high bytes.
LEMMA ShiftedSum ==
  ASSUME FieldLaws, WordLaws, NEW x \in Byte, NEW y \in Byte
  PROVE  Xor(x, y) * ByteCount = Xor(x * ByteCount, y * ByteCount)
<1> DEFINE v == x * ByteCount
           w == y * ByteCount
           s == Xor(x, y)
<1>1. 0 \in Byte /\ s \in Byte /\ ByteCount \in Nat
  BY DEF WordLaws
<1>2. ASSUME NEW b \in Byte
      PROVE  LowByte(b * ByteCount) = 0 /\ HighByte(b * ByteCount) = b /\ b * ByteCount \in Field
  <2>1. /\ LowByte(0 + ByteCount * b) = 0 /\ HighByte(0 + ByteCount * b) = b
        /\ 0 + ByteCount * b = Xor(0, b * ByteCount)
    BY <1>1, WordFacts
  <2>2. b * ByteCount \in Field
    BY WordFacts
  <2>3. Xor(0, b * ByteCount) = b * ByteCount
    BY <2>2, FieldFacts
  <2> QED
    BY <2>1, <2>2, <2>3
<1>3. /\ LowByte(v) = 0 /\ LowByte(w) = 0 /\ HighByte(v) = x /\ HighByte(w) = y
      /\ v \in Field /\ w \in Field
  BY <1>2
<1> HIDE DEF v, w
<1>4. LowByte(Xor(v, w)) = Xor(0, 0) /\ HighByte(Xor(v, w)) = s /\ Xor(v, w) \in Field
  BY <1>3, FieldFacts DEF WordLaws
<1>5. Xor(0, 0) = 0
  BY DEF FieldLaws
<1>6. Xor(v, w) = 0 + ByteCount * s
  BY <1>4, <1>5 DEF WordLaws
<1>7. s * ByteCount = LowByte(s * ByteCount) + ByteCount * HighByte(s * ByteCount)
  BY <1>1, <1>2 DEF WordLaws
<1>8. s * ByteCount = 0 + ByteCount * s
  <2>1. LowByte(s * ByteCount) = 0 /\ HighByte(s * ByteCount) = s
    BY <1>1, <1>2
  <2> HIDE DEF s
  <2> QED
    BY <1>7, <2>1
<1> QED
  BY <1>6, <1>8 DEF v, w

\* A table that is additive.
IsAdditive(table) ==
  \A x, y \in Byte :
    table[x] \in Field /\ table[Xor(x, y)] = Xor(table[x], table[y])

\* To look up the nibbles of a byte and to add is to look up the byte.
LEMMA NibblesAre ==
  ASSUME FieldLaws, WordLaws, NEW b \in Byte, NEW table, IsAdditive(table)
  PROVE  /\ Xor(NibbleTables(table).loNibLo[b % NibbleCount],
                NibbleTables(table).hiNibLo[b \div NibbleCount]) = LowByte(table[b])
         /\ Xor(NibbleTables(table).loNibHi[b % NibbleCount],
                NibbleTables(table).hiNibHi[b \div NibbleCount]) = HighByte(table[b])
         /\ table[b] \in Field
<1> DEFINE low == b % NibbleCount
           high == b \div NibbleCount
           high0 == high * NibbleCount
<1>1. low \in Nibble /\ high \in Nibble /\ high0 \in Byte /\ b = Xor(low, high0)
  BY DEF WordLaws
<1>2. low \in Byte
  BY <1>1 DEF WordLaws
<1>3. /\ NibbleTables(table).loNibLo[low] = LowByte(table[low])
      /\ NibbleTables(table).loNibHi[low] = HighByte(table[low])
      /\ NibbleTables(table).hiNibLo[high] = LowByte(table[high0])
      /\ NibbleTables(table).hiNibHi[high] = HighByte(table[high0])
  <2> HIDE DEF low, high
  <2> QED
    BY <1>1 DEF NibbleTables
<1> HIDE DEF low, high0
<1>7. table[low] \in Field /\ table[high0] \in Field /\ table[b] = Xor(table[low], table[high0])
  BY <1>1, <1>2 DEF IsAdditive
<1>8. /\ LowByte(table[b]) = Xor(LowByte(table[low]), LowByte(table[high0]))
      /\ HighByte(table[b]) = Xor(HighByte(table[low]), HighByte(table[high0]))
  BY <1>7, WordParts
<1>9. table[b] \in Field
  BY <1>7, FieldFacts
<1> QED
  BY <1>3, <1>8, <1>9 DEF low, high0

LEMMA SplitAdditive ==
  ASSUME FieldLaws, WordLaws, NEW c \in Field
  PROVE  IsAdditive(Split[c].low) /\ IsAdditive(Split[c].high)
<1> SUFFICES ASSUME NEW x \in Byte, NEW y \in Byte
             PROVE  /\ Split[c].low[x] \in Field /\ Split[c].high[x] \in Field
                    /\ Split[c].low[Xor(x, y)] = Xor(Split[c].low[x], Split[c].low[y])
                    /\ Split[c].high[Xor(x, y)] = Xor(Split[c].high[x], Split[c].high[y])
  BY DEF IsAdditive
<1> DEFINE s == Xor(x, y)
           v == x * ByteCount
           w == y * ByteCount
<1>1. s \in Byte /\ x \in Field /\ y \in Field /\ v \in Field /\ w \in Field
  BY WordFacts DEF WordLaws
<1>2. s * ByteCount = Xor(v, w)
  BY ShiftedSum
<1>3. /\ Split[c].low[x] = Product(c, x) /\ Split[c].high[x] = Product(c, v)
      /\ Split[c].low[y] = Product(c, y) /\ Split[c].high[y] = Product(c, w)
      /\ Product(c, x) \in Field /\ Product(c, v) \in Field
  BY SplitIs
<1>4. Split[c].low[s] = Product(c, s) /\ Split[c].high[s] = Product(c, s * ByteCount)
  BY <1>1, SplitIs
<1> HIDE DEF v, w
<1>5. /\ Product(c, Xor(x, y)) = Xor(Product(c, x), Product(c, y))
      /\ Product(c, Xor(v, w)) = Xor(Product(c, v), Product(c, w))
  BY <1>1, FieldTriples
<1> QED
  BY <1>2, <1>3, <1>4, <1>5

LEMMA NibbleByteIs ==
  ASSUME FieldLaws, WordLaws, NEW c \in Field, NEW lo \in Byte, NEW hi \in Byte
  PROVE  /\ NibbleByte(Prepared[c], lo, hi, FALSE) = LowByte(Product(c, lo + ByteCount * hi))
         /\ NibbleByte(Prepared[c], lo, hi, TRUE) = HighByte(Product(c, lo + ByteCount * hi))
<1> DEFINE low == Split[c].low
           high == Split[c].high
           product == Product(c, lo + ByteCount * hi)
<1>1. Prepared[c].low = NibbleTables(low) /\ Prepared[c].high = NibbleTables(high)
  BY DEF Prepared
<1>2. IsAdditive(low) /\ IsAdditive(high)
  BY SplitAdditive
<1>3. Xor(low[lo], high[hi]) = product
  BY WordProductIs DEF WordProduct
<1> HIDE DEF low, high, product
<1>4. low[lo] \in Field /\ high[hi] \in Field
  BY <1>2, NibblesAre
<1>5. /\ LowByte(product) = Xor(LowByte(low[lo]), LowByte(high[hi]))
      /\ HighByte(product) = Xor(HighByte(low[lo]), HighByte(high[hi]))
  BY <1>3, <1>4 DEF WordLaws
<1>6. NibbleByte(Prepared[c], lo, hi, FALSE) = Xor(LowByte(low[lo]), LowByte(high[hi]))
  <2>1. /\ Xor(NibbleTables(low).loNibLo[lo % NibbleCount],
               NibbleTables(low).hiNibLo[lo \div NibbleCount]) = LowByte(low[lo])
        /\ Xor(NibbleTables(high).loNibLo[hi % NibbleCount],
               NibbleTables(high).hiNibLo[hi \div NibbleCount]) = LowByte(high[hi])
    BY <1>2, NibblesAre
  <2> QED
    BY <1>1, <2>1 DEF NibbleByte
<1>7. NibbleByte(Prepared[c], lo, hi, TRUE) = Xor(HighByte(low[lo]), HighByte(high[hi]))
  <2>1. /\ Xor(NibbleTables(low).loNibHi[lo % NibbleCount],
               NibbleTables(low).hiNibHi[lo \div NibbleCount]) = HighByte(low[lo])
        /\ Xor(NibbleTables(high).loNibHi[hi % NibbleCount],
               NibbleTables(high).hiNibHi[hi \div NibbleCount]) = HighByte(high[hi])
    BY <1>2, NibblesAre
  <2> QED
    BY <1>1, <2>1 DEF NibbleByte
<1> QED
  BY <1>5, <1>6, <1>7 DEF product

\* A byte of the product of the word of a slice that it lies in.
ByteOf(c, in, p) ==
  IF p % 2 = 1 THEN LowByte(Product(c, in[p] + ByteCount * in[p + 1]))
  ELSE HighByte(Product(c, in[p - 1] + ByteCount * in[p]))

\* Bytes of a product, but for a last one without partner.
IsProduct(bytes, c, in, from, n) ==
  /\ DOMAIN bytes = from..n
  /\ \A p \in from..n :
       bytes[p] \in Byte /\ (p % 2 = 0 \/ p < n => bytes[p] = ByteOf(c, in, p))

LEMMA ByteOfIs ==
  ASSUME FieldLaws, WordLaws, NEW c \in Field, NEW in \in Seq(Byte), NEW p \in 1..Len(in)
  PROVE  /\ p % 2 = 1 /\ p < Len(in) =>
              /\ in[p] \in Byte /\ in[p + 1] \in Byte /\ ByteOf(c, in, p) \in Byte
              /\ ByteOf(c, in, p) = LowByte(Product(c, in[p] + ByteCount * in[p + 1]))
         /\ p % 2 = 0 =>
              /\ in[p - 1] \in Byte /\ in[p] \in Byte /\ ByteOf(c, in, p) \in Byte
              /\ ByteOf(c, in, p) = HighByte(Product(c, in[p - 1] + ByteCount * in[p]))
<1>1. ASSUME p % 2 = 1, p < Len(in)
      PROVE  /\ in[p] \in Byte /\ in[p + 1] \in Byte /\ ByteOf(c, in, p) \in Byte
             /\ ByteOf(c, in, p) = LowByte(Product(c, in[p] + ByteCount * in[p + 1]))
  <2>1. in[p] \in Byte /\ in[p + 1] \in Byte
    BY <1>1
  <2>2. Product(c, in[p] + ByteCount * in[p + 1]) \in Field
    BY <2>1, WordProductIs
  <2> QED
    BY <1>1, <2>1, <2>2, WordParts DEF ByteOf
<1>2. ASSUME p % 2 = 0
      PROVE  /\ in[p - 1] \in Byte /\ in[p] \in Byte /\ ByteOf(c, in, p) \in Byte
             /\ ByteOf(c, in, p) = HighByte(Product(c, in[p - 1] + ByteCount * in[p]))
  <2>1. in[p - 1] \in Byte /\ in[p] \in Byte
    BY <1>2
  <2>2. Product(c, in[p - 1] + ByteCount * in[p]) \in Field
    BY <2>1, WordProductIs
  <2> QED
    BY <1>2, <2>1, <2>2, WordParts DEF ByteOf
<1> QED
  BY <1>1, <1>2

LEMMA ScalarIs ==
  ASSUME FieldLaws, WordLaws, NEW c \in Field, NEW in \in Seq(Byte),
         NEW from \in Nat \ {0}, NEW n \in Nat, n <= Len(in)
  PROVE  IsProduct(ScalarBytes(Split[c], in, from, n), c, in, from, n)
<1> DEFINE bytes == ScalarBytes(Split[c], in, from, n)
<1>1. ASSUME NEW p \in from..n
      PROVE  bytes[p] \in Byte /\ (p % 2 = 0 \/ p < n => bytes[p] = ByteOf(c, in, p))
  <2>1. p \in 1..Len(in) /\ in[p] \in Byte /\ p \in Nat
    OBVIOUS
  <2>2. CASE p = n /\ n % 2 = 1
    <3>1. bytes[p] = LowByte(Split[c].low[in[p]])
      BY <2>2 DEF ScalarBytes
    <3>2. Split[c].low[in[p]] \in Field
      BY <2>1, SplitIs
    <3>3. bytes[p] \in Byte
      BY <3>1, <3>2, WordParts
    <3> QED
      BY <2>2, <3>3
  <2>3. CASE ~(p = n /\ n % 2 = 1) /\ p % 2 = 1
    <3>1. bytes[p] = LowByte(WordProduct(Split[c], in[p], in[p + 1]))
      BY <2>3 DEF ScalarBytes
    <3>2. p < n /\ p < Len(in)
      BY <2>1, <2>3
    <3>3. in[p + 1] \in Byte /\ ByteOf(c, in, p) \in Byte
          /\ ByteOf(c, in, p) = LowByte(Product(c, in[p] + ByteCount * in[p + 1]))
      BY <2>1, <2>3, <3>2, ByteOfIs
    <3>4. WordProduct(Split[c], in[p], in[p + 1]) = Product(c, in[p] + ByteCount * in[p + 1])
      BY <2>1, <3>3, WordProductIs
    <3> QED
      BY <3>1, <3>3, <3>4
  <2>4. CASE ~(p = n /\ n % 2 = 1) /\ p % 2 = 0
    <3>1. bytes[p] = HighByte(WordProduct(Split[c], in[p - 1], in[p]))
      BY <2>4 DEF ScalarBytes
    <3>3. in[p - 1] \in Byte /\ ByteOf(c, in, p) \in Byte
          /\ ByteOf(c, in, p) = HighByte(Product(c, in[p - 1] + ByteCount * in[p]))
      BY <2>1, <2>4, ByteOfIs
    <3>4. WordProduct(Split[c], in[p - 1], in[p]) = Product(c, in[p - 1] + ByteCount * in[p])
      BY <2>1, <3>3, WordProductIs
    <3> QED
      BY <3>1, <3>3, <3>4
  <2> QED
    BY <2>1, <2>2, <2>3, <2>4
<1>2. DOMAIN bytes = from..n
  BY DEF ScalarBytes
<1> HIDE DEF bytes
<1>3. IsProduct(bytes, c, in, from, n)
  BY <1>1, <1>2 DEF IsProduct
<1> QED
  BY <1>3 DEF bytes

LEMMA VectorIs ==
  ASSUME FieldLaws, WordLaws, NEW c \in Field, NEW in \in Seq(Byte),
         NEW n \in Nat, n <= Len(in), n % 2 = 0
  PROVE  IsProduct(VectorBytes(c, in, n), c, in, 1, n)
<1> DEFINE bytes == VectorBytes(c, in, n)
<1>1. ASSUME NEW p \in 1..n PROVE bytes[p] \in Byte /\ bytes[p] = ByteOf(c, in, p)
  <2>1. p \in 1..Len(in)
    OBVIOUS
  <2>2. CASE p % 2 = 1
    <3>1. bytes[p] = NibbleByte(Prepared[c], in[p], in[p + 1], FALSE)
      BY <2>2 DEF VectorBytes
    <3>2. p < n /\ p < Len(in)
      BY <2>2
    <3>3. in[p] \in Byte /\ in[p + 1] \in Byte /\ ByteOf(c, in, p) \in Byte
          /\ ByteOf(c, in, p) = LowByte(Product(c, in[p] + ByteCount * in[p + 1]))
      BY <2>1, <2>2, <3>2, ByteOfIs
    <3> QED
      BY <3>1, <3>3, NibbleByteIs
  <2>3. CASE p % 2 # 1
    <3>1. bytes[p] = NibbleByte(Prepared[c], in[p - 1], in[p], TRUE)
      BY <2>3 DEF VectorBytes
    <3>2. p % 2 = 0
      BY <2>3
    <3>3. in[p - 1] \in Byte /\ in[p] \in Byte /\ ByteOf(c, in, p) \in Byte
          /\ ByteOf(c, in, p) = HighByte(Product(c, in[p - 1] + ByteCount * in[p]))
      BY <2>1, <3>2, ByteOfIs
    <3> QED
      BY <3>1, <3>3, NibbleByteIs
  <2> QED
    BY <2>2, <2>3
<1>2. DOMAIN bytes = 1..n
  BY DEF VectorBytes
<1> HIDE DEF bytes
<1>3. IsProduct(bytes, c, in, 1, n)
  BY <1>1, <1>2 DEF IsProduct
<1> QED
  BY <1>3 DEF bytes

LEMMA PortableIs ==
  ASSUME FieldLaws, WordLaws, NEW c \in Field, NEW in \in Seq(Byte),
         NEW n \in Nat, n <= Len(in), n % 2 = 0
  PROVE  IsProduct(PortableBytes(c, in, n), c, in, 1, n)
<1> DEFINE bytes == PortableBytes(c, in, n)
<1>1. ASSUME NEW p \in 1..n PROVE bytes[p] \in Byte /\ bytes[p] = ByteOf(c, in, p)
  <2>1. p \in 1..Len(in)
    OBVIOUS
  <2>2. CASE p % 2 = 1
    <3>2. p < n /\ p < Len(in)
      BY <2>2
    <3>4. /\ (p + 1) \div 2 \in 1..(n \div 2)
          /\ 2 * ((p + 1) \div 2) - 1 = p /\ 2 * ((p + 1) \div 2) = p + 1
      BY <2>2, <3>2
    <3>1. bytes[p] = NibbleByte(Prepared[c], in[p], in[p + 1], FALSE)
      BY <2>2, <3>4 DEF PortableBytes
    <3>3. in[p] \in Byte /\ in[p + 1] \in Byte /\ ByteOf(c, in, p) \in Byte
          /\ ByteOf(c, in, p) = LowByte(Product(c, in[p] + ByteCount * in[p + 1]))
      BY <2>1, <2>2, <3>2, ByteOfIs
    <3> QED
      BY <3>1, <3>3, NibbleByteIs
  <2>3. CASE p % 2 # 1
    <3>2. p % 2 = 0
      BY <2>3
    <3>4. p \div 2 \in 1..(n \div 2) /\ 2 * (p \div 2) - 1 = p - 1 /\ 2 * (p \div 2) = p
      BY <3>2
    <3>1. bytes[p] = NibbleByte(Prepared[c], in[p - 1], in[p], TRUE)
      BY <2>3, <3>4 DEF PortableBytes
    <3>3. in[p - 1] \in Byte /\ in[p] \in Byte /\ ByteOf(c, in, p) \in Byte
          /\ ByteOf(c, in, p) = HighByte(Product(c, in[p - 1] + ByteCount * in[p]))
      BY <2>1, <3>2, ByteOfIs
    <3> QED
      BY <3>1, <3>3, NibbleByteIs
  <2> QED
    BY <2>2, <2>3
<1>2. DOMAIN bytes = 1..n
  BY DEF PortableBytes
<1> HIDE DEF bytes
<1>3. IsProduct(bytes, c, in, 1, n)
  BY <1>1, <1>2 DEF IsProduct
<1> QED
  BY <1>3 DEF bytes

\* The output after a product has been added to it: what lies beyond n stays, and
\* so do bytes without partner in what is said of them.
AddsProduct(result, out, c, in, n) ==
  /\ result \in Seq(Byte) /\ Len(result) = Len(out)
  /\ \A p \in 1..Len(out) :
       /\ p > n => result[p] = out[p]
       /\ p <= n /\ (p % 2 = 0 \/ p < n) => result[p] = Xor(out[p], ByteOf(c, in, p))

\* Adding bytes gives bytes.
LEMMA AddedIs ==
  ASSUME WordLaws, NEW out \in Seq(Byte), NEW bytes, NEW from, NEW n,
         DOMAIN bytes = from..n, \A p \in from..n : bytes[p] \in Byte
  PROVE  /\ Added(out, bytes) \in Seq(Byte) /\ Len(Added(out, bytes)) = Len(out)
         /\ \A p \in 1..Len(out) :
              Added(out, bytes)[p] = IF p \in from..n THEN Xor(out[p], bytes[p]) ELSE out[p]
<1> DEFINE m == Len(out)
           new == [p \in 1..m |-> IF p \in from..n THEN Xor(out[p], bytes[p]) ELSE out[p]]
<1>1. m \in Nat /\ DOMAIN out = 1..m /\ \A p \in 1..m : out[p] \in Byte
  OBVIOUS
<1>2. Added(out, bytes) = new
  BY <1>1 DEF Added
<1>3. \A p \in 1..m : (IF p \in from..n THEN Xor(out[p], bytes[p]) ELSE out[p]) \in Byte
  BY <1>1 DEF WordLaws
<1> HIDE DEF m
<1>4. new \in Seq(Byte) /\ Len(new) = m
  BY <1>1, <1>3
<1>5. \A p \in 1..m : new[p] = IF p \in from..n THEN Xor(out[p], bytes[p]) ELSE out[p]
  OBVIOUS
<1> HIDE DEF new
<1> QED
  BY <1>2, <1>4, <1>5 DEF m

LEMMA ScalarAddIs ==
  ASSUME FieldLaws, WordLaws, NEW c \in Field, NEW in \in Seq(Byte), NEW out \in Seq(Byte),
         NEW n \in Nat, n <= Len(in), n <= Len(out)
  PROVE  AddsProduct(ScalarAdd(c, in, out, 1, n), out, c, in, n)
<1> DEFINE bytes == ScalarBytes(Split[c], in, 1, n)
<1>1. IsProduct(bytes, c, in, 1, n)
  BY ScalarIs
<1>2. ScalarAdd(c, in, out, 1, n) = Added(out, bytes)
  BY DEF ScalarAdd
<1> HIDE DEF bytes
<1> DEFINE new == Added(out, bytes)
<1>3. /\ new \in Seq(Byte) /\ Len(new) = Len(out)
      /\ \A p \in 1..Len(out) :
           new[p] = IF p \in 1..n THEN Xor(out[p], bytes[p]) ELSE out[p]
  BY <1>1, AddedIs DEF IsProduct
<1> HIDE DEF new
<1>4. AddsProduct(new, out, c, in, n)
  BY <1>1, <1>3 DEF AddsProduct, IsProduct
<1> QED
  BY <1>2, <1>4 DEF new

\* First a part, then the rest by the scalar loop.
LEMMA AddedInParts ==
  ASSUME FieldLaws, WordLaws, NEW c \in Field, NEW in \in Seq(Byte), NEW out \in Seq(Byte),
         NEW n \in Nat, n <= Len(in), n <= Len(out),
         NEW end \in Nat, end <= n, end % 2 = 0,
         NEW bytes, IsProduct(bytes, c, in, 1, end)
  PROVE  AddsProduct(ScalarAdd(c, in, Added(out, bytes), end + 1, n), out, c, in, n)
<1> DEFINE from == end + 1
           rest == ScalarBytes(Split[c], in, from, n)
           mid == Added(out, bytes)
           new == Added(mid, rest)
<1>1. from \in Nat \ {0} /\ \A p \in Nat : p \in from..n <=> (p > end /\ p <= n)
  OBVIOUS
<1>2. ScalarAdd(c, in, mid, from, n) = new
  BY DEF ScalarAdd
<1> HIDE DEF from
<1>3. IsProduct(rest, c, in, from, n)
  BY <1>1, ScalarIs
<1> HIDE DEF rest
<1>4. /\ mid \in Seq(Byte) /\ Len(mid) = Len(out)
      /\ \A p \in 1..Len(out) :
           mid[p] = IF p \in 1..end THEN Xor(out[p], bytes[p]) ELSE out[p]
  BY AddedIs DEF IsProduct
<1> HIDE DEF mid
<1>5. /\ new \in Seq(Byte) /\ Len(new) = Len(out)
      /\ \A p \in 1..Len(out) :
           new[p] = IF p \in from..n THEN Xor(mid[p], rest[p]) ELSE mid[p]
  <2>1. DOMAIN rest = from..n /\ \A p \in from..n : rest[p] \in Byte
    BY <1>3 DEF IsProduct
  <2>2. /\ new \in Seq(Byte) /\ Len(new) = Len(mid)
        /\ \A p \in 1..Len(mid) :
             new[p] = IF p \in from..n THEN Xor(mid[p], rest[p]) ELSE mid[p]
    BY <1>4, <2>1, AddedIs
  <2> HIDE DEF new
  <2> QED
    BY <1>4, <2>2
<1> HIDE DEF new
<1>6. ASSUME NEW p \in 1..Len(out)
      PROVE  /\ p > n => new[p] = out[p]
             /\ p <= n /\ (p % 2 = 0 \/ p < n) => new[p] = Xor(out[p], ByteOf(c, in, p))
  <2>1. CASE p <= end
    <3>1. p \in 1..end /\ ~(p \in from..n) /\ ~(p > n) /\ (p % 2 = 0 \/ p < end)
      BY <1>1, <2>1
    <3>2. bytes[p] = ByteOf(c, in, p)
      BY <3>1 DEF IsProduct
    <3> QED
      BY <3>1, <3>2, <1>4, <1>5
  <2>2. CASE p > end /\ p <= n
    <3>1. ~(p \in 1..end) /\ p \in from..n /\ ~(p > n)
      BY <1>1, <2>2
    <3>2. p % 2 = 0 \/ p < n => rest[p] = ByteOf(c, in, p)
      BY <3>1, <1>3 DEF IsProduct
    <3> QED
      BY <3>1, <3>2, <1>4, <1>5
  <2>3. CASE p > n
    <3>1. ~(p \in 1..end) /\ ~(p \in from..n) /\ ~(p <= n)
      BY <1>1, <2>3
    <3> QED
      BY <3>1, <1>4, <1>5
  <2> QED
    BY <2>1, <2>2, <2>3
<1>7. AddsProduct(new, out, c, in, n)
  BY <1>5, <1>6 DEF AddsProduct
<1> QED
  BY <1>2, <1>7 DEF mid, from

\* Whole vectors are an even number of bytes, and not more than there are.
LEMMA WholeVectors ==
  ASSUME NEW n \in Nat, NEW v \in Nat, v > 0, v % 2 = 0
  PROVE  (n \div v) * v \in Nat /\ (n \div v) * v <= n /\ ((n \div v) * v) % 2 = 0
<1> DEFINE q == n \div v
           h == v \div 2
<1>1. q \in Nat /\ n = v * q + (n % v) /\ n % v \in 0..(v - 1)
  OBVIOUS
<1>2. h \in Nat /\ v = 2 * h
  OBVIOUS
<1> HIDE DEF q, h
<1>3. q * v \in Nat /\ q * v = v * q
  BY <1>1
<1>4. q * v = 2 * (q * h) /\ q * h \in Nat
  BY <1>1, <1>2
<1> DEFINE z == q * h
           e == q * v
<1>5. e \in Nat /\ e <= n /\ z \in Nat /\ e = 2 * z
  BY <1>1, <1>3, <1>4
<1> HIDE DEF z, e
<1>6. e % 2 = 0
  BY <1>5
<1> QED
  BY <1>5, <1>6 DEF e, q

LEMMA VectorAddIs ==
  ASSUME FieldLaws, WordLaws, NEW c \in Field, NEW in \in Seq(Byte), NEW out \in Seq(Byte),
         NEW n \in Nat, n = Common(in, out)
  PROVE  AddsProduct(VectorAdd(c, in, out), out, c, in, n)
<1>1. n <= Len(in) /\ n <= Len(out)
  BY DEF Common, Lesser
<1>2. Vector \in Nat /\ Vector > 0 /\ Vector % 2 = 0
  BY VectorAssumption
<1>3. CASE n < Vector
  BY <1>1, <1>3, ScalarAddIs DEF VectorAdd
<1>4. CASE ~(n < Vector)
  <2> DEFINE end == (n \div Vector) * Vector
             bytes == VectorBytes(c, in, end)
  <2>1. VectorAdd(c, in, out) = ScalarAdd(c, in, Added(out, bytes), end + 1, n)
    BY <1>4 DEF VectorAdd
  <2>2. end \in Nat /\ end <= n /\ end % 2 = 0
    BY <1>2, WholeVectors
  <2> HIDE DEF end
  <2>3. IsProduct(bytes, c, in, 1, end)
    BY <1>1, <2>2, VectorIs
  <2> HIDE DEF bytes
  <2>4. AddsProduct(ScalarAdd(c, in, Added(out, bytes), end + 1, n), out, c, in, n)
    BY <1>1, <2>2, <2>3, AddedInParts
  <2> QED
    BY <2>1, <2>4
<1> QED
  BY <1>3, <1>4

LEMMA PortableAddIs ==
  ASSUME FieldLaws, WordLaws, NEW c \in Field, NEW in \in Seq(Byte), NEW out \in Seq(Byte),
         NEW n \in Nat, n = Common(in, out)
  PROVE  AddsProduct(PortableAdd(c, in, out), out, c, in, n)
<1>1. n <= Len(in) /\ n <= Len(out)
  BY DEF Common, Lesser
<1> DEFINE v == Vector \div 2
<1>2. v \in Nat /\ v > 0 /\ v % 2 = 0
  BY VectorAssumption
<1> DEFINE end == (n \div v) * v
           bytes == PortableBytes(c, in, end)
<1>3. PortableAdd(c, in, out) = ScalarAdd(c, in, Added(out, bytes), end + 1, n)
  BY DEF PortableAdd
<1> HIDE DEF v
<1>4. end \in Nat /\ end <= n /\ end % 2 = 0
  BY <1>2, WholeVectors
<1> HIDE DEF end
<1>5. IsProduct(bytes, c, in, 1, end)
  BY <1>1, <1>4, PortableIs
<1> HIDE DEF bytes
<1>6. AddsProduct(ScalarAdd(c, in, Added(out, bytes), end + 1, n), out, c, in, n)
  BY <1>1, <1>4, <1>5, AddedInParts
<1> QED
  BY <1>3, <1>6

\* Whatever kernel is used, the product is added.
LEMMA MultiplyAddIs ==
  ASSUME FieldLaws, WordLaws, NEW c \in Field, NEW in \in Seq(Byte), NEW out \in Seq(Byte),
         NEW level \in Levels, NEW n, n = Common(in, out)
  PROVE  AddsProduct(MultiplyAdd(level, c, in, out), out, c, in, n)
<1>1. n \in Nat /\ n <= Len(in) /\ n <= Len(out)
  BY DEF Common, Lesser
<1>2. AddsProduct(ScalarAdd(c, in, out, 1, n), out, c, in, n)
  BY <1>1, ScalarAddIs
<1>3. AddsProduct(VectorAdd(c, in, out), out, c, in, n)
  BY <1>1, VectorAddIs
<1>4. AddsProduct(PortableAdd(c, in, out), out, c, in, n)
  BY <1>1, PortableAddIs
<1>5. \/ MultiplyAdd(level, c, in, out) = ScalarAdd(c, in, out, 1, n)
      \/ MultiplyAdd(level, c, in, out) = VectorAdd(c, in, out)
      \/ MultiplyAdd(level, c, in, out) = PortableAdd(c, in, out)
  <2>1. \/ MultiplyAdd(level, c, in, out) = ScalarAdd(c, in, out, 1, n)
        \/ /\ level # "none" /\ MultiplyAdd(level, c, in, out) = KernelAdd(level, c, in, out)
    BY DEF MultiplyAdd
  <2>2. level # "none" =>
          \/ KernelAdd(level, c, in, out) = ScalarAdd(c, in, out, 1, n)
          \/ KernelAdd(level, c, in, out) = VectorAdd(c, in, out)
          \/ KernelAdd(level, c, in, out) = PortableAdd(c, in, out)
    BY DEF KernelAdd, Levels
  <2> QED
    BY <2>1, <2>2
<1> QED
  BY <1>2, <1>3, <1>4, <1>5

-----------------------------------------------------------------------------
(* Slices as words *)

LEMMA WordIs ==
  ASSUME FieldLaws, WordLaws, NEW s \in Seq(Byte), NEW w \in Nat \ {0}
  PROVE  /\ Word(s, w) \in Field
         /\ 2 * w <= Len(s) =>
              /\ 2 * w - 1 \in 1..Len(s) /\ 2 * w \in 1..Len(s)
              /\ Word(s, w) = s[2 * w - 1] + ByteCount * s[2 * w]
              /\ s[2 * w - 1] \in Byte /\ s[2 * w] \in Byte
              /\ LowByte(Word(s, w)) = s[2 * w - 1] /\ HighByte(Word(s, w)) = s[2 * w]
         /\ ~(2 * w <= Len(s)) => Word(s, w) = 0
<1>1. CASE 2 * w <= Len(s)
  <2>1. 2 * w - 1 \in 1..Len(s) /\ 2 * w \in 1..Len(s)
    BY <1>1
  <2> DEFINE lo == s[2 * w - 1]
             hi == s[2 * w]
  <2>2. lo \in Byte /\ hi \in Byte
    BY <2>1
  <2>3. Word(s, w) = lo + ByteCount * hi
    BY <1>1 DEF Word
  <2> HIDE DEF lo, hi
  <2>4. /\ lo + ByteCount * hi \in Field
        /\ LowByte(lo + ByteCount * hi) = lo /\ HighByte(lo + ByteCount * hi) = hi
    BY <2>2, WordFacts
  <2> QED
    BY <1>1, <2>1, <2>2, <2>3, <2>4 DEF lo, hi
<1>2. CASE ~(2 * w <= Len(s))
  BY <1>2 DEF Word, FieldLaws
<1> QED
  BY <1>1, <1>2

\* The output after a product has been added to it, word by word.
AddsWords(result, out, c, in) ==
  /\ result \in Seq(Byte) /\ Len(result) = Len(out)
  /\ \A w \in 1..(Len(out) \div 2) :
       Word(result, w) = Xor(Word(out, w), Product(c, Word(in, w)))

\* Two words are added byte by byte.
LEMMA WordOfSum ==
  ASSUME FieldLaws, WordLaws, NEW v \in Field, NEW u \in Field, NEW lo, NEW hi,
         lo = Xor(LowByte(v), LowByte(u)), hi = Xor(HighByte(v), HighByte(u))
  PROVE  lo + ByteCount * hi = Xor(v, u)
<1>1. Xor(v, u) \in Field
  BY FieldFacts
<1>2. LowByte(Xor(v, u)) = lo /\ HighByte(Xor(v, u)) = hi
  BY WordParts
<1>3. Xor(v, u) = LowByte(Xor(v, u)) + ByteCount * HighByte(Xor(v, u))
  BY <1>1, WordParts
<1> QED
  BY <1>2, <1>3

LEMMA WordsAdded ==
  ASSUME FieldLaws, WordLaws, NEW c \in Field, NEW in \in Seq(Byte), NEW out \in Seq(Byte),
         Len(in) <= Len(out), Len(in) % 2 = 0 \/ Len(in) = Len(out),
         NEW result, AddsProduct(result, out, c, in, Len(in))
  PROVE  AddsWords(result, out, c, in)
<1> DEFINE n == Len(in)
<1>1. n \in Nat /\ result \in Seq(Byte) /\ Len(result) = Len(out)
  BY DEF AddsProduct
<1>2. ASSUME NEW w \in 1..(Len(out) \div 2)
      PROVE  Word(result, w) = Xor(Word(out, w), Product(c, Word(in, w)))
  <2> DEFINE a == 2 * w - 1
             b == 2 * w
             v == Word(out, w)
             u == Product(c, Word(in, w))
  <2>1. /\ w \in Nat \ {0} /\ b <= Len(out) /\ a \in 1..Len(out) /\ b \in 1..Len(out)
        /\ a % 2 = 1 /\ b % 2 = 0 /\ b - 1 = a /\ a + 1 = b
    OBVIOUS
  <2>2. /\ v \in Field /\ LowByte(v) = out[a] /\ HighByte(v) = out[b]
        /\ out[a] \in Byte /\ out[b] \in Byte
    BY <2>1, WordIs
  <2>3. Word(in, w) \in Field /\ u \in Field
    BY <2>1, WordIs, FieldFacts
  <2>4. Word(result, w) = result[a] + ByteCount * result[b]
    BY <1>1, <2>1, WordIs
  <2>5. CASE b <= n
    <3>1. /\ a <= n /\ a < n /\ Word(in, w) = in[a] + ByteCount * in[b]
      BY <2>1, <2>5, WordIs
    <3>2. ByteOf(c, in, a) = LowByte(u) /\ ByteOf(c, in, b) = HighByte(u)
      <4> HIDE DEF a, b
      <4>1. /\ ByteOf(c, in, a) = LowByte(Product(c, in[a] + ByteCount * in[b]))
            /\ ByteOf(c, in, b) = HighByte(Product(c, in[a] + ByteCount * in[b]))
        BY <2>1 DEF ByteOf
      <4> QED
        BY <3>1, <4>1
    <3>3. result[a] = Xor(out[a], ByteOf(c, in, a)) /\ result[b] = Xor(out[b], ByteOf(c, in, b))
      <4> HIDE DEF a, b
      <4> QED
        BY <2>1, <2>5, <3>1 DEF AddsProduct
    <3> HIDE DEF a, b, u, v
    <3>4. result[a] + ByteCount * result[b] = Xor(v, u)
      BY <2>2, <2>3, <3>2, <3>3, WordOfSum
    <3> QED
      BY <2>4, <3>4 DEF u, v
  <2>6. CASE ~(b <= n)
    <3>1. a > n /\ b > n
      BY <1>1, <2>1, <2>6
    <3>2. result[a] = out[a] /\ result[b] = out[b]
      <4> HIDE DEF a, b
      <4> QED
        BY <2>1, <3>1 DEF AddsProduct
    <3>3. v = out[a] + ByteCount * out[b]
      BY <2>1, WordIs
    <3>4. Word(in, w) = 0
      BY <2>1, <2>6, WordIs
    <3>5. Product(c, 0) = 0 /\ Xor(v, 0) = v
      BY <2>2, FieldFacts
    <3> HIDE DEF a, b, v
    <3> QED
      BY <2>4, <3>2, <3>3, <3>4, <3>5 DEF v
  <2> QED
    BY <2>5, <2>6
<1> QED
  BY <1>1, <1>2 DEF AddsWords

LEMMA WordsMultiplied ==
  ASSUME FieldLaws, WordLaws, NEW c \in Field, NEW in \in Seq(Byte), NEW out \in Seq(Byte),
         Len(in) <= Len(out), NEW level \in Levels,
         NEW result, result = MultiplyAdd(level, c, in, out)
  PROVE  /\ result \in Seq(Byte) /\ Len(result) = Len(out)
         /\ Len(in) % 2 = 0 \/ Len(in) = Len(out) => AddsWords(result, out, c, in)
<1>1. Common(in, out) = Len(in)
  BY DEF Common, Lesser
<1>2. AddsProduct(result, out, c, in, Len(in))
  BY <1>1, MultiplyAddIs
<1> QED
  BY <1>2, WordsAdded DEF AddsProduct

\* A product that is written, not added.
LEMMA DirectIs ==
  ASSUME FieldLaws, WordLaws, NEW c \in Field, NEW in \in Seq(Byte), NEW out \in Seq(Byte),
         Len(in) = Len(out), NEW result, result = MultiplyDirect(c, in, out)
  PROVE  /\ result \in Seq(Byte) /\ Len(result) = Len(out)
         /\ \A w \in 1..(Len(out) \div 2) : Word(result, w) = Product(c, Word(in, w))
<1> DEFINE n == Len(in)
           bytes == ScalarBytes(Split[c], in, 1, n)
<1>1. n \in Nat /\ DOMAIN out = 1..n /\ Common(in, out) = n
  BY DEF Common, Lesser
<1>2. IsProduct(bytes, c, in, 1, n)
  BY <1>1, ScalarIs
<1>3. result = Overwritten(out, bytes)
  BY <1>1 DEF MultiplyDirect
<1> HIDE DEF bytes
<1>4. result = [p \in 1..n |-> bytes[p]]
  BY <1>1, <1>2, <1>3 DEF Overwritten, IsProduct
<1>5. result \in Seq(Byte) /\ Len(result) = n
  BY <1>1, <1>2, <1>4 DEF IsProduct
<1>6. ASSUME NEW w \in 1..(Len(out) \div 2) PROVE Word(result, w) = Product(c, Word(in, w))
  <2> DEFINE a == 2 * w - 1
             b == 2 * w
             u == Product(c, Word(in, w))
  <2>1. /\ w \in Nat \ {0} /\ b <= n /\ a < n /\ a \in 1..n /\ b \in 1..n
        /\ a % 2 = 1 /\ b % 2 = 0 /\ b - 1 = a /\ a + 1 = b
    BY <1>1
  <2>2. Word(in, w) \in Field /\ u \in Field /\ Word(in, w) = in[a] + ByteCount * in[b]
    BY <2>1, WordIs, FieldFacts
  <2>3. Word(result, w) = result[a] + ByteCount * result[b]
    BY <1>5, <2>1, WordIs
  <2> HIDE DEF a, b
  <2>4. ByteOf(c, in, a) = LowByte(u) /\ ByteOf(c, in, b) = HighByte(u)
    BY <2>1, <2>2 DEF ByteOf
  <2>5. result[a] = ByteOf(c, in, a) /\ result[b] = ByteOf(c, in, b)
    BY <1>2, <1>4, <2>1 DEF IsProduct
  <2>6. u = LowByte(u) + ByteCount * HighByte(u)
    BY <2>2, WordParts
  <2> QED
    BY <2>3, <2>4, <2>5, <2>6
<1> QED
  BY <1>1, <1>5, <1>6

\* One more contribution: the first one, written over zeros, must fill the output.
IsBlank(out) == \A w \in 1..(Len(out) \div 2) : Word(out, w) = 0

Accumulates(result, a, c, in) ==
  /\ result.first = (a.first /\ c = 0)
  /\ result.first => result.out = a.out
  /\ result.out \in Seq(Byte) /\ Len(result.out) = Len(a.out)
  /\ Len(in) % 2 = 0 \/ Len(in) = Len(a.out) =>
       ((a.first => IsBlank(a.out)) => AddsWords(result.out, a.out, c, in))

LEMMA AccumulateIs ==
  ASSUME FieldLaws, WordLaws, NEW c \in Field, NEW in \in Seq(Byte), NEW level \in Levels,
         NEW a, a.first \in BOOLEAN, a.out \in Seq(Byte), Len(in) <= Len(a.out),
         a.first => Len(in) = Len(a.out),
         NEW result, result = Accumulate(level, a, c, in)
  PROVE  Accumulates(result, a, c, in)
<1> DEFINE out == a.out
<1>0. /\ out \in Seq(Byte) /\ Len(in) <= Len(out)
      /\ a.first => Len(in) = Len(out)
      /\ DOMAIN out = 1..Len(out) /\ Len(out) \in Nat
  OBVIOUS
<1> HIDE DEF out
<1>1. ASSUME NEW w \in 1..(Len(out) \div 2)
      PROVE  /\ w \in Nat \ {0} /\ Word(out, w) \in Field /\ Word(in, w) \in Field
             /\ Product(c, Word(in, w)) \in Field
             /\ Product(0, Word(in, w)) = 0 /\ Product(1, Word(in, w)) = Word(in, w)
             /\ Xor(Word(out, w), 0) = Word(out, w)
             /\ Xor(0, Product(c, Word(in, w))) = Product(c, Word(in, w))
  <2>1. w \in Nat \ {0} /\ Word(out, w) \in Field /\ Word(in, w) \in Field
    BY <1>0, WordIs
  <2>2. Product(c, Word(in, w)) \in Field
    BY <2>1, FieldFacts
  <2> QED
    BY <2>1, <2>2, FieldFacts
<1>2. CASE c = 0
  <2>1. result = a
    BY <1>2 DEF Accumulate
  <2>2. AddsWords(out, out, c, in)
    BY <1>0, <1>1, <1>2 DEF AddsWords
  <2> QED
    BY <1>0, <1>2, <2>1, <2>2 DEF out, Accumulates
<1>3. CASE c # 0 /\ a.first
  <2>1. result.first = FALSE /\ result.out = IF c = 1 THEN in ELSE MultiplyDirect(c, in, out)
    BY <1>3 DEF Accumulate, out
  <2>2. /\ result.out \in Seq(Byte) /\ Len(result.out) = Len(out)
        /\ \A w \in 1..(Len(out) \div 2) : Word(result.out, w) = Product(c, Word(in, w))
    <3>1. CASE c = 1
      BY <1>0, <1>1, <1>3, <2>1, <3>1
    <3>2. CASE c # 1
      <4> DEFINE new == MultiplyDirect(c, in, out)
      <4>1. result.out = new
        BY <2>1, <3>2
      <4>2. /\ new \in Seq(Byte) /\ Len(new) = Len(out)
            /\ \A w \in 1..(Len(out) \div 2) : Word(new, w) = Product(c, Word(in, w))
        BY <1>0, <1>3, DirectIs
      <4> HIDE DEF new
      <4> QED
        BY <4>1, <4>2
    <3> QED
      BY <3>1, <3>2
  <2>3. (\A w \in 1..(Len(out) \div 2) : Word(out, w) = 0)
          => AddsWords(result.out, out, c, in)
    BY <1>1, <2>2 DEF AddsWords
  <2> QED
    BY <1>3, <2>1, <2>2, <2>3 DEF out, Accumulates, IsBlank
<1>4. CASE c # 0 /\ ~a.first /\ c # 1
  <2> DEFINE new == MultiplyAdd(level, c, in, out)
  <2>1. result.first = FALSE /\ result.out = new
    BY <1>4 DEF Accumulate, out
  <2>2. /\ new \in Seq(Byte) /\ Len(new) = Len(out)
        /\ Len(in) % 2 = 0 \/ Len(in) = Len(out) => AddsWords(new, out, c, in)
    BY <1>0, WordsMultiplied
  <2> HIDE DEF new
  <2> QED
    BY <1>4, <2>1, <2>2 DEF out, Accumulates
<1>5. CASE c = 1 /\ ~a.first
  <2> DEFINE n == Len(in)
             m == Len(out)
             new == [p \in 1..m |-> IF p \in 1..n THEN Xor(out[p], in[p]) ELSE out[p]]
  <2>1. n \in Nat /\ m \in Nat /\ n <= m /\ DOMAIN in = 1..n /\ DOMAIN out = 1..m
    BY <1>0
  <2>2. result.first = FALSE /\ result.out = new
    <3>1. 1 # 0 /\ c # 0
      BY <1>5
    <3>2. result = [first |-> FALSE,
                    out |-> [p \in DOMAIN out |->
                               IF p \in DOMAIN in THEN Xor(out[p], in[p]) ELSE out[p]]]
      BY <1>5, <3>1 DEF Accumulate, out
    <3> QED
      BY <2>1, <3>2
  <2>3. \A p \in 1..m : (IF p \in 1..n THEN Xor(out[p], in[p]) ELSE out[p]) \in Byte
    <3>1. \A x, y \in Byte : Xor(x, y) \in Byte
      BY DEF WordLaws
    <3>2. \A p \in 1..m : out[p] \in Byte
      BY <1>0, <2>1, ElementOfSeq
    <3>3. \A p \in 1..n : in[p] \in Byte
      BY <2>1, ElementOfSeq
    <3> HIDE DEF n, m
    <3> QED
      BY <2>1, <3>1, <3>2, <3>3
  <2>4. new \in Seq(Byte) /\ Len(new) = m
    BY <2>1, <2>3
  <2>5. ASSUME NEW w \in 1..(m \div 2), n % 2 = 0 \/ n = m
        PROVE  Word(new, w) = Xor(Word(out, w), Product(c, Word(in, w)))
    <3> DEFINE i == 2 * w - 1
               j == 2 * w
               v == Word(out, w)
               u == Word(in, w)
    <3>1. w \in Nat \ {0} /\ j <= m /\ i \in 1..m /\ j \in 1..m /\ i % 2 = 1 /\ j = i + 1
      BY <2>1
    <3>2. /\ v \in Field /\ LowByte(v) = out[i] /\ HighByte(v) = out[j]
          /\ v = out[i] + ByteCount * out[j]
      BY <1>0, <2>1, <3>1, WordIs
    <3>3. Word(new, w) = new[i] + ByteCount * new[j]
      BY <2>4, <3>1, WordIs
    <3>4. CASE j <= n
      <4>1. i \in 1..n /\ j \in 1..n
        BY <3>1, <3>4, <2>1
      <4>2. u \in Field /\ LowByte(u) = in[i] /\ HighByte(u) = in[j]
        BY <3>1, <3>4, WordIs
      <4>3. new[i] = Xor(out[i], in[i]) /\ new[j] = Xor(out[j], in[j])
        BY <3>1, <4>1
      <4> HIDE DEF i, j, u, v, new
      <4>4. new[i] + ByteCount * new[j] = Xor(v, u)
        BY <3>2, <4>2, <4>3, WordOfSum
      <4> QED
        BY <1>1, <1>5, <3>3, <4>4 DEF u, v
    <3>5. CASE ~(j <= n)
      <4>1. i \notin 1..n /\ j \notin 1..n
        <5>1. n % 2 = 0
          BY <2>5, <3>1, <3>5
        <5> HIDE DEF i, j, n
        <5> QED
          BY <2>1, <3>1, <3>5, <5>1
      <4>2. u = 0
        BY <3>1, <3>5, WordIs
      <4>3. new[i] = out[i] /\ new[j] = out[j]
        BY <3>1, <4>1
      <4> HIDE DEF i, j, u, v, new
      <4> QED
        BY <1>1, <1>5, <3>2, <3>3, <4>2, <4>3 DEF u, v
    <3> QED
      BY <3>4, <3>5
  <2> HIDE DEF new
  <2>6. n % 2 = 0 \/ n = m => AddsWords(new, out, c, in)
    BY <2>4, <2>5 DEF AddsWords
  <2> QED
    BY <1>5, <2>2, <2>4, <2>6 DEF out, Accumulates
<1> QED
  BY <1>2, <1>3, <1>4, <1>5

-----------------------------------------------------------------------------
(* Coding *)

\* What each input gives to a word of the recovery slice of an exponent.
Terms(inputs, e, w) ==
  [i \in 1..Len(inputs) |-> Product(Coefficient(i - 1, e), Word(inputs[i], w))]

\* Inputs that are coded: of one length, with words for coefficients.
AreInputs(inputs, e, size) ==
  /\ size \in Nat \ {0}
  /\ inputs \in Seq(Seq(Byte)) /\ Len(inputs) \in Nat \ {0}
  /\ \A i \in 1..Len(inputs) :
       Len(inputs[i]) = size /\ Coefficient(i - 1, e) \in Field

\* A recovery slice to which the first k inputs were added.
IsCoded(s, inputs, e, k, size) ==
  /\ s \in Seq(Byte) /\ Len(s) = size
  /\ \A w \in 1..(size \div 2) : Word(s, w) = XorSum(Terms(inputs, e, w), k)

LEMMA TermsAre ==
  ASSUME FieldLaws, WordLaws, NEW inputs, NEW e, NEW size, AreInputs(inputs, e, size),
         NEW w \in Nat \ {0}
  PROVE  \A i \in 1..Len(inputs) :
           /\ inputs[i] \in Seq(Byte) /\ Len(inputs[i]) = size
           /\ Coefficient(i - 1, e) \in Field /\ Word(inputs[i], w) \in Field
           /\ Terms(inputs, e, w)[i] \in Field
           /\ Terms(inputs, e, w)[i] = Product(Coefficient(i - 1, e), Word(inputs[i], w))
<1> TAKE i \in 1..Len(inputs)
<1>1. Len(inputs[i]) = size /\ Coefficient(i - 1, e) \in Field
  BY DEF AreInputs
<1>2. inputs[i] \in Seq(Byte)
  BY ElementOfSeq DEF AreInputs
<1>3. Word(inputs[i], w) \in Field
  BY <1>2, WordIs
<1>4. Terms(inputs, e, w)[i] = Product(Coefficient(i - 1, e), Word(inputs[i], w))
  BY DEF Terms
<1>5. Product(Coefficient(i - 1, e), Word(inputs[i], w)) \in Field
  BY <1>1, <1>3, FieldFacts
<1> QED
  BY <1>1, <1>2, <1>3, <1>4, <1>5

\* Zeros have no input in them.
LEMMA CodedFirst ==
  ASSUME FieldLaws, WordLaws, NEW size \in Nat
  PROVE  /\ Zeros(size) \in Seq(Byte) /\ Len(Zeros(size)) = size
         /\ \A w \in 1..(size \div 2) : Word(Zeros(size), w) = 0
         /\ \A inputs, e : IsCoded(Zeros(size), inputs, e, 0, size)
<1>1. 0 \in Byte /\ ByteCount \in Nat
  BY DEF WordLaws
<1>2. Zeros(size) \in Seq(Byte) /\ Len(Zeros(size)) = size
      /\ \A p \in 1..size : Zeros(size)[p] = 0
  BY <1>1 DEF Zeros
<1>3. ASSUME NEW w \in 1..(size \div 2) PROVE Word(Zeros(size), w) = 0
  <2>1. w \in Nat \ {0} /\ 2 * w <= size /\ 2 * w - 1 \in 1..size /\ 2 * w \in 1..size
    OBVIOUS
  <2>2. Word(Zeros(size), w) = Zeros(size)[2 * w - 1] + ByteCount * Zeros(size)[2 * w]
    BY <1>2, <2>1, WordIs
  <2>3. Word(Zeros(size), w) = 0 + ByteCount * 0
    BY <1>2, <2>1, <2>2
  <2> QED
    BY <1>1, <2>3
<1>4. \A inputs, e : IsCoded(Zeros(size), inputs, e, 0, size)
  BY <1>2, <1>3, SumSteps DEF IsCoded
<1> QED
  BY <1>2, <1>3, <1>4

\* One more input.
LEMMA CodedNext ==
  ASSUME FieldLaws, WordLaws, NEW inputs, NEW e, NEW size, AreInputs(inputs, e, size),
         NEW k \in 1..Len(inputs), NEW out, IsCoded(out, inputs, e, k - 1, size),
         NEW result, AddsWords(result, out, Coefficient(k - 1, e), inputs[k])
  PROVE  IsCoded(result, inputs, e, k, size)
<1>1. result \in Seq(Byte) /\ Len(result) = size
  BY DEF AddsWords, IsCoded
<1>2. ASSUME NEW w \in 1..(size \div 2)
      PROVE  Word(result, w) = XorSum(Terms(inputs, e, w), k)
  <2>1. w \in Nat \ {0}
    BY DEF AreInputs
  <2>2. Word(result, w) = Xor(Word(out, w), Product(Coefficient(k - 1, e), Word(inputs[k], w)))
    BY DEF AddsWords, IsCoded
  <2>3. Word(out, w) = XorSum(Terms(inputs, e, w), k - 1)
    BY DEF IsCoded
  <2>4. Terms(inputs, e, w)[k] = Product(Coefficient(k - 1, e), Word(inputs[k], w))
    BY <2>1, TermsAre
  <2>5. k \in Nat \ {0} /\ k - 1 \in Nat /\ k - 1 + 1 = k
    BY DEF AreInputs
  <2>6. XorSum(Terms(inputs, e, w), k)
          = Xor(XorSum(Terms(inputs, e, w), k - 1), Terms(inputs, e, w)[k])
    BY <2>5, SumSteps
  <2> QED
    BY <2>2, <2>3, <2>4, <2>6
<1> QED
  BY <1>1, <1>2 DEF IsCoded

\* A whole input, by any kernel.
LEMMA InputAdded ==
  ASSUME FieldLaws, WordLaws, NEW inputs, NEW e, NEW size, AreInputs(inputs, e, size),
         NEW k \in 1..Len(inputs), NEW level \in Levels,
         NEW out, IsCoded(out, inputs, e, k - 1, size)
  PROVE  /\ IsCoded(MultiplyAdd(level, Coefficient(k - 1, e), inputs[k], out), inputs, e, k, size)
         /\ IsCoded(InputAdd(level, Coefficient(k - 1, e), inputs[k], out), inputs, e, k, size)
<1> DEFINE c == Coefficient(k - 1, e)
           in == inputs[k]
           one == MultiplyAdd(level, c, in, out)
           two == VectorAdd(c, in, out)
<1>1. c \in Field /\ in \in Seq(Byte) /\ Len(in) = size /\ out \in Seq(Byte) /\ Len(out) = size
  <2>1. 1 \in Nat \ {0}
    OBVIOUS
  <2> QED
    BY <2>1, TermsAre DEF IsCoded
<1>2. size \in Nat /\ Common(in, out) = size
  BY <1>1 DEF Common, Lesser, AreInputs
<1> HIDE DEF c, in
<1>3. AddsWords(one, out, c, in)
  <2>1. AddsProduct(one, out, c, in, size)
    BY <1>1, <1>2, MultiplyAddIs
  <2> HIDE DEF one
  <2> QED
    BY <1>1, <2>1, WordsAdded
<1>4. AddsWords(two, out, c, in)
  <2>1. AddsProduct(two, out, c, in, size)
    BY <1>1, <1>2, VectorAddIs
  <2> HIDE DEF two
  <2> QED
    BY <1>1, <2>1, WordsAdded
<1>5. InputAdd(level, c, in, out) = one \/ InputAdd(level, c, in, out) = two
  BY DEF InputAdd
<1> HIDE DEF one, two
<1>6. IsCoded(one, inputs, e, k, size) /\ IsCoded(two, inputs, e, k, size)
  BY <1>3, <1>4, CodedNext DEF c, in
<1> QED
  BY <1>5, <1>6 DEF c, in, one

\* Coded input after input, the slice is the sum over all of them.
LEMMA EncodeIs ==
  ASSUME FieldLaws, WordLaws, NEW inputs, NEW e, NEW size, AreInputs(inputs, e, size),
         NEW level \in Levels
  PROVE  IsCoded(Encode(level, inputs, e), inputs, e, Len(inputs), size)
<1> DEFINE n == Len(inputs)
           next(i, s) == IF i = 1 THEN MultiplyDirect(Coefficient(0, e), inputs[1], s)
                         ELSE MultiplyAdd(level, Coefficient(i - 1, e), inputs[i], s)
           first == Zeros(Len(inputs[1]))
           IsOut(g) == g = [i \in 0..n |->
                              IF i = 0 THEN first
                              ELSE IF i = 1
                              THEN MultiplyDirect(Coefficient(0, e), inputs[1], g[0])
                              ELSE MultiplyAdd(level, Coefficient(i - 1, e), inputs[i], g[i - 1])]
           Out == CHOOSE g : IsOut(g)
           V == [i \in 0..n |-> {s \in Seq(Byte) : IsCoded(s, inputs, e, i, size)}]
           step == [i \in 1..n |-> [s \in Seq(Byte) |-> next(i, s)]]
<1>1. n \in Nat /\ size \in Nat /\ 1 \in 1..n /\ 0 \in 0..n /\ Len(inputs[1]) = size
  BY DEF AreInputs
<1>2. Encode(level, inputs, e) = Out[n]
  BY DEF Encode
<1>3. first \in V[0]
  BY <1>1, CodedFirst
<1>4. ASSUME NEW i \in 1..n, NEW s \in V[i - 1] PROVE next(i, s) \in V[i]
  <2>1. i \in 0..n /\ i - 1 \in 0..n /\ s \in Seq(Byte) /\ IsCoded(s, inputs, e, i - 1, size)
    BY <1>1, <1>4
  <2>2. IsCoded(next(i, s), inputs, e, i, size)
    <3>1. CASE i = 1
      <4> DEFINE c == Coefficient(0, e)
                 in == inputs[1]
                 new == MultiplyDirect(c, in, s)
      <4>1. /\ c \in Field /\ in \in Seq(Byte) /\ Len(in) = Len(s)
            /\ Len(s) = size /\ s \in Seq(Byte)
        <5>1. 1 \in Nat \ {0} /\ 1 - 1 = 0
          OBVIOUS
        <5> QED
          BY <1>1, <2>1, <5>1, TermsAre DEF IsCoded
      <4> HIDE DEF c, in
      <4>2. /\ new \in Seq(Byte) /\ Len(new) = size
            /\ \A w \in 1..(size \div 2) : Word(new, w) = Product(c, Word(in, w))
        BY <4>1, DirectIs
      <4> HIDE DEF new
      <4>3. ASSUME NEW w \in 1..(size \div 2)
            PROVE  Word(new, w) = Xor(Word(s, w), Product(c, Word(in, w)))
        <5>1. w \in Nat \ {0}
          BY <1>1
        <5>2. Word(s, w) = 0
          BY <2>1, <3>1, SumSteps DEF IsCoded
        <5>3. Word(in, w) \in Field
          BY <4>1, <5>1, WordIs
        <5>4. Product(c, Word(in, w)) \in Field
          BY <4>1, <5>3, FieldFacts
        <5>5. Xor(0, Product(c, Word(in, w))) = Product(c, Word(in, w))
          BY <5>4, FieldFacts
        <5> QED
          BY <4>2, <5>2, <5>5
      <4>4. AddsWords(new, s, Coefficient(1 - 1, e), inputs[1])
        <5>1. 1 - 1 = 0
          OBVIOUS
        <5> QED
          BY <4>1, <4>2, <4>3, <5>1 DEF AddsWords, c, in
      <4>5. IsCoded(new, inputs, e, 1, size)
        BY <1>1, <2>1, <3>1, <4>4, CodedNext
      <4> QED
        BY <3>1, <4>5 DEF new, c, in
    <3>2. CASE i # 1
      BY <2>1, <3>2, InputAdded
    <3> QED
      BY <3>1, <3>2
  <2>3. next(i, s) \in Seq(Byte)
    BY <2>2 DEF IsCoded
  <2> HIDE DEF next
  <2> QED
    BY <2>1, <2>2, <2>3
<1>5. \A i \in 1..n : \A s \in Seq(Byte) : step[i][s] = next(i, s)
  OBVIOUS
<1>6. \A i \in 0..n : V[i] \subseteq Seq(Byte)
  OBVIOUS
<1>7. \A i \in 1..n : i - 1 \in 0..n /\ i \in 0..n
  BY <1>1
<1>8. V[n] = {s \in Seq(Byte) : IsCoded(s, inputs, e, n, size)}
  BY <1>1
<1> HIDE DEF V, step, first, next
<1>9. IsOut(Out)
  <2>1. \A i \in 1..n : \A s \in V[i - 1] : step[i][s] \in V[i]
    BY <1>4, <1>5, <1>6, <1>7
  <2> HIDE DEF n, IsOut, Out
  <2>2. PICK f : IsLoopIn(f, first, step, n, V)
    BY <1>1, <1>3, <2>1, LoopWithin
  <2>3. ASSUME NEW i \in 0..n
        PROVE  f[i] = IF i = 0 THEN first ELSE next(i, f[i - 1])
    <3>1. CASE i = 0
      BY <3>1, <2>2 DEF IsLoopIn
    <3>2. CASE i # 0
      <4>1. i \in 1..n /\ i - 1 \in 0..n
        BY <3>2, <1>1
      <4>2. f[i - 1] \in Seq(Byte)
        BY <4>1, <2>2, <1>6 DEF IsLoopIn
      <4> QED
        BY <4>1, <4>2, <3>2, <1>5, <2>2 DEF IsLoopIn
    <3> QED
      BY <3>1, <3>2
  <2>4. ASSUME NEW i \in 0..n
        PROVE  f[i] = IF i = 0 THEN first
                      ELSE IF i = 1
                      THEN MultiplyDirect(Coefficient(0, e), inputs[1], f[0])
                      ELSE MultiplyAdd(level, Coefficient(i - 1, e), inputs[i], f[i - 1])
    <3>1. CASE i = 1
      <4>1. i # 0 /\ i - 1 = 0
        BY <3>1
      <4> QED
        BY <3>1, <4>1, <2>3 DEF next
    <3>2. CASE i # 1
      BY <3>2, <2>3 DEF next
    <3> QED
      BY <3>1, <3>2
  <2>5. IsOut(f)
    BY <2>2, <2>4 DEF IsOut, IsLoopIn
  <2> QED
    BY <2>5 DEF Out
<1>10. \A i \in 0..n : Out[i] = IF i = 0 THEN first ELSE next(i, Out[i - 1])
  <2> HIDE DEF Out
  <2> QED
    BY <1>9 DEF next
<1>11. \A i \in 0..n : Out[i] \in V[i]
  <2>1. Out[0] \in V[0]
    BY <1>1, <1>3, <1>10
  <2>2. \A i \in 1..n : Out[i - 1] \in V[i - 1] => Out[i] \in V[i]
    BY <1>1, <1>4, <1>7, <1>10
  <2> HIDE DEF Out, n
  <2> QED
    BY <1>1, <2>1, <2>2, LoopStays
<1> HIDE DEF Out
<1> QED
  BY <1>1, <1>2, <1>8, <1>11

\* Two inputs at a time.
LEMMA AddedApart ==
  ASSUME NEW out, NEW first, NEW second, DOMAIN first \cap DOMAIN second = {}
  PROVE  Added(Added(out, first), second) = Added(Added(out, second), first)
<1> DEFINE a == [p \in DOMAIN out |-> IF p \in DOMAIN first THEN Xor(out[p], first[p])
                                      ELSE out[p]]
           b == [p \in DOMAIN out |-> IF p \in DOMAIN second THEN Xor(out[p], second[p])
                                      ELSE out[p]]
           x == [p \in DOMAIN out |-> IF p \in DOMAIN second THEN Xor(a[p], second[p])
                                      ELSE a[p]]
           y == [p \in DOMAIN out |-> IF p \in DOMAIN first THEN Xor(b[p], first[p])
                                      ELSE b[p]]
<1>1. Added(out, first) = a /\ Added(out, second) = b
  BY DEF Added
<1>2. DOMAIN a = DOMAIN out /\ DOMAIN b = DOMAIN out
  OBVIOUS
<1>3. \A p \in DOMAIN out : x[p] = y[p]
  <2> TAKE p \in DOMAIN out
  <2>1. /\ a[p] = IF p \in DOMAIN first THEN Xor(out[p], first[p]) ELSE out[p]
        /\ b[p] = IF p \in DOMAIN second THEN Xor(out[p], second[p]) ELSE out[p]
        /\ x[p] = IF p \in DOMAIN second THEN Xor(a[p], second[p]) ELSE a[p]
        /\ y[p] = IF p \in DOMAIN first THEN Xor(b[p], first[p]) ELSE b[p]
    OBVIOUS
  <2> HIDE DEF a, b, x, y
  <2> QED
    BY <2>1
<1>4. x = y
  <2>1. x = [p \in DOMAIN out |-> x[p]] /\ y = [p \in DOMAIN out |-> y[p]]
    OBVIOUS
  <2> HIDE DEF x, y
  <2> QED
    BY <1>3, <2>1
<1>5. Added(a, second) = x
  <2> HIDE DEF a
  <2> QED
    BY <1>2 DEF Added
<1>6. Added(b, first) = y
  <2> HIDE DEF b
  <2> QED
    BY <1>2 DEF Added
<1> HIDE DEF a, b, x, y
<1> QED
  BY <1>1, <1>4, <1>5, <1>6

AddsBoth(result, out, c, a, d, b) ==
  \E mid \in Seq(Byte) :
    AddsProduct(mid, out, c, a, Len(out)) /\ AddsProduct(result, mid, d, b, Len(out))

LEMMA VectorAddTwoIs ==
  ASSUME FieldLaws, WordLaws, NEW c \in Field, NEW a \in Seq(Byte),
         NEW d \in Field, NEW b \in Seq(Byte), NEW out \in Seq(Byte),
         Len(a) = Len(out), Len(b) = Len(out)
  PROVE  AddsBoth(VectorAddTwo(c, a, d, b, out), out, c, a, d, b)
<1> DEFINE n == Len(out)
           end == (n \div Vector) * Vector
           va == VectorBytes(c, a, end)
           vb == VectorBytes(d, b, end)
           sa == ScalarBytes(Split[c], a, end + 1, n)
           result == VectorAddTwo(c, a, d, b, out)
<1>1. n \in Nat /\ Common(a, out) = n /\ Common(b, out) = n /\ Lesser(n, Len(b)) = n
  BY DEF Common, Lesser
<1>2. Vector \in Nat /\ Vector > 0 /\ Vector % 2 = 0
  BY VectorAssumption
<1>3. CASE n < Vector
  <2> DEFINE mid == ScalarAdd(c, a, out, 1, n)
  <2>1. result = ScalarAdd(d, b, mid, 1, n)
    BY <1>1, <1>3 DEF VectorAddTwo
  <2>2. AddsProduct(mid, out, c, a, n)
    BY <1>1, ScalarAddIs
  <2>3. mid \in Seq(Byte) /\ Len(mid) = n
    BY <2>2 DEF AddsProduct
  <2> HIDE DEF mid
  <2>4. AddsProduct(ScalarAdd(d, b, mid, 1, n), mid, d, b, n)
    BY <1>1, <2>3, ScalarAddIs
  <2> HIDE DEF result
  <2> QED
    BY <2>1, <2>2, <2>3, <2>4 DEF AddsBoth, result
<1>4. CASE ~(n < Vector)
  <2> DEFINE mid == ScalarAdd(c, a, Added(out, va), end + 1, n)
  <2>1. end \in Nat /\ end <= n /\ end % 2 = 0
    BY <1>1, <1>2, WholeVectors
  <2>2. result = ScalarAdd(d, b, ScalarAdd(c, a, Added(Added(out, va), vb), end + 1, n), end + 1, n)
    BY <1>1, <1>4 DEF VectorAddTwo
  <2> HIDE DEF end
  <2>3. IsProduct(va, c, a, 1, end) /\ IsProduct(vb, d, b, 1, end)
    BY <1>1, <2>1, VectorIs
  <2>4. AddsProduct(mid, out, c, a, n)
    <3> HIDE DEF va
    <3> QED
      BY <1>1, <2>1, <2>3, AddedInParts
  <2>5. mid \in Seq(Byte) /\ Len(mid) = n
    BY <2>4 DEF AddsProduct
  <2>6. ScalarAdd(c, a, Added(Added(out, va), vb), end + 1, n) = Added(mid, vb)
    <3>1. DOMAIN sa = (end + 1)..n /\ DOMAIN vb = 1..end
      BY DEF ScalarBytes, VectorBytes
    <3>2. DOMAIN vb \cap DOMAIN sa = {}
      BY <1>1, <2>1, <3>1
    <3> DEFINE o == Added(out, va)
    <3>3. mid = Added(o, sa)
      BY DEF ScalarAdd
    <3>4. ScalarAdd(c, a, Added(o, vb), end + 1, n) = Added(Added(o, vb), sa)
      BY DEF ScalarAdd
    <3> HIDE DEF o, sa, vb, mid
    <3>5. Added(Added(o, vb), sa) = Added(Added(o, sa), vb)
      BY <3>2, AddedApart
    <3> QED
      BY <3>3, <3>4, <3>5 DEF o
  <2> HIDE DEF mid
  <2>7. AddsProduct(ScalarAdd(d, b, Added(mid, vb), end + 1, n), mid, d, b, n)
    <3> HIDE DEF vb
    <3> QED
      BY <1>1, <2>1, <2>3, <2>5, AddedInParts
  <2>8. AddsProduct(result, mid, d, b, n)
    BY <2>2, <2>6, <2>7
  <2> HIDE DEF result, va, vb
  <2>9. AddsBoth(result, out, c, a, d, b)
    BY <2>4, <2>5, <2>8 DEF AddsBoth
  <2> QED
    BY <2>9 DEF result
<1> QED
  BY <1>3, <1>4

LEMMA TwoInputsAdded ==
  ASSUME FieldLaws, WordLaws, NEW inputs, NEW e, NEW size, AreInputs(inputs, e, size),
         NEW k \in 1..Len(inputs), k + 1 <= Len(inputs),
         NEW out, IsCoded(out, inputs, e, k - 1, size)
  PROVE  IsCoded(VectorAddTwo(Coefficient(k - 1, e), inputs[k],
                              Coefficient(k, e), inputs[k + 1], out),
                 inputs, e, k + 1, size)
<1> DEFINE c == Coefficient(k - 1, e)
           d == Coefficient(k, e)
           a == inputs[k]
           b == inputs[k + 1]
           result == VectorAddTwo(c, a, d, b, out)
<1>1. k \in Nat /\ k + 1 \in 1..Len(inputs) /\ k + 1 - 1 = k
  BY DEF AreInputs
<1>2. /\ c \in Field /\ a \in Seq(Byte) /\ Len(a) = size
      /\ d \in Field /\ b \in Seq(Byte) /\ Len(b) = size
  <2>1. 1 \in Nat \ {0}
    OBVIOUS
  <2> QED
    BY <1>1, <2>1, TermsAre
<1>3. out \in Seq(Byte) /\ Len(out) = size
  BY DEF IsCoded
<1> HIDE DEF c, d, a, b
<1>4. PICK mid \in Seq(Byte) :
        /\ AddsProduct(mid, out, c, a, size)
        /\ AddsProduct(result, mid, d, b, size)
  <2>1. AddsBoth(result, out, c, a, d, b)
    BY <1>2, <1>3, VectorAddTwoIs
  <2> HIDE DEF result
  <2> QED
    BY <1>3, <2>1 DEF AddsBoth
<1> HIDE DEF result
<1>5. Len(mid) = size
  BY <1>3, <1>4 DEF AddsProduct
<1>6. AddsWords(mid, out, c, a)
  BY <1>2, <1>3, <1>4, WordsAdded
<1>7. AddsWords(result, mid, d, b)
  BY <1>2, <1>4, <1>5, WordsAdded
<1>8. IsCoded(mid, inputs, e, k, size)
  BY <1>6, CodedNext DEF c, a
<1>9. IsCoded(result, inputs, e, k + 1, size)
  <2>1. AddsWords(result, mid, Coefficient((k + 1) - 1, e), inputs[k + 1])
    BY <1>1, <1>7 DEF d, b
  <2>2. IsCoded(mid, inputs, e, (k + 1) - 1, size)
    BY <1>1, <1>8
  <2> HIDE DEF result
  <2> QED
    BY <1>1, <2>1, <2>2, CodedNext
<1> QED
  BY <1>9 DEF result, c, d, a, b

\* A batch, in pairs.
LEMMA BatchAddTwoIs ==
  ASSUME FieldLaws, WordLaws, NEW inputs, NEW e, NEW size, AreInputs(inputs, e, size),
         NEW first \in Nat, NEW n \in Nat, first + n <= Len(inputs),
         NEW start, IsCoded(start, inputs, e, first, size)
  PROVE  IsCoded(BatchAddTwo(inputs, e, first, n, start), inputs, e, first + n, size)
<1> DEFINE m == n \div 2
           next(k, s) == LET a == first + 2 * k - 1
                         IN  VectorAddTwo(Coefficient(a - 1, e), inputs[a],
                                          Coefficient(a, e), inputs[a + 1], s)
           IsOut(g) == g = [k \in 0..m |->
                              IF k = 0 THEN start
                              ELSE LET a == first + 2 * k - 1
                                   IN  VectorAddTwo(Coefficient(a - 1, e), inputs[a],
                                                    Coefficient(a, e), inputs[a + 1], g[k - 1])]
           Out == CHOOSE g : IsOut(g)
           V == [i \in 0..m |-> {s \in Seq(Byte) : IsCoded(s, inputs, e, first + 2 * i, size)}]
           step == [i \in 1..m |-> [s \in Seq(Byte) |-> next(i, s)]]
<1>1. m \in Nat /\ n = 2 * m + (n % 2) /\ n % 2 \in {0, 1} /\ Len(inputs) \in Nat
  BY DEF AreInputs
<1>2. BatchAddTwo(inputs, e, first, n, start)
        = IF n % 2 = 0 THEN Out[m]
          ELSE InputAdd("avx2", Coefficient(first + n - 1, e), inputs[first + n], Out[m])
  BY DEF BatchAddTwo
<1>3. start \in V[0]
  <2>1. 0 \in 0..m /\ first + 2 * 0 = first
    BY <1>1
  <2> QED
    BY <2>1 DEF IsCoded
<1>4. ASSUME NEW i \in 1..m, NEW s \in V[i - 1] PROVE next(i, s) \in V[i]
  <2> DEFINE a == first + 2 * i - 1
             at == first + 2 * (i - 1)
             new == VectorAddTwo(Coefficient(a - 1, e), inputs[a],
                                 Coefficient(a, e), inputs[a + 1], s)
  <2>1. i \in 0..m /\ i - 1 \in 0..m /\ s \in Seq(Byte) /\ IsCoded(s, inputs, e, at, size)
    BY <1>1, <1>4
  <2>2. a \in 1..Len(inputs) /\ a + 1 <= Len(inputs) /\ at = a - 1 /\ a + 1 = first + 2 * i
    BY <1>1, <2>1
  <2> HIDE DEF a, at
  <2>3. IsCoded(new, inputs, e, a + 1, size)
    BY <2>1, <2>2, TwoInputsAdded
  <2>4. new = next(i, s)
    BY DEF a
  <2> HIDE DEF new
  <2>5. new \in Seq(Byte)
    BY <2>3 DEF IsCoded
  <2> HIDE DEF next
  <2> QED
    BY <2>1, <2>2, <2>3, <2>4, <2>5
<1>5. \A i \in 1..m : \A s \in Seq(Byte) : step[i][s] = next(i, s)
  OBVIOUS
<1>6. \A i \in 0..m : V[i] \subseteq Seq(Byte)
  OBVIOUS
<1>7. m \in Nat /\ 0 \in 0..m /\ m \in 0..m /\ \A i \in 1..m : i - 1 \in 0..m /\ i \in 0..m /\ i # 0
  BY <1>1
<1>8. V[m] = {s \in Seq(Byte) : IsCoded(s, inputs, e, first + 2 * m, size)}
  BY <1>7
<1> HIDE DEF V, step, next, m
<1>9. IsOut(Out)
  <2>1. \A i \in 1..m : \A s \in V[i - 1] : step[i][s] \in V[i]
    BY <1>4, <1>5, <1>6, <1>7
  <2> HIDE DEF IsOut, Out
  <2>2. PICK f : IsLoopIn(f, start, step, m, V)
    BY <1>3, <1>7, <2>1, LoopWithin
  <2>3. ASSUME NEW i \in 0..m
        PROVE  f[i] = IF i = 0 THEN start ELSE next(i, f[i - 1])
    <3>1. CASE i = 0
      BY <3>1, <2>2 DEF IsLoopIn
    <3>2. CASE i # 0
      <4>1. i \in 1..m /\ i - 1 \in 0..m
        BY <3>2, <1>7
      <4>2. f[i - 1] \in Seq(Byte)
        BY <4>1, <2>2, <1>6 DEF IsLoopIn
      <4> QED
        BY <4>1, <4>2, <3>2, <1>5, <2>2 DEF IsLoopIn
    <3> QED
      BY <3>1, <3>2
  <2>4. f = [i \in 0..m |-> IF i = 0 THEN start ELSE next(i, f[i - 1])]
    BY <2>2, <2>3 DEF IsLoopIn
  <2>5. IsOut(f)
    BY <2>4 DEF IsOut, next
  <2> QED
    BY <2>5 DEF Out
<1>10. \A i \in 0..m : Out[i] = IF i = 0 THEN start ELSE next(i, Out[i - 1])
  <2> HIDE DEF Out
  <2> QED
    BY <1>9 DEF next
<1>11. \A i \in 0..m : Out[i] \in V[i]
  <2>1. Out[0] \in V[0]
    BY <1>3, <1>7, <1>10
  <2>2. \A i \in 1..m : Out[i - 1] \in V[i - 1] => Out[i] \in V[i]
    BY <1>4, <1>7, <1>10
  <2> HIDE DEF Out
  <2> QED
    BY <1>7, <2>1, <2>2, LoopStays
<1> HIDE DEF Out
<1>12. IsCoded(Out[m], inputs, e, first + 2 * m, size)
  BY <1>7, <1>8, <1>11
<1> DEFINE mid == Out[m]
<1>13. IsCoded(mid, inputs, e, first + 2 * m, size)
  BY <1>12
<1> HIDE DEF mid
<1>14. CASE n % 2 = 0
  <2>1. first + 2 * m = first + n
    BY <1>14, <1>1 DEF m
  <2> QED
    BY <1>2, <1>13, <1>14, <2>1 DEF mid
<1>15. CASE n % 2 # 0
  <2> DEFINE k == first + n
  <2>1. first + 2 * m = k - 1 /\ k \in 1..Len(inputs)
    BY <1>15, <1>1 DEF m
  <2>2. "avx2" \in Levels
    BY DEF Levels
  <2>3. BatchAddTwo(inputs, e, first, n, start)
          = InputAdd("avx2", Coefficient(k - 1, e), inputs[k], mid)
    BY <1>2, <1>15 DEF mid
  <2> HIDE DEF k
  <2>4. IsCoded(mid, inputs, e, k - 1, size)
    BY <1>13, <2>1
  <2>5. IsCoded(InputAdd("avx2", Coefficient(k - 1, e), inputs[k], mid), inputs, e, k, size)
    BY <2>1, <2>2, <2>4, InputAdded
  <2> QED
    BY <2>3, <2>5 DEF k
<1> QED
  BY <1>14, <1>15

\* A batch, by any kernel.
LEMMA BatchAddIs ==
  ASSUME FieldLaws, WordLaws, NEW inputs, NEW e, NEW size, AreInputs(inputs, e, size),
         NEW level \in Levels,
         NEW first \in Nat, NEW n \in Nat, first + n <= Len(inputs),
         NEW start, IsCoded(start, inputs, e, first, size)
  PROVE  IsCoded(BatchAdd(level, inputs, e, first, n, start), inputs, e, first + n, size)
<1> DEFINE m == n
           next(k, s) == InputAdd(level, Coefficient(first + k - 1, e), inputs[first + k], s)
           IsOut(g) == g = [k \in 0..m |->
                              IF k = 0 THEN start
                              ELSE InputAdd(level, Coefficient(first + k - 1, e),
                                            inputs[first + k], g[k - 1])]
           Out == CHOOSE g : IsOut(g)
           V == [i \in 0..m |-> {s \in Seq(Byte) : IsCoded(s, inputs, e, first + i, size)}]
           step == [i \in 1..m |-> [s \in Seq(Byte) |-> next(i, s)]]
<1>1. m \in Nat /\ n = m /\ Len(inputs) \in Nat
  BY DEF AreInputs
<1>2. level # "avx2" => BatchAdd(level, inputs, e, first, n, start) = Out[m]
  BY DEF BatchAdd
<1>3. start \in V[0]
  <2>1. 0 \in 0..m /\ first + 0 = first
    BY <1>1
  <2> QED
    BY <2>1 DEF IsCoded
<1>4. ASSUME NEW i \in 1..m, NEW s \in V[i - 1] PROVE next(i, s) \in V[i]
  <2> DEFINE k == first + i
             new == InputAdd(level, Coefficient(k - 1, e), inputs[k], s)
  <2>1. i \in 0..m /\ i - 1 \in 0..m /\ s \in Seq(Byte) /\ IsCoded(s, inputs, e, first + (i - 1), size)
    BY <1>1, <1>4
  <2>2. k \in 1..Len(inputs) /\ first + (i - 1) = k - 1
    BY <1>1, <2>1
  <2>3. new = next(i, s)
    OBVIOUS
  <2>4. k = first + i
    OBVIOUS
  <2> HIDE DEF k
  <2>5. IsCoded(new, inputs, e, k, size)
    BY <2>1, <2>2, InputAdded
  <2> HIDE DEF new
  <2>6. new \in Seq(Byte)
    BY <2>5 DEF IsCoded
  <2> HIDE DEF next
  <2> QED
    BY <2>1, <2>3, <2>4, <2>5, <2>6
<1>5. \A i \in 1..m : \A s \in Seq(Byte) : step[i][s] = next(i, s)
  OBVIOUS
<1>6. \A i \in 0..m : V[i] \subseteq Seq(Byte)
  OBVIOUS
<1>7. m \in Nat /\ 0 \in 0..m /\ m \in 0..m /\ \A i \in 1..m : i - 1 \in 0..m /\ i \in 0..m /\ i # 0
  BY <1>1
<1>8. V[m] = {s \in Seq(Byte) : IsCoded(s, inputs, e, first + m, size)}
  BY <1>7
<1> HIDE DEF V, step, next, m
<1>9. IsOut(Out)
  <2>1. \A i \in 1..m : \A s \in V[i - 1] : step[i][s] \in V[i]
    BY <1>4, <1>5, <1>6, <1>7
  <2> HIDE DEF IsOut, Out
  <2>2. PICK f : IsLoopIn(f, start, step, m, V)
    BY <1>3, <1>7, <2>1, LoopWithin
  <2>3. ASSUME NEW i \in 0..m
        PROVE  f[i] = IF i = 0 THEN start ELSE next(i, f[i - 1])
    <3>1. CASE i = 0
      BY <3>1, <2>2 DEF IsLoopIn
    <3>2. CASE i # 0
      <4>1. i \in 1..m /\ i - 1 \in 0..m
        BY <3>2, <1>7
      <4>2. f[i - 1] \in Seq(Byte)
        BY <4>1, <2>2, <1>6 DEF IsLoopIn
      <4> QED
        BY <4>1, <4>2, <3>2, <1>5, <2>2 DEF IsLoopIn
    <3> QED
      BY <3>1, <3>2
  <2>4. f = [i \in 0..m |-> IF i = 0 THEN start ELSE next(i, f[i - 1])]
    BY <2>2, <2>3 DEF IsLoopIn
  <2>5. IsOut(f)
    BY <2>4 DEF IsOut, next
  <2> QED
    BY <2>5 DEF Out
<1>10. \A i \in 0..m : Out[i] = IF i = 0 THEN start ELSE next(i, Out[i - 1])
  <2> HIDE DEF Out
  <2> QED
    BY <1>9 DEF next
<1>11. \A i \in 0..m : Out[i] \in V[i]
  <2>1. Out[0] \in V[0]
    BY <1>3, <1>7, <1>10
  <2>2. \A i \in 1..m : Out[i - 1] \in V[i - 1] => Out[i] \in V[i]
    BY <1>4, <1>7, <1>10
  <2> HIDE DEF Out
  <2> QED
    BY <1>7, <2>1, <2>2, LoopStays
<1> HIDE DEF Out
<1>12. IsCoded(Out[m], inputs, e, first + m, size)
  BY <1>7, <1>8, <1>11
<1>13. CASE level = "avx2"
  BY <1>13, BatchAddTwoIs DEF BatchAdd
<1>14. CASE level # "avx2"
  BY <1>1, <1>2, <1>12, <1>14
<1> QED
  BY <1>13, <1>14

\* Coded batch after batch, the slice is the same sum.
LEMMA PackedEncodeIs ==
  ASSUME FieldLaws, WordLaws, NEW inputs, NEW e, NEW size, AreInputs(inputs, e, size),
         NEW level \in Levels
  PROVE  IsCoded(PackedEncode(level, inputs, e), inputs, e, Len(inputs), size)
<1> DEFINE n == Len(inputs)
           m == (n + Batch - 1) \div Batch
           start == Zeros(Len(inputs[1]))
           At(k) == k * Batch
           done(k) == Lesser(At(k), n)
           next(k, s) == BatchAdd(level, inputs, e, (k - 1) * Batch,
                                  Lesser(Batch, n - (k - 1) * Batch), s)
           IsOut(g) == g = [k \in 0..m |->
                              IF k = 0 THEN start
                              ELSE BatchAdd(level, inputs, e, (k - 1) * Batch,
                                            Lesser(Batch, n - (k - 1) * Batch), g[k - 1])]
           Out == CHOOSE g : IsOut(g)
           V == [i \in 0..m |-> {s \in Seq(Byte) : IsCoded(s, inputs, e, done(i), size)}]
           step == [i \in 1..m |-> [s \in Seq(Byte) |-> next(i, s)]]
<1>0. Batch \in Nat \ {0} /\ n \in Nat \ {0} /\ size \in Nat /\ Len(inputs[1]) = size
  BY BatchAssumption DEF AreInputs
<1>1. /\ m \in Nat /\ done(0) = 0 /\ done(m) = n
      /\ \A i \in 1..m : At(i - 1) \in Nat /\ At(i - 1) < n /\ At(i) = At(i - 1) + Batch
  <2>1. m \in Nat /\ m * Batch >= n /\ (m - 1) * Batch < n
    <3> DEFINE x == n + Batch - 1
    <3>1. x \in Nat /\ x = Batch * m + (x % Batch) /\ x % Batch \in 0..(Batch - 1) /\ m \in Nat
      BY <1>0
    <3>2. m * Batch = Batch * m /\ (m - 1) * Batch = Batch * m - Batch /\ m * Batch \in Nat
      <4> HIDE DEF m
      <4> QED
        BY <1>0, <3>1
    <3> HIDE DEF m
    <3> DEFINE y == m * Batch
    <3>3. y \in Nat /\ x = y + (x % Batch) /\ x = n + Batch - 1 /\ (m - 1) * Batch = y - Batch
      BY <3>1, <3>2
    <3>4. x % Batch \in Nat /\ x % Batch <= Batch - 1
      BY <3>1, <1>0
    <3> DEFINE z == x % Batch
    <3> HIDE DEF x, y, z
    <3>5. z \in Nat /\ z <= Batch - 1 /\ x = y + z /\ x = n + Batch - 1 /\ y \in Nat
      BY <3>3, <3>4 DEF z
    <3>6. y >= n /\ y - Batch < n
      <4> HIDE DEF n
      <4> QED
        BY <1>0, <3>5
    <3> QED
      BY <3>1, <3>3, <3>6 DEF y
  <2>2. ASSUME NEW i \in 1..m
        PROVE  At(i - 1) \in Nat /\ At(i - 1) < n /\ At(i) = At(i - 1) + Batch
    <3> HIDE DEF m, n
    <3>1. i \in Nat /\ i - 1 \in Nat /\ m - i \in Nat
      BY <2>1
    <3>2. (i - 1) * Batch \in Nat /\ i * Batch = (i - 1) * Batch + Batch
      BY <1>0, <3>1
    <3>3. (m - 1) * Batch = (i - 1) * Batch + (m - i) * Batch /\ (m - i) * Batch \in Nat
      BY <1>0, <2>1, <3>1
    <3>4. (m - 1) * Batch \in Int
      BY <3>2, <3>3
    <3>5. (i - 1) * Batch < n
      <4> DEFINE u == (m - 1) * Batch
                 v == (i - 1) * Batch
                 w == (m - i) * Batch
      <4>1. u = v + w /\ v \in Nat /\ w \in Nat /\ u < n
        BY <2>1, <3>2, <3>3
      <4> HIDE DEF u, v, w
      <4>2. v < n
        BY <1>0, <4>1
      <4> QED
        BY <4>2 DEF v
    <3> QED
      BY <3>2, <3>5
  <2>3. done(0) = 0
    BY <1>0 DEF Lesser
  <2>4. done(m) = n
    <3> HIDE DEF m, n
    <3> QED
      BY <1>0, <2>1 DEF Lesser
  <2> QED
    BY <2>1, <2>2, <2>3, <2>4
<1>2. PackedEncode(level, inputs, e) = Out[m]
  BY DEF PackedEncode
<1> HIDE DEF At
<1>3. start \in V[0]
  <2>1. 0 \in 0..m /\ IsCoded(start, inputs, e, 0, size) /\ start \in Seq(Byte)
    BY <1>0, <1>1, CodedFirst
  <2> HIDE DEF start, done, m
  <2> QED
    BY <2>1, <1>1
<1>4. ASSUME NEW i \in 1..m, NEW s \in V[i - 1] PROVE next(i, s) \in V[i]
  <2> DEFINE at == At(i - 1)
             count == Lesser(Batch, n - at)
             new == BatchAdd(level, inputs, e, at, count, s)
  <2>1. i \in 0..m /\ i - 1 \in 0..m
    BY <1>1
  <2>2. s \in Seq(Byte) /\ IsCoded(s, inputs, e, done(i - 1), size)
    <3> HIDE DEF done, m, n
    <3> QED
      BY <1>4, <2>1
  <2>3. at \in Nat /\ at < n /\ At(i) = at + Batch
    BY <1>1
  <2>4. new = next(i, s)
    BY DEF At
  <2> HIDE DEF at
  <2>5. done(i - 1) = at /\ count \in Nat /\ at + count <= n /\ done(i) = at + count
    BY <1>0, <2>3 DEF Lesser, at
  <2> HIDE DEF count, done
  <2>6. IsCoded(new, inputs, e, at + count, size)
    BY <2>2, <2>3, <2>5, BatchAddIs
  <2> HIDE DEF new, next
  <2>7. new \in Seq(Byte)
    BY <2>6 DEF IsCoded
  <2> QED
    BY <2>1, <2>4, <2>5, <2>6, <2>7
<1>5. \A i \in 1..m : \A s \in Seq(Byte) : step[i][s] = next(i, s)
  OBVIOUS
<1>6. \A i \in 0..m : V[i] \subseteq Seq(Byte)
  OBVIOUS
<1>7. m \in Nat /\ 0 \in 0..m /\ m \in 0..m /\ \A i \in 1..m : i - 1 \in 0..m /\ i \in 0..m /\ i # 0
  BY <1>1
<1>8. V[m] = {s \in Seq(Byte) : IsCoded(s, inputs, e, done(m), size)}
  BY <1>7
<1> HIDE DEF V, step, next, m, start, done
<1>9. IsOut(Out)
  <2>1. \A i \in 1..m : \A s \in V[i - 1] : step[i][s] \in V[i]
    BY <1>4, <1>5, <1>6, <1>7
  <2> HIDE DEF IsOut, Out
  <2>2. PICK f : IsLoopIn(f, start, step, m, V)
    BY <1>3, <1>7, <2>1, LoopWithin
  <2>3. ASSUME NEW i \in 0..m
        PROVE  f[i] = IF i = 0 THEN start ELSE next(i, f[i - 1])
    <3>1. CASE i = 0
      BY <3>1, <2>2 DEF IsLoopIn
    <3>2. CASE i # 0
      <4>1. i \in 1..m /\ i - 1 \in 0..m
        BY <3>2, <1>7
      <4>2. f[i - 1] \in Seq(Byte)
        BY <4>1, <2>2, <1>6 DEF IsLoopIn
      <4> QED
        BY <4>1, <4>2, <3>2, <1>5, <2>2 DEF IsLoopIn
    <3> QED
      BY <3>1, <3>2
  <2>4. f = [i \in 0..m |-> IF i = 0 THEN start ELSE next(i, f[i - 1])]
    BY <2>2, <2>3 DEF IsLoopIn
  <2>5. IsOut(f)
    BY <2>4 DEF IsOut, next
  <2> QED
    BY <2>5 DEF Out
<1>10. \A i \in 0..m : Out[i] = IF i = 0 THEN start ELSE next(i, Out[i - 1])
  <2> HIDE DEF Out
  <2> QED
    BY <1>9 DEF next
<1>11. \A i \in 0..m : Out[i] \in V[i]
  <2>1. Out[0] \in V[0]
    BY <1>3, <1>7, <1>10
  <2>2. \A i \in 1..m : Out[i - 1] \in V[i - 1] => Out[i] \in V[i]
    BY <1>4, <1>7, <1>10
  <2> HIDE DEF Out
  <2> QED
    BY <1>7, <2>1, <2>2, LoopStays
<1> HIDE DEF Out
<1>12. IsCoded(Out[m], inputs, e, done(m), size)
  BY <1>7, <1>8, <1>11
<1> QED
  BY <1>1, <1>2, <1>12 DEF m

-----------------------------------------------------------------------------
(* Decoding *)

\* The members of a set in order are each of them, and each once.
LEMMA InOrderOnce ==
  ASSUME NEW S \in SUBSET Nat, IsFiniteSet(S)
  PROVE  /\ InOrder(S) \in [1..Cardinality(S) -> S] /\ Cardinality(S) \in Nat
         /\ \A k, l \in 1..Cardinality(S) : InOrder(S)[k] = InOrder(S)[l] => k = l
         /\ \A i \in S : \E k \in 1..Cardinality(S) : InOrder(S)[k] = i
<1> DEFINE s == InOrder(S)
           n == Cardinality(S)
<1>1. n \in Nat
  BY FS_CardinalityType
<1>2. s \in [1..n -> S] /\ \A k \in 1..n : Cardinality({j \in S : j < s[k]}) = k - 1
  BY InOrderOf
<1> HIDE DEF s, n
<1>3. ASSUME NEW k \in 1..n, NEW l \in 1..n, s[k] = s[l] PROVE k = l
  <2>1. k - 1 = l - 1
    BY <1>2, <1>3
  <2> QED
    BY <2>1
<1>4. s \in Injection(1..n, S)
  BY <1>2, <1>3 DEF Injection, IsInjective
<1>5. IsFiniteSet(1..n) /\ Cardinality(1..n) = n
  BY <1>1, FS_Interval
<1>6. s \in Surjection(1..n, S)
  BY <1>4, <1>5, FS_Injection DEF n
<1>7. \A i \in S : \E k \in 1..n : s[k] = i
  BY <1>6 DEF Surjection
<1> QED
  BY <1>1, <1>2, <1>3, <1>7 DEF s, n

\* The places of a sequence, counted from 0, and its words at some of them only,
\* in their places or one after the other.
Places(n) == 0..(n - 1)
HasOnly(f, words, S, n) == \A i \in 1..n : f[i] = IF i - 1 \in S THEN words[i] ELSE 0
IsPicked(g, words, S) ==
  \A k \in 1..Cardinality(S) : g[k] = words[InOrder(S)[k] + 1]

\* The sum over a set of places, taken in order.
LEMMA SumOver ==
  ASSUME FieldLaws, NEW n \in Nat, NEW words, \A i \in 1..n : words[i] \in Field,
         NEW S \in SUBSET Places(n), NEW f, HasOnly(f, words, S, n),
         NEW g, IsPicked(g, words, S)
  PROVE  XorSum(f, n) = XorSum(g, Cardinality(S))
<1> DEFINE m == Cardinality(S)
           s == InOrder(S)
           F == [i \in 1..n |-> [k \in 1..m |-> IF s[k] = i - 1 THEN words[i] ELSE 0]]
           G == [k \in 1..m |-> [i \in 1..n |-> IF s[k] = i - 1 THEN words[i] ELSE 0]]
           a == [i \in 1..n |-> XorSum(F[i], m)]
           b == [k \in 1..m |-> XorSum(G[k], n)]
<1>1. S \in SUBSET Nat /\ IsFiniteSet(S)
  <2>1. 0 \in Int /\ n - 1 \in Int /\ Places(n) = 0..(n - 1) /\ S \in SUBSET Nat
    BY DEF Places
  <2>2. IsFiniteSet(Places(n))
    <3>1. IsFiniteSet(0..(n - 1))
      <4> DEFINE k == n - 1
      <4>1. k \in Int
        BY <2>1
      <4> HIDE DEF k
      <4>2. IsFiniteSet(0..k)
        BY <4>1, FS_Interval
      <4> QED
        BY <4>2 DEF k
    <3> QED
      BY <2>1, <3>1
  <2> QED
    BY <2>1, <2>2, FS_Subset
<1>2. /\ s \in [1..m -> S] /\ m \in Nat
      /\ \A k, l \in 1..m : s[k] = s[l] => k = l
      /\ \A i \in S : \E k \in 1..m : s[k] = i
  BY <1>1, InOrderOnce
<1>3. 0 \in Field
  BY DEF FieldLaws
<1> HIDE DEF m, s
<1>4. \A i \in 1..n : \A k \in 1..m : F[i][k] = IF s[k] = i - 1 THEN words[i] ELSE 0
  OBVIOUS
<1>5. \A i \in 1..n : \A k \in 1..m : G[k][i] = IF s[k] = i - 1 THEN words[i] ELSE 0
  OBVIOUS
<1>6. (\A i \in 1..n : a[i] = XorSum(F[i], m)) /\ \A k \in 1..m : b[k] = XorSum(G[k], n)
  OBVIOUS
<1> HIDE DEF F, G
<1>7. XorSum(a, n) = XorSum(b, m)
  <2>1. Transposed(F, G, n, m)
    BY <1>3, <1>4, <1>5 DEF Transposed
  <2>2. AreSumsOf(a, F, n, m) /\ AreSumsOf(b, G, m, n)
    BY <1>6 DEF AreSumsOf
  <2> HIDE DEF a, b
  <2> QED
    BY <1>2, <2>1, <2>2, SumSwapped
<1> HIDE DEF a, b
<1>8. ASSUME NEW i \in 1..n PROVE f[i] = a[i]
  <2>1. CASE i - 1 \in S
    <3>1. PICK k \in 1..m : s[k] = i - 1
      BY <1>2, <2>1
    <3> DEFINE h == F[i]
    <3>2. h[k] = words[i] /\ h[k] \in Field
      BY <1>4, <3>1
    <3>3. \A l \in 1..m : l # k => h[l] = 0
      BY <1>2, <1>4, <3>1
    <3> HIDE DEF h
    <3>4. XorSum(h, m) = h[k]
      BY <1>2, <3>2, <3>3, SumOfOne
    <3> QED
      BY <1>6, <2>1, <3>2, <3>4 DEF h, HasOnly
  <2>2. CASE i - 1 \notin S
    <3> DEFINE h == F[i]
    <3>1. \A l \in 1..m : h[l] = 0
      BY <1>2, <1>4, <2>2
    <3> HIDE DEF h
    <3>2. XorSum(h, m) = 0
      BY <1>2, <3>1, SumOfZeros
    <3> QED
      BY <1>6, <2>2, <3>2 DEF h, HasOnly
  <2> QED
    BY <2>1, <2>2
<1>9. ASSUME NEW k \in 1..m PROVE g[k] = b[k]
  <2> DEFINE i == s[k] + 1
             h == G[k]
  <2>1. i \in 1..n /\ i - 1 = s[k]
    <3>1. s[k] \in S
      BY <1>2
    <3>2. s[k] \in 0..(n - 1)
      BY <3>1 DEF Places
    <3> QED
      BY <3>2
  <2> HIDE DEF i
  <2>2. h[i] = words[i] /\ h[i] \in Field
    BY <1>5, <2>1
  <2>3. \A l \in 1..n : l # i => h[l] = 0
    <3> TAKE l \in 1..n
    <3>1. l # i => s[k] # l - 1
      BY <2>1
    <3> QED
      BY <1>5, <3>1
  <2> HIDE DEF h
  <2>4. XorSum(h, n) = h[i]
    BY <2>1, <2>2, <2>3, SumOfOne
  <2>5. g[k] = words[i]
    BY DEF i, m, s, IsPicked
  <2> QED
    BY <1>6, <2>2, <2>4, <2>5 DEF h
<1>10. XorSum(f, n) = XorSum(a, n)
  BY <1>8, SumSame
<1>11. XorSum(g, m) = XorSum(b, m)
  BY <1>2, <1>9, SumSame
<1> QED
  BY <1>7, <1>10, <1>11 DEF m

\* The sum over all is that over some and that over the others.
LEMMA SumSplit ==
  ASSUME FieldLaws, NEW n \in Nat, NEW words, \A i \in 1..n : words[i] \in Field,
         NEW S \in SUBSET Places(n), NEW R, R = Places(n) \ S,
         NEW g, IsPicked(g, words, S), NEW h, IsPicked(h, words, R)
  PROVE  XorSum(words, n) = Xor(XorSum(g, Cardinality(S)), XorSum(h, Cardinality(R)))
<1> DEFINE u == [i \in 1..n |-> IF i - 1 \in S THEN words[i] ELSE 0]
           v == [i \in 1..n |-> IF i - 1 \in R THEN words[i] ELSE 0]
<1>1. HasOnly(u, words, S, n) /\ HasOnly(v, words, R, n)
  BY DEF HasOnly
<1> HIDE DEF u, v
<1>2. XorSum(u, n) = XorSum(g, Cardinality(S))
  BY <1>1, SumOver
<1>3. XorSum(v, n) = XorSum(h, Cardinality(R))
  <2>1. R \in SUBSET Places(n)
    OBVIOUS
  <2> QED
    BY <1>1, <2>1, SumOver
<1>4. ASSUME NEW i \in 1..n
      PROVE  u[i] \in Field /\ v[i] \in Field /\ words[i] = Xor(u[i], v[i])
  <2>1. i - 1 \in Places(n) /\ words[i] \in Field
    BY DEF Places
  <2>2. 0 \in Field /\ Xor(words[i], 0) = words[i] /\ Xor(0, words[i]) = words[i]
    BY <2>1, FieldFacts
  <2>3. CASE i - 1 \in S
    BY <1>1, <2>1, <2>2, <2>3 DEF HasOnly
  <2>4. CASE i - 1 \notin S
    BY <1>1, <2>1, <2>2, <2>4 DEF HasOnly
  <2> QED
    BY <2>3, <2>4
<1>5. XorSum(words, n) = Xor(XorSum(u, n), XorSum(v, n))
  <2>1. \A i \in 1..n : u[i] \in Field /\ v[i] \in Field /\ words[i] = Xor(u[i], v[i])
    BY <1>4
  <2> QED
    BY <2>1, SumPlus
<1> QED
  BY <1>2, <1>3, <1>5

\* A side of a system is a sum of words.
LEMMA SideIs ==
  ASSUME FieldLaws, NEW n \in Nat, NEW row, NEW x,
         \A k \in 1..n : row[k] \in Field /\ x[k] \in Field
  PROVE  /\ Side(row, 0, x, n) \in Field
         /\ \A f : (\A k \in 1..n : f[k] = Product(row[k], x[k])) => XorSum(f, n) = Side(row, 0, x, n)
<1> DEFINE g == [k \in 1..n |-> Product(row[0 + k], x[k])]
<1>1. Side(row, 0, x, n) = XorSum(g, n)
  BY DEF Side
<1>2. ASSUME NEW k \in 1..n PROVE g[k] = Product(row[k], x[k]) /\ g[k] \in Field
  <2>1. 0 + k = k
    OBVIOUS
  <2>2. g[k] = Product(row[k], x[k])
    BY <2>1
  <2>3. Product(row[k], x[k]) \in Field
    BY FieldFacts
  <2> QED
    BY <2>2, <2>3
<1> HIDE DEF g
<1>3. XorSum(g, n) \in Field
  BY <1>2, SumIsWord
<1>4. ASSUME NEW f, \A k \in 1..n : f[k] = Product(row[k], x[k])
      PROVE  XorSum(f, n) = XorSum(g, n)
  <2>1. \A k \in 1..n : f[k] = g[k]
    BY <1>2, <1>4
  <2> QED
    BY <2>1, SumSame
<1> QED
  BY <1>1, <1>3, <1>4

\* What was coded: each recovery slice is the sum of what the missing and the
\* present inputs give to it.
AreCoded(d, matrix, x, n, C, y, m) ==
  \A r \in 1..n : d[r] = Xor(Side(matrix[r], 0, x, n), Side(C[r], 0, y, m))

\* A row of the inverse, applied to the coefficients of the present inputs.
IsCombined(comb, row, n, C, m) ==
  \A a \in 1..m : comb[a] = XorSum([r \in 1..n |-> Product(row[r], C[r][a])], n)

HasWords(y, m) == \A a \in 1..m : y[a] \in Field
HasRows(C, n, m) == \A r \in 1..n : \A a \in 1..m : C[r][a] \in Field

\* The weighed recovery slices and the weighed present inputs add up to a word, and
\* not without any recovery slice.
Recovers(row, d, n, comb, y, m, word) ==
  /\ \A r \in 1..n : row[r] \in Field /\ d[r] \in Field
  /\ \A a \in 1..m : comb[a] \in Field
  /\ Xor(Side(row, 0, d, n), Side(comb, 0, y, m)) = word
  /\ \E r \in 1..n : row[r] # 0

\* The recovery slices, weighed by a row of the inverse, and the present inputs,
\* weighed by the combined coefficients, add up to the missing input.
LEMMA Recovered ==
  ASSUME FieldLaws, NEW n \in Nat \ {0}, NEW matrix \in [1..n -> [1..n -> Field]],
         NEW inverse, inverse = Invert(matrix), inverse # Singular,
         NEW x \in [1..n -> Field],
         NEW m \in Nat, NEW y, HasWords(y, m), NEW C, HasRows(C, n, m),
         NEW d, AreCoded(d, matrix, x, n, C, y, m),
         NEW k \in 1..n, NEW weights, weights = inverse[k],
         NEW comb, IsCombined(comb, weights, n, C, m)
  PROVE  Recovers(weights, d, n, comb, y, m, x[k])
<1> USE DEF HasWords, HasRows
<1> SUFFICES /\ \A r \in 1..n : inverse[k][r] \in Field /\ d[r] \in Field
             /\ \A a \in 1..m : comb[a] \in Field
             /\ Xor(Side(inverse[k], 0, d, n), Side(comb, 0, y, m)) = x[k]
             /\ \E r \in 1..n : inverse[k][r] # 0
  BY DEF Recovers
<1>z. /\ \A a \in 1..m : y[a] \in Field
      /\ \A r \in 1..n : \A a \in 1..m : C[r][a] \in Field
  OBVIOUS
<1> DEFINE v == inverse[k]
           M == Image(matrix, x, n)
           A == [r \in 1..n |-> Side(C[r], 0, y, m)]
<1>0. /\ inverse \in [1..n -> [1..n -> Field]]
      /\ \A u \in [1..n -> Field] : Side(v, 0, Image(matrix, u, n), n) = u[k]
  <2> HIDE DEF v, M, A
  <2>1. Inverts(inverse, matrix, n)
    BY InverseIs
  <2> QED
    BY <2>1 DEF v, Inverts
<1>1. inverse \in [1..n -> [1..n -> Field]] /\ Side(v, 0, M, n) = x[k]
  BY <1>0
<1>2. \A r \in 1..n : v[r] \in Field
  BY <1>1
<1>3. \A r \in 1..n : M[r] = Side(matrix[r], 0, x, n) /\ M[r] \in Field
  <2> TAKE r \in 1..n
  <2>1. M[r] = Side(matrix[r], 0, x, n)
    BY DEF Image
  <2> DEFINE row == matrix[r]
  <2>2. \A j \in 1..n : row[j] \in Field /\ x[j] \in Field
    OBVIOUS
  <2> HIDE DEF row, M
  <2>3. Side(row, 0, x, n) \in Field
    BY <2>2, SideIs
  <2> QED
    BY <2>1, <2>3 DEF row
<1>4. \A r \in 1..n : A[r] = Side(C[r], 0, y, m) /\ A[r] \in Field
  <2> TAKE r \in 1..n
  <2>1. A[r] = Side(C[r], 0, y, m)
    OBVIOUS
  <2> DEFINE row == C[r]
  <2>2. \A j \in 1..m : row[j] \in Field /\ y[j] \in Field
    OBVIOUS
  <2> HIDE DEF row, A
  <2>3. Side(row, 0, y, m) \in Field
    BY <2>2, SideIs
  <2> QED
    BY <2>1, <2>3 DEF row
<1>5. \E r \in 1..n : v[r] # 0
  <2> SUFFICES ASSUME \A r \in 1..n : v[r] = 0 PROVE FALSE
    OBVIOUS
  <2> DEFINE unit == [j \in 1..n |-> IF j = k THEN 1 ELSE 0]
             I == Image(matrix, unit, n)
  <2>1. unit \in [1..n -> Field] /\ unit[k] = 1
    BY DEF FieldLaws
  <2> HIDE DEF unit
  <2>2. Side(v, 0, I, n) = unit[k]
    BY <1>0, <2>1
  <2>3. \A r \in 1..n : I[r] \in Field
    <3> TAKE r \in 1..n
    <3> DEFINE row == matrix[r]
    <3>1. \A j \in 1..n : row[j] \in Field /\ unit[j] \in Field
      BY <2>1
    <3>2. I[r] = Side(row, 0, unit, n)
      BY DEF Image
    <3> HIDE DEF row, I
    <3> QED
      BY <3>1, <3>2, SideIs
  <2> DEFINE zeros == [r \in 1..n |-> 0]
  <2>4. \A r \in 1..n : zeros[r] = 0 /\ zeros[r] = Product(v[r], I[r])
    BY <2>3, FieldFacts
  <2> HIDE DEF I, zeros, v
  <2>5. XorSum(zeros, n) = 0
    BY <2>4, SumOfZeros
  <2>6. XorSum(zeros, n) = Side(v, 0, I, n)
    BY <1>2, <2>3, <2>4, SideIs
  <2> QED
    BY <2>1, <2>2, <2>5, <2>6
<1> HIDE DEF M, A, v
<1>6. \A r \in 1..n : d[r] = Xor(M[r], A[r]) /\ d[r] \in Field
  <2> TAKE r \in 1..n
  <2>1. d[r] = Xor(M[r], A[r])
    BY <1>3, <1>4 DEF AreCoded
  <2>2. Xor(M[r], A[r]) \in Field
    BY <1>3, <1>4, FieldFacts
  <2> QED
    BY <2>1, <2>2
<1>7. Side(v, 0, d, n) = Xor(Side(v, 0, M, n), Side(v, 0, A, n))
  <2> DEFINE f == [r \in 1..n |-> Product(v[r], M[r])]
             g == [r \in 1..n |-> Product(v[r], A[r])]
             h == [r \in 1..n |-> Product(v[r], d[r])]
  <2>1. /\ \A r \in 1..n : f[r] = Product(v[r], M[r])
        /\ \A r \in 1..n : g[r] = Product(v[r], A[r])
        /\ \A r \in 1..n : h[r] = Product(v[r], d[r])
    OBVIOUS
  <2> HIDE DEF f, g, h
  <2>2. XorSum(f, n) = Side(v, 0, M, n)
    BY <1>2, <1>3, <2>1, SideIs
  <2>3. XorSum(g, n) = Side(v, 0, A, n)
    BY <1>2, <1>4, <2>1, SideIs
  <2>4. XorSum(h, n) = Side(v, 0, d, n)
    BY <1>2, <1>6, <2>1, SideIs
  <2>5. \A r \in 1..n : f[r] \in Field /\ g[r] \in Field /\ h[r] = Xor(f[r], g[r])
    <3> TAKE r \in 1..n
    <3>1. v[r] \in Field /\ M[r] \in Field /\ A[r] \in Field
      BY <1>2, <1>3, <1>4
    <3>2. Product(v[r], M[r]) \in Field /\ Product(v[r], A[r]) \in Field
      BY <3>1, FieldFacts
    <3>3. Product(v[r], Xor(M[r], A[r])) = Xor(Product(v[r], M[r]), Product(v[r], A[r]))
      BY <3>1, FieldTriples
    <3> QED
      BY <1>6, <2>1, <3>2, <3>3
  <2>6. XorSum(h, n) = Xor(XorSum(f, n), XorSum(g, n))
    BY <2>5, SumPlus
  <2> QED
    BY <2>2, <2>3, <2>4, <2>6
<1> DEFINE F == [r \in 1..n |-> [a \in 1..m |-> Product(v[r], Product(C[r][a], y[a]))]]
           G == [a \in 1..m |-> [r \in 1..n |-> Product(v[r], Product(C[r][a], y[a]))]]
           P == [r \in 1..n |-> Product(v[r], A[r])]
           Q == [a \in 1..m |-> Product(comb[a], y[a])]
<1>8. /\ \A r \in 1..n : \A a \in 1..m : F[r][a] = Product(v[r], Product(C[r][a], y[a]))
      /\ \A r \in 1..n : \A a \in 1..m : G[a][r] = Product(v[r], Product(C[r][a], y[a]))
      /\ \A r \in 1..n : P[r] = Product(v[r], A[r])
      /\ \A a \in 1..m : Q[a] = Product(comb[a], y[a])
  OBVIOUS
<1> HIDE DEF F, G, P, Q
<1>9. Transposed(F, G, n, m)
  <2>1. ASSUME NEW r \in 1..n, NEW a \in 1..m
        PROVE  Product(v[r], Product(C[r][a], y[a])) \in Field
    <3>1. Product(C[r][a], y[a]) \in Field
      BY FieldFacts
    <3> QED
      BY <1>2, <3>1, FieldFacts
  <2> QED
    BY <1>8, <2>1 DEF Transposed
<1>10. AreSumsOf(P, F, n, m)
  <2>1. ASSUME NEW r \in 1..n PROVE P[r] = XorSum(F[r], m)
    <3> DEFINE row == C[r]
               f == [a \in 1..m |-> Product(row[a], y[a])]
               h == F[r]
    <3>1. /\ \A a \in 1..m : row[a] \in Field /\ y[a] \in Field
          /\ \A a \in 1..m : f[a] = Product(row[a], y[a])
          /\ \A a \in 1..m : h[a] = Product(v[r], Product(row[a], y[a]))
      BY <1>8
    <3>2. A[r] = Side(row, 0, y, m)
      BY <1>4
    <3> HIDE DEF row, f, h
    <3>3. XorSum(f, m) = Side(row, 0, y, m)
      BY <3>1, SideIs
    <3>4. \A a \in 1..m : f[a] \in Field /\ h[a] = Product(v[r], f[a])
      <4> TAKE a \in 1..m
      <4>1. Product(row[a], y[a]) \in Field
        BY <3>1, FieldFacts
      <4> QED
        BY <3>1, <4>1
    <3>5. v[r] \in Field
      BY <1>2
    <3>6. XorSum(h, m) = Product(v[r], XorSum(f, m))
      BY <3>4, <3>5, SumScaled
    <3> QED
      BY <1>8, <3>2, <3>3, <3>6 DEF h
  <2> QED
    BY <2>1 DEF AreSumsOf
<1>11. ASSUME NEW a \in 1..m PROVE comb[a] \in Field /\ Q[a] = XorSum(G[a], n)
  <2> DEFINE f == [r \in 1..n |-> Product(v[r], C[r][a])]
             h == G[a]
  <2>1. comb[a] = XorSum(f, n)
    BY DEF IsCombined, v
  <2>2. (\A r \in 1..n : f[r] = Product(v[r], C[r][a]))
        /\ \A r \in 1..n : h[r] = Product(v[r], Product(C[r][a], y[a]))
    BY <1>8
  <2> HIDE DEF f, h
  <2>3. ASSUME NEW r \in 1..n PROVE f[r] \in Field /\ h[r] = Product(y[a], f[r])
    <3> DEFINE p == v[r]
               q == C[r][a]
               w == y[a]
               pq == Product(p, q)
    <3>1. p \in Field /\ q \in Field /\ w \in Field
      BY <1>2
    <3>2. f[r] = pq /\ h[r] = Product(p, Product(q, w))
      BY <2>2
    <3> HIDE DEF p, q, w, f, h
    <3>3. pq \in Field
      BY <3>1, FieldFacts
    <3>4. Product(p, Product(q, w)) = Product(pq, w)
      BY <3>1, FieldTriples
    <3> HIDE DEF pq
    <3>5. Product(pq, w) = Product(w, pq)
      BY <3>1, <3>3, FieldFacts
    <3> QED
      BY <3>2, <3>3, <3>4, <3>5 DEF w
  <2>4. \A r \in 1..n : f[r] \in Field /\ h[r] = Product(y[a], f[r])
    BY <2>3
  <2>5. XorSum(f, n) \in Field
    BY <2>4, SumIsWord
  <2>6. y[a] \in Field
    OBVIOUS
  <2>7. XorSum(h, n) = Product(y[a], XorSum(f, n))
    <3> DEFINE w == y[a]
    <3>1. w \in Field /\ \A r \in 1..n : f[r] \in Field /\ h[r] = Product(w, f[r])
      BY <2>4, <2>6
    <3> HIDE DEF w
    <3>2. XorSum(h, n) = Product(w, XorSum(f, n))
      BY <3>1, SumScaled
    <3> QED
      BY <3>2 DEF w
  <2>8. Product(y[a], comb[a]) = Product(comb[a], y[a])
    <3> DEFINE w == y[a]
               c == comb[a]
    <3>1. w \in Field /\ c \in Field
      BY <2>1, <2>5, <2>6
    <3> HIDE DEF w, c
    <3>2. Product(w, c) = Product(c, w)
      BY <3>1, FieldFacts
    <3> QED
      BY <3>2 DEF w, c
  <2> QED
    BY <1>8, <2>1, <2>5, <2>7, <2>8 DEF h
<1>12. XorSum(P, n) = XorSum(Q, m)
  <2>1. AreSumsOf(Q, G, m, n)
    BY <1>11 DEF AreSumsOf
  <2> QED
    BY <1>9, <1>10, <2>1, SumSwapped
<1>13. XorSum(P, n) = Side(v, 0, A, n)
  BY <1>2, <1>4, <1>8, SideIs
<1>14. XorSum(Q, m) = Side(comb, 0, y, m)
  BY <1>8, <1>11, SideIs
<1>15. Side(comb, 0, y, m) \in Field
  BY <1>11, SideIs
<1>16. Xor(Side(v, 0, d, n), Side(comb, 0, y, m)) = x[k]
  <2> DEFINE t == Side(comb, 0, y, m)
  <2>1. Side(v, 0, d, n) = Xor(x[k], t)
    BY <1>1, <1>7, <1>12, <1>13, <1>14 DEF v, M
  <2>2. t \in Field /\ x[k] \in Field
    BY <1>15
  <2> HIDE DEF t
  <2>3. Xor(Xor(x[k], t), t) = Xor(x[k], Xor(t, t))
    BY <2>2, FieldTriples
  <2>4. Xor(t, t) = 0 /\ Xor(x[k], 0) = x[k]
    BY <2>2, FieldFacts
  <2> QED
    BY <2>1, <2>3, <2>4 DEF t
<1> QED
  BY <1>2, <1>5, <1>6, <1>11, <1>16 DEF v
=============================================================================
