----------------------------- MODULE LoaderProofs -----------------------------
(***************************************************************************)
(* Theorems about what the verify command reads from volumes, for any       *)
(* volumes and any damage of them.                                         *)
(***************************************************************************)
EXTENDS VerifyProofs, WellFoundedInduction

-----------------------------------------------------------------------------
(* Numbers *)

\* Of numbers there is a least one.
LEMMA LeastNumber ==
  ASSUME NEW S \in SUBSET Nat, S # {}
  PROVE  \E n \in S : \A k \in S : n <= k
<1> DEFINE R == {z \in Nat \X Nat : z[1] < z[2]}
<1>1. IsWellFoundedOn(R, Nat)
  <2> SUFFICES ASSUME NEW f \in [Nat -> Nat], \A n \in Nat : f[n + 1] < f[n]
               PROVE  FALSE
    BY DEF IsWellFoundedOn
  <2> QED
    BY NatLessThanWellFounded DEF IsWellFoundedOn, OpToRel
<1>2. \A n, k \in Nat : <<k, n>> \notin R => n <= k
  OBVIOUS
<1> HIDE DEF R
<1>3. \E n \in S : \A k \in S : <<k, n>> \notin R
  BY <1>1, WFMin
<1> QED
  BY <1>2, <1>3

\* What holds of a number when it holds of all smaller ones holds of all.
LEMMA EachNumber ==
  ASSUME NEW S, \A n \in Nat : (\A k \in 0..(n - 1) : k \in S) => n \in S
  PROVE  Nat \subseteq S
<1> SUFFICES ASSUME Nat \ S # {} PROVE FALSE
  OBVIOUS
<1>1. PICK n \in Nat \ S : \A k \in Nat \ S : n <= k
  BY LeastNumber
<1>2. \A k \in 0..(n - 1) : k \in S
  BY <1>1
<1> QED
  BY <1>1, <1>2

-----------------------------------------------------------------------------
(* The parser, from cell to cell *)

\* What is read from cell p on, when f is what is read from later ones.
ReadFrom(f, v, p) ==
  IF p = 0 \/ p > Len(v) THEN <<>>
  ELSE IF ~IsHeader(v, p) THEN f[NextHeader(v, p + 1)]
  ELSE IF p + v[p].length - 1 > Len(v) \/ v[p].length > MaxLength THEN <<>>
  ELSE IF v[p].packet.type = "recovery" /\ ~IsIntact(v, p)
  THEN f[NextHeader(v, p + v[p].length)]
  ELSE <<Parsed(v, p)>> \o f[p + v[p].length]

AreRead(f, v, D) == f = [p \in D |-> ReadFrom(f, v, p)]

\* The cells from which at most n are left, and 0, where nothing is read.
LastOf(v, n) == {p \in Nat : p = 0 \/ p + n > Len(v)}

LEMMA HeaderHasLength ==
  ASSUME NEW v \in Seq(Cell), NEW p, IsHeader(v, p)
  PROVE  p \in 1..Len(v) /\ v[p].length \in Nat \ {0}
<1>1. p \in 1..Len(v) /\ v[p] \in Cell /\ v[p].kind = "header"
  BY DEF IsHeader
<1> QED
  BY <1>1 DEF Cell, Junk

LEMMA NextHeaderIs ==
  ASSUME NEW v \in Seq(Cell), NEW p \in Nat, NEW n, n = NextHeader(v, p)
  PROVE  /\ n = 0 => \A q \in Nat : q >= p => ~IsHeader(v, q)
         /\ n # 0 => n \in 1..Len(v) /\ n >= p /\ IsHeader(v, n)
         /\ \A q \in Nat : q >= p /\ IsHeader(v, q) => n # 0 /\ n <= q
<1> DEFINE headers == {q \in DOMAIN v : q >= p /\ IsHeader(v, q)}
<1>1. headers \in SUBSET Nat /\ 0 \notin headers
  OBVIOUS
<1>2. \A q : IsHeader(v, q) => q \in 1..Len(v)
  BY HeaderHasLength
<1>3. CASE headers = {}
  <2>1. n = 0
    BY <1>3 DEF NextHeader
  <2> QED
    BY <2>1, <1>2, <1>3
<1>4. CASE headers # {}
  <2>1. \E q \in headers : \A r \in headers : q <= r
    <3> HIDE DEF headers
    <3> QED
      BY <1>1, <1>4, LeastNumber
  <2>2. n \in headers /\ \A r \in headers : n <= r
    BY <1>4, <2>1 DEF NextHeader
  <2> QED
    BY <2>2, <1>1, <1>2
<1> QED
  BY <1>3, <1>4

\* The parser reads on behind the cell it is at.
LEMMA ReadsOn ==
  ASSUME NEW v \in Seq(Cell), NEW n \in Nat, NEW p \in 1..Len(v),
         p + n >= Len(v)
  PROVE  /\ NextHeader(v, p + 1) \in LastOf(v, n)
         /\ IsHeader(v, p) =>
              /\ NextHeader(v, p + v[p].length) \in LastOf(v, n)
              /\ p + v[p].length \in LastOf(v, n)
<1>1. ASSUME NEW m \in Nat, m > p PROVE NextHeader(v, m) \in LastOf(v, n)
  <2> DEFINE next == NextHeader(v, m)
  <2>1. next # 0 => next \in 1..Len(v) /\ next >= m
    BY NextHeaderIs
  <2> HIDE DEF next
  <2>2. next \in LastOf(v, n)
    BY <2>1, <1>1 DEF LastOf
  <2> QED
    BY <2>2 DEF next
<1>2. p + 1 \in Nat /\ p + 1 > p
  OBVIOUS
<1>3. ASSUME IsHeader(v, p)
      PROVE  /\ p + v[p].length \in Nat /\ p + v[p].length > p
             /\ p + v[p].length \in LastOf(v, n)
  <2>1. v[p].length \in Nat \ {0}
    BY <1>3, HeaderHasLength
  <2> QED
    BY <2>1 DEF LastOf
<1> QED
  BY <1>1, <1>2, <1>3

LEMMA ReadsAlike ==
  ASSUME NEW v \in Seq(Cell), NEW n \in Nat, NEW p \in LastOf(v, n + 1), NEW f, NEW g,
         \A q \in LastOf(v, n) : f[q] = g[q]
  PROVE  ReadFrom(f, v, p) = ReadFrom(g, v, p)
<1>1. CASE p = 0 \/ p > Len(v)
  BY <1>1 DEF ReadFrom
<1>2. CASE p \in 1..Len(v)
  <2>1. p + n >= Len(v)
    BY <1>2 DEF LastOf
  <2>2. f[NextHeader(v, p + 1)] = g[NextHeader(v, p + 1)]
    BY <1>2, <2>1, ReadsOn
  <2>3. IsHeader(v, p) =>
          /\ f[NextHeader(v, p + v[p].length)] = g[NextHeader(v, p + v[p].length)]
          /\ f[p + v[p].length] = g[p + v[p].length]
    BY <1>2, <2>1, ReadsOn
  <2> QED
    BY <2>2, <2>3 DEF ReadFrom
<1> QED
  BY <1>1, <1>2 DEF LastOf

\* There are things read from every cell.
LEMMA ReadsExist ==
  ASSUME NEW v \in Seq(Cell)
  PROVE  \E f : AreRead(f, v, Nat)
<1> DEFINE S == {n \in Nat : \E h : AreRead(h, v, LastOf(v, n))}
<1>1. ASSUME NEW n \in Nat, \A k \in 0..(n - 1) : k \in S PROVE n \in S
  <2>1. CASE n = 0
    <3>1. AreRead([p \in LastOf(v, 0) |-> <<>>], v, LastOf(v, 0))
      BY DEF AreRead, LastOf, ReadFrom
    <3> QED
      BY <3>1, <2>1
  <2>2. CASE n # 0
    <3> DEFINE m == n - 1
               D == LastOf(v, n)
    <3>1. m \in Nat /\ n = m + 1 /\ m \in S
      BY <2>2, <1>1
    <3>2. PICK h : AreRead(h, v, LastOf(v, m))
      BY <3>1
    <3> DEFINE g == [p \in D |-> IF p \in LastOf(v, m) THEN h[p] ELSE ReadFrom(h, v, p)]
    <3>3. LastOf(v, m) \subseteq D
      BY <3>1 DEF LastOf
    <3>4. \A q \in LastOf(v, m) : g[q] = h[q]
      BY <3>3
    <3>5. ASSUME NEW p \in D PROVE g[p] = ReadFrom(g, v, p)
      <4>1. p \in LastOf(v, m + 1)
        BY <3>1
      <4> HIDE DEF g, D, m
      <4>2. ReadFrom(g, v, p) = ReadFrom(h, v, p)
        BY <4>1, <3>1, <3>4, ReadsAlike
      <4>3. p \in LastOf(v, m) => h[p] = ReadFrom(h, v, p)
        BY <3>2 DEF AreRead
      <4> QED
        BY <4>2, <4>3 DEF g
    <3>6. g = [p \in D |-> ReadFrom(g, v, p)]
      <4>1. \A p \in D : g[p] = ReadFrom(g, v, p)
        BY <3>5
      <4>2. g = [p \in D |-> g[p]]
        OBVIOUS
      <4> HIDE DEF g
      <4> QED
        BY <4>1, <4>2
    <3> QED
      BY <3>6 DEF AreRead
  <2> QED
    BY <2>1, <2>2
<1>2. Len(v) \in S
  <2> HIDE DEF S
  <2>1. Nat \subseteq S
    BY <1>1, EachNumber
  <2> QED
    BY <2>1
<1>3. LastOf(v, Len(v)) = Nat
  BY DEF LastOf
<1> QED
  BY <1>2, <1>3

\* What the parser of the model reads from the first cell on.
LEMMA PacketsAreRead ==
  ASSUME NEW v \in Seq(Cell)
  PROVE  \E f : AreRead(f, v, Nat) /\ ParsePackets(v) = f[1]
<1> DEFINE f == CHOOSE from : AreRead(from, v, Nat)
<1>1. AreRead(f, v, Nat)
  BY ReadsExist
<1>2. ParsePackets(v) = f[1]
  BY DEF ParsePackets, AreRead, ReadFrom
<1> QED
  BY <1>1, <1>2

Entry == [packet : Packet, intact : BOOLEAN]

LEMMA ParsedIsEntry ==
  ASSUME NEW v \in Seq(Cell), NEW p, IsHeader(v, p)
  PROVE  Parsed(v, p) \in Entry
<1>1. v[p] \in Cell /\ v[p].kind = "header"
  BY DEF IsHeader
<1>2. v[p].packet \in Packet
  BY <1>1 DEF Cell, Junk
<1>3. IsIntact(v, p) \in BOOLEAN
  BY DEF IsIntact
<1> QED
  BY <1>2, <1>3 DEF Parsed, Entry

LEMMA ReadsAreEntries ==
  ASSUME NEW v \in Seq(Cell), NEW f, AreRead(f, v, Nat)
  PROVE  \A p \in Nat : f[p] \in Seq(Entry)
<1> DEFINE S == {n \in Nat : \A p \in LastOf(v, n) : f[p] \in Seq(Entry)}
<1>1. ASSUME NEW n \in Nat, \A k \in 0..(n - 1) : k \in S PROVE n \in S
  <2> SUFFICES ASSUME NEW p \in LastOf(v, n) PROVE f[p] \in Seq(Entry)
    OBVIOUS
  <2>1. f[p] = ReadFrom(f, v, p) /\ p \in Nat
    BY DEF AreRead, LastOf
  <2>2. CASE p = 0 \/ p > Len(v)
    BY <2>1, <2>2 DEF ReadFrom
  <2>3. CASE p \in 1..Len(v)
    <3> DEFINE m == n - 1
    <3>1. n # 0 /\ m \in Nat /\ m \in 0..(n - 1) /\ p + m >= Len(v)
      BY <2>3 DEF LastOf
    <3>2. \A q \in LastOf(v, m) : f[q] \in Seq(Entry)
      BY <3>1, <1>1
    <3> HIDE DEF m
    <3>3. f[NextHeader(v, p + 1)] \in Seq(Entry)
      BY <3>1, <3>2, <2>3, ReadsOn
    <3>4. ASSUME IsHeader(v, p)
          PROVE  /\ f[NextHeader(v, p + v[p].length)] \in Seq(Entry)
                 /\ <<Parsed(v, p)>> \o f[p + v[p].length] \in Seq(Entry)
      <4>1. f[NextHeader(v, p + v[p].length)] \in Seq(Entry)
        BY <3>1, <3>2, <3>4, <2>3, ReadsOn
      <4>2. f[p + v[p].length] \in Seq(Entry)
        BY <3>1, <3>2, <3>4, <2>3, ReadsOn
      <4>3. <<Parsed(v, p)>> \in Seq(Entry)
        BY <3>4, ParsedIsEntry
      <4> QED
        BY <4>1, <4>2, <4>3
    <3> QED
      BY <2>1, <2>3, <3>3, <3>4 DEF ReadFrom
  <2> QED
    BY <2>1, <2>2, <2>3
<1>2. Nat \subseteq S
  <2> HIDE DEF S
  <2> QED
    BY <1>1, EachNumber
<1>3. LastOf(v, Len(v)) = Nat
  BY DEF LastOf
<1> QED
  BY <1>2, <1>3

\* In a whole volume an intact packet is read from every cell before it.
LEMMA IntactIsRead ==
  ASSUME NEW v \in Seq(Cell), NEW f, AreRead(f, v, Nat), Whole(v),
         NEW p, IsHeader(v, p), IsIntact(v, p)
  PROVE  \A q \in 1..p : Parsed(v, p) \in ToSet(f[q])
<1>0. p \in 1..Len(v) /\ \A q \in Nat : f[q] \in Seq(Entry)
  BY HeaderHasLength, ReadsAreEntries
<1> DEFINE Reaches(n) == \A q \in 1..p : q + n = p => Parsed(v, p) \in ToSet(f[q])
           S == {n \in Nat : Reaches(n)}
<1>1. ASSUME NEW n \in Nat, \A k \in 0..(n - 1) : Reaches(k) PROVE Reaches(n)
  <2> SUFFICES ASSUME NEW q \in 1..p, q + n = p PROVE Parsed(v, p) \in ToSet(f[q])
    OBVIOUS
  <2>0. q \in Nat /\ q # 0 /\ ~(q > Len(v))
    BY <1>0
  <2>1. f[q] = ReadFrom(f, v, q)
    BY <2>0 DEF AreRead
  <2>2. ASSUME NEW r \in Nat, r > q, r <= p PROVE Parsed(v, p) \in ToSet(f[r])
    <3> DEFINE k == p - r
    <3>1. k \in 0..(n - 1) /\ r + k = p /\ r \in 1..p
      BY <2>2, <1>0
    <3> HIDE DEF k
    <3>2. Reaches(k)
      BY <3>1, <1>1
    <3> QED
      BY <3>1, <3>2
  <2>3. ASSUME NEW r \in Nat, r > q, r <= p
        PROVE  Parsed(v, p) \in ToSet(f[NextHeader(v, r)])
    <3> DEFINE next == NextHeader(v, r)
    <3>1. next # 0 /\ next <= p /\ next >= r /\ next \in Nat
      BY <1>0, <2>3, NextHeaderIs
    <3> HIDE DEF next
    <3>2. Parsed(v, p) \in ToSet(f[next])
      BY <2>2, <2>3, <3>1
    <3> QED
      BY <3>2 DEF next
  <2>4. CASE ~IsHeader(v, q)
    <3>1. q # p /\ q + 1 \in Nat /\ q + 1 > q /\ q + 1 <= p
      BY <2>4, <1>0
    <3>2. f[q] = f[NextHeader(v, q + 1)]
      BY <2>0, <2>1, <2>4 DEF ReadFrom
    <3> QED
      BY <3>1, <3>2, <2>3
  <2>5. CASE IsHeader(v, q)
    <3>1. /\ v[q].length \in Nat \ {0} /\ q + v[q].length - 1 <= Len(v)
          /\ v[q].length <= MaxLength
          /\ \A r \in (q + 1)..(q + v[q].length - 1) : ~IsHeader(v, r)
      BY <2>5, HeaderHasLength DEF Whole
    <3> DEFINE next == q + v[q].length
    <3>2. next \in Nat /\ next > q
      BY <3>1, <2>0
    <3>3. q # p => next <= p
      <4> SUFFICES ASSUME q # p, ~(next <= p) PROVE FALSE
        OBVIOUS
      <4>1. p \in (q + 1)..(q + v[q].length - 1)
        BY <3>1, <1>0
      <4> QED
        BY <4>1, <3>1
    <3>4. MaxLength \in Nat /\ ~(q + v[q].length - 1 > Len(v) \/ v[q].length > MaxLength)
      BY <3>1, <2>0, MaxLengthAssumption
    <3>5. CASE v[q].packet.type = "recovery" /\ ~IsIntact(v, q)
      <4>1. f[q] = f[NextHeader(v, next)] /\ q # p
        BY <2>0, <2>1, <2>5, <3>4, <3>5 DEF ReadFrom
      <4> HIDE DEF next
      <4> QED
        BY <4>1, <3>2, <3>3, <2>3
    <3>6. CASE ~(v[q].packet.type = "recovery" /\ ~IsIntact(v, q))
      <4>1. f[q] = <<Parsed(v, q)>> \o f[next]
        BY <2>0, <2>1, <2>5, <3>4, <3>6 DEF ReadFrom
      <4>2. f[next] \in Seq(Entry) /\ Parsed(v, q) \in Entry
        BY <1>0, <3>2, <2>5, ParsedIsEntry
      <4>3. Parsed(v, q) \in ToSet(f[q]) /\ ToSet(f[next]) \subseteq ToSet(f[q])
        <5> HIDE DEF next
        <5> DEFINE e == Parsed(v, q)
                   s == f[next]
        <5>1. e \in Entry /\ s \in Seq(Entry) /\ f[q] = <<e>> \o s
          BY <4>1, <4>2
        <5> HIDE DEF e, s
        <5>2. f[q][1] = e /\ 1 \in DOMAIN f[q]
          BY <5>1
        <5>3. \A k \in DOMAIN s : f[q][k + 1] = s[k] /\ k + 1 \in DOMAIN f[q]
          BY <5>1
        <5> QED
          BY <5>2, <5>3 DEF ToSet, e, s
      <4>4. q # p => Parsed(v, p) \in ToSet(f[next])
        <5> HIDE DEF next
        <5> QED
          BY <3>2, <3>3, <2>2
      <4> QED
        BY <4>3, <4>4
    <3> QED
      BY <3>5, <3>6
  <2> QED
    BY <2>4, <2>5
<1>2. Nat \subseteq S
  <2>1. \A n \in Nat : (\A k \in 0..(n - 1) : k \in S) => n \in S
    <3> HIDE DEF Reaches
    <3> QED
      BY <1>1
  <2> HIDE DEF S
  <2> QED
    BY <2>1, EachNumber
<1>3. ASSUME NEW q \in 1..p PROVE Parsed(v, p) \in ToSet(f[q])
  <2> DEFINE n == p - q
  <2>1. n \in Nat /\ q + n = p
    BY <1>0
  <2> HIDE DEF n
  <2>2. n \in S
    BY <2>1, <1>2
  <2> QED
    BY <2>1, <2>2
<1> QED
  BY <1>3

-----------------------------------------------------------------------------
(* What is kept of it *)

LEMMA CopiesAreKept ==
  ASSUME NEW kept, NEW entries \in Seq(Entry)
  PROVE  \A e \in ToSet(entries) : ~IsRecovery(e) => CopyIn(Merged(kept, entries), e)
<1> SUFFICES ASSUME NEW e \in ToSet(entries), ~IsRecovery(e), ~CopyIn(kept, e)
             PROVE  CopyIn(Merged(kept, entries), e)
  BY DEF CopyIn, Merged
<1> DEFINE Copies == {n \in DOMAIN entries : entries[n].packet = e.packet}
<1>1. Copies \in SUBSET Nat /\ Copies # {}
  BY DEF ToSet
<1>2. PICK n \in Copies : \A k \in Copies : n <= k
  <2> HIDE DEF Copies
  <2> QED
    BY <1>1, LeastNumber
<1>3. IsFirst(entries, n)
  <2> SUFFICES ASSUME NEW k \in 1..(n - 1) PROVE entries[k].packet # entries[n].packet
    BY DEF IsFirst
  <2>1. k \in DOMAIN entries /\ ~(n <= k)
    BY <1>1, <1>2
  <2> QED
    BY <2>1, <1>2
<1>4. ~IsRecovery(entries[n]) /\ ~CopyIn(kept, entries[n])
  BY <1>2 DEF IsRecovery, CopyIn
<1>5. entries[n] \in Merged(kept, entries)
  BY <1>2, <1>3, <1>4 DEF Merged
<1> QED
  BY <1>2, <1>5 DEF CopyIn

\* Volumes are what they were, and of those read everything is kept but what is
\* like a packet kept before.
LoadInv ==
  /\ job \in Jobs
  /\ volume \in Nat \ {0}
  /\ read \subseteq DOMAIN job.volumes
  /\ \A v \in read : \A e \in ToSet(ParsePackets(job.volumes[v])) :
       ~IsRecovery(e) => CopyIn(packets, e)

LEMMA InitLoad == Init => LoadInv
  BY DEF Init, LoadInv

LEMMA NextLoad == ASSUME LoadInv, [Next]_vars PROVE LoadInv'
<1>1. CASE LoadVolume
  <2>1. job' = job /\ volume' \in Nat \ {0}
    BY <1>1 DEF LoadVolume, LoadInv
  <2>2. CASE read' = read /\ packets' = packets
    BY <2>1, <2>2 DEF LoadInv
  <2>3. CASE ~(read' = read /\ packets' = packets)
    <3> DEFINE entries == ParsePackets(job.volumes[volume])
    <3>1. /\ packets' = Merged(packets, entries) /\ read' = read \cup {volume}
          /\ volume <= Len(job.volumes)
      BY <1>1, <2>3 DEF LoadVolume
    <3>2. job.volumes \in Seq(Seq(Cell))
      BY VolumesAssumption DEF LoadInv
    <3>3. volume \in DOMAIN job.volumes
      BY <3>1, <3>2 DEF LoadInv
    <3>4. job.volumes[volume] \in Seq(Cell)
      BY <3>2, <3>3
    <3>5. entries \in Seq(Entry)
      BY <3>4, PacketsAreRead, ReadsAreEntries
    <3> HIDE DEF entries
    <3>6. \A e \in ToSet(entries) : ~IsRecovery(e) => CopyIn(packets', e)
      BY <3>1, <3>5, CopiesAreKept
    <3>7. packets \subseteq packets'
      BY <3>1 DEF Merged
    <3>8. \A e : CopyIn(packets, e) => CopyIn(packets', e)
      BY <3>7 DEF CopyIn
    <3>9. ASSUME NEW v \in read', NEW e \in ToSet(ParsePackets(job.volumes[v])),
                 ~IsRecovery(e)
          PROVE  CopyIn(packets', e)
      <4>1. CASE v = volume
        BY <4>1, <3>6, <3>9 DEF entries
      <4>2. CASE v \in read
        BY <4>2, <3>8, <3>9 DEF LoadInv
      <4> QED
        BY <4>1, <4>2, <3>1
    <3> QED
      BY <2>1, <3>1, <3>3, <3>9 DEF LoadInv
  <2> QED
    BY <2>2, <2>3
<1>2. CASE UNCHANGED <<job, volume, read, packets>>
  BY <1>2 DEF LoadInv
<1>3. CASE BeginScan \/ Scan \/ Conclude \/ Exited \/ UNCHANGED vars
  <2>1. UNCHANGED <<job, volume, read, packets>>
    BY <1>3 DEF BeginScan, Scan, Conclude, Exited, vars, loadVars, ScanStep, Open,
       Fill, ReadFails, Align, SkipBlock, AdvanceOneByte, SlideWindow,
       SlideFails, EndOfFile
  <2> QED
    BY <2>1, <1>2
<1> QED
  BY <1>1, <1>2, <1>3 DEF Next

\* An intact packet is loaded, and an intact recovery slice counted, whatever
\* lies before it and however other packets are damaged, as long as headers
\* state their lengths, packets are not too long for the loader and none reaches
\* over the next header, for any number of volumes of any length
\* (parse_packets_with_options, load_par2_packets).
THEOREM IntactAreLoaded == Spec => []IntactPacketsLoad
<1>1. LoadInv => IntactPacketsLoad
  <2> SUFFICES ASSUME LoadInv, NEW n \in read, Whole(job.volumes[n]),
                      NEW p \in DOMAIN job.volumes[n],
                      IsHeader(job.volumes[n], p), IsIntact(job.volumes[n], p)
               PROVE  IF job.volumes[n][p].packet.type = "recovery"
                      THEN [packet |-> job.volumes[n][p].packet, intact |-> TRUE]
                             \in ToSet(ParsePackets(job.volumes[n]))
                      ELSE CopyIn(packets, job.volumes[n][p])
    BY DEF IntactPacketsLoad
  <2> DEFINE v == job.volumes[n]
             e == Parsed(v, p)
  <2>1. v \in Seq(Cell)
    BY VolumesAssumption DEF LoadInv
  <2>2. PICK f : AreRead(f, v, Nat) /\ ParsePackets(v) = f[1]
    BY <2>1, PacketsAreRead
  <2>3. p \in 1..Len(v)
    BY <2>1
  <2>4. 1 \in 1..p
    BY <2>1, <2>3
  <2> HIDE DEF v
  <2>5. e \in ToSet(ParsePackets(v))
    BY <2>1, <2>2, <2>4, IntactIsRead DEF v
  <2>6. e = [packet |-> v[p].packet, intact |-> TRUE]
    BY DEF Parsed, v
  <2>7. v[p].packet.type # "recovery" => CopyIn(packets, e)
    BY <2>5, <2>6 DEF LoadInv, v, IsRecovery
  <2>8. CopyIn(packets, e) => CopyIn(packets, v[p])
    BY <2>6 DEF CopyIn
  <2> QED
    BY <2>5, <2>6, <2>7, <2>8 DEF v
<1> QED
  BY <1>1, InitLoad, NextLoad, PTL DEF Spec

-----------------------------------------------------------------------------
(* The other parser *)

MetadataFrom(g, v, p) ==
  IF ~IsHeader(v, p) THEN [ok |-> TRUE, slices |-> <<>>]
  ELSE IF v[p].packet.type # "recovery" THEN g[p + v[p].length]
  ELSE IF p + 1 > Len(v) THEN [ok |-> FALSE, slices |-> <<>>]
  ELSE LET rest == g[p + v[p].length]
       IN  [ok |-> rest.ok, slices |-> <<Metadata(v, p)>> \o rest.slices]

AreMetadata(g, v, D) == g = [p \in D |-> MetadataFrom(g, v, p)]

LEMMA MetadataAlike ==
  ASSUME NEW v \in Seq(Cell), NEW n \in Nat, NEW p \in LastOf(v, n + 1), NEW f, NEW g,
         \A q \in LastOf(v, n) : f[q] = g[q]
  PROVE  MetadataFrom(f, v, p) = MetadataFrom(g, v, p)
<1>1. CASE p = 0 \/ p > Len(v)
  <2>1. ~IsHeader(v, p)
    BY <1>1, HeaderHasLength
  <2> QED
    BY <2>1 DEF MetadataFrom
<1>2. CASE p \in 1..Len(v)
  <2>1. p + n >= Len(v)
    BY <1>2 DEF LastOf
  <2>2. IsHeader(v, p) => f[p + v[p].length] = g[p + v[p].length]
    BY <1>2, <2>1, ReadsOn
  <2> QED
    BY <2>2 DEF MetadataFrom
<1> QED
  BY <1>1, <1>2 DEF LastOf

LEMMA MetadataExists ==
  ASSUME NEW v \in Seq(Cell)
  PROVE  \E f : AreMetadata(f, v, Nat)
<1> DEFINE S == {n \in Nat : \E h : AreMetadata(h, v, LastOf(v, n))}
<1>1. ASSUME NEW n \in Nat, \A k \in 0..(n - 1) : k \in S PROVE n \in S
  <2>1. CASE n = 0
    <3> DEFINE D == LastOf(v, 0)
               h == [p \in D |-> [ok |-> TRUE, slices |-> <<>>]]
    <3>1. ASSUME NEW p \in D PROVE h[p] = MetadataFrom(h, v, p)
      <4>1. ~IsHeader(v, p)
        BY HeaderHasLength DEF LastOf
      <4> QED
        BY <4>1 DEF MetadataFrom
    <3>2. h = [p \in D |-> h[p]]
      OBVIOUS
    <3> HIDE DEF h
    <3>3. AreMetadata(h, v, D)
      BY <3>1, <3>2 DEF AreMetadata
    <3> QED
      BY <3>3, <2>1
  <2>2. CASE n # 0
    <3> DEFINE m == n - 1
               D == LastOf(v, n)
    <3>1. m \in Nat /\ n = m + 1 /\ m \in S
      BY <2>2, <1>1
    <3>2. PICK h : AreMetadata(h, v, LastOf(v, m))
      BY <3>1
    <3> DEFINE g == [p \in D |->
                       IF p \in LastOf(v, m) THEN h[p] ELSE MetadataFrom(h, v, p)]
    <3>3. LastOf(v, m) \subseteq D
      BY <3>1 DEF LastOf
    <3>4. \A q \in LastOf(v, m) : g[q] = h[q]
      BY <3>3
    <3>5. ASSUME NEW p \in D PROVE g[p] = MetadataFrom(g, v, p)
      <4>1. p \in LastOf(v, m + 1)
        BY <3>1
      <4> HIDE DEF g, D, m
      <4>2. MetadataFrom(g, v, p) = MetadataFrom(h, v, p)
        BY <4>1, <3>1, <3>4, MetadataAlike
      <4>3. p \in LastOf(v, m) => h[p] = MetadataFrom(h, v, p)
        BY <3>2 DEF AreMetadata
      <4> QED
        BY <4>2, <4>3 DEF g
    <3>6. g = [p \in D |-> MetadataFrom(g, v, p)]
      <4>1. \A p \in D : g[p] = MetadataFrom(g, v, p)
        BY <3>5
      <4>2. g = [p \in D |-> g[p]]
        OBVIOUS
      <4> HIDE DEF g
      <4> QED
        BY <4>1, <4>2
    <3> QED
      BY <3>6 DEF AreMetadata
  <2> QED
    BY <2>1, <2>2
<1>2. Len(v) \in S
  <2> HIDE DEF S
  <2>1. Nat \subseteq S
    BY <1>1, EachNumber
  <2> QED
    BY <2>1
<1>3. LastOf(v, Len(v)) = Nat
  BY DEF LastOf
<1> QED
  BY <1>2, <1>3

LEMMA MetadataIsRead ==
  ASSUME NEW v \in Seq(Cell)
  PROVE  \E g : /\ AreMetadata(g, v, Nat)
                /\ ParseMetadata(v) = IF g[1].ok THEN g[1].slices ELSE <<>>
<1> DEFINE g == CHOOSE from : AreMetadata(from, v, Nat)
<1>1. AreMetadata(g, v, Nat)
  BY MetadataExists
<1>2. ParseMetadata(v) = IF g[1].ok THEN g[1].slices ELSE <<>>
  BY DEF ParseMetadata, AreMetadata, MetadataFrom
<1> QED
  BY <1>1, <1>2

-----------------------------------------------------------------------------
(* Whole volumes of packets one after the other *)

RecoveryFrom(v, q) == {p \in q..Len(v) : IsRecoveryAt(v, p)}
IntactFrom(v, q) == {p \in RecoveryFrom(v, q) : IsIntact(v, p)}
SliceData == [exponent : Int, intact : BOOLEAN]

\* A packet begins at q, or the volume ends.
PacketAt(v, q) == q = Len(v) + 1 \/ IsHeader(v, q)

LEMMA NextPacket ==
  ASSUME NEW v \in Seq(Cell), Whole(v), InOrder(v), NEW q, IsHeader(v, q)
  PROVE  /\ q \in 1..Len(v) /\ v[q].length \in Nat \ {0} /\ v[q].length <= MaxLength
         /\ q + v[q].length - 1 <= Len(v)
         /\ q + v[q].length \in (q + 1)..(Len(v) + 1)
         /\ PacketAt(v, q + v[q].length)
         /\ RecoveryFrom(v, q) = RecoveryFrom(v, q + v[q].length)
              \cup {p \in {q} : IsRecoveryAt(v, p)}
         /\ IntactFrom(v, q) = IntactFrom(v, q + v[q].length)
              \cup {p \in {q} : IsRecoveryAt(v, p) /\ IsIntact(v, p)}
         /\ q \notin RecoveryFrom(v, q + v[q].length)
         /\ v[q].packet.type = "recovery" => q + 1 <= Len(v)
<1>1. q \in 1..Len(v) /\ v[q].length \in Nat \ {0} /\ v[q] \in Cell /\ v[q].kind = "header"
  BY HeaderHasLength DEF IsHeader
<1>2. /\ v[q].length = v[q].packet.length /\ v[q].length <= MaxLength
      /\ q + v[q].length - 1 <= Len(v)
      /\ \A p \in (q + 1)..(q + v[q].length - 1) : ~IsHeader(v, p)
  BY <1>1 DEF Whole
<1> DEFINE next == q + v[q].length
<1>3. next \in (q + 1)..(Len(v) + 1)
  BY <1>1, <1>2
<1>4. PacketAt(v, next)
  <2>1. next > Len(v) => next = Len(v) + 1
    BY <1>3
  <2>2. next > Len(v) \/ IsHeader(v, next)
    BY <1>1 DEF InOrder
  <2> QED
    BY <2>1, <2>2 DEF PacketAt
<1>5. v[q].packet.type = "recovery" => v[q].packet.length \in Nat \ {0, 1}
  BY <1>1 DEF Cell, Packet, Junk
<1>6. v[q].packet.type = "recovery" => q + 1 <= Len(v)
  BY <1>1, <1>2, <1>5
<1>7. \A p \in q..Len(v) : p = q \/ p \in next..Len(v) \/ ~IsRecoveryAt(v, p)
  <2> SUFFICES ASSUME NEW p \in q..Len(v), p # q, ~(p \in next..Len(v))
               PROVE  ~IsRecoveryAt(v, p)
    OBVIOUS
  <2>1. p \in (q + 1)..(q + v[q].length - 1)
    BY <1>1, <1>3
  <2> QED
    BY <2>1, <1>2 DEF IsRecoveryAt
<1>8. q \in q..Len(v) /\ q \notin next..Len(v) /\ next..Len(v) \subseteq q..Len(v)
  BY <1>1, <1>3
<1> HIDE DEF next
<1>9. /\ RecoveryFrom(v, q) = RecoveryFrom(v, next) \cup {p \in {q} : IsRecoveryAt(v, p)}
      /\ q \notin RecoveryFrom(v, next)
  BY <1>7, <1>8 DEF RecoveryFrom
<1>10. IntactFrom(v, q) = IntactFrom(v, next)
         \cup {p \in {q} : IsRecoveryAt(v, p) /\ IsIntact(v, p)}
  BY <1>9 DEF IntactFrom
<1> QED
  BY <1>1, <1>2, <1>3, <1>4, <1>6, <1>9, <1>10 DEF next

\* What holds at the end of such a volume, and of each packet when it holds of
\* the next one, holds of the volume.
LEMMA EachPacket ==
  ASSUME NEW v \in Seq(Cell), Whole(v), InOrder(v), NEW S, Len(v) + 1 \in S,
         \A q \in 1..Len(v) : IsHeader(v, q) /\ q + v[q].length \in S => q \in S
  PROVE  1 \in S
<1> DEFINE T == {n \in Nat : \A q \in 1..(Len(v) + 1) :
                   PacketAt(v, q) /\ q + n = Len(v) + 1 => q \in S}
<1>1. ASSUME NEW n \in Nat, \A k \in 0..(n - 1) : k \in T PROVE n \in T
  <2> SUFFICES ASSUME NEW q \in 1..(Len(v) + 1), PacketAt(v, q), q + n = Len(v) + 1
               PROVE  q \in S
    OBVIOUS
  <2>1. CASE q = Len(v) + 1
    BY <2>1
  <2>2. CASE IsHeader(v, q)
    <3> DEFINE next == q + v[q].length
               k == Len(v) + 1 - next
    <3>1. next \in (q + 1)..(Len(v) + 1) /\ PacketAt(v, next) /\ q \in 1..Len(v)
      BY <2>2, NextPacket
    <3> HIDE DEF next
    <3>2. k \in 0..(n - 1) /\ next + k = Len(v) + 1 /\ next \in 1..(Len(v) + 1)
      BY <3>1
    <3> HIDE DEF k
    <3>3. next \in S
      BY <3>1, <3>2, <1>1
    <3> QED
      BY <3>1, <3>3, <2>2 DEF next
  <2> QED
    BY <2>1, <2>2 DEF PacketAt
<1>2. Nat \subseteq T
  <2> HIDE DEF T
  <2> QED
    BY <1>1, EachNumber
<1>3. Len(v) \in Nat /\ Len(v) \in T /\ 1 \in 1..(Len(v) + 1) /\ 1 + Len(v) = Len(v) + 1
  <2>1. Len(v) \in Nat
    OBVIOUS
  <2> HIDE DEF T
  <2> QED
    BY <2>1, <1>2
<1>4. PacketAt(v, 1)
  BY DEF PacketAt, InOrder
<1> QED
  BY <1>3, <1>4

\* Repair reads of such a volume the metadata of its recovery slices.
LEMMA MetadataOfVolume ==
  ASSUME NEW v \in Seq(Cell), Whole(v), InOrder(v)
  PROVE  /\ ParseMetadata(v) \in Seq(SliceData)
         /\ ToSet(ParseMetadata(v)) = {Metadata(v, p) : p \in RecoveryFrom(v, 1)}
<1>1. PICK g : /\ AreMetadata(g, v, Nat)
               /\ ParseMetadata(v) = IF g[1].ok THEN g[1].slices ELSE <<>>
  BY MetadataIsRead
<1> DEFINE Good(q) ==
      \E s \in Seq(SliceData) :
        /\ g[q] = [ok |-> TRUE, slices |-> s]
        /\ ToSet(s) = {Metadata(v, p) : p \in RecoveryFrom(v, q)}
           S == {q \in Nat : Good(q)}
<1>2. Good(Len(v) + 1)
  <2>1. ~IsHeader(v, Len(v) + 1) /\ Len(v) + 1 \in Nat
    BY HeaderHasLength
  <2>2. g[Len(v) + 1] = [ok |-> TRUE, slices |-> <<>>]
    BY <1>1, <2>1 DEF AreMetadata, MetadataFrom
  <2>3. RecoveryFrom(v, Len(v) + 1) = {}
    BY DEF RecoveryFrom
  <2>4. <<>> \in Seq(SliceData) /\ ToSet(<<>>) = {}
    BY DEF ToSet
  <2> QED
    BY <2>2, <2>3, <2>4
<1>3. ASSUME NEW q \in 1..Len(v), IsHeader(v, q), Good(q + v[q].length) PROVE Good(q)
  <2> DEFINE next == q + v[q].length
  <2>1. /\ next \in Nat /\ q \in Nat
        /\ RecoveryFrom(v, q) = RecoveryFrom(v, next) \cup {p \in {q} : IsRecoveryAt(v, p)}
        /\ v[q].packet.type = "recovery" => q + 1 <= Len(v) 
    BY <1>3, NextPacket
  <2>2. PICK s \in Seq(SliceData) :
          /\ g[next] = [ok |-> TRUE, slices |-> s]
          /\ ToSet(s) = {Metadata(v, p) : p \in RecoveryFrom(v, next)}
    BY <1>3
  <2>3. g[q] = MetadataFrom(g, v, q)
    BY <1>1, <2>1 DEF AreMetadata
  <2>4. CASE v[q].packet.type # "recovery"
    <3>1. g[q] = g[next]
      BY <2>3, <2>4, <1>3 DEF MetadataFrom
    <3>2. RecoveryFrom(v, q) = RecoveryFrom(v, next)
      BY <2>1, <2>4 DEF IsRecoveryAt
    <3> HIDE DEF next
    <3> QED
      BY <2>2, <3>1, <3>2
  <2>5. CASE v[q].packet.type = "recovery"
    <3> DEFINE m == Metadata(v, q)
    <3>1. ~(q + 1 > Len(v))
      BY <2>1, <2>5
    <3>2. g[q] = [ok |-> g[next].ok, slices |-> <<m>> \o g[next].slices]
      BY <2>3, <2>5, <3>1, <1>3 DEF MetadataFrom
    <3>3. g[q] = [ok |-> TRUE, slices |-> <<m>> \o s]
      <4> HIDE DEF next, m
      <4> QED
        BY <3>2, <2>2
    <3>4. m \in SliceData
      <4>1. v[q] \in Cell /\ v[q].kind = "header"
        BY <1>3 DEF IsHeader
      <4>2. v[q].packet.about \in Nat
        BY <4>1 DEF Cell, Packet, Junk
      <4>3. IsIntact(v, q) \in BOOLEAN
        BY DEF IsIntact
      <4> QED
        BY <4>2, <4>3 DEF Metadata, SliceData, DamagedExponent
    <3>5. RecoveryFrom(v, q) = RecoveryFrom(v, next) \cup {q}
      BY <2>1, <2>5, <1>3 DEF IsRecoveryAt
    <3> DEFINE t == <<m>> \o s
    <3>6. t \in Seq(SliceData) /\ ToSet(t) = ToSet(s) \cup {m}
      <4> HIDE DEF m
      <4>1. t \in Seq(SliceData) /\ Len(t) = Len(s) + 1
        BY <3>4
      <4>2. t[1] = m /\ \A k \in 1..Len(s) : t[k + 1] = s[k]
        BY <3>4
      <4>3. \A k \in 2..(Len(s) + 1) : k - 1 \in 1..Len(s) /\ t[k] = s[k - 1]
        BY <3>4
      <4> HIDE DEF t
      <4>4. DOMAIN t = 1..(Len(s) + 1) /\ DOMAIN s = 1..Len(s) /\ Len(s) \in Nat
        BY <4>1
      <4>5. ToSet(t) \subseteq ToSet(s) \cup {m}
        <5> SUFFICES ASSUME NEW k \in 1..(Len(s) + 1) PROVE t[k] \in ToSet(s) \cup {m}
          BY <4>4 DEF ToSet
        <5>1. k = 1 \/ k \in 2..(Len(s) + 1)
          BY <4>4
        <5> QED
          BY <5>1, <4>2, <4>3, <4>4 DEF ToSet
      <4>6. ToSet(s) \cup {m} \subseteq ToSet(t)
        <5>1. 1 \in DOMAIN t /\ \A k \in 1..Len(s) : k + 1 \in DOMAIN t
          BY <4>4
        <5> QED
          BY <5>1, <4>2, <4>4 DEF ToSet
      <4> QED
        BY <4>1, <4>5, <4>6
    <3>7. ToSet(t) = {Metadata(v, p) : p \in RecoveryFrom(v, q)}
      <4> HIDE DEF next, t
      <4> QED
        BY <3>5, <3>6, <2>2
    <3> HIDE DEF t
    <3> QED
      BY <3>3, <3>6, <3>7 DEF t
  <2> QED
    BY <2>4, <2>5
<1>4. Len(v) + 1 \in S
  <2> HIDE DEF Good
  <2> QED
    BY <1>2
<1>5. \A q \in 1..Len(v) : IsHeader(v, q) /\ q + v[q].length \in S => q \in S
  <2> HIDE DEF Good
  <2> QED
    BY <1>3
<1>6. 1 \in S
  <2> HIDE DEF S
  <2> QED
    BY <1>4, <1>5, EachPacket
<1>7. PICK s \in Seq(SliceData) :
        /\ g[1] = [ok |-> TRUE, slices |-> s]
        /\ ToSet(s) = {Metadata(v, p) : p \in RecoveryFrom(v, 1)}
  BY <1>6
<1> QED
  BY <1>1, <1>7

LEMMA CountsOne ==
  ASSUME NEW e, NEW s \in Seq(Entry), RecoveryCount(s) \in Nat
  PROVE  RecoveryCount(<<e>> \o s) = RecoveryCount(s) + (IF IsRecovery(e) THEN 1 ELSE 0)
<1> DEFINE t == <<e>> \o s
           S == {n \in DOMAIN s : IsRecovery(s[n])}
           T == {n \in DOMAIN t : IsRecovery(t[n])}
           M == {n + 1 : n \in S}
           up == [n \in S |-> n + 1]
<1>1. /\ Len(s) \in Nat /\ DOMAIN s = 1..Len(s) /\ DOMAIN t = 1..(Len(s) + 1)
      /\ t[1] = e /\ \A n \in 1..Len(s) : t[n + 1] = s[n]
  OBVIOUS
<1>2. IsFiniteSet(S)
  <2>1. IsFiniteSet(1..Len(s)) /\ S \subseteq 1..Len(s)
    BY <1>1, FS_Interval
  <2> HIDE DEF S
  <2> QED
    BY <2>1, FS_Subset
<1>3. IsFiniteSet(M) /\ Cardinality(M) = Cardinality(S)
  <2>1. S \subseteq Int
    BY <1>1
  <2>2. up \in Bijection(S, M)
    <3> HIDE DEF S
    <3> QED
      BY <2>1 DEF Bijection, Injection, Surjection, IsInjective
  <2> HIDE DEF S, M, up
  <2> QED
    BY <1>2, <2>2, FS_Bijection DEF ExistsBijection
<1>4. T = M \cup (IF IsRecovery(e) THEN {1} ELSE {})
  <2>1. ASSUME NEW n \in T PROVE n \in M \cup (IF IsRecovery(e) THEN {1} ELSE {})
    <3>1. CASE n = 1
      BY <3>1, <1>1
    <3>2. CASE n # 1
      <4> DEFINE k == n - 1
      <4>1. k \in 1..Len(s) /\ n = k + 1
        BY <3>2, <1>1
      <4>2. k \in S
        BY <4>1, <1>1
      <4> QED
        BY <4>1, <4>2
    <3> QED
      BY <3>1, <3>2
  <2>2. ASSUME NEW n \in M PROVE n \in T
    BY <1>1
  <2>3. IsRecovery(e) => 1 \in T
    BY <1>1
  <2> HIDE DEF T, M
  <2> QED
    BY <2>1, <2>2, <2>3
<1>5. 1 \notin M
  BY <1>1
<1>6. RecoveryCount(t) = Cardinality(T) /\ RecoveryCount(s) = Cardinality(S)
  BY DEF RecoveryCount
<1> HIDE DEF T, M, S, t
<1>7. CASE IsRecovery(e)
  <2>1. T = M \cup {1}
    BY <1>4, <1>7
  <2>2. Cardinality(T) = Cardinality(M) + 1
    BY <2>1, <1>3, <1>5, FS_AddElement
  <2> QED
    BY <2>2, <1>3, <1>6, <1>7 DEF t
<1>8. CASE ~IsRecovery(e)
  <2>1. T = M
    BY <1>4, <1>8
  <2> QED
    BY <2>1, <1>3, <1>6, <1>8 DEF t
<1> QED
  BY <1>7, <1>8

\* Verify counts of such a volume its intact recovery slices.
LEMMA CountOfVolume ==
  ASSUME NEW v \in Seq(Cell), Whole(v), InOrder(v)
  PROVE  /\ IsFiniteSet(RecoveryFrom(v, 1)) /\ IsFiniteSet(IntactFrom(v, 1))
         /\ RecoveryCount(ParsePackets(v)) = Cardinality(IntactFrom(v, 1))
<1>1. PICK f : AreRead(f, v, Nat) /\ ParsePackets(v) = f[1]
  BY PacketsAreRead
<1>2. \A q \in Nat : f[q] \in Seq(Entry)
  BY <1>1, ReadsAreEntries
<1>3. \A q \in Nat : IsFiniteSet(RecoveryFrom(v, q)) /\ IsFiniteSet(IntactFrom(v, q))
  <2> SUFFICES ASSUME NEW q \in Nat
               PROVE  IsFiniteSet(RecoveryFrom(v, q)) /\ IsFiniteSet(IntactFrom(v, q))
    OBVIOUS
  <2>1. IsFiniteSet(q..Len(v))
    BY FS_Interval
  <2>2. RecoveryFrom(v, q) \subseteq q..Len(v) /\ IntactFrom(v, q) \subseteq q..Len(v)
    BY DEF RecoveryFrom, IntactFrom
  <2> QED
    BY <2>1, <2>2, FS_Subset
<1> DEFINE Good(q) == RecoveryCount(f[q]) = Cardinality(IntactFrom(v, q))
           S == {q \in Nat : Good(q)}
<1>4. RecoveryCount(<<>>) = 0
  <2>1. {n \in DOMAIN <<>> : IsRecovery(<<>>[n])} = {}
    OBVIOUS
  <2> QED
    BY <2>1, FS_EmptySet DEF RecoveryCount
<1>5. \A q \in Nat : q = 0 \/ q > Len(v) => f[q] = <<>>
  BY <1>1 DEF AreRead, ReadFrom
<1>6. Good(Len(v) + 1)
  <2>1. f[Len(v) + 1] = <<>>
    BY <1>5
  <2>2. IntactFrom(v, Len(v) + 1) = {}
    BY DEF IntactFrom, RecoveryFrom
  <2> QED
    BY <1>4, <2>1, <2>2, FS_EmptySet
<1>7. ASSUME NEW q \in 1..Len(v), IsHeader(v, q), Good(q + v[q].length) PROVE Good(q)
  <2> DEFINE next == q + v[q].length
  <2>1. /\ next \in Nat /\ q \in Nat /\ next > q /\ PacketAt(v, next)
        /\ v[q].length <= MaxLength /\ q + v[q].length - 1 <= Len(v)
        /\ v[q].length \in Nat
        /\ IntactFrom(v, q) = IntactFrom(v, next)
             \cup {p \in {q} : IsRecoveryAt(v, p) /\ IsIntact(v, p)}
        /\ q \notin RecoveryFrom(v, next)
    BY <1>7, NextPacket
  <2>2. ~(q = 0 \/ q > Len(v)) /\ ~(q + v[q].length - 1 > Len(v) \/ v[q].length > MaxLength)
    BY <2>1, MaxLengthAssumption
  <2>3. f[q] = ReadFrom(f, v, q)
    BY <1>1, <2>1 DEF AreRead
  <2>4. IsFiniteSet(IntactFrom(v, next)) /\ q \notin IntactFrom(v, next)
    BY <2>1, <1>3 DEF IntactFrom
  <2>5. RecoveryCount(f[next]) = Cardinality(IntactFrom(v, next))
        /\ RecoveryCount(f[next]) \in Nat
    <3>1. Cardinality(IntactFrom(v, next)) \in Nat
      BY <2>4, FS_CardinalityType
    <3> QED
      BY <3>1, <1>7
  <2>6. CASE v[q].packet.type = "recovery" /\ ~IsIntact(v, q)
    <3> DEFINE n == NextHeader(v, next)
    <3>1. f[q] = f[n]
      BY <2>2, <2>3, <2>6, <1>7 DEF ReadFrom
    <3>2. f[n] = f[next]
      <4>1. CASE IsHeader(v, next)
        <5>1. n # 0 /\ n <= next /\ n >= next /\ n \in Nat
          <6> HIDE DEF next
          <6> QED
            BY <4>1, <2>1, NextHeaderIs
        <5>2. n = next
          <6> HIDE DEF n, next
          <6> QED
            BY <5>1, <2>1
        <5> QED
          BY <5>2
      <4>2. CASE ~IsHeader(v, next)
        <5>1. next = Len(v) + 1
          BY <4>2, <2>1 DEF PacketAt
        <5>2. n # 0 => n \in 1..Len(v) /\ n >= next
          <6> HIDE DEF next
          <6> QED
            BY <2>1, NextHeaderIs
        <5>3. n = 0
          <6> HIDE DEF n, next
          <6> QED
            BY <5>1, <5>2
        <5>4. f[next] = <<>> /\ f[0] = <<>>
          <6> HIDE DEF next
          <6> QED
            BY <5>1, <2>1, <1>5
        <5> QED
          BY <5>3, <5>4
      <4> QED
        BY <4>1, <4>2
    <3>3. IntactFrom(v, q) = IntactFrom(v, next)
      BY <2>1, <2>6
    <3> QED
      BY <3>1, <3>2, <3>3, <2>5
  <2>7. CASE ~(v[q].packet.type = "recovery" /\ ~IsIntact(v, q))
    <3> DEFINE e == Parsed(v, q)
    <3>1. f[q] = <<e>> \o f[next]
      BY <2>2, <2>3, <2>7, <1>7 DEF ReadFrom
    <3>2. IsRecovery(e) <=> v[q].packet.type = "recovery"
      BY DEF IsRecovery, Parsed
    <3>3. RecoveryCount(f[q]) = RecoveryCount(f[next]) + (IF IsRecovery(e) THEN 1 ELSE 0)
      <4> HIDE DEF e, next
      <4> QED
        BY <3>1, <2>1, <2>5, <1>2, CountsOne
    <3>4. CASE IsRecovery(e)
      <4>1. IntactFrom(v, q) = IntactFrom(v, next) \cup {q}
        BY <3>2, <3>4, <2>1, <2>7, <1>7 DEF IsRecoveryAt
      <4>2. Cardinality(IntactFrom(v, q)) = Cardinality(IntactFrom(v, next)) + 1
        BY <4>1, <2>4, FS_AddElement
      <4> QED
        BY <4>2, <3>3, <3>4, <2>5
    <3>5. CASE ~IsRecovery(e)
      <4>1. IntactFrom(v, q) = IntactFrom(v, next)
        BY <3>2, <3>5, <2>1 DEF IsRecoveryAt
      <4> QED
        BY <4>1, <3>3, <3>5, <2>5
    <3> QED
      BY <3>4, <3>5
  <2> QED
    BY <2>6, <2>7
<1>8. Len(v) + 1 \in S
  <2> HIDE DEF Good
  <2> QED
    BY <1>6
<1>9. \A q \in 1..Len(v) : IsHeader(v, q) /\ q + v[q].length \in S => q \in S
  <2> HIDE DEF Good
  <2> QED
    BY <1>7
<1>10. 1 \in S
  <2> HIDE DEF S
  <2> QED
    BY <1>8, <1>9, EachPacket
<1> QED
  BY <1>1, <1>3, <1>10

-----------------------------------------------------------------------------
(* Slices of all volumes *)

\* Of slices with one exponent one is kept.
LEMMA OneIsKept ==
  ASSUME NEW files, NEW a, DOMAIN files \subseteq Nat,
         \A n \in DOMAIN files : DOMAIN files[n] \subseteq Nat,
         a \in UNION {{n} \X DOMAIN files[n] : n \in DOMAIN files}
  PROVE  \E s \in MergedSlices(files) : s.exponent = files[a[1]][a[2]].exponent
<1> DEFINE places == UNION {{n} \X DOMAIN files[n] : n \in DOMAIN files}
           slice == [b \in places |-> files[b[1]][b[2]]]
           alike == {b \in places : slice[b].exponent = slice[a].exponent}
           first == {b[1] : b \in alike}
<1>1. \A b \in places : b = <<b[1], b[2]>> /\ b[1] \in Nat /\ b[2] \in Nat
  OBVIOUS
<1>2. first \in SUBSET Nat /\ first # {} /\ alike \subseteq places
  <2>1. a \in alike
    OBVIOUS
  <2>2. alike \subseteq places /\ \A b \in alike : b[1] \in Nat
    BY <1>1
  <2> HIDE DEF alike
  <2>3. a[1] \in first /\ first \subseteq Nat
    BY <2>1, <2>2
  <2> QED
    BY <2>2, <2>3
<1>3. PICK n \in first : \A k \in first : n <= k
  <2> HIDE DEF first
  <2> QED
    BY <1>2, LeastNumber
<1> DEFINE second == {b[2] : b \in {c \in alike : c[1] = n}}
<1>4. second \in SUBSET Nat /\ second # {}
  <2>1. \A b \in alike : b[2] \in Nat
    BY <1>1
  <2>2. PICK b \in alike : b[1] = n
    BY <1>3
  <2> HIDE DEF alike
  <2>3. b[2] \in second
    BY <2>2
  <2>4. second \subseteq Nat
    BY <2>1
  <2> QED
    BY <2>3, <2>4
<1>5. PICK m \in second : \A k \in second : m <= k
  <2> HIDE DEF second
  <2> QED
    BY <1>4, LeastNumber
<1> DEFINE b == <<n, m>>
<1>6. b \in alike
  <2>1. PICK c \in alike : c[1] = n /\ c[2] = m
    BY <1>5
  <2>2. c = <<c[1], c[2]>>
    BY <1>1, <1>2, <2>1
  <2> QED
    BY <2>1, <2>2
<1>7. ASSUME NEW c \in alike PROVE ~Precedes(c, b)
  <2>1. c[1] \in Nat /\ c[2] \in Nat /\ n \in Nat /\ m \in Nat
    BY <1>1, <1>2, <1>4
  <2>2. n <= c[1]
    BY <1>3
  <2>3. c[1] = n => m <= c[2]
    BY <1>5
  <2> HIDE DEF alike
  <2> QED
    BY <2>1, <2>2, <2>3 DEF Precedes
<1>8. \A c \in places : slice[c].exponent = slice[b].exponent => ~Precedes(c, b)
  BY <1>6, <1>7
<1>9. b \in {d \in places : \A c \in places :
               slice[c].exponent = slice[d].exponent => ~Precedes(c, d)}
  BY <1>6, <1>8
<1>10. slice[b] \in MergedSlices(files)
  BY <1>9 DEF MergedSlices
<1>11. slice[b].exponent = files[a[1]][a[2]].exponent
  BY <1>6
<1> QED
  BY <1>10, <1>11

LEMMA KeptIsRead ==
  ASSUME NEW files, NEW s \in MergedSlices(files)
  PROVE  \E n \in DOMAIN files : s \in ToSet(files[n])
<1> DEFINE places == UNION {{n} \X DOMAIN files[n] : n \in DOMAIN files}
<1>1. PICK b \in places : s = files[b[1]][b[2]]
  BY DEF MergedSlices
<1>2. PICK n \in DOMAIN files : b \in {n} \X DOMAIN files[n]
  BY <1>1
<1> QED
  BY <1>1, <1>2 DEF ToSet

PlacesIn(R) == UNION {{n} \X RecoveryFrom(job.volumes[n], 1) : n \in R}
IntactIn(R) == UNION {{n} \X IntactFrom(job.volumes[n], 1) : n \in R}
AllWhole(R) == \A n \in R : Whole(job.volumes[n]) /\ InOrder(job.volumes[n])

\* What was counted of volumes of packets one after the other is their intact
\* recovery slices, and what repair is promised is covered by it.
CountInv ==
  /\ \A n \in read : n < volume
  /\ counted \in Nat
  /\ AllWhole(read) => /\ IsFiniteSet(PlacesIn(read)) /\ IsFiniteSet(IntactIn(read))
                       /\ counted = Cardinality(IntactIn(read))

LEMMA InitCount == Init => CountInv
<1> SUFFICES ASSUME Init PROVE CountInv
  OBVIOUS
<1>1. read = {} /\ counted = 0
  BY DEF Init
<1>2. PlacesIn(read) = {} /\ IntactIn(read) = {}
  BY <1>1 DEF PlacesIn, IntactIn
<1>3. IsFiniteSet({}) /\ Cardinality({}) = 0
  BY FS_EmptySet
<1> QED
  BY <1>1, <1>2, <1>3 DEF CountInv

\* Places of one more volume.
LEMMA OneMore ==
  ASSUME NEW n, NEW P, IsFiniteSet(P), NEW T, IsFiniteSet(T),
         \A t \in T : t[1] # n
  PROVE  /\ IsFiniteSet(T \cup ({n} \X P))
         /\ Cardinality(T \cup ({n} \X P)) = Cardinality(T) + Cardinality(P)
<1> DEFINE Q == {n} \X P
           f == [p \in P |-> <<n, p>>]
<1>1. IsFiniteSet(Q) /\ Cardinality(Q) = Cardinality(P)
  <2>1. f \in Bijection(P, Q)
    BY DEF Bijection, Injection, Surjection, IsInjective
  <2> HIDE DEF f, Q
  <2> QED
    BY <2>1, FS_Bijection DEF ExistsBijection
<1>2. T \cap Q = {}
  OBVIOUS
<1> HIDE DEF Q
<1>3. /\ IsFiniteSet(T \cup Q)
      /\ Cardinality(T \cup Q) = Cardinality(T) + Cardinality(Q) - Cardinality(T \cap Q)
  BY <1>1, FS_Union
<1>4. Cardinality(T \cap Q) = 0 /\ Cardinality(T) \in Nat /\ Cardinality(Q) \in Nat
  BY <1>1, <1>2, FS_EmptySet, FS_CardinalityType
<1>5. Cardinality(T \cup Q) = Cardinality(T) + Cardinality(P)
  BY <1>1, <1>3, <1>4
<1> QED
  BY <1>3, <1>5 DEF Q

LEMMA CountOfEntries ==
  ASSUME NEW s \in Seq(Entry) PROVE RecoveryCount(s) \in Nat
<1>1. IsFiniteSet(1..Len(s)) /\ DOMAIN s = 1..Len(s)
  BY FS_Interval
<1>2. IsFiniteSet({n \in DOMAIN s : IsRecovery(s[n])})
  BY <1>1, FS_Subset
<1> QED
  BY <1>2, FS_CardinalityType DEF RecoveryCount

LEMMA NextCount == ASSUME LoadInv, CountInv, [Next]_vars PROVE CountInv'
<1>1. CASE LoadVolume
  <2>1. job' = job /\ volume' = volume + 1 /\ volume \in Nat
    BY <1>1 DEF LoadVolume, LoadInv
  <2>1b. read \in SUBSET Nat
    <3>1. job.volumes \in Seq(Seq(Cell))
      BY VolumesAssumption DEF LoadInv
    <3> QED
      BY <3>1 DEF LoadInv
  <2>2. CASE UNCHANGED <<read, counted>>
    <3>1. \A n \in read : n < volume'
      BY <2>1, <2>1b DEF CountInv
    <3> QED
      BY <2>1, <2>2, <3>1 DEF CountInv, PlacesIn, IntactIn, AllWhole
  <2>3. CASE ~UNCHANGED <<read, counted>>
    <3> DEFINE v == job.volumes[volume]
               count == RecoveryCount(ParsePackets(v))
    <3>1. /\ counted' = counted + count /\ read' = read \cup {volume}
          /\ volume <= Len(job.volumes)
      BY <1>1, <2>3 DEF LoadVolume
    <3>2. v \in Seq(Cell)
      <4>1. job.volumes \in Seq(Seq(Cell))
        BY VolumesAssumption DEF LoadInv
      <4>2. volume \in DOMAIN job.volumes
        BY <3>1, <4>1 DEF LoadInv
      <4> QED
        BY <4>1, <4>2
    <3>3. count \in Nat
      <4>1. ParsePackets(v) \in Seq(Entry)
        BY <3>2, PacketsAreRead, ReadsAreEntries
      <4> QED
        BY <4>1, CountOfEntries
    <3>4. volume \notin read
      BY <2>1 DEF CountInv
    <3>5. \A n \in read' : n < volume'
      BY <2>1, <2>1b, <3>1 DEF CountInv
    <3>6. ASSUME AllWhole(read')
          PROVE  /\ IsFiniteSet(PlacesIn(read')) /\ IsFiniteSet(IntactIn(read'))
                 /\ counted' = Cardinality(IntactIn(read'))
      <4>1. AllWhole(read) /\ Whole(v) /\ InOrder(v)
        BY <3>1, <3>6 DEF AllWhole
      <4>2. /\ IsFiniteSet(RecoveryFrom(v, 1)) /\ IsFiniteSet(IntactFrom(v, 1))
            /\ count = Cardinality(IntactFrom(v, 1))
        BY <3>2, <4>1, CountOfVolume
      <4>3. PlacesIn(read') = PlacesIn(read) \cup ({volume} \X RecoveryFrom(v, 1))
        BY <3>1 DEF PlacesIn
      <4>4. IntactIn(read') = IntactIn(read) \cup ({volume} \X IntactFrom(v, 1))
        BY <3>1 DEF IntactIn
      <4>5. (\A t \in PlacesIn(read) : t[1] # volume)
            /\ (\A t \in IntactIn(read) : t[1] # volume)
        BY <3>4 DEF PlacesIn, IntactIn
      <4>6. /\ IsFiniteSet(PlacesIn(read)) /\ IsFiniteSet(IntactIn(read))
            /\ counted = Cardinality(IntactIn(read))
        BY <4>1 DEF CountInv
      <4> DEFINE P == PlacesIn(read)
                 Q == IntactIn(read)
                 R == RecoveryFrom(v, 1)
                 I == IntactFrom(v, 1)
      <4> HIDE DEF v, count, P, Q, R, I
      <4>7. IsFiniteSet(P \cup ({volume} \X R))
        <5>1. IsFiniteSet(P) /\ IsFiniteSet(R) /\ \A t \in P : t[1] # volume
          BY <4>2, <4>5, <4>6 DEF P, R
        <5> QED
          BY <5>1, OneMore
      <4>8. /\ IsFiniteSet(Q \cup ({volume} \X I))
            /\ Cardinality(Q \cup ({volume} \X I)) = Cardinality(Q) + Cardinality(I)
        <5>1. IsFiniteSet(Q) /\ IsFiniteSet(I) /\ \A t \in Q : t[1] # volume
          BY <4>2, <4>5, <4>6 DEF Q, I
        <5> QED
          BY <5>1, OneMore
      <4> QED
        BY <4>2, <4>3, <4>4, <4>6, <4>7, <4>8, <3>1 DEF P, Q, R, I
    <3>7. (AllWhole(read))' = AllWhole(read') /\ (PlacesIn(read))' = PlacesIn(read')
          /\ (IntactIn(read))' = IntactIn(read')
      BY <2>1 DEF AllWhole, PlacesIn, IntactIn
    <3>8. counted' \in Nat
      <4> HIDE DEF count
      <4> QED
        BY <3>1, <3>3 DEF CountInv
    <3> QED
      BY <3>5, <3>6, <3>7, <3>8 DEF CountInv
  <2> QED
    BY <2>2, <2>3
<1>2. CASE UNCHANGED <<job, volume, read, counted>>
  BY <1>2 DEF CountInv, PlacesIn, IntactIn, AllWhole
<1>3. CASE BeginScan \/ Scan \/ Conclude \/ Exited \/ UNCHANGED vars
  <2>1. UNCHANGED <<job, volume, read, counted>>
    BY <1>3 DEF BeginScan, Scan, Conclude, Exited, vars, loadVars, ScanStep, Open,
       Fill, ReadFails, Align, SkipBlock, AdvanceOneByte, SlideWindow,
       SlideFails, EndOfFile
  <2> QED
    BY <2>1, <1>2
<1> QED
  BY <1>1, <1>2, <1>3 DEF Next

\* A repair is promised only with as many slices counted as are missing.
PromiseInv ==
  /\ outcome \in {"none", "ok", "repairable", "impossible", "renamed", "error"}
  /\ outcome = "repairable" => pc = "exit" /\ counted >= MissingCount

LEMMA NextPromise == ASSUME PromiseInv, [Next]_vars PROVE PromiseInv'
<1>1. CASE Conclude
  <2>1. UNCHANGED <<job, set, found, counted>> /\ pc' = "exit"
    BY <1>1 DEF Conclude, Exit, loadVars
  <2>2. MissingCount' = MissingCount
    BY <2>1 DEF MissingCount, MissingOf, FoundAnywhere, FoundIn, Engine!Has,
       Engine!Entry, Engine!Owned, Engine!Slice
  <2>3. outcome' = "repairable" => counted >= MissingCount
    BY <1>1 DEF Conclude, Exit
  <2>4. outcome' \in {"none", "ok", "repairable", "impossible", "renamed", "error"}
    BY <1>1 DEF Conclude, Exit
  <2> QED
    BY <2>1, <2>2, <2>3, <2>4 DEF PromiseInv
<1>2. CASE UNCHANGED vars
  <2>1. UNCHANGED <<job, set, found, counted, outcome, pc>>
    BY <1>2 DEF vars
  <2>2. MissingCount' = MissingCount
    BY <2>1 DEF MissingCount, MissingOf, FoundAnywhere, FoundIn, Engine!Has,
       Engine!Entry, Engine!Owned, Engine!Slice
  <2> QED
    BY <2>1, <2>2 DEF PromiseInv
<1>3. CASE LoadVolume \/ BeginScan \/ Scan
  <2>1. outcome' = outcome
    BY <1>3 DEF LoadVolume, BeginScan, Scan
  <2>2. pc # "exit"
    BY <1>3 DEF LoadVolume, BeginScan, Scan, ScanStep, Open, Fill, ReadFails, Align,
                SkipBlock, AdvanceOneByte, Scanning, SlideWindow, SlideFails, EndOfFile
  <2> QED
    BY <2>1, <2>2 DEF PromiseInv
<1> QED
  BY <1>1, <1>2, <1>3 DEF Next, Exited

\* What repair finds intact is what verify counted.
LEMMA SlicesAreCounted ==
  ASSUME LoadInv, CountInv, AllWhole(read), NoCopies
  PROVE  /\ IsFiniteSet(RepairSlices)
         /\ counted = Cardinality({s \in RepairSlices : s.intact})
<1> DEFINE Data(a) == Metadata(job.volumes[a[1]], a[2])
           files == [n \in read |-> ParseMetadata(job.volumes[n])]
           intact == {s \in RepairSlices : s.intact}
           all == {Data(a) : a \in PlacesIn(read)}
<1>1. read \subseteq Nat /\ \A n \in read : job.volumes[n] \in Seq(Cell)
  <2>1. job.volumes \in Seq(Seq(Cell))
    BY VolumesAssumption DEF LoadInv
  <2> QED
    BY <2>1 DEF LoadInv
<1>2. /\ IsFiniteSet(PlacesIn(read)) /\ IsFiniteSet(IntactIn(read))
      /\ counted = Cardinality(IntactIn(read))
  BY DEF CountInv
<1>3. ASSUME NEW n \in read
      PROVE  /\ ParseMetadata(job.volumes[n]) \in Seq(SliceData)
             /\ ToSet(ParseMetadata(job.volumes[n])) =
                  {Metadata(job.volumes[n], p) : p \in RecoveryFrom(job.volumes[n], 1)}
  BY <1>1, MetadataOfVolume DEF AllWhole
<1>4. ASSUME NEW a \in PlacesIn(read)
      PROVE  /\ a = <<a[1], a[2]>> /\ a[1] \in read
             /\ a[2] \in RecoveryFrom(job.volumes[a[1]], 1)
             /\ IsRecoveryAt(job.volumes[a[1]], a[2])
             /\ a \in RecoveryPlaces
             /\ job.volumes[a[1]][a[2]].packet.about \in Nat
  <2>1. PICK n \in read : a \in {n} \X RecoveryFrom(job.volumes[n], 1)
    BY <1>4 DEF PlacesIn
  <2>2. a = <<n, a[2]>> /\ a[2] \in RecoveryFrom(job.volumes[n], 1) /\ a[1] = n
    BY <2>1
  <2>3. job.volumes[n] \in Seq(Cell)
    BY <1>1
  <2>4. a[2] \in DOMAIN job.volumes[n] /\ IsRecoveryAt(job.volumes[n], a[2])
    BY <2>2, <2>3 DEF RecoveryFrom
  <2>5. a \in RecoveryPlaces
    BY <2>1, <2>2, <2>4 DEF RecoveryPlaces
  <2>6. job.volumes[n][a[2]] \in Cell /\ job.volumes[n][a[2]].kind = "header"
    BY <2>3, <2>4 DEF IsRecoveryAt, IsHeader
  <2>7. job.volumes[n][a[2]].packet.about \in Nat
    BY <2>6 DEF Cell, Packet, Junk
  <2> QED
    BY <2>2, <2>4, <2>5, <2>7
<1>5. ASSUME NEW s \in RepairSlices PROVE s \in all
  <2>1. s \in MergedSlices(files)
    BY <1>5 DEF RepairSlices
  <2>2. PICK n \in DOMAIN files : s \in ToSet(files[n])
    <3> HIDE DEF files
    <3> QED
      BY <2>1, KeptIsRead
  <2>3. n \in read /\ files[n] = ParseMetadata(job.volumes[n])
    BY <2>2
  <2>4. PICK p \in RecoveryFrom(job.volumes[n], 1) : s = Metadata(job.volumes[n], p)
    BY <1>3, <2>2, <2>3
  <2>5. <<n, p>> \in PlacesIn(read)
    BY <2>3, <2>4 DEF PlacesIn
  <2>6. Data(<<n, p>>) = s
    BY <2>4
  <2> QED
    BY <2>5, <2>6
<1>6. IsFiniteSet(RepairSlices)
  <2> DEFINE f == [a \in PlacesIn(read) |-> Data(a)]
  <2>1. f \in Surjection(PlacesIn(read), all)
    BY DEF Surjection
  <2> HIDE DEF f, all
  <2>2. IsFiniteSet(all)
    BY <1>2, <2>1, FS_Surjection
  <2> QED
    BY <2>2, <1>5, FS_Subset
<1>7. IntactIn(read) = {a \in PlacesIn(read) : IsIntact(job.volumes[a[1]], a[2])}
  BY DEF IntactIn, PlacesIn, IntactFrom
<1>8. ASSUME NEW a \in PlacesIn(read)
      PROVE  /\ Data(a).intact = IsIntact(job.volumes[a[1]], a[2])
             /\ Data(a).exponent \in {DamagedExponent,
                                      job.volumes[a[1]][a[2]].packet.about}
             /\ IsIntact(job.volumes[a[1]], a[2]) =>
                  Data(a).exponent = job.volumes[a[1]][a[2]].packet.about
  <2> DEFINE v == job.volumes[a[1]]
             p == a[2]
  <2>1. v \in Seq(Cell) /\ IsHeader(v, p) /\ v[p].packet.type = "recovery"
    BY <1>1, <1>4 DEF IsRecoveryAt
  <2>2. v[p] \in Cell /\ v[p].kind = "header" /\ p \in Nat
    BY <2>1 DEF IsHeader
  <2>3. v[p].packet.length \in Nat \ {0, 1}
    BY <2>1, <2>2 DEF Cell, Packet, Junk
  <2>4. IsIntact(v, p) => v[p + 1] = Body(v[p].packet)
    <3> HIDE DEF v, p
    <3>1. v[p].length = v[p].packet.length => p + 1 \in (p + 1)..(p + v[p].length - 1)
      BY <2>2, <2>3
    <3> QED
      BY <3>1 DEF IsIntact
  <2> QED
    BY <2>4 DEF Metadata
<1>9. ASSUME NEW a \in PlacesIn(read), NEW b \in PlacesIn(read),
             IsIntact(job.volumes[a[1]], a[2]), Data(a).exponent = Data(b).exponent
      PROVE  a = b
  <2>1. /\ Data(a).exponent = job.volumes[a[1]][a[2]].packet.about
        /\ job.volumes[a[1]][a[2]].packet.about \in Nat
    BY <1>4, <1>8, <1>9
  <2>2. Data(b).exponent \in {DamagedExponent, job.volumes[b[1]][b[2]].packet.about}
    BY <1>8
  <2>3. Data(b).exponent # DamagedExponent
    BY <2>1, <1>9 DEF DamagedExponent
  <2>4. job.volumes[a[1]][a[2]].packet.about = job.volumes[b[1]][b[2]].packet.about
    BY <2>1, <2>2, <2>3, <1>9
  <2>5. a \in RecoveryPlaces /\ b \in RecoveryPlaces
    BY <1>4
  <2> QED
    BY <2>4, <2>5 DEF NoCopies
<1>10. ASSUME NEW a \in IntactIn(read) PROVE Data(a) \in intact
  <2>1. a \in PlacesIn(read) /\ IsIntact(job.volumes[a[1]], a[2])
    BY <1>7
  <2> DEFINE n == a[1]
  <2>2. n \in read /\ a[2] \in RecoveryFrom(job.volumes[n], 1)
    BY <1>4, <2>1
  <2>3. files[n] \in Seq(SliceData) /\ Data(a) \in ToSet(files[n])
    BY <1>3, <2>2
  <2>4. PICK k \in DOMAIN files[n] : files[n][k] = Data(a)
    BY <2>3 DEF ToSet
  <2>5. <<n, k>> \in UNION {{m} \X DOMAIN files[m] : m \in DOMAIN files}
    BY <2>2, <2>4
  <2>6. DOMAIN files \subseteq Nat /\ \A m \in DOMAIN files : DOMAIN files[m] \subseteq Nat
    BY <1>1, <1>3
  <2> HIDE DEF Data, files
  <2>7. \E s \in MergedSlices(files) : s.exponent = files[n][k].exponent
    <3> DEFINE b == <<n, k>>
    <3>1. b[1] = n /\ b[2] = k
      OBVIOUS
    <3>2. b \in UNION {{m} \X DOMAIN files[m] : m \in DOMAIN files}
      BY <2>5
    <3> HIDE DEF b, n
    <3>3. \E s \in MergedSlices(files) : s.exponent = files[b[1]][b[2]].exponent
      BY <2>6, <3>2, OneIsKept
    <3> QED
      BY <3>1, <3>3
  <2>8. PICK s \in RepairSlices : s.exponent = Data(a).exponent
    BY <2>4, <2>7 DEF RepairSlices, files
  <2>9. PICK b \in PlacesIn(read) : s = Data(b)
    BY <1>5, <2>8
  <2>10. a = b
    BY <1>9, <2>1, <2>8, <2>9
  <2>11. Data(a).intact
    BY <1>8, <2>1
  <2> QED
    BY <2>8, <2>9, <2>10, <2>11
<1>11. counted = Cardinality(intact)
  <2> DEFINE f == [a \in IntactIn(read) |-> Data(a)]
  <2>1. f \in [IntactIn(read) -> intact]
    <3> HIDE DEF Data, intact
    <3> QED
      BY <1>10
  <2>2. ASSUME NEW a \in IntactIn(read), NEW b \in IntactIn(read), f[a] = f[b] PROVE a = b
    <3>1. Data(a) = Data(b)
      <4> HIDE DEF Data
      <4> QED
        BY <2>2
    <3> HIDE DEF Data
    <3> QED
      BY <3>1, <1>7, <1>9
  <2>3. ASSUME NEW s \in intact PROVE \E a \in IntactIn(read) : f[a] = s
    <3>1. PICK a \in PlacesIn(read) : s = Data(a)
      BY <1>5
    <3>2. a \in IntactIn(read)
      BY <3>1, <1>7, <1>8
    <3> QED
      BY <3>1, <3>2
  <2> HIDE DEF f, intact
  <2>4. f \in Bijection(IntactIn(read), intact)
    BY <2>1, <2>2, <2>3 DEF Bijection, Injection, Surjection, IsInjective
  <2> QED
    BY <2>4, <1>2, FS_Bijection DEF ExistsBijection
<1> QED
  BY <1>6, <1>11

\* When verify says that a repair is possible, repair finds as many slices as
\* are missing, and of them intact those that verify counted, for any number of
\* volumes of packets one after the other, none a copy, whatever is damaged in
\* them (parse_packets_with_options against parse_recovery_slice_metadata).
THEOREM PromisesAreKept == Spec => []PromiseIsKept
<1>1. ASSUME LoadInv, SetInv, CountInv, PromiseInv PROVE PromiseIsKept
  <2> SUFFICES ASSUME outcome = "repairable", AllWhole(read), NoCopies
               PROVE  /\ Cardinality(RepairSlices) >= MissingCount
                      /\ counted = Cardinality({s \in RepairSlices : s.intact})
    BY DEF PromiseIsKept, AllWhole
  <2> DEFINE intact == {s \in RepairSlices : s.intact}
  <2>1. IsFiniteSet(RepairSlices) /\ counted = Cardinality(intact)
    BY <1>1, SlicesAreCounted
  <2>2. /\ IsFiniteSet(intact) /\ Cardinality(intact) <= Cardinality(RepairSlices)
        /\ Cardinality(RepairSlices) \in Nat
    BY <2>1, FS_Subset, FS_CardinalityType
  <2>3. MissingCount \in Nat
    BY <1>1, MissingIsFinite, FS_CardinalityType DEF LoadInv, MissingCount
  <2>4. counted >= MissingCount /\ counted \in Nat
    BY <1>1 DEF PromiseInv, CountInv
  <2> HIDE DEF intact
  <2>5. Cardinality(RepairSlices) >= MissingCount
    BY <2>1, <2>2, <2>3, <2>4
  <2> QED
    BY <2>1, <2>5 DEF intact
<1>2. Init => LoadInv /\ SetInv /\ CountInv /\ PromiseInv
  <2>1. Init => PromiseInv
    BY DEF Init, PromiseInv
  <2> QED
    BY <2>1, InitLoad, InitSet, InitCount
<1>3. LoadInv /\ SetInv /\ CountInv /\ PromiseInv /\ [Next]_vars
        => (LoadInv /\ SetInv /\ CountInv /\ PromiseInv)'
  BY NextLoad, NextSet, NextCount, NextPromise
<1>4. LoadInv /\ SetInv /\ CountInv /\ PromiseInv => PromiseIsKept
  BY <1>1
<1> QED
  BY <1>2, <1>3, <1>4, PTL DEF Spec
=============================================================================
