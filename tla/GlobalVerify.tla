---------------------------- MODULE GlobalVerify ----------------------------
(***************************************************************************)
(* What one verification pass concludes from the files it finds on disk:   *)
(* src/verify/global_engine.rs, as the repair command runs it.             *)
(*                                                                         *)
(* A file's content is a sequence of cells of one slice each.  A cell is a *)
(* protected block or Junk (anything that matches no checksum of the set). *)
(* The pass does not change the disk and its outcome does not depend on    *)
(* the order in which the worker threads finish (results are collected in  *)
(* argument order), so it is a function of the disk: every operator below  *)
(* takes the disk d, a function from paths to contents or Absent.          *)
(***************************************************************************)
EXTENDS Integers, Sequences, FiniteSets, FiniteSetsExt

CONSTANTS
  File,        \* protected files, named by the path they are expected at
  Rank,        \* position of a file in the main packet
  Loaded,      \* position of a file's description among the packets read
  Data,        \* protected content of a file: a sequence of blocks
  Block,       \* block contents
  Junk,        \* a cell that matches no protected block
  Path,        \* every path the tool may touch
  Absent,      \* "content" of a path that does not exist
  Extras,      \* extra files of the command line, deduplicated, no .par2
  RenameOnly   \* the -O option

Cell == Block \cup {Junk}
Content == Seq(Cell)

ASSUME SetAssumption ==
  /\ File \subseteq Path
  /\ IsFiniteSet(File)
  /\ Rank \in [File -> Nat]
  /\ \A f, g \in File : Rank[f] = Rank[g] => f = g
  /\ Loaded \in [File -> Nat]
  /\ \A f, g \in File : Loaded[f] = Loaded[g] => f = g
  /\ Data \in [File -> Seq(Block)]
  /\ Junk \notin Block
  /\ Absent \notin Content
  /\ Extras \in Seq(Path)
  /\ \A j, k \in DOMAIN Extras : Extras[j] = Extras[k] => j = k
  /\ RenameOnly \in BOOLEAN

-----------------------------------------------------------------------------
(* The set and its blocks.  Slices are numbered from 1. *)

Slice(f) == DOMAIN Data[f]
Slices == UNION {{<<f, i>> : i \in Slice(f)} : f \in File}
Protected == UNION {{Data[f][i] : i \in Slice(f)} : f \in File}

\* A block of several files is chained to the one loaded first, and listed
\* among the blocks of that file only.
Owned ==
  [f \in File |->
     {i \in Slice(f) : \A g \in File : \A j \in Slice(g) :
        Data[g][j] = Data[f][i] => Loaded[f] <= Loaded[g]}]

\* The i-th block listed for f is its block j.
Entry(f, i, j) ==
  /\ j \in Owned[f]
  /\ Cardinality({l \in Owned[f] : l < j}) = i - 1

\* The block listed at position i of f is among the blocks B.
Has(f, i, B) == \E j \in Slice(f) : Entry(f, i, j) /\ Data[f][j] \in B

\* The full-file MD5 is computed unless the repair has neither extra files
\* nor -O.
SkipFullMd5 == Extras = <<>> /\ ~RenameOnly

-----------------------------------------------------------------------------
(* One file.  A first pass tries the aligned blocks of the first buffer (two
   blocks) up to the first that does not match; the main loop ends at the
   described length of a protected file, at the actual length of an extra. *)

AlignedScan(c) ==
  {p \in DOMAIN c : /\ Len(c) >= 2 /\ p <= 2
                    /\ \A q \in 1..p : c[q] \in Protected}

Scan(c, limit) ==
  AlignedScan(c) \cup {p \in DOMAIN c : p <= limit /\ c[p] \in Protected}
Exists(d, p) == d[p] # Absent
OwnScan(d, f) == IF Exists(d, f) THEN Scan(d[f], Len(Data[f])) ELSE {}
OwnBlocks(d, f) == {d[f][p] : p \in OwnScan(d, f)}

\* Where the file's own blocks were found in it, as <<cell, block number>>.
FoundBlocks(d, f) ==
  {u \in OwnScan(d, f) \X Slice(f) : d[f][u[1]] = Data[f][u[2]]}

\* Sorted by offset, the block numbers count up without gap or repetition.
InSequence(found) ==
  /\ \A u, v \in found : u[2] = v[2] => u = v
  /\ \A u, v \in found : u[2] < v[2] => u[1] <= v[1]
  /\ \A u \in found : u[2] = 1 \/ \E v \in found : v[2] = u[2] - 1

PerfectMatch(found) ==
  found = {} \/ (<<1, 1>> \in found /\ InSequence(found))

\* Status of a file after its own scan; "none" when there is nothing to scan.
ScanStatus(d, f) ==
  IF ~Exists(d, f) THEN "none"
  ELSE IF \A i \in Slice(f) : Has(f, i, OwnBlocks(d, f))
       THEN IF /\ PerfectMatch(FoundBlocks(d, f))
               /\ ~SkipFullMd5
               /\ d[f] = Data[f]
            THEN "present" ELSE "corrupted"
       ELSE IF \E i \in Slice(f) : Has(f, i, OwnBlocks(d, f))
            THEN "corrupted" ELSE "missing"

-----------------------------------------------------------------------------
(* Extra files. *)

\* Fault for testing: intact files are offered wrong-name copies too.
CanAlwaysUseRenamed(d, f) == TRUE

CanUseRenamed(d, f) == ScanStatus(d, f) # "present"

\* The -O filter: size and first block of some file that needs one.
RenameCandidate(d, c) ==
  \E f \in File :
    /\ CanUseRenamed(d, f)
    /\ Len(Data[f]) = Len(c)
    /\ c # <<>> => 1 \in Owned[f] /\ c[1] = Data[f][1]

ScannedExtras(d) ==
  {k \in DOMAIN Extras :
     /\ Exists(d, Extras[k])
     /\ RenameOnly => RenameCandidate(d, d[Extras[k]])}

\* Fault for testing: intact files of the same content take a turn.
MatchedExtraCountingIntact(d, f, k) ==
  /\ CanUseRenamed(d, f)
  /\ k \in ScannedExtras(d)
  /\ d[Extras[k]] = Data[f]
  /\ Cardinality({j \in ScannedExtras(d) :
                    j < k /\ d[Extras[j]] = Data[f]})
       = Cardinality({g \in File : Data[g] = Data[f] /\ Rank[g] < Rank[f]})

\* Extras are matched one after the other, each to the first file that needs
\* one and has exactly this content: among files and extras of one content,
\* the n-th extra goes to the n-th file.
MatchedExtra(d, f, k) ==
  /\ CanUseRenamed(d, f)
  /\ k \in ScannedExtras(d)
  /\ d[Extras[k]] = Data[f]
  /\ Cardinality({j \in ScannedExtras(d) :
                    j < k /\ d[Extras[j]] = Data[f]})
       = Cardinality({g \in File : /\ CanUseRenamed(d, g)
                                   /\ Data[g] = Data[f]
                                   /\ Rank[g] < Rank[f]})

Renamed(d) == {f \in File : \E k \in DOMAIN Extras : MatchedExtra(d, f, k)}
MatchedPath(d, f) == Extras[CHOOSE k \in DOMAIN Extras : MatchedExtra(d, f, k)]

-----------------------------------------------------------------------------
(* Results of the pass. *)

ExtraBlocks(d, k) ==
  LET content == d[Extras[k]]
  IN  {content[p] : p \in Scan(content, Len(content))}

\* A block counts as available wherever it was found.
Available(d) ==
  (UNION {OwnBlocks(d, f) : f \in File})
    \cup (UNION {ExtraBlocks(d, k) : k \in ScannedExtras(d)})

Missing(d, f) == {i \in Slice(f) : ~Has(f, i, Available(d))}
MissingSlices(d) == {s \in Slices : s[2] \in Missing(d, s[1])}

Status(d, f) ==
  IF f \in Renamed(d) THEN "renamed"
  ELSE IF Exists(d, f) THEN ScanStatus(d, f)
  ELSE IF Missing(d, f) # {} /\ Missing(d, f) # Slice(f)
       THEN "corrupted" ELSE "missing"

\* Fault for testing: only the aligned offset is used.
AlignedPosition(d, f, i) == i

\* The offset recorded for a slice: the last one found in the last extra file
\* that has the block, else the last one found in the file itself, else the
\* aligned one.  The offset is kept without the file it was found in.
Position(d, f, i) ==
  LET block == Data[f][i]
      extras == {k \in ScannedExtras(d) : block \in ExtraBlocks(d, k)}
      own == {p \in OwnScan(d, f) : d[f][p] = block}
      last == d[Extras[Max(extras)]]
  IN  IF extras # {} THEN Max({p \in DOMAIN last : last[p] = block})
      ELSE IF own # {} THEN Max(own)
      ELSE i

VerificationComplete(d) == \A f \in File : Status(d, f) = "present"
=============================================================================
