-------------------------- MODULE Par2RepairProofs --------------------------
(***************************************************************************)
(* Theorems about the repair command, for any set of files, any contents,  *)
(* any number of failures, kills and reruns: what it leaves alone, what it *)
(* may say about the files it touched, and that restoring wrong-name files *)
(* loses nothing and leaves no exact copy of a damaged file unused.        *)
(***************************************************************************)
EXTENDS Par2RepairSeparate, FiniteSetTheorems, TLAPS

-----------------------------------------------------------------------------
(* The inductive invariant *)

Restoring == {"restore", "move", "copy", "remove"}
Writing == {"write", "stream", "publish", "check"}

\* What a process knows when it starts, and how fresh the last pass is.
ScanInv ==
  /\ pc = "scan" => restored = {}
  /\ pc \notin Writing \cup {"purge", "exit"} => repaired = {} /\ failed = {}
  /\ pc \in {"plan", "reconstruct"} => scanned = disk

\* The file whose turn it is, in the loop that writes.
Current(f) == IsFirst(f, todo)

\* A file waiting to be restored needs it, and its wrong-name copy is either
\* still what the first pass saw or gone.  While a file is copied from another
\* file system the copy it is made from is still there.
RestoreInv ==
  pc \in Restoring => \A f \in todo :
    /\ f \in Renamed(scanned)
    /\ f \notin restored \cup repaired
    /\ Plain(f) =>
         disk[f] # Data[f] \/ (pc \in {"copy", "remove"} /\ Current(f))
    /\ disk[MatchedPath(scanned, f)] \in {Data[f], Absent}
    /\ pc \in {"copy", "remove"} /\ Current(f) =>
         disk[MatchedPath(scanned, f)] = Data[f]
    /\ pc = "remove" /\ Current(f) => disk[f] = Data[f]

\* A file waiting to be rewritten is damaged until its temporary file, which
\* holds what was written, has replaced it.
WriteInv ==
  pc \in Writing =>
    /\ recon \in [MissingSlices(scanned) -> Cell]
    /\ \A f \in todo :
         /\ f \notin repaired
         /\ Plain(f) => /\ f \notin restored
                        /\ disk[f] # Data[f] \/ (pc = "check" /\ Current(f))
         /\ pc = "publish" /\ Current(f) => disk[Temp[f]] = out
         /\ pc = "check" /\ Current(f) =>
              disk[f] = out /\ ~Exists(disk, Temp[f])

\* Purge is only ever given paths that backups are made at.
BackupInv == backups \in Seq(BackupPaths)

\* A temporary file of a file already dealt with exists only while another
\* file that shares its path is being written.
TempInv ==
  \A f \in repaired \cup failed : Exists(disk, Temp[f]) =>
    /\ pc \in {"stream", "publish"}
    /\ \E g \in todo : Current(g) /\ Temp[g] = Temp[f]

IInv ==
  /\ TypeOK
  /\ ScanInv
  /\ RestoreInv
  /\ WriteInv
  /\ BackupInv
  /\ TempInv
  /\ MendedFilesAreWhole
-----------------------------------------------------------------------------
(* Lemmas about a verification pass *)

\* The protected content of a file is a content a path may have.
LEMMA DataIsContent ==
  ASSUME NEW f \in File
  PROVE  /\ Data[f] \in Seq(Block) /\ Data[f] \in Content
         /\ Data[f] # Absent /\ f \in Path
<1>1. Data[f] \in Seq(Block) /\ f \in Path
  BY SetAssumption
<1>2. Data[f] \in Seq(Cell)
  BY <1>1 DEF Cell
<1> QED
  BY <1>1, <1>2, SetAssumption DEF Content

\* Every cell of an intact file is found in it.
LEMMA IntactIsScanned ==
  ASSUME NEW d \in Disk, NEW f \in File, d[f] = Data[f]
  PROVE  OwnScan(d, f) = Slice(f)
<1>1. Exists(d, f) /\ DOMAIN d[f] = Slice(f)
  BY DataIsContent DEF Exists, Slice
<1>2. Data[f] \in Seq(Block)
  BY DataIsContent
<1>3. \A p \in Slice(f) : Data[f][p] \in Protected
  BY DEF Protected
<1>4. \A p \in Slice(f) : p <= Len(Data[f])
  BY <1>2 DEF Slice
<1>5. AlignedScan(d[f]) \subseteq Slice(f)
  BY <1>1 DEF AlignedScan
<1>6. Scan(d[f], Len(Data[f])) = Slice(f)
  BY <1>1, <1>3, <1>4, <1>5 DEF Scan
<1> QED
  BY <1>1, <1>6 DEF OwnScan

\* Each block of a plain file is listed for it, under its own number.
LEMMA PlainEntries ==
  ASSUME NEW f \in File, Plain(f), NEW i \in Slice(f)
  PROVE  /\ Entry(f, i, i)
         /\ \A B : Data[f][i] \in B => Has(f, i, B)
<1>1. Slice(f) = 1..Len(Data[f]) /\ Len(Data[f]) \in Nat
  BY DataIsContent DEF Slice
<1>2. {l \in Owned[f] : l < i} = 1..(i - 1)
  BY <1>1 DEF Plain
<1>3. Cardinality(1..(i - 1)) = i - 1
  <2>1. i \in Nat /\ 1 <= i
    BY <1>1
  <2> QED
    BY <2>1, FS_Interval
<1>4. Entry(f, i, i)
  BY <1>2, <1>3 DEF Entry, Plain
<1> QED
  BY <1>4 DEF Has

\* A plain file with a missing slice does not have its protected content.
LEMMA MissingIsDamaged ==
  ASSUME NEW d \in Disk, NEW f \in File, Plain(f), Missing(d, f) # {}
  PROVE  d[f] # Data[f]
<1> SUFFICES ASSUME d[f] = Data[f] PROVE FALSE
  OBVIOUS
<1>1. PICK i \in Slice(f) : ~Has(f, i, Available(d))
  BY DEF Missing
<1>2. Data[f][i] \in OwnBlocks(d, f)
  BY <1>1, IntactIsScanned DEF OwnBlocks
<1>3. OwnBlocks(d, f) \subseteq Available(d)
  BY DEF Available
<1> QED
  BY <1>1, <1>2, <1>3, PlainEntries

\* An intact plain file is recognised as such whenever the
\* full MD5 is computed.
LEMMA IntactIsPresent ==
  ASSUME NEW d \in Disk, NEW f \in File, d[f] = Data[f], Plain(f),
         ~SkipFullMd5
  PROVE  ScanStatus(d, f) = "present"
<1>1. OwnScan(d, f) = Slice(f)
  BY IntactIsScanned
<1>2. \A i \in Slice(f) : Has(f, i, OwnBlocks(d, f))
  BY <1>1, PlainEntries DEF OwnBlocks
<1>3. FoundBlocks(d, f) = {u \in Slice(f) \X Slice(f) : u[1] = u[2]}
  BY <1>1 DEF FoundBlocks, Plain
<1>4. Slice(f) = 1..Len(Data[f]) /\ Len(Data[f]) \in Nat
  BY DataIsContent DEF Slice
<1>5. InSequence(FoundBlocks(d, f))
  <2>1. \A u, v \in FoundBlocks(d, f) : u[2] = v[2] => u = v
    BY <1>3
  <2>2. \A u, v \in FoundBlocks(d, f) : u[2] < v[2] => u[1] <= v[1]
    BY <1>3, <1>4
  <2>3. ASSUME NEW u \in FoundBlocks(d, f), u[2] # 1
        PROVE  \E v \in FoundBlocks(d, f) : v[2] = u[2] - 1
    <3> DEFINE v == <<u[2] - 1, u[2] - 1>>
    <3>1. u[2] - 1 \in Slice(f)
      BY <1>3, <1>4, <2>3
    <3>2. v \in FoundBlocks(d, f) /\ v[2] = u[2] - 1
      BY <1>3, <3>1
    <3> QED
      BY <3>2
  <2> QED
    BY <2>1, <2>2, <2>3 DEF InSequence
<1>6. PerfectMatch(FoundBlocks(d, f))
  <2>1. CASE Slice(f) = {}
    BY <1>3, <2>1 DEF PerfectMatch
  <2>2. CASE Slice(f) # {}
    <3>1. 1 \in Slice(f)
      BY <1>4, <2>2
    <3>2. <<1, 1>> \in FoundBlocks(d, f)
      BY <1>3, <3>1
    <3> QED
      BY <3>2, <1>5 DEF PerfectMatch
  <2> QED
    BY <2>1, <2>2
<1>7. Exists(d, f)
  BY DataIsContent DEF Exists
<1> QED
  BY <1>2, <1>6, <1>7 DEF ScanStatus

\* A file is only matched to an extra path that has exactly its content, and
\* only if it needs one.
LEMMA MatchedHasData ==
  ASSUME NEW d \in Disk, NEW f \in Renamed(d)
  PROVE  /\ MatchedPath(d, f) \in ExtraPaths
         /\ MatchedPath(d, f) \in Path \ File
         /\ d[MatchedPath(d, f)] = Data[f]
         /\ f \in File
         /\ Plain(f) => d[f] # Data[f]
<1> DEFINE k == CHOOSE k \in DOMAIN Extras : MatchedExtra(d, f, k)
<1>1. f \in File /\ \E j \in DOMAIN Extras : MatchedExtra(d, f, j)
  BY DEF Renamed
<1>2. k \in DOMAIN Extras /\ MatchedExtra(d, f, k)
  BY <1>1
<1> HIDE DEF k
<1>3. d[Extras[k]] = Data[f] /\ CanUseRenamed(d, f)
  BY <1>2 DEF MatchedExtra
<1>4. Extras[k] \in ExtraPaths /\ Extras[k] \in Path
  BY <1>2, SetAssumption DEF ExtraPaths
<1>5. ~SkipFullMd5
  BY <1>2 DEF SkipFullMd5
<1>6. Plain(f) => d[f] # Data[f]
  BY <1>1, <1>3, <1>5, IntactIsPresent DEF CanUseRenamed
<1> QED
  BY <1>1, <1>3, <1>4, <1>6, SeparateAssumption DEF MatchedPath, k

\* Missing slices, by file and as a set.
LEMMA MissingSlicesMember ==
  ASSUME NEW d \in Disk
  PROVE  /\ \A s \in MissingSlices(d) : s[1] \in File /\ s[2] \in Slice(s[1])
         /\ \A f \in File : \A i \in Missing(d, f) :
              <<f, i>> \in MissingSlices(d)
         /\ MissingSlices(d) \subseteq Slices
<1>1. \A s \in Slices : s[1] \in File /\ s[2] \in Slice(s[1])
  BY DEF Slices
<1>2. \A f \in File : \A i \in Slice(f) : <<f, i>> \in Slices
  BY DEF Slices
<1> QED
  BY <1>1, <1>2 DEF MissingSlices, Missing

\* At most one file is the first of a set.
LEMMA FirstIsUnique ==
  ASSUME NEW S \in SUBSET File, NEW f \in File, NEW g \in File,
         IsFirst(f, S), IsFirst(g, S)
  PROVE  f = g
<1>1. Rank[f] \in Nat /\ Rank[g] \in Nat
  BY SetAssumption
<1>2. Rank[f] <= Rank[g] /\ Rank[g] <= Rank[f]
  BY DEF IsFirst
<1>3. Rank[f] = Rank[g]
  BY <1>1, <1>2
<1> QED
  BY <1>3, SetAssumption

-----------------------------------------------------------------------------
(* Lemmas about paths and the disk *)

\* Paths of one purpose are not paths of another.
LEMMA PathFacts ==
  /\ File \subseteq Path
  /\ \A f \in File : /\ Temp[f] \in Path /\ Temp[f] \notin File
                     /\ Temp[f] \notin ExtraPaths /\ Temp[f] \notin BackupPaths
  /\ BackupPaths \subseteq Path
  /\ BackupPaths \cap File = {} /\ BackupPaths \cap ExtraPaths = {}
  /\ \A f \in File : \A k \in DOMAIN Backup[f] : Backup[f][k] \in BackupPaths
<1>1. \A f \in File : Temp[f] \in TempPaths /\ Temp[f] \in Path
  BY RepairAssumption DEF TempPaths
<1>2. \A f \in File : Backup[f] \in Seq(Path)
  BY RepairAssumption
<1>3. \A f \in File : \A k \in DOMAIN Backup[f] : Backup[f][k] \in Path
  BY <1>2
<1>4. BackupPaths \subseteq Path
  BY <1>3 DEF BackupPaths
<1>5. \A f \in File : \A k \in DOMAIN Backup[f] : Backup[f][k] \in BackupPaths
  BY DEF BackupPaths
<1> QED
  BY <1>1, <1>4, <1>5, SetAssumption, SeparateAssumption

\* Writing to a path, and removing it, leave a disk.
LEMMA DiskUpdate ==
  ASSUME NEW d \in Disk, NEW p \in Path, NEW c \in Content \cup {Absent}
  PROVE  /\ [d EXCEPT ![p] = c] \in Disk
         /\ [d EXCEPT ![p] = c][p] = c
         /\ \A q \in Path \ {p} : [d EXCEPT ![p] = c][q] = d[q]
BY DEF Disk

\* A rename moves one content and leaves the other paths alone.
LEMMA DiskMove ==
  ASSUME NEW d \in Disk, NEW from \in Path, NEW to \in Path, from # to
  PROVE  /\ Move(d, from, to) \in Disk
         /\ Move(d, from, to)[to] = d[from]
         /\ Move(d, from, to)[from] = Absent
         /\ \A p \in Path \ {from, to} : Move(d, from, to)[p] = d[p]
<1>1. d[from] \in Content \cup {Absent}
  BY DEF Disk
<1> QED
  BY <1>1 DEF Disk, Move

\* The empty file is a content; the empty function reconstructs nothing.
LEMMA EmptyFacts ==
  /\ <<>> \in Content
  /\ <<>> \in Seq(BackupPaths) /\ <<>> \in Seq(Path)
  /\ <<>> \in UNION {[S -> Cell] : S \in SUBSET Slices}
<1>1. <<>> \in [{} -> Cell]
  OBVIOUS
<1>2. {} \in SUBSET Slices
  OBVIOUS
<1> QED
  BY <1>1, <1>2 DEF Content

\* A rank is least for some file of a non-empty set, so the moved path of a
\* restored file is an extra path and never a protected one.
LEMMA MovedPath ==
  ASSUME IInv, pc \in Restoring, NEW f \in todo
  PROVE  /\ f \in File
         /\ MatchedPath(scanned, f) \in ExtraPaths
         /\ MatchedPath(scanned, f) \in Path \ File
         /\ disk[MatchedPath(scanned, f)] \in {Data[f], Absent}
<1>1. f \in Renamed(scanned) /\ scanned \in Disk
  BY DEF IInv, RestoreInv, TypeOK
<1> QED
  BY <1>1, MatchedHasData DEF IInv, RestoreInv

-----------------------------------------------------------------------------
(* The invariant holds at first and is kept by every action *)

\* A command that stops knows what it knew.
LEMMA StopKeeps ==
  ASSUME IInv,
         UNCHANGED <<disk, todo, restored, backups, recon, out, repaired,
                     failed>>,
         pc \notin {"stream", "publish"}, pc' \in {"purge", "exit"},
         scanned' \in Disk, outcome' \in Outcomes, par2' \in BOOLEAN,
         faults' \in Nat, crashes' \in Nat, runs' \in Nat
  PROVE  IInv'
<1>1. TypeOK'
  BY DEF IInv, TypeOK, Steps
<1>2. ScanInv' /\ RestoreInv' /\ WriteInv'
  BY DEF IInv, ScanInv, RestoreInv, WriteInv, Restoring, Writing
<1>3. TempInv'
  BY DEF IInv, TempInv, Exists
<1> QED
  BY <1>1, <1>2, <1>3 DEF IInv, BackupInv, MendedFilesAreWhole

LEMMA StopResult ==
  ASSUME NEW result \in Outcomes, Stop(result)
  PROVE  outcome' \in Outcomes /\ pc' \in {"purge", "exit"}
BY DEF Stop

LEMMA InitHolds == Init => IInv
<1> SUFFICES ASSUME Init PROVE IInv
  OBVIOUS
<1>1. TypeOK
  BY EmptyFacts, RepairAssumption DEF Init, TypeOK, Disk, Steps, Outcomes
<1> QED
  BY <1>1, EmptyFacts
  DEF Init, IInv, ScanInv, RestoreInv, WriteInv, BackupInv, TempInv,
      MendedFilesAreWhole, Restoring, Writing

LEMMA FirstScanKeeps == ASSUME IInv, FirstScan PROVE IInv'
<1> USE DEF FirstScan
<1>1. disk \in Disk /\ Renamed(disk) \subseteq File
  BY DEF IInv, TypeOK, Renamed
<1>2. RenameOnlyResult(disk) \in Outcomes
  BY DEF RenameOnlyResult, Outcomes
<1>3. pc' \in {"restore", "plan", "purge", "exit"} /\ outcome' \in Outcomes
  BY <1>2, StopResult DEF IInv, TypeOK
<1>4. TypeOK'
  BY <1>1, <1>3 DEF IInv, TypeOK, Steps, bounds
<1>5. ScanInv' /\ WriteInv'
  BY <1>3 DEF IInv, ScanInv, WriteInv, Writing
<1>6. RestoreInv'
  BY <1>1, MatchedHasData DEF IInv, ScanInv, RestoreInv, Writing
<1>7. TempInv'
  BY DEF IInv, ScanInv, TempInv, Writing
<1> QED
  BY <1>4, <1>5, <1>6, <1>7 DEF IInv, BackupInv, MendedFilesAreWhole

LEMMA BackupTargetKeeps ==
  ASSUME IInv, NEW f \in File, BackupTarget(f)
  PROVE  IInv'
<1> USE DEF BackupTarget
<1>1. PICK k \in DOMAIN Backup[f] :
        /\ disk' = Move(disk, f, Backup[f][k])
        /\ backups' = Append(backups, Backup[f][k])
  OBVIOUS
<1> DEFINE p == Backup[f][k]
<1>2. p \in BackupPaths /\ p \in Path \ File /\ p \notin ExtraPaths /\ f \in Path
  BY PathFacts
<1> HIDE DEF p
<1>3. /\ disk \in Disk /\ disk' \in Disk
      /\ disk'[f] = Absent
      /\ \A q \in Path \ {f, p} : disk'[q] = disk[q]
  <2>1. disk \in Disk /\ f # p /\ disk' = Move(disk, f, p)
    BY <1>1, <1>2 DEF IInv, TypeOK, p
  <2> HIDE DEF BackupTarget
  <2>2. /\ Move(disk, f, p) \in Disk
        /\ Move(disk, f, p)[f] = Absent
        /\ \A q \in Path \ {f, p} : Move(disk, f, p)[q] = disk[q]
    BY <1>2, <2>1, DiskMove
  <2> QED
    BY <2>1, <2>2
<1>4. backups' \in Seq(BackupPaths) /\ backups' \in Seq(Path)
  BY <1>1, <1>2 DEF IInv, TypeOK, BackupInv, p
<1>5. TypeOK'
  BY <1>3, <1>4 DEF IInv, TypeOK, Steps, bounds
<1>6. ScanInv' /\ WriteInv'
  BY DEF IInv, ScanInv, WriteInv, Writing
<1>7. RestoreInv'
  <2>1. ASSUME NEW g \in todo
        PROVE  /\ disk'[MatchedPath(scanned, g)] \in {Data[g], Absent}
               /\ Plain(g) => disk'[g] # Data[g]
    <3>1. MatchedPath(scanned, g) \in Path \ {f, p}
      BY <1>2, MovedPath DEF Restoring
    <3>2. disk'[g] = disk[g] \/ g = f
      BY <1>2, <1>3, PathFacts DEF IInv, TypeOK
    <3> QED
      BY <1>3, <3>1, <3>2, MovedPath, DataIsContent
      DEF IInv, RestoreInv, Restoring
  <2> QED
    BY <2>1 DEF IInv, RestoreInv, Restoring
<1>8. TempInv'
  BY <1>2, <1>3, PathFacts DEF IInv, TempInv, TypeOK, Exists
<1>9. MendedFilesAreWhole'
  <2>1. f \notin restored \cup repaired
    BY DEF IInv, RestoreInv, Restoring, IsFirst
  <2> QED
    BY <1>2, <1>3, <2>1, PathFacts DEF IInv, MendedFilesAreWhole, TypeOK
<1> QED
  BY <1>4, <1>5, <1>6, <1>7, <1>8, <1>9 DEF IInv, BackupInv

\* What the loop that restores knows of the file whose turn it is.
LEMMA TurnFacts ==
  ASSUME IInv, NEW f \in File, IsFirst(f, todo), pc \in Restoring
  PROVE  /\ f \in todo /\ f \in Path /\ disk \in Disk
         /\ f \notin restored \cup repaired
         /\ MatchedPath(scanned, f) \in ExtraPaths
         /\ MatchedPath(scanned, f) \in Path \ File
         /\ disk[MatchedPath(scanned, f)] \in {Data[f], Absent}
         /\ \A g \in todo : g \in File /\ (IsFirst(g, todo) => g = f)
<1>1. f \in todo /\ todo \in SUBSET File /\ disk \in Disk
  BY DEF IsFirst, IInv, TypeOK
<1>2. \A g \in todo : IsFirst(g, todo) => g = f
  BY <1>1, FirstIsUnique
<1>3. f \notin restored \cup repaired
  BY <1>1 DEF IInv, RestoreInv
<1> QED
  BY <1>1, <1>2, <1>3, MovedPath, PathFacts

\* Writing to a target leaves the other targets, the temporary files and the
\* extra files as they are.
LEMMA TargetUpdate ==
  ASSUME NEW d \in Disk, NEW f \in File, NEW c \in Content \cup {Absent}
  PROVE  /\ [d EXCEPT ![f] = c] \in Disk
         /\ [d EXCEPT ![f] = c][f] = c
         /\ \A g \in File : g # f => [d EXCEPT ![f] = c][g] = d[g]
         /\ \A g \in File : [d EXCEPT ![f] = c][Temp[g]] = d[Temp[g]]
         /\ \A p \in Path \ File : [d EXCEPT ![f] = c][p] = d[p]
<1>1. f \in Path /\ \A g \in File : g \in Path /\ Temp[g] \in Path \ {f}
  BY PathFacts
<1>2. \A p \in Path \ File : p \in Path \ {f}
  OBVIOUS
<1> QED
  BY <1>1, <1>2, DiskUpdate

\* A restored file is whole, however it was moved; the matched path is gone.
LEMMA FileRestoredKeeps ==
  ASSUME IInv, NEW f \in File, IsFirst(f, todo), pc \in Restoring,
         FileRestored(f), disk' \in Disk, disk'[f] = Data[f],
         disk'[MatchedPath(scanned, f)] = Absent,
         \A q \in Path \ {f, MatchedPath(scanned, f)} : disk'[q] = disk[q],
         UNCHANGED <<par2, scanned, backups, recon, out, repaired, failed,
                     outcome, bounds>>
  PROVE  IInv'
<1> DEFINE p == MatchedPath(scanned, f)
<1>1. /\ f \in todo /\ f \in Path /\ p \in ExtraPaths /\ p \in Path \ File
      /\ todo' = todo \ {f} /\ restored' = restored \cup {f}
      /\ pc' \in {"rescan", "restore"}
      /\ \A g \in todo : IsFirst(g, todo) => g = f
  BY TurnFacts DEF FileRestored
<1>2. TypeOK'
  BY <1>1 DEF IInv, TypeOK, Steps, bounds
<1>3. ScanInv' /\ WriteInv'
  BY <1>1 DEF IInv, ScanInv, WriteInv, Writing, Restoring
<1>4. RestoreInv'
  <2>1. ASSUME NEW g \in todo, g # f
        PROVE  /\ disk'[MatchedPath(scanned, g)] \in {Data[g], Absent}
               /\ disk'[g] = disk[g] /\ (Plain(g) => disk[g] # Data[g])
    <3>1. /\ MatchedPath(scanned, g) \in Path \ {f}
          /\ disk[MatchedPath(scanned, g)] \in {Data[g], Absent}
          /\ g \in Path \ {f, p}
      BY <1>1, <2>1, MovedPath, PathFacts
    <3>2. Plain(g) => disk[g] # Data[g]
      BY <1>1, <2>1 DEF IInv, RestoreInv, Current
    <3> QED
      BY <3>1, <3>2
  <2> QED
    BY <1>1, <2>1 DEF IInv, RestoreInv
<1>5. TempInv'
  <2>1. \A g \in File : Temp[g] \in Path \ {f, p}
    BY <1>1, PathFacts
  <2> QED
    BY <1>1, <2>1 DEF IInv, TempInv, TypeOK, Exists, Restoring
<1>6. MendedFilesAreWhole'
  BY <1>1, PathFacts DEF IInv, MendedFilesAreWhole, TypeOK
<1> QED
  BY <1>2, <1>3, <1>4, <1>5, <1>6 DEF IInv, BackupInv

LEMMA MoveRenamedKeeps ==
  ASSUME IInv, NEW f \in File, MoveRenamed(f)
  PROVE  IInv'
<1> DEFINE p == MatchedPath(scanned, f)
<1>1. /\ pc \in Restoring /\ IsFirst(f, todo) /\ disk[p] # Absent
      /\ disk' = Move(disk, p, f) /\ FileRestored(f)
      /\ UNCHANGED <<par2, scanned, backups, recon, out, repaired, failed,
                     outcome, bounds>>
  BY DEF MoveRenamed, MoveReady, Restoring, Exists
<1>2. /\ disk \in Disk /\ f \in Path /\ p \in Path \ File /\ p # f
      /\ disk[p] = Data[f]
  BY <1>1, TurnFacts
<1> HIDE DEF p
<1>3. /\ disk' \in Disk /\ disk'[f] = Data[f] /\ disk'[p] = Absent
      /\ \A q \in Path \ {f, p} : disk'[q] = disk[q]
  <2>1. /\ Move(disk, p, f) \in Disk
        /\ Move(disk, p, f)[f] = disk[p]
        /\ Move(disk, p, f)[p] = Absent
        /\ \A q \in Path \ {f, p} : Move(disk, p, f)[q] = disk[q]
    BY <1>2, DiskMove
  <2> QED
    BY <1>1, <1>2, <2>1
<1> QED
  BY <1>1, <1>3, FileRestoredKeeps DEF p

\* A copy that is under way, or complete, of a file that is still there.
LEMMA CopyKeeps ==
  ASSUME IInv, NEW f \in File, OpenCopy(f) \/ CopyRenamed(f)
  PROVE  IInv'
<1> DEFINE p == MatchedPath(scanned, f)
           c == IF pc = "copy" THEN disk[p] ELSE <<>>
<1>1. /\ pc \in Restoring /\ IsFirst(f, todo)
      /\ disk' = [disk EXCEPT ![f] = c]
      /\ pc' = IF pc = "copy" THEN "remove" ELSE "copy"
      /\ pc = "copy" \/ disk[p] # Absent
      /\ UNCHANGED <<par2, memory, outcome, bounds>>
  BY DEF OpenCopy, CopyRenamed, MoveReady, Restoring, Exists
<1>2. /\ f \in todo /\ f \in Path /\ disk \in Disk /\ p \in Path \ File
      /\ f \notin restored \cup repaired
      /\ \A g \in todo : g \in File /\ (IsFirst(g, todo) => g = f)
      /\ disk[p] = Data[f]
  <2>1. pc = "copy" => disk[p] = Data[f]
    BY <1>1 DEF IInv, RestoreInv, Current, IsFirst
  <2> QED
    BY <1>1, <2>1, TurnFacts
<1>3. c \in Content \cup {Absent} /\ (pc = "copy" => c = Data[f])
  BY <1>2, EmptyFacts, DataIsContent
<1> HIDE DEF c, p
<1>4. /\ disk' \in Disk /\ disk'[f] = c
      /\ \A g \in File : g # f => disk'[g] = disk[g]
      /\ \A g \in File : disk'[Temp[g]] = disk[Temp[g]]
      /\ \A q \in Path \ File : disk'[q] = disk[q]
  <2>1. disk \in Disk /\ c \in Content \cup {Absent}
    BY <1>2, <1>3
  <2>2. /\ [disk EXCEPT ![f] = c] \in Disk
        /\ [disk EXCEPT ![f] = c][f] = c
        /\ \A g \in File : g # f => [disk EXCEPT ![f] = c][g] = disk[g]
        /\ \A g \in File : [disk EXCEPT ![f] = c][Temp[g]] = disk[Temp[g]]
        /\ \A q \in Path \ File : [disk EXCEPT ![f] = c][q] = disk[q]
    BY <2>1, TargetUpdate
  <2> QED
    BY <1>1, <2>2
<1>5. TypeOK'
  BY <1>1, <1>4 DEF IInv, TypeOK, Steps, memory, bounds
<1>6. ScanInv' /\ WriteInv'
  BY <1>1 DEF IInv, ScanInv, WriteInv, Writing, Restoring, memory
<1>7. RestoreInv'
  <2>1. ASSUME NEW g \in todo
        PROVE  /\ g \in Renamed(scanned) /\ g \notin restored \cup repaired
               /\ disk'[MatchedPath(scanned, g)] \in {Data[g], Absent}
               /\ disk'[MatchedPath(scanned, g)] = disk[MatchedPath(scanned, g)]
    BY <1>1, <1>4, <2>1, MovedPath DEF IInv, RestoreInv
  <2>2. ASSUME NEW g \in todo, g # f, Plain(g) PROVE disk'[g] # Data[g]
    BY <1>1, <1>2, <1>4, <2>2 DEF IInv, RestoreInv, Current
  <2>3. disk'[MatchedPath(scanned, f)] = Data[f]
    BY <1>2, <1>4 DEF p
  <2>4. pc' = "remove" => disk'[f] = Data[f]
    BY <1>1, <1>3, <1>4
  <2> QED
    BY <1>1, <1>2, <2>1, <2>2, <2>3, <2>4 DEF RestoreInv, Current, memory
<1>8. TempInv'
  BY <1>1, <1>4 DEF IInv, TempInv, TypeOK, Exists, Restoring, memory
<1>9. MendedFilesAreWhole'
  BY <1>1, <1>2, <1>4 DEF IInv, MendedFilesAreWhole, TypeOK, memory
<1> QED
  BY <1>1, <1>5, <1>6, <1>7, <1>8, <1>9 DEF IInv, BackupInv, memory

LEMMA RemoveCopiedKeeps ==
  ASSUME IInv, NEW f \in File, RemoveCopied(f)
  PROVE  IInv'
<1> DEFINE p == MatchedPath(scanned, f)
<1>1. /\ pc = "remove" /\ pc \in Restoring /\ IsFirst(f, todo)
      /\ disk' = [disk EXCEPT ![p] = Absent] /\ FileRestored(f)
      /\ UNCHANGED <<par2, scanned, backups, recon, out, repaired, failed,
                     outcome, bounds>>
  BY DEF RemoveCopied, Restoring
<1>2. /\ disk \in Disk /\ f \in todo /\ f \in Path /\ p \in Path \ File
  BY <1>1, TurnFacts
<1>3. disk[f] = Data[f]
  BY <1>1, <1>2 DEF IInv, RestoreInv, Current
<1> HIDE DEF p
<1>4. /\ disk' \in Disk /\ disk'[p] = Absent
      /\ \A q \in Path \ {p} : disk'[q] = disk[q]
  <2>1. Absent \in Content \cup {Absent}
    OBVIOUS
  <2>2. /\ [disk EXCEPT ![p] = Absent] \in Disk
        /\ [disk EXCEPT ![p] = Absent][p] = Absent
        /\ \A q \in Path \ {p} : [disk EXCEPT ![p] = Absent][q] = disk[q]
    BY <1>2, <2>1, DiskUpdate
  <2> QED
    BY <1>1, <2>2
<1>5. disk'[f] = Data[f] /\ f \in Path \ {p}
  BY <1>2, <1>3, <1>4
<1> QED
  BY <1>1, <1>4, <1>5, FileRestoredKeeps DEF p

LEMMA RestoreFailsKeeps ==
  ASSUME IInv, NEW f \in File, RestoreFails(f)
  PROVE  IInv'
<1>1. pc' \in {"purge", "exit"} /\ outcome' \in Outcomes
  BY StopResult DEF RestoreFails, Outcomes
<1>2. /\ faults' \in Nat /\ pc \in Restoring /\ IsFirst(f, todo)
      /\ UNCHANGED <<par2, memory, crashes, runs>>
  BY DEF RestoreFails, Fault, IInv, TypeOK, Restoring
<1>3. CASE pc # "copy"
  <2>1. UNCHANGED disk
    BY <1>3 DEF RestoreFails
  <2>2. pc \notin {"stream", "publish"}
    BY <1>2 DEF Restoring
  <2> QED
    BY <1>1, <1>2, <2>1, <2>2, StopKeeps DEF memory, IInv, TypeOK
<1>4. CASE pc = "copy"
  <2>1. /\ f \in todo /\ disk \in Disk /\ f \notin restored \cup repaired
        /\ disk' = [disk EXCEPT ![f] = Absent]
    BY <1>2, <1>4, TurnFacts DEF RestoreFails
  <2>2. /\ disk' \in Disk
        /\ \A g \in File : g # f => disk'[g] = disk[g]
        /\ \A g \in File : disk'[Temp[g]] = disk[Temp[g]]
    <3>1. Absent \in Content \cup {Absent}
      OBVIOUS
    <3>2. disk \in Disk
      BY <2>1
    <3>3. /\ [disk EXCEPT ![f] = Absent] \in Disk
          /\ \A g \in File : g # f => [disk EXCEPT ![f] = Absent][g] = disk[g]
          /\ \A g \in File :
               [disk EXCEPT ![f] = Absent][Temp[g]] = disk[Temp[g]]
      BY <3>1, <3>2, TargetUpdate
    <3> QED
      BY <2>1, <3>3
  <2>3. TypeOK'
    BY <1>1, <1>2, <2>2 DEF memory, IInv, TypeOK, Steps
  <2>4. ScanInv' /\ RestoreInv' /\ WriteInv'
    BY <1>1 DEF ScanInv, RestoreInv, WriteInv, Restoring, Writing
  <2>5. TempInv'
    BY <1>2, <1>4, <2>2 DEF memory, IInv, TempInv, TypeOK, Exists
  <2>6. MendedFilesAreWhole'
    BY <1>2, <2>1, <2>2 DEF memory, IInv, MendedFilesAreWhole, TypeOK
  <2> QED
    BY <1>2, <2>3, <2>4, <2>5, <2>6 DEF memory, IInv, BackupInv
<1> QED
  BY <1>3, <1>4

LEMMA SecondScanKeeps == ASSUME IInv, SecondScan PROVE IInv'
<1>1. RenameOnlyResult(disk) \in Outcomes
  BY DEF RenameOnlyResult, Outcomes
<1>2. pc' \in {"plan", "purge", "exit"} /\ outcome' \in Outcomes
  BY <1>1, StopResult DEF SecondScan, IInv, TypeOK, Outcomes
<1>3. TypeOK'
  BY <1>2 DEF SecondScan, IInv, TypeOK, Steps, bounds
<1>4. ScanInv' /\ RestoreInv' /\ WriteInv'
  BY <1>2 DEF SecondScan, IInv, ScanInv, RestoreInv, WriteInv, Restoring, Writing
<1>5. TempInv'
  BY DEF SecondScan, IInv, TempInv
<1> QED
  BY <1>3, <1>4, <1>5 DEF SecondScan, IInv, BackupInv, MendedFilesAreWhole

LEMMA PlanKeeps == ASSUME IInv, Plan PROVE IInv'
<1>1. CASE pc' = "reconstruct" /\ UNCHANGED outcome
  <2>1. TypeOK'
    BY <1>1 DEF Plan, memory, bounds, IInv, TypeOK, Steps
  <2>2. ScanInv' /\ RestoreInv' /\ WriteInv'
    BY <1>1 DEF Plan, memory, IInv, ScanInv, RestoreInv, WriteInv,
                Restoring, Writing
  <2>3. TempInv'
    BY <1>1 DEF Plan, memory, IInv, TempInv
  <2> QED
    BY <2>1, <2>2, <2>3 DEF Plan, memory, IInv, BackupInv, MendedFilesAreWhole
<1>2. CASE \E result \in Outcomes : Stop(result)
  BY <1>2, StopResult, StopKeeps DEF Plan, memory, bounds, IInv, TypeOK
<1>3. (pc' = "reconstruct" /\ UNCHANGED outcome)
        \/ (\E result \in Outcomes : Stop(result))
  BY DEF Plan, Outcomes
<1> QED
  BY <1>1, <1>2, <1>3

LEMMA ReconstructKeeps == ASSUME IInv, Reconstruct PROVE IInv'
<1>1. scanned = disk /\ disk \in Disk /\ pc' = "write"
      /\ todo' = FilesToRepair(disk)
  BY DEF Reconstruct, IInv, ScanInv, TypeOK
<1>2. \A f \in todo' : f \in File /\ (Plain(f) => disk[f] # Data[f])
  BY <1>1, MissingIsDamaged DEF FilesToRepair
<1>3. recon' \in [MissingSlices(scanned) -> Cell]
  BY DEF Reconstruct
<1>4. TypeOK'
  <2>1. recon' \in UNION {[S -> Cell] : S \in SUBSET Slices}
    BY <1>1, <1>3, MissingSlicesMember
  <2> QED
    BY <1>1, <1>2, <2>1 DEF Reconstruct, IInv, TypeOK, Steps, bounds
<1>5. ScanInv' /\ RestoreInv'
  BY <1>1 DEF IInv, ScanInv, RestoreInv, Restoring, Writing
<1>6. WriteInv'
  <2>1. UNCHANGED <<disk, scanned, restored, repaired>>
    BY DEF Reconstruct
  <2>2. \A f \in todo' : f \notin repaired /\ (Plain(f) => f \notin restored)
    BY <1>2 DEF Reconstruct, IInv, ScanInv, MendedFilesAreWhole, Writing
  <2> QED
    BY <1>1, <1>2, <1>3, <2>1, <2>2 DEF WriteInv
<1>7. TempInv'
  BY DEF Reconstruct, IInv, TempInv
<1> QED
  BY <1>4, <1>5, <1>6, <1>7
  DEF Reconstruct, IInv, BackupInv, MendedFilesAreWhole

LEMMA ReconstructFailsKeeps == ASSUME IInv, ReconstructFails PROVE IInv'
<1>1. pc' \in {"purge", "exit"} /\ outcome' \in Outcomes
  BY StopResult DEF ReconstructFails, Outcomes
<1>2. faults' \in Nat
  BY DEF ReconstructFails, Fault, IInv, TypeOK
<1> QED
  BY <1>1, <1>2, StopKeeps DEF ReconstructFails, memory, IInv, TypeOK

\* What the loop knows of the file whose turn it is.
LEMMA CurrentFacts ==
  ASSUME IInv, NEW f \in File, IsFirst(f, todo), pc \in Writing
  PROVE  /\ f \in todo /\ f \in Path /\ Temp[f] \in Path \ File
         /\ disk \in Disk
         /\ \A g \in todo : IsFirst(g, todo) => g = f
         /\ \A g \in todo : g # f =>
              g \in File /\ (Plain(g) => disk[g] # Data[g])
         /\ \A g \in repaired : g \in File /\ g # f /\ disk[g] = Data[g]
         /\ \A g \in restored :
              g \in File /\ (Plain(g) => g # f /\ disk[g] = Data[g])
<1>1. todo \in SUBSET File /\ disk \in Disk
  BY DEF IInv, TypeOK
<1>2. f \in todo
  BY DEF IsFirst
<1>3. \A g \in todo : IsFirst(g, todo) => g = f
  BY <1>1, FirstIsUnique
<1>4. \A g \in todo : g # f => g \in File /\ (Plain(g) => disk[g] # Data[g])
  BY <1>1, <1>3 DEF IInv, WriteInv, Current
<1>5. \A g \in repaired : g \in File /\ g # f /\ disk[g] = Data[g]
  BY <1>2 DEF IInv, WriteInv, MendedFilesAreWhole, TypeOK
<1>6. \A g \in restored : g \in File /\ (Plain(g) => g # f /\ disk[g] = Data[g])
  BY <1>2 DEF IInv, WriteInv, MendedFilesAreWhole, TypeOK
<1> QED
  BY <1>1, <1>2, <1>3, <1>4, <1>5, <1>6, PathFacts

\* Writing to the temporary path of the current file leaves protected files,
\* and the temporary paths of the others that do not share it, as they are.
LEMMA TempUpdate ==
  ASSUME NEW d \in Disk, NEW f \in File, NEW c \in Content \cup {Absent}
  PROVE  /\ [d EXCEPT ![Temp[f]] = c] \in Disk
         /\ [d EXCEPT ![Temp[f]] = c][Temp[f]] = c
         /\ \A g \in File : [d EXCEPT ![Temp[f]] = c][g] = d[g]
         /\ \A g \in File : Temp[g] # Temp[f] =>
              [d EXCEPT ![Temp[f]] = c][Temp[g]] = d[Temp[g]]
<1>1. Temp[f] \in Path /\ \A g \in File : g \in Path \ {Temp[f]}
  BY PathFacts
<1>2. \A g \in File : Temp[g] \in Path
  BY PathFacts
<1> QED
  BY <1>1, <1>2, DiskUpdate

LEMMA OpenTempKeeps ==
  ASSUME IInv, NEW f \in File, OpenTemp(f)
  PROVE  IInv'
<1>1. /\ pc = "write" /\ pc' = "stream" /\ IsFirst(f, todo) /\ out' = <<>>
      /\ disk' = [disk EXCEPT ![Temp[f]] = <<>>]
      /\ UNCHANGED <<par2, scanned, todo, restored, backups, recon, repaired,
                     failed, outcome, bounds>>
  BY DEF OpenTemp
<1>2. /\ f \in todo /\ disk \in Disk
      /\ \A g \in repaired : g \in File /\ disk[g] = Data[g]
      /\ \A g \in restored : g \in File /\ (Plain(g) => disk[g] = Data[g])
      /\ todo \subseteq File
  BY <1>1, CurrentFacts DEF Writing, IInv, TypeOK
<1>3. /\ [disk EXCEPT ![Temp[f]] = <<>>] \in Disk
      /\ \A g \in File : [disk EXCEPT ![Temp[f]] = <<>>][g] = disk[g]
      /\ \A g \in File : Temp[g] # Temp[f] =>
           [disk EXCEPT ![Temp[f]] = <<>>][Temp[g]] = disk[Temp[g]]
  BY <1>2, EmptyFacts, TempUpdate
<1>4. TypeOK'
  BY <1>1, <1>3, EmptyFacts DEF IInv, TypeOK, Steps, bounds
<1>5. ScanInv' /\ RestoreInv'
  BY <1>1 DEF IInv, ScanInv, RestoreInv, Restoring, Writing
<1>6. WriteInv'
  <2>1. recon \in [MissingSlices(scanned) -> Cell]
    BY <1>1 DEF IInv, WriteInv, Writing
  <2>2. ASSUME NEW g \in todo
        PROVE  /\ g \notin repaired
               /\ Plain(g) => g \notin restored /\ disk'[g] # Data[g]
    BY <1>1, <1>2, <1>3 DEF IInv, WriteInv, Writing
  <2> QED
    BY <1>1, <2>1, <2>2 DEF WriteInv
<1>7. TempInv'
  <2>1. \A g \in repaired \cup failed : g \in File /\ ~Exists(disk, Temp[g])
    BY <1>1 DEF IInv, TempInv, TypeOK
  <2>2. \A g \in repaired \cup failed :
          disk'[Temp[g]] # Absent => Temp[f] = Temp[g]
    BY <1>1, <1>3, <2>1 DEF Exists
  <2> QED
    BY <1>1, <1>2, <2>2 DEF TempInv, Exists, Current
<1>8. MendedFilesAreWhole'
  BY <1>1, <1>2, <1>3 DEF MendedFilesAreWhole
<1> QED
  BY <1>1, <1>4, <1>5, <1>6, <1>7, <1>8 DEF IInv, BackupInv

LEMMA WriteCellKeeps ==
  ASSUME IInv, NEW f \in File, NEW c \in Cell, WriteCell(f, c), pc = "stream"
  PROVE  IInv'
<1>1. out' \in Content
  BY DEF WriteCell, IInv, TypeOK, Content
<1>2. TypeOK'
  BY <1>1 DEF WriteCell, IInv, TypeOK, bounds
<1>3. ScanInv' /\ RestoreInv'
  BY DEF WriteCell, IInv, ScanInv, RestoreInv, Restoring, Writing
<1>4. WriteInv'
  BY DEF WriteCell, IInv, WriteInv, Current
<1>5. TempInv'
  BY DEF WriteCell, IInv, TempInv, Current
<1> QED
  BY <1>2, <1>3, <1>4, <1>5
  DEF WriteCell, IInv, BackupInv, MendedFilesAreWhole

LEMMA WriteSliceKeeps ==
  ASSUME IInv, NEW f \in File, NEW i \in Slice(f),
         WriteReconstructed(f, i) \/ WriteSourced(f, i)
  PROVE  IInv'
<1>1. CASE WriteReconstructed(f, i)
  <2>1. <<f, i>> \in MissingSlices(scanned)
    BY <1>1, MissingSlicesMember DEF WriteReconstructed, IInv, TypeOK
  <2>2. pc = "stream" /\ recon \in [MissingSlices(scanned) -> Cell]
    BY <1>1 DEF WriteReconstructed, NextSlice, IInv, WriteInv, Writing
  <2> QED
    BY <1>1, <2>1, <2>2, WriteCellKeeps DEF WriteReconstructed
<1>2. CASE WriteSourced(f, i)
  <2>1. /\ pc = "stream" /\ disk[f] # Absent
        /\ Position(scanned, f, i) \in DOMAIN disk[f]
    BY <1>2 DEF WriteSourced, NextSlice, CanRead, Exists
  <2>2. disk[f] \in Seq(Cell)
    BY <2>1, PathFacts DEF IInv, TypeOK, Disk, Content
  <2>3. disk[f][Position(scanned, f, i)] \in Cell
    BY <2>1, <2>2
  <2> QED
    BY <1>2, <2>1, <2>3, WriteCellKeeps DEF WriteSourced
<1> QED
  BY <1>1, <1>2

LEMMA FlushTempKeeps ==
  ASSUME IInv, NEW f \in File, FlushTemp(f)
  PROVE  IInv'
<1>1. /\ pc = "stream" /\ pc' = "publish" /\ IsFirst(f, todo)
      /\ disk' = [disk EXCEPT ![Temp[f]] = out]
      /\ UNCHANGED <<par2, scanned, todo, restored, backups, recon, out,
                     repaired, failed, outcome, bounds>>
  BY DEF FlushTemp, memory
<1>2. /\ f \in todo /\ disk \in Disk /\ out \in Content
      /\ \A g \in repaired : g \in File /\ disk[g] = Data[g]
      /\ \A g \in restored : g \in File /\ (Plain(g) => disk[g] = Data[g])
      /\ todo \subseteq File
      /\ \A g \in todo : IsFirst(g, todo) => g = f
  BY <1>1, CurrentFacts DEF Writing, IInv, TypeOK
<1>3. /\ [disk EXCEPT ![Temp[f]] = out] \in Disk
      /\ [disk EXCEPT ![Temp[f]] = out][Temp[f]] = out
      /\ \A g \in File : [disk EXCEPT ![Temp[f]] = out][g] = disk[g]
      /\ \A g \in File : Temp[g] # Temp[f] =>
           [disk EXCEPT ![Temp[f]] = out][Temp[g]] = disk[Temp[g]]
  BY <1>2, TempUpdate
<1>4. TypeOK'
  BY <1>1, <1>3 DEF IInv, TypeOK, Steps, bounds
<1>5. ScanInv' /\ RestoreInv'
  BY <1>1 DEF IInv, ScanInv, RestoreInv, Restoring, Writing
<1>6. WriteInv'
  <2>1. recon \in [MissingSlices(scanned) -> Cell]
    BY <1>1 DEF IInv, WriteInv, Writing
  <2>2. ASSUME NEW g \in todo
        PROVE  /\ g \notin repaired
               /\ Plain(g) => g \notin restored /\ disk'[g] # Data[g]
    BY <1>1, <1>2, <1>3 DEF IInv, WriteInv, Writing
  <2>3. ASSUME NEW g \in todo, Current(g) PROVE disk'[Temp[g]] = out
    BY <1>1, <1>2, <1>3, <2>3 DEF Current
  <2> QED
    BY <1>1, <2>1, <2>2, <2>3 DEF WriteInv, Current
<1>7. TempInv'
  <2>1. \A g \in repaired \cup failed :
          g \in File /\ (Exists(disk, Temp[g]) => Temp[g] = Temp[f])
    BY <1>1, <1>2 DEF IInv, TempInv, TypeOK, Current
  <2>2. \A g \in repaired \cup failed :
          disk'[Temp[g]] # Absent => Temp[f] = Temp[g]
    BY <1>1, <1>3, <2>1 DEF Exists
  <2> QED
    BY <1>1, <1>2, <2>2 DEF TempInv, Exists, Current
<1>8. MendedFilesAreWhole'
  BY <1>1, <1>2, <1>3 DEF MendedFilesAreWhole
<1> QED
  BY <1>1, <1>4, <1>5, <1>6, <1>7, <1>8 DEF IInv, BackupInv

LEMMA PublishKeeps ==
  ASSUME IInv, NEW f \in File, Publish(f)
  PROVE  IInv'
<1>1. /\ pc = "publish" /\ pc' = "check" /\ IsFirst(f, todo)
      /\ disk' = Move(disk, Temp[f], f)
      /\ UNCHANGED <<par2, scanned, todo, restored, backups, recon, out,
                     repaired, failed, outcome, bounds>>
  BY DEF Publish, memory
<1>2. /\ f \in todo /\ disk \in Disk /\ f \in Path /\ Temp[f] \in Path \ File
      /\ \A g \in repaired : g \in File /\ g # f /\ disk[g] = Data[g]
      /\ \A g \in restored :
           g \in File /\ (Plain(g) => g # f /\ disk[g] = Data[g])
      /\ todo \subseteq File
      /\ \A g \in todo : IsFirst(g, todo) => g = f
      /\ \A g \in todo : g # f /\ Plain(g) => disk[g] # Data[g]
  BY <1>1, CurrentFacts DEF Writing, IInv, TypeOK
<1>3. /\ Move(disk, Temp[f], f) \in Disk
      /\ Move(disk, Temp[f], f)[f] = disk[Temp[f]]
      /\ Move(disk, Temp[f], f)[Temp[f]] = Absent
      /\ \A p \in Path \ {f, Temp[f]} : Move(disk, Temp[f], f)[p] = disk[p]
  <2>1. Temp[f] # f
    BY <1>2
  <2> QED
    BY <1>2, <2>1, DiskMove
<1>4. /\ disk[Temp[f]] = out /\ recon \in [MissingSlices(scanned) -> Cell]
      /\ \A g \in todo : g \notin repaired /\ (Plain(g) => g \notin restored)
  BY <1>1, <1>2 DEF IInv, WriteInv, Writing, Current
<1>5. \A g \in File : g # f => disk'[g] = disk[g]
  <2>1. \A g \in File : g # f => g \in Path \ {f, Temp[f]}
    BY <1>2, PathFacts
  <2> QED
    BY <1>1, <1>3, <2>1
<1>6. TypeOK'
  BY <1>1, <1>3 DEF IInv, TypeOK, Steps, bounds
<1>7. ScanInv' /\ RestoreInv'
  BY <1>1 DEF IInv, ScanInv, RestoreInv, Restoring, Writing
<1>8. WriteInv'
  BY <1>1, <1>2, <1>3, <1>4, <1>5 DEF WriteInv, Current, Exists
<1>9. TempInv'
  <2>1. \A g \in repaired \cup failed :
          g \in File /\ (Exists(disk, Temp[g]) => Temp[g] = Temp[f])
    BY <1>1, <1>2 DEF IInv, TempInv, TypeOK, Current
  <2>2. \A g \in File : Temp[g] # Temp[f] => Temp[g] \in Path \ {f, Temp[f]}
    BY PathFacts
  <2>3. \A g \in repaired \cup failed : disk'[Temp[g]] = Absent
    BY <1>1, <1>3, <2>1, <2>2 DEF Exists
  <2> QED
    BY <1>1, <2>3 DEF TempInv, Exists
<1>10. MendedFilesAreWhole'
  BY <1>1, <1>2, <1>5 DEF MendedFilesAreWhole
<1> QED
  BY <1>1, <1>6, <1>7, <1>8, <1>9, <1>10 DEF IInv, BackupInv

LEMMA CheckMd5Keeps ==
  ASSUME IInv, NEW f \in File, CheckMd5(f)
  PROVE  IInv'
<1>1. /\ pc = "check" /\ pc' = "write" /\ IsFirst(f, todo)
      /\ todo' = todo \ {f}
      /\ UNCHANGED <<disk, par2, scanned, restored, backups, recon, out,
                     outcome, bounds>>
  BY DEF CheckMd5
<1>2. /\ disk[f] = out /\ ~Exists(disk, Temp[f])
      /\ recon \in [MissingSlices(scanned) -> Cell]
      /\ \A g \in todo : g \notin repaired /\ (Plain(g) => g \notin restored)
      /\ \A g \in todo : g # f /\ Plain(g) => disk[g] # Data[g]
  BY <1>1, CurrentFacts DEF IInv, WriteInv, Writing, Current
<1>3. /\ repaired' \subseteq repaired \cup {f} /\ failed' \subseteq failed \cup {f}
      /\ f \in repaired' \ repaired => out = Data[f]
  BY DEF CheckMd5
<1>4. TypeOK'
  BY <1>1, <1>3 DEF IInv, TypeOK, Steps, bounds
<1>5. ScanInv' /\ RestoreInv'
  BY <1>1 DEF IInv, ScanInv, RestoreInv, Restoring, Writing
<1>6. WriteInv'
  BY <1>1, <1>2, <1>3 DEF WriteInv
<1>7. TempInv'
  BY <1>1, <1>2, <1>3 DEF IInv, TempInv
<1>8. MendedFilesAreWhole'
  BY <1>1, <1>2, <1>3 DEF IInv, MendedFilesAreWhole
<1> QED
  BY <1>1, <1>4, <1>5, <1>6, <1>7, <1>8 DEF IInv, BackupInv

LEMMA WriteFailsKeeps ==
  ASSUME IInv, NEW f \in File, WriteFails(f)
  PROVE  IInv'
<1>1. /\ pc \in {"write", "stream", "publish"} /\ pc' = "write"
      /\ IsFirst(f, todo)
      /\ disk' = [disk EXCEPT ![Temp[f]] = Absent]
      /\ failed' = failed \cup {f} /\ todo' = todo \ {f}
      /\ UNCHANGED <<par2, scanned, restored, backups, recon, out, repaired,
                     outcome, crashes, runs>>
  BY DEF WriteFails
<1>2. /\ disk \in Disk /\ todo \subseteq File
      /\ \A g \in repaired : g \in File /\ disk[g] = Data[g]
      /\ \A g \in restored : g \in File /\ (Plain(g) => disk[g] = Data[g])
      /\ \A g \in todo : IsFirst(g, todo) => g = f
      /\ \A g \in todo : g # f /\ Plain(g) => disk[g] # Data[g]
  BY <1>1, CurrentFacts DEF Writing, IInv, TypeOK
<1>3. /\ [disk EXCEPT ![Temp[f]] = Absent] \in Disk
      /\ [disk EXCEPT ![Temp[f]] = Absent][Temp[f]] = Absent
      /\ \A g \in File : [disk EXCEPT ![Temp[f]] = Absent][g] = disk[g]
      /\ \A g \in File : Temp[g] # Temp[f] =>
           [disk EXCEPT ![Temp[f]] = Absent][Temp[g]] = disk[Temp[g]]
  BY <1>2, TempUpdate
<1>4. /\ recon \in [MissingSlices(scanned) -> Cell]
      /\ \A g \in todo : g \notin repaired /\ (Plain(g) => g \notin restored)
  BY <1>1 DEF IInv, WriteInv, Writing
<1>5. TypeOK'
  <2>1. faults' \in Nat
    BY DEF WriteFails, Fault, IInv, TypeOK
  <2> QED
    BY <1>1, <1>3, <2>1 DEF IInv, TypeOK, Steps
<1>6. ScanInv' /\ RestoreInv'
  BY <1>1 DEF IInv, ScanInv, RestoreInv, Restoring, Writing
<1>7. WriteInv'
  BY <1>1, <1>2, <1>3, <1>4 DEF WriteInv
<1>8. TempInv'
  <2>1. \A g \in repaired \cup failed :
          g \in File /\ (Exists(disk, Temp[g]) => Temp[g] = Temp[f])
    BY <1>1, <1>2 DEF IInv, TempInv, TypeOK, Current
  <2>2. \A g \in repaired \cup failed \cup {f} : disk'[Temp[g]] = Absent
    BY <1>1, <1>3, <2>1 DEF Exists
  <2> QED
    BY <1>1, <2>2 DEF TempInv, Exists
<1>9. MendedFilesAreWhole'
  BY <1>1, <1>2, <1>3 DEF MendedFilesAreWhole
<1> QED
  BY <1>1, <1>5, <1>6, <1>7, <1>8, <1>9 DEF IInv, BackupInv

LEMMA FinishKeeps == ASSUME IInv, Finish PROVE IInv'
<1>1. pc' \in {"purge", "exit"} /\ outcome' \in Outcomes
  BY StopResult DEF Finish, Outcomes
<1> QED
  BY <1>1, StopKeeps DEF Finish, memory, bounds, IInv, TypeOK

LEMMA PurgeBackupKeeps == ASSUME IInv, PurgeBackup PROVE IInv'
<1>1. /\ pc = "purge" /\ pc' = "purge" /\ backups # <<>>
      /\ disk' = [disk EXCEPT ![Head(backups)] = Absent]
      /\ backups' = Tail(backups)
      /\ UNCHANGED <<par2, scanned, todo, restored, recon, out, repaired,
                     failed, outcome, bounds>>
  BY DEF PurgeBackup
<1>2. backups \in Seq(BackupPaths) /\ backups \in Seq(Path) /\ disk \in Disk
  BY DEF IInv, BackupInv, TypeOK
<1>3. Head(backups) \in BackupPaths /\ Head(backups) \in Path
  BY <1>1, <1>2
<1>4. backups' \in Seq(BackupPaths) /\ backups' \in Seq(Path)
  BY <1>1, <1>2
<1>5. disk' \in Disk /\ \A q \in Path \ {Head(backups)} : disk'[q] = disk[q]
  <2>1. PICK p \in Path : p = Head(backups)
    BY <1>3
  <2>2. Absent \in Content \cup {Absent}
    OBVIOUS
  <2>3. /\ [disk EXCEPT ![p] = Absent] \in Disk
        /\ \A q \in Path \ {p} : [disk EXCEPT ![p] = Absent][q] = disk[q]
    BY <1>2, <2>2, DiskUpdate
  <2> QED
    BY <1>1, <2>1, <2>3
<1>6. \A g \in File : /\ g \in Path \ {Head(backups)}
                      /\ Temp[g] \in Path \ {Head(backups)}
  BY <1>3, PathFacts
<1>7. TypeOK'
  BY <1>1, <1>4, <1>5 DEF IInv, TypeOK, bounds
<1>8. ScanInv' /\ RestoreInv' /\ WriteInv'
  BY <1>1 DEF IInv, ScanInv, RestoreInv, WriteInv, Restoring, Writing
<1>9. TempInv'
  BY <1>1, <1>5, <1>6 DEF IInv, TempInv, TypeOK, Exists
<1>10. MendedFilesAreWhole'
  BY <1>1, <1>5, <1>6 DEF IInv, MendedFilesAreWhole, TypeOK
<1> QED
  BY <1>4, <1>7, <1>8, <1>9, <1>10 DEF IInv, BackupInv

LEMMA PurgeSetKeeps == ASSUME IInv, PurgeSet PROVE IInv'
<1>1. TypeOK'
  BY DEF PurgeSet, memory, bounds, IInv, TypeOK
<1> QED
  BY <1>1
  DEF PurgeSet, memory, IInv, ScanInv, RestoreInv, WriteInv, BackupInv, TempInv,
      MendedFilesAreWhole, Restoring, Writing

LEMMA PurgeRestKeeps == ASSUME IInv, PurgeRest PROVE IInv'
BY StopKeeps DEF PurgeRest, memory, bounds, IInv, TypeOK

LEMMA PurgeFailsKeeps == ASSUME IInv, PurgeFails PROVE IInv'
<1>1. faults' \in Nat /\ par2' \in BOOLEAN
  BY DEF PurgeFails, Fault, IInv, TypeOK
<1>2. outcome' \in Outcomes
  BY DEF PurgeFails, Outcomes
<1> QED
  BY <1>1, <1>2, StopKeeps DEF PurgeFails, memory, IInv, TypeOK

LEMMA CrashKeeps == ASSUME IInv, Crash PROVE IInv'
<1>1. pc' = "crashed" /\ NewProcess /\ crashes' \in Nat
      /\ UNCHANGED <<par2, scanned, faults, runs>>
  BY DEF Crash, IInv, TypeOK
<1>2. disk' \in Disk
  <2>1. CASE pc = "stream"
    <3>1. PICK f \in File, n \in 0..Len(out) :
            disk' = [disk EXCEPT ![Temp[f]] = SubSeq(out, 1, n)]
      BY <2>1 DEF Crash, PartlyWritten
    <3>2. SubSeq(out, 1, n) \in Content
      BY DEF IInv, TypeOK, Content
    <3> QED
      BY <3>1, <3>2, TempUpdate DEF IInv, TypeOK
  <2>2. CASE pc = "copy"
    <3>1. PICK f \in File : /\ IsFirst(f, todo)
                            /\ PartlyWritten(f, disk[MatchedPath(scanned, f)])
      BY <2>2 DEF Crash
    <3>2. disk[MatchedPath(scanned, f)] = Data[f]
      BY <2>2, <3>1 DEF IInv, RestoreInv, Restoring, Current, IsFirst
    <3>3. PICK n \in 0..Len(Data[f]) :
            disk' = [disk EXCEPT ![f] = SubSeq(Data[f], 1, n)]
      BY <3>1, <3>2 DEF PartlyWritten
    <3>4. SubSeq(Data[f], 1, n) \in Content
      BY DataIsContent DEF Content
    <3> QED
      BY <3>3, <3>4, TargetUpdate DEF IInv, TypeOK
  <2>3. CASE pc \notin {"stream", "copy"}
    BY <2>3 DEF Crash, IInv, TypeOK
  <2> QED
    BY <2>1, <2>2, <2>3
<1>3. TypeOK'
  BY <1>1, <1>2, EmptyFacts DEF NewProcess, IInv, TypeOK, Steps, Outcomes
<1> QED
  BY <1>1, <1>3, EmptyFacts
  DEF NewProcess, IInv, ScanInv, RestoreInv, WriteInv, BackupInv, TempInv,
      MendedFilesAreWhole, Restoring, Writing

LEMMA RerunKeeps == ASSUME IInv, Rerun PROVE IInv'
<1>1. TypeOK'
  <2>1. runs' \in Nat
    BY DEF Rerun, IInv, TypeOK
  <2>2. UNCHANGED <<disk, par2, scanned, faults, crashes>> /\ NewProcess
    BY DEF Rerun
  <2>3. pc' \in Steps
    BY DEF Rerun, Steps
  <2> QED
    BY <2>1, <2>2, <2>3, EmptyFacts DEF NewProcess, IInv, TypeOK, Outcomes
<1> QED
  BY <1>1, EmptyFacts
  DEF Rerun, NewProcess, IInv, ScanInv, RestoreInv, WriteInv, BackupInv,
      TempInv, MendedFilesAreWhole, Restoring, Writing

LEMMA RestoreKeeps ==
  ASSUME IInv, NEW f \in File, Restore(f)
  PROVE  IInv'
BY BackupTargetKeeps, MoveRenamedKeeps, CopyKeeps, RemoveCopiedKeeps,
   RestoreFailsKeeps
DEF Restore

LEMMA WriteKeeps ==
  ASSUME IInv, NEW f \in File, Write(f)
  PROVE  IInv'
BY OpenTempKeeps, WriteSliceKeeps, FlushTempKeeps, PublishKeeps, CheckMd5Keeps,
   WriteFailsKeeps
DEF Write

LEMMA NextKeeps == ASSUME IInv, [Next]_vars PROVE IInv'
<1>1. CASE Step
  BY <1>1, FirstScanKeeps, SecondScanKeeps, PlanKeeps, ReconstructKeeps,
     ReconstructFailsKeeps, RestoreKeeps, WriteKeeps, FinishKeeps,
     PurgeBackupKeeps, PurgeSetKeeps, PurgeRestKeeps, PurgeFailsKeeps
  DEF Step
<1>2. CASE Crash
  BY <1>2, CrashKeeps
<1>3. CASE Rerun
  BY <1>3, RerunKeeps
<1>4. CASE UNCHANGED vars
  BY <1>4 DEF vars, memory, bounds, IInv, TypeOK, ScanInv, RestoreInv,
              WriteInv, BackupInv, TempInv, MendedFilesAreWhole, Current
<1> QED
  BY <1>1, <1>2, <1>3, <1>4 DEF Next

LEMMA AlwaysIInv == Spec => []IInv
BY InitHolds, NextKeeps, PTL DEF Spec

-----------------------------------------------------------------------------
(* What follows from it *)

\* Every variable has its type in every state, whatever fails.
THEOREM TypeCorrect == Spec => []TypeOK
<1>1. IInv => TypeOK
  BY DEF IInv
<1> QED
  BY <1>1, AlwaysIInv, PTL

\* A file counted as restored or as repaired has its protected content on
\* disk, from then on until the command ends.
THEOREM MendedWhole == Spec => []MendedFilesAreWhole
<1>1. IInv => MendedFilesAreWhole
  BY DEF IInv
<1> QED
  BY <1>1, AlwaysIInv, PTL

\* No temporary file of a file the command dealt with is left when the
\* command purges or ends, also when files share a temporary path.
THEOREM NoTempLeft == Spec => []TempFilesRemoved
<1>1. IInv => TempFilesRemoved
  BY DEF IInv, TempInv, TempFilesRemoved
<1> QED
  BY <1>1, AlwaysIInv, PTL

\* One step leaves an intact file alone.
LEMMA IntactFileStays ==
  ASSUME IInv, [Next]_vars, NEW f \in File, Plain(f), disk[f] = Data[f],
         ~Copying(f)
  PROVE  disk'[f] = Data[f]
<1>1. f \in Path /\ disk \in Disk
  BY PathFacts DEF IInv, TypeOK
<1>2. ASSUME NEW g \in File, BackupTarget(g) PROVE disk'[f] = disk[f]
  <2>1. PICK k \in DOMAIN Backup[g] : disk' = Move(disk, g, Backup[g][k])
    BY <1>2 DEF BackupTarget
  <2>2. /\ Backup[g][k] \in Path \ File /\ g \in Path /\ g # Backup[g][k]
        /\ f # Backup[g][k]
    BY PathFacts
  <2>3. f # g
    BY <1>2 DEF BackupTarget, IsFirst, IInv, RestoreInv, Restoring
  <2> QED
    BY <1>1, <2>1, <2>2, <2>3 DEF Move, Disk
<1>3. ASSUME NEW g \in File, MoveRenamed(g) PROVE disk'[f] = disk[f]
  <2> DEFINE p == MatchedPath(scanned, g)
  <2>1. /\ g \in todo /\ pc \in Restoring /\ pc \notin {"copy", "remove"}
        /\ disk' = Move(disk, p, g)
    BY <1>3 DEF MoveRenamed, MoveReady, IsFirst, Restoring
  <2>2. p \in Path \ File
    BY <2>1, MovedPath
  <2> HIDE DEF p
  <2>3. f # g /\ f # p
    BY <2>1, <2>2 DEF IInv, RestoreInv
  <2> QED
    BY <1>1, <2>1, <2>3 DEF Move, Disk
<1>11. ASSUME NEW g \in File, OpenCopy(g) \/ CopyRenamed(g) \/ RemoveCopied(g)
       PROVE  disk'[f] = disk[f]
  <2> DEFINE p == MatchedPath(scanned, g)
  <2>1. g \in todo /\ pc \in Restoring /\ IsFirst(g, todo)
    BY <1>11 DEF OpenCopy, CopyRenamed, RemoveCopied, MoveReady, IsFirst,
                 Restoring
  <2>2. p \in Path \ File
    BY <2>1, MovedPath
  <2> HIDE DEF p
  <2>3. CASE OpenCopy(g)
    <3>1. f # g
      BY <2>1, <2>3 DEF OpenCopy, MoveReady, IInv, RestoreInv
    <3> QED
      BY <1>1, <2>3, <3>1 DEF OpenCopy, Disk
  <2>4. CASE CopyRenamed(g)
    <3>1. f # g
      BY <2>4 DEF CopyRenamed, Copying
    <3> QED
      BY <1>1, <2>4, <3>1 DEF CopyRenamed, Disk
  <2>5. CASE RemoveCopied(g)
    BY <1>1, <2>2, <2>5 DEF RemoveCopied, Disk, p
  <2> QED
    BY <1>11, <2>3, <2>4, <2>5
<1>12. ASSUME NEW g \in File, RestoreFails(g) PROVE disk'[f] = disk[f]
  <2>1. f # g \/ pc # "copy"
    BY <1>12 DEF RestoreFails, Copying
  <2> QED
    BY <1>1, <1>12, <2>1 DEF RestoreFails, Disk
<1>4. ASSUME NEW g \in File, NEW c, disk' = [disk EXCEPT ![Temp[g]] = c]
      PROVE  disk'[f] = disk[f]
  <2>1. f # Temp[g]
    BY PathFacts
  <2> QED
    BY <1>1, <1>4, <2>1 DEF Disk
<1>5. ASSUME NEW g \in File, Publish(g) PROVE disk'[f] = disk[f]
  <2>1. /\ pc = "publish" /\ IsFirst(g, todo)
        /\ disk' = Move(disk, Temp[g], g)
    BY <1>5 DEF Publish
  <2>2. g \in todo /\ (Plain(g) => disk[g] # Data[g])
    BY <2>1 DEF IInv, WriteInv, Writing, IsFirst
  <2>3. f # g /\ f # Temp[g]
    BY <2>2, PathFacts
  <2> QED
    BY <1>1, <2>1, <2>3 DEF Move, Disk
<1>6. CASE PurgeBackup
  <2>1. Head(backups) \in BackupPaths
    BY <1>6 DEF PurgeBackup, IInv, BackupInv
  <2>2. f # Head(backups)
    BY <2>1, PathFacts
  <2> QED
    BY <1>1, <1>6, <2>2 DEF PurgeBackup, Disk
<1>7. CASE Crash
  <2>1. CASE pc = "copy"
    <3>1. PICK g \in File, n \in Nat :
            /\ IsFirst(g, todo)
            /\ disk' = [disk EXCEPT
                 ![g] = SubSeq(disk[MatchedPath(scanned, g)], 1, n)]
      BY <1>7, <2>1 DEF Crash, PartlyWritten
    <3>2. f # g
      BY <2>1, <3>1 DEF Copying
    <3> QED
      BY <1>1, <3>1, <3>2 DEF Disk
  <2>2. CASE pc # "copy"
    BY <1>4, <1>7, <2>2 DEF Crash, PartlyWritten
  <2> QED
    BY <2>1, <2>2
<1>8. ASSUME NEW g \in File, Restore(g) PROVE disk'[f] = disk[f]
  BY <1>2, <1>3, <1>8, <1>11, <1>12 DEF Restore
<1>9. ASSUME NEW g \in File, Write(g) PROVE disk'[f] = disk[f]
  <2>1. ASSUME NEW i \in Slice(g), WriteReconstructed(g, i) \/ WriteSourced(g, i)
        PROVE  disk' = disk
    BY <2>1 DEF WriteReconstructed, WriteSourced, WriteCell
  <2>2. CASE OpenTemp(g) \/ FlushTemp(g) \/ WriteFails(g)
    BY <1>4, <2>2 DEF OpenTemp, FlushTemp, WriteFails
  <2>3. CASE CheckMd5(g)
    BY <2>3 DEF CheckMd5
  <2> QED
    BY <1>5, <1>9, <2>1, <2>2, <2>3 DEF Write
<1>10. CASE FirstScan \/ SecondScan \/ Plan \/ Reconstruct \/ ReconstructFails
              \/ Finish \/ PurgeSet \/ PurgeRest \/ PurgeFails \/ Rerun
              \/ UNCHANGED vars
  BY <1>10 DEF FirstScan, SecondScan, Plan, Reconstruct, ReconstructFails,
               Finish, PurgeSet, PurgeRest, PurgeFails, Rerun, vars, memory
<1> QED
  BY <1>6, <1>7, <1>8, <1>9, <1>10 DEF Next, Step

\* No step of any command changes a protected file that is intact.
THEOREM IntactStay == Spec => IntactFilesStay
<1> DEFINE Stays == \A f \in File :
                      Plain(f) /\ disk[f] = Data[f] /\ ~Copying(f) =>
                        disk'[f] = Data[f]
<1>1. IInv /\ [Next]_vars => [Stays]_vars
  BY IntactFileStays
<1> QED
  BY <1>1, AlwaysIInv, PTL DEF Spec, IntactFilesStay

-----------------------------------------------------------------------------
(* The inductive invariant of restoring *)

\* No exact copy of a damaged file is left among the extra files.
NoCopyLeft(d) ==
  \A f \in {g \in File : Plain(g)} : \A k \in DOMAIN Extras :
    d[Extras[k]] = Data[f] => d[f] = Data[f]

\* Once the target has been moved to a backup path nothing is in its place.
TargetGoneInv == pc = "move" => \A f \in todo : Current(f) => ~Exists(disk, f)

\* An extra file with the content of a damaged file waits to be moved: to that
\* file, or to another one of the same content.
Covered(e, d, waiting) ==
  \A f \in {g \in File : Plain(g)} : \A k \in DOMAIN Extras :
    d[Extras[k]] = Data[f] =>
      \/ d[f] = Data[f]
      \/ f \in waiting
      \/ \E g \in waiting : MatchedPath(e, g) = Extras[k]

CoveredInv == pc \in Restoring => Covered(scanned, disk, todo)

\* After that the rest of the command has nothing to restore.
CompleteInv ==
  pc \in {"rescan", "plan", "reconstruct", "purge"} \cup Writing
    \/ (pc = "exit" /\ outcome # "error") => NoCopyLeft(disk)

RInv ==
  /\ IInv
  /\ TargetGoneInv
  /\ CoveredInv
  /\ CompleteInv
-----------------------------------------------------------------------------
(* Counting: the members of a finite set that different numbers rank take the
   places from 0 up, one each. *)

Before(S, r, x) == {y \in S : r[y] < r[x]}

LEMMA PlaceIsLess ==
  ASSUME NEW S, IsFiniteSet(S), NEW r \in [S -> Nat],
         NEW x \in S, NEW y \in S, r[x] < r[y]
  PROVE  Cardinality(Before(S, r, x)) < Cardinality(Before(S, r, y))
<1> DEFINE X == Before(S, r, x)
           Y == Before(S, r, y)
<1>1. IsFiniteSet(Y) /\ Cardinality(Y) \in Nat
  <2>1. Y \in SUBSET S
    BY DEF Before
  <2> QED
    BY <2>1, FS_Subset, FS_CardinalityType
<1>2. X \in SUBSET Y
  <2>1. ASSUME NEW z \in S, r[z] < r[x] PROVE r[z] < r[y]
    <3>1. r[z] \in Nat /\ r[x] \in Nat /\ r[y] \in Nat
      OBVIOUS
    <3> QED
      BY <2>1, <3>1
  <2> QED
    BY <2>1 DEF Before
<1>3. x \in Y /\ x \notin X
  <2>1. r[x] \in Nat
    OBVIOUS
  <2> QED
    BY <2>1 DEF Before
<1> HIDE DEF X, Y
<1>4. /\ IsFiniteSet(X) /\ Cardinality(X) <= Cardinality(Y)
      /\ Cardinality(Y) = Cardinality(X) => Y = X
  BY <1>1, <1>2, FS_Subset
<1>5. Cardinality(X) \in Nat
  BY <1>4, FS_CardinalityType
<1> QED
  BY <1>1, <1>3, <1>4, <1>5 DEF X, Y

LEMMA PlaceInRange ==
  ASSUME NEW S, IsFiniteSet(S), NEW r \in [S -> Nat], NEW x \in S
  PROVE  /\ Cardinality(Before(S, r, x)) \in Nat
         /\ Cardinality(Before(S, r, x)) < Cardinality(S)
<1> DEFINE X == Before(S, r, x)
<1>1. X \in SUBSET S /\ x \notin X
  <2>1. r[x] \in Nat
    OBVIOUS
  <2> QED
    BY <2>1 DEF Before
<1> HIDE DEF X
<1>2. /\ IsFiniteSet(X) /\ Cardinality(X) <= Cardinality(S)
      /\ Cardinality(S) = Cardinality(X) => S = X
  BY <1>1, FS_Subset
<1>3. Cardinality(X) \in Nat /\ Cardinality(S) \in Nat
  BY <1>2, FS_CardinalityType
<1> QED
  BY <1>1, <1>2, <1>3 DEF X

LEMMA EveryPlaceTaken ==
  ASSUME NEW S, IsFiniteSet(S), NEW r \in [S -> Nat],
         \A x, y \in S : r[x] = r[y] => x = y,
         NEW n \in Nat, n < Cardinality(S)
  PROVE  \E x \in S : Cardinality(Before(S, r, x)) = n
<1> DEFINE m == Cardinality(S)
           places == 0..(m - 1)
           place == [x \in S |-> Cardinality(Before(S, r, x))]
<1> SUFFICES ASSUME \A x \in S : Cardinality(Before(S, r, x)) # n PROVE FALSE
  OBVIOUS
<1>1. m \in Nat /\ m > 0
  BY FS_CardinalityType
<1>2. IsFiniteSet(places) /\ Cardinality(places) = m
  <2>1. 0 \in Int /\ m - 1 \in Int /\ ~(0 > m - 1)
    BY <1>1
  <2>2. /\ IsFiniteSet(0..(m - 1))
        /\ Cardinality(0..(m - 1)) =
             IF 0 > m - 1 THEN 0 ELSE (m - 1) - 0 + 1
    BY <2>1, FS_Interval
  <2> QED
    BY <1>1, <2>1, <2>2
<1>3. n \in places
  BY <1>1
<1>4. \A x \in S : Cardinality(Before(S, r, x)) \in places \ {n}
  BY <1>1, PlaceInRange
<1> HIDE DEF places
<1>5. place \in [S -> places \ {n}]
  BY <1>4
<1>6. IsFiniteSet(places \ {n}) /\ Cardinality(places \ {n}) = m - 1
  BY <1>2, <1>3, FS_RemoveElement
<1>7. Cardinality(places \ {n}) < Cardinality(S)
  BY <1>1, <1>6
<1> HIDE DEF place
<1>8. PICK x \in S, y \in S : x # y /\ place[x] = place[y]
  BY <1>5, <1>6, <1>7, FS_PigeonHole
<1>9. r[x] \in Nat /\ r[y] \in Nat /\ r[x] # r[y]
  BY <1>8
<1>10. /\ place[x] = Cardinality(Before(S, r, x)) /\ place[x] \in Nat
       /\ place[y] = Cardinality(Before(S, r, y)) /\ place[y] \in Nat
  BY PlaceInRange DEF place
<1>11. r[x] < r[y] => place[x] < place[y]
  BY <1>10, PlaceIsLess
<1>12. r[y] < r[x] => place[y] < place[x]
  BY <1>10, PlaceIsLess
<1> QED
  BY <1>8, <1>9, <1>10, <1>11, <1>12

-----------------------------------------------------------------------------
(* Lemmas about the matching of extra files *)

\* The files that need the content c, and the extra files that have it.
Needing(d, c) == {g \in File : CanUseRenamed(d, g) /\ Data[g] = c}
Having(d, c) == {j \in ScannedExtras(d) : d[Extras[j]] = c}

FileRank(S) == [g \in S |-> Rank[g]]
ExtraRank(S) == [j \in S |-> j]

LEMMA MatchedByPlace ==
  ASSUME NEW d \in Disk, NEW f \in File, NEW k
  PROVE  MatchedExtra(d, f, k) <=>
           LET F == Needing(d, Data[f])
               E == Having(d, Data[f])
           IN  /\ f \in F /\ k \in E
               /\ Cardinality(Before(E, ExtraRank(E), k))
                    = Cardinality(Before(F, FileRank(F), f))
<1> DEFINE F == Needing(d, Data[f])
           E == Having(d, Data[f])
<1>1. f \in F <=> CanUseRenamed(d, f)
  BY DEF Needing
<1>2. k \in E <=> k \in ScannedExtras(d) /\ d[Extras[k]] = Data[f]
  BY DEF Having
<1>3. f \in F => Before(F, FileRank(F), f) =
        {g \in File : /\ CanUseRenamed(d, g)
                      /\ Data[g] = Data[f]
                      /\ Rank[g] < Rank[f]}
  BY DEF Before, FileRank, Needing
<1>4. k \in E => Before(E, ExtraRank(E), k) =
        {j \in ScannedExtras(d) : j < k /\ d[Extras[j]] = Data[f]}
  BY DEF Before, ExtraRank, Having
<1> QED
  BY <1>1, <1>2, <1>3, <1>4 DEF MatchedExtra

\* Both are finite, and their ranks are different numbers.
LEMMA RanksAreDifferent ==
  ASSUME NEW d \in Disk, NEW c
  PROVE  LET F == Needing(d, c)
             E == Having(d, c)
         IN  /\ IsFiniteSet(F) /\ FileRank(F) \in [F -> Nat]
             /\ \A g, h \in F : FileRank(F)[g] = FileRank(F)[h] => g = h
             /\ IsFiniteSet(E) /\ ExtraRank(E) \in [E -> Nat]
             /\ \A i, j \in E : ExtraRank(E)[i] = ExtraRank(E)[j] => i = j
             /\ E \subseteq DOMAIN Extras
<1> DEFINE F == Needing(d, c)
           E == Having(d, c)
<1>1. F \in SUBSET File
  BY DEF Needing
<1>2. IsFiniteSet(F)
  BY <1>1, FS_Subset, SetAssumption
<1>3. FileRank(F) \in [F -> Nat]
  BY <1>1, SetAssumption DEF FileRank
<1>4. \A g, h \in F : FileRank(F)[g] = FileRank(F)[h] => g = h
  BY <1>1, SetAssumption DEF FileRank
<1>5. E \in SUBSET (1..Len(Extras)) /\ Len(Extras) \in Nat
  BY SetAssumption DEF Having, ScannedExtras
<1>6. IsFiniteSet(1..Len(Extras))
  <2>1. 1 \in Int /\ Len(Extras) \in Int
    BY <1>5
  <2> QED
    BY <2>1, FS_Interval
<1>7. IsFiniteSet(E)
  BY <1>5, <1>6, FS_Subset
<1>8. ExtraRank(E) \in [E -> Nat]
  BY <1>5 DEF ExtraRank
<1>9. \A i, j \in E : ExtraRank(E)[i] = ExtraRank(E)[j] => i = j
  BY DEF ExtraRank
<1>10. E \subseteq DOMAIN Extras
  BY DEF Having, ScannedExtras
<1> QED
  BY <1>2, <1>3, <1>4, <1>7, <1>8, <1>9, <1>10

\* A file is matched to one extra file at most.
LEMMA MatchIsUnique ==
  ASSUME NEW d \in Disk, NEW f \in File, NEW j, NEW k,
         MatchedExtra(d, f, j), MatchedExtra(d, f, k)
  PROVE  j = k
<1> DEFINE E == Having(d, Data[f])
           place(i) == Cardinality(Before(E, ExtraRank(E), i))
<1>1. j \in E /\ k \in E /\ place(j) = place(k)
  BY MatchedByPlace
<1>2. /\ IsFiniteSet(E) /\ ExtraRank(E) \in [E -> Nat]
      /\ \A i, l \in E : ExtraRank(E)[i] = ExtraRank(E)[l] => i = l
  BY RanksAreDifferent
<1> HIDE DEF E
<1>3. /\ ExtraRank(E)[j] \in Nat /\ ExtraRank(E)[k] \in Nat
      /\ place(j) \in Nat /\ place(k) \in Nat
  BY <1>1, <1>2, PlaceInRange
<1>4. ~(ExtraRank(E)[j] < ExtraRank(E)[k])
  <2> SUFFICES ASSUME ExtraRank(E)[j] < ExtraRank(E)[k] PROVE FALSE
    OBVIOUS
  <2>1. place(j) < place(k)
    BY <1>1, <1>2, PlaceIsLess
  <2> QED
    BY <1>1, <1>3, <2>1
<1>5. ~(ExtraRank(E)[k] < ExtraRank(E)[j])
  <2> SUFFICES ASSUME ExtraRank(E)[k] < ExtraRank(E)[j] PROVE FALSE
    OBVIOUS
  <2>1. place(k) < place(j)
    BY <1>1, <1>2, PlaceIsLess
  <2> QED
    BY <1>1, <1>3, <2>1
<1> QED
  BY <1>1, <1>2, <1>3, <1>4, <1>5

\* An exact copy of a damaged file is taken for one of the files that need its
\* content, unless the damaged file itself has been given another copy.
LEMMA CopyIsTaken ==
  ASSUME NEW d \in Disk, NEW f \in File, Plain(f), NEW k \in DOMAIN Extras,
         d[Extras[k]] = Data[f], d[f] # Data[f]
  PROVE  \/ f \in Renamed(d)
         \/ \E g \in Renamed(d) : MatchedPath(d, g) = Extras[k]
<1> DEFINE F == Needing(d, Data[f])
           E == Having(d, Data[f])
           placeF(g) == Cardinality(Before(F, FileRank(F), g))
           placeE(j) == Cardinality(Before(E, ExtraRank(E), j))
<1>1. CanUseRenamed(d, f)
  BY DEF CanUseRenamed, ScanStatus
<1>2. f \in F
  BY <1>1 DEF Needing
<1>3. k \in E
  <2>1. Exists(d, Extras[k])
    BY DataIsContent DEF Exists
  <2>2. RenameCandidate(d, d[Extras[k]])
    <3>1. Data[f] # <<>> => 1 \in Slice(f)
      BY DataIsContent DEF Slice
    <3> QED
      BY <1>1, <3>1 DEF RenameCandidate, Plain
  <2> QED
    BY <2>1, <2>2 DEF Having, ScannedExtras
<1>4. /\ IsFiniteSet(F) /\ FileRank(F) \in [F -> Nat]
      /\ \A g, h \in F : FileRank(F)[g] = FileRank(F)[h] => g = h
      /\ IsFiniteSet(E) /\ ExtraRank(E) \in [E -> Nat]
      /\ \A i, j \in E : ExtraRank(E)[i] = ExtraRank(E)[j] => i = j
      /\ E \subseteq DOMAIN Extras
  BY RanksAreDifferent
<1>5. \A g \in F : g \in File /\ Data[g] = Data[f]
  BY DEF Needing
<1>6. \A g \in F, j \in E : placeE(j) = placeF(g) => MatchedExtra(d, g, j)
  BY <1>5, MatchedByPlace
<1> HIDE DEF F, E
<1>7. /\ placeE(k) \in Nat /\ placeE(k) < Cardinality(E)
      /\ placeF(f) \in Nat /\ placeF(f) < Cardinality(F)
  BY <1>2, <1>3, <1>4, PlaceInRange
<1>8. Cardinality(E) \in Nat /\ Cardinality(F) \in Nat
  BY <1>4, FS_CardinalityType
<1>9. CASE placeE(k) < Cardinality(F)
  <2>1. PICK g \in F : placeF(g) = placeE(k)
    BY <1>4, <1>7, <1>9, EveryPlaceTaken
  <2>2. g \in File /\ MatchedExtra(d, g, k)
    BY <1>3, <1>5, <1>6, <2>1
  <2>3. g \in Renamed(d)
    BY <2>2 DEF Renamed
  <2>4. MatchedPath(d, g) = Extras[k]
    BY <2>2, MatchIsUnique DEF MatchedPath
  <2> QED
    BY <2>3, <2>4
<1>10. CASE ~(placeE(k) < Cardinality(F))
  <2>1. placeF(f) < Cardinality(E)
    BY <1>7, <1>8, <1>10
  <2>2. PICK j \in E : placeE(j) = placeF(f)
    BY <1>4, <1>7, <2>1, EveryPlaceTaken
  <2>3. MatchedExtra(d, f, j) /\ j \in DOMAIN Extras
    BY <1>2, <1>4, <1>6, <2>2
  <2> QED
    BY <2>3 DEF Renamed
<1> QED
  BY <1>9, <1>10
-----------------------------------------------------------------------------
(* The invariant is kept by every action *)

\* What one step of the restoring loop does to the disk: the target gets the
\* matched content and the matched path goes, or the target alone changes.
LEMMA RestoreEffect ==
  ASSUME RInv, NEW f \in File, Restore(f), ~RestoreFails(f)
  PROVE  /\ pc \in Restoring /\ f \in todo /\ UNCHANGED scanned
         /\ \A p \in ExtraPaths \ {MatchedPath(scanned, f)} : disk'[p] = disk[p]
         /\ \A g \in File \ {f} : disk'[g] = disk[g]
         /\ \/ /\ todo' = todo /\ pc' \in {"move", "copy", "remove"}
               /\ disk'[MatchedPath(scanned, f)] = disk[MatchedPath(scanned, f)]
            \/ /\ FileRestored(f) /\ disk'[f] = Data[f]
               /\ disk'[MatchedPath(scanned, f)] = Absent
<1> DEFINE p == MatchedPath(scanned, f)
<1>1. /\ pc \in Restoring /\ IsFirst(f, todo) /\ UNCHANGED scanned
      /\ f \in todo
  BY DEF Restore, BackupTarget, MoveRenamed, OpenCopy, CopyRenamed,
         RemoveCopied, MoveReady, Restoring, IsFirst, memory
<1>2. /\ disk \in Disk /\ f \in Path /\ p \in Path \ File
      /\ disk[p] \in {Data[f], Absent}
  BY <1>1, TurnFacts DEF RInv
<1>3. /\ File \subseteq Path /\ ExtraPaths \subseteq Path
      /\ ExtraPaths \cap File = {}
  BY SetAssumption, SeparateAssumption DEF ExtraPaths
<1>4. CASE BackupTarget(f)
  <2>1. PICK k \in DOMAIN Backup[f] : disk' = Move(disk, f, Backup[f][k])
    BY <1>4 DEF BackupTarget
  <2>2. Backup[f][k] \notin File \cup ExtraPaths /\ Backup[f][k] \in Path
    BY PathFacts
  <2>3. \A q \in (ExtraPaths \cup File) \ {f} : disk'[q] = disk[q]
    BY <1>2, <1>3, <2>1, <2>2 DEF Move, Disk
  <2>4. p \in (ExtraPaths \cup File) \ {f}
    BY <1>1, <1>2, TurnFacts DEF RInv
  <2> QED
    BY <1>1, <1>3, <1>4, <2>3, <2>4 DEF BackupTarget
<1> HIDE DEF p
<1>5. CASE MoveRenamed(f)
  <2>1. disk' = Move(disk, p, f) /\ disk[p] = Data[f] /\ FileRestored(f)
    BY <1>2, <1>5 DEF MoveRenamed, MoveReady, Exists, p
  <2>2. /\ disk'[f] = Data[f] /\ disk'[p] = Absent
        /\ \A q \in Path \ {f, p} : disk'[q] = disk[q]
    BY <1>2, <2>1 DEF Move, Disk
  <2> QED
    BY <1>1, <1>2, <1>3, <2>1, <2>2 DEF p
<1>6. CASE OpenCopy(f) \/ CopyRenamed(f)
  <2>1. PICK c : disk' = [disk EXCEPT ![f] = c]
    BY <1>6 DEF OpenCopy, CopyRenamed
  <2>2. \A q \in Path \ {f} : disk'[q] = disk[q]
    BY <1>2, <2>1 DEF Disk
  <2>3. todo' = todo /\ pc' \in {"move", "copy", "remove"}
    BY <1>6 DEF OpenCopy, CopyRenamed, memory
  <2> QED
    BY <1>1, <1>2, <1>3, <2>2, <2>3 DEF p
<1>7. CASE RemoveCopied(f)
  <2>1. /\ disk' = [disk EXCEPT ![p] = Absent] /\ FileRestored(f)
        /\ pc = "remove"
    BY <1>7 DEF RemoveCopied, p
  <2>2. disk[f] = Data[f]
    BY <1>1, <2>1 DEF RInv, IInv, RestoreInv, Restoring, Current
  <2>3. disk'[p] = Absent /\ \A q \in Path \ {p} : disk'[q] = disk[q]
    BY <1>2, <2>1 DEF Disk
  <2> QED
    BY <1>1, <1>2, <1>3, <2>1, <2>2, <2>3 DEF p
<1> QED
  BY <1>4, <1>5, <1>6, <1>7 DEF Restore

\* A step to a place of which the invariant says nothing.
LEMMA ElsewhereKeeps ==
  ASSUME pc' \in {"scan", "crashed"} \/ (pc' = "exit" /\ outcome' = "error")
  PROVE  TargetGoneInv' /\ CoveredInv' /\ CompleteInv'
BY DEF TargetGoneInv, CoveredInv, CompleteInv, Restoring, Writing

LEMMA FirstScanCovers ==
  ASSUME RInv, FirstScan PROVE TargetGoneInv' /\ CoveredInv' /\ CompleteInv'
<1>1. /\ scanned' = disk /\ todo' = Renamed(disk) /\ UNCHANGED disk
      /\ disk \in Disk /\ pc' # "move"
      /\ Renamed(disk) = {} \/ pc' = "restore"
      /\ pc' = "restore" => Renamed(disk) # {}
  BY DEF FirstScan, RInv, IInv, TypeOK, Stop
<1>2. Covered(disk, disk, Renamed(disk))
  BY <1>1, CopyIsTaken DEF Covered
<1>3. Renamed(disk) = {} => NoCopyLeft(disk)
  BY <1>2 DEF Covered, NoCopyLeft
<1> QED
  BY <1>1, <1>2, <1>3 DEF TargetGoneInv, CoveredInv, CompleteInv, Writing

LEMMA RestoreCovers ==
  ASSUME RInv, NEW f \in File, Restore(f)
  PROVE  TargetGoneInv' /\ CoveredInv' /\ CompleteInv'
<1>1. CASE RestoreFails(f)
  BY <1>1, ElsewhereKeeps DEF RestoreFails, Stop
<1>2. CASE ~RestoreFails(f)
  <2>1. /\ pc \in Restoring /\ f \in todo /\ UNCHANGED scanned
        /\ \A p \in ExtraPaths \ {MatchedPath(scanned, f)} : disk'[p] = disk[p]
        /\ \A g \in File \ {f} : disk'[g] = disk[g]
        /\ \/ todo' = todo /\ pc' \in {"move", "copy", "remove"}
           \/ /\ FileRestored(f) /\ disk'[f] = Data[f]
              /\ disk'[MatchedPath(scanned, f)] = Absent
    BY <1>2, RestoreEffect
  <2>2. Covered(scanned, disk, todo)
    BY <2>1 DEF RInv, CoveredInv
  <2>3. Covered(scanned', disk', todo')
    <3> SUFFICES ASSUME NEW g \in File, Plain(g), NEW k \in DOMAIN Extras,
                        disk'[Extras[k]] = Data[g]
                 PROVE  \/ disk'[g] = Data[g]
                        \/ g \in todo'
                        \/ \E h \in todo' : MatchedPath(scanned, h) = Extras[k]
      BY <2>1 DEF Covered
    <3>1. Extras[k] \in ExtraPaths
      BY DEF ExtraPaths
    <3>2. CASE todo' = todo
      <4>1. CASE Extras[k] = MatchedPath(scanned, f)
        BY <2>1, <3>2, <4>1
      <4>2. CASE Extras[k] # MatchedPath(scanned, f)
        <5>1. disk[Extras[k]] = Data[g]
          BY <2>1, <3>1, <4>2
        <5>2. \/ disk[g] = Data[g]
              \/ g \in todo
              \/ \E h \in todo : MatchedPath(scanned, h) = Extras[k]
          BY <2>2, <5>1 DEF Covered
        <5> QED
          BY <2>1, <3>2, <5>2
      <4> QED
        BY <4>1, <4>2
    <3>3. CASE FileRestored(f) /\ disk'[f] = Data[f]
                 /\ disk'[MatchedPath(scanned, f)] = Absent
      <4>1. Extras[k] # MatchedPath(scanned, f)
        BY <3>3, DataIsContent
      <4>2. disk[Extras[k]] = Data[g]
        BY <2>1, <3>1, <4>1
      <4>3. \/ disk[g] = Data[g]
            \/ g \in todo
            \/ \E h \in todo : MatchedPath(scanned, h) = Extras[k]
        BY <2>2, <4>2 DEF Covered
      <4>4. todo' = todo \ {f}
        BY <3>3 DEF FileRestored
      <4> QED
        BY <2>1, <3>3, <4>1, <4>3, <4>4
    <3> QED
      BY <2>1, <3>2, <3>3
  <2>4. TargetGoneInv'
    <3>1. pc' = "move" => BackupTarget(f)
      BY <1>2, <2>1 DEF Restore, MoveRenamed, OpenCopy, CopyRenamed,
                        RemoveCopied, FileRestored
    <3>2. ASSUME BackupTarget(f)
          PROVE  /\ ~Exists(disk', f) /\ UNCHANGED todo
                 /\ \A g \in todo : IsFirst(g, todo) => g = f
      <4>1. PICK k \in DOMAIN Backup[f] : disk' = Move(disk, f, Backup[f][k])
        BY <3>2 DEF BackupTarget
      <4>2. f \in Path /\ disk \in Disk
        BY PathFacts DEF RInv, IInv, TypeOK
      <4>3. disk'[f] = Absent
        BY <4>1, <4>2 DEF Move, Disk
      <4>4. IsFirst(f, todo) /\ UNCHANGED todo
        BY <3>2 DEF BackupTarget
      <4>5. \A g \in todo : IsFirst(g, todo) => g = f
        BY <2>1, <4>4, TurnFacts DEF RInv
      <4> QED
        BY <4>3, <4>4, <4>5 DEF Exists
    <3> QED
      BY <3>1, <3>2 DEF TargetGoneInv, Current
  <2>5. CoveredInv'
    BY <2>3 DEF CoveredInv
  <2>6. CompleteInv'
    <3>1. CASE pc' \in Restoring
      BY <3>1 DEF CompleteInv, Restoring, Writing
    <3>2. CASE pc' \notin Restoring
      <4>1. todo' = {}
        BY <2>1, <3>2 DEF FileRestored, Restoring
      <4>2. NoCopyLeft(disk')
        BY <2>3, <4>1 DEF Covered, NoCopyLeft
      <4> QED
        BY <4>2 DEF CompleteInv
    <3> QED
      BY <3>1, <3>2
  <2> QED
    BY <2>4, <2>5, <2>6
<1> QED
  BY <1>1, <1>2

\* After the restoring no step of the command touches an extra file.
LEMMA ExtrasStay ==
  ASSUME IInv, Step, pc \notin Restoring, NEW p \in ExtraPaths
  PROVE  disk'[p] = disk[p]
<1>1. disk \in Disk /\ p \in Path
  BY SetAssumption DEF IInv, TypeOK, ExtraPaths
<1>2. ASSUME NEW f \in File, Write(f) PROVE disk'[p] = disk[p]
  <2>1. p # f /\ p # Temp[f]
    BY PathFacts, SeparateAssumption
  <2>2. ASSUME NEW i \in Slice(f), WriteReconstructed(f, i) \/ WriteSourced(f, i)
        PROVE  disk' = disk
    BY <2>2 DEF WriteReconstructed, WriteSourced, WriteCell
  <2>3. CASE OpenTemp(f) \/ FlushTemp(f) \/ WriteFails(f)
    BY <1>1, <2>1, <2>3 DEF OpenTemp, FlushTemp, WriteFails, Disk
  <2>4. CASE Publish(f)
    BY <1>1, <2>1, <2>4 DEF Publish, Move, Disk
  <2>5. CASE CheckMd5(f)
    BY <2>5 DEF CheckMd5
  <2> QED
    BY <1>2, <2>2, <2>3, <2>4, <2>5 DEF Write
<1>3. CASE PurgeBackup
  <2>1. Head(backups) \in BackupPaths
    BY <1>3 DEF PurgeBackup, IInv, BackupInv
  <2>2. p # Head(backups)
    BY <2>1, PathFacts
  <2> QED
    BY <1>1, <1>3, <2>2 DEF PurgeBackup, Disk
<1>4. ASSUME NEW f \in File, Restore(f) PROVE FALSE
  BY <1>4 DEF Restore, BackupTarget, MoveRenamed, OpenCopy, CopyRenamed,
              RemoveCopied, MoveReady, RestoreFails, Restoring
<1>5. CASE FirstScan \/ SecondScan \/ Plan \/ Reconstruct \/ ReconstructFails
             \/ Finish \/ PurgeSet \/ PurgeRest \/ PurgeFails
  BY <1>5 DEF FirstScan, SecondScan, Plan, Reconstruct, ReconstructFails,
              Finish, PurgeSet, PurgeRest, PurgeFails
<1> QED
  BY <1>2, <1>3, <1>4, <1>5 DEF Step

\* An intact target stays, and an extra file stays, so no new pair of a damaged
\* target and its exact copy appears.
LEMMA LaterStepCovers ==
  ASSUME RInv, Step, pc \notin Restoring \cup {"scan"}
  PROVE  TargetGoneInv' /\ CoveredInv' /\ CompleteInv'
<1>1. /\ pc \in {"rescan", "plan", "reconstruct", "purge"} \cup Writing
      /\ pc' \in {"plan", "reconstruct", "purge", "exit"} \cup Writing
  <2>1. ASSUME NEW f \in File, Write(f) PROVE pc \in Writing /\ pc' \in Writing
    BY <2>1 DEF Write, OpenTemp, WriteReconstructed, WriteSourced, WriteCell,
                NextSlice, FlushTemp, Publish, CheckMd5, WriteFails, Writing
  <2>2. ASSUME NEW f \in File, Restore(f) PROVE FALSE
    BY <2>2 DEF Restore, BackupTarget, MoveRenamed, OpenCopy, CopyRenamed,
                RemoveCopied, MoveReady, RestoreFails, Restoring
  <2> QED
    BY <2>1, <2>2 DEF Step, FirstScan, SecondScan, Plan, Reconstruct,
         ReconstructFails, Finish, PurgeBackup, PurgeSet, PurgeRest,
         PurgeFails, Stop, Writing
<1>2. NoCopyLeft(disk)
  BY <1>1 DEF RInv, CompleteInv
<1>3. NoCopyLeft(disk')
  <2> SUFFICES ASSUME NEW f \in File, Plain(f), NEW k \in DOMAIN Extras,
                      disk'[Extras[k]] = Data[f]
               PROVE  disk'[f] = Data[f]
    BY DEF NoCopyLeft
  <2>1. Extras[k] \in ExtraPaths
    BY DEF ExtraPaths
  <2>2. disk[Extras[k]] = Data[f]
    BY <2>1, ExtrasStay DEF RInv
  <2>3. disk[f] = Data[f] /\ ~Copying(f)
    BY <1>1, <1>2, <2>2 DEF NoCopyLeft, Copying, Writing
  <2> QED
    BY <2>3, IntactFileStays DEF RInv, Next
<1> QED
  BY <1>1, <1>3 DEF TargetGoneInv, CoveredInv, CompleteInv, Restoring, Writing

LEMMA NextKeepsRenames == ASSUME RInv, [Next]_vars PROVE RInv'
<1>1. IInv'
  BY NextKeeps DEF RInv
<1>2. TargetGoneInv' /\ CoveredInv' /\ CompleteInv'
  <2>1. CASE Step
    <3>1. CASE pc = "scan"
      <4>1. ASSUME NEW f \in File, Restore(f) \/ Write(f) PROVE FALSE
        BY <3>1, <4>1
        DEF Restore, BackupTarget, MoveRenamed, OpenCopy, CopyRenamed,
            RemoveCopied, MoveReady, RestoreFails, Write, OpenTemp,
            WriteReconstructed, WriteSourced, NextSlice, FlushTemp, Publish,
            CheckMd5, WriteFails
      <4>2. FirstScan
        BY <2>1, <3>1, <4>1
        DEF Step, SecondScan, Plan, Reconstruct, ReconstructFails, Finish,
            PurgeBackup, PurgeSet, PurgeRest, PurgeFails
      <4> QED
        BY <4>2, FirstScanCovers
    <3>2. CASE pc \in Restoring
      <4>1. ASSUME NEW f \in File, Write(f) PROVE FALSE
        BY <3>2, <4>1
        DEF Restoring, Write, OpenTemp, WriteReconstructed, WriteSourced,
            NextSlice, FlushTemp, Publish, CheckMd5, WriteFails
      <4>2. PICK f \in File : Restore(f)
        BY <2>1, <3>2, <4>1
        DEF Restoring, Step, FirstScan, SecondScan, Plan, Reconstruct,
            ReconstructFails, Finish, PurgeBackup, PurgeSet, PurgeRest,
            PurgeFails
      <4> QED
        BY <4>2, RestoreCovers
    <3>3. CASE pc \notin Restoring \cup {"scan"}
      BY <2>1, <3>3, LaterStepCovers
    <3> QED
      BY <3>1, <3>2, <3>3
  <2>2. CASE Crash \/ Rerun
    BY <2>2, ElsewhereKeeps DEF Crash, Rerun
  <2>3. CASE UNCHANGED vars
    BY <2>3 DEF vars, memory, RInv, TargetGoneInv, CoveredInv, CompleteInv,
                Current, Covered, NoCopyLeft, Exists
  <2> QED
    BY <2>1, <2>2, <2>3 DEF Next
<1> QED
  BY <1>1, <1>2 DEF RInv

LEMMA AlwaysRInv == Spec => []RInv
<1>1. Init => RInv
  BY InitHolds
  DEF Init, RInv, TargetGoneInv, CoveredInv, CompleteInv, Restoring, Writing
<1> QED
  BY <1>1, NextKeepsRenames, PTL DEF Spec

-----------------------------------------------------------------------------
(* What follows from it *)

\* When a command ends without an error no damaged file has an exact copy left
\* among the extra files: files and extra files of one content are matched
\* one to one, and all the matches are carried out.
THEOREM RenamesAreComplete == Spec => []RenamesComplete
<1>1. RInv => RenamesComplete
  BY DEF RInv, CompleteInv, NoCopyLeft, RenamesComplete
<1> QED
  BY <1>1, AlwaysRInv, PTL

\* One step of the restoring loses no content.
LEMMA ContentStays ==
  ASSUME RInv, [Next]_vars, pc \in Restoring, NEW p \in Path, Exists(disk, p),
         ~(p \in File /\ Copying(p))
  PROVE  \E q \in Path : disk'[q] = disk[p]
<1>1. disk \in Disk
  BY DEF RInv, IInv, TypeOK
<1>2. ASSUME NEW f \in File, Restore(f) PROVE \E q \in Path : disk'[q] = disk[p]
  <2> DEFINE m == MatchedPath(scanned, f)
  <2>1. IsFirst(f, todo)
    BY <1>2 DEF Restore, BackupTarget, MoveRenamed, OpenCopy, CopyRenamed,
                RemoveCopied, MoveReady, RestoreFails
  <2>2. /\ f \in todo /\ f \in Path /\ m \in Path \ File
        /\ disk[m] \in {Data[f], Absent}
    BY <2>1, TurnFacts DEF RInv
  <2> HIDE DEF m
  <2>3. CASE BackupTarget(f)
    <3>1. PICK k \in DOMAIN Backup[f] : /\ disk' = Move(disk, f, Backup[f][k])
                                        /\ ~Exists(disk, Backup[f][k])
      BY <2>3 DEF BackupTarget, IsNextBackup
    <3> DEFINE b == Backup[f][k]
    <3>2. b \in Path \ File
      BY PathFacts
    <3> HIDE DEF b
    <3>3. disk' = Move(disk, f, b) /\ p # b
      BY <3>1 DEF Exists, b
    <3>4. p = f => disk'[b] = disk[p]
      BY <1>1, <2>2, <3>2, <3>3 DEF Move, Disk
    <3>5. p # f => disk'[p] = disk[p]
      BY <1>1, <2>2, <3>2, <3>3 DEF Move, Disk
    <3> QED
      BY <3>2, <3>4, <3>5
  <2>4. CASE MoveRenamed(f)
    <3>1. disk' = Move(disk, m, f) /\ MoveReady(f)
      BY <2>4 DEF MoveRenamed, m
    <3>2. ~Exists(disk, f)
      BY <2>1, <2>2, <3>1 DEF MoveReady, RInv, TargetGoneInv, Current
    <3>3. p # f
      BY <3>2
    <3>4. p = m => disk'[f] = disk[p]
      BY <1>1, <2>2, <3>1 DEF Move, Disk
    <3>5. p # m => disk'[p] = disk[p]
      BY <1>1, <2>2, <3>1, <3>3 DEF Move, Disk
    <3> QED
      BY <2>2, <3>4, <3>5
  <2>5. CASE OpenCopy(f)
    <3>1. ~Exists(disk, f)
      BY <2>1, <2>2, <2>5 DEF OpenCopy, MoveReady, RInv, TargetGoneInv, Current
    <3>2. p # f
      BY <3>1
    <3> QED
      BY <1>1, <2>5, <3>2 DEF OpenCopy, Disk
  <2>6. CASE CopyRenamed(f)
    <3>1. p # f
      BY <2>6 DEF CopyRenamed, Copying
    <3> QED
      BY <1>1, <2>6, <3>1 DEF CopyRenamed, Disk
  <2>7. CASE RemoveCopied(f)
    <3>1. disk' = [disk EXCEPT ![m] = Absent] /\ pc = "remove"
      BY <2>7 DEF RemoveCopied, m
    <3>2. disk[f] = Data[f] /\ disk[m] = Data[f]
      BY <2>1, <2>2, <3>1
      DEF RInv, IInv, RestoreInv, Restoring, Current, m
    <3>3. p = m => disk'[f] = disk[p]
      BY <1>1, <2>2, <3>1, <3>2 DEF Disk
    <3>4. p # m => disk'[p] = disk[p]
      BY <1>1, <3>1 DEF Disk
    <3> QED
      BY <2>2, <3>3, <3>4
  <2>8. CASE RestoreFails(f)
    <3>1. pc = "copy" => p # f
      BY <2>1 DEF Copying
    <3> QED
      BY <1>1, <2>8, <3>1 DEF RestoreFails, Disk
  <2> QED
    BY <1>2, <2>3, <2>4, <2>5, <2>6, <2>7, <2>8 DEF Restore
<1>3. CASE Crash
  <2>1. CASE UNCHANGED disk
    BY <2>1
  <2>2. CASE ~UNCHANGED disk
    <3>1. PICK f \in File, n \in Nat :
            /\ IsFirst(f, todo) /\ pc = "copy"
            /\ disk' = [disk EXCEPT
                 ![f] = SubSeq(disk[MatchedPath(scanned, f)], 1, n)]
      BY <1>3, <2>2 DEF Crash, PartlyWritten, Restoring
    <3>2. p # f
      BY <3>1 DEF Copying
    <3> QED
      BY <1>1, <3>1, <3>2 DEF Disk
  <2> QED
    BY <2>1, <2>2
<1>4. CASE Step /\ ~(\E f \in File : Restore(f))
  <2>1. ASSUME NEW f \in File, Write(f) PROVE FALSE
    BY <2>1
    DEF Restoring, Write, OpenTemp, WriteReconstructed, WriteSourced,
        NextSlice, FlushTemp, Publish, CheckMd5, WriteFails
  <2> QED
    BY <1>4, <2>1
    DEF Restoring, Step, FirstScan, SecondScan, Plan, Reconstruct,
        ReconstructFails, Finish, PurgeBackup, PurgeSet, PurgeRest, PurgeFails
<1>5. CASE Rerun \/ UNCHANGED vars
  BY <1>5 DEF Rerun, vars
<1> QED
  BY <1>2, <1>3, <1>4, <1>5 DEF Next

\* No step of the restoring, failed, killed or across file systems, takes the
\* last copy of a content: an existing target moves to a free path, a matched
\* path is only removed once its content is at the target.
THEOREM RestoreKeepsAll == Spec => RestoreLosesNothing
<1> DEFINE Kept == (pc \in {"restore", "move", "copy", "remove"}) =>
                     \A p \in Path : Exists(disk, p) /\ ~(p \in File /\ Copying(p)) =>
                       \E q \in Path : disk'[q] = disk[p]
<1>1. RInv /\ [Next]_vars => [Kept]_vars
  BY ContentStays DEF Restoring
<1> QED
  BY <1>1, AlwaysRInv, PTL DEF Spec, RestoreLosesNothing
=============================================================================
