-------------------------- MODULE Par2RepairPromise --------------------------
(***************************************************************************)
(* Theorems about what the repair command promises, for any set of files,  *)
(* any contents, any number of failures, kills and reruns: success leaves  *)
(* no block to the recovery data, and purge deletes that data only then;   *)
(* and for sets without shared blocks, no step of the repair, failed or    *)
(* killed, loses a block, and where targets are repaired in place the      *)
(* command implements AtomicRepair.                                        *)
(***************************************************************************)
EXTENDS Par2RepairProofs

-----------------------------------------------------------------------------
(* The inductive invariant of success *)

\* Every slice was reconstructed right.
ReconRight == \A s \in MissingSlices(scanned) : recon[s] = Data[s[1]][s[2]]

\* Every block of f can still be found by a pass over d, or is of zeros.
Findable(d, f) ==
  \A i \in Slice(f) : Data[f][i] = Zero \/ Data[f][i] \in Available(d)

\* Files that are not rewritten, and the extra files, are as the pass saw
\* them.  Slices do not come out right if what was read for the others was
\* wrong in a way that shows; and a file that has its MD5 after it was
\* rewritten shows that its own slices did.
RewriteInv ==
  pc \in Writing =>
    /\ ~RenameOnly
    /\ todo \subseteq FilesToRepair(scanned)
    /\ FilesToRepair(scanned) \subseteq todo \cup repaired \cup failed
    /\ \A f \in File \ FilesToRepair(scanned) : disk[f] = scanned[f]
    /\ \A p \in ExtraPaths : disk[p] = scanned[p]
    /\ ReconRight => WrongInputs(scanned) = {}
                       \/ ~ErrorsShow(WrongInputs(scanned))
    /\ \A f \in repaired : \A i \in Missing(scanned, f) :
         recon[<<f, i>>] = Data[f][i]
    /\ pc # "write" => \A f \in todo : Current(f) =>
         \A i \in Missing(scanned, f) :
           i \in DOMAIN out => out[i] = recon[<<f, i>>]

\* With -O the command ends without a plan.  What is planned is not empty.
PlanInv ==
  /\ RenameOnly => pc \notin {"plan", "reconstruct"} \cup Writing
  /\ pc \in {"reconstruct"} \cup Writing => MissingSlices(scanned) # {}

\* A result is only announced at the end, and what it says is still so while
\* the command purges, and after that, also when the purge was cut short.
ResultInv ==
  /\ pc \notin {"purge", "exit"} => outcome = "none"
  /\ pc \notin {"purge", "exit", "crashed"} => par2
  /\ pc = "purge" => outcome \in {"success", "not_needed"}
  /\ outcome = "success" => \A f \in File : Answered(f) => HoldsBlocks(disk, f)
  /\ outcome \in {"success", "not_needed"} \/ ~par2 =>
       \A f \in File : Answered(f) => Findable(disk, f)
  /\ RenameOnly /\ outcome \in {"success", "not_needed"} =>
       \A f \in File : disk[f] = Data[f]

SInv ==
  /\ IInv
  /\ RewriteInv
  /\ PlanInv
  /\ ResultInv
-----------------------------------------------------------------------------
(* Lemmas about a verification pass *)

\* What is found among some blocks is found among more.
LEMMA HasMore ==
  ASSUME NEW f, NEW i, NEW A, NEW B, A \subseteq B, Has(f, i, A)
  PROVE  Has(f, i, B)
BY DEF Has

\* A file reported as present is intact and misses nothing.
LEMMA PresentIsIntact ==
  ASSUME NEW d \in Disk, NEW f \in File, Status(d, f) = "present"
  PROVE  d[f] = Data[f] /\ Missing(d, f) = {}
<1>1. ScanStatus(d, f) = "present"
  BY DEF Status
<1>2. /\ d[f] = Data[f]
      /\ \A i \in Slice(f) : Has(f, i, OwnBlocks(d, f))
  BY <1>1 DEF ScanStatus
<1>3. OwnBlocks(d, f) \subseteq Available(d)
  BY DEF Available
<1> QED
  BY <1>2, <1>3, HasMore DEF Missing

\* A file that misses a slice is rewritten.
LEMMA MissingIsRepaired ==
  ASSUME NEW d \in Disk, NEW f \in File, Missing(d, f) # {}
  PROVE  f \in FilesToRepair(d)
BY PresentIsIntact DEF FilesToRepair

\* A file that misses no slice has every block of its own available: each is
\* listed for it, under its own number.
LEMMA NoneMissing ==
  ASSUME NEW d \in Disk, NEW f \in File, Missing(d, f) = {}, NEW i \in Slice(f)
  PROVE  Data[f][i] \in Available(d)
<1> DEFINE n == Len(Data[f])
           Below(j) == {l \in Owned[f] : l < j}
<1>1. Slice(f) = 1..n /\ n \in Nat /\ Owned[f] \subseteq 1..n
  BY DataIsContent DEF Slice, Owned
<1>2. \A k \in Slice(f) : Has(f, k, Available(d))
  BY DEF Missing
<1>3. PICK m \in Slice(f) : Entry(f, n, m)
  <2>1. n \in Slice(f)
    BY <1>1
  <2> QED
    BY <1>2, <2>1 DEF Has
<1>4. Below(m) = 1..(n - 1)
  <2>1. Below(m) \subseteq 1..(m - 1) /\ m \in 1..n
    BY <1>1
  <2>2. IsFiniteSet(1..(m - 1)) /\ Cardinality(1..(m - 1)) = m - 1
    <3>1. m \in Nat /\ m >= 1
      BY <1>1
    <3> QED
      BY <3>1, FS_Interval
  <2>3. Cardinality(Below(m)) = n - 1
    BY <1>3 DEF Entry
  <2>4. /\ Cardinality(Below(m)) <= m - 1
        /\ Cardinality(1..(m - 1)) = Cardinality(Below(m)) =>
             1..(m - 1) = Below(m)
    BY <2>1, <2>2, FS_Subset
  <2>5. m = n
    BY <1>1, <2>1, <2>3, <2>4
  <2> QED
    BY <2>2, <2>3, <2>4, <2>5
<1>5. PICK j \in Slice(f) : Entry(f, i, j) /\ Data[f][j] \in Available(d)
  BY <1>2 DEF Has
<1>6. j = i
  <2>1. j \in 1..n /\ i \in 1..n
    BY <1>1
  <2>2. Below(j) = 1..(j - 1)
    <3>1. \A l \in 1..(j - 1) : l \in 1..(n - 1) /\ l < j
      BY <1>1, <2>1
    <3> QED
      BY <1>1, <1>4, <3>1
  <2>3. Cardinality(1..(j - 1)) = j - 1
    <3>1. j \in Nat /\ j >= 1
      BY <1>1
    <3> QED
      BY <3>1, FS_Interval
  <2>4. Cardinality(Below(j)) = i - 1
    BY <1>5 DEF Entry
  <2> HIDE DEF Below
  <2>5. j - 1 = i - 1
    BY <2>2, <2>3, <2>4
  <2>6. i \in Int /\ j \in Int
    BY <1>1, <2>1
  <2> QED
    BY <2>5, <2>6
<1> QED
  BY <1>5, <1>6

\* The slices of a set are finitely many.
LEMMA SlicesFinite == ASSUME NEW d \in Disk PROVE IsFiniteSet(MissingSlices(d))
<1> DEFINE Numbers == {Slice(g) : g \in File}
<1>1. IsFiniteSet(File)
  BY SetAssumption
<1>2. \A N \in Numbers : IsFiniteSet(N)
  <2>1. ASSUME NEW g \in File PROVE IsFiniteSet(Slice(g))
    <3>1. Slice(g) = 1..Len(Data[g]) /\ 1 \in Int /\ Len(Data[g]) \in Int
      BY DataIsContent DEF Slice
    <3>2. IsFiniteSet(1..Len(Data[g]))
      BY <3>1, FS_Interval
    <3> QED
      BY <3>1, <3>2
  <2> QED
    BY <2>1
<1>3. IsFiniteSet(Numbers)
  <2>1. [g \in File |-> Slice(g)] \in Surjection(File, Numbers)
    BY DEF Surjection
  <2> QED
    BY <1>1, <2>1, FS_Surjection
<1>4. IsFiniteSet(UNION Numbers)
  BY <1>2, <1>3, FS_UNION
<1>5. IsFiniteSet(File \X UNION Numbers)
  BY <1>1, <1>4, FS_Product
<1>6. MissingSlices(d) \in SUBSET (File \X UNION Numbers)
  BY MissingSlicesMember DEF Slices, Slice
<1> QED
  BY <1>5, <1>6, FS_Subset

\* The blocks of an intact file are in it, and a pass finds them there.
LEMMA IntactHasBlocks ==
  ASSUME NEW d \in Disk, NEW f \in File, d[f] = Data[f]
  PROVE  /\ HoldsBlocks(d, f)
         /\ \A i \in Slice(f) : Data[f][i] \in Available(d)
<1>1. Exists(d, f)
  BY DataIsContent DEF Exists
<1>2. OwnScan(d, f) = Slice(f)
  BY IntactIsScanned
<1>3. OwnBlocks(d, f) \subseteq Available(d)
  BY DEF Available
<1> QED
  BY <1>1, <1>2, <1>3 DEF HoldsBlocks, OwnBlocks, Slice

\* A pass depends on the protected and the extra files only.
LEMMA SameView ==
  ASSUME NEW d, NEW e, \A p \in File \cup ExtraPaths : d[p] = e[p]
  PROVE  Available(d) = Available(e)
<1>1. \A f \in File : d[f] = e[f]
  OBVIOUS
<1>2. \A k \in DOMAIN Extras : d[Extras[k]] = e[Extras[k]]
  BY DEF ExtraPaths
<1>3. \A f \in File : OwnScan(d, f) = OwnScan(e, f)
  BY <1>1 DEF OwnScan, Exists
<1>4. \A f \in File : OwnBlocks(d, f) = OwnBlocks(e, f)
  BY <1>1, <1>3 DEF OwnBlocks
<1>5. \A f \in File : FoundBlocks(d, f) = FoundBlocks(e, f)
  BY <1>1, <1>3 DEF FoundBlocks
<1>6. \A f \in File : ScanStatus(d, f) = ScanStatus(e, f)
  BY <1>1, <1>4, <1>5 DEF ScanStatus, Exists
<1>7. \A c : RenameCandidate(d, c) = RenameCandidate(e, c)
  BY <1>6 DEF RenameCandidate, CanUseRenamed
<1>8. ScannedExtras(d) = ScannedExtras(e)
  BY <1>2, <1>7 DEF ScannedExtras, Exists
<1>9. \A k \in DOMAIN Extras : ExtraBlocks(d, k) = ExtraBlocks(e, k)
  BY <1>2 DEF ExtraBlocks
<1> QED
  BY <1>4, <1>8, <1>9 DEF Available, ScannedExtras

\* A file that is as the pass saw it and misses nothing has its blocks, if what
\* was read for them was right: where the offset belongs to an extra file, the
\* block can be found there, too.
LEMMA UntouchedHasBlocks ==
  ASSUME NEW d \in Disk, d = scanned, NEW e \in Disk, ~RenameOnly,
         WrongInputs(d) = {}, NEW f \in File, Missing(d, f) = {}, e[f] = d[f],
         \A p \in ExtraPaths : e[p] = d[p]
  PROVE  HoldsBlocks(e, f) /\ Findable(e, f)
<1>1. \A i \in Slice(f) : InputCell(d, f, i) = Data[f][i]
  <2>1. ASSUME NEW i \in Slice(f)
        PROVE  <<f, i>> \in Slices \ MissingSlices(scanned)
    BY DEF Slices, MissingSlices
  <2>2. ASSUME NEW i \in Slice(f), InputCell(d, f, i) # Data[f][i]
        PROVE  <<f, i>> \in WrongInputs(d)
    BY <2>1, <2>2 DEF WrongInputs
  <2> QED
    BY <2>2
<1>2. HoldsBlocks(e, f)
  BY <1>1 DEF HoldsBlocks, InputCell, Exists
<1>3. ASSUME NEW i \in Slice(f), Data[f][i] # Zero
      PROVE  Data[f][i] \in Available(e)
  <2> DEFINE extras == {k \in ScannedExtras(d) : Data[f][i] \in ExtraBlocks(d, k)}
             own == {p \in OwnScan(d, f) : d[f][p] = Data[f][i]}
  <2>1. OwnScan(e, f) = OwnScan(d, f) /\ OwnBlocks(e, f) \subseteq Available(e)
    BY DEF OwnScan, Exists, Available
  <2>2. CASE extras # {}
    <3>1. PICK k \in ScannedExtras(d) : Data[f][i] \in ExtraBlocks(d, k)
      BY <2>2
    <3>2. k \in DOMAIN Extras /\ e[Extras[k]] = d[Extras[k]]
      BY <3>1 DEF ScannedExtras, ExtraPaths
    <3>3. k \in ScannedExtras(e) /\ ExtraBlocks(e, k) = ExtraBlocks(d, k)
      BY <3>1, <3>2 DEF ScannedExtras, ExtraBlocks, Exists
    <3> QED
      BY <3>1, <3>3 DEF Available
  <2>3. CASE own # {}
    BY <2>1, <2>3 DEF OwnBlocks
  <2>4. CASE extras = {} /\ own = {}
    <3>1. Position(d, f, i) = i
      BY <2>4 DEF Position
    <3>2. Exists(d, f) /\ i \in DOMAIN d[f] /\ d[f][i] = Data[f][i]
      BY <1>1, <1>3, <3>1 DEF InputCell
    <3>3. i <= Len(Data[f]) /\ Data[f][i] \in Protected
      BY DataIsContent DEF Slice, Protected
    <3>4. i \in OwnScan(d, f)
      BY <3>2, <3>3 DEF OwnScan, Scan
    <3> QED
      BY <2>4, <3>2, <3>4
  <2> QED
    BY <2>2, <2>3, <2>4
<1> QED
  BY <1>2, <1>3 DEF Findable

\* Whether a MD5 answers for a file is settled by the pass.
LEMMA AnsweredStays ==
  ASSUME UNCHANGED scanned, NEW f PROVE Answered(f)' <=> Answered(f)
BY DEF Answered, ErrorsShow, WrongInputs, InputCell

-----------------------------------------------------------------------------
(* The invariant is kept by every action *)

\* A set that is verified to be complete is.
LEMMA CompleteSet ==
  ASSUME NEW d \in Disk, VerificationComplete(d)
  PROVE  \A f \in File : d[f] = Data[f] /\ HoldsBlocks(d, f) /\ Findable(d, f)
<1>1. \A f \in File : d[f] = Data[f]
  BY PresentIsIntact DEF VerificationComplete
<1> QED
  BY <1>1, IntactHasBlocks DEF Findable

\* An announcement that is true when it is made.
LEMMA AnnouncementHolds ==
  ASSUME SInv, pc \notin {"purge", "exit", "crashed"}, NEW result \in Outcomes \ {"none"},
         Stop(result), UNCHANGED <<disk, par2>>,
         result = "success" =>
           \A f \in File : Answered(f)' => HoldsBlocks(disk, f),
         result \in {"success", "not_needed"} =>
           \A f \in File : Answered(f)' => Findable(disk, f),
         RenameOnly /\ result \in {"success", "not_needed"} =>
           \A f \in File : disk[f] = Data[f]
  PROVE  RewriteInv' /\ PlanInv' /\ ResultInv'
<1>1. /\ outcome' = result /\ pc' \in {"purge", "exit"} /\ par2 /\ par2'
      /\ pc' = "purge" => result \in {"success", "not_needed"}
  BY DEF Stop, SInv, ResultInv
<1>2. RewriteInv' /\ PlanInv'
  BY <1>1 DEF RewriteInv, PlanInv, Writing
<1>3. ResultInv'
  BY <1>1 DEF ResultInv, HoldsBlocks, Findable
<1> QED
  BY <1>2, <1>3

\* The result of -O.
LEMMA RenameOnlyAnnounces ==
  ASSUME SInv, pc \notin {"purge", "exit", "crashed"},
         Stop(RenameOnlyResult(disk)), UNCHANGED <<disk, par2>>
  PROVE  RewriteInv' /\ PlanInv' /\ ResultInv'
<1> DEFINE result == RenameOnlyResult(disk)
<1>1. disk \in Disk /\ result \in Outcomes \ {"none"}
  BY DEF SInv, IInv, TypeOK, RenameOnlyResult, Outcomes
<1>2. result \in {"success", "not_needed"} => VerificationComplete(disk)
  BY DEF RenameOnlyResult
<1> HIDE DEF result
<1>3. Stop(result)
  BY DEF result
<1>4. result \in {"success", "not_needed"} =>
        \A f \in File : /\ disk[f] = Data[f]
                        /\ HoldsBlocks(disk, f) /\ Findable(disk, f)
  BY <1>1, <1>2, CompleteSet
<1> QED
  BY <1>1, <1>3, <1>4, AnnouncementHolds

\* A step to a place from which nothing has been announced or rewritten.
LEMMA QuietStep ==
  ASSUME SInv, pc \notin {"purge", "exit", "crashed"},
         UNCHANGED <<par2, outcome>>,
         pc' \notin {"purge", "exit"} \cup Writing,
         pc' \in {"plan", "reconstruct"} => ~RenameOnly,
         pc' = "reconstruct" => MissingSlices(scanned') # {}
  PROVE  RewriteInv' /\ PlanInv' /\ ResultInv'
<1>1. outcome' = "none" /\ par2'
  BY DEF SInv, ResultInv
<1> QED
  BY <1>1 DEF RewriteInv, PlanInv, ResultInv

LEMMA ScanAnnounces ==
  ASSUME SInv, FirstScan \/ SecondScan
  PROVE  RewriteInv' /\ PlanInv' /\ ResultInv'
<1>1. pc \in {"scan", "rescan"} /\ UNCHANGED <<disk, par2>> /\ disk \in Disk
  BY DEF FirstScan, SecondScan, SInv, IInv, TypeOK
<1>2. CASE pc' \in {"restore", "plan"} /\ UNCHANGED outcome
           /\ (pc' = "plan" => ~RenameOnly)
  BY <1>1, <1>2, QuietStep DEF Writing
<1>3. CASE Stop(RenameOnlyResult(disk))
  BY <1>1, <1>3, RenameOnlyAnnounces
<1>4. CASE VerificationComplete(disk) /\ Stop("success")
  <2>1. \A f \in File : /\ disk[f] = Data[f]
                        /\ HoldsBlocks(disk, f) /\ Findable(disk, f)
    BY <1>1, <1>4, CompleteSet
  <2>2. "success" \in Outcomes \ {"none"}
    BY DEF Outcomes
  <2> QED
    BY <1>1, <1>4, <2>1, <2>2, AnnouncementHolds
<1> QED
  BY <1>2, <1>3, <1>4 DEF FirstScan, SecondScan

LEMMA RestoreAnnounces ==
  ASSUME SInv, NEW f \in File, Restore(f)
  PROVE  RewriteInv' /\ PlanInv' /\ ResultInv'
<1>1. CASE RestoreFails(f)
  <2>1. outcome' = "error" /\ pc' = "exit" /\ par2' = par2
        /\ pc \in {"restore", "move", "copy", "remove"}
    BY <1>1 DEF RestoreFails, Stop
  <2>2. par2'
    BY <2>1 DEF SInv, ResultInv
  <2> QED
    BY <2>1, <2>2 DEF RewriteInv, PlanInv, ResultInv, Writing
<1>2. CASE ~RestoreFails(f)
  <2>1. /\ pc \in {"restore", "move", "copy", "remove"}
        /\ pc' \in {"restore", "move", "copy", "remove", "rescan"}
        /\ UNCHANGED <<par2, outcome>>
    BY <1>2 DEF Restore, BackupTarget, MoveRenamed, OpenCopy, CopyRenamed,
                RemoveCopied, MoveReady, FileRestored
  <2> QED
    BY <2>1, QuietStep DEF Writing
<1> QED
  BY <1>1, <1>2

LEMMA PlanAnnounces ==
  ASSUME SInv, Plan PROVE RewriteInv' /\ PlanInv' /\ ResultInv'
<1>1. /\ pc = "plan" /\ scanned = disk /\ disk \in Disk /\ ~RenameOnly
      /\ UNCHANGED <<disk, par2, scanned>>
  BY DEF Plan, SInv, IInv, ScanInv, TypeOK, PlanInv, memory
<1>2. CASE /\ Cardinality(MissingSlices(scanned)) # 0
           /\ pc' = "reconstruct" /\ UNCHANGED outcome
  <2>1. MissingSlices(scanned) # {}
    BY <1>2, FS_EmptySet
  <2> QED
    BY <1>1, <1>2, <2>1, QuietStep DEF Writing
<1>3. CASE Stop("failed")
  <2>1. "failed" \in Outcomes \ {"none"}
    BY DEF Outcomes
  <2> QED
    BY <1>1, <1>3, <2>1, AnnouncementHolds
<1>4. CASE Cardinality(MissingSlices(scanned)) = 0 /\ Stop("not_needed")
  <2>1. MissingSlices(disk) = {}
    BY <1>1, <1>4, SlicesFinite, FS_EmptySet
  <2>2. \A f \in File : Missing(disk, f) = {}
    BY <1>1, <2>1, MissingSlicesMember
  <2>3. \A f \in File : Findable(disk, f)
    BY <1>1, <2>2, NoneMissing DEF Findable
  <2>4. "not_needed" \in Outcomes \ {"none"}
    BY DEF Outcomes
  <2> QED
    BY <1>1, <1>4, <2>3, <2>4, AnnouncementHolds
<1> QED
  BY <1>2, <1>3, <1>4 DEF Plan

LEMMA ReconstructAnnounces ==
  ASSUME SInv, Reconstruct PROVE RewriteInv' /\ PlanInv' /\ ResultInv'
<1>1. /\ pc = "reconstruct" /\ pc' = "write" /\ ~RenameOnly
      /\ scanned = disk /\ disk \in Disk /\ repaired = {}
      /\ todo' = FilesToRepair(scanned) /\ MissingSlices(scanned) # {}
      /\ UNCHANGED <<disk, par2, scanned, repaired, failed, outcome>>
      /\ outcome = "none" /\ par2
  BY DEF Reconstruct, SInv, IInv, ScanInv, TypeOK, PlanInv, ResultInv,
         Writing
<1>2. /\ recon' \in [MissingSlices(scanned) -> Cell]
      /\ recon' = TrueSlices =>
           WrongInputs(disk) = {} \/ ~ErrorsShow(WrongInputs(disk))
  BY DEF Reconstruct
<1>3. ReconRight' => recon' = TrueSlices
  BY <1>1, <1>2 DEF ReconRight, TrueSlices
<1>4. ReconRight' => WrongInputs(scanned)' = {} \/ ~ErrorsShow(WrongInputs(scanned))'
  <2>1. /\ WrongInputs(scanned)' = WrongInputs(disk)
        /\ ErrorsShow(WrongInputs(scanned))' <=> ErrorsShow(WrongInputs(disk))
    BY <1>1 DEF WrongInputs, InputCell, ErrorsShow
  <2> QED
    BY <1>2, <1>3, <2>1
<1>5. RewriteInv'
  BY <1>1, <1>4 DEF RewriteInv
<1> QED
  BY <1>1, <1>5 DEF PlanInv, ResultInv

LEMMA ReconstructFailsAnnounces ==
  ASSUME SInv, ReconstructFails
  PROVE  RewriteInv' /\ PlanInv' /\ ResultInv'
<1>1. pc = "reconstruct" /\ Stop("error") /\ UNCHANGED <<disk, par2>>
  BY DEF ReconstructFails
<1>2. "error" \in Outcomes \ {"none"}
  BY DEF Outcomes
<1> QED
  BY <1>1, <1>2, AnnouncementHolds

\* A step of the loop that writes touches no file but the one whose turn it
\* is, and that one leaves the loop repaired or failed.
LEMMA WritingStep ==
  ASSUME SInv, pc \in Writing, pc' \in Writing, NEW f \in File,
         IsFirst(f, todo), UNCHANGED <<par2, scanned, recon, outcome>>,
         \A p \in (File \ {f}) \cup ExtraPaths : disk'[p] = disk[p],
         todo' \subseteq todo, repaired \subseteq repaired',
         failed \subseteq failed',
         todo \subseteq todo' \cup repaired' \cup failed',
         repaired' \subseteq repaired \/
           /\ repaired' \subseteq repaired \cup {f}
           /\ \A i \in Missing(scanned, f) : recon[<<f, i>>] = Data[f][i],
         pc' # "write" =>
           /\ todo' = todo
           /\ \A i \in Missing(scanned, f) :
                i \in DOMAIN out' => out'[i] = recon[<<f, i>>]
  PROVE  RewriteInv' /\ PlanInv' /\ ResultInv'
<1>1. f \in todo /\ todo \subseteq FilesToRepair(scanned) /\ todo \in SUBSET File
  BY DEF SInv, IInv, TypeOK, RewriteInv, IsFirst
<1>2. \A g \in todo : IsFirst(g, todo) => g = f
  BY <1>1, FirstIsUnique
<1>3. ~RenameOnly /\ outcome' = "none" /\ par2'
  BY DEF SInv, RewriteInv, ResultInv, Writing
<1>4. \A g \in File \ FilesToRepair(scanned) : disk'[g] = scanned[g]
  BY <1>1 DEF SInv, RewriteInv
<1>5. \A p \in ExtraPaths : disk'[p] = scanned[p]
  BY DEF SInv, RewriteInv
<1>6. \A g \in repaired' : \A i \in Missing(scanned, g) :
        recon[<<g, i>>] = Data[g][i]
  <2>1. \A g \in repaired : \A i \in Missing(scanned, g) :
          recon[<<g, i>>] = Data[g][i]
    BY DEF SInv, RewriteInv
  <2> QED
    BY <2>1
<1>7. FilesToRepair(scanned) \subseteq todo' \cup repaired' \cup failed'
  BY DEF SInv, RewriteInv
<1>8. pc' # "write" => \A g \in todo' : IsFirst(g, todo') =>
        \A i \in Missing(scanned, g) : i \in DOMAIN out' => out'[i] = recon[<<g, i>>]
  BY <1>2
<1>9. ReconRight' => WrongInputs(scanned)' = {}
                       \/ ~ErrorsShow(WrongInputs(scanned))'
  BY DEF SInv, RewriteInv, ReconRight, WrongInputs, InputCell, ErrorsShow
<1>10. RewriteInv'
  BY <1>1, <1>3, <1>4, <1>5, <1>6, <1>7, <1>8, <1>9 DEF RewriteInv, Current
<1> QED
  BY <1>1, <1>3, <1>10 DEF SInv, PlanInv, ResultInv, Writing

LEMMA WriteAnnounces ==
  ASSUME SInv, NEW f \in File, Write(f)
  PROVE  RewriteInv' /\ PlanInv' /\ ResultInv'
<1> DEFINE Told(o) == \A i \in Missing(scanned, f) :
                        i \in DOMAIN o => o[i] = recon[<<f, i>>]
           Others == \A p \in (File \ {f}) \cup ExtraPaths : disk'[p] = disk[p]
<1>1. /\ pc \in Writing /\ IsFirst(f, todo) /\ f \in todo /\ disk \in Disk
      /\ out \in Seq(Cell)
      /\ UNCHANGED <<par2, scanned, recon, outcome>>
  BY DEF Write, OpenTemp, WriteReconstructed, WriteSourced, WriteCell, NextSlice,
         FlushTemp, Publish, CheckMd5, WriteFails, Writing, SInv, IInv, TypeOK,
         Content, IsFirst, memory
<1>2. pc # "write" => Told(out)
  BY <1>1 DEF SInv, RewriteInv, Current
<1>3. /\ f \in Path /\ Temp[f] \in Path
      /\ \A p \in (File \ {f}) \cup ExtraPaths : p \in Path \ {f, Temp[f]}
  <2>1. ExtraPaths \subseteq Path
    BY SetAssumption DEF ExtraPaths
  <2> QED
    BY <2>1, PathFacts, SeparateAssumption
<1>4. ASSUME NEW c, disk' = [disk EXCEPT ![Temp[f]] = c] PROVE Others
  BY <1>1, <1>3, <1>4 DEF Disk
<1>5. CASE OpenTemp(f)
  <2>1. Others
    BY <1>4, <1>5 DEF OpenTemp
  <2>2. Told(out')
    <3>1. out' = <<>> /\ DOMAIN <<>> = {}
      BY <1>5 DEF OpenTemp
    <3> QED
      BY <3>1
  <2> QED
    BY <1>1, <1>5, <2>1, <2>2, WritingStep DEF OpenTemp, Writing
<1>6. ASSUME NEW i \in Slice(f), WriteReconstructed(f, i) \/ WriteSourced(f, i)
      PROVE  RewriteInv' /\ PlanInv' /\ ResultInv'
  <2>1. PICK c : WriteCell(f, c) /\ (i \in Missing(scanned, f) => c = recon[<<f, i>>])
    BY <1>6 DEF WriteReconstructed, WriteSourced
  <2>2. pc = "stream" /\ i = Len(out) + 1
    BY <1>6 DEF WriteReconstructed, WriteSourced, NextSlice
  <2>3. out' = Append(out, c) /\ disk' = disk
    BY <2>1 DEF WriteCell
  <2>4. Told(out')
    <3>1. DOMAIN Append(out, c) = DOMAIN out \cup {i} /\ Append(out, c)[i] = c
      BY <1>1, <2>2
    <3>2. \A j \in DOMAIN out : Append(out, c)[j] = out[j]
      BY <1>1
    <3> QED
      BY <1>2, <2>1, <2>2, <2>3, <3>1, <3>2
  <2> QED
    BY <1>1, <2>1, <2>2, <2>3, <2>4, WritingStep DEF WriteCell
<1>7. CASE FlushTemp(f)
  <2>1. Others /\ Told(out')
    BY <1>2, <1>4, <1>7 DEF FlushTemp, memory
  <2> QED
    BY <1>1, <1>7, <2>1, WritingStep DEF FlushTemp, Writing, memory
<1>8. CASE Publish(f)
  <2>1. Others
    BY <1>1, <1>3, <1>8 DEF Publish, Move, Disk
  <2>2. Told(out')
    BY <1>2, <1>8 DEF Publish, memory
  <2> QED
    BY <1>1, <1>8, <2>1, <2>2, WritingStep DEF Publish, Writing, memory
<1>9. CASE CheckMd5(f)
  <2>1. Others /\ pc' = "write" /\ todo' = todo \ {f}
    BY <1>9 DEF CheckMd5
  <2>2. CASE out = Data[f]
    <3>1. ASSUME NEW i \in Missing(scanned, f) PROVE recon[<<f, i>>] = Data[f][i]
      BY <1>2, <1>9, <2>2 DEF CheckMd5, Missing, Slice
    <3> QED
      BY <1>1, <1>9, <2>1, <2>2, <3>1, WritingStep DEF CheckMd5, Writing
  <2>3. CASE out # Data[f]
    BY <1>1, <1>9, <2>1, <2>3, WritingStep DEF CheckMd5, Writing
  <2> QED
    BY <2>2, <2>3
<1>10. CASE WriteFails(f)
  <2>1. Others /\ pc' = "write" /\ todo' = todo \ {f}
    BY <1>4, <1>10 DEF WriteFails
  <2> QED
    BY <1>1, <1>10, <2>1, WritingStep DEF WriteFails, Writing
<1> QED
  BY <1>5, <1>6, <1>7, <1>8, <1>9, <1>10 DEF Write

\* When nothing failed every file that had to be is rewritten and has its
\* MD5, so the slices came out right, so what was read for them was right if
\* errors in it would have shown, so the files that were not rewritten hold
\* their blocks, too.
LEMMA FinishAnnounces ==
  ASSUME SInv, Finish PROVE RewriteInv' /\ PlanInv' /\ ResultInv'
<1>1. /\ pc = "write" /\ todo = {} /\ UNCHANGED <<disk, par2>>
      /\ disk \in Disk /\ scanned \in Disk /\ ~RenameOnly /\ RewriteInv
      /\ MissingSlices(scanned) # {} /\ UNCHANGED scanned
      /\ {"success", "failed"} \subseteq Outcomes \ {"none"}
  BY DEF Finish, SInv, IInv, TypeOK, RewriteInv, PlanInv, Writing, Outcomes,
         memory
<1>2. CASE failed # {}
  <2>1. Stop("failed")
    BY <1>2 DEF Finish
  <2> QED
    BY <1>1, <2>1, AnnouncementHolds
<1>3. CASE failed = {}
  <2>1. FilesToRepair(scanned) \subseteq repaired
    BY <1>1, <1>3 DEF RewriteInv, Writing
  <2>2. ReconRight
    <3>1. ASSUME NEW s \in MissingSlices(scanned)
          PROVE  recon[s] = Data[s[1]][s[2]]
      <4>1. /\ s[1] \in File /\ s[2] \in Missing(scanned, s[1])
            /\ s = <<s[1], s[2]>>
        BY <1>1, MissingSlicesMember DEF MissingSlices, Slices
      <4>2. s[1] \in repaired
        BY <1>1, <2>1, <4>1, MissingIsRepaired
      <4> QED
        BY <1>1, <4>1, <4>2 DEF RewriteInv, Writing
    <3> QED
      BY <3>1 DEF ReconRight
  <2>3. ErrorsShow(WrongInputs(scanned)) => WrongInputs(scanned) = {}
    BY <1>1, <2>2 DEF RewriteInv, Writing
  <2>4. ASSUME NEW f \in File, Answered(f)'
        PROVE  HoldsBlocks(disk, f) /\ Findable(disk, f)
    <3>1. CASE f \in FilesToRepair(scanned)
      <4>1. disk[f] = Data[f]
        BY <2>1, <3>1 DEF SInv, IInv, MendedFilesAreWhole
      <4> QED
        BY <1>1, <4>1, IntactHasBlocks DEF Findable
    <3>2. CASE f \notin FilesToRepair(scanned)
      <4>1. Missing(scanned, f) = {} /\ disk[f] = scanned[f]
        BY <1>1, <3>2, MissingIsRepaired DEF RewriteInv, Writing
      <4>2. \A p \in ExtraPaths : disk[p] = scanned[p]
        BY <1>1 DEF RewriteInv, Writing
      <4>3. WrongInputs(scanned) = {}
        BY <1>1, <2>3, <2>4, <4>1, AnsweredStays DEF Answered
      <4> QED
        BY <1>1, <4>1, <4>2, <4>3, UntouchedHasBlocks
    <3> QED
      BY <3>1, <3>2
  <2>5. Stop("success")
    BY <1>3 DEF Finish
  <2> QED
    BY <1>1, <2>4, <2>5, AnnouncementHolds
<1> QED
  BY <1>2, <1>3

\* Removing backups takes nothing from the targets and the extra files.
LEMMA PurgeBackupAnnounces ==
  ASSUME SInv, PurgeBackup PROVE RewriteInv' /\ PlanInv' /\ ResultInv'
<1>1. /\ pc = "purge" /\ pc' = "purge" /\ UNCHANGED <<outcome, par2, scanned>>
      /\ disk \in Disk /\ Head(backups) \in BackupPaths
      /\ disk' = [disk EXCEPT ![Head(backups)] = Absent]
      /\ ResultInv
  BY DEF PurgeBackup, SInv, IInv, BackupInv, TypeOK
<1>2. \A p \in File \cup ExtraPaths : disk'[p] = disk[p]
  <2>1. File \cup ExtraPaths \subseteq Path \ {Head(backups)}
    BY <1>1, PathFacts, SetAssumption DEF ExtraPaths
  <2> QED
    BY <1>1, <2>1 DEF Disk
<1>3. Available(disk') = Available(disk)
  BY <1>2, SameView
<1>4. \A f \in File : HoldsBlocks(disk, f) => HoldsBlocks(disk', f)
  BY <1>2 DEF HoldsBlocks, Exists
<1>5. \A f \in File : Findable(disk, f) => Findable(disk', f)
  BY <1>3 DEF Findable
<1>6. RewriteInv' /\ PlanInv'
  BY <1>1 DEF RewriteInv, PlanInv, Writing
<1>7. ResultInv'
  BY <1>1, <1>2, <1>4, <1>5, AnsweredStays DEF ResultInv
<1> QED
  BY <1>6, <1>7

LEMMA PurgeAnnounces ==
  ASSUME SInv, PurgeSet \/ PurgeRest \/ PurgeFails
  PROVE  RewriteInv' /\ PlanInv' /\ ResultInv'
<1>1. /\ pc = "purge" /\ pc' \in {"purge", "exit"} /\ UNCHANGED <<disk, scanned>>
      /\ outcome' = outcome \/ (outcome' = "error" /\ pc' = "exit" /\ par2' = par2)
      /\ outcome \in {"success", "not_needed"} /\ ResultInv
  BY DEF PurgeSet, PurgeRest, PurgeFails, SInv, ResultInv, memory
<1>2. RewriteInv' /\ PlanInv'
  BY <1>1 DEF RewriteInv, PlanInv, Writing
<1>3. ResultInv'
  BY <1>1, AnsweredStays DEF ResultInv, HoldsBlocks, Findable
<1> QED
  BY <1>2, <1>3

\* A process that is killed may have started to purge; another one is only
\* started on PAR2 files that are all there.
LEMMA RestartAnnounces ==
  ASSUME SInv, Crash \/ Rerun
  PROVE  RewriteInv' /\ PlanInv' /\ ResultInv'
<1>1. /\ outcome' = "none" /\ UNCHANGED <<par2, scanned>> /\ ResultInv
      /\ pc' \in {"crashed", "scan"}
  BY DEF Crash, Rerun, NewProcess, SInv
<1>2. RewriteInv' /\ PlanInv'
  BY <1>1 DEF RewriteInv, PlanInv, Writing
<1>3. CASE par2
  BY <1>1, <1>2, <1>3 DEF ResultInv
<1>4. CASE ~par2
  <2>1. pc = "purge" /\ pc' = "crashed" /\ UNCHANGED disk
    BY <1>1, <1>4 DEF Crash, Rerun, ResultInv
  <2> QED
    BY <1>1, <1>2, <1>4, <2>1, AnsweredStays DEF ResultInv, Findable
<1> QED
  BY <1>2, <1>3, <1>4

LEMMA NextKeepsSuccess == ASSUME SInv, [Next]_vars PROVE SInv'
<1>1. IInv'
  BY NextKeeps DEF SInv
<1>2. RewriteInv' /\ PlanInv' /\ ResultInv'
  <2>1. CASE Step
    BY <2>1, ScanAnnounces, PlanAnnounces, ReconstructAnnounces,
       ReconstructFailsAnnounces, RestoreAnnounces, WriteAnnounces,
       FinishAnnounces, PurgeBackupAnnounces, PurgeAnnounces
    DEF Step
  <2>2. CASE Crash \/ Rerun
    BY <2>2, RestartAnnounces
  <2>3. CASE UNCHANGED vars
    BY <2>3 DEF vars, memory, SInv, RewriteInv, PlanInv, ResultInv,
                ReconRight, Current, HoldsBlocks, Findable, Answered,
                WrongInputs, InputCell, ErrorsShow
  <2> QED
    BY <2>1, <2>2, <2>3 DEF Next
<1> QED
  BY <1>1, <1>2 DEF SInv

LEMMA AlwaysSInv == Spec => []SInv
<1>1. Init => SInv
  BY InitHolds DEF Init, SInv, RewriteInv, PlanInv, ResultInv, Writing
<1> QED
  BY <1>1, NextKeepsSuccess, PTL DEF Spec

-----------------------------------------------------------------------------
(* What follows from it *)

\* Success is only reported when every block of a rewritten file is in its own
\* target, or is of zeros; and so is every block of the files that were not
\* rewritten, unless so much of what was read was wrong that errors can cancel
\* out: up to there the MD5s of what was rewritten vouch for what was not.
THEOREM SuccessIsRecovery == Spec => []SuccessMeansRecovered
<1>1. SInv => SuccessMeansRecovered
  BY DEF SInv, ResultInv, SuccessMeansRecovered
<1> QED
  BY <1>1, AlwaysSInv, PTL

\* The recovery data is only deleted when every block can be found without it,
\* with the same exception, also when the purge fails or is cut short.
THEOREM PurgeIsSafe == Spec => []PurgeKeepsData
<1>1. SInv => PurgeKeepsData
  BY DEF SInv, ResultInv, Findable, PurgeKeepsData
<1> QED
  BY <1>1, AlwaysSInv, PTL

\* With -O a successful result is only reported of a set that is whole, and
\* the purge leaves it whole.
THEOREM RenameOnlyIsValid == Spec => []RenamedSetIsValid
<1>1. SInv => RenamedSetIsValid
  BY DEF SInv, ResultInv, RenamedSetIsValid
<1> QED
  BY <1>1, AlwaysSInv, PTL

-----------------------------------------------------------------------------
(* The inductive invariant: no block is lost *)

InExtras(d) == UNION {ExtraBlocks(d, k) : k \in ScannedExtras(d)}

\* What has been written for f so far is of f or of no file; and it has every
\* block that was found in f, unless that is in an extra file.
Kept(f) ==
  /\ OwnCells(f, out)
  /\ \A i \in DOMAIN out :
       /\ i \in Slice(f)
       /\ Data[f][i] \in OwnBlocks(scanned, f) =>
            out[i] = Data[f][i] \/ Data[f][i] \in InExtras(scanned)

\* A file waiting to be restored has its copy still.
WaitingInv ==
  pc \in Restoring => \A f \in todo : disk[MatchedPath(scanned, f)] = Data[f]

\* A file waiting to be rewritten is as the pass saw it.
SourceInv ==
  pc \in Writing =>
    /\ OwnContent(scanned)
    /\ \A f \in todo : disk[f] = scanned[f] \/ (pc = "check" /\ Current(f))
    /\ \A s \in MissingSlices(scanned) :
         recon[s] = Data[s[1]][s[2]] \/ recon[s] \notin Protected
    /\ pc \in {"stream", "publish"} => \A f \in todo : Current(f) => Kept(f)
    /\ pc = "publish" => \A f \in todo : Current(f) => Len(out) = Len(Data[f])

BInv ==
  /\ SInv
  /\ RInv
  /\ OwnContent(disk)
  /\ WaitingInv
  /\ SourceInv

-----------------------------------------------------------------------------
(* Lemmas about a verification pass *)

\* The greatest of finitely many numbers is one of them.
LEMMA MaxIsMember ==
  ASSUME NEW S \in SUBSET Nat, IsFiniteSet(S), S # {} PROVE Max(S) \in S
<1> DEFINE n == Cardinality(S) - 1
           r == [x \in S |-> x]
<1>1. Cardinality(S) \in Nat /\ Cardinality(S) # 0
  BY FS_EmptySet, FS_CardinalityType
<1>2. n \in Nat /\ n < Cardinality(S)
  BY <1>1
<1>3. r \in [S -> Nat] /\ \A x, y \in S : r[x] = r[y] => x = y
  <2>1. \A x \in S : r[x] = x /\ x \in Nat
    OBVIOUS
  <2>2. r \in [S -> Nat]
    OBVIOUS
  <2> QED
    BY <2>1, <2>2
<1> HIDE DEF n
<1>4. PICK x \in S : Cardinality(Before(S, r, x)) = n
  <2> HIDE DEF r
  <2> QED
    BY <1>2, <1>3, EveryPlaceTaken
<1>5. Before(S, r, x) \in SUBSET (S \ {x})
  BY DEF Before
<1>6. IsFiniteSet(S \ {x}) /\ Cardinality(S \ {x}) = n
  BY FS_RemoveElement DEF n
<1>7. Before(S, r, x) = S \ {x}
  BY <1>4, <1>5, <1>6, FS_Subset
<1>8. \A y \in S : x >= y
  <2>1. ASSUME NEW y \in S PROVE x >= y
    <3>1. x \in Nat /\ y \in Nat /\ r[x] = x /\ r[y] = y
      OBVIOUS
    <3>2. y # x => r[y] < r[x]
      <4> HIDE DEF r
      <4> QED
        BY <1>7 DEF Before
    <3> HIDE DEF r
    <3> QED
      BY <3>1, <3>2
  <2> QED
    BY <2>1
<1> QED
  BY <1>8 DEF Max

\* A block found in a file, and in no extra file, is at its recorded offset.
LEMMA OwnPosition ==
  ASSUME NEW d \in Disk, NEW f \in File, NEW i \in Slice(f),
         Data[f][i] \in OwnBlocks(d, f), Data[f][i] \notin InExtras(d)
  PROVE  /\ Exists(d, f) /\ Position(d, f, i) \in DOMAIN d[f]
         /\ d[f][Position(d, f, i)] = Data[f][i]
<1> DEFINE extras == {k \in ScannedExtras(d) : Data[f][i] \in ExtraBlocks(d, k)}
           own == {p \in OwnScan(d, f) : d[f][p] = Data[f][i]}
<1>1. extras = {}
  BY DEF InExtras
<1>2. own # {}
  BY DEF OwnBlocks
<1>3. Exists(d, f)
  BY <1>2 DEF OwnScan
<1>4. OwnScan(d, f) \subseteq DOMAIN d[f]
  BY DEF OwnScan, Scan, AlignedScan
<1>5. d[f] \in Seq(Cell)
  BY <1>3, PathFacts DEF Exists, Disk, Content
<1>6. own \in SUBSET (1..Len(d[f])) /\ Len(d[f]) \in Nat
  BY <1>4, <1>5
<1>7. IsFiniteSet(1..Len(d[f]))
  <2>1. 1 \in Int /\ Len(d[f]) \in Int
    BY <1>6
  <2> QED
    BY <2>1, FS_Interval
<1>8. IsFiniteSet(own) /\ own \in SUBSET Nat
  BY <1>6, <1>7, FS_Subset
<1>9. Position(d, f, i) = Max(own)
  BY <1>1, <1>2 DEF Position
<1> HIDE DEF own
<1>10. Max(own) \in own
  BY <1>2, <1>8, MaxIsMember
<1> QED
  BY <1>3, <1>4, <1>9, <1>10 DEF own

\* Of a plain file each position lists the block of that number.
LEMMA PlainEntryIsOwn ==
  ASSUME NEW f \in File, Plain(f), NEW i \in Slice(f), NEW j \in Slice(f),
         Entry(f, i, j)
  PROVE  j = i
<1> DEFINE Below == {l \in Owned[f] : l < j}
<1>1. Slice(f) = 1..Len(Data[f]) /\ Len(Data[f]) \in Nat
  BY DataIsContent DEF Slice
<1>2. Below = 1..(j - 1)
  BY <1>1 DEF Plain
<1>3. Cardinality(1..(j - 1)) = j - 1
  <2>1. j \in Nat /\ j >= 1
    BY <1>1
  <2> QED
    BY <2>1, FS_Interval
<1>4. Cardinality(Below) = i - 1
  BY DEF Entry
<1> HIDE DEF Below
<1>5. j - 1 = i - 1
  BY <1>2, <1>3, <1>4
<1>6. i \in Int /\ j \in Int
  BY <1>1
<1> QED
  BY <1>5, <1>6

\* A missing block of a plain file is nowhere to be found.
LEMMA MissingIsNowhere ==
  ASSUME NEW d \in Disk, NEW f \in File, Plain(f), NEW i \in Missing(d, f)
  PROVE  /\ i \in Slice(f) /\ Data[f][i] \notin Available(d)
         /\ Data[f][i] \notin OwnBlocks(d, f)
<1>1. i \in Slice(f) /\ ~Has(f, i, Available(d))
  BY DEF Missing
<1>2. OwnBlocks(d, f) \subseteq Available(d)
  BY DEF Available
<1> QED
  BY <1>1, <1>2, PlainEntries

\* What is found in a file is protected.
LEMMA FoundIsProtected ==
  ASSUME NEW d \in Disk, NEW f \in File, NEW c \in OwnBlocks(d, f)
  PROVE  /\ Exists(d, f) /\ c \in Protected
         /\ \E p \in DOMAIN d[f] : d[f][p] = c
<1>1. PICK p \in OwnScan(d, f) : c = d[f][p]
  BY DEF OwnBlocks
<1>2. Exists(d, f) /\ p \in DOMAIN d[f]
  BY <1>1 DEF OwnScan, Scan, AlignedScan
<1>3. c \in Protected
  <2>1. CASE p \in AlignedScan(d[f])
    <3>1. d[f] \in Seq(Cell)
      BY <1>2, PathFacts DEF Exists, Disk, Content
    <3>2. p \in 1..p
      BY <1>2, <3>1
    <3> QED
      BY <1>1, <2>1, <3>2 DEF AlignedScan
  <2>2. CASE p \notin AlignedScan(d[f])
    BY <1>1, <1>2, <2>2 DEF OwnScan, Scan
  <2> QED
    BY <2>1, <2>2
<1> QED
  BY <1>1, <1>2, <1>3

\* The blocks of a file can be found if the file or an extra file has its
\* content.
LEMMA ContentIsAvailable ==
  ASSUME NEW d \in Disk, ~RenameOnly, NEW f \in File,
         NEW p \in ExtraPaths \cup {f}, d[p] = Data[f], NEW i \in Slice(f)
  PROVE  Data[f][i] \in Available(d)
<1>1. CASE p = f
  BY <1>1, IntactHasBlocks
<1>2. CASE p \in ExtraPaths
  <2>1. PICK k \in DOMAIN Extras : p = Extras[k]
    BY <1>2 DEF ExtraPaths
  <2>2. k \in ScannedExtras(d)
    BY <2>1, DataIsContent DEF ScannedExtras, Exists
  <2>3. i \in DOMAIN Data[f] /\ i <= Len(Data[f]) /\ Data[f][i] \in Protected
    BY DataIsContent DEF Slice, Protected
  <2>4. Data[f][i] \in ExtraBlocks(d, k)
    BY <2>1, <2>3 DEF ExtraBlocks, Scan
  <2> QED
    BY <2>2, <2>4 DEF Available
<1> QED
  BY <1>1, <1>2

\* Two files are not matched to the same extra file.
LEMMA MatchedOnce ==
  ASSUME NEW d \in Disk, NEW f \in Renamed(d), NEW g \in Renamed(d),
         MatchedPath(d, f) = MatchedPath(d, g)
  PROVE  f = g
<1>1. /\ f \in File /\ \E j \in DOMAIN Extras : MatchedExtra(d, f, j)
      /\ g \in File /\ \E j \in DOMAIN Extras : MatchedExtra(d, g, j)
  BY DEF Renamed
<1>2. PICK k \in DOMAIN Extras : /\ MatchedExtra(d, f, k)
                                 /\ MatchedPath(d, f) = Extras[k]
  BY <1>1 DEF MatchedPath
<1>3. PICK j \in DOMAIN Extras : /\ MatchedExtra(d, g, j)
                                 /\ MatchedPath(d, g) = Extras[j]
  BY <1>1 DEF MatchedPath
<1>4. j = k
  BY <1>2, <1>3, SetAssumption
<1>5. Data[f] = d[Extras[k]] /\ Data[g] = d[Extras[k]]
  BY <1>2, <1>3, <1>4 DEF MatchedExtra
<1> DEFINE F == Needing(d, Data[f])
           E == Having(d, Data[f])
           place(h) == Cardinality(Before(F, FileRank(F), h))
<1>6. f \in F /\ g \in F /\ place(f) = place(g)
  <2>1. /\ f \in F /\ k \in E
        /\ Cardinality(Before(E, ExtraRank(E), k)) = place(f)
    BY <1>1, <1>2, MatchedByPlace
  <2>2. /\ g \in Needing(d, Data[g])
        /\ Cardinality(Before(Having(d, Data[g]),
                              ExtraRank(Having(d, Data[g])), k))
             = Cardinality(Before(Needing(d, Data[g]),
                                  FileRank(Needing(d, Data[g])), g))
    BY <1>1, <1>3, <1>4, MatchedByPlace
  <2>3. Data[g] = Data[f]
    BY <1>5
  <2>4. g \in F /\ Cardinality(Before(E, ExtraRank(E), k)) = place(g)
    BY <2>2, <2>3
  <2> QED
    BY <2>1, <2>4
<1>7. /\ IsFiniteSet(F) /\ FileRank(F) \in [F -> Nat]
      /\ \A x, y \in F : FileRank(F)[x] = FileRank(F)[y] => x = y
  BY RanksAreDifferent
<1> HIDE DEF F, E
<1>8. /\ FileRank(F)[f] \in Nat /\ FileRank(F)[g] \in Nat
      /\ place(f) \in Nat /\ place(g) \in Nat
  BY <1>6, <1>7, PlaceInRange
<1>9. FileRank(F)[f] < FileRank(F)[g] => place(f) < place(g)
  BY <1>6, <1>7, PlaceIsLess
<1>10. FileRank(F)[g] < FileRank(F)[f] => place(g) < place(f)
  BY <1>6, <1>7, PlaceIsLess
<1> QED
  BY <1>6, <1>7, <1>8, <1>9, <1>10
-----------------------------------------------------------------------------
(* What a step does to the blocks *)

Lossless == OwnContent(disk') /\ Available(disk) \subseteq Available(disk')

\* A step that leaves targets and extra files alone.
LEMMA SameFilesLossless ==
  ASSUME OwnContent(disk), \A p \in File \cup ExtraPaths : disk'[p] = disk[p]
  PROVE  Lossless
<1>1. Available(disk') = Available(disk)
  BY SameView
<1>2. OwnContent(disk')
  BY DEF OwnContent, Exists
<1> QED
  BY <1>1, <1>2 DEF Lossless

\* A step that changes a target, and perhaps an extra file of its content.
LEMMA TargetChangeLossless ==
  ASSUME OwnContent(disk), ~RenameOnly, NEW f \in File,
         disk \in Disk,
         \A g \in File \ {f} : disk'[g] = disk[g],
         Exists(disk', f) => OwnCells(f, disk'[f]),
         \A p \in ExtraPaths : disk'[p] = disk[p] \/ disk[p] = Data[f],
         \A i \in Slice(f) : Data[f][i] \in Available(disk)
                               => Data[f][i] \in Available(disk')
  PROVE  Lossless
<1>1. OwnContent(disk')
  <2>1. ASSUME NEW g \in File, g # f, Exists(disk', g)
        PROVE  OwnCells(g, disk'[g])
    BY <2>1 DEF OwnContent, Exists
  <2> QED
    BY <2>1 DEF OwnContent
<1>2. ASSUME NEW c \in Available(disk) PROVE c \in Available(disk')
  <2>1. CASE \E i \in Slice(f) : c = Data[f][i]
    BY <1>2, <2>1
  <2>2. CASE \E g \in File \ {f} : c \in OwnBlocks(disk, g)
    <3>1. PICK g \in File \ {f} : c \in OwnBlocks(disk, g)
      BY <2>2
    <3>2. OwnBlocks(disk', g) = OwnBlocks(disk, g)
      BY DEF OwnBlocks, OwnScan, Exists
    <3> QED
      BY <3>1, <3>2 DEF Available
  <2>3. CASE c \in OwnBlocks(disk, f)
    <3>1. \E i \in Slice(f) : c = Data[f][i]
      BY <2>3, FoundIsProtected DEF OwnContent, OwnCells
    <3> QED
      BY <2>1, <3>1
  <2>4. CASE \E k \in ScannedExtras(disk) : c \in ExtraBlocks(disk, k)
    <3>1. PICK k \in ScannedExtras(disk) : c \in ExtraBlocks(disk, k)
      BY <2>4
    <3>2. k \in DOMAIN Extras /\ Extras[k] \in ExtraPaths
      BY <3>1 DEF ScannedExtras, ExtraPaths
    <3>3. CASE disk'[Extras[k]] = disk[Extras[k]]
      <4>1. /\ k \in ScannedExtras(disk')
            /\ ExtraBlocks(disk', k) = ExtraBlocks(disk, k)
        BY <3>1, <3>3 DEF ScannedExtras, ExtraBlocks, Exists
      <4> QED
        BY <3>1, <4>1 DEF Available
    <3>4. CASE disk[Extras[k]] = Data[f]
      <4>1. \E p \in DOMAIN Data[f] : c = Data[f][p]
        BY <3>1, <3>4 DEF ExtraBlocks, Scan, AlignedScan
      <4> QED
        BY <2>1, <4>1 DEF Slice
    <3> QED
      BY <3>2, <3>3, <3>4
  <2> QED
    BY <2>2, <2>3, <2>4 DEF Available
<1> QED
  BY <1>1, <1>2 DEF Lossless

\* A file has its own blocks, and so has the beginning of it.
LEMMA BeginningIsOwn ==
  ASSUME NEW f \in File
  PROVE  /\ OwnCells(f, Data[f])
         /\ OwnCells(f, <<>>)
         /\ \A n \in 0..Len(Data[f]) : OwnCells(f, SubSeq(Data[f], 1, n))
<1>1. Data[f] \in Seq(Block)
  BY DataIsContent
<1>2. OwnCells(f, Data[f])
  BY DEF OwnCells, Slice
<1>3. OwnCells(f, <<>>)
  BY DEF OwnCells
<1>4. ASSUME NEW n \in 0..Len(Data[f]) PROVE OwnCells(f, SubSeq(Data[f], 1, n))
  <2>1. /\ DOMAIN SubSeq(Data[f], 1, n) = 1..n
        /\ \A p \in 1..n : SubSeq(Data[f], 1, n)[p] = Data[f][p]
        /\ 1..n \subseteq Slice(f)
    BY <1>1 DEF Slice
  <2> QED
    BY <2>1 DEF OwnCells
<1> QED
  BY <1>2, <1>3, <1>4

LEMMA RestoreLossless ==
  ASSUME BInv, BlocksUnshared, NEW f \in File, Restore(f)
  PROVE  Lossless
<1> DEFINE m == MatchedPath(scanned, f)
<1>1. /\ pc \in Restoring /\ IsFirst(f, todo) /\ f \in todo
  BY DEF Restore, BackupTarget, MoveRenamed, OpenCopy, CopyRenamed,
         RemoveCopied, MoveReady, RestoreFails, Restoring, IsFirst
<1>2. /\ disk \in Disk /\ disk[m] = Data[f] /\ m \in ExtraPaths
      /\ f \in Path /\ m \in Path \ File /\ OwnContent(disk) /\ ~RenameOnly
  BY <1>1, TurnFacts DEF BInv, SInv, WaitingInv, BlocksUnshared
<1>3. disk' \in Disk
  BY NextKeeps DEF BInv, SInv, IInv, TypeOK, Next, Step
<1>4. /\ File \subseteq Path /\ ExtraPaths \subseteq Path
      /\ ExtraPaths \cap File = {}
  BY SetAssumption, SeparateAssumption DEF ExtraPaths
<1> HIDE DEF m
<1>5. /\ \A g \in File \ {f} : disk'[g] = disk[g]
      /\ \A p \in ExtraPaths : disk'[p] = disk[p] \/ disk[p] = Data[f]
      /\ disk'[m] = Data[f] \/ disk'[f] = Data[f]
  <2>1. CASE ~RestoreFails(f)
    BY <1>1, <1>2, <2>1, RestoreEffect DEF BInv, m
  <2>2. CASE RestoreFails(f)
    BY <1>2, <1>4, <2>2 DEF RestoreFails, Disk
  <2> QED
    BY <2>1, <2>2
<1>6. Exists(disk', f) => OwnCells(f, disk'[f])
  <2>1. disk'[f] \in {Absent, <<>>, disk[f], disk[m]}
    <3>1. CASE BackupTarget(f)
      <4>1. PICK k \in DOMAIN Backup[f] : disk' = Move(disk, f, Backup[f][k])
        BY <3>1 DEF BackupTarget
      <4> QED
        BY <1>2, <4>1 DEF Move, Disk
    <3>2. CASE MoveRenamed(f)
      BY <1>2, <3>2 DEF MoveRenamed, Move, Disk, m
    <3>3. CASE OpenCopy(f) \/ CopyRenamed(f) \/ RemoveCopied(f)
      BY <1>2, <3>3 DEF OpenCopy, CopyRenamed, RemoveCopied, Disk, m
    <3>4. CASE RestoreFails(f)
      BY <1>2, <3>4 DEF RestoreFails, Disk
    <3> QED
      BY <3>1, <3>2, <3>3, <3>4 DEF Restore
  <2> QED
    BY <1>2, <2>1, BeginningIsOwn DEF OwnContent, Exists
<1>7. \A i \in Slice(f) : Data[f][i] \in Available(disk')
  BY <1>2, <1>3, <1>5, ContentIsAvailable
<1> QED
  BY <1>2, <1>5, <1>6, <1>7, TargetChangeLossless

\* A temporary file that replaces its target has the blocks of that.
LEMMA PublishLossless ==
  ASSUME BInv, BlocksUnshared, NEW f \in File, Publish(f)
  PROVE  Lossless
<1>1. /\ pc = "publish" /\ IsFirst(f, todo) /\ f \in todo
      /\ disk' = Move(disk, Temp[f], f) /\ disk \in Disk /\ scanned \in Disk
      /\ OwnContent(disk) /\ ~RenameOnly
  BY DEF Publish, IsFirst, BInv, SInv, IInv, TypeOK, BlocksUnshared
<1>2. /\ disk[Temp[f]] = out /\ disk[f] = scanned[f] /\ Kept(f)
      /\ Len(out) = Len(Data[f]) /\ out \in Seq(Cell) /\ out # Absent
      /\ \A p \in ExtraPaths : disk[p] = scanned[p]
  BY <1>1, SetAssumption
  DEF BInv, SInv, IInv, WriteInv, SourceInv, Writing, Current, TypeOK, Content,
      RewriteInv
<1>3. f \in Path /\ Temp[f] \in Path /\ Temp[f] \notin File \cup ExtraPaths
  BY PathFacts
<1>4. /\ disk'[f] = out /\ disk' \in Disk
      /\ \A g \in File \ {f} : disk'[g] = disk[g]
      /\ \A p \in ExtraPaths : disk'[p] = disk[p]
  <2>1. /\ File \subseteq Path /\ ExtraPaths \subseteq Path
        /\ ExtraPaths \cap File = {}
    BY SetAssumption, SeparateAssumption DEF ExtraPaths
  <2>2. Temp[f] # f
    BY <1>3
  <2>3. disk \in Disk /\ Temp[f] \in Path
    BY <1>1, <1>3
  <2>4. /\ Move(disk, Temp[f], f) \in Disk
        /\ Move(disk, Temp[f], f)[f] = disk[Temp[f]]
        /\ \A p \in Path \ {f, Temp[f]} : Move(disk, Temp[f], f)[p] = disk[p]
    BY <1>3, <2>2, <2>3, DiskMove
  <2> QED
    BY <1>1, <1>2, <1>3, <2>1, <2>4
<1>5. ASSUME NEW i \in Slice(f), Data[f][i] \in Available(disk)
      PROVE  Data[f][i] \in Available(disk')
  <2>1. CASE Data[f][i] \in OwnBlocks(disk, f)
    <3>1. OwnBlocks(scanned, f) = OwnBlocks(disk, f)
      BY <1>2 DEF OwnBlocks, OwnScan, Exists
    <3>2. Slice(f) = 1..Len(Data[f]) /\ i \in DOMAIN out
      BY <1>2, DataIsContent DEF Slice
    <3>3. CASE out[i] = Data[f][i]
      <4>1. out[i] \in Protected /\ i <= Len(Data[f])
        BY <3>2, <3>3, DataIsContent DEF Protected
      <4>2. i \in OwnScan(disk', f)
        BY <1>2, <1>4, <3>2, <4>1 DEF OwnScan, Scan, Exists
      <4>3. out[i] \in OwnBlocks(disk', f)
        BY <1>4, <4>2 DEF OwnBlocks
      <4> QED
        BY <3>3, <4>3 DEF Available
    <3>4. CASE Data[f][i] \in InExtras(scanned)
      <4>1. PICK k \in ScannedExtras(scanned) :
              Data[f][i] \in ExtraBlocks(scanned, k)
        BY <3>4 DEF InExtras
      <4>2. disk'[Extras[k]] = scanned[Extras[k]]
        BY <1>2, <1>4, <4>1 DEF ScannedExtras, ExtraPaths
      <4>3. /\ k \in ScannedExtras(disk')
            /\ ExtraBlocks(disk', k) = ExtraBlocks(scanned, k)
        BY <1>1, <4>1, <4>2 DEF ScannedExtras, ExtraBlocks, Exists
      <4> QED
        BY <4>1, <4>3 DEF Available
    <3> QED
      BY <1>2, <2>1, <3>1, <3>2, <3>3, <3>4 DEF Kept
  <2>2. CASE \E g \in File \ {f} : Data[f][i] \in OwnBlocks(disk, g)
    <3>1. PICK g \in File \ {f} : Data[f][i] \in OwnBlocks(disk, g)
      BY <2>2
    <3>2. OwnBlocks(disk', g) = OwnBlocks(disk, g)
      BY <1>4 DEF OwnBlocks, OwnScan, Exists
    <3> QED
      BY <3>1, <3>2 DEF Available
  <2>3. CASE \E k \in ScannedExtras(disk) : Data[f][i] \in ExtraBlocks(disk, k)
    <3>1. PICK k \in ScannedExtras(disk) : Data[f][i] \in ExtraBlocks(disk, k)
      BY <2>3
    <3>2. disk'[Extras[k]] = disk[Extras[k]]
      BY <1>4, <3>1 DEF ScannedExtras, ExtraPaths
    <3>3. /\ k \in ScannedExtras(disk')
          /\ ExtraBlocks(disk', k) = ExtraBlocks(disk, k)
      BY <1>1, <3>1, <3>2 DEF ScannedExtras, ExtraBlocks, Exists
    <3> QED
      BY <3>1, <3>3 DEF Available
  <2> QED
    BY <1>5, <2>1, <2>2, <2>3 DEF Available
<1>6. OwnCells(f, disk'[f])
  BY <1>2, <1>4 DEF Kept
<1> QED
  BY <1>1, <1>4, <1>5, <1>6, TargetChangeLossless

LEMMA WriteLossless ==
  ASSUME BInv, BlocksUnshared, NEW f \in File, Write(f)
  PROVE  Lossless
<1>1. disk \in Disk /\ OwnContent(disk)
  BY DEF BInv, SInv, IInv, TypeOK
<1>2. /\ File \cup ExtraPaths \subseteq Path \ {Temp[f]} /\ Temp[f] \in Path
  BY PathFacts, SetAssumption DEF ExtraPaths
<1>3. ASSUME NEW c, disk' = [disk EXCEPT ![Temp[f]] = c] PROVE Lossless
  <2>1. \A p \in File \cup ExtraPaths : disk'[p] = disk[p]
    BY <1>1, <1>2, <1>3 DEF Disk
  <2> QED
    BY <1>1, <2>1, SameFilesLossless
<1>4. CASE UNCHANGED disk
  BY <1>1, <1>4, SameFilesLossless
<1>5. ASSUME NEW i \in Slice(f), WriteReconstructed(f, i) \/ WriteSourced(f, i)
      PROVE  disk' = disk
  BY <1>5 DEF WriteReconstructed, WriteSourced, WriteCell
<1>6. CASE OpenTemp(f) \/ FlushTemp(f) \/ WriteFails(f)
  BY <1>3, <1>6 DEF OpenTemp, FlushTemp, WriteFails
<1>7. CASE CheckMd5(f)
  BY <1>4, <1>7 DEF CheckMd5
<1> QED
  BY <1>4, <1>5, <1>6, <1>7, PublishLossless DEF Write

LEMMA CrashLossless == ASSUME BInv, BlocksUnshared, Crash PROVE Lossless
<1>1. disk \in Disk /\ OwnContent(disk) /\ ~RenameOnly
  BY DEF BInv, SInv, IInv, TypeOK, BlocksUnshared
<1>2. CASE UNCHANGED disk
  BY <1>1, <1>2, SameFilesLossless
<1>3. CASE pc = "stream"
  <2>1. PICK f \in File, n \in 0..Len(out) :
          disk' = [disk EXCEPT ![Temp[f]] = SubSeq(out, 1, n)]
    BY <1>3 DEF Crash, PartlyWritten
  <2>2. File \cup ExtraPaths \subseteq Path \ {Temp[f]} /\ Temp[f] \in Path
    BY PathFacts, SetAssumption DEF ExtraPaths
  <2>3. \A p \in File \cup ExtraPaths : disk'[p] = disk[p]
    BY <1>1, <2>1, <2>2 DEF Disk
  <2> QED
    BY <1>1, <2>3, SameFilesLossless
<1>4. CASE pc = "copy"
  <2>1. PICK f \in File : /\ IsFirst(f, todo)
                          /\ PartlyWritten(f, disk[MatchedPath(scanned, f)])
    BY <1>4 DEF Crash
  <2> DEFINE m == MatchedPath(scanned, f)
  <2>2. /\ disk[m] = Data[f] /\ m \in ExtraPaths /\ m \in Path \ File /\ f \in Path
    BY <1>4, <2>1, TurnFacts DEF BInv, SInv, WaitingInv, Restoring
  <2> HIDE DEF m
  <2>3. PICK n \in 0..Len(Data[f]) :
          disk' = [disk EXCEPT ![f] = SubSeq(Data[f], 1, n)]
    BY <2>1, <2>2 DEF PartlyWritten, m
  <2>4. /\ disk'[f] = SubSeq(Data[f], 1, n)
        /\ \A p \in Path \ {f} : disk'[p] = disk[p]
    BY <1>1, <2>2, <2>3 DEF Disk
  <2>5. /\ \A g \in File \ {f} : disk'[g] = disk[g]
        /\ \A p \in ExtraPaths : disk'[p] = disk[p]
    <3>1. /\ File \subseteq Path /\ ExtraPaths \subseteq Path
          /\ ExtraPaths \cap File = {}
      BY SetAssumption, SeparateAssumption DEF ExtraPaths
    <3> QED
      BY <2>4, <3>1
  <2>6. disk' \in Disk
    BY NextKeeps DEF BInv, SInv, IInv, TypeOK, Next
  <2>7. \A i \in Slice(f) : Data[f][i] \in Available(disk')
    BY <1>1, <2>2, <2>5, <2>6, ContentIsAvailable
  <2>8. OwnCells(f, disk'[f])
    BY <2>4, BeginningIsOwn
  <2> QED
    BY <1>1, <2>5, <2>7, <2>8, TargetChangeLossless
<1> QED
  BY <1>2, <1>3, <1>4 DEF Crash

LEMMA StepLossless == ASSUME BInv, BlocksUnshared, [Next]_vars PROVE Lossless
<1>1. disk \in Disk /\ OwnContent(disk)
  BY DEF BInv, SInv, IInv, TypeOK
<1>2. CASE UNCHANGED disk
  BY <1>1, <1>2, SameFilesLossless
<1>3. CASE PurgeBackup
  <2>1. /\ Head(backups) \in BackupPaths
        /\ disk' = [disk EXCEPT ![Head(backups)] = Absent]
    BY <1>3 DEF PurgeBackup, BInv, SInv, IInv, BackupInv
  <2>2. File \cup ExtraPaths \subseteq Path \ {Head(backups)}
    BY <2>1, PathFacts, SetAssumption DEF ExtraPaths
  <2>3. \A p \in File \cup ExtraPaths : disk'[p] = disk[p]
    BY <1>1, <2>1, <2>2 DEF Disk
  <2> QED
    BY <1>1, <2>3, SameFilesLossless
<1>4. CASE FirstScan \/ SecondScan \/ Plan \/ Reconstruct \/ ReconstructFails
             \/ Finish \/ PurgeSet \/ PurgeRest \/ PurgeFails \/ Rerun
             \/ UNCHANGED vars
  BY <1>2, <1>4 DEF FirstScan, SecondScan, Plan, Reconstruct, ReconstructFails,
                    Finish, PurgeSet, PurgeRest, PurgeFails, Rerun, vars
<1> QED
  BY <1>3, <1>4, RestoreLossless, WriteLossless, CrashLossless DEF Next, Step
-----------------------------------------------------------------------------
(* The invariant is kept by every action *)

\* A step to a place of which the invariant says nothing.
LEMMA IdleKeeps ==
  ASSUME pc' \notin Restoring \cup Writing PROVE WaitingInv' /\ SourceInv'
BY DEF WaitingInv, SourceInv

LEMMA FirstScanWaits ==
  ASSUME BInv, FirstScan PROVE WaitingInv' /\ SourceInv'
<1>1. /\ scanned' = disk /\ disk' = disk /\ todo' = Renamed(disk)
      /\ disk \in Disk /\ pc' \in {"restore", "plan", "purge", "exit"}
  BY DEF FirstScan, BInv, SInv, IInv, TypeOK, Stop
<1>2. \A f \in Renamed(disk) : disk[MatchedPath(disk, f)] = Data[f]
  BY <1>1, MatchedHasData
<1> QED
  BY <1>1, <1>2 DEF WaitingInv, SourceInv, Writing

LEMMA RestoreWaits ==
  ASSUME BInv, NEW f \in File, Restore(f) PROVE WaitingInv' /\ SourceInv'
<1>1. CASE RestoreFails(f)
  BY <1>1, IdleKeeps DEF RestoreFails, Stop, Restoring, Writing
<1>2. CASE ~RestoreFails(f)
  <2>1. /\ pc \in Restoring /\ f \in todo /\ UNCHANGED scanned
        /\ \A p \in ExtraPaths \ {MatchedPath(scanned, f)} : disk'[p] = disk[p]
        /\ \/ /\ todo' = todo /\ pc' \in {"move", "copy", "remove"}
              /\ disk'[MatchedPath(scanned, f)] = disk[MatchedPath(scanned, f)]
           \/ FileRestored(f)
    BY <1>2, RestoreEffect DEF BInv
  <2>2. scanned \in Disk /\ \A g \in todo : /\ g \in Renamed(scanned)
                                            /\ MatchedPath(scanned, g) \in ExtraPaths
                                            /\ disk[MatchedPath(scanned, g)] = Data[g]
    BY <2>1, MovedPath DEF BInv, SInv, IInv, TypeOK, RestoreInv, WaitingInv
  <2>3. ASSUME NEW g \in todo' PROVE disk'[MatchedPath(scanned, g)] = Data[g]
    <3>1. g \in todo /\ (FileRestored(f) => g # f)
      BY <2>1 DEF FileRestored
    <3>2. g # f => MatchedPath(scanned, g) # MatchedPath(scanned, f)
      BY <2>1, <2>2, <3>1, MatchedOnce
    <3> QED
      BY <2>1, <2>2, <3>1, <3>2
  <2>4. pc' \notin Writing
    BY <2>1 DEF FileRestored, Writing
  <2> QED
    BY <2>1, <2>3, <2>4 DEF WaitingInv, SourceInv
<1> QED
  BY <1>1, <1>2

\* No two files have a block in common.
LEMMA BlockOfOneFile ==
  ASSUME NEW f \in File, Plain(f), NEW i \in Slice(f),
         NEW g \in File, Plain(g), NEW j \in Slice(g), Data[f][i] = Data[g][j]
  PROVE  f = g
<1>1. i \in Owned[f] /\ j \in Owned[g]
  BY DEF Plain
<1>2. Loaded[f] <= Loaded[g] /\ Loaded[g] <= Loaded[f]
  BY <1>1 DEF Owned
<1>3. Loaded[f] \in Nat /\ Loaded[g] \in Nat
  BY SetAssumption
<1>4. Loaded[f] = Loaded[g]
  BY <1>2, <1>3
<1> QED
  BY <1>4, SetAssumption

\* Without extra files a slice that is not missing is in its own file, at the
\* offset recorded for it.
LEMMA ValidIsInPlace ==
  ASSUME InPlace, NEW d \in Disk, OwnContent(d), NEW f \in File,
         NEW i \in Slice(f) \ Missing(d, f)
  PROVE  /\ Exists(d, f) /\ Position(d, f, i) \in DOMAIN d[f]
         /\ d[f][Position(d, f, i)] = Data[f][i]
<1>1. /\ \A g \in File : Plain(g)
      /\ ScannedExtras(d) = {}
  BY DEF InPlace, BlocksUnshared, ScannedExtras
<1>2. PICK j \in Slice(f) : Entry(f, i, j) /\ Data[f][j] \in Available(d)
  BY DEF Missing, Has
<1>3. j = i
  BY <1>1, <1>2, PlainEntryIsOwn
<1>4. PICK g \in File : Data[f][i] \in OwnBlocks(d, g)
  BY <1>1, <1>2, <1>3 DEF Available
<1>5. PICK l \in Slice(g) : Data[f][i] = Data[g][l]
  BY <1>4, FoundIsProtected DEF OwnContent, OwnCells
<1>6. f = g
  BY <1>1, <1>5, BlockOfOneFile
<1>7. Data[f][i] \notin InExtras(d)
  BY <1>1 DEF InExtras
<1> QED
  BY <1>4, <1>6, <1>7, OwnPosition

\* So what is reconstructed is right.
LEMMA TrueInPlace ==
  ASSUME IInv, InPlace, OwnContent(disk), Reconstruct
  PROVE  recon' = TrueSlices
<1>1. scanned = disk /\ disk \in Disk
  BY DEF Reconstruct, IInv, ScanInv, TypeOK
<1>2. ASSUME NEW s \in Slices \ MissingSlices(scanned)
      PROVE  InputCell(disk, s[1], s[2]) = Data[s[1]][s[2]]
  <2>1. /\ s[1] \in File /\ s[2] \in Slice(s[1])
        /\ s[2] \notin Missing(disk, s[1])
    BY <1>1, <1>2 DEF Slices, MissingSlices
  <2> QED
    BY <1>1, <2>1, ValidIsInPlace DEF InputCell
<1>3. WrongInputs(disk) = {}
  BY <1>2 DEF WrongInputs
<1> QED
  BY <1>3 DEF Reconstruct

LEMMA ReconstructSources ==
  ASSUME BInv, Reconstruct, InPlace \/ MiscomputedIsJunk
  PROVE  WaitingInv' /\ SourceInv'
<1>1. /\ pc = "reconstruct" /\ pc' = "write" /\ scanned = disk
      /\ UNCHANGED <<disk, scanned>> /\ OwnContent(disk)
  BY DEF Reconstruct, BInv, SInv, IInv, ScanInv
<1>2. \A s \in MissingSlices(scanned) :
        recon'[s] = Data[s[1]][s[2]] \/ recon'[s] \notin Protected
  <2>1. CASE MiscomputedIsJunk
    BY <2>1 DEF Reconstruct, TrueSlices, MiscomputedIsJunk
  <2>2. CASE InPlace
    BY <2>2, TrueInPlace DEF TrueSlices, BInv, SInv
  <2> QED
    BY <2>1, <2>2
<1> QED
  BY <1>1, <1>2 DEF WaitingInv, SourceInv, Restoring

\* A slice is appended: a reconstructed one was nowhere to be found, another
\* one is taken from where it was found.
LEMMA SliceSources ==
  ASSUME BInv, BlocksUnshared, NEW f \in File, NEW i \in Slice(f),
         WriteReconstructed(f, i) \/ WriteSourced(f, i)
  PROVE  WaitingInv' /\ SourceInv'
<1>1. /\ pc = "stream" /\ pc' = "stream" /\ IsFirst(f, todo) /\ f \in todo
      /\ i = Len(out) + 1 /\ out \in Seq(Cell)
      /\ UNCHANGED <<disk, scanned, todo, recon>>
      /\ scanned \in Disk /\ Plain(f)
  BY DEF WriteReconstructed, WriteSourced, WriteCell, NextSlice, IsFirst,
         BInv, SInv, IInv, TypeOK, Content, BlocksUnshared
<1>2. /\ OwnContent(scanned) /\ disk[f] = scanned[f] /\ Kept(f)
      /\ \A s \in MissingSlices(scanned) :
           recon[s] = Data[s[1]][s[2]] \/ recon[s] \notin Protected
      /\ \A g \in todo : disk[g] = scanned[g]
  BY <1>1 DEF BInv, SourceInv, Writing, Current
<1>3. PICK c : /\ out' = Append(out, c)
               /\ c \in Protected => \E j \in Slice(f) : c = Data[f][j]
               /\ Data[f][i] \in OwnBlocks(scanned, f) =>
                    c = Data[f][i] \/ Data[f][i] \in InExtras(scanned)
  <2>1. CASE WriteReconstructed(f, i)
    <3>1. /\ i \in Missing(scanned, f) /\ out' = Append(out, recon[<<f, i>>])
      BY <2>1 DEF WriteReconstructed, WriteCell
    <3>2. Data[f][i] \notin OwnBlocks(scanned, f)
      BY <1>1, <3>1, MissingIsNowhere
    <3>3. recon[<<f, i>>] = Data[f][i] \/ recon[<<f, i>>] \notin Protected
      <4>1. <<f, i>> \in MissingSlices(scanned)
        BY <1>1, <3>1, MissingSlicesMember
      <4> QED
        BY <1>2, <4>1
    <3> QED
      BY <3>1, <3>2, <3>3
  <2>2. CASE WriteSourced(f, i)
    <3> DEFINE p == Position(scanned, f, i)
    <3>1. /\ p \in DOMAIN scanned[f] /\ out' = Append(out, scanned[f][p])
          /\ Exists(scanned, f)
      BY <1>2, <2>2 DEF WriteSourced, WriteCell, CanRead, Exists
    <3>2. scanned[f][p] \in Protected => \E j \in Slice(f) : scanned[f][p] = Data[f][j]
      BY <1>2, <3>1 DEF OwnContent, OwnCells
    <3>3. Data[f][i] \in OwnBlocks(scanned, f) =>
            scanned[f][p] = Data[f][i] \/ Data[f][i] \in InExtras(scanned)
      BY <1>1, OwnPosition
    <3> HIDE DEF p
    <3> QED
      BY <3>1, <3>2, <3>3
  <2> QED
    BY <2>1, <2>2
<1>4. /\ DOMAIN Append(out, c) = DOMAIN out \cup {i}
      /\ Append(out, c)[i] = c
      /\ \A j \in DOMAIN out : Append(out, c)[j] = out[j]
  BY <1>1
<1>5. OwnCells(f, out')
  BY <1>2, <1>3, <1>4 DEF Kept, OwnCells
<1>6. \A j \in DOMAIN out' :
        /\ j \in Slice(f)
        /\ Data[f][j] \in OwnBlocks(scanned, f) =>
             out'[j] = Data[f][j] \/ Data[f][j] \in InExtras(scanned)
  BY <1>2, <1>3, <1>4 DEF Kept
<1>7. Kept(f)'
  BY <1>1, <1>5, <1>6 DEF Kept
<1>8. \A g \in todo : IsFirst(g, todo) => g = f
  BY <1>1, FirstIsUnique DEF BInv, SInv, IInv, TypeOK
<1> QED
  BY <1>1, <1>2, <1>7, <1>8 DEF WaitingInv, SourceInv, Restoring, Current

\* The other steps of the loop that writes.
LEMMA WriteSources ==
  ASSUME BInv, BlocksUnshared, NEW f \in File, Write(f)
  PROVE  WaitingInv' /\ SourceInv'
<1>1. /\ pc \in Writing /\ pc' \in Writing /\ IsFirst(f, todo) /\ f \in todo
      /\ UNCHANGED <<scanned, recon>>
      /\ disk \in Disk /\ todo \in SUBSET File
  BY DEF Write, OpenTemp, WriteReconstructed, WriteSourced, WriteCell, NextSlice,
         FlushTemp, Publish, CheckMd5, WriteFails, Writing, BInv, SInv, IInv,
         TypeOK, IsFirst, memory
<1>2. \A g \in todo : IsFirst(g, todo) => g = f
  BY <1>1, FirstIsUnique
<1>3. /\ OwnContent(scanned)
      /\ \A s \in MissingSlices(scanned) :
           recon[s] = Data[s[1]][s[2]] \/ recon[s] \notin Protected
      /\ \A g \in todo : disk[g] = scanned[g] \/ (pc = "check" /\ g = f)
      /\ pc \in {"stream", "publish"} => Kept(f)
  BY <1>1, <1>2 DEF BInv, SourceInv, Current
<1>4. /\ f \in Path /\ Temp[f] \in Path
      /\ \A g \in File : g \in Path /\ g # Temp[f]
  BY PathFacts
<1>5. ASSUME NEW c, disk' = [disk EXCEPT ![Temp[f]] = c]
      PROVE  \A g \in File : disk'[g] = disk[g]
  BY <1>1, <1>4, <1>5 DEF Disk
<1>6. WaitingInv'
  BY <1>1 DEF WaitingInv, Restoring, Writing
<1>7. CASE OpenTemp(f)
  <2>1. /\ \A g \in File : disk'[g] = disk[g]
        /\ pc = "write" /\ pc' = "stream" /\ todo' = todo /\ out' = <<>>
    BY <1>5, <1>7 DEF OpenTemp
  <2>2. Kept(f)'
    <3>1. DOMAIN <<>> = {}
      OBVIOUS
    <3> QED
      BY <2>1, <3>1 DEF Kept, OwnCells
  <2> QED
    BY <1>1, <1>2, <1>3, <1>6, <2>1, <2>2 DEF SourceInv, Current
<1>8. CASE FlushTemp(f)
  <2>1. /\ \A g \in File : disk'[g] = disk[g]
        /\ pc = "stream" /\ pc' = "publish" /\ todo' = todo /\ out' = out
        /\ Len(out) = Len(Data[f])
    BY <1>5, <1>8 DEF FlushTemp, memory
  <2>2. Kept(f)'
    BY <1>1, <1>3, <2>1 DEF Kept
  <2> QED
    BY <1>1, <1>2, <1>3, <1>6, <2>1, <2>2 DEF SourceInv, Current
<1>9. CASE Publish(f)
  <2>1. /\ \A g \in File \ {f} : disk'[g] = disk[g]
        /\ pc = "publish" /\ pc' = "check" /\ todo' = todo
    BY <1>1, <1>4, <1>9 DEF Publish, Move, Disk, memory
  <2> QED
    BY <1>1, <1>2, <1>3, <1>6, <2>1 DEF SourceInv, Current
<1>10. CASE CheckMd5(f)
  <2>1. UNCHANGED disk /\ pc' = "write" /\ todo' = todo \ {f}
    BY <1>10 DEF CheckMd5
  <2> QED
    BY <1>1, <1>3, <1>6, <2>1 DEF SourceInv
<1>11. CASE WriteFails(f)
  <2>1. /\ \A g \in File : disk'[g] = disk[g]
        /\ pc # "check" /\ pc' = "write" /\ todo' = todo \ {f}
    BY <1>5, <1>11 DEF WriteFails
  <2> QED
    BY <1>1, <1>3, <1>6, <2>1 DEF SourceInv
<1> QED
  BY <1>7, <1>8, <1>9, <1>10, <1>11, SliceSources DEF Write

LEMMA NextKeepsBlocks ==
  ASSUME BInv, BlocksUnshared, InPlace \/ MiscomputedIsJunk, [Next]_vars
  PROVE  BInv'
<1>1. SInv' /\ RInv'
  BY NextKeepsSuccess, NextKeepsRenames DEF BInv
<1>2. OwnContent(disk')
  BY StepLossless DEF Lossless
<1>3. WaitingInv' /\ SourceInv'
  <2>1. CASE SecondScan \/ Plan \/ ReconstructFails \/ Finish \/ PurgeBackup
               \/ PurgeSet \/ PurgeRest \/ PurgeFails \/ Crash \/ Rerun
    <3>1. pc' \in {"plan", "reconstruct", "purge", "exit", "crashed", "scan"}
      BY <2>1 DEF SecondScan, Plan, ReconstructFails, Finish, PurgeBackup,
                  PurgeSet, PurgeRest, PurgeFails, Crash, Rerun, Stop
    <3> QED
      BY <3>1, IdleKeeps DEF Restoring, Writing
  <2>2. CASE UNCHANGED vars
    BY <2>2 DEF vars, memory, BInv, WaitingInv, SourceInv, Kept, OwnContent,
                Current
  <2> QED
    BY <2>1, <2>2, FirstScanWaits, RestoreWaits, ReconstructSources,
       WriteSources
    DEF Next, Step
<1> QED
  BY <1>1, <1>2, <1>3 DEF BInv

LEMMA InitBlocks == ASSUME BlocksUnshared, Init PROVE BInv
<1>1. SInv /\ RInv
  BY InitHolds
  DEF Init, SInv, RewriteInv, PlanInv, ResultInv, RInv, TargetGoneInv,
      CoveredInv, CompleteInv, Restoring, Writing
<1> QED
  BY <1>1 DEF Init, BInv, BlocksUnshared, WaitingInv, SourceInv, Restoring,
              Writing

\* In a set without shared blocks no step makes a block unavailable: neither
\* renames nor copies, nor a rewrite with slices that came out wrong, nor a
\* kill in the middle of any of them.  Slices that come out wrong are not taken
\* for blocks of the set, or there are no extra files to make them wrong.
THEOREM NoBlockIsLost ==
  ASSUME BlocksUnshared, InPlace \/ MiscomputedIsJunk
  PROVE  Spec => BlocksNeverLost
<1>1. Init => BInv
  BY InitBlocks
<1>2. BInv /\ [Next]_vars => BInv'
  BY NextKeepsBlocks
<1>3. BInv /\ [Next]_vars => [Available(disk) \subseteq Available(disk')]_vars
  BY StepLossless DEF Lossless
<1> QED
  BY <1>1, <1>2, <1>3, PTL DEF Spec, BlocksNeverLost
-----------------------------------------------------------------------------
(* Targets that are repaired in place *)

\* So a file that misses nothing holds its blocks.
LEMMA WholeInPlace ==
  ASSUME InPlace, NEW d \in Disk, OwnContent(d), NEW f \in File,
         Missing(d, f) = {}
  PROVE  /\ d[f] # Absent
         /\ \A i \in DOMAIN Data[f] : \E p \in DOMAIN d[f] : d[f][p] = Data[f][i]
<1>1. ASSUME NEW i \in DOMAIN Data[f]
      PROVE  /\ d[f] # Absent
             /\ \E p \in DOMAIN d[f] : d[f][p] = Data[f][i]
  <2>1. i \in Slice(f) \ Missing(d, f)
    BY <1>1 DEF Slice
  <2> QED
    BY <2>1, ValidIsInPlace DEF Exists
<1>2. 1 \in DOMAIN Data[f]
  BY DataIsContent DEF InPlace
<1> QED
  BY <1>1, <1>2

\* No file is waiting to be restored.
LEMMA NothingIsRenamed == ASSUME InPlace, NEW d PROVE Renamed(d) = {}
BY DEF InPlace, Renamed

-----------------------------------------------------------------------------
(* The inductive invariant: what is written is right *)

WrittenRight ==
  /\ pc \in Writing => ReconRight
  /\ pc \in {"stream", "publish", "check"} => \A f \in todo : Current(f) =>
       /\ \A i \in DOMAIN out : i \in Slice(f) /\ out[i] = Data[f][i]
       /\ pc # "stream" => Len(out) = Len(Data[f])

PInv == BInv /\ WrittenRight

LEMMA ReconstructIsRight ==
  ASSUME PInv, InPlace, Reconstruct PROVE WrittenRight'
<1>1. /\ pc = "reconstruct" /\ pc' = "write" /\ scanned = disk
      /\ scanned' = scanned /\ disk \in Disk /\ OwnContent(disk)
  BY DEF Reconstruct, PInv, BInv, SInv, IInv, ScanInv, TypeOK
<1>2. \A s \in MissingSlices(scanned) : recon'[s] = Data[s[1]][s[2]]
  BY TrueInPlace DEF TrueSlices, PInv, BInv, SInv
<1> QED
  BY <1>1, <1>2 DEF WrittenRight, ReconRight

\* Every cell that is appended is the block of that number.
LEMMA WriteIsRight ==
  ASSUME PInv, InPlace, NEW f \in File, Write(f) PROVE WrittenRight'
<1>1. /\ pc \in Writing /\ pc' \in Writing /\ IsFirst(f, todo) /\ f \in todo
      /\ UNCHANGED <<scanned, recon>>
      /\ scanned \in Disk /\ out \in Seq(Cell) /\ todo \in SUBSET File
  BY DEF Write, OpenTemp, WriteReconstructed, WriteSourced, WriteCell, NextSlice,
         FlushTemp, Publish, CheckMd5, WriteFails, Writing, PInv, BInv, SInv,
         IInv, TypeOK, Content, IsFirst, memory
<1>2. \A g \in todo : IsFirst(g, todo) => g = f
  BY <1>1, FirstIsUnique
<1>3. /\ ReconRight
      /\ pc \in {"stream", "publish", "check"} =>
           /\ \A j \in DOMAIN out : j \in Slice(f) /\ out[j] = Data[f][j]
           /\ pc # "stream" => Len(out) = Len(Data[f])
  BY <1>1 DEF PInv, WrittenRight, Current
<1>4. ReconRight'
  BY <1>1, <1>3 DEF ReconRight
<1>5. CASE pc' = "write"
  BY <1>4, <1>5 DEF WrittenRight
<1>6. ASSUME todo' = todo,
             \A j \in DOMAIN out' : j \in Slice(f) /\ out'[j] = Data[f][j],
             pc' # "stream" => Len(out') = Len(Data[f])
      PROVE  WrittenRight'
  BY <1>2, <1>4, <1>6 DEF WrittenRight, Current
<1>7. CASE OpenTemp(f)
  <2>1. /\ todo' = todo /\ pc' = "stream" /\ out' = <<>> /\ DOMAIN <<>> = {}
    BY <1>7 DEF OpenTemp
  <2> QED
    BY <1>6, <2>1
<1>8. ASSUME NEW i \in Slice(f), WriteReconstructed(f, i) \/ WriteSourced(f, i)
      PROVE  WrittenRight'
  <2>1. /\ pc = "stream" /\ pc' = "stream" /\ i = Len(out) + 1 /\ todo' = todo
    BY <1>8 DEF WriteReconstructed, WriteSourced, WriteCell, NextSlice
  <2>2. out' = Append(out, Data[f][i])
    <3>1. CASE WriteReconstructed(f, i)
      <4>1. i \in Missing(scanned, f) /\ out' = Append(out, recon[<<f, i>>])
        BY <3>1 DEF WriteReconstructed, WriteCell
      <4>2. <<f, i>> \in MissingSlices(scanned)
        BY <1>1, <4>1, MissingSlicesMember
      <4>3. recon[<<f, i>>] = Data[f][i]
        BY <1>3, <4>2 DEF ReconRight
      <4> QED
        BY <4>1, <4>3
    <3>2. CASE WriteSourced(f, i)
      <4>1. /\ i \in Slice(f) \ Missing(scanned, f)
            /\ out' = Append(out, disk[f][Position(scanned, f, i)])
        BY <1>8, <3>2 DEF WriteSourced, WriteCell
      <4>2. disk[f] = scanned[f] /\ OwnContent(scanned)
        BY <1>1, <2>1 DEF PInv, BInv, SourceInv, Writing
      <4>3. scanned[f][Position(scanned, f, i)] = Data[f][i]
        BY <1>1, <4>1, <4>2, ValidIsInPlace
      <4> QED
        BY <4>1, <4>2, <4>3
    <3> QED
      BY <1>8, <3>1, <3>2
  <2>3. /\ DOMAIN Append(out, Data[f][i]) = DOMAIN out \cup {i}
        /\ Append(out, Data[f][i])[i] = Data[f][i]
        /\ \A j \in DOMAIN out : Append(out, Data[f][i])[j] = out[j]
    BY <1>1, <2>1
  <2> QED
    BY <1>3, <1>6, <2>1, <2>2, <2>3
<1>9. CASE FlushTemp(f)
  BY <1>3, <1>6, <1>9 DEF FlushTemp, memory
<1>10. CASE Publish(f)
  BY <1>3, <1>6, <1>10 DEF Publish, memory
<1>11. CASE CheckMd5(f) \/ WriteFails(f)
  BY <1>5, <1>11 DEF CheckMd5, WriteFails
<1> QED
  BY <1>7, <1>8, <1>9, <1>10, <1>11 DEF Write

LEMMA NextIsRight == ASSUME PInv, InPlace, [Next]_vars PROVE PInv'
<1>1. BInv'
  BY NextKeepsBlocks DEF PInv, InPlace
<1>2. WrittenRight'
  <2>1. CASE FirstScan \/ SecondScan \/ Plan \/ ReconstructFails \/ Finish
               \/ PurgeBackup \/ PurgeSet \/ PurgeRest \/ PurgeFails
               \/ Crash \/ Rerun
               \/ \E f \in File : Restore(f)
    <3>1. pc' \notin Writing
      BY <2>1 DEF FirstScan, SecondScan, Plan, ReconstructFails, Finish,
                  PurgeBackup, PurgeSet, PurgeRest, PurgeFails, Crash, Rerun, Stop,
                  Restore,
                  BackupTarget, MoveRenamed, OpenCopy, CopyRenamed, RemoveCopied,
                  RestoreFails, FileRestored, Writing
    <3> QED
      BY <3>1 DEF WrittenRight, Writing
  <2>2. CASE UNCHANGED vars
    BY <2>2 DEF vars, memory, PInv, WrittenRight, ReconRight, Current
  <2> QED
    BY <2>1, <2>2, ReconstructIsRight, WriteIsRight DEF Next, Step
<1> QED
  BY <1>1, <1>2 DEF PInv

-----------------------------------------------------------------------------
(* Every step is one that AtomicRepair allows, or is not seen by it *)

SameTargets == \A f \in File : disk'[f] = disk[f]

\* A step that tells nothing and changes no target.
LEMMA NotSeen ==
  ASSUME SameTargets, outcome' = outcome
  PROVE  [Abstract!PromiseNext]_Abstract!promise
BY DEF SameTargets, Abstract!promise

\* A result that is announced rightly.
LEMMA AnnouncesRightly ==
  ASSUME SameTargets, outcome' \in Outcomes,
         outcome' \in {"success", "not_needed"} => \A f \in File :
           /\ disk[f] # Absent
           /\ \A i \in DOMAIN Data[f] :
                \E p \in DOMAIN disk[f] : disk[f][p] = Data[f][i]
  PROVE  [Abstract!PromiseNext]_Abstract!promise
<1>1. Abstract!Announce(outcome')
  BY DEF SameTargets, Abstract!Announce, Abstract!Holds
<1> QED
  BY <1>1 DEF Abstract!PromiseNext, Outcomes

\* A target that becomes whole.
LEMMA PublishMends ==
  ASSUME PInv, InPlace, NEW f \in File, Publish(f)
  PROVE  [Abstract!PromiseNext]_Abstract!promise
<1>1. /\ pc = "publish" /\ IsFirst(f, todo) /\ f \in todo /\ disk \in Disk
      /\ disk' = Move(disk, Temp[f], f) /\ outcome' = outcome
      /\ out \in Seq(Cell)
  BY DEF Publish, IsFirst, PInv, BInv, SInv, IInv, TypeOK, Content
<1>2. /\ disk[Temp[f]] = out /\ Len(out) = Len(Data[f])
      /\ \A i \in DOMAIN out : out[i] = Data[f][i]
  BY <1>1 DEF PInv, BInv, SInv, IInv, WriteInv, WrittenRight, Writing, Current
<1>3. out = Data[f]
  <2>1. Data[f] \in Seq(Block)
    BY DataIsContent
  <2> QED
    BY <1>1, <1>2, <2>1
<1>4. /\ f \in Path /\ Temp[f] \in Path
      /\ \A g \in File : g \in Path /\ g # Temp[f]
  BY PathFacts
<1>5. disk'[f] = Data[f] /\ \A g \in File \ {f} : disk'[g] = disk[g]
  BY <1>1, <1>2, <1>3, <1>4 DEF Move, Disk
<1>6. Abstract!Mend(f)
  BY <1>1, <1>5 DEF Abstract!Mend
<1> QED
  BY <1>6 DEF Abstract!PromiseNext

LEMMA WriteIsPromised ==
  ASSUME PInv, InPlace, NEW f \in File, Write(f)
  PROVE  [Abstract!PromiseNext]_Abstract!promise
<1>1. disk \in Disk
  BY DEF PInv, BInv, SInv, IInv, TypeOK
<1>2. /\ Temp[f] \in Path /\ \A g \in File : g \in Path /\ g # Temp[f]
  BY PathFacts
<1>3. ASSUME NEW c, disk' = [disk EXCEPT ![Temp[f]] = c] PROVE SameTargets
  BY <1>1, <1>2, <1>3 DEF Disk, SameTargets
<1>4. CASE OpenTemp(f) \/ FlushTemp(f) \/ WriteFails(f)
  BY <1>3, <1>4, NotSeen DEF OpenTemp, FlushTemp, WriteFails
<1>5. CASE CheckMd5(f)
  BY <1>5, NotSeen DEF CheckMd5, SameTargets
<1>6. ASSUME NEW i \in Slice(f), WriteReconstructed(f, i) \/ WriteSourced(f, i)
      PROVE  [Abstract!PromiseNext]_Abstract!promise
  BY <1>6, NotSeen DEF WriteReconstructed, WriteSourced, WriteCell, SameTargets
<1> QED
  BY <1>4, <1>5, <1>6, PublishMends DEF Write

LEMMA ScanIsPromised ==
  ASSUME PInv, InPlace, FirstScan \/ SecondScan
  PROVE  [Abstract!PromiseNext]_Abstract!promise
<1>1. /\ disk' = disk /\ SameTargets /\ disk \in Disk
  BY DEF FirstScan, SecondScan, SameTargets, PInv, BInv, SInv, IInv, TypeOK
<1>2. CASE UNCHANGED outcome
  BY <1>1, <1>2, NotSeen
<1>3. CASE VerificationComplete(disk) /\ outcome' = "success"
  <2>1. ASSUME NEW f \in File
        PROVE  disk[f] = Data[f] /\ disk[f] # Absent
    BY <1>1, <1>3, CompleteSet, DataIsContent
  <2> QED
    BY <1>1, <1>3, <2>1, AnnouncesRightly DEF Outcomes
<1> QED
  BY <1>2, <1>3
  DEF FirstScan, SecondScan, Stop, InPlace, BlocksUnshared

LEMMA PlanIsPromised ==
  ASSUME PInv, InPlace, Plan PROVE [Abstract!PromiseNext]_Abstract!promise
<1>1. /\ pc = "plan" /\ scanned = disk /\ disk \in Disk /\ OwnContent(disk)
      /\ disk' = disk /\ SameTargets
  BY DEF Plan, SameTargets, PInv, BInv, SInv, IInv, ScanInv, TypeOK
<1>2. CASE UNCHANGED outcome
  BY <1>1, <1>2, NotSeen
<1>3. CASE outcome' = "failed"
  BY <1>1, <1>3, AnnouncesRightly DEF Outcomes
<1>4. CASE Cardinality(MissingSlices(scanned)) = 0 /\ outcome' = "not_needed"
  <2>1. MissingSlices(disk) = {}
    BY <1>1, <1>4, SlicesFinite, FS_EmptySet
  <2>2. \A f \in File : Missing(disk, f) = {}
    BY <1>1, <2>1, MissingSlicesMember
  <2>3. \A f \in File :
          /\ disk[f] # Absent
          /\ \A i \in DOMAIN Data[f] :
               \E p \in DOMAIN disk[f] : disk[f][p] = Data[f][i]
    BY <1>1, <2>2, WholeInPlace
  <2> QED
    BY <1>1, <1>4, <2>3, AnnouncesRightly DEF Outcomes
<1> QED
  BY <1>2, <1>3, <1>4 DEF Plan, Stop

LEMMA FinishIsPromised ==
  ASSUME PInv, InPlace, Finish PROVE [Abstract!PromiseNext]_Abstract!promise
<1>1. /\ pc = "write" /\ todo = {} /\ disk' = disk /\ SameTargets
      /\ scanned \in Disk /\ OwnContent(scanned) /\ RewriteInv /\ IInv
  BY DEF Finish, SameTargets, PInv, BInv, SInv, IInv, TypeOK, SourceInv, Writing
<1>2. CASE outcome' = "failed"
  BY <1>1, <1>2, AnnouncesRightly DEF Outcomes
<1>3. CASE failed = {} /\ outcome' = "success"
  <2>1. ASSUME NEW f \in File
        PROVE  /\ disk[f] # Absent
               /\ \A i \in DOMAIN Data[f] :
                    \E p \in DOMAIN disk[f] : disk[f][p] = Data[f][i]
    <3>1. CASE f \in FilesToRepair(scanned)
      <4>1. disk[f] = Data[f]
        BY <1>1, <1>3, <3>1
        DEF RewriteInv, Writing, IInv, MendedFilesAreWhole
      <4> QED
        BY <4>1, DataIsContent
    <3>2. CASE f \notin FilesToRepair(scanned)
      <4>1. Missing(scanned, f) = {} /\ disk[f] = scanned[f]
        BY <1>1, <3>2, MissingIsRepaired DEF RewriteInv, Writing
      <4> QED
        BY <1>1, <4>1, WholeInPlace
    <3> QED
      BY <3>1, <3>2
  <2> QED
    BY <1>1, <1>3, <2>1, AnnouncesRightly DEF Outcomes
<1> QED
  BY <1>2, <1>3 DEF Finish, Stop

LEMMA NextIsPromised ==
  ASSUME PInv, InPlace, [Next]_vars
  PROVE  [Abstract!PromiseNext]_Abstract!promise
<1>1. /\ disk \in Disk /\ File \subseteq Path
  BY PathFacts DEF PInv, BInv, SInv, IInv, TypeOK
<1>2. CASE Reconstruct \/ PurgeSet \/ PurgeRest \/ UNCHANGED vars
  BY <1>2, NotSeen DEF Reconstruct, PurgeSet, PurgeRest, vars, SameTargets
<1>3. CASE ReconstructFails \/ PurgeFails
  BY <1>3, AnnouncesRightly
  DEF ReconstructFails, PurgeFails, Stop, SameTargets, Outcomes
<1>4. CASE Rerun
  BY <1>4, AnnouncesRightly DEF Rerun, NewProcess, SameTargets, Outcomes
<1>5. CASE PurgeBackup
  <2>1. /\ disk' = [disk EXCEPT ![Head(backups)] = Absent] /\ outcome' = outcome
        /\ Head(backups) \in BackupPaths
    BY <1>5 DEF PurgeBackup, PInv, BInv, SInv, IInv, BackupInv
  <2>2. Head(backups) \in Path /\ \A g \in File : g # Head(backups)
    BY <2>1, PathFacts
  <2>3. SameTargets
    BY <1>1, <2>1, <2>2 DEF Disk, SameTargets
  <2> QED
    BY <2>1, <2>3, NotSeen
<1>6. ASSUME pc \in Restoring, NEW f \in todo PROVE FALSE
  <2>1. f \in Renamed(scanned)
    BY <1>6 DEF PInv, BInv, SInv, IInv, RestoreInv
  <2> QED
    BY <2>1, NothingIsRenamed
<1>7. CASE Crash
  <2>1. SameTargets
    <3>1. CASE UNCHANGED disk
      BY <3>1 DEF SameTargets
    <3>2. CASE pc = "copy"
      BY <1>6, <1>7, <3>2 DEF Crash, IsFirst, Restoring, SameTargets
    <3>3. CASE pc = "stream"
      <4>1. PICK f \in File, n \in 0..Len(out) :
              disk' = [disk EXCEPT ![Temp[f]] = SubSeq(out, 1, n)]
        BY <1>7, <3>3 DEF Crash, PartlyWritten
      <4> QED
        BY <1>1, <4>1, PathFacts DEF Disk, SameTargets
    <3> QED
      BY <1>7, <3>1, <3>2, <3>3 DEF Crash
  <2> QED
    BY <1>7, <2>1, AnnouncesRightly DEF Crash, NewProcess, Outcomes
<1>8. ASSUME NEW f \in File, Restore(f)
      PROVE  [Abstract!PromiseNext]_Abstract!promise
  <2>1. pc \in Restoring /\ f \in todo
    BY <1>8 DEF Restore, BackupTarget, MoveRenamed, OpenCopy, CopyRenamed,
                RemoveCopied, MoveReady, RestoreFails, Restoring, IsFirst
  <2> QED
    BY <1>6, <2>1
<1> QED
  BY <1>2, <1>3, <1>4, <1>5, <1>7, <1>8, WriteIsPromised, ScanIsPromised,
     PlanIsPromised, FinishIsPromised
  DEF Next, Step

\* Where targets are repaired in place the command implements AtomicRepair:
\* whatever fails, and whenever it is killed, a target changes only by
\* becoming whole in one step, and success is announced only when every
\* target holds all its blocks.
THEOREM MendsInOneStep == ASSUME InPlace PROVE Spec => MendsAtomically
<1>1. Init => PInv
  BY InitBlocks DEF Init, PInv, WrittenRight, Writing, InPlace
<1>2. PInv /\ [Next]_vars => PInv'
  BY NextIsRight
<1>3. PInv /\ [Next]_vars => [Abstract!PromiseNext]_Abstract!promise
  BY NextIsPromised
<1>4. Init => Abstract!PromiseInit
  BY DEF Init, Abstract!PromiseInit
<1> QED
  BY <1>1, <1>2, <1>3, <1>4, PTL DEF Spec, MendsAtomically, Abstract!Promise
=============================================================================
