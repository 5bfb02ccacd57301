------------------------ MODULE Par2RepairProperties ------------------------
(***************************************************************************)
(* What the repair command must and must not do to the files of a set.     *)
(***************************************************************************)
EXTENDS Par2Repair

\* No block occurs twice in f, or in a file loaded before f: the other files
\* are never recognised as intact.
Plain(f) ==
  /\ \A i, j \in Slice(f) : Data[f][i] = Data[f][j] => i = j
  /\ Owned[f] = Slice(f)

\* No block of f is lost: its target has each of them somewhere.  A block of
\* zeros needs no place, reconstruction supplies it for a slice left out.
HoldsBlocks(d, f) ==
  \A i \in Slice(f) :
    Data[f][i] = Zero
      \/ (Exists(d, f) /\ \E p \in DOMAIN d[f] : d[f][p] = Data[f][i])

-----------------------------------------------------------------------------
(* Safety *)

\* Whatever is damaged around it, a file that is intact keeps its content at
\* its path through every step of the command, failures, kills and reruns
\* included: restore_renamed_files and write_repaired_file leave it alone.  A
\* file is not there yet while it is being copied from another file system.
Copying(f) == pc = "copy" /\ IsFirst(f, todo)
IntactFilesStay ==
  [][\A f \in File :
       Plain(f) /\ disk[f] = Data[f] /\ ~Copying(f) => disk'[f] = Data[f]]_vars

\* A file the command counts as restored or repaired has exactly its protected
\* content, and keeps it while the files after it are processed and purged
\* (the order of rename and MD5 check in write_repaired_file, the second
\* verification after the renames).
MendedFilesAreWhole ==
  /\ \A f \in repaired : disk[f] = Data[f]
  /\ \A f \in restored : Plain(f) => disk[f] = Data[f]

\* A file that is rewritten has a MD5 to answer for it.  For the others, which
\* the command only counts as verified, the MD5s of the rewritten files answer,
\* as long as no more of what was read is wrong than the recovery slices in use
\* tell apart.  Errors beyond that can cancel out (see the README).
Answered(f) ==
  \/ Missing(scanned, f) # {}
  \/ MissingSlices(scanned) = {}
  \/ ErrorsShow(WrongInputs(scanned))

\* When reconstruction reports success no block of the set depends on the
\* recovery data any more: each is in the target of its own file, also for
\* files that were only counted as verified (perform_reed_solomon_repair).
SuccessMeansRecovered ==
  outcome = "success" => \A f \in File : Answered(f) => HoldsBlocks(disk, f)

\* Purge deletes the recovery data and the backups only once nothing needs
\* them: every protected block is still in a target or an extra file, also
\* when the purge fails or is cut short (purge_files).
PurgeKeepsData ==
  ~par2 => \A f \in File : Answered(f) => \A i \in Slice(f) :
             Data[f][i] = Zero \/ Data[f][i] \in Available(disk)

\* Putting wrong-name files back loses nothing: what any file holds is still
\* held by some file after each step, even when it fails or is cut short, and
\* whichever file systems the files lie on.
RestoreLosesNothing ==
  [][(pc \in {"restore", "move", "copy", "remove"}) =>
       \A p \in Path : Exists(disk, p) /\ ~(p \in File /\ Copying(p)) =>
         \E q \in Path : disk'[q] = disk[p]]_vars

\* With -O a successful result means what it says: every protected file is at
\* its path with its protected content, the purge included.
RenamedSetIsValid ==
  RenameOnly /\ outcome \in {"success", "not_needed"} =>
    \A f \in File : disk[f] = Data[f]

\* Restoring is complete: when the command ends on its own no damaged or
\* missing file has an exact wrong-name copy left among the extra files, also
\* when files or extra files have the same content.
RenamesComplete ==
  pc = "exit" /\ outcome # "error" =>
    \A f \in {g \in File : Plain(g)} : \A k \in DOMAIN Extras :
      disk[Extras[k]] = Data[f] => disk[f] = Data[f]

\* A command that was not killed leaves no temporary file of a file it tried
\* to write, not even one an earlier, killed command had left.
TempFilesRemoved ==
  pc \in {"purge", "exit"} =>
    \A f \in repaired \cup failed : ~Exists(disk, Temp[f])

\* No step, failed or killed, makes more blocks unavailable: what could be
\* repaired before a command can be repaired after it.
BlocksNeverLost == [][Available(disk) \subseteq Available(disk')]_vars

-----------------------------------------------------------------------------
(* Liveness *)

Repairable(d) ==
  /\ Cardinality(MissingSlices(d)) <= Recovery
  /\ MissingSlices(d) \notin Singular

\* A command that starts on a set with enough recovery data, whatever earlier
\* commands left, and meets no failure itself, ends in success.
RepairableIsRepaired ==
  (/\ pc = "scan" /\ Repairable(disk)
   /\ faults = MaxFaults /\ crashes = MaxCrashes)
    ~> outcome \in {"success", "not_needed"}

\* Every command that is started ends.
CommandsEnd == pc = "scan" ~> pc \in {"exit", "crashed"}

-----------------------------------------------------------------------------
(* Sets without shared blocks *)

\* The protected blocks in a content, among whatever else, are those of f.
OwnCells(f, c) ==
  \A p \in DOMAIN c : c[p] \in Protected => \E i \in Slice(f) : c[p] = Data[f][i]

OwnContent(d) == \A f \in File : Exists(d, f) => OwnCells(f, d[f])

\* No block occurs twice in the set, nor at first in the target of another
\* file, and files are not only to be renamed.
BlocksUnshared ==
  /\ ~RenameOnly
  /\ \A f \in File : Plain(f)
  /\ \A d \in InitialDisks : OwnContent(d)

\* What is computed from wrong inputs is never taken for a protected block.
MiscomputedIsJunk == Miscomputed \cap Protected = {}

\* Moreover no file is empty, and no extra file is given: targets are only
\* changed by writing them anew.
InPlace ==
  /\ BlocksUnshared
  /\ Extras = <<>>
  /\ \A f \in File : Data[f] # <<>>

-----------------------------------------------------------------------------
(* The promise *)

Abstract == INSTANCE AtomicRepair
              WITH target <- [f \in File |-> disk[f]], report <- outcome

\* Killed or failing at any step, the command mends targets atomically and
\* announces success only when no block is missing.
MendsAtomically == Abstract!Promise

-----------------------------------------------------------------------------
(* What the documentation says and the code does not do *)

\* "For an intact file, we should see it verified, not repaired"
\* (tests/test_repair_integration.rs).
IntactIsNotRepaired ==
  [][\A f \in File : disk[f] = Data[f] => disk'[f] = Data[f]]_vars

\* Blocks found at displaced offsets or inside extra files are protected data
\* that repair can use (README.md, File Scanning Strategy): when no more are
\* missing than there are recovery slices, the repair succeeds.
FoundBlocksSuffice ==
  (pc = "exit" /\ faults = 0 /\ Repairable(scanned))
    => outcome \in {"success", "not_needed"}
=============================================================================
