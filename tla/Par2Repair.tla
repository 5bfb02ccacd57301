----------------------------- MODULE Par2Repair -----------------------------
(***************************************************************************)
(* The PAR2 repair command: src/repair/mod.rs, with the purge of           *)
(* src/repair/context.rs and the exit of src/bin/par2.rs.                  *)
(*                                                                         *)
(*   scan -> restore wrong-name files -> scan again -> plan -> reconstruct *)
(*        -> per file: temporary file, rename, MD5 check -> purge -> exit  *)
(*                                                                         *)
(* One command runs at a time.  File system calls may fail, the process    *)
(* may be killed between any two of them, and the command may be run again *)
(* on what is left.  Reed-Solomon arithmetic is abstracted to what it      *)
(* guarantees: right inputs give right slices, and inputs that are wrong   *)
(* where the recovery slices in use tell errors apart give at least one    *)
(* wrong slice.  Errors in more inputs than that can cancel out.           *)
(***************************************************************************)
EXTENDS GlobalVerify

CONSTANTS
  Zero,        \* what an input slice left out of the sum counts as
  Temp,        \* temporary path of a file: its extension becomes par2_tmp
  Backup,      \* backup paths of a file, first choice first: name.1, name.2
  Foreign,     \* paths on another file system than the protected files
  Recovery,    \* number of recovery slices the set offers
  Singular,    \* sets of slices whose coefficients, in as many of the first
               \* recovery slices, form a matrix that has no inverse
  Miscomputed, \* what a slice computed from wrong inputs may be taken for
  Purge,       \* the -p option
  InitialDisks, \* what the disk may hold when the command is first run
  MaxFaults,   \* bound: file system calls that fail
  MaxCrashes,  \* bound: times the process is killed
  MaxRuns      \* bound: times the command is run

ASSUME RepairAssumption ==
  /\ Zero \in Block
  /\ Temp \in [File -> Path]
  /\ Backup \in [File -> Seq(Path)]
  /\ Foreign \subseteq Path
  /\ Recovery \in Nat
  /\ Singular \subseteq SUBSET Slices
  /\ Junk \in Miscomputed /\ Miscomputed \subseteq Cell
  /\ Purge \in BOOLEAN
  /\ InitialDisks \subseteq [Path -> Content \cup {Absent}]
  /\ MaxFaults \in Nat /\ MaxCrashes \in Nat /\ MaxRuns \in Nat \ {0}

VARIABLES
  disk,      \* path -> content, or Absent
  par2,      \* the PAR2 files are all there
  pc,        \* step the command is at
  scanned,   \* the disk as the last verification pass saw it
  todo,      \* files the current loop has still to process
  restored,  \* files moved back from an extra path
  backups,   \* backup paths recorded by this command
  recon,     \* slice -> reconstructed cell, for the missing slices
  out,       \* cells written to the temporary file so far
  repaired,  \* files rewritten and found to have the right MD5
  failed,    \* files whose rewriting failed
  outcome,   \* what the command reports
  faults, crashes, runs  \* counters for the bounds

memory == <<scanned, todo, restored, backups, recon, out, repaired, failed>>
bounds == <<faults, crashes, runs>>
vars == <<disk, par2, pc, memory, outcome, bounds>>

Steps == {"scan", "restore", "move", "copy", "remove", "rescan", "plan", "reconstruct",
          "write", "stream", "publish", "check", "purge", "exit", "crashed"}
Outcomes == {"none", "success", "not_needed", "failed", "error"}
Disk == [Path -> Content \cup {Absent}]

TypeOK ==
  /\ disk \in Disk
  /\ par2 \in BOOLEAN
  /\ pc \in Steps
  /\ scanned \in Disk
  /\ todo \subseteq File
  /\ restored \subseteq File
  /\ backups \in Seq(Path)
  /\ recon \in UNION {[S -> Cell] : S \in SUBSET Slices}
  /\ out \in Content
  /\ repaired \subseteq File
  /\ failed \subseteq File
  /\ outcome \in Outcomes
  /\ faults \in Nat /\ crashes \in Nat /\ runs \in Nat

-----------------------------------------------------------------------------
(* Helpers *)

IsFirst(f, S) == f \in S /\ \A g \in S : Rank[f] <= Rank[g]

Move(d, from, to) == [d EXCEPT ![to] = d[from], ![from] = Absent]

\* Fault for testing: the first backup name is used without a look.
FirstBackup(d, f, k) == k = 1 /\ k \in DOMAIN Backup[f]

\* The first candidate that does not exist, as next_backup_path finds it.
IsNextBackup(d, f, k) ==
  /\ k \in DOMAIN Backup[f]
  /\ ~Exists(d, Backup[f][k])
  /\ \A j \in 1..(k - 1) : Exists(d, Backup[f][j])

\* A file system call fails.
Fault == faults < MaxFaults /\ faults' = faults + 1

\* Fault for testing: a failed command purges as well.
StopAndPurge(result) ==
  /\ outcome' = result
  /\ pc' = IF Purge THEN "purge" ELSE "exit"

\* The command stops with an error or reports its result; with -p a
\* successful result leads to the purge.
Stop(result) ==
  /\ outcome' = result
  /\ pc' = IF Purge /\ result \in {"success", "not_needed"}
           THEN "purge" ELSE "exit"

Init ==
  /\ disk \in InitialDisks
  /\ par2 = TRUE
  /\ pc = "scan"
  /\ scanned = disk
  /\ todo = {} /\ restored = {} /\ backups = <<>> /\ recon = <<>>
  /\ out = <<>> /\ repaired = {} /\ failed = {}
  /\ outcome = "none"
  /\ faults = 0 /\ crashes = 0 /\ runs = 1

-----------------------------------------------------------------------------
(* Verification, and what follows it *)

\* Fault for testing: files not restored are taken to be in order.
RestoredResult(d) == IF restored = {} THEN "not_needed" ELSE "success"

RenameOnlyResult(d) ==
  IF ~VerificationComplete(d) THEN "failed"
  ELSE IF restored = {} THEN "not_needed" ELSE "success"

\* The first pass.  Files with an exact wrong-name copy are restored first.
FirstScan ==
  /\ pc = "scan"
  /\ scanned' = disk
  /\ todo' = Renamed(disk)
  /\ IF Renamed(disk) # {} THEN pc' = "restore" /\ UNCHANGED outcome
     ELSE IF RenameOnly THEN Stop(RenameOnlyResult(disk))
     ELSE pc' = "plan" /\ UNCHANGED outcome
  /\ UNCHANGED <<disk, par2, restored, backups, recon, out, repaired, failed,
                 bounds>>

\* An existing target is first moved to a backup path.
BackupTarget(f) ==
  /\ pc = "restore" /\ IsFirst(f, todo) /\ Exists(disk, f)
  /\ \E k \in DOMAIN Backup[f] :
       /\ IsNextBackup(disk, f, k)
       /\ disk' = Move(disk, f, Backup[f][k])
       /\ backups' = Append(backups, Backup[f][k])
  /\ pc' = "move"
  /\ UNCHANGED <<par2, scanned, todo, restored, recon, out, repaired, failed,
                 outcome, bounds>>

MoveReady(f) ==
  /\ IsFirst(f, todo)
  /\ pc = "move" \/ (pc = "restore" /\ ~Exists(disk, f))
  /\ Exists(disk, MatchedPath(scanned, f))

FileRestored(f) ==
  /\ restored' = restored \cup {f}
  /\ todo' = todo \ {f}
  /\ pc' = IF todo' = {} THEN "rescan" ELSE "restore"

\* The matched path, as the first pass recorded it, is renamed to the target.
MoveRenamed(f) ==
  /\ MoveReady(f) /\ MatchedPath(scanned, f) \notin Foreign
  /\ disk' = Move(disk, MatchedPath(scanned, f), f)
  /\ FileRestored(f)
  /\ UNCHANGED <<par2, scanned, backups, recon, out, repaired, failed,
                 outcome, bounds>>

\* From another file system it is copied to a new file at the target ...
OpenCopy(f) ==
  /\ MoveReady(f) /\ MatchedPath(scanned, f) \in Foreign
  /\ disk' = [disk EXCEPT ![f] = <<>>]
  /\ pc' = "copy"
  /\ UNCHANGED <<par2, memory, outcome, bounds>>

CopyRenamed(f) ==
  /\ pc = "copy" /\ IsFirst(f, todo)
  /\ disk' = [disk EXCEPT ![f] = disk[MatchedPath(scanned, f)]]
  /\ pc' = "remove"
  /\ UNCHANGED <<par2, memory, outcome, bounds>>

\* ... and removed.
RemoveCopied(f) ==
  /\ pc = "remove" /\ IsFirst(f, todo)
  /\ disk' = [disk EXCEPT ![MatchedPath(scanned, f)] = Absent]
  /\ FileRestored(f)
  /\ UNCHANGED <<par2, scanned, backups, recon, out, repaired, failed,
                 outcome, bounds>>

\* The rename fails for lack of the matched path, or for another reason; a
\* failed backup rename, copy or removal ends the command the same way.  A
\* failed copy is removed.
RestoreFails(f) ==
  /\ pc \in {"restore", "move", "copy", "remove"} /\ IsFirst(f, todo)
  /\ \/ /\ pc \in {"restore", "move"}
        /\ pc = "restore" => ~Exists(disk, f)
        /\ ~Exists(disk, MatchedPath(scanned, f))
        /\ UNCHANGED faults
     \/ Fault
  /\ disk' = IF pc = "copy" THEN [disk EXCEPT ![f] = Absent] ELSE disk
  /\ Stop("error")
  /\ UNCHANGED <<par2, memory, crashes, runs>>

\* The second pass, after files were moved.
SecondScan ==
  /\ pc = "rescan"
  /\ scanned' = disk
  /\ IF VerificationComplete(disk) THEN Stop("success")
     ELSE IF RenameOnly THEN Stop(RenameOnlyResult(disk))
     ELSE pc' = "plan" /\ UNCHANGED outcome
  /\ UNCHANGED <<disk, par2, todo, restored, backups, recon, out, repaired,
                 failed, bounds>>

-----------------------------------------------------------------------------
(* Reconstruction *)

FilesToRepair(d) ==
  {f \in File : Status(d, f) # "present" /\ Missing(d, f) # {}}

Plan ==
  /\ pc = "plan"
  /\ LET n == Cardinality(MissingSlices(scanned))
     IN  IF n = 0 THEN Stop("not_needed")
         ELSE IF n > Recovery THEN Stop("failed")
         ELSE pc' = "reconstruct" /\ UNCHANGED outcome
  /\ UNCHANGED <<disk, par2, memory, bounds>>

\* What is read for a slice that counts as valid: always the target path, at
\* the recorded position; a slice beyond the end of the file is left out.
InputCell(d, f, i) ==
  LET p == Position(scanned, f, i)
  IN  IF Exists(d, f) /\ p \in DOMAIN d[f] THEN d[f][p] ELSE Zero

WrongInputs(d) ==
  {s \in Slices \ MissingSlices(scanned) :
     InputCell(d, s[1], s[2]) # Data[s[1]][s[2]]}

\* As many recovery slices are used as slices are missing, the first ones.
\* What errors in some inputs add to them is their coefficients' combination:
\* it cannot vanish when these belong to a matrix that has an inverse.
ErrorsShow(wrong) ==
  \E S \in SUBSET Slices :
    /\ wrong \subseteq S /\ S \notin Singular
    /\ Cardinality(S) = Cardinality(MissingSlices(scanned))

TrueSlices == [s \in MissingSlices(scanned) |-> Data[s[1]][s[2]]]

\* Nothing but the coefficients decides which wrong inputs make which slices
\* wrong, and when errors cancel out.
Reconstruct ==
  /\ pc = "reconstruct"
  /\ MissingSlices(scanned) \notin Singular
  /\ LET wrong == WrongInputs(disk)
     IN  \E sums \in [MissingSlices(scanned) -> Cell] :
           /\ \A s \in MissingSlices(scanned) :
                sums[s] \in {TrueSlices[s]} \cup Miscomputed
           /\ wrong = {} => sums = TrueSlices
           /\ sums = TrueSlices => wrong = {} \/ ~ErrorsShow(wrong)
           /\ recon' = sums
  /\ todo' = FilesToRepair(scanned)
  /\ pc' = "write"
  /\ UNCHANGED <<disk, par2, scanned, restored, backups, out, repaired,
                 failed, outcome, bounds>>

ReconstructFails ==
  /\ pc = "reconstruct"
  /\ \/ MissingSlices(scanned) \in Singular /\ UNCHANGED faults
     \/ Fault
  /\ Stop("error")
  /\ UNCHANGED <<disk, par2, memory, crashes, runs>>

-----------------------------------------------------------------------------
(* Writing one file *)

\* Fault for testing: the target itself is truncated and rewritten.
OpenTarget(f) ==
  /\ pc = "write" /\ IsFirst(f, todo)
  /\ disk' = [disk EXCEPT ![f] = <<>>]
  /\ out' = <<>>
  /\ pc' = "stream"
  /\ UNCHANGED <<par2, scanned, todo, restored, backups, recon, repaired,
                 failed, outcome, bounds>>

\* Fault for testing: the temporary file must not exist yet.
OpenNewTemp(f) ==
  /\ pc = "write" /\ IsFirst(f, todo) /\ ~Exists(disk, Temp[f])
  /\ disk' = [disk EXCEPT ![Temp[f]] = <<>>]
  /\ out' = <<>>
  /\ pc' = "stream"
  /\ UNCHANGED <<par2, scanned, todo, restored, backups, recon, repaired,
                 failed, outcome, bounds>>

\* The source is opened for reading and the temporary file created.
OpenTemp(f) ==
  /\ pc = "write" /\ IsFirst(f, todo)
  /\ disk' = [disk EXCEPT ![Temp[f]] = <<>>]
  /\ out' = <<>>
  /\ pc' = "stream"
  /\ UNCHANGED <<par2, scanned, todo, restored, backups, recon, repaired,
                 failed, outcome, bounds>>

WriteCell(f, c) ==
  /\ out' = Append(out, c)
  /\ UNCHANGED <<disk, par2, pc, scanned, todo, restored, backups, recon,
                 repaired, failed, outcome, bounds>>

NextSlice(f, i) ==
  pc = "stream" /\ IsFirst(f, todo) /\ i = Len(out) + 1 /\ i \in Slice(f)

CanRead(f, i) == Exists(disk, f) /\ Position(scanned, f, i) \in DOMAIN disk[f]

WriteReconstructed(f, i) ==
  /\ NextSlice(f, i) /\ i \in Missing(scanned, f)
  /\ WriteCell(f, recon[<<f, i>>])

\* Fault for testing: what is read is not cut to the slice.
WriteSourceUncut(f, i) ==
  /\ NextSlice(f, i) /\ i \notin Missing(scanned, f) /\ CanRead(f, i)
  /\ WriteCell(f, disk[f])

WriteSourced(f, i) ==
  /\ NextSlice(f, i) /\ i \notin Missing(scanned, f) /\ CanRead(f, i)
  /\ WriteCell(f, disk[f][Position(scanned, f, i)])

\* Everything is written: the buffered writer is flushed and closed.
FlushTemp(f) ==
  /\ pc = "stream" /\ IsFirst(f, todo) /\ Len(out) = Len(Data[f])
  /\ disk' = [disk EXCEPT ![Temp[f]] = out]
  /\ pc' = "publish"
  /\ UNCHANGED <<par2, memory, outcome, bounds>>

\* The temporary file replaces the target.
Publish(f) ==
  /\ pc = "publish" /\ IsFirst(f, todo)
  /\ disk' = Move(disk, Temp[f], f)
  /\ pc' = "check"
  /\ UNCHANGED <<par2, memory, outcome, bounds>>

\* Fault for testing: what was written is taken to be right.
SkipMd5(f) ==
  /\ pc = "check" /\ IsFirst(f, todo)
  /\ repaired' = repaired \cup {f}
  /\ todo' = todo \ {f}
  /\ pc' = "write"
  /\ UNCHANGED <<disk, par2, scanned, restored, backups, recon, out, failed,
                 outcome, bounds>>

\* Only now is the MD5 of what was written compared.
CheckMd5(f) ==
  /\ pc = "check" /\ IsFirst(f, todo)
  /\ IF out = Data[f]
     THEN repaired' = repaired \cup {f} /\ UNCHANGED failed
     ELSE failed' = failed \cup {f} /\ UNCHANGED repaired
  /\ todo' = todo \ {f}
  /\ pc' = "write"
  /\ UNCHANGED <<disk, par2, scanned, restored, backups, recon, out, outcome,
                 bounds>>

\* Fault for testing: no guard removes the temporary file.
WriteFailsLeavingTemp(f) ==
  /\ pc \in {"write", "stream", "publish"} /\ IsFirst(f, todo)
  /\ \/ /\ \E i \in Slice(f) :
             NextSlice(f, i) /\ i \notin Missing(scanned, f) /\ ~CanRead(f, i)
        /\ UNCHANGED faults
     \/ Fault
  /\ UNCHANGED disk
  /\ failed' = failed \cup {f}
  /\ todo' = todo \ {f}
  /\ pc' = "write"
  /\ UNCHANGED <<par2, scanned, restored, backups, recon, out, repaired,
                 outcome, crashes, runs>>

\* Fault for testing: a file that failed is tried again.
WriteFailsRetrying(f) ==
  /\ pc \in {"write", "stream", "publish"} /\ IsFirst(f, todo)
  /\ \/ /\ \E i \in Slice(f) :
             NextSlice(f, i) /\ i \notin Missing(scanned, f) /\ ~CanRead(f, i)
        /\ UNCHANGED faults
     \/ Fault
  /\ disk' = [disk EXCEPT ![Temp[f]] = Absent]
  /\ failed' = failed \cup {f}
  /\ UNCHANGED todo
  /\ pc' = "write"
  /\ UNCHANGED <<par2, scanned, restored, backups, recon, out, repaired,
                 outcome, crashes, runs>>

\* A file system call fails, or a slice that counts as valid cannot be read
\* where it should be: the guard removes the temporary file and the command
\* goes on with the next file.
WriteFails(f) ==
  /\ pc \in {"write", "stream", "publish"} /\ IsFirst(f, todo)
  /\ \/ /\ \E i \in Slice(f) :
             NextSlice(f, i) /\ i \notin Missing(scanned, f) /\ ~CanRead(f, i)
        /\ UNCHANGED faults
     \/ Fault
  /\ disk' = [disk EXCEPT ![Temp[f]] = Absent]
  /\ failed' = failed \cup {f}
  /\ todo' = todo \ {f}
  /\ pc' = "write"
  /\ UNCHANGED <<par2, scanned, restored, backups, recon, out, repaired,
                 outcome, crashes, runs>>

\* Fault for testing: failed files are forgotten.
FinishForgetting ==
  /\ pc = "write" /\ todo = {}
  /\ Stop("success")
  /\ UNCHANGED <<disk, par2, memory, bounds>>

Finish ==
  /\ pc = "write" /\ todo = {}
  /\ Stop(IF failed = {} THEN "success" ELSE "failed")
  /\ UNCHANGED <<disk, par2, memory, bounds>>

-----------------------------------------------------------------------------
(* Purge: the backups this command made, then the PAR2 files *)

PurgeBackup ==
  /\ pc = "purge" /\ backups # <<>>
  /\ disk' = [disk EXCEPT ![Head(backups)] = Absent]
  /\ backups' = Tail(backups)
  /\ UNCHANGED <<par2, pc, scanned, todo, restored, recon, out, repaired,
                 failed, outcome, bounds>>

\* The PAR2 files go one by one: with the first the set is not all there ...
PurgeSet ==
  /\ pc = "purge" /\ backups = <<>> /\ par2
  /\ par2' = FALSE
  /\ UNCHANGED <<disk, pc, memory, outcome, bounds>>

\* ... and the others follow.
PurgeRest ==
  /\ pc = "purge" /\ ~par2
  /\ pc' = "exit"
  /\ UNCHANGED <<disk, par2, memory, outcome, bounds>>

\* The removal of a backup, or of the first PAR2 file or a later one, fails.
PurgeFails ==
  /\ pc = "purge"
  /\ Fault
  /\ outcome' = "error"
  /\ pc' = "exit"
  /\ UNCHANGED <<disk, par2, memory, crashes, runs>>

-----------------------------------------------------------------------------
(* Kill and rerun *)

\* Nothing of what a process knew is left to the next, whose first pass sets
\* scanned anew.
NewProcess ==
  /\ todo' = {} /\ restored' = {} /\ backups' = <<>> /\ recon' = <<>>
  /\ out' = <<>> /\ repaired' = {} /\ failed' = {}
  /\ outcome' = "none"

\* Buffered output has reached the file being written in part.
PartlyWritten(path, content) ==
  \E n \in 0..Len(content) :
    disk' = [disk EXCEPT ![path] = SubSeq(content, 1, n)]

Crash ==
  /\ pc \notin {"exit", "crashed"}
  /\ crashes < MaxCrashes
  /\ crashes' = crashes + 1
  /\ \/ pc \notin {"copy", "stream"} /\ UNCHANGED disk
     \/ \E f \in File :
          /\ IsFirst(f, todo)
          /\ \/ pc = "copy" /\ PartlyWritten(f, disk[MatchedPath(scanned, f)])
             \/ pc = "stream" /\ PartlyWritten(Temp[f], out)
  /\ NewProcess
  /\ pc' = "crashed"
  /\ UNCHANGED <<par2, scanned, faults, runs>>

Rerun ==
  /\ pc \in {"exit", "crashed"} /\ par2
  /\ runs < MaxRuns
  /\ runs' = runs + 1
  /\ NewProcess
  /\ pc' = "scan"
  /\ UNCHANGED <<disk, par2, scanned, faults, crashes>>

Restore(f) ==
  \/ BackupTarget(f) \/ MoveRenamed(f)
  \/ OpenCopy(f) \/ CopyRenamed(f) \/ RemoveCopied(f)
  \/ RestoreFails(f)

Write(f) ==
  \/ OpenTemp(f)
  \/ \E i \in Slice(f) : WriteReconstructed(f, i) \/ WriteSourced(f, i)
  \/ FlushTemp(f) \/ Publish(f) \/ CheckMd5(f) \/ WriteFails(f)

\* A step of the running command.
Step ==
  \/ FirstScan \/ SecondScan \/ Plan \/ Reconstruct \/ ReconstructFails
  \/ \E f \in File : Restore(f) \/ Write(f)
  \/ Finish \/ PurgeBackup \/ PurgeSet \/ PurgeRest \/ PurgeFails

Next == Step \/ Crash \/ Rerun

Spec == Init /\ [][Next]_vars

\* The command is a single thread that never waits: while it runs it goes on.
FairSpec == Spec /\ WF_vars(Step)
=============================================================================
