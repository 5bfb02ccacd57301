------------------------------ MODULE Par1Repair ------------------------------
(***************************************************************************)
(* The verify and repair commands for PAR1 sets: src/par1.                 *)
(*                                                                         *)
(*   begin -> restore wrong-name files -> rescan and reconstruct           *)
(*         -> write each file -> check -> purge backups, then recovery files *)
(*                                                                         *)
(* A PAR1 set protects whole files: each is one slice, padded to the length *)
(* of the longest.  Recovery files are made by other programs; their       *)
(* arithmetic is that of the PAR1 format.  Slices are reconstructed by the *)
(* engine for PAR2 (ReedSolomon).                                          *)
(***************************************************************************)
EXTENDS ReedSolomon, Par1Format

CONSTANTS
  Jobs,       \* commands with the disk they find, as records
  MaxFaults,  \* bound: system calls that fail
  MaxCrashes, \* bound: kills of the process
  MaxRuns     \* bound: times the command is run

ASSUME Par1Assumption ==
  MaxFaults \in Nat /\ MaxCrashes \in Nat /\ MaxRuns \in Nat

\* Files of bytes, recovery files numbered by a byte, extra files that are given
\* once each (canonical_extra_files drops copies), and the paths there can be.
ASSUME JobsAssumption ==
  \A j \in Jobs :
    /\ j.data \in Seq(Seq(Byte)) /\ j.data # <<>>
    /\ DOMAIN j.files = 1..Len(j.files) /\ Len(j.files) \in Nat
    /\ \A i \in DOMAIN j.files : j.files[i].volume \in 0..255
    /\ j.suffixes \in Nat
    /\ (DOMAIN j.data) \X (0..j.suffixes) \subseteq DOMAIN j.disk
    /\ j.extras \in Seq(DOMAIN j.disk)
    /\ j.memory \in Nat \cup {NoLimit}

VARIABLES
  job,      \* the set, the command and what it is given
  disk,     \* content at each path
  par1,     \* recovery files on disk, as indices of job.files
  pc,       \* step of the command
  todo,     \* entries still to be moved or written, in order
  match,    \* wrong-name copies the scan before the moves found
  rebuilt,  \* reconstructed contents
  backups,  \* backups still to be deleted by purge
  doomed,   \* recovery files still to be deleted by purge
  outcome,  \* what is reported
  faults, crashes, runs  \* counters for the bounds

vars ==
  <<job, disk, par1, pc, todo, match, rebuilt, backups, doomed, outcome,
    faults, crashes, runs>>

held == <<todo, match, rebuilt, backups, doomed>>
counters == <<faults, crashes, runs>>

-----------------------------------------------------------------------------
(* Paths are the places of the protected files, numbered backups of them and
   others. *)

Target(f) == <<f, 0>>
Backup(f, k) == <<f, k>>
Other(k) == <<0, k>>

Absent == <<-1>>
Exists(d, p) == d[p] # Absent

Entry == DOMAIN job.data
Truth(f) == job.data[f]
Size == Max({Len(Truth(f)) : f \in Entry})
PadTo(bytes, n) == bytes \o Zeros(n - Len(bytes))

-----------------------------------------------------------------------------
(* The recovery files, as the PAR1 format has it: recovery file v holds the sum
   over files i, counted from 1, of file i times i^(v-1), byte by byte in the
   field of one byte. *)

CONSTANT ByteGenerator  \* polynomial of the field of bytes (16r11D)

TimesX(a) ==
  IF 2 * a < ByteCount THEN 2 * a
  ELSE Xor(2 * a - ByteCount, ByteGenerator - ByteCount)
ByteProductTable ==
  LET P[a \in Byte, b \in Byte] ==
        IF b = 0 THEN 0
        ELSE Xor(IF b % 2 = 1 THEN a ELSE 0, P[TimesX(a), b \div 2])
  IN  [p \in Byte \X Byte |-> P[p[1], p[2]]]
BytePower[a \in Byte, e \in Nat] ==
  IF e = 0 THEN 1 ELSE ByteProductTable[<<a, BytePower[a, e - 1]>>]

VolumeData(data, v) ==
  LET size == Max({Len(data[f]) : f \in DOMAIN data})
  IN  [p \in 1..size |->
         FoldLeft(LAMBDA sum, f :
                    Xor(sum, ByteProductTable[<<BytePower[f, v - 1],
                                                PadTo(data[f], size)[p]>>]),
                  0, UpTo(Len(data)))]

\* The recovery file that job.files describes: its number, and what is changed
\* in it, with or without a new control hash.
RecoveryFile(i) ==
  LET d == job.files[i]
      made == Made(ListFor(job.data), d.volume,
                   IF d.volume = 0 THEN <<>> ELSE VolumeData(job.data, d.volume),
                   d.dataFirst)
      changed == d.change @@ made
  IN  IF d.finished THEN Finished(changed) ELSE changed

ReadFile(i) == ParseSet(RecoveryFile(i))

-----------------------------------------------------------------------------
(* The scan of a disk *)

Status(d, f) ==
  IF ~Exists(d, Target(f)) THEN "missing"
  ELSE IF d[Target(f)] = Truth(f) THEN "present" ELSE "corrupted"

NoPath == <<>>

Damaged(d) == {f \in Entry : Status(d, f) # "present"}

\* Each extra file goes to the first entry that is not present, has no match
\* yet and is what the extra file holds: those with one content, in their order,
\* go to the entries with this content, in theirs.
Matches(d) ==
  LET holding(f) == {k \in DOMAIN job.extras : d[job.extras[k]] = Truth(f)}
      before(f) == {g \in Damaged(d) : g < f /\ Truth(g) = Truth(f)}
      turn(f) == {k \in holding(f) :
                    Cardinality({j \in holding(f) : j < k}) = Cardinality(before(f))}
  IN  [f \in Entry |->
         IF f \in Damaged(d) /\ turn(f) # {}
         THEN job.extras[CHOOSE k \in turn(f) : TRUE] ELSE NoPath]

-----------------------------------------------------------------------------
(* Reconstruction *)

\* The volumes of the recovery files, copies too, by exponent, and those of one
\* exponent in the order of the files.
RecoveryPackets ==
  LET offered == UNION {{i} \X ToSet(ReadFile(i).volume) : i \in par1}
      before == [p \in offered |->
                   {q \in offered :
                      \/ q[2].exponent < p[2].exponent
                      \/ q[2].exponent = p[2].exponent /\ q[1] < p[1]}]
      order == Arranged(offered, before)
  IN  [r \in DOMAIN order |-> order[r][2]]

Piece(bytes, offset, n) == SubSeq(bytes, offset + 1, offset + n)

\* The missing contents from offset on, at most n bytes of each.
RebuildChunk(missing, packets, offset, n) ==
  ReconstructGlobal(job.level, n, Len(job.data),
    [i \in {f - 1 : f \in Entry \ ToSet(missing)} |->
       Piece(PadTo(disk[Target(i + 1)], Size), offset, n)],
    [k \in DOMAIN missing |-> missing[k] - 1],
    [r \in DOMAIN packets |->
       [packets[r] EXCEPT !.data = Piece(@, offset, n)]])

\* The chunks of each content one after the other.
Joined(missing, chunks) ==
  IF \E c \in DOMAIN chunks : chunks[c] = <<>> THEN <<>>
  ELSE [k \in DOMAIN missing |->
          FlattenSeq([c \in DOMAIN chunks |-> chunks[c][k]])]

\* With a chunk size below the length of a slice, chunk by chunk; <<>> when a
\* chunk cannot be reconstructed.
Rebuild(missing, packets) ==
  LET chunk == RepairChunkSize(Size, job.memory)
  IN  IF chunk = 0 THEN <<>>
      ELSE Joined(missing,
             [c \in 1..((Size + chunk - 1) \div chunk) |->
                RebuildChunk(missing, packets, (c - 1) * chunk,
                             Lesser(chunk, Size - (c - 1) * chunk))])

-----------------------------------------------------------------------------
(* The command *)

Exit(result) == pc' = "exit" /\ outcome' = result

Init ==
  /\ job \in Jobs
  /\ disk = job.disk /\ par1 = DOMAIN job.files
  /\ pc = "begin" /\ outcome = "none"
  /\ todo = <<>> /\ match = <<>> /\ rebuilt = <<>>
  /\ backups = <<>> /\ doomed = <<>>
  /\ faults = 0 /\ crashes = 0 /\ runs = 1

Fault == faults < MaxFaults /\ faults' = faults + 1

\* Purge deletes the backups of this command, then the recovery files that were
\* collected at its start.
PurgeOr(result) ==
  IF job.purge THEN pc' = "purge" /\ UNCHANGED outcome ELSE Exit(result)

\* Verification reads the first recovery file only.
FirstReadable == par1 # {} /\ ReadFile(Min(par1)).ok

\* Any recovery file that is damaged, or of another set, ends the repair.
Readable ==
  /\ FirstReadable
  /\ LET main == ReadFile(Min(par1))
     IN  \A i \in par1 :
           LET set == ReadFile(i)
           IN  set.ok /\ set.setHash = main.setHash /\ set.files = main.files

\* Targets and extra files are read; an extra file that cannot be read ends the
\* command.
ScanFails ==
  /\ pc \in {"begin", "rescan"} /\ job.extras # <<>> /\ Damaged(disk) # {}
  /\ Fault /\ Exit("error")
  /\ UNCHANGED <<job, disk, par1, crashes, runs>> /\ UNCHANGED held

Verify ==
  /\ pc = "begin" /\ job.command = "verify"
  /\ doomed' = InOrder(par1)
  /\ IF ~FirstReadable THEN Exit("error")
     ELSE IF Damaged(disk) # {} THEN Exit("damaged")
     ELSE PurgeOr("success")
  /\ UNCHANGED <<job, disk, par1, todo, match, rebuilt, backups>>
  /\ UNCHANGED counters

Begin ==
  /\ pc = "begin" /\ job.command = "repair"
  /\ doomed' = InOrder(par1)
  /\ IF ~Readable THEN Exit("error") /\ UNCHANGED <<todo, match>>
     ELSE IF Damaged(disk) = {} THEN PurgeOr("success") /\ UNCHANGED <<todo, match>>
     ELSE /\ match' = Matches(disk)
          /\ todo' = InOrder({f \in Entry : match'[f] # NoPath})
          /\ pc' = IF todo' = <<>> THEN "rescan" ELSE "restore"
          /\ UNCHANGED outcome
  /\ UNCHANGED <<job, disk, par1, rebuilt, backups>> /\ UNCHANGED counters

-----------------------------------------------------------------------------
(* Wrong-name files: what is in the way is moved to the first free backup *)

Current == Head(todo)

\* Fault for testing: the first backup name is taken without looking.
FirstBackup(f) == Backup(f, 1)

\* There are job.suffixes numbers to try, a bound: the code counts on.
FreeSuffixes(f) == {k \in 1..job.suffixes : ~Exists(disk, Backup(f, k))}
NextBackup(f) == Backup(f, Min(FreeSuffixes(f)))

BackupTarget ==
  /\ pc = "restore" /\ Exists(disk, Target(Current))
  /\ FreeSuffixes(Current) # {}
  /\ LET to == NextBackup(Current)
     IN  /\ disk' = [disk EXCEPT ![to] = disk[Target(Current)],
                                 ![Target(Current)] = Absent]
         /\ backups' = Append(backups, to)
  /\ pc' = "move"
  /\ UNCHANGED <<job, par1, todo, match, rebuilt, doomed, outcome>>
  /\ UNCHANGED counters

Moving ==
  \/ pc = "restore" /\ ~Exists(disk, Target(Current))
  \/ pc = "move"

Far == match[Current] \in job.far

NextMove ==
  /\ todo' = Tail(todo)
  /\ pc' = IF Len(todo) = 1 THEN "rescan" ELSE "restore"

MoveMatch ==
  /\ Moving /\ ~Far /\ Exists(disk, match[Current])
  /\ disk' = [disk EXCEPT ![Target(Current)] = disk[match[Current]],
                          ![match[Current]] = Absent]
  /\ NextMove
  /\ UNCHANGED <<job, par1, match, rebuilt, backups, doomed, outcome>>
  /\ UNCHANGED counters

\* From another file system: create, copy, remove the source.
OpenCopy ==
  /\ Moving /\ Far /\ Exists(disk, match[Current])
  /\ disk' = [disk EXCEPT ![Target(Current)] = <<>>]
  /\ pc' = "copy"
  /\ UNCHANGED <<job, par1, outcome>> /\ UNCHANGED held /\ UNCHANGED counters

CopyMatch ==
  /\ pc = "copy"
  /\ disk' = [disk EXCEPT ![Target(Current)] = disk[match[Current]]]
  /\ pc' = "remove"
  /\ UNCHANGED <<job, par1, outcome>> /\ UNCHANGED held /\ UNCHANGED counters

RemoveCopied ==
  /\ pc = "remove"
  /\ disk' = [disk EXCEPT ![match[Current]] = Absent]
  /\ NextMove
  /\ UNCHANGED <<job, par1, match, rebuilt, backups, doomed, outcome>>
  /\ UNCHANGED counters

\* A failed copy is removed again, a copy whose source cannot be removed stays.
RestoreFails ==
  /\ pc \in {"restore", "move", "copy", "remove"}
  /\ IF Moving /\ ~Exists(disk, match[Current]) THEN UNCHANGED faults ELSE Fault
  /\ disk' = IF pc = "copy" THEN [disk EXCEPT ![Target(Current)] = Absent]
             ELSE disk
  /\ Exit("error")
  /\ UNCHANGED <<job, par1, crashes, runs>> /\ UNCHANGED held

-----------------------------------------------------------------------------
(* Reconstruction, in memory, and the files it is written to *)

\* Fault for testing: only files that are not there are missing.
MissingAbsent(d) == InOrder({f \in Entry : ~Exists(d, Target(f))})

\* A wrong-name file that is still where it was counts as missing.
Missing(d) == InOrder(Damaged(d))

Reconstruct ==
  /\ pc = "rescan"
  /\ LET missing == Missing(disk)
         packets == RecoveryPackets
     IN  IF Damaged(disk) = {}
         THEN PurgeOr("success") /\ UNCHANGED <<todo, rebuilt>>
         ELSE IF Len(packets) < Len(missing)
         THEN Exit("error") /\ UNCHANGED <<todo, rebuilt>>
         ELSE /\ rebuilt' = Rebuild(missing, packets)
              /\ IF rebuilt' = <<>> THEN Exit("error") /\ UNCHANGED todo
                 ELSE /\ todo' = missing /\ pc' = "write"
                      /\ UNCHANGED outcome
  /\ UNCHANGED <<job, disk, par1, match, backups, doomed>> /\ UNCHANGED counters

Output ==
  SubSeq(rebuilt[Len(rebuilt) - Len(todo) + 1], 1, Len(Truth(Current)))

\* The target is cut and written in place; less than all of it may arrive
\* before the command is killed or the disk is full.
WriteSome ==
  /\ pc = "write"
  /\ \E n \in 0..Len(Output) :
       disk' = [disk EXCEPT ![Target(Current)] = SubSeq(Output, 1, n)]
  /\ pc' = "written"
  /\ UNCHANGED <<job, par1, outcome>> /\ UNCHANGED held /\ UNCHANGED counters

WriteRest ==
  /\ pc = "written"
  /\ disk' = [disk EXCEPT ![Target(Current)] = Output]
  /\ todo' = Tail(todo)
  /\ pc' = IF Len(todo) = 1 THEN "check" ELSE "write"
  /\ UNCHANGED <<job, par1, match, rebuilt, backups, doomed, outcome>>
  /\ UNCHANGED counters

WriteFails ==
  /\ pc \in {"write", "written"} /\ Fault /\ Exit("error")
  /\ UNCHANGED <<job, disk, par1, crashes, runs>> /\ UNCHANGED held

\* Fault for testing: what was written is not looked at again.
Unchecked(d) == {}

Failed(d) == Damaged(d)

Check ==
  /\ pc = "check"
  /\ IF Failed(disk) # {} THEN Exit("error") ELSE PurgeOr("success")
  /\ UNCHANGED <<job, disk, par1>> /\ UNCHANGED held /\ UNCHANGED counters

-----------------------------------------------------------------------------
(* Purge.  Files that are gone are passed over. *)

PurgeBackup ==
  /\ pc = "purge" /\ backups # <<>>
  /\ disk' = [disk EXCEPT ![Head(backups)] = Absent]
  /\ backups' = Tail(backups)
  /\ UNCHANGED <<job, par1, pc, todo, match, rebuilt, doomed, outcome>>
  /\ UNCHANGED counters

PurgeFile ==
  /\ pc = "purge" /\ backups = <<>> /\ doomed # <<>>
  /\ par1' = par1 \ {Head(doomed)}
  /\ doomed' = Tail(doomed)
  /\ UNCHANGED <<job, disk, pc, todo, match, rebuilt, backups, outcome>>
  /\ UNCHANGED counters

Purged ==
  /\ pc = "purge" /\ backups = <<>> /\ doomed = <<>> /\ Exit("success")
  /\ UNCHANGED <<job, disk, par1>> /\ UNCHANGED held /\ UNCHANGED counters

PurgeFails ==
  /\ pc = "purge" /\ Fault /\ Exit("error")
  /\ UNCHANGED <<job, disk, par1, crashes, runs>> /\ UNCHANGED held

-----------------------------------------------------------------------------
(* The environment: the process is killed at any step, the command run again *)

Crash ==
  /\ pc \notin {"exit", "killed"} /\ crashes < MaxCrashes
  /\ crashes' = crashes + 1 /\ pc' = "killed"
  /\ UNCHANGED <<job, disk, par1, outcome, faults, runs>> /\ UNCHANGED held

Rerun ==
  /\ pc \in {"exit", "killed"} /\ runs < MaxRuns
  /\ runs' = runs + 1 /\ pc' = "begin" /\ outcome' = "none"
  /\ todo' = <<>> /\ match' = <<>> /\ rebuilt' = <<>>
  /\ backups' = <<>> /\ doomed' = <<>>
  /\ UNCHANGED <<job, disk, par1, faults, crashes>>

Step ==
  \/ Verify \/ Begin \/ ScanFails
  \/ BackupTarget \/ MoveMatch \/ OpenCopy \/ CopyMatch \/ RemoveCopied
  \/ RestoreFails
  \/ Reconstruct \/ WriteSome \/ WriteRest \/ WriteFails \/ Check
  \/ PurgeBackup \/ PurgeFile \/ Purged \/ PurgeFails

Next == Step \/ Crash \/ Rerun

Spec == Init /\ [][Next]_vars
=============================================================================
