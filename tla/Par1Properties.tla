---------------------------- MODULE Par1Properties ----------------------------
(***************************************************************************)
(* What the PAR1 commands promise the files of a set.                      *)
(***************************************************************************)
EXTENDS Par1Repair, CodingLaws

Path == DOMAIN disk
Holds(d, bytes) == \E p \in Path : d[p] = bytes

\* Contents no file on disk has
Lost(d) == {f \in Entry : ~Holds(d, Truth(f))}

\* Recovery files with data, one of each number
Volumes(indices) ==
  {job.files[i].volume : i \in {k \in indices : /\ job.files[k].state = "ok"
                                               /\ job.files[k].volume > 0}}

\* A set that recovery files can save remains one: at every step of every run,
\* killed or not, there are at least as many recovery files as contents that no
\* file has any more, although targets are overwritten in place and purge
\* deletes backups and recovery files (repair_par1_file_with_options).
StaysRecoverable ==
  Cardinality(Lost(job.disk)) <= Cardinality(Volumes(DOMAIN job.files)) =>
    Cardinality(Lost(disk)) <= Cardinality(Volumes(par1))

\* What other files hold is left alone: whatever lies outside the targets stays
\* where it is, or goes to a target as the wrong-name copy it is, or is a
\* backup that this command has made (rename_matched_extra_files,
\* next_backup_path, purge_par1_backups).
BystandersStay ==
  [][\A p \in Path : \A f \in Entry :
       /\ Exists(disk, p) /\ p \notin {Target(g) : g \in Entry}
       /\ p \notin ToSet(backups)
       => \/ disk'[p] = disk[p]
          \/ \E g \in Entry :
               disk'[Target(g)] = disk[p] /\ disk[p] = Truth(g)]_vars

\* Contents no target has and no wrong-name copy gives back
Wanting == {f \in Damaged(job.disk) : Matches(job.disk)[f] = NoPath}

\* No target is an extra file: those are moved away from under the repair.
ExtrasApart == \A k \in DOMAIN job.extras : job.extras[k][2] # 0

\* A recovery file, intact wherever its list is, is read as it was made: files
\* by name, length and hashes, the protected ones first to last, and the data;
\* a damaged one is not read at all, and those of other sets have no data here
\* (parse_par1_bytes).
VolumesReadBack ==
  \A i \in DOMAIN job.files :
    LET d == job.files[i]
        set == ReadFile(i)
    IN  /\ set.ok <=> d.state # "damaged"
        /\ set.ok =>
             set.volume =
               IF d.volume = 0 \/ d.state # "ok" THEN <<>>
               ELSE <<[exponent |-> d.volume - 1,
                       data |-> VolumeData(job.data, d.volume)]>>
FilesReadBack ==
  /\ VolumesReadBack
  /\ \A i \in DOMAIN job.files :
       job.files[i].state = "ok" =>
         LET listed == SelectSeq(ReadFile(i).files, IsProtected)
         IN  /\ Len(listed) = Len(job.data)
             /\ \A f \in Entry :
                  /\ listed[f].name = <<f>>
                  /\ listed[f].length = Len(Truth(f))
                  /\ listed[f].full = Truth(f) /\ listed[f].head = Truth(f)

\* One content that is wanting is reconstructed from the first recovery file,
\* whichever the others are, in pieces or at once and also when the length is
\* odd; so a repair that fails without a failing call or a kill lacks more
\* than that (recovery_packets_from_sets, reconstruct_missing_slices).
OneMissingIsRepaired ==
  /\ pc = "begin" => FilesReadBack
  /\ /\ outcome = "error" /\ faults = 0 /\ crashes = 0
     /\ job.command = "repair" /\ ExtrasApart
     /\ \A i \in DOMAIN job.files : job.files[i].state = "ok"
     /\ job.memory \notin 0..3 /\ runs = 1
     => \/ Cardinality(Wanting) > 1
        \/ Wanting # {} /\ 1 \notin Volumes(DOMAIN job.files)

\* As many contents as there are recovery files can be reconstructed.
EnoughIsRepaired ==
  /\ outcome = "error" /\ faults = 0 /\ crashes = 0
  /\ job.command = "repair" /\ ExtrasApart
  /\ \A i \in DOMAIN job.files : job.files[i].state = "ok"
  /\ job.memory \notin 0..3 /\ runs = 1
  => Cardinality(Wanting) > Cardinality(Volumes(DOMAIN job.files))

-----------------------------------------------------------------------------
(* What theorems take for granted of the coefficients: they are words. *)

CoefficientsAreWords ==
  \A f \in UNION {DOMAIN j.data : j \in Jobs} : \A e \in 0..254 :
    Coefficient(f - 1, e) \in Field
=============================================================================
