# Verification of par2rs in TLA+

par2rs creates, verifies and repairs PAR2 sets (and verifies and repairs PAR1
sets): recovery data from which damaged or missing files can be rebuilt.  Its
commands move, replace and delete the very files they are meant to save, so the
question that matters most is what they leave behind - when they succeed, when
a system call fails half way, and when they are killed and run again.  Before
that, what they conclude from a disk has to be true, and what they compute has
to be the data that was lost.

This directory holds TLA+ models of the program, configurations that check them
with TLC, and theorems whose proofs are checked by TLAPS.  `PROJECT.json` lists
the components, the runs, for every definition of a model the lines of code it
stands for, the hazards the properties are aimed at, and the disagreements
between the code and its documentation that came up.

Paths below are relative to `src/src/` unless they start with `src/`.

## 1. The system

| Component | Code | State it keeps | Operations |
|---|---|---|---|
| Command line, domain types | `bin/`, `args.rs`, `cli/`, `create/cli.rs`, `domain.rs` | none | parse options, exclude combinations, build a configuration |
| Create command | `create/`, `bin/par2create.rs` | hash states, transfer and staging buffers, recovery blocks, output files | choose block size, chunk size and volumes, read and hash, encode, write index and volumes |
| File discovery, packet loading | `par2_files.rs`, `packets/` | packets of a set, deduplicated | find the files of a set, parse, filter, verify, count recovery slices |
| Block scanner | `verify/scanner_state.rs`, `verify/global_engine.rs`, `checksum/rolling_crc.rs` | a buffer of two blocks, position, rolling CRC | aligned pass, slide, advance, data skipping |
| Verification engine | `verify/global_engine.rs`, `global_table.rs`, `types.rs` | table of all block checksums, positions where each was found, status per file | scan each file and each extra file, match wrong-name copies, count missing blocks |
| Verify command, reporters | `verify/mod.rs`, `bin/par2.rs`, `bin/par2verify.rs`, `reporters/` | none of its own | load, run the engine, report, purge when all is well |
| Repair command | `repair/`, `bin/par2.rs`, `bin/par2repair.rs` | the protected files, backups, temporary files; in memory the verification result, recorded backups, reconstructed slices | scan, restore wrong-name files, rescan, plan, reconstruct, rewrite each file, purge |
| Repair support | `repair/builder.rs`, `error.rs`, `progress.rs`, `md5_writer.rs`, `validate.rs` | the running MD5 of a temporary file | hash while writing, report |
| Slice providers | `repair/slice_provider.rs`, `repair/recovery_loader.rs` | cached and prefetched chunks, file handles | read a chunk of a slice, pad it, evict |
| Reed-Solomon | `reed_solomon/` | coefficient matrix, outputs of a chunk | choose recovery slices, invert, multiply-add |
| SIMD kernels | `reed_solomon/simd/` | tables of a coefficient | multiply a slice and add it to another |
| Checksums | `checksum.rs`, `checksum/` | running CRC and MD5 | hash blocks and files |
| PAR1 | `par1/` | protected files, backups | parse recovery files, verify, restore wrong-name files, reconstruct, rewrite, purge |

How they interact.  A command finds the files of a set by their names, loads
the packets, builds the block table from them, and runs the verification engine
over the files on disk.  Repair decides from that result alone what to move,
what to reconstruct and from where to read: nothing is looked at again until the
next verification.  The engine scans files in parallel and collects results in
argument order, so its outcome is a function of the disk.  Reconstruction reads
valid slices through the slice provider and recovery slices through the recovery
loader; the writer reads valid slices a second time, straight from the target.
PAR1 has its own commands and shares the reconstruction.  Nothing is persisted
but the files themselves: no journal and no lock.

What is hard here:

- *Crash and rerun.*  A kill between the backup of a target and the rename onto
  it, while a file is written, or in the middle of a copy between file systems
  leaves a disk the next command has to make sense of alone.
- *Partial failure.*  The restore loop stops at the first failing call, the
  write loop goes on with the next file: two policies, one result.
- *Stale state.*  Offsets and statuses belong to the pass that found them, and
  the disk changes after each pass, by the command's own renames.  A cached
  chunk is served as it was read.
- *Order.*  The temporary file replaces the target before its MD5 is compared;
  purge deletes recovery data on the strength of a count; chunks, batches and
  blocks are read in another order than that of the file.
- *Aliases.*  Equal files, equal blocks within and across files, extra files
  that are protected files, files that share a temporary or a backup path, sets
  that share a stem.
- *Boundaries.*  A last block that is short or of odd length, a window at the
  end of its buffer, a checksum that slides and jumps, a limit that cuts blocks,
  logarithms at the order of the field, a length that lies.

What makes the components correct:

- *Command line*: every option that is accepted has its effect.
- *Create*: checksums, recovery data and file description are of one content,
  also when a source changes meanwhile; every recovery slice is written once;
  no existing file is overwritten; the set reads back as it was made.
- *Discovery and packets*: the files of a set are found whichever is named, and
  no others; damage hides only what it hits; the two parsers agree on the
  recovery slices.
- *Scanner*: it finds every block that lies within its limit, and only what is
  there.
- *Verification*: an intact file is present; each exact copy is offered to one
  file that needs it; a success means every block is somewhere, and a promise of
  repair that the slices are there.
- *Repair*: intact files stay; nothing that holds data is lost by moving or
  failing; a file reported as mended is whole; success means no block depends
  on recovery data; purge only then; every command ends; what can be repaired
  is repaired.
- *Slice provider, Reed-Solomon, kernels*: what comes out is what was coded, or
  an error for a cause, whatever the chunks, the cache, the kernel and the
  choice of recovery slices.
- *PAR1*: a set that can be saved can be saved afterwards, at every step; one
  missing file is repaired; other files are left alone.

## 2. The modules

| Module | Models | Kind |
|---|---|---|
| `CommandLine` | options of create and the configuration they make | pure definitions |
| `CreatePlan` | block size, chunk size, recovery slices and volumes of a set | pure definitions |
| `CreateSet` | the create command | state machine |
| `PacketFormat` | the fields of every packet, written, read and verified | pure definitions |
| `SetFiles` | names of the files of a set, given and found | pure definitions |
| `CreatedSet` | what is in a created set and what repair reads of it | composes the four above |
| `CreateSetProperties` | what the set must be | properties |
| `CreateSetProofs` | theorems about the plan and about the command | proofs |
| `RollingCrc` | the checksum that slides with a window | pure definitions |
| `BlockScanner` | the byte-wise scan of a file | steps |
| `PacketLoader` | both parsers over damaged volumes | pure definitions |
| `GlobalVerify` | the verification engine, as operators on a disk | pure definitions |
| `VerifyCommand` | the verify command: loading, `BlockScanner`, conclusions by `GlobalVerify` | state machine |
| `VerifyProperties` | what it must find and may say | properties |
| `VerifyProofs` | theorems about the scan, and about what is concluded from it | proofs |
| `LoaderProofs` | theorems about what is read from damaged volumes | proofs |
| `Par2Repair` | the repair command, over `GlobalVerify` | state machine |
| `AtomicRepair` | the promise: targets are mended atomically | abstract specification |
| `Par2RepairSeparate` | the assumption that the paths of a set do not clash | assumption |
| `Par2RepairProperties` | what repair must and must not do | properties |
| `Par2RepairProofs` | theorems about files: types, mended, temporary, intact and wrong-name ones | proofs |
| `Par2RepairPromise` | theorems about what a result means, purge and blocks, and the refinement of `AtomicRepair` | proofs |
| `GaloisField`, `Kernels`, `ReedSolomon` | field, multiply-add, coding and decoding | pure definitions |
| `MatrixDecoder` | the `ReedSolomon` type with its builder | pure definitions |
| `SliceProvider` | chunks, cache, reading ahead | pure definitions |
| `Reconstruction` | the reconstruction, chunk by chunk, over the five above | state machine |
| `ReconstructionProperties` | what it must yield | properties |
| `CodingLaws` | laws of the field, and of words and their bytes | assumptions |
| `ReedSolomonProofs` | lemmas about sums, elimination, kernels, encoders and decoding | proofs |
| `ReconstructionProofs` | theorems about outputs, errors and cache | proofs |
| `Par1Format` | PAR1 recovery files, made and parsed | pure definitions |
| `Par1Repair` | the PAR1 commands, over `Par1Format` and `ReedSolomon` | state machine |
| `Par1Properties` | what they must keep and repair | properties |
| `Par1Proofs` | theorems about what they keep | proofs |
| `MC*` | instances for TLC | model checking |

An operator whose comment begins "Fault for testing" is a plausible mistake in
the definition that follows it; `PROJECT.json` pairs each with the property that
notices it.

### `GlobalVerify`

The content of a file is a sequence of *cells*, one slice each.  A cell is a
protected block or `Junk`.  So a block can be where it belongs, displaced,
repeated, in another file, in an extra file, or gone; a file can be too short,
too long or absent.  Offsets are cell numbers, counted from 1.

| Definition | Code |
|---|---|
| `Owned`, `Entry`, `Has` | the duplicate chains of the block table: a block of several files is listed for the one loaded first (`get_file_blocks`), and the callers number what is listed for a file consecutively |
| `AlignedScan`, `Scan` | the two passes over a file and the length at which the second ends |
| `FoundBlocks`, `InSequence`, `PerfectMatch` | `analyze_sorted_blocks` |
| `ScanStatus`, `Status` | status after the own scan, and after the merge with extra files |
| `RenameCandidate`, `ScannedExtras` | the filter of `-O` |
| `MatchedExtra`, `Renamed` | the loop that gives extra files to files |
| `Position` | the offset recorded for a block, which is kept without the path |
| `Available`, `Missing` | what counts as available |

In this module equal checksums are taken for equal contents, a file is of whole
blocks, each file has its slice checksums, and reads during a scan succeed.
`BlockScanner` has none of these restrictions, and `CellsSuffice` relates the two.

### `RollingCrc`, `BlockScanner`

| Definition or action | Code |
|---|---|
| `Crc`, `Gf32Multiply`, `Power`, `CrcExp8`, `WindowMask`, `Slide` | `checksum/rolling_crc.rs`, for any width |
| `Open`, `Fill`, `ReadFails` | the file is opened and the buffer filled by one read call, which may be short |
| `Align` | the aligned pass over a full buffer; a file shorter than a block is tried padded |
| `SkipBlock` | a match is recorded and jumped over |
| `AdvanceOneByte` | one byte further with the rolling CRC, or, with data skipping, to the leeway before the next expected block |
| `SlideWindow`, `SlideFails` | the first block leaves the buffer, the next read fills it |
| `EndOfFile` | the described length is reached, or what is left is tried as a last short block |

A CRC of four bits over bytes of two makes unequal blocks with equal CRC common,
so the MD5 that is compared behind it matters; MD5 tells contents apart.

### `PacketLoader`, `VerifyCommand`

A volume is a sequence of cells: a packet is a header cell that states a length
and body cells.  A damaged cell is junk, cells can be inserted, lost or cut off,
and a length can lie, so the parser reads on at another cell.  `ParsePackets` is
`parse_packets_with_options` (resynchronises, drops damaged recovery packets,
keeps other damaged packets), `ParseMetadata` is `parse_recovery_slice_metadata`
(from header to header, checks nothing), `Merged` and `MergedSlices` are the two
deduplications: of packets with one checksum, or of slices with one exponent, the
first is kept.

| Action | Code |
|---|---|
| `LoadVolume` | a volume is parsed and merged, or passed over with a warning |
| `BeginScan` | the block table; without a main packet nothing is scanned |
| `Scan` | a step of `BlockScanner` in the file whose turn it is |
| `Conclude` | status, missing blocks, wrong names, exit and purge |

### `Par2Repair`

One action per system call that changes the disk, and per decision:

| Action | Code |
|---|---|
| `FirstScan`, `SecondScan` | `repair_files` with the verification passes and the decisions that follow |
| `BackupTarget`, `MoveRenamed` | `restore_renamed_files`: a target in the way goes to the first free `name.N`, then the match is renamed |
| `OpenCopy`, `CopyRenamed`, `RemoveCopied` | `rename_file` across file systems: create, copy, remove the source; a failed copy is removed |
| `RestoreFails` | the first failing call ends the command |
| `Plan`, `Reconstruct`, `ReconstructFails` | missing slices against recovery slices, then the slices themselves |
| `OpenTemp`, `WriteReconstructed`, `WriteSourced`, `FlushTemp`, `Publish`, `CheckMd5`, `WriteFails` | `write_repaired_file`, with the guard that removes the temporary file, and the loop around it |
| `Finish`, `PurgeBackup`, `PurgeSet`, `PurgeRest`, `PurgeFails` | result and purge: the backups one by one, the first PAR2 file, the others |
| `Crash`, `Rerun` | the environment: the process is killed at any step, and the command is run again |

`disk` and `par2` (the recovery files) survive a kill; every other variable is
memory of the process.  `par2` says that the PAR2 files are all there: the purge
may fail or be killed after some of them, and only a full set is given to another
command.  `scanned` is the disk as the last pass saw it; statuses,
missing slices and positions are computed from it, as the code keeps them in
the result of the pass, so a stale use of them shows.  Buffered output that is
cut short by a kill leaves any prefix of it in the file.

Reed-Solomon is abstracted here to what it guarantees.  If every slice that
counts as valid is read right (`WrongInputs` is empty), the missing slices come
out right.  Errors in the inputs are only sure to make a missing slice wrong
(`ErrorsShow`) where the recovery slices in use, as many as slices are missing,
tell the wrong inputs apart: where their coefficients belong to a matrix with an
inverse.  Otherwise errors may cancel out, and what is reconstructed may be wrong
or right.  A slice that comes out wrong is any of `Miscomputed`, cells or junk.
A singular matrix fails (`Singular`).  `Reconstruction` is the detail.

### `AtomicRepair`

The promise in its simplest form: a target never changes except to its protected
content, in one step, and success is announced only when no block of the set is
missing.  `Par2RepairProperties!MendsAtomically` states that `Par2Repair`
implements it, with `target` the disk at the protected paths and `report` the
outcome.

### `GaloisField`, `Kernels`, `ReedSolomon`, `MatrixDecoder`

The field is built from logarithm tables for any width that is a multiple of
four; the code's is 16.  Slices are sequences of bytes, two to a word.

| Definition | Code |
|---|---|
| `Power`, `Log`, `Antilog`, `Product`, `Quotient`, `ToPower`, `Gcd` | `galois.rs` |
| `SplitTable`, `NibbleTables` | the tables of a coefficient |
| `MultiplyDirect`, `ScalarAdd` | `simd/common.rs`, with the odd byte at the end |
| `VectorAdd`, `VectorAddTwo`, `PortableAdd` | the vector loops and what they leave to the scalar one |
| `KernelAdd`, `MultiplyAdd` | what each level of the processor selects (SSSE3 takes the scalar loop), and the length below which none is used |
| `BaseLog`, `Coefficient` | base values and coefficients, cut to 16 bits as in the code |
| `Encode` | `encoder.rs` |
| `PackedEncode`, `BatchAdd`, `BatchAddTwo` | the backend of create: batches, pairs of inputs |
| `EliminateColumn`, `Invert`, `Solve` | Gauss-Jordan with exchange of rows |
| `Combined`, `Accumulate` | coefficients of present slices in missing ones, first write and later additions |
| `ReconstructGlobal`, `ReconstructWords` | the engines that work in memory |
| `BuildMatrix`, `GaussEliminate`, `Compute` | the `ReedSolomon` type: one matrix, no exchange of rows |

### `SliceProvider`, `Reconstruction`

`ReadChunk` gives a chunk and the cache after the call: from the cache as it is,
from the file with padding, or zeros behind the data; then the next chunks are
read ahead (`PrefetchOne`), without padding.  The cache is a sequence, the least
recently used entry first.

| Action | Code |
|---|---|
| `Start` | choice of recovery slices, matrix, inversion, chunk size |
| `ReadRecovery`, `ReadInput` | one slice of a chunk is read and added to every output |
| `ReadFails` | a failing read ends the reconstruction |
| `WriteChunk` | the outputs of a chunk are appended, the next one begins |

### `CommandLine`, `CreatePlan`, `CreateSet`

`CommandLine` takes a record of options to a configuration: what excludes what,
how values parse and overflow, defaults, the checks of `CreateConfig`.  The two
programs `par2 create` and `par2create` share it.  Sizes are counted in cells of
four bytes, the unit block sizes are a multiple of; memory is in bytes.

| Definition | Code |
|---|---|
| `BlockSize`, `Search` | `calculate_block_size`: the cases of `-b` and the binary search |
| `ChunkSize` | `calculate_chunk_size_impl` |
| `SlicesForPercent`, `SlicesForSize`, `RecoverySlices` | recovery slices by percent, size or number |
| `UniformCounts`, `VariableCounts`, `LimitedVolumes`, `Volumes` | `allocate_recovery_blocks` for its three schemes; the loops that fill from both ends are given by what they place |
| `DefaultFiles` | `default_recovery_file_count_for_scheme` |

| Action | Code |
|---|---|
| `Scan` | `CreateContext::new` (as `Context`) and the start of `generate_recovery_blocks` |
| `ReadBlock`, `ReadFails` | one turn of the block loop of `encode_and_hash_files`: clear the transfer buffer, read, keep the head, feed file and block hash, stage the input, add a full batch |
| `EndChunk` | `finish_chunk`: add the rest of the stage, append the chunk to every recovery slice |
| `CheckOutputs` | the loop that refuses existing outputs |
| `OpenOutput`, `OpenFails`, `FillOutput`, `FillFails`, `Finish` | index and volumes, one after the other |
| `Change`, `Appear` | the environment: a source is changed or truncated while it is read, a file is created at an output path |

A hash is the sequence of cells it was given, so two hashes are compared by what
they are of.  A recovery slice is a set of inputs: each has its coefficient, and
one added twice cancels in a field of characteristic two.  Rows of different
recovery slices are filled in parallel from the same inputs and share nothing
else, so one row stands for all, and threads do not appear.

The command has no recovery from a kill, and none is modelled: what it leaves is
what `FillFails` leaves, and the next command refuses to start over it.

### `PacketFormat`, `SetFiles`, `CreatedSet`

A packet is a sequence of fields with widths.  `Serialized` writes, `Parse` reads
by the length that is stated, and `Verify` compares MD5 and length, each in the
code's own form per type.  A name is the sequence of what stands between its
dots, so stems and extensions are cut as in `par2_files.rs` and
`create/file_naming.rs`.  `CreatedSet` puts together what create writes
(`MainPacket` ... `RecoveryPacket`, `PacketsIn`), where (`FileName`,
`Directory`), and what repair makes of it (`CollectPar2`, `Loaded`, `ExtractSet`,
`ExtractChecksums`, `SetStats`).

### `Par1Format`, `Par1Repair`

`Made` is a recovery file as the format has it (other programs make them),
`ParseSet` is `parse_par1_bytes` with its checks.  Recovery data is computed over
bytes in the field of PAR1 (`VolumeData`); repair reads it as the code does, with
the engine for PAR2.

| Action | Code |
|---|---|
| `Verify`, `ScanFails` | the verify command, and a set that cannot be read |
| `Begin` | `repair_par1_file_with_options`: sets of one hash, statuses, matches |
| `BackupTarget`, `MoveMatch`, `OpenCopy`, `CopyMatch`, `RemoveCopied`, `RestoreFails` | `rename_matched_extra_files` |
| `Reconstruct` | `recovery_packets_from_sets` and the engine |
| `WriteSome`, `WriteRest`, `WriteFails` | targets are overwritten in place |
| `Check` | the final verification |
| `PurgeBackup`, `PurgeFile`, `Purged`, `PurgeFails` | purge |
| `Crash`, `Rerun` | the environment |

## 3. The runs

Each model has a `TypeOK`, checked in `extras`, `create`, `verify` and
`reconstruct`; the tables below leave it out where they can.

### Repair

The repair runs share the bounds `MaxFaults` (failing system calls), `MaxCrashes`
(kills) and `MaxRuns` (commands).  One failure, one kill and one rerun in any
order are enough to meet every pair of a failure or kill in one command with
its consequences in the next; a third command would start from a disk that is
already among the initial disks or reached by two.

| Run | Instance | What it asks |
|---|---|---|
| `damage` | files `<<a1, a2>>` and `<<b1>>`, every content up to one cell longer than protected, temporary path shared, two recovery slices, one singular matrix | no temporary file is left (`TempFilesRemoved`); no block becomes unavailable (`BlocksNeverLost`); targets are mended atomically (`MendsAtomically`, the refinement); what can be repaired is (`RepairableIsRepaired`) |
| `extras` | a file of two blocks, a file ending in a block of zeros, one extra file on another file system, blocks in any of them or nowhere, one or two wrong inputs, miscomputed slices taken for a block, backups, purge | mended files are whole (`MendedFilesAreWhole`); success leaves no block to the recovery data, errors that cancel out apart (`SuccessMeansRecovered`); purge neither (`PurgeKeepsData`); intact files stay (`IntactFilesStay`); commands end (`CommandsEnd`) |
| `rename_only` | `-O`, two equal empty files and a third, two extra files (one on another file system), backup names taken or shared, purge | success means every file is in place (`RenamedSetIsValid`); no damaged file keeps a perfect copy next to it (`RenamesComplete`); restoring loses no content at any step (`RestoreLosesNothing`) |

Two files are needed for one to be rewritten while the other is read, two blocks
in one file for a displaced or repeated block; a third file and a second extra
only matter for the matching of equal files, which `rename_only` has.  In
`damage` the initial disks are all contents over these cells; in `extras` they
are 320 combinations in which blocks are whole, displaced, in another file, in
the extra file or gone.  Among them is `a` absent with both of its blocks found
elsewhere while one block of `b` is missing: two inputs are wrong, one recovery
slice is used and their errors may cancel.  Without `Answered` in them TLC refutes
`SuccessMeansRecovered` and `PurgeKeepsData` there.  In `damage`
the MD5 of the whole file is not computed (no extra files, no `-O`), so every
file starts out as "corrupted" at best; `extras` has the other case.

### Create

`create` (263981 states) starts from command lines.  They are records over
ranges, in five groups that are not multiplied with each other, because reading
does not depend on the volumes, nor the volumes on the memory, nor names on
either: how sources are cut and read (five lists of sizes, three block sizes,
chunks of one cell, of part of a block, of a block), where slices go (amounts by
number, percent and size, all schemes, one to four volumes or the default,
overwriting), the block size asked for (up to three files of up to six cells, up
to eight blocks), every combination of options on a source of one block, and
every kind of name.

| Property | Says |
|---|---|
| `RecoveryMatchesChecksums` | recovery data is of the recorded blocks |
| `DescribesOneContent` | all hashes of a file are of one content |
| `SuccessIsComplete` | success means every output is complete and every slice is in one volume |
| `PlanIsAsAsked` | block size, slices, volumes and memory are as the options ask, whatever the others are |
| `SetReadsBack` | the files of the set are found by their names and no others; what repair reads of them is what create knew; a packet with a damaged field does not verify |
| `ExistingFilesStay` | no existing file is overwritten |
| `CreateEnds` | the command ends, in success unless hindered |

Bounds: `Batch` is 2 where the code has 12, so that one to five inputs make no,
one and several full batches with and without a rest; `HeadCells` is 2 where the
code has 16 KiB, so that the head ends inside, at and after a block;
`ExponentLimit` is 7 where the code has 65536, so that some commands reach it;
`MaxBlocks` 7 (32768), `MaxVolumes` 3 (31), `DefaultBlocks` 5 (2000), `Kilo` 4
(1024), `MaxWord` 2000 (2^64 - 1) and `DefaultMemory` 1000 bytes put every limit
of the options between two values that are tried.  One changed or truncated
source, one file that appears, one output path taken from the start, one failing
call.  The directory holds sets of names that begin or end like the given one,
and a PAR1 set of the same stem.

### Verify

`verify` (78863 states): bytes of two bits, checksums of four, blocks of four
bytes, a leeway of one byte, one read that is short or fails or file that cannot
be opened.  Disks are every single edit of a file (a byte changed, inserted or
removed, cut off anywhere, something before or behind it, its parts exchanged),
every file of up to four whole cells, files under other names; volumes have one
damage each (a cell overwritten, inserted or lost, the end cut off, a length that
is too long or out of bounds).

| Property | Says |
|---|---|
| `WindowIsOfFile` | buffer and rolling CRC are those of the file at the position, after any step, jump, slide or short read |
| `RecordsAreTrue` | what is recorded at an offset is there |
| `BlocksAreFound` | no whole block within the limit is passed over |
| `IntactIsPresent` | an intact file is found complete, with data skipping too |
| `CellsSuffice` | on files of whole cells, where no block begins inside a cell, the byte-wise scan finds what `GlobalVerify` says: the link between the two models (blocks of two bytes and more) |
| `IntactPacketsLoad` | an intact packet is loaded whatever lies before it, as long as no packet reaches over the next header |
| `PromiseIsKept` | a repair that verify promises has the slices it needs |
| `OkMeansFound` | success, and purge, mean that every block is on disk |
| `EveryStepMovesOn` | every step gets further; with the check for deadlocks, the command ends |

Deadlock is checked here: `Exited` is the only step after the exit, so a scan
that got stuck would be reported.  A block of four bytes gives a window three
displaced positions, a buffer of two blocks is slid up to three times, and a
leeway of one makes a skip of two bytes.

### Reconstruct

`reconstruct` (5176 states): a field of 16 elements, so bytes of two bits and
logarithms up to 15 = 3 * 5, as 65535 has the factors 3 and 5; slices of twelve
bytes where a vector has eight, so that every kernel meets whole vectors and a
rest; short last blocks; up to three missing slices, recovery exponents in and
out of order and such as make a singular matrix; no limit, limits that cut a
slice in two or three, and limits that are refused; a cache of three chunks with
two read ahead, so that it overflows; one failing read; files shorter than they
were; all four levels of the processor and both encoders.

| Property | Says |
|---|---|
| `OutputsAreTrue` | what is written is the data that was coded |
| `FailsForCause` | an error has a cause: too few slices, a choice of them that does not determine what is missing, a refused limit, a failing read |
| `CacheIsSound` | the cache keeps its bound, no chunk twice, and what the files hold |
| `EnginesAgree` | the engines that work chunk by chunk, slice by slice, word by word and by one matrix give the same; the last may find no matrix where the others do |
| `ReconstructionEnds` | under fairness the reconstruction ends |

### PAR1

`par1` (about 111000 states): two files, each right, gone, damaged or the other
one, a wrong-name copy here or on another file system, extra files that are
targets, five sets of recovery files; equal and empty files; verify with purge;
recovery files with each field overwritten or a header that says what cannot be;
one failing call, one kill, one rerun.

| Property | Says |
|---|---|
| `StaysRecoverable` | at every step there are as many recovery files as contents that no file has |
| `OneMissingIsRepaired` | a recovery file is read as it was made or not at all, and one missing file is repaired from the first one |
| `BystandersStay` | other files, also backups of an earlier command, are left alone |

### Deadlock and fairness

`CHECK_DEADLOCK FALSE` where the command ends and after the last allowed run
nothing follows.

Fairness is `WF_vars(Step)` in `Par2Repair`, `CreateSet` and `Reconstruction`: a
command is one thread that never waits for anybody (the threads of create and
reconstruction only compute), so while a step is enabled one is taken.  Nothing
is assumed about kills, reruns, failures and other programs, nor about which of
several possible steps is taken.  `RepairableIsRepaired` holds from the moment
no more failures and kills happen.

### Disagreements between the code and its documentation

Each of these runs ends in the counterexample it is meant to find.

| Run | What the code does |
|---|---|
| `found_elsewhere` | a block found only in an extra file counts as available, but its offset is used in the target file: the repair fails although enough recovery data is there |
| `shared_blocks` | a file that shares a block with one loaded before is looked up with the wrong block numbers; when intact it can be rewritten with wrong content |
| `create_chunked` | with chunks shorter than a block the MD5 of a file is fed in the order of the reads, not of the file: the recorded MD5 is wrong although the source did not change |
| `odd_tail` | a last block of odd length that a memory limit cuts comes from the cache without padding: the output misses a byte and the repair fails |
| `par1_volumes` | PAR1 slices are reconstructed in the field of PAR2: more than one missing file, or one without the first recovery file, comes out wrong |

### Known deviations

Other behaviour that surprises has no run of its own; properties exempt it.

- *Extra files are not compared with the protected paths* (`repair/mod.rs:176`):
  with `*` as arguments an intact file is moved onto a missing one of equal
  content.  `SeparateAssumption` and `ExtrasApart` exclude it.
- *No missing block means nothing to repair* (`repair/mod.rs:268`): files may be
  displaced, junk-tailed, missing or empty, and success is reported.
  `SuccessMeansRecovered` and `OkMeansFound` state what success does mean.
- *Errors can cancel out.*  A slice found only in another file is left out of the
  sum, or something else is read for it (`repair/mod.rs:600`).  When more inputs
  are wrong than slices are missing this may go unnoticed: with a file `<<g, g>>`
  absent and `g` only in an extra file, one other slice missing and the recovery
  slice of exponent 0, all of whose coefficients are 1 (`codec.rs:1350`), the two
  errors add up to nothing.  The slice comes out right, the MD5 of the file that
  is rewritten matches, and success is reported although nothing was done for the
  absent file, which counts as verified (`repair/mod.rs:376`).  With `-p` the PAR2
  files go next (`bin/par2.rs:841`); had `g` been in the old content of the file
  that was rewritten, it is nowhere then.  `SuccessMeansRecovered` and
  `PurgeKeepsData` ask about files for which a MD5 answers (`Answered`): files
  that were rewritten, and the others while errors show.
- *An intact file with two equal blocks is reported as damaged*
  (`verify/types.rs:574`, `global_engine.rs:833`), so `-O` fails on a perfect set.
  `IntactIsPresent`, the `Plain` files of the repair properties and of the
  theorems have no repeated blocks, and none shared with a file loaded before.
- *A stem that itself ends like a volume* (`x.vol0+1`) is cut once more
  (`par2_files.rs:109`), so such an index does not find its volumes.
  `StemIsWhole` excludes it.
- *Without a main packet* verify scans nothing, counts nothing missing and exits
  with success.  `KnownSet` excludes it.
- *The two parsers differ*: one drops damaged recovery packets and counts copies,
  the other drops copies and checks nothing.  `PromiseIsKept` asks for whole
  volumes without copies.  A recovery file of a PAR1 set that is there twice
  counts twice and makes the matrix singular.
- *A packet that lost bytes hides the one behind it* (`packets/mod.rs:302`): the
  parser goes on behind the length the header states, which is inside the next
  packet, and looks for the header after that.  `Whole` excludes it.
- *Of packets with one MD5 in their headers the first is kept*
  (`par2_files.rs:501`), also when it is damaged and the other is not: only
  recovery packets are verified as they are read.  `IntactPacketsLoad` asks for
  one with the checksum.
- *A packet of more than 100 MiB* (`packets/mod.rs:32`) is none for verify; repair
  has no such limit.  `Whole` excludes it.
- *A damaged block before a short last block*: the scan goes on byte by byte to
  the last window; what is left behind it is not where the short block begins,
  so an intact one is not tried.  `BlocksAreFound` speaks of whole blocks.
- *A read that comes up short in the middle of a file* is taken for its end
  (`verify/types.rs:448`); what was read is padded and may match.
  `RecordsAreTrue` allows it after a fault; operating systems return short
  reads for blocks of more than a gigabyte.
- *With data skipping* the leeway is searched only behind the expected positions,
  where the comment says "on either side" (`verify/global_engine.rs:94`).
- *Sources outside the base path* with equal names get one packet name
  (`NamesApart`); without recovery slices (`-c0`) nothing is read and the set
  records empty hashes; volumes have equal names when at least two of them are
  empty (`NamesClash`).

## 4. The proofs

### Repair

Two modules prove, for any set of files, contents, block tables, extra files,
file systems, backup and temporary names, any number of failures, kills and
reruns:

| Theorem | States |
|---|---|
| `Par2RepairProofs!TypeCorrect` | `Spec => []TypeOK` |
| `Par2RepairProofs!MendedWhole` | `Spec => []MendedFilesAreWhole` |
| `Par2RepairProofs!NoTempLeft` | `Spec => []TempFilesRemoved` |
| `Par2RepairProofs!IntactStay` | `Spec => IntactFilesStay` |
| `Par2RepairPromise!SuccessIsRecovery` | `Spec => []SuccessMeansRecovered` |
| `Par2RepairPromise!PurgeIsSafe` | `Spec => []PurgeKeepsData` |
| `Par2RepairPromise!RenameOnlyIsValid` | `Spec => []RenamedSetIsValid` |
| `Par2RepairProofs!RenamesAreComplete` | `Spec => []RenamesComplete` |
| `Par2RepairProofs!RestoreKeepsAll` | `Spec => RestoreLosesNothing` |
| `Par2RepairPromise!NoBlockIsLost` | `BlocksUnshared` and one of `InPlace`, `MiscomputedIsJunk` imply `Spec => BlocksNeverLost` |
| `Par2RepairPromise!MendsInOneStep` | `InPlace` implies `Spec => MendsAtomically`: `Par2Repair` implements `AtomicRepair` |

Assumptions: `SetAssumption` (the set is well formed: ranks are distinct, `Junk`
is no block, extra files are listed once), `RepairAssumption` (types of the
options and bounds) and `SeparateAssumption` (extra, temporary, backup and
protected paths do not clash).  TLC evaluates all three in the passing runs.

There are five inductive invariants, each with one lemma per action that shows
that it is kept; the later ones contain the first.

`IInv` (`Par2RepairProofs`) adds to the properties what each step relies on:

- `ScanInv`: the pass the plan is made from is of the present disk.  Without it
  the choice of files to repair says nothing about the files.
- `RestoreInv`: every file still waiting to be restored needs it, and its match
  is either still the content that was matched or gone.  This is what makes a
  rename produce the protected content, long after the scan that chose it: the
  files restored before have taken neither its target nor its match.
- `WriteInv`: every file still waiting to be rewritten is damaged, and the
  temporary file of the current one holds what was written.  So writing never
  touches an intact file, and the MD5 of what was written is that of what was
  published.
- `TempInv`: the temporary file of a file already done exists only while
  another file with the same temporary path is being written - the reason for
  `NoTempLeft` when names differ only in their extension.
- `BackupInv`: purge deletes backups and nothing else.

Below are lemmas on a pass: an intact plain file is found intact
(`IntactIsPresent`) and misses nothing, and a match has the content of its file
(`MatchedHasData`); that it is of no other file is `MatchedOnce`, in
`Par2RepairPromise`.

`SInv` (`Par2RepairPromise`) is about the set as a whole:

- `RewriteInv`: files that are not rewritten are as the pass saw them; slices
  do not come out right when what was read for the others was wrong in a way
  that shows; and a file that has its MD5 after it was rewritten shows that its
  own slices came out right.  This is the argument how far success can be
  believed although nothing is verified after a repair: when every file that was
  rewritten has its MD5, all missing slices were right, so no errors that show
  were in the inputs, so the files that were not rewritten hold their blocks -
  unless more inputs were wrong than the recovery slices in use tell apart.
  When nothing is missing no MD5 vouches for anything, and the result says less.
- `ResultInv`: what a result says stays true while backups and recovery files
  are deleted, through a kill in the middle of that, and until the next command.
- `PlanInv`: with `-O` the command never gets to a plan, and a plan is not empty.

`RInv` (`Par2RepairProofs`): `CoveredInv` says that every extra file that equals
a damaged file is waiting to be moved, or its file is waiting for another one;
`CompleteInv` that none is left once restoring is over; `TargetGoneInv` that the
target is out of the way when the match is moved, so that no content is
overwritten.

`BInv` (`Par2RepairPromise`): `WaitingInv` (a match not yet moved still has its
content), `SourceInv` (the file being rewritten is as the pass saw it, and the
temporary file holds each block that only the target held).  This is what makes
the rename of the temporary file safe even when reconstructed slices are wrong.
`PInv` adds that under `InPlace` all that is written is right (`WrittenRight`).

The last two theorems need hypotheses, and TLC shows why: `BlocksUnshared` (no
`-O`, no block occurs twice in the set, and a target holds at first no block of
another file) because a block that is recorded for the file loaded first, or
found in another target, is lost with that target's old content; `InPlace` (no
extra files, no empty files) because with extra files a target is moved to a
backup before its copy takes its place, which is not one step.  Outside `InPlace`
inputs may be wrong, and `NoBlockIsLost` needs that a miscomputed slice is not by
chance a block of the set (`MiscomputedIsJunk`): written to a target it would be
recorded there and be gone with the next repair.  `MCRepairDamage`
assumes `InPlace`, so TLC evaluates both for the instance of the run `damage`.

### Create

`CreateSetProofs` proves about plans:

| Theorem | States |
|---|---|
| `PlacedOnce` | volumes placed one after the other have each exponent exactly once |
| `SharesAreAll` | the counts of the uniform scheme add up to all slices |
| `VolumesAre` | each of the three schemes gives out all slices, in as many volumes as it should, the uniform one evenly and the limited one within its cap |
| `BlockSizeIs` | the binary search, between its two bounds, finds the smallest block size with no more blocks than the target |

and about the command, for any command lines, sizes of sources, batch sizes and
bounds:

| Theorem | States |
|---|---|
| `ExistingStay` | `Spec => ExistingFilesStay` |
| `SlicesMatchChecksums` | `Spec => []RecoveryMatchesChecksums` |
| `OneContent` | `Spec => []DescribesOneContent` |
| `AllIsWritten` | `Spec => []SuccessIsComplete` |
| `PlanAsAsked` | `Spec => []PlanIsAsAsked` |
| `CreateTypes` | `Spec => []TypeOK` |

The theorems have no hypotheses.  What they rest on are types of the constants
(`CommandLineAssumption`, `PlanAssumption`, `CreateAssumption`) and
`LinesAssumption`: command lines are what the parser of the options makes of them,
with numbers of any size, and the path of the index is not that of a volume.  TLC
evaluates all of them.

`ExistingStay` needs none of these.  The open itself is
guarded, but the write that follows is not: `OpenedInv` says that while an output
is filled the file at its path is the one that was opened.  It is inductive
because other programs create files only where there is none.

The others need what `PlansAreSound` proves: the numbers of a valid plan are
numbers, sources and blocks are not empty, and the volumes, none of which has
the path of the index, are placed one after the other and have as many slices as
there are.  It comes from the command line in three parts:

- `JobIs`: from the options, through `Config` and its checks, the types and values
  of a job; a size and a percentage replace each other, and `-l` goes without `-u`
  and `-n` because they conflict.
- `BlockSizeIs` and `RecoveryIs`.  More cells in a block never make more blocks
  (`BlocksFall`), so a search by halves finds the first size that is small enough
  if there is one between its bounds.  There is none below `total / target`, and
  at `total / (target - files)`, rounded up, each source leaves less than a block
  empty (`BlocksBound`).
- `VolumesAre`.  A doubling series adds up to its room, cut off at the slices there
  are (`SeriesIsAll`).  With a cap no volume of the series takes less than the later
  ones leave, so the last one ends the slices (`ShareIs`, `BottomIs`), provided the
  room suffices; it does, since a rest of less than two caps gets two volumes
  unless it is one slice (`DefaultFilesAre`).  The full volumes start where the
  series ends (`PlacedBoth`).

`PlanAsAsked` puts them together with `ChunkFits` (buffers of a chunk fit into the
memory) and `BlocksAreAll` (blocks are as many as their number says).

- `SumInv`, for `SlicesMatchChecksums`: in the middle of a chunk the blocks read
  so far are hashed up to its end and the others up to its beginning (`ReadInv`);
  what was read is in the sum or in the stage, never in both (`StagedInv`, which
  is what a batch that is flushed twice, or dropped at the end, would break);
  chunks before are final (`RowsInv`).  Then it does not matter that sources
  change between reads: what is hashed is what is added.
- `HashesInv`, for `OneContent`: blocks are padded exactly where their source
  ends (`PaddedInv`), the head is a prefix of the blocks (`HeadInv`), and when
  chunks are whole blocks the file is hashed in order (`OrderInv`).
- `OutputsInv`, for `AllIsWritten`: each output is complete or still to be
  written.

Sums, searches, digits and shares are recursive functions.  That a function with
the recursion exists is shown by induction over initial segments (`ValuesExist`)
or by writing it down (`DigitsExist`, `FoundExist`); what holds of it by induction
over the set of the numbers that have the property (`EveryNumber`), since the
library's induction theorem is out of reach.

Only model-checked: `SetReadsBack` (it depends on names put together from digits,
and on packets folded out of sequences of fields) and `CreateEnds` (liveness).

### Verify

Two modules prove, for any jobs (files, descriptions, damage), block sizes, leeways
and numbers of failing reads:

| Theorem | States |
|---|---|
| `VerifyProofs!WindowIsTrue` | `Spec => []WindowIsOfFile` |
| `VerifyProofs!RecordsHold` | `Spec => []RecordsAreTrue` |
| `VerifyProofs!NothingPassed` | `Spec => []BlocksAreFound` |
| `VerifyProofs!Types` | `Spec => []TypeOK` |
| `VerifyProofs!StepsMoveOn` | `Spec => EveryStepMovesOn` |
| `VerifyProofs!SuccessIsFound` | `Spec => []OkMeansFound` |
| `VerifyProofs!IntactArePresent` | `Spec => []IntactIsPresent` |
| `VerifyProofs!CellsAreEnough` | `Spec => []CellsSuffice`: `GlobalVerify` is what the scan does |
| `LoaderProofs!IntactAreLoaded` | `Spec => []IntactPacketsLoad` |
| `LoaderProofs!PromisesAreKept` | `Spec => []PromiseIsKept` |

Assumptions: `ScannerAssumption`, `JobsAssumption`, `VolumesAssumption` and
`MaxLengthAssumption` are types of the constants, and TLC evaluates them.  The
theorems of `VerifyProofs` have `SlidesRight` as hypothesis: sliding the checksum
over a byte gives that of the window one byte further on.  That is a fact about a
polynomial and a length of window, which does not hold for all of them and cannot
be enumerated for 32 bits; `MCVerify` assumes it, so TLC evaluates it for every
window of the instance.  What the proofs show is that it is all the scan needs to
know about the checksum.  `LoaderProofs` does without.

The invariant of the scan, `VInv`, is `WindowIsOfFile` with

- `PlaceInv`: at which file the scan is, and that nothing is buffered or found
  before it starts;
- `BufferInv`: what has left the buffer is whole blocks, the window begins in the
  first block of the buffer, or in the second until it slides, so a slide loses
  nothing that was not scanned; and the buffer has two blocks unless the file
  ends in it or a read came up short.

The others rely on it, one lemma per action:

- `RecordsInv`: what is recorded is in the window when it is recorded, and the
  file does not change.
- `PassedInv`, for `BlocksAreFound`: a window that fits, is inside the limit and
  is a block was recorded when the scan was at it, and the scan leaves a window
  out only by a jump from a recorded one that overlaps it.
  `ScansInv` says that only files that are to be scanned are.
- `SetInv`, `OkInv`, for `OkMeansFound`: what is known of a file is its length, and
  all of its slices or none; a success, and a purge, was concluded when every
  slice of the set had a record.
- `PhaseInv`, `CleanInv`, for `IntactIsPresent`: in an intact file every
  position the scan stops at is the beginning of a block, and what was found is
  the blocks up to it, in order; with data skipping too, because a match is
  always followed by the next one.
- `TurnInv`, `CellsInv`, for `CellsSuffice`: only whole blocks match, so records
  are at the beginning of cells, up to the end that `GlobalVerify!Scan` has.
- `LoadInv`, for `IntactPacketsLoad`: every volume that was read was parsed to its
  end, and what was merged stays.
- `CountInv`, `PromiseInv`, for `PromiseIsKept`: what verify counted is the number of
  places, in the volumes read so far, where an intact recovery slice begins, and
  a repair is promised only when that many suffice.

`EveryStepMovesOn` follows from `VInv` alone.

Both parsers are recursive functions over the positions of a volume.  `ReadsExist`
and `MetadataExists` show that there are such functions, from approximations up
to each position, and the lemmas after them go backwards over the positions
(`IntactIsRead`, `MetadataOfVolume`, `CountOfVolume`).

The attempts to prove two properties showed that they had held in the runs only
because of their bounds.  `CellsSuffice` was false when the padded end of a file
is a block that begins inside a cell, for blocks of one byte, and where a
description is unknown; `IntactPacketsLoad` when a packet loses a cell, since the
parser then skips the next header.  Both now say what they need, and the run has
the damage that showed the second.

### Reconstruction

`ReconstructionProofs` proves, for any sets, missing slices, recovery exponents
in any order, memory limits, cache sizes, batch sizes, lengths of vectors, kernels
and encoders, files that have become shorter, and any number of failing reads:

| Theorem | States |
|---|---|
| `ReconstructionIsTrue` | `FieldLaws`, `WordLaws`, `CodesAreWords` and `WholeWords` of every job imply `Spec => []OutputsAreTrue` |
| `FailsForACause` | `FieldLaws /\ CodesAreWords` implies `Spec => []FailsForCause` |
| `CacheStaysSound` | `Spec => []CacheIsSound` |
| `OutputsAreWhole` | `FieldLaws /\ WordLaws /\ CodesAreWords` implies `Spec => []TypeOK` |

Assumptions on constants: `JobsAssumption` and `CacheAssumption` (reading ahead
stops early enough not to evict what it has just read), types and limits that TLC
evaluates.  The hypotheses, which `MCReconstruct` assumes, so that TLC evaluates
them for the instance:

- `FieldLaws` (`CodingLaws`): the words are a field in which every word is its own
  negative.  The tables are recursive functions of which nothing can be proved
  here.  `CodesAreWords`: so are the coefficients words.
- `WordLaws` (`CodingLaws`): a word is two bytes and a byte two nibbles, and
  words are added byte by byte.  These are formulas over 2^`Bits`.
- `WholeWords`: no slice is read in parts that split a word.  Slice sizes are
  multiples of four, so this excludes two cases: a last block of odd length that
  is longer than a chunk, where the theorem is false (run `odd_tail`), and slices
  of at most four bytes with a memory limit of one or three
  (`repair/mod.rs:71`).

The argument has three layers, two of them in `ReedSolomonProofs`.

*Linear algebra.*  `XorSum` is the sum of words; `SumPlus`, `SumScaled`,
`SumSwapped` and `SumSplit` are what is used of it.  A step of elimination keeps
the solutions of a system (`StepKeepsSolutions`), adds none (`StepAddsNone`) and
clears its column (`StepClears`), with the exchange of rows; so after the last
column there is an inverse (`InverseIs`), and where there is no pivot a vector
that is not zero vanishes (`NoPivotVanishes`), which is the cause that
`FailsForACause` names.  `Recovered`: when each recovery word is the sum of all
words by its coefficients, then the combination of recovery words by a row of
the inverse and of present words by `Combined` is the missing word.

*Bytes.*  Every kernel adds to each word its product with the coefficient: the
tables split by byte and by nibble (`SplitAdditive`, `NibbleByteIs`), the scalar
loop with its odd last byte (`ScalarIs`), the vector loop with its rest
(`VectorAddIs`), the portable one (`PortableAddIs`), hence what the processor
selects (`MultiplyAddIs`), and the first write with later additions
(`AccumulateIs`).  Both encoders, one input after the other and in batches of
pairs, yield the same sum (`EncodeIs`, `PackedEncodeIs`).

*The state machine.*  Four inductive invariants:

- `Decided` for `FailsForACause`: the plan is that of the job, and an error has
  one of the causes.
- `Walked` for `CacheStaysSound`: an entry is the piece of its file there
  (`IsPiece`): the bytes of a chunk, and zeros behind them up to the end of the
  slice; only what was read ahead may be shorter than the chunk, and it ends where
  the file does.  This is what makes a hit as good as a read.
- `Shaped` for `OutputsAreWhole`: outputs are as long as the chunk and consist of
  bytes, and one is unwritten only as long as every recovery slice read so far had
  coefficient zero in it.  Some coefficient is not zero (`SomeIsUsed`), so that
  none is unwritten when the present slices are added.
- `Decoded` for `ReconstructionIsTrue`: each word of an output is what the slices
  read so far give it (`Given`).  When all were read that is the word that is
  missing (`AllGive`); slices that are left out of the plan, as their file ends
  before them, occur only when `FilesComplete` does not hold.

### PAR1

`Par1Proofs` proves, for any files, recovery files, extra files, disks, memory
limits, failures, kills and reruns:

| Theorem | States |
|---|---|
| `Bystanders` | `Spec => BystandersStay` |
| `SetStaysSafe` | `FieldLaws /\ CoefficientsAreWords` implies `Spec /\ VolumesReadBack => []StaysRecoverable` |

Assumptions: `JobsAssumption`, the types of what a command is given.  The second
theorem has hypotheses more: `FieldLaws` (see "Reconstruction"), and
`CoefficientsAreWords`, which says that coefficients are in the field; `MCPar1`
assumes both, so TLC evaluates them.  `VolumesReadBack` says that an intact recovery file is read as it was
made; it speaks of sums over lists of files, and TLC checks it as a part of
`OneMissingIsRepaired`.

The invariants, again with one lemma per invariant, action by action:

- `PlaceInv`: the command works on protected files, and no backup that it has
  made, and may delete, is a target.
- `MatchInv`: a match that is waiting to be moved is still what it was matched as,
  or gone, unless it is a target or a backup; and a target is moved aside before
  the match takes its place.  `Bystanders` follows: only matches leave their
  place, and backups get names that are free.
- `CountInv`: a set that can be saved has a recovery file for each content in
  `Gone`.  Those are the contents no file has, or only the target that a copy
  between file systems has cut and is about to fill: empty, it passes for an
  empty file, but not for long.
- `WriteInv`: while targets are overwritten in place, all files but those in some
  set are right, and that set has no more members than there are recovery files.
  So the writing may be cut off anywhere.
- `WholeInv`: purge begins when every target is right, so what it deletes is not
  needed.  `ReadInv`: nothing is reconstructed from files that cannot be read.

`WriteInv` is where the engine comes in.  `repair_par1_file_with_options` compares
the number of missing files with the number of recovery files it has *read*, and
copies of one volume count twice there.  That copies do no harm is
`RebuiltIsCovered`: copies have equal rows in the matrix of coefficients, equal
rows stay equal until one of them is the pivot row and the other becomes zero,
and stays zero (`DependentStays`), so elimination meets a column without a pivot
(`EqualRowsAreSingular`), and a repair with too few different volumes ends before
it writes anything.

### Only model-checked

- Liveness: `CommandsEnd`, `RepairableIsRepaired`, `CreateEnds`,
  `ReconstructionEnds`.
- `SetReadsBack`, for the reason given above.
- `EnginesAgree` (`Reconstruction`).  It has the matrix decoder in it, which does
  not exchange rows, so another elimination argument is needed, and
  engines that no command uses.
- `OneMissingIsRepaired` (`Par1Repair`).  It rests on the fields of a recovery
  file, whose offsets are sums over lists of files, and on the values of the
  coefficients of PAR1's first recovery file, which are 1 only by the tables of
  the field.
- The laws themselves: `FieldLaws`, `WordLaws`, that coefficients are words, and
  `SlidesRight`.  They are facts about 2^n elements and recursive tables, and TLC
  evaluates them for the instances.

## 5. What is not modelled, and why

- *Checksum collisions.*  MD5 tells contents apart everywhere; CRC does not in
  `BlockScanner`.
- *Partly purged sets.*  A command is not run again once the purge has removed the
  first PAR2 file.
- *Power failures.*  Only the process is killed.  Nothing is synced before the
  rename, so a power failure may leave less than the models allow.
- *Other programs.*  Nobody else writes to the files while a repair runs; for
  the create command others do, until a source was read for the last time.
- *Threads.*  Files are scanned, volumes loaded and rows filled in parallel, but
  they share nothing until their results are merged in argument order; the
  models take them one after the other.  In `Par2Repair` a verification pass and
  a reconstruction are one step each, so `CommandsEnd` is about the loops of the
  command and what follows a failure; a pass or a reconstruction that hangs, or
  threads that wait on each other, would not be seen there (`EveryStepMovesOn` and
  `ReconstructionEnds` are about the scan and the chunk loop).
- *Instructions and alignment* of the SIMD kernels; progress, reporters, noise
  levels, number of threads: output, or without effect on it.
- *Of the command line*: recursion into directories, the forms and clusters of
  short options, the parsing of the options of verify and repair, which are
  constants of their models.
- *Of discovery and packets*: packets of several sets in one file, which the
  loader does not tell apart, packets shorter than their fixed part, headers of
  length zero (on which `parse_next_recovery_metadata` would not move on).
- *Of PAR1*: names that clash when their directories are stripped, recovery data
  of another length than the longest file (`par1/repair.rs:328`), sets of empty
  files only, and a read that fails in `verify_entry`, where the file is
  counted as corrupted instead of ending the command (`par1/verify.rs:126`).
- *Of Reed-Solomon*: `ReedSolomon::process`, which takes each byte for a word and
  cuts the product, and the typed `reed_solomon/builder.rs` and `matrix.rs`: no command uses
  them.  `repair/validate.rs` and the per-file verification are older paths that
  the commands do not take either.

## 6. Plan

Done: every component has a model, the commands are composed from them, and the
safety properties of the commands are proved, except for those named in section
4.  Next:

1. `VolumesReadBack` from the definitions of `Par1Format`, and with
   `ReedSolomonProofs!Recovered` that one missing file is repaired.
2. `EnginesAgree` for the two engines that work in memory: what they add up are
   the sums of `EncodeIs` and `Recovered`.
3. The fields of a set file (`SetReadsBack`), packet by packet.
