------------------------- MODULE CreateSetProperties -------------------------
(***************************************************************************)
(* What the create command promises of the set it writes and of the files  *)
(* that are already there.                                                 *)
(***************************************************************************)
EXTENDS CreatedSet

TypeOK ==
  /\ pc \in {"scan", "read", "outputs", "open", "fill", "exit"}
  /\ offset \in Nat
  /\ unread \subseteq DOMAIN blockMd5
  /\ Len(staged) < Batch
  /\ \A s \in sum : s[1] \in DOMAIN blockMd5
  /\ \A k \in DOMAIN todo : todo[k] \in DOMAIN disk
  /\ \A p \in DOMAIN disk :
       disk[p].state \in {"absent", "other", "partial", "complete"}
  /\ outcome \in {"none", "success", "error"}

\* The sources were read to the end.
AllRead == pc \in {"outputs", "open", "fill"} /\ Recovery > 0

-----------------------------------------------------------------------------
(* One content *)

\* The recovery slices are computed from exactly the blocks whose checksums the
\* set records, each added once, whatever happens to the sources in between and
\* however blocks are cut into chunks and batches: a block that verifies can be
\* used for repair (encode_and_hash_files, CreateRecoveryBackend).
RecoveryMatchesChecksums ==
  AllRead =>
    /\ Len(recovery) = CeilDiv(Block, Chunk)
    /\ \A j \in DOMAIN recovery :
         recovery[j] = {<<b, SubSeq(blockMd5[b], (j - 1) * Chunk + 1,
                                    Lesser(j * Chunk, Block))>> : b \in Blocks}

\* The content of a source as its block checksums have it.
Described(f) ==
  [p \in 1..Sizes[f] |->
     blockMd5[<<f, (p - 1) \div Block + 1>>][((p - 1) % Block) + 1]]

\* Everything the set says of a file is said of one content: the blocks cover
\* it and are padded with zeros, the identifying head is its head and, when
\* blocks are read in one piece, the MD5 of the file is that of its blocks,
\* also when the source changed while it was read.
DescribesOneContent ==
  AllRead => \A f \in Source :
    /\ \A i \in 1..CeilDiv(Sizes[f], Block) :
         /\ Len(blockMd5[<<f, i>>]) = Block
         /\ \A k \in 1..Block :
              blockMd5[<<f, i>>][k] = Zero <=> (i - 1) * Block + k > Sizes[f]
    /\ \A p \in DOMAIN head[f] : head[f][p] = Described(f)[p]
    /\ Chunk = Block => fileMd5[f] = Described(f)

-----------------------------------------------------------------------------
(* Output files *)

\* Without the overwrite option no file that is already there, or that another
\* program creates between the check and the open, is touched ("Output files
\* are opened with create-new semantics to avoid race-condition truncation").
ExistingFilesStay ==
  [][\A p \in DOMAIN disk :
       disk[p] = Other /\ ~job.overwrite => disk'[p] = Other]_vars

\* A command that reports success has written every output file to the end, and
\* every recovery slice to exactly one volume.
SuccessIsComplete ==
  outcome = "success" =>
    /\ \A p \in DOMAIN disk : disk[p].state = "complete"
    /\ \A e \in job.first .. (job.first + Recovery - 1) :
         Cardinality({k \in DOMAIN Plan : e \in disk[Plan[k]].slices}) = 1

\* Two volumes have the same name when there are more of them than slices.
NamesClash == \E j, k \in DOMAIN Plan : j # k /\ Plan[j] = Plan[k]

\* Nothing but a reason ends a command without success: every command ends,
\* and when no call fails, no source is truncated, no output file is there and
\* volume names are distinct, it ends in success.
Hindered ==
  \/ ~Valid
  \/ faults > 0
  \/ \E f \in Source : Len(source[f]) < Sizes[f]
  \/ ~job.overwrite /\ (NamesClash \/ \E p \in DOMAIN disk : disk[p] = Other)
CreateEnds == <>(pc = "exit" /\ (Hindered \/ outcome = "success"))

-----------------------------------------------------------------------------
(* What is read back *)

\* Two sources outside the base path can have the same name.
NamesApart == \A f, g \in Source : f # g => Name(f) # Name(g)

\* Lengths that a damaged packet could state.
OtherLengths(n) == {n - 20, n - 16, n - 4, n + 4, n + 16, n + 20}

\* The packet with one field lost, or read by a length that is not its own.
Damages(p) ==
  {[p EXCEPT ![k].value = Garbage] : k \in DOMAIN p \ {1, 2}}
    \cup {[p EXCEPT ![2].value = n] :
            n \in {m \in OtherLengths(p[2].value) : m >= 84}}

\* A stem that looks like that of a volume is cut once more.
StemIsWhole == ~IsVolume(Last(FileStem(OutputName)))

\* Whatever file of the set is named, or the stem of its names, its files are
\* found and no others; a PAR1 set of the same stem is kept apart.
FilesAreFound ==
  LET own == {FileName(p) : p \in OutputPaths}
      stem == FileStem(OutputName)
  IN  /\ \A n \in own \cup (IF Format(stem) = "par1" THEN {} ELSE {stem}) :
           FilesFor(n, Directory) = own
      /\ \A n \in Beside : Format(n) = "par1" =>
           FilesFor(n, Directory) =
             {m \in Beside : Format(m) = "par1" /\ Front(m) = Front(n)}

\* A packet verifies as it was written, but not with one field of it damaged.
VerifiesAsWritten(p) ==
  LET Verifies(q) == LET r == Parse(q) IN r.ok /\ Verify(r.packet)
  IN  Verifies(p) /\ \A q \in Damages(p) : ~Verifies(q)

\* What repair and verify take from the packets is what create knew: every file
\* with its name, length, hashes and checksums, and the slices numbered in the
\* order in which create gave them their coefficients.
ReadsBackFrom(packets, set) ==
  /\ set.ok /\ set.setId = SetId /\ set.sliceSize = Block
  /\ Len(set.files) = Len(Sizes)
  /\ \A f \in Source :
       LET file == set.files[f]
       IN  /\ file.name = Name(f) /\ file.size = Sizes[f]
           /\ file.md5 = fileMd5[f] /\ file.head = head[f]
           /\ file.count = BlocksIn(f)
           /\ ExtractChecksums(packets, file.id) = Checksums(f)
           /\ file.offset = Cardinality({b \in Blocks : b[1] < f})
  /\ SetStats(packets) =
       [files |-> Len(Sizes), blockSize |-> Block,
        blocks |-> Cardinality(Blocks), size |-> Total(Sizes),
        recovery |-> Recovery]

\* A set that was created reads back as what was read of the sources: its files
\* are found by their names among those of other sets, its packets verify, a
\* packed main packet too, and say what create knew
\* (packet_generator.rs, MainPacket::verify and its like,
\* extract_recovery_set_info, collect_par2_files).
SetReadsBack ==
  (outcome = "success" /\ Recovery > 0 /\ NamesApart /\ StemIsWhole) =>
    /\ FilesAreFound
    /\ \E packets \in {Loaded} : ReadsBackFrom(packets, ExtractSet(packets))
    /\ \A p \in {PackedPacket} \cup ToSet(PacketsIn(Head(Plan))) :
         VerifiesAsWritten(p)

-----------------------------------------------------------------------------
(* Numbers *)

Distance(m, n) == IF m > n THEN m - n ELSE n - m

\* The blocks are of the size asked for, or of the smallest size that makes no
\* more than the number asked for.
BlocksAsAsked(asked) ==
  IF Given(asked.blockSize) THEN 4 * Block = asked.blockSize[1]
  ELSE LET most == ValueOr(asked.blockCount, DefaultBlocks)
       IN  /\ BlocksOf(Sizes, Block) <= most
           /\ \A n \in 1..(Block - 1) : BlocksOf(Sizes, n) > most

\* Slices by percent, five without a word, are those of the nearest number,
\* slices by size are no more than fit, and there is always one.
SlicesAsAsked(asked) ==
  IF Given(asked.recoveryCount) THEN Recovery = asked.recoveryCount[1]
  ELSE LET r == ValueOr(asked.redundancy, [unit |-> "", number |-> <<5>>])
           n == r.number[1]
           blocks == Cardinality(Blocks)
       IN  /\ Recovery >= 1
           /\ Recovery > 1 =>
                IF r.unit \in DOMAIN Factor
                THEN Recovery * 4 * Block <= n * Factor[r.unit]
                ELSE \A k \in 1..ExponentLimit :
                       Distance(100 * Recovery, n * blocks)
                         <= Distance(100 * k, n * blocks)

\* The volumes follow one another from the first exponent on without gap, are
\* as many as asked for, of the same size up to one slice with -u or -n, and
\* with -l none has more slices than the largest source has blocks.
VolumesAsAsked(asked) ==
  /\ Total([k \in DOMAIN Plan |-> Plan[k].count]) = Recovery
  /\ \A k \in DOMAIN Plan :
       Plan[k].exponent = ValueOr(asked.first, 0)
                            + Total([j \in 1..(k - 1) |-> Plan[j].count])
  /\ Given(asked.files) => Len(Plan) = asked.files[1]
  /\ asked.uniform \/ Given(asked.files) =>
       \A j, k \in DOMAIN Plan : Distance(Plan[j].count, Plan[k].count) <= 1
  /\ asked.limited =>
       \A k \in DOMAIN Plan : Plan[k].count <= CeilDiv(Largest(Sizes), Block)

\* The slices and two more buffers, of the size handled at a time, are in the
\* memory given, unless they are of one cell.
MemoryAsAsked(asked) ==
  Given(asked.memory) /\ Chunk > 1 =>
    4 * Chunk * (Recovery + 2) <= asked.memory[1] * Kilo * Kilo

\* A command that goes on does what it was asked for: every option that is on
\* the command line has its effect, whatever the others are, and an option that
\* another one would override does not go unnoticed (handle_create, the builder,
\* calculate_block_size, calculate_recovery_blocks, plan_recovery_files).
PlanIsAsAsked ==
  Valid =>
    /\ BlocksAsAsked(job.asked)
    /\ SlicesAsAsked(job.asked)
    /\ VolumesAsAsked(job.asked)
    /\ MemoryAsAsked(job.asked)

-----------------------------------------------------------------------------
(* What the tests say and the code does not do *)

\* "forced_chunked_create_verifies" (tests/test_create_integration.rs): a set
\* made of sources that did not change verifies, so the MD5 it records for a
\* file is that of the file.
RecordedMd5IsOfSource ==
  (outcome = "success" /\ changes = 0) =>
    \A f \in Source : fileMd5[f] = source[f]

=============================================================================
