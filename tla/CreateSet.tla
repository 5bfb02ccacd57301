------------------------------ MODULE CreateSet ------------------------------
(***************************************************************************)
(* The create command: src/create/context.rs with the accumulation of      *)
(* src/create/backend.rs and the volumes of CreatePlan.                    *)
(*                                                                         *)
(*   scan -> for each chunk: read every block, hash it, add it to the      *)
(*   recovery slices -> look for output files -> write index and volumes   *)
(*                                                                         *)
(* Sources are read in place, in several passes when a chunk is shorter    *)
(* than a block, and other programs may change or truncate them meanwhile, *)
(* or create a file where an output is to go.  A hash is the sequence of   *)
(* cells it was given.  A recovery slice is the sum of the blocks, each    *)
(* with its coefficient; adding an input twice cancels it.  The rows of    *)
(* different recovery slices are filled in parallel from the same inputs   *)
(* and have nothing else in common: one row stands for all.                *)
(***************************************************************************)
EXTENDS CommandLine, CreatePlan, SequencesExt

CONSTANTS
  CommandLines,  \* command lines, as records
  Batch,         \* inputs staged before they are added (12)
  HeadCells,     \* cells of a source that identify it (16 KiB)
  ExponentLimit, \* exponents are below it (65536)
  Index,         \* path of the index file
  MaxFaults,     \* bound: system calls that fail
  MaxChanges,    \* bound: changes other programs make to sources
  MaxAppear,     \* bound: files other programs put at output paths
  MaxThere       \* bound: output paths taken from the start

\* No volume has the path of the index.
ASSUME LinesAssumption ==
  /\ CommandLines \subseteq Options
  /\ Index \notin [exponent : Nat, count : Nat]

ASSUME CreateAssumption ==
  /\ Batch \in Nat \ {0} /\ HeadCells \in Nat \ {0} /\ ExponentLimit \in Nat
  /\ MaxFaults \in Nat /\ MaxChanges \in Nat /\ MaxAppear \in Nat
  /\ MaxThere \in Nat

VARIABLES
  job,      \* the command line, and the sizes of its sources
  context,  \* what was decided from it
  source,   \* content of the sources, empty ones left out
  pc,       \* step the command is at
  offset,   \* first cell of the chunk, in every block
  unread,   \* blocks not read yet in this chunk
  head, fileMd5, blockMd5,  \* what the hashes were given
  staged,   \* inputs waiting to be added
  sum,      \* inputs added to the recovery slices in this chunk
  recovery, \* the recovery slices, chunk by chunk
  todo,     \* output files still to write
  disk,     \* path -> what lies there
  outcome,  \* what the command reports
  faults, changes, appeared  \* counters for the bounds

reading == <<offset, unread, head, fileMd5, blockMd5, staged, sum, recovery>>
bounds == <<faults, changes, appeared>>
vars == <<job, context, source, pc, reading, todo, disk, outcome, bounds>>

-----------------------------------------------------------------------------
(* The set *)

Jobs == {JobOf(o) : o \in CommandLines}

\* Sources without data are left out.
WithData(sizes) ==
  LET kept[k \in 0..Len(sizes)] ==
        IF k = 0 THEN <<>>
        ELSE IF sizes[k] > 0 THEN Append(kept[k - 1], sizes[k])
        ELSE kept[k - 1]
  IN  kept[Len(sizes)]

\* What CreateContext::new decides, and the plan of the volumes.
Context(j) ==
  LET sizes == WithData(j.sizes)
      block == IF j.target = 0 THEN j.block ELSE BlockSize(sizes, j.target)
      slices == RecoverySlices(j.request, j.files, j.scheme, sizes, block)
      cap == CeilDiv(Largest(sizes), block)
      files == IF j.files > 0 THEN j.files
               ELSE DefaultFiles(j.scheme, slices, cap)
  IN  IF ~j.accepted \/ Missing \in ToSet(j.sizes) \/ sizes = <<>>
           \/ block = 0 \/ slices > ExponentLimit
           \/ j.first + slices >= ExponentLimit
      THEN [valid |-> FALSE, sizes |-> sizes]
      ELSE [valid |-> TRUE,
            sizes |-> sizes,
            block |-> block,
            recovery |-> slices,
            chunk |-> ChunkSize(block, BlocksOf(sizes, block), slices,
                                j.memory),
            volumes |-> Volumes(j.scheme, files, slices, j.first, cap)]

Valid == context.valid
Sizes == context.sizes
Block == context.block
Recovery == context.recovery
Chunk == context.chunk
Plan == context.volumes

\* Blocks are identified by their source and their number in it.
Source == DOMAIN Sizes
Blocks == UNION {{<<f, i>> : i \in 1..CeilDiv(Sizes[f], Block)} : f \in Source}
Before(b, c) == b[1] < c[1] \/ (b[1] = c[1] /\ b[2] < c[2])

\* A volume is named for its first exponent and its number of slices.
OutputPaths == {Index} \cup {Plan[k] : k \in DOMAIN Plan}

\* A cell of a source is its position and whether it was changed since.
Zero == <<0, 0>>
Cell(p) == <<p, 0>>

Absent == [state |-> "absent", slices |-> {}]
Other == [state |-> "other", slices |-> {}]
Partial == [state |-> "partial", slices |-> {}]
Complete(slices) == [state |-> "complete", slices |-> slices]

\* Fault for testing: the last slice of a volume is one too far.
SlicesPastEnd(path) ==
  IF path = Index THEN {} ELSE path.exponent .. (path.exponent + path.count)

Slices(path) ==
  IF path = Index THEN {}
  ELSE path.exponent .. (path.exponent + path.count - 1)

Fault == faults < MaxFaults /\ faults' = faults + 1

Stop(result) == outcome' = result /\ pc' = "exit"

\* Nothing was hashed; a head that is not read stays zeros.
HashesStart ==
  /\ head = [f \in Source |-> [p \in 1..Lesser(Sizes[f], HeadCells) |-> Zero]]
  /\ fileMd5 = [f \in Source |-> <<>>]
  /\ blockMd5 = IF Valid THEN [b \in Blocks |-> <<>>] ELSE <<>>

\* The stage and the slices are empty.
BackendStart == staged = <<>> /\ sum = {} /\ recovery = <<>>

Init ==
  /\ job \in Jobs
  /\ context = Context(job)
  /\ source = [f \in Source |-> [p \in 1..Sizes[f] |-> Cell(p)]]
  /\ pc = "scan"
  /\ offset = 0 /\ unread = {}
  /\ HashesStart /\ BackendStart
  /\ todo = <<>>
  /\ IF Valid
     THEN \E there \in SUBSET OutputPaths :
            /\ Cardinality(there) <= MaxThere
            /\ disk = [p \in OutputPaths |->
                         IF p \in there THEN Other ELSE Absent]
     ELSE disk = <<>>
  /\ outcome = "none"
  /\ faults = 0 /\ changes = 0 /\ appeared = 0

-----------------------------------------------------------------------------
(* Reading, hashing, adding *)

Scan ==
  /\ pc = "scan"
  /\ IF ~Valid THEN Stop("error") /\ UNCHANGED unread
     ELSE IF Recovery = 0
     THEN pc' = "outputs" /\ UNCHANGED <<unread, outcome>>
     ELSE pc' = "read" /\ unread' = Blocks /\ UNCHANGED outcome
  /\ UNCHANGED <<job, context, source, offset, head, fileMd5, blockMd5, staged,
                 sum, recovery, todo, disk, bounds>>

IsNext(b) == b \in unread /\ \A c \in unread : c = b \/ Before(b, c)

ChunkLen == Lesser(Chunk, Block - offset)

\* Position of the chunk of b in its source.
Position(b) == (b[2] - 1) * Block + offset

\* Fault for testing: the last block of a source is read in full length.
ToReadPastEnd(b) == Lesser(ChunkLen, b[2] * Block - Position(b))

\* Cells of the chunk that are in the source.
ToRead(b) ==
  LET end == Lesser(b[2] * Block, Sizes[b[1]])
  IN  Greater(0, Lesser(ChunkLen, end - Position(b)))

CanRead(b) == ToRead(b) = 0 \/ Position(b) + ToRead(b) <= Len(source[b[1]])
CellsRead(b) == SubSeq(source[b[1]], Position(b) + 1, Position(b) + ToRead(b))

\* Fault for testing: what was in the buffer before is left behind the data.
PaddedStale(b) ==
  CellsRead(b) \o [k \in 1..(ChunkLen - ToRead(b)) |-> Cell(1)]

\* The transfer buffer is cleared before it is read into.
Padded(b) ==
  CellsRead(b) \o [k \in 1..(ChunkLen - ToRead(b)) |-> Zero]

Added(inputs) == (sum \ ToSet(inputs)) \cup (ToSet(inputs) \ sum)

\* Fault for testing: a full batch is added but stays in the stage.
StageKeeping(input) ==
  LET batch == Append(staged, input)
  IN  IF Len(batch) = Batch THEN staged' = Tail(batch) /\ sum' = Added(batch)
      ELSE staged' = batch /\ UNCHANGED sum

\* Fault for testing: the stage is added when there is no room for the next.
StageLate(input) ==
  LET batch == Append(staged, input)
  IN  IF Len(batch) > Batch THEN staged' = <<>> /\ sum' = Added(batch)
      ELSE staged' = batch /\ UNCHANGED sum

\* An input is staged; a full batch is added.
Stage(input) ==
  LET batch == Append(staged, input)
  IN  IF Len(batch) = Batch THEN staged' = <<>> /\ sum' = Added(batch)
      ELSE staged' = batch /\ UNCHANGED sum

ReadBlock(b) ==
  LET f == b[1]
  IN  /\ pc = "read" /\ IsNext(b) /\ CanRead(b)
      /\ head' = [head EXCEPT ![f] =
                    [p \in DOMAIN @ |->
                       IF p > Position(b) /\ p <= Position(b) + ToRead(b)
                       THEN source[f][p] ELSE @[p]]]
      /\ fileMd5' = [fileMd5 EXCEPT ![f] = @ \o CellsRead(b)]
      /\ blockMd5' = [blockMd5 EXCEPT ![b] = @ \o Padded(b)]
      /\ Stage(<<b, Padded(b)>>)
      /\ unread' = unread \ {b}
      /\ UNCHANGED <<job, context, source, pc, offset, recovery, todo, disk,
                     outcome, bounds>>

ReadFails(b) ==
  /\ pc = "read" /\ IsNext(b)
  /\ (~CanRead(b) /\ UNCHANGED faults) \/ Fault
  /\ Stop("error")
  /\ UNCHANGED <<job, context, source, reading, todo, disk, changes, appeared>>

\* The next chunk of the slices is filled from nothing.
BeginChunk == staged' = <<>> /\ sum' = {}

\* The rest of the stage is added and the chunk appended to each slice.
EndChunk ==
  /\ pc = "read" /\ unread = {}
  /\ recovery' = Append(recovery, Added(staged))
  /\ BeginChunk
  /\ offset' = offset + ChunkLen
  /\ IF offset' < Block THEN unread' = Blocks /\ UNCHANGED pc
     ELSE pc' = "outputs" /\ UNCHANGED unread
  /\ UNCHANGED <<job, context, source, head, fileMd5, blockMd5, todo, disk,
                 outcome, bounds>>

-----------------------------------------------------------------------------
(* Output files *)

CheckOutputs ==
  /\ pc = "outputs"
  /\ IF ~job.overwrite /\ \E p \in OutputPaths : disk[p] # Absent
     THEN Stop("error") /\ UNCHANGED todo
     ELSE pc' = "open" /\ todo' = <<Index>> \o Plan /\ UNCHANGED outcome
  /\ UNCHANGED <<job, context, source, reading, disk, bounds>>

\* Fault for testing: the check before is relied upon.
CanOpenUnchecked(p) == TRUE

\* Without the overwrite option the file must be new.
CanOpen(p) == job.overwrite \/ disk[p] = Absent

OpenOutput ==
  /\ pc = "open" /\ todo # <<>> /\ CanOpen(Head(todo))
  /\ disk' = [disk EXCEPT ![Head(todo)] = Partial]
  /\ pc' = "fill"
  /\ UNCHANGED <<job, context, source, reading, todo, outcome, bounds>>

OpenFails ==
  /\ pc = "open" /\ todo # <<>>
  /\ (~CanOpen(Head(todo)) /\ UNCHANGED faults) \/ Fault
  /\ Stop("error")
  /\ UNCHANGED <<job, context, source, reading, todo, disk, changes, appeared>>

FillOutput ==
  /\ pc = "fill"
  /\ disk' = [disk EXCEPT ![Head(todo)] = Complete(Slices(Head(todo)))]
  /\ todo' = Tail(todo)
  /\ pc' = "open"
  /\ UNCHANGED <<job, context, source, reading, outcome, bounds>>

\* What was written so far stays.
FillFails ==
  /\ pc = "fill"
  /\ Fault
  /\ Stop("error")
  /\ UNCHANGED <<job, context, source, reading, todo, disk, changes, appeared>>

Finish ==
  /\ pc = "open" /\ todo = <<>>
  /\ Stop("success")
  /\ UNCHANGED <<job, context, source, reading, todo, disk, bounds>>

-----------------------------------------------------------------------------
(* Other programs.  What they do to a source after it was read is left out. *)

Change(f, p) ==
  /\ pc = "read"
  /\ changes < MaxChanges /\ changes' = changes + 1
  /\ \/ source' = [source EXCEPT ![f][p] = <<p, 1>>]
     \/ source' = [source EXCEPT ![f] = SubSeq(@, 1, p - 1)]
  /\ UNCHANGED <<job, context, pc, reading, todo, disk, outcome, faults,
                 appeared>>

Appear(p) ==
  /\ pc # "exit" /\ disk[p] = Absent
  /\ appeared < MaxAppear /\ appeared' = appeared + 1
  /\ disk' = [disk EXCEPT ![p] = Other]
  /\ UNCHANGED <<job, context, source, pc, reading, todo, outcome, faults,
                 changes>>

-----------------------------------------------------------------------------

Step ==
  \/ Scan \/ EndChunk
  \/ \E b \in unread : ReadBlock(b) \/ ReadFails(b)
  \/ CheckOutputs \/ OpenOutput \/ OpenFails \/ FillOutput \/ FillFails
  \/ Finish

Environment ==
  \/ \E f \in DOMAIN source : \E p \in DOMAIN source[f] : Change(f, p)
  \/ \E p \in DOMAIN disk : Appear(p)

Next == Step \/ Environment

Spec == Init /\ [][Next]_vars

\* The command waits for nobody: while it runs it goes on.
FairSpec == Spec /\ WF_vars(Step)
=============================================================================
