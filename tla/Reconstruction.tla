--------------------------- MODULE Reconstruction ---------------------------
(***************************************************************************)
(* Reconstruction of the missing slices of a set, chunk by chunk:          *)
(* reconstruct_all_missing_slices of src/repair/mod.rs with                *)
(* reconstruct_missing_slices_chunked of src/reed_solomon/codec.rs.        *)
(*                                                                         *)
(*   start -> for each chunk: recovery slices, present slices, write       *)
(*                                                                         *)
(* The set itself is coded by the encoders of ReedSolomon.  Files are on   *)
(* disk and read piece by piece; a read may fail.                          *)
(***************************************************************************)
EXTENDS ReedSolomon, SliceProvider

CONSTANTS
  Jobs,      \* sets with what is missing of them, as records
  MaxFaults  \* bound: reads that fail

ASSUME MaxFaults \in Nat

\* A set has slices, each with some data and none with more than the slice size;
\* a file may be shorter than it was.
ASSUME JobsAssumption ==
  \A j \in Jobs :
    /\ j.slices \in Seq(Seq(Byte)) /\ j.slices # <<>>
    /\ j.size \in Nat \ {0}
    /\ \A i \in DOMAIN j.slices : Len(j.slices[i]) \in 1..j.size
    /\ j.there \in [DOMAIN j.slices -> Nat]
    /\ \A i \in DOMAIN j.slices : j.there[i] <= Len(j.slices[i])
    /\ j.missing \subseteq 0..(Len(j.slices) - 1)
    /\ j.exponents \in Seq(Nat)
    /\ j.memory \in Nat \cup {NoLimit}
    /\ j.level \in Levels /\ j.packed \in BOOLEAN

VARIABLES
  job,     \* the set, what is missing, what there is to repair it with
  plan,    \* what was decided at the start
  pc,      \* step the reconstruction is at
  offset,  \* first byte of the chunk
  turn,    \* recovery or present slice to be read next
  acc,     \* outputs of this chunk
  written, \* outputs of the chunks before
  cache,   \* chunks of present slices
  outcome, \* what is reported
  faults   \* counter for the bound

vars ==
  <<job, plan, pc, offset, turn, acc, written, cache, outcome, faults>>

-----------------------------------------------------------------------------
(* The set *)

Total == Len(job.slices)

\* Every input is padded to the slice size when it is coded.
Truth(i) == PadTo(job.slices[i + 1], job.size)

Inputs(j) == [i \in DOMAIN j.slices |-> PadTo(j.slices[i], j.size)]

\* Exponents and data of the recovery slices offered, in the order in which
\* the packets were found.
Offered(j) ==
  [r \in DOMAIN j.exponents |->
     [exponent |-> j.exponents[r],
      data |-> IF j.packed THEN PackedEncode(j.level, Inputs(j), j.exponents[r])
               ELSE Encode(j.level, Inputs(j), j.exponents[r])]]

\* Bytes of a slice that its file has now.
File(i) == SubSeq(job.slices[i + 1], 1, job.there[i + 1])

-----------------------------------------------------------------------------
(* The start *)

\* Slices that count as present: those the scan found, if the file is still
\* that long; the others are left out and count as zero.
Available(j) ==
  {i \in 0..(Len(j.slices) - 1) : i \notin j.missing /\ j.there[i + 1] > 0}

Plan(j) ==
  LET missing == InOrder(j.missing)
      enough == Len(missing) <= Len(j.exponents)
      inverse == IF enough THEN Invert(Matrix(missing, j.exponents))
                 ELSE Singular
      available == InOrder(Available(j))
  IN  [missing |-> missing,
       enough |-> enough,
       chunk |-> RepairChunkSize(j.size, j.memory),
       inverse |-> inverse,
       available |-> available,
       combined |->
         IF inverse = Singular THEN <<>>
         ELSE [k \in DOMAIN missing |->
                 [a \in DOMAIN available |->
                    Combined(inverse, j.exponents, k, available[a],
                             Len(j.slices))]],
       offered |-> Offered(j)]

Used0 == Len(plan.missing)

Init ==
  /\ job \in Jobs
  /\ plan = Plan(job)
  /\ pc = "start"
  /\ offset = 0 /\ turn = 1
  /\ acc = <<>>
  /\ written = [k \in DOMAIN plan.missing |-> <<>>]
  /\ cache = <<>>
  /\ outcome = "none"
  /\ faults = 0

Stop(result) == outcome' = result /\ pc' = "exit"

ChunkLen == Smaller(plan.chunk, job.size - offset)

\* Fault for testing: the outputs are a whole chunk, also for the last one.
BeginChunkFull(n) ==
  acc' = [k \in DOMAIN plan.missing |-> Untouched(plan.chunk)]

\* Outputs start from zeros and are as long as the chunk.
BeginChunk(n) == acc' = [k \in DOMAIN plan.missing |-> Untouched(n)]

Start ==
  /\ pc = "start"
  /\ IF ~plan.enough \/ plan.chunk = 0
     THEN Stop("error") /\ UNCHANGED acc
     ELSE IF plan.missing = <<>>
     THEN Stop("success") /\ UNCHANGED acc
     ELSE IF plan.inverse = Singular
     THEN Stop("error") /\ UNCHANGED acc
     ELSE pc' = "recovery" /\ BeginChunk(ChunkLen) /\ UNCHANGED outcome
  /\ UNCHANGED <<job, plan, offset, turn, written, cache, faults>>

-----------------------------------------------------------------------------
(* A chunk *)

Contribute(coefficient, data) ==
  acc' = [k \in DOMAIN acc |->
            Accumulate(job.level, acc[k], coefficient[k], data)]

Column(rows, c) == [k \in DOMAIN rows |-> rows[k][c]]

\* As many recovery slices are used as slices are missing.
ReadRecovery ==
  /\ pc = "recovery" /\ turn <= Used0
  /\ Contribute(Column(plan.inverse, turn),
                FileBytes(plan.offered[turn].data, offset, ChunkLen))
  /\ IF turn = Used0 THEN turn' = 1 /\ pc' = "inputs"
     ELSE turn' = turn + 1 /\ UNCHANGED pc
  /\ UNCHANGED <<job, plan, offset, written, cache, outcome, faults>>

ReadInput ==
  /\ pc = "inputs" /\ turn <= Len(plan.available)
  /\ LET i == plan.available[turn]
         read == ReadChunk(cache, i, offset, ChunkLen, job.size, File(i))
     IN  /\ Contribute(Column(plan.combined, turn), read.data)
         /\ cache' = read.cache
  /\ turn' = turn + 1
  /\ UNCHANGED <<job, plan, pc, offset, written, outcome, faults>>

\* A failed read ends the reconstruction, also one that only reads ahead.
ReadFails ==
  /\ \/ pc = "recovery"
     \/ /\ pc = "inputs" /\ turn <= Len(plan.available)
        /\ Reads(cache, plan.available[turn], offset,
                 File(plan.available[turn]))
  /\ faults < MaxFaults /\ faults' = faults + 1
  /\ Stop("error")
  /\ UNCHANGED <<job, plan, offset, turn, acc, written, cache>>

\* Fault for testing: an empty chunk follows the last one.
MoreInclusive(o) == o <= job.size

More(o) == o < job.size

\* The outputs of the chunk are appended; the next chunk starts from nothing.
WriteChunk ==
  /\ pc = "inputs" /\ turn > Len(plan.available)
  /\ written' = [k \in DOMAIN written |-> written[k] \o acc[k].out]
  /\ offset' = offset + ChunkLen
  /\ turn' = 1
  /\ IF More(offset')
     THEN /\ pc' = "recovery"
          /\ BeginChunk(Smaller(plan.chunk, job.size - offset'))
          /\ UNCHANGED outcome
     ELSE Stop("success") /\ UNCHANGED acc
  /\ UNCHANGED <<job, plan, cache, faults>>

-----------------------------------------------------------------------------

Step == Start \/ ReadRecovery \/ ReadInput \/ ReadFails \/ WriteChunk

Next == Step

Spec == Init /\ [][Next]_vars

\* The reconstruction waits for nobody.
FairSpec == Spec /\ WF_vars(Step)
=============================================================================
