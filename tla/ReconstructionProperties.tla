---------------------- MODULE ReconstructionProperties ----------------------
(***************************************************************************)
(* What reconstruction promises: the data that was coded, or an error that *)
(* has a cause.                                                            *)
(***************************************************************************)
EXTENDS Reconstruction, MatrixDecoder, CodingLaws

\* The step, the outputs and the cache have the shape the steps expect.
TypeOK ==
  /\ pc \in {"start", "recovery", "inputs", "exit"}
  /\ offset \in 0..job.size
  /\ \A k \in DOMAIN acc : acc[k].out \in Seq(Byte)
  /\ \A k \in DOMAIN written : Len(written[k]) = offset
  /\ \A k \in DOMAIN cache : cache[k].data # <<>>
  /\ outcome \in {"none", "success", "error"}

\* The files have all that the scan found in them.
FilesComplete ==
  \A i \in 0..(Total - 1) :
    i \in job.missing \/ job.there[i + 1] = Len(job.slices[i + 1])

\* What is written is the data that was coded, from the first chunk on and to
\* the end when success is reported: whichever slices are missing, whichever
\* recovery slices are at hand and in whatever order, however small the chunks
\* and the cache, by whatever kernel and whichever encoder coded the set
\* (reconstruct_missing_slices_chunked, ChunkedSliceProvider).
OutputsAreTrue ==
  FilesComplete =>
    \A k \in DOMAIN plan.missing :
      /\ IsPrefix(written[k], Truth(plan.missing[k]))
      /\ outcome = "success" => written[k] = Truth(plan.missing[k])

\* Some missing slices, not all zero, leave no trace in the recovery slices
\* used: nothing can be said about them.
Undetermined ==
  LET n == Len(plan.missing)
      matrix == Matrix(plan.missing, job.exponents)
  IN  \E x \in [1..n -> Field] :
        /\ \E k \in 1..n : x[k] # 0
        /\ \A r \in 1..n :
             XorSum([k \in 1..n |-> Product(matrix[r][k], x[k])], n) = 0

\* Reconstruction fails only for a reason that does not depend on chunks,
\* cache, kernels or the order of elimination: too few recovery slices, a
\* choice of them that does not determine what is missing, a limit below four
\* bytes or a read that failed (reconstruct_all_missing_slices,
\* invert_gf_matrix).
FailsForCause ==
  outcome = "error" =>
    \/ faults > 0
    \/ Cardinality(job.missing) > Len(job.exponents)
    \/ job.memory # NoLimit /\ job.memory < 4
    \/ Undetermined

\* The cache never holds more than its bound, nor a chunk twice, and what it
\* holds is what the file has there (prefetch_chunks, update_cache).
CacheIsSound ==
  /\ Len(cache) <= MaxCache
  /\ \A a, b \in DOMAIN cache :
       cache[a].slice = cache[b].slice /\ cache[a].offset = cache[b].offset
         => a = b
  /\ \A k \in DOMAIN cache :
       LET e == cache[k]
           there == FileBytes(File(e.slice), e.offset, plan.chunk)
       IN  /\ IsPrefix(there, e.data)
           /\ \A p \in DOMAIN e.data : p > Len(there) => e.data[p] = 0

Present ==
  [i \in {a \in 0..(Total - 1) : a \notin job.missing} |-> Truth(i)]

\* The decoder for the same slices, with two more recovery slices to compute.
Further == <<4, 5>>
Decoder ==
  SetOutputRange(
    BuildDecoder([i \in 1..Total |-> i - 1 \notin job.missing],
                 [r \in DOMAIN job.exponents |->
                    [present |-> TRUE, exponent |-> job.exponents[r]]]),
    FALSE, Further[1], Further[2])

\* What a row of the decoder makes of input i: its own column when it is present,
\* and what it gives to the recovery slices that stand in.
Yield(row, i) ==
  LET there == InputsThat(Decoder, TRUE)
  IN  FoldLeft(LAMBDA sum, k :
                 Xor(sum, Product(row[Len(there) + k],
                                  Coefficient(i, job.exponents[k]))),
               MapThenSumSet(LAMBDA c : IF there[c] = i THEN row[c] ELSE 0,
                             DOMAIN there),
               UpTo(Len(plan.missing)))

\* When the decoder finds a matrix it yields each missing input, nothing of any
\* other, and the further recovery slices; the engine finds one then, too.  It
\* may find none where the engine does, by exchanging rows (compute).
DecoderIsTrue ==
  LET rows == Compute(Decoder)
      n == Len(plan.missing)
  IN  rows # <<>> =>
        /\ n > 0 => plan.inverse # Singular
        /\ \A i \in 0..(Total - 1) :
             /\ \A r \in 1..n :
                  Yield(rows[r], i) = IF i = plan.missing[r] THEN 1 ELSE 0
             /\ \A k \in DOMAIN Further :
                  Yield(rows[n + k], i) = Coefficient(i, Further[k])

\* The engines of the library give the same: chunk by chunk from files, slice
\* by slice from memory, word by word, and as one matrix (codec.rs).
EnginesAgree ==
  /\ pc = "start" => DecoderIsTrue
  /\ outcome = "success" /\ FilesComplete /\ job.missing # {} =>
       /\ written = ReconstructGlobal(job.level, job.size, Total, Present,
                                      plan.missing, plan.offered)
       /\ written = ReconstructWords(job.size, Present, plan.missing,
                                     plan.offered)

\* Reconstruction ends, with the slices or with an error.
ReconstructionEnds == <>(outcome # "none")

-----------------------------------------------------------------------------
(* What theorems take for granted of the coefficients: they are words. *)

CodesAreWords ==
  \A j \in Jobs : \A i \in 0..(Len(j.slices) - 1) :
    \A r \in DOMAIN j.exponents : Coefficient(i, j.exponents[r]) \in Field

\* No slice is read in parts that split a word: the slice size and the chunks are
\* even, and so is what a file has of a slice when it is longer than a chunk.
WholeWords(j) ==
  LET chunk == RepairChunkSize(j.size, j.memory)
  IN  /\ j.size % 2 = 0 /\ chunk % 2 = 0
      /\ \A i \in DOMAIN j.slices : j.there[i] % 2 = 0 \/ j.there[i] <= chunk
=============================================================================
