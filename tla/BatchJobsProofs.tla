--------------------------- MODULE BatchJobsProofs --------------------------
(***************************************************************************)
(* What holds of a batch job for any input, any number of workers and any  *)
(* max_retries.                                                            *)
(***************************************************************************)
EXTENDS BatchJobs, FiniteSetTheorems, TLAPS

-----------------------------------------------------------------------------
(* Type correctness.                                                       *)

\* A job has finitely many chunks, so its items can be counted.
LEMMA ChunksFinite ==
    ASSUME TypeOK
    PROVE  /\ IsFiniteSet(DOMAIN chunk)
           /\ IsFiniteSet(Succeeded)
           /\ IsFiniteSet(WithFailures)
           /\ Cardinality(Succeeded) \in Nat
           /\ Cardinality(WithFailures) \in Nat
<1>1. IsFiniteSet(1 .. chunkings)
  <2>1. 1 \in Int /\ chunkings \in Int
    BY DEF TypeOK
  <2> QED BY <2>1, FS_Interval
<1>2. IsFiniteSet(Ranges \X (1 .. chunkings))
  BY <1>1, BatchAssumption, FS_Product
<1>3. IsFiniteSet(DOMAIN chunk)
  <2>1. DOMAIN chunk \in SUBSET (Ranges \X (1 .. chunkings))
    BY DEF TypeOK
  <2> QED BY <1>2, <2>1, FS_Subset
<1>4. IsFiniteSet(Succeeded)
  <2>1. Succeeded \in SUBSET DOMAIN chunk
    BY DEF Succeeded, Is
  <2> QED BY <1>3, <2>1, FS_Subset
<1>5. IsFiniteSet(WithFailures)
  <2>1. WithFailures \in SUBSET DOMAIN chunk
    BY DEF WithFailures
  <2> QED BY <1>3, <2>1, FS_Subset
<1> QED BY <1>3, <1>4, <1>5, FS_CardinalityType

\* The summary of a job's chunks leaves it open or names a final status.
LEMMA OutcomeType == Outcome = "open" \/ Outcome \in JobStatus
  BY DEF Outcome, JobStatus

\* Turning a worker to what it does next keeps the type of its record.
LEMMA TurnType ==
    ASSUME TypeOK, NEW w \in Workers, NEW p \in Phases, Turn(w, p),
           DOMAIN chunk \subseteq DOMAIN chunk'
    PROVE  worker' \in [Workers -> [phase : Phases,
                                    chunk : SUBSET DOMAIN chunk', retries : Nat,
                                    outcome : JobStatus]]
<1>1. [Resting EXCEPT !.phase = p] \in [phase : Phases,
                                        chunk : SUBSET DOMAIN chunk',
                                        retries : Nat, outcome : JobStatus]
  BY DEF Resting, JobStatus
<1>2. worker \in [Workers -> [phase : Phases, chunk : SUBSET DOMAIN chunk',
                              retries : Nat, outcome : JobStatus]]
  BY DEF TypeOK
<1> QED BY <1>1, <1>2 DEF Turn

\* A write to a chunk keeps the types of the chunks and of their holders.
LEMMA WriteType ==
    ASSUME TypeOK, NEW c \in DOMAIN chunk, NEW s \in ChunkStatus, NEW r \in Nat,
           NEW f \in {0, 1}, Write(c, s, r, f)
    PROVE  /\ DOMAIN chunk' = DOMAIN chunk
           /\ chunk' \in [DOMAIN chunk' -> ChunkRow]
           /\ holder' \in [DOMAIN chunk' -> Workers \cup {NoWorker}]
  BY DEF Write, TypeOK, ChunkRow

\* Skipping what has not begun keeps the type of the chunks.
LEMMA SkipType ==
    ASSUME TypeOK, SkipPending
    PROVE  /\ DOMAIN chunk' = DOMAIN chunk
           /\ chunk' \in [DOMAIN chunk' -> ChunkRow]
<1>1. ASSUME NEW c \in DOMAIN chunk
      PROVE  [chunk[c] EXCEPT !.status = "SKIPPED"] \in ChunkRow
  BY DEF TypeOK, ChunkRow, ChunkStatus
<1> QED BY <1>1 DEF SkipPending, TypeOK

\* Chunking a job keeps the types.
LEMMA ChunkingType ==
    ASSUME TypeOK, NEW w \in Workers,
           ClaimJob(w) \/ CompleteChunking(w) \/ FailJob(w)
    PROVE  TypeOK'
<1>1. CASE ClaimJob(w)
  <2>1. "chunk" \in Phases /\ "CHUNKING" \in JobStatus
    BY DEF Phases, JobStatus
  <2> QED BY <1>1, <2>1, TurnType DEF ClaimJob, TypeOK, bounds
<1>2. CASE FailJob(w)
  <2>1. "idle" \in Phases /\ job' \in JobStatus
    BY <1>2 DEF FailJob, TypeOK, Phases, JobStatus
  <2> QED BY <1>2, <2>1, TurnType DEF FailJob, TypeOK, bounds
<1>3. CASE CompleteChunking(w)
  <2> DEFINE new == Ranges \X {chunkings + 1}
  <2>1. /\ chunkings' = chunkings + 1
        /\ chunk' = [c \in DOMAIN chunk \cup new |->
                        IF c \in DOMAIN chunk THEN chunk[c]
                        ELSE [status |-> "PENDING", retries |-> 0, failed |-> 0]]
        /\ holder' = [c \in DOMAIN chunk \cup new |->
                        IF c \in DOMAIN chunk THEN holder[c] ELSE NoWorker]
    BY <1>3 DEF CompleteChunking
  <2>2. DOMAIN chunk' = DOMAIN chunk \cup new
    BY <2>1
  <2>3. DOMAIN chunk' \subseteq Ranges \X (1 .. chunkings')
    <3>1. 1 .. chunkings \subseteq 1 .. chunkings' /\ chunkings + 1 \in 1 .. chunkings'
      BY <2>1 DEF TypeOK
    <3>2. DOMAIN chunk \subseteq Ranges \X (1 .. chunkings)
      BY DEF TypeOK
    <3> QED BY <2>2, <3>1, <3>2
  <2>4. chunk' \in [DOMAIN chunk' -> ChunkRow]
    BY <2>1, <2>2 DEF TypeOK, ChunkRow, ChunkStatus
  <2>5. holder' \in [DOMAIN chunk' -> Workers \cup {NoWorker}]
    BY <2>1, <2>2 DEF TypeOK
  <2>6. worker' \in [Workers -> [phase : Phases, chunk : SUBSET DOMAIN chunk',
                                 retries : Nat, outcome : JobStatus]]
    BY <1>3, <2>2, TurnType DEF CompleteChunking, Phases
  <2>7. job' \in JobStatus /\ chunkings' \in Nat
    BY <1>3 DEF CompleteChunking, TypeOK, JobStatus
  <2> QED BY <1>3, <2>3, <2>4, <2>5, <2>6, <2>7
          DEF CompleteChunking, TypeOK, bounds
<1> QED BY <1>1, <1>2, <1>3

\* Processing a chunk keeps the types.
LEMMA ProcessType ==
    ASSUME TypeOK, NEW w \in Workers, NEW c \in DOMAIN chunk,
           ClaimChunk(w, c) \/ EndChunk(w, c)
    PROVE  TypeOK'
<1> USE DEF jobVars, bounds
<1>1. CASE ClaimChunk(w, c)
  <2>1. DOMAIN chunk' = DOMAIN chunk
    BY <1>1 DEF ClaimChunk
  <2>2. chunk' \in [DOMAIN chunk' -> ChunkRow]
    <3>1. [chunk[c] EXCEPT !.status = "PROCESSING"] \in ChunkRow
      BY DEF TypeOK, ChunkRow, ChunkStatus
    <3> QED BY <1>1, <2>1, <3>1 DEF ClaimChunk, TypeOK
  <2>3. holder' \in [DOMAIN chunk' -> Workers \cup {NoWorker}]
    BY <1>1, <2>1 DEF ClaimChunk, TypeOK
  <2>4. [Resting EXCEPT !.phase = "process", !.chunk = {c},
                        !.retries = chunk[c].retries]
            \in [phase : Phases, chunk : SUBSET DOMAIN chunk', retries : Nat,
                 outcome : JobStatus]
    BY <2>1 DEF Resting, Phases, JobStatus, ChunkRow, TypeOK
  <2>5. worker' \in [Workers -> [phase : Phases, chunk : SUBSET DOMAIN chunk',
                                 retries : Nat, outcome : JobStatus]]
    BY <1>1, <2>1, <2>4 DEF ClaimChunk, TypeOK
  <2> QED BY <1>1, <2>1, <2>2, <2>3, <2>5 DEF ClaimChunk, TypeOK
<1>2. ASSUME NEW f \in {0, 1}, CompleteChunk(w, c, f) PROVE TypeOK'
  <2>1. Write(c, "COMPLETED", chunk[c].retries, f)
    BY <1>2 DEF CompleteChunk
  <2>2. "COMPLETED" \in ChunkStatus /\ chunk[c].retries \in Nat /\ "sum" \in Phases
    BY DEF ChunkStatus, ChunkRow, TypeOK, Phases
  <2>3. processed' \in Nat /\ failed' \in Nat
    BY <1>2 DEF CompleteChunk, TypeOK
  <2> QED BY <1>2, <2>1, <2>2, <2>3, WriteType, TurnType DEF CompleteChunk, TypeOK
<1>3. CASE RetryChunk(w, c)
  <2>1. Write(c, "PENDING", chunk[c].retries + 1, chunk[c].failed)
    BY <1>3 DEF RetryChunk
  <2>2. /\ "PENDING" \in ChunkStatus /\ "idle" \in Phases
        /\ chunk[c].retries + 1 \in Nat /\ chunk[c].failed \in {0, 1}
    BY DEF ChunkStatus, ChunkRow, TypeOK, Phases
  <2> QED BY <1>3, <2>1, <2>2, WriteType, TurnType DEF RetryChunk, TypeOK
<1>4. CASE FailChunk(w, c)
  <2>1. Write(c, "FAILED", chunk[c].retries, 1)
    BY <1>4 DEF FailChunk
  <2>2. /\ "FAILED" \in ChunkStatus /\ "sum" \in Phases
        /\ chunk[c].retries \in Nat /\ failed' \in Nat
    BY <1>4 DEF FailChunk, ChunkStatus, ChunkRow, TypeOK, Phases
  <2> QED BY <1>4, <2>1, <2>2, WriteType, TurnType DEF FailChunk, TypeOK
<1>5. CASE ChunkGone(w, c)
  <2>1. "idle" \in Phases
    BY DEF Phases
  <2> QED BY <1>5, <2>1, TurnType DEF ChunkGone, TypeOK
<1> QED BY <1>1, <1>2, <1>3, <1>4, <1>5 DEF EndChunk

\* Finalizing keeps the types: what a worker holds as the outcome when it
\* finalizes is a status of the job.
LEMMA FinalizeType ==
    ASSUME TypeOK, NEW w \in Workers, ReadSummary(w) \/ Finalize(w)
    PROVE  TypeOK'
<1> USE DEF jobVars, bounds
<1>1. CASE ReadSummary(w)
  <2>1. UNCHANGED chunk
    BY <1>1 DEF ReadSummary
  <2>2. Resting \in [phase : Phases, chunk : SUBSET DOMAIN chunk', retries : Nat,
                     outcome : JobStatus]
    BY DEF Resting, Phases, JobStatus
  <2>3. Outcome # "open" =>
            [Resting EXCEPT !.phase = "finalize", !.outcome = Outcome]
                \in [phase : Phases, chunk : SUBSET DOMAIN chunk', retries : Nat,
                     outcome : JobStatus]
    BY OutcomeType DEF Resting, Phases
  <2>4. worker' \in [Workers -> [phase : Phases, chunk : SUBSET DOMAIN chunk',
                                 retries : Nat, outcome : JobStatus]]
    BY <1>1, <2>1, <2>2, <2>3 DEF ReadSummary, TypeOK
  <2> QED BY <1>1, <2>4 DEF ReadSummary, TypeOK
<1>2. CASE Finalize(w)
  <2>1. job' \in JobStatus /\ processed' \in Nat /\ failed' \in Nat
    BY <1>2, ChunksFinite DEF Finalize, TypeOK
  <2>2. "idle" \in Phases
    BY DEF Phases
  <2> QED BY <1>2, <2>1, <2>2, TurnType DEF Finalize, TypeOK
<1> QED BY <1>1, <1>2

\* Faults and cleanup keep the types.
LEMMA CleanupType ==
    ASSUME TypeOK, NEW w \in Workers, Cleanup(w) \/ SkipTimedOut(w) \/ Abandon(w)
    PROVE  TypeOK'
<1> USE DEF jobVars, bounds
<1>0. "idle" \in Phases /\ "sum" \in Phases
  BY DEF Phases
<1>1. CASE ResetStuckJob(w)
  <2>1. job' \in JobStatus /\ faults' \in 0 .. MaxFaults
    BY <1>1, BatchAssumption DEF ResetStuckJob, Stuck, TypeOK, JobStatus
  <2> QED BY <1>1, <2>1 DEF ResetStuckJob, TypeOK
<1>2. CASE Sweep(w)
  BY <1>0, <1>2, TurnType DEF Sweep, TypeOK
<1>3. ASSUME NEW c \in DOMAIN chunk, ResetStuckChunk(w, c) PROVE TypeOK'
  <2>1. /\ chunk[c].retries \in Nat /\ chunk[c].retries + 1 \in Nat
        /\ chunk[c].failed \in {0, 1}
        /\ "PENDING" \in ChunkStatus /\ "FAILED" \in ChunkStatus
    BY DEF TypeOK, ChunkRow, ChunkStatus
  <2>2. \/ Write(c, "PENDING", chunk[c].retries + 1, chunk[c].failed)
        \/ Write(c, "FAILED", chunk[c].retries, chunk[c].failed)
    BY <1>3 DEF ResetStuckChunk
  <2>3. faults' \in 0 .. MaxFaults
    BY <1>3, BatchAssumption DEF ResetStuckChunk, Stuck, TypeOK
  <2> QED BY <1>3, <2>1, <2>2, <2>3, WriteType DEF ResetStuckChunk, TypeOK
<1>4. CASE SkipTimedOut(w)
  BY <1>4, SkipType DEF SkipTimedOut, TypeOK
<1>5. CASE Abandon(w)
  <2>1. faults' \in 0 .. MaxFaults /\ jobHolder' \in Workers \cup {NoWorker}
    BY <1>5, BatchAssumption DEF Abandon, TypeOK
  <2>2. holder' \in [DOMAIN chunk' -> Workers \cup {NoWorker}]
    BY <1>5 DEF Abandon, TypeOK
  <2> QED BY <1>0, <1>5, <2>1, <2>2, TurnType DEF Abandon, TypeOK
<1> QED BY <1>1, <1>2, <1>3, <1>4, <1>5 DEF Cleanup

\* What operators do keeps the types.
LEMMA OperatorType ==
    ASSUME TypeOK, RetryFailedChunks \/ CancelBatchJob
    PROVE  TypeOK'
<1> USE DEF jobVars, bounds
<1>1. CASE RetryFailedChunks
  <2>1. job' \in JobStatus /\ reopens' \in 0 .. MaxReopens
    <3>1. /\ reopens < MaxReopens /\ reopens' = reopens + 1
          /\ Reopen
      BY <1>1 DEF RetryFailedChunks
    <3> QED BY <3>1, BatchAssumption DEF Reopen, TypeOK, JobStatus
  <2>2. /\ DOMAIN chunk' = DOMAIN chunk
        /\ chunk' \in [DOMAIN chunk' -> ChunkRow]
    <3>1. ASSUME NEW c \in DOMAIN chunk
          PROVE  [chunk[c] EXCEPT !.status = "PENDING", !.retries = @ + 1]
                    \in ChunkRow
      <4>1. chunk[c] \in ChunkRow /\ chunk[c].retries + 1 \in Nat
        BY DEF TypeOK, ChunkRow
      <4>2. [chunk[c] EXCEPT !.status = "PENDING"] \in ChunkRow
        BY <4>1 DEF ChunkRow, ChunkStatus
      <4> QED BY <4>1, <4>2 DEF ChunkRow
    <3> QED BY <1>1, <3>1 DEF RetryFailedChunks, TypeOK
  <2> QED BY <1>1, <2>1, <2>2 DEF RetryFailedChunks, TypeOK
<1>2. CASE CancelBatchJob
  <2>1. job' \in JobStatus
    BY <1>2 DEF CancelBatchJob, TypeOK, JobStatus
  <2> QED BY <1>2, <2>1, SkipType DEF CancelBatchJob, TypeOK
<1> QED BY <1>1, <1>2

\* The types hold of a new job.
LEMMA BatchTypeInit == Init => TypeOK
<1> SUFFICES ASSUME Init PROVE TypeOK
  OBVIOUS
<1>1. /\ DOMAIN chunk = {}
      /\ chunk \in [DOMAIN chunk -> ChunkRow]
      /\ holder \in [DOMAIN chunk -> Workers \cup {NoWorker}]
  BY DEF Init
<1>2. worker \in [Workers -> [phase : Phases, chunk : SUBSET DOMAIN chunk,
                              retries : Nat, outcome : JobStatus]]
  BY DEF Init, Resting, Phases, JobStatus
<1>3. /\ job \in JobStatus /\ processed \in Nat /\ failed \in Nat
      /\ chunkings \in Nat /\ jobHolder \in Workers \cup {NoWorker}
  BY DEF Init, JobStatus
<1>4. reopens \in 0 .. MaxReopens /\ faults \in 0 .. MaxFaults
  BY BatchAssumption DEF Init
<1> QED BY <1>1, <1>2, <1>3, <1>4 DEF TypeOK

\* Every step keeps the types.
LEMMA BatchTypeStep == TypeOK /\ [Next]_vars => TypeOK'
<1> SUFFICES ASSUME TypeOK, [Next]_vars PROVE TypeOK'
  OBVIOUS
<1>1. ASSUME NEW w \in Workers, WorkerStep(w) PROVE TypeOK'
  BY <1>1, ChunkingType, ProcessType, FinalizeType DEF WorkerStep
<1>2. ASSUME NEW w \in Workers, Cleanup(w) \/ SkipTimedOut(w) \/ Abandon(w)
      PROVE  TypeOK'
  BY <1>2, CleanupType
<1>3. CASE RetryFailedChunks \/ CancelBatchJob
  BY <1>3, OperatorType
<1>4. CASE UNCHANGED vars
  BY <1>4 DEF vars, jobVars, bounds, TypeOK
<1> QED BY <1>1, <1>2, <1>3, <1>4 DEF Next

\* The variables of the engine keep their types, so a worker never finalizes a
\* job with anything but a status.
THEOREM BatchTypeCorrect == Spec => []TypeOK
  BY BatchTypeInit, BatchTypeStep, PTL DEF Spec

-----------------------------------------------------------------------------
(* What is done stays done.                                                *)

\* A write finds its chunk PROCESSING and leaves all others alone.
LEMMA WriteFrame ==
    ASSUME TypeOK, NEW c \in DOMAIN chunk, NEW s, NEW r, NEW f, Write(c, s, r, f),
           chunk[c].status = "PROCESSING"
    PROVE  \A d \in DOMAIN chunk :
                /\ d \in DOMAIN chunk'
                /\ chunk[d].status # "PROCESSING" => chunk'[d] = chunk[d]
  BY DEF Write, TypeOK

\* A claim finds its chunk PENDING and leaves all others alone.
LEMMA ClaimFrame ==
    ASSUME TypeOK, NEW w \in Workers, NEW c \in DOMAIN chunk, ClaimChunk(w, c)
    PROVE  \A d \in DOMAIN chunk :
                /\ d \in DOMAIN chunk'
                /\ chunk[d].status # "PENDING" => chunk'[d] = chunk[d]
  BY DEF ClaimChunk, TypeOK

\* No step removes a chunk, or changes one that is completed or skipped.
LEMMA ChunksDone ==
    ASSUME TypeOK, [Next]_vars
    PROVE  \A d \in DOMAIN chunk :
                /\ d \in DOMAIN chunk'
                /\ chunk[d].status \in {"COMPLETED", "SKIPPED"}
                        => chunk'[d] = chunk[d]
<1> DEFINE Kept == \A d \in DOMAIN chunk :
                        /\ d \in DOMAIN chunk'
                        /\ chunk[d].status \in {"COMPLETED", "SKIPPED"}
                                => chunk'[d] = chunk[d]
<1> SUFFICES Kept
  OBVIOUS
<1>1. CASE UNCHANGED chunk
  BY <1>1
<1>2. ASSUME NEW w \in Workers, CompleteChunking(w) PROVE Kept
  BY <1>2 DEF CompleteChunking
<1>3. ASSUME NEW w \in Workers, NEW c \in DOMAIN chunk, ClaimChunk(w, c)
      PROVE  Kept
  BY <1>3, ClaimFrame
<1>4. ASSUME NEW w \in Workers, NEW c \in DOMAIN chunk,
             EndChunk(w, c) \/ ResetStuckChunk(w, c)
      PROVE  Kept
  <2>1. CASE ChunkGone(w, c)
    BY <1>1, <2>1 DEF ChunkGone
  <2>2. ASSUME NEW s, NEW r, NEW f, Write(c, s, r, f),
               chunk[c].status = "PROCESSING"
        PROVE  Kept
    BY <2>2, WriteFrame
  <2> QED BY <1>4, <2>1, <2>2
          DEF EndChunk, CompleteChunk, RetryChunk, FailChunk, ResetStuckChunk
<1>5. CASE SkipPending
  BY <1>5 DEF SkipPending
<1>6. CASE RetryFailedChunks
  BY <1>6 DEF RetryFailedChunks
<1>7. ASSUME NEW w \in Workers, WorkerStep(w) PROVE Kept
  BY <1>1, <1>2, <1>3, <1>4, <1>7
  DEF WorkerStep, ClaimJob, FailJob, ReadSummary, Finalize
<1>8. ASSUME NEW w \in Workers, Cleanup(w) \/ SkipTimedOut(w) \/ Abandon(w)
      PROVE  Kept
  BY <1>1, <1>4, <1>5, <1>8
  DEF Cleanup, ResetStuckJob, Sweep, SkipTimedOut, Abandon
<1>9. CASE CancelBatchJob
  BY <1>5, <1>9 DEF CancelBatchJob
<1>10. CASE UNCHANGED vars
  BY <1>1, <1>10 DEF vars
<1> QED BY <1>6, <1>7, <1>8, <1>9, <1>10 DEF Next

\* A chunk begins only under a job that is PROCESSING.
LEMMA ChunksBegin ==
    ASSUME TypeOK, [Next]_vars, job # "PROCESSING", NEW d \in DOMAIN chunk,
           chunk[d].status = "PENDING"
    PROVE  chunk'[d].status # "PROCESSING"
<1> DEFINE Waits == chunk'[d].status # "PROCESSING"
<1> SUFFICES Waits
  OBVIOUS
<1>1. CASE UNCHANGED chunk
  BY <1>1
<1>2. ASSUME NEW w \in Workers, CompleteChunking(w) PROVE Waits
  BY <1>2 DEF CompleteChunking
<1>3. ASSUME NEW w \in Workers, NEW c \in DOMAIN chunk,
             EndChunk(w, c) \/ ResetStuckChunk(w, c)
      PROVE  Waits
  <2>1. CASE ChunkGone(w, c)
    BY <1>1, <2>1 DEF ChunkGone
  <2>2. ASSUME NEW s, NEW r, NEW f, Write(c, s, r, f),
               chunk[c].status = "PROCESSING"
        PROVE  Waits
    BY <2>2, WriteFrame
  <2> QED BY <1>3, <2>1, <2>2
          DEF EndChunk, CompleteChunk, RetryChunk, FailChunk, ResetStuckChunk
<1>4. CASE SkipPending
  <2>1. chunk'[d] = [chunk[d] EXCEPT !.status = "SKIPPED"]
    BY <1>4 DEF SkipPending
  <2> QED BY <2>1 DEF TypeOK, ChunkRow
<1>5. CASE RetryFailedChunks
  BY <1>5 DEF RetryFailedChunks
<1>6. ASSUME NEW w \in Workers, WorkerStep(w) PROVE Waits
  BY <1>1, <1>2, <1>3, <1>6
  DEF WorkerStep, ClaimJob, FailJob, ClaimChunk, ReadSummary, Finalize
<1>7. ASSUME NEW w \in Workers, Cleanup(w) \/ SkipTimedOut(w) \/ Abandon(w)
      PROVE  Waits
  BY <1>1, <1>3, <1>4, <1>7
  DEF Cleanup, ResetStuckJob, Sweep, SkipTimedOut, Abandon
<1>8. CASE CancelBatchJob
  BY <1>4, <1>8 DEF CancelBatchJob
<1>9. CASE UNCHANGED vars
  BY <1>1, <1>9 DEF vars
<1> QED BY <1>5, <1>6, <1>7, <1>8, <1>9 DEF Next

\* No step changes the status of a completed or cancelled job.
LEMMA JobDone ==
    ASSUME [Next]_vars, job \in {"COMPLETED", "CANCELLED"}
    PROVE  job' = job
<1>1. ASSUME NEW w \in Workers, WorkerStep(w) PROVE job' = job
  BY <1>1
  DEF WorkerStep, ClaimJob, CompleteChunking, FailJob, Open, ClaimChunk,
      EndChunk, CompleteChunk, RetryChunk, FailChunk, ChunkGone, ReadSummary,
      Finalize, jobVars
<1>2. ASSUME NEW w \in Workers, Cleanup(w) \/ SkipTimedOut(w) \/ Abandon(w)
      PROVE  job' = job
  BY <1>2
  DEF Cleanup, ResetStuckJob, ResetStuckChunk, Sweep, SkipTimedOut, Abandon,
      jobVars
<1>3. CASE RetryFailedChunks \/ CancelBatchJob
  BY <1>3 DEF RetryFailedChunks, Reopen, CancelBatchJob, Open
<1>4. CASE UNCHANGED vars
  BY <1>4 DEF vars, jobVars
<1> QED BY <1>1, <1>2, <1>3, <1>4 DEF Next

\* Completed and skipped chunks, completed jobs and cancelled ones are final,
\* though no write to them knows more than the status it compares.
THEOREM DoneStaysDone == Spec => DoneForGood
<1>1. TypeOK /\ [Next]_vars =>
        [/\ \A c \in Is({"COMPLETED", "SKIPPED"}) : chunk'[c] = chunk[c]
         /\ job \in {"COMPLETED", "CANCELLED"} => job' = job
         /\ job = "CANCELLED" =>
              \A c \in Is({"PENDING"}) : chunk'[c].status # "PROCESSING"]_vars
  BY ChunksDone, ChunksBegin, JobDone DEF Is
<1> QED BY <1>1, BatchTypeCorrect, PTL DEF Spec, DoneForGood

-----------------------------------------------------------------------------
(* The outcome of a job is no lie.                                         *)

\* Only complete_chunking inserts chunks, and those bear a new number.
LEMMA ChunksAdded ==
    ASSUME TypeOK, [Next]_vars
    PROVE  /\ chunkings' >= chunkings
           /\ \A d \in DOMAIN chunk' : d \notin DOMAIN chunk => d[2] = chunkings + 1
<1> DEFINE Numbered ==
            /\ chunkings' >= chunkings
            /\ \A d \in DOMAIN chunk' : d \notin DOMAIN chunk => d[2] = chunkings + 1
<1> SUFFICES Numbered
  OBVIOUS
<1>1. ASSUME chunkings' = chunkings, DOMAIN chunk' = DOMAIN chunk PROVE Numbered
  BY <1>1 DEF TypeOK
<1>2. ASSUME NEW w \in Workers, CompleteChunking(w) PROVE Numbered
  <2>1. DOMAIN chunk' = DOMAIN chunk \cup (Ranges \X {chunkings + 1})
    BY <1>2 DEF CompleteChunking
  <2> QED BY <1>2, <2>1 DEF CompleteChunking, TypeOK
<1>3. ASSUME NEW w \in Workers, NEW c \in DOMAIN chunk,
             ClaimChunk(w, c) \/ EndChunk(w, c) \/ ResetStuckChunk(w, c)
      PROVE  Numbered
  BY <1>1, <1>3
  DEF ClaimChunk, EndChunk, CompleteChunk, RetryChunk, FailChunk, ChunkGone,
      ResetStuckChunk, Write
<1>4. ASSUME NEW w \in Workers, WorkerStep(w) PROVE Numbered
  BY <1>1, <1>2, <1>3, <1>4
  DEF WorkerStep, ClaimJob, FailJob, ReadSummary, Finalize
<1>5. ASSUME NEW w \in Workers, Cleanup(w) \/ SkipTimedOut(w) \/ Abandon(w)
      PROVE  Numbered
  BY <1>1, <1>3, <1>5
  DEF Cleanup, ResetStuckJob, Sweep, SkipTimedOut, SkipPending, Abandon
<1>6. CASE RetryFailedChunks \/ CancelBatchJob
  BY <1>1, <1>6 DEF RetryFailedChunks, CancelBatchJob, SkipPending
<1>7. CASE UNCHANGED vars
  BY <1>1, <1>7 DEF vars
<1> QED BY <1>4, <1>5, <1>6, <1>7 DEF Next

\* What the job was first cut into stays done.
LEMMA CleanKept ==
    ASSUME TypeOK, [Next]_vars, FirstChunksClean
    PROVE  FirstChunksClean'
<1>1. chunkings \in Nat /\ chunkings > 0 /\ chunkings' >= chunkings
  BY ChunksAdded DEF TypeOK, FirstChunksClean
<1>2. chunkings' > 0
  <2>1. chunkings' \in Nat
    BY BatchTypeStep DEF TypeOK
  <2> QED BY <1>1, <2>1
<1>3. ASSUME NEW d \in DOMAIN chunk', d[2] = 1
      PROVE  chunk'[d].status \in {"COMPLETED", "SKIPPED"} /\ chunk'[d].failed = 0
  <2>1. d \in DOMAIN chunk
    BY <1>1, <1>3, ChunksAdded
  <2> QED BY <1>3, <2>1, ChunksDone DEF FirstChunksClean
<1> QED BY <1>2, <1>3 DEF FirstChunksClean

\* A summary that says COMPLETED has seen chunks, and none but clean ones.
LEMMA SummaryClean ==
    ASSUME TypeOK, Outcome = "COMPLETED"
    PROVE  FirstChunksClean
<1>1. /\ Is({"PENDING", "PROCESSING"}) = {}
      /\ Is({"FAILED"}) # DOMAIN chunk
      /\ Is({"FAILED"}) = {}
      /\ WithFailures = {}
  BY DEF Outcome, Active
<1>2. \A c \in DOMAIN chunk : /\ chunk[c].status \in {"COMPLETED", "SKIPPED"}
                              /\ chunk[c].failed = 0
  BY <1>1 DEF Is, WithFailures, TypeOK, ChunkRow, ChunkStatus
<1>3. PICK c \in DOMAIN chunk : TRUE
  BY <1>1
<1>4. c[2] \in 1 .. chunkings /\ chunkings \in Nat
  BY DEF TypeOK
<1> QED BY <1>2, <1>4 DEF FirstChunksClean

\* A job that becomes COMPLETED does so by the outcome a worker holds.
LEMMA JobCompletes ==
    ASSUME [Next]_vars, job # "COMPLETED", job' = "COMPLETED"
    PROVE  \E w \in Workers : /\ worker[w].phase = "finalize"
                              /\ worker[w].outcome = "COMPLETED"
<1>1. ASSUME NEW w \in Workers, WorkerStep(w) PROVE Finalize(w)
  BY <1>1
  DEF WorkerStep, ClaimJob, CompleteChunking, FailJob, ClaimChunk, EndChunk,
      CompleteChunk, RetryChunk, FailChunk, ChunkGone, ReadSummary, jobVars
<1>2. ASSUME NEW w \in Workers, Cleanup(w) \/ SkipTimedOut(w) \/ Abandon(w)
      PROVE  FALSE
  BY <1>2
  DEF Cleanup, ResetStuckJob, ResetStuckChunk, Sweep, SkipTimedOut, Abandon,
      jobVars
<1>3. ~RetryFailedChunks /\ ~CancelBatchJob
  BY DEF RetryFailedChunks, Reopen, CancelBatchJob
<1>4. PICK w \in Workers : Finalize(w)
  BY <1>1, <1>2, <1>3 DEF Next, vars, jobVars
<1> QED BY <1>4 DEF Finalize, jobVars

\* A worker that holds COMPLETED as the outcome held it before, or has just
\* read it from the summary.
LEMMA OutcomeHeld ==
    ASSUME TypeOK, [Next]_vars, NEW v \in Workers,
           worker'[v].phase = "finalize", worker'[v].outcome = "COMPLETED"
    PROVE  worker'[v] = worker[v] \/ Outcome = "COMPLETED"
<1> DEFINE Held == worker'[v] = worker[v] \/ Outcome = "COMPLETED"
<1> SUFFICES Held
  OBVIOUS
<1>1. ASSUME NEW w \in Workers, NEW p \in {"idle", "chunk", "sum"}, Turn(w, p)
      PROVE  Held
  <2>1. CASE v = w
    <3>1. worker'[v] = [Resting EXCEPT !.phase = p]
      BY <1>1, <2>1 DEF Turn, TypeOK
    <3> QED BY <3>1 DEF Resting
  <2>2. CASE v # w
    BY <1>1, <2>2 DEF Turn, TypeOK
  <2> QED BY <2>1, <2>2
<1>2. CASE UNCHANGED worker
  BY <1>2
<1>3. ASSUME NEW w \in Workers, NEW c \in DOMAIN chunk, ClaimChunk(w, c)
      PROVE  Held
  <2>1. v # w
    <3>1. ASSUME v = w PROVE worker'[v].phase = "process"
      BY <1>3, <3>1 DEF ClaimChunk, TypeOK, Resting
    <3> QED BY <3>1
  <2> QED BY <1>3, <2>1 DEF ClaimChunk, TypeOK
<1>4. ASSUME NEW w \in Workers, ReadSummary(w) PROVE Held
  <2>1. CASE v = w
    <3>1. \/ worker'[v] = Resting
          \/ worker'[v] = [Resting EXCEPT !.phase = "finalize",
                                          !.outcome = Outcome]
      BY <1>4, <2>1 DEF ReadSummary, TypeOK
    <3>2. Resting.phase = "idle"
      BY DEF Resting
    <3>3. [Resting EXCEPT !.phase = "finalize", !.outcome = Outcome].outcome
            = Outcome
      BY DEF Resting
    <3>4. worker'[v] # Resting
      BY <3>2
    <3> QED BY <3>1, <3>3, <3>4, Zenon
  <2>2. CASE v # w
    BY <1>4, <2>2 DEF ReadSummary, TypeOK
  <2> QED BY <2>1, <2>2
<1>5. ASSUME NEW w \in Workers, WorkerStep(w) PROVE Held
  BY <1>1, <1>3, <1>4, <1>5
  DEF WorkerStep, ClaimJob, CompleteChunking, FailJob, EndChunk, CompleteChunk,
      RetryChunk, FailChunk, ChunkGone, Finalize
<1>6. ASSUME NEW w \in Workers, Cleanup(w) \/ SkipTimedOut(w) \/ Abandon(w)
      PROVE  Held
  BY <1>1, <1>2, <1>6
  DEF Cleanup, ResetStuckJob, ResetStuckChunk, Sweep, SkipTimedOut, Abandon
<1>7. CASE RetryFailedChunks \/ CancelBatchJob
  BY <1>2, <1>7 DEF RetryFailedChunks, CancelBatchJob
<1>8. CASE UNCHANGED vars
  BY <1>2, <1>8 DEF vars
<1> QED BY <1>5, <1>6, <1>7, <1>8 DEF Next

\* The invariant holds of a new job, and every step keeps it.
LEMMA BatchInvInit == Init => BatchInv
  BY BatchTypeInit DEF Init, BatchInv, Resting

\* Finalizing relies on what was read; every other step leaves it in force.
LEMMA BatchInvStep == BatchInv /\ [Next]_vars => BatchInv'
<1> SUFFICES ASSUME BatchInv, [Next]_vars PROVE BatchInv'
  OBVIOUS
<1>1. TypeOK /\ TypeOK'
  BY BatchTypeStep DEF BatchInv
<1>2. ASSUME job' = "COMPLETED" PROVE FirstChunksClean'
  BY <1>1, <1>2, JobCompletes, CleanKept DEF BatchInv
<1>3. ASSUME NEW v \in Workers,
             worker'[v].phase = "finalize", worker'[v].outcome = "COMPLETED"
      PROVE  FirstChunksClean'
  <2>1. FirstChunksClean
    BY <1>1, <1>3, OutcomeHeld, SummaryClean DEF BatchInv
  <2> QED BY <1>1, <2>1, CleanKept
<1> QED BY <1>1, <1>2, <1>3 DEF BatchInv

\* However many workers summarise, finalize, retry, cancel and clean up at
\* once, a job that says COMPLETED has completed.
THEOREM CompletedStaysClean == Spec => []CompletedIsClean
<1>1. BatchInv => CompletedIsClean
  BY DEF BatchInv, FirstChunksClean, CompletedIsClean
<1> QED BY <1>1, BatchInvInit, BatchInvStep, PTL DEF Spec

-----------------------------------------------------------------------------
(* Every item is counted, and once.                                        *)

\* The counts stand when no chunk becomes completed or stops being so, and no
\* failed_count changes.
LEMMA CountsStand ==
    ASSUME TypeOK, ItemsCounted, UNCHANGED <<processed, failed>>,
           DOMAIN chunk \subseteq DOMAIN chunk',
           \A d \in DOMAIN chunk :
                /\ chunk'[d].failed = chunk[d].failed
                /\ chunk'[d].status = "COMPLETED" <=> chunk[d].status = "COMPLETED",
           \A d \in DOMAIN chunk' : d \notin DOMAIN chunk =>
                chunk'[d].failed = 0 /\ chunk'[d].status # "COMPLETED"
    PROVE  ItemsCounted'
<1>1. Succeeded' = Succeeded
  BY DEF Succeeded, Is
<1>2. WithFailures' = WithFailures
  BY DEF WithFailures
<1> QED BY <1>1, <1>2 DEF ItemsCounted

\* A worker that ends a chunk adds to the counts what it writes to the chunk.
LEMMA CountsGrow ==
    ASSUME TypeOK, ItemsCounted, NEW c \in DOMAIN chunk, NEW s, NEW r,
           NEW f \in {0, 1}, Write(c, s, r, f), s \in {"COMPLETED", "FAILED"},
           chunk[c].status = "PROCESSING", s = "FAILED" => f = 1,
           processed' = processed + (1 - f), failed' = failed + f
    PROVE  ItemsCounted'
<1>1. /\ DOMAIN chunk' = DOMAIN chunk
      /\ chunk'[c].status = s /\ chunk'[c].failed = f
      /\ \A d \in DOMAIN chunk : d # c => chunk'[d] = chunk[d]
  BY DEF Write, TypeOK
<1>2. c \notin Succeeded
  BY DEF Succeeded, Is
<1>3. /\ processed \in Nat /\ failed \in Nat
      /\ IsFiniteSet(Succeeded) /\ IsFiniteSet(WithFailures)
      /\ Cardinality(Succeeded) \in Nat /\ Cardinality(WithFailures) \in Nat
  BY ChunksFinite DEF TypeOK
<1>4. /\ processed = Cardinality(Succeeded)
      /\ failed >= Cardinality(WithFailures)
  BY DEF ItemsCounted
<1>5. CASE f = 0
  <2>1. Succeeded' = Succeeded \cup {c}
    BY <1>1, <1>5 DEF Succeeded, Is
  <2>2. Cardinality(Succeeded') = Cardinality(Succeeded) + 1
    BY <1>2, <1>3, <2>1, FS_AddElement
  <2>3. WithFailures' = WithFailures \ {c}
    BY <1>1, <1>5 DEF WithFailures
  <2>4. Cardinality(WithFailures') <= Cardinality(WithFailures)
    <3>1. WithFailures' \in SUBSET WithFailures
      BY <2>3
    <3> QED BY <1>3, <3>1, FS_Subset
  <2>5. Cardinality(WithFailures') \in Nat
    <3>1. WithFailures' \in SUBSET WithFailures
      BY <2>3
    <3> QED BY <1>3, <3>1, FS_Subset, FS_CardinalityType
  <2> QED BY <1>3, <1>4, <1>5, <2>2, <2>4, <2>5 DEF ItemsCounted
<1>6. CASE f = 1
  <2>1. Succeeded' = Succeeded
    BY <1>1, <1>2, <1>6 DEF Succeeded, Is
  <2>2. WithFailures' = WithFailures \cup {c}
    BY <1>1, <1>6 DEF WithFailures
  <2>3. /\ Cardinality(WithFailures') \in Nat
        /\ Cardinality(WithFailures') <= Cardinality(WithFailures) + 1
    <3>1. /\ IsFiniteSet(WithFailures')
          /\ \/ Cardinality(WithFailures') = Cardinality(WithFailures)
             \/ Cardinality(WithFailures') = Cardinality(WithFailures) + 1
      BY <1>3, <2>2, FS_AddElement
    <3> QED BY <1>3, <3>1
  <2> QED BY <1>3, <1>4, <1>6, <2>1, <2>3 DEF ItemsCounted
<1> QED BY <1>5, <1>6

\* Whatever a worker does next, the counts are kept.
LEMMA WorkerCounts ==
    ASSUME TypeOK, ItemsCounted, NEW w \in Workers, WorkerStep(w)
    PROVE  ItemsCounted'
<1> USE DEF jobVars
<1>1. ASSUME UNCHANGED <<processed, failed, chunk>> PROVE ItemsCounted'
  BY <1>1 DEF ItemsCounted, Succeeded, WithFailures, Is
<1>2. CASE CompleteChunking(w)
  <2>1. /\ DOMAIN chunk \subseteq DOMAIN chunk'
        /\ \A d \in DOMAIN chunk : chunk'[d] = chunk[d]
        /\ \A d \in DOMAIN chunk' : d \notin DOMAIN chunk =>
                chunk'[d].failed = 0 /\ chunk'[d].status = "PENDING"
    BY <1>2 DEF CompleteChunking
  <2>2. UNCHANGED <<processed, failed>>
    BY <1>2 DEF CompleteChunking
  <2> QED BY <2>1, <2>2, CountsStand
<1>3. ASSUME NEW c \in DOMAIN chunk, ClaimChunk(w, c) PROVE ItemsCounted'
  <2>1. /\ DOMAIN chunk' = DOMAIN chunk
        /\ chunk[c].status = "PENDING"
        /\ chunk'[c] = [chunk[c] EXCEPT !.status = "PROCESSING"]
        /\ \A d \in DOMAIN chunk : d # c => chunk'[d] = chunk[d]
        /\ UNCHANGED <<processed, failed>>
    BY <1>3 DEF ClaimChunk, TypeOK
  <2>2. chunk'[c].status = "PROCESSING" /\ chunk'[c].failed = chunk[c].failed
    BY <2>1 DEF TypeOK, ChunkRow
  <2> QED BY <2>1, <2>2, CountsStand
<1>4. ASSUME NEW c \in DOMAIN chunk, NEW f \in {0, 1}, CompleteChunk(w, c, f)
      PROVE  ItemsCounted'
  <2>1. /\ Write(c, "COMPLETED", chunk[c].retries, f)
        /\ chunk[c].status = "PROCESSING"
        /\ processed' = processed + (1 - f) /\ failed' = failed + f
    BY <1>4 DEF CompleteChunk
  <2> QED BY <2>1, CountsGrow
<1>5. ASSUME NEW c \in DOMAIN chunk, FailChunk(w, c) PROVE ItemsCounted'
  <2>1. /\ Write(c, "FAILED", chunk[c].retries, 1)
        /\ chunk[c].status = "PROCESSING"
        /\ processed' = processed + (1 - 1) /\ failed' = failed + 1
    BY <1>5 DEF FailChunk, TypeOK
  <2> QED BY <2>1, CountsGrow
<1>6. ASSUME NEW c \in DOMAIN chunk, RetryChunk(w, c) PROVE ItemsCounted'
  <2>1. /\ DOMAIN chunk' = DOMAIN chunk
        /\ chunk[c].status = "PROCESSING"
        /\ chunk'[c].status = "PENDING" /\ chunk'[c].failed = chunk[c].failed
        /\ \A d \in DOMAIN chunk : d # c => chunk'[d] = chunk[d]
        /\ UNCHANGED <<processed, failed>>
    BY <1>6 DEF RetryChunk, Write, TypeOK
  <2> QED BY <2>1, CountsStand
<1>7. CASE Finalize(w)
  <2>1. CASE job = "PROCESSING"
    <3>1. Succeeded' = Succeeded /\ WithFailures' = WithFailures
      BY <1>7 DEF Finalize, Succeeded, WithFailures, Is
    <3> QED BY <1>7, <2>1, <3>1, ChunksFinite DEF Finalize, ItemsCounted
  <2>2. CASE job # "PROCESSING"
    BY <1>1, <1>7, <2>2 DEF Finalize
  <2> QED BY <2>1, <2>2
<1> QED BY <1>1, <1>2, <1>3, <1>4, <1>5, <1>6, <1>7
        DEF WorkerStep, EndChunk, ClaimJob, FailJob, ChunkGone, ReadSummary

\* Cleanup, faults, timeouts and operators keep the counts.
LEMMA OtherCounts ==
    ASSUME TypeOK, ItemsCounted,
           \/ \E w \in Workers : Cleanup(w) \/ SkipTimedOut(w) \/ Abandon(w)
           \/ RetryFailedChunks \/ CancelBatchJob
    PROVE  ItemsCounted'
<1> USE DEF jobVars
<1>1. ASSUME UNCHANGED <<processed, failed, chunk>> PROVE ItemsCounted'
  BY <1>1 DEF ItemsCounted, Succeeded, WithFailures, Is
<1>2. ASSUME NEW w \in Workers, NEW c \in DOMAIN chunk, ResetStuckChunk(w, c)
      PROVE  ItemsCounted'
  <2>1. /\ DOMAIN chunk' = DOMAIN chunk
        /\ chunk[c].status = "PROCESSING"
        /\ chunk'[c].status \in {"PENDING", "FAILED"}
        /\ chunk'[c].failed = chunk[c].failed
        /\ \A d \in DOMAIN chunk : d # c => chunk'[d] = chunk[d]
        /\ UNCHANGED <<processed, failed>>
    BY <1>2 DEF ResetStuckChunk, Write, TypeOK
  <2> QED BY <2>1, CountsStand
<1>3. ASSUME SkipPending, UNCHANGED <<processed, failed>> PROVE ItemsCounted'
  <2>1. /\ DOMAIN chunk' = DOMAIN chunk
        /\ \A d \in DOMAIN chunk :
            chunk'[d] = IF chunk[d].status = "PENDING"
                        THEN [chunk[d] EXCEPT !.status = "SKIPPED"] ELSE chunk[d]
    BY <1>3 DEF SkipPending
  <2>2. ASSUME NEW d \in DOMAIN chunk
        PROVE  /\ chunk'[d].failed = chunk[d].failed
               /\ chunk'[d].status = "COMPLETED" <=> chunk[d].status = "COMPLETED"
    BY <2>1 DEF TypeOK, ChunkRow
  <2> QED BY <1>3, <2>1, <2>2, CountsStand
<1>4. CASE RetryFailedChunks
  <2>1. /\ DOMAIN chunk' = DOMAIN chunk
        /\ \A d \in DOMAIN chunk :
            chunk'[d] = IF chunk[d].status = "FAILED"
                        THEN [chunk[d] EXCEPT !.status = "PENDING", !.retries = @ + 1]
                        ELSE chunk[d]
    BY <1>4 DEF RetryFailedChunks
  <2>2. ASSUME NEW d \in DOMAIN chunk
        PROVE  /\ chunk'[d].failed = chunk[d].failed
               /\ chunk'[d].status = "COMPLETED" <=> chunk[d].status = "COMPLETED"
    BY <2>1 DEF TypeOK, ChunkRow
  <2>3. UNCHANGED <<processed, failed>>
    BY <1>4 DEF RetryFailedChunks
  <2> QED BY <2>1, <2>2, <2>3, CountsStand
<1>5. CASE CancelBatchJob
  BY <1>3, <1>5 DEF CancelBatchJob
<1>6. ASSUME NEW w \in Workers, Cleanup(w) \/ SkipTimedOut(w) \/ Abandon(w)
      PROVE  ItemsCounted'
  BY <1>1, <1>2, <1>3, <1>6
  DEF Cleanup, ResetStuckJob, Sweep, SkipTimedOut, Abandon
<1> QED BY <1>4, <1>5, <1>6

\* The counters of a job agree with its chunks at every moment: not one item is
\* counted twice, though zombies and those who took their chunks process it so.
THEOREM ItemsStayCounted == Spec => []ItemsCounted
<1>1. Init => ItemsCounted
  <2> SUFFICES ASSUME Init PROVE ItemsCounted
    OBVIOUS
  <2>1. Succeeded = {} /\ WithFailures = {}
    BY DEF Init, Succeeded, WithFailures, Is
  <2> QED BY <2>1, FS_EmptySet DEF Init, ItemsCounted
<1>2. TypeOK /\ ItemsCounted /\ [Next]_vars => ItemsCounted'
  <2> SUFFICES ASSUME TypeOK, ItemsCounted, [Next]_vars PROVE ItemsCounted'
    OBVIOUS
  <2>1. CASE UNCHANGED vars
    BY <2>1 DEF vars, jobVars, ItemsCounted, Succeeded, WithFailures, Is
  <2> QED BY <2>1, WorkerCounts, OtherCounts DEF Next
<1> QED BY <1>1, <1>2, BatchTypeCorrect, PTL DEF Spec

-----------------------------------------------------------------------------
(* A chunk is not retried forever.                                         *)

\* Sets of workers are finite, and smaller ones have fewer members.
LEMMA WorkersFinite ==
    ASSUME NEW S \in SUBSET Workers
    PROVE  /\ IsFiniteSet(S) /\ Cardinality(S) \in Nat
           /\ \A T \in SUBSET S : Cardinality(T) <= Cardinality(S)
<1>1. IsFiniteSet(S)
  BY BatchAssumption, FS_Subset
<1> QED BY <1>1, FS_Subset, FS_CardinalityType

\* All workers at a chunk but one are zombies, and one that is not the one that
\* holds the claim takes its place.
LEMMA WorkingBound ==
    ASSUME NEW c
    PROVE  /\ Cardinality(Working(c)) <= Cardinality(Zombies(c)) + 1
           /\ \A w \in Working(c) : Cardinality(Working(c) \ {w}) <= Cardinality(Zombies(c))
           /\ holder[c] = NoWorker => Working(c) = Zombies(c)
<1>1. Working(c) \in SUBSET Workers /\ Zombies(c) \in SUBSET Workers
  BY DEF Working, Zombies
<1>2. /\ IsFiniteSet(Working(c)) /\ Cardinality(Working(c)) \in Nat
      /\ IsFiniteSet(Zombies(c)) /\ Cardinality(Zombies(c)) \in Nat
  BY <1>1, WorkersFinite
<1>3. Working(c) \subseteq Zombies(c) \cup {holder[c]}
  BY DEF Zombies
<1>4. /\ IsFiniteSet(Zombies(c) \cup {holder[c]})
      /\ Cardinality(Zombies(c) \cup {holder[c]}) <= Cardinality(Zombies(c)) + 1
      /\ Cardinality(Zombies(c) \cup {holder[c]}) \in Nat
  <2>1. /\ IsFiniteSet(Zombies(c) \cup {holder[c]})
        /\ Cardinality(Zombies(c) \cup {holder[c]}) =
            IF holder[c] \in Zombies(c) THEN Cardinality(Zombies(c))
                                        ELSE Cardinality(Zombies(c)) + 1
    BY <1>2, FS_AddElement
  <2> QED BY <1>2, <2>1
<1>5. Cardinality(Working(c)) <= Cardinality(Zombies(c)) + 1
  <2>1. Cardinality(Working(c)) <= Cardinality(Zombies(c) \cup {holder[c]})
    BY <1>3, <1>4, FS_Subset
  <2> QED BY <1>2, <1>4, <2>1
<1>6. ASSUME NEW w \in Working(c)
      PROVE  Cardinality(Working(c) \ {w}) <= Cardinality(Zombies(c))
  <2>1. Cardinality(Working(c) \ {w}) = Cardinality(Working(c)) - 1
    BY <1>2, <1>6, FS_RemoveElement
  <2> QED BY <1>2, <1>5, <2>1
<1>7. holder[c] = NoWorker => Working(c) = Zombies(c)
  BY <1>1, BatchAssumption DEF Zombies
<1> QED BY <1>5, <1>6, <1>7

\* A chunk whose retry_count stays, and that nobody joins who may retry it once
\* it is exhausted, stays accounted for.
LEMMA RetriesSame ==
    ASSUME TypeOK, TypeOK', NEW c \in DOMAIN chunk, c \in DOMAIN chunk',
           RetriesAccounted(c),
           holder'[c] # NoWorker => chunk'[c].status = "PROCESSING",
           Cardinality(Zombies(c)') <= faults',
           chunk'[c].retries = chunk[c].retries,
           chunk[c].retries >= MaxRetries => Retrying(c)' \subseteq Retrying(c),
           faults' >= faults, reopens' >= reopens
    PROVE  RetriesAccounted(c)'
<1>1. Retrying(c) \in SUBSET Workers /\ Retrying(c)' \in SUBSET Workers
  BY DEF Retrying, Working
<1>2. Cardinality(Retrying(c)) \in Nat /\ Cardinality(Retrying(c)') \in Nat
  BY <1>1, WorkersFinite
<1>3. chunk[c].retries >= MaxRetries =>
        Cardinality(Retrying(c)') <= Cardinality(Retrying(c))
  BY <1>1, WorkersFinite
<1>4. /\ chunk[c].retries \in Nat /\ MaxRetries \in Nat
      /\ faults \in Nat /\ faults' \in Nat /\ reopens \in Nat /\ reopens' \in Nat
  BY BatchAssumption DEF TypeOK, ChunkRow
<1>5. chunk'[c].retries >= MaxRetries =>
        chunk'[c].retries + Cardinality(Retrying(c)') <= MaxRetries + reopens' + faults'
  BY <1>2, <1>3, <1>4 DEF RetriesAccounted
<1> QED BY <1>5 DEF RetriesAccounted

\* So does one that is retried, once more than before, by a worker that thereby
\* ceases to be at it, by an operator, or while it is not exhausted.
LEMMA RetriesGrow ==
    ASSUME TypeOK, TypeOK', NEW c \in DOMAIN chunk, c \in DOMAIN chunk',
           RetriesAccounted(c),
           holder'[c] = NoWorker,
           Cardinality(Zombies(c)') <= faults',
           chunk'[c].retries = chunk[c].retries + 1,
           Retrying(c)' \subseteq Retrying(c),
           faults' >= faults, reopens' >= reopens,
           \/ chunk[c].retries < MaxRetries
           \/ reopens' = reopens + 1
           \/ \E w \in Retrying(c) : w \notin Retrying(c)'
    PROVE  RetriesAccounted(c)'
<1> DEFINE before == Retrying(c)
           after == Retrying(c)'
<1>1. before \in SUBSET Workers /\ after \in SUBSET Workers
  BY DEF Retrying, Working
<1>2. /\ IsFiniteSet(before) /\ IsFiniteSet(after)
      /\ Cardinality(before) \in Nat /\ Cardinality(after) \in Nat
      /\ Cardinality(after) <= Cardinality(before)
  <2> HIDE DEF before, after
  <2>1. after \in SUBSET before
    BY DEF before, after
  <2> QED BY <1>1, <2>1, WorkersFinite
<1>3. /\ chunk[c].retries \in Nat /\ MaxRetries \in Nat
      /\ faults \in Nat /\ faults' \in Nat /\ reopens \in Nat /\ reopens' \in Nat
  BY BatchAssumption DEF TypeOK, ChunkRow
<1>4. CASE chunk[c].retries < MaxRetries
  <2>1. after \subseteq Zombies(c)' /\ Zombies(c)' \in SUBSET Workers
    <3>1. \A w \in Working(c)' : w \in Workers /\ holder'[c] # w
      BY BatchAssumption DEF Working
    <3> QED BY <3>1 DEF Retrying, Zombies, Working
  <2>2. Cardinality(after) <= Cardinality(Zombies(c)') /\ Cardinality(Zombies(c)') \in Nat
    <3> HIDE DEF after
    <3> QED BY <2>1, WorkersFinite
  <2>3. chunk'[c].retries >= MaxRetries =>
            chunk'[c].retries + Cardinality(after) <= MaxRetries + reopens' + faults'
    <3> HIDE DEF after
    <3> QED BY <1>2, <1>3, <1>4, <2>2
  <2> QED BY <2>3 DEF RetriesAccounted
<1>5. CASE chunk[c].retries >= MaxRetries
  <2>1. chunk[c].retries + Cardinality(before) <= MaxRetries + reopens + faults
    BY <1>5 DEF RetriesAccounted
  <2>2. CASE reopens' = reopens + 1
    <3>1. chunk'[c].retries + Cardinality(after) <= MaxRetries + reopens' + faults'
      <4> HIDE DEF before, after
      <4> QED BY <1>2, <1>3, <2>1, <2>2
    <3> QED BY <3>1 DEF RetriesAccounted
  <2>3. ASSUME NEW w \in before, w \notin after
        PROVE  RetriesAccounted(c)'
    <3>1. Cardinality(before \ {w}) = Cardinality(before) - 1 /\ IsFiniteSet(before \ {w})
      <4> HIDE DEF before
      <4> QED BY <1>2, <2>3, FS_RemoveElement
    <3>2. after \in SUBSET (before \ {w})
      BY <2>3
    <3>3. Cardinality(after) <= Cardinality(before) - 1
      <4> HIDE DEF before, after
      <4> QED BY <3>1, <3>2, FS_Subset
    <3>4. chunk'[c].retries + Cardinality(after) <= MaxRetries + reopens' + faults'
      <4> HIDE DEF before, after
      <4> QED BY <1>2, <1>3, <2>1, <3>3
    <3> QED BY <3>4 DEF RetriesAccounted
  <2> QED BY <1>3, <1>5, <2>2, <2>3
<1> QED BY <1>3, <1>4, <1>5

\* Nobody joins the workers at chunk d.
NobodyJoins(d) ==
    \A v \in Workers :
        \/ worker'[v] = worker[v]
        \/ worker'[v].phase # "process"
        \/ d \notin worker'[v].chunk

\* A worker that turns to something else than processing joins nobody, and it is
\* no longer at any chunk.
LEMMA TurnJoins ==
    ASSUME TypeOK, NEW w \in Workers, NEW p \in Phases \ {"process"}, Turn(w, p)
    PROVE  /\ \A d : NobodyJoins(d)
           /\ worker'[w].phase # "process"
<1>1. worker'[w].phase = p /\ \A v \in Workers \ {w} : worker'[v] = worker[v]
  BY DEF Turn, TypeOK, Resting
<1> QED BY <1>1 DEF NobodyJoins

\* A chunk whose claim and retry_count stay, and that nobody joins.
LEMMA QuietKeeps ==
    ASSUME TypeOK, TypeOK', NEW d \in DOMAIN chunk, d \in DOMAIN chunk',
           RetriesAccounted(d), NobodyJoins(d),
           chunk'[d].retries = chunk[d].retries, holder'[d] = holder[d],
           holder[d] # NoWorker => chunk'[d].status = "PROCESSING",
           faults' >= faults, reopens' >= reopens
    PROVE  RetriesAccounted(d)'
<1>1. Working(d)' \subseteq Working(d)
  BY DEF Working, NobodyJoins
<1>2. Zombies(d)' \subseteq Zombies(d) /\ Retrying(d)' \subseteq Retrying(d)
  BY <1>1 DEF Zombies, Retrying, Working, NobodyJoins
<1>3. Cardinality(Zombies(d)') <= faults'
  <2>1. Zombies(d) \in SUBSET Workers /\ Zombies(d)' \in SUBSET Workers
    BY DEF Zombies, Working
  <2>2. /\ Cardinality(Zombies(d)') <= Cardinality(Zombies(d))
        /\ Cardinality(Zombies(d)') \in Nat /\ Cardinality(Zombies(d)) \in Nat
    BY <1>2, <2>1, WorkersFinite
  <2>3. faults \in Nat /\ faults' \in Nat
    BY BatchAssumption DEF TypeOK
  <2> QED BY <2>2, <2>3 DEF RetriesAccounted
<1> QED BY <1>2, <1>3, RetriesSame

\* A worker writes to its chunk, whoever holds the claim: it leaves the chunk, and
\* the one that held the claim is a zombie in its place.
LEMMA WriteKeeps ==
    ASSUME TypeOK, TypeOK', NEW w \in Workers, NEW c \in DOMAIN chunk,
           RetriesAccounted(c), c \in worker[w].chunk, worker[w].phase = "process",
           NEW s \in ChunkStatus, NEW r, NEW f, Write(c, s, r, f),
           NEW p \in Phases \ {"process"}, Turn(w, p), UNCHANGED bounds,
           \/ r = chunk[c].retries
           \/ r = chunk[c].retries + 1 /\ worker[w].retries < MaxRetries
    PROVE  RetriesAccounted(c)'
<1>1. /\ c \in DOMAIN chunk' /\ holder'[c] = NoWorker /\ chunk'[c].retries = r
      /\ UNCHANGED <<faults, reopens>> /\ faults \in Nat /\ reopens \in Nat
  BY BatchAssumption DEF Write, TypeOK, bounds
<1>2. w \in Working(c) /\ w \notin Working(c)' /\ Working(c)' \subseteq Working(c)
  BY TurnJoins DEF Working, NobodyJoins
<1>3. Zombies(c)' \subseteq Working(c) \ {w}
  BY <1>2 DEF Zombies
<1>4. Cardinality(Zombies(c)') <= faults'
  <2>1. /\ Working(c) \ {w} \in SUBSET Workers /\ Zombies(c) \in SUBSET Workers
        /\ Zombies(c)' \in SUBSET Workers
    BY DEF Zombies, Working
  <2>2. /\ Cardinality(Zombies(c)') <= Cardinality(Working(c) \ {w})
        /\ Cardinality(Zombies(c)') \in Nat /\ Cardinality(Zombies(c)) \in Nat
        /\ Cardinality(Working(c) \ {w}) \in Nat
    BY <1>3, <2>1, WorkersFinite
  <2>3. Cardinality(Working(c) \ {w}) <= Cardinality(Zombies(c))
    BY <1>2, WorkingBound
  <2>4. Cardinality(Zombies(c)) <= faults
    BY DEF RetriesAccounted
  <2> QED BY <1>1, <2>2, <2>3, <2>4
<1>5. Retrying(c)' \subseteq Retrying(c) /\ w \notin Retrying(c)'
  BY <1>2, TurnJoins DEF Retrying, Working, NobodyJoins
<1>6. CASE r = chunk[c].retries
  BY <1>1, <1>4, <1>5, <1>6, RetriesSame
<1>7. CASE r = chunk[c].retries + 1 /\ worker[w].retries < MaxRetries
  <2>1. w \in Retrying(c)
    BY <1>2, <1>7 DEF Retrying
  <2> QED BY <1>1, <1>4, <1>5, <1>7, <2>1, RetriesGrow
<1> QED BY <1>6, <1>7

\* A chunk that is taken from the one that holds its claim, for a fault.
LEMMA ResetKeeps ==
    ASSUME TypeOK, TypeOK', NEW w \in Workers, NEW c \in DOMAIN chunk,
           RetriesAccounted(c), ResetStuckChunk(w, c)
    PROVE  RetriesAccounted(c)'
<1>1. /\ c \in DOMAIN chunk' /\ holder'[c] = NoWorker
      /\ \/ chunk'[c].retries = chunk[c].retries
         \/ chunk'[c].retries = chunk[c].retries + 1 /\ chunk[c].retries < MaxRetries
      /\ UNCHANGED <<worker, reopens>>
      /\ faults \in Nat /\ faults' \in Nat /\ reopens \in Nat
  BY BatchAssumption DEF ResetStuckChunk, Write, TypeOK
<1>2. Working(c)' = Working(c) /\ Retrying(c)' = Retrying(c)
  BY <1>1 DEF Working, Retrying
<1>3. Zombies(c)' \subseteq Working(c)
  BY <1>2 DEF Zombies
<1>4. IF holder[c] = NoWorker THEN faults' = faults ELSE faults' = faults + 1
  BY DEF ResetStuckChunk, Stuck
<1>5. Cardinality(Zombies(c)') <= faults'
  <2>1. /\ Working(c) \in SUBSET Workers /\ Zombies(c) \in SUBSET Workers
        /\ Zombies(c)' \in SUBSET Workers
    BY DEF Zombies, Working
  <2>2. /\ Cardinality(Zombies(c)') <= Cardinality(Working(c))
        /\ Cardinality(Zombies(c)') \in Nat /\ Cardinality(Zombies(c)) \in Nat
        /\ Cardinality(Working(c)) \in Nat
    BY <1>3, <2>1, WorkersFinite
  <2>3. Cardinality(Zombies(c)) <= faults
    BY DEF RetriesAccounted
  <2>4. CASE holder[c] = NoWorker
    BY <1>1, <1>4, <2>2, <2>3, <2>4, WorkingBound
  <2>5. CASE holder[c] # NoWorker
    BY <1>1, <1>4, <2>2, <2>3, <2>5, WorkingBound
  <2> QED BY <2>4, <2>5
<1>6. CASE chunk'[c].retries = chunk[c].retries
  BY <1>1, <1>2, <1>4, <1>5, <1>6, RetriesSame
<1>7. CASE chunk'[c].retries = chunk[c].retries + 1 /\ chunk[c].retries < MaxRetries
  BY <1>1, <1>2, <1>4, <1>5, <1>7, RetriesGrow
<1> QED BY <1>1, <1>6, <1>7

\* A claim of a chunk makes no zombie, and once the chunk is exhausted whoever
\* claims it will not retry it.
LEMMA ClaimKeeps ==
    ASSUME TypeOK, TypeOK', NEW w \in Workers, NEW c \in DOMAIN chunk,
           RetriesAccounted(c), ClaimChunk(w, c)
    PROVE  RetriesAccounted(c)'
<1>1. /\ c \in DOMAIN chunk' /\ holder'[c] = w /\ holder[c] = NoWorker
      /\ chunk'[c].status = "PROCESSING" /\ chunk'[c].retries = chunk[c].retries
      /\ UNCHANGED <<faults, reopens>> /\ faults \in Nat /\ reopens \in Nat
  BY BatchAssumption DEF ClaimChunk, TypeOK, ChunkRow, bounds, RetriesAccounted
<1>2. /\ worker'[w].retries = chunk[c].retries
      /\ \A v \in Workers \ {w} : worker'[v] = worker[v]
  BY DEF ClaimChunk, TypeOK, Resting
<1>3. Zombies(c)' \subseteq Zombies(c)
  <2>1. Working(c) = Zombies(c)
    BY <1>1, WorkingBound
  <2>2. Zombies(c)' \subseteq Working(c)
    BY <1>1, <1>2 DEF Zombies, Working
  <2> QED BY <2>1, <2>2
<1>4. Cardinality(Zombies(c)') <= faults'
  <2>1. Zombies(c) \in SUBSET Workers /\ Zombies(c)' \in SUBSET Workers
    BY DEF Zombies, Working
  <2>2. /\ Cardinality(Zombies(c)') <= Cardinality(Zombies(c))
        /\ Cardinality(Zombies(c)') \in Nat /\ Cardinality(Zombies(c)) \in Nat
    BY <1>3, <2>1, WorkersFinite
  <2> QED BY <1>1, <2>2 DEF RetriesAccounted
<1>5. chunk[c].retries >= MaxRetries => Retrying(c)' \subseteq Retrying(c)
  <2>1. chunk[c].retries \in Nat /\ MaxRetries \in Nat
    BY BatchAssumption DEF TypeOK, ChunkRow
  <2> QED BY <1>2, <2>1 DEF Retrying, Working
<1> QED BY <1>1, <1>4, <1>5, RetriesSame

\* A failed chunk that an operator retries is nobody's.
LEMMA ReopenKeeps ==
    ASSUME TypeOK, TypeOK', NEW c \in DOMAIN chunk, RetriesAccounted(c),
           RetryFailedChunks
    PROVE  RetriesAccounted(c)'
<1>1. /\ c \in DOMAIN chunk' /\ UNCHANGED <<worker, holder, faults>>
      /\ reopens' = reopens + 1 /\ faults \in Nat /\ reopens \in Nat
  <2>1. faults \in Nat /\ reopens \in Nat
    BY BatchAssumption DEF TypeOK
  <2> QED BY <2>1 DEF RetryFailedChunks
<1>2. NobodyJoins(c)
  BY <1>1 DEF NobodyJoins
<1>3. CASE chunk[c].status # "FAILED"
  <2>1. chunk'[c] = chunk[c]
    BY <1>3 DEF RetryFailedChunks
  <2> QED BY <1>1, <1>2, <2>1, QuietKeeps DEF RetriesAccounted
<1>4. CASE chunk[c].status = "FAILED"
  <2>1. chunk'[c].retries = chunk[c].retries + 1
    <3>1. chunk'[c] = [chunk[c] EXCEPT !.status = "PENDING", !.retries = @ + 1]
      BY <1>4 DEF RetryFailedChunks
    <3>2. chunk[c] \in ChunkRow
      BY DEF TypeOK
    <3> QED BY <3>1, <3>2 DEF ChunkRow
  <2>2. holder'[c] = NoWorker
    BY <1>1, <1>4 DEF RetriesAccounted
  <2>3. Zombies(c)' = Zombies(c) /\ Retrying(c)' = Retrying(c)
    BY <1>1 DEF Zombies, Retrying, Working
  <2>4. Cardinality(Zombies(c)') <= faults'
    BY <1>1, <2>3 DEF RetriesAccounted
  <2> QED BY <1>1, <2>1, <2>2, <2>3, <2>4, RetriesGrow
<1> QED BY <1>3, <1>4

\* What is skipped was nobody's.
LEMMA SkipKeeps ==
    ASSUME TypeOK, TypeOK', NEW c \in DOMAIN chunk, RetriesAccounted(c),
           SkipPending, UNCHANGED <<worker, bounds, holder>>
    PROVE  RetriesAccounted(c)'
<1>1. /\ c \in DOMAIN chunk' /\ chunk'[c].retries = chunk[c].retries
      /\ chunk[c].status = "PROCESSING" => chunk'[c].status = "PROCESSING"
  BY DEF SkipPending, TypeOK, ChunkRow
<1>2. NobodyJoins(c) /\ faults' >= faults /\ reopens' >= reopens
  BY BatchAssumption DEF NobodyJoins, bounds, TypeOK
<1> QED BY <1>1, <1>2, QuietKeeps DEF RetriesAccounted

\* A worker gives up all it holds.
LEMMA AbandonKeeps ==
    ASSUME TypeOK, TypeOK', NEW w \in Workers, Abandon(w), NEW c \in DOMAIN chunk,
           RetriesAccounted(c)
    PROVE  RetriesAccounted(c)'
<1>1. /\ c \in DOMAIN chunk' /\ chunk' = chunk /\ UNCHANGED reopens
      /\ faults' = faults + 1 /\ faults \in Nat /\ reopens \in Nat
      /\ holder'[c] = IF holder[c] = w THEN NoWorker ELSE holder[c]
      /\ Turn(w, "idle")
  BY BatchAssumption DEF Abandon, TypeOK
<1>2. Working(c)' \subseteq Working(c) \ {w} /\ Retrying(c)' \subseteq Retrying(c)
  BY <1>1, TurnJoins DEF Working, Retrying, NobodyJoins, Phases
<1>3. Zombies(c)' \subseteq Zombies(c)
  BY <1>1, <1>2 DEF Zombies
<1>4. Cardinality(Zombies(c)') <= faults'
  <2>1. Zombies(c) \in SUBSET Workers /\ Zombies(c)' \in SUBSET Workers
    BY DEF Zombies, Working
  <2>2. /\ Cardinality(Zombies(c)') <= Cardinality(Zombies(c))
        /\ Cardinality(Zombies(c)') \in Nat /\ Cardinality(Zombies(c)) \in Nat
    BY <1>3, <2>1, WorkersFinite
  <2> QED BY <1>1, <2>2 DEF RetriesAccounted
<1> QED BY <1>1, <1>2, <1>4, RetriesSame DEF RetriesAccounted

\* A worker's step at its own chunk.
LEMMA EndKeeps ==
    ASSUME TypeOK, TypeOK', NEW w \in Workers, NEW c \in DOMAIN chunk, EndChunk(w, c),
           RetriesAccounted(c)
    PROVE  RetriesAccounted(c)'
<1> USE DEF jobVars
<1>0. /\ "idle" \in Phases \ {"process"} /\ "sum" \in Phases \ {"process"}
      /\ {"PENDING", "COMPLETED", "FAILED"} \subseteq ChunkStatus
  BY DEF Phases, ChunkStatus
<1>1. ASSUME NEW f \in {0, 1}, CompleteChunk(w, c, f) PROVE RetriesAccounted(c)'
  BY <1>0, <1>1, WriteKeeps DEF CompleteChunk
<1>2. CASE RetryChunk(w, c)
  BY <1>0, <1>2, WriteKeeps DEF RetryChunk
<1>3. CASE FailChunk(w, c)
  BY <1>0, <1>3, WriteKeeps DEF FailChunk
<1>4. CASE ChunkGone(w, c)
  <2>1. Turn(w, "idle") /\ UNCHANGED <<chunk, bounds, holder>>
    BY <1>4 DEF ChunkGone
  <2>2. NobodyJoins(c) /\ faults' >= faults /\ reopens' >= reopens
    BY <1>0, <2>1, TurnJoins, BatchAssumption DEF bounds, TypeOK
  <2> QED BY <2>1, <2>2, QuietKeeps DEF RetriesAccounted
<1> QED BY <1>1, <1>2, <1>3, <1>4 DEF EndChunk

\* At any other chunk d, what happens at chunk c changes nothing.
LEMMA OthersKeep ==
    ASSUME TypeOK, TypeOK', NEW w \in Workers, NEW c \in DOMAIN chunk,
           ClaimChunk(w, c) \/ EndChunk(w, c) \/ ResetStuckChunk(w, c),
           NEW d \in DOMAIN chunk, d # c, RetriesAccounted(d)
    PROVE  RetriesAccounted(d)'
<1>0. /\ "idle" \in Phases \ {"process"} /\ "sum" \in Phases \ {"process"}
      /\ faults \in Nat /\ faults' \in Nat /\ reopens \in Nat
  BY BatchAssumption DEF Phases, TypeOK
<1>1. d \in DOMAIN chunk' /\ chunk'[d] = chunk[d] /\ holder'[d] = holder[d]
  BY DEF ClaimChunk, EndChunk, CompleteChunk, RetryChunk, FailChunk, ChunkGone,
         ResetStuckChunk, Write, TypeOK
<1>2. faults' >= faults /\ reopens' >= reopens
  <2>1. reopens' = reopens /\ (faults' = faults \/ faults' = faults + 1)
    BY DEF ClaimChunk, EndChunk, CompleteChunk, RetryChunk, FailChunk, ChunkGone,
           ResetStuckChunk, Stuck, bounds
  <2> QED BY <1>0, <2>1
<1>3. NobodyJoins(d)
  <2>1. CASE ClaimChunk(w, c)
    <3>1. /\ worker'[w].chunk = {c}
          /\ \A v \in Workers \ {w} : worker'[v] = worker[v]
      BY <2>1 DEF ClaimChunk, TypeOK, Resting
    <3> QED BY <3>1 DEF NobodyJoins
  <2>2. CASE EndChunk(w, c)
    <3>1. PICK p \in {"idle", "sum"} : Turn(w, p)
      BY <2>2 DEF EndChunk, CompleteChunk, RetryChunk, FailChunk, ChunkGone
    <3> QED BY <1>0, <3>1, TurnJoins
  <2>3. CASE ResetStuckChunk(w, c)
    BY <2>3 DEF ResetStuckChunk, NobodyJoins
  <2> QED BY <2>1, <2>2, <2>3
<1> QED BY <1>1, <1>2, <1>3, QuietKeeps DEF RetriesAccounted

\* Chunking leaves the chunks that are there alone, and those it inserts are new
\* to everybody.
LEMMA ChunkingKeeps ==
    ASSUME TypeOK, TypeOK', RetriesInv, NEW w \in Workers, CompleteChunking(w)
    PROVE  RetriesInv'
<1>0. /\ "idle" \in Phases \ {"process"} /\ UNCHANGED <<faults, reopens>>
      /\ faults \in Nat /\ reopens \in Nat /\ Turn(w, "idle")
  BY BatchAssumption DEF CompleteChunking, bounds, Phases, TypeOK
<1>1. ASSUME NEW d \in DOMAIN chunk PROVE RetriesAccounted(d)'
  <2>1. d \in DOMAIN chunk' /\ chunk'[d] = chunk[d] /\ holder'[d] = holder[d]
    BY <1>1 DEF CompleteChunking
  <2>2. RetriesAccounted(d) /\ NobodyJoins(d)
    BY <1>0, <1>1, TurnJoins DEF RetriesInv
  <2> QED BY <1>0, <1>1, <2>1, <2>2, QuietKeeps DEF RetriesAccounted
<1>2. ASSUME NEW d \in DOMAIN chunk', d \notin DOMAIN chunk
      PROVE  RetriesAccounted(d)'
  <2>1. holder'[d] = NoWorker /\ chunk'[d].retries = 0
    BY <1>2 DEF CompleteChunking
  <2>2. \A v \in Workers : d \notin worker[v].chunk
    BY <1>2 DEF TypeOK
  <2>3. Working(d)' = {}
    BY <1>0, <2>2, TurnJoins DEF Working, NobodyJoins
  <2>4. Zombies(d)' = {} /\ Retrying(d)' = {}
    BY <2>3 DEF Zombies, Retrying
  <2>5. Cardinality({}) = 0
    BY FS_EmptySet
  <2>6. Cardinality(Zombies(d)') <= faults' /\ Cardinality(Retrying(d)') = 0
    BY <1>0, <2>4, <2>5
  <2>7. chunk'[d].retries + Cardinality(Retrying(d)') <= MaxRetries + reopens' + faults'
    BY <1>0, <2>1, <2>6, BatchAssumption
  <2> QED BY <2>1, <2>6, <2>7 DEF RetriesAccounted
<1> QED BY <1>1, <1>2 DEF RetriesInv

\* Every step keeps the retries of all chunks accounted for.
LEMMA RetriesStep == TypeOK /\ RetriesInv /\ [Next]_vars => RetriesInv'
<1> SUFFICES ASSUME TypeOK, RetriesInv, [Next]_vars PROVE RetriesInv'
  OBVIOUS
<1> USE DEF jobVars
<1>0. /\ TypeOK' /\ Phases = {"idle", "chunk", "process", "sum", "finalize"}
      /\ faults \in Nat /\ reopens \in Nat /\ faults' \in Nat
  BY BatchTypeStep, BatchAssumption DEF Phases, TypeOK
<1>1. ASSUME UNCHANGED <<chunk, holder, reopens>>, faults' >= faults,
             \A d : NobodyJoins(d)
      PROVE  RetriesInv'
  BY <1>0, <1>1, QuietKeeps DEF RetriesInv, RetriesAccounted
<1>2. ASSUME UNCHANGED <<chunk, holder, bounds>>, NEW w \in Workers,
             NEW p \in Phases \ {"process"}, Turn(w, p)
      PROVE  RetriesInv'
  BY <1>0, <1>1, <1>2, TurnJoins DEF bounds
<1>3. ASSUME NEW w \in Workers, NEW c \in DOMAIN chunk,
             ClaimChunk(w, c) \/ EndChunk(w, c) \/ ResetStuckChunk(w, c)
      PROVE  RetriesInv'
  <2>1. DOMAIN chunk' = DOMAIN chunk
    BY <1>3 DEF ClaimChunk, EndChunk, CompleteChunk, RetryChunk, FailChunk, ChunkGone,
                ResetStuckChunk, Write
  <2>2. RetriesAccounted(c)'
    BY <1>0, <1>3, ClaimKeeps, EndKeeps, ResetKeeps DEF RetriesInv
  <2>3. \A d \in DOMAIN chunk \ {c} : RetriesAccounted(d)'
    BY <1>0, <1>3, OthersKeep DEF RetriesInv
  <2> QED BY <2>1, <2>2, <2>3 DEF RetriesInv
<1>4. ASSUME NEW w \in Workers, ReadSummary(w) PROVE RetriesInv'
  <2>1. worker'[w].phase # "process" /\ \A v \in Workers \ {w} : worker'[v] = worker[v]
    BY <1>4 DEF ReadSummary, TypeOK, Resting
  <2> QED BY <1>0, <1>1, <1>4, <2>1 DEF ReadSummary, NobodyJoins, bounds
<1>5. ASSUME NEW w \in Workers, WorkerStep(w) PROVE RetriesInv'
  BY <1>0, <1>2, <1>3, <1>4, <1>5, ChunkingKeeps
  DEF WorkerStep, ClaimJob, FailJob, Finalize
<1>6. ASSUME NEW w \in Workers, Cleanup(w) PROVE RetriesInv'
  <2>1. CASE ResetStuckJob(w)
    <3>1. UNCHANGED <<chunk, holder, reopens, worker>>
          /\ (faults' = faults \/ faults' = faults + 1)
      BY <2>1 DEF ResetStuckJob, Stuck
    <3> QED BY <1>0, <1>1, <3>1 DEF NobodyJoins
  <2>2. CASE Sweep(w)
    BY <1>0, <1>2, <2>2 DEF Sweep
  <2> QED BY <1>3, <1>6, <2>1, <2>2 DEF Cleanup
<1>7. ASSUME SkipPending, UNCHANGED <<worker, bounds, holder>> PROVE RetriesInv'
  <2>1. DOMAIN chunk' = DOMAIN chunk
    BY <1>7 DEF SkipPending
  <2> QED BY <1>0, <1>7, <2>1, SkipKeeps DEF RetriesInv
<1>8. ASSUME NEW w \in Workers, Abandon(w) PROVE RetriesInv'
  <2>1. DOMAIN chunk' = DOMAIN chunk
    BY <1>8 DEF Abandon
  <2> QED BY <1>0, <1>8, <2>1, AbandonKeeps DEF RetriesInv
<1>9. CASE RetryFailedChunks
  <2>1. DOMAIN chunk' = DOMAIN chunk
    BY <1>9 DEF RetryFailedChunks
  <2> QED BY <1>0, <1>9, <2>1, ReopenKeeps DEF RetriesInv
<1>10. CASE UNCHANGED vars
  BY <1>0, <1>1, <1>10 DEF vars, bounds, NobodyJoins
<1> QED BY <1>5, <1>6, <1>7, <1>8, <1>9, <1>10
        DEF Next, SkipTimedOut, CancelBatchJob

\* A chunk is retried max_retries times, once more for every retry of an operator,
\* and once more at most for every worker that was taken for dead: the zombies it
\* leaves behind, who may send the chunk back as well, are no more than that.
THEOREM RetriesStayBounded == Spec => []RetriesBounded
<1>1. Init => RetriesInv
  BY DEF Init, RetriesInv
<1>2. TypeOK /\ RetriesInv => RetriesBounded
  <2> SUFFICES ASSUME TypeOK, RetriesInv, NEW c \in DOMAIN chunk
               PROVE  chunk[c].retries <= MaxRetries + reopens + faults
    BY DEF RetriesBounded
  <2>1. Retrying(c) \in SUBSET Workers
    BY DEF Retrying, Working
  <2>2. Cardinality(Retrying(c)) \in Nat
    BY <2>1, WorkersFinite
  <2>3. /\ chunk[c].retries \in Nat /\ MaxRetries \in Nat
        /\ reopens \in Nat /\ faults \in Nat
    BY BatchAssumption DEF TypeOK, ChunkRow
  <2> QED BY <2>2, <2>3 DEF RetriesInv, RetriesAccounted
<1> QED BY <1>1, <1>2, RetriesStep, BatchTypeCorrect, PTL DEF Spec

=============================================================================
