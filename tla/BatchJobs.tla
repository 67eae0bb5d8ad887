------------------------------ MODULE BatchJobs ------------------------------
(***************************************************************************)
(* The batch job engine: one job, its chunks, and the workers that run it. *)
(*                                                                         *)
(* A job is claimed, cut into chunks, and its chunks are claimed one by    *)
(* one by any worker of any process (workers/batch_jobs/worker.rs).  A     *)
(* claim is a status and a locked_at, with no name on it: whatever has     *)
(* been locked for five minutes is taken from its worker, dead or merely   *)
(* slow, and every later write only compares the status it finds.  The     *)
(* worker that ends a chunk tries to finalize the job, in a transaction    *)
(* that reads a summary of the chunks and then updates the job; sweeps do  *)
(* the same for jobs left behind.  Meanwhile operators cancel the job or   *)
(* retry its failed chunks.                                                *)
(*                                                                         *)
(* Jobs share nothing but workers, so one is enough.  A chunk stands for   *)
(* one item, which is processed or fails.                                  *)
(***************************************************************************)
EXTENDS Naturals, FiniteSets

CONSTANTS
    Ranges,       \* what prepare_chunks makes of the input
    Workers,      \* BatchJobWorkers
    NoWorker,     \* nobody holds a claim
    MaxRetries,   \* BatchJobProcessor::max_retries
    MaxReopens,   \* bound: how often an operator retries failed chunks
    MaxFaults     \* bound: workers that die, give up or are too slow

ASSUME BatchAssumption ==
    /\ IsFiniteSet(Ranges)
    /\ IsFiniteSet(Workers)
    /\ NoWorker \notin Workers
    /\ MaxRetries \in Nat
    /\ MaxReopens \in Nat
    /\ MaxFaults \in Nat

\* A chunk is a range and the chunking that inserted it: a job that is cut
\* twice has each of its ranges twice.
Chunks == Ranges \X (Nat \ {0})

JobStatus == {"PENDING", "CHUNKING", "PROCESSING", "COMPLETED",
              "COMPLETED_WITH_ERRORS", "FAILED", "CANCELLED"}
ChunkStatus == {"PENDING", "PROCESSING", "COMPLETED", "FAILED", "SKIPPED"}
ChunkRow == [status : ChunkStatus, retries : Nat, failed : {0, 1}]
Phases == {"idle", "chunk", "process", "sum", "finalize"}

VARIABLES
    job,        \* batch_job.status
    processed,  \* batch_job.processed_items
    failed,     \* batch_job.failed_items
    chunk,      \* batch_job_chunk: status, retry_count, failed_count
    chunkings,  \* how many times complete_chunking has inserted chunks
    worker,     \* what each worker is doing: its chunk, the retry_count it
                \*   claimed it with, the final status it computed
    reopens,    \* how often failed chunks were retried
    faults,     \* how many workers died, gave up or were too slow
    jobHolder,  \* history: the worker whose claim the job is under
    holder      \* history: the worker whose claim each chunk is under

jobVars == <<job, processed, failed>>
bounds == <<reopens, faults>>
vars == <<jobVars, chunk, chunkings, worker, bounds, jobHolder, holder>>

Resting == [phase |-> "idle", chunk |-> {}, retries |-> 0, outcome |-> "FAILED"]

Init ==
    /\ job = "PENDING"
    /\ processed = 0
    /\ failed = 0
    /\ chunk = [c \in {} |-> {}]
    /\ chunkings = 0
    /\ worker = [w \in Workers |-> Resting]
    /\ reopens = 0
    /\ faults = 0
    /\ jobHolder = NoWorker
    /\ holder = [c \in {} |-> NoWorker]

Open == job \in {"PENDING", "CHUNKING", "PROCESSING"}

Is(S) == {c \in DOMAIN chunk : chunk[c].status \in S}
Active == Is({"PENDING", "PROCESSING"})

\* The chunks whose processed_count is 1, and those whose failed_count is.
Succeeded == {c \in Is({"COMPLETED"}) : chunk[c].failed = 0}
WithFailures == {c \in DOMAIN chunk : chunk[c].failed = 1}

\* Worker w turns to what it does next.
Turn(w, p) == worker' = [worker EXCEPT ![w] = [Resting EXCEPT !.phase = p]]

-----------------------------------------------------------------------------
(* try_chunk_job.                                                          *)

\* claim_pending_job.
ClaimJob(w) ==
    /\ worker[w].phase = "idle"
    /\ job = "PENDING"
    /\ job' = "CHUNKING"
    /\ jobHolder' = w
    /\ Turn(w, "chunk")
    /\ UNCHANGED <<processed, failed, chunk, chunkings, bounds, holder>>

\* complete_chunking inserts the chunks, and starts the job if it is still
\* being chunked.
CompleteChunking(w) ==
    /\ worker[w].phase = "chunk"
    /\ LET new == Ranges \X {chunkings + 1} IN
        /\ chunk' = [c \in DOMAIN chunk \cup new |->
                        IF c \in DOMAIN chunk THEN chunk[c]
                        ELSE [status |-> "PENDING", retries |-> 0, failed |-> 0]]
        /\ holder' = [c \in DOMAIN chunk \cup new |->
                        IF c \in DOMAIN chunk THEN holder[c] ELSE NoWorker]
    /\ chunkings' = chunkings + 1
    /\ job' = IF job = "CHUNKING" THEN "PROCESSING" ELSE job
    /\ jobHolder' = NoWorker
    /\ Turn(w, "idle")
    /\ UNCHANGED <<processed, failed, bounds>>

\* fail_job: no processor, no input, or an input prepare_chunks refuses.
FailJob(w) ==
    /\ worker[w].phase = "chunk"
    /\ job' = IF Open THEN "FAILED" ELSE job
    /\ jobHolder' = NoWorker
    /\ Turn(w, "idle")
    /\ UNCHANGED <<processed, failed, chunk, chunkings, bounds, holder>>

-----------------------------------------------------------------------------
(* try_process_chunk.                                                      *)

\* claim_pending_chunk, once its retry_after has passed.
ClaimChunk(w, c) ==
    /\ worker[w].phase = "idle"
    /\ job = "PROCESSING"
    /\ chunk[c].status = "PENDING"
    /\ chunk' = [chunk EXCEPT ![c].status = "PROCESSING"]
    /\ holder' = [holder EXCEPT ![c] = w]
    /\ worker' = [worker EXCEPT ![w] =
                    [Resting EXCEPT !.phase = "process", !.chunk = {c},
                                    !.retries = chunk[c].retries]]
    /\ UNCHANGED <<jobVars, chunkings, bounds, jobHolder>>

\* A write of the worker to its chunk: it compares the status with PROCESSING
\* and asks nothing about who claimed it.
Write(c, s, r, f) ==
    /\ chunk' = [chunk EXCEPT ![c] = [status |-> s, retries |-> r, failed |-> f]]
    /\ holder' = [holder EXCEPT ![c] = NoWorker]

\* Mutant: complete_chunk does not compare the status.
CompleteChunkBlindly(w, c, f) ==
    /\ worker[w].phase = "process"
    /\ c \in worker[w].chunk
    /\ Write(c, "COMPLETED", chunk[c].retries, f)
    /\ processed' = processed + (1 - f)
    /\ failed' = failed + f
    /\ Turn(w, "sum")
    /\ UNCHANGED <<job, chunkings, bounds, jobHolder>>

\* complete_chunk: the chunk was processed, f of its items failed.
CompleteChunk(w, c, f) ==
    /\ worker[w].phase = "process"
    /\ c \in worker[w].chunk
    /\ chunk[c].status = "PROCESSING"
    /\ Write(c, "COMPLETED", chunk[c].retries, f)
    /\ processed' = processed + (1 - f)
    /\ failed' = failed + f
    /\ Turn(w, "sum")
    /\ UNCHANGED <<job, chunkings, bounds, jobHolder>>

\* Mutant: an exhausted chunk is retried once more.
RetryChunkAtLimit(w, c) ==
    /\ worker[w].phase = "process"
    /\ c \in worker[w].chunk
    /\ worker[w].retries <= MaxRetries
    /\ chunk[c].status = "PROCESSING"
    /\ Write(c, "PENDING", chunk[c].retries + 1, chunk[c].failed)
    /\ Turn(w, "idle")
    /\ UNCHANGED <<jobVars, chunkings, bounds, jobHolder>>

\* schedule_chunk_retry: processing failed, and the chunk had retries left when
\* it was claimed.
RetryChunk(w, c) ==
    /\ worker[w].phase = "process"
    /\ c \in worker[w].chunk
    /\ worker[w].retries < MaxRetries
    /\ chunk[c].status = "PROCESSING"
    /\ Write(c, "PENDING", chunk[c].retries + 1, chunk[c].failed)
    /\ Turn(w, "idle")
    /\ UNCHANGED <<jobVars, chunkings, bounds, jobHolder>>

\* fail_chunk: processing failed with no retry left, or the input could not be
\* fetched, which is not retried.
FailChunk(w, c) ==
    /\ worker[w].phase = "process"
    /\ c \in worker[w].chunk
    /\ chunk[c].status = "PROCESSING"
    /\ Write(c, "FAILED", chunk[c].retries, 1)
    /\ failed' = failed + 1
    /\ Turn(w, "sum")
    /\ UNCHANGED <<job, processed, chunkings, bounds, jobHolder>>

\* Whichever it was, the chunk is no longer PROCESSING: the worker skips it.
ChunkGone(w, c) ==
    /\ worker[w].phase = "process"
    /\ c \in worker[w].chunk
    /\ chunk[c].status # "PROCESSING"
    /\ Turn(w, "idle")
    /\ UNCHANGED <<jobVars, chunk, chunkings, bounds, jobHolder, holder>>

-----------------------------------------------------------------------------
(* try_finalize_job, in its two statements.                                *)

\* Mutant: only chunks in progress hold a job open.
OutcomeOfProcessing ==
    IF Is({"PROCESSING"}) # {} THEN "open"
    ELSE IF Is({"FAILED"}) = DOMAIN chunk THEN "FAILED"
    ELSE IF Is({"FAILED"}) \cup WithFailures # {}
         THEN "COMPLETED_WITH_ERRORS"
    ELSE "COMPLETED"

\* What the summary of the chunks says of the job.
Outcome ==
    IF Active # {} THEN "open"
    ELSE IF Is({"FAILED"}) = DOMAIN chunk THEN "FAILED"
    ELSE IF Is({"FAILED"}) \cup WithFailures # {}
         THEN "COMPLETED_WITH_ERRORS"
    ELSE "COMPLETED"

\* Mutant: the summary is not asked whether chunks are active.
ReadSummaryOnly(w) ==
    /\ worker[w].phase = "sum"
    /\ worker' = [worker EXCEPT ![w] = [Resting EXCEPT !.phase = "finalize",
                                                      !.outcome = Outcome]]
    /\ UNCHANGED <<jobVars, chunk, chunkings, bounds, jobHolder, holder>>

\* get_job_chunk_summary.
ReadSummary(w) ==
    /\ worker[w].phase = "sum"
    /\ worker' = [worker EXCEPT ![w] =
                    IF Outcome = "open" THEN Resting
                    ELSE [Resting EXCEPT !.phase = "finalize",
                                         !.outcome = Outcome]]
    /\ UNCHANGED <<jobVars, chunk, chunkings, bounds, jobHolder, holder>>

\* BatchJobRow::finalize, which also counts the items again.
Finalize(w) ==
    /\ worker[w].phase = "finalize"
    /\ IF job = "PROCESSING"
       THEN /\ job' = worker[w].outcome
            /\ processed' = Cardinality(Succeeded)
            /\ failed' = Cardinality(WithFailures)
       ELSE UNCHANGED jobVars
    /\ Turn(w, "idle")
    /\ UNCHANGED <<chunk, chunkings, bounds, jobHolder, holder>>

-----------------------------------------------------------------------------
(* What goes wrong with workers, and the cleanup an idle one does.         *)

\* A worker dies, or a call fails and it starts its loop over: what it had
\* claimed is nobody's, and stays locked.
Abandon(w) ==
    /\ worker[w].phase # "idle"
    /\ faults < MaxFaults
    /\ faults' = faults + 1
    /\ jobHolder' = IF jobHolder = w THEN NoWorker ELSE jobHolder
    /\ holder' = [c \in DOMAIN holder |-> IF holder[c] = w THEN NoWorker
                                                          ELSE holder[c]]
    /\ Turn(w, "idle")
    /\ UNCHANGED <<jobVars, chunk, chunkings, reopens>>

\* The five minutes of h's claim are up.  How long work takes is not modelled:
\* a worker that is still at it may be too slow, and becomes a zombie.
Stuck(h) ==
    IF h = NoWorker THEN UNCHANGED faults
                    ELSE faults < MaxFaults /\ faults' = faults + 1

\* reset_stuck_chunking_jobs.
ResetStuckJob(w) ==
    /\ worker[w].phase = "idle"
    /\ job = "CHUNKING"
    /\ Stuck(jobHolder)
    /\ job' = "PENDING"
    /\ jobHolder' = NoWorker
    /\ UNCHANGED <<processed, failed, chunk, chunkings, worker, reopens,
                   holder>>

\* Mutant: exhausted chunks are left as they are.
ResetRetryableChunk(w, c) ==
    /\ worker[w].phase = "idle"
    /\ chunk[c].status = "PROCESSING"
    /\ Stuck(holder[c])
    /\ chunk[c].retries < MaxRetries
    /\ Write(c, "PENDING", chunk[c].retries + 1, chunk[c].failed)
    /\ UNCHANGED <<jobVars, chunkings, worker, reopens, jobHolder>>

\* reset_stuck_chunks, for one chunk.
ResetStuckChunk(w, c) ==
    /\ worker[w].phase = "idle"
    /\ chunk[c].status = "PROCESSING"
    /\ Stuck(holder[c])
    /\ IF chunk[c].retries < MaxRetries
       THEN Write(c, "PENDING", chunk[c].retries + 1, chunk[c].failed)
       ELSE Write(c, "FAILED", chunk[c].retries, chunk[c].failed)
    /\ UNCHANGED <<jobVars, chunkings, worker, reopens, jobHolder>>

\* Every chunk that has not begun is skipped.
SkipPending ==
    chunk' = [c \in DOMAIN chunk |->
                IF chunk[c].status = "PENDING"
                THEN [chunk[c] EXCEPT !.status = "SKIPPED"] ELSE chunk[c]]

\* The job is older than max_job_age, which it may be at any time: the UPDATE of
\* fail_timed_out_jobs skips what it has not begun.
SkipTimedOut(w) ==
    /\ worker[w].phase = "idle"
    /\ job = "PROCESSING"
    /\ SkipPending
    /\ UNCHANGED <<jobVars, chunkings, worker, bounds, jobHolder, holder>>

\* A job that has nothing left to run is finalized: it is found by the SELECT of
\* find_stalled_processing_jobs, or by that of fail_timed_out_jobs, which asks
\* for the same and takes a job without any chunk as well.
Sweep(w) ==
    /\ worker[w].phase = "idle"
    /\ job = "PROCESSING"
    /\ Active = {}
    /\ Turn(w, "sum")
    /\ UNCHANGED <<jobVars, chunk, chunkings, bounds, jobHolder, holder>>

-----------------------------------------------------------------------------
(* Operators.                                                              *)

\* Mutant: cancelled jobs are reopened too.
ReopenAny == job' = IF job \in {"COMPLETED_WITH_ERRORS", "FAILED", "CANCELLED"}
                    THEN "PROCESSING" ELSE job

\* reopen_for_retry; nobody looks whether it found the job.
Reopen == job' = IF job \in {"COMPLETED_WITH_ERRORS", "FAILED"}
                 THEN "PROCESSING" ELSE job

\* retry_failed_chunks, whatever the status of the job.
RetryFailedChunks ==
    /\ Is({"FAILED"}) # {}
    /\ reopens < MaxReopens
    /\ reopens' = reopens + 1
    /\ chunk' = [c \in DOMAIN chunk |->
                    IF chunk[c].status = "FAILED"
                    THEN [chunk[c] EXCEPT !.status = "PENDING", !.retries = @ + 1]
                    ELSE chunk[c]]
    /\ Reopen
    /\ UNCHANGED <<processed, failed, chunkings, worker, faults,
                   jobHolder, holder>>

\* cancel_batch_job.
CancelBatchJob ==
    /\ SkipPending
    /\ job' = IF Open THEN "CANCELLED" ELSE job
    /\ UNCHANGED <<processed, failed, chunkings, worker, bounds,
                   jobHolder, holder>>

-----------------------------------------------------------------------------

\* What worker w does with the chunk it claimed.
EndChunk(w, c) ==
    \/ \E f \in {0, 1} : CompleteChunk(w, c, f)
    \/ RetryChunk(w, c) \/ FailChunk(w, c) \/ ChunkGone(w, c)

Cleanup(w) ==
    \/ ResetStuckJob(w) \/ Sweep(w)
    \/ \E c \in DOMAIN chunk : ResetStuckChunk(w, c)

WorkerStep(w) ==
    \/ ClaimJob(w) \/ CompleteChunking(w) \/ FailJob(w)
    \/ \E c \in DOMAIN chunk : ClaimChunk(w, c) \/ EndChunk(w, c)
    \/ ReadSummary(w) \/ Finalize(w)

Next ==
    \/ \E w \in Workers : 
        WorkerStep(w) \/ Cleanup(w) \/ SkipTimedOut(w) \/ Abandon(w)
    \/ RetryFailedChunks \/ CancelBatchJob

\* The loop of a worker never ends: a claim it made is worked off, a claim it
\* could make is made, and it cleans up every minute.  No job needs its timeout.
Fairness ==
    /\ \A w \in Workers : WF_vars(WorkerStep(w))
    /\ \A w \in Workers : WF_vars(Cleanup(w))

Spec == Init /\ [][Next]_vars

FairSpec == Spec /\ Fairness

-----------------------------------------------------------------------------
(* Properties.                                                             *)

\* Every variable has its type.
TypeOK ==
    /\ job \in JobStatus
    /\ processed \in Nat
    /\ failed \in Nat
    /\ chunkings \in Nat
    /\ DOMAIN chunk \subseteq Ranges \X (1 .. chunkings)
    /\ chunk \in [DOMAIN chunk -> ChunkRow]
    /\ worker \in [Workers -> [phase : Phases,
                               chunk : SUBSET DOMAIN chunk, retries : Nat,
                               outcome : JobStatus]]
    /\ reopens \in 0 .. MaxReopens
    /\ faults \in 0 .. MaxFaults
    /\ jobHolder \in Workers \cup {NoWorker}
    /\ holder \in [DOMAIN chunk -> Workers \cup {NoWorker}]

\* What is done stays done: no zombie, reset, retry, timeout or cancellation
\* takes a completed or skipped chunk back, and a completed or cancelled job
\* is never reopened, nor does a cancelled one begin another chunk.
DoneForGood ==
    [][/\ \A c \in Is({"COMPLETED", "SKIPPED"}) : chunk'[c] = chunk[c]
       /\ job \in {"COMPLETED", "CANCELLED"} => job' = job
       /\ job = "CANCELLED" =>
            \A c \in Is({"PENDING"}) : chunk'[c].status # "PROCESSING"]_vars

\* A job that says COMPLETED has no failed item and nothing left to run among
\* the chunks it was first cut into: nothing that happens between the summary
\* and the update of the job makes the outcome a lie.  (Chunks a second worker
\* inserted because the first was too slow may be left over.)
CompletedIsClean ==
    job = "COMPLETED" =>
        \A c \in DOMAIN chunk :
            c[2] = 1 => /\ chunk[c].status \in {"COMPLETED", "SKIPPED"}
                        /\ chunk[c].failed = 0

\* processed_items is exact at every moment, kept by increments and recounted
\* at the end, and failed_items misses no chunk's failed_count: a chunk that
\* several workers processed counts once.
ItemsCounted ==
    /\ processed = Cardinality(Succeeded)
    /\ failed >= Cardinality(WithFailures)

\* A chunk is retried max_retries times, plus once for every retry of an
\* operator, plus at most once for every worker that was taken for dead.
RetriesBounded ==
    \A c \in DOMAIN chunk : chunk[c].retries <= MaxRetries + reopens + faults

\* Every job comes to an end, whatever workers died or were taken for dead on
\* the way, and comes to an end again whenever it is reopened.
JobSettles == Open ~> ~Open

\* A job that timed out fails: fail_timed_out_jobs "skips all their PENDING
\* chunks and marks the job as FAILED".
TimedOutJobFails ==
    [][job = "PROCESSING" /\ job' \in {"COMPLETED", "COMPLETED_WITH_ERRORS"}
        => Is({"SKIPPED"}) = {}]_vars

\* A worker whose chunk was taken from it writes nothing to that chunk: the
\* comparison of the status is there "to prevent zombie workers".
ZombiesWriteNothing ==
    [][\A w \in Workers : \A c \in worker[w].chunk :
        worker[w].phase = "process" /\ holder[c] # w /\ worker'[w] # worker[w]
            => chunk'[c] = chunk[c]]_vars

-----------------------------------------------------------------------------
(* Why the outcome is no lie: the inductive invariant.                     *)

\* The job was chunked, and what it was first cut into is done.
FirstChunksClean ==
    /\ chunkings > 0
    /\ \A c \in DOMAIN chunk :
        c[2] = 1 => /\ chunk[c].status \in {"COMPLETED", "SKIPPED"}
                    /\ chunk[c].failed = 0

\* It was done already when a worker read the summary that said so.
BatchInv ==
    /\ TypeOK
    /\ job = "COMPLETED" => FirstChunksClean
    /\ \A w \in Workers :
        worker[w].phase = "finalize" /\ worker[w].outcome = "COMPLETED"
            => FirstChunksClean

-----------------------------------------------------------------------------
(* Why the retries of a chunk are bounded: a second invariant.             *)

\* The workers at a chunk, those of them it was taken from, and those that may
\* still send it back for a retry: they claimed it before it was exhausted.
Working(c) == {w \in Workers : worker[w].phase = "process" /\ c \in worker[w].chunk}
Zombies(c) == {w \in Working(c) : holder[c] # w}
Retrying(c) == {w \in Working(c) : worker[w].retries < MaxRetries}

\* A claim is held while the chunk is PROCESSING, only a fault makes a zombie, and
\* once a chunk is exhausted those that may still retry it are accounted for.
RetriesAccounted(c) ==
    /\ holder[c] # NoWorker => chunk[c].status = "PROCESSING"
    /\ Cardinality(Zombies(c)) <= faults
    /\ chunk[c].retries >= MaxRetries =>
         chunk[c].retries + Cardinality(Retrying(c)) <= MaxRetries + reopens + faults

RetriesInv == \A c \in DOMAIN chunk : RetriesAccounted(c)

=============================================================================
