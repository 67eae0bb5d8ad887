---------------------------- MODULE MessageQueue ----------------------------
(***************************************************************************)
(* One PGMQ queue, the workers that drain it, and its dead letters.        *)
(*                                                                         *)
(* Every asynchronous step of the billing system goes through such a       *)
(* queue: workers/pgmq/processor.rs reads a batch, hands it to the queue's *)
(* handler, dead-letters what has been read too often and removes what     *)
(* succeeded.  Each of these is a database call of its own, so a crash, a  *)
(* failed call or an expired visibility timeout can fall between any two.  *)
(* Operators work on the dead letters at the same time                     *)
(* (repositories/dead_letter.rs), again without a transaction around their *)
(* calls.                                                                  *)
(*                                                                         *)
(* A message is what PGMQ stores under a msg_id; a job is the payload it   *)
(* carries.  Requeueing a dead letter gives its job a new message.         *)
(***************************************************************************)
EXTENDS Naturals, FiniteSets

CONSTANTS
    Jobs,           \* payloads the program enqueues, each of them once
    NoJob,          \* the payload of a msg_id not handed out yet
    MaxMsgId,       \* bound: how many messages the queue is ever given
    Workers,        \* concurrent runs of run_once over this queue
    Admins,         \* concurrent requests of the dead letter service
    Qty,            \* ProcessorConfig.qty, the size of a batch
    MaxReadCount,   \* ProcessorConfig.max_read_count
    MaxFaults       \* bound: crashes, failed calls and failed batches

ASSUME QueueAssumption ==
    /\ NoJob \notin Jobs
    /\ MaxMsgId \in Nat
    /\ Qty \in Nat \ {0}
    /\ MaxReadCount \in Nat
    /\ MaxFaults \in Nat

MsgIds == 1 .. MaxMsgId

\* One read of a message: pgmq.read returns the row with its new read_ct, so
\* a receipt also names the dead letter a read may end in.
Receipt == [msg : MsgIds, ct : Nat]

Phases == {"idle", "handle", "bury", "purge", "ack"}
AdminOps == {"none", "send", "mark", "discard", "batch"}
DeadStatus == {"PENDING", "REQUEUED", "DISCARDED"}

VARIABLES
    lastId,      \* the msg_id sequence of the queue
    jobOf,       \* what each message carries
    queue,       \* the messages in the queue's table
    visible,     \* those of them whose visibility timeout has elapsed
    readCt,      \* read_ct of each message
    run,         \* each worker's run_once: its next call, the receipts it
                 \*   read, the messages its handler reported as succeeded
    deadLetter,  \* dead_letter_message: receipt -> status
    admin,       \* each operator's request: the call it makes next, and for what
    faults,      \* how many faults have happened
    handled,     \* history: messages some handler reported as succeeded
    latest,      \* history: the newest message that carries each job, 0 if none
    lapsed       \* history: jobs that met an error the code only logs

queueVars == <<lastId, jobOf, queue, visible, readCt, latest>>
workerVars == <<run, handled>>
vars == <<queueVars, workerVars, deadLetter, admin, faults, lapsed>>

\* A worker between two runs of run_once.
Idle == [phase |-> "idle", batch |-> {}, ok |-> {}]

Init ==
    /\ lastId = 0
    /\ jobOf = [m \in MsgIds |-> NoJob]
    /\ queue = {}
    /\ visible = {}
    /\ readCt = [m \in MsgIds |-> 0]
    /\ run = [w \in Workers |-> Idle]
    /\ deadLetter = [r \in {} |-> "PENDING"]
    /\ admin = [a \in Admins |-> [op |-> "none", targets |-> {}]]
    /\ faults = 0
    /\ handled = {}
    /\ latest = [j \in Jobs |-> 0]
    /\ lapsed = {}

-----------------------------------------------------------------------------
(* The queue's table: pgmq.send_batch and the visibility timeout.          *)

\* A new row with the next msg_id, visible at once (delay 0).
SendMessage(j) ==
    /\ lastId < MaxMsgId
    /\ lastId' = lastId + 1
    /\ jobOf' = [jobOf EXCEPT ![lastId + 1] = j]
    /\ queue' = queue \cup {lastId + 1}
    /\ visible' = visible \cup {lastId + 1}
    /\ latest' = [latest EXCEPT ![j] = lastId + 1]
    /\ UNCHANGED readCt

\* Some part of the program enqueues a job.
Enqueue(j) ==
    /\ latest[j] = 0
    /\ SendMessage(j)
    /\ UNCHANGED <<workerVars, deadLetter, admin, faults, lapsed>>

\* Mutant: a timeout that elapses brings a removed row back.
VtExpireAny(m) ==
    /\ m \in (1 .. lastId) \ visible
    /\ visible' = visible \cup {m}
    /\ UNCHANGED <<lastId, jobOf, queue, readCt, latest, workerVars,
                   deadLetter, admin, faults, lapsed>>

\* vt seconds after a read the row can be read again, whether or not the
\* worker that read it is done.
VtExpire(m) ==
    /\ m \in queue \ visible
    /\ visible' = visible \cup {m}
    /\ UNCHANGED <<lastId, jobOf, queue, readCt, latest, workerVars,
                   deadLetter, admin, faults, lapsed>>

Remove(S) ==
    /\ queue' = queue \ S
    /\ visible' = visible \ S
    /\ UNCHANGED <<lastId, jobOf, readCt, latest>>

-----------------------------------------------------------------------------
(* run_once, one action per call it awaits.                                *)

Msgs(R) == {r.msg : r \in R}

\* m.read_ct > max_read_count, on the row as it was read.
Exhausted(R) == {r \in R : r.ct > MaxReadCount}

\* Exhausted messages that did not succeed on this attempt either.
ToDeadLetter(R, ok) == {r \in Exhausted(R) : r.msg \notin ok}

\* Worker w makes call p next; with none left to make it forgets its batch.
GoTo(w, p, R, ok) ==
    run' = [run EXCEPT ![w] = IF p = "idle" THEN Idle
                              ELSE [phase |-> p, batch |-> R, ok |-> ok]]

\* Mutant: rows are read only when they fill a batch.
IsFullBatch(S) ==
    /\ S \subseteq visible
    /\ Cardinality(S) = Qty

\* pgmq.read takes the visible rows with the smallest msg_ids.
IsNextBatch(S) ==
    /\ S # {}
    /\ Cardinality(S) <= Qty
    /\ \A m \in S, n \in visible \ S : m < n
    /\ S = visible \/ Cardinality(S) = Qty

\* Mutant: a read leaves the rows' read_ct alone.
PgmqReadUncounted(w) ==
    /\ run[w].phase = "idle"
    /\ \E S \in SUBSET visible :
        /\ IsNextBatch(S)
        /\ visible' = visible \ S
        /\ GoTo(w, "handle", {[msg |-> m, ct |-> readCt[m] + 1] : m \in S}, {})
    /\ UNCHANGED <<lastId, jobOf, queue, readCt, latest, handled,
                   deadLetter, admin, faults, lapsed>>

PgmqRead(w) ==
    /\ run[w].phase = "idle"
    /\ \E S \in SUBSET visible :
        /\ IsNextBatch(S)
        /\ visible' = visible \ S
        /\ readCt' = [m \in MsgIds |-> IF m \in S THEN readCt[m] + 1
                                                  ELSE readCt[m]]
        /\ GoTo(w, "handle", {[msg |-> m, ct |-> readCt[m] + 1] : m \in S}, {})
    /\ UNCHANGED <<lastId, jobOf, queue, latest, handled,
                   deadLetter, admin, faults, lapsed>>

\* Nothing to read: run_once returns 0 and the loop sleeps.
PgmqReadEmpty(w) ==
    /\ run[w].phase = "idle"
    /\ \A S \in SUBSET visible : ~IsNextBatch(S)
    /\ UNCHANGED vars

\* The handler ran on the whole batch, exhausted messages included; whatever
\* is not in ok either failed or was not reported.
Handle(w) ==
    /\ run[w].phase = "handle"
    /\ \E ok \in SUBSET Msgs(run[w].batch) :
        /\ handled' = handled \cup ok
        /\ GoTo(w, IF ToDeadLetter(run[w].batch, ok) # {} THEN "bury"
                   ELSE IF ok # {} THEN "ack" ELSE "idle",
                run[w].batch, ok)
    /\ UNCHANGED <<queueVars, deadLetter, admin, faults, lapsed>>

\* What worker w is about to dead-letter.
Burying(w) == ToDeadLetter(run[w].batch, run[w].ok)

\* insert_dead_letter_batch.
InsertDeadLetters(w) ==
    /\ run[w].phase = "bury"
    /\ deadLetter' = [r \in DOMAIN deadLetter \cup Burying(w) |->
                        IF r \in Burying(w) THEN "PENDING" ELSE deadLetter[r]]
    /\ GoTo(w, "purge", run[w].batch, run[w].ok)
    /\ UNCHANGED <<queueVars, handled, admin, faults, lapsed>>

\* The insertion failed: the error is logged and run_once carries on.
InsertDeadLettersFails(w) ==
    /\ run[w].phase = "bury"
    /\ faults < MaxFaults
    /\ faults' = faults + 1
    /\ lapsed' = lapsed \cup {jobOf[r.msg] : r \in Burying(w)}
    /\ GoTo(w, "purge", run[w].batch, run[w].ok)
    /\ UNCHANGED <<queueVars, handled, deadLetter, admin>>

\* pgmq_delete of the dead-lettered messages.
DeleteDeadLettered(w) ==
    /\ run[w].phase = "purge"
    /\ Remove(Msgs(Burying(w)))
    /\ GoTo(w, IF run[w].ok # {} THEN "ack" ELSE "idle",
            run[w].batch, run[w].ok)
    /\ UNCHANGED <<handled, deadLetter, admin, faults, lapsed>>

\* pgmq_delete or pgmq_archive of the messages that succeeded: either way the
\* rows leave the queue.
Ack(w) ==
    /\ run[w].phase = "ack"
    /\ Remove(run[w].ok)
    /\ GoTo(w, "idle", {}, {})
    /\ UNCHANGED <<handled, deadLetter, admin, faults, lapsed>>

\* The worker stops short: the handler returned an error for the batch as a
\* whole, a delete or an archive failed, or the process died.  The loop starts
\* over with the next read.
GiveUp(w) ==
    /\ run[w].phase # "idle"
    /\ faults < MaxFaults
    /\ faults' = faults + 1
    /\ GoTo(w, "idle", {}, {})
    /\ UNCHANGED <<queueVars, handled, deadLetter, admin, lapsed>>

-----------------------------------------------------------------------------
(* The dead letter service, one action per call it awaits.                 *)

Pending(R) == {r \in R \cap DOMAIN deadLetter : deadLetter[r] = "PENDING"}

SetStatus(R, s) ==
    deadLetter' = [r \in DOMAIN deadLetter |->
                        IF r \in R THEN s ELSE deadLetter[r]]

NextCall(a, op, R) ==
    admin' = [admin EXCEPT ![a] = [op |-> op, targets |-> R]]

\* Mutant: the dead letter is marked before its copy is sent.
RequeueCheckMarks(a, r) ==
    /\ admin[a].op = "none"
    /\ r \in Pending({r})
    /\ SetStatus({r}, "REQUEUED")
    /\ NextCall(a, "send", {r})
    /\ UNCHANGED <<queueVars, workerVars, faults, lapsed>>

\* requeue_dead_letter: find_by_id, and the status check on what it returned.
RequeueCheck(a, r) ==
    /\ admin[a].op = "none"
    /\ r \in Pending({r})
    /\ NextCall(a, "send", {r})
    /\ UNCHANGED <<queueVars, workerVars, deadLetter, faults, lapsed>>

\* ... send_batch of a copy of the message ...
RequeueSend(a) ==
    /\ admin[a].op = "send"
    /\ \E r \in admin[a].targets : SendMessage(jobOf[r.msg])
    /\ NextCall(a, "mark", admin[a].targets)
    /\ UNCHANGED <<workerVars, deadLetter, faults, lapsed>>

\* ... and update_status, whatever the status has become.
RequeueMark(a) ==
    /\ admin[a].op = "mark"
    /\ SetStatus(admin[a].targets, "REQUEUED")
    /\ NextCall(a, "none", {})
    /\ UNCHANGED <<queueVars, workerVars, faults, lapsed>>

\* discard_dead_letter: find_by_id with its check, then update_status.
DiscardCheck(a, r) ==
    /\ admin[a].op = "none"
    /\ r \in Pending({r})
    /\ NextCall(a, "discard", {r})
    /\ UNCHANGED <<queueVars, workerVars, deadLetter, faults, lapsed>>

DiscardMark(a) ==
    /\ admin[a].op = "discard"
    /\ SetStatus(admin[a].targets, "DISCARDED")
    /\ NextCall(a, "none", {})
    /\ UNCHANGED <<queueVars, workerVars, faults, lapsed>>

\* batch_requeue_dead_letters: one UPDATE takes the ids that are still pending.
BatchRequeueMark(a, R) ==
    /\ admin[a].op = "none"
    /\ Pending(R) # {}
    /\ SetStatus(Pending(R), "REQUEUED")
    /\ NextCall(a, "batch", Pending(R))
    /\ UNCHANGED <<queueVars, workerVars, faults, lapsed>>

\* What the batch still has to send once r is dealt with.
BatchNext(a, r) ==
    LET rest == admin[a].targets \ {r} IN
    NextCall(a, IF rest = {} THEN "none" ELSE "batch", rest)

\* Then each row that was updated is sent again ...
BatchRequeueSend(a, r) ==
    /\ admin[a].op = "batch"
    /\ r \in admin[a].targets
    /\ SendMessage(jobOf[r.msg])
    /\ BatchNext(a, r)
    /\ UNCHANGED <<workerVars, deadLetter, faults, lapsed>>

\* ... an error of one of them is logged and the loop goes on.
BatchRequeueSendFails(a, r) ==
    /\ admin[a].op = "batch"
    /\ r \in admin[a].targets
    /\ faults < MaxFaults
    /\ faults' = faults + 1
    /\ lapsed' = lapsed \cup {jobOf[r.msg]}
    /\ BatchNext(a, r)
    /\ UNCHANGED <<queueVars, workerVars, deadLetter>>

\* batch_discard_dead_letters is a single UPDATE.
BatchDiscard(a, R) ==
    /\ admin[a].op = "none"
    /\ Pending(R) # {}
    /\ SetStatus(Pending(R), "DISCARDED")
    /\ UNCHANGED <<queueVars, workerVars, admin, faults, lapsed>>

\* A request ends half way: its next call fails or the server stops.  Rows a
\* batch has marked and not sent are never sent.
AdminAbort(a) ==
    /\ admin[a].op # "none"
    /\ faults < MaxFaults
    /\ faults' = faults + 1
    /\ lapsed' = IF admin[a].op = "batch"
                 THEN lapsed \cup {jobOf[r.msg] : r \in admin[a].targets}
                 ELSE lapsed
    /\ NextCall(a, "none", {})
    /\ UNCHANGED <<queueVars, workerVars, deadLetter>>

-----------------------------------------------------------------------------

WorkerStep(w) ==
    \/ PgmqRead(w) \/ PgmqReadEmpty(w) \/ Handle(w)
    \/ InsertDeadLetters(w) \/ InsertDeadLettersFails(w)
    \/ DeleteDeadLettered(w) \/ Ack(w) \/ GiveUp(w)

AdminStep(a) ==
    \/ \E r \in DOMAIN deadLetter :
        \/ RequeueCheck(a, r) \/ DiscardCheck(a, r)
        \/ BatchRequeueSend(a, r) \/ BatchRequeueSendFails(a, r)
    \/ \E R \in SUBSET DOMAIN deadLetter :
        BatchRequeueMark(a, R) \/ BatchDiscard(a, R)
    \/ RequeueSend(a) \/ RequeueMark(a) \/ DiscardMark(a) \/ AdminAbort(a)

Next ==
    \/ \E j \in Jobs : Enqueue(j)
    \/ \E m \in MsgIds : VtExpire(m)
    \/ \E w \in Workers : WorkerStep(w)
    \/ \E a \in Admins : AdminStep(a)

\* The worker loop never ends, so an idle worker reads again and a call that
\* was started returns; timeouts elapse.  Faults and operators owe nothing.
WorkerProgress(w) ==
    PgmqRead(w) \/ Handle(w) \/ InsertDeadLetters(w)
    \/ DeleteDeadLettered(w) \/ Ack(w)

Fairness ==
    /\ \A w \in Workers : WF_vars(WorkerProgress(w))
    /\ \A m \in MsgIds : WF_vars(VtExpire(m))

Spec == Init /\ [][Next]_vars

FairSpec == Spec /\ Fairness

-----------------------------------------------------------------------------
(* Properties.                                                             *)

\* Every variable has its type, and the visible messages are in the queue.
TypeOK ==
    /\ lastId \in 0 .. MaxMsgId
    /\ jobOf \in [MsgIds -> Jobs \cup {NoJob}]
    /\ queue \subseteq 1 .. lastId
    /\ visible \subseteq queue
    /\ readCt \in [MsgIds -> Nat]
    /\ run \in [Workers -> [phase : Phases, batch : SUBSET Receipt,
                            ok : SUBSET MsgIds]]
    /\ DOMAIN deadLetter \subseteq Receipt
    /\ deadLetter \in [DOMAIN deadLetter -> DeadStatus]
    /\ admin \in [Admins -> [op : AdminOps, targets : SUBSET Receipt]]
    /\ faults \in 0 .. MaxFaults
    /\ handled \subseteq MsgIds
    /\ latest \in [Jobs -> 0 .. lastId]
    /\ lapsed \subseteq Jobs \cup {NoJob}

\* What became of a message that was sent: it is in the queue, a handler
\* succeeded on it, or there is a dead letter for it.
MessageAccounted(m) ==
    \/ m \in queue
    \/ m \in handled
    \/ \E r \in DOMAIN deadLetter : r.msg = m

\* A batch request has this dead letter in hand and will send it.
InHand(r) == \E a \in Admins : admin[a].op = "batch" /\ r \in admin[a].targets

\* The job is somewhere: a message of it is queued or was handled, or a dead
\* letter of it is pending, was discarded by an operator or is being sent.
Accounted(j) ==
    \/ \E m \in MsgIds : jobOf[m] = j /\ (m \in queue \/ m \in handled)
    \/ \E r \in DOMAIN deadLetter :
        /\ jobOf[r.msg] = j
        /\ deadLetter[r] \in {"PENDING", "DISCARDED"} \/ InHand(r)

\* No enqueued job vanishes, through any interleaving of workers, expired
\* visibility timeouts, crashes, failed calls and operators: the only ways to
\* lose one are the two errors the code logs and ignores, a dead letter that
\* could not be inserted (processor.rs) and a row a batch requeue has marked
\* and could not send (dead_letter.rs).
JobsAccounted ==
    \A j \in Jobs : latest[j] # 0 => Accounted(j) \/ j \in lapsed

\* The same without that exception: a message that keeps failing is dead-
\* lettered, as webhook_in.rs says of its own messages.
NoJobLost == \A j \in Jobs : latest[j] # 0 => Accounted(j)

\* A read of a message belongs to one worker: two workers may hold the same
\* message once its visibility timeout has elapsed, never the same read_ct of
\* it, so no attempt is dead-lettered by two workers.
AttemptsExclusive ==
    \A v, w \in Workers : v # w => run[v].batch \cap run[w].batch = {}

\* Every message eventually leaves the queue, acknowledged or dead-lettered,
\* when faults are finitely many: a message cannot circulate forever between
\* workers whose visibility timeouts expire.
QueueDrains == \A m \in MsgIds : m \in queue ~> m \notin queue

-----------------------------------------------------------------------------
(* Why jobs stay accounted for: the inductive invariant.                   *)

\* Ids are handed out in order, each to one job, and everything that names a
\* message names one that was sent.
IdsAssigned ==
    /\ \A m \in MsgIds : jobOf[m] \in Jobs <=> m <= lastId
    /\ \A j \in Jobs : latest[j] # 0 => jobOf[latest[j]] = j
    /\ \A w \in Workers : \A r \in run[w].batch : r.msg <= lastId
    /\ \A r \in DOMAIN deadLetter : r.msg <= lastId
    /\ \A a \in Admins : admin[a].targets \subseteq DOMAIN deadLetter

\* A worker acknowledges only what a handler succeeded on, and when it deletes
\* exhausted messages their dead letters exist unless the insertion failed.
RunsSound ==
    \A w \in Workers :
        /\ run[w].ok \subseteq handled
        /\ run[w].phase = "purge" =>
            \A r \in Burying(w) :
                r \in DOMAIN deadLetter \/ jobOf[r.msg] \in lapsed

\* No message is lost, but for the logged errors.
MessagesAccounted ==
    \A m \in 1 .. lastId : MessageAccounted(m) \/ jobOf[m] \in lapsed

\* A dead letter marked as requeued has a successor: its message is not the
\* newest of its job, unless a batch request has yet to send that successor.
\* A single requeue is about one dead letter, and has sent it when it is
\* about to mark it.
RequeuesSound ==
    /\ \A r \in DOMAIN deadLetter :
        deadLetter[r] = "REQUEUED" =>
            \/ r.msg # latest[jobOf[r.msg]]
            \/ InHand(r)
            \/ jobOf[r.msg] \in lapsed
    /\ \A a \in Admins :
        admin[a].op = "mark" =>
            \A r \in admin[a].targets : r.msg # latest[jobOf[r.msg]]
    /\ \A a \in Admins :
        admin[a].op = "send" => \A r, s \in admin[a].targets : r = s

QueueInv ==
    /\ TypeOK
    /\ IdsAssigned
    /\ RunsSound
    /\ MessagesAccounted
    /\ RequeuesSound

\* Receipts are read counts that have been reached, and no two workers hold
\* the same one.
AttemptsInv ==
    /\ \A w \in Workers : \A r \in run[w].batch : r.ct <= readCt[r.msg]
    /\ AttemptsExclusive

-----------------------------------------------------------------------------
(* What the queue is for: JobDelivery, under this refinement mapping.      *)

\* Jobs with a message in the queue, with one a handler succeeded on, and with
\* a dead letter that is pending, discarded or about to be sent again.
WaitingJobs == {j \in Jobs : \E m \in queue : jobOf[m] = j}
FinishedJobs == {j \in Jobs : \E m \in handled : jobOf[m] = j}
Shelf == {r \in DOMAIN deadLetter : deadLetter[r] \in {"PENDING", "DISCARDED"} \/ InHand(r)}
ShelvedJobs == {j \in Jobs : \E r \in Shelf : jobOf[r.msg] = j}

Delivery == INSTANCE JobDelivery WITH
    waiting <- WaitingJobs, finished <- FinishedJobs,
    shelved <- ShelvedJobs, lost <- lapsed

\* Workers, timeouts, faults and operators together implement at-least-once
\* delivery: no step of any of them takes a job out of the queue before it was
\* processed or dead-lettered, takes it off the dead letters before it is back
\* in the queue, or processes what was never enqueued.
DeliversJobs == Delivery!DeliverySpec

=============================================================================
