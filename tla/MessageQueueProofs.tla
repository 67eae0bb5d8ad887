------------------------- MODULE MessageQueueProofs -------------------------
(***************************************************************************)
(* What holds of a queue for any number of jobs, messages, workers and     *)
(* operators: its variables keep their types, jobs stay accounted for, and *)
(* attempts are exclusive.                                                 *)
(***************************************************************************)
EXTENDS MessageQueue, TLAPS

-----------------------------------------------------------------------------
(* Type correctness.                                                       *)

\* Sending a message keeps the types, whoever sends it.
LEMMA SendType ==
    ASSUME TypeOK, NEW j \in Jobs \cup {NoJob}, SendMessage(j)
    PROVE  /\ lastId' \in 0 .. MaxMsgId
           /\ jobOf' \in [MsgIds -> Jobs \cup {NoJob}]
           /\ queue' \subseteq 1 .. lastId'
           /\ visible' \subseteq queue'
           /\ readCt' \in [MsgIds -> Nat]
           /\ latest' \in [Jobs -> 0 .. lastId']
<1>1. lastId \in Nat /\ lastId + 1 \in MsgIds /\ lastId' = lastId + 1
  BY QueueAssumption DEF TypeOK, SendMessage, MsgIds
<1>2. /\ queue' \subseteq 1 .. lastId'
      /\ visible' \subseteq queue'
  <2>1. queue' = queue \cup {lastId + 1} /\ visible' = visible \cup {lastId + 1}
    BY DEF SendMessage
  <2>2. queue \subseteq 1 .. lastId /\ visible \subseteq queue
    BY DEF TypeOK
  <2>3. 1 .. lastId \subseteq 1 .. lastId' /\ lastId + 1 \in 1 .. lastId'
    BY <1>1
  <2> QED BY <2>1, <2>2, <2>3
<1>3. latest' \in [Jobs -> 0 .. lastId']
  <2>1. 0 .. lastId \subseteq 0 .. lastId' /\ lastId + 1 \in 0 .. lastId'
    BY <1>1
  <2>2. latest' = [latest EXCEPT ![j] = lastId + 1]
    BY DEF SendMessage
  <2> QED BY <2>1, <2>2 DEF TypeOK
<1> QED BY <1>1, <1>2, <1>3, QueueAssumption DEF TypeOK, SendMessage, MsgIds

\* Giving a dead letter a status keeps the type of the table.
LEMMA SetStatusType ==
    ASSUME TypeOK, NEW R, NEW s \in DeadStatus, SetStatus(R, s)
    PROVE  /\ DOMAIN deadLetter' = DOMAIN deadLetter
           /\ deadLetter' \in [DOMAIN deadLetter' -> DeadStatus]
  BY DEF TypeOK, SetStatus

\* Every step of run_once keeps the types.
LEMMA WorkerType ==
    ASSUME TypeOK, NEW w \in Workers, WorkerStep(w)
    PROVE  TypeOK'
<1> USE DEF queueVars, workerVars
<1>1. CASE PgmqRead(w)
  <2>1. PICK S \in SUBSET visible :
            /\ visible' = visible \ S
            /\ readCt' = [m \in MsgIds |-> IF m \in S THEN readCt[m] + 1
                                                      ELSE readCt[m]]
            /\ GoTo(w, "handle", {[msg |-> m, ct |-> readCt[m] + 1] : m \in S}, {})
    BY <1>1 DEF PgmqRead
  <2>2. {[msg |-> m, ct |-> readCt[m] + 1] : m \in S} \in SUBSET Receipt
    BY <2>1, QueueAssumption DEF TypeOK, Receipt, MsgIds
  <2>3. run' \in [Workers -> [phase : Phases, batch : SUBSET Receipt,
                              ok : SUBSET MsgIds]]
    BY <2>1, <2>2 DEF GoTo, Idle, Phases, TypeOK
  <2>4. readCt' \in [MsgIds -> Nat]
    BY <2>1 DEF TypeOK
  <2> QED BY <1>1, <2>1, <2>3, <2>4 DEF PgmqRead, TypeOK
<1>2. CASE PgmqReadEmpty(w)
  BY <1>2 DEF PgmqReadEmpty, vars, TypeOK
<1>3. CASE Handle(w)
  <2>1. PICK ok \in SUBSET Msgs(run[w].batch) :
            /\ handled' = handled \cup ok
            /\ GoTo(w, IF ToDeadLetter(run[w].batch, ok) # {} THEN "bury"
                       ELSE IF ok # {} THEN "ack" ELSE "idle",
                    run[w].batch, ok)
    BY <1>3 DEF Handle
  <2>2. run[w].batch \in SUBSET Receipt /\ ok \in SUBSET MsgIds
    BY <2>1 DEF TypeOK, Msgs, Receipt
  <2>3. run' \in [Workers -> [phase : Phases, batch : SUBSET Receipt,
                              ok : SUBSET MsgIds]]
    BY <2>1, <2>2 DEF GoTo, Idle, Phases, TypeOK
  <2> QED BY <1>3, <2>1, <2>2, <2>3 DEF Handle, TypeOK
<1>4. CASE InsertDeadLetters(w)
  <2>1. run' \in [Workers -> [phase : Phases, batch : SUBSET Receipt,
                              ok : SUBSET MsgIds]]
    BY <1>4 DEF InsertDeadLetters, GoTo, Idle, Phases, TypeOK
  <2>2. Burying(w) \subseteq Receipt
    BY DEF Burying, ToDeadLetter, Exhausted, TypeOK
  <2>3. /\ DOMAIN deadLetter' \subseteq Receipt
        /\ deadLetter' \in [DOMAIN deadLetter' -> DeadStatus]
    BY <1>4, <2>2 DEF InsertDeadLetters, TypeOK, DeadStatus
  <2> QED BY <1>4, <2>1, <2>3 DEF InsertDeadLetters, TypeOK
<1>5. CASE InsertDeadLettersFails(w)
  <2>1. run' \in [Workers -> [phase : Phases, batch : SUBSET Receipt,
                              ok : SUBSET MsgIds]]
    BY <1>5 DEF InsertDeadLettersFails, GoTo, Idle, Phases, TypeOK
  <2>2. faults' \in 0 .. MaxFaults
    BY <1>5, QueueAssumption DEF InsertDeadLettersFails, TypeOK
  <2>3. {jobOf[r.msg] : r \in Burying(w)} \subseteq Jobs \cup {NoJob}
    BY DEF Burying, ToDeadLetter, Exhausted, TypeOK, Receipt
  <2> QED BY <1>5, <2>1, <2>2, <2>3 DEF InsertDeadLettersFails, TypeOK
<1>6. CASE DeleteDeadLettered(w)
  <2>1. run' \in [Workers -> [phase : Phases, batch : SUBSET Receipt,
                              ok : SUBSET MsgIds]]
    BY <1>6 DEF DeleteDeadLettered, GoTo, Idle, Phases, TypeOK
  <2> QED BY <1>6, <2>1 DEF DeleteDeadLettered, Remove, TypeOK
<1>7. CASE Ack(w)
  <2>1. run' \in [Workers -> [phase : Phases, batch : SUBSET Receipt,
                              ok : SUBSET MsgIds]]
    BY <1>7 DEF Ack, GoTo, Idle, Phases, TypeOK
  <2> QED BY <1>7, <2>1 DEF Ack, Remove, TypeOK
<1>8. CASE GiveUp(w)
  <2>1. run' \in [Workers -> [phase : Phases, batch : SUBSET Receipt,
                              ok : SUBSET MsgIds]]
    BY <1>8 DEF GiveUp, GoTo, Idle, Phases, TypeOK
  <2>2. faults' \in 0 .. MaxFaults
    BY <1>8, QueueAssumption DEF GiveUp, TypeOK
  <2> QED BY <1>8, <2>1, <2>2 DEF GiveUp, TypeOK
<1> QED BY <1>1, <1>2, <1>3, <1>4, <1>5, <1>6, <1>7, <1>8 DEF WorkerStep

\* Every step of a dead letter request keeps the types.
LEMMA AdminType ==
    ASSUME TypeOK, NEW a \in Admins, AdminStep(a)
    PROVE  TypeOK'
<1> USE DEF queueVars, workerVars
<1>1. ASSUME NEW r \in DOMAIN deadLetter, RequeueCheck(a, r) \/ DiscardCheck(a, r)
      PROVE  TypeOK'
  <2>1. {r} \in SUBSET Receipt
    BY <1>1 DEF TypeOK
  <2>2. admin' \in [Admins -> [op : AdminOps, targets : SUBSET Receipt]]
    BY <1>1, <2>1 DEF RequeueCheck, DiscardCheck, NextCall, TypeOK, AdminOps
  <2> QED BY <1>1, <2>2 DEF RequeueCheck, DiscardCheck, TypeOK
<1>2. ASSUME NEW r \in DOMAIN deadLetter, BatchRequeueSend(a, r)
      PROVE  TypeOK'
  <2>1. jobOf[r.msg] \in Jobs \cup {NoJob}
    BY <1>2 DEF TypeOK, Receipt
  <2>2. admin' \in [Admins -> [op : AdminOps, targets : SUBSET Receipt]]
    BY <1>2 DEF BatchRequeueSend, BatchNext, NextCall, TypeOK, AdminOps
  <2>3. SendMessage(jobOf[r.msg])
    BY <1>2 DEF BatchRequeueSend
  <2> QED BY <1>2, <2>1, <2>2, <2>3, SendType DEF BatchRequeueSend, TypeOK
<1>3. ASSUME NEW r \in DOMAIN deadLetter, BatchRequeueSendFails(a, r)
      PROVE  TypeOK'
  <2>1. jobOf[r.msg] \in Jobs \cup {NoJob}
    BY <1>3 DEF TypeOK, Receipt
  <2>2. admin' \in [Admins -> [op : AdminOps, targets : SUBSET Receipt]]
    BY <1>3 DEF BatchRequeueSendFails, BatchNext, NextCall, TypeOK, AdminOps
  <2>3. faults' \in 0 .. MaxFaults
    BY <1>3, QueueAssumption DEF BatchRequeueSendFails, TypeOK
  <2> QED BY <1>3, <2>1, <2>2, <2>3 DEF BatchRequeueSendFails, TypeOK
<1>4. ASSUME NEW R \in SUBSET DOMAIN deadLetter, BatchRequeueMark(a, R)
      PROVE  TypeOK'
  <2>1. Pending(R) \in SUBSET Receipt
    BY DEF Pending, TypeOK
  <2>2. admin' \in [Admins -> [op : AdminOps, targets : SUBSET Receipt]]
    BY <1>4, <2>1 DEF BatchRequeueMark, NextCall, TypeOK, AdminOps
  <2>3. SetStatus(Pending(R), "REQUEUED")
    BY <1>4 DEF BatchRequeueMark
  <2>4. /\ DOMAIN deadLetter' = DOMAIN deadLetter
        /\ deadLetter' \in [DOMAIN deadLetter' -> DeadStatus]
    BY <2>3, SetStatusType DEF DeadStatus
  <2> QED BY <1>4, <2>2, <2>4 DEF BatchRequeueMark, TypeOK
<1>5. ASSUME NEW R \in SUBSET DOMAIN deadLetter, BatchDiscard(a, R)
      PROVE  TypeOK'
  <2>1. SetStatus(Pending(R), "DISCARDED")
    BY <1>5 DEF BatchDiscard
  <2>2. /\ DOMAIN deadLetter' = DOMAIN deadLetter
        /\ deadLetter' \in [DOMAIN deadLetter' -> DeadStatus]
    BY <2>1, SetStatusType DEF DeadStatus
  <2> QED BY <1>5, <2>2 DEF BatchDiscard, TypeOK
<1>6. CASE RequeueSend(a)
  <2>1. PICK r \in admin[a].targets : SendMessage(jobOf[r.msg])
    BY <1>6 DEF RequeueSend
  <2>2. jobOf[r.msg] \in Jobs \cup {NoJob}
    BY <2>1 DEF TypeOK, Receipt
  <2>3. admin' \in [Admins -> [op : AdminOps, targets : SUBSET Receipt]]
    BY <1>6 DEF RequeueSend, NextCall, TypeOK, AdminOps
  <2> QED BY <1>6, <2>1, <2>2, <2>3, SendType DEF RequeueSend, TypeOK
<1>7. CASE RequeueMark(a) \/ DiscardMark(a)
  <2>1. PICK s \in {"REQUEUED", "DISCARDED"} : SetStatus(admin[a].targets, s)
    BY <1>7 DEF RequeueMark, DiscardMark
  <2>2. s \in DeadStatus
    BY <2>1 DEF DeadStatus
  <2>3. /\ DOMAIN deadLetter' = DOMAIN deadLetter
        /\ deadLetter' \in [DOMAIN deadLetter' -> DeadStatus]
    BY <2>1, <2>2, SetStatusType
  <2>4. admin' \in [Admins -> [op : AdminOps, targets : SUBSET Receipt]]
    BY <1>7 DEF RequeueMark, DiscardMark, NextCall, TypeOK, AdminOps
  <2> QED BY <1>7, <2>3, <2>4 DEF RequeueMark, DiscardMark, TypeOK
<1>8. CASE AdminAbort(a)
  <2>1. {jobOf[r.msg] : r \in admin[a].targets} \subseteq Jobs \cup {NoJob}
    BY DEF TypeOK, Receipt
  <2>2. admin' \in [Admins -> [op : AdminOps, targets : SUBSET Receipt]]
    BY <1>8 DEF AdminAbort, NextCall, TypeOK, AdminOps
  <2>3. faults' \in 0 .. MaxFaults
    BY <1>8, QueueAssumption DEF AdminAbort, TypeOK
  <2> QED BY <1>8, <2>1, <2>2, <2>3 DEF AdminAbort, TypeOK
<1> QED BY <1>1, <1>2, <1>3, <1>4, <1>5, <1>6, <1>7, <1>8 DEF AdminStep

\* The empty queue has the types.
LEMMA TypeInit == Init => TypeOK
  BY QueueAssumption
  DEF Init, TypeOK, Idle, Phases, AdminOps, DeadStatus, MsgIds, Receipt

\* Every step keeps the types.
LEMMA TypeStep == TypeOK /\ [Next]_vars => TypeOK'
<1> SUFFICES ASSUME TypeOK, [Next]_vars PROVE TypeOK'
  OBVIOUS
<1> USE DEF queueVars, workerVars
<1>1. ASSUME NEW j \in Jobs, Enqueue(j) PROVE TypeOK'
  <2>1. SendMessage(j)
    BY <1>1 DEF Enqueue
  <2> QED BY <1>1, <2>1, SendType DEF Enqueue, TypeOK
<1>2. ASSUME NEW m \in MsgIds, VtExpire(m) PROVE TypeOK'
  BY <1>2 DEF VtExpire, TypeOK
<1>3. ASSUME NEW w \in Workers, WorkerStep(w) PROVE TypeOK'
  BY <1>3, WorkerType
<1>4. ASSUME NEW a \in Admins, AdminStep(a) PROVE TypeOK'
  BY <1>4, AdminType
<1>5. CASE UNCHANGED vars
  BY <1>5 DEF vars, TypeOK
<1> QED BY <1>1, <1>2, <1>3, <1>4, <1>5 DEF Next

\* For any constants the variables keep their types: batches hold receipts of
\* messages the queue knows, and what can be read is what has not been removed.
THEOREM TypeCorrect == Spec => []TypeOK
  BY TypeInit, TypeStep, PTL DEF Spec

-----------------------------------------------------------------------------
(* Jobs stay accounted for.                                                *)

\* The empty queue satisfies the invariant.
LEMMA InvInit == Init => QueueInv
<1> SUFFICES ASSUME Init PROVE QueueInv
  OBVIOUS
<1>1. TypeOK
  BY TypeInit
<1>2. IdsAssigned
  BY QueueAssumption DEF Init, IdsAssigned, Idle, MsgIds
<1>3. RunsSound
  BY DEF Init, RunsSound, Idle
<1>4. MessagesAccounted
  BY DEF Init, MessagesAccounted
<1>5. RequeuesSound
  BY DEF Init, RequeuesSound
<1> QED BY <1>1, <1>2, <1>3, <1>4, <1>5 DEF QueueInv

\* The message a dead letter, a receipt in a batch or a request names was sent.
LEMMA NamedMessages ==
    ASSUME QueueInv
    PROVE  /\ \A r \in DOMAIN deadLetter :
                r.msg \in 1 .. lastId /\ r.msg \in MsgIds /\ jobOf[r.msg] \in Jobs
           /\ \A w \in Workers : \A r \in run[w].batch :
                r.msg \in 1 .. lastId /\ r.msg \in MsgIds /\ jobOf[r.msg] \in Jobs
  BY DEF QueueInv, TypeOK, IdsAssigned, Receipt, MsgIds

\* Sending a message for a job keeps the ids in order and everything that was
\* accounted for; it gives no dead letter's message back the newest place.
LEMMA SendKeeps ==
    ASSUME QueueInv, NEW j \in Jobs, SendMessage(j),
           UNCHANGED <<run, deadLetter, handled, lapsed>>,
           \A a \in Admins : admin'[a].targets \subseteq DOMAIN deadLetter
    PROVE  /\ IdsAssigned'
           /\ RunsSound'
           /\ MessagesAccounted'
           /\ \A r \in DOMAIN deadLetter :
                /\ jobOf'[r.msg] = jobOf[r.msg]
                /\ \/ latest'[jobOf'[r.msg]] = latest[jobOf[r.msg]]
                   \/ latest'[jobOf'[r.msg]] # r.msg
                /\ jobOf[r.msg] = j => latest'[jobOf'[r.msg]] # r.msg
<1> DEFINE n == lastId + 1
<1>1. /\ lastId \in Nat /\ n \in MsgIds /\ lastId' = n
      /\ n \notin 1 .. lastId /\ jobOf \in [MsgIds -> Jobs \cup {NoJob}]
  BY QueueAssumption DEF QueueInv, TypeOK, SendMessage, MsgIds
<1>2. /\ jobOf' = [jobOf EXCEPT ![n] = j]
      /\ latest' = [latest EXCEPT ![j] = n]
      /\ latest \in [Jobs -> 0 .. lastId]
      /\ queue' = queue \cup {n}
  BY DEF SendMessage, QueueInv, TypeOK
<1>3. \A m \in 1 .. lastId : m # n /\ m \in MsgIds /\ jobOf'[m] = jobOf[m]
  BY <1>1, <1>2, QueueAssumption DEF MsgIds
<1>4. IdsAssigned'
  <2>1. \A m \in MsgIds : jobOf'[m] \in Jobs <=> m <= lastId'
    BY <1>1, <1>2 DEF QueueInv, IdsAssigned, MsgIds
  <2>2. \A k \in Jobs : latest'[k] # 0 => jobOf'[latest'[k]] = k
    BY <1>1, <1>2, <1>3 DEF QueueInv, IdsAssigned
  <2>3. \A w \in Workers : \A r \in run'[w].batch : r.msg <= lastId'
    BY <1>1, NamedMessages
  <2>4. \A r \in DOMAIN deadLetter' : r.msg <= lastId'
    BY <1>1, NamedMessages
  <2> QED BY <2>1, <2>2, <2>3, <2>4 DEF IdsAssigned
<1>5. RunsSound'
  <2>1. \A w \in Workers : \A r \in run[w].batch : jobOf'[r.msg] = jobOf[r.msg]
    BY <1>3, NamedMessages
  <2> QED
    BY <2>1 DEF QueueInv, RunsSound, Burying, ToDeadLetter, Exhausted
<1>6. MessagesAccounted'
  <2> SUFFICES ASSUME NEW m \in 1 .. lastId'
               PROVE  MessageAccounted(m)' \/ jobOf'[m] \in lapsed'
    BY DEF MessagesAccounted
  <2>1. CASE m = n
    BY <2>1, <1>2 DEF MessageAccounted
  <2>2. CASE m # n
    <3>1. m \in 1 .. lastId
      BY <2>2, <1>1
    <3> QED BY <3>1, <1>2, <1>3 DEF QueueInv, MessagesAccounted, MessageAccounted
  <2> QED BY <2>1, <2>2
<1>7. ASSUME NEW r \in DOMAIN deadLetter
      PROVE  /\ jobOf'[r.msg] = jobOf[r.msg]
             /\ \/ latest'[jobOf'[r.msg]] = latest[jobOf[r.msg]]
                \/ latest'[jobOf'[r.msg]] # r.msg
             /\ jobOf[r.msg] = j => latest'[jobOf'[r.msg]] # r.msg
  <2>1. r.msg \in 1 .. lastId /\ jobOf[r.msg] \in Jobs
    BY NamedMessages
  <2> QED BY <2>1, <1>2, <1>3
<1> QED BY <1>4, <1>5, <1>6, <1>7

\* A worker's step keeps the invariant.
LEMMA WorkerKeeps ==
    ASSUME QueueInv, NEW w \in Workers, WorkerStep(w)
    PROVE  QueueInv'
<1> USE DEF queueVars, workerVars
<1>1. TypeOK'
  BY WorkerType DEF QueueInv
<1>2. admin' = admin /\ jobOf' = jobOf /\ lastId' = lastId /\ latest' = latest
  BY DEF WorkerStep, PgmqRead, PgmqReadEmpty, Handle, InsertDeadLetters,
         InsertDeadLettersFails, DeleteDeadLettered, Ack, GiveUp, Remove, vars
<1>3. handled \subseteq handled' /\ lapsed \subseteq lapsed'
  BY DEF WorkerStep, PgmqRead, PgmqReadEmpty, Handle, InsertDeadLetters,
         InsertDeadLettersFails, DeleteDeadLettered, Ack, GiveUp, vars
<1>4. /\ DOMAIN deadLetter' = DOMAIN deadLetter \cup (DOMAIN deadLetter' \cap run[w].batch)
      /\ \A r \in DOMAIN deadLetter' :
            deadLetter'[r] = "REQUEUED" =>
                r \in DOMAIN deadLetter /\ deadLetter[r] = "REQUEUED"
  <2>1. CASE InsertDeadLetters(w)
    BY <2>1 DEF InsertDeadLetters, Burying, ToDeadLetter, Exhausted
  <2>2. CASE ~InsertDeadLetters(w)
    BY <2>2 DEF WorkerStep, PgmqRead, PgmqReadEmpty, Handle,
                InsertDeadLettersFails, DeleteDeadLettered, Ack, GiveUp, vars
  <2> QED BY <2>1, <2>2
<1>5. \A v \in Workers : \A r \in run'[v].batch : r.msg <= lastId
  <2>1. CASE PgmqRead(w)
    <3>1. PICK S \in SUBSET visible :
            GoTo(w, "handle", {[msg |-> m, ct |-> readCt[m] + 1] : m \in S}, {})
      BY <2>1 DEF PgmqRead
    <3>2. \A m \in S : m <= lastId
      BY QueueAssumption DEF QueueInv, TypeOK
    <3>3. run \in [Workers -> [phase : Phases, batch : SUBSET Receipt, ok : SUBSET MsgIds]]
      BY DEF QueueInv, TypeOK
    <3> QED BY <3>1, <3>2, <3>3 DEF GoTo, Idle, QueueInv, IdsAssigned
  <2>2. CASE ~PgmqRead(w)
    <3>1. \A v \in Workers : run'[v].batch \subseteq run[v].batch
      BY <2>2 DEF WorkerStep, PgmqReadEmpty, Handle, InsertDeadLetters,
            InsertDeadLettersFails, DeleteDeadLettered, Ack, GiveUp, vars,
            GoTo, Idle, QueueInv, TypeOK
    <3> QED BY <3>1 DEF QueueInv, IdsAssigned
  <2> QED BY <2>1, <2>2
<1>6. IdsAssigned'
  <2>1. \A r \in DOMAIN deadLetter' : r.msg <= lastId
    BY <1>4, NamedMessages DEF QueueInv, IdsAssigned
  <2> QED BY <1>2, <1>4, <1>5, <2>1 DEF QueueInv, IdsAssigned
<1>7. RequeuesSound'
  BY <1>2, <1>3, <1>4 DEF QueueInv, RequeuesSound, InHand
<1>8. RunsSound'
  <2>1. ASSUME NEW v \in Workers, v # w
        PROVE  /\ run'[v].ok \subseteq handled'
               /\ run'[v].phase = "purge" =>
                    \A r \in Burying(v)' :
                        r \in DOMAIN deadLetter' \/ jobOf'[r.msg] \in lapsed'
    <3>1. run'[v] = run[v]
      BY <2>1 DEF WorkerStep, PgmqRead, PgmqReadEmpty, Handle, InsertDeadLetters,
            InsertDeadLettersFails, DeleteDeadLettered, Ack, GiveUp, vars,
            GoTo, QueueInv, TypeOK
    <3>2. Burying(v)' = Burying(v)
      BY <3>1 DEF Burying, ToDeadLetter, Exhausted
    <3>3. DOMAIN deadLetter \subseteq DOMAIN deadLetter'
      BY <1>4
    <3> QED BY <1>2, <1>3, <3>1, <3>2, <3>3 DEF QueueInv, RunsSound
  <2>2. run'[w].ok \subseteq handled'
    BY <1>3 DEF WorkerStep, PgmqRead, PgmqReadEmpty, Handle, InsertDeadLetters,
            InsertDeadLettersFails, DeleteDeadLettered, Ack, GiveUp, vars,
            GoTo, Idle, QueueInv, TypeOK, RunsSound
  <2>3. run'[w].phase = "purge" =>
            \A r \in Burying(w)' :
                r \in DOMAIN deadLetter' \/ jobOf'[r.msg] \in lapsed'
    <3>1. CASE InsertDeadLetters(w)
      <4>1. Burying(w)' = Burying(w)
        BY <3>1 DEF InsertDeadLetters, GoTo, QueueInv, TypeOK, Burying,
              ToDeadLetter, Exhausted
      <4> QED BY <3>1, <4>1 DEF InsertDeadLetters
    <3>2. CASE InsertDeadLettersFails(w)
      <4>1. Burying(w)' = Burying(w)
        BY <3>2 DEF InsertDeadLettersFails, GoTo, QueueInv, TypeOK, Burying,
              ToDeadLetter, Exhausted
      <4> QED BY <3>2, <4>1 DEF InsertDeadLettersFails
    <3>3. CASE PgmqReadEmpty(w)
      BY <3>3 DEF PgmqReadEmpty, vars, QueueInv, RunsSound, Burying,
            ToDeadLetter, Exhausted
    <3>4. CASE PgmqRead(w) \/ Handle(w) \/ DeleteDeadLettered(w) \/ Ack(w) \/ GiveUp(w)
      <4>1. run'[w].phase # "purge"
        BY <3>4 DEF PgmqRead, Handle, DeleteDeadLettered, Ack, GiveUp, GoTo,
              Idle, QueueInv, TypeOK
      <4> QED BY <4>1
    <3> QED BY <3>1, <3>2, <3>3, <3>4 DEF WorkerStep
  <2> QED BY <2>1, <2>2, <2>3 DEF RunsSound
<1>9. MessagesAccounted'
  <2> SUFFICES ASSUME NEW m \in 1 .. lastId
               PROVE  MessageAccounted(m)' \/ jobOf[m] \in lapsed'
    BY <1>2 DEF MessagesAccounted
  <2>1. MessageAccounted(m) \/ jobOf[m] \in lapsed
    BY DEF QueueInv, MessagesAccounted
  <2>2. CASE DeleteDeadLettered(w) /\ m \in Msgs(Burying(w))
    <3>1. PICK r \in Burying(w) : r.msg = m
      BY <2>2 DEF Msgs
    <3>2. r \in DOMAIN deadLetter \/ jobOf[m] \in lapsed
      BY <2>2, <3>1 DEF DeleteDeadLettered, QueueInv, RunsSound
    <3> QED BY <1>3, <1>4, <3>1, <3>2 DEF MessageAccounted
  <2>3. CASE Ack(w) /\ m \in run[w].ok
    <3>1. m \in handled
      BY <2>3 DEF QueueInv, RunsSound
    <3> QED BY <1>3, <3>1 DEF MessageAccounted
  <2>4. CASE /\ ~(DeleteDeadLettered(w) /\ m \in Msgs(Burying(w)))
             /\ ~(Ack(w) /\ m \in run[w].ok)
    <3>1. m \in queue => m \in queue'
      BY <2>4 DEF WorkerStep, PgmqRead, PgmqReadEmpty, Handle, InsertDeadLetters,
            InsertDeadLettersFails, DeleteDeadLettered, Ack, GiveUp, Remove, vars
    <3> QED BY <1>3, <1>4, <2>1, <3>1 DEF MessageAccounted
  <2> QED BY <2>2, <2>3, <2>4
<1> QED BY <1>1, <1>6, <1>7, <1>8, <1>9 DEF QueueInv

\* What a step that leaves the queue and the workers alone must respect for
\* the invariant to hold after it: dead letters are kept, and a dead letter
\* becomes requeued only into a request's hands or when it has a successor.
LEMMA AdminFrame ==
    ASSUME QueueInv, TypeOK', UNCHANGED <<queueVars, workerVars>>,
           DOMAIN deadLetter' = DOMAIN deadLetter, lapsed \subseteq lapsed',
           \A a \in Admins : admin'[a].targets \subseteq DOMAIN deadLetter,
           RequeuesSound'
    PROVE  QueueInv'
<1> USE DEF queueVars, workerVars
<1>1. IdsAssigned'
  BY DEF QueueInv, IdsAssigned
<1>2. RunsSound'
  BY DEF QueueInv, RunsSound, Burying, ToDeadLetter, Exhausted
<1>3. MessagesAccounted'
  BY DEF QueueInv, MessagesAccounted, MessageAccounted
<1> QED BY <1>1, <1>2, <1>3 DEF QueueInv

\* Sending from a request: what the sent dead letter's job looks like after.
LEMMA AdminSendKeeps ==
    ASSUME QueueInv, TypeOK', NEW a \in Admins, NEW r \in DOMAIN deadLetter,
           SendMessage(jobOf[r.msg]),
           UNCHANGED <<workerVars, deadLetter, faults, lapsed>>,
           NEW op \in AdminOps, NEW R \in SUBSET DOMAIN deadLetter,
           NextCall(a, op, R),
           \A x \in admin[a].targets \ {r} :
                admin[a].op = "batch" => op = "batch" /\ x \in R,
           op = "mark" => R = {r}, op # "send"
    PROVE  QueueInv'
<1> USE DEF workerVars
<1>1. jobOf[r.msg] \in Jobs
  BY NamedMessages
<1>2. \A b \in Admins : admin'[b] = IF b = a THEN [op |-> op, targets |-> R]
                                          ELSE admin[b]
  BY DEF NextCall, QueueInv, TypeOK
<1>3. \A b \in Admins : admin'[b].targets \subseteq DOMAIN deadLetter
  BY <1>2 DEF QueueInv, IdsAssigned
<1>4. /\ IdsAssigned' /\ RunsSound' /\ MessagesAccounted'
      /\ \A x \in DOMAIN deadLetter :
            /\ jobOf'[x.msg] = jobOf[x.msg]
            /\ \/ latest'[jobOf'[x.msg]] = latest[jobOf[x.msg]]
               \/ latest'[jobOf'[x.msg]] # x.msg
            /\ jobOf[x.msg] = jobOf[r.msg] => latest'[jobOf'[x.msg]] # x.msg
  BY <1>1, <1>3, SendKeeps
<1>5. ASSUME NEW x \in DOMAIN deadLetter, deadLetter[x] = "REQUEUED"
      PROVE  \/ x.msg # latest'[jobOf'[x.msg]]
             \/ InHand(x)'
             \/ jobOf'[x.msg] \in lapsed
  <2>1. CASE x.msg # latest[jobOf[x.msg]]
    BY <2>1, <1>4
  <2>2. CASE jobOf[x.msg] \in lapsed
    BY <2>2, <1>4
  <2>3. CASE x = r
    BY <2>3, <1>4
  <2>4. CASE InHand(x) /\ x # r
    BY <2>4, <1>2 DEF InHand
  <2> QED BY <1>5, <2>1, <2>2, <2>3, <2>4 DEF QueueInv, RequeuesSound
<1>6. ASSUME NEW b \in Admins, admin'[b].op = "mark", NEW x \in admin'[b].targets
      PROVE  x.msg # latest'[jobOf'[x.msg]]
  <2>1. x \in DOMAIN deadLetter
    BY <1>3, <1>6
  <2>2. CASE b = a
    BY <2>2, <1>2, <1>4, <1>6, <2>1
  <2>3. CASE b # a
    BY <2>3, <1>2, <1>4, <1>6, <2>1 DEF QueueInv, RequeuesSound
  <2> QED BY <2>2, <2>3
<1>7. ASSUME NEW b \in Admins, admin'[b].op = "send"
      PROVE  \A x, y \in admin'[b].targets : x = y
  BY <1>2, <1>7 DEF QueueInv, RequeuesSound
<1>8. RequeuesSound'
  BY <1>5, <1>6, <1>7 DEF RequeuesSound
<1> QED BY <1>4, <1>8 DEF QueueInv

\* An operator's step keeps the invariant.
LEMMA AdminKeeps ==
    ASSUME QueueInv, NEW a \in Admins, AdminStep(a)
    PROVE  QueueInv'
<1> USE DEF queueVars, workerVars
<1>1. TypeOK'
  BY AdminType DEF QueueInv
<1>2. admin \in [Admins -> [op : AdminOps, targets : SUBSET Receipt]]
  BY DEF QueueInv, TypeOK
<1>3. \A b \in Admins : admin[b].targets \subseteq DOMAIN deadLetter
  BY DEF QueueInv, IdsAssigned
<1>4. ASSUME NEW r \in DOMAIN deadLetter, RequeueCheck(a, r) \/ DiscardCheck(a, r)
      PROVE  QueueInv'
  <2>1. admin[a].op = "none"
    BY <1>4 DEF RequeueCheck, DiscardCheck
  <2>2. PICK op \in {"send", "discard"} : NextCall(a, op, {r})
    BY <1>4 DEF RequeueCheck, DiscardCheck
  <2>3. \A b \in Admins : admin'[b] = IF b = a THEN [op |-> op, targets |-> {r}]
                                            ELSE admin[b]
    BY <1>2, <2>2 DEF NextCall
  <2>4. UNCHANGED <<queueVars, workerVars, deadLetter, faults, lapsed>>
    BY <1>4 DEF RequeueCheck, DiscardCheck
  <2>5. \A b \in Admins : admin'[b].targets \subseteq DOMAIN deadLetter
    BY <1>3, <1>4, <2>3
  <2>6. RequeuesSound'
    BY <2>1, <2>3, <2>4 DEF QueueInv, RequeuesSound, InHand
  <2> QED
    BY <1>1, <2>4, <2>5, <2>6, AdminFrame
<1>5. ASSUME NEW r \in DOMAIN deadLetter, BatchRequeueSend(a, r)
      PROVE  QueueInv'
  <2>1. PICK op \in {"none", "batch"} :
            /\ NextCall(a, op, admin[a].targets \ {r})
            /\ admin[a].targets \ {r} # {} => op = "batch"
    BY <1>5 DEF BatchRequeueSend, BatchNext
  <2>2. op \in AdminOps /\ op # "mark"
    BY <2>1 DEF AdminOps
  <2>3. admin[a].targets \ {r} \in SUBSET DOMAIN deadLetter
    BY <1>3
  <2> QED
    BY <1>1, <1>5, <2>1, <2>2, <2>3, AdminSendKeeps DEF BatchRequeueSend
<1>6. CASE RequeueSend(a)
  <2>1. PICK r \in admin[a].targets : SendMessage(jobOf[r.msg])
    BY <1>6 DEF RequeueSend
  <2>2. r \in DOMAIN deadLetter /\ admin[a].op = "send"
    BY <1>3, <1>6, <2>1 DEF RequeueSend
  <2>3. admin[a].targets = {r}
    BY <2>1, <2>2 DEF QueueInv, RequeuesSound
  <2>4. NextCall(a, "mark", {r}) /\ "mark" \in AdminOps
    BY <1>6, <2>3 DEF RequeueSend, AdminOps
  <2>5. UNCHANGED <<workerVars, deadLetter, faults, lapsed>>
    BY <1>6 DEF RequeueSend
  <2> QED
    BY <1>1, <2>1, <2>2, <2>3, <2>4, <2>5, AdminSendKeeps
<1>7. ASSUME NEW r \in DOMAIN deadLetter, BatchRequeueSendFails(a, r)
      PROVE  QueueInv'
  <2>1. PICK op \in {"none", "batch"} :
            /\ NextCall(a, op, admin[a].targets \ {r})
            /\ admin[a].targets \ {r} # {} => op = "batch"
    BY <1>7 DEF BatchRequeueSendFails, BatchNext
  <2>2. /\ admin[a].op = "batch"
        /\ lapsed' = lapsed \cup {jobOf[r.msg]}
        /\ UNCHANGED <<queueVars, workerVars, deadLetter>>
    BY <1>7 DEF BatchRequeueSendFails
  <2>3. \A b \in Admins :
            admin'[b] = IF b = a THEN [op |-> op, targets |-> admin[a].targets \ {r}]
                        ELSE admin[b]
    BY <1>2, <2>1 DEF NextCall
  <2>4. \A b \in Admins : admin'[b].targets \subseteq DOMAIN deadLetter
    BY <1>3, <2>3
  <2>5. \A x \in DOMAIN deadLetter : InHand(x) => x = r \/ InHand(x)'
    BY <2>1, <2>3 DEF InHand
  <2>6. RequeuesSound'
    BY <2>1, <2>2, <2>3, <2>5 DEF QueueInv, RequeuesSound
  <2> QED BY <1>1, <2>2, <2>4, <2>6, AdminFrame
<1>8. ASSUME NEW R \in SUBSET DOMAIN deadLetter, BatchRequeueMark(a, R)
      PROVE  QueueInv'
  <2>1. /\ admin[a].op = "none"
        /\ SetStatus(Pending(R), "REQUEUED")
        /\ NextCall(a, "batch", Pending(R))
        /\ UNCHANGED <<queueVars, workerVars, faults, lapsed>>
    BY <1>8 DEF BatchRequeueMark
  <2>2. \A b \in Admins :
            admin'[b] = IF b = a THEN [op |-> "batch", targets |-> Pending(R)]
                        ELSE admin[b]
    BY <1>2, <2>1 DEF NextCall
  <2>3. \A b \in Admins : admin'[b].targets \subseteq DOMAIN deadLetter
    <3>1. Pending(R) \subseteq DOMAIN deadLetter
      BY DEF Pending
    <3> QED BY <1>3, <2>2, <3>1
  <2>4. DOMAIN deadLetter' = DOMAIN deadLetter
    BY <2>1 DEF SetStatus
  <2>5. \A x \in DOMAIN deadLetter :
            deadLetter'[x] = "REQUEUED" =>
                deadLetter[x] = "REQUEUED" \/ x \in Pending(R)
    BY <2>1 DEF SetStatus
  <2>6. \A x \in DOMAIN deadLetter : InHand(x) \/ x \in Pending(R) => InHand(x)'
    BY <2>1, <2>2 DEF InHand
  <2>7. RequeuesSound'
    BY <2>1, <2>2, <2>4, <2>5, <2>6 DEF QueueInv, RequeuesSound
  <2> QED BY <1>1, <2>1, <2>3, <2>4, <2>7, AdminFrame
<1>9. ASSUME NEW R \in SUBSET DOMAIN deadLetter, BatchDiscard(a, R)
      PROVE  QueueInv'
  <2>1. /\ SetStatus(Pending(R), "DISCARDED")
        /\ UNCHANGED <<queueVars, workerVars, admin, faults, lapsed>>
    BY <1>9 DEF BatchDiscard
  <2>2. /\ DOMAIN deadLetter' = DOMAIN deadLetter
        /\ \A x \in DOMAIN deadLetter :
                deadLetter'[x] = "REQUEUED" => deadLetter[x] = "REQUEUED"
    BY <2>1 DEF SetStatus
  <2>3. RequeuesSound'
    BY <2>1, <2>2 DEF QueueInv, RequeuesSound, InHand
  <2> QED BY <1>1, <1>3, <2>1, <2>2, <2>3, AdminFrame
<1>10. CASE RequeueMark(a) \/ DiscardMark(a)
  <2>1. /\ admin[a].op \in {"mark", "discard"}
        /\ NextCall(a, "none", {})
        /\ UNCHANGED <<queueVars, workerVars, faults, lapsed>>
    BY <1>10 DEF RequeueMark, DiscardMark
  <2>2. PICK s \in {"REQUEUED", "DISCARDED"} :
            /\ SetStatus(admin[a].targets, s)
            /\ s = "REQUEUED" => admin[a].op = "mark"
    BY <1>10 DEF RequeueMark, DiscardMark
  <2>3. \A b \in Admins : admin'[b] = IF b = a THEN [op |-> "none", targets |-> {}]
                                            ELSE admin[b]
    BY <1>2, <2>1 DEF NextCall
  <2>4. \A b \in Admins : admin'[b].targets \subseteq DOMAIN deadLetter
    BY <1>3, <2>3
  <2>5. /\ DOMAIN deadLetter' = DOMAIN deadLetter
        /\ \A x \in DOMAIN deadLetter :
                deadLetter'[x] = "REQUEUED" =>
                    \/ deadLetter[x] = "REQUEUED"
                    \/ admin[a].op = "mark" /\ x \in admin[a].targets
    BY <2>2 DEF SetStatus
  <2>6. \A x \in DOMAIN deadLetter : InHand(x) => InHand(x)'
    BY <2>1, <2>3 DEF InHand
  <2>7. RequeuesSound'
    BY <2>1, <2>3, <2>5, <2>6 DEF QueueInv, RequeuesSound
  <2> QED BY <1>1, <2>1, <2>4, <2>5, <2>7, AdminFrame
<1>11. CASE AdminAbort(a)
  <2>1. /\ lapsed' = IF admin[a].op = "batch"
                     THEN lapsed \cup {jobOf[r.msg] : r \in admin[a].targets}
                     ELSE lapsed
        /\ NextCall(a, "none", {})
        /\ UNCHANGED <<queueVars, workerVars, deadLetter>>
    BY <1>11 DEF AdminAbort
  <2>2. \A b \in Admins : admin'[b] = IF b = a THEN [op |-> "none", targets |-> {}]
                                            ELSE admin[b]
    BY <1>2, <2>1 DEF NextCall
  <2>3. \A b \in Admins : admin'[b].targets \subseteq DOMAIN deadLetter
    BY <1>3, <2>2
  <2>4. \A x \in DOMAIN deadLetter :
            InHand(x) => InHand(x)' \/ jobOf[x.msg] \in lapsed'
    BY <2>1, <2>2 DEF InHand
  <2>5. lapsed \subseteq lapsed' /\ UNCHANGED <<latest, jobOf, deadLetter>>
    BY <2>1
  <2>6. RequeuesSound'
    <3>1. ASSUME NEW x \in DOMAIN deadLetter, deadLetter[x] = "REQUEUED"
          PROVE  x.msg # latest[jobOf[x.msg]] \/ InHand(x)' \/ jobOf[x.msg] \in lapsed'
      BY <2>4, <2>5, <3>1 DEF QueueInv, RequeuesSound
    <3> QED BY <2>2, <2>5, <3>1 DEF QueueInv, RequeuesSound
  <2> QED BY <1>1, <2>1, <2>3, <2>5, <2>6, AdminFrame
<1> QED
  BY <1>4, <1>5, <1>6, <1>7, <1>8, <1>9, <1>10, <1>11 DEF AdminStep

\* Every step keeps the invariant.
LEMMA InvStep == QueueInv /\ [Next]_vars => QueueInv'
<1> SUFFICES ASSUME QueueInv, [Next]_vars PROVE QueueInv'
  OBVIOUS
<1> USE DEF queueVars, workerVars
<1>1. TypeOK'
  BY TypeStep DEF QueueInv
<1>2. ASSUME NEW j \in Jobs, Enqueue(j) PROVE QueueInv'
  <2>1. SendMessage(j) /\ UNCHANGED <<workerVars, deadLetter, admin, faults, lapsed>>
    BY <1>2 DEF Enqueue
  <2>2. \A a \in Admins : admin'[a].targets \subseteq DOMAIN deadLetter
    BY <2>1 DEF QueueInv, IdsAssigned
  <2>3. /\ IdsAssigned' /\ RunsSound' /\ MessagesAccounted'
        /\ \A r \in DOMAIN deadLetter :
            /\ jobOf'[r.msg] = jobOf[r.msg]
            /\ \/ latest'[jobOf'[r.msg]] = latest[jobOf[r.msg]]
               \/ latest'[jobOf'[r.msg]] # r.msg
    BY <2>1, <2>2, SendKeeps
  <2>4. RequeuesSound'
    BY <2>1, <2>2, <2>3 DEF QueueInv, RequeuesSound, InHand
  <2> QED BY <1>1, <2>3, <2>4 DEF QueueInv
<1>3. ASSUME NEW m \in MsgIds, VtExpire(m) PROVE QueueInv'
  <2>1. UNCHANGED <<lastId, jobOf, queue, latest, workerVars, deadLetter, admin, lapsed>>
    BY <1>3 DEF VtExpire
  <2> QED
    BY <1>1, <2>1
    DEF QueueInv, IdsAssigned, RunsSound, MessagesAccounted, RequeuesSound,
        Burying, ToDeadLetter, Exhausted, MessageAccounted, InHand
<1>4. ASSUME NEW w \in Workers, WorkerStep(w) PROVE QueueInv'
  BY <1>4, WorkerKeeps
<1>5. ASSUME NEW a \in Admins, AdminStep(a) PROVE QueueInv'
  BY <1>5, AdminKeeps
<1>6. CASE UNCHANGED vars
  BY <1>1, <1>6
  DEF vars, QueueInv, IdsAssigned, RunsSound, MessagesAccounted, RequeuesSound,
      Burying, ToDeadLetter, Exhausted, MessageAccounted, InHand
<1> QED BY <1>2, <1>3, <1>4, <1>5, <1>6 DEF Next

\* With the invariant, a job's newest message settles what became of it: a
\* dead letter of that message cannot have been requeued and forgotten.
LEMMA InvAccounts == QueueInv => JobsAccounted
<1> SUFFICES ASSUME QueueInv, NEW j \in Jobs, latest[j] # 0, j \notin lapsed
             PROVE  Accounted(j)
  BY DEF JobsAccounted
<1> DEFINE m == latest[j]
<1>1. m \in 1 .. lastId /\ m \in MsgIds /\ jobOf[m] = j
  BY QueueAssumption DEF QueueInv, TypeOK, IdsAssigned, MsgIds
<1>2. MessageAccounted(m)
  BY <1>1 DEF QueueInv, MessagesAccounted
<1>3. CASE m \in queue \/ m \in handled
  BY <1>1, <1>3 DEF Accounted
<1>4. ASSUME NEW r \in DOMAIN deadLetter, r.msg = m
      PROVE  Accounted(j)
  <2>1. deadLetter[r] \in DeadStatus
    BY DEF QueueInv, TypeOK
  <2>2. deadLetter[r] = "REQUEUED" => InHand(r)
    BY <1>1, <1>4 DEF QueueInv, RequeuesSound
  <2> QED BY <1>1, <1>4, <2>1, <2>2 DEF Accounted, DeadStatus
<1> QED BY <1>2, <1>3, <1>4 DEF MessageAccounted

\* The queue, the batches in hand and the requests of the operators agree at
\* every step: what a batch or a request names was sent, and every message is
\* readable, in hand, archived or in a dead letter.
THEOREM QueueStaysSound == Spec => []QueueInv
  BY InvInit, InvStep, PTL DEF Spec

\* For any number of jobs, workers and operators no enqueued job vanishes, the
\* two logged errors aside.
THEOREM JobsStayAccounted == Spec => []JobsAccounted
  BY InvInit, InvStep, InvAccounts, PTL DEF Spec

-----------------------------------------------------------------------------
(* Attempts are exclusive.                                                 *)

\* Every step keeps the receipts apart: a read makes new ones, with a read_ct
\* above all those handed out before.
LEMMA AttemptsStep == TypeOK /\ AttemptsInv /\ [Next]_vars => AttemptsInv'
<1> SUFFICES ASSUME TypeOK, AttemptsInv, [Next]_vars PROVE AttemptsInv'
  OBVIOUS
<1> USE DEF queueVars, workerVars
\* Everything but a read leaves the read counts alone and adds no receipt.
<1>1. CASE /\ readCt' = readCt
           /\ \A v \in Workers : run'[v].batch \subseteq run[v].batch
  BY <1>1 DEF AttemptsInv, AttemptsExclusive
<1>2. ASSUME NEW w \in Workers, PgmqRead(w) PROVE AttemptsInv'
  <2>1. PICK S \in SUBSET visible :
            /\ readCt' = [m \in MsgIds |-> IF m \in S THEN readCt[m] + 1
                                                      ELSE readCt[m]]
            /\ GoTo(w, "handle", {[msg |-> m, ct |-> readCt[m] + 1] : m \in S}, {})
    BY <1>2 DEF PgmqRead
  <2>2. S \subseteq MsgIds
    BY QueueAssumption DEF TypeOK, MsgIds
  <2>3. /\ run'[w].batch = {[msg |-> m, ct |-> readCt[m] + 1] : m \in S}
        /\ \A v \in Workers : v # w => run'[v].batch = run[v].batch
    BY <2>1 DEF GoTo, TypeOK
  <2>4. \A m \in MsgIds : readCt[m] \in Nat /\ readCt'[m] \in {readCt[m], readCt[m] + 1}
    BY <2>1 DEF TypeOK
  <2>5. \A v \in Workers : \A r \in run[v].batch : r.msg \in MsgIds /\ r.ct \in Nat
    BY DEF TypeOK, Receipt
  <2>6. ASSUME NEW r \in run'[w].batch
        PROVE  /\ r.ct <= readCt'[r.msg]
               /\ \A v \in Workers : v # w => r \notin run[v].batch
    <3>1. PICK m \in S : r.msg = m /\ r.ct = readCt[m] + 1
      BY <2>3, <2>6
    <3>2. readCt'[m] = readCt[m] + 1 /\ readCt[m] \in Nat
      BY <2>1, <2>2, <2>4, <3>1
    <3> QED BY <3>1, <3>2 DEF AttemptsInv
  <2>7. ASSUME NEW v \in Workers, v # w, NEW r \in run'[v].batch
        PROVE  r.ct <= readCt'[r.msg]
    BY <2>3, <2>4, <2>5, <2>7 DEF AttemptsInv
  <2>8. AttemptsExclusive'
    BY <2>3, <2>6 DEF AttemptsInv, AttemptsExclusive
  <2> QED BY <2>6, <2>7, <2>8 DEF AttemptsInv
<1>3. ASSUME NEW j \in Jobs, Enqueue(j) PROVE AttemptsInv'
  BY <1>1, <1>3 DEF Enqueue, SendMessage
<1>4. ASSUME NEW m \in MsgIds, VtExpire(m) PROVE AttemptsInv'
  BY <1>1, <1>4 DEF VtExpire
<1>5. ASSUME NEW w \in Workers, WorkerStep(w), ~PgmqRead(w) PROVE AttemptsInv'
  <2>1. readCt' = readCt
    BY <1>5 DEF WorkerStep, PgmqReadEmpty, Handle, InsertDeadLetters,
          InsertDeadLettersFails, DeleteDeadLettered, Ack, GiveUp, Remove, vars
  <2>2. \A v \in Workers : run'[v].batch \subseteq run[v].batch
    BY <1>5 DEF WorkerStep, PgmqReadEmpty, Handle, InsertDeadLetters,
          InsertDeadLettersFails, DeleteDeadLettered, Ack, GiveUp, vars,
          GoTo, Idle, TypeOK
  <2> QED BY <1>1, <2>1, <2>2
<1>6. ASSUME NEW a \in Admins, AdminStep(a) PROVE AttemptsInv'
  <2>1. readCt' = readCt /\ run' = run
    BY <1>6 DEF AdminStep, RequeueCheck, DiscardCheck, BatchRequeueSend,
          BatchRequeueSendFails, BatchRequeueMark, BatchDiscard, RequeueSend,
          RequeueMark, DiscardMark, AdminAbort, SendMessage
  <2> QED BY <1>1, <2>1
<1>7. CASE UNCHANGED vars
  BY <1>1, <1>7 DEF vars
<1> QED BY <1>2, <1>3, <1>4, <1>5, <1>6, <1>7 DEF Next

\* No two workers ever hold the same read of a message.
THEOREM AttemptsStayExclusive == Spec => []AttemptsExclusive
<1>1. Init => AttemptsInv
  BY DEF Init, AttemptsInv, AttemptsExclusive, Idle
<1>2. AttemptsInv => AttemptsExclusive
  BY DEF AttemptsInv
<1> QED BY <1>1, <1>2, TypeInit, TypeStep, AttemptsStep, PTL DEF Spec

-----------------------------------------------------------------------------
(* The queue implements at-least-once delivery.                            *)

\* Jobs that were enqueued.
KnownJobs == {j \in Jobs : latest[j] # 0}

\* Messages and errors are of such jobs.
JobsKnown ==
    /\ \A m \in 1 .. lastId : latest[jobOf[m]] # 0
    /\ lapsed \subseteq KnownJobs
    /\ handled \subseteq 1 .. lastId

\* A step that sends nothing and loses only named jobs knows the same jobs.
LEMMA KnownFrame ==
    ASSUME QueueInv, JobsKnown, UNCHANGED <<lastId, jobOf, latest>>,
           lapsed' \subseteq lapsed \cup {jobOf[m] : m \in 1 .. lastId},
           handled' \subseteq 1 .. lastId
    PROVE  JobsKnown' /\ KnownJobs' = KnownJobs
<1>1. \A m \in 1 .. lastId : jobOf[m] \in Jobs
  BY QueueAssumption DEF QueueInv, TypeOK, IdsAssigned, MsgIds
<1> QED BY <1>1 DEF JobsKnown, KnownJobs

\* What a message sent for a job adds.
LEMMA KnownSend ==
    ASSUME QueueInv, JobsKnown, NEW j \in Jobs, SendMessage(j),
           UNCHANGED <<lapsed, handled>>
    PROVE  /\ JobsKnown'
           /\ KnownJobs' = KnownJobs \cup {j}
           /\ \A m \in 1 .. lastId : jobOf'[m] = jobOf[m]
           /\ WaitingJobs' = WaitingJobs \cup {j}
           /\ FinishedJobs' = FinishedJobs
<1> DEFINE n == lastId + 1
<1>1. /\ lastId \in Nat /\ n \in MsgIds /\ lastId' = n /\ n # 0
      /\ jobOf \in [MsgIds -> Jobs \cup {NoJob}] /\ latest \in [Jobs -> 0 .. lastId]
      /\ 1 .. lastId' = (1 .. lastId) \cup {n} /\ n \notin 1 .. lastId
      /\ 1 .. lastId \subseteq MsgIds
  BY QueueAssumption DEF QueueInv, TypeOK, SendMessage, MsgIds
<1>2. /\ jobOf' = [jobOf EXCEPT ![n] = j]
      /\ latest' = [latest EXCEPT ![j] = n]
      /\ queue' = queue \cup {n} /\ queue \subseteq 1 .. lastId
  BY DEF SendMessage, QueueInv, TypeOK
<1>3. /\ jobOf'[n] = j
      /\ \A m \in MsgIds : m # n => jobOf'[m] = jobOf[m]
      /\ \A k \in Jobs : latest'[k] = IF k = j THEN n ELSE latest[k]
  BY <1>1, <1>2
<1>4. \A m \in 1 .. lastId : jobOf'[m] = jobOf[m] /\ jobOf[m] \in Jobs
  BY <1>1, <1>3 DEF QueueInv, IdsAssigned, MsgIds
<1>5. KnownJobs' = KnownJobs \cup {j}
  BY <1>1, <1>3 DEF KnownJobs
<1>6. \A m \in 1 .. lastId' : latest'[jobOf'[m]] # 0
  BY <1>1, <1>3, <1>4 DEF JobsKnown
<1>7. JobsKnown'
  BY <1>1, <1>5, <1>6 DEF JobsKnown
<1>8. WaitingJobs' = WaitingJobs \cup {j}
  BY <1>1, <1>2, <1>3, <1>4 DEF WaitingJobs
<1>9. FinishedJobs' = FinishedJobs
  BY <1>4 DEF FinishedJobs, JobsKnown
<1> QED BY <1>4, <1>5, <1>7, <1>8, <1>9

\* Jobs are accepted from the moment they are enqueued.
LEMMA KnownAccepted ==
    ASSUME QueueInv, JobsKnown
    PROVE  Delivery!Accepted = KnownJobs
<1> USE DEF Delivery!Accepted
<1>1. ASSUME NEW j \in Delivery!Accepted PROVE j \in KnownJobs
  <2>1. CASE j \in WaitingJobs \cup FinishedJobs
    <3>1. PICK m \in queue \cup handled : j \in Jobs /\ jobOf[m] = j
      BY <2>1 DEF WaitingJobs, FinishedJobs
    <3>2. m \in 1 .. lastId
      BY <3>1 DEF QueueInv, TypeOK, JobsKnown
    <3> QED BY <3>1, <3>2 DEF JobsKnown, KnownJobs
  <2>2. CASE j \in ShelvedJobs
    BY <2>2, NamedMessages DEF ShelvedJobs, Shelf, JobsKnown, KnownJobs
  <2> QED BY <1>1, <2>1, <2>2 DEF JobsKnown
<1>2. ASSUME NEW j \in KnownJobs PROVE j \in Delivery!Accepted
  <2>1. j \in Jobs /\ (Accounted(j) \/ j \in lapsed)
    BY InvAccounts DEF JobsAccounted, KnownJobs
  <2>2. CASE Accounted(j)
    BY <2>1, <2>2 DEF Accounted, WaitingJobs, FinishedJobs, ShelvedJobs, Shelf
  <2> QED BY <2>1, <2>2
<1> QED BY <1>1, <1>2

\* What each kind of step is to a client of the queue.
MapsToStep == [Delivery!DeliveryNext]_(Delivery!deliveryVars)

LEMMA StutterMaps ==
    ASSUME UNCHANGED <<WaitingJobs, FinishedJobs, ShelvedJobs, lapsed>>
    PROVE  MapsToStep
  BY DEF MapsToStep, Delivery!deliveryVars

LEMMA FinishMaps ==
    ASSUME UNCHANGED <<WaitingJobs, ShelvedJobs, lapsed>>,
           FinishedJobs \subseteq FinishedJobs', FinishedJobs' \subseteq Delivery!Accepted
    PROVE  MapsToStep
<1>1. Delivery!Finish(FinishedJobs')
  BY DEF Delivery!Finish
<1> QED BY <1>1 DEF MapsToStep, Delivery!DeliveryNext

LEMMA RetireMaps ==
    ASSUME UNCHANGED <<FinishedJobs, ShelvedJobs, lapsed>>,
           WaitingJobs' \subseteq WaitingJobs, Delivery!Accepted \subseteq Delivery!Accepted'
    PROVE  MapsToStep
<1> DEFINE S == WaitingJobs \ WaitingJobs'
<1>1. S \subseteq Delivery!Accepted /\ S \subseteq Delivery!Settled
  BY DEF Delivery!Accepted, Delivery!Settled
<1>2. Delivery!Retire(S)
  BY <1>1 DEF Delivery!Retire
<1> QED BY <1>1, <1>2 DEF MapsToStep, Delivery!DeliveryNext

LEMMA ShelveMaps ==
    ASSUME UNCHANGED <<WaitingJobs, FinishedJobs, lapsed>>,
           ShelvedJobs \subseteq ShelvedJobs', ShelvedJobs' \subseteq Delivery!Accepted
    PROVE  MapsToStep
<1>1. Delivery!Shelve(ShelvedJobs')
  BY DEF Delivery!Shelve
<1> QED BY <1>1 DEF MapsToStep, Delivery!DeliveryNext

LEMMA UnshelveMaps ==
    ASSUME UNCHANGED <<WaitingJobs, FinishedJobs, lapsed>>,
           ShelvedJobs' \subseteq ShelvedJobs, Delivery!Accepted \subseteq Delivery!Accepted'
    PROVE  MapsToStep
<1> DEFINE S == ShelvedJobs \ ShelvedJobs'
<1>1. S \subseteq Delivery!Accepted /\ S \subseteq WaitingJobs \cup FinishedJobs \cup lapsed
  BY DEF Delivery!Accepted
<1>2. Delivery!Unshelve(S)
  BY <1>1 DEF Delivery!Unshelve
<1> QED BY <1>1, <1>2 DEF MapsToStep, Delivery!DeliveryNext

LEMMA LoseMaps ==
    ASSUME UNCHANGED <<WaitingJobs, FinishedJobs>>,
           lapsed \subseteq lapsed', lapsed' \subseteq Delivery!Accepted,
           ShelvedJobs' \subseteq ShelvedJobs, ShelvedJobs \ ShelvedJobs' \subseteq lapsed'
    PROVE  MapsToStep
<1> DEFINE T == ShelvedJobs \ ShelvedJobs'
<1>1. T \subseteq Delivery!Accepted
  BY DEF Delivery!Accepted
<1>2. Delivery!Lose(lapsed', T)
  BY DEF Delivery!Lose
<1> QED BY <1>1, <1>2 DEF MapsToStep, Delivery!DeliveryNext

LEMMA RequeueMaps ==
    ASSUME NEW j \in Delivery!Accepted,
           UNCHANGED <<FinishedJobs, lapsed>>, WaitingJobs' = WaitingJobs \cup {j},
           ShelvedJobs' \subseteq ShelvedJobs, ShelvedJobs \ ShelvedJobs' \subseteq {j}
    PROVE  MapsToStep
<1>1. ShelvedJobs' \in {ShelvedJobs, ShelvedJobs \ {j}}
  OBVIOUS
<1>2. Delivery!Requeue(j)
  BY <1>1 DEF Delivery!Requeue
<1> QED BY <1>2 DEF MapsToStep, Delivery!DeliveryNext

\* A worker's step is a step of the abstract queue, or none.
LEMMA WorkerMaps ==
    ASSUME QueueInv, QueueInv', JobsKnown, NEW w \in Workers, WorkerStep(w)
    PROVE  JobsKnown' /\ MapsToStep
<1> USE DEF queueVars, workerVars
<1> DEFINE Named == {jobOf[m] : m \in 1 .. lastId}
<1>1. admin' = admin /\ jobOf' = jobOf /\ lastId' = lastId /\ latest' = latest
  BY DEF WorkerStep, PgmqRead, PgmqReadEmpty, Handle, InsertDeadLetters,
         InsertDeadLettersFails, DeleteDeadLettered, Ack, GiveUp, Remove, vars
<1>2. \A r \in run[w].batch : r.msg \in 1 .. lastId
  BY NamedMessages
<1>3. Burying(w) \subseteq run[w].batch
  BY DEF Burying, ToDeadLetter, Exhausted
<1>4. handled \subseteq 1 .. lastId /\ Delivery!Accepted = KnownJobs
  BY KnownAccepted DEF JobsKnown
\* It remains to show how the step maps.
<1>5. ASSUME handled' \subseteq 1 .. lastId, lapsed' \subseteq lapsed \cup Named
      PROVE  /\ JobsKnown'
             /\ Delivery!Accepted' = Delivery!Accepted
  <2>1. JobsKnown' /\ KnownJobs' = KnownJobs
    BY <1>1, <1>5, KnownFrame
  <2>2. ASSUME QueueInv', JobsKnown' PROVE (Delivery!Accepted = KnownJobs)'
    BY <2>2, KnownAccepted, PTL
  <2> QED BY <1>4, <2>1, <2>2
<1>6. CASE PgmqRead(w) \/ PgmqReadEmpty(w) \/ GiveUp(w)
  <2>1. UNCHANGED <<queue, handled, deadLetter, lapsed>>
    BY <1>6 DEF PgmqRead, PgmqReadEmpty, GiveUp, vars
  <2>2. UNCHANGED <<WaitingJobs, FinishedJobs, ShelvedJobs, lapsed>>
    BY <1>1, <2>1 DEF WaitingJobs, FinishedJobs, ShelvedJobs, Shelf, InHand
  <2> QED BY <1>4, <1>5, <2>1, <2>2, StutterMaps
<1>7. CASE Handle(w)
  <2>1. PICK ok \in SUBSET Msgs(run[w].batch) : handled' = handled \cup ok
    BY <1>7 DEF Handle
  <2>2. UNCHANGED <<queue, deadLetter, lapsed>> /\ handled' \subseteq 1 .. lastId
    BY <1>2, <1>4, <1>7, <2>1 DEF Handle, Msgs
  <2>3. UNCHANGED <<WaitingJobs, ShelvedJobs, lapsed>>
    BY <1>1, <2>2 DEF WaitingJobs, ShelvedJobs, Shelf, InHand
  <2>4. FinishedJobs \subseteq FinishedJobs'
    BY <1>1, <2>1 DEF FinishedJobs
  <2>5. FinishedJobs' \subseteq Delivery!Accepted
    BY <1>5, <2>2 DEF Delivery!Accepted
  <2> QED BY <1>5, <2>2, <2>3, <2>4, <2>5, FinishMaps
<1>8. CASE InsertDeadLetters(w)
  <2>1. UNCHANGED <<queue, handled, lapsed>>
    BY <1>8 DEF InsertDeadLetters
  <2>2. deadLetter' = [r \in DOMAIN deadLetter \cup Burying(w) |->
                        IF r \in Burying(w) THEN "PENDING" ELSE deadLetter[r]]
    BY <1>8 DEF InsertDeadLetters
  <2>3. Shelf \subseteq Shelf'
    BY <1>1, <2>2 DEF Shelf, InHand
  <2>4. UNCHANGED <<WaitingJobs, FinishedJobs, lapsed>> /\ ShelvedJobs \subseteq ShelvedJobs'
    BY <1>1, <2>1, <2>3 DEF WaitingJobs, FinishedJobs, ShelvedJobs
  <2>5. ShelvedJobs' \subseteq Delivery!Accepted
    BY <1>4, <1>5, <2>1 DEF Delivery!Accepted
  <2> QED BY <1>4, <1>5, <2>1, <2>4, <2>5, ShelveMaps
<1>9. CASE InsertDeadLettersFails(w)
  <2>1. /\ UNCHANGED <<queue, handled, deadLetter>>
        /\ lapsed' = lapsed \cup {jobOf[r.msg] : r \in Burying(w)}
    BY <1>9 DEF InsertDeadLettersFails
  <2>2. lapsed' \subseteq lapsed \cup Named
    BY <1>2, <1>3, <2>1
  <2>3. UNCHANGED <<WaitingJobs, FinishedJobs, ShelvedJobs>>
    BY <1>1, <2>1 DEF WaitingJobs, FinishedJobs, ShelvedJobs, Shelf, InHand
  <2>4. lapsed' \subseteq Delivery!Accepted
    BY <1>4, <1>5, <2>1, <2>2 DEF Delivery!Accepted
  <2> QED BY <1>4, <1>5, <2>1, <2>2, <2>3, <2>4, LoseMaps
<1>10. CASE DeleteDeadLettered(w) \/ Ack(w)
  <2>1. UNCHANGED <<handled, deadLetter, lapsed>> /\ queue' \subseteq queue
    BY <1>10 DEF DeleteDeadLettered, Ack, Remove
  <2>2. UNCHANGED <<FinishedJobs, ShelvedJobs, lapsed>> /\ WaitingJobs' \subseteq WaitingJobs
    BY <1>1, <2>1 DEF WaitingJobs, FinishedJobs, ShelvedJobs, Shelf, InHand
  <2> QED BY <1>4, <1>5, <2>1, <2>2, RetireMaps
<1> QED BY <1>6, <1>7, <1>8, <1>9, <1>10 DEF WorkerStep

\* So is an operator's.
LEMMA AdminMaps ==
    ASSUME QueueInv, QueueInv', JobsKnown, NEW a \in Admins, AdminStep(a)
    PROVE  JobsKnown' /\ MapsToStep
<1> USE DEF queueVars, workerVars
<1> DEFINE Named == {jobOf[m] : m \in 1 .. lastId}
<1>1. /\ admin \in [Admins -> [op : AdminOps, targets : SUBSET Receipt]]
      /\ \A b \in Admins : admin[b].targets \subseteq DOMAIN deadLetter
      /\ handled \subseteq 1 .. lastId
  BY DEF QueueInv, TypeOK, IdsAssigned, JobsKnown
<1>2. Delivery!Accepted = KnownJobs
  BY KnownAccepted
<1>3. \A r \in DOMAIN deadLetter : r.msg \in 1 .. lastId /\ jobOf[r.msg] \in Jobs
  BY NamedMessages
\* Steps that send nothing.
<1>4. ASSUME UNCHANGED <<queueVars, workerVars>>, lapsed' \subseteq lapsed \cup Named
      PROVE  /\ JobsKnown'
             /\ Delivery!Accepted' = Delivery!Accepted
             /\ UNCHANGED <<WaitingJobs, FinishedJobs>>
  <2>1. JobsKnown' /\ KnownJobs' = KnownJobs
    BY <1>1, <1>4, KnownFrame
  <2>2. ASSUME QueueInv', JobsKnown' PROVE (Delivery!Accepted = KnownJobs)'
    BY <2>2, KnownAccepted, PTL
  <2>3. UNCHANGED <<WaitingJobs, FinishedJobs>>
    BY <1>4 DEF WaitingJobs, FinishedJobs
  <2> QED BY <1>2, <2>1, <2>2, <2>3
<1>5. ASSUME UNCHANGED <<queueVars, workerVars, lapsed>>, Shelf' = Shelf
      PROVE  JobsKnown' /\ MapsToStep
  <2>1. ShelvedJobs' = ShelvedJobs
    BY <1>5 DEF ShelvedJobs
  <2> QED BY <1>4, <1>5, <2>1, StutterMaps
\* A request that is not about a batch has nothing in hand.
<1>16. ASSUME NEW op \in AdminOps \ {"batch"}, NEW R, NextCall(a, op, R), admin[a].op # "batch"
       PROVE  \A x : InHand(x)' <=> InHand(x)
  <2>1. \A b \in Admins : admin'[b] = IF b = a THEN [op |-> op, targets |-> R] ELSE admin[b]
    BY <1>1, <1>16 DEF NextCall
  <2>2. admin'[a].op # "batch" /\ \A b \in Admins : b # a => admin'[b] = admin[b]
    BY <1>16, <2>1
  <2> QED BY <1>16, <2>2 DEF InHand
<1>6. ASSUME NEW r \in DOMAIN deadLetter, RequeueCheck(a, r) \/ DiscardCheck(a, r)
      PROVE  JobsKnown' /\ MapsToStep
  <2>1. UNCHANGED <<queueVars, workerVars, deadLetter, lapsed>>
    BY <1>6 DEF RequeueCheck, DiscardCheck
  <2>2. admin[a].op = "none" /\ (NextCall(a, "send", {r}) \/ NextCall(a, "discard", {r}))
    BY <1>6 DEF RequeueCheck, DiscardCheck
  <2>3. \A x : InHand(x)' <=> InHand(x)
    BY <1>16, <2>2 DEF AdminOps
  <2>4. Shelf' = Shelf
    BY <2>1, <2>3 DEF Shelf
  <2> QED BY <1>5, <2>1, <2>4
<1>7. CASE RequeueMark(a)
  <2>1. /\ UNCHANGED <<queueVars, workerVars, lapsed>>
        /\ deadLetter' = [r \in DOMAIN deadLetter |->
                            IF r \in admin[a].targets THEN "REQUEUED" ELSE deadLetter[r]]
    BY <1>7 DEF RequeueMark, SetStatus
  <2>2. \A x : InHand(x)' <=> InHand(x)
    BY <1>7, <1>16 DEF RequeueMark, AdminOps
  <2>3. Shelf' \subseteq Shelf
    BY <2>1, <2>2 DEF Shelf
  <2>4. ShelvedJobs' \subseteq ShelvedJobs
    BY <2>1, <2>3 DEF ShelvedJobs
  <2> QED BY <1>4, <2>1, <2>4, UnshelveMaps
<1>8. CASE DiscardMark(a)
  <2>1. /\ UNCHANGED <<queueVars, workerVars, lapsed>>
        /\ deadLetter' = [r \in DOMAIN deadLetter |->
                            IF r \in admin[a].targets THEN "DISCARDED" ELSE deadLetter[r]]
    BY <1>8 DEF DiscardMark, SetStatus
  <2>2. \A x : InHand(x)' <=> InHand(x)
    BY <1>8, <1>16 DEF DiscardMark, AdminOps
  <2>3. Shelf \subseteq Shelf'
    BY <2>1, <2>2 DEF Shelf
  <2>4. ShelvedJobs \subseteq ShelvedJobs'
    BY <2>1, <2>3 DEF ShelvedJobs
  <2>5. JobsKnown' /\ ShelvedJobs' \subseteq Delivery!Accepted
    BY <1>4, <2>1 DEF Delivery!Accepted
  <2> QED BY <1>4, <2>1, <2>4, <2>5, ShelveMaps
<1>9. ASSUME NEW R \in SUBSET DOMAIN deadLetter, BatchRequeueMark(a, R)
      PROVE  JobsKnown' /\ MapsToStep
  <2>1. /\ UNCHANGED <<queueVars, workerVars, lapsed>>
        /\ deadLetter' = [r \in DOMAIN deadLetter |->
                            IF r \in Pending(R) THEN "REQUEUED" ELSE deadLetter[r]]
        /\ admin[a].op = "none"
    BY <1>9 DEF BatchRequeueMark, SetStatus
  <2>2. admin' = [admin EXCEPT ![a] = [op |-> "batch", targets |-> Pending(R)]]
    BY <1>9 DEF BatchRequeueMark, NextCall
  <2>3. \A b \in Admins : admin'[b] = IF b = a THEN [op |-> "batch", targets |-> Pending(R)]
                                      ELSE admin[b]
    BY <1>1, <2>2
  <2>4. \A r : InHand(r)' <=> InHand(r) \/ r \in Pending(R)
    BY <2>1, <2>3 DEF InHand
  <2>5. \A r \in Pending(R) : r \in DOMAIN deadLetter /\ deadLetter[r] = "PENDING"
    BY DEF Pending
  <2>6. Shelf' = Shelf
    BY <2>1, <2>4, <2>5 DEF Shelf
  <2> QED BY <1>5, <2>1, <2>6
<1>10. ASSUME NEW R \in SUBSET DOMAIN deadLetter, BatchDiscard(a, R)
       PROVE  JobsKnown' /\ MapsToStep
  <2>1. /\ UNCHANGED <<queueVars, workerVars, lapsed, admin>>
        /\ deadLetter' = [r \in DOMAIN deadLetter |->
                            IF r \in Pending(R) THEN "DISCARDED" ELSE deadLetter[r]]
    BY <1>10 DEF BatchDiscard, SetStatus
  <2>2. Shelf' = Shelf
    BY <2>1 DEF Shelf, InHand, Pending
  <2> QED BY <1>5, <2>1, <2>2
<1>11. ASSUME NEW r \in DOMAIN deadLetter, BatchRequeueSendFails(a, r)
       PROVE  JobsKnown' /\ MapsToStep
  <2>1. /\ UNCHANGED <<queueVars, workerVars, deadLetter>>
        /\ lapsed' = lapsed \cup {jobOf[r.msg]}
    BY <1>11 DEF BatchRequeueSendFails
  <2>2. lapsed' \subseteq lapsed \cup Named
    BY <1>3, <2>1
  <2>3. \A x : InHand(x) => InHand(x)' \/ x = r
    BY <1>1, <1>11 DEF BatchRequeueSendFails, BatchNext, NextCall, InHand
  <2>4. \A x : InHand(x)' => InHand(x)
    BY <1>1, <1>11 DEF BatchRequeueSendFails, BatchNext, NextCall, InHand
  <2>5. Shelf' \subseteq Shelf /\ Shelf \subseteq Shelf' \cup {r}
    BY <2>1, <2>3, <2>4 DEF Shelf
  <2>6. ShelvedJobs' \subseteq ShelvedJobs /\ ShelvedJobs \ ShelvedJobs' \subseteq lapsed'
    BY <2>1, <2>5 DEF ShelvedJobs
  <2>7. lapsed' \subseteq Delivery!Accepted
    BY <1>4, <2>1, <2>2 DEF Delivery!Accepted
  <2> QED BY <1>4, <2>1, <2>2, <2>6, <2>7, LoseMaps
<1>12. CASE AdminAbort(a)
  <2>1. /\ UNCHANGED <<queueVars, workerVars, deadLetter>>
        /\ lapsed' = IF admin[a].op = "batch"
                     THEN lapsed \cup {jobOf[r.msg] : r \in admin[a].targets}
                     ELSE lapsed
    BY <1>12 DEF AdminAbort
  <2>2. lapsed' \subseteq lapsed \cup Named
    BY <1>1, <1>3, <2>1
  <2>3. \A b \in Admins : admin'[b] = IF b = a THEN [op |-> "none", targets |-> {}] ELSE admin[b]
    BY <1>1, <1>12 DEF AdminAbort, NextCall
  <2>4. \A x : InHand(x) => InHand(x)' \/ (admin[a].op = "batch" /\ x \in admin[a].targets)
    BY <2>3 DEF InHand
  <2>5. \A x : InHand(x)' => InHand(x)
    BY <2>3 DEF InHand
  <2>6. /\ Shelf' \subseteq Shelf
        /\ \A x \in Shelf \ Shelf' : admin[a].op = "batch" /\ x \in admin[a].targets
    BY <2>1, <2>4, <2>5 DEF Shelf
  <2>7. ShelvedJobs' \subseteq ShelvedJobs /\ ShelvedJobs \ ShelvedJobs' \subseteq lapsed'
    BY <2>1, <2>6 DEF ShelvedJobs
  <2>8. lapsed \subseteq lapsed' /\ lapsed' \subseteq Delivery!Accepted
    BY <1>4, <2>1, <2>2 DEF Delivery!Accepted
  <2> QED BY <1>4, <2>1, <2>2, <2>7, <2>8, LoseMaps
\* Steps that send the job of a dead letter again.
<1>13. ASSUME NEW r \in DOMAIN deadLetter, SendMessage(jobOf[r.msg]),
              UNCHANGED <<workerVars, deadLetter, lapsed>>,
              \A x : InHand(x)' => InHand(x), \A x : InHand(x) => InHand(x)' \/ x = r
       PROVE  JobsKnown' /\ MapsToStep
  <2> DEFINE j == jobOf[r.msg]
  <2>1. j \in Jobs /\ j \in Delivery!Accepted
    BY <1>2, <1>3 DEF KnownJobs, JobsKnown
  <2>2. /\ JobsKnown'
        /\ \A m \in 1 .. lastId : jobOf'[m] = jobOf[m]
        /\ WaitingJobs' = WaitingJobs \cup {j} /\ FinishedJobs' = FinishedJobs
    BY <1>13, <2>1, KnownSend
  <2>3. Shelf' \subseteq Shelf /\ Shelf \subseteq Shelf' \cup {r}
    BY <1>13 DEF Shelf
  <2>4. \A x \in Shelf : jobOf'[x.msg] = jobOf[x.msg]
    BY <1>3, <2>2 DEF Shelf
  <2>5. ShelvedJobs' \subseteq ShelvedJobs /\ ShelvedJobs \ ShelvedJobs' \subseteq {j}
    BY <2>3, <2>4 DEF ShelvedJobs
  <2> QED BY <1>13, <2>1, <2>2, <2>5, RequeueMaps
<1>14. CASE RequeueSend(a)
  <2>1. PICK r \in admin[a].targets : SendMessage(jobOf[r.msg])
    BY <1>14 DEF RequeueSend
  <2>2. UNCHANGED <<workerVars, deadLetter, lapsed>>
    BY <1>14 DEF RequeueSend
  <2>3. \A x : InHand(x)' <=> InHand(x)
    BY <1>1, <1>14 DEF RequeueSend, NextCall, InHand
  <2> QED BY <1>1, <1>13, <2>1, <2>2, <2>3
<1>15. ASSUME NEW r \in DOMAIN deadLetter, BatchRequeueSend(a, r)
       PROVE  JobsKnown' /\ MapsToStep
  <2>1. SendMessage(jobOf[r.msg]) /\ UNCHANGED <<workerVars, deadLetter, lapsed>>
    BY <1>15 DEF BatchRequeueSend
  <2>2. \A x : InHand(x)' => InHand(x)
    BY <1>1, <1>15 DEF BatchRequeueSend, BatchNext, NextCall, InHand
  <2>3. \A x : InHand(x) => InHand(x)' \/ x = r
    BY <1>1, <1>15 DEF BatchRequeueSend, BatchNext, NextCall, InHand
  <2> QED BY <1>13, <2>1, <2>2, <2>3
<1> QED
  BY <1>6, <1>7, <1>8, <1>9, <1>10, <1>11, <1>12, <1>14, <1>15 DEF AdminStep

LEMMA DeliveryStep ==
    QueueInv /\ QueueInv' /\ JobsKnown /\ [Next]_vars => JobsKnown' /\ MapsToStep
<1> SUFFICES ASSUME QueueInv, QueueInv', JobsKnown, [Next]_vars
             PROVE  JobsKnown' /\ MapsToStep
  OBVIOUS
<1> USE DEF queueVars, workerVars
<1>1. ASSUME NEW j \in Jobs, Enqueue(j) PROVE JobsKnown' /\ MapsToStep
  <2>1. SendMessage(j) /\ UNCHANGED <<workerVars, deadLetter, admin, lapsed>> /\ latest[j] = 0
    BY <1>1 DEF Enqueue
  <2>2. /\ JobsKnown'
        /\ \A m \in 1 .. lastId : jobOf'[m] = jobOf[m]
        /\ WaitingJobs' = WaitingJobs \cup {j} /\ FinishedJobs' = FinishedJobs
    BY <2>1, KnownSend
  <2>3. ShelvedJobs' = ShelvedJobs
    BY <2>1, <2>2, NamedMessages DEF ShelvedJobs, Shelf, InHand
  <2>4. j \notin Delivery!Accepted
    BY <2>1, KnownAccepted DEF KnownJobs
  <2>5. Delivery!Accept(j)
    BY <2>1, <2>2, <2>3, <2>4 DEF Delivery!Accept
  <2> QED BY <2>2, <2>5 DEF MapsToStep, Delivery!DeliveryNext
<1>2. CASE (\E m \in MsgIds : VtExpire(m)) \/ UNCHANGED vars
  <2>1. UNCHANGED <<lastId, jobOf, queue, latest, handled, deadLetter, admin, lapsed>>
    BY <1>2 DEF VtExpire, vars
  <2>2. JobsKnown'
    BY <2>1 DEF JobsKnown, KnownJobs
  <2>3. UNCHANGED <<WaitingJobs, FinishedJobs, ShelvedJobs, lapsed>>
    BY <2>1 DEF WaitingJobs, FinishedJobs, ShelvedJobs, Shelf, InHand
  <2> QED BY <2>2, <2>3, StutterMaps
<1>3. ASSUME NEW w \in Workers, WorkerStep(w) PROVE JobsKnown' /\ MapsToStep
  BY <1>3, WorkerMaps
<1>4. ASSUME NEW a \in Admins, AdminStep(a) PROVE JobsKnown' /\ MapsToStep
  BY <1>4, AdminMaps
<1> QED BY <1>1, <1>2, <1>3, <1>4 DEF Next

\* For any number of jobs, workers and operators the queue implements
\* at-least-once delivery.
THEOREM QueueDelivers == Spec => DeliversJobs
<1>1. Init => Delivery!DeliveryInit /\ JobsKnown
  BY DEF Init, Delivery!DeliveryInit, JobsKnown, WaitingJobs, FinishedJobs,
         ShelvedJobs, Shelf
<1>2. QueueInv /\ QueueInv' /\ JobsKnown /\ [Next]_vars
        => JobsKnown' /\ [Delivery!DeliveryNext]_(Delivery!deliveryVars)
  BY DeliveryStep DEF MapsToStep
<1> QED BY <1>1, <1>2, InvInit, InvStep, PTL DEF Spec, DeliversJobs, Delivery!DeliverySpec

=============================================================================
