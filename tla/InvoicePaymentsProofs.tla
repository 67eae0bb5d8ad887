------------------------ MODULE InvoicePaymentsProofs -----------------------
(***************************************************************************)
(* What holds of an invoice's payments for any number of card attempts,    *)
(* manual payments and calls of void_invoice, and for any total.           *)
(***************************************************************************)
EXTENDS InvoicePayments, Sums, TLAPS

-----------------------------------------------------------------------------
(* Type correctness.                                                       *)

\* Whatever the provider says of an intent is a status of a transaction.
LEMMA StatusOfType ==
    ASSUME NEW i \in IntentStatus
    PROVE  StatusOf(i) \in {"Pending", "Settled", "Failed", "Cancelled"}
<1>1. CASE i = "Succeeded"
  BY <1>1 DEF StatusOf
<1>2. CASE i = "Failed"
  BY <1>2 DEF StatusOf
<1>3. CASE i = "Canceled"
  BY <1>3 DEF StatusOf
<1>4. CASE i \notin {"Succeeded", "Failed", "Canceled"}
  BY <1>4 DEF StatusOf
<1> QED BY <1>1, <1>2, <1>3, <1>4

\* The types hold of a new draft.
LEMMA PaymentTypeInit == Init => TypeOK
<1> SUFFICES ASSUME Init PROVE TypeOK
  OBVIOUS
<1>1. tx \in [Txs -> [status : PaymentStatus, amount : Int]]
  BY DEF Init, PaymentStatus
<1>2. intent \in [Attempts -> IntentStatus]
  BY DEF Init, IntentStatus
<1>3. /\ attempt \in [Attempts -> {"new", "waiting", "over"}]
      /\ applied \in [Txs -> Nat]
  BY DEF Init
<1>4. /\ status \in InvoiceStatus
      /\ payment \in InvoicePaymentStatus
  BY DEF Init, InvoiceStatus, InvoicePaymentStatus
<1>5. /\ due \in Int
      /\ redeliveries \in 0 .. MaxRedeliveries
      /\ credited \in Nat
  BY PaymentAssumption DEF Init
<1>6. settled \subseteq Txs /\ voiding \subseteq Voiders /\ zeroing \in BOOLEAN
  BY DEF Init
<1> QED BY <1>1, <1>2, <1>3, <1>4, <1>5, <1>6 DEF TypeOK

\* Consolidating an attempt keeps the types of what it changes.
LEMMA ConsolidateType ==
    ASSUME TypeOK, NEW a \in Attempts, Consolidate(a)
    PROVE  /\ tx' \in [Txs -> [status : PaymentStatus, amount : Int]]
           /\ settled' \subseteq Txs
<1>1. a \in Txs /\ StatusOf(intent[a]) \in PaymentStatus
  BY StatusOfType DEF TypeOK, Txs, PaymentStatus
<1> QED BY <1>1 DEF Consolidate, TypeOK

\* Every step of a card attempt keeps the types.
LEMMA AttemptType ==
    ASSUME TypeOK, NEW a \in Attempts, AttemptStep(a)
    PROVE  TypeOK'
<1> USE DEF rowVars
<1>1. CASE BeginPayment(a)
  BY <1>1 DEF BeginPayment, TypeOK, Txs
<1>2. CASE ProviderCreates(a)
  BY <1>2 DEF ProviderCreates, TypeOK, IntentStatus
<1>3. CASE ProviderResolves(a)
  BY <1>3 DEF ProviderResolves, TypeOK, IntentStatus
<1>4. CASE PaymentReturns(a)
  <2>1. status' \in InvoiceStatus
    BY <1>4 DEF PaymentReturns, TypeOK, InvoiceStatus
  <2> QED BY <1>4, <2>1, ConsolidateType DEF PaymentReturns, TypeOK
<1>5. CASE PaymentFails(a)
  BY <1>5 DEF PaymentFails, TypeOK
<1>6. CASE Webhook(a)
  BY <1>6, ConsolidateType DEF Webhook, TypeOK
<1> QED BY <1>1, <1>2, <1>3, <1>4, <1>5, <1>6 DEF AttemptStep

\* Recording a manual payment keeps the types.
LEMMA ManualType ==
    ASSUME TypeOK, NEW m \in Manuals, NEW x \in Int, RecordManualPayment(m, x)
    PROVE  TypeOK'
  BY DEF RecordManualPayment, TypeOK, rowVars, Txs, PaymentStatus

\* Applying a settled transaction keeps the types of what it changes.
LEMMA ApplyType ==
    ASSUME TypeOK, NEW t \in Txs, ApplyTransaction(t)
    PROVE  /\ status' \in InvoiceStatus
           /\ payment' \in InvoicePaymentStatus
           /\ due' \in Int
           /\ applied' \in [Txs -> Nat]
  BY DEF ApplyTransaction, TypeOK, InvoiceStatus, InvoicePaymentStatus

\* Every step keeps the types.
LEMMA PaymentTypeStep == TypeOK /\ [Next]_vars => TypeOK'
<1> SUFFICES ASSUME TypeOK, [Next]_vars PROVE TypeOK'
  OBVIOUS
<1> USE DEF rowVars
<1>1. ASSUME NEW a \in Attempts, AttemptStep(a) PROVE TypeOK'
  BY <1>1, AttemptType
<1>2. ASSUME NEW m \in Manuals, ManualStep(m) PROVE TypeOK'
  <2>1. PICK x \in Int : RecordManualPayment(m, x)
    BY <1>2, PaymentAssumption
    DEF ManualStep, AddManualPayment, MarkInvoiceAsPaid, TypeOK
  <2> QED BY <2>1, ManualType
<1>3. ASSUME NEW t \in Txs, OnPaymentSettled(t) PROVE TypeOK'
  BY <1>3, ApplyType DEF OnPaymentSettled, ApplyTransaction, TypeOK
<1>4. ASSUME NEW t \in Txs, OnPaymentSettledUnacked(t) PROVE TypeOK'
  <2>1. redeliveries' \in 0 .. MaxRedeliveries
    BY <1>4, PaymentAssumption DEF OnPaymentSettledUnacked, TypeOK
  <2> QED BY <1>4, <2>1, ApplyType
          DEF OnPaymentSettledUnacked, ApplyTransaction, TypeOK
<1>5. CASE PdfGeneratedZero \/ MarkZeroAmountAsPaid
  BY <1>5 DEF PdfGeneratedZero, MarkZeroAmountAsPaid, TypeOK, InvoicePaymentStatus
<1>6. CASE Finalize \/ MarkAsUncollectible
  BY <1>6 DEF Finalize, MarkAsUncollectible, TypeOK, InvoiceStatus
<1>7. ASSUME NEW v \in Voiders, VoidStep(v) PROVE TypeOK'
  BY <1>7, PaymentAssumption
  DEF VoidStep, VoidCheck, VoidCommit, VoidRefused, TypeOK, InvoiceStatus
<1>8. CASE UNCHANGED vars
  BY <1>8 DEF vars, TypeOK
<1> QED BY <1>1, <1>2, <1>3, <1>4, <1>5, <1>6, <1>7, <1>8 DEF Next

\* The variables keep their types; what is due stays an integer, below zero or
\* not.
THEOREM PaymentTypeCorrect == Spec => []TypeOK
  BY PaymentTypeInit, PaymentTypeStep, PTL DEF Spec

-----------------------------------------------------------------------------
(* The inductive invariant.                                                *)

\* The invariant holds of a new draft.
LEMMA PaymentInvInit == Init => PaymentInv
<1> SUFFICES ASSUME Init PROVE PaymentInv
  OBVIOUS
<1>1. TypeOK
  BY PaymentTypeInit
<1>2. AttemptsUncommitted /\ OneAttemptAtATime
  BY DEF Init, AttemptsUncommitted, OneAttemptAtATime, Txs
<1>3. SettledAccounted
  BY DEF Init, SettledAccounted
<1>4. VoidingClosesNoDraft /\ VoidCreditsOnce
  BY DEF Init, VoidingClosesNoDraft, VoidCreditsOnce
<1> QED BY <1>1, <1>2, <1>3, <1>4 DEF PaymentInv

\* What consolidating an attempt that has not settled does to the transactions:
\* it alone changes, and its event is there exactly when it settles.
LEMMA ConsolidateFrame ==
    ASSUME PaymentInv, NEW a \in Attempts, Consolidate(a),
           tx[a].status # "Settled"
    PROVE  /\ \A t \in Txs : t # a => tx'[t] = tx[t]
           /\ tx'[a].status # "None"
           /\ a \notin settled /\ applied[a] = 0
           /\ tx'[a].status = "Settled" <=> a \in settled'
           /\ \A t \in Txs : t # a => (t \in settled' <=> t \in settled)
<1>1. a \in Txs
  BY DEF Txs
<1>2. /\ tx'[a].status = StatusOf(intent[a])
      /\ \A t \in Txs : t # a => tx'[t] = tx[t]
  BY <1>1 DEF Consolidate, PaymentInv, TypeOK
<1>3. StatusOf(intent[a]) # "None"
  BY StatusOfType DEF PaymentInv, TypeOK
<1>4. a \notin settled /\ applied[a] = 0
  BY <1>1 DEF PaymentInv, SettledAccounted, TypeOK
<1> QED BY <1>1, <1>2, <1>3, <1>4 DEF Consolidate

\* Such a step keeps what settled accounted for.
LEMMA ConsolidateAccounted ==
    ASSUME PaymentInv, NEW a \in Attempts, Consolidate(a),
           tx[a].status # "Settled", UNCHANGED <<applied, redeliveries>>
    PROVE  SettledAccounted'
<1>1. redeliveries \in Nat
  BY PaymentAssumption DEF PaymentInv, TypeOK
<1> SUFFICES ASSUME NEW t \in Txs
             PROVE  /\ tx'[t].status = "Settled" <=> t \in settled' \/ applied[t] > 0
                    /\ applied[t] <= redeliveries + (IF t \in settled' THEN 0 ELSE 1)
  BY DEF SettledAccounted
<1>2. CASE t = a
  BY <1>1, <1>2, ConsolidateFrame
<1>3. CASE t # a
  BY <1>3, ConsolidateFrame DEF PaymentInv, SettledAccounted
<1> QED BY <1>2, <1>3

\* Every step of a card attempt keeps the invariant.
LEMMA AttemptKeeps ==
    ASSUME PaymentInv, NEW a \in Attempts, AttemptStep(a)
    PROVE  PaymentInv'
<1> USE DEF rowVars
<1>1. TypeOK'
  BY AttemptType DEF PaymentInv
<1>2. CASE BeginPayment(a)
  <2>1. /\ \A t \in Txs : tx'[t].status = tx[t].status
        /\ attempt'[a] = "waiting" /\ attempt[a] = "new"
        /\ \A b \in Attempts : b # a => attempt'[b] = attempt[b]
    BY <1>2 DEF BeginPayment, PaymentInv, TypeOK
  <2>2. \A b \in Attempts : attempt[b] # "waiting" /\ tx[b].status # "Pending"
    BY <1>2 DEF BeginPayment, Unlocked, WithStatus, Txs
  <2>3. AttemptsUncommitted' /\ OneAttemptAtATime'
    BY <2>1, <2>2 DEF PaymentInv, AttemptsUncommitted, OneAttemptAtATime, Txs
  <2>4. SettledAccounted'
    BY <1>2, <2>1 DEF BeginPayment, PaymentInv, SettledAccounted
  <2>5. VoidingClosesNoDraft' /\ VoidCreditsOnce'
    BY <1>2 DEF BeginPayment, PaymentInv, VoidingClosesNoDraft, VoidCreditsOnce
  <2> QED BY <1>1, <2>3, <2>4, <2>5 DEF PaymentInv
<1>3. CASE ProviderCreates(a) \/ ProviderResolves(a)
  BY <1>1, <1>3
  DEF ProviderCreates, ProviderResolves, PaymentInv, AttemptsUncommitted,
      OneAttemptAtATime, SettledAccounted, VoidingClosesNoDraft, VoidCreditsOnce
<1>4. CASE PaymentReturns(a)
  <2>1. tx[a].status = "None" /\ Consolidate(a) /\ attempt[a] = "waiting"
    BY <1>4 DEF PaymentReturns, PaymentInv, AttemptsUncommitted
  <2>2. /\ attempt'[a] = "over"
        /\ \A b \in Attempts : b # a => attempt'[b] = attempt[b]
    BY <1>4 DEF PaymentReturns, PaymentInv, TypeOK
  <2>3. AttemptsUncommitted' /\ OneAttemptAtATime'
    BY <2>1, <2>2, ConsolidateFrame
    DEF PaymentInv, AttemptsUncommitted, OneAttemptAtATime, Txs
  <2>4. SettledAccounted'
    BY <1>4, <2>1, ConsolidateAccounted DEF PaymentReturns
  <2>5. VoidingClosesNoDraft' /\ VoidCreditsOnce'
    BY <1>4, PaymentAssumption
    DEF PaymentReturns, PaymentInv, VoidingClosesNoDraft, VoidCreditsOnce
  <2> QED BY <1>1, <2>3, <2>4, <2>5 DEF PaymentInv
<1>5. CASE PaymentFails(a)
  <2>1. /\ attempt'[a] = "over"
        /\ \A b \in Attempts : b # a => attempt'[b] = attempt[b]
    BY <1>5 DEF PaymentFails, PaymentInv, TypeOK
  <2>2. AttemptsUncommitted' /\ OneAttemptAtATime'
    BY <1>5, <2>1 DEF PaymentFails, PaymentInv, AttemptsUncommitted, OneAttemptAtATime
  <2> QED BY <1>1, <1>5, <2>2
          DEF PaymentFails, PaymentInv, SettledAccounted, VoidingClosesNoDraft,
              VoidCreditsOnce
<1>6. CASE Webhook(a)
  <2>1. tx[a].status = "Pending" /\ Consolidate(a)
    BY <1>6 DEF Webhook
  <2>2. attempt' = attempt /\ attempt[a] = "over"
    BY <1>6, <2>1 DEF Webhook, PaymentInv, AttemptsUncommitted
  <2>3. AttemptsUncommitted' /\ OneAttemptAtATime'
    BY <2>1, <2>2, ConsolidateFrame
    DEF PaymentInv, AttemptsUncommitted, OneAttemptAtATime, Txs
  <2>4. SettledAccounted'
    BY <1>6, <2>1, ConsolidateAccounted DEF Webhook
  <2>5. VoidingClosesNoDraft' /\ VoidCreditsOnce'
    BY <1>6 DEF Webhook, PaymentInv, VoidingClosesNoDraft, VoidCreditsOnce
  <2> QED BY <1>1, <2>3, <2>4, <2>5 DEF PaymentInv
<1> QED BY <1>2, <1>3, <1>4, <1>5, <1>6 DEF AttemptStep

\* A manual payment is a new settled transaction, with its event.
LEMMA ManualKeeps ==
    ASSUME PaymentInv, NEW m \in Manuals, NEW x \in Int,
           RecordManualPayment(m, x)
    PROVE  PaymentInv'
<1> USE DEF rowVars
<1>1. TypeOK'
  BY ManualType DEF PaymentInv
<1>2. /\ m \in Txs /\ m \notin Attempts
      /\ tx[m].status = "None" /\ tx'[m].status = "Settled"
      /\ \A t \in Txs : t # m => tx'[t] = tx[t]
  BY PaymentAssumption DEF RecordManualPayment, PaymentInv, TypeOK, Txs
<1>3. AttemptsUncommitted' /\ OneAttemptAtATime'
  <2>1. \A a \in Attempts : tx'[a] = tx[a] /\ attempt'[a] = attempt[a]
    BY <1>2 DEF RecordManualPayment, Txs
  <2> QED BY <2>1 DEF PaymentInv, AttemptsUncommitted, OneAttemptAtATime
<1>4. SettledAccounted'
  <2>1. m \notin settled /\ applied[m] = 0 /\ redeliveries \in Nat
    BY <1>2, PaymentAssumption DEF PaymentInv, SettledAccounted, TypeOK
  <2> QED BY <1>2, <2>1 DEF RecordManualPayment, PaymentInv, SettledAccounted
<1>5. VoidingClosesNoDraft' /\ VoidCreditsOnce'
  BY DEF RecordManualPayment, PaymentInv, VoidingClosesNoDraft, VoidCreditsOnce
<1> QED BY <1>1, <1>3, <1>4, <1>5 DEF PaymentInv

\* Applying a settled transaction changes its own count alone.
LEMMA ApplyFrame ==
    ASSUME TypeOK, NEW t \in Txs, ApplyTransaction(t)
    PROVE  /\ applied[t] \in Nat /\ applied'[t] = applied[t] + 1
           /\ \A u \in Txs : u # t => applied'[u] = applied[u]
  BY DEF ApplyTransaction, TypeOK

\* Apart from the count of deliveries, applying a transaction keeps the
\* invariant: it finalizes a draft, which nobody is voiding or has credited.
LEMMA ApplyKeeps ==
    ASSUME PaymentInv, NEW t \in Txs, ApplyTransaction(t)
    PROVE  /\ AttemptsUncommitted' /\ OneAttemptAtATime'
           /\ VoidingClosesNoDraft' /\ VoidCreditsOnce'
  BY DEF ApplyTransaction, PaymentInv, AttemptsUncommitted, OneAttemptAtATime,
         VoidingClosesNoDraft, VoidCreditsOnce

\* Handling a settled event keeps the invariant.
LEMMA SettledKeeps ==
    ASSUME PaymentInv, NEW t \in Txs, OnPaymentSettled(t)
    PROVE  PaymentInv'
<1>1. TypeOK'
  BY PaymentTypeStep DEF PaymentInv, Next
<1>2. ApplyTransaction(t) /\ tx' = tx /\ t \in settled
  BY DEF OnPaymentSettled, ApplyTransaction
<1>3. redeliveries \in Nat /\ redeliveries' = redeliveries
  BY PaymentAssumption DEF OnPaymentSettled, PaymentInv, TypeOK
<1>4. SettledAccounted'
  <2> SUFFICES ASSUME NEW u \in Txs
               PROVE  /\ tx'[u].status = "Settled" <=> u \in settled' \/ applied'[u] > 0
                      /\ applied'[u] <= redeliveries + (IF u \in settled' THEN 0 ELSE 1)
    BY <1>3 DEF SettledAccounted
  <2>1. u \in settled' <=> u \in settled /\ u # t
    BY DEF OnPaymentSettled
  <2> QED BY <1>2, <1>3, <2>1, ApplyFrame DEF PaymentInv, SettledAccounted
<1> QED BY <1>1, <1>2, <1>4, ApplyKeeps DEF PaymentInv

\* So does handling one that will be delivered again.
LEMMA SettledUnackedKeeps ==
    ASSUME PaymentInv, NEW t \in Txs, OnPaymentSettledUnacked(t)
    PROVE  PaymentInv'
<1>1. TypeOK'
  BY PaymentTypeStep DEF PaymentInv, Next
<1>2. ApplyTransaction(t) /\ tx' = tx /\ t \in settled
  BY DEF OnPaymentSettledUnacked, ApplyTransaction
<1>3. redeliveries \in Nat /\ redeliveries' = redeliveries + 1 /\ settled' = settled
  BY PaymentAssumption DEF OnPaymentSettledUnacked, PaymentInv, TypeOK
<1>4. SettledAccounted'
  <2> SUFFICES ASSUME NEW u \in Txs
               PROVE  /\ tx'[u].status = "Settled" <=> u \in settled \/ applied'[u] > 0
                      /\ applied'[u] <= redeliveries + 1 + (IF u \in settled THEN 0 ELSE 1)
    BY <1>3 DEF SettledAccounted
  <2>1. applied[u] <= redeliveries + (IF u \in settled THEN 0 ELSE 1)
    BY DEF PaymentInv, SettledAccounted
  <2>2. applied[u] \in Nat
    BY DEF PaymentInv, TypeOK
  <2>3. tx[u].status = "Settled" <=> u \in settled \/ applied[u] > 0
    BY DEF PaymentInv, SettledAccounted
  <2> QED BY <1>2, <1>3, <2>1, <2>2, <2>3, ApplyFrame DEF PaymentInv
<1> QED BY <1>1, <1>2, <1>4, ApplyKeeps DEF PaymentInv

\* Every step of a call of void_invoice keeps the invariant.
LEMMA VoidKeeps ==
    ASSUME PaymentInv, NEW v \in Voiders, VoidStep(v)
    PROVE  PaymentInv'
<1> USE DEF rowVars
<1>1. TypeOK'
  BY PaymentTypeStep DEF PaymentInv, Next
<1>2. AttemptsUncommitted' /\ OneAttemptAtATime' /\ SettledAccounted'
  <2>1. UNCHANGED <<tx, attempt, settled, applied, redeliveries>>
    BY DEF VoidStep, VoidCheck, VoidCommit, VoidRefused
  <2> QED BY <2>1
          DEF PaymentInv, AttemptsUncommitted, OneAttemptAtATime, SettledAccounted
<1>3. CASE VoidCheck(v)
  BY <1>1, <1>2, <1>3
  DEF VoidCheck, PaymentInv, VoidingClosesNoDraft, VoidCreditsOnce
\* The lines are credited only if they were not before, and then the invoice,
\* finalized or uncollectible, is closed.
<1>4. CASE VoidCommit(v)
  <2>1. status # "Draft" /\ status \in InvoiceStatus /\ credited = 0
    BY <1>4 DEF VoidCommit, PaymentInv, VoidingClosesNoDraft, TypeOK
  <2>2. credited' = Total /\ status' \in {"Void", "Uncollectible"}
    BY <1>4, <2>1, PaymentAssumption DEF VoidCommit, InvoiceStatus, PaymentInv, VoidCreditsOnce
  <2> QED BY <1>1, <1>2, <2>2 DEF PaymentInv, VoidingClosesNoDraft, VoidCreditsOnce
<1>5. CASE VoidRefused(v)
  BY <1>1, <1>2, <1>5
  DEF VoidRefused, PaymentInv, VoidingClosesNoDraft, VoidCreditsOnce
<1> QED BY <1>3, <1>4, <1>5 DEF VoidStep

\* Every step keeps the invariant.
LEMMA PaymentInvStep == PaymentInv /\ [Next]_vars => PaymentInv'
<1> SUFFICES ASSUME PaymentInv, [Next]_vars PROVE PaymentInv'
  OBVIOUS
<1>1. TypeOK'
  BY PaymentTypeStep DEF PaymentInv
<1>2. ASSUME NEW a \in Attempts, AttemptStep(a) PROVE PaymentInv'
  BY <1>2, AttemptKeeps
<1>3. ASSUME NEW m \in Manuals, ManualStep(m) PROVE PaymentInv'
  <2>1. PICK x \in Int : RecordManualPayment(m, x)
    BY <1>3, PaymentAssumption
    DEF ManualStep, AddManualPayment, MarkInvoiceAsPaid, PaymentInv, TypeOK
  <2> QED BY <2>1, ManualKeeps
<1>4. ASSUME NEW t \in Txs, OnPaymentSettled(t) \/ OnPaymentSettledUnacked(t)
      PROVE  PaymentInv'
  BY <1>4, SettledKeeps, SettledUnackedKeeps
<1>5. CASE PdfGeneratedZero \/ MarkZeroAmountAsPaid
  BY <1>1, <1>5
  DEF PdfGeneratedZero, MarkZeroAmountAsPaid, rowVars, PaymentInv,
      AttemptsUncommitted, OneAttemptAtATime, SettledAccounted,
      VoidingClosesNoDraft, VoidCreditsOnce
<1>6. CASE Finalize \/ MarkAsUncollectible
  BY <1>1, <1>6
  DEF Finalize, MarkAsUncollectible, PaymentInv, AttemptsUncommitted,
      OneAttemptAtATime, SettledAccounted, VoidingClosesNoDraft, VoidCreditsOnce
<1>7. ASSUME NEW v \in Voiders, VoidStep(v) PROVE PaymentInv'
  BY <1>7, VoidKeeps
<1>8. CASE UNCHANGED vars
  BY <1>1, <1>8
  DEF vars, rowVars, PaymentInv, AttemptsUncommitted, OneAttemptAtATime,
      SettledAccounted, VoidingClosesNoDraft, VoidCreditsOnce
<1> QED BY <1>2, <1>3, <1>4, <1>5, <1>6, <1>7, <1>8 DEF Next

\* However many requests for payment there are, one is in progress at a time.
THEOREM AttemptsStaySerial == Spec => []OneAttemptAtATime
<1>1. PaymentInv => OneAttemptAtATime
  BY DEF PaymentInv
<1> QED BY <1>1, PaymentInvInit, PaymentInvStep, PTL DEF Spec

\* What settled waits to be applied or was applied, nothing else was, and as
\* often as its event was delivered at most.
THEOREM SettledStaysAccounted == Spec => []SettledAccounted
<1>1. PaymentInv => SettledAccounted
  BY DEF PaymentInv
<1> QED BY <1>1, PaymentInvInit, PaymentInvStep, PTL DEF Spec

\* However many calls void the invoice, its customer is credited once, and only
\* for an invoice that is closed.
THEOREM VoidingCreditsOnce == Spec => []VoidCreditsOnce
<1>1. PaymentInv => VoidCreditsOnce
  BY DEF PaymentInv
<1> QED BY <1>1, PaymentInvInit, PaymentInvStep, PTL DEF Spec

\* Void and uncollectible are final, and no invoice returns to draft once it is
\* finalized: what read an older state of the row cannot bring that state back.
THEOREM ClosedForGood == Spec => ClosedStaysClosed
<1>1. [Next]_vars =>
        [/\ status \in {"Void", "Uncollectible"} => status' = status
         /\ status = "Finalized" => status' # "Draft"]_vars
  <2> SUFFICES ASSUME Next
               PROVE  /\ status \in {"Void", "Uncollectible"} => status' = status
                      /\ status = "Finalized" => status' # "Draft"
    OBVIOUS
  <2>1. ASSUME NEW a \in Attempts, AttemptStep(a)
        PROVE  status' = status \/ status = "Draft"
    BY <2>1 DEF AttemptStep, BeginPayment, ProviderCreates, ProviderResolves,
          PaymentReturns, PaymentFails, Webhook, rowVars
  <2>2. ASSUME NEW m \in Manuals, ManualStep(m)
        PROVE  status' = status
    BY <2>2 DEF ManualStep, AddManualPayment, MarkInvoiceAsPaid,
          RecordManualPayment, rowVars
  <2>3. ASSUME NEW t \in Txs, OnPaymentSettled(t) \/ OnPaymentSettledUnacked(t)
        PROVE  status' = status \/ status = "Draft"
    BY <2>3 DEF OnPaymentSettled, OnPaymentSettledUnacked, ApplyTransaction
  <2>4. CASE PdfGeneratedZero \/ MarkZeroAmountAsPaid
    BY <2>4 DEF PdfGeneratedZero, MarkZeroAmountAsPaid, rowVars
  <2>5. CASE Finalize \/ MarkAsUncollectible
    BY <2>5 DEF Finalize, MarkAsUncollectible
  <2>6. ASSUME NEW v \in Voiders, VoidStep(v)
        PROVE  status' = status \/ (status = "Finalized" /\ status' = "Void")
    BY <2>6 DEF VoidStep, VoidCheck, VoidCommit, VoidRefused, rowVars
  <2> QED BY <2>1, <2>2, <2>3, <2>4, <2>5, <2>6 DEF Next
<1> QED BY <1>1, PTL DEF Spec, ClosedStaysClosed

-----------------------------------------------------------------------------
(* The amounts.  Sums are reasoned about with the lemmas of module Sums.   *)

AmountOf == [t \in Txs |-> tx[t].amount]
NextAmounts(S) == SumFunctionOnSet([t \in Txs |-> tx'[t].amount], S)
AppliedAmount == [t \in Txs |-> applied[t] * tx[t].amount]

\* Every set of transactions has a sum of amounts.
LEMMA AmountsSummable ==
    ASSUME TypeOK, NEW S \in SUBSET Txs
    PROVE  /\ Summable(AmountOf, S)
           /\ Amounts(S) = SumFunctionOnSet(AmountOf, S)
           /\ Amounts(S) \in Int
<1>1. IsFiniteSet(Txs)
  BY PaymentAssumption, FS_Union DEF Txs
<1>2. IsFiniteSet(S)
  BY <1>1, FS_Subset
<1>3. Summable(AmountOf, S)
  BY <1>2 DEF Summable, AmountOf, TypeOK
<1>4. Amounts(S) = SumFunctionOnSet(AmountOf, S)
  BY DEF Amounts, AmountOf
<1> QED BY <1>3, <1>4, SumInt

LEMMA AmountsAdd ==
    ASSUME TypeOK, NEW S \in SUBSET Txs, NEW t \in Txs \ S
    PROVE  Amounts(S \cup {t}) = Amounts(S) + tx[t].amount
<1>1. /\ Summable(AmountOf, S) /\ Amounts(S) = SumFunctionOnSet(AmountOf, S)
      /\ Amounts(S) \in Int
  BY AmountsSummable
<1>2. S \cup {t} \in SUBSET Txs
  OBVIOUS
<1>3. Amounts(S \cup {t}) = SumFunctionOnSet(AmountOf, S \cup {t})
  BY <1>2, AmountsSummable
<1>4. t \in DOMAIN AmountOf /\ AmountOf[t] = tx[t].amount /\ AmountOf[t] \in Int
  BY DEF AmountOf, TypeOK
<1>5. SumFunctionOnSet(AmountOf, S \cup {t}) = AmountOf[t] + SumFunctionOnSet(AmountOf, S)
  BY <1>1, <1>4, SumAdd
<1> QED BY <1>1, <1>3, <1>4, <1>5

\* A sum of amounts that are all there is no less than a part of it.
LEMMA AmountsPart ==
    ASSUME TypeOK, NEW S \in SUBSET Txs, NEW T \in SUBSET S,
           \A t \in S : tx[t].amount >= 0
    PROVE  Amounts(T) <= Amounts(S)
<1> DEFINE U == S \ T
<1>1. U \in SUBSET Txs /\ T \in SUBSET Txs /\ T \cup U = S /\ T \cap U = {}
  OBVIOUS
<1> HIDE DEF U
<1>2. /\ Summable(AmountOf, T) /\ Amounts(T) = SumFunctionOnSet(AmountOf, T)
      /\ Amounts(T) \in Int
  BY <1>1, AmountsSummable
<1>3. Summable(AmountOf, U) /\ SumFunctionOnSet(AmountOf, U) \in Int
  BY <1>1, AmountsSummable
<1>4. Amounts(S) = SumFunctionOnSet(AmountOf, S)
  BY AmountsSummable
<1>5. SumFunctionOnSet(AmountOf, S) = SumFunctionOnSet(AmountOf, T) + SumFunctionOnSet(AmountOf, U)
  BY <1>1, <1>2, <1>3, SumDisjoint
<1>6. \A t \in U : AmountOf[t] >= 0
  BY <1>1 DEF AmountOf
<1>7. SumFunctionOnSet(AmountOf, U) >= 0
  BY <1>3, <1>6, SumNat
<1> QED BY <1>2, <1>3, <1>4, <1>5, <1>7

\* A step that leaves the amounts of a set alone leaves their sum alone.
LEMMA AmountsSame ==
    ASSUME TypeOK, TypeOK', NEW S \in SUBSET Txs, \A t \in S : tx'[t].amount = tx[t].amount
    PROVE  NextAmounts(S) = Amounts(S)
<1> DEFINE now == AmountOf
           next == [t \in Txs |-> tx'[t].amount]
<1>1. Summable(now, S) /\ Amounts(S) = SumFunctionOnSet(now, S)
  BY AmountsSummable
<1>2. NextAmounts(S) = SumFunctionOnSet(next, S)
  BY DEF NextAmounts
<1>3. S \subseteq DOMAIN next /\ \A t \in S : now[t] = next[t]
  BY DEF AmountOf
<1> HIDE DEF now, next
<1> QED BY <1>1, <1>2, <1>3, SumSame

\* What is due keeps matching what was applied when a step changes neither, nor
\* the amount of a transaction that was applied.
LEMMA DueKept ==
    ASSUME TypeOK, TypeOK', DueMatchesApplied, UNCHANGED <<due, applied>>,
           \A t \in Txs : applied[t] = 0 \/ tx'[t].amount = tx[t].amount
    PROVE  DueMatchesApplied'
<1>1. \A t \in Txs : applied[t] * tx[t].amount = applied[t] * tx'[t].amount
  <2> SUFFICES ASSUME NEW t \in Txs
               PROVE  applied[t] * tx[t].amount = applied[t] * tx'[t].amount
    OBVIOUS
  <2>1. tx[t].amount \in Int /\ tx'[t].amount \in Int
    BY DEF TypeOK
  <2> QED BY <2>1
<1>2. [t \in Txs |-> applied[t] * tx[t].amount] = [t \in Txs |-> applied[t] * tx'[t].amount]
  BY <1>1
<1> QED BY <1>2 DEF DueMatchesApplied

\* Applying a transaction subtracts its amount and counts it once more.
LEMMA DueApplied ==
    ASSUME TypeOK, TypeOK', DueMatchesApplied, NEW t \in Txs, ApplyTransaction(t)
    PROVE  DueMatchesApplied'
<1> DEFINE now == AppliedAmount
           next == [u \in Txs |-> applied'[u] * tx'[u].amount]
<1>1. IsFiniteSet(Txs)
  BY PaymentAssumption, FS_Union DEF Txs
<1>2. \A u \in Txs : now[u] \in Int /\ next[u] \in Int
  <2> SUFFICES ASSUME NEW u \in Txs PROVE now[u] \in Int /\ next[u] \in Int
    OBVIOUS
  <2>1. /\ applied[u] \in Int /\ tx[u].amount \in Int
        /\ applied'[u] \in Int /\ tx'[u].amount \in Int
    BY DEF TypeOK
  <2> QED BY <2>1 DEF AppliedAmount
<1>3. Summable(now, Txs) /\ Summable(next, Txs)
  BY <1>1, <1>2 DEF Summable, AppliedAmount
<1>4. tx' = tx /\ due' = due - tx[t].amount
  BY DEF ApplyTransaction
<1>5. \A u \in Txs \ {t} : now[u] = next[u]
  BY <1>4, ApplyFrame DEF AppliedAmount
<1>6. next[t] = now[t] + tx[t].amount
  <2>1. applied[t] \in Int /\ tx[t].amount \in Int
    BY DEF TypeOK
  <2>2. next[t] = (applied[t] + 1) * tx[t].amount
    BY <1>4, ApplyFrame
  <2>3. now[t] = applied[t] * tx[t].amount
    BY DEF AppliedAmount
  <2>4. (applied[t] + 1) * tx[t].amount = applied[t] * tx[t].amount + tx[t].amount
    BY <2>1
  <2> QED BY <2>2, <2>3, <2>4
<1>7. SumFunctionOnSet(next, Txs) = SumFunctionOnSet(now, Txs) + next[t] - now[t]
  <2> HIDE DEF now, next
  <2> QED BY <1>3, <1>5, SumChange
<1>8. /\ due = Total - SumFunctionOnSet(now, Txs)
      /\ DueMatchesApplied' <=> due' = Total - SumFunctionOnSet(next, Txs)
  BY DEF DueMatchesApplied, SumFunction, AppliedAmount
<1>9. SumFunctionOnSet(now, Txs) \in Int /\ now[t] \in Int /\ tx[t].amount \in Int
  BY <1>3, <1>2, SumInt DEF TypeOK
<1> HIDE DEF now, next
<1> QED BY <1>4, <1>6, <1>7, <1>8, <1>9, PaymentAssumption

\* Statuses and amounts that stay, and attempts that do not begin, keep what is
\* said of the transactions alone.
LEMMA MoneyFrame ==
    ASSUME PaymentInv, TypeOK', MoneyInv, UNCHANGED tx,
           \A a \in Attempts : attempt'[a] = "waiting" => attempt[a] = "waiting"
    PROVE  WaitingCovered' /\ AmountsSane' /\ CardPaymentsBounded'
<1>1. /\ WithStatus({"Pending"})' = WithStatus({"Pending"})
      /\ Active' = Active
  BY DEF WithStatus, Active
<1>2. \A S : Amounts(S)' = Amounts(S)
  BY DEF Amounts
<1>3. WaitingCovered'
  BY <1>1, <1>2 DEF MoneyInv, WaitingCovered
<1>4. AmountsSane'
  BY DEF MoneyInv, AmountsSane
<1>5. CardPaymentsBounded'
  BY <1>1, <1>2 DEF MoneyInv, CardPaymentsBounded
<1> QED BY <1>3, <1>4, <1>5

\* A committed attempt was covered: its amount and what is active fit the total.
LEMMA BeginCovered ==
    ASSUME PaymentInv, MoneyInv, NEW a \in Attempts, BeginPayment(a), TypeOK'
    PROVE  MoneyInv'
<1> USE DEF rowVars
<1>1. /\ a \in Txs /\ tx[a].status = "None" /\ applied[a] = 0 /\ a \notin Active
      /\ due \in Int /\ due > 0
  <2>1. a \in Txs /\ tx[a].status = "None"
    BY DEF BeginPayment, PaymentInv, AttemptsUncommitted, Txs
  <2>2. applied[a] = 0
    BY <2>1 DEF PaymentInv, SettledAccounted, TypeOK
  <2> QED BY <2>1, <2>2 DEF Active, WithStatus, BeginPayment, PaymentInv, TypeOK
<1>2. /\ tx'[a].amount = due
      /\ \A t \in Txs : tx'[t].status = tx[t].status
      /\ \A t \in Txs \ {a} : tx'[t] = tx[t]
  BY <1>1 DEF BeginPayment, PaymentInv, TypeOK
<1>3. /\ Active' = Active /\ Active \in SUBSET Txs
      /\ WithStatus({"Pending"})' = WithStatus({"Pending"})
  BY <1>2 DEF Active, WithStatus
<1>4. \A S \in SUBSET Active : NextAmounts(S) = Amounts(S)
  BY <1>1, <1>2, <1>3, AmountsSame DEF PaymentInv
<1>5. WaitingCovered'
  <2>1. \A b \in Attempts : attempt'[b] = "waiting" => b = a
    BY DEF BeginPayment, Unlocked, PaymentInv, TypeOK
  <2>2. Amounts(Active)' = Amounts(Active)
    BY <1>3, <1>4 DEF Amounts, NextAmounts
  <2>3. Amounts(Active) + due <= Total /\ WithStatus({"Pending"}) = {}
    BY DEF BeginPayment
  <2> QED BY <1>2, <1>3, <2>1, <2>2, <2>3 DEF WaitingCovered
<1>6. AmountsSane'
  BY <1>1, <1>2, PaymentAssumption DEF MoneyInv, AmountsSane, Txs
<1>7. CardPaymentsBounded'
  <2>1. \A m \in Manuals : tx'[m].amount = tx[m].amount
    BY <1>2, PaymentAssumption DEF Txs
  <2>2. Amounts(Active \cap Attempts)' = Amounts(Active \cap Attempts)
    BY <1>3, <1>4 DEF Amounts, NextAmounts
  <2> QED BY <1>3, <2>1, <2>2 DEF MoneyInv, CardPaymentsBounded
<1>8. DueMatchesApplied'
  BY <1>1, <1>2, DueKept DEF BeginPayment, PaymentInv, MoneyInv
<1> QED BY <1>5, <1>6, <1>7, <1>8 DEF MoneyInv

\* Consolidating changes no amount; whoever consolidates, nobody waits any more.
LEMMA ConsolidateMoney ==
    ASSUME PaymentInv, MoneyInv, TypeOK', NEW a \in Attempts, Consolidate(a),
           tx[a].status # "Settled", UNCHANGED <<due, applied>>,
           \A b \in Attempts : attempt'[b] # "waiting",
           \/ tx[a].status = "Pending"
           \/ tx[a].status = "None" /\ attempt[a] = "waiting"
    PROVE  MoneyInv'
<1>1. a \in Txs
  BY DEF Txs
<1>2. /\ \A t \in Txs : tx'[t].amount = tx[t].amount
      /\ \A t \in Txs \ {a} : tx'[t].status = tx[t].status
  BY <1>1 DEF Consolidate, PaymentInv, TypeOK
<1>3. WaitingCovered'
  BY DEF WaitingCovered
<1>4. AmountsSane'
  BY <1>1, <1>2, PaymentAssumption DEF MoneyInv, AmountsSane, Txs
<1>5. DueMatchesApplied'
  BY <1>2, DueKept DEF PaymentInv, MoneyInv
<1>6. CardPaymentsBounded'
  <2> DEFINE cards == Active \cap Attempts
             next == cards'
  <2> SUFFICES ASSUME \A m \in Manuals : tx[m].amount >= 0
               PROVE  NextAmounts(next) <= Total
    BY <1>2 DEF CardPaymentsBounded, Amounts, NextAmounts, Txs
  <2>1. /\ cards \in SUBSET Txs /\ next \in SUBSET Txs /\ Active \in SUBSET Txs
        /\ Attempts \subseteq Txs /\ cards \in SUBSET Active
    BY DEF Active, WithStatus, Txs
  <2>2. next \subseteq cards \cup {a}
    BY <1>2 DEF Active, WithStatus
  <2>3. \A t \in Txs : tx[t].amount >= 0
    BY DEF MoneyInv, AmountsSane, Txs
  <2>4. a \in cards <=> tx[a].status = "Pending"
    BY <1>1 DEF Active, WithStatus
  <2>5. NextAmounts(next) = Amounts(next)
    <3> HIDE DEF cards, next
    <3> QED BY <1>2, <2>1, AmountsSame DEF PaymentInv
  <2>6. CASE tx[a].status = "Pending"
    <3>1. next \in SUBSET cards
      BY <2>2, <2>4, <2>6
    <3>2. Amounts(next) <= Amounts(cards)
      <4> HIDE DEF cards, next
      <4> QED BY <3>1, <2>1, <2>3, AmountsPart DEF PaymentInv
    <3>3. Amounts(cards) <= Total
      BY DEF MoneyInv, CardPaymentsBounded
    <3>4. Amounts(cards) \in Int /\ Amounts(next) \in Int
      <4> HIDE DEF cards, next
      <4> QED BY <2>1, AmountsSummable DEF PaymentInv
    <3> HIDE DEF cards, next
    <3> QED BY <2>5, <3>2, <3>3, <3>4, PaymentAssumption
  <2>7. CASE tx[a].status = "None" /\ attempt[a] = "waiting"
    <3> DEFINE more == Active \cup {a}
    <3>1. a \in Txs \ Active
      BY <1>1, <2>7 DEF Active, WithStatus
    <3>2. Amounts(more) = Amounts(Active) + tx[a].amount
      BY <3>1, <2>1, AmountsAdd DEF PaymentInv
    <3>3. Amounts(Active) + tx[a].amount <= Total
      BY <2>7 DEF MoneyInv, WaitingCovered
    <3>4. next \in SUBSET more /\ more \in SUBSET Txs
      BY <2>1, <2>2, <3>1
    <3>5. Amounts(next) <= Amounts(more)
      <4> HIDE DEF cards, next, more
      <4> QED BY <3>4, <2>3, AmountsPart DEF PaymentInv
    <3>6. Amounts(more) \in Int /\ Amounts(next) \in Int
      <4> HIDE DEF cards, next, more
      <4> QED BY <3>4, <2>1, AmountsSummable DEF PaymentInv
    <3> HIDE DEF cards, next, more
    <3> QED BY <2>5, <3>2, <3>3, <3>5, <3>6, PaymentAssumption
  <2> QED BY <2>6, <2>7
<1> QED BY <1>3, <1>4, <1>5, <1>6 DEF MoneyInv

\* Every step of a card attempt keeps the amounts in order.
LEMMA AttemptMoney ==
    ASSUME PaymentInv, MoneyInv, NEW a \in Attempts, AttemptStep(a), TypeOK'
    PROVE  MoneyInv'
<1> USE DEF rowVars
<1>1. CASE BeginPayment(a)
  BY <1>1, BeginCovered
<1>2. CASE ProviderCreates(a) \/ ProviderResolves(a) \/ PaymentFails(a)
  <2>1. /\ UNCHANGED <<tx, due, applied>>
        /\ \A b \in Attempts : attempt'[b] = "waiting" => attempt[b] = "waiting"
    BY <1>2 DEF ProviderCreates, ProviderResolves, PaymentFails, PaymentInv, TypeOK
  <2>2. DueMatchesApplied'
    BY <2>1, DueKept DEF PaymentInv, MoneyInv
  <2> QED BY <2>1, <2>2, MoneyFrame DEF MoneyInv
<1>3. CASE PaymentReturns(a)
  <2>1. /\ Consolidate(a) /\ tx[a].status = "None" /\ attempt[a] = "waiting"
        /\ UNCHANGED <<due, applied>>
    BY <1>3 DEF PaymentReturns, PaymentInv, AttemptsUncommitted
  <2>2. \A b \in Attempts : attempt'[b] # "waiting"
    BY <1>3, <2>1 DEF PaymentReturns, PaymentInv, OneAttemptAtATime, TypeOK
  <2> QED BY <2>1, <2>2, ConsolidateMoney
<1>4. CASE Webhook(a)
  <2>1. Consolidate(a) /\ tx[a].status = "Pending" /\ UNCHANGED <<due, applied, attempt>>
    BY <1>4 DEF Webhook
  <2>2. \A b \in Attempts : attempt'[b] # "waiting"
    BY <2>1 DEF PaymentInv, AttemptsUncommitted, OneAttemptAtATime
  <2> QED BY <2>1, <2>2, ConsolidateMoney
<1> QED BY <1>1, <1>2, <1>3, <1>4 DEF AttemptStep

\* A manual payment is recorded while no attempt waits, and is no card payment.
LEMMA ManualMoney ==
    ASSUME PaymentInv, MoneyInv, NEW m \in Manuals, NEW x \in Int,
           RecordManualPayment(m, x), TypeOK'
    PROVE  MoneyInv'
<1> USE DEF rowVars
<1>1. /\ m \in Txs /\ m \notin Attempts /\ tx[m].status = "None"
      /\ tx'[m].status = "Settled"
      /\ \A t \in Txs \ {m} : tx'[t] = tx[t]
      /\ \A a \in Attempts : tx'[a] = tx[a] /\ attempt'[a] # "waiting"
  BY PaymentAssumption DEF RecordManualPayment, Unlocked, PaymentInv, TypeOK, Txs
<1>2. applied[m] = 0 /\ tx[m].amount = 0
  BY <1>1 DEF PaymentInv, SettledAccounted, TypeOK, MoneyInv, AmountsSane
<1>3. WaitingCovered'
  BY <1>1 DEF WaitingCovered
<1>4. AmountsSane'
  BY <1>1 DEF MoneyInv, AmountsSane, Txs
<1>5. CardPaymentsBounded'
  <2> DEFINE cards == Active \cap Attempts
  <2>1. cards' = cards /\ cards \in SUBSET Txs /\ cards \subseteq Attempts
    BY <1>1 DEF Active, WithStatus, Txs
  <2>2. ASSUME NEW S \in SUBSET Txs, S \subseteq Attempts
        PROVE  NextAmounts(S) = Amounts(S)
    BY <1>1, <2>2, AmountsSame DEF PaymentInv
  <2>3. Amounts(cards)' = Amounts(cards)
    BY <2>1, <2>2 DEF Amounts, NextAmounts
  <2>4. (\A t \in Manuals : tx'[t].amount >= 0) => \A t \in Manuals : tx[t].amount >= 0
    BY <1>1, <1>2 DEF Txs
  <2> QED BY <2>1, <2>3, <2>4 DEF MoneyInv, CardPaymentsBounded
<1>6. DueMatchesApplied'
  BY <1>1, <1>2, DueKept DEF RecordManualPayment, PaymentInv, MoneyInv
<1> QED BY <1>3, <1>4, <1>5, <1>6 DEF MoneyInv

\* The invariant of the amounts holds of a new draft.
LEMMA MoneyInit == Init => MoneyInv
<1> SUFFICES ASSUME Init PROVE MoneyInv
  OBVIOUS
<1>1. TypeOK
  BY PaymentTypeInit
<1>2. WaitingCovered /\ AmountsSane
  BY DEF Init, WaitingCovered, AmountsSane, Txs
<1>3. CardPaymentsBounded
  <2>1. Active \cap Attempts = {}
    BY DEF Init, Active, WithStatus
  <2>2. Amounts({}) = 0
    BY SumEmpty DEF Amounts
  <2> QED BY <2>1, <2>2, PaymentAssumption DEF CardPaymentsBounded
<1>4. DueMatchesApplied
  <2> DEFINE none == AppliedAmount
  <2>1. \A t \in Txs : none[t] = 0
    BY DEF AppliedAmount, Init
  <2>2. IsFiniteSet(Txs)
    BY PaymentAssumption, FS_Union DEF Txs
  <2>3. Summable(none, Txs)
    BY <2>1, <2>2 DEF Summable, AppliedAmount
  <2>4. SumFunctionOnSet(none, Txs) = 0
    <3> HIDE DEF none
    <3> QED BY <2>1, <2>3, SumZero
  <2>5. DueMatchesApplied <=> due = Total - SumFunctionOnSet(none, Txs)
    BY DEF DueMatchesApplied, SumFunction, AppliedAmount
  <2>6. due = Total
    BY DEF Init
  <2> HIDE DEF none
  <2> QED BY <2>4, <2>5, <2>6, PaymentAssumption
<1> QED BY <1>2, <1>3, <1>4 DEF MoneyInv

\* Every step keeps the amounts in order.
LEMMA MoneyStep == PaymentInv /\ MoneyInv /\ [Next]_vars => MoneyInv'
<1> SUFFICES ASSUME PaymentInv, MoneyInv, [Next]_vars PROVE MoneyInv'
  OBVIOUS
<1> USE DEF rowVars
<1>1. TypeOK'
  BY PaymentTypeStep DEF PaymentInv
<1>2. ASSUME NEW a \in Attempts, AttemptStep(a) PROVE MoneyInv'
  BY <1>1, <1>2, AttemptMoney
<1>3. ASSUME NEW m \in Manuals, ManualStep(m) PROVE MoneyInv'
  <2>1. PICK x \in Int : RecordManualPayment(m, x)
    BY <1>3, PaymentAssumption
    DEF ManualStep, AddManualPayment, MarkInvoiceAsPaid, PaymentInv, TypeOK
  <2> QED BY <1>1, <2>1, ManualMoney
<1>4. ASSUME NEW t \in Txs, OnPaymentSettled(t) \/ OnPaymentSettledUnacked(t)
      PROVE  MoneyInv'
  <2>1. ApplyTransaction(t)
    BY <1>4 DEF OnPaymentSettled, OnPaymentSettledUnacked
  <2>2. DueMatchesApplied'
    BY <1>1, <2>1, DueApplied DEF PaymentInv, MoneyInv
  <2>3. UNCHANGED <<tx, attempt>>
    BY <2>1 DEF ApplyTransaction
  <2> QED BY <1>1, <2>2, <2>3, MoneyFrame DEF MoneyInv
<1>5. ASSUME UNCHANGED <<tx, attempt, due, applied>> PROVE MoneyInv'
  <2>1. DueMatchesApplied'
    BY <1>1, <1>5, DueKept DEF PaymentInv, MoneyInv
  <2> QED BY <1>1, <1>5, <2>1, MoneyFrame DEF MoneyInv
<1>6. CASE PdfGeneratedZero \/ MarkZeroAmountAsPaid \/ Finalize \/ MarkAsUncollectible
  BY <1>5, <1>6 DEF PdfGeneratedZero, MarkZeroAmountAsPaid, Finalize, MarkAsUncollectible
<1>7. ASSUME NEW v \in Voiders, VoidStep(v) PROVE MoneyInv'
  BY <1>5, <1>7 DEF VoidStep, VoidCheck, VoidCommit, VoidRefused
<1>8. CASE UNCHANGED vars
  BY <1>5, <1>8 DEF vars
<1> QED BY <1>2, <1>3, <1>4, <1>6, <1>7, <1>8 DEF Next

\* The card transactions that are or may become money stay within the total,
\* whatever manual payments and lagging handlers do, as long as no operator
\* records a negative payment.
THEOREM CardPaymentsStayBounded == Spec => []CardPaymentsBounded
<1>1. MoneyInv => CardPaymentsBounded
  BY DEF MoneyInv
<1> QED BY <1>1, PaymentInvInit, PaymentInvStep, MoneyInit, MoneyStep, PTL DEF Spec

\* What is due is the total less what was applied, each transaction as often as
\* it was applied.
THEOREM DueStaysMatched == Spec => []DueMatchesApplied
<1>1. MoneyInv => DueMatchesApplied
  BY DEF MoneyInv
<1> QED BY <1>1, PaymentInvInit, PaymentInvStep, MoneyInit, MoneyStep, PTL DEF Spec

=============================================================================
