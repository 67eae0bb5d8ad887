-------------------------- MODULE InvoicePayments ---------------------------
(***************************************************************************)
(* The payments of one invoice.                                            *)
(*                                                                         *)
(* An invoice is paid by card attempts, which ask a payment provider for   *)
(* the whole amount due (services/payment/process_payment.rs), and by      *)
(* manual payments an operator records (services/payment/manual.rs).  A    *)
(* payment that settles does not change the invoice itself: it leaves an   *)
(* event in the outbox, and the handler of that event subtracts its amount *)
(* from amount_due (orchestration/payment_transaction_settled.rs).  Events *)
(* are delivered at least once, provider answers and webhooks come when    *)
(* they come, and meanwhile an operator may void the invoice or mark it as *)
(* uncollectible.                                                          *)
(*                                                                         *)
(* Every handler that takes the invoice's row lock is one step, except for *)
(* a card attempt: it holds the lock while it waits for the provider.      *)
(***************************************************************************)
EXTENDS Integers, FiniteSets, Functions

CONSTANTS
    Attempts,        \* payment transactions of card attempts
    Manuals,         \* payment transactions of manual payments
    Voiders,         \* concurrent calls of void_invoice
    Total,           \* invoice.total
    MaxRedeliveries  \* bound: settled events that are handled and come again

ASSUME PaymentAssumption ==
    /\ IsFiniteSet(Attempts) /\ IsFiniteSet(Manuals)
    /\ Attempts \cap Manuals = {}
    /\ Total \in Nat \ {0}
    /\ MaxRedeliveries \in Nat

Txs == Attempts \cup Manuals

InvoiceStatus == {"Draft", "Finalized", "Void", "Uncollectible"}
InvoicePaymentStatus == {"Unpaid", "PartiallyPaid", "Paid"}

\* "None" is a transaction that has not been committed, or never will be.
PaymentStatus == {"None", "Pending", "Settled", "Failed", "Cancelled"}

\* What the provider knows of the intent of an attempt.
IntentStatus == {"None", "Processing", "Succeeded", "Failed", "Canceled",
                 "RequiresPaymentMethod"}

VARIABLES
    status,        \* invoice.status
    payment,       \* invoice.payment_status
    due,           \* invoice.amount_due
    tx,            \* payment_transaction: its status, and the amount asked
    attempt,       \* process_invoice_payment_tx: not begun, waiting, over
    intent,        \* the provider's payment intent of each attempt
    settled,       \* transactions whose settled event waits in its queue
    redeliveries,  \* how many handled events have come again
    voiding,       \* calls of void_invoice that have validated the invoice
    zeroing,       \* the PDF handler has seen an unpaid invoice with nothing due
    credited,      \* what voiding has credited to the customer's balance
    applied        \* history: how often each transaction was applied

rowVars == <<status, payment, due>>
vars == <<rowVars, tx, attempt, intent, settled, redeliveries, voiding,
          zeroing, credited, applied>>

Init ==
    /\ status = "Draft"
    /\ payment = "Unpaid"
    /\ due = Total
    /\ tx = [t \in Txs |-> [status |-> "None", amount |-> 0]]
    /\ attempt = [a \in Attempts |-> "new"]
    /\ intent = [a \in Attempts |-> "None"]
    /\ settled = {}
    /\ redeliveries = 0
    /\ voiding = {}
    /\ zeroing = FALSE
    /\ credited = 0
    /\ applied = [t \in Txs |-> 0]

\* Nobody holds the invoice's row lock across a wait.
Unlocked == \A a \in Attempts : attempt[a] # "waiting"

Amounts(S) == SumFunctionOnSet([t \in Txs |-> tx[t].amount], S)

WithStatus(S) == {t \in Txs : tx[t].status \in S}

-----------------------------------------------------------------------------
(* Card attempts.                                                          *)

\* Mutant: the provider's word for the status is stored as it comes.
StatusOfUnmapped(i) == i

\* What a payment intent's status says of its transaction.
StatusOf(i) ==
    CASE i = "Succeeded" -> "Settled"
      [] i = "Failed"    -> "Failed"
      [] i = "Canceled"  -> "Cancelled"
      [] OTHER           -> "Pending"

\* Transactions that are or may become money for this invoice.
Active == WithStatus({"Pending", "Settled"})

\* Mutant: the invoice is read without locking its row.
BeginPaymentUnlocked(a) ==
    /\ attempt[a] = "new"
    /\ status \in {"Draft", "Finalized"}
    /\ due > 0
    /\ WithStatus({"Pending"}) = {}
    /\ Amounts(Active) < Total
    /\ Amounts(Active) + due <= Total
    /\ attempt' = [attempt EXCEPT ![a] = "waiting"]
    /\ tx' = [tx EXCEPT ![a].amount = due]
    /\ UNCHANGED <<rowVars, intent, settled, redeliveries, voiding, zeroing,
                   credited, applied>>

\* Mutant: amount_due is trusted to know of every payment.
BeginPaymentOnDue(a) ==
    /\ attempt[a] = "new"
    /\ Unlocked
    /\ status \in {"Draft", "Finalized"}
    /\ due > 0
    /\ WithStatus({"Pending"}) = {}
    /\ attempt' = [attempt EXCEPT ![a] = "waiting"]
    /\ tx' = [tx EXCEPT ![a].amount = due]
    /\ UNCHANGED <<rowVars, intent, settled, redeliveries, voiding, zeroing,
                   credited, applied>>

\* process_invoice_payment_tx up to its call of the provider, for whatever is
\* due.  The row it inserts is not committed yet.
BeginPayment(a) ==
    /\ attempt[a] = "new"
    /\ Unlocked
    /\ status \in {"Draft", "Finalized"}
    /\ due > 0
    /\ WithStatus({"Pending"}) = {}
    /\ Amounts(Active) < Total
    /\ Amounts(Active) + due <= Total
    /\ attempt' = [attempt EXCEPT ![a] = "waiting"]
    /\ tx' = [tx EXCEPT ![a].amount = due]
    /\ UNCHANGED <<rowVars, intent, settled, redeliveries, voiding, zeroing,
                   credited, applied>>

\* The provider receives the request, perhaps after its sender gave up.
ProviderCreates(a) ==
    /\ attempt[a] # "new"
    /\ intent[a] = "None"
    /\ \E i \in {"Processing", "Succeeded"} : intent' = [intent EXCEPT ![a] = i]
    /\ UNCHANGED <<rowVars, tx, attempt, settled, redeliveries, voiding,
                   zeroing, credited, applied>>

\* A payment that was processing comes to its end.
ProviderResolves(a) ==
    /\ intent[a] = "Processing"
    /\ \E i \in IntentStatus \ {"None", "Processing"} :
        intent' = [intent EXCEPT ![a] = i]
    /\ UNCHANGED <<rowVars, tx, attempt, settled, redeliveries, voiding,
                   zeroing, credited, applied>>

\* Mutant: a transaction that settles leaves no event.
ConsolidateSilent(a) ==
    /\ tx' = [tx EXCEPT ![a].status = StatusOf(intent[a])]
    /\ UNCHANGED settled

\* consolidate_intent_and_transaction_tx: the status of the intent becomes the
\* transaction's, with an event when it has settled.
Consolidate(a) ==
    /\ tx' = [tx EXCEPT ![a].status = StatusOf(intent[a])]
    /\ settled' = IF StatusOf(intent[a]) = "Settled" THEN settled \cup {a}
                                                     ELSE settled

\* The provider's answer: the attempt is committed with the status of the
\* intent.  A checkout finalizes the draft it has just paid in the same
\* database transaction; a portal or queued payment leaves it as it is.
PaymentReturns(a) ==
    /\ attempt[a] = "waiting"
    /\ intent[a] # "None"
    /\ Consolidate(a)
    /\ attempt' = [attempt EXCEPT ![a] = "over"]
    /\ \/ UNCHANGED status
       \/ /\ status = "Draft"
          /\ StatusOf(intent[a]) = "Settled"
          /\ status' = "Finalized"
    /\ UNCHANGED <<payment, due, intent, redeliveries, voiding, zeroing,
                   credited, applied>>

\* No answer in time, an error for an answer, or a crash: everything is rolled
\* back, whatever the provider has done or will do.
PaymentFails(a) ==
    /\ attempt[a] = "waiting"
    /\ attempt' = [attempt EXCEPT ![a] = "over"]
    /\ UNCHANGED <<rowVars, tx, intent, settled, redeliveries, voiding,
                   zeroing, credited, applied>>

\* Mutant: a webhook that comes again is handled again.
WebhookAgain(a) ==
    /\ intent[a] \in {"Succeeded", "Failed", "RequiresPaymentMethod"}
    /\ tx[a].status # "None"
    /\ Consolidate(a)
    /\ UNCHANGED <<rowVars, attempt, intent, redeliveries, voiding, zeroing,
                   credited, applied>>

\* The webhook of an intent that succeeded or failed.  It may come again and
\* again; it finds no transaction to settle when the attempt was rolled back,
\* and changes nothing once the transaction is in a terminal state.
Webhook(a) ==
    /\ intent[a] \in {"Succeeded", "Failed", "RequiresPaymentMethod"}
    /\ tx[a].status = "Pending"
    /\ Consolidate(a)
    /\ UNCHANGED <<rowVars, attempt, intent, redeliveries, voiding, zeroing,
                   credited, applied>>

-----------------------------------------------------------------------------
(* Manual payments.                                                        *)

\* Mutant: the payment is subtracted at once, and by its event again.
RecordManualPaymentAtOnce(m, x) ==
    /\ Unlocked
    /\ tx[m].status = "None"
    /\ status = "Finalized"
    /\ tx' = [tx EXCEPT ![m] = [status |-> "Settled", amount |-> x]]
    /\ settled' = settled \cup {m}
    /\ due' = due - x
    /\ UNCHANGED <<status, payment, attempt, intent, redeliveries, voiding,
                   zeroing, credited, applied>>

\* A manual payment is a transaction that has settled, with its event.
RecordManualPayment(m, x) ==
    /\ Unlocked
    /\ tx[m].status = "None"
    /\ status = "Finalized"
    /\ tx' = [tx EXCEPT ![m] = [status |-> "Settled", amount |-> x]]
    /\ settled' = settled \cup {m}
    /\ UNCHANGED <<rowVars, attempt, intent, redeliveries, voiding, zeroing,
                   credited, applied>>

\* add_manual_payment_transaction, for a part of what is due.
AddManualPayment(m, x) ==
    /\ x > 0
    /\ x <= due
    /\ RecordManualPayment(m, x)

\* mark_invoice_as_paid, for exactly what is due, be it nothing or less.
MarkInvoiceAsPaid(m) == RecordManualPayment(m, due)

-----------------------------------------------------------------------------
(* The handlers of the invoice's events.                                   *)

\* Mutant: whatever is not finalized is finalized, not drafts alone.
ApplyTransactionReopens(t) ==
    /\ t \in settled
    /\ Unlocked
    /\ status' = "Finalized"
    /\ due' = due - tx[t].amount
    /\ payment' = IF due' = 0 THEN "Paid" ELSE "PartiallyPaid"
    /\ applied' = [applied EXCEPT ![t] = @ + 1]
    /\ UNCHANGED <<tx, attempt, intent, voiding, zeroing, credited>>

\* on_invoice_payment_settled: finalize a draft, subtract the amount, and set
\* the payment status from what is left.
ApplyTransaction(t) ==
    /\ t \in settled
    /\ Unlocked
    /\ status' = IF status = "Draft" THEN "Finalized" ELSE status
    /\ due' = due - tx[t].amount
    /\ payment' = IF due' = 0 THEN "Paid" ELSE "PartiallyPaid"
    /\ applied' = [applied EXCEPT ![t] = @ + 1]
    /\ UNCHANGED <<tx, attempt, intent, voiding, zeroing, credited>>

\* The event is handled and its message acknowledged.
OnPaymentSettled(t) ==
    /\ ApplyTransaction(t)
    /\ settled' = settled \ {t}
    /\ UNCHANGED redeliveries

\* The event is handled and the acknowledgement lost: it will come again.
OnPaymentSettledUnacked(t) ==
    /\ ApplyTransaction(t)
    /\ redeliveries < MaxRedeliveries
    /\ redeliveries' = redeliveries + 1
    /\ UNCHANGED settled

\* on_invoice_accounting_pdf_generated reads the invoice without a lock; with
\* nothing due and not paid yet ...
PdfGeneratedZero ==
    /\ status # "Draft"
    /\ payment # "Paid"
    /\ due <= 0
    /\ zeroing' = TRUE
    /\ UNCHANGED <<rowVars, tx, attempt, intent, settled, redeliveries,
                   voiding, credited, applied>>

\* ... mark_zero_amount_invoice_as_paid.
MarkZeroAmountAsPaid ==
    /\ zeroing
    /\ Unlocked
    /\ payment' = "Paid"
    /\ zeroing' = FALSE
    /\ UNCHANGED <<status, due, tx, attempt, intent, settled, redeliveries,
                   voiding, credited, applied>>

-----------------------------------------------------------------------------
(* What else becomes of the invoice.                                       *)

\* finalize_invoice_tx, by an operator or at its scheduled date.
Finalize ==
    /\ Unlocked
    /\ status = "Draft"
    /\ status' = "Finalized"
    /\ UNCHANGED <<payment, due, tx, attempt, intent, settled, redeliveries,
                   voiding, zeroing, credited, applied>>

\* mark_as_uncollectible, whatever was paid.
MarkAsUncollectible ==
    /\ Unlocked
    /\ status = "Finalized"
    /\ status' = "Uncollectible"
    /\ UNCHANGED <<payment, due, tx, attempt, intent, settled, redeliveries,
                   voiding, zeroing, credited, applied>>

\* void_invoice validates the invoice as it reads it, without a lock ...
VoidCheck(v) ==
    /\ v \notin voiding
    /\ status = "Finalized"
    /\ payment = "Unpaid"
    /\ voiding' = voiding \cup {v}
    /\ UNCHANGED <<rowVars, tx, attempt, intent, settled, redeliveries,
                   zeroing, credited, applied>>

\* Mutant: the lines credited before are not looked at.
VoidCommitAgain(v) ==
    /\ v \in voiding
    /\ Unlocked
    /\ credited' = credited + Total
    /\ status' = IF status = "Finalized" THEN "Void" ELSE status
    /\ voiding' = voiding \ {v}
    /\ UNCHANGED <<payment, due, tx, attempt, intent, settled, redeliveries,
                   zeroing, applied>>

\* ... then locks it, credits its lines to the customer's balance, and voids
\* it if it is finalized.
VoidCommit(v) ==
    /\ v \in voiding
    /\ Unlocked
    /\ credited = 0
    /\ credited' = credited + Total
    /\ status' = IF status = "Finalized" THEN "Void" ELSE status
    /\ voiding' = voiding \ {v}
    /\ UNCHANGED <<payment, due, tx, attempt, intent, settled, redeliveries,
                   zeroing, applied>>

\* There is no line left to credit.
VoidRefused(v) ==
    /\ v \in voiding
    /\ Unlocked
    /\ credited # 0
    /\ voiding' = voiding \ {v}
    /\ UNCHANGED <<rowVars, tx, attempt, intent, settled, redeliveries,
                   zeroing, credited, applied>>

-----------------------------------------------------------------------------

AttemptStep(a) ==
    \/ BeginPayment(a) \/ ProviderCreates(a) \/ ProviderResolves(a)
    \/ PaymentReturns(a) \/ PaymentFails(a) \/ Webhook(a)

ManualStep(m) ==
    \/ \E x \in 1 .. Total : AddManualPayment(m, x)
    \/ MarkInvoiceAsPaid(m)

VoidStep(v) == VoidCheck(v) \/ VoidCommit(v) \/ VoidRefused(v)

Next ==
    \/ \E a \in Attempts : AttemptStep(a)
    \/ \E m \in Manuals : ManualStep(m)
    \/ \E t \in Txs : OnPaymentSettled(t) \/ OnPaymentSettledUnacked(t)
    \/ PdfGeneratedZero \/ MarkZeroAmountAsPaid
    \/ Finalize \/ MarkAsUncollectible
    \/ \E v \in Voiders : VoidStep(v)

\* A call of the provider ends within its timeout, and queued messages,
\* webhooks and settled events, are delivered until they are handled.
Fairness ==
    /\ \A a \in Attempts : WF_vars(PaymentReturns(a) \/ PaymentFails(a))
    /\ \A a \in Attempts : WF_vars(Webhook(a))
    /\ \A t \in Txs : WF_vars(OnPaymentSettled(t))

Spec == Init /\ [][Next]_vars

FairSpec == Spec /\ Fairness

-----------------------------------------------------------------------------
(* Properties.                                                             *)

\* Every variable has its type; what is due may go below zero.
TypeOK ==
    /\ status \in InvoiceStatus
    /\ payment \in InvoicePaymentStatus
    /\ due \in Int
    /\ tx \in [Txs -> [status : PaymentStatus, amount : Int]]
    /\ attempt \in [Attempts -> {"new", "waiting", "over"}]
    /\ intent \in [Attempts -> IntentStatus]
    /\ settled \subseteq Txs
    /\ redeliveries \in 0 .. MaxRedeliveries
    /\ voiding \subseteq Voiders
    /\ zeroing \in BOOLEAN
    /\ credited \in Nat
    /\ applied \in [Txs -> Nat]

\* At most one card attempt of an invoice is in progress, waiting for the
\* provider or for its webhook, through any number of concurrent requests.
OneAttemptAtATime ==
    \A a, b \in Attempts :
        /\ attempt[a] = "waiting" \/ tx[a].status = "Pending"
        /\ attempt[b] = "waiting" \/ tx[b].status = "Pending"
        => a = b

\* The card transactions that are or may become money never exceed the total,
\* though manual payments race them, the handler that lowers amount_due lags
\* behind, and events are applied twice.  (Only an operator who marks an
\* overpaid invoice as paid, for a negative amount, can make room for more.)
CardPaymentsBounded ==
    (\A m \in Manuals : tx[m].amount >= 0)
        => Amounts(Active \cap Attempts) <= Total

\* Nothing that settled is forgotten, nothing else is ever applied, and no
\* transaction is applied more often than its event was delivered.
SettledAccounted ==
    \A t \in Txs :
        /\ tx[t].status = "Settled" <=> t \in settled \/ applied[t] > 0
        /\ applied[t] <= redeliveries + (IF t \in settled THEN 0 ELSE 1)

\* amount_due is the total less what was applied, whoever else wrote the row.
DueMatchesApplied ==
    due = Total - SumFunction([t \in Txs |-> applied[t] * tx[t].amount])

\* A void or uncollectible invoice stays what it is: a call of void_invoice or
\* a settled event that validated the invoice earlier cannot bring it back,
\* and a finalized invoice never returns to draft.
ClosedStaysClosed ==
    [][/\ status \in {"Void", "Uncollectible"} => status' = status
       /\ status = "Finalized" => status' # "Draft"]_vars

\* Voiding credits the customer once, however many calls validated the invoice
\* before the first of them committed; a void invoice was credited, and a
\* credited one can no longer be paid, even when it was marked uncollectible
\* between a call's validation and its commit.
VoidCreditsOnce ==
    /\ status = "Void" => credited = Total
    /\ credited # 0 => credited = Total /\ status \in {"Void", "Uncollectible"}

\* A charge that succeeded for an attempt that was committed reaches the
\* invoice, through the provider's answer or its webhook and then the event.
ChargesReachInvoice ==
    \A a \in Attempts :
        intent[a] = "Succeeded" /\ tx[a].status # "None" ~> applied[a] > 0

\* void_invoice on an invoice that was paid in part or in full: "Paid or
\* partially paid invoices cannot be voided" (repositories/invoices.rs).
PaidNeverVoided ==
    [][status # "Void" /\ status' = "Void" => payment = "Unpaid"]_vars

\* What the provider has collected for the invoice never exceeds its total: the
\* checks of process_payment.rs "prevent over-payment" and, with the row lock,
\* ensure "atomicity in a distributed environment".
NeverOvercharged ==
    Amounts({a \in Attempts : intent[a] = "Succeeded"}) <= Total

-----------------------------------------------------------------------------
(* Why the safety properties hold: the inductive invariant.                *)

\* A transaction is not committed before its attempt is over.
AttemptsUncommitted ==
    \A a \in Attempts : attempt[a] # "over" => tx[a].status = "None"

\* Only an invoice that has left draft is being voided.
VoidingClosesNoDraft == voiding # {} => status # "Draft"

PaymentInv ==
    /\ TypeOK
    /\ AttemptsUncommitted
    /\ OneAttemptAtATime
    /\ SettledAccounted
    /\ VoidingClosesNoDraft
    /\ VoidCreditsOnce

\* While an attempt waits for the provider what it asks for is covered: the row
\* lock keeps everybody else from adding to what its checks have seen.
WaitingCovered ==
    \A a \in Attempts :
        attempt[a] = "waiting" =>
            /\ WithStatus({"Pending"}) = {}
            /\ Amounts(Active) + tx[a].amount <= Total

\* A card attempt never asks for less than nothing, and a manual payment that
\* was not recorded stands for nothing.
AmountsSane ==
    /\ \A a \in Attempts : tx[a].amount >= 0
    /\ \A m \in Manuals : tx[m].status = "None" => tx[m].amount = 0

\* The amounts, on top of PaymentInv.
MoneyInv ==
    /\ WaitingCovered
    /\ AmountsSane
    /\ CardPaymentsBounded
    /\ DueMatchesApplied

=============================================================================
