---------------------------- MODULE CreditNotes -----------------------------
(***************************************************************************)
(* The credit notes of one invoice (repositories/credit_notes.rs), with    *)
(* the two operations on the invoice that go through them: voiding it      *)
(* (repositories/invoices.rs) and reissuing it corrected                   *)
(* (services/invoices/draft.rs).                                           *)
(*                                                                         *)
(* Every operation is one database transaction at READ COMMITTED.  What it *)
(* reads without a lock may be stale when it writes, and it may wait for a *)
(* row lock while it holds another, so a transaction is split at its       *)
(* unlocked first read and at each lock it waits for.  Between its last    *)
(* lock and its commit nothing it depends on can change: that is one step. *)
(***************************************************************************)
EXTENDS Naturals, Integers, FiniteSets, Functions

CONSTANTS
    Lines,          \* lines of the invoice
    Price,          \* line -> its amount, in cents
    Asked,          \* what a request may ask to credit: line -> amount, 0 for
                    \*   a line it does not name; none named stands for all
    AppliedCredits, \* invoice.applied_credits, taken from the balance before
    InitialBalance, \* what is left on the customer's balance
    MaxNotes,       \* bound: credit notes ever created
    Callers,        \* concurrent requests
    NoCaller        \* holder of a lock nobody holds

InvoiceTotal == FoldFunction(+, 0, Price)

ASSUME NotesAssumption ==
    /\ IsFiniteSet(Lines) /\ Lines # {}
    /\ Price \in [Lines -> Nat \ {0}]
    /\ Asked \subseteq [Lines -> Nat]
    /\ AppliedCredits \in Nat
    /\ InitialBalance \in Nat
    /\ MaxNotes \in Nat
    /\ NoCaller \notin Callers

Notes == 1 .. MaxNotes
CreditTypes == {"CreditToBalance", "Refund", "DebtCancellation"}
NoteStatus == {"absent", "Draft", "Finalized", "Voided", "deleted"}
Credit == [Lines -> Nat]
NoCredit == [l \in Lines |-> 0]

\* The row of a note: number 0 stands for "draft", credit for the absolute
\* values of its negated lines.
NoteRow == [status : NoteStatus, type : CreditTypes, credit : Credit,
            credited : Nat, number : Nat, voidedAt : BOOLEAN]

Absent == [status |-> "absent", type |-> "Refund", credit |-> NoCredit,
           credited |-> 0, number |-> 0, voidedAt |-> FALSE]

VARIABLES
    invoice,      \* the invoice's row: status, amount_due, payment_status
    paid,         \* sum of its settled payment transactions
    note,         \* credit_note
    balance,      \* customer.balance_value_cents
    nextNumber,   \* invoicing_entity.next_credit_note_number
    corrected,    \* an invoice with this one as its parent exists
    invoiceLock,  \* who holds the invoice's row
    entityLock,   \* who holds the invoicing entity's row
    call,         \* each request: what it does, its next step, what it read
    spent,        \* history: balance consumed by other invoices
    repeated      \* history: notes finalized or voided by an UPDATE that
                  \*   matched no row

lockVars == <<invoiceLock, entityLock>>
notesVars == <<invoice, paid, note, balance, nextNumber, corrected, lockVars,
               call, spent, repeated>>

Steps == {"idle", "lock", "entity", "apply"}
Ops == {"none", "create", "issue", "reissue", "finalize", "void", "voidInvoice"}

Waiting == [op |-> "none", step |-> "idle", note |-> 0, type |-> "Refund",
            credit |-> NoCredit, due |-> 0, number |-> 0]

NotesInit ==
    /\ invoice = [status |-> "Finalized", due |-> InvoiceTotal - AppliedCredits,
                  payment |-> "Unpaid"]
    /\ paid = 0
    /\ note = [n \in Notes |-> Absent]
    /\ balance = InitialBalance
    /\ nextNumber = 1
    /\ corrected = FALSE
    /\ invoiceLock = NoCaller
    /\ entityLock = NoCaller
    /\ call = [c \in Callers |-> Waiting]
    /\ spent = 0
    /\ repeated = {}

-----------------------------------------------------------------------------
(* Amounts.                                                                *)

CreditTotal(cr) == FoldFunction(+, 0, cr)

\* Sum of f over a set of notes.
SumOver(f(_), S) == FoldFunctionOnSet(+, 0, [n \in Notes |-> f(n)], S)

\* Drafts and finalized notes: what may still be credited of a line is what
\* they leave.
Live == {n \in Notes : note[n].status \in {"Draft", "Finalized"}}

AlreadyCredited(l) == SumOver(LAMBDA n : note[n].credit[l], Live)

\* Mutant: drafts are left out.
RemainingIgnoringDrafts(l) ==
    Price[l] - SumOver(LAMBDA n : note[n].credit[l],
                       {n \in Live : note[n].status = "Finalized"})

Remaining(l) == Price[l] - AlreadyCredited(l)

\* What a request credits: the amounts it names, or with none named all that
\* remains of every line.
Resolve(asked) ==
    IF asked = NoCredit
    THEN [l \in Lines |-> IF Remaining(l) > 0 THEN Remaining(l) ELSE 0]
    ELSE asked

\* The requested lines have that much left, and there is a line to credit.
Creditable(asked) ==
    /\ \A l \in Lines : asked[l] > 0 => asked[l] <= Remaining(l)
    /\ Resolve(asked) # NoCredit

\* Mutant: all of a refund goes to the balance.
PortionWhole(amount) == amount

\* Decimal::round goes to the even neighbour from the middle.
RoundHalfEven(a, b) ==
    LET q == a \div b
        r == a % b
    IN IF 2 * r > b \/ (2 * r = b /\ q % 2 = 1) THEN q + 1 ELSE q

\* applied_credits prorated by the share of the invoice that is refunded.
AppliedPortion(amount) == RoundHalfEven(AppliedCredits * amount, InvoiceTotal)

\* credited_amount_cents of a note.
CreditedAmount(type, amount) ==
    CASE type = "CreditToBalance" -> amount
      [] type = "DebtCancellation" -> 0
      [] type = "Refund" -> AppliedPortion(amount)

-----------------------------------------------------------------------------
(* The invoice's row.                                                      *)

\* Mutant: the status is left as it was.
ApplyAmountOnly(type, amount) ==
    invoice' = IF type # "DebtCancellation" THEN invoice
               ELSE [invoice EXCEPT !.due = @ - amount]

\* apply_credit_note_to_invoice_tx.
ApplyToInvoice(type, amount) ==
    invoice' = IF type # "DebtCancellation" THEN invoice
               ELSE [invoice EXCEPT !.due = @ - amount,
                                    !.payment = IF invoice.due - amount <= 0
                                                THEN "Paid" ELSE @]

\* Mutant: the amount due stays reduced.
RevertStatusOnly(type, amount) ==
    invoice' = IF type # "DebtCancellation" \/ invoice.payment # "Paid" THEN invoice
               ELSE [invoice EXCEPT !.payment = "Unpaid"]

\* revert_credit_note_from_invoice_tx.
RevertFromInvoice(type, amount) ==
    LET due == invoice.due + amount
        status == IF invoice.payment = "Paid" /\ due > 0
                  THEN IF paid > 0 THEN "PartiallyPaid" ELSE "Unpaid"
                  ELSE invoice.payment
    IN invoice' = IF type # "DebtCancellation" THEN invoice
                  ELSE [invoice EXCEPT !.due = due, !.payment = status]

\* A payment of the invoice settles; it was started when so much was due.
Settle(a) ==
    /\ invoiceLock = NoCaller
    /\ paid + a <= InvoiceTotal - AppliedCredits
    /\ paid' = paid + a
    /\ invoice' = [invoice EXCEPT !.due = @ - a,
                                  !.payment = IF invoice.due - a <= 0
                                              THEN "Paid" ELSE "PartiallyPaid"]
    /\ UNCHANGED <<note, balance, nextNumber, corrected, lockVars, call, spent,
                   repeated>>

\* Another invoice of the customer consumes balance.
SpendBalance(a) ==
    /\ a <= balance
    /\ balance' = balance - a
    /\ spent' = spent + a
    /\ UNCHANGED <<invoice, paid, note, nextNumber, corrected, lockVars, call,
                   repeated>>

-----------------------------------------------------------------------------
(* Requests.                                                               *)

Free(lock) == lock = NoCaller

\* A caller that waits for its next lock or is between two statements.
Become(c, rec) == call' = [call EXCEPT ![c] = rec]

Finish(c) == Become(c, Waiting)

\* Mutant: the invoicing entity's row stays locked.
ReleaseInvoiceOnly(c) ==
    /\ invoiceLock' = IF invoiceLock = c THEN NoCaller ELSE invoiceLock
    /\ entityLock' = entityLock

\* What a transaction that commits or rolls back releases.
Release(c) ==
    /\ invoiceLock' = IF invoiceLock = c THEN NoCaller ELSE invoiceLock
    /\ entityLock' = IF entityLock = c THEN NoCaller ELSE entityLock

\* A row is inserted under an id that was never used.
NextNote == CHOOSE n \in Notes : note[n].status = "absent"

NotesLeft == \E n \in Notes : note[n].status = "absent"

\* The checks of create_user_credit_note_tx on the invoice as it reads it.
CreateAllowed(type) ==
    /\ invoice.status = "Finalized"
    /\ IF type = "DebtCancellation" THEN invoice.due > 0
       ELSE invoice.payment \in {"Paid", "PartiallyPaid"}

\* create_credit_note, create_and_finalize_credit_note and its variant that
\* reissues the invoice: the invoice is read without a lock.
CreateRead(c, op, type, asked) ==
    /\ call[c].step = "idle"
    /\ CreateAllowed(type)
    /\ Become(c, [op |-> op, step |-> "lock", note |-> 0, type |-> type,
                  credit |-> asked,
                  due |-> IF type = "DebtCancellation" THEN invoice.due ELSE 0,
                  number |-> 0])
    /\ UNCHANGED <<invoice, paid, note, balance, nextNumber, corrected,
                   lockVars, spent, repeated>>

\* void_invoice validates the invoice as it reads it.
VoidInvoiceRead(c) ==
    /\ call[c].step = "idle"
    /\ invoice.status = "Finalized"
    /\ invoice.payment = "Unpaid"
    /\ Become(c, [op |-> "voidInvoice", step |-> "lock", note |-> 0,
                  type |-> "CreditToBalance", credit |-> NoCredit, due |-> 0,
                  number |-> 0])
    /\ UNCHANGED <<invoice, paid, note, balance, nextNumber, corrected,
                   lockVars, spent, repeated>>

\* create_credit_note_tx gives up: nothing left to credit, or more debt to
\* cancel than was due when the invoice was read.
Refused(c) ==
    LET asked == call[c].credit IN
    \/ ~Creditable(asked)
    \/ /\ call[c].type = "DebtCancellation"
       /\ CreditTotal(Resolve(asked)) > call[c].due

NewRow(c, status, number) ==
    LET cr == Resolve(call[c].credit) IN
    [status |-> status, type |-> call[c].type, credit |-> cr,
     credited |-> CreditedAmount(call[c].type, CreditTotal(cr)),
     number |-> number, voidedAt |-> FALSE]

CreateRefused(c) ==
    /\ call[c].step = "lock"
    /\ Free(invoiceLock)
    /\ Refused(c)
    /\ Finish(c)
    /\ UNCHANGED <<invoice, paid, note, balance, nextNumber, corrected,
                   lockVars, spent, repeated>>

\* The invoice's row is locked, the notes it has are summed up per line and
\* the draft is inserted; nothing else is waited for before the commit.
CreateDraft(c) ==
    /\ call[c].op = "create" /\ call[c].step = "lock"
    /\ Free(invoiceLock)
    /\ ~Refused(c) /\ NotesLeft
    /\ note' = [note EXCEPT ![NextNote] = NewRow(c, "Draft", 0)]
    /\ Finish(c)
    /\ UNCHANGED <<invoice, paid, balance, nextNumber, corrected, lockVars,
                   spent, repeated>>

\* A note that is finalized in the transaction that creates it: the invoice's
\* row is locked and held, the invoicing entity's is waited for.
IssueLock(c) ==
    /\ call[c].op \in {"issue", "reissue", "voidInvoice"}
    /\ call[c].step = "lock"
    /\ Free(invoiceLock)
    /\ ~Refused(c) /\ NotesLeft
    /\ invoiceLock' = c
    /\ Become(c, [call[c] EXCEPT !.step = "entity",
                                 !.credit = Resolve(call[c].credit)])
    /\ UNCHANGED <<invoice, paid, note, balance, nextNumber, corrected,
                   entityLock, spent, repeated>>

\* The sum create_corrected_invoice_from_tx compares with the invoice's total:
\* notes with a finalized_at and without a voided_at.
FinalizedTotal(rows) ==
    SumOver(LAMBDA n : CreditTotal(rows[n].credit),
            {n \in Notes : /\ rows[n].status \in {"Finalized", "Voided"}
                           /\ ~rows[n].voidedAt})

\* The parent is finalized, fully credited and has no corrected invoice yet.
MayCorrect(rows) ==
    /\ invoice.status = "Finalized"
    /\ FinalizedTotal(rows) >= InvoiceTotal
    /\ ~corrected

\* The note takes the next number, its effects are applied, and with it the
\* invoice is voided or reissued when that was asked; a reissue that is not
\* allowed rolls everything back (IssueRefused).
IssueCommit(c) ==
    LET rows == [note EXCEPT ![NextNote] = NewRow(c, "Finalized", nextNumber)]
        row == rows[NextNote]
    IN
    /\ invoiceLock = c
    /\ Free(entityLock)
    /\ NotesLeft
    /\ call[c].op = "reissue" => MayCorrect(rows)
    /\ note' = rows
    /\ nextNumber' = nextNumber + 1
    /\ balance' = balance + row.credited
    /\ IF call[c].op = "voidInvoice"
       THEN invoice' = [invoice EXCEPT !.status = "Void"]
       ELSE ApplyToInvoice(row.type, CreditTotal(row.credit))
    /\ corrected' = (corrected \/ call[c].op = "reissue")
    /\ Finish(c)
    /\ Release(c)
    /\ UNCHANGED <<paid, spent, repeated>>

IssueRefused(c) ==
    /\ invoiceLock = c
    /\ Free(entityLock)
    /\ call[c].op = "reissue"
    /\ ~MayCorrect([note EXCEPT ![NextNote] = NewRow(c, "Finalized", nextNumber)])
    /\ Finish(c)
    /\ Release(c)
    /\ UNCHANGED <<invoice, paid, note, balance, nextNumber, corrected, spent,
                   repeated>>

\* create_corrected_invoice_from, on its own.
CorrectInvoice ==
    /\ Free(invoiceLock)
    /\ MayCorrect(note)
    /\ corrected' = TRUE
    /\ UNCHANGED <<invoice, paid, note, balance, nextNumber, lockVars, call,
                   spent, repeated>>

-----------------------------------------------------------------------------
(* Finalizing, voiding and deleting a note that exists.                    *)

OnNote(op, step, n) ==
    [op |-> op, step |-> step, note |-> n, type |-> note[n].type,
     credit |-> NoCredit, due |-> 0, number |-> 0]

\* finalize_credit_note reads the note without a lock ...
FinalizeRead(c, n) ==
    /\ call[c].step = "idle"
    /\ note[n].status = "Draft"
    /\ Become(c, OnNote("finalize", "entity", n))
    /\ UNCHANGED <<invoice, paid, note, balance, nextNumber, corrected,
                   lockVars, spent, repeated>>

\* Mutant: the invoicing entity is read without a lock.
FinalizeUnlocked(c) ==
    /\ call[c].op = "finalize" /\ call[c].step = "entity"
    /\ Become(c, [call[c] EXCEPT !.step = "apply", !.number = nextNumber])
    /\ UNCHANGED <<invoice, paid, note, balance, nextNumber, corrected,
                   lockVars, spent, repeated>>

\* ... locks the invoicing entity and reads the number from it ...
FinalizeLock(c) ==
    /\ call[c].op = "finalize" /\ call[c].step = "entity"
    /\ Free(entityLock)
    /\ entityLock' = c
    /\ Become(c, [call[c] EXCEPT !.step = "apply", !.number = nextNumber])
    /\ UNCHANGED <<invoice, paid, note, balance, nextNumber, corrected,
                   invoiceLock, spent, repeated>>

\* The invoice's row is locked only by a note that changes it.
CanApply(c) == call[c].type = "DebtCancellation" => Free(invoiceLock)

\* ... and applies the note: the UPDATE finds it if it is still a draft, but
\* the number is consumed and the effects are applied whether it did or not.
FinalizeCommit(c) ==
    LET n == call[c].note
        draft == note[n].status = "Draft"
    IN
    /\ call[c].op = "finalize" /\ call[c].step = "apply"
    /\ CanApply(c)
    /\ note[n].status # "deleted"
    /\ note' = IF draft
               THEN [note EXCEPT ![n].status = "Finalized", ![n].number = call[c].number]
               ELSE note
    /\ nextNumber' = call[c].number + 1
    /\ balance' = balance + note[n].credited
    /\ ApplyToInvoice(note[n].type, CreditTotal(note[n].credit))
    /\ repeated' = IF draft THEN repeated ELSE repeated \cup {n}
    /\ Finish(c)
    /\ Release(c)
    /\ UNCHANGED <<paid, corrected, spent>>

\* The note is read again to apply it: without it everything is rolled back.
FinalizeGone(c) ==
    /\ call[c].op = "finalize" /\ call[c].step = "apply"
    /\ note[call[c].note].status = "deleted"
    /\ Finish(c)
    /\ Release(c)
    /\ UNCHANGED <<invoice, paid, note, balance, nextNumber, corrected, spent,
                   repeated>>

\* void_credit_note reads the note without a lock ...
VoidRead(c, n) ==
    /\ call[c].step = "idle"
    /\ note[n].status = "Finalized"
    /\ Become(c, OnNote("void", "apply", n))
    /\ UNCHANGED <<invoice, paid, note, balance, nextNumber, corrected,
                   lockVars, spent, repeated>>

\* Mutant: the balance may become negative.
VoidUnchecked(c) ==
    LET n == call[c].note IN
    /\ call[c].op = "void" /\ call[c].step = "apply"
    /\ CanApply(c)
    /\ note' = [note EXCEPT ![n].status = "Voided"]
    /\ balance' = balance - note[n].credited
    /\ RevertFromInvoice(note[n].type, CreditTotal(note[n].credit))
    /\ Finish(c)
    /\ UNCHANGED <<paid, nextNumber, corrected, lockVars, spent, repeated>>

\* ... marks it if it is still finalized, and reverses its effects whether it
\* was or not.  The row's voided_at is not set.
VoidCommit(c) ==
    LET n == call[c].note
        finalized == note[n].status = "Finalized"
    IN
    /\ call[c].op = "void" /\ call[c].step = "apply"
    /\ CanApply(c)
    /\ note[n].credited <= balance
    /\ note' = IF finalized THEN [note EXCEPT ![n].status = "Voided"] ELSE note
    /\ balance' = balance - note[n].credited
    /\ RevertFromInvoice(note[n].type, CreditTotal(note[n].credit))
    /\ repeated' = IF finalized THEN repeated ELSE repeated \cup {n}
    /\ Finish(c)
    /\ UNCHANGED <<paid, nextNumber, corrected, lockVars, spent>>

\* The balance may not become negative: everything is rolled back.
VoidRefused(c) ==
    /\ call[c].op = "void" /\ call[c].step = "apply"
    /\ note[call[c].note].credited > balance
    /\ Finish(c)
    /\ UNCHANGED <<invoice, paid, note, balance, nextNumber, corrected,
                   lockVars, spent, repeated>>

\* delete_draft_credit_note, unless the row is being finalized.
DeleteDraft(n) ==
    /\ note[n].status = "Draft"
    /\ note' = [note EXCEPT ![n] = [Absent EXCEPT !.status = "deleted"]]
    /\ UNCHANGED <<invoice, paid, balance, nextNumber, corrected, lockVars,
                   call, spent, repeated>>

-----------------------------------------------------------------------------
(* A transaction that ends without committing.                             *)

\* Two transactions wait for each other's row: one issues a note and holds
\* the invoice, one finalizes a note and holds the invoicing entity.
Deadlocked(c) ==
    \E d \in Callers :
        /\ {invoiceLock, entityLock} = {c, d}
        /\ call[entityLock].type = "DebtCancellation"

\* PostgreSQL sees the cycle and rolls one of the two back.
DeadlockVictim(c) ==
    /\ Deadlocked(c)
    /\ Finish(c)
    /\ Release(c)
    /\ UNCHANGED <<invoice, paid, note, balance, nextNumber, corrected, spent,
                   repeated>>

\* The connection or the server fails before the commit.
Crash(c) ==
    /\ call[c].step # "idle"
    /\ Finish(c)
    /\ Release(c)
    /\ UNCHANGED <<invoice, paid, note, balance, nextNumber, corrected, spent,
                   repeated>>

CreateReads(c) ==
    \E op \in {"create", "issue", "reissue"}, type \in CreditTypes, asked \in Asked :
        CreateRead(c, op, type, asked)

CallerStep(c) ==
    \/ CreateReads(c) \/ VoidInvoiceRead(c)
    \/ \E n \in Notes : FinalizeRead(c, n) \/ VoidRead(c, n)
    \/ CreateRefused(c) \/ CreateDraft(c)
    \/ IssueLock(c) \/ IssueCommit(c) \/ IssueRefused(c)
    \/ FinalizeLock(c) \/ FinalizeCommit(c) \/ FinalizeGone(c)
    \/ VoidCommit(c) \/ VoidRefused(c)
    \/ DeadlockVictim(c) \/ Crash(c)

NotesNext ==
    \/ \E c \in Callers : CallerStep(c)
    \/ \E n \in Notes : DeleteDraft(n)
    \/ \E a \in 1 .. InvoiceTotal : Settle(a) \/ SpendBalance(a)
    \/ CorrectInvoice

NotesSpec == NotesInit /\ [][NotesNext]_notesVars

-----------------------------------------------------------------------------
(* Properties.                                                             *)

\* Every variable has its type.
NotesTypeOK ==
    /\ invoice \in [status : {"Finalized", "Void"}, due : Int,
                    payment : {"Unpaid", "PartiallyPaid", "Paid"}]
    /\ paid \in Nat
    /\ note \in [Notes -> NoteRow]
    /\ balance \in Nat
    /\ nextNumber \in Nat \ {0}
    /\ corrected \in BOOLEAN
    /\ invoiceLock \in Callers \cup {NoCaller}
    /\ entityLock \in Callers \cup {NoCaller}
    /\ call \in [Callers -> [op : Ops, step : Steps, note : Notes \cup {0},
                             type : CreditTypes, credit : Credit, due : Int,
                             number : Nat]]
    /\ spent \in Nat
    /\ repeated \subseteq Notes

\* The drafts and finalized notes of a line never credit more than the line,
\* whatever is created, finalized, voided and deleted at the same time: the
\* lock create_credit_note_tx takes on the invoice covers the sum and the
\* insertion.
LinesNotOvercredited == \A l \in Lines : AlreadyCredited(l) <= Price[l]

\* No two notes carry the same number, however many requests finalize notes of
\* the entity at once, and a number that was given out stays behind the next.
NumbersDistinct ==
    \A m, n \in Notes :
        /\ note[n].number < nextNumber
        /\ m # n /\ note[n].number > 0 => note[m].number # note[n].number

\* What is finalized is what was applied: the balance and the amount due are
\* those the finalized notes, the payments and the credits used account for.
\* The exception are the notes a second request finalized or voided after it
\* had read them in the state the first one changed: their effects are
\* applied or reversed once more.
EffectsMatchNotes ==
    LET final == {n \in Notes : note[n].status = "Finalized"}
        debt == {n \in final : note[n].type = "DebtCancellation"}
    IN repeated = {} =>
        /\ balance + spent = InitialBalance + SumOver(LAMBDA n : note[n].credited, final)
        /\ invoice.due = InvoiceTotal - AppliedCredits - paid
                         - SumOver(LAMBDA n : CreditTotal(note[n].credit), debt)

\* The payment status follows the amount due and the payments through
\* settlements, cancelled debt and cancellations that are voided, the repeated
\* ones included.
PaymentMatchesDue ==
    /\ invoice.payment = "Paid" <=> invoice.due <= 0
    /\ invoice.payment = "Unpaid" => paid = 0

\* Refunds give back to the balance the credits the invoice had used and no
\* more, but for half a cent of rounding for each of them.
RestoredCreditsBounded ==
    LET refunds == {n \in Live : note[n].type = "Refund"} IN
    2 * SumOver(LAMBDA n : note[n].credited, refunds)
        <= 2 * AppliedCredits + Cardinality(refunds)

\* What a request waits for is held by another.
Blocked(c) ==
    \/ call[c].step = "lock" /\ ~Free(invoiceLock)
    \/ call[c].step = "entity" /\ ~Free(entityLock)
    \/ call[c].step = "apply" /\ ~CanApply(c)

\* No request waits forever: while one is blocked, another can go on or the
\* two are a cycle the database resolves.  Some requests lock the invoice
\* before the invoicing entity and others the entity before the invoice, so
\* such cycles do occur; none is hidden behind a lock nobody will release.
WaitsEnd ==
    \A c \in Callers : Blocked(c) =>
        \E d \in Callers :
            \/ call[d].step # "idle" /\ ~Blocked(d)
            \/ Deadlocked(d)

=============================================================================
