--------------------------- MODULE Consolidation ----------------------------
(***************************************************************************)
(* How the recurring drafts of one customer and one day become invoices    *)
(* (services/invoices/consolidate.rs): the FinalizeInvoice event of a      *)
(* draft finalizes it alone, or merges it with its siblings into a parent  *)
(* that is finalized in their place.  Meanwhile users finalize, edit and   *)
(* delete drafts.                                                          *)
(*                                                                         *)
(* Amounts are left out: a finalization that lacks the credits it counts   *)
(* on, or a refresh that fails, is an abort or a failure of the event.  A  *)
(* draft's seat transactions follow it into its parent.                    *)
(***************************************************************************)
EXTENDS Naturals, FiniteSets

CONSTANTS
    Drafts,        \* recurring drafts of one date, by id; one per subscription
    Payment,       \* draft -> its subscription's way of paying
    Sellers,       \* invoicing entities
    Consolidating, \* those with consolidate_recurring_invoices
    FirstSeller,   \* draft -> the one it was drafted for
    MaxParents,    \* bound: consolidated invoices
    Mergers,       \* transactions of event workers
    Editors,       \* transactions of users
    NoTx,          \* holder of a lock nobody holds
    Delayed,       \* bound: drafts whose event may time out
    MaxFinalizeRetries \* bound: retries of an event, 5 in the code; timeouts count

ASSUME ConsolidationAssumption ==
    /\ Drafts \subseteq Nat /\ Drafts # {} /\ IsFiniteSet(Drafts)
    /\ Consolidating \subseteq Sellers
    /\ FirstSeller \in [Drafts -> Sellers]
    /\ Payment \in [Drafts -> STRING]
    /\ MaxParents \in Nat /\ MaxFinalizeRetries \in Nat
    /\ Mergers \cap Editors = {}
    /\ NoTx \notin Mergers \cup Editors

Txns == Mergers \cup Editors
Parents == 1 .. MaxParents

VARIABLES
    recurring,    \* the drafts' rows; into is kept when a draft is deleted
    parent,       \* consolidated invoice -> its children and its seller
    schedule,     \* draft -> its FinalizeInvoice event
    txn,          \* each transaction: what it does, its next step, what it read
    groupLock,    \* pg_advisory_xact_lock of a merge partition, here a seller
    customerLock, \* who holds the customer's row
    draftLock,    \* who holds a draft's row
    moved         \* history: drafts given to another seller while their event
                  \*   was being processed

mergeLocks == <<groupLock, customerLock, draftLock>>
mergeVars == <<recurring, parent, schedule, txn, mergeLocks, moved>>

RecurringRow == [status : {"Draft", "Finalized", "deleted"},
                 into : Parents \cup {0}, seller : Sellers]

FinalizeEvent == [status : {"Pending", "Processing", "Completed", "Failed"},
                  retries : Nat]

TxnSteps == {"idle", "group", "lock", "customer", "row"}

\* An event worker's transaction handles an event until it finds siblings to
\* merge; todo are the candidates it has still to lock, retries those of the event
\* when it was claimed.
TxnRow ==
    [op : {"none", "event", "merge", "finalize", "edit", "delete"},
     step : TxnSteps, draft : Drafts, seller : Sellers,
     todo : SUBSET Drafts, found : SUBSET Drafts, retries : Nat]

AnyDraft == CHOOSE d \in Drafts : TRUE

NoTransaction == [op |-> "none", step |-> "idle", draft |-> AnyDraft,
                  seller |-> FirstSeller[AnyDraft], todo |-> {}, found |-> {},
                  retries |-> 0]

\* A transaction about d that waits for its next step.
Begun(op, step, d) == [NoTransaction EXCEPT !.op = op, !.step = step, !.draft = d]

MergeInit ==
    /\ recurring = [d \in Drafts |-> [status |-> "Draft", into |-> 0,
                                      seller |-> FirstSeller[d]]]
    /\ parent = [p \in Parents |-> [children |-> {}, seller |-> FirstSeller[AnyDraft]]]
    /\ schedule = [d \in Drafts |-> [status |-> "Pending", retries |-> 0]]
    /\ txn = [t \in Txns |-> NoTransaction]
    /\ groupLock = [s \in Sellers |-> NoTx]
    /\ customerLock = NoTx
    /\ draftLock = [d \in Drafts |-> NoTx]
    /\ moved = {}

-----------------------------------------------------------------------------
(* Rows, locks and events.                                                 *)

\* A draft that may still be finalized, merged or edited.
Open(d) == recurring[d].status = "Draft" /\ recurring[d].into = 0

Candidate(d, s) == Open(d) /\ recurring[d].seller = s

Free(d, t) == draftLock[d] \in {NoTx, t}

\* The transaction ends, and every lock it holds with it.
EndTx(t) ==
    /\ txn' = [txn EXCEPT ![t] = NoTransaction]
    /\ groupLock' = [s \in Sellers |-> IF groupLock[s] = t THEN NoTx ELSE groupLock[s]]
    /\ customerLock' = IF customerLock = t THEN NoTx ELSE customerLock
    /\ draftLock' = [d \in Drafts |-> IF draftLock[d] = t THEN NoTx ELSE draftLock[d]]

MarkCompleted(d) == schedule' = [schedule EXCEPT ![d].status = "Completed"]

\* retry_event or mark_as_failed, whatever has become of the event meanwhile.
FailFinalize(d, retries) ==
    schedule' = [schedule EXCEPT ![d] =
                    IF retries < MaxFinalizeRetries
                    THEN [status |-> "Pending", retries |-> @.retries + 1]
                    ELSE [@ EXCEPT !.status = "Failed"]]

At(t, op, step) == txn[t].op = op /\ txn[t].step = step

Claimed(d, step) == [Begun("event", step, d) EXCEPT !.retries = schedule[d].retries]

\* A parent nothing has been merged into.
NewParents == {p \in Parents : parent[p].children = {}}

-----------------------------------------------------------------------------
(* The FinalizeInvoice event.                                              *)

\* Claimed, and then read in another transaction, without a lock: finalized or
\* merged already, gone, on its own because its seller does not consolidate, or
\* to be looked at with its siblings.
ClaimFinalize(w, d) ==
    LET row == recurring[d] IN
    /\ txn[w].step = "idle"
    /\ schedule[d].status = "Pending"
    /\ \/ /\ row.status # "deleted" /\ ~Open(d)
          /\ MarkCompleted(d)
          /\ UNCHANGED txn
       \/ /\ row.status = "deleted"
          /\ FailFinalize(d, schedule[d].retries)
          /\ UNCHANGED txn
       \/ /\ Open(d)
          /\ schedule' = [schedule EXCEPT ![d].status = "Processing"]
          /\ \/ /\ row.seller \in Consolidating
                /\ txn' = [txn EXCEPT ![w] = [Claimed(d, "group")
                                            EXCEPT !.seller = row.seller]]
             \/ /\ row.seller \notin Consolidating
                /\ txn' = [txn EXCEPT ![w] = Claimed(d, "customer")]
    /\ UNCHANGED <<recurring, parent, mergeLocks, moved>>

\* retry_timeout_events: five minutes, whether or not the worker still runs.
FinalizeTimesOut(d) ==
    /\ schedule[d].status = "Processing"
    /\ d \in Delayed /\ schedule[d].retries <= MaxFinalizeRetries
    /\ schedule' = [schedule EXCEPT ![d] = [status |-> "Pending", retries |-> @.retries + 1]]
    /\ UNCHANGED <<recurring, parent, txn, mergeLocks, moved>>

\* One leader for a merge partition; then find_consolidation_candidates begins,
\* with the rows that match at that moment.
LockGroup(w) ==
    LET s == txn[w].seller IN
    /\ At(w, "event", "group")
    /\ groupLock[s] = NoTx
    /\ groupLock' = [groupLock EXCEPT ![s] = w]
    /\ txn' = [txn EXCEPT ![w].step = "lock", ![w].todo = {d \in Drafts : Candidate(d, s)}]
    /\ UNCHANGED <<recurring, parent, schedule, customerLock, draftLock, moved>>

\* Mutant: a row is taken as it was when the query began.
LockCandidateStale(w) ==
    /\ At(w, "event", "lock")
    /\ \E d \in txn[w].todo :
        /\ \A o \in txn[w].todo : d <= o
        /\ Free(d, w)
        /\ draftLock' = [draftLock EXCEPT ![d] = w]
        /\ txn' = [txn EXCEPT ![w].todo = @ \ {d}, ![w].found = @ \cup {d}]
    /\ UNCHANGED <<recurring, parent, schedule, groupLock, customerLock, moved>>

\* FOR UPDATE, in the order of ids: it waits for each row, and what the row has
\* become meanwhile decides whether it is returned.
LockCandidate(w) ==
    LET s == txn[w].seller IN
    /\ At(w, "event", "lock")
    /\ \E d \in txn[w].todo :
        /\ \A o \in txn[w].todo : d <= o
        /\ Free(d, w)
        /\ draftLock' = [draftLock EXCEPT ![d] = w]
        /\ txn' = [txn EXCEPT ![w].todo = @ \ {d},
                            ![w].found = IF Candidate(d, s) THEN @ \cup {d} ELSE @]
    /\ UNCHANGED <<recurring, parent, schedule, groupLock, customerLock, moved>>

\* The siblings that are paid for like the trigger.
Members(w) == {d \in txn[w].found : Payment[d] = Payment[txn[w].draft]}

Gathered(w) == At(w, "event", "lock") /\ txn[w].todo = {}

\* A leader that ran before has taken the trigger.
SkipTrigger(w) ==
    /\ Gathered(w) /\ txn[w].draft \notin txn[w].found
    /\ MarkCompleted(txn[w].draft)
    /\ EndTx(w)
    /\ UNCHANGED <<recurring, parent, moved>>

\* select_for_update_by_id takes the customer first, then the invoice.  A merger
\* holds the invoices by now; it comes to it when it refreshes its members.
LockCustomer(t) ==
    /\ customerLock = NoTx
    /\ customerLock' = t
    /\ UNCHANGED <<recurring, parent, schedule, groupLock, draftLock, moved>>

\* The trigger has no siblings, or its seller does not consolidate.
GoAlone(w) ==
    /\ \/ At(w, "event", "customer")
       \/ Gathered(w) /\ txn[w].draft \in txn[w].found /\ Members(w) = {txn[w].draft}
    /\ txn' = [txn EXCEPT ![w].step = "row", ![w].found = {}]
    /\ LockCustomer(w)

\* It has, and is merged with them.
GoTogether(w) ==
    /\ Gathered(w) /\ txn[w].draft \in txn[w].found /\ Members(w) # {txn[w].draft}
    /\ txn' = [txn EXCEPT ![w].op = "merge", ![w].step = "row", ![w].found = Members(w)]
    /\ LockCustomer(w)

\* Mutant: the row is finalized whatever it has become.
FinalizeBlindly(t) ==
    LET d == txn[t].draft IN
    /\ txn[t].op \in {"event", "finalize"} /\ txn[t].step = "row"
    /\ Free(d, t) /\ recurring[d].status = "Draft"
    /\ recurring' = [recurring EXCEPT ![d].status = "Finalized"]
    /\ IF txn[t].op = "event" THEN MarkCompleted(d) ELSE UNCHANGED schedule
    /\ EndTx(t)
    /\ UNCHANGED <<parent, moved>>

\* finalize_invoice_tx, for an event or for a user: the row is still a draft and
\* nobody's child.
FinalizeDraft(t) ==
    LET d == txn[t].draft IN
    /\ txn[t].op \in {"event", "finalize"} /\ txn[t].step = "row"
    /\ Free(d, t) /\ Open(d)
    /\ recurring' = [recurring EXCEPT ![d].status = "Finalized"]
    /\ IF txn[t].op = "event" THEN MarkCompleted(d) ELSE UNCHANGED schedule
    /\ EndTx(t)
    /\ UNCHANGED <<parent, moved>>

\* build_and_finalize_consolidated.
MergeDrafts(w) ==
    LET members == txn[w].found IN
    /\ At(w, "merge", "row")
    /\ \E p \in NewParents :
        /\ \A q \in NewParents : p <= q
        /\ parent' = [parent EXCEPT ![p] = [children |-> members, seller |-> txn[w].seller]]
        /\ recurring' = [d \in Drafts |-> IF d \in members
                                          THEN [recurring[d] EXCEPT !.into = p]
                                          ELSE recurring[d]]
    /\ MarkCompleted(txn[w].draft)
    /\ EndTx(w)
    /\ UNCHANGED moved

\* The draft cannot be finalized any more, or it or a member cannot be
\* refreshed.  The error is caught, and the event tried again.
FinalizeFails(w) ==
    /\ txn[w].op \in {"event", "merge"} /\ txn[w].step = "row"
    /\ Free(txn[w].draft, w)
    /\ FailFinalize(txn[w].draft, txn[w].retries)
    /\ EndTx(w)
    /\ UNCHANGED <<recurring, parent, moved>>

\* A transaction is rolled back: a request that is refused, a worker that is
\* gone, a deadlock the database resolves, or a balance that would be negative.
Aborts(t) ==
    /\ txn[t].step # "idle"
    /\ EndTx(t)
    /\ UNCHANGED <<recurring, parent, schedule, moved>>

-----------------------------------------------------------------------------
(* Users.                                                                  *)

\* finalize_invoice, update_draft_invoice: nothing is read before the customer is
\* locked.
AskFor(u, op, d) ==
    /\ txn[u].step = "idle"
    /\ op \in {"finalize", "edit"}
    /\ recurring[d].status # "deleted"
    /\ txn' = [txn EXCEPT ![u] = Begun(op, "row", d)]
    /\ LockCustomer(u)

\* update_draft_invoice_tx: it may name another seller.
EditDraft(u) ==
    LET d == txn[u].draft
        processed == \E w \in Mergers : txn[w].draft = d /\ txn[w].step \in {"group", "lock"}
    IN
    /\ At(u, "edit", "row")
    /\ Free(d, u) /\ Open(d)
    /\ \E s \in Sellers :
        /\ recurring' = [recurring EXCEPT ![d].seller = s]
        /\ moved' = IF processed /\ s # recurring[d].seller THEN moved \cup {d} ELSE moved
    /\ EndTx(u)
    /\ UNCHANGED <<parent, schedule>>

\* delete_invoice reads the row without a lock...
AskToDelete(u, d) ==
    /\ txn[u].step = "idle"
    /\ recurring[d].status # "deleted" /\ recurring[d].into = 0
    /\ txn' = [txn EXCEPT ![u] = Begun("delete", "row", d)]
    /\ UNCHANGED <<recurring, parent, schedule, mergeLocks, moved>>

\* ...and its DELETE looks only at the status, which a child keeps.
DeleteDraft(u) ==
    LET d == txn[u].draft IN
    /\ At(u, "delete", "row")
    /\ Free(d, u) /\ recurring[d].status = "Draft"
    /\ recurring' = [recurring EXCEPT ![d].status = "deleted"]
    /\ EndTx(u)
    /\ UNCHANGED <<parent, schedule, moved>>

-----------------------------------------------------------------------------

MergeNext ==
    \/ \E w \in Mergers :
        \/ \E d \in Drafts : ClaimFinalize(w, d)
        \/ LockGroup(w) \/ LockCandidate(w)
        \/ SkipTrigger(w) \/ GoTogether(w) \/ GoAlone(w)
        \/ MergeDrafts(w) \/ FinalizeFails(w)
    \/ \E u \in Editors :
        \/ \E d \in Drafts : AskToDelete(u, d)
        \/ \E d \in Drafts, op \in {"finalize", "edit"} : AskFor(u, op, d)
        \/ EditDraft(u) \/ DeleteDraft(u)
    \/ \E t \in Txns : FinalizeDraft(t) \/ Aborts(t)
    \/ \E d \in Drafts : FinalizeTimesOut(d)

MergeSpec == MergeInit /\ [][MergeNext]_mergeVars

-----------------------------------------------------------------------------

MergeTypeOK ==
    /\ recurring \in [Drafts -> RecurringRow]
    /\ parent \in [Parents -> [children : SUBSET Drafts, seller : Sellers]]
    /\ schedule \in [Drafts -> FinalizeEvent]
    /\ txn \in [Txns -> TxnRow]
    /\ groupLock \in [Sellers -> Txns \cup {NoTx}]
    /\ customerLock \in Txns \cup {NoTx}
    /\ draftLock \in [Drafts -> Txns \cup {NoTx}]
    /\ moved \subseteq Drafts

\* What a subscription owes for a day is charged once: a draft has at most one
\* parent, by its own seller, and is not finalized beside it ("finalizing it too
\* would double-bill"); and an event is not completed before its draft is billed
\* or gone, unless the draft was given to another seller after the worker had
\* read it (consolidate.rs:111-113 takes it for one that was merged).
BilledOnce ==
    /\ \A p \in Parents : \A d \in parent[p].children :
        /\ recurring[d].into = p
        /\ recurring[d].status # "Finalized"
        /\ recurring[d].status = "Draft" => recurring[d].seller = parent[p].seller
    /\ \A d \in Drafts : schedule[d].status = "Completed" => ~Open(d) \/ d \in moved

-----------------------------------------------------------------------------
(* Drafts and their invoices, for those who only see these.                *)

SellerOf == [d \in Drafts |-> recurring[d].seller]
BilledAlone == {d \in Drafts : recurring[d].status = "Finalized"}
BilledTogether == {parent[p].children : p \in Parents} \ {{}}
Gone == {d \in Drafts : recurring[d].status = "deleted"}
Closed == {d \in Drafts : schedule[d].status = "Completed"}

Billing == INSTANCE DraftBilling
            WITH seller <- SellerOf, alone <- BilledAlone, groups <- BilledTogether,
                 gone <- Gone, closed <- Closed

\* Whatever is claimed, locked, retried and rolled back, every step of the program
\* does to the drafts what DraftBilling allows, or nothing: those that are billed
\* together were all open and, at that moment, of one seller that consolidates
\* and paid for alike; what is billed stays so; an event is over only for a
\* draft that is billed, gone or was moved.
BillsDrafts == Billing!DraftsSpec

=============================================================================
