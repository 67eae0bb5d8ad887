------------------------ MODULE ConsolidationProofs -------------------------
(***************************************************************************)
(* Proofs about Consolidation, for any number of drafts, event workers and *)
(* users.                                                                  *)
(***************************************************************************)
EXTENDS Consolidation, TLAPS

USE ConsolidationAssumption

\* A draft the merger has locked and found to match.
Held(d, w) == draftLock[d] = w /\ Candidate(d, txn[w].seller)

MembersHeld(w) ==
    /\ At(w, "event", "group") => txn[w].found = {}
    /\ At(w, "event", "lock") => \A d \in txn[w].found : Held(d, w)
    /\ At(w, "merge", "row") =>
        txn[w].draft \in txn[w].found /\ \A d \in txn[w].found : Held(d, w)

Gathering(w) == At(w, "event", "group") \/ At(w, "event", "lock")

\* As long as a trigger is open and has not moved, its worker will find it.
TriggerFound(w) ==
    LET d == txn[w].draft IN
    Gathering(w) =>
        \/ ~Open(d) \/ d \in moved
        \/ /\ recurring[d].seller = txn[w].seller
           /\ txn[w].step = "lock" => d \in txn[w].todo \cup txn[w].found

WorkerInv(w) == MembersHeld(w) /\ TriggerFound(w)

MergeInv ==
    /\ MergeTypeOK
    /\ \A w \in Mergers : WorkerInv(w)
    /\ BilledOnce

-----------------------------------------------------------------------------

LEMMA EmptyTyped == NoTransaction \in TxnRow
<1>1. AnyDraft \in Drafts BY DEF AnyDraft
<1> QED BY <1>1 DEF NoTransaction, TxnRow, TxnSteps

LEMMA BegunTyped ==
    ASSUME NEW d \in Drafts, NEW step \in TxnSteps,
           NEW op \in {"none", "event", "merge", "finalize", "edit", "delete"}
    PROVE  Begun(op, step, d) \in TxnRow
BY EmptyTyped DEF Begun, TxnRow

LEMMA ClaimedTyped ==
    ASSUME MergeTypeOK, NEW d \in Drafts, NEW step \in TxnSteps
    PROVE  Claimed(d, step) \in TxnRow
<1>1. Begun("event", step, d) \in TxnRow BY BegunTyped
<1>2. schedule[d].retries \in Nat BY DEF MergeTypeOK, FinalizeEvent
<1> QED BY <1>1, <1>2 DEF Claimed, TxnRow

\* The end of a transaction keeps the types of what it touches.
LEMMA EndTyped ==
    ASSUME MergeTypeOK, NEW t \in Txns, EndTx(t)
    PROVE  /\ txn' \in [Txns -> TxnRow]
           /\ groupLock' \in [Sellers -> Txns \cup {NoTx}]
           /\ customerLock' \in Txns \cup {NoTx}
           /\ draftLock' \in [Drafts -> Txns \cup {NoTx}]
BY EmptyTyped DEF EndTx, MergeTypeOK

LEMMA CompletedTyped ==
    ASSUME MergeTypeOK, NEW d \in Drafts, MarkCompleted(d)
    PROVE  schedule' \in [Drafts -> FinalizeEvent]
BY DEF MarkCompleted, MergeTypeOK, FinalizeEvent

LEMMA FailedTyped ==
    ASSUME MergeTypeOK, NEW d \in Drafts, NEW retries, FailFinalize(d, retries)
    PROVE  schedule' \in [Drafts -> FinalizeEvent]
<1>1. schedule[d] \in FinalizeEvent BY DEF MergeTypeOK
<1>2. CASE retries < MaxFinalizeRetries
      BY <1>1, <1>2 DEF FailFinalize, MergeTypeOK, FinalizeEvent
<1>3. CASE ~(retries < MaxFinalizeRetries)
      BY <1>1, <1>3 DEF FailFinalize, MergeTypeOK, FinalizeEvent
<1> QED BY <1>2, <1>3

\* A row is changed in one field.
LEMMA RowChanged ==
    ASSUME MergeTypeOK, NEW d \in Drafts,
           NEW status \in {"Draft", "Finalized", "deleted"}, NEW s \in Sellers
    PROVE  /\ [recurring EXCEPT ![d].status = status] \in [Drafts -> RecurringRow]
           /\ [recurring EXCEPT ![d].seller = s] \in [Drafts -> RecurringRow]
<1>1. recurring[d] \in RecurringRow BY DEF MergeTypeOK
<1>2. /\ [recurring[d] EXCEPT !.status = status] \in RecurringRow
      /\ [recurring[d] EXCEPT !.seller = s] \in RecurringRow
      BY <1>1 DEF RecurringRow
<1> QED BY <1>2 DEF MergeTypeOK

\* Every action keeps the types of the variables.
LEMMA MergeTypes ==
    ASSUME MergeTypeOK, MergeNext PROVE MergeTypeOK'
<1> USE DEF MergeTypeOK, Txns, mergeLocks
<1>1. ASSUME NEW t \in Txns PROVE /\ txn[t] \in TxnRow
                                  /\ txn[t].draft \in Drafts
                                  /\ txn[t].seller \in Sellers
      BY DEF TxnRow
<1>2. ASSUME NEW w \in Mergers, NEW d \in Drafts, ClaimFinalize(w, d) PROVE MergeTypeOK'
  <2> DEFINE alone == Claimed(d, "customer")
             grouped == [Claimed(d, "group") EXCEPT !.seller = recurring[d].seller]
  <2>0. UNCHANGED <<recurring, parent, groupLock, customerLock, draftLock, moved>>
        BY <1>2 DEF ClaimFinalize
  <2>1. CASE UNCHANGED txn
    <3>1. ASSUME schedule' = [schedule EXCEPT ![d].status = "Processing"]
          PROVE  schedule' \in [Drafts -> FinalizeEvent]
          BY <3>1 DEF FinalizeEvent
    <3>2. schedule' \in [Drafts -> FinalizeEvent]
          BY <1>2, <3>1, CompletedTyped, FailedTyped DEF ClaimFinalize
    <3> QED BY <2>0, <2>1, <3>2
  <2>2. CASE schedule' = [schedule EXCEPT ![d].status = "Processing"]
    <3>1. schedule' \in [Drafts -> FinalizeEvent] BY <2>2 DEF FinalizeEvent
    <3>2. recurring[d].seller \in Sellers BY DEF RecurringRow
    <3>3. Claimed(d, "group") \in TxnRow /\ Claimed(d, "customer") \in TxnRow
          BY ClaimedTyped DEF TxnSteps
    <3>4. alone \in TxnRow /\ grouped \in TxnRow BY <3>2, <3>3 DEF TxnRow
    <3>5. \/ UNCHANGED txn
          \/ txn' = [txn EXCEPT ![w] = alone]
          \/ txn' = [txn EXCEPT ![w] = grouped]
          BY <1>2 DEF ClaimFinalize
    <3> HIDE DEF alone, grouped
    <3>6. txn' \in [Txns -> TxnRow] BY <3>4, <3>5
    <3> QED BY <2>0, <3>1, <3>6
  <2> QED BY <1>2, <2>1, <2>2 DEF ClaimFinalize
<1>3. ASSUME NEW w \in Mergers, LockGroup(w) PROVE MergeTypeOK'
  <2> DEFINE todo == {d \in Drafts : Candidate(d, txn[w].seller)}
             row == [txn[w] EXCEPT !.step = "lock", !.todo = todo]
  <2>1. txn[w] \in TxnRow /\ todo \in SUBSET Drafts BY <1>1
  <2>2. "lock" \in TxnSteps BY DEF TxnSteps
  <2> HIDE DEF todo
  <2>3. row \in TxnRow BY <2>1, <2>2 DEF TxnRow
  <2>4. txn' = [txn EXCEPT ![w] = row] BY <1>3 DEF LockGroup, todo
  <2> HIDE DEF row
  <2>5. txn' \in [Txns -> TxnRow] BY <2>3, <2>4
  <2> QED BY <1>1, <1>3, <2>5 DEF LockGroup
<1>4. ASSUME NEW w \in Mergers, LockCandidate(w) PROVE MergeTypeOK'
  <2> PICK d \in txn[w].todo :
        /\ draftLock' = [draftLock EXCEPT ![d] = w]
        /\ txn' = [txn EXCEPT ![w].todo = @ \ {d},
                              ![w].found = IF Candidate(d, txn[w].seller)
                                           THEN @ \cup {d} ELSE @]
      BY <1>4 DEF LockCandidate
  <2>1. d \in Drafts BY <1>1 DEF TxnRow
  <2> DEFINE found == IF Candidate(d, txn[w].seller) THEN txn[w].found \cup {d}
                      ELSE txn[w].found
             row == [txn[w] EXCEPT !.todo = @ \ {d}, !.found = found]
  <2>2. txn[w] \in TxnRow BY <1>1
  <2>3. found \in SUBSET Drafts BY <2>1, <2>2 DEF TxnRow
  <2>4. txn' = [txn EXCEPT ![w] = row] BY DEF found
  <2> HIDE DEF found
  <2>5. row \in TxnRow BY <2>2, <2>3 DEF TxnRow
  <2> HIDE DEF row
  <2>6. txn' \in [Txns -> TxnRow] BY <2>4, <2>5
  <2> QED BY <1>4, <2>1, <2>6 DEF LockCandidate
<1>5. ASSUME NEW w \in Mergers, SkipTrigger(w) PROVE MergeTypeOK'
      BY <1>1, <1>5, EndTyped, CompletedTyped DEF SkipTrigger
<1>6. ASSUME NEW w \in Mergers, GoTogether(w) PROVE MergeTypeOK'
  <2>1. Members(w) \subseteq Drafts BY <1>1 DEF Members, TxnRow
  <2> DEFINE row == [txn[w] EXCEPT !.op = "merge", !.step = "row", !.found = Members(w)]
  <2>2. txn[w] \in TxnRow /\ "row" \in TxnSteps BY <1>1 DEF TxnSteps
  <2>3. row \in TxnRow BY <2>1, <2>2 DEF TxnRow
  <2>4. txn' = [txn EXCEPT ![w] = row] BY <1>6 DEF GoTogether
  <2> HIDE DEF row
  <2>5. txn' \in [Txns -> TxnRow] BY <2>3, <2>4
  <2> QED BY <1>6, <2>5 DEF GoTogether, LockCustomer
<1>7. ASSUME NEW w \in Mergers, GoAlone(w) PROVE MergeTypeOK'
  <2> DEFINE row == [txn[w] EXCEPT !.step = "row", !.found = {}]
  <2>1. txn[w] \in TxnRow /\ "row" \in TxnSteps BY <1>1 DEF TxnSteps
  <2>2. row \in TxnRow BY <2>1 DEF TxnRow
  <2>3. txn' = [txn EXCEPT ![w] = row] BY <1>7 DEF GoAlone
  <2> HIDE DEF row
  <2>4. txn' \in [Txns -> TxnRow] BY <2>2, <2>3
  <2> QED BY <1>7, <2>4 DEF GoAlone, LockCustomer
<1>8. ASSUME NEW w \in Mergers, MergeDrafts(w) PROVE MergeTypeOK'
  <2> PICK p \in NewParents :
        /\ parent' = [parent EXCEPT ![p] = [children |-> txn[w].found,
                                            seller |-> txn[w].seller]]
        /\ recurring' = [d \in Drafts |-> IF d \in txn[w].found
                                          THEN [recurring[d] EXCEPT !.into = p]
                                          ELSE recurring[d]]
      BY <1>8 DEF MergeDrafts
  <2>1. p \in Parents BY DEF NewParents
  <2>2. recurring' \in [Drafts -> RecurringRow]
    <3>1. ASSUME NEW d \in Drafts
          PROVE  recurring[d] \in RecurringRow
                 /\ [recurring[d] EXCEPT !.into = p] \in RecurringRow
          BY <2>1 DEF RecurringRow
    <3> QED BY <3>1
  <2>3. txn[w].found \subseteq Drafts BY <1>1 DEF TxnRow
  <2>4. parent' \in [Parents -> [children : SUBSET Drafts, seller : Sellers]]
        BY <1>1, <2>1, <2>3
  <2> QED BY <1>1, <1>8, <2>2, <2>4, EndTyped, CompletedTyped DEF MergeDrafts
<1>9. ASSUME NEW w \in Mergers, FinalizeFails(w) PROVE MergeTypeOK'
      BY <1>1, <1>9, EndTyped, FailedTyped DEF FinalizeFails
<1>10. ASSUME NEW u \in Editors, NEW d \in Drafts, AskToDelete(u, d) PROVE MergeTypeOK'
  <2>1. Begun("delete", "row", d) \in TxnRow BY BegunTyped DEF TxnSteps
  <2> QED BY <1>10, <2>1 DEF AskToDelete
<1>11. ASSUME NEW u \in Editors, NEW d \in Drafts, NEW op \in {"finalize", "edit"},
              AskFor(u, op, d)
       PROVE  MergeTypeOK'
  <2>1. Begun(op, "row", d) \in TxnRow BY BegunTyped DEF TxnSteps
  <2> QED BY <1>11, <2>1 DEF AskFor, LockCustomer
<1>12. ASSUME NEW u \in Editors, EditDraft(u) PROVE MergeTypeOK'
  <2> PICK s \in Sellers : recurring' = [recurring EXCEPT ![txn[u].draft].seller = s]
      BY <1>12 DEF EditDraft
  <2>0. txn[u].draft \in Drafts BY <1>1
  <2>1. recurring' \in [Drafts -> RecurringRow] BY <2>0, RowChanged
  <2> QED BY <1>1, <1>12, <2>1, EndTyped DEF EditDraft
<1>13. ASSUME NEW u \in Editors, DeleteDraft(u) PROVE MergeTypeOK'
  <2>1. recurring' \in [Drafts -> RecurringRow] BY <1>1, <1>13, RowChanged DEF DeleteDraft
  <2> QED BY <1>1, <1>13, <2>1, EndTyped DEF DeleteDraft
<1>14. ASSUME NEW t \in Txns, FinalizeDraft(t) PROVE MergeTypeOK'
  <2> DEFINE d == txn[t].draft
  <2>0. d \in Drafts /\ txn[t].seller \in Sellers BY <1>1
  <2>3. recurring' = [recurring EXCEPT ![d].status = "Finalized"]
        BY <1>14 DEF FinalizeDraft
  <2> HIDE DEF d
  <2>1. recurring' \in [Drafts -> RecurringRow] BY <2>0, <2>3, RowChanged
  <2>2. schedule' \in [Drafts -> FinalizeEvent]
        BY <1>1, <1>14, CompletedTyped DEF FinalizeDraft
  <2> QED BY <1>14, <2>1, <2>2, EndTyped DEF FinalizeDraft
<1>15. ASSUME NEW t \in Txns, Aborts(t) PROVE MergeTypeOK'
       BY <1>15, EndTyped DEF Aborts
<1>16. ASSUME NEW d \in Drafts, FinalizeTimesOut(d) PROVE MergeTypeOK'
  <2>1. schedule[d].retries + 1 \in Nat BY DEF FinalizeEvent
  <2> QED BY <1>16, <2>1 DEF FinalizeTimesOut, FinalizeEvent
<1> QED BY <1>2, <1>3, <1>4, <1>5, <1>6, <1>7, <1>8, <1>9, <1>10, <1>11, <1>12, <1>13,
           <1>14, <1>15, <1>16 DEF MergeNext

-----------------------------------------------------------------------------

\* A worker that does nothing keeps its part of the invariant, if nobody touches
\* the rows it has locked, no draft is opened again, and the seller of its trigger
\* changes only with moved.
LEMMA WorkerStays ==
    ASSUME MergeTypeOK, NEW w \in Mergers, WorkerInv(w), txn'[w] = txn[w],
           moved \subseteq moved',
           \A d \in Drafts : draftLock[d] = w =>
                draftLock'[d] = w /\ recurring'[d] = recurring[d],
           \A d \in Drafts : Open(d)' => Open(d),
           Gathering(w) => LET d == txn[w].draft IN
                ~Open(d)' \/ d \in moved' \/ recurring'[d].seller = recurring[d].seller
    PROVE  WorkerInv(w)'
<1>1. txn[w].draft \in Drafts /\ txn[w].found \subseteq Drafts
      BY DEF MergeTypeOK, TxnRow, Txns
<1>2. MembersHeld(w)'
  <2>1. ASSUME NEW d \in txn[w].found, Held(d, w) PROVE Held(d, w)'
        BY <1>1, <2>1 DEF Held, Candidate, Open
  <2> QED BY <2>1 DEF WorkerInv, MembersHeld, At
<1>3. TriggerFound(w)'
      BY <1>1 DEF WorkerInv, TriggerFound, Gathering, At
<1> QED BY <1>2, <1>3 DEF WorkerInv

\* A worker that neither gathers nor merges has nothing to keep.
LEMMA WorkerFree ==
    ASSUME NEW w, txn'[w].op = "none" \/ (txn'[w].op = "event" /\ txn'[w].step \in {"customer", "row"})
    PROVE  WorkerInv(w)'
BY DEF WorkerInv, MembersHeld, TriggerFound, Gathering, At

\* Drafts that have a parent are not open, so that what happens to open drafts
\* and to the status of the others keeps the property.
LEMMA BilledStays ==
    ASSUME MergeTypeOK, BilledOnce, parent' = parent, moved \subseteq moved',
           \A d \in Drafts :
                \/ Open(d)
                \/ recurring'[d] = recurring[d]
                \/ /\ recurring'[d].into = recurring[d].into
                   /\ recurring'[d].status = "deleted",
           \A d \in Drafts : Open(d)' => Open(d),
           \A d \in Drafts : schedule'[d].status = "Completed" =>
                schedule[d].status = "Completed" \/ ~Open(d)'
    PROVE  BilledOnce'
<1>1. ASSUME NEW p \in Parents, NEW d \in parent'[p].children
      PROVE  /\ recurring'[d].into = p
             /\ recurring'[d].status # "Finalized"
             /\ recurring'[d].status = "Draft" => recurring'[d].seller = parent'[p].seller
  <2>1. d \in Drafts BY DEF MergeTypeOK
  <2>2. /\ recurring[d].into = p
        /\ recurring[d].status # "Finalized"
        /\ recurring[d].status = "Draft" => recurring[d].seller = parent[p].seller
        BY DEF BilledOnce
  <2>3. ~Open(d) BY <2>2 DEF Open, Parents
  <2> QED BY <2>1, <2>2, <2>3
<1>2. ASSUME NEW d \in Drafts, schedule'[d].status = "Completed"
      PROVE  ~Open(d)' \/ d \in moved'
      BY <1>2 DEF BilledOnce
<1> QED BY <1>1, <1>2 DEF BilledOnce

\* The end of a transaction takes nothing from another.
LEMMA EndApart ==
    ASSUME MergeTypeOK, NEW t \in Txns, EndTx(t), NEW w \in Txns
    PROVE  /\ w = t => txn'[w].op = "none"
           /\ w # t => /\ txn'[w] = txn[w]
                       /\ \A d \in Drafts : draftLock[d] = w => draftLock'[d] = w
BY DEF EndTx, MergeTypeOK, NoTransaction

\* Steps that neither touch the rows of drafts nor complete an event.
LEMMA BilledKept ==
    ASSUME MergeTypeOK, BilledOnce, UNCHANGED <<recurring, parent, moved>>,
           \A d \in Drafts : schedule'[d].status = "Completed" =>
                schedule[d].status = "Completed" \/ ~Open(d)
    PROVE  BilledOnce'
BY BilledStays DEF Open

\* A step of a worker's or a user's transaction that ends it, for the workers:
\* open drafts that are locked by nobody else may change.
LEMMA WorkersAfterEnd ==
    ASSUME MergeInv, NEW t \in Txns, EndTx(t), moved \subseteq moved',
           \A d \in Drafts : Free(d, t) \/ recurring'[d] = recurring[d],
           \A d \in Drafts : Open(d)' => Open(d),
           \A w \in Mergers : Gathering(w) => LET d == txn[w].draft IN
                ~Open(d)' \/ d \in moved' \/ recurring'[d].seller = recurring[d].seller
    PROVE  \A w \in Mergers : WorkerInv(w)'
<1> SUFFICES ASSUME NEW w \in Mergers PROVE WorkerInv(w)' OBVIOUS
<1>1. w \in Txns /\ MergeTypeOK /\ WorkerInv(w) BY DEF Txns, MergeInv
<1>2. CASE w = t BY <1>1, <1>2, EndApart, WorkerFree
<1>3. CASE w # t
  <2>1. ASSUME NEW d \in Drafts, draftLock[d] = w
        PROVE  draftLock'[d] = w /\ recurring'[d] = recurring[d]
        BY <1>1, <1>3, <2>1, EndApart, ConsolidationAssumption DEF Free, Txns
  <2>2. txn'[w] = txn[w] BY <1>1, <1>3, EndApart
  <2> QED BY <1>1, <2>1, <2>2, WorkerStays
<1> QED BY <1>2, <1>3

\* A step within a transaction, for the other workers: it changes no draft and
\* locks only what is free.
LEMMA WorkersDuring ==
    ASSUME MergeInv, NEW t, UNCHANGED <<recurring, moved>>,
           \A w \in Mergers : w # t => txn'[w] = txn[w],
           \A d \in Drafts : draftLock'[d] = draftLock[d] \/ Free(d, t),
           \A d \in Drafts : draftLock[d] = t => draftLock'[d] = t,
           t \in Mergers => WorkerInv(t)'
    PROVE  \A w \in Mergers : WorkerInv(w)'
<1> SUFFICES ASSUME NEW w \in Mergers, w # t PROVE WorkerInv(w)' OBVIOUS
<1>1. MergeTypeOK /\ WorkerInv(w) /\ w # NoTx BY DEF MergeInv
<1>2. ASSUME NEW d \in Drafts, draftLock[d] = w PROVE draftLock'[d] = w
      BY <1>1, <1>2 DEF Free
<1> QED BY <1>1, <1>2, WorkerStays DEF Open

\* A step that changes one transaction.
LEMMA OneRow ==
    ASSUME MergeTypeOK, NEW t \in Txns, NEW row, txn' = [txn EXCEPT ![t] = row]
    PROVE  txn'[t] = row /\ \A v \in Mergers : v # t => txn'[v] = txn[v]
BY DEF MergeTypeOK, Txns

\* The merge: its members are open, locked, and of the parent's seller.
LEMMA MergeBills ==
    ASSUME MergeInv, NEW w \in Mergers, MergeDrafts(w)
    PROVE  BilledOnce' /\ \A v \in Mergers : WorkerInv(v)'
<1> DEFINE members == txn[w].found
           trigger == txn[w].draft
<1>1. MergeTypeOK /\ BilledOnce /\ w \in Txns /\ EndTx(w) /\ moved' = moved
      BY DEF MergeInv, Txns, MergeDrafts
<1>2. /\ trigger \in members /\ members \subseteq Drafts
      /\ \A d \in members : Held(d, w)
      BY <1>1 DEF MergeInv, WorkerInv, MembersHeld, MergeDrafts, MergeTypeOK, TxnRow
<1> PICK p \in NewParents :
      /\ parent' = [parent EXCEPT ![p] = [children |-> members, seller |-> txn[w].seller]]
      /\ recurring' = [d \in Drafts |-> IF d \in members
                                        THEN [recurring[d] EXCEPT !.into = p]
                                        ELSE recurring[d]]
    BY DEF MergeDrafts
<1>3. p \in Parents /\ p # 0 BY DEF NewParents, Parents
<1>4. ASSUME NEW d \in members
      PROVE  /\ d \in Drafts /\ Open(d) /\ draftLock[d] = w /\ ~Open(d)'
             /\ recurring'[d].into = p /\ recurring'[d].status = "Draft"
             /\ recurring'[d].seller = txn[w].seller
  <2>1. d \in Drafts /\ Held(d, w) /\ recurring[d] \in RecurringRow
        BY <1>1, <1>2 DEF MergeTypeOK
  <2>2. recurring'[d] = [recurring[d] EXCEPT !.into = p] BY <2>1
  <2>3. /\ recurring'[d].into = p /\ recurring'[d].status = recurring[d].status
        /\ recurring'[d].seller = recurring[d].seller
        BY <2>1, <2>2 DEF RecurringRow
  <2> QED BY <1>3, <2>1, <2>3 DEF Held, Candidate, Open
<1>5. ASSUME NEW d \in Drafts, d \notin members PROVE recurring'[d] = recurring[d]
      BY <1>5
<1>6. ASSUME NEW q \in Parents, NEW d \in parent'[q].children
      PROVE  /\ recurring'[d].into = q
             /\ recurring'[d].status # "Finalized"
             /\ recurring'[d].status = "Draft" => recurring'[d].seller = parent'[q].seller
  <2>1. CASE q = p
    <3>1. parent'[q] = [children |-> members, seller |-> txn[w].seller]
          BY <1>1, <1>3, <2>1 DEF MergeTypeOK
    <3>2. d \in members /\ parent'[q].seller = txn[w].seller BY <3>1
    <3>3. /\ recurring'[d].into = p /\ recurring'[d].status = "Draft"
          /\ recurring'[d].seller = txn[w].seller
          BY <1>4, <3>2
    <3> QED BY <2>1, <3>2, <3>3
  <2>2. CASE q # p
    <3>1. parent'[q] = parent[q] BY <1>1, <2>2 DEF MergeTypeOK
    <3>2. d \in Drafts /\ recurring[d].into = q /\ q # 0
          BY <1>1, <1>6, <3>1 DEF MergeTypeOK, BilledOnce, Parents
    <3>3. d \notin members BY <1>4, <3>2 DEF Open
    <3> QED BY <1>1, <1>5, <1>6, <3>1, <3>2, <3>3 DEF BilledOnce
  <2> QED BY <2>1, <2>2
<1>7. ASSUME NEW d \in Drafts, schedule'[d].status = "Completed"
      PROVE  ~Open(d)' \/ d \in moved'
  <2>1. CASE d \in members BY <1>4, <2>1
  <2>2. CASE d \notin members
    <3>1. d # trigger BY <1>2, <2>2
    <3>2. schedule'[d] = schedule[d]
          BY <1>1, <3>1 DEF MergeDrafts, MarkCompleted, MergeTypeOK
    <3> QED BY <1>1, <1>5, <1>7, <2>2, <3>2 DEF BilledOnce, Open
  <2> QED BY <2>1, <2>2
<1>8. BilledOnce' BY <1>6, <1>7 DEF BilledOnce
<1>9. /\ \A d \in Drafts : Free(d, w) \/ recurring'[d] = recurring[d]
      /\ \A d \in Drafts : Open(d)' => Open(d)
      BY <1>4, <1>5 DEF Free, Open
<1>10. \A v \in Mergers : Gathering(v) => LET d == txn[v].draft IN
          ~Open(d)' \/ d \in moved' \/ recurring'[d].seller = recurring[d].seller
  <2>1. \A v \in Mergers : txn[v].draft \in Drafts
        BY <1>1 DEF MergeTypeOK, TxnRow, Txns
  <2> QED BY <1>4, <1>5, <2>1
<1>11. \A v \in Mergers : WorkerInv(v)'
       BY <1>1, <1>9, <1>10, WorkersAfterEnd
<1> QED BY <1>8, <1>11

\* A step that ends a transaction and leaves the rows of the drafts as they are.
LEMMA EndsQuietly ==
    ASSUME MergeInv, NEW t \in Txns, EndTx(t), UNCHANGED <<recurring, parent, moved>>,
           \A d \in Drafts : schedule'[d].status = "Completed" =>
                schedule[d].status = "Completed" \/ ~Open(d) \/ d \in moved
    PROVE  BilledOnce' /\ \A v \in Mergers : WorkerInv(v)'
<1>1. MergeTypeOK /\ BilledOnce BY DEF MergeInv
<1>2. \A v \in Mergers : txn[v].draft \in Drafts
      BY <1>1 DEF MergeTypeOK, TxnRow, Txns
<1>3. \A d \in Drafts : Open(d)' = Open(d) BY DEF Open
<1>4. \A v \in Mergers : WorkerInv(v)'
      BY <1>2, <1>3, WorkersAfterEnd
<1>5. BilledOnce' BY <1>1, <1>3 DEF BilledOnce
<1> QED BY <1>4, <1>5

\* A failed event is not a completed one.
LEMMA FailedNotCompleted ==
    ASSUME MergeTypeOK, NEW d \in Drafts, NEW retries, FailFinalize(d, retries),
           NEW e \in Drafts, schedule'[e].status = "Completed"
    PROVE  schedule[e].status = "Completed"
<1>1. CASE e # d BY <1>1 DEF FailFinalize, MergeTypeOK
<1>2. CASE e = d /\ retries < MaxFinalizeRetries
      BY <1>2 DEF FailFinalize, MergeTypeOK
<1>3. CASE e = d /\ ~(retries < MaxFinalizeRetries)
  <2>1. schedule'[d] = [schedule[d] EXCEPT !.status = "Failed"]
        BY <1>3 DEF FailFinalize, MergeTypeOK
  <2>2. schedule[d] \in FinalizeEvent BY DEF MergeTypeOK
  <2> QED BY <1>3, <2>1, <2>2 DEF FinalizeEvent
<1> QED BY <1>1, <1>2, <1>3

\* A step that ends a transaction and changes the row of one draft that is free:
\* an open one, or to deleted.
LEMMA EndsWithRow ==
    ASSUME MergeInv, NEW t \in Txns, EndTx(t), parent' = parent, moved \subseteq moved',
           NEW d \in Drafts, Free(d, t), NEW row \in RecurringRow,
           recurring' = [recurring EXCEPT ![d] = row],
           row.into = recurring[d].into,
           Open(d) \/ row.status = "deleted",
           row.seller = recurring[d].seller
                \/ \A w \in Mergers : Gathering(w) /\ txn[w].draft = d => d \in moved',
           \A e \in Drafts : schedule'[e].status = "Completed" =>
                schedule[e].status = "Completed" \/ (e = d /\ row.status # "Draft")
    PROVE  BilledOnce' /\ \A v \in Mergers : WorkerInv(v)'
<1>1. MergeTypeOK /\ BilledOnce BY DEF MergeInv
<1>2. /\ recurring'[d] = row
      /\ \A e \in Drafts : e # d => recurring'[e] = recurring[e]
      BY <1>1 DEF MergeTypeOK
<1>3. \A v \in Mergers : txn[v].draft \in Drafts
      BY <1>1 DEF MergeTypeOK, TxnRow, Txns
<1>4. \A e \in Drafts : Open(e)' => Open(e) BY <1>2 DEF Open
<1>5. \A v \in Mergers : WorkerInv(v)'
  <2>1. \A e \in Drafts : Free(e, t) \/ recurring'[e] = recurring[e] BY <1>2
  <2>2. \A w \in Mergers : Gathering(w) => LET e == txn[w].draft IN
            ~Open(e)' \/ e \in moved' \/ recurring'[e].seller = recurring[e].seller
        BY <1>2, <1>3
  <2> QED BY <1>4, <2>1, <2>2, WorkersAfterEnd
<1>6. BilledOnce'
  <2>1. \A e \in Drafts : \/ Open(e)
                          \/ recurring'[e] = recurring[e]
                          \/ /\ recurring'[e].into = recurring[e].into
                             /\ recurring'[e].status = "deleted"
        BY <1>2
  <2>2. \A e \in Drafts : schedule'[e].status = "Completed" =>
            schedule[e].status = "Completed" \/ ~Open(e)'
        BY <1>2 DEF Open
  <2> QED BY <1>1, <1>4, <2>1, <2>2, BilledStays
<1> QED BY <1>5, <1>6

\* Every action keeps the invariant.
LEMMA MergeStep ==
    ASSUME MergeInv, MergeNext PROVE MergeInv'
<1> DEFINE Keeps == BilledOnce' /\ \A w \in Mergers : WorkerInv(w)'
<1>1. MergeTypeOK /\ MergeTypeOK' /\ BilledOnce BY MergeTypes DEF MergeInv
<1>2. ASSUME NEW t \in Txns
      PROVE  /\ txn[t] \in TxnRow /\ txn[t].draft \in Drafts
             /\ txn[t].found \subseteq Drafts /\ txn[t].todo \subseteq Drafts
      BY <1>1 DEF MergeTypeOK, TxnRow
<1>3. /\ Mergers \subseteq Txns /\ Editors \subseteq Txns
      /\ \A w \in Mergers : w \notin Editors /\ WorkerInv(w)
      BY DEF Txns, MergeInv
<1>4. ASSUME NEW w \in Mergers, NEW d \in Drafts, ClaimFinalize(w, d) PROVE Keeps
  <2> DEFINE alone == Claimed(d, "customer")
             grouped == [Claimed(d, "group") EXCEPT !.seller = recurring[d].seller]
  <2>1. /\ UNCHANGED <<recurring, parent, draftLock, moved>>
        /\ \/ UNCHANGED txn
           \/ txn' = [txn EXCEPT ![w] = alone]
           \/ txn' = [txn EXCEPT ![w] = grouped]
        BY <1>4 DEF ClaimFinalize, mergeLocks
  <2>2. /\ alone.op = "event" /\ alone.step = "customer"
        /\ grouped.op = "event" /\ grouped.step = "group" /\ grouped.found = {}
        /\ grouped.draft = d /\ grouped.seller = recurring[d].seller
        BY DEF Claimed, Begun, NoTransaction
  <2> HIDE DEF alone, grouped
  <2>3. \A v \in Mergers : v # w => txn'[v] = txn[v] BY <1>1, <1>3, <2>1, OneRow
  <2>4. ASSUME NEW e \in Drafts, schedule'[e].status = "Completed"
        PROVE  schedule[e].status = "Completed" \/ ~Open(e)
    <3>1. CASE schedule' = [schedule EXCEPT ![d].status = "Processing"]
          BY <1>1, <2>4, <3>1 DEF MergeTypeOK
    <3>2. CASE FailFinalize(d, schedule[d].retries) BY <1>1, <2>4, <3>2, FailedNotCompleted
    <3>3. CASE ~Open(d) /\ MarkCompleted(d)
          BY <1>1, <2>4, <3>3 DEF MarkCompleted, MergeTypeOK
    <3> QED BY <1>4, <3>1, <3>2, <3>3 DEF ClaimFinalize
  <2>5. WorkerInv(w)'
    <3>1. CASE UNCHANGED txn
          BY <1>1, <1>3, <2>1, <3>1, WorkerStays DEF Open
    <3>2. CASE txn' = [txn EXCEPT ![w] = alone]
      <4>1. txn'[w] = alone BY <1>1, <1>3, <3>2, OneRow
      <4> QED BY <2>2, <4>1, WorkerFree
    <3>3. CASE txn' = [txn EXCEPT ![w] = grouped]
      <4>1. txn'[w] = grouped BY <1>1, <1>3, <3>3, OneRow
      <4> QED BY <2>1, <2>2, <4>1 DEF WorkerInv, MembersHeld, TriggerFound, At
    <3> QED BY <2>1, <3>1, <3>2, <3>3
  <2>6. \A v \in Mergers : WorkerInv(v)'
        BY <1>1, <2>1, <2>3, <2>5, WorkersDuring DEF Free
  <2>7. BilledOnce' BY <1>1, <2>1, <2>4, BilledKept
  <2> QED BY <2>6, <2>7
<1>5. ASSUME NEW w \in Mergers, LockGroup(w) PROVE Keeps
  <2> DEFINE todo == {d \in Drafts : Candidate(d, txn[w].seller)}
             row == [txn[w] EXCEPT !.step = "lock", !.todo = todo]
  <2>1. /\ UNCHANGED <<recurring, parent, schedule, draftLock, moved>>
        /\ txn' = [txn EXCEPT ![w] = row]
        /\ At(w, "event", "group") /\ MembersHeld(w) /\ TriggerFound(w)
        BY <1>3, <1>5 DEF LockGroup, WorkerInv
  <2>2. \A d \in Drafts : d \in todo <=> Candidate(d, txn[w].seller) OBVIOUS
  <2> HIDE DEF todo
  <2>3. /\ row.op = "event" /\ row.step = "lock" /\ row.draft = txn[w].draft
        /\ row.seller = txn[w].seller /\ row.todo = todo /\ row.found = {}
        BY <1>2, <1>3, <2>1 DEF TxnRow, At, MembersHeld
  <2> HIDE DEF row
  <2>4. txn'[w] = row /\ \A v \in Mergers : v # w => txn'[v] = txn[v]
        BY <1>1, <1>3, <2>1, OneRow
  <2>5. MembersHeld(w)' BY <2>3, <2>4 DEF MembersHeld, At
  <2>6. TriggerFound(w)'
    <3>1. \/ ~Open(txn[w].draft) \/ txn[w].draft \in moved
          \/ recurring[txn[w].draft].seller = txn[w].seller
          BY <2>1 DEF TriggerFound, Gathering
    <3>2. \/ ~Open(txn[w].draft) \/ txn[w].draft \in moved
          \/ /\ recurring[txn[w].draft].seller = txn[w].seller
             /\ txn[w].draft \in row.todo
          BY <1>2, <1>3, <2>2, <2>3, <3>1 DEF Candidate
    <3> QED BY <2>1, <2>3, <2>4, <3>2 DEF TriggerFound, Open
  <2>7. \A v \in Mergers : WorkerInv(v)'
        BY <1>1, <2>1, <2>4, <2>5, <2>6, WorkersDuring DEF Free, WorkerInv
  <2>8. BilledOnce' BY <1>1, <2>1, BilledKept
  <2> QED BY <2>7, <2>8
<1>6. ASSUME NEW w \in Mergers, LockCandidate(w) PROVE Keeps
  <2> PICK d \in txn[w].todo :
        /\ Free(d, w)
        /\ draftLock' = [draftLock EXCEPT ![d] = w]
        /\ txn' = [txn EXCEPT ![w].todo = @ \ {d},
                              ![w].found = IF Candidate(d, txn[w].seller)
                                           THEN @ \cup {d} ELSE @]
      BY <1>6 DEF LockCandidate
  <2> DEFINE found == IF Candidate(d, txn[w].seller) THEN txn[w].found \cup {d}
                      ELSE txn[w].found
             row == [txn[w] EXCEPT !.todo = @ \ {d}, !.found = found]
  <2>1. /\ UNCHANGED <<recurring, parent, schedule, moved>>
        /\ txn' = [txn EXCEPT ![w] = row]
        /\ At(w, "event", "lock") /\ MembersHeld(w) /\ TriggerFound(w)
        BY <1>3, <1>6 DEF LockCandidate, WorkerInv
  <2>2. /\ \A e \in found : e \in txn[w].found \/ (e = d /\ Candidate(d, txn[w].seller))
        /\ txn[w].found \subseteq found
        /\ Candidate(d, txn[w].seller) => d \in found
        OBVIOUS
  <2> HIDE DEF found
  <2>3. /\ row.op = "event" /\ row.step = "lock" /\ row.draft = txn[w].draft
        /\ row.seller = txn[w].seller /\ row.todo = txn[w].todo \ {d} /\ row.found = found
        BY <1>2, <1>3, <2>1 DEF TxnRow, At
  <2> HIDE DEF row
  <2>4. txn'[w] = row /\ \A v \in Mergers : v # w => txn'[v] = txn[v]
    <3>1. txn' = [txn EXCEPT ![w] = row] /\ w \in Txns BY <1>3, <2>1
    <3> QED BY <1>1, <3>1, OneRow
  <2>5. /\ d \in Drafts /\ draftLock'[d] = w
        /\ \A e \in Drafts : e # d => draftLock'[e] = draftLock[e]
        BY <1>1, <1>2, <1>3 DEF MergeTypeOK
  <2>6. MembersHeld(w)'
    <3>1. ASSUME NEW e \in found PROVE Held(e, w)'
      <4>1. e \in Drafts /\ draftLock'[e] = w /\ Candidate(e, txn[w].seller)
            BY <1>2, <1>3, <2>1, <2>2, <2>5 DEF MembersHeld, Held
      <4> QED BY <2>1, <2>3, <2>4, <4>1 DEF Held, Candidate, Open
    <3> QED BY <2>3, <2>4, <3>1 DEF MembersHeld, At
  <2>7. TriggerFound(w)'
    <3>1. \/ ~Open(txn[w].draft) \/ txn[w].draft \in moved
          \/ /\ recurring[txn[w].draft].seller = txn[w].seller
             /\ txn[w].draft \in txn[w].todo \cup txn[w].found
          BY <2>1 DEF TriggerFound, Gathering, At
    <3>2. \/ ~Open(txn[w].draft) \/ txn[w].draft \in moved
          \/ /\ recurring[txn[w].draft].seller = txn[w].seller
             /\ txn[w].draft \in row.todo \cup row.found
          BY <2>2, <2>3, <3>1 DEF Candidate
    <3> QED BY <2>1, <2>3, <2>4, <3>2 DEF TriggerFound, Open
  <2>8. WorkerInv(w)' BY <2>6, <2>7 DEF WorkerInv
  <2>9. \A v \in Mergers : WorkerInv(v)'
        BY <1>1, <2>1, <2>4, <2>5, <2>8, WorkersDuring DEF Free
  <2>10. BilledOnce' BY <1>1, <2>1, BilledKept
  <2> QED BY <2>9, <2>10
<1>7. ASSUME NEW w \in Mergers, GoTogether(w) PROVE Keeps
  <2> DEFINE row == [txn[w] EXCEPT !.op = "merge", !.step = "row", !.found = Members(w)]
  <2>1. /\ UNCHANGED <<recurring, parent, schedule, draftLock, moved>>
        /\ txn' = [txn EXCEPT ![w] = row]
        /\ At(w, "event", "lock") /\ MembersHeld(w) /\ txn[w].draft \in Members(w)
        BY <1>3, <1>7 DEF GoTogether, LockCustomer, Gathered, WorkerInv, Members
  <2>2. Members(w) \subseteq txn[w].found BY DEF Members
  <2>3. /\ row.op = "merge" /\ row.step = "row" /\ row.draft = txn[w].draft
        /\ row.seller = txn[w].seller /\ row.found = Members(w)
        BY <1>2, <1>3 DEF TxnRow
  <2> HIDE DEF row
  <2>4. txn'[w] = row /\ \A v \in Mergers : v # w => txn'[v] = txn[v]
        BY <1>1, <1>3, <2>1, OneRow
  <2>5. \A e \in txn[w].found : Held(e, w) BY <2>1 DEF MembersHeld
  <2>6. \A e \in Members(w) : Held(e, w)'
        BY <1>2, <1>3, <2>1, <2>2, <2>3, <2>4, <2>5 DEF Held, Candidate, Open
  <2>7. WorkerInv(w)'
        BY <2>1, <2>3, <2>4, <2>6
        DEF WorkerInv, MembersHeld, TriggerFound, Gathering, At
  <2>8. \A v \in Mergers : WorkerInv(v)'
        BY <1>1, <2>1, <2>4, <2>7, WorkersDuring DEF Free
  <2>9. BilledOnce' BY <1>1, <2>1, BilledKept
  <2> QED BY <2>8, <2>9
<1>8. ASSUME NEW w \in Mergers, GoAlone(w) PROVE Keeps
  <2> DEFINE row == [txn[w] EXCEPT !.step = "row", !.found = {}]
  <2>1. /\ UNCHANGED <<recurring, parent, schedule, draftLock, moved>>
        /\ txn' = [txn EXCEPT ![w] = row] /\ txn[w].op = "event"
        BY <1>8 DEF GoAlone, LockCustomer, Gathered, At
  <2>2. row.op = "event" /\ row.step = "row" BY <1>2, <1>3, <2>1 DEF TxnRow
  <2> HIDE DEF row
  <2>3. txn'[w] = row /\ \A v \in Mergers : v # w => txn'[v] = txn[v]
        BY <1>1, <1>3, <2>1, OneRow
  <2>4. WorkerInv(w)' BY <2>2, <2>3, WorkerFree
  <2>5. \A v \in Mergers : WorkerInv(v)'
        BY <1>1, <2>1, <2>3, <2>4, WorkersDuring DEF Free
  <2>6. BilledOnce' BY <1>1, <2>1, BilledKept
  <2> QED BY <2>5, <2>6
<1>9. ASSUME NEW w \in Mergers, SkipTrigger(w) PROVE Keeps
  <2> DEFINE d == txn[w].draft
  <2>1. ~Open(d) \/ d \in moved
        BY <1>3, <1>9 DEF SkipTrigger, Gathered, WorkerInv, TriggerFound, Gathering, At
  <2>2. \A e \in Drafts : schedule'[e].status = "Completed" =>
            schedule[e].status = "Completed" \/ ~Open(e) \/ e \in moved
        BY <1>1, <1>9, <2>1 DEF SkipTrigger, MarkCompleted, MergeTypeOK
  <2>3. EndTx(w) /\ UNCHANGED <<recurring, parent, moved>> BY <1>9 DEF SkipTrigger
  <2> QED BY <1>3, <2>2, <2>3, EndsQuietly
<1>10. ASSUME NEW w \in Mergers, MergeDrafts(w) PROVE Keeps
       BY <1>10, MergeBills
<1>11. ASSUME NEW w \in Mergers, FinalizeFails(w) PROVE Keeps
  <2>1. EndTx(w) /\ UNCHANGED <<recurring, parent, moved>>
        /\ FailFinalize(txn[w].draft, txn[w].retries)
        BY <1>11 DEF FinalizeFails
  <2>2. \A e \in Drafts : schedule'[e].status = "Completed" => schedule[e].status = "Completed"
        BY <1>1, <1>2, <1>3, <2>1, FailedNotCompleted
  <2> QED BY <1>3, <2>1, <2>2, EndsQuietly
<1>12. ASSUME NEW t \in Txns, Aborts(t) PROVE Keeps
       BY <1>12, EndsQuietly DEF Aborts
<1>13. ASSUME NEW d \in Drafts, FinalizeTimesOut(d) PROVE Keeps
  <2>1. UNCHANGED <<recurring, parent, txn, draftLock, moved>>
        BY <1>13 DEF FinalizeTimesOut, mergeLocks
  <2>2. \A e \in Drafts : schedule'[e].status = "Completed" => schedule[e].status = "Completed"
        BY <1>1, <1>13 DEF FinalizeTimesOut, MergeTypeOK
  <2>3. \A v \in Mergers : WorkerInv(v)'
        BY <1>1, <1>3, <2>1, WorkerStays DEF Open
  <2>4. BilledOnce' BY <1>1, <2>1, <2>2, BilledKept
  <2> QED BY <2>3, <2>4
<1>14. ASSUME NEW u \in Editors, NEW row, txn' = [txn EXCEPT ![u] = row],
              UNCHANGED <<recurring, parent, schedule, draftLock, moved>>
       PROVE  Keeps
  <2>1. \A v \in Mergers : txn'[v] = txn[v] BY <1>1, <1>3, <1>14, OneRow
  <2>2. \A v \in Mergers : WorkerInv(v)'
        BY <1>1, <1>3, <1>14, <2>1, WorkerStays DEF Open
  <2>3. BilledOnce' BY <1>1, <1>14, BilledKept
  <2> QED BY <2>2, <2>3
<1>15. ASSUME NEW u \in Editors, NEW d \in Drafts, AskToDelete(u, d) PROVE Keeps
       BY <1>14, <1>15 DEF AskToDelete, mergeLocks
<1>16. ASSUME NEW u \in Editors, NEW d \in Drafts, NEW op \in {"finalize", "edit"},
              AskFor(u, op, d)
       PROVE  Keeps
       BY <1>14, <1>16 DEF AskFor, LockCustomer
<1>17. ASSUME NEW u \in Editors, EditDraft(u) PROVE Keeps
  <2> DEFINE d == txn[u].draft
             processed == \E w \in Mergers : /\ txn[w].draft = d
                                             /\ txn[w].step \in {"group", "lock"}
  <2> PICK s \in Sellers :
        /\ recurring' = [recurring EXCEPT ![d].seller = s]
        /\ moved' = IF processed /\ s # recurring[d].seller THEN moved \cup {d} ELSE moved
      BY <1>17 DEF EditDraft
  <2> DEFINE row == [recurring[d] EXCEPT !.seller = s]
  <2>1. d \in Drafts /\ recurring[d] \in RecurringRow
        BY <1>1, <1>2, <1>3 DEF MergeTypeOK
  <2>2. /\ recurring' = [recurring EXCEPT ![d] = row] /\ row \in RecurringRow
        /\ row.into = recurring[d].into /\ row.seller = s
        BY <2>1 DEF RecurringRow
  <2> HIDE DEF row
  <2>3. EndTx(u) /\ parent' = parent /\ schedule' = schedule /\ Free(d, u) /\ Open(d)
        BY <1>17 DEF EditDraft
  <2>4. moved \subseteq moved' OBVIOUS
  <2>5. row.seller = recurring[d].seller
            \/ \A w \in Mergers : Gathering(w) /\ txn[w].draft = d => d \in moved'
        BY <2>2 DEF Gathering, At
  <2> HIDE DEF d, processed
  <2> QED BY <1>3, <2>1, <2>2, <2>3, <2>4, <2>5, EndsWithRow
<1>18. ASSUME NEW u \in Editors, DeleteDraft(u) PROVE Keeps
  <2> DEFINE d == txn[u].draft
             row == [recurring[d] EXCEPT !.status = "deleted"]
  <2>1. d \in Drafts /\ recurring[d] \in RecurringRow
        BY <1>1, <1>2, <1>3 DEF MergeTypeOK
  <2>2. /\ row \in RecurringRow /\ row.into = recurring[d].into
        /\ row.status = "deleted" /\ row.seller = recurring[d].seller
        BY <2>1 DEF RecurringRow
  <2>3. /\ recurring' = [recurring EXCEPT ![d] = row]
        /\ EndTx(u) /\ Free(d, u) /\ UNCHANGED <<parent, schedule, moved>>
        BY <1>18 DEF DeleteDraft
  <2> HIDE DEF d, row
  <2> QED BY <1>3, <2>1, <2>2, <2>3, EndsWithRow
<1>19. ASSUME NEW t \in Txns, FinalizeDraft(t) PROVE Keeps
  <2> DEFINE d == txn[t].draft
             row == [recurring[d] EXCEPT !.status = "Finalized"]
  <2>1. d \in Drafts /\ recurring[d] \in RecurringRow BY <1>1, <1>2 DEF MergeTypeOK
  <2>2. /\ row \in RecurringRow /\ row.into = recurring[d].into
        /\ row.status = "Finalized" /\ row.seller = recurring[d].seller
        BY <2>1 DEF RecurringRow
  <2>3. /\ recurring' = [recurring EXCEPT ![d] = row]
        /\ EndTx(t) /\ Free(d, t) /\ Open(d) /\ UNCHANGED <<parent, moved>>
        /\ MarkCompleted(d) \/ UNCHANGED schedule
        BY <1>19 DEF FinalizeDraft
  <2> HIDE DEF d, row
  <2>4. \A e \in Drafts : schedule'[e].status = "Completed" =>
            schedule[e].status = "Completed" \/ (e = d /\ row.status # "Draft")
        BY <1>1, <2>1, <2>2, <2>3 DEF MarkCompleted, MergeTypeOK
  <2> QED BY <2>1, <2>2, <2>3, <2>4, EndsWithRow
<1> HIDE DEF Keeps
<1>20. Keeps
       BY <1>4, <1>5, <1>6, <1>7, <1>8, <1>9, <1>10, <1>11, <1>12, <1>13, <1>15, <1>16,
          <1>17, <1>18, <1>19
       DEF MergeNext
<1> QED BY <1>1, <1>20 DEF MergeInv, Keeps

\* Nothing is merged, claimed or billed at first.
LEMMA MergeStarts ==
    MergeInit => MergeInv
<1> SUFFICES ASSUME MergeInit PROVE MergeInv OBVIOUS
<1>1. MergeTypeOK
  <2>1. AnyDraft \in Drafts BY DEF AnyDraft
  <2>2. recurring \in [Drafts -> RecurringRow] BY DEF MergeInit, RecurringRow
  <2>3. parent \in [Parents -> [children : SUBSET Drafts, seller : Sellers]]
        BY <2>1 DEF MergeInit
  <2>4. schedule \in [Drafts -> FinalizeEvent] BY DEF MergeInit, FinalizeEvent
  <2>5. txn \in [Txns -> TxnRow] BY EmptyTyped DEF MergeInit
  <2>6. /\ groupLock \in [Sellers -> Txns \cup {NoTx}]
        /\ customerLock \in Txns \cup {NoTx}
        /\ draftLock \in [Drafts -> Txns \cup {NoTx}]
        /\ moved \subseteq Drafts
        BY DEF MergeInit
  <2> QED BY <2>2, <2>3, <2>4, <2>5, <2>6 DEF MergeTypeOK
<1>2. \A w \in Mergers : WorkerInv(w)
  <2>1. \A w \in Mergers : txn[w].op = "none" BY DEF MergeInit, Txns, NoTransaction
  <2> QED BY <2>1 DEF WorkerInv, MembersHeld, TriggerFound, Gathering, At
<1>3. BilledOnce
  <2>1. \A p \in Parents : parent[p].children = {} BY DEF MergeInit
  <2>2. \A d \in Drafts : schedule[d].status = "Pending" BY DEF MergeInit
  <2> QED BY <2>1, <2>2 DEF BilledOnce
<1> QED BY <1>1, <1>2, <1>3 DEF MergeInv

-----------------------------------------------------------------------------

\* The types of the variables, what an event worker holds locked or will find, and
\* BilledOnce hold together in every reachable state.
THEOREM ConsolidationInvariant == MergeSpec => []MergeInv
<1>1. MergeInv /\ [MergeNext]_mergeVars => MergeInv'
  <2> SUFFICES ASSUME MergeInv, [MergeNext]_mergeVars PROVE MergeInv' OBVIOUS
  <2>1. CASE UNCHANGED mergeVars
    <3>1. /\ UNCHANGED <<recurring, parent, schedule, txn>>
          /\ UNCHANGED <<groupLock, customerLock, draftLock, moved>>
          BY <2>1 DEF mergeVars, mergeLocks
    <3>2. MergeTypeOK' BY <3>1 DEF MergeInv, MergeTypeOK
    <3>3. BilledOnce' BY <3>1 DEF MergeInv, BilledOnce, Open
    <3>4. \A w \in Mergers : WorkerInv(w)'
          BY <3>1 DEF MergeInv, WorkerInv, MembersHeld, TriggerFound, Gathering, At,
                      Held, Candidate, Open
    <3> QED BY <3>2, <3>3, <3>4 DEF MergeInv
  <2> QED BY <2>1, MergeStep
<1> QED BY <1>1, MergeStarts, PTL DEF MergeSpec

\* However workers, users, timeouts and deadlocks interleave, a draft is billed
\* once: merged into one parent or finalized, and never both; and its event is
\* completed before that only if it was given to another seller meanwhile.
THEOREM BilledOnlyOnce == MergeSpec => []BilledOnce
<1>1. MergeInv => BilledOnce BY DEF MergeInv
<1> QED BY <1>1, ConsolidationInvariant, PTL

\* Every variable has its type: a draft's row, its event and its parent are what
\* the tables hold, whatever transactions are under way.
THEOREM MergeTypeCorrect == MergeSpec => []MergeTypeOK
<1>1. MergeInv => MergeTypeOK BY DEF MergeInv
<1> QED BY <1>1, ConsolidationInvariant, PTL

-----------------------------------------------------------------------------
(* The program bills drafts as DraftBilling says.                          *)

\* A group is chosen by a seller that consolidates, and its members are paid for
\* like the trigger.
GroupPlanned(w) ==
    /\ Gathering(w) => txn[w].seller \in Consolidating
    /\ At(w, "merge", "row") =>
        /\ txn[w].seller \in Consolidating /\ txn[w].found # {txn[w].draft}
        /\ \A d \in txn[w].found : Payment[d] = Payment[txn[w].draft]

\* A merged draft is among its parent's children.
ChildrenKnown ==
    \A d \in Drafts :
        recurring[d].into # 0 => d \in parent[recurring[d].into].children

PlanInv == ChildrenKnown /\ \A w \in Mergers : GroupPlanned(w)

LEMMA PlanStays ==
    ASSUME NEW w, GroupPlanned(w), txn'[w] = txn[w] PROVE GroupPlanned(w)'
BY DEF GroupPlanned, Gathering, At

LEMMA PlanFree ==
    ASSUME NEW w, txn'[w].op # "merge", ~Gathering(w)'
    PROVE  GroupPlanned(w)'
BY DEF GroupPlanned, At

LEMMA PlansAfterEnd ==
    ASSUME MergeTypeOK, \A w \in Mergers : GroupPlanned(w), NEW t \in Txns, EndTx(t)
    PROVE  \A w \in Mergers : GroupPlanned(w)'
<1> SUFFICES ASSUME NEW w \in Mergers PROVE GroupPlanned(w)' OBVIOUS
<1>1. w \in Txns BY DEF Txns
<1>2. CASE w = t
  <2>1. txn'[w].op = "none" BY <1>1, <1>2, EndApart
  <2> QED BY <2>1, PlanFree DEF Gathering, At
<1>3. CASE w # t BY <1>1, <1>3, EndApart, PlanStays
<1> QED BY <1>2, <1>3

\* What is planned stays so, whoever acts.
LEMMA PlanStep ==
    ASSUME MergeTypeOK, PlanInv, MergeNext PROVE PlanInv'
<1> DEFINE Plans == \A w \in Mergers : GroupPlanned(w)
<1>1. ChildrenKnown /\ Plans BY DEF PlanInv
<1>2. ASSUME NEW t \in Txns
      PROVE  /\ txn[t] \in TxnRow /\ txn[t].draft \in Drafts /\ txn[t].found \subseteq Drafts
      BY DEF MergeTypeOK, TxnRow
<1>3. Mergers \subseteq Txns /\ Editors \subseteq Txns
      /\ \A w \in Mergers : w \notin Editors
      BY DEF Txns
\* A step that changes one transaction.
<1>4. ASSUME NEW t \in Txns, NEW row, txn' = [txn EXCEPT ![t] = row],
             t \in Mergers => GroupPlanned(t)'
      PROVE  Plans'
  <2> SUFFICES ASSUME NEW v \in Mergers, v # t PROVE GroupPlanned(v)' BY <1>4
  <2>1. txn'[v] = txn[v] BY <1>4, OneRow
  <2> QED BY <1>1, <2>1, PlanStays
<1>5. ASSUME UNCHANGED <<recurring, parent>> PROVE ChildrenKnown'
      BY <1>1, <1>5 DEF ChildrenKnown
\* The row of one draft is changed, and not its parent.
<1>6. ASSUME NEW d \in Drafts, NEW row, recurring' = [recurring EXCEPT ![d] = row],
             row.into = recurring[d].into, parent' = parent
      PROVE  ChildrenKnown'
  <2>1. \A e \in Drafts : recurring'[e].into = recurring[e].into
        BY <1>6 DEF MergeTypeOK
  <2> QED BY <1>1, <1>6, <2>1 DEF ChildrenKnown
<1>7. ASSUME NEW w \in Mergers, NEW d \in Drafts, ClaimFinalize(w, d) PROVE PlanInv'
  <2> DEFINE single == Claimed(d, "customer")
             grouped == [Claimed(d, "group") EXCEPT !.seller = recurring[d].seller]
  <2>1. /\ UNCHANGED <<recurring, parent>>
        /\ \/ UNCHANGED txn
           \/ txn' = [txn EXCEPT ![w] = single]
           \/ txn' = [txn EXCEPT ![w] = grouped] /\ recurring[d].seller \in Consolidating
        BY <1>7 DEF ClaimFinalize
  <2>2. /\ single.op = "event" /\ single.step = "customer"
        /\ grouped.op = "event" /\ grouped.seller = recurring[d].seller
        BY DEF Claimed, Begun, NoTransaction
  <2> HIDE DEF single, grouped
  <2>3. Plans'
    <3>1. CASE UNCHANGED txn BY <1>1, <3>1, PlanStays
    <3>2. CASE txn' = [txn EXCEPT ![w] = single]
      <4>1. txn'[w] = single BY <1>3, <3>2, OneRow
      <4>2. GroupPlanned(w)' BY <2>2, <4>1, PlanFree DEF Gathering, At
      <4> QED BY <1>3, <1>4, <3>2, <4>2
    <3>3. CASE txn' = [txn EXCEPT ![w] = grouped] /\ recurring[d].seller \in Consolidating
      <4>1. txn'[w] = grouped BY <1>3, <3>3, OneRow
      <4>2. GroupPlanned(w)' BY <2>2, <3>3, <4>1 DEF GroupPlanned, At
      <4> QED BY <1>3, <1>4, <3>3, <4>2
    <3> QED BY <2>1, <3>1, <3>2, <3>3
  <2> QED BY <1>5, <2>1, <2>3 DEF PlanInv
<1>8. ASSUME NEW w \in Mergers, LockGroup(w) PROVE PlanInv'
  <2> DEFINE row == [txn[w] EXCEPT !.step = "lock",
                                   !.todo = {d \in Drafts : Candidate(d, txn[w].seller)}]
  <2>1. UNCHANGED <<recurring, parent>> /\ txn' = [txn EXCEPT ![w] = row] /\ Gathering(w)
        BY <1>8 DEF LockGroup, Gathering
  <2>2. row.op = txn[w].op /\ row.seller = txn[w].seller BY <1>2, <1>3 DEF TxnRow
  <2> HIDE DEF row
  <2>3. txn'[w] = row /\ txn[w].op = "event" BY <1>3, <2>1, OneRow DEF Gathering, At
  <2>4. GroupPlanned(w)' BY <1>1, <2>1, <2>2, <2>3 DEF GroupPlanned, At
  <2> QED BY <1>3, <1>4, <1>5, <2>1, <2>4 DEF PlanInv
<1>9. ASSUME NEW w \in Mergers, LockCandidate(w) PROVE PlanInv'
  <2> PICK d \in txn[w].todo :
        txn' = [txn EXCEPT ![w].todo = @ \ {d},
                           ![w].found = IF Candidate(d, txn[w].seller)
                                        THEN @ \cup {d} ELSE @]
      BY <1>9 DEF LockCandidate
  <2> DEFINE found == IF Candidate(d, txn[w].seller) THEN txn[w].found \cup {d}
                      ELSE txn[w].found
             row == [txn[w] EXCEPT !.todo = @ \ {d}, !.found = found]
  <2>1. UNCHANGED <<recurring, parent>> /\ txn' = [txn EXCEPT ![w] = row] /\ Gathering(w)
        BY <1>9 DEF LockCandidate, Gathering
  <2>2. row.op = txn[w].op /\ row.seller = txn[w].seller BY <1>2, <1>3 DEF TxnRow
  <2> HIDE DEF row
  <2>3. txn'[w] = row /\ txn[w].op = "event" BY <1>3, <2>1, OneRow DEF Gathering, At
  <2>4. GroupPlanned(w)' BY <1>1, <2>1, <2>2, <2>3 DEF GroupPlanned, At
  <2> QED BY <1>3, <1>4, <1>5, <2>1, <2>4 DEF PlanInv
<1>10. ASSUME NEW w \in Mergers, GoTogether(w) PROVE PlanInv'
  <2> DEFINE row == [txn[w] EXCEPT !.op = "merge", !.step = "row", !.found = Members(w)]
  <2>1. /\ UNCHANGED <<recurring, parent>> /\ txn' = [txn EXCEPT ![w] = row]
        /\ Gathering(w) /\ Members(w) # {txn[w].draft}
        BY <1>10 DEF GoTogether, LockCustomer, Gathered, Gathering
  <2>2. /\ row.op = "merge" /\ row.seller = txn[w].seller
        /\ row.draft = txn[w].draft /\ row.found = Members(w)
        BY <1>2, <1>3 DEF TxnRow
  <2> HIDE DEF row
  <2>3. txn'[w] = row BY <1>3, <2>1, OneRow
  <2>4. \A d \in Members(w) : Payment[d] = Payment[txn[w].draft] BY DEF Members
  <2>5. GroupPlanned(w)' BY <1>1, <2>1, <2>2, <2>3, <2>4 DEF GroupPlanned, Gathering, At
  <2> QED BY <1>3, <1>4, <1>5, <2>1, <2>5 DEF PlanInv
<1>11. ASSUME NEW w \in Mergers, GoAlone(w) PROVE PlanInv'
  <2> DEFINE row == [txn[w] EXCEPT !.step = "row", !.found = {}]
  <2>1. /\ UNCHANGED <<recurring, parent>> /\ txn' = [txn EXCEPT ![w] = row]
        /\ txn[w].op = "event"
        BY <1>11 DEF GoAlone, LockCustomer, Gathered, At
  <2>2. row.op = txn[w].op /\ row.step = "row" BY <1>2, <1>3 DEF TxnRow
  <2> HIDE DEF row
  <2>3. txn'[w] = row BY <1>3, <2>1, OneRow
  <2>4. GroupPlanned(w)' BY <2>1, <2>2, <2>3, PlanFree DEF Gathering, At
  <2> QED BY <1>3, <1>4, <1>5, <2>1, <2>4 DEF PlanInv
<1>12. ASSUME NEW w \in Mergers, MergeDrafts(w) PROVE PlanInv'
  <2> DEFINE members == txn[w].found
  <2> PICK p \in NewParents :
        /\ parent' = [parent EXCEPT ![p] = [children |-> members, seller |-> txn[w].seller]]
        /\ recurring' = [d \in Drafts |-> IF d \in members
                                          THEN [recurring[d] EXCEPT !.into = p]
                                          ELSE recurring[d]]
      BY <1>12 DEF MergeDrafts
  <2>1. /\ p \in Parents /\ parent[p].children = {} /\ parent'[p].children = members
        /\ \A q \in Parents : q # p => parent'[q] = parent[q]
        BY DEF NewParents, MergeTypeOK
  <2>2. ASSUME NEW d \in Drafts, recurring'[d].into # 0
        PROVE  d \in parent'[recurring'[d].into].children
    <3>1. CASE d \in members
      <4>1. recurring'[d].into = p
            BY <3>1 DEF MergeTypeOK, RecurringRow
      <4> QED BY <2>1, <3>1, <4>1
    <3>2. CASE d \notin members
      <4>1. recurring'[d] = recurring[d] /\ recurring[d] \in RecurringRow
            BY <3>2 DEF MergeTypeOK
      <4>2. d \in parent[recurring[d].into].children /\ recurring[d].into \in Parents
            BY <1>1, <2>2, <4>1 DEF ChildrenKnown, RecurringRow
      <4> QED BY <2>1, <4>1, <4>2
    <3> QED BY <3>1, <3>2
  <2>3. EndTx(w) BY <1>12 DEF MergeDrafts
  <2> QED BY <1>1, <1>3, <2>2, <2>3, PlansAfterEnd DEF PlanInv, ChildrenKnown
<1>13. ASSUME NEW t \in Txns, EndTx(t), UNCHANGED <<recurring, parent>> PROVE PlanInv'
       BY <1>1, <1>5, <1>13, PlansAfterEnd DEF PlanInv
<1>14. ASSUME NEW t \in Txns, EndTx(t), NEW d \in Drafts, NEW row, parent' = parent,
              recurring' = [recurring EXCEPT ![d] = row], row.into = recurring[d].into
       PROVE  PlanInv'
       BY <1>1, <1>6, <1>14, PlansAfterEnd DEF PlanInv
<1>15. ASSUME NEW w \in Mergers, SkipTrigger(w) \/ FinalizeFails(w) PROVE PlanInv'
       BY <1>3, <1>13, <1>15 DEF SkipTrigger, FinalizeFails
<1>16. ASSUME NEW t \in Txns, Aborts(t) PROVE PlanInv'
       BY <1>13, <1>16 DEF Aborts
<1>17. ASSUME NEW d \in Drafts, FinalizeTimesOut(d) PROVE PlanInv'
       BY <1>1, <1>5, <1>17, PlanStays DEF FinalizeTimesOut, PlanInv
<1>18. ASSUME NEW u \in Editors, NEW row, txn' = [txn EXCEPT ![u] = row],
              UNCHANGED <<recurring, parent>>
       PROVE  PlanInv'
       BY <1>3, <1>4, <1>5, <1>18 DEF PlanInv
<1>19. ASSUME NEW u \in Editors, NEW d \in Drafts, AskToDelete(u, d) PROVE PlanInv'
       BY <1>18, <1>19 DEF AskToDelete
<1>20. ASSUME NEW u \in Editors, NEW d \in Drafts, NEW op \in {"finalize", "edit"},
              AskFor(u, op, d)
       PROVE  PlanInv'
       BY <1>18, <1>20 DEF AskFor, LockCustomer
<1>21. ASSUME NEW u \in Editors, EditDraft(u) PROVE PlanInv'
  <2> PICK s \in Sellers : recurring' = [recurring EXCEPT ![txn[u].draft].seller = s]
      BY <1>21 DEF EditDraft
  <2> DEFINE row == [recurring[txn[u].draft] EXCEPT !.seller = s]
  <2>1. row.into = recurring[txn[u].draft].into
        BY <1>2, <1>3 DEF MergeTypeOK, RecurringRow
  <2>2. recurring' = [recurring EXCEPT ![txn[u].draft] = row] OBVIOUS
  <2> HIDE DEF row
  <2> QED BY <1>2, <1>3, <1>14, <1>21, <2>1, <2>2 DEF EditDraft
<1>22. ASSUME NEW t \in Txns, NEW status, EndTx(t), parent' = parent,
              recurring' = [recurring EXCEPT ![txn[t].draft].status = status]
       PROVE  PlanInv'
  <2> DEFINE row == [recurring[txn[t].draft] EXCEPT !.status = status]
  <2>1. row.into = recurring[txn[t].draft].into
        BY <1>2 DEF MergeTypeOK, RecurringRow
  <2>2. recurring' = [recurring EXCEPT ![txn[t].draft] = row] BY <1>22
  <2> HIDE DEF row
  <2> QED BY <1>2, <1>14, <1>22, <2>1, <2>2
<1>23. ASSUME NEW u \in Editors, DeleteDraft(u) PROVE PlanInv'
       BY <1>3, <1>22, <1>23 DEF DeleteDraft
<1>24. ASSUME NEW t \in Txns, FinalizeDraft(t) PROVE PlanInv'
       BY <1>22, <1>24 DEF FinalizeDraft
<1> HIDE DEF Plans
<1> QED BY <1>7, <1>8, <1>9, <1>10, <1>11, <1>12, <1>15, <1>16, <1>17, <1>19, <1>20,
           <1>21, <1>23, <1>24
        DEF MergeNext

-----------------------------------------------------------------------------

\* A draft is open for the program when it is for DraftBilling.
LEMMA OpenMaps ==
    ASSUME MergeTypeOK, BilledOnce, ChildrenKnown, NEW d \in Drafts
    PROVE  Open(d) <=> d \in Billing!OpenDrafts
<1> DEFINE Merged == \E p \in Parents : d \in parent[p].children
<1>1. recurring[d] \in RecurringRow BY DEF MergeTypeOK
<1>2. d \in UNION BilledTogether <=> Merged
  <2>1. ASSUME NEW p \in Parents, d \in parent[p].children
        PROVE  parent[p].children \in BilledTogether
        BY <2>1 DEF BilledTogether
  <2>2. ASSUME NEW S \in BilledTogether, d \in S PROVE Merged
        BY <2>2 DEF BilledTogether
  <2> QED BY <2>1, <2>2
<1>3. Merged <=> recurring[d].into # 0
  <2>1. ASSUME recurring[d].into # 0 PROVE Merged
    <3>1. recurring[d].into \in Parents BY <1>1, <2>1 DEF RecurringRow
    <3>2. d \in parent[recurring[d].into].children BY <2>1 DEF ChildrenKnown
    <3> QED BY <3>1, <3>2
  <2>2. ASSUME NEW p \in Parents, d \in parent[p].children PROVE recurring[d].into # 0
        BY <2>2 DEF BilledOnce, Parents
  <2> QED BY <2>1, <2>2
<1> HIDE DEF Merged
<1>4. d \in BilledAlone <=> recurring[d].status = "Finalized" BY DEF BilledAlone
<1>5. d \in Gone <=> recurring[d].status = "deleted" BY DEF Gone
<1>6. recurring[d].status \in {"Draft", "Finalized", "deleted"} BY <1>1 DEF RecurringRow
<1> QED BY <1>2, <1>3, <1>4, <1>5, <1>6 DEF Open, Billing!OpenDrafts

\* What each kind of step does to the drafts.
BillingStep == [Billing!DraftsNext]_(Billing!draftsVars)

\* What DraftBilling sees of the rows of the drafts and of their parents.
RowsSeen == <<SellerOf, BilledAlone, BilledTogether, Gone>>

LEMMA RowsUnchanged ==
    ASSUME UNCHANGED <<recurring, parent>> PROVE UNCHANGED RowsSeen
BY DEF RowsSeen, SellerOf, BilledAlone, BilledTogether, Gone

LEMMA NothingMaps ==
    ASSUME UNCHANGED RowsSeen, Closed' = Closed, moved' = moved PROVE BillingStep
BY DEF BillingStep, Billing!draftsVars, RowsSeen

LEMMA CloseMaps ==
    ASSUME NEW d \in Drafts, UNCHANGED RowsSeen, moved' = moved,
           Closed' = Closed \cup {d}, d \notin Billing!OpenDrafts \/ d \in moved
    PROVE  BillingStep
<1>1. Billing!Close(d) BY DEF Billing!Close, RowsSeen
<1> QED BY <1>1 DEF BillingStep, Billing!DraftsNext

LEMMA ReopenMaps ==
    ASSUME NEW d \in Drafts, UNCHANGED RowsSeen, moved' = moved, Closed' = Closed \ {d}
    PROVE  BillingStep
<1>1. Billing!Reopen(d) BY DEF Billing!Reopen, RowsSeen
<1> QED BY <1>1 DEF BillingStep, Billing!DraftsNext

\* The events of the drafts.
LEMMA ClosedAfter ==
    ASSUME MergeTypeOK, NEW d \in Drafts
    PROVE  /\ MarkCompleted(d) => Closed' = Closed \cup {d}
           /\ \A r : FailFinalize(d, r) => Closed' = Closed \ {d}
           /\ UNCHANGED schedule => Closed' = Closed
<1>1. ASSUME MarkCompleted(d) PROVE Closed' = Closed \cup {d}
  <2>1. /\ schedule'[d].status = "Completed"
        /\ \A e \in Drafts : e # d => schedule'[e] = schedule[e]
        BY <1>1 DEF MarkCompleted, MergeTypeOK, FinalizeEvent
  <2> QED BY <2>1 DEF Closed
<1>2. ASSUME NEW r, FailFinalize(d, r) PROVE Closed' = Closed \ {d}
  <2>1. \A e \in Drafts : e # d => schedule'[e] = schedule[e]
        BY <1>2 DEF FailFinalize, MergeTypeOK
  <2>2. schedule'[d].status # "Completed"
    <3>1. schedule[d] \in FinalizeEvent BY DEF MergeTypeOK
    <3>2. CASE r < MaxFinalizeRetries BY <1>2, <3>2 DEF FailFinalize, MergeTypeOK
    <3>3. CASE ~(r < MaxFinalizeRetries)
      <4>1. schedule'[d] = [schedule[d] EXCEPT !.status = "Failed"]
            BY <1>2, <3>3 DEF FailFinalize, MergeTypeOK
      <4> QED BY <3>1, <4>1 DEF FinalizeEvent
    <3> QED BY <3>2, <3>3
  <2> QED BY <2>1, <2>2 DEF Closed
<1>3. UNCHANGED schedule => Closed' = Closed BY DEF Closed
<1> QED BY <1>1, <1>2, <1>3

\* The row of one draft.
LEMMA RowsAfter ==
    ASSUME MergeTypeOK, NEW d \in Drafts, NEW row, NEW s, row.seller = s,
           recurring' = [recurring EXCEPT ![d] = row], parent' = parent
    PROVE  /\ BilledTogether' = BilledTogether
           /\ SellerOf' = [SellerOf EXCEPT ![d] = s]
           /\ row.status = "Draft" => BilledAlone' = BilledAlone \ {d} /\ Gone' = Gone \ {d}
           /\ row.status = "Finalized" => BilledAlone' = BilledAlone \cup {d}
                                          /\ Gone' = Gone \ {d}
           /\ row.status = "deleted" => BilledAlone' = BilledAlone \ {d}
                                        /\ Gone' = Gone \cup {d}
<1>1. /\ recurring'[d] = row
      /\ \A e \in Drafts : e # d => recurring'[e] = recurring[e]
      BY DEF MergeTypeOK
<1>2. BilledTogether' = BilledTogether BY DEF BilledTogether
<1>3. SellerOf' = [SellerOf EXCEPT ![d] = s]
  <2>1. SellerOf' = [e \in Drafts |-> recurring'[e].seller] BY DEF SellerOf
  <2>2. [SellerOf EXCEPT ![d] = s]
            = [e \in Drafts |-> IF e = d THEN s ELSE recurring[e].seller]
        BY DEF SellerOf
  <2> QED BY <1>1, <2>1, <2>2
<1>4. BilledAlone' = {e \in Drafts : recurring'[e].status = "Finalized"}
      BY DEF BilledAlone
<1>5. Gone' = {e \in Drafts : recurring'[e].status = "deleted"} BY DEF Gone
<1> QED BY <1>1, <1>2, <1>3, <1>4, <1>5 DEF BilledAlone, Gone

\* Each action is a step of DraftBilling, or none.
LEMMA ActionMaps ==
    ASSUME MergeInv, PlanInv, MergeNext PROVE BillingStep
<1>1. MergeTypeOK /\ BilledOnce /\ ChildrenKnown /\ \A w \in Mergers : GroupPlanned(w)
      BY DEF MergeInv, PlanInv
<1>2. ASSUME NEW t \in Txns
      PROVE  txn[t].draft \in Drafts /\ txn[t].found \subseteq Drafts
      BY <1>1 DEF MergeTypeOK, TxnRow
<1>3. Mergers \subseteq Txns /\ Editors \subseteq Txns BY DEF Txns
<1>4. ASSUME UNCHANGED <<recurring, parent, schedule, moved>> PROVE BillingStep
      BY <1>4, RowsUnchanged, NothingMaps DEF Closed
<1>5. ASSUME NEW w \in Mergers, NEW d \in Drafts, ClaimFinalize(w, d) PROVE BillingStep
  <2>1. UNCHANGED RowsSeen /\ moved' = moved
        BY <1>5, RowsUnchanged DEF ClaimFinalize
  <2>2. CASE ~Open(d) /\ MarkCompleted(d)
        BY <1>1, <2>1, <2>2, OpenMaps, ClosedAfter, CloseMaps
  <2>3. CASE FailFinalize(d, schedule[d].retries)
        BY <1>1, <2>1, <2>3, ClosedAfter, ReopenMaps
  <2>4. CASE schedule' = [schedule EXCEPT ![d].status = "Processing"]
    <3>1. schedule[d].status = "Pending" BY <1>5 DEF ClaimFinalize
    <3>2. Closed' = Closed BY <1>1, <2>4, <3>1 DEF Closed, MergeTypeOK
    <3> QED BY <2>1, <3>2, NothingMaps
  <2> QED BY <1>5, <2>2, <2>3, <2>4 DEF ClaimFinalize
<1>6. ASSUME NEW w \in Mergers,
             LockGroup(w) \/ LockCandidate(w) \/ GoTogether(w) \/ GoAlone(w)
      PROVE  BillingStep
      BY <1>4, <1>6 DEF LockGroup, LockCandidate, GoTogether, GoAlone, LockCustomer
<1>7. ASSUME NEW w \in Mergers, SkipTrigger(w) PROVE BillingStep
  <2>1. ~Open(txn[w].draft) \/ txn[w].draft \in moved
        BY <1>7 DEF MergeInv, WorkerInv, TriggerFound, Gathering, SkipTrigger, Gathered, At
  <2>2. /\ UNCHANGED RowsSeen /\ moved' = moved /\ MarkCompleted(txn[w].draft)
        BY <1>7, RowsUnchanged DEF SkipTrigger
  <2> QED BY <1>1, <1>2, <1>3, <2>1, <2>2, OpenMaps, ClosedAfter, CloseMaps
<1>8. ASSUME NEW w \in Mergers, FinalizeFails(w) PROVE BillingStep
      BY <1>1, <1>2, <1>3, <1>8, RowsUnchanged, ClosedAfter, ReopenMaps DEF FinalizeFails
<1>9. ASSUME NEW t \in Txns, Aborts(t) PROVE BillingStep
      BY <1>4, <1>9 DEF Aborts
<1>10. ASSUME NEW d \in Drafts, FinalizeTimesOut(d) PROVE BillingStep
  <2>1. Closed' = Closed BY <1>1, <1>10 DEF FinalizeTimesOut, Closed, MergeTypeOK
  <2> QED BY <1>10, <2>1, RowsUnchanged, NothingMaps DEF FinalizeTimesOut
<1>11. ASSUME NEW w \in Mergers, MergeDrafts(w) PROVE BillingStep
  <2> DEFINE members == txn[w].found
             trigger == txn[w].draft
  <2>1. /\ trigger \in members /\ members \subseteq Drafts /\ trigger \in Drafts
        /\ \A d \in members : Held(d, w)
        BY <1>2, <1>3, <1>11 DEF MergeInv, WorkerInv, MembersHeld, MergeDrafts
  <2>2. /\ txn[w].seller \in Consolidating /\ members # {trigger}
        /\ \A d \in members : Payment[d] = Payment[trigger]
        BY <1>1, <1>11 DEF GroupPlanned, MergeDrafts
  <2> PICK p \in NewParents :
        /\ parent' = [parent EXCEPT ![p] = [children |-> members, seller |-> txn[w].seller]]
        /\ recurring' = [d \in Drafts |-> IF d \in members
                                          THEN [recurring[d] EXCEPT !.into = p]
                                          ELSE recurring[d]]
      BY <1>11 DEF MergeDrafts
  <2>3. /\ p \in Parents /\ parent[p].children = {} /\ parent'[p].children = members
        /\ \A q \in Parents : q # p => parent'[q] = parent[q]
        BY <1>1 DEF NewParents, MergeTypeOK
  <2>4. \A d \in Drafts : /\ recurring'[d].status = recurring[d].status
                          /\ recurring'[d].seller = recurring[d].seller
        BY <1>1 DEF MergeTypeOK, RecurringRow
  <2>5. BilledTogether' = BilledTogether \cup {members}
    <3>1. ASSUME NEW S \in BilledTogether' PROVE S \in BilledTogether \cup {members}
      <4>1. PICK q \in Parents : S = parent'[q].children /\ S # {}
            BY <3>1 DEF BilledTogether
      <4> QED BY <2>3, <4>1 DEF BilledTogether
    <3>2. ASSUME NEW S \in BilledTogether PROVE S \in BilledTogether'
      <4>1. PICK q \in Parents : S = parent[q].children /\ S # {}
            BY <3>2 DEF BilledTogether
      <4> QED BY <2>3, <4>1 DEF BilledTogether
    <3>3. members \in BilledTogether' BY <2>1, <2>3 DEF BilledTogether
    <3> QED BY <3>1, <3>2, <3>3
  <2>6. SellerOf' = SellerOf /\ BilledAlone' = BilledAlone /\ Gone' = Gone
        BY <2>4 DEF SellerOf, BilledAlone, Gone
  <2>7. Closed' = Closed \cup {trigger} /\ moved' = moved
        BY <1>1, <1>11, <2>1, ClosedAfter DEF MergeDrafts
  <2>8. members \subseteq Billing!OpenDrafts
        BY <1>1, <2>1, OpenMaps DEF Held, Candidate
  <2>9. \A d \in members : SellerOf[d] = txn[w].seller
        BY <2>1 DEF Held, Candidate, SellerOf
  <2> HIDE DEF members, trigger
  <2>10. Billing!BillTogether(trigger, members)
         BY <2>1, <2>2, <2>5, <2>6, <2>7, <2>8, <2>9 DEF Billing!BillTogether
  <2> QED BY <2>1, <2>10 DEF BillingStep, Billing!DraftsNext
<1>12. ASSUME NEW u \in Editors, NEW d \in Drafts, AskToDelete(u, d) PROVE BillingStep
       BY <1>4, <1>12 DEF AskToDelete
<1>13. ASSUME NEW u \in Editors, NEW d \in Drafts, NEW op \in {"finalize", "edit"},
              AskFor(u, op, d)
       PROVE  BillingStep
       BY <1>4, <1>13 DEF AskFor, LockCustomer
\* Steps that change the row of a transaction's draft.
<1>14. ASSUME NEW t \in Txns
       PROVE  LET d == txn[t].draft IN
              recurring[d] \in RecurringRow /\ (Open(d) <=> d \in Billing!OpenDrafts)
  <2>1. txn[t].draft \in Drafts BY <1>2
  <2> QED BY <1>1, <2>1, OpenMaps DEF MergeTypeOK
<1>15. ASSUME NEW u \in Editors, EditDraft(u) PROVE BillingStep
  <2> DEFINE d == txn[u].draft
             row(s) == [recurring[d] EXCEPT !.seller = s]
  <2> PICK s \in Sellers :
        /\ recurring' = [recurring EXCEPT ![d] = row(s)]
        /\ moved' \in {moved, moved \cup {d}}
      BY <1>15 DEF EditDraft
  <2>1. /\ d \in Drafts /\ d \in Billing!OpenDrafts /\ Open(d)
        /\ row(s).seller = s /\ row(s).status = "Draft"
        BY <1>2, <1>3, <1>14, <1>15 DEF EditDraft, Open, RecurringRow
  <2>2. parent' = parent /\ Closed' = Closed
        BY <1>15 DEF EditDraft, Closed
  <2> HIDE DEF row, d
  <2>3. /\ BilledTogether' = BilledTogether /\ SellerOf' = [SellerOf EXCEPT ![d] = s]
        /\ BilledAlone' = BilledAlone \ {d} /\ Gone' = Gone \ {d}
        BY <1>1, <2>1, <2>2, RowsAfter
  <2>4. BilledAlone' = BilledAlone /\ Gone' = Gone
        BY <2>1, <2>3 DEF BilledAlone, Gone, Open
  <2>5. Billing!Reassign(d, s)
        BY <2>1, <2>2, <2>3, <2>4 DEF Billing!Reassign
  <2> QED BY <2>1, <2>5 DEF BillingStep, Billing!DraftsNext
<1>16. ASSUME NEW u \in Editors, DeleteDraft(u) PROVE BillingStep
  <2> DEFINE d == txn[u].draft
             row == [recurring[d] EXCEPT !.status = "deleted"]
  <2>1. /\ d \in Drafts /\ recurring[d].status = "Draft"
        /\ row.seller = recurring[d].seller /\ row.status = "deleted"
        BY <1>2, <1>3, <1>14, <1>16 DEF DeleteDraft, RecurringRow
  <2>2. /\ recurring' = [recurring EXCEPT ![d] = row] /\ parent' = parent
        /\ Closed' = Closed /\ moved' = moved
        BY <1>16 DEF DeleteDraft, Closed
  <2> HIDE DEF row
  <2>3. /\ BilledTogether' = BilledTogether
        /\ SellerOf' = [SellerOf EXCEPT ![d] = recurring[d].seller]
        /\ BilledAlone' = BilledAlone \ {d} /\ Gone' = Gone \cup {d}
        BY <1>1, <2>1, <2>2, RowsAfter
  <2>4. d \notin BilledAlone \cup Gone /\ SellerOf' = SellerOf /\ BilledAlone' = BilledAlone
        BY <2>1, <2>3 DEF BilledAlone, Gone, SellerOf
  <2>5. Billing!Delete(d) BY <2>2, <2>3, <2>4 DEF Billing!Delete
  <2> QED BY <2>1, <2>5 DEF BillingStep, Billing!DraftsNext
<1>17. ASSUME NEW t \in Txns, FinalizeDraft(t) PROVE BillingStep
  <2> DEFINE d == txn[t].draft
             row == [recurring[d] EXCEPT !.status = "Finalized"]
  <2>1. /\ d \in Drafts /\ Open(d) /\ d \in Billing!OpenDrafts
        /\ row.seller = recurring[d].seller /\ row.status = "Finalized"
        BY <1>2, <1>14, <1>17 DEF FinalizeDraft, RecurringRow
  <2>2. /\ recurring' = [recurring EXCEPT ![d] = row] /\ parent' = parent /\ moved' = moved
        /\ MarkCompleted(d) \/ UNCHANGED schedule
        BY <1>17 DEF FinalizeDraft
  <2> HIDE DEF row
  <2>3. /\ BilledTogether' = BilledTogether
        /\ SellerOf' = [SellerOf EXCEPT ![d] = recurring[d].seller]
        /\ BilledAlone' = BilledAlone \cup {d} /\ Gone' = Gone \ {d}
        BY <1>1, <2>1, <2>2, RowsAfter
  <2>4. SellerOf' = SellerOf /\ Gone' = Gone
        BY <2>1, <2>3 DEF Gone, SellerOf, Open
  <2>5. Closed' \in {Closed, Closed \cup {d}} BY <1>1, <2>1, <2>2, ClosedAfter
  <2>6. Billing!BillAlone(d)
        BY <2>1, <2>2, <2>3, <2>4, <2>5 DEF Billing!BillAlone
  <2> QED BY <2>1, <2>6 DEF BillingStep, Billing!DraftsNext
<1> QED BY <1>5, <1>6, <1>7, <1>8, <1>9, <1>10, <1>11, <1>12, <1>13, <1>15, <1>16, <1>17
        DEF MergeNext

\* Whatever is claimed, locked, retried and rolled back, and for any number of
\* drafts, workers and users, the drafts are billed as DraftBilling says.
THEOREM BillingImplementsDrafts == MergeSpec => BillsDrafts
<1>1. MergeInit => PlanInv
  <2> SUFFICES ASSUME MergeInit PROVE PlanInv OBVIOUS
  <2>1. ChildrenKnown BY DEF MergeInit, ChildrenKnown
  <2>2. \A w \in Mergers : txn[w].op = "none" BY DEF MergeInit, Txns, NoTransaction
  <2>3. \A w \in Mergers : GroupPlanned(w) BY <2>2 DEF GroupPlanned, Gathering, At
  <2> QED BY <2>1, <2>3 DEF PlanInv
<1>2. MergeInit => Billing!DraftsInit
  <2> SUFFICES ASSUME MergeInit PROVE Billing!DraftsInit OBVIOUS
  <2>1. \A p \in Parents : parent[p].children = {} BY DEF MergeInit
  <2>2. BilledTogether = {} BY <2>1 DEF BilledTogether
  <2>3. SellerOf = FirstSeller BY DEF MergeInit, SellerOf
  <2>4. BilledAlone = {} /\ Gone = {} /\ Closed = {} /\ moved = {}
        BY DEF MergeInit, BilledAlone, Gone, Closed
  <2> QED BY <2>2, <2>3, <2>4 DEF Billing!DraftsInit
<1>3. MergeInv /\ PlanInv /\ [MergeNext]_mergeVars => PlanInv' /\ BillingStep
  <2> SUFFICES ASSUME MergeInv, PlanInv, [MergeNext]_mergeVars
               PROVE  PlanInv' /\ BillingStep
      OBVIOUS
  <2>1. CASE MergeNext BY <2>1, PlanStep, ActionMaps DEF MergeInv
  <2>2. CASE UNCHANGED mergeVars
    <3>1. UNCHANGED <<recurring, parent, schedule, txn, moved>> BY <2>2 DEF mergeVars
    <3>2. PlanInv' BY <3>1, PlanStays DEF PlanInv, ChildrenKnown
    <3>3. BillingStep BY <3>1, RowsUnchanged, NothingMaps DEF Closed
    <3> QED BY <3>2, <3>3
  <2> QED BY <2>1, <2>2
<1> QED BY <1>1, <1>2, <1>3, ConsolidationInvariant, PTL
        DEF MergeSpec, BillsDrafts, Billing!DraftsSpec, BillingStep

=============================================================================
