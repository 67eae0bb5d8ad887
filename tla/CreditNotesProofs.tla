------------------------- MODULE CreditNotesProofs --------------------------
(***************************************************************************)
(* Proofs about CreditNotes: the numbers of the notes and the order of the *)
(* locks, for every number of requests and notes.  They need no arithmetic *)
(* on amounts, so the invariant says of the rows only that they are rows.  *)
(***************************************************************************)
EXTENDS CreditNotes, Sums, TLAPS

CallShape(r) ==
    r \in [op : {r.op}, step : {r.step}, note : {r.note}, type : {r.type},
           credit : {r.credit}, due : {r.due}, number : {r.number}]

RowShape(r) ==
    r \in [status : {r.status}, type : {r.type}, credit : {r.credit},
           credited : {r.credited}, number : {r.number}, voidedAt : {r.voidedAt}]

\* Requests and notes are functions to records.
Shapes ==
    /\ call = [c \in Callers |-> call[c]]
    /\ \A c \in Callers : CallShape(call[c])
    /\ note = [n \in Notes |-> note[n]]
    /\ \A n \in Notes : RowShape(note[n])

\* Who holds a row, and at which step: the invoice is held by a request that
\* issues a note and still needs the invoicing entity, the entity by one that
\* finalizes a note, which has read the next number from it.
LockHolders ==
    /\ invoiceLock \in Callers \cup {NoCaller}
    /\ entityLock \in Callers \cup {NoCaller}
    /\ \A c \in Callers :
        invoiceLock = c => call[c].op # "finalize" /\ call[c].step = "entity"
    /\ \A c \in Callers :
        entityLock = c <=> call[c].op = "finalize" /\ call[c].step = "apply"

Numbering ==
    /\ nextNumber \in Nat \ {0}
    /\ \A n \in Notes : note[n].number \in Nat
    /\ \A c \in Callers : entityLock = c => call[c].number = nextNumber

IInv == Shapes /\ LockHolders /\ Numbering /\ NumbersDistinct

-----------------------------------------------------------------------------

\* What the two changes of a request's step leave of its record.
LEMMA StepExcept ==
    \A r, s, x : CallShape(r) =>
        /\ [r EXCEPT !.step = s, !.credit = x] \in
             [op : {r.op}, step : {s}, note : {r.note}, type : {r.type},
              credit : {x}, due : {r.due}, number : {r.number}]
        /\ [r EXCEPT !.step = s, !.number = x] \in
             [op : {r.op}, step : {s}, note : {r.note}, type : {r.type},
              credit : {r.credit}, due : {r.due}, number : {x}]
    BY DEF CallShape

LEMMA InitShapes == NotesInit => IInv
<1> SUFFICES ASSUME NotesInit PROVE IInv
    OBVIOUS
<1> USE NotesAssumption
<1>1. Shapes
    BY DEF NotesInit, Shapes, CallShape, RowShape, Waiting, Absent
<1>2. LockHolders
    BY DEF NotesInit, LockHolders, Waiting
<1>3. Numbering
    BY DEF NotesInit, Numbering, Absent
<1>4. NumbersDistinct
    BY DEF NotesInit, NumbersDistinct, Absent
<1> QED
    BY <1>1, <1>2, <1>3, <1>4 DEF IInv

\* A free id is one of the ids.
LEMMA NextNoteType == NotesLeft => NextNote \in Notes
    BY DEF NotesLeft, NextNote

\* A request that goes on without touching a lock it holds, a note or the next
\* number keeps the invariant, if it does not come to hold the entity.
LEMMA StepKeeps ==
    ASSUME IInv, NEW c \in Callers, NEW rec,
           call' = [call EXCEPT ![c] = rec], CallShape(rec),
           invoiceLock # c, entityLock # c,
           ~(rec.op = "finalize" /\ rec.step = "apply"),
           UNCHANGED <<note, nextNumber, lockVars>>
    PROVE  IInv'
<1> USE DEF IInv, lockVars
<1>1. /\ call'[c] = rec
      /\ \A d \in Callers : d # c => call'[d] = call[d]
    BY DEF Shapes
<1>2. Shapes'
    BY <1>1 DEF Shapes, CallShape, RowShape
<1>3. LockHolders'
    BY <1>1 DEF LockHolders
<1>4. Numbering' /\ NumbersDistinct'
    BY <1>1 DEF Numbering, NumbersDistinct, LockHolders
<1> QED
    BY <1>2, <1>3, <1>4

\* A transaction that ends gives back what it holds; the next number may have
\* advanced if no other transaction has read it.
LEMMA EndKeeps ==
    ASSUME IInv, NEW c \in Callers, Finish(c), Release(c),
           note' = [n \in Notes |-> note'[n]],
           \A n \in Notes : RowShape(note'[n]) /\ note'[n].number \in Nat,
           nextNumber' \in Nat \ {0},
           nextNumber' = nextNumber \/ entityLock \in {c, NoCaller},
           NumbersDistinct'
    PROVE  IInv'
<1> USE NotesAssumption DEF IInv
<1>1. /\ call'[c] = Waiting
      /\ \A d \in Callers : d # c => call'[d] = call[d]
    BY DEF Shapes, Finish, Become
<1>2. Shapes'
    BY <1>1 DEF Shapes, CallShape, RowShape, Finish, Become, Waiting
<1>3. LockHolders'
    BY <1>1 DEF LockHolders, Release, Waiting
<1>4. Numbering'
    BY <1>1, <1>3 DEF Numbering, LockHolders, Release, Waiting
<1> QED
    BY <1>2, <1>3, <1>4

\* A row inserted by create_credit_note_tx is a row.
LEMMA NewRowShape ==
    ASSUME NEW c \in Callers, NEW status, NEW number
    PROVE  /\ RowShape(NewRow(c, status, number))
           /\ NewRow(c, status, number).number = number
    BY DEF RowShape, NewRow

LEMMA StepPreserves == IInv /\ [NotesNext]_notesVars => IInv'
<1> SUFFICES ASSUME IInv, [NotesNext]_notesVars PROVE IInv'
    OBVIOUS
<1> USE NotesAssumption
<1>0. \A c \in Callers : CallShape(call[c])
    BY DEF IInv, Shapes
<1>1. ASSUME NEW c \in Callers, CreateReads(c) \/ VoidInvoiceRead(c)
      PROVE  IInv'
  <2>1. PICK rec : /\ call' = [call EXCEPT ![c] = rec] /\ CallShape(rec)
                   /\ rec.step = "lock"
    <3>1. CASE CreateReads(c)
      <4>1. PICK op \in {"create", "issue", "reissue"}, type \in CreditTypes,
                 asked \in Asked : CreateRead(c, op, type, asked)
        BY <3>1 DEF CreateReads
      <4>2. PICK due : call' = [call EXCEPT ![c] =
                [op |-> op, step |-> "lock", note |-> 0, type |-> type,
                 credit |-> asked, due |-> due, number |-> 0]]
        BY <4>1, Zenon DEF CreateRead, Become
      <4> DEFINE rec == [op |-> op, step |-> "lock", note |-> 0, type |-> type,
                         credit |-> asked, due |-> due, number |-> 0]
      <4>3. CallShape(rec) /\ rec.step = "lock"
        BY DEF CallShape
      <4> QED
        BY <4>2, <4>3, Zenon
    <3>2. CASE VoidInvoiceRead(c)
      <4> DEFINE rec == [op |-> "voidInvoice", step |-> "lock", note |-> 0,
                         type |-> "CreditToBalance", credit |-> NoCredit,
                         due |-> 0, number |-> 0]
      <4>1. CallShape(rec) /\ rec.step = "lock"
        BY DEF CallShape
      <4> QED
        BY <3>2, <4>1, Zenon DEF VoidInvoiceRead, Become
    <3> QED
      BY <1>1, <3>1, <3>2
  <2>2. UNCHANGED <<note, nextNumber, lockVars>> /\ call[c].step = "idle"
    BY <1>1 DEF CreateReads, CreateRead, VoidInvoiceRead
  <2>3. invoiceLock # c /\ entityLock # c
    BY <2>2 DEF IInv, LockHolders
  <2> QED
    BY <2>1, <2>2, <2>3, StepKeeps
<1>2. ASSUME NEW c \in Callers, NEW n \in Notes, FinalizeRead(c, n) \/ VoidRead(c, n)
      PROVE  IInv'
  <2>1. PICK rec : /\ call' = [call EXCEPT ![c] = rec] /\ CallShape(rec)
                   /\ ~(rec.op = "finalize" /\ rec.step = "apply")
    BY <1>2 DEF FinalizeRead, VoidRead, OnNote, Become, CallShape
  <2>2. UNCHANGED <<note, nextNumber, lockVars>> /\ call[c].step = "idle"
    BY <1>2 DEF FinalizeRead, VoidRead
  <2>3. invoiceLock # c /\ entityLock # c
    BY <2>2 DEF IInv, LockHolders
  <2> QED
    BY <2>1, <2>2, <2>3, StepKeeps
<1>3. ASSUME NEW c \in Callers, CreateRefused(c) \/ VoidRefused(c)
      PROVE  IInv'
  <2>1. UNCHANGED <<note, nextNumber, lockVars>> /\ call' = [call EXCEPT ![c] = Waiting]
    BY <1>3 DEF CreateRefused, VoidRefused, Finish, Become
  <2>2. invoiceLock # c /\ entityLock # c
    BY <1>3 DEF IInv, LockHolders, CreateRefused, VoidRefused, Free
  <2> QED
    BY <2>1, <2>2, StepKeeps DEF Waiting, CallShape
<1>4. ASSUME NEW c \in Callers, CreateDraft(c) PROVE IInv'
  <2>1. entityLock # c /\ invoiceLock # c
    BY <1>4 DEF CreateDraft, IInv, LockHolders
  <2>2. Release(c) /\ Finish(c) /\ UNCHANGED nextNumber
    BY <1>4, <2>1 DEF CreateDraft, Release, lockVars
  <2>3. NextNote \in Notes /\ note' = [note EXCEPT ![NextNote] = NewRow(c, "Draft", 0)]
    BY <1>4, NextNoteType DEF CreateDraft
  <2>4. /\ note' = [n \in Notes |-> note'[n]]
        /\ \A n \in Notes : /\ RowShape(note'[n])
                            /\ note'[n].number = IF n = NextNote THEN 0 ELSE note[n].number
    BY <2>3, NewRowShape DEF IInv, Shapes
  <2>5. /\ \A n \in Notes : note'[n].number \in Nat
        /\ NumbersDistinct'
    BY <2>2, <2>4 DEF NumbersDistinct, IInv, Numbering
  <2> QED
    BY <2>2, <2>4, <2>5, EndKeeps DEF IInv, Numbering
<1>5. ASSUME NEW c \in Callers, IssueLock(c) PROVE IInv'
  <2> DEFINE rec == [call[c] EXCEPT !.step = "entity",
                               !.credit = Resolve(call[c].credit)]
  <2>1. /\ call' = [call EXCEPT ![c] = rec] /\ invoiceLock' = c
        /\ UNCHANGED <<note, nextNumber, entityLock>>
        /\ call[c].op # "finalize" /\ invoiceLock = NoCaller
    BY <1>5 DEF IssueLock, Become, Free
  <2>2. CallShape(rec) /\ rec.op = call[c].op /\ rec.step = "entity"
    <3>1. rec \in [op : {call[c].op}, step : {"entity"}, note : {call[c].note},
                   type : {call[c].type}, credit : {Resolve(call[c].credit)},
                   due : {call[c].due}, number : {call[c].number}]
      BY <1>0, StepExcept
    <3> QED
      BY <2>1, <3>1 DEF CallShape
  <2> HIDE DEF rec
  <2>3. /\ call'[c] = rec
        /\ \A d \in Callers : d # c => call'[d] = call[d]
    BY <2>1 DEF IInv, Shapes
  <2>4. Shapes'
    BY <2>1, <2>2, <2>3 DEF IInv, Shapes, CallShape, RowShape
  <2>5. LockHolders'
    BY <2>1, <2>2, <2>3 DEF IInv, LockHolders
  <2>6. Numbering' /\ NumbersDistinct'
    BY <2>1, <2>2, <2>3 DEF IInv, Numbering, NumbersDistinct, LockHolders
  <2> QED
    BY <2>4, <2>5, <2>6 DEF IInv
<1>6. ASSUME NEW c \in Callers, IssueCommit(c) PROVE IInv'
  <2> DEFINE row == NewRow(c, "Finalized", nextNumber)
  <2>1. /\ NextNote \in Notes /\ note' = [note EXCEPT ![NextNote] = row]
        /\ nextNumber' = nextNumber + 1 /\ entityLock = NoCaller
        /\ Finish(c) /\ Release(c)
    <3>1. note' = [note EXCEPT ![NextNote] = NewRow(c, "Finalized", nextNumber)]
      BY <1>6, Zenon DEF IssueCommit
    <3> QED
      BY <1>6, <3>1, NextNoteType DEF IssueCommit, Free
  <2>2. RowShape(row) /\ row.number = nextNumber
    BY DEF RowShape, NewRow
  <2> HIDE DEF row
  <2>3. /\ note' = [n \in Notes |-> note'[n]]
        /\ \A n \in Notes :
            /\ RowShape(note'[n])
            /\ note'[n].number = IF n = NextNote THEN nextNumber ELSE note[n].number
    BY <2>1, <2>2 DEF IInv, Shapes
  <2>4. /\ \A n \in Notes : note'[n].number \in Nat
        /\ NumbersDistinct'
    BY <2>1, <2>3 DEF NumbersDistinct, IInv, Numbering
  <2>5. nextNumber' \in Nat \ {0}
    BY <2>1 DEF IInv, Numbering
  <2> QED
    BY <2>1, <2>3, <2>4, <2>5, EndKeeps
<1>7. ASSUME NEW c \in Callers,
             IssueRefused(c) \/ FinalizeGone(c) \/ DeadlockVictim(c) \/ Crash(c)
      PROVE  IInv'
  <2>1. Finish(c) /\ Release(c) /\ UNCHANGED <<note, nextNumber>>
    BY <1>7 DEF IssueRefused, FinalizeGone, DeadlockVictim, Crash
  <2>2. /\ note' = [n \in Notes |-> note'[n]]
        /\ \A n \in Notes : RowShape(note'[n]) /\ note'[n].number \in Nat
        /\ nextNumber' \in Nat \ {0} /\ NumbersDistinct'
    BY <2>1 DEF IInv, Shapes, RowShape, Numbering, NumbersDistinct
  <2> QED
    BY <2>1, <2>2, EndKeeps
<1>8. ASSUME NEW c \in Callers, FinalizeLock(c) PROVE IInv'
  <2> DEFINE rec == [call[c] EXCEPT !.step = "apply", !.number = nextNumber]
  <2>1. /\ call' = [call EXCEPT ![c] = rec] /\ entityLock' = c
        /\ UNCHANGED <<note, nextNumber, invoiceLock>>
        /\ call[c].op = "finalize" /\ entityLock = NoCaller
    BY <1>8 DEF FinalizeLock, Become, Free
  <2>2. /\ CallShape(rec) /\ rec.op = "finalize" /\ rec.step = "apply"
        /\ rec.number = nextNumber
    <3>1. rec \in [op : {call[c].op}, step : {"apply"}, note : {call[c].note},
                   type : {call[c].type}, credit : {call[c].credit},
                   due : {call[c].due}, number : {nextNumber}]
      BY <1>0, <2>1, StepExcept
    <3> QED
      BY <2>1, <3>1 DEF CallShape
  <2> HIDE DEF rec
  <2>3. /\ call'[c] = rec
        /\ \A d \in Callers : d # c => call'[d] = call[d]
    BY <2>1 DEF IInv, Shapes
  <2>4. Shapes'
    BY <2>1, <2>2, <2>3 DEF IInv, Shapes, CallShape, RowShape
  <2>5. LockHolders'
    BY <2>1, <2>2, <2>3 DEF IInv, LockHolders
  <2>6. Numbering' /\ NumbersDistinct'
    BY <2>1, <2>2, <2>3 DEF IInv, Numbering, NumbersDistinct, LockHolders
  <2> QED
    BY <2>4, <2>5, <2>6 DEF IInv
<1>9. ASSUME NEW c \in Callers, FinalizeCommit(c) PROVE IInv'
  <2> DEFINE n == call[c].note
  <2>1. /\ entityLock = c /\ call[c].number = nextNumber
        /\ nextNumber' = nextNumber + 1 /\ Finish(c) /\ Release(c)
    BY <1>9 DEF FinalizeCommit, IInv, LockHolders, Numbering
  <2>2. \/ UNCHANGED note
        \/ note' = [note EXCEPT ![n].status = "Finalized", ![n].number = nextNumber]
    BY <1>9, <2>1 DEF FinalizeCommit
  <2> HIDE DEF n
  <2>3. /\ note' = [m \in Notes |-> note'[m]]
        /\ \A m \in Notes : /\ RowShape(note'[m])
                            /\ note'[m].number \in {note[m].number, nextNumber}
        /\ \A m \in Notes \ {n} : note'[m] = note[m]
    <3>1. CASE UNCHANGED note
      BY <3>1 DEF IInv, Shapes, RowShape
    <3>2. CASE note' = [note EXCEPT ![n].status = "Finalized", ![n].number = nextNumber]
      BY <3>2 DEF IInv, Shapes, RowShape
    <3> QED
      BY <2>2, <3>1, <3>2
  <2>4. /\ \A m \in Notes : note'[m].number \in Nat
        /\ NumbersDistinct'
    BY <2>1, <2>3 DEF IInv, Numbering, NumbersDistinct
  <2>5. nextNumber' \in Nat \ {0}
    BY <2>1 DEF IInv, Numbering
  <2> QED
    BY <2>1, <2>3, <2>4, <2>5, EndKeeps
<1>10. ASSUME NEW c \in Callers, VoidCommit(c) PROVE IInv'
  <2> DEFINE n == call[c].note
  <2>1. /\ entityLock # c /\ invoiceLock # c
        /\ Finish(c) /\ UNCHANGED <<nextNumber, lockVars>>
    BY <1>10 DEF VoidCommit, IInv, LockHolders
  <2>2. UNCHANGED note \/ note' = [note EXCEPT ![n].status = "Voided"]
    BY <1>10 DEF VoidCommit
  <2> HIDE DEF n
  <2>3. /\ note' = [m \in Notes |-> note'[m]]
        /\ \A m \in Notes : RowShape(note'[m]) /\ note'[m].number = note[m].number
    <3>1. CASE UNCHANGED note
      BY <3>1 DEF IInv, Shapes, RowShape
    <3>2. CASE note' = [note EXCEPT ![n].status = "Voided"]
      BY <3>2 DEF IInv, Shapes, RowShape
    <3> QED
      BY <2>2, <3>1, <3>2
  <2>4. /\ \A m \in Notes : note'[m].number \in Nat
        /\ nextNumber' \in Nat \ {0} /\ NumbersDistinct'
    BY <2>1, <2>3 DEF IInv, Numbering, NumbersDistinct
  <2> QED
    BY <2>1, <2>3, <2>4, EndKeeps DEF Release, lockVars
<1>11. ASSUME NEW n \in Notes, DeleteDraft(n) PROVE IInv'
  <2>1. /\ note' = [note EXCEPT ![n] = [Absent EXCEPT !.status = "deleted"]]
        /\ UNCHANGED <<nextNumber, lockVars, call>>
    BY <1>11 DEF DeleteDraft
  <2>2. /\ note' = [m \in Notes |-> note'[m]]
        /\ \A m \in Notes : /\ RowShape(note'[m])
                            /\ note'[m].number = IF m = n THEN 0 ELSE note[m].number
    BY <2>1 DEF IInv, Shapes, RowShape, Absent
  <2>3. Shapes' /\ LockHolders'
    BY <2>1, <2>2 DEF IInv, Shapes, CallShape, LockHolders, lockVars
  <2>4. Numbering' /\ NumbersDistinct'
    BY <2>1, <2>2 DEF IInv, Numbering, NumbersDistinct, lockVars
  <2> QED
    BY <2>3, <2>4 DEF IInv
<1>12. ASSUME UNCHANGED <<note, nextNumber, lockVars, call>> PROVE IInv'
    BY <1>12 DEF IInv, Shapes, CallShape, RowShape, LockHolders, Numbering,
                 NumbersDistinct, lockVars
<1> QED
  <2>1. CASE \E c \in Callers : CallerStep(c)
    BY <2>1, <1>1, <1>2, <1>3, <1>4, <1>5, <1>6, <1>7, <1>8, <1>9, <1>10, Zenon
    DEF CallerStep
  <2>2. CASE \E n \in Notes : DeleteDraft(n)
    BY <2>2, <1>11
  <2>3. CASE \E a \in 1 .. InvoiceTotal : Settle(a) \/ SpendBalance(a)
    BY <2>3, <1>12 DEF Settle, SpendBalance
  <2>4. CASE CorrectInvoice \/ UNCHANGED notesVars
    BY <2>4, <1>12 DEF CorrectInvoice, notesVars
  <2> QED
    BY <2>1, <2>2, <2>3, <2>4 DEF NotesNext

\* The invariant is one of the specification.
THEOREM InductiveInvariant == NotesSpec => []IInv
    BY InitShapes, StepPreserves, PTL DEF NotesSpec

\* No two credit notes of an invoicing entity carry the same number, for any
\* number of concurrent requests: the number is read and advanced under the
\* entity's row lock (finalize_credit_note_tx, create_credit_note_tx).
THEOREM NumbersStayDistinct == NotesSpec => []NumbersDistinct
<1>1. IInv => NumbersDistinct
    BY DEF IInv
<1> QED
    BY <1>1, InductiveInvariant, PTL

-----------------------------------------------------------------------------

\* The holder of the entity's row waits for nothing but the invoice's row.
LEMMA EntityHolder ==
    ASSUME IInv, entityLock # NoCaller
    PROVE  /\ entityLock \in Callers /\ call[entityLock].step = "apply"
           /\ Blocked(entityLock) =>
                call[entityLock].type = "DebtCancellation" /\ invoiceLock # NoCaller
    BY NotesAssumption DEF IInv, LockHolders, Blocked, CanApply, Free

\* The holder of the invoice's row waits for nothing but the entity's row.
LEMMA InvoiceHolder ==
    ASSUME IInv, invoiceLock # NoCaller
    PROVE  /\ invoiceLock \in Callers /\ call[invoiceLock].step = "entity"
           /\ Blocked(invoiceLock) => entityLock # NoCaller
    BY NotesAssumption DEF IInv, LockHolders, Blocked, Free

\* A request that waits for a row of another transaction waits for one that
\* can go on, or for one of two that wait for each other, which PostgreSQL
\* resolves: credit notes lock the invoice and the invoicing entity in both
\* orders, and no third lock closes a longer cycle.
THEOREM NoWaitIsHidden == NotesSpec => []WaitsEnd
<1>1. ASSUME IInv PROVE WaitsEnd
  <2> SUFFICES ASSUME NEW c \in Callers, Blocked(c)
               PROVE  \E d \in Callers : \/ call[d].step # "idle" /\ ~Blocked(d)
                                         \/ Deadlocked(d)
    BY DEF WaitsEnd
  <2>1. invoiceLock # NoCaller \/ entityLock # NoCaller
    BY DEF Blocked, CanApply, Free
  <2>2. CASE entityLock # NoCaller
    <3>1. CASE Blocked(entityLock)
      <4>1. /\ invoiceLock \in Callers /\ entityLock \in Callers
            /\ call[entityLock].type = "DebtCancellation"
        BY <1>1, <2>2, <3>1, EntityHolder, InvoiceHolder
      <4> QED
        BY <4>1 DEF Deadlocked
    <3>2. CASE ~Blocked(entityLock)
      BY <1>1, <2>2, <3>2, EntityHolder
    <3> QED
      BY <3>1, <3>2
  <2>3. CASE entityLock = NoCaller /\ invoiceLock # NoCaller
    BY <1>1, <2>3, InvoiceHolder
  <2> QED
    BY <2>1, <2>2, <2>3
<1> QED
    BY <1>1, InductiveInvariant, PTL

-----------------------------------------------------------------------------
(* Amounts: what the notes credit, and what that does to the balance, the  *)
(* amount due and the payment status.                                      *)

\* A request on a note names one; voiding the invoice cancels no debt.
RequestsSound ==
    \A c \in Callers :
        /\ call[c].op \in {"finalize", "void"} => call[c].note \in Notes
        /\ call[c].op = "voidInvoice" => call[c].type = "CreditToBalance"

\* A request that holds the invoice's row has resolved what it credits, and
\* that much is left of every line until it commits.
CreditReserved ==
    \A c \in Callers : invoiceLock = c =>
        /\ call[c].credit # NoCredit
        /\ \A l \in Lines : call[c].credit[l] <= Remaining(l)

\* What a note gives back follows from what it credits.
CreditedComputed ==
    \A n \in Live :
        note[n].credited = CreditedAmount(note[n].type, CreditTotal(note[n].credit))

AmountsInv ==
    /\ NotesTypeOK
    /\ RequestsSound
    /\ CreditedComputed
    /\ LinesNotOvercredited
    /\ CreditReserved
    /\ EffectsMatchNotes

\* Sums are taken over the notes, which are finitely many.
LEMMA NotesFinite == IsFiniteSet(Notes)
    BY NotesAssumption, FS_Interval DEF Notes

\* What a note credits of all lines is a natural number.
LEMMA CreditTotalType ==
    ASSUME NEW cr \in Credit
    PROVE  /\ CreditTotal(cr) = SumFunctionOnSet(cr, Lines)
           /\ Summable(cr, Lines)
           /\ CreditTotal(cr) \in Nat
<1>1. DOMAIN cr = Lines
    BY DEF Credit
<1>2. CreditTotal(cr) = SumFunctionOnSet(cr, Lines)
    BY <1>1 DEF CreditTotal, FoldFunction, SumFunctionOnSet
<1>3. Summable(cr, Lines) /\ \A l \in Lines : cr[l] >= 0
    BY NotesAssumption DEF Summable, Credit
<1> QED
    BY <1>2, <1>3, SumInt, SumNat

\* The invoice has a line, and a line an amount.
LEMMA InvoiceTotalType ==
    /\ InvoiceTotal = SumFunctionOnSet(Price, Lines)
    /\ Summable(Price, Lines)
    /\ InvoiceTotal \in Nat \ {0}
<1>1. Price \in Credit /\ \A l \in Lines : Price[l] \in Nat \ {0}
    BY NotesAssumption DEF Credit
<1>2. /\ CreditTotal(Price) = SumFunctionOnSet(Price, Lines)
      /\ Summable(Price, Lines) /\ CreditTotal(Price) \in Nat
    BY <1>1, CreditTotalType
<1>3. InvoiceTotal = CreditTotal(Price)
    BY DEF InvoiceTotal, CreditTotal
<1>4. PICK l \in Lines : TRUE
    BY NotesAssumption
<1>5. /\ Summable(Price, Lines \ {l})
      /\ SumFunctionOnSet(Price, Lines) = Price[l] + SumFunctionOnSet(Price, Lines \ {l})
    BY <1>2, SumRemove
<1>6. SumFunctionOnSet(Price, Lines \ {l}) \in Nat
    <2>1. \A k \in Lines \ {l} : Price[k] >= 0
        BY <1>1
    <2> QED BY <1>5, <2>1, SumInt, SumNat
<1>7. Price[l] > 0 /\ Price[l] \in Nat
    BY <1>1
<1> QED
    BY <1>2, <1>3, <1>5, <1>6, <1>7

\* Rounding moves a quotient by at most a half.
LEMMA RoundHalfEvenBound ==
    ASSUME NEW a \in Nat, NEW b \in Nat \ {0}
    PROVE  /\ RoundHalfEven(a, b) \in Nat
           /\ 2 * (b * RoundHalfEven(a, b)) <= 2 * a + b
<1> DEFINE q == a \div b
           r == a % b
<1>1. /\ q \in Nat /\ r \in 0 .. (b - 1)
      /\ a = b * q + r
    OBVIOUS
<1>2. b * (q + 1) = b * q + b /\ b * q \in Nat
    BY <1>1
<1>3. RoundHalfEven(a, b) = IF 2 * r > b \/ (2 * r = b /\ q % 2 = 1) THEN q + 1 ELSE q
    BY DEF RoundHalfEven
<1> HIDE DEF q, r
<1>4. CASE 2 * r > b \/ (2 * r = b /\ q % 2 = 1)
    <2>1. RoundHalfEven(a, b) = q + 1 /\ 2 * r >= b
        BY <1>1, <1>3, <1>4
    <2>2. b * RoundHalfEven(a, b) = b * q + b
        BY <1>2, <2>1
    <2> QED BY <1>1, <1>2, <2>1, <2>2
<1>5. CASE ~(2 * r > b \/ (2 * r = b /\ q % 2 = 1))
    <2>1. RoundHalfEven(a, b) = q
        BY <1>3, <1>5
    <2> QED BY <1>1, <1>2, <2>1
<1> QED BY <1>4, <1>5

\* What a note gives back to the balance is a natural number.
LEMMA CreditedAmountType ==
    ASSUME NEW type \in CreditTypes, NEW amount \in Nat
    PROVE  CreditedAmount(type, amount) \in Nat
<1>1. AppliedCredits * amount \in Nat
    BY NotesAssumption
<1>2. AppliedPortion(amount) \in Nat
    BY <1>1, InvoiceTotalType, RoundHalfEvenBound DEF AppliedPortion
<1> QED
    BY <1>2 DEF CreditedAmount, CreditTypes

-----------------------------------------------------------------------------
(* The variables keep their types.                                         *)

Requests == [op : Ops, step : Steps, note : Notes \cup {0}, type : CreditTypes,
             credit : Credit, due : Int, number : Nat]

\* What is left of a line is an integer, and what a request credits resolves
\* to an amount for each line.
LEMMA RemainingType ==
    ASSUME NotesTypeOK
    PROVE  /\ \A l \in Lines : AlreadyCredited(l) \in Int /\ Remaining(l) \in Int
           /\ \A cr \in Credit : Resolve(cr) \in Credit
<1>1. ASSUME NEW l \in Lines
      PROVE  AlreadyCredited(l) \in Int /\ Remaining(l) \in Int
  <2> DEFINE f == [n \in Notes |-> note[n].credit[l]]
  <2>1. Summable(f, Live)
    <3>1. IsFiniteSet(Live) /\ Live \subseteq Notes
      BY NotesFinite, FS_Subset DEF Live
    <3>2. \A n \in Notes : note[n].credit[l] \in Nat
      BY DEF NotesTypeOK, NoteRow, Credit
    <3> QED BY <3>1, <3>2 DEF Summable
  <2>2. AlreadyCredited(l) = SumFunctionOnSet(f, Live)
    BY DEF AlreadyCredited, SumOver, SumFunctionOnSet
  <2>3. AlreadyCredited(l) \in Int
    <3> HIDE DEF f
    <3> QED BY <2>1, <2>2, SumInt
  <2> QED BY <2>3, NotesAssumption DEF Remaining
<1>2. ASSUME NEW cr \in Credit PROVE Resolve(cr) \in Credit
  BY <1>1 DEF Resolve, Credit
<1> QED
    BY <1>1, <1>2

\* A row a request inserts is a row.
LEMMA NewRowType ==
    ASSUME NotesTypeOK, NEW c \in Callers, NEW status \in NoteStatus, NEW number \in Nat
    PROVE  NewRow(c, status, number) \in NoteRow
<1> DEFINE cr == Resolve(call[c].credit)
<1>1. call[c].credit \in Credit /\ call[c].type \in CreditTypes
    BY DEF NotesTypeOK
<1>2. cr \in Credit
    BY <1>1, RemainingType
<1>3. CreditedAmount(call[c].type, CreditTotal(cr)) \in Nat
    BY <1>1, <1>2, CreditTotalType, CreditedAmountType
<1> QED
    BY <1>1, <1>2, <1>3 DEF NewRow, NoteRow

InvoiceRows == [status : {"Finalized", "Void"}, due : Int,
                payment : {"Unpaid", "PartiallyPaid", "Paid"}]

\* What changing an invoice's amount due and payment status leaves.
LEMMA InvoiceExcept ==
    ASSUME NEW r \in InvoiceRows, NEW due \in Int,
           NEW payment \in {"Unpaid", "PartiallyPaid", "Paid"}
    PROVE  LET s == [r EXCEPT !.due = due, !.payment = payment] IN
           /\ s \in InvoiceRows
           /\ s.status = r.status /\ s.due = due /\ s.payment = payment
    BY DEF InvoiceRows

\* The two changes credit notes make to the invoice's row leave it one.
LEMMA InvoiceRowType ==
    ASSUME NotesTypeOK, NEW type, NEW amount \in Nat,
           ApplyToInvoice(type, amount) \/ RevertFromInvoice(type, amount)
    PROVE  invoice' \in InvoiceRows
<1>1. /\ invoice \in InvoiceRows /\ invoice.due \in Int
      /\ invoice.payment \in {"Unpaid", "PartiallyPaid", "Paid"}
    BY DEF NotesTypeOK, InvoiceRows
<1>2. invoice.due - amount \in Int /\ invoice.due + amount \in Int
    BY <1>1
<1>3. \/ invoice' = invoice
      \/ \E due \in Int, payment \in {"Unpaid", "PartiallyPaid", "Paid"} :
            invoice' = [invoice EXCEPT !.due = due, !.payment = payment]
    BY <1>1, <1>2 DEF ApplyToInvoice, RevertFromInvoice
<1>4. ASSUME NEW due \in Int, NEW payment \in {"Unpaid", "PartiallyPaid", "Paid"},
             invoice' = [invoice EXCEPT !.due = due, !.payment = payment]
      PROVE  invoice' \in InvoiceRows
    BY <1>1, <1>4, InvoiceExcept
<1> QED
    BY <1>1, <1>3, <1>4

LEMMA WaitingType == Waiting \in Requests /\ NoCredit \in Credit
    BY DEF Waiting, Requests, Ops, Steps, Notes, CreditTypes, Credit, NoCredit

LEMMA TypesInit == NotesInit => NotesTypeOK /\ RequestsSound
<1> SUFFICES ASSUME NotesInit PROVE NotesTypeOK /\ RequestsSound
    OBVIOUS
<1>1. Absent \in NoteRow /\ Waiting \in Requests
    BY WaitingType DEF Absent, NoteRow, NoteStatus, CreditTypes
<1>2. InvoiceTotal - AppliedCredits \in Int
    BY InvoiceTotalType, NotesAssumption
<1>3. invoice \in InvoiceRows
    BY <1>2 DEF NotesInit, InvoiceRows
<1>4. /\ note \in [Notes -> NoteRow] /\ call \in [Callers -> Requests]
      /\ \A c \in Callers : call[c].op = "none"
    BY <1>1 DEF NotesInit, Waiting
<1>5. RequestsSound
    BY <1>4 DEF RequestsSound
<1>6. /\ paid \in Nat /\ balance \in Nat /\ nextNumber \in Nat \ {0}
      /\ invoiceLock \in Callers \cup {NoCaller} /\ entityLock \in Callers \cup {NoCaller}
      /\ spent \in Nat /\ repeated \subseteq Notes
  <2>1. /\ paid = 0 /\ balance = InitialBalance /\ nextNumber = 1
        /\ invoiceLock = NoCaller /\ entityLock = NoCaller
        /\ spent = 0 /\ repeated = {}
    BY DEF NotesInit
  <2> QED BY <2>1, NotesAssumption
<1>7. corrected \in BOOLEAN
    BY DEF NotesInit
<1> QED
    BY <1>3, <1>4, <1>5, <1>6, <1>7 DEF NotesTypeOK, Requests, InvoiceRows

\* A request that reads, waits or ends, and changes no row but through a lock.
LEMMA RequestTypes ==
    ASSUME NotesTypeOK, RequestsSound, NEW c \in Callers, NEW rec \in Requests,
           call' = [call EXCEPT ![c] = rec],
           rec.op \in {"finalize", "void"} => rec.note \in Notes,
           rec.op = "voidInvoice" => rec.type = "CreditToBalance"
    PROVE  /\ call' \in [Callers -> Requests]
           /\ RequestsSound'
    BY DEF NotesTypeOK, RequestsSound, Requests

\* Every step keeps the types, and a request's note a note.
LEMMA TypesStep ==
    NotesTypeOK /\ RequestsSound /\ [NotesNext]_notesVars => NotesTypeOK' /\ RequestsSound'
<1> SUFFICES ASSUME NotesTypeOK, RequestsSound, [NotesNext]_notesVars
             PROVE  NotesTypeOK' /\ RequestsSound'
    OBVIOUS
<1> USE NotesAssumption
<1>0. /\ call \in [Callers -> Requests]
      /\ invoiceLock \in Callers \cup {NoCaller} /\ entityLock \in Callers \cup {NoCaller}
    BY DEF NotesTypeOK, Requests
<1>a. ASSUME NEW c \in Callers, Finish(c)
      PROVE  call' \in [Callers -> Requests] /\ RequestsSound'
    BY <1>a, WaitingType, RequestTypes DEF Finish, Become, Waiting
<1>b. ASSUME NEW c \in Callers, Release(c)
      PROVE  /\ invoiceLock' \in Callers \cup {NoCaller}
             /\ entityLock' \in Callers \cup {NoCaller}
    BY <1>0, <1>b DEF Release
<1>1. ASSUME NEW c \in Callers, CreateReads(c) \/ VoidInvoiceRead(c)
      PROVE  NotesTypeOK' /\ RequestsSound'
  <2>1. call' \in [Callers -> Requests] /\ RequestsSound'
    <3>1. CASE CreateReads(c)
      <4>1. PICK op \in {"create", "issue", "reissue"}, type \in CreditTypes,
                 asked \in Asked : CreateRead(c, op, type, asked)
        BY <3>1 DEF CreateReads
      <4> DEFINE due == IF type = "DebtCancellation" THEN invoice.due ELSE 0
                 rec == [op |-> op, step |-> "lock", note |-> 0, type |-> type,
                         credit |-> asked, due |-> due, number |-> 0]
      <4>2. call' = [call EXCEPT ![c] = rec]
        BY <4>1 DEF CreateRead, Become
      <4>3. due \in Int /\ asked \in Credit /\ op \in Ops
        BY DEF NotesTypeOK, Credit, Ops
      <4>4. rec \in Requests /\ rec.op = op
        BY <4>3 DEF Requests, Steps
      <4> HIDE DEF rec
      <4> QED BY <4>2, <4>4, RequestTypes
    <3>2. CASE VoidInvoiceRead(c)
      <4> DEFINE rec == [op |-> "voidInvoice", step |-> "lock", note |-> 0,
                         type |-> "CreditToBalance", credit |-> NoCredit,
                         due |-> 0, number |-> 0]
      <4>1. call' = [call EXCEPT ![c] = rec]
        BY <3>2 DEF VoidInvoiceRead, Become
      <4>2. rec \in Requests /\ rec.op = "voidInvoice" /\ rec.type = "CreditToBalance"
        BY WaitingType DEF Requests, Steps, Ops, CreditTypes
      <4> HIDE DEF rec
      <4> QED BY <4>1, <4>2, RequestTypes
    <3> QED BY <1>1, <3>1, <3>2
  <2> QED BY <1>1, <2>1 DEF CreateReads, CreateRead, VoidInvoiceRead, NotesTypeOK, Requests,
                            lockVars
<1>2. ASSUME NEW c \in Callers, NEW n \in Notes, FinalizeRead(c, n) \/ VoidRead(c, n)
      PROVE  NotesTypeOK' /\ RequestsSound'
  <2>1. PICK op \in {"finalize", "void"}, step \in {"entity", "apply"} :
            call' = [call EXCEPT ![c] = OnNote(op, step, n)]
    BY <1>2 DEF FinalizeRead, VoidRead, Become
  <2>2. note[n].type \in CreditTypes
    BY DEF NotesTypeOK, NoteRow
  <2>3. OnNote(op, step, n) \in Requests /\ OnNote(op, step, n).note = n
        /\ OnNote(op, step, n).op = op
    BY <2>2, WaitingType DEF OnNote, Requests, Ops, Steps
  <2>4. call' \in [Callers -> Requests] /\ RequestsSound'
    BY <2>1, <2>3, RequestTypes
  <2> QED BY <1>2, <2>4 DEF FinalizeRead, VoidRead, NotesTypeOK, Requests, lockVars
<1>3. ASSUME NEW c \in Callers,
             \/ CreateRefused(c) \/ VoidRefused(c)
             \/ IssueRefused(c) \/ FinalizeGone(c) \/ DeadlockVictim(c) \/ Crash(c)
      PROVE  NotesTypeOK' /\ RequestsSound'
  <2>1. /\ Finish(c)
        /\ UNCHANGED lockVars \/ Release(c)
        /\ UNCHANGED <<invoice, paid, note, balance, nextNumber, corrected, spent, repeated>>
    BY <1>3 DEF CreateRefused, VoidRefused, IssueRefused, FinalizeGone, DeadlockVictim, Crash
  <2>2. call' \in [Callers -> Requests] /\ RequestsSound'
    BY <2>1, <1>a
  <2>3. /\ invoiceLock' \in Callers \cup {NoCaller}
        /\ entityLock' \in Callers \cup {NoCaller}
    BY <2>1, <1>0, <1>b DEF lockVars
  <2> QED BY <2>1, <2>2, <2>3 DEF NotesTypeOK, Requests
<1>4. ASSUME NEW c \in Callers, CreateDraft(c) PROVE NotesTypeOK' /\ RequestsSound'
  <2>1. call' \in [Callers -> Requests] /\ RequestsSound'
    BY <1>4, <1>a DEF CreateDraft
  <2>2. NewRow(c, "Draft", 0) \in NoteRow
    BY NewRowType DEF NoteStatus
  <2>3. note' \in [Notes -> NoteRow]
    BY <1>4, <2>2, NextNoteType DEF CreateDraft, NotesTypeOK
  <2> QED BY <1>4, <2>1, <2>3 DEF CreateDraft, NotesTypeOK, Requests, lockVars
<1>5. ASSUME NEW c \in Callers, IssueLock(c) PROVE NotesTypeOK' /\ RequestsSound'
  <2> DEFINE rec == [call[c] EXCEPT !.step = "entity",
                               !.credit = Resolve(call[c].credit)]
  <2>1. call' = [call EXCEPT ![c] = rec]
    BY <1>5 DEF IssueLock, Become
  <2>2. call[c] \in Requests /\ Resolve(call[c].credit) \in Credit
    BY <1>0, RemainingType DEF Requests
  <2>3. rec \in Requests /\ rec.op = call[c].op /\ rec.type = call[c].type
        /\ rec.note = call[c].note
    BY <2>2 DEF Requests, Steps
  <2> HIDE DEF rec
  <2>4. call' \in [Callers -> Requests] /\ RequestsSound'
    BY <2>1, <2>3, RequestTypes DEF RequestsSound
  <2> QED BY <1>5, <2>4 DEF IssueLock, NotesTypeOK, Requests
<1>6. ASSUME NEW c \in Callers, IssueCommit(c) PROVE NotesTypeOK' /\ RequestsSound'
  <2> DEFINE row == NewRow(c, "Finalized", nextNumber)
             rows == [note EXCEPT ![NextNote] = row]
  <2>1. /\ NextNote \in Notes /\ note' = rows /\ Finish(c) /\ Release(c)
        /\ nextNumber' = nextNumber + 1
        /\ balance' = balance + rows[NextNote].credited
        /\ \/ invoice' = [invoice EXCEPT !.status = "Void"]
           \/ ApplyToInvoice(rows[NextNote].type, CreditTotal(rows[NextNote].credit))
        /\ corrected' \in BOOLEAN
        /\ UNCHANGED <<paid, spent, repeated>>
    <3>1. NextNote \in Notes
      BY <1>6, NextNoteType DEF IssueCommit
    <3>2. corrected' \in BOOLEAN
      BY <1>6 DEF IssueCommit, NotesTypeOK
    <3> QED BY <1>6, <3>1, <3>2, Zenon DEF IssueCommit
  <2>2. row \in NoteRow
    BY NewRowType DEF NoteStatus, NotesTypeOK
  <2> HIDE DEF row
  <2>3. rows \in [Notes -> NoteRow] /\ rows[NextNote] \in NoteRow
    BY <2>1, <2>2 DEF NotesTypeOK
  <2> HIDE DEF rows
  <2>4. balance' \in Nat /\ nextNumber' \in Nat \ {0}
    BY <2>1, <2>3 DEF NotesTypeOK, NoteRow
  <2>5. CreditTotal(rows[NextNote].credit) \in Nat
    BY <2>3, CreditTotalType DEF NoteRow
  <2>6. invoice' \in InvoiceRows
    <3>1. CASE invoice' = [invoice EXCEPT !.status = "Void"]
      BY <3>1 DEF NotesTypeOK, InvoiceRows
    <3>2. CASE ApplyToInvoice(rows[NextNote].type, CreditTotal(rows[NextNote].credit))
      BY <3>2, <2>5, InvoiceRowType
    <3> QED BY <2>1, <3>1, <3>2
  <2> QED BY <2>1, <2>3, <2>4, <2>6, <1>a, <1>b DEF NotesTypeOK, Requests, InvoiceRows
<1>7. ASSUME NEW c \in Callers, FinalizeLock(c) PROVE NotesTypeOK' /\ RequestsSound'
  <2> DEFINE rec == [call[c] EXCEPT !.step = "apply", !.number = nextNumber]
  <2>1. call' = [call EXCEPT ![c] = rec]
    BY <1>7 DEF FinalizeLock, Become
  <2>2. rec \in Requests /\ rec.op = call[c].op /\ rec.type = call[c].type
        /\ rec.note = call[c].note
    BY <1>0 DEF Requests, Steps, NotesTypeOK
  <2> HIDE DEF rec
  <2>3. call' \in [Callers -> Requests] /\ RequestsSound'
    BY <2>1, <2>2, RequestTypes DEF RequestsSound
  <2> QED BY <1>7, <2>3 DEF FinalizeLock, NotesTypeOK, Requests
<1>8. ASSUME NEW c \in Callers, FinalizeCommit(c) \/ VoidCommit(c)
      PROVE  NotesTypeOK' /\ RequestsSound'
  <2> DEFINE n == call[c].note
  <2>1. n \in Notes
    BY <1>8 DEF RequestsSound, FinalizeCommit, VoidCommit
  <2>2. /\ note[n] \in NoteRow /\ note[n].credited \in Nat
        /\ CreditTotal(note[n].credit) \in Nat /\ call[c].number \in Nat
    BY <2>1, <1>0, CreditTotalType DEF NotesTypeOK, NoteRow, Requests
  <2>3. /\ \/ ApplyToInvoice(note[n].type, CreditTotal(note[n].credit))
           \/ RevertFromInvoice(note[n].type, CreditTotal(note[n].credit))
        /\ Finish(c)
        /\ UNCHANGED lockVars \/ Release(c)
        /\ \/ balance' = balance + note[n].credited
           \/ note[n].credited <= balance /\ balance' = balance - note[n].credited
        /\ nextNumber' \in {nextNumber, call[c].number + 1}
        /\ repeated' \in {repeated, repeated \cup {n}}
        /\ UNCHANGED <<paid, corrected, spent>>
    <3>1. CASE FinalizeCommit(c)
      BY <3>1 DEF FinalizeCommit
    <3>2. CASE VoidCommit(c)
      BY <3>2 DEF VoidCommit
    <3> QED BY <1>8, <3>1, <3>2
  <2>4. note' \in [Notes -> NoteRow]
    <3>1. \/ UNCHANGED note
          \/ note' = [note EXCEPT ![n].status = "Finalized", ![n].number = call[c].number]
          \/ note' = [note EXCEPT ![n].status = "Voided"]
      BY <1>8 DEF FinalizeCommit, VoidCommit
    <3> HIDE DEF n
    <3>2. CASE UNCHANGED note
      BY <3>2 DEF NotesTypeOK
    <3>3. CASE note' = [note EXCEPT ![n].status = "Finalized", ![n].number = call[c].number]
      BY <3>3, <2>1, <2>2 DEF NotesTypeOK, NoteRow, NoteStatus
    <3>4. CASE note' = [note EXCEPT ![n].status = "Voided"]
      BY <3>4, <2>1, <2>2 DEF NotesTypeOK, NoteRow, NoteStatus
    <3> QED BY <3>1, <3>2, <3>3, <3>4
  <2>5. invoice' \in InvoiceRows
    BY <2>2, <2>3, InvoiceRowType
  <2> HIDE DEF n
  <2>6. balance' \in Nat /\ nextNumber' \in Nat \ {0} /\ repeated' \subseteq Notes
    BY <2>1, <2>2, <2>3 DEF NotesTypeOK
  <2>7. /\ invoiceLock' \in Callers \cup {NoCaller}
        /\ entityLock' \in Callers \cup {NoCaller}
    BY <2>3, <1>0, <1>b DEF lockVars
  <2> QED BY <2>3, <2>4, <2>5, <2>6, <2>7, <1>a DEF NotesTypeOK, Requests, InvoiceRows
<1>9. ASSUME NEW n \in Notes, DeleteDraft(n) PROVE NotesTypeOK' /\ RequestsSound'
  <2>1. [Absent EXCEPT !.status = "deleted"] \in NoteRow
    BY WaitingType DEF Absent, NoteRow, NoteStatus, CreditTypes
  <2>2. note' \in [Notes -> NoteRow]
    BY <1>9, <2>1 DEF DeleteDraft, NotesTypeOK
  <2> QED BY <1>9, <2>2 DEF DeleteDraft, NotesTypeOK, RequestsSound, lockVars
<1>10. ASSUME NEW a \in 1 .. InvoiceTotal, Settle(a) \/ SpendBalance(a)
       PROVE  NotesTypeOK' /\ RequestsSound'
  <2>1. a \in Nat
    BY InvoiceTotalType
  <2>2. CASE Settle(a)
    <3>1. invoice' \in InvoiceRows
      <4>1. invoice \in InvoiceRows /\ invoice.due - a \in Int
        BY <2>1 DEF NotesTypeOK, InvoiceRows
      <4> QED BY <4>1, <2>2, InvoiceExcept DEF Settle
    <3> QED BY <2>1, <2>2, <3>1 DEF Settle, InvoiceRows, NotesTypeOK, RequestsSound, lockVars
  <2>3. CASE SpendBalance(a)
    BY <2>1, <2>3 DEF SpendBalance, NotesTypeOK, RequestsSound, lockVars
  <2> QED BY <1>10, <2>2, <2>3
<1>11. CASE CorrectInvoice \/ UNCHANGED notesVars
    BY <1>11 DEF CorrectInvoice, notesVars, NotesTypeOK, RequestsSound, lockVars
<1> QED
  <2>1. CASE \E c \in Callers : CallerStep(c)
    BY <2>1, <1>1, <1>2, <1>3, <1>4, <1>5, <1>6, <1>7, <1>8, Zenon DEF CallerStep
  <2> QED BY <2>1, <1>9, <1>10, <1>11 DEF NotesNext

-----------------------------------------------------------------------------
(* What each note adds to the sums, so that one that is created, finalized, *)
(* voided or deleted changes one value of a sum over all of them.           *)

Counting == {"Draft", "Finalized"}

\* What a row credits of a line, has given back, and has cancelled of the debt.
OfLine(row, l) == IF row.status \in Counting THEN row.credit[l] ELSE 0
OfBalance(row) == IF row.status = "Finalized" THEN row.credited ELSE 0
OfDebt(row) == IF row.status = "Finalized" /\ row.type = "DebtCancellation"
               THEN CreditTotal(row.credit) ELSE 0

LineSum(rows, l) == SumFunctionOnSet([n \in Notes |-> OfLine(rows[n], l)], Notes)
BalanceSum(rows) == SumFunctionOnSet([n \in Notes |-> OfBalance(rows[n])], Notes)
DebtSum(rows) == SumFunctionOnSet([n \in Notes |-> OfDebt(rows[n])], Notes)

\* The contributions of a row are integers.
LEMMA OfRowType ==
    ASSUME NEW row \in NoteRow
    PROVE  /\ \A l \in Lines : OfLine(row, l) \in Nat
           /\ OfBalance(row) \in Nat
           /\ OfDebt(row) \in Nat
    BY CreditTotalType DEF NoteRow, Credit, OfLine, OfBalance, OfDebt

\* A sum over some of the notes is one over all of them.
LEMMA SumOfPart ==
    ASSUME NEW f, DOMAIN f = Notes, NEW T \in SUBSET Notes, \A n \in T : f[n] \in Int
    PROVE  /\ Summable([n \in Notes |-> IF n \in T THEN f[n] ELSE 0], Notes)
           /\ SumFunctionOnSet(f, T)
                = SumFunctionOnSet([n \in Notes |-> IF n \in T THEN f[n] ELSE 0], Notes)
<1> DEFINE g == [n \in Notes |-> IF n \in T THEN f[n] ELSE 0]
<1>1. Summable(f, T)
    BY NotesFinite, FS_Subset DEF Summable
<1>2. Notes \subseteq DOMAIN g /\ \A n \in Notes : g[n] = IF n \in T THEN f[n] ELSE 0
    OBVIOUS
<1>3. Summable(g, Notes) /\ SumFunctionOnSet(g, Notes) = SumFunctionOnSet(f, T)
    <2> HIDE DEF g
    <2> QED BY <1>1, <1>2, NotesFinite, SumMask
<1> QED BY <1>3

\* The sums of the model, for rows that may be the ones of the next state.
LEMMA LineSumIs ==
    ASSUME NEW rows \in [Notes -> NoteRow], NEW l \in Lines
    PROVE  /\ Summable([n \in Notes |-> OfLine(rows[n], l)], Notes)
           /\ SumFunctionOnSet([n \in Notes |-> rows[n].credit[l]],
                               {n \in Notes : rows[n].status \in {"Draft", "Finalized"}})
                = LineSum(rows, l)
<1> DEFINE f == [n \in Notes |-> rows[n].credit[l]]
           T == {n \in Notes : rows[n].status \in {"Draft", "Finalized"}}
           g == [n \in Notes |-> IF n \in T THEN f[n] ELSE 0]
<1>1. DOMAIN f = Notes /\ T \in SUBSET Notes /\ \A n \in T : f[n] \in Int
    BY DEF NoteRow, Credit
<1>2. g = [n \in Notes |-> OfLine(rows[n], l)]
    BY DEF OfLine, Counting
<1>3. Summable(g, Notes) /\ SumFunctionOnSet(f, T) = SumFunctionOnSet(g, Notes)
    <2> HIDE DEF f, T
    <2> QED BY <1>1, SumOfPart
<1> HIDE DEF g
<1> QED BY <1>2, <1>3 DEF LineSum

LEMMA BalanceSumIs ==
    ASSUME NEW rows \in [Notes -> NoteRow]
    PROVE  /\ Summable([n \in Notes |-> OfBalance(rows[n])], Notes)
           /\ SumFunctionOnSet([n \in Notes |-> rows[n].credited],
                               {n \in Notes : rows[n].status = "Finalized"})
                = BalanceSum(rows)
<1> DEFINE f == [n \in Notes |-> rows[n].credited]
           T == {n \in Notes : rows[n].status = "Finalized"}
           g == [n \in Notes |-> IF n \in T THEN f[n] ELSE 0]
<1>1. DOMAIN f = Notes /\ T \in SUBSET Notes /\ \A n \in T : f[n] \in Int
    BY DEF NoteRow
<1>2. g = [n \in Notes |-> OfBalance(rows[n])]
    BY DEF OfBalance
<1>3. Summable(g, Notes) /\ SumFunctionOnSet(f, T) = SumFunctionOnSet(g, Notes)
    <2> HIDE DEF f, T
    <2> QED BY <1>1, SumOfPart
<1> HIDE DEF g
<1> QED BY <1>2, <1>3 DEF BalanceSum

LEMMA DebtSumIs ==
    ASSUME NEW rows \in [Notes -> NoteRow]
    PROVE  /\ Summable([n \in Notes |-> OfDebt(rows[n])], Notes)
           /\ SumFunctionOnSet([n \in Notes |-> CreditTotal(rows[n].credit)],
                               {n \in {m \in Notes : rows[m].status = "Finalized"} :
                                    rows[n].type = "DebtCancellation"})
                = DebtSum(rows)
<1> DEFINE f == [n \in Notes |-> CreditTotal(rows[n].credit)]
           T == {n \in {m \in Notes : rows[m].status = "Finalized"} :
                    rows[n].type = "DebtCancellation"}
           g == [n \in Notes |-> IF n \in T THEN f[n] ELSE 0]
<1>1. DOMAIN f = Notes /\ T \in SUBSET Notes /\ \A n \in T : f[n] \in Int
    BY CreditTotalType DEF NoteRow
<1>2. g = [n \in Notes |-> OfDebt(rows[n])]
    BY DEF OfDebt
<1>3. Summable(g, Notes) /\ SumFunctionOnSet(f, T) = SumFunctionOnSet(g, Notes)
    <2> HIDE DEF f, T
    <2> QED BY <1>1, SumOfPart
<1> HIDE DEF g
<1> QED BY <1>2, <1>3 DEF DebtSum

LEMMA CreditedIsLineSum ==
    NotesTypeOK => \A l \in Lines : AlreadyCredited(l) = LineSum(note, l)
<1> SUFFICES ASSUME NotesTypeOK, NEW l \in Lines
             PROVE  AlreadyCredited(l) = LineSum(note, l)
    OBVIOUS
<1>1. note \in [Notes -> NoteRow]
    BY DEF NotesTypeOK
<1> QED
    BY <1>1, LineSumIs DEF AlreadyCredited, SumOver, Live, SumFunctionOnSet

\* The same of the next state.
LEMMA CreditedIsLineSumNext ==
    (NotesTypeOK => \A l \in Lines : AlreadyCredited(l) = LineSum(note, l))'
    BY CreditedIsLineSum, PTL

LEMMA LineSumType ==
    ASSUME NEW rows \in [Notes -> NoteRow], NEW l \in Lines
    PROVE  LineSum(rows, l) \in Int
    BY LineSumIs, SumInt DEF LineSum

\* One row changes: the sums change by what it contributed and contributes.
LEMMA SumsChange ==
    ASSUME NEW old \in [Notes -> NoteRow], NEW new \in [Notes -> NoteRow], NEW n \in Notes,
           \A m \in Notes \ {n} : new[m] = old[m]
    PROVE  /\ \A l \in Lines :
                LineSum(new, l) = LineSum(old, l) + OfLine(new[n], l) - OfLine(old[n], l)
           /\ BalanceSum(new) = BalanceSum(old) + OfBalance(new[n]) - OfBalance(old[n])
           /\ DebtSum(new) = DebtSum(old) + OfDebt(new[n]) - OfDebt(old[n])
<1>1. ASSUME NEW l \in Lines
      PROVE  LineSum(new, l) = LineSum(old, l) + OfLine(new[n], l) - OfLine(old[n], l)
  <2> DEFINE f == [m \in Notes |-> OfLine(old[m], l)]
             g == [m \in Notes |-> OfLine(new[m], l)]
  <2>1. Summable(f, Notes) /\ Summable(g, Notes) /\ \A m \in Notes \ {n} : f[m] = g[m]
    BY LineSumIs
  <2>2. SumFunctionOnSet(g, Notes) = SumFunctionOnSet(f, Notes) + g[n] - f[n]
    <3> HIDE DEF f, g
    <3> QED BY <2>1, SumChange
  <2> QED BY <2>2 DEF LineSum
<1>2. BalanceSum(new) = BalanceSum(old) + OfBalance(new[n]) - OfBalance(old[n])
  <2> DEFINE f == [m \in Notes |-> OfBalance(old[m])]
             g == [m \in Notes |-> OfBalance(new[m])]
  <2>1. Summable(f, Notes) /\ Summable(g, Notes) /\ \A m \in Notes \ {n} : f[m] = g[m]
    BY BalanceSumIs
  <2>2. SumFunctionOnSet(g, Notes) = SumFunctionOnSet(f, Notes) + g[n] - f[n]
    <3> HIDE DEF f, g
    <3> QED BY <2>1, SumChange
  <2> QED BY <2>2 DEF BalanceSum
<1>3. DebtSum(new) = DebtSum(old) + OfDebt(new[n]) - OfDebt(old[n])
  <2> DEFINE f == [m \in Notes |-> OfDebt(old[m])]
             g == [m \in Notes |-> OfDebt(new[m])]
  <2>1. Summable(f, Notes) /\ Summable(g, Notes) /\ \A m \in Notes \ {n} : f[m] = g[m]
    BY DebtSumIs
  <2>2. SumFunctionOnSet(g, Notes) = SumFunctionOnSet(f, Notes) + g[n] - f[n]
    <3> HIDE DEF f, g
    <3> QED BY <2>1, SumChange
  <2> QED BY <2>2 DEF DebtSum
<1> QED BY <1>1, <1>2, <1>3

\* EffectsMatchNotes in these terms.
EffectsSum ==
    repeated = {} =>
        /\ balance + spent = InitialBalance + BalanceSum(note)
        /\ invoice.due = InvoiceTotal - AppliedCredits - paid - DebtSum(note)

LEMMA EffectsAreSums == NotesTypeOK => (EffectsMatchNotes <=> EffectsSum)
<1> SUFFICES ASSUME NotesTypeOK PROVE EffectsMatchNotes <=> EffectsSum
    OBVIOUS
<1>1. note \in [Notes -> NoteRow]
    BY DEF NotesTypeOK
<1> QED
    BY <1>1, BalanceSumIs, DebtSumIs DEF EffectsMatchNotes, EffectsSum, SumOver,
                                         SumFunctionOnSet

LEMMA EffectsAreSumsNext == (NotesTypeOK => (EffectsMatchNotes <=> EffectsSum))'
    BY EffectsAreSums, PTL

\* A row's place in the sums: who is not counted contributes nothing.
LEMMA SumsType ==
    ASSUME NEW rows \in [Notes -> NoteRow]
    PROVE  BalanceSum(rows) \in Int /\ DebtSum(rows) \in Int
    BY BalanceSumIs, DebtSumIs, SumInt DEF BalanceSum, DebtSum

-----------------------------------------------------------------------------
(* The amounts stay right.                                                 *)

\* A request that may credit something resolves to what is left or less.
LEMMA ResolvedFits ==
    ASSUME NotesTypeOK, LinesNotOvercredited, NEW cr \in Credit, Creditable(cr)
    PROVE  /\ Resolve(cr) \in Credit /\ Resolve(cr) # NoCredit
           /\ \A l \in Lines : Resolve(cr)[l] <= Remaining(l)
<1>1. \A l \in Lines : Remaining(l) \in Int /\ Remaining(l) >= 0
    BY RemainingType, NotesAssumption DEF LinesNotOvercredited, Remaining
<1>2. CASE cr = NoCredit
    BY <1>1, <1>2, RemainingType DEF Resolve, Creditable
<1>3. CASE cr # NoCredit
    <2>1. Resolve(cr) = cr
        BY <1>3 DEF Resolve
    <2>2. \A l \in Lines : cr[l] \in Nat /\ (cr[l] > 0 => cr[l] <= Remaining(l))
        BY DEF Credit, Creditable
    <2> QED BY <1>1, <1>3, <2>1, <2>2
<1> QED BY <1>2, <1>3

\* What is resolved stays what it is.
LEMMA ResolvedOnce ==
    ASSUME NEW cr, cr # NoCredit
    PROVE  Resolve(cr) = cr
    BY DEF Resolve

\* A note that leaves the count or stays as it is in it adds to no line.
LEMMA LinesNotMore ==
    ASSUME NotesTypeOK, NotesTypeOK', NEW n \in Notes,
           \A m \in Notes \ {n} : note'[m] = note[m],
           \/ note'[n].status \notin Counting
           \/ note[n].status \in Counting /\ note'[n].credit = note[n].credit
    PROVE  \A l \in Lines : /\ AlreadyCredited(l)' <= AlreadyCredited(l)
                            /\ AlreadyCredited(l)' \in Int
<1> SUFFICES ASSUME NEW l \in Lines
             PROVE  /\ AlreadyCredited(l)' <= AlreadyCredited(l)
                    /\ AlreadyCredited(l)' \in Int
    OBVIOUS
<1>1. note \in [Notes -> NoteRow] /\ note' \in [Notes -> NoteRow]
    BY DEF NotesTypeOK
<1>2. /\ AlreadyCredited(l) = LineSum(note, l)
      /\ AlreadyCredited(l)' = LineSum(note', l)
    BY CreditedIsLineSum, CreditedIsLineSumNext
<1>3. LineSum(note', l) = LineSum(note, l) + OfLine(note'[n], l) - OfLine(note[n], l)
    BY <1>1, SumsChange
<1>4. LineSum(note', l) \in Int /\ LineSum(note, l) \in Int
    BY <1>1, LineSumType
<1>5. OfLine(note'[n], l) \in Nat /\ OfLine(note[n], l) \in Nat
    BY <1>1, OfRowType
<1>6. OfLine(note'[n], l) <= OfLine(note[n], l)
    BY <1>5 DEF OfLine
<1> QED BY <1>2, <1>3, <1>4, <1>5, <1>6

\* Where no line is credited more, nothing is overcredited, and what a request
\* has reserved while it holds the invoice's row is still left.
LEMMA ReservedKept ==
    ASSUME NotesTypeOK, LinesNotOvercredited, CreditReserved,
           \A l \in Lines : /\ AlreadyCredited(l)' <= AlreadyCredited(l)
                            /\ AlreadyCredited(l)' \in Int,
           \A c \in Callers : invoiceLock' = c =>
                invoiceLock = c /\ call'[c].credit = call[c].credit
    PROVE  LinesNotOvercredited' /\ CreditReserved'
<1>1. \A l \in Lines : /\ Price[l] \in Int /\ AlreadyCredited(l) \in Int
                       /\ Remaining(l) = Price[l] - AlreadyCredited(l)
                       /\ Remaining(l)' = Price[l] - AlreadyCredited(l)'
    BY NotesAssumption, RemainingType DEF Remaining
<1>2. LinesNotOvercredited'
    <2> SUFFICES ASSUME NEW l \in Lines PROVE AlreadyCredited(l)' <= Price[l]
        BY DEF LinesNotOvercredited
    <2> QED BY <1>1 DEF LinesNotOvercredited
<1>3. CreditReserved'
    <2> SUFFICES ASSUME NEW c \in Callers, invoiceLock' = c
                 PROVE  /\ call'[c].credit # NoCredit
                        /\ \A l \in Lines : call'[c].credit[l] <= Remaining(l)'
        BY DEF CreditReserved
    <2>1. /\ call[c].credit # NoCredit /\ call'[c].credit = call[c].credit
          /\ \A l \in Lines : call[c].credit[l] <= Remaining(l)
        BY DEF CreditReserved
    <2>2. \A l \in Lines : call[c].credit[l] \in Nat
        BY DEF NotesTypeOK, Credit
    <2>3. ASSUME NEW l \in Lines PROVE call[c].credit[l] <= Remaining(l)'
        BY <1>1, <2>1, <2>2
    <2> QED BY <2>1, <2>3
<1> QED BY <1>2, <1>3

\* A note that is inserted credits no more than what was left.
LEMMA InsertedFits ==
    ASSUME NotesTypeOK, NotesTypeOK', NEW n \in Notes,
           \A m \in Notes \ {n} : note'[m] = note[m],
           note[n].status = "absent",
           \A l \in Lines : note'[n].credit[l] <= Remaining(l)
    PROVE  LinesNotOvercredited' \/ note'[n].status \notin Counting
<1> SUFFICES ASSUME note'[n].status \in Counting, NEW l \in Lines
             PROVE  AlreadyCredited(l)' <= Price[l]
    BY DEF LinesNotOvercredited
<1>1. note \in [Notes -> NoteRow] /\ note' \in [Notes -> NoteRow]
    BY DEF NotesTypeOK
<1>2. /\ AlreadyCredited(l) = LineSum(note, l)
      /\ AlreadyCredited(l)' = LineSum(note', l)
    BY CreditedIsLineSum, CreditedIsLineSumNext
<1>3. LineSum(note', l) = LineSum(note, l) + OfLine(note'[n], l) - OfLine(note[n], l)
    BY <1>1, SumsChange
<1>4. LineSum(note, l) \in Int /\ Price[l] \in Int
    BY <1>1, LineSumType, NotesAssumption
<1>5. OfLine(note[n], l) = 0 /\ OfLine(note'[n], l) = note'[n].credit[l]
    BY DEF OfLine, Counting
<1>6. note'[n].credit[l] \in Nat /\ note'[n].credit[l] <= Price[l] - AlreadyCredited(l)
    BY <1>1 DEF NoteRow, Credit, Remaining
<1> QED BY <1>2, <1>3, <1>4, <1>5, <1>6

\* Money that moves as the note does that changes with it.
LEMMA EffectsMove ==
    ASSUME NotesTypeOK, NotesTypeOK', EffectsMatchNotes, NEW n \in Notes,
           \A m \in Notes \ {n} : note'[m] = note[m],
           repeated' = {} =>
             /\ repeated = {}
             /\ balance' + spent' = balance + spent + OfBalance(note'[n]) - OfBalance(note[n])
             /\ invoice'.due + paid' = invoice.due + paid - OfDebt(note'[n]) + OfDebt(note[n])
    PROVE  EffectsMatchNotes'
<1>1. note \in [Notes -> NoteRow] /\ note' \in [Notes -> NoteRow]
    BY DEF NotesTypeOK
<1>2. EffectsSum
    BY EffectsAreSums
<1>3. /\ BalanceSum(note') = BalanceSum(note) + OfBalance(note'[n]) - OfBalance(note[n])
      /\ DebtSum(note') = DebtSum(note) + OfDebt(note'[n]) - OfDebt(note[n])
    BY <1>1, SumsChange
<1>4. /\ BalanceSum(note) \in Int /\ DebtSum(note) \in Int
      /\ OfBalance(note'[n]) \in Nat /\ OfBalance(note[n]) \in Nat
      /\ OfDebt(note'[n]) \in Nat /\ OfDebt(note[n]) \in Nat
    BY <1>1, SumsType, OfRowType
<1>5. /\ invoice.due \in Int /\ paid \in Int /\ balance \in Int /\ spent \in Int
      /\ invoice'.due \in Int /\ paid' \in Int /\ balance' \in Int /\ spent' \in Int
    BY DEF NotesTypeOK
<1>6. InitialBalance \in Int /\ InvoiceTotal \in Int /\ AppliedCredits \in Int
    BY NotesAssumption, InvoiceTotalType
<1>7. EffectsSum'
    <2> DEFINE total == InvoiceTotal
    <2> SUFFICES ASSUME repeated' = {}
                 PROVE  /\ balance' + spent' = InitialBalance + BalanceSum(note')
                        /\ invoice'.due = total - AppliedCredits - paid' - DebtSum(note')
        BY DEF EffectsSum
    <2>1. /\ balance + spent = InitialBalance + BalanceSum(note)
          /\ invoice.due = total - AppliedCredits - paid - DebtSum(note)
        BY <1>2 DEF EffectsSum
    <2>2. total \in Int
        BY <1>6
    <2> HIDE DEF total
    <2> QED BY <1>3, <1>4, <1>5, <1>6, <2>1, <2>2
<1> QED BY <1>7, EffectsAreSumsNext

\* Money that moves while the notes stay as they are.
LEMMA EffectsStay ==
    ASSUME NotesTypeOK, NotesTypeOK', EffectsMatchNotes, UNCHANGED note,
           repeated' = {} =>
             /\ repeated = {}
             /\ balance' + spent' = balance + spent
             /\ invoice'.due + paid' = invoice.due + paid
    PROVE  EffectsMatchNotes'
<1>1. EffectsSum
    BY EffectsAreSums
<1>2. note \in [Notes -> NoteRow] /\ DebtSum(note) \in Int
    BY SumsType DEF NotesTypeOK
<1>3. invoice.due \in Int /\ paid \in Int /\ invoice'.due \in Int /\ paid' \in Int
    BY DEF NotesTypeOK
<1>4. InvoiceTotal \in Int /\ AppliedCredits \in Int
    BY NotesAssumption, InvoiceTotalType
<1>5. EffectsSum'
    <2> DEFINE total == InvoiceTotal
    <2> SUFFICES ASSUME repeated' = {}
                 PROVE  /\ balance' + spent' = InitialBalance + BalanceSum(note')
                        /\ invoice'.due = total - AppliedCredits - paid' - DebtSum(note')
        BY DEF EffectsSum
    <2>1. /\ balance + spent = InitialBalance + BalanceSum(note)
          /\ invoice.due = total - AppliedCredits - paid - DebtSum(note)
        BY <1>1 DEF EffectsSum
    <2>2. total \in Int
        BY <1>4
    <2> DEFINE debt == DebtSum(note)
    <2>3. debt \in Int /\ DebtSum(note') = debt /\ BalanceSum(note') = BalanceSum(note)
        BY <1>2
    <2>4. invoice.due = total - AppliedCredits - paid - debt
        BY <2>1
    <2> HIDE DEF total, debt
    <2>5. invoice'.due = total - AppliedCredits - paid' - debt
        BY <1>3, <1>4, <2>2, <2>3, <2>4
    <2> QED BY <2>1, <2>3, <2>5
<1> QED BY <1>5, EffectsAreSumsNext

\* What the other notes give back is as computed if it was.
LEMMA ComputedKept ==
    ASSUME CreditedComputed, NEW n \in Notes,
           \A m \in Notes \ {n} : note'[m] = note[m],
           note'[n].status \in Counting =>
                note'[n].credited = CreditedAmount(note'[n].type, CreditTotal(note'[n].credit))
    PROVE  CreditedComputed'
    BY DEF CreditedComputed, Live, Counting

\* A step that moves no money and changes no note, by a request that does not
\* come to hold the invoice's row.
LEMMA AmountsFrame ==
    ASSUME AmountsInv, NotesTypeOK', RequestsSound',
           UNCHANGED note,
           \A c \in Callers : invoiceLock' = c =>
                invoiceLock = c /\ call'[c].credit = call[c].credit,
           EffectsMatchNotes'
    PROVE  AmountsInv'
<1>1. \A l \in Lines : /\ AlreadyCredited(l)' <= AlreadyCredited(l)
                       /\ AlreadyCredited(l)' \in Int
    <2> SUFFICES ASSUME NEW l \in Lines
                 PROVE  /\ AlreadyCredited(l)' <= AlreadyCredited(l)
                        /\ AlreadyCredited(l)' \in Int
        OBVIOUS
    <2>1. AlreadyCredited(l) = LineSum(note, l) /\ AlreadyCredited(l)' = LineSum(note', l)
        BY CreditedIsLineSum, CreditedIsLineSumNext DEF AmountsInv
    <2>2. AlreadyCredited(l) \in Int
        BY RemainingType DEF AmountsInv
    <2> QED BY <2>1, <2>2
<1>2. LinesNotOvercredited' /\ CreditReserved'
    BY <1>1, ReservedKept DEF AmountsInv
<1>3. CreditedComputed'
    BY DEF AmountsInv, CreditedComputed, Live
<1> QED BY <1>2, <1>3 DEF AmountsInv

\* A row a request inserts gives back what follows from what it credits.
LEMMA NewRowComputed ==
    ASSUME NotesTypeOK, NEW c \in Callers, NEW status, NEW number
    PROVE  LET row == NewRow(c, status, number) IN
           /\ row.credit = Resolve(call[c].credit) /\ row.status = status
           /\ row.type = call[c].type
           /\ row.credited = CreditedAmount(row.type, CreditTotal(row.credit))
    BY DEF NewRow

\* The free id belongs to a note that does not exist yet.
LEMMA NextNoteAbsent == NotesLeft => NextNote \in Notes /\ note[NextNote].status = "absent"
    BY DEF NotesLeft, NextNote

LEMMA AmountsInit == NotesInit => AmountsInv
<1> SUFFICES ASSUME NotesInit PROVE AmountsInv
    OBVIOUS
<1>1. NotesTypeOK /\ RequestsSound
    BY TypesInit
<1>2. \A n \in Notes : note[n].status = "absent"
    BY DEF NotesInit, Absent
<1>3. note \in [Notes -> NoteRow]
    BY <1>1 DEF NotesTypeOK
<1>4. CreditedComputed
    BY <1>2 DEF CreditedComputed, Live
<1>5. LinesNotOvercredited
    <2> SUFFICES ASSUME NEW l \in Lines PROVE AlreadyCredited(l) <= Price[l]
        BY DEF LinesNotOvercredited
    <2> DEFINE f == [n \in Notes |-> OfLine(note[n], l)]
    <2>1. Summable(f, Notes)
        BY <1>3, LineSumIs
    <2>2. \A n \in Notes : f[n] = 0
        BY <1>2 DEF OfLine, Counting
    <2>3. SumFunctionOnSet(f, Notes) = 0
        <3> HIDE DEF f
        <3> QED BY <2>1, <2>2, SumZero
    <2>4. AlreadyCredited(l) = 0
        BY <1>1, <2>3, CreditedIsLineSum DEF LineSum
    <2> QED BY <2>4, NotesAssumption
<1>6. CreditReserved
    BY NotesAssumption DEF NotesInit, CreditReserved
<1>7. EffectsMatchNotes
    <2> DEFINE f == [n \in Notes |-> OfBalance(note[n])]
               g == [n \in Notes |-> OfDebt(note[n])]
    <2>1. Summable(f, Notes) /\ Summable(g, Notes)
        BY <1>3, BalanceSumIs, DebtSumIs
    <2>2. \A n \in Notes : f[n] = 0 /\ g[n] = 0
        BY <1>2 DEF OfBalance, OfDebt
    <2>3. SumFunctionOnSet(f, Notes) = 0 /\ SumFunctionOnSet(g, Notes) = 0
        <3> HIDE DEF f, g
        <3> QED BY <2>1, <2>2, SumZero
    <2>4. BalanceSum(note) = 0 /\ DebtSum(note) = 0
        BY <2>3 DEF BalanceSum, DebtSum
    <2>5. EffectsSum
        <3> DEFINE total == InvoiceTotal
        <3>1. /\ balance = InitialBalance /\ spent = 0 /\ paid = 0
              /\ invoice.due = total - AppliedCredits
            BY DEF NotesInit
        <3>2. total \in Int
            BY InvoiceTotalType
        <3> HIDE DEF total
        <3>3. /\ balance + spent = InitialBalance + 0
              /\ invoice.due = total - AppliedCredits - paid - 0
            BY <3>1, <3>2, NotesAssumption
        <3> QED BY <2>4, <3>3 DEF EffectsSum, total
    <2> QED BY <1>1, <2>5, EffectsAreSums
<1> QED BY <1>1, <1>4, <1>5, <1>6, <1>7 DEF AmountsInv

\* A note that is inserted, as a draft or finalized, keeps the amounts right if
\* it credits no more than is left and its effects are applied.
LEMMA InsertKeeps ==
    ASSUME AmountsInv, NotesTypeOK', RequestsSound', NEW c \in Callers, NotesLeft,
           NEW status \in Counting, NEW number,
           note' = [note EXCEPT ![NextNote] = NewRow(c, status, number)],
           \A l \in Lines : Resolve(call[c].credit)[l] <= Remaining(l),
           invoiceLock' = NoCaller,
           repeated' = {} =>
             LET row == NewRow(c, status, number) IN
             /\ repeated = {}
             /\ balance' + spent' = balance + spent + OfBalance(row)
             /\ invoice'.due + paid' = invoice.due + paid - OfDebt(row)
    PROVE  AmountsInv'
<1> DEFINE row == NewRow(c, status, number)
<1>1. NextNote \in Notes /\ note[NextNote].status = "absent"
    BY NextNoteAbsent
<1>2. /\ row.credit = Resolve(call[c].credit) /\ row.status = status
      /\ row.credited = CreditedAmount(row.type, CreditTotal(row.credit))
    BY NewRowComputed DEF AmountsInv
<1> HIDE DEF row
<1>3. /\ note'[NextNote] = row
      /\ \A m \in Notes \ {NextNote} : note'[m] = note[m]
    BY <1>1 DEF AmountsInv, NotesTypeOK, row
<1>4. LinesNotOvercredited'
    BY <1>1, <1>2, <1>3, InsertedFits DEF AmountsInv
<1>5. CreditReserved'
    BY NotesAssumption DEF CreditReserved
<1>6. CreditedComputed'
    BY <1>1, <1>2, <1>3, ComputedKept DEF AmountsInv
<1>7. OfBalance(note[NextNote]) = 0 /\ OfDebt(note[NextNote]) = 0
    BY <1>1 DEF OfBalance, OfDebt
<1>8. EffectsMatchNotes'
    <2>1. OfBalance(row) \in Nat /\ OfDebt(row) \in Nat
        BY <1>1, <1>3, OfRowType DEF NotesTypeOK
    <2>2. balance \in Int /\ spent \in Int /\ invoice.due \in Int /\ paid \in Int
        BY DEF AmountsInv, NotesTypeOK
    <2>3. repeated' = {} =>
             /\ repeated = {}
             /\ balance' + spent' = balance + spent + OfBalance(row) - 0
             /\ invoice'.due + paid' = invoice.due + paid - OfDebt(row) + 0
        BY <2>1, <2>2 DEF row
    <2> QED BY <1>1, <1>3, <1>7, <2>3, EffectsMove DEF AmountsInv
<1> QED BY <1>4, <1>5, <1>6, <1>8 DEF AmountsInv

\* A note that is finalized, voided or deleted keeps the amounts right if its
\* effects are applied or reversed.
LEMMA ChangeKeeps ==
    ASSUME AmountsInv, NotesTypeOK', RequestsSound', NEW n \in Notes,
           \A m \in Notes \ {n} : note'[m] = note[m],
           \/ note'[n].status \notin Counting
           \/ /\ note[n].status \in Counting
              /\ note'[n].credit = note[n].credit /\ note'[n].type = note[n].type
              /\ note'[n].credited = note[n].credited,
           \A c \in Callers : invoiceLock' = c =>
                invoiceLock = c /\ call'[c].credit = call[c].credit,
           repeated' = {} =>
             /\ repeated = {}
             /\ balance' + spent' = balance + spent + OfBalance(note'[n]) - OfBalance(note[n])
             /\ invoice'.due + paid' = invoice.due + paid - OfDebt(note'[n]) + OfDebt(note[n])
    PROVE  AmountsInv'
<1>1. \A l \in Lines : /\ AlreadyCredited(l)' <= AlreadyCredited(l)
                       /\ AlreadyCredited(l)' \in Int
    BY LinesNotMore DEF AmountsInv
<1>2. LinesNotOvercredited' /\ CreditReserved'
    BY <1>1, ReservedKept DEF AmountsInv
<1>3. CreditedComputed'
    <2>1. note[n].status \in Counting =>
            note[n].credited = CreditedAmount(note[n].type, CreditTotal(note[n].credit))
        BY DEF AmountsInv, CreditedComputed, Live, Counting
    <2>2. note'[n].status \in Counting =>
            note'[n].credited = CreditedAmount(note'[n].type, CreditTotal(note'[n].credit))
        BY <2>1
    <2> QED BY <2>2, ComputedKept DEF AmountsInv
<1>4. EffectsMatchNotes'
    BY EffectsMove DEF AmountsInv
<1> QED BY <1>2, <1>3, <1>4 DEF AmountsInv

\* The effects of a note on the amount due: a DebtCancellation reduces it.
LEMMA ApplyDue ==
    ASSUME NotesTypeOK, NEW row \in NoteRow, row.status = "Finalized",
           ApplyToInvoice(row.type, CreditTotal(row.credit)), UNCHANGED paid
    PROVE  invoice'.due + paid' = invoice.due + paid - OfDebt(row)
<1> DEFINE amount == CreditTotal(row.credit)
<1>1. amount \in Int /\ invoice \in InvoiceRows /\ invoice.due \in Int /\ paid \in Int
    BY CreditTotalType DEF NotesTypeOK, NoteRow, InvoiceRows
<1>2. OfDebt(row) = IF row.type = "DebtCancellation" THEN amount ELSE 0
    BY DEF OfDebt
<1>3. invoice'.due = IF row.type = "DebtCancellation" THEN invoice.due - amount
                     ELSE invoice.due
    BY <1>1 DEF ApplyToInvoice, InvoiceRows
<1> HIDE DEF amount
<1> QED BY <1>1, <1>2, <1>3

\* And voiding it gives the debt back.
LEMMA RevertDue ==
    ASSUME NotesTypeOK, NEW row \in NoteRow, row.status = "Finalized",
           RevertFromInvoice(row.type, CreditTotal(row.credit)), UNCHANGED paid
    PROVE  invoice'.due + paid' = invoice.due + paid + OfDebt(row)
<1> DEFINE amount == CreditTotal(row.credit)
<1>1. amount \in Int /\ invoice \in InvoiceRows /\ invoice.due \in Int /\ paid \in Int
    BY CreditTotalType DEF NotesTypeOK, NoteRow, InvoiceRows
<1>2. OfDebt(row) = IF row.type = "DebtCancellation" THEN amount ELSE 0
    BY DEF OfDebt
<1>3. invoice'.due = IF row.type = "DebtCancellation" THEN invoice.due + amount
                     ELSE invoice.due
    BY <1>1 DEF RevertFromInvoice, InvoiceRows
<1> HIDE DEF amount
<1> QED BY <1>1, <1>2, <1>3

\* A request whose step is not one that holds the invoice's row leaves the
\* reservation of whoever holds it.
LEMMA HoldersKept ==
    ASSUME IInv, NEW c \in Callers, NEW rec, call' = [call EXCEPT ![c] = rec],
           \/ UNCHANGED invoiceLock /\ (invoiceLock # c \/ rec.credit = call[c].credit)
           \/ Release(c)
    PROVE  \A d \in Callers : invoiceLock' = d =>
                invoiceLock = d /\ call'[d].credit = call[d].credit
<1>1. /\ call'[c] = rec
      /\ \A d \in Callers \ {c} : call'[d] = call[d]
    BY DEF IInv, Shapes
<1> QED BY <1>1, NotesAssumption DEF Release

\* Every step of a request, of a settlement and of the balance's other users
\* keeps the amounts right.
LEMMA AmountsStep == IInv /\ AmountsInv /\ [NotesNext]_notesVars => AmountsInv'
<1> SUFFICES ASSUME IInv, AmountsInv, [NotesNext]_notesVars PROVE AmountsInv'
    OBVIOUS
<1> USE NotesAssumption
<1>0. NotesTypeOK' /\ RequestsSound'
    BY TypesStep DEF AmountsInv
<1>t. /\ NotesTypeOK /\ RequestsSound /\ LinesNotOvercredited /\ EffectsMatchNotes
      /\ balance \in Int /\ spent \in Int /\ paid \in Int /\ invoice.due \in Int
    BY DEF AmountsInv, NotesTypeOK
<1>q. ASSUME UNCHANGED <<note, invoice, paid, balance, spent, repeated>>,
             \A c \in Callers : invoiceLock' = c =>
                invoiceLock = c /\ call'[c].credit = call[c].credit
      PROVE  AmountsInv'
    BY <1>0, <1>t, <1>q, EffectsStay, AmountsFrame
<1>1. ASSUME NEW c \in Callers, CreateReads(c) \/ VoidInvoiceRead(c) PROVE AmountsInv'
  <2>1. \E rec : call' = [call EXCEPT ![c] = rec]
    BY <1>1, Zenon DEF CreateReads, CreateRead, VoidInvoiceRead, Become
  <2>2. /\ UNCHANGED <<note, invoice, paid, balance, spent, repeated, invoiceLock>>
        /\ call[c].step = "idle"
    BY <1>1 DEF CreateReads, CreateRead, VoidInvoiceRead, lockVars
  <2>3. invoiceLock # c
    BY <2>2 DEF IInv, LockHolders
  <2> QED BY <1>q, <2>1, <2>2, <2>3, HoldersKept
<1>2. ASSUME NEW c \in Callers, NEW n \in Notes, FinalizeRead(c, n) \/ VoidRead(c, n)
      PROVE  AmountsInv'
  <2>1. \E rec : call' = [call EXCEPT ![c] = rec]
    BY <1>2, Zenon DEF FinalizeRead, VoidRead, Become
  <2>2. /\ UNCHANGED <<note, invoice, paid, balance, spent, repeated, invoiceLock>>
        /\ call[c].step = "idle"
    BY <1>2 DEF FinalizeRead, VoidRead, lockVars
  <2>3. invoiceLock # c
    BY <2>2 DEF IInv, LockHolders
  <2> QED BY <1>q, <2>1, <2>2, <2>3, HoldersKept
<1>3. ASSUME NEW c \in Callers,
             \/ CreateRefused(c) \/ VoidRefused(c)
             \/ IssueRefused(c) \/ FinalizeGone(c) \/ DeadlockVictim(c) \/ Crash(c)
      PROVE  AmountsInv'
  <2>1. /\ call' = [call EXCEPT ![c] = Waiting]
        /\ UNCHANGED invoiceLock \/ Release(c)
        /\ UNCHANGED <<note, invoice, paid, balance, spent, repeated>>
    BY <1>3 DEF CreateRefused, VoidRefused, IssueRefused, FinalizeGone, DeadlockVictim, Crash,
                Finish, Become, lockVars
  <2>2. UNCHANGED invoiceLock => invoiceLock # c \/ Release(c)
    BY <1>3 DEF CreateRefused, VoidRefused, IssueRefused, FinalizeGone, DeadlockVictim, Crash,
                Free, IInv, LockHolders
  <2> QED BY <1>q, <2>1, <2>2, HoldersKept
<1>4. ASSUME NEW c \in Callers, CreateDraft(c) PROVE AmountsInv'
  <2>1. /\ NotesLeft /\ Creditable(call[c].credit) /\ invoiceLock' = NoCaller
        /\ note' = [note EXCEPT ![NextNote] = NewRow(c, "Draft", 0)]
        /\ UNCHANGED <<invoice, paid, balance, spent, repeated>>
    BY <1>4 DEF CreateDraft, Refused, Free, lockVars
  <2>2. \A l \in Lines : Resolve(call[c].credit)[l] <= Remaining(l)
    BY <1>t, <2>1, ResolvedFits DEF NotesTypeOK
  <2> DEFINE row == NewRow(c, "Draft", 0)
  <2>3. OfBalance(row) = 0 /\ OfDebt(row) = 0
    BY DEF NewRow, OfBalance, OfDebt
  <2>4. /\ balance' + spent' = balance + spent + OfBalance(row)
        /\ invoice'.due + paid' = invoice.due + paid - OfDebt(row)
        /\ repeated' = repeated
    <3> HIDE DEF row
    <3> QED BY <1>t, <2>1, <2>3
  <2>5. "Draft" \in Counting
    BY DEF Counting
  <2> QED BY <1>0, <2>1, <2>2, <2>4, <2>5, InsertKeeps
<1>5. ASSUME NEW c \in Callers, IssueLock(c) PROVE AmountsInv'
  <2> DEFINE cr == Resolve(call[c].credit)
             rec == [call[c] EXCEPT !.step = "entity", !.credit = cr]
  <2>1. /\ call' = [call EXCEPT ![c] = rec] /\ invoiceLock' = c
        /\ Creditable(call[c].credit)
        /\ UNCHANGED <<note, invoice, paid, balance, spent, repeated>>
    BY <1>5 DEF IssueLock, Become, Refused
  <2>2. /\ cr # NoCredit
        /\ \A l \in Lines : cr[l] <= Remaining(l)
    BY <1>t, <2>1, ResolvedFits DEF NotesTypeOK
  <2>3. rec.credit = cr
    BY <1>t DEF NotesTypeOK
  <2> HIDE DEF cr, rec
  <2>4. call'[c].credit = cr
    BY <1>t, <2>1, <2>3 DEF NotesTypeOK
  <2>5. \A l \in Lines : Remaining(l)' = Remaining(l)
    BY <1>0, <1>t, <2>1, CreditedIsLineSum, CreditedIsLineSumNext DEF Remaining
  <2>6. CreditReserved'
    BY <2>1, <2>2, <2>4, <2>5 DEF CreditReserved
  <2>7. LinesNotOvercredited'
    BY <1>0, <1>t, <2>1, CreditedIsLineSum, CreditedIsLineSumNext DEF LinesNotOvercredited
  <2>8. CreditedComputed'
    BY <2>1 DEF AmountsInv, CreditedComputed, Live
  <2>9. EffectsMatchNotes'
    BY <1>0, <1>t, <2>1, EffectsStay
  <2> QED BY <1>0, <2>6, <2>7, <2>8, <2>9 DEF AmountsInv
<1>6. ASSUME NEW c \in Callers, IssueCommit(c) PROVE AmountsInv'
  <2> DEFINE row == NewRow(c, "Finalized", nextNumber)
             rows == [note EXCEPT ![NextNote] = row]
  <2>1. /\ NotesLeft /\ note' = rows /\ invoiceLock = c /\ Release(c)
        /\ balance' = balance + rows[NextNote].credited
        /\ \/ /\ call[c].op = "voidInvoice"
              /\ invoice' = [invoice EXCEPT !.status = "Void"]
           \/ ApplyToInvoice(rows[NextNote].type, CreditTotal(rows[NextNote].credit))
        /\ UNCHANGED <<paid, spent, repeated>>
    BY <1>6, Zenon DEF IssueCommit
  <2>2. NextNote \in Notes
    BY <2>1, NextNoteAbsent
  <2>3. row \in NoteRow /\ row.status = "Finalized" /\ row.type = call[c].type
    BY <1>t, NewRowType, NewRowComputed DEF NoteStatus, NotesTypeOK
  <2>4. rows[NextNote] = row
    BY <1>t, <2>2 DEF NotesTypeOK
  <2>5. \A l \in Lines : Resolve(call[c].credit)[l] <= Remaining(l)
    BY <2>1, ResolvedOnce DEF AmountsInv, CreditReserved
  <2>6. invoiceLock' = NoCaller
    BY <2>1 DEF Release
  <2>7. "Finalized" \in Counting
    BY DEF Counting
  <2>8. balance' + spent' = balance + spent + OfBalance(row)
    <3> HIDE DEF row, rows
    <3>1. OfBalance(row) = row.credited /\ row.credited \in Int
      BY <2>3 DEF OfBalance, NoteRow
    <3> QED BY <1>t, <2>1, <2>4, <3>1
  <2>9. invoice'.due + paid' = invoice.due + paid - OfDebt(row)
    <3> HIDE DEF row, rows
    <3>1. CASE call[c].op = "voidInvoice" /\ invoice' = [invoice EXCEPT !.status = "Void"]
      <4>1. row.type = "CreditToBalance"
        BY <1>t, <2>3, <3>1 DEF RequestsSound
      <4>2. OfDebt(row) = 0
        BY <4>1 DEF OfDebt
      <4>3. invoice'.due = invoice.due
        BY <1>t, <3>1 DEF NotesTypeOK
      <4> QED BY <1>t, <2>1, <4>2, <4>3
    <3>2. CASE ApplyToInvoice(row.type, CreditTotal(row.credit))
      BY <1>t, <2>1, <2>3, <3>2, ApplyDue
    <3> QED BY <2>1, <2>4, <3>1, <3>2
  <2> QED BY <1>0, <2>1, <2>5, <2>6, <2>7, <2>8, <2>9, InsertKeeps
<1>7. ASSUME NEW c \in Callers, FinalizeLock(c) PROVE AmountsInv'
  <2>1. /\ \E rec : call' = [call EXCEPT ![c] = rec]
        /\ UNCHANGED <<note, invoice, paid, balance, spent, repeated, invoiceLock>>
        /\ call[c].op = "finalize"
    BY <1>7, Zenon DEF FinalizeLock, Become
  <2>2. invoiceLock # c
    BY <2>1 DEF IInv, LockHolders
  <2> QED BY <1>q, <2>1, <2>2, HoldersKept
<1>8. ASSUME NEW c \in Callers, FinalizeCommit(c) PROVE AmountsInv'
  <2> DEFINE n == call[c].note
  <2>1. n \in Notes
    BY <1>8, <1>t DEF RequestsSound, FinalizeCommit
  <2>2. /\ balance' = balance + note[n].credited
        /\ ApplyToInvoice(note[n].type, CreditTotal(note[n].credit))
        /\ call' = [call EXCEPT ![c] = Waiting] /\ Release(c)
        /\ UNCHANGED <<paid, spent>>
    BY <1>8 DEF FinalizeCommit, Finish, Become
  <2>3. \A d \in Callers : invoiceLock' = d =>
            invoiceLock = d /\ call'[d].credit = call[d].credit
    BY <2>2, HoldersKept
  <2>4. CASE note[n].status = "Draft"
    <3>1. /\ note' = [note EXCEPT ![n].status = "Finalized", ![n].number = call[c].number]
          /\ UNCHANGED repeated
      BY <1>8, <2>4 DEF FinalizeCommit
    <3> HIDE DEF n
    <3>2. note[n] \in NoteRow /\ note \in [Notes -> NoteRow]
      BY <1>t, <2>1 DEF NotesTypeOK
    <3>3. /\ \A m \in Notes \ {n} : note'[m] = note[m]
          /\ note'[n].status = "Finalized" /\ note'[n].credit = note[n].credit
          /\ note'[n].type = note[n].type /\ note'[n].credited = note[n].credited
      BY <2>1, <3>1, <3>2 DEF NoteRow
    <3>4. OfBalance(note[n]) = 0 /\ OfDebt(note[n]) = 0
      BY <2>4 DEF OfBalance, OfDebt
    <3>5. note'[n] \in NoteRow
      BY <1>0, <2>1 DEF NotesTypeOK
    <3>6. OfBalance(note'[n]) = note[n].credited /\ note[n].credited \in Int
      BY <3>2, <3>3 DEF OfBalance, NoteRow
    <3>7. balance' + spent' = balance + spent + OfBalance(note'[n]) - OfBalance(note[n])
      BY <1>t, <2>2, <3>4, <3>6
    <3>8. invoice'.due + paid' = invoice.due + paid - OfDebt(note'[n])
      BY <1>t, <2>2, <3>3, <3>5, ApplyDue
    <3>9. OfDebt(note'[n]) \in Int /\ OfDebt(note[n]) \in Int
      BY <3>4, <3>5, OfRowType
    <3>10. invoice'.due + paid' = invoice.due + paid - OfDebt(note'[n]) + OfDebt(note[n])
      BY <1>t, <3>4, <3>8, <3>9
    <3>11. note[n].status \in Counting
      BY <2>4 DEF Counting
    <3> QED BY <1>0, <2>1, <2>3, <3>1, <3>3, <3>7, <3>10, <3>11, ChangeKeeps
  <2>5. CASE note[n].status # "Draft"
    <3>1. UNCHANGED note /\ repeated' # {}
      BY <1>8, <2>5 DEF FinalizeCommit
    <3>2. EffectsMatchNotes'
      BY <1>0, <1>t, <3>1, EffectsStay
    <3> QED BY <1>0, <2>3, <3>1, <3>2, AmountsFrame
  <2> QED BY <2>4, <2>5
<1>9. ASSUME NEW c \in Callers, VoidCommit(c) PROVE AmountsInv'
  <2> DEFINE n == call[c].note
  <2>1. n \in Notes
    BY <1>9, <1>t DEF RequestsSound, VoidCommit
  <2>2. /\ balance' = balance - note[n].credited
        /\ RevertFromInvoice(note[n].type, CreditTotal(note[n].credit))
        /\ call' = [call EXCEPT ![c] = Waiting] /\ call[c].step = "apply"
        /\ UNCHANGED <<paid, spent, invoiceLock>>
    BY <1>9 DEF VoidCommit, Finish, Become, lockVars
  <2>3. \A d \in Callers : invoiceLock' = d =>
            invoiceLock = d /\ call'[d].credit = call[d].credit
    <3>1. invoiceLock # c
      BY <2>2 DEF IInv, LockHolders
    <3> QED BY <2>2, <3>1, HoldersKept
  <2>4. CASE note[n].status = "Finalized"
    <3>1. note' = [note EXCEPT ![n].status = "Voided"] /\ UNCHANGED repeated
      BY <1>9, <2>4 DEF VoidCommit
    <3> HIDE DEF n
    <3>2. note[n] \in NoteRow /\ note \in [Notes -> NoteRow]
      BY <1>t, <2>1 DEF NotesTypeOK
    <3>3. /\ \A m \in Notes \ {n} : note'[m] = note[m]
          /\ note'[n].status = "Voided"
      BY <2>1, <3>1, <3>2 DEF NoteRow
    <3>4. OfBalance(note'[n]) = 0 /\ OfDebt(note'[n]) = 0 /\ note'[n].status \notin Counting
      BY <3>3 DEF OfBalance, OfDebt, Counting
    <3>5. OfBalance(note[n]) = note[n].credited /\ note[n].credited \in Int
      BY <2>4, <3>2 DEF OfBalance, NoteRow
    <3>6. balance' + spent' = balance + spent + OfBalance(note'[n]) - OfBalance(note[n])
      BY <1>t, <2>2, <3>4, <3>5
    <3>7. invoice'.due + paid' = invoice.due + paid + OfDebt(note[n])
      BY <1>t, <2>2, <2>4, <3>2, RevertDue
    <3>8. OfDebt(note[n]) \in Int
      BY <3>2, OfRowType
    <3>9. invoice'.due + paid' = invoice.due + paid - OfDebt(note'[n]) + OfDebt(note[n])
      BY <1>t, <3>4, <3>7, <3>8
    <3> QED BY <1>0, <2>1, <2>3, <3>1, <3>3, <3>4, <3>6, <3>9, ChangeKeeps
  <2>5. CASE note[n].status # "Finalized"
    <3>1. UNCHANGED note /\ repeated' # {}
      BY <1>9, <2>5 DEF VoidCommit
    <3>2. EffectsMatchNotes'
      BY <1>0, <1>t, <3>1, EffectsStay
    <3> QED BY <1>0, <2>3, <3>1, <3>2, AmountsFrame
  <2> QED BY <2>4, <2>5
<1>10. ASSUME NEW n \in Notes, DeleteDraft(n) PROVE AmountsInv'
  <2>1. /\ note' = [note EXCEPT ![n] = [Absent EXCEPT !.status = "deleted"]]
        /\ note[n].status = "Draft"
        /\ UNCHANGED <<invoice, paid, balance, spent, repeated, invoiceLock, call>>
    BY <1>10 DEF DeleteDraft, lockVars
  <2>2. /\ \A m \in Notes \ {n} : note'[m] = note[m]
        /\ note'[n].status = "deleted"
    BY <1>t, <2>1 DEF NotesTypeOK, Absent
  <2>3. /\ OfBalance(note'[n]) = 0 /\ OfDebt(note'[n]) = 0 /\ note'[n].status \notin Counting
        /\ OfBalance(note[n]) = 0 /\ OfDebt(note[n]) = 0
    BY <2>1, <2>2 DEF OfBalance, OfDebt, Counting
  <2>4. /\ balance' + spent' = balance + spent + OfBalance(note'[n]) - OfBalance(note[n])
        /\ invoice'.due + paid' = invoice.due + paid - OfDebt(note'[n]) + OfDebt(note[n])
    BY <1>t, <2>1, <2>3
  <2> QED BY <1>0, <2>1, <2>2, <2>3, <2>4, ChangeKeeps
<1>11. ASSUME NEW a \in 1 .. InvoiceTotal, Settle(a) \/ SpendBalance(a) PROVE AmountsInv'
  <2>1. a \in Int
    BY InvoiceTotalType
  <2>2. UNCHANGED <<note, repeated, invoiceLock, call>>
    BY <1>11 DEF Settle, SpendBalance, lockVars
  <2>3. balance' + spent' = balance + spent /\ invoice'.due + paid' = invoice.due + paid
    <3>1. CASE Settle(a)
      <4>1. invoice \in InvoiceRows
        BY <1>t DEF NotesTypeOK, InvoiceRows
      <4>2. invoice'.due = invoice.due - a /\ paid' = paid + a /\ UNCHANGED <<balance, spent>>
        BY <3>1, <4>1 DEF Settle, InvoiceRows
      <4> QED BY <1>t, <2>1, <4>2
    <3>2. CASE SpendBalance(a)
      <4>1. balance' = balance - a /\ spent' = spent + a /\ UNCHANGED <<invoice, paid>>
        BY <3>2 DEF SpendBalance
      <4> QED BY <1>t, <2>1, <4>1
    <3> QED BY <1>11, <3>1, <3>2
  <2>4. EffectsMatchNotes'
    BY <1>0, <1>t, <2>2, <2>3, EffectsStay
  <2> QED BY <1>0, <2>2, <2>4, AmountsFrame
<1>12. CASE CorrectInvoice \/ UNCHANGED notesVars
    BY <1>12, <1>q DEF CorrectInvoice, notesVars, lockVars
<1> QED
  <2>1. CASE \E c \in Callers : CallerStep(c)
    BY <2>1, <1>1, <1>2, <1>3, <1>4, <1>5, <1>6, <1>7, <1>8, <1>9, Zenon DEF CallerStep
  <2> QED BY <2>1, <1>10, <1>11, <1>12 DEF NotesNext

LEMMA AmountsAlways == NotesSpec => []AmountsInv
    BY InitShapes, StepPreserves, AmountsInit, AmountsStep, PTL DEF NotesSpec

\* The variables of credit notes keep their types: the balance never becomes
\* negative, and amounts stay amounts of the invoice's lines.
THEOREM NotesTypeCorrect == NotesSpec => []NotesTypeOK
    BY AmountsAlways, PTL DEF AmountsInv

\* However many requests create, issue, void and delete credit notes of an
\* invoice at once, no line of it is credited for more than its amount.
THEOREM LinesStayCovered == NotesSpec => []LinesNotOvercredited
    BY AmountsAlways, PTL DEF AmountsInv

\* As long as no request has finalized or voided a note again after another
\* one did, the balance and the amount due are what the finalized notes, the
\* settlements and the credits consumed account for.
THEOREM EffectsStayMatched == NotesSpec => []EffectsMatchNotes
    BY AmountsAlways, PTL DEF AmountsInv

-----------------------------------------------------------------------------
(* The payment status follows the amount due.                              *)

LEMMA PaymentMatchesStep ==
    NotesTypeOK /\ RequestsSound /\ PaymentMatchesDue /\ [NotesNext]_notesVars
        => PaymentMatchesDue'
<1> SUFFICES ASSUME NotesTypeOK, RequestsSound, PaymentMatchesDue, [NotesNext]_notesVars
             PROVE  PaymentMatchesDue'
    OBVIOUS
<1>1. /\ invoice \in InvoiceRows /\ invoice.due \in Int /\ paid \in Nat
      /\ invoice.payment \in {"Unpaid", "PartiallyPaid", "Paid"}
    BY DEF NotesTypeOK, InvoiceRows
<1>2. ASSUME UNCHANGED <<invoice, paid>> PROVE PaymentMatchesDue'
    BY <1>2 DEF PaymentMatchesDue
<1>3. ASSUME NEW type, NEW amount \in Nat, UNCHANGED paid,
             ApplyToInvoice(type, amount) \/ RevertFromInvoice(type, amount)
      PROVE  PaymentMatchesDue'
  <2>1. CASE type # "DebtCancellation"
    BY <1>2, <1>3, <2>1 DEF ApplyToInvoice, RevertFromInvoice
  <2>2. CASE type = "DebtCancellation" /\ ApplyToInvoice(type, amount)
    <3> DEFINE due == invoice.due - amount
               payment == IF due <= 0 THEN "Paid" ELSE invoice.payment
    <3>1. invoice' = [invoice EXCEPT !.due = due, !.payment = payment]
      BY <2>2 DEF ApplyToInvoice
    <3>2. due \in Int /\ due <= invoice.due
          /\ payment \in {"Unpaid", "PartiallyPaid", "Paid"}
      BY <1>1
    <3>3. invoice'.due = due /\ invoice'.payment = payment
      <4> HIDE DEF due, payment
      <4> QED BY <1>1, <3>1, <3>2 DEF InvoiceRows
    <3>4. payment = IF due <= 0 THEN "Paid" ELSE invoice.payment
      OBVIOUS
    <3> HIDE DEF due, payment
    <3> QED BY <1>1, <1>3, <3>2, <3>3, <3>4 DEF PaymentMatchesDue
  <2>3. CASE type = "DebtCancellation" /\ RevertFromInvoice(type, amount)
    <3> DEFINE due == invoice.due + amount
               payment == IF invoice.payment = "Paid" /\ due > 0
                          THEN IF paid > 0 THEN "PartiallyPaid" ELSE "Unpaid"
                          ELSE invoice.payment
    <3>1. invoice' = [invoice EXCEPT !.due = due, !.payment = payment]
      BY <2>3 DEF RevertFromInvoice
    <3>2. due \in Int /\ due >= invoice.due
          /\ payment \in {"Unpaid", "PartiallyPaid", "Paid"}
      BY <1>1
    <3>3. invoice'.due = due /\ invoice'.payment = payment
      <4> HIDE DEF due, payment
      <4> QED BY <1>1, <3>1, <3>2 DEF InvoiceRows
    <3>4. payment = IF invoice.payment = "Paid" /\ due > 0
                    THEN IF paid > 0 THEN "PartiallyPaid" ELSE "Unpaid"
                    ELSE invoice.payment
      OBVIOUS
    <3> HIDE DEF due, payment
    <3> QED BY <1>1, <1>3, <3>2, <3>3, <3>4 DEF PaymentMatchesDue
  <2> QED BY <1>3, <2>1, <2>2, <2>3
<1>4. ASSUME NEW c \in Callers, IssueCommit(c) PROVE PaymentMatchesDue'
  <2> DEFINE rows == [note EXCEPT ![NextNote] = NewRow(c, "Finalized", nextNumber)]
  <2>1. /\ \/ invoice' = [invoice EXCEPT !.status = "Void"]
           \/ ApplyToInvoice(rows[NextNote].type, CreditTotal(rows[NextNote].credit))
        /\ UNCHANGED paid /\ NotesLeft
    BY <1>4, Zenon DEF IssueCommit
  <2>2. rows \in [Notes -> NoteRow] /\ NextNote \in Notes
    BY <2>1, NewRowType, NextNoteType DEF NotesTypeOK, NoteStatus
  <2> HIDE DEF rows
  <2>3. CreditTotal(rows[NextNote].credit) \in Nat
    BY <2>2, CreditTotalType DEF NoteRow
  <2>4. CASE invoice' = [invoice EXCEPT !.status = "Void"]
    BY <1>1, <2>1, <2>4 DEF PaymentMatchesDue, InvoiceRows
  <2> QED BY <1>3, <2>1, <2>3, <2>4
<1>5. ASSUME NEW c \in Callers, FinalizeCommit(c) \/ VoidCommit(c) PROVE PaymentMatchesDue'
  <2> DEFINE n == call[c].note
  <2>1. n \in Notes
    BY <1>5 DEF RequestsSound, FinalizeCommit, VoidCommit
  <2>2. CreditTotal(note[n].credit) \in Nat
    BY <2>1, CreditTotalType DEF NotesTypeOK, NoteRow
  <2>3. /\ \/ ApplyToInvoice(note[n].type, CreditTotal(note[n].credit))
           \/ RevertFromInvoice(note[n].type, CreditTotal(note[n].credit))
        /\ UNCHANGED paid
    BY <1>5 DEF FinalizeCommit, VoidCommit
  <2> HIDE DEF n
  <2> QED BY <1>3, <2>2, <2>3
<1>6. ASSUME NEW a \in 1 .. InvoiceTotal, Settle(a) PROVE PaymentMatchesDue'
  <2> DEFINE due == invoice.due - a
             payment == IF due <= 0 THEN "Paid" ELSE "PartiallyPaid"
  <2>1. invoice' = [invoice EXCEPT !.due = due, !.payment = payment] /\ paid' = paid + a
    BY <1>6 DEF Settle
  <2>2. due \in Int /\ payment \in {"Unpaid", "PartiallyPaid", "Paid"}
    BY <1>1, InvoiceTotalType
  <2>3. invoice'.due = due /\ invoice'.payment = payment
    <3> HIDE DEF due, payment
    <3> QED BY <1>1, <2>1, <2>2 DEF InvoiceRows
  <2> QED BY <2>3 DEF PaymentMatchesDue
<1> QED
  <2>1. ASSUME NEW c \in Callers, CallerStep(c) PROVE PaymentMatchesDue'
    <3>1. ASSUME CreateReads(c) \/ VoidInvoiceRead(c) PROVE UNCHANGED <<invoice, paid>>
      BY <3>1 DEF CreateReads, CreateRead, VoidInvoiceRead
    <3>2. ASSUME NEW n \in Notes, FinalizeRead(c, n) \/ VoidRead(c, n)
          PROVE  UNCHANGED <<invoice, paid>>
      BY <3>2 DEF FinalizeRead, VoidRead
    <3>3. ASSUME \/ CreateRefused(c) \/ CreateDraft(c) \/ IssueLock(c) \/ IssueRefused(c)
                 \/ FinalizeLock(c) \/ FinalizeGone(c) \/ VoidRefused(c)
                 \/ DeadlockVictim(c) \/ Crash(c)
          PROVE  UNCHANGED <<invoice, paid>>
      BY <3>3 DEF CreateRefused, CreateDraft, IssueLock, IssueRefused, FinalizeLock,
                  FinalizeGone, VoidRefused, DeadlockVictim, Crash
    <3> QED BY <1>2, <1>4, <1>5, <2>1, <3>1, <3>2, <3>3, Zenon DEF CallerStep
  <2>2. ASSUME \/ \E n \in Notes : DeleteDraft(n)
               \/ \E a \in 1 .. InvoiceTotal : SpendBalance(a)
               \/ CorrectInvoice \/ UNCHANGED notesVars
        PROVE  UNCHANGED <<invoice, paid>>
    BY <2>2 DEF DeleteDraft, SpendBalance, CorrectInvoice, notesVars
  <2> QED BY <1>2, <1>6, <2>1, <2>2, Zenon DEF NotesNext

\* An invoice that has something due when it is finalized is Paid exactly when
\* nothing is due any more, and Unpaid only while nothing was paid, through
\* settlements, cancelled debt and its restoration.  (One that credits cover
\* whole from the start is outside: it stays Unpaid unless the caller that
\* finalizes it marks it paid.)
THEOREM PaymentStaysMatched ==
    AppliedCredits < InvoiceTotal => (NotesSpec => []PaymentMatchesDue)
<1> SUFFICES ASSUME AppliedCredits < InvoiceTotal
             PROVE  NotesSpec => []PaymentMatchesDue
    OBVIOUS
<1>1. NotesInit => PaymentMatchesDue
  <2> DEFINE total == InvoiceTotal
  <2>1. total \in Nat /\ AppliedCredits < total
    BY InvoiceTotalType
  <2>2. NotesInit => /\ invoice.due = total - AppliedCredits /\ paid = 0
                     /\ invoice.payment = "Unpaid"
    BY DEF NotesInit
  <2> HIDE DEF total
  <2> QED BY <2>1, <2>2, NotesAssumption DEF PaymentMatchesDue
<1>2. NotesTypeOK /\ RequestsSound /\ PaymentMatchesDue /\ [NotesNext]_notesVars
        => PaymentMatchesDue'
    BY PaymentMatchesStep
<1>3. AmountsInv => NotesTypeOK /\ RequestsSound
    BY DEF AmountsInv
<1> QED
    BY <1>1, <1>2, <1>3, AmountsAlways, PTL DEF NotesSpec

-----------------------------------------------------------------------------
(* Credits that were used are given back once.                             *)

\* Together the notes that count credit no more than the invoice.
LEMMA TotalCovered ==
    ASSUME AmountsInv
    PROVE  LET f == [n \in Notes |-> CreditTotal(note[n].credit)] IN
           /\ Summable(f, Live) /\ \A n \in Live : f[n] \in Nat
           /\ SumFunctionOnSet(f, Live) <= InvoiceTotal
<1> DEFINE f == [n \in Notes |-> CreditTotal(note[n].credit)]
           cr == [n \in Notes |-> note[n].credit]
           byNote == [n \in Live |-> SumFunctionOnSet([l \in Lines |-> cr[n][l]], Lines)]
           byLine == [l \in Lines |-> SumFunctionOnSet([n \in Live |-> cr[n][l]], Live)]
<1>1. /\ IsFiniteSet(Live) /\ Live \subseteq Notes /\ IsFiniteSet(Lines)
      /\ note \in [Notes -> NoteRow] /\ NotesTypeOK
    BY NotesFinite, FS_Subset, NotesAssumption DEF Live, AmountsInv, NotesTypeOK
<1>2. \A n \in Live : cr[n] \in Credit /\ cr[n] = note[n].credit
    BY <1>1 DEF NoteRow
<1>3. Summable(f, Live) /\ \A n \in Live : f[n] \in Nat
    <2>1. \A n \in Live : f[n] \in Nat
        <3> HIDE DEF cr
        <3> QED BY <1>1, <1>2, CreditTotalType
    <2> QED BY <1>1, <2>1 DEF Summable
<1>4. SumFunctionOnSet(byNote, Live) = SumFunctionOnSet(byLine, Lines)
    <2>1. \A n \in Live, l \in Lines : cr[n][l] \in Int
        BY <1>2 DEF Credit
    <2> HIDE DEF cr
    <2> QED BY <1>1, <2>1, SumSwap
<1>5. SumFunctionOnSet(byNote, Live) = SumFunctionOnSet(f, Live)
    <2>1. ASSUME NEW n \in Live PROVE f[n] = byNote[n]
        <3>1. [l \in Lines |-> cr[n][l]] = cr[n]
            <4> HIDE DEF cr
            <4> QED BY <1>2 DEF Credit
        <3>2. CreditTotal(cr[n]) = SumFunctionOnSet(cr[n], Lines)
            <4> HIDE DEF cr
            <4> QED BY <1>2, CreditTotalType
        <3>3. byNote[n] = SumFunctionOnSet([l \in Lines |-> cr[n][l]], Lines)
            <4> HIDE DEF cr
            <4> QED OBVIOUS
        <3>4. f[n] = CreditTotal(cr[n])
            BY <1>1
        <3> HIDE DEF cr, byNote, f
        <3> QED BY <3>1, <3>2, <3>3, <3>4
    <2>2. Live \subseteq DOMAIN byNote
        OBVIOUS
    <2> HIDE DEF f, byNote
    <2> QED BY <1>3, <2>1, <2>2, SumSame
<1>6. ASSUME NEW l \in Lines
      PROVE  byLine[l] = AlreadyCredited(l) /\ byLine[l] \in Int /\ byLine[l] <= Price[l]
    <2> DEFINE g == [n \in Notes |-> note[n].credit[l]]
               h == [n \in Live |-> cr[n][l]]
    <2>1. \A n \in Live : g[n] = h[n] /\ g[n] \in Int
        <3>1. \A n \in Live : h[n] = cr[n][l] /\ cr[n][l] \in Int
            <4> HIDE DEF cr
            <4> QED BY <1>2 DEF Credit
        <3>2. \A n \in Live : g[n] = note[n].credit[l]
            BY <1>1
        <3> HIDE DEF cr, g, h
        <3> QED BY <1>2, <3>1, <3>2
    <2>2. Live \subseteq DOMAIN g /\ Live \subseteq DOMAIN h
        BY <1>1
    <2>3. SumFunctionOnSet(h, Live) = SumFunctionOnSet(g, Live)
        <3> HIDE DEF g, h
        <3> QED BY <1>1, <2>1, <2>2, SumSame DEF Summable
    <2>4. AlreadyCredited(l) = SumFunctionOnSet(g, Live)
        BY DEF AlreadyCredited, SumOver, SumFunctionOnSet
    <2>5. byLine[l] = SumFunctionOnSet(h, Live)
        <3> HIDE DEF cr
        <3> QED OBVIOUS
    <2>6. AlreadyCredited(l) \in Int /\ AlreadyCredited(l) <= Price[l]
        BY <1>1, RemainingType DEF AmountsInv, LinesNotOvercredited
    <2> HIDE DEF g, h, byLine
    <2> QED BY <2>3, <2>4, <2>5, <2>6
<1>7. SumFunctionOnSet(byLine, Lines) <= InvoiceTotal
    <2>1. DOMAIN byLine = Lines
        OBVIOUS
    <2> HIDE DEF byLine
    <2>2. Summable(byLine, Lines)
        BY <1>1, <1>6, <2>1 DEF Summable
    <2>3. SumFunctionOnSet(byLine, Lines) <= SumFunctionOnSet(Price, Lines)
        BY <1>6, <2>2, InvoiceTotalType, SumMonotone
    <2> QED BY <2>3, InvoiceTotalType
<1>8. SumFunctionOnSet(f, Live) <= InvoiceTotal
    <2> HIDE DEF f, byNote, byLine
    <2> QED BY <1>4, <1>5, <1>7
<1> QED BY <1>3, <1>8

\* Rounding each refund's share adds up to half a cent for each.
LEMMA RestoredBounded == AmountsInv => RestoredCreditsBounded
<1> SUFFICES ASSUME AmountsInv PROVE RestoredCreditsBounded
    OBVIOUS
<1> DEFINE refunds == {n \in Live : note[n].type = "Refund"}
           A == AppliedCredits
           T == InvoiceTotal
           A2 == 2 * A
           T2 == 2 * T
           amount == [n \in Notes |-> CreditTotal(note[n].credit)]
           credited == [n \in Notes |-> note[n].credited]
           X == SumFunctionOnSet(amount, refunds)
           C == SumFunctionOnSet(credited, refunds)
           N == Cardinality(refunds)
<1>1. A \in Nat /\ T \in Nat \ {0}
    BY NotesAssumption, InvoiceTotalType
<1>2. /\ IsFiniteSet(refunds) /\ refunds \subseteq Live /\ Live \subseteq Notes
      /\ note \in [Notes -> NoteRow] /\ N \in Nat
    BY NotesFinite, FS_Subset, FS_CardinalityType DEF Live, AmountsInv, NotesTypeOK
<1>3. Summable(amount, refunds) /\ X <= T /\ X \in Int
    <2>1. /\ Summable(amount, Live) /\ \A n \in Live : amount[n] \in Nat
          /\ SumFunctionOnSet(amount, Live) <= T
        BY TotalCovered
    <2> HIDE DEF amount, refunds, T
    <2>2. /\ Summable(amount, refunds)
          /\ SumFunctionOnSet(amount, refunds) <= SumFunctionOnSet(amount, Live)
        BY <1>2, <2>1, SumOfSubset
    <2>3. SumFunctionOnSet(amount, Live) \in Int /\ X \in Int
        BY <2>1, <2>2, SumInt
    <2> QED BY <1>1, <2>1, <2>2, <2>3
<1>4. Summable(credited, refunds) /\ C \in Int
    <2>1. Summable(credited, refunds)
        BY <1>2 DEF Summable, NoteRow
    <2> HIDE DEF credited, refunds
    <2> QED BY <2>1, SumInt
<1>5. ASSUME NEW n \in refunds
      PROVE  /\ amount[n] \in Nat /\ credited[n] \in Int
             /\ 2 * (T * credited[n]) <= 2 * (A * amount[n]) + T
    <2>1. amount[n] \in Nat
        BY <1>2, CreditTotalType DEF NoteRow
    <2>2. n \in Live /\ credited[n] = note[n].credited /\ note[n].type = "Refund"
          /\ amount[n] = CreditTotal(note[n].credit)
        BY <1>2
    <2> HIDE DEF amount, credited, T, A
    <2>3. credited[n] = AppliedPortion(amount[n])
        BY <2>2 DEF AmountsInv, CreditedComputed, CreditedAmount
    <2>4. credited[n] = RoundHalfEven(A * amount[n], T)
        BY <2>3 DEF AppliedPortion, A, T
    <2>5. A * amount[n] \in Nat
        BY <1>1, <2>1
    <2>6. /\ credited[n] \in Nat
          /\ 2 * (T * credited[n]) <= 2 * (A * amount[n]) + T
        BY <1>1, <2>4, <2>5, RoundHalfEvenBound
    <2> QED BY <2>1, <2>6
<1> DEFINE f == [n \in Notes |-> A2 * amount[n]]
           ones == [n \in Notes |-> 1]
           g == [n \in Notes |-> T * ones[n]]
           h == [n \in Notes |-> T2 * credited[n]]
           k == [n \in Notes |-> f[n] + g[n]]
<1>6. /\ \A n \in refunds : /\ f[n] = A2 * amount[n] /\ ones[n] = 1
                            /\ g[n] = T * ones[n] /\ h[n] = T2 * credited[n]
                            /\ k[n] = f[n] + g[n] /\ h[n] <= k[n]
      /\ DOMAIN f = Notes /\ DOMAIN g = Notes /\ DOMAIN h = Notes /\ DOMAIN k = Notes
      /\ DOMAIN ones = Notes
    <2>1. ASSUME NEW n \in refunds
          PROVE  /\ f[n] = A2 * amount[n] /\ ones[n] = 1
                 /\ g[n] = T * ones[n] /\ h[n] = T2 * credited[n]
                 /\ k[n] = f[n] + g[n]
        <3> HIDE DEF A2, T2, T, amount, credited, refunds
        <3> QED BY <1>2
    <2>2. ASSUME NEW n \in refunds PROVE h[n] <= k[n]
        <3> HIDE DEF A, T, amount, credited, refunds, f, g, h, k, ones
        <3>1. \A a, b \in Int : (2 * a) * b = 2 * (a * b)
            OBVIOUS
        <3>2. /\ f[n] = 2 * (A * amount[n]) /\ h[n] = 2 * (T * credited[n]) /\ g[n] = T
            BY <1>1, <1>5, <2>1, <3>1
        <3> QED BY <1>5, <2>1, <3>2
    <2> QED BY <2>1, <2>2
<1>7. T2 * C <= A2 * X + T * N
    <2> HIDE DEF A, T, A2, T2, X, C, N, amount, credited, refunds, f, g, h, k, ones
    <2>1. A2 \in Int /\ T2 \in Int /\ T \in Int
        BY <1>1 DEF A2, T2
    <2>2. Summable(f, refunds) /\ SumFunctionOnSet(f, refunds) = A2 * X
        BY <1>2, <1>3, <1>6, <2>1, SumTimes DEF X
    <2>3. Summable(h, refunds) /\ SumFunctionOnSet(h, refunds) = T2 * C
        <3>1. refunds \subseteq DOMAIN h /\ \A n \in refunds : h[n] = T2 * credited[n]
            BY <1>2, <1>6
        <3>2. Summable(credited, refunds) /\ T2 \in Int
            BY <1>4, <2>1
        <3>3. /\ Summable(h, refunds)
              /\ SumFunctionOnSet(h, refunds) = T2 * SumFunctionOnSet(credited, refunds)
            BY <3>1, <3>2, SumTimes
        <3> QED BY <3>3 DEF C
    <2>4. Summable(ones, refunds) /\ SumFunctionOnSet(ones, refunds) = N
        BY <1>2, <1>6, SumOnes DEF N
    <2>5. Summable(g, refunds) /\ SumFunctionOnSet(g, refunds) = T * N
        <3>1. refunds \subseteq DOMAIN g /\ \A n \in refunds : g[n] = T * ones[n]
            BY <1>2, <1>6
        <3> QED BY <2>1, <2>4, <3>1, SumTimes
    <2>6. /\ Summable(k, refunds)
          /\ SumFunctionOnSet(k, refunds) = SumFunctionOnSet(f, refunds)
                                          + SumFunctionOnSet(g, refunds)
        BY <1>2, <1>6, <2>2, <2>5, SumPlus
    <2>7. SumFunctionOnSet(h, refunds) <= SumFunctionOnSet(k, refunds)
        BY <1>6, <2>3, <2>6, SumMonotone
    <2> QED BY <2>2, <2>3, <2>5, <2>6, <2>7
<1>8. 2 * C <= 2 * A + N
    <2> HIDE DEF A, T, X, C, N
    <2> USE DEF A2, T2
    <2>1. (2 * A) * X <= (2 * A) * T
        BY <1>1, <1>3
    <2>2. (2 * T) * C <= (2 * A) * T + T * N
        BY <1>1, <1>2, <1>3, <1>4, <1>7, <2>1
    <2>3. T * (2 * C) <= T * (2 * A + N)
        BY <1>1, <1>2, <1>4, <2>2
    <2>4. \A a, b \in Int : T * a <= T * b => a <= b
        BY <1>1
    <2> QED BY <1>1, <1>2, <1>4, <2>3, <2>4
<1>9. C = SumOver(LAMBDA n : note[n].credited, refunds)
    BY DEF SumOver, SumFunctionOnSet
<1> HIDE DEF C, N, A
<1> QED BY <1>8, <1>9 DEF RestoredCreditsBounded, N, A

\* The refunds of an invoice give back the credits it had used and no more, but
\* for half a cent of rounding for each: for any prices and any split of them.
THEOREM RestoredStaysBounded == NotesSpec => []RestoredCreditsBounded
    BY AmountsAlways, RestoredBounded, PTL

=============================================================================
